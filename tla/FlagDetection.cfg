SPECIFICATION BandsSpec
CONSTANTS
  IMAGE_BUFFER_SIZE = 12
  MIN_GROUP_SIZE = 2
  MIN_COLOR_BAND_WIDTH = 3
  MAX_NUM_COLOR_BANDS = 5
  Lines <- ShortLines
  Intensity <- Extremes
INVARIANTS BandsInv CompactsBehind BandsRight FlagShown HueIsStrongest
