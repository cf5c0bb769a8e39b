SPECIFICATION BandsSpec
CONSTANTS
  IMAGE_BUFFER_SIZE = 640
  MIN_GROUP_SIZE = 15
  MIN_COLOR_BAND_WIDTH = 80
  MAX_NUM_COLOR_BANDS = 10
  Lines <- ColorfulLines
INVARIANTS BandsFit
