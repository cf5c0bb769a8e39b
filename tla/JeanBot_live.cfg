SPECIFICATION FairSpec
CONSTANTS
  MUSIC_SIZE = 2
  Country = {"FRANCE"}
  UNDEFINED_FLAG = "UNDEFINED_FLAG"
  Songs <- MCSongs
  note_offset = 1
  Selector = {0, 1}
  CameraYields = TRUE
  Prompt = FALSE
PROPERTIES ObstacleStopsRobot Settles SoundEnds
