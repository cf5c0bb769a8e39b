SPECIFICATION Spec
CONSTANTS
  MUSIC_SIZE = 3
  Country = {"FRANCE", "ITALY"}
  UNDEFINED_FLAG = "UNDEFINED_FLAG"
  Songs <- MCSongs
  note_offset = 1
  Selector = {0, 1}
  CameraYields = FALSE
  Prompt = TRUE
INVARIANTS StartsAtFirstNote
