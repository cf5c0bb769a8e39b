SPECIFICATION PlaybackSpec
CONSTANTS
  Range = 4096
  MUSIC_SIZE = 55
  note_offset = 20
  IDLE = 100
  Rythms <- BookRythms
  Starts = {0}
  Holds = {70, 130}
  MaxHeld = 300
  Written <- Book
  Sixteenths <- BookSixteenths
INVARIANTS PlaybackInv TempoKept NeverOversleeps PlayedInFull
