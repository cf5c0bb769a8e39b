SPECIFICATION WindowSpec
CONSTANTS
  Range = 16
  FLAG_DETECTION_DURATION = 4
  MaxFrame = 2
  Patience = 9
INVARIANTS AtMostTenSeconds
