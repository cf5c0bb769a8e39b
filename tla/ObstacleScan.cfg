SPECIFICATION ScanSpec
CONSTANTS
  Sensors = 4
  OBSTACLE_THRESHOLD = 100
  Proximity <- MCProximity
INVARIANTS ScanInv ObstacleSeen NoFalseAlarm
