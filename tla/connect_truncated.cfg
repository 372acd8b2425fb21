CONSTANTS
  MaxRelayed = 2
  HighWater = 2
SPECIFICATION ConnectSpec
INVARIANTS ResponseIsDrained
CHECK_DEADLOCK FALSE
