SPECIFICATION FairSpec
CONSTANTS
  Receive = 3
  Limits = {0, 2}
  MaxMessages = 7
  MaxIdle = 2
INVARIANTS
  BatchesAreFinished
  PauseHolds
PROPERTIES
  ShutdownStops
  LimitEnds
  QueueDrains
CHECK_DEADLOCK FALSE
