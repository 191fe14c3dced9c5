SPECIFICATION SelectorsSpec
CONSTANTS
  Queues = 3
  Weight <- Weights
  MaxMessages = 4
  Configurations <- UpToThreeQueues
INVARIANTS
  StrictPriority
  SleepsAfterRound
  ProportionalChance
PROPERTIES
  EveryQueueServed
