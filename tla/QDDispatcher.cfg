SPECIFICATION FairSpec
CONSTANTS
  Task = {x, y, z}
  NoTask = NoTask
  standard = standard
  priority = priority
  Queue = {standard, priority}
  NoQueue = NoQueue
  Default = standard
  w1 = w1
  w2 = w2
  Worker = {w1, w2}
  Dedicated <- OneDedicated
  Receive = 2
  MaxConfigs = 2
  MaxStops = 1
INVARIANTS
  ExecutedOnce
  AcknowledgedIsDeleted
  DeletedIsAcknowledged
  UnchangedIsExact
PROPERTIES
  QueuesAreServed
CHECK_DEADLOCK FALSE
