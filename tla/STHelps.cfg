SPECIFICATION ToolFairSpec
CONSTANTS
  a = a
  b = b
  n = n
  x = x
  w1 = w1
  w2 = w2
  NoTask = NoTask
  Task = {a, b}
  Parent <- NoFamily
  MasterStatus = {}
  Remote = {}
  Clone = {}
  Faults = FALSE
  Worker = {w1, w2}
  Receive = 2
  Invalid = {}
  CommitMayFail = FALSE
  MaxCrashes = 1
  MaxSearches = 2
INVARIANTS
  ExecutedOncePerRestart
PROPERTIES
  RestartHelps
