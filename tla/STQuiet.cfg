SPECIFICATION ToolSpec
CONSTANTS
  a = a
  b = b
  n = n
  x = x
  w1 = w1
  w2 = w2
  NoTask = NoTask
  Task = {a, n, x}
  Parent <- NoFamily
  MasterStatus = {}
  Remote = {}
  Clone = {}
  Faults = TRUE
  Worker = {w1, w2}
  Receive = 1
  Invalid = {x}
  CommitMayFail = FALSE
  MaxCrashes = 1
  MaxSearches = 2
SYMMETRY Symmetry
INVARIANTS
  
  ReplacedOnce
