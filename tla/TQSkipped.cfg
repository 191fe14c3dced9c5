SPECIFICATION Spec
CONSTANTS
  a = a
  b = b
  x = x
  par = par
  c1 = c1
  c2 = c2
  r = r
  s = s
  w1 = w1
  w2 = w2
  NoTask = NoTask
  Task = {a}
  Parent <- Family
  MasterStatus = {}
  Remote = {}
  Clone = {}
  Faults = FALSE
  Worker = {w1, w2}
  Receive = 1
  Invalid = {}
  CommitMayFail = FALSE
  MaxCrashes = 0
PROPERTIES
  SkippedOnlyIfClaimed
