SPECIFICATION Spec
CONSTANTS
  a = a
  b = b
  x = x
  par = par
  c1 = c1
  c2 = c2
  r = r
  s = s
  w1 = w1
  w2 = w2
  NoTask = NoTask
  Task = {par, r, s, x}
  Parent <- RemoteFamily
  MasterStatus = {par}
  Remote = {r, s}
  Clone = {s}
  Faults = TRUE
  Worker = {w1, w2}
  Receive = 2
  Invalid = {x}
  CommitMayFail = FALSE
  MaxCrashes = 1
INVARIANTS
  TypeOK
  AtMostOnce
  Exclusive
  NothingLost
  EnqueuedIsRestartable
  OneOfTheChain
PROPERTIES
  OwnStatusMovesForward
  KeepsPromise
