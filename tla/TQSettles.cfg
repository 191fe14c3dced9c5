SPECIFICATION FairSpec
CONSTANTS
  a = a
  b = b
  x = x
  par = par
  c1 = c1
  c2 = c2
  r = r
  s = s
  w1 = w1
  w2 = w2
  NoTask = NoTask
  Task = {par, c1, c2, r, s}
  Parent <- Family
  MasterStatus = {}
  Remote = {r, s}
  Clone = {s}
  Faults = FALSE
  Worker = {w1}
  Receive = 2
  Invalid = {}
  CommitMayFail = FALSE
  MaxCrashes = 0
INVARIANTS
  FamilyVerdict
  AckedIsReported
PROPERTIES
  RemoteSettles
  EventuallyHandled
