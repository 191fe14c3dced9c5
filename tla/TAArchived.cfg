SPECIFICATION ArchiveFairSpec
CONSTANTS
  par = par
  r = r
  s = s
  w1 = w1
  w2 = w2
  NoTask = NoTask
  Task = {par, r, s}
  Parent <- Family
  MasterStatus = {par}
  Remote = {r, s}
  Clone = {s}
  Faults = FALSE
  Worker = {w1, w2}
  Receive = 2
  Invalid = {}
  CommitMayFail = FALSE
  MaxCrashes = 0
  Forced = TRUE
  MaxArchives = 2
INVARIANTS
  RemoteReported
  AccountedFor
PROPERTIES
  StaysArchived
  KeepsPromise
  HandledOrRemoved
