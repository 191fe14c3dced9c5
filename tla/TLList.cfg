SPECIFICATION Spec
CONSTANTS
  Task = {t1, t2}
  NoTask = NoTask
  Here = {t1}
  MaxEvents = 3
INVARIANTS
  RowsBacked
  BadgeAgrees
  OutsideClickCloses
PROPERTIES
  KeepsListPromise
  ListConverges
