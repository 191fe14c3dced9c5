SPECIFICATION Spec
CONSTANTS
  Task = {t1}
  NoTask = NoTask
  Here = {t1}
  MaxEvents = 1
INVARIANTS
  OneRowPerTask
