---------------------------- MODULE MCTaskQueue ----------------------------
(***************************************************************************)
(* Small instances of TaskQueue for TLC.  A configuration picks the tasks  *)
(* it is about; whatever family they belong to is fixed here.              *)
(***************************************************************************)
EXTENDS TaskQueue

CONSTANTS
  a, b, x,        \* tasks on their own; the message of x is not a task
  par, c1, c2,    \* a parent and its children
  r, s,           \* a synchroniser of a remote task and its clone
  w1, w2          \* worker processes

\* The parent of each task, as far as it is among the tasks of the run.
Family ==
  [t \in Task |-> IF t \in {c1, c2} THEN par ELSE NoTask]

\* The same with the synchroniser and its clone as children of par.
RemoteFamily ==
  [t \in Task |-> IF t \in {r, s} THEN par ELSE NoTask]
=============================================================================
