------------------------- MODULE MCStuckTaskRestart -------------------------
(***************************************************************************)
(* Small instances of StuckTaskRestart for TLC.                            *)
(***************************************************************************)
EXTENDS StuckTaskRestart, TLC

CONSTANTS
  a, b, n, x,    \* tasks; the message of x is not a task
  w1, w2         \* worker processes

\* Workers are alike, and so are the tasks whose message is one.
Symmetry == Permutations({w1, w2}) \cup Permutations({a, n})

NoFamily == [t \in Task |-> NoTask]
=============================================================================
