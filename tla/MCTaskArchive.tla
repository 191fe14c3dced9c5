---------------------------- MODULE MCTaskArchive ----------------------------
(***************************************************************************)
(* Small instances of TaskArchive for TLC.                                 *)
(***************************************************************************)
EXTENDS TaskArchive

CONSTANTS
  par, r, s,      \* a parent, its child, which waits for a remote task, and a clone
  w1, w2          \* worker processes

\* The synchroniser and its clone are children of par.
Family == [t \in Task |-> IF t \in {r, s} THEN par ELSE NoTask]
=============================================================================
