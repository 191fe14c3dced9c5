--------------------------- MODULE TaskListPromise ---------------------------
(***************************************************************************)
(* What the list of background tasks promises to its reader, with answers, *)
(* rows and clicks left out: a task it shows was, at some time, in the     *)
(* state it is shown in, however the records move, and never in one it has *)
(* yet to reach; and it asks to archive a task only after that finished.   *)
(***************************************************************************)
EXTENDS Naturals

CONSTANT Task

VARIABLES
  server,    \* server[t]: the category of t's record on the server
  was,       \* was[t]: the states t's record was in so far
  view,      \* view[t]: the states t is shown in, by the list's rows
  asked      \* the tasks the server is asked to archive, one by one

State == {"in_progress", "completed", "failed"}

Category == State \cup {"absent", "created", "archived", "deleted"}

\* A created task is shown as one in progress; what is not there is not shown.
StateOf(c) ==
  CASE c \in State     -> {c}
    [] c = "created"   -> {"in_progress"}
    [] OTHER           -> {}

Init ==
  /\ server = [t \in Task |-> "absent"]
  /\ was = [t \in Task |-> {}]
  /\ view = [t \in Task |-> {}]
  /\ asked = {}

\* Records move freely.
Work ==
  /\ server' \in [Task -> Category]
  /\ was' = [t \in Task |-> was[t] \cup StateOf(server'[t])]
  /\ UNCHANGED <<view, asked>>

Show ==
  /\ view' \in [Task -> SUBSET State]
  /\ \A t \in Task : view'[t] \subseteq was[t]
  /\ \A t \in asked' \ asked : was[t] \cap {"completed", "failed"} # {}
  /\ UNCHANGED <<server, was>>

Spec == Init /\ [][Work \/ Show]_<<server, was, view, asked>>
=============================================================================
