--------------------------- MODULE RdsQueueBroker ---------------------------
(***************************************************************************)
(* The queue table of the SQL broker and the messages every worker process *)
(* has pre-fetched from it.  A message is the serialised task; a task is   *)
(* pushed once, so that the task's id also names its row.                  *)
(*                                                                         *)
(* doPop() is one transaction (SELECT ... FOR UPDATE, UPDATE, COMMIT) and  *)
(* is one step.  created_at, the order of the SELECT, has a resolution of  *)
(* a second and ties come in any order: a batch is any set of visible rows *)
(* of the right size, and pre-fetched messages are a set.                  *)
(***************************************************************************)
EXTENDS TaskModel, FiniteSets, Naturals

CONSTANTS
  Worker,         \* the worker processes
  Receive,        \* numberOfTasksToReceive
  Invalid,        \* tasks whose message cannot be turned back into a task
  CommitMayFail   \* TRUE: the COMMIT of doPop() may throw

ASSUME BrokerAssumption ==
  /\ Receive \in Nat \ {0}
  /\ Invalid \subseteq Task
  /\ CommitMayFail \in BOOLEAN

VARIABLES
  table,      \* table[t]: the row of t's message, by its "visible" column
  prefetch    \* prefetch[w]: messages fetched by w and not yet returned

brokerVars == <<table, prefetch>>

RowState == {"none", "visible", "hidden", "gone"}

BrokerTypeOK ==
  /\ table \in [Task -> RowState]
  /\ prefetch \in [Worker -> SUBSET Task]

BrokerInit ==
  /\ table = [t \in Task |-> "none"]
  /\ prefetch = [w \in Worker |-> {}]

Visible == {t \in Task : table[t] = "visible"}

\* Mutant of Batches: the SELECT does not filter on "visible".
BatchesOfAnyRow ==
  {B \in SUBSET {t \in Task : table[t] \in {"visible", "hidden"}} :
     Cardinality(B) <= Receive}

\* The result of the SELECT: visible rows, as many as asked for if possible.
Batches ==
  {B \in SUBSET Visible :
     \/ B = Visible /\ Cardinality(B) <= Receive
     \/ Cardinality(B) = Receive}

\* push(): inserts the row, visible by default.
Push(t) ==
  /\ table[t] = "none"
  /\ table' = [table EXCEPT ![t] = "visible"]
  /\ UNCHANGED prefetch

\* Mutant of Hide: the UPDATE that hides the batch is missing.
HideNothing(B, D) ==
  table' = [t \in Task |-> IF t \in D THEN "gone" ELSE table[t]]

\* The table after doPop() committed: the batch is hidden, and the messages
\* of D, which unserializeTask() rejected, are deleted.
Hide(B, D) ==
  table' = [t \in Task |-> IF t \in D THEN "gone"
                           ELSE IF t \in B THEN "hidden" ELSE table[t]]

\* Mutant of Rejected: one bad message takes its batch along.
RejectedBatch(B) == IF B \cap Invalid = {} THEN {{}} ELSE {B}

\* The rejected messages of the batch; doDelete() swallows its own errors.
Rejected(B) == IF Faults THEN SUBSET (B \cap Invalid) ELSE {B \cap Invalid}

\* pop() returning t: from the pre-fetched messages if there are any, else
\* from a new batch.  When COMMIT throws, the rows are visible again after
\* the rollback but the messages are already pre-fetched.
Pop(w, t) ==
  \/ /\ t \in prefetch[w]
     /\ prefetch' = [prefetch EXCEPT ![w] = @ \ {t}]
     /\ UNCHANGED table
  \/ /\ prefetch[w] = {}
     /\ \E B \in Batches :
          /\ t \in B \ Invalid
          /\ prefetch' = [prefetch EXCEPT ![w] = B \ (Invalid \cup {t})]
          /\ \/ \E D \in Rejected(B) : Hide(B, D)
             \/ CommitMayFail /\ UNCHANGED table

\* pop() returning null: no visible row, or none that is a task.
PopNothing(w) ==
  /\ prefetch[w] = {}
  /\ \E B \in Batches :
       /\ B \subseteq Invalid
       /\ \E D \in Rejected(B) : Hide(B, D)
  /\ UNCHANGED prefetch

\* Mutant of Delete: visible rows only.
DeleteVisible(t) ==
  /\ table' = [table EXCEPT ![t] = IF @ = "visible" THEN "gone" ELSE @]
  /\ UNCHANGED prefetch

\* doDelete(): DELETE ... WHERE id = :id AND visible = 0; errors are logged.
Delete(t) ==
  /\ \/ table' = [table EXCEPT ![t] = IF @ = "hidden" THEN "gone" ELSE @]
     \/ Faults /\ UNCHANGED table
  /\ UNCHANGED prefetch

\* The process of w ends: what it had pre-fetched was only in its memory.
ForgetPrefetched(w) ==
  /\ prefetch' = [prefetch EXCEPT ![w] = {}]
  /\ UNCHANGED table
=============================================================================
