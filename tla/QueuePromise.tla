---------------------------- MODULE QueuePromise ----------------------------
(***************************************************************************)
(* What the task queue promises to those who enqueue, with its tables,     *)
(* workers and processes left out: a task that was accepted is started at  *)
(* most once, and its message disappears after the task was started or     *)
(* because nobody could ever start it.                                     *)
(***************************************************************************)
EXTENDS Naturals

CONSTANTS Task,      \* the tasks
          Invalid    \* tasks whose message cannot be turned back into a task

VARIABLES stage,     \* stage[t]: how far t has come
          starts     \* starts[t]: how many times t was started

TypeOK ==
  /\ stage \in [Task -> {"new", "accepted", "started", "settled", "discarded"}]
  /\ starts \in [Task -> Nat]

Init ==
  /\ stage = [t \in Task |-> "new"]
  /\ starts = [t \in Task |-> 0]

Move(t, from, to) ==
  /\ stage[t] = from
  /\ stage' = [stage EXCEPT ![t] = to]

Accept(t) == Move(t, "new", "accepted") /\ UNCHANGED starts

Start(t) ==
  /\ Move(t, "accepted", "started")
  /\ starts' = [starts EXCEPT ![t] = @ + 1]

Settle(t) == Move(t, "started", "settled") /\ UNCHANGED starts

\* Messages that are no tasks leave in the batches they were fetched in.
Discard(D) ==
  /\ D \subseteq Invalid
  /\ \A t \in D : stage[t] = "accepted"
  /\ stage' = [t \in Task |-> IF t \in D THEN "discarded" ELSE stage[t]]
  /\ UNCHANGED starts

Next ==
  \/ \E t \in Task : Accept(t) \/ Start(t) \/ Settle(t)
  \/ \E D \in SUBSET Task : Discard(D)

Spec == Init /\ [][Next]_<<stage, starts>>
=============================================================================
