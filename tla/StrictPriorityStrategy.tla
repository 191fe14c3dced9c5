----------------------- MODULE StrictPriorityStrategy -----------------------
(***************************************************************************)
(* A worker on all the queues of the dispatcher, which picks the queue to  *)
(* poll with StrictPriorityStrategy: heaviest queue first, the next one    *)
(* after an empty poll, back to the first one after a task.                *)
(*                                                                         *)
(* Queues are numbered in the order of the configuration.  A queue is the  *)
(* number of its visible messages; that another worker takes some of them  *)
(* is a step as well.                                                      *)
(***************************************************************************)
EXTENDS FiniteSets, Naturals

CONSTANTS
  Queues,       \* how many queues the dispatcher has
  Weight,       \* Weight[q]: the weight of queue q
  MaxMessages   \* bound on the messages that arrive

Queue == 1..Queues

ASSUME SelectorAssumption ==
  /\ Queues \in Nat \ {0}
  /\ Weight \in [Queue -> Nat]
  /\ MaxMessages \in Nat

VARIABLES
  pending,         \* pending[q]: visible messages of queue q
  sent,            \* messages that have arrived
  nextQueueIndex,  \* the strategy's state
  picked,          \* the queue a task was last picked from, 0 without a task
  slept,           \* the worker is about to sleep for getWaitTime() seconds
  barren           \* history: queues polled in vain since the last task

vars == <<pending, sent, nextQueueIndex, picked, slept, barren>>

TypeOK ==
  /\ pending \in [Queue -> Nat]
  /\ sent \in 0..MaxMessages
  /\ nextQueueIndex \in 0..Queues
  /\ picked \in Queue \cup {0}
  /\ slept \in {0, 5}
  /\ barren \subseteq Queue

Init ==
  /\ pending = [q \in Queue |-> 0]
  /\ sent = 0
  /\ nextQueueIndex = 0
  /\ picked = 0
  /\ slept = 0
  /\ barren = {}

\* sortQueues(): q is sorted before r.  The sort is stable.
Heavier(q, r) == Weight[q] > Weight[r] \/ (Weight[q] = Weight[r] /\ q < r)

\* The queues before q in sortedQueues.
Above(q) == {r \in Queue : Heavier(r, q)}

\* sortedQueues[i]; the index starts with 0.
SortedQueue(i) == CHOOSE q \in Queue : Cardinality(Above(q)) = i

\* The index pickNextTask() starts with.
Index == IF nextQueueIndex > Queues - 1 THEN 0 ELSE nextQueueIndex

\* Mutant of WaitTime: off by one.
WaitTimeEarly(n) == IF n + 1 >= Queues THEN 5 ELSE 0

\* getWaitTime() after a poll that left nextQueueIndex at n.
WaitTime(n) == IF n = Queues THEN 5 ELSE 0

Arrive(q) ==
  /\ sent < MaxMessages
  /\ sent' = sent + 1
  /\ pending' = [pending EXCEPT ![q] = @ + 1]
  /\ UNCHANGED <<nextQueueIndex, picked, slept, barren>>

\* Another worker takes a message.
Taken(q) ==
  /\ pending[q] > 0
  /\ pending' = [pending EXCEPT ![q] = @ - 1]
  /\ UNCHANGED <<sent, nextQueueIndex, picked, slept, barren>>

\* The queues polled in vain in this round and since the last task.
RoundBarren == IF Index = 0 \/ picked # 0 THEN {} ELSE barren

\* A message is used up without a task: it is no task, and nothing else was in
\* its batch.
BadMessage(q) ==
  /\ pending[q] > 0
  /\ pending' = [pending EXCEPT ![q] = @ - 1]

\* Mutant of PickTask: the next pick goes on with the same queue.
PickAndStay ==
  LET q == SortedQueue(Index) IN
    /\ pending[q] > 0
    /\ pending' = [pending EXCEPT ![q] = @ - 1]
    /\ picked' = q
    /\ nextQueueIndex' = Index
    /\ slept' = 0
    /\ barren' = RoundBarren
    /\ UNCHANGED sent

\* pickNextTask() returns a task.
PickTask ==
  LET q == SortedQueue(Index) IN
    /\ pending[q] > 0
    /\ pending' = [pending EXCEPT ![q] = @ - 1]
    /\ picked' = q
    /\ nextQueueIndex' = 0
    /\ slept' = 0
    /\ barren' = RoundBarren
    /\ UNCHANGED sent

\* Mutant of PickNothing: the last queue is polled again and again.
PickNothingAndStay ==
  LET q == SortedQueue(Index) IN
    /\ \/ UNCHANGED pending /\ pending[q] = 0
       \/ BadMessage(q)
    /\ picked' = 0
    /\ nextQueueIndex' = IF Index = Queues - 1 THEN Index ELSE Index + 1
    /\ slept' = WaitTime(nextQueueIndex')
    /\ barren' = RoundBarren \cup {q}
    /\ UNCHANGED sent

\* pickNextTask() returns null; the worker sleeps for getWaitTime().
PickNothing ==
  LET q == SortedQueue(Index) IN
    /\ \/ UNCHANGED pending /\ pending[q] = 0
       \/ BadMessage(q)
    /\ picked' = 0
    /\ nextQueueIndex' = Index + 1
    /\ slept' = WaitTime(nextQueueIndex')
    /\ barren' = RoundBarren \cup {q}
    /\ UNCHANGED sent

\* dequeue() throws, before it took a message or (its status could not be
\* written) after: the index stays, and the worker polls again at once.
PickFails ==
  /\ UNCHANGED pending \/ BadMessage(SortedQueue(Index))
  /\ picked' = 0
  /\ nextQueueIndex' = Index
  /\ slept' = 0
  /\ barren' = RoundBarren
  /\ UNCHANGED sent

Next ==
  \/ \E q \in Queue : Arrive(q) \/ Taken(q)
  \/ PickTask \/ PickNothing \/ PickFails

Spec == Init /\ [][Next]_vars

\* The worker goes on polling, and not every poll fails.
FairSpec == Spec /\ SF_vars(PickTask \/ PickNothing)

-----------------------------------------------------------------------------
\* A task comes from a queue only when every heavier queue was polled in the
\* same round, after the task before, and gave none, whatever arrives or is
\* taken meanwhile (StrictPriorityStrategy::pickNextTask).
StrictPriority ==
  picked # 0 => \A r \in Queue : Weight[r] > Weight[picked] => r \in barren

\* The worker sleeps only after a whole round without a task.
SleepsAfterRound == slept = 5 => barren = Queue

\* A light queue is not forgotten: as soon as no more messages arrive, those
\* of every queue are picked.
EveryQueueServed == \A q \in Queue : pending[q] > 0 ~> pending[q] = 0
=============================================================================
