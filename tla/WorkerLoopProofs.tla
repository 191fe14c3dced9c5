-------------------------- MODULE WorkerLoopProofs --------------------------
(***************************************************************************)
(* A worker with a limit finishes the batches it begins, and a paused one  *)
(* begins nothing, for any batch size and any limit.                       *)
(***************************************************************************)
EXTENDS WorkerLoop, TLAPS

\* As long as the last batch did not follow a vain poll, the iterations left
\* are enough for what is pre-fetched and, before a batch, for all of it.
RoomLeft ==
  /\ pc \in {"check", "process"} /\ maxIterations > 0 /\ idleBefore = 0
       => held <= maxIterations - iterations
  /\ pc = "dequeue" /\ maxIterations > 0 /\ idleBefore = 0
       => held <= maxIterations - iterations + 1
  /\ pc = "dequeue" /\ maxIterations > 0 /\ held = 0 /\ idle = 0
       => Receive <= maxIterations - iterations + 1
  /\ pc = "stopped" => shutdown \/ held = 0 \/ idleBefore > 0

\* Only a task that was on its way out of the queue is begun in a pause.
PauseInv ==
  /\ begun <= 1
  /\ pc = "dequeue" /\ paused => begun = 0

LoopInv == TypeOK /\ RoomLeft /\ PauseInv

LEMMA ProductNat == ASSUME NEW m \in Nat, NEW n \in Nat PROVE m * n \in Nat
OBVIOUS

\* What RunWorker passes on is a number of batches.
LEMMA MaxIterationsNat ==
  ASSUME NEW n \in {limit * Receive : limit \in Limits} PROVE n \in Nat
<1>1. PICK limit \in Limits : n = limit * Receive
  OBVIOUS
<1>2. limit \in Nat /\ Receive \in Nat
  BY LoopAssumption
<1> QED BY <1>1, <1>2, ProductNat

\* The first iterations have room for a batch: the invariant holds initially.
LEMMA LoopInvInit == Init => LoopInv
<1> SUFFICES ASSUME Init PROVE LoopInv
  OBVIOUS
<1>1. maxIterations \in {limit * Receive : limit \in Limits}
  BY DEF Init, SetMaxIterations
<1>2. maxIterations \in Nat
  BY <1>1, MaxIterationsNat
<1>3. TypeOK
  <2>1. 0 \in 0..maxIterations /\ 0 \in 0..MaxIdle /\ 0 \in 0..MaxMessages
    BY LoopAssumption, <1>2
  <2> QED BY <1>1, <2>1 DEF Init, TypeOK
<1>4. RoomLeft
  BY <1>2 DEF Init, RoomLeft
<1>5. PauseInv
  BY DEF Init, PauseInv
<1> QED BY <1>3, <1>4, <1>5 DEF LoopInv

\* Every step of the loop, of the signals and of those who enqueue keeps it.
LEMMA LoopInvStep == LoopInv /\ [Next]_vars => LoopInv'
<1> USE LoopAssumption
<1> SUFFICES ASSUME LoopInv, [Next]_vars PROVE LoopInv'
  OBVIOUS
<1>m. maxIterations \in Nat /\ maxIterations' = maxIterations
  BY MaxIterationsNat DEF LoopInv, TypeOK, Next, Loop, Arrive, Terminate, Pause,
     Continue, Finished, Iterate, NextOfBatch, FetchBatch, GotTask, EmptyPoll, Poll,
     PollFails, FirstOfBatch, CommitFails, NoTask, PopFails, DequeueFails, ProcessTask,
     control, vars
<1> USE <1>m
<1> USE DEF LoopInv, TypeOK, RoomLeft, PauseInv
<1>1. CASE Arrive
  BY <1>1 DEF Arrive, control
<1>2. CASE Terminate
  BY <1>2 DEF Terminate, queue
<1>3. CASE Pause
  BY <1>3 DEF Pause, queue
<1>4. CASE Continue
  BY <1>4 DEF Continue, queue
<1>5. CASE Finished
  BY <1>5 DEF Finished, IsRunning, HasEnoughSpace, queue, control
<1>6. CASE Iterate
  BY <1>6 DEF Iterate, IsRunning, HasEnoughSpace, queue, control
<1>7. CASE NextOfBatch
  BY <1>7 DEF NextOfBatch, GotTask, control
<1>8. CASE FirstOfBatch \/ CommitFails
  <2>1. PICK tasks \in 1..Batch : held' = tasks - 1
    BY <1>8 DEF FirstOfBatch, CommitFails, FetchBatch
  <2>2. Batch \in Nat /\ Batch <= Receive /\ Batch <= ready
    BY DEF Batch
  <2>3. held' \in Nat /\ held' <= Receive - 1 /\ ready' \in Nat
    BY <1>8, <2>1, <2>2 DEF FirstOfBatch, CommitFails
  <2>4. idleBefore' = idle
    BY <1>8 DEF FirstOfBatch, CommitFails, FetchBatch
  <2>5. /\ pc = "dequeue" /\ held = 0 /\ pc' = "process" /\ idle' = 0
        /\ begun' = IF paused THEN begun + 1 ELSE 0
        /\ UNCHANGED <<iterations, sent, paused, shutdown>>
    BY <1>8 DEF FirstOfBatch, CommitFails, FetchBatch, GotTask, control
  <2> QED BY <2>3, <2>4, <2>5
<1>9. CASE NoTask \/ PopFails
  <2>1. Batch \in Nat /\ Batch <= ready
    BY DEF Batch
  <2> QED BY <1>9, <2>1 DEF NoTask, PopFails, EmptyPoll, control
<1>10. CASE DequeueFails
  BY <1>10 DEF DequeueFails, queue, control
<1>11. CASE ProcessTask
  BY <1>11 DEF ProcessTask, queue, control
<1>12. CASE UNCHANGED vars
  BY <1>12 DEF vars, queue, control
<1> QED
  BY <1>1, <1>2, <1>3, <1>4, <1>5, <1>6, <1>7, <1>8, <1>9, <1>10, <1>11, <1>12
     DEF Next, Loop, Poll, PollFails

\* The worker's counters stay within their bounds: iterations never exceed the
\* limit RunWorker was given.
THEOREM LoopTypeCorrect == Spec => []TypeOK
<1>1. LoopInv => TypeOK
  BY DEF LoopInv
<1> QED BY LoopInvInit, LoopInvStep, <1>1, PTL DEF Spec

\* LongRunningWorker::hasEnoughSpace(): a limit leaves no pre-fetched message
\* behind unless the last batch followed a poll that brought nothing.
THEOREM LimitFinishesBatches == Spec => []BatchesAreFinished
<1>1. LoopInv => BatchesAreFinished
  BY DEF LoopInv, TypeOK, RoomLeft, BatchesAreFinished
<1> QED BY LoopInvInit, LoopInvStep, <1>1, PTL DEF Spec

\* LongRunningWorker::run(): after USR2 at most one task is begun.
THEOREM PauseBeginsNothing == Spec => []PauseHolds
<1>1. LoopInv => PauseHolds
  BY DEF LoopInv, PauseInv, PauseHolds
<1> QED BY LoopInvInit, LoopInvStep, <1>1, PTL DEF Spec
=============================================================================
