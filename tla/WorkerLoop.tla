----------------------------- MODULE WorkerLoop -----------------------------
(***************************************************************************)
(* The loop of one worker process on a dedicated queue: run(), its signal  *)
(* handlers and the limit on its iterations (LongRunningWorker; the older  *)
(* Worker has the same loop without hasEnoughSpace()).  The queue is two   *)
(* numbers, the visible messages and the ones this process has pre-fetched;*)
(* what processing a task does is in module TaskQueue.                     *)
(*                                                                         *)
(* Handlers run between any two statements (declare(ticks=1)): a signal is *)
(* a step of its own.                                                      *)
(***************************************************************************)
EXTENDS Naturals

CONSTANTS
  Receive,        \* numberOfTasksToReceive
  Limits,         \* the values of --limit of RunWorker, 0 for none
  MaxMessages,    \* bound on the messages that arrive
  MaxIdle         \* bound on the empty polls that are told apart

ASSUME LoopAssumption ==
  /\ Receive \in Nat \ {0}
  /\ Limits \subseteq Nat
  /\ MaxMessages \in Nat
  /\ MaxIdle \in Nat \ {0}

VARIABLES
  pc,             \* check, dequeue, process or stopped
  maxIterations,  \* 0 means infinite iteration
  iterations,     \* iterations begun; stays 0 when there is no limit
  idle,           \* iterationsWithOutTask
  ready, held,    \* visible messages, pre-fetched messages
  paused, shutdown,
  sent,           \* messages that have arrived
  idleBefore,     \* history: "idle" when the last batch was fetched
  begun           \* history: tasks begun since USR2 was received

control == <<paused, shutdown, maxIterations>>
queue == <<ready, held, sent>>
vars == <<pc, iterations, idle, queue, control, idleBefore, begun>>

\* setMaxIterations(): the limit counts batches.
SetMaxIterations(limit) == maxIterations = limit * Receive

TypeOK ==
  /\ pc \in {"check", "dequeue", "process", "stopped"}
  /\ maxIterations \in {limit * Receive : limit \in Limits}
  /\ iterations \in 0..maxIterations
  /\ idle \in 0..MaxIdle
  /\ ready \in Nat /\ held \in Nat
  /\ sent \in 0..MaxMessages
  /\ paused \in BOOLEAN /\ shutdown \in BOOLEAN
  /\ idleBefore \in 0..MaxIdle
  /\ begun \in Nat

Init ==
  /\ pc = "check"
  /\ \E limit \in Limits : SetMaxIterations(limit)
  /\ iterations = 0 /\ idle = 0
  /\ ready = 0 /\ held = 0 /\ sent = 0
  /\ paused = FALSE /\ shutdown = FALSE
  /\ idleBefore = 0 /\ begun = 0

\* Somebody enqueues.
Arrive ==
  /\ sent < MaxMessages
  /\ sent' = sent + 1 /\ ready' = ready + 1
  /\ UNCHANGED <<pc, iterations, idle, held, control, idleBefore, begun>>

\* SIGTERM, SIGINT, SIGQUIT.
Terminate ==
  /\ shutdown' = TRUE
  /\ UNCHANGED <<pc, iterations, idle, queue, paused, maxIterations, idleBefore,
                 begun>>

\* SIGUSR2 and SIGCONT.
Pause ==
  /\ ~paused /\ paused' = TRUE
  /\ begun' = 0
  /\ UNCHANGED <<pc, iterations, idle, queue, shutdown, maxIterations, idleBefore>>

Continue ==
  /\ paused /\ paused' = FALSE
  /\ UNCHANGED <<pc, iterations, idle, queue, shutdown, maxIterations, idleBefore,
                 begun>>

\* Mutant of HasEnoughSpace: off by one.
HasSpaceForOneLess ==
  \/ idle > 0 \/ held > 0
  \/ maxIterations - iterations + 1 >= Receive

\* hasEnoughSpace(): a batch is begun only if it can be finished.
HasEnoughSpace ==
  \/ idle > 0 \/ held > 0
  \/ maxIterations - iterations >= Receive

\* Mutant of IsRunning: no limit is a limit of nothing.
IsRunningWithinLimit ==
  /\ ~shutdown
  /\ iterations < maxIterations /\ HasEnoughSpace

\* isRunning(): neither told to stop nor at the limit.
IsRunning ==
  /\ ~shutdown
  /\ maxIterations > 0 =>
       iterations < maxIterations /\ HasEnoughSpace

\* Mutant of Finished: a paused worker waits before it looks at the signals.
FinishedUnlessPaused ==
  /\ pc = "check"
  /\ ~IsRunning /\ ~paused
  /\ pc' = "stopped"
  /\ UNCHANGED <<iterations, idle, queue, control, idleBefore, begun>>

\* The loop condition does not hold.
Finished ==
  /\ pc = "check"
  /\ ~IsRunning
  /\ pc' = "stopped"
  /\ UNCHANGED <<iterations, idle, queue, control, idleBefore, begun>>

\* Mutant of Iterate: a batch is finished in spite of a pause.
IterateThroughBatch ==
  /\ pc = "check"
  /\ IsRunning /\ (~paused \/ held > 0)
  /\ iterations' = IF maxIterations > 0 THEN iterations + 1 ELSE 0
  /\ pc' = "dequeue"
  /\ UNCHANGED <<idle, queue, control, idleBefore, begun>>

\* Mutant of Iterate: iterations without a task are free.
IterateForFree ==
  /\ pc = "check"
  /\ IsRunning /\ ~paused
  /\ iterations' = IF maxIterations > 0 /\ ready + held > 0 THEN iterations + 1
                                                            ELSE iterations
  /\ pc' = "dequeue"
  /\ UNCHANGED <<idle, queue, control, idleBefore, begun>>

\* Neither stopped nor paused: the iteration counts, whatever it brings.  A
\* paused worker sleeps and looks again, which changes nothing.
Iterate ==
  /\ pc = "check"
  /\ IsRunning /\ ~paused
  /\ iterations' = IF maxIterations > 0 THEN iterations + 1 ELSE 0
  /\ pc' = "dequeue"
  /\ UNCHANGED <<idle, queue, control, idleBefore, begun>>

\* What follows a dequeue() that returned a task.
GotTask ==
  /\ pc' = "process"
  /\ idle' = 0
  /\ begun' = IF paused THEN begun + 1 ELSE 0
  /\ UNCHANGED <<iterations, sent, control>>

\* A pre-fetched task.
NextOfBatch ==
  /\ pc = "dequeue"
  /\ held > 0
  /\ held' = held - 1
  /\ GotTask
  /\ UNCHANGED <<ready, idleBefore>>

Batch == IF ready < Receive THEN ready ELSE Receive

\* pop() returns the first task of a new batch; "tasks" of its messages are
\* tasks.
FetchBatch ==
  /\ pc = "dequeue"
  /\ held = 0
  /\ \E tasks \in 1..Batch : held' = tasks - 1
  /\ idleBefore' = idle
  /\ GotTask

FirstOfBatch == FetchBatch /\ ready' = ready - Batch

\* doPop() catches what the COMMIT throws: the messages are visible again, and
\* pre-fetched.
CommitFails == FetchBatch /\ ready' = ready

\* pop() returns nothing: the worker sleeps.
EmptyPoll ==
  /\ pc = "dequeue"
  /\ held = 0
  /\ idle' = IF idle < MaxIdle THEN idle + 1 ELSE idle
  /\ pc' = "check"
  /\ UNCHANGED <<iterations, held, sent, control, idleBefore, begun>>

\* No message, or none that is a task.
NoTask == EmptyPoll /\ ready' = ready - Batch

\* doPop() catches what its statements throw: for the worker the queue is
\* empty, whatever is in it.
PopFails == EmptyPoll /\ ready' = ready

\* dequeue() throws (beginTransaction() outside the try): the iteration is lost.
DequeueFails ==
  /\ pc = "dequeue"
  /\ held = 0
  /\ pc' = "check"
  /\ UNCHANGED <<iterations, idle, queue, control, idleBefore, begun>>

\* processTask() returns or throws.
ProcessTask ==
  /\ pc = "process"
  /\ pc' = "check"
  /\ UNCHANGED <<iterations, idle, queue, control, idleBefore, begun>>

\* A poll of the queue table that is answered, and one that is not.
Poll == FirstOfBatch \/ NoTask
PollFails == CommitFails \/ PopFails \/ DequeueFails

Loop == Finished \/ Iterate \/ NextOfBatch \/ Poll \/ PollFails \/ ProcessTask

Next == Arrive \/ Terminate \/ Pause \/ Continue \/ Loop

Spec == Init /\ [][Next]_vars

\* The process is scheduled, and the connection does not fail forever.
FairSpec == Spec /\ WF_vars(Loop) /\ SF_vars(Poll)

-----------------------------------------------------------------------------
\* A worker that ends because of its limit leaves nothing pre-fetched (what it
\* leaves stays hidden in the queue), unless it fetched its last batch right
\* after a poll that brought nothing, be it that the queue was empty or that
\* the poll failed: hasEnoughSpace() looks away then.
BatchesAreFinished ==
  pc = "stopped" /\ ~shutdown /\ held > 0 => idleBefore > 0

\* After USR2 the task at hand is finished and no other begun; the one at hand
\* may have been on its way out of the queue.
PauseHolds == begun <= 1

\* A worker told to shut down does, paused or not, its batch finished or not.
ShutdownStops == shutdown ~> pc = "stopped"

\* A worker with a limit ends, even on a queue that stays empty, unless it is
\* paused again and again.
LimitEnds == maxIterations > 0 /\ <>[]~paused => <>(pc = "stopped")

\* A worker without a limit that is left alone empties its queue, batches
\* that were fetched before a pause included.
QueueDrains ==
  maxIterations = 0 /\ []~shutdown /\ <>[]~paused => <>[](ready + held = 0)
=============================================================================
