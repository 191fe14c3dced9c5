--------------------------- MODULE StuckTaskProofs ---------------------------
(***************************************************************************)
(* Theorems about the stuck-task command beside the queue, for any tasks,  *)
(* workers, crashes and runs of the command, with or without failing       *)
(* calls, whatever the workers do between the statements of the command.   *)
(* A message that was made visible may be in the hands of several workers, *)
(* so that most of what TaskQueueProofs knows of the queue does not hold   *)
(* here; what is left is restated and proved for both.                     *)
(***************************************************************************)
EXTENDS StuckTaskRestart, TaskQueueProofs, FiniteSetTheorems

allVars == <<vars, toolVars>>

-----------------------------------------------------------------------------
(* The inductive invariant: the part about the queue.                       *)

HolderInv == HeldOnce /\ RowOfPushed /\ OneAdder

HeldWasPushed == \A w \in Worker, t \in Task : Holds(w, t) => table[t] # "none"

ClaimedWasStarted == \A w \in Worker : pc[w] \in Claimed => runs[cur[w]] > 0

NewIsFresh == \A t \in Task : table[t] = "none" => runs[t] = 0

StartInv ==
  HeldWasPushed /\ ClaimedWasStarted /\ NewIsFresh /\ RecordOfDone /\ NothingLost

BaseInv == TInv /\ HolderInv /\ StartInv

(* The part about the command.                                              *)

\* What the command has in its hands, in one place at a time.
InHand == todo \cup found \cup orphans

OneHand ==
  /\ todo \cap found = {} /\ todo \cap orphans = {} /\ found \cap orphans = {}
  /\ step # "looking" => todo = {}
  /\ step = "idle" => InHand = {}

\* The search finds records, hence tasks whose enqueueing is over.
HandsDone == \A t \in InHand : enq[t] = "done"

\* Nobody will start t that has not started it.
Over(t) == t \in Invalid \/ runs[t] > 0

OrphansOver == \A t \in orphans : Over(t)

\* A search will not find t again, and has not.
Settled(t) == enq[t] = "done" /\ log[t] # Enqueued /\ t \notin InHand

ReplacedSettled == \A c \in Task : replaces[c] # NoTask => Settled(replaces[c])

OrphanSettled ==
  /\ step \in {"creating", "adding"} => orphan \in Task /\ Settled(orphan)
  /\ step = "creating" => \A c \in Task : replaces[c] # orphan

\* The replacement is the command's to add.
ToolAdds ==
  step = "adding" =>
    \A c \in Task : replaces[c] = orphan =>
      enq[c] = "pushed" /\ \A w \in Worker : adding[w] # c

ToolInv ==
  /\ OneHand /\ HandsDone /\ OrphansOver /\ CancelledOnlyIfOver
  /\ ReplacedSettled /\ OrphanSettled /\ ToolAdds /\ ReplacedOnce

StuckInv == BaseInv /\ ToolTypeOK /\ ToolInv

\* At the start the command has nothing in hand and no task was pushed.
LEMMA StuckInit == ToolInit => StuckInv
<1> SUFFICES ASSUME ToolInit PROVE StuckInv
  OBVIOUS
<1>1. BaseInv
  BY TInit, IInit, TaskAssumption
     DEF ToolInit, BaseInv, HolderInv, StartInv, QueueInv, RunInv, HeldWasPushed,
         ClaimedWasStarted, NewIsFresh, Init, BrokerInit, Holds, Claimed
<1>2. ToolTypeOK
  BY <1>1, StuckAssumption DEF ToolTypeOK, BaseInv, TInv, ToolInit, ToolStep
<1>3. ToolInv
  BY TaskAssumption
     DEF ToolInv, ToolInit, Init, LogInit, OneHand, InHand, HandsDone, OrphansOver,
         CancelledOnlyIfOver, ReplacedSettled, OrphanSettled, ToolAdds, ReplacedOnce,
         NoRecord, Cancelled
<1> QED
  BY <1>1, <1>2, <1>3 DEF StuckInv

-----------------------------------------------------------------------------
(* Steps of the queue.                                                      *)

\* What pop() does when nothing is known of the rows of what w pre-fetched.
LEMMA PopAnyRow ==
  ASSUME BrokerTypeOK, NEW w \in Worker, NEW t, Pop(w, t)
  PROVE  /\ t \in Task
         /\ \A v \in Worker \ {w} : prefetch'[v] = prefetch[v]
         /\ t \notin prefetch'[w]
         /\ \A u \in prefetch'[w] \cup {t} : u \in prefetch[w] \/ table[u] = "visible"
         /\ \A u \in Task :
              \/ table'[u] = table[u]
              \/ /\ table[u] = "visible"
                 /\ table'[u] = "hidden" \/ (table'[u] = "gone" /\ u \in Invalid)
<1> DEFINE Goal ==
      /\ t \in Task
      /\ \A v \in Worker \ {w} : prefetch'[v] = prefetch[v]
      /\ t \notin prefetch'[w]
      /\ \A u \in prefetch'[w] \cup {t} : u \in prefetch[w] \/ table[u] = "visible"
      /\ \A u \in Task :
           \/ table'[u] = table[u]
           \/ /\ table[u] = "visible"
              /\ table'[u] = "hidden" \/ (table'[u] = "gone" /\ u \in Invalid)
<1>1. CASE /\ t \in prefetch[w]
           /\ prefetch' = [prefetch EXCEPT ![w] = @ \ {t}]
           /\ UNCHANGED table
  BY <1>1 DEF BrokerTypeOK
<1>2. ASSUME NEW B \in Batches, t \in B \ Invalid,
             prefetch' = [prefetch EXCEPT ![w] = B \ (Invalid \cup {t})],
             \/ \E D \in Rejected(B) : Hide(B, D)
             \/ UNCHANGED table
      PROVE  Goal
  <2>1. B \subseteq Task /\ \A u \in B : table[u] = "visible"
    BY DEF Batches, Visible
  <2>2. \A D \in Rejected(B) : D \subseteq B \cap Invalid
    BY DEF Rejected
  <2>3. /\ prefetch'[w] = B \ (Invalid \cup {t})
        /\ \A v \in Worker \ {w} : prefetch'[v] = prefetch[v]
    BY <1>2 DEF BrokerTypeOK
  <2>4. \A u \in Task :
          \/ table'[u] = table[u]
          \/ /\ table[u] = "visible"
             /\ table'[u] = "hidden" \/ (table'[u] = "gone" /\ u \in Invalid)
    BY <1>2, <2>1, <2>2 DEF Hide
  <2> QED
    BY <1>2, <2>1, <2>3, <2>4
<1> QED
  BY <1>1, <1>2 DEF Pop

\* The queue keeps its part, whoever holds what.
LEMMA BaseStep ==
  ASSUME TInv, TInv', HolderInv, StartInv, [Next]_vars
  PROVE  HolderInv' /\ StartInv'
<1> DEFINE Goal == HolderInv' /\ StartInv'
<1> USE TaskAssumption, BrokerAssumption
<1> USE DEF TInv, TypeOK, BusyHasTask, HolderInv, Holds, HeldOnce, RowOfPushed, OneAdder,
            StartInv, HeldWasPushed, ClaimedWasStarted, NewIsFresh, RecordOfDone,
            NothingLost, Claimed
<1>1. ASSUME NEW t \in Task, RequestPush(t) PROVE Goal
  BY <1>1 DEF RequestPush, PushMessage, PushFails, Push, BrokerTypeOK, workerVars, brokerVars
<1>2. ASSUME NEW t \in Task, RequestAdd(t) PROVE Goal
  BY <1>2 DEF RequestAdd, AddToLog, AddRecord, workerVars, brokerVars, LogTypeOK
<1>3. ASSUME NEW w \in Worker, NEW c \in Task, SpawnPush(w, c) PROVE Goal
  BY <1>3 DEF SpawnPush, PushMessage, PushFails, Push, BrokerTypeOK, workerVars, brokerVars
<1>4. ASSUME NEW w \in Worker, SpawnAdd(w) PROVE Goal
  <2>1. HolderInv'
    BY <1>4 DEF SpawnAdd, AddToLog, brokerVars
  <2>2. RecordOfDone'
    BY <1>4 DEF SpawnAdd, AddToLog, AddRecord, brokerVars, LogTypeOK
  <2>3. HeldWasPushed' /\ ClaimedWasStarted' /\ NewIsFresh' /\ NothingLost'
    BY <1>4 DEF SpawnAdd, AddToLog, brokerVars
  <2> QED
    BY <2>1, <2>2, <2>3
<1>5. ASSUME NEW w \in Worker, PopTask(w) PROVE Goal
  <2>1. PICK t \in Task : Pop(w, t) /\ cur' = [cur EXCEPT ![w] = t]
    BY <1>5 DEF PopTask
  <2>2. /\ \A v \in Worker \ {w} : prefetch'[v] = prefetch[v]
        /\ t \notin prefetch'[w]
        /\ \A u \in prefetch'[w] \cup {t} : u \in prefetch[w] \/ table[u] = "visible"
        /\ \A u \in Task :
             \/ table'[u] = table[u]
             \/ /\ table[u] = "visible"
                /\ table'[u] = "hidden" \/ (table'[u] = "gone" /\ u \in Invalid)
    BY <2>1, PopAnyRow
  <2>3. /\ UNCHANGED <<log, enq, adding, runs>> /\ pc' = [pc EXCEPT ![w] = "popped"]
    BY <1>5 DEF PopTask, GoTo, enqVars
  <2>4. HolderInv'
    BY <2>1, <2>2, <2>3
  <2>5. HeldWasPushed'
    <3> SUFFICES ASSUME NEW v \in Worker, NEW u \in Task, Holds(v, u)'
                 PROVE  table'[u] # "none"
      OBVIOUS
    <3>1. Holds(v, u) \/ table[u] = "visible"
      BY <2>1, <2>2
    <3> QED
      BY <2>2, <3>1
  <2>6. ClaimedWasStarted' /\ NewIsFresh' /\ RecordOfDone' /\ NothingLost'
    BY <2>1, <2>2, <2>3
  <2> QED
    BY <2>4, <2>5, <2>6
<1>6. ASSUME NEW w \in Worker, PollEmpty(w) PROVE Goal
  BY <1>6, EmptyPollEffect DEF PollEmpty, BrokerTypeOK, enqVars, workerVars
<1>7. ASSUME NEW w \in Worker, Process(w) PROVE Goal
  <2> USE DEF GoTo
  <2>2. CASE MarkDequeued(w)
    <3>1. Dequeued \notin {NoRecord, Enqueued} /\ NoRecord \notin AnyStatus
      BY <2>2 DEF MarkDequeued, ResultDecided, Decided, NoResult, AnyStatus, LogStatus, Cancelled, NoRecord, Enqueued, Dequeued, Running,
         ChildRunning, Completed, Failed, Archived
    <3>2. \A t \in Task :
            log'[t] = log[t] \/ (t = cur[w] /\ log[t] \in AnyStatus /\ log'[t] = Dequeued)
      BY <2>2, UpdateStatusEffect DEF MarkDequeued, SetStatus
    <3>3. UNCHANGED <<table, prefetch, enq, adding, cur, runs>>
      BY <2>2 DEF MarkDequeued, enqVars, brokerVars
    <3>4. RecordOfDone'
      BY <3>1, <3>2, <3>3
    <3>5. ClaimedWasStarted'
      BY <2>2, <3>3 DEF MarkDequeued
    <3> QED
      BY <3>3, <3>4, <3>5
  <2>3. CASE Report(w)
    <3>1. res[w] \notin {NoRecord, Enqueued} /\ NoRecord \notin AnyStatus
      BY <2>3 DEF Report, ResultDecided, Decided, NoResult, AnyStatus, LogStatus, Cancelled, NoRecord, Enqueued, Dequeued, Running,
         ChildRunning, Completed, Failed, Archived
    <3>2. \A t \in Task :
            log'[t] = log[t] \/ (t = cur[w] /\ log[t] \in AnyStatus /\ log'[t] = res[w])
      BY <2>3, UpdateStatusEffect DEF Report, SetReport
    <3>3. UNCHANGED <<table, prefetch, enq, adding, cur, runs>>
      BY <2>3 DEF Report, enqVars, brokerVars
    <3>4. RecordOfDone'
      BY <3>1, <3>2, <3>3
    <3>5. ClaimedWasStarted'
      BY <2>3, <3>3 DEF Report, AfterReport
    <3> QED
      BY <3>3, <3>4, <3>5
  <2>4. CASE WriteParent(w)
    <3>1. res[w] \notin {NoRecord, Enqueued} /\ NoRecord \notin AnyStatus
      BY <2>4 DEF WriteParent, ResultDecided, Decided, NoResult, AnyStatus, LogStatus, Cancelled, NoRecord, Enqueued, Dequeued, Running,
         ChildRunning, Completed, Failed, Archived
    <3>2. \A t \in Task :
            log'[t] = log[t] \/ (t = Parent[cur[w]] /\ log[t] \in AnyStatus /\ log'[t] = res[w])
      BY <2>4, UpdateStatusEffect DEF WriteParent, SetStatus
    <3>3. UNCHANGED <<table, prefetch, enq, adding, cur, runs>>
      BY <2>4 DEF WriteParent, enqVars, brokerVars
    <3>4. RecordOfDone'
      BY <3>1, <3>2, <3>3
    <3>5. ClaimedWasStarted'
      BY <2>4, <3>3 DEF WriteParent
    <3> QED
      BY <3>3, <3>4, <3>5
  <2>5. CASE Claim(w)
    <3>1. cur[w] \in Task /\ log[cur[w]] = Dequeued
      BY <2>5 DEF Claim, Touched
    <3>2. \A t \in Task : log'[t] = IF t = cur[w] THEN Running ELSE log[t]
      BY <2>5, <3>1 DEF Claim, UpdateStatus, Touched
    <3>3. \A t \in Task : runs'[t] = IF t = cur[w] THEN runs[t] + 1 ELSE runs[t]
      BY <2>5 DEF Claim
    <3>4. RecordOfDone'
      BY <2>5, <3>1, <3>2, <3>3 DEF Claim, NoRecord, Enqueued, Dequeued, Running, enqVars
    <3>5. HolderInv' /\ HeldWasPushed' /\ NewIsFresh'
      BY <2>5, <3>1, <3>3 DEF Claim, enqVars, brokerVars
    <3>6. ClaimedWasStarted' /\ NothingLost'
      BY <2>5, <3>1, <3>3 DEF Claim, brokerVars
    <3> QED
      BY <3>4, <3>5, <3>6
  <2>6. CASE Skip(w) \/ PollFails(w) \/ ParentNotFound(w)
    BY <2>6 DEF Skip, PollFails, ParentNotFound, Release, enqVars, brokerVars,
       BrokerTypeOK
  <2>7. CASE SpawnAdd(w)
    BY <2>7, <1>4
  <2>8. CASE Finish(w) \/ PollRemote(w) \/ ConfirmRemote(w) \/ ReadFamily(w)
    BY <2>8 DEF Finish, PollRemote, ConfirmRemote, ReadFamily, enqVars, brokerVars
  <2>9. ASSUME NEW c \in Task, Reschedule(w, c) PROVE Goal
    <3>1. HolderInv'
      BY <2>9 DEF Reschedule, PushMessage, PushFails, Push, BrokerTypeOK, brokerVars
    <3>2. StartInv'
      BY <2>9 DEF Reschedule, PushMessage, PushFails, Push, BrokerTypeOK, brokerVars
    <3> QED
      BY <3>1, <3>2
  <2>10. CASE DropRecord(w)
    BY <2>10 DEF DropRecord, DeleteById, AfterReport, enqVars, brokerVars, LogTypeOK,
                 NoRecord, Enqueued
  <2>11. CASE Acknowledge(w)
    BY <2>11 DEF Acknowledge, Delete, Release, BrokerTypeOK, enqVars
  <2> QED
    BY <1>7, <2>2, <2>3, <2>4, <2>5, <2>6, <2>7, <2>8, <2>9, <2>10, <2>11 DEF Process
<1>8. ASSUME NEW w \in Worker, Crash(w) PROVE Goal
  BY <1>8 DEF Crash, ForgetPrefetched, Release, GoTo, BrokerTypeOK
<1>9. CASE RemoteProgress \/ UNCHANGED vars
  BY <1>9 DEF RemoteProgress, vars, brokerVars, enqVars, workerVars
<1> QED
  BY <1>1, <1>2, <1>3, <1>5, <1>6, <1>7, <1>8, <1>9 DEF Next

\* The queue cancels no task.
LEMMA NothingCancelled ==
  ASSUME TInv, [Next]_vars, NEW t \in Task, log'[t] = Cancelled
  PROVE  log[t] = Cancelled
<1> USE DEF TInv, TypeOK, LogTypeOK, ResultDecided, Decided, Cancelled, Completed, Failed,
            ChildRunning, Enqueued, Dequeued, Running, NoRecord, NoResult
<1>1. ASSUME NEW u \in Task, RequestPush(u) \/ RequestAdd(u) PROVE log[t] = Cancelled
  BY <1>1 DEF RequestPush, RequestAdd, AddToLog, AddRecord
<1>2. ASSUME NEW w \in Worker, NEW c \in Task, SpawnPush(w, c) \/ Reschedule(w, c)
      PROVE  log[t] = Cancelled
  BY <1>2 DEF SpawnPush, Reschedule
<1>3. ASSUME NEW w \in Worker, Process(w) PROVE log[t] = Cancelled
  <2>1. CASE MarkDequeued(w) \/ Report(w) \/ WriteParent(w)
    BY <2>1, UpdateStatusEffect DEF MarkDequeued, SetStatus, Report, SetReport, WriteParent
  <2>2. CASE Claim(w)
    BY <2>2, UpdateStatusEffect DEF Claim
  <2>3. CASE DropRecord(w) \/ SpawnAdd(w)
    BY <2>3 DEF DropRecord, DeleteById, SpawnAdd, AddToLog, AddRecord
  <2> QED
    BY <1>2, <1>3, <2>1, <2>2, <2>3
       DEF Process, Skip, Finish, PollRemote, ConfirmRemote, PollFails, ReadFamily, ParentNotFound,
           Acknowledge
<1>4. ASSUME NEW w \in Worker, PopTask(w) \/ PollEmpty(w) \/ Crash(w)
      PROVE  log[t] = Cancelled
  BY <1>4 DEF PopTask, PollEmpty, Crash
<1>5. CASE RemoteProgress \/ UNCHANGED vars
  BY <1>5 DEF RemoteProgress, vars
<1> QED
  BY <1>1, <1>2, <1>3, <1>4, <1>5 DEF Next

\* Nobody becomes the adder of a message that was pushed before.
LEMMA NoNewAdder ==
  ASSUME TInv, [Next]_vars, NEW c \in Task, enq[c] = "pushed", NEW w \in Worker,
         adding'[w] = c
  PROVE  adding[w] = c
<1> USE TaskAssumption
<1> USE DEF TInv, TypeOK
<1>1. ASSUME NEW u \in Task, RequestPush(u) \/ RequestAdd(u) PROVE adding[w] = c
  BY <1>1 DEF RequestPush, RequestAdd
<1>2. ASSUME NEW v \in Worker, NEW d \in Task, SpawnPush(v, d) \/ Reschedule(v, d)
      PROVE  adding[w] = c
  BY <1>2 DEF SpawnPush, Reschedule, PushMessage
<1>3. ASSUME NEW v \in Worker, SpawnAdd(v) \/ Crash(v) PROVE adding[w] = c
  BY <1>3 DEF SpawnAdd, Crash
<1>4. ASSUME NEW v \in Worker, Process(v) PROVE adding[w] = c
  BY <1>2, <1>3, <1>4
     DEF Process, MarkDequeued, Claim, Skip, Finish, PollRemote, ConfirmRemote, PollFails, DropRecord,
         Report, ReadFamily, ParentNotFound, WriteParent, Acknowledge, enqVars
<1>5. ASSUME NEW v \in Worker, PopTask(v) \/ PollEmpty(v) PROVE adding[w] = c
  BY <1>5 DEF PopTask, PollEmpty, enqVars
<1>6. CASE RemoteProgress \/ UNCHANGED vars
  BY <1>6 DEF RemoteProgress, vars, enqVars
<1> QED
  BY <1>1, <1>2, <1>3, <1>4, <1>5, <1>6 DEF Next

\* A task whose enqueueing is over stays so, and is not ENQUEUED a second time.
LEMMA DoneStays ==
  ASSUME TInv, HolderInv, StartInv, [Next]_vars, NEW t \in Task, enq[t] = "done"
  PROVE  enq'[t] = "done" /\ (log'[t] = Enqueued => log[t] = Enqueued)
<1> DEFINE Goal == enq'[t] = "done" /\ (log'[t] = Enqueued => log[t] = Enqueued)
<1> USE DEF TInv, TypeOK, LogTypeOK
<1>1. ASSUME NEW u \in Task, RequestPush(u) \/ RequestAdd(u) PROVE Goal
  BY <1>1 DEF RequestPush, PushMessage, PushFails, RequestAdd, AddToLog, AddRecord
<1>2. ASSUME NEW w \in Worker, NEW c \in Task, SpawnPush(w, c) \/ Reschedule(w, c)
      PROVE  Goal
  BY <1>2 DEF SpawnPush, Reschedule, PushMessage, PushFails
<1>3. ASSUME NEW w \in Worker, SpawnAdd(w) PROVE Goal
  BY <1>3 DEF SpawnAdd, AddToLog, AddRecord
<1>4. ASSUME NEW w \in Worker, Process(w) PROVE Goal
  <2>1. CASE MarkDequeued(w)
    BY <2>1, UpdateStatusEffect DEF MarkDequeued, SetStatus, enqVars, Enqueued, Dequeued
  <2>2. CASE Claim(w)
    BY <2>2, UpdateStatusEffect DEF Claim, enqVars, Enqueued, Running
  <2>3. CASE Report(w) \/ WriteParent(w)
    BY <2>3, UpdateStatusEffect DEF Report, SetReport, WriteParent, SetStatus, enqVars,
       ResultDecided, Decided, NoResult, Enqueued, Completed, Failed, ChildRunning
  <2>4. CASE DropRecord(w)
    BY <2>4 DEF DropRecord, DeleteById, enqVars, NoRecord, Enqueued
  <2> QED
    BY <1>2, <1>3, <1>4, <2>1, <2>2, <2>3, <2>4
       DEF Process, Skip, Finish, PollRemote, ConfirmRemote, PollFails, ReadFamily,
           ParentNotFound, Acknowledge, enqVars
<1>5. ASSUME NEW w \in Worker, PopTask(w) \/ PollEmpty(w) PROVE Goal
  BY <1>5 DEF PopTask, PollEmpty, enqVars
<1>6. ASSUME NEW w \in Worker, Crash(w) PROVE Goal
  BY <1>6 DEF Crash
<1>7. CASE RemoteProgress \/ UNCHANGED vars
  BY <1>7 DEF RemoteProgress, vars, enqVars
<1> QED
  BY <1>1, <1>2, <1>4, <1>5, <1>6, <1>7 DEF Next

\* What was started stays started.
LEMMA StartedStays ==
  ASSUME TInv, [Next]_vars, NEW t \in Task, runs[t] > 0
  PROVE  runs'[t] > 0
<1>1. UNCHANGED runs \/ \E w \in Worker : Claim(w)
  BY DEF Next, RequestPush, RequestAdd, SpawnPush, PopTask, PollEmpty, Process,
     MarkDequeued, Skip, SpawnAdd, Finish, PollRemote, ConfirmRemote, PollFails,
     Reschedule, DropRecord, Report, ReadFamily, ParentNotFound, WriteParent,
     Acknowledge, Crash, RemoteProgress, vars
<1> QED
  BY <1>1 DEF Claim, TInv, TypeOK

\* Whatever requests, workers and crashes do keeps the invariant of both.
LEMMA QueueStepKeeps ==
  ASSUME StuckInv, QueueStep
  PROVE  StuckInv'
<1> USE DEF StuckInv, BaseInv
<1>1. Next /\ UNCHANGED toolVars
  BY DEF QueueStep
<1>2. BaseInv'
  BY <1>1, TStep, BaseStep
<1>3. ToolTypeOK'
  BY <1>1, <1>2 DEF ToolTypeOK, toolVars, TInv
<1>4. \A t \in Task : enq[t] = "done" => enq'[t] = "done" /\ (log'[t] = Enqueued => log[t] = Enqueued)
  BY <1>1, DoneStays
<1>5. \A t \in Task : Over(t) => Over(t)'
  BY <1>1, StartedStays DEF Over
<1>6. \A t \in Task : log'[t] = Cancelled => log[t] = Cancelled
  BY <1>1, NothingCancelled
<1>7. InHand' = InHand /\ InHand \subseteq Task /\ orphans \subseteq InHand
  BY <1>1 DEF InHand, toolVars, ToolTypeOK
<1>8. \A t \in Task : Settled(t) => Settled(t)'
  BY <1>4, <1>7 DEF Settled
<1>9. ToolAdds'
  <2> SUFFICES ASSUME step = "adding", NEW c \in Task, replaces[c] = orphan
               PROVE  enq'[c] = "pushed" /\ \A w \in Worker : adding'[w] # c
    BY <1>1 DEF ToolAdds, toolVars
  <2>1. enq[c] = "pushed" /\ \A w \in Worker : adding[w] # c
    BY DEF ToolInv, ToolAdds
  <2> QED
    BY <1>1, <2>1, NoNewAdder DEF QueueStep
<1>10. HandsDone' /\ OrphansOver' /\ CancelledOnlyIfOver'
  <2>1. HandsDone'
    BY <1>4, <1>7 DEF ToolInv, HandsDone
  <2>2. OrphansOver'
    BY <1>1, <1>5, <1>7 DEF ToolInv, OrphansOver, toolVars
  <2>3. CancelledOnlyIfOver'
    BY <1>5, <1>6 DEF ToolInv, CancelledOnlyIfOver, Over
  <2> QED
    BY <2>1, <2>2, <2>3
<1>11. ReplacedSettled' /\ OrphanSettled'
  <2>1. ReplacedSettled'
    BY <1>1, <1>8 DEF ToolInv, ReplacedSettled, ToolTypeOK, toolVars
  <2>2. OrphanSettled'
    BY <1>1, <1>8 DEF ToolInv, OrphanSettled, toolVars
  <2> QED
    BY <2>1, <2>2
<1>12. OneHand' /\ ReplacedOnce'
  BY <1>1, <1>7 DEF ToolInv, OneHand, ReplacedOnce, toolVars
<1> QED
  BY <1>2, <1>3, <1>9, <1>10, <1>11, <1>12 DEF ToolInv

-----------------------------------------------------------------------------
(* Steps of the command.                                                    *)

\* A step of the command that leaves workers and records alone and changes at
\* most one row: hidden, it is made visible, or it holds no task and is deleted.
LEMMA RowStepKeeps ==
  ASSUME BaseInv, UNCHANGED <<log, enqVars, prefetch, workerVars, remote, onlyFailed, runs>>,
         crashes' \in 0..MaxCrashes, NEW t,
         \A u \in Task \ {t} : table'[u] = table[u],
         t \in Task =>
           \/ table'[t] = table[t]
           \/ table[t] = "hidden" /\ table'[t] = "visible"
           \/ table[t] = "hidden" /\ table'[t] = "gone" /\ t \in Invalid,
         table' \in [Task -> RowState]
  PROVE  BaseInv'
<1> USE DEF BaseInv, enqVars, workerVars
<1>1. TInv'
  BY DEF TInv, TypeOK, LogTypeOK, BrokerTypeOK, BusyHasTask, ResultDecided
<1>2. HolderInv'
  BY DEF HolderInv, HeldOnce, RowOfPushed, OneAdder
<1>3. StartInv'
  BY DEF StartInv, HeldWasPushed, Holds, ClaimedWasStarted, NewIsFresh, RecordOfDone,
     NothingLost
<1> QED
  BY <1>1, <1>2, <1>3

\* What holds of the queue holds as long as nothing but the crashes is counted.
LEMMA Untouched ==
  ASSUME BaseInv, UNCHANGED <<log, brokerVars, enqVars, workerVars, remote, onlyFailed, runs>>,
         crashes' \in 0..MaxCrashes
  PROVE  BaseInv'
BY RowStepKeeps DEF brokerVars, BaseInv, TInv, TypeOK, BrokerTypeOK

\* The search finds what is ENQUEUED, which is in the log and not replaced.
LEMMA SearchKeeps ==
  ASSUME StuckInv, Search PROVE StuckInv'
<1> USE DEF StuckInv, Search, toolFrame
<1>1. \A t \in todo' : t \in Task /\ log[t] = Enqueued /\ enq[t] = "done"
  BY DEF Stuck, BaseInv, StartInv, RecordOfDone, Enqueued, NoRecord
<1>2. InHand = {} /\ found' = {} /\ orphans' = {} /\ InHand' = todo'
  BY DEF ToolInv, OneHand, InHand
<1>3. OneHand' /\ HandsDone' /\ OrphansOver'
  BY <1>1, <1>2 DEF OneHand, HandsDone, OrphansOver, enqVars
<1>4. BaseInv'
  BY Untouched DEF BaseInv, TInv, TypeOK, brokerVars
<1>5. ToolTypeOK'
  BY <1>1, <1>4, StuckAssumption DEF ToolTypeOK, ToolStep, BaseInv, TInv
<1>6. \A t \in Task : Settled(t) => Settled(t)'
  BY <1>1, <1>2 DEF Settled, enqVars
<1>7. ReplacedSettled' /\ OrphanSettled'
  BY <1>6 DEF ToolInv, ReplacedSettled, OrphanSettled, ToolTypeOK
<1>8. CancelledOnlyIfOver' /\ ToolAdds' /\ ReplacedOnce'
  BY DEF ToolInv, CancelledOnlyIfOver, ToolAdds, ReplacedOnce, enqVars
<1> QED
  BY <1>3, <1>4, <1>5, <1>7, <1>8 DEF ToolInv

\* A record that is found has had a message: if that is gone, it held no task
\* or the task was started.
LEMMA LookUpKeeps ==
  ASSUME StuckInv, NEW t \in Task, LookUp(t) PROVE StuckInv'
<1> USE DEF StuckInv, LookUp, toolFrame
<1>1. t \in InHand /\ enq[t] = "done"
  BY DEF InHand, ToolInv, HandsDone
<1>2. table[t] # "none" /\ (table[t] = "gone" => Over(t))
  BY <1>1 DEF BaseInv, HolderInv, RowOfPushed, StartInv, NothingLost, Over
<1>3. table[t] \in RowState
  BY DEF BaseInv, TInv, TypeOK, BrokerTypeOK
<1>4. /\ \A u \in Task \ {t} : table'[u] = table[u]
      /\ \/ table'[t] = table[t]
         \/ table[t] = "hidden" /\ table'[t] = "gone" /\ t \in Invalid
      /\ table' \in [Task -> RowState]
      /\ UNCHANGED prefetch
  BY DEF Delete, BaseInv, TInv, TypeOK, BrokerTypeOK, RowState
<1>5. crashes' \in 0..MaxCrashes
  BY DEF BaseInv, TInv, TypeOK
<1>6. BaseInv'
  BY <1>4, <1>5, RowStepKeeps
<1>7. /\ todo' = todo \ {t}
      /\ \/ found' = found \cup {t} /\ orphans' = orphans
         \/ found' = found /\ orphans' = orphans \cup {t} /\ Over(t)
  BY <1>2, <1>3 DEF RowState, Over
<1>8. InHand' = InHand /\ InHand \subseteq Task
  BY <1>7 DEF InHand, ToolTypeOK
<1>9. OneHand' /\ HandsDone'
  BY <1>7, <1>8 DEF ToolInv, OneHand, HandsDone, enqVars
<1>10. OrphansOver' /\ CancelledOnlyIfOver'
  BY <1>7 DEF ToolInv, OrphansOver, CancelledOnlyIfOver, Over
<1>11. \A u \in Task : Settled(u) => Settled(u)'
  BY <1>8 DEF Settled, enqVars
<1>12. ReplacedSettled' /\ OrphanSettled' /\ ToolAdds' /\ ReplacedOnce'
  BY <1>11 DEF ToolInv, ReplacedSettled, OrphanSettled, ToolAdds, ReplacedOnce, enqVars,
     ToolTypeOK
<1>13. ToolTypeOK'
  BY <1>6, <1>7 DEF ToolTypeOK, ToolStep, BaseInv, TInv
<1> QED
  BY <1>6, <1>9, <1>10, <1>12, <1>13 DEF ToolInv

\* A row is made visible, or not, and the task is in hand no more.
LEMMA RestartKeeps ==
  ASSUME StuckInv, NEW t \in Task, Restart(t) PROVE StuckInv'
<1> USE DEF StuckInv, Restart, toolFrame
<1>1. /\ \A u \in Task \ {t} : table'[u] = table[u]
      /\ \/ table'[t] = table[t]
         \/ table[t] = "hidden" /\ table'[t] = "visible"
      /\ table' \in [Task -> RowState]
  BY DEF MakeVisible, BaseInv, TInv, TypeOK, BrokerTypeOK, RowState
<1>2. crashes' \in 0..MaxCrashes
  BY DEF BaseInv, TInv, TypeOK
<1>3. BaseInv'
  BY <1>1, <1>2, RowStepKeeps
<1>4. InHand' \subseteq InHand /\ InHand \subseteq Task
  BY DEF InHand, ToolTypeOK
<1>5. OneHand' /\ HandsDone' /\ OrphansOver'
  BY <1>4 DEF ToolInv, OneHand, HandsDone, OrphansOver, Over, InHand, enqVars
<1>6. \A u \in Task : Settled(u) => Settled(u)'
  BY <1>4 DEF Settled, enqVars
<1>7. ReplacedSettled' /\ OrphanSettled' /\ ToolAdds' /\ ReplacedOnce' /\ CancelledOnlyIfOver'
  BY <1>6 DEF ToolInv, ReplacedSettled, OrphanSettled, ToolAdds, ReplacedOnce,
     CancelledOnlyIfOver, enqVars, ToolTypeOK
<1>8. ToolTypeOK'
  <2>1. untimely' \in [Task -> Nat]
    BY DEF MakeVisible, ToolTypeOK
  <2> QED
    BY <1>3, <2>1 DEF ToolTypeOK, ToolStep, BaseInv, TInv
<1> QED
  BY <1>3, <1>5, <1>7, <1>8 DEF ToolInv

\* The orphan that is cancelled will not be found again.
LEMMA CancelOrphanKeeps ==
  ASSUME StuckInv, NEW t \in Task, CancelOrphan(t) PROVE StuckInv'
<1> USE DEF StuckInv, CancelOrphan
<1>1. t \in InHand /\ enq[t] = "done" /\ Over(t)
  BY DEF InHand, ToolInv, HandsDone, OrphansOver
<1>2. InHand' \subseteq InHand \ {t} /\ InHand' \subseteq InHand /\ InHand \subseteq Task
  BY DEF InHand, ToolInv, OneHand, ToolTypeOK
<1>3. CASE UpdateStatus(t, Cancelled, AnyStatus) /\ orphan' = t /\ step' = "creating"
  <2>1. Cancelled \in AnyStatus /\ NoRecord \notin AnyStatus /\ Enqueued \notin {Cancelled, NoRecord}
    BY DEF AnyStatus, LogStatus, Cancelled, NoRecord, Enqueued, Dequeued, Running,
       ChildRunning, Completed, Failed, Archived
  <2>2. /\ \A u \in Task \ {t} : log'[u] = log[u]
        /\ log'[t] # Enqueued
        /\ log[t] = NoRecord => log'[t] = NoRecord
        /\ log' \in [Task -> AnyStatus \cup {NoRecord}]
    BY <1>3, <2>1 DEF UpdateStatus, Touched, BaseInv, TInv, TypeOK, LogTypeOK
  <2>3. TInv'
    BY <2>2 DEF BaseInv, TInv, TypeOK, LogTypeOK, BrokerTypeOK, BusyHasTask, ResultDecided,
       enqVars, workerVars, brokerVars
  <2>4. HolderInv'
    BY DEF BaseInv, HolderInv, HeldOnce, RowOfPushed, OneAdder, enqVars, workerVars, brokerVars
  <2>5. StartInv'
    <3>1. RecordOfDone'
      BY <1>1, <2>2 DEF BaseInv, StartInv, RecordOfDone, enqVars
    <3> QED
      BY <3>1 DEF BaseInv, StartInv, HeldWasPushed, Holds, ClaimedWasStarted, NewIsFresh,
         NothingLost, workerVars, brokerVars
  <2>6. ToolTypeOK'
    BY <1>3, <2>3 DEF ToolTypeOK, ToolStep, TInv
  <2>7. OneHand' /\ HandsDone'
    BY <1>2, <1>3 DEF ToolInv, OneHand, HandsDone, InHand, enqVars
  <2>8. OrphansOver' /\ CancelledOnlyIfOver'
    BY <1>1, <1>2, <2>2 DEF ToolInv, OrphansOver, CancelledOnlyIfOver, Over
  <2>9. \A u \in Task : Settled(u) => Settled(u)' /\ u # t
    BY <1>1, <1>2, <2>2 DEF Settled, enqVars
  <2>10. Settled(t)'
    BY <1>1, <1>2, <2>2 DEF Settled, enqVars
  <2>11. \A c \in Task : replaces[c] # t
    BY <2>9, TaskAssumption DEF ToolInv, ReplacedSettled, ToolTypeOK
  <2>12. ReplacedSettled' /\ OrphanSettled'
    BY <1>3, <2>9, <2>10, <2>11 DEF ToolInv, ReplacedSettled, OrphanSettled, ToolTypeOK
  <2>13. ToolAdds' /\ ReplacedOnce'
    BY <1>3 DEF ToolInv, ToolAdds, ReplacedOnce
  <2> QED
    BY <2>3, <2>4, <2>5, <2>6, <2>7, <2>8, <2>12, <2>13 DEF BaseInv, ToolInv
<1>4. CASE UNCHANGED <<log, orphan, step>>
  <2>1. BaseInv'
    BY <1>4, Untouched DEF BaseInv, TInv, TypeOK
  <2>2. ToolTypeOK'
    BY <1>4, <2>1 DEF ToolTypeOK, BaseInv, TInv
  <2>3. OneHand' /\ HandsDone' /\ OrphansOver' /\ CancelledOnlyIfOver'
    BY <1>2, <1>4 DEF ToolInv, OneHand, HandsDone, OrphansOver, CancelledOnlyIfOver, Over,
       InHand, enqVars
  <2>4. \A u \in Task : Settled(u) => Settled(u)'
    BY <1>2, <1>4 DEF Settled, enqVars
  <2>5. ReplacedSettled' /\ OrphanSettled' /\ ToolAdds' /\ ReplacedOnce'
    BY <1>4, <2>4 DEF ToolInv, ReplacedSettled, OrphanSettled, ToolAdds, ReplacedOnce,
       enqVars, ToolTypeOK
  <2> QED
    BY <2>1, <2>2, <2>3, <2>5 DEF ToolInv
<1> QED
  BY <1>3, <1>4

\* The replacement is pushed as any new task is, for an orphan that has none.
LEMMA CreateKeeps ==
  ASSUME StuckInv, NEW c \in Task, CreateForOrphan(c) PROVE StuckInv'
<1> USE TaskAssumption
<1> USE DEF StuckInv, CreateForOrphan
<1>1. enq[c] = "new"
  BY DEF PushMessage, PushFails
<1>2. InHand' = InHand /\ InHand \subseteq Task
  BY DEF InHand, ToolTypeOK
<1>3. \A u \in Task : enq[u] = "done" => u # c
  BY <1>1
<1>4. CASE /\ PushMessage(c) /\ replaces' = [replaces EXCEPT ![c] = orphan]
           /\ step' = "adding" /\ orphan' = orphan
  <2> USE <1>4 DEF PushMessage, Push
  <2>1. TInv'
    BY DEF BaseInv, TInv, TypeOK, LogTypeOK, BrokerTypeOK, RowState, EnqState, BusyHasTask,
       ResultDecided, workerVars
  <2>2. HolderInv'
    BY DEF BaseInv, TInv, TypeOK, BrokerTypeOK, HolderInv, HeldOnce, RowOfPushed, OneAdder,
       workerVars
  <2>3. StartInv'
    BY DEF BaseInv, TInv, TypeOK, BrokerTypeOK, StartInv, HeldWasPushed, Holds,
       ClaimedWasStarted, NewIsFresh, RecordOfDone, NothingLost, workerVars
  <2>4. \A u \in Task : enq[u] = "done" => enq'[u] = "done"
    BY <1>3 DEF BaseInv, TInv, TypeOK
  <2>5. OneHand' /\ HandsDone'
    BY <1>2, <2>4 DEF ToolInv, OneHand, HandsDone, InHand
  <2>6. OrphansOver' /\ CancelledOnlyIfOver'
    BY DEF ToolInv, OrphansOver, CancelledOnlyIfOver, Over
  <2>7. \A u \in Task : Settled(u) => Settled(u)'
    BY <1>2, <2>4 DEF Settled
  <2>8. ToolTypeOK'
    BY <2>1 DEF ToolTypeOK, ToolStep, TInv, ToolInv, OrphanSettled
  <2>9. \A d \in Task : replaces'[d] = IF d = c THEN orphan ELSE replaces[d]
    BY DEF ToolTypeOK
  <2>10. \A w \in Worker : adding[w] # c
    BY <1>1 DEF BaseInv, HolderInv, OneAdder
  <2>11. ReplacedSettled' /\ OrphanSettled'
    BY <2>7, <2>9 DEF ToolInv, ReplacedSettled, OrphanSettled, ToolTypeOK
  <2>12. ReplacedOnce'
    BY <2>9 DEF ToolInv, OrphanSettled, ReplacedOnce
  <2>13. ToolAdds'
    BY <2>9, <2>10 DEF ToolInv, ToolAdds, OrphanSettled, BaseInv, TInv, TypeOK
  <2> QED
    BY <2>1, <2>2, <2>3, <2>5, <2>6, <2>8, <2>11, <2>12, <2>13 DEF ToolInv, BaseInv
<1>5. CASE PushFails(c) /\ orphan' = NoTask /\ step' = "restarting" /\ replaces' = replaces
  <2> USE <1>5 DEF PushFails, brokerVars
  <2>1. TInv'
    BY DEF BaseInv, TInv, TypeOK, LogTypeOK, BrokerTypeOK, EnqState, BusyHasTask,
       ResultDecided, workerVars
  <2>2. HolderInv'
    BY DEF BaseInv, TInv, TypeOK, HolderInv, HeldOnce, RowOfPushed, OneAdder, workerVars
  <2>3. StartInv'
    BY DEF BaseInv, TInv, TypeOK, StartInv, HeldWasPushed, Holds, ClaimedWasStarted,
       NewIsFresh, RecordOfDone, NothingLost, workerVars
  <2>4. \A u \in Task : enq[u] = "done" => enq'[u] = "done"
    BY <1>3 DEF BaseInv, TInv, TypeOK
  <2>5. OneHand' /\ HandsDone'
    BY <1>2, <2>4 DEF ToolInv, OneHand, HandsDone, InHand
  <2>6. OrphansOver' /\ CancelledOnlyIfOver'
    BY DEF ToolInv, OrphansOver, CancelledOnlyIfOver, Over
  <2>7. \A u \in Task : Settled(u) => Settled(u)'
    BY <1>2, <2>4 DEF Settled
  <2>8. ToolTypeOK'
    BY <2>1 DEF ToolTypeOK, ToolStep, TInv
  <2>9. ReplacedSettled' /\ OrphanSettled' /\ ToolAdds' /\ ReplacedOnce'
    BY <2>7 DEF ToolInv, ReplacedSettled, OrphanSettled, ToolAdds, ReplacedOnce, ToolTypeOK
  <2> QED
    BY <2>1, <2>2, <2>3, <2>5, <2>6, <2>8, <2>9 DEF ToolInv, BaseInv
<1> QED
  BY <1>4, <1>5

\* A step that changes nothing but where the command is and lets go what it
\* has in hand, or nothing of it.
LEMMA IdleStepKeeps ==
  ASSUME StuckInv, UNCHANGED <<toolFrame, table, replaces, untimely, searches>>,
         todo' \subseteq todo, found' \subseteq found, orphans' \subseteq orphans,
         orphan' \in {orphan, NoTask},
         \/ step' = "restarting" /\ todo' = {}
         \/ step' = "idle" /\ todo' = {} /\ found' = {} /\ orphans' = {}
  PROVE  StuckInv'
<1> USE DEF StuckInv, toolFrame
<1>1. BaseInv'
  BY Untouched DEF BaseInv, TInv, TypeOK, brokerVars
<1>2. ToolTypeOK'
  BY <1>1 DEF ToolTypeOK, ToolStep, BaseInv, TInv
<1>3. InHand' \subseteq InHand /\ InHand \subseteq Task
  BY DEF InHand, ToolTypeOK
<1>4. OneHand' /\ HandsDone' /\ OrphansOver' /\ CancelledOnlyIfOver'
  BY <1>3 DEF ToolInv, OneHand, HandsDone, OrphansOver, CancelledOnlyIfOver, Over, InHand,
     enqVars
<1>5. \A u \in Task : Settled(u) => Settled(u)'
  BY <1>3 DEF Settled, enqVars
<1>6. ReplacedSettled' /\ OrphanSettled' /\ ToolAdds' /\ ReplacedOnce'
  BY <1>5 DEF ToolInv, ReplacedSettled, OrphanSettled, ToolAdds, ReplacedOnce, ToolTypeOK
<1> QED
  BY <1>1, <1>2, <1>4, <1>6 DEF ToolInv

\* Whether or not the record was added, enqueue() of the replacement is over.
LEMMA AddOverKeeps ==
  ASSUME StuckInv, step = "adding", step' \in {"idle", "restarting"},
         enq' = [c \in Task |-> IF replaces[c] = orphan THEN "done" ELSE enq[c]],
         log' \in [Task -> AnyStatus \cup {NoRecord}],
         \A t \in Task :
           \/ log'[t] = log[t]
           \/ log[t] = NoRecord /\ log'[t] = Enqueued /\ replaces[t] = orphan,
         UNCHANGED <<brokerVars, adding, workerVars, remote, onlyFailed, runs, replaces,
                     untimely, searches>>,
         crashes' \in 0..MaxCrashes,
         orphan' = NoTask,
         step' = "restarting" => UNCHANGED <<todo, found, orphans>>,
         step' = "idle" => todo' = {} /\ found' = {} /\ orphans' = {}
  PROVE  StuckInv'
<1> USE TaskAssumption
<1> USE DEF StuckInv, brokerVars
<1>1. \A c \in Task : replaces[c] = orphan =>
        enq[c] = "pushed" /\ \A w \in Worker : adding[w] # c
  BY DEF ToolInv, ToolAdds
<1>2. TInv'
  BY DEF BaseInv, TInv, TypeOK, LogTypeOK, BrokerTypeOK, EnqState, BusyHasTask, ResultDecided,
     workerVars
<1>3. HolderInv'
  BY <1>1 DEF BaseInv, HolderInv, HeldOnce, RowOfPushed, OneAdder, TInv, TypeOK, workerVars
<1>4. StartInv'
  <2>1. RecordOfDone'
    BY <1>1 DEF BaseInv, StartInv, RecordOfDone, TInv, TypeOK
  <2> QED
    BY <2>1 DEF BaseInv, StartInv, HeldWasPushed, Holds, ClaimedWasStarted, NewIsFresh,
       NothingLost, workerVars
<1>5. InHand' \subseteq InHand /\ InHand \subseteq Task
  BY DEF InHand, ToolTypeOK
<1>6. \A t \in Task : enq[t] = "done" =>
        enq'[t] = "done" /\ (log'[t] = Enqueued => log[t] = Enqueued)
  BY <1>1
<1>7. OneHand' /\ HandsDone'
  BY <1>5, <1>6 DEF ToolInv, OneHand, HandsDone, InHand
<1>8. OrphansOver' /\ CancelledOnlyIfOver'
  BY DEF ToolInv, OrphansOver, CancelledOnlyIfOver, Over, Cancelled, Enqueued
<1>9. \A u \in Task : Settled(u) => Settled(u)'
  BY <1>5, <1>6 DEF Settled
<1>10. ReplacedSettled' /\ OrphanSettled' /\ ToolAdds' /\ ReplacedOnce'
  BY <1>9 DEF ToolInv, ReplacedSettled, OrphanSettled, ToolAdds, ReplacedOnce, ToolTypeOK
<1>11. ToolTypeOK'
  BY <1>2 DEF ToolTypeOK, ToolStep, TInv
<1> QED
  BY <1>2, <1>3, <1>4, <1>7, <1>8, <1>10, <1>11 DEF BaseInv, ToolInv

\* The record of the replacement is added by the command and by nobody else.
LEMMA AddForOrphanKeeps ==
  ASSUME StuckInv, AddForOrphan PROVE StuckInv'
<1> USE DEF AddForOrphan, StuckInv, BaseInv
<1>1. PICK c \in Task : replaces[c] = orphan /\ AddToLog(c)
  OBVIOUS
<1>2. orphan \in Task /\ \A d \in Task : replaces[d] = orphan => d = c
  BY <1>1, TaskAssumption DEF ToolInv, OrphanSettled, ReplacedOnce
<1>3. enq' = [d \in Task |-> IF replaces[d] = orphan THEN "done" ELSE enq[d]]
  BY <1>1, <1>2 DEF AddToLog, TInv, TypeOK
<1>4. /\ log' \in [Task -> AnyStatus \cup {NoRecord}]
      /\ \A t \in Task :
           \/ log'[t] = log[t]
           \/ log[t] = NoRecord /\ log'[t] = Enqueued /\ replaces[t] = orphan
  <2>1. Enqueued \in AnyStatus
    BY DEF AnyStatus, LogStatus
  <2>2. log \in [Task -> AnyStatus \cup {NoRecord}]
    BY DEF TInv, TypeOK, LogTypeOK
  <2>3. CASE log[c] = NoRecord /\ log' = [log EXCEPT ![c] = Enqueued]
    BY <1>1, <2>1, <2>2, <2>3
  <2>4. CASE UNCHANGED log
    BY <2>2, <2>4
  <2> QED
    BY <1>1, <2>3, <2>4 DEF AddToLog, AddRecord
<1>5. crashes' \in 0..MaxCrashes
  BY DEF TInv, TypeOK
<1> QED
  BY <1>3, <1>4, <1>5, AddOverKeeps

\* A command that is stopped between push() and add() leaves a replacement
\* without a record; nothing stays in its hands.
LEMMA StopKeeps ==
  ASSUME StuckInv, Stop PROVE StuckInv'
<1> USE DEF StuckInv, Stop
<1>1. crashes' \in 0..MaxCrashes
  BY CrashAssumption DEF BaseInv, TInv, TypeOK
<1>2. CASE step = "adding"
  <2>1. enq' = [c \in Task |-> IF replaces[c] = orphan THEN "done" ELSE enq[c]]
    BY <1>2
  <2>2. log' \in [Task -> AnyStatus \cup {NoRecord}]
    BY DEF BaseInv, TInv, TypeOK, LogTypeOK
  <2> QED
    BY <1>1, <1>2, <2>1, <2>2, AddOverKeeps
<1>3. CASE step # "adding"
  <2>1. enq' = enq
    BY <1>3 DEF BaseInv, TInv, TypeOK
  <2>2. BaseInv'
    BY <1>1, <2>1, Untouched DEF enqVars
  <2>3. ToolTypeOK'
    BY <2>2 DEF ToolTypeOK, ToolStep, BaseInv, TInv
  <2>4. InHand' = {} /\ OneHand'
    BY DEF OneHand, InHand
  <2>5. HandsDone' /\ OrphansOver' /\ CancelledOnlyIfOver' /\ ToolAdds' /\ ReplacedOnce'
    BY <2>4 DEF ToolInv, HandsDone, OrphansOver, CancelledOnlyIfOver, Over, ToolAdds,
       ReplacedOnce
  <2>6. \A u \in Task : Settled(u) => Settled(u)'
    BY <2>1, <2>4 DEF Settled
  <2>7. ReplacedSettled' /\ OrphanSettled'
    BY <2>6 DEF ToolInv, ReplacedSettled, OrphanSettled, ToolTypeOK
  <2> QED
    BY <2>2, <2>3, <2>4, <2>5, <2>7 DEF ToolInv
<1> QED
  BY <1>2, <1>3

\* The queue and the command keep the invariant.
LEMMA StuckStep == StuckInv /\ [ToolNext]_allVars => StuckInv'
<1> SUFFICES ASSUME StuckInv, [ToolNext]_allVars PROVE StuckInv'
  OBVIOUS
<1>1. CASE QueueStep
  BY <1>1, QueueStepKeeps
<1>2. CASE Search
  BY <1>2, SearchKeeps
<1>3. CASE CreateNothing \/ Done
  <2>1. todo = {}
    BY <1>3 DEF CreateNothing, Done, StuckInv, ToolInv, OneHand
  <2> QED
    BY <1>3, <2>1, IdleStepKeeps DEF CreateNothing, Done
<1>4. CASE Tool
  BY <1>3, <1>4, LookUpKeeps, RestartKeeps, CancelOrphanKeeps, CreateKeeps,
     AddForOrphanKeeps DEF Tool
<1>5. CASE Stop
  BY <1>5, StopKeeps
<1>6. CASE UNCHANGED allVars
  <2>1. BaseInv'
    BY <1>6, Untouched DEF allVars, vars, brokerVars, enqVars, workerVars, StuckInv,
       BaseInv, TInv, TypeOK
  <2>2. ToolTypeOK'
    BY <1>6, <2>1 DEF allVars, toolVars, StuckInv, ToolTypeOK, BaseInv, TInv
  <2>3. ToolInv'
    BY <1>6 DEF allVars, vars, toolVars, StuckInv, ToolInv, OneHand, HandsDone, InHand,
       OrphansOver, CancelledOnlyIfOver, Over, ReplacedSettled, OrphanSettled, Settled,
       ToolAdds, ReplacedOnce
  <2> QED
    BY <2>1, <2>2, <2>3 DEF StuckInv
<1> QED
  BY <1>1, <1>2, <1>4, <1>5, <1>6 DEF ToolNext

\* The invariant holds under the specification of queue and command.
LEMMA StuckInductive == ToolSpec => []StuckInv
BY StuckInit, StuckStep, PTL DEF ToolSpec, allVars

-----------------------------------------------------------------------------
(* How often a task may still be executed: once for a row that is visible,  *)
(* once by each worker that is about to claim it.                           *)

Takers(t) ==
  {w \in Worker : t \in prefetch[w] \/ (cur[w] = t /\ pc[w] \in {"popped", "dequeued"})}

Chances(t) ==
  Cardinality(Takers(t)) + (IF table[t] = "visible" THEN 1 ELSE 0) + runs[t]

Counted == \A t \in Task : Chances(t) <= 1 + untimely[t]

\* The sets of workers are finite.
LEMMA TakersFinite ==
  ASSUME NEW t
  PROVE  /\ IsFiniteSet(Takers(t)) /\ Cardinality(Takers(t)) \in Nat
         /\ IsFiniteSet(Takers(t)') /\ Cardinality(Takers(t)') \in Nat
<1>1. Takers(t) \subseteq Worker /\ Takers(t)' \subseteq Worker
  BY DEF Takers
<1> QED
  BY <1>1, StuckAssumption, FS_Subset, FS_CardinalityType

\* A step that gives nobody the task and makes no row visible adds no chance.
LEMMA NoMoreChances ==
  ASSUME BaseInv, NEW t \in Task, Takers(t)' \subseteq Takers(t), runs'[t] = runs[t],
         table'[t] = "visible" => table[t] = "visible"
  PROVE  Chances(t)' <= Chances(t)
<1>1. Cardinality(Takers(t)') <= Cardinality(Takers(t))
  BY TakersFinite, FS_Subset
<1>2. runs[t] \in Nat
  BY DEF BaseInv, TInv, TypeOK
<1> QED
  BY <1>1, <1>2, TakersFinite DEF Chances

\* A worker that pops a visible row takes its chance over.
LEMMA TakenOver ==
  ASSUME BaseInv, NEW t \in Task, NEW w \in Worker, Takers(t)' \subseteq Takers(t) \cup {w},
         runs'[t] = runs[t], table[t] = "visible", table'[t] = "hidden"
  PROVE  Chances(t)' <= Chances(t)
<1>1. /\ IsFiniteSet(Takers(t) \cup {w})
      /\ Cardinality(Takers(t) \cup {w}) \in {Cardinality(Takers(t)), Cardinality(Takers(t)) + 1}
  BY TakersFinite, FS_AddElement
<1>2. Cardinality(Takers(t)') <= Cardinality(Takers(t)) + 1
  BY <1>1, TakersFinite, FS_Subset
<1>3. runs[t] \in Nat
  BY DEF BaseInv, TInv, TypeOK
<1> QED
  BY <1>2, <1>3, TakersFinite DEF Chances

\* A claim turns the chance of its worker into an execution.
LEMMA ClaimTakesChance ==
  ASSUME BaseInv, NEW w \in Worker, Claim(w), NEW t \in Task
  PROVE  Chances(t)' <= Chances(t)
<1> USE DEF BaseInv, TInv, TypeOK
<1>1. UNCHANGED <<table, prefetch, cur>> /\ pc[w] = "dequeued" /\ pc' = [pc EXCEPT ![w] = "running"]
      /\ cur[w] \in Task /\ runs' = [runs EXCEPT ![cur[w]] = @ + 1]
  BY DEF Claim, Touched, GoTo, brokerVars
<1>2. CASE t # cur[w]
  <2>1. Takers(t)' \subseteq Takers(t)
    BY <1>1, <1>2 DEF Takers
  <2>2. runs'[t] = runs[t]
    BY <1>1, <1>2
  <2> QED
    BY <1>1, <2>1, <2>2, NoMoreChances
<1>3. CASE t = cur[w]
  <2>1. t \notin prefetch[w]
    BY <1>3 DEF HolderInv, HeldOnce
  <2>2. w \in Takers(t) /\ Takers(t)' = Takers(t) \ {w}
    BY <1>1, <1>3, <2>1 DEF Takers
  <2>3. Cardinality(Takers(t)') = Cardinality(Takers(t)) - 1
    BY <2>2, TakersFinite, FS_RemoveElement
  <2>4. runs[t] \in Nat /\ runs'[t] = runs[t] + 1
    BY <1>1, <1>3
  <2> QED
    BY <1>1, <2>3, <2>4, TakersFinite DEF Chances
<1> QED
  BY <1>2, <1>3

\* pop() hides what it takes: it moves a chance and adds none.
LEMMA PopMovesChance ==
  ASSUME ~CommitMayFail, BaseInv, NEW w \in Worker, PopTask(w), NEW t \in Task
  PROVE  Chances(t)' <= Chances(t)
<1> USE DEF BaseInv, TInv, TypeOK, BrokerTypeOK
<1>1. PICK u \in Task : Pop(w, u) /\ cur' = [cur EXCEPT ![w] = u]
  BY DEF PopTask
<1>2. pc' = [pc EXCEPT ![w] = "popped"] /\ UNCHANGED runs /\ cur[w] = NoTask
  BY DEF PopTask, GoTo, BusyHasTask
<1>3. CASE /\ u \in prefetch[w]
           /\ prefetch' = [prefetch EXCEPT ![w] = @ \ {u}]
           /\ UNCHANGED table
  <2>1. Takers(t)' \subseteq Takers(t)
    BY <1>1, <1>2, <1>3 DEF Takers
  <2> QED
    BY <1>2, <1>3, <2>1, NoMoreChances
<1>4. ASSUME NEW B \in Batches, u \in B \ Invalid, NEW D \in Rejected(B), Hide(B, D),
             prefetch' = [prefetch EXCEPT ![w] = B \ (Invalid \cup {u})]
      PROVE  Chances(t)' <= Chances(t)
  <2>1. \A v \in B : table[v] = "visible"
    BY DEF Batches, Visible
  <2>2. D \subseteq B \cap Invalid
    BY DEF Rejected
  <2>3. table'[t] = IF t \in D THEN "gone" ELSE IF t \in B THEN "hidden" ELSE table[t]
    BY <1>4 DEF Hide
  <2>4. prefetch'[w] = B \ (Invalid \cup {u}) /\ \A v \in Worker \ {w} : prefetch'[v] = prefetch[v]
    BY <1>4
  <2>5. CASE t \in B \ Invalid
    <3>1. Takers(t)' \subseteq Takers(t) \cup {w}
      BY <1>1, <1>2, <2>4 DEF Takers
    <3> QED
      BY <1>2, <2>1, <2>2, <2>3, <2>5, <3>1, TakenOver
  <2>6. CASE t \notin B \ Invalid
    <3>1. Takers(t)' \subseteq Takers(t)
      BY <1>1, <1>2, <1>4, <2>4, <2>6 DEF Takers
    <3>2. table'[t] = "visible" => table[t] = "visible"
      BY <2>3
    <3> QED
      BY <1>2, <3>1, <3>2, NoMoreChances
  <2> QED
    BY <2>5, <2>6
<1> QED
  BY <1>1, <1>3, <1>4 DEF Pop

\* A message that is pushed is the first chance of its task.
LEMMA PushGivesOne ==
  ASSUME BaseInv, NEW c \in Task, Push(c), UNCHANGED <<runs, cur>>,
         \A w \in Worker : pc'[w] \in {"popped", "dequeued"} => pc'[w] = pc[w],
         NEW t \in Task
  PROVE  Chances(t)' <= Chances(t) \/ Chances(t)' <= 1
<1> USE DEF BaseInv, TInv, TypeOK, BrokerTypeOK, Push
<1>1. Takers(t)' \subseteq Takers(t)
  BY DEF Takers
<1>2. CASE t # c
  BY <1>1, <1>2, NoMoreChances
<1>3. CASE t = c
  <2>1. Takers(t) = {}
    BY <1>3 DEF Takers, StartInv, HeldWasPushed, Holds
  <2>2. Cardinality(Takers(t)') = 0
    BY <1>1, <2>1, FS_EmptySet
  <2>3. runs'[t] = 0 /\ table'[t] = "visible"
    BY <1>3 DEF StartInv, NewIsFresh
  <2>4. Chances(t)' = 0 + 1 + 0
    BY <2>2, <2>3 DEF Chances
  <2> QED
    BY <2>4
<1> QED
  BY <1>2, <1>3

\* The steps of the queue add no chance but the first.
LEMMA QueueAddsNoChance ==
  ASSUME ~CommitMayFail, BaseInv, Next, NEW t \in Task
  PROVE  Chances(t)' <= Chances(t) \/ Chances(t)' <= 1
<1> DEFINE Goal == Chances(t)' <= Chances(t) \/ Chances(t)' <= 1
<1> USE DEF BaseInv, TInv, TypeOK
<1>1. ASSUME Takers(t)' \subseteq Takers(t), runs' = runs,
             table'[t] = "visible" => table[t] = "visible"
      PROVE  Goal
  BY <1>1, NoMoreChances
<1>2. ASSUME NEW u \in Task, RequestPush(u) PROVE Goal
  <2>1. CASE Push(u)
    BY <1>2, <2>1, PushGivesOne DEF RequestPush, workerVars
  <2>2. CASE PushFails(u)
    BY <1>1, <1>2, <2>2 DEF RequestPush, PushFails, brokerVars, workerVars, Takers
  <2> QED
    BY <1>2, <2>1, <2>2 DEF RequestPush, PushMessage
<1>3. ASSUME NEW w \in Worker, NEW c \in Task, SpawnPush(w, c) \/ Reschedule(w, c) PROVE Goal
  <2>1. /\ UNCHANGED <<runs, cur>>
        /\ \A v \in Worker : pc'[v] \in {"popped", "dequeued"} => pc'[v] = pc[v]
    BY <1>3 DEF SpawnPush, Reschedule, GoTo, workerVars
  <2>2. CASE Push(c)
    BY <2>1, <2>2, PushGivesOne
  <2>3. CASE PushFails(c)
    BY <1>1, <2>1, <2>3 DEF PushFails, brokerVars, Takers
  <2> QED
    BY <1>3, <2>2, <2>3 DEF SpawnPush, Reschedule, PushMessage
<1>4. ASSUME NEW u \in Task, RequestAdd(u) PROVE Goal
  BY <1>1, <1>4 DEF RequestAdd, brokerVars, workerVars, Takers
<1>5. ASSUME NEW w \in Worker, PopTask(w) PROVE Goal
  BY <1>5, PopMovesChance
<1>6. ASSUME NEW w \in Worker, PollEmpty(w) PROVE Goal
  BY <1>1, <1>6, EmptyPollEffect DEF PollEmpty, workerVars, Takers
<1>7. ASSUME NEW w \in Worker, Process(w) PROVE Goal
  <2> USE DEF GoTo, Takers, brokerVars
  <2>1. CASE Claim(w)
    BY <2>1, ClaimTakesChance
  <2>2. CASE MarkDequeued(w)
    BY <1>1, <2>2 DEF MarkDequeued
  <2>3. CASE SpawnAdd(w) \/ Finish(w) \/ PollRemote(w) \/ ConfirmRemote(w)
    BY <1>1, <2>3 DEF SpawnAdd, Finish, PollRemote, ConfirmRemote
  <2>4. CASE DropRecord(w) \/ Report(w) \/ ReadFamily(w) \/ WriteParent(w)
    BY <1>1, <2>4 DEF DropRecord, Report, AfterReport, ReadFamily, WriteParent
  <2>5. CASE Skip(w) \/ PollFails(w) \/ ParentNotFound(w)
    BY <1>1, <2>5, TaskAssumption DEF Skip, PollFails, ParentNotFound, Release
  <2>6. CASE Acknowledge(w)
    BY <1>1, <2>6, TaskAssumption DEF Acknowledge, Delete, Release, BrokerTypeOK
  <2> QED
    BY <1>3, <1>7, <2>1, <2>2, <2>3, <2>4, <2>5, <2>6 DEF Process
<1>8. ASSUME NEW w \in Worker, Crash(w) PROVE Goal
  BY <1>1, <1>8, TaskAssumption
     DEF Crash, ForgetPrefetched, Release, GoTo, Takers, BrokerTypeOK
<1>9. CASE RemoteProgress
  BY <1>1, <1>9 DEF RemoteProgress, brokerVars, workerVars, Takers
<1> QED
  BY <1>2, <1>3, <1>4, <1>5, <1>6, <1>7, <1>8, <1>9 DEF Next

\* A row that is made visible is one more chance: it is counted as untimely
\* unless the task had none before.
LEMMA RestartCounts ==
  ASSUME StuckInv, NEW u \in Task, Restart(u), NEW t \in Task, Chances(t) <= 1 + untimely[t]
  PROVE  Chances(t)' <= 1 + untimely'[t]
<1> USE DEF StuckInv, BaseInv, TInv, TypeOK, BrokerTypeOK, ToolTypeOK
<1>1. /\ UNCHANGED <<prefetch, cur, pc, runs>>
      /\ MakeVisible(u) \/ UNCHANGED <<table, untimely>>
  BY DEF Restart, toolFrame, workerVars
<1>2. Takers(t)' = Takers(t)
  BY <1>1 DEF Takers
<1>3. runs[t] \in Nat /\ untimely[t] \in Nat /\ Cardinality(Takers(t)) \in Nat
  BY TakersFinite
<1>4. CASE table'[t] = table[t] /\ untimely'[t] = untimely[t]
  BY <1>1, <1>2, <1>3, <1>4 DEF Chances
<1>5. CASE /\ table[t] = "hidden" /\ table'[t] = "visible"
           /\ untimely'[t] = untimely[t] + 1
  BY <1>1, <1>2, <1>3, <1>5 DEF Chances
<1>6. CASE /\ table'[t] = "visible" /\ ~InWork(t) /\ untimely'[t] = untimely[t]
  <2>1. Takers(t) = {} /\ runs[t] = 0
    BY <1>3, <1>6 DEF InWork, Takers, Holds
  <2>2. Cardinality(Takers(t)') = 0
    BY <1>2, <2>1, FS_EmptySet
  <2>3. Chances(t)' = 0 + 1 + 0
    BY <1>1, <1>6, <2>1, <2>2 DEF Chances
  <2> QED
    BY <1>3, <1>6, <2>3
<1>7. CASE UNCHANGED <<table, untimely>>
  BY <1>4, <1>7
<1>8. CASE MakeVisible(u)
  <2>1. CASE t # u
    BY <1>4, <1>8, <2>1 DEF MakeVisible
  <2>2. CASE t = u
    <3>1. CASE table[t] # "hidden"
      BY <1>4, <1>8, <2>2, <3>1 DEF MakeVisible
    <3>2. CASE table[t] = "hidden" /\ InWork(t)
      BY <1>5, <1>8, <2>2, <3>2 DEF MakeVisible
    <3>3. CASE table[t] = "hidden" /\ ~InWork(t)
      BY <1>6, <1>8, <2>2, <3>3 DEF MakeVisible
    <3> QED
      BY <3>1, <3>2, <3>3
  <2> QED
    BY <2>1, <2>2
<1> QED
  BY <1>1, <1>7, <1>8

\* Every step of the queue or the command keeps the count.
LEMMA CountStep ==
  ASSUME ~CommitMayFail, StuckInv, Counted, [ToolNext]_allVars
  PROVE  Counted'
<1> SUFFICES ASSUME NEW t \in Task PROVE Chances(t)' <= 1 + untimely'[t]
  BY DEF Counted
<1> USE DEF StuckInv
<1>1. Chances(t) <= 1 + untimely[t]
  BY DEF Counted
<1>2. /\ untimely[t] \in Nat /\ Chances(t) \in Int /\ Chances(t)' \in Int
  <2>1. BaseInv'
    BY StuckStep
  <2>2. runs[t] \in Nat /\ runs'[t] \in Nat
    BY <2>1 DEF BaseInv, TInv, TypeOK
  <2> QED
    BY <2>2, TakersFinite DEF Chances, ToolTypeOK
<1>3. ASSUME Chances(t)' <= Chances(t) \/ Chances(t)' <= 1, untimely'[t] = untimely[t]
      PROVE  Chances(t)' <= 1 + untimely'[t]
  BY <1>1, <1>2, <1>3
<1>4. ASSUME UNCHANGED <<prefetch, workerVars, runs, untimely>>,
             table'[t] = "visible" => table[t] = "visible"
      PROVE  Chances(t)' <= 1 + untimely'[t]
  <2>1. Takers(t)' \subseteq Takers(t)
    BY <1>4 DEF Takers, workerVars
  <2> QED
    BY <1>3, <1>4, <2>1, NoMoreChances
<1>5. CASE QueueStep
  BY <1>3, <1>5, QueueAddsNoChance DEF QueueStep, toolVars
<1>6. CASE Search \/ Stop
  BY <1>4, <1>6 DEF Search, Stop, toolFrame, brokerVars
<1>7. CASE Tool
  <2>1. ASSUME NEW u \in Task, LookUp(u) PROVE Chances(t)' <= 1 + untimely'[t]
    BY <1>4, <2>1 DEF LookUp, Delete, toolFrame, BaseInv, TInv, TypeOK, BrokerTypeOK
  <2>2. ASSUME NEW u \in Task, Restart(u) PROVE Chances(t)' <= 1 + untimely'[t]
    BY <1>1, <2>2, RestartCounts
  <2>3. ASSUME NEW u \in Task, CancelOrphan(u) PROVE Chances(t)' <= 1 + untimely'[t]
    BY <1>4, <2>3 DEF CancelOrphan, brokerVars
  <2>4. ASSUME NEW c \in Task, CreateForOrphan(c) PROVE Chances(t)' <= 1 + untimely'[t]
    <3>1. CASE Push(c)
      BY <1>3, <2>4, <3>1, PushGivesOne DEF CreateForOrphan, workerVars
    <3>2. CASE PushFails(c)
      BY <1>4, <2>4, <3>2 DEF CreateForOrphan, PushFails, brokerVars
    <3> QED
      BY <2>4, <3>1, <3>2 DEF CreateForOrphan, PushMessage
  <2>5. CASE CreateNothing \/ AddForOrphan \/ Done
    BY <1>4, <2>5 DEF CreateNothing, AddForOrphan, Done, toolFrame, brokerVars
  <2> QED
    BY <1>7, <2>1, <2>2, <2>3, <2>4, <2>5 DEF Tool
<1>8. CASE UNCHANGED allVars
  BY <1>4, <1>8 DEF allVars, vars, toolVars, workerVars
<1> QED
  BY <1>5, <1>6, <1>7, <1>8 DEF ToolNext

-----------------------------------------------------------------------------
(* The theorems.                                                            *)

\* The command keeps the types, its own and the queue's.
THEOREM ToolTypeCorrect == ToolSpec => []ToolTypeOK
BY StuckInductive, PTL DEF StuckInv

\* A task is executed once, and once more for each time the command makes its
\* message visible while it is in work or done: at any interleaving, with
\* failing calls and crashes, as long as no COMMIT of doPop() fails.
THEOREM ExecutionsCounted ==
  ASSUME CommitMayFail = FALSE PROVE ToolSpec => []ExecutedOncePerRestart
<1>1. ToolInit => Counted
  <2> SUFFICES ASSUME ToolInit, NEW t \in Task PROVE Chances(t) <= 1 + untimely[t]
    BY DEF Counted
  <2>1. Takers(t) = {}
    BY DEF Takers, ToolInit, Init, BrokerInit
  <2>2. Cardinality(Takers(t)) = 0
    BY <2>1, FS_EmptySet
  <2>3. table[t] = "none" /\ runs[t] = 0 /\ untimely[t] = 0
    BY DEF ToolInit, Init, BrokerInit
  <2> QED
    BY <2>2, <2>3 DEF Chances
<1>2. StuckInv /\ Counted /\ [ToolNext]_allVars => Counted'
  BY CountStep
<1>3. StuckInv /\ Counted => ExecutedOncePerRestart
  <2> SUFFICES ASSUME StuckInv, Counted, NEW t \in Task PROVE runs[t] <= 1 + untimely[t]
    BY DEF ExecutedOncePerRestart
  <2>1. Chances(t) <= 1 + untimely[t]
    BY DEF Counted
  <2>2. runs[t] \in Nat /\ untimely[t] \in Nat
    BY DEF StuckInv, BaseInv, TInv, TypeOK, ToolTypeOK
  <2> QED
    BY <2>1, <2>2, TakersFinite DEF Chances
<1> QED
  BY <1>1, <1>2, <1>3, StuckInductive, PTL DEF ToolSpec, allVars

\* What is cancelled and replaced is what nobody will start any more.
THEOREM CancelledAreOver == ToolSpec => []CancelledOnlyIfOver
BY StuckInductive, PTL DEF StuckInv, ToolInv

\* An orphan is replaced once, however often the command is run and stopped.
THEOREM OrphansReplacedOnce == ToolSpec => []ReplacedOnce
BY StuckInductive, PTL DEF StuckInv, ToolInv

\* Neither restarting nor looking up loses a task that was not started.
THEOREM NothingLostByRestarts == ToolSpec => []NothingLost
BY StuckInductive, PTL DEF StuckInv, BaseInv, StartInv
=============================================================================
