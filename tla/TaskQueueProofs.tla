--------------------------- MODULE TaskQueueProofs ---------------------------
(***************************************************************************)
(* Theorems about TaskQueue for any sets of tasks and workers, any family  *)
(* tree, batch size and number of crashes, with or without failing calls.  *)
(* What needs the COMMIT of doPop() to succeed says so.                    *)
(***************************************************************************)
EXTENDS TaskQueue, TLAPS

-----------------------------------------------------------------------------
(* The typing invariant. *)

\* A worker is idle exactly when it holds no task.
BusyHasTask == \A w \in Worker : pc[w] = "idle" <=> cur[w] = NoTask

\* The steps at which res[w] is a status.
Decided == {"polling", "rescheduling", "confirming", "cloning", "cloned", "reporting",
            "parent", "parentWrite"}

ResultDecided == \A w \in Worker : pc[w] \in Decided => res[w] # NoResult

TInv == TypeOK /\ BusyHasTask /\ ResultDecided

LEMMA UpdateStatusType ==
  ASSUME LogTypeOK, NEW id, NEW new \in AnyStatus, NEW prev,
         UpdateStatus(id, new, prev)
  PROVE  LogTypeOK'
BY DEF LogTypeOK, UpdateStatus

\* An UPDATE changes at most the record of its id, from a status the WHERE
\* clause lets through, to the new status.
LEMMA UpdateStatusEffect ==
  ASSUME NEW id, NEW new, NEW prev, UpdateStatus(id, new, prev), NEW t \in Task
  PROVE  log'[t] = log[t] \/ (t = id /\ log[t] \in prev /\ log'[t] = new)
BY DEF UpdateStatus, Touched

LEMMA PopType ==
  ASSUME BrokerTypeOK, NEW w \in Worker, NEW t, Pop(w, t)
  PROVE  BrokerTypeOK' /\ t \in Task
BY DEF BrokerTypeOK, Pop, Batches, Visible, Hide, RowState

LEMMA TInit == Init => TInv
BY CrashAssumption, TaskAssumption
   DEF Init, LogInit, BrokerInit, TInv, TypeOK, LogTypeOK, BrokerTypeOK, NoRecord,
       RowState, EnqState, RemoteStatus, Step, BusyHasTask, ResultDecided, Decided

LEMMA TStep == TInv /\ [Next]_vars => TInv'
<1> SUFFICES ASSUME TInv, [Next]_vars PROVE TInv'
  OBVIOUS
<1> USE TaskAssumption, BrokerAssumption, CrashAssumption
<1> USE DEF TInv, TypeOK, BusyHasTask, ResultDecided, Decided, Step, Claimed, EnqState
<1>1. ASSUME NEW t \in Task, RequestPush(t) PROVE TInv'
  BY <1>1 DEF RequestPush, PushMessage, PushFails, Push, BrokerTypeOK, RowState,
              workerVars, brokerVars, LogTypeOK
<1>2. ASSUME NEW t \in Task, RequestAdd(t) PROVE TInv'
  BY <1>2 DEF RequestAdd, AddToLog, AddRecord, BrokerTypeOK, AnyStatus, LogStatus, Cancelled,
              workerVars, brokerVars, LogTypeOK
<1>3. ASSUME NEW w \in Worker, NEW c \in Task, SpawnPush(w, c) PROVE TInv'
  BY <1>3 DEF SpawnPush, PushMessage, PushFails, Push, BrokerTypeOK, RowState,
              workerVars, brokerVars, LogTypeOK
<1>4. ASSUME NEW w \in Worker, SpawnAdd(w) PROVE TInv'
  BY <1>4 DEF SpawnAdd, AddToLog, AddRecord, BrokerTypeOK, AnyStatus, LogStatus, Cancelled,
              workerVars, brokerVars, LogTypeOK
<1>5. ASSUME NEW w \in Worker, PopTask(w) PROVE TInv'
  <2>1. PICK t : Pop(w, t) /\ cur' = [cur EXCEPT ![w] = t]
    BY <1>5 DEF PopTask
  <2>2. BrokerTypeOK' /\ t \in Task
    BY <2>1, PopType
  <2> QED
    BY <1>5, <2>1, <2>2 DEF PopTask, GoTo, enqVars, LogTypeOK
<1>6. ASSUME NEW w \in Worker, PollEmpty(w) PROVE TInv'
  BY <1>6 DEF PollEmpty, PopNothing, Hide, BrokerTypeOK, RowState, enqVars, workerVars, LogTypeOK
<1>7. ASSUME NEW w \in Worker, Process(w) PROVE TInv'
  <2> USE DEF GoTo, Release, enqVars, brokerVars, BrokerTypeOK
  <2>1. CASE MarkDequeued(w)
    <3>1. Dequeued \in AnyStatus
      BY DEF AnyStatus, LogStatus
    <3> QED BY <2>1, <3>1, UpdateStatusType DEF MarkDequeued, SetStatus, LogTypeOK
  <2>2. CASE Claim(w)
    <3>1. Running \in AnyStatus
      BY DEF AnyStatus, LogStatus
    <3> QED BY <2>2, <3>1, UpdateStatusType DEF Claim
  <2>3. CASE Skip(w)
    BY <2>3 DEF Skip, LogTypeOK
  <2>4. CASE SpawnAdd(w)
    BY <2>4, <1>4
  <2>5. CASE Finish(w)
    BY <2>5 DEF Finish, StatusOfSuccess, NoResult, Completed, Failed, ChildRunning, LogTypeOK
  <2>6. CASE PollRemote(w) \/ ConfirmRemote(w)
    BY <2>6 DEF PollRemote, ConfirmRemote, NoResult, Failed, LogTypeOK
  <2>7. CASE PollFails(w)
    BY <2>7 DEF PollFails, LogTypeOK
  <2>8. ASSUME NEW c \in Task, Reschedule(w, c) PROVE TInv'
    BY <2>8 DEF Reschedule, PushMessage, PushFails, Push, RowState, LogTypeOK
  <2>9. CASE DropRecord(w)
    BY <2>9 DEF DropRecord, DeleteById, AfterReport, LogTypeOK
  <2>10. CASE Report(w)
    <3>1. res[w] \in AnyStatus
      BY <2>10 DEF Report, AnyStatus, LogStatus
    <3> QED BY <2>10, <3>1, UpdateStatusType DEF Report, SetReport, AfterReport, LogTypeOK
  <2>11. CASE ReadFamily(w)
    BY <2>11 DEF ReadFamily, ParentVerdict, NoResult, Completed, Failed, LogTypeOK
  <2>12. CASE ParentNotFound(w)
    BY <2>12 DEF ParentNotFound, LogTypeOK
  <2>13. CASE WriteParent(w)
    <3>1. res[w] \in AnyStatus
      BY <2>13 DEF WriteParent, AnyStatus, LogStatus
    <3> QED BY <2>13, <3>1, UpdateStatusType DEF WriteParent, SetStatus, LogTypeOK
  <2>14. CASE Acknowledge(w)
    BY <2>14 DEF Acknowledge, Delete, RowState, LogTypeOK
  <2> QED
    BY <1>7, <2>1, <2>2, <2>3, <2>4, <2>5, <2>6, <2>7, <2>8, <2>9, <2>10, <2>11,
       <2>12, <2>13, <2>14 DEF Process
<1>8. ASSUME NEW w \in Worker, Crash(w) PROVE TInv'
  BY <1>8 DEF Crash, ForgetPrefetched, Release, GoTo, BrokerTypeOK, LogTypeOK
<1>9. CASE RemoteProgress
  BY <1>9 DEF RemoteProgress, RemoteStatus, brokerVars, enqVars, workerVars,
              BrokerTypeOK, LogTypeOK
<1>10. CASE UNCHANGED vars
  BY <1>10 DEF vars, BrokerTypeOK, LogTypeOK
<1> QED
  BY <1>1, <1>2, <1>3, <1>5, <1>6, <1>7, <1>8, <1>9, <1>10 DEF Next

\* The type invariant, whatever the configuration and whatever fails.
THEOREM TypeCorrect == Spec => []TypeOK
<1>1. Spec => []TInv
  BY TInit, TStep, PTL DEF Spec
<1> QED
  BY <1>1, PTL DEF TInv

-----------------------------------------------------------------------------
(* The inductive invariant behind the safety properties.  It ties the row   *)
(* of a message, the memory of the worker that holds it, the progress of    *)
(* its enqueueing and its record to the number of times it was started.     *)

\* A worker does not hold its current task a second time.
HeldOnce == \A w \in Worker : cur[w] \notin prefetch[w]

\* A row exists exactly for the messages that were pushed.
RowOfPushed ==
  \A t \in Task : table[t] # "none" <=> enq[t] \in {"pushed", "done"}

\* Whoever is to add a task to the log is alone in it.
OneAdder ==
  \A w \in Worker :
    adding[w] # NoTask =>
      /\ enq[adding[w]] = "pushed"
      /\ \A v \in Worker \ {w} : adding[v] # adding[w]

\* Nothing is started before a worker has taken it out of the queue.
FreshRow == \A t \in Task : table[t] \in {"none", "visible"} => runs[t] = 0

FreshPrefetch == \A w \in Worker : \A t \in prefetch[w] : runs[t] = 0

FreshCurrent ==
  \A w \in Worker : pc[w] \in {"popped", "dequeued"} => runs[cur[w]] = 0

StartedOnce == \A w \in Worker : pc[w] \in Claimed => runs[cur[w]] = 1

\* The record is inserted once, before the task can be claimed.
RecordOfDone ==
  \A t \in Task :
    /\ log[t] # NoRecord => enq[t] = "done"
    /\ runs[t] > 0 => enq[t] = "done" /\ log[t] # Enqueued

QueueInv == Exclusive /\ HeldOnce /\ RowOfPushed /\ OneAdder

RunInv ==
  FreshRow /\ FreshPrefetch /\ FreshCurrent /\ StartedOnce /\ RecordOfDone
    /\ AtMostOnce /\ NothingLost

\* The record of a task that keeps its own status follows its worker.
OwnNotStarted ==
  \A t \in Task :
    KeepsOwnStatus(t) /\ runs[t] = 0 => log[t] \in {NoRecord, Enqueued, Dequeued}

Executing == AtWork \cup {"cloning", "cloned", "reporting"}

OwnExecuting ==
  \A w \in Worker :
    KeepsOwnStatus(cur[w]) /\ pc[w] \in Executing => log[cur[w]] = Running

\* A worker never writes its verdict to a parent that keeps its own status.
VerdictAllowed ==
  \A w \in Worker :
    pc[w] = "parentWrite" => Parent[cur[w]] \notin MasterStatus

OwnInv == OwnNotStarted /\ OwnExecuting /\ VerdictAllowed

IInv == TInv /\ QueueInv /\ RunInv /\ OwnInv

LEMMA IInit == Init => QueueInv /\ RunInv /\ OwnInv
BY TaskAssumption
   DEF Init, LogInit, BrokerInit, QueueInv, RunInv, OwnInv, OwnNotStarted, OwnExecuting, VerdictAllowed,
       Executing, AtWork, Exclusive, Holds,
       HeldOnce, RowOfPushed, OneAdder, FreshRow, FreshPrefetch, FreshCurrent,
       StartedOnce, RecordOfDone, AtMostOnce, NothingLost, Claimed, NoRecord

\* What pop() does to the rows when its COMMIT does not fail: the messages w
\* now holds are hidden and were held by w or visible before, and any other
\* row that changed was visible and is hidden or rejected.
LEMMA PopEffect ==
  ASSUME BrokerTypeOK, ~CommitMayFail, NEW w \in Worker, NEW t, Pop(w, t),
         \A u \in prefetch[w] : table[u] = "hidden"
  PROVE  /\ t \in Task
         /\ \A v \in Worker \ {w} : prefetch'[v] = prefetch[v]
         /\ t \notin prefetch'[w]
         /\ \A u \in prefetch'[w] \cup {t} :
              /\ u \in prefetch[w] \/ table[u] = "visible"
              /\ table'[u] = "hidden"
         /\ \A u \in Task :
              \/ table'[u] = table[u]
              \/ /\ table[u] = "visible"
                 /\ table'[u] = "hidden" \/ (table'[u] = "gone" /\ u \in Invalid)
<1>1. CASE /\ t \in prefetch[w]
           /\ prefetch' = [prefetch EXCEPT ![w] = @ \ {t}]
           /\ UNCHANGED table
  BY <1>1 DEF BrokerTypeOK
<1>2. ASSUME NEW B \in Batches, NEW D \in Rejected(B), prefetch[w] = {},
             t \in B \ Invalid, Hide(B, D),
             prefetch' = [prefetch EXCEPT ![w] = B \ (Invalid \cup {t})]
      PROVE  /\ t \in Task
             /\ \A v \in Worker \ {w} : prefetch'[v] = prefetch[v]
             /\ t \notin prefetch'[w]
             /\ \A u \in prefetch'[w] \cup {t} :
                  /\ u \in prefetch[w] \/ table[u] = "visible"
                  /\ table'[u] = "hidden"
             /\ \A u \in Task :
                  \/ table'[u] = table[u]
                  \/ /\ table[u] = "visible"
                     /\ table'[u] = "hidden" \/ (table'[u] = "gone" /\ u \in Invalid)
  <2>1. B \subseteq Task /\ \A u \in B : table[u] = "visible"
    BY DEF Batches, Visible
  <2>2. D \subseteq B \cap Invalid
    BY DEF Rejected
  <2>3. /\ prefetch'[w] = B \ (Invalid \cup {t})
        /\ \A v \in Worker \ {w} : prefetch'[v] = prefetch[v]
    BY <1>2 DEF BrokerTypeOK
  <2>4. \A u \in Task : table'[u] = IF u \in D THEN "gone"
                                     ELSE IF u \in B THEN "hidden" ELSE table[u]
    BY <1>2 DEF Hide
  <2>5. \A u \in prefetch'[w] \cup {t} : u \in B /\ u \notin D
    BY <1>2, <2>2, <2>3
  <2>6. \A u \in prefetch'[w] \cup {t} : table[u] = "visible" /\ table'[u] = "hidden"
    BY <2>1, <2>4, <2>5
  <2>7. ASSUME NEW u \in Task
        PROVE  \/ table'[u] = table[u]
               \/ /\ table[u] = "visible"
                  /\ table'[u] = "hidden" \/ (table'[u] = "gone" /\ u \in Invalid)
    BY <2>1, <2>2, <2>4
  <2> QED
    BY <1>2, <2>1, <2>3, <2>6, <2>7
<1> QED
  BY <1>1, <1>2 DEF Pop

LEMMA EmptyPollEffect ==
  ASSUME NEW w, PopNothing(w), BrokerTypeOK
  PROVE  /\ UNCHANGED prefetch
         /\ \A u \in Task :
              \/ table'[u] = table[u]
              \/ /\ table[u] = "visible" /\ u \in Invalid
                 /\ table'[u] \in {"hidden", "gone"}
BY DEF PopNothing, Batches, Visible, Rejected, Hide, BrokerTypeOK

\* Who holds which message, and which message has a row.
LEMMA HolderStep ==
  ASSUME ~CommitMayFail, TInv, TInv', QueueInv, RunInv, [Next]_vars
  PROVE  QueueInv'
<1> USE TaskAssumption, BrokerAssumption
<1> USE DEF TInv, TypeOK, BusyHasTask, QueueInv, Exclusive, Holds, HeldOnce,
            RowOfPushed, OneAdder
<1>1. ASSUME NEW t \in Task, RequestPush(t) PROVE QueueInv'
  BY <1>1 DEF RequestPush, PushMessage, PushFails, Push, BrokerTypeOK, workerVars,
              brokerVars
<1>2. ASSUME NEW t \in Task, RequestAdd(t) PROVE QueueInv'
  BY <1>2 DEF RequestAdd, AddToLog, workerVars, brokerVars
<1>3. ASSUME NEW w \in Worker, NEW c \in Task, SpawnPush(w, c) PROVE QueueInv'
  BY <1>3 DEF SpawnPush, PushMessage, PushFails, Push, BrokerTypeOK, workerVars,
              brokerVars
<1>4. ASSUME NEW w \in Worker, SpawnAdd(w) PROVE QueueInv'
  BY <1>4 DEF SpawnAdd, AddToLog, brokerVars
<1>5. ASSUME NEW w \in Worker, PopTask(w) PROVE QueueInv'
  <2>1. PICK t \in Task : Pop(w, t) /\ cur' = [cur EXCEPT ![w] = t]
    BY <1>5 DEF PopTask
  <2>2. \A u \in prefetch[w] : table[u] = "hidden"
    BY DEF BrokerTypeOK
  <2>3. /\ \A v \in Worker \ {w} : prefetch'[v] = prefetch[v]
        /\ t \notin prefetch'[w]
        /\ \A u \in prefetch'[w] \cup {t} :
             /\ u \in prefetch[w] \/ table[u] = "visible"
             /\ table'[u] = "hidden"
        /\ \A u \in Task :
             \/ table'[u] = table[u]
             \/ /\ table[u] = "visible"
                /\ table'[u] = "hidden" \/ (table'[u] = "gone" /\ u \in Invalid)
    BY <2>1, <2>2, PopEffect
  <2>4. Exclusive' /\ HeldOnce'
    BY <1>5, <2>1, <2>3 DEF PopTask, BrokerTypeOK
  <2>5. RowOfPushed' /\ OneAdder'
    BY <1>5, <2>3 DEF PopTask, enqVars, BrokerTypeOK
  <2> QED
    BY <2>4, <2>5
<1>6. ASSUME NEW w \in Worker, PollEmpty(w) PROVE QueueInv'
  BY <1>6, EmptyPollEffect DEF PollEmpty, BrokerTypeOK, enqVars, workerVars
<1>7. ASSUME NEW w \in Worker, Process(w) PROVE QueueInv'
  <2>1. CASE MarkDequeued(w) \/ Claim(w) \/ Finish(w) \/ PollRemote(w)
             \/ ConfirmRemote(w) \/ DropRecord(w) \/ Report(w) \/ ReadFamily(w) \/ WriteParent(w)
    BY <2>1 DEF MarkDequeued, Claim, Finish, PollRemote, ConfirmRemote, DropRecord, Report,
                ReadFamily, WriteParent, enqVars, brokerVars
  <2>2. CASE Skip(w) \/ PollFails(w) \/ ParentNotFound(w)
    BY <2>2 DEF Skip, PollFails, ParentNotFound, Release, enqVars, brokerVars,
                BrokerTypeOK
  <2>3. CASE SpawnAdd(w)
    BY <2>3, <1>4
  <2>4. ASSUME NEW c \in Task, Reschedule(w, c) PROVE QueueInv'
    BY <2>4 DEF Reschedule, PushMessage, PushFails, Push, BrokerTypeOK, brokerVars
  <2>5. CASE Acknowledge(w)
    BY <2>5 DEF Acknowledge, Delete, Release, BrokerTypeOK, enqVars
  <2> QED
    BY <1>7, <2>1, <2>2, <2>3, <2>4, <2>5 DEF Process
<1>8. ASSUME NEW w \in Worker, Crash(w) PROVE QueueInv'
  BY <1>8 DEF Crash, ForgetPrefetched, Release, BrokerTypeOK
<1>9. CASE RemoteProgress \/ UNCHANGED vars
  BY <1>9 DEF RemoteProgress, vars, brokerVars, enqVars, workerVars
<1> QED
  BY <1>1, <1>2, <1>3, <1>5, <1>6, <1>7, <1>8, <1>9 DEF Next

\* How often a task was started, and what that says about row and record.
LEMMA RunStep ==
  ASSUME ~CommitMayFail, TInv, TInv', QueueInv, QueueInv', RunInv, [Next]_vars
  PROVE  RunInv'
<1> USE TaskAssumption, BrokerAssumption
<1> USE DEF TInv, TypeOK, BusyHasTask, RunInv, FreshRow, FreshPrefetch,
            FreshCurrent, StartedOnce, RecordOfDone, AtMostOnce, NothingLost,
            Claimed
<1>1. ASSUME NEW t \in Task, RequestPush(t) PROVE RunInv'
  BY <1>1 DEF RequestPush, PushMessage, PushFails, Push, BrokerTypeOK, workerVars,
              brokerVars, QueueInv, RowOfPushed
<1>2. ASSUME NEW t \in Task, RequestAdd(t) PROVE RunInv'
  BY <1>2 DEF RequestAdd, AddToLog, AddRecord, workerVars, brokerVars, LogTypeOK
<1>3. ASSUME NEW w \in Worker, NEW c \in Task, SpawnPush(w, c) PROVE RunInv'
  BY <1>3 DEF SpawnPush, PushMessage, PushFails, Push, BrokerTypeOK, workerVars,
              brokerVars
<1>4. ASSUME NEW w \in Worker, SpawnAdd(w) PROVE RunInv'
  BY <1>4 DEF SpawnAdd, AddToLog, AddRecord, brokerVars, LogTypeOK
<1>5. ASSUME NEW w \in Worker, PopTask(w) PROVE RunInv'
  <2>1. PICK t \in Task : Pop(w, t) /\ cur' = [cur EXCEPT ![w] = t]
    BY <1>5 DEF PopTask
  <2>2. \A u \in prefetch[w] : table[u] = "hidden"
    BY DEF BrokerTypeOK, QueueInv, Exclusive, Holds
  <2>3. /\ \A v \in Worker \ {w} : prefetch'[v] = prefetch[v]
        /\ \A u \in prefetch'[w] \cup {t} : u \in prefetch[w] \/ table[u] = "visible"
        /\ \A u \in Task :
             \/ table'[u] = table[u]
             \/ /\ table[u] = "visible"
                /\ table'[u] = "hidden" \/ (table'[u] = "gone" /\ u \in Invalid)
    BY <2>1, <2>2, PopEffect
  <2>4. \A u \in prefetch'[w] \cup {t} : runs[u] = 0
    BY <2>1, <2>3 DEF BrokerTypeOK
  <2>5. UNCHANGED <<log, enq, runs>> /\ pc' = [pc EXCEPT ![w] = "popped"]
    BY <1>5 DEF PopTask, GoTo, enqVars
  <2>6. FreshPrefetch' /\ FreshCurrent' /\ StartedOnce'
    BY <2>1, <2>3, <2>4, <2>5
  <2>7. FreshRow' /\ RecordOfDone' /\ AtMostOnce' /\ NothingLost'
    BY <2>3, <2>5
  <2> QED
    BY <2>6, <2>7
<1>6. ASSUME NEW w \in Worker, PollEmpty(w) PROVE RunInv'
  BY <1>6, EmptyPollEffect DEF PollEmpty, BrokerTypeOK, enqVars, workerVars
<1>7. ASSUME NEW w \in Worker, Process(w) PROVE RunInv'
  <2> USE DEF GoTo
  <2>1. CASE MarkDequeued(w)
    <3>1. \A t \in Task : \/ log'[t] = log[t]
                          \/ log[t] \in AnyStatus /\ log'[t] = Dequeued
      BY <2>1, UpdateStatusEffect DEF MarkDequeued, SetStatus
    <3>2. RecordOfDone'
      BY <2>1, <3>1 DEF MarkDequeued, AnyStatus, LogStatus, Cancelled, NoRecord, Enqueued, Dequeued,
         Running, ChildRunning, Completed, Failed, Archived, enqVars
    <3> QED
      BY <2>1, <3>2 DEF MarkDequeued, enqVars, brokerVars
  <2>2. CASE Claim(w)
    <3>1. /\ cur[w] \in Task /\ runs[cur[w]] = 0 /\ log[cur[w]] = Dequeued
          /\ table[cur[w]] = "hidden"
          /\ \A v \in Worker \ {w} : cur[v] # cur[w] /\ cur[w] \notin prefetch[v]
          /\ cur[w] \notin prefetch[w]
      BY <2>2 DEF Claim, Touched, QueueInv, Exclusive, Holds, HeldOnce
    <3>2. \A t \in Task : log'[t] = IF t = cur[w] THEN Running ELSE log[t]
      BY <2>2, <3>1 DEF Claim, UpdateStatus, Touched
    <3>3. RecordOfDone'
      BY <2>2, <3>1, <3>2 DEF Claim, NoRecord, Enqueued, Dequeued, Running, enqVars
    <3> QED
      BY <2>2, <3>1, <3>3 DEF Claim, enqVars, brokerVars, BrokerTypeOK
  <2>3. CASE Skip(w) \/ PollFails(w) \/ ParentNotFound(w)
    BY <2>3 DEF Skip, PollFails, ParentNotFound, Release, enqVars, brokerVars
  <2>4. CASE SpawnAdd(w)
    BY <2>4, <1>4
  <2>5. CASE Finish(w) \/ PollRemote(w) \/ ConfirmRemote(w) \/ ReadFamily(w)
    BY <2>5 DEF Finish, PollRemote, ConfirmRemote, ReadFamily, enqVars, brokerVars
  <2>6. ASSUME NEW c \in Task, Reschedule(w, c) PROVE RunInv'
    BY <2>6 DEF Reschedule, PushMessage, PushFails, Push, BrokerTypeOK, brokerVars
  <2>7. CASE DropRecord(w)
    BY <2>7 DEF DropRecord, DeleteById, AfterReport, enqVars, brokerVars, LogTypeOK,
                NoRecord, Enqueued
  <2>8. CASE Report(w)
    <3>1. res[w] \in {Completed, Failed, ChildRunning}
      BY <2>8 DEF Report, ResultDecided, Decided
    <3>2. \A t \in Task : log'[t] = log[t] \/ (log[t] \in AnyStatus /\ log'[t] = res[w])
      BY <2>8, UpdateStatusEffect DEF Report, SetReport
    <3>3. RecordOfDone'
      BY <2>8, <3>1, <3>2 DEF Report, AnyStatus, LogStatus, Cancelled, NoRecord, Enqueued, Dequeued,
         Running, ChildRunning, Completed, Failed, Archived, enqVars
    <3> QED
      BY <2>8, <3>3 DEF Report, AfterReport, enqVars, brokerVars
  <2>9. CASE WriteParent(w)
    <3>1. res[w] \in {Completed, Failed, ChildRunning}
      BY <2>9 DEF WriteParent, ResultDecided, Decided
    <3>2. \A t \in Task : log'[t] = log[t] \/ (log[t] \in AnyStatus /\ log'[t] = res[w])
      BY <2>9, UpdateStatusEffect DEF WriteParent, SetStatus
    <3>3. RecordOfDone'
      BY <2>9, <3>1, <3>2 DEF WriteParent, AnyStatus, LogStatus, Cancelled, NoRecord, Enqueued, Dequeued,
         Running, ChildRunning, Completed, Failed, Archived, enqVars
    <3> QED
      BY <2>9, <3>3 DEF WriteParent, AfterReport, enqVars, brokerVars
  <2>10. CASE Acknowledge(w)
    BY <2>10 DEF Acknowledge, Delete, Release, BrokerTypeOK, enqVars
  <2> QED
    BY <1>7, <2>1, <2>2, <2>3, <2>4, <2>5, <2>6, <2>7, <2>8, <2>9, <2>10 DEF Process
<1>8. ASSUME NEW w \in Worker, Crash(w) PROVE RunInv'
  BY <1>8 DEF Crash, ForgetPrefetched, Release, GoTo, BrokerTypeOK, QueueInv, OneAdder
<1>9. CASE RemoteProgress \/ UNCHANGED vars
  BY <1>9 DEF RemoteProgress, vars, brokerVars, enqVars, workerVars
<1> QED
  BY <1>1, <1>2, <1>3, <1>5, <1>6, <1>7, <1>8, <1>9 DEF Next

\* The steps of such a record, and the steps nobody takes on it but its worker.
LEMMA OwnStep ==
  ASSUME TInv, TInv', QueueInv, RunInv, OwnInv, [Next]_vars
  PROVE  /\ OwnInv'
         /\ \A t \in Task : KeepsOwnStatus(t) /\ log'[t] # log[t]
                               => <<log[t], log'[t]>> \in Lifecycle
<1> DEFINE Forward ==
      \A t \in Task : KeepsOwnStatus(t) /\ log'[t] # log[t]
                        => <<log[t], log'[t]>> \in Lifecycle
<1> USE TaskAssumption, BrokerAssumption
<1> USE DEF TInv, TypeOK, BusyHasTask, OwnInv, OwnNotStarted, OwnExecuting,
            VerdictAllowed, Executing, AtWork, Lifecycle, KeepsOwnStatus, Children
<1>1. ASSUME NEW t \in Task, RequestPush(t) PROVE OwnInv' /\ Forward
  BY <1>1 DEF RequestPush, workerVars
<1>2. ASSUME NEW t \in Task, AddToLog(t), UNCHANGED <<cur, res, runs>>,
             \A w \in Worker : pc'[w] = pc[w] \/ (pc[w] = "cloning" /\ pc'[w] = "cloned")
      PROVE  OwnInv' /\ Forward
  <2>1. /\ runs[t] = 0
        /\ \A v \in Worker : pc[v] \in Executing => cur[v] # t
    BY <1>2 DEF AddToLog, RunInv, RecordOfDone, StartedOnce, Claimed
  <2>2. \A u \in Task : \/ log'[u] = log[u]
                        \/ u = t /\ log[u] = NoRecord /\ log'[u] = Enqueued
    BY <1>2 DEF AddToLog, AddRecord, LogTypeOK
  <2> QED
    BY <1>2, <2>1, <2>2 DEF NoRecord, Enqueued
<1>3. ASSUME NEW w \in Worker, SpawnAdd(w) PROVE OwnInv' /\ Forward
  <2>1. /\ adding[w] \in Task /\ AddToLog(adding[w]) /\ UNCHANGED <<cur, res, runs>>
        /\ \A v \in Worker : pc'[v] = pc[v] \/ (pc[v] = "cloning" /\ pc'[v] = "cloned")
    BY <1>3 DEF SpawnAdd
  <2> QED
    BY <1>2, <2>1
<1>4. ASSUME NEW w \in Worker, NEW c \in Task, SpawnPush(w, c)
      PROVE  OwnInv' /\ Forward
  BY <1>4 DEF SpawnPush, workerVars
<1>5. ASSUME NEW w \in Worker, PopTask(w) \/ PollEmpty(w) \/ Skip(w) \/ PollFails(w)
             \/ ParentNotFound(w) \/ Acknowledge(w) \/ Crash(w)
      PROVE  OwnInv' /\ Forward
  <2>1. /\ UNCHANGED <<log, runs>>
        /\ pc'[w] \notin Executing \cup {"parentWrite"}
        /\ \A v \in Worker \ {w} : pc'[v] = pc[v] /\ cur'[v] = cur[v] /\ res'[v] = res[v]
    BY <1>5 DEF PopTask, PollEmpty, Skip, PollFails, ParentNotFound, Acknowledge,
       Crash, Release, GoTo, workerVars
  <2> QED
    BY <2>1
<1>6. ASSUME NEW w \in Worker, Process(w) PROVE OwnInv' /\ Forward
  <2> USE DEF GoTo
  <2>1. CASE MarkDequeued(w)
    <3>1. /\ cur[w] \in Task /\ runs[cur[w]] = 0
          /\ \A v \in Worker : pc[v] \in Executing => cur[v] # cur[w]
      BY <2>1 DEF MarkDequeued, RunInv, FreshCurrent, StartedOnce, Claimed
    <3>2. \A t \in Task : \/ log'[t] = log[t]
                          \/ t = cur[w] /\ log[t] \in AnyStatus /\ log'[t] = Dequeued
      BY <2>1, UpdateStatusEffect DEF MarkDequeued, SetStatus
    <3>3. NoRecord \notin AnyStatus
      BY DEF NoRecord, AnyStatus, LogStatus, Cancelled, Enqueued, Dequeued, Running, ChildRunning,
         Completed, Failed, Archived
    <3> QED
      BY <2>1, <3>1, <3>2, <3>3 DEF MarkDequeued
  <2>2. CASE Claim(w)
    <3>1. /\ cur[w] \in Task /\ log[cur[w]] = Dequeued
          /\ \A v \in Worker : pc[v] \in Executing => cur[v] # cur[w]
      BY <2>2 DEF Claim, Touched, RunInv, FreshCurrent, StartedOnce, Claimed
    <3>2. \A t \in Task : log'[t] = IF t = cur[w] THEN Running ELSE log[t]
      BY <2>2, <3>1 DEF Claim, UpdateStatus, Touched
    <3>3. runs'[cur[w]] # 0 /\ \A t \in Task : t # cur[w] => runs'[t] = runs[t]
      BY <2>2, <3>1 DEF Claim
    <3> QED
      BY <2>2, <3>1, <3>2, <3>3 DEF Claim
  <2>3. CASE SpawnAdd(w)
    BY <2>3, <1>3
  <2>4. CASE Finish(w)
    BY <2>4 DEF Finish
  <2>5. CASE PollRemote(w) \/ ConfirmRemote(w) \/ ReadFamily(w)
    BY <2>5 DEF PollRemote, ConfirmRemote, ReadFamily
  <2>6. ASSUME NEW c \in Task, Reschedule(w, c) PROVE OwnInv' /\ Forward
    BY <2>6 DEF Reschedule
  <2>7. CASE DropRecord(w) \/ Report(w)
    <3>1. /\ cur[w] \in Task /\ pc[w] \in Executing
          /\ pc'[w] \notin Executing \cup {"parentWrite"}
      BY <2>7 DEF DropRecord, Report, AfterReport
    <3>2. \A v \in Worker \ {w} : cur[v] # cur[w]
      BY <3>1 DEF QueueInv, Exclusive, Holds
    <3>3. runs[cur[w]] # 0
      BY <3>1 DEF RunInv, StartedOnce, Claimed
    <3>4. \A t \in Task :
            \/ log'[t] = log[t]
            \/ t = cur[w] /\ log'[t] = IF pc[w] = "cloned" THEN NoRecord ELSE res[w]
      BY <2>7, UpdateStatusEffect DEF DropRecord, DeleteById, Report, SetReport, LogTypeOK
    <3>5. pc[w] # "cloned" => pc[w] = "reporting"
      BY <2>7 DEF DropRecord, Report
    <3>6. pc[w] = "reporting" => res[w] \in {Completed, Failed, ChildRunning}
      BY DEF ResultDecided, Decided
    <3> QED
      BY <2>7, <3>1, <3>2, <3>3, <3>4, <3>5, <3>6 DEF DropRecord, Report
  <2>8. CASE WriteParent(w)
    <3>1. \A t \in Task : log'[t] = log[t] \/ t = Parent[cur[w]]
      BY <2>8, UpdateStatusEffect DEF WriteParent, SetStatus
    <3>2. cur[w] \in Task /\ Parent[cur[w]] \notin MasterStatus
      BY <2>8 DEF WriteParent
    <3>3. \A t \in Task : KeepsOwnStatus(t) => log'[t] = log[t]
      BY <3>1, <3>2
    <3> QED
      BY <2>8, <3>3 DEF WriteParent
  <2>9. CASE Skip(w) \/ PollFails(w) \/ ParentNotFound(w) \/ Acknowledge(w)
    BY <2>9, <1>5
  <2> QED
    BY <1>6, <2>1, <2>2, <2>3, <2>4, <2>5, <2>6, <2>7, <2>8, <2>9 DEF Process
<1>7. ASSUME NEW t \in Task, RequestAdd(t) PROVE OwnInv' /\ Forward
  BY <1>2, <1>7 DEF RequestAdd, workerVars
<1>8. CASE RemoteProgress \/ UNCHANGED vars
  BY <1>8 DEF RemoteProgress, vars, workerVars
<1> QED
  BY <1>1, <1>4, <1>5, <1>6, <1>7, <1>8 DEF Next

\* The inductive invariant, when no COMMIT of doPop() fails.
LEMMA Inductive == ASSUME CommitMayFail = FALSE PROVE Spec => []IInv
<1>1. Init => IInv
  BY TInit, IInit DEF IInv
<1>2. IInv /\ [Next]_vars => IInv'
  BY TStep, HolderStep, RunStep, OwnStep DEF IInv
<1> QED
  BY <1>1, <1>2, PTL DEF Spec

\* No interleaving, failing call or crash makes two executions of a task.
THEOREM ExecutedAtMostOnce ==
  ASSUME CommitMayFail = FALSE PROVE Spec => []AtMostOnce
BY Inductive, PTL DEF IInv, RunInv

\* What is in the memory of a worker is hidden, and nobody else has it.
THEOREM MessagesExclusive ==
  ASSUME CommitMayFail = FALSE PROVE Spec => []Exclusive
BY Inductive, PTL DEF IInv, QueueInv

\* A message is deleted only when its task was started, or was no task.
THEOREM MessagesNotLost ==
  ASSUME CommitMayFail = FALSE PROVE Spec => []NothingLost
BY Inductive, PTL DEF IInv, RunInv

\* A task that is ENQUEUED was not started and its message is still there.
THEOREM EnqueuedRestartable ==
  ASSUME CommitMayFail = FALSE PROVE Spec => []EnqueuedIsRestartable
<1>1. IInv => EnqueuedIsRestartable
  <2> SUFFICES ASSUME IInv, NEW t \in Task, log[t] = Enqueued
               PROVE  runs[t] = 0 /\ (t \in Invalid \/ table[t] \in {"visible", "hidden"})
    BY DEF EnqueuedIsRestartable
  <2>1. runs[t] = 0 /\ enq[t] = "done"
    BY DEF IInv, RunInv, RecordOfDone, TInv, TypeOK, NoRecord, Enqueued
  <2>2. table[t] # "none" /\ (table[t] = "gone" => t \in Invalid)
    BY <2>1 DEF IInv, QueueInv, RowOfPushed, RunInv, NothingLost
  <2> QED
    BY <2>1, <2>2 DEF IInv, TInv, TypeOK, BrokerTypeOK, RowState
<1> QED
  BY <1>1, Inductive, PTL

\* The record of a task that keeps its own status only ever moves forward.
THEOREM RecordsMoveForward ==
  ASSUME CommitMayFail = FALSE PROVE Spec => OwnStatusMovesForward
<1>1. IInv /\ IInv' /\ [Next]_vars =>
        [\A t \in Task : KeepsOwnStatus(t) /\ log'[t] # log[t]
                          => <<log[t], log'[t]>> \in Lifecycle]_vars
  BY OwnStep DEF IInv
<1> QED
  BY <1>1, Inductive, PTL DEF Spec, OwnStatusMovesForward

-----------------------------------------------------------------------------
(* The promise to those who enqueue.                                        *)

LEMMA StageValue ==
  ASSUME NEW row \in RowState, NEW n \in Nat
  PROVE  /\ row = "none" => Stage(row, n) = "new"
         /\ row \in {"visible", "hidden"} => Stage(row, n) = IF n = 0 THEN "accepted" ELSE "started"
         /\ row = "gone" => Stage(row, n) = IF n = 0 THEN "discarded" ELSE "settled"
BY DEF Stage, RowState

\* A step that pops: rows are hidden, which is nobody's business, or rejected.
LEMMA PopKeepsPromise ==
  ASSUME TInv, TInv', RunInv, UNCHANGED runs,
         \A u \in Task :
           \/ table'[u] = table[u]
           \/ /\ table[u] = "visible"
              /\ table'[u] = "hidden" \/ (table'[u] = "gone" /\ u \in Invalid)
  PROVE  Promise!Next
<1> DEFINE D == {u \in Task : table[u] = "visible" /\ table'[u] = "gone"}
<1>1. D \in SUBSET Task /\ D \subseteq Invalid
  OBVIOUS
<1>2. \A u \in Task : runs[u] \in Nat /\ table[u] \in RowState /\ table'[u] \in RowState
  BY DEF TInv, TypeOK, BrokerTypeOK
<1>3. \A u \in D : Stage(table[u], runs[u]) = "accepted"
                  /\ Stage(table'[u], runs[u]) = "discarded"
  BY <1>2, StageValue DEF RunInv, FreshRow
<1>4. \A u \in Task \ D : Stage(table'[u], runs[u]) = Stage(table[u], runs[u])
  BY <1>2, StageValue
<1>5. [t \in Task |-> Stage(table'[t], runs'[t])]
        = [t \in Task |-> IF t \in D THEN "discarded" ELSE Stage(table[t], runs[t])]
  BY <1>3, <1>4
<1>6. Promise!Discard(D)
  BY <1>1, <1>3, <1>5 DEF Promise!Discard
<1> QED
  BY <1>1, <1>6 DEF Promise!Next

\* A step that changes one task's stage.
LEMMA MoveKeepsPromise ==
  ASSUME NEW t \in Task, TInv, TInv', \A u \in Task \ {t} : table'[u] = table[u] /\ runs'[u] = runs[u],
         \/ /\ table[t] = "none" /\ table'[t] = "visible"
            /\ runs[t] = 0 /\ UNCHANGED runs
         \/ /\ table[t] = "hidden" /\ table'[t] = "hidden"
            /\ runs[t] = 0 /\ runs' = [runs EXCEPT ![t] = @ + 1]
         \/ /\ table[t] = "hidden" /\ table'[t] = "gone"
            /\ runs[t] > 0 /\ UNCHANGED runs
  PROVE  Promise!Next
<1> DEFINE S == Stage(table[t], runs[t])
           T == Stage(table'[t], runs'[t])
           F == [u \in Task |-> Stage(table[u], runs[u])]
<1>1. \A u \in Task : /\ runs[u] \in Nat /\ runs'[u] \in Nat
                      /\ table[u] \in RowState /\ table'[u] \in RowState
  BY DEF TInv, TypeOK, BrokerTypeOK
<1>2. [u \in Task |-> Stage(table'[u], runs'[u])] = [F EXCEPT ![t] = T]
  OBVIOUS
<1>3. CASE table[t] = "none" /\ table'[t] = "visible" /\ runs[t] = 0 /\ UNCHANGED runs
  <2>1. S = "new" /\ T = "accepted"
    BY <1>1, <1>3, StageValue
  <2>2. Promise!Accept(t)
    BY <1>2, <1>3, <2>1 DEF Promise!Accept, Promise!Move
  <2> QED
    BY <2>2 DEF Promise!Next
<1>4. CASE /\ table[t] = "hidden" /\ table'[t] = "hidden"
           /\ runs[t] = 0 /\ runs' = [runs EXCEPT ![t] = @ + 1]
  <2>1. runs'[t] = 1
    BY <1>4 DEF TInv, TypeOK
  <2>2. S = "accepted" /\ T = "started"
    BY <1>1, <1>4, <2>1, StageValue
  <2>3. Promise!Start(t)
    BY <1>2, <1>4, <2>2 DEF Promise!Start, Promise!Move
  <2> QED
    BY <2>3 DEF Promise!Next
<1>5. CASE table[t] = "hidden" /\ table'[t] = "gone" /\ runs[t] > 0 /\ UNCHANGED runs
  <2>1. S = "started" /\ T = "settled"
    BY <1>1, <1>5, StageValue
  <2>2. Promise!Settle(t)
    BY <1>2, <1>5, <2>1 DEF Promise!Settle, Promise!Move
  <2> QED
    BY <2>2 DEF Promise!Next
<1> QED
  BY <1>3, <1>4, <1>5

\* Every step of the queue is a step of the promise or changes nothing there.
LEMMA StepKeepsPromise ==
  ASSUME ~CommitMayFail, TInv, TInv', QueueInv, RunInv, [Next]_vars
  PROVE  Promise!Next \/ UNCHANGED <<table, runs>>
<1> DEFINE Goal == Promise!Next \/ UNCHANGED <<table, runs>>
<1> USE DEF TInv, TypeOK, BrokerTypeOK, BusyHasTask
<1>1. ASSUME NEW t \in Task, Push(t), UNCHANGED runs PROVE Goal
  <2>1. runs[t] = 0
    BY <1>1 DEF Push, RunInv, FreshRow
  <2> QED
    BY <1>1, <2>1, MoveKeepsPromise DEF Push
<1>2. ASSUME NEW t \in Task, RequestPush(t) PROVE Goal
  BY <1>1, <1>2 DEF RequestPush, PushMessage, PushFails, brokerVars
<1>3. ASSUME NEW w \in Worker, NEW c \in Task, SpawnPush(w, c) \/ Reschedule(w, c)
      PROVE  Goal
  BY <1>1, <1>3 DEF SpawnPush, Reschedule, PushMessage, PushFails, brokerVars
<1>4. ASSUME NEW w \in Worker, PopTask(w) PROVE Goal
  <2>1. PICK t \in Task : Pop(w, t)
    BY <1>4 DEF PopTask
  <2>2. \A u \in prefetch[w] : table[u] = "hidden"
    BY DEF QueueInv, Exclusive, Holds
  <2>3. \A u \in Task :
          \/ table'[u] = table[u]
          \/ /\ table[u] = "visible"
             /\ table'[u] = "hidden" \/ (table'[u] = "gone" /\ u \in Invalid)
    BY <2>1, <2>2, PopEffect
  <2> QED
    BY <1>4, <2>3, PopKeepsPromise DEF PopTask
<1>5. ASSUME NEW w \in Worker, PollEmpty(w) PROVE Goal
  <2>1. \A u \in Task :
          \/ table'[u] = table[u]
          \/ /\ table[u] = "visible"
             /\ table'[u] = "hidden" \/ (table'[u] = "gone" /\ u \in Invalid)
    BY <1>5, EmptyPollEffect DEF PollEmpty
  <2> QED
    BY <1>5, <2>1, PopKeepsPromise DEF PollEmpty
<1>6. ASSUME NEW w \in Worker, Claim(w) PROVE Goal
  <2>1. /\ cur[w] \in Task /\ runs[cur[w]] = 0 /\ table[cur[w]] = "hidden"
        /\ UNCHANGED table
    BY <1>6 DEF Claim, brokerVars, RunInv, FreshCurrent, QueueInv, Exclusive, Holds
  <2>2. runs' = [runs EXCEPT ![cur[w]] = @ + 1]
    BY <1>6 DEF Claim
  <2> QED
    BY <2>1, <2>2, MoveKeepsPromise
<1>7. ASSUME NEW w \in Worker, Acknowledge(w) PROVE Goal
  <2>1. cur[w] \in Task /\ runs[cur[w]] = 1 /\ table[cur[w]] = "hidden"
    BY <1>7 DEF Acknowledge, RunInv, StartedOnce, Claimed, QueueInv, Exclusive, Holds
  <2> QED
    BY <1>7, <2>1, MoveKeepsPromise DEF Acknowledge, Delete
<1>8. ASSUME NEW w \in Worker, Process(w) PROVE Goal
  BY <1>3, <1>6, <1>7, <1>8
     DEF Process, MarkDequeued, Skip, SpawnAdd, Finish, PollRemote, ConfirmRemote, PollFails,
         DropRecord, Report, ReadFamily, ParentNotFound, WriteParent, brokerVars
<1>9. ASSUME NEW w \in Worker, Crash(w) PROVE Goal
  BY <1>9 DEF Crash, ForgetPrefetched
<1>10. CASE (\E t \in Task : RequestAdd(t)) \/ RemoteProgress \/ UNCHANGED vars
  BY <1>10 DEF RequestAdd, RemoteProgress, vars, brokerVars
<1> QED
  BY <1>2, <1>3, <1>4, <1>5, <1>8, <1>9, <1>10 DEF Next

\* The tables, the workers and the log implement the promise of the queue.
THEOREM PromiseKept ==
  ASSUME CommitMayFail = FALSE PROVE Spec => KeepsPromise
<1>1. Init => Promise!Init
  <2> SUFFICES ASSUME Init PROVE Promise!Init
    OBVIOUS
  <2>1. Stage("none", 0) = "new"
    BY DEF Stage
  <2> QED
    BY <2>1 DEF Init, BrokerInit, Promise!Init
<1>2. IInv /\ IInv' /\ [Next]_vars
        => [Promise!Next]_<<[t \in Task |-> Stage(table[t], runs[t])], runs>>
  BY StepKeepsPromise DEF IInv
<1> QED
  BY <1>1, <1>2, Inductive, PTL DEF Spec, KeepsPromise, Promise!Spec

-----------------------------------------------------------------------------
(* Families.                                                                *)

\* A task has children only once it was started: no child writes the record
\* of a task that was not.
FamilyStarted ==
  \A c \in Task : Parent[c] # NoTask /\ enq[c] # "new" => runs[Parent[c]] > 0

\* Children are pushed by a task that is being executed, clones beside one that
\* was pushed: their parent was started.
LEMMA FamilyStep ==
  ASSUME TInv, TInv', QueueInv, RunInv, FamilyStarted, [Next]_vars
  PROVE  FamilyStarted'
<1> USE TaskAssumption
<1> USE DEF TInv, TypeOK, BusyHasTask, FamilyStarted
<1>1. ASSUME NEW t \in Task, RequestPush(t) \/ RequestAdd(t) PROVE FamilyStarted'
  BY <1>1 DEF RequestPush, PushMessage, PushFails, RequestAdd, AddToLog
<1>2. ASSUME NEW w \in Worker, NEW c \in Task, SpawnPush(w, c) PROVE FamilyStarted'
  <2>1. cur[w] \in Task /\ runs[cur[w]] = 1
    BY <1>2 DEF SpawnPush, RunInv, StartedOnce, Claimed
  <2> QED
    BY <1>2, <2>1 DEF SpawnPush, PushMessage, PushFails
<1>3. ASSUME NEW w \in Worker, NEW c \in Task, Reschedule(w, c) PROVE FamilyStarted'
  <2>1. cur[w] \in Task /\ enq[cur[w]] # "new"
    BY <1>3 DEF Reschedule, QueueInv, Exclusive, Holds, RowOfPushed
  <2> QED
    BY <1>3, <2>1 DEF Reschedule, PushMessage, PushFails
<1>4. ASSUME NEW w \in Worker, SpawnAdd(w) PROVE FamilyStarted'
  BY <1>4 DEF SpawnAdd, AddToLog
<1>5. ASSUME NEW w \in Worker, Claim(w) PROVE FamilyStarted'
  BY <1>5 DEF Claim, enqVars
<1>6. ASSUME NEW w \in Worker, Process(w) PROVE FamilyStarted'
  BY <1>3, <1>4, <1>5, <1>6
     DEF Process, MarkDequeued, Skip, Finish, PollRemote, ConfirmRemote, PollFails, DropRecord,
         Report, ReadFamily, ParentNotFound, WriteParent, Acknowledge, enqVars
<1>7. ASSUME NEW w \in Worker, PopTask(w) \/ PollEmpty(w) PROVE FamilyStarted'
  BY <1>7 DEF PopTask, PollEmpty, enqVars
<1>8. ASSUME NEW w \in Worker, Crash(w) PROVE FamilyStarted'
  <2>1. \A t \in Task : enq'[t] # "new" => enq[t] # "new"
    BY <1>8 DEF Crash, QueueInv, OneAdder
  <2> QED
    BY <1>8, <2>1 DEF Crash
<1>9. CASE RemoteProgress \/ UNCHANGED vars
  BY <1>9 DEF RemoteProgress, vars, enqVars
<1> QED
  BY <1>1, <1>2, <1>6, <1>7, <1>8, <1>9 DEF Next

-----------------------------------------------------------------------------
(* Remote synchronisers, when no call fails; whatever COMMIT does.          *)

\* A task that has only failed is not anything else.
FailedOnly == onlyFailed => remote \in {"in_progress", "failed"}

\* A worker that asks for the second time will hear of the failure, and one that
\* is about to report a synchroniser COMPLETED has been told of something else.
RemoteAnswered ==
  \A w \in Worker :
    cur[w] \in Remote /\ Children(cur[w]) = {} /\ onlyFailed =>
      /\ pc[w] = "confirming" => remote = "failed"
      /\ pc[w] = "reporting" => res[w] # Completed

RInv == TInv /\ FailedOnly /\ RemoteAnswered /\ RemoteReported

\* A worker learns how the remote task ended before it reports that.
LEMMA RemoteStep ==
  ASSUME Faults = FALSE, TInv, TInv', FailedOnly, RemoteAnswered,
         RemoteReported, [Next]_vars
  PROVE  FailedOnly' /\ RemoteAnswered' /\ RemoteReported'
<1> DEFINE Goal == FailedOnly' /\ RemoteAnswered' /\ RemoteReported'
<1> USE TaskAssumption
<1> USE DEF TInv, TypeOK, BusyHasTask, FailedOnly, RemoteAnswered,
            RemoteReported, Children
<1>1. ASSUME NEW t \in Task, RequestPush(t) \/ RequestAdd(t) PROVE Goal
  BY <1>1 DEF RequestPush, RequestAdd, AddToLog, AddRecord, workerVars, LogTypeOK,
     Enqueued, Completed
<1>2. ASSUME NEW w \in Worker, SpawnAdd(w) PROVE Goal
  BY <1>2 DEF SpawnAdd, AddToLog, AddRecord, LogTypeOK, Enqueued, Completed
<1>3. ASSUME NEW w \in Worker, NEW c \in Task, SpawnPush(w, c) PROVE Goal
  BY <1>3 DEF SpawnPush, workerVars
<1>4. ASSUME NEW w \in Worker, PopTask(w) \/ PollEmpty(w) \/ Skip(w)
             \/ ParentNotFound(w) \/ Acknowledge(w) \/ Crash(w)
      PROVE  Goal
  <2>1. /\ UNCHANGED <<log, remote, onlyFailed>>
        /\ pc'[w] \notin {"confirming", "reporting"}
        /\ \A v \in Worker \ {w} : pc'[v] = pc[v] /\ cur'[v] = cur[v] /\ res'[v] = res[v]
    BY <1>4 DEF PopTask, PollEmpty, Skip, ParentNotFound, Acknowledge, Crash,
       Release, GoTo, workerVars
  <2> QED
    BY <2>1
<1>5. ASSUME NEW w \in Worker, Process(w) PROVE Goal
  <2> USE DEF GoTo
  <2>1. CASE MarkDequeued(w)
    BY <2>1, UpdateStatusEffect DEF MarkDequeued, SetStatus, Dequeued, Completed
  <2>2. CASE Claim(w)
    BY <2>2, UpdateStatusEffect DEF Claim, Running, Completed
  <2>3. CASE Finish(w)
    BY <2>3 DEF Finish, StatusOfSuccess, HasChildren, Completed, Failed, ChildRunning
  <2>4. CASE PollRemote(w) \/ ConfirmRemote(w) \/ PollFails(w)
    BY <2>4 DEF PollRemote, ConfirmRemote, PollFails, Failed, Completed
  <2>5. ASSUME NEW c \in Task, Reschedule(w, c) PROVE Goal
    BY <2>5 DEF Reschedule, PushFails
  <2>6. CASE DropRecord(w)
    BY <2>6 DEF DropRecord, DeleteById, AfterReport, LogTypeOK, NoRecord, Completed
  <2>7. CASE Report(w)
    BY <2>7, UpdateStatusEffect DEF Report, SetReport, AfterReport
  <2>8. CASE ReadFamily(w)
    BY <2>8 DEF ReadFamily
  <2>9. CASE WriteParent(w)
    <3>1. \A t \in Task : log'[t] = log[t] \/ t = Parent[cur[w]]
      BY <2>9, UpdateStatusEffect DEF WriteParent, SetStatus
    <3>2. cur[w] \in Task
      BY <2>9 DEF WriteParent
    <3> QED
      BY <2>9, <3>1, <3>2 DEF WriteParent
  <2> QED
    BY <1>2, <1>4, <1>5, <2>1, <2>2, <2>3, <2>4, <2>5, <2>6, <2>7, <2>8, <2>9
       DEF Process
<1>6. CASE RemoteProgress \/ UNCHANGED vars
  BY <1>6 DEF RemoteProgress, RemoteStatus, vars, workerVars
<1> QED
  BY <1>1, <1>2, <1>3, <1>4, <1>5, <1>6 DEF Next

\* A synchroniser of a remote task that did nothing but run and fail is not
\* COMPLETED, whatever the remote side does between the two requests.
THEOREM RemoteTruthful ==
  ASSUME Faults = FALSE PROVE Spec => []RemoteReported
<1>1. Init => RInv
  BY TInit, TaskAssumption DEF Init, RInv, FailedOnly, RemoteAnswered, RemoteReported,
     LogInit, NoRecord, Completed
<1>2. RInv /\ [Next]_vars => RInv'
  BY TStep, RemoteStep DEF RInv
<1> QED
  BY <1>1, <1>2, PTL DEF Spec, RInv
=============================================================================
