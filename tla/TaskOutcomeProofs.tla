-------------------------- MODULE TaskOutcomeProofs --------------------------
(***************************************************************************)
(* Theorems about the outcome of tasks, for any tasks, workers and crashes *)
(* when no COMMIT of doPop() fails: what is acknowledged was reported or   *)
(* replaced, the clones of a synchroniser take turns, parents are found.   *)
(* When no call fails: one worker judges every family as its children came *)
(* out, and without crashes nothing is forgotten.                          *)
(***************************************************************************)
EXTENDS TaskQueueProofs, FiniteSetTheorems

\* What these proofs need of the invariant of the queue.  Whose record follows
\* which worker is not among it: others may write records as well.
BaseInv == TInv /\ QueueInv /\ RunInv

-----------------------------------------------------------------------------
(* What any step may do to records and to the progress of enqueueing.       *)

\* An enqueueing that has pushed stays pushed, one that is over stays over.
LEMMA EnqueuedStays ==
  ASSUME TInv, QueueInv, [Next]_vars, NEW t \in Task
  PROVE  /\ enq[t] = "done" => enq'[t] = "done"
         /\ enq[t] \in {"pushed", "done"} => enq'[t] \in {"pushed", "done"}
<1> DEFINE Goal == /\ enq[t] = "done" => enq'[t] = "done"
                   /\ enq[t] \in {"pushed", "done"} => enq'[t] \in {"pushed", "done"}
<1> USE DEF TInv, TypeOK
<1>1. ASSUME NEW u \in Task, RequestPush(u) \/ RequestAdd(u) PROVE Goal
  BY <1>1 DEF RequestPush, PushMessage, PushFails, RequestAdd, AddToLog
<1>2. ASSUME NEW w \in Worker, NEW c \in Task, SpawnPush(w, c) \/ Reschedule(w, c)
      PROVE  Goal
  BY <1>2 DEF SpawnPush, Reschedule, PushMessage, PushFails
<1>3. ASSUME NEW w \in Worker, SpawnAdd(w) \/ Crash(w) PROVE Goal
  BY <1>3 DEF SpawnAdd, AddToLog, Crash
<1>4. ASSUME NEW w \in Worker, Process(w) PROVE Goal
  BY <1>2, <1>3, <1>4
     DEF Process, MarkDequeued, Claim, Skip, Finish, PollRemote, ConfirmRemote, PollFails, DropRecord,
         Report, ReadFamily, ParentNotFound, WriteParent, Acknowledge, enqVars
<1>5. ASSUME NEW w \in Worker, PopTask(w) \/ PollEmpty(w) PROVE Goal
  BY <1>5 DEF PopTask, PollEmpty, enqVars
<1>6. CASE RemoteProgress \/ UNCHANGED vars
  BY <1>6 DEF RemoteProgress, vars, enqVars
<1> QED
  BY <1>1, <1>2, <1>3, <1>4, <1>5, <1>6 DEF Next

Writing == {"popped", "dequeued", "cloned", "reporting"}

Outcome == {Completed, Failed, ChildRunning}

\* A record is written by whoever enqueues its task, by the worker that has the
\* task, or by the worker of a child.
LEMMA LogWriters ==
  ASSUME TInv, [Next]_vars, NEW t \in Task
  PROVE  \/ log'[t] = log[t]
         \/ enq[t] = "pushed" /\ log'[t] = Enqueued
         \/ \E w \in Worker : cur[w] = t /\ pc[w] \in Writing /\ pc'[w] # pc[w]
         \/ \E w \in Worker :
              /\ pc[w] = "parentWrite" /\ pc'[w] = "acking" /\ Parent[cur[w]] = t
              /\ log[t] # NoRecord /\ log'[t] \in Outcome
<1> DEFINE Goal == \/ log'[t] = log[t]
                   \/ enq[t] = "pushed" /\ log'[t] = Enqueued
                   \/ \E w \in Worker : cur[w] = t /\ pc[w] \in Writing /\ pc'[w] # pc[w]
                   \/ \E w \in Worker :
                        /\ pc[w] = "parentWrite" /\ pc'[w] = "acking" /\ Parent[cur[w]] = t
                        /\ log[t] # NoRecord /\ log'[t] \in Outcome
<1> USE DEF TInv, TypeOK, LogTypeOK
<1>1. ASSUME NEW u \in Task, RequestPush(u) \/ RequestAdd(u) PROVE Goal
  BY <1>1 DEF RequestPush, RequestAdd, AddToLog, AddRecord
<1>2. ASSUME NEW w \in Worker, NEW c \in Task, SpawnPush(w, c) \/ Reschedule(w, c)
      PROVE  Goal
  BY <1>2 DEF SpawnPush, Reschedule
<1>3. ASSUME NEW w \in Worker, Process(w) PROVE Goal
  <2> USE DEF GoTo
  <2>1. CASE MarkDequeued(w) \/ Claim(w) \/ Report(w) \/ DropRecord(w)
    <3>1. pc[w] \in Writing /\ pc'[w] # pc[w]
      BY <2>1 DEF MarkDequeued, Claim, Report, DropRecord, AfterReport, Writing
    <3>2. log'[t] = log[t] \/ cur[w] = t
      BY <2>1, UpdateStatusEffect
         DEF MarkDequeued, SetStatus, Claim, Report, SetReport, DropRecord, DeleteById
    <3> QED
      BY <3>1, <3>2
  <2>2. CASE WriteParent(w)
    <3>1. res[w] \in Outcome
      BY <2>2 DEF WriteParent, ResultDecided, Decided, Outcome
    <3>2. NoRecord \notin AnyStatus
      BY DEF NoRecord, AnyStatus, LogStatus, Enqueued, Dequeued, Running, ChildRunning,
         Completed, Failed, Archived, Cancelled
    <3> QED
      BY <2>2, <3>1, <3>2, UpdateStatusEffect DEF WriteParent, SetStatus
  <2>3. CASE SpawnAdd(w)
    BY <2>3 DEF SpawnAdd, AddToLog, AddRecord
  <2> QED
    BY <1>2, <1>3, <2>1, <2>2, <2>3
       DEF Process, Skip, Finish, PollRemote, ConfirmRemote, PollFails, ReadFamily, ParentNotFound,
           Acknowledge
<1>4. ASSUME NEW w \in Worker, PopTask(w) \/ PollEmpty(w) \/ Crash(w) PROVE Goal
  BY <1>4 DEF PopTask, PollEmpty, Crash
<1>5. CASE RemoteProgress \/ UNCHANGED vars
  BY <1>5 DEF RemoteProgress, vars
<1> QED
  BY <1>1, <1>2, <1>3, <1>4, <1>5 DEF Next

-----------------------------------------------------------------------------
(* What is acknowledged was reported.                                       *)

\* A clone of t was enqueued.
HasSuccessor(t) ==
  t \in Remote /\ \E c \in Clone \ {t} : Parent[c] = Parent[t] /\ table[c] # "none"

\* t has a status of its own, or was archived, or was replaced.
Reported(t) ==
  \/ log[t] \in Outcome \cup {Archived}
  \/ log[t] = NoRecord /\ HasSuccessor(t)

\* What w knows of its task's record at each step.
Knows(w) ==
  /\ pc[w] \in Executing => log[cur[w]] # NoRecord
  /\ pc[w] \in {"polling", "rescheduling"} => cur[w] \in Remote
  /\ pc[w] \in {"cloning", "cloned"} => HasSuccessor(cur[w])
  /\ pc[w] \in {"parent", "parentWrite", "acking"} => Reported(cur[w])

Acked == \A t \in Task : table[t] = "gone" /\ t \notin Invalid => Reported(t)

OutcomeInv == (\A w \in Worker : Knows(w)) /\ Acked

\* A clone that was pushed for a task remains its successor.
LEMMA SuccessorStays ==
  ASSUME BaseInv, BaseInv', [Next]_vars, NEW t, HasSuccessor(t)
  PROVE  HasSuccessor(t)'
<1>1. PICK c \in Clone \ {t} : Parent[c] = Parent[t] /\ table[c] # "none"
  BY DEF HasSuccessor
<1>2. c \in Task
  BY TaskAssumption
<1>3. table'[c] # "none"
  BY <1>1, <1>2, EnqueuedStays DEF BaseInv, QueueInv, RowOfPushed
<1> QED
  BY <1>1, <1>3 DEF HasSuccessor

\* A report stays, but for another verdict of children, once the worker of the
\* task has written it.
LEMMA ReportedStays ==
  ASSUME BaseInv, BaseInv', [Next]_vars, NEW t \in Task, Reported(t), runs[t] > 0,
         \A w \in Worker : cur[w] = t => pc[w] \notin Writing
  PROVE  Reported(t)'
<1>1. enq[t] # "pushed"
  BY DEF BaseInv, RunInv, RecordOfDone
<1>2. log'[t] = log[t] \/ log'[t] \in Outcome
  BY <1>1, LogWriters DEF BaseInv
<1> QED
  BY <1>2, SuccessorStays DEF Reported

\* Whoever stays where it is knows what it knew.
LEMMA KnowsStill ==
  ASSUME BaseInv, BaseInv', [Next]_vars, NEW w \in Worker, Knows(w),
         pc'[w] = pc[w], cur'[w] = cur[w]
  PROVE  Knows(w)'
<1> USE DEF BaseInv, TInv, TypeOK, BusyHasTask
<1>1. CASE pc[w] \in Claimed
  <2>1. cur[w] \in Task /\ runs[cur[w]] = 1
    BY <1>1 DEF Claimed, RunInv, StartedOnce
  <2>2. \A v \in Worker : cur[v] = cur[w] => v = w
    BY <2>1 DEF QueueInv, Exclusive, Holds
  <2>3. ~ \E v \in Worker : cur[v] = cur[w] /\ pc[v] \in Writing /\ pc'[v] # pc[v]
    BY <2>2
  <2>4. \/ log'[cur[w]] = log[cur[w]]
        \/ enq[cur[w]] = "pushed" /\ log'[cur[w]] = Enqueued
        \/ log[cur[w]] # NoRecord /\ log'[cur[w]] \in Outcome
    BY <2>1, <2>3, LogWriters
  <2>5. pc[w] \in Executing => log'[cur[w]] # NoRecord
    BY <2>4 DEF Knows, Outcome, NoRecord, Completed, Failed, ChildRunning, Enqueued
  <2>6. HasSuccessor(cur[w]) => HasSuccessor(cur[w])'
    BY SuccessorStays
  <2>7. pc[w] \in {"parent", "parentWrite", "acking"} => Reported(cur[w])'
    BY <2>1, <2>2, ReportedStays DEF Knows, Writing
  <2> QED
    BY <2>5, <2>6, <2>7 DEF Knows, HasSuccessor, Reported
<1>2. CASE pc[w] \notin Claimed
  BY <1>2 DEF Knows, Claimed, Executing, AtWork
<1> QED
  BY <1>1, <1>2

\* At the start no worker has a task and no message is acknowledged.
LEMMA OutcomeInit == Init => OutcomeInv
BY DEF Init, BrokerInit, OutcomeInv, Knows, Acked, Executing, AtWork

\* v stays where it is.
Same(v) == pc'[v] = pc[v] /\ cur'[v] = cur[v] /\ res'[v] = res[v]

\* One worker acts, or none: the others stay where they are.
LEMMA OneActs ==
  ASSUME TInv, [Next]_vars
  PROVE  \/ \A v \in Worker : Same(v)
         \/ \E w \in Worker :
              /\ PopTask(w) \/ Process(w) \/ Crash(w)
              /\ \A v \in Worker \ {w} : Same(v)
<1> DEFINE Nobody == \A v \in Worker : Same(v)
           Only(w) == \A v \in Worker \ {w} : Same(v)
<1> USE DEF TInv, TypeOK, workerVars, Same
<1>1. ASSUME NEW t \in Task, RequestPush(t) \/ RequestAdd(t) PROVE Nobody
  BY <1>1 DEF RequestPush, RequestAdd
<1>2. ASSUME NEW w \in Worker, PollEmpty(w) \/ \E c \in Task : SpawnPush(w, c)
      PROVE  Nobody
  BY <1>2 DEF PollEmpty, SpawnPush
<1>3. ASSUME NEW w \in Worker, PopTask(w) \/ Crash(w) PROVE Only(w)
  BY <1>3 DEF PopTask, Crash, GoTo, Release
<1>4. ASSUME NEW w \in Worker, Process(w) PROVE Only(w)
  BY <1>4
     DEF Process, MarkDequeued, Claim, Skip, SpawnAdd, Finish, PollRemote, ConfirmRemote, PollFails,
         Reschedule, DropRecord, Report, ReadFamily, ParentNotFound, WriteParent,
         Acknowledge, GoTo, Release
<1>5. CASE RemoteProgress \/ UNCHANGED vars
  BY <1>5 DEF RemoteProgress, vars
<1> QED
  BY <1>1, <1>2, <1>3, <1>4, <1>5 DEF Next

\* The worker that acts learns what it has to know.
LEMMA ActorKnows ==
  ASSUME Faults = FALSE, BaseInv, BaseInv', [Next]_vars, NEW w \in Worker, Knows(w), Process(w)
  PROVE  Knows(w)'
<1> USE TaskAssumption
<1> USE DEF BaseInv, TInv, TypeOK, BusyHasTask, GoTo
<1>1. CASE MarkDequeued(w)
  BY <1>1 DEF MarkDequeued, Knows, Executing, AtWork
<1>2. CASE Claim(w)
  <2>1. cur[w] \in Task /\ log'[cur[w]] = Running
    BY <1>2 DEF Claim, UpdateStatus, Touched
  <2> QED
    BY <1>2, <2>1 DEF Claim, Knows, Executing, AtWork, Running, NoRecord
<1>3. CASE Skip(w) \/ PollFails(w) \/ ParentNotFound(w) \/ Acknowledge(w)
  <2>1. pc'[w] = "idle"
    BY <1>3 DEF Skip, PollFails, ParentNotFound, Acknowledge, Release
  <2> QED
    BY <2>1 DEF Knows, Executing, AtWork
<1>4. CASE SpawnAdd(w)
  <2>1. cur[w] \in Task \/ pc[w] = "idle"
    OBVIOUS
  <2>2. CASE pc[w] # "cloning"
    BY <1>4, <2>2, KnowsStill DEF SpawnAdd
  <2>3. CASE pc[w] = "cloning"
    <3>1. cur'[w] = cur[w] /\ pc'[w] = "cloned" /\ cur[w] \in Task
      BY <1>4, <2>3 DEF SpawnAdd
    <3>2. HasSuccessor(cur[w])' /\ log[cur[w]] # NoRecord
      BY <2>3, <3>1, SuccessorStays DEF Knows, Executing, AtWork
    <3>3. log'[cur[w]] # NoRecord
      BY <1>4, <3>1, <3>2 DEF SpawnAdd, AddToLog, AddRecord, LogTypeOK, Enqueued, NoRecord
    <3> QED
      BY <3>1, <3>2, <3>3 DEF Knows, HasSuccessor
  <2> QED
    BY <2>2, <2>3
<1>5. CASE Finish(w)
  BY <1>5 DEF Finish, Knows, Executing, AtWork
<1>6. CASE PollRemote(w) \/ ConfirmRemote(w)
  BY <1>6 DEF PollRemote, ConfirmRemote, Knows, Executing, AtWork
<1>7. ASSUME NEW c \in Task, Reschedule(w, c) PROVE Knows(w)'
  <2>1. PushMessage(c) /\ pc' = [pc EXCEPT ![w] = "cloning"]
    BY <1>7 DEF Reschedule, PushFails
  <2>2. cur[w] \in Task /\ cur[w] \in Remote /\ log[cur[w]] # NoRecord /\ runs[cur[w]] = 1
    BY <1>7 DEF Reschedule, Knows, Executing, AtWork, RunInv, StartedOnce, Claimed
  <2>3. c # cur[w]
    BY <2>1, <2>2 DEF PushMessage, RunInv, RecordOfDone
  <2>4. c \in Clone \ {cur[w]} /\ Parent[c] = Parent[cur[w]] /\ table'[c] # "none"
    BY <1>7, <2>1, <2>3 DEF Reschedule, PushMessage, Push, BrokerTypeOK
  <2>5. cur' = cur /\ log' = log
    BY <1>7 DEF Reschedule
  <2> QED
    BY <2>1, <2>2, <2>4, <2>5 DEF Knows, Executing, AtWork, HasSuccessor
<1>8. CASE DropRecord(w)
  <2>1. cur[w] \in Task /\ HasSuccessor(cur[w])
    BY <1>8 DEF DropRecord, Knows
  <2>2. log'[cur[w]] = NoRecord /\ UNCHANGED table
    BY <1>8, <2>1 DEF DropRecord, DeleteById, LogTypeOK, brokerVars
  <2>3. pc'[w] \in {"parent", "acking"} /\ cur' = cur
    BY <1>8 DEF DropRecord, AfterReport
  <2> QED
    BY <2>1, <2>2, <2>3 DEF Knows, Executing, AtWork, HasSuccessor, Reported
<1>9. CASE Report(w)
  <2>1. cur[w] \in Task /\ log[cur[w]] # NoRecord /\ res[w] \in Outcome
    BY <1>9 DEF Report, Knows, Executing, AtWork, ResultDecided, Decided, Outcome
  <2>2. log'[cur[w]] = res[w]
    BY <1>9, <2>1 DEF Report, SetReport, UpdateStatus, Touched, LogTypeOK
  <2>3. pc'[w] \in {"parent", "acking"} /\ cur' = cur
    BY <1>9 DEF Report, AfterReport
  <2> QED
    BY <2>1, <2>2, <2>3 DEF Knows, Executing, AtWork, Reported
<1>10. CASE ReadFamily(w) \/ WriteParent(w)
  <2>1. /\ pc[w] \in {"parent", "parentWrite"}
        /\ pc'[w] \in {"parentWrite", "acking"} /\ cur' = cur
    BY <1>10 DEF ReadFamily, WriteParent
  <2>2. cur[w] \in Task /\ runs[cur[w]] = 1 /\ Reported(cur[w])
    BY <2>1 DEF Knows, RunInv, StartedOnce, Claimed
  <2>3. \A v \in Worker : cur[v] = cur[w] => pc[v] \notin Writing
    BY <2>1, <2>2 DEF QueueInv, Exclusive, Holds, Writing
  <2>4. Reported(cur[w])'
    BY <2>1, <2>2, <2>3, ReportedStays
  <2> QED
    BY <2>1, <2>4 DEF Knows, Executing, AtWork
<1> QED
  BY <1>1, <1>2, <1>3, <1>4, <1>5, <1>6, <1>7, <1>8, <1>9, <1>10 DEF Process

\* The row of a task, or of what was started, is deleted by the worker that
\* acknowledges it.
LEMMA GoneBy ==
  ASSUME ~CommitMayFail, BaseInv, [Next]_vars, NEW t \in Task,
         t \notin Invalid \/ runs'[t] > 0, table[t] # "gone", table'[t] = "gone"
  PROVE  \E w \in Worker : Acknowledge(w) /\ cur[w] = t
<1> DEFINE Goal == \E w \in Worker : Acknowledge(w) /\ cur[w] = t
<1> USE DEF BaseInv, TInv, TypeOK, BrokerTypeOK
<1>1. ASSUME NEW u \in Task, RequestPush(u) \/ RequestAdd(u) PROVE Goal
  BY <1>1 DEF RequestPush, PushMessage, PushFails, Push, RequestAdd, brokerVars
<1>2. ASSUME NEW w \in Worker, NEW c \in Task, SpawnPush(w, c) \/ Reschedule(w, c)
      PROVE  Goal
  BY <1>2 DEF SpawnPush, Reschedule, PushMessage, PushFails, Push, brokerVars
<1>3. ASSUME NEW w \in Worker, PopTask(w) PROVE Goal
  <2>1. PICK u \in Task : Pop(w, u)
    BY <1>3 DEF PopTask
  <2>2. \A u2 \in prefetch[w] : table[u2] = "hidden"
    BY DEF QueueInv, Exclusive, Holds
  <2> QED
    BY <1>3, <2>1, <2>2, PopEffect DEF PopTask, RunInv, FreshRow
<1>4. ASSUME NEW w \in Worker, PollEmpty(w) PROVE Goal
  BY <1>4, EmptyPollEffect DEF PollEmpty, RunInv, FreshRow
<1>5. ASSUME NEW w \in Worker, Acknowledge(w) PROVE Goal
  BY <1>5 DEF Acknowledge, Delete
<1>6. ASSUME NEW w \in Worker, Process(w) PROVE Goal
  BY <1>2, <1>5, <1>6
     DEF Process, MarkDequeued, Claim, Skip, SpawnAdd, Finish, PollRemote, ConfirmRemote, PollFails,
         DropRecord, Report, ReadFamily, ParentNotFound, WriteParent, brokerVars
<1>7. ASSUME NEW w \in Worker, Crash(w) PROVE Goal
  BY <1>7 DEF Crash, ForgetPrefetched
<1>8. CASE RemoteProgress \/ UNCHANGED vars
  BY <1>8 DEF RemoteProgress, vars, brokerVars
<1> QED
  BY <1>1, <1>2, <1>3, <1>4, <1>6, <1>7, <1>8 DEF Next

\* Every step keeps what the workers know and what acknowledgement says.
LEMMA OutcomeStep ==
  ASSUME ~CommitMayFail, Faults = FALSE, BaseInv, BaseInv', OutcomeInv, [Next]_vars
  PROVE  OutcomeInv'
<1>1. ASSUME NEW w \in Worker PROVE Knows(w)'
  <2>1. Knows(w)
    BY DEF OutcomeInv
  <2>2. CASE pc'[w] = pc[w] /\ cur'[w] = cur[w]
    BY <2>1, <2>2, KnowsStill
  <2>3. CASE Process(w)
    BY <2>1, <2>3, ActorKnows
  <2>4. CASE PopTask(w) \/ Crash(w)
    <3>1. pc'[w] \in {"popped", "idle"}
      BY <2>4 DEF PopTask, Crash, GoTo, Release, BaseInv, TInv, TypeOK
    <3> QED
      BY <3>1 DEF Knows, Executing, AtWork
  <2> QED
    BY <2>2, <2>3, <2>4, OneActs DEF BaseInv, Same
<1>2. ASSUME NEW t \in Task \ Invalid, table'[t] = "gone" PROVE Reported(t)'
  <2>1. CASE table[t] = "gone"
    <3>1. Reported(t) /\ runs[t] > 0
      BY <2>1 DEF OutcomeInv, Acked, BaseInv, RunInv, NothingLost
    <3>2. \A w \in Worker : cur[w] # t
      BY <2>1 DEF BaseInv, QueueInv, Exclusive, Holds
    <3> QED
      BY <3>1, <3>2, ReportedStays
  <2>2. CASE table[t] # "gone"
    <3>1. PICK w \in Worker : Acknowledge(w) /\ cur[w] = t
      BY <1>2, <2>2, GoneBy
    <3>2. Reported(t) /\ runs[t] > 0
      BY <3>1 DEF Acknowledge, OutcomeInv, Knows, BaseInv, RunInv, StartedOnce, Claimed
    <3>3. \A v \in Worker : cur[v] = t => pc[v] \notin Writing
      BY <3>1 DEF Acknowledge, Writing, BaseInv, QueueInv, Exclusive, Holds
    <3> QED
      BY <3>2, <3>3, ReportedStays
  <2> QED
    BY <2>1, <2>2
<1> QED
  BY <1>1, <1>2 DEF OutcomeInv, Acked

\* Neither requests nor workers archive a record.
NeverArchived == \A t \in Task : log[t] # Archived

\* Of all the statuses a worker writes, none is ARCHIVED.
LEMMA NobodyArchives ==
  ASSUME TInv, NeverArchived, [Next]_vars
  PROVE  NeverArchived'
<1> USE DEF TInv, TypeOK, LogTypeOK, NeverArchived
<1> USE DEF NoRecord, Enqueued, Dequeued, Running, ChildRunning, Completed, Failed, Archived
<1>1. ASSUME NEW u \in Task, RequestPush(u) \/ RequestAdd(u) PROVE NeverArchived'
  BY <1>1 DEF RequestPush, RequestAdd, AddToLog, AddRecord
<1>2. ASSUME NEW w \in Worker, NEW c \in Task, SpawnPush(w, c) \/ Reschedule(w, c)
      PROVE  NeverArchived'
  BY <1>2 DEF SpawnPush, Reschedule
<1>3. ASSUME NEW w \in Worker, Process(w) PROVE NeverArchived'
  <2>1. CASE MarkDequeued(w)
    BY <2>1, UpdateStatusEffect DEF MarkDequeued, SetStatus
  <2>2. CASE Claim(w)
    BY <2>2, UpdateStatusEffect DEF Claim
  <2>3. CASE Report(w)
    BY <2>3, UpdateStatusEffect DEF Report, SetReport, ResultDecided, Decided, NoResult
  <2>4. CASE WriteParent(w)
    BY <2>4, UpdateStatusEffect DEF WriteParent, SetStatus, ResultDecided, Decided, NoResult
  <2>5. CASE DropRecord(w)
    BY <2>5 DEF DropRecord, DeleteById
  <2>6. CASE SpawnAdd(w)
    BY <2>6 DEF SpawnAdd, AddToLog, AddRecord
  <2> QED
    BY <1>2, <1>3, <2>1, <2>2, <2>3, <2>4, <2>5, <2>6
       DEF Process, Skip, Finish, PollRemote, ConfirmRemote, PollFails, ReadFamily, ParentNotFound,
           Acknowledge
<1>4. ASSUME NEW w \in Worker, PopTask(w) \/ PollEmpty(w) \/ Crash(w) PROVE NeverArchived'
  BY <1>4 DEF PopTask, PollEmpty, Crash
<1>5. CASE RemoteProgress \/ UNCHANGED vars
  BY <1>5 DEF RemoteProgress, vars
<1> QED
  BY <1>1, <1>2, <1>3, <1>4, <1>5 DEF Next

\* Without failing calls what is acknowledged was reported, or replaced by a
\* clone that was enqueued.
THEOREM AcknowledgedIsReported ==
  ASSUME CommitMayFail = FALSE PROVE Spec => []AckedIsReported
<1>1. CASE Faults = FALSE
  <2>1. Init => OutcomeInv /\ NeverArchived
    BY OutcomeInit DEF Init, LogInit, NeverArchived, NoRecord, Archived
  <2>2. BaseInv /\ BaseInv' /\ OutcomeInv /\ NeverArchived /\ [Next]_vars
          => OutcomeInv' /\ NeverArchived'
    BY <1>1, OutcomeStep, NobodyArchives DEF BaseInv
  <2>3. OutcomeInv /\ NeverArchived => AckedIsReported
    BY DEF OutcomeInv, Acked, NeverArchived, Reported, HasSuccessor, Outcome, AckedIsReported
  <2>4. IInv => BaseInv
    BY DEF IInv, BaseInv
  <2> QED
    BY <2>1, <2>2, <2>3, <2>4, Inductive, PTL DEF Spec
<1>2. CASE Faults = TRUE
  <2>1. AckedIsReported
    BY <1>2 DEF AckedIsReported
  <2> QED
    BY <2>1, PTL
<1> QED
  BY <1>1, <1>2, TaskAssumption

-----------------------------------------------------------------------------
(* A synchroniser and its clones take turns.                                *)

WasPushed(t) == enq[t] \in {"pushed", "done"}

\* t is to be executed, or it is executed and not yet replaced or reported.
Live(t) ==
  /\ WasPushed(t)
  /\ runs[t] = 0 \/ \E w \in Worker : cur[w] = t /\ pc[w] \in AtWork

\* One synchroniser at most was created for the parent p, clones left out.
OneOriginal(p) == \A s, t \in Originals(p) : s = t

PollsRemote ==
  \A w \in Worker : pc[w] \in {"polling", "rescheduling"} => cur[w] \in Remote

CloneHasOriginal ==
  \A c \in Clone : WasPushed(c) => \E t \in Originals(Parent[c]) : WasPushed(t)

OneLive ==
  \A s, t \in Remote :
    Parent[s] = Parent[t] /\ OneOriginal(Parent[t]) /\ Live(s) /\ Live(t) => s = t

ChainInv == PollsRemote /\ CloneHasOriginal /\ OneLive

\* At the start no task of a chain is live.
LEMMA ChainInit == Init => ChainInv
BY TaskAssumption
   DEF Init, ChainInv, PollsRemote, CloneHasOriginal, OneLive, Live, AtWork, WasPushed

\* Clones are pushed by the worker that replaces its task, and by nobody else.
LEMMA PushedBy ==
  ASSUME BaseInv, [Next]_vars, NEW t \in Task, ~WasPushed(t), WasPushed(t)'
  PROVE  enq[t] = "new" /\ (t \notin Clone \/ \E w \in Worker : Reschedule(w, t))
<1> DEFINE Goal ==
      enq[t] = "new" /\ (t \notin Clone \/ \E w \in Worker : Reschedule(w, t))
<1> USE DEF BaseInv, TInv, TypeOK, WasPushed
<1>1. ASSUME NEW u \in Task, RequestPush(u) \/ RequestAdd(u) PROVE Goal
  BY <1>1 DEF RequestPush, PushMessage, PushFails, RequestAdd, AddToLog
<1>2. ASSUME NEW w \in Worker, NEW c \in Task, SpawnPush(w, c) PROVE Goal
  BY <1>2 DEF SpawnPush, PushMessage, PushFails
<1>3. ASSUME NEW w \in Worker, NEW c \in Task, Reschedule(w, c) PROVE Goal
  <2>1. enq[c] = "new" /\ \A u \in Task : u # c => enq'[u] = enq[u]
    BY <1>3 DEF Reschedule, PushMessage, PushFails
  <2>2. t = c
    BY <2>1
  <2> QED
    BY <1>3, <2>1, <2>2
<1>4. ASSUME NEW w \in Worker, SpawnAdd(w) PROVE Goal
  BY <1>4 DEF SpawnAdd, AddToLog
<1>5. ASSUME NEW w \in Worker, Crash(w) PROVE Goal
  BY <1>5, TaskAssumption DEF Crash, QueueInv, OneAdder
<1>6. ASSUME NEW w \in Worker, Process(w) PROVE Goal
  BY <1>3, <1>4, <1>6
     DEF Process, MarkDequeued, Claim, Skip, Finish, PollRemote, ConfirmRemote, PollFails, DropRecord,
         Report, ReadFamily, ParentNotFound, WriteParent, Acknowledge, enqVars
<1>7. ASSUME NEW w \in Worker, PopTask(w) \/ PollEmpty(w) PROVE Goal
  BY <1>7 DEF PopTask, PollEmpty, enqVars
<1>8. CASE RemoteProgress \/ UNCHANGED vars
  BY <1>8 DEF RemoteProgress, vars, enqVars
<1> QED
  BY <1>1, <1>2, <1>5, <1>6, <1>7, <1>8 DEF Next

\* A task is started by a claim, and none is started again.
LEMMA StartedBy ==
  ASSUME BaseInv, BaseInv', [Next]_vars, NEW t \in Task, WasPushed(t), Live(t)'
  PROVE  Live(t)
<1> SUFFICES ASSUME runs[t] # 0
             PROVE  \E w \in Worker : cur[w] = t /\ pc[w] \in AtWork
  BY DEF Live, AtWork
<1> DEFINE Goal == \E w \in Worker : cur[w] = t /\ pc[w] \in AtWork
<1> USE DEF BaseInv, TInv, TypeOK, BusyHasTask
<1>1. runs'[t] # 0
  <2>1. \A u \in Task : runs[u] # 0 => runs'[u] # 0
    <3>1. runs' = runs \/ \E w \in Worker : Claim(w)
      BY DEF Next, RequestPush, RequestAdd, PopTask, PollEmpty, Process, MarkDequeued, Skip,
         SpawnAdd, Finish, PollRemote, ConfirmRemote, PollFails, Reschedule, DropRecord, Report,
         ReadFamily, ParentNotFound, WriteParent, Acknowledge, SpawnPush, Crash,
         RemoteProgress, vars
    <3> QED
      BY <3>1 DEF Claim
  <2> QED
    BY <2>1
<1>2. PICK w \in Worker : cur'[w] = t /\ pc'[w] \in AtWork
  BY <1>1 DEF Live, AtWork
<1>3. CASE pc'[w] = pc[w] /\ cur'[w] = cur[w]
  BY <1>2, <1>3
<1>4. CASE PopTask(w) \/ Crash(w)
  BY <1>2, <1>4 DEF PopTask, Crash, GoTo, Release, AtWork
<1>5. CASE Process(w)
  <2>1. cur[w] = t
    BY <1>2, <1>5, TaskAssumption
       DEF Process, MarkDequeued, Claim, Skip, SpawnAdd, Finish, PollRemote, ConfirmRemote, PollFails,
           Reschedule, DropRecord, Report, ReadFamily, ParentNotFound, WriteParent,
           Acknowledge, GoTo, Release
  <2>2. pc[w] \in AtWork \/ Claim(w)
    BY <1>2, <1>5
       DEF Process, MarkDequeued, Skip, SpawnAdd, Finish, PollRemote, ConfirmRemote, PollFails,
           Reschedule, DropRecord, Report, ReadFamily, ParentNotFound, WriteParent,
           Acknowledge, GoTo, Release, AfterReport, AtWork
  <2>3. Claim(w) => runs[t] = 0
    BY <2>1 DEF Claim, RunInv, FreshCurrent
  <2> QED
    BY <2>1, <2>2, <2>3
<1> QED
  BY <1>2, <1>3, <1>4, <1>5, OneActs DEF Same

\* The worker that replaces its task has one that was pushed.
LEMMA Replacing ==
  ASSUME BaseInv, ChainInv, NEW w \in Worker, NEW c \in Task, Reschedule(w, c)
  PROVE  /\ cur[w] \in Remote /\ Parent[cur[w]] = Parent[c] /\ Live(cur[w])
         /\ \E t \in Originals(Parent[c]) : WasPushed(t)
<1> USE DEF BaseInv, TInv, TypeOK, BusyHasTask
<1>1. /\ pc[w] = "rescheduling" /\ cur[w] \in Task /\ cur[w] \in Remote
      /\ Parent[cur[w]] = Parent[c]
  BY DEF Reschedule, ChainInv, PollsRemote
<1>2. WasPushed(cur[w])
  BY <1>1 DEF QueueInv, Exclusive, Holds, RowOfPushed, WasPushed
<1>3. \E t \in Originals(Parent[c]) : WasPushed(t)
  BY <1>1, <1>2 DEF ChainInv, CloneHasOriginal, Originals
<1> QED
  BY <1>1, <1>2, <1>3 DEF Live, AtWork

\* Whatever becomes live finds nobody of its chain live.
LEMMA NobodyElseLive ==
  ASSUME BaseInv, BaseInv', ChainInv, [Next]_vars, NEW s \in Remote, NEW t \in Remote, s # t,
         Parent[s] = Parent[t], OneOriginal(Parent[t]), ~Live(t), Live(s)', Live(t)'
  PROVE  FALSE
<1> USE TaskAssumption
<1>1. ~WasPushed(t) /\ WasPushed(t)' /\ s \in Task /\ t \in Task
  BY StartedBy DEF Live, AtWork
<1>2. enq[t] = "new" /\ (t \notin Clone \/ \E w \in Worker : Reschedule(w, t))
  BY <1>1, PushedBy
<1>3. Live(s) \/ (~WasPushed(s) /\ WasPushed(s)')
  BY <1>1, StartedBy DEF Live, AtWork
<1>4. CASE t \notin Clone
  <2>1. t \in Originals(Parent[t])
    BY <1>4 DEF Originals
  <2>2. \A u \in Originals(Parent[t]) : ~WasPushed(u)
    BY <1>1, <2>1 DEF OneOriginal
  <2>3. s \in Clone
    BY <2>1 DEF OneOriginal, Originals
  <2>4. ~WasPushed(s)
    BY <2>2, <2>3 DEF ChainInv, CloneHasOriginal
  <2>5. PICK w \in Worker : Reschedule(w, s)
    BY <1>1, <1>3, <2>3, <2>4, PushedBy DEF Live, AtWork
  <2> QED
    BY <1>1, <2>2, <2>5, Replacing
<1>5. ASSUME NEW w \in Worker, Reschedule(w, t) PROVE FALSE
  <2>1. cur[w] \in Remote /\ Parent[cur[w]] = Parent[t] /\ Live(cur[w])
    BY <1>1, <1>5, Replacing
  <2>2. \A u \in Task : u # t => enq'[u] = enq[u]
    BY <1>5 DEF Reschedule, PushMessage, PushFails, BaseInv, TInv, TypeOK
  <2>3. Live(s)
    BY <1>1, <1>3, <2>2 DEF WasPushed
  <2>4. s = cur[w]
    BY <2>1, <2>3 DEF ChainInv, OneLive
  <2>5. /\ pc[w] = "rescheduling" /\ pc'[w] \notin AtWork
        /\ \A v \in Worker \ {w} : pc'[v] = pc[v]
        /\ cur' = cur /\ runs' = runs
    BY <1>5 DEF Reschedule, GoTo, AtWork, BaseInv, TInv, TypeOK
  <2>6. runs[s] = 1 /\ \A v \in Worker \ {w} : cur[v] # s
    BY <2>4, <2>5, <1>1 DEF BaseInv, RunInv, StartedOnce, Claimed, QueueInv, Exclusive, Holds
  <2> QED
    BY <2>5, <2>6 DEF Live, AtWork
<1> QED
  BY <1>2, <1>4, <1>5

\* Every step leaves at most one task of a chain live.
LEMMA ChainStep ==
  ASSUME BaseInv, BaseInv', ChainInv, [Next]_vars
  PROVE  ChainInv'
<1> USE TaskAssumption
<1>1. PollsRemote'
  <2> SUFFICES ASSUME NEW w \in Worker, pc'[w] \in {"polling", "rescheduling"}
               PROVE  cur'[w] \in Remote
    BY DEF PollsRemote
  <2>1. CASE pc'[w] = pc[w] /\ cur'[w] = cur[w]
    BY <2>1 DEF ChainInv, PollsRemote
  <2>2. CASE PopTask(w) \/ Crash(w)
    BY <2>2 DEF PopTask, Crash, GoTo, Release, BaseInv, TInv, TypeOK
  <2>3. CASE Process(w)
    BY <2>3
       DEF BaseInv, TInv, TypeOK, ChainInv, PollsRemote, Process, MarkDequeued, Claim, Skip, SpawnAdd, Finish, PollRemote, ConfirmRemote, PollFails,
           Reschedule, DropRecord, Report, ReadFamily, ParentNotFound, WriteParent,
           Acknowledge, GoTo, Release, AfterReport
  <2> QED
    BY <2>1, <2>2, <2>3, OneActs DEF BaseInv, Same
<1>2. CloneHasOriginal'
  <2> SUFFICES ASSUME NEW c \in Clone, WasPushed(c)'
               PROVE  \E t \in Originals(Parent[c]) : WasPushed(t)'
    BY DEF CloneHasOriginal
  <2>1. \E t \in Originals(Parent[c]) : WasPushed(t)
    <3>1. CASE WasPushed(c)
      BY <3>1 DEF ChainInv, CloneHasOriginal
    <3>2. CASE ~WasPushed(c)
      <4>1. PICK w \in Worker : Reschedule(w, c)
        BY <3>2, PushedBy
      <4> QED
        BY <4>1, Replacing
    <3> QED
      BY <3>1, <3>2
  <2>2. PICK t \in Originals(Parent[c]) : WasPushed(t)
    BY <2>1
  <2>3. WasPushed(t)'
    BY <2>2, EnqueuedStays DEF WasPushed, Originals, BaseInv
  <2> QED
    BY <2>3
<1>3. OneLive'
  <2> SUFFICES ASSUME NEW s \in Remote, NEW t \in Remote, Parent[s] = Parent[t],
                      OneOriginal(Parent[t]), Live(s)', Live(t)', s # t
               PROVE  FALSE
    BY DEF OneLive
  <2>1. Live(s) /\ Live(t)
    BY NobodyElseLive
  <2> QED
    BY <2>1 DEF ChainInv, OneLive
<1> QED
  BY <1>1, <1>2, <1>3 DEF ChainInv

\* A finite set with two different elements has more than one.
LEMMA TwoElements ==
  ASSUME NEW S, IsFiniteSet(S), NEW a \in S, NEW b \in S, a # b
  PROVE  Cardinality(S) > 1
<1>1. IsFiniteSet({a}) /\ Cardinality({a}) = 1
  BY FS_Singleton
<1>2. Cardinality({a} \cup {b}) = 2
  BY <1>1, FS_AddElement
<1>3. {a} \cup {b} \in SUBSET S
  OBVIOUS
<1>4. Cardinality({a} \cup {b}) <= Cardinality(S) /\ Cardinality(S) \in Nat
  BY <1>3, FS_Subset, FS_CardinalityType
<1> QED
  BY <1>2, <1>4

\* A synchroniser and its clones are never executed by two workers at once.
THEOREM ChainTakesTurns ==
  ASSUME CommitMayFail = FALSE, IsFiniteSet(Task) PROVE Spec => []OneOfTheChain
<1>1. BaseInv /\ BaseInv' /\ ChainInv /\ [Next]_vars => ChainInv'
  BY ChainStep
<1>2. BaseInv /\ ChainInv => OneOfTheChain
  <2> SUFFICES ASSUME BaseInv, ChainInv, NEW v \in Worker, NEW w \in Worker, v # w,
                      {pc[v], pc[w]} \subseteq AtWork,
                      {cur[v], cur[w]} \subseteq Remote,
                      Parent[cur[v]] = Parent[cur[w]]
               PROVE  Cardinality(Originals(Parent[cur[w]])) > 1
    BY DEF OneOfTheChain
  <2>1. cur[v] \in Task /\ cur[w] \in Task /\ cur[v] # cur[w]
    BY TaskAssumption DEF BaseInv, QueueInv, Exclusive, Holds
  <2>2. Live(cur[v]) /\ Live(cur[w])
    BY <2>1 DEF BaseInv, QueueInv, Exclusive, Holds, RowOfPushed, Live, AtWork, WasPushed
  <2>3. PICK s \in Originals(Parent[cur[w]]), t \in Originals(Parent[cur[w]]) : s # t
    BY <2>1, <2>2 DEF ChainInv, OneLive, OneOriginal
  <2>4. IsFiniteSet(Originals(Parent[cur[w]]))
    <3>1. Originals(Parent[cur[w]]) \in SUBSET Task
      BY TaskAssumption DEF Originals
    <3> QED
      BY <3>1, FS_Subset
  <2> QED
    BY <2>3, <2>4, TwoElements
<1>3. IInv => BaseInv
  BY DEF IInv, BaseInv
<1> QED
  BY <1>1, <1>2, <1>3, ChainInit, Inductive, PTL DEF Spec

-----------------------------------------------------------------------------
(* The verdict on a family, when no call fails.                             *)

\* With two workers a parent can report CHILD_RUNNING after its children were
\* judged, or a verdict that is older than the last child be written last.
OneWorker == \A v, w \in Worker : v = w

\* The status of a child is its own: a family has two generations, or the
\* second keeps its status.  updateParent() does not look further up.
ChildrenKeepStatus == \A t \in Task : Parent[t] # NoTask => KeepsOwnStatus(t)

\* The message of a child is a task: a rejected one would never be reported.
ChildrenAreTasks == \A t \in Invalid : Parent[t] = NoTask

FamilyAssumption == OneWorker /\ ChildrenKeepStatus /\ ChildrenAreTasks

VerdictOf(p) ==
  IF \E c \in Children(p) : log[c] = Failed THEN Failed ELSE Completed

\* The family of p is done, except that c need not be acknowledged.
DoneBut(p, c) ==
  /\ \A t \in EnqueuedChildren(p) \cup {p} : t # c => table[t] = "gone"
  /\ \A d \in EnqueuedChildren(p) : log[d] # ChildRunning

\* Nobody gets to a child while its parent is being processed.
ChildrenWait ==
  \A w \in Worker :
    pc[w] \in Claimed => \A c \in EnqueuedChildren(cur[w]) : table[c] # "gone"

\* What w holds was replaced by a clone, or is about to be.
Replaced(w) ==
  \/ pc[w] \in {"cloning", "cloned"}
  \/ pc[w] \in {"parent", "parentWrite", "acking"} /\ log[cur[w]] = NoRecord

\* The family of a task that was replaced is not done.
CloneWaits ==
  \A w \in Worker :
    Parent[cur[w]] # NoTask /\ Replaced(w)
      => \E d \in EnqueuedChildren(Parent[cur[w]]) \ {cur[w]} : table[d] # "gone"

\* The last worker of a family has the right verdict before it writes it, and
\* has written it before it acknowledges.
VerdictKnown ==
  \A w \in Worker, p \in Task :
    cur[w] \in Children(p) =>
      /\ pc[w] = "parentWrite" =>
           /\ p \notin MasterStatus /\ log[p] # NoRecord
           /\ DoneBut(p, cur[w]) => res[w] = VerdictOf(p)
      /\ pc[w] = "acking" /\ p \notin MasterStatus /\ DoneBut(p, cur[w])
           => log[p] = VerdictOf(p)

FamilyInv ==
  FamilyStarted /\ ChildrenWait /\ CloneWaits /\ VerdictKnown /\ FamilyVerdict

\* What the proofs about families take from the invariants above.
OutcomeBase == IInv /\ OutcomeInv /\ NeverArchived

\* At the start there is no family.
LEMMA FamilyInit == Init => FamilyInv
BY DEF Init, FamilyInv, FamilyStarted, ChildrenWait, CloneWaits, Replaced, VerdictKnown,
       FamilyVerdict, FamilyDone, EnqueuedChildren, Children, Claimed

\* The row of a member of a family is deleted by whoever acknowledges it.
LEMMA MemberGoneBy ==
  ASSUME ~CommitMayFail, FamilyAssumption, OutcomeBase, FamilyStarted', [Next]_vars,
         NEW p \in Task, EnqueuedChildren(p)' # {},
         NEW t \in EnqueuedChildren(p)' \cup {p},
         table[t] # "gone", table'[t] = "gone"
  PROVE  \E w \in Worker : Acknowledge(w) /\ cur[w] = t
<1>1. t \in Task /\ (t \notin Invalid \/ runs'[t] > 0)
  BY TaskAssumption DEF FamilyAssumption, ChildrenAreTasks, FamilyStarted, EnqueuedChildren, Children
<1> QED
  BY <1>1, GoneBy DEF OutcomeBase, IInv, BaseInv

\* A member of a family that is gone was started and nobody has it.
LEMMA MemberGone ==
  ASSUME FamilyAssumption, OutcomeBase, FamilyStarted,
         NEW p \in Task, NEW t \in Task, table[t] = "gone",
         t \in Children(p) \/ (t = p /\ EnqueuedChildren(p) # {})
  PROVE  enq[t] = "done" /\ \A w \in Worker : cur[w] # t
<1> USE DEF OutcomeBase, IInv
<1>1. runs[t] > 0
  BY TaskAssumption DEF FamilyAssumption, ChildrenAreTasks, FamilyStarted, EnqueuedChildren, Children,
         RunInv, NothingLost
<1> QED
  BY <1>1 DEF RunInv, RecordOfDone, QueueInv, Exclusive, Holds

\* A child was started by the worker that has claimed it.
LEMMA ChildHeld ==
  ASSUME OutcomeBase, NEW w \in Worker, pc[w] \in Claimed
  PROVE  /\ cur[w] \in Task /\ runs[cur[w]] > 0
         /\ enq[cur[w]] = "done" /\ table[cur[w]] = "hidden"
<1> USE DEF OutcomeBase, IInv, TInv, TypeOK, BusyHasTask
<1>1. cur[w] \in Task /\ runs[cur[w]] = 1
  BY DEF Claimed, RunInv, StartedOnce
<1> QED
  BY <1>1 DEF RunInv, RecordOfDone, QueueInv, Exclusive, Holds

\* A step that acknowledges nothing and leaves everybody with c alone leaves a
\* family as it was that is done afterwards, but for c.
LEMMA FamilyStill ==
  ASSUME ~CommitMayFail, FamilyAssumption, OutcomeBase, OutcomeBase', FamilyStarted,
         FamilyStarted', [Next]_vars, \A w \in Worker : ~Acknowledge(w),
         NEW p \in Task, NEW c \in Children(p) \cup {NoTask},
         c # NoTask => runs[c] > 0 /\ \A w \in Worker : cur[w] = c => pc'[w] = pc[w],
         EnqueuedChildren(p)' # {}, DoneBut(p, c)'
  PROVE  /\ EnqueuedChildren(p)' = EnqueuedChildren(p)
         /\ DoneBut(p, c) /\ log'[p] = log[p] /\ VerdictOf(p)' = VerdictOf(p)
<1> USE TaskAssumption
<1>1. ASSUME NEW t \in EnqueuedChildren(p)' \cup {p}, t # c
      PROVE  t \in Task /\ table[t] = "gone"
  <2>1. t \in Task /\ table'[t] = "gone"
    BY <1>1 DEF DoneBut, EnqueuedChildren, Children
  <2> QED
    BY <2>1, MemberGoneBy
<1>2. EnqueuedChildren(p)' \subseteq EnqueuedChildren(p)
  <2>1. ASSUME NEW t \in EnqueuedChildren(p)' PROVE enq[t] \in {"pushed", "done"}
    <3>1. CASE t = c
      BY <3>1 DEF EnqueuedChildren, Children, OutcomeBase, IInv, RunInv, RecordOfDone
    <3>2. CASE t # c
      BY <1>1, <3>2 DEF OutcomeBase, IInv, QueueInv, RowOfPushed
    <3> QED
      BY <3>1, <3>2
  <2> QED
    BY <2>1 DEF EnqueuedChildren
<1>3. EnqueuedChildren(p) \subseteq EnqueuedChildren(p)'
  BY EnqueuedStays DEF OutcomeBase, IInv, EnqueuedChildren, Children
<1>4. EnqueuedChildren(p)' = EnqueuedChildren(p)
  BY <1>2, <1>3
<1>5. ASSUME NEW t \in EnqueuedChildren(p) \cup {p}
      PROVE  /\ t \in Task /\ enq[t] = "done"
             /\ \A w \in Worker : cur[w] = t => pc'[w] = pc[w]
  <2>1. CASE t = c
    BY <2>1 DEF EnqueuedChildren, Children, OutcomeBase, IInv, RunInv, RecordOfDone
  <2>2. CASE t # c
    <3>1. t \in Task /\ table[t] = "gone"
      BY <1>1, <1>4, <2>2
    <3> QED
      BY <3>1, <1>4, MemberGone DEF EnqueuedChildren
  <2> QED
    BY <2>1, <2>2
<1>6. ASSUME NEW t \in EnqueuedChildren(p) \cup {p},
             NEW w \in Worker, pc[w] = "parentWrite", pc'[w] = "acking", Parent[cur[w]] = t
      PROVE  FALSE
  <2>1. cur[w] \in Children(t) /\ cur[w] \in EnqueuedChildren(t) /\ table[cur[w]] = "hidden"
    BY <1>6, ChildHeld DEF Claimed, EnqueuedChildren, Children
  <2>2. CASE t = p
    <3>1. cur[w] = c
      BY <1>1, <1>3, <2>1, <2>2
    <3> QED
      BY <1>6, <2>1, <3>1 DEF Children
  <2>3. CASE t # p
    <3>1. t \in Task /\ Parent[t] # NoTask
      BY <2>3 DEF EnqueuedChildren, Children
    <3>2. t \in MasterStatus
      BY <2>1, <3>1 DEF FamilyAssumption, ChildrenKeepStatus, KeepsOwnStatus
    <3> QED
      BY <1>6, <3>2 DEF OutcomeBase, IInv, OwnInv, VerdictAllowed
  <2> QED
    BY <2>2, <2>3
<1>7. \A t \in EnqueuedChildren(p) \cup {p} : log'[t] = log[t]
  <2>1. SUFFICES ASSUME NEW t \in EnqueuedChildren(p) \cup {p} PROVE log'[t] = log[t]
    OBVIOUS
  <2>2. /\ t \in Task /\ enq[t] = "done"
        /\ \A w \in Worker : cur[w] = t => pc'[w] = pc[w]
    BY <1>5
  <2>3. ~ \E w \in Worker : pc[w] = "parentWrite" /\ pc'[w] = "acking" /\ Parent[cur[w]] = t
    BY <1>6
  <2> QED
    BY <2>2, <2>3, LogWriters DEF OutcomeBase, IInv
<1>8. \A t \in Children(p) : log'[t] = log[t]
  <2>1. \A t \in Children(p) \ EnqueuedChildren(p) : log[t] = NoRecord /\ log'[t] = NoRecord
    <3>1. ASSUME NEW t \in Children(p) \ EnqueuedChildren(p)
          PROVE  t \in Task /\ enq[t] # "done" /\ enq'[t] # "done"
      BY <1>4 DEF EnqueuedChildren, Children
    <3> QED
      BY <3>1 DEF OutcomeBase, IInv, RunInv, RecordOfDone
  <2> QED
    BY <1>7, <2>1
<1>9. VerdictOf(p)' = VerdictOf(p)
  BY <1>8 DEF VerdictOf, Children
<1>10. DoneBut(p, c)
  BY <1>1, <1>4, <1>7 DEF DoneBut
<1> QED
  BY <1>4, <1>7, <1>9, <1>10

\* What updateParent() reads once the other children are done: the children
\* that were not replaced, each with the status of its own.
LEMMA DoneProcessed ==
  ASSUME FamilyAssumption, OutcomeBase, CloneWaits,
         NEW p \in Task, NEW w \in Worker, pc[w] = "parent", cur[w] \in Children(p),
         DoneBut(p, cur[w])
  PROVE  ChildrenProcessed(p) /\ ParentVerdict(p) = VerdictOf(p)
<1> USE DEF Completed, Failed, ChildRunning, Archived, Cancelled, NoRecord
<1>1. \A d \in Children(p) : log[d] \in {NoRecord, Completed, Failed}
  <2> SUFFICES ASSUME NEW d \in Children(p), log[d] # NoRecord
               PROVE  log[d] \in {Completed, Failed}
    OBVIOUS
  <2>1. d \in Task /\ d \in EnqueuedChildren(p) /\ d \notin Invalid
    BY TaskAssumption DEF Children, EnqueuedChildren, OutcomeBase, IInv, RunInv, RecordOfDone,
       FamilyAssumption, ChildrenAreTasks
  <2>2. Reported(d)
    BY <2>1 DEF DoneBut, OutcomeBase, OutcomeInv, Acked, Knows
  <2> QED
    BY <2>1, <2>2 DEF Reported, Outcome, DoneBut, OutcomeBase, NeverArchived
<1>2. LoggedChildren(p) = {d \in Children(p) : log[d] # NoRecord}
  BY <1>1 DEF LoggedChildren
<1>3. log[cur[w]] # NoRecord
  <2> SUFFICES ASSUME log[cur[w]] = NoRecord PROVE FALSE
    OBVIOUS
  <2>1. Parent[cur[w]] = p /\ p # NoTask
    BY TaskAssumption DEF Children
  <2>2. \E d \in EnqueuedChildren(p) \ {cur[w]} : table[d] # "gone"
    BY <2>1 DEF CloneWaits, Replaced
  <2> QED
    BY <2>2 DEF DoneBut
<1>4. Category(Completed) = "completed" /\ Category(Failed) = "failed"
  BY DEF Category, Enqueued, Dequeued, Running, Unknown
<1>5. \A d \in LoggedChildren(p) :
        Category(log[d]) \in {"completed", "failed"}
          /\ (Category(log[d]) = "failed" <=> log[d] = Failed)
  BY <1>1, <1>2, <1>4
<1>6. ChildrenProcessed(p)
  BY <1>2, <1>3, <1>5 DEF ChildrenProcessed
<1>7. ParentVerdict(p) = VerdictOf(p)
  BY <1>2, <1>5 DEF ParentVerdict, VerdictOf
<1> QED
  BY <1>6, <1>7

\* A worker that has claimed its task had it before.
LEMMA Claiming ==
  ASSUME TInv, [Next]_vars, NEW w \in Worker, pc'[w] \in Claimed
  PROVE  cur'[w] = cur[w] /\ (pc[w] \in Claimed \/ Claim(w))
<1> USE DEF TInv, TypeOK
<1>1. CASE Same(w)
  BY <1>1 DEF Same
<1>2. CASE PopTask(w) \/ Crash(w)
  BY <1>2 DEF PopTask, Crash, GoTo, Release, Claimed
<1>3. CASE Process(w)
  BY <1>3
     DEF Process, MarkDequeued, Skip, SpawnAdd, Finish, PollRemote, ConfirmRemote, PollFails, Claim,
         Reschedule, DropRecord, Report, ReadFamily, ParentNotFound, WriteParent,
         Acknowledge, GoTo, Release, Claimed
<1> QED
  BY <1>1, <1>2, <1>3, OneActs

\* While a worker is busy with a task, nobody acknowledges another one.
LEMMA NobodyElse ==
  ASSUME ~CommitMayFail, FamilyAssumption, OutcomeBase, FamilyStarted', [Next]_vars,
         NEW p \in Task, NEW w \in Worker, NEW t \in EnqueuedChildren(p)', t # cur[w],
         table'[t] = "gone"
  PROVE  table[t] = "gone"
<1>1. EnqueuedChildren(p)' # {}
  OBVIOUS
<1>2. table[t] # "gone" => \E v \in Worker : cur[v] = t
  BY <1>1, MemberGoneBy
<1> QED
  BY <1>2 DEF FamilyAssumption, OneWorker

LEMMA ChildrenWaitStep ==
  ASSUME ~CommitMayFail, FamilyAssumption, OutcomeBase, OutcomeBase', FamilyStarted,
         FamilyStarted', ChildrenWait, [Next]_vars
  PROVE  ChildrenWait'
<1> SUFFICES ASSUME NEW w \in Worker, pc'[w] \in Claimed,
                    NEW c \in EnqueuedChildren(cur[w])', table'[c] = "gone"
             PROVE  FALSE
  BY DEF ChildrenWait, EnqueuedChildren, Children
<1> USE TaskAssumption
<1>1. cur'[w] = cur[w] /\ (pc[w] \in Claimed \/ Claim(w))
  BY Claiming DEF OutcomeBase, IInv
<1>2. cur'[w] \in Task
  BY ChildHeld DEF OutcomeBase, IInv, TInv, TypeOK, BusyHasTask, Claimed
<1>3. PICK u \in Task : u = cur[w] /\ u = cur'[w]
  BY <1>1, <1>2
<1>4. c \in EnqueuedChildren(u)' /\ c \in Task /\ Parent[c] = u /\ c # u
  BY <1>3 DEF EnqueuedChildren, Children
<1>5. table[c] = "gone"
  BY <1>3, <1>4, NobodyElse
<1>6. c \in EnqueuedChildren(u) /\ enq[c] # "new"
  BY <1>4, <1>5 DEF OutcomeBase, IInv, QueueInv, RowOfPushed, EnqueuedChildren, Children
<1>7. CASE pc[w] \in Claimed
  BY <1>3, <1>5, <1>6, <1>7 DEF ChildrenWait
<1>8. CASE Claim(w)
  <2>1. runs[u] > 0
    BY <1>4, <1>6 DEF FamilyStarted
  <2>2. runs[u] = 0
    BY <1>3, <1>8 DEF Claim, OutcomeBase, IInv, RunInv, FreshCurrent
  <2> QED
    BY <2>1, <2>2
<1> QED
  BY <1>1, <1>7, <1>8

\* A worker finds out that its task was replaced when it replaces it.
LEMMA Replacement ==
  ASSUME Faults = FALSE, FamilyAssumption, OutcomeBase, [Next]_vars, NEW w \in Worker,
         pc'[w] \in Claimed, cur[w] \in Task, Replaced(w)'
  PROVE  Replaced(w) \/ \E c \in Task : Reschedule(w, c) /\ PushMessage(c)
<1> DEFINE Goal == Replaced(w) \/ \E c \in Task : Reschedule(w, c) /\ PushMessage(c)
<1> USE TaskAssumption
<1> USE DEF OutcomeBase, IInv, TInv, TypeOK, GoTo
<1>1. cur'[w] = cur[w]
  BY Claiming
<1>2. CASE Same(w)
  <2>1. log'[cur[w]] = NoRecord => log[cur[w]] = NoRecord
    <3>1. \A v \in Worker : v = w
      BY DEF FamilyAssumption, OneWorker
    <3>2. NoRecord \notin Outcome /\ NoRecord # Enqueued
      BY DEF NoRecord, Outcome, Completed, Failed, ChildRunning, Enqueued
    <3> QED
      BY <1>2, <3>1, <3>2, LogWriters DEF Same
  <2> QED
    BY <1>1, <1>2, <2>1 DEF Same, Replaced
<1>3. CASE PopTask(w) \/ Crash(w)
  BY <1>3 DEF PopTask, Crash, Release, Claimed
<1>4. CASE Process(w)
  <2>1. CASE SpawnAdd(w)
    <3>1. log'[cur[w]] = NoRecord => log[cur[w]] = NoRecord
      BY <2>1 DEF SpawnAdd, AddToLog, AddRecord, LogTypeOK, NoRecord, Enqueued
    <3> QED
      BY <1>1, <2>1, <3>1 DEF SpawnAdd, Replaced
  <2>2. ASSUME NEW c \in Task, Reschedule(w, c) PROVE Goal
    BY <2>2 DEF Reschedule, PushFails, Replaced
  <2>3. CASE DropRecord(w)
    BY <2>3 DEF DropRecord, Replaced
  <2>4. CASE Report(w)
    <3>1. log[cur[w]] # NoRecord /\ res[w] \in Outcome
      BY <2>4 DEF Report, OutcomeInv, Knows, Executing, AtWork, ResultDecided, Decided, Outcome
    <3>2. log'[cur[w]] = res[w]
      BY <2>4, <3>1 DEF Report, SetReport, UpdateStatus, Touched, LogTypeOK
    <3>3. pc'[w] \notin {"cloning", "cloned"}
      BY <2>4 DEF Report, AfterReport
    <3> QED
      BY <1>1, <3>1, <3>2, <3>3 DEF Replaced, Outcome, NoRecord, Completed, Failed, ChildRunning
  <2>5. CASE ReadFamily(w)
    BY <2>5 DEF ReadFamily, Replaced
  <2>6. CASE WriteParent(w)
    <3>1. log'[cur[w]] = log[cur[w]]
      BY <2>6, UpdateStatusEffect DEF WriteParent, SetStatus
    <3> QED
      BY <1>1, <2>6, <3>1 DEF WriteParent, Replaced
  <2>7. CASE MarkDequeued(w) \/ Claim(w) \/ Skip(w) \/ Finish(w) \/ PollRemote(w) \/ ConfirmRemote(w)
             \/ PollFails(w) \/ ParentNotFound(w) \/ Acknowledge(w)
    <3>1. pc'[w] \in {"dequeued", "running", "idle", "reporting"} \cup AtWork
      BY <2>7 DEF AtWork, MarkDequeued, Claim, Skip, Finish, PollRemote, ConfirmRemote, PollFails,
         ParentNotFound, Acknowledge, Release
    <3> QED
      BY <3>1 DEF Replaced, AtWork
  <2> QED
    BY <1>4, <2>1, <2>2, <2>3, <2>4, <2>5, <2>6, <2>7 DEF Process
<1> QED
  BY <1>2, <1>3, <1>4, OneActs

LEMMA CloneWaitsStep ==
  ASSUME ~CommitMayFail, Faults = FALSE, FamilyAssumption, OutcomeBase, OutcomeBase',
         FamilyStarted, FamilyStarted', CloneWaits, [Next]_vars
  PROVE  CloneWaits'
<1> SUFFICES ASSUME NEW w \in Worker, Parent[cur'[w]] # NoTask, Replaced(w)'
             PROVE  \E d \in EnqueuedChildren(Parent[cur[w]])' \ {cur'[w]} : table'[d] # "gone"
  BY DEF CloneWaits, Replaced, EnqueuedChildren, Children
<1> USE TaskAssumption
<1> USE DEF OutcomeBase, IInv, TInv, TypeOK, BusyHasTask
<1>1. pc'[w] \in Claimed
  BY DEF Replaced, Claimed
<1>2. cur'[w] = cur[w] /\ cur'[w] \in Task
  BY <1>1, Claiming DEF Claimed
<1>3. PICK p \in Task : p = Parent[cur[w]] /\ p = Parent[cur'[w]]
  BY <1>2
<1>4. \E d \in EnqueuedChildren(p)' \ {cur[w]} : table'[d] # "gone"
  <2>1. CASE Replaced(w)
    <3>1. PICK d \in EnqueuedChildren(p) \ {cur[w]} : table[d] # "gone"
      BY <1>3, <2>1 DEF CloneWaits
    <3>2. d \in EnqueuedChildren(p)'
      BY EnqueuedStays DEF EnqueuedChildren, Children
    <3> QED
      BY <3>1, <3>2, NobodyElse
  <2>2. ASSUME NEW c \in Task, Reschedule(w, c), PushMessage(c)
        PROVE  \E d \in EnqueuedChildren(p)' \ {cur[w]} : table'[d] # "gone"
    <3>1. pc[w] = "rescheduling"
      BY <2>2 DEF Reschedule
    <3>2. enq[cur[w]] = "done"
      BY <3>1, ChildHeld DEF Claimed
    <3>3. enq[c] = "new" /\ enq'[c] = "pushed" /\ table'[c] = "visible" /\ Parent[c] = p
      BY <1>3, <2>2 DEF Reschedule, PushMessage, Push, BrokerTypeOK
    <3> QED
      BY <3>2, <3>3 DEF EnqueuedChildren, Children
  <2> QED
    BY <1>1, <1>2, <2>1, <2>2, Replacement
<1> QED
  BY <1>2, <1>3, <1>4

\* What w is to know of its family.
KnowsVerdict(w, p, c) ==
  /\ pc[w] = "parentWrite" =>
       /\ p \notin MasterStatus /\ log[p] # NoRecord
       /\ DoneBut(p, c) => res[w] = VerdictOf(p)
  /\ pc[w] = "acking" /\ p \notin MasterStatus /\ DoneBut(p, c) => log[p] = VerdictOf(p)

\* The worker of a child reads the verdict it has to write: nothing of a family
\* that is done changes before it has written it.
LEMMA ActorKnowsVerdict ==
  ASSUME Faults = FALSE, FamilyAssumption, OutcomeBase, CloneWaits,
         NEW w \in Worker, NEW p \in Task, NEW c \in Children(p), c = cur[w],
         KnowsVerdict(w, p, c), ReadFamily(w) \/ WriteParent(w)
  PROVE  KnowsVerdict(w, p, c)'
<1> USE TaskAssumption
<1> USE DEF OutcomeBase, IInv, TInv, TypeOK, LogTypeOK
<1>1. c \in Task /\ Parent[c] = p /\ c # p
  BY DEF Children
<1>2. CASE ReadFamily(w)
  <2>1. UNCHANGED <<log, table, enq>> /\ pc[w] = "parent" /\ log[p] # NoRecord
    BY <1>1, <1>2 DEF ReadFamily, brokerVars, enqVars
  <2>2. DoneBut(p, c)' = DoneBut(p, c) /\ VerdictOf(p)' = VerdictOf(p)
    BY <2>1 DEF DoneBut, VerdictOf, EnqueuedChildren, Children
  <2>3. DoneBut(p, c) => ChildrenProcessed(p) /\ ParentVerdict(p) = VerdictOf(p)
    BY <2>1, DoneProcessed
  <2>4. \/ /\ p \notin MasterStatus /\ ChildrenProcessed(p)
           /\ res'[w] = ParentVerdict(p) /\ pc'[w] = "parentWrite"
        \/ /\ p \in MasterStatus \/ ~ChildrenProcessed(p)
           /\ pc'[w] = "acking"
    BY <1>1, <1>2 DEF ReadFamily, GoTo
  <2> QED
    BY <2>1, <2>2, <2>3, <2>4 DEF KnowsVerdict
<1>3. CASE WriteParent(w)
  <2>1. /\ UNCHANGED <<table, enq>> /\ pc[w] = "parentWrite" /\ pc'[w] = "acking"
        /\ UpdateStatus(p, res[w], AnyStatus)
    BY <1>1, <1>3 DEF WriteParent, SetStatus, GoTo, brokerVars, enqVars
  <2>2. \A d \in Children(p) : log'[d] = log[d]
    BY <2>1, UpdateStatusEffect DEF Children
  <2>3. DoneBut(p, c)' = DoneBut(p, c) /\ VerdictOf(p)' = VerdictOf(p)
    BY <2>1, <2>2 DEF DoneBut, VerdictOf, EnqueuedChildren, Children
  <2>4. log'[p] = res[w]
    BY <2>1 DEF KnowsVerdict, UpdateStatus, Touched
  <2> QED
    BY <2>1, <2>3, <2>4 DEF KnowsVerdict
<1> QED
  BY <1>2, <1>3

LEMMA VerdictKnownStep ==
  ASSUME ~CommitMayFail, Faults = FALSE, FamilyAssumption, OutcomeBase, OutcomeBase',
         FamilyStarted, FamilyStarted', CloneWaits, VerdictKnown, [Next]_vars
  PROVE  VerdictKnown'
<1> SUFFICES ASSUME NEW w \in Worker, NEW p \in Task, cur'[w] \in Children(p),
                    pc'[w] \in {"parentWrite", "acking"}
             PROVE  /\ pc'[w] = "parentWrite" =>
                         /\ p \notin MasterStatus /\ log'[p] # NoRecord
                         /\ DoneBut(p, cur[w])' => res'[w] = VerdictOf(p)'
                    /\ pc'[w] = "acking" /\ p \notin MasterStatus /\ DoneBut(p, cur[w])'
                         => log'[p] = VerdictOf(p)'
  BY DEF VerdictKnown, Children
<1> USE TaskAssumption
<1> USE DEF OutcomeBase, IInv, TInv, TypeOK
<1>1. cur'[w] = cur[w] /\ pc[w] \in Claimed
  BY Claiming DEF Claim, GoTo, Claimed
<1>2. PICK c \in Children(p) : c = cur[w] /\ c = cur'[w]
  BY <1>1
<1>3. c \in Task /\ Parent[c] = p /\ runs[c] > 0 /\ enq[c] = "done"
  BY <1>1, <1>2, ChildHeld DEF Children
<1>4. KnowsVerdict(w, p, c)
  BY <1>2 DEF VerdictKnown, KnowsVerdict
<1>5. KnowsVerdict(w, p, c)'
  <2>1. CASE Same(w)
    <3>1. \A v \in Worker : v = w
      BY DEF FamilyAssumption, OneWorker
    <3>2. \A v \in Worker : ~Acknowledge(v)
      BY <2>1, <3>1 DEF Same, Acknowledge, Release, GoTo
    <3>3. log[p] # NoRecord => log'[p] # NoRecord
      BY <2>1, <3>1, LogWriters DEF Same, Outcome, NoRecord, Enqueued, Completed, Failed, ChildRunning
    <3>4. EnqueuedChildren(p)' # {}
      BY <1>2, <1>3, EnqueuedStays DEF EnqueuedChildren, Children
    <3>5. \A v \in Worker : cur[v] = c => pc'[v] = pc[v]
      BY <2>1, <3>1 DEF Same
    <3>6. DoneBut(p, c)' =>
            DoneBut(p, c) /\ log'[p] = log[p] /\ VerdictOf(p)' = VerdictOf(p)
      BY <1>3, <3>2, <3>4, <3>5, FamilyStill
    <3> QED
      BY <1>4, <2>1, <3>3, <3>6 DEF Same, KnowsVerdict
  <2>2. CASE PopTask(w) \/ Crash(w)
    BY <2>2 DEF PopTask, Crash, Release, GoTo
  <2>3. CASE ReadFamily(w) \/ WriteParent(w)
    BY <1>2, <1>4, <2>3, ActorKnowsVerdict
  <2>4. CASE Process(w) /\ ~ReadFamily(w) /\ ~WriteParent(w) /\ ~Same(w)
    BY <1>2, <1>3, <2>4
       DEF Process, MarkDequeued, Skip, SpawnAdd, Finish, PollRemote, ConfirmRemote, PollFails, Claim,
           Reschedule, DropRecord, Report, ParentNotFound, Acknowledge, GoTo, Release,
           AfterReport, Same
  <2> QED
    BY <2>1, <2>2, <2>3, <2>4, OneActs
<1> QED
  BY <1>2, <1>5 DEF KnowsVerdict

\* Whoever acknowledges the last message of a family has written its verdict.
LEMMA FamilyVerdictStep ==
  ASSUME ~CommitMayFail, Faults = FALSE, FamilyAssumption, OutcomeBase, OutcomeBase',
         FamilyInv, FamilyStarted', [Next]_vars
  PROVE  FamilyVerdict'
<1> SUFFICES ASSUME NEW p \in Task \ MasterStatus, FamilyDone(p)'
             PROVE  log'[p] = VerdictOf(p)'
  BY DEF FamilyVerdict, VerdictOf, FamilyDone, Children
<1> USE TaskAssumption
<1>1. EnqueuedChildren(p)' # {} /\ DoneBut(p, NoTask)'
  BY DEF FamilyDone, DoneBut
<1>2. EnqueuedChildren(p) # {} /\ DoneBut(p, NoTask) => log[p] = VerdictOf(p)
  BY DEF FamilyInv, FamilyVerdict, FamilyDone, DoneBut, VerdictOf, EnqueuedChildren, Children
<1>3. CASE \A w \in Worker : ~Acknowledge(w)
  BY <1>1, <1>2, <1>3, FamilyStill DEF FamilyInv
<1>4. ASSUME NEW w \in Worker, Acknowledge(w) PROVE log'[p] = VerdictOf(p)'
  <2>1. /\ UNCHANGED <<log, enq>> /\ pc[w] = "acking"
        /\ \A t \in Task : t # cur[w] => table'[t] = table[t]
    BY <1>4 DEF Acknowledge, Delete, enqVars, OutcomeBase, IInv, TInv, TypeOK, BrokerTypeOK
  <2>2. /\ EnqueuedChildren(p)' = EnqueuedChildren(p) /\ VerdictOf(p)' = VerdictOf(p)
        /\ log'[p] = log[p] /\ DoneBut(p, cur[w])
    BY <1>1, <2>1 DEF DoneBut, VerdictOf, EnqueuedChildren, Children
  <2>3. CASE cur[w] = p
    <3>1. PICK c \in EnqueuedChildren(p) : TRUE
      BY <1>1, <2>2
    <3>2. c # p /\ table[c] = "gone"
      BY <2>2, <2>3 DEF DoneBut, EnqueuedChildren, Children
    <3> QED
      BY <2>1, <2>3, <3>1, <3>2 DEF FamilyInv, ChildrenWait, Claimed
  <2>4. CASE cur[w] \in Children(p)
    BY <2>1, <2>2, <2>4 DEF FamilyInv, VerdictKnown
  <2>5. CASE cur[w] # p /\ cur[w] \notin Children(p)
    BY <1>1, <1>2, <2>2, <2>5 DEF DoneBut, EnqueuedChildren
  <2> QED
    BY <2>3, <2>4, <2>5
<1> QED
  BY <1>3, <1>4

LEMMA FamilyInvStep ==
  ASSUME ~CommitMayFail, Faults = FALSE, FamilyAssumption, OutcomeBase, OutcomeBase',
         FamilyInv, [Next]_vars
  PROVE  FamilyInv'
<1>1. FamilyStarted'
  BY FamilyStep DEF FamilyInv, OutcomeBase, IInv
<1> QED
  BY <1>1, ChildrenWaitStep, CloneWaitsStep, VerdictKnownStep, FamilyVerdictStep
     DEF FamilyInv

\* One worker, no failing call: when all the children of a task have been
\* processed, whatever was crashed, rescheduled or left out before, the task is
\* FAILED if one of them failed and COMPLETED if none did.
THEOREM FamiliesJudged ==
  ASSUME CommitMayFail = FALSE, Faults = FALSE, FamilyAssumption
  PROVE  Spec => []FamilyVerdict
<1>1. Init => OutcomeInv /\ NeverArchived /\ FamilyInv
  BY OutcomeInit, FamilyInit DEF Init, LogInit, NeverArchived, NoRecord, Archived
<1>2. IInv /\ IInv' /\ OutcomeInv /\ NeverArchived /\ FamilyInv /\ [Next]_vars
        => OutcomeInv' /\ NeverArchived' /\ FamilyInv'
  <2> SUFFICES ASSUME IInv, IInv', OutcomeInv, NeverArchived, FamilyInv, [Next]_vars
               PROVE  OutcomeInv' /\ NeverArchived' /\ FamilyInv'
    OBVIOUS
  <2>1. OutcomeInv' /\ NeverArchived'
    BY OutcomeStep, NobodyArchives DEF BaseInv, IInv
  <2> QED
    BY <2>1, FamilyInvStep DEF OutcomeBase
<1>3. FamilyInv => FamilyVerdict
  BY DEF FamilyInv
<1> QED
  BY <1>1, <1>2, <1>3, Inductive, PTL DEF Spec

-----------------------------------------------------------------------------
(* Parents are found.                                                       *)

\* A task with children keeps its record: it is not replaced by a clone.
ParentRecorded ==
  \A c \in Task : Parent[c] # NoTask /\ enq[c] # "new" => log[Parent[c]] # NoRecord

RunningRecorded == \A w \in Worker : pc[w] = "running" => log[cur[w]] # NoRecord

\* A synchroniser that created children is reported, not polled.
ChildlessPolling ==
  \A w \in Worker :
    pc[w] \in {"polling", "rescheduling", "confirming", "cloning", "cloned"}
      => ~HasChildren(cur[w])

AsksForParent ==
  \A w \in Worker : pc[w] \in {"parent", "parentWrite"} => Parent[cur[w]] # NoTask

ParentsInv == ParentRecorded /\ RunningRecorded /\ ChildlessPolling /\ AsksForParent

\* Whoever looks for the parent of its task finds the parent's record.
ParentFound == \A w \in Worker : pc[w] = "parent" => log[Parent[cur[w]]] # NoRecord

\* A record disappears only when the worker of its task has replaced the task.
LEMMA DroppedBy ==
  ASSUME TInv, [Next]_vars, NEW t \in Task, log[t] # NoRecord, log'[t] = NoRecord
  PROVE  \E w \in Worker : cur[w] = t /\ pc[w] = "cloned"
<1> USE DEF TInv, TypeOK, LogTypeOK, NoRecord, Enqueued
<1>1. PICK w \in Worker : cur[w] = t /\ pc[w] \in Writing /\ pc'[w] # pc[w]
  BY LogWriters DEF Outcome, Completed, Failed, ChildRunning
<1> SUFFICES ASSUME pc[w] # "cloned" PROVE FALSE
  BY <1>1
<1>2. PopTask(w) \/ Process(w) \/ Crash(w)
  BY <1>1, OneActs DEF Same
<1>3. PopTask(w) \/ Crash(w) => log' = log
  BY DEF PopTask, Crash
<1>4. CASE Process(w)
  <2>1. CASE MarkDequeued(w) \/ Claim(w) \/ Report(w)
    BY <1>1, <2>1, UpdateStatusEffect
       DEF MarkDequeued, SetStatus, Claim, Report, SetReport, ResultDecided, Decided,
           Dequeued, Running, Completed, Failed, ChildRunning
  <2>2. CASE SpawnAdd(w)
    BY <2>2 DEF SpawnAdd, AddToLog, AddRecord
  <2> QED
    BY <1>1, <1>4, <2>1, <2>2
       DEF Process, Skip, Finish, PollRemote, ConfirmRemote, PollFails, Reschedule, DropRecord,
           ReadFamily, ParentNotFound, WriteParent, Acknowledge, Writing
<1> QED
  BY <1>2, <1>3, <1>4

\* Children are created by their parent, or as clones of one.
LEMMA ChildCreatedBy ==
  ASSUME BaseInv, [Next]_vars, NEW c \in Task, Parent[c] # NoTask,
         enq[c] = "new", enq'[c] # "new"
  PROVE  \E w \in Worker : SpawnPush(w, c) \/ Reschedule(w, c)
<1> DEFINE Goal == \E w \in Worker : SpawnPush(w, c) \/ Reschedule(w, c)
<1> USE DEF BaseInv, TInv, TypeOK
<1>1. ASSUME NEW u \in Task, RequestPush(u) \/ RequestAdd(u) PROVE Goal
  BY <1>1 DEF RequestPush, PushMessage, PushFails, RequestAdd, AddToLog
<1>2. ASSUME NEW w \in Worker, NEW d \in Task, SpawnPush(w, d) \/ Reschedule(w, d)
      PROVE  Goal
  <2>1. \A u \in Task : u # d => enq'[u] = enq[u]
    BY <1>2 DEF SpawnPush, Reschedule, PushMessage, PushFails
  <2> QED
    BY <1>2, <2>1
<1>3. ASSUME NEW w \in Worker, SpawnAdd(w) PROVE Goal
  BY <1>3 DEF SpawnAdd, AddToLog
<1>4. ASSUME NEW w \in Worker, Crash(w) PROVE Goal
  BY <1>4, TaskAssumption DEF Crash, QueueInv, OneAdder
<1>5. ASSUME NEW w \in Worker, Process(w) PROVE Goal
  BY <1>2, <1>3, <1>5
     DEF Process, MarkDequeued, Claim, Skip, Finish, PollRemote, ConfirmRemote, PollFails, DropRecord,
         Report, ReadFamily, ParentNotFound, WriteParent, Acknowledge, enqVars
<1>6. ASSUME NEW w \in Worker, PopTask(w) \/ PollEmpty(w) PROVE Goal
  BY <1>6 DEF PopTask, PollEmpty, enqVars
<1>7. CASE RemoteProgress \/ UNCHANGED vars
  BY <1>7 DEF RemoteProgress, vars, enqVars
<1> QED
  BY <1>1, <1>2, <1>4, <1>5, <1>6, <1>7 DEF Next

\* What a worker has was enqueued, and no other worker has it.
LEMMA CurrentPushed ==
  ASSUME BaseInv, NEW w \in Worker, pc[w] # "idle"
  PROVE  /\ cur[w] \in Task /\ enq[cur[w]] # "new"
         /\ \A v \in Worker : cur[v] = cur[w] => v = w
BY DEF BaseInv, TInv, TypeOK, BusyHasTask, QueueInv, Exclusive, Holds, RowOfPushed

LEMMA ParentRecordedStep ==
  ASSUME BaseInv, ParentsInv, [Next]_vars
  PROVE  ParentRecorded'
<1> SUFFICES ASSUME NEW c \in Task, Parent[c] # NoTask, enq'[c] # "new"
             PROVE  log'[Parent[c]] # NoRecord
  BY DEF ParentRecorded
<1>1. Parent[c] \in Task
  BY TaskAssumption
<1>2. CASE enq[c] = "new"
  <2>1. PICK w \in Worker : SpawnPush(w, c) \/ Reschedule(w, c)
    BY <1>2, ChildCreatedBy
  <2>2. log' = log
    BY <2>1 DEF SpawnPush, Reschedule
  <2>3. CASE SpawnPush(w, c)
    BY <2>2, <2>3 DEF SpawnPush, ParentsInv, RunningRecorded
  <2>4. CASE Reschedule(w, c)
    BY <2>2, <2>4, CurrentPushed DEF Reschedule, ParentsInv, ParentRecorded
  <2> QED
    BY <2>1, <2>3, <2>4
<1>3. CASE enq[c] # "new"
  <2> SUFFICES ASSUME log'[Parent[c]] = NoRecord PROVE FALSE
    OBVIOUS
  <2>1. PICK w \in Worker : cur[w] = Parent[c] /\ pc[w] = "cloned"
    BY <1>1, <1>3, DroppedBy DEF BaseInv, ParentsInv, ParentRecorded
  <2> QED
    BY <1>3, <2>1 DEF ParentsInv, ChildlessPolling, HasChildren, Children
<1> QED
  BY <1>2, <1>3

\* A worker comes to a step of its own through the step before.
LEMMA RunningSince ==
  ASSUME TInv, [Next]_vars, NEW w \in Worker, pc'[w] = "running"
  PROVE  (pc[w] = "running" /\ cur'[w] = cur[w]) \/ Claim(w)
<1>1. Same(w) \/ PopTask(w) \/ Process(w) \/ Crash(w)
  BY OneActs
<1> QED
  BY <1>1
     DEF Same, PopTask, Crash, Process, MarkDequeued, Skip, SpawnAdd, Finish, PollRemote, ConfirmRemote,
         PollFails, Reschedule, DropRecord, Report, ReadFamily, ParentNotFound,
         WriteParent, Acknowledge, GoTo, Release, AfterReport, TInv, TypeOK

LEMMA PollingSince ==
  ASSUME TInv, [Next]_vars, NEW w \in Worker, pc'[w] \in {"polling", "rescheduling", "confirming", "cloning", "cloned"}
  PROVE  \/ pc[w] \in {"polling", "rescheduling", "confirming", "cloning", "cloned"} /\ cur'[w] = cur[w]
         \/ Finish(w) /\ pc'[w] = "polling"
<1>1. Same(w) \/ PopTask(w) \/ Process(w) \/ Crash(w)
  BY OneActs
<1> QED
  BY <1>1
     DEF Same, PopTask, Crash, Process, MarkDequeued, Claim, Skip, SpawnAdd, Finish,
         PollRemote, ConfirmRemote, PollFails, Reschedule, DropRecord, Report, ReadFamily,
         ParentNotFound, WriteParent, Acknowledge, GoTo, Release, AfterReport, TInv,
         TypeOK

LEMMA RunningRecordedStep ==
  ASSUME BaseInv, ParentsInv, [Next]_vars
  PROVE  RunningRecorded'
<1> SUFFICES ASSUME NEW w \in Worker, pc'[w] = "running", log'[cur'[w]] = NoRecord
             PROVE  FALSE
  BY DEF RunningRecorded
<1>1. CASE pc[w] = "running" /\ cur'[w] = cur[w]
  <2>1. cur[w] \in Task /\ \A v \in Worker : cur[v] = cur[w] => v = w
    BY <1>1, CurrentPushed
  <2>2. log[cur[w]] # NoRecord
    BY <1>1 DEF ParentsInv, RunningRecorded
  <2>3. PICK v \in Worker : cur[v] = cur[w] /\ pc[v] = "cloned"
    BY <1>1, <2>1, <2>2, DroppedBy DEF BaseInv
  <2> QED
    BY <1>1, <2>1, <2>3
<1>2. CASE Claim(w)
  <2>1. cur[w] \in Task /\ cur' = cur
    BY <1>2, CurrentPushed DEF Claim
  <2> QED
    BY <1>2, <2>1 DEF Claim, UpdateStatus, Touched, Running, NoRecord
<1> QED
  BY <1>1, <1>2, RunningSince DEF BaseInv

LEMMA ChildlessPollingStep ==
  ASSUME BaseInv, ParentsInv, [Next]_vars
  PROVE  ChildlessPolling'
<1> SUFFICES ASSUME NEW w \in Worker, pc'[w] \in {"polling", "rescheduling", "confirming", "cloning", "cloned"},
                    NEW c \in Task, Parent[c] = cur'[w], enq'[c] # "new"
             PROVE  FALSE
  BY DEF ChildlessPolling, HasChildren, Children
<1>1. CASE pc[w] \in {"polling", "rescheduling", "confirming", "cloning", "cloned"} /\ cur'[w] = cur[w]
  <2>1. cur[w] \in Task /\ \A v \in Worker : cur[v] = cur[w] => v = w
    BY <1>1, CurrentPushed
  <2>2. \A d \in Task : Parent[d] = cur[w] => enq[d] = "new"
    BY <1>1 DEF ParentsInv, ChildlessPolling, HasChildren, Children
  <2>3. PICK v \in Worker : SpawnPush(v, c) \/ Reschedule(v, c)
    BY <1>1, <2>1, <2>2, ChildCreatedBy, TaskAssumption
  <2>4. CASE SpawnPush(v, c)
    BY <1>1, <2>1, <2>4 DEF SpawnPush
  <2>5. CASE Reschedule(v, c)
    BY <1>1, <2>2, <2>5, CurrentPushed DEF Reschedule
  <2> QED
    BY <2>3, <2>4, <2>5
<1>2. CASE Finish(w) /\ pc'[w] = "polling"
  BY <1>2 DEF Finish, GoTo, StatusOfSuccess, HasChildren, Children, enqVars, BaseInv, TInv,
     TypeOK, Completed, Failed, ChildRunning
<1> QED
  BY <1>1, <1>2, PollingSince DEF BaseInv

LEMMA AsksForParentStep ==
  ASSUME BaseInv, ParentsInv, [Next]_vars
  PROVE  AsksForParent'
<1> SUFFICES ASSUME NEW w \in Worker, pc'[w] \in {"parent", "parentWrite"}
             PROVE  Parent[cur'[w]] # NoTask
  BY DEF AsksForParent
<1>1. Same(w) \/ PopTask(w) \/ Process(w) \/ Crash(w)
  BY OneActs DEF BaseInv
<1> QED
  BY <1>1
     DEF Same, PopTask, Crash, Process, MarkDequeued, Claim, Skip, SpawnAdd, Finish,
         PollRemote, ConfirmRemote, PollFails, Reschedule, DropRecord, Report, ReadFamily,
         ParentNotFound, WriteParent, Acknowledge, GoTo, Release, AfterReport, BaseInv,
         TInv, TypeOK, ParentsInv, AsksForParent

LEMMA ParentsInit == Init => ParentsInv
BY TaskAssumption
   DEF Init, ParentsInv, ParentRecorded, RunningRecorded, ChildlessPolling, AsksForParent

LEMMA ParentsStep ==
  ASSUME BaseInv, ParentsInv, [Next]_vars PROVE ParentsInv'
BY ParentRecordedStep, RunningRecordedStep, ChildlessPollingStep, AsksForParentStep
   DEF ParentsInv

LEMMA ParentsAreFound ==
  ASSUME BaseInv, ParentsInv PROVE ParentFound
BY CurrentPushed DEF ParentFound, ParentsInv, ParentRecorded, AsksForParent

\* TaskLog::getById() finds the parent whenever processTask() asks for it, whatever
\* crashed or was replaced before: it throws only when its SELECT fails, so that no
\* worker leaves its message behind for the want of a parent.
THEOREM ParentsFound ==
  ASSUME CommitMayFail = FALSE PROVE Spec => []ParentFound
<1>1. IInv /\ IInv' /\ ParentsInv /\ [Next]_vars => ParentsInv'
  BY ParentsStep DEF BaseInv, IInv
<1>2. IInv /\ ParentsInv => ParentFound
  BY ParentsAreFound DEF BaseInv, IInv
<1> QED
  BY <1>1, <1>2, ParentsInit, Inductive, PTL DEF Spec

-----------------------------------------------------------------------------
(* What stays behind, when no call fails and no process ends on its own.    *)

\* The record of a task that was not started follows its enqueueing, and a
\* worker that is about to claim it.
BeforeStart ==
  \A t \in Task :
    runs[t] = 0 =>
      /\ log[t] \in IF enq[t] = "done" THEN {Enqueued, Dequeued} ELSE {NoRecord}
      /\ log[t] = Dequeued => \E w \in Worker : cur[w] = t /\ pc[w] = "dequeued"

\* Whoever gives up a message does so before the task was started.
GivenUpBeforeStart ==
  \A t \in Task : table[t] = "hidden" => runs[t] = 0 \/ \E w \in Worker : Holds(w, t)

LeftInv == FamilyStarted /\ ParentsInv /\ BeforeStart /\ GivenUpBeforeStart

\* A task whose enqueueing is over is in the queue, with a worker, done with,
\* or in the one state the stuck-task tools look for.
NothingForgotten ==
  \A t \in Task :
    enq[t] = "done" =>
      \/ table[t] \in {"visible", "gone"}
      \/ \E w \in Worker : Holds(w, t)
      \/ Stranded(t)

LEMMA LeftInit == Init => LeftInv
BY ParentsInit
   DEF Init, LogInit, BrokerInit, LeftInv, FamilyStarted, BeforeStart, GivenUpBeforeStart,
       NoRecord, Dequeued

\* A record of a task that was not started is written when its enqueueing ends, and
\* by the worker that has just popped its message.
LEMMA BeforeStartStep ==
  ASSUME Faults = FALSE, MaxCrashes = 0, BaseInv, BaseInv', LeftInv, [Next]_vars
  PROVE  BeforeStart'
<1> USE TaskAssumption
<1> USE DEF BaseInv, TInv, TypeOK, LogTypeOK, BusyHasTask, LeftInv, BeforeStart
<1>1. ASSUME NEW t \in Task, RequestPush(t) \/ RequestAdd(t) PROVE BeforeStart'
  BY <1>1 DEF RequestPush, PushMessage, PushFails, RequestAdd, AddToLog, AddRecord,
     workerVars, Enqueued, Dequeued, NoRecord
<1>2. ASSUME NEW w \in Worker, NEW c \in Task, SpawnPush(w, c) PROVE BeforeStart'
  BY <1>2 DEF SpawnPush, PushMessage, PushFails, workerVars
<1>3. ASSUME NEW w \in Worker, NEW c \in Task, Reschedule(w, c) PROVE BeforeStart'
  BY <1>3 DEF Reschedule, PushMessage, PushFails, GoTo
<1>4. ASSUME NEW w \in Worker, SpawnAdd(w) PROVE BeforeStart'
  BY <1>4 DEF SpawnAdd, AddToLog, AddRecord, Enqueued, Dequeued, NoRecord
<1>5. ASSUME NEW w \in Worker, PopTask(w) \/ PollEmpty(w) PROVE BeforeStart'
  BY <1>5 DEF PopTask, PollEmpty, GoTo, enqVars, workerVars
<1>6. ASSUME NEW w \in Worker, Process(w) PROVE BeforeStart'
  <2> USE DEF GoTo, enqVars
  <2>1. CASE MarkDequeued(w)
    <3>1. /\ \A t \in Task : t # cur[w] => log'[t] = log[t]
          /\ \/ log'[cur[w]] = log[cur[w]]
             \/ log[cur[w]] # NoRecord /\ log'[cur[w]] = Dequeued
      BY <2>1 DEF MarkDequeued, SetStatus, UpdateStatus, Touched, NoRecord, AnyStatus,
         LogStatus, Enqueued, Dequeued, Running, ChildRunning, Completed, Failed,
         Archived, Cancelled
    <3>2. pc'[w] = "dequeued" /\ \A v \in Worker : pc[v] = "dequeued" => pc'[v] = "dequeued"
      BY <2>1 DEF MarkDequeued
    <3> QED
      BY <2>1, <3>1, <3>2 DEF MarkDequeued
  <2>2. CASE Claim(w)
    <3>1. \A t \in Task : t # cur[w] => log'[t] = log[t] /\ runs'[t] = runs[t]
      BY <2>2, UpdateStatusEffect DEF Claim
    <3>2. runs'[cur[w]] # 0
      BY <2>2 DEF Claim
    <3> QED
      BY <2>2, <3>1, <3>2 DEF Claim
  <2>3. CASE Skip(w)
    <3>1. log[cur[w]] # Dequeued
      BY <2>3 DEF Skip, Touched
    <3> QED
      BY <2>3, <3>1 DEF Skip, Release
  <2>4. CASE Report(w) \/ DropRecord(w)
    <3>1. runs[cur[w]] # 0
      BY <2>4 DEF Report, DropRecord, RunInv, StartedOnce, Claimed
    <3>2. \A t \in Task : t # cur[w] => log'[t] = log[t]
      BY <2>4, UpdateStatusEffect DEF Report, SetReport, DropRecord, DeleteById
    <3>3. \A v \in Worker : pc[v] = "dequeued" => pc'[v] = "dequeued"
      BY <2>4 DEF Report, DropRecord
    <3> QED
      BY <2>4, <3>1, <3>2, <3>3 DEF Report, DropRecord
  <2>5. CASE WriteParent(w)
    <3>1. Parent[cur[w]] # NoTask /\ runs[Parent[cur[w]]] # 0
      BY <2>5, CurrentPushed DEF WriteParent, ParentsInv, AsksForParent, FamilyStarted
    <3>2. \A t \in Task : t # Parent[cur[w]] => log'[t] = log[t]
      BY <2>5, UpdateStatusEffect DEF WriteParent, SetStatus
    <3>3. \A v \in Worker : pc[v] = "dequeued" => pc'[v] = "dequeued"
      BY <2>5 DEF WriteParent
    <3> QED
      BY <2>5, <3>1, <3>2, <3>3 DEF WriteParent
  <2>6. CASE Finish(w) \/ PollRemote(w) \/ ConfirmRemote(w) \/ PollFails(w) \/ ReadFamily(w)
             \/ ParentNotFound(w) \/ Acknowledge(w)
    <3>1. /\ UNCHANGED <<log, enq, runs>>
          /\ \A v \in Worker : pc[v] = "dequeued" => pc'[v] = "dequeued" /\ cur'[v] = cur[v]
      BY <2>6 DEF Finish, PollRemote, ConfirmRemote, PollFails, ReadFamily, ParentNotFound, Acknowledge,
         Release
    <3> QED
      BY <3>1
  <2> QED
    BY <1>3, <1>4, <1>6, <2>1, <2>2, <2>3, <2>4, <2>5, <2>6 DEF Process
<1>7. ASSUME NEW w \in Worker, Crash(w) PROVE BeforeStart'
  BY <1>7 DEF Crash
<1>8. CASE RemoteProgress \/ UNCHANGED vars
  BY <1>8 DEF RemoteProgress, vars, workerVars, enqVars
<1> QED
  BY <1>1, <1>2, <1>5, <1>6, <1>7, <1>8 DEF Next

\* A message that becomes hidden is new to its worker; a worker that lets go of its
\* task has acknowledged it or found it taken.
LEMMA GivenUpStep ==
  ASSUME ~CommitMayFail, Faults = FALSE, MaxCrashes = 0, BaseInv, BaseInv', LeftInv,
         [Next]_vars
  PROVE  GivenUpBeforeStart'
<1> USE TaskAssumption, BrokerAssumption
<1> USE DEF BaseInv, TInv, TypeOK, BrokerTypeOK, BusyHasTask, LeftInv, GivenUpBeforeStart,
            Holds
<1>1. ASSUME NEW t \in Task, RequestPush(t) \/ RequestAdd(t) PROVE GivenUpBeforeStart'
  BY <1>1 DEF RequestPush, PushMessage, PushFails, Push, RequestAdd, workerVars, brokerVars
<1>2. ASSUME NEW w \in Worker, NEW c \in Task, SpawnPush(w, c) PROVE GivenUpBeforeStart'
  BY <1>2 DEF SpawnPush, PushMessage, PushFails, Push, workerVars, brokerVars
<1>3. ASSUME NEW w \in Worker, NEW c \in Task, Reschedule(w, c) PROVE GivenUpBeforeStart'
  BY <1>3 DEF Reschedule, PushMessage, PushFails, Push, brokerVars
<1>4. ASSUME NEW w \in Worker, PopTask(w) PROVE GivenUpBeforeStart'
  <2>1. PICK t \in Task : Pop(w, t) /\ cur' = [cur EXCEPT ![w] = t]
    BY <1>4 DEF PopTask
  <2>2. \A u \in prefetch[w] : table[u] = "hidden"
    BY DEF QueueInv, Exclusive
  <2>3. \A u \in Task : table'[u] = table[u] \/ table[u] = "visible"
    BY <2>1, <2>2, PopEffect
  <2>4. prefetch[w] \subseteq prefetch'[w] \cup {t}
    BY <2>1 DEF Pop
  <2>5. \A v \in Worker \ {w} : prefetch'[v] = prefetch[v]
    BY <2>1 DEF Pop
  <2>6. cur[w] = NoTask /\ runs' = runs
    BY <1>4 DEF PopTask
  <2> QED
    BY <2>1, <2>3, <2>4, <2>5, <2>6 DEF RunInv, FreshRow
<1>5. ASSUME NEW w \in Worker, PollEmpty(w) PROVE GivenUpBeforeStart'
  <2>1. UNCHANGED <<prefetch, cur, runs>>
    BY <1>5, EmptyPollEffect DEF PollEmpty, workerVars
  <2>2. \A u \in Task : table'[u] = table[u] \/ table[u] = "visible"
    BY <1>5, EmptyPollEffect DEF PollEmpty
  <2> QED
    BY <2>1, <2>2 DEF RunInv, FreshRow
<1>6. ASSUME NEW w \in Worker, Process(w) PROVE GivenUpBeforeStart'
  <2>1. CASE MarkDequeued(w) \/ SpawnAdd(w) \/ Finish(w) \/ PollRemote(w) \/ ConfirmRemote(w) \/ DropRecord(w)
             \/ Report(w) \/ ReadFamily(w) \/ WriteParent(w)
    BY <2>1 DEF MarkDequeued, SpawnAdd, Finish, PollRemote, ConfirmRemote, DropRecord, Report, ReadFamily,
       WriteParent, brokerVars
  <2>2. CASE Claim(w)
    <3>1. UNCHANGED <<table, prefetch, cur>> /\ \A t \in Task : t # cur[w] => runs'[t] = runs[t]
      BY <2>2 DEF Claim, brokerVars
    <3> QED
      BY <3>1
  <2>3. CASE Skip(w)
    <3>1. runs[cur[w]] = 0
      BY <2>3 DEF Skip, RunInv, FreshCurrent
    <3> QED
      BY <2>3, <3>1 DEF Skip, Release, brokerVars
  <2>4. CASE Acknowledge(w)
    <3>1. table'[cur[w]] # "hidden" /\ \A t \in Task : t # cur[w] => table'[t] = table[t]
      BY <2>4, CurrentPushed DEF Acknowledge, Delete
    <3> QED
      BY <2>4, <3>1 DEF Acknowledge, Delete, Release
  <2>5. ~ParentNotFound(w) /\ ~PollFails(w)
    BY ParentsAreFound DEF ParentNotFound, PollFails, ParentFound
  <2> QED
    BY <1>3, <1>6, <2>1, <2>2, <2>3, <2>4, <2>5 DEF Process
<1>7. ASSUME NEW w \in Worker, Crash(w) PROVE GivenUpBeforeStart'
  BY <1>7 DEF Crash
<1>8. CASE RemoteProgress \/ UNCHANGED vars
  BY <1>8 DEF RemoteProgress, vars, workerVars, brokerVars
<1> QED
  BY <1>1, <1>2, <1>4, <1>5, <1>6, <1>7, <1>8 DEF Next

LEMMA LeftStep ==
  ASSUME ~CommitMayFail, Faults = FALSE, MaxCrashes = 0, BaseInv, BaseInv', LeftInv,
         [Next]_vars
  PROVE  LeftInv'
BY FamilyStep, ParentsStep, BeforeStartStep, GivenUpStep DEF LeftInv, BaseInv

LEMMA LeftIsStranded == ASSUME BaseInv, LeftInv PROVE NothingForgotten
<1> SUFFICES ASSUME NEW t \in Task, enq[t] = "done", table[t] \notin {"visible", "gone"},
                    \A w \in Worker : ~Holds(w, t)
             PROVE  Stranded(t)
  BY DEF NothingForgotten
<1>1. table[t] = "hidden"
  BY DEF BaseInv, TInv, TypeOK, BrokerTypeOK, RowState, QueueInv, RowOfPushed
<1>2. runs[t] = 0
  BY <1>1 DEF LeftInv, GivenUpBeforeStart
<1>3. log[t] = Enqueued
  BY <1>2 DEF LeftInv, BeforeStart, Holds
<1> QED
  BY <1>1, <1>3 DEF Stranded

\* No failing call, and no process that ends on its own: a task is never lost from
\* view. Unless it is in the queue, with a worker or done with, it has not started
\* and its record says ENQUEUED, as the stuck-task scripts ask for by default: no
\* early return of processTask() gives up a task that was started.
THEOREM NothingIsForgotten ==
  ASSUME CommitMayFail = FALSE, Faults = FALSE, MaxCrashes = 0
  PROVE  Spec => []NothingForgotten
<1>1. IInv /\ IInv' /\ LeftInv /\ [Next]_vars => LeftInv'
  BY LeftStep DEF BaseInv, IInv
<1>2. IInv /\ LeftInv => NothingForgotten
  BY LeftIsStranded DEF BaseInv, IInv
<1> QED
  BY <1>1, <1>2, LeftInit, Inductive, PTL DEF Spec
=============================================================================
