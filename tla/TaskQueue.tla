------------------------------ MODULE TaskQueue ------------------------------
(***************************************************************************)
(* The life of a task: web requests and running tasks enqueue, any number  *)
(* of worker processes pop, claim, run, report and acknowledge.  Processes *)
(* meet in the queue table and in the task log only, and each statement    *)
(* they send to one of the two is a step: whatever happens between two     *)
(* statements of a worker, its own end included, is an interleaving here.  *)
(*                                                                         *)
(* pc[w] names what worker w does next with the task cur[w]:               *)
(*   idle         pop from the queue                  (Worker::run)        *)
(*   popped       record that it was dequeued         (Queue::dequeue)     *)
(*   dequeued     claim it                            (processTask ...)    *)
(*   running      execute it                                               *)
(*   polling      ask for the status of the remote task                    *)
(*   rescheduling enqueue a clone: the remote task was in progress         *)
(*   confirming   it was not: ask again whether it failed                  *)
(*   cloning      add the clone it has pushed to the task log              *)
(*   cloned       drop the record of the task the clone replaces           *)
(*   reporting    save the report and the final status                     *)
(*   parent       read the parent's record and those of its children       *)
(*   parentWrite  save the verdict on the parent                           *)
(*   acking       delete the message                                       *)
(***************************************************************************)
EXTENDS TaskLog, RdsQueueBroker

CONSTANT MaxCrashes     \* bound on the worker processes that end and restart

ASSUME CrashAssumption == MaxCrashes \in Nat

VARIABLES
  enq,       \* enq[t]: how far Queue::enqueue() has come for t
  adding,    \* adding[w]: the task w has pushed and not yet added to the log
  pc, cur,   \* what w does next, and with which task
  res,       \* res[w]: the status w is about to write
  remote,    \* the category of the remote record: what getRemoteStatus() answers
  onlyFailed,  \* history: all the remote record has ever done is fail
  runs,      \* history: how many times t was started
  crashes    \* how many worker processes have ended

workerVars == <<pc, cur, res>>
enqVars == <<enq, adding>>
vars == <<log, table, prefetch, enq, adding, pc, cur, res, remote, onlyFailed,
          runs, crashes>>

NoResult == "no_result"
EnqState == {"new", "pushed", "done", "failed"}

\* What a remote TAO answers; "in_progress" stands for "created" as well.
RemoteStatus == {"in_progress", "completed", "failed", "archived"}

\* The states of a worker that has claimed its task.
Claimed == {"running", "polling", "rescheduling", "confirming", "cloning",
            "cloned", "reporting", "parent", "parentWrite", "acking"}
Step == Claimed \cup {"idle", "popped", "dequeued"}

TypeOK ==
  /\ LogTypeOK
  /\ BrokerTypeOK
  /\ enq \in [Task -> EnqState]
  /\ adding \in [Worker -> Task \cup {NoTask}]
  /\ pc \in [Worker -> Step]
  /\ cur \in [Worker -> Task \cup {NoTask}]
  /\ res \in [Worker -> {NoResult, Completed, Failed, ChildRunning}]
  /\ remote \in RemoteStatus
  /\ onlyFailed \in BOOLEAN
  /\ runs \in [Task -> Nat]
  /\ crashes \in 0..MaxCrashes

Init ==
  /\ LogInit
  /\ BrokerInit
  /\ enq = [t \in Task |-> "new"]
  /\ adding = [w \in Worker |-> NoTask]
  /\ pc = [w \in Worker |-> "idle"]
  /\ cur = [w \in Worker |-> NoTask]
  /\ res = [w \in Worker |-> NoResult]
  /\ remote = "in_progress"
  /\ onlyFailed = TRUE
  /\ runs = [t \in Task |-> 0]
  /\ crashes = 0

-----------------------------------------------------------------------------
(* Enqueueing: Queue::enqueue() pushes the message first and only then adds *)
(* the task to the log.                                                     *)

PushMessage(t) ==
  /\ enq[t] = "new"
  /\ Push(t)
  /\ enq' = [enq EXCEPT ![t] = "pushed"]

\* The push throws: enqueue() logs it and returns FALSE.
PushFails(t) ==
  /\ Faults
  /\ enq[t] = "new"
  /\ enq' = [enq EXCEPT ![t] = "failed"]
  /\ UNCHANGED brokerVars

AddToLog(t) ==
  /\ enq[t] = "pushed"
  /\ AddRecord(t)
  /\ enq' = [enq EXCEPT ![t] = "done"]

\* A web request or a script creates a task of its own ...
RequestPush(t) ==
  /\ Parent[t] = NoTask /\ t \notin Clone
  /\ PushMessage(t) \/ PushFails(t)
  /\ UNCHANGED <<log, adding, workerVars, remote, onlyFailed, runs, crashes>>

\* ... and adds it to the log.
RequestAdd(t) ==
  /\ \A w \in Worker : adding[w] # t
  /\ AddToLog(t)
  /\ UNCHANGED <<brokerVars, adding, workerVars, remote, onlyFailed, runs, crashes>>

\* The task w is running creates a child task.
SpawnPush(w, c) ==
  /\ pc[w] = "running"
  /\ adding[w] = NoTask
  /\ Parent[c] = cur[w] /\ c \notin Clone
  /\ \/ PushMessage(c) /\ adding' = [adding EXCEPT ![w] = c]
     \/ PushFails(c) /\ UNCHANGED adding
  /\ UNCHANGED <<log, workerVars, remote, onlyFailed, runs, crashes>>

\* w adds the child, or the clone, it has pushed.
SpawnAdd(w) ==
  /\ adding[w] # NoTask
  /\ AddToLog(adding[w])
  /\ adding' = [adding EXCEPT ![w] = NoTask]
  /\ pc' = [pc EXCEPT ![w] = IF @ = "cloning" THEN "cloned" ELSE @]
  /\ UNCHANGED <<brokerVars, cur, res, remote, onlyFailed, runs, crashes>>

-----------------------------------------------------------------------------
(* The worker. *)

GoTo(w, step) == pc' = [pc EXCEPT ![w] = step]

\* The worker is done with its task, or gives it up without acknowledging.
Release(w) ==
  /\ GoTo(w, "idle")
  /\ cur' = [cur EXCEPT ![w] = NoTask]
  /\ res' = [res EXCEPT ![w] = NoResult]

PopTask(w) ==
  /\ pc[w] = "idle"
  /\ \E t \in Task :
       /\ Pop(w, t)
       /\ cur' = [cur EXCEPT ![w] = t]
  /\ GoTo(w, "popped")
  /\ UNCHANGED <<log, enqVars, res, remote, onlyFailed, runs, crashes>>

\* A poll that returns no task; when nothing is visible it changes nothing.
PollEmpty(w) ==
  /\ pc[w] = "idle"
  /\ PopNothing(w)
  /\ UNCHANGED <<log, enqVars, workerVars, remote, onlyFailed, runs, crashes>>

\* The rest of Queue::dequeue(): whatever the status was.
MarkDequeued(w) ==
  /\ pc[w] = "popped"
  /\ SetStatus(cur[w], Dequeued)
  /\ GoTo(w, "dequeued")
  /\ UNCHANGED <<brokerVars, enqVars, cur, res, remote, onlyFailed, runs, crashes>>

\* Mutant of Claim: nobody looks at the number of touched rows.
ClaimUnchecked(w) ==
  /\ pc[w] = "dequeued"
  /\ UpdateStatus(cur[w], Running, {Dequeued})
  /\ runs' = [runs EXCEPT ![cur[w]] = @ + 1]
  /\ GoTo(w, "running")
  /\ UNCHANGED <<brokerVars, enqVars, cur, res, remote, onlyFailed, crashes>>

\* DEQUEUED -> RUNNING touched the record: the task is this worker's.
Claim(w) ==
  /\ pc[w] = "dequeued"
  /\ Touched(cur[w], {Dequeued}) # {}
  /\ UpdateStatus(cur[w], Running, {Dequeued})
  /\ runs' = [runs EXCEPT ![cur[w]] = @ + 1]
  /\ GoTo(w, "running")
  /\ UNCHANGED <<brokerVars, enqVars, cur, res, remote, onlyFailed, crashes>>

\* Mutant of Skip: what is left to the other worker is acknowledged.
SkipAndAcknowledge(w) ==
  /\ pc[w] = "dequeued"
  /\ Touched(cur[w], {Dequeued}) = {} \/ Faults
  /\ Delete(cur[w])
  /\ Release(w)
  /\ UNCHANGED <<log, enqVars, remote, onlyFailed, runs, crashes>>

\* No record was touched, or the statement failed: the worker returns
\* STATUS_UNKNOWN and does not acknowledge the message.
Skip(w) ==
  /\ pc[w] = "dequeued"
  /\ Touched(cur[w], {Dequeued}) = {} \/ Faults
  /\ Release(w)
  /\ UNCHANGED <<log, brokerVars, enqVars, remote, onlyFailed, runs, crashes>>

\* A task names the children it creates (addChildId), enqueued or not.
HasChildren(t) == \E c \in Children(t) : enq[c] # "new"

\* The status a task that did not fail starts with.
StatusOfSuccess(t) == IF HasChildren(t) THEN ChildRunning ELSE Completed

\* Mutant of Finish: a task that throws is acknowledged straight away.
FinishWithoutReport(w) ==
  /\ pc[w] = "running"
  /\ adding[w] = NoTask
  /\ \E s \in {Failed, StatusOfSuccess(cur[w])} :
       /\ res' = [res EXCEPT ![w] = s]
       /\ GoTo(w, IF s = Failed THEN "acking" ELSE "reporting")
  /\ UNCHANGED <<log, brokerVars, enqVars, cur, remote, onlyFailed, runs, crashes>>

\* The task returned a report, with or without an error in it, or threw.
Finish(w) ==
  /\ pc[w] = "running"
  /\ adding[w] = NoTask
  /\ \E s \in {Failed, StatusOfSuccess(cur[w])} :
       /\ res' = [res EXCEPT ![w] = s]
       /\ GoTo(w, IF cur[w] \in Remote /\ s = Completed
                  THEN "polling" ELSE "reporting")
  /\ UNCHANGED <<log, brokerVars, enqVars, cur, remote, onlyFailed, runs, crashes>>

\* The first request decides whether the task has to be rescheduled.  (Model
\* bound: the clones of Clone; a worker that finds none left asks again.)
PollRemote(w) ==
  /\ pc[w] = "polling"
  /\ \/ /\ remote = "in_progress"
        /\ \E c \in Clone : enq[c] = "new" /\ Parent[c] = Parent[cur[w]]
        /\ GoTo(w, "rescheduling")
     \/ /\ remote # "in_progress"
        /\ GoTo(w, "confirming")
  /\ UNCHANGED <<log, brokerVars, enqVars, cur, res, remote, onlyFailed, runs, crashes>>

\* Mutant of ConfirmRemote: that the remote task failed goes unnoticed.
ConfirmNothing(w) ==
  /\ pc[w] = "confirming"
  /\ GoTo(w, "reporting")
  /\ UNCHANGED <<log, brokerVars, enqVars, cur, res, remote, onlyFailed, runs, crashes>>

\* The second request, whatever the first one answered: FAILED, if it says so,
\* and COMPLETED for anything else.
ConfirmRemote(w) ==
  /\ pc[w] = "confirming"
  /\ res' = [res EXCEPT ![w] = IF remote = "failed" THEN Failed ELSE @]
  /\ GoTo(w, "reporting")
  /\ UNCHANGED <<log, brokerVars, enqVars, cur, remote, onlyFailed, runs, crashes>>

\* Mutant of Reschedule: the record is dropped without a clone.
RescheduleNothing(w, c) ==
  /\ pc[w] = "rescheduling"
  /\ GoTo(w, "cloned")
  /\ UNCHANGED <<log, brokerVars, enqVars, cur, res, remote, onlyFailed, runs, crashes>>

\* Mutant of Reschedule: the worker goes on polling after it pushed a clone.
RescheduleAndPoll(w, c) ==
  /\ pc[w] = "rescheduling" /\ adding[w] = NoTask
  /\ c \in Clone /\ Parent[c] = Parent[cur[w]]
  /\ PushMessage(c)
  /\ adding' = [adding EXCEPT ![w] = c]
  /\ GoTo(w, "polling")
  /\ UNCHANGED <<log, cur, res, remote, onlyFailed, runs, crashes>>

\* The remote task was still in progress: a clone c of the task, with an id
\* of its own, is enqueued.  If enqueue() returns FALSE there is no clone.
Reschedule(w, c) ==
  /\ pc[w] = "rescheduling"
  /\ c \in Clone /\ Parent[c] = Parent[cur[w]]
  /\ \/ /\ PushMessage(c)
        /\ adding' = [adding EXCEPT ![w] = c]
        /\ GoTo(w, "cloning")
     \/ /\ PushFails(c)
        /\ GoTo(w, "reporting")
        /\ UNCHANGED adding
  /\ UNCHANGED <<log, cur, res, remote, onlyFailed, runs, crashes>>

\* getRemoteStatus() throws: run() logs it and goes on with the next task.
PollFails(w) ==
  /\ Faults
  /\ pc[w] \in {"polling", "confirming"}
  /\ Release(w)
  /\ UNCHANGED <<log, brokerVars, enqVars, remote, onlyFailed, runs, crashes>>

AfterReport(t) == IF Parent[t] = NoTask THEN "acking" ELSE "parent"

\* The record of a task that was replaced by its clone is deleted ...
DropRecord(w) ==
  /\ pc[w] = "cloned"
  /\ DeleteById(cur[w])
  /\ GoTo(w, AfterReport(cur[w]))
  /\ UNCHANGED <<brokerVars, enqVars, cur, res, remote, onlyFailed, runs, crashes>>

\* ... any other task gets its report and its status.
Report(w) ==
  /\ pc[w] = "reporting"
  /\ SetReport(cur[w], res[w])
  /\ GoTo(w, AfterReport(cur[w]))
  /\ UNCHANGED <<brokerVars, enqVars, cur, res, remote, onlyFailed, runs, crashes>>

\* Mutant of ReadFamily: a parent's master status is ignored.
ReadFamilyOfMaster(w) ==
  /\ pc[w] = "parent"
  /\ LET p == Parent[cur[w]] IN
       /\ log[p] # NoRecord /\ ChildrenProcessed(p)
       /\ res' = [res EXCEPT ![w] = ParentVerdict(p)]
       /\ GoTo(w, "parentWrite")
  /\ UNCHANGED <<log, brokerVars, enqVars, cur, remote, onlyFailed, runs, crashes>>

\* getById() finds the parent and, unless the parent keeps a status of its
\* own, updateParent() reads the children and decides.  A failed SELECT
\* finds no children.
ReadFamily(w) ==
  /\ pc[w] = "parent"
  /\ LET p == Parent[cur[w]] IN
       /\ log[p] # NoRecord
       /\ \/ /\ p \notin MasterStatus
             /\ ChildrenProcessed(p)
             /\ res' = [res EXCEPT ![w] = ParentVerdict(p)]
             /\ GoTo(w, "parentWrite")
          \/ /\ p \in MasterStatus \/ ~ChildrenProcessed(p) \/ Faults
             /\ GoTo(w, "acking")
             /\ UNCHANGED res
  /\ UNCHANGED <<log, brokerVars, enqVars, cur, remote, onlyFailed, runs, crashes>>

\* getById() throws NotFound, which nothing below run() catches.
ParentNotFound(w) ==
  /\ pc[w] = "parent"
  /\ log[Parent[cur[w]]] = NoRecord \/ Faults
  /\ Release(w)
  /\ UNCHANGED <<log, brokerVars, enqVars, remote, onlyFailed, runs, crashes>>

WriteParent(w) ==
  /\ pc[w] = "parentWrite"
  /\ SetStatus(Parent[cur[w]], res[w])
  /\ GoTo(w, "acking")
  /\ UNCHANGED <<brokerVars, enqVars, cur, res, remote, onlyFailed, runs, crashes>>

Acknowledge(w) ==
  /\ pc[w] = "acking"
  /\ Delete(cur[w])
  /\ Release(w)
  /\ UNCHANGED <<log, enqVars, remote, onlyFailed, runs, crashes>>

\* The process of w ends (killed, out of memory, a PHP Error no catch clause
\* takes, or a stop between two tasks) and another one takes its place.
Crash(w) ==
  /\ crashes < MaxCrashes
  /\ crashes' = crashes + 1
  /\ ForgetPrefetched(w)
  /\ Release(w)
  /\ adding' = [adding EXCEPT ![w] = NoTask]
  /\ enq' = [t \in Task |-> IF t = adding[w] THEN "done" ELSE enq[t]]
  /\ UNCHANGED <<log, remote, onlyFailed, runs>>

\* The remote record changes.  Its TAO may archive it at any time, bring it
\* back, and judge a task again (see TaskArchive and the run stale_verdict).
RemoteProgress ==
  /\ Remote # {}
  /\ remote' \in RemoteStatus \ {remote}
  /\ onlyFailed' = (onlyFailed /\ remote = "in_progress" /\ remote' = "failed")
  /\ UNCHANGED <<log, brokerVars, enqVars, workerVars, runs, crashes>>

-----------------------------------------------------------------------------
\* What w does with the task it holds, whatever the others do.
Process(w) ==
  \/ MarkDequeued(w) \/ Claim(w) \/ Skip(w)
  \/ SpawnAdd(w) \/ Finish(w)
  \/ PollRemote(w) \/ ConfirmRemote(w) \/ PollFails(w)
  \/ \E c \in Task : Reschedule(w, c)
  \/ DropRecord(w) \/ Report(w)
  \/ ReadFamily(w) \/ ParentNotFound(w) \/ WriteParent(w) \/ Acknowledge(w)

Next ==
  \/ \E t \in Task : RequestPush(t) \/ RequestAdd(t)
  \/ \E w \in Worker :
       \/ PopTask(w) \/ PollEmpty(w)
       \/ Process(w)
       \/ \E c \in Task : SpawnPush(w, c)
       \/ Crash(w)
  \/ RemoteProgress

Spec == Init /\ [][Next]_vars

\* Every process that is scheduled goes on: a worker polls and processes, a
\* request that pushed goes on to add.  Nothing obliges anyone to create a
\* task, a process to crash, or the remote side to do anything.
Fairness ==
  /\ \A t \in Task : WF_vars(RequestAdd(t))
  /\ \A w \in Worker : WF_vars(PopTask(w) \/ PollEmpty(w)) /\ WF_vars(Process(w))

FairSpec == Spec /\ Fairness

-----------------------------------------------------------------------------
(* Correctness. *)

\* w has t in its memory.
Holds(w, t) == t \in prefetch[w] \/ cur[w] = t

\* No task is executed twice, by one worker or by two: an execution is a
\* claim that touched the record (Worker::processTask).
AtMostOnce == \A t \in Task : runs[t] <= 1

\* A message in the memory of a worker is invisible to all the others, and
\* in the memory of that worker only: what doPop() hides it for.
Exclusive ==
  \A w \in Worker, t \in Task :
    Holds(w, t) =>
      /\ table[t] = "hidden"
      /\ \A v \in Worker \ {w} : ~Holds(v, t)

\* A message is deleted only when its task was executed, or could never be:
\* no early return, error path or crash of a worker loses a task that was
\* not started (Queue::acknowledge and unserializeTask are the only ends).
NothingLost ==
  \A t \in Task : table[t] = "gone" => t \in Invalid \/ runs[t] > 0

\* What the stuck-task tools rely on when they push a task back that is still
\* ENQUEUED: it has not started, and its message is there unless it could
\* not be unserialized (StuckTaskQuery, RestartStuckTaskService).
EnqueuedIsRestartable ==
  \A t \in Task :
    log[t] = Enqueued =>
      /\ runs[t] = 0
      /\ t \in Invalid \/ table[t] \in {"visible", "hidden"}

\* Without failing calls an acknowledged task has a report in the log, or it
\* was replaced by a clone that is enqueued in its turn.
AckedIsReported ==
  ~Faults =>
    \A t \in Task :
      table[t] = "gone" /\ t \notin Invalid =>
        \/ log[t] \in {Completed, Failed, ChildRunning}
        \/ /\ log[t] = NoRecord /\ t \in Remote
           /\ \E c \in Clone \ {t} : Parent[c] = Parent[t] /\ table[c] # "none"

\* The tasks whose status is theirs alone: no child task may overwrite it.
KeepsOwnStatus(t) == Children(t) = {} \/ t \in MasterStatus

\* The steps the record of such a task may take, in any interleaving: forward
\* only, one worker's steps, and COMPLETED and FAILED are final (the writers
\* are Queue::dequeue, Worker::processTask and TaskLog::updateParent).
Lifecycle ==
  {<<NoRecord, Enqueued>>, <<Enqueued, Dequeued>>, <<Dequeued, Running>>}
    \cup ({Running} \X {Completed, Failed, ChildRunning, NoRecord})

OwnStatusMovesForward ==
  [][\A t \in Task : KeepsOwnStatus(t) /\ log'[t] # log[t]
                       => <<log[t], log'[t]>> \in Lifecycle]_vars

\* How far a task has come whose message has the given row and that was
\* started n times, as those see it who do not look at the tables.
Stage(row, n) ==
  CASE row = "none"                          -> "new"
    [] row \in {"visible", "hidden"} /\ n = 0 -> "accepted"
    [] row \in {"visible", "hidden"} /\ n > 0 -> "started"
    [] row = "gone" /\ n > 0                  -> "settled"
    [] row = "gone" /\ n = 0                  -> "discarded"

Promise ==
  INSTANCE QueuePromise WITH stage <- [t \in Task |-> Stage(table[t], runs[t])],
                             starts <- runs

\* The queue, its workers and the log together keep the queue's promise:
\* every step of theirs is a step of QueuePromise or changes nothing there.
KeepsPromise == Promise!Spec

\* A remote synchroniser is not reported COMPLETED as long as all the remote
\* task has done is to run and to fail, whatever is answered when (the two
\* requests of Worker::processTask).  Any other answer counts as success.
RemoteReported ==
  \A t \in Remote : Children(t) = {} /\ log[t] = Completed => ~onlyFailed

\* The synchronisers that were created for a parent, clones left out.
Originals(p) == {t \in Remote \ Clone : Parent[t] = p}

\* A worker that executes its task or asks how the remote one is.
AtWork == {"running", "polling", "rescheduling", "confirming"}

\* A synchroniser and its clones, which take turns, are never executed by two
\* workers at once, although the clone is in the queue before the task it
\* replaces has left it (Worker::processTask).
OneOfTheChain ==
  \A v, w \in Worker :
    /\ v # w /\ {pc[v], pc[w]} \subseteq AtWork
    /\ {cur[v], cur[w]} \subseteq Remote /\ Parent[cur[v]] = Parent[cur[w]]
    => Cardinality(Originals(Parent[cur[w]])) > 1

\* The children of p that were enqueued.
EnqueuedChildren(p) == {c \in Children(p) : enq[c] \in {"pushed", "done"}}

\* Every child has been processed, and all the messages are acknowledged.
FamilyDone(p) ==
  /\ EnqueuedChildren(p) # {}
  /\ \A t \in EnqueuedChildren(p) \cup {p} : table[t] = "gone"
  /\ \A c \in EnqueuedChildren(p) : log[c] # ChildRunning

\* When every child has been processed the parent is FAILED if one of them
\* failed and COMPLETED if none did (TaskLog::updateParent).
FamilyVerdict ==
  \A p \in Task \ MasterStatus :
    FamilyDone(p) =>
      log[p] = IF \E c \in Children(p) : log[c] = Failed
               THEN Failed ELSE Completed

\* A worker gives a task up only when it was executed by another worker.
SkippedOnlyIfClaimed ==
  [][\A w \in Worker : pc[w] = "dequeued" /\ pc'[w] = "idle" /\ crashes' = crashes
                         => runs[cur[w]] > 0]_vars

\* The message is hidden, nobody holds it and the record still says ENQUEUED:
\* what the stuck-task tools look for.
Stranded(t) ==
  /\ table[t] = "hidden"
  /\ log[t] = Enqueued
  /\ \A w \in Worker : ~Holds(w, t)

\* The remote task is not in progress for ever.
RemoteEnds == <>[](remote # "in_progress")

\* Without crashes and failing calls every message that was pushed ends up
\* deleted or in the one state the stuck-task tools know how to find.
EventuallyHandled ==
  RemoteEnds =>
  \A t \in Task : (enq[t] = "pushed") ~> (table[t] = "gone" \/ Stranded(t))

\* A synchroniser that has run once is rescheduled as long as the remote task
\* is in progress, and in the end one of its clones tells how that one ended.
RemoteSettles ==
  RemoteEnds =>
  \A t \in Remote :
    (runs[t] > 0) ~> (\E c \in Remote : log[c] \in {Completed, Failed})
=============================================================================
