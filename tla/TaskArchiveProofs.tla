-------------------------- MODULE TaskArchiveProofs --------------------------
(***************************************************************************)
(* Theorems about archiving beside the workers, for any tasks, workers,    *)
(* crashes and requests, forced or not, when no COMMIT of doPop() fails.   *)
(***************************************************************************)
EXTENDS TaskArchive, TaskOutcomeProofs

archiveAll == <<vars, archiveVars>>

-----------------------------------------------------------------------------
(* The inductive invariant: that of the queue, but for what it says about   *)
(* whose record follows whom.                                               *)

ArchiveInv == BaseInv /\ ArchiveTypeOK /\ VerdictAllowed

\* What archiving does: records become ARCHIVED and nothing else changes.
LEMMA ArchiveEffect ==
  ASSUME TInv, ReadRecords \/ ArchiveRecords \/ UNCHANGED archiveAll
  PROVE  /\ UNCHANGED <<brokerVars, enqVars, workerVars, remote, onlyFailed, runs, crashes>>
         /\ \A t \in Task :
              \/ log'[t] = log[t]
              \/ log[t] # NoRecord /\ log'[t] = Archived
         /\ LogTypeOK'
BY DEF ReadRecords, ArchiveRecords, archiveAll, vars, brokerVars, enqVars, workerVars,
       TInv, TypeOK, LogTypeOK, AnyStatus, LogStatus

\* A worker is about to write a verdict only on a parent that takes its status
\* from its children.
LEMMA VerdictStep ==
  ASSUME TInv, VerdictAllowed, [Next]_vars
  PROVE  VerdictAllowed'
<1> USE DEF TInv, TypeOK, BusyHasTask, VerdictAllowed
<1>1. ASSUME NEW t \in Task, RequestPush(t) \/ RequestAdd(t) PROVE VerdictAllowed'
  BY <1>1 DEF RequestPush, RequestAdd, workerVars
<1>2. ASSUME NEW w \in Worker, NEW c \in Task, SpawnPush(w, c) \/ Reschedule(w, c)
      PROVE  VerdictAllowed'
  BY <1>2 DEF SpawnPush, Reschedule, GoTo, workerVars
<1>3. ASSUME NEW w \in Worker, PopTask(w) \/ PollEmpty(w) \/ Crash(w)
      PROVE  VerdictAllowed'
  BY <1>3 DEF PopTask, PollEmpty, Crash, Release, GoTo, workerVars
<1>4. ASSUME NEW w \in Worker, Process(w) PROVE VerdictAllowed'
  BY <1>2, <1>4
     DEF Process, MarkDequeued, Claim, Skip, SpawnAdd, Finish, PollRemote, ConfirmRemote, PollFails,
         DropRecord, Report, AfterReport, ReadFamily, ParentNotFound, WriteParent,
         Acknowledge, Release, GoTo
<1>5. CASE RemoteProgress \/ UNCHANGED vars
  BY <1>5 DEF RemoteProgress, vars, workerVars
<1> QED
  BY <1>1, <1>2, <1>3, <1>4, <1>5 DEF Next

\* Nothing is archived at the start.
LEMMA ArchiveStart == ArchiveInit => ArchiveInv
BY TInit, IInit, ArchiveAssumption
   DEF ArchiveInit, ArchiveInv, BaseInv, ArchiveTypeOK, TInv, OwnInv

\* Workers keep the invariant although records are archived, and archiving
\* touches nothing it speaks of but records.
LEMMA ArchiveStep ==
  ASSUME ~CommitMayFail, ArchiveInv, [ArchiveNext]_archiveAll
  PROVE  ArchiveInv'
<1> USE DEF ArchiveInv, ArchiveTypeOK
<1>1. CASE Next /\ UNCHANGED archiveVars
  <2>1. TInv' /\ VerdictAllowed'
    BY <1>1, TStep, VerdictStep DEF BaseInv
  <2>2. QueueInv' /\ RunInv'
    BY <1>1, <2>1, HolderStep, RunStep DEF BaseInv
  <2> QED
    BY <1>1, <2>1, <2>2 DEF BaseInv, TInv, archiveVars
<1>2. CASE ReadRecords \/ ArchiveRecords \/ UNCHANGED archiveAll
  <2>1. /\ UNCHANGED <<brokerVars, enqVars, workerVars, remote, onlyFailed, runs, crashes>>
        /\ \A t \in Task :
             \/ log'[t] = log[t]
             \/ log[t] # NoRecord /\ log'[t] = Archived
        /\ LogTypeOK'
    BY <1>2, ArchiveEffect DEF BaseInv
  <2>2. TInv'
    BY <2>1 DEF BaseInv, TInv, TypeOK, BrokerTypeOK, BusyHasTask, ResultDecided,
       brokerVars, enqVars, workerVars
  <2>3. QueueInv' /\ VerdictAllowed'
    BY <2>1 DEF BaseInv, QueueInv, Exclusive, Holds, HeldOnce, RowOfPushed, OneAdder,
       VerdictAllowed, brokerVars, enqVars, workerVars
  <2>4. RecordOfDone'
    BY <2>1 DEF BaseInv, RunInv, RecordOfDone, enqVars, Archived, Enqueued
  <2>5. RunInv'
    BY <2>1, <2>4 DEF BaseInv, RunInv, FreshRow, FreshPrefetch, FreshCurrent,
       StartedOnce, AtMostOnce, NothingLost, brokerVars, enqVars, workerVars
  <2>6. archiving' \in SUBSET Task /\ archives' \in 0..MaxArchives
    BY <1>2, ArchiveAssumption
       DEF ReadRecords, ArchiveRecords, Archivable, archiveAll, archiveVars
  <2> QED
    BY <2>2, <2>3, <2>5, <2>6 DEF BaseInv, TInv
<1> QED
  BY <1>1, <1>2 DEF ArchiveNext

\* The invariant holds under the specification of queue and archiving.
LEMMA ArchiveInductive ==
  ASSUME CommitMayFail = FALSE PROVE ArchiveSpec => []ArchiveInv
<1>1. ArchiveInv /\ [ArchiveNext]_archiveAll => ArchiveInv'
  BY ArchiveStep
<1> QED
  BY <1>1, ArchiveStart, PTL DEF ArchiveSpec, archiveAll

-----------------------------------------------------------------------------
(* The theorems.                                                            *)

\* Whatever is archived, and whenever, no task is executed twice.
THEOREM ArchivedAtMostOnce ==
  ASSUME CommitMayFail = FALSE PROVE ArchiveSpec => []AtMostOnce
BY ArchiveInductive, PTL DEF ArchiveInv, BaseInv, RunInv

\* Archiving breaks none of the queue's promises.
THEOREM PromiseKeptByArchiving ==
  ASSUME CommitMayFail = FALSE PROVE ArchiveSpec => KeepsPromise
<1>1. ArchiveInit => Promise!Init
  <2> SUFFICES ASSUME ArchiveInit PROVE Promise!Init
    OBVIOUS
  <2>1. Stage("none", 0) = "new"
    BY DEF Stage
  <2> QED
    BY <2>1 DEF ArchiveInit, Init, BrokerInit, Promise!Init
<1>2. ASSUME ArchiveInv, ArchiveInv', [ArchiveNext]_archiveAll
      PROVE  [Promise!Next]_<<[t \in Task |-> Stage(table[t], runs[t])], runs>>
  <2>1. CASE Next /\ UNCHANGED archiveVars
    BY <1>2, <2>1, StepKeepsPromise DEF ArchiveInv, BaseInv
  <2>2. CASE ReadRecords \/ ArchiveRecords \/ UNCHANGED archiveAll
    <3>1. UNCHANGED <<table, runs>>
      BY <1>2, <2>2, ArchiveEffect DEF ArchiveInv, BaseInv, brokerVars
    <3> QED
      BY <3>1
  <2> QED
    BY <1>2, <2>1, <2>2 DEF ArchiveNext
<1> QED
  BY <1>1, <1>2, ArchiveInductive, PTL
     DEF ArchiveSpec, archiveAll, KeepsPromise, Promise!Spec

\* A record that is not its children's comes back from the archive by the
\* worker that has its task and by nobody else.
THEOREM RemovedStaysRemoved ==
  ASSUME CommitMayFail = FALSE PROVE ArchiveSpec => StaysArchived
<1> DEFINE Stays ==
      \A t \in Task :
        KeepsOwnStatus(t) /\ log[t] = Archived /\ log'[t] # Archived
          => \E w \in Worker : cur[w] = t
<1>1. ASSUME ArchiveInv, [ArchiveNext]_archiveAll PROVE Stays
  <2>1. CASE Next /\ UNCHANGED archiveVars
    <3> SUFFICES ASSUME NEW t \in Task, KeepsOwnStatus(t), log[t] = Archived,
                        log'[t] # Archived, \A w \in Worker : cur[w] # t
                 PROVE  FALSE
      OBVIOUS
    <3>1. enq[t] = "done"
      BY <1>1 DEF ArchiveInv, BaseInv, RunInv, RecordOfDone, Archived, NoRecord
    <3>2. PICK w \in Worker : pc[w] = "parentWrite" /\ Parent[cur[w]] = t
      BY <1>1, <2>1, <3>1, LogWriters DEF ArchiveInv, BaseInv
    <3>3. cur[w] \in Task
      BY <1>1, <3>2 DEF ArchiveInv, BaseInv, TInv, TypeOK, BusyHasTask
    <3>4. t \in MasterStatus
      BY <3>2, <3>3 DEF KeepsOwnStatus, Children
    <3> QED
      BY <1>1, <3>2, <3>4 DEF ArchiveInv, VerdictAllowed
  <2>2. CASE ReadRecords \/ ArchiveRecords \/ UNCHANGED archiveAll
    BY <1>1, <2>2, ArchiveEffect DEF ArchiveInv, BaseInv
  <2> QED
    BY <1>1, <2>1, <2>2 DEF ArchiveNext
<1>2. ArchiveInv /\ [ArchiveNext]_archiveAll => [Stays]_archiveAll
  BY <1>1
<1> QED
  BY <1>2, ArchiveInductive, PTL DEF ArchiveSpec, archiveAll, StaysArchived

\* Archiving leaves to everybody what it knew.
LEMMA ArchiveKeepsOutcome ==
  ASSUME BaseInv, OutcomeInv, ReadRecords \/ ArchiveRecords \/ UNCHANGED archiveAll
  PROVE  OutcomeInv'
<1>1. /\ UNCHANGED <<table, pc, cur>>
      /\ \A t \in Task :
           \/ log'[t] = log[t]
           \/ log[t] # NoRecord /\ log'[t] = Archived
  BY ArchiveEffect DEF BaseInv, brokerVars, workerVars
<1>2. \A t : HasSuccessor(t)' <=> HasSuccessor(t)
  BY <1>1 DEF HasSuccessor
<1>3. \A t \in Task : Reported(t) => Reported(t)'
  BY <1>1, <1>2 DEF Reported
<1>4. ASSUME NEW w \in Worker PROVE Knows(w)'
  <2>1. Knows(w)
    BY DEF OutcomeInv
  <2>2. CASE pc[w] = "idle"
    BY <1>1, <2>2 DEF Knows, Executing, AtWork
  <2>3. CASE pc[w] # "idle"
    <3>1. cur[w] \in Task
      BY <2>3 DEF BaseInv, TInv, TypeOK, BusyHasTask
    <3>2. log[cur[w]] # NoRecord => log'[cur[w]] # NoRecord
      BY <1>1, <3>1 DEF Archived, NoRecord
    <3>3. HasSuccessor(cur[w]) => HasSuccessor(cur[w])'
      BY <1>1 DEF HasSuccessor
    <3>4. Reported(cur[w]) => Reported(cur[w])'
      BY <1>1, <3>1 DEF Reported, HasSuccessor
    <3> QED
      BY <1>1, <2>1, <3>2, <3>3, <3>4 DEF Knows, Reported, HasSuccessor
  <2> QED
    BY <2>2, <2>3
<1>5. Acked'
  BY <1>1, <1>3 DEF OutcomeInv, Acked, Reported, HasSuccessor
<1> QED
  BY <1>4, <1>5 DEF OutcomeInv

\* Without failing calls an acknowledged task has a status of its own, was
\* archived, or was replaced by a clone.
THEOREM AcknowledgedIsAccountedFor ==
  ASSUME CommitMayFail = FALSE PROVE ArchiveSpec => []AccountedFor
<1>1. CASE Faults = FALSE
  <2>1. ArchiveInit => OutcomeInv
    BY OutcomeInit DEF ArchiveInit
  <2>2. ASSUME ArchiveInv, ArchiveInv', OutcomeInv, [ArchiveNext]_archiveAll
        PROVE  OutcomeInv'
    <3>1. CASE Next
      BY <1>1, <2>2, <3>1, OutcomeStep DEF ArchiveInv
    <3>2. CASE ReadRecords \/ ArchiveRecords \/ UNCHANGED archiveAll
      BY <2>2, <3>2, ArchiveKeepsOutcome DEF ArchiveInv
    <3> QED
      BY <2>2, <3>1, <3>2 DEF ArchiveNext
  <2>3. OutcomeInv => AccountedFor
    BY DEF OutcomeInv, Acked, Reported, HasSuccessor, Outcome, AccountedFor
  <2> QED
    BY <2>1, <2>2, <2>3, ArchiveInductive, PTL DEF ArchiveSpec, archiveAll
<1>2. CASE Faults = TRUE
  <2>1. AccountedFor
    BY <1>2 DEF AccountedFor
  <2> QED
    BY <2>1, PTL
<1> QED
  BY <1>1, <1>2, TaskAssumption

\* A record that was archived does not say COMPLETED, and the workers make one
\* COMPLETED only if the remote task did something else than fail: archiving
\* makes no synchroniser complete.
THEOREM RemoteTruthfulInArchive ==
  ASSUME Faults = FALSE PROVE ArchiveSpec => []RemoteReported
<1>1. ArchiveInit => RInv
  BY TInit, TaskAssumption
     DEF ArchiveInit, Init, RInv, FailedOnly, RemoteAnswered, RemoteReported, LogInit,
         NoRecord, Completed
<1>2. ASSUME RInv, [ArchiveNext]_archiveAll PROVE RInv'
  <2>1. CASE Next
    BY <1>2, <2>1, TStep, RemoteStep DEF RInv
  <2>2. CASE ReadRecords \/ ArchiveRecords \/ UNCHANGED archiveAll
    <3>1. /\ UNCHANGED <<brokerVars, enqVars, workerVars, remote, onlyFailed, runs, crashes>>
          /\ \A t \in Task :
               \/ log'[t] = log[t]
               \/ log[t] # NoRecord /\ log'[t] = Archived
          /\ LogTypeOK'
      BY <1>2, <2>2, ArchiveEffect DEF RInv
    <3>2. TInv'
      BY <1>2, <3>1 DEF RInv, TInv, TypeOK, BrokerTypeOK, BusyHasTask, ResultDecided,
         brokerVars, enqVars, workerVars
    <3>3. FailedOnly' /\ RemoteAnswered'
      BY <1>2, <3>1 DEF RInv, FailedOnly, RemoteAnswered, workerVars, Children
    <3>4. RemoteReported'
      BY <1>2, <3>1, TaskAssumption DEF RInv, RemoteReported, Archived, Completed, Children
    <3> QED
      BY <3>2, <3>3, <3>4 DEF RInv
  <2> QED
    BY <1>2, <2>1, <2>2 DEF ArchiveNext
<1> QED
  BY <1>1, <1>2, PTL DEF ArchiveSpec, archiveAll, RInv
=============================================================================
