----------------------------- MODULE TaskArchive -----------------------------
(***************************************************************************)
(* Users and administrators archive records while the workers go on.  The  *)
(* records are read by one statement, their statuses are judged by what    *)
(* was read, and archived by another that does not look at them again.     *)
(* Workers, for their part, never ask whether a record is archived.        *)
(***************************************************************************)
EXTENDS TaskQueue

CONSTANTS
  Forced,         \* TRUE: archived by the script, with --force
  MaxArchives     \* bound on the requests to archive

ASSUME ArchiveAssumption == Forced \in BOOLEAN /\ MaxArchives \in Nat

VARIABLES
  archiving,      \* the records that were read and may be archived
  archives        \* how many requests there were

archiveVars == <<archiving, archives>>

ArchiveTypeOK ==
  /\ TypeOK
  /\ archiving \in SUBSET Task
  /\ archives \in 0..MaxArchives

ArchiveInit ==
  /\ Init
  /\ archiving = {}
  /\ archives = 0

\* What a user may pick, and assertCanArchive() lets through: a record that is
\* not archived yet and, unless forced, not in progress.
Archivable ==
  {t \in Task : /\ log[t] \notin {NoRecord, Archived}
                /\ Forced \/ Category(log[t]) # "in_progress"}

\* One record, or several, are read and judged.
ReadRecords ==
  /\ archiving = {}
  /\ archives < MaxArchives
  /\ archiving' \in (SUBSET Archivable) \ {{}}
  /\ archives' = archives + 1
  /\ UNCHANGED vars

\* Mutant of ArchiveRecords: the records are deleted instead.
ArchiveByDeleting ==
  /\ archiving # {}
  /\ archiving' = {}
  /\ log' = [t \in Task |-> IF t \in archiving THEN NoRecord ELSE log[t]]
  /\ UNCHANGED <<brokerVars, enqVars, workerVars, remote, onlyFailed, runs, crashes, archives>>

\* Mutant of ArchiveRecords: the messages of the tasks are deleted as well.
ArchiveWithMessages ==
  /\ archiving # {}
  /\ archiving' = {}
  /\ log' = [t \in Task |-> IF t \in archiving THEN Archived ELSE log[t]]
  /\ table' = [t \in Task |-> IF t \in archiving THEN "gone" ELSE table[t]]
  /\ UNCHANGED <<prefetch, enqVars, workerVars, remote, onlyFailed, runs, crashes, archives>>

\* UPDATE ... WHERE id IN (...): whatever has become of them.  A failed one is
\* rolled back.
ArchiveRecords ==
  /\ archiving # {}
  /\ archiving' = {}
  /\ \/ log' = [t \in Task |-> IF t \in archiving /\ log[t] # NoRecord
                               THEN Archived ELSE log[t]]
     \/ Faults /\ UNCHANGED log
  /\ UNCHANGED <<brokerVars, enqVars, workerVars, remote, onlyFailed, runs, crashes, archives>>

ArchiveNext == (Next /\ UNCHANGED archiveVars) \/ ReadRecords \/ ArchiveRecords

ArchiveSpec == ArchiveInit /\ [][ArchiveNext]_<<vars, archiveVars>>

\* Nobody has to archive anything; what was begun is finished.
ArchiveFairSpec ==
  /\ ArchiveSpec
  /\ Fairness
  /\ WF_<<vars, archiveVars>>(ArchiveRecords)

-----------------------------------------------------------------------------
(* Correctness, besides KeepsPromise: archiving loses no task and executes  *)
(* none twice, whatever is archived and when.                               *)

\* A record comes back from the archive by the worker that has its task and by
\* nobody else: what was removed after its task had been processed stays
\* removed.  Not so for parents whose status is that of their children.
StaysArchived ==
  [][\A t \in Task :
       KeepsOwnStatus(t) /\ log[t] = Archived /\ log'[t] # Archived
         => \E w \in Worker : cur[w] = t]_<<vars, archiveVars>>

\* Without failing calls an acknowledged task has a status of its own or was
\* archived, or it was replaced by a clone: archiving hides no task that was
\* not executed from those who look for it.
AccountedFor ==
  ~Faults =>
    \A t \in Task :
      table[t] = "gone" /\ t \notin Invalid =>
        \/ log[t] \in {Completed, Failed, ChildRunning, Archived}
        \/ /\ log[t] = NoRecord /\ t \in Remote
           /\ \E c \in Clone \ {t} : Parent[c] = Parent[t] /\ table[c] # "none"

\* The message of a task that was archived before it was claimed: given up by
\* its worker and hidden for ever.
Removed(t) ==
  /\ table[t] = "hidden"
  /\ log[t] = Archived
  /\ \A w \in Worker : ~Holds(w, t)

\* Every message that was pushed ends up deleted, in the state the stuck-task
\* tools find, or as that of a task the user has removed.
HandledOrRemoved ==
  RemoteEnds =>
  \A t \in Task :
    (enq[t] = "pushed") ~> (table[t] = "gone" \/ Stranded(t) \/ Removed(t))
=============================================================================
