-------------------------- MODULE StuckTaskRestart --------------------------
(***************************************************************************)
(* The command that restarts stuck tasks, run while the workers go on.  It *)
(* searches the task log for old ENQUEUED records, then looks up the       *)
(* message of each, then restarts one after the other: each is a statement *)
(* of its own against tables the workers write at the same time.           *)
(*                                                                         *)
(* The age of a record is not modelled: a message may wait in the queue,   *)
(* or in the memory of a worker that is busy with the rest of its batch,   *)
(* for longer than the operator's --age, and nothing the command reads     *)
(* tells such a record from a stuck one.                                   *)
(***************************************************************************)
EXTENDS TaskQueue

CONSTANT MaxSearches     \* bound on how often the command is run

ASSUME StuckAssumption == IsFiniteSet(Worker) /\ MaxSearches \in Nat

VARIABLES
  searches,   \* how often the command was run
  step,       \* what the tool does next
  todo,       \* records found by the search, whose message is to be looked up
  found,      \* StuckTasks that have a message
  orphans,    \* StuckTasks that have none
  orphan,     \* the orphan that is cancelled and not yet replaced
  replaces,   \* history: replaces[c] is the orphan c was created for
  untimely    \* history: how often t was made visible when it was in work

toolVars == <<searches, step, todo, found, orphans, orphan, replaces, untimely>>

ToolStep == {"idle", "looking", "restarting", "creating", "adding"}

ToolTypeOK ==
  /\ TypeOK
  /\ searches \in 0..MaxSearches
  /\ step \in ToolStep
  /\ {todo, found, orphans} \subseteq SUBSET Task
  /\ orphan \in Task \cup {NoTask}
  /\ replaces \in [Task -> Task \cup {NoTask}]
  /\ untimely \in [Task -> Nat]

ToolInit ==
  /\ Init
  /\ searches = 0
  /\ step = "idle"
  /\ todo = {} /\ found = {} /\ orphans = {}
  /\ orphan = NoTask
  /\ replaces = [t \in Task |-> NoTask]
  /\ untimely = [t \in Task |-> 0]

\* The records StuckTaskQuery lets through: ENQUEUED and nothing else.
Stuck == {t \in Task : log[t] = Enqueued}

toolFrame == <<log, enqVars, prefetch, workerVars, remote, onlyFailed, runs, crashes>>

\* search(): one SELECT; the whitelist and the age leave out any of them.
Search ==
  /\ step = "idle"
  /\ searches < MaxSearches
  /\ searches' = searches + 1
  /\ todo' \in (SUBSET Stuck) \ {{}}
  /\ step' = "looking"
  /\ UNCHANGED <<table, toolFrame, found, orphans, orphan, replaces, untimely>>

\* Mutant of LookUp: a message that is hidden is not found.
LookUpVisible(t) ==
  /\ step = "looking"
  /\ t \in todo
  /\ todo' = todo \ {t}
  /\ step' = IF todo = {t} THEN "restarting" ELSE "looking"
  /\ IF table[t] = "visible"
     THEN found' = found \cup {t} /\ UNCHANGED orphans
     ELSE orphans' = orphans \cup {t} /\ UNCHANGED found
  /\ UNCHANGED <<table, toolFrame, orphan, replaces, untimely, searches>>

\* getTaskByTaskLogId(): a message that is no task is deleted if it is
\* hidden; it is an orphan then, as is a record without a message.
LookUp(t) ==
  /\ step = "looking"
  /\ t \in todo
  /\ todo' = todo \ {t}
  /\ step' = IF todo = {t} THEN "restarting" ELSE "looking"
  /\ LET hasRow == table[t] \in {"visible", "hidden"} IN
       \/ /\ hasRow /\ t \notin Invalid
          /\ found' = found \cup {t}
          /\ UNCHANGED <<table, orphans>>
       \/ /\ hasRow /\ t \in Invalid
          /\ Delete(t)
          /\ orphans' = orphans \cup {t}
          /\ UNCHANGED found
       \/ /\ ~hasRow
          /\ orphans' = orphans \cup {t}
          /\ UNCHANGED <<table, found>>
  /\ UNCHANGED <<toolFrame, orphan, replaces, untimely, searches>>

\* Mutant of Restart: the message is looked up by the wrong id.
RestartWrongRow(t) ==
  /\ step = "restarting"
  /\ t \in found
  /\ found' = found \ {t}
  /\ UNCHANGED <<table, toolFrame, step, todo, orphans, orphan, replaces, untimely, searches>>

\* A worker has the message of t, or has executed it.
InWork(t) == runs[t] > 0 \/ \E w \in Worker : Holds(w, t)

\* changeTaskVisibility(): whatever became of the task since it was looked up.
MakeVisible(t) ==
  /\ table' = [table EXCEPT ![t] = IF @ = "hidden" THEN "visible" ELSE @]
  /\ untimely' = [untimely EXCEPT ![t] = IF table[t] = "hidden" /\ InWork(t)
                                        THEN @ + 1 ELSE @]

\* restart() of a task with a message: the row is visible again.  The
\* setStatus(ENQUEUED) that follows passes the id of the row and touches no
\* record.  The UPDATE of the row may throw, which run() catches.
Restart(t) ==
  /\ step = "restarting"
  /\ t \in found
  /\ found' = found \ {t}
  /\ MakeVisible(t) \/ (Faults /\ UNCHANGED <<table, untimely>>)
  /\ UNCHANGED <<toolFrame, step, todo, orphans, orphan, replaces, searches>>

\* Mutant of CancelOrphan: the old record stays as it is.
CancelNothing(t) ==
  /\ step = "restarting"
  /\ t \in orphans
  /\ orphans' = orphans \ {t}
  /\ orphan' = t
  /\ step' = "creating"
  /\ UNCHANGED <<table, toolFrame, todo, found, replaces, untimely, searches>>

\* restart() of an orphan: the record becomes CANCELLED, whatever it was ...
CancelOrphan(t) ==
  /\ step = "restarting"
  /\ t \in orphans
  /\ orphans' = orphans \ {t}
  /\ \/ /\ UpdateStatus(t, Cancelled, AnyStatus)
        /\ orphan' = t
        /\ step' = "creating"
     \/ Faults /\ UNCHANGED <<log, orphan, step>>
  /\ UNCHANGED <<brokerVars, enqVars, workerVars, remote, onlyFailed, runs, crashes,
                 todo, found, replaces, untimely, searches>>

\* ... and a new task is created from its name and its parameters.
CreateForOrphan(c) ==
  /\ step = "creating"
  /\ Parent[c] = NoTask /\ c \notin Clone
  /\ \/ /\ PushMessage(c)
        /\ replaces' = [replaces EXCEPT ![c] = orphan]
        /\ step' = "adding"
        /\ UNCHANGED orphan
     \/ /\ PushFails(c)
        /\ orphan' = NoTask /\ step' = "restarting"
        /\ UNCHANGED replaces
  /\ UNCHANGED <<log, adding, workerVars, remote, onlyFailed, runs, crashes, todo, found,
                 orphans, untimely, searches>>

\* Model bound: no task is left to replace the orphan, and creating one fails.
CreateNothing ==
  /\ step = "creating"
  /\ \A c \in Task : Parent[c] = NoTask /\ c \notin Clone => enq[c] # "new"
  /\ orphan' = NoTask /\ step' = "restarting"
  /\ UNCHANGED <<table, toolFrame, todo, found, orphans, replaces, untimely, searches>>

AddForOrphan ==
  /\ step = "adding"
  /\ orphan' = NoTask
  /\ step' = "restarting"
  /\ \E c \in Task : replaces[c] = orphan /\ AddToLog(c)
  /\ UNCHANGED <<brokerVars, adding, workerVars, remote, onlyFailed, runs, crashes, todo,
                 found, orphans, replaces, untimely, searches>>

\* The command is done; it may be run again.
Done ==
  /\ step = "restarting"
  /\ found = {} /\ orphans = {}
  /\ step' = "idle"
  /\ UNCHANGED <<table, toolFrame, todo, found, orphans, orphan, replaces, untimely, searches>>

\* The command ends here: it was killed, or it was StuckTaskSummary, which
\* searches and looks up in the same way and restarts nothing.
Stop ==
  /\ step # "idle" /\ crashes < MaxCrashes
  /\ crashes' = crashes + 1
  /\ enq' = [c \in Task |-> IF step = "adding" /\ replaces[c] = orphan
                           THEN "done" ELSE enq[c]]
  /\ step' = "idle"
  /\ todo' = {} /\ found' = {} /\ orphans' = {}
  /\ orphan' = NoTask
  /\ UNCHANGED <<log, brokerVars, adding, workerVars, remote, onlyFailed, runs,
                 replaces, untimely, searches>>

Tool ==
  \/ \E t \in Task : LookUp(t) \/ Restart(t) \/ CancelOrphan(t) \/ CreateForOrphan(t)
  \/ CreateNothing \/ AddForOrphan \/ Done

\* The steps of the queue; what the tool has pushed it adds itself.
QueueStep ==
  /\ Next /\ UNCHANGED toolVars
  /\ step = "adding" =>
       \A c \in Task : replaces[c] = orphan => enq'[c] = enq[c]

ToolNext == QueueStep \/ Search \/ Tool \/ Stop

ToolSpec == ToolInit /\ [][ToolNext]_<<vars, toolVars>>

\* A command that was started goes on; nobody has to start one.
ToolFairSpec ==
  /\ ToolSpec
  /\ Fairness
  /\ WF_<<vars, toolVars>>(Tool)

-----------------------------------------------------------------------------
(* Correctness.                                                             *)

\* The command makes a message visible without looking again at its task: a
\* worker may have it by then, or have executed it.  Each time this happens
\* the task may be executed once more; in no other way, whatever the workers,
\* failing calls and crashes do, is a task executed a second time.
ExecutedOncePerRestart == \A t \in Task : runs[t] <= 1 + untimely[t]

\* A record is cancelled, and its work given to a new task, only when nobody
\* will start it: its message is no task, or it was started since the search.
CancelledOnlyIfOver ==
  \A t \in Task : log[t] = Cancelled => t \in Invalid \/ runs[t] > 0

\* An orphan gets one replacement, however often the command is run.
ReplacedOnce ==
  \A c, d \in Task :
    replaces[c] # NoTask /\ replaces[c] = replaces[d] => c = d

\* A stuck task whose message was found is executed after all, provided its
\* worker does not crash again.
RestartHelps ==
  \A t \in Task : (t \in found /\ crashes = MaxCrashes) ~> (runs[t] > 0)
=============================================================================
