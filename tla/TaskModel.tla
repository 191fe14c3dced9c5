------------------------------ MODULE TaskModel ------------------------------
(***************************************************************************)
(* The tasks, the statuses a task log record can be in and the categories  *)
(* the application shows instead of the statuses.  Every other module of   *)
(* the project builds on this one.                                         *)
(***************************************************************************)

CONSTANTS
  Task,          \* the ids of the tasks that may ever be created
  NoTask,        \* "null" where the code keeps a task or a parent id
  Parent,        \* Parent[t]: parent id in t's metadata, NoTask if it has none
  MasterStatus,  \* tasks whose status is not derived from their children
  Remote,        \* tasks that synchronise the status of a remote task
  Clone,         \* the ids of Remote that are only given to clones
  Faults         \* TRUE: a call to the database or to the remote may fail

ASSUME TaskAssumption ==
  /\ NoTask \notin Task
  /\ Parent \in [Task -> Task \cup {NoTask}]
  /\ \A t \in Task : Parent[t] # t
  /\ MasterStatus \subseteq Task
  /\ Remote \subseteq Task
  /\ Clone \subseteq Remote
  /\ Faults \in BOOLEAN

\* TaskLogInterface::STATUS_*.
Enqueued     == "enqueued"
Dequeued     == "dequeued"
Running      == "running"
ChildRunning == "child_running"
Completed    == "completed"
Failed       == "failed"
Archived     == "archived"
Unknown      == "unknown"
Cancelled    == "cancelled"   \* declared by the core extension only

\* The statuses TaskLog::validateStatus() lets into the task log.
LogStatus ==
  {Enqueued, Dequeued, Running, ChildRunning, Completed, Failed, Archived}

\* TaskLogCategorizedStatus::createFromString(); the categories are named
\* by the values of its STATUS_* constants.  Any other status throws.
Category(s) ==
  CASE s = Enqueued                           -> "created"
    [] s \in {Dequeued, Running, ChildRunning} -> "in_progress"
    [] s = Completed                          -> "completed"
    [] s = Archived                           -> "archived"
    [] s \in {Failed, Unknown}                -> "failed"

\* The children a task may have: every id whose metadata names it as parent.
Children(p) == {c \in Task : Parent[c] = p}
=============================================================================
