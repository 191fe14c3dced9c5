------------------------------- MODULE TaskLog -------------------------------
(***************************************************************************)
(* The task log: one record for each task, keyed by the task's id, kept in *)
(* one SQL table (TaskLog over RdsTaskLogBroker).  An action is one SQL    *)
(* statement.  TaskLog catches what a statement throws and reports that no *)
(* record was touched, so that a failed write is a write that did nothing. *)
(***************************************************************************)
EXTENDS TaskModel

VARIABLE log     \* log[t]: the status in t's record, NoRecord without one

NoRecord == "no_record"

\* The broker below TaskLog validates nothing, and the stuck-task tools write
\* STATUS_CANCELLED of the core's TaskLogInterface.
AnyStatus == LogStatus \cup {Cancelled}

LogTypeOK == log \in [Task -> AnyStatus \cup {NoRecord}]

LogInit == log = [t \in Task |-> NoRecord]

\* UPDATE ... WHERE id = :id [AND status = :status_prev].  "prev" is the set
\* of statuses the WHERE clause lets through; without the optional clause it
\* is AnyStatus.
Touched(id, prev) == {t \in Task : t = id /\ log[t] \in prev}

UpdateStatus(id, new, prev) ==
  log' = [t \in Task |-> IF t \in Touched(id, prev) THEN new ELSE log[t]]

\* setStatus() when the caller ignores the number of touched records.
SetStatus(id, new) ==
  \/ UpdateStatus(id, new, AnyStatus)
  \/ Faults /\ UNCHANGED log

\* Mutant of SetReport: the status is not validated.
SetReportUnvalidated(id, new) == UpdateStatus(id, Unknown, AnyStatus)

\* setReport(): saves the report and, whatever the status was, the new one.
\* A report that could not be saved is only logged.
SetReport(id, new) ==
  \/ UpdateStatus(id, new, AnyStatus)
  \/ Faults /\ UNCHANGED log

\* add(): inserts the record.  A failed insert is only logged.
AddRecord(t) ==
  \/ /\ log[t] = NoRecord
     /\ log' = [log EXCEPT ![t] = Enqueued]
  \/ Faults /\ UNCHANGED log

\* deleteById(): a hard delete; a failed one is rolled back and ignored.
DeleteById(t) ==
  \/ log' = [log EXCEPT ![t] = NoRecord]
  \/ Faults /\ UNCHANGED log

\* The records updateParent() reads: the children that are not archived, or none
\* when the status of one has no category: search() catches what that throws.
LoggedChildren(p) ==
  LET rows == {c \in Children(p) : log[c] \notin {NoRecord, Archived}}
  IN  {c \in rows : \A d \in rows : log[d] # Cancelled}

ChildrenProcessed(p) ==
  /\ LoggedChildren(p) # {}
  /\ \A c \in LoggedChildren(p) : Category(log[c]) \in {"completed", "failed"}

\* Mutant of ParentVerdict: the parent fails only when every child has.
VerdictIfAllFailed(p) ==
  IF \A c \in LoggedChildren(p) : Category(log[c]) = "failed"
  THEN Failed ELSE Completed

\* The status updateParent() sets when ChildrenProcessed(p).
ParentVerdict(p) ==
  IF \E c \in LoggedChildren(p) : Category(log[c]) = "failed"
  THEN Failed ELSE Completed
=============================================================================
