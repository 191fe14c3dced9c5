------------------------------ MODULE TaskList ------------------------------
(***************************************************************************)
(* The list of background tasks in the browser, as it is displayed: the    *)
(* element of a task (listing/element.js) and the list component the       *)
(* elements are inserted into (listing/list.js).                           *)
(*                                                                         *)
(* A row of the DOM belongs to the element that was rendered into it and   *)
(* shows its state classes.  Rows are found by the id of their task, so    *)
(* that a task may have more than one: the row of the element the manager  *)
(* knows, and strays, whose element it has replaced.                       *)
(***************************************************************************)
EXTENDS FiniteSets, Integers

CONSTANTS
  Task,     \* the ids of the tasks that may ever be created
  NoTask    \* no report is open

ASSUME ListAssumption == IsFiniteSet(Task) /\ NoTask \notin Task

\* _allowedStatus: the state classes of an element.
AllowedStatus == {"in_progress", "failed", "completed"}

\* The statuses the server sends.
Status == AllowedStatus \cup {"created"}

Finished == {"completed", "failed"}

NoElement == [status |-> "none", classes |-> {}]

Element == [status : Status, classes : SUBSET AllowedStatus]

\* What a list looks like: the tasks with a row for their element, the
\* states of stray rows, its visibility, the task whose report covers it.
ListType ==
  [rows : SUBSET Task, strays : [Task -> SUBSET AllowedStatus],
   hidden : BOOLEAN, detail : Task \cup {NoTask}]

-----------------------------------------------------------------------------
\* element.js: the state class that displays a status.
ClassOf(status) == IF status = "created" THEN "in_progress" ELSE status

\* setStatus(): the classes after it; the other states are reset only when
\* the new one is not set yet.
SetStatus(classes, status) ==
  IF ClassOf(status) \in classes THEN classes
  ELSE (classes \ (AllowedStatus \ {ClassOf(status)})) \cup {ClassOf(status)}

\* update(): the new data are assigned over the old ones, then displayed.
Update(element, status) ==
  [status |-> status, classes |-> SetStatus(element.classes, status)]

\* taskElementFactory(): the element once it is rendered.
NewElement(status) == Update(NoElement, status)

\* Mutant of HasButtons: the stylesheet hides nothing.
HasButtonsAlways(classes) == classes # {}

\* The states the stylesheet shows the remove, report and redirect buttons in.
HasButtons(classes) == classes \cap Finished # {}

-----------------------------------------------------------------------------
\* list.js: taskListFactory(), rendered and hidden by the manager.
EmptyList ==
  [rows |-> {}, strays |-> [t \in Task |-> {}],
   hidden |-> TRUE, detail |-> NoTask]

\* insertElement() for the tasks of T: a row that is there already is not
\* looked for and stays, showing what its element (in elements) showed.
InsertElements(list, T, elements) ==
  [list EXCEPT
    !.rows = @ \cup T,
    !.strays = [t \in Task |-> IF t \in T \cap list.rows
                               THEN @[t] \cup elements[t].classes
                               ELSE @[t]]]

\* Mutant of RemoveElements: only the row of the element goes.
RemoveOneRow(list, T) == [list EXCEPT !.rows = @ \ T]

\* removeElement() for the tasks of T: every row with the id goes.
RemoveElements(list, T) ==
  [list EXCEPT !.rows = @ \ T,
               !.strays = [t \in Task |-> IF t \in T THEN {} ELSE @[t]]]

\* setDetail(reportElement, true), and hideDetail() when it is closed.
SetDetail(list, t) == [list EXCEPT !.detail = t]

HideDetail(list) == [list EXCEPT !.detail = NoTask]

SetHidden(list, hidden) == [list EXCEPT !.hidden = hidden]

\* The rows can be clicked: the list is shown and no report covers it.
Usable(list) == ~list.hidden /\ list.detail = NoTask

\* The buttons of some row of task t can be clicked.
Offers(list, elements, t) ==
  /\ Usable(list)
  /\ \/ t \in list.rows /\ HasButtons(elements[t].classes)
     \/ HasButtons(list.strays[t])
=============================================================================
