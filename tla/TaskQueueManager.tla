-------------------------- MODULE TaskQueueManager --------------------------
(***************************************************************************)
(* manager.js: the component that owns the elements of the tasks, the list *)
(* they are shown in, and the badge with its counters.  A function of the  *)
(* component is an operator with the same name, its events included; each  *)
(* runs without interruption in the browser's only thread.                 *)
(***************************************************************************)
EXTENDS TaskList

VARIABLES
  taskElements,   \* taskElements[t]: the element the manager knows for t
  list,           \* the list component
  badge,          \* the data the badge displays
  clearBox,       \* "Clear all finished" is displayed
  outsideClick,   \* a click outside of the component is listened to
  hidden          \* the component itself is hidden

display == <<list, outsideClick, hidden>>
content == <<taskElements, badge, clearBox>>
manager == <<display, content>>

Elements(elements) == {t \in Task : elements[t] # NoElement}

\* The tasks whose element has one of these statuses.
In(elements, statuses) == {t \in Task : elements[t].status \in statuses}

-----------------------------------------------------------------------------
\* getBadgeDataFromStatus().
BadgeDataFromStatus(inProgress, completed, failed) ==
  LET ofInProgress == IF inProgress # 0 THEN "info" ELSE "none"
      ofCompleted  == IF completed # 0 THEN "success" ELSE ofInProgress
  IN [type |-> IF failed = 0 THEN ofCompleted
               ELSE IF ofCompleted = "success" THEN "warning" ELSE "error",
      loading |-> inProgress > 0,
      value |-> inProgress + completed + failed]

\* getBadgeDataFromElements().
BadgeDataFromElements(elements) ==
  BadgeDataFromStatus(Cardinality(In(elements, {"in_progress", "created"})),
                      Cardinality(In(elements, {"completed"})),
                      Cardinality(In(elements, {"failed"})))

\* selfUpdateBadge().
SelfUpdateBadge == badge' = BadgeDataFromElements(taskElements')

\* selfUpdateClearButton(): the button is shown when something is finished.
SelfUpdateClearButton == clearBox' = (In(taskElements', Finished) # {})

\* The handler of the event listchange.
ListChange == SelfUpdateBadge /\ SelfUpdateClearButton

\* showList() and the handler of listshow.
ShowList ==
  /\ list' = SetHidden(list, FALSE)
  /\ outsideClick' = TRUE

\* Mutant of HideList: the list is hidden without the event.
HideListQuietly ==
  /\ list' = SetHidden(list, TRUE)
  /\ UNCHANGED outsideClick

\* hideList() and the handler of listhide.
HideList ==
  /\ list' = SetHidden(list, TRUE)
  /\ outsideClick' = FALSE

\* addNewTask(); only when it animates it shows the list by itself.
AddNewTask(t, status, animate) ==
  /\ taskElements' = [taskElements EXCEPT ![t] = NewElement(status)]
  /\ list' = InsertElements(
               IF animate THEN SetHidden(list, FALSE) ELSE list,
               {t}, taskElements)
  /\ ListChange
  /\ UNCHANGED outsideClick

\* The elements loadData() leaves; entries[t] is "none" when t is not sent.
Loaded(entries) ==
  [t \in Task |-> IF entries[t] \notin Status THEN NoElement
                  ELSE IF t \in Elements(taskElements)
                       THEN Update(taskElements[t], entries[t])
                       ELSE NewElement(entries[t])]

\* Mutant of LoadData: elements the server does not send any more stay.
LoadDataOnTop(entries) ==
  LET created == {t \in Task \ Elements(taskElements) : entries[t] \in Status}
      dropped == {t \in Elements(taskElements) : entries[t] \notin Status}
  IN /\ taskElements' = [t \in Task |-> IF t \in dropped THEN taskElements[t]
                                        ELSE Loaded(entries)[t]]
     /\ list' = InsertElements(list, created, taskElements)
     /\ ListChange
     /\ UNCHANGED outsideClick

\* loadData(): updates, creates and removes elements.  It would highlight those
\* whose status changed, but compares the statuses after the update.
LoadData(entries) ==
  LET known == Elements(taskElements)
      sent  == {t \in Task : entries[t] \in Status}
  IN /\ taskElements' = Loaded(entries)
     /\ list' = RemoveElements(
                  InsertElements(list, sent \ known, taskElements),
                  known \ sent)
     /\ ListChange
     /\ UNCHANGED outsideClick

\* Mutant of RemoveTask: the event listchange is forgotten.
RemoveTaskQuietly(t) ==
  /\ taskElements' = [taskElements EXCEPT ![t] = NoElement]
  /\ list' = RemoveElements(list, {t})
  /\ UNCHANGED <<badge, clearBox, outsideClick>>

\* The handler of an element's remove, up to the events it triggers.
RemoveTask(t) ==
  /\ taskElements' = [taskElements EXCEPT ![t] = NoElement]
  /\ list' = RemoveElements(list, {t})
  /\ ListChange
  /\ UNCHANGED outsideClick

\* removeAllFinished(), up to the event listclearfinished.
RemoveAllFinished ==
  LET done == In(taskElements, Finished) IN
    /\ taskElements' = [t \in Task |-> IF t \in done THEN NoElement
                                       ELSE taskElements[t]]
    /\ list' = RemoveElements(list, done)
    /\ ListChange
    /\ UNCHANGED outsideClick

\* showDetail(), and the handler of the report's close.
ShowDetail(t) == list' = SetDetail(list, t) /\ UNCHANGED outsideClick

CloseDetail ==
  /\ ~list.hidden /\ list.detail # NoTask
  /\ list' = HideDetail(list)
  /\ UNCHANGED <<outsideClick, hidden, content>>

-----------------------------------------------------------------------------
\* The component after render, when it was given no data.
ManagerInit ==
  /\ taskElements = [t \in Task |-> NoElement]
  /\ list = EmptyList
  /\ badge = BadgeDataFromElements(taskElements)
  /\ clearBox = FALSE
  /\ outsideClick = FALSE

\* A click on the component toggles the list.
ClickTrigger ==
  /\ ~hidden
  /\ IF list.hidden THEN ShowList ELSE HideList
  /\ UNCHANGED <<hidden, content>>

\* A click anywhere else on the page.
ClickOutside ==
  /\ outsideClick /\ ~list.hidden
  /\ HideList
  /\ UNCHANGED <<hidden, content>>

\* Following the redirection of a task leaves the list hidden.
ClickRedirect(t) ==
  /\ ~hidden /\ Offers(list, taskElements, t)
  /\ HideList
  /\ UNCHANGED <<hidden, content>>
=============================================================================
