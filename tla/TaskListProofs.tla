--------------------------- MODULE TaskListProofs ---------------------------
(***************************************************************************)
(* Proofs about TaskListController, for any finite set of tasks and any    *)
(* bounds: type correctness, the invariants of the list, and that the page *)
(* and the server keep TaskListPromise.  Each function of the manager gets *)
(* a lemma that says what it does to the invariant; the steps cite them.   *)
(***************************************************************************)
EXTENDS TaskListController, FiniteSetTheorems, TLAPS

BadgeType == [type : {"none", "info", "success", "warning", "error"},
              loading : BOOLEAN, value : Nat]

\* The conjuncts of ListTypeOK that are about the manager.
ManagerTyped ==
  /\ taskElements \in [Task -> Element \cup {NoElement}]
  /\ list \in ListType
  /\ badge \in BadgeType
  /\ clearBox \in BOOLEAN /\ outsideClick \in BOOLEAN

\* The badge and the button are computed anew with every change.
BadgeFresh ==
  /\ badge = BadgeDataFromElements(taskElements)
  /\ clearBox = (In(taskElements, Finished) # {})

\* The display is up to date, and open exactly if a click outside closes it.
Displayed == ManagerTyped /\ RowsBacked /\ BadgeFresh

-----------------------------------------------------------------------------
(* The element and the list.                                               *)

\* Every status the server sends has a state class.
LEMMA ClassAllowed == \A s \in Status : ClassOf(s) \in AllowedStatus
  BY DEF ClassOf, Status, AllowedStatus

\* update() keeps the data it was given.
LEMMA UpdateType ==
  ASSUME NEW e \in Element \cup {NoElement}, NEW s \in Status
  PROVE  Update(e, s) \in Element /\ Update(e, s).status = s
  BY ClassAllowed DEF Update, SetStatus, Element, NoElement

\* update() leaves one state class, the one of the status.
LEMMA UpdateShows ==
  ASSUME NEW e \in Element \cup {NoElement}, NEW s \in Status,
         e = NoElement \/ e.classes = {ClassOf(e.status)}
  PROVE  Update(e, s).classes = {ClassOf(s)}
<1>1. CASE e = NoElement
  BY <1>1 DEF Update, SetStatus, NoElement
<1>2. CASE e # NoElement
  <2>1. e \in Element /\ e.status \in Status
    BY <1>2 DEF Element
  <2>2. ClassOf(e.status) \in AllowedStatus
    BY <2>1, ClassAllowed
  <2> QED BY <1>2, <2>2 DEF Update, SetStatus
<1> QED BY <1>1, <1>2

\* NoElement is not an element.
LEMMA NoElementApart == NoElement \notin Element /\ NoElement.status \notin Status
  BY DEF NoElement, Element, Status, AllowedStatus

\* The badge's data have their type, whatever the elements.
LEMMA BadgeTyped ==
  ASSUME NEW elements \in [Task -> Element \cup {NoElement}]
  PROVE  BadgeDataFromElements(elements) \in BadgeType
<1>1. \A S : Cardinality(In(elements, S)) \in Nat
  BY ListAssumption, FS_Subset, FS_CardinalityType DEF In
<1> DEFINE p == Cardinality(In(elements, {"in_progress", "created"}))
           c == Cardinality(In(elements, {"completed"}))
           f == Cardinality(In(elements, {"failed"}))
<1>2. p \in Nat /\ c \in Nat /\ f \in Nat
  BY <1>1
<1>3. BadgeDataFromElements(elements) = BadgeDataFromStatus(p, c, f)
  BY DEF BadgeDataFromElements
<1> HIDE DEF p, c, f
<1>4. BadgeDataFromStatus(p, c, f) \in BadgeType
  BY <1>2 DEF BadgeDataFromStatus, BadgeType
<1> QED BY <1>3, <1>4

\* Inserting keeps the type of the list.
LEMMA InsertType ==
  ASSUME NEW l, NEW T, NEW elements, l \in ListType, T \subseteq Task,
         elements \in [Task -> Element \cup {NoElement}]
  PROVE  /\ InsertElements(l, T, elements) \in ListType
         /\ InsertElements(l, T, elements).rows = l.rows \cup T
         /\ InsertElements(l, T, elements).hidden = l.hidden
         /\ InsertElements(l, T, elements).detail = l.detail
         /\ \A u \in Task :
              InsertElements(l, T, elements).strays[u] =
                IF u \in T \cap l.rows THEN l.strays[u] \cup elements[u].classes
                ELSE l.strays[u]
<1>1. \A u \in Task : elements[u].classes \subseteq AllowedStatus
  BY DEF Element, NoElement
<1> QED BY <1>1 DEF InsertElements, ListType

\* Removing keeps the type of the list and takes every row of a task.
LEMMA RemoveType ==
  ASSUME NEW l, NEW T, l \in ListType, T \subseteq Task
  PROVE  /\ RemoveElements(l, T) \in ListType
         /\ RemoveElements(l, T).rows = l.rows \ T
         /\ RemoveElements(l, T).hidden = l.hidden
         /\ RemoveElements(l, T).detail = l.detail
         /\ \A u \in Task : RemoveElements(l, T).strays[u] =
                              IF u \in T THEN {} ELSE l.strays[u]
  BY DEF RemoveElements, ListType

\* The event listchange brings badge and button up to date.
LEMMA ListChangeFresh ==
  ASSUME taskElements' \in [Task -> Element \cup {NoElement}], ListChange
  PROVE  BadgeFresh' /\ badge' \in BadgeType /\ clearBox' \in BOOLEAN
  BY BadgeTyped DEF ListChange, SelfUpdateBadge, SelfUpdateClearButton, BadgeFresh

\* A known element shows the state of its data.
LEMMA KnownShows ==
  ASSUME ManagerTyped, RowsBacked, NEW t \in Task
  PROVE  /\ taskElements[t] \in Element \cup {NoElement}
         /\ \/ taskElements[t] = NoElement
            \/ taskElements[t].classes = {ClassOf(taskElements[t].status)}
  BY DEF ManagerTyped, RowsBacked

-----------------------------------------------------------------------------
(* The functions of the manager.                                           *)

\* addNewTask() shows the new state of t beside what was shown.
LEMMA AddNewTaskKeeps ==
  ASSUME Displayed, NEW t \in Task, NEW s \in Status, NEW animate \in BOOLEAN,
         AddNewTask(t, s, animate)
  PROVE  /\ Displayed'
         /\ outsideClick' = outsideClick
         /\ list'.hidden = IF animate THEN FALSE ELSE list.hidden
         /\ \A u \in Task : Shown(u)' \subseteq
              Shown(u) \cup IF u = t THEN {ClassOf(s)} ELSE {}
<1> DEFINE l == IF animate THEN SetHidden(list, FALSE) ELSE list
<1>1. ManagerTyped /\ RowsBacked
  BY DEF Displayed
<1>2. /\ l \in ListType /\ l.rows = list.rows /\ l.strays = list.strays
      /\ l.hidden = IF animate THEN FALSE ELSE list.hidden
  BY <1>1 DEF ManagerTyped, ListType, SetHidden
<1>3. /\ list' = InsertElements(l, {t}, taskElements)
      /\ taskElements' = [taskElements EXCEPT ![t] = NewElement(s)]
      /\ ListChange /\ outsideClick' = outsideClick
  BY DEF AddNewTask
<1> HIDE DEF l
<1>4. NewElement(s) \in Element /\ NewElement(s).status = s
      /\ NewElement(s).classes = {ClassOf(s)}
  BY UpdateType, UpdateShows DEF NewElement
<1>5. /\ taskElements' \in [Task -> Element \cup {NoElement}]
      /\ taskElements'[t] = NewElement(s)
      /\ \A u \in Task \ {t} : taskElements'[u] = taskElements[u]
  BY <1>1, <1>3, <1>4 DEF ManagerTyped
<1>6. /\ list' \in ListType
      /\ list'.rows = list.rows \cup {t}
      /\ list'.hidden = IF animate THEN FALSE ELSE list.hidden
      /\ \A u \in Task : list'.strays[u] =
           IF u \in {t} \cap list.rows
           THEN list.strays[u] \cup taskElements[u].classes
           ELSE list.strays[u]
  <2> DEFINE T == {t}
  <2>1. /\ taskElements \in [Task -> Element \cup {NoElement}]
        /\ l \in ListType /\ T \subseteq Task
    BY <1>1, <1>2 DEF ManagerTyped
  <2> HIDE DEF T
  <2>2. /\ InsertElements(l, T, taskElements) \in ListType
        /\ InsertElements(l, T, taskElements).rows = l.rows \cup T
        /\ InsertElements(l, T, taskElements).hidden = l.hidden
        /\ \A u \in Task :
             InsertElements(l, T, taskElements).strays[u] =
               IF u \in T \cap l.rows
               THEN l.strays[u] \cup taskElements[u].classes ELSE l.strays[u]
    BY <2>1, InsertType
  <2> QED BY <1>2, <1>3, <2>2 DEF T
<1>7. ManagerTyped' /\ BadgeFresh'
  BY <1>1, <1>3, <1>5, <1>6, ListChangeFresh DEF ManagerTyped
<1>8. RowsBacked'
  <2> SUFFICES ASSUME NEW u \in Task
               PROVE  /\ u \in list'.rows <=> taskElements'[u] # NoElement
                      /\ list'.strays[u] # {} => u \in list'.rows
                      /\ u \in list'.rows => taskElements'[u].classes
                                               = {ClassOf(taskElements'[u].status)}
    BY DEF RowsBacked
  <2>1. CASE u = t
    BY <1>4, <1>5, <1>6, <2>1, NoElementApart
  <2>2. CASE u # t
    BY <1>1, <1>5, <1>6, <2>2 DEF RowsBacked
  <2> QED BY <2>1, <2>2
<1>9. \A u \in Task : Shown(u)' \subseteq
        Shown(u) \cup IF u = t THEN {ClassOf(s)} ELSE {}
  BY <1>4, <1>5, <1>6 DEF Shown
<1> QED BY <1>3, <1>6, <1>7, <1>8, <1>9 DEF Displayed

\* loadData() shows what the answer says, and nothing of what it leaves out.
LEMMA LoadDataKeeps ==
  ASSUME Displayed, NEW entries \in Entries, LoadData(entries)
  PROVE  /\ Displayed'
         /\ outsideClick' = outsideClick /\ list'.hidden = list.hidden
         /\ \A u \in Task : Shown(u)' \subseteq
              IF entries[u] \in Status THEN Shown(u) \cup {ClassOf(entries[u])}
              ELSE {}
<1> DEFINE known == Elements(taskElements)
           sent  == {t \in Task : entries[t] \in Status}
           new   == sent \ known
           gone  == known \ sent
           l     == InsertElements(list, new, taskElements)
<1>1. /\ ManagerTyped /\ RowsBacked
      /\ taskElements \in [Task -> Element \cup {NoElement}] /\ list \in ListType
  BY DEF Displayed, ManagerTyped
<1>2. /\ taskElements' = Loaded(entries)
      /\ list' = RemoveElements(l, gone)
      /\ ListChange /\ outsideClick' = outsideClick
  BY DEF LoadData
<1>3. new \subseteq Task /\ gone \subseteq Task
  BY DEF Elements
<1>4. \A u \in Task : u \in known <=> taskElements[u] # NoElement
  BY DEF Elements
<1>5. \A u \in Task :
        IF u \in sent
        THEN /\ taskElements'[u] \in Element
             /\ taskElements'[u].status = entries[u]
             /\ taskElements'[u].classes = {ClassOf(entries[u])}
        ELSE taskElements'[u] = NoElement
  <2> SUFFICES ASSUME NEW u \in Task, u \in sent
               PROVE  /\ Loaded(entries)[u] \in Element
                      /\ Loaded(entries)[u].status = entries[u]
                      /\ Loaded(entries)[u].classes = {ClassOf(entries[u])}
    BY <1>2 DEF Loaded
  <2>1. entries[u] \in Status
    OBVIOUS
  <2>2. Loaded(entries)[u] = Update(taskElements[u], entries[u])
    BY <1>4, <2>1 DEF Loaded, NewElement
  <2>3. taskElements[u] \in Element \cup {NoElement}
        /\ (taskElements[u] = NoElement
            \/ taskElements[u].classes = {ClassOf(taskElements[u].status)})
    BY <1>1, KnownShows
  <2> QED BY <2>1, <2>2, <2>3, UpdateType, UpdateShows
<1>6. taskElements' \in [Task -> Element \cup {NoElement}]
  <2>1. DOMAIN taskElements' = Task /\ taskElements' = [u \in Task |-> taskElements'[u]]
    BY <1>2 DEF Loaded
  <2> QED BY <1>5, <2>1
<1>7. /\ list' \in ListType /\ list'.hidden = list.hidden
      /\ list'.rows = (list.rows \cup new) \ gone
      /\ \A u \in Task : list'.strays[u] =
           IF u \in gone THEN {}
           ELSE IF u \in new \cap list.rows
           THEN list.strays[u] \cup taskElements[u].classes
           ELSE list.strays[u]
  <2>1. /\ l \in ListType /\ l.rows = list.rows \cup new
        /\ l.hidden = list.hidden
        /\ \A u \in Task : l.strays[u] =
             IF u \in new \cap list.rows
             THEN list.strays[u] \cup taskElements[u].classes
             ELSE list.strays[u]
    <3> HIDE DEF new
    <3> QED BY <1>1, <1>3, InsertType
  <2> HIDE DEF l, new, gone
  <2>2. /\ RemoveElements(l, gone) \in ListType
        /\ RemoveElements(l, gone).rows = l.rows \ gone
        /\ RemoveElements(l, gone).hidden = l.hidden
        /\ \A u \in Task : RemoveElements(l, gone).strays[u] =
             IF u \in gone THEN {} ELSE l.strays[u]
    BY <1>3, <2>1, RemoveType
  <2> QED BY <1>2, <2>1, <2>2
<1>8. \A u \in Task : u \in list.rows <=> u \in known
  BY <1>1, <1>4 DEF RowsBacked
<1>9. ManagerTyped' /\ BadgeFresh'
  BY <1>1, <1>2, <1>6, <1>7, ListChangeFresh DEF ManagerTyped
<1>10. \A u \in Task : /\ u \in list'.rows <=> u \in sent
                       /\ list'.strays[u] # {} => u \in sent
                       /\ list'.strays[u] \subseteq list.strays[u]
  BY <1>1, <1>7, <1>8 DEF RowsBacked
<1>11. RowsBacked'
  <2> SUFFICES ASSUME NEW u \in Task
               PROVE  /\ u \in list'.rows <=> taskElements'[u] # NoElement
                      /\ list'.strays[u] # {} => u \in list'.rows
                      /\ u \in list'.rows => taskElements'[u].classes
                                               = {ClassOf(taskElements'[u].status)}
    BY DEF RowsBacked
  <2> HIDE DEF sent
  <2> QED BY <1>5, <1>10, NoElementApart
<1>12. \A u \in Task : Shown(u)' \subseteq
         IF entries[u] \in Status THEN Shown(u) \cup {ClassOf(entries[u])} ELSE {}
  BY <1>5, <1>10 DEF Shown
<1> QED BY <1>2, <1>7, <1>9, <1>11, <1>12 DEF Displayed

\* Removing the elements of T and their rows, as remove and clearing do.
LEMMA RemoveKeeps ==
  ASSUME Displayed, NEW T, T \subseteq Task,
         taskElements' = [t \in Task |-> IF t \in T THEN NoElement
                                         ELSE taskElements[t]],
         list' = RemoveElements(list, T), ListChange,
         outsideClick' = outsideClick
  PROVE  /\ Displayed' /\ list'.hidden = list.hidden
         /\ \A u \in Task : Shown(u)' \subseteq Shown(u)
<1>1. /\ RowsBacked /\ list \in ListType
      /\ taskElements \in [Task -> Element \cup {NoElement}]
      /\ outsideClick \in BOOLEAN
  BY DEF Displayed, ManagerTyped
<1>2. taskElements' \in [Task -> Element \cup {NoElement}]
  BY <1>1
<1>3. /\ list' \in ListType /\ list'.rows = list.rows \ T
      /\ list'.hidden = list.hidden
      /\ \A u \in Task : list'.strays[u] = IF u \in T THEN {} ELSE list.strays[u]
  BY <1>1, RemoveType
<1>4. \A u \in Task : taskElements'[u] = IF u \in T THEN NoElement
                                         ELSE taskElements[u]
  OBVIOUS
<1>5. RowsBacked'
  BY <1>1, <1>3, <1>4 DEF RowsBacked
<1>6. \A u \in Task : Shown(u)' \subseteq Shown(u)
  BY <1>3, <1>4 DEF Shown
<1>7. BadgeFresh' /\ badge' \in BadgeType /\ clearBox' \in BOOLEAN
  BY <1>2, ListChangeFresh
<1>8. Displayed'
  BY <1>1, <1>2, <1>3, <1>5, <1>7 DEF Displayed, ManagerTyped
<1> QED BY <1>3, <1>6, <1>8

-----------------------------------------------------------------------------
(* The page and its server.                                                *)

\* The conjuncts of ListTypeOK that are about the server and the requests.
RequestsTyped ==
  /\ hidden \in BOOLEAN
  /\ server \in [Task -> Category]
  /\ was \in [Task -> SUBSET AllowedStatus]
  /\ polling \in BOOLEAN /\ poller \in 0..events
  /\ answers \subseteq [poller : 0..MaxEvents, entries : Entries]
  /\ creating \subseteq Task /\ bursts \subseteq Task
  /\ archives \subseteq Task /\ judged \subseteq Task /\ gets \subseteq Task
  /\ clears \in [Clear -> ClearState]
  /\ found \in [Clear -> SUBSET Task]
  /\ events \in 0..MaxEvents

\* Nothing the page shows, or is about to, is ahead of the records: neither the
\* rows, nor the answers on their way, nor the tasks it was told to add.
Truthful ==
  /\ \A t \in Task : Shown(t) \subseteq was[t]
  /\ \A a \in answers, t \in Task :
       a.entries[t] \in Status => ClassOf(a.entries[t]) \in was[t]
  /\ \A t \in creating \cup bursts : "in_progress" \in was[t]
  /\ \A t \in Task : SeenAs(server[t]) \subseteq was[t]

\* The inductive invariant.
IInv == Displayed /\ OutsideClickCloses /\ RequestsTyped /\ Truthful

\* The records move and are remembered.
Moves == \E s \in [Task -> Category] : Write(s)

\* The page asks to archive what had finished.
Asks == \A t \in archives' \ archives : was[t] \cap Finished # {}

\* A step of the page shows and asks, a step of the server moves records.
Kept ==
  \/ UNCHANGED <<server, was>> /\ Asks
  \/ UNCHANGED <<manager, archives>> /\ Moves

\* The type invariant is the one of the runs.
LEMMA TypeParts == ListTypeOK <=> ManagerTyped /\ RequestsTyped
  BY DEF ListTypeOK, ManagerTyped, RequestsTyped, BadgeType

\* Only the rows of tasks that had finished have buttons.
LEMMA OffersFinished ==
  ASSUME IInv, NEW t \in Task, Offers(list, taskElements, t)
  PROVE  was[t] \cap Finished # {}
<1>1. Shown(t) \cap Finished # {}
  <2>1. CASE t \in list.rows /\ HasButtons(taskElements[t].classes)
    BY <2>1 DEF Shown, HasButtons
  <2>2. CASE HasButtons(list.strays[t])
    BY <2>2 DEF Shown, HasButtons
  <2> QED BY <2>1, <2>2 DEF Offers
<1> QED BY <1>1 DEF IInv, Truthful

\* Nothing shown changes as long as the manager does not.
LEMMA ManagerStill ==
  ASSUME IInv, UNCHANGED <<taskElements, badge, clearBox, list, outsideClick>>
  PROVE  /\ Displayed' /\ OutsideClickCloses'
         /\ \A u \in Task : Shown(u)' = Shown(u)
  BY DEF IInv, Displayed, ManagerTyped, RowsBacked, BadgeFresh,
         OutsideClickCloses, Shown

\* What was written is well typed, and the history only grows.
LEMMA WriteType ==
  ASSUME IInv, NEW s \in [Task -> Category], Write(s)
  PROVE  /\ server' \in [Task -> Category]
         /\ was' \in [Task -> SUBSET AllowedStatus]
         /\ \A t \in Task : was[t] \subseteq was'[t]
         /\ \A t \in Task : SeenAs(server'[t]) \subseteq was'[t]
<1>1. \A c \in Category : SeenAs(c) \subseteq AllowedStatus
  BY ClassAllowed DEF SeenAs
<1>2. was \in [Task -> SUBSET AllowedStatus]
  BY DEF IInv, RequestsTyped
<1> QED BY <1>1, <1>2 DEF Write

\* A step of the server leaves the page truthful.
LEMMA WorkKeeps ==
  ASSUME IInv, NEW s \in [Task -> Category], Write(s), UNCHANGED manager,
         answers' = answers, bursts' = bursts, archives' = archives,
         \A t \in creating' : t \in creating \/ server'[t] = "created",
         RequestsTyped'
  PROVE  IInv' /\ Kept
<1>1. /\ Displayed' /\ OutsideClickCloses'
      /\ \A u \in Task : Shown(u)' = Shown(u)
  BY ManagerStill DEF manager, display, content
<1>2. /\ \A t \in Task : was[t] \subseteq was'[t]
      /\ \A t \in Task : SeenAs(server'[t]) \subseteq was'[t]
  BY WriteType
<1>3. creating \subseteq Task /\ creating' \subseteq Task /\ bursts \subseteq Task
  BY DEF IInv, RequestsTyped
<1>4. Truthful'
  <2>1. \A t \in Task : Shown(t)' \subseteq was'[t]
    BY <1>1, <1>2 DEF IInv, Truthful
  <2>2. \A a \in answers', t \in Task : a.entries[t] \in Status =>
          ClassOf(a.entries[t]) \in was'[t]
    BY <1>2 DEF IInv, Truthful
  <2>3. \A t \in (creating \cup bursts)' : "in_progress" \in was'[t]
    <3> SUFFICES ASSUME NEW t \in creating' \cup bursts'
                 PROVE  "in_progress" \in was'[t]
      OBVIOUS
    <3>1. CASE t \in creating \cup bursts
      BY <1>2, <1>3, <3>1 DEF IInv, Truthful
    <3>2. CASE server'[t] = "created" /\ t \in Task
      BY <1>2, <3>2 DEF SeenAs, ClassOf, Status
    <3> QED BY <1>3, <3>1, <3>2
  <2> QED BY <1>2, <2>1, <2>2, <2>3 DEF Truthful
<1> QED BY <1>1, <1>4 DEF IInv, Kept, Moves

-----------------------------------------------------------------------------
(* The steps of the server.                                                *)

\* What the invariant says of the server and the requests, unfolded.
LEMMA RequestsOf ==
  ASSUME IInv
  PROVE  /\ hidden \in BOOLEAN /\ server \in [Task -> Category]
         /\ was \in [Task -> SUBSET AllowedStatus]
         /\ polling \in BOOLEAN /\ poller \in 0..events
         /\ answers \subseteq [poller : 0..MaxEvents, entries : Entries]
         /\ creating \subseteq Task /\ bursts \subseteq Task
         /\ archives \subseteq Task /\ judged \subseteq Task /\ gets \subseteq Task
         /\ clears \in [Clear -> ClearState]
         /\ found \in [Clear -> SUBSET Task]
         /\ events \in 0..MaxEvents
  BY DEF IInv, RequestsTyped

\* Counting one more event respects the bound.
LEMMA EventTyped ==
  ASSUME IInv, Event
  PROVE  events' = events + 1 /\ events' \in events..MaxEvents
  BY ControllerAssumption, RequestsOf DEF Event

\* A creation writes a new record.
LEMMA CreateKeeps ==
  ASSUME IInv, NEW t \in Task, Create(t)
  PROVE  IInv' /\ Kept
<1> DEFINE s == [server EXCEPT ![t] = "created"]
<1>1. s \in [Task -> Category] /\ s[t] = "created"
  BY RequestsOf DEF Category, Status
<1>2. Write(s) /\ events' \in events..MaxEvents
  BY EventTyped DEF Create
<1> HIDE DEF s
<1>3. creating' \subseteq creating \cup {t} /\ server'[t] = "created"
  BY <1>1, <1>2 DEF Create, Write
<1>4. RequestsTyped'
  BY <1>1, <1>2, <1>3, WriteType, RequestsOf
     DEF Create, RequestsTyped, manager, display, content, archival
<1> QED BY <1>1, <1>2, <1>3, <1>4, WorkKeeps DEF Create, archival

\* Whatever the server makes of its records, if nothing else changes.
LEMMA RecordsKeep ==
  ASSUME IInv, NEW s \in [Task -> Category], Write(s), events' \in events..MaxEvents,
         UNCHANGED <<manager, polling, poller, answers, creating, bursts,
                     archives, gets>>,
         judged' \subseteq judged,
         clears' \in [Clear -> ClearState],
         found' \in [Clear -> SUBSET Task]
  PROVE  IInv' /\ Kept
<1>1. RequestsTyped'
  BY WriteType, RequestsOf DEF RequestsTyped, manager, display, content
<1> QED BY <1>1, WorkKeeps

\* A worker, or updateParent(), writes a record.
LEMMA ProgressKeeps ==
  ASSUME IInv, NEW t \in Task, Progress(t) \/ Return(t) \/ Delete(t)
  PROVE  IInv' /\ Kept
<1>1. PICK category \in {"in_progress", "deleted"} \cup Finished :
        Write([server EXCEPT ![t] = category])
  BY DEF Progress, Return, Delete
<1> DEFINE s == [server EXCEPT ![t] = category]
<1>2. s \in [Task -> Category]
  BY RequestsOf DEF Category, Status, AllowedStatus, Finished
<1>3. Write(s)
  BY <1>1
<1> HIDE DEF s
<1>4. events' \in events..MaxEvents
  BY EventTyped, RequestsOf DEF Progress, Return, Delete, requests
<1>5. UNCHANGED <<manager, polling, poller, answers, creating, bursts,
                  archives, judged, clears, found, gets>>
  BY DEF Progress, Return, Delete, requests, archival
<1> QED BY <1>2, <1>3, <1>4, <1>5, RecordsKeep, RequestsOf

\* The UPDATE that archives writes well-typed records.
LEMMA ArchiveWrites ==
  ASSUME IInv, NEW T, ArchiveRecords(T)
  PROVE  \E s \in [Task -> Category] : Write(s)
<1> DEFINE s == [t \in Task |-> IF t \in Present(T) THEN "archived" ELSE server[t]]
<1>1. s \in [Task -> Category]
  BY RequestsOf DEF Category
<1>2. Write(s)
  BY DEF ArchiveRecords
<1> QED BY <1>1, <1>2

\* Another window archives a record.
LEMMA ArchiveElsewhereKeeps ==
  ASSUME IInv, NEW t \in Task, ArchiveElsewhere(t)
  PROVE  IInv' /\ Kept
<1>1. PICK s \in [Task -> Category] : Write(s)
  BY ArchiveWrites DEF ArchiveElsewhere
<1>2. UNCHANGED <<manager, polling, poller, answers, creating, bursts,
                  archives, judged, clears, found, gets, events>>
  BY DEF ArchiveElsewhere, requests, archival
<1> QED BY <1>1, <1>2, RecordsKeep, RequestsOf

\* A step of the requests alone, which shows nothing and asks for nothing.
LEMMA RequestsKeep ==
  ASSUME IInv, UNCHANGED <<manager, server, was, polling, poller, answers,
                           creating, bursts, gets>>,
         archives' \subseteq archives, judged' \subseteq Task,
         clears' \in [Clear -> ClearState],
         found' \in [Clear -> SUBSET Task], events' \in events..MaxEvents
  PROVE  IInv' /\ Kept
<1>1. /\ Displayed' /\ OutsideClickCloses'
      /\ \A u \in Task : Shown(u)' = Shown(u)
  BY ManagerStill DEF manager, display, content
<1>2. RequestsTyped'
  BY RequestsOf DEF RequestsTyped, manager, display, content
<1>3. Truthful'
  BY <1>1 DEF IInv, Truthful
<1> QED BY <1>1, <1>2, <1>3 DEF IInv, Kept, Asks

\* The record of a task whose row was removed is archived, or not.
LEMMA ServeArchiveKeeps ==
  ASSUME IInv, NEW t \in Task, ServeArchive(t)
  PROVE  IInv' /\ Kept
<1>1. /\ UNCHANGED <<manager, polling, poller, answers, creating, bursts,
                     archives, clears, found, gets>>
      /\ judged' \subseteq judged
      /\ events' \in events..MaxEvents
  BY EventTyped, RequestsOf DEF ServeArchive
<1>2. CASE ArchiveRecords({t})
  BY <1>1, <1>2, ArchiveWrites, RecordsKeep, RequestsOf
<1>3. CASE UNCHANGED <<server, was>>
  BY <1>1, <1>3, RequestsKeep, RequestsOf
<1> QED BY <1>2, <1>3 DEF ServeArchive

\* The records of the tasks that were found are archived, or not.
LEMMA ServeClearKeeps ==
  ASSUME IInv, NEW n \in Clear, ServeClear(n)
  PROVE  IInv' /\ Kept
<1>1. /\ UNCHANGED <<manager, polling, poller, answers, creating, bursts,
                     archives, judged, gets>>
      /\ clears' \in [Clear -> ClearState]
      /\ found' \in [Clear -> SUBSET Task]
      /\ events' \in events..MaxEvents
  BY EventTyped, RequestsOf DEF ServeClear, ClearState
<1>2. CASE ArchiveRecords(found[n])
  BY <1>1, <1>2, ArchiveWrites, RecordsKeep, RequestsOf
<1>3. CASE UNCHANGED <<server, was>>
  BY <1>1, <1>3, RequestsKeep, RequestsOf
<1> QED BY <1>2, <1>3 DEF ServeClear

\* Reading records changes none of them, for one task ...
LEMMA ReadArchiveKeeps ==
  ASSUME IInv, NEW t \in Task, ReadArchive(t)
  PROVE  IInv' /\ Kept
<1>1. /\ UNCHANGED <<manager, server, was, polling, poller, answers, creating,
                     bursts, clears, found, gets, events>>
      /\ archives' \subseteq archives
      /\ judged' \subseteq Task
  BY RequestsOf DEF ReadArchive, records
<1> QED BY <1>1, RequestsKeep, RequestsOf

\* ... and for all that have finished.
LEMMA ReadClearKeeps ==
  ASSUME IInv, NEW n \in Clear, ReadClear(n)
  PROVE  IInv' /\ Kept
<1>1. /\ UNCHANGED <<manager, server, was, polling, poller, answers, creating,
                     bursts, archives, judged, gets>>
      /\ clears' \in [Clear -> ClearState]
      /\ found' \in [Clear -> SUBSET Task]
      /\ events' \in events..MaxEvents
  BY EventTyped, RequestsOf DEF ReadClear, records, ClearState
<1> QED BY <1>1, RequestsKeep, RequestsOf

\* An answer says what is true when it is given.
LEMMA PollKeeps ==
  ASSUME IInv, Poll
  PROVE  IInv' /\ Kept
<1>1. PICK said \in {Available, NothingFound} :
        /\ answers' = answers \cup {[poller |-> poller, entries |-> said]}
        /\ events' \in events..MaxEvents
  BY EventTyped, RequestsOf DEF Poll
<1>2. said \in Entries
  BY DEF Available, NothingFound, Entries
<1>3. \A t \in Task : said[t] \in Status => ClassOf(said[t]) \in was[t]
  <2>1. ASSUME NEW t \in Task, server[t] \in Status
        PROVE  ClassOf(server[t]) \in was[t]
    BY <2>1 DEF IInv, Truthful, SeenAs
  <2>2. "none" \notin Status
    BY DEF Status, AllowedStatus
  <2> QED BY <2>1, <2>2 DEF Available, NothingFound
<1>4. /\ poller \in 0..MaxEvents
      /\ events' \in 0..MaxEvents /\ poller \in 0..events'
  BY <1>1, RequestsOf, ControllerAssumption
<1>5. answers' \subseteq [poller : 0..MaxEvents, entries : Entries]
  BY <1>1, <1>2, <1>4, RequestsOf
<1>6. RequestsTyped'
  BY <1>4, <1>5, RequestsOf
     DEF Poll, RequestsTyped, records, archival,
         manager, display, content
<1>7. /\ Displayed' /\ OutsideClickCloses'
      /\ \A u \in Task : Shown(u)' = Shown(u)
  BY ManagerStill DEF Poll, manager, display, content
<1>8. Truthful'
  <2>1. \A a \in answers', t \in Task : a.entries[t] \in Status =>
          ClassOf(a.entries[t]) \in was'[t]
    BY <1>1, <1>3 DEF Poll, IInv, Truthful, records
  <2> QED BY <1>7, <2>1 DEF Poll, IInv, Truthful, records
<1> QED BY <1>6, <1>7, <1>8 DEF Poll, IInv, Kept, Asks, records, archival

-----------------------------------------------------------------------------
(* The steps of the page.                                                  *)

\* A step of the page that shows nothing ahead of the records.
LEMMA ShowKeeps ==
  ASSUME IInv, Displayed', OutsideClickCloses', RequestsTyped',
         server' = server, was' = was, answers' \subseteq answers,
         \A u \in Task : Shown(u)' \subseteq was[u],
         (creating \cup bursts)' \subseteq creating \cup bursts,
         \A t \in archives' : t \in archives \/ was[t] \cap Finished # {}
  PROVE  IInv' /\ Kept
<1>1. Truthful'
  <2>1. \A a \in answers', t \in Task : a.entries[t] \in Status =>
          ClassOf(a.entries[t]) \in was'[t]
    BY DEF IInv, Truthful
  <2>2. \A t \in (creating \cup bursts)' : "in_progress" \in was'[t]
    BY DEF IInv, Truthful
  <2> QED BY <2>1, <2>2 DEF IInv, Truthful
<1> QED BY <1>1 DEF IInv, Kept, Asks

\* Showing, hiding or covering the list changes no row.
LEMMA ListKeeps ==
  ASSUME IInv, list' \in ListType, list'.rows = list.rows,
         list'.strays = list.strays, UNCHANGED content,
         outsideClick' = ~list'.hidden
  PROVE  /\ Displayed' /\ OutsideClickCloses'
         /\ \A u \in Task : Shown(u)' \subseteq was[u]
<1>1. outsideClick' \in BOOLEAN
  BY DEF ListType
<1>2. \A u \in Task : Shown(u)' = Shown(u)
  BY DEF Shown, content
<1> QED BY <1>1, <1>2
  DEF IInv, Displayed, ManagerTyped, RowsBacked, BadgeFresh, content,
      OutsideClickCloses, Truthful

\* An answer to a poll is shown.
LEMMA PollAllKeeps ==
  ASSUME IInv, NEW a \in answers, PollAll(a)
  PROVE  IInv' /\ Kept
<1>1. a.entries \in Entries
  BY RequestsOf
<1>2. Displayed /\ LoadData(a.entries)
  BY DEF IInv, PollAll
<1>3. /\ Displayed'
      /\ outsideClick' = outsideClick /\ list'.hidden = list.hidden
      /\ \A u \in Task : Shown(u)' \subseteq
           IF a.entries[u] \in Status
           THEN Shown(u) \cup {ClassOf(a.entries[u])} ELSE {}
  <2> DEFINE entries == a.entries
  <2> HIDE DEF entries
  <2>1. entries \in Entries /\ LoadData(entries)
    BY <1>1, <1>2 DEF entries
  <2>2. /\ Displayed'
        /\ outsideClick' = outsideClick /\ list'.hidden = list.hidden
        /\ \A u \in Task : Shown(u)' \subseteq
             IF entries[u] \in Status
             THEN Shown(u) \cup {ClassOf(entries[u])} ELSE {}
    BY <1>2, <2>1, LoadDataKeeps
  <2> QED BY <2>2 DEF entries
<1>4. \A u \in Task : Shown(u)' \subseteq was[u]
  BY <1>3 DEF IInv, Truthful
<1>5. OutsideClickCloses'
  BY <1>3 DEF IInv, OutsideClickCloses
<1>6. RequestsTyped'
  BY RequestsOf, EventTyped DEF PollAll, RequestsTyped, records, archival
<1> QED BY <1>3, <1>4, <1>5, <1>6, ShowKeeps
  DEF PollAll, records, archival

\* A created task is shown, by both of the ways to add it.
LEMMA AddedKeeps ==
  ASSUME IInv, NEW t \in creating \cup bursts, NEW animate \in BOOLEAN,
         AddNewTask(t, "created", animate), animate => ~list.hidden
  PROVE  /\ Displayed' /\ OutsideClickCloses'
         /\ \A u \in Task : Shown(u)' \subseteq was[u]
<1>1. t \in Task /\ "in_progress" \in was[t]
  BY RequestsOf DEF IInv, Truthful
<1>2. ClassOf("created") = "in_progress"
  BY DEF ClassOf
<1>3. /\ Displayed'
      /\ outsideClick' = outsideClick
      /\ list'.hidden = IF animate THEN FALSE ELSE list.hidden
      /\ \A u \in Task : Shown(u)' \subseteq
           Shown(u) \cup IF u = t THEN {ClassOf("created")} ELSE {}
  <2>1. Displayed /\ "created" \in Status
    BY DEF IInv, Status
  <2> QED BY <1>1, <2>1, AddNewTaskKeeps
<1>4. \A u \in Task : Shown(u)' \subseteq was[u]
  BY <1>1, <1>2, <1>3 DEF IInv, Truthful
<1>5. list.hidden \in BOOLEAN
  BY DEF IInv, Displayed, ManagerTyped, ListType
<1>6. OutsideClickCloses'
  BY <1>3, <1>5 DEF IInv, OutsideClickCloses
<1> QED BY <1>3, <1>4, <1>6

\* The answer to a creation adds the task, or starts the animation.
LEMMA TaskCreatedKeeps ==
  ASSUME IInv, NEW t \in Task, TaskCreated(t)
  PROVE  IInv' /\ Kept
<1>1. CASE list.hidden /\ bursts' = bursts \cup {t} /\ UNCHANGED <<manager, polling>>
  <2>1. /\ Displayed' /\ OutsideClickCloses'
        /\ \A u \in Task : Shown(u)' = Shown(u)
    BY <1>1, ManagerStill DEF manager, display, content
  <2>2. RequestsTyped'
    BY <1>1, RequestsOf, EventTyped DEF TaskCreated, RequestsTyped, records, archival,
         manager, display, content
  <2> QED BY <1>1, <2>1, <2>2, ShowKeeps
  DEF TaskCreated, records, archival, IInv, Truthful
<1>2. CASE /\ ~list.hidden /\ AddNewTask(t, "created", TRUE) /\ polling' = TRUE
           /\ UNCHANGED <<bursts, hidden>>
  <2>1. /\ Displayed' /\ OutsideClickCloses'
        /\ \A u \in Task : Shown(u)' \subseteq was[u]
    BY <1>2, AddedKeeps DEF TaskCreated
  <2>2. RequestsTyped'
    BY <1>2, RequestsOf, EventTyped DEF TaskCreated, RequestsTyped, records, archival
  <2> QED BY <1>2, <2>1, <2>2, ShowKeeps
  DEF TaskCreated, records, archival
<1> QED BY <1>1, <1>2 DEF TaskCreated

\* The end of the animation adds the task.
LEMMA BurstAbsorbedKeeps ==
  ASSUME IInv, NEW t \in Task, BurstAbsorbed(t)
  PROVE  IInv' /\ Kept
<1>1. /\ Displayed' /\ OutsideClickCloses'
      /\ \A u \in Task : Shown(u)' \subseteq was[u]
  BY AddedKeeps DEF BurstAbsorbed
<1>2. RequestsTyped'
  BY RequestsOf, EventTyped DEF BurstAbsorbed, RequestsTyped, records, archival
<1> QED BY <1>1, <1>2, ShowKeeps
  DEF BurstAbsorbed, records, archival

\* Removing the row of a finished task asks for its archiving.
LEMMA ClickRemoveKeeps ==
  ASSUME IInv, NEW t \in Task, ClickRemove(t)
  PROVE  IInv' /\ Kept
<1> DEFINE T == {t}
<1>1. Displayed /\ taskElements \in [Task -> Element \cup {NoElement}]
  BY DEF IInv, Displayed, ManagerTyped
<1>2. taskElements' = [u \in Task |-> IF u \in T THEN NoElement
                                      ELSE taskElements[u]]
  BY <1>1 DEF ClickRemove, RemoveTask
<1>3. /\ T \subseteq Task /\ list' = RemoveElements(list, T)
      /\ ListChange /\ outsideClick' = outsideClick
  BY DEF ClickRemove, RemoveTask
<1> HIDE DEF T
<1>4. /\ Displayed' /\ list'.hidden = list.hidden
      /\ \A u \in Task : Shown(u)' \subseteq Shown(u)
  BY <1>1, <1>2, <1>3, RemoveKeeps
<1>5. OutsideClickCloses'
  BY <1>3, <1>4 DEF IInv, OutsideClickCloses
<1>6. RequestsTyped'
  BY RequestsOf, EventTyped DEF ClickRemove, RequestsTyped, records, archival
<1>7. was[t] \cap Finished # {}
  BY OffersFinished DEF ClickRemove
<1>8. \A u \in Task : Shown(u)' \subseteq was[u]
  BY <1>4 DEF IInv, Truthful
<1> QED BY <1>4, <1>5, <1>6, <1>7, <1>8, ShowKeeps
  DEF ClickRemove, records, archival

\* Clearing removes rows and stops the poller.
LEMMA ClickClearAllKeeps ==
  ASSUME IInv, ClickClearAll
  PROVE  IInv' /\ Kept
<1> DEFINE done == In(taskElements, Finished)
<1>1. Displayed
  BY DEF IInv
<1>2. /\ done \subseteq Task /\ list' = RemoveElements(list, done)
      /\ taskElements' = [u \in Task |-> IF u \in done THEN NoElement
                                         ELSE taskElements[u]]
      /\ ListChange /\ outsideClick' = outsideClick
  BY DEF ClickClearAll, RemoveAllFinished, In
<1> HIDE DEF done
<1>3. /\ Displayed' /\ list'.hidden = list.hidden
      /\ \A u \in Task : Shown(u)' \subseteq Shown(u)
  BY <1>1, <1>2, RemoveKeeps
<1>4. OutsideClickCloses'
  BY <1>2, <1>3 DEF IInv, OutsideClickCloses
<1>5. clears' \in [Clear -> ClearState]
  BY RequestsOf DEF ClickClearAll, ClearState
<1>6. poller' \in 0..events' /\ events' \in 0..MaxEvents
  <2>1. /\ poller \in 0..events /\ events \in 0..MaxEvents /\ MaxEvents \in Nat
        /\ events' = events + 1 /\ events' \in events..MaxEvents
    BY RequestsOf, EventTyped, ControllerAssumption DEF ClickClearAll
  <2>2. poller' = poller + 1
    BY DEF ClickClearAll
  <2> QED BY <2>1, <2>2 DEF Clear
<1>7. RequestsTyped'
  BY <1>5, <1>6, RequestsOf
  DEF ClickClearAll, RequestsTyped, records, archival
<1>8. \A u \in Task : Shown(u)' \subseteq was[u]
  BY <1>3 DEF IInv, Truthful
<1> QED BY <1>3, <1>4, <1>7, <1>8, ShowKeeps
  DEF ClickClearAll, records, archival

\* The answer to a clearing restarts the poller, or does nothing.
LEMMA ClearAnsweredKeeps ==
  ASSUME IInv, NEW n \in Clear, ClearAnswered(n)
  PROVE  IInv' /\ Kept
<1>1. /\ Displayed' /\ OutsideClickCloses'
      /\ \A u \in Task : Shown(u)' = Shown(u)
  BY ManagerStill DEF ClearAnswered, manager, display, content
<1>2. /\ clears' \in [Clear -> ClearState]
      /\ polling' \in BOOLEAN
  BY RequestsOf DEF ClearAnswered, ClearState
<1>3. RequestsTyped'
  BY <1>2, RequestsOf, EventTyped DEF ClearAnswered, RequestsTyped, records, archival,
         manager, display, content
<1> QED BY <1>1, <1>3, ShowKeeps
  DEF ClearAnswered, records, archival, IInv, Truthful

\* Asking for a report shows nothing yet.
LEMMA ClickReportKeeps ==
  ASSUME IInv, NEW t \in Task, ClickReport(t)
  PROVE  IInv' /\ Kept
<1>1. /\ Displayed' /\ OutsideClickCloses'
      /\ \A u \in Task : Shown(u)' = Shown(u)
  BY ManagerStill DEF ClickReport, manager, display, content
<1>2. RequestsTyped'
  BY RequestsOf, EventTyped DEF ClickReport, RequestsTyped, records, archival,
         manager, display, content
<1> QED BY <1>1, <1>2, ShowKeeps
  DEF ClickReport, records, archival, IInv, Truthful

\* The report covers the list and changes no row.
LEMMA ReportAnsweredKeeps ==
  ASSUME IInv, NEW t \in Task, ReportAnswered(t)
  PROVE  IInv' /\ Kept
<1>1. list \in ListType /\ outsideClick = ~list.hidden
  BY DEF IInv, Displayed, ManagerTyped, OutsideClickCloses, ListType
<1>2. /\ list' \in ListType /\ list'.rows = list.rows
      /\ list'.strays = list.strays /\ list'.hidden = list.hidden
      /\ outsideClick' = outsideClick
  BY <1>1 DEF ReportAnswered, ShowDetail, SetDetail, ListType
<1>3. /\ Displayed' /\ OutsideClickCloses'
      /\ \A u \in Task : Shown(u)' \subseteq was[u]
  BY <1>1, <1>2, ListKeeps DEF ReportAnswered
<1>4. RequestsTyped'
  BY RequestsOf, EventTyped DEF ReportAnswered, RequestsTyped, records, archival
<1> QED BY <1>3, <1>4, ShowKeeps
  DEF ReportAnswered, records, archival

\* The user opens or closes the list, or the report that covers it.
LEMMA ClicksKeep ==
  ASSUME IInv, UNCHANGED <<records, polling, poller, requests>>,
         \/ ClickTrigger \/ ClickOutside \/ CloseDetail
         \/ \E t \in Task : ClickRedirect(t)
  PROVE  IInv' /\ Kept
<1>1. list \in ListType /\ outsideClick = ~list.hidden
  BY DEF IInv, Displayed, ManagerTyped, OutsideClickCloses, ListType
<1>2. UNCHANGED <<hidden, content>>
  BY DEF ClickTrigger, ClickOutside, CloseDetail, ClickRedirect
<1>3. \/ ShowList \/ HideList
      \/ list' = HideDetail(list) /\ outsideClick' = outsideClick
  BY DEF ClickTrigger, ClickOutside, CloseDetail, ClickRedirect
<1>4. /\ list' \in ListType /\ list'.rows = list.rows
      /\ list'.strays = list.strays /\ outsideClick' = ~list'.hidden
  BY <1>1, <1>3 DEF ShowList, HideList, SetHidden, HideDetail, ListType
<1>5. /\ Displayed' /\ OutsideClickCloses'
      /\ \A u \in Task : Shown(u)' \subseteq was[u]
  BY <1>2, <1>4, ListKeeps
<1>6. RequestsTyped'
  BY <1>2, RequestsOf DEF RequestsTyped, requests, records, archival
<1> QED BY <1>5, <1>6, ShowKeeps
  DEF requests, records, archival

-----------------------------------------------------------------------------
(* The specification.                                                      *)

\* The empty page keeps the invariant.
LEMMA InitHolds == Init => IInv
<1> SUFFICES ASSUME Init PROVE IInv
  OBVIOUS
<1>1. ManagerInit
  BY DEF Init
<1>2. taskElements \in [Task -> Element \cup {NoElement}]
      /\ \A t \in Task : taskElements[t] = NoElement
  BY <1>1 DEF ManagerInit
<1>3. list \in ListType /\ list.hidden = TRUE /\ list.rows = {}
      /\ \A t \in Task : list.strays[t] = {}
  BY <1>1 DEF ManagerInit, EmptyList, ListType
<1>4. badge \in BadgeType /\ badge = BadgeDataFromElements(taskElements)
  BY <1>1, <1>2, BadgeTyped DEF ManagerInit
<1>5. In(taskElements, Finished) = {}
  BY <1>2, NoElementApart DEF In, Finished, Status, AllowedStatus
<1>6. Displayed
  BY <1>1, <1>2, <1>3, <1>4, <1>5
     DEF ManagerInit, Displayed, ManagerTyped, RowsBacked, BadgeFresh
<1>7. OutsideClickCloses
  BY <1>1, <1>3 DEF ManagerInit, OutsideClickCloses
<1>8. RequestsTyped
  BY ControllerAssumption DEF Init, RequestsTyped, Category, ClearState
<1>9. Truthful
  BY <1>3 DEF Init, Truthful, Shown, SeenAs, Status, AllowedStatus
<1> QED BY <1>6, <1>7, <1>8, <1>9 DEF IInv

\* Every step keeps the invariant and the promise.
LEMMA NextKeeps ==
  ASSUME IInv, [Next]_vars
  PROVE  IInv' /\ Kept
<1>1. CASE Server
  <2>1. CASE \E t \in Task : \/ Create(t) \/ Progress(t) \/ Return(t) \/ Delete(t)
                            \/ ArchiveElsewhere(t)
    BY <2>1, CreateKeeps, ProgressKeeps, ArchiveElsewhereKeeps
  <2>2. CASE \E t \in Task : ReadArchive(t) \/ ServeArchive(t)
    BY <2>2, ReadArchiveKeeps, ServeArchiveKeeps
  <2>3. CASE \E n \in Clear : ReadClear(n) \/ ServeClear(n)
    BY <2>3, ReadClearKeeps, ServeClearKeeps
  <2> QED BY <1>1, <2>1, <2>2, <2>3 DEF Server
<1>2. CASE User
  <2>1. CASE ClickClearAll
    BY <2>1, ClickClearAllKeeps
  <2>2. CASE \E t \in Task : ClickRemove(t) \/ ClickReport(t)
    BY <2>2, ClickRemoveKeeps, ClickReportKeeps
  <2>3. CASE /\ ClickTrigger \/ ClickOutside \/ CloseDetail
                \/ \E t \in Task : ClickRedirect(t)
             /\ UNCHANGED <<records, polling, poller, requests>>
    BY <2>3, ClicksKeep
  <2> QED BY <1>2, <2>1, <2>2, <2>3 DEF User
<1>3. CASE Poll
  BY <1>3, PollKeeps
<1>4. CASE Answered
  <2>1. CASE \E a \in answers : PollAll(a)
    BY <2>1, PollAllKeeps
  <2>2. CASE \E t \in Task : TaskCreated(t) \/ BurstAbsorbed(t) \/ ReportAnswered(t)
    BY <2>2, TaskCreatedKeeps, BurstAbsorbedKeeps, ReportAnsweredKeeps
  <2>3. CASE \E n \in Clear : ClearAnswered(n)
    BY <2>3, ClearAnsweredKeeps
  <2> QED BY <1>4, <2>1, <2>2, <2>3 DEF Answered
<1>5. CASE UNCHANGED vars
  <2>1. UNCHANGED <<manager, server, was, polling, poller, answers, creating,
                    bursts, archives, judged, clears, found, gets, events>>
    BY <1>5 DEF vars, requests, records, archival
  <2> QED BY <2>1, RequestsKeep, RequestsOf
<1> QED BY <1>1, <1>2, <1>3, <1>4, <1>5 DEF Next

\* The inductive invariant holds throughout.
LEMMA Inductive == Spec => []IInv
  BY InitHolds, NextKeeps, PTL DEF Spec

\* Type correctness of the page, the requests and the records.
THEOREM ListTypeCorrect == Spec => []ListTypeOK
<1>1. IInv => ListTypeOK
  BY TypeParts DEF IInv, Displayed
<1> QED BY <1>1, Inductive, PTL

\* Rows and elements belong together, however polls, creations, removals and
\* clearings overlap (insertElement() and removeElement() in list.js).
THEOREM RowsAreBacked == Spec => []RowsBacked
<1>1. IInv => RowsBacked
  BY DEF IInv, Displayed
<1> QED BY <1>1, Inductive, PTL

\* The page listens to clicks outside exactly while the list is open.
THEOREM OutsideClickMatches == Spec => []OutsideClickCloses
<1>1. IInv => OutsideClickCloses
  BY DEF IInv
<1> QED BY <1>1, Inductive, PTL

\* What the badge's data say of three disjoint groups of tasks.
LEMMA BadgeMeans ==
  ASSUME NEW p \in Nat, NEW c \in Nat, NEW f \in Nat,
         badge = BadgeDataFromStatus(p, c, f)
  PROVE  /\ badge.value = p + c + f
         /\ badge.loading = (p # 0)
         /\ badge.type = "warning" <=> c # 0 /\ f # 0
         /\ badge.type = "success" <=> c # 0 /\ f = 0
         /\ badge.type = "error" <=> f # 0 /\ c = 0
<1>1. badge.value = p + c + f
  BY DEF BadgeDataFromStatus
<1>4. badge.loading = (p # 0)
  <2>1. badge.loading = (p > 0)
    BY DEF BadgeDataFromStatus
  <2>2. (p > 0) = (p # 0)
    OBVIOUS
  <2> QED BY <2>1, <2>2
<1>2. badge.type = IF f = 0 THEN IF c # 0 THEN "success"
                             ELSE IF p # 0 THEN "info" ELSE "none"
               ELSE IF c # 0 THEN "warning" ELSE "error"
  <2>1. CASE c # 0
    BY <2>1 DEF BadgeDataFromStatus
  <2>2. CASE c = 0 /\ p # 0
    BY <2>2 DEF BadgeDataFromStatus
  <2>3. CASE c = 0 /\ p = 0
    BY <2>3 DEF BadgeDataFromStatus
  <2> QED BY <2>1, <2>2, <2>3
<1> HIDE DEF BadgeDataFromStatus
<1>3. /\ badge.type = "warning" <=> c # 0 /\ f # 0
      /\ badge.type = "success" <=> c # 0 /\ f = 0
      /\ badge.type = "error" <=> f # 0 /\ c = 0
  BY <1>2
<1> QED BY <1>1, <1>3, <1>4

\* Three disjoint finite sets are counted one by one.
LEMMA CountThree ==
  ASSUME NEW S, NEW T, NEW U, IsFiniteSet(S), IsFiniteSet(T), IsFiniteSet(U),
         S \cap T = {}, (S \cup T) \cap U = {}
  PROVE  Cardinality(S \cup T \cup U) =
           Cardinality(S) + Cardinality(T) + Cardinality(U)
<1>1. /\ Cardinality(S) \in Nat /\ Cardinality(T) \in Nat
      /\ Cardinality(U) \in Nat /\ Cardinality({}) = 0
  BY FS_CardinalityType, FS_EmptySet
<1>2. /\ IsFiniteSet(S \cup T)
      /\ Cardinality(S \cup T) = Cardinality(S) + Cardinality(T) - Cardinality({})
  BY FS_Union
<1>3. Cardinality((S \cup T) \cup U) =
        Cardinality(S \cup T) + Cardinality(U) - Cardinality({})
  BY <1>2, FS_Union
<1> QED BY <1>1, <1>2, <1>3

\* Badge and button agree with the elements, for any number of tasks
\* (getBadgeDataFromElements() and selfUpdateClearButton() in manager.js).
THEOREM BadgeAlwaysAgrees == Spec => []BadgeAgrees
<1> DEFINE P == In(taskElements, {"in_progress", "created"})
           C == In(taskElements, {"completed"})
           F == In(taskElements, {"failed"})
<1>1. ASSUME IInv PROVE BadgeAgrees
  <2>1. /\ taskElements \in [Task -> Element \cup {NoElement}]
        /\ badge = BadgeDataFromStatus(Cardinality(P), Cardinality(C), Cardinality(F))
        /\ clearBox = (In(taskElements, Finished) # {})
    BY <1>1 DEF IInv, Displayed, ManagerTyped, BadgeFresh, BadgeDataFromElements
  <2>2. \A t \in Task : \/ taskElements[t] = NoElement
                        \/ taskElements[t].status \in Status
    BY <2>1 DEF Element
  <2>3. P \cup C \cup F = Elements(taskElements)
    BY <2>2, NoElementApart DEF In, Elements, Status, AllowedStatus
  <2>4. P \cap C = {} /\ (P \cup C) \cap F = {}
    BY DEF In
  <2>5. IsFiniteSet(P) /\ IsFiniteSet(C) /\ IsFiniteSet(F)
    BY ListAssumption, FS_Subset DEF In
  <2>6. /\ Cardinality(P) \in Nat /\ Cardinality(C) \in Nat /\ Cardinality(F) \in Nat
        /\ Cardinality(P) = 0 <=> P = {}
        /\ Cardinality(C) = 0 <=> C = {}
        /\ Cardinality(F) = 0 <=> F = {}
    BY <2>5, FS_CardinalityType, FS_EmptySet
  <2>7. Cardinality(P) + Cardinality(C) + Cardinality(F)
          = Cardinality(Elements(taskElements))
    <3> HIDE DEF P, C, F
    <3> QED BY <2>3, <2>4, <2>5, CountThree
  <2>8. /\ P # {} <=> \E t \in Task : taskElements[t].status \in {"created", "in_progress"}
        /\ C # {} <=> \E t \in Task : taskElements[t].status \in {"completed"}
        /\ F # {} <=> \E t \in Task : taskElements[t].status \in {"failed"}
        /\ In(taskElements, Finished) # {}
             <=> \E t \in Task : taskElements[t].status \in Finished
    BY DEF In
  <2> HIDE DEF P, C, F
  <2>9. /\ badge.value = Cardinality(P) + Cardinality(C) + Cardinality(F)
        /\ badge.loading = (P # {})
        /\ badge.type = "warning" <=> C # {} /\ F # {}
        /\ badge.type = "success" <=> C # {} /\ F = {}
        /\ badge.type = "error" <=> F # {} /\ C = {}
    <3> DEFINE p == Cardinality(P)
               c == Cardinality(C)
               f == Cardinality(F)
    <3>1. /\ p \in Nat /\ c \in Nat /\ f \in Nat
          /\ p = 0 <=> P = {}
          /\ c = 0 <=> C = {}
          /\ f = 0 <=> F = {}
          /\ badge = BadgeDataFromStatus(p, c, f)
      BY <2>1, <2>6
    <3> HIDE DEF p, c, f
    <3>2. /\ badge.value = p + c + f
          /\ badge.loading = (p # 0)
          /\ badge.type = "warning" <=> c # 0 /\ f # 0
          /\ badge.type = "success" <=> c # 0 /\ f = 0
          /\ badge.type = "error" <=> f # 0 /\ c = 0
      BY <3>1, BadgeMeans
    <3> QED BY <3>1, <3>2 DEF p, c, f
  <2> QED BY <2>1, <2>7, <2>8, <2>9 DEF BadgeAgrees
<1>2. IInv => BadgeAgrees
  BY <1>1
<1> QED BY <1>2, Inductive, PTL

-----------------------------------------------------------------------------
(* The promise.                                                            *)

\* The promise and the page call the states of a record by the same names.
LEMMA SameStates ==
  /\ Promise!Category = Category
  /\ \A c \in Category : Promise!StateOf(c) = SeenAs(c)
<1>1. Promise!Category = Category
  BY DEF Promise!Category, Promise!State, Category, Status, AllowedStatus
<1>2. ASSUME NEW c \in Category PROVE Promise!StateOf(c) = SeenAs(c)
  <2>1. CASE c \in AllowedStatus
    BY <2>1 DEF AllowedStatus, Status, SeenAs, ClassOf, Promise!StateOf,
                Promise!State
  <2>2. CASE c \in {"created", "absent", "archived", "deleted"}
    BY <2>2 DEF AllowedStatus, Status, SeenAs, ClassOf, Promise!StateOf,
                Promise!State
  <2> QED BY <2>1, <2>2 DEF Category, Status
<1> QED BY <1>1, <1>2

\* A step that keeps the invariant is one of the promise, or none.
LEMMA StepKeepsListPromise ==
  ASSUME IInv, IInv', Kept
  PROVE  [Promise!Work \/ Promise!Show]_<<server, was, [t \in Task |-> Shown(t)],
                                         archives>>
<1>1. CASE UNCHANGED <<server, was>> /\ Asks
  <2>1. [t \in Task |-> Shown(t)'] \in [Task -> SUBSET Promise!State]
    <3>1. \A t \in Task : Shown(t)' \subseteq AllowedStatus
      BY DEF IInv, Displayed, ManagerTyped, ListType, Element, NoElement, Shown
    <3>2. AllowedStatus = Promise!State
      BY DEF AllowedStatus, Promise!State
    <3> QED BY <3>1, <3>2
  <2>2. \A t \in Task : Shown(t)' \subseteq was[t]
    BY <1>1 DEF IInv, Truthful
  <2>3. \A t \in archives' \ archives : was[t] \cap {"completed", "failed"} # {}
    BY <1>1 DEF Asks, Finished
  <2>4. Promise!Show
    BY <1>1, <2>1, <2>2, <2>3 DEF Promise!Show
  <2> QED BY <2>4
<1>2. CASE UNCHANGED <<manager, archives>> /\ Moves
  <2>1. PICK s \in [Task -> Category] : Write(s)
    BY <1>2 DEF Moves
  <2>2. server' \in [Task -> Promise!Category]
    BY <2>1, SameStates DEF Write
  <2>3. was' = [t \in Task |-> was[t] \cup Promise!StateOf(server'[t])]
    BY <2>1, SameStates DEF Write
  <2>4. \A t \in Task : Shown(t)' = Shown(t)
    BY <1>2 DEF Shown, manager, display, content
  <2>5. Promise!Work
    BY <1>2, <2>2, <2>3, <2>4 DEF Promise!Work
  <2> QED BY <2>5
<1> QED BY <1>1, <1>2 DEF Kept

\* The page, the server and the requests between them keep the promise of the
\* list: nothing is shown before it is true, however the records move, and
\* only what had finished is asked to be archived (TaskQueueManager and main.js).
THEOREM ListKeepsPromise == Spec => KeepsListPromise
<1>1. Init => Promise!Init
  <2> SUFFICES ASSUME Init PROVE Promise!Init
    OBVIOUS
  <2>1. \A t \in Task : Shown(t) = {}
    BY DEF Init, ManagerInit, EmptyList, Shown
  <2> QED BY <2>1 DEF Init, Promise!Init
<1>2. IInv /\ IInv' /\ [Next]_vars
        => [Promise!Work \/ Promise!Show]_<<server, was, [t \in Task |-> Shown(t)],
                                           archives>>
  BY NextKeeps, StepKeepsListPromise
<1> QED
  BY <1>1, <1>2, Inductive, PTL DEF Spec, KeepsListPromise, Promise!Spec
=============================================================================
