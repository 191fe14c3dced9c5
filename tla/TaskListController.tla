------------------------- MODULE TaskListController -------------------------
(***************************************************************************)
(* controller/main.js: the manager's component, the user in front of it,   *)
(* and the server it polls.  Requests and answers travel independently;    *)
(* what an answer says was true when the server gave it.                   *)
(*                                                                         *)
(* The model of the browser's tasks (ui/taskQueue/taskQueue of the core    *)
(* extension) is external: a poller has at most one request on the way and *)
(* starts another when it is answered; stopping it does not call back the  *)
(* request; archive() resolves if and only if the server succeeded.        *)
(***************************************************************************)
EXTENDS TaskQueueManager

CONSTANTS
  Here,           \* the tasks that are created by requests of this page
  MaxEvents       \* bound: how many creations, removals, clearings, reports,
                  \* failing requests and returns of records there are in all

ASSUME ControllerAssumption ==
  Here \subseteq Task /\ MaxEvents \in Nat

VARIABLES
  server,      \* server[t]: the category of t's record, if there is one
  was,         \* was[t]: how t was to be shown so far; history, read by no action
  polling,     \* a poller is running
  poller,      \* how many pollers were stopped; the number of the current one
  answers,     \* the answers to polls on the way to the browser
  creating,    \* tasks created here whose creation was not yet answered
  bursts,      \* tasks whose icon is flying into the component
  archives,    \* archive requests for one task on the way to the server
  judged,      \* tasks whose record such a request has read, to archive it
  clears,      \* clears[n]: the n-th request to archive all finished tasks
  found,       \* found[n]: the tasks whose records it has read
  gets,        \* requests for a task's report on the way
  events       \* how many of the events there were that MaxEvents bounds

records  == <<server, was>>
archival == <<archives, judged, clears, found>>
requests == <<answers, creating, bursts, archival, gets, events>>
vars == <<manager, records, polling, poller, requests>>

Category == Status \cup {"absent", "archived", "deleted"}

Clear == 1..MaxEvents
ClearState == {"none", "sent", "read", "done", "refused", "over"}

Entries == [Task -> Status \cup {"none"}]

ListTypeOK ==
  /\ taskElements \in [Task -> Element \cup {NoElement}]
  /\ list \in ListType
  /\ badge \in [type : {"none", "info", "success", "warning", "error"},
                loading : BOOLEAN, value : Nat]
  /\ clearBox \in BOOLEAN /\ outsideClick \in BOOLEAN /\ hidden \in BOOLEAN
  /\ server \in [Task -> Category]
  /\ was \in [Task -> SUBSET AllowedStatus]
  /\ polling \in BOOLEAN /\ poller \in 0..events
  /\ answers \subseteq [poller : 0..MaxEvents, entries : Entries]
  /\ creating \subseteq Task /\ bursts \subseteq Task
  /\ archives \subseteq Task /\ judged \subseteq Task /\ gets \subseteq Task
  /\ clears \in [Clear -> ClearState]
  /\ found \in [Clear -> SUBSET Task]
  /\ events \in 0..MaxEvents

\* start(): rendered, hidden, and polling.
Init ==
  /\ ManagerInit
  /\ hidden = TRUE
  /\ server = [t \in Task |-> "absent"]
  /\ was = [t \in Task |-> {}]
  /\ polling = TRUE /\ poller = 0
  /\ answers = {} /\ creating = {} /\ bursts = {}
  /\ archives = {} /\ judged = {} /\ gets = {}
  /\ clears = [n \in Clear |-> "none"]
  /\ found = [n \in Clear |-> {}]
  /\ events = 0

\* One more event that the bound counts.
Event == events < MaxEvents /\ events' = events + 1

-----------------------------------------------------------------------------
(* The server.  Its workers are in TaskQueue.tla.                          *)

\* The state class a record of this category is displayed with, if any.
SeenAs(category) ==
  IF category \in Status THEN {ClassOf(category)} ELSE {}

\* The records become s; the history remembers what they were.
Write(s) ==
  /\ server' = s
  /\ was' = [t \in Task |-> was[t] \cup SeenAs(s[t])]

\* A task is created; the page waits for the answer if it asked for it.
Create(t) ==
  /\ server[t] = "absent" /\ Event
  /\ Write([server EXCEPT ![t] = "created"])
  /\ creating' = creating \cup ({t} \cap Here)
  /\ UNCHANGED <<manager, polling, poller, answers, bursts, archival, gets>>

\* A worker goes on with a task, or updateParent() with its record.
Progress(t) ==
  /\ server[t] \in {"created", "in_progress"}
  /\ \E category \in {"in_progress"} \cup Finished :
       /\ category # server[t]
       /\ Write([server EXCEPT ![t] = category])
  /\ UNCHANGED <<manager, polling, poller, requests>>

\* A record leaves a final category: workers do not ask whether it is archived,
\* a parent is waiting for its children again although they have all finished,
\* and updateParent() judges a family once more.
Return(t) ==
  /\ server[t] \in Finished \cup {"archived"} /\ Event
  /\ \E category \in {"in_progress"} \cup Finished :
       /\ category # server[t]
       /\ Write([server EXCEPT ![t] = category])
  /\ UNCHANGED <<manager, polling, poller, answers, creating, bursts, archival,
                 gets>>

\* A rescheduled synchroniser: its record is deleted, the clone's id is new.
Delete(t) ==
  /\ server[t] \in {"in_progress", "archived"}
  /\ Write([server EXCEPT ![t] = "deleted"])
  /\ UNCHANGED <<manager, polling, poller, requests>>

\* assertCanArchive() of the task log.
CanArchive(t) == server[t] # "in_progress"

\* findAvailableByUser(): what getAll() answers.
Available == [t \in Task |-> IF server[t] \in Status THEN server[t] ELSE "none"]

\* UPDATE ... WHERE id IN (...): the records of T that are still there.
Present(T) == {t \in T : server[t] \notin {"absent", "deleted"}}

ArchiveRecords(T) ==
  Write([t \in Task |-> IF t \in Present(T) THEN "archived" ELSE server[t]])

\* The same user in another window, or a script with --force, archives a task.
ArchiveElsewhere(t) ==
  /\ server[t] \in Status
  /\ ArchiveRecords({t})
  /\ UNCHANGED <<manager, polling, poller, requests>>

\* archive(taskId) reaches the server: the record is read and judged.
ReadArchive(t) ==
  /\ t \in archives
  /\ archives' = archives \ {t}
  /\ judged' = judged \cup {u \in {t} : server[u] \in Status /\ CanArchive(u)}
  /\ UNCHANGED <<manager, records, polling, poller, answers, creating, bursts,
                 clears, found, gets, events>>

\* It is archived, whatever it has become; the answer is not looked at.
ServeArchive(t) ==
  /\ t \in judged
  /\ judged' = judged \ {t}
  /\ \/ ArchiveRecords({t}) /\ UNCHANGED events
     \/ /\ Event
        /\ UNCHANGED <<server, was>>
  /\ UNCHANGED <<manager, polling, poller, answers, creating, bursts,
                 archives, clears, found, gets>>

\* archive('all') reaches the server: the finished records are read, or none.
ReadClear(n) ==
  /\ clears[n] = "sent"
  /\ clears' = [clears EXCEPT ![n] = "read"]
  /\ \/ /\ found' = [found EXCEPT ![n] = {t \in Task : server[t] \in Finished}]
        /\ UNCHANGED events
     \/ /\ Event
        /\ UNCHANGED found
  /\ UNCHANGED <<manager, records, polling, poller, answers, creating, bursts,
                 archives, judged, gets>>

\* They are archived; it succeeds if there was something to archive and a
\* record was changed.
ServeClear(n) ==
  /\ clears[n] = "read"
  /\ found' = [found EXCEPT ![n] = {}]
  /\ \/ /\ ArchiveRecords(found[n])
        /\ clears' = [clears EXCEPT ![n] = IF Present(found[n]) # {} THEN "done"
                                           ELSE "refused"]
        /\ UNCHANGED events
     \/ /\ Event
        /\ clears' = [clears EXCEPT ![n] = "refused"]
        /\ UNCHANGED <<server, was>>
  /\ UNCHANGED <<manager, polling, poller, answers, creating, bursts,
                 archives, judged, gets>>

\* search(): a query that fails, as it does when a record has a status without
\* a category, is logged and yields an empty collection.
NothingFound == [t \in Task |-> "none"]

\* The current poller asks and the server answers, with success in any case.
Poll ==
  /\ polling
  /\ \A a \in answers : a.poller # poller
  /\ \/ /\ answers' = answers \cup {[poller |-> poller, entries |-> Available]}
        /\ UNCHANGED events
     \/ /\ Event
        /\ answers' = answers \cup {[poller |-> poller, entries |-> NothingFound]}
  /\ UNCHANGED <<manager, records, polling, poller, creating, bursts, archival,
                 gets>>

-----------------------------------------------------------------------------
(* The handlers of main.js.                                                *)

\* pollAll: an answer has arrived; the first one shows the component.
PollAll(a) ==
  /\ a \in answers
  /\ answers' = answers \ {a}
  /\ hidden' = FALSE
  /\ LoadData(a.entries)
  /\ UNCHANGED <<records, polling, poller, creating, bursts, archival, gets,
                 events>>

\* taskcreated: its icon flies into the component unless the list is open.
TaskCreated(t) ==
  /\ t \in creating
  /\ creating' = creating \ {t}
  /\ IF list.hidden
     THEN bursts' = bursts \cup {t} /\ UNCHANGED <<manager, polling>>
     ELSE AddNewTask(t, "created", TRUE) /\ polling' = TRUE
          /\ UNCHANGED <<bursts, hidden>>
  /\ UNCHANGED <<records, poller, answers, archival, gets, events>>

\* absorbBurst() has ended.
BurstAbsorbed(t) ==
  /\ t \in bursts
  /\ bursts' = bursts \ {t}
  /\ AddNewTask(t, "created", FALSE)
  /\ polling' = TRUE
  /\ UNCHANGED <<hidden, records, poller, answers, creating, archival, gets,
                 events>>

\* remove: the request is sent and polling goes on.
ClickRemove(t) ==
  /\ ~hidden /\ Offers(list, taskElements, t) /\ Event
  /\ RemoveTask(t)
  /\ archives' = archives \cup {t}
  /\ UNCHANGED <<hidden, records, polling, poller, answers, creating, bursts,
                 judged, clears, found, gets>>

\* listclearfinished: polling stops until the server has archived.
ClickClearAll ==
  /\ ~hidden /\ Usable(list) /\ clearBox /\ Event
  /\ RemoveAllFinished
  /\ polling' = FALSE /\ poller' = poller + 1
  /\ clears' = [clears EXCEPT ![poller + 1] = "sent"]
  /\ UNCHANGED <<hidden, records, answers, creating, bursts, archives, judged,
                 found, gets>>

\* archive('all') was answered: nothing handles a failure.
ClearAnswered(n) ==
  /\ clears[n] \in {"done", "refused"}
  /\ polling' = (polling \/ clears[n] = "done")
  /\ clears' = [clears EXCEPT ![n] = "over"]
  /\ UNCHANGED <<manager, records, poller, answers, creating, bursts, archives,
                 judged, found, gets, events>>

\* report: the report is asked for.
ClickReport(t) ==
  /\ ~hidden /\ Offers(list, taskElements, t) /\ Event
  /\ gets' = gets \cup {t}
  /\ UNCHANGED <<manager, records, polling, poller, answers, creating, bursts,
                 archival>>

\* get() was answered: a task that is archived is not found.
ReportAnswered(t) ==
  /\ t \in gets
  /\ gets' = gets \ {t}
  /\ IF server[t] \in Status THEN ShowDetail(t)
                             ELSE UNCHANGED <<list, outsideClick>>
  /\ UNCHANGED <<hidden, content, records, polling, poller, answers, creating,
                 bursts, archival, events>>

-----------------------------------------------------------------------------
Server ==
  \/ \E t \in Task :
       \/ Create(t) \/ Progress(t) \/ Return(t) \/ Delete(t)
       \/ ArchiveElsewhere(t) \/ ReadArchive(t) \/ ServeArchive(t)
  \/ \E n \in Clear : ReadClear(n) \/ ServeClear(n)

User ==
  \/ /\ ClickTrigger \/ ClickOutside \/ CloseDetail
        \/ \E t \in Task : ClickRedirect(t)
     /\ UNCHANGED <<records, polling, poller, requests>>
  \/ ClickClearAll
  \/ \E t \in Task : ClickRemove(t) \/ ClickReport(t)

Answered ==
  \/ \E a \in answers : PollAll(a)
  \/ \E t \in Task : TaskCreated(t) \/ BurstAbsorbed(t) \/ ReportAnswered(t)
  \/ \E n \in Clear : ClearAnswered(n)

Next == Server \/ User \/ Poll \/ Answered

\* What was sent arrives, and animations end; each of these happens only
\* finitely often, so that one condition on all of them is enough.
Arrival ==
  \/ \E t \in Task : \/ TaskCreated(t) \/ BurstAbsorbed(t)
                      \/ ReadArchive(t) \/ ServeArchive(t)
  \/ \E n \in Clear : ReadClear(n) \/ ServeClear(n) \/ ClearAnswered(n)

Fairness ==
  /\ WF_vars(Poll)
  /\ WF_vars(\E a \in answers : PollAll(a))
  /\ WF_vars(Arrival)

Spec == Init /\ [][Next]_vars /\ Fairness

-----------------------------------------------------------------------------
\* Rows and elements belong together through every overlap of polls,
\* creations and removals: an element the manager knows has its row, no row
\* remains of a task it does not know, and the row shows one state, that of
\* the element's data.
RowsBacked ==
  \A t \in Task :
    /\ t \in list.rows <=> taskElements[t] # NoElement
    /\ list.strays[t] # {} => t \in list.rows
    /\ t \in list.rows =>
         taskElements[t].classes = {ClassOf(taskElements[t].status)}

\* Badge and button tell what the list holds, whatever came last: the number
\* of tasks, whether one is unfinished, a warning for mixed outcomes, an
\* error when all outcomes are failures; and one can clear what is finished.
BadgeAgrees ==
  LET some(S) == \E t \in Task : taskElements[t].status \in S IN
    /\ badge.value = Cardinality(Elements(taskElements))
    /\ badge.loading <=> some({"created", "in_progress"})
    /\ badge.type = "warning" <=> some({"completed"}) /\ some({"failed"})
    /\ badge.type = "success" <=> some({"completed"}) /\ ~some({"failed"})
    /\ badge.type = "error" <=> some({"failed"}) /\ ~some({"completed"})
    /\ clearBox <=> some(Finished)

\* An open list is closed by a click outside, and only then does the manager
\* listen to the clicks of the page, however the list was opened or closed.
OutsideClickCloses == outsideClick <=> ~list.hidden

\* What the rows show was true of the task at some time, although records come
\* back from final categories and from the archive, are deleted, and answers
\* are late; and the page asks to archive only tasks that had finished.
Shown(t) ==
  list.strays[t] \cup IF t \in list.rows THEN taskElements[t].classes ELSE {}

Promise ==
  INSTANCE TaskListPromise WITH view <- [t \in Task |-> Shown(t)],
                                asked <- archives

KeepsListPromise == Promise!Spec

\* The manager holds what the server has.
Mirrors == \A t \in Task : taskElements[t].status = Available[t]

\* A request to clear the list failed, and nothing polls any more.
Abandoned ==
  ~polling /\ \A n \in Clear : clears[n] \in {"none", "over"}

\* However late answers are and whatever the user removed meanwhile: once the
\* server and the user are done, the list is and stays the server's, unless
\* polling ended with a request that failed.
ListConverges == <>[](Mirrors \/ Abandoned)

-----------------------------------------------------------------------------
\* A task is in the list once, as the tests count the rows.
OneRowPerTask == \A t \in Task : list.strays[t] = {}
=============================================================================
