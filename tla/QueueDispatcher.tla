--------------------------- MODULE QueueDispatcher ---------------------------
(***************************************************************************)
(* Several queues and the association of tasks with them, which scripts    *)
(* change while messages are queued and workers run.  A process reads the  *)
(* options of the dispatcher once.  A message is found again by the        *)
(* autoincremented id it has in the table of its queue, so that the ids of *)
(* two tables collide.  What a worker does with a task between its         *)
(* dequeueing and its acknowledgement, and what calls that fail do to it,  *)
(* is in TaskQueue.                                                        *)
(***************************************************************************)
EXTENDS FiniteSets, Naturals

CONSTANTS
  Task,        \* the tasks; each stands for a class of its own
  NoTask,
  Queue,       \* the queues that may ever be registered
  NoQueue,
  Default,     \* OPTION_DEFAULT_QUEUE
  Worker,
  Dedicated,   \* Dedicated[w]: the only queue w works on, NoQueue for all
  Receive,     \* numberOfTasksToReceive, of every queue
  MaxConfigs,  \* bound on the different options that are ever saved
  MaxStops     \* bound on the ends of worker processes

ASSUME DispatcherAssumption ==
  /\ NoTask \notin Task
  /\ NoQueue \notin Queue
  /\ Default \in Queue
  /\ Dedicated \in [Worker -> Queue \cup {NoQueue}]
  /\ Receive \in Nat \ {0}
  /\ MaxConfigs \in Nat \ {0}
  /\ MaxStops \in Nat

VARIABLES
  config,        \* the saved options of the dispatcher
  saved,         \* history: all options that were ever saved
  known,         \* known[w]: the options process w has read, NotStarted before
  message,       \* message[t]: table and id of t's message, NoMessage before
  row,           \* row[t]: that row, by its "visible" column
  nextId,        \* nextId[q]: the next autoincremented id of q's table
  prefetch,      \* prefetch[w]: messages w has fetched and not yet returned
  cur,           \* cur[w]: the task w is executing
  acknowledged,  \* the tasks that were executed and acknowledged
  stops          \* how many worker processes have ended

configVars == <<config, saved>>
tableVars == <<message, row, nextId>>
processVars == <<known, prefetch, cur, stops>>
vars == <<configVars, tableVars, processVars, acknowledged>>

\* OPTION_QUEUES and OPTION_TASK_TO_QUEUE_ASSOCIATIONS; assertTasks() refuses
\* an association with a queue that is not registered.
Config ==
  {c \in [queues : SUBSET Queue, linked : [Task -> Queue \cup {NoQueue}]] :
     /\ Default \in c.queues
     /\ \A t \in Task : c.linked[t] \in c.queues \cup {NoQueue}}

NotStarted == [queues |-> {}]

NoMessage == [queue |-> NoQueue, id |-> 0]

TypeOK ==
  /\ config \in Config
  /\ saved \subseteq Config
  /\ known \in [Worker -> Config \cup {NotStarted}]
  /\ message \in [Task -> [queue : Queue \cup {NoQueue}, id : Nat]]
  /\ row \in [Task -> {"none", "visible", "hidden", "gone"}]
  /\ nextId \in [Queue -> Nat \ {0}]
  /\ prefetch \in [Worker -> SUBSET Task]
  /\ cur \in [Worker -> Task \cup {NoTask}]
  /\ acknowledged \subseteq Task
  /\ stops \in Nat

Init ==
  /\ config \in Config
  /\ saved = {config}
  /\ known = [w \in Worker |-> NotStarted]
  /\ message = [t \in Task |-> NoMessage]
  /\ row = [t \in Task |-> "none"]
  /\ nextId = [q \in Queue |-> 1]
  /\ prefetch = [w \in Worker |-> {}]
  /\ cur = [w \in Worker |-> NoTask]
  /\ acknowledged = {}
  /\ stops = 0

-----------------------------------------------------------------------------
(* The association.                                                         *)

Save(c) ==
  /\ config' = c
  /\ saved' = saved \cup {c}
  /\ Cardinality(saved') <= MaxConfigs
  /\ UNCHANGED <<tableVars, processVars, acknowledged>>

\* associate(), associateBulk(): the queue is registered unless it is already.
Associate(t, q) ==
  Save([queues |-> config.queues \cup {q},
        linked |-> [config.linked EXCEPT ![t] = q]])

\* deleteAndRemoveAssociations(): the table and its messages stay.
RemoveQueue(q) ==
  /\ q \in config.queues \ {Default}
  /\ Save([queues |-> config.queues \ {q},
           linked |-> [t \in Task |-> IF config.linked[t] = q THEN NoQueue
                                      ELSE config.linked[t]]])

\* getQueueForTask(): the linked queue, or else the default one.
QueueForTask(c, t) == IF c.linked[t] = NoQueue THEN Default ELSE c.linked[t]

-----------------------------------------------------------------------------
(* Messages.                                                                *)

\* The options a call to enqueue() goes by: those of a new request, or of a
\* worker whose task creates another task.
OptionsInUse == {config} \cup {known[w] : w \in {v \in Worker : cur[v] # NoTask}}

\* enqueue(): push() into the table of the task's queue.
Enqueue(t) ==
  /\ row[t] = "none"
  /\ \E c \in OptionsInUse :
       LET q == QueueForTask(c, t)
       IN  /\ message' = [message EXCEPT ![t] = [queue |-> q, id |-> nextId[q]]]
           /\ nextId' = [nextId EXCEPT ![q] = @ + 1]
  /\ row' = [row EXCEPT ![t] = "visible"]
  /\ UNCHANGED <<configVars, processVars, acknowledged>>

\* A process starts; asked for a queue that is not registered it ends at once.
Start(w) ==
  /\ known[w] = NotStarted
  /\ Dedicated[w] \in config.queues \cup {NoQueue}
  /\ known' = [known EXCEPT ![w] = config]
  /\ UNCHANGED <<configVars, tableVars, prefetch, cur, acknowledged, stops>>

\* The queues a worker takes tasks from.
Served(w) ==
  IF known[w] = NotStarted THEN {}
  ELSE IF Dedicated[w] # NoQueue THEN {Dedicated[w]} ELSE known[w].queues

PreFetched(w, q) == {t \in prefetch[w] : message[t].queue = q}

VisibleIn(q) == {t \in Task : row[t] = "visible" /\ message[t].queue = q}

\* Mutant of Batches: the SELECT does not filter on "visible".
BatchesOfAnyRow(q) ==
  {B \in SUBSET {t \in Task : message[t].queue = q} : Cardinality(B) = 1}

\* Mutant of Batches: fewer messages than asked for are none.
FullBatches(q) == {B \in SUBSET VisibleIn(q) : Cardinality(B) = Receive}

\* The result of the SELECT of doPop(), in any order.
Batches(q) ==
  {B \in SUBSET VisibleIn(q) :
     \/ B = VisibleIn(q) /\ Cardinality(B) <= Receive
     \/ Cardinality(B) = Receive}

\* dequeue() of a queue that has a message: of the dedicated one, or of one
\* the selection strategy picks.
Dequeue(w, q) ==
  /\ cur[w] = NoTask
  /\ q \in Served(w)
  /\ \/ \E t \in PreFetched(w, q) :
          /\ cur' = [cur EXCEPT ![w] = t]
          /\ prefetch' = [prefetch EXCEPT ![w] = @ \ {t}]
          /\ UNCHANGED row
     \/ /\ PreFetched(w, q) = {}
        /\ \E B \in Batches(q) : \E t \in B :
             /\ cur' = [cur EXCEPT ![w] = t]
             /\ prefetch' = [prefetch EXCEPT ![w] = @ \cup (B \ {t})]
             /\ row' = [u \in Task |-> IF u \in B THEN "hidden" ELSE row[u]]
  /\ UNCHANGED <<configVars, known, message, nextId, acknowledged, stops>>

\* Mutant of Acknowledge: associations are ignored.
AcknowledgeInDefault(w) ==
  /\ cur[w] # NoTask
  /\ row' = [u \in Task |->
               IF /\ message[u] = [queue |-> Default, id |-> message[cur[w]].id]
                  /\ row[u] = "hidden"
               THEN "gone" ELSE row[u]]
  /\ acknowledged' = acknowledged \cup {cur[w]}
  /\ cur' = [cur EXCEPT ![w] = NoTask]
  /\ UNCHANGED <<configVars, known, prefetch, message, nextId, stops>>

\* Where a worker acknowledges: Worker asks the dispatcher again which queue
\* the task belongs to, even if it was given a dedicated queue; a
\* LongRunningWorker that was given a queue knows nothing else.
AcknowledgedIn(w, t) ==
  {QueueForTask(known[w], t)} \cup ({Dedicated[w]} \ {NoQueue})

\* The task was executed.  The hidden row that has the id of its message in
\* the table of that queue is deleted.
Acknowledge(w) ==
  /\ cur[w] # NoTask
  /\ \E q \in AcknowledgedIn(w, cur[w]) :
       row' = [u \in Task |->
                 IF /\ message[u] = [queue |-> q, id |-> message[cur[w]].id]
                    /\ row[u] = "hidden"
                 THEN "gone" ELSE row[u]]
  /\ acknowledged' = acknowledged \cup {cur[w]}
  /\ cur' = [cur EXCEPT ![w] = NoTask]
  /\ UNCHANGED <<configVars, known, prefetch, message, nextId, stops>>

\* The process ends, by a signal or a crash; what is left of a batch of
\* another queue is forgotten even when it ends between two tasks.
Stop(w) ==
  /\ known[w] # NotStarted
  /\ stops < MaxStops
  /\ stops' = stops + 1
  /\ known' = [known EXCEPT ![w] = NotStarted]
  /\ prefetch' = [prefetch EXCEPT ![w] = {}]
  /\ cur' = [cur EXCEPT ![w] = NoTask]
  /\ UNCHANGED <<configVars, tableVars, acknowledged>>

Next ==
  \/ \E t \in Task, q \in Queue : Associate(t, q)
  \/ \E q \in Queue : RemoveQueue(q)
  \/ \E t \in Task : Enqueue(t)
  \/ \E w \in Worker : Start(w) \/ Acknowledge(w) \/ Stop(w)
  \/ \E w \in Worker, q \in Queue : Dequeue(w, q)

Spec == Init /\ [][Next]_vars

\* Workers go on, and a queue with messages is picked in the end; nobody has
\* to start a worker or to change the options.
FairSpec ==
  /\ Spec
  /\ \A w \in Worker : WF_vars(Acknowledge(w))
  /\ \A w \in Worker, q \in Queue : WF_vars(Dequeue(w, q))

-----------------------------------------------------------------------------
(* Correctness.                                                             *)

Holds(w, t) == cur[w] = t \/ t \in prefetch[w]

\* Options that were saved at some time know the queue t's message is in and
\* send t elsewhere: somebody has associated it while it was queued, or it was
\* enqueued by a process that still had other options.
Displaced(t) ==
  \E c \in saved :
    message[t].queue \in c.queues /\ QueueForTask(c, t) # message[t].queue

\* No task is executed by two workers or a second time, in whatever queue its
\* message is: neither a change of the association nor a message that was
\* deleted or left behind by mistake leads to that.
ExecutedOnce ==
  /\ \A t \in Task, v, w \in Worker : Holds(v, t) /\ Holds(w, t) => v = w
  /\ \A t \in acknowledged, w \in Worker : ~Holds(w, t)
  /\ \A t \in Task : row[t] = "visible" => t \notin acknowledged

\* An acknowledged message is deleted: it stays behind, hidden for ever, only
\* when the association of its task is or was another one.
AcknowledgedIsDeleted ==
  \A t \in acknowledged : row[t] = "gone" \/ Displaced(t)

\* A message that was not acknowledged is not deleted: only a displaced task
\* that has the same id in another table can take it away, before anybody
\* knows whether its worker will finish it.
DeletedIsAcknowledged ==
  \A t \in Task :
    row[t] = "gone" /\ t \notin acknowledged =>
      \E u \in acknowledged :
        /\ Displaced(u)
        /\ message[u].id = message[t].id
        /\ \E c \in saved : QueueForTask(c, u) = message[t].queue

\* As long as the association is never changed, exactly the messages of the
\* acknowledged tasks are deleted, although ids collide and workers end.
UnchangedIsExact ==
  saved = {config} =>
    \A t \in Task : row[t] = "gone" <=> t \in acknowledged

\* A message waits for a worker only while no running worker serves its queue,
\* as happens to a queue registered after all of them were started or to one
\* that was removed.  The strategy is taken to pick every queue it is given,
\* which WeightStrategy does not do for a queue of weight 0.
QueuesAreServed ==
  \A t \in Task :
    (row[t] = "visible") ~>
      (row[t] # "visible" \/ \A w \in Worker : message[t].queue \notin Served(w))
=============================================================================
