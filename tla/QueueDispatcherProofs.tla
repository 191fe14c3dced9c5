------------------------ MODULE QueueDispatcherProofs ------------------------
(***************************************************************************)
(* Theorems about several queues, for any tasks, queues and workers,       *)
(* dedicated or not, any batch size, and any changes of the association.   *)
(***************************************************************************)
EXTENDS QueueDispatcher, TLAPS

-----------------------------------------------------------------------------
(* The inductive invariant.                                                 *)

\* What a process goes by was saved at some time, and a worker that has or
\* had a batch of a queue has read that the queue exists.
Informed ==
  /\ config \in saved
  /\ \A w \in Worker :
       \/ /\ known[w] = NotStarted
          /\ cur[w] = NoTask
          /\ prefetch[w] = {}
       \/ /\ known[w] \in saved
          /\ Dedicated[w] \in known[w].queues \cup {NoQueue}
          /\ \A t \in Task : Holds(w, t) => message[t].queue \in Served(w)

\* An id names one row of a table, and some options sent the task there.
DistinctRows ==
  /\ \A t \in Task :
       row[t] # "none" =>
         /\ message[t].queue \in Queue
         /\ message[t].id < nextId[message[t].queue]
  /\ \A t \in Task : row[t] = "none" => message[t] = NoMessage
  /\ \A t \in Task :
       row[t] # "none" => \E c \in saved : QueueForTask(c, t) = message[t].queue
  /\ \A t, u \in Task : row[t] # "none" /\ message[t] = message[u] => t = u

\* A message that is held, or was acknowledged, is visible to nobody.
Taken ==
  /\ \A t \in Task, w \in Worker : Holds(w, t) => row[t] \in {"hidden", "gone"}
  /\ \A t \in acknowledged : row[t] \in {"hidden", "gone"}
  /\ \A w \in Worker : cur[w] \notin prefetch[w]

DInv ==
  /\ TypeOK
  /\ Informed
  /\ DistinctRows
  /\ Taken
  /\ ExecutedOnce
  /\ AcknowledgedIsDeleted
  /\ DeletedIsAcknowledged

-----------------------------------------------------------------------------

\* A process that has not started has read no options.
LEMMA NotStartedIsNoConfig == NotStarted \notin Config
BY DEF NotStarted, Config

\* Every task has a queue, and it is a registered one.
LEMMA QueueRegistered ==
  ASSUME NEW c \in Config, NEW t \in Task
  PROVE  QueueForTask(c, t) \in c.queues /\ QueueForTask(c, t) \in Queue
BY DEF QueueForTask, Config

\* Whatever options enqueue() goes by were saved.
LEMMA InUseWasSaved ==
  ASSUME TypeOK, Informed PROVE OptionsInUse \subseteq saved
BY DEF OptionsInUse, Informed

\* Invariants hold at the start.
LEMMA DStart == Init => DInv
<1> SUFFICES ASSUME Init PROVE DInv
  OBVIOUS
<1> USE DispatcherAssumption DEF Init
<1>1. TypeOK
  BY DEF TypeOK, NoMessage
<1>2. Informed
  BY DEF Informed
<1>3. DistinctRows /\ Taken
  BY DEF DistinctRows, Taken, Holds
<1>4. ExecutedOnce /\ AcknowledgedIsDeleted /\ DeletedIsAcknowledged
  BY DEF ExecutedOnce, AcknowledgedIsDeleted, DeletedIsAcknowledged, Holds
<1> QED
  BY <1>1, <1>2, <1>3, <1>4 DEF DInv

\* Once enqueued, a displaced task stays displaced as long as its message is
\* where it is and no options are forgotten.
LEMMA StaysDisplaced ==
  ASSUME saved \subseteq saved', NEW t \in Task, UNCHANGED message, Displaced(t)
  PROVE  Displaced(t)'
BY DEF Displaced

\* Changed options are options.
LEMMA SavedIsConfig ==
  ASSUME TypeOK, NEW q \in Queue, (\E t \in Task : Associate(t, q)) \/ RemoveQueue(q)
  PROVE  /\ config' \in Config
         /\ saved' = saved \cup {config'}
         /\ UNCHANGED <<tableVars, processVars, acknowledged>>
<1>1. CASE \E t \in Task : Associate(t, q)
  BY <1>1 DEF Associate, Save, TypeOK, Config
<1>2. CASE RemoveQueue(q)
  BY <1>2, DispatcherAssumption DEF RemoveQueue, Save, TypeOK, Config
<1> QED
  BY <1>1, <1>2

\* Changing the options moves no message.
LEMMA SaveStep ==
  ASSUME DInv, NEW q \in Queue, (\E t \in Task : Associate(t, q)) \/ RemoveQueue(q)
  PROVE  DInv'
<1> USE DEF DInv
<1>1. /\ config' \in Config
      /\ saved' = saved \cup {config'}
      /\ UNCHANGED <<tableVars, processVars, acknowledged>>
  BY SavedIsConfig
<1> USE <1>1 DEF tableVars, processVars
<1>2. TypeOK'
  BY DEF TypeOK
<1>3. Informed'
  BY DEF Informed, Holds, Served
<1>4. DistinctRows' /\ Taken' /\ ExecutedOnce'
  <2>1. DistinctRows'
    BY DEF DistinctRows
  <2> QED
    BY <2>1 DEF Taken, ExecutedOnce, Holds
<1>5. AcknowledgedIsDeleted'
  BY DEF AcknowledgedIsDeleted, TypeOK, Displaced
<1>6. DeletedIsAcknowledged'
  BY DEF DeletedIsAcknowledged, TypeOK, Displaced
<1> QED
  BY <1>2, <1>3, <1>4, <1>5, <1>6

\* A new message gets an id no other row of its table has.
LEMMA EnqueueStep ==
  ASSUME DInv, NEW t \in Task, Enqueue(t)
  PROVE  DInv'
<1> USE DEF DInv
<1>1. PICK c \in OptionsInUse :
        /\ message' = [message EXCEPT ![t] = [queue |-> QueueForTask(c, t),
                                              id |-> nextId[QueueForTask(c, t)]]]
        /\ nextId' = [nextId EXCEPT ![QueueForTask(c, t)] = @ + 1]
  BY DEF Enqueue
<1> DEFINE q == QueueForTask(c, t)
<1>2. c \in Config /\ q \in Queue
  BY InUseWasSaved, QueueRegistered DEF TypeOK
<1>3. /\ row[t] = "none"
      /\ row' = [row EXCEPT ![t] = "visible"]
      /\ UNCHANGED <<configVars, processVars, acknowledged>>
  BY DEF Enqueue
<1>4. t \notin acknowledged /\ \A w \in Worker : ~Holds(w, t)
  BY <1>3 DEF Taken
<1>5. /\ message'[t] = [queue |-> q, id |-> nextId[q]]
      /\ \A u \in Task : u # t => message'[u] = message[u] /\ row'[u] = row[u]
      /\ row'[t] = "visible"
      /\ nextId'[q] = nextId[q] + 1
      /\ \A p \in Queue : p # q => nextId'[p] = nextId[p]
  BY <1>1, <1>2, <1>3 DEF TypeOK
<1> USE <1>3 DEF configVars, processVars
<1> HIDE DEF q
<1>6. TypeOK'
  <2>1. [queue |-> q, id |-> nextId[q]] \in [queue : Queue \cup {NoQueue}, id : Nat]
    BY <1>2 DEF TypeOK
  <2>2. message' \in [Task -> [queue : Queue \cup {NoQueue}, id : Nat]]
    BY <1>1, <2>1 DEF TypeOK, q
  <2>3. nextId' \in [Queue -> Nat \ {0}] /\ row' \in [Task -> {"none", "visible", "hidden", "gone"}]
    BY <1>1, <1>2 DEF TypeOK, q
  <2> QED
    BY <2>2, <2>3 DEF TypeOK
<1>7. Informed'
  BY <1>4, <1>5 DEF Informed, Holds, Served
<1>8. DistinctRows'
  <2>1. \A u \in Task : row[u] # "none" => message[u] # message'[t]
    BY <1>2, <1>5 DEF DistinctRows, TypeOK
  <2>2. \A u \in Task : row[u] = "none" => message[u] # message'[t]
    BY <1>2, <1>5, DispatcherAssumption DEF DistinctRows, NoMessage
  <2>3. \A u \in Task :
          row'[u] # "none" => /\ message'[u].queue \in Queue
                              /\ message'[u].id < nextId'[message'[u].queue]
    BY <1>2, <1>5 DEF DistinctRows, TypeOK
  <2>4. \A u \in Task : row'[u] = "none" => message'[u] = NoMessage
    BY <1>5 DEF DistinctRows
  <2>5. \A u, v \in Task : row'[u] # "none" /\ message'[u] = message'[v] => u = v
    BY <1>5, <2>1, <2>2 DEF DistinctRows
  <2>6. \A u \in Task :
          row'[u] # "none" => \E d \in saved : QueueForTask(d, u) = message'[u].queue
    BY <1>5, InUseWasSaved DEF DistinctRows, q
  <2> QED
    BY <2>3, <2>4, <2>5, <2>6 DEF DistinctRows
<1>9. Taken' /\ ExecutedOnce'
  BY <1>4, <1>5 DEF Taken, ExecutedOnce, Holds
<1>10. AcknowledgedIsDeleted'
  BY <1>4, <1>5 DEF AcknowledgedIsDeleted, Displaced, TypeOK
<1>11. DeletedIsAcknowledged'
  BY <1>4, <1>5 DEF DeletedIsAcknowledged, Displaced, TypeOK
<1> QED
  BY <1>6, <1>7, <1>8, <1>9, <1>10, <1>11

\* Starting and stopping moves no message either.
LEMMA ProcessStep ==
  ASSUME DInv, NEW w \in Worker, Start(w) \/ Stop(w)
  PROVE  DInv'
<1> USE DEF DInv
<1>1. UNCHANGED <<configVars, tableVars, acknowledged>>
  BY DEF Start, Stop
<1>2. \A v \in Worker, t \in Task : Holds(v, t)' => Holds(v, t)
  BY DispatcherAssumption DEF Start, Stop, Holds, TypeOK
<1> USE <1>1, <1>2 DEF configVars, tableVars
<1>3. TypeOK'
  <2>1. CASE Start(w)
    BY <2>1 DEF TypeOK, Start
  <2>2. CASE Stop(w)
    BY <2>2 DEF TypeOK, Stop
  <2> QED
    BY <2>1, <2>2
<1>4. Informed'
  <2>1. CASE Start(w)
    <3>1. cur[w] = NoTask /\ prefetch[w] = {}
      BY <2>1, NotStartedIsNoConfig DEF Start, Informed, TypeOK
    <3>2. \A t \in Task : ~Holds(w, t)
      BY <3>1, DispatcherAssumption DEF Holds
    <3>3. \A v \in Worker : known'[v] = IF v = w THEN config ELSE known[v]
      BY <2>1 DEF Start, TypeOK
    <3>4. UNCHANGED <<cur, prefetch>>
      BY <2>1 DEF Start
    <3>5. Dedicated[w] \in config.queues \cup {NoQueue}
      BY <2>1 DEF Start
    <3> QED
      BY <3>2, <3>3, <3>4, <3>5 DEF Informed, Holds, Served
  <2>2. CASE Stop(w)
    <3>1. \A t \in Task : ~Holds(w, t)'
      BY <2>2, DispatcherAssumption DEF Stop, Holds, TypeOK
    <3>2. \A v \in Worker : v # w => known'[v] = known[v] /\ cur'[v] = cur[v]
                                     /\ prefetch'[v] = prefetch[v]
      BY <2>2 DEF Stop, TypeOK
    <3>3. known'[w] = NotStarted /\ cur'[w] = NoTask /\ prefetch'[w] = {}
      BY <2>2 DEF Stop, TypeOK
    <3> QED
      BY <3>1, <3>2, <3>3 DEF Informed, Served, Holds
  <2> QED
    BY <2>1, <2>2
<1>5. DistinctRows'
  BY DEF DistinctRows
<1>6. Taken' /\ ExecutedOnce'
  <2>1. \A v \in Worker : cur'[v] \notin prefetch'[v]
    <3>1. CASE Start(w)
      BY <3>1 DEF Start, Taken
    <3>2. CASE Stop(w)
      BY <3>2 DEF Stop, Taken, TypeOK
    <3> QED
      BY <3>1, <3>2
  <2> QED
    BY <2>1 DEF Taken, ExecutedOnce, TypeOK
<1>7. AcknowledgedIsDeleted' /\ DeletedIsAcknowledged'
  BY DEF AcknowledgedIsDeleted, DeletedIsAcknowledged, Displaced
<1> QED
  BY <1>3, <1>4, <1>5, <1>6, <1>7

\* A batch is hidden while it is taken.
LEMMA DequeueStep ==
  ASSUME DInv, NEW w \in Worker, NEW q \in Queue, Dequeue(w, q)
  PROVE  DInv'
<1> USE DEF DInv
<1>1. UNCHANGED <<configVars, known, message, nextId, acknowledged, stops>>
  BY DEF Dequeue
<1>2. PICK B \in SUBSET Task, t \in Task :
        /\ cur[w] = NoTask
        /\ cur' = [cur EXCEPT ![w] = t]
        /\ \/ /\ B = {} /\ t \in prefetch[w] /\ message[t].queue = q
              /\ prefetch' = [prefetch EXCEPT ![w] = @ \ {t}]
           \/ /\ t \in B
              /\ prefetch' = [prefetch EXCEPT ![w] = @ \cup (B \ {t})]
        /\ \A u \in B : row[u] = "visible" /\ message[u].queue = q
        /\ row' = [u \in Task |-> IF u \in B THEN "hidden" ELSE row[u]]
  <2>1. CASE \E t \in PreFetched(w, q) :
               /\ cur' = [cur EXCEPT ![w] = t]
               /\ prefetch' = [prefetch EXCEPT ![w] = @ \ {t}]
               /\ UNCHANGED row
    <3>1. row' = [u \in Task |-> IF u \in {} THEN "hidden" ELSE row[u]]
      BY <2>1 DEF TypeOK
    <3>2. PICK t \in PreFetched(w, q) :
            /\ cur' = [cur EXCEPT ![w] = t]
            /\ prefetch' = [prefetch EXCEPT ![w] = @ \ {t}]
      BY <2>1
    <3>3. t \in Task /\ t \in prefetch[w] /\ message[t].queue = q /\ cur[w] = NoTask
      BY <3>2 DEF PreFetched, TypeOK, Dequeue
    <3>4. {} \in SUBSET Task /\ \A u \in {} : row[u] = "visible" /\ message[u].queue = q
      OBVIOUS
    <3> QED
      BY <3>1, <3>2, <3>3, <3>4
  <2>2. CASE \E B \in Batches(q) : \E t \in B :
               /\ cur' = [cur EXCEPT ![w] = t]
               /\ prefetch' = [prefetch EXCEPT ![w] = @ \cup (B \ {t})]
               /\ row' = [u \in Task |-> IF u \in B THEN "hidden" ELSE row[u]]
    BY <2>2 DEF Dequeue, Batches, VisibleIn
  <2> QED
    BY <2>1, <2>2 DEF Dequeue
<1>3. q \in Served(w)
  BY DEF Dequeue
<1>4. known[w] # NotStarted
  BY <1>3 DEF Served
<1>5. \A v \in Worker, u \in Task :
        Holds(v, u)' => Holds(v, u) \/ (v = w /\ u \in B)
  BY <1>2 DEF Holds, TypeOK
<1>6. \A u \in Task : row'[u] = IF u \in B THEN "hidden" ELSE row[u]
  BY <1>2
<1>7. \A u \in B : u \in Task /\ u \notin acknowledged /\ \A v \in Worker : ~Holds(v, u)
  BY <1>2 DEF Taken, TypeOK
<1> USE <1>1 DEF configVars
<1>8. TypeOK'
  BY <1>2 DEF TypeOK
<1>9. Informed'
  <2> SUFFICES ASSUME NEW v \in Worker
               PROVE  \/ /\ known[v] = NotStarted
                         /\ cur'[v] = NoTask
                         /\ prefetch'[v] = {}
                      \/ /\ known[v] \in saved
                         /\ Dedicated[v] \in known[v].queues \cup {NoQueue}
                         /\ \A u \in Task :
                              Holds(v, u)' => message[u].queue \in Served(v)
    BY DEF Informed, Holds, Served
  <2>1. CASE v = w
    BY <1>2, <1>3, <1>4, <1>5, <2>1 DEF Informed
  <2>2. CASE v # w
    BY <1>2, <2>2 DEF Informed, TypeOK, Holds
  <2> QED
    BY <2>1, <2>2
<1>10. DistinctRows'
  BY <1>2, <1>6 DEF DistinctRows
<1>11. Taken'
  <2>1. \A v \in Worker : cur'[v] \notin prefetch'[v]
    BY <1>2, <1>7 DEF Taken, TypeOK, Holds
  <2>2. \A u \in Task, v \in Worker : Holds(v, u)' => row'[u] \in {"hidden", "gone"}
    BY <1>5, <1>6 DEF Taken
  <2>3. \A u \in acknowledged' : row'[u] \in {"hidden", "gone"}
    BY <1>6 DEF Taken, TypeOK
  <2> QED
    BY <2>1, <2>2, <2>3 DEF Taken
<1>12. ExecutedOnce'
  <2>1. \A u \in Task, x, y \in Worker : Holds(x, u)' /\ Holds(y, u)' => x = y
    BY <1>5, <1>7 DEF ExecutedOnce
  <2>2. \A u \in acknowledged, v \in Worker : ~Holds(v, u)'
    BY <1>5, <1>7 DEF ExecutedOnce, TypeOK
  <2>3. \A u \in Task : row'[u] = "visible" => u \notin acknowledged
    BY <1>6 DEF ExecutedOnce
  <2> QED
    BY <2>1, <2>2, <2>3 DEF ExecutedOnce
<1>13. AcknowledgedIsDeleted'
  BY <1>6, <1>7 DEF AcknowledgedIsDeleted, Displaced, TypeOK
<1>14. DeletedIsAcknowledged'
  BY <1>6, <1>7 DEF DeletedIsAcknowledged, Displaced, TypeOK
<1> QED
  BY <1>8, <1>9, <1>10, <1>11, <1>12, <1>13, <1>14

\* An acknowledgement deletes the message of its own task, or else the task
\* is displaced and so is whatever else was deleted.
LEMMA AcknowledgeStep ==
  ASSUME DInv, NEW w \in Worker, Acknowledge(w)
  PROVE  DInv'
<1> USE DEF DInv
<1>0. PICK t \in Task : cur[w] = t
  BY DEF Acknowledge, TypeOK
<1>1. PICK q \in AcknowledgedIn(w, t) :
      /\ cur[w] # NoTask
      /\ row' = [u \in Task |->
                   IF message[u] = [queue |-> q, id |-> message[t].id] /\ row[u] = "hidden"
                   THEN "gone" ELSE row[u]]
      /\ acknowledged' = acknowledged \cup {t}
      /\ cur' = [cur EXCEPT ![w] = NoTask]
      /\ UNCHANGED <<configVars, known, prefetch, message, nextId, stops>>
  BY <1>0 DEF Acknowledge
<1>2. t \in Task /\ Holds(w, t)
  BY <1>0 DEF Holds
<1>3. /\ known[w] \in saved /\ known[w] \in Config
      /\ message[t].queue \in Served(w)
      /\ message[t].queue \in known[w].queues
  BY <1>1, <1>2, NotStartedIsNoConfig DEF Informed, TypeOK, Served
<1>4. row[t] \in {"hidden", "gone"} /\ message[t].queue \in Queue
  BY <1>2 DEF Taken, DistinctRows
<1>5. message[t] = [queue |-> message[t].queue, id |-> message[t].id]
  BY <1>2 DEF TypeOK
<1>6. q = message[t].queue => row'[t] = "gone"
  BY <1>1, <1>2, <1>4, <1>5
<1>7. q # message[t].queue => q = QueueForTask(known[w], t) /\ Displaced(t)
  BY <1>1, <1>3, NotStartedIsNoConfig DEF Displaced, Served, AcknowledgedIn
<1>8. \A u \in Task :
        row'[u] # row[u] => /\ row[u] = "hidden" /\ row'[u] = "gone"
                            /\ message[u] = [queue |-> q, id |-> message[t].id]
  BY <1>1
<1>9. \A u \in Task : row'[u] # row[u] /\ u # t => q # message[t].queue
  BY <1>2, <1>4, <1>5, <1>8 DEF DistinctRows
<1>10. \A v \in Worker, u \in Task :
         Holds(v, u)' => Holds(v, u) /\ ~(v = w /\ u = t)
  BY <1>0, <1>1, DispatcherAssumption DEF Holds, TypeOK, Taken
<1> USE DEF configVars
<1>11. TypeOK'
  BY <1>1, <1>2 DEF TypeOK
<1>12. Informed'
  <2>1. \A v \in Worker : known'[v] = NotStarted => cur'[v] = cur[v]
    BY <1>1, <1>3, NotStartedIsNoConfig DEF TypeOK
  <2> QED
    BY <1>1, <1>10, <2>1 DEF Informed, Served
<1>13. DistinctRows'
  <2>1. \A u \in Task : row'[u] = "none" <=> row[u] = "none"
    BY <1>1
  <2> QED
    BY <1>1, <2>1 DEF DistinctRows
<1>14. Taken'
  <2>1. \A u \in Task : row[u] \in {"hidden", "gone"} => row'[u] \in {"hidden", "gone"}
    BY <1>8
  <2>2. \A v \in Worker : cur'[v] \notin prefetch'[v]
    BY <1>1, DispatcherAssumption DEF Taken, TypeOK
  <2>3. \A u \in acknowledged' : row'[u] \in {"hidden", "gone"}
    BY <1>1, <1>2, <1>4, <2>1 DEF Taken, TypeOK
  <2> QED
    BY <1>10, <2>1, <2>2, <2>3 DEF Taken
<1>15. ExecutedOnce'
  <2>1. \A v \in Worker : ~Holds(v, t)'
    BY <1>2, <1>10 DEF ExecutedOnce
  <2>2. \A u \in acknowledged', v \in Worker : ~Holds(v, u)'
    BY <1>1, <1>10, <2>1 DEF ExecutedOnce, TypeOK
  <2>3. \A u \in Task : row'[u] = "visible" => u \notin acknowledged'
    BY <1>1, <1>4, <1>8 DEF ExecutedOnce
  <2> QED
    BY <1>10, <2>2, <2>3 DEF ExecutedOnce
<1>16. AcknowledgedIsDeleted'
  <2> SUFFICES ASSUME NEW u \in acknowledged' PROVE row'[u] = "gone" \/ Displaced(u)
    BY <1>1 DEF AcknowledgedIsDeleted, Displaced
  <2>1. CASE u = t
    BY <1>6, <1>7, <2>1
  <2>2. CASE u \in acknowledged
    BY <1>8, <2>2 DEF AcknowledgedIsDeleted, TypeOK
  <2> QED
    BY <1>1, <2>1, <2>2
<1>17. DeletedIsAcknowledged'
  <2> SUFFICES ASSUME NEW u \in Task, row'[u] = "gone", u \notin acknowledged'
               PROVE  \E x \in acknowledged' :
                        /\ Displaced(x)
                        /\ message[x].id = message[u].id
                        /\ \E c \in saved : QueueForTask(c, x) = message[u].queue
    BY <1>1 DEF DeletedIsAcknowledged, Displaced
  <2>1. CASE row[u] = "gone"
    BY <1>1, <2>1 DEF DeletedIsAcknowledged
  <2>2. CASE row[u] # "gone"
    <3>1. u # t /\ message[u] = [queue |-> q, id |-> message[t].id]
      BY <1>1, <1>8, <2>2
    <3>2. Displaced(t) /\ q = QueueForTask(known[w], t)
      BY <1>7, <1>9, <2>2, <3>1
    <3> QED
      BY <1>1, <1>3, <3>1, <3>2
  <2> QED
    BY <2>1, <2>2
<1> QED
  BY <1>11, <1>12, <1>13, <1>14, <1>15, <1>16, <1>17

\* Every step keeps the invariant.
LEMMA DStep == DInv /\ [Next]_vars => DInv'
<1> SUFFICES ASSUME DInv, [Next]_vars PROVE DInv'
  OBVIOUS
<1>1. ASSUME NEW t \in Task, NEW q \in Queue, Associate(t, q) PROVE DInv'
  BY <1>1, SaveStep
<1>2. ASSUME NEW q \in Queue, RemoveQueue(q) PROVE DInv'
  BY <1>2, SaveStep
<1>3. ASSUME NEW t \in Task, Enqueue(t) PROVE DInv'
  BY <1>3, EnqueueStep
<1>4. ASSUME NEW w \in Worker, Start(w) \/ Stop(w) PROVE DInv'
  BY <1>4, ProcessStep
<1>5. ASSUME NEW w \in Worker, NEW q \in Queue, Dequeue(w, q) PROVE DInv'
  BY <1>5, DequeueStep
<1>6. ASSUME NEW w \in Worker, Acknowledge(w) PROVE DInv'
  BY <1>6, AcknowledgeStep
<1>7. CASE UNCHANGED vars
  <2> USE <1>7 DEF vars, configVars, tableVars, processVars, DInv
  <2>1. TypeOK'
    BY DEF TypeOK
  <2>2. Informed'
    BY DEF Informed, Holds, Served
  <2>3. DistinctRows'
    BY DEF DistinctRows
  <2>4. Taken' /\ ExecutedOnce'
    BY DEF Taken, ExecutedOnce, Holds
  <2>5. AcknowledgedIsDeleted' /\ DeletedIsAcknowledged'
    BY DEF AcknowledgedIsDeleted, DeletedIsAcknowledged, Displaced
  <2> QED
    BY <2>1, <2>2, <2>3, <2>4, <2>5
<1> QED
  BY <1>1, <1>2, <1>3, <1>4, <1>5, <1>6, <1>7 DEF Next

\* The invariant holds in every reachable state.
LEMMA DAlways == Spec => []DInv
<1> QED
  BY DStart, DStep, PTL DEF Spec

-----------------------------------------------------------------------------
(* The theorems.                                                            *)

\* The variables of the dispatcher keep their types.
THEOREM DispatcherTypeCorrect == Spec => []TypeOK
<1>1. DInv => TypeOK
  BY DEF DInv
<1> QED
  BY <1>1, DAlways, PTL

\* No task is executed twice, in whatever queue its message is.
THEOREM ExecutedOnceInAnyQueue == Spec => []ExecutedOnce
<1>1. DInv => ExecutedOnce
  BY DEF DInv
<1> QED
  BY <1>1, DAlways, PTL

\* acknowledge() leaves the message behind only for displaced tasks.
THEOREM AcknowledgedMessagesDeleted == Spec => []AcknowledgedIsDeleted
<1>1. DInv => AcknowledgedIsDeleted
  BY DEF DInv
<1> QED
  BY <1>1, DAlways, PTL

\* acknowledge() takes the message of another task away only for displaced ones.
THEOREM DeletedMessagesAcknowledged == Spec => []DeletedIsAcknowledged
<1>1. DInv => DeletedIsAcknowledged
  BY DEF DInv
<1> QED
  BY <1>1, DAlways, PTL

\* While the association has never been changed no task is displaced, and
\* exactly the messages of the acknowledged tasks are deleted.
THEOREM ExactWhileUnchanged == Spec => []UnchangedIsExact
<1>1. DInv => UnchangedIsExact
  <2> SUFFICES ASSUME DInv, saved = {config}, NEW t \in Task
               PROVE  row[t] = "gone" <=> t \in acknowledged
    BY DEF UnchangedIsExact
  <2>1. \A u \in Task : row[u] # "none" => ~Displaced(u)
    BY DEF DInv, DistinctRows, Displaced
  <2>2. \A u \in acknowledged : u \in Task /\ row[u] # "none"
    BY DEF DInv, Taken, TypeOK
  <2> QED
    BY <2>1, <2>2 DEF DInv, AcknowledgedIsDeleted, DeletedIsAcknowledged
<1> QED
  BY <1>1, DAlways, PTL
=============================================================================
