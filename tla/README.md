# TLA+ for the TAO task queue

A formal model of `extension-tao-task-queue`: the modules in this directory
describe how tasks are queued, executed, logged and repaired; TLC checks them
on small instances and TLAPS proves the most important properties for all
instances. Paths such as `model/Worker.php` are relative to `src/`.

## The system

Tasks are created by web requests, scripts or other tasks. A task becomes a
message in a queue and a record in the task log. Worker processes, any number
of them on any number of machines, take the messages out and execute the tasks.
The processes share two SQL tables and nothing else. In the browser a component
polls the log and shows the tasks of the user, who may remove finished ones or
clear the list.

| Component | Source | State | Operations |
|---|---|---|---|
| Queue | `model/Queue.php` | none of its own | `enqueue` (push, then add to the log), `dequeue` (pop, then set DEQUEUED), `acknowledge` |
| SQL broker | `model/QueueBroker/RdsQueueBroker.php`, `AbstractQueueBroker.php` | the queue table with its `visible` column; the messages each process has pre-fetched | `push`, `pop` (a batch in one transaction), `delete`, look-up and update for the stuck-task tools |
| Task log | `model/TaskLog.php`, `model/TaskLogBroker/RdsTaskLogBroker.php` | one record for each task: status, report, parent | `add`, `setStatus` (optionally only from a given status), `setReport`, `updateParent`, `deleteById`, `archive`, `archiveCollection`, `search` |
| Worker | `model/Worker.php` | the task at hand | `processTask`: claim, execute, decide the status, reschedule a remote synchroniser, report, update the parent, acknowledge |
| Worker loop | `model/LongRunningWorker.php` | iterations, empty polls, paused, shutdown | `run`, signal handlers, limit |
| Tasks | `model/Task/*` | parent id, children, master status | cloning, spawning |
| Dispatcher | `model/QueueDispatcher.php` | queues, association of tasks with queues | `createTask`, `enqueue`, `dequeue`, `acknowledge` |
| Task selectors | `model/TaskSelector/*` | index of the next queue | `pickNextTask`, `getWaitTime` |
| Stuck tasks | `model/Repository/StuckTask*`, `model/Service/RestartStuckTaskService.php`, `scripts/tools/StuckTask*` | none (they read and write the two tables) | search, restart, replace an orphan |
| SQS, NewSQL and in-memory brokers | `model/QueueBroker/*` | as the SQL broker, elsewhere | the same interface |
| Process manager | `model/Worker/WorkerProcessManager.php` | child processes | start, check memory, stop |
| Browser list | `views/js/component/*`, `views/js/controller/main.js` | elements, rows, badge, clear button, visibility, the report panel; the poller and the requests on the way | `loadData`, `addNewTask`, `removeAllFinished`, `showDetail`, open and close; poll, archive one, archive all, get a report |
| Controllers, scripts | `controller/*`, `scripts/tools/*` | - | one call each; `getAll` and `archive` are what the browser list calls |

How they interact: a request calls `QueueDispatcher::createTask()`, which calls
`Queue::enqueue()`, which calls the broker's `push()` and then the log's
`add()`. A worker calls `Queue::dequeue()`, which calls the broker's `pop()`
and then the log's `setStatus()`; `processTask()` then talks to the log, to the
queue (when the task spawns children or a clone) and, for a remote
synchroniser, to a remote TAO. Each of these calls is a statement of its own;
there is no transaction around any two of them.

The browser list calls `TaskQueueWebApi::getAll()` in a poll, `archive()` when
the user removes a row or clears the list, and `get()` for a report. Requests
and answers travel independently of each other: what an answer says was true
when it was given, and the user, another window and the workers have gone on by
the time it arrives.

What makes it hard:

* every pair of statements of one process may have any statement of another
  process between them;
* a process may end anywhere (a kill, the memory limit, a PHP `Error`, which is
  no `Exception`) and then forgets the messages it had pre-fetched, which stay
  hidden in the table;
* almost every database error is caught, logged and ignored, so a write may
  silently not happen;
* a parent's status is written by its own worker and by the workers of its
  children;
* a synchroniser replaces itself by a clone, again and again;
* an answer to a poll overlaps the creations, removals and clearings of the
  same page, and of another window;
* elements, rows, badge, button and the document's click handler are kept in
  step by events that call each other.

What correct means, component by component: a message is in one process's memory
at most and invisible to the others (broker); no task runs twice and none is
lost (queue, worker, log together); records move forward (log); a parent ends
with the verdict of its children (log, worker); a synchroniser does not claim
success when the remote side has only failed, and ends (worker); a limited
worker leaves no batch half-done, signals take effect, the queue is drained
(loop); priority is strict and nothing is forgotten (selectors); restarting
cancels nothing that could still be executed, replaces an orphan once, executes
a task again only as often as its message was pushed back too early, and helps
(stuck tasks); the list shows nothing that was never true, keeps its parts
together, asks to archive only what had finished, and ends as the server's
(browser list).

## The modules

| Module | Models | Notes |
|---|---|---|
| `TaskModel` | tasks, statuses, categories | a task is a model value; its metadata are the constants `Parent`, `MasterStatus`, `Remote`, `Clone` |
| `TaskLog` | the log table | an operator for each SQL statement; failed writes change nothing |
| `RdsQueueBroker` | the queue table and the pre-fetched messages | `doPop()` is one transaction and one step |
| `TaskQueue` | the composition: requests, tasks that spawn, workers, crashes, the remote side | `pc[w]` names the next statement of worker `w`; one action per statement |
| `QueuePromise` | abstract specification | what the queue promises, without tables and workers |
| `StuckTaskRestart` | the stuck-task command beside a running `TaskQueue` | extends `TaskQueue`, whose steps are its `QueueStep` |
| `TaskArchive` | requests that archive records beside a running `TaskQueue` | extends `TaskQueue`; a request reads and judges, then writes |
| `QueueDispatcher` | several queues, the association of tasks with them and its changes | stands alone: here a message is a row of one of several tables, with the id it has there |
| `WorkerLoop` | the loop of one worker, its signals and limit | the queue is two numbers; `processTask()` is one step |
| `StrictPriorityStrategy` | a worker on several queues | queues in configuration order, arrivals and other workers in between |
| `WeightStrategy` | the weighted draw | one draw a step; the queue is a function of the weights and the number |
| `TaskList` | elements and rows: `element.js`, `list.js` | a state class for each status; a row is an id in `list.rows`, `strays` are rows left behind a replaced element |
| `TaskQueueManager` | `manager.js` | badge, clear button, opening and closing, loading, adding and removing |
| `TaskListController` | `main.js`, beside the server | extends the manager; the requests and answers on the way are sets |
| `TaskListPromise` | abstract specification | what the page owes to the user, however the records move: every state shown was the task's at some time, and only tasks that had finished are asked to be archived |
| `MCTaskQueue`, `MCStuckTaskRestart`, `MCTaskArchive`, `MCQueueDispatcher`, `MCTaskSelectors` | instances for TLC | `WorkerLoop` and `TaskListController` need none |
| `TaskQueueProofs`, `TaskOutcomeProofs`, `StuckTaskProofs`, `TaskArchiveProofs`, `QueueDispatcherProofs`, `WorkerLoopProofs`, `SelectorProofs`, `TaskListProofs` | theorems and their proofs | the second to fourth build on the lemmas of the first |

### State and code

`log[t]` is the status column of the record of `t`. `table[t]` is the row of
its message: `none`, `visible`, `hidden` (`visible = 0`) or `gone` (deleted);
ids of rows are not modelled, because a task is pushed once and its id names its
row. `prefetch[w]` is `preFetchedQueue` of `AbstractQueueBroker` in process
`w`. `enq[t]` and `adding[w]` say that somebody is between `push()` and `add()`
in `Queue::enqueue()`. `remote` is what `getRemoteStatus()` would answer, one of
the four categories of a record (`created` counts as `in_progress`); the remote
record moves freely, because the TAO it is in archives records and brings them
back as this one does. `onlyFailed` is a history variable: all the remote record
has done so far is to leave `in_progress` for `failed`, once at most.
A task that creates children names each of
them with `addChildId()`; that call is the application's, so that it happens is
an assumption about the code that uses the queue (`HasChildren`).
`runs[t]` is a history variable: it counts the claims that touched the record,
each of which is followed by an execution.

Names of actions follow the code: `PopTask` and `MarkDequeued` are the two
statements of `Queue::dequeue()`; `Claim` and `Skip` the two outcomes of
`setStatus(RUNNING, DEQUEUED)`; `Finish` the execution and the decision on the
status; `PollRemote`, `ConfirmRemote`, `Reschedule` and `PollFails` the
synchroniser's branch, which asks the remote side twice (`Worker.php:219` and
`233`), each time for what it says by then;
`Report` and `DropRecord` the two branches that end it; `ReadFamily`,
`ParentNotFound` and `WriteParent` are `getById()` and `updateParent()`;
`Acknowledge` the last statement.

A batch is any set of visible rows of the right size: `created_at`, by which
the code sorts, has a resolution of one second, and rows of the same second come
in any order. Not to fix the order makes the model allow more than the code.
`Faults = TRUE` lets a push, a statement on the log, a deletion, or the request
to the remote side fail, in the way the code then takes. `CommitMayFail` is
apart, because it breaks what everything else relies on (see *Disagreements*).

In `TaskArchive`, `ReadRecords` is what `archive()` of the controllers or the
script reads with `findAvailableByUser()`, `getByIdAndUser()` or a collection of
ids, and `assertCanArchive()` judges; `archiving` holds what passed. Then
`ArchiveRecords` is the UPDATE, by id. The records are any that may be picked, of any
user; who may see which is not modelled. `archives` counts the requests
(`MaxArchives`).

In `QueueDispatcher`, `config` is the saved options (`queues` and `linked`, the two
options that `associate()`, `associateBulk()` and `deleteAndRemoveAssociations()`
change) and `known[w]` the options that process `w` has read: a service is read
from its configuration once for each process. `message[t]` is the table and the
`RdsMessageId` of the message. `acknowledge()` of a worker goes to the queue
`getQueueForTask()` names; a `LongRunningWorker` that was given a queue hands
itself that queue instead, in the class of the core extension it derives from,
which is external; the model allows both (`AcknowledgedIn`). Each task stands for a class
of its own, which allows more than classes of several tasks. `saved` and
`acknowledged` are history variables.

In `StuckTaskRestart` a search may find any of the ENQUEUED records: the age of a
record is not modelled, and a message may wait in the queue or in the memory of
a busy worker for longer than any age. Look-up, cancelling, creating, adding and
making visible are statements of their own. `searches` counts the runs of the
command (`MaxSearches`); `untimely[t]` is a history variable that counts how
often the message of `t` was made visible while a worker had it or after `t` was
executed (`InWork`).

In `WorkerLoop` a poll is answered (`FirstOfBatch`, `NoTask`) or fails: `doPop()`
catches what its statements throw, so that the worker takes the queue for empty
(`PopFails`) or has messages that are visible again (`CommitFails`), and only
`beginTransaction()` throws out of `dequeue()` (`DequeueFails`). The count `idle`
of empty polls stops at `MaxIdle`; the code
counts on, but `hasEnoughSpace()` only asks whether it is 0. Without a limit
the iterations are not counted. `idleBefore` and `begun` are history variables,
as is `barren` in `StrictPriorityStrategy`; `MaxMessages` bounds the arrivals
in both modules, `MaxCrashes` the crashes in `TaskQueue`.

For the browser, `taskElements[t]` is the manager's object of elements,
`list.rows` and `list.strays` the `li` nodes, `list.hidden` and `hidden` whether
the list and the component are hidden, `list.detail` whether a report covers the
rows, `badge` and `clearBox` what the badge and the clear button say,
`outsideClick` whether the handler for clicks on the document is registered. An
element carries its status and the state classes of its node, because
`setStatus()` removes the old class and adds the new one, and the buttons are
shown by CSS according to the class (`element.scss`). Handlers run to their end:
each event is one step with everything that it triggers, `listchange` and the
two recomputations included. `answers`, `archives`, `clears`, `gets`, `creating`
and `bursts` are what is on its way between page and server. The server reads
and judges the records in one statement and writes them by id in another:
`ReadArchive` and `ServeArchive` for one task, `ReadClear` and `ServeClear` for
all that are finished, with what was read in `judged` and `found` meanwhile.
`PollAll`, `ClearAnswered` and `ReportAnswered` are the moments the browser hears
of it. `poller` counts the pollers that
were stopped: the code of the core extension that polls is external, and is
taken to have one request on the way for each poller, which stopping does not
call back. `server[t]` is the category of the record and moves as `TaskQueue`
lets it: forward (`Progress`), out of a final category or of the archive again
(`Return`: a parent that reports CHILD_RUNNING after its verdict, a family judged
once more, a `dequeue()` or a report of an archived task), or away (`Delete`: a
synchroniser that was rescheduled; its clone has another id). `was[t]` is a
history variable, the states in which `t` was to be shown so far. `MaxEvents`
bounds the creations, removals, clearings, reports, failures and returns
together.

## The runs

`tlc -config <cfg> <module>`; each run takes seconds, `races`, `list` and
`dispatcher` one to two minutes, `stuck_quiet` and `stuck_helps` about three.

Type invariants are proved, for every value of the constants, in each module that
has theorems; `races` also checks that of the queue. The other runs leave theirs
out.

| Run | Configuration | Instance | Shows |
|---|---|---|---|
| `races` | `TQRaces` / `MCTaskQueue` | 2 workers, batches of 2, a parent with master status, its synchroniser child and a clone, a bad message; failing calls, one crash | `AtMostOnce`, `Exclusive`, `NothingLost`, `EnqueuedIsRestartable`, `OneOfTheChain`, `OwnStatusMovesForward`, and that the whole implements `QueuePromise` (`KeepsPromise`) |
| `settles` | `TQSettles` | 1 worker, a parent with two children, a synchroniser and its clone; no failing calls | `FamilyVerdict`, `AckedIsReported`; live: `RemoteSettles`, `EventuallyHandled` |
| `archived` | `TAArchived` / `MCTaskArchive` | 2 workers, a parent with master status, its child, which is a synchroniser, and a clone of the child; two requests archive any of the records, in progress or not (`Forced`); the remote record moves between all its categories; no failing calls | `RemoteReported`, `AccountedFor`, `StaysArchived`, `KeepsPromise`; live: `HandledOrRemoved` |
| `stuck_quiet` | `STQuiet` / `MCStuckTaskRestart` | 2 workers, two runs of the command, 3 tasks of which one is a bad message; failing calls, one crash or interrupted command | `CancelledOnlyIfOver`, `ReplacedOnce` |
| `stuck_helps` | `STHelps` / `MCStuckTaskRestart` | 2 workers, two runs of the command, 2 tasks, batches of 2, one crash or interrupted command | `ExecutedOncePerRestart`; live: `RestartHelps` |
| `loop` | `WLLoop` / `WorkerLoop` | batches of 3, no limit or a limit of 2, 7 messages | `BatchesAreFinished`, `PauseHolds`; live: `ShutdownStops`, `LimitEnds`, `QueueDrains` |
| `selectors` | `TSSelectors` / `MCTaskSelectors` | 3 queues of weights 10, 10, 90, polls that throw; all weightings of up to 3 queues with weights up to 2 | `StrictPriority`, `SleepsAfterRound`, `ProportionalChance`; live: `EveryQueueServed` |
| `dispatcher` | `QDDispatcher` / `MCQueueDispatcher` | 2 queues, a worker of both and one of the second only, 3 tasks with any associations, batches of 2, one change of the options, one end of a worker | `ExecutedOnce`, `AcknowledgedIsDeleted`, `DeletedIsAcknowledged`, `UnchangedIsExact`; live: `QueuesAreServed` |
| `list` | `TLList` / `TaskListController` | 2 tasks, one of which is created by a request of the page; three events in all: creations, removals, clearings, reports, failing requests or queries, returns of records | `RowsBacked`, `BadgeAgrees`, `OutsideClickCloses`, and that page and server implement `TaskListPromise` (`KeepsListPromise`); live: `ListConverges` |
| `skipped`, `stale_verdict`, `list_twice` | one cfg each | the smallest that shows it | a counterexample each, see *Disagreements* |

Why the bounds are enough to be worth it: two workers are all that is needed
for one to interleave with "another"; a batch of two leaves one message
pre-fetched while the other is processed; one crash is enough to strand a batch
and to have somebody else meet its remains; a parent needs two children for
the order of their reports to matter; one request archives several records at
once, each in another state of progress, and a second one meets what came back; one clone is enough for the clone to run
beside the original. In `loop` seven messages make two full batches and an
incomplete one. In `list` one task comes from the page and one from elsewhere,
so that a poll can bring either before or after the page adds it; two tasks are
enough for mixed outcomes in the badge. Three events are the creation of both
tasks and one more, or of one task and two more: a clearing with a poller that
was stopped while an answer is on the way, a refused clearing, an answer without
tasks, a record that comes back after it was shown or removed. In the `stuck_*`
runs two searches are what it takes for the second to find what the first left,
or to push back what the first had pushed back; in `stuck_quiet` the workers and
the tasks `a` and `n` are interchangeable (`Symmetry`), which is sound because the run
checks invariants only. The clone of `archived`
may find the remote record in another category than its original did.

`CHECK_DEADLOCK` is off for `WorkerLoop`, where a worker that has stopped and is
sent no message any more may really stop, and for `QueueDispatcher`, where polling
empty queues is no step. Two tasks are enough for ids that collide in two
tables, a third makes a batch of two beside them. Elsewhere a poll of an empty queue is
always possible.

### Fairness

* A worker is scheduled: weak fairness of polling and of the rest of the
  statements, for each worker. The code's loop has no way to block forever
  except inside a task.
* Whoever pushed goes on to `add()`: it is the next line.
* The remote task is not in progress for ever (`RemoteEnds`, a premise of
  `RemoteSettles`, `EventuallyHandled` and `HandledOrRemoved`): nothing obliges the
  remote side to finish.
* `WorkerLoop` and `StrictPriorityStrategy`: strong fairness of a poll that is
  answered: the connection may fail again and again but not forever; in
  `WorkerLoop` weak fairness of the loop as well.
* `StuckTaskRestart` and `TaskArchive`: a command or a request that was started
  goes on. Nobody has to start one, and nobody has to create a task, to crash or to send a signal.
* `QueueDispatcher`: a worker finishes its task, and the selection strategy picks
  a queue that has messages in the end (`EveryQueueServed`; the weighted draw does so
  with probability 1 if the queue has a weight; a queue of weight 0 is never drawn
  and `QueuesAreServed` does not hold for it). Nobody has to start a worker.
* `TaskListController`: the poller asks, answers to polls arrive, and what was
  sent arrives in the end (`Arrival`; an animation ends). Nothing makes the
  server's tasks progress or the user click; what travels is finite because
  `MaxEvents` is, and `ListConverges` is about what happens after it.

## The proofs

Nothing is assumed but the named assumptions on the constants (checked by TLC in
every run) and, where stated, `CommitMayFail = FALSE`, `Faults = FALSE`,
`MaxCrashes = 0`, that `Task` is finite, or `FamilyAssumption` (below).

`TaskQueueProofs`, for any sets of tasks and workers, any family tree, any
batch size, any number of crashes, with or without failing calls:
`TypeCorrect`; with a COMMIT that succeeds `ExecutedAtMostOnce`,
`MessagesExclusive`, `MessagesNotLost`, `EnqueuedRestartable`,
`RecordsMoveForward`, `PromiseKept` (the refinement of `QueuePromise`, step by
step); without failing calls `RemoteTruthful`: its invariant follows the two requests,
and while the remote record has only run and failed a worker that has asked the
second time is not about to report COMPLETED (`RemoteAnswered`).

The argument. `AtMostOnce` is not inductive: that a task is not claimed again
depends on nobody holding its message again, that on the row being hidden, that
on who pushed it. `IInv` is the conjunction of four groups:
`TInv` (types; a worker is idle exactly when it holds no task),
`QueueInv` (a held message is hidden and held once; a row exists exactly for the
messages that were pushed; whoever is to add a record is alone in it),
`RunInv` (a message that is visible, pre-fetched or only popped was never
started; a claimed task was started once; a record appears once, before the
task can be claimed) and `OwnInv` (the record of a task that nobody's children
write follows the worker of the task). The steps are proved group by group,
each using the earlier ones.

`TaskOutcomeProofs`, for the same instances with a COMMIT that succeeds:
`AcknowledgedIsReported` and `ChainTakesTurns`, crashes included;
`ParentsFound`, crashes and failing calls included; without failing calls
`FamiliesJudged`, and without crashes as well `NothingIsForgotten`.
The first adds to `TInv`, `QueueInv` and `RunInv` (`BaseInv`) what a worker *knows* at each step after the claim: the
record of its task has a final status, or the task is a synchroniser and a
clone of it was pushed. What is known stays true whatever the others do, because a
record is written by whoever enqueues its task, by the worker that has it, or as a
parent's (`LogWriters`). The second follows the chain of a synchroniser:
a task of it is *live* when it was pushed and not yet finished or replaced, and at
most one task of the chain is. A clone becomes live in the step that
ends its predecessor. `Task` is taken to be finite because
`OneOfTheChain` counts the synchronisers a parent created itself.

`ParentsFound`: `getById()` finds the parent whenever `processTask()` asks for it. Only
the record of a task that was replaced disappears, a task is polled and
replaced only if it created no children (`ChildlessPolling`), and from then on
it gets none: neither from itself nor as clones of others.

`FamiliesJudged` is `FamilyVerdict` for crashes, clones and any number of families, under
`FamilyAssumption`, of which each part is needed:

* *one worker*: with two, a parent may report CHILD_RUNNING after its children
  were judged (run `stale_verdict`), and a verdict that was decided before the last
  child was in the log may be written after the one that knows of it;
* *a child keeps its own status*: it has no children itself, or has the master
  status. `updateParent()` does not look further up (`TaskLog.php:215`), so with three
  generations the grandparent is judged too late even by one worker;
* *the message of a child is a task*: a rejected one is never reported.

The invariant (`FamilyInv`) follows the one worker. While a parent is processed
nobody gets to its children (`ChildrenWait`). The family of a task that was
replaced is not done, because its clone waits (`CloneWaits`). Whoever acknowledges
the last child has written what the children say, because all of it was
there when it read the family (`VerdictKnown`). A worker that ends in between leaves its message
hidden, so that the family is not done.

`NothingIsForgotten` is the safety half of `EventuallyHandled`: unless a task is in the
queue, with a worker or done with, it was not started and its record says
ENQUEUED, the status the stuck-task scripts ask for by default
(`AbstractStuckTask.php:56`). Of the early returns of `processTask()` only the one
before the claim lets go of a message; that no parent is missing is
`ParentsFound`. What a record says before its task is started follows the
enqueueing (`BeforeStart`).

`StuckTaskProofs`, for any tasks, any finite set of workers, any crashes and
searches, with or without failing calls, and with no assumption on the age of
records or on what the workers do between two statements of the command: `ToolTypeCorrect`,
`CancelledAreOver`, `OrphansReplacedOnce`, `NothingLostByRestarts`; with a COMMIT
that succeeds `ExecutionsCounted`. Beside the command neither "held once" means
"hidden" nor does a record follow its worker, so that most of `IInv` is lost.
`StuckInv` keeps what is left of it (`BaseInv`: a worker holds a message once, though
perhaps not alone, a held message was pushed, a claimed task was started, a
deleted message is of a task that was started or is no task) and adds what the
command knows: what it has in hand was enqueued to the end (`HandsDone`), what it
takes for an orphan is *over*, no task or started (`OrphansOver`), because the
message of anything else is still there; and what it replaced is *settled*, not
ENQUEUED and in nobody's hand any more (`ReplacedSettled`), which no worker and no
second search undoes. `ExecutionsCounted` counts the *chances* of a task: the
workers that have its message and have not claimed it yet, one for a visible
row, and the executions so far. Popping, claiming and crashing move a chance or
take one away; only making a hidden message visible adds one, and it does so
either where there was none or in an untimely way.

`TaskArchiveProofs`, for any tasks, workers, crashes and requests, forced or not,
when a COMMIT succeeds: `ArchivedAtMostOnce`, `PromiseKeptByArchiving`,
`RemovedStaysRemoved` and `AcknowledgedIsAccountedFor`; without failing calls,
whatever COMMIT does, `RemoteTruthfulInArchive`. Here too `OwnInv` is lost:
an archived record no longer follows its worker. `ArchiveInv` keeps `BaseInv`,
which speaks of records only where a message is concerned, and archiving touches no
message. What a worker knows of the record of its task becomes "final or
archived", which is why a record that was archived while its task ran does not
count against the worker that acknowledges it.

`QueueDispatcherProofs`, for any tasks, queues, workers, batch sizes and changes of
the options: `DispatcherTypeCorrect`, `ExecutedOnceInAnyQueue`,
`AcknowledgedMessagesDeleted`, `DeletedMessagesAcknowledged`,
`ExactWhileUnchanged`. The invariant (`DInv`) says that whatever a process goes by
was saved at some time and knows the queues of the messages the process holds
(`Informed`), that table and id together name one message (`DistinctRows`), and
that what is held or acknowledged is not visible (`Taken`). Hence an
acknowledgement that asks for another queue does so by options that displace
the task, and the row it finds there under the same id is not the task's own.

`WorkerLoopProofs`: `LoopTypeCorrect`, `LimitFinishesBatches`,
`PauseBeginsNothing`, for any batch size and any limits. The invariant
(`RoomLeft`) says that the iterations that are left suffice for what is
pre-fetched, unless the last batch followed a poll that brought nothing, because
the queue was empty or because the poll failed.

`SelectorProofs`, for any number of queues and any weights:
`StrategyTypeCorrect`, `PriorityIsStrict`, `SleepAfterFullRound` of the strict priority. The sorted
order is a `CHOOSE` by rank; the lemmas show that ranks are an injection of the queues into
`0..Queues-1`, hence a bijection; the invariant says that every queue before the
next index is barren in this round. Of the weighted draw `ChanceProportional` and
`WeightsAreChances`: every number that may be drawn picks the queue whose share
it is in, and a queue is picked by exactly as many numbers as it has weight. The
theorems are about `DrawSpec`; a step of `SelectorsSpec` is a `Draw` or leaves `draw`
alone. The sums are folds over the weights, and the library's induction theorems
cannot be used here; the lemmas take the least element of a set of naturals
instead (`Least`, `InductionUpTo`) and derive what a sum gains with each queue.

`TaskListProofs`, for any number of tasks and any `MaxEvents`:
`ListTypeCorrect`, `RowsAreBacked`, `BadgeAlwaysAgrees`, `OutsideClickMatches`,
`ListKeepsPromise` (the refinement of `TaskListPromise`, step by step). The
invariant has four parts. `Displayed` (types, `RowsBacked`, and that badge and
button are the ones computed from the elements) is inductive by itself.
`OutsideClickCloses` needs only the types. `RequestsTyped` types what is on the
way. `Truthful` is what the refinement needs: whatever an element, a stray row
or an answer on the way says of a task, its record has said at some time
(`was`), wherever it has moved since; hence what a late answer puts into the list
was true, and a click on a row with a finished state asks to archive only a task
that had finished. That it has finished *still*, when the server writes, is not
promised and does not hold (*Disagreements*).

Every safety property that a passing run checks is a theorem. Only model-checked:
`RemoteSettles`, `EventuallyHandled`, `HandledOrRemoved`, `RestartHelps`,
`ShutdownStops`, `LimitEnds`, `QueueDrains`, `EveryQueueServed`, `ListConverges` and
`QueuesAreServed`, which are liveness properties and depend on fairness and
`ENABLED` (out of this prover's reach).

## Disagreements

Met while modelling. These have a run with a counterexample.

* **`skipped`** - `Queue::enqueue()` pushes before it adds the record. A worker
  that pops the message in between finds no record to claim, takes the task for
  one "being executed by another worker" and drops it. The message stays
  hidden, unacknowledged, its record ENQUEUED: the stuck-task command finds it.
* **`stale_verdict`** - a parent writes its own CHILD_RUNNING after its
  children are in the queue; if another worker has processed them all by then,
  the verdict is overwritten and never written again.
* **`list_twice`** - `addNewTask()` (`manager.js:188`) does not ask whether the
  task is in the list. A poll may bring it there before the answer to its
  creation arrives, or during the 600 ms of `absorbBurst()`; then it has two
  rows, and the first keeps its state until the task is removed.

These were met as well and have no run of their own.

* `doPop()` pre-fetches before it commits; when COMMIT throws, the rows are
  visible again and also in the process's memory. `CommitMayFail = TRUE` lets
  this happen; `Exclusive` and `AtMostOnce` fail then.
* `RestartStuckTaskService` does not look at the record again, and nothing the
  command reads tells a record that waits from one that is stuck. It makes a
  message visible that a worker has taken meanwhile, or whose task it has
  executed; `dequeue()` of another worker writes DEQUEUED whatever the record says,
  and the task is executed again although "the task is being executed by another
  worker" (`Worker.php:170`): `AtMostOnce` fails, `ExecutedOncePerRestart` says how
  far. It cancels a task that was executed since the search and creates it anew.
* `setStatus()` after a restart is given the id of the row instead of the id of the
  task (`RestartStuckTaskService.php:71`) and touches no record.
* The synchroniser's status is FAILED only when the second request says so
  (`Worker.php:233`) and COMPLETED for every other answer but a first one that says
  it is running. A remote record that was archived answers `archived`
  (`TaskLogCategorizedStatus.php:36`), after a failure too, and so the synchroniser
  is COMPLETED; so it is when the remote record says `in_progress` to the second
  request after something else to the first. `RemoteReported` is therefore about
  remote tasks that have only run and failed.
* "Next time when defined task will be created, it will be assign to specified
  queue" (`README.md:151`): but workers of all queues started after the change acknowledge the
  tasks that were created before it in the new queue. Their messages stay behind,
  hidden, and a message of the new queue with the same id, which some worker has
  just taken, is deleted; should that worker end, it is gone. In
  `QueueDispatcher` this is what happens to `Displaced` tasks, and to no others.
* A queue that is registered while workers run is served by none of them, and a
  queue that is removed by none that is started afterwards; its messages stay.
* `assertCanArchive()` judges the entity read before and the UPDATE does not ask
  again: a task may be archived while it runs, although "Task cannot be archived
  because it is in progress" (`TaskLog.php:430`), and its worker's report brings it
  back. An ENQUEUED task may be archived at all; `dequeue()` brings it back.
* A child that is archived between its report and the SELECT of
  `updateParent()` is no child for it: a failed one does not count in the
  verdict, and a parent whose children are all archived stays CHILD_RUNNING.
* A parent that was archived comes back when a child's worker had read it before.
  This is why `StaysArchived` is about tasks with a status of their own.
* The page asks to archive a task that had finished; a record that has left its
  final state by the time the server reads it (a parent that waits for its
  children again, see `stale_verdict`) is refused, and one that leaves it between
  reading and writing is archived while it runs.
* When the clone of a synchroniser cannot be enqueued, the original is reported
  COMPLETED although the remote task is in progress (`RemoteReported` fails with
  `Faults = TRUE`).
* Among three generations, `updateParent()` completes a child that is a parent
  itself and does not look at that child's own parent, which stays
  CHILD_RUNNING (`FamilyVerdict`, one worker is enough).
* With two workers the clone of a synchroniser can be skipped like any other
  task, while the record of the original is deleted: the outcome of the remote
  task is never reported (`RemoteSettles`; this is why `settles` has one worker).
* An answer to a poll that was given before a task was created and arrives
  after it removes the new task from the list until the next poll
  (`manager.js:239-240`), although the comment there expects it to stay.
* `loadData()` compares the status after the update that made it equal
  (`manager.js:228-229`): a changed row is never highlighted.
* When the request to clear the list fails, or archives nothing, polling is not
  started again until a task is created (`main.js:49-52`). This is the
  exception `Abandoned` in `ListConverges`.
* `findAvailableByUser()` leaves out archived records only. A record the stuck-task
  command left CANCELLED has no category, so that building the collection
  throws; `search()` logs it and returns an empty collection. While such a
  record exists its user's list is empty, and `updateParent()` sees no children
  of a parent that has one (`LoggedChildren` models that).

## Not modelled

* Payload: reports, labels, parameters; sleeping times; the age of records (the
  stuck-task command may find any); the `LIKE` look-up of messages, which may find
  another message that mentions the id. Two tasks with the same id.
* A family of three generations: `updateParent()` completes a parent without
  looking whether it is a child itself (`TaskLog.php:215`), so its own parent is
  not judged until another child of that one reports.
* A task whose execution never ends blocks its worker and nothing can be said
  about it.
* In the browser: labels, icons and times (`element.js` 56-107), templates,
  animations, highlighting, the position of the list, `routes.js` (a table of
  paths). The server answers with one page of 20 tasks; the model has fewer.
* SQS: receipt handles, redelivery and the visibility timeout the code asks for
  (600 s) are the service's; a task that runs longer would be delivered to another
  worker and executed again, because `dequeue()` writes DEQUEUED whatever the record says. The
  NewSQL broker runs the transactions of the SQL broker with other ids. The
  in-memory broker belongs to the synchronous branch of `enqueue()`, one process
  without concurrency.
* In `QueueDispatcher`: the removal of the default queue, tasks that name their
  queue themselves (`QueueAssociableInterface`), synchronous queues, and two
  scripts that save options at the same time. The migration of messages is that of
  a predecessor's queue, creating tasks one by one.
* The pool of worker processes starts what `RunWorker` is and reads the load of
  the machine.
* Read-only queries, statistics and formatting; installation and configuration.

## What is left

Everything planned is modelled: the core (`TaskModel`, `TaskLog`,
`RdsQueueBroker`, `TaskQueue`, `QueuePromise`), `StuckTaskRestart`,
`TaskArchive`, `QueueDispatcher`, `WorkerLoop`, the selectors and the browser
list, each with its proofs. What would come next: synchronous queues, which
execute a task inside `enqueue()`; `NothingIsForgotten` beside the stuck-task
command, which is what makes `Stranded` tasks go on; and what one worker still
guarantees of a family with three generations.
