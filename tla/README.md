# Formal models of the workforce management API

The service runs delivery trips. A *trip* has *tasks* (accept the trip, pick
up, deliver, bring back), a task has *todos* (set off, check in, take a photo,
hand over ...). A driver's app executes todos one after the other, a dispatcher
cancels tasks or trips, and the service keeps other systems in step: the
Melonade workflow engine, the fleet service, the Weomni credit wallet, Kafka.

State lives in MongoDB documents that are read and written one at a time. There
are no transactions and no locks: a handler reads, checks, writes, calls
another service, and when something fails it writes back what it read. Nearly
everything that is hard about this code follows from that sentence, and it is
what the modules here are about.

`src/...` below is the repository; `tla/` is this directory.

## 1. Inventory

| Component | Code | State it keeps | Operations | Talks to |
|---|---|---|---|---|
| Status derivation | `utils/trip.util.js`, `utils/task.util.js`, enums in `models/*.repository.js` | none | `getTripStatus`, `getRefOrderTripStatus`, predicates on tasks | called by execution and cancellation |
| Todo execution | `domains/taskType/*.js` | status of trip, tasks, todos; times on the trip | accept, set off, record, pick up, receipt, deliver, return | documents, wallet, fleet, Melonade |
| Cancellation | `domains/trip/trip.js` | the same documents | `cancelTask`, `cancelTrip` | documents, Melonade |
| Credit wallet | `domains/weomni/*.js`, `domains/trip/updateMetadata.js` | `metadata.weomniTxRef` of the trip, `result` of the todo, holds in the wallet | hold, release, capture, pay out | accept and deliver call it |
| Kafka consumer | `libraries/kafka/*.js` | connection, retry counters, commits to repeat | poll, handle, retry, commit, disconnect | workers are its callbacks |
| On-demand order workflow | `libraries/conductor`, `services/conductor/v1`, `domains/conductor` | the workflow's data (in the Conductor engine), tasks and trip of an order, `workflowTaskId` of both | map, create tasks, create trip, find a driver, schedule, transport, sum up; the failure flow | Conductor calls the workers; documents, fleet, Kafka |
| Legacy todo flow | `domains/todo`, `domains/trip/cancelTrip.js`, `tripValidateComplete.js`, `domains/reject` | the same documents | configured status changes, tracking, cancel, reject | documents, Conductor, Kafka |
| Saga workers | `workers/melonade/*` | task list and order of a trip, staffs of tasks | remove, reorder, number, assign, delete; a compensation for each | Melonade calls them |
| Trip creation | `domains/trip/trip.js` (create), `domains/trip/create.js`, `addTaskToTrip.js` | `tripId` of tasks, `tasks` of trips | check, insert, bind, roll back, add | documents |
| Auto-assignment | `domains/task/autoAssignTask.js` | a cache of assignments | match drivers and tasks | fleet, cache, trips |
| Accept limit, sequence ids, trip metadata | `acceptTrip.js` 322-347, `domains/generateSequenceId`, `domains/sequence`, `domains/trip/updateMetadata*.js`, `updateStaffsToTrip.js`, `removeStaffOfTrip.js` | counters that expire; `metadata` and `staffs` of trips | count active trips; next id; write the id; merge metadata; assign and remove staffs | documents, wallet; the transport workflow assigns |
| Task list | `workers/wfm/taskMonitorList.worker.js`, `domains/task/wfm`, `domains/wfm/task`, `services/elasticsearch` | a document per task in a search index | index or remove after every write of a task, compare and touch, search, summarise | Kafka brings the messages; documents, Elasticsearch |
| Task writes of the work-force system | `domains/task/task.js`, `update.js`, `updateTracking.js`, `workers/melonade/wfm`, `workers/wfm` | status, staff, metadata, tracking of tasks | update by id or order, close a work order, two saga steps with their compensations | documents; Melonade and Kafka call them |
| Workflow adapters, messaging, REST, gRPC | `adapters`, `api`, `controllers`, `services` | none of their own | translate a call | one domain operation each |
| Persistence, master data, exports, appointments of the work-force system | `models`, `domains/staff` ..., rest of `domains/wfm`, `Export-member` | single documents | create, read, update, delete | - |

What makes the modelled ones correct, and what is hard about each:

* **Status derivation** is called at different times by different handlers, and
  two functions with different priorities derive a trip status and the status of
  an order. They have to agree when the trip is over.
* **Todo execution** checks a snapshot and writes several awaits later. Between
  the two, another request or a cancellation may run. `Promise.all` rejects while
  other writes are in flight, and the catch block then races with the writes it
  is undoing. Correct means: alone, a request happens entirely or not at all;
  with others, no status appears that nobody caused; a trip is accepted once and
  has a transport; a task handed over is complete, which the code does not keep.
* **Cancellation** has no rollback, and whoever cancels the *last* task closes
  the trip, decided by a read after the write. Correct means: somebody always
  closes it, nobody twice, and a completed trip has no open task.
* **Credit wallet**: the wallet and the database fail independently, and an
  answer may be lost. Correct means: money is held for a trip under way or given
  back, a delivered trip is settled, nothing is charged twice.
* **Kafka consumer**: commits are not awaited, may be repeated late, and the
  partition may move. Correct means: nothing undone is committed, and a message
  that always fails does not stop the others.

* **Order workflow**: a step that fails is tried again and creates its documents
  anew, a step that takes too long takes the workflow with it, and the workflow,
  the driver and a cancellation all write the same trip. Correct means: an order
  goes on with a trip of its own tasks, a failed or cancelled order leaves nothing
  open, it is paid for after it is delivered, and it is planned or ends.
* **Legacy todo flow**: a todo, its task and its trip are three writes, the engine
  is told in between, and the trip is read, then written whole. Correct means: a
  trip is DONE when its todos are, one task is under way at a time, and the
  engine goes on when the last task is delivered.
* **Trip planning** (creation, adding, sagas): "the tasks have no trip" is checked
  before they are bound, and a compensation writes back what its step read.
  Correct means: a task is in one trip, and an undone saga leaves no trace.
* **Accept limit and metadata**: the active trips are counted, and the trip is
  accepted awaits later and assigned later still; the metadata is one field that
  three writers read, merge and write whole. Correct means: a driver has no more
  trips than the limit and one reference id for all, a number is given once, and
  what one wrote the others keep.
* **Auto-assignment**: free time is what shift, pauses, trip, tasks and reserved
  times leave, with clock times at GMT+7 and dates in UTC; calls share a cache.
  Correct means: what is handed out is free, in time and handed out once; of an
  appointment, whose time is fixed, the second is not kept.
* **Task list**: the index is written after a second read of the task, by a worker
  that swallows its errors, while tasks are written, deleted and touched and the
  partition moves. Correct means: once the messages of a task are handled the list
  shows it as it is, a task that is missing comes back, the new search finds what
  the old list showed, and a task counts once in a summary.
* **Saga steps on tasks** write back what they read. Correct means: a step that was
  undone leaves no trace.

`PROJECT.json` lists the hazards one by one with the line where each bites and
the property that covers it, or the reason none does yet.

## 2. Modules

    TripStatus                       enums and pure functions
      TripLifecycle                  abstract: what a lone caller is promised
      TodoExecution                  handlers and cancellations, interleaved
        TodoExecutionAlone           refinement TodoExecution -> TripLifecycle
          MCTodoExecution            tables of small trips for TLC
          TodoExecutionAlone_proofs  one request at a time (extends TodoExecution_proofs)
        TodoExecution_proofs         any number of requests
    CreditWallet                     wallet and documents around one trip
      CreditWallet_proofs
    KafkaConsumer                    one partition, one consumer group
      KafkaConsumer_proofs
    OrderWorkflow                    an on-demand order: engine, driver, cancellations
      MCOrderWorkflow                retry counts for TLC
      OrderWorkflow_proofs
    TimeSlots                        slot arithmetic, pure
      TripPlanning                   creations, additions, sagas on trips and tasks
        AutoAssign                   handing out tasks while trips are planned
          MCAutoAssign               situations for TLC
          AutoAssign_proofs
    MultipleAccept                   several trips of one driver; trip metadata
      MCMultipleAccept               symmetry and constraints for TLC
      MultipleAccept_proofs
    TaskSearch                       index documents, queries, summary: pure (uses TripStatus)
      TaskIndex                      writes of tasks, their messages, the worker, the sync
        MCTaskIndex                  situations, queries and deadlines for TLC
        TaskIndex_proofs

### TodoExecution

`trip`, `task` and `todo` are the three collections; only fields a guard or a
property looks at are kept (status, `pickedUpTime`, `deliveredTime`). `Slot` is
a request being served. For each slot, `pc` is the await it is at, `job` what it
was asked, `seen` the snapshot of `getTaskTypeAndTodo`, `sent` the writes it is
waiting for and `stray` the writes still in flight after it stopped waiting.

| Code | Action |
|---|---|
| dispatcher and first check of a handler, up to the first await | `AcceptTrip`, `PickUp`, `Delivery`, `ReturnTask` (of `SetOff`, `RecordTodo`, `Summary`, `Receipt`, `HandOver`) |
| `validatePickedUp`, `validateToDelivered` | `ValidatePickedUp`, `ValidateDelivered`, `RefuseHandOver` |
| staff, wallet, fleet calls before the first write | `CallsReturn`, `RefuseAccept` |
| writes awaited together, then the trip | `Land` for each write, then `AdvanceTrip` or `CompleteDelivery` |
| tracking URLs, then the transport workflow | `FinishAccept` |
| `cancelTask`, `cancelTrip`, `updateTripStatus` | `CancelTask`, `CancelTrip`, `CloseCancelledTask`, `CloseCancelledTrip` |
| catch block | `Restore` inside the fault, then `Restored` |
| an error at an await | `WriteFails`, `AckLost`, `CallFails`, `RestoreFails` |
| a write that lands after its handler gave up | `LandStray` |

`InOrder` says whether writes of one handler to one document keep their order.
The driver opens connections from a pool and does not promise it, so the runs
about interleaving set it to `FALSE`. The refinement is checked with `TRUE`, and proved
for either (see below).

Abstractions, each of which loses only what no property looks at:

* `populate` (the nested reads of a snapshot) is one read; the second read a
  combined order makes is left out, and so is the check of the order ticket.
* `updateMany` of a cancellation is one write per task.
* What todos record (positions, photos, amounts) and log lines are left out.
* `started` counts workflow calls up to `MaxCount = 2`.
* A slot is reused only when its stray writes have landed (a bound).
* A request that is refused by its first check changes nothing and is no action;
  a state where every request would be refused is a deadlock of the model and
  not of the program, hence `CHECK_DEADLOCK FALSE` in some runs.

Behaviour worth knowing that the model shows and no document contradicts:

* Two *last* deliveries can each see the other open and both write `DOING`
  (`delivery.js:650`): the trip then stays open with every task done.
* A handler that checked the trip before a cancellation writes `DOING` into the
  cancelled trip: `updateTrip.js` has no condition, and the cancellation workflow
  runs all the same.
* A todo that is written and then taken back can be counted meanwhile: a check-in
  writes its todo while the write of the trip next to it is refused, `validatePickedUp`
  of another request (`pickUp.js:390`) finds every todo of the task done and goes ahead,
  and the catch block of the first opens the todo again (`pickUp.js:202`). The task is
  DONE with an open todo, which the error at `pickUp.js:419` is there to prevent (run
  `hand_over`). A receipt and a delivery do the same to one another.
* When writes are not ordered, a write in flight can overtake the catch block
  that undoes it (`acceptTrip.js:432`, `:497`), so that a failed request leaves
  a trace. `StatusHasCause` bounds what such a trace can be.
* An acceptance or a pickup that is the last open task leaves the trip `DOING`
  with every task completed: only deliveries and cancellations close a trip. When
  a delivery was done before such a pickup and `cancelTrip` then finds no open task,
  the trip is closed as cancelled while its order shows `DONE`; `OrderShowsTripStatus`
  excuses a cancellation with no task left to cancel.
* A delivery is refused while *any* todo before it is open, an optional one as well;
  the message blames a required one (`delivery.js:561`).
* `cancelTask` may cancel a task that is `DONE`; a second `PICKED_UP` that fails
  unsets `pickedUpTime` (`pickUp.js:475`); the courier-assignment workflow is
  completed even if the acceptance rolls back afterwards.

### TripLifecycle and the refinement

`TripLifecycle` is what a caller alone with the trip may rely on: `Accept`,
`Start`, `Record`, `Finish` change trip, task and todo together, `Cancel` and
`Close` are the steps of a cancellation. `TodoExecutionAlone` maps
`TodoExecution` to it: while a todo's request runs, the abstract documents are
what its snapshot says (`Settled`), and the abstract step is taken when the
request returns. Only a request that left everything or nothing behind can be
mapped, so `RequestIsAtomic` says that every catch block undoes exactly what was
done, whichever write, read, call or acknowledgement failed.

A write in flight that overtakes the catch block is the one thing that breaks this for
a single request. The runs leave it out with `InOrder`; the theorems do not restrict the
order of writes but say so of the behaviour: in `CatchBlocksInTurn(r)` no write of a catch
block is applied before the write of the same document that the failed `Promise.all` left
behind (`Overtakes`). Any other order, and any delay, is allowed.

### CreditWallet

One trip that accepts and delivers. `trip`, `weomniTxRef`, `result` are its
documents, `hold` and `payouts` the wallet, `pc`, `own`, `seen`, `response` the
request under way (the app sends them one at a time). `lost`, `unrestored` and
`unrecorded` remember which of the failures nobody can repair has happened, so
that each property can say precisely what is excused.

Accepting: `Accept`, `HoldWithdrawal`, `RecordHold`, `AcceptTrip`, or on an error
`ReleaseHold` and `RestoreTrip`. Delivering: `Settle`, `Capture`, `SaveCapture`,
`PayOut`, `SavePayout`, `Deliver`. Each has a failing twin, and `Crash` ends the
request at any await. Assumed of the wallet, which is outside the repository: a
reference is used for one hold (`getWithdrawalTxRef` makes a fresh one) and a
hold is captured once; of the trip: its metadata carries a `transactionId`,
without which `updateMetadata` refuses every write. `AcceptTrip` is one step:
what happens between its writes is `TodoExecution`'s subject.

A note lost between the wallet and the todo (`unrecorded`) is not repaired by
the code: the next attempt captures a hold that is gone and fails, so the
delivery cannot be finished without help.

### KafkaConsumer

Processes of one group on one partition. `Publish`, `Assign`, `Rebalance` and
the acceptance of commits are the broker (external); everything else is
`consumer.js`. A batch is the interval `at..to` of a process; `late` holds the
commits that threw and will be repeated. A retry (`CallAgain`, `GiveUp`) counts
as in `consumeMessage`. `Disconnect` is the SIGTERM handler: the batch in hand is
finished without commits. The old owner of a partition that moved goes on with
its batch, since nothing tells it.

A late commit may move the committed offset *back*: messages then come again.
No comment promises otherwise and `DoneBeforeCommitted` holds all the same. The
worker's callback is assumed to settle its promise, and `enableAutoCommit` is
`false`, the default that every worker of `workers/index.js` keeps.

### OrderWorkflow

One order of one or two tasks, as the workflow definitions of `libraries/conductor`
run it, with everybody who writes its trip.

| Code | Action |
|---|---|
| `mappingBaseModel.receiver.js`, `createTasks.receiver.js` | `MapOrder`, `CreateTasks` |
| `createTrip.receiver.js`, `taxiTrip.js` | `CreateTrip`, `BindTasks`, `TripCreated` |
| the broadcast to drivers, fleet's schedule | `FindDriver`; `Schedule`, `UpdateStaffsToTrip` |
| `transport.receiver.js`, `tripSummary.receiver.js` | `PollTransport`, `ReportTransport`; `SumUp` |
| a step that throws, a worker that stops | `...Fails`, `WorkerDies` |
| `todo/update.js`, `flowUpdateByConfig.js` and the events | `BeginTodo`, `Track`, `CheckStart`, `SaveTask`, `TellTask`, `ReadTrip`, `WriteTrip`, `TellTrip`; `TodoFails` |
| `cancelTrip.js`, `cancelWorkflow.js` | `MarkTrip`, `RejectTrip`, `CancelTasks`, `TerminateWorkflow`; `CancelFails` |
| `cancelFlowError.js` | `FailTrip`, `FailTasks`; `FailureFlowFails` |

The engine is external: it keeps the step, its try and the data handed on, tries
a failed step again while its `retryCount` lasts, and otherwise starts the failure
flow. Documents are named by the try that made them: `task[n][l]` is the task
made for `l` by try `n` of its step, and `gen` and `carried` say which tasks and
which trip the order goes on with. A todo is one of two kinds, the one that
starts its task and the one that ends it; `tracked` says which kinds the
configuration tracks. `raced` and `overlap` remember what a property excuses: a
write while the order was being closed, two updates of the driver at once.

Behaviour worth knowing:

* An order with one task always fails: its directions are `null`, and reading
  their `_id` throws (`CreateTripThrows`).
* A todo whose kind is not tracked writes `null` over the workflow ids of task and
  trip (`flowUpdateByConfig.js:123`): the trip's completion then tells nobody.
* Tracking takes the first transport task of the workflow; when the transport is
  at a later try, the task completed is over and the order hangs.
* A driver's cancellation that fails after `MarkTrip` cannot be repeated: a trip
  that is FAILED may not be cancelled.
* A cancellation between the creation of a trip and the binding of its tasks
  misses the tasks; a fleet answer after a cancellation sets the trip to DOING; a
  driver's `WriteTrip` writes back the trip without the rejection.

### TripPlanning and AutoAssign

`trips` and `tasks` are the documents; `work` is what each *job* is asked (one of
the two creations, an addition, a saga of steps), `job` how far it is and what it
read. Each job reads, awaits and writes: `CheckTasks`, `InsertTrip` (`create.js`)
or `UpsertTrip` (`trip.js`), `BindTripToTask`; `AddToSet`; and for a saga
`ReadTrip` and one write per worker (`RemoveTaskFromTrip`,
`ReorderTaskSequenceInTrip`, `SetTaskSequenceSystemByTrip`, `AssignStaffToTasks`,
`DeleteTodosByTask`, `DeleteTaskById`), or `Compensate` and one `Restore...` per
completed worker, last first. `flight` holds the writes of a `Promise.all`. The
engine of the sagas is external: it calls a failed worker again or compensates.
`before`, `overlapped`, `damaged` are history: what a job found, whether it had
company, whether a write of it was not answered for.

An auto-assignment is `ReadCache`, then for each driver `ReadTripOfStaff`,
`ReadTaskPool`, `GetAssignTask`, then `SaveCache`. `TimeSlots` has the arithmetic
of free time, in ticks of a quarter of an hour.

Abstractions: the areas and skills that make a task fit a driver are the set of
tasks he reaches; distances order nothing that a property looks at; priorities,
travel times and the report of the tasks left over are left out; whether an
update by query sees deleted trips depends on a library, so both are taken.

Behaviour worth knowing:

* `createTrip` upserts by task: a trip that holds one of the tasks is overwritten.
* Its rollback validates the id as if it were an object with a `tripId` and throws
  (`trip.js:149`): the new trip stays, its tasks are unbound by a write nobody
  waits for. `create.js` has no rollback, and two of its requests that meet put a
  task into two trips.
* The compensation of ordering and numbering throws when there was no trip.
* A trip whose read failed counts as no trip: the driver looks free.
* Reserved times are cut from one piece of free time only, so they are kept free
  in a shift of one part; before seven the deadline is not looked at, and the hour
  that ends at seven ends on the wrong day.
* The start is rounded up to the hour, and what is rounded up to midnight becomes the
  first hour of the *same* day: a call at 23:15, and equally a free slot that begins
  at 23:15, is given 00:00 to 01:00, outside the slot and perhaps in the past
  (`RoundedToMidnight`; the case of the slot was found when the proof failed).
* An appointment that is over is handed out like any other: the check meant to pass it
  over (`autoAssignTask.js:387`) compares the `Date` of the database with the text of the
  request, and a `Date` is neither less nor greater than a text that is no number. The
  test for it (`autoAssignTask.test.js:177`) has texts on both sides. `Fits` has no such
  check, and `AssignedInTime` is about tasks without an appointment.
* A task that lies in a pause of the shift frees the rest of the pause, as pauses and
  tasks are cut from the trip as one list; `InShift` leaves these out.
* Three creations of `trip.js` at once can put a task into two trips: two make trips of
  one task each, and the third, of both tasks, overwrites one of them.

### MultipleAccept

Several trips, several drivers, and everything that an acceptance shares with the
next one: the count of active trips, the counters, the metadata.

| Code | Action |
|---|---|
| dispatcher's read and `validateAcceptTrip` | `Begin` |
| `getTrip` | `GetTrip` |
| `tripActiveList`, the limit, the id of the first trip | `HandleMultipleAcceptTrip` |
| `getNextSequence` (`$inc`, upsert) | `GetNextSequence` |
| `metadata.acceptTripReferenceId` | `WriteReference` |
| the wallet holds; `updateMetadata` reads, then writes | `HoldWithdrawal`, `UpdateTripMetadata` |
| todo and task, then the trip, then the transport | `FinishTodo`, `UpdateTripDetailStatus`, `StartTransportWorkflow` |
| catch block: statuses; metadata read, then written | `RestoreStatus`, `ReadMetadata`, `RestoreMetadata` |
| an await that throws, an answer that is lost, a process that stops | `Throws`, `RollsBack` inside `Applied`, `Dies` |
| transport workflow assigns; somebody removes the staffs | `UpdateStaffsToTrip`, `RemoveStaff` |
| `updateMetadataWorkflow.js` | `ReadForNote`, `UpdateMetadataWorkflow` |
| the month, and the index that expires counters | `MonthEnds`, `Expire` |

`by` says whose acceptance has a trip under way, which the documents say only
after the assignment. Three more history variables say what the properties
excuse: `hasty` drivers accepted while an earlier acceptance of theirs had counted
and was not assigned yet; the metadata of `crossed` trips was in the hands of two
at once; `odd` trips had an id from an earlier attempt, or were accepted next to
one of these or to one without an id. The excuses are the exact extent of what
the code guards: it has no lock, so inside them it really does exceed the limit,
lose a field or give two ids.

Abstractions: todo and task are one field and are restored with the trip in one
write (`TodoExecution` has them apart); the hold itself is `CreditWallet`'s, and
only its note is kept; which of several active trips comes first is any of them;
trips without `isAllowToMultipleAcceptTrip` are neither counted by the property
nor refused by the code, though the code counts them for the others. Assumed: the
metadata of a trip has a `transactionId`, as in `CreditWallet`; the transport
workflow assigns without metadata of its own (with it, `updateStaffsToTrip.js`
replaces the trip's); a counter's key is the name of its month, so the model has
one year, and ids repeat a year later.

Behaviour worth knowing:

* After a failed attempt the rollback leaves its id in the metadata, as a merge
  removes nothing; the next attempt draws or takes over another one, and the hold
  of the wallet writes the old one back (`lost_reference`).
* A rollback notes an empty `weomniTxRef` where there was none.
* A request that chose the counter of a month may increment it in the next month
  and begin it anew, with an expiry that has passed: its number may be one that
  was given before.

### TaskSearch and TaskIndex

`task` is the collection, `feed` the topic its connector publishes every write to,
`index` the search index. The partition has an `owner` that polls from `next`;
`hand` is the batch of each process, its place in `onMessage` and the document it
read. `sync` is the comparison under way and `job` the saga steps.

| Code | Action |
|---|---|
| `updateSingleTaskStatus`, `updateTaskStatusByOrderId`, `update.js`, `updateTaskInformationByOrderId`, `deleteTaskById` and its compensation | `UpdateTaskStatus`, `UpdateTask`, `UpdateTaskInformation`, `DeleteTask`, `RestoreTask` |
| `syncCloseWorkOrderToTask.worker.js` | `SyncCloseWorkOrder` |
| `updateSccdTaskMetaInfo.worker.js` | `FindTaskOfOrder`, `UpdateSccd`, `CompensateSccd` |
| `updateTracking.worker.js` | `BeginTracking`, `Push`, `BeginPopping`, `Pop` |
| a poll of the consumer | `Poll` |
| `onMessage`: which kind of message; another project's task | `Begin`, `Ignore` |
| `enrichESTask`: the read, and a task that is not there | `ReadTask`, `NotFound` |
| `index` or `deleteById` of the client | `WriteIndex` |
| the catch of `onMessage` | `Throws` |
| `syncTaskData.js` | `FindTasksToSync`, `ValidateIdsWithIndexingSource`, `Touch`, `SyncFails` |
| the consumer group (external) | `Assign`, `Rebalance`, `Stop` |

Of the consumer the module takes over what `KafkaConsumer` shows: a batch is handled
in order, whoever lost the partition goes on with its batch, and the next owner
starts at any message with nothing undone before it. History: `done` are the
messages some process is through with, `met` the steps whose fields another one
wrote meanwhile, and `unsure` the tasks whose last message failed, came from a
process that had lost the partition, or was not repeated to the end.

Abstractions: a document in the index is found at once; an `updateMany` is one write
per document; one field, `source`, stands for the project and
for `createUser`, and neither changes; the area of the order, the area of the map, the
team of the task, its times, its trip and whose accounts are deleted do not change
(`about`, `FormerStaff`), and names and addresses are left out (a later change of these
publishes no message of the task); so are paging, sorting and the mapping. A failed saga step is not called again. Whether a
deleted task is found depends on a library, so both are taken. A tick is half a
quarter of an hour in the summary and one message in the index.

Behaviour worth knowing:

* `onMessage` catches every error, so that `retry: 3` (`workers/index.js:59`) never
  applies: a task whose message failed is wrong in the list until its next write,
  or until a sync misses it.
* The sync looks for tasks the index lacks. A deleted task that stayed in the index
  is never found; a task that is there with an old status counts as there when its
  old `updatedAt` lies in the window.
* The comparison gives the search no limit, which then is 100: of more than 100
  tasks in a window the others are touched and indexed again for nothing.
* A compensation writes back `metaInformation` as a whole, over what others wrote
  since; a popped tracking entry is the last one, whoever pushed it.
* A RETURNED task is found by the search only; a REJECTED one is in no list. A
  PENDING task is assigned in the lists and unassigned in the summary.
* The index keeps the first staff of a task, and none if his account is deleted
  (`enrichESTask.js:60`, `:368`), and the area of the map (`:426`); the old list looks at
  any staff (`findMonitorListTasks.js:94`) and the area of the order (`:72`, `:115`). A
  task the old list shows may therefore be missing in the search (`Overlooked`).
* At the second of its deadline, and for tasks without staff a quarter of an hour
  before it, a task is in no class of the summary.
* The summary has no period for tasks that wait for a driver. For cancelled tasks that
  are nearly due it lost its period: the query spreads the filter and adds an `$and` of
  its own (`findSLASummary.js:208`), which replaces the one on `updatedAt`. The summary
  of every period counts these tasks.
* The summary compares deadlines with a UTC clock as text, the index reads them as times
  of Bangkok (`enrichESTask.js:363`). The model takes the text as the summary does.
* A task that is done without a time of completion counts as normal.

## 3. Runs

| Run | Instance | Shows |
|---|---|---|
| `one_request` | one slot; 5 tasks of every type, 10 todos; every fault but a failing rollback; writes of a handler in order | the refinement, completed trips have no open task, one acceptance, one cancellation, a transport for every accepted trip, order status = trip status |
| `meeting_requests` | two slots; acceptance and a pickup of two todos, cancellations; calls and rollbacks fail; unordered writes | no status without a cause; the last cancellation closes the trip |
| `credit_wallet` | three holds, every fault, crashes | the four money properties |
| `kafka_consumer` | two processes, three messages (the last without a value), one retry, batches of two, two disturbances | nothing undone is committed; the owner works everything off |
| `order_workflow` | a taxi or delivery order of one or two tasks, tracked or not; one cancellation; one retry of the steps that have any; one fault or overlap | the order carries its own tasks; failed and cancelled orders are closed; a trip is done with its todos; one task at a time; paid after delivery; planned or ended; delivered goes on |
| `auto_assign` | *days* and *nights* (one driver, every kind of shift, trip, reserved time and hour), *meetings* (two calls, a trip that changes), *plans* (two jobs on the same tasks, two failures) | handed out once, free and, without an appointment, in time; a task in one trip; no trace of an undone saga; numbers in order |
| `multiple_accept` | one driver, three requests for three trips with wallet, a limit of two, two months, one note of the engine; two faults; four events in all | the limit is kept; one id for the trips of a driver; numbers are given once; what was noted stays in the metadata |
| `task_index` | two tasks, two processes, batches of two, one hit; *writes* (two and a fault, one and two faults), *steps* (a cancelled order with a write and a fault, a cancelled tracking with either, two steps at once), *missing* (one or both tasks are not indexed, with a sync and a write) | the list shows tasks as they are; the search finds what the old list shows, but for the fields they do not share; the summary counts once; no trace of an undone step; missing tasks come back |
| `hand_over` | violation | a refused write of one pickup request reopens a todo after another handed the task over |
| `two_drivers` | violation | two acceptances at once start two transports |
| `null_value` | violation | a message without a value ends the poll loop for good |
| `lost_reference` | violation | the id of a failed attempt comes back over the one just written |

Why the bounds are enough. One request: the trip has every task type and every
kind of todo, so every handler runs against every status; more tasks of a type
repeat the same reads. Two requests: conflicts in this code are pairwise, a stale
check against one foreign write; that the last of more than two cancellations closes
the trip is proved for every number. Wallet: an attempt can go wrong in the next
only through the reference it leaves behind, so a failed attempt after a failed
attempt, and a third that succeeds, covers what can be carried on; and here the
proofs cover every number. Kafka: a batch, a rest, and a restart or a rebalance
in each; again the proof covers every number. Order: with two tasks one can be
last and one not, one retry makes a second generation of tasks and trips, and
one fault meets every state of a cancellation. Auto-assignment: a slot is decided
by its neighbours, so two tasks with a gap and the ends of shift, day and trip
give every case; jobs conflict pairwise, two failures let a compensation fail.
Accepting: drivers share only the counters, so one driver; a limit of two is the
least that lets a second trip take over the id of the first and refuses a third.
`MaxEvents` bounds acceptances, faults, notes and months together: three accepted
trips and one fault, two acceptances with a fault and a new month, and so on. The
constraint leaves out what follows once a driver was hasty, about which nothing is
claimed; what a failed attempt leaves behind matters in the next one only; the
proofs cover every number. Task list: two writes meet a read and the write that
follows it; two processes are the owner and the one that lost the partition; two
messages make a batch that can be left half done. With two tasks missing and one hit
the limit of the comparison bites. A list of nobody, of one staff, and of two of whom the first
is deleted, and a task with another area on the map, let the two lists differ; periods that
follow one another and the times around a deadline let the summary miscount. But for
`ShownInTheEnd` the proofs cover every number, and the statuses the run leaves out.

Type invariants are run only in `auto_assign`, where they are about sagas as well. At most
twelve runs and forty properties are kept, each for a question of its own.

Deadlock is not checked where the system may rest: all requests refused, all
references used, everything consumed.

**Fairness.** `KafkaConsumer`: weak fairness of the poll loop of each process; the broker, restarts and late
commits have none. `OrderWorkflow`: weak fairness of the workers,
of finding a driver (which succeeds or fails within its minute), of every
driver's update and every cancellation once begun: the engine offers a step until
it is done, out of tries or out of time. Drivers need not act and nobody need
cancel. `TaskIndex`: weak fairness of each process's steps, of the assignment of the
partition, and of a sync once it compares or touches, since the code awaits one
after the other; writes, steps of sagas, new syncs and disturbances have none, and
`ShownInTheEnd` claims nothing while faults are left. `TodoExecution`, `CreditWallet`,
`AutoAssign` and `MultipleAccept` state none and only safety is checked: their handlers are
straight lines of awaits, and that each returns would be the assumption itself.

Every property of a passing run has a mutant in `PROJECT.json`: a definition of
the model replaced by a plausible slip (kept next to it and marked `Slip`), under
which TLC finds the property violated.

## 4. Proofs

For every value of the constants that satisfies the named assumptions:

| Theorem | Says |
|---|---|
| `TodoExecution_proofs!TypeCorrect` | `Spec => []TypeOK` |
| `TodoExecution_proofs!StatusesHaveCauses` | `Spec => []StatusHasCause`, any number of requests, any faults, any order of writes |
| `TodoExecution_proofs!LastCancelCloses` | `WritesSucceed` gives `Spec => []LastCancelClosesTrip`, any number of cancellations and requests at once |
| `TodoExecutionAlone_proofs!RequestsAreAtomic` | `Alone(r)` gives `Spec /\ CatchBlocksInTurn(r) => RequestIsAtomic`: the refinement of `TripLifecycle` |
| `TodoExecutionAlone_proofs!ClosedTripsHaveNoOpenTask`, `TransportOrderedOnce`, `TransportOrdered`, `TripCancelledOnce`, `OrdersShowTripStatus` | `Alone(r)` and `CatchBlocksInTurn(r)` give `[]` of `ClosedTripHasNoOpenTask`, `AcceptedOnce`, `AcceptedTripHasTransport`, `CancelledOnce`, `OrderShowsTripStatus` |
| `CreditWallet_proofs!HoldsAreAccountedFor`, `TripsAreBacked`, `DeliveriesAreSettled`, `ChargesAreMadeOnce` | the four money properties, any number of attempts |
| `KafkaConsumer_proofs!KafkaTypeCorrect` | `Spec => []TypeOK` |
| `KafkaConsumer_proofs!NothingIsMissed` | `Spec => []DoneBeforeCommitted`, any number of processes, messages, retries, rebalances |
| `OrderWorkflow_proofs!OrderTypeCorrect` | `Spec => []OrderTypeOK`: no step is tried more often than it may be |
| `OrderWorkflow_proofs!PlanIsCarried` | `Spec => []CarriedTripHoldsOrderTasks`, any number of tasks, retries, faults and cancellations |
| `OrderWorkflow_proofs!TaxiIsPaidAfterDelivery` | `Spec => PaidAfterDelivery` |
| `OrderWorkflow_proofs!OneTaskAtATime`, `TripIsDoneWithItsTodos` | `Spec => []OneTaskUnderWay`, `Spec => []TripDoneWithItsTodos` |
| `OrderWorkflow_proofs!FailedOrdersAreClosed`, `CancelledOrdersAreClosed` | `Spec => []FailedOrderClosesItsTrip`, `Spec => []CancelClosesOrder`, any number of cancellations |
| `AutoAssign_proofs!AssignedOnceHolds` | `Spec => []AssignedOnce`, any number of calls, drivers and tasks, any change of trips meanwhile |
| `AutoAssign_proofs!TypeCorrect` | `Spec => []TypeOK`: documents, jobs, writes and calls, through every saga and compensation |
| `AutoAssign_proofs!AssignedTimeIsFreeHolds`, `AssignedInTimeHolds` | `Spec => []AssignedTimeIsFree`, `Spec => []AssignedInTime`, any shift, trip, tasks, reserved times and hour of the call |
| `AutoAssign_proofs!TaskInOneTripHolds` | `Spec => []TaskInOneTrip`, any number of creations, sagas, trips and faults, any steps of a workflow |
| `AutoAssign_proofs!NumberedInOrderHolds`, `UndoneLeavesNoTraceHolds` | `Spec => NumberedInOrder`, `Spec => UndoneLeavesNoTrace`, any steps in any order, any documents to begin with, any retries and failures |
| `MultipleAccept_proofs!AcceptTypeCorrect` | `Spec => []TypeOK` |
| `MultipleAccept_proofs!LimitHolds` | `Spec => []LimitKept`, any limit and number of drivers, trips, requests, faults |
| `MultipleAccept_proofs!NumbersHold` | `Spec => []NumbersAreFresh`, any number of requests, losses and expiries |
| `MultipleAccept_proofs!MetadataStays`, `ReferencesAgree` | `Spec => []MetadataKept`, `Spec => []SameReference` |
| `TaskIndex_proofs!IndexTypeCorrect` | `Spec => []IndexTypeOK` |
| `TaskIndex_proofs!IndexShown` | `Spec => []IndexShowsTask`, any number of tasks, processes, writes, failures, rebalances and crashes |
| `TaskIndex_proofs!SearchShows`, `SummaryCounts` | `Spec => []SearchShowsMonitorList`, `Spec => []SummaryCountsOnce`, any queries, times and deadlines |
| `TaskIndex_proofs!UndoneStepsLeaveTasks` | `Spec => UndoneStepLeavesTask`, any number of tasks, steps and writes |

*TodoExecution.* `StatusHasCause` speaks of documents only; a write in flight or
a snapshot that a catch block will write back carries a status on to a later
state. `CauseInv` asks the same of every issued and stray write (`WriteOK`) and
every snapshot (`SnapshotOK`), and remembers how far a request has come
(`ProgressOK`). Causes are never withdrawn (`Growth`), so a write that was right
when issued is right when it lands. There is a lemma per action, over four that
say what beginning, continuing, returning and abandoning do to the invariant.
Assumptions of this and the next two: `TripAssumption`, `TodoAssumption`,
`EnvironmentAssumption`.

*Closing.* `LastCancelClosesTrip` says nothing until everything is quiet, nor once a
handler went ahead with a todo (`proven` is not empty): a delivery or an acceptance may
leave the trip DOING with every task done, as section 2 says. `CancelInv` adds that while
every task is closed and the trip is not, some cancellation still *answers* for it: it has
yet to read the trip, which it does after its own writes, or is writing the closed status.
Requests of drivers may begin, wait for a check and be turned away at any time
(`TodoWaits`): without a trip under way none goes ahead. The theorem is about
`WritesSucceed`: a cancellation whose writes fail leaves the trip open until the next one.

*One request at a time.* `Alone(r)` is one slot whose rollbacks are not refused. Writes
land in any order but for the steps of `Overtakes(r)`, which `CatchBlocksInTurn(r)` rules
out: with them the claim is false of the code, as section 2 says. The runs set `InOrder`
instead, which rules out more. `AloneInv(r)` says for every await of every handler which of
its writes are in flight and what the documents are by then (`Shape`), how often workflows
were started (`Counted`) and who closed a trip (`ClosedForCause`). Every step is then a step
of `TripLifecycle` or leaves `Settled` alone (`Nothing`, `Accepts`, `Executes`, `Cancels`,
`Announced`), which is the refinement; the other properties follow from the invariant.

*CreditWallet.* `WalletInv` adds what a request knows of its own hold while it
accepts (`AcceptanceInv`) and of the trip's while it settles (`SettlementInv`),
that whatever was charged belongs to the captured hold of a trip that is not
pending (`ChargedInv`), and that it is noted or about to be (`NotedInv`). A
rollback puts back a reference it read before, so the invariant has to know that
this reference is never the request's own hold. Assumption: `WalletAssumption`.

*KafkaConsumer.* `KafkaInv` says that all that may still be committed (`late`, the
message in hand) has only done messages before it, and that what the owner
fetched is done or in its batch. Assumption: `KafkaAssumption`.

*OrderWorkflow.* `PlanInv` adds to the property what the worker that makes the trip
has done so far (`work`) and that a trip names the generation its worker read.
`PayInv` says that before the summary of a taxi a task is finished only by its own
driver's update, that the trip is DONE only when an update saw every task done,
and that updates are *quiet* or *one by one* unless `overlap` says otherwise.
`OrderInv` has nine more parts, for the four properties about closing and about the
driver: `SingleInv` (while updates come one at a time, one is under way, and the one
about to start a task found no other under way), `MarksInv` (which todos are marked),
`DoneInv` (an update that read the trip knows whether all is done, and the last one
wrote DONE), `MadeInv` and `FreshInv` (which tries have made a trip), `RefInv` (a trip
keeps the engine's reference when every kind of todo is tracked), `ClosedAlone` (nobody
writes while an order is closed, unless it raced), `FlowInv` and `CancelledInv` (what
the failure flow and each cancellation have closed so far stays closed).
Assumption: `OrderAssumption`.

*AutoAssign.* `OnceInv`: a call hands out only what is in `current`, which is apart
from what it saw in the cache; what is answered was saved; and of two calls that
did not meet, one began when the other was over and has its tasks in `seen`.
`TypeInv` joins to it the shape of documents, jobs and writes under way (`PlanTyped`: a
saga's outputs are what its steps noted, and a write awaited by a job is the one its step
sent) and of calls (`CallsTyped`). The latter says of each task given away that it came
from the pool and fitted into a slot of the driver at that time (`GivenRight`). The two
properties about times follow from this alone, by lemmas about the arithmetic: what
sorting, joining and cutting of lists keep (`ArrangedIs`, `FlattenIs`, `CutIs`); that
the pieces of shift, trip, pauses and tasks are apart and inside (`GapsAre`,
`ShiftLessTrip`, `TripLessTasks`); that one reserved time after another is cut out
(`ReserveIs`); where the hour begins and which date it gets (`StartIs`, `WindowIs`).
The folds of the community modules are unfolded as functions, with a step per element;
induction over a list is replaced by a least counterexample. Assumptions:
`PlanningAssumption` (a task lasts from a time to a later one) and `AssignAssumption`
(the documents, jobs and drivers to begin with have their shape, a live trip's tasks are
bound to it, the parts of a shift are apart).

*A task in one trip.* The property is about documents; what keeps it is what every job
has seen and still has to do. `HolderInv` says: a task that a live trip holds names a
trip, has an excuse or is about to be bound (`HeldIsBound`); a creation that met nobody
still finds at each of its writes what its check showed (`CheckPassed`); `trip.js`, which
writes over the trip of a task it has looked up, meets only trips that others made
(`HeldByOthers`), so two jobs met or one is excused, and `Met` says that jobs under way
together are marked; a workflow that met nobody adds nothing to a trip it did not read
and changes no trip id but by its own steps, forth or back (`LoneWorkflow`). An excuse
lasts (`ExcuseLasts`), because trips, marks and jobs are never taken away. TLC searched
`HolderInv` in cases of two jobs completely and in cases of three in part before it was
proved. Assumptions: the two above.

*What a workflow leaves.* Both properties are of a saga that is alone. `OrderInv`, for
`NumberedInOrder`: its worker writes from the trip as it is (`ReadNow`), the trip is in
order once shortened or reordered (`Ordered`), and from the numbering on each number
written or on its way is a place of that task (`Numbered`); a step tried again sorts
what is sorted (`SortedStays`). `TraceInv`, for `UndoneLeavesNoTrace`: each difference
from the beginning is one that a completed step, the step under way or the one being
undone makes (`Explained`, `NumberExplained`), and what a step noted differs from the
beginning only by the steps before it; so undoing the last step leaves what the others
explain, and with none left nothing is. A step that empties the trip ends those that
read it, so a note that was found stands before any such step. A compensation is called
again after a failure; it writes the same again. Trying to prove the properties as
they were first written showed them false beyond the bounds of the run: restoring a
task writes FALSE over what marked it deleted or without todos, a trace if it was so
before (hence `WasWhole`); and a saga that numbers and then removes or reorders leaves
the old numbers (hence `NumbersLast`). In exchange `UndoneLeavesNoTrace` now speaks
of every document, deleted ones too, and not only of what readers see. Assumptions:
those of *AutoAssign* (`NoJob` is no job).

*MultipleAccept.* `TypeInv` adds to the types what a request has at each stage
(`Stage`). `LimitInv`: of a driver who is not hasty at most one request is past the
count (`Pending`), and while one is, he has fewer trips than the limit; so the trip
it makes DOING is within it. The count sees all his trips because, unless he is
hasty, each is assigned. `NumbersInv`: a fresh number of this month is at most what
the counter stands at (`Drawn`), so the next one is new, and a counter that expires
is one of an earlier month. Every other action leaves alone what these look at
(`Quiet`). `MetadataInv`: of a trip that is not `crossed` one request holds the
metadata (`Alone`), what it read is what the trip has but for its own write (`InTime`),
and its hold is noted from then on. `ReferenceInv`: a request past its count either
knows the one id of the driver's active trips or the driver has none (`Knows`), and it
read no other id from its own trip (`Own`). Assumption: `AcceptAssumption` (its
`None` is no driver, request or id).

*TaskIndex.* `Inv` adds to the property that the last message of a task says what
became of it (`LastMessage`), that a message nobody is through with is still to come
(`UndoneToCome`), that the document in a process's hand is the task as it is or a
later message of the task exists (`HandsFresh`), and that tasks of other projects
are never in the index (`OthersOut`). So a write made from an old read is followed by
another one, or comes from a process that lost the partition, and then the task is
`unsure`. There is a lemma per action. `TracksItsOwn`, for undone steps: a step whose
field nobody else wrote finds, after what it had read, its own tracking entry and nothing
else, so popping the last entry undoes the push. `SearchShows` follows from
`IndexShown`: the document found is what `enrichAssuranceTask` makes of the task, and each
query of the old list has one of the search that is weaker but for the staff and the area
it looks at. `SummaryCounts`: the classes of a group exclude each other
(`ClassesAreApart`), the groups do (`OneGroup`: a task has a staff or none, and one status),
and what is counted with a period lies in it (`CountedWhy`).
Assumption: `IndexAssumption` (its `NoDoc` is no document of the index; staffs, teams,
places and periods have their types).

Model-checked only is liveness (`OwnerWorksOff`, `OrderIsPlannedOrEnds`, `DeliveredOrderGoesOn`, `ShownInTheEnd`): it is beyond the
prover, like `ENABLED`. Every other property of a passing run is a theorem.

## 5. Not modelled, and the plan

In order of importance:

1. **Manual wallet actions** (`trip.js` 555-674) in `CreditWallet`, together with
   requests that overlap.
2. **Rest of the modelled parts**: `delete` of `trip.js`, the staffs of tasks,
   a staff assignment that replaces the metadata, vouchers and prices of an order's summary, the order
   flow of a single trip, writes of a worker that goes on after its step timed
   out, the start strategies of the ASSURANCE project.

The map names about a sixth of the source's lines. That is most of what keeps state
over several steps; what is left is the list above and what follows. `POST
/v1/orders` without a workflow (`domains/extension`) is left out because
`index.js` passes the body where `taxi.js` and `parcel.js` take orders and a customer,
so that both fail before they write; `qrun.js` does what `OrderWorkflow`'s workers
do, once. The Melonade workers of `adapters` transform data or
make one call; `wfm_set_reminder` makes two and undoes the second only.

Left out for good: the adapters and controllers (one domain call each, no state),
persistence helpers and reports (queries), master data (single documents), the
field mappings of the work-force integration (appointments and reports), the workers
of `workers` that make one upsert or one call per message, mocks, and the one-off migration
scripts. They are most of the lines of the repository.
