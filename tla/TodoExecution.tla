--------------------------- MODULE TodoExecution ---------------------------
(***************************************************************************)
(* Executing an on-demand trip: the todo handlers a driver calls           *)
(* (domains/taskType: dispatcher, acceptTrip, pickUp, delivery, return)    *)
(* and the cancellations a dispatcher calls (domains/trip/trip.js), all    *)
(* working on the documents of one trip.                                   *)
(*                                                                         *)
(* There are no transactions.  A handler reads a snapshot, checks it,      *)
(* issues single-document writes that it awaits together (Promise.all) or  *)
(* one after the other, and on an error writes the snapshot back in its    *)
(* catch block.  Every await is a point where other requests run, so a     *)
(* request is a slot with a program counter, and an issued write is in     *)
(* flight until the database applies it.                                   *)
(***************************************************************************)
EXTENDS Naturals, TripStatus

CONSTANTS
    Slot,          \* requests the server handles at one time
    Trip,          \* the trip document
    Task,          \* its tasks
    Todo,          \* the todos of its tasks
    None,          \* no todo, no task
    taskOf,        \* the task a todo belongs to
    taskType,      \* the task type of a task
    todoType,      \* the type code of a todo
    Required,      \* the todos flagged isRequired
    CancelStatus,  \* the statuses a dispatcher cancels with
    Faults,        \* what may go wrong, a subset of FaultKinds
    InOrder        \* do a handler's writes to one document keep their order?

\* "write": a write of a handler is refused.  "ack": a write is applied but
\* its acknowledgement is lost.  "call": a call of another service fails, or
\* a read of a todo handler.  "read": the read of a cancellation fails.
\* "restore": a write of a catch block is refused.
FaultKinds == {"write", "ack", "call", "read", "restore"}

\* Todos that only record what the driver did: their handlers check the
\* snapshot, then write the todo and the trip's detail status together.
PickupRecords == {"CHECK_IN", "PACKING_ITEMS", "TAKE_A_PHOTO", "POD"}
DeliveryRecords == {"CHECK_IN", "TAKE_A_PHOTO", "POD", "COLLECT_CASH", "SUMMARY"}

TodoTypes == {"ACCEPT_TRIP", "SET_OFF", "PICKED_UP", "RECEIPT", "DELIVERED"}
             \union PickupRecords \union DeliveryRecords

Doc == {Trip} \union Task \union Todo

ASSUME TripAssumption ==
    /\ Trip \notin Task \union Todo
    /\ Task \intersect Todo = {}
    /\ None \notin Doc

ASSUME TodoAssumption ==
    /\ taskOf \in [Todo -> Task]
    /\ taskType \in [Task -> TaskTypes]
    /\ todoType \in [Todo -> TodoTypes]
    /\ Required \subseteq Todo
    \* domains/taskType/{pickUp,delivery,return,acceptTrip}.js: a todo of any
    \* other type ends in `Invalid todo type`, so no todo flow has one.
    /\ \A x \in Todo :
        LET type == taskType[taskOf[x]]
        IN  /\ type = "ACCEPT_TRIP" => todoType[x] = "ACCEPT_TRIP"
            /\ type = "PICKUP" =>
                    todoType[x] \in {"SET_OFF", "PICKED_UP"} \union PickupRecords
            /\ type = "DELIVERY" =>
                    todoType[x] \in {"SET_OFF", "RECEIPT", "DELIVERED"} \union DeliveryRecords
            /\ type = "RETURN" => todoType[x] \in {"SET_OFF", "CHECK_IN"}

ASSUME EnvironmentAssumption ==
    /\ CancelStatus \subseteq LIST_TASK_STATUS_CANCELLED
    /\ Faults \subseteq FaultKinds
    /\ InOrder \in BOOLEAN

VARIABLES
    trip,      \* the trip document
    task,      \* the status of each task document
    todo,      \* the status of each todo document
    pc,        \* where each slot is
    job,       \* what each slot was asked to do
    seen,      \* the snapshot each slot works from
    sent,      \* the writes each slot is waiting for
    stray,     \* writes still in flight whose await was abandoned
    started,   \* calls to Melonade workflows, counted up to MaxCount
    asked,     \* history: the statuses cancellations went ahead with
    proven     \* history: the tasks a handler went ahead to finish

db == <<trip, task, todo>>
history == <<asked, proven>>
vars == <<db, pc, job, seen, sent, stray, started, history>>

(***************************************************************************)
(* Documents and writes.  An update names the fields it sets: Keep stands  *)
(* for a field it leaves alone.                                            *)
(***************************************************************************)
Keep == "keep"

Write == [doc : Doc,
          status : TRIP_STATUS \union TASK_STATUS \union {Keep},
          pickedUpTime : {"set", "unset", Keep},
          deliveredTime : {"set", "unset", Keep}]

Put(d, s) ==
    [doc |-> d, status |-> s, pickedUpTime |-> Keep, deliveredTime |-> Keep]

\* domains/taskType/updateTrip.js: no guard, whatever the trip is by now.
updateTripDetailStatus(x, tripStatus) ==
    [Put(Trip, tripStatus) EXCEPT
        !.pickedUpTime = IF todoType[x] = "PICKED_UP" THEN "set" ELSE Keep,
        !.deliveredTime = IF todoType[x] # "PICKED_UP" /\ tripStatus = "DONE"
                          THEN "set" ELSE Keep]

Merge(old, new) == IF new = Keep THEN old ELSE new

Apply(w) ==
    /\ trip' = IF w.doc # Trip THEN trip
               ELSE [status |-> Merge(trip.status, w.status),
                     pickedUpTime |-> Merge(trip.pickedUpTime, w.pickedUpTime),
                     deliveredTime |-> Merge(trip.deliveredTime, w.deliveredTime)]
    /\ task' = [t \in Task |-> IF t = w.doc THEN w.status ELSE task[t]]
    /\ todo' = [x \in Todo |-> IF x = w.doc THEN w.status ELSE todo[x]]

(***************************************************************************)
(* Slots.                                                                  *)
(***************************************************************************)
Ops == TodoTypes \union {"CANCEL_TASK", "CANCEL_TRIP", "NONE"}

Job == [op : Ops, todo : Todo \union {None}, task : Task \union {None},
        status : CancelStatus \union {Keep}]

NoJob == [op |-> "NONE", todo |-> None, task |-> None, status |-> Keep]

TodoJob(x) ==
    [op |-> todoType[x], todo |-> x, task |-> taskOf[x], status |-> Keep]

NoSnapshot == [trip |-> Keep, task |-> Keep, todo |-> Keep]

\* taskTypeDispatcher.getTaskTypeAndTodo: the todo with its task and trip,
\* read once and used until the request ends.
Snapshot(x) ==
    [trip |-> trip.status, task |-> task[taskOf[x]], todo |-> todo[x]]

\* A slot takes a new request when the previous one has left nothing behind.
Begin(r, j, s, at, writes) ==
    /\ pc[r] = "idle"
    /\ stray[r] = {}
    /\ pc' = [pc EXCEPT ![r] = at]
    /\ job' = [job EXCEPT ![r] = j]
    /\ seen' = [seen EXCEPT ![r] = s]
    /\ sent' = [sent EXCEPT ![r] = writes]
    /\ UNCHANGED <<db, stray, started>>

BeginTodo(r, x, at, writes) == Begin(r, TodoJob(x), Snapshot(x), at, writes)

\* The next await of a running request, with the writes it waits for; what
\* happens to its snapshot is said by the step.
Continue(r, at, writes) ==
    /\ pc' = [pc EXCEPT ![r] = at]
    /\ sent' = [sent EXCEPT ![r] = writes]
    /\ UNCHANGED <<db, job, stray>>

\* The request ends; writes it no longer waits for may still be in flight.
Return(r, left) ==
    /\ pc' = [pc EXCEPT ![r] = "idle"]
    /\ job' = [job EXCEPT ![r] = NoJob]
    /\ seen' = [seen EXCEPT ![r] = NoSnapshot]
    /\ sent' = [sent EXCEPT ![r] = {}]
    /\ stray' = [stray EXCEPT ![r] = left]

Active(tripStatus, taskStatus, x) ==
    /\ trip.status = tripStatus
    /\ task[taskOf[x]] = taskStatus
    /\ todo[x] = "TODO"

GoAhead(t) == proven' = proven \union {t} /\ UNCHANGED asked

\* acceptTrip completes the courier's assignment and starts the transport;
\* a cancelled trip starts ODM_CANCEL_FAIL_REJECT_TRIP.
Workflows == {"assignCourier", "transport", "cancelTrip"}

MaxCount == 2

Count(workflow) ==
    started' = [started EXCEPT ![workflow] =
                    IF @ < MaxCount THEN @ + 1 ELSE @]

(***************************************************************************)
(* The todo handlers.                                                      *)
(***************************************************************************)
\* todoTypeSetOff of pickUp.js, delivery.js and return.js.
SetOff(r, x) ==
    /\ todoType[x] = "SET_OFF"
    /\ Active("DOING", "PENDING", x)
    /\ BeginTodo(r, x, "updating", {Put(x, "DONE"), Put(taskOf[x], "DOING")})
    /\ UNCHANGED history

\* todoTypeCheckIn, todoTypePackingItems, todoTypeTakePhoto,
\* todoTypeProofOfDelivery and todoTypeCollectCash: one Promise.all.
RecordTodo(r, x) ==
    /\ todoType[x] # "SUMMARY"
    /\ Active("DOING", "DOING", x)
    /\ BeginTodo(r, x, "closing",
                 {Put(x, "DONE"), updateTripDetailStatus(x, "DOING")})
    /\ UNCHANGED history

\* todoTypeSummary also writes payment.detailService of the trip.
Summary(r, x) ==
    /\ todoType[x] = "SUMMARY"
    /\ Active("DOING", "DOING", x)
    /\ BeginTodo(r, x, "closing",
                 {Put(x, "DONE"), Put(Trip, Keep), updateTripDetailStatus(x, "DOING")})
    /\ UNCHANGED history

\* todoTypeReceipt: finishes the task on the snapshot alone, and writes
\* payment.method of the trip.
Receipt(r, x) ==
    /\ todoType[x] = "RECEIPT"
    /\ Active("DOING", "DOING", x)
    /\ BeginTodo(r, x, "updating",
                 {Put(Trip, Keep), Put(x, "DONE"), Put(taskOf[x], "DONE")})
    /\ GoAhead(taskOf[x])

\* todoTypePickedUp and todoTypeDelivered do not look at the snapshot: they
\* read the task again.
HandOver(r, x) ==
    /\ todoType[x] \in {"PICKED_UP", "DELIVERED"}
    /\ BeginTodo(r, x, "validating", {})
    /\ UNCHANGED history

\* acceptTrip.process: snapshot checked, then the calls to fleet, the wallet
\* and the limit on accepted trips.
AcceptTrip(r, x) ==
    /\ taskType[taskOf[x]] = "ACCEPT_TRIP"
    /\ Active("PENDING", "PENDING", x)
    /\ BeginTodo(r, x, "calling", {})
    /\ GoAhead(taskOf[x])

PickUp(r, x) ==
    /\ taskType[taskOf[x]] = "PICKUP"
    /\ \/ SetOff(r, x)
       \/ todoType[x] \in PickupRecords /\ RecordTodo(r, x)
       \/ HandOver(r, x)

Delivery(r, x) ==
    /\ taskType[taskOf[x]] = "DELIVERY"
    /\ \/ SetOff(r, x)
       \/ todoType[x] \in DeliveryRecords /\ RecordTodo(r, x)
       \/ Summary(r, x)
       \/ Receipt(r, x)
       \/ HandOver(r, x)

ReturnTask(r, x) ==
    /\ taskType[taskOf[x]] = "RETURN"
    /\ \/ SetOff(r, x)
       \/ todoType[x] = "CHECK_IN" /\ RecordTodo(r, x)

\* validatePickedUp and validateToDelivered: every todo of the task but the
\* current one must be required and done.
OtherTodosDone(x) ==
    \A y \in Todo \ {x} :
        taskOf[y] = taskOf[x] => y \in Required /\ todo[y] = "DONE"

ReadyToHandOver(x) ==
    /\ trip.status = "DOING"
    /\ task[taskOf[x]] = "DOING"
    /\ OtherTodosDone(x)

DoneWrites(x) == {Put(x, "DONE"), Put(taskOf[x], "DONE")}

ValidatePickedUp(r) ==
    /\ pc[r] = "validating"
    /\ job[r].op = "PICKED_UP"
    /\ ReadyToHandOver(job[r].todo)
    /\ Continue(r, "updating", DoneWrites(job[r].todo))
    /\ GoAhead(job[r].task)
    /\ UNCHANGED <<seen, started>>

\* Validation passed: the settlement of the credit wallet comes first.
ValidateDelivered(r) ==
    /\ pc[r] = "validating"
    /\ job[r].op = "DELIVERED"
    /\ ReadyToHandOver(job[r].todo)
    /\ Continue(r, "calling", {})
    /\ GoAhead(job[r].task)
    /\ UNCHANGED <<seen, started>>

RefuseHandOver(r) ==
    /\ pc[r] = "validating"
    /\ ~ReadyToHandOver(job[r].todo)
    /\ Return(r, {})
    /\ UNCHANGED <<db, started, history>>

\* The calls before the writes succeed (acceptTrip.process, todoTypeDelivered).
CallsReturn(r) ==
    /\ pc[r] = "calling"
    /\ Continue(r, "updating", DoneWrites(job[r].todo))
    /\ UNCHANGED <<seen, started, history>>

\* validateMultipleAcceptTrip: a ValidateError is thrown without a rollback.
RefuseAccept(r) ==
    /\ pc[r] = "calling"
    /\ job[r].op = "ACCEPT_TRIP"
    /\ Return(r, {})
    /\ UNCHANGED <<db, started, history>>

\* The task and todo are written: the trip follows.  acceptTrip completes
\* the courier's assignment first and does not wait for it.
AdvanceTrip(r) ==
    /\ pc[r] = "updating"
    /\ sent[r] = {}
    /\ job[r].op \in {"ACCEPT_TRIP", "SET_OFF", "PICKED_UP"}
    /\ Continue(r, "closing", {updateTripDetailStatus(job[r].todo, "DOING")})
    /\ IF job[r].op = "ACCEPT_TRIP" THEN Count("assignCourier") ELSE UNCHANGED started
    /\ UNCHANGED <<seen, history>>

\* Slip: every delivery is taken for the last task.
TripStatusAfterAnyDelivery == getTripStatus(task, taskType, "DONE")

\* todoTypeDelivered, todoTypeReceipt: the trip is read again and is closed
\* when no task is open.
TripStatusAfterDelivery ==
    IF isAllTaskCompleted(task) THEN getTripStatus(task, taskType, "DONE")
    ELSE "DOING"

CompleteDelivery(r) ==
    /\ pc[r] = "updating"
    /\ sent[r] = {}
    /\ job[r].op \in {"RECEIPT", "DELIVERED"}
    /\ Continue(r, "closing",
                {updateTripDetailStatus(job[r].todo, TripStatusAfterDelivery)})
    /\ UNCHANGED <<seen, started, history>>

(***************************************************************************)
(* Cancellation (domains/trip/trip.js).                                    *)
(***************************************************************************)
CancelTask(r, t, s) ==
    /\ ~isTripStatusCompleted(trip.status)
    /\ Begin(r, [op |-> "CANCEL_TASK", todo |-> None, task |-> t, status |-> s],
             NoSnapshot, "updating", {Put(t, s)})
    /\ asked' = asked \union {s}
    /\ UNCHANGED proven

ActiveTasks == {t \in Task : task[t] \notin TASK_STATUS_COMPLETED}

\* Slip: allowedToCancelTrip is not called.
CancelAnyTrip(r, s) ==
    /\ Begin(r, [op |-> "CANCEL_TRIP", todo |-> None, task |-> None, status |-> s],
             NoSnapshot, "updating", {Put(t, s) : t \in ActiveTasks})
    /\ asked' = asked \union {s}
    /\ UNCHANGED proven

CancelTrip(r, s) ==
    /\ ~isTripStatusCompleted(trip.status)
    /\ Begin(r, [op |-> "CANCEL_TRIP", todo |-> None, task |-> None, status |-> s],
             NoSnapshot, "updating", {Put(t, s) : t \in ActiveTasks})
    /\ asked' = asked \union {s}
    /\ UNCHANGED proven

\* Slip: a missing await, the trip is read before the tasks are written.
CloseWithoutAwait(r, tripStatus) ==
    /\ pc[r] = "updating"
    /\ Continue(r, "closing", sent[r] \union {Put(Trip, tripStatus)})
    /\ seen' = [seen EXCEPT ![r].trip = tripStatus]
    /\ UNCHANGED <<started, history>>

\* The trip is read again and written; the read also chooses the workflow.
Close(r, tripStatus) ==
    /\ pc[r] = "updating"
    /\ sent[r] = {}
    /\ Continue(r, "closing", {Put(Trip, tripStatus)})
    /\ seen' = [seen EXCEPT ![r].trip = tripStatus]
    /\ UNCHANGED <<started, history>>

\* updateTripStatus: only the last cancelled task closes the trip.
CloseCancelledTask(r) ==
    /\ job[r].op = "CANCEL_TASK"
    /\ Close(r, IF isAllTaskCompleted(task)
                THEN getTripStatus(task, taskType, job[r].status)
                ELSE Keep)

\* updateTripStatusAndTripNote
CloseCancelledTrip(r) ==
    /\ job[r].op = "CANCEL_TRIP"
    /\ Close(r, getTripStatus(task, taskType, job[r].status))

(***************************************************************************)
(* Errors.  The catch block writes the snapshot back: acceptTrip restores  *)
(* the trip status it saw, todoTypeDelivered and todoTypeReceipt take the  *)
(* trip status from todo.taskId.status, the status of the task.            *)
(***************************************************************************)
\* Slips: the catch block restores the todo alone, or leaves out the trip.
RestoreTodo(r) == {Put(job[r].todo, seen[r].todo)}

RestoreTodoAndTask(r) ==
    {Put(job[r].todo, seen[r].todo), Put(job[r].task, seen[r].task)}

Restore(r) ==
    LET x == job[r].todo
        op == job[r].op
    IN  {Put(x, seen[r].todo)}
        \union (IF op \in {"ACCEPT_TRIP", "SET_OFF", "PICKED_UP", "RECEIPT", "DELIVERED"}
                THEN {Put(taskOf[x], seen[r].task)} ELSE {})
        \union (IF op = "ACCEPT_TRIP" THEN {Put(Trip, seen[r].trip)} ELSE {})
        \union (IF op = "PICKED_UP"
                THEN {[Put(Trip, Keep) EXCEPT !.pickedUpTime = "unset"]} ELSE {})
        \union (IF op \in {"RECEIPT", "DELIVERED"}
                THEN {[Put(Trip, seen[r].task) EXCEPT !.deliveredTime = "unset"]} ELSE {})

\* Promise.all rejects with the first error: the other writes stay in flight.
\* The cancellations have no rollback, they rethrow.
Abandon(r, left) ==
    IF job[r].todo = None
    THEN Return(r, left)
    ELSE /\ pc' = [pc EXCEPT ![r] = "restoring"]
         /\ sent' = [sent EXCEPT ![r] = Restore(r)]
         /\ stray' = [stray EXCEPT ![r] = left]
         /\ UNCHANGED <<job, seen>>

(***************************************************************************)
(* The end of a request.                                                   *)
(***************************************************************************)
\* Slip: the transport is started before the tracking URLs, which may fail.
FinishAcceptEarly(r) ==
    /\ pc[r] = "closing"
    /\ sent[r] = {}
    /\ job[r].op = "ACCEPT_TRIP"
    /\ Count("transport")
    /\ Return(r, {}) \/ Abandon(r, {})
    /\ UNCHANGED <<db, history>>

\* startTransportWorkflow, once the tracking URLs are made.
FinishAccept(r) ==
    /\ pc[r] = "closing"
    /\ sent[r] = {}
    /\ job[r].op = "ACCEPT_TRIP"
    /\ Count("transport")
    /\ Return(r, {})
    /\ UNCHANGED <<db, history>>

FinishTodo(r) ==
    /\ pc[r] = "closing"
    /\ sent[r] = {}
    /\ job[r].op \in TodoTypes \ {"ACCEPT_TRIP"}
    /\ Return(r, {})
    /\ UNCHANGED <<db, started, history>>

\* startCancelFailRejectWorkflow: the workflow of the trip or of one task
\* (not counted), chosen from the same read as the trip status.
FinishCancel(r) ==
    /\ pc[r] = "closing"
    /\ sent[r] = {}
    /\ job[r].op \in {"CANCEL_TASK", "CANCEL_TRIP"}
    /\ IF seen[r].trip = Keep THEN UNCHANGED started ELSE Count("cancelTrip")
    /\ Return(r, {})
    /\ UNCHANGED <<db, history>>

(***************************************************************************)
(* Faults.                                                                 *)
(***************************************************************************)
WriteFails(r) ==
    /\ "write" \in Faults
    /\ pc[r] \in {"updating", "closing"}
    /\ \E w \in sent[r] : Abandon(r, sent[r] \ {w})
    /\ UNCHANGED <<db, started, history>>

AckLost(r) ==
    /\ "ack" \in Faults
    /\ pc[r] \in {"updating", "closing"}
    /\ \E w \in sent[r] : Apply(w) /\ Abandon(r, sent[r] \ {w})
    /\ UNCHANGED <<started, history>>

\* A service call or a read throws where the handler awaits one: fleet and
\* wallet, the dispatch tickets next to the writes of acceptTrip, the read
\* of the trip before it is closed, the tracking URLs.
AwaitsCall(r) ==
    \/ pc[r] = "calling"
    \/ pc[r] = "updating" /\ job[r].op = "ACCEPT_TRIP"
    \/ /\ pc[r] = "updating"
       /\ sent[r] = {}
       /\ job[r].op \in {"RECEIPT", "DELIVERED"}
    \/ pc[r] = "closing" /\ sent[r] = {} /\ job[r].op = "ACCEPT_TRIP"

\* A cancellation reads the trip after it wrote the tasks.
AwaitsRead(r) ==
    /\ pc[r] = "updating"
    /\ sent[r] = {}
    /\ job[r].op \in {"CANCEL_TASK", "CANCEL_TRIP"}

CallFails(r) ==
    /\ \/ "call" \in Faults /\ AwaitsCall(r)
       \/ "read" \in Faults /\ AwaitsRead(r)
    /\ Abandon(r, sent[r])
    /\ UNCHANGED <<db, started, history>>

RestoreFails(r) ==
    /\ "restore" \in Faults
    /\ pc[r] = "restoring"
    /\ \E w \in sent[r] : sent' = [sent EXCEPT ![r] = @ \ {w}]
    /\ UNCHANGED <<db, pc, job, seen, stray, started, history>>

Restored(r) ==
    /\ pc[r] = "restoring"
    /\ sent[r] = {}
    /\ Return(r, stray[r])
    /\ UNCHANGED <<db, started, history>>

(***************************************************************************)
(* The database applies the writes in flight, in any order; with InOrder,  *)
(* a rollback does not overtake the write it undoes.                       *)
(***************************************************************************)
Land(r) ==
    /\ \E w \in sent[r] :
        /\ InOrder => \A v \in stray[r] : v.doc # w.doc
        /\ Apply(w)
        /\ sent' = [sent EXCEPT ![r] = @ \ {w}]
    /\ UNCHANGED <<pc, job, seen, stray, started, history>>

LandStray(r) ==
    /\ \E w \in stray[r] :
        /\ Apply(w)
        /\ stray' = [stray EXCEPT ![r] = @ \ {w}]
    /\ UNCHANGED <<pc, job, seen, sent, started, history>>

(***************************************************************************)
(* The specification.  A trip starts as create leaves it: every task and   *)
(* todo is waiting.                                                        *)
(***************************************************************************)
Init ==
    /\ trip = [status |-> "PENDING", pickedUpTime |-> "unset", deliveredTime |-> "unset"]
    /\ task = [t \in Task |-> "PENDING"]
    /\ todo = [x \in Todo |-> "TODO"]
    /\ pc = [r \in Slot |-> "idle"]
    /\ job = [r \in Slot |-> NoJob]
    /\ seen = [r \in Slot |-> NoSnapshot]
    /\ sent = [r \in Slot |-> {}]
    /\ stray = [r \in Slot |-> {}]
    /\ started = [w \in Workflows |-> 0]
    /\ asked = {}
    /\ proven = {}

Dispatch(r, x) ==
    AcceptTrip(r, x) \/ PickUp(r, x) \/ Delivery(r, x) \/ ReturnTask(r, x)

Cancel(r, s) == CancelTrip(r, s) \/ \E t \in Task : CancelTask(r, t, s)

Handle(r) ==
    \/ ValidatePickedUp(r) \/ ValidateDelivered(r) \/ RefuseHandOver(r)
    \/ CallsReturn(r) \/ RefuseAccept(r)
    \/ AdvanceTrip(r) \/ CompleteDelivery(r)
    \/ CloseCancelledTask(r) \/ CloseCancelledTrip(r)
    \/ FinishAccept(r) \/ FinishTodo(r) \/ FinishCancel(r)
    \/ Restored(r)

Fault(r) == WriteFails(r) \/ AckLost(r) \/ CallFails(r) \/ RestoreFails(r)

Next ==
    \E r \in Slot :
        \/ \E x \in Todo : Dispatch(r, x)
        \/ \E s \in CancelStatus : Cancel(r, s)
        \/ Handle(r)
        \/ Fault(r)
        \/ Land(r)
        \/ LandStray(r)

Spec == Init /\ [][Next]_vars

(***************************************************************************)
(* Properties.                                                             *)
(***************************************************************************)
\* The statuses a task document of a trip under way ever has.
TaskStatus == {"PENDING", "DOING", "DONE"} \union LIST_TASK_STATUS_CANCELLED

Times == {"set", "unset"}

Await == {"idle", "calling", "validating", "updating", "closing", "restoring"}

SnapshotSet == [trip : TRIP_STATUS \union {Keep},
                task : TaskStatus \union {Keep},
                todo : TODO_STATUS \union {Keep}]

\* Every document keeps to its enum, although the rollbacks of delivery.js
\* write a task status into the trip and every rollback writes a snapshot.
TypeOK ==
    /\ trip \in [status : TRIP_STATUS, pickedUpTime : Times, deliveredTime : Times]
    /\ task \in [Task -> TaskStatus]
    /\ todo \in [Todo -> TODO_STATUS]
    /\ pc \in [Slot -> Await]
    /\ job \in [Slot -> Job]
    /\ seen \in [Slot -> SnapshotSet]
    /\ sent \in [Slot -> SUBSET Write]
    /\ stray \in [Slot -> SUBSET Write]
    /\ started \in [Workflows -> 0..MaxCount]
    /\ asked \subseteq CancelStatus
    /\ proven \subseteq Task

Proven(type) == \E t \in proven : taskType[t] = type

TripCause(s) ==
    /\ s = "DOING" => Proven("ACCEPT_TRIP")
    /\ s \in LIST_TRIP_STATUS_FAILED => s \in asked
    /\ s = "PARTIAL_DONE" => asked # {} /\ Proven("DELIVERY")
    /\ s = "DONE" => Proven("DELIVERY")

TaskCause(t, s) ==
    /\ s = "DOING" => Proven("ACCEPT_TRIP")
    /\ s \in LIST_TASK_STATUS_CANCELLED => s \in asked
    /\ s = "DONE" => t \in proven

\* Whatever requests interleave, fail or roll back (acceptTrip.js, pickUp.js,
\* delivery.js, return.js, trip.js): a trip or task is under way only if
\* somebody went ahead to accept the trip, is cancelled only with a status a
\* dispatcher asked for, and is done only if a handler went ahead to finish
\* a delivery, or that task.  No rollback and no late write invents a status.
StatusHasCause ==
    /\ TripCause(trip.status)
    /\ \A t \in Task : TaskCause(t, task[t])
    /\ trip.pickedUpTime = "set" => Proven("PICKUP")
    /\ proven # {} => Proven("ACCEPT_TRIP")

Quiet == \A r \in Slot : pc[r] = "idle" /\ stray[r] = {}

\* Until a handler goes ahead with a todo, a trip whose tasks are all
\* completed is completed itself when nothing is in flight: whoever cancels
\* the last task reads the trip after its own write (trip.js
\* updateTripStatus), so at least one of the cancellations sees that it is
\* last.  A handler that went ahead writes the trip without looking.
LastCancelClosesTrip ==
    Quiet /\ proven = {} /\ isAllTaskCompleted(task)
        => isTripStatusCompleted(trip.status)

\* The transport of a trip is ordered from Melonade once (acceptTrip.js
\* startTransportWorkflow), however often accepting it fails and is retried.
AcceptedOnce == started["transport"] <= 1

\* A trip is cancelled once (trip.js startCancelFailRejectWorkflow): the
\* second cancellation is turned away by allowedToCancelTrip.
CancelledOnce == started["cancelTrip"] <= 1

\* Between requests, a trip under way or delivered has its transport ordered.
AcceptedTripHasTransport ==
    Quiet /\ trip.status \in {"DOING", "DONE", "PARTIAL_DONE"}
        => started["transport"] >= 1

\* The status shown for an order whose parcel every task carries
\* (utils/trip.util.js getRefOrderTripStatus, computed from the tasks alone)
\* agrees with the trip, which the cancellations and deliveries wrote one
\* after the other, as long as dispatchers cancel with one status and no
\* cancellation closes a trip that has no task left to cancel.
OrderShowsTripStatus ==
    /\ Quiet /\ isTripStatusCompleted(trip.status)
    /\ \E s \in TASK_STATUS : asked \subseteq {s}
    /\ trip.status = "DONE" \/ isSomeTaskCancelled(task)
    => getRefOrderTripStatus(task, taskType) = trip.status

\* What the checks of pickUp.js (validatePickedUp) and delivery.js
\* (validateToDelivered) are for: they refuse a task with an open todo, so
\* once nobody works on it, a task that was picked up or delivered has every
\* todo done.  The code loses it: a todo they counted may be put back by the
\* catch block of the request that wrote it.
HandedOverTaskIsComplete ==
    Quiet => \A x \in Todo :
        todoType[x] \in {"PICKED_UP", "DELIVERED"} /\ todo[x] = "DONE"
            => \A y \in Todo : taskOf[y] = taskOf[x] => todo[y] = "DONE"
===========================================================================
