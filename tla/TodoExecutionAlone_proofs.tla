---------------------- MODULE TodoExecutionAlone_proofs ----------------------
(***************************************************************************)
(* Proofs about TodoExecution while one request at a time works on a trip: *)
(* whichever of its writes, calls or acknowledgements fail, the request of *)
(* a todo is atomic (TodoExecution implements TripLifecycle), in every run *)
(* in which no write of a catch block overtakes the write it takes back.   *)
(*                                                                         *)
(* The inductive invariant says, for every await of every handler, which   *)
(* of its writes are still in flight and what the documents are by then,   *)
(* and for a rollback which document its writes or the documents           *)
(* themselves already bring back to the snapshot.                          *)
(***************************************************************************)
EXTENDS TodoExecutionAlone, TodoExecution_proofs

\* One request at a time, and the database takes the writes of a catch block.
Alone(r) == Slot = {r} /\ "restore" \notin Faults

\* A write of a catch block is applied before the write of the same document
\* that the failed Promise.all left behind.  The driver sends the writes over
\* a pool of connections, so it may happen; the document then keeps what the
\* request did, although the request failed.
Overtakes(r) ==
    \E w \in sent[r] :
        /\ sent' = [sent EXCEPT ![r] = @ \ {w}]
        /\ \E v \in stray[r] : v.doc = w.doc

\* No catch block of the run is overtaken.
CatchBlocksInTurn(r) == [][~Overtakes(r)]_vars

TaskOps == {"ACCEPT_TRIP", "SET_OFF", "PICKED_UP", "RECEIPT", "DELIVERED"}

\* What the request of a todo makes of its task and of the trip.
Target(x) == IF todoType[x] = "SET_OFF" THEN "DOING" ELSE "DONE"

TripTarget(x) ==
    IF todoType[x] \in {"RECEIPT", "DELIVERED"} THEN TripStatusAfterDelivery ELSE "DOING"

(***************************************************************************)
(* The awaits of the request of todo x in slot r.                          *)
(***************************************************************************)
\* The documents are as the snapshot says and nothing was written.
Found(r, x) ==
    /\ trip.status = seen[r].trip
    /\ task[taskOf[x]] = seen[r].task
    /\ todo[x] = seen[r].todo
    /\ sent[r] = {} /\ stray[r] = {}

\* The snapshot let the handler go ahead.
Entitled(r, x) ==
    /\ seen[r].trip = IF todoType[x] = "ACCEPT_TRIP" THEN "PENDING" ELSE "DOING"
    /\ seen[r].task = IF todoType[x] \in {"ACCEPT_TRIP", "SET_OFF"} THEN "PENDING" ELSE "DOING"
    /\ todoType[x] \notin HandOvers => seen[r].todo = "TODO"
    /\ todoType[x] \in HandOvers => OtherTodosDone(x)

Validating(r, x) == pc[r] = "validating" /\ Found(r, x) /\ todoType[x] \in HandOvers

Calling(r, x) ==
    /\ pc[r] = "calling" /\ Found(r, x) /\ Entitled(r, x)
    /\ todoType[x] \in {"ACCEPT_TRIP", "DELIVERED"}

Updating(r, x) ==
    /\ pc[r] = "updating" /\ Entitled(r, x) /\ stray[r] = {}
    /\ todoType[x] \in TaskOps
    /\ sent[r] \subseteq {Put(x, "DONE"), Put(taskOf[x], Target(x)), Put(Trip, Keep)}
    /\ trip.status = seen[r].trip
    /\ Put(x, "DONE") \in sent[r] \/ todo[x] = "DONE"
    /\ Put(taskOf[x], Target(x)) \in sent[r] \/ task[taskOf[x]] = Target(x)

ClosingTask(r, x) ==
    /\ pc[r] = "closing" /\ Entitled(r, x) /\ stray[r] = {}
    /\ todoType[x] \in TaskOps
    /\ sent[r] \subseteq {updateTripDetailStatus(x, TripTarget(x))}
    /\ todo[x] = "DONE" /\ task[taskOf[x]] = Target(x)
    /\ trip.status \in {seen[r].trip, TripTarget(x)}
    /\ sent[r] = {} => trip.status = TripTarget(x)

ClosingRecord(r, x) ==
    /\ pc[r] = "closing" /\ Entitled(r, x) /\ stray[r] = {}
    /\ todoType[x] \notin TaskOps
    /\ sent[r] \subseteq {Put(x, "DONE"), Put(Trip, Keep), updateTripDetailStatus(x, "DOING")}
    /\ trip.status = seen[r].trip /\ task[taskOf[x]] = seen[r].task
    /\ Put(x, "DONE") \in sent[r] \/ todo[x] = "DONE"

\* Every document is back, and stays so, or a write of the rollback will
\* bring it back.
Restoring(r, x) ==
    /\ pc[r] = "restoring"
    /\ \A w \in sent[r] :
        \/ w = Put(x, seen[r].todo) \/ w = Put(taskOf[x], seen[r].task)
        \/ w.doc = Trip /\ w.status \in {Keep, seen[r].trip}
    /\ \A w \in stray[r] : w.doc \in {x, taskOf[x], Trip}
    /\ \/ Put(x, seen[r].todo) \in sent[r]
       \/ todo[x] = seen[r].todo /\ \A w \in stray[r] : w.doc # x
    /\ \/ Put(taskOf[x], seen[r].task) \in sent[r]
       \/ task[taskOf[x]] = seen[r].task /\ \A w \in stray[r] : w.doc # taskOf[x]
    /\ \/ \E w \in sent[r] : w.doc = Trip /\ w.status = seen[r].trip
       \/ /\ trip.status = seen[r].trip
          /\ \A w \in stray[r] : w.doc = Trip => w.status \in {Keep, seen[r].trip}

TodoShape(r, x) ==
    /\ job[r] = TodoJob(x)
    /\ \/ Validating(r, x) \/ Calling(r, x) \/ Updating(r, x)
       \/ ClosingTask(r, x) \/ ClosingRecord(r, x) \/ Restoring(r, x)

(***************************************************************************)
(* The awaits of a cancellation, and the time between requests.            *)
(***************************************************************************)
Cancelling(r) ==
    /\ job[r].todo = None /\ stray[r] = {}
    /\ job[r].op \in {"CANCEL_TASK", "CANCEL_TRIP"} /\ job[r].status \in CancelStatus

CancellingTasks(r) ==
    /\ pc[r] = "updating" /\ Cancelling(r)
    /\ ~isTripStatusCompleted(trip.status)
    /\ sent[r] \subseteq {Put(t, job[r].status) : t \in Task}
    /\ job[r].op = "CANCEL_TRIP" => \A t \in ActiveTasks : Put(t, job[r].status) \in sent[r]

\* seen[r].trip is the status the cancellation chose, or Keep.
ClosingTrip(r) ==
    /\ pc[r] = "closing" /\ Cancelling(r)
    /\ sent[r] \subseteq {Put(Trip, seen[r].trip)}
    /\ sent[r] # {} => ~isTripStatusCompleted(trip.status)
    /\ seen[r].trip # Keep =>
        /\ isAllTaskCompleted(task)
        /\ seen[r].trip = getTripStatus(task, taskType, job[r].status)
        /\ sent[r] = {} => trip.status = seen[r].trip

\* What may still be in flight: a write of the trip that changes nothing, or
\* a write of a cancellation that stopped half way.
Idle(r) ==
    /\ pc[r] = "idle" /\ job[r] = NoJob /\ sent[r] = {}
    /\ \A w \in stray[r] :
        \/ w.doc = Trip /\ w.status \in {Keep, trip.status}
        \/ /\ \E t \in Task, s \in CancelStatus : w = Put(t, s)
           /\ ~isTripStatusCompleted(trip.status)

Shape(r) ==
    \/ Idle(r) \/ CancellingTasks(r) \/ ClosingTrip(r)
    \/ \E x \in Todo : TodoShape(r, x)

(***************************************************************************)
(* What callers rely on.                                                   *)
(***************************************************************************)
\* A cancellation that is about to start ODM_CANCEL_FAIL_REJECT_TRIP.
Announces(r) == pc[r] = "closing" /\ job[r].todo = None /\ seen[r].trip # Keep

Counts == <<started["transport"], started["cancelTrip"]>>

CountsUp(workflow) ==
    started'[workflow] = IF started[workflow] < MaxCount THEN started[workflow] + 1
                         ELSE started[workflow]

\* Every step of slot r is one of these.
Nothing(r) ==
    /\ UNCHANGED Settled /\ UNCHANGED Counts
    /\ Announces(r)' => Announces(r) \/ ~isTripStatusCompleted(Settled.status)

Accepts(r) ==
    /\ \E x \in Todo : Promise!Accept(x)
    /\ CountsUp("transport") /\ UNCHANGED started["cancelTrip"] /\ ~Announces(r)'

Executes(r) ==
    /\ \E x \in Todo : Promise!Start(x) \/ Promise!Record(x) \/ Promise!Finish(x)
    /\ UNCHANGED Counts /\ ~Announces(r)'

Cancels(r) ==
    /\ \E s \in CancelStatus : Promise!Close(s) \/ \E t \in Task : Promise!Cancel(t, s)
    /\ UNCHANGED Counts /\ (Announces(r)' => Announces(r))

Announced(r) ==
    /\ UNCHANGED Settled /\ UNCHANGED started["transport"] /\ CountsUp("cancelTrip")
    /\ Announces(r) /\ isTripStatusCompleted(Settled.status) /\ ~Announces(r)'

Lasting(r) == Nothing(r) \/ Accepts(r) \/ Executes(r) \/ Cancels(r) \/ Announced(r)

Counted(r) ==
    /\ Settled.status # "TODO"
    /\ started["transport"] <= 1 /\ started["cancelTrip"] <= 1
    /\ Settled.status = "PENDING" =>
        /\ started["transport"] = 0
        /\ \A t \in Task : Settled.tasks[t] # "DONE"
    /\ Settled.status \in {"DOING", "DONE", "PARTIAL_DONE"} => started["transport"] = 1
    /\ ~isTripStatusCompleted(Settled.status) \/ Announces(r) => started["cancelTrip"] = 0

\* Who closed a trip: the last delivery, or a cancellation.
ClosedForCause ==
    isTripStatusCompleted(Settled.status) =>
        /\ isAllTaskCompleted(Settled.tasks)
        /\ \/ /\ Settled.status = getTripStatus(Settled.tasks, taskType, "DONE")
              /\ isSomeTaskDelivered(Settled.tasks, taskType)
           \/ \E s \in CancelStatus :
                Settled.status = getTripStatus(Settled.tasks, taskType, s)

AloneInv(r) == CauseInv /\ Shape(r) /\ Counted(r) /\ ClosedForCause

(***************************************************************************)
(* The refinement mapping.                                                 *)
(***************************************************************************)
\* Between the requests of todos, callers see the documents.
LEMMA SettledAtRest ==
    ASSUME NEW r, Slot = {r}
    PROVE  /\ pc[r] = "idle" \/ job[r].todo = None =>
                Settled = [status |-> trip.status, tasks |-> task, todos |-> todo]
           /\ (pc[r] = "idle" \/ job[r].todo = None =>
                Settled = [status |-> trip.status, tasks |-> task, todos |-> todo])'
<1>1. ASSUME pc[r] = "idle" \/ job[r].todo = None
      PROVE  Settled = [status |-> trip.status, tasks |-> task, todos |-> todo]
  <2>1. Running = {}
    BY <1>1 DEF Running
  <2> QED BY <2>1 DEF Settled
<1>2. ASSUME (pc[r] = "idle" \/ job[r].todo = None)'
      PROVE  (Settled = [status |-> trip.status, tasks |-> task, todos |-> todo])'
  <2>1. Running' = {}
    BY <1>2 DEF Running
  <2> QED BY <2>1 DEF Settled
<1> QED BY <1>1, <1>2

\* While the request of a todo runs, callers see what it found.
SettledAs(r, x) ==
    Settled = [status |-> seen[r].trip,
               tasks |-> [task EXCEPT ![taskOf[x]] = seen[r].task],
               todos |-> [todo EXCEPT ![x] = seen[r].todo]]

LEMMA SettledInRequest ==
    ASSUME NEW r, Slot = {r}, NEW x \in Todo
    PROVE  /\ pc[r] # "idle" /\ job[r] = TodoJob(x) => SettledAs(r, x)
           /\ (pc[r] # "idle" /\ job[r] = TodoJob(x) => SettledAs(r, x))'
<1>0. x # None
  BY TripAssumption DEF Doc
<1>1. ASSUME pc[r] # "idle", job[r] = TodoJob(x)
      PROVE  SettledAs(r, x)
  <2>1. job[r].todo = x /\ job[r].task = taskOf[x]
    BY <1>1 DEF TodoJob
  <2>2. Running = {r}
    BY <1>0, <1>1, <2>1 DEF Running
  <2>3. Running # {} /\ (CHOOSE q \in Running : TRUE) = r
    BY <2>2
  <2> QED BY <2>1, <2>3 DEF Settled, SettledAs
<1>2. ASSUME (pc[r] # "idle" /\ job[r] = TodoJob(x))'
      PROVE  SettledAs(r, x)'
  <2>1. job'[r].todo = x /\ job'[r].task = taskOf[x]
    BY <1>2 DEF TodoJob
  <2>2. Running' = {r}
    BY <1>0, <1>2, <2>1 DEF Running
  <2>3. Running' # {} /\ (CHOOSE q \in Running' : TRUE) = r
    BY <2>2
  <2> QED BY <2>1, <2>3 DEF Settled, SettledAs
<1> QED BY <1>1, <1>2

\* The documents of the request of todo x do not show while it runs.
LEMMA Masked ==
    ASSUME NEW r, Slot = {r}, NEW x \in Todo, TypeOK, TypeOK',
           pc[r] # "idle", job[r] = TodoJob(x), pc'[r] # "idle", job'[r] = job[r],
           seen'[r] = seen[r],
           \A t \in Task \ {taskOf[x]} : task'[t] = task[t],
           \A y \in Todo \ {x} : todo'[y] = todo[y]
    PROVE  UNCHANGED Settled
<1>1. SettledAs(r, x) /\ SettledAs(r, x)'
  BY SettledInRequest
<1>2. [task' EXCEPT ![taskOf[x]] = seen[r].task] = [task EXCEPT ![taskOf[x]] = seen[r].task]
  BY DEF TypeOK
<1>3. [todo' EXCEPT ![x] = seen[r].todo] = [todo EXCEPT ![x] = seen[r].todo]
  BY DEF TypeOK
<1> QED BY <1>1, <1>2, <1>3 DEF SettledAs

\* A snapshot that is true shows the documents.
LEMMA Unmasked ==
    ASSUME NEW r \in Slot, NEW x \in Todo, TypeOK,
           task[taskOf[x]] = seen[r].task, todo[x] = seen[r].todo
    PROVE  /\ [task EXCEPT ![taskOf[x]] = seen[r].task] = task
           /\ [todo EXCEPT ![x] = seen[r].todo] = todo
<1>1. taskOf[x] \in Task
  BY TodoTellsTask
<1> QED BY <1>1 DEF TypeOK

\* The request of a todo begins: callers notice nothing.
LEMMA BeginTodoHides ==
    ASSUME NEW r, Alone(r), TypeOK, NEW x \in Todo, NEW at \in Await \ {"idle"}, NEW writes,
           BeginTodo(r, x, at, writes)
    PROVE  /\ pc'[r] = at /\ job'[r] = TodoJob(x) /\ sent'[r] = writes /\ stray'[r] = {}
           /\ seen'[r] = Snapshot(x)
           /\ seen'[r].trip = trip.status /\ seen'[r].task = task[taskOf[x]]
           /\ seen'[r].todo = todo[x]
           /\ trip' = trip /\ task' = task /\ todo' = todo
           /\ Nothing(r)
<1> Slot = {r} /\ r \in Slot
  BY DEF Alone
<1>1. /\ pc[r] = "idle" /\ pc'[r] = at /\ job'[r] = TodoJob(x) /\ sent'[r] = writes
      /\ stray'[r] = {} /\ seen'[r] = Snapshot(x)
      /\ trip' = trip /\ task' = task /\ todo' = todo /\ started' = started
  BY BeginEffect DEF BeginTodo
<1>2. /\ seen'[r].trip = trip.status /\ seen'[r].task = task[taskOf[x]]
      /\ seen'[r].todo = todo[x]
  BY <1>1 DEF Snapshot
<1>3. SettledAs(r, x)'
  BY <1>1, SettledInRequest DEF Await
<1>4. Settled = [status |-> trip.status, tasks |-> task, todos |-> todo]
  BY <1>1, SettledAtRest
<1>5. /\ [task' EXCEPT ![taskOf[x]] = seen'[r].task] = task
      /\ [todo' EXCEPT ![x] = seen'[r].todo] = todo
  <2>1. taskOf[x] \in Task
    BY TodoTellsTask
  <2> QED BY <1>1, <1>2, <2>1 DEF TypeOK
<1>6. UNCHANGED Settled
  BY <1>1, <1>2, <1>3, <1>4, <1>5 DEF SettledAs
<1>7. ~Announces(r)'
  <2>1. job'[r].todo = x /\ x # None
    BY <1>1, TripAssumption DEF TodoJob, Doc
  <2> QED BY <2>1 DEF Announces
<1> QED BY <1>1, <1>2, <1>6, <1>7 DEF Nothing, Counts

(***************************************************************************)
(* Requests of todos begin.                                                *)
(***************************************************************************)
LEMMA SetOffAlone ==
    ASSUME NEW r, Alone(r), TypeOK, NEW x \in Todo, SetOff(r, x)
    PROVE  Shape(r)' /\ Nothing(r)
<1>1. PICK writes :
        /\ todoType[x] = "SET_OFF" /\ trip.status = "DOING" /\ task[taskOf[x]] = "PENDING"
        /\ todo[x] = "TODO" /\ BeginTodo(r, x, "updating", writes)
        /\ writes = {Put(x, "DONE"), Put(taskOf[x], "DOING")}
  BY DEF SetOff, Active
<1>2. /\ pc'[r] = "updating" /\ job'[r] = TodoJob(x) /\ stray'[r] = {} /\ sent'[r] = writes
      /\ seen'[r].trip = trip.status /\ seen'[r].task = task[taskOf[x]]
      /\ seen'[r].todo = todo[x]
      /\ trip' = trip /\ task' = task /\ todo' = todo /\ Nothing(r)
  BY <1>1, BeginTodoHides DEF Await
<1>3. Entitled(r, x)'
  BY <1>1, <1>2 DEF Entitled, HandOvers
<1>4. Updating(r, x)'
  BY <1>1, <1>2, <1>3 DEF Updating, TaskOps, Target
<1> QED BY <1>2, <1>4 DEF Shape, TodoShape

LEMMA RecordTodoAlone ==
    ASSUME NEW r, Alone(r), TypeOK, NEW x \in Todo,
           todoType[x] \in PickupRecords \union DeliveryRecords,
           RecordTodo(r, x) \/ Summary(r, x)
    PROVE  Shape(r)' /\ Nothing(r)
<1>1. PICK writes :
        /\ trip.status = "DOING" /\ task[taskOf[x]] = "DOING" /\ todo[x] = "TODO"
        /\ BeginTodo(r, x, "closing", writes)
        /\ Put(x, "DONE") \in writes
        /\ writes \subseteq {Put(x, "DONE"), Put(Trip, Keep), updateTripDetailStatus(x, "DOING")}
  BY DEF RecordTodo, Summary, Active
<1>2. /\ pc'[r] = "closing" /\ job'[r] = TodoJob(x) /\ stray'[r] = {} /\ sent'[r] = writes
      /\ seen'[r].trip = trip.status /\ seen'[r].task = task[taskOf[x]]
      /\ seen'[r].todo = todo[x]
      /\ trip' = trip /\ task' = task /\ todo' = todo /\ Nothing(r)
  BY <1>1, BeginTodoHides DEF Await
<1>3. todoType[x] \notin TaskOps
  BY DEF TaskOps, PickupRecords, DeliveryRecords
<1>4. Entitled(r, x)'
  BY <1>1, <1>2, <1>3 DEF Entitled, HandOvers, TaskOps
<1>5. ClosingRecord(r, x)'
  BY <1>1, <1>2, <1>3, <1>4 DEF ClosingRecord, updateTripDetailStatus
<1> QED BY <1>2, <1>5 DEF Shape, TodoShape

LEMMA ReceiptAlone ==
    ASSUME NEW r, Alone(r), TypeOK, NEW x \in Todo, Receipt(r, x)
    PROVE  Shape(r)' /\ Nothing(r)
<1>1. /\ todoType[x] = "RECEIPT" /\ trip.status = "DOING" /\ task[taskOf[x]] = "DOING"
      /\ todo[x] = "TODO"
      /\ BeginTodo(r, x, "updating", {Put(Trip, Keep), Put(x, "DONE"), Put(taskOf[x], "DONE")})
  BY DEF Receipt, Active
<1>2. /\ pc'[r] = "updating" /\ job'[r] = TodoJob(x) /\ stray'[r] = {}
      /\ sent'[r] = {Put(Trip, Keep), Put(x, "DONE"), Put(taskOf[x], "DONE")}
      /\ seen'[r].trip = trip.status /\ seen'[r].task = task[taskOf[x]]
      /\ seen'[r].todo = todo[x]
      /\ trip' = trip /\ task' = task /\ todo' = todo /\ Nothing(r)
  BY <1>1, BeginTodoHides DEF Await
<1>3. Entitled(r, x)'
  BY <1>1, <1>2 DEF Entitled, HandOvers
<1>4. Updating(r, x)'
  BY <1>1, <1>2, <1>3 DEF Updating, TaskOps, Target
<1> QED BY <1>2, <1>4 DEF Shape, TodoShape

LEMMA HandOverAlone ==
    ASSUME NEW r, Alone(r), TypeOK, NEW x \in Todo, HandOver(r, x)
    PROVE  Shape(r)' /\ Nothing(r)
<1>1. todoType[x] \in HandOvers /\ BeginTodo(r, x, "validating", {})
  BY DEF HandOver, HandOvers
<1>2. /\ pc'[r] = "validating" /\ job'[r] = TodoJob(x) /\ stray'[r] = {} /\ sent'[r] = {}
      /\ seen'[r].trip = trip.status /\ seen'[r].task = task[taskOf[x]]
      /\ seen'[r].todo = todo[x]
      /\ trip' = trip /\ task' = task /\ todo' = todo /\ Nothing(r)
  BY <1>1, BeginTodoHides DEF Await
<1>3. Validating(r, x)'
  BY <1>1, <1>2 DEF Validating, Found
<1> QED BY <1>2, <1>3 DEF Shape, TodoShape

LEMMA AcceptTripAlone ==
    ASSUME NEW r, Alone(r), TypeOK, NEW x \in Todo, AcceptTrip(r, x)
    PROVE  Shape(r)' /\ Nothing(r)
<1>1. /\ todoType[x] = "ACCEPT_TRIP" /\ trip.status = "PENDING" /\ task[taskOf[x]] = "PENDING"
      /\ todo[x] = "TODO" /\ BeginTodo(r, x, "calling", {})
  BY TodoTellsTask DEF AcceptTrip, Active
<1>2. /\ pc'[r] = "calling" /\ job'[r] = TodoJob(x) /\ stray'[r] = {} /\ sent'[r] = {}
      /\ seen'[r].trip = trip.status /\ seen'[r].task = task[taskOf[x]]
      /\ seen'[r].todo = todo[x]
      /\ trip' = trip /\ task' = task /\ todo' = todo /\ Nothing(r)
  BY <1>1, BeginTodoHides DEF Await
<1>3. Entitled(r, x)'
  BY <1>1, <1>2 DEF Entitled, HandOvers
<1>4. Calling(r, x)'
  BY <1>1, <1>2, <1>3 DEF Calling, Found
<1> QED BY <1>2, <1>4 DEF Shape, TodoShape

LEMMA DispatchAlone ==
    ASSUME NEW r, Alone(r), TypeOK, NEW x \in Todo, Dispatch(r, x)
    PROVE  Shape(r)' /\ Nothing(r)
<1>1. CASE AcceptTrip(r, x)
  BY <1>1, AcceptTripAlone
<1>2. CASE PickUp(r, x)
  BY <1>2, SetOffAlone, RecordTodoAlone, HandOverAlone DEF PickUp
<1>3. CASE Delivery(r, x)
  BY <1>3, SetOffAlone, RecordTodoAlone, ReceiptAlone, HandOverAlone
     DEF Delivery, Summary, DeliveryRecords
<1>4. CASE ReturnTask(r, x)
  BY <1>4, SetOffAlone, RecordTodoAlone DEF ReturnTask, PickupRecords
<1> QED BY <1>1, <1>2, <1>3, <1>4 DEF Dispatch

(***************************************************************************)
(* Requests of todos go on.                                                *)
(***************************************************************************)
\* The next await of the request of todo x: callers notice nothing.
LEMMA ContinueHides ==
    ASSUME NEW r, Alone(r), TypeOK, TypeOK', NEW x \in Todo, job[r] = TodoJob(x),
           pc[r] # "idle", NEW at \in Await \ {"idle"}, NEW writes, Continue(r, at, writes),
           seen' = seen, UNCHANGED Counts
    PROVE  /\ pc'[r] = at /\ job'[r] = TodoJob(x) /\ sent'[r] = writes /\ stray'[r] = stray[r]
           /\ seen' = seen /\ trip' = trip /\ task' = task /\ todo' = todo
           /\ Nothing(r)
<1> Slot = {r} /\ r \in Slot
  BY DEF Alone
<1>1. /\ pc'[r] = at /\ job'[r] = TodoJob(x) /\ sent'[r] = writes /\ stray'[r] = stray[r]
      /\ trip' = trip /\ task' = task /\ todo' = todo
  BY ContinueEffect
<1>2. UNCHANGED Settled
  BY <1>1, Masked DEF Await
<1>3. ~Announces(r)'
  <2>1. job'[r].todo = x /\ x # None
    BY <1>1, TripAssumption DEF TodoJob, Doc
  <2> QED BY <2>1 DEF Announces
<1> QED BY <1>1, <1>2, <1>3 DEF Nothing

\* A request of a todo is in one of the todo shapes.
LEMMA TodoRuns ==
    ASSUME NEW r \in Slot, Shape(r), pc[r] # "idle", job[r].todo # None
    PROVE  \E x \in Todo : /\ TodoShape(r, x) /\ job[r] = TodoJob(x)
                           /\ job[r].todo = x /\ job[r].task = taskOf[x]
                           /\ job[r].op = todoType[x]
<1>1. PICK x \in Todo : TodoShape(r, x)
  BY DEF Shape, Idle, CancellingTasks, ClosingTrip, Cancelling
<1> QED BY <1>1 DEF TodoShape, TodoJob

LEMMA ValidateAlone ==
    ASSUME NEW r, Alone(r), CauseInv, CauseInv', Shape(r),
           ValidatePickedUp(r) \/ ValidateDelivered(r)
    PROVE  Shape(r)' /\ Nothing(r)
<1> r \in Slot /\ TypeOK /\ TypeOK'
  BY DEF Alone, CauseInv
<1>1. pc[r] = "validating" /\ job[r].todo # None
  BY DEF ValidatePickedUp, ValidateDelivered, CauseInv, ProgressOK
<1>2. PICK x \in Todo : /\ TodoShape(r, x) /\ job[r] = TodoJob(x)
                        /\ job[r].todo = x /\ job[r].task = taskOf[x] /\ job[r].op = todoType[x]
  BY <1>1, TodoRuns
<1>3. Validating(r, x)
  BY <1>1, <1>2 DEF TodoShape, Calling, Updating, ClosingTask, ClosingRecord, Restoring
<1>4. /\ trip.status = "DOING" /\ task[taskOf[x]] = "DOING" /\ OtherTodosDone(x)
      /\ seen' = seen /\ started' = started /\ UNCHANGED Counts
  BY <1>2 DEF ValidatePickedUp, ValidateDelivered, ReadyToHandOver, Counts
<1>5. ASSUME todo' = todo PROVE Entitled(r, x)'
  BY <1>3, <1>4, <1>5 DEF Entitled, Validating, Found, HandOvers, OtherTodosDone
<1>6. CASE ValidatePickedUp(r)
  <2>1. todoType[x] = "PICKED_UP" /\ Continue(r, "updating", DoneWrites(x))
    BY <1>2, <1>6 DEF ValidatePickedUp
  <2>2. /\ pc'[r] = "updating" /\ job'[r] = TodoJob(x) /\ sent'[r] = DoneWrites(x)
        /\ stray'[r] = stray[r] /\ trip' = trip /\ task' = task /\ todo' = todo /\ Nothing(r)
    BY <1>1, <1>2, <1>4, <2>1, ContinueHides DEF Await
  <2>3. Updating(r, x)'
    BY <1>3, <1>4, <1>5, <2>1, <2>2
       DEF Updating, Validating, Found, TaskOps, Target, DoneWrites
  <2> QED BY <2>2, <2>3 DEF Shape, TodoShape
<1>7. CASE ValidateDelivered(r)
  <2>1. todoType[x] = "DELIVERED" /\ Continue(r, "calling", {})
    BY <1>2, <1>7 DEF ValidateDelivered
  <2>2. /\ pc'[r] = "calling" /\ job'[r] = TodoJob(x) /\ sent'[r] = {}
        /\ stray'[r] = stray[r] /\ trip' = trip /\ task' = task /\ todo' = todo /\ Nothing(r)
    BY <1>1, <1>2, <1>4, <2>1, ContinueHides DEF Await
  <2>3. Calling(r, x)'
    BY <1>3, <1>4, <1>5, <2>1, <2>2 DEF Calling, Validating, Found
  <2> QED BY <2>2, <2>3 DEF Shape, TodoShape
<1> QED BY <1>6, <1>7

LEMMA CallsReturnAlone ==
    ASSUME NEW r, Alone(r), CauseInv, CauseInv', Shape(r), CallsReturn(r)
    PROVE  Shape(r)' /\ Nothing(r)
<1> r \in Slot /\ TypeOK /\ TypeOK'
  BY DEF Alone, CauseInv
<1>1. pc[r] = "calling" /\ job[r].todo # None
  BY DEF CallsReturn, CauseInv, ProgressOK
<1>2. PICK x \in Todo : /\ TodoShape(r, x) /\ job[r] = TodoJob(x)
                        /\ job[r].todo = x /\ job[r].task = taskOf[x] /\ job[r].op = todoType[x]
  BY <1>1, TodoRuns
<1>3. Calling(r, x)
  BY <1>1, <1>2 DEF TodoShape, Validating, Updating, ClosingTask, ClosingRecord, Restoring
<1>4. Continue(r, "updating", DoneWrites(x)) /\ seen' = seen /\ UNCHANGED Counts
  BY <1>2 DEF CallsReturn, Counts
<1>5. /\ pc'[r] = "updating" /\ job'[r] = TodoJob(x) /\ sent'[r] = DoneWrites(x)
      /\ stray'[r] = stray[r] /\ trip' = trip /\ task' = task /\ todo' = todo /\ Nothing(r)
  BY <1>1, <1>2, <1>4, ContinueHides DEF Await
<1>6. Entitled(r, x)'
  BY <1>3, <1>4, <1>5 DEF Calling, Entitled, OtherTodosDone
<1>7. Updating(r, x)'
  BY <1>3, <1>4, <1>5, <1>6 DEF Updating, Calling, Found, TaskOps, Target, DoneWrites
<1> QED BY <1>5, <1>7 DEF Shape, TodoShape

LEMMA AdvanceAlone ==
    ASSUME NEW r, Alone(r), CauseInv, CauseInv', Shape(r),
           AdvanceTrip(r) \/ CompleteDelivery(r)
    PROVE  Shape(r)' /\ Nothing(r)
<1> r \in Slot /\ TypeOK /\ TypeOK'
  BY DEF Alone, CauseInv
<1>1. pc[r] = "updating" /\ sent[r] = {} /\ job[r].todo # None
  BY DEF AdvanceTrip, CompleteDelivery, CauseInv, ProgressOK, TodoTypes
<1>2. PICK x \in Todo : /\ TodoShape(r, x) /\ job[r] = TodoJob(x)
                        /\ job[r].todo = x /\ job[r].task = taskOf[x] /\ job[r].op = todoType[x]
  BY <1>1, TodoRuns
<1>3. Updating(r, x)
  BY <1>1, <1>2 DEF TodoShape, Validating, Calling, ClosingTask, ClosingRecord, Restoring
<1>4. /\ Continue(r, "closing", {updateTripDetailStatus(x, TripTarget(x))}) /\ seen' = seen
      /\ UNCHANGED Counts
  <2>1. CASE AdvanceTrip(r)
    BY <1>2, <2>1 DEF AdvanceTrip, TripTarget, Count, Counts, Workflows, TypeOK
  <2>2. CASE CompleteDelivery(r)
    BY <1>2, <2>2 DEF CompleteDelivery, TripTarget, Counts
  <2> QED BY <2>1, <2>2
<1>5. /\ pc'[r] = "closing" /\ job'[r] = TodoJob(x)
      /\ sent'[r] = {updateTripDetailStatus(x, TripTarget(x))}
      /\ stray'[r] = stray[r] /\ trip' = trip /\ task' = task /\ todo' = todo /\ Nothing(r)
  BY <1>1, <1>2, <1>4, ContinueHides DEF Await
<1>6. Entitled(r, x)'
  BY <1>3, <1>4, <1>5 DEF Updating, Entitled, OtherTodosDone
<1>7. TripTarget(x)' = TripTarget(x)
  BY <1>5 DEF TripTarget, TripStatusAfterDelivery
<1>8. ClosingTask(r, x)'
  BY <1>1, <1>3, <1>4, <1>5, <1>6, <1>7
     DEF ClosingTask, Updating, TaskOps, updateTripDetailStatus, Target
<1> QED BY <1>5, <1>8 DEF Shape, TodoShape

(***************************************************************************)
(* Requests of todos end.                                                  *)
(***************************************************************************)
\* An idle slot announces nothing.
LEMMA IdleQuiet ==
    ASSUME NEW r \in Slot, TypeOK, NEW left, Return(r, left)
    PROVE  ~Announces(r)'
BY ReturnEffect DEF Announces

\* The request of todo x ends with the documents as it found them.
LEMMA EndUndone ==
    ASSUME NEW r, Alone(r), TypeOK, NEW x \in Todo, job[r] = TodoJob(x), pc[r] # "idle",
           trip.status = seen[r].trip, task[taskOf[x]] = seen[r].task,
           todo[x] = seen[r].todo, NEW left, Return(r, left), UNCHANGED <<db, started>>,
           \A w \in left : w.doc = Trip /\ w.status \in {Keep, seen[r].trip}
    PROVE  Shape(r)' /\ Nothing(r)
<1> Slot = {r} /\ r \in Slot
  BY DEF Alone
<1>1. /\ pc'[r] = "idle" /\ job'[r] = NoJob /\ sent'[r] = {} /\ stray'[r] = left
      /\ ~Announces(r)'
  BY ReturnEffect, IdleQuiet
<1>2. trip' = trip /\ task' = task /\ todo' = todo /\ UNCHANGED Counts
  BY DEF db, Counts
<1>3. Idle(r)'
  BY <1>1, <1>2 DEF Idle
<1>4. SettledAs(r, x)
  BY SettledInRequest
<1>5. Settled' = [status |-> trip.status, tasks |-> task, todos |-> todo]
  BY <1>1, <1>2, SettledAtRest
<1>6. UNCHANGED Settled
  BY <1>4, <1>5, Unmasked DEF SettledAs
<1> QED BY <1>1, <1>2, <1>3, <1>6 DEF Shape, Nothing

LEMMA RefuseAlone ==
    ASSUME NEW r, Alone(r), CauseInv, Shape(r), RefuseHandOver(r) \/ RefuseAccept(r)
    PROVE  Shape(r)' /\ Nothing(r)
<1> r \in Slot /\ TypeOK
  BY DEF Alone, CauseInv
<1>1. /\ pc[r] \in {"validating", "calling"} /\ job[r].todo # None
      /\ Return(r, {}) /\ UNCHANGED <<db, started>>
  BY DEF RefuseHandOver, RefuseAccept, CauseInv, ProgressOK
<1>2. PICK x \in Todo : TodoShape(r, x) /\ job[r] = TodoJob(x)
  BY <1>1, TodoRuns
<1>3. Found(r, x)
  BY <1>1, <1>2 DEF TodoShape, Validating, Calling, Updating, ClosingTask, ClosingRecord,
     Restoring
<1> QED BY <1>1, <1>2, <1>3, EndUndone DEF Found

LEMMA RestoredAlone ==
    ASSUME NEW r, Alone(r), CauseInv, Shape(r), Restored(r)
    PROVE  Shape(r)' /\ Nothing(r)
<1> r \in Slot /\ TypeOK
  BY DEF Alone, CauseInv
<1>1. /\ pc[r] = "restoring" /\ sent[r] = {} /\ job[r].todo # None
      /\ Return(r, stray[r]) /\ UNCHANGED <<db, started>>
  BY DEF Restored, CauseInv, ProgressOK
<1>2. PICK x \in Todo : TodoShape(r, x) /\ job[r] = TodoJob(x)
  BY <1>1, TodoRuns
<1>3. Restoring(r, x)
  BY <1>1, <1>2 DEF TodoShape, Validating, Calling, Updating, ClosingTask, ClosingRecord
<1>4. /\ trip.status = seen[r].trip /\ task[taskOf[x]] = seen[r].task
      /\ todo[x] = seen[r].todo
      /\ \A w \in stray[r] : w.doc = Trip /\ w.status \in {Keep, seen[r].trip}
  BY <1>1, <1>3 DEF Restoring
<1> QED BY <1>1, <1>2, <1>4, EndUndone

\* TripLifecycle and TodoExecution derive statuses with the same functions.
LEMMA SameStatusFunctions ==
    ASSUME NEW status, NEW type, NEW s
    PROVE  /\ Promise!isAllTaskCompleted(status) = isAllTaskCompleted(status)
           /\ Promise!getTripStatus(status, type, s) = getTripStatus(status, type, s)
           /\ Promise!isTripStatusCompleted(s) = isTripStatusCompleted(s)
<1>1. Promise!isAllTaskCompleted(status) = isAllTaskCompleted(status)
  BY DEF Promise!isAllTaskCompleted, isAllTaskCompleted, Promise!TASK_STATUS_COMPLETED,
     TASK_STATUS_COMPLETED, Promise!LIST_TASK_STATUS_CANCELLED, LIST_TASK_STATUS_CANCELLED
<1>2. Promise!isSomeTaskDelivered(status, type) = isSomeTaskDelivered(status, type)
  BY DEF Promise!isSomeTaskDelivered, isSomeTaskDelivered, Promise!isTaskDelivery, isTaskDelivery
<1>3. Promise!isSomeTaskCancelled(status) = isSomeTaskCancelled(status)
  BY DEF Promise!isSomeTaskCancelled, isSomeTaskCancelled,
     Promise!LIST_TASK_STATUS_CANCELLED, LIST_TASK_STATUS_CANCELLED
<1>4. Promise!isTripStatusCancelled(s) = isTripStatusCancelled(s)
  BY DEF Promise!isTripStatusCancelled, isTripStatusCancelled,
     Promise!LIST_TRIP_STATUS_FAILED, LIST_TRIP_STATUS_FAILED
<1>5. Promise!isTripStatusCompleted(s) = isTripStatusCompleted(s)
  BY DEF Promise!isTripStatusCompleted, isTripStatusCompleted, Promise!TRIP_STATUS_COMPLETED,
     TRIP_STATUS_COMPLETED, Promise!LIST_TRIP_STATUS_FAILED, LIST_TRIP_STATUS_FAILED
<1> QED BY <1>1, <1>2, <1>3, <1>4, <1>5 DEF Promise!getTripStatus, getTripStatus

\* The request of todo x ends with its work done: callers see all of it at once.
LEMMA EndDone ==
    ASSUME NEW r, Alone(r), CauseInv, CauseInv', NEW x \in Todo, job[r] = TodoJob(x),
           pc[r] = "closing", sent[r] = {}, ClosingTask(r, x) \/ ClosingRecord(r, x),
           Return(r, {}), UNCHANGED db
    PROVE  /\ Shape(r)' /\ ~Announces(r)'
           /\ todoType[x] = "ACCEPT_TRIP" => Promise!Accept(x)
           /\ todoType[x] # "ACCEPT_TRIP" =>
                Promise!Start(x) \/ Promise!Record(x) \/ Promise!Finish(x)
<1> Slot = {r} /\ r \in Slot /\ TypeOK /\ taskOf[x] \in Task
  BY TodoTellsTask DEF Alone, CauseInv
<1>1. /\ pc'[r] = "idle" /\ job'[r] = NoJob /\ sent'[r] = {} /\ stray'[r] = {}
      /\ ~Announces(r)'
  BY ReturnEffect, IdleQuiet
<1>2. trip' = trip /\ task' = task /\ todo' = todo
  BY DEF db
<1>3. Idle(r)'
  BY <1>1, <1>2 DEF Idle
<1> DEFINE tasks == [task EXCEPT ![taskOf[x]] = seen[r].task]
           todos == [todo EXCEPT ![x] = seen[r].todo]
<1>4. Settled.status = seen[r].trip /\ Settled.tasks = tasks /\ Settled.todos = todos
  BY SettledInRequest DEF SettledAs
<1>5. Settled.status' = trip.status /\ Settled.tasks' = task /\ Settled.todos' = todo
  BY <1>1, <1>2, SettledAtRest
<1>6. tasks[taskOf[x]] = seen[r].task /\ todos[x] = seen[r].todo
  BY DEF TypeOK
<1>7. todo = [todos EXCEPT ![x] = "DONE"]
  <2>1. todo[x] = "DONE"
    BY DEF ClosingTask, ClosingRecord
  <2> QED BY <2>1 DEF TypeOK
<1>8. Entitled(r, x)
  BY DEF ClosingTask, ClosingRecord
<1>9. CASE ClosingTask(r, x)
  <2>1. todoType[x] \in TaskOps /\ trip.status = TripTarget(x)
    BY <1>9 DEF ClosingTask
  <2>2. task = [tasks EXCEPT ![taskOf[x]] = Target(x)]
    BY <1>9 DEF ClosingTask, TypeOK
  <2>3. ASSUME todoType[x] = "ACCEPT_TRIP"
        PROVE  Promise!Accept(x)
    BY <1>4, <1>5, <1>6, <1>7, <1>8, <2>1, <2>2, <2>3
       DEF Promise!Accept, Promise!Move, Promise!Tick, Entitled, HandOvers, Target, TripTarget
  <2>4. ASSUME todoType[x] = "SET_OFF"
        PROVE  Promise!Start(x)
    BY <1>4, <1>5, <1>6, <1>7, <1>8, <2>1, <2>2, <2>4
       DEF Promise!Start, Promise!Move, Promise!Tick, Entitled, HandOvers, Target, TripTarget
  <2>5. ASSUME todoType[x] \in {"PICKED_UP", "RECEIPT", "DELIVERED"}
        PROVE  Promise!Finish(x)
    <3>1. todoType[x] \in HandOvers =>
            \A y \in Todo \ {x} : taskOf[y] = taskOf[x] => todos[y] = "DONE"
      BY <1>8 DEF Entitled, OtherTodosDone, TypeOK
    <3>2. trip.status = IF todoType[x] # "PICKED_UP" /\ isAllTaskCompleted(task)
                        THEN getTripStatus(task, taskType, "DONE") ELSE "DOING"
      BY <2>1, <2>5 DEF TripTarget, TripStatusAfterDelivery
    <3>3. /\ Promise!isAllTaskCompleted(task) = isAllTaskCompleted(task)
          /\ Promise!getTripStatus(task, taskType, "DONE") = getTripStatus(task, taskType, "DONE")
      BY SameStatusFunctions
    <3> QED
      BY <1>4, <1>5, <1>6, <1>7, <1>8, <2>1, <2>2, <2>5, <3>1, <3>2, <3>3
         DEF Promise!Finish, Promise!Move, Promise!Tick, Entitled, HandOvers, Target
  <2> QED BY <1>1, <1>3, <2>1, <2>3, <2>4, <2>5 DEF TaskOps, Shape
<1>10. CASE ClosingRecord(r, x)
  <2>1. todoType[x] \notin TaskOps /\ trip.status = seen[r].trip /\ task = tasks
    BY <1>10 DEF ClosingRecord, TypeOK
  <2>2. Promise!Record(x)
    BY <1>4, <1>5, <1>6, <1>7, <1>8, <2>1
       DEF Promise!Record, Promise!Tick, Entitled, HandOvers, TaskOps
  <2> QED BY <1>1, <1>3, <2>1, <2>2 DEF Shape, TaskOps
<1> QED BY <1>9, <1>10

LEMMA FinishAlone ==
    ASSUME NEW r, Alone(r), CauseInv, CauseInv', Shape(r), FinishAccept(r) \/ FinishTodo(r)
    PROVE  Shape(r)' /\ (Accepts(r) \/ Executes(r))
<1> r \in Slot /\ TypeOK
  BY DEF Alone, CauseInv
<1>1. /\ pc[r] = "closing" /\ sent[r] = {} /\ job[r].todo # None
      /\ Return(r, {}) /\ UNCHANGED db
  BY DEF FinishAccept, FinishTodo, CauseInv, ProgressOK, TodoTypes
<1>2. PICK x \in Todo : /\ TodoShape(r, x) /\ job[r] = TodoJob(x) /\ job[r].op = todoType[x]
  BY <1>1, TodoRuns
<1>3. ClosingTask(r, x) \/ ClosingRecord(r, x)
  BY <1>1, <1>2 DEF TodoShape, Validating, Calling, Updating, Restoring
<1>4. /\ Shape(r)' /\ ~Announces(r)'
      /\ todoType[x] = "ACCEPT_TRIP" => Promise!Accept(x)
      /\ todoType[x] # "ACCEPT_TRIP" =>
            Promise!Start(x) \/ Promise!Record(x) \/ Promise!Finish(x)
  BY <1>1, <1>2, <1>3, EndDone
<1>5. CASE FinishAccept(r)
  <2>1. CountsUp("transport") /\ UNCHANGED started["cancelTrip"]
    BY <1>5 DEF FinishAccept, Count, CountsUp, Workflows, TypeOK
  <2> QED BY <1>2, <1>4, <1>5, <2>1 DEF FinishAccept, Accepts
<1>6. CASE FinishTodo(r)
  <2>1. UNCHANGED Counts
    BY <1>6 DEF FinishTodo, Counts
  <2> QED BY <1>2, <1>4, <1>6, <2>1 DEF FinishTodo, Executes
<1> QED BY <1>5, <1>6

(***************************************************************************)
(* The request of a todo gives up.                                         *)
(***************************************************************************)
\* Whatever the request of todo x has written or is writing, its rollback
\* writes back, and what the rollback leaves alone is as it was found.
Undoable(r, x) ==
    /\ \A w \in sent[r] : w.doc \in {x, taskOf[x], Trip}
    /\ todoType[x] \notin TaskOps =>
        /\ task[taskOf[x]] = seen[r].task
        /\ \A w \in sent[r] : w.doc # taskOf[x]
    /\ todoType[x] \notin {"ACCEPT_TRIP", "RECEIPT", "DELIVERED"} =>
        /\ trip.status = seen[r].trip
        /\ \A w \in sent[r] : w.doc = Trip => w.status \in {Keep, seen[r].trip}
    /\ todoType[x] \in {"RECEIPT", "DELIVERED"} => seen[r].task = seen[r].trip

LEMMA DocsDiffer ==
    ASSUME NEW x \in Todo
    PROVE  taskOf[x] \in Task /\ x # taskOf[x] /\ x # Trip /\ taskOf[x] # Trip /\ x # None
BY TodoTellsTask, TripAssumption DEF Doc

LEMMA TripWriteFields ==
    ASSUME NEW x, NEW s
    PROVE  /\ updateTripDetailStatus(x, s).doc = Trip
           /\ updateTripDetailStatus(x, s).status = s
BY DEF updateTripDetailStatus, Put

LEMMA RunningIsUndoable ==
    ASSUME NEW r \in Slot, NEW x \in Todo,
           Calling(r, x) \/ Updating(r, x) \/ ClosingTask(r, x) \/ ClosingRecord(r, x)
    PROVE  Undoable(r, x)
<1>1. /\ Entitled(r, x)
      /\ todoType[x] \in {"RECEIPT", "DELIVERED"} => seen[r].task = seen[r].trip
  BY DEF Calling, Updating, ClosingTask, ClosingRecord, Entitled, HandOvers
<1>2. CASE Calling(r, x)
  BY <1>1, <1>2 DEF Calling, Found, Undoable
<1>3. CASE Updating(r, x)
  <2>1. \A w \in sent[r] : \/ w.doc \in {x, taskOf[x]}
                           \/ w.doc = Trip /\ w.status = Keep
    BY <1>3, PutFields DEF Updating
  <2> QED BY <1>1, <1>3, <2>1, DocsDiffer DEF Updating, Undoable, TaskOps
<1>4. CASE ClosingTask(r, x)
  <2>1. \A w \in sent[r] : w.doc = Trip /\ w.status = TripTarget(x)
    BY <1>4, TripWriteFields DEF ClosingTask
  <2>2. todoType[x] \in {"SET_OFF", "PICKED_UP"} => TripTarget(x) = "DOING" /\ seen[r].trip = "DOING"
    BY <1>1 DEF TripTarget, Entitled
  <2> QED BY <1>1, <1>4, <2>1, <2>2, DocsDiffer DEF ClosingTask, Undoable, TaskOps
<1>5. CASE ClosingRecord(r, x)
  <2>1. seen[r].trip = "DOING"
    BY <1>1, <1>5 DEF ClosingRecord, Entitled, TaskOps
  <2>2. \A w \in sent[r] : \/ w.doc = x
                           \/ w.doc = Trip /\ w.status \in {Keep, seen[r].trip}
    BY <1>5, <2>1, PutFields, TripWriteFields DEF ClosingRecord
  <2> QED BY <1>1, <1>5, <2>2, DocsDiffer DEF ClosingRecord, Undoable, TaskOps
<1> QED BY <1>2, <1>3, <1>4, <1>5

\* What the catch block of the request of todo x writes.
LEMMA RestoreWrites ==
    ASSUME NEW r \in Slot, NEW x \in Todo, job[r] = TodoJob(x),
           todoType[x] \in {"RECEIPT", "DELIVERED"} => seen[r].task = seen[r].trip
    PROVE  /\ \A w \in Restore(r) :
                \/ w = Put(x, seen[r].todo) \/ w = Put(taskOf[x], seen[r].task)
                \/ w.doc = Trip /\ w.status \in {Keep, seen[r].trip}
           /\ Put(x, seen[r].todo) \in Restore(r)
           /\ todoType[x] \in TaskOps => Put(taskOf[x], seen[r].task) \in Restore(r)
           /\ todoType[x] \in {"ACCEPT_TRIP", "RECEIPT", "DELIVERED"} =>
                \E w \in Restore(r) : w.doc = Trip /\ w.status = seen[r].trip
<1>1. job[r].todo = x /\ job[r].op = todoType[x]
  BY DEF TodoJob
<1>2. /\ [Put(Trip, seen[r].task) EXCEPT !.deliveredTime = "unset"].doc = Trip
      /\ [Put(Trip, seen[r].task) EXCEPT !.deliveredTime = "unset"].status = seen[r].task
  BY DEF Put
<1>3. \A w \in Restore(r) :
                \/ w = Put(x, seen[r].todo) \/ w = Put(taskOf[x], seen[r].task)
                \/ w.doc = Trip /\ w.status \in {Keep, seen[r].trip}
  <2>1. \A w \in Restore(r) :
            \/ w = Put(x, seen[r].todo) \/ w = Put(taskOf[x], seen[r].task)
            \/ w = Put(Trip, seen[r].trip)
            \/ w = [Put(Trip, Keep) EXCEPT !.pickedUpTime = "unset"]
            \/ /\ todoType[x] \in {"RECEIPT", "DELIVERED"}
               /\ w = [Put(Trip, seen[r].task) EXCEPT !.deliveredTime = "unset"]
    BY <1>1 DEF Restore
  <2>2. /\ [Put(Trip, Keep) EXCEPT !.pickedUpTime = "unset"].doc = Trip
        /\ [Put(Trip, Keep) EXCEPT !.pickedUpTime = "unset"].status = Keep
        /\ [Put(Trip, seen[r].task) EXCEPT !.deliveredTime = "unset"].doc = Trip
        /\ [Put(Trip, seen[r].task) EXCEPT !.deliveredTime = "unset"].status = seen[r].task
        /\ Put(Trip, seen[r].trip).doc = Trip /\ Put(Trip, seen[r].trip).status = seen[r].trip
    BY DEF Put
  <2> QED BY <2>1, <2>2
<1>4. /\ Put(x, seen[r].todo) \in Restore(r)
      /\ todoType[x] \in TaskOps => Put(taskOf[x], seen[r].task) \in Restore(r)
  BY <1>1 DEF Restore, TaskOps
<1>5. ASSUME todoType[x] = "ACCEPT_TRIP"
      PROVE  \E w \in Restore(r) : w.doc = Trip /\ w.status = seen[r].trip
  <2>1. Put(Trip, seen[r].trip) \in Restore(r)
    BY <1>1, <1>5 DEF Restore
  <2> QED BY <2>1, PutFields
<1>6. ASSUME todoType[x] \in {"RECEIPT", "DELIVERED"}
      PROVE  \E w \in Restore(r) : w.doc = Trip /\ w.status = seen[r].trip
  <2>1. [Put(Trip, seen[r].task) EXCEPT !.deliveredTime = "unset"] \in Restore(r)
    BY <1>1, <1>6 DEF Restore
  <2> QED BY <1>2, <1>6, <2>1
<1> QED BY <1>3, <1>4, <1>5, <1>6

\* The documents a write of the request of todo x leaves alone.
LEMMA ApplyOwn ==
    ASSUME TypeOK, NEW x \in Todo, NEW w, w.doc \in {x, taskOf[x], Trip}, Apply(w)
    PROVE  /\ \A t \in Task \ {taskOf[x]} : task'[t] = task[t]
           /\ \A y \in Todo \ {x} : todo'[y] = todo[y]
           /\ w.doc # x => todo'[x] = todo[x]
           /\ w.doc # taskOf[x] => task'[taskOf[x]] = task[taskOf[x]]
           /\ w.doc # Trip => trip' = trip
<1>1. taskOf[x] \in Task /\ taskOf[x] \notin Todo /\ x \notin Task /\ Trip \notin Task \union Todo
  BY TodoTellsTask, TripAssumption
<1> QED BY <1>1 DEF Apply, TypeOK

LEMMA AbandonTodoAlone ==
    ASSUME NEW r, Alone(r), CauseInv, CauseInv', NEW x \in Todo, job[r] = TodoJob(x),
           pc[r] # "idle", Undoable(r, x), NEW left \in SUBSET sent[r], Abandon(r, left),
           UNCHANGED db \/ \E w \in sent[r] : Apply(w), UNCHANGED started
    PROVE  Shape(r)' /\ Nothing(r)
<1> Slot = {r} /\ r \in Slot /\ TypeOK /\ TypeOK'
  BY DEF Alone, CauseInv
<1>1. job[r].todo = x /\ x # None
  BY DocsDiffer DEF TodoJob
<1>2. /\ pc'[r] = "restoring" /\ job'[r] = job[r] /\ seen'[r] = seen[r]
      /\ sent'[r] = Restore(r) /\ stray'[r] = left
  BY <1>1, AbandonEffect
<1>3. /\ \A t \in Task \ {taskOf[x]} : task'[t] = task[t]
      /\ \A y \in Todo \ {x} : todo'[y] = todo[y]
  <2>1. CASE UNCHANGED db
    BY <2>1 DEF db
  <2>2. CASE \E w \in sent[r] : Apply(w)
    BY <2>2, ApplyOwn DEF Undoable
  <2> QED BY <2>1, <2>2
<1>4. UNCHANGED Settled
  BY <1>2, <1>3, Masked
<1>5. todoType[x] \notin TaskOps =>
        task'[taskOf[x]] = seen[r].task /\ \A w \in left : w.doc # taskOf[x]
  <2>1. CASE UNCHANGED db
    BY <2>1 DEF db, Undoable
  <2>2. CASE \E w \in sent[r] : Apply(w)
    BY <2>2, ApplyOwn DEF Undoable
  <2> QED BY <2>1, <2>2
<1>6. todoType[x] \notin {"ACCEPT_TRIP", "RECEIPT", "DELIVERED"} =>
        /\ trip'.status = seen[r].trip
        /\ \A w \in left : w.doc = Trip => w.status \in {Keep, seen[r].trip}
  <2>1. CASE UNCHANGED db
    BY <2>1 DEF db, Undoable
  <2>2. ASSUME NEW w \in sent[r], Apply(w)
        PROVE  todoType[x] \notin {"ACCEPT_TRIP", "RECEIPT", "DELIVERED"} =>
                    trip'.status = seen[r].trip
    <3>1. CASE w.doc = Trip
      BY <2>2, <3>1, ApplyToTrip DEF Undoable
    <3>2. CASE w.doc # Trip
      BY <2>2, <3>2, ApplyOwn DEF Undoable
    <3> QED BY <3>1, <3>2
  <2> QED BY <2>1, <2>2 DEF Undoable
<1>7. Restoring(r, x)'
  <2>1. /\ \A w \in Restore(r) :
                \/ w = Put(x, seen[r].todo) \/ w = Put(taskOf[x], seen[r].task)
                \/ w.doc = Trip /\ w.status \in {Keep, seen[r].trip}
        /\ Put(x, seen[r].todo) \in Restore(r)
        /\ todoType[x] \in TaskOps => Put(taskOf[x], seen[r].task) \in Restore(r)
        /\ todoType[x] \in {"ACCEPT_TRIP", "RECEIPT", "DELIVERED"} =>
                \E w \in Restore(r) : w.doc = Trip /\ w.status = seen[r].trip
    BY RestoreWrites DEF Undoable
  <2>2. \A w \in left : w.doc \in {x, taskOf[x], Trip}
    BY DEF Undoable
  <2> QED BY <1>2, <1>5, <1>6, <2>1, <2>2 DEF Restoring
<1>8. ~Announces(r)'
  BY <1>2 DEF Announces
<1> QED BY <1>2, <1>4, <1>7, <1>8 DEF Shape, TodoShape, Nothing, Counts

(***************************************************************************)
(* A write of the request of a todo lands.                                 *)
(***************************************************************************)
\* A write that only the documents of todo x see: callers notice nothing.
LEMMA LandHides ==
    ASSUME NEW r, Alone(r), CauseInv, CauseInv', NEW x \in Todo, job[r] = TodoJob(x),
           pc[r] # "idle", NEW w, w.doc \in {x, taskOf[x], Trip}, Apply(w),
           UNCHANGED <<pc, job, seen, started>>
    PROVE  Nothing(r)
<1> Slot = {r} /\ r \in Slot /\ TypeOK /\ TypeOK'
  BY DEF Alone, CauseInv
<1>1. UNCHANGED Settled
  BY ApplyOwn, Masked
<1>2. job'[r].todo = x /\ x # None
  BY DocsDiffer DEF TodoJob
<1> QED BY <1>1, <1>2 DEF Nothing, Announces, Counts

LEMMA LandUpdating ==
    ASSUME NEW r \in Slot, TypeOK, NEW x \in Todo, Updating(r, x), NEW w \in sent[r], Apply(w),
           sent'[r] = sent[r] \ {w}, stray'[r] = stray[r],
           UNCHANGED <<pc, job, seen>>
    PROVE  Updating(r, x)' /\ w.doc \in {x, taskOf[x], Trip}
<1> taskOf[x] \in Task /\ x # taskOf[x] /\ x # Trip /\ taskOf[x] # Trip
  BY DocsDiffer
<1>1. /\ Entitled(r, x) /\ pc[r] = "updating" /\ stray[r] = {} /\ todoType[x] \in TaskOps
      /\ sent[r] \subseteq {Put(x, "DONE"), Put(taskOf[x], Target(x)), Put(Trip, Keep)}
      /\ trip.status = seen[r].trip
      /\ Put(x, "DONE") \in sent[r] \/ todo[x] = "DONE"
      /\ Put(taskOf[x], Target(x)) \in sent[r] \/ task[taskOf[x]] = Target(x)
  BY DEF Updating
<1>2. \A y \in Todo \ {x} : todo'[y] = todo[y]
  BY <1>1, PutFields, ApplyOwn
<1>3. Entitled(r, x)'
  BY <1>1, <1>2 DEF Entitled, OtherTodosDone
<1>4. CASE w = Put(x, "DONE")
  <2>1. trip' = trip /\ task' = task /\ todo'[x] = "DONE"
    BY <1>4, ApplyToTodo DEF TypeOK
  <2>2. Put(taskOf[x], Target(x)) # w
    BY <1>4, PutFields
  <2> QED BY <1>1, <1>3, <1>4, <2>1, <2>2, PutFields DEF Updating, Target
<1>5. CASE w = Put(taskOf[x], Target(x))
  <2>1. trip' = trip /\ todo' = todo /\ task'[taskOf[x]] = Target(x)
    BY <1>5, ApplyToTask DEF TypeOK
  <2>2. Put(x, "DONE") # w
    BY <1>5, PutFields
  <2> QED BY <1>1, <1>3, <1>5, <2>1, <2>2, PutFields DEF Updating, Target
<1>6. CASE w = Put(Trip, Keep)
  <2>1. w.doc = Trip /\ w.status = Keep
    BY <1>6, PutFields
  <2>2. todo' = todo /\ task' = task /\ trip'.status = trip.status
    BY <2>1, ApplyToTrip
  <2>3. Put(x, "DONE") # w /\ Put(taskOf[x], Target(x)) # w
    BY <2>1, PutFields
  <2> QED BY <1>1, <1>3, <2>1, <2>2, <2>3 DEF Updating, Target
<1> QED BY <1>1, <1>4, <1>5, <1>6

LEMMA LandClosingTask ==
    ASSUME NEW r \in Slot, TypeOK, NEW x \in Todo, ClosingTask(r, x), NEW w \in sent[r],
           Apply(w), sent'[r] = sent[r] \ {w}, stray'[r] = stray[r],
           UNCHANGED <<pc, job, seen>>
    PROVE  ClosingTask(r, x)' /\ w.doc \in {x, taskOf[x], Trip}
<1>1. /\ w = updateTripDetailStatus(x, TripTarget(x)) /\ sent'[r] = {}
  BY DEF ClosingTask
<1>2. w.doc = Trip /\ w.status = TripTarget(x)
  BY <1>1, TripWriteFields
<1>3. TripTarget(x) # Keep
  BY DEF TripTarget, TripStatusAfterDelivery, getTripStatus, Keep
<1>4. task' = task /\ todo' = todo /\ trip'.status = TripTarget(x)
  BY <1>2, <1>3, ApplyToTrip
<1>5. TripTarget(x)' = TripTarget(x) /\ (Entitled(r, x) => Entitled(r, x)')
  BY <1>4 DEF TripTarget, TripStatusAfterDelivery, Entitled, OtherTodosDone
<1> QED BY <1>1, <1>2, <1>4, <1>5 DEF ClosingTask, Target

LEMMA LandClosingRecord ==
    ASSUME NEW r \in Slot, TypeOK, NEW x \in Todo, ClosingRecord(r, x), NEW w \in sent[r],
           Apply(w), sent'[r] = sent[r] \ {w}, stray'[r] = stray[r],
           UNCHANGED <<pc, job, seen>>
    PROVE  ClosingRecord(r, x)' /\ w.doc \in {x, taskOf[x], Trip}
<1> taskOf[x] \in Task /\ x # taskOf[x] /\ x # Trip /\ taskOf[x] # Trip
  BY DocsDiffer
<1>1. Entitled(r, x) /\ todoType[x] \notin TaskOps /\ seen[r].trip = "DOING"
  BY DEF ClosingRecord, Entitled, TaskOps
<1>2. CASE w = Put(x, "DONE")
  <2>1. trip' = trip /\ task' = task /\ todo'[x] = "DONE"
    BY <1>2, ApplyToTodo DEF TypeOK
  <2>2. Entitled(r, x)'
    BY <1>1 DEF Entitled, HandOvers, TaskOps
  <2> QED BY <1>2, <2>1, <2>2, PutFields DEF ClosingRecord
<1>3. CASE w \in {Put(Trip, Keep), updateTripDetailStatus(x, "DOING")}
  <2>1. w.doc = Trip /\ w.status \in {Keep, "DOING"}
    BY <1>3, PutFields, TripWriteFields
  <2>2. todo' = todo /\ task' = task /\ trip'.status \in {trip.status, "DOING"}
    BY <2>1, ApplyToTrip
  <2>3. Entitled(r, x)'
    BY <1>1 DEF Entitled, HandOvers, TaskOps
  <2>4. Put(x, "DONE") # w
    BY <2>1, PutFields
  <2> QED BY <1>1, <2>1, <2>2, <2>3, <2>4 DEF ClosingRecord
<1> QED BY <1>2, <1>3 DEF ClosingRecord

\* A write of the rollback lands after the writes it undoes.
LEMMA LandRestoring ==
    ASSUME NEW r \in Slot, TypeOK, NEW x \in Todo, Restoring(r, x), NEW w \in sent[r],
           seen[r].trip # Keep,
           \A v \in stray[r] : v.doc # w.doc, Apply(w),
           sent'[r] = sent[r] \ {w}, stray'[r] = stray[r],
           UNCHANGED <<pc, job, seen>>
    PROVE  Restoring(r, x)' /\ w.doc \in {x, taskOf[x], Trip}
<1> taskOf[x] \in Task /\ x # taskOf[x] /\ x # Trip /\ taskOf[x] # Trip
  BY DocsDiffer
<1>1. CASE w = Put(x, seen[r].todo)
  <2>1. trip' = trip /\ task' = task /\ todo'[x] = seen[r].todo
    BY <1>1, ApplyToTodo DEF TypeOK
  <2>2. w.doc = x /\ Put(taskOf[x], seen[r].task) # w
    BY <1>1, PutFields
  <2> QED BY <2>1, <2>2 DEF Restoring
<1>2. CASE w = Put(taskOf[x], seen[r].task)
  <2>1. trip' = trip /\ todo' = todo /\ task'[taskOf[x]] = seen[r].task
    BY <1>2, ApplyToTask DEF TypeOK
  <2>2. w.doc = taskOf[x] /\ Put(x, seen[r].todo) # w
    BY <1>2, PutFields
  <2> QED BY <2>1, <2>2 DEF Restoring
<1>3. CASE w.doc = Trip /\ w.status \in {Keep, seen[r].trip}
  <2>1. /\ task' = task /\ todo' = todo
        /\ trip'.status = IF w.status = Keep THEN trip.status ELSE w.status
    BY <1>3, ApplyToTrip
  <2>2. Put(x, seen[r].todo) # w /\ Put(taskOf[x], seen[r].task) # w
    BY <1>3, PutFields
  <2>3. \/ \E v \in sent[r] : v # w /\ v.doc = Trip /\ v.status = seen[r].trip
        \/ /\ trip'.status = seen[r].trip
           /\ \A v \in stray[r] : v.doc = Trip => v.status \in {Keep, seen[r].trip}
    BY <1>3, <2>1 DEF Restoring
  <2> QED BY <1>3, <2>1, <2>2, <2>3 DEF Restoring
<1> QED BY <1>1, <1>2, <1>3 DEF Restoring

\* An abandoned write lands during the rollback.
LEMMA StrayRestoring ==
    ASSUME NEW r \in Slot, TypeOK, NEW x \in Todo, Restoring(r, x), NEW w \in stray[r],
           Apply(w), stray'[r] = stray[r] \ {w}, sent'[r] = sent[r],
           UNCHANGED <<pc, job, seen>>
    PROVE  Restoring(r, x)' /\ w.doc \in {x, taskOf[x], Trip}
<1> taskOf[x] \in Task /\ x # taskOf[x] /\ x # Trip /\ taskOf[x] # Trip
  BY DocsDiffer
<1>1. w.doc \in {x, taskOf[x], Trip}
  BY DEF Restoring
<1>2. /\ w.doc # x => todo'[x] = todo[x]
      /\ w.doc # taskOf[x] => task'[taskOf[x]] = task[taskOf[x]]
      /\ w.doc # Trip => trip' = trip
  BY <1>1, ApplyOwn
<1>3. w.doc = Trip => trip'.status = IF w.status = Keep THEN trip.status ELSE w.status
  BY ApplyToTrip
<1> QED BY <1>1, <1>2, <1>3 DEF Restoring

(***************************************************************************)
(* Cancellations.                                                          *)
(***************************************************************************)
LEMMA CancelledIsCompleted ==
    ASSUME NEW s \in CancelStatus
    PROVE  s \in TASK_STATUS_COMPLETED
BY EnvironmentAssumption DEF TASK_STATUS_COMPLETED

\* A request without a todo is in one of the cancellation shapes.
LEMMA CancelRuns ==
    ASSUME NEW r \in Slot, Shape(r), pc[r] # "idle", job[r].todo = None
    PROVE  CancellingTasks(r) \/ ClosingTrip(r)
<1>1. ASSUME NEW x \in Todo, TodoShape(r, x)
      PROVE  FALSE
  <2>1. job[r].todo = x
    BY <1>1 DEF TodoShape, TodoJob
  <2> QED BY <2>1, DocsDiffer
<1> QED BY <1>1 DEF Shape, Idle

\* A task is cancelled, while no request of a todo runs.
LEMMA CancelIsPromised ==
    ASSUME NEW r, Alone(r), TypeOK, NEW t \in Task, NEW s \in CancelStatus,
           Apply(Put(t, s)), ~isTripStatusCompleted(trip.status),
           pc[r] = "idle" \/ job[r].todo = None, UNCHANGED <<pc, job, seen, started>>
    PROVE  Cancels(r) /\ trip' = trip /\ task' = [task EXCEPT ![t] = s]
<1> Slot = {r} /\ r \in Slot
  BY DEF Alone
<1>1. trip' = trip /\ todo' = todo /\ task' = [task EXCEPT ![t] = s]
  BY ApplyToTask
<1>2. /\ Settled = [status |-> trip.status, tasks |-> task, todos |-> todo]
      /\ Settled' = [status |-> trip'.status, tasks |-> task', todos |-> todo']
  BY SettledAtRest
<1>3. Promise!isTripStatusCompleted(trip.status) = isTripStatusCompleted(trip.status)
  BY SameStatusFunctions
<1>4. Promise!Cancel(t, s)
  BY <1>1, <1>2, <1>3 DEF Promise!Cancel
<1> QED BY <1>1, <1>4 DEF Cancels, Counts, Announces

LEMMA CancelAlone ==
    ASSUME NEW r, Alone(r), TypeOK, NEW s \in CancelStatus, Cancel(r, s)
    PROVE  Shape(r)' /\ Nothing(r)
<1> Slot = {r} /\ r \in Slot
  BY DEF Alone
<1>1. PICK j, writes :
        /\ Begin(r, j, NoSnapshot, "updating", writes)
        /\ ~isTripStatusCompleted(trip.status)
        /\ j.todo = None /\ j.op \in {"CANCEL_TASK", "CANCEL_TRIP"} /\ j.status = s
        /\ writes \subseteq {Put(t, s) : t \in Task}
        /\ j.op = "CANCEL_TRIP" => \A t \in ActiveTasks : Put(t, s) \in writes
  <2>1. CASE CancelTrip(r, s)
    <3>1. {Put(t, s) : t \in ActiveTasks} \subseteq {Put(t, s) : t \in Task}
      BY DEF ActiveTasks
    <3> QED BY <2>1, <3>1 DEF CancelTrip
  <2>2. CASE \E t \in Task : CancelTask(r, t, s)
    BY <2>2 DEF CancelTask
  <2> QED BY <2>1, <2>2 DEF Cancel
<1>2. /\ pc[r] = "idle" /\ pc'[r] = "updating" /\ job'[r] = j /\ seen'[r] = NoSnapshot
      /\ sent'[r] = writes /\ stray'[r] = {}
      /\ trip' = trip /\ task' = task /\ todo' = todo /\ started' = started
  BY <1>1, BeginEffect
<1>3. CancellingTasks(r)'
  BY <1>1, <1>2 DEF CancellingTasks, Cancelling, ActiveTasks
<1>4. UNCHANGED Settled
  BY <1>1, <1>2, SettledAtRest
<1> QED BY <1>2, <1>3, <1>4 DEF Shape, Nothing, Counts, Announces

LEMMA CloseAlone ==
    ASSUME NEW r, Alone(r), CauseInv, Shape(r), CloseCancelledTask(r) \/ CloseCancelledTrip(r)
    PROVE  Shape(r)' /\ Nothing(r)
<1> Slot = {r} /\ r \in Slot /\ TypeOK
  BY DEF Alone, CauseInv
<1> DEFINE chosen == getTripStatus(task, taskType, job[r].status)
<1>1. PICK q : /\ Close(r, q) /\ job[r].op \in {"CANCEL_TASK", "CANCEL_TRIP"}
               /\ \/ q = Keep
                  \/ q = chosen /\ (job[r].op = "CANCEL_TASK" => isAllTaskCompleted(task))
  BY DEF CloseCancelledTask, CloseCancelledTrip
<1>2. pc[r] = "updating" /\ sent[r] = {} /\ Continue(r, "closing", {Put(Trip, q)})
  BY <1>1 DEF Close
<1>3. job[r].todo = None
  <2>1. ProgressOK(r) /\ job[r].op \notin TodoTypes
    BY <1>1 DEF CauseInv, TodoTypes, PickupRecords, DeliveryRecords
  <2> QED BY <2>1, TodoOfSlot, TodoTellsTask
<1>4. CancellingTasks(r)
  BY <1>2, <1>3, CancelRuns DEF ClosingTrip
<1>5. /\ pc'[r] = "closing" /\ job'[r] = job[r] /\ sent'[r] = {Put(Trip, q)}
      /\ stray'[r] = stray[r] /\ trip' = trip /\ task' = task /\ todo' = todo
  BY <1>2, ContinueEffect
<1>6. seen'[r].trip = q /\ started' = started
  BY <1>1 DEF Close, TypeOK, SnapshotSet
<1>7. q # Keep => isAllTaskCompleted(task) /\ q = chosen
  <2>1. ASSUME job[r].op = "CANCEL_TRIP"
        PROVE  isAllTaskCompleted(task)
    BY <1>2, <1>4, <2>1 DEF CancellingTasks, ActiveTasks, isAllTaskCompleted, TypeOK
  <2> QED BY <1>1, <2>1
<1>8. ClosingTrip(r)'
  BY <1>4, <1>5, <1>6, <1>7 DEF ClosingTrip, CancellingTasks, Cancelling
<1>9. UNCHANGED Settled
  BY <1>3, <1>5, SettledAtRest
<1>10. ~isTripStatusCompleted(Settled.status)
  BY <1>3, <1>4, SettledAtRest DEF CancellingTasks
<1> QED BY <1>6, <1>8, <1>9, <1>10 DEF Shape, Nothing, Counts

LEMMA FinishCancelAlone ==
    ASSUME NEW r, Alone(r), CauseInv, Shape(r), FinishCancel(r)
    PROVE  Shape(r)' /\ (Nothing(r) \/ Announced(r))
<1> Slot = {r} /\ r \in Slot /\ TypeOK
  BY DEF Alone, CauseInv
<1>1. /\ pc[r] = "closing" /\ sent[r] = {} /\ job[r].op \in {"CANCEL_TASK", "CANCEL_TRIP"}
      /\ Return(r, {}) /\ UNCHANGED db
  BY DEF FinishCancel
<1>2. job[r].todo = None
  <2>1. ProgressOK(r) /\ job[r].op \notin TodoTypes
    BY <1>1 DEF CauseInv, TodoTypes, PickupRecords, DeliveryRecords
  <2> QED BY <2>1, TodoOfSlot, TodoTellsTask
<1>3. ClosingTrip(r)
  BY <1>1, <1>2, CancelRuns DEF CancellingTasks
<1>4. /\ pc'[r] = "idle" /\ job'[r] = NoJob /\ sent'[r] = {} /\ stray'[r] = {}
      /\ ~Announces(r)'
  BY <1>1, ReturnEffect, IdleQuiet
<1>5. trip' = trip /\ task' = task /\ todo' = todo
  BY <1>1 DEF db
<1>6. Shape(r)'
  BY <1>4 DEF Idle, Shape
<1>7. UNCHANGED Settled /\ Settled.status = trip.status
  BY <1>2, <1>4, <1>5, SettledAtRest
<1>8. CASE seen[r].trip = Keep
  <2>1. UNCHANGED Counts
    BY <1>8 DEF FinishCancel, Counts
  <2> QED BY <1>4, <1>6, <1>7, <2>1 DEF Nothing
<1>9. CASE seen[r].trip # Keep
  <2>1. CountsUp("cancelTrip") /\ UNCHANGED started["transport"]
    BY <1>9 DEF FinishCancel, Count, CountsUp, Workflows, TypeOK
  <2>2. Announces(r)
    BY <1>1, <1>2, <1>9 DEF Announces
  <2>3. trip.status = getTripStatus(task, taskType, job[r].status) /\ job[r].status \in CancelStatus
    BY <1>1, <1>3, <1>9 DEF ClosingTrip, Cancelling
  <2>4. isTripStatusCompleted(trip.status)
    BY <2>3, EnvironmentAssumption
       DEF getTripStatus, isTripStatusCompleted, TRIP_STATUS_COMPLETED,
           LIST_TRIP_STATUS_FAILED, LIST_TASK_STATUS_CANCELLED
  <2> QED BY <1>4, <1>6, <1>7, <2>1, <2>2, <2>4 DEF Announced
<1> QED BY <1>8, <1>9

(***************************************************************************)
(* Landing writes.                                                         *)
(***************************************************************************)
LEMMA LandCancellingTasks ==
    ASSUME NEW r, Alone(r), TypeOK, CancellingTasks(r), NEW w \in sent[r], Apply(w),
           sent'[r] = sent[r] \ {w}, stray'[r] = stray[r],
           UNCHANGED <<pc, job, seen, started>>
    PROVE  CancellingTasks(r)' /\ Cancels(r)
<1> r \in Slot
  BY DEF Alone
<1>1. PICK t \in Task : w = Put(t, job[r].status)
  BY DEF CancellingTasks
<1>2. job[r].status \in CancelStatus /\ job[r].todo = None
  BY DEF CancellingTasks, Cancelling
<1>3. Cancels(r) /\ trip' = trip /\ task' = [task EXCEPT ![t] = job[r].status]
  BY <1>1, <1>2, CancelIsPromised DEF CancellingTasks
<1>4. ActiveTasks' \subseteq ActiveTasks \ {t}
  BY <1>2, <1>3, CancelledIsCompleted DEF ActiveTasks, TypeOK
<1>5. \A u \in ActiveTasks' : Put(u, job[r].status) # w
  BY <1>1, <1>4, PutFields
<1> QED BY <1>3, <1>4, <1>5 DEF CancellingTasks, Cancelling

LEMMA LandClosingTrip ==
    ASSUME NEW r, Alone(r), TypeOK, ClosingTrip(r), NEW w \in sent[r], Apply(w),
           sent'[r] = sent[r] \ {w}, stray'[r] = stray[r],
           UNCHANGED <<pc, job, seen, started>>
    PROVE  ClosingTrip(r)' /\ Lasting(r)
<1> Slot = {r} /\ r \in Slot
  BY DEF Alone
<1>1. /\ w = Put(Trip, seen[r].trip) /\ sent'[r] = {} /\ job[r].todo = None
      /\ ~isTripStatusCompleted(trip.status) /\ job[r].status \in CancelStatus
  BY DEF ClosingTrip, Cancelling
<1>2. /\ task' = task /\ todo' = todo
      /\ trip'.status = IF seen[r].trip = Keep THEN trip.status ELSE seen[r].trip
  BY <1>1, PutFields, ApplyToTrip
<1>3. ClosingTrip(r)'
  BY <1>1, <1>2 DEF ClosingTrip, Cancelling
<1>4. /\ Settled = [status |-> trip.status, tasks |-> task, todos |-> todo]
      /\ Settled' = [status |-> trip'.status, tasks |-> task', todos |-> todo']
  BY <1>1, SettledAtRest
<1>5. UNCHANGED Counts
  BY DEF Counts
<1>6. CASE seen[r].trip = Keep
  <2>1. Nothing(r)
    BY <1>2, <1>4, <1>5, <1>6 DEF Nothing, Announces
  <2> QED BY <1>3, <2>1 DEF Lasting
<1>7. CASE seen[r].trip # Keep
  <2>1. /\ isAllTaskCompleted(task)
        /\ seen[r].trip = getTripStatus(task, taskType, job[r].status)
    BY <1>7 DEF ClosingTrip
  <2>2. /\ Promise!isAllTaskCompleted(task) = isAllTaskCompleted(task)
        /\ Promise!isTripStatusCompleted(trip.status) = isTripStatusCompleted(trip.status)
        /\ Promise!getTripStatus(task, taskType, job[r].status)
                = getTripStatus(task, taskType, job[r].status)
    BY SameStatusFunctions
  <2>3. Promise!Close(job[r].status)
    BY <1>1, <1>2, <1>4, <1>7, <2>1, <2>2 DEF Promise!Close
  <2>4. Announces(r)' => Announces(r)
    BY DEF Announces
  <2>5. Cancels(r)
    BY <1>1, <1>5, <2>3, <2>4 DEF Cancels
  <2> QED BY <1>3, <2>5 DEF Lasting
<1> QED BY <1>6, <1>7

LEMMA StrayIdle ==
    ASSUME NEW r, Alone(r), TypeOK, Idle(r), NEW w \in stray[r], Apply(w),
           stray'[r] = stray[r] \ {w}, sent'[r] = sent[r],
           UNCHANGED <<pc, job, seen, started>>
    PROVE  Idle(r)' /\ Lasting(r)
<1> Slot = {r} /\ r \in Slot /\ pc[r] = "idle"
  BY DEF Alone, Idle
<1>1. CASE w.doc = Trip /\ w.status \in {Keep, trip.status}
  <2>1. task' = task /\ todo' = todo /\ trip'.status = trip.status
    BY <1>1, ApplyToTrip
  <2>2. Idle(r)'
    BY <2>1 DEF Idle
  <2>3. UNCHANGED Settled
    BY <2>1, SettledAtRest
  <2> QED BY <2>2, <2>3 DEF Nothing, Lasting, Announces, Counts
<1>2. CASE /\ \E t \in Task, s \in CancelStatus : w = Put(t, s)
           /\ ~isTripStatusCompleted(trip.status)
  <2>1. PICK t \in Task, s \in CancelStatus : w = Put(t, s)
    BY <1>2
  <2>2. Cancels(r) /\ trip' = trip
    BY <1>2, <2>1, CancelIsPromised
  <2>3. Idle(r)'
    BY <2>2 DEF Idle
  <2> QED BY <2>2, <2>3 DEF Lasting
<1> QED BY <1>1, <1>2 DEF Idle

LEMMA LandAlone ==
    ASSUME NEW r, Alone(r), CauseInv, CauseInv', Shape(r), Land(r), ~Overtakes(r)
    PROVE  Shape(r)' /\ Lasting(r)
<1> Slot = {r} /\ r \in Slot /\ TypeOK
  BY DEF Alone, CauseInv
<1>1. PICK w \in sent[r] :
        /\ Apply(w) /\ sent' = [sent EXCEPT ![r] = @ \ {w}]
        /\ \A v \in stray[r] : v.doc # w.doc
  BY DEF Land, Overtakes
<1>2. /\ UNCHANGED <<pc, job, seen, started>> /\ stray'[r] = stray[r]
      /\ sent'[r] = sent[r] \ {w}
  BY <1>1 DEF Land, TypeOK
<1>3. CASE CancellingTasks(r)
  BY <1>1, <1>2, <1>3, LandCancellingTasks DEF Shape, Lasting
<1>4. CASE ClosingTrip(r)
  BY <1>1, <1>2, <1>4, LandClosingTrip DEF Shape
<1>5. ASSUME NEW x \in Todo, TodoShape(r, x)
      PROVE  Shape(r)' /\ Lasting(r)
  <2>1. job[r] = TodoJob(x) /\ pc[r] # "idle"
    BY <1>5 DEF TodoShape, Validating, Calling, Updating, ClosingTask, ClosingRecord, Restoring
  <2>2. TodoShape(r, x)' /\ w.doc \in {x, taskOf[x], Trip}
    <3>1. CASE Updating(r, x)
      BY <1>1, <1>2, <2>1, <3>1, LandUpdating DEF TodoShape
    <3>2. CASE ClosingTask(r, x)
      BY <1>1, <1>2, <2>1, <3>2, LandClosingTask DEF TodoShape
    <3>3. CASE ClosingRecord(r, x)
      BY <1>1, <1>2, <2>1, <3>3, LandClosingRecord DEF TodoShape
    <3>4. CASE Restoring(r, x)
      <4>1. job[r].todo # None
        BY <2>1, DocsDiffer DEF TodoJob
      <4>2. seen[r].trip # Keep
        BY <4>1 DEF CauseInv, SnapshotOK, TRIP_STATUS, Keep
      <4> QED BY <1>1, <1>2, <2>1, <3>4, <4>2, LandRestoring DEF TodoShape
    <3> QED BY <1>1, <1>5, <3>1, <3>2, <3>3, <3>4 DEF TodoShape, Validating, Calling, Found
  <2> QED BY <1>1, <1>2, <2>1, <2>2, LandHides DEF Shape, Lasting
<1> QED BY <1>1, <1>3, <1>4, <1>5 DEF Shape, Idle

LEMMA LandStrayAlone ==
    ASSUME NEW r, Alone(r), CauseInv, CauseInv', Shape(r), LandStray(r)
    PROVE  Shape(r)' /\ Lasting(r)
<1> Slot = {r} /\ r \in Slot /\ TypeOK
  BY DEF Alone, CauseInv
<1>1. PICK w \in stray[r] : Apply(w) /\ stray' = [stray EXCEPT ![r] = @ \ {w}]
  BY DEF LandStray
<1>2. /\ UNCHANGED <<pc, job, seen, started>> /\ sent'[r] = sent[r]
      /\ stray'[r] = stray[r] \ {w}
  BY <1>1 DEF LandStray, TypeOK
<1>3. CASE Idle(r)
  BY <1>1, <1>2, <1>3, StrayIdle DEF Shape
<1>4. ASSUME NEW x \in Todo, TodoShape(r, x)
      PROVE  Shape(r)' /\ Lasting(r)
  <2>1. job[r] = TodoJob(x) /\ pc[r] # "idle" /\ Restoring(r, x)
    BY <1>1, <1>4 DEF TodoShape, Validating, Calling, Found, Updating, ClosingTask,
       ClosingRecord, Restoring
  <2>2. TodoShape(r, x)' /\ w.doc \in {x, taskOf[x], Trip}
    BY <1>1, <1>2, <2>1, StrayRestoring DEF TodoShape
  <2> QED BY <1>1, <1>2, <2>1, <2>2, LandHides DEF Shape, Lasting
<1> QED BY <1>1, <1>3, <1>4 DEF Shape, CancellingTasks, ClosingTrip, Cancelling

(***************************************************************************)
(* Faults.                                                                 *)
(***************************************************************************)
\* A cancellation gives up before its next write.
LEMMA AbandonCancelAlone ==
    ASSUME NEW r, Alone(r), TypeOK, CancellingTasks(r) \/ ClosingTrip(r),
           NEW left \in SUBSET sent[r], Abandon(r, left),
           pc[r] = "closing" => left = {}, UNCHANGED db, UNCHANGED started
    PROVE  Shape(r)' /\ Nothing(r)
<1> Slot = {r} /\ r \in Slot
  BY DEF Alone
<1>1. Return(r, left) /\ job[r].todo = None
  BY DEF Abandon, CancellingTasks, ClosingTrip, Cancelling
<1>2. /\ pc'[r] = "idle" /\ job'[r] = NoJob /\ sent'[r] = {} /\ stray'[r] = left
      /\ ~Announces(r)'
  BY <1>1, ReturnEffect, IdleQuiet
<1>3. trip' = trip /\ task' = task /\ todo' = todo
  BY DEF db
<1>4. Idle(r)'
  BY <1>2, <1>3 DEF Idle, CancellingTasks, ClosingTrip, Cancelling
<1>5. UNCHANGED Settled
  BY <1>1, <1>2, <1>3, SettledAtRest
<1> QED BY <1>2, <1>4, <1>5 DEF Shape, Nothing, Counts

\* The acknowledgement of a cancellation's write is lost.
LEMMA AckLostCancelAlone ==
    ASSUME NEW r, Alone(r), TypeOK, CancellingTasks(r) \/ ClosingTrip(r),
           NEW w \in sent[r], Apply(w), Abandon(r, sent[r] \ {w}), UNCHANGED started
    PROVE  Shape(r)' /\ Lasting(r)
<1> Slot = {r} /\ r \in Slot
  BY DEF Alone
<1>1. /\ Return(r, sent[r] \ {w}) /\ job[r].todo = None /\ job[r].status \in CancelStatus
      /\ ~isTripStatusCompleted(trip.status)
  BY DEF Abandon, CancellingTasks, ClosingTrip, Cancelling
<1>2. /\ pc'[r] = "idle" /\ job'[r] = NoJob /\ sent'[r] = {} /\ stray'[r] = sent[r] \ {w}
      /\ ~Announces(r)'
  BY <1>1, ReturnEffect, IdleQuiet
<1>3. /\ Settled = [status |-> trip.status, tasks |-> task, todos |-> todo]
      /\ Settled' = [status |-> trip'.status, tasks |-> task', todos |-> todo']
  BY <1>1, <1>2, SettledAtRest
<1>4. /\ Promise!isAllTaskCompleted(task) = isAllTaskCompleted(task)
      /\ Promise!isTripStatusCompleted(trip.status) = isTripStatusCompleted(trip.status)
      /\ Promise!getTripStatus(task, taskType, job[r].status)
            = getTripStatus(task, taskType, job[r].status)
  BY SameStatusFunctions
<1>5. CASE CancellingTasks(r)
  <2>1. PICK t \in Task : w = Put(t, job[r].status)
    BY <1>5 DEF CancellingTasks
  <2>2. trip' = trip /\ todo' = todo /\ task' = [task EXCEPT ![t] = job[r].status]
    BY <2>1, ApplyToTask
  <2>3. Idle(r)'
    BY <1>1, <1>2, <1>5, <2>2 DEF Idle, CancellingTasks
  <2>4. Promise!Cancel(t, job[r].status)
    BY <1>1, <1>3, <1>4, <2>2 DEF Promise!Cancel
  <2> QED BY <1>1, <1>2, <2>3, <2>4 DEF Shape, Lasting, Cancels, Counts
<1>6. CASE ClosingTrip(r)
  <2>1. w = Put(Trip, seen[r].trip) /\ sent[r] \ {w} = {}
    BY <1>6 DEF ClosingTrip
  <2>2. /\ task' = task /\ todo' = todo
        /\ trip'.status = IF seen[r].trip = Keep THEN trip.status ELSE seen[r].trip
    BY <2>1, PutFields, ApplyToTrip
  <2>3. Idle(r)'
    BY <1>2, <2>1 DEF Idle
  <2>4. CASE seen[r].trip = Keep
    BY <1>2, <1>3, <2>2, <2>3, <2>4 DEF Shape, Lasting, Nothing, Counts
  <2>5. CASE seen[r].trip # Keep
    <3>1. /\ isAllTaskCompleted(task)
          /\ seen[r].trip = getTripStatus(task, taskType, job[r].status)
      BY <1>6, <2>5 DEF ClosingTrip
    <3>2. Promise!Close(job[r].status)
      BY <1>1, <1>3, <1>4, <2>2, <2>5, <3>1 DEF Promise!Close
    <3> QED BY <1>1, <1>2, <2>3, <3>2 DEF Shape, Lasting, Cancels, Counts
  <2> QED BY <2>4, <2>5
<1> QED BY <1>5, <1>6

LEMMA FaultAlone ==
    ASSUME NEW r, Alone(r), CauseInv, CauseInv', Shape(r), Fault(r)
    PROVE  Shape(r)' /\ Lasting(r)
<1> Slot = {r} /\ r \in Slot /\ TypeOK
  BY DEF Alone, CauseInv
<1>1. /\ WriteFails(r) \/ AckLost(r) \/ CallFails(r)
      /\ pc[r] \in {"calling", "updating", "closing"}
      /\ UNCHANGED started
  BY DEF Fault, WriteFails, AckLost, CallFails, AwaitsCall, AwaitsRead, RestoreFails, Alone
<1>2. CASE job[r].todo # None
  <2>1. PICK x \in Todo : TodoShape(r, x) /\ job[r] = TodoJob(x)
    BY <1>1, <1>2, TodoRuns
  <2>2. Undoable(r, x)
    BY <1>1, <2>1, RunningIsUndoable DEF TodoShape, Validating, Restoring
  <2>3. PICK left \in SUBSET sent[r] :
            Abandon(r, left) /\ (UNCHANGED db \/ \E w \in sent[r] : Apply(w))
    <3>1. CASE WriteFails(r)
      BY <3>1 DEF WriteFails
    <3>2. CASE AckLost(r)
      BY <3>2 DEF AckLost
    <3>3. CASE CallFails(r)
      BY <3>3 DEF CallFails
    <3> QED BY <1>1, <3>1, <3>2, <3>3
  <2> QED BY <1>1, <2>1, <2>2, <2>3, AbandonTodoAlone DEF Lasting
<1>3. CASE job[r].todo = None
  <2>1. CancellingTasks(r) \/ ClosingTrip(r)
    BY <1>1, <1>3, CancelRuns
  <2>2. CASE AckLost(r)
    BY <1>1, <2>1, <2>2, AckLostCancelAlone DEF AckLost
  <2>3. CASE WriteFails(r)
    <3>1. PICK w \in sent[r] : Abandon(r, sent[r] \ {w})
      BY <2>3 DEF WriteFails
    <3>2. pc[r] = "closing" => sent[r] \ {w} = {}
      BY <2>1 DEF ClosingTrip, CancellingTasks
    <3>3. UNCHANGED db /\ sent[r] \ {w} \in SUBSET sent[r]
      BY <2>3 DEF WriteFails
    <3> QED BY <1>1, <2>1, <3>1, <3>2, <3>3, AbandonCancelAlone DEF Lasting
  <2>4. CASE CallFails(r)
    <3>1. Abandon(r, sent[r]) /\ UNCHANGED db
      BY <2>4 DEF CallFails
    <3>2. pc[r] = "closing" => sent[r] = {}
      BY <1>1, <2>4 DEF CallFails, AwaitsCall, AwaitsRead
    <3>3. sent[r] \in SUBSET sent[r]
      OBVIOUS
    <3> QED BY <1>1, <2>1, <3>1, <3>2, <3>3, AbandonCancelAlone DEF Lasting
  <2> QED BY <1>1, <2>2, <2>3, <2>4
<1> QED BY <1>2, <1>3

(***************************************************************************)
(* Every step of the slot keeps its shape and is one callers may rely on.  *)
(***************************************************************************)
LEMMA StutterAlone ==
    ASSUME NEW r, Alone(r), Shape(r), UNCHANGED vars
    PROVE  Shape(r)' /\ Lasting(r)
<1>1. /\ trip' = trip /\ task' = task /\ todo' = todo /\ pc' = pc /\ job' = job
      /\ seen' = seen /\ sent' = sent /\ stray' = stray /\ started' = started
  BY DEF vars, db
<1>2. UNCHANGED Settled
  BY <1>1 DEF Settled, Running
<1>3. Shape(r)'
  BY <1>1 DEF Shape, Idle, CancellingTasks, ClosingTrip, Cancelling, ActiveTasks, TodoShape,
     Validating, Calling, Updating, ClosingTask, ClosingRecord, Restoring, Found, Entitled,
     OtherTodosDone, TripTarget, TripStatusAfterDelivery
<1> QED BY <1>1, <1>2, <1>3 DEF Lasting, Nothing, Counts, Announces

LEMMA ShapeNext ==
    ASSUME NEW r, Alone(r), CauseInv, CauseInv', Shape(r), [Next]_vars, [~Overtakes(r)]_vars
    PROVE  Shape(r)' /\ Lasting(r)
<1>1. CASE UNCHANGED vars
  BY <1>1, StutterAlone
<1>2. CASE Next /\ ~Overtakes(r)
  <2> TypeOK
    BY DEF CauseInv
  <2>1. \/ \E x \in Todo : Dispatch(r, x)
        \/ \E s \in CancelStatus : Cancel(r, s)
        \/ Handle(r) \/ Fault(r) \/ Land(r) \/ LandStray(r)
    BY <1>2 DEF Next, Alone
  <2>2. CASE \E x \in Todo : Dispatch(r, x)
    BY <2>2, DispatchAlone DEF Lasting
  <2>3. CASE \E s \in CancelStatus : Cancel(r, s)
    BY <2>3, CancelAlone DEF Lasting
  <2>4. CASE Handle(r)
    BY <2>4, ValidateAlone, RefuseAlone, CallsReturnAlone, AdvanceAlone, CloseAlone,
       FinishAlone, FinishCancelAlone, RestoredAlone DEF Handle, Lasting
  <2>5. CASE Fault(r)
    BY <2>5, FaultAlone
  <2>6. CASE Land(r) \/ LandStray(r)
    BY <1>2, <2>6, LandAlone, LandStrayAlone
  <2> QED BY <2>1, <2>2, <2>3, <2>4, <2>5, <2>6
<1> QED BY <1>1, <1>2

(***************************************************************************)
(* The shape at the start, and what callers rely on from then on.          *)
(***************************************************************************)
LEMMA SettledType ==
    ASSUME NEW r, Alone(r), CauseInv
    PROVE  /\ Settled.status \in TRIP_STATUS
           /\ Settled.tasks \in [Task -> TaskStatus]
<1> Slot = {r} /\ r \in Slot /\ TypeOK
  BY DEF Alone, CauseInv
<1>1. CASE pc[r] = "idle" \/ job[r].todo = None
  <2>1. Settled = [status |-> trip.status, tasks |-> task, todos |-> todo]
    BY <1>1, SettledAtRest
  <2> QED BY <2>1 DEF TypeOK
<1>2. CASE pc[r] # "idle" /\ job[r].todo # None
  <2>1. job[r] = TodoJob(job[r].todo) /\ job[r].todo \in Todo /\ job[r].task \in Task \union {None}
    BY <1>2 DEF CauseInv, ProgressOK, TypeOK, Job
  <2>2. seen[r].trip \in TRIP_STATUS /\ seen[r].task \in TaskStatus
    BY <1>2 DEF CauseInv, SnapshotOK
  <2>3. SettledAs(r, job[r].todo)
    BY <1>2, <2>1, SettledInRequest
  <2> QED BY <2>2, <2>3 DEF SettledAs, TypeOK
<1> QED BY <1>1, <1>2

LEMMA AloneInit ==
    ASSUME NEW r, Alone(r), Init
    PROVE  /\ Shape(r) /\ Counted(r) /\ ClosedForCause
           /\ Promise!Waiting
<1> Slot = {r} /\ r \in Slot
  BY DEF Alone
<1>1. pc[r] = "idle" /\ job[r] = NoJob /\ sent[r] = {} /\ stray[r] = {}
  BY DEF Init
<1>2. Settled = [status |-> trip.status, tasks |-> task, todos |-> todo]
  BY <1>1, SettledAtRest
<1>3. /\ Settled.status = "PENDING" /\ Settled.tasks = [t \in Task |-> "PENDING"]
      /\ Settled.todos = [x \in Todo |-> "TODO"]
  BY <1>2 DEF Init
<1>4. started["transport"] = 0 /\ started["cancelTrip"] = 0
  BY DEF Init, Workflows
<1>5. Shape(r)
  BY <1>1 DEF Shape, Idle
<1>6. Counted(r)
  BY <1>3, <1>4 DEF Counted
<1>7. ClosedForCause
  BY <1>3 DEF ClosedForCause, isTripStatusCompleted, TRIP_STATUS_COMPLETED,
     LIST_TRIP_STATUS_FAILED
<1> QED BY <1>3, <1>5, <1>6, <1>7 DEF Promise!Waiting

\* The status a trip that is closed gets.
LEMMA ClosingStatus ==
    ASSUME NEW tasks, NEW s
    PROVE  /\ getTripStatus(tasks, taskType, s) \in {s, "PARTIAL_DONE"}
           /\ getTripStatus(tasks, taskType, s) # s => isSomeTaskDelivered(tasks, taskType)
BY DEF getTripStatus

\* The transport of a trip is ordered by the step that accepts it, its
\* cancellation is announced at most once and only for a completed trip.
LEMMA CountedNext ==
    ASSUME NEW r, Alone(r), CauseInv, Counted(r), Lasting(r)
    PROVE  Counted(r)'
<1> DEFINE status == Settled.status
<1> USE DEF isTripStatusCompleted, TRIP_STATUS_COMPLETED, LIST_TRIP_STATUS_FAILED
<1>1. status \in TRIP_STATUS /\ Settled.tasks \in [Task -> TaskStatus]
  BY SettledType
<1>2. started \in [Workflows -> 0..MaxCount] /\ MaxCount = 2
  BY DEF CauseInv, TypeOK, MaxCount
<1>3. started["transport"] \in Nat /\ started["cancelTrip"] \in Nat
  BY <1>2 DEF Workflows
<1>4. \A s : Promise!isTripStatusCompleted(s) = isTripStatusCompleted(s)
  BY SameStatusFunctions
<1>5. CASE Nothing(r)
  BY <1>5 DEF Nothing, Counted, Counts
<1>6. CASE Accepts(r)
  <2>1. PICK x \in Todo : Promise!Accept(x)
    BY <1>6 DEF Accepts
  <2>2. status = "PENDING" /\ status' = "DOING"
    BY <2>1 DEF Promise!Accept
  <2> QED BY <1>2, <1>3, <1>6, <2>2 DEF Accepts, CountsUp, Counted
<1>7. CASE Executes(r)
  <2>1. PICK x \in Todo : Promise!Start(x) \/ Promise!Record(x) \/ Promise!Finish(x)
    BY <1>7 DEF Executes
  <2>2. status = "DOING" /\ status' \in {"DOING", "DONE", "PARTIAL_DONE"}
    <3>1. \A tasks : Promise!getTripStatus(tasks, taskType, "DONE") \in {"DONE", "PARTIAL_DONE"}
      BY SameStatusFunctions, ClosingStatus
    <3> QED BY <2>1, <3>1 DEF Promise!Start, Promise!Record, Promise!Finish
  <2> QED BY <1>7, <2>2 DEF Executes, Counted, Counts
<1>8. CASE Cancels(r)
  <2>1. UNCHANGED Counts /\ (Announces(r)' => Announces(r))
    BY <1>8 DEF Cancels
  <2>2. CASE \E s \in CancelStatus, t \in Task : Promise!Cancel(t, s)
    <3>1. PICK s \in CancelStatus, t \in Task : Promise!Cancel(t, s)
      BY <2>2
    <3>2. /\ ~isTripStatusCompleted(status) /\ status' = status
          /\ Settled.tasks' = [Settled.tasks EXCEPT ![t] = s]
      BY <1>4, <3>1 DEF Promise!Cancel
    <3>3. s # "DONE"
      BY EnvironmentAssumption DEF LIST_TASK_STATUS_CANCELLED
    <3>4. \A u \in Task : Settled.tasks[u] # "DONE" => Settled.tasks'[u] # "DONE"
      BY <1>1, <3>2, <3>3
    <3> QED BY <2>1, <3>2, <3>4 DEF Counted, Counts
  <2>3. CASE \E s \in CancelStatus : Promise!Close(s)
    <3>1. PICK s \in CancelStatus : Promise!Close(s)
      BY <2>3
    <3>2. /\ ~isTripStatusCompleted(status)
          /\ status' = getTripStatus(Settled.tasks, taskType, s)
      BY <1>4, <3>1, SameStatusFunctions DEF Promise!Close
    <3>3. status' \in {s, "PARTIAL_DONE"} /\ s \in {"CANCELLED", "FAILED", "REJECTED"}
      BY <3>2, ClosingStatus, EnvironmentAssumption DEF LIST_TASK_STATUS_CANCELLED
    <3>4. status' = "PARTIAL_DONE" => \E t \in Task : Settled.tasks[t] = "DONE"
      BY <1>1, <3>2, <3>3, ClosingStatus DEF isSomeTaskDelivered
    <3>5. status \in {"PENDING", "DOING"}
      BY <1>1, <3>2 DEF Counted, TRIP_STATUS
    <3>6. status' = "PARTIAL_DONE" => started["transport"] = 1
      BY <3>4, <3>5 DEF Counted
    <3> QED BY <2>1, <3>2, <3>3, <3>6 DEF Counted, Counts
  <2> QED BY <1>8, <2>2, <2>3 DEF Cancels
<1>9. CASE Announced(r)
  BY <1>2, <1>3, <1>9 DEF Announced, CountsUp, Counted
<1> QED BY <1>5, <1>6, <1>7, <1>8, <1>9 DEF Lasting

\* A trip is closed by the delivery that leaves no task open, or by a
\* cancellation that finds none.
LEMMA ClosedForCauseNext ==
    ASSUME NEW r, Alone(r), CauseInv, ClosedForCause, Lasting(r)
    PROVE  ClosedForCause'
<1> USE DEF isTripStatusCompleted, TRIP_STATUS_COMPLETED, LIST_TRIP_STATUS_FAILED
<1>1. Settled.status \in TRIP_STATUS /\ Settled.tasks \in [Task -> TaskStatus]
  BY SettledType
<1>2. /\ \A s : Promise!isTripStatusCompleted(s) = isTripStatusCompleted(s)
      /\ \A f, s : Promise!getTripStatus(f, taskType, s) = getTripStatus(f, taskType, s)
      /\ \A f : Promise!isAllTaskCompleted(f) = isAllTaskCompleted(f)
  BY SameStatusFunctions
<1>3. CASE UNCHANGED Settled
  BY <1>3 DEF ClosedForCause
<1>4. CASE \E x \in Todo : Promise!Accept(x) \/ Promise!Start(x) \/ Promise!Record(x)
  <2>1. Settled.status' = "DOING"
    BY <1>4 DEF Promise!Accept, Promise!Start, Promise!Record
  <2> QED BY <2>1 DEF ClosedForCause
<1>5. CASE \E x \in Todo : Promise!Finish(x)
  <2>1. PICK x \in Todo : Promise!Finish(x)
    BY <1>5
  <2>2. CASE Settled.status' = "DOING"
    BY <2>2 DEF ClosedForCause
  <2>3. CASE Settled.status' # "DOING"
    <3>1. /\ todoType[x] \in {"RECEIPT", "DELIVERED"}
          /\ isAllTaskCompleted(Settled.tasks')
          /\ Settled.status' = getTripStatus(Settled.tasks', taskType, "DONE")
          /\ Settled.tasks' = [Settled.tasks EXCEPT ![taskOf[x]] = "DONE"]
      BY <1>2, <2>1, <2>3 DEF Promise!Finish, Promise!Move
    <3>2. taskType[taskOf[x]] = "DELIVERY" /\ taskOf[x] \in Task
      BY <3>1, TodoTellsTask
    <3>3. isSomeTaskDelivered(Settled.tasks', taskType)
      BY <1>1, <3>1, <3>2 DEF isSomeTaskDelivered, isTaskDelivery
    <3> QED BY <3>1, <3>3 DEF ClosedForCause
  <2> QED BY <2>2, <2>3
<1>6. CASE \E s \in CancelStatus, t \in Task : Promise!Cancel(t, s)
  <2>1. ~isTripStatusCompleted(Settled.status')
    BY <1>2, <1>6 DEF Promise!Cancel
  <2> QED BY <2>1 DEF ClosedForCause
<1>7. CASE \E s \in CancelStatus : Promise!Close(s)
  <2>1. PICK s \in CancelStatus :
            /\ isAllTaskCompleted(Settled.tasks) /\ Settled.tasks' = Settled.tasks
            /\ Settled.status' = getTripStatus(Settled.tasks, taskType, s)
    BY <1>2, <1>7 DEF Promise!Close
  <2> QED BY <2>1 DEF ClosedForCause
<1> QED
  BY <1>3, <1>4, <1>5, <1>6, <1>7 DEF Lasting, Nothing, Accepts, Executes, Cancels, Announced

LEMMA AloneNext ==
    ASSUME NEW r, Alone(r), AloneInv(r), [Next]_vars, [~Overtakes(r)]_vars
    PROVE  AloneInv(r)' /\ Lasting(r)
<1>1. CauseInv /\ CauseInv'
  BY CauseNext DEF AloneInv
<1>2. Shape(r)' /\ Lasting(r)
  BY <1>1, ShapeNext DEF AloneInv
<1>3. Counted(r)' /\ ClosedForCause'
  BY <1>1, <1>2, CountedNext, ClosedForCauseNext DEF AloneInv
<1> QED BY <1>1, <1>2, <1>3 DEF AloneInv

\* The inductive invariant of one request at a time.
THEOREM AloneInvariant ==
    ASSUME NEW CONSTANT r, Alone(r)
    PROVE  Spec /\ CatchBlocksInTurn(r) => []AloneInv(r)
<1>1. Init => AloneInv(r)
  BY CauseInit, AloneInit DEF AloneInv
<1>2. AloneInv(r) /\ [Next]_vars /\ [~Overtakes(r)]_vars => AloneInv(r)'
  BY AloneNext
<1> QED BY <1>1, <1>2, PTL DEF Spec, CatchBlocksInTurn

(***************************************************************************)
(* What it shows.                                                          *)
(***************************************************************************)
\* One request at a time implements TripLifecycle: whichever of its writes,
\* calls or answers fails, the request of a todo changes everything it should
\* or nothing, unless its catch block fails or overtakes what it takes back.
THEOREM RequestsAreAtomic ==
    ASSUME NEW CONSTANT r, Alone(r)
    PROVE  Spec /\ CatchBlocksInTurn(r) => RequestIsAtomic
<1>1. Init => AloneInv(r) /\ Promise!Waiting
  BY CauseInit, AloneInit DEF AloneInv
<1>2. AloneInv(r) /\ [Next]_vars /\ [~Overtakes(r)]_vars => AloneInv(r)' /\ [Promise!Advance]_(Promise!lifecycle)
  <2> SUFFICES ASSUME AloneInv(r), [Next]_vars, [~Overtakes(r)]_vars
               PROVE  AloneInv(r)' /\ [Promise!Advance]_(Promise!lifecycle)
    OBVIOUS
  <2>1. AloneInv(r)' /\ Lasting(r)
    BY AloneNext
  <2>2. UNCHANGED Settled => UNCHANGED Promise!lifecycle
    BY DEF Promise!lifecycle
  <2> QED
    BY <2>1, <2>2 DEF Lasting, Nothing, Accepts, Executes, Cancels, Announced, Promise!Advance
<1> QED BY <1>1, <1>2, PTL DEF Spec, CatchBlocksInTurn, RequestIsAtomic, Promise!Lifecycle

\* A completed trip has no open task.
THEOREM ClosedTripsHaveNoOpenTask ==
    ASSUME NEW CONSTANT r, Alone(r)
    PROVE  Spec /\ CatchBlocksInTurn(r) => []ClosedTripHasNoOpenTask
<1>1. AloneInv(r) => ClosedTripHasNoOpenTask
  BY SameStatusFunctions
     DEF AloneInv, ClosedForCause, ClosedTripHasNoOpenTask, Promise!NoOpenTaskWhenCompleted
<1> QED BY <1>1, AloneInvariant, PTL

\* The transport of a trip is ordered once, however often accepting fails.
THEOREM TransportOrderedOnce ==
    ASSUME NEW CONSTANT r, Alone(r)
    PROVE  Spec /\ CatchBlocksInTurn(r) => []AcceptedOnce
<1>1. AloneInv(r) => AcceptedOnce
  BY DEF AloneInv, Counted, AcceptedOnce
<1> QED BY <1>1, AloneInvariant, PTL

\* A trip is cancelled once.
THEOREM TripCancelledOnce ==
    ASSUME NEW CONSTANT r, Alone(r)
    PROVE  Spec /\ CatchBlocksInTurn(r) => []CancelledOnce
<1>1. AloneInv(r) => CancelledOnce
  BY DEF AloneInv, Counted, CancelledOnce
<1> QED BY <1>1, AloneInvariant, PTL

\* Between requests callers see the documents.
LEMMA SettledWhenQuiet ==
    ASSUME NEW r, Alone(r), Quiet
    PROVE  Settled = [status |-> trip.status, tasks |-> task, todos |-> todo]
BY SettledAtRest DEF Alone, Quiet

\* A trip under way or delivered has its transport ordered.
THEOREM TransportOrdered ==
    ASSUME NEW CONSTANT r, Alone(r)
    PROVE  Spec /\ CatchBlocksInTurn(r) => []AcceptedTripHasTransport
<1>1. AloneInv(r) => AcceptedTripHasTransport
  <2> SUFFICES ASSUME AloneInv(r), Quiet, trip.status \in {"DOING", "DONE", "PARTIAL_DONE"}
               PROVE  started["transport"] >= 1
    BY DEF AcceptedTripHasTransport
  <2>1. Settled.status = trip.status
    BY SettledWhenQuiet
  <2> QED BY <2>1 DEF AloneInv, Counted
<1> QED BY <1>1, AloneInvariant, PTL

\* The tasks alone tell the status of a trip that was closed.
LEMMA OrderShowsClosedTrip ==
    ASSUME NEW r, AloneInv(r), Settled.status = trip.status, Settled.tasks = task,
           isTripStatusCompleted(trip.status),
           NEW one, asked \subseteq {one},
           trip.status = "DONE" \/ isSomeTaskCancelled(task)
    PROVE  getRefOrderTripStatus(task, taskType) = trip.status
<1>1. DOMAIN task = Task /\ TripCause(trip.status) /\ \A t \in Task : TaskCause(t, task[t])
  BY DEF AloneInv, CauseInv, TypeOK, StatusHasCause
<1>2. \A t \in Task :
        /\ task[t] \in {"DONE", "CANCELLED", "FAILED", "REJECTED"}
        /\ task[t] # "DONE" => task[t] \in asked
  BY <1>1 DEF AloneInv, ClosedForCause, isAllTaskCompleted, TASK_STATUS_COMPLETED,
     LIST_TASK_STATUS_CANCELLED, TaskCause
<1>3. \/ /\ trip.status = getTripStatus(task, taskType, "DONE")
         /\ isSomeTaskDelivered(task, taskType)
      \/ \E s \in CancelStatus : trip.status = getTripStatus(task, taskType, s)
  BY DEF AloneInv, ClosedForCause
<1>4. \A s \in CancelStatus : s \in {"CANCELLED", "FAILED", "REJECTED"}
  BY EnvironmentAssumption DEF LIST_TASK_STATUS_CANCELLED
<1> DEFINE some(s) == \E t \in Task : task[t] = s
           requested == IF some("FAILED") THEN "FAILED"
                        ELSE IF some("CANCELLED") THEN "CANCELLED"
                        ELSE IF some("REJECTED") THEN "REJECTED"
                        ELSE IF some("DOING") THEN "DOING"
                        ELSE IF \A t \in Task : task[t] = "DONE" THEN "DONE"
                        ELSE "PENDING"
<1>5. getRefOrderTripStatus(task, taskType) = getTripStatus(task, taskType, requested)
  BY <1>1 DEF getRefOrderTripStatus
<1>6. CASE ~isSomeTaskCancelled(task)
  <2>1. \A t \in Task : task[t] = "DONE"
    BY <1>1, <1>2, <1>6 DEF isSomeTaskCancelled, LIST_TASK_STATUS_CANCELLED
  <2>2. requested = "DONE"
    BY <2>1
  <2>3. getTripStatus(task, taskType, "DONE") = "DONE"
    BY <1>6 DEF getTripStatus, isTripStatusCancelled, LIST_TRIP_STATUS_FAILED
  <2> QED BY <1>5, <1>6, <2>2, <2>3
<1>7. CASE isSomeTaskCancelled(task)
  <2>1. PICK c \in Task : task[c] \in {"CANCELLED", "FAILED", "REJECTED"}
    BY <1>1, <1>7 DEF isSomeTaskCancelled, LIST_TASK_STATUS_CANCELLED
  <2>2. one = task[c] /\ \A t \in Task : task[t] \in {"DONE", one}
    BY <1>2, <2>1
  <2>3. requested = one
    BY <2>1, <2>2
  <2>4. CASE isSomeTaskDelivered(task, taskType)
    <3>1. trip.status = "PARTIAL_DONE"
      BY <1>3, <1>4, <1>7, <2>4
         DEF getTripStatus, isTripStatusCancelled, LIST_TRIP_STATUS_FAILED
    <3> QED BY <1>5, <2>1, <2>2, <2>3, <2>4, <3>1
         DEF getTripStatus, isTripStatusCancelled, LIST_TRIP_STATUS_FAILED
  <2>5. CASE ~isSomeTaskDelivered(task, taskType)
    <3>1. PICK s \in CancelStatus : trip.status = s
      BY <1>3, <2>5 DEF getTripStatus
    <3>2. s = one
      BY <1>1, <1>4, <3>1 DEF TripCause, LIST_TRIP_STATUS_FAILED
    <3> QED BY <1>5, <2>3, <2>5, <3>1, <3>2 DEF getTripStatus
  <2> QED BY <2>4, <2>5
<1> QED BY <1>6, <1>7

\* The status shown for an order agrees with its closed trip.
THEOREM OrdersShowTripStatus ==
    ASSUME NEW CONSTANT r, Alone(r)
    PROVE  Spec /\ CatchBlocksInTurn(r) => []OrderShowsTripStatus
<1>1. AloneInv(r) => OrderShowsTripStatus
  BY SettledWhenQuiet, OrderShowsClosedTrip DEF OrderShowsTripStatus
<1> QED BY <1>1, AloneInvariant, PTL
=============================================================================
