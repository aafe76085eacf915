------------------------ MODULE TodoExecution_proofs ------------------------
(***************************************************************************)
(* Proofs about TodoExecution, for any number of requests at a time, any   *)
(* trip, any faults and any order of writes.                               *)
(*                                                                         *)
(* StatusHasCause is not inductive: a write in flight or a snapshot a      *)
(* rollback will write back carries a status on to a later state.  The     *)
(* inductive invariant asks of every such status what StatusHasCause asks  *)
(* of the documents, and remembers how far a request has come.             *)
(***************************************************************************)
EXTENDS TodoExecution, TLAPS

\* A write in flight leaves the documents as TypeOK and StatusHasCause ask.
WriteOK(w) ==
    /\ w \in Write
    /\ w.doc = Trip =>
        /\ w.status \in TRIP_STATUS \union {Keep}
        /\ TripCause(w.status)
        /\ w.pickedUpTime = "set" => Proven("PICKUP")
    /\ w.doc \in Task => w.status \in TaskStatus /\ TaskCause(w.doc, w.status)
    /\ w.doc \in Todo => w.status \in TODO_STATUS

\* The snapshot of a todo handler could be written back at any time.
SnapshotOK(r) ==
    job[r].todo # None =>
        /\ seen[r].trip \in TRIP_STATUS /\ TripCause(seen[r].trip)
        /\ seen[r].task \in TaskStatus /\ TaskCause(job[r].task, seen[r].task)
        /\ seen[r].todo \in TODO_STATUS

\* What a request has established when it gets where it is.
ProgressOK(r) ==
    /\ job[r].todo = None => job[r].op \notin TodoTypes
    /\ job[r].todo # None => job[r] = TodoJob(job[r].todo)
    /\ job[r].op \in {"CANCEL_TASK", "CANCEL_TRIP"} => job[r].status \in asked
    /\ pc[r] = "calling" => job[r].op \in {"ACCEPT_TRIP", "DELIVERED"}
    /\ pc[r] = "calling" => job[r].task \in proven
    /\ pc[r] \in {"calling", "validating", "restoring"} => job[r].todo # None
    /\ pc[r] \in {"updating", "closing"} /\ job[r].todo # None => Proven("ACCEPT_TRIP")
    /\ /\ pc[r] \in {"updating", "closing"}
       /\ job[r].op \in {"ACCEPT_TRIP", "PICKED_UP", "RECEIPT", "DELIVERED"}
       => job[r].task \in proven

CauseInv ==
    /\ TypeOK
    /\ StatusHasCause
    /\ \A r \in Slot :
        /\ \A w \in sent[r] \union stray[r] : WriteOK(w)
        /\ SnapshotOK(r)
        /\ ProgressOK(r)

(***************************************************************************)
(* Constants.                                                              *)
(***************************************************************************)
\* The type of a todo tells the type of its task.
LEMMA TodoTellsTask ==
    ASSUME NEW x \in Todo
    PROVE  /\ taskOf[x] \in Task
           /\ todoType[x] \in TodoTypes
           /\ todoType[x] = "ACCEPT_TRIP" <=> taskType[taskOf[x]] = "ACCEPT_TRIP"
           /\ todoType[x] = "PICKED_UP" => taskType[taskOf[x]] = "PICKUP"
           /\ todoType[x] \in {"RECEIPT", "DELIVERED"} => taskType[taskOf[x]] = "DELIVERY"
<1>1. /\ taskOf[x] \in Task /\ todoType[x] \in TodoTypes
      /\ taskType[taskOf[x]] \in TaskTypes
  BY TodoAssumption
<1>2. CASE taskType[taskOf[x]] = "ACCEPT_TRIP"
  BY <1>1, <1>2, TodoAssumption
<1>3. CASE taskType[taskOf[x]] = "PICKUP"
  BY <1>1, <1>3, TodoAssumption DEF PickupRecords
<1>4. CASE taskType[taskOf[x]] = "DELIVERY"
  BY <1>1, <1>4, TodoAssumption DEF DeliveryRecords
<1>5. CASE taskType[taskOf[x]] = "RETURN"
  BY <1>1, <1>5, TodoAssumption
<1> QED BY <1>1, <1>2, <1>3, <1>4, <1>5 DEF TaskTypes

\* The jobs and snapshots of a todo handler.
LEMMA TodoJobType ==
    ASSUME NEW x \in Todo
    PROVE  TodoJob(x) \in Job
<1>1. taskOf[x] \in Task /\ todoType[x] \in TodoTypes
  BY TodoTellsTask
<1> QED BY <1>1 DEF TodoJob, Job, Ops

(***************************************************************************)
(* Causes only accumulate.                                                 *)
(***************************************************************************)
LEMMA Growth ==
    ASSUME asked \subseteq asked', proven \subseteq proven'
    PROVE  /\ \A type : Proven(type) => Proven(type)'
           /\ \A s : TripCause(s) => TripCause(s)'
           /\ \A t, s : TaskCause(t, s) => TaskCause(t, s)'
           /\ \A w : WriteOK(w) => WriteOK(w)'
<1>1. \A type : Proven(type) => Proven(type)'
  BY DEF Proven
<1>2. \A s : TripCause(s) => TripCause(s)'
  BY <1>1 DEF TripCause
<1>3. \A t, s : TaskCause(t, s) => TaskCause(t, s)'
  BY <1>1 DEF TaskCause
<1>4. \A w : WriteOK(w) => WriteOK(w)'
  BY <1>1, <1>2, <1>3 DEF WriteOK
<1> QED BY <1>1, <1>2, <1>3, <1>4

\* A step that leaves the documents alone keeps their causes.
LEMMA SameDocuments ==
    ASSUME CauseInv, UNCHANGED db,
           asked \subseteq asked', proven \subseteq proven',
           proven' # {} => Proven("ACCEPT_TRIP")'
    PROVE  StatusHasCause'
BY Growth DEF CauseInv, StatusHasCause, db

\* A step of slot r leaves the other slots alone.
Elsewhere(r) ==
    \A q \in Slot \ {r} :
        /\ pc'[q] = pc[q] /\ job'[q] = job[q] /\ seen'[q] = seen[q]
        /\ sent'[q] = sent[q] /\ stray'[q] = stray[q]

\* What one step of one slot has to establish.
LEMMA SlotStep ==
    ASSUME CauseInv, NEW r \in Slot, Elsewhere(r),
           asked \subseteq asked', proven \subseteq proven',
           TypeOK', StatusHasCause',
           \A w \in sent'[r] \union stray'[r] : WriteOK(w)',
           SnapshotOK(r)', ProgressOK(r)'
    PROVE  CauseInv'
<1> SUFFICES ASSUME NEW q \in Slot, q # r
             PROVE  /\ \A w \in sent'[q] \union stray'[q] : WriteOK(w)'
                    /\ SnapshotOK(q)' /\ ProgressOK(q)'
  BY DEF CauseInv
<1>1. /\ \A w \in sent[q] \union stray[q] : WriteOK(w)
      /\ SnapshotOK(q) /\ ProgressOK(q)
  BY DEF CauseInv
<1>2. /\ pc'[q] = pc[q] /\ job'[q] = job[q] /\ seen'[q] = seen[q]
      /\ sent'[q] = sent[q] /\ stray'[q] = stray[q]
  BY DEF Elsewhere
<1>3. \A w \in sent'[q] \union stray'[q] : WriteOK(w)'
  BY <1>1, <1>2, Growth
<1>4. SnapshotOK(q)'
  BY <1>1, <1>2, Growth DEF SnapshotOK
<1>5. ProgressOK(q)'
  BY <1>1, <1>2, Growth DEF ProgressOK
<1> QED BY <1>3, <1>4, <1>5

\* The documents and the counters keep their types, and only the slots move.
DbType == /\ trip \in [status : TRIP_STATUS, pickedUpTime : Times, deliveredTime : Times]
          /\ task \in [Task -> TaskStatus]
          /\ todo \in [Todo -> TODO_STATUS]

HistoryType == asked \subseteq CancelStatus /\ proven \subseteq Task

CountType == started \in [Workflows -> 0..MaxCount]

(***************************************************************************)
(* The writes of the handlers.                                             *)
(***************************************************************************)
LEMMA PutType ==
    ASSUME NEW d \in Doc, NEW s \in TRIP_STATUS \union TASK_STATUS \union {Keep}
    PROVE  Put(d, s) \in Write
BY DEF Put, Write

LEMMA PutTodoOK ==
    ASSUME NEW x \in Todo, NEW s \in TODO_STATUS
    PROVE  WriteOK(Put(x, s))'
<1>1. Put(x, s) \in Write
  BY PutType DEF Doc, TODO_STATUS, TASK_STATUS
<1>2. Put(x, s).doc = x /\ Put(x, s).status = s
  BY DEF Put
<1>3. x # Trip /\ x \notin Task
  BY TripAssumption
<1> QED BY <1>1, <1>2, <1>3 DEF WriteOK

LEMMA PutTaskOK ==
    ASSUME NEW t \in Task, NEW s \in TaskStatus, TaskCause(t, s)'
    PROVE  WriteOK(Put(t, s))'
<1>1. Put(t, s) \in Write
  BY PutType DEF Doc, TaskStatus, TASK_STATUS, LIST_TASK_STATUS_CANCELLED
<1>2. Put(t, s).doc = t /\ Put(t, s).status = s
  BY DEF Put
<1>3. t # Trip /\ t \notin Todo
  BY TripAssumption
<1> QED BY <1>1, <1>2, <1>3 DEF WriteOK

\* Any write of the trip that sets a caused status, or none.
LEMMA TripWriteOK ==
    ASSUME NEW w \in Write, w.doc = Trip,
           w.status \in TRIP_STATUS \union {Keep}, TripCause(w.status)',
           w.pickedUpTime = "set" => Proven("PICKUP")'
    PROVE  WriteOK(w)'
BY TripAssumption DEF WriteOK

LEMMA PutTripOK ==
    ASSUME NEW s \in TRIP_STATUS \union {Keep}, TripCause(s)'
    PROVE  WriteOK(Put(Trip, s))'
<1>1. Put(Trip, s) \in Write
  BY PutType DEF Doc
<1>2. /\ Put(Trip, s).doc = Trip /\ Put(Trip, s).status = s
      /\ Put(Trip, s).pickedUpTime = Keep
  BY DEF Put
<1> QED BY <1>1, <1>2, TripWriteOK DEF Keep

LEMMA KeepHasCause == TripCause(Keep)'
BY DEF TripCause, Keep, LIST_TRIP_STATUS_FAILED

LEMMA TaskDoneHasCause ==
    ASSUME NEW t \in Task, t \in proven'
    PROVE  TaskCause(t, "DONE")' /\ "DONE" \in TaskStatus
BY DEF TaskCause, LIST_TASK_STATUS_CANCELLED, TaskStatus

LEMMA updateTripDetailStatusOK ==
    ASSUME NEW x \in Todo, NEW s \in TRIP_STATUS, TripCause(s)',
           todoType[x] = "PICKED_UP" => Proven("PICKUP")'
    PROVE  WriteOK(updateTripDetailStatus(x, s))'
<1> DEFINE w == updateTripDetailStatus(x, s)
<1>1. /\ w \in Write /\ w.doc = Trip /\ w.status = s
      /\ w.pickedUpTime = "set" => todoType[x] = "PICKED_UP"
  BY DEF updateTripDetailStatus, Put, Write, Doc, Keep
<1> QED BY <1>1, TripWriteOK

(***************************************************************************)
(* The shared parts of the actions.                                        *)
(***************************************************************************)
\* A write that is in order lands.
LEMMA ApplyStep ==
    ASSUME CauseInv, NEW w, WriteOK(w), Apply(w), UNCHANGED history
    PROVE  DbType' /\ StatusHasCause'
<1>1. /\ \A s : TripCause(s) => TripCause(s)'
      /\ \A t, s : TaskCause(t, s) => TaskCause(t, s)'
      /\ \A type : Proven(type) => Proven(type)'
  BY Growth DEF history
<1>2. w \in Write /\ DbType /\ StatusHasCause
  BY DEF CauseInv, TypeOK, DbType, WriteOK
<1>3. CASE w.doc = Trip
  <2>1. w.doc \notin Task /\ w.doc \notin Todo
    BY <1>3, TripAssumption
  <2>2. task' = task /\ todo' = todo
    BY <2>1, <1>2 DEF Apply, DbType
  <2>3. /\ trip'.status \in TRIP_STATUS
        /\ trip'.pickedUpTime \in Times
        /\ trip'.deliveredTime \in Times
        /\ trip' = [status |-> trip'.status, pickedUpTime |-> trip'.pickedUpTime,
                    deliveredTime |-> trip'.deliveredTime]
        /\ trip'.status \in {trip.status, w.status} \ {Keep}
        /\ trip'.pickedUpTime \in {trip.pickedUpTime, w.pickedUpTime}
    BY <1>2, <1>3 DEF Apply, Merge, DbType, WriteOK, Write, Times, TRIP_STATUS, Keep
  <2>4. TripCause(trip.status) /\ TripCause(w.status)
    BY <1>2, <1>3 DEF StatusHasCause, WriteOK
  <2>5. TripCause(trip.status)'
    BY <2>3, <2>4, <1>1 DEF TripCause
  <2>6. trip'.pickedUpTime = "set" => Proven("PICKUP")'
    BY <2>3, <1>1, <1>2, <1>3 DEF StatusHasCause, WriteOK
  <2>7. DbType'
    BY <2>2, <2>3, <1>2 DEF DbType
  <2> QED BY <2>2, <2>5, <2>6, <2>7, <1>1, <1>2 DEF StatusHasCause, history
<1>4. CASE w.doc # Trip
  <2>1. trip' = trip
    BY <1>4 DEF Apply
  <2>2. /\ task' \in [Task -> TaskStatus]
        /\ todo' \in [Todo -> TODO_STATUS]
    BY <1>2, <1>4 DEF Apply, DbType, WriteOK
  <2>3. \A t \in Task : TaskCause(t, task[t])'
    BY <1>1, <1>2, <1>4 DEF Apply, WriteOK, StatusHasCause, TaskCause, DbType
  <2> QED BY <2>1, <2>2, <2>3, <1>1, <1>2 DEF DbType, StatusHasCause, history
<1> QED BY <1>3, <1>4

\* A request starts.
LEMMA BeginStep ==
    ASSUME CauseInv, NEW r \in Slot,
           NEW j \in Job, NEW s \in SnapshotSet, NEW at \in Await, NEW writes,
           Begin(r, j, s, at, writes), HistoryType',
           asked \subseteq asked', proven \subseteq proven',
           proven' # {} => Proven("ACCEPT_TRIP")',
           \A w \in writes : WriteOK(w)',
           SnapshotOK(r)', ProgressOK(r)'
    PROVE  CauseInv'
<1>1. writes \subseteq Write
  BY DEF WriteOK
<1>2. TypeOK'
  BY <1>1 DEF CauseInv, TypeOK, HistoryType, Begin, db
<1>3. StatusHasCause'
  BY SameDocuments DEF Begin
<1>4. Elsewhere(r)
  BY DEF Elsewhere, Begin, CauseInv, TypeOK
<1>5. \A w \in sent'[r] \union stray'[r] : WriteOK(w)'
  BY Growth DEF Begin, CauseInv, TypeOK
<1> QED BY <1>2, <1>3, <1>4, <1>5, SlotStep

\* A request goes on to its next await.
LEMMA ContinueStep ==
    ASSUME CauseInv, NEW r \in Slot, NEW at \in Await, NEW writes, NEW s \in SnapshotSet,
           Continue(r, at, writes), seen' = [seen EXCEPT ![r] = s],
           CountType', HistoryType',
           asked \subseteq asked', proven \subseteq proven',
           proven' # {} => Proven("ACCEPT_TRIP")',
           \A w \in writes : WriteOK(w)',
           SnapshotOK(r)', ProgressOK(r)'
    PROVE  CauseInv'
<1>1. writes \subseteq Write
  BY DEF WriteOK
<1>2. TypeOK'
  BY <1>1 DEF CauseInv, TypeOK, HistoryType, CountType, Continue, db
<1>3. StatusHasCause'
  BY SameDocuments DEF Continue
<1>4. Elsewhere(r)
  BY DEF Elsewhere, Continue, CauseInv, TypeOK
<1>5. \A w \in sent'[r] \union stray'[r] : WriteOK(w)'
  BY Growth DEF Continue, CauseInv, TypeOK
<1> QED BY <1>2, <1>3, <1>4, <1>5, SlotStep

\* A request ends, with some of its writes still in flight.
LEMMA ReturnStep ==
    ASSUME CauseInv, NEW r \in Slot, NEW left \in SUBSET (sent[r] \union stray[r]),
           Return(r, left), DbType', StatusHasCause', CountType', UNCHANGED history
    PROVE  CauseInv'
<1>1. \A w \in left : WriteOK(w) /\ w \in Write
  BY DEF CauseInv, WriteOK
<1>2. NoJob \in Job /\ NoSnapshot \in SnapshotSet
  BY DEF NoJob, Job, NoSnapshot, SnapshotSet, Ops
<1>3. TypeOK'
  BY <1>1, <1>2 DEF CauseInv, TypeOK, DbType, CountType, Return, history, Await
<1>4. Elsewhere(r)
  BY DEF Elsewhere, Return, CauseInv, TypeOK
<1>5. \A w \in sent'[r] \union stray'[r] : WriteOK(w)'
  BY <1>1, Growth DEF Return, CauseInv, TypeOK, history
<1>6. pc'[r] = "idle" /\ job'[r] = NoJob
  BY DEF Return, CauseInv, TypeOK
<1>7. SnapshotOK(r)' /\ ProgressOK(r)'
  BY <1>6 DEF SnapshotOK, ProgressOK, NoJob, TodoTypes, PickupRecords, DeliveryRecords
<1> QED BY <1>3, <1>4, <1>5, <1>7, SlotStep DEF history

\* A driver's request starts.
LEMMA BeginTodoStep ==
    ASSUME CauseInv, NEW r \in Slot, NEW x \in Todo,
           NEW at \in Await \ {"restoring"}, NEW writes,
           BeginTodo(r, x, at, writes), HistoryType',
           asked \subseteq asked', proven \subseteq proven',
           proven' # {} => Proven("ACCEPT_TRIP")',
           \A w \in writes : WriteOK(w)',
           at = "calling" => todoType[x] = "ACCEPT_TRIP" /\ taskOf[x] \in proven',
           at \in {"updating", "closing"} =>
                /\ Proven("ACCEPT_TRIP")'
                /\ todoType[x] \in {"ACCEPT_TRIP", "PICKED_UP", "RECEIPT", "DELIVERED"}
                    => taskOf[x] \in proven'
    PROVE  CauseInv'
<1>1. taskOf[x] \in Task /\ todoType[x] \in TodoTypes /\ x # None
  BY TodoTellsTask, TripAssumption DEF Doc
<1>2. TodoJob(x) \in Job
  BY TodoJobType
<1>3. /\ trip.status \in TRIP_STATUS /\ task[taskOf[x]] \in TaskStatus
      /\ todo[x] \in TODO_STATUS
  BY <1>1 DEF CauseInv, TypeOK
<1>4. Snapshot(x) \in SnapshotSet
  BY <1>3 DEF Snapshot, SnapshotSet
<1>5. Begin(r, TodoJob(x), Snapshot(x), at, writes)
  BY DEF BeginTodo
<1>6. job'[r] = TodoJob(x) /\ seen'[r] = Snapshot(x) /\ pc'[r] = at
  BY <1>5 DEF Begin, CauseInv, TypeOK
<1>7. TripCause(trip.status) /\ TaskCause(taskOf[x], task[taskOf[x]])
  BY <1>1 DEF CauseInv, StatusHasCause
<1>8. /\ job'[r].todo = x /\ job'[r].task = taskOf[x] /\ job'[r].op = todoType[x]
      /\ seen'[r].trip = trip.status /\ seen'[r].task = task[taskOf[x]]
      /\ seen'[r].todo = todo[x]
  BY <1>6 DEF TodoJob, Snapshot
<1>9. TripCause(seen[r].trip)' /\ TaskCause(job[r].task, seen[r].task)'
  BY <1>7, <1>8, Growth DEF TripCause, TaskCause
<1>10. SnapshotOK(r)'
  BY <1>3, <1>8, <1>9 DEF SnapshotOK
<1>11. ProgressOK(r)'
  BY <1>1, <1>6, <1>8 DEF ProgressOK, TodoTypes, PickupRecords, DeliveryRecords
<1> QED BY <1>2, <1>4, <1>5, <1>10, <1>11, BeginStep

\* What a catch block writes back is in order.
LEMMA RestoreOK ==
    ASSUME CauseInv, NEW r \in Slot, job[r].todo # None, UNCHANGED history
    PROVE  \A w \in Restore(r) : WriteOK(w)'
<1>1. PICK x \in Todo, t \in Task, op \in TodoTypes :
            /\ job[r].todo = x /\ job[r].task = t /\ job[r].op = op
            /\ t = taskOf[x] /\ op = todoType[x]
  BY TodoTellsTask DEF CauseInv, TypeOK, ProgressOK, Job, TodoJob
<1>2. PICK tripStatus \in TRIP_STATUS, taskStatus \in TaskStatus, todoStatus \in TODO_STATUS :
            /\ seen[r].trip = tripStatus /\ TripCause(tripStatus)
            /\ seen[r].task = taskStatus /\ TaskCause(t, taskStatus)
            /\ seen[r].todo = todoStatus
  BY <1>1 DEF CauseInv, SnapshotOK
<1>3. TripCause(tripStatus)' /\ TaskCause(t, taskStatus)'
  BY <1>2, Growth DEF history
<1>4. WriteOK(Put(x, todoStatus))'
  BY PutTodoOK
<1>5. WriteOK(Put(t, taskStatus))'
  BY <1>3, PutTaskOK
<1>6. WriteOK(Put(Trip, tripStatus))'
  BY <1>3, PutTripOK
<1>7. WriteOK([Put(Trip, Keep) EXCEPT !.pickedUpTime = "unset"])'
  <2> DEFINE w == [Put(Trip, Keep) EXCEPT !.pickedUpTime = "unset"]
  <2>1. /\ w \in Write /\ w.doc = Trip /\ w.status = Keep
        /\ w.pickedUpTime = "unset"
    BY DEF Put, Write, Doc
  <2> QED BY <2>1, TripWriteOK, KeepHasCause
<1>8. ASSUME op \in {"RECEIPT", "DELIVERED"}
      PROVE  WriteOK([Put(Trip, taskStatus) EXCEPT !.deliveredTime = "unset"])'
  <2> DEFINE w == [Put(Trip, taskStatus) EXCEPT !.deliveredTime = "unset"]
  <2>1. taskType[t] = "DELIVERY"
    BY <1>1, <1>8, TodoTellsTask
  <2>2. TripCause(taskStatus)'
    BY <1>3, <2>1 DEF TripCause, TaskCause, Proven, TaskStatus,
        LIST_TASK_STATUS_CANCELLED, LIST_TRIP_STATUS_FAILED
  <2>3. taskStatus \in TRIP_STATUS
    BY DEF TaskStatus, TRIP_STATUS, LIST_TASK_STATUS_CANCELLED
  <2>4. /\ w \in Write /\ w.doc = Trip /\ w.status = taskStatus
        /\ w.pickedUpTime = Keep
    BY <2>3 DEF Put, Write, Doc
  <2> QED BY <2>2, <2>3, <2>4, TripWriteOK DEF Keep
<1> QED BY <1>1, <1>2, <1>4, <1>5, <1>6, <1>7, <1>8 DEF Restore

\* A request gives up: it ends or rolls back.
LEMMA AbandonStep ==
    ASSUME CauseInv, NEW r \in Slot, NEW left \in SUBSET sent[r], Abandon(r, left),
           DbType', StatusHasCause', UNCHANGED <<started, history>>
    PROVE  CauseInv'
<1>0. CountType'
  BY DEF CauseInv, TypeOK, CountType
<1>1. CASE job[r].todo = None
  BY <1>0, <1>1, ReturnStep DEF Abandon
<1>2. CASE job[r].todo # None
  <2>1. \A w \in Restore(r) : WriteOK(w)'
    BY <1>2, RestoreOK
  <2>2. \A w \in left : WriteOK(w)' /\ w \in Write
    BY Growth DEF CauseInv, WriteOK, history
  <2>3. /\ pc' = [pc EXCEPT ![r] = "restoring"]
        /\ sent' = [sent EXCEPT ![r] = Restore(r)]
        /\ stray' = [stray EXCEPT ![r] = left]
        /\ job' = job /\ seen' = seen /\ started' = started
        /\ asked' = asked /\ proven' = proven
    BY <1>2 DEF Abandon, history
  <2>4. Restore(r) \subseteq Write
    BY <2>1 DEF WriteOK
  <2>5. TypeOK'
    BY <2>2, <2>3, <2>4 DEF CauseInv, TypeOK, DbType, Await
  <2>6. Elsewhere(r)
    BY <2>3 DEF Elsewhere, CauseInv, TypeOK
  <2>7. \A w \in sent'[r] \union stray'[r] : WriteOK(w)'
    BY <2>1, <2>2, <2>3 DEF CauseInv, TypeOK
  <2>8. SnapshotOK(r)'
    BY <2>3, Growth DEF CauseInv, SnapshotOK, TripCause, TaskCause, Proven
  <2>9. ProgressOK(r)'
    BY <1>2, <2>3 DEF CauseInv, TypeOK, ProgressOK
  <2> QED BY <2>3, <2>5, <2>6, <2>7, <2>8, <2>9, SlotStep
<1> QED BY <1>1, <1>2

(***************************************************************************)
(* The todo handlers.                                                      *)
(***************************************************************************)
\* Only an accepted trip is under way.
LEMMA UnderWay ==
    ASSUME CauseInv, trip.status = "DOING"
    PROVE  Proven("ACCEPT_TRIP")
BY DEF CauseInv, StatusHasCause, TripCause

LEMMA SetOffStep ==
    ASSUME CauseInv, NEW r \in Slot, NEW x \in Todo, SetOff(r, x)
    PROVE  CauseInv'
<1>1. Proven("ACCEPT_TRIP") /\ taskOf[x] \in Task /\ todoType[x] = "SET_OFF"
  BY UnderWay, TodoTellsTask DEF SetOff, Active
<1>2. UNCHANGED history
  BY DEF SetOff
<1>3. WriteOK(Put(x, "DONE"))'
  BY PutTodoOK DEF TODO_STATUS
<1>4. WriteOK(Put(taskOf[x], "DOING"))'
  <2>1. TaskCause(taskOf[x], "DOING")'
    BY <1>1, <1>2 DEF TaskCause, Proven, history, LIST_TASK_STATUS_CANCELLED
  <2> QED BY <1>1, <2>1, PutTaskOK DEF TaskStatus
<1>5. BeginTodo(r, x, "updating", {Put(x, "DONE"), Put(taskOf[x], "DOING")})
  BY DEF SetOff
<1> QED BY <1>1, <1>2, <1>3, <1>4, <1>5, BeginTodoStep
        DEF history, HistoryType, Await, CauseInv, TypeOK, Proven

\* The trip's detail status while it stays under way.
LEMMA DoingWrite ==
    ASSUME NEW x \in Todo, Proven("ACCEPT_TRIP")',
           todoType[x] = "PICKED_UP" => Proven("PICKUP")'
    PROVE  WriteOK(updateTripDetailStatus(x, "DOING"))'
<1>1. TripCause("DOING")' /\ "DOING" \in TRIP_STATUS
  BY DEF TripCause, TRIP_STATUS, LIST_TRIP_STATUS_FAILED
<1> QED BY <1>1, updateTripDetailStatusOK

LEMMA RecordTodoStep ==
    ASSUME CauseInv, NEW r \in Slot, NEW x \in Todo,
           todoType[x] \in PickupRecords \union DeliveryRecords,
           RecordTodo(r, x) \/ Summary(r, x)
    PROVE  CauseInv'
<1>1. Proven("ACCEPT_TRIP")
  BY UnderWay DEF RecordTodo, Summary, Active
<1>2. UNCHANGED history
  BY DEF RecordTodo, Summary
<1>3. WriteOK(Put(x, "DONE"))'
  BY PutTodoOK DEF TODO_STATUS
<1>4. WriteOK(Put(Trip, Keep))'
  BY PutTripOK, KeepHasCause
<1>5. WriteOK(updateTripDetailStatus(x, "DOING"))'
  BY <1>1, <1>2, DoingWrite DEF history, Proven, PickupRecords, DeliveryRecords
<1>6. PICK writes \in SUBSET {Put(x, "DONE"), Put(Trip, Keep), updateTripDetailStatus(x, "DOING")} :
            BeginTodo(r, x, "closing", writes)
  BY DEF RecordTodo, Summary
<1>7. \A w \in writes : WriteOK(w)'
  BY <1>3, <1>4, <1>5, <1>6
<1> QED BY <1>1, <1>2, <1>6, <1>7, BeginTodoStep
        DEF history, HistoryType, Await, CauseInv, TypeOK, Proven, PickupRecords, DeliveryRecords

LEMMA ReceiptStep ==
    ASSUME CauseInv, NEW r \in Slot, NEW x \in Todo, Receipt(r, x)
    PROVE  CauseInv'
<1>1. Proven("ACCEPT_TRIP") /\ taskOf[x] \in Task /\ todoType[x] = "RECEIPT"
  BY UnderWay, TodoTellsTask DEF Receipt, Active
<1>2. asked' = asked /\ proven' = proven \union {taskOf[x]}
  BY DEF Receipt, GoAhead
<1>3. Proven("ACCEPT_TRIP")'
  BY <1>1, <1>2 DEF Proven
<1>4. WriteOK(Put(Trip, Keep))'
  BY PutTripOK, KeepHasCause
<1>5. WriteOK(Put(x, "DONE"))'
  BY PutTodoOK DEF TODO_STATUS
<1>6. WriteOK(Put(taskOf[x], "DONE"))'
  BY <1>1, <1>2, TaskDoneHasCause, PutTaskOK
<1>7. BeginTodo(r, x, "updating", {Put(Trip, Keep), Put(x, "DONE"), Put(taskOf[x], "DONE")})
  BY DEF Receipt
<1>8. HistoryType'
  BY <1>1, <1>2 DEF HistoryType, CauseInv, TypeOK
<1> QED BY <1>1, <1>2, <1>3, <1>4, <1>5, <1>6, <1>7, <1>8, BeginTodoStep DEF Await

LEMMA HandOverStep ==
    ASSUME CauseInv, NEW r \in Slot, NEW x \in Todo, HandOver(r, x)
    PROVE  CauseInv'
<1>1. BeginTodo(r, x, "validating", {}) /\ UNCHANGED history
  BY DEF HandOver
<1> QED BY <1>1, BeginTodoStep
        DEF history, HistoryType, Await, CauseInv, TypeOK, StatusHasCause, Proven

LEMMA AcceptTripStep ==
    ASSUME CauseInv, NEW r \in Slot, NEW x \in Todo, AcceptTrip(r, x)
    PROVE  CauseInv'
<1>1. /\ BeginTodo(r, x, "calling", {}) /\ asked' = asked
      /\ proven' = proven \union {taskOf[x]}
  BY DEF AcceptTrip, GoAhead
<1>2. /\ todoType[x] = "ACCEPT_TRIP" /\ taskOf[x] \in Task
      /\ taskType[taskOf[x]] = "ACCEPT_TRIP"
  BY TodoTellsTask DEF AcceptTrip
<1>3. Proven("ACCEPT_TRIP")' /\ HistoryType'
  BY <1>1, <1>2 DEF Proven, HistoryType, CauseInv, TypeOK
<1> QED BY <1>1, <1>2, <1>3, BeginTodoStep DEF Await

LEMMA DispatchStep ==
    ASSUME CauseInv, NEW r \in Slot, NEW x \in Todo, Dispatch(r, x)
    PROVE  CauseInv'
<1>1. CASE AcceptTrip(r, x)
  BY <1>1, AcceptTripStep
<1>2. CASE PickUp(r, x)
  BY <1>2, SetOffStep, RecordTodoStep, HandOverStep DEF PickUp
<1>3. CASE Delivery(r, x)
  BY <1>3, SetOffStep, RecordTodoStep, ReceiptStep, HandOverStep
     DEF Delivery, Summary, DeliveryRecords
<1>4. CASE ReturnTask(r, x)
  BY <1>4, SetOffStep, RecordTodoStep DEF ReturnTask, PickupRecords
<1> QED BY <1>1, <1>2, <1>3, <1>4 DEF Dispatch

\* A handler that goes ahead to finish its task.
LEMMA FinishTaskWrites ==
    ASSUME NEW x \in Todo, taskOf[x] \in proven'
    PROVE  \A w \in DoneWrites(x) : WriteOK(w)'
<1>1. taskOf[x] \in Task
  BY TodoTellsTask
<1>2. WriteOK(Put(x, "DONE"))'
  BY PutTodoOK DEF TODO_STATUS
<1>3. WriteOK(Put(taskOf[x], "DONE"))'
  BY <1>1, TaskDoneHasCause, PutTaskOK
<1> QED BY <1>2, <1>3 DEF DoneWrites

\* A running request of a driver goes on with the snapshot it has.
LEMMA ContinueTodoStep ==
    ASSUME CauseInv, NEW r \in Slot, NEW x \in Todo, job[r].todo = x,
           NEW at \in {"calling", "updating", "closing"}, NEW writes,
           Continue(r, at, writes), seen' = seen, CountType', HistoryType',
           asked \subseteq asked', proven \subseteq proven',
           Proven("ACCEPT_TRIP")',
           \A w \in writes : WriteOK(w)',
           at = "calling" => todoType[x] = "DELIVERED",
           todoType[x] \in {"ACCEPT_TRIP", "PICKED_UP", "RECEIPT", "DELIVERED"}
                => taskOf[x] \in proven'
    PROVE  CauseInv'
<1>1. x # None /\ job[r] = TodoJob(x) /\ seen[r] \in SnapshotSet /\ SnapshotOK(r)
  BY TripAssumption DEF CauseInv, TypeOK, ProgressOK, Doc
<1>2. pc'[r] = at /\ job' = job /\ seen' = [seen EXCEPT ![r] = seen[r]]
  BY DEF Continue, CauseInv, TypeOK
<1>3. SnapshotOK(r)'
  BY <1>1, <1>2, Growth DEF SnapshotOK, TripCause, TaskCause, Proven
<1>4. ProgressOK(r)'
  BY <1>1, <1>2, TodoTellsTask
     DEF CauseInv, ProgressOK, TodoJob, TodoTypes, PickupRecords, DeliveryRecords
<1>5. at \in Await
  BY DEF Await
<1>6. PICK s \in SnapshotSet : s = seen[r]
  BY <1>1
<1> QED BY <1>2, <1>3, <1>4, <1>5, <1>6, ContinueStep

\* The job of a slot that runs a todo handler.
LEMMA TodoOfSlot ==
    ASSUME CauseInv, NEW r \in Slot, job[r].todo # None
    PROVE  \E x \in Todo : /\ job[r].todo = x /\ job[r].op = todoType[x]
                          /\ job[r].task = taskOf[x]
BY DEF CauseInv, TypeOK, ProgressOK, Job, TodoJob

LEMMA ValidateStep ==
    ASSUME CauseInv, NEW r \in Slot, ValidatePickedUp(r) \/ ValidateDelivered(r)
    PROVE  CauseInv'
<1>1. pc[r] = "validating" /\ job[r].todo # None
  BY DEF ValidatePickedUp, ValidateDelivered, CauseInv, ProgressOK
<1>2. PICK x \in Todo : job[r].todo = x /\ job[r].op = todoType[x] /\ job[r].task = taskOf[x]
  BY <1>1, TodoOfSlot
<1>3. Proven("ACCEPT_TRIP") /\ taskOf[x] \in Task
  BY UnderWay, TodoTellsTask DEF ValidatePickedUp, ValidateDelivered, ReadyToHandOver
<1>4. /\ asked' = asked /\ proven' = proven \union {taskOf[x]}
      /\ seen' = seen /\ started' = started
  BY <1>2 DEF ValidatePickedUp, ValidateDelivered, GoAhead
<1>5. Proven("ACCEPT_TRIP")' /\ HistoryType' /\ CountType'
  BY <1>3, <1>4 DEF Proven, HistoryType, CountType, CauseInv, TypeOK
<1>6. CASE ValidatePickedUp(r)
  <2>1. Continue(r, "updating", DoneWrites(x))
    BY <1>2, <1>6 DEF ValidatePickedUp
  <2>2. \A w \in DoneWrites(x) : WriteOK(w)'
    BY <1>4, FinishTaskWrites
  <2> QED BY <1>2, <1>4, <1>5, <2>1, <2>2, ContinueTodoStep
<1>7. CASE ValidateDelivered(r)
  <2>1. Continue(r, "calling", {}) /\ todoType[x] = "DELIVERED"
    BY <1>2, <1>7 DEF ValidateDelivered
  <2> QED BY <1>2, <1>4, <1>5, <2>1, ContinueTodoStep
<1> QED BY <1>6, <1>7

LEMMA CallsReturnStep ==
    ASSUME CauseInv, NEW r \in Slot, CallsReturn(r)
    PROVE  CauseInv'
<1>1. /\ pc[r] = "calling" /\ job[r].todo # None /\ job[r].task \in proven
      /\ job[r].op \in {"ACCEPT_TRIP", "DELIVERED"}
  BY DEF CallsReturn, CauseInv, ProgressOK
<1>2. PICK x \in Todo : job[r].todo = x /\ job[r].op = todoType[x] /\ job[r].task = taskOf[x]
  BY <1>1, TodoOfSlot
<1>3. /\ asked' = asked /\ proven' = proven /\ seen' = seen /\ started' = started
      /\ Continue(r, "updating", DoneWrites(x))
  BY <1>2 DEF CallsReturn, history
<1>4. Proven("ACCEPT_TRIP")'
  BY <1>1, <1>3 DEF CauseInv, StatusHasCause, Proven
<1>5. HistoryType' /\ CountType'
  BY <1>3 DEF HistoryType, CountType, CauseInv, TypeOK
<1>6. \A w \in DoneWrites(x) : WriteOK(w)'
  BY <1>1, <1>2, <1>3, FinishTaskWrites
<1> QED BY <1>1, <1>2, <1>3, <1>4, <1>5, <1>6, ContinueTodoStep

LEMMA CountStep ==
    ASSUME CauseInv, NEW w \in Workflows, UNCHANGED started \/ Count(w)
    PROVE  CountType'
BY DEF CauseInv, TypeOK, CountType, Count, MaxCount

LEMMA AdvanceTripStep ==
    ASSUME CauseInv, NEW r \in Slot, AdvanceTrip(r)
    PROVE  CauseInv'
<1>1. /\ pc[r] = "updating" /\ job[r].op \in {"ACCEPT_TRIP", "SET_OFF", "PICKED_UP"}
      /\ job[r].todo # None
  BY DEF AdvanceTrip, CauseInv, ProgressOK, TodoTypes
<1>2. PICK x \in Todo : job[r].todo = x /\ job[r].op = todoType[x] /\ job[r].task = taskOf[x]
  BY <1>1, TodoOfSlot
<1>3. /\ asked' = asked /\ proven' = proven /\ seen' = seen
      /\ Continue(r, "closing", {updateTripDetailStatus(x, "DOING")})
  BY <1>2 DEF AdvanceTrip, history
<1>4. /\ Proven("ACCEPT_TRIP")'
      /\ todoType[x] \in {"ACCEPT_TRIP", "PICKED_UP", "RECEIPT", "DELIVERED"}
            => taskOf[x] \in proven'
  BY <1>1, <1>2, <1>3 DEF CauseInv, ProgressOK, Proven
<1>5. todoType[x] = "PICKED_UP" => Proven("PICKUP")'
  BY <1>4, TodoTellsTask DEF Proven
<1>6. WriteOK(updateTripDetailStatus(x, "DOING"))'
  BY <1>4, <1>5, DoingWrite
<1>7. CountType' /\ HistoryType'
  BY <1>3, CountStep DEF AdvanceTrip, Workflows, HistoryType, CauseInv, TypeOK
<1> QED BY <1>2, <1>3, <1>4, <1>6, <1>7, ContinueTodoStep

LEMMA CompleteDeliveryStep ==
    ASSUME CauseInv, NEW r \in Slot, CompleteDelivery(r)
    PROVE  CauseInv'
<1>1. /\ pc[r] = "updating" /\ job[r].op \in {"RECEIPT", "DELIVERED"}
      /\ job[r].todo # None
  BY DEF CompleteDelivery, CauseInv, ProgressOK, TodoTypes
<1>2. PICK x \in Todo : job[r].todo = x /\ job[r].op = todoType[x] /\ job[r].task = taskOf[x]
  BY <1>1, TodoOfSlot
<1>3. PICK s : s = TripStatusAfterDelivery
  OBVIOUS
<1>4. /\ asked' = asked /\ proven' = proven /\ seen' = seen /\ started' = started
      /\ Continue(r, "closing", {updateTripDetailStatus(x, s)})
  BY <1>2, <1>3 DEF CompleteDelivery, history
<1>5. Proven("ACCEPT_TRIP") /\ taskOf[x] \in proven /\ taskType[taskOf[x]] = "DELIVERY"
  BY <1>1, <1>2, TodoTellsTask DEF CauseInv, ProgressOK
<1>6. s \in {"DOING", "DONE"} \/ (s = "PARTIAL_DONE" /\ isSomeTaskCancelled(task))
  BY <1>3 DEF TripStatusAfterDelivery, getTripStatus, isTripStatusCancelled, LIST_TRIP_STATUS_FAILED
<1>7. isSomeTaskCancelled(task) => asked # {}
  BY DEF CauseInv, TypeOK, StatusHasCause, TaskCause, isSomeTaskCancelled
<1>8. s \in TRIP_STATUS /\ TripCause(s)'
  BY <1>4, <1>5, <1>6, <1>7 DEF TRIP_STATUS, TripCause, Proven, LIST_TRIP_STATUS_FAILED
<1>9. WriteOK(updateTripDetailStatus(x, s))'
  BY <1>1, <1>2, <1>8, updateTripDetailStatusOK
<1>10. CountType' /\ HistoryType' /\ Proven("ACCEPT_TRIP")' /\ taskOf[x] \in proven'
  BY <1>4, <1>5 DEF HistoryType, CountType, CauseInv, TypeOK, Proven
<1> QED BY <1>2, <1>4, <1>9, <1>10, ContinueTodoStep

(***************************************************************************)
(* Cancellation.                                                           *)
(***************************************************************************)
LEMMA CancelHasCause ==
    ASSUME NEW t \in Task, NEW s \in CancelStatus, s \in asked'
    PROVE  WriteOK(Put(t, s))'
<1>1. s \in LIST_TASK_STATUS_CANCELLED
  BY EnvironmentAssumption
<1>2. s \in TaskStatus /\ TaskCause(t, s)'
  BY <1>1 DEF TaskStatus, TaskCause, LIST_TASK_STATUS_CANCELLED
<1> QED BY <1>2, PutTaskOK

LEMMA CancelStep ==
    ASSUME CauseInv, NEW r \in Slot, NEW s \in CancelStatus, Cancel(r, s)
    PROVE  CauseInv'
<1>1. PICK op \in {"CANCEL_TASK", "CANCEL_TRIP"}, t \in Task \union {None}, T \in SUBSET Task :
        /\ Begin(r, [op |-> op, todo |-> None, task |-> t, status |-> s],
                 NoSnapshot, "updating", {Put(u, s) : u \in T})
        /\ asked' = asked \union {s} /\ proven' = proven
  <2>1. ASSUME CancelTrip(r, s)
        PROVE  \E T \in SUBSET Task :
               /\ Begin(r, [op |-> "CANCEL_TRIP", todo |-> None, task |-> None, status |-> s],
                        NoSnapshot, "updating", {Put(u, s) : u \in T})
               /\ asked' = asked \union {s} /\ proven' = proven
    <3>1. ActiveTasks \in SUBSET Task
      BY DEF ActiveTasks
    <3> QED BY <2>1, <3>1 DEF CancelTrip
  <2>2. ASSUME NEW t \in Task, CancelTask(r, t, s)
        PROVE  Begin(r, [op |-> "CANCEL_TASK", todo |-> None, task |-> t, status |-> s],
                     NoSnapshot, "updating", {Put(u, s) : u \in {t}})
               /\ asked' = asked \union {s} /\ proven' = proven
    <3>1. {Put(u, s) : u \in {t}} = {Put(t, s)}
      OBVIOUS
    <3> QED BY <2>2, <3>1 DEF CancelTask
  <2>3. CASE CancelTrip(r, s)
    BY <2>1, <2>3
  <2>4. CASE \E t \in Task : CancelTask(r, t, s)
    <3>1. PICK t \in Task : CancelTask(r, t, s)
      BY <2>4
    <3>2. {t} \in SUBSET Task
      OBVIOUS
    <3> QED BY <2>2, <3>1, <3>2
  <2> QED BY <2>3, <2>4 DEF Cancel
<1> DEFINE j == [op |-> op, todo |-> None, task |-> t, status |-> s]
<1>2. j \in Job /\ NoSnapshot \in SnapshotSet
  BY DEF Job, Ops, NoSnapshot, SnapshotSet
<1>3. \A w \in {Put(u, s) : u \in T} : WriteOK(w)'
  BY <1>1, CancelHasCause
<1>4. pc'[r] = "updating" /\ job'[r] = j
  BY <1>1 DEF Begin, CauseInv, TypeOK
<1>5. SnapshotOK(r)' /\ ProgressOK(r)'
  BY <1>1, <1>4 DEF SnapshotOK, ProgressOK, TodoTypes, PickupRecords, DeliveryRecords
<1>6. HistoryType' /\ (proven' # {} => Proven("ACCEPT_TRIP")')
  BY <1>1 DEF HistoryType, CauseInv, TypeOK, StatusHasCause, Proven
<1> QED BY <1>1, <1>2, <1>3, <1>5, <1>6, BeginStep DEF Await

LEMMA CloseStep ==
    ASSUME CauseInv, NEW r \in Slot, CloseCancelledTask(r) \/ CloseCancelledTrip(r)
    PROVE  CauseInv'
<1>1. /\ job[r].op \in {"CANCEL_TASK", "CANCEL_TRIP"} /\ job[r].todo = None
      /\ job[r].status \in asked
  <2>1. job[r].op \in {"CANCEL_TASK", "CANCEL_TRIP"} /\ ProgressOK(r)
    BY DEF CloseCancelledTask, CloseCancelledTrip, CauseInv
  <2>2. job[r].op \notin TodoTypes
    BY <2>1 DEF TodoTypes, PickupRecords, DeliveryRecords
  <2>3. job[r].todo = None
    BY <2>2, TodoOfSlot, TodoTellsTask
  <2> QED BY <2>1, <2>3 DEF ProgressOK
<1>2. PICK s \in {Keep, getTripStatus(task, taskType, job[r].status)} : Close(r, s)
  BY DEF CloseCancelledTask, CloseCancelledTrip
<1>3. asked' = asked /\ proven' = proven /\ started' = started
  BY <1>2 DEF Close, history
<1>4. job[r].status \in LIST_TASK_STATUS_CANCELLED
  BY <1>1, EnvironmentAssumption DEF CauseInv, TypeOK
<1>5. isSomeTaskDelivered(task, taskType) => Proven("DELIVERY")
  BY DEF CauseInv, TypeOK, StatusHasCause, TaskCause, Proven, isSomeTaskDelivered, isTaskDelivery
<1>6. s \in TRIP_STATUS \union {Keep} /\ TripCause(s)'
  BY <1>1, <1>2, <1>3, <1>4, <1>5
     DEF getTripStatus, TRIP_STATUS, TripCause, Proven, Keep,
         LIST_TASK_STATUS_CANCELLED, LIST_TRIP_STATUS_FAILED
<1>7. WriteOK(Put(Trip, s))'
  BY <1>6, PutTripOK
<1>8. PICK n \in SnapshotSet : seen' = [seen EXCEPT ![r] = n]
  <2>1. [seen[r] EXCEPT !.trip = s] \in SnapshotSet
    BY <1>6 DEF SnapshotSet, CauseInv, TypeOK
  <2>2. seen' = [seen EXCEPT ![r] = [seen[r] EXCEPT !.trip = s]]
    BY <1>2 DEF Close, CauseInv, TypeOK
  <2> QED BY <2>1, <2>2
<1>9. job' = job /\ pc'[r] = "closing" /\ Continue(r, "closing", {Put(Trip, s)})
  BY <1>2 DEF Close, Continue, CauseInv, TypeOK
<1>10. SnapshotOK(r)' /\ ProgressOK(r)'
  BY <1>1, <1>3, <1>9 DEF SnapshotOK, ProgressOK, TodoTypes, PickupRecords, DeliveryRecords
<1>11. HistoryType' /\ CountType' /\ (proven' # {} => Proven("ACCEPT_TRIP")')
  BY <1>3 DEF HistoryType, CountType, CauseInv, TypeOK, StatusHasCause, Proven
<1>12. \A w \in {Put(Trip, s)} : WriteOK(w)'
  BY <1>7
<1>13. "closing" \in Await /\ asked \subseteq asked' /\ proven \subseteq proven'
  BY <1>3 DEF Await
<1> QED BY <1>8, <1>9, <1>10, <1>11, <1>12, <1>13, ContinueStep

(***************************************************************************)
(* The ends of requests, errors and landing writes.                        *)
(***************************************************************************)
LEMMA EndStep ==
    ASSUME CauseInv, NEW r \in Slot,
           \/ RefuseHandOver(r) \/ RefuseAccept(r) \/ FinishAccept(r)
           \/ FinishTodo(r) \/ FinishCancel(r) \/ Restored(r)
    PROVE  CauseInv'
<1>1. PICK left \in SUBSET (sent[r] \union stray[r]) : Return(r, left)
  BY DEF RefuseHandOver, RefuseAccept, FinishAccept, FinishTodo, FinishCancel, Restored
<1>2. UNCHANGED db /\ UNCHANGED history
  BY DEF RefuseHandOver, RefuseAccept, FinishAccept, FinishTodo, FinishCancel, Restored
<1>3. CountType'
  BY CountStep
     DEF RefuseHandOver, RefuseAccept, FinishAccept, FinishTodo, FinishCancel, Restored, Workflows
<1>4. DbType' /\ StatusHasCause'
  BY <1>2, SameDocuments DEF db, history, DbType, CauseInv, TypeOK, StatusHasCause, Proven
<1> QED BY <1>1, <1>2, <1>3, <1>4, ReturnStep

LEMMA FaultStep ==
    ASSUME CauseInv, NEW r \in Slot, WriteFails(r) \/ AckLost(r) \/ CallFails(r)
    PROVE  CauseInv'
<1>1. CASE WriteFails(r) \/ CallFails(r)
  <2>1. UNCHANGED db /\ UNCHANGED <<started, history>>
    BY <1>1 DEF WriteFails, CallFails
  <2>2. PICK left \in SUBSET sent[r] : Abandon(r, left)
    BY <1>1 DEF WriteFails, CallFails
  <2>3. DbType' /\ StatusHasCause'
    BY <2>1, SameDocuments DEF db, history, DbType, CauseInv, TypeOK, StatusHasCause, Proven
  <2> QED BY <2>1, <2>2, <2>3, AbandonStep
<1>2. CASE AckLost(r)
  <2>1. PICK w \in sent[r] : Apply(w) /\ Abandon(r, sent[r] \ {w})
    BY <1>2 DEF AckLost
  <2>2. UNCHANGED <<started, history>>
    BY <1>2 DEF AckLost
  <2>3. WriteOK(w)
    BY DEF CauseInv
  <2>4. DbType' /\ StatusHasCause'
    BY <2>1, <2>2, <2>3, ApplyStep
  <2>5. sent[r] \ {w} \in SUBSET sent[r]
    OBVIOUS
  <2> QED BY <2>1, <2>2, <2>4, <2>5, AbandonStep
<1> QED BY <1>1, <1>2

LEMMA RestoreFailsStep ==
    ASSUME CauseInv, NEW r \in Slot, RestoreFails(r)
    PROVE  CauseInv'
<1>1. PICK w \in sent[r] : sent' = [sent EXCEPT ![r] = @ \ {w}]
  BY DEF RestoreFails
<1>2. UNCHANGED <<db, pc, job, seen, stray, started, history>>
  BY DEF RestoreFails
<1>3. TypeOK'
  BY <1>1, <1>2 DEF CauseInv, TypeOK, db, history
<1>4. StatusHasCause'
  BY <1>2, SameDocuments DEF history, CauseInv, StatusHasCause, Proven
<1>5. Elsewhere(r)
  BY <1>1, <1>2 DEF Elsewhere, CauseInv, TypeOK
<1>6. \A v \in sent'[r] \union stray'[r] : WriteOK(v)'
  BY <1>1, <1>2, Growth DEF CauseInv, TypeOK, history
<1>7. SnapshotOK(r)' /\ ProgressOK(r)'
  BY <1>2 DEF CauseInv, SnapshotOK, ProgressOK, TripCause, TaskCause, Proven, history
<1> QED BY <1>2, <1>3, <1>4, <1>5, <1>6, <1>7, SlotStep DEF history

LEMMA LandStep ==
    ASSUME CauseInv, NEW r \in Slot, Land(r) \/ LandStray(r)
    PROVE  CauseInv'
<1>1. PICK w \in sent[r] \union stray[r] :
        /\ Apply(w)
        /\ \/ sent' = [sent EXCEPT ![r] = @ \ {w}] /\ stray' = stray
           \/ stray' = [stray EXCEPT ![r] = @ \ {w}] /\ sent' = sent
  BY DEF Land, LandStray
<1>2. UNCHANGED <<pc, job, seen, started, history>>
  BY DEF Land, LandStray
<1>3. WriteOK(w)
  BY DEF CauseInv
<1>4. DbType' /\ StatusHasCause'
  BY <1>1, <1>2, <1>3, ApplyStep
<1>5. TypeOK'
  BY <1>1, <1>2, <1>4 DEF CauseInv, TypeOK, DbType, history
<1>6. Elsewhere(r)
  BY <1>1, <1>2 DEF Elsewhere, CauseInv, TypeOK
<1>7. \A v \in sent'[r] \union stray'[r] : WriteOK(v)'
  BY <1>1, <1>2, Growth DEF CauseInv, TypeOK, history
<1>8. SnapshotOK(r)' /\ ProgressOK(r)'
  BY <1>2 DEF CauseInv, SnapshotOK, ProgressOK, TripCause, TaskCause, Proven, history
<1> QED BY <1>2, <1>4, <1>5, <1>6, <1>7, <1>8, SlotStep DEF history

(***************************************************************************)
(* The invariant.                                                          *)
(***************************************************************************)
LEMMA CauseInit == Init => CauseInv
<1> SUFFICES ASSUME Init PROVE CauseInv
  OBVIOUS
<1>1. NoJob \in Job /\ NoSnapshot \in SnapshotSet
  BY DEF NoJob, Job, Ops, NoSnapshot, SnapshotSet
<1>2. TypeOK
  BY <1>1 DEF Init, TypeOK, TRIP_STATUS, TaskStatus, TODO_STATUS, Times, Await, MaxCount
<1>3. StatusHasCause
  BY DEF Init, StatusHasCause, TripCause, TaskCause, LIST_TRIP_STATUS_FAILED,
         LIST_TASK_STATUS_CANCELLED
<1>4. ASSUME NEW r \in Slot
      PROVE  /\ \A w \in sent[r] \union stray[r] : WriteOK(w)
             /\ SnapshotOK(r) /\ ProgressOK(r)
  BY DEF Init, SnapshotOK, ProgressOK, NoJob, TodoTypes, PickupRecords, DeliveryRecords
<1> QED BY <1>2, <1>3, <1>4 DEF CauseInv

LEMMA CauseStutter == CauseInv /\ UNCHANGED vars => CauseInv'
BY DEF CauseInv, TypeOK, StatusHasCause, TripCause, TaskCause, Proven, WriteOK, SnapshotOK,
       ProgressOK, vars, db, history

LEMMA CauseNext == CauseInv /\ [Next]_vars => CauseInv'
<1> SUFFICES ASSUME CauseInv, [Next]_vars PROVE CauseInv'
  OBVIOUS
<1>1. CASE UNCHANGED vars
  BY <1>1, CauseStutter
<1>2. CASE Next
  <2> PICK r \in Slot :
        \/ \E x \in Todo : Dispatch(r, x)
        \/ \E s \in CancelStatus : Cancel(r, s)
        \/ Handle(r) \/ Fault(r) \/ Land(r) \/ LandStray(r)
    BY <1>2 DEF Next
  <2>1. CASE \E x \in Todo : Dispatch(r, x)
    BY <2>1, DispatchStep
  <2>2. CASE \E s \in CancelStatus : Cancel(r, s)
    BY <2>2, CancelStep
  <2>3. CASE Handle(r)
    BY <2>3, ValidateStep, CallsReturnStep, AdvanceTripStep, CompleteDeliveryStep, CloseStep,
       EndStep DEF Handle
  <2>4. CASE Fault(r)
    BY <2>4, FaultStep, RestoreFailsStep DEF Fault
  <2>5. CASE Land(r) \/ LandStray(r)
    BY <2>5, LandStep
  <2> QED BY <2>1, <2>2, <2>3, <2>4, <2>5
<1> QED BY <1>1, <1>2

\* The strengthened invariant holds in every reachable state.
THEOREM CauseInvariant == Spec => []CauseInv
<1>1. Init => CauseInv
  BY CauseInit
<1>2. CauseInv /\ [Next]_vars => CauseInv'
  BY CauseNext
<1> QED BY <1>1, <1>2, PTL DEF Spec

\* Every document keeps to its enum, whatever the handlers and their catch
\* blocks write back.
THEOREM TypeCorrect == Spec => []TypeOK
<1>1. CauseInv => TypeOK
  BY DEF CauseInv
<1> QED BY <1>1, CauseInvariant, PTL

\* No interleaving, fault, rollback or late write gives a trip or a task a
\* status that nobody asked for or nobody went ahead to reach.
THEOREM StatusesHaveCauses == Spec => []StatusHasCause
<1>1. CauseInv => StatusHasCause
  BY DEF CauseInv
<1> QED BY <1>1, CauseInvariant, PTL

\* The todos that complete a pickup or a delivery.
HandOvers == {"PICKED_UP", "DELIVERED"}

(***************************************************************************)
(* What the parts of an action do to the slot that takes it.               *)
(***************************************************************************)
LEMMA BeginEffect ==
    ASSUME NEW r \in Slot, TypeOK, NEW j, NEW s, NEW at, NEW writes, Begin(r, j, s, at, writes)
    PROVE  /\ pc[r] = "idle" /\ stray[r] = {}
           /\ pc'[r] = at /\ job'[r] = j /\ seen'[r] = s /\ sent'[r] = writes /\ stray'[r] = {}
           /\ trip' = trip /\ task' = task /\ todo' = todo /\ started' = started
BY DEF TypeOK, Begin, db

LEMMA ContinueEffect ==
    ASSUME NEW r \in Slot, TypeOK, NEW at, NEW writes, Continue(r, at, writes)
    PROVE  /\ pc'[r] = at /\ job'[r] = job[r] /\ sent'[r] = writes /\ stray'[r] = stray[r]
           /\ trip' = trip /\ task' = task /\ todo' = todo
BY DEF TypeOK, Continue, db

LEMMA ReturnEffect ==
    ASSUME NEW r \in Slot, TypeOK, NEW left, Return(r, left)
    PROVE  /\ pc'[r] = "idle" /\ job'[r] = NoJob /\ sent'[r] = {} /\ stray'[r] = left
BY DEF TypeOK, Return

LEMMA AbandonEffect ==
    ASSUME NEW r \in Slot, TypeOK, NEW left, Abandon(r, left), job[r].todo # None
    PROVE  /\ pc'[r] = "restoring" /\ job'[r] = job[r] /\ seen'[r] = seen[r]
           /\ sent'[r] = Restore(r) /\ stray'[r] = left
BY DEF TypeOK, Abandon

\* A write changes the document it names.
LEMMA PutFields ==
    ASSUME NEW d, NEW s
    PROVE  Put(d, s).doc = d /\ Put(d, s).status = s
BY DEF Put

LEMMA ApplyToTodo ==
    ASSUME TypeOK, NEW x \in Todo, NEW s, Apply(Put(x, s))
    PROVE  trip' = trip /\ task' = task /\ todo' = [todo EXCEPT ![x] = s]
<1>1. x # Trip /\ x \notin Task
  BY TripAssumption
<1> QED BY <1>1 DEF Apply, Put, TypeOK

LEMMA ApplyToTask ==
    ASSUME TypeOK, NEW t \in Task, NEW s, Apply(Put(t, s))
    PROVE  trip' = trip /\ todo' = todo /\ task' = [task EXCEPT ![t] = s]
<1>1. t # Trip /\ t \notin Todo
  BY TripAssumption
<1> QED BY <1>1 DEF Apply, Put, TypeOK

LEMMA ApplyToTrip ==
    ASSUME TypeOK, NEW w, w.doc = Trip, Apply(w)
    PROVE  /\ task' = task /\ todo' = todo
           /\ trip'.status = IF w.status = Keep THEN trip.status ELSE w.status
<1>1. Trip \notin Task /\ Trip \notin Todo
  BY TripAssumption
<1> QED BY <1>1 DEF Apply, TypeOK, Merge

(***************************************************************************)
(* Cancellations, while no handler has gone ahead with a todo.             *)
(*                                                                         *)
(* LastCancelClosesTrip is not inductive: between the write of the last    *)
(* task and that of the trip nobody is quiet.  A cancellation answers for  *)
(* the trip from when it begins to when its write of the trip lands; it    *)
(* reads the trip after its own writes, so it sees that no task is open.   *)
(* A handler that has not gone ahead has written nothing: it either waits  *)
(* for its check or was turned away, since no trip is under way.           *)
(***************************************************************************)
\* The database takes and acknowledges every write, and a cancellation can
\* read what it wrote.
WritesSucceed == Faults \subseteq {"call", "restore"} /\ Task # {}

\* Slot r will close the trip, or is about to find out whether it has to.
Answers(r) ==
    \/ pc[r] = "updating"
    \/ pc[r] = "closing" /\ \E w \in sent[r] : w.doc = Trip /\ isTripStatusCompleted(w.status)

CancelSlot(r) ==
    /\ pc[r] \in {"idle", "validating", "updating", "closing"} /\ stray[r] = {}
    /\ pc[r] \in {"idle", "validating"} => sent[r] = {}
    /\ pc[r] \in {"updating", "closing"} => job[r].todo = None
    /\ pc[r] = "updating" => \A w \in sent[r] : \E t \in Task, s \in CancelStatus : w = Put(t, s)
    /\ pc[r] = "closing" => \A w \in sent[r] :
            w.doc = Trip /\ (isTripStatusCompleted(w.status) \/ w.status = Keep)

Answered ==
    isAllTaskCompleted(task) =>
        isTripStatusCompleted(trip.status) \/ \E r \in Slot : Answers(r)

CancelInv == CauseInv /\ (proven = {} => (\A r \in Slot : CancelSlot(r)) /\ Answered)

\* A cancellation closes the trip with a completed status.
LEMMA CancelCloses ==
    ASSUME NEW s \in CancelStatus
    PROVE  /\ isTripStatusCompleted(getTripStatus(task, taskType, s))
           /\ s \in TASK_STATUS_COMPLETED
BY EnvironmentAssumption
   DEF getTripStatus, isTripStatusCompleted, TRIP_STATUS_COMPLETED, LIST_TRIP_STATUS_FAILED,
       LIST_TASK_STATUS_CANCELLED, TASK_STATUS_COMPLETED

\* What a step of slot r keeps.
CancelKept(r) == Elsewhere(r) /\ CancelSlot(r)' /\ Answered'

\* No trip is under way, so every request of a todo that begins waits for
\* the check of its hand-over.
LEMMA TodoWaits ==
    ASSUME CancelInv, NEW r \in Slot, NEW x \in Todo, Dispatch(r, x), proven = {}, proven' = {}
    PROVE  CancelKept(r)
<1> TypeOK /\ CauseInv /\ Answered
  BY DEF CancelInv, CauseInv
<1>1. trip.status # "DOING"
  BY UnderWay DEF Proven
<1>2. ~AcceptTrip(r, x)
  BY DEF AcceptTrip, GoAhead
<1>3. HandOver(r, x)
  BY <1>1, <1>2 DEF Dispatch, PickUp, Delivery, ReturnTask, SetOff, RecordTodo, Summary,
     Receipt, Active
<1>4. Begin(r, TodoJob(x), Snapshot(x), "validating", {})
  BY <1>3 DEF HandOver, BeginTodo
<1>5. /\ pc[r] = "idle" /\ pc'[r] = "validating" /\ sent'[r] = {} /\ stray'[r] = {}
      /\ trip' = trip /\ task' = task
  BY <1>4, BeginEffect
<1>6. Elsewhere(r)
  BY <1>4 DEF Elsewhere, Begin, TypeOK
<1>7. CancelSlot(r)'
  BY <1>5 DEF CancelSlot
<1>8. \A q \in Slot : Answers(q) => Answers(q)'
  BY <1>5, <1>6 DEF Elsewhere, Answers
<1> QED BY <1>5, <1>6, <1>7, <1>8 DEF Answered, CancelKept

\* Completed documents stay completed, and no slot stops answering before the
\* trip is closed.
LEMMA CancelBegins ==
    ASSUME CancelInv, NEW r \in Slot, NEW s \in CancelStatus, Cancel(r, s)
    PROVE  CancelKept(r)
<1> TypeOK
  BY DEF CancelInv, CauseInv
<1>1. PICK j, writes :
        /\ j.todo = None
        /\ Begin(r, j, NoSnapshot, "updating", writes)
        /\ \A w \in writes : \E t \in Task : w = Put(t, s)
  <2>1. CASE CancelTrip(r, s)
    BY <2>1 DEF CancelTrip, ActiveTasks
  <2>2. CASE \E t \in Task : CancelTask(r, t, s)
    BY <2>2 DEF CancelTask
  <2> QED BY <2>1, <2>2 DEF Cancel
<1>2. /\ pc'[r] = "updating" /\ job'[r] = j /\ sent'[r] = writes /\ stray'[r] = {}
  BY <1>1, BeginEffect
<1>3. Elsewhere(r)
  BY <1>1 DEF Elsewhere, Begin, TypeOK
<1>4. CancelSlot(r)'
  BY <1>1, <1>2 DEF CancelSlot
<1> QED BY <1>2, <1>3, <1>4 DEF Answered, Answers, CancelKept

LEMMA CancelHandled ==
    ASSUME CancelInv, NEW r \in Slot, Handle(r), proven = {}, proven' = {}
    PROVE  CancelKept(r)
<1> TypeOK /\ CancelSlot(r) /\ ProgressOK(r) /\ Answered
  BY DEF CancelInv, CauseInv
<1>1. pc[r] \in {"updating", "closing"} => job[r].op \notin TodoTypes
  BY DEF CancelSlot, ProgressOK
<1>2. ~ValidatePickedUp(r) /\ ~ValidateDelivered(r)
  BY DEF ValidatePickedUp, ValidateDelivered, GoAhead
<1>5. \/ CloseCancelledTask(r) \/ CloseCancelledTrip(r) \/ FinishCancel(r)
      \/ RefuseHandOver(r)
  BY <1>1, <1>2 DEF Handle, CallsReturn, RefuseAccept, AdvanceTrip, CompleteDelivery,
     FinishAccept, FinishTodo, Restored, CancelSlot, TodoTypes
<1>3. CASE CloseCancelledTask(r) \/ CloseCancelledTrip(r)
  <2>1. PICK q \in {Keep, getTripStatus(task, taskType, job[r].status)} :
            Close(r, q) /\ (isAllTaskCompleted(task) => q # Keep)
    <3>1. Keep # getTripStatus(task, taskType, job[r].status)
      <4>1. job[r].status \in CancelStatus \union {Keep} /\ job[r].op \in {"CANCEL_TASK", "CANCEL_TRIP"}
        BY <1>3 DEF TypeOK, Job, CloseCancelledTask, CloseCancelledTrip
      <4>2. job[r].status \in asked
        BY <4>1 DEF ProgressOK
      <4>3. job[r].status \in CancelStatus
        BY <4>2 DEF TypeOK
      <4> QED BY <4>3, CancelCloses
            DEF isTripStatusCompleted, TRIP_STATUS_COMPLETED, LIST_TRIP_STATUS_FAILED, Keep
    <3> QED BY <1>3, <3>1 DEF CloseCancelledTask, CloseCancelledTrip
  <2>2. q = Keep \/ isTripStatusCompleted(q)
    <3>1. job[r].op \in {"CANCEL_TASK", "CANCEL_TRIP"}
      BY <1>3 DEF CloseCancelledTask, CloseCancelledTrip
    <3>2. job[r].status \in CancelStatus
      BY <3>1 DEF ProgressOK, TypeOK
    <3> QED BY <2>1, <3>2, CancelCloses
  <2>3. /\ pc[r] = "updating" /\ pc'[r] = "closing" /\ job'[r] = job[r]
        /\ sent'[r] = {Put(Trip, q)} /\ stray'[r] = stray[r]
        /\ trip' = trip /\ task' = task
    BY <2>1, ContinueEffect DEF Close
  <2>4. Elsewhere(r)
    BY <2>1 DEF Elsewhere, Close, Continue, TypeOK
  <2>5. Put(Trip, q).doc = Trip /\ Put(Trip, q).status = q
    BY PutFields
  <2>6. CancelSlot(r)'
    BY <2>2, <2>3, <2>5 DEF CancelSlot
  <2>7. isAllTaskCompleted(task) => Answers(r)'
    BY <2>1, <2>2, <2>3, <2>5 DEF Answers
  <2> QED BY <2>3, <2>4, <2>6, <2>7 DEF Answered, CancelKept
<1>4. CASE FinishCancel(r) \/ RefuseHandOver(r)
  <2>1. /\ pc[r] \in {"closing", "validating"} /\ sent[r] = {} /\ Return(r, {})
        /\ trip' = trip /\ task' = task
    BY <1>4 DEF FinishCancel, RefuseHandOver, CancelSlot, db
  <2>2. pc'[r] = "idle" /\ sent'[r] = {} /\ stray'[r] = {}
    BY <2>1, ReturnEffect
  <2>3. Elsewhere(r)
    BY <2>1 DEF Elsewhere, Return, TypeOK
  <2>4. CancelSlot(r)'
    BY <2>2 DEF CancelSlot
  <2>5. \A q \in Slot : Answers(q) => Answers(q)'
    BY <2>1, <2>3 DEF Elsewhere, Answers
  <2> QED BY <2>1, <2>3, <2>4, <2>5 DEF Answered, CancelKept
<1> QED BY <1>3, <1>4, <1>5

LEMMA CancelLands ==
    ASSUME CancelInv, NEW r \in Slot, Land(r) \/ LandStray(r), proven = {}
    PROVE  CancelKept(r)
<1> TypeOK /\ CancelSlot(r) /\ Answered
  BY DEF CancelInv, CauseInv
<1>1. Land(r)
  BY DEF LandStray, CancelSlot
<1>2. PICK w \in sent[r] : Apply(w) /\ sent' = [sent EXCEPT ![r] = @ \ {w}]
  BY <1>1 DEF Land
<1>3. pc' = pc /\ job' = job /\ seen' = seen /\ stray' = stray /\ sent'[r] = sent[r] \ {w}
  BY <1>1, <1>2 DEF Land, TypeOK
<1>4. Elsewhere(r)
  BY <1>2, <1>3 DEF Elsewhere, TypeOK
<1>5. CancelSlot(r)'
  BY <1>3 DEF CancelSlot
<1>6. CASE pc[r] = "updating"
  <2>1. Answers(r)'
    BY <1>3, <1>6 DEF Answers
  <2> QED BY <1>4, <1>5, <2>1 DEF Answered, CancelKept
<1>7. CASE pc[r] = "closing"
  <2>1. w.doc = Trip /\ (isTripStatusCompleted(w.status) \/ w.status = Keep)
    BY <1>7 DEF CancelSlot
  <2>2. /\ task' = task
        /\ trip'.status = IF w.status = Keep THEN trip.status ELSE w.status
    BY <1>2, <2>1, ApplyToTrip
  <2>3. CASE isTripStatusCompleted(w.status) /\ w.status # Keep
    BY <1>4, <1>5, <2>2, <2>3 DEF Answered, CancelKept
  <2>4. CASE w.status = Keep
    <3>1. ~isTripStatusCompleted(Keep)
      BY DEF isTripStatusCompleted, TRIP_STATUS_COMPLETED, LIST_TRIP_STATUS_FAILED, Keep
    <3>2. \A q \in Slot : Answers(q) => Answers(q)'
      BY <1>3, <1>4, <2>4, <3>1 DEF Answers, Elsewhere
    <3> QED BY <1>4, <1>5, <2>2, <2>4, <3>2 DEF Answered, CancelKept
  <2> QED BY <2>1, <2>3, <2>4
<1> QED BY <1>2, <1>6, <1>7 DEF CancelSlot

\* Nobody goes back on going ahead.
LEMMA ProvenGrows ==
    ASSUME [Next]_vars
    PROVE  proven \subseteq proven'
<1>1. CASE UNCHANGED vars
  BY <1>1 DEF vars, history
<1>2. CASE Next
  <2> PICK r \in Slot :
        \/ \E x \in Todo : Dispatch(r, x)
        \/ \E s \in CancelStatus : Cancel(r, s)
        \/ Handle(r) \/ Fault(r) \/ Land(r) \/ LandStray(r)
    BY <1>2 DEF Next
  <2>1. CASE \E x \in Todo : Dispatch(r, x)
    BY <2>1 DEF Dispatch, AcceptTrip, PickUp, Delivery, ReturnTask, SetOff, RecordTodo, Summary,
       Receipt, HandOver, GoAhead, history
  <2>2. CASE \E s \in CancelStatus : Cancel(r, s)
    BY <2>2 DEF Cancel, CancelTrip, CancelTask
  <2>3. CASE Handle(r)
    BY <2>3 DEF Handle, ValidatePickedUp, ValidateDelivered, RefuseHandOver, CallsReturn,
       RefuseAccept, AdvanceTrip, CompleteDelivery, CloseCancelledTask, CloseCancelledTrip, Close,
       FinishAccept, FinishTodo, FinishCancel, Restored, GoAhead, history
  <2>4. CASE Fault(r)
    BY <2>4 DEF Fault, WriteFails, AckLost, CallFails, RestoreFails, history
  <2>5. CASE Land(r) \/ LandStray(r)
    BY <2>5 DEF Land, LandStray, history
  <2> QED BY <2>1, <2>2, <2>3, <2>4, <2>5
<1> QED BY <1>1, <1>2

LEMMA CancelNext ==
    ASSUME WritesSucceed, CancelInv, [Next]_vars
    PROVE  CancelInv'
<1>1. CauseInv' /\ proven \subseteq proven'
  BY CauseNext, ProvenGrows DEF CancelInv
<1>2. CASE UNCHANGED vars
  <2>1. /\ trip' = trip /\ task' = task /\ pc' = pc /\ job' = job /\ sent' = sent
        /\ stray' = stray /\ proven' = proven
    BY <1>2 DEF vars, db, history
  <2> QED BY <1>1, <2>1 DEF CancelInv, CancelSlot, Answered, Answers
<1>3. CASE Next /\ proven' = {}
  <2>1. proven = {} /\ \A q \in Slot : CancelSlot(q) /\ ProgressOK(q)
    BY <1>1, <1>3 DEF CancelInv, CauseInv
  <2>2. PICK r \in Slot :
            \/ \E x \in Todo : Dispatch(r, x)
            \/ \E s \in CancelStatus : Cancel(r, s)
            \/ Handle(r) \/ Fault(r) \/ Land(r) \/ LandStray(r)
    BY <1>3 DEF Next
  <2>3. ~Fault(r)
    <3>1. ~WriteFails(r) /\ ~AckLost(r) /\ ~RestoreFails(r)
      BY <2>1 DEF WriteFails, AckLost, RestoreFails, WritesSucceed, CancelSlot
    <3>2. ~CallFails(r)
      <4>1. pc[r] \in {"updating", "closing"} => job[r].op \notin TodoTypes
        BY <2>1 DEF CancelSlot, ProgressOK
      <4> QED BY <2>1, <4>1 DEF CallFails, AwaitsCall, WritesSucceed, CancelSlot, TodoTypes
    <3> QED BY <3>1, <3>2 DEF Fault
  <2>4. CancelKept(r)
    BY <1>3, <2>1, <2>2, <2>3, TodoWaits, CancelBegins, CancelHandled, CancelLands
  <2>5. \A q \in Slot \ {r} : CancelSlot(q)'
    BY <2>1, <2>4 DEF CancelKept, CancelSlot, Elsewhere
  <2> QED BY <1>1, <2>4, <2>5 DEF CancelInv, CancelKept
<1> QED BY <1>1, <1>2, <1>3 DEF CancelInv

\* As long as no handler went ahead with a todo: whoever cancels the last
\* open task of a trip, or several at once, at least one of them closes it.
THEOREM LastCancelCloses ==
    ASSUME WritesSucceed
    PROVE  Spec => []LastCancelClosesTrip
<1>1. Init => CancelInv
  <2> SUFFICES ASSUME Init PROVE CancelInv
    OBVIOUS
  <2>1. ~isAllTaskCompleted(task)
    BY DEF Init, WritesSucceed, isAllTaskCompleted, TASK_STATUS_COMPLETED,
       LIST_TASK_STATUS_CANCELLED
  <2>2. \A r \in Slot : CancelSlot(r)
    BY DEF Init, CancelSlot
  <2> QED BY <2>1, <2>2, CauseInit DEF CancelInv, Answered
<1>2. CancelInv /\ [Next]_vars => CancelInv'
  BY CancelNext
<1>3. CancelInv => LastCancelClosesTrip
  BY DEF CancelInv, Answered, Answers, LastCancelClosesTrip, Quiet
<1> QED BY <1>1, <1>2, <1>3, PTL DEF Spec
=============================================================================
