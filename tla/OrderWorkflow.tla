--------------------------- MODULE OrderWorkflow ---------------------------
(***************************************************************************)
(* One on-demand order on the Conductor engine.  libraries/conductor       *)
(* declares the workflow: create the tasks, create the trip, find a        *)
(* driver, let fleet put the trip in his schedule, wait for the transport, *)
(* and sum up.  services/conductor/v1 runs the steps, domains/todo the     *)
(* driver's updates (flowUpdateByConfig), domains/trip/cancelTrip the      *)
(* cancellations and domains/conductor the flow started by a failure.      *)
(*                                                                         *)
(* A failed step is tried again as often as its definition allows; every   *)
(* try that creates something creates it anew, so the tasks and the trip   *)
(* of an order are identified by the number of the try that made them.     *)
(***************************************************************************)
EXTENDS Integers, FiniteSets

CONSTANTS
    Legs,         \* the tasks an order may ask for
    Cancels,      \* requests to cancel
    Trackings,    \* the sets of kinds of todo that may be tracked
    MaxRetries,   \* bound of the retryCounts
    RetryCount,   \* retryCount of the task definition of each step
    MaxFaults     \* bound: failed calls, crashes and overlapping updates

Kinds == {"isStart", "isLast"}
Stages == {"MAPPING", "TASKS", "TRIP", "FIND", "SCHEDULE", "TRANSPORT", "SUMMARY"}

ASSUME OrderAssumption ==
    /\ IsFiniteSet(Legs) /\ Legs # {} /\ Trackings \subseteq SUBSET Kinds
    /\ MaxRetries \in Nat /\ RetryCount \in [Stages -> 0..MaxRetries] /\ MaxFaults \in Nat

VARIABLES
    legs,       \* the tasks this order asks for, all of them required
    taxi,       \* is the extensionType of the order TAXI?
    tracked,    \* kinds of todo whose type says isTrackWorkflow
    wf,         \* engine: status, stage and try of the order's workflow
    work,       \* the worker of the current step: how far it is
    transport,  \* engine: the transport task: scheduled, polled or waiting
    gen,        \* workflow data: the tasks handed on (0: none yet)
    carried,    \* workflow data: the trip handed on (0: none yet)
    task,       \* tasks[n][l]: the task made for l by try n
    trip,       \* trips[n]: the trip made by try n
    did,        \* todos marked DONE, of each leg
    todo,       \* the update of a todo of each leg that is under way
    cancel,     \* the requests to cancel
    flow,       \* the failure flow
    faults,     \* counts the failures and overlaps
    overlap,    \* history: did two updates of the driver overlap?
    raced       \* history: did a worker or the driver write while the order
                \* was being closed, or the driver after that?

order == <<legs, taxi, tracked>>
engine == <<wf, work, transport, gen, carried>>
documents == <<task, trip>>
driver == <<did, todo>>
closing == <<cancel, flow>>
history == <<overlap, raced>>
vars == <<order, engine, documents, driver, closing, faults, history>>

Tries == 1..(MaxRetries + 1)

\* workflowTaskId of a document: none, that of a step other than the
\* transport, or a try of the transport.
NoRef == -1
OtherRef == 0
Refs == NoRef..(MaxRetries + 1)

\* The steps in their order, those of the sub-workflows in their place.
Following ==
    [s \in Stages |-> CASE s = "MAPPING" -> "TASKS"
                        [] s = "TASKS" -> "TRIP"
                        [] s = "TRIP" -> "FIND"
                        [] s = "FIND" -> "SCHEDULE"
                        [] s = "SCHEDULE" -> "TRANSPORT"
                        [] OTHER -> "SUMMARY"]

NoTryLeft(s) == wf.try > RetryCount[s]

Running == wf.status = "RUNNING"
Stage(s) == Running /\ wf.stage = s

Fault == faults < MaxFaults /\ faults' = faults + 1

(***************************************************************************)
(* The engine: what it does with the answer of a worker.                   *)
(***************************************************************************)
Completed(s) ==
    wf' = IF Stage(s)
          THEN IF s = "SUMMARY" THEN [wf EXCEPT !.status = "COMPLETED"]
               ELSE [wf EXCEPT !.stage = Following[s], !.try = 1]
          ELSE wf

\* No try is left or the step ran out of time: the workflow fails and its
\* failureWorkflow starts.
Abandon ==
    /\ wf' = [wf EXCEPT !.status = "FAILED"]
    /\ flow' = "started"

Failed(s) ==
    IF Stage(s)
    THEN IF NoTryLeft(s) THEN Abandon
         ELSE wf' = [wf EXCEPT !.try = @ + 1] /\ flow' = flow
    ELSE UNCHANGED <<wf, flow>>

(***************************************************************************)
(* Creating the order.                                                     *)
(***************************************************************************)
MapOrder ==
    /\ Stage("MAPPING")
    /\ Completed("MAPPING")
    /\ UNCHANGED <<order, work, transport, gen, carried, documents, driver, closing, faults, history>>

\* A task without an address, a taxi order without a fare, or a failed read.
MapOrderFails ==
    /\ Stage("MAPPING")
    /\ Fault
    /\ Failed("MAPPING")
    /\ UNCHANGED <<order, work, transport, gen, carried, documents, driver, cancel, history>>

NewTask == [status |-> "PENDING", trip |-> 0, ref |-> OtherRef]
NewTrip(g) == [status |-> "PENDING", gen |-> g, rejects |-> 0, ref |-> OtherRef]

\* Promise.all over the tasks: when one cannot be created the others stay.
Creates(made) ==
    task' = [task EXCEPT ![wf.try] = [l \in Legs |-> IF l \in made THEN NewTask ELSE @[l]]]

CreateTasks ==
    /\ Stage("TASKS")
    /\ Creates(legs)
    /\ gen' = wf.try
    /\ Completed("TASKS")
    /\ UNCHANGED <<order, work, transport, carried, trip, driver, closing, faults, history>>

CreateTasksFails ==
    /\ Stage("TASKS")
    /\ Fault
    /\ \E made \in SUBSET legs : Creates(made)
    /\ Failed("TASKS")
    /\ UNCHANGED <<order, work, transport, gen, carried, trip, driver, cancel, history>>

\* The directions of an order with one task are null; reading their _id throws.
NoDirections == Cardinality(legs) <= 1

CreateTrip ==
    /\ Stage("TRIP") /\ work = "idle" /\ ~NoDirections
    /\ trip' = [trip EXCEPT ![wf.try] = NewTrip(gen)]
    /\ work' = "created"
    /\ UNCHANGED <<order, wf, transport, gen, carried, task, driver, closing, faults, history>>

\* Slip: binds the tasks of its own try.
BindTasksOfTry ==
    /\ work = "created"
    /\ task' = [task EXCEPT ![wf.try] = [l \in Legs |-> IF l \in legs THEN [@[l] EXCEPT !.trip = wf.try] ELSE @[l]]]
    /\ work' = "bound"
    /\ UNCHANGED <<order, wf, transport, gen, carried, trip, driver, closing, faults, history>>

BindTasks ==
    /\ work = "created"
    /\ task' = [task EXCEPT ![gen] = [l \in Legs |-> IF l \in legs THEN [@[l] EXCEPT !.trip = wf.try] ELSE @[l]]]
    /\ work' = "bound"
    /\ UNCHANGED <<order, wf, transport, gen, carried, trip, driver, closing, faults, history>>

\* Broadcast to the passenger, answer the engine.
TripCreated ==
    /\ work = "bound"
    /\ work' = "idle"
    /\ carried' = IF Stage("TRIP") THEN wf.try ELSE carried
    /\ Completed("TRIP")
    /\ UNCHANGED <<order, transport, gen, documents, driver, closing, faults, history>>

CreateTripThrows ==
    /\ Stage("TRIP") /\ work = "idle" /\ NoDirections
    /\ Failed("TRIP")
    /\ UNCHANGED <<order, work, transport, gen, carried, documents, driver, cancel, faults, history>>

CreateTripFails ==
    /\ work \in {"created", "bound"} /\ Fault
    /\ work' = "idle"
    /\ Failed("TRIP")
    /\ UNCHANGED <<order, transport, gen, carried, documents, driver, cancel, history>>

\* The process stops: the step runs out of time, and so does the workflow
\* (timeoutPolicy TIME_OUT_WF).
WorkerDies ==
    /\ work \in {"created", "bound"} /\ Fault
    /\ work' = "idle"
    /\ IF Stage("TRIP") THEN Abandon ELSE UNCHANGED <<wf, flow>>
    /\ UNCHANGED <<order, transport, gen, carried, documents, driver, cancel, history>>

(***************************************************************************)
(* Finding a driver.                                                       *)
(***************************************************************************)
FindDriver ==
    /\ Stage("FIND")
    /\ Completed("FIND")
    /\ UNCHANGED <<order, work, transport, gen, carried, documents, driver, closing, faults, history>>

\* Nobody accepts within a minute.
FindDriverFails ==
    /\ Stage("FIND")
    /\ Failed("FIND")
    /\ UNCHANGED <<order, work, transport, gen, carried, documents, driver, cancel, faults, history>>

CancelBegun == \E c \in Cancels : cancel[c].pc \notin {"idle", "refused"}

\* Fleet puts the trip in the driver's schedule and tells tms about him.
Schedule ==
    /\ Stage("SCHEDULE") /\ work = "idle"
    /\ work' = "assigning"
    /\ raced' = (raced \/ CancelBegun)
    /\ UNCHANGED <<order, wf, transport, gen, carried, documents, driver, closing, faults, overlap>>

\* updateStaffsToTrip: a taxi trip becomes DOING, whatever it was.
UpdateStaffsToTrip ==
    /\ work = "assigning"
    /\ trip' = IF taxi THEN [trip EXCEPT ![carried].status = "DOING"] ELSE trip
    /\ work' = "idle"
    /\ Completed("SCHEDULE")
    /\ UNCHANGED <<order, transport, gen, carried, task, driver, closing, faults, history>>

ScheduleFails ==
    /\ work = "assigning" /\ Fault
    /\ work' = "idle"
    /\ Failed("SCHEDULE")
    /\ UNCHANGED <<order, transport, gen, carried, documents, driver, cancel, history>>

(***************************************************************************)
(* The transport task: its worker notes the task's id on the trip and      *)
(* leaves it in progress; the driver's updates move it on.                 *)
(***************************************************************************)
PollTransport ==
    /\ Stage("TRANSPORT") /\ transport = "scheduled"
    /\ trip' = [trip EXCEPT ![carried].ref = wf.try]
    /\ transport' = "polled"
    /\ UNCHANGED <<order, wf, work, gen, carried, task, driver, closing, faults, history>>

ReportTransport ==
    /\ transport = "polled"
    /\ transport' = "waiting"
    /\ UNCHANGED <<order, wf, work, gen, carried, documents, driver, closing, faults, history>>

\* The update of the trip throws, or the worker takes more than a second
\* (responseTimeoutSeconds, timeoutPolicy RETRY).
TransportFails ==
    /\ Stage("TRANSPORT") /\ transport \in {"scheduled", "polled"} /\ Fault
    /\ transport' = "scheduled"
    /\ Failed("TRANSPORT")
    /\ UNCHANGED <<order, work, gen, carried, documents, driver, cancel, history>>

\* updateTask of the engine, for the try r of the transport: the first
\* schedules it to be polled again, the second completes it.
Open(r) == Stage("TRANSPORT") /\ wf.try = r
Requeue(r) ==
    transport' = IF Open(r) /\ transport = "waiting" THEN "scheduled" ELSE transport
\* Slip: only a task in progress is completed.
CompleteWaiting(r) ==
    IF Open(r) /\ transport = "waiting" THEN Completed("TRANSPORT") ELSE wf' = wf

Complete(r) == IF Open(r) THEN Completed("TRANSPORT") ELSE wf' = wf

(***************************************************************************)
(* Summing up: the trip notes the step, fleet gets the price.              *)
(***************************************************************************)
NoteSummary == trip' = [trip EXCEPT ![carried].ref = OtherRef]

SumUp ==
    /\ Stage("SUMMARY")
    /\ NoteSummary
    /\ Completed("SUMMARY")
    /\ UNCHANGED <<order, work, transport, gen, carried, task, driver, closing, faults, history>>

SumUpFails ==
    /\ Stage("SUMMARY") /\ Fault
    /\ NoteSummary \/ trip' = trip
    /\ Failed("SUMMARY")
    /\ UNCHANGED <<order, work, transport, gen, carried, task, driver, cancel, history>>

(***************************************************************************)
(* The driver updates a todo: todo/update.js and flowUpdateByConfig.       *)
(***************************************************************************)
Idle == [kind |-> "isStart", pc |-> "idle", ref |-> NoRef, done |-> FALSE, rejects |-> 0]

At(l, pc) == todo[l].pc = pc
Goto(l, pc) == todo' = [todo EXCEPT ![l].pc = pc]
MyTask(l) == task[gen][l]
OtherDoing(l) == \E m \in legs \ {l} : MyTask(m).status = "DOING"

\* update.js marks the todo DONE before anything else.
BeginTodo(l, k) ==
    /\ At(l, "idle") /\ k \notin did[l] /\ (k = "isLast" => "isStart" \in did[l])
    /\ wf.stage \in {"TRANSPORT", "SUMMARY"}
    /\ did' = [did EXCEPT ![l] = @ \union {k}]
    /\ todo' = [todo EXCEPT ![l] = [Idle EXCEPT !.kind = k, !.pc = "marked"]]
    /\ IF \A m \in legs : At(m, "idle")
       THEN UNCHANGED <<faults, overlap>>
       ELSE Fault /\ overlap' = TRUE
    /\ raced' = (raced \/ CancelBegun \/ flow # "none")
    /\ UNCHANGED <<order, engine, documents, closing>>

\* conductorTransportTracking: the engine's first transport task is put in
\* progress again; its id is what the documents will carry.
Track(l) ==
    /\ At(l, "marked")
    /\ LET r == IF todo[l].kind \in tracked /\ trip[carried].ref # NoRef THEN 1 ELSE NoRef
       IN  /\ Requeue(r)
           /\ todo' = [todo EXCEPT ![l] =
                         [@ EXCEPT !.ref = r, !.pc = IF todo[l].kind = "isStart" THEN "tracked" ELSE "checked"]]
    /\ UNCHANGED <<order, wf, work, gen, carried, documents, did, closing, faults, history>>

\* Slip: the other tasks are not looked at.
CheckStartAlone(l) ==
    /\ At(l, "tracked")
    /\ Goto(l, "checked")
    /\ UNCHANGED <<order, engine, documents, did, closing, faults, history>>

\* startTaskConfig, strategy SINGLE: no other task of the trip is DOING.
CheckStart(l) ==
    /\ At(l, "tracked") /\ ~OtherDoing(l)
    /\ Goto(l, "checked")
    /\ UNCHANGED <<order, engine, documents, did, closing, faults, history>>

\* TaskUpdate: the status the flag of the todo stands for.
SaveTask(l) ==
    /\ At(l, "checked")
    /\ task' = [task EXCEPT ![gen][l] =
                  [@ EXCEPT !.status = IF todo[l].kind = "isStart" THEN "DOING" ELSE "DONE",
                            !.ref = todo[l].ref]]
    /\ Goto(l, "saved")
    /\ UNCHANGED <<order, engine, trip, did, closing, faults, history>>

\* Slip: a finished task completes the transport of a taxi, too.
TellTaskOfAny(l) ==
    /\ At(l, "saved")
    /\ Goto(l, "told")
    /\ Complete(IF MyTask(l).status = "DONE" THEN todo[l].ref ELSE NoRef)
    /\ UNCHANGED <<order, work, transport, gen, carried, documents, did, closing, faults, history>>

\* taskCompletedEvent: a finished task of a taxi keeps the transport in
\* progress, one of another order completes it.
TellTask(l) ==
    /\ At(l, "saved")
    /\ Goto(l, "told")
    /\ LET r == IF MyTask(l).status = "DONE" THEN todo[l].ref ELSE NoRef
       IN  IF taxi THEN Requeue(r) /\ wf' = wf
           ELSE Complete(r) /\ transport' = transport
    /\ UNCHANGED <<order, work, gen, carried, documents, did, closing, faults, history>>

\* Slip: looks at the other tasks only.
ReadTripOfOthers(l) ==
    /\ At(l, "told")
    /\ todo' = [todo EXCEPT ![l] =
                  [@ EXCEPT !.pc = "seen", !.done = \A m \in legs \ {l} : MyTask(m).status = "DONE",
                            !.rejects = trip[carried].rejects]]
    /\ UNCHANGED <<order, engine, documents, did, closing, faults, history>>

\* tripValidateComplete reads the trip with its tasks, and writes it whole.
ReadTrip(l) ==
    /\ At(l, "told")
    /\ todo' = [todo EXCEPT ![l] =
                  [@ EXCEPT !.pc = "seen", !.done = \A m \in legs : MyTask(m).status = "DONE",
                            !.rejects = trip[carried].rejects]]
    /\ UNCHANGED <<order, engine, documents, did, closing, faults, history>>

WriteTrip(l) ==
    /\ At(l, "seen")
    /\ trip' = [trip EXCEPT ![carried] =
                  [@ EXCEPT !.status = IF todo[l].done THEN "DONE" ELSE "DOING",
                            !.rejects = todo[l].rejects, !.ref = todo[l].ref]]
    /\ Goto(l, "written")
    /\ UNCHANGED <<order, engine, task, did, closing, faults, history>>

\* tripCompletedEvent: reads the trip again and completes the transport.
TellTrip(l) ==
    /\ At(l, "written")
    /\ IF trip[carried].status = "DONE" THEN Complete(trip[carried].ref) ELSE wf' = wf
    /\ todo' = [todo EXCEPT ![l] = Idle]
    /\ UNCHANGED <<order, work, transport, gen, carried, documents, did, closing, faults, history>>

\* The start is refused, or a call throws: the todo goes back to TODO.
TodoFails(l) ==
    /\ \/ At(l, "tracked") /\ OtherDoing(l) /\ faults' = faults
       \/ ~At(l, "idle") /\ Fault
    /\ did' = [did EXCEPT ![l] = @ \ {todo[l].kind}]
    /\ todo' = [todo EXCEPT ![l] = Idle]
    /\ UNCHANGED <<order, engine, documents, closing, history>>

(***************************************************************************)
(* Cancelling a trip: domains/trip/cancelTrip.js.                          *)
(***************************************************************************)
OthersWrite == work # "idle" \/ \E l \in Legs : ~At(l, "idle")

\* STATUS_MAPPING_CANCEL: statuses a role may not cancel.
Forbidden == [DRIVER |-> {"PENDING", "FAILED"}, PASSENGER |-> {"FAILED"}]
StatusOf == [DRIVER |-> "FAILED", PASSENGER |-> "CANCELLED"]

MayCancel(role, t) == trip[t].rejects = 0 /\ trip[t].status \notin Forbidden[role]

\* The conditional update.
MarkTrip(c, role, t) ==
    /\ cancel[c].pc = "idle" /\ trip[t].status # "none"
    /\ IF MayCancel(role, t)
       THEN /\ trip' = [trip EXCEPT ![t].status = StatusOf[role]]
            /\ cancel' = [cancel EXCEPT ![c] = [role |-> role, trip |-> t, pc |-> "marked"]]
            /\ raced' = (raced \/ OthersWrite)
       ELSE /\ cancel' = [cancel EXCEPT ![c].pc = "refused"]
            /\ UNCHANGED <<trip, raced>>
    /\ UNCHANGED <<order, engine, task, driver, flow, faults, overlap>>

\* rejectTrip and its event: the trip becomes FAILED whoever cancels.
RejectTrip(c) ==
    /\ cancel[c].pc = "marked"
    /\ LET t == cancel[c].trip
       IN  trip' = [trip EXCEPT ![t] = [@ EXCEPT !.status = "FAILED", !.rejects = trip[t].rejects + 1]]
    /\ cancel' = [cancel EXCEPT ![c].pc = "rejected"]
    /\ UNCHANGED <<order, engine, task, driver, flow, faults, history>>

\* Slip: closes what has not begun.
ClosePendingTasks(t, status) ==
    task' = [n \in Tries |-> [l \in Legs |->
                IF task[n][l].trip = t /\ task[n][l].status = "PENDING"
                THEN [task[n][l] EXCEPT !.status = status] ELSE task[n][l]]]

CloseTasks(t, status) ==
    task' = [n \in Tries |-> [l \in Legs |->
                IF task[n][l].trip = t THEN [task[n][l] EXCEPT !.status = status] ELSE task[n][l]]]

\* Slip: takes the trip of the workflow for the one it cancels.
CancelTasksOfOrder(c) ==
    /\ cancel[c].pc = "rejected"
    /\ CloseTasks(carried, StatusOf[cancel[c].role])
    /\ cancel' = [cancel EXCEPT ![c].pc = "closed"]
    /\ UNCHANGED <<order, engine, trip, driver, flow, faults, history>>

CancelTasks(c) ==
    /\ cancel[c].pc = "rejected"
    /\ CloseTasks(cancel[c].trip, StatusOf[cancel[c].role])
    /\ cancel' = [cancel EXCEPT ![c].pc = "closed"]
    /\ UNCHANGED <<order, engine, trip, driver, flow, faults, history>>

\* terminateWorkflow, unless the trip lost its workflowInstanceId; then fleet
\* and the order service are told.
TerminateWorkflow(c) ==
    /\ cancel[c].pc = "closed"
    /\ wf' = IF Running /\ trip[cancel[c].trip].ref # NoRef
             THEN [wf EXCEPT !.status = "TERMINATED"] ELSE wf
    /\ cancel' = [cancel EXCEPT ![c].pc = "done"]
    /\ UNCHANGED <<order, work, transport, gen, carried, documents, driver, flow, faults, history>>

\* A call throws: the caller is told to try again, nothing is undone.
CancelFails(c) ==
    /\ cancel[c].pc \in {"marked", "rejected", "closed"} /\ Fault
    /\ cancel' = [cancel EXCEPT ![c].pc = "failed"]
    /\ UNCHANGED <<order, engine, documents, driver, flow, history>>

(***************************************************************************)
(* The failure flow: cancelFlowError.  The failing sub-workflow starts one *)
(* of its own first, which sees the same data and finds no trip either.    *)
(***************************************************************************)
\* Does the data of the last step name the trip?  The creating steps do not
\* know it yet, and the transport worker's answer leaves it out.
LastStepNamesTrip == wf.stage \in {"FIND", "SCHEDULE", "SUMMARY"}

\* Slip: does not answer the engine when there is no trip.
FailNamedTrip ==
    /\ flow = "started" /\ LastStepNamesTrip
    /\ trip' = [trip EXCEPT ![carried].status = "FAILED"]
    /\ flow' = "tripFailed"
    /\ raced' = (raced \/ OthersWrite)
    /\ UNCHANGED <<order, engine, task, driver, cancel, faults, overlap>>

FailTrip ==
    /\ flow = "started"
    /\ IF LastStepNamesTrip
       THEN /\ trip' = [trip EXCEPT ![carried].status = "FAILED"]
            /\ flow' = "tripFailed"
            /\ raced' = (raced \/ OthersWrite)
       ELSE /\ flow' = "done"
            /\ UNCHANGED <<trip, raced>>
    /\ UNCHANGED <<order, engine, task, driver, cancel, faults, overlap>>

FailTasks ==
    /\ flow = "tripFailed"
    /\ CloseTasks(carried, "FAILED")
    /\ flow' = "done"
    /\ UNCHANGED <<order, engine, trip, driver, cancel, faults, history>>

\* An error is logged and the flow completes all the same.
FailureFlowFails ==
    /\ flow \in {"started", "tripFailed"} /\ LastStepNamesTrip /\ Fault
    /\ flow' = "gaveUp"
    /\ UNCHANGED <<order, engine, documents, driver, cancel, history>>

-----------------------------------------------------------------------------
Init ==
    /\ legs \in (SUBSET Legs) \ {{}} /\ taxi \in BOOLEAN /\ tracked \in Trackings
    /\ wf = [status |-> "RUNNING", stage |-> "MAPPING", try |-> 1]
    /\ work = "idle" /\ transport = "scheduled" /\ gen = 0 /\ carried = 0
    /\ task = [n \in Tries |-> [l \in Legs |-> [NewTask EXCEPT !.status = "none"]]]
    /\ trip = [n \in Tries |-> [NewTrip(0) EXCEPT !.status = "none"]]
    /\ did = [l \in Legs |-> {}]
    /\ todo = [l \in Legs |-> Idle]
    /\ cancel = [c \in Cancels |-> [role |-> "PASSENGER", trip |-> 0, pc |-> "idle"]]
    /\ flow = "none" /\ faults = 0 /\ overlap = FALSE /\ raced = FALSE

\* The steps of this service and of the engine.
WorkerStep ==
    \/ MapOrder \/ CreateTasks
    \/ CreateTrip \/ CreateTripThrows \/ BindTasks \/ TripCreated
    \/ Schedule \/ UpdateStaffsToTrip \/ PollTransport \/ ReportTransport
    \/ SumUp \/ FailTrip \/ FailTasks

FaultStep ==
    \/ MapOrderFails \/ CreateTasksFails \/ CreateTripFails \/ WorkerDies
    \/ ScheduleFails \/ TransportFails \/ SumUpFails \/ FailureFlowFails
    \/ \E c \in Cancels : CancelFails(c)

TodoStep(l) ==
    \/ Track(l) \/ CheckStart(l) \/ SaveTask(l) \/ TellTask(l)
    \/ ReadTrip(l) \/ WriteTrip(l) \/ TellTrip(l) \/ TodoFails(l)

CancelStep(c) == RejectTrip(c) \/ CancelTasks(c) \/ TerminateWorkflow(c)

Next ==
    \/ WorkerStep
    \/ FindDriver \/ FindDriverFails
    \/ FaultStep
    \/ \E l \in legs : TodoStep(l)
    \/ \E l \in legs, k \in Kinds : BeginTodo(l, k)
    \/ \E c \in Cancels : CancelStep(c)
    \/ \E c \in Cancels, role \in {"DRIVER", "PASSENGER"}, t \in Tries : MarkTrip(c, role, t)

Spec == Init /\ [][Next]_vars

\* Conductor keeps offering a step until it is done or out of tries or time
\* (FIND answers within a minute), and a request that has begun goes on.
FairSpec ==
    /\ Spec
    /\ WF_vars(WorkerStep) /\ WF_vars(FindDriver \/ FindDriverFails)
    /\ \A l \in Legs : WF_vars(TodoStep(l))
    /\ \A c \in Cancels : WF_vars(CancelStep(c))
-----------------------------------------------------------------------------
(***************************************************************************)
(* Properties.                                                             *)
(***************************************************************************)
TripStatus == {"none", "PENDING", "DOING", "DONE", "FAILED", "CANCELLED"}
WfRecord == [status : {"RUNNING", "COMPLETED", "FAILED", "TERMINATED"}, stage : Stages, try : Tries]
TaskRecord == [status : TripStatus, trip : Tries \union {0}, ref : Refs]
TripRecord == [status : TripStatus, gen : Tries \union {0}, rejects : Nat, ref : Refs]
TodoSteps == {"idle", "marked", "tracked", "checked", "saved", "told", "seen", "written"}
TodoRecord ==
    [kind : Kinds, ref : Refs, done : BOOLEAN, rejects : Nat, pc : TodoSteps]
CancelRecord ==
    [role : {"DRIVER", "PASSENGER"}, trip : Tries \union {0},
     pc : {"idle", "refused", "marked", "rejected", "closed", "done", "failed"}]

EngineTypeOK ==
    /\ wf \in WfRecord
    /\ work \in {"idle", "created", "bound", "assigning"}
    /\ transport \in {"scheduled", "polled", "waiting"}
    /\ gen \in Tries \union {0} /\ carried \in Tries \union {0}
DocumentTypeOK == task \in [Tries -> [Legs -> TaskRecord]] /\ trip \in [Tries -> TripRecord]
DriverTypeOK == did \in [Legs -> SUBSET Kinds] /\ todo \in [Legs -> TodoRecord]
ClosingTypeOK ==
    /\ cancel \in [Cancels -> CancelRecord]
    /\ flow \in {"none", "started", "tripFailed", "done", "gaveUp"}
CountTypeOK ==
    /\ legs \in (SUBSET Legs) \ {{}} /\ taxi \in BOOLEAN /\ tracked \in SUBSET Kinds
    /\ faults \in 0..MaxFaults /\ overlap \in BOOLEAN /\ raced \in BOOLEAN

\* Every variable holds what the code can put in it.
OrderTypeOK == EngineTypeOK /\ DocumentTypeOK /\ DriverTypeOK /\ ClosingTypeOK /\ CountTypeOK

\* The trip the workflow goes on with is the one that holds the order's tasks,
\* and all of them name it, however often their creation was tried
\* (createTrip.receiver.js, taxiTrip.js): the driver is never sent a trip
\* whose tasks belong to another try.
CarriedTripHoldsOrderTasks ==
    carried # 0 =>
        /\ trip[carried].status # "none" /\ trip[carried].gen = gen
        /\ \A l \in legs : MyTask(l).trip = carried

\* When an order fails because no driver is found, because fleet cannot plan
\* it or in the summary, its trip and tasks end closed (cancelFlowError),
\* whatever a cancellation does meanwhile.
FailedOrderClosesItsTrip ==
    wf.status = "FAILED" /\ flow = "done" /\ LastStepNamesTrip /\ ~raced =>
        /\ trip[carried].status = "FAILED"
        /\ \A l \in legs : MyTask(l).status \in {"FAILED", "CANCELLED"}

\* A cancellation that reports success has closed the trip, every task of it
\* and the workflow, unless somebody wrote the documents at the same time; the
\* workflow may go on if an untracked todo cut the trip off it.
CancelClosesOrder ==
    \A c \in Cancels : cancel[c].pc = "done" /\ ~raced =>
        /\ trip[cancel[c].trip].status = "FAILED"
        /\ \A n \in Tries, l \in legs :
              task[n][l].trip = cancel[c].trip => task[n][l].status \in {"FAILED", "CANCELLED"}
        /\ Running => tracked # Kinds

\* When the driver's updates come one at a time and nobody closes the order,
\* a trip whose todos all show done is DONE, and a DONE trip has no open task
\* (tripValidateComplete).
TripDoneWithItsTodos ==
    carried # 0 /\ ~overlap /\ ~CancelBegun /\ flow = "none" /\ (\A l \in legs : At(l, "idle")) =>
        /\ (\A l \in legs : "isLast" \in did[l]) => trip[carried].status = "DONE"
        /\ trip[carried].status = "DONE" => \A l \in legs : MyTask(l).status = "DONE"

\* Strategy SINGLE of startTaskConfig: a driver whose updates come one at a
\* time has at most one task under way, whatever fails in between.
OneTaskUnderWay ==
    ~overlap /\ gen # 0 => Cardinality({l \in legs : MyTask(l).status = "DOING"}) <= 1

\* A taxi order is summed up, which pays the driver, only after every task
\* of its trip was done.
PaidAfterDelivery ==
    [][taxi /\ wf.stage = "TRANSPORT" /\ wf'.stage = "SUMMARY" /\ ~raced =>
          \A l \in legs : MyTask(l).status = "DONE"]_vars

\* Every order gets as far as the transport or ends with its failure flow
\* done, whatever fails.
OrderIsPlannedOrEnds ==
    []<>(\/ wf.stage \in {"TRANSPORT", "SUMMARY"}
         \/ ~Running /\ flow \notin {"started", "tripFailed"})

\* A trip whose last todo is done and saved completes the transport of its
\* order, if every todo is tracked and the transport was not tried again:
\* tripCompletedEvent then names the task the engine waits for.  A cancellation
\* or an overlapping update in between can lose it.
Delivered ==
    /\ Stage("TRANSPORT") /\ wf.try = 1 /\ trip[carried].status = "DONE"
    /\ \A l \in legs : "isLast" \in did[l]
DeliveredOrderGoesOn ==
    (tracked = Kinds /\ Delivered) ~>
        (raced \/ overlap \/ ~Stage("TRANSPORT") \/ wf.try > 1 \/ \E l \in legs : "isLast" \notin did[l])
=============================================================================
