--------------------------- MODULE TripLifecycle ---------------------------
(***************************************************************************)
(* What the handlers of domains/taskType and the cancellations of          *)
(* domains/trip/trip.js promise a caller who is alone with the trip: the   *)
(* request of a todo changes the trip, the task and the todo together or,  *)
(* if it fails, changes nothing.  A cancellation may stop half way,        *)
(* because trip.js rethrows without a rollback: then some tasks are        *)
(* cancelled and the trip does not know.                                   *)
(***************************************************************************)
EXTENDS TripStatus

CONSTANTS Task, Todo, taskOf, taskType, todoType, CancelStatus

VARIABLES
    status,   \* of the trip
    tasks,    \* status of each task
    todos     \* status of each todo

lifecycle == <<status, tasks, todos>>

Waiting == status = "PENDING" /\ tasks = [t \in Task |-> "PENDING"]
           /\ todos = [x \in Todo |-> "TODO"]

Tick(x) == todos' = [todos EXCEPT ![x] = "DONE"]

Move(x, s) == tasks' = [tasks EXCEPT ![taskOf[x]] = s]

\* The driver accepts the trip.
Accept(x) ==
    /\ todoType[x] = "ACCEPT_TRIP"
    /\ status = "PENDING" /\ tasks[taskOf[x]] = "PENDING" /\ todos[x] = "TODO"
    /\ status' = "DOING" /\ Move(x, "DONE") /\ Tick(x)

\* The driver sets off for a task.
Start(x) ==
    /\ todoType[x] = "SET_OFF"
    /\ status = "DOING" /\ tasks[taskOf[x]] = "PENDING" /\ todos[x] = "TODO"
    /\ Move(x, "DOING") /\ Tick(x)
    /\ UNCHANGED status

\* The driver records a step of a task.
Record(x) ==
    /\ todoType[x] \notin {"ACCEPT_TRIP", "SET_OFF", "PICKED_UP", "RECEIPT", "DELIVERED"}
    /\ status = "DOING" /\ tasks[taskOf[x]] = "DOING" /\ todos[x] = "TODO"
    /\ Tick(x)
    /\ UNCHANGED <<status, tasks>>

\* The driver finishes a task; a delivery that leaves no task open finishes
\* the trip.
Finish(x) ==
    /\ todoType[x] \in {"PICKED_UP", "RECEIPT", "DELIVERED"}
    /\ status = "DOING" /\ tasks[taskOf[x]] = "DOING"
    /\ todoType[x] \in {"PICKED_UP", "DELIVERED"} =>
            \A y \in Todo \ {x} : taskOf[y] = taskOf[x] => todos[y] = "DONE"
    /\ Move(x, "DONE") /\ Tick(x)
    /\ status' = IF todoType[x] # "PICKED_UP" /\ isAllTaskCompleted(tasks')
                 THEN getTripStatus(tasks', taskType, "DONE") ELSE "DOING"

\* A dispatcher cancels a task of a trip that is not completed; cancelling a
\* trip is cancelling its open tasks one after the other.
Cancel(t, s) ==
    /\ ~isTripStatusCompleted(status)
    /\ tasks' = [tasks EXCEPT ![t] = s]
    /\ UNCHANGED <<status, todos>>

\* The cancellation that finds no task open closes the trip.
Close(s) ==
    /\ ~isTripStatusCompleted(status)
    /\ isAllTaskCompleted(tasks)
    /\ status' = getTripStatus(tasks, taskType, s)
    /\ UNCHANGED <<tasks, todos>>

Advance ==
    \/ \E x \in Todo : Accept(x) \/ Start(x) \/ Record(x) \/ Finish(x)
    \/ \E s \in CancelStatus : Close(s) \/ \E t \in Task : Cancel(t, s)

Lifecycle == Waiting /\ [][Advance]_lifecycle

\* A completed trip has no open task (allowedToCancelTrip and the DOING
\* checks of the handlers leave such a trip alone).
NoOpenTaskWhenCompleted == isTripStatusCompleted(status) => isAllTaskCompleted(tasks)
=============================================================================
