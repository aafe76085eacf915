---------------------------- MODULE TripStatus ----------------------------
(***************************************************************************)
(* The status vocabulary of trips, tasks and todos (models/*.repository.js) *)
(* and the pure functions that derive a trip status from the statuses of   *)
(* its tasks (utils/trip.util.js, utils/task.util.js).                     *)
(*                                                                         *)
(* A list of tasks is a pair of functions with one domain: status gives    *)
(* the status of each task and type its task type code.                    *)
(***************************************************************************)
(***************************************************************************)
(* Statuses.                                                               *)
(***************************************************************************)
TASK_STATUS == {"NEW", "PENDING", "TODO", "DOING", "DONE",
                "FAILED", "CANCELLED", "REJECTED", "RETURNED"}

TRIP_STATUS == {"PENDING", "TODO", "DOING", "DONE", "FAILED",
                "CANCELLED", "REJECTED", "CLOSED", "PARTIAL_DONE"}

TODO_STATUS == {"TODO", "DONE"}

LIST_TASK_STATUS_CANCELLED == {"CANCELLED", "FAILED", "REJECTED"}

TASK_STATUS_COMPLETED == LIST_TASK_STATUS_CANCELLED \union {"DONE"}

LIST_TRIP_STATUS_FAILED == {"CANCELLED", "FAILED", "REJECTED"}

TRIP_STATUS_COMPLETED ==
    LIST_TRIP_STATUS_FAILED \union {"DONE", "PARTIAL_DONE", "CLOSED"}

(***************************************************************************)
(* The task types the dispatcher knows.  A type code is recognised by a    *)
(* pattern (isTaskAcceptTrip, isTaskPickup, isTaskReturn, isTaskDelivery); *)
(* a code that matches one pattern is one of these values.                 *)
(***************************************************************************)
TaskTypes == {"ACCEPT_TRIP", "PICKUP", "DELIVERY", "RETURN"}

isTaskDelivery(taskType) == taskType = "DELIVERY"

(***************************************************************************)
(* utils/task.util.js                                                      *)
(***************************************************************************)
isAllTaskCompleted(status) ==
    \A t \in DOMAIN status : status[t] \in TASK_STATUS_COMPLETED

\* Slip: any finished task counts as a delivery.
isSomeTaskDone(status, type) == \E t \in DOMAIN status : status[t] = "DONE"

isSomeTaskDelivered(status, type) ==
    \E t \in DOMAIN status : status[t] = "DONE" /\ isTaskDelivery(type[t])

isSomeTaskCancelled(status) ==
    \E t \in DOMAIN status : status[t] \in LIST_TASK_STATUS_CANCELLED

(***************************************************************************)
(* utils/trip.util.js                                                      *)
(***************************************************************************)
isTripStatusCancelled(tripStatus) == tripStatus \in LIST_TRIP_STATUS_FAILED

isTripStatusCompleted(tripStatus) == tripStatus \in TRIP_STATUS_COMPLETED

\* The status a trip gets when "requested" is asked for: a delivered parcel
\* turns a cancellation, or a completion next to a cancelled task, into
\* PARTIAL_DONE.
getTripStatus(status, type, requested) ==
    IF isSomeTaskDelivered(status, type)
       /\ \/ isTripStatusCancelled(requested)
          \/ isSomeTaskCancelled(status) /\ requested = "DONE"
    THEN "PARTIAL_DONE"
    ELSE requested

\* Slip: a done task outweighs a cancelled one.
getRefOrderTripStatusDoneFirst(status, type) ==
    IF \E t \in DOMAIN status : status[t] = "DONE" /\ isTaskDelivery(type[t])
    THEN "DONE" ELSE getTripStatus(status, type, "CANCELLED")

\* The status shown for one reference order of a combined trip: status and
\* type range over the tasks that carry a parcel of the order.
getRefOrderTripStatus(status, type) ==
    LET some(s) == \E t \in DOMAIN status : status[t] = s
        requested ==
            IF some("FAILED") THEN "FAILED"
            ELSE IF some("CANCELLED") THEN "CANCELLED"
            ELSE IF some("REJECTED") THEN "REJECTED"
            ELSE IF some("DOING") THEN "DOING"
            ELSE IF \A t \in DOMAIN status : status[t] = "DONE" THEN "DONE"
            ELSE "PENDING"
    IN  getTripStatus(status, type, requested)
===========================================================================
