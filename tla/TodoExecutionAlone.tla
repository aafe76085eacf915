------------------------- MODULE TodoExecutionAlone -------------------------
(***************************************************************************)
(* With one slot, TodoExecution implements TripLifecycle.  While the       *)
(* request of a todo runs, its documents change one write at a time; what  *)
(* a caller may rely on is what the request found (its snapshot), until it *)
(* returns.                                                                *)
(***************************************************************************)
EXTENDS TodoExecution

Running == {r \in Slot : pc[r] # "idle" /\ job[r].todo # None}

Settled ==
    IF Running = {}
    THEN [status |-> trip.status, tasks |-> task, todos |-> todo]
    ELSE LET r == CHOOSE q \in Running : TRUE
         IN  [status |-> seen[r].trip,
              tasks |-> [task EXCEPT ![job[r].task] = seen[r].task],
              todos |-> [todo EXCEPT ![job[r].todo] = seen[r].todo]]

Promise == INSTANCE TripLifecycle
    WITH status <- Settled.status, tasks <- Settled.tasks, todos <- Settled.todos

\* A todo's request alone with its trip is atomic, whichever of its writes,
\* calls or acknowledgements fails: the catch blocks of acceptTrip.js,
\* pickUp.js, delivery.js and return.js undo exactly what they did.  They
\* have to succeed, and their writes must not overtake those a failed
\* Promise.all left behind (InOrder): the code ensures neither.  A
\* cancellation (trip.js) has no rollback and may stop half way.
RequestIsAtomic == Promise!Lifecycle

\* A completed trip has no open task: cancelTrip cancels every open task
\* before it closes the trip, cancelTask and the delivery handlers close it
\* only when isAllTaskCompleted.
ClosedTripHasNoOpenTask == Promise!NoOpenTaskWhenCompleted
=============================================================================
