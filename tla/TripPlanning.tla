---------------------------- MODULE TripPlanning ----------------------------
(***************************************************************************)
(* How trips are planned: they are created from tasks (domains/trip        *)
(* create.js and trip.js), tasks are added (addTaskToTrip.js), and the     *)
(* workers of workers/melonade remove, order, number, assign and delete    *)
(* tasks.  A workflow of these workers is a saga: the engine, which is not *)
(* in the repository, calls them one after another, calls a failed one     *)
(* again or calls the compensations of those that completed, last first.   *)
(*                                                                         *)
(* Every job reads documents, awaits, and writes what follows from its     *)
(* reading.  A call may fail before its write, or after it when the answer *)
(* is lost.                                                                *)
(***************************************************************************)
EXTENDS TimeSlots, TLC

CONSTANTS
    Task, Driver, Job,
    Window,      \* windowTime of each task
    Open,        \* the tasks that are required and not DONE
    MaxTrips,    \* bound
    MaxFaults,   \* bound: calls that fail or whose answer is lost
    NoTrip,      \* tripId null
    NoJob        \* nobody waits for this write

\* A task lasts from a time to a later one (the interval of windowTime).
ASSUME PlanningAssumption ==
    /\ Window \in [Task -> {s \in Slot : s.start < s.end}]
    /\ MaxTrips \in Nat /\ MaxFaults \in Nat
    /\ NoTrip \notin 1..MaxTrips /\ NoJob \notin Job

Workers == {"remove", "reorder", "number", "assign", "deleteTodos", "deleteTask", "other"}

VARIABLES
    trips,       \* the trips made so far, deleted ones too
    tasks,
    work,        \* what each job is asked to do
    job,         \* how far it is
    flight,      \* writes of a Promise.all that are under way
    faults,
    before,      \* history: the documents when a job was submitted
    overlapped,  \* history: jobs that met another one, or writes of one
    damaged      \* history: jobs with a write nobody answers for

planning == <<trips, tasks, work, job, flight, faults, before, overlapped, damaged>>

TripId == 1..MaxTrips
TripDoc == [tasks: Seq(Task), window: Slot, done: BOOLEAN, staffs: SUBSET Driver, deleted: BOOLEAN]
TaskDoc == [trip: TripId \cup {NoTrip}, number: Nat, staffs: SUBSET Driver,
            deleted: BOOLEAN, todosDeleted: BOOLEAN]

\* What a job may be asked.
Creations == {"create", "createTrip"}
WorkDoc ==
    [kind: {"none"}]
    \cup [kind: Creations, tasks: Seq(Task), window: Slot, staffs: SUBSET Driver]
    \cup [kind: {"addTasks"}, trip: TripId, tasks: Seq(Task)]
    \cup [kind: {"saga"}, trip: TripId, task: Task, tasks: Seq(Task), staff: Driver,
          steps: Seq(Workers) \ {<<>>}]

Live(t) == t \in DOMAIN trips /\ ~trips[t].deleted
Fresh == Len(trips) + 1

\* A job that has not begun has nothing read and nothing done.
Waiting == [at |-> "ready", step |-> 1, doc |-> <<>>, out |-> <<>>]

Ends == {"ok", "failed", "undone", "broken"}
Active(j) == job[j].at \notin Ends \cup {"ready"}
At(j, kinds, place) == work[j].kind \in kinds /\ job[j].at = place
GoesTo(j, place) == job' = [job EXCEPT ![j].at = place]

Fault == faults < MaxFaults /\ faults' = faults + 1

\* The tasks of s that are in S, by the start of their windows.
ByWindow(s, S) ==
    Arranged(s, {i \in DOMAIN s : s[i] \in S}, [i \in DOMAIN s |-> Window[s[i]]])
Hull(s) == [start |-> Window[s[1]].start, end |-> Window[Last(s)].end]

Submit(j) ==
    /\ job[j].at = "ready" /\ work[j].kind # "none"
    /\ GoesTo(j, CASE work[j].kind \in Creations -> "check"
                   [] work[j].kind = "addTasks" -> "add"
                   [] OTHER -> "call")
    /\ before' = [before EXCEPT ![j] = [trips |-> trips, tasks |-> tasks]]
    /\ LET company == {i \in Job : Active(i)}
       IN  overlapped' = IF company \cup flight = {} THEN overlapped ELSE overlapped \cup company \cup {j}
    /\ UNCHANGED <<trips, tasks, work, flight, faults, damaged>>

(***************************************************************************)
(* Creating a trip: create.js ("create") and trip.js ("createTrip").       *)
(***************************************************************************)
CheckTasks(j) ==
    /\ At(j, Creations, "check")
    /\ LET asked == ToSet(work[j].tasks)
           found == {k \in asked : ~tasks[k].deleted}
           missing == IF work[j].kind = "create" THEN found # asked ELSE found = {}
       IN  GoesTo(j, IF missing \/ \E k \in found : tasks[k].trip # NoTrip
                     THEN "failed" ELSE "insert")
    /\ UNCHANGED <<trips, tasks, work, flight, faults, before, overlapped, damaged>>

NewTrip(j) ==
    [tasks |-> work[j].tasks, window |-> work[j].window, done |-> FALSE,
     staffs |-> work[j].staffs, deleted |-> FALSE]

\* The trip is written, and the job knows it, or it throws although it is.
TripIsMade(j, t) ==
    \/ /\ job' = [job EXCEPT ![j].at = "bind", ![j].doc = t]
       /\ UNCHANGED <<faults, damaged>>
    \/ /\ Fault
       /\ GoesTo(j, "failed")
       /\ damaged' = damaged \cup {j}

InsertTrip(j) ==
    /\ At(j, {"create"}, "insert")
    /\ Fresh \in TripId
    /\ trips' = Append(trips, NewTrip(j))
    /\ TripIsMade(j, Fresh)
    /\ UNCHANGED <<tasks, work, flight, before, overlapped>>

\* Slip: a trip is always inserted.
InsertAnyway(j) ==
    /\ At(j, {"createTrip"}, "insert")
    /\ Fresh \in TripId
    /\ trips' = Append(trips, NewTrip(j))
    /\ TripIsMade(j, Fresh)
    /\ UNCHANGED <<tasks, work, flight, before, overlapped>>

\* findOneAndUpdate with upsert: a trip that holds one of the tasks is
\* overwritten.  Whether the query sees deleted trips is the library's affair.
UpsertTrip(j) ==
    /\ At(j, {"createTrip"}, "insert")
    /\ LET matching == {t \in DOMAIN trips : ToSet(trips[t].tasks) \cap ToSet(work[j].tasks) # {}}
       IN  \/ \E t \in matching :
                /\ trips' = [trips EXCEPT ![t].tasks = work[j].tasks, ![t].window = work[j].window,
                                          ![t].staffs = work[j].staffs]
                /\ TripIsMade(j, t)
           \/ /\ ~\E t \in matching : Live(t)
              /\ Fresh \in TripId
              /\ trips' = Append(trips, NewTrip(j))
              /\ TripIsMade(j, Fresh)
    /\ UNCHANGED <<tasks, work, flight, before, overlapped>>

\* $addToSet with $each: what is not there yet, once.
Added(s, asked) ==
    LET new == {i \in DOMAIN asked :
                    asked[i] \notin ToSet(s) \cup {asked[h] : h \in 1..(i - 1)}}
    IN  s \o Arranged(asked, new, [i \in DOMAIN asked |-> [start |-> i]])

AddToSet(j) ==
    /\ At(j, {"addTasks"}, "add")
    /\ trips' = IF work[j].trip \in DOMAIN trips
                THEN [trips EXCEPT ![work[j].trip].tasks = Added(@, work[j].tasks)]
                ELSE trips
    /\ TripIsMade(j, work[j].trip)
    /\ UNCHANGED <<tasks, work, flight, before, overlapped>>

\* trip.js wants to take the trip back, but its delete() is given the id of
\* the document where its validation asks for a property tripId, and throws.
\* The unbinding of the tasks has begun then, and nobody waits for it.
BindThrows(j) ==
    /\ GoesTo(j, "failed")
    /\ IF work[j].kind = "createTrip"
       THEN /\ flight' = flight \cup {[by |-> NoJob, op |-> "unbind", tasks |-> ToSet(work[j].tasks)]}
            /\ damaged' = damaged \cup {j}
       ELSE UNCHANGED <<flight, damaged>>

BindTripToTask(j) ==
    /\ At(j, Creations \cup {"addTasks"}, "bind")
    /\ tasks' = [k \in Task |-> IF k \in ToSet(work[j].tasks)
                                THEN [tasks[k] EXCEPT !.trip = job[j].doc] ELSE tasks[k]]
    /\ \/ GoesTo(j, "ok") /\ UNCHANGED <<flight, faults, damaged>>
       \/ Fault /\ BindThrows(j)
    /\ UNCHANGED <<trips, work, before, overlapped>>

\* A read or a write of a creation or an addition that throws and does nothing.
RequestThrows(j) ==
    /\ job[j].at \in {"check", "insert", "add", "bind"}
    /\ Fault
    /\ IF job[j].at = "bind" THEN BindThrows(j)
       ELSE GoesTo(j, "failed") /\ UNCHANGED <<flight, damaged>>
    /\ UNCHANGED <<trips, tasks, work, before, overlapped>>

(***************************************************************************)
(* Sagas: the engine and its workers.                                      *)
(***************************************************************************)
Worker(j) == work[j].steps[job[j].step]
Called(j, names) == At(j, {"saga"}, "call") /\ Worker(j) \in names
Writing(j, name) == At(j, {"saga"}, "write") /\ Worker(j) = name

\* Slip: a worker that completed is called again.
CompletedForOnce(j, output) ==
    job' = [job EXCEPT ![j].at = IF job[j].step = Len(work[j].steps) THEN "ok" ELSE "call",
                       ![j].out = Append(@, output)]

Completed(j, output) ==
    job' = [job EXCEPT ![j].at = IF job[j].step = Len(work[j].steps) THEN "ok" ELSE "call",
                       ![j].step = @ + 1,
                       ![j].out = Append(@, output)]

\* The write is done and the engine learns it, or it does not.
Answers(j, output) ==
    \/ Completed(j, output) /\ UNCHANGED <<faults, damaged>>
    \/ Fault /\ GoesTo(j, "stepFailed") /\ damaged' = damaged \cup {j}

NotFound == [found |-> FALSE]

\* remove wants the trip with the task, order and number do without a trip.
\* Ordering reads the first task of the trip and throws when there is none.
ReadTrip(j) ==
    /\ Called(j, {"remove", "reorder", "number"})
    /\ LET t == work[j].trip
           fails == CASE Worker(j) = "remove" -> ~Live(t) \/ work[j].task \notin ToSet(trips[t].tasks)
                      [] Worker(j) = "reorder" -> Live(t) /\ trips[t].tasks = <<>>
                      [] OTHER -> FALSE
       IN  IF fails THEN GoesTo(j, "stepFailed")
           ELSE IF ~Live(t) THEN Completed(j, NotFound)
           ELSE job' = [job EXCEPT ![j].at = "write",
                                   ![j].doc = [trip |-> trips[t],
                                               numbers |-> [k \in Task |-> tasks[k].number]]]
    /\ UNCHANGED <<trips, tasks, work, flight, faults, before, overlapped, damaged>>

Found(j) == [found |-> TRUE, trip |-> job[j].doc.trip, numbers |-> job[j].doc.numbers]

Rest(j) == ByWindow(job[j].doc.trip.tasks, Task \ {work[j].task})

\* The trip goes with its last task, and is DONE when no required task of it
\* is open any more.  The tripId of the task stays.
RemoveTaskFromTrip(j) ==
    /\ Writing(j, "remove")
    /\ trips' = IF Rest(j) = <<>>
                THEN [trips EXCEPT ![work[j].trip].deleted = TRUE]
                ELSE [trips EXCEPT ![work[j].trip].tasks = Rest(j),
                                   ![work[j].trip].window = Hull(Rest(j)),
                                   ![work[j].trip].done =
                                       job[j].doc.trip.done \/ ToSet(Rest(j)) \cap Open = {}]
    /\ Answers(j, Found(j))
    /\ UNCHANGED <<tasks, work, flight, before, overlapped>>

ReorderTaskSequenceInTrip(j) ==
    /\ Writing(j, "reorder")
    /\ LET t == work[j].trip
           sorted == ByWindow(job[j].doc.trip.tasks, Task)
       IN  trips' = IF Live(t) THEN [trips EXCEPT ![t].tasks = sorted, ![t].window = Hull(sorted)]
                    ELSE trips
    /\ Answers(j, Found(j))
    /\ UNCHANGED <<tasks, work, flight, before, overlapped>>

Numbering(j, number) ==
    {[by |-> j, op |-> "number", task |-> k, number |-> number[k]] :
        k \in ToSet(job[j].doc.trip.tasks)}

\* Slip: numbered from zero.
NumberFromZero(j) ==
    /\ Writing(j, "number")
    /\ LET sorted == ByWindow(job[j].doc.trip.tasks, Task)
       IN  flight' = flight \cup
               Numbering(j, [k \in ToSet(sorted) |-> (CHOOSE i \in DOMAIN sorted : sorted[i] = k) - 1])
    /\ GoesTo(j, "number")
    /\ UNCHANGED <<trips, tasks, work, faults, before, overlapped, damaged>>

SetTaskSequenceSystemByTrip(j) ==
    /\ Writing(j, "number")
    /\ LET sorted == ByWindow(job[j].doc.trip.tasks, Task)
       IN  flight' = flight \cup
               Numbering(j, [k \in ToSet(sorted) |-> CHOOSE i \in DOMAIN sorted : sorted[i] = k])
    /\ GoesTo(j, "number")
    /\ UNCHANGED <<trips, tasks, work, faults, before, overlapped, damaged>>

TasksAreNumbered(j) ==
    /\ At(j, {"saga"}, "number")
    /\ ~\E w \in flight : w.by = j
    /\ Completed(j, Found(j))
    /\ UNCHANGED <<trips, tasks, work, flight, faults, before, overlapped, damaged>>

AssignStaffToTasks(j) ==
    /\ Called(j, {"assign"})
    /\ tasks' = [k \in Task |-> IF k \in ToSet(work[j].tasks)
                                THEN [tasks[k] EXCEPT !.staffs = {work[j].staff}, !.trip = NoTrip]
                                ELSE tasks[k]]
    /\ Answers(j, NotFound)
    /\ UNCHANGED <<trips, work, flight, before, overlapped>>

\* The todos are read from the task: none of a deleted one.
ReadTodos(j) ==
    /\ Called(j, {"deleteTodos"})
    /\ GoesTo(j, IF tasks[work[j].task].deleted THEN "stepFailed" ELSE "write")
    /\ UNCHANGED <<trips, tasks, work, flight, faults, before, overlapped, damaged>>

DeleteTodosByTask(j) ==
    /\ Writing(j, "deleteTodos")
    /\ tasks' = [tasks EXCEPT ![work[j].task].todosDeleted = TRUE]
    /\ Answers(j, NotFound)
    /\ UNCHANGED <<trips, work, flight, before, overlapped>>

DeleteTaskById(j) ==
    /\ Called(j, {"deleteTask"})
    /\ tasks' = [tasks EXCEPT ![work[j].task].deleted = TRUE]
    /\ Answers(j, NotFound)
    /\ UNCHANGED <<trips, work, flight, before, overlapped>>

\* A step of another service.
OtherStep(j) ==
    /\ Called(j, {"other"})
    /\ Completed(j, NotFound)
    /\ UNCHANGED <<trips, tasks, work, flight, faults, before, overlapped, damaged>>

StepThrows(j) ==
    /\ \/ At(j, {"saga"}, "call")
       \/ At(j, {"saga"}, "write")
    /\ Fault
    /\ GoesTo(j, "stepFailed")
    /\ UNCHANGED <<trips, tasks, work, flight, before, overlapped, damaged>>

\* The engine calls a failed worker again, or gives up.
Again(j) ==
    /\ job[j].at = "stepFailed"
    /\ GoesTo(j, "call")
    /\ UNCHANGED <<trips, tasks, work, flight, faults, before, overlapped, damaged>>

Compensate(j) ==
    /\ job[j].at = "stepFailed"
    /\ GoesTo(j, IF job[j].out = <<>> THEN "undone" ELSE "undo")
    /\ UNCHANGED <<trips, tasks, work, flight, faults, before, overlapped, damaged>>

(***************************************************************************)
(* Compensations.                                                          *)
(***************************************************************************)
Undoing(j, name) ==
    At(j, {"saga"}, "undo") /\ work[j].steps[Len(job[j].out)] = name
Output(j) == Last(job[j].out)

Compensated(j) ==
    job' = [job EXCEPT ![j].at = IF Len(job[j].out) = 1 THEN "undone" ELSE "undo",
                       ![j].out = Front(@)]

\* A compensation that throws is called again, or the saga stays half undone.
CompensationThrows(j) == Fault /\ \E place \in {"undo", "broken"} : GoesTo(j, place)

CompensationAnswers(j) ==
    \/ Compensated(j) /\ UNCHANGED faults
    \/ CompensationThrows(j)

\* Slip: the time of the trip is not put back.
RestoreTasksOfTrip(j) ==
    /\ Undoing(j, "remove")
    /\ LET t == work[j].trip
           old == Output(j).trip
           wasDeleted == ToSet(old.tasks) = {work[j].task}
       IN  trips' = IF wasDeleted THEN [trips EXCEPT ![t].deleted = FALSE]
                    ELSE [trips EXCEPT ![t].tasks = old.tasks, ![t].done = old.done]
    /\ CompensationAnswers(j)
    /\ UNCHANGED <<tasks, work, flight, before, overlapped, damaged>>

RestoreTrip(j) ==
    /\ Undoing(j, "remove")
    /\ LET t == work[j].trip
           old == Output(j).trip
           wasDeleted == ToSet(old.tasks) = {work[j].task}
       IN  trips' = IF wasDeleted THEN [trips EXCEPT ![t].deleted = FALSE]
                    ELSE [trips EXCEPT ![t].tasks = old.tasks, ![t].done = old.done,
                                       ![t].window = old.window]
    /\ CompensationAnswers(j)
    /\ UNCHANGED <<tasks, work, flight, before, overlapped, damaged>>

RestoreSequence(j) ==
    /\ Undoing(j, "reorder")
    /\ Output(j).found
    /\ LET t == work[j].trip
           old == Output(j).trip
       IN  trips' = IF Live(t) THEN [trips EXCEPT ![t].tasks = old.tasks, ![t].window = old.window]
                    ELSE trips
    /\ CompensationAnswers(j)
    /\ UNCHANGED <<tasks, work, flight, before, overlapped, damaged>>

\* Without a trip there was nothing to note, and the compensation throws.
NothingToRestore(j) ==
    /\ Undoing(j, "reorder") \/ Undoing(j, "number")
    /\ ~Output(j).found
    /\ GoesTo(j, "broken")
    /\ UNCHANGED <<trips, tasks, work, flight, faults, before, overlapped, damaged>>

RestoreNumbers(j) ==
    /\ Undoing(j, "number")
    /\ Output(j).found
    /\ flight' = flight \cup
           {[by |-> j, op |-> "number", task |-> k, number |-> Output(j).numbers[k]] :
               k \in ToSet(Output(j).trip.tasks)}
    /\ GoesTo(j, "unnumber")
    /\ UNCHANGED <<trips, tasks, work, faults, before, overlapped, damaged>>

NumbersAreRestored(j) ==
    /\ At(j, {"saga"}, "unnumber")
    /\ ~\E w \in flight : w.by = j
    /\ Compensated(j)
    /\ UNCHANGED <<trips, tasks, work, flight, faults, before, overlapped, damaged>>

\* The tasks the workflow was started with are written back.
RestoreStaff(j) ==
    /\ Undoing(j, "assign")
    /\ tasks' = [k \in Task |-> IF k \in ToSet(work[j].tasks)
                                THEN [tasks[k] EXCEPT !.staffs = before[j].tasks[k].staffs,
                                                      !.trip = before[j].tasks[k].trip]
                                ELSE tasks[k]]
    /\ CompensationAnswers(j)
    /\ UNCHANGED <<trips, work, flight, before, overlapped, damaged>>

RestoreTodos(j) ==
    /\ Undoing(j, "deleteTodos")
    /\ tasks' = [tasks EXCEPT ![work[j].task].todosDeleted = FALSE]
    /\ CompensationAnswers(j)
    /\ UNCHANGED <<trips, work, flight, before, overlapped, damaged>>

RestoreTask(j) ==
    /\ Undoing(j, "deleteTask")
    /\ tasks' = [tasks EXCEPT ![work[j].task].deleted = FALSE]
    /\ CompensationAnswers(j)
    /\ UNCHANGED <<trips, work, flight, before, overlapped, damaged>>

UndoOther(j) ==
    /\ Undoing(j, "other")
    /\ Compensated(j)
    /\ UNCHANGED <<trips, tasks, work, flight, faults, before, overlapped, damaged>>

UndoThrows(j) ==
    /\ At(j, {"saga"}, "undo")
    /\ CompensationThrows(j)
    /\ UNCHANGED <<trips, tasks, work, flight, before, overlapped, damaged>>

(***************************************************************************)
(* Promise.all: its writes land in any order; the first one that fails     *)
(* rejects it, and nobody waits for the others any more.                   *)
(***************************************************************************)
Land(w) ==
    /\ flight' = flight \ {w}
    /\ tasks' = IF w.op = "number" THEN [tasks EXCEPT ![w.task].number = w.number]
                ELSE [k \in Task |-> IF k \in w.tasks THEN [tasks[k] EXCEPT !.trip = NoTrip]
                                     ELSE tasks[k]]
    /\ UNCHANGED <<trips, work, job, faults, before, overlapped, damaged>>

WriteThrows(w) ==
    /\ Fault
    /\ flight' = {IF v.by = w.by THEN [v EXCEPT !.by = NoJob] ELSE v : v \in flight \ {w}}
    /\ IF w.by = NoJob THEN UNCHANGED <<job, damaged>>
       ELSE /\ \E place \in IF job[w.by].at = "number" THEN {"stepFailed"} ELSE {"undo", "broken"} :
                  GoesTo(w.by, place)
            /\ damaged' = damaged \cup {w.by}
    /\ UNCHANGED <<trips, tasks, work, before, overlapped>>

PlanningInit ==
    /\ job = [j \in Job |-> Waiting]
    /\ flight = {} /\ faults = 0
    /\ before = [j \in Job |-> [trips |-> trips, tasks |-> tasks]]
    /\ overlapped = {} /\ damaged = {}

JobStep(j) ==
    \/ Submit(j) \/ CheckTasks(j) \/ InsertTrip(j) \/ UpsertTrip(j) \/ AddToSet(j)
    \/ BindTripToTask(j) \/ RequestThrows(j)
    \/ ReadTrip(j) \/ RemoveTaskFromTrip(j) \/ ReorderTaskSequenceInTrip(j)
    \/ SetTaskSequenceSystemByTrip(j) \/ TasksAreNumbered(j) \/ AssignStaffToTasks(j)
    \/ ReadTodos(j) \/ DeleteTodosByTask(j) \/ DeleteTaskById(j) \/ OtherStep(j)
    \/ StepThrows(j) \/ Again(j) \/ Compensate(j)
    \/ RestoreTrip(j) \/ RestoreSequence(j) \/ NothingToRestore(j) \/ RestoreNumbers(j)
    \/ NumbersAreRestored(j) \/ RestoreStaff(j) \/ RestoreTodos(j) \/ RestoreTask(j)
    \/ UndoOther(j) \/ UndoThrows(j)

PlanningNext ==
    \/ \E j \in Job : JobStep(j)
    \/ \E w \in flight : Land(w) \/ WriteThrows(w)

-----------------------------------------------------------------------------
Ending(j, place) == job[j].at # place /\ job'[j].at = place

\* The saga's task was there, with its todos, when it began.
WasWhole(j) ==
    LET doc == before[j].tasks[work[j].task] IN ~doc.deleted /\ ~doc.todosDeleted

\* A saga whose compensations were all called leaves everything as it found
\* it, when it was alone and every write reported as failed had failed.  Only
\* what was deleted before comes back.  (compensate of the workers.)
UndoneLeavesNoTrace ==
    [][\A j \in Job :
        (Ending(j, "undone") /\ j \notin overlapped /\ damaged = {} /\ WasWhole(j)) =>
            tasks' = before[j].tasks /\ trips' = before[j].trips]_planning

\* The saga orders or shortens its trip, and numbers the tasks after that.
NumbersLast(j) ==
    /\ "number" \in ToSet(work[j].steps) /\ {"remove", "reorder"} \cap ToSet(work[j].steps) # {}
    /\ \A m, n \in DOMAIN work[j].steps :
        (work[j].steps[m] \in {"remove", "reorder"} /\ work[j].steps[n] = "number") => m < n

\* A trip lasts from its first task to its last one, and the tasks are in the
\* order of their times.
InOrder(doc) ==
    /\ doc.window = Hull(doc.tasks)
    /\ \A m, n \in DOMAIN doc.tasks :
        m < n => Window[doc.tasks[m]].start <= Window[doc.tasks[n]].start

\* A workflow that orders or shortens a trip and then numbers its tasks leaves,
\* when it was alone, the trip in order and each task where its number says,
\* whatever was tried twice.  (reorderTaskSequenceInTrip and
\* removeTaskFromTrip with setTaskSequenceSystemByTrip.)
NumberedInOrder ==
    [][\A j \in Job :
        (/\ Ending(j, "ok") /\ j \notin overlapped /\ work[j].kind = "saga"
         /\ NumbersLast(j) /\ Live(work[j].trip)) =>
        LET doc == trips'[work[j].trip]
        IN  /\ InOrder(doc)
            /\ \A k \in ToSet(doc.tasks) :
                tasks'[k].number \in DOMAIN doc.tasks /\ doc.tasks[tasks'[k].number] = k]_planning

Asked(j) == IF work[j].kind \in Creations \cup {"addTasks"} THEN ToSet(work[j].tasks) ELSE {}

Others(j) == {i \in overlapped \ {j} : Asked(i) \cap Asked(j) # {}}
InTripBefore(j) ==
    \E t \in DOMAIN before[j].trips :
        ~before[j].trips[t].deleted /\ ToSet(before[j].trips[t].tasks) \cap Asked(j) # {}

\* A creation of create.js may share its tasks when it had company or failed
\* half-way.  One of trip.js overwrites a trip that has a task of its, so it
\* may share them when there were two, since it had company, or when a write
\* of it was not answered for.
CreationMayShare(j) ==
    \/ j \in damaged
    \/ work[j].kind = "create" /\ (j \in overlapped \/ job[j].at = "failed")
    \/ /\ work[j].kind = "createTrip" /\ j \in overlapped
       /\ InTripBefore(j) \/ \E i, l \in Others(j) : i # l

\* Adding a task or assigning a driver to it (which clears its tripId) does not
\* ask which trip it is in, nor does trip.js ask of a deleted task; a saga that
\* had company writes back a list of tasks it read before.
MayShare(j, k) ==
    \/ work[j].kind \in Creations /\ k \in Asked(j) /\ CreationMayShare(j)
    \/ work[j].kind = "createTrip" /\ k \in Asked(j) /\ before[j].tasks[k].deleted
    \/ work[j].kind = "addTasks" /\ k \in Asked(j)
    \/ work[j].kind = "saga" /\ (j \in overlapped \/ "assign" \in ToSet(work[j].steps))

\* A task is in one trip only, apart from these: requests one after the other,
\* workflows, and two requests of trip.js that meet keep it so, whatever fails.
TaskInOneTrip ==
    \A t, u \in DOMAIN trips : (Live(t) /\ Live(u) /\ t # u) =>
        \A k \in ToSet(trips[t].tasks) \cap ToSet(trips[u].tasks) :
            \E j \in Job : MayShare(j, k)
=============================================================================
