----------------------------- MODULE AutoAssign -----------------------------
(***************************************************************************)
(* Handing out tasks of the pool to drivers (domains/task/                 *)
(* autoAssignTask.js) while trips are planned.  A call reads the cache of  *)
(* the tasks handed out so far, then for one driver after another his trip *)
(* of the day, the pool and the distances, and gives him the first task    *)
(* that fits into a free slot.  In the end it saves what it gave away in   *)
(* the cache and answers.  Calls share the cache and nothing else.         *)
(***************************************************************************)
EXTENDS TripPlanning

CONSTANTS
    Call,
    Pool,      \* the tasks that are NEW or FAILED
    Appointed, \* the tasks of queue "A", whose time is fixed; others: "R"
    Tomorrow,  \* the tasks whose windowTime is on the next day
    Length,    \* standardTimeLength of each task
    Due,       \* deadline of each task, a dated time
    Cases      \* the situations to begin with: documents and requests

StaffDoc ==
    [driver: Driver, now: Nat, shift: Seq(Slot), reserved: Seq(Slot), reach: SUBSET Task]

\* The parts of a shift end after they begin and do not overlap (fleet's data;
\* times of the clock are compared, so that no part passes midnight).  To begin
\* with a task that a trip holds names this trip.
ASSUME AssignAssumption ==
    /\ Pool \subseteq Task /\ Due \in [Task -> Nat] /\ Length \in [Task -> Nat]
    /\ \A case \in Cases :
        /\ case.trips \in Seq(TripDoc) /\ DOMAIN case.trips \subseteq TripId
        /\ case.tasks \in [Task -> TaskDoc]
        /\ \A t \in DOMAIN case.trips : ~case.trips[t].deleted =>
            \A k \in ToSet(case.trips[t].tasks) : case.tasks[k].trip = t
        /\ case.work \in [Job -> WorkDoc]
        /\ case.asked \in [Call -> Seq(StaffDoc)]
        /\ \A c \in Call : \A n \in DOMAIN case.asked[c] :
            LET staff == case.asked[c][n]
            IN  /\ \A s \in ToSet(staff.shift) \cup ToSet(staff.reserved) : s.start < s.end
                /\ \A i, m \in DOMAIN staff.shift : i # m => Disjoint(staff.shift[i], staff.shift[m])

VARIABLES
    asked,     \* the drivers each call is about, in order
    call,      \* how far it is
    cache,     \* the tasks noted as handed out
    handed,    \* history: what was answered, and to which call
    met        \* history: pairs of calls that were under way together

assigning == <<asked, call, cache, handed, met>>
vars == <<planning, assigning>>

NotCalled == [at |-> "ready", next |-> 1, seen |-> {}, current |-> {},
              trip |-> <<>>, pool |-> {}, given |-> {}]

Staff(c) == asked[c][call[c].next]
CallActive(c) == call[c].at \in {"trip", "pool", "distances", "save"}

(***************************************************************************)
(* What a call works out.                                                  *)
(***************************************************************************)
SlotsOfTasks(trip) ==
    IF trip = <<>> THEN <<>> ELSE [i \in DOMAIN trip[1].tasks |-> Window[trip[1].tasks[i]]]
TripSlot(trip) == [i \in DOMAIN trip |-> trip[i].window]

SlotsOf(staff, trip) ==
    AvailableSlots(staff.shift, staff.reserved, TripSlot(trip), SlotsOfTasks(trip))

DatedWindow(k) ==
    LET day == IF k \in Tomorrow THEN Day ELSE 0
    IN  [start |-> Window[k].start + day, end |-> Window[k].end + day]

\* The tasks no longer than the longest slot that are due within a day.
GetUnassignedTasksFromTaskPool(staff, slots) ==
    {k \in Pool \cap staff.reach :
        /\ ~tasks[k].deleted
        /\ \E i \in DOMAIN slots : Length[k] <= CalculateDuration(slots[i])
        /\ staff.now <= Due[k] /\ Due[k] <= staff.now + Day}

\* The pool is sorted by deadline, appointments first; which of two that are
\* equal in this comes first is the database's affair.
RankedBefore(k, l) == Due[k] < Due[l] \/ (Due[k] = Due[l] /\ k \in Appointed /\ l \notin Appointed)

\* Slip: a slot that has begun is given from its beginning.
StartOfSlot(now, slot) == CeilingHour(slot.start)

StartTime(now, slot) ==
    CeilingHour(IF slot.start < ClockOf(now) THEN ClockOf(now) ELSE slot.start)
EndTime(start) == (start + Hour) % Day

IsInTimeDeadline(now, end, due) ==
    \/ UTCDay(now) < UTCDay(due)
    \/ UTCDay(now) = UTCDay(due) /\ end <= ClockOf(due)

\* The times of an appointment have to lie in the slot too, but its place there
\* is worked out like that of the others.  The check that it is not over holds
\* a date of the database against the text of the request, a comparison that is
\* never true: no appointment is passed over for being past.
Fits(k, slot, now) ==
    LET end == EndTime(StartTime(now, slot))
    IN  /\ k \in Appointed => Inside(Window[k], slot)
        /\ ClockOf(now) < slot.end
        /\ end \div Hour # 0
        /\ end <= slot.end
        /\ IsInTimeDeadline(now, end, Due[k])

\* getStartAndEndTime: the times of the clock get the day of the call in UTC,
\* or the next when the call comes before seven and the task is after.
WindowTime(k, now, start) ==
    LET date == UTCDay(now) + (IF ClockOf(now) < GMT7 /\ start >= GMT7 THEN 1 ELSE 0)
        Dated(t) == date * Day + ((t - GMT7) % Day) + GMT7
    IN  IF k \in Appointed THEN DatedWindow(k)
        ELSE [start |-> Dated(start), end |-> Dated(EndTime(start))]

\* Slip: what was handed out before is not looked at.
FittingAnyway(pool, slots, now, taken) ==
    {p \in pool \X (DOMAIN slots) : Fits(p[1], slots[p[2]], now)}

\* The first task of the pool that fits, in the first slot it fits.
Fitting(pool, slots, now, taken) ==
    {p \in (pool \ taken) \X (DOMAIN slots) : Fits(p[1], slots[p[2]], now)}
IsFirst(p, S) == \A q \in S : ~RankedBefore(q[1], p[1]) /\ (q[1] = p[1] => p[2] <= q[2])

(***************************************************************************)
(* The steps of a call.                                                    *)
(***************************************************************************)
\* The call is through with a driver.
Onward(c) == IF call[c].next < Len(asked[c]) THEN "trip" ELSE "save"

ReadCache(c) ==
    /\ call[c].at = "ready" /\ asked[c] # <<>>
    /\ call' = [call EXCEPT ![c].at = "trip", ![c].seen = cache]
    /\ met' = met \cup UNION {{<<c, d>>, <<d, c>>} : d \in {e \in Call : CallActive(e)}}
    /\ UNCHANGED <<planning, asked, cache, handed>>

\* His trip of the day; a read that throws counts as no trip.
ReadTripOfStaff(c) ==
    /\ call[c].at = "trip"
    /\ LET his == {t \in DOMAIN trips : Live(t) /\ Staff(c).driver \in trips[t].staffs}
       IN  \/ \E t \in his :
                /\ call' = [call EXCEPT ![c].at = "pool", ![c].trip = <<trips[t]>>]
                /\ UNCHANGED faults
           \/ /\ call' = [call EXCEPT ![c].at = "pool", ![c].trip = <<>>]
              /\ IF his = {} THEN UNCHANGED faults ELSE Fault
    /\ UNCHANGED <<trips, tasks, work, job, flight, before, overlapped, damaged,
                   asked, cache, handed, met>>

SkipStaff(c) == call' = [call EXCEPT ![c].at = Onward(c), ![c].next = @ + 1]

\* An empty pool is an error too: the driver gets nothing.
ReadTaskPool(c) ==
    /\ call[c].at = "pool"
    /\ LET found == GetUnassignedTasksFromTaskPool(Staff(c), SlotsOf(Staff(c), call[c].trip))
       IN  IF found = {} THEN SkipStaff(c)
           ELSE call' = [call EXCEPT ![c].at = "distances", ![c].pool = found]
    /\ UNCHANGED <<planning, asked, cache, handed, met>>

\* The distances are read and the driver gets a task, or none fits.
GetAssignTask(c) ==
    /\ call[c].at = "distances"
    /\ LET staff == Staff(c)
           slots == SlotsOf(staff, call[c].trip)
           choices == Fitting(call[c].pool, slots, staff.now, call[c].current \cup call[c].seen)
       IN  \/ choices = {} /\ SkipStaff(c)
           \/ \E p \in choices :
                /\ IsFirst(p, choices)
                /\ LET k == p[1]
                       start == StartTime(staff.now, slots[p[2]])
                   IN  call' = [call EXCEPT
                            ![c].at = Onward(c),
                            ![c].next = @ + 1,
                            ![c].current = @ \cup {k},
                            ![c].given = @ \cup {[number |-> call[c].next, task |-> k,
                                                  trip |-> call[c].trip,
                                                  window |-> WindowTime(k, staff.now, start)]}]
    /\ UNCHANGED <<planning, asked, cache, handed, met>>

ReadThrows(c) ==
    /\ call[c].at \in {"pool", "distances"}
    /\ Fault
    /\ SkipStaff(c)
    /\ UNCHANGED <<trips, tasks, work, job, flight, before, overlapped, damaged,
                   asked, cache, handed, met>>

Answer(c) ==
    /\ call' = [call EXCEPT ![c].at = "answered"]
    /\ handed' = handed \cup {[call |-> c, given |-> g] : g \in call[c].given}

\* Nothing is saved when nothing was given away.
SaveCache(c) ==
    /\ call[c].at = "save"
    /\ cache' = cache \cup call[c].current
    /\ Answer(c)
    /\ UNCHANGED <<planning, asked, met>>

\* The tasks are not saved, or they are and the answer is lost.
SaveCacheThrows(c) ==
    /\ call[c].at = "save"
    /\ call[c].current # {}
    /\ Fault
    /\ call' = [call EXCEPT ![c].at = "thrown"]
    /\ cache' \in {cache, cache \cup call[c].current}
    /\ UNCHANGED <<trips, tasks, work, job, flight, before, overlapped, damaged, asked, handed, met>>

CallStep(c) ==
    \/ ReadCache(c) \/ ReadTripOfStaff(c) \/ ReadTaskPool(c) \/ GetAssignTask(c)
    \/ ReadThrows(c) \/ SaveCache(c) \/ SaveCacheThrows(c)

AssigningInit ==
    /\ call = [c \in Call |-> NotCalled]
    /\ cache = {} /\ handed = {} /\ met = {}

Init ==
    /\ \E case \in Cases :
        trips = case.trips /\ tasks = case.tasks /\ work = case.work /\ asked = case.asked
    /\ PlanningInit
    /\ AssigningInit

Next ==
    \/ PlanningNext /\ UNCHANGED assigning
    \/ \E c \in Call : CallStep(c)

Spec == Init /\ [][Next]_vars

-----------------------------------------------------------------------------
TypeOK ==
    /\ trips \in Seq(TripDoc) /\ DOMAIN trips \subseteq TripId
    /\ tasks \in [Task -> TaskDoc]
    /\ \A j \in Job : Len(job[j].out) < job[j].step
    /\ faults \in 0..MaxFaults
    /\ overlapped \subseteq Job /\ damaged \subseteq Job
    /\ \A c \in Call : /\ call[c].next \in 1..(Len(asked[c]) + 1)
                       /\ call[c].current = {g.task : g \in call[c].given}
    /\ cache \subseteq Pool

\* What may be expected of a trip a call reads: it lasts as long as its tasks,
\* which follow one another within the shift, none of them in a pause.
\* addTaskToTrip.js does not keep to it.
InShift(staff, trip) ==
    \A i \in DOMAIN trip :
        /\ trip[i].window.start <= trip[i].window.end
        /\ \A k \in ToSet(trip[i].tasks) :
            /\ Inside(Window[k], trip[i].window)
            /\ \A l \in ToSet(trip[i].tasks) \ {k} : Disjoint(Window[k], Window[l])
            /\ \A pause \in ToSet(ConvertShiftToBreakSlots(Starts(staff.shift))) :
                Disjoint(Window[k], pause)
        /\ \E m, n \in DOMAIN staff.shift :
            staff.shift[m].start <= trip[i].window.start /\ trip[i].window.end <= staff.shift[n].end

EarlyHours(now) == ClockOf(now) < GMT7

\* The hour after 23:00 is rounded to is the first hour of the day, and the end
\* of it is before the end of a slot by the clock.
RoundedToMidnight(staff, g) ==
    /\ g.task \notin Appointed /\ ClockOf(g.window.start) = 0
    /\ \/ ClockOf(staff.now) > Day - Hour
       \/ \E s \in ToSet(SlotsOf(staff, g.trip)) : s.start > Day - Hour

\* A reserved time is in one piece of the driver's free time and apart from
\* the others.
Reservable(staff, trip, r) ==
    /\ \E s \in ToSet(SlotsOf([staff EXCEPT !.reserved = <<>>], trip)) : Inside(r, s)
    /\ \A q \in ToSet(staff.reserved) \ {r} : Disjoint(q, r)

\* The time a driver is given is his: it lies in his shift, in no pause of it,
\* and none of the tasks of his trip and none of his reserved times is in it.
\* (autoAssignTask.js.)  Reserved times are kept free in a shift of one part;
\* for a call or a slot that begins between 23:00 and midnight the code hands
\* out the first hour of the day.
AssignedTimeIsFree ==
    \A c \in Call : \A g \in call[c].given :
        LET staff == asked[c][g.number]
            w == [start |-> ClockOf(g.window.start), end |-> ClockOf(g.window.end)]
        IN  (InShift(staff, g.trip) /\ ~RoundedToMidnight(staff, g)) =>
              /\ \A time \in w.start..(w.end - 1) : \E s \in ToSet(staff.shift) :
                    s.start <= time /\ time < s.end
              /\ \A i \in DOMAIN g.trip : \A k \in ToSet(g.trip[i].tasks) : Disjoint(w, Window[k])
              /\ \A r \in ToSet(staff.reserved) :
                    (Len(staff.shift) = 1 /\ Reservable(staff, g.trip, r)) => Disjoint(w, r)

\* A task without an appointment is given an hour that is still to come and
\* over before its deadline.  Before seven the deadline is not looked at, and
\* the hour that ends at seven gets an end on the wrong day.  The hour handed
\* out for one after 23:00 may be over its deadline, or, before seven, in the
\* past.  (getAssignTask.)  Nothing is claimed of an appointment: the code
\* hands out one that is over.
AssignedInTime ==
    \A c \in Call : \A g \in call[c].given :
        LET staff == asked[c][g.number]
            now == staff.now
        IN  g.task \notin Appointed =>
              /\ now <= g.window.start \/ (EarlyHours(now) /\ RoundedToMidnight(staff, g))
              /\ \/ g.window.end = g.window.start + Hour
                 \/ EarlyHours(now) /\ ClockOf(g.window.end) = GMT7
              /\ g.window.end <= Due[g.task] \/ EarlyHours(now) \/ RoundedToMidnight(staff, g)

\* No task is handed out twice, by one call or by two, unless the two were
\* under way together.  (The cache of assignTask.)
AssignedOnce ==
    \A a, b \in handed :
        a.given.task = b.given.task => (a = b \/ <<a.call, b.call>> \in met)
=============================================================================
