----------------------------- MODULE TimeSlots -----------------------------
(***************************************************************************)
(* The slot arithmetic of domains/task/autoAssignTask.js: from a driver's  *)
(* shift, his trip of the day, its tasks and reserved times to the slots   *)
(* in which another task can be done.                                      *)
(*                                                                         *)
(* Times are ticks of a quarter of an hour.  A slot holds times of the     *)
(* clock at GMT+7 ('HH:mm' in the code), and a dated time counts from      *)
(* midnight of the day a driver is asked about.                            *)
(***************************************************************************)
EXTENDS Integers, Sequences, FiniteSets, SequencesExt

Hour == 4
Day == 24 * Hour
GMT7 == 7 * Hour

Clock == 0..(Day - 1)
Slot == [start: Clock, end: Clock]

\* formatHourMinuteGMT7
ClockOf(t) == t % Day

\* The day of a dated time in UTC; midnight GMT+7 is 17:00 of the day before.
UTCDay(t) == (t - GMT7) \div Day

CeilingHour(t) == IF t % Hour = 0 THEN t ELSE ((t \div Hour + 1) * Hour) % Day

\* The members of S in the order R, which is strict and total on S.
Listed(S, R) ==
    [n \in 1..Cardinality(S) |->
        CHOOSE x \in S : Cardinality({y \in S : <<y, x>> \in R}) = n - 1]

\* A sort is stable: of two that start together the one that came first is first.
Earlier(slots) ==
    {p \in (DOMAIN slots) \X (DOMAIN slots) :
        \/ slots[p[1]].start < slots[p[2]].start
        \/ slots[p[1]].start = slots[p[2]].start /\ p[1] < p[2]}

\* What s holds at the places P, in the order of their slots.
Arranged(s, P, slots) ==
    LET order == Listed(P, Earlier(slots)) IN [n \in 1..Cardinality(P) |-> s[order[n]]]

Starts(slots) == Arranged(slots, DOMAIN slots, slots)

CalculateDuration(s) == s.end - s.start

Inside(r, s) == s.start <= r.start /\ r.end <= s.end
Disjoint(r, s) == r.end <= s.start \/ s.end <= r.start

Gap(from, to) == IF from < to THEN <<[start |-> from, end |-> to]>> ELSE <<>>

\* The pauses between the parts of a shift.
ConvertShiftToBreakSlots(shift) ==
    FlattenSeq([i \in 1..(Len(shift) - 1) |->
        IF shift[i].end # shift[i + 1].start
        THEN <<[start |-> shift[i].end, end |-> shift[i + 1].start]>>
        ELSE <<>>])

\* What the trip leaves of the shift.
GetAvailableSlotsFromShiftAndTrip(shift, trip) ==
    FlattenSeq([i \in 1..Len(shift) |->
        IF trip.end < shift[i].start \/ shift[i].end < trip.start
        THEN <<shift[i]>>
        ELSE Gap(shift[i].start, trip.start) \o Gap(trip.end, shift[i].end)])

\* Slip: the pauses count as free.
TripWithoutBreaks(trip, breaks, taskSlots) ==
    LET taken == Starts(taskSlots)
        n == Len(taken)
    IN  IF n = 0 THEN <<trip>>
        ELSE Gap(trip.start, taken[1].start)
             \o FlattenSeq([i \in 1..(n - 1) |-> Gap(taken[i].end, taken[i + 1].start)])
             \o Gap(taken[n].end, trip.end)

\* What tasks and pauses leave of the trip.
GetAvailableSlotsFromTripAndTask(trip, breaks, taskSlots) ==
    LET taken == Starts(breaks \o taskSlots)
        n == Len(taken)
    IN  IF n = 0 THEN <<>>
        ELSE Gap(trip.start, taken[1].start)
             \o FlattenSeq([i \in 1..(n - 1) |-> Gap(taken[i].end, taken[i + 1].start)])
             \o Gap(taken[n].end, trip.end)

\* tripSlot is empty when the driver has no trip that day.
ConvertComposeTimeSlotsToAvailableSlots(shift, breaks, tripSlot, taskSlots) ==
    IF tripSlot = <<>> THEN Starts(shift)
    ELSE Starts(GetAvailableSlotsFromShiftAndTrip(shift, tripSlot[1])
                \o GetAvailableSlotsFromTripAndTask(tripSlot[1], breaks, taskSlots))

\* A reserved time is cut out of the first slot it lies in; one that lies in
\* no slot is ignored.
CutReserved(slots, r) ==
    LET j == SelectInSeq(slots, LAMBDA s: Inside(r, s))
    IN  IF j = 0 THEN slots
        ELSE SubSeq(slots, 1, j - 1)
             \o Gap(slots[j].start, r.start) \o Gap(r.end, slots[j].end)
             \o SubSeq(slots, j + 1, Len(slots))

ReserveSlotsFromAvailableSlots(reserved, slots) ==
    LET cut[n \in 0..Len(reserved)] ==
            IF n = 0 THEN slots ELSE CutReserved(cut[n - 1], reserved[n])
    IN  cut[Len(reserved)]

\* The code sorts the shift before anything else.
AvailableSlots(shift, reserved, tripSlot, taskSlots) ==
    LET parts == Starts(shift)
    IN  ReserveSlotsFromAvailableSlots(reserved,
            ConvertComposeTimeSlotsToAvailableSlots(
                parts, ConvertShiftToBreakSlots(parts), tripSlot, taskSlots))
=============================================================================
