--------------------------- MODULE MultipleAccept ---------------------------
(***************************************************************************)
(* A driver may have several trips under way (domains/taskType/            *)
(* acceptTrip.js).  An acceptance counts his trips against a limit, takes  *)
(* over the reference id of one of them or draws a new one, and writes it  *)
(* into the metadata of the trip.  The trip is DOING some awaits later, and *)
(* his only when the transport workflow has assigned him.                  *)
(*                                                                         *)
(* The metadata of a trip is one field of the document.  The hold of the   *)
(* credit wallet, the rollback and the engine read it and write it whole.  *)
(***************************************************************************)
EXTENDS Integers, FiniteSets, TLC

CONSTANTS
    Trip, Driver, Request, Note,
    Allowed,     \* trips whose configuration allows several acceptances
    Wallet,      \* trips that use the credit wallet
    Limit,       \* multipleAcceptTripLimit, 0 when there is none
    MaxMonth,    \* bound: months of one year
    MaxFaults,   \* bound: calls that fail, answers that are lost, crashes, staff taken away
    None

ASSUME AcceptAssumption ==
    /\ IsFiniteSet(Trip)
    /\ Allowed \subseteq Trip
    /\ Limit \in Nat
    /\ MaxMonth \in 1..12
    /\ None \notin Driver \cup Request \cup [month: Nat, number: Nat]

VARIABLES
    trip,        \* status, staffs and metadata of each trip; todo is that of the acceptance
    sequence,    \* the counters in the database
    month,
    req,         \* the acceptances
    note,        \* the engine's notes in metadata.workflows
    faults,
    by,          \* history: the driver whose acceptance has a trip under way
    hasty,       \* history: drivers who accepted before an earlier acceptance had settled
    crossed,     \* history: trips whose metadata two readers had in hand at once
    odd          \* history: trips whose reference may differ, see SameReference

history == <<by, hasty, crossed, odd>>
vars == <<trip, sequence, month, req, note, faults, history>>

Ref == [month: 1..MaxMonth, number: Nat]
Tx == Request \cup {None, "blank"}
Metadata == [ref: Ref \cup {None}, tx: Tx, workflows: SUBSET Note]

TripDoc == [status: {"PENDING", "DOING", "DONE"}, todo: {"TODO", "DONE"},
            staffs: SUBSET Driver, meta: Metadata]

Before == {"trip", "count", "number", "write", "hold", "merge", "todo", "doing"}
Serving == Before \cup {"urls", "undo"}
Ends == {"refused", "failed", "dead", "accepted", "assigned"}

AllUndo == {"status", "read", "write"}

Job == [at: {"idle"} \cup Serving \cup Ends, driver: Driver \cup {None}, trip: Trip \cup {None},
        first: Metadata, seen: Metadata, got: Metadata, ref: Ref \cup {None},
        fresh: BOOLEAN, undo: SUBSET AllUndo]
NoteDoc == [at: {"idle", "read", "done"}, trip: Trip \cup {None}, got: Metadata]

NoMetadata == [ref |-> None, tx |-> None, workflows |-> {}]

Init ==
    /\ trip = [t \in Trip |-> [status |-> "PENDING", todo |-> "TODO", staffs |-> {}, meta |-> NoMetadata]]
    /\ sequence = << >>
    /\ month = 1
    /\ req = [r \in Request |-> [at |-> "idle", driver |-> None, trip |-> None, first |-> NoMetadata,
                                 seen |-> NoMetadata, got |-> NoMetadata, ref |-> None,
                                 fresh |-> FALSE, undo |-> {}]]
    /\ note = [n \in Note |-> [at |-> "idle", trip |-> None, got |-> NoMetadata]]
    /\ faults = 0
    /\ by = [t \in Trip |-> None]
    /\ hasty = {} /\ crossed = {} /\ odd = {}

(***************************************************************************)
(* Metadata.                                                               *)
(***************************************************************************)
Or(a, b) == IF a = None THEN b ELSE a

\* { ...doc, ...data }: what data has wins, what it lacks stays.
Merge(doc, data) ==
    [ref |-> Or(data.ref, doc.ref), tx |-> Or(data.tx, doc.tx),
     workflows |-> IF data.workflows = {} THEN doc.workflows ELSE data.workflows]

InHand(t) == \/ \E r \in Request : req[r].at \in Serving /\ req[r].trip = t
             \/ \E n \in Note : note[n].at = "read" /\ note[n].trip = t

Crosses(t) == crossed' = IF InHand(t) THEN crossed \cup {t} ELSE crossed

(***************************************************************************)
(* An acceptance.                                                          *)
(***************************************************************************)
Fault == faults < MaxFaults /\ faults' = faults + 1

At(r, place) == req[r].at = place

\* A request that is over remembers what it took and gave, not what it read.
Forgets(job) == IF job.at \in Ends THEN [job EXCEPT !.first = NoMetadata, !.seen = NoMetadata, !.got = NoMetadata]
                ELSE job
Moved(r, place) == Forgets([req[r] EXCEPT !.at = place])

Goes(r, next) == req' = [req EXCEPT ![r] = next] /\ UNCHANGED faults

RollsBack(r, next) == Fault /\ req' = [req EXCEPT ![r] = [next EXCEPT !.at = "undo", !.undo = AllUndo]]

\* A write is applied; its answer arrives, or is lost and the request throws.
Applied(r, next) == Goes(r, next) \/ RollsBack(r, next)

\* An await throws and nothing is written.
Throws(r) ==
    /\ req[r].at \in Before \cup {"urls"}
    /\ RollsBack(r, req[r])
    /\ UNCHANGED <<trip, sequence, month, note, history>>

\* The trip as the dispatcher reads it, checked by validateAcceptTrip.
Begin(r, d, t) ==
    /\ At(r, "idle")
    /\ trip[t].status = "PENDING" /\ trip[t].todo = "TODO"
    /\ req' = [req EXCEPT ![r] = [Moved(r, "trip") EXCEPT !.driver = d, !.trip = t, !.first = trip[t].meta]]
    /\ Crosses(t)
    /\ UNCHANGED <<trip, sequence, month, note, faults, by, hasty, odd>>

AfterReference(r) == IF req[r].trip \in Wallet THEN "hold" ELSE "todo"

GetTrip(r) ==
    /\ At(r, "trip")
    /\ LET t == req[r].trip
           next == IF t \in Allowed THEN "count" ELSE AfterReference(r)
       IN  /\ Goes(r, [Moved(r, next) EXCEPT !.seen = trip[t].meta])
           /\ odd' = IF trip[t].meta.ref # None THEN odd \cup {t} ELSE odd
    /\ UNCHANGED <<trip, sequence, month, note, by, hasty, crossed>>

TripActiveList(d) == {t \in Trip : trip[t].status = "DOING" /\ d \in trip[t].staffs}

\* Slip: one too many.
OneTooMany(list) == Limit # 0 /\ Cardinality(list) > Limit

TooMany(list) == Limit # 0 /\ Cardinality(list) >= Limit

\* Slip: the trips under way are not looked at.
NoReferences(list) == {None}

\* The id of the first trip of the list, or none if it has none.
FirstReferences(list) == IF list = {} THEN {None} ELSE {trip[t].meta.ref : t \in list}

\* An acceptance of d that has counted, or a trip he accepted that is not his yet.
Unsettled(r) ==
    LET d == req[r].driver
    IN  \/ \E s \in Request \ {r} : req[s].driver = d /\ req[s].at \in Before \ {"trip", "count"}
        \/ \E t \in Trip : by[t] = d /\ trip[t].status = "DOING" /\ d \notin trip[t].staffs

HandleMultipleAcceptTrip(r) ==
    /\ At(r, "count")
    /\ LET list == TripActiveList(req[r].driver)
       IN  \/ /\ TooMany(list)
              /\ Goes(r, Moved(r, "refused"))
              /\ UNCHANGED odd
           \/ /\ ~TooMany(list)
              /\ \E ref \in FirstReferences(list) :
                   Goes(r, IF ref = None
                           THEN [Moved(r, "number") EXCEPT !.ref = [month |-> month, number |-> 0]]
                           ELSE [Moved(r, "write") EXCEPT !.ref = ref])
              /\ odd' = IF list \subseteq Allowed \ (odd \cup crossed) THEN odd ELSE odd \cup {req[r].trip}
    /\ hasty' = IF Unsettled(r) THEN hasty \cup {req[r].driver} ELSE hasty
    /\ UNCHANGED <<trip, sequence, month, note, by, crossed>>

\* findOneAndUpdate with $inc and upsert.
GetNextSequence(r) ==
    /\ At(r, "number")
    /\ LET m == req[r].ref.month
           next == IF m \in DOMAIN sequence THEN sequence[m] + 1 ELSE 1
       IN  /\ sequence' = [k \in DOMAIN sequence \cup {m} |-> IF k = m THEN next ELSE sequence[k]]
           /\ Applied(r, [Moved(r, "write") EXCEPT !.ref.number = next, !.fresh = (m = month)])
    /\ UNCHANGED <<trip, month, note, history>>

WriteMetadata(r, meta) == trip' = [trip EXCEPT ![req[r].trip].meta = meta]

WriteReference(r) ==
    /\ At(r, "write")
    /\ WriteMetadata(r, [trip[req[r].trip].meta EXCEPT !.ref = req[r].ref])
    /\ Applied(r, Moved(r, AfterReference(r)))
    /\ UNCHANGED <<sequence, month, note, history>>

\* The wallet holds, and updateMetadata reads.
HoldWithdrawal(r) ==
    /\ At(r, "hold")
    /\ Goes(r, [Moved(r, "merge") EXCEPT !.got = trip[req[r].trip].meta])
    /\ UNCHANGED <<trip, sequence, month, note, history>>

\* The hold is added to the metadata as getTrip saw it.
UpdateTripMetadata(r) ==
    /\ At(r, "merge")
    /\ WriteMetadata(r, Merge(req[r].got, [req[r].seen EXCEPT !.tx = r]))
    /\ Applied(r, Moved(r, "todo"))
    /\ UNCHANGED <<sequence, month, note, history>>

FinishTodo(r) ==
    /\ At(r, "todo")
    /\ trip' = [trip EXCEPT ![req[r].trip].todo = "DONE"]
    /\ Applied(r, Moved(r, "doing"))
    /\ UNCHANGED <<sequence, month, note, history>>

UpdateTripDetailStatus(r) ==
    /\ At(r, "doing")
    /\ trip' = [trip EXCEPT ![req[r].trip].status = "DOING"]
    /\ by' = [by EXCEPT ![req[r].trip] = req[r].driver]
    /\ Applied(r, Moved(r, "urls"))
    /\ UNCHANGED <<sequence, month, note, hasty, crossed, odd>>

StartTransportWorkflow(r) ==
    /\ At(r, "urls")
    /\ Goes(r, Moved(r, "accepted"))
    /\ UNCHANGED <<trip, sequence, month, note, history>>

(***************************************************************************)
(* The rollback: three writes at once, one of them a read and a write.     *)
(***************************************************************************)
Undone(r, part) ==
    LET left == req[r].undo \ {part}
    IN  [Moved(r, IF left = {} THEN "failed" ELSE "undo") EXCEPT !.undo = left]

RestoreStatus(r) ==
    /\ At(r, "undo") /\ "status" \in req[r].undo
    /\ trip' = [trip EXCEPT ![req[r].trip].status = "PENDING", ![req[r].trip].todo = "TODO"]
    /\ by' = [by EXCEPT ![req[r].trip] = None]
    /\ req' = [req EXCEPT ![r] = Undone(r, "status")]
    /\ UNCHANGED <<sequence, month, note, faults, hasty, crossed, odd>>

ReadMetadata(r) ==
    /\ At(r, "undo") /\ "read" \in req[r].undo
    /\ req' = [req EXCEPT ![r] = [Undone(r, "read") EXCEPT !.got = trip[req[r].trip].meta]]
    /\ UNCHANGED <<trip, sequence, month, note, faults, history>>

RestoreMetadata(r) ==
    /\ At(r, "undo") /\ "write" \in req[r].undo /\ "read" \notin req[r].undo
    /\ LET first == [req[r].first EXCEPT !.tx = Or(@, "blank")]
       IN  WriteMetadata(r, Merge(req[r].got, first))
    /\ req' = [req EXCEPT ![r] = Undone(r, "write")]
    /\ UNCHANGED <<sequence, month, note, faults, history>>

Dies(r) ==
    /\ req[r].at \in Serving
    /\ Fault
    /\ req' = [req EXCEPT ![r] = Moved(r, "dead")]
    /\ UNCHANGED <<trip, sequence, month, note, history>>

(***************************************************************************)
(* The others: the transport workflow, the engine, whoever ends a trip or  *)
(* takes its driver away, and the calendar.                                *)
(***************************************************************************)
UpdateStaffsToTrip(r) ==
    /\ At(r, "accepted")
    /\ trip' = [trip EXCEPT ![req[r].trip].staffs = @ \cup {req[r].driver}]
    /\ req' = [req EXCEPT ![r].at = "assigned"]
    /\ UNCHANGED <<sequence, month, note, faults, history>>

RemoveStaff(t) ==
    /\ trip[t].staffs # {}
    /\ Fault
    /\ trip' = [trip EXCEPT ![t].staffs = {}]
    /\ by' = [by EXCEPT ![t] = None]
    /\ UNCHANGED <<sequence, month, req, note, hasty, crossed, odd>>

EndTrip(t) ==
    /\ trip[t].status = "DOING"
    /\ trip' = [trip EXCEPT ![t].status = "DONE"]
    /\ UNCHANGED <<sequence, month, req, note, faults, history>>

ReadForNote(n, t) ==
    /\ note[n].at = "idle"
    /\ note' = [note EXCEPT ![n] = [at |-> "read", trip |-> t, got |-> trip[t].meta]]
    /\ Crosses(t)
    /\ UNCHANGED <<trip, sequence, month, req, faults, by, hasty, odd>>

\* Slip: the note replaces the metadata.
ReplaceMetadata(n) ==
    /\ note[n].at = "read"
    /\ trip' = [trip EXCEPT ![note[n].trip].meta = [NoMetadata EXCEPT !.workflows = {n}]]
    /\ note' = [note EXCEPT ![n].at = "done", ![n].got = NoMetadata]
    /\ UNCHANGED <<sequence, month, req, faults, history>>

UpdateMetadataWorkflow(n) ==
    /\ note[n].at = "read"
    /\ trip' = [trip EXCEPT ![note[n].trip].meta = [note[n].got EXCEPT !.workflows = @ \cup {n}]]
    /\ note' = [note EXCEPT ![n].at = "done", ![n].got = NoMetadata]
    /\ UNCHANGED <<sequence, month, req, faults, history>>

MonthEnds ==
    /\ month < MaxMonth
    /\ month' = month + 1
    /\ UNCHANGED <<trip, sequence, req, note, faults, history>>

\* Slip: it expires when the month begins.
ExpiredEarly(m) == m <= month

\* A counter expires at the end of its month and is removed some time later.
Expired(m) == m < month

Expire(m) ==
    /\ Expired(m)
    /\ sequence' = [k \in DOMAIN sequence \ {m} |-> sequence[k]]
    /\ UNCHANGED <<trip, month, req, note, faults, history>>

Step(r) ==
    \/ \E d \in Driver, t \in Trip : Begin(r, d, t)
    \/ GetTrip(r) \/ HandleMultipleAcceptTrip(r) \/ GetNextSequence(r) \/ WriteReference(r)
    \/ HoldWithdrawal(r) \/ UpdateTripMetadata(r) \/ FinishTodo(r)
    \/ UpdateTripDetailStatus(r) \/ StartTransportWorkflow(r)
    \/ RestoreStatus(r) \/ ReadMetadata(r) \/ RestoreMetadata(r)
    \/ Throws(r) \/ Dies(r)
    \/ UpdateStaffsToTrip(r)

Next ==
    \/ \E r \in Request : Step(r)
    \/ \E t \in Trip : RemoveStaff(t) \/ EndTrip(t)
    \/ \E n \in Note : UpdateMetadataWorkflow(n) \/ \E t \in Trip : ReadForNote(n, t)
    \/ MonthEnds
    \/ \E m \in DOMAIN sequence : Expire(m)

Spec == Init /\ [][Next]_vars

(***************************************************************************)
(* Properties.                                                             *)
(***************************************************************************)
\* Types: every document, request and note has one of its shapes.
TypeOK ==
    /\ trip \in [Trip -> TripDoc]
    /\ month \in 1..MaxMonth
    /\ DOMAIN sequence \subseteq 1..MaxMonth /\ \A m \in DOMAIN sequence : sequence[m] \in Nat
    /\ req \in [Request -> Job]
    /\ note \in [Note -> NoteDoc]
    /\ faults \in Nat
    /\ by \in [Trip -> Driver \cup {None}]
    /\ hasty \subseteq Driver /\ crossed \subseteq Trip /\ odd \subseteq Trip

UnderWay(d) == {t \in Allowed : by[t] = d /\ trip[t].status = "DOING"}

\* A driver has no more trips under way than the limit, unless he accepted one
\* while an earlier acceptance was between its count and the assignment of its
\* staff: the count reads what the earlier one has not written yet.
LimitKept == \A d \in Driver \ hasty : Limit = 0 \/ Cardinality(UnderWay(d)) <= Limit

\* The trips a driver has under way carry one reference id.  Excused are drivers
\* who were hasty, trips whose metadata was written by two at once, trips with
\* an id from an earlier attempt, and trips accepted next to one of these or to
\* one that has no id.
SameReference ==
    \A d \in Driver \ hasty : \A t, u \in UnderWay(d) \ (odd \cup crossed) :
        trip[t].meta.ref = trip[u].meta.ref

\* No number is given twice in a month, unless the month ended between the
\* choice of the counter and its increment: the counter may be gone by then.
NumbersAreFresh ==
    \A r, s \in Request : req[r].fresh /\ req[s].fresh /\ req[r].ref = req[s].ref => r = s

\* What was written into the metadata stays: the notes of the engine, and the
\* hold of the acceptance that has the trip, unless two had it in hand at once.
MetadataKept ==
    \A t \in Trip \ crossed :
        /\ \A n \in Note : note[n].at = "done" /\ note[n].trip = t => n \in trip[t].meta.workflows
        /\ \A r \in Request : At(r, "accepted") \/ At(r, "assigned") =>
             (req[r].trip = t /\ t \in Wallet => trip[t].meta.tx = r)

\* "add acceptTripReferenceId to trip" (acceptTrip.js:343): the trip that was
\* accepted carries the id its acceptance took, unless two had it in hand.
AcceptedTripHasItsReference ==
    \A r \in Request : At(r, "accepted") \/ At(r, "assigned") =>
        LET t == req[r].trip
        IN  t \in Allowed \ crossed => trip[t].meta.ref = req[r].ref
=============================================================================
