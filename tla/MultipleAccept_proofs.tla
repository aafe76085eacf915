----------------------- MODULE MultipleAccept_proofs -----------------------
(***************************************************************************)
(* Proofs about MultipleAccept: the types, the limit, the numbers, the     *)
(* metadata and the references.                                            *)
(***************************************************************************)
EXTENDS MultipleAccept, FiniteSetTheorems, TLAPS

\* How far a request is says what it has: a driver and a trip once it began,
\* no number before it drew one, a counter when it is about to.
Stage(r) ==
    /\ req[r].at # "idle" => req[r].driver \in Driver /\ req[r].trip \in Trip
    /\ req[r].at \in {"idle", "trip", "count", "number"} => ~req[r].fresh
    /\ req[r].at = "number" => req[r].ref \in Ref

TypeInv == TypeOK /\ \A r \in Request : Stage(r)

LEMMA Places ==
    /\ Before \cup {"urls", "undo"} = Serving
    /\ Serving \cap Ends = {} /\ "idle" \notin Serving \cup Ends
  BY DEF Before, Serving, Ends

LEMMA NoMetadataType == NoMetadata \in Metadata
  BY DEF NoMetadata, Metadata, Tx

\* Merging two metadata gives metadata.
LEMMA MergeType ==
    ASSUME NEW a \in Metadata, NEW b \in Metadata
    PROVE  Merge(a, b) \in Metadata
  BY DEF Merge, Or, Metadata

\* What a request becomes when it moves on is a job again.
LEMMA MovedType ==
    ASSUME TypeOK, NEW r \in Request, NEW place \in Serving \cup Ends
    PROVE  /\ Moved(r, place) \in Job
           /\ Moved(r, place).at = place
           /\ Moved(r, place).driver = req[r].driver
           /\ Moved(r, place).trip = req[r].trip
           /\ Moved(r, place).ref = req[r].ref
           /\ Moved(r, place).fresh = req[r].fresh
           /\ Moved(r, place).undo = req[r].undo
  <1>1. req[r] \in Job
    BY DEF TypeOK
  <1> QED
    BY <1>1, NoMetadataType DEF Moved, Forgets, Job

\* A change of the requests that keeps types and stages keeps them for all.
LEMMA JobChange ==
    ASSUME TypeInv, NEW r \in Request, NEW job \in Job,
           job.at # "idle" => job.driver \in Driver /\ job.trip \in Trip,
           job.at \in {"idle", "trip", "count", "number"} => ~job.fresh,
           job.at = "number" => job.ref \in Ref,
           req' = [req EXCEPT ![r] = job]
    PROVE  req' \in [Request -> Job] /\ \A s \in Request : Stage(s)'
  BY DEF TypeInv, TypeOK, Stage

LEMMA GoesType ==
    ASSUME TypeInv, NEW r \in Request, NEW job \in Job,
           job.at # "idle", job.driver \in Driver, job.trip \in Trip,
           job.at \in {"trip", "count", "number"} => ~job.fresh,
           job.at = "number" => job.ref \in Ref,
           Applied(r, job)
    PROVE  req' \in [Request -> Job] /\ (\A s \in Request : Stage(s)') /\ faults' \in Nat
  <1>f. faults \in Nat
    BY DEF TypeInv, TypeOK
  <1>1. CASE Goes(r, job)
    BY <1>1, <1>f, JobChange DEF Goes
  <1>2. CASE RollsBack(r, job)
    <2> DEFINE back == [job EXCEPT !.at = "undo", !.undo = AllUndo]
    <2>1. /\ back \in Job /\ back.at = "undo" /\ back.driver \in Driver /\ back.trip \in Trip
      BY DEF Job, Serving
    <2>2. req' = [req EXCEPT ![r] = back] /\ faults' \in Nat
      BY <1>2, <1>f DEF RollsBack, Fault
    <2> HIDE DEF back
    <2> QED
      BY <2>1, <2>2, JobChange
  <1> QED
    BY <1>1, <1>2 DEF Applied

LEMMA TripChange ==
    ASSUME TypeInv, NEW t \in Trip, NEW doc \in TripDoc, trip' = [trip EXCEPT ![t] = doc]
    PROVE  trip' \in [Trip -> TripDoc]
  BY DEF TypeInv, TypeOK

LEMMA MetadataChange ==
    ASSUME TypeInv, NEW t \in Trip, NEW meta \in Metadata, trip' = [trip EXCEPT ![t].meta = meta]
    PROVE  trip' \in [Trip -> TripDoc]
  BY DEF TypeInv, TypeOK, TripDoc

\* What a request in service has at hand.
LEMMA AtHand ==
    ASSUME TypeInv, NEW r \in Request, req[r].at # "idle"
    PROVE  /\ req[r] \in Job /\ req[r].driver \in Driver /\ req[r].trip \in Trip
           /\ req[r].first \in Metadata /\ req[r].seen \in Metadata /\ req[r].got \in Metadata
           /\ req[r].ref \in Ref \cup {None} /\ req[r].fresh \in BOOLEAN /\ req[r].undo \in SUBSET AllUndo
           /\ trip[req[r].trip] \in TripDoc /\ trip[req[r].trip].meta \in Metadata
  BY DEF TypeInv, TypeOK, Stage, Job, TripDoc

\* A request past its number that just moves on.
LEMMA PlainMove ==
    ASSUME TypeInv, NEW r \in Request, req[r].at # "idle",
           NEW place \in (Serving \cup Ends) \ {"trip", "count", "number"},
           Applied(r, Moved(r, place))
    PROVE  req' \in [Request -> Job] /\ (\A s \in Request : Stage(s)') /\ faults' \in Nat
  <1>1. place # "idle"
    BY Places
  <1>2. /\ Moved(r, place) \in Job /\ Moved(r, place).at = place
        /\ Moved(r, place).driver \in Driver /\ Moved(r, place).trip \in Trip
    BY MovedType, AtHand DEF TypeInv
  <1> QED
    BY <1>1, <1>2, GoesType

\* A request whose rollback did one of its parts.
LEMMA UndoneType ==
    ASSUME TypeInv, NEW r \in Request, req[r].at = "undo", NEW part
    PROVE  /\ Undone(r, part) \in Job /\ Undone(r, part).at \in {"undo", "failed"}
           /\ Undone(r, part).driver = req[r].driver /\ Undone(r, part).trip = req[r].trip
  <1> DEFINE left == req[r].undo \ {part}
             place == IF left = {} THEN "failed" ELSE "undo"
  <1>1. left \in SUBSET AllUndo
    BY AtHand
  <1>2. place \in Serving \cup Ends /\ place \in {"undo", "failed"}
    BY DEF Serving, Ends
  <1> HIDE DEF left, place
  <1>3. /\ Moved(r, place) \in Job /\ Moved(r, place).at = place
        /\ Moved(r, place).driver = req[r].driver /\ Moved(r, place).trip = req[r].trip
    BY <1>2, MovedType DEF TypeInv
  <1>4. Undone(r, part) = [Moved(r, place) EXCEPT !.undo = left]
    BY DEF Undone, left, place
  <1> QED
    BY <1>1, <1>2, <1>3, <1>4 DEF Job

LEMMA TypeStep ==
    ASSUME TypeInv, [Next]_vars, AcceptAssumption
    PROVE  TypeInv'
  <1> USE DEF history
  <1>a. ASSUME NEW r \in Request, NEW d \in Driver, NEW t \in Trip, Begin(r, d, t) PROVE TypeInv'
    <2> DEFINE job == [Moved(r, "trip") EXCEPT !.driver = d, !.trip = t, !.first = trip[t].meta]
    <2>1. trip[t].meta \in Metadata
      BY DEF TypeInv, TypeOK, TripDoc
    <2>2. Moved(r, "trip") \in Job /\ Moved(r, "trip").at = "trip" /\ ~Moved(r, "trip").fresh
      BY <1>a, MovedType DEF TypeInv, Stage, Begin, At, Serving, Before
    <2>3. job \in Job /\ job.at = "trip" /\ job.driver = d /\ job.trip = t /\ ~job.fresh
      BY <2>1, <2>2 DEF Job
    <2>4. req' = [req EXCEPT ![r] = job] /\ crossed' \subseteq Trip
      BY <1>a DEF Begin, Crosses, TypeInv, TypeOK
    <2> HIDE DEF job
    <2>5. req' \in [Request -> Job] /\ \A s \in Request : Stage(s)'
      BY <2>3, <2>4, JobChange
    <2> QED
      BY <1>a, <2>4, <2>5 DEF Begin, TypeInv, TypeOK
  <1>b. ASSUME NEW r \in Request, GetTrip(r) PROVE TypeInv'
    <2> DEFINE next == IF req[r].trip \in Allowed THEN "count" ELSE AfterReference(r)
               job == [Moved(r, next) EXCEPT !.seen = trip[req[r].trip].meta]
    <2>1. next \in Serving \cup Ends /\ next # "idle" /\ next # "number"
      BY DEF AfterReference, Serving, Before
    <2>2. req[r].at = "trip" /\ ~req[r].fresh
      BY <1>b DEF GetTrip, At, TypeInv, Stage
    <2> HIDE DEF next
    <2>3. Moved(r, next) \in Job /\ Moved(r, next).at = next /\ ~Moved(r, next).fresh
          /\ Moved(r, next).driver = req[r].driver /\ Moved(r, next).trip = req[r].trip
      BY <2>1, <2>2, MovedType DEF TypeInv
    <2>4. job \in Job /\ job.at = next /\ ~job.fresh /\ job.driver = req[r].driver /\ job.trip = req[r].trip
      BY <2>2, <2>3, AtHand DEF Job
    <2>5. Applied(r, job) /\ odd' \subseteq Trip
      BY <1>b, <2>2, AtHand DEF GetTrip, Applied, next, TypeInv, TypeOK
    <2> HIDE DEF job
    <2>6. req' \in [Request -> Job] /\ (\A s \in Request : Stage(s)') /\ faults' \in Nat
      BY <2>1, <2>2, <2>4, <2>5, AtHand, GoesType
    <2> QED
      BY <1>b, <2>5, <2>6 DEF GetTrip, TypeInv, TypeOK
  <1>c. ASSUME NEW r \in Request, HandleMultipleAcceptTrip(r) PROVE TypeInv'
    <2>1. req[r].at = "count" /\ ~req[r].fresh
      BY <1>c DEF HandleMultipleAcceptTrip, At, TypeInv, Stage
    <2>2. req' \in [Request -> Job] /\ (\A s \in Request : Stage(s)') /\ faults' \in Nat
      <3>1. CASE Goes(r, Moved(r, "refused"))
        BY <3>1, <2>1, PlainMove DEF Applied, Ends, Serving
      <3>2. ASSUME NEW ref \in FirstReferences(TripActiveList(req[r].driver)),
                   Goes(r, IF ref = None
                           THEN [Moved(r, "number") EXCEPT !.ref = [month |-> month, number |-> 0]]
                           ELSE [Moved(r, "write") EXCEPT !.ref = ref])
            PROVE  req' \in [Request -> Job] /\ (\A s \in Request : Stage(s)') /\ faults' \in Nat
        <4>1. CASE ref = None
          <5> DEFINE job == [Moved(r, "number") EXCEPT !.ref = [month |-> month, number |-> 0]]
          <5>1. [month |-> month, number |-> 0] \in Ref
            BY DEF Ref, TypeInv, TypeOK
          <5>2. "number" \in Serving \cup Ends
            BY DEF Serving, Before
          <5>3. /\ Moved(r, "number") \in Job /\ Moved(r, "number").at = "number"
                /\ Moved(r, "number").driver = req[r].driver /\ Moved(r, "number").trip = req[r].trip
                /\ ~Moved(r, "number").fresh
            BY <2>1, <5>2, MovedType DEF TypeInv
          <5>4. /\ job \in Job /\ job.at = "number" /\ ~job.fresh /\ job.ref \in Ref
                /\ job.driver = req[r].driver /\ job.trip = req[r].trip
            BY <5>1, <5>3 DEF Job
          <5>5. Applied(r, job)
            BY <3>2, <4>1 DEF Applied
          <5> HIDE DEF job
          <5> QED
            BY <2>1, <5>4, <5>5, AtHand, GoesType
        <4>2. CASE ref # None
          <5> DEFINE job == [Moved(r, "write") EXCEPT !.ref = ref]
          <5>1. ref \in Ref
            <6>1. \E t \in Trip : ref = trip[t].meta.ref
              BY <4>2 DEF FirstReferences, TripActiveList
            <6> QED
              BY <4>2, <6>1 DEF TypeInv, TypeOK, TripDoc, Metadata
          <5>2. "write" \in Serving \cup Ends
            BY DEF Serving, Before
          <5>3. /\ Moved(r, "write") \in Job /\ Moved(r, "write").at = "write"
                /\ Moved(r, "write").driver = req[r].driver /\ Moved(r, "write").trip = req[r].trip
            BY <5>2, MovedType DEF TypeInv
          <5>4. job \in Job /\ job.at = "write" /\ job.driver = req[r].driver /\ job.trip = req[r].trip
            BY <5>1, <5>3 DEF Job
          <5>5. Applied(r, job)
            BY <3>2, <4>2 DEF Applied
          <5> HIDE DEF job
          <5> QED
            BY <2>1, <5>4, <5>5, AtHand, GoesType
        <4> QED
          BY <4>1, <4>2
      <3> QED
        BY <1>c, <3>1, <3>2 DEF HandleMultipleAcceptTrip
    <2>3. odd' \subseteq Trip /\ hasty' \subseteq Driver
      BY <1>c, <2>1, AtHand DEF HandleMultipleAcceptTrip, TypeInv, TypeOK
    <2> QED
      BY <1>c, <2>2, <2>3 DEF HandleMultipleAcceptTrip, TypeInv, TypeOK
  <1>d. ASSUME NEW r \in Request, GetNextSequence(r) PROVE TypeInv'
    <2> DEFINE m == req[r].ref.month
               next == IF m \in DOMAIN sequence THEN sequence[m] + 1 ELSE 1
               job == [Moved(r, "write") EXCEPT !.ref.number = next, !.fresh = (m = month)]
    <2>1. req[r].at = "number" /\ req[r].ref \in Ref
      BY <1>d DEF GetNextSequence, At, TypeInv, Stage
    <2>2. m \in 1..MaxMonth /\ next \in Nat
      BY <2>1 DEF Ref, TypeInv, TypeOK
    <2>3. "write" \in Serving \cup Ends
      BY DEF Serving, Before
    <2>4. /\ Moved(r, "write") \in Job /\ Moved(r, "write").at = "write"
          /\ Moved(r, "write").driver = req[r].driver /\ Moved(r, "write").trip = req[r].trip
          /\ Moved(r, "write").ref = req[r].ref
      BY <2>3, MovedType DEF TypeInv
    <2>5. sequence' = [k \in DOMAIN sequence \cup {m} |-> IF k = m THEN next ELSE sequence[k]]
      BY <1>d DEF GetNextSequence
    <2>6. Applied(r, job)
      BY <1>d DEF GetNextSequence
    <2> HIDE DEF m, next
    <2>7. job \in Job /\ job.at = "write" /\ job.driver = req[r].driver /\ job.trip = req[r].trip
      BY <2>1, <2>2, <2>4 DEF Job, Ref
    <2> HIDE DEF job
    <2>8. req' \in [Request -> Job] /\ (\A s \in Request : Stage(s)') /\ faults' \in Nat
      BY <2>1, <2>6, <2>7, AtHand, GoesType
    <2>9. DOMAIN sequence' \subseteq 1..MaxMonth /\ \A k \in DOMAIN sequence' : sequence'[k] \in Nat
      BY <2>2, <2>5 DEF TypeInv, TypeOK
    <2> QED
      BY <1>d, <2>8, <2>9 DEF GetNextSequence, TypeInv, TypeOK
  <1>e. ASSUME NEW r \in Request, WriteReference(r) PROVE TypeInv'
    <2>1. req[r].at = "write" /\ AfterReference(r) \in (Serving \cup Ends) \ {"trip", "count", "number"}
      BY <1>e DEF WriteReference, At, AfterReference, Serving, Before
    <2>2. [trip[req[r].trip].meta EXCEPT !.ref = req[r].ref] \in Metadata
      BY <2>1, AtHand DEF Metadata
    <2>3. trip' \in [Trip -> TripDoc]
      BY <1>e, <2>1, <2>2, AtHand, MetadataChange DEF WriteReference, WriteMetadata
    <2>4. req' \in [Request -> Job] /\ (\A s \in Request : Stage(s)') /\ faults' \in Nat
      BY <1>e, <2>1, PlainMove DEF WriteReference
    <2> QED
      BY <1>e, <2>3, <2>4 DEF WriteReference, TypeInv, TypeOK
  <1>f. ASSUME NEW r \in Request, HoldWithdrawal(r) PROVE TypeInv'
    <2> DEFINE job == [Moved(r, "merge") EXCEPT !.got = trip[req[r].trip].meta]
    <2>1. req[r].at = "hold" /\ "merge" \in Serving \cup Ends
      BY <1>f DEF HoldWithdrawal, At, Serving, Before
    <2>2. /\ Moved(r, "merge") \in Job /\ Moved(r, "merge").at = "merge"
          /\ Moved(r, "merge").driver = req[r].driver /\ Moved(r, "merge").trip = req[r].trip
      BY <2>1, MovedType DEF TypeInv
    <2>3. job \in Job /\ job.at = "merge" /\ job.driver = req[r].driver /\ job.trip = req[r].trip
      BY <2>1, <2>2, AtHand DEF Job
    <2>4. Applied(r, job)
      BY <1>f DEF HoldWithdrawal, Applied
    <2> HIDE DEF job
    <2>5. req' \in [Request -> Job] /\ (\A s \in Request : Stage(s)') /\ faults' \in Nat
      BY <2>1, <2>3, <2>4, AtHand, GoesType
    <2> QED
      BY <1>f, <2>5 DEF HoldWithdrawal, TypeInv, TypeOK
  <1>g. ASSUME NEW r \in Request, UpdateTripMetadata(r) PROVE TypeInv'
    <2>1. req[r].at = "merge" /\ "todo" \in (Serving \cup Ends) \ {"trip", "count", "number"}
      BY <1>g DEF UpdateTripMetadata, At, Serving, Before
    <2>2. [req[r].seen EXCEPT !.tx = r] \in Metadata
      BY <2>1, AtHand DEF Metadata, Tx
    <2>3. Merge(req[r].got, [req[r].seen EXCEPT !.tx = r]) \in Metadata
      BY <2>1, <2>2, AtHand, MergeType
    <2>4. trip' \in [Trip -> TripDoc]
      BY <1>g, <2>1, <2>3, AtHand, MetadataChange DEF UpdateTripMetadata, WriteMetadata
    <2>5. req' \in [Request -> Job] /\ (\A s \in Request : Stage(s)') /\ faults' \in Nat
      BY <1>g, <2>1, PlainMove DEF UpdateTripMetadata
    <2> QED
      BY <1>g, <2>4, <2>5 DEF UpdateTripMetadata, TypeInv, TypeOK
  <1>h. ASSUME NEW r \in Request, FinishTodo(r) PROVE TypeInv'
    <2>1. req[r].at = "todo" /\ "doing" \in (Serving \cup Ends) \ {"trip", "count", "number"}
      BY <1>h DEF FinishTodo, At, Serving, Before, Ends
    <2>2. req' \in [Request -> Job] /\ (\A s \in Request : Stage(s)') /\ faults' \in Nat
      BY <1>h, <2>1, PlainMove DEF FinishTodo, Applied
    <2>3. trip' \in [Trip -> TripDoc] /\ by' \in [Trip -> Driver \cup {None}]
      BY <1>h, <2>1, AtHand DEF FinishTodo, TypeInv, TypeOK, TripDoc
    <2> QED
      BY <1>h, <2>2, <2>3 DEF FinishTodo, TypeInv, TypeOK
  <1>i. ASSUME NEW r \in Request, UpdateTripDetailStatus(r) PROVE TypeInv'
    <2>1. req[r].at = "doing" /\ "urls" \in (Serving \cup Ends) \ {"trip", "count", "number"}
      BY <1>i DEF UpdateTripDetailStatus, At, Serving, Before, Ends
    <2>2. req' \in [Request -> Job] /\ (\A s \in Request : Stage(s)') /\ faults' \in Nat
      BY <1>i, <2>1, PlainMove DEF UpdateTripDetailStatus, Applied
    <2>3. trip' \in [Trip -> TripDoc] /\ by' \in [Trip -> Driver \cup {None}]
      BY <1>i, <2>1, AtHand DEF UpdateTripDetailStatus, TypeInv, TypeOK, TripDoc
    <2> QED
      BY <1>i, <2>2, <2>3 DEF UpdateTripDetailStatus, TypeInv, TypeOK
  <1>j. ASSUME NEW r \in Request, StartTransportWorkflow(r) PROVE TypeInv'
    <2>1. req[r].at = "urls" /\ "accepted" \in (Serving \cup Ends) \ {"trip", "count", "number"}
      BY <1>j DEF StartTransportWorkflow, At, Serving, Before, Ends
    <2>2. req' \in [Request -> Job] /\ (\A s \in Request : Stage(s)') /\ faults' \in Nat
      BY <1>j, <2>1, PlainMove DEF StartTransportWorkflow, Applied
    <2>3. trip' \in [Trip -> TripDoc] /\ by' \in [Trip -> Driver \cup {None}]
      BY <1>j, <2>1, AtHand DEF StartTransportWorkflow, TypeInv, TypeOK, TripDoc
    <2> QED
      BY <1>j, <2>2, <2>3 DEF StartTransportWorkflow, TypeInv, TypeOK
  <1>k. ASSUME NEW r \in Request, RestoreStatus(r) PROVE TypeInv'
    <2> DEFINE job == Undone(r, "status")
    <2>1. req[r].at = "undo" /\ req' = [req EXCEPT ![r] = job]
      BY <1>k DEF RestoreStatus, At
    <2>2. /\ Undone(r, "status") \in Job /\ Undone(r, "status").at \in {"undo", "failed"}
          /\ Undone(r, "status").driver = req[r].driver /\ Undone(r, "status").trip = req[r].trip
      BY <2>1, UndoneType
    <2>3. job \in Job /\ job.at \in {"undo", "failed"} /\ job.driver \in Driver /\ job.trip \in Trip
      BY <2>1, <2>2, AtHand DEF Job
    <2> HIDE DEF job
    <2>4. req' \in [Request -> Job] /\ \A s \in Request : Stage(s)'
      BY <2>1, <2>3, JobChange
    <2>5. trip' \in [Trip -> TripDoc] /\ by' \in [Trip -> Driver \cup {None}]
      <3> DEFINE t == req[r].trip
                 once == [trip EXCEPT ![t].status = "PENDING"]
      <3>1. t \in Trip /\ trip \in [Trip -> TripDoc]
        BY <2>1, AtHand DEF TypeInv, TypeOK
      <3>2. once \in [Trip -> TripDoc]
        BY <3>1 DEF TripDoc
      <3>3. trip' = [once EXCEPT ![t].todo = "TODO"]
        BY <1>k DEF RestoreStatus
      <3> HIDE DEF t, once
      <3>4. trip' \in [Trip -> TripDoc]
        BY <3>1, <3>2, <3>3 DEF TripDoc
      <3>5. by' \in [Trip -> Driver \cup {None}]
        BY <1>k DEF RestoreStatus, TypeInv, TypeOK
      <3> QED
        BY <3>4, <3>5
    <2> QED
      BY <1>k, <2>4, <2>5 DEF RestoreStatus, TypeInv, TypeOK
  <1>l. ASSUME NEW r \in Request, ReadMetadata(r) PROVE TypeInv'
    <2> DEFINE job == [Undone(r, "read") EXCEPT !.got = trip[req[r].trip].meta]
    <2>1. req[r].at = "undo" /\ req' = [req EXCEPT ![r] = job]
      BY <1>l DEF ReadMetadata, At
    <2>2. /\ Undone(r, "read") \in Job /\ Undone(r, "read").at \in {"undo", "failed"}
          /\ Undone(r, "read").driver = req[r].driver /\ Undone(r, "read").trip = req[r].trip
      BY <2>1, UndoneType
    <2>3. job \in Job /\ job.at \in {"undo", "failed"} /\ job.driver \in Driver /\ job.trip \in Trip
      BY <2>1, <2>2, AtHand DEF Job
    <2> HIDE DEF job
    <2>4. req' \in [Request -> Job] /\ \A s \in Request : Stage(s)'
      BY <2>1, <2>3, JobChange
    <2> QED
      BY <1>l, <2>4 DEF ReadMetadata, TypeInv, TypeOK
  <1>m. ASSUME NEW r \in Request, RestoreMetadata(r) PROVE TypeInv'
    <2> DEFINE job == Undone(r, "write")
    <2>1. req[r].at = "undo" /\ req' = [req EXCEPT ![r] = job]
      BY <1>m DEF RestoreMetadata, At
    <2>2. /\ Undone(r, "write") \in Job /\ Undone(r, "write").at \in {"undo", "failed"}
          /\ Undone(r, "write").driver = req[r].driver /\ Undone(r, "write").trip = req[r].trip
      BY <2>1, UndoneType
    <2>3. job \in Job /\ job.at \in {"undo", "failed"} /\ job.driver \in Driver /\ job.trip \in Trip
      BY <2>1, <2>2, AtHand DEF Job
    <2> HIDE DEF job
    <2>4. req' \in [Request -> Job] /\ \A s \in Request : Stage(s)'
      BY <2>1, <2>3, JobChange
    <2>5. [req[r].first EXCEPT !.tx = Or(@, "blank")] \in Metadata
      BY <2>1, AtHand DEF Metadata, Tx, Or
    <2>6. Merge(req[r].got, [req[r].first EXCEPT !.tx = Or(@, "blank")]) \in Metadata
      BY <2>1, <2>5, AtHand, MergeType
    <2>7. trip' \in [Trip -> TripDoc]
      BY <1>m, <2>1, <2>6, AtHand, MetadataChange DEF RestoreMetadata, WriteMetadata
    <2> QED
      BY <1>m, <2>4, <2>7 DEF RestoreMetadata, TypeInv, TypeOK
  <1>n. ASSUME NEW r \in Request, Throws(r) PROVE TypeInv'
    <2>1. req[r].at # "idle" /\ RollsBack(r, req[r])
      BY <1>n, Places DEF Throws
    <2>2. req' \in [Request -> Job] /\ (\A s \in Request : Stage(s)') /\ faults' \in Nat
      <3>1. Applied(r, req[r])
        BY <2>1 DEF Applied
      <3>2. req[r].at \in {"trip", "count", "number"} => ~req[r].fresh
        BY DEF TypeInv, Stage
      <3>3. req[r].at = "number" => req[r].ref \in Ref
        BY DEF TypeInv, Stage
      <3> QED
        BY <2>1, <3>1, <3>2, <3>3, AtHand, GoesType
    <2> QED
      BY <1>n, <2>2 DEF Throws, TypeInv, TypeOK
  <1>o. ASSUME NEW r \in Request, Dies(r) PROVE TypeInv'
    <2>1. req[r].at # "idle" /\ "dead" \in Ends
      BY <1>o, Places DEF Dies, Ends
    <2>2. /\ Moved(r, "dead") \in Job /\ Moved(r, "dead").at = "dead"
          /\ Moved(r, "dead").driver = req[r].driver /\ Moved(r, "dead").trip = req[r].trip
      BY <2>1, MovedType DEF TypeInv
    <2>3. req' = [req EXCEPT ![r] = Moved(r, "dead")] /\ faults' \in Nat
      BY <1>o DEF Dies, Fault, TypeInv, TypeOK
    <2>4. req' \in [Request -> Job] /\ \A s \in Request : Stage(s)'
      BY <2>1, <2>2, <2>3, AtHand, JobChange
    <2> QED
      BY <1>o, <2>3, <2>4 DEF Dies, TypeInv, TypeOK
  <1>p. ASSUME NEW r \in Request, UpdateStaffsToTrip(r) PROVE TypeInv'
    <2> DEFINE job == [req[r] EXCEPT !.at = "assigned"]
    <2>1. req[r].at = "accepted" /\ req' = [req EXCEPT ![r] = job]
      BY <1>p DEF UpdateStaffsToTrip, At
    <2>2. job \in Job /\ job.at = "assigned" /\ job.driver \in Driver /\ job.trip \in Trip
      BY <2>1, AtHand DEF Job, Ends
    <2> HIDE DEF job
    <2>3. req' \in [Request -> Job] /\ \A s \in Request : Stage(s)'
      BY <2>1, <2>2, JobChange
    <2>4. trip' \in [Trip -> TripDoc]
      BY <1>p, <2>1, AtHand DEF UpdateStaffsToTrip, TypeInv, TypeOK, TripDoc
    <2> QED
      BY <1>p, <2>3, <2>4 DEF UpdateStaffsToTrip, TypeInv, TypeOK
  <1>q. ASSUME NEW t \in Trip, RemoveStaff(t) \/ EndTrip(t) PROVE TypeInv'
    <2>1. trip' \in [Trip -> TripDoc]
      <3>1. CASE RemoveStaff(t)
        BY <3>1 DEF RemoveStaff, TypeInv, TypeOK, TripDoc
      <3>2. CASE EndTrip(t)
        BY <3>2 DEF EndTrip, TypeInv, TypeOK, TripDoc
      <3> QED
        BY <1>q, <3>1, <3>2
    <2>2. by' \in [Trip -> Driver \cup {None}] /\ faults' \in Nat
      BY <1>q DEF RemoveStaff, EndTrip, Fault, TypeInv, TypeOK
    <2> QED
      BY <1>q, <2>1, <2>2 DEF RemoveStaff, EndTrip, TypeInv, TypeOK, Stage
  <1>r. ASSUME NEW n \in Note, NEW t \in Trip, ReadForNote(n, t) PROVE TypeInv'
    <2>1. note' \in [Note -> NoteDoc] /\ crossed' \subseteq Trip
      BY <1>r DEF ReadForNote, Crosses, TypeInv, TypeOK, NoteDoc, TripDoc
    <2> QED
      BY <1>r, <2>1 DEF ReadForNote, TypeInv, TypeOK, Stage
  <1>s. ASSUME NEW n \in Note, UpdateMetadataWorkflow(n) PROVE TypeInv'
    <2>1. note[n] \in NoteDoc
      BY DEF TypeInv, TypeOK
    <2>2. [note[n].got EXCEPT !.workflows = @ \cup {n}] \in Metadata
      BY <2>1 DEF NoteDoc, Metadata
    <2>3. trip' \in [Trip -> TripDoc]
      <3>1. CASE note[n].trip \in Trip
        BY <1>s, <2>2, <3>1, MetadataChange DEF UpdateMetadataWorkflow
      <3>2. CASE note[n].trip \notin Trip
        BY <1>s, <3>2 DEF UpdateMetadataWorkflow, TypeInv, TypeOK
      <3> QED
        BY <3>1, <3>2
    <2>4. note' \in [Note -> NoteDoc]
      BY <1>s, <2>1, NoMetadataType DEF UpdateMetadataWorkflow, TypeInv, TypeOK, NoteDoc
    <2> QED
      BY <1>s, <2>3, <2>4 DEF UpdateMetadataWorkflow, TypeInv, TypeOK, Stage
  <1>t. CASE MonthEnds
    BY <1>t DEF MonthEnds, TypeInv, TypeOK, Stage, AcceptAssumption
  <1>u. ASSUME NEW m \in DOMAIN sequence, Expire(m) PROVE TypeInv'
    BY <1>u DEF Expire, TypeInv, TypeOK, Stage
  <1>v. CASE UNCHANGED vars
    BY <1>v DEF vars, TypeInv, TypeOK, Stage
  <1> QED
    BY <1>a, <1>b, <1>c, <1>d, <1>e, <1>f, <1>g, <1>h, <1>i, <1>j, <1>k, <1>l, <1>m, <1>n, <1>o,
       <1>p, <1>q, <1>r, <1>s, <1>t, <1>u, <1>v DEF Next, Step
LEMMA TypeInit == Init /\ AcceptAssumption => TypeInv
  <1> SUFFICES ASSUME Init, AcceptAssumption PROVE TypeInv
    OBVIOUS
  <1>1. [status |-> "PENDING", todo |-> "TODO", staffs |-> {}, meta |-> NoMetadata] \in TripDoc
    BY NoMetadataType DEF TripDoc
  <1>2. [at |-> "idle", driver |-> None, trip |-> None, first |-> NoMetadata, seen |-> NoMetadata,
         got |-> NoMetadata, ref |-> None, fresh |-> FALSE, undo |-> {}] \in Job
    BY NoMetadataType DEF Job
  <1>3. [at |-> "idle", trip |-> None, got |-> NoMetadata] \in NoteDoc
    BY NoMetadataType DEF NoteDoc
  <1>4. trip \in [Trip -> TripDoc] /\ req \in [Request -> Job] /\ note \in [Note -> NoteDoc]
    BY <1>1, <1>2, <1>3 DEF Init
  <1>5. DOMAIN sequence = {}
    BY DEF Init
  <1>6. month \in 1..MaxMonth /\ faults \in Nat /\ by \in [Trip -> Driver \cup {None}]
    BY DEF Init, AcceptAssumption
  <1>7. \A r \in Request : Stage(r)
    BY DEF Init, Stage
  <1> QED
    BY <1>4, <1>5, <1>6, <1>7 DEF Init, TypeInv, TypeOK

\* Every document, request and note keeps its shape.
THEOREM AcceptTypeCorrect == Spec => []TypeOK
  <1>1. TypeInv /\ [Next]_vars => TypeInv'
    BY TypeStep, AcceptAssumption
  <1>2. TypeInv => TypeOK
    BY DEF TypeInv
  <1>3. Init => TypeInv
    BY TypeInit, AcceptAssumption
  <1> QED
    BY <1>1, <1>2, <1>3, PTL DEF Spec

(***************************************************************************)
(* Most steps leave alone what a request has drawn, whose it is and for    *)
(* which trip, and let nobody past the count.                              *)
(***************************************************************************)
Counted == Before \ {"trip", "count"}
Pending(r) == req[r].at \in Counted /\ req[r].trip \in Allowed

Kept(r, job) ==
    /\ job.driver = req[r].driver /\ job.trip = req[r].trip
    /\ job.ref = req[r].ref /\ job.fresh = req[r].fresh
    /\ job.at \in Counted /\ job.trip \in Allowed => req[r].at \in Counted

Quiet == \A s \in Request : Kept(s, req'[s])

LEMMA QuietChange ==
    ASSUME TypeInv, NEW r \in Request, NEW job, Kept(r, job), req' = [req EXCEPT ![r] = job]
    PROVE  Quiet
  BY DEF Quiet, Kept, TypeInv, TypeOK

LEMMA QuietApplied ==
    ASSUME TypeInv, NEW r \in Request, NEW job \in Job, Kept(r, job), Applied(r, job)
    PROVE  Quiet
  <1>1. CASE Goes(r, job)
    BY <1>1, QuietChange DEF Goes
  <1>2. CASE RollsBack(r, job)
    <2> DEFINE back == [job EXCEPT !.at = "undo", !.undo = AllUndo]
    <2>1. Kept(r, back)
      BY DEF Kept, Job, Counted, Before
    <2>2. req' = [req EXCEPT ![r] = back]
      BY <1>2 DEF RollsBack
    <2> HIDE DEF back
    <2> QED
      BY <2>1, <2>2, QuietChange
  <1> QED
    BY <1>1, <1>2 DEF Applied

\* Moving on is quiet, from behind the count or to where it does not matter.
LEMMA QuietMove ==
    ASSUME TypeInv, NEW r \in Request, NEW place \in Serving \cup Ends,
           place \in Counted /\ req[r].trip \in Allowed => req[r].at \in Counted
    PROVE  Kept(r, Moved(r, place)) /\ Moved(r, place) \in Job
  BY MovedType DEF Kept, TypeInv

LEMMA QuietSteps ==
    ASSUME TypeInv, NEW r \in Request, Step(r),
           ~HandleMultipleAcceptTrip(r), ~GetNextSequence(r), ~(\E d \in Driver, t \in Trip : Begin(r, d, t))
    PROVE  Quiet
  <1> USE DEF Counted, Serving, Before, Ends
  <1>1. CASE GetTrip(r)
    <2> DEFINE next == IF req[r].trip \in Allowed THEN "count" ELSE AfterReference(r)
               job == [Moved(r, next) EXCEPT !.seen = trip[req[r].trip].meta]
    <2>1. next \in Serving \cup Ends /\ (req[r].trip \in Allowed => next = "count") /\ req[r].at # "idle"
      BY <1>1 DEF AfterReference, GetTrip, At
    <2>2. Goes(r, job)
      BY <1>1 DEF GetTrip
    <2> HIDE DEF next
    <2>3. Kept(r, Moved(r, next)) /\ Moved(r, next) \in Job
      BY <2>1, QuietMove
    <2>4. Kept(r, job) /\ job \in Job
      BY <2>1, <2>3, AtHand DEF Kept, Job
    <2> HIDE DEF job
    <2> QED
      BY <2>2, <2>4, QuietApplied DEF Applied
  <1>2. CASE WriteReference(r)
    <2>1. AfterReference(r) \in Serving \cup Ends /\ req[r].at \in Counted
      BY <1>2 DEF WriteReference, At, AfterReference
    <2> QED
      BY <1>2, <2>1, QuietMove, QuietApplied DEF WriteReference
  <1>3. CASE HoldWithdrawal(r)
    <2> DEFINE job == [Moved(r, "merge") EXCEPT !.got = trip[req[r].trip].meta]
    <2>1. req[r].at \in Counted /\ req[r].at # "idle" /\ "merge" \in Serving \cup Ends /\ Goes(r, job)
      BY <1>3 DEF HoldWithdrawal, At
    <2>2. Kept(r, Moved(r, "merge")) /\ Moved(r, "merge") \in Job
      BY <2>1, QuietMove
    <2>3. Kept(r, job) /\ job \in Job
      BY <2>1, <2>2, AtHand DEF Kept, Job
    <2> HIDE DEF job
    <2> QED
      BY <2>1, <2>3, QuietApplied DEF Applied
  <1>4. CASE UpdateTripMetadata(r)
    <2>1. "todo" \in Serving \cup Ends /\ req[r].at \in Counted
      BY <1>4 DEF UpdateTripMetadata, At
    <2> QED
      BY <1>4, <2>1, QuietMove, QuietApplied DEF UpdateTripMetadata
  <1>5. CASE FinishTodo(r)
    <2>1. "doing" \in Serving \cup Ends /\ req[r].at \in Counted
      BY <1>5 DEF FinishTodo, At
    <2> QED
      BY <1>5, <2>1, QuietMove, QuietApplied DEF FinishTodo
  <1>6. CASE UpdateTripDetailStatus(r)
    <2>1. "urls" \in Serving \cup Ends /\ req[r].at \in Counted
      BY <1>6 DEF UpdateTripDetailStatus, At
    <2> QED
      BY <1>6, <2>1, QuietMove, QuietApplied DEF UpdateTripDetailStatus
  <1>7. CASE StartTransportWorkflow(r)
    <2>1. "accepted" \in Serving \cup Ends /\ "accepted" \notin Counted
      OBVIOUS
    <2>2. Applied(r, Moved(r, "accepted"))
      BY <1>7 DEF StartTransportWorkflow, Applied
    <2> QED
      BY <2>1, <2>2, QuietMove, QuietApplied
  <1>8. ASSUME NEW part, req[r].at = "undo" PROVE Kept(r, Undone(r, part)) /\ Undone(r, part) \in Job
    <2> DEFINE left == req[r].undo \ {part}
               place == IF left = {} THEN "failed" ELSE "undo"
    <2>1. place \in Serving \cup Ends /\ place \notin Counted
      OBVIOUS
    <2>2. Undone(r, part) = [Moved(r, place) EXCEPT !.undo = left]
      BY DEF Undone
    <2> HIDE DEF place, left
    <2>3. Kept(r, Moved(r, place)) /\ Moved(r, place) \in Job
      BY <2>1, QuietMove
    <2>4. Kept(r, Undone(r, part))
      BY <2>2, <2>3 DEF Kept, Job
    <2> QED
      BY <1>8, <2>4, UndoneType
  <1>9. CASE RestoreStatus(r)
    BY <1>8, <1>9, QuietChange DEF RestoreStatus, At
  <1>10. CASE ReadMetadata(r)
    <2> DEFINE job == [Undone(r, "read") EXCEPT !.got = trip[req[r].trip].meta]
    <2>1. req[r].at = "undo" /\ req' = [req EXCEPT ![r] = job]
      BY <1>10 DEF ReadMetadata, At
    <2>2. Kept(r, Undone(r, "read")) /\ Undone(r, "read") \in Job
      BY <1>8, <2>1
    <2>3. Kept(r, job)
      BY <2>2 DEF Kept, Job
    <2> HIDE DEF job
    <2> QED
      BY <2>1, <2>3, QuietChange
  <1>11. CASE RestoreMetadata(r)
    BY <1>8, <1>11, QuietChange DEF RestoreMetadata, At
  <1>12. CASE Throws(r)
    <2>1. Kept(r, req[r]) /\ req[r] \in Job
      BY DEF Kept, TypeInv, TypeOK
    <2> QED
      BY <1>12, <2>1, QuietApplied DEF Throws, Applied
  <1>13. CASE Dies(r)
    <2>1. "dead" \in Serving \cup Ends /\ "dead" \notin Counted
      OBVIOUS
    <2> QED
      BY <1>13, <2>1, QuietMove, QuietChange DEF Dies
  <1>14. CASE UpdateStaffsToTrip(r)
    <2> DEFINE job == [req[r] EXCEPT !.at = "assigned"]
    <2>1. Kept(r, job)
      BY DEF Kept, TypeInv, TypeOK, Job
    <2>2. req' = [req EXCEPT ![r] = job]
      BY <1>14 DEF UpdateStaffsToTrip
    <2> HIDE DEF job
    <2> QED
      BY <2>1, <2>2, QuietChange
  <1> QED
    BY <1>1, <1>2, <1>3, <1>4, <1>5, <1>6, <1>7, <1>9, <1>10, <1>11, <1>12, <1>13, <1>14 DEF Step

(***************************************************************************)
(* The limit.  Between its count and the DOING of its trip an acceptance   *)
(* knows that its driver is below the limit, and of a driver who was not   *)
(* hasty there is one such acceptance.                                     *)
(***************************************************************************)
LimitInv ==
    /\ \A r, s \in Request : r # s /\ Pending(r) /\ Pending(s) /\ req[r].driver = req[s].driver
                              => req[r].driver \in hasty
    /\ \A r \in Request, d \in Driver \ hasty : Pending(r) /\ req[r].driver = d /\ Limit # 0
                                               => Cardinality(UnderWay(d)) < Limit
    /\ LimitKept

LEMMA UnderWayFinite ==
    ASSUME AcceptAssumption, NEW d
    PROVE  /\ IsFiniteSet(UnderWay(d)) /\ Cardinality(UnderWay(d)) \in Nat
           /\ IsFiniteSet(UnderWay(d)') /\ Cardinality(UnderWay(d)') \in Nat
  <1>1. UnderWay(d) \subseteq Trip /\ UnderWay(d)' \subseteq Trip
    BY DEF UnderWay, AcceptAssumption
  <1> QED
    BY <1>1, FS_Subset, FS_CardinalityType DEF AcceptAssumption

\* Fewer trips, and nobody new behind the count.
LEMMA LimitQuiet ==
    ASSUME AcceptAssumption, TypeInv, TypeInv', LimitInv,
           \A s \in Request : Pending(s)' => Pending(s) /\ req'[s].driver = req[s].driver,
           hasty \subseteq hasty',
           \A d \in Driver : UnderWay(d)' \subseteq UnderWay(d)
    PROVE  LimitInv'
  <1>1. ASSUME NEW d \in Driver PROVE Cardinality(UnderWay(d)') <= Cardinality(UnderWay(d))
    BY UnderWayFinite, FS_Subset
  <1>3. \A r, s \in Request : r # s /\ Pending(r)' /\ Pending(s)' /\ req'[r].driver = req'[s].driver
                              => req'[r].driver \in hasty'
    BY DEF LimitInv
  <1>4. ASSUME NEW r \in Request, NEW d \in Driver, d \notin hasty', Pending(r)', req'[r].driver = d, Limit # 0
        PROVE  Cardinality(UnderWay(d)') < Limit
    <2>1. Cardinality(UnderWay(d)) < Limit
      BY <1>4 DEF LimitInv
    <2> QED
      BY <2>1, <1>1, UnderWayFinite DEF AcceptAssumption
  <1>5. LimitKept'
    <2> SUFFICES ASSUME NEW d \in Driver, d \notin hasty', Limit # 0
                 PROVE  Cardinality(UnderWay(d)') <= Limit
      BY DEF LimitKept
    <2>1. Cardinality(UnderWay(d)) <= Limit
      BY DEF LimitInv, LimitKept
    <2> QED
      BY <2>1, <1>1, UnderWayFinite DEF AcceptAssumption
  <1> QED
    BY <1>3, <1>4, <1>5 DEF LimitInv

LEMMA LimitStep ==
    ASSUME AcceptAssumption, TypeInv, TypeInv', LimitInv, [Next]_vars
    PROVE  LimitInv'
  <1> USE DEF history
  <1>q. ASSUME Quiet PROVE \A s \in Request : Pending(s)' => Pending(s) /\ req'[s].driver = req[s].driver
    BY <1>q DEF Quiet, Kept, Pending
  <1>r. ASSUME UNCHANGED req PROVE \A s \in Request : Pending(s)' => Pending(s) /\ req'[s].driver = req[s].driver
    BY <1>r DEF Pending
  <1>a. ASSUME NEW r \in Request, NEW d \in Driver, NEW t \in Trip, Begin(r, d, t) PROVE LimitInv'
    <2>1. /\ req'[r].at = "trip" /\ \A s \in Request \ {r} : req'[s] = req[s]
      <3>1. Moved(r, "trip") \in Job /\ Moved(r, "trip").at = "trip"
        BY MovedType DEF TypeInv, Serving, Before
      <3> QED
        BY <1>a, <3>1 DEF Begin, TypeInv, TypeOK, Job
    <2>2. \A s \in Request : Pending(s)' => Pending(s) /\ req'[s].driver = req[s].driver
      BY <2>1 DEF Pending, Counted
    <2>3. \A e \in Driver : UnderWay(e)' \subseteq UnderWay(e)
      BY <1>a DEF Begin, UnderWay
    <2> QED
      BY <1>a, <2>2, <2>3, LimitQuiet DEF Begin
  <1>b. ASSUME NEW r \in Request, HandleMultipleAcceptTrip(r) PROVE LimitInv'
    <2> DEFINE d == req[r].driver
    <2>1. req[r].at = "count" /\ d \in Driver
      BY <1>b, AtHand DEF HandleMultipleAcceptTrip, At
    <2>2. \A s \in Request \ {r} : req'[s] = req[s]
      BY <1>b DEF HandleMultipleAcceptTrip, Goes, TypeInv, TypeOK
    <2>3. req'[r].driver = d
      <3>1. /\ Moved(r, "refused") \in Job /\ Moved(r, "refused").driver = d
            /\ Moved(r, "number") \in Job /\ Moved(r, "number").driver = d
            /\ Moved(r, "write") \in Job /\ Moved(r, "write").driver = d
        BY MovedType DEF TypeInv, Serving, Before, Ends
      <3> QED
        BY <1>b, <3>1 DEF HandleMultipleAcceptTrip, Goes, TypeInv, TypeOK, Job
    <2>4. \A e \in Driver : UnderWay(e)' = UnderWay(e)
      BY <1>b DEF HandleMultipleAcceptTrip, UnderWay
    <2>5. hasty' = IF Unsettled(r) THEN hasty \cup {d} ELSE hasty
      BY <1>b DEF HandleMultipleAcceptTrip
    <2>6. ASSUME NEW s \in Request \ {r}, Pending(s), req[s].driver = d PROVE d \in hasty'
      <3>1. Unsettled(r)
        BY <2>6 DEF Unsettled, Pending, Counted
      <3> QED
        BY <3>1, <2>5
    <2>7. ASSUME Pending(r)', d \notin hasty', Limit # 0 PROVE Cardinality(UnderWay(d)) < Limit
      <3>1. ~Unsettled(r)
        BY <2>5, <2>7
      <3>2. ~TooMany(TripActiveList(d))
        <4>1. Moved(r, "refused") \in Job /\ Moved(r, "refused").at = "refused"
          BY MovedType DEF TypeInv, Ends
        <4>2. SUFFICES ASSUME TooMany(TripActiveList(d)) PROVE FALSE
          OBVIOUS
        <4>3. req' = [req EXCEPT ![r] = Moved(r, "refused")]
          BY <1>b, <4>2 DEF HandleMultipleAcceptTrip, Goes
        <4> QED
          BY <2>7, <4>1, <4>3 DEF Pending, Counted, Before, TypeInv, TypeOK
      <3>3. UnderWay(d) \subseteq TripActiveList(d) /\ TripActiveList(d) \subseteq Trip
        BY <3>1 DEF UnderWay, TripActiveList, Unsettled, AcceptAssumption
      <3>4. IsFiniteSet(TripActiveList(d)) /\ Cardinality(TripActiveList(d)) \in Nat
        BY <3>3, FS_Subset, FS_CardinalityType DEF AcceptAssumption
      <3>5. Cardinality(UnderWay(d)) <= Cardinality(TripActiveList(d))
        BY <3>3, <3>4, FS_Subset
      <3>6. Cardinality(TripActiveList(d)) < Limit
        BY <2>7, <3>2, <3>4 DEF TooMany, AcceptAssumption
      <3> QED
        BY <3>4, <3>5, <3>6, UnderWayFinite DEF AcceptAssumption
    <2>8. \A s \in Request \ {r} : Pending(s)' => Pending(s) /\ req'[s].driver = req[s].driver
      BY <2>2 DEF Pending
    <2>9. \A x, y \in Request : x # y /\ Pending(x)' /\ Pending(y)' /\ req'[x].driver = req'[y].driver
                                => req'[x].driver \in hasty'
      <3> SUFFICES ASSUME NEW x \in Request, NEW y \in Request, x # y, Pending(x)', Pending(y)',
                          req'[x].driver = req'[y].driver
                   PROVE  req'[x].driver \in hasty'
        OBVIOUS
      <3>1. CASE x = r
        BY <3>1, <2>3, <2>6, <2>8
      <3>2. CASE y = r
        BY <3>2, <2>3, <2>6, <2>8
      <3>3. CASE x # r /\ y # r
        BY <3>3, <2>5, <2>8 DEF LimitInv
      <3> QED
        BY <3>1, <3>2, <3>3
    <2>10. ASSUME NEW x \in Request, NEW e \in Driver, e \notin hasty', Pending(x)', req'[x].driver = e, Limit # 0
           PROVE  Cardinality(UnderWay(e)') < Limit
      <3>1. Cardinality(UnderWay(e)) < Limit
        <4>1. CASE x = r
          BY <4>1, <2>3, <2>7, <2>10
        <4>2. CASE x # r
          BY <4>2, <2>5, <2>8, <2>10 DEF LimitInv
        <4> QED
          BY <4>1, <4>2
      <3> QED
        BY <3>1, <2>4
    <2>11. LimitKept'
      BY <2>4, <2>5 DEF LimitInv, LimitKept
    <2> QED
      BY <2>9, <2>10, <2>11 DEF LimitInv
  <1>c. ASSUME NEW r \in Request, GetNextSequence(r) PROVE LimitInv'
    <2>1. req[r].at \in Counted
      BY <1>c DEF GetNextSequence, At, Counted, Before
    <2>2. \A s \in Request \ {r} : req'[s] = req[s]
      BY <1>c DEF GetNextSequence, Applied, Goes, RollsBack, TypeInv, TypeOK
    <2>3. req'[r].driver = req[r].driver /\ req'[r].trip = req[r].trip
      <3> DEFINE m == req[r].ref.month
                 next == IF m \in DOMAIN sequence THEN sequence[m] + 1 ELSE 1
                 job == [Moved(r, "write") EXCEPT !.ref.number = next, !.fresh = (m = month)]
                 back == [job EXCEPT !.at = "undo", !.undo = AllUndo]
      <3>1. /\ Moved(r, "write") \in Job
            /\ Moved(r, "write").driver = req[r].driver /\ Moved(r, "write").trip = req[r].trip
        BY MovedType DEF TypeInv, Serving, Before
      <3>2. req' = [req EXCEPT ![r] = job] \/ req' = [req EXCEPT ![r] = back]
        BY <1>c DEF GetNextSequence, Applied, Goes, RollsBack
      <3> HIDE DEF m, next
      <3>3. job.driver = req[r].driver /\ job.trip = req[r].trip
        BY <3>1 DEF Job
      <3>4. back.driver = job.driver /\ back.trip = job.trip
        <4>1. DOMAIN job = DOMAIN Moved(r, "write")
          OBVIOUS
        <4>2. "driver" \in DOMAIN job /\ "trip" \in DOMAIN job
          BY <3>1, <4>1 DEF Job
        <4> HIDE DEF job
        <4> QED
          BY <4>2
      <3> HIDE DEF job, back
      <3>5. req'[r] = job \/ req'[r] = back
        BY <3>2 DEF TypeInv, TypeOK
      <3> QED
        BY <3>3, <3>4, <3>5
    <2>4. \A s \in Request : Pending(s)' => Pending(s) /\ req'[s].driver = req[s].driver
      BY <2>1, <2>2, <2>3 DEF Pending
    <2>5. \A e \in Driver : UnderWay(e)' \subseteq UnderWay(e)
      BY <1>c DEF GetNextSequence, UnderWay
    <2> QED
      BY <1>c, <2>4, <2>5, LimitQuiet DEF GetNextSequence
  <1>d. ASSUME NEW r \in Request, UpdateTripDetailStatus(r) PROVE LimitInv'
    <2>0. req[r].at = "doing" /\ req[r].driver \in Driver /\ req[r].trip \in Trip
      BY <1>d, AtHand DEF UpdateTripDetailStatus, At
    <2> SUFFICES ASSUME NEW d \in Driver, d = req[r].driver, NEW t \in Trip, t = req[r].trip
                 PROVE  LimitInv'
      BY <2>0
    <2>1. req[r].at = "doing" /\ d = req[r].driver /\ t = req[r].trip
      BY <2>0
    <2>2. \A s \in Request : Pending(s)' => Pending(s) /\ req'[s].driver = req[s].driver
      <3>1. Quiet
        <4>1. Step(r) /\ ~HandleMultipleAcceptTrip(r) /\ ~GetNextSequence(r)
          BY <1>d, <2>1 DEF Step, HandleMultipleAcceptTrip, GetNextSequence, At
        <4>2. ~(\E e \in Driver, u \in Trip : Begin(r, e, u))
          BY <2>1 DEF Begin, At
        <4> QED
          BY <4>1, <4>2, QuietSteps
      <3> QED
        BY <3>1, <1>q
    <2>3. ~Pending(r)'
      <3> DEFINE job == Moved(r, "urls")
                 back == [job EXCEPT !.at = "undo", !.undo = AllUndo]
      <3>1. job \in Job /\ job.at = "urls"
        BY MovedType DEF TypeInv, Serving
      <3>2. req' = [req EXCEPT ![r] = job] \/ req' = [req EXCEPT ![r] = back]
        BY <1>d DEF UpdateTripDetailStatus, Applied, Goes, RollsBack
      <3> HIDE DEF job
      <3>3. back.at = "undo"
        BY <3>1 DEF Job
      <3> HIDE DEF back
      <3>4. req'[r] = job \/ req'[r] = back
        BY <3>2 DEF TypeInv, TypeOK
      <3>5. "urls" \notin Counted /\ "undo" \notin Counted
        BY DEF Counted, Before
      <3> QED
        BY <3>1, <3>3, <3>4, <3>5 DEF Pending
    <2>x. /\ by'[t] = d
          /\ \A u \in Trip \ {t} : trip'[u] = trip[u] /\ by'[u] = by[u]
      <3>1. /\ trip' = [trip EXCEPT ![t].status = "DOING"]
            /\ by' = [by EXCEPT ![t] = d]
        BY <1>d DEF UpdateTripDetailStatus
      <3>2. trip \in [Trip -> TripDoc] /\ by \in [Trip -> Driver \cup {None}]
        BY DEF TypeInv, TypeOK
      <3> QED
        BY <2>1, <3>1, <3>2
    <2>y. \A e \in Driver : \A u \in UnderWay(e)' : u # t => u \in UnderWay(e)
      BY <2>x DEF UnderWay, AcceptAssumption
    <2>4. /\ UnderWay(d)' \subseteq UnderWay(d) \cup {t}
          /\ t \notin Allowed => UnderWay(d)' \subseteq UnderWay(d)
      <3>1. \A u \in UnderWay(d)' : u \in Allowed
        BY DEF UnderWay
      <3> QED
        BY <2>1, <2>y, <3>1
    <2>5. \A e \in Driver \ {d} : UnderWay(e)' \subseteq UnderWay(e)
      <3>1. \A e \in Driver \ {d} : t \notin UnderWay(e)'
        BY <2>x DEF UnderWay
      <3> QED
        BY <2>y, <3>1
    <2>6. hasty' = hasty
      BY <1>d DEF UpdateTripDetailStatus
    <2>7. CASE t \notin Allowed
      <3>1. \A e \in Driver : UnderWay(e)' \subseteq UnderWay(e)
        BY <2>4, <2>5, <2>7
      <3> QED
        BY <2>2, <2>6, <3>1, LimitQuiet
    <2>8. CASE t \in Allowed
      <3>1. Pending(r)
        BY <2>1, <2>8 DEF Pending, Counted, Before
      <3>2. ASSUME NEW e \in Driver \ {d}
            PROVE  Cardinality(UnderWay(e)') <= Cardinality(UnderWay(e))
        BY <2>5, UnderWayFinite, FS_Subset
      <3>3. ASSUME d \notin hasty, Limit # 0 PROVE Cardinality(UnderWay(d)') <= Limit
        <4>1. Cardinality(UnderWay(d)) < Limit
          BY <2>1, <3>1, <3>3 DEF LimitInv
        <4>2. IsFiniteSet(UnderWay(d) \cup {t}) /\ Cardinality(UnderWay(d) \cup {t}) <= Cardinality(UnderWay(d)) + 1
          <5>1. IsFiniteSet(UnderWay(d)) /\ Cardinality(UnderWay(d)) \in Nat
            BY UnderWayFinite
          <5>2. /\ IsFiniteSet(UnderWay(d) \cup {t})
                /\ Cardinality(UnderWay(d) \cup {t})
                     = IF t \in UnderWay(d) THEN Cardinality(UnderWay(d)) ELSE Cardinality(UnderWay(d)) + 1
            BY <5>1, FS_AddElement
          <5> QED
            BY <5>1, <5>2
        <4>3. Cardinality(UnderWay(d)') <= Cardinality(UnderWay(d) \cup {t})
          BY <2>4, <4>2, FS_Subset
        <4>4. Cardinality(UnderWay(d) \cup {t}) \in Nat
          BY <4>2, FS_CardinalityType
        <4> QED
          BY <4>1, <4>2, <4>3, <4>4, UnderWayFinite DEF AcceptAssumption
      <3>4. ASSUME NEW x \in Request, NEW e \in Driver, e \notin hasty', Pending(x)', req'[x].driver = e, Limit # 0
            PROVE  Cardinality(UnderWay(e)') < Limit
        <4>1. x # r /\ Pending(x) /\ req[x].driver = e
          BY <2>2, <2>3, <3>4
        <4>2. e # d
          BY <2>1, <2>6, <3>1, <3>4, <4>1 DEF LimitInv
        <4>3. Cardinality(UnderWay(e)) < Limit
          BY <2>6, <3>4, <4>1 DEF LimitInv
        <4> QED
          BY <3>2, <4>2, <4>3, UnderWayFinite DEF AcceptAssumption
      <3>5. LimitKept'
        <4> SUFFICES ASSUME NEW e \in Driver, e \notin hasty', Limit # 0
                     PROVE  Cardinality(UnderWay(e)') <= Limit
          BY DEF LimitKept
        <4>1. CASE e = d
          BY <4>1, <2>6, <3>3
        <4>2. CASE e # d
          <5>1. Cardinality(UnderWay(e)) <= Limit
            BY <2>6 DEF LimitInv, LimitKept
          <5> QED
            BY <4>2, <5>1, <3>2, UnderWayFinite DEF AcceptAssumption
        <4> QED
          BY <4>1, <4>2
      <3>6. \A x, y \in Request : x # y /\ Pending(x)' /\ Pending(y)' /\ req'[x].driver = req'[y].driver
                                  => req'[x].driver \in hasty'
        BY <2>2, <2>6 DEF LimitInv
      <3> QED
        BY <3>4, <3>5, <3>6 DEF LimitInv
    <2> QED
      BY <2>7, <2>8
  <1>e. ASSUME NEW r \in Request, Step(r), ~HandleMultipleAcceptTrip(r), ~GetNextSequence(r),
               ~UpdateTripDetailStatus(r), ~(\E d \in Driver, t \in Trip : Begin(r, d, t))
        PROVE  LimitInv'
    <2>1. \A s \in Request : Pending(s)' => Pending(s) /\ req'[s].driver = req[s].driver
      BY <1>e, <1>q, QuietSteps
    <2>2. hasty' = hasty
      BY <1>e DEF Step, GetTrip, WriteReference, HoldWithdrawal, UpdateTripMetadata, FinishTodo,
                  StartTransportWorkflow, RestoreStatus, ReadMetadata, RestoreMetadata, Throws, Dies,
                  UpdateStaffsToTrip
    <2>3. \A e \in Driver : UnderWay(e)' \subseteq UnderWay(e)
      <3>1. CASE GetTrip(r) \/ HoldWithdrawal(r) \/ StartTransportWorkflow(r) \/ ReadMetadata(r)
                 \/ Throws(r) \/ Dies(r)
        BY <3>1 DEF GetTrip, HoldWithdrawal, StartTransportWorkflow, ReadMetadata, Throws, Dies, UnderWay
      <3>2. CASE WriteReference(r) \/ UpdateTripMetadata(r) \/ RestoreMetadata(r)
        BY <3>2 DEF WriteReference, UpdateTripMetadata, RestoreMetadata, WriteMetadata, UnderWay,
                    TypeInv, TypeOK, TripDoc, AcceptAssumption
      <3>3. CASE FinishTodo(r) \/ UpdateStaffsToTrip(r)
        BY <3>3 DEF FinishTodo, UpdateStaffsToTrip, UnderWay, TypeInv, TypeOK, TripDoc, AcceptAssumption
      <3>4. CASE RestoreStatus(r)
        <4>1. \A t \in Trip : by'[t] = by[t] \/ by'[t] = None
          BY <3>4 DEF RestoreStatus, TypeInv, TypeOK
        <4>2. \A t \in Trip : trip'[t].status = "DOING" => trip[t].status = "DOING"
          BY <3>4 DEF RestoreStatus, TypeInv, TypeOK, TripDoc
        <4> QED
          BY <4>1, <4>2 DEF UnderWay, AcceptAssumption
      <3> QED
        BY <1>e, <3>1, <3>2, <3>3, <3>4 DEF Step
    <2> QED
      BY <2>1, <2>2, <2>3, LimitQuiet
  <1>f. ASSUME NEW t \in Trip, RemoveStaff(t) \/ EndTrip(t) PROVE LimitInv'
    <2>1. \A e \in Driver : UnderWay(e)' \subseteq UnderWay(e)
      BY <1>f DEF RemoveStaff, EndTrip, UnderWay, TypeInv, TypeOK, TripDoc, AcceptAssumption
    <2>2. UNCHANGED req /\ hasty' = hasty
      BY <1>f DEF RemoveStaff, EndTrip
    <2> QED
      BY <2>1, <2>2, <1>r, LimitQuiet
  <1>g. ASSUME NEW n \in Note, UpdateMetadataWorkflow(n) PROVE LimitInv'
    <2>1. \A e \in Driver : UnderWay(e)' \subseteq UnderWay(e)
      BY <1>g DEF UpdateMetadataWorkflow, UnderWay, TypeInv, TypeOK, TripDoc, AcceptAssumption
    <2>2. UNCHANGED req /\ hasty' = hasty
      BY <1>g DEF UpdateMetadataWorkflow
    <2> QED
      BY <2>1, <2>2, <1>r, LimitQuiet
  <1>h. ASSUME UNCHANGED <<trip, req, by, hasty>> PROVE LimitInv'
    <2>1. \A e \in Driver : UnderWay(e)' \subseteq UnderWay(e)
      BY <1>h DEF UnderWay
    <2> QED
      BY <1>h, <2>1, <1>r, LimitQuiet
  <1>i. ASSUME \E n \in Note, t \in Trip : ReadForNote(n, t) PROVE LimitInv'
    BY <1>i, <1>h DEF ReadForNote
  <1>j. ASSUME MonthEnds \/ (\E m \in DOMAIN sequence : Expire(m)) \/ UNCHANGED vars PROVE LimitInv'
    BY <1>j, <1>h DEF MonthEnds, Expire, vars
  <1>k. ASSUME NEW r \in Request, Step(r) PROVE LimitInv'
    BY <1>a, <1>b, <1>c, <1>d, <1>e, <1>k
  <1> QED
    BY <1>f, <1>g, <1>i, <1>j, <1>k DEF Next

LEMMA NobodyUnderWay == ASSUME Init, AcceptAssumption, NEW d \in Driver PROVE Cardinality(UnderWay(d)) = 0
  <1>1. UnderWay(d) = {}
    BY DEF Init, UnderWay, AcceptAssumption
  <1> QED
    BY <1>1, FS_EmptySet

LEMMA LimitInit == Init /\ AcceptAssumption => LimitInv
  <1> SUFFICES ASSUME Init, AcceptAssumption PROVE LimitInv
    OBVIOUS
  <1>1. \A r \in Request : ~Pending(r)
    BY DEF Init, Pending, Counted, Before
  <1>2. LimitKept
    BY NobodyUnderWay, AcceptAssumption DEF LimitKept, AcceptAssumption
  <1> QED
    BY <1>1, <1>2 DEF LimitInv

\* LimitKept for any number of drivers, trips and requests, any faults.
THEOREM LimitHolds == Spec => []LimitKept
  <1>1. Init => TypeInv /\ LimitInv
    BY TypeInit, LimitInit, AcceptAssumption
  <1>2. TypeInv /\ LimitInv /\ [Next]_vars => (TypeInv /\ LimitInv)'
    BY TypeStep, LimitStep, AcceptAssumption
  <1>3. LimitInv => LimitKept
    BY DEF LimitInv
  <1> QED
    BY <1>1, <1>2, <1>3, PTL DEF Spec

(***************************************************************************)
(* The numbers.  A fresh number of this month is at most what its counter  *)
(* stands at, so that the next one is new; earlier months draw no more.    *)
(***************************************************************************)
Drawn(r) ==
    /\ req[r].ref \in Ref /\ req[r].ref.month <= month
    /\ req[r].ref.month = month => month \in DOMAIN sequence /\ req[r].ref.number <= sequence[month]

NumbersInv == NumbersAreFresh /\ \A r \in Request : req[r].fresh => Drawn(r)

\* Nobody draws, the calendar stands still.
LEMMA NumbersQuiet ==
    ASSUME NumbersInv, UNCHANGED <<month, sequence>>,
           \A r \in Request : req'[r].fresh => req[r].fresh /\ req'[r].ref = req[r].ref
    PROVE  NumbersInv'
  BY DEF NumbersInv, NumbersAreFresh, Drawn

LEMMA NumbersDraw ==
    ASSUME TypeInv, NumbersInv, NEW r \in Request, GetNextSequence(r)
    PROVE  NumbersInv'
  <1> DEFINE next == IF req[r].ref.month \in DOMAIN sequence THEN sequence[req[r].ref.month] + 1 ELSE 1
             job == [Moved(r, "write") EXCEPT !.ref.number = next, !.fresh = (req[r].ref.month = month)]
             back == [job EXCEPT !.at = "undo", !.undo = AllUndo]
  <1>1. req[r].at = "number" /\ req[r].ref \in Ref /\ ~req[r].fresh
    BY DEF GetNextSequence, At, TypeInv, Stage
  <1> SUFFICES ASSUME NEW m \in 1..MaxMonth, m = req[r].ref.month PROVE NumbersInv'
    BY <1>1 DEF Ref
  <1>2. PICK n \in Nat : n = next
    BY <1>1 DEF TypeInv, TypeOK, Ref
  <1>3. m \in DOMAIN sequence => n = sequence[m] + 1
    BY <1>2
  <1>4. /\ \A k \in DOMAIN sequence : k # m => k \in DOMAIN sequence' /\ sequence'[k] = sequence[k]
        /\ m \in DOMAIN sequence' /\ sequence'[m] = n /\ month' = month
    BY <1>2 DEF GetNextSequence
  <1>5. req' = [req EXCEPT ![r] = job] \/ req' = [req EXCEPT ![r] = back]
    BY DEF GetNextSequence, Applied, Goes, RollsBack
  <1>6. /\ Moved(r, "write") \in Job /\ Moved(r, "write").ref = req[r].ref
    BY MovedType DEF TypeInv, Serving, Before
  <1>7. /\ job.ref = [req[r].ref EXCEPT !.number = n] /\ job.fresh = (m = month)
        /\ "ref" \in DOMAIN job /\ "fresh" \in DOMAIN job
    <2> HIDE DEF next
    <2> QED
      BY <1>2, <1>6 DEF Job
  <1> HIDE DEF job
  <1>8. back.ref = job.ref /\ back.fresh = job.fresh
    BY <1>7
  <1> HIDE DEF back
  <1>9. /\ req'[r].ref = [req[r].ref EXCEPT !.number = n] /\ req'[r].fresh = (m = month)
        /\ \A s \in Request \ {r} : req'[s] = req[s]
    BY <1>5, <1>7, <1>8 DEF TypeInv, TypeOK
  <1>10. req'[r].ref \in Ref /\ req'[r].ref.month = m /\ req'[r].ref.number = n
    BY <1>1, <1>9 DEF Ref
  <1>11. ASSUME NEW s \in Request \ {r}, req[s].fresh
         PROVE  Drawn(s)' /\ (m = month => req[s].ref # req'[r].ref)
    <2>1. Drawn(s) /\ req'[s] = req[s]
      BY <1>9, <1>11 DEF NumbersInv
    <2>2. m = month /\ req[s].ref.month = month => req[s].ref.number <= sequence[m] /\ n = sequence[m] + 1
      BY <1>3, <2>1 DEF Drawn
    <2>3. m \in DOMAIN sequence => sequence[m] \in Nat
      BY DEF TypeInv, TypeOK
    <2>4. req[s].ref.number \in Nat
      BY <2>1 DEF Drawn, Ref
    <2>5. m = month => req[s].ref # req'[r].ref
      <3> SUFFICES ASSUME m = month, req[s].ref = req'[r].ref PROVE FALSE
        OBVIOUS
      <3>1. m \in DOMAIN sequence
        BY <1>10, <2>1 DEF Drawn
      <3> QED
        BY <1>10, <2>2, <2>3, <2>4, <3>1
    <2>6. Drawn(s)'
      <3>1. CASE req[s].ref.month = month /\ m = month
        <4>1. m \in DOMAIN sequence
          BY <2>1, <3>1 DEF Drawn
        <4>2. req[s].ref.number <= n
          BY <2>2, <2>3, <2>4, <3>1, <4>1
        <4> QED
          BY <1>4, <2>1, <3>1, <4>2 DEF Drawn
      <3>2. CASE req[s].ref.month = month /\ m # month
        BY <1>4, <2>1, <3>2 DEF Drawn
      <3>3. CASE req[s].ref.month # month
        BY <1>4, <2>1, <3>3 DEF Drawn
      <3> QED
        BY <3>1, <3>2, <3>3
    <2> QED
      BY <2>5, <2>6
  <1>f. req'[r].fresh => m = month
    BY ONLY <1>9
  <1>12. req'[r].fresh => Drawn(r)'
    <2> SUFFICES ASSUME m = month PROVE Drawn(r)'
      BY <1>f
    <2> QED
      BY <1>4, <1>10, <1>2 DEF Drawn
  <1>13. NumbersAreFresh'
    <2> SUFFICES ASSUME NEW x \in Request, NEW y \in Request, req'[x].fresh, req'[y].fresh,
                        req'[x].ref = req'[y].ref, x # y
                 PROVE  FALSE
      BY DEF NumbersAreFresh
    <2>0. \A s \in Request \ {r} : req'[s] = req[s]
      BY <1>9
    <2>1. CASE x = r
      <3>1. y \in Request \ {r} /\ req[y].fresh /\ m = month /\ req[y].ref = req'[r].ref
        BY <2>0, <2>1, <1>f
      <3> QED
        BY <3>1, <1>11
    <2>2. CASE y = r
      <3>1. x \in Request \ {r} /\ req[x].fresh /\ m = month /\ req[x].ref = req'[r].ref
        BY <2>0, <2>2, <1>f
      <3> QED
        BY <3>1, <1>11
    <2>3. CASE x # r /\ y # r
      BY <2>0, <2>3 DEF NumbersInv, NumbersAreFresh
    <2> QED
      BY <2>1, <2>2, <2>3
  <1> QED
    BY <1>9, <1>11, <1>12, <1>13 DEF NumbersInv

LEMMA NumbersStep ==
    ASSUME AcceptAssumption, TypeInv, TypeInv', NumbersInv, [Next]_vars
    PROVE  NumbersInv'
  <1>a. ASSUME NEW r \in Request, NEW d \in Driver, NEW t \in Trip, Begin(r, d, t) PROVE NumbersInv'
    <2>1. /\ req'[r].at = "trip" /\ \A s \in Request \ {r} : req'[s] = req[s]
      <3>1. Moved(r, "trip") \in Job /\ Moved(r, "trip").at = "trip"
        BY MovedType DEF TypeInv, Serving, Before
      <3> QED
        BY <1>a, <3>1 DEF Begin, TypeInv, TypeOK, Job
    <2>2. ~req'[r].fresh
      BY <2>1 DEF TypeInv, Stage
    <2> QED
      BY <1>a, <2>1, <2>2, NumbersQuiet DEF Begin
  <1>b. ASSUME NEW r \in Request, HandleMultipleAcceptTrip(r) PROVE NumbersInv'
    <2>1. ~req[r].fresh
      BY <1>b DEF HandleMultipleAcceptTrip, At, TypeInv, Stage
    <2>2. \A s \in Request \ {r} : req'[s] = req[s]
      BY <1>b DEF HandleMultipleAcceptTrip, Goes, TypeInv, TypeOK
    <2>3. ~req'[r].fresh
      <3>1. /\ Moved(r, "refused") \in Job /\ ~Moved(r, "refused").fresh
            /\ Moved(r, "number") \in Job /\ ~Moved(r, "number").fresh
            /\ Moved(r, "write") \in Job /\ ~Moved(r, "write").fresh
        BY <2>1, MovedType DEF TypeInv, Serving, Before, Ends
      <3> QED
        BY <1>b, <3>1 DEF HandleMultipleAcceptTrip, Goes, TypeInv, TypeOK, Job
    <2> QED
      BY <1>b, <2>2, <2>3, NumbersQuiet DEF HandleMultipleAcceptTrip
  <1>c. ASSUME NEW r \in Request, GetNextSequence(r) PROVE NumbersInv'
    BY <1>c, NumbersDraw
  <1>d. ASSUME NEW r \in Request, Step(r), ~HandleMultipleAcceptTrip(r), ~GetNextSequence(r),
               ~(\E d \in Driver, t \in Trip : Begin(r, d, t))
        PROVE  NumbersInv'
    <2>1. \A s \in Request : req'[s].fresh => req[s].fresh /\ req'[s].ref = req[s].ref
      BY <1>d, QuietSteps DEF Quiet, Kept
    <2>2. UNCHANGED <<month, sequence>>
      BY <1>d DEF Step, GetTrip, WriteReference, HoldWithdrawal, UpdateTripMetadata, FinishTodo,
                  UpdateTripDetailStatus, StartTransportWorkflow, RestoreStatus, ReadMetadata,
                  RestoreMetadata, Throws, Dies, UpdateStaffsToTrip
    <2> QED
      BY <2>1, <2>2, NumbersQuiet
  <1>e. ASSUME UNCHANGED <<req, month, sequence>> PROVE NumbersInv'
    BY <1>e, NumbersQuiet
  <1>f. ASSUME MonthEnds PROVE NumbersInv'
    <2>1. month' = month + 1 /\ UNCHANGED <<req, sequence>> /\ month \in Int
      BY <1>f DEF MonthEnds, TypeInv, TypeOK
    <2>2. ASSUME NEW r \in Request, req[r].fresh PROVE Drawn(r)'
      <3>1. req[r].ref \in Ref /\ req[r].ref.month <= month
        BY <2>2 DEF NumbersInv, Drawn
      <3>2. req[r].ref.month \in Int
        BY <3>1 DEF Ref
      <3> QED
        BY <2>1, <3>1, <3>2 DEF Drawn
    <2> QED
      BY <2>1, <2>2 DEF NumbersInv, NumbersAreFresh
  <1>g. ASSUME NEW m \in DOMAIN sequence, Expire(m) PROVE NumbersInv'
    <2>1. /\ m < month /\ UNCHANGED <<req, month>>
          /\ sequence' = [k \in DOMAIN sequence \ {m} |-> sequence[k]]
      BY <1>g DEF Expire, Expired
    <2>2. month \in DOMAIN sequence => month \in DOMAIN sequence' /\ sequence'[month] = sequence[month]
      BY <2>1 DEF TypeInv, TypeOK
    <2> QED
      BY <2>1, <2>2 DEF NumbersInv, NumbersAreFresh, Drawn
  <1>h. ASSUME NEW r \in Request, Step(r) PROVE NumbersInv'
    BY <1>a, <1>b, <1>c, <1>d, <1>h
  <1>i. ASSUME \/ \E t \in Trip : RemoveStaff(t) \/ EndTrip(t)
               \/ \E n \in Note : UpdateMetadataWorkflow(n) \/ \E t \in Trip : ReadForNote(n, t)
               \/ UNCHANGED vars
        PROVE  NumbersInv'
    BY <1>e, <1>i DEF RemoveStaff, EndTrip, UpdateMetadataWorkflow, ReadForNote, vars
  <1> QED
    BY <1>f, <1>g, <1>h, <1>i DEF Next

\* NumbersAreFresh for any number of requests and months, any faults.
THEOREM NumbersHold == Spec => []NumbersAreFresh
  <1>1. Init => TypeInv /\ NumbersInv
    BY TypeInit, AcceptAssumption DEF Init, NumbersInv, NumbersAreFresh
  <1>2. TypeInv /\ NumbersInv /\ [Next]_vars => (TypeInv /\ NumbersInv)'
    BY TypeStep, NumbersStep, AcceptAssumption
  <1>3. NumbersInv => NumbersAreFresh
    BY DEF NumbersInv
  <1> QED
    BY <1>1, <1>2, <1>3, PTL DEF Spec

(***************************************************************************)
(* The metadata.  Of a trip that no two had in hand at once one request    *)
(* has it, or had it last: what that request read of the notes is what     *)
(* the trip has, and its hold is there once it went on.                    *)
(***************************************************************************)
Holding == Serving \cup {"accepted", "assigned"}
Holds(r) == req[r].at \in Holding

Alone ==
    /\ \A r, s \in Request : Holds(r) /\ Holds(s) /\ req[r].trip = req[s].trip /\ req[r].trip \notin crossed => r = s
    /\ \A n \in Note : note[n].at = "read" /\ note[n].trip \notin crossed =>
          /\ \A r \in Request : req[r].at \in Serving => req[r].trip # note[n].trip
          /\ \A m \in Note : note[m].at = "read" /\ note[m].trip = note[n].trip => m = n

\* The trip is PENDING until its request wrote DOING, and nobody's before it is assigned.
Course(job, doc, whose) ==
    /\ job.at \in Before => doc.status = "PENDING"
    /\ job.at \in {"urls", "accepted", "assigned"} => doc.status # "PENDING"
    /\ job.at \in {"urls", "accepted"} => whose = job.driver
    /\ job.at \in Serving \cup {"accepted"} => doc.staffs = {}

\* What the request read is what the trip has, its own write apart.
InTime(r, job, meta) ==
    /\ job.at \in Serving => job.first.workflows = meta.workflows
    /\ job.at \in {"count", "number", "write", "hold", "merge"} => job.seen.workflows = meta.workflows
    /\ \/ job.at = "merge"
       \/ job.at = "undo" /\ "read" \notin job.undo /\ "write" \in job.undo
       => job.got = meta
    /\ job.at \in {"todo", "doing", "urls", "accepted", "assigned"} /\ job.trip \in Wallet => meta.tx = r

Staffed(doc, whose) == doc.staffs \subseteq {whose} /\ (doc.status = "PENDING" => doc.staffs = {})

Noted(n) ==
    note[n].trip \in Trip \ crossed =>
        /\ note[n].at = "read" => note[n].got = trip[note[n].trip].meta
        /\ note[n].at = "done" => n \in trip[note[n].trip].meta.workflows

Timely(r) ==
    LET t == req[r].trip
    IN  Holds(r) /\ t \notin crossed => Course(req[r], trip[t], by[t]) /\ InTime(r, req[r], trip[t].meta)

MetadataInv ==
    /\ Alone
    /\ \A r \in Request : Timely(r)
    /\ \A t \in Trip \ crossed : Staffed(trip[t], by[t])
    /\ \A n \in Note : Noted(n)

\* A request that moves on in service keeps what it has.
LEMMA MovedServing ==
    ASSUME TypeOK, NEW r \in Request, NEW place \in Serving
    PROVE  /\ Moved(r, place) = [req[r] EXCEPT !.at = place]
           /\ Moved(r, place).first = req[r].first
           /\ Moved(r, place).seen = req[r].seen
           /\ Moved(r, place).got = req[r].got
  <1>1. req[r] \in Job /\ place \notin Ends
    BY Places DEF TypeOK
  <1> QED
    BY <1>1 DEF Moved, Forgets, Job

\* A step of one request, which writes no trip but its own.
LEMMA MetadataFrame ==
    ASSUME TypeInv, TypeInv', MetadataInv, NEW r \in Request, NEW job, NEW t \in Trip, NEW doc,
           Holds(r), t = req[r].trip, job.trip = t,
           req'[r] = job, \A s \in Request \ {r} : req'[s] = req[s],
           trip'[t] = doc, \A u \in Trip \ {t} : trip'[u] = trip[u] /\ by'[u] = by[u],
           UNCHANGED <<crossed, note>>,
           job.at \in Serving => req[r].at \in Serving,
           t \notin crossed =>
              /\ job.at \in Holding => Course(job, doc, by'[t]) /\ InTime(r, job, doc.meta)
              /\ Staffed(doc, by'[t])
              /\ trip[t].meta.workflows \subseteq doc.meta.workflows
              /\ doc.meta = trip[t].meta \/ req[r].at \in Serving
    PROVE  MetadataInv'
  <1>1. Alone'
    <2>1. \A s \in Request : Holds(s)' => Holds(s) /\ req'[s].trip = req[s].trip
      BY DEF Holds
    <2>2. \A s \in Request : req'[s].at \in Serving => req[s].at \in Serving
      OBVIOUS
    <2> QED
      BY <2>1, <2>2 DEF MetadataInv, Alone
  <1>2. ASSUME NEW s \in Request PROVE Timely(s)'
    <2>1. CASE s = r
      BY <2>1 DEF Timely, Holds
    <2>2. CASE s # r
      <3>1. req'[s] = req[s]
        BY <2>2
      <3>2. Holds(s) /\ req[s].trip \notin crossed => req[s].trip # t
        BY <2>2 DEF MetadataInv, Alone
      <3>3. Holds(s) => req[s].trip \in Trip
        BY DEF TypeInv, Stage, Holds, Holding, Serving, Before
      <3> QED
        BY <3>1, <3>2, <3>3 DEF Timely, Holds, MetadataInv
    <2> QED
      BY <2>1, <2>2
  <1>3. \A u \in Trip \ crossed' : Staffed(trip[u], by[u])'
    BY DEF MetadataInv, Staffed
  <1>4. ASSUME NEW n \in Note PROVE Noted(n)'
    <2>1. CASE note[n].trip = t /\ t \notin crossed
      <3>1. note[n].at = "read" => req[r].at \notin Serving
        BY <2>1 DEF MetadataInv, Alone
      <3> QED
        BY <2>1, <3>1 DEF MetadataInv, Noted
    <2>2. CASE note[n].trip # t \/ t \in crossed
      BY <2>2 DEF MetadataInv, Noted
    <2> QED
      BY <2>1, <2>2
  <1> QED
    BY <1>1, <1>2, <1>3, <1>4 DEF MetadataInv

\* The same of a write in service whose answer may be lost.
LEMMA MetadataApplied ==
    ASSUME TypeInv, TypeInv', MetadataInv, NEW r \in Request, NEW job \in Job, NEW t \in Trip, NEW doc,
           req[r].at \in Serving, job.at \in Serving, t = req[r].trip, job.trip = t, Applied(r, job),
           trip'[t] = doc, \A u \in Trip \ {t} : trip'[u] = trip[u] /\ by'[u] = by[u],
           UNCHANGED <<crossed, note>>,
           t \notin crossed =>
              /\ Course(job, doc, by'[t]) /\ InTime(r, job, doc.meta)
              /\ doc.staffs = {}
              /\ trip[t].meta.workflows \subseteq doc.meta.workflows
    PROVE  MetadataInv'
  <1>0. Holds(r)
    BY DEF Holds, Holding
  <1>1. CASE Goes(r, job)
    <2>1. req'[r] = job /\ \A s \in Request \ {r} : req'[s] = req[s]
      BY <1>1 DEF Goes, TypeInv, TypeOK
    <2>2. t \notin crossed => Staffed(doc, by'[t])
      BY DEF Staffed
    <2> QED
      BY <1>0, <2>1, <2>2, MetadataFrame
  <1>2. CASE RollsBack(r, job)
    <2> DEFINE back == [job EXCEPT !.at = "undo", !.undo = AllUndo]
    <2>1. /\ back.at = "undo" /\ back.undo = AllUndo /\ back.trip = t
          /\ back.first = job.first
      BY DEF Job
    <2>2. req'[r] = back /\ \A s \in Request \ {r} : req'[s] = req[s]
      BY <1>2 DEF RollsBack, TypeInv, TypeOK
    <2> HIDE DEF back
    <2>3. t \notin crossed => Course(back, doc, by'[t]) /\ InTime(r, back, doc.meta)
      BY <2>1 DEF Course, InTime, AllUndo, Before, Serving
    <2>4. t \notin crossed => Staffed(doc, by'[t])
      BY DEF Staffed
    <2> QED
      BY <1>0, <2>1, <2>2, <2>3, <2>4, MetadataFrame
  <1> QED
    BY <1>1, <1>2 DEF Applied

\* What a merge takes from its data, and what it leaves.
LEMMA MergeNotes ==
    ASSUME NEW doc \in Metadata, NEW data \in Metadata
    PROVE  /\ Merge(doc, data) \in Metadata
           /\ data.workflows \in {{}, doc.workflows} => Merge(doc, data).workflows = doc.workflows
           /\ data.tx # None => Merge(doc, data).tx = data.tx
           /\ data.tx = None => Merge(doc, data).tx = doc.tx
           /\ data.ref # None => Merge(doc, data).ref = data.ref
           /\ data.ref = None => Merge(doc, data).ref = doc.ref
  BY DEF Merge, Or, Metadata

\* The steps in service: what was read and what is written match.
LEMMA MetadataServing ==
    ASSUME AcceptAssumption, TypeInv, TypeInv', MetadataInv, NEW r \in Request,
           \/ GetTrip(r) \/ HandleMultipleAcceptTrip(r) \/ GetNextSequence(r) \/ WriteReference(r)
           \/ HoldWithdrawal(r) \/ UpdateTripMetadata(r) \/ FinishTodo(r) \/ UpdateTripDetailStatus(r)
           \/ Throws(r)
    PROVE  MetadataInv'
  <1>0. req[r].at \in Serving /\ req[r].at # "idle"
    BY DEF GetTrip, HandleMultipleAcceptTrip, GetNextSequence, WriteReference, HoldWithdrawal, UpdateTripMetadata,
           FinishTodo, UpdateTripDetailStatus, Throws, At, Serving, Before
  <1> SUFFICES ASSUME NEW t \in Trip, t = req[r].trip PROVE MetadataInv'
    BY <1>0, AtHand
  <1>1. /\ req[r] \in Job /\ trip[t] \in TripDoc /\ trip[t].meta \in Metadata
        /\ req[r].first \in Metadata /\ req[r].seen \in Metadata /\ req[r].got \in Metadata
    BY <1>0, AtHand
  <1>2. t \notin crossed => Course(req[r], trip[t], by[t]) /\ InTime(r, req[r], trip[t].meta)
    BY <1>0 DEF MetadataInv, Timely, Holds, Holding
  <1>3. CASE GetTrip(r)
    <2> DEFINE next == IF t \in Allowed THEN "count" ELSE AfterReference(r)
               job == [Moved(r, next) EXCEPT !.seen = trip[t].meta]
    <2>1. /\ Goes(r, job) /\ trip' = trip /\ by' = by /\ crossed' = crossed /\ note' = note
          /\ req[r].at = "trip"
      BY <1>3 DEF GetTrip, At, history
    <2>2. next \in {"count", "hold", "todo"} /\ (next = "todo" => t \notin Wallet) /\ next \in Serving
      BY DEF AfterReference, Serving, Before
    <2> HIDE DEF next
    <2>3. job = [req[r] EXCEPT !.at = next, !.seen = trip[t].meta]
      BY <1>1, <2>2, MovedServing DEF Job, TypeInv
    <2>4. /\ job \in Job /\ job.at = next /\ job.trip = t /\ job.seen = trip[t].meta
          /\ job.first = req[r].first
      BY <1>1, <2>2, <2>3 DEF Job
    <2> HIDE DEF job
    <2>5. t \notin crossed => Course(job, trip[t], by[t]) /\ InTime(r, job, trip[t].meta) /\ trip[t].staffs = {}
      BY <1>0, <1>2, <2>1, <2>2, <2>4 DEF Course, InTime, Before, Serving
    <2> QED
      BY <1>0, <2>1, <2>2, <2>4, <2>5, MetadataApplied DEF Applied
  <1>4. CASE HandleMultipleAcceptTrip(r)
    <2>1. /\ trip' = trip /\ by' = by /\ crossed' = crossed /\ note' = note /\ req[r].at = "count"
      BY <1>4 DEF HandleMultipleAcceptTrip, At
    <2>2. CASE Goes(r, Moved(r, "refused"))
      <3>1. req' = [req EXCEPT ![r] = Moved(r, "refused")]
        BY <2>2 DEF Goes
      <3>2. /\ Moved(r, "refused").at = "refused" /\ Moved(r, "refused").trip = t
            /\ "refused" \notin Serving \cup Holding
        BY MovedType DEF Serving, Ends, Before, Holding, TypeInv
      <3>3. /\ req'[r] = Moved(r, "refused") /\ \A s \in Request \ {r} : req'[s] = req[s]
        BY <3>1 DEF TypeInv, TypeOK
      <3>4. t \notin crossed => Staffed(trip[t], by[t])
        BY DEF MetadataInv
      <3> QED
        BY <1>0, <2>1, <3>2, <3>3, <3>4, MetadataFrame DEF Holds, Holding
    <2>3. ASSUME NEW place \in {"number", "write"}, NEW ref, Goes(r, [Moved(r, place) EXCEPT !.ref = ref])
          PROVE  MetadataInv'
      <3> DEFINE job == [Moved(r, place) EXCEPT !.ref = ref]
      <3>1. job = [req[r] EXCEPT !.at = place, !.ref = ref] /\ place \in Serving
        BY <1>1, MovedServing DEF Job, TypeInv, Serving, Before
      <3>2. /\ job.at = place /\ job.trip = t /\ job.seen = req[r].seen
            /\ job.first = req[r].first /\ job.got = req[r].got
        BY <1>1, <3>1 DEF Job
      <3>3. req' = [req EXCEPT ![r] = job]
        BY <2>3 DEF Goes
      <3> HIDE DEF job
      <3>4. req'[r] = job /\ \A s \in Request \ {r} : req'[s] = req[s]
        BY <3>3 DEF TypeInv, TypeOK
      <3>5. t \notin crossed => Course(job, trip[t], by[t]) /\ InTime(r, job, trip[t].meta)
        BY <1>0, <1>2, <2>1, <3>1, <3>2 DEF Course, InTime, Before, Serving
      <3>6. t \notin crossed => Staffed(trip[t], by[t])
        BY DEF MetadataInv
      <3> QED
        BY <1>0, <2>1, <3>1, <3>2, <3>4, <3>5, <3>6, MetadataFrame DEF Holds, Holding
    <2> QED
      BY <1>4, <2>2, <2>3 DEF HandleMultipleAcceptTrip
  <1>5. CASE GetNextSequence(r)
    <2>1. /\ trip' = trip /\ by' = by /\ crossed' = crossed /\ note' = note /\ req[r].at = "number"
      BY <1>5 DEF GetNextSequence, At, history
    <2>2. PICK next : Applied(r, [Moved(r, "write") EXCEPT !.ref.number = next, !.fresh = (req[r].ref.month = month)])
      BY <1>5 DEF GetNextSequence
    <2> DEFINE job == [Moved(r, "write") EXCEPT !.ref.number = next, !.fresh = (req[r].ref.month = month)]
    <2>3. "write" \in Serving
      BY DEF Serving, Before
    <2>4. /\ job.at = "write" /\ job.trip = t /\ job.seen = req[r].seen
          /\ job.first = req[r].first /\ job.got = req[r].got
      BY <1>1, <2>3, MovedServing DEF Job, TypeInv
    <2>5. t \notin crossed => Course(job, trip[t], by[t]) /\ InTime(r, job, trip[t].meta) /\ trip[t].staffs = {}
      <3> HIDE DEF job
      <3> QED
      BY <1>0, <1>2, <2>1, <2>3, <2>4 DEF Course, InTime, Before, Serving
    <2>6. CASE Goes(r, job)
      <3>1. req' = [req EXCEPT ![r] = job]
        BY <2>6 DEF Goes
      <3> HIDE DEF job
      <3>2. req'[r] = job /\ \A s \in Request \ {r} : req'[s] = req[s]
        BY <3>1 DEF TypeInv, TypeOK
      <3>3. t \notin crossed => Staffed(trip[t], by[t])
        BY DEF MetadataInv
      <3> QED
        BY <1>0, <2>1, <2>4, <2>5, <3>2, <3>3, MetadataFrame DEF Holds, Holding
    <2>7. CASE RollsBack(r, job)
      <3> DEFINE back == [job EXCEPT !.at = "undo", !.undo = AllUndo]
      <3>0. {"at", "undo", "trip", "first"} \subseteq DOMAIN job
        BY <1>1, <2>3, MovedServing DEF Job, TypeInv
      <3>1. req' = [req EXCEPT ![r] = back]
        BY <2>7 DEF RollsBack
      <3> HIDE DEF job
      <3>2. /\ back.at = "undo" /\ back.undo = AllUndo /\ back.trip = t /\ back.first = req[r].first
        BY <2>4, <3>0
      <3> HIDE DEF back
      <3>3. req'[r] = back /\ \A s \in Request \ {r} : req'[s] = req[s]
        BY <3>1 DEF TypeInv, TypeOK
      <3>4. t \notin crossed => Staffed(trip[t], by[t])
        BY DEF MetadataInv
      <3>5. t \notin crossed => Course(back, trip[t], by[t]) /\ InTime(r, back, trip[t].meta)
        BY <1>0, <1>2, <2>5, <3>2 DEF Course, InTime, Before, Serving, AllUndo
      <3> QED
        BY <1>0, <2>1, <3>2, <3>3, <3>4, <3>5, MetadataFrame DEF Holds, Holding
    <2> QED
      BY <2>2, <2>6, <2>7 DEF Applied
  <1>6. CASE WriteReference(r)
    <2> DEFINE meta == [trip[t].meta EXCEPT !.ref = req[r].ref]
               doc == [trip[t] EXCEPT !.meta = meta]
               job == Moved(r, AfterReference(r))
    <2>1. /\ by' = by /\ crossed' = crossed /\ note' = note /\ req[r].at = "write"
          /\ Applied(r, job) /\ trip' = [trip EXCEPT ![t].meta = meta]
      BY <1>6 DEF WriteReference, At, history, WriteMetadata
    <2>2. /\ meta.workflows = trip[t].meta.workflows /\ meta.tx = trip[t].meta.tx
          /\ doc.meta = meta /\ doc.status = trip[t].status /\ doc.staffs = trip[t].staffs
      BY <1>1 DEF Metadata, TripDoc
    <2>3. trip'[t] = doc /\ \A u \in Trip \ {t} : trip'[u] = trip[u] /\ by'[u] = by[u]
      BY <1>1, <2>1 DEF TypeInv, TypeOK
    <2>4. AfterReference(r) \in {"hold", "todo"} /\ (AfterReference(r) = "todo" => t \notin Wallet)
      BY DEF AfterReference
    <2>5. /\ job \in Job /\ job.at = AfterReference(r) /\ job.trip = t /\ job.at \in Serving
          /\ job.first = req[r].first /\ job.seen = req[r].seen
      BY <2>4, MovedType, MovedServing DEF TypeInv, Serving, Before
    <2> HIDE DEF meta, doc, job
    <2>6. t \notin crossed => Course(job, doc, by[t]) /\ InTime(r, job, doc.meta) /\ doc.staffs = {}
      BY <1>0, <1>2, <2>1, <2>2, <2>4, <2>5 DEF Course, InTime, Before, Serving
    <2> QED
      BY <1>0, <2>1, <2>2, <2>3, <2>5, <2>6, MetadataApplied
  <1>7. CASE HoldWithdrawal(r)
    <2> DEFINE job == [Moved(r, "merge") EXCEPT !.got = trip[t].meta]
    <2>1. /\ Goes(r, job) /\ trip' = trip /\ by' = by /\ crossed' = crossed /\ note' = note
          /\ req[r].at = "hold"
      BY <1>7 DEF HoldWithdrawal, At, history
    <2>2. "merge" \in Serving
      BY DEF Serving, Before
    <2>3. /\ job \in Job /\ job.at = "merge" /\ job.trip = t /\ job.got = trip[t].meta
          /\ job.first = req[r].first /\ job.seen = req[r].seen
      BY <1>1, <2>2, MovedServing DEF Job, TypeInv
    <2> HIDE DEF job
    <2>4. t \notin crossed => Course(job, trip[t], by[t]) /\ InTime(r, job, trip[t].meta) /\ trip[t].staffs = {}
      BY <1>0, <1>2, <2>1, <2>2, <2>3 DEF Course, InTime, Before, Serving
    <2> QED
      BY <1>0, <2>1, <2>2, <2>3, <2>4, MetadataApplied DEF Applied
  <1>8. CASE UpdateTripMetadata(r)
    <2> DEFINE data == [req[r].seen EXCEPT !.tx = r]
               meta == Merge(req[r].got, data)
               doc == [trip[t] EXCEPT !.meta = meta]
               job == Moved(r, "todo")
    <2>1. /\ by' = by /\ crossed' = crossed /\ note' = note /\ req[r].at = "merge"
          /\ Applied(r, job) /\ trip' = [trip EXCEPT ![t].meta = meta]
      BY <1>8 DEF UpdateTripMetadata, At, history, WriteMetadata
    <2>2. data \in Metadata /\ data.tx = r /\ data.workflows = req[r].seen.workflows /\ r # None
      BY <1>1, AcceptAssumption DEF Metadata, Tx, AcceptAssumption
    <2> HIDE DEF data
    <2>3. /\ meta.tx = r
          /\ req[r].seen.workflows = req[r].got.workflows => meta.workflows = req[r].got.workflows
      BY <1>1, <2>2, MergeNotes
    <2>4. doc.meta = meta /\ doc.status = trip[t].status /\ doc.staffs = trip[t].staffs
      BY <1>1 DEF TripDoc
    <2>5. trip'[t] = doc /\ \A u \in Trip \ {t} : trip'[u] = trip[u] /\ by'[u] = by[u]
      BY <1>1, <2>1 DEF TypeInv, TypeOK
    <2>6. /\ job \in Job /\ job.at = "todo" /\ job.trip = t /\ job.at \in Serving
          /\ job.first = req[r].first
      BY MovedType, MovedServing DEF TypeInv, Serving, Before
    <2> HIDE DEF meta, doc, job
    <2>7. t \notin crossed => Course(job, doc, by[t]) /\ InTime(r, job, doc.meta) /\ doc.staffs = {}
                               /\ trip[t].meta.workflows \subseteq doc.meta.workflows
      BY <1>0, <1>2, <2>1, <2>3, <2>4, <2>6 DEF Course, InTime, Before, Serving
    <2> QED
      BY <1>0, <2>1, <2>5, <2>6, <2>7, MetadataApplied
  <1>9. CASE FinishTodo(r)
    <2> DEFINE doc == [trip[t] EXCEPT !.todo = "DONE"]
               job == Moved(r, "doing")
    <2>1. /\ by' = by /\ crossed' = crossed /\ note' = note /\ req[r].at = "todo"
          /\ Applied(r, job) /\ trip' = [trip EXCEPT ![t].todo = "DONE"]
      BY <1>9 DEF FinishTodo, At, history
    <2>2. doc.meta = trip[t].meta /\ doc.status = trip[t].status /\ doc.staffs = trip[t].staffs
      BY <1>1 DEF TripDoc
    <2>3. trip'[t] = doc /\ \A u \in Trip \ {t} : trip'[u] = trip[u] /\ by'[u] = by[u]
      BY <1>1, <2>1 DEF TypeInv, TypeOK
    <2>4. /\ job \in Job /\ job.at = "doing" /\ job.trip = t /\ job.at \in Serving
          /\ job.first = req[r].first
      BY MovedType, MovedServing DEF TypeInv, Serving, Before
    <2> HIDE DEF doc, job
    <2>5. t \notin crossed => Course(job, doc, by[t]) /\ InTime(r, job, doc.meta) /\ doc.staffs = {}
      BY <1>0, <1>2, <2>1, <2>2, <2>4 DEF Course, InTime, Before, Serving
    <2> QED
      BY <1>0, <2>1, <2>2, <2>3, <2>4, <2>5, MetadataApplied
  <1>10. CASE UpdateTripDetailStatus(r)
    <2> DEFINE doc == [trip[t] EXCEPT !.status = "DOING"]
               job == Moved(r, "urls")
    <2>1. /\ by' = [by EXCEPT ![t] = req[r].driver] /\ crossed' = crossed /\ note' = note /\ req[r].at = "doing"
          /\ Applied(r, job) /\ trip' = [trip EXCEPT ![t].status = "DOING"]
      BY <1>10 DEF UpdateTripDetailStatus, At
    <2>2. doc.meta = trip[t].meta /\ doc.status = "DOING" /\ doc.staffs = trip[t].staffs
      BY <1>1 DEF TripDoc
    <2>3. /\ trip'[t] = doc /\ by'[t] = req[r].driver
          /\ \A u \in Trip \ {t} : trip'[u] = trip[u] /\ by'[u] = by[u]
      BY <1>1, <2>1 DEF TypeInv, TypeOK
    <2>4. /\ job \in Job /\ job.at = "urls" /\ job.trip = t /\ job.at \in Serving
          /\ job.first = req[r].first /\ job.driver = req[r].driver
      BY MovedType, MovedServing DEF TypeInv, Serving, Before
    <2> HIDE DEF doc, job
    <2>5. t \notin crossed => Course(job, doc, by'[t]) /\ InTime(r, job, doc.meta) /\ doc.staffs = {}
      BY <1>0, <1>2, <2>1, <2>2, <2>3, <2>4 DEF Course, InTime, Before, Serving
    <2> QED
      BY <1>0, <2>1, <2>2, <2>3, <2>4, <2>5, MetadataApplied
  <1>11. CASE Throws(r)
    <2>1. /\ Applied(r, req[r]) /\ trip' = trip /\ by' = by /\ crossed' = crossed /\ note' = note
      BY <1>11 DEF Throws, Applied, history
    <2>2. t \notin crossed => trip[t].staffs = {}
      BY <1>0, <1>2 DEF Course
    <2> QED
      BY <1>0, <1>1, <1>2, <2>1, <2>2, MetadataApplied
  <1> QED
    BY <1>3, <1>4, <1>5, <1>6, <1>7, <1>8, <1>9, <1>10, <1>11

\* The steps that end, undo or assign, and what others do to a trip.
LEMMA MetadataEnding ==
    ASSUME AcceptAssumption, TypeInv, TypeInv', MetadataInv, NEW r \in Request,
           \/ StartTransportWorkflow(r) \/ RestoreStatus(r) \/ ReadMetadata(r) \/ RestoreMetadata(r)
           \/ Dies(r) \/ UpdateStaffsToTrip(r)
    PROVE  MetadataInv'
  <1>0. Holds(r) /\ req[r].at # "idle"
    BY DEF StartTransportWorkflow, RestoreStatus, ReadMetadata, RestoreMetadata, Dies, UpdateStaffsToTrip,
           At, Serving, Before, Holds, Holding
  <1> SUFFICES ASSUME NEW t \in Trip, t = req[r].trip PROVE MetadataInv'
    BY <1>0, AtHand
  <1>1. /\ req[r] \in Job /\ trip[t] \in TripDoc /\ trip[t].meta \in Metadata
        /\ req[r].first \in Metadata /\ req[r].seen \in Metadata /\ req[r].got \in Metadata
    BY <1>0, AtHand
  <1>2. t \notin crossed => Course(req[r], trip[t], by[t]) /\ InTime(r, req[r], trip[t].meta)
    BY <1>0 DEF MetadataInv, Timely
  <1>3. t \notin crossed => Staffed(trip[t], by[t])
    BY DEF MetadataInv
  <1>4. ASSUME NEW job, req' = [req EXCEPT ![r] = job]
        PROVE  req'[r] = job /\ \A s \in Request \ {r} : req'[s] = req[s]
    BY <1>4 DEF TypeInv, TypeOK
  <1>5. CASE StartTransportWorkflow(r)
    <2>1. /\ req' = [req EXCEPT ![r] = Moved(r, "accepted")] /\ req[r].at = "urls"
          /\ UNCHANGED <<trip, by, crossed, note>>
      BY <1>5 DEF StartTransportWorkflow, Goes, At, history
    <2>2. /\ Moved(r, "accepted").at = "accepted" /\ Moved(r, "accepted").trip = t
          /\ Moved(r, "accepted").driver = req[r].driver
      BY MovedType DEF Ends, TypeInv
    <2>3. t \notin crossed => Course(Moved(r, "accepted"), trip[t], by[t]) /\ InTime(r, Moved(r, "accepted"), trip[t].meta)
      BY <1>2, <2>1, <2>2 DEF Course, InTime, Before, Serving
    <2> QED
      BY <1>0, <1>3, <1>4, <2>1, <2>2, <2>3, MetadataFrame DEF Serving, Before
  <1>6. CASE Dies(r)
    <2>1. /\ req' = [req EXCEPT ![r] = Moved(r, "dead")]
          /\ UNCHANGED <<trip, by, crossed, note>>
      BY <1>6 DEF Dies, history
    <2>2. Moved(r, "dead").at = "dead" /\ Moved(r, "dead").trip = t
      BY MovedType DEF Ends, TypeInv
    <2> QED
      BY <1>0, <1>3, <1>4, <2>1, <2>2, MetadataFrame DEF Serving, Before, Holding
  <1>7. CASE UpdateStaffsToTrip(r)
    <2> DEFINE job == [req[r] EXCEPT !.at = "assigned"]
               doc == [trip[t] EXCEPT !.staffs = @ \cup {req[r].driver}]
    <2>1. /\ req' = [req EXCEPT ![r] = job] /\ req[r].at = "accepted"
          /\ trip' = [trip EXCEPT ![t].staffs = @ \cup {req[r].driver}]
          /\ UNCHANGED <<by, crossed, note>>
      BY <1>7 DEF UpdateStaffsToTrip, At, history
    <2>2. /\ job.at = "assigned" /\ job.trip = t
          /\ doc.meta = trip[t].meta /\ doc.status = trip[t].status
          /\ doc.staffs = trip[t].staffs \cup {req[r].driver}
      BY <1>1 DEF Job, TripDoc
    <2>3. trip'[t] = doc /\ \A u \in Trip \ {t} : trip'[u] = trip[u] /\ by'[u] = by[u]
      BY <1>1, <2>1 DEF TypeInv, TypeOK
    <2> HIDE DEF job, doc
    <2>4. t \notin crossed => Course(job, doc, by'[t]) /\ InTime(r, job, doc.meta) /\ Staffed(doc, by'[t])
      BY <1>2, <2>1, <2>2 DEF Course, InTime, Staffed, Before, Serving
    <2>5. job.at \notin Serving /\ UNCHANGED <<crossed, note>>
      BY <2>1, <2>2 DEF Serving, Before
    <2>6. req'[r] = job /\ \A s \in Request \ {r} : req'[s] = req[s]
      BY <1>4, <2>1
    <2> QED
      BY <1>0, <2>2, <2>3, <2>4, <2>5, <2>6, MetadataFrame
  <1>8. ASSUME NEW part, req[r].at = "undo"
        PROVE  /\ Undone(r, part) \in Job /\ Undone(r, part).trip = t
               /\ Undone(r, part).at \in {"undo", "failed"}
               /\ Undone(r, part).undo = req[r].undo \ {part}
               /\ Undone(r, part).at = "undo" => /\ Undone(r, part).first = req[r].first
                                                 /\ Undone(r, part).got = req[r].got
    <2> DEFINE left == req[r].undo \ {part}
               place == IF left = {} THEN "failed" ELSE "undo"
    <2>1. "undo" \in Serving /\ "failed" \in Serving \cup Ends /\ "undo" \in Serving \cup Ends
      BY DEF Serving, Ends
    <2>2. Undone(r, part) = [Moved(r, place) EXCEPT !.undo = left]
      BY DEF Undone
    <2>3. place \in Serving \cup Ends /\ place \in {"failed", "undo"}
      BY <2>1
    <2> HIDE DEF place, left
    <2>4. Moved(r, place) \in Job /\ Moved(r, place).at = place
      BY <2>3, MovedType DEF TypeInv
    <2>5. Undone(r, part).undo = left /\ Undone(r, part).at = place
      BY <2>2, <2>4 DEF Job
    <2>6. place = "undo" => /\ Undone(r, part).first = req[r].first
                            /\ Undone(r, part).got = req[r].got
      BY <1>1, <2>1, <2>2, <2>4, MovedServing DEF TypeInv, Job
    <2> QED
      BY <1>8, <2>5, <2>6, UndoneType DEF left
  <1>9. CASE RestoreStatus(r)
    <2> DEFINE doc == [trip[t] EXCEPT !.status = "PENDING", !.todo = "TODO"]
    <2>1. /\ req' = [req EXCEPT ![r] = Undone(r, "status")] /\ req[r].at = "undo"
          /\ trip' = [trip EXCEPT ![t].status = "PENDING", ![t].todo = "TODO"]
          /\ by' = [by EXCEPT ![t] = None]
          /\ UNCHANGED <<crossed, note>>
      BY <1>9 DEF RestoreStatus, At
    <2>2. /\ doc.meta = trip[t].meta /\ doc.status = "PENDING" /\ doc.staffs = trip[t].staffs
      BY <1>1 DEF TripDoc
    <2>3. trip'[t] = doc /\ \A u \in Trip \ {t} : trip'[u] = trip[u] /\ by'[u] = by[u]
      BY <1>1, <2>1 DEF TypeInv, TypeOK
    <2> HIDE DEF doc
    <2>5. t \notin crossed /\ Undone(r, "status").at = "undo" =>
             Course(Undone(r, "status"), doc, by'[t]) /\ InTime(r, Undone(r, "status"), doc.meta)
      BY <1>2, <1>8, <2>1, <2>2 DEF Course, InTime, Before, Serving
    <2>6. t \notin crossed => Staffed(doc, by'[t])
      BY <1>2, <2>1, <2>2 DEF Course, Staffed, Serving
    <2>7. Undone(r, "status").trip = t /\ (Undone(r, "status").at \in Holding => Undone(r, "status").at = "undo")
      BY <1>8, <2>1 DEF Holding, Serving, Before
    <2>8. req[r].at \in Serving /\ UNCHANGED <<crossed, note>>
      BY <2>1 DEF Serving
    <2>9. req'[r] = Undone(r, "status") /\ \A s \in Request \ {r} : req'[s] = req[s]
      BY <1>4, <2>1
    <2> QED
      BY <1>0, <2>2, <2>3, <2>5, <2>6, <2>7, <2>8, <2>9, MetadataFrame
  <1>10. CASE ReadMetadata(r)
    <2> DEFINE job == [Undone(r, "read") EXCEPT !.got = trip[t].meta]
    <2>1. /\ req' = [req EXCEPT ![r] = job] /\ req[r].at = "undo" /\ "read" \in req[r].undo
          /\ UNCHANGED <<trip, by, crossed, note>>
      BY <1>10 DEF ReadMetadata, At, history
    <2>2. /\ job.at = Undone(r, "read").at /\ job.trip = t /\ job.got = trip[t].meta
          /\ job.at = "undo" => job.first = req[r].first
      BY <1>8, <2>1 DEF Job
    <2>3. job.at \in {"undo", "failed"}
      BY <1>8, <2>1, <2>2
    <2> HIDE DEF job
    <2>5. t \notin crossed /\ job.at = "undo" => Course(job, trip[t], by[t]) /\ InTime(r, job, trip[t].meta)
      BY <1>2, <2>1, <2>2 DEF Course, InTime, Before, Serving
    <2> QED
      BY <1>0, <1>3, <1>4, <2>1, <2>2, <2>3, <2>5, MetadataFrame DEF Holding, Serving, Before
  <1>11. CASE RestoreMetadata(r)
    <2> DEFINE first == [req[r].first EXCEPT !.tx = Or(@, "blank")]
               meta == Merge(req[r].got, first)
               doc == [trip[t] EXCEPT !.meta = meta]
    <2>1. /\ req' = [req EXCEPT ![r] = Undone(r, "write")] /\ req[r].at = "undo"
          /\ "write" \in req[r].undo /\ "read" \notin req[r].undo
          /\ trip' = [trip EXCEPT ![t].meta = meta]
          /\ UNCHANGED <<by, crossed, note>>
      BY <1>11 DEF RestoreMetadata, WriteMetadata, At, history
    <2>2. first \in Metadata /\ first.workflows = req[r].first.workflows
      BY <1>1 DEF Metadata, Tx, Or
    <2> HIDE DEF first
    <2>3. req[r].first.workflows = req[r].got.workflows => meta.workflows = req[r].got.workflows
      BY <1>1, <2>2, MergeNotes
    <2>4. /\ doc.meta = meta /\ doc.status = trip[t].status /\ doc.staffs = trip[t].staffs
      BY <1>1 DEF TripDoc
    <2>5. trip'[t] = doc /\ \A u \in Trip \ {t} : trip'[u] = trip[u] /\ by'[u] = by[u]
      BY <1>1, <2>1 DEF TypeInv, TypeOK
    <2> HIDE DEF meta, doc
    <2>6. t \notin crossed => meta.workflows = trip[t].meta.workflows /\ req[r].first.workflows = trip[t].meta.workflows
      BY <1>2, <2>1, <2>3 DEF InTime, Serving
    <2>7. t \notin crossed /\ Undone(r, "write").at = "undo" =>
             Course(Undone(r, "write"), doc, by[t]) /\ InTime(r, Undone(r, "write"), doc.meta)
      BY <1>2, <1>8, <2>1, <2>4, <2>6 DEF Course, InTime, Before, Serving
    <2>8. t \notin crossed => Staffed(doc, by[t])
      BY <1>3, <2>4 DEF Staffed
    <2>9. req[r].at \in Serving
      BY <2>1 DEF Serving
    <2>10. Undone(r, "write").trip = t /\ (Undone(r, "write").at \in Holding => Undone(r, "write").at = "undo")
      BY <1>8, <2>1 DEF Holding, Serving, Before
    <2>11. req'[r] = Undone(r, "write") /\ \A s \in Request \ {r} : req'[s] = req[s]
      BY <1>4, <2>1
    <2>12. by'[t] = by[t] /\ UNCHANGED <<crossed, note>>
      BY <2>1
    <2>13. t \notin crossed => trip[t].meta.workflows \subseteq doc.meta.workflows
      BY <2>4, <2>6
    <2> QED
      BY <1>0, <2>5, <2>7, <2>8, <2>9, <2>10, <2>11, <2>12, <2>13, MetadataFrame
  <1> QED
    BY <1>5, <1>6, <1>7, <1>9, <1>10, <1>11

LEMMA MetadataBegin ==
    ASSUME AcceptAssumption, TypeInv, TypeInv', MetadataInv, NEW r \in Request, NEW d \in Driver, NEW t \in Trip,
           Begin(r, d, t)
    PROVE  MetadataInv'
  <1> DEFINE job == [Moved(r, "trip") EXCEPT !.driver = d, !.trip = t, !.first = trip[t].meta]
  <1>1. /\ req[r].at = "idle" /\ trip[t].status = "PENDING"
        /\ req' = [req EXCEPT ![r] = job]
        /\ UNCHANGED <<trip, by, note>>
        /\ crossed' = IF InHand(t) THEN crossed \cup {t} ELSE crossed
    BY DEF Begin, At, Crosses
  <1>2. "trip" \in Serving
    BY DEF Serving, Before
  <1>3. /\ job.at = "trip" /\ job.driver = d /\ job.trip = t /\ job.first = trip[t].meta
    BY <1>2, MovedServing, MovedType DEF TypeInv, Job
  <1> HIDE DEF job
  <1>4. req'[r] = job /\ \A s \in Request \ {r} : req'[s] = req[s]
    BY <1>1 DEF TypeInv, TypeOK
  <1>5. crossed \subseteq crossed' /\ (t \notin crossed' => ~InHand(t) /\ t \notin crossed)
    BY <1>1
  <1>6. ASSUME t \notin crossed', NEW s \in Request \ {r} PROVE ~(Holds(s) /\ req[s].trip = t)
    <2>1. req[s].at \in {"accepted", "assigned"} => req[s].trip # t
      BY <1>1, <1>5, <1>6 DEF MetadataInv, Timely, Holds, Holding, Course
    <2>2. req[s].at \in Serving => req[s].trip # t
      BY <1>5, <1>6 DEF InHand
    <2> QED
      BY <2>1, <2>2 DEF Holds, Holding
  <1>7. Alone'
    <2>1. ASSUME NEW x \in Request, NEW y \in Request, Holds(x)', Holds(y)',
                 req'[x].trip = req'[y].trip, req'[x].trip \notin crossed', x # y
          PROVE  FALSE
      <3>1. CASE x = r
        BY <1>3, <1>4, <1>6, <2>1, <3>1 DEF Holds
      <3>2. CASE y = r
        BY <1>3, <1>4, <1>6, <2>1, <3>2 DEF Holds
      <3>3. CASE x # r /\ y # r
        BY <1>4, <1>5, <2>1, <3>3 DEF Holds, MetadataInv, Alone
      <3> QED
        BY <3>1, <3>2, <3>3
    <2>2. ASSUME NEW n \in Note, note'[n].at = "read", note'[n].trip \notin crossed'
          PROVE  /\ \A x \in Request : req'[x].at \in Serving => req'[x].trip # note'[n].trip
                 /\ \A m \in Note : note'[m].at = "read" /\ note'[m].trip = note'[n].trip => m = n
      <3>1. note' = note /\ note[n].trip \notin crossed
        BY <1>1, <1>5, <2>2
      <3>2. note[n].trip # t
        BY <1>1, <1>5, <2>2 DEF InHand
      <3> QED
        BY <1>3, <1>4, <2>2, <3>1, <3>2 DEF MetadataInv, Alone
    <2> QED
      BY <2>1, <2>2 DEF Alone
  <1>8. ASSUME NEW s \in Request PROVE Timely(s)'
    <2>1. CASE s = r
      <3>1. t \notin crossed' => Staffed(trip[t], by[t])
        BY <1>5 DEF MetadataInv
      <3>2. t \notin crossed' => Course(job, trip[t], by[t]) /\ InTime(r, job, trip[t].meta)
        BY <1>1, <1>3, <3>1 DEF Course, InTime, Staffed, Before, Serving
      <3> QED
        BY <1>1, <1>3, <1>4, <2>1, <3>2 DEF Timely
    <2>2. CASE s # r
      BY <1>1, <1>4, <1>5, <2>2 DEF Timely, Holds, MetadataInv
    <2> QED
      BY <2>1, <2>2
  <1>9. \A u \in Trip \ crossed' : Staffed(trip[u], by[u])'
    BY <1>1, <1>5 DEF MetadataInv, Staffed
  <1>10. \A n \in Note : Noted(n)'
    BY <1>1, <1>5 DEF MetadataInv, Noted
  <1> QED
    BY <1>7, <1>8, <1>9, <1>10 DEF MetadataInv

LEMMA MetadataReadForNote ==
    ASSUME AcceptAssumption, TypeInv, TypeInv', MetadataInv, NEW n \in Note, NEW t \in Trip, ReadForNote(n, t)
    PROVE  MetadataInv'
  <1>1. /\ note[n].at = "idle" /\ UNCHANGED <<trip, by, req>>
        /\ note' = [note EXCEPT ![n] = [at |-> "read", trip |-> t, got |-> trip[t].meta]]
        /\ crossed' = IF InHand(t) THEN crossed \cup {t} ELSE crossed
    BY DEF ReadForNote, Crosses
  <1>2. /\ note'[n] = [at |-> "read", trip |-> t, got |-> trip[t].meta]
        /\ \A m \in Note \ {n} : note'[m] = note[m]
    BY <1>1 DEF TypeInv, TypeOK
  <1>3. crossed \subseteq crossed' /\ (t \notin crossed' => ~InHand(t) /\ t \notin crossed)
    BY <1>1
  <1>4. Alone'
    <2>1. \A x, y \in Request : Holds(x)' /\ Holds(y)' /\ req'[x].trip = req'[y].trip
                                /\ req'[x].trip \notin crossed' => x = y
      BY <1>1, <1>3 DEF MetadataInv, Alone, Holds
    <2>2. ASSUME NEW k \in Note, note'[k].at = "read", note'[k].trip \notin crossed'
          PROVE  /\ \A x \in Request : req'[x].at \in Serving => req'[x].trip # note'[k].trip
                 /\ \A m \in Note : note'[m].at = "read" /\ note'[m].trip = note'[k].trip => m = k
      <3>1. CASE k = n
        BY <1>1, <1>2, <1>3, <2>2, <3>1 DEF InHand
      <3>2. CASE k # n
        <4>1. note'[k] = note[k]
          BY <1>2, <3>2
        <4>2. note[k].trip = t => InHand(t)
          BY <2>2, <4>1 DEF InHand
        <4> QED
          BY <1>1, <1>2, <1>3, <2>2, <4>1, <4>2 DEF MetadataInv, Alone
      <3> QED
        BY <3>1, <3>2
    <2> QED
      BY <2>1, <2>2 DEF Alone
  <1>5. \A s \in Request : Timely(s)'
    BY <1>1, <1>3 DEF MetadataInv, Timely, Holds
  <1>6. \A u \in Trip \ crossed' : Staffed(trip[u], by[u])'
    BY <1>1, <1>3 DEF MetadataInv, Staffed
  <1>7. \A m \in Note : Noted(m)'
    BY <1>1, <1>2, <1>3 DEF MetadataInv, Noted
  <1> QED
    BY <1>4, <1>5, <1>6, <1>7 DEF MetadataInv

LEMMA MetadataNoted ==
    ASSUME AcceptAssumption, TypeInv, TypeInv', MetadataInv, NEW n \in Note, UpdateMetadataWorkflow(n)
    PROVE  MetadataInv'
  <1> SUFFICES ASSUME NEW t, t = note[n].trip,
                      NEW meta, meta = [note[n].got EXCEPT !.workflows = @ \cup {n}]
               PROVE  MetadataInv'
    OBVIOUS
  <1>1. /\ note[n].at = "read" /\ UNCHANGED <<req, by, crossed>>
        /\ trip' = [trip EXCEPT ![t].meta = meta]
        /\ note' = [note EXCEPT ![n].at = "done", ![n].got = NoMetadata]
    BY DEF UpdateMetadataWorkflow, history
  <1>2. /\ note'[n].at = "done" /\ note'[n].trip = t
        /\ \A m \in Note \ {n} : note'[m] = note[m]
    BY <1>1 DEF TypeInv, TypeOK, NoteDoc
  <1>3. meta.workflows = note[n].got.workflows \cup {n} /\ meta.tx = note[n].got.tx
    BY DEF TypeInv, TypeOK, NoteDoc, Metadata
  <1>4. \A u \in Trip :
           /\ trip'[u].status = trip[u].status /\ trip'[u].staffs = trip[u].staffs
           /\ u # t => trip'[u] = trip[u]
           /\ u = t => trip'[u].meta = meta
    BY <1>1 DEF TypeInv, TypeOK, TripDoc
  <1>5. t \in Trip \ crossed => note[n].got = trip[t].meta
    BY <1>1 DEF MetadataInv, Noted
  <1>6. t \notin crossed => \A s \in Request : req[s].at \in Serving => req[s].trip # t
    BY <1>1 DEF MetadataInv, Alone
  <1>u. note[n].at = "read" /\ req' = req /\ by' = by /\ crossed' = crossed
    BY <1>1
  <1>7. Alone'
    BY <1>u, <1>2 DEF MetadataInv, Alone, Holds
  <1>8. ASSUME NEW s \in Request PROVE Timely(s)'
    <2> SUFFICES ASSUME Holds(s), req[s].trip \notin crossed, NEW u \in Trip, u = req[s].trip
                 PROVE  Course(req[s], trip'[u], by[u]) /\ InTime(s, req[s], trip'[u].meta)
      BY <1>u DEF Timely, Holds, TypeInv, Stage, Holding, Serving, Before
    <2>1. Course(req[s], trip[u], by[u]) /\ InTime(s, req[s], trip[u].meta)
      BY DEF MetadataInv, Timely
    <2>2. CASE u = t
      <3>1. req[s].at \notin Serving
        BY <1>6, <2>2
      <3>2. req[s].at \in {"accepted", "assigned"}
        BY <3>1 DEF Holds, Holding
      <3>3. trip'[u].meta.tx = trip[u].meta.tx
        BY <1>3, <1>4, <1>5, <2>2
      <3> QED
        BY <1>4, <2>1, <3>1, <3>2, <3>3 DEF Course, InTime, Serving, Before
    <2>3. CASE u # t
      BY <1>4, <2>1, <2>3
    <2> QED
      BY <2>2, <2>3
  <1>9. \A u \in Trip \ crossed' : Staffed(trip[u], by[u])'
    BY <1>u, <1>4 DEF MetadataInv, Staffed
  <1>10. ASSUME NEW m \in Note PROVE Noted(m)'
    <2> SUFFICES ASSUME note'[m].trip \in Trip \ crossed
                 PROVE  /\ note'[m].at = "read" => note'[m].got = trip'[note'[m].trip].meta
                        /\ note'[m].at = "done" => m \in trip'[note'[m].trip].meta.workflows
      BY <1>u DEF Noted
    <2>1. CASE m = n
      BY <1>2, <1>3, <1>4, <2>1
    <2>2. CASE m # n
      <3>1. note'[m] = note[m] /\ Noted(m)
        BY <1>2, <2>2 DEF MetadataInv
      <3>2. CASE note[m].trip = t
        <4>1. note[m].at # "read"
          BY <1>u, <2>2, <3>1, <3>2 DEF MetadataInv, Alone
        <4>2. t \in Trip \ crossed
          BY <3>1, <3>2
        <4>3. trip'[t].meta.workflows = trip[t].meta.workflows \cup {n}
          BY <1>3, <1>4, <1>5, <4>2
        <4> QED
          BY <3>1, <3>2, <4>1, <4>2, <4>3 DEF Noted
      <3>3. CASE note[m].trip # t
        BY <1>4, <3>1, <3>3 DEF Noted
      <3> QED
        BY <3>2, <3>3
    <2> QED
      BY <2>1, <2>2
  <1> QED
    BY <1>7, <1>8, <1>9, <1>10 DEF MetadataInv

LEMMA MetadataStep ==
    ASSUME AcceptAssumption, TypeInv, TypeInv', MetadataInv, [Next]_vars
    PROVE  MetadataInv'
  <1>1. ASSUME NEW r \in Request, Step(r) PROVE MetadataInv'
    BY <1>1, MetadataServing, MetadataEnding, MetadataBegin DEF Step
  <1>2. ASSUME NEW t \in Trip, RemoveStaff(t) \/ EndTrip(t) PROVE MetadataInv'
    <2>1. /\ UNCHANGED <<req, note, crossed>> /\ \A u \in Trip \ {t} : trip'[u] = trip[u] /\ by'[u] = by[u]
          /\ trip'[t].meta = trip[t].meta
      BY <1>2 DEF RemoveStaff, EndTrip, TypeInv, TypeOK, TripDoc, history
    <2>2. CASE RemoveStaff(t)
      <3>1. trip[t].staffs # {} /\ trip'[t].staffs = {} /\ trip'[t].status = trip[t].status
        BY <2>2 DEF RemoveStaff, TypeInv, TypeOK, TripDoc
      <3>2. ASSUME NEW s \in Request PROVE Timely(s)'
        <4> SUFFICES ASSUME Holds(s), req[s].trip = t, t \notin crossed
                     PROVE  Course(req[s], trip'[t], by'[t]) /\ InTime(s, req[s], trip'[t].meta)
          BY <2>1 DEF Timely, Holds, MetadataInv, TypeInv, Stage, Holding, Serving, Before
        <4> QED
          BY <2>1, <3>1 DEF MetadataInv, Timely, Course, Holds, Holding, InTime, Serving, Before
      <3> QED
        BY <2>1, <3>1, <3>2 DEF MetadataInv, Alone, Holds, Staffed, Noted
    <2>3. CASE EndTrip(t)
      <3>1. /\ trip[t].status = "DOING" /\ trip'[t].staffs = trip[t].staffs /\ trip'[t].status = "DONE"
            /\ by' = by
        BY <2>3 DEF EndTrip, TypeInv, TypeOK, TripDoc, history
      <3>2. ASSUME NEW s \in Request PROVE Timely(s)'
        <4> SUFFICES ASSUME Holds(s), req[s].trip = t, t \notin crossed
                     PROVE  Course(req[s], trip'[t], by'[t]) /\ InTime(s, req[s], trip'[t].meta)
          BY <2>1 DEF Timely, Holds, MetadataInv, TypeInv, Stage, Holding, Serving, Before
        <4> QED
          BY <2>1, <3>1 DEF MetadataInv, Timely, Course, Holds, Holding, InTime, Serving, Before
      <3> QED
        BY <2>1, <3>1, <3>2 DEF MetadataInv, Alone, Holds, Staffed, Noted
    <2> QED
      BY <1>2, <2>2, <2>3
  <1>3. ASSUME UNCHANGED <<trip, by, req, note, crossed>> PROVE MetadataInv'
    BY <1>3 DEF MetadataInv, Alone, Holds, Timely, Staffed, Noted
  <1>4. ASSUME MonthEnds \/ (\E m \in DOMAIN sequence : Expire(m)) \/ UNCHANGED vars PROVE MetadataInv'
    BY <1>3, <1>4 DEF MonthEnds, Expire, vars, history
  <1> QED
    BY <1>1, <1>2, <1>4, MetadataReadForNote, MetadataNoted DEF Next

LEMMA MetadataInit == Init => MetadataInv
  <1> SUFFICES ASSUME Init PROVE MetadataInv
    OBVIOUS
  <1>1. \A r \in Request : req[r].at = "idle" /\ ~Holds(r)
    BY DEF Init, Holds, Holding, Serving, Before
  <1>2. \A n \in Note : note[n].at = "idle"
    BY DEF Init
  <1> QED
    BY <1>1, <1>2 DEF Init, MetadataInv, Alone, Timely, Staffed, Noted

\* MetadataKept for any trips, requests and notes, any faults.
THEOREM MetadataStays == Spec => []MetadataKept
  <1>1. Init => TypeInv /\ MetadataInv
    BY TypeInit, MetadataInit, AcceptAssumption
  <1>2. TypeInv /\ MetadataInv /\ [Next]_vars => (TypeInv /\ MetadataInv)'
    BY TypeStep, MetadataStep, AcceptAssumption
  <1>3. MetadataInv => MetadataKept
    BY DEF MetadataInv, MetadataKept, Noted, Timely, InTime, Holds, Holding, At
  <1> QED
    BY <1>1, <1>2, <1>3, PTL DEF Spec

(***************************************************************************)
(* The reference.  An acceptance behind its count knows the one reference  *)
(* of its driver's trips, or that he has none under way; what it read of   *)
(* its own trip has no other reference.                                    *)
(***************************************************************************)
Plain(d) == UnderWay(d) \ (odd \cup crossed)

OwnRef(job, ref) ==
    /\ job.at \in Serving => job.first.ref \in {None, ref}
    /\ job.at = "trip" => job.first.ref = ref
    /\ job.at \in {"count", "number", "write", "hold", "merge"} => job.first.ref = None /\ job.seen.ref = None
    /\ job.at \in Counted \ {"number"} /\ job.trip \in Allowed => job.ref # None
    /\ job.at \in Counted \ {"number", "write"} /\ job.trip \in Allowed => ref = job.ref

Own(r) ==
    Holds(r) /\ req[r].trip \notin crossed \cup odd => OwnRef(req[r], trip[req[r].trip].meta.ref)

Knows(r) ==
    Pending(r) /\ req[r].trip \notin crossed \cup odd /\ req[r].driver \notin hasty =>
        \A u \in Plain(req[r].driver) : req[r].at # "number" /\ trip[u].meta.ref = req[r].ref

ReferenceInv ==
    /\ \A r \in Request : Own(r)
    /\ \A r \in Request : Knows(r)
    /\ \A d \in Driver : \A t \in Plain(d) : trip[t].meta.ref # None
    /\ SameReference

\* No request moves, no reference changes, nobody has one more trip under way.
LEMMA ReferenceQuiet ==
    ASSUME AcceptAssumption, TypeInv, TypeInv', ReferenceInv,
           UNCHANGED <<req, hasty, odd>>, crossed \subseteq crossed',
           \A u \in Trip : u \notin crossed' => trip'[u].meta.ref = trip[u].meta.ref,
           \A d \in Driver : UnderWay(d)' \subseteq UnderWay(d)
    PROVE  ReferenceInv'
  <1>1. \A d \in Driver : Plain(d)' \subseteq Plain(d)
    BY DEF Plain
  <1>2. \A d \in Driver : \A u \in Plain(d)' : trip'[u].meta.ref = trip[u].meta.ref
    BY DEF Plain, UnderWay, AcceptAssumption
  <1>3. \A r \in Request : Holds(r) => req[r].trip \in Trip /\ req[r].driver \in Driver
    BY DEF TypeInv, Stage, Holds, Holding, Serving, Before
  <1>4. \A r \in Request : Own(r)'
    BY <1>3 DEF ReferenceInv, Own, Holds
  <1>5. \A r \in Request : Pending(r) => Holds(r)
    BY DEF Pending, Counted, Holds, Holding, Serving
  <1>6. \A r \in Request : Knows(r)'
    BY <1>1, <1>2, <1>3, <1>5 DEF ReferenceInv, Knows, Pending
  <1>7. SameReference'
    BY <1>1, <1>2 DEF ReferenceInv, SameReference, Plain
  <1> QED
    BY <1>1, <1>2, <1>4, <1>6, <1>7 DEF ReferenceInv

\* A step of one request that puts no further trip under way.
LEMMA ReferenceFrame ==
    ASSUME AcceptAssumption, TypeInv, TypeInv', MetadataInv, ReferenceInv,
           NEW r \in Request, NEW job, NEW t \in Trip, NEW doc,
           Holds(r), t = req[r].trip, job.trip = t,
           req'[r] = job, \A s \in Request \ {r} : req'[s] = req[s],
           trip'[t] = doc, \A u \in Trip \ {t} : trip'[u] = trip[u] /\ by'[u] = by[u],
           crossed' = crossed, odd \subseteq odd', hasty \subseteq hasty',
           doc.status = "DOING" => trip[t].status = "DOING" /\ by'[t] \in {by[t], None},
           t \notin crossed \cup odd' =>
              /\ job.at \in Holding => OwnRef(job, doc.meta.ref)
              /\ doc.status = "DOING" => doc.meta.ref = trip[t].meta.ref
              /\ job.at \in Counted /\ t \in Allowed /\ job.driver \notin hasty' =>
                    \A u \in Plain(job.driver) : job.at # "number" /\ trip[u].meta.ref = job.ref
    PROVE  ReferenceInv'
  <1>1. \A d \in Driver : UnderWay(d)' \subseteq UnderWay(d)
    BY DEF UnderWay, AcceptAssumption
  <1>2. \A d \in Driver : Plain(d)' \subseteq Plain(d)
    BY <1>1 DEF Plain
  <1>3. \A d \in Driver : \A u \in Plain(d)' : trip'[u].meta.ref = trip[u].meta.ref
    BY DEF Plain, UnderWay, AcceptAssumption
  <1>4. ASSUME NEW s \in Request PROVE Own(s)'
    <2>1. CASE s = r
      BY <2>1 DEF Own, Holds
    <2>2. CASE s # r
      <3>1. req'[s] = req[s]
        BY <2>2
      <3>2. Holds(s) /\ req[s].trip \notin crossed => req[s].trip \in Trip \ {t}
        BY <2>2 DEF MetadataInv, Alone, TypeInv, Stage, Holds, Holding, Serving, Before
      <3> QED
        BY <3>1, <3>2 DEF Own, Holds, ReferenceInv
    <2> QED
      BY <2>1, <2>2
  <1>5. ASSUME NEW s \in Request PROVE Knows(s)'
    <2> SUFFICES ASSUME Pending(s)', req'[s].trip \notin crossed' \cup odd', req'[s].driver \notin hasty',
                        NEW d \in Driver, d = req'[s].driver, NEW u \in Plain(d)'
                 PROVE  req'[s].at # "number" /\ trip'[u].meta.ref = req'[s].ref
      BY DEF Knows, Pending, Counted, Before, TypeInv, Stage
    <2>1. CASE s = r
      BY <1>2, <1>3, <2>1 DEF Pending
    <2>2. CASE s # r
      <3>1. req'[s] = req[s]
        BY <2>2
      <3> QED
        BY <1>2, <1>3, <3>1 DEF ReferenceInv, Knows, Pending
    <2> QED
      BY <2>1, <2>2
  <1>6. SameReference'
    BY <1>2, <1>3 DEF ReferenceInv, SameReference, Plain
  <1> QED
    BY <1>2, <1>3, <1>4, <1>5, <1>6 DEF ReferenceInv

\* The same of a write in service whose answer may be lost.
LEMMA ReferenceApplied ==
    ASSUME AcceptAssumption, TypeInv, TypeInv', MetadataInv, ReferenceInv,
           NEW r \in Request, NEW job, NEW t \in Trip, NEW doc,
           req[r].at \in Serving, job.at \in Serving, t = req[r].trip, job.trip = t,
           {"at", "undo", "trip", "first", "ref", "driver"} \subseteq DOMAIN job,
           Applied(r, job),
           trip'[t] = doc, \A u \in Trip \ {t} : trip'[u] = trip[u] /\ by'[u] = by[u],
           crossed' = crossed, odd \subseteq odd', hasty \subseteq hasty',
           doc.status = "DOING" => trip[t].status = "DOING" /\ by'[t] \in {by[t], None},
           t \notin crossed \cup odd' =>
              /\ OwnRef(job, doc.meta.ref)
              /\ doc.status = "DOING" => doc.meta.ref = trip[t].meta.ref
              /\ job.at \in Counted /\ t \in Allowed /\ job.driver \notin hasty' =>
                    \A u \in Plain(job.driver) : job.at # "number" /\ trip[u].meta.ref = job.ref
    PROVE  ReferenceInv'
  <1>0. Holds(r)
    BY DEF Holds, Holding
  <1>1. CASE Goes(r, job)
    <2>1. req' = [req EXCEPT ![r] = job]
      BY <1>1 DEF Goes
    <2>2. req'[r] = job /\ \A s \in Request \ {r} : req'[s] = req[s]
      BY <2>1 DEF TypeInv, TypeOK
    <2> QED
      BY <1>0, <2>2, ReferenceFrame
  <1>2. CASE RollsBack(r, job)
    <2> DEFINE back == [job EXCEPT !.at = "undo", !.undo = AllUndo]
    <2>1. /\ back.at = "undo" /\ back.trip = t /\ back.first = job.first
      OBVIOUS
    <2>2. req' = [req EXCEPT ![r] = back]
      BY <1>2 DEF RollsBack
    <2> HIDE DEF back
    <2>3. req'[r] = back /\ \A s \in Request \ {r} : req'[s] = req[s]
      BY <2>2 DEF TypeInv, TypeOK
    <2>4. t \notin crossed \cup odd' => OwnRef(back, doc.meta.ref)
      BY <2>1 DEF OwnRef, Counted, Before, Serving
    <2>5. back.at \notin Counted
      BY <2>1 DEF Counted, Before
    <2> QED
      BY <1>0, <2>1, <2>3, <2>4, <2>5, ReferenceFrame
  <1> QED
    BY <1>1, <1>2 DEF Applied

\* What holds of the request and its trip in a step of it.
LEMMA ReferenceAtHand ==
    ASSUME TypeInv, MetadataInv, ReferenceInv, NEW r \in Request, Holds(r), NEW t \in Trip, t = req[r].trip
    PROVE  /\ req[r] \in Job /\ trip[t] \in TripDoc /\ trip[t].meta \in Metadata
           /\ req[r].first \in Metadata /\ req[r].seen \in Metadata /\ req[r].got \in Metadata
           /\ req[r].driver \in Driver
           /\ t \notin crossed => Course(req[r], trip[t], by[t]) /\ InTime(r, req[r], trip[t].meta)
           /\ t \notin crossed \cup odd => OwnRef(req[r], trip[t].meta.ref)
           /\ req[r].at \in Counted /\ t \in Allowed /\ t \notin crossed \cup odd /\ req[r].driver \notin hasty =>
                 \A u \in Plain(req[r].driver) : req[r].at # "number" /\ trip[u].meta.ref = req[r].ref
  <1>1. req[r].at # "idle"
    BY DEF Holds, Holding, Serving, Before
  <1>2. t \notin crossed => Course(req[r], trip[t], by[t]) /\ InTime(r, req[r], trip[t].meta)
    BY DEF MetadataInv, Timely
  <1>3. t \notin crossed \cup odd => OwnRef(req[r], trip[t].meta.ref)
    BY DEF ReferenceInv, Own
  <1>4. req[r].at \in Counted /\ t \in Allowed /\ t \notin crossed \cup odd /\ req[r].driver \notin hasty =>
            \A u \in Plain(req[r].driver) : req[r].at # "number" /\ trip[u].meta.ref = req[r].ref
    BY DEF ReferenceInv, Knows, Pending
  <1> QED
    BY <1>1, <1>2, <1>3, <1>4, AtHand

\* The trips a driver in no hurry has under way are those his acceptance counts.
LEMMA CountSeesAll ==
    ASSUME AcceptAssumption, TypeInv, MetadataInv, NEW r \in Request, NEW d \in Driver, d = req[r].driver,
           ~Unsettled(r), TripActiveList(d) \subseteq Allowed \ (odd \cup crossed)
    PROVE  TripActiveList(d) = Plain(d)
  <1>1. ASSUME NEW u \in TripActiveList(d) PROVE u \in Plain(d)
    <2>1. u \in Trip /\ trip[u].status = "DOING" /\ d \in trip[u].staffs /\ u \in Allowed \ (odd \cup crossed)
      BY <1>1 DEF TripActiveList
    <2>2. by[u] = d
      BY <2>1 DEF MetadataInv, Staffed
    <2> QED
      BY <2>1, <2>2 DEF Plain, UnderWay
  <1>2. ASSUME NEW u \in Plain(d) PROVE u \in TripActiveList(d)
    <2>1. u \in Trip /\ trip[u].status = "DOING" /\ by[u] = d
      BY <1>2 DEF Plain, UnderWay, AcceptAssumption
    <2> QED
      BY <2>1 DEF Unsettled, TripActiveList
  <1> QED
    BY <1>1, <1>2

\* The count: the reference of the trips under way, or none and a number to draw.
LEMMA ReferenceCount ==
    ASSUME AcceptAssumption, TypeInv, TypeInv', MetadataInv, ReferenceInv, NEW r \in Request,
           HandleMultipleAcceptTrip(r)
    PROVE  ReferenceInv'
  <1>0. req[r].at = "count" /\ req[r].at \in Serving /\ Holds(r) /\ req[r].at # "idle"
    BY DEF HandleMultipleAcceptTrip, At, Serving, Before, Holds, Holding
  <1> SUFFICES ASSUME NEW t \in Trip, t = req[r].trip, NEW d \in Driver, d = req[r].driver,
                      NEW list, list = TripActiveList(d)
               PROVE  ReferenceInv'
    BY <1>0, AtHand
  <1>1. /\ req[r] \in Job
        /\ t \notin crossed => Course(req[r], trip[t], by[t])
        /\ t \notin crossed \cup odd => OwnRef(req[r], trip[t].meta.ref)
    BY <1>0, ReferenceAtHand
  <1>2. /\ trip' = trip /\ by' = by /\ crossed' = crossed /\ hasty \subseteq hasty' /\ odd \subseteq odd'
        /\ d \notin hasty' => ~Unsettled(r)
    BY DEF HandleMultipleAcceptTrip
  <1>3. ASSUME NEW job, req' = [req EXCEPT ![r] = job]
        PROVE  req'[r] = job /\ \A s \in Request \ {r} : req'[s] = req[s]
    BY <1>3 DEF TypeInv, TypeOK
  <1>4. t \notin crossed => trip[t].status = "PENDING"
    BY <1>0, <1>1 DEF Course, Before
  <1>5. CASE Goes(r, Moved(r, "refused"))
    <2>1. /\ Moved(r, "refused").at = "refused" /\ Moved(r, "refused").trip = t
      BY MovedType DEF Ends, TypeInv
    <2>2. "refused" \notin Holding \cup Counted
      BY DEF Holding, Counted, Serving, Before
    <2>3. /\ req'[r] = Moved(r, "refused") /\ \A s \in Request \ {r} : req'[s] = req[s]
      BY <1>3, <1>5 DEF Goes
    <2> QED
      BY <1>0, <1>2, <2>1, <2>2, <2>3, ReferenceFrame
  <1>6. ASSUME NEW place \in {"number", "write"}, NEW ref, Goes(r, [Moved(r, place) EXCEPT !.ref = ref]),
               place = "write" => ref # None,
               t \notin crossed \cup odd' /\ d \notin hasty' =>
                   \A u \in Plain(d) : place # "number" /\ trip[u].meta.ref = ref
        PROVE  ReferenceInv'
    <2> DEFINE job == [Moved(r, place) EXCEPT !.ref = ref]
    <2>1. place \in Serving
      BY DEF Serving, Before
    <2>2. /\ job.at = place /\ job.trip = t /\ job.ref = ref /\ job.driver = d
          /\ job.first = req[r].first /\ job.seen = req[r].seen
      BY <1>1, <2>1, MovedServing DEF Job, TypeInv
    <2>3. req' = [req EXCEPT ![r] = job]
      BY <1>6 DEF Goes
    <2> HIDE DEF job
    <2>4. req'[r] = job /\ \A s \in Request \ {r} : req'[s] = req[s]
      BY <1>3, <2>3
    <2>5. t \notin crossed \cup odd' => OwnRef(job, trip[t].meta.ref)
      BY <1>0, <1>1, <1>2, <1>6, <2>1, <2>2 DEF OwnRef
    <2> QED
      BY <1>0, <1>2, <1>4, <1>6, <2>2, <2>4, <2>5, ReferenceFrame
  <1>7. CASE ~Goes(r, Moved(r, "refused"))
    <2>1. PICK ref \in FirstReferences(list) :
              Goes(r, IF ref = None THEN [Moved(r, "number") EXCEPT !.ref = [month |-> month, number |-> 0]]
                                    ELSE [Moved(r, "write") EXCEPT !.ref = ref])
      BY <1>7 DEF HandleMultipleAcceptTrip
    <2>2. odd' = IF list \subseteq Allowed \ (odd \cup crossed) THEN odd ELSE odd \cup {t}
      BY <1>7 DEF HandleMultipleAcceptTrip
    <2>3. t \notin odd' /\ d \notin hasty' => list = Plain(d)
      BY <1>2, <2>2, CountSeesAll
    <2>4. ASSUME t \notin odd', d \notin hasty', NEW u \in Plain(d)
          PROVE  ref # None /\ trip[u].meta.ref = ref
      <3>1. list = Plain(d) /\ d \notin hasty
        BY <1>2, <2>3, <2>4
      <3>2. PICK v \in list : ref = trip[v].meta.ref
        BY <2>1, <2>4, <3>1 DEF FirstReferences
      <3>3. trip[v].meta.ref = trip[u].meta.ref
        BY <2>4, <3>1, <3>2 DEF ReferenceInv, SameReference, Plain
      <3>4. trip[v].meta.ref # None
        BY <3>1, <3>2 DEF ReferenceInv
      <3> QED
        BY <3>2, <3>3, <3>4
    <2>5. CASE ref = None
      <3>1. Goes(r, [Moved(r, "number") EXCEPT !.ref = [month |-> month, number |-> 0]])
        BY <2>1, <2>5
      <3>2. "number" \in {"number", "write"} /\ "number" # "write"
        OBVIOUS
      <3>3. t \notin crossed \cup odd' /\ d \notin hasty' => Plain(d) = {}
        BY <2>4, <2>5
      <3> QED
        BY <1>6, <3>1, <3>2, <3>3
    <2>6. CASE ref # None
      <3>1. Goes(r, [Moved(r, "write") EXCEPT !.ref = ref])
        BY <2>1, <2>6
      <3>2. "write" \in {"number", "write"} /\ "number" # "write"
        OBVIOUS
      <3> QED
        BY <1>6, <2>4, <2>6, <3>1, <3>2
    <2> QED
      BY <2>5, <2>6
  <1> QED
    BY <1>5, <1>7

\* The other steps in service, the write of DOING apart.
LEMMA ReferenceServing ==
    ASSUME AcceptAssumption, TypeInv, TypeInv', MetadataInv, ReferenceInv, NEW r \in Request,
           \/ GetTrip(r) \/ GetNextSequence(r) \/ WriteReference(r) \/ HoldWithdrawal(r)
           \/ UpdateTripMetadata(r) \/ FinishTodo(r) \/ Throws(r)
    PROVE  ReferenceInv'
  <1>0. req[r].at \in Serving /\ req[r].at # "idle" /\ Holds(r)
    BY DEF GetTrip, GetNextSequence, WriteReference, HoldWithdrawal, UpdateTripMetadata,
           FinishTodo, Throws, At, Serving, Before, Holds, Holding
  <1> SUFFICES ASSUME NEW t \in Trip, t = req[r].trip, NEW d \in Driver, d = req[r].driver PROVE ReferenceInv'
    BY <1>0, AtHand
  <1>1. /\ req[r] \in Job /\ trip[t] \in TripDoc /\ trip[t].meta \in Metadata
        /\ req[r].first \in Metadata /\ req[r].seen \in Metadata /\ req[r].got \in Metadata
    BY <1>0, ReferenceAtHand
  <1>2. /\ t \notin crossed => Course(req[r], trip[t], by[t]) /\ InTime(r, req[r], trip[t].meta)
        /\ t \notin crossed \cup odd => OwnRef(req[r], trip[t].meta.ref)
    BY <1>0, ReferenceAtHand
  <1>3. req[r].at \in Counted /\ t \in Allowed /\ t \notin crossed \cup odd /\ d \notin hasty =>
            \A u \in Plain(d) : req[r].at # "number" /\ trip[u].meta.ref = req[r].ref
    BY <1>0, ReferenceAtHand
  <1>4. req[r].at \in Before /\ t \notin crossed => trip[t].status = "PENDING"
    BY <1>2 DEF Course
  <1>5. CASE GetTrip(r)
    <2> DEFINE next == IF t \in Allowed THEN "count" ELSE AfterReference(r)
               job == [Moved(r, next) EXCEPT !.seen = trip[t].meta]
    <2>1. /\ Goes(r, job) /\ trip' = trip /\ by' = by /\ crossed' = crossed /\ hasty' = hasty
          /\ odd' = IF trip[t].meta.ref # None THEN odd \cup {t} ELSE odd
          /\ req[r].at = "trip"
      BY <1>5 DEF GetTrip, At
    <2>2. /\ next \in {"count", "hold", "todo"} /\ (t \in Allowed => next = "count") /\ next \in Serving
      BY DEF AfterReference, Serving, Before
    <2> HIDE DEF next
    <2>3. /\ job \in Job /\ job.at = next /\ job.trip = t /\ job.seen = trip[t].meta /\ job.first = req[r].first
      BY <1>1, <2>2, MovedServing DEF Job, TypeInv
    <2> HIDE DEF job
    <2>4. t \notin crossed \cup odd' => OwnRef(job, trip[t].meta.ref)
      BY <1>2, <2>1, <2>2, <2>3 DEF OwnRef, Counted
    <2>5. t \in Allowed => job.at \notin Counted
      BY <2>2, <2>3 DEF Counted
    <2>6. {"at", "undo", "trip", "first", "ref", "driver"} \subseteq DOMAIN job
      BY <2>3 DEF Job
    <2> QED
      BY <1>0, <2>1, <2>2, <2>3, <2>4, <2>5, <2>6, ReferenceApplied DEF Applied
  <1>6. CASE GetNextSequence(r)
    <2>1. /\ trip' = trip /\ by' = by /\ crossed' = crossed /\ hasty' = hasty /\ odd' = odd
          /\ req[r].at = "number"
      BY <1>6 DEF GetNextSequence, At, history
    <2> DEFINE n == IF req[r].ref.month \in DOMAIN sequence THEN sequence[req[r].ref.month] + 1 ELSE 1
    <2>2. Applied(r, [Moved(r, "write") EXCEPT !.ref.number = n, !.fresh = (req[r].ref.month = month)])
      BY <1>6 DEF GetNextSequence
    <2>3. req[r].ref \in Ref /\ n \in Nat
      BY <2>1 DEF TypeInv, TypeOK, Stage, Ref
    <2> HIDE DEF n
    <2> DEFINE job == [Moved(r, "write") EXCEPT !.ref.number = n, !.fresh = (req[r].ref.month = month)]
    <2>4. "write" \in Serving
      BY DEF Serving, Before
    <2>5. /\ job.at = "write" /\ job.trip = t /\ job.seen = req[r].seen /\ job.driver = d
          /\ job.first = req[r].first /\ job.ref = [req[r].ref EXCEPT !.number = n]
          /\ {"at", "undo", "trip", "first", "ref", "driver"} \subseteq DOMAIN job
      BY <1>1, <2>4, MovedServing DEF Job, TypeInv
    <2>a. Applied(r, job)
      BY <2>2
    <2> HIDE DEF job
    <2>6. job.ref # None
      <3>1. job.ref \in [month: Nat, number: Nat]
        BY <2>3, <2>5, AcceptAssumption DEF Ref, AcceptAssumption
      <3> QED
        BY <3>1, AcceptAssumption DEF AcceptAssumption
    <2>7. t \notin crossed \cup odd => OwnRef(job, trip[t].meta.ref)
      BY <1>2, <2>1, <2>4, <2>5, <2>6 DEF OwnRef, Serving, Before
    <2>8. t \in Allowed /\ t \notin crossed \cup odd /\ d \notin hasty => Plain(d) = {}
      BY <1>3, <2>1 DEF Counted, Before
    <2>9. t \notin crossed => trip[t].status # "DOING"
      BY <1>4, <2>1 DEF Before
    <2> QED
      BY <1>0, <2>1, <2>4, <2>5, <2>a, <2>7, <2>8, <2>9, ReferenceApplied
  <1>7. CASE WriteReference(r)
    <2> DEFINE meta == [trip[t].meta EXCEPT !.ref = req[r].ref]
               doc == [trip[t] EXCEPT !.meta = meta]
               job == Moved(r, AfterReference(r))
    <2>1. /\ by' = by /\ crossed' = crossed /\ hasty' = hasty /\ odd' = odd /\ req[r].at = "write"
          /\ Applied(r, job) /\ trip' = [trip EXCEPT ![t].meta = meta]
      BY <1>7 DEF WriteReference, At, history, WriteMetadata
    <2>2. meta.ref = req[r].ref /\ doc.meta = meta /\ doc.status = trip[t].status
      BY <1>1 DEF Metadata, TripDoc
    <2>3. trip'[t] = doc /\ \A u \in Trip \ {t} : trip'[u] = trip[u] /\ by'[u] = by[u]
      BY <1>1, <2>1 DEF TypeInv, TypeOK
    <2>4. AfterReference(r) \in {"hold", "todo"}
      BY DEF AfterReference
    <2>5. /\ job \in Job /\ job.at = AfterReference(r) /\ job.trip = t /\ job.at \in Serving
          /\ job.first = req[r].first /\ job.seen = req[r].seen /\ job.ref = req[r].ref /\ job.driver = d
      BY <2>4, MovedType, MovedServing DEF TypeInv, Serving, Before
    <2>6. {"at", "undo", "trip", "first", "ref", "driver"} \subseteq DOMAIN job
      BY <2>5 DEF Job
    <2> HIDE DEF meta, doc, job
    <2>7. t \notin crossed \cup odd => OwnRef(job, doc.meta.ref)
      BY <1>2, <2>1, <2>2, <2>4, <2>5 DEF OwnRef, Counted, Before
    <2>8. t \notin crossed => doc.status # "DOING"
      BY <1>4, <2>1, <2>2 DEF Before
    <2>9. t \in Allowed /\ t \notin crossed \cup odd /\ d \notin hasty => \A u \in Plain(d) : trip[u].meta.ref = job.ref
      BY <1>3, <2>1, <2>5 DEF Counted, Before
    <2> QED
      BY <1>0, <2>1, <2>2, <2>3, <2>4, <2>5, <2>6, <2>7, <2>8, <2>9, ReferenceApplied
  <1>8. CASE HoldWithdrawal(r)
    <2> DEFINE job == [Moved(r, "merge") EXCEPT !.got = trip[t].meta]
    <2>1. /\ Goes(r, job) /\ trip' = trip /\ by' = by /\ crossed' = crossed /\ hasty' = hasty /\ odd' = odd
          /\ req[r].at = "hold"
      BY <1>8 DEF HoldWithdrawal, At, history
    <2>2. "merge" \in Serving
      BY DEF Serving, Before
    <2>3. /\ job \in Job /\ job.at = "merge" /\ job.trip = t /\ job.ref = req[r].ref /\ job.driver = d
          /\ job.first = req[r].first /\ job.seen = req[r].seen
      BY <1>1, <2>2, MovedServing DEF Job, TypeInv
    <2>4. {"at", "undo", "trip", "first", "ref", "driver"} \subseteq DOMAIN job
      BY <2>3 DEF Job
    <2> HIDE DEF job
    <2>5. t \notin crossed \cup odd => OwnRef(job, trip[t].meta.ref)
      BY <1>2, <2>1, <2>2, <2>3 DEF OwnRef, Counted, Before
    <2>6. t \in Allowed /\ t \notin crossed \cup odd /\ d \notin hasty => \A u \in Plain(d) : trip[u].meta.ref = job.ref
      BY <1>3, <2>1, <2>3 DEF Counted, Before
    <2> QED
      BY <1>0, <2>1, <2>2, <2>3, <2>4, <2>5, <2>6, ReferenceApplied DEF Applied
  <1>9. CASE UpdateTripMetadata(r)
    <2> DEFINE data == [req[r].seen EXCEPT !.tx = r]
               meta == Merge(req[r].got, data)
               doc == [trip[t] EXCEPT !.meta = meta]
               job == Moved(r, "todo")
    <2>1. /\ by' = by /\ crossed' = crossed /\ hasty' = hasty /\ odd' = odd /\ req[r].at = "merge"
          /\ Applied(r, job) /\ trip' = [trip EXCEPT ![t].meta = meta]
      BY <1>9 DEF UpdateTripMetadata, At, history, WriteMetadata
    <2>2. data \in Metadata /\ data.ref = req[r].seen.ref
      BY <1>1 DEF Metadata, Tx
    <2> HIDE DEF data
    <2>3. req[r].seen.ref = None => meta.ref = req[r].got.ref
      BY <1>1, <2>2, MergeNotes
    <2>4. doc.meta = meta /\ doc.status = trip[t].status
      BY <1>1 DEF TripDoc
    <2>5. trip'[t] = doc /\ \A u \in Trip \ {t} : trip'[u] = trip[u] /\ by'[u] = by[u]
      BY <1>1, <2>1 DEF TypeInv, TypeOK
    <2>6. /\ job \in Job /\ job.at = "todo" /\ job.trip = t /\ job.at \in Serving
          /\ job.first = req[r].first /\ job.ref = req[r].ref /\ job.driver = d
      BY MovedType, MovedServing DEF TypeInv, Serving, Before
    <2>7. {"at", "undo", "trip", "first", "ref", "driver"} \subseteq DOMAIN job
      BY <2>6 DEF Job
    <2> HIDE DEF meta, doc, job
    <2>8. t \notin crossed \cup odd => meta.ref = trip[t].meta.ref
      BY <1>2, <2>1, <2>3 DEF OwnRef, InTime
    <2>9. t \notin crossed \cup odd => OwnRef(job, doc.meta.ref)
      BY <1>2, <2>1, <2>4, <2>6, <2>8 DEF OwnRef, Counted, Before, Serving
    <2>10. t \notin crossed => doc.status # "DOING"
      BY <1>4, <2>1, <2>4 DEF Before
    <2>11. t \in Allowed /\ t \notin crossed \cup odd /\ d \notin hasty => \A u \in Plain(d) : trip[u].meta.ref = job.ref
      BY <1>3, <2>1, <2>6 DEF Counted, Before
    <2> QED
      BY <1>0, <2>1, <2>4, <2>5, <2>6, <2>7, <2>9, <2>10, <2>11, ReferenceApplied
  <1>10. CASE FinishTodo(r)
    <2> DEFINE doc == [trip[t] EXCEPT !.todo = "DONE"]
               job == Moved(r, "doing")
    <2>1. /\ by' = by /\ crossed' = crossed /\ hasty' = hasty /\ odd' = odd /\ req[r].at = "todo"
          /\ Applied(r, job) /\ trip' = [trip EXCEPT ![t].todo = "DONE"]
      BY <1>10 DEF FinishTodo, At, history
    <2>2. doc.meta = trip[t].meta /\ doc.status = trip[t].status
      BY <1>1 DEF TripDoc
    <2>3. trip'[t] = doc /\ \A u \in Trip \ {t} : trip'[u] = trip[u] /\ by'[u] = by[u]
      BY <1>1, <2>1 DEF TypeInv, TypeOK
    <2>4. /\ job \in Job /\ job.at = "doing" /\ job.trip = t /\ job.at \in Serving
          /\ job.first = req[r].first /\ job.ref = req[r].ref /\ job.driver = d
      BY MovedType, MovedServing DEF TypeInv, Serving, Before
    <2>5. {"at", "undo", "trip", "first", "ref", "driver"} \subseteq DOMAIN job
      BY <2>4 DEF Job
    <2> HIDE DEF doc, job
    <2>6. t \notin crossed \cup odd => OwnRef(job, doc.meta.ref)
      BY <1>2, <2>1, <2>2, <2>4 DEF OwnRef, Counted, Before, Serving
    <2>7. t \in Allowed /\ t \notin crossed \cup odd /\ d \notin hasty => \A u \in Plain(d) : trip[u].meta.ref = job.ref
      BY <1>3, <2>1, <2>4 DEF Counted, Before
    <2> QED
      BY <1>0, <2>1, <2>2, <2>3, <2>4, <2>5, <2>6, <2>7, ReferenceApplied
  <1>11. CASE Throws(r)
    <2>1. /\ Applied(r, req[r]) /\ trip' = trip /\ by' = by /\ crossed' = crossed /\ hasty' = hasty /\ odd' = odd
      BY <1>11 DEF Throws, Applied, history
    <2>2. {"at", "undo", "trip", "first", "ref", "driver"} \subseteq DOMAIN req[r]
      BY <1>1 DEF Job
    <2> QED
      BY <1>0, <1>2, <1>3, <2>1, <2>2, ReferenceApplied
  <1> QED
    BY <1>5, <1>6, <1>7, <1>8, <1>9, <1>10, <1>11

\* The trip is under way: its reference is that of the others.
LEMMA ReferenceDoing ==
    ASSUME AcceptAssumption, TypeInv, TypeInv', MetadataInv, LimitInv, ReferenceInv, NEW r \in Request,
           UpdateTripDetailStatus(r)
    PROVE  ReferenceInv'
  <1>0. req[r].at = "doing" /\ req[r].at \in Serving /\ req[r].at # "idle" /\ Holds(r)
    BY DEF UpdateTripDetailStatus, At, Serving, Before, Holds, Holding
  <1> SUFFICES ASSUME NEW t \in Trip, t = req[r].trip, NEW d \in Driver, d = req[r].driver,
                      NEW job \in Job, job = req'[r]
               PROVE ReferenceInv'
    BY <1>0, AtHand DEF TypeInv, TypeOK
  <1>1. /\ req[r] \in Job /\ trip[t] \in TripDoc
        /\ t \notin crossed \cup odd => OwnRef(req[r], trip[t].meta.ref)
    BY <1>0, ReferenceAtHand
  <1>2. t \in Allowed /\ t \notin crossed \cup odd /\ d \notin hasty => \A u \in Plain(d) : trip[u].meta.ref = req[r].ref
    BY <1>0, ReferenceAtHand DEF Counted, Before
  <1>3. /\ by' = [by EXCEPT ![t] = d] /\ trip' = [trip EXCEPT ![t].status = "DOING"]
        /\ crossed' = crossed /\ hasty' = hasty /\ odd' = odd
        /\ Applied(r, Moved(r, "urls"))
    BY DEF UpdateTripDetailStatus
  <1>4. /\ job.at \in {"urls", "undo"} /\ job.trip = t /\ job.driver = d /\ job.first = req[r].first
        /\ \A s \in Request \ {r} : req'[s] = req[s]
    <2>1. /\ Moved(r, "urls") \in Job /\ Moved(r, "urls").at = "urls" /\ Moved(r, "urls").trip = t
          /\ Moved(r, "urls").driver = d /\ Moved(r, "urls").first = req[r].first
      BY MovedType, MovedServing DEF TypeInv, Serving
    <2> DEFINE back == [Moved(r, "urls") EXCEPT !.at = "undo", !.undo = AllUndo]
    <2>2. back.at = "undo" /\ back.trip = t /\ back.driver = d /\ back.first = req[r].first
      BY <2>1 DEF Job
    <2>3. req' = [req EXCEPT ![r] = Moved(r, "urls")] \/ req' = [req EXCEPT ![r] = back]
      BY <1>3 DEF Applied, Goes, RollsBack
    <2> HIDE DEF back
    <2>4. req'[r] \in {Moved(r, "urls"), back} /\ \A s \in Request \ {r} : req'[s] = req[s]
      BY <2>3 DEF TypeInv, TypeOK
    <2> QED
      BY <2>1, <2>2, <2>4
  <1>5. /\ by'[t] = d /\ \A u \in Trip \ {t} : trip'[u] = trip[u] /\ by'[u] = by[u]
        /\ \A u \in Trip : trip'[u].meta = trip[u].meta
    BY <1>3 DEF TypeInv, TypeOK, TripDoc
  <1>6. \A u \in Trip : u \in Plain(d)' => u \in Plain(d) \/ u = t
    BY <1>3, <1>5 DEF Plain, UnderWay
  <1>7. \A e \in Driver \ {d} : Plain(e)' \subseteq Plain(e)
    BY <1>3, <1>5 DEF Plain, UnderWay, AcceptAssumption
  <1>8. \A e \in Driver : Plain(e)' \subseteq Trip
    BY DEF Plain, UnderWay, AcceptAssumption
  <1>9. t \in Plain(d)' => t \in Allowed /\ t \notin crossed \cup odd
                           /\ trip[t].meta.ref = req[r].ref /\ req[r].ref # None
    BY <1>0, <1>1, <1>3 DEF Plain, UnderWay, OwnRef, Counted, Before
  <1>10. ASSUME NEW s \in Request PROVE Own(s)'
    <2>1. CASE s = r
      <3>1. t \notin crossed \cup odd => OwnRef(job, trip[t].meta.ref)
        BY <1>0, <1>1, <1>4 DEF OwnRef, Counted, Before, Serving
      <3> QED
        BY <1>3, <1>4, <1>5, <2>1, <3>1 DEF Own
    <2>2. CASE s # r
      <3>1. req'[s] = req[s] /\ (Holds(s) => req[s].trip \in Trip)
        BY <1>4, <2>2 DEF TypeInv, Stage, Holds, Holding, Serving, Before
      <3> QED
        BY <1>3, <1>5, <3>1 DEF Own, Holds, ReferenceInv
    <2> QED
      BY <2>1, <2>2
  <1>11. ASSUME NEW s \in Request PROVE Knows(s)'
    <2> SUFFICES ASSUME Pending(s)', req'[s].trip \notin crossed' \cup odd', req'[s].driver \notin hasty',
                        NEW e \in Driver, e = req'[s].driver, NEW u \in Plain(e)'
                 PROVE  req'[s].at # "number" /\ trip'[u].meta.ref = req'[s].ref
      BY DEF Knows, Pending, Counted, Before, TypeInv, Stage
    <2>1. s # r
      BY <1>4 DEF Pending, Counted, Before
    <2>2. req'[s] = req[s] /\ Pending(s)
      BY <1>4, <2>1 DEF Pending
    <2>3. CASE e = d
      <3>1. ~Pending(r)
        BY <1>3, <2>1, <2>2, <2>3 DEF LimitInv
      <3>2. t \notin Plain(d)'
        BY <1>0, <1>9, <3>1 DEF Pending, Counted, Before
      <3> QED
        BY <1>3, <1>5, <1>6, <1>8, <2>2, <2>3, <3>2 DEF ReferenceInv, Knows
    <2>4. CASE e # d
      BY <1>3, <1>5, <1>7, <1>8, <2>2, <2>4 DEF ReferenceInv, Knows
    <2> QED
      BY <2>3, <2>4
  <1>12. \A e \in Driver : \A u \in Plain(e)' : trip'[u].meta.ref # None
    BY <1>5, <1>6, <1>7, <1>8, <1>9 DEF ReferenceInv
  <1>13. SameReference'
    <2> SUFFICES ASSUME NEW e \in Driver, e \notin hasty, NEW u \in Plain(e)', NEW v \in Plain(e)'
                 PROVE  trip'[u].meta.ref = trip'[v].meta.ref
      BY <1>3 DEF SameReference, Plain
    <2>1. CASE e # d
      BY <1>5, <1>7, <1>8, <2>1 DEF ReferenceInv, SameReference, Plain
    <2>2. CASE e = d /\ t \in Plain(d)'
      <3>1. \A x \in Plain(d)' : trip[x].meta.ref = req[r].ref
        BY <1>2, <1>6, <1>8, <1>9, <2>2
      <3> QED
        BY <1>5, <1>8, <2>2, <3>1
    <2>3. CASE e = d /\ t \notin Plain(d)'
      BY <1>5, <1>6, <1>8, <2>3 DEF ReferenceInv, SameReference, Plain
    <2> QED
      BY <2>1, <2>2, <2>3
  <1> QED
    BY <1>10, <1>11, <1>12, <1>13 DEF ReferenceInv

\* The steps that end, undo or assign.
LEMMA ReferenceEnding ==
    ASSUME AcceptAssumption, TypeInv, TypeInv', MetadataInv, ReferenceInv, NEW r \in Request,
           \/ StartTransportWorkflow(r) \/ RestoreStatus(r) \/ ReadMetadata(r) \/ RestoreMetadata(r)
           \/ Dies(r) \/ UpdateStaffsToTrip(r)
    PROVE  ReferenceInv'
  <1>0. Holds(r) /\ req[r].at # "idle"
    BY DEF StartTransportWorkflow, RestoreStatus, ReadMetadata, RestoreMetadata, Dies, UpdateStaffsToTrip,
           At, Serving, Before, Holds, Holding
  <1> SUFFICES ASSUME NEW t \in Trip, t = req[r].trip PROVE ReferenceInv'
    BY <1>0, AtHand
  <1>1. /\ req[r] \in Job /\ trip[t] \in TripDoc /\ trip[t].meta \in Metadata
        /\ req[r].first \in Metadata /\ req[r].seen \in Metadata /\ req[r].got \in Metadata
        /\ t \notin crossed => InTime(r, req[r], trip[t].meta)
        /\ t \notin crossed \cup odd => OwnRef(req[r], trip[t].meta.ref)
    BY <1>0, ReferenceAtHand
  <1>2. crossed' = crossed /\ hasty' = hasty /\ odd' = odd
    BY DEF StartTransportWorkflow, RestoreStatus, ReadMetadata, RestoreMetadata, Dies, UpdateStaffsToTrip, history
  <1>3. \A s \in Request \ {r} : req'[s] = req[s]
    BY DEF StartTransportWorkflow, RestoreStatus, ReadMetadata, RestoreMetadata, Dies, UpdateStaffsToTrip,
           Goes, TypeInv, TypeOK
  <1>4. ASSUME NEW part, req[r].at = "undo"
        PROVE  /\ Undone(r, part) \in Job /\ Undone(r, part).trip = t
               /\ Undone(r, part).at \in {"undo", "failed"}
               /\ Undone(r, part).at = "undo" => Undone(r, part).first = req[r].first
    <2> DEFINE left == req[r].undo \ {part}
               place == IF left = {} THEN "failed" ELSE "undo"
    <2>1. "undo" \in Serving /\ "failed" \in Serving \cup Ends /\ "undo" \in Serving \cup Ends
      BY DEF Serving, Ends
    <2>2. Undone(r, part) = [Moved(r, place) EXCEPT !.undo = left]
      BY DEF Undone
    <2>3. place \in Serving \cup Ends /\ place \in {"failed", "undo"}
      BY <2>1
    <2> HIDE DEF place, left
    <2>4. Moved(r, place) \in Job /\ Moved(r, place).at = place
      BY <2>3, MovedType DEF TypeInv
    <2>5. Undone(r, part).at = place
      BY <2>2, <2>4 DEF Job
    <2>6. place = "undo" => Undone(r, part).first = req[r].first
      BY <1>1, <2>1, <2>2, <2>4, MovedServing DEF TypeInv, Job
    <2> QED
      BY <1>4, <2>5, <2>6, UndoneType
  <1>5. ASSUME NEW job, req' = [req EXCEPT ![r] = job] PROVE req'[r] = job
    BY <1>5 DEF TypeInv, TypeOK
  \* The request is over, or undoes, with the trip's reference as it was.
  <1>6. ASSUME NEW job, req' = [req EXCEPT ![r] = job], job.trip = t,
               job.at \in {"undo", "failed", "accepted", "assigned", "dead"},
               job.at = "undo" => req[r].at = "undo" /\ job.first = req[r].first,
               NEW doc, trip'[t] = doc, \A u \in Trip \ {t} : trip'[u] = trip[u] /\ by'[u] = by[u],
               t \notin crossed \cup odd => doc.meta.ref = trip[t].meta.ref,
               doc.status = "DOING" => trip[t].status = "DOING" /\ by'[t] \in {by[t], None}
        PROVE  ReferenceInv'
    <2>1. t \notin crossed \cup odd => OwnRef(job, doc.meta.ref)
      BY <1>1, <1>6 DEF OwnRef, Counted, Before, Serving
    <2>2. job.at \notin Counted
      BY <1>6 DEF Counted, Before
    <2>3. req'[r] = job
      BY <1>5, <1>6
    <2> QED
      BY <1>0, <1>2, <1>3, <1>6, <2>1, <2>2, <2>3, ReferenceFrame
  <1>7. CASE StartTransportWorkflow(r)
    <2>1. /\ req' = [req EXCEPT ![r] = Moved(r, "accepted")] /\ trip' = trip /\ by' = by
      BY <1>7 DEF StartTransportWorkflow, Goes, At, history
    <2>2. Moved(r, "accepted").at = "accepted" /\ Moved(r, "accepted").trip = t
      BY MovedType DEF Ends, TypeInv
    <2> QED
      BY <1>6, <2>1, <2>2
  <1>8. CASE Dies(r)
    <2>1. req' = [req EXCEPT ![r] = Moved(r, "dead")] /\ trip' = trip /\ by' = by
      BY <1>8 DEF Dies, history
    <2>2. Moved(r, "dead").at = "dead" /\ Moved(r, "dead").trip = t
      BY MovedType DEF Ends, TypeInv
    <2> QED
      BY <1>6, <2>1, <2>2
  <1>9. CASE UpdateStaffsToTrip(r)
    <2> DEFINE job == [req[r] EXCEPT !.at = "assigned"]
               doc == [trip[t] EXCEPT !.staffs = @ \cup {req[r].driver}]
    <2>1. /\ req' = [req EXCEPT ![r] = job] /\ by' = by
          /\ trip' = [trip EXCEPT ![t].staffs = @ \cup {req[r].driver}]
      BY <1>9 DEF UpdateStaffsToTrip, history
    <2>2. /\ job.at = "assigned" /\ job.trip = t /\ doc.meta = trip[t].meta /\ doc.status = trip[t].status
      BY <1>1 DEF Job, TripDoc
    <2>3. trip'[t] = doc /\ \A u \in Trip \ {t} : trip'[u] = trip[u] /\ by'[u] = by[u]
      BY <1>1, <2>1 DEF TypeInv, TypeOK
    <2> HIDE DEF job, doc
    <2> QED
      BY <1>6, <2>1, <2>2, <2>3
  <1>10. CASE RestoreStatus(r)
    <2> DEFINE doc == [trip[t] EXCEPT !.status = "PENDING", !.todo = "TODO"]
    <2>1. /\ req' = [req EXCEPT ![r] = Undone(r, "status")] /\ req[r].at = "undo"
          /\ trip' = [trip EXCEPT ![t].status = "PENDING", ![t].todo = "TODO"]
          /\ by' = [by EXCEPT ![t] = None]
      BY <1>10 DEF RestoreStatus, At
    <2>2. doc.meta = trip[t].meta /\ doc.status = "PENDING"
      BY <1>1 DEF TripDoc
    <2>3. trip'[t] = doc /\ \A u \in Trip \ {t} : trip'[u] = trip[u] /\ by'[u] = by[u]
      BY <1>1, <2>1 DEF TypeInv, TypeOK
    <2> HIDE DEF doc
    <2> QED
      BY <1>4, <1>6, <2>1, <2>2, <2>3
  <1>11. CASE ReadMetadata(r)
    <2> DEFINE job == [Undone(r, "read") EXCEPT !.got = trip[t].meta]
    <2>1. /\ req' = [req EXCEPT ![r] = job] /\ req[r].at = "undo" /\ trip' = trip /\ by' = by
      BY <1>11 DEF ReadMetadata, At, history
    <2>2. /\ job.at = Undone(r, "read").at /\ job.trip = t
          /\ job.at = "undo" => job.first = req[r].first
      BY <1>4, <2>1 DEF Job
    <2>3. job.at \in {"undo", "failed"}
      BY <1>4, <2>1, <2>2
    <2> HIDE DEF job
    <2> QED
      BY <1>6, <2>1, <2>2, <2>3
  <1>12. CASE RestoreMetadata(r)
    <2> DEFINE first == [req[r].first EXCEPT !.tx = Or(@, "blank")]
               meta == Merge(req[r].got, first)
               doc == [trip[t] EXCEPT !.meta = meta]
    <2>1. /\ req' = [req EXCEPT ![r] = Undone(r, "write")] /\ req[r].at = "undo"
          /\ "write" \in req[r].undo /\ "read" \notin req[r].undo
          /\ trip' = [trip EXCEPT ![t].meta = meta] /\ by' = by
      BY <1>12 DEF RestoreMetadata, WriteMetadata, At, history
    <2>2. first \in Metadata /\ first.ref = req[r].first.ref
      BY <1>1 DEF Metadata, Tx, Or
    <2> HIDE DEF first
    <2>3. /\ req[r].first.ref = None => meta.ref = req[r].got.ref
          /\ req[r].first.ref # None => meta.ref = req[r].first.ref
      BY <1>1, <2>2, MergeNotes
    <2>4. doc.meta = meta /\ doc.status = trip[t].status
      BY <1>1 DEF TripDoc
    <2>5. trip'[t] = doc /\ \A u \in Trip \ {t} : trip'[u] = trip[u] /\ by'[u] = by[u]
      BY <1>1, <2>1 DEF TypeInv, TypeOK
    <2> HIDE DEF meta, doc
    <2>6. t \notin crossed \cup odd => doc.meta.ref = trip[t].meta.ref
      BY <1>1, <2>1, <2>3, <2>4 DEF InTime, OwnRef, Serving
    <2>7. by'[t] = by[t]
      BY <2>1
    <2> QED
      BY <1>4, <1>6, <2>1, <2>4, <2>5, <2>6, <2>7
  <1> QED
    BY <1>7, <1>8, <1>9, <1>10, <1>11, <1>12

LEMMA ReferenceBegin ==
    ASSUME AcceptAssumption, TypeInv, TypeInv', ReferenceInv, NEW r \in Request, NEW d \in Driver, NEW t \in Trip,
           Begin(r, d, t)
    PROVE  ReferenceInv'
  <1> DEFINE job == [Moved(r, "trip") EXCEPT !.driver = d, !.trip = t, !.first = trip[t].meta]
  <1>1. /\ req' = [req EXCEPT ![r] = job] /\ UNCHANGED <<trip, by, hasty, odd>>
        /\ crossed \subseteq crossed'
    BY DEF Begin, Crosses
  <1>2. "trip" \in Serving
    BY DEF Serving, Before
  <1>3. /\ job.at = "trip" /\ job.trip = t /\ job.first = trip[t].meta
    BY <1>2, MovedServing, MovedType DEF TypeInv, Job
  <1> HIDE DEF job
  <1>4. req'[r] = job /\ \A s \in Request \ {r} : req'[s] = req[s]
    BY <1>1 DEF TypeInv, TypeOK
  <1>5. \A e \in Driver : Plain(e)' \subseteq Plain(e)
    BY <1>1 DEF Plain, UnderWay
  <1>6. ASSUME NEW s \in Request PROVE Own(s)' /\ Knows(s)'
    <2>1. CASE s = r
      <3>1. OwnRef(job, trip[t].meta.ref) /\ job.at \notin Counted
        BY <1>3 DEF OwnRef, Counted, Before
      <3> QED
        BY <1>1, <1>3, <1>4, <2>1, <3>1 DEF Own, Knows, Pending
    <2>2. CASE s # r
      <3>1. req'[s] = req[s] /\ (Pending(s) => req[s].driver \in Driver)
        BY <1>4, <2>2 DEF Pending, Counted, Before, TypeInv, Stage
      <3> QED
        BY <1>1, <1>5, <3>1 DEF Own, Knows, Pending, Holds, ReferenceInv
    <2> QED
      BY <2>1, <2>2
  <1>7. SameReference'
    BY <1>1, <1>5 DEF ReferenceInv, SameReference, Plain
  <1> QED
    BY <1>1, <1>5, <1>6, <1>7 DEF ReferenceInv

LEMMA ReferenceStep ==
    ASSUME AcceptAssumption, TypeInv, TypeInv', LimitInv, MetadataInv, ReferenceInv, [Next]_vars
    PROVE  ReferenceInv'
  <1>1. ASSUME NEW r \in Request, Step(r) PROVE ReferenceInv'
    BY <1>1, ReferenceBegin, ReferenceCount, ReferenceServing, ReferenceDoing, ReferenceEnding DEF Step
  <1>2. ASSUME NEW t \in Trip, RemoveStaff(t) \/ EndTrip(t) PROVE ReferenceInv'
    <2>1. \A d \in Driver : UnderWay(d)' \subseteq UnderWay(d)
      BY <1>2 DEF RemoveStaff, EndTrip, UnderWay, TypeInv, TypeOK, TripDoc, AcceptAssumption, history
    <2>2. \A u \in Trip : trip'[u].meta = trip[u].meta
      BY <1>2 DEF RemoveStaff, EndTrip, TypeInv, TypeOK, TripDoc
    <2>3. UNCHANGED <<req, hasty, odd, crossed>>
      BY <1>2 DEF RemoveStaff, EndTrip, history
    <2> QED
      BY <2>1, <2>2, <2>3, ReferenceQuiet
  <1>3. ASSUME NEW n \in Note, UpdateMetadataWorkflow(n) PROVE ReferenceInv'
    <2>1. UNCHANGED <<req, hasty, odd, crossed, by>>
      BY <1>3 DEF UpdateMetadataWorkflow, history
    <2>2. \A u \in Trip : trip'[u].status = trip[u].status
      BY <1>3 DEF UpdateMetadataWorkflow, TypeInv, TypeOK, TripDoc
    <2>3. \A d \in Driver : UnderWay(d)' \subseteq UnderWay(d)
      BY <2>1, <2>2 DEF UnderWay, AcceptAssumption
    <2>4. ASSUME NEW u \in Trip, u \notin crossed PROVE trip'[u].meta.ref = trip[u].meta.ref
      <3>1. CASE u = note[n].trip
        <4>1. trip'[u].meta.ref = note[n].got.ref
          BY <1>3, <3>1 DEF UpdateMetadataWorkflow, TypeInv, TypeOK, TripDoc, NoteDoc, Metadata
        <4>2. note[n].got = trip[u].meta
          BY <1>3, <2>4, <3>1 DEF UpdateMetadataWorkflow, MetadataInv, Noted
        <4> QED
          BY <4>1, <4>2
      <3>2. CASE u # note[n].trip
        BY <1>3, <3>2 DEF UpdateMetadataWorkflow, TypeInv, TypeOK
      <3> QED
        BY <3>1, <3>2
    <2> QED
      BY <2>1, <2>3, <2>4, ReferenceQuiet
  <1>4. ASSUME UNCHANGED <<trip, by, req, hasty, odd>>, crossed \subseteq crossed' PROVE ReferenceInv'
    <2>1. \A d \in Driver : UnderWay(d)' \subseteq UnderWay(d)
      BY <1>4 DEF UnderWay
    <2> QED
      BY <1>4, <2>1, ReferenceQuiet
  <1>5. ASSUME NEW n \in Note, NEW t \in Trip, ReadForNote(n, t) PROVE ReferenceInv'
    BY <1>4, <1>5 DEF ReadForNote, Crosses
  <1>6. ASSUME MonthEnds \/ (\E m \in DOMAIN sequence : Expire(m)) \/ UNCHANGED vars PROVE ReferenceInv'
    BY <1>4, <1>6 DEF MonthEnds, Expire, vars, history
  <1> QED
    BY <1>1, <1>2, <1>3, <1>5, <1>6 DEF Next

LEMMA ReferenceInit == Init /\ AcceptAssumption => ReferenceInv
  <1> SUFFICES ASSUME Init, AcceptAssumption PROVE ReferenceInv
    OBVIOUS
  <1>1. \A r \in Request : ~Holds(r) /\ ~Pending(r)
    BY DEF Init, Holds, Pending, Counted, Holding, Serving, Before
  <1>2. \A d \in Driver : UnderWay(d) = {}
    BY DEF Init, UnderWay, AcceptAssumption
  <1> QED
    BY <1>1, <1>2 DEF ReferenceInv, Own, Knows, Plain, SameReference

\* SameReference for any trips, drivers and requests, any faults.
THEOREM ReferencesAgree == Spec => []SameReference
  <1>1. Init => TypeInv /\ LimitInv /\ MetadataInv /\ ReferenceInv
    BY TypeInit, LimitInit, MetadataInit, ReferenceInit, AcceptAssumption
  <1>2. TypeInv /\ LimitInv /\ MetadataInv /\ ReferenceInv /\ [Next]_vars
            => (TypeInv /\ LimitInv /\ MetadataInv /\ ReferenceInv)'
    BY TypeStep, LimitStep, MetadataStep, ReferenceStep, AcceptAssumption
  <1>3. ReferenceInv => SameReference
    BY DEF ReferenceInv
  <1> QED
    BY <1>1, <1>2, <1>3, PTL DEF Spec
=============================================================================
