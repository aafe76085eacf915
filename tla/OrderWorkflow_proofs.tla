------------------------ MODULE OrderWorkflow_proofs ------------------------
(***************************************************************************)
(* An order is carried out with the trip that holds its tasks and paid     *)
(* after they are done, its driver has one task under way, its trip is     *)
(* DONE with its tasks, and a failure or a cancellation closes it: for any *)
(* number of tasks, tries, cancellations and faults.                       *)
(***************************************************************************)
EXTENDS OrderWorkflow, FiniteSetTheorems, TLAPS

\* What the engine does with an answer keeps the workflow's record in shape.
LEMMA CompletedType ==
    ASSUME wf \in WfRecord, NEW s \in Stages, Completed(s) PROVE wf' \in WfRecord
<1>1. Following[s] \in Stages /\ 1 \in Tries
  BY OrderAssumption DEF Following, Stages, Tries
<1>2. [wf EXCEPT !.status = "COMPLETED"] \in WfRecord /\ [wf EXCEPT !.stage = Following[s], !.try = 1] \in WfRecord
  BY <1>1 DEF WfRecord
<1> QED
  BY <1>2 DEF Completed

LEMMA FailedType ==
    ASSUME wf \in WfRecord, ClosingTypeOK, UNCHANGED cancel, NEW s \in Stages, Failed(s)
    PROVE  wf' \in WfRecord /\ ClosingTypeOK'
<1>1. [wf EXCEPT !.status = "FAILED"] \in WfRecord
  BY DEF WfRecord
<1>2. ~NoTryLeft(s) => [wf EXCEPT !.try = @ + 1] \in WfRecord
  <2> SUFFICES ASSUME ~NoTryLeft(s) PROVE [wf EXCEPT !.try = @ + 1] \in WfRecord
    OBVIOUS
  <2>1. wf.try \in Nat /\ RetryCount[s] \in 0..MaxRetries /\ wf.try + 1 \in Tries
    BY OrderAssumption DEF NoTryLeft, WfRecord, Tries
  <2> QED
    BY <2>1 DEF WfRecord
<1> QED
  BY <1>1, <1>2 DEF Failed, Abandon, ClosingTypeOK

\* How far the order is, the trip and the tasks it goes on with, and who may be
\* at work on them.
PlanInv ==
    /\ wf.stage \in {"MAPPING", "TASKS", "TRIP"} <=> carried = 0
    /\ wf.stage \in {"MAPPING", "TASKS"} <=> gen = 0
    /\ work \in {"created", "bound"} =>
          wf.stage = "TRIP" /\ trip[wf.try].status # "none" /\ trip[wf.try].gen = gen
    /\ work = "bound" => \A l \in legs : task[gen][l].trip = wf.try
    /\ work = "assigning" => wf.stage = "SCHEDULE"
    /\ \A l \in legs : todo[l].pc # "idle" => carried # 0
    /\ CarriedTripHoldsOrderTasks

\* New documents, and updates of documents, keep their shape.
LEMMA NewDocuments == NewTask \in TaskRecord /\ \A g \in Tries \union {0} : NewTrip(g) \in TripRecord
<1>1. OtherRef \in Refs
  BY OrderAssumption DEF OtherRef, Refs, NoRef
<1> QED
  BY <1>1 DEF NewTask, NewTrip, TaskRecord, TripRecord, TripStatus

LEMMA TryIsRef == NoRef \in Refs /\ OtherRef \in Refs /\ 1 \in Refs /\ Tries \subseteq Refs
BY OrderAssumption DEF NoRef, OtherRef, Refs, Tries

LEMMA TaskEdits ==
    /\ \A x \in TaskRecord, s \in TripStatus : [x EXCEPT !.status = s] \in TaskRecord
    /\ \A x \in TaskRecord, t \in Tries : [x EXCEPT !.trip = t] \in TaskRecord
    /\ \A x \in TaskRecord, s \in TripStatus, r \in Refs : [x EXCEPT !.status = s, !.ref = r] \in TaskRecord
<1>1. \A x \in TaskRecord, s \in TripStatus : [x EXCEPT !.status = s] \in TaskRecord
  BY DEF TaskRecord
<1>2. \A x \in TaskRecord, t \in Tries : [x EXCEPT !.trip = t] \in TaskRecord
  BY DEF TaskRecord
<1>3. \A x \in TaskRecord, s \in TripStatus, r \in Refs : [x EXCEPT !.status = s, !.ref = r] \in TaskRecord
  BY DEF TaskRecord
<1> QED
  BY <1>1, <1>2, <1>3

LEMMA TripEdits ==
    /\ \A x \in TripRecord : x.rejects \in Nat
    /\ \A x \in TripRecord, s \in TripStatus : [x EXCEPT !.status = s] \in TripRecord
    /\ \A x \in TripRecord, r \in Refs : [x EXCEPT !.ref = r] \in TripRecord
    /\ \A x \in TripRecord : [x EXCEPT !.status = "FAILED", !.rejects = x.rejects + 1] \in TripRecord
    /\ \A x \in TripRecord, s \in TripStatus, n \in Nat, r \in Refs :
          [x EXCEPT !.status = s, !.rejects = n, !.ref = r] \in TripRecord
<1>1. \A x \in TripRecord : x.rejects \in Nat
  BY DEF TripRecord
<1>2. \A x \in TripRecord, s \in TripStatus : [x EXCEPT !.status = s] \in TripRecord
  BY DEF TripRecord
<1>3. \A x \in TripRecord, r \in Refs : [x EXCEPT !.ref = r] \in TripRecord
  BY DEF TripRecord
<1>4. \A x \in TripRecord : [x EXCEPT !.status = "FAILED", !.rejects = x.rejects + 1] \in TripRecord
  <2> SUFFICES ASSUME NEW x \in TripRecord PROVE [x EXCEPT !.status = "FAILED", !.rejects = x.rejects + 1] \in TripRecord
    OBVIOUS
  <2>1. x.rejects + 1 \in Nat /\ "FAILED" \in TripStatus
    BY <1>1 DEF TripStatus
  <2> QED
    BY <2>1 DEF TripRecord
<1>5. \A x \in TripRecord, s \in TripStatus, n \in Nat, r \in Refs :
        [x EXCEPT !.status = s, !.rejects = n, !.ref = r] \in TripRecord
  BY DEF TripRecord
<1> QED
  BY <1>1, <1>2, <1>3, <1>4, <1>5

LEMMA TodoEdits ==
    /\ Idle \in TodoRecord
    /\ \A k \in Kinds : [Idle EXCEPT !.kind = k, !.pc = "marked"] \in TodoRecord
    /\ \A x \in TodoRecord : x.ref \in Refs /\ x.rejects \in Nat /\ x.kind \in Kinds
    /\ \A x \in TodoRecord, p \in TodoSteps : [x EXCEPT !.pc = p] \in TodoRecord
    /\ \A x \in TodoRecord, p \in TodoSteps, r \in Refs : [x EXCEPT !.ref = r, !.pc = p] \in TodoRecord
    /\ \A x \in TodoRecord, b \in BOOLEAN, n \in Nat :
          [x EXCEPT !.pc = "seen", !.done = b, !.rejects = n] \in TodoRecord
<1>1. Idle \in TodoRecord /\ \A k \in Kinds : [Idle EXCEPT !.kind = k, !.pc = "marked"] \in TodoRecord
  BY TryIsRef DEF TodoRecord, TodoSteps, Idle, Kinds
<1>2. \A x \in TodoRecord : x.ref \in Refs /\ x.rejects \in Nat /\ x.kind \in Kinds
  BY DEF TodoRecord
<1>3. \A x \in TodoRecord, p \in TodoSteps : [x EXCEPT !.pc = p] \in TodoRecord
  BY DEF TodoRecord
<1>4. \A x \in TodoRecord, p \in TodoSteps, r \in Refs : [x EXCEPT !.ref = r, !.pc = p] \in TodoRecord
  BY DEF TodoRecord
<1>5. \A x \in TodoRecord, b \in BOOLEAN, n \in Nat :
        [x EXCEPT !.pc = "seen", !.done = b, !.rejects = n] \in TodoRecord
  BY DEF TodoRecord, TodoSteps
<1> QED
  BY <1>1, <1>2, <1>3, <1>4, <1>5

LEMMA CreatesType ==
    ASSUME EngineTypeOK, DocumentTypeOK, UNCHANGED trip, NEW made \in SUBSET legs, Creates(made)
    PROVE  DocumentTypeOK'
BY NewDocuments DEF Creates, EngineTypeOK, DocumentTypeOK, WfRecord

LEMMA NoteSummaryType == DocumentTypeOK /\ NoteSummary /\ UNCHANGED task => DocumentTypeOK'
<1>1. OtherRef \in Refs
  BY OrderAssumption DEF OtherRef, Refs, NoRef
<1> QED
  BY <1>1 DEF NoteSummary, DocumentTypeOK, TripRecord

LEMMA CloseTasksType ==
    ASSUME DocumentTypeOK, UNCHANGED trip, NEW t, NEW status \in TripStatus, CloseTasks(t, status)
    PROVE  DocumentTypeOK'
BY TaskEdits DEF CloseTasks, DocumentTypeOK

LEMMA OrderTypeInit == Init => OrderTypeOK
<1> SUFFICES ASSUME Init PROVE OrderTypeOK
  OBVIOUS
<1>1. 1 \in Tries /\ 0 \in Refs /\ NoRef \in Refs
  BY OrderAssumption DEF Tries, Refs, NoRef
<1>2. EngineTypeOK
  BY <1>1 DEF Init, EngineTypeOK, WfRecord, Stages
<1>3. DocumentTypeOK
  BY <1>1 DEF Init, DocumentTypeOK, TaskRecord, TripRecord, TripStatus, NewTask, NewTrip, OtherRef
<1>4. DriverTypeOK
  BY <1>1 DEF Init, DriverTypeOK, TodoRecord, TodoSteps, Kinds, Idle
<1>5. ClosingTypeOK
  BY <1>1 DEF Init, ClosingTypeOK, CancelRecord
<1>6. CountTypeOK
  <2>1. legs \in (SUBSET Legs) \ {{}} /\ taxi \in BOOLEAN /\ tracked \in SUBSET Kinds /\ overlap \in BOOLEAN /\ raced \in BOOLEAN
    BY OrderAssumption, Zenon DEF Init
  <2>2. faults \in 0..MaxFaults
    BY OrderAssumption DEF Init
  <2> QED
    BY <2>1, <2>2 DEF CountTypeOK
<1> QED
  BY <1>2, <1>3, <1>4, <1>5, <1>6 DEF OrderTypeOK

LEMMA OrderTypeStep == OrderTypeOK /\ PlanInv /\ [Next]_vars => OrderTypeOK'
<1> SUFFICES ASSUME OrderTypeOK, PlanInv, [Next]_vars PROVE OrderTypeOK'
  OBVIOUS
<1>00. EngineTypeOK /\ DocumentTypeOK /\ DriverTypeOK /\ ClosingTypeOK /\ CountTypeOK
  BY DEF OrderTypeOK
<1>01. \A l \in legs : todo[l].pc # "idle" => carried # 0
  BY DEF PlanInv
<1>0. legs \subseteq Legs
  BY <1>00 DEF CountTypeOK
<1>1. CASE MapOrder
  <2>1. EngineTypeOK'
    BY <1>00, <1>1, CompletedType DEF MapOrder, EngineTypeOK, Stages
  <2>2. DocumentTypeOK' /\ DriverTypeOK' /\ ClosingTypeOK' /\ CountTypeOK'
    BY <1>00, <1>1 DEF MapOrder, documents, driver, closing, order, history, DocumentTypeOK, DriverTypeOK, ClosingTypeOK, CountTypeOK
  <2> QED
    BY <2>1, <2>2 DEF OrderTypeOK
<1>2. CASE MapOrderFails
  <2>1. EngineTypeOK' /\ ClosingTypeOK'
    BY <1>00, <1>2, FailedType DEF MapOrderFails, EngineTypeOK, Stages, closing
  <2>2. CountTypeOK'
    BY <1>00, <1>2, OrderAssumption DEF MapOrderFails, CountTypeOK, Fault, order, history
  <2>3. DocumentTypeOK' /\ DriverTypeOK'
    BY <1>00, <1>2 DEF MapOrderFails, documents, driver, DocumentTypeOK, DriverTypeOK
  <2> QED
    BY <2>1, <2>2, <2>3 DEF OrderTypeOK
<1>3. CASE CreateTasks
  <2>1. EngineTypeOK'
    BY <1>00, <1>3, CompletedType DEF CreateTasks, EngineTypeOK, Stages, Stage, WfRecord, Tries
  <2>2. DocumentTypeOK'
    BY <1>00, <1>3, CreatesType DEF CreateTasks
  <2>3. DriverTypeOK' /\ ClosingTypeOK' /\ CountTypeOK'
    BY <1>00, <1>3 DEF CreateTasks, driver, closing, order, history, DriverTypeOK, ClosingTypeOK, CountTypeOK
  <2> QED
    BY <2>1, <2>2, <2>3 DEF OrderTypeOK
<1>4. CASE CreateTasksFails
  <2>1. EngineTypeOK' /\ ClosingTypeOK'
    BY <1>00, <1>4, FailedType DEF CreateTasksFails, EngineTypeOK, Stages, closing
  <2>2. CountTypeOK'
    BY <1>00, <1>4, OrderAssumption DEF CreateTasksFails, CountTypeOK, Fault, order, history
  <2>3. DocumentTypeOK'
    BY <1>00, <1>4, CreatesType DEF CreateTasksFails
  <2>4. DriverTypeOK'
    BY <1>00, <1>4 DEF CreateTasksFails, driver, DriverTypeOK
  <2> QED
    BY <2>1, <2>2, <2>3, <2>4 DEF OrderTypeOK
<1>5. CASE CreateTrip
  <2>1. EngineTypeOK'
    BY <1>00, <1>5 DEF CreateTrip, EngineTypeOK
  <2>2. DocumentTypeOK'
    BY <1>00, <1>5, NewDocuments DEF CreateTrip, EngineTypeOK, DocumentTypeOK
  <2>3. DriverTypeOK' /\ ClosingTypeOK' /\ CountTypeOK'
    BY <1>00, <1>5 DEF CreateTrip, driver, closing, order, history, DriverTypeOK, ClosingTypeOK, CountTypeOK
  <2> QED
    BY <2>1, <2>2, <2>3 DEF OrderTypeOK
<1>6. CASE CreateTripThrows
  <2>1. EngineTypeOK' /\ ClosingTypeOK'
    BY <1>00, <1>6, FailedType DEF CreateTripThrows, EngineTypeOK, Stages, closing
  <2>2. DocumentTypeOK' /\ DriverTypeOK' /\ CountTypeOK'
    BY <1>00, <1>6 DEF CreateTripThrows, documents, driver, order, history, DocumentTypeOK, DriverTypeOK, CountTypeOK
  <2> QED
    BY <2>1, <2>2 DEF OrderTypeOK
<1>7. CASE BindTasks
  <2>1. EngineTypeOK'
    BY <1>00, <1>7 DEF BindTasks, EngineTypeOK
  <2>2. DocumentTypeOK'
    BY <1>00, <1>7, TaskEdits DEF BindTasks, DocumentTypeOK, EngineTypeOK, WfRecord
  <2>3. DriverTypeOK' /\ ClosingTypeOK' /\ CountTypeOK'
    BY <1>00, <1>7 DEF BindTasks, driver, closing, order, history, DriverTypeOK, ClosingTypeOK, CountTypeOK
  <2> QED
    BY <2>1, <2>2, <2>3 DEF OrderTypeOK
<1>8. CASE TripCreated
  <2>1. EngineTypeOK'
    BY <1>00, <1>8, CompletedType DEF TripCreated, EngineTypeOK, Stages, WfRecord
  <2>2. DocumentTypeOK' /\ DriverTypeOK' /\ ClosingTypeOK' /\ CountTypeOK'
    BY <1>00, <1>8 DEF TripCreated, documents, driver, closing, order, history, DocumentTypeOK, DriverTypeOK, ClosingTypeOK, CountTypeOK
  <2> QED
    BY <2>1, <2>2 DEF OrderTypeOK
<1>9. CASE CreateTripFails
  <2>1. EngineTypeOK' /\ ClosingTypeOK'
    BY <1>00, <1>9, FailedType DEF CreateTripFails, EngineTypeOK, Stages, closing
  <2>2. CountTypeOK'
    BY <1>00, <1>9, OrderAssumption DEF CreateTripFails, CountTypeOK, Fault, order, history
  <2>3. DocumentTypeOK' /\ DriverTypeOK'
    BY <1>00, <1>9 DEF CreateTripFails, documents, driver, DocumentTypeOK, DriverTypeOK
  <2> QED
    BY <2>1, <2>2, <2>3 DEF OrderTypeOK
<1>10. CASE WorkerDies
  <2>1. EngineTypeOK'
    BY <1>00, <1>10 DEF WorkerDies, EngineTypeOK, WfRecord, Abandon
  <2>2. ClosingTypeOK'
    BY <1>00, <1>10 DEF WorkerDies, ClosingTypeOK, Abandon
  <2>3. CountTypeOK'
    BY <1>00, <1>10, OrderAssumption DEF WorkerDies, CountTypeOK, Fault, order, history
  <2>4. DocumentTypeOK' /\ DriverTypeOK'
    BY <1>00, <1>10 DEF WorkerDies, documents, driver, DocumentTypeOK, DriverTypeOK
  <2> QED
    BY <2>1, <2>2, <2>3, <2>4 DEF OrderTypeOK
<1>11. CASE FindDriver
  <2>1. EngineTypeOK'
    BY <1>00, <1>11, CompletedType DEF FindDriver, EngineTypeOK, Stages
  <2>2. DocumentTypeOK' /\ DriverTypeOK' /\ ClosingTypeOK' /\ CountTypeOK'
    BY <1>00, <1>11 DEF FindDriver, documents, driver, closing, order, history, DocumentTypeOK, DriverTypeOK, ClosingTypeOK, CountTypeOK
  <2> QED
    BY <2>1, <2>2 DEF OrderTypeOK
<1>12. CASE FindDriverFails
  <2>1. EngineTypeOK' /\ ClosingTypeOK'
    BY <1>00, <1>12, FailedType DEF FindDriverFails, EngineTypeOK, Stages, closing
  <2>2. DocumentTypeOK' /\ DriverTypeOK' /\ CountTypeOK'
    BY <1>00, <1>12 DEF FindDriverFails, documents, driver, order, history, DocumentTypeOK, DriverTypeOK, CountTypeOK
  <2> QED
    BY <2>1, <2>2 DEF OrderTypeOK
<1>13. CASE Schedule
  <2>1. EngineTypeOK'
    BY <1>00, <1>13 DEF Schedule, EngineTypeOK
  <2>2. CountTypeOK'
    BY <1>00, <1>13 DEF Schedule, CountTypeOK, CancelBegun, order
  <2>3. DocumentTypeOK' /\ DriverTypeOK' /\ ClosingTypeOK'
    BY <1>00, <1>13 DEF Schedule, documents, driver, closing, DocumentTypeOK, DriverTypeOK, ClosingTypeOK
  <2> QED
    BY <2>1, <2>2, <2>3 DEF OrderTypeOK
<1>14. CASE UpdateStaffsToTrip
  <2>1. EngineTypeOK'
    BY <1>00, <1>14, CompletedType DEF UpdateStaffsToTrip, EngineTypeOK, Stages
  <2>2. DocumentTypeOK'
    BY <1>00, <1>14, TripEdits DEF UpdateStaffsToTrip, DocumentTypeOK, TripStatus
  <2>3. DriverTypeOK' /\ ClosingTypeOK' /\ CountTypeOK'
    BY <1>00, <1>14 DEF UpdateStaffsToTrip, driver, closing, order, history, DriverTypeOK, ClosingTypeOK, CountTypeOK
  <2> QED
    BY <2>1, <2>2, <2>3 DEF OrderTypeOK
<1>15. CASE ScheduleFails
  <2>1. EngineTypeOK' /\ ClosingTypeOK'
    BY <1>00, <1>15, FailedType DEF ScheduleFails, EngineTypeOK, Stages, closing
  <2>2. CountTypeOK'
    BY <1>00, <1>15, OrderAssumption DEF ScheduleFails, CountTypeOK, Fault, order, history
  <2>3. DocumentTypeOK' /\ DriverTypeOK'
    BY <1>00, <1>15 DEF ScheduleFails, documents, driver, DocumentTypeOK, DriverTypeOK
  <2> QED
    BY <2>1, <2>2, <2>3 DEF OrderTypeOK
<1>16. CASE PollTransport
  <2>1. EngineTypeOK'
    BY <1>00, <1>16 DEF PollTransport, EngineTypeOK
  <2>2. DocumentTypeOK'
    BY <1>00, <1>16, TripEdits, TryIsRef DEF PollTransport, DocumentTypeOK, EngineTypeOK, WfRecord
  <2>3. DriverTypeOK' /\ ClosingTypeOK' /\ CountTypeOK'
    BY <1>00, <1>16 DEF PollTransport, driver, closing, order, history, DriverTypeOK, ClosingTypeOK, CountTypeOK
  <2> QED
    BY <2>1, <2>2, <2>3 DEF OrderTypeOK
<1>17. CASE ReportTransport
  <2>1. EngineTypeOK'
    BY <1>00, <1>17 DEF ReportTransport, EngineTypeOK
  <2>2. DocumentTypeOK' /\ DriverTypeOK' /\ ClosingTypeOK' /\ CountTypeOK'
    BY <1>00, <1>17 DEF ReportTransport, documents, driver, closing, order, history, DocumentTypeOK, DriverTypeOK, ClosingTypeOK, CountTypeOK
  <2> QED
    BY <2>1, <2>2 DEF OrderTypeOK
<1>18. CASE TransportFails
  <2>1. EngineTypeOK' /\ ClosingTypeOK'
    BY <1>00, <1>18, FailedType DEF TransportFails, EngineTypeOK, Stages, closing
  <2>2. CountTypeOK'
    BY <1>00, <1>18, OrderAssumption DEF TransportFails, CountTypeOK, Fault, order, history
  <2>3. DocumentTypeOK' /\ DriverTypeOK'
    BY <1>00, <1>18 DEF TransportFails, documents, driver, DocumentTypeOK, DriverTypeOK
  <2> QED
    BY <2>1, <2>2, <2>3 DEF OrderTypeOK
<1>19. CASE SumUp
  <2>1. EngineTypeOK'
    BY <1>00, <1>19, CompletedType DEF SumUp, EngineTypeOK, Stages
  <2>2. DocumentTypeOK'
    BY <1>00, <1>19, NoteSummaryType DEF SumUp
  <2>3. DriverTypeOK' /\ ClosingTypeOK' /\ CountTypeOK'
    BY <1>00, <1>19 DEF SumUp, driver, closing, order, history, DriverTypeOK, ClosingTypeOK, CountTypeOK
  <2> QED
    BY <2>1, <2>2, <2>3 DEF OrderTypeOK
<1>20. CASE SumUpFails
  <2>1. EngineTypeOK' /\ ClosingTypeOK'
    BY <1>00, <1>20, FailedType DEF SumUpFails, EngineTypeOK, Stages, closing
  <2>2. CountTypeOK'
    BY <1>00, <1>20, OrderAssumption DEF SumUpFails, CountTypeOK, Fault, order, history
  <2>3. DocumentTypeOK'
    BY <1>00, <1>20, NoteSummaryType DEF SumUpFails, DocumentTypeOK
  <2>4. DriverTypeOK'
    BY <1>00, <1>20 DEF SumUpFails, driver, DriverTypeOK
  <2> QED
    BY <2>1, <2>2, <2>3, <2>4 DEF OrderTypeOK
<1>21. CASE FailTrip
  <2>1. ClosingTypeOK'
    BY <1>00, <1>21 DEF FailTrip, ClosingTypeOK
  <2>2. DocumentTypeOK'
    <3>1. \A t \in Tries : [trip[t] EXCEPT !.status = "FAILED"] \in TripRecord
      BY <1>00, TripEdits DEF DocumentTypeOK, TripStatus
    <3>2. trip' = trip \/ trip' = [trip EXCEPT ![carried].status = "FAILED"]
      BY <1>21 DEF FailTrip
    <3> QED
      BY <1>00, <1>21, <3>1, <3>2 DEF FailTrip, DocumentTypeOK
  <2>3. CountTypeOK'
    BY <1>00, <1>21 DEF FailTrip, CountTypeOK, order
  <2>4. EngineTypeOK' /\ DriverTypeOK'
    BY <1>00, <1>21 DEF FailTrip, engine, driver, EngineTypeOK, DriverTypeOK
  <2> QED
    BY <2>1, <2>2, <2>3, <2>4 DEF OrderTypeOK
<1>22. CASE FailTasks
  <2>1. ClosingTypeOK'
    BY <1>00, <1>22 DEF FailTasks, ClosingTypeOK
  <2>2. DocumentTypeOK'
    BY <1>00, <1>22, CloseTasksType DEF FailTasks, TripStatus
  <2>3. EngineTypeOK' /\ DriverTypeOK' /\ CountTypeOK'
    BY <1>00, <1>22 DEF FailTasks, engine, driver, order, history, EngineTypeOK, DriverTypeOK, CountTypeOK
  <2> QED
    BY <2>1, <2>2, <2>3 DEF OrderTypeOK
<1>23. CASE FailureFlowFails
  <2>1. ClosingTypeOK'
    BY <1>00, <1>23 DEF FailureFlowFails, ClosingTypeOK
  <2>2. CountTypeOK'
    BY <1>00, <1>23, OrderAssumption DEF FailureFlowFails, CountTypeOK, Fault, order, history
  <2>3. EngineTypeOK' /\ DocumentTypeOK' /\ DriverTypeOK'
    BY <1>00, <1>23 DEF FailureFlowFails, engine, documents, driver, EngineTypeOK, DocumentTypeOK, DriverTypeOK
  <2> QED
    BY <2>1, <2>2, <2>3 DEF OrderTypeOK
<1>24. ASSUME NEW l \in legs, Track(l) PROVE OrderTypeOK'
  <2>1. EngineTypeOK'
    BY <1>00, <1>24 DEF Track, EngineTypeOK, Requeue
  <2>2. DriverTypeOK'
    BY <1>00, <1>0, <1>24, TodoEdits, TryIsRef DEF Track, DriverTypeOK, TodoSteps
  <2>3. DocumentTypeOK' /\ ClosingTypeOK' /\ CountTypeOK'
    BY <1>00, <1>24 DEF Track, documents, closing, order, history, DocumentTypeOK, ClosingTypeOK, CountTypeOK
  <2> QED
    BY <2>1, <2>2, <2>3 DEF OrderTypeOK
<1>25. ASSUME NEW l \in legs, CheckStart(l) PROVE OrderTypeOK'
  <2>1. DriverTypeOK'
    BY <1>00, <1>0, <1>25, TodoEdits DEF CheckStart, DriverTypeOK, Goto, TodoSteps
  <2>2. EngineTypeOK' /\ DocumentTypeOK' /\ ClosingTypeOK' /\ CountTypeOK'
    BY <1>00, <1>25 DEF CheckStart, engine, documents, closing, order, history, EngineTypeOK, DocumentTypeOK, ClosingTypeOK, CountTypeOK
  <2> QED
    BY <2>1, <2>2 DEF OrderTypeOK
<1>26. ASSUME NEW l \in legs, SaveTask(l) PROVE OrderTypeOK'
  <2>1. DriverTypeOK'
    BY <1>00, <1>0, <1>26, TodoEdits DEF SaveTask, DriverTypeOK, Goto, TodoSteps
  <2>2. DocumentTypeOK'
    BY <1>00, <1>0, <1>26, TaskEdits, TodoEdits DEF SaveTask, DocumentTypeOK, TripStatus, DriverTypeOK
  <2>3. EngineTypeOK' /\ ClosingTypeOK' /\ CountTypeOK'
    BY <1>00, <1>26 DEF SaveTask, engine, closing, order, history, EngineTypeOK, ClosingTypeOK, CountTypeOK
  <2> QED
    BY <2>1, <2>2, <2>3 DEF OrderTypeOK
<1>27. ASSUME NEW l \in legs, TellTask(l) PROVE OrderTypeOK'
  <2>1. DriverTypeOK'
    BY <1>00, <1>0, <1>27, TodoEdits DEF TellTask, DriverTypeOK, Goto, TodoSteps
  <2>2. EngineTypeOK'
    BY <1>00, <1>27, CompletedType DEF TellTask, EngineTypeOK, Requeue, Complete, Stages
  <2>3. DocumentTypeOK' /\ ClosingTypeOK' /\ CountTypeOK'
    BY <1>00, <1>27 DEF TellTask, documents, closing, order, history, DocumentTypeOK, ClosingTypeOK, CountTypeOK
  <2> QED
    BY <2>1, <2>2, <2>3 DEF OrderTypeOK
<1>28. ASSUME NEW l \in legs, ReadTrip(l) PROVE OrderTypeOK'
  <2>1. DriverTypeOK'
    BY <1>00, <1>0, <1>01, <1>28, TodoEdits, TripEdits DEF ReadTrip, DriverTypeOK, DocumentTypeOK, EngineTypeOK, At
  <2>2. EngineTypeOK' /\ DocumentTypeOK' /\ ClosingTypeOK' /\ CountTypeOK'
    BY <1>00, <1>28 DEF ReadTrip, engine, documents, closing, order, history, EngineTypeOK, DocumentTypeOK, ClosingTypeOK, CountTypeOK
  <2> QED
    BY <2>1, <2>2 DEF OrderTypeOK
<1>29. ASSUME NEW l \in legs, WriteTrip(l) PROVE OrderTypeOK'
  <2>1. DriverTypeOK'
    BY <1>00, <1>0, <1>29, TodoEdits DEF WriteTrip, DriverTypeOK, Goto, TodoSteps
  <2>2. DocumentTypeOK'
    BY <1>00, <1>0, <1>29, TripEdits, TodoEdits DEF WriteTrip, DocumentTypeOK, TripStatus, DriverTypeOK
  <2>3. EngineTypeOK' /\ ClosingTypeOK' /\ CountTypeOK'
    BY <1>00, <1>29 DEF WriteTrip, engine, closing, order, history, EngineTypeOK, ClosingTypeOK, CountTypeOK
  <2> QED
    BY <2>1, <2>2, <2>3 DEF OrderTypeOK
<1>30. ASSUME NEW l \in legs, TellTrip(l) PROVE OrderTypeOK'
  <2>1. DriverTypeOK'
    BY <1>00, <1>0, <1>30, TodoEdits DEF TellTrip, DriverTypeOK
  <2>2. EngineTypeOK'
    BY <1>00, <1>30, CompletedType DEF TellTrip, EngineTypeOK, Complete, Stages
  <2>3. DocumentTypeOK' /\ ClosingTypeOK' /\ CountTypeOK'
    BY <1>00, <1>30 DEF TellTrip, documents, closing, order, history, DocumentTypeOK, ClosingTypeOK, CountTypeOK
  <2> QED
    BY <2>1, <2>2, <2>3 DEF OrderTypeOK
<1>31. ASSUME NEW l \in legs, TodoFails(l) PROVE OrderTypeOK'
  <2>1. DriverTypeOK'
    BY <1>00, <1>0, <1>31, TodoEdits DEF TodoFails, DriverTypeOK
  <2>2. CountTypeOK'
    BY <1>00, <1>31, OrderAssumption DEF TodoFails, CountTypeOK, Fault, order, history
  <2>3. EngineTypeOK' /\ DocumentTypeOK' /\ ClosingTypeOK'
    BY <1>00, <1>31 DEF TodoFails, engine, documents, closing, EngineTypeOK, DocumentTypeOK, ClosingTypeOK
  <2> QED
    BY <2>1, <2>2, <2>3 DEF OrderTypeOK
<1>32. ASSUME NEW c \in Cancels, RejectTrip(c) PROVE OrderTypeOK'
  <2>1. ClosingTypeOK'
    BY <1>00, <1>32 DEF RejectTrip, ClosingTypeOK, CancelRecord
  <2>2. DocumentTypeOK'
    <3> DEFINE t == cancel[c].trip
               new == [trip[t] EXCEPT !.status = "FAILED", !.rejects = trip[t].rejects + 1]
    <3>1. t \in Tries => new \in TripRecord
      BY <1>00, TripEdits DEF DocumentTypeOK
    <3>2. trip' = [trip EXCEPT ![t] = new] /\ task' = task
      BY <1>32 DEF RejectTrip
    <3> HIDE DEF new, t
    <3> QED
      BY <1>00, <3>1, <3>2 DEF DocumentTypeOK
  <2>3. EngineTypeOK' /\ DriverTypeOK' /\ CountTypeOK'
    BY <1>00, <1>32 DEF RejectTrip, engine, driver, order, history, EngineTypeOK, DriverTypeOK, CountTypeOK
  <2> QED
    BY <2>1, <2>2, <2>3 DEF OrderTypeOK
<1>33. ASSUME NEW c \in Cancels, CancelTasks(c) PROVE OrderTypeOK'
  <2>1. ClosingTypeOK'
    BY <1>00, <1>33 DEF CancelTasks, ClosingTypeOK, CancelRecord
  <2>2. DocumentTypeOK'
    BY <1>00, <1>33, CloseTasksType DEF CancelTasks, TripStatus, StatusOf, ClosingTypeOK, CancelRecord
  <2>3. EngineTypeOK' /\ DriverTypeOK' /\ CountTypeOK'
    BY <1>00, <1>33 DEF CancelTasks, engine, driver, order, history, EngineTypeOK, DriverTypeOK, CountTypeOK
  <2> QED
    BY <2>1, <2>2, <2>3 DEF OrderTypeOK
<1>34. ASSUME NEW c \in Cancels, TerminateWorkflow(c) PROVE OrderTypeOK'
  <2>1. ClosingTypeOK'
    BY <1>00, <1>34 DEF TerminateWorkflow, ClosingTypeOK, CancelRecord
  <2>2. EngineTypeOK'
    BY <1>00, <1>34 DEF TerminateWorkflow, EngineTypeOK, WfRecord
  <2>3. DocumentTypeOK' /\ DriverTypeOK' /\ CountTypeOK'
    BY <1>00, <1>34 DEF TerminateWorkflow, documents, driver, order, history, DocumentTypeOK, DriverTypeOK, CountTypeOK
  <2> QED
    BY <2>1, <2>2, <2>3 DEF OrderTypeOK
<1>35. ASSUME NEW c \in Cancels, CancelFails(c) PROVE OrderTypeOK'
  <2>1. ClosingTypeOK'
    BY <1>00, <1>35 DEF CancelFails, ClosingTypeOK, CancelRecord
  <2>2. CountTypeOK'
    BY <1>00, <1>35, OrderAssumption DEF CancelFails, CountTypeOK, Fault, order, history
  <2>3. EngineTypeOK' /\ DocumentTypeOK' /\ DriverTypeOK'
    BY <1>00, <1>35 DEF CancelFails, engine, documents, driver, EngineTypeOK, DocumentTypeOK, DriverTypeOK
  <2> QED
    BY <2>1, <2>2, <2>3 DEF OrderTypeOK
<1>36. ASSUME NEW l \in legs, NEW k \in Kinds, BeginTodo(l, k) PROVE OrderTypeOK'
  <2>1. DriverTypeOK'
    BY <1>00, <1>0, <1>36, TodoEdits DEF BeginTodo, DriverTypeOK
  <2>2. CountTypeOK'
    <3>1. faults' \in 0..MaxFaults
      BY <1>00, <1>36, OrderAssumption DEF BeginTodo, CountTypeOK, Fault
    <3>2. overlap' \in BOOLEAN /\ raced' \in BOOLEAN
      BY <1>00, <1>36, Zenon DEF BeginTodo, CountTypeOK
    <3> QED
      BY <1>00, <1>36, <3>1, <3>2 DEF BeginTodo, CountTypeOK, order
  <2>3. EngineTypeOK' /\ DocumentTypeOK' /\ ClosingTypeOK'
    BY <1>00, <1>36 DEF BeginTodo, engine, documents, closing, EngineTypeOK, DocumentTypeOK, ClosingTypeOK
  <2> QED
    BY <2>1, <2>2, <2>3 DEF OrderTypeOK
<1>37. ASSUME NEW c \in Cancels, NEW role \in {"DRIVER", "PASSENGER"}, NEW t \in Tries, MarkTrip(c, role, t) PROVE OrderTypeOK'
  <2>1. ClosingTypeOK'
    BY <1>00, <1>37 DEF MarkTrip, ClosingTypeOK, CancelRecord
  <2>2. DocumentTypeOK'
    <3>1. StatusOf[role] \in TripStatus
      BY <1>37 DEF StatusOf, TripStatus
    <3>2. [trip[t] EXCEPT !.status = StatusOf[role]] \in TripRecord
      BY <1>00, <3>1, TripEdits DEF DocumentTypeOK
    <3>3. trip' = trip \/ trip' = [trip EXCEPT ![t] = [trip[t] EXCEPT !.status = StatusOf[role]]]
      BY <1>37 DEF MarkTrip
    <3> QED
      BY <1>00, <1>37, <3>2, <3>3 DEF MarkTrip, DocumentTypeOK
  <2>3. CountTypeOK'
    BY <1>00, <1>37 DEF MarkTrip, CountTypeOK, order
  <2>4. EngineTypeOK' /\ DriverTypeOK'
    BY <1>00, <1>37 DEF MarkTrip, engine, driver, EngineTypeOK, DriverTypeOK
  <2> QED
    BY <2>1, <2>2, <2>3, <2>4 DEF OrderTypeOK
<1>38. CASE UNCHANGED vars
  BY <1>00, <1>38 DEF vars, engine, documents, driver, closing, order, history, EngineTypeOK, DocumentTypeOK, DriverTypeOK, ClosingTypeOK, CountTypeOK, OrderTypeOK
<1> QED
  BY <1>00, <1>1, <1>2, <1>3, <1>4, <1>5, <1>6, <1>7, <1>8, <1>9, <1>10, <1>11, <1>12, <1>13, <1>14, <1>15, <1>16, <1>17, <1>18, <1>19, <1>20, <1>21, <1>22, <1>23, <1>24, <1>25, <1>26, <1>27, <1>28, <1>29, <1>30, <1>31, <1>32, <1>33, <1>34, <1>35, <1>36, <1>37, <1>38 DEF Next, WorkerStep, FaultStep, TodoStep, CancelStep

LEMMA PlanInit == Init => PlanInv
BY DEF Init, PlanInv, CarriedTripHoldsOrderTasks, Idle

LEMMA PlanStep == OrderTypeOK /\ PlanInv /\ [Next]_vars => PlanInv'
<1> SUFFICES ASSUME OrderTypeOK, PlanInv, [Next]_vars PROVE PlanInv'
  OBVIOUS
<1>00. EngineTypeOK /\ DocumentTypeOK /\ DriverTypeOK /\ ClosingTypeOK /\ CountTypeOK
  BY DEF OrderTypeOK
<1>0. legs \subseteq Legs
  BY <1>00 DEF CountTypeOK
<1> USE DEF EngineTypeOK, WfRecord, PlanInv, CarriedTripHoldsOrderTasks, MyTask, Stage, Running, order, engine, documents, driver, closing
<1>1. CASE MapOrder
  BY <1>00, <1>0, <1>1 DEF MapOrder, Completed, Following
<1>2. CASE MapOrderFails
  BY <1>00, <1>0, <1>2 DEF MapOrderFails, Failed, Abandon, Fault, NoTryLeft
<1>3. CASE CreateTasks
  <2>1. carried = 0 /\ wf.stage = "TASKS" /\ work = "idle"
    BY <1>00, <1>3 DEF CreateTasks
  <2>2. wf'.stage = "TRIP" /\ gen' # 0
    BY <1>00, <1>3, OrderAssumption DEF CreateTasks, Completed, Following, Stages, Tries
  <2> QED
    BY <1>00, <1>3, <2>1, <2>2 DEF CreateTasks
<1>4. CASE CreateTasksFails
  BY <1>00, <1>0, <1>4 DEF CreateTasksFails, Failed, Abandon, Fault, NoTryLeft, Creates, NewTask
<1>5. CASE CreateTrip
  <2>1. trip'[wf.try] = NewTrip(gen)
    BY <1>00, <1>5 DEF CreateTrip, DocumentTypeOK
  <2>2. carried = 0
    BY <1>5 DEF CreateTrip
  <2> QED
    BY <1>00, <1>5, <2>1, <2>2 DEF CreateTrip, NewTrip
<1>6. CASE CreateTripThrows
  BY <1>00, <1>0, <1>6 DEF CreateTripThrows, Failed, Abandon, NoTryLeft
<1>7. CASE BindTasks
  <2>1. gen \in Tries /\ carried = 0 /\ wf.stage = "TRIP"
    BY <1>00, <1>7 DEF BindTasks
  <2>2. \A l \in legs : task'[gen][l] = [task[gen][l] EXCEPT !.trip = wf.try]
    BY <1>00, <1>0, <1>7, <2>1 DEF BindTasks, DocumentTypeOK
  <2>3. \A l \in legs : task'[gen][l].trip = wf.try
    <3> SUFFICES ASSUME NEW l \in legs PROVE task'[gen][l].trip = wf.try
      OBVIOUS
    <3> DEFINE old == task[gen][l]
    <3>1. old \in TaskRecord
      BY <1>00, <1>0, <2>1 DEF DocumentTypeOK
    <3>2. task'[gen][l] = [old EXCEPT !.trip = wf.try]
      BY <2>2
    <3> HIDE DEF old
    <3>3. [old EXCEPT !.trip = wf.try].trip = wf.try
      BY <3>1 DEF TaskRecord
    <3> QED
      BY <3>2, <3>3
  <2> QED
    BY <1>00, <1>7, <2>1, <2>3 DEF BindTasks
<1>8. CASE TripCreated
  <2>1. carried = 0 /\ gen # 0 /\ wf.stage = "TRIP" /\ wf.try # 0 /\ wf.try \in Tries
    BY <1>00, <1>8, OrderAssumption DEF TripCreated, Tries
  <2>2. CASE Running
    <3>1. wf'.stage = "FIND" /\ carried' = wf.try
      BY <1>00, <1>8, <2>1, <2>2 DEF TripCreated, Completed, Following, Stages
    <3> QED
      BY <1>00, <1>8, <2>1, <3>1 DEF TripCreated
  <2>3. CASE ~Running
    BY <1>8, <2>1, <2>3 DEF TripCreated, Completed
  <2> QED
    BY <2>2, <2>3
<1>9. CASE CreateTripFails
  BY <1>00, <1>0, <1>9 DEF CreateTripFails, Failed, Abandon, Fault, NoTryLeft
<1>10. CASE WorkerDies
  BY <1>00, <1>0, <1>10 DEF WorkerDies, Abandon, Fault
<1>11. CASE FindDriver
  BY <1>00, <1>0, <1>11 DEF FindDriver, Completed, Following
<1>12. CASE FindDriverFails
  BY <1>00, <1>0, <1>12 DEF FindDriverFails, Failed, Abandon, NoTryLeft
<1>13. CASE Schedule
  BY <1>00, <1>0, <1>13 DEF Schedule, CancelBegun
<1>14. CASE UpdateStaffsToTrip
  BY <1>00, <1>0, <1>14 DEF UpdateStaffsToTrip, Completed, Following
<1>15. CASE ScheduleFails
  BY <1>00, <1>0, <1>15 DEF ScheduleFails, Failed, Abandon, Fault, NoTryLeft
<1>16. CASE PollTransport
  BY <1>00, <1>0, <1>16 DEF PollTransport
<1>17. CASE ReportTransport
  BY <1>00, <1>0, <1>17 DEF ReportTransport
<1>18. CASE TransportFails
  BY <1>00, <1>0, <1>18 DEF TransportFails, Failed, Abandon, Fault, NoTryLeft
<1>19. CASE SumUp
  BY <1>00, <1>0, <1>19 DEF SumUp, Completed, NoteSummary
<1>20. CASE SumUpFails
  <2>1. \A n \in Tries : trip'[n].gen = trip[n].gen /\ trip'[n].status = trip[n].status
    <3>1. trip' = trip \/ trip' = [trip EXCEPT ![carried].ref = OtherRef]
      BY <1>20 DEF SumUpFails, NoteSummary
    <3> QED
      BY <1>00, <3>1 DEF DocumentTypeOK, TripRecord
  <2>2. wf'.stage = wf.stage /\ work' = work /\ gen' = gen /\ carried' = carried /\ legs' = legs /\ task' = task /\ todo' = todo
    BY <1>00, <1>20 DEF SumUpFails, Failed, Abandon
  <2>3. work \notin {"created", "bound"}
    BY <1>20 DEF SumUpFails
  <2> QED
    BY <1>00, <2>1, <2>2, <2>3
<1>21. CASE FailTrip
  <2>1. trip' = trip \/ trip' = [trip EXCEPT ![carried].status = "FAILED"]
    BY <1>21 DEF FailTrip
  <2>2. \A n \in Tries : trip'[n].gen = trip[n].gen /\ (trip[n].status # "none" => trip'[n].status # "none")
    BY <1>00, <2>1 DEF DocumentTypeOK, TripRecord
  <2> QED
    BY <1>00, <1>21, <2>2 DEF FailTrip
<1>22. CASE FailTasks
  BY <1>00, <1>0, <1>22 DEF FailTasks, CloseTasks
<1>23. CASE FailureFlowFails
  BY <1>00, <1>0, <1>23 DEF FailureFlowFails, Fault, LastStepNamesTrip
<1>24. ASSUME NEW l \in legs, Track(l) PROVE PlanInv'
  BY <1>00, <1>0, <1>24 DEF Track, Requeue, Open, At
<1>25. ASSUME NEW l \in legs, CheckStart(l) PROVE PlanInv'
  BY <1>00, <1>0, <1>25 DEF CheckStart, At, Goto
<1>26. ASSUME NEW l \in legs, SaveTask(l) PROVE PlanInv'
  BY <1>00, <1>0, <1>26 DEF SaveTask, At, Goto
<1>27. ASSUME NEW l \in legs, TellTask(l) PROVE PlanInv'
  BY <1>00, <1>0, <1>27 DEF TellTask, At, Goto, MyTask, Requeue, Complete, Completed, Open, Following
<1>28. ASSUME NEW l \in legs, ReadTrip(l) PROVE PlanInv'
  BY <1>00, <1>0, <1>28 DEF ReadTrip, At, MyTask
<1>29. ASSUME NEW l \in legs, WriteTrip(l) PROVE PlanInv'
  BY <1>00, <1>0, <1>29 DEF WriteTrip, At, Goto
<1>30. ASSUME NEW l \in legs, TellTrip(l) PROVE PlanInv'
  BY <1>00, <1>0, <1>30 DEF TellTrip, At, Complete, Completed, Open, Following, Idle
<1>31. ASSUME NEW l \in legs, TodoFails(l) PROVE PlanInv'
  BY <1>00, <1>0, <1>31 DEF TodoFails, At, Fault, Idle
<1>32. ASSUME NEW c \in Cancels, RejectTrip(c) PROVE PlanInv'
  BY <1>00, <1>0, <1>32 DEF RejectTrip
<1>33. ASSUME NEW c \in Cancels, CancelTasks(c) PROVE PlanInv'
  BY <1>00, <1>0, <1>33 DEF CancelTasks, CloseTasks, StatusOf
<1>34. ASSUME NEW c \in Cancels, TerminateWorkflow(c) PROVE PlanInv'
  BY <1>00, <1>0, <1>34 DEF TerminateWorkflow
<1>35. ASSUME NEW c \in Cancels, CancelFails(c) PROVE PlanInv'
  BY <1>00, <1>0, <1>35 DEF CancelFails, Fault
<1>36. ASSUME NEW l \in legs, NEW k \in Kinds, BeginTodo(l, k) PROVE PlanInv'
  BY <1>00, <1>0, <1>36 DEF BeginTodo, At, Idle, Fault
<1>37. ASSUME NEW c \in Cancels, NEW role \in {"DRIVER", "PASSENGER"}, NEW t \in Tries, MarkTrip(c, role, t) PROVE PlanInv'
  <2>1. trip' = trip \/ trip' = [trip EXCEPT ![t].status = StatusOf[role]]
    BY <1>37 DEF MarkTrip
  <2>2. StatusOf[role] # "none"
    BY DEF StatusOf
  <2>3. \A n \in Tries : trip'[n].gen = trip[n].gen /\ (trip[n].status # "none" => trip'[n].status # "none")
    BY <1>00, <2>1, <2>2 DEF DocumentTypeOK, TripRecord
  <2> QED
    BY <1>00, <1>37, <2>3 DEF MarkTrip
<1>38. CASE UNCHANGED vars
  BY <1>38 DEF vars
<1> QED
  BY <1>1, <1>2, <1>3, <1>4, <1>5, <1>6, <1>7, <1>8, <1>9, <1>10, <1>11, <1>12, <1>13, <1>14, <1>15, <1>16, <1>17, <1>18, <1>19, <1>20, <1>21, <1>22, <1>23, <1>24, <1>25, <1>26, <1>27, <1>28, <1>29, <1>30, <1>31, <1>32, <1>33, <1>34, <1>35, <1>36, <1>37, <1>38 DEF Next, WorkerStep, FaultStep, TodoStep, CancelStep

\* What is known about delivered tasks and trips while an order runs: a task is
\* DONE by an update of its last todo, a trip by one that saw all its tasks DONE,
\* and no update is under way beside a cancellation unless they raced.
AllDone == \A l \in legs : MyTask(l).status = "DONE"
OneByOne == ~raced /\ CancelBegun => \A l \in legs : todo[l].pc = "idle"
PayInv ==
    /\ flow # "none" => ~Running
    /\ \A n \in Tries : trip[n].status = "DONE" => carried = n
    /\ gen # 0 => \A l \in legs : MyTask(l).status = "DONE" =>
          "isStart" \in did[l] /\ (todo[l].pc # "idle" => todo[l].kind = "isLast")
    /\ \A l \in legs : todo[l].pc # "idle" /\ todo[l].kind = "isLast" => "isStart" \in did[l]
    /\ OneByOne
    /\ ~raced /\ Running /\ ~CancelBegun =>
          /\ \A l \in legs : todo[l].pc = "seen" /\ todo[l].done => AllDone
          /\ carried # 0 /\ trip[carried].status = "DONE" => AllDone

\* A step that finishes no task and no trip and does not touch the driver.
Quiet ==
    /\ UNCHANGED <<legs, gen, carried, did, todo>>
    /\ \A n \in Tries : trip'[n].status = "DONE" => trip[n].status = "DONE"
    /\ gen # 0 => \A l \in legs : task'[gen][l].status = task[gen][l].status
    /\ flow' # "none" => ~Running'
    /\ Running' => Running
    /\ raced => raced'
    /\ CancelBegun => CancelBegun'
    /\ OneByOne'

LEMMA QuietStep == EngineTypeOK /\ PlanInv /\ PayInv /\ Quiet => PayInv'
<1> SUFFICES ASSUME EngineTypeOK, PlanInv, PayInv, Quiet PROVE PayInv'
  OBVIOUS
<1>1. carried # 0 => carried \in Tries /\ gen # 0
  BY DEF EngineTypeOK, PlanInv
<1>2. gen # 0 => \A l \in legs : MyTask(l)'.status = MyTask(l).status
  BY DEF Quiet, MyTask
<1>3. gen # 0 => AllDone' = AllDone
  BY <1>2 DEF AllDone, Quiet
<1>4. \A l \in legs : todo[l].pc # "idle" => gen # 0
  BY <1>1 DEF PlanInv
<1> QED
  BY <1>1, <1>2, <1>3, <1>4 DEF PayInv, Quiet

LEMMA PayInit == Init => PayInv
BY DEF Init, PayInv, OneByOne, CancelBegun, Running, NewTrip, Idle

LEMMA PayStep == OrderTypeOK /\ PlanInv /\ PayInv /\ [Next]_vars => PayInv'
<1> SUFFICES ASSUME OrderTypeOK, PlanInv, PayInv, [Next]_vars PROVE PayInv'
  OBVIOUS
<1>00. EngineTypeOK /\ DocumentTypeOK /\ DriverTypeOK /\ ClosingTypeOK /\ CountTypeOK
  BY DEF OrderTypeOK
<1>01. legs \subseteq Legs
  BY <1>00 DEF CountTypeOK
<1>02. flow # "none" => ~Running
  BY DEF PayInv
<1>03. OneByOne
  BY DEF PayInv
<1>04. Quiet => PayInv'
  BY <1>00, QuietStep
<1>1. CASE MapOrder
  <2>1. \A n \in Tries : trip'[n].status = "DONE" => trip[n].status = "DONE"
    BY <1>1 DEF MapOrder, documents
  <2>2. gen # 0 => \A l \in legs : task'[gen][l].status = task[gen][l].status
    BY <1>1 DEF MapOrder, documents
  <2>3. (flow' # "none" => ~Running') /\ (Running' => Running)
    BY <1>00, <1>02, <1>1 DEF MapOrder, Completed, EngineTypeOK, WfRecord, Running, Stage, engine, closing
  <2>4. (raced => raced') /\ (CancelBegun' <=> CancelBegun) /\ UNCHANGED <<legs, gen, carried, did, todo>>
    BY <1>1 DEF MapOrder, CancelBegun, order, engine, driver, closing, history
  <2> QED
    BY <1>03, <1>04, <2>1, <2>2, <2>3, <2>4 DEF Quiet, OneByOne
<1>2. CASE MapOrderFails
  <2>1. \A n \in Tries : trip'[n].status = "DONE" => trip[n].status = "DONE"
    BY <1>2 DEF MapOrderFails, documents
  <2>2. gen # 0 => \A l \in legs : task'[gen][l].status = task[gen][l].status
    BY <1>2 DEF MapOrderFails, documents
  <2>3. (flow' # "none" => ~Running') /\ (Running' => Running)
    BY <1>00, <1>02, <1>2 DEF MapOrderFails, Failed, Abandon, EngineTypeOK, WfRecord, Running, Stage, engine, closing
  <2>4. (raced => raced') /\ (CancelBegun' <=> CancelBegun) /\ UNCHANGED <<legs, gen, carried, did, todo>>
    BY <1>2 DEF MapOrderFails, CancelBegun, order, engine, driver, closing, history
  <2> QED
    BY <1>03, <1>04, <2>1, <2>2, <2>3, <2>4 DEF Quiet, OneByOne
<1>3. CASE CreateTripThrows
  <2>1. \A n \in Tries : trip'[n].status = "DONE" => trip[n].status = "DONE"
    BY <1>3 DEF CreateTripThrows, documents
  <2>2. gen # 0 => \A l \in legs : task'[gen][l].status = task[gen][l].status
    BY <1>3 DEF CreateTripThrows, documents
  <2>3. (flow' # "none" => ~Running') /\ (Running' => Running)
    BY <1>00, <1>02, <1>3 DEF CreateTripThrows, Failed, Abandon, EngineTypeOK, WfRecord, Running, Stage, engine, closing
  <2>4. (raced => raced') /\ (CancelBegun' <=> CancelBegun) /\ UNCHANGED <<legs, gen, carried, did, todo>>
    BY <1>3 DEF CreateTripThrows, CancelBegun, order, engine, driver, closing, history
  <2> QED
    BY <1>03, <1>04, <2>1, <2>2, <2>3, <2>4 DEF Quiet, OneByOne
<1>4. CASE CreateTripFails
  <2>1. \A n \in Tries : trip'[n].status = "DONE" => trip[n].status = "DONE"
    BY <1>4 DEF CreateTripFails, documents
  <2>2. gen # 0 => \A l \in legs : task'[gen][l].status = task[gen][l].status
    BY <1>4 DEF CreateTripFails, documents
  <2>3. (flow' # "none" => ~Running') /\ (Running' => Running)
    BY <1>00, <1>02, <1>4 DEF CreateTripFails, Failed, Abandon, EngineTypeOK, WfRecord, Running, Stage, engine, closing
  <2>4. (raced => raced') /\ (CancelBegun' <=> CancelBegun) /\ UNCHANGED <<legs, gen, carried, did, todo>>
    BY <1>4 DEF CreateTripFails, CancelBegun, order, engine, driver, closing, history
  <2> QED
    BY <1>03, <1>04, <2>1, <2>2, <2>3, <2>4 DEF Quiet, OneByOne
<1>5. CASE WorkerDies
  <2>1. \A n \in Tries : trip'[n].status = "DONE" => trip[n].status = "DONE"
    BY <1>5 DEF WorkerDies, documents
  <2>2. gen # 0 => \A l \in legs : task'[gen][l].status = task[gen][l].status
    BY <1>5 DEF WorkerDies, documents
  <2>3. (flow' # "none" => ~Running') /\ (Running' => Running)
    BY <1>00, <1>02, <1>5 DEF WorkerDies, Abandon, EngineTypeOK, WfRecord, Running, Stage, engine, closing
  <2>4. (raced => raced') /\ (CancelBegun' <=> CancelBegun) /\ UNCHANGED <<legs, gen, carried, did, todo>>
    BY <1>5 DEF WorkerDies, CancelBegun, order, engine, driver, closing, history
  <2> QED
    BY <1>03, <1>04, <2>1, <2>2, <2>3, <2>4 DEF Quiet, OneByOne
<1>6. CASE FindDriver
  <2>1. \A n \in Tries : trip'[n].status = "DONE" => trip[n].status = "DONE"
    BY <1>6 DEF FindDriver, documents
  <2>2. gen # 0 => \A l \in legs : task'[gen][l].status = task[gen][l].status
    BY <1>6 DEF FindDriver, documents
  <2>3. (flow' # "none" => ~Running') /\ (Running' => Running)
    BY <1>00, <1>02, <1>6 DEF FindDriver, Completed, EngineTypeOK, WfRecord, Running, Stage, engine, closing
  <2>4. (raced => raced') /\ (CancelBegun' <=> CancelBegun) /\ UNCHANGED <<legs, gen, carried, did, todo>>
    BY <1>6 DEF FindDriver, CancelBegun, order, engine, driver, closing, history
  <2> QED
    BY <1>03, <1>04, <2>1, <2>2, <2>3, <2>4 DEF Quiet, OneByOne
<1>7. CASE FindDriverFails
  <2>1. \A n \in Tries : trip'[n].status = "DONE" => trip[n].status = "DONE"
    BY <1>7 DEF FindDriverFails, documents
  <2>2. gen # 0 => \A l \in legs : task'[gen][l].status = task[gen][l].status
    BY <1>7 DEF FindDriverFails, documents
  <2>3. (flow' # "none" => ~Running') /\ (Running' => Running)
    BY <1>00, <1>02, <1>7 DEF FindDriverFails, Failed, Abandon, EngineTypeOK, WfRecord, Running, Stage, engine, closing
  <2>4. (raced => raced') /\ (CancelBegun' <=> CancelBegun) /\ UNCHANGED <<legs, gen, carried, did, todo>>
    BY <1>7 DEF FindDriverFails, CancelBegun, order, engine, driver, closing, history
  <2> QED
    BY <1>03, <1>04, <2>1, <2>2, <2>3, <2>4 DEF Quiet, OneByOne
<1>8. CASE Schedule
  <2>1. \A n \in Tries : trip'[n].status = "DONE" => trip[n].status = "DONE"
    BY <1>8 DEF Schedule, documents
  <2>2. gen # 0 => \A l \in legs : task'[gen][l].status = task[gen][l].status
    BY <1>8 DEF Schedule, documents
  <2>3. (flow' # "none" => ~Running') /\ (Running' => Running)
    BY <1>00, <1>02, <1>8 DEF Schedule, EngineTypeOK, WfRecord, Running, Stage, engine, closing
  <2>4. (raced => raced') /\ (CancelBegun' <=> CancelBegun) /\ UNCHANGED <<legs, gen, carried, did, todo>>
    BY <1>8 DEF Schedule, CancelBegun, order, engine, driver, closing, history
  <2> QED
    BY <1>03, <1>04, <2>1, <2>2, <2>3, <2>4 DEF Quiet, OneByOne
<1>9. CASE ScheduleFails
  <2>1. \A n \in Tries : trip'[n].status = "DONE" => trip[n].status = "DONE"
    BY <1>9 DEF ScheduleFails, documents
  <2>2. gen # 0 => \A l \in legs : task'[gen][l].status = task[gen][l].status
    BY <1>9 DEF ScheduleFails, documents
  <2>3. (flow' # "none" => ~Running') /\ (Running' => Running)
    BY <1>00, <1>02, <1>9 DEF ScheduleFails, Failed, Abandon, EngineTypeOK, WfRecord, Running, Stage, engine, closing
  <2>4. (raced => raced') /\ (CancelBegun' <=> CancelBegun) /\ UNCHANGED <<legs, gen, carried, did, todo>>
    BY <1>9 DEF ScheduleFails, CancelBegun, order, engine, driver, closing, history
  <2> QED
    BY <1>03, <1>04, <2>1, <2>2, <2>3, <2>4 DEF Quiet, OneByOne
<1>10. CASE ReportTransport
  <2>1. \A n \in Tries : trip'[n].status = "DONE" => trip[n].status = "DONE"
    BY <1>10 DEF ReportTransport, documents
  <2>2. gen # 0 => \A l \in legs : task'[gen][l].status = task[gen][l].status
    BY <1>10 DEF ReportTransport, documents
  <2>3. (flow' # "none" => ~Running') /\ (Running' => Running)
    BY <1>00, <1>02, <1>10 DEF ReportTransport, EngineTypeOK, WfRecord, Running, Stage, engine, closing
  <2>4. (raced => raced') /\ (CancelBegun' <=> CancelBegun) /\ UNCHANGED <<legs, gen, carried, did, todo>>
    BY <1>10 DEF ReportTransport, CancelBegun, order, engine, driver, closing, history
  <2> QED
    BY <1>03, <1>04, <2>1, <2>2, <2>3, <2>4 DEF Quiet, OneByOne
<1>11. CASE TransportFails
  <2>1. \A n \in Tries : trip'[n].status = "DONE" => trip[n].status = "DONE"
    BY <1>11 DEF TransportFails, documents
  <2>2. gen # 0 => \A l \in legs : task'[gen][l].status = task[gen][l].status
    BY <1>11 DEF TransportFails, documents
  <2>3. (flow' # "none" => ~Running') /\ (Running' => Running)
    BY <1>00, <1>02, <1>11 DEF TransportFails, Failed, Abandon, EngineTypeOK, WfRecord, Running, Stage, engine, closing
  <2>4. (raced => raced') /\ (CancelBegun' <=> CancelBegun) /\ UNCHANGED <<legs, gen, carried, did, todo>>
    BY <1>11 DEF TransportFails, CancelBegun, order, engine, driver, closing, history
  <2> QED
    BY <1>03, <1>04, <2>1, <2>2, <2>3, <2>4 DEF Quiet, OneByOne
<1>12. CASE FailureFlowFails
  <2>1. \A n \in Tries : trip'[n].status = "DONE" => trip[n].status = "DONE"
    BY <1>12 DEF FailureFlowFails, documents
  <2>2. gen # 0 => \A l \in legs : task'[gen][l].status = task[gen][l].status
    BY <1>12 DEF FailureFlowFails, documents
  <2>3. (flow' # "none" => ~Running') /\ (Running' => Running)
    BY <1>00, <1>02, <1>12 DEF FailureFlowFails, EngineTypeOK, WfRecord, Running, Stage, engine, closing
  <2>4. (raced => raced') /\ (CancelBegun' <=> CancelBegun) /\ UNCHANGED <<legs, gen, carried, did, todo>>
    BY <1>12 DEF FailureFlowFails, CancelBegun, order, engine, driver, closing, history
  <2> QED
    BY <1>03, <1>04, <2>1, <2>2, <2>3, <2>4 DEF Quiet, OneByOne
<1>13. CASE CreateTrip
  <2>1. \A n \in Tries : trip'[n].status = "DONE" => trip[n].status = "DONE"
    BY <1>00, <1>13 DEF CreateTrip, NoteSummary, NewTrip, DocumentTypeOK, TripRecord
  <2>2. gen # 0 => \A l \in legs : task'[gen][l].status = task[gen][l].status
    BY <1>13 DEF CreateTrip, documents
  <2>3. (flow' # "none" => ~Running') /\ (Running' => Running)
    BY <1>00, <1>02, <1>13 DEF CreateTrip, NewTrip, EngineTypeOK, WfRecord, Running, Stage, engine, closing
  <2>4. (raced => raced') /\ (CancelBegun' <=> CancelBegun) /\ UNCHANGED <<legs, gen, carried, did, todo>>
    BY <1>13 DEF CreateTrip, CancelBegun, order, engine, driver, closing, history
  <2> QED
    BY <1>03, <1>04, <2>1, <2>2, <2>3, <2>4 DEF Quiet, OneByOne
<1>14. CASE BindTasks
  <2>1. \A n \in Tries : trip'[n].status = "DONE" => trip[n].status = "DONE"
    BY <1>14 DEF BindTasks, documents
  <2>2. gen # 0 => \A l \in legs : task'[gen][l].status = task[gen][l].status
    BY <1>00, <1>01, <1>14 DEF BindTasks, EngineTypeOK, DocumentTypeOK, TaskRecord
  <2>3. (flow' # "none" => ~Running') /\ (Running' => Running)
    BY <1>00, <1>02, <1>14 DEF BindTasks, EngineTypeOK, WfRecord, Running, Stage, engine, closing
  <2>4. (raced => raced') /\ (CancelBegun' <=> CancelBegun) /\ UNCHANGED <<legs, gen, carried, did, todo>>
    BY <1>14 DEF BindTasks, CancelBegun, order, engine, driver, closing, history
  <2> QED
    BY <1>03, <1>04, <2>1, <2>2, <2>3, <2>4 DEF Quiet, OneByOne
<1>15. CASE UpdateStaffsToTrip
  <2>1. \A n \in Tries : trip'[n].status = "DONE" => trip[n].status = "DONE"
    BY <1>00, <1>15 DEF UpdateStaffsToTrip, NoteSummary, NewTrip, DocumentTypeOK, TripRecord
  <2>2. gen # 0 => \A l \in legs : task'[gen][l].status = task[gen][l].status
    BY <1>15 DEF UpdateStaffsToTrip, documents
  <2>3. (flow' # "none" => ~Running') /\ (Running' => Running)
    BY <1>00, <1>02, <1>15 DEF UpdateStaffsToTrip, Completed, EngineTypeOK, WfRecord, Running, Stage, engine, closing
  <2>4. (raced => raced') /\ (CancelBegun' <=> CancelBegun) /\ UNCHANGED <<legs, gen, carried, did, todo>>
    BY <1>15 DEF UpdateStaffsToTrip, CancelBegun, order, engine, driver, closing, history
  <2> QED
    BY <1>03, <1>04, <2>1, <2>2, <2>3, <2>4 DEF Quiet, OneByOne
<1>16. CASE PollTransport
  <2>1. \A n \in Tries : trip'[n].status = "DONE" => trip[n].status = "DONE"
    BY <1>00, <1>16 DEF PollTransport, NoteSummary, NewTrip, DocumentTypeOK, TripRecord
  <2>2. gen # 0 => \A l \in legs : task'[gen][l].status = task[gen][l].status
    BY <1>16 DEF PollTransport, documents
  <2>3. (flow' # "none" => ~Running') /\ (Running' => Running)
    BY <1>00, <1>02, <1>16 DEF PollTransport, EngineTypeOK, WfRecord, Running, Stage, engine, closing
  <2>4. (raced => raced') /\ (CancelBegun' <=> CancelBegun) /\ UNCHANGED <<legs, gen, carried, did, todo>>
    BY <1>16 DEF PollTransport, CancelBegun, order, engine, driver, closing, history
  <2> QED
    BY <1>03, <1>04, <2>1, <2>2, <2>3, <2>4 DEF Quiet, OneByOne
<1>17. CASE SumUp
  <2>1. \A n \in Tries : trip'[n].status = "DONE" => trip[n].status = "DONE"
    BY <1>00, <1>17 DEF SumUp, NoteSummary, NewTrip, DocumentTypeOK, TripRecord
  <2>2. gen # 0 => \A l \in legs : task'[gen][l].status = task[gen][l].status
    BY <1>17 DEF SumUp, documents
  <2>3. (flow' # "none" => ~Running') /\ (Running' => Running)
    BY <1>00, <1>02, <1>17 DEF SumUp, Completed, NoteSummary, EngineTypeOK, WfRecord, Running, Stage, engine, closing
  <2>4. (raced => raced') /\ (CancelBegun' <=> CancelBegun) /\ UNCHANGED <<legs, gen, carried, did, todo>>
    BY <1>17 DEF SumUp, CancelBegun, order, engine, driver, closing, history
  <2> QED
    BY <1>03, <1>04, <2>1, <2>2, <2>3, <2>4 DEF Quiet, OneByOne
<1>18. CASE SumUpFails
  <2>1. \A n \in Tries : trip'[n].status = "DONE" => trip[n].status = "DONE"
    <3>1. trip' = trip \/ trip' = [trip EXCEPT ![carried].ref = OtherRef]
      BY <1>18 DEF SumUpFails, NoteSummary
    <3> QED
      BY <1>00, <3>1 DEF DocumentTypeOK, TripRecord
  <2>2. gen # 0 => \A l \in legs : task'[gen][l].status = task[gen][l].status
    BY <1>18 DEF SumUpFails, documents
  <2>3. (flow' # "none" => ~Running') /\ (Running' => Running)
    BY <1>00, <1>02, <1>18 DEF SumUpFails, Failed, Abandon, NoteSummary, EngineTypeOK, WfRecord, Running, Stage, engine, closing
  <2>4. (raced => raced') /\ (CancelBegun' <=> CancelBegun) /\ UNCHANGED <<legs, gen, carried, did, todo>>
    BY <1>18 DEF SumUpFails, CancelBegun, order, engine, driver, closing, history
  <2> QED
    BY <1>03, <1>04, <2>1, <2>2, <2>3, <2>4 DEF Quiet, OneByOne
<1>19. CASE FailTrip
  <2>1. \A n \in Tries : trip'[n].status = "DONE" => trip[n].status = "DONE"
    <3>1. trip' = trip \/ trip' = [trip EXCEPT ![carried].status = "FAILED"]
      BY <1>19 DEF FailTrip, NoteSummary
    <3> QED
      BY <1>00, <3>1 DEF DocumentTypeOK, TripRecord
  <2>2. gen # 0 => \A l \in legs : task'[gen][l].status = task[gen][l].status
    BY <1>19 DEF FailTrip, documents
  <2>3. (flow' # "none" => ~Running') /\ (Running' => Running)
    BY <1>00, <1>02, <1>19 DEF FailTrip, EngineTypeOK, WfRecord, Running, Stage, engine, closing
  <2>4. (raced => raced') /\ (CancelBegun' <=> CancelBegun) /\ UNCHANGED <<legs, gen, carried, did, todo>>
    BY <1>19 DEF FailTrip, CancelBegun, order, engine, driver, closing, history
  <2> QED
    BY <1>03, <1>04, <2>1, <2>2, <2>3, <2>4 DEF Quiet, OneByOne
<1>20. ASSUME NEW c \in Cancels, TerminateWorkflow(c) PROVE PayInv'
  <2>1. (Running' => Running) /\ flow' = flow
    BY <1>00, <1>20 DEF TerminateWorkflow, EngineTypeOK, WfRecord, Running, engine
  <2>2. CancelBegun' <=> CancelBegun
    BY <1>00, <1>20 DEF TerminateWorkflow, CancelBegun, ClosingTypeOK, CancelRecord
  <2>3. UNCHANGED <<documents, driver, legs, gen, carried, raced>>
    BY <1>20 DEF TerminateWorkflow, order, history, engine
  <2> QED
    BY <1>02, <1>03, <1>04, <2>1, <2>2, <2>3 DEF Quiet, OneByOne, documents, driver
<1>21. ASSUME NEW c \in Cancels, CancelFails(c) PROVE PayInv'
  <2>1. (Running' => Running) /\ flow' = flow
    BY <1>00, <1>21 DEF CancelFails, EngineTypeOK, WfRecord, Running, engine
  <2>2. CancelBegun' <=> CancelBegun
    BY <1>00, <1>21 DEF CancelFails, CancelBegun, ClosingTypeOK, CancelRecord
  <2>3. UNCHANGED <<documents, driver, legs, gen, carried, raced>>
    BY <1>21 DEF CancelFails, order, history, engine
  <2> QED
    BY <1>02, <1>03, <1>04, <2>1, <2>2, <2>3 DEF Quiet, OneByOne, documents, driver
<1>22. ASSUME NEW c \in Cancels, RejectTrip(c) PROVE PayInv'
  <2>1. \A n \in Tries : trip'[n].status = "DONE" => trip[n].status = "DONE"
    BY <1>00, <1>22 DEF RejectTrip, DocumentTypeOK, TripRecord
  <2>2. CancelBegun' <=> CancelBegun
    BY <1>00, <1>22 DEF RejectTrip, CancelBegun, ClosingTypeOK, CancelRecord
  <2>3. UNCHANGED <<wf, flow, task, driver, legs, gen, carried, raced>>
    BY <1>22 DEF RejectTrip, order, history, engine
  <2> QED
    BY <1>02, <1>03, <1>04, <2>1, <2>2, <2>3 DEF Quiet, OneByOne, Running, driver
<1>23. ASSUME NEW c \in Cancels, NEW role \in {"DRIVER", "PASSENGER"}, NEW t \in Tries, MarkTrip(c, role, t) PROVE PayInv'
  <2>1. \A n \in Tries : trip'[n].status = "DONE" => trip[n].status = "DONE"
    <3>1. trip' = trip \/ trip' = [trip EXCEPT ![t].status = StatusOf[role]]
      BY <1>23 DEF MarkTrip
    <3>2. StatusOf[role] # "DONE"
      BY DEF StatusOf
    <3> QED
      BY <1>00, <3>1, <3>2 DEF DocumentTypeOK, TripRecord
  <2>2. CancelBegun => CancelBegun'
    BY <1>00, <1>23 DEF MarkTrip, CancelBegun, ClosingTypeOK, CancelRecord
  <2>3. UNCHANGED <<wf, flow, task, driver, legs, gen, carried>>
    BY <1>23 DEF MarkTrip, order, engine
  <2>4. (raced => raced') /\ OneByOne'
    <3>1. CASE MayCancel(role, t)
      BY <1>01, <1>23, <2>3, <3>1 DEF MarkTrip, OneByOne, OthersWrite, At, driver
    <3>2. CASE ~MayCancel(role, t)
      <4>1. UNCHANGED raced /\ (CancelBegun' => CancelBegun)
        BY <1>00, <1>23, <3>2 DEF MarkTrip, CancelBegun, ClosingTypeOK, CancelRecord
      <4> QED
        BY <1>03, <2>3, <4>1 DEF OneByOne, driver
    <3> QED
      BY <3>1, <3>2
  <2> QED
    BY <1>02, <1>04, <2>1, <2>2, <2>3, <2>4 DEF Quiet, Running, driver
<1>24. CASE CreateTasks
  <2>1. gen = 0 /\ carried = 0 /\ gen' \in Tries /\ \A l \in legs : todo[l].pc = "idle"
    BY <1>00, <1>24 DEF CreateTasks, PlanInv, Stage, EngineTypeOK, WfRecord
  <2>2. \A l \in legs : task'[gen'][l].status = "PENDING"
    BY <1>00, <1>01, <1>24 DEF CreateTasks, Creates, NewTask, EngineTypeOK, WfRecord, DocumentTypeOK
  <2>3. UNCHANGED <<trip, driver, closing, history, legs, carried>> /\ Running
    BY <1>24 DEF CreateTasks, order, Stage
  <2> QED
    BY <1>02, <1>03, <2>1, <2>2, <2>3 DEF PayInv, OneByOne, CancelBegun, MyTask, driver, closing, history
<1>25. CASE CreateTasksFails
  <2>1. gen = 0
    BY <1>25 DEF CreateTasksFails, PlanInv, Stage
  <2>2. (flow' # "none" => ~Running') /\ (Running' => Running)
    BY <1>00, <1>02, <1>25 DEF CreateTasksFails, Failed, Abandon, EngineTypeOK, WfRecord, Running, Stage
  <2>3. UNCHANGED <<trip, driver, cancel, history, legs, gen, carried>>
    BY <1>25 DEF CreateTasksFails, order
  <2> QED
    BY <1>03, <1>04, <2>1, <2>2, <2>3 DEF Quiet, OneByOne, CancelBegun, driver, history
<1>26. CASE TripCreated
  <2>1. carried = 0 /\ \A l \in legs : todo[l].pc = "idle"
    BY <1>26 DEF TripCreated, PlanInv
  <2>2. \A n \in Tries : trip[n].status # "DONE"
    BY <2>1, OrderAssumption DEF PayInv, Tries
  <2>3. UNCHANGED <<legs, gen, documents, driver, closing, history>>
    BY <1>26 DEF TripCreated, order
  <2>4. (Running' => Running) /\ carried' \in Tries \union {0}
    BY <1>00, <1>26 DEF TripCreated, Completed, Running, Stage, EngineTypeOK, WfRecord
  <2> QED
    BY <1>02, <1>03, <2>1, <2>2, <2>3, <2>4
    DEF PayInv, OneByOne, CancelBegun, MyTask, AllDone, documents, driver, closing, history
<1>27. ASSUME NEW c \in Cancels, CancelTasks(c) PROVE PayInv'
  <2>1. \A l \in legs : gen # 0 => task'[gen][l].status = task[gen][l].status \/ task'[gen][l].status # "DONE"
    <3>1. PICK t, status : CloseTasks(t, status) /\ status # "DONE"
      BY <1>00, <1>27 DEF CancelTasks, StatusOf, ClosingTypeOK, CancelRecord
    <3> QED
      BY <1>00, <1>01, <3>1 DEF CloseTasks, EngineTypeOK, DocumentTypeOK, TaskRecord
  <2>2. CancelBegun /\ CancelBegun'
    BY <1>00, <1>27 DEF CancelTasks, CancelBegun, ClosingTypeOK, CancelRecord
  <2>3. UNCHANGED <<wf, flow, trip, driver, legs, gen, carried, raced>>
    BY <1>27 DEF CancelTasks, order, history, engine
  <2> QED
    BY <1>00, <1>02, <1>03, <2>1, <2>2, <2>3 DEF PayInv, OneByOne, MyTask, Running, driver, EngineTypeOK
<1>28. CASE FailTasks
  <2>1. \A l \in legs : gen # 0 => task'[gen][l].status = task[gen][l].status \/ task'[gen][l].status # "DONE"
    <3>1. PICK t, status : CloseTasks(t, status) /\ status # "DONE"
      BY <1>00, <1>28 DEF FailTasks, StatusOf, ClosingTypeOK, CancelRecord
    <3> QED
      BY <1>00, <1>01, <3>1 DEF CloseTasks, EngineTypeOK, DocumentTypeOK, TaskRecord
  <2>2. ~Running /\ ~Running'
    BY <1>02, <1>28 DEF FailTasks, engine, Running
  <2>3. UNCHANGED <<trip, driver, cancel, legs, gen, carried, raced>>
    BY <1>28 DEF FailTasks, order, history, engine
  <2> QED
    BY <1>00, <1>03, <2>1, <2>2, <2>3 DEF PayInv, OneByOne, MyTask, CancelBegun, driver, EngineTypeOK
<1>05. \A l \in legs : todo[l].pc # "idle" => carried \in Tries /\ gen \in Tries /\ (raced \/ ~CancelBegun)
  BY <1>00, <1>03 DEF PlanInv, EngineTypeOK, OneByOne
<1>06. \A l \in legs : todo[l] \in TodoRecord /\ did[l] \in SUBSET Kinds
  BY <1>00, <1>01 DEF DriverTypeOK
<1>29. ASSUME NEW l \in legs, Track(l) PROVE PayInv'
  <2>1. UNCHANGED <<legs, gen, carried, cancel, flow, raced>> /\ (Running' => Running) /\ (flow # "none" => ~Running')
    BY <1>00, <1>02, <1>29 DEF Track, Requeue, order, closing, history, engine, EngineTypeOK, WfRecord, Running, Stage
  <2>2. \A m \in legs : m # l => todo'[m] = todo[m]
    BY <1>00, <1>01, <1>29 DEF Track, Requeue, DriverTypeOK
  <2>3. todo[l].pc # "idle" /\ todo'[l].pc # "seen" /\ (todo'[l].pc # "idle" => todo'[l].kind = todo[l].kind)
    BY <1>00, <1>01, <1>06, <1>29 DEF Track, Requeue, At, DriverTypeOK, TodoRecord
  <2>4. UNCHANGED <<documents, did>>
    BY <1>29 DEF Track
  <2> QED
    BY <1>00, <1>02, <1>03, <1>05, <1>06, <2>1, <2>2, <2>3, <2>4
    DEF PayInv, OneByOne, MyTask, AllDone, CancelBegun, Running, documents
<1>30. ASSUME NEW l \in legs, CheckStart(l) PROVE PayInv'
  <2>1. UNCHANGED <<legs, gen, carried, cancel, flow, raced>> /\ (Running' => Running) /\ (flow # "none" => ~Running')
    BY <1>00, <1>02, <1>30 DEF CheckStart, Goto, order, closing, history, engine, EngineTypeOK, WfRecord, Running, Stage
  <2>2. \A m \in legs : m # l => todo'[m] = todo[m]
    BY <1>00, <1>01, <1>30 DEF CheckStart, Goto, DriverTypeOK
  <2>3. todo[l].pc # "idle" /\ todo'[l].pc # "seen" /\ (todo'[l].pc # "idle" => todo'[l].kind = todo[l].kind)
    BY <1>00, <1>01, <1>06, <1>30 DEF CheckStart, Goto, At, DriverTypeOK, TodoRecord
  <2>4. UNCHANGED <<documents, did>>
    BY <1>30 DEF CheckStart
  <2> QED
    BY <1>00, <1>02, <1>03, <1>05, <1>06, <2>1, <2>2, <2>3, <2>4
    DEF PayInv, OneByOne, MyTask, AllDone, CancelBegun, Running, documents
<1>31. ASSUME NEW l \in legs, TellTask(l) PROVE PayInv'
  <2>1. UNCHANGED <<legs, gen, carried, cancel, flow, raced>> /\ (Running' => Running) /\ (flow # "none" => ~Running')
    BY <1>00, <1>02, <1>31 DEF TellTask, Goto, Requeue, Complete, Completed, order, closing, history, engine, EngineTypeOK, WfRecord, Running, Stage
  <2>2. \A m \in legs : m # l => todo'[m] = todo[m]
    BY <1>00, <1>01, <1>31 DEF TellTask, Goto, Requeue, Complete, Completed, DriverTypeOK
  <2>3. todo[l].pc # "idle" /\ todo'[l].pc # "seen" /\ (todo'[l].pc # "idle" => todo'[l].kind = todo[l].kind)
    BY <1>00, <1>01, <1>06, <1>31 DEF TellTask, Goto, Requeue, Complete, Completed, At, DriverTypeOK, TodoRecord
  <2>4. UNCHANGED <<documents, did>>
    BY <1>31 DEF TellTask
  <2> QED
    BY <1>00, <1>02, <1>03, <1>05, <1>06, <2>1, <2>2, <2>3, <2>4
    DEF PayInv, OneByOne, MyTask, AllDone, CancelBegun, Running, documents
<1>32. ASSUME NEW l \in legs, TellTrip(l) PROVE PayInv'
  <2>1. UNCHANGED <<legs, gen, carried, cancel, flow, raced>> /\ (Running' => Running) /\ (flow # "none" => ~Running')
    BY <1>00, <1>02, <1>32 DEF TellTrip, Complete, Completed, Idle, order, closing, history, engine, EngineTypeOK, WfRecord, Running, Stage
  <2>2. \A m \in legs : m # l => todo'[m] = todo[m]
    BY <1>00, <1>01, <1>32 DEF TellTrip, Complete, Completed, Idle, DriverTypeOK
  <2>3. todo[l].pc # "idle" /\ todo'[l].pc # "seen" /\ (todo'[l].pc # "idle" => todo'[l].kind = todo[l].kind)
    BY <1>00, <1>01, <1>06, <1>32 DEF TellTrip, Complete, Completed, Idle, At, DriverTypeOK, TodoRecord
  <2>4. UNCHANGED <<documents, did>>
    BY <1>32 DEF TellTrip
  <2> QED
    BY <1>00, <1>02, <1>03, <1>05, <1>06, <2>1, <2>2, <2>3, <2>4
    DEF PayInv, OneByOne, MyTask, AllDone, CancelBegun, Running, documents
<1>33. ASSUME NEW l \in legs, SaveTask(l) PROVE PayInv'
  <2>1. UNCHANGED <<legs, gen, carried, cancel, flow, raced>> /\ (Running' => Running) /\ (flow # "none" => ~Running')
    BY <1>00, <1>02, <1>33 DEF SaveTask, order, closing, history, engine, EngineTypeOK, WfRecord, Running, Stage
  <2>2. \A m \in legs : m # l => todo'[m] = todo[m]
    BY <1>00, <1>01, <1>33 DEF SaveTask, Goto, DriverTypeOK
  <2>3. todo[l].pc # "idle" /\ todo'[l].pc = "saved" /\ todo'[l].kind = todo[l].kind
    BY <1>00, <1>01, <1>06, <1>33 DEF SaveTask, Goto, At, DriverTypeOK, TodoRecord
  <2>4. UNCHANGED <<trip, did>>
    BY <1>33 DEF SaveTask
  <2>5. gen \in Tries
    BY <1>05, <2>3
  <2>6. task'[gen][l].status = IF todo[l].kind = "isStart" THEN "DOING" ELSE "DONE"
    BY <1>00, <1>01, <1>33, <2>5 DEF SaveTask, DocumentTypeOK, TaskRecord
  <2>7. \A m \in legs : m # l => task'[gen][m] = task[gen][m]
    BY <1>00, <1>01, <1>33, <2>5 DEF SaveTask, DocumentTypeOK
  <2>8. todo[l].kind = "isStart" \/ todo[l].kind = "isLast"
    BY <1>06 DEF TodoRecord, Kinds
  <2>9. \A m \in legs : MyTask(m).status = "DONE" => MyTask(m)'.status = "DONE"
    <3>1. gen # 0
      BY <2>5, OrderAssumption DEF Tries
    <3>2. MyTask(l).status = "DONE" => todo[l].kind = "isLast"
      BY <2>3, <3>1 DEF PayInv
    <3> QED
      BY <2>1, <2>6, <2>7, <3>2 DEF MyTask
  <2>10. MyTask(l)'.status = "DONE" => todo[l].kind = "isLast" /\ "isStart" \in did[l]
    BY <2>1, <2>3, <2>6, <2>8 DEF PayInv, MyTask
  <2> QED
    BY <1>00, <1>02, <1>03, <1>05, <1>06, <2>1, <2>2, <2>3, <2>4, <2>5, <2>7, <2>9, <2>10
    DEF PayInv, OneByOne, MyTask, AllDone, CancelBegun, Running
<1>34. ASSUME NEW l \in legs, ReadTrip(l) PROVE PayInv'
  <2>1. UNCHANGED <<legs, gen, carried, cancel, flow, raced>> /\ (Running' => Running) /\ (flow # "none" => ~Running')
    BY <1>00, <1>02, <1>34 DEF ReadTrip, order, closing, history, engine, EngineTypeOK, WfRecord, Running, Stage
  <2>2. \A m \in legs : m # l => todo'[m] = todo[m]
    BY <1>00, <1>01, <1>34 DEF ReadTrip, DriverTypeOK
  <2>3. todo[l].pc # "idle" /\ todo'[l].pc = "seen" /\ todo'[l].kind = todo[l].kind /\ (todo'[l].done <=> AllDone)
    BY <1>00, <1>01, <1>06, <1>34 DEF ReadTrip, At, AllDone, DriverTypeOK, TodoRecord
  <2>4. UNCHANGED <<documents, did>>
    BY <1>34 DEF ReadTrip
  <2> QED
    BY <1>00, <1>02, <1>03, <1>05, <1>06, <2>1, <2>2, <2>3, <2>4
    DEF PayInv, OneByOne, MyTask, AllDone, CancelBegun, Running, documents
<1>35. ASSUME NEW l \in legs, WriteTrip(l) PROVE PayInv'
  <2>1. UNCHANGED <<legs, gen, carried, cancel, flow, raced>> /\ (Running' => Running) /\ (flow # "none" => ~Running')
    BY <1>00, <1>02, <1>35 DEF WriteTrip, order, closing, history, engine, EngineTypeOK, WfRecord, Running, Stage
  <2>2. \A m \in legs : m # l => todo'[m] = todo[m]
    BY <1>00, <1>01, <1>35 DEF WriteTrip, Goto, DriverTypeOK
  <2>3. todo[l].pc = "seen" /\ todo'[l].pc = "written" /\ todo'[l].kind = todo[l].kind
    BY <1>00, <1>01, <1>06, <1>35 DEF WriteTrip, Goto, At, DriverTypeOK, TodoRecord
  <2>4. UNCHANGED <<task, did>>
    BY <1>35 DEF WriteTrip
  <2>5. carried \in Tries
    BY <1>05, <2>3
  <2>6. /\ trip'[carried].status = IF todo[l].done THEN "DONE" ELSE "DOING"
        /\ \A n \in Tries : n # carried => trip'[n] = trip[n]
    BY <1>00, <1>35, <2>5 DEF WriteTrip, DocumentTypeOK, TripRecord
  <2> QED
    BY <1>00, <1>02, <1>03, <1>05, <1>06, <2>1, <2>2, <2>3, <2>4, <2>5, <2>6
    DEF PayInv, OneByOne, MyTask, AllDone, CancelBegun, Running
<1>36. ASSUME NEW l \in legs, TodoFails(l) PROVE PayInv'
  <2>1. UNCHANGED <<legs, gen, carried, cancel, flow, raced>> /\ (Running' => Running) /\ (flow # "none" => ~Running')
    BY <1>00, <1>02, <1>36 DEF TodoFails, order, closing, history, engine, EngineTypeOK, WfRecord, Running, Stage
  <2>2. \A m \in legs : m # l => todo'[m] = todo[m]
    BY <1>00, <1>01, <1>36 DEF TodoFails, DriverTypeOK
  <2>3. todo[l].pc # "idle" /\ todo'[l].pc = "idle"
    BY <1>00, <1>01, <1>36 DEF TodoFails, At, Idle, DriverTypeOK
  <2>4. UNCHANGED documents /\ \A m \in legs : m # l => did'[m] = did[m]
    BY <1>00, <1>01, <1>36 DEF TodoFails, DriverTypeOK
  <2>5. todo[l].kind # "isStart" => ("isStart" \in did[l] => "isStart" \in did'[l])
    BY <1>00, <1>01, <1>36 DEF TodoFails, DriverTypeOK
  <2>6. MyTask(l).status = "DONE" => todo[l].kind = "isLast" /\ "isStart" \in did[l]
    BY <1>05, <2>3, OrderAssumption DEF PayInv, Tries
  <2> QED
    BY <1>00, <1>02, <1>03, <1>05, <1>06, <2>1, <2>2, <2>3, <2>4, <2>5, <2>6
    DEF PayInv, OneByOne, MyTask, AllDone, CancelBegun, Running, documents
<1>37. ASSUME NEW l \in legs, NEW k \in Kinds, BeginTodo(l, k) PROVE PayInv'
  <2>1. UNCHANGED <<legs, engine, documents, cancel, flow>>
    BY <1>37 DEF BeginTodo, order, closing
  <2>2. \A m \in legs : m # l => todo'[m] = todo[m] /\ did'[m] = did[m]
    BY <1>00, <1>01, <1>37 DEF BeginTodo, DriverTypeOK
  <2>3. todo[l].pc = "idle" /\ k \notin did[l] /\ (k = "isLast" => "isStart" \in did[l])
    BY <1>37 DEF BeginTodo, At
  <2>4. todo'[l].pc = "marked" /\ todo'[l].kind = k /\ did'[l] = did[l] \union {k}
    BY <1>00, <1>01, <1>37 DEF BeginTodo, Idle, DriverTypeOK
  <2>5. (raced => raced') /\ (~raced' => ~CancelBegun)
    BY <1>37 DEF BeginTodo
  <2>6. k = "isStart" \/ k = "isLast"
    BY DEF Kinds
  <2> QED
    BY <1>00, <1>02, <1>03, <1>05, <1>06, <2>1, <2>2, <2>3, <2>4, <2>5, <2>6
    DEF PayInv, OneByOne, MyTask, AllDone, CancelBegun, Running, documents, engine
<1>38. CASE UNCHANGED vars
  BY <1>38 DEF vars, order, engine, documents, driver, closing, history, PayInv, OneByOne, AllDone, MyTask, CancelBegun, Running
<1> QED
  BY <1>1, <1>2, <1>3, <1>4, <1>5, <1>6, <1>7, <1>8, <1>9, <1>10, <1>11, <1>12, <1>13, <1>14, <1>15, <1>16, <1>17, <1>18, <1>19, <1>20, <1>21, <1>22, <1>23, <1>24, <1>25, <1>26, <1>27, <1>28, <1>29, <1>30, <1>31, <1>32, <1>33, <1>34, <1>35, <1>36, <1>37, <1>38 DEF Next, WorkerStep, FaultStep, TodoStep, CancelStep

\* The values of the variables, for every value of the constants.
THEOREM OrderTypeCorrect == Spec => []OrderTypeOK
BY OrderTypeInit, OrderTypeStep, PlanInit, PlanStep, PTL DEF Spec

\* The workflow goes on with the trip that holds its tasks, for any number of
\* tries and faults.
THEOREM PlanIsCarried == Spec => []CarriedTripHoldsOrderTasks
<1>1. PlanInv => CarriedTripHoldsOrderTasks
  BY DEF PlanInv
<1> QED
  BY <1>1, OrderTypeInit, OrderTypeStep, PlanInit, PlanStep, PTL DEF Spec

\* A taxi is paid after its last delivery, for any number of tasks, however
\* updates overlap, fail and are repeated.
THEOREM TaxiIsPaidAfterDelivery == Spec => PaidAfterDelivery
<1>1. ASSUME OrderTypeOK, PlanInv, PayInv, [Next]_vars,
             taxi, wf.stage = "TRANSPORT", wf'.stage = "SUMMARY", ~raced
      PROVE  \A l \in legs : MyTask(l).status = "DONE"
  <2>00. EngineTypeOK /\ wf' # wf
    BY <1>1 DEF OrderTypeOK
  <2>1. PICK l \in legs : TellTrip(l)
    <3> USE <1>1, <2>00 DEF Completed, Failed, Abandon, Stage, engine, EngineTypeOK, WfRecord, Following, Stages
    <3>1. ~MapOrder
      BY DEF MapOrder
    <3>2. ~MapOrderFails
      BY DEF MapOrderFails
    <3>3. ~CreateTasks
      BY DEF CreateTasks
    <3>4. ~CreateTasksFails
      BY DEF CreateTasksFails
    <3>5. ~CreateTrip
      BY DEF CreateTrip
    <3>6. ~CreateTripThrows
      BY DEF CreateTripThrows
    <3>7. ~BindTasks
      BY DEF BindTasks
    <3>8. ~TripCreated
      BY DEF TripCreated
    <3>9. ~CreateTripFails
      BY DEF CreateTripFails
    <3>10. ~WorkerDies
      BY DEF WorkerDies
    <3>11. ~FindDriver
      BY DEF FindDriver
    <3>12. ~FindDriverFails
      BY DEF FindDriverFails
    <3>13. ~Schedule
      BY DEF Schedule
    <3>14. ~UpdateStaffsToTrip
      BY DEF UpdateStaffsToTrip
    <3>15. ~ScheduleFails
      BY DEF ScheduleFails
    <3>16. ~PollTransport
      BY DEF PollTransport
    <3>17. ~ReportTransport
      BY DEF ReportTransport
    <3>18. ~TransportFails
      BY DEF TransportFails
    <3>19. ~SumUp
      BY DEF SumUp
    <3>20. ~SumUpFails
      BY DEF SumUpFails
    <3>21. ~FailTrip
      BY DEF FailTrip
    <3>22. ~FailTasks
      BY DEF FailTasks
    <3>23. ~FailureFlowFails
      BY DEF FailureFlowFails
    <3>24. \A l \in legs : ~Track(l)
      BY DEF Track
    <3>25. \A l \in legs : ~CheckStart(l)
      BY DEF CheckStart
    <3>26. \A l \in legs : ~SaveTask(l)
      BY DEF SaveTask
    <3>27. \A l \in legs : ~TellTask(l)
      BY DEF TellTask, Complete, Open
    <3>28. \A l \in legs : ~ReadTrip(l)
      BY DEF ReadTrip
    <3>29. \A l \in legs : ~WriteTrip(l)
      BY DEF WriteTrip
    <3>30. \A l \in legs : ~TodoFails(l)
      BY DEF TodoFails
    <3>31. \A c \in Cancels : ~RejectTrip(c)
      BY DEF RejectTrip
    <3>32. \A c \in Cancels : ~CancelTasks(c)
      BY DEF CancelTasks
    <3>33. \A c \in Cancels : ~TerminateWorkflow(c)
      BY DEF TerminateWorkflow
    <3>34. \A c \in Cancels : ~CancelFails(c)
      BY DEF CancelFails
    <3>35. \A l \in legs, k \in Kinds : ~BeginTodo(l, k)
      BY DEF BeginTodo
    <3>36. \A c \in Cancels, role \in {"DRIVER", "PASSENGER"}, t \in Tries : ~MarkTrip(c, role, t)
      BY DEF MarkTrip
    <3>37. ~UNCHANGED vars
      BY DEF vars
    <3> QED
      BY <3>1, <3>2, <3>3, <3>4, <3>5, <3>6, <3>7, <3>8, <3>9, <3>10, <3>11, <3>12, <3>13, <3>14, <3>15, <3>16, <3>17, <3>18, <3>19, <3>20, <3>21, <3>22, <3>23, <3>24, <3>25, <3>26, <3>27, <3>28, <3>29, <3>30, <3>31, <3>32, <3>33, <3>34, <3>35, <3>36, <3>37 DEF Next, WorkerStep, FaultStep, TodoStep, CancelStep
  <2>2. trip[carried].status = "DONE" /\ Running /\ todo[l].pc # "idle" /\ carried # 0
    BY <1>1, <2>00, <2>1 DEF TellTrip, Complete, Completed, Open, Stage, At, PlanInv
  <2> QED
    BY <1>1, <2>2 DEF PayInv, OneByOne, AllDone
<1> QED
  BY <1>1, OrderTypeInit, OrderTypeStep, PlanInit, PlanStep, PayInit, PayStep, PTL DEF Spec, PaidAfterDelivery

-----------------------------------------------------------------------------
\* A step of the engine or of a worker that creates nothing: it moves the
\* workflow on, starts or gives up the failure flow, and notes a step on a trip.
EngineStep ==
    /\ UNCHANGED <<legs, tracked, gen, task, did, todo, cancel, overlap>>
    /\ \A n \in Tries : trip'[n].status = trip[n].status /\ (trip[n].ref # NoRef => trip'[n].ref # NoRef)
    /\ ~Running => wf' = wf
    /\ \/ flow' = flow
       \/ flow = "none" /\ flow' = "started" /\ wf'.status = "FAILED"
       \/ flow # "none" /\ flow' = "gaveUp" /\ wf' = wf
    /\ wf.stage \in {"TRANSPORT", "SUMMARY"} => wf'.stage \in {"TRANSPORT", "SUMMARY"}
    /\ wf'.stage \in {"MAPPING", "TASKS"} => wf.stage \in {"MAPPING", "TASKS"}
    /\ wf'.stage = "TRIP" =>
          /\ wf.stage = "TRIP"
          /\ \/ wf'.try = wf.try + 1
             \/ wf'.try = wf.try /\ (Running' /\ work' = "idle" => Running /\ work = "idle")
    /\ work' \in {"created", "bound"} => work' = work /\ wf' = wf
    /\ work' = "assigning" /\ ~raced' => work = "assigning" \/ (~CancelBegun /\ flow' = "none")
    /\ raced => raced'
    /\ carried' = carried \/ carried = 0

EngineStepAction ==
    \/ MapOrder \/ MapOrderFails \/ CreateTripThrows \/ TripCreated \/ CreateTripFails \/ WorkerDies
    \/ FindDriver \/ FindDriverFails \/ Schedule \/ ScheduleFails
    \/ PollTransport \/ ReportTransport \/ TransportFails \/ SumUp \/ SumUpFails \/ FailureFlowFails

LEMMA EngineSteps ==
    ASSUME OrderTypeOK, PlanInv, flow # "none" => ~Running, EngineStepAction
    PROVE  EngineStep
<1>00. EngineTypeOK /\ DocumentTypeOK /\ ClosingTypeOK
  BY DEF OrderTypeOK
<1>01. wf.try \in Nat
  BY <1>00, OrderAssumption DEF EngineTypeOK, WfRecord, Tries
<1> USE <1>00, <1>01 DEF EngineTypeOK, WfRecord, PlanInv, Stage, Running, EngineStep, order, engine, documents, driver, closing, history, Failed, Abandon, Completed, Following, Stages
<1>1. CASE MapOrder
  BY <1>1 DEF MapOrder
<1>2. CASE MapOrderFails
  BY <1>2 DEF MapOrderFails
<1>3. CASE CreateTripThrows
  BY <1>3 DEF CreateTripThrows
<1>4. CASE TripCreated
  BY <1>4 DEF TripCreated
<1>5. CASE CreateTripFails
  BY <1>5 DEF CreateTripFails
<1>6. CASE WorkerDies
  BY <1>6 DEF WorkerDies
<1>7. CASE FindDriver
  BY <1>7 DEF FindDriver
<1>8. CASE FindDriverFails
  BY <1>8 DEF FindDriverFails
<1>9. CASE Schedule
  BY <1>9 DEF Schedule
<1>10. CASE ScheduleFails
  BY <1>10 DEF ScheduleFails
<1>11. CASE PollTransport
  <2>1. \A n \in Tries : trip'[n].status = trip[n].status /\ (trip[n].ref # NoRef => trip'[n].ref # NoRef)
    BY <1>11, OrderAssumption DEF PollTransport, DocumentTypeOK, TripRecord, NoRef, Tries
  <2> QED
    BY <1>11, <2>1 DEF PollTransport
<1>12. CASE ReportTransport
  BY <1>12 DEF ReportTransport
<1>13. CASE TransportFails
  BY <1>13 DEF TransportFails
<1>14. CASE SumUp
  <2>1. \A n \in Tries : trip'[n].status = trip[n].status /\ (trip[n].ref # NoRef => trip'[n].ref # NoRef)
    BY <1>14 DEF SumUp, NoteSummary, DocumentTypeOK, TripRecord, NoRef, OtherRef
  <2> QED
    BY <1>14, <2>1 DEF SumUp
<1>15. CASE SumUpFails
  <2>1. \A n \in Tries : trip'[n].status = trip[n].status /\ (trip[n].ref # NoRef => trip'[n].ref # NoRef)
    <3>1. trip' = trip \/ trip' = [trip EXCEPT ![carried].ref = OtherRef]
      BY <1>15 DEF SumUpFails, NoteSummary
    <3> QED
      BY <3>1 DEF DocumentTypeOK, TripRecord, NoRef, OtherRef
  <2> QED
    BY <1>15, <2>1 DEF SumUpFails
<1>16. CASE FailureFlowFails
  BY <1>16 DEF FailureFlowFails
<1> QED
  BY <1>1, <1>2, <1>3, <1>4, <1>5, <1>6, <1>7, <1>8, <1>9, <1>10, <1>11, <1>12, <1>13, <1>14, <1>15, <1>16 DEF EngineStepAction

\* A step of an update of a todo: it touches the task of its leg and the trip
\* of the workflow, and may complete the transport.
DriverStep(l) ==
    /\ UNCHANGED <<legs, tracked, gen, carried, work, cancel, flow, overlap, raced>>
    /\ todo[l].pc # "idle"
    /\ \A m \in legs : m # l => todo'[m] = todo[m] /\ did'[m] = did[m]
    /\ \A n \in Tries, m \in legs : <<n, m>> # <<gen, l>> => task'[n][m] = task[n][m]
    /\ task'[gen][l].trip = task[gen][l].trip
    /\ \A n \in Tries : n # carried => trip'[n] = trip[n]
    /\ trip[carried].status # "none" => trip'[carried].status # "none"
    /\ \/ wf' = wf
       \/ /\ Running /\ Running' /\ wf.stage = "TRANSPORT" /\ wf'.stage = "SUMMARY"

LEMMA DriverSteps ==
    ASSUME OrderTypeOK, PlanInv, NEW l \in legs, TodoStep(l)
    PROVE  DriverStep(l)
<1>00. EngineTypeOK /\ DocumentTypeOK /\ DriverTypeOK /\ legs \subseteq Legs
  BY DEF OrderTypeOK, CountTypeOK
<1>01. ASSUME todo[l].pc # "idle" PROVE carried \in Tries /\ gen \in Tries
  BY <1>00, <1>01 DEF PlanInv, EngineTypeOK
<1> USE <1>00 DEF EngineTypeOK, WfRecord, Stage, Running, DriverStep, order, engine, documents, closing, history, DriverTypeOK, At, Goto, Completed, Complete, Open, Requeue, Following, Stages, MyTask
<1>1. CASE Track(l)
  BY <1>1 DEF Track
<1>2. CASE CheckStart(l)
  BY <1>2 DEF CheckStart
<1>3. CASE SaveTask(l)
  <2>1. gen \in Tries
    BY <1>01, <1>3 DEF SaveTask
  <2>2. /\ \A n \in Tries, m \in legs : <<n, m>> # <<gen, l>> => task'[n][m] = task[n][m]
        /\ task'[gen][l].trip = task[gen][l].trip
    BY <1>3, <2>1 DEF SaveTask, DocumentTypeOK, TaskRecord
  <2> QED
    BY <1>3, <2>2 DEF SaveTask
<1>4. CASE TellTask(l)
  BY <1>4 DEF TellTask
<1>5. CASE ReadTrip(l)
  BY <1>5 DEF ReadTrip
<1>6. CASE WriteTrip(l)
  <2>1. carried \in Tries
    BY <1>01, <1>6 DEF WriteTrip
  <2>2. trip'[carried].status # "none" /\ \A n \in Tries : n # carried => trip'[n] = trip[n]
    BY <1>6, <2>1 DEF WriteTrip, DocumentTypeOK, TripRecord
  <2> QED
    BY <1>6, <2>2 DEF WriteTrip
<1>7. CASE TellTrip(l)
  BY <1>7 DEF TellTrip
<1>8. CASE TodoFails(l)
  BY <1>8 DEF TodoFails
<1> QED
  BY <1>1, <1>2, <1>3, <1>4, <1>5, <1>6, <1>7, <1>8 DEF TodoStep

\* While no two updates overlap, at most one is under way and at most one task
\* is; an update about to start a task has found no other under way.
Doing(l) == MyTask(l).status = "DOING"
SingleInv ==
    ~overlap =>
        /\ \A l, m \in legs : todo[l].pc # "idle" /\ todo[m].pc # "idle" => l = m
        /\ gen # 0 => \A l, m \in legs : Doing(l) /\ Doing(m) => l = m
        /\ \A l \in legs : todo[l].pc = "checked" /\ todo[l].kind = "isStart" => ~OtherDoing(l)

\* A step that starts no task and leaves the updates as they are.
StartsNoTask ==
    /\ UNCHANGED <<legs, todo, overlap>>
    /\ gen' # 0 => \A l \in legs : Doing(l)' => gen # 0 /\ Doing(l)
    /\ gen # 0 => gen' # 0

LEMMA SingleKept == PlanInv /\ SingleInv /\ StartsNoTask => SingleInv'
<1> SUFFICES ASSUME PlanInv, SingleInv, StartsNoTask PROVE SingleInv'
  OBVIOUS
<1>1. \A l \in legs : todo[l].pc # "idle" => gen # 0
  BY DEF PlanInv
<1> QED
  BY <1>1 DEF SingleInv, StartsNoTask, OtherDoing, Doing

LEMMA SingleInit == Init => SingleInv
BY DEF Init, SingleInv, Idle

\* Closing tasks starts none.
LEMMA CloseStartsNoTask ==
    ASSUME EngineTypeOK, DocumentTypeOK, legs \subseteq Legs, NEW t, NEW status, status # "DOING",
           CloseTasks(t, status), UNCHANGED <<legs, todo, overlap, gen>>
    PROVE  StartsNoTask
<1> SUFFICES ASSUME NEW l \in legs, gen # 0, Doing(l)' PROVE Doing(l)
  BY DEF StartsNoTask
<1>1. gen \in Tries /\ l \in Legs
  BY DEF EngineTypeOK
<1> QED
  BY <1>1 DEF CloseTasks, Doing, MyTask, DocumentTypeOK, TaskRecord

LEMMA SingleStep ==
    ASSUME OrderTypeOK, PlanInv, flow # "none" => ~Running, SingleInv, [Next]_vars
    PROVE  SingleInv'
<1>00. EngineTypeOK /\ DocumentTypeOK /\ DriverTypeOK /\ ClosingTypeOK /\ CountTypeOK
  BY DEF OrderTypeOK
<1>01. legs \subseteq Legs
  BY <1>00 DEF CountTypeOK
<1>02. StartsNoTask => SingleInv'
  BY SingleKept
<1>03. UNCHANGED <<legs, todo, overlap, gen, task>> => StartsNoTask
  BY DEF StartsNoTask, Doing, MyTask
<1>1. CASE EngineStepAction
  BY <1>1, <1>02, <1>03, EngineSteps DEF EngineStep
<1>2. CASE CreateTasks
  <2>1. gen' \in Tries /\ \A l \in legs : task'[gen'][l].status = "PENDING"
    BY <1>00, <1>01, <1>2 DEF CreateTasks, Creates, NewTask, EngineTypeOK, WfRecord, DocumentTypeOK
  <2>2. gen = 0 /\ gen' # 0 /\ UNCHANGED <<legs, todo, overlap>>
    BY <1>2, <2>1, OrderAssumption DEF CreateTasks, PlanInv, Stage, Tries, order, driver, history
  <2>3. \A l \in legs : ~Doing(l)'
    BY <2>1, <2>2 DEF Doing, MyTask
  <2> QED
    BY <1>02, <2>2, <2>3 DEF StartsNoTask
<1>3. CASE CreateTasksFails
  <2>1. gen = 0 /\ UNCHANGED <<legs, todo, overlap, gen>>
    BY <1>3 DEF CreateTasksFails, PlanInv, Stage, order, driver, history
  <2> QED
    BY <1>02, <2>1 DEF StartsNoTask
<1>4. CASE CreateTrip
  BY <1>4, <1>02, <1>03 DEF CreateTrip, order, driver, history
<1>5. CASE BindTasks
  <2>1. UNCHANGED <<legs, todo, overlap, gen>>
    BY <1>5 DEF BindTasks, order, driver, history
  <2>2. ASSUME NEW l \in legs, gen # 0, Doing(l)' PROVE Doing(l)
    BY <1>00, <1>01, <1>5, <2>1, <2>2 DEF BindTasks, Doing, MyTask, EngineTypeOK, DocumentTypeOK, TaskRecord
  <2> QED
    BY <1>02, <2>1, <2>2 DEF StartsNoTask
<1>6. CASE UpdateStaffsToTrip
  BY <1>6, <1>02, <1>03 DEF UpdateStaffsToTrip, order, driver, history
<1>7. CASE FailTrip
  BY <1>7, <1>02, <1>03 DEF FailTrip, order, engine, driver
<1>8. CASE FailTasks
  BY <1>00, <1>01, <1>02, <1>8, CloseStartsNoTask DEF FailTasks, order, engine, driver, history
<1>9. ASSUME NEW c \in Cancels, RejectTrip(c) \/ TerminateWorkflow(c) \/ CancelFails(c) PROVE SingleInv'
  BY <1>9, <1>02, <1>03 DEF RejectTrip, TerminateWorkflow, CancelFails, order, engine, driver, documents, history
<1>10. ASSUME NEW c \in Cancels, CancelTasks(c) PROVE SingleInv'
  <2>1. StatusOf[cancel[c].role] # "DOING"
    BY <1>00 DEF StatusOf, ClosingTypeOK, CancelRecord
  <2> QED
    BY <1>00, <1>01, <1>02, <1>10, <2>1, CloseStartsNoTask DEF CancelTasks, order, engine, driver, history
<1>11. ASSUME NEW c \in Cancels, NEW role \in {"DRIVER", "PASSENGER"}, NEW t \in Tries, MarkTrip(c, role, t) PROVE SingleInv'
  BY <1>11, <1>02, <1>03 DEF MarkTrip, order, engine, driver
<1>12. ASSUME NEW l \in legs, NEW k \in Kinds, BeginTodo(l, k) PROVE SingleInv'
  <2>1. UNCHANGED <<legs, gen, task>> /\ (overlap => overlap')
    BY <1>12 DEF BeginTodo, order, engine, documents
  <2>2. todo'[l].pc = "marked"
    BY <1>00, <1>01, <1>12 DEF BeginTodo, DriverTypeOK, Idle
  <2>3. ~overlap' => \A m \in legs : todo[m].pc = "idle"
    BY <1>00, <1>12 DEF BeginTodo, At, CountTypeOK
  <2>4. \A m \in legs : m # l => todo'[m] = todo[m]
    BY <1>00, <1>01, <1>12 DEF BeginTodo, DriverTypeOK
  <2> QED
    BY <2>1, <2>2, <2>3, <2>4 DEF SingleInv, Doing, MyTask
<1>13. ASSUME NEW l \in legs, TodoStep(l) PROVE SingleInv'
  <2>1. DriverStep(l)
    BY <1>13, DriverSteps
  <2>2. gen # 0
    BY <2>1 DEF DriverStep, PlanInv
  <2>3. \A m \in legs : m # l => MyTask(m)' = MyTask(m)
    BY <1>00, <2>1, <2>2 DEF DriverStep, MyTask, EngineTypeOK
  <2>4. UNCHANGED <<legs, overlap, gen>> /\ \A m \in legs : m # l => todo'[m] = todo[m]
    BY <2>1 DEF DriverStep
  <2>5. OtherDoing(l)' <=> OtherDoing(l)
    BY <2>3, <2>4 DEF OtherDoing
  <2>6. CASE SaveTask(l)
    <3>1. todo[l].pc = "checked" /\ todo'[l].pc = "saved" /\ (Doing(l)' => todo[l].kind = "isStart")
      BY <1>00, <1>01, <2>2, <2>4, <2>6 DEF SaveTask, At, Goto, Doing, MyTask, EngineTypeOK, DocumentTypeOK, TaskRecord, DriverTypeOK, TodoRecord
    <3> QED
      BY <2>1, <2>2, <2>3, <2>4, <2>5, <3>1 DEF SingleInv, Doing, OtherDoing, DriverStep
  <2>7. CASE ~SaveTask(l)
    <3>1. UNCHANGED task
      BY <1>13, <2>7 DEF TodoStep, Track, CheckStart, TellTask, ReadTrip, WriteTrip, TellTrip, TodoFails, documents
    <3>2. todo'[l].pc = "checked" /\ todo'[l].kind = "isStart" => ~OtherDoing(l)
      <4> USE <1>00, <1>01 DEF At, Goto, DriverTypeOK, TodoRecord
      <4>1. CASE Track(l)
        BY <4>1 DEF Track
      <4>2. CASE CheckStart(l)
        BY <4>2 DEF CheckStart
      <4>3. CASE TellTask(l)
        BY <4>3 DEF TellTask
      <4>4. CASE ReadTrip(l)
        BY <4>4 DEF ReadTrip
      <4>5. CASE WriteTrip(l)
        BY <4>5 DEF WriteTrip
      <4>6. CASE TellTrip(l)
        BY <4>6 DEF TellTrip, Idle
      <4>7. CASE TodoFails(l)
        BY <4>7 DEF TodoFails, Idle
      <4> QED
        BY <1>13, <2>7, <4>1, <4>2, <4>3, <4>4, <4>5, <4>6, <4>7 DEF TodoStep
    <3>3. \A m \in legs : MyTask(m)' = MyTask(m)
      BY <2>4, <3>1 DEF MyTask
    <3> QED
      BY <2>1, <2>2, <2>3, <2>4, <2>5, <3>2, <3>3 DEF SingleInv, Doing, DriverStep, OtherDoing
  <2> QED
    BY <2>6, <2>7
<1>14. CASE UNCHANGED vars
  BY <1>14, <1>02, <1>03 DEF vars, order, engine, driver, documents, history
<1> QED
  BY <1>1, <1>2, <1>3, <1>4, <1>5, <1>6, <1>7, <1>8, <1>9, <1>10, <1>11, <1>12, <1>13, <1>14
  DEF Next, WorkerStep, FaultStep, CancelStep, EngineStepAction

\* Which todos are marked: nothing before the transport, the last one only
\* after the first, and the one an update is about.
MarksInv ==
    /\ wf.stage \notin {"TRANSPORT", "SUMMARY"} => \A l \in legs : did[l] = {} /\ todo[l].pc = "idle"
    /\ \A l \in legs :
        /\ "isLast" \in did[l] => "isStart" \in did[l]
        /\ todo[l].pc # "idle" => todo[l].kind \in did[l]
        /\ todo[l].pc # "idle" /\ todo[l].kind = "isStart" => "isLast" \notin did[l]

LEMMA MarksInit == Init => MarksInv
BY DEF Init, MarksInv, Idle

\* Steps of the engine, of its workers and of whoever closes the order.
LEMMA MarksKept ==
    ASSUME MarksInv, UNCHANGED <<legs, did, todo>>,
           wf.stage \in {"TRANSPORT", "SUMMARY"} => wf'.stage \in {"TRANSPORT", "SUMMARY"}
    PROVE  MarksInv'
BY DEF MarksInv

\* What an update of a todo does to its own record and marks.
LEMMA UpdateMarks ==
    ASSUME OrderTypeOK, NEW l \in legs, TodoStep(l)
    PROVE  \/ did'[l] = did[l] /\ todo'[l].kind = todo[l].kind
           \/ did'[l] = did[l] /\ todo'[l].pc = "idle"
           \/ did'[l] = did[l] \ {todo[l].kind} /\ todo'[l].pc = "idle" /\ UNCHANGED documents
<1>00. DriverTypeOK /\ legs \subseteq Legs
  BY DEF OrderTypeOK, CountTypeOK
<1> USE <1>00 DEF At, Goto, DriverTypeOK, TodoRecord
<1>1. CASE Track(l)
  BY <1>1 DEF Track
<1>2. CASE CheckStart(l)
  BY <1>2 DEF CheckStart
<1>3. CASE SaveTask(l)
  BY <1>3 DEF SaveTask
<1>4. CASE TellTask(l)
  BY <1>4 DEF TellTask
<1>5. CASE ReadTrip(l)
  BY <1>5 DEF ReadTrip
<1>6. CASE WriteTrip(l)
  BY <1>6 DEF WriteTrip
<1>7. CASE TellTrip(l)
  BY <1>7 DEF TellTrip, Idle
<1>8. CASE TodoFails(l)
  BY <1>8 DEF TodoFails, Idle
<1> QED
  BY <1>1, <1>2, <1>3, <1>4, <1>5, <1>6, <1>7, <1>8 DEF TodoStep

LEMMA MarksStep ==
    ASSUME OrderTypeOK, PlanInv, flow # "none" => ~Running, MarksInv, [Next]_vars
    PROVE  MarksInv'
<1>00. EngineTypeOK /\ DriverTypeOK /\ legs \subseteq Legs
  BY DEF OrderTypeOK, CountTypeOK
<1>1. CASE EngineStepAction
  BY <1>1, MarksKept, EngineSteps DEF EngineStep
<1>2. CASE CreateTasks \/ CreateTasksFails
  BY <1>2, MarksKept DEF CreateTasks, CreateTasksFails, Stage, order, driver
<1>3. CASE CreateTrip \/ BindTasks \/ FailTrip \/ FailTasks
  BY <1>3, MarksKept DEF CreateTrip, BindTasks, FailTrip, FailTasks, order, engine, driver
<1>4. CASE UpdateStaffsToTrip
  BY <1>4, MarksKept DEF UpdateStaffsToTrip, PlanInv, order, driver
<1>5. ASSUME NEW c \in Cancels, CancelStep(c) \/ CancelFails(c) PROVE MarksInv'
  <2>1. UNCHANGED <<legs, did, todo>> /\ wf'.stage = wf.stage
    BY <1>00, <1>5 DEF CancelStep, RejectTrip, CancelTasks, TerminateWorkflow, CancelFails, order, engine, driver, EngineTypeOK, WfRecord
  <2> QED
    BY <2>1, MarksKept
<1>6. ASSUME NEW c \in Cancels, NEW role \in {"DRIVER", "PASSENGER"}, NEW t \in Tries, MarkTrip(c, role, t) PROVE MarksInv'
  BY <1>6, MarksKept DEF MarkTrip, order, engine, driver
<1>7. ASSUME NEW l \in legs, NEW k \in Kinds, BeginTodo(l, k) PROVE MarksInv'
  <2>1. UNCHANGED <<legs, wf>> /\ wf.stage \in {"TRANSPORT", "SUMMARY"}
    BY <1>7 DEF BeginTodo, order, engine
  <2>2. /\ k \notin did[l] /\ (k = "isLast" => "isStart" \in did[l])
        /\ did'[l] = did[l] \union {k} /\ todo'[l].kind = k
        /\ \A m \in legs : m # l => did'[m] = did[m] /\ todo'[m] = todo[m]
    BY <1>00, <1>7 DEF BeginTodo, DriverTypeOK, Idle
  <2>3. k \in {"isStart", "isLast"} /\ did[l] \subseteq {"isStart", "isLast"}
    BY <1>00 DEF Kinds, DriverTypeOK
  <2> QED
    BY <2>1, <2>2, <2>3 DEF MarksInv
<1>8. ASSUME NEW l \in legs, TodoStep(l) PROVE MarksInv'
  <2>1. DriverStep(l)
    BY <1>8, DriverSteps
  <2>2. todo[l].kind \in {"isStart", "isLast"}
    BY <1>00 DEF DriverTypeOK, TodoRecord, Kinds
  <2> QED
    BY <1>8, <2>1, <2>2, UpdateMarks DEF MarksInv, DriverStep
<1>9. CASE UNCHANGED vars
  BY <1>9, MarksKept DEF vars, order, engine, driver
<1> QED
  BY <1>1, <1>2, <1>3, <1>4, <1>5, <1>6, <1>7, <1>8, <1>9
  DEF Next, WorkerStep, FaultStep, EngineStepAction

\* While nobody disturbs the driver: an update that has read the trip knows
\* whether all tasks are done, a DONE trip has done tasks only, and once every
\* last todo is marked and saved the trip is DONE.
Saved == {"saved", "told", "seen", "written"}
Undisturbed == carried # 0 /\ ~overlap /\ ~CancelBegun /\ flow = "none"
DoneInv ==
    Undisturbed =>
        /\ \A l \in legs : todo[l].pc = "seen" => (todo[l].done <=> AllDone)
        /\ trip[carried].status = "DONE" => AllDone
        /\ \A l \in legs : "isLast" \in did[l] /\ todo[l].pc \in Saved \union {"idle"} => MyTask(l).status = "DONE"
        /\ (\A l \in legs : "isLast" \in did[l]) /\ (\A l \in legs : todo[l].pc \in {"idle", "written"})
            => trip[carried].status = "DONE"

LEMMA DoneInit == Init => DoneInv
BY DEF Init, DoneInv, Undisturbed

\* A step that leaves the documents of the order as they are.
LEMMA DoneKept ==
    ASSUME DoneInv, UNCHANGED <<legs, did, todo, gen, carried, overlap, task>>, Undisturbed' => Undisturbed,
           trip'[carried].status = trip[carried].status
    PROVE  DoneInv'
BY DEF DoneInv, AllDone, MyTask

LEMMA DoneStep ==
    ASSUME OrderTypeOK, PlanInv, PayInv, SingleInv, MarksInv, DoneInv, [Next]_vars
    PROVE  DoneInv'
<1>00. EngineTypeOK /\ DocumentTypeOK /\ DriverTypeOK /\ ClosingTypeOK /\ CountTypeOK
  BY DEF OrderTypeOK
<1>01. legs \subseteq Legs
  BY <1>00 DEF CountTypeOK
<1>02. flow # "none" => ~Running
  BY DEF PayInv
<1>03. carried # 0 => carried \in Tries /\ gen \in Tries
  BY <1>00 DEF EngineTypeOK, PlanInv
<1>04. \E l \in legs : TRUE
  BY <1>00 DEF CountTypeOK
<1>1. CASE EngineStepAction
  <2>1. EngineStep
    BY <1>02, <1>1, EngineSteps
  <2>2. CASE carried # 0
    <3>1. carried' = carried /\ (Undisturbed' => Undisturbed)
      BY <2>1, <2>2 DEF EngineStep, Undisturbed, CancelBegun
    <3> QED
      BY <1>03, <2>1, <2>2, <3>1, DoneKept DEF EngineStep
  <2>3. CASE carried = 0
    <3>1. \A n \in Tries : trip'[n].status # "DONE"
      BY <2>1, <2>3, OrderAssumption DEF EngineStep, PayInv, Tries
    <3>2. \A l \in legs : did[l] = {} /\ todo[l].pc = "idle"
      BY <2>3 DEF PlanInv, MarksInv
    <3>3. carried' # 0 => carried' \in Tries
      BY <1>1, <1>00, <2>1, OrderTypeStep DEF OrderTypeOK, EngineTypeOK, EngineStepAction, Next, WorkerStep, FaultStep
    <3> QED
      BY <1>04, <2>1, <3>1, <3>2, <3>3 DEF EngineStep, DoneInv, Undisturbed
  <2> QED
    BY <2>2, <2>3
<1>2. CASE CreateTasks \/ CreateTasksFails \/ CreateTrip \/ BindTasks
  <2>1. carried = 0 /\ carried' = carried
    BY <1>2 DEF CreateTasks, CreateTasksFails, CreateTrip, BindTasks, PlanInv, Stage
  <2> QED
    BY <2>1 DEF DoneInv, Undisturbed
<1>3. CASE UpdateStaffsToTrip
  <2>1. wf.stage = "SCHEDULE" /\ UNCHANGED <<legs, did, todo, carried>>
    BY <1>3 DEF UpdateStaffsToTrip, PlanInv, order, driver
  <2>2. \A l \in legs : did[l] = {} /\ todo[l].pc = "idle"
    BY <2>1 DEF MarksInv
  <2>3. UNCHANGED <<gen, task, overlap>> /\ (Undisturbed' => Undisturbed)
    BY <1>3, <2>1 DEF UpdateStaffsToTrip, closing, history, Undisturbed, CancelBegun
  <2>4. carried # 0 /\ trip'[carried].status = "DONE" => trip[carried].status = "DONE"
    BY <1>00, <1>03, <1>3 DEF UpdateStaffsToTrip, DocumentTypeOK, TripRecord
  <2> QED
    BY <1>04, <2>1, <2>2, <2>3, <2>4 DEF DoneInv, AllDone, MyTask, Undisturbed
<1>4. CASE FailTrip \/ FailTasks
  BY <1>4 DEF FailTrip, FailTasks, DoneInv, Undisturbed
<1>5. ASSUME NEW c \in Cancels, CancelStep(c) \/ CancelFails(c) PROVE DoneInv'
  <2>1. CancelBegun'
    BY <1>00, <1>5 DEF CancelStep, RejectTrip, CancelTasks, TerminateWorkflow, CancelFails, CancelBegun, ClosingTypeOK, CancelRecord
  <2> QED
    BY <2>1 DEF DoneInv, Undisturbed
<1>6. ASSUME NEW c \in Cancels, NEW role \in {"DRIVER", "PASSENGER"}, NEW t \in Tries, MarkTrip(c, role, t) PROVE DoneInv'
  <2>1. CASE MayCancel(role, t)
    <3>1. CancelBegun'
      BY <1>00, <1>6, <2>1 DEF MarkTrip, CancelBegun, ClosingTypeOK, CancelRecord
    <3> QED
      BY <3>1 DEF DoneInv, Undisturbed
  <2>2. CASE ~MayCancel(role, t)
    <3>1. CancelBegun' <=> CancelBegun
      BY <1>00, <1>6, <2>2 DEF MarkTrip, CancelBegun, ClosingTypeOK, CancelRecord
    <3> QED
      BY <1>6, <2>2, <3>1, DoneKept DEF MarkTrip, order, engine, driver, Undisturbed
  <2> QED
    BY <2>1, <2>2
<1>7. ASSUME NEW l \in legs, NEW k \in Kinds, BeginTodo(l, k) PROVE DoneInv'
  <2>1. UNCHANGED <<legs, gen, carried, task, trip, cancel, flow>>
    BY <1>7 DEF BeginTodo, order, engine, documents, closing
  <2>2. ~overlap' => ~overlap /\ \A m \in legs : todo[m].pc = "idle"
    BY <1>00, <1>7 DEF BeginTodo, At, CountTypeOK
  <2>3. todo'[l].pc = "marked" /\ \A m \in legs : m # l => did'[m] = did[m] /\ todo'[m] = todo[m]
    BY <1>00, <1>01, <1>7 DEF BeginTodo, DriverTypeOK, Idle
  <2>4. Undisturbed' => Undisturbed
    BY <2>1, <2>2 DEF Undisturbed, CancelBegun
  <2> QED
    BY <2>1, <2>2, <2>3, <2>4 DEF DoneInv, AllDone, MyTask, Saved, Undisturbed
<1>8. ASSUME NEW l \in legs, TodoStep(l) PROVE DoneInv'
  <2> SUFFICES ASSUME Undisturbed' PROVE DoneInv'
    BY DEF DoneInv
  <2>1. DriverStep(l)
    BY <1>8, DriverSteps
  <2>2. Undisturbed /\ carried \in Tries /\ gen \in Tries /\ todo[l].pc # "idle"
    BY <1>03, <2>1 DEF DriverStep, Undisturbed, CancelBegun
  <2>3. UNCHANGED <<legs, gen, carried>> /\ \A m \in legs : m # l => todo'[m] = todo[m] /\ did'[m] = did[m] /\ MyTask(m)' = MyTask(m)
    BY <2>1, <2>2 DEF DriverStep, MyTask
  <2>4. \A m \in legs : m # l => todo[m].pc = "idle"
    BY <2>2 DEF SingleInv, Undisturbed
  <2>5. gen # 0
    BY <2>2, OrderAssumption DEF Tries
  <2>6. /\ todo[l].kind \in {"isStart", "isLast"} /\ todo[l].kind \in did[l]
        /\ todo[l].kind = "isStart" => "isLast" \notin did[l]
        /\ MyTask(l).status = "DONE" => todo[l].kind = "isLast"
    BY <1>00, <1>01, <2>2, <2>5 DEF MarksInv, PayInv, DriverTypeOK, TodoRecord, Kinds
  <2>7. \A m \in legs : m # l /\ "isLast" \in did[m] => MyTask(m).status = "DONE"
    BY <2>2, <2>4 DEF DoneInv
  <2> USE <1>00, <1>01, <2>2, <2>3, <2>4, <2>5, <2>6, <2>7
  <2>10. CASE Track(l) \/ CheckStart(l)
    <3>1. UNCHANGED <<trip, task, did>> /\ todo[l].pc \in {"marked", "tracked"} /\ todo'[l].pc \in {"tracked", "checked"}
      <4>1. CASE Track(l)
        BY <4>1 DEF Track, At, documents, DriverTypeOK
      <4>2. CASE CheckStart(l)
        BY <4>2 DEF CheckStart, At, Goto, documents, DriverTypeOK
      <4> QED
        BY <2>10, <4>1, <4>2
    <3> QED
      BY <3>1 DEF DoneInv, AllDone, MyTask, Saved
  <2>11. CASE SaveTask(l)
    <3>1. UNCHANGED <<trip, did>> /\ todo'[l].pc = "saved" /\ MyTask(l)'.status = IF todo[l].kind = "isStart" THEN "DOING" ELSE "DONE"
      BY <2>11 DEF SaveTask, At, Goto, MyTask, DriverTypeOK, DocumentTypeOK, TaskRecord
    <3>2. trip[carried].status = "DONE" => AllDone'
      BY <3>1 DEF DoneInv, AllDone
    <3> QED
      BY <3>1, <3>2 DEF DoneInv, Saved
  <2>12. CASE TellTask(l)
    <3>1. UNCHANGED <<trip, task, did>> /\ todo[l].pc = "saved" /\ todo'[l].pc = "told"
      BY <2>12 DEF TellTask, At, Goto, documents, DriverTypeOK
    <3> QED
      BY <3>1 DEF DoneInv, AllDone, MyTask, Saved
  <2>13. CASE ReadTrip(l)
    <3>1. UNCHANGED <<trip, task, did>> /\ todo[l].pc = "told" /\ todo'[l].pc = "seen" /\ (todo'[l].done <=> AllDone)
      BY <2>13 DEF ReadTrip, At, AllDone, documents, DriverTypeOK, TodoRecord
    <3> QED
      BY <3>1 DEF DoneInv, AllDone, MyTask, Saved
  <2>14. CASE WriteTrip(l)
    <3>1. UNCHANGED <<task, did>> /\ todo[l].pc = "seen" /\ todo'[l].pc = "written"
      BY <2>14 DEF WriteTrip, At, Goto, DriverTypeOK
    <3>2. trip'[carried].status = IF todo[l].done THEN "DONE" ELSE "DOING"
      BY <2>14 DEF WriteTrip, DocumentTypeOK, TripRecord
    <3>3. (todo[l].done <=> AllDone) /\ AllDone' = AllDone
      BY <3>1 DEF DoneInv, AllDone, MyTask
    <3>4. (\A m \in legs : "isLast" \in did[m]) => AllDone
      BY <3>1 DEF DoneInv, AllDone, Saved
    <3> QED
      BY <3>1, <3>2, <3>3, <3>4 DEF DoneInv, AllDone, MyTask, Saved
  <2>15. CASE TellTrip(l)
    <3>1. UNCHANGED <<trip, task, did>> /\ todo[l].pc = "written" /\ todo'[l].pc = "idle"
      BY <2>15 DEF TellTrip, At, Idle, documents, DriverTypeOK
    <3> QED
      BY <3>1 DEF DoneInv, AllDone, MyTask, Saved
  <2>16. CASE TodoFails(l)
    <3>1. UNCHANGED <<trip, task>> /\ did'[l] = did[l] \ {todo[l].kind} /\ todo'[l].pc = "idle"
      BY <2>16 DEF TodoFails, Idle, documents, DriverTypeOK
    <3>2. "isLast" \notin did'[l]
      BY <3>1
    <3> QED
      BY <3>1, <3>2 DEF DoneInv, AllDone, MyTask, Saved
  <2> QED
    BY <1>8, <2>10, <2>11, <2>12, <2>13, <2>14, <2>15, <2>16 DEF TodoStep
<1>9. CASE UNCHANGED vars
  BY <1>9, DoneKept DEF vars, order, engine, documents, driver, closing, history, Undisturbed, CancelBegun
<1> QED
  BY <1>1, <1>2, <1>3, <1>4, <1>5, <1>6, <1>7, <1>8, <1>9
  DEF Next, WorkerStep, FaultStep, EngineStepAction

\* Nothing removes a trip.
LEMMA TripsStay ==
    ASSUME OrderTypeOK, PlanInv, flow # "none" => ~Running, [Next]_vars
    PROVE  \A n \in Tries : trip[n].status # "none" => trip'[n].status # "none"
<1>00. EngineTypeOK /\ DocumentTypeOK /\ ClosingTypeOK
  BY DEF OrderTypeOK
<1>1. CASE EngineStepAction
  BY <1>1, EngineSteps DEF EngineStep
<1>2. CASE CreateTrip
  BY <1>00, <1>2 DEF CreateTrip, NewTrip, DocumentTypeOK
<1>3. CASE UpdateStaffsToTrip \/ FailTrip
  BY <1>00, <1>3 DEF UpdateStaffsToTrip, FailTrip, DocumentTypeOK, TripRecord
<1>4. ASSUME NEW c \in Cancels, RejectTrip(c)
      PROVE  \A n \in Tries : trip[n].status # "none" => trip'[n].status # "none"
  BY <1>00, <1>4 DEF RejectTrip, DocumentTypeOK, TripRecord
<1>5. ASSUME NEW c \in Cancels, NEW role \in {"DRIVER", "PASSENGER"}, NEW t \in Tries, MarkTrip(c, role, t)
      PROVE  \A n \in Tries : trip[n].status # "none" => trip'[n].status # "none"
  <2>1. StatusOf[role] # "none"
    BY DEF StatusOf
  <2> QED
    BY <1>00, <1>5, <2>1 DEF MarkTrip, DocumentTypeOK, TripRecord
<1>6. ASSUME NEW l \in legs, TodoStep(l)
      PROVE  \A n \in Tries : trip[n].status # "none" => trip'[n].status # "none"
  BY <1>6, DriverSteps DEF DriverStep
<1>7. CASE UNCHANGED trip
  BY <1>7
<1> QED
  BY <1>1, <1>2, <1>3, <1>4, <1>5, <1>6, <1>7
  DEF Next, WorkerStep, FaultStep, CancelStep, EngineStepAction, CreateTasks, CreateTasksFails, BindTasks, FailTasks,
      CancelTasks, TerminateWorkflow, CancelFails, BeginTodo, vars, documents

\* A cancellation that has begun is about a trip that was made.
Begun(c) == cancel[c].pc \notin {"idle", "refused"}
MadeInv ==
    \A c \in Cancels : Begun(c) => cancel[c].trip \in Tries /\ trip[cancel[c].trip].status # "none"

LEMMA MadeInit == Init => MadeInv
BY DEF Init, MadeInv, Begun

LEMMA MadeStep ==
    ASSUME OrderTypeOK, PlanInv, flow # "none" => ~Running, MadeInv, [Next]_vars
    PROVE  MadeInv'
<1>00. ClosingTypeOK /\ DocumentTypeOK
  BY DEF OrderTypeOK
<1>1. CASE UNCHANGED cancel
  BY <1>1, TripsStay DEF MadeInv, Begun
<1>2. ASSUME NEW c \in Cancels, CancelStep(c) \/ CancelFails(c) PROVE MadeInv'
  <2>1. Begun(c) /\ \A d \in Cancels : cancel'[d].trip = cancel[d].trip /\ (d # c => cancel'[d] = cancel[d])
    BY <1>00, <1>2 DEF CancelStep, RejectTrip, CancelTasks, TerminateWorkflow, CancelFails, Begun, ClosingTypeOK, CancelRecord
  <2> QED
    BY <2>1, TripsStay DEF MadeInv, Begun
<1>3. ASSUME NEW c \in Cancels, NEW role \in {"DRIVER", "PASSENGER"}, NEW t \in Tries, MarkTrip(c, role, t) PROVE MadeInv'
  <2>1. trip[t].status # "none" /\ (Begun(c)' => cancel'[c].trip = t) /\ \A d \in Cancels : d # c => cancel'[d] = cancel[d]
    BY <1>00, <1>3 DEF MarkTrip, Begun, ClosingTypeOK, CancelRecord
  <2> QED
    BY <2>1, TripsStay DEF MadeInv, Begun
<1> QED
  <2>1. EngineStepAction => UNCHANGED cancel
    BY EngineSteps DEF EngineStep
  <2>2. \A l \in legs : TodoStep(l) => UNCHANGED cancel
    BY DriverSteps DEF DriverStep
  <2> QED
    BY <1>1, <1>2, <1>3, <2>1, <2>2
    DEF Next, WorkerStep, FaultStep, EngineStepAction, CreateTasks, CreateTasksFails, CreateTrip, BindTasks,
        UpdateStaffsToTrip, FailTrip, FailTasks, BeginTodo, vars, closing

\* The tries that have made no trip yet.
FreshInv ==
    /\ wf.stage \in {"MAPPING", "TASKS"} => \A n \in Tries : trip[n].status = "none"
    /\ wf.stage = "TRIP" =>
        /\ \A n \in Tries : n > wf.try => trip[n].status = "none"
        /\ Running /\ work = "idle" => trip[wf.try].status = "none"

LEMMA FreshInit == Init => FreshInv
BY OrderAssumption DEF Init, FreshInv, NewTrip, Tries

\* A step that makes no trip while the engine keeps its place.
LEMMA FreshKept ==
    ASSUME EngineTypeOK, FreshInv, UNCHANGED work, wf'.stage = wf.stage, wf'.try = wf.try, Running' => Running,
           \A n \in Tries : trip[n].status = "none" => trip'[n].status = "none"
    PROVE  FreshInv'
BY DEF FreshInv, EngineTypeOK, WfRecord

LEMMA FreshStep ==
    ASSUME OrderTypeOK, PlanInv, flow # "none" => ~Running, MadeInv, FreshInv, [Next]_vars
    PROVE  FreshInv'
<1>00. EngineTypeOK /\ DocumentTypeOK /\ ClosingTypeOK /\ OrderTypeOK'
  BY OrderTypeStep DEF OrderTypeOK
<1>01. /\ wf.try \in Tries /\ wf.try \in Nat /\ wf'.try \in Tries /\ wf'.try \in Nat
       /\ \A n \in Tries : n \in Nat
  BY <1>00, OrderAssumption DEF OrderTypeOK, EngineTypeOK, WfRecord, Tries
<1>1. CASE EngineStepAction
  <2>1. EngineStep
    BY <1>1, EngineSteps
  <2>2. \A n \in Tries : trip'[n].status = trip[n].status
    BY <2>1 DEF EngineStep
  <2>3. wf'.stage \in {"MAPPING", "TASKS"} => wf.stage \in {"MAPPING", "TASKS"}
    BY <2>1 DEF EngineStep
  <2>4. ASSUME wf'.stage = "TRIP" PROVE FreshInv'
    <3>1. /\ \A n \in Tries : n > wf.try => trip'[n].status = "none"
          /\ Running /\ work = "idle" => trip'[wf.try].status = "none"
      BY <1>01, <2>1, <2>2, <2>4 DEF FreshInv, EngineStep
    <3>2. CASE wf'.try = wf.try
      <4>1. Running' /\ work' = "idle" => Running /\ work = "idle"
        BY <1>01, <2>1, <2>4, <3>2 DEF EngineStep
      <4> QED
        BY <2>4, <3>1, <3>2, <4>1 DEF FreshInv
    <3>3. CASE wf'.try = wf.try + 1
      <4>1. wf'.try > wf.try /\ \A n \in Tries : n > wf'.try => n > wf.try
        BY <1>01, <3>3
      <4>2. trip'[wf'.try].status = "none" /\ \A n \in Tries : n > wf'.try => trip'[n].status = "none"
        BY <1>01, <3>1, <4>1
      <4> QED
        BY <2>4, <4>2 DEF FreshInv
    <3> QED
      BY <2>1, <2>4, <3>2, <3>3 DEF EngineStep
  <2> QED
    BY <2>2, <2>3, <2>4 DEF FreshInv
<1>2. CASE CreateTasks
  <2>1. UNCHANGED trip /\ wf.stage = "TASKS" /\ wf'.stage = "TRIP"
    BY <1>00, <1>2 DEF CreateTasks, Completed, Stage, Following, Stages, EngineTypeOK, WfRecord
  <2> QED
    BY <1>01, <2>1 DEF FreshInv
<1>3. CASE CreateTasksFails
  <2>1. UNCHANGED trip /\ wf.stage = "TASKS" /\ wf'.stage = "TASKS"
    BY <1>00, <1>3 DEF CreateTasksFails, Failed, Abandon, Stage, EngineTypeOK, WfRecord
  <2> QED
    BY <1>01, <2>1 DEF FreshInv
<1>4. CASE CreateTrip
  <2>1. wf.stage = "TRIP" /\ wf' = wf /\ work' # "idle"
    BY <1>4 DEF CreateTrip, Stage
  <2>2. \A n \in Tries : n # wf.try => trip'[n] = trip[n]
    BY <1>00, <1>4 DEF CreateTrip, DocumentTypeOK
  <2> QED
    BY <1>01, <2>1, <2>2 DEF FreshInv
<1>5. CASE BindTasks
  BY <1>00, <1>5 DEF BindTasks, PlanInv, FreshInv
<1>6. CASE UpdateStaffsToTrip
  <2>1. wf.stage = "SCHEDULE" /\ wf'.stage \in {"SCHEDULE", "TRANSPORT"}
    BY <1>00, <1>6 DEF UpdateStaffsToTrip, PlanInv, Completed, Following, Stages, EngineTypeOK, WfRecord
  <2> QED
    BY <2>1 DEF FreshInv
<1>7. CASE FailTrip
  <2>1. CASE LastStepNamesTrip
    BY <1>7, <2>1 DEF FailTrip, engine, FreshInv, LastStepNamesTrip
  <2>2. CASE ~LastStepNamesTrip
    BY <1>00, <1>7, <2>2, FreshKept DEF FailTrip, engine, Running
  <2> QED
    BY <2>1, <2>2
<1>8. CASE FailTasks \/ UNCHANGED vars
  BY <1>00, <1>8, FreshKept DEF FailTasks, vars, engine, documents, Running
<1>9. ASSUME NEW c \in Cancels, CancelTasks(c) \/ TerminateWorkflow(c) \/ CancelFails(c) PROVE FreshInv'
  <2>1. UNCHANGED <<trip, work>> /\ (wf' = wf \/ wf' = [wf EXCEPT !.status = "TERMINATED"])
    BY <1>9 DEF CancelTasks, TerminateWorkflow, CancelFails, engine, documents
  <2> QED
    BY <1>00, <2>1, FreshKept DEF Running, EngineTypeOK, WfRecord
<1>10. ASSUME NEW c \in Cancels, RejectTrip(c) PROVE FreshInv'
  <2>1. cancel[c].trip \in Tries /\ trip[cancel[c].trip].status # "none"
    BY <1>10 DEF RejectTrip, MadeInv, Begun
  <2>2. \A n \in Tries : trip[n].status = "none" => trip'[n].status = "none"
    BY <1>00, <1>10, <2>1 DEF RejectTrip, DocumentTypeOK
  <2> QED
    BY <1>00, <1>10, <2>2, FreshKept DEF RejectTrip, engine, Running
<1>11. ASSUME NEW c \in Cancels, NEW role \in {"DRIVER", "PASSENGER"}, NEW t \in Tries, MarkTrip(c, role, t) PROVE FreshInv'
  <2>1. \A n \in Tries : trip[n].status = "none" => trip'[n].status = "none"
    BY <1>00, <1>11 DEF MarkTrip, DocumentTypeOK
  <2> QED
    BY <1>00, <1>11, <2>1, FreshKept DEF MarkTrip, engine, Running
<1>12. ASSUME NEW l \in legs, NEW k \in Kinds, BeginTodo(l, k) PROVE FreshInv'
  BY <1>00, <1>12, FreshKept DEF BeginTodo, engine, documents, Running
<1>13. ASSUME NEW l \in legs, TodoStep(l) PROVE FreshInv'
  <2>1. DriverStep(l) /\ carried # 0
    BY <1>13, DriverSteps DEF DriverStep, PlanInv
  <2>2. wf.stage \notin {"MAPPING", "TASKS", "TRIP"} /\ wf'.stage \notin {"MAPPING", "TASKS", "TRIP"}
    BY <2>1 DEF PlanInv, DriverStep
  <2> QED
    BY <2>2 DEF FreshInv
<1> QED
  BY <1>1, <1>2, <1>3, <1>4, <1>5, <1>6, <1>7, <1>8, <1>9, <1>10, <1>11, <1>12, <1>13
  DEF Next, WorkerStep, FaultStep, CancelStep, TodoStep, EngineStepAction

\* Where every kind of todo is tracked, no trip loses the engine's reference.
RefInv ==
    tracked = Kinds =>
        /\ \A n \in Tries : trip[n].ref # NoRef
        /\ \A l \in legs : todo[l].pc \notin {"idle", "marked"} => todo[l].ref # NoRef

LEMMA RefInit == Init => RefInv
BY DEF Init, RefInv, NewTrip, OtherRef, NoRef, Idle

LEMMA RefKept ==
    ASSUME RefInv, UNCHANGED <<legs, tracked, todo>>, \A n \in Tries : trip[n].ref # NoRef => trip'[n].ref # NoRef
    PROVE  RefInv'
BY DEF RefInv

LEMMA RefStep ==
    ASSUME OrderTypeOK, PlanInv, flow # "none" => ~Running, RefInv, [Next]_vars
    PROVE  RefInv'
<1>00. EngineTypeOK /\ DocumentTypeOK /\ DriverTypeOK /\ ClosingTypeOK /\ legs \subseteq Legs
  BY DEF OrderTypeOK, CountTypeOK
<1>01. \A l \in legs : todo[l].pc # "idle" => carried \in Tries
  BY <1>00 DEF EngineTypeOK, PlanInv
<1>1. CASE EngineStepAction
  BY <1>1, EngineSteps, RefKept DEF EngineStep
<1>2. CASE CreateTasks \/ CreateTasksFails \/ BindTasks \/ FailTasks \/ UNCHANGED vars
  BY <1>2, RefKept DEF CreateTasks, CreateTasksFails, BindTasks, FailTasks, vars, order, engine, documents, driver
<1>3. CASE CreateTrip
  <2>1. \A n \in Tries : trip[n].ref # NoRef => trip'[n].ref # NoRef
    BY <1>00, <1>3 DEF CreateTrip, DocumentTypeOK, NewTrip, OtherRef, NoRef
  <2> QED
    BY <1>3, <2>1, RefKept DEF CreateTrip, order, driver
<1>4. CASE UpdateStaffsToTrip \/ FailTrip
  <2>1. \A n \in Tries : trip'[n].ref = trip[n].ref
    BY <1>00, <1>4 DEF UpdateStaffsToTrip, FailTrip, DocumentTypeOK, TripRecord
  <2> QED
    BY <1>4, <2>1, RefKept DEF UpdateStaffsToTrip, FailTrip, order, driver
<1>5. ASSUME NEW c \in Cancels, CancelStep(c) \/ CancelFails(c) PROVE RefInv'
  <2>1. \A n \in Tries : trip'[n].ref = trip[n].ref
    <3>1. CASE RejectTrip(c)
      BY <1>00, <3>1 DEF RejectTrip, DocumentTypeOK, TripRecord
    <3>2. CASE ~RejectTrip(c)
      BY <1>5, <3>2 DEF CancelStep, CancelTasks, TerminateWorkflow, CancelFails, documents
    <3> QED
      BY <3>1, <3>2
  <2> QED
    BY <1>5, <2>1, RefKept DEF CancelStep, RejectTrip, CancelTasks, TerminateWorkflow, CancelFails, order, driver
<1>6. ASSUME NEW c \in Cancels, NEW role \in {"DRIVER", "PASSENGER"}, NEW t \in Tries, MarkTrip(c, role, t) PROVE RefInv'
  <2>1. \A n \in Tries : trip'[n].ref = trip[n].ref
    BY <1>00, <1>6 DEF MarkTrip, DocumentTypeOK, TripRecord
  <2> QED
    BY <1>6, <2>1, RefKept DEF MarkTrip, order, driver
<1>7. ASSUME NEW l \in legs, NEW k \in Kinds, BeginTodo(l, k) PROVE RefInv'
  <2>1. UNCHANGED <<legs, tracked, trip>> /\ todo'[l].pc = "marked" /\ \A m \in legs : m # l => todo'[m] = todo[m]
    BY <1>00, <1>7 DEF BeginTodo, order, documents, DriverTypeOK, Idle
  <2> QED
    BY <2>1 DEF RefInv
<1>8. ASSUME NEW l \in legs, TodoStep(l) PROVE RefInv'
  <2>1. DriverStep(l) /\ carried \in Tries
    BY <1>01, <1>8, DriverSteps DEF DriverStep
  <2> SUFFICES ASSUME tracked = Kinds,
                      todo'[l].pc \notin {"idle", "marked"} => todo'[l].ref # NoRef,
                      trip'[carried].ref # NoRef
               PROVE  RefInv'
    <3> SUFFICES ASSUME tracked = Kinds, RefInv
                 PROVE  (todo'[l].pc \notin {"idle", "marked"} => todo'[l].ref # NoRef) /\ trip'[carried].ref # NoRef
      BY <2>1 DEF RefInv, DriverStep
    <3> USE <1>00, <2>1 DEF At, Goto, documents, DriverTypeOK, TodoRecord, RefInv
    <3>1. CASE Track(l)
      <4>1. UNCHANGED trip /\ todo[l].kind \in tracked
        BY <3>1 DEF Track
      <4>2. todo'[l].ref = 1
        BY <3>1, <4>1 DEF Track
      <4> QED
        BY <4>1, <4>2 DEF NoRef
    <3>2. CASE CheckStart(l)
      BY <3>2 DEF CheckStart
    <3>3. CASE SaveTask(l)
      BY <3>3 DEF SaveTask
    <3>4. CASE TellTask(l)
      BY <3>4 DEF TellTask
    <3>5. CASE ReadTrip(l)
      BY <3>5 DEF ReadTrip
    <3>6. CASE WriteTrip(l)
      BY <3>6 DEF WriteTrip, DocumentTypeOK, TripRecord
    <3>7. CASE TellTrip(l)
      BY <3>7 DEF TellTrip, Idle
    <3>8. CASE TodoFails(l)
      BY <3>8 DEF TodoFails, Idle
    <3> QED
      BY <1>8, <3>1, <3>2, <3>3, <3>4, <3>5, <3>6, <3>7, <3>8 DEF TodoStep
  <2> QED
    BY <2>1 DEF RefInv, DriverStep
<1> QED
  BY <1>1, <1>2, <1>3, <1>4, <1>5, <1>6, <1>7, <1>8
  DEF Next, WorkerStep, FaultStep, EngineStepAction

\* Nobody writes while the order is being closed, unless it raced.
ClosedAlone ==
    ~raced /\ (CancelBegun \/ (flow \in {"tripFailed", "done"} /\ LastStepNamesTrip)) =>
        work # "assigning" /\ \A l \in legs : todo[l].pc = "idle"

\* What the failure flow has closed stays closed.
Closed(status) == status \in {"FAILED", "CANCELLED"}
FlowInv ==
    /\ flow # "none" => wf.status = "FAILED"
    /\ flow = "tripFailed" => LastStepNamesTrip
    /\ ~raced /\ LastStepNamesTrip =>
        /\ flow \in {"tripFailed", "done"} => trip[carried].status = "FAILED"
        /\ flow = "done" => \A l \in legs : Closed(MyTask(l).status)

LEMMA CloseInit == Init => ClosedAlone /\ FlowInv
BY DEF Init, ClosedAlone, FlowInv, CancelBegun, Idle

\* The place of a workflow that has failed does not change.
LEMMA FailedStays ==
    ASSUME OrderTypeOK, PlanInv, FlowInv, [Next]_vars, flow # "none"
    PROVE  wf' = wf
<1>1. ~Running /\ wf.status # "RUNNING" /\ wf.status = "FAILED"
  BY DEF FlowInv, Running
<1>2. flow # "none" => ~Running
  BY <1>1
<1>3. CASE EngineStepAction
  BY <1>1, <1>2, <1>3, EngineSteps DEF EngineStep
<1>4. ASSUME NEW l \in legs, TodoStep(l) PROVE wf' = wf
  BY <1>1, <1>4, DriverSteps DEF DriverStep
<1> QED
  BY <1>1, <1>3, <1>4
  DEF Next, WorkerStep, FaultStep, CancelStep, EngineStepAction, CreateTasks, CreateTasksFails, CreateTrip, BindTasks,
      UpdateStaffsToTrip, FailTrip, FailTasks, RejectTrip, CancelTasks, TerminateWorkflow, CancelFails, MarkTrip,
      BeginTodo, vars, engine, Stage, Running, Completed

LEMMA ClosedAloneStep ==
    ASSUME OrderTypeOK, PlanInv, FlowInv, ClosedAlone, [Next]_vars
    PROVE  ClosedAlone'
<1>00. EngineTypeOK /\ DriverTypeOK /\ ClosingTypeOK /\ CountTypeOK
  BY DEF OrderTypeOK
<1>01. legs \subseteq Legs /\ raced \in BOOLEAN
  BY <1>00 DEF CountTypeOK
<1>02. flow # "none" => ~Running /\ wf' = wf
  BY FailedStays DEF FlowInv, Running
<1>03. UNCHANGED <<flow>> /\ flow \in {"tripFailed", "done"} => LastStepNamesTrip' = LastStepNamesTrip
  BY <1>02 DEF LastStepNamesTrip
<1>04. carried = 0 => \A l \in legs : todo[l].pc = "idle"
  BY DEF PlanInv
<1>1. CASE EngineStepAction
  <2>1. EngineStep
    BY <1>02, <1>1, EngineSteps
  <2>2. CancelBegun' = CancelBegun /\ (~raced' => ~raced)
    BY <1>01, <2>1 DEF EngineStep, CancelBegun
  <2>3. flow' \in {"tripFailed", "done"} => flow' = flow /\ LastStepNamesTrip' = LastStepNamesTrip
    BY <1>03, <2>1 DEF EngineStep
  <2> QED
    BY <2>1, <2>2, <2>3 DEF EngineStep, ClosedAlone
<1>2. CASE CreateTasks \/ CreateTasksFails \/ CreateTrip \/ BindTasks
  <2>1. carried = 0 /\ UNCHANGED <<legs, todo>> /\ work' # "assigning"
    BY <1>2 DEF CreateTasks, CreateTasksFails, CreateTrip, BindTasks, PlanInv, Stage, order, driver
  <2> QED
    BY <1>04, <2>1 DEF ClosedAlone
<1>3. CASE UpdateStaffsToTrip
  <2>1. work = "assigning" /\ UNCHANGED <<flow, cancel, raced>>
    BY <1>3 DEF UpdateStaffsToTrip, closing, history
  <2> QED
    BY <1>03, <2>1 DEF ClosedAlone, CancelBegun
<1>4. CASE FailTrip
  <2>1. CASE LastStepNamesTrip
    BY <1>01, <1>4, <2>1 DEF FailTrip, OthersWrite, At, order, engine, driver, ClosedAlone
  <2>2. CASE ~LastStepNamesTrip
    BY <1>4, <2>2 DEF FailTrip, order, engine, driver, ClosedAlone, CancelBegun, LastStepNamesTrip
  <2> QED
    BY <2>1, <2>2
<1>5. CASE FailTasks
  BY <1>5 DEF FailTasks, FlowInv, order, engine, driver, history, ClosedAlone, CancelBegun, LastStepNamesTrip
<1>6. ASSUME NEW c \in Cancels, CancelStep(c) \/ CancelFails(c) PROVE ClosedAlone'
  <2>1. CancelBegun
    BY <1>6 DEF CancelStep, RejectTrip, CancelTasks, TerminateWorkflow, CancelFails, CancelBegun
  <2>2. UNCHANGED <<legs, todo, work, raced>>
    BY <1>6 DEF CancelStep, RejectTrip, CancelTasks, TerminateWorkflow, CancelFails, order, engine, driver, history
  <2> QED
    BY <2>1, <2>2 DEF ClosedAlone
<1>7. ASSUME NEW c \in Cancels, NEW role \in {"DRIVER", "PASSENGER"}, NEW t \in Tries, MarkTrip(c, role, t) PROVE ClosedAlone'
  <2>1. CASE MayCancel(role, t)
    BY <1>01, <1>7, <2>1 DEF MarkTrip, OthersWrite, At, order, engine, driver, ClosedAlone
  <2>2. CASE ~MayCancel(role, t)
    <3>1. CancelBegun' = CancelBegun
      BY <1>00, <1>7, <2>2 DEF MarkTrip, CancelBegun, ClosingTypeOK, CancelRecord
    <3> QED
      BY <1>7, <2>2, <3>1 DEF MarkTrip, order, engine, driver, ClosedAlone, LastStepNamesTrip
  <2> QED
    BY <2>1, <2>2
<1>8. ASSUME NEW l \in legs, NEW k \in Kinds, BeginTodo(l, k) PROVE ClosedAlone'
  BY <1>8 DEF BeginTodo, closing, ClosedAlone, CancelBegun
<1>9. ASSUME NEW l \in legs, TodoStep(l) PROVE ClosedAlone'
  <2>1. UNCHANGED <<flow, cancel, raced>> /\ todo[l].pc # "idle"
    BY <1>9, DriverSteps DEF DriverStep
  <2> QED
    BY <1>03, <2>1 DEF ClosedAlone, CancelBegun
<1>10. CASE UNCHANGED vars
  BY <1>10 DEF vars, order, engine, driver, closing, history, ClosedAlone, CancelBegun, LastStepNamesTrip
<1> QED
  BY <1>1, <1>2, <1>3, <1>4, <1>5, <1>6, <1>7, <1>8, <1>9, <1>10
  DEF Next, WorkerStep, FaultStep, EngineStepAction

\* A closed document stays closed under another closing.
LEMMA CloseKeepsClosed ==
    ASSUME DocumentTypeOK, NEW t, NEW status, Closed(status), CloseTasks(t, status), NEW n \in Tries, NEW l \in Legs
    PROVE  /\ task'[n][l].trip = task[n][l].trip
           /\ Closed(task[n][l].status) \/ task[n][l].trip = t => Closed(task'[n][l].status)
BY DEF CloseTasks, Closed, DocumentTypeOK, TaskRecord

\* Nobody cancels a trip that has failed (STATUS_MAPPING_CANCEL).
LEMMA MarkKeepsFailed ==
    ASSUME DocumentTypeOK, NEW c \in Cancels, NEW role \in {"DRIVER", "PASSENGER"}, NEW t \in Tries, MarkTrip(c, role, t)
    PROVE  \A n \in Tries : trip[n].status = "FAILED" => trip'[n].status = "FAILED"
<1>1. MayCancel(role, t) => trip[t].status # "FAILED"
  BY DEF MayCancel, Forbidden
<1> QED
  BY <1>1 DEF MarkTrip, DocumentTypeOK

LEMMA FlowStep ==
    ASSUME OrderTypeOK, PlanInv, ClosedAlone, FlowInv, [Next]_vars
    PROVE  FlowInv'
<1>00. EngineTypeOK /\ DocumentTypeOK /\ DriverTypeOK /\ ClosingTypeOK /\ CountTypeOK
  BY DEF OrderTypeOK
<1>01. legs \subseteq Legs /\ raced \in BOOLEAN
  BY <1>00 DEF CountTypeOK
<1>02. flow # "none" => ~Running /\ wf' = wf
  BY FailedStays DEF FlowInv, Running
<1>03. LastStepNamesTrip => carried \in Tries /\ gen \in Tries
  BY <1>00 DEF LastStepNamesTrip, PlanInv, EngineTypeOK
\* A step that keeps the flow and undoes nothing it has done.
<1>04. ASSUME UNCHANGED <<flow, legs, gen, carried>>, raced => raced',
              flow # "none" /\ ~raced' /\ LastStepNamesTrip =>
                  /\ trip[carried].status = "FAILED" => trip'[carried].status = "FAILED"
                  /\ \A l \in legs : Closed(MyTask(l).status) => Closed(MyTask(l)'.status)
       PROVE  FlowInv'
  BY <1>01, <1>02, <1>04 DEF FlowInv, LastStepNamesTrip
<1>1. CASE EngineStepAction
  <2>1. EngineStep
    BY <1>02, <1>1, EngineSteps
  <2>2. CASE flow' = "none" \/ flow' = "started" \/ flow' = "gaveUp"
    BY <1>02, <2>1, <2>2 DEF EngineStep, FlowInv
  <2>3. CASE flow' = flow /\ flow # "none"
    <3>1. wf' = wf /\ (raced => raced') /\ UNCHANGED <<legs, gen, task>>
      BY <1>02, <2>1, <2>3 DEF EngineStep
    <3>2. LastStepNamesTrip => carried' = carried /\ trip'[carried].status = trip[carried].status
      BY <1>03, <2>1, OrderAssumption DEF EngineStep, Tries
    <3> QED
      BY <1>01, <2>3, <3>1, <3>2 DEF FlowInv, LastStepNamesTrip, MyTask
  <2> QED
    BY <1>00, <2>1, <2>2, <2>3 DEF EngineStep, ClosingTypeOK
<1>2. CASE CreateTasks \/ CreateTrip
  <2>1. flow' = flow /\ flow = "none"
    BY <1>02, <1>2 DEF CreateTasks, CreateTrip, Stage, closing
  <2> QED
    BY <2>1 DEF FlowInv
<1>3. CASE CreateTasksFails
  <2>1. flow = "none"
    BY <1>02, <1>3 DEF CreateTasksFails, Stage
  <2>2. flow' = "none" \/ (flow' = "started" /\ wf'.status = "FAILED")
    BY <1>00, <1>3, <2>1 DEF CreateTasksFails, Failed, Abandon, EngineTypeOK, WfRecord
  <2> QED
    BY <2>2 DEF FlowInv
<1>4. CASE BindTasks
  <2>1. wf.stage = "TRIP" /\ UNCHANGED <<wf, flow>>
    BY <1>4 DEF BindTasks, PlanInv, closing
  <2> QED
    BY <2>1 DEF FlowInv, LastStepNamesTrip
<1>5. CASE UpdateStaffsToTrip
  <2>1. work = "assigning" /\ UNCHANGED <<flow, raced>>
    BY <1>5 DEF UpdateStaffsToTrip, closing, history
  <2>2. flow = "none" \/ wf' = wf
    BY <1>02
  <2> QED
    BY <2>1, <2>2 DEF FlowInv, ClosedAlone, LastStepNamesTrip
<1>6. CASE FailTrip
  <2>1. CASE LastStepNamesTrip
    <3>1. trip'[carried].status = "FAILED"
      BY <1>00, <1>03, <1>6, <2>1 DEF FailTrip, DocumentTypeOK, TripRecord
    <3> QED
      BY <1>6, <2>1, <3>1 DEF FailTrip, engine, FlowInv, LastStepNamesTrip
  <2>2. CASE ~LastStepNamesTrip
    BY <1>6, <2>2 DEF FailTrip, engine, FlowInv, LastStepNamesTrip
  <2> QED
    BY <2>1, <2>2
<1>7. CASE FailTasks
  <2>1. LastStepNamesTrip /\ carried \in Tries /\ gen \in Tries /\ carried # 0
    BY <1>03, <1>7, OrderAssumption DEF FailTasks, FlowInv, Tries
  <2>2. \A l \in legs : task[gen][l].trip = carried
    BY <2>1 DEF PlanInv, CarriedTripHoldsOrderTasks, MyTask
  <2>3. CloseTasks(carried, "FAILED") /\ Closed("FAILED") /\ UNCHANGED <<trip, legs, wf, gen, carried, raced>> /\ flow' = "done" /\ flow = "tripFailed"
    BY <1>7 DEF FailTasks, Closed, order, engine, history
  <2>4. \A l \in legs : Closed(task'[gen][l].status)
    BY <1>00, <1>01, <2>1, <2>2, <2>3, CloseKeepsClosed
  <2> QED
    BY <2>1, <2>3, <2>4 DEF FlowInv, MyTask, LastStepNamesTrip
<1>8. ASSUME NEW c \in Cancels, RejectTrip(c) PROVE FlowInv'
  <2>1. \A n \in Tries : trip[n].status = "FAILED" => trip'[n].status = "FAILED"
    BY <1>00, <1>8 DEF RejectTrip, DocumentTypeOK, TripRecord
  <2> QED
    BY <1>03, <1>04, <1>8, <2>1 DEF RejectTrip, order, engine, history, MyTask
<1>9. ASSUME NEW c \in Cancels, CancelTasks(c) PROVE FlowInv'
  <2>1. Closed(StatusOf[cancel[c].role])
    BY <1>00 DEF Closed, StatusOf, ClosingTypeOK, CancelRecord
  <2>2. CloseTasks(cancel[c].trip, StatusOf[cancel[c].role]) /\ UNCHANGED <<trip, legs, gen, carried, raced, flow>>
    BY <1>9 DEF CancelTasks, order, engine, history
  <2>3. LastStepNamesTrip => \A l \in legs : Closed(MyTask(l).status) => Closed(MyTask(l)'.status)
    BY <1>00, <1>01, <1>03, <2>1, <2>2, CloseKeepsClosed DEF MyTask
  <2> QED
    BY <1>04, <2>2, <2>3
<1>10. ASSUME NEW c \in Cancels, TerminateWorkflow(c) \/ CancelFails(c) PROVE FlowInv'
  BY <1>04, <1>10 DEF TerminateWorkflow, CancelFails, order, engine, documents, history, MyTask
<1>11. ASSUME NEW c \in Cancels, NEW role \in {"DRIVER", "PASSENGER"}, NEW t \in Tries, MarkTrip(c, role, t) PROVE FlowInv'
  <2>1. \A n \in Tries : trip[n].status = "FAILED" => trip'[n].status = "FAILED"
    BY <1>00, <1>11, MarkKeepsFailed
  <2>2. UNCHANGED <<flow, legs, gen, carried, task>> /\ (raced => raced')
    BY <1>11 DEF MarkTrip, order, engine
  <2> QED
    BY <1>03, <1>04, <2>1, <2>2 DEF MyTask
<1>12. ASSUME NEW l \in legs, NEW k \in Kinds, BeginTodo(l, k) PROVE FlowInv'
  BY <1>04, <1>12 DEF BeginTodo, order, engine, documents, closing, MyTask
<1>13. ASSUME NEW l \in legs, TodoStep(l) PROVE FlowInv'
  <2>1. todo[l].pc # "idle" /\ UNCHANGED <<flow, raced>>
    BY <1>13, DriverSteps DEF DriverStep
  <2> QED
    BY <1>02, <2>1 DEF FlowInv, ClosedAlone, LastStepNamesTrip
<1>14. CASE UNCHANGED vars
  BY <1>04, <1>14 DEF vars, order, engine, documents, closing, history, MyTask
<1> QED
  BY <1>1, <1>2, <1>3, <1>4, <1>5, <1>6, <1>7, <1>8, <1>9, <1>10, <1>11, <1>12, <1>13, <1>14
  DEF Next, WorkerStep, FaultStep, CancelStep, EngineStepAction

\* What a cancellation has closed stays closed, however far it is.
CancelledInv ==
    \A c \in Cancels : ~raced /\ Begun(c) =>
        /\ work \in {"created", "bound"} => cancel[c].trip # wf.try
        /\ cancel[c].pc \in {"rejected", "closed", "done"} => trip[cancel[c].trip].status = "FAILED"
        /\ cancel[c].pc \in {"closed", "done"} => \A n \in Tries, l \in legs :
              task[n][l].trip = cancel[c].trip => Closed(task[n][l].status)
        /\ cancel[c].pc = "done" => ~Running \/ tracked # Kinds

LEMMA CancelledInit == Init => CancelledInv
BY DEF Init, CancelledInv, Begun

\* A step beside the cancellations that undoes nothing they have done.
LEMMA CancelledKept ==
    ASSUME CancelledInv, CountTypeOK, UNCHANGED <<legs, tracked, cancel>>, raced => raced', Running' => Running,
           CancelBegun /\ ~raced' =>
              /\ work' \in {"created", "bound"} => work = work' /\ wf'.try = wf.try
              /\ \A n \in Tries : trip[n].status = "FAILED" => trip'[n].status = "FAILED"
              /\ \A n \in Tries, l \in legs :
                    /\ task'[n][l].trip = task[n][l].trip
                    /\ Closed(task[n][l].status) => Closed(task'[n][l].status),
           MadeInv
    PROVE  CancelledInv'
<1> SUFFICES ASSUME NEW c \in Cancels, ~raced', Begun(c)'
             PROVE  /\ work' \in {"created", "bound"} => cancel[c].trip # wf'.try
                    /\ cancel[c].pc \in {"rejected", "closed", "done"} => trip'[cancel[c].trip].status = "FAILED"
                    /\ cancel[c].pc \in {"closed", "done"} => \A n \in Tries, l \in legs :
                          task'[n][l].trip = cancel[c].trip => Closed(task'[n][l].status)
                    /\ cancel[c].pc = "done" => ~Running' \/ tracked # Kinds
  BY DEF CancelledInv
<1>1. Begun(c) /\ CancelBegun /\ ~raced /\ cancel[c].trip \in Tries
  BY DEF Begun, CancelBegun, CountTypeOK, MadeInv
<1> QED
  BY <1>1 DEF CancelledInv

LEMMA CancelledStep ==
    ASSUME OrderTypeOK, PlanInv, FlowInv, ClosedAlone, MadeInv, FreshInv, RefInv, CancelledInv, [Next]_vars
    PROVE  CancelledInv'
<1>00. EngineTypeOK /\ DocumentTypeOK /\ DriverTypeOK /\ ClosingTypeOK /\ CountTypeOK
  BY DEF OrderTypeOK
<1>01. legs \subseteq Legs /\ raced \in BOOLEAN
  BY <1>00 DEF CountTypeOK
<1>02. flow # "none" => ~Running
  BY DEF FlowInv, Running
<1>03. \A c \in Cancels : Begun(c) => CancelBegun /\ cancel[c].trip \in Tries
  BY DEF Begun, CancelBegun, MadeInv
<1>1. CASE EngineStepAction
  <2>1. EngineStep
    BY <1>02, <1>1, EngineSteps
  <2>2. Running' => Running
    BY <2>1 DEF EngineStep, Running
  <2> QED
    BY <1>00, <2>1, <2>2, CancelledKept DEF EngineStep
<1>2. CASE CreateTasks \/ CreateTasksFails
  <2>1. wf.stage = "TASKS" /\ UNCHANGED cancel
    BY <1>2 DEF CreateTasks, CreateTasksFails, Stage, closing
  <2>2. \A c \in Cancels : ~Begun(c)
    BY <2>1 DEF FreshInv, MadeInv
  <2> QED
    BY <2>1, <2>2 DEF CancelledInv, Begun
<1>3. CASE CreateTrip
  <2>1. trip[wf.try].status = "none" /\ wf.try \in Tries
    BY <1>00, <1>3 DEF CreateTrip, Stage, FreshInv, EngineTypeOK, WfRecord
  <2>2. \A n \in Tries : n # wf.try => trip'[n] = trip[n]
    BY <1>00, <1>3 DEF CreateTrip, DocumentTypeOK
  <2>3. \A c \in Cancels : Begun(c) => cancel[c].trip # wf.try /\ trip'[cancel[c].trip] = trip[cancel[c].trip]
    BY <1>03, <2>1, <2>2 DEF MadeInv
  <2> QED
    BY <1>3, <2>3 DEF CreateTrip, CancelledInv, Begun, order, closing, history, Running
<1>4. CASE BindTasks
  <2>1. UNCHANGED <<legs, tracked, cancel, raced, wf, trip>> /\ work = "created" /\ work' = "bound"
    BY <1>4 DEF BindTasks, order, closing, history
  <2>2. \A n \in Tries, l \in legs :
           \/ task'[n][l].trip = wf.try
           \/ task'[n][l] = task[n][l]
    BY <1>00, <1>01, <1>4 DEF BindTasks, DocumentTypeOK, TaskRecord
  <2>3. \A n \in Tries, c \in Cancels : ~raced /\ Begun(c) => cancel[c].trip # wf.try
    BY <2>1 DEF CancelledInv
  <2> QED
    BY <1>4, <2>1, <2>2, <2>3 DEF CancelledInv, Begun, Running
<1>5. CASE UpdateStaffsToTrip
  <2>1. work = "assigning" /\ UNCHANGED <<legs, tracked, cancel, raced>>
    BY <1>5 DEF UpdateStaffsToTrip, order, closing, history
  <2> QED
    BY <1>03, <2>1 DEF CancelledInv, ClosedAlone, Begun
<1>6. CASE FailTrip
  <2>1. \A n \in Tries : trip[n].status = "FAILED" => trip'[n].status = "FAILED"
    BY <1>00, <1>6 DEF FailTrip, DocumentTypeOK, TripRecord
  <2> QED
    BY <1>00, <1>6, <2>1, CancelledKept DEF FailTrip, order, engine, Running
<1>7. CASE FailTasks
  <2>1. CloseTasks(carried, "FAILED") /\ Closed("FAILED") /\ UNCHANGED <<legs, tracked, cancel, raced, work, wf, trip>>
    BY <1>7 DEF FailTasks, Closed, order, engine, history
  <2>2. \A n \in Tries, l \in legs : task'[n][l].trip = task[n][l].trip /\ (Closed(task[n][l].status) => Closed(task'[n][l].status))
    BY <1>00, <1>01, <2>1, CloseKeepsClosed
  <2> QED
    BY <1>00, <2>1, <2>2, CancelledKept DEF Running
<1>8. ASSUME NEW c \in Cancels, RejectTrip(c) PROVE CancelledInv'
  <2>1. UNCHANGED <<legs, tracked, raced, work, wf, task>> /\ Begun(c)
    BY <1>8 DEF RejectTrip, order, engine, history, Begun
  <2>2. /\ trip'[cancel[c].trip].status = "FAILED"
        /\ \A n \in Tries : trip[n].status = "FAILED" => trip'[n].status = "FAILED"
    BY <1>00, <1>03, <1>8, <2>1 DEF RejectTrip, DocumentTypeOK, TripRecord
  <2>3. /\ cancel'[c].trip = cancel[c].trip /\ cancel'[c].pc = "rejected"
        /\ \A d \in Cancels : d # c => cancel'[d] = cancel[d]
    BY <1>00, <1>8 DEF RejectTrip, ClosingTypeOK, CancelRecord
  <2> QED
    BY <1>03, <2>1, <2>2, <2>3 DEF CancelledInv, Begun, Running
<1>9. ASSUME NEW c \in Cancels, CancelTasks(c) PROVE CancelledInv'
  <2>1. Closed(StatusOf[cancel[c].role])
    BY <1>00 DEF Closed, StatusOf, ClosingTypeOK, CancelRecord
  <2>2. CloseTasks(cancel[c].trip, StatusOf[cancel[c].role]) /\ UNCHANGED <<trip, legs, tracked, raced, work, wf>>
    BY <1>9 DEF CancelTasks, order, engine, history
  <2>3. \A n \in Tries, l \in legs :
           /\ task'[n][l].trip = task[n][l].trip
           /\ Closed(task[n][l].status) \/ task[n][l].trip = cancel[c].trip => Closed(task'[n][l].status)
    BY <1>00, <1>01, <2>1, <2>2, CloseKeepsClosed
  <2>4. /\ cancel'[c].trip = cancel[c].trip /\ cancel'[c].pc = "closed" /\ cancel[c].pc = "rejected"
        /\ \A d \in Cancels : d # c => cancel'[d] = cancel[d]
    BY <1>00, <1>9 DEF CancelTasks, ClosingTypeOK, CancelRecord
  <2> QED
    BY <2>2, <2>3, <2>4 DEF CancelledInv, Begun, Running
<1>10. ASSUME NEW c \in Cancels, TerminateWorkflow(c) PROVE CancelledInv'
  <2>1. UNCHANGED <<legs, tracked, raced, work, documents>>
    BY <1>10 DEF TerminateWorkflow, order, history
  <2>2. /\ cancel'[c].trip = cancel[c].trip /\ cancel'[c].pc = "done" /\ cancel[c].pc = "closed"
        /\ \A d \in Cancels : d # c => cancel'[d] = cancel[d]
    BY <1>00, <1>10 DEF TerminateWorkflow, ClosingTypeOK, CancelRecord
  <2>3. wf'.try = wf.try /\ (Running' => Running)
    BY <1>00, <1>10 DEF TerminateWorkflow, EngineTypeOK, WfRecord, Running
  <2>4. ~Running' \/ tracked # Kinds
    <3> SUFFICES ASSUME Running, tracked = Kinds PROVE ~Running'
      BY <2>3
    <3>1. trip[cancel[c].trip].ref # NoRef
      BY <1>03, <2>2 DEF RefInv, Begun
    <3> QED
      BY <1>00, <1>10, <3>1 DEF TerminateWorkflow, EngineTypeOK, WfRecord, Running
  <2> QED
    BY <2>1, <2>2, <2>3, <2>4 DEF CancelledInv, Begun, documents
<1>11. ASSUME NEW c \in Cancels, CancelFails(c) PROVE CancelledInv'
  <2>1. UNCHANGED <<legs, tracked, raced, work, wf, documents>>
    BY <1>11 DEF CancelFails, order, engine, history
  <2>2. /\ cancel'[c].trip = cancel[c].trip /\ cancel'[c].pc = "failed" /\ Begun(c)
        /\ \A d \in Cancels : d # c => cancel'[d] = cancel[d]
    BY <1>00, <1>11 DEF CancelFails, ClosingTypeOK, CancelRecord, Begun
  <2> QED
    BY <2>1, <2>2 DEF CancelledInv, Begun, documents, Running
<1>12. ASSUME NEW c \in Cancels, NEW role \in {"DRIVER", "PASSENGER"}, NEW t \in Tries, MarkTrip(c, role, t) PROVE CancelledInv'
  <2>1. UNCHANGED <<legs, tracked, work, wf, task>> /\ (raced => raced')
    BY <1>12 DEF MarkTrip, order, engine
  <2>2. \A n \in Tries : trip[n].status = "FAILED" => trip'[n].status = "FAILED"
    BY <1>00, <1>12, MarkKeepsFailed
  <2>3. \A d \in Cancels : d # c => cancel'[d] = cancel[d]
    BY <1>00, <1>12 DEF MarkTrip, ClosingTypeOK
  <2>4. ~raced' /\ Begun(c)' => cancel'[c].pc = "marked" /\ work = "idle"
    <3>1. CASE MayCancel(role, t)
      <4>1. cancel'[c].pc = "marked" /\ raced' = (raced \/ OthersWrite)
        BY <1>00, <1>12, <3>1 DEF MarkTrip, ClosingTypeOK
      <4> QED
        BY <4>1 DEF OthersWrite
    <3>2. CASE ~MayCancel(role, t)
      BY <1>00, <1>12, <3>2 DEF MarkTrip, ClosingTypeOK, CancelRecord, Begun
    <3> QED
      BY <3>1, <3>2
  <2> QED
    BY <1>01, <1>03, <2>1, <2>2, <2>3, <2>4 DEF CancelledInv, Begun, Running
<1>13. ASSUME NEW l \in legs, NEW k \in Kinds, BeginTodo(l, k) PROVE CancelledInv'
  BY <1>00, <1>13, CancelledKept DEF BeginTodo, order, engine, documents, closing, Running
<1>14. ASSUME NEW l \in legs, TodoStep(l) PROVE CancelledInv'
  <2>1. todo[l].pc # "idle" /\ UNCHANGED <<cancel, raced>>
    BY <1>14, DriverSteps DEF DriverStep
  <2> QED
    BY <1>03, <2>1 DEF CancelledInv, ClosedAlone, Begun
<1>15. CASE UNCHANGED vars
  BY <1>00, <1>15, CancelledKept DEF vars, order, engine, documents, closing, history, Running
<1> QED
  BY <1>1, <1>2, <1>3, <1>4, <1>5, <1>6, <1>7, <1>8, <1>9, <1>10, <1>11, <1>12, <1>13, <1>14, <1>15
  DEF Next, WorkerStep, FaultStep, CancelStep, EngineStepAction

\* Everything the theorems rest on.
OrderInv ==
    /\ OrderTypeOK /\ PlanInv /\ PayInv /\ SingleInv /\ MarksInv /\ DoneInv
    /\ MadeInv /\ FreshInv /\ RefInv /\ ClosedAlone /\ FlowInv /\ CancelledInv

LEMMA OrderInvariant == Spec => []OrderInv
<1>1. Init => OrderInv
  BY OrderTypeInit, PlanInit, PayInit, SingleInit, MarksInit, DoneInit, MadeInit, FreshInit, RefInit, CloseInit, CancelledInit DEF OrderInv
<1>2. OrderInv /\ [Next]_vars => OrderInv'
  <2> SUFFICES ASSUME OrderInv, [Next]_vars PROVE OrderInv'
    OBVIOUS
  <2>1. /\ OrderTypeOK /\ PlanInv /\ PayInv /\ SingleInv /\ MarksInv /\ DoneInv
        /\ MadeInv /\ FreshInv /\ RefInv /\ ClosedAlone /\ FlowInv /\ CancelledInv
        /\ (flow # "none" => ~Running)
    BY DEF OrderInv, PayInv
  <2>2. OrderTypeOK' /\ PlanInv' /\ PayInv'
    BY <2>1, OrderTypeStep, PlanStep, PayStep
  <2>3. SingleInv' /\ MarksInv'
    BY <2>1, SingleStep, MarksStep
  <2>4. DoneInv'
    BY <2>1, DoneStep
  <2>5. MadeInv' /\ FreshInv' /\ RefInv'
    BY <2>1, MadeStep, FreshStep, RefStep
  <2>6. ClosedAlone' /\ FlowInv'
    BY <2>1, ClosedAloneStep, FlowStep
  <2>7. CancelledInv'
    BY <2>1, CancelledStep
  <2> QED
    BY <2>2, <2>3, <2>4, <2>5, <2>6, <2>7 DEF OrderInv
<1> QED
  BY <1>1, <1>2, PTL DEF Spec

\* A driver whose updates come one at a time has at most one task under way,
\* for any number of tasks (startTaskConfig, strategy SINGLE).
THEOREM OneTaskAtATime == Spec => []OneTaskUnderWay
<1>1. OrderInv => OneTaskUnderWay
  <2> SUFFICES ASSUME OrderInv, ~overlap, gen # 0 PROVE Cardinality({l \in legs : MyTask(l).status = "DOING"}) <= 1
    BY DEF OneTaskUnderWay
  <2> DEFINE under == {l \in legs : MyTask(l).status = "DOING"}
  <2>1. \A l, m \in under : l = m
    BY DEF OrderInv, SingleInv, Doing
  <2> HIDE DEF under
  <2>2. Cardinality(under) <= 1
    <3>1. CASE under = {}
      BY <3>1, FS_EmptySet
    <3>2. CASE under # {}
      <4>1. PICK l : under = {l}
        BY <2>1, <3>2
      <4>2. Cardinality({l}) = 1
        BY FS_Singleton
      <4> QED
        BY <4>1, <4>2
    <3> QED
      BY <3>1, <3>2
  <2> QED
    BY <2>2 DEF under
<1> QED
  BY <1>1, OrderInvariant, PTL

\* A trip whose todos all show done is DONE and a DONE trip has no open task,
\* while the driver's updates come one at a time and nobody closes the order
\* (tripValidateComplete).
THEOREM TripIsDoneWithItsTodos == Spec => []TripDoneWithItsTodos
<1>1. OrderInv => TripDoneWithItsTodos
  BY DEF OrderInv, DoneInv, Undisturbed, TripDoneWithItsTodos, At, AllDone
<1> QED
  BY <1>1, OrderInvariant, PTL

\* The failure flow leaves no open trip or task, unless somebody writes beside
\* it (cancelFlowError).
THEOREM FailedOrdersAreClosed == Spec => []FailedOrderClosesItsTrip
<1>1. OrderInv => FailedOrderClosesItsTrip
  BY DEF OrderInv, FlowInv, FailedOrderClosesItsTrip, Closed
<1> QED
  BY <1>1, OrderInvariant, PTL

\* A cancellation that answers well has closed the trip, its tasks and its
\* workflow, for any number of cancellations at the same time (cancelTrip.js).
THEOREM CancelledOrdersAreClosed == Spec => []CancelClosesOrder
<1>1. OrderInv => CancelClosesOrder
  BY DEF OrderInv, CancelledInv, CancelClosesOrder, Begun, Closed
<1> QED
  BY <1>1, OrderInvariant, PTL
=============================================================================
