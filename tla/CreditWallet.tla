---------------------------- MODULE CreditWallet ----------------------------
(***************************************************************************)
(* The driver's credit wallet around one on-demand trip.  Accepting the    *)
(* trip (acceptTrip.js, creditWalletAccept.js) holds money in the Weomni   *)
(* wallet and writes the reference of the hold into the trip's metadata;   *)
(* delivering it (delivery.js, creditWalletSettlement.js) captures the     *)
(* hold, pays the extra cash on delivery out and notes both in the result  *)
(* of the todo.  The wallet and the database are separate, so either may   *)
(* fail, or lose an acknowledgement, between two steps, and the server may *)
(* stop.  Requests of the driver's app come one at a time.                 *)
(***************************************************************************)
CONSTANTS
    Ref,        \* references of holds (getWithdrawalTxRef), used once each
    NoRef,      \* no reference: '' or undefined
    ExtraCOD,   \* is there extra cash on delivery to pay out?
    Faults      \* what may go wrong, a subset of FaultKinds

\* "refuse": the wallet refuses a call.  "timeout": the wallet applies a
\* call whose answer is lost.  "write": a document write fails, applied or
\* not.  "restore": a step of a catch block fails.  "crash": the server stops.
FaultKinds == {"refuse", "timeout", "write", "restore", "crash"}

ASSUME WalletAssumption ==
    /\ NoRef \notin Ref
    /\ ExtraCOD \in BOOLEAN
    /\ Faults \subseteq FaultKinds

VARIABLES
    trip,         \* the trip's status; accepting and delivering one task each
    weomniTxRef,  \* of the trip's metadata
    result,       \* capturedAt and withdrawalAt of the delivered todo
    hold,         \* wallet: state of each hold
    payouts,      \* wallet: were the extra cash payouts made 0, 1 or more times?
    pc,           \* the await the request is at
    own,          \* the hold the request made or settles
    seen,         \* the weomniTxRef of the request's snapshot
    response,     \* the settlement's copy of result
    lost,         \* history: holds nobody will release
    unrestored,   \* history: a rollback did not finish
    unrecorded    \* history: the wallet did what no document says

docs == <<trip, weomniTxRef, result>>
wallet == <<hold, payouts>>
request == <<pc, own, seen, response>>
history == <<lost, unrestored, unrecorded>>
vars == <<docs, wallet, request, history>>

Nothing == [capturedAt |-> FALSE, withdrawalAt |-> FALSE]

Goto(at) == pc' = at /\ UNCHANGED <<own, seen, response>>

Return ==
    /\ pc' = "idle" /\ own' = NoRef /\ seen' = NoRef /\ response' = Nothing

(***************************************************************************)
(* Accepting.                                                              *)
(***************************************************************************)
\* acceptTrip.process up to holdWithdrawal.
Accept ==
    /\ pc = "idle"
    /\ trip = "PENDING"
    /\ pc' = "holding" /\ seen' = weomniTxRef
    /\ UNCHANGED <<docs, wallet, own, response, history>>

\* WeomniWallet.withdrawal with mode HOLD and a fresh reference.
HoldWithdrawal ==
    /\ pc = "holding"
    /\ \E r \in Ref :
        /\ hold[r] = "none"
        /\ hold' = [hold EXCEPT ![r] = "held"]
        /\ own' = r
    /\ pc' = "recording"
    /\ UNCHANGED <<docs, payouts, seen, response, history>>

\* `withdrawal` stays undefined: nothing is released.
HoldFails ==
    /\ pc = "holding"
    /\ \/ "refuse" \in Faults /\ UNCHANGED <<hold, lost>>
       \/ "timeout" \in Faults /\ \E r \in Ref :
            /\ hold[r] = "none"
            /\ hold' = [hold EXCEPT ![r] = "held"]
            /\ lost' = lost \union {r}
    /\ Goto("restoring")
    /\ UNCHANGED <<docs, payouts, unrestored, unrecorded>>

\* updateTripMetadata of holdWithdrawal.
RecordHold ==
    /\ pc = "recording"
    /\ weomniTxRef' = own
    /\ Goto("accepting")
    /\ UNCHANGED <<trip, result, wallet, history>>

RecordHoldFails ==
    /\ pc = "recording"
    /\ "write" \in Faults
    /\ weomniTxRef' \in {weomniTxRef, own}
    /\ Goto("releasing")
    /\ UNCHANGED <<trip, result, wallet, history>>

\* Todo, task and trip are written, the tracking URLs made.
AcceptTrip ==
    /\ pc = "accepting"
    /\ trip' = "DOING"
    /\ unrestored' = FALSE
    /\ Return
    /\ UNCHANGED <<weomniTxRef, result, wallet, lost, unrecorded>>

AcceptTripFails ==
    /\ pc = "accepting"
    /\ "write" \in Faults
    /\ trip' \in {"PENDING", "DOING"}
    /\ Goto("releasing")
    /\ UNCHANGED <<weomniTxRef, result, wallet, history>>

\* Slip: the catch block goes straight to the documents.
SkipRelease ==
    /\ pc = "releasing"
    /\ Goto("restoring")
    /\ UNCHANGED <<docs, wallet, history>>

\* releaseHoldWithdrawal, in the catch block of holdWithdrawal or of
\* acceptTrip.process.
ReleaseHold ==
    /\ pc = "releasing"
    /\ hold' = [hold EXCEPT ![own] = "released"]
    /\ Goto("restoring")
    /\ UNCHANGED <<docs, payouts, history>>

\* The error of the release is only logged.
ReleaseHoldFails ==
    /\ pc = "releasing"
    /\ "restore" \in Faults
    /\ lost' = lost \union {own}
    /\ Goto("restoring")
    /\ UNCHANGED <<docs, wallet, unrestored, unrecorded>>

\* Slip: the trip keeps the reference of the released hold.
RestoreTripStatus ==
    /\ pc = "restoring"
    /\ trip' = "PENDING"
    /\ Return
    /\ UNCHANGED <<weomniTxRef, result, wallet, history>>

\* The catch block of acceptTrip.process: updateMetadata(tripId,
\* { weomniTxRef: '', ...metadata }) puts back the reference of the snapshot.
RestoreTrip ==
    /\ pc = "restoring"
    /\ trip' = "PENDING"
    /\ weomniTxRef' = seen
    /\ Return
    /\ UNCHANGED <<result, wallet, history>>

RestoreTripFails ==
    /\ pc = "restoring"
    /\ "restore" \in Faults
    /\ trip' \in {trip, "PENDING"}
    /\ weomniTxRef' \in {weomniTxRef, seen}
    /\ unrestored' = TRUE
    /\ Return
    /\ UNCHANGED <<result, wallet, lost, unrecorded>>

(***************************************************************************)
(* Delivering: settlement, then the documents.                             *)
(***************************************************************************)
\* Slip: the extra cash on delivery is not looked at.
CaptureOnly(r) == IF ~r.capturedAt THEN "capturing" ELSE "delivering"

\* Where settlement goes on, given what has been noted.
NextStep(r) ==
    IF ~r.capturedAt THEN "capturing"
    ELSE IF ExtraCOD /\ ~r.withdrawalAt THEN "paying"
    ELSE "delivering"

\* delivery.todoTypeDelivered and settlement, from the snapshot of the todo.
Settle ==
    /\ pc = "idle"
    /\ trip = "DOING"
    /\ weomniTxRef # NoRef
    /\ own' = weomniTxRef /\ response' = result
    /\ pc' = NextStep(result)
    /\ UNCHANGED <<docs, wallet, seen, history>>

\* The wallet captures a hold once.
Capture ==
    /\ pc = "capturing"
    /\ hold[own] = "held"
    /\ hold' = [hold EXCEPT ![own] = "captured"]
    /\ response' = [response EXCEPT !.capturedAt = TRUE]
    /\ pc' = "savingCapture"
    /\ UNCHANGED <<docs, payouts, own, seen, history>>

CaptureFails ==
    /\ pc = "capturing"
    /\ \/ /\ "refuse" \in Faults \/ hold[own] # "held"
          /\ UNCHANGED <<hold, unrecorded>>
       \/ /\ "timeout" \in Faults
          /\ hold[own] = "held"
          /\ hold' = [hold EXCEPT ![own] = "captured"]
          /\ unrecorded' = TRUE
    /\ Return
    /\ UNCHANGED <<docs, payouts, lost, unrestored>>

\* Slip: the capture is not noted before the payout.
GoOnWithoutSaving ==
    /\ pc = "savingCapture"
    /\ Goto(NextStep(response))
    /\ UNCHANGED <<docs, wallet, history>>

SaveCapture ==
    /\ pc = "savingCapture"
    /\ result' = response
    /\ Goto(NextStep(response))
    /\ UNCHANGED <<trip, weomniTxRef, wallet, history>>

PayOut ==
    /\ pc = "paying"
    /\ payouts' = IF payouts = "none" THEN "one" ELSE "more"
    /\ response' = [response EXCEPT !.withdrawalAt = TRUE]
    /\ pc' = "savingPayout"
    /\ UNCHANGED <<docs, hold, own, seen, history>>

PayOutFails ==
    /\ pc = "paying"
    /\ \/ "refuse" \in Faults /\ UNCHANGED <<payouts, unrecorded>>
       \/ /\ "timeout" \in Faults
          /\ payouts' = IF payouts = "none" THEN "one" ELSE "more"
          /\ unrecorded' = TRUE
    /\ Return
    /\ UNCHANGED <<docs, hold, lost, unrestored>>

SavePayout ==
    /\ pc = "savingPayout"
    /\ result' = response
    /\ Goto("delivering")
    /\ UNCHANGED <<trip, weomniTxRef, wallet, history>>

\* The catch block of todoTypeDelivered restores the statuses and leaves the
\* result of the todo alone.
SaveFails ==
    /\ pc \in {"savingCapture", "savingPayout"}
    /\ "write" \in Faults
    /\ \/ result' = response /\ UNCHANGED unrecorded
       \/ unrecorded' = TRUE /\ UNCHANGED result
    /\ Return
    /\ UNCHANGED <<trip, weomniTxRef, wallet, lost, unrestored>>

Deliver ==
    /\ pc = "delivering"
    /\ trip' = "DONE" /\ result' = response
    /\ Return
    /\ UNCHANGED <<weomniTxRef, wallet, history>>

DeliverFails ==
    /\ pc = "delivering"
    /\ "write" \in Faults
    /\ trip' \in {trip} \union (IF "restore" \in Faults THEN {"DONE"} ELSE {})
    /\ result' \in {result, response}
    /\ Return
    /\ UNCHANGED <<weomniTxRef, wallet, history>>

(***************************************************************************)
(* The server stops between two awaits: the request is gone, and nothing   *)
(* takes it up again.                                                      *)
(***************************************************************************)
Crash ==
    /\ "crash" \in Faults
    /\ pc # "idle"
    /\ result' \in {result} \union (IF pc = "delivering" THEN {response} ELSE {})
    /\ lost' = IF pc \in {"recording", "accepting", "releasing"} THEN lost \union {own}
               ELSE lost
    /\ unrestored' = (unrestored \/ pc \in {"releasing", "restoring"})
    /\ unrecorded' = (unrecorded \/ pc \in {"savingCapture", "savingPayout"})
    /\ Return
    /\ UNCHANGED <<trip, weomniTxRef, wallet>>

Init ==
    /\ trip = "PENDING" /\ weomniTxRef = NoRef /\ result = Nothing
    /\ hold = [r \in Ref |-> "none"] /\ payouts = "none"
    /\ pc = "idle" /\ own = NoRef /\ seen = NoRef /\ response = Nothing
    /\ lost = {} /\ unrestored = FALSE /\ unrecorded = FALSE

Next ==
    \/ Accept \/ HoldWithdrawal \/ HoldFails \/ RecordHold \/ RecordHoldFails
    \/ AcceptTrip \/ AcceptTripFails \/ ReleaseHold \/ ReleaseHoldFails
    \/ RestoreTrip \/ RestoreTripFails
    \/ Settle \/ Capture \/ CaptureFails \/ SaveCapture \/ PayOut \/ PayOutFails
    \/ SavePayout \/ SaveFails \/ Deliver \/ DeliverFails
    \/ Crash

Spec == Init /\ [][Next]_vars

(***************************************************************************)
(* Properties.                                                             *)
(***************************************************************************)
TypeOK ==
    /\ trip \in {"PENDING", "DOING", "DONE"}
    /\ weomniTxRef \in Ref \union {NoRef}
    /\ result \in [capturedAt : BOOLEAN, withdrawalAt : BOOLEAN]
    /\ hold \in [Ref -> {"none", "held", "released", "captured"}]
    /\ payouts \in {"none", "one", "more"}
    /\ pc \in {"idle", "holding", "recording", "accepting", "releasing", "restoring",
              "capturing", "savingCapture", "paying", "savingPayout", "delivering"}
    /\ own \in Ref \union {NoRef}
    /\ seen \in Ref \union {NoRef}
    /\ response \in [capturedAt : BOOLEAN, withdrawalAt : BOOLEAN]
    /\ lost \subseteq Ref
    /\ unrestored \in BOOLEAN
    /\ unrecorded \in BOOLEAN

\* Money stays held only for a trip under way that knows its reference, or for
\* the request that is about to decide, however accepting fails and is tried
\* again (creditWalletAccept.js holdWithdrawal, acceptTrip.js catch block).
\* The exceptions are the holds whose release failed, whose answer never
\* came, or whose request died with the server.
NoForgottenHold ==
    \A r \in Ref : hold[r] = "held" =>
        r \in lost \/ r = own \/ (r = weomniTxRef /\ trip = "DOING")

\* Between requests, a trip under way has a reference, and no trip refers to
\* money that was given back, unless the last rollback did not finish
\* (acceptTrip.js catch block: weomniTxRef is put back with the statuses).
UnderWayIsBacked ==
    pc = "idle" /\ ~unrestored =>
        /\ trip = "DOING" => weomniTxRef # NoRef
        /\ weomniTxRef # NoRef => hold[weomniTxRef] \in {"held", "captured"}

\* A delivered trip is settled: its hold is captured and the extra cash paid
\* out (creditWalletSettlement.js), over however many attempts.
DeliveredIsSettled ==
    trip = "DONE" =>
        /\ weomniTxRef # NoRef
        /\ hold[weomniTxRef] = "captured"
        /\ ExtraCOD => payouts # "none"

\* Nothing is paid out twice, and no capture is forgotten so that the next
\* attempt would ask for it again, unless the note of it was lost
\* (settlement writes capturedAt and withdrawalAt before it goes on).
SettledOnce ==
    ~unrecorded =>
        /\ payouts # "more"
        /\ pc = "idle" /\ trip = "DOING" /\ weomniTxRef # NoRef
                /\ hold[weomniTxRef] = "captured" => result.capturedAt
=============================================================================
