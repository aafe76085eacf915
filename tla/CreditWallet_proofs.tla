------------------------ MODULE CreditWallet_proofs ------------------------
(***************************************************************************)
(* The invariants of CreditWallet for any number of acceptances and any    *)
(* combination of faults.                                                  *)
(***************************************************************************)
EXTENDS CreditWallet, TLAPS

\* The awaits of accepting and of its catch blocks.
Acceptance == {"holding", "recording", "accepting", "releasing", "restoring"}

Settlement == {"capturing", "savingCapture", "paying", "savingPayout", "delivering"}

\* What a request that accepts knows about its own hold and its snapshot.
AcceptanceInv ==
    /\ pc \in {"idle", "holding"} => own = NoRef
    /\ pc \in {"recording", "accepting", "releasing"} => own \in Ref /\ hold[own] = "held"
    /\ pc = "restoring" /\ own # NoRef => hold[own] # "held" \/ own \in lost
    /\ pc \in {"holding", "recording", "accepting"} => trip = "PENDING"
    /\ pc \in {"holding", "recording"} => weomniTxRef = seen
    /\ pc = "accepting" => weomniTxRef = own
    /\ pc \in {"releasing", "restoring"} /\ trip = "DOING" => weomniTxRef = own
    /\ pc \in Acceptance =>
        /\ trip # "DONE"
        /\ seen # NoRef => seen # own /\ hold[seen] # "none"
        /\ ~unrestored /\ seen # NoRef => hold[seen] \in {"held", "captured"}

\* What a request that delivers knows.
SettlementInv ==
    /\ pc \in Settlement =>
        /\ trip = "DOING" /\ own \in Ref /\ own = weomniTxRef
        /\ result.capturedAt => response.capturedAt
        /\ result.withdrawalAt => response.withdrawalAt
        /\ ~unrestored => hold[own] \in {"held", "captured"}
    /\ pc \in Settlement \ {"capturing"} => response.capturedAt
    /\ pc = "paying" => ~response.withdrawalAt
    /\ pc = "savingPayout" => response.withdrawalAt
    /\ pc = "delivering" /\ ExtraCOD => response.withdrawalAt
    /\ response.withdrawalAt \/ result.withdrawalAt => payouts # "none"

\* Money that left the driver for good.
Charged ==
    \/ payouts # "none"
    \/ result.capturedAt \/ response.capturedAt
    \/ \E r \in Ref : hold[r] = "captured"

ChargedInv ==
    Charged => /\ trip # "PENDING"
               /\ pc \notin Acceptance
               /\ weomniTxRef \in Ref /\ hold[weomniTxRef] = "captured"

\* Every charge is noted, or about to be, unless a note was lost.
NotedInv ==
    ~unrecorded =>
        /\ payouts # "more"
        /\ payouts # "none" => result.withdrawalAt \/ pc = "savingPayout"
        /\ Charged => result.capturedAt \/ pc = "savingCapture"

WalletInv ==
    /\ TypeOK
    /\ AcceptanceInv
    /\ SettlementInv
    /\ ChargedInv
    /\ NotedInv
    /\ weomniTxRef # NoRef => hold[weomniTxRef] # "none"
    /\ NoForgottenHold
    /\ UnderWayIsBacked
    /\ DeliveredIsSettled
    /\ SettledOnce

(***************************************************************************)
(* The proofs.                                                             *)
(***************************************************************************)
\* The initial state, before anything is held or charged.
LEMMA InitInv == Init => WalletInv
<1> SUFFICES ASSUME Init PROVE WalletInv
  OBVIOUS
<1> USE WalletAssumption DEF Init, Nothing
<1>1. TypeOK
  BY DEF TypeOK
<1>2. AcceptanceInv /\ SettlementInv
  BY DEF AcceptanceInv, Acceptance, SettlementInv, Settlement
<1>3. ~Charged
  BY DEF Charged
<1>4. ChargedInv /\ NotedInv
  BY <1>3 DEF ChargedInv, NotedInv
<1>5. NoForgottenHold /\ UnderWayIsBacked /\ DeliveredIsSettled /\ SettledOnce
  BY DEF NoForgottenHold, UnderWayIsBacked, DeliveredIsSettled, SettledOnce
<1>6. QED
  BY <1>1, <1>2, <1>4, <1>5 DEF WalletInv

\* One step per action: no request, fault or crash breaks the invariant.
LEMMA StepInv == WalletInv /\ [Next]_vars => WalletInv'
<1> SUFFICES ASSUME WalletInv, [Next]_vars PROVE WalletInv'
  OBVIOUS
<1> USE WalletAssumption
    DEF WalletInv, TypeOK, AcceptanceInv, Acceptance, SettlementInv, Settlement,
        ChargedInv, Charged, NotedInv, NoForgottenHold, UnderWayIsBacked,
        DeliveredIsSettled, SettledOnce, vars, docs, wallet, request, history,
        Nothing, Goto, Return, NextStep
<1>1. CASE Accept
  BY <1>1 DEF Accept
<1>2. CASE HoldWithdrawal
  BY <1>2 DEF HoldWithdrawal
<1>3. CASE HoldFails
  BY <1>3 DEF HoldFails
<1>4. CASE RecordHold
  BY <1>4 DEF RecordHold
<1>5. CASE RecordHoldFails
  BY <1>5 DEF RecordHoldFails
<1>6. CASE AcceptTrip
  BY <1>6 DEF AcceptTrip
<1>7. CASE AcceptTripFails
  BY <1>7 DEF AcceptTripFails
<1>8. CASE ReleaseHold
  BY <1>8 DEF ReleaseHold
<1>9. CASE ReleaseHoldFails
  BY <1>9 DEF ReleaseHoldFails
<1>10. CASE RestoreTrip
  BY <1>10 DEF RestoreTrip
<1>11. CASE RestoreTripFails
  <2>1. TypeOK' /\ AcceptanceInv' /\ SettlementInv'
    BY <1>11 DEF RestoreTripFails
  <2>2. ChargedInv' /\ NotedInv'
    BY <1>11 DEF RestoreTripFails
  <2>3. (weomniTxRef # NoRef => hold[weomniTxRef] # "none")'
    BY <1>11 DEF RestoreTripFails
  <2>4. NoForgottenHold' /\ UnderWayIsBacked'
    BY <1>11 DEF RestoreTripFails
  <2>5. DeliveredIsSettled' /\ SettledOnce'
    BY <1>11 DEF RestoreTripFails
  <2>6. QED
    BY <2>1, <2>2, <2>3, <2>4, <2>5
<1>12. CASE Settle
  BY <1>12 DEF Settle
<1>13. CASE Capture
  BY <1>13 DEF Capture
<1>14. CASE CaptureFails
  BY <1>14 DEF CaptureFails
<1>15. CASE SaveCapture
  BY <1>15 DEF SaveCapture
<1>16. CASE PayOut
  BY <1>16 DEF PayOut
<1>17. CASE PayOutFails
  BY <1>17 DEF PayOutFails
<1>18. CASE SavePayout
  BY <1>18 DEF SavePayout
<1>19. CASE SaveFails
  <2>1. TypeOK' /\ AcceptanceInv' /\ SettlementInv'
    BY <1>19 DEF SaveFails
  <2>2. ChargedInv' /\ NotedInv'
    BY <1>19 DEF SaveFails
  <2>3. (weomniTxRef # NoRef => hold[weomniTxRef] # "none")'
    BY <1>19 DEF SaveFails
  <2>4. NoForgottenHold' /\ UnderWayIsBacked'
    BY <1>19 DEF SaveFails
  <2>5. DeliveredIsSettled' /\ SettledOnce'
    BY <1>19 DEF SaveFails
  <2>6. QED
    BY <2>1, <2>2, <2>3, <2>4, <2>5
<1>20. CASE Deliver
  BY <1>20 DEF Deliver
<1>21. CASE DeliverFails
  BY <1>21 DEF DeliverFails
<1>22. CASE Crash
  BY <1>22 DEF Crash
<1>23. CASE UNCHANGED vars
  BY <1>23
<1>24. QED
  BY <1>1, <1>2, <1>3, <1>4, <1>5, <1>6, <1>7, <1>8, <1>9, <1>10, <1>11, <1>12,
     <1>13, <1>14, <1>15, <1>16, <1>17, <1>18, <1>19, <1>20, <1>21, <1>22, <1>23
     DEF Next

\* The invariant holds in every reachable state.
THEOREM WalletInvariant == Spec => []WalletInv
BY InitInv, StepInv, PTL DEF Spec

\* Money stays held only for a trip under way or for the request that is
\* about to decide, for any number of failed and repeated acceptances
\* (creditWalletAccept.js, the catch block of acceptTrip.js).
THEOREM HoldsAreAccountedFor == Spec => []NoForgottenHold
<1>1. WalletInv => NoForgottenHold
  BY DEF WalletInv
<1>2. QED
  BY <1>1, WalletInvariant, PTL

\* Between requests no trip refers to money that was given back, whatever
\* interrupted the requests before (acceptTrip.js, catch block).
THEOREM TripsAreBacked == Spec => []UnderWayIsBacked
<1>1. WalletInv => UnderWayIsBacked
  BY DEF WalletInv
<1>2. QED
  BY <1>1, WalletInvariant, PTL

\* Whatever failed and was tried again, a delivered trip is settled
\* (delivery.js todoTypeDelivered, creditWalletSettlement.js settlement).
THEOREM DeliveriesAreSettled == Spec => []DeliveredIsSettled
<1>1. WalletInv => DeliveredIsSettled
  BY DEF WalletInv
<1>2. QED
  BY <1>1, WalletInvariant, PTL

\* As long as no note was lost, the extra cash is paid out once and no
\* capture is asked for again (creditWalletSettlement.js settlement).
THEOREM ChargesAreMadeOnce == Spec => []SettledOnce
<1>1. WalletInv => SettledOnce
  BY DEF WalletInv
<1>2. QED
  BY <1>1, WalletInvariant, PTL
=============================================================================
