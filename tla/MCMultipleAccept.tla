-------------------------- MODULE MCMultipleAccept --------------------------
(***************************************************************************)
(* MultipleAccept for TLC.  Requests are interchangeable, and so are the   *)
(* trips in Allowed when all or none of them use the wallet.               *)
(***************************************************************************)
EXTENDS MultipleAccept

CONSTANTS
    t1, t2, t3,
    MaxEvents  \* bound: acceptances, faults, notes and months that end, together

Interchangeable == Permutations(Request) \cup Permutations(Allowed)
Requests == Permutations(Request)

Events ==
    Cardinality({r \in Request : ~At(r, "idle")}) + Cardinality({n \in Note : note[n].at # "idle"})
    + faults + month - 1

\* Where every driver was hasty most properties say nothing, now and later.
Instance == hasty # Driver /\ Events <= MaxEvents
=============================================================================
