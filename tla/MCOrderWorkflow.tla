-------------------------- MODULE MCOrderWorkflow --------------------------
(***************************************************************************)
(* A small instance of OrderWorkflow for TLC: steps that create something  *)
(* and the transport are tried twice, so that a second try can go wrong    *)
(* because of the first; the others once, so that one fault is enough for  *)
(* the order to fail in each of them.                                      *)
(***************************************************************************)
EXTENDS OrderWorkflow

MCRetryCount == [s \in Stages |-> IF s \in {"TASKS", "TRIP", "TRANSPORT"} THEN 1 ELSE 0]
=============================================================================
