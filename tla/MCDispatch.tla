------------------------------ MODULE MCDispatch ------------------------------
(* Instances of Dispatch for TLC. *)
EXTENDS Dispatch, TLC

CONSTANTS r1, r2, a1

ToOne == [r \in Requests |-> a1]
=============================================================================
