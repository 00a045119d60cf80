---------------------------- MODULE MCGateSession ----------------------------
(***************************************************************************)
(* A browser of a member, and a gate with two viewers, one of whom is that *)
(* member: the gate's identity has the e-mail of the member's account.     *)
(***************************************************************************)
EXTENDS GateSession

MCUserOf == [v \in Viewers |-> IF v = "v" THEN Member ELSE v]

Spec == AuthSpec /\ AuthFairness
=============================================================================
