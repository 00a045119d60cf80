----------------------------- MODULE MCDelivery -----------------------------
(***************************************************************************)
(* Delivery for TLC: workers and integrations are interchangeable.         *)
(***************************************************************************)
EXTENDS Delivery, TLC

Symmetry == Permutations(Workers) \cup Permutations(Integrations)
=============================================================================
