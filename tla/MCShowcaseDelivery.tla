------------------------- MODULE MCShowcaseDelivery -------------------------
(***************************************************************************)
(* Small instances of ShowcaseDelivery.                                    *)
(***************************************************************************)
EXTENDS ShowcaseDelivery, TLC

Symmetry == Permutations(Calls) \cup Permutations(Deliveries)
=============================================================================
