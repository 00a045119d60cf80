------------------------- MODULE MCShowcaseWorkspace -------------------------
(***************************************************************************)
(* Small instances of ShowcaseWorkspace, in two scenes: pages load and     *)
(* forms are used while a new workspace is seeded and two calls die; or    *)
(* up to two resets, submissions and saved rules overlap in a workspace    *)
(* that was seeded before and one call dies.                               *)
(***************************************************************************)
EXTENDS ShowcaseWorkspace, TLC

VARIABLE scene

Called(s) == IF s = "first use" THEN {"getDashboard", "submitIntake", "saveRule"}
             ELSE {"submitIntake", "saveRule", "resetDemo"}

MCInit == Init /\ scene = IF db = Empty THEN "first use" ELSE "reset"

MCNext ==
  /\ Next
  /\ \A c \in Calls : call'[c].op \in Called(scene) \cup {None}
  /\ scene = "reset" => faults' <= 1
  /\ Cardinality({c \in Calls : call'[c].op = "resetDemo"}) <= 2
  /\ UNCHANGED scene

MCSpec == MCInit /\ [][MCNext]_<<vars, scene>>

Symmetry == Permutations(Calls)
=============================================================================
