------------------------------ MODULE MCIntake ------------------------------
(***************************************************************************)
(* Small instances of Intake.                                              *)
(***************************************************************************)
EXTENDS Intake, TLC

CONSTANTS e1, e2, p1, x1

P(email, phone, external) == [email |-> email, phone |-> phone, external |-> external]

\* Contacts that overlap, and a payload no rule accepts.
ContactPayloads == {P(e1, p1, None), P(e2, p1, x1), P(None, None, x1)}

Symmetry == Permutations(Clients)
=============================================================================
