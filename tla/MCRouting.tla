------------------------------- MODULE MCRouting -------------------------------
(***************************************************************************)
(* Small instances of Routing.                                             *)
(***************************************************************************)
EXTENDS Routing

C(field, operator, value) == [field |-> field, operator |-> operator, comparison_value |-> value]

SomeTexts == {"crm 7", "7"}
SomeSubstrings == {<<"crm 7", "7">>}

FewConditions == {C("service", "contains", "7"), C("budget", "greater_than", "0")}
=============================================================================
