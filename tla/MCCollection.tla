---------------------------- MODULE MCCollection ----------------------------
(***************************************************************************)
(* Instances of Collection for TLC: one provider with one field (all the   *)
(* live registry entries of the program have one), one provider with two   *)
(* fields (the shape the credential tests use), and two providers.         *)
(***************************************************************************)
EXTENDS Collection

CONSTANTS p1, p2

OneProvider == <<p1>>
TwoProviders == <<p1, p2>>

OneFieldEach == [p \in Providers |-> 1]
TwoFieldsEach == [p \in Providers |-> 2]
NoFieldForP2 == [p \in Providers |-> IF p = p2 THEN 0 ELSE 1]
=============================================================================
