------------------------------ MODULE MCHttpApi ------------------------------
(***************************************************************************)
(* One provider with two credential fields for TLC.                        *)
(***************************************************************************)
EXTENDS HttpApi

CONSTANTS p, r1, r2, nobody

TwoFields == [id \in Ids |-> 2]
=============================================================================
