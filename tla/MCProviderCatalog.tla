-------------------------- MODULE MCProviderCatalog --------------------------
(***************************************************************************)
(* Four builds for TLC: an old one, a newer one with a third provider, one *)
(* that dropped two, and one whose main registers a Fetcher its registry   *)
(* does not know.                                                          *)
(***************************************************************************)
EXTENDS ProviderCatalog

CONSTANTS p1, p2, p3

FourBuilds ==
    {[registry |-> <<p1, p2>>,     fetchers |-> <<p1>>],
     [registry |-> <<p2, p3, p1>>, fetchers |-> <<p3, p1>>],
     [registry |-> <<p3>>,         fetchers |-> << >>],
     [registry |-> <<p3, p2>>,     fetchers |-> <<p2, p1>>]}
=============================================================================
