--------------------------- MODULE MCAuthCooldown ---------------------------
(***************************************************************************)
(* The registry with numbers for which the doubling promise is kept.  The  *)
(* assumption is the hypothesis of its proof, here evaluated on the        *)
(* intervals that AuthCooldown.cfg gives; one of them, 256, overflows to a *)
(* negative duration and then to zero within the shift limit.              *)
(***************************************************************************)
EXTENDS AuthCooldown

ASSUME FaithfulIntervals == \A b \in Bases : Faithful(b)
=============================================================================
