------------------------------ MODULE Minimax -------------------------------
(***************************************************************************)
(* internal/plugins/minimax: what FetchUsage makes of an answer of the     *)
(* upstream.  An answer records whether its body could be read to the end  *)
(* (whole; a request that got none is not whole), its HTTP status, whether *)
(* the body parses (json), the code of its envelope and its two windows.   *)
(***************************************************************************)
EXTENDS Integers

CONSTANTS
    Half,   \* integers have the range -Half .. Half - 1; 2^63 in the code
    Nil     \* an absent field

ASSUME HalfAssumption == Half \in Nat \ {0}
ASSUME NilAssumption == Nil \notin Int

Word == -Half .. Half - 1

Window == [remains : Word \cup {Nil}, limit : Word \cup {Nil}, resetAt : Nat \cup {Nil}]

Metric == [used : Nat, limit : Word \cup {Nil}, remaining : Word \cup {Nil},
           resetAt : Nat \cup {Nil}]

(* A difference of two machine integers, as the machine computes it.       *)
Wrap(n) == IF n >= Half THEN n - 2 * Half ELSE IF n < -Half THEN n + 2 * Half ELSE n

Given(x) == IF x = Nil THEN 0 ELSE x

Difference(window) == Wrap(Given(window.limit) - Given(window.remains))

(* Plausible bug: the difference is not clamped.                           *)
RawUsed(window) == Difference(window)

Used(window) == IF Difference(window) < 0 THEN 0 ELSE Difference(window)

(* A reset that is not ahead of now is dropped.                            *)
ToMetric(window, now) ==
    [used      |-> Used(window),
     limit     |-> window.limit,
     remaining |-> window.remains,
     resetAt   |-> IF window.resetAt # Nil /\ window.resetAt > now THEN window.resetAt
                                                                  ELSE Nil]

(* toMetric has nothing to go by.                                          *)
Blank(window) == window.remains = Nil /\ window.limit = Nil

IsAuthError(code) == code \in 1000..1999

Success(answer) == answer.whole /\ answer.status \in 200..299 /\ answer.json

(* Plausible bug: the body is parsed before the status is looked at.       *)
LateRejected(answer) ==
    /\ answer.whole /\ answer.json
    /\ answer.status \in {401, 403} \/ IsAuthError(answer.code)

(* The body is read, then the status is looked at, then the envelope.      *)
Rejected(answer) ==
    \/ answer.whole /\ answer.status \in {401, 403}
    \/ Success(answer) /\ IsAuthError(answer.code)

(* Plausible bug: the error of the second window is dropped.               *)
HalfAccepted(answer) ==
    Success(answer) /\ answer.code = 0 /\ ~Blank(answer.fiveHour)

(* FetchUsage returns two metrics or an error, never one metric.           *)
Accepted(answer) ==
    /\ Success(answer)
    /\ answer.code = 0
    /\ ~Blank(answer.fiveHour) /\ ~Blank(answer.weekly)

(* The error class FetchUsage returns for an answer.                       *)
Verdict(answer) ==
    IF Rejected(answer) THEN "auth" ELSE IF Accepted(answer) THEN "ok" ELSE "error"
=============================================================================
