---------------------------- MODULE MCUsagePath ----------------------------
(***************************************************************************)
(* Four-bit words, and two places whose names join to the same bytes.      *)
(***************************************************************************)
EXTENDS UsagePath

CONSTANTS k1, k2

TheDomain == <<9>>

ThePlaces == {<< <<1>>, <<2, 3>> >>, << <<1, 2>>, <<3>> >>}

TheTarget == << <<1>>, <<2, 3>> >>

Quota(remains, limit, resetAt) == [remains |-> remains, limit |-> limit, resetAt |-> resetAt]

BlankQuota == Quota(Nil, Nil, Nil)

(* Consistent, exhausted, overdrawn, half disclosed, and wrapping in       *)
(* either direction; without a reset, with one ahead or just passed.       *)
Quotas == {Quota(2, 7, 1), Quota(0, 7, Nil), Quota(5, 3, Nil), Quota(Nil, 3, 2),
           Quota(3, Nil, Nil), Quota(-8, 7, Nil), Quota(7, -8, Nil)}

Answer(status, whole, json, code, fiveHour, weekly) ==
    [status |-> status, whole |-> whole, json |-> json, code |-> code,
     fiveHour |-> fiveHour, weekly |-> weekly]

(* A body broken off or not JSON, every class of status and of code, and   *)
(* windows of which one, both or neither is blank.                         *)
TheAnswers ==
    {Answer(s, w, j, 0, BlankQuota, BlankQuota) :
        s \in {200, 401, 403, 500}, w \in BOOLEAN, j \in BOOLEAN}
    \cup {Answer(200, TRUE, TRUE, c, BlankQuota, BlankQuota) : c \in {1004, 1999, 2013}}
    \cup {Answer(200, TRUE, TRUE, 0, q, r) : q \in Quotas, r \in {Quota(2, 7, 1), BlankQuota}}
    \cup {Answer(200, TRUE, TRUE, 0, BlankQuota, q) : q \in Quotas}

(* Wrap is subtraction in two's complement, for all pairs of words.        *)
ASSUME \A a, b \in Word : Wrap(a - b) = ((a - b + Half) % (2 * Half)) - Half
=============================================================================
