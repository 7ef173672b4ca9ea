--------------------------- MODULE BackoffPromise ---------------------------
(***************************************************************************)
(* What the comment of AuthCooldownRegistry promises, without the map, the *)
(* failure counter or machine arithmetic: failures back off exponentially  *)
(* from base, capped at the maximum, and a success or a credential update  *)
(* forgets the past.  A window is a number; consecutive failures double it *)
(* with saturation.                                                        *)
(***************************************************************************)
EXTENDS Integers

CONSTANTS Providers, Bases, MaxCooldown

VARIABLES
    base,    \* the first window
    window,  \* length of each provider's current window, 0 when none
    until,   \* when that window ends
    now

vars == <<base, window, until, now>>

Capped(d) == IF d < MaxCooldown THEN d ELSE MaxCooldown

NextWindow(p) == IF window[p] = 0 THEN Capped(base) ELSE Capped(2 * window[p])

Init ==
    /\ base \in Bases
    /\ window = [p \in Providers |-> 0]
    /\ until = [p \in Providers |-> 0]
    /\ now = 0

(* The provider may be attempted only outside its window; a failure opens  *)
(* the next, longer one.                                                   *)
Fail(p) ==
    /\ until[p] <= now
    /\ window' = [window EXCEPT ![p] = NextWindow(p)]
    /\ until' = [until EXCEPT ![p] = now + NextWindow(p)]
    /\ UNCHANGED <<base, now>>

Forget(p) ==
    /\ window' = [window EXCEPT ![p] = 0]
    /\ until' = [until EXCEPT ![p] = 0]
    /\ UNCHANGED <<base, now>>

Restart ==
    /\ base' \in Bases
    /\ window' = [p \in Providers |-> 0]
    /\ until' = [p \in Providers |-> 0]
    /\ UNCHANGED now

Wait ==
    /\ now' > now
    /\ UNCHANGED <<base, window, until>>

Next ==
    \/ \E p \in Providers : Fail(p) \/ Forget(p)
    \/ Restart
    \/ Wait

Spec == Init /\ [][Next]_vars
=============================================================================
