---------------------------- MODULE AuthCooldown ----------------------------
(***************************************************************************)
(* internal/scheduler.AuthCooldownRegistry: the in-memory, per-provider    *)
(* authentication backoff, together with the three ways the rest of the    *)
(* program uses it: the scheduler records a failure or clears the entry    *)
(* after an attempt that passed the gate, and internal/credential clears   *)
(* the entry after a successful credential set.                            *)
(*                                                                         *)
(* Every method of the registry runs under its mutex, so each is one step. *)
(* Time is a natural number of abstract ticks; durations use the same      *)
(* unit.  A Go time.Duration is a signed integer of Width bits, which is   *)
(* what the left shift in recordFailure can overflow.                      *)
(***************************************************************************)
EXTENDS Integers

CONSTANTS
    Providers,    \* provider ids
    Bases,        \* the poll intervals an operator may configure
    MaxCooldown,  \* maxAuthCooldown, the cap of the backoff
    Width,        \* bits of a time.Duration (64 in the program)
    ShiftCap,     \* the failure count from which no shift is tried (32)
    MaxTime       \* bound: the clock stops here

ASSUME CooldownAssumption ==
    /\ Bases \subseteq Nat \ {0}
    /\ MaxCooldown \in Nat \ {0}
    /\ Width \in Nat \ {0}
    /\ ShiftCap \in Nat \ {0}
    /\ MaxTime \in Nat

VARIABLES
    base,     \* the registry's base window: the configured poll interval
    entries,  \* the registry's map; an absent key reads as the zero value
    now       \* the clock

vars == <<base, entries, now>>

-----------------------------------------------------------------------------
(* The map entry of a provider.  Go reads a missing key as the zero value, *)
(* so an absent entry and NoEntry are the same state.                      *)
Entry == [failures : Nat, until : Nat]

NoEntry == [failures |-> 0, until |-> 0]

(* The powers of two a shift multiplies by.                                *)
Pow2[n \in Nat] == IF n = 0 THEN 1 ELSE 2 * Pow2[n - 1]

(* base << (failures - 1) in signed arithmetic of Width bits.              *)
Shifted(b, failures) ==
    LET u == (b * Pow2[failures - 1]) % Pow2[Width]
    IN  IF u < Pow2[Width - 1] THEN u ELSE u - Pow2[Width]

(* Plausible bugs of the backoff, used by the mutation runs: the cap check *)
(* forgotten, the sign check forgotten, the shift off by one.              *)
UncappedBackoff(b, failures) ==
    IF failures <= ShiftCap /\ Shifted(b, failures) > 0
    THEN Shifted(b, failures)
    ELSE MaxCooldown

SignlessBackoff(b, failures) ==
    IF failures <= ShiftCap /\ Shifted(b, failures) <= MaxCooldown
    THEN Shifted(b, failures)
    ELSE MaxCooldown

LateBackoff(b, failures) ==
    IF failures <= ShiftCap /\ Shifted(b, failures + 1) \in 1..MaxCooldown
    THEN Shifted(b, failures + 1)
    ELSE MaxCooldown

(* The window of the failures-th consecutive failure.  The code replaces   *)
(* the shifted value by the cap when the count passes the shift limit, or  *)
(* the result is not positive, or it exceeds the cap.                      *)
Backoff(b, failures) ==
    IF failures <= ShiftCap /\ Shifted(b, failures) \in 1..MaxCooldown
    THEN Shifted(b, failures)
    ELSE MaxCooldown

Active(p) == now < entries[p].until

(* recordFailure(p): count the failure, restart the window from now.       *)
RecordFailure(p) ==
    LET failures == entries[p].failures + 1
    IN  entries' = [entries EXCEPT
                      ![p] = [failures |-> failures,
                              until    |-> now + Backoff(base, failures)]]

Clear(p) == entries' = [entries EXCEPT ![p] = NoEntry]

-----------------------------------------------------------------------------
TypeOK ==
    /\ base \in Bases
    /\ entries \in [Providers -> Entry]
    /\ now \in Nat

Init ==
    /\ base \in Bases
    /\ entries = [p \in Providers |-> NoEntry]
    /\ now = 0

(* An attempt that the gate let through ends in an authentication error.   *)
AuthFailure(p) ==
    /\ ~Active(p)
    /\ RecordFailure(p)
    /\ UNCHANGED <<base, now>>

(* An attempt that the gate let through succeeds.                          *)
AttemptSucceeds(p) ==
    /\ ~Active(p)
    /\ Clear(p)
    /\ UNCHANGED <<base, now>>

(* Credential values were stored: the entry goes, gated or not.            *)
CredentialSet(p) ==
    /\ Clear(p)
    /\ UNCHANGED <<base, now>>

(* The process starts again: the registry is memory only, and the operator *)
(* may have configured another poll interval.                              *)
Reboot ==
    /\ base' \in Bases
    /\ entries' = [p \in Providers |-> NoEntry]
    /\ UNCHANGED now

Pass ==
    /\ now < MaxTime
    /\ now' = now + 1
    /\ UNCHANGED <<base, entries>>

Next ==
    \/ \E p \in Providers : AuthFailure(p) \/ AttemptSucceeds(p) \/ CredentialSet(p)
    \/ Reboot
    \/ Pass

Spec == Init /\ [][Next]_vars

-----------------------------------------------------------------------------
(* No cooldown outlasts the cap: whatever the failure history and whatever *)
(* the shift overflowed to, a window opened by recordFailure ends at most  *)
(* MaxCooldown from now, so a gated provider is never lost for good.       *)
CooldownBounded == \A p \in Providers : entries[p].until <= now + MaxCooldown

(* What the registry promises: the windows of consecutive failures double  *)
(* from base and saturate at the cap (see BackoffPromise).                 *)
Promise == INSTANCE BackoffPromise
             WITH window <- [p \in Providers |->
                               IF entries[p].failures = 0 THEN 0
                               ELSE Backoff(base, entries[p].failures)],
                  until  <- [p \in Providers |-> entries[p].until]

(* What the promise takes of a poll interval b, and of the cap: a shift    *)
(* that lands between 1 and the cap got there without losing a bit, the    *)
(* window has reached the cap when the registry stops shifting, and the    *)
(* cap is a positive duration.  Not every interval is like that: 33 with   *)
(* Width 8, ShiftCap 4 and cap 40, or 2^33 + 1 ns in the program, wraps    *)
(* around to a small positive duration and passes the guards of Backoff    *)
(* with a window far below the cap; and an interval below 839 ns is still  *)
(* short of an hour after the 32 doublings.                                *)
Faithful(b) ==
    /\ \A k \in 1..ShiftCap :
         Shifted(b, k) \in 1..MaxCooldown => b * Pow2[k - 1] <= MaxCooldown
    /\ MaxCooldown <= b * Pow2[ShiftCap]
    /\ MaxCooldown < Pow2[Width - 1]

(* The registry implements that promise when every poll interval is        *)
(* Faithful: the shifted windows, overflow guard included, are the doubled *)
(* and saturated ones, through any interleaving of failures, successes,    *)
(* credential updates and reboots.                                         *)
DoublesUpToCap == Promise!Spec
=============================================================================
