------------------------------ MODULE PollLoop ------------------------------
(***************************************************************************)
(* Scheduler.Run and its timing: the ticker, which buffers one tick and    *)
(* drops the rest, the sequential walk over the enabled providers, the     *)
(* per-provider fetch timeout, and the cooldown windows.  An upstream may  *)
(* never answer.  A refresh has neither gate nor timeout and leaves no     *)
(* trace here.                                                             *)
(*                                                                         *)
(* Time is relative: every clock counts down to its event, so the model    *)
(* runs forever in finitely many states.  Reading rows and writing a       *)
(* snapshot takes no time here (Collection interleaves those statements),  *)
(* so time passes only while the poll goroutine waits: for the ticker or   *)
(* for an upstream.  Providers are numbered in registry order.             *)
(***************************************************************************)
EXTENDS Integers, FiniteSets

CONSTANTS
    N,             \* number of providers
    Poll,          \* the poll interval, also the base of the cooldown
    FetchTimeout,  \* the bound of one provider's collection
    MaxCooldown, Width, ShiftCap,
    MaxFailures    \* bound: the failure count is not followed further

Providers == 1..N
Nobody == 0

ASSUME PollLoopAssumption ==
    /\ N \in Nat \ {0}
    /\ Poll \in Nat \ {0}
    /\ FetchTimeout \in Nat \ {0}
    /\ MaxCooldown \in Nat \ {0}
    /\ Width \in Nat \ {0}
    /\ ShiftCap \in Nat \ {0}
    /\ MaxFailures \in Nat \ {0}

VARIABLES
    enabled,   \* providers.enabled
    toFire,    \* time to the next fire of the ticker
    fired,     \* a tick waits in ticker.C
    todo,      \* the providers the running tick has still to visit
    fetching,  \* the provider whose upstream the poll goroutine waits for
    left,      \* time to the deadline of that call
    entries,   \* the cooldown registry; until is the time that remains
    due        \* history: the time left until a provider must be attempted

vars == <<enabled, toFire, fired, todo, fetching, left, entries, due>>

Cooldown == INSTANCE AuthCooldown
              WITH base <- Poll, Bases <- {Poll}, now <- 0, MaxTime <- 0

(* The longest a provider may wait between attempts while every tick lists *)
(* the providers: a full cooldown, one poll interval, and the turns of the *)
(* others in the tick that missed it and in the one that takes it.         *)
RetryBound == MaxCooldown + Poll + 2 * (N - 1) * FetchTimeout

-----------------------------------------------------------------------------
TypeOK ==
    /\ enabled \in [Providers -> BOOLEAN]
    /\ toFire \in 1..Poll
    /\ fired \in BOOLEAN
    /\ todo \subseteq Providers
    /\ fetching \in Providers \cup {Nobody}
    /\ left \in 0..FetchTimeout
    /\ entries \in [Providers -> [failures : 0..MaxFailures, until : 0..MaxCooldown]]
    /\ due \in [Providers -> Int]

Init ==
    /\ enabled \in [Providers -> BOOLEAN]
    /\ toFire = Poll
    /\ fired = FALSE
    /\ todo = {}
    /\ fetching = Nobody
    /\ left = 0
    /\ entries = [p \in Providers |-> Cooldown!NoEntry]
    /\ due = [p \in Providers |-> RetryBound]

-----------------------------------------------------------------------------
(* Run receives from ticker.C and calls tick, which lists the providers.   *)
TickStart ==
    /\ fetching = Nobody /\ todo = {}
    /\ fired
    /\ fired' = FALSE
    /\ todo' = {p \in Providers : enabled[p]}
    /\ UNCHANGED <<enabled, toFire, fetching, left, entries, due>>

(* Its List fails: the tick is over and has visited nobody, which costs    *)
(* every provider out of cooldown a poll interval.                         *)
TickFails ==
    /\ fetching = Nobody /\ todo = {}
    /\ fired
    /\ fired' = FALSE
    /\ due' = [p \in Providers |->
                 IF enabled[p] /\ ~Cooldown!Active(p) THEN due[p] + Poll ELSE due[p]]
    /\ UNCHANGED <<enabled, toFire, todo, fetching, left, entries>>

Visit(p) ==
    /\ fetching = Nobody
    /\ p \in todo
    /\ \A q \in todo : p <= q
    /\ todo' = todo \ {p}

(* Plausible bug: a skipped provider counts as one that failed again.      *)
ExtendingSkip(p) ==
    /\ Visit(p)
    /\ Cooldown!Active(p)
    /\ entries' = [entries EXCEPT ![p].until = Cooldown!Backoff(Poll, entries[p].failures)]
    /\ UNCHANGED <<enabled, toFire, fired, fetching, left, due>>

(* collectOne on a provider in cooldown.                                   *)
Skip(p) ==
    /\ Visit(p)
    /\ Cooldown!Active(p)
    /\ UNCHANGED <<enabled, toFire, fired, fetching, left, entries, due>>

(* collectOne: the call runs under context.WithTimeout.                    *)
Attempt(p) ==
    /\ Visit(p)
    /\ ~Cooldown!Active(p)
    /\ fetching' = p
    /\ left' = FetchTimeout
    /\ due' = [due EXCEPT ![p] = RetryBound]
    /\ UNCHANGED <<enabled, toFire, fired, entries>>

(* recordFailure, with the count held at MaxFailures.                      *)
RecordFailure(p) ==
    IF entries[p].failures < MaxFailures
    THEN Cooldown!RecordFailure(p)
    ELSE entries' = [entries EXCEPT ![p].until = Cooldown!Backoff(Poll, MaxFailures)]

(* Plausible bug: an error ends the tick.                                  *)
AbortingReturn ==
    /\ fetching # Nobody
    /\ \/ Cooldown!Clear(fetching) /\ UNCHANGED todo
       \/ RecordFailure(fetching) /\ UNCHANGED todo
       \/ UNCHANGED entries /\ todo' = {}
    /\ fetching' = Nobody
    /\ left' = 0
    /\ UNCHANGED <<enabled, toFire, fired, due>>

(* Collect comes back in time: success, an authentication error, or any    *)
(* other error, among them every refusal before the upstream is called.    *)
Answer ==
    /\ fetching # Nobody
    /\ \/ Cooldown!Clear(fetching)
       \/ RecordFailure(fetching)
       \/ UNCHANGED entries
    /\ fetching' = Nobody
    /\ left' = 0
    /\ UNCHANGED <<enabled, toFire, fired, todo, due>>

(* The deadline passes: the call returns an error, which is only logged.   *)
Timeout ==
    /\ fetching # Nobody
    /\ left = 0
    /\ fetching' = Nobody
    /\ UNCHANGED <<enabled, toFire, fired, todo, left, entries, due>>

-----------------------------------------------------------------------------
SetEnabled(p, b) ==
    /\ enabled' = [enabled EXCEPT ![p] = b]
    /\ due' = [due EXCEPT ![p] = IF enabled[p] = b THEN @ ELSE RetryBound]
    /\ UNCHANGED <<toFire, fired, todo, fetching, left, entries>>

(* A credential set clears the entry.                                      *)
CredentialSet(p) ==
    /\ Cooldown!Clear(p)
    /\ UNCHANGED <<enabled, toFire, fired, todo, fetching, left, due>>

-----------------------------------------------------------------------------
(* The poll goroutine waits for the ticker or for an upstream.             *)
Waiting ==
    \/ fetching # Nobody /\ left > 0
    \/ fetching = Nobody /\ todo = {} /\ ~fired

Down(t) == IF t > 0 THEN t - 1 ELSE 0

Overdue == -1

(* One unit of time.  A fire of the ticker while a tick still waits in its *)
(* channel is dropped.                                                     *)
Elapse ==
    /\ Waiting
    /\ IF toFire = 1
       THEN toFire' = Poll /\ fired' = TRUE
       ELSE toFire' = toFire - 1 /\ UNCHANGED fired
    /\ left' = Down(left)
    /\ entries' = [p \in Providers |-> [entries[p] EXCEPT !.until = Down(@)]]
    /\ due' = [p \in Providers |->
                 IF ~enabled[p] \/ fetching = p THEN RetryBound
                 ELSE IF due[p] = Overdue THEN Overdue
                 ELSE due[p] - 1]
    /\ UNCHANGED <<enabled, todo, fetching>>

SchedStep ==
    \/ TickStart
    \/ TickFails
    \/ Timeout
    \/ \E p \in Providers : Skip(p) \/ Attempt(p)

Next ==
    \/ SchedStep
    \/ Answer
    \/ \E p \in Providers : SetEnabled(p, TRUE) \/ SetEnabled(p, FALSE) \/ CredentialSet(p)
    \/ Elapse

(* The runtime keeps the poll goroutine and the clock going; nothing makes *)
(* an upstream answer or a client send anything.                           *)
Fairness == WF_vars(SchedStep) /\ WF_vars(Elapse)

Spec == Init /\ [][Next]_vars /\ Fairness

-----------------------------------------------------------------------------
(* No provider is forgotten: however the upstreams behave, hanging ones    *)
(* included, and however often the ticker's fires are dropped, an enabled  *)
(* provider is attempted again within RetryBound, and a poll interval more *)
(* for each tick whose List failed while it was out of cooldown.           *)
RetriedWithinBound == \A p \in Providers : due[p] >= 0

(* A provider that stays enabled is attempted for ever, whatever happens   *)
(* to the others and however often it fails, provided that the ticks' List *)
(* does not fail for ever: nothing in the loop makes it succeed.           *)
AttemptedForEver ==
    \A p \in Providers :
        <>[](enabled[p]) /\ []<><<TickStart>>_vars => []<>(fetching = p)

=============================================================================
