--------------------------- MODULE PollLoop_proofs ---------------------------
(***************************************************************************)
(* Theorems about PollLoop, for any number of providers and any durations. *)
(***************************************************************************)
EXTENDS PollLoop, TLAPS

-----------------------------------------------------------------------------
(* The time n turns of the tick may take.                                  *)
Turns(n) == n * FetchTimeout

LEMMA TurnsGrow ==
    ASSUME NEW a \in Int, NEW b \in Int, a <= b
    PROVE  Turns(a) \in Int /\ Turns(b) \in Int /\ Turns(a) <= Turns(b)
<1> DEFINE d == b - a
<1>1. d \in Nat /\ FetchTimeout \in Nat /\ b = a + d
  BY PollLoopAssumption
<1> HIDE DEF d
<1>2. d * FetchTimeout >= 0 /\ d * FetchTimeout \in Int
  BY <1>1
<1>3. (a + d) * FetchTimeout = a * FetchTimeout + d * FetchTimeout
  BY <1>1
<1>4. a * FetchTimeout \in Int
  BY <1>1
<1>. QED BY <1>1, <1>2, <1>3, <1>4 DEF Turns

LEMMA TurnsNext ==
    /\ Turns(0) = 0
    /\ \A a \in Int : Turns(a + 1) = Turns(a) + FetchTimeout
BY PollLoopAssumption DEF Turns

LEMMA BoundIsTurns ==
    /\ RetryBound = MaxCooldown + Poll + Turns(N - 1) + Turns(N - 1)
    /\ Turns(N - 1) \in Nat
    /\ RetryBound \in Nat
<1>1. N - 1 \in Nat /\ FetchTimeout \in Nat /\ MaxCooldown \in Nat /\ Poll \in Nat
  BY PollLoopAssumption
<1>2. Turns(0) <= Turns(N - 1) /\ Turns(N - 1) \in Int
  BY <1>1, TurnsGrow
<1>3. Turns(N - 1) \in Nat
  BY <1>2, TurnsNext
<1>4. 2 * (N - 1) * FetchTimeout = (N - 1) * FetchTimeout + (N - 1) * FetchTimeout
  BY <1>1
<1>5. RetryBound = MaxCooldown + Poll + (Turns(N - 1) + Turns(N - 1))
  BY <1>4 DEF RetryBound, Turns
<1>. QED BY <1>1, <1>3, <1>5

-----------------------------------------------------------------------------
LEMMA BackoffBounded ==
    ASSUME NEW f
    PROVE  Cooldown!Backoff(Poll, f) \in 1..MaxCooldown
BY PollLoopAssumption DEF Cooldown!Backoff

Entries == [Providers -> [failures : 0..MaxFailures, until : 0..MaxCooldown]]

(* What may happen to the entry of a provider: a failure counts up to the  *)
(* bound and opens a window within the cap.                                *)
LEMMA EntriesTyped ==
    ASSUME TypeOK, NEW p \in Providers
    PROVE  /\ Cooldown!Clear(p) =>
                entries' \in Entries /\ entries' = [entries EXCEPT ![p] = Cooldown!NoEntry]
           /\ RecordFailure(p) =>
                entries' \in Entries /\ \A q \in Providers \ {p} : entries'[q] = entries[q]
<1>1. /\ entries \in Entries /\ MaxFailures \in Nat /\ MaxCooldown \in Nat
      /\ entries[p].failures \in 0..MaxFailures
  BY PollLoopAssumption DEF TypeOK, Entries
<1>2. ASSUME Cooldown!Clear(p)
      PROVE  entries' \in Entries /\ entries' = [entries EXCEPT ![p] = Cooldown!NoEntry]
  BY <1>1, <1>2 DEF Cooldown!Clear, Cooldown!NoEntry, Entries
<1>3. ASSUME RecordFailure(p)
      PROVE  entries' \in Entries /\ \A q \in Providers \ {p} : entries'[q] = entries[q]
  <2>1. CASE entries[p].failures < MaxFailures
    <3> DEFINE n == entries[p].failures + 1
               u == 0 + Cooldown!Backoff(Poll, n)
    <3>1. n \in 0..MaxFailures /\ u \in 0..MaxCooldown
      BY <1>1, <2>1, BackoffBounded
    <3>2. entries' = [entries EXCEPT ![p] = [failures |-> n, until |-> u]]
      BY <1>3, <2>1 DEF RecordFailure, Cooldown!RecordFailure
    <3> HIDE DEF n, u
    <3>. QED BY <1>1, <3>1, <3>2 DEF Entries
  <2>2. CASE ~(entries[p].failures < MaxFailures)
    <3> DEFINE u == Cooldown!Backoff(Poll, MaxFailures)
    <3>1. u \in 0..MaxCooldown
      BY BackoffBounded
    <3>2. entries' = [entries EXCEPT ![p].until = u]
      BY <1>3, <2>2 DEF RecordFailure
    <3> HIDE DEF u
    <3>. QED BY <1>1, <3>1, <3>2 DEF Entries
  <2>. QED BY <2>1, <2>2
<1>. QED BY <1>2, <1>3

LEMMA StaysTyped ==
    ASSUME TypeOK, [Next]_vars
    PROVE  TypeOK'
<1>0. /\ N \in Nat /\ Poll \in Nat \ {0} /\ FetchTimeout \in Nat /\ RetryBound \in Nat
      /\ Nobody \notin Providers /\ MaxCooldown \in Nat
  BY PollLoopAssumption, BoundIsTurns DEF Providers, Nobody
<1>1. CASE TickStart
  BY <1>1 DEF TickStart, TypeOK
<1>2. ASSUME NEW p \in Providers, Skip(p) PROVE TypeOK'
  BY <1>2 DEF Skip, Visit, TypeOK
<1>3. ASSUME NEW p \in Providers, Attempt(p) PROVE TypeOK'
  BY <1>0, <1>3 DEF Attempt, Visit, TypeOK
<1>4. CASE Answer
  <2>1. fetching \in Providers
    BY <1>4 DEF Answer, TypeOK
  <2>2. entries' \in Entries
    <3>1. CASE Cooldown!Clear(fetching)
      BY <2>1, <3>1, EntriesTyped
    <3>2. CASE RecordFailure(fetching)
      BY <2>1, <3>2, EntriesTyped
    <3>3. CASE UNCHANGED entries
      BY <3>3 DEF TypeOK, Entries
    <3>. QED BY <1>4, <3>1, <3>2, <3>3 DEF Answer
  <2>. QED BY <1>0, <1>4, <2>2 DEF Answer, TypeOK, Entries
<1>5. CASE Timeout
  BY <1>5 DEF Timeout, TypeOK
<1>6. ASSUME NEW p \in Providers, NEW b \in BOOLEAN, SetEnabled(p, b) PROVE TypeOK'
  BY <1>0, <1>6 DEF SetEnabled, TypeOK
<1>7. ASSUME NEW p \in Providers, CredentialSet(p) PROVE TypeOK'
  BY <1>7, EntriesTyped DEF CredentialSet, TypeOK, Entries
<1>8. CASE Elapse
  <2>1. toFire' \in 1..Poll /\ fired' \in BOOLEAN /\ left' \in 0..FetchTimeout
    <3>1. toFire' \in 1..Poll
      BY <1>0, <1>8 DEF Elapse, TypeOK
    <3>2. fired' = TRUE \/ fired' = fired
      BY <1>8 DEF Elapse
    <3>3. left' \in 0..FetchTimeout
      BY <1>0, <1>8 DEF Elapse, TypeOK, Down
    <3>. QED BY <3>1, <3>2, <3>3 DEF TypeOK
  <2>2. entries' \in Entries
    <3>1. \A t \in 0..MaxCooldown : Down(t) \in 0..MaxCooldown
      BY <1>0 DEF Down
    <3>2. \A p \in Providers :
            [entries[p] EXCEPT !.until = Down(@)]
               \in [failures : 0..MaxFailures, until : 0..MaxCooldown]
      BY <3>1 DEF TypeOK
    <3>. QED BY <1>8, <3>2 DEF Elapse, Entries
  <2>3. due' \in [Providers -> Int]
    <3>1. \A p \in Providers : due[p] \in Int /\ due[p] - 1 \in Int /\ Overdue \in Int
      BY DEF TypeOK, Overdue
    <3>. QED BY <1>0, <1>8, <3>1 DEF Elapse
  <2>. QED BY <1>8, <2>1, <2>2, <2>3 DEF Elapse, TypeOK, Entries
<1>9. CASE UNCHANGED vars
  BY <1>9 DEF vars, TypeOK
<1>10. CASE TickFails
  <2>1. due' \in [Providers -> Int]
    <3>1. \A p \in Providers : due[p] \in Int /\ due[p] + Poll \in Int
      BY <1>0 DEF TypeOK
    <3>. QED BY <1>10, <3>1 DEF TickFails
  <2>. QED BY <1>10, <2>1 DEF TickFails, TypeOK
<1>. QED
  BY <1>1, <1>2, <1>3, <1>4, <1>5, <1>6, <1>7, <1>8, <1>9, <1>10 DEF Next, SchedStep

LEMMA StartsTyped == Init => TypeOK
<1>1. /\ Poll \in Nat \ {0} /\ FetchTimeout \in Nat /\ RetryBound \in Nat
      /\ MaxCooldown \in Nat /\ MaxFailures \in Nat
  BY PollLoopAssumption, BoundIsTurns
<1>2. RetryBound \in Int /\ 0 \in 0..FetchTimeout /\ Poll \in 1..Poll
  BY <1>1
<1>3. Cooldown!NoEntry \in [failures : 0..MaxFailures, until : 0..MaxCooldown]
  BY <1>1 DEF Cooldown!NoEntry
<1>. QED BY <1>2, <1>3 DEF Init, TypeOK

(* The poll loop keeps its type; no window of the registry is longer than  *)
(* the cap, for any poll interval, integer width and count of failures.    *)
THEOREM TypeCorrect == Spec => []TypeOK
<1>1. TypeOK /\ [Next]_vars => TypeOK'
  BY StaysTyped
<1>. QED BY <1>1, StartsTyped, PTL DEF Spec

-----------------------------------------------------------------------------
(* The tick has come past the providers up to c.                           *)
Cursor(c) ==
    /\ c \in 0..N
    /\ todo \subseteq (c + 1)..N
    /\ fetching \in {Nobody, c}
    /\ fetching = Nobody => left = 0

Idle == fetching = Nobody /\ todo = {}

(* The providers the tick may still come to, without p itself.             *)
Others(p, c) == N - c - (IF p > c THEN 1 ELSE 0)

(* How long it takes at most until a provider that is not in cooldown is   *)
(* attempted: its turn is still to come, or the next tick takes it.        *)
Delay(p, c) ==
    IF p \in todo THEN left + Turns(p - c - 1)
    ELSE IF Idle THEN (IF fired THEN 0 ELSE toFire) + Turns(p - 1)
    ELSE left + Turns(Others(p, c)) + Poll + Turns(p - 1)

(* What may still be to come when the window of a provider ends.           *)
Rounds == Poll + Turns(N - 1) + Turns(N - 1)

(* A provider in cooldown has time left for its window and what may follow *)
(* it; a provider out of it has time enough until its turn.                *)
OnTime(p, c) ==
    enabled[p] /\ fetching # p =>
        IF entries[p].until > 0 THEN entries[p].until + Rounds <= due[p]
                                ELSE Delay(p, c) <= due[p]

(* Only a provider that is enabled and not being attempted waits.          *)
Rested == \A p \in Providers : ~enabled[p] \/ fetching = p => due[p] = RetryBound

Punctual == \E c \in Int : Cursor(c) /\ \A p \in Providers : OnTime(p, c)

Inv == TypeOK /\ Rested /\ Punctual

LEMMA DelayBounded ==
    ASSUME TypeOK, NEW c \in Int, Cursor(c), NEW p \in Providers, fetching # p
    PROVE  /\ Delay(p, c) \in Nat
           /\ Delay(p, c) <= Rounds
<1>0. /\ N \in Nat /\ p \in 1..N /\ Poll \in Nat /\ toFire \in 1..Poll
      /\ left \in Nat /\ left <= FetchTimeout /\ FetchTimeout \in Nat
      /\ c \in 0..N /\ N - 1 \in Nat
  BY PollLoopAssumption DEF TypeOK, Providers, Cursor
<1>1. Turns(p - 1) \in Nat /\ Turns(p - 1) <= Turns(N - 1) /\ Turns(N - 1) \in Nat
  <2>1. Turns(0) <= Turns(p - 1) /\ Turns(p - 1) <= Turns(N - 1) /\ Turns(p - 1) \in Int
    BY <1>0, TurnsGrow
  <2>. QED BY <2>1, TurnsNext, BoundIsTurns
<1>5. Rounds = Poll + Turns(N - 1) + Turns(N - 1)
  BY DEF Rounds
<1>2. CASE p \in todo
  <2>1. p - c - 1 \in Nat
    BY <1>0, <1>2 DEF Cursor
  <2>2. Turns(p - c - 1) \in Nat
    <3>1. Turns(0) <= Turns(p - c - 1) /\ Turns(p - c - 1) \in Int
      BY <2>1, TurnsGrow
    <3>. QED BY <3>1, TurnsNext
  <2>3. left + Turns(p - c - 1) <= Turns(p - 1)
    <3>1. CASE fetching = Nobody
      <4>1. Turns(p - c - 1) <= Turns(p - 1)
        BY <1>0, <2>1, TurnsGrow
      <4>. QED BY <4>1, <2>2, <1>1, <3>1 DEF Cursor
    <3>2. CASE fetching # Nobody
      <4>1. c >= 1
        BY <1>0, <3>2 DEF Cursor, TypeOK, Providers, Nobody
      <4>2. Turns((p - c - 1) + 1) = Turns(p - c - 1) + FetchTimeout
        BY <2>1, TurnsNext
      <4>3. Turns((p - c - 1) + 1) <= Turns(p - 1) /\ Turns((p - c - 1) + 1) \in Int
        BY <1>0, <2>1, <4>1, TurnsGrow
      <4>. QED BY <1>0, <1>1, <2>2, <4>2, <4>3
    <3>. QED BY <3>1, <3>2
  <2>. QED BY <1>0, <1>1, <1>2, <1>5, <2>2, <2>3 DEF Delay
<1>3. CASE p \notin todo /\ Idle
  <2>1. (IF fired THEN 0 ELSE toFire) \in 0..Poll
    BY <1>0
  <2>2. Delay(p, c) = (IF fired THEN 0 ELSE toFire) + Turns(p - 1)
    BY <1>3 DEF Delay
  <2>. QED BY <1>0, <1>1, <1>5, <2>1, <2>2
<1>4. CASE p \notin todo /\ ~Idle
  <2> DEFINE n == Others(p, c)
  <2>1. n \in Int /\ n >= 0 /\ (c >= 1 => n <= N - 1) /\ (c < p => n <= N - 1 - c)
        /\ (c # p /\ c >= 1 => n + 1 <= N - 1)
    BY <1>0 DEF Others
  <2> HIDE DEF n
  <2>2. Turns(n) \in Nat
    <3>1. Turns(0) <= Turns(n) /\ Turns(n) \in Int
      BY <2>1, TurnsGrow
    <3>. QED BY <3>1, TurnsNext
  <2>3. left + Turns(n) <= Turns(N - 1)
    <3>1. CASE fetching = Nobody
      <4>1. n <= N - 1
        BY <1>0, <2>1
      <4>2. Turns(n) <= Turns(N - 1)
        BY <1>0, <2>1, <4>1, TurnsGrow
      <4>. QED BY <4>2, <2>2, <1>1, <3>1 DEF Cursor
    <3>2. CASE fetching # Nobody
      <4>1. c >= 1 /\ c # p
        BY <1>0, <3>2 DEF Cursor, TypeOK, Providers, Nobody
      <4>2. Turns(n + 1) = Turns(n) + FetchTimeout
        BY <2>1, TurnsNext
      <4>3. Turns(n + 1) <= Turns(N - 1)
        BY <1>0, <2>1, <4>1, TurnsGrow
      <4>. QED BY <1>0, <1>1, <2>2, <4>2, <4>3
    <3>. QED BY <3>1, <3>2
  <2>4. Delay(p, c) = left + Turns(n) + Poll + Turns(p - 1)
    BY <1>4 DEF Delay, n
  <2>. QED BY <1>0, <1>1, <1>5, <2>2, <2>3, <2>4
<1>. QED BY <1>2, <1>3, <1>4

-----------------------------------------------------------------------------
Numbers(p) ==
    /\ N \in Nat /\ N - 1 \in Nat /\ p \in 1..N
    /\ Poll \in Nat /\ FetchTimeout \in Nat /\ MaxCooldown \in Nat
    /\ toFire \in 1..Poll /\ left \in Nat /\ left <= FetchTimeout
    /\ due[p] \in Int /\ entries[p].until \in 0..MaxCooldown
    /\ Turns(p - 1) \in Nat /\ Turns(p - 1) <= Turns(N - 1) /\ Turns(N - 1) \in Nat
    /\ Rounds = Poll + Turns(N - 1) + Turns(N - 1)
    /\ RetryBound = MaxCooldown + Rounds

LEMMA NumbersHold ==
    ASSUME TypeOK, NEW p \in Providers
    PROVE  Numbers(p)
<1>1. /\ N \in Nat /\ N - 1 \in Nat /\ p \in 1..N /\ p - 1 \in Nat
      /\ Poll \in Nat /\ FetchTimeout \in Nat /\ MaxCooldown \in Nat
  BY PollLoopAssumption DEF Providers
<1>2. /\ toFire \in 1..Poll /\ left \in Nat /\ left <= FetchTimeout
      /\ due[p] \in Int /\ entries[p].until \in 0..MaxCooldown
  BY <1>1, BoundIsTurns DEF TypeOK
<1>3. Turns(0) <= Turns(p - 1) /\ Turns(p - 1) <= Turns(N - 1) /\ Turns(p - 1) \in Int
  BY <1>1, TurnsGrow
<1>. QED BY <1>1, <1>2, <1>3, TurnsNext, BoundIsTurns DEF Numbers, Rounds

LEMMA TurnsNat == \A n \in Nat : Turns(n) \in Nat
<1>1. ASSUME NEW n \in Nat PROVE Turns(n) \in Nat
  <2>1. Turns(0) <= Turns(n) /\ Turns(n) \in Int
    BY TurnsGrow
  <2>. QED BY <2>1, TurnsNext
<1>. QED BY <1>1

(* A turn more fits where one fewer is to come.                            *)
LEMMA OneTurn ==
    ASSUME NEW a \in Nat, NEW b \in Int, a + 1 <= b
    PROVE  Turns(a) + FetchTimeout <= Turns(b) /\ Turns(b) \in Nat
<1>1. Turns(a + 1) = Turns(a) + FetchTimeout
  BY TurnsNext
<1>2. Turns(a + 1) <= Turns(b)
  BY TurnsGrow
<1>. QED BY <1>1, <1>2, TurnsNat

LEMMA TickStartKeeps ==
    ASSUME Inv, TickStart
    PROVE  Rested' /\ Punctual'
<1>1. PICK c \in Int : Cursor(c) /\ \A p \in Providers : OnTime(p, c)
  BY DEF Inv, Punctual
<1>2. /\ Idle /\ fired /\ left = 0 /\ todo' = {p \in Providers : enabled[p]}
      /\ UNCHANGED <<enabled, fetching, left, entries, due>>
  BY <1>1 DEF TickStart, Idle, Cursor
<1>3. Cursor(0)'
  BY <1>2, PollLoopAssumption DEF Cursor, Providers, Idle
<1>4. ASSUME NEW p \in Providers PROVE OnTime(p, 0)'
  <2>1. enabled[p] => Delay(p, c) = Turns(p - 1) /\ Delay(p, 0)' = Turns(p - 1)
    <3>1. Numbers(p)
      BY NumbersHold DEF Inv
    <3>2. Turns(p - 0 - 1) = Turns(p - 1)
      BY <3>1 DEF Numbers
    <3>. QED BY <1>2, <3>1, <3>2 DEF Delay, Idle, Numbers
  <2>. QED BY <1>1, <1>2, <2>1 DEF OnTime
<1>5. Rested'
  BY <1>2 DEF Inv, Rested
<1>. QED BY <1>3, <1>4, <1>5 DEF Punctual

(* A tick whose List fails: a provider out of cooldown waits for the next  *)
(* one, and is allowed the interval.                                       *)
LEMMA TickFailsKeeps ==
    ASSUME Inv, TickFails
    PROVE  Rested' /\ Punctual'
<1>1. PICK c \in Int : Cursor(c) /\ \A p \in Providers : OnTime(p, c)
  BY DEF Inv, Punctual
<1>2. /\ Idle /\ fired /\ ~fired' /\ Idle'
      /\ UNCHANGED <<enabled, toFire, todo, fetching, left, entries>>
  BY DEF TickFails, Idle
<1>3. ASSUME NEW p \in Providers
      PROVE  /\ due'[p] = IF enabled[p] /\ ~(entries[p].until > 0) THEN due[p] + Poll ELSE due[p]
             /\ fetching # p
  BY <1>2, <1>3, PollLoopAssumption
  DEF TickFails, Cooldown!Active, Inv, TypeOK, Idle, Providers, Nobody
<1>4. Cursor(c)'
  BY <1>1, <1>2 DEF Cursor
<1>5. ASSUME NEW p \in Providers PROVE OnTime(p, c)'
  <2>1. Numbers(p)
    BY NumbersHold DEF Inv
  <2>2. Delay(p, c) = Turns(p - 1) /\ Delay(p, c)' = toFire + Turns(p - 1)
    BY <1>2, <2>1 DEF Delay, Idle, Numbers
  <2>. QED BY <1>1, <1>2, <1>3, <2>1, <2>2 DEF OnTime, Numbers
<1>6. ASSUME NEW p \in Providers, ~enabled'[p] \/ fetching' = p PROVE due'[p] = RetryBound
  BY <1>2, <1>3, <1>6 DEF Inv, Rested
<1>. QED BY <1>4, <1>5, <1>6 DEF Rested, Punctual

(* The tick comes to q: no other provider has longer to wait.              *)
LEMMA VisitDelay ==
    ASSUME TypeOK, NEW c \in Int, Cursor(c), NEW q \in Providers, Visit(q),
           fetching' \in {Nobody, q}, left' \in 0..FetchTimeout, fetching' = Nobody => left' = 0,
           UNCHANGED <<toFire, fired>>
    PROVE  /\ Cursor(q)'
           /\ \A p \in Providers \ {q} : Delay(p, q)' <= Delay(p, c)
<1>1. /\ q \in todo /\ todo' = todo \ {q} /\ \A r \in todo : q <= r
      /\ fetching = Nobody /\ left = 0
      /\ N \in Nat /\ q \in 1..N /\ c \in 0..N /\ todo \subseteq (c + 1)..N /\ q >= c + 1
  BY PollLoopAssumption DEF Visit, Cursor, Providers
<1>2. Cursor(q)'
  BY <1>1 DEF Cursor
<1>3. ASSUME NEW p \in Providers, p # q
      PROVE  Delay(p, q)' <= Delay(p, c)
  <2>1. Numbers(p) /\ p \in 1..N
    BY NumbersHold DEF Providers
  <2>2. CASE p \in todo
    <3>1. /\ p \in todo' /\ p - q - 1 \in Nat /\ p - c - 1 \in Int
          /\ (p - q - 1) + 1 <= p - c - 1
      BY <1>1, <1>3, <2>1, <2>2
    <3>2. /\ Turns(p - q - 1) + FetchTimeout <= Turns(p - c - 1)
          /\ Turns(p - c - 1) \in Nat /\ Turns(p - q - 1) \in Nat
      BY <3>1, OneTurn, TurnsNat
    <3>3. Delay(p, q)' = left' + Turns(p - q - 1) /\ Delay(p, c) = 0 + Turns(p - c - 1)
      BY <1>1, <2>2, <3>1 DEF Delay
    <3>. QED BY <2>1, <3>2, <3>3 DEF Numbers
  <2>3. CASE p \notin todo
    <3> DEFINE m == Others(p, q)
               n == Others(p, c)
    <3>1. m \in Nat /\ n \in Int /\ m + 1 <= n
      BY <1>1, <1>3, <2>1 DEF Others
    <3>2. Turns(m) + FetchTimeout <= Turns(n) /\ Turns(n) \in Nat /\ Turns(m) \in Nat
      BY <3>1, OneTurn, TurnsNat
    <3>3. Delay(p, c) = 0 + Turns(n) + Poll + Turns(p - 1)
      BY <1>1, <2>3 DEF Delay, Idle
    <3>4. \/ Delay(p, q)' = (IF fired THEN 0 ELSE toFire) + Turns(p - 1)
          \/ Delay(p, q)' = left' + Turns(m) + Poll + Turns(p - 1)
      BY <1>1, <2>3 DEF Delay, Others
    <3> HIDE DEF m, n
    <3>5. (IF fired THEN 0 ELSE toFire) \in 0..Poll
      BY <2>1 DEF Numbers
    <3>. QED BY <2>1, <3>2, <3>3, <3>4, <3>5 DEF Numbers
  <2>. QED BY <2>2, <2>3
<1>. QED BY <1>2, <1>3

LEMMA VisitKeeps ==
    ASSUME Inv, TypeOK', NEW q \in Providers, Skip(q) \/ Attempt(q)
    PROVE  Rested' /\ Punctual'
<1>1. PICK c \in Int : Cursor(c) /\ \A p \in Providers : OnTime(p, c)
  BY DEF Inv, Punctual
<1>2. /\ Visit(q) /\ fetching = Nobody /\ left = 0
      /\ fetching' \in {Nobody, q} /\ left' \in 0..FetchTimeout
      /\ fetching' = Nobody => left' = 0
      /\ UNCHANGED <<enabled, toFire, fired, entries>>
      /\ Nobody \notin Providers
  <2>1. Nobody \notin Providers /\ FetchTimeout \in 0..FetchTimeout
    BY PollLoopAssumption DEF Providers, Nobody
  <2>2. Visit(q) /\ fetching = Nobody /\ left = 0
    BY <1>1 DEF Skip, Attempt, Visit, Cursor
  <2>3. CASE Skip(q)
    BY <2>1, <2>2, <2>3 DEF Skip, Inv, TypeOK
  <2>4. CASE Attempt(q)
    BY <2>1, <2>2, <2>4 DEF Attempt
  <2>. QED BY <2>3, <2>4
<1>3. Cursor(q)' /\ \A p \in Providers \ {q} : Delay(p, q)' <= Delay(p, c)
  BY <1>1, <1>2, VisitDelay DEF Inv
<1>4. \A p \in Providers \ {q} : due'[p] = due[p] /\ fetching # p /\ fetching' # p
  BY <1>2 DEF Skip, Attempt, Inv, TypeOK
<1>5. \/ fetching' = q /\ due'[q] = RetryBound
      \/ fetching' = Nobody /\ due' = due /\ entries[q].until > 0
  BY <1>2, PollLoopAssumption
  DEF Skip, Attempt, Inv, TypeOK, Cooldown!Active, Providers
<1>6. ASSUME NEW p \in Providers \ {q} PROVE OnTime(p, q)'
  <2>1. Numbers(p)
    BY NumbersHold DEF Inv
  <2>2. Delay(p, c) \in Nat /\ Delay(p, q)' <= Delay(p, c)
    BY <1>1, <1>3, <1>4, DelayBounded DEF Inv
  <2>3. Delay(p, q)' \in Int
    <3>1. (p - q - 1) \in Int /\ Others(p, q) \in Int
      BY <2>1 DEF Numbers, Others, Providers
    <3>2. Turns(p - q - 1) \in Int /\ Turns(Others(p, q)) \in Int
      BY <3>1, TurnsGrow
    <3>. QED BY <1>2, <2>1, <3>2 DEF Delay, Numbers, Others
  <2>. QED BY <1>1, <1>2, <1>4, <2>1, <2>2, <2>3 DEF OnTime, Numbers
<1>7. OnTime(q, q)'
  BY <1>1, <1>2, <1>5 DEF OnTime
<1>8. Rested'
  BY <1>2, <1>4, <1>5 DEF Inv, Rested
<1>. QED BY <1>3, <1>6, <1>7, <1>8 DEF Punctual, Providers

LEMMA ReturnKeeps ==
    ASSUME Inv, TypeOK', Answer \/ Timeout
    PROVE  Rested' /\ Punctual'
<1>1. PICK c \in Int : Cursor(c) /\ \A p \in Providers : OnTime(p, c)
  BY DEF Inv, Punctual
<1>2. /\ fetching \in Providers /\ fetching = c /\ fetching' = Nobody /\ left' = 0
      /\ UNCHANGED <<enabled, toFire, fired, todo, due>>
      /\ Nobody \notin Providers
  BY <1>1, PollLoopAssumption
  DEF Answer, Timeout, Inv, TypeOK, Cursor, Providers, Nobody
<1>3. \A p \in Providers \ {c} : entries'[p] = entries[p]
  <2>1. CASE Cooldown!Clear(c)
    BY <1>2, <2>1, EntriesTyped DEF Inv, TypeOK
  <2>2. CASE RecordFailure(c)
    BY <1>2, <2>2, EntriesTyped DEF Inv
  <2>. QED BY <1>2, <2>1, <2>2 DEF Answer, Timeout
<1>4. Cursor(c)'
  BY <1>1, <1>2 DEF Cursor
<1>5. ASSUME NEW p \in Providers \ {c} PROVE OnTime(p, c)'
  <2>1. Numbers(p) /\ Numbers(c)
    BY <1>2, NumbersHold DEF Inv
  <2>2. p \in todo => p - c - 1 \in Nat
    BY <1>1, <1>2, <2>1 DEF Cursor, Numbers, Providers
  <2>3. Others(p, c) \in Nat
    BY <1>2, <1>5, <2>1 DEF Others, Numbers, Providers
  <2>4. Delay(p, c)' <= Delay(p, c) /\ Delay(p, c)' \in Int /\ Delay(p, c) \in Int
    <3>1. CASE p \in todo
      <4>1. Delay(p, c)' = 0 + Turns(p - c - 1) /\ Delay(p, c) = left + Turns(p - c - 1)
        BY <1>2, <3>1 DEF Delay
      <4>. QED BY <2>1, <2>2, <3>1, <4>1, TurnsNat DEF Numbers
    <3>2. CASE p \notin todo
      <4> DEFINE n == Others(p, c)
      <4>1. Delay(p, c) = left + Turns(n) + Poll + Turns(p - 1)
        BY <1>2, <3>2 DEF Delay, Idle
      <4>2. \/ Delay(p, c)' = (IF fired THEN 0 ELSE toFire) + Turns(p - 1)
            \/ Delay(p, c)' = 0 + Turns(n) + Poll + Turns(p - 1)
        BY <1>2, <3>2 DEF Delay, Others
      <4>3. (IF fired THEN 0 ELSE toFire) \in 0..Poll
        BY <2>1 DEF Numbers
      <4>4. Turns(n) \in Nat
        BY <2>3, TurnsNat
      <4> HIDE DEF n
      <4>. QED BY <2>1, <4>1, <4>2, <4>3, <4>4 DEF Numbers
    <3>. QED BY <3>1, <3>2
  <2>. QED BY <1>1, <1>2, <1>3, <1>5, <2>1, <2>4 DEF OnTime, Numbers
<1>6. OnTime(c, c)'
  <2>1. Numbers(c) /\ c \in 1..N /\ c \notin todo
    BY <1>1, <1>2, NumbersHold DEF Inv, Cursor, Providers
  <2>2. due'[c] = RetryBound /\ entries'[c].until \in 0..MaxCooldown
    BY <1>2 DEF Inv, Rested, TypeOK
  <2>3. Turns(N - c) \in Nat /\ Turns(N - c) <= Turns(N - 1)
    <3>1. N - c \in Nat /\ N - c <= N - 1 /\ N - 1 \in Int
      BY <2>1 DEF Numbers
    <3>. QED BY <3>1, TurnsGrow, TurnsNat
  <2>4. \/ Delay(c, c)' = (IF fired THEN 0 ELSE toFire) + Turns(c - 1)
        \/ Delay(c, c)' = 0 + Turns(N - c) + Poll + Turns(c - 1)
    <3>1. Others(c, c)' = N - c
      BY <2>1 DEF Others, Numbers
    <3>. QED BY <1>2, <2>1, <3>1 DEF Delay
  <2>5. (IF fired THEN 0 ELSE toFire) \in 0..Poll
    BY <2>1 DEF Numbers
  <2>6. Delay(c, c)' \in Nat /\ Delay(c, c)' <= Rounds
    BY <2>1, <2>3, <2>4, <2>5 DEF Numbers
  <2>. QED BY <2>1, <2>2, <2>6 DEF OnTime, Numbers
<1>7. Rested'
  BY <1>2 DEF Inv, Rested
<1>. QED BY <1>2, <1>4, <1>5, <1>6, <1>7 DEF Punctual, Providers

(* A request to the API moves neither the tick nor the ticker.             *)
LEMMA ClientKeeps ==
    ASSUME Inv, NEW q \in Providers,
           CredentialSet(q) \/ \E b \in BOOLEAN : SetEnabled(q, b)
    PROVE  Rested' /\ Punctual'
<1>1. PICK c \in Int : Cursor(c) /\ \A p \in Providers : OnTime(p, c)
  BY DEF Inv, Punctual
<1>2. UNCHANGED <<toFire, fired, todo, fetching, left>>
  BY DEF CredentialSet, SetEnabled
<1>3. Cursor(c)' /\ \A p \in Providers : Delay(p, c)' = Delay(p, c)
  BY <1>1, <1>2 DEF Cursor, Delay, Others, Idle
<1>4. ASSUME NEW p \in Providers, fetching # p
      PROVE  Numbers(p) /\ Delay(p, c) \in Nat /\ Delay(p, c) <= Rounds
  BY <1>1, <1>4, NumbersHold, DelayBounded DEF Inv
<1>5. CASE CredentialSet(q)
  <2>1. /\ entries' = [entries EXCEPT ![q] = Cooldown!NoEntry]
        /\ UNCHANGED <<enabled, due>>
    BY <1>5, EntriesTyped DEF CredentialSet, Inv
  <2>2. /\ \A p \in Providers \ {q} : entries'[p] = entries[p]
        /\ entries'[q].until = 0
    BY <2>1 DEF Inv, TypeOK, Cooldown!NoEntry
  <2>3. ASSUME NEW p \in Providers PROVE OnTime(p, c)'
    BY <1>1, <1>2, <1>3, <1>4, <2>1, <2>2 DEF OnTime, Numbers
  <2>. QED BY <1>1, <1>2, <1>3, <2>1, <2>3 DEF Inv, Rested, Punctual
<1>6. ASSUME NEW b \in BOOLEAN, SetEnabled(q, b) PROVE Rested' /\ Punctual'
  <2>1. /\ enabled' = [enabled EXCEPT ![q] = b]
        /\ entries' = entries
        /\ due' = [due EXCEPT ![q] = IF enabled[q] = b THEN @ ELSE RetryBound]
    BY <1>6 DEF SetEnabled
  <2>2. /\ \A p \in Providers \ {q} : enabled'[p] = enabled[p] /\ due'[p] = due[p]
        /\ (enabled'[q] = enabled[q] /\ due'[q] = due[q]) \/ due'[q] = RetryBound
    BY <2>1 DEF Inv, TypeOK
  <2>3. ASSUME NEW p \in Providers PROVE OnTime(p, c)'
    <3>1. CASE enabled'[p] = enabled[p] /\ due'[p] = due[p]
      BY <1>1, <1>2, <1>3, <2>1, <3>1 DEF OnTime
    <3>2. CASE due'[p] = RetryBound
      BY <1>2, <1>3, <1>4, <2>1, <3>2 DEF OnTime, Numbers
    <3>. QED BY <2>2, <3>1, <3>2
  <2>4. Rested'
    BY <1>2, <2>2 DEF Inv, Rested
  <2>. QED BY <1>1, <1>3, <2>3, <2>4 DEF Punctual
<1>. QED BY <1>5, <1>6

LEMMA ElapseKeeps ==
    ASSUME Inv, Elapse
    PROVE  Rested' /\ Punctual'
<1>1. PICK c \in Int : Cursor(c) /\ \A p \in Providers : OnTime(p, c)
  BY DEF Inv, Punctual
<1>2. /\ Waiting /\ left' = Down(left)
      /\ IF toFire = 1 THEN toFire' = Poll /\ fired' = TRUE
                       ELSE toFire' = toFire - 1 /\ fired' = fired
      /\ UNCHANGED <<enabled, todo, fetching>>
  BY DEF Elapse
<1>3. Cursor(c)'
  BY <1>1, <1>2 DEF Cursor, Down
<1>4. ASSUME NEW p \in Providers
      PROVE  /\ entries'[p].until = Down(entries[p].until)
             /\ due'[p] = IF ~enabled[p] \/ fetching = p THEN RetryBound
                          ELSE IF due[p] = Overdue THEN Overdue
                          ELSE due[p] - 1
  <2>1. entries'[p] = [entries[p] EXCEPT !.until = Down(@)]
    BY DEF Elapse
  <2>. QED BY <2>1 DEF Elapse, Inv, TypeOK
<1>5. ASSUME NEW p \in Providers, fetching # p
      PROVE  Delay(p, c)' + 1 <= Delay(p, c) /\ Delay(p, c)' \in Int
  <2>1. Numbers(p) /\ c \in Int /\ p - c - 1 \in Int /\ Others(p, c) \in Int
    BY <1>1, NumbersHold DEF Inv, Numbers, Others
  <2>2. Turns(p - c - 1) \in Int /\ Turns(Others(p, c)) \in Int
    BY <2>1, TurnsGrow
  <2>3. CASE fetching # Nobody /\ left > 0
    <3>1. left' = left - 1
      BY <1>2, <2>3 DEF Down
    <3>2. \/ /\ Delay(p, c)' = left' + Turns(p - c - 1)
             /\ Delay(p, c) = left + Turns(p - c - 1)
          \/ /\ Delay(p, c)' = left' + Turns(Others(p, c)) + Poll + Turns(p - 1)
             /\ Delay(p, c) = left + Turns(Others(p, c)) + Poll + Turns(p - 1)
      BY <1>2, <2>3 DEF Delay, Idle, Others
    <3>. QED BY <2>1, <2>2, <3>1, <3>2 DEF Numbers
  <2>4. CASE Idle /\ ~fired
    <3>1. Delay(p, c) = toFire + Turns(p - 1)
      BY <2>4 DEF Delay, Idle
    <3>2. Delay(p, c)' = (IF fired' THEN 0 ELSE toFire') + Turns(p - 1)
      BY <1>2, <2>4 DEF Delay, Idle
    <3>3. (IF fired' THEN 0 ELSE toFire') = toFire - 1
      BY <1>2, <2>4
    <3>4. Delay(p, c)' = (toFire - 1) + Turns(p - 1)
      BY <3>2, <3>3
    <3>. QED BY <2>1, <3>1, <3>4 DEF Numbers
  <2>. QED BY <1>2, <2>3, <2>4 DEF Waiting, Idle
<1>6. ASSUME NEW p \in Providers, enabled[p], fetching # p
      PROVE  OnTime(p, c)'
  <2>1. Numbers(p) /\ Delay(p, c) \in Nat
        /\ Delay(p, c) <= Rounds
    BY <1>1, <1>6, NumbersHold, DelayBounded DEF Inv
  <2>2. Delay(p, c)' + 1 <= Delay(p, c) /\ Delay(p, c)' \in Int
    BY <1>5, <1>6
  <2>3. due[p] >= 0 => due'[p] = due[p] - 1
    BY <1>4, <1>6, <2>1 DEF Overdue, Numbers
  <2>4. CASE entries[p].until > 0
    <3>1. entries[p].until + Rounds <= due[p] /\ entries'[p].until = entries[p].until - 1
      BY <1>1, <1>4, <1>6, <2>4 DEF OnTime, Down
    <3>2. due[p] >= 0
      BY <2>1, <2>4, <3>1 DEF Numbers
    <3>. QED BY <2>1, <2>2, <2>3, <3>1, <3>2 DEF OnTime, Numbers
  <2>5. CASE ~(entries[p].until > 0)
    <3>1. Delay(p, c) <= due[p] /\ ~(entries'[p].until > 0)
      BY <1>1, <1>4, <1>6, <2>5 DEF OnTime, Down
    <3>. QED BY <2>1, <2>2, <2>3, <3>1 DEF OnTime, Numbers
  <2>. QED BY <2>4, <2>5
<1>7. \A p \in Providers : OnTime(p, c)'
  BY <1>2, <1>6 DEF OnTime
<1>8. Rested'
  BY <1>2, <1>4 DEF Rested
<1>. QED BY <1>1, <1>3, <1>7, <1>8 DEF Punctual

(* No provider is forgotten: for any number of providers and any poll      *)
(* interval, timeout and cap, an enabled provider is attempted again       *)
(* within a full cooldown, a poll interval and two rounds of the others,   *)
(* and a poll interval more for each tick whose List failed while the      *)
(* provider was out of cooldown.                                           *)
THEOREM NobodyForgotten == Spec => []RetriedWithinBound
<1>1. Init => Inv
  <2>1. Init => Rested
    BY DEF Init, Rested
  <2>2. ASSUME Init PROVE Punctual
    <3>1. TypeOK
      BY <2>2, StartsTyped
    <3>2. Cursor(0)
      BY <2>2, PollLoopAssumption DEF Init, Cursor
    <3>3. ASSUME NEW p \in Providers PROVE OnTime(p, 0)
      <4>1. fetching # p /\ due[p] = RetryBound /\ entries[p].until = 0
        BY <2>2, PollLoopAssumption DEF Init, Cooldown!NoEntry, Providers, Nobody
      <4>2. Numbers(p) /\ Delay(p, 0) \in Nat
            /\ Delay(p, 0) <= Rounds
        BY <3>1, <3>2, <4>1, NumbersHold, DelayBounded
      <4>. QED BY <4>1, <4>2 DEF OnTime, Numbers
    <3>. QED BY <3>2, <3>3 DEF Punctual
  <2>. QED BY <2>1, <2>2, StartsTyped DEF Inv
<1>2. Inv /\ [Next]_vars => Inv'
  <2> SUFFICES ASSUME Inv, [Next]_vars PROVE Inv'
    OBVIOUS
  <2>1. TypeOK'
    BY StaysTyped DEF Inv
  <2>2. CASE TickStart
    BY <2>1, <2>2, TickStartKeeps DEF Inv
  <2>3. ASSUME NEW p \in Providers, Skip(p) \/ Attempt(p) PROVE Inv'
    BY <2>1, <2>3, VisitKeeps DEF Inv
  <2>4. CASE Answer \/ Timeout
    BY <2>1, <2>4, ReturnKeeps DEF Inv
  <2>5. ASSUME NEW p \in Providers, CredentialSet(p) \/ SetEnabled(p, TRUE) \/ SetEnabled(p, FALSE)
        PROVE  Inv'
    BY <2>1, <2>5, ClientKeeps DEF Inv
  <2>6. CASE Elapse
    BY <2>1, <2>6, ElapseKeeps DEF Inv
  <2>7. CASE UNCHANGED vars
    BY <2>1, <2>7 DEF vars, Inv, Rested, Punctual, Cursor, OnTime, Delay, Others, Idle
  <2>8. CASE TickFails
    BY <2>1, <2>8, TickFailsKeeps DEF Inv
  <2>. QED BY <2>2, <2>3, <2>4, <2>5, <2>6, <2>7, <2>8 DEF Next, SchedStep
<1>3. Inv => RetriedWithinBound
  <2> SUFFICES ASSUME Inv, NEW p \in Providers PROVE due[p] >= 0
    BY DEF RetriedWithinBound
  <2>1. Numbers(p)
    BY NumbersHold DEF Inv
  <2>2. CASE enabled[p] /\ fetching # p
    <3>1. PICK c \in Int : Cursor(c) /\ OnTime(p, c)
      BY DEF Inv, Punctual
    <3>2. Delay(p, c) \in Nat
      BY <2>2, <3>1, DelayBounded DEF Inv
    <3>. QED BY <2>1, <2>2, <3>1, <3>2 DEF OnTime, Numbers
  <2>3. CASE ~enabled[p] \/ fetching = p
    BY <2>1, <2>3 DEF Inv, Rested, Numbers
  <2>. QED BY <2>2, <2>3
<1>. QED BY <1>1, <1>2, <1>3, PTL DEF Spec
=============================================================================
