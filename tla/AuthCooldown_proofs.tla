------------------------- MODULE AuthCooldown_proofs -------------------------
(***************************************************************************)
(* Proofs about the auth-cooldown registry, for any providers, any poll    *)
(* intervals, any cap and any integer width.                               *)
(***************************************************************************)
EXTENDS AuthCooldown, WellFoundedInduction, TLAPS

(* A window is never empty and never longer than the cap, also when the    *)
(* shift overflows: the guards of recordFailure see to it.                 *)
LEMMA BackoffBounded ==
    ASSUME NEW b, NEW f
    PROVE  Backoff(b, f) \in 1..MaxCooldown
BY CooldownAssumption DEF Backoff

LEMMA InitType == Init => TypeOK
BY DEF Init, TypeOK, Entry, NoEntry

LEMMA StepType == TypeOK /\ [Next]_vars => TypeOK'
<1> SUFFICES ASSUME TypeOK, [Next]_vars PROVE TypeOK'
  OBVIOUS
<1> USE DEF TypeOK
<1>1. ASSUME NEW p \in Providers, AuthFailure(p) PROVE TypeOK'
  <2> DEFINE failures == entries[p].failures + 1
             window   == Backoff(base, failures)
  <2>1. window \in Nat
    BY BackoffBounded, CooldownAssumption
  <2>2. [failures |-> failures, until |-> now + window] \in Entry
    <3> HIDE DEF window
    <3> QED BY <2>1 DEF Entry
  <2>3. entries' = [entries EXCEPT ![p] = [failures |-> failures, until |-> now + window]]
    BY <1>1 DEF AuthFailure, RecordFailure
  <2> HIDE DEF failures, window
  <2> QED BY <1>1, <2>2, <2>3 DEF AuthFailure
<1>2. ASSUME NEW p \in Providers, AttemptSucceeds(p) PROVE TypeOK'
  BY <1>2 DEF AttemptSucceeds, Clear, Entry, NoEntry
<1>3. ASSUME NEW p \in Providers, CredentialSet(p) PROVE TypeOK'
  BY <1>3 DEF CredentialSet, Clear, Entry, NoEntry
<1>4. CASE Reboot
  BY <1>4 DEF Reboot, Entry, NoEntry
<1>5. CASE Pass
  BY <1>5 DEF Pass
<1>6. CASE UNCHANGED vars
  BY <1>6 DEF vars
<1> QED BY <1>1, <1>2, <1>3, <1>4, <1>5, <1>6 DEF Next

(* Type correctness of the registry and its users.                         *)
THEOREM TypeCorrect == Spec => []TypeOK
BY InitType, StepType, PTL DEF Spec

(* No cooldown outlasts the cap.  Together with TypeOK the property is     *)
(* inductive: only a failure moves an expiry, to a window from now, and    *)
(* the clock only moves forward.                                           *)
THEOREM CooldownIsBounded == Spec => []CooldownBounded
<1>1. Init => CooldownBounded
  <2> SUFFICES ASSUME Init, NEW q \in Providers
               PROVE  entries[q].until <= now + MaxCooldown
    BY DEF CooldownBounded
  <2>1. entries[q].until = 0 /\ now = 0
    BY DEF Init, NoEntry
  <2> QED BY <2>1, CooldownAssumption
<1>2. TypeOK /\ CooldownBounded /\ [Next]_vars => CooldownBounded'
  <2> SUFFICES ASSUME TypeOK, CooldownBounded, [Next]_vars,
                      NEW q \in Providers
               PROVE  entries'[q].until <= now' + MaxCooldown
    BY DEF CooldownBounded
  <2>t. entries[q].until \in Nat /\ now \in Nat /\ MaxCooldown \in Nat
    BY CooldownAssumption DEF TypeOK, Entry
  <2>o. entries[q].until <= now + MaxCooldown
    BY DEF CooldownBounded
  <2>1. ASSUME NEW p \in Providers, AuthFailure(p)
        PROVE  entries'[q].until <= now' + MaxCooldown
    <3> DEFINE window == Backoff(base, entries[p].failures + 1)
    <3>1. window \in 1..MaxCooldown
      BY BackoffBounded
    <3>2. entries'[q].until = IF q = p THEN now + window ELSE entries[q].until
      BY <2>1 DEF AuthFailure, RecordFailure, TypeOK
    <3>3. now' = now
      BY <2>1 DEF AuthFailure
    <3> HIDE DEF window
    <3> QED BY <2>t, <2>o, <3>1, <3>2, <3>3
  <2>2. ASSUME NEW p \in Providers, AttemptSucceeds(p) \/ CredentialSet(p)
        PROVE  entries'[q].until <= now' + MaxCooldown
    BY <2>2, <2>t, <2>o DEF AttemptSucceeds, CredentialSet, Clear, NoEntry, TypeOK
  <2>3. CASE Reboot
    BY <2>3, <2>t DEF Reboot, NoEntry
  <2>4. CASE Pass
    BY <2>4, <2>t, <2>o DEF Pass
  <2>5. CASE UNCHANGED vars
    BY <2>5, <2>o DEF vars
  <2> QED BY <2>1, <2>2, <2>3, <2>4, <2>5 DEF Next
<1> QED BY <1>1, <1>2, TypeCorrect, PTL DEF Spec

-----------------------------------------------------------------------------
(***************************************************************************)
(* Induction over the naturals, for a set instead of a predicate: its      *)
(* complement would have a least element.                                  *)
(***************************************************************************)
LEMMA SetInduction ==
    ASSUME NEW S \in SUBSET Nat, 0 \in S, \A n \in S : n + 1 \in S
    PROVE  S = Nat
<1> SUFFICES ASSUME S # Nat PROVE FALSE
  OBVIOUS
<1> DEFINE T == Nat \ S
           R == OpToRel(<, Nat)
<1>1. T # {} /\ T \subseteq Nat
  OBVIOUS
<1>2. PICK x \in T : \A y \in T : ~ (<<y, x>> \in R)
  <2> HIDE DEF T
  <2> QED BY <1>1, NatLessThanWellFounded, WFMin
<1>3. x # 0 /\ x - 1 \in Nat
  OBVIOUS
<1>4. x - 1 \notin T
  <2>1. <<x - 1, x>> \in R
    <3>1. <<x - 1, x>> \in Nat \X Nat /\ x - 1 < x
      BY <1>3
    <3> QED BY <3>1 DEF OpToRel
  <2> HIDE DEF R, T
  <2> QED BY <1>2, <2>1
<1>5. x - 1 \in S
  BY <1>3, <1>4
<1> QED BY <1>5

(* The recursive function Pow2 exists, so it satisfies its equation: every *)
(* prefix of it exists, any two prefixes agree, and their ends make it up. *)
LEMMA Pow2Equation ==
    Pow2 = [n \in Nat |-> IF n = 0 THEN 1 ELSE 2 * Pow2[n - 1]]
<1> DEFINE Pre(n) == {g \in [0..n -> Nat] : 
               /\ g[0] = 1
               /\ \A i \in 1..n : g[i] = 2 * g[i-1]}
           E == {n \in Nat : Pre(n) # {}}
           U == {n \in Nat : \A m \in Nat : n <= m => \A g \in Pre(n), h \in Pre(m) : g[n] = h[n]}
<1>1. E = Nat
  <2>1. 0 \in E
    <3>1. [i \in 0..0 |-> 1] \in Pre(0)
      OBVIOUS
    <3> QED BY <3>1
  <2>2. ASSUME NEW n \in E PROVE n + 1 \in E
    <3>1. PICK g : g \in Pre(n)
      BY <2>2
    <3> DEFINE h == [i \in 0..(n+1) |-> IF i = n+1 THEN 2 * g[n] ELSE g[i]]
    <3>2. h \in Pre(n+1)
      <4>1. n \in Nat /\ n \in 0..n /\ 0 \in 0..n
        BY <2>2
      <4>2. g \in [0..n -> Nat] /\ g[0] = 1 /\ \A i \in 1..n : g[i] = 2 * g[i-1]
        BY <3>1
      <4>3. h \in [0..(n+1) -> Nat]
        BY <4>1, <4>2
      <4>4. h[0] = 1
        BY <4>1, <4>2
      <4>5. ASSUME NEW i \in 1..(n+1) PROVE h[i] = 2 * h[i-1]
        BY <4>1, <4>2
      <4> QED BY <4>3, <4>4, <4>5
    <3>3. n + 1 \in Nat
      BY <2>2
    <3> HIDE DEF h, Pre
    <3> QED BY <3>2, <3>3
  <2> HIDE DEF E
  <2>3. E \in SUBSET Nat
     BY DEF E
  <2> QED BY <2>1, <2>2, <2>3, SetInduction
<1>2. U = Nat
  <2>1. 0 \in U
    OBVIOUS
  <2>2. ASSUME NEW n \in U PROVE n + 1 \in U
    <3>n. n \in Nat /\ n + 1 \in Nat
      BY <2>2
    <3>s. ASSUME NEW m \in Nat, n + 1 <= m, NEW g \in Pre(n+1), NEW h \in Pre(m)
          PROVE  g[n+1] = h[n+1]
      <4> DEFINE k == [i \in 0..n |-> g[i]]
      <4>1. g \in [0..(n+1) -> Nat] /\ g[0] = 1 /\ \A i \in 1..(n+1) : g[i] = 2 * g[i-1]
        OBVIOUS
      <4>2. h \in [0..m -> Nat] /\ h[0] = 1 /\ \A i \in 1..m : h[i] = 2 * h[i-1]
        OBVIOUS
      <4>3. k \in Pre(n) /\ k[n] = g[n]
        <5>1. k \in [0..n -> Nat]
          BY <3>n, <4>1
        <5>2. k[0] = 1 /\ k[n] = g[n]
          BY <3>n, <4>1
        <5>3. ASSUME NEW i \in 1..n PROVE k[i] = 2 * k[i-1]
          BY <3>n, <4>1
        <5> QED BY <5>1, <5>2, <5>3
      <4>4. k[n] = h[n]
        <5>1. n <= m
          BY <3>n, <3>s
        <5> HIDE DEF k, Pre
        <5> QED BY <2>2, <3>s, <4>3, <5>1
      <4>5. g[n+1] = 2 * g[n] /\ h[n+1] = 2 * h[n]
        <5>1. (n + 1) - 1 = n /\ n + 1 \in 1..(n+1) /\ n + 1 \in 1..m
          BY <3>n, <3>s
        <5> QED BY <5>1, <4>1, <4>2
      <4> QED BY <4>3, <4>4, <4>5
    <3> HIDE DEF Pre
    <3> QED BY <3>n, <3>s
  <2> HIDE DEF U
  <2>3. U \in SUBSET Nat
     BY DEF U
  <2> QED BY <2>1, <2>2, <2>3, SetInduction
<1> DEFINE c == [n \in Nat |-> CHOOSE g : g \in Pre(n)]
           F == [n \in Nat |-> c[n][n]]
<1>3. \A n \in Nat : c[n] \in Pre(n)
  BY <1>1
<1>4. F = [n \in Nat |-> IF n = 0 THEN 1 ELSE 2 * F[n - 1]]
  <2> HIDE DEF c
  <2>1. F[0] = 1
    BY <1>3
  <2>2. ASSUME NEW n \in Nat \ {0} PROVE F[n] = 2 * F[n-1]
    <3>1. n \in Nat /\ n-1 \in Nat /\ n-1 <= n
      OBVIOUS
    <3>2. c[n][n] = 2 * c[n][n-1]
      BY <1>3, <3>1
    <3>3. c[n-1][n-1] = c[n][n-1]
      <4> DEFINE g == c[n-1] 
                 h == c[n]
                 m == n - 1
      <4>1. g \in Pre(m) /\ h \in Pre(n)
        BY <1>3, <3>1
      <4>2. m \in U
        BY <1>2, <3>1
      <4>3. g[m] = h[m]
        <5> HIDE DEF g, h
        <5> QED BY <4>1, <4>2, <3>1
      <4> QED BY <4>3
    <3> QED BY <3>1, <3>2, <3>3
  <2> HIDE DEF F
  <2> DEFINE G == [n \in Nat |-> IF n = 0 THEN 1 ELSE 2 * F[n - 1]]
  <2>3. \A n \in Nat : F[n] = G[n]
    BY <2>1, <2>2
  <2>4. F = [n \in Nat |-> F[n]]
    BY DEF F
  <2> QED BY <2>3, <2>4
<1>5. \E f : f = [n \in Nat |-> IF n = 0 THEN 1 ELSE 2 * f[n - 1]]
  <2> HIDE DEF F
  <2> QED BY <1>4
<1> QED BY <1>5 DEF Pow2

LEMMA Pow2Step ==
    /\ Pow2[0] = 1
    /\ \A n \in Nat : Pow2[n + 1] = 2 * Pow2[n]
<1> DEFINE F == [n \in Nat |-> IF n = 0 THEN 1 ELSE 2 * Pow2[n - 1]]
<1>1. F[0] = 1 /\ \A n \in Nat : F[n + 1] = 2 * Pow2[n]
  OBVIOUS
<1> HIDE DEF F
<1> QED BY <1>1, Pow2Equation DEF F

LEMMA Pow2Type == \A n \in Nat : Pow2[n] \in Nat \ {0}
<1> DEFINE S == {n \in Nat : Pow2[n] \in Nat \ {0}}
<1>1. S \in SUBSET Nat /\ 0 \in S
  BY Pow2Step
<1>2. \A n \in S : n + 1 \in S
  BY Pow2Step
<1>3. S = Nat
  <2> HIDE DEF S
  <2> QED BY <1>1, <1>2, SetInduction
<1> QED BY <1>3

LEMMA Pow2Monotone ==
    \A m, n \in Nat : m <= n => Pow2[m] <= Pow2[n]
<1> DEFINE S == {n \in Nat : \A m \in Nat : m <= n => Pow2[m] <= Pow2[n]}
<1>1. S \in SUBSET Nat /\ 0 \in S
  BY Pow2Type
<1>2. ASSUME NEW n \in S PROVE n + 1 \in S
  <2>1. n \in Nat /\ Pow2[n + 1] = 2 * Pow2[n] /\ Pow2[n] \in Nat
    BY Pow2Step, Pow2Type
  <2>2. ASSUME NEW m \in Nat, m <= n + 1 PROVE Pow2[m] <= Pow2[n + 1]
    <3>1. CASE m = n + 1
      BY <3>1, <2>1, Pow2Type
    <3>2. CASE m <= n
      <4>1. Pow2[m] <= Pow2[n] /\ Pow2[m] \in Nat
        BY <3>2, Pow2Type
      <4> QED BY <4>1, <2>1
    <3> QED BY <3>1, <3>2, <2>1, <2>2
  <2> QED BY <2>1, <2>2
<1>3. S = Nat
  <2> HIDE DEF S
  <2> QED BY <1>1, <1>2, SetInduction
<1> QED BY <1>3

-----------------------------------------------------------------------------
(* The window of the f-th failure without machine arithmetic.              *)
Saturated(d) == IF d < MaxCooldown THEN d ELSE MaxCooldown

LEMMA ScaleMonotone ==
    ASSUME NEW b \in Nat, NEW x \in Nat, NEW y \in Nat, x <= y
    PROVE  b * x <= b * y
OBVIOUS

(* A shift that stays below the sign bit loses nothing.                    *)
LEMMA ShiftInRange ==
    ASSUME NEW b \in Nat, NEW k \in Nat \ {0}, b * Pow2[k - 1] < Pow2[Width - 1]
    PROVE  Shifted(b, k) = b * Pow2[k - 1]
<1> DEFINE v == b * Pow2[k - 1]
           W == Pow2[Width]
           H == Pow2[Width - 1]
<1>1. v \in Nat
  BY Pow2Type
<1>2. H \in Nat \ {0} /\ W = 2 * H
  BY CooldownAssumption, Pow2Type, Pow2Step
<1>3. Shifted(b, k) = IF v % W < H THEN v % W ELSE (v % W) - W
  BY DEF Shifted
<1>4. v < H
  OBVIOUS
<1> HIDE DEF v, W, H
<1>5. v % W = v
  BY <1>1, <1>2, <1>4
<1> QED BY <1>3, <1>4, <1>5 DEF v

(* The value recordFailure computes, guards and overflow included, is the  *)
(* doubled and saturated one for a Faithful interval.                      *)
LEMMA BackoffSaturates ==
    ASSUME NEW b \in Nat \ {0}, Faithful(b), NEW f \in Nat \ {0}
    PROVE  Backoff(b, f) = Saturated(b * Pow2[f - 1])
<1> DEFINE v == b * Pow2[f - 1]
           H == Pow2[Width - 1]
<1>c. MaxCooldown \in Nat \ {0} /\ Width \in Nat \ {0} /\ ShiftCap \in Nat \ {0}
  BY CooldownAssumption
<1>p. Pow2[f - 1] \in Nat \ {0} /\ Pow2[ShiftCap] \in Nat \ {0}
  BY <1>c, Pow2Type
<1>v. v \in Nat \ {0}
  BY <1>p
<1>w. H \in Nat \ {0}
  BY <1>c, Pow2Type
<1>h. MaxCooldown < H
  BY DEF Faithful
<1>1. CASE f <= ShiftCap /\ v <= MaxCooldown
  <2>1. v < H
    BY <1>1, <1>c, <1>v, <1>w, <1>h
  <2>2. Shifted(b, f) = v
    BY <2>1, ShiftInRange
  <2>3. Backoff(b, f) = v
    BY <2>2, <1>1, <1>v, <1>c DEF Backoff
  <2> HIDE DEF v
  <2> QED BY <2>3, <1>1, <1>v, <1>c DEF Saturated, v
<1>2. CASE f <= ShiftCap /\ ~ (v <= MaxCooldown)
  <2>1. f \in 1..ShiftCap
    BY <1>2, <1>c
  <2>2. Shifted(b, f) \notin 1..MaxCooldown
    BY <1>2, <2>1 DEF Faithful
  <2>3. Backoff(b, f) = MaxCooldown
    BY <2>2 DEF Backoff
  <2> HIDE DEF v
  <2> QED BY <2>3, <1>2, <1>v, <1>c DEF Saturated, v
<1>3. CASE ~ (f <= ShiftCap)
  <2>1. Backoff(b, f) = MaxCooldown
    BY <1>3 DEF Backoff
  <2>2. Pow2[ShiftCap] <= Pow2[f - 1]
    BY <1>3, <1>c, Pow2Monotone
  <2>3. b * Pow2[ShiftCap] <= v
    BY <2>2, <1>p, ScaleMonotone
  <2>4. MaxCooldown <= b * Pow2[ShiftCap] /\ b * Pow2[ShiftCap] \in Nat
    BY <1>p DEF Faithful
  <2>5. MaxCooldown <= v
    <3> HIDE DEF v
    <3> QED BY <2>3, <2>4, <1>v, <1>c
  <2> HIDE DEF v
  <2> QED BY <2>1, <2>5, <1>v, <1>c DEF Saturated, v
<1> QED BY <1>1, <1>2, <1>3

(* Hence the windows start at the interval and each one doubles the last.  *)
LEMMA BackoffDoubles ==
    ASSUME NEW b \in Nat \ {0}, Faithful(b)
    PROVE  /\ Backoff(b, 1) = Saturated(b)
           /\ \A f \in Nat \ {0} : Backoff(b, f + 1) = Saturated(2 * Backoff(b, f))
<1>1. Backoff(b, 1) = Saturated(b)
  <2>1. Backoff(b, 1) = Saturated(b * Pow2[1 - 1])
    BY BackoffSaturates
  <2>2. b * Pow2[1 - 1] = b
    BY Pow2Step
  <2> QED BY <2>1, <2>2
<1>2. ASSUME NEW f \in Nat \ {0}
      PROVE  Backoff(b, f + 1) = Saturated(2 * Backoff(b, f))
  <2> DEFINE v == b * Pow2[f - 1]
  <2>1. Backoff(b, f) = Saturated(v)
    BY BackoffSaturates
  <2>2. Backoff(b, f + 1) = Saturated(b * Pow2[f])
    <3>1. f + 1 \in Nat \ {0} /\ (f + 1) - 1 = f
      OBVIOUS
    <3>2. Backoff(b, f + 1) = Saturated(b * Pow2[(f + 1) - 1])
      BY <3>1, BackoffSaturates
    <3> QED BY <3>1, <3>2
  <2>3. Pow2[f] = 2 * Pow2[f - 1] /\ Pow2[f - 1] \in Nat
    <3>1. f - 1 \in Nat /\ (f - 1) + 1 = f
      OBVIOUS
    <3> QED BY <3>1, Pow2Step, Pow2Type
  <2>4. b * Pow2[f] = 2 * v /\ v \in Nat
    BY <2>3
  <2>5. Saturated(2 * v) = Saturated(2 * Saturated(v))
    <3> HIDE DEF v
    <3> QED BY <2>4, CooldownAssumption DEF Saturated
  <2> QED BY <2>1, <2>2, <2>4, <2>5
<1> QED BY <1>1, <1>2

-----------------------------------------------------------------------------
Window(b, f) == IF f = 0 THEN 0 ELSE Backoff(b, f)

(* The windows that the promise is about, as one function of the state.    *)
Windows == [p \in Providers |-> Window(base, entries[p].failures)]

Untils == [p \in Providers |-> entries[p].until]

(* The window that the next failure of p opens is the promised one.        *)
LEMMA NextWindowKept ==
    ASSUME \A b \in Bases : Faithful(b), TypeOK, NEW p \in Providers
    PROVE  Promise!NextWindow(p) = Backoff(base, entries[p].failures + 1)
<1> DEFINE f == entries[p].failures
<1>1. f \in Nat /\ base \in Nat \ {0} /\ Faithful(base)
  BY CooldownAssumption DEF TypeOK, Entry
<1>2. Promise!NextWindow(p) = IF Window(base, f) = 0 THEN Saturated(base)
                              ELSE Saturated(2 * Window(base, f))
  BY DEF Promise!NextWindow, Promise!Capped, Saturated, Window
<1> HIDE DEF f
<1>3. CASE f = 0
  BY <1>1, <1>2, <1>3, BackoffDoubles DEF Window, f
<1>4. CASE f # 0
  <2>1. f \in Nat \ {0}
    BY <1>1, <1>4
  <2>2. Window(base, f) = Backoff(base, f) /\ Backoff(base, f) # 0
    BY <1>4, BackoffBounded, CooldownAssumption DEF Window
  <2>3. Backoff(base, f + 1) = Saturated(2 * Backoff(base, f))
    BY <1>1, <2>1, BackoffDoubles
  <2> QED BY <1>2, <2>2, <2>3 DEF f
<1> QED BY <1>3, <1>4

LEMMA InitPromised == Init => Promise!Init
BY DEF Init, Promise!Init, NoEntry

LEMMA StepPromised ==
    ASSUME \A b \in Bases : Faithful(b), TypeOK, [Next]_vars
    PROVE  [Promise!Next]_(Promise!vars)
<1>w. /\ Promise!vars = <<base, Windows, Untils, now>>
      /\ Promise!vars' = <<base', Windows', Untils', now'>>
  BY DEF Promise!vars, Windows, Untils, Window
<1>e. entries \in [Providers -> Entry]
  BY DEF TypeOK
<1>1. ASSUME NEW p \in Providers, AuthFailure(p) PROVE Promise!Fail(p)
  <2> DEFINE w == Backoff(base, entries[p].failures + 1)
  <2>1. Promise!NextWindow(p) = w
    BY NextWindowKept
  <2>2. /\ entries' = [entries EXCEPT ![p] = [failures |-> entries[p].failures + 1, until |-> now + w]]
        /\ base' = base /\ now' = now
    BY <1>1 DEF AuthFailure, RecordFailure
  <2>3. entries[p].until <= now
    BY <1>1, <1>e DEF AuthFailure, Active, TypeOK, Entry
  <2>4. Windows' = [Windows EXCEPT ![p] = w]
    <3>1. entries[p].failures \in Nat
      BY <1>e DEF Entry
    <3>2. ASSUME NEW q \in Providers
          PROVE  Window(base', entries'[q].failures)
                   = IF q = p THEN w ELSE Window(base, entries[q].failures)
      <4>1. CASE q = p
        <5>1. entries'[q].failures = entries[p].failures + 1
          BY <4>1, <2>2, <1>e
        <5> QED BY <5>1, <4>1, <3>1, <2>2 DEF Window
      <4>2. CASE q # p
        BY <4>2, <2>2, <1>e
      <4> QED BY <4>1, <4>2
    <3> HIDE DEF w
    <3> QED BY <3>2 DEF Windows
  <2>5. Untils' = [Untils EXCEPT ![p] = now + w]
    BY <2>2, <1>e DEF Untils
  <2> QED BY <2>1, <2>2, <2>3, <2>4, <2>5 DEF Promise!Fail, Windows, Untils, Window
<1>2. ASSUME NEW p \in Providers, AttemptSucceeds(p) \/ CredentialSet(p)
      PROVE  Promise!Forget(p)
  <2>1. /\ entries' = [entries EXCEPT ![p] = NoEntry]
        /\ base' = base /\ now' = now
    BY <1>2 DEF AttemptSucceeds, CredentialSet, Clear
  <2>2. Windows' = [Windows EXCEPT ![p] = 0]
    BY <2>1, <1>e DEF Windows, Window, NoEntry
  <2>3. Untils' = [Untils EXCEPT ![p] = 0]
    BY <2>1, <1>e DEF Untils, NoEntry
  <2> QED BY <2>1, <2>2, <2>3 DEF Promise!Forget, Windows, Untils, Window
<1>3. CASE Reboot
  <2>1. Windows' = [p \in Providers |-> 0] /\ Untils' = [p \in Providers |-> 0]
    BY <1>3 DEF Reboot, Windows, Untils, Window, NoEntry
  <2>2. Promise!Restart
    BY <1>3, <2>1 DEF Reboot, Promise!Restart, Windows, Untils, Window
  <2> QED BY <2>2 DEF Promise!Next
<1>4. CASE Pass
  <2>1. now' > now
    BY <1>4 DEF Pass, TypeOK
  <2>2. Promise!Wait
    BY <1>4, <2>1 DEF Pass, Promise!Wait
  <2> QED BY <2>2 DEF Promise!Next
<1>5. CASE UNCHANGED vars
  BY <1>5, <1>w DEF vars, Windows, Untils, Window
<1> QED BY <1>1, <1>2, <1>3, <1>4, <1>5 DEF Next, Promise!Next

(* The registry implements its promise.  The mapping forgets the failure   *)
(* count: only the window it stands for is visible.                        *)
THEOREM ImplementsPromise ==
    ASSUME \A b \in Bases : Faithful(b)
    PROVE  Spec => DoublesUpToCap
<1>1. TypeOK /\ [Next]_vars => [Promise!Next]_(Promise!vars)
  BY StepPromised
<1> QED BY <1>1, InitPromised, TypeCorrect, PTL DEF Spec, DoublesUpToCap, Promise!Spec

-----------------------------------------------------------------------------
(* Euclid's remainder, the other way round.                                *)
LEMMA RemainderIs ==
    ASSUME NEW q \in Nat, NEW w \in Nat \ {0}, NEW r \in Nat, r < w
    PROVE  (q * w + r) % w = r
BY SMT

LEMMA Pow2Shift ==
    ASSUME NEW n \in Nat
    PROVE  /\ Pow2[n + 4] = 16 * Pow2[n]
           /\ Pow2[n + 11] = 2048 * Pow2[n]
<1>1. \A m \in Nat : Pow2[m + 4] = 16 * Pow2[m]
  <2> SUFFICES ASSUME NEW m \in Nat PROVE Pow2[m + 4] = 16 * Pow2[m]
    OBVIOUS
  <2>1. Pow2[m + 1] = 2 * Pow2[m] /\ Pow2[(m + 1) + 1] = 2 * Pow2[m + 1]
    BY Pow2Step
  <2>2. Pow2[((m + 1) + 1) + 1] = 2 * Pow2[(m + 1) + 1]
    BY Pow2Step
  <2>3. Pow2[(((m + 1) + 1) + 1) + 1] = 2 * Pow2[((m + 1) + 1) + 1]
    BY Pow2Step
  <2>4. Pow2[m] \in Nat /\ (((m + 1) + 1) + 1) + 1 = m + 4
    BY Pow2Type
  <2> QED BY <2>1, <2>2, <2>3, <2>4
<1>2. Pow2[n + 4] = 16 * Pow2[n] /\ Pow2[(n + 4) + 4] = 16 * Pow2[n + 4]
  BY <1>1
<1>3. Pow2[(n + 8) + 1] = 2 * Pow2[n + 8] /\ Pow2[((n + 8) + 1) + 1] = 2 * Pow2[(n + 8) + 1]
  BY Pow2Step
<1>4. Pow2[(((n + 8) + 1) + 1) + 1] = 2 * Pow2[((n + 8) + 1) + 1]
  BY Pow2Step
<1>5. Pow2[n] \in Nat /\ (n + 4) + 4 = n + 8 /\ (((n + 8) + 1) + 1) + 1 = n + 11
  BY Pow2Type
<1> QED BY <1>2, <1>3, <1>4, <1>5

(* From 2^36 to 2^64 in the factors that the shifts of the program need.   *)
LEMMA Pow2Top ==
    /\ Pow2[36] \in Nat \ {0} /\ Pow2[36] >= 1000000000
    /\ Pow2[37] = 2 * Pow2[36] /\ Pow2[38] = 4 * Pow2[36] /\ Pow2[39] = 8 * Pow2[36]
    /\ Pow2[40] = 16 * Pow2[36] /\ Pow2[41] = 32 * Pow2[36] /\ Pow2[42] = 64 * Pow2[36]
    /\ Pow2[63] = 134217728 * Pow2[36] /\ Pow2[64] = 268435456 * Pow2[36]
<1> DEFINE P == Pow2[36]
<1>1. P \in Nat \ {0}
  BY Pow2Type
<1>2. P >= 1000000000
  <2>1. Pow2[0] = 1 /\ Pow2[0 + 11] = 2048 * Pow2[0] /\ Pow2[11 + 11] = 2048 * Pow2[11]
        /\ Pow2[22 + 11] = 2048 * Pow2[22]
    BY Pow2Step, Pow2Shift
  <2>2. Pow2[33] <= Pow2[36] /\ Pow2[33] \in Nat
    BY Pow2Monotone, Pow2Type
  <2> QED BY <2>1, <2>2, <1>1
<1>3. /\ Pow2[36 + 1] = 2 * P /\ Pow2[37 + 1] = 2 * Pow2[37] /\ Pow2[38 + 1] = 2 * Pow2[38]
      /\ Pow2[39 + 1] = 2 * Pow2[39] /\ Pow2[40 + 1] = 2 * Pow2[40] /\ Pow2[41 + 1] = 2 * Pow2[41]
  BY Pow2Step
<1>4. Pow2[41 + 11] = 2048 * Pow2[41] /\ Pow2[52 + 11] = 2048 * Pow2[52]
  BY Pow2Shift
<1>5. Pow2[63 + 1] = 2 * Pow2[63]
  BY Pow2Step
<1> QED BY <1>1, <1>2, <1>3, <1>4, <1>5

Second == 1000 * 1000 * 1000

(* The numbers of main.go: a poll interval of five minutes, a cap of one   *)
(* hour, 64-bit nanoseconds.  The shift overflows from the 26th failure on *)
(* and never wraps to a duration within the cap.                           *)
LEMMA DefaultsAreFaithful ==
    ASSUME Width = 64, ShiftCap = 32, MaxCooldown = 60 * 60 * Second,
           NEW b \in Nat, b = 5 * 60 * Second
    PROVE  Faithful(b)
<1> DEFINE P == Pow2[36]
<1>m. MaxCooldown = 3600000 * 1000000 /\ b = 146484375 * 2048
  BY SMT DEF Second
<1>p. P \in Nat \ {0} /\ P >= 1000000000
  BY Pow2Top
<1>w. Pow2[Width] = 268435456 * P /\ Pow2[Width - 1] = 134217728 * P
  BY Pow2Top
<1>1. MaxCooldown < Pow2[Width - 1]
  BY SMT, <1>m, <1>p, <1>w
<1>k. ASSUME NEW k \in Nat PROVE b * Pow2[k] = 146484375 * Pow2[k + 11] /\ Pow2[k + 11] \in Nat
  <2>1. Pow2[k + 11] = 2048 * Pow2[k] /\ Pow2[k] \in Nat
    BY Pow2Shift, Pow2Type
  <2> QED BY SMT, <2>1, <1>m
<1>2. MaxCooldown <= b * Pow2[ShiftCap]
  <2>1. b * Pow2[32] = 146484375 * Pow2[32 + 11] /\ Pow2[36] <= Pow2[43] /\ Pow2[43] \in Nat
    BY <1>k, Pow2Monotone, Pow2Type
  <2> QED BY SMT, <2>1, <1>m, <1>p
<1>3. ASSUME NEW k \in 1..ShiftCap, Shifted(b, k) \in 1..MaxCooldown
      PROVE  b * Pow2[k - 1] <= MaxCooldown
  <2> DEFINE u == (b * Pow2[k - 1]) % Pow2[Width]
  <2>s. Shifted(b, k) = IF u < Pow2[Width - 1] THEN u ELSE u - Pow2[Width]
    BY DEF Shifted
  <2>k. k - 1 \in Nat /\ k \in Nat \ {0} /\ k <= 32
    OBVIOUS
  <2>v. b * Pow2[k - 1] = 146484375 * Pow2[(k - 1) + 11]
    BY <2>k, <1>k
  <2>1. CASE k <= 25
    <3>1. Pow2[(k - 1) + 11] <= Pow2[35] /\ Pow2[(k - 1) + 11] \in Nat
      BY <2>1, <2>k, Pow2Monotone, Pow2Type
    <3>2. P = 2 * Pow2[35] /\ Pow2[35] \in Nat \ {0}
      <4>1. Pow2[35 + 1] = 2 * Pow2[35]
        BY Pow2Step
      <4> QED BY <4>1, Pow2Type
    <3>3. b * Pow2[k - 1] < Pow2[Width - 1]
      <4> DEFINE x == Pow2[(k - 1) + 11]
                 y == Pow2[35]
      <4>1. x \in Nat /\ y \in Nat \ {0} /\ x <= y
        BY <3>1, <3>2
      <4>2. b * Pow2[k - 1] = 146484375 * x /\ Pow2[Width - 1] = 268435456 * y
        BY SMT, <3>2, <2>v, <1>w
      <4> HIDE DEF x, y
      <4> QED BY SMT, <4>1, <4>2
    <3>4. Shifted(b, k) = b * Pow2[k - 1]
      BY <3>3, <2>k, ShiftInRange
    <3> QED BY <3>4, <1>3
  <2>2. CASE k = 26
    <3> DEFINE Q == Pow2[36]
    <3>1. Q \in Nat \ {0} /\ Q >= 1000000000 /\ Pow2[Width] = 268435456 * Q /\ Pow2[Width - 1] = 134217728 * Q
      BY SMT, <1>p, <1>w, Pow2Top
    <3>2. u = 146484375 * Q
      <4>1. b * Pow2[k - 1] = 0 * Pow2[Width] + 146484375 * Q
        BY SMT, <2>v, <2>2, <3>1
      <4> QED BY SMT, <4>1, <3>1, RemainderIs
    <3> QED BY SMT, <3>1, <3>2, <2>s, <1>3, <1>m
  <2>3. CASE k = 27
    <3> DEFINE Q == Pow2[37]
    <3>1. Q \in Nat \ {0} /\ Q >= 1000000000 /\ Pow2[Width] = 134217728 * Q /\ Pow2[Width - 1] = 67108864 * Q
      BY SMT, <1>p, <1>w, Pow2Top
    <3>2. u = 12266647 * Q
      <4>1. b * Pow2[k - 1] = 1 * Pow2[Width] + 12266647 * Q
        BY SMT, <2>v, <2>3, <3>1
      <4> QED BY SMT, <4>1, <3>1, RemainderIs
    <3> QED BY SMT, <3>1, <3>2, <2>s, <1>3, <1>m
  <2>4. CASE k = 28
    <3> DEFINE Q == Pow2[38]
    <3>1. Q \in Nat \ {0} /\ Q >= 1000000000 /\ Pow2[Width] = 67108864 * Q /\ Pow2[Width - 1] = 33554432 * Q
      BY SMT, <1>p, <1>w, Pow2Top
    <3>2. u = 12266647 * Q
      <4>1. b * Pow2[k - 1] = 2 * Pow2[Width] + 12266647 * Q
        BY SMT, <2>v, <2>4, <3>1
      <4> QED BY SMT, <4>1, <3>1, RemainderIs
    <3> QED BY SMT, <3>1, <3>2, <2>s, <1>3, <1>m
  <2>5. CASE k = 29
    <3> DEFINE Q == Pow2[39]
    <3>1. Q \in Nat \ {0} /\ Q >= 1000000000 /\ Pow2[Width] = 33554432 * Q /\ Pow2[Width - 1] = 16777216 * Q
      BY SMT, <1>p, <1>w, Pow2Top
    <3>2. u = 12266647 * Q
      <4>1. b * Pow2[k - 1] = 4 * Pow2[Width] + 12266647 * Q
        BY SMT, <2>v, <2>5, <3>1
      <4> QED BY SMT, <4>1, <3>1, RemainderIs
    <3> QED BY SMT, <3>1, <3>2, <2>s, <1>3, <1>m
  <2>6. CASE k = 30
    <3> DEFINE Q == Pow2[40]
    <3>1. Q \in Nat \ {0} /\ Q >= 1000000000 /\ Pow2[Width] = 16777216 * Q /\ Pow2[Width - 1] = 8388608 * Q
      BY SMT, <1>p, <1>w, Pow2Top
    <3>2. u = 12266647 * Q
      <4>1. b * Pow2[k - 1] = 8 * Pow2[Width] + 12266647 * Q
        BY SMT, <2>v, <2>6, <3>1
      <4> QED BY SMT, <4>1, <3>1, RemainderIs
    <3> QED BY SMT, <3>1, <3>2, <2>s, <1>3, <1>m
  <2>7. CASE k = 31
    <3> DEFINE Q == Pow2[41]
    <3>1. Q \in Nat \ {0} /\ Q >= 1000000000 /\ Pow2[Width] = 8388608 * Q /\ Pow2[Width - 1] = 4194304 * Q
      BY SMT, <1>p, <1>w, Pow2Top
    <3>2. u = 3878039 * Q
      <4>1. b * Pow2[k - 1] = 17 * Pow2[Width] + 3878039 * Q
        BY SMT, <2>v, <2>7, <3>1
      <4> QED BY SMT, <4>1, <3>1, RemainderIs
    <3> QED BY SMT, <3>1, <3>2, <2>s, <1>3, <1>m
  <2>8. CASE k = 32
    <3> DEFINE Q == Pow2[42]
    <3>1. Q \in Nat \ {0} /\ Q >= 1000000000 /\ Pow2[Width] = 4194304 * Q /\ Pow2[Width - 1] = 2097152 * Q
      BY SMT, <1>p, <1>w, Pow2Top
    <3>2. u = 3878039 * Q
      <4>1. b * Pow2[k - 1] = 34 * Pow2[Width] + 3878039 * Q
        BY SMT, <2>v, <2>8, <3>1
      <4> QED BY SMT, <4>1, <3>1, RemainderIs
    <3> QED BY SMT, <3>1, <3>2, <2>s, <1>3, <1>m
  <2> QED BY <2>k, <2>1, <2>2, <2>3, <2>4, <2>5, <2>6, <2>7, <2>8
<1> QED BY <1>1, <1>2, <1>3 DEF Faithful

(* So the program with its default configuration keeps the promise of the  *)
(* registry's comment to the letter: base, 2*base, 4*base, ..., capped.    *)
THEOREM DefaultsImplementPromise ==
    ASSUME Width = 64, ShiftCap = 32, MaxCooldown = 60 * 60 * Second,
           Bases = {5 * 60 * Second}
    PROVE  Spec => DoublesUpToCap
<1>1. \A b \in Bases : Faithful(b)
  <2>1. 5 * 60 * Second \in Nat
    BY SMT DEF Second
  <2> QED BY <2>1, DefaultsAreFaithful
<1> QED BY <1>1, ImplementsPromise

=============================================================================
