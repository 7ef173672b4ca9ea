-------------------------- MODULE UsagePath_proofs --------------------------
(***************************************************************************)
(* Theorems about UsagePath, for any places with NUL-free provider ids,    *)
(* any master keys, any width of integers and any answers of an upstream.  *)
(***************************************************************************)
EXTENDS UsagePath, SequenceTheorems, TLAPS

-----------------------------------------------------------------------------
(* The bytes of the first and of the second part of a concatenation.       *)
LEMMA ConcatBytes ==
    ASSUME NEW s \in Seq(Nat), NEW t \in Seq(Nat)
    PROVE  /\ s \o t \in Seq(Nat)
           /\ Len(s \o t) = Len(s) + Len(t)
           /\ \A i \in 1..Len(s) : (s \o t)[i] = s[i]
           /\ \A i \in 1..Len(t) : (s \o t)[Len(s) + i] = t[i]
<1>1. Len(s) \in Nat /\ Len(t) \in Nat
  OBVIOUS
<1>2. /\ s \o t \in Seq(Nat)
      /\ Len(s \o t) = Len(s) + Len(t)
      /\ \A i \in 1 .. Len(s) + Len(t) : (s \o t)[i] =
              IF i <= Len(s) THEN s[i] ELSE t[i - Len(s)]
  BY ConcatProperties
<1>3. ASSUME NEW i \in 1..Len(s) PROVE (s \o t)[i] = s[i]
  BY <1>1, <1>2
<1>4. ASSUME NEW i \in 1..Len(t) PROVE (s \o t)[Len(s) + i] = t[i]
  <2> DEFINE j == Len(s) + i
  <2>1. j \in 1..Len(s) + Len(t) /\ ~(j <= Len(s)) /\ j - Len(s) = i
    BY <1>1
  <2>2. (s \o t)[j] = t[j - Len(s)]
    BY <1>2, <2>1
  <2>. QED BY <2>1, <2>2
<1>. QED BY <1>2, <1>3, <1>4

(* The provider id, the separator and the field name follow the domain.    *)
Prefix == Len(Domain) + 1

LEMMA AADBytes ==
    ASSUME NEW p \in Seq(Nat), NEW f \in Seq(Nat)
    PROVE  /\ Len(AAD(p, f)) = Prefix + Len(p) + 1 + Len(f)
           /\ \A i \in 1..Len(p) : AAD(p, f)[Prefix + i] = p[i]
           /\ AAD(p, f)[Prefix + (Len(p) + 1)] = 0
           /\ \A i \in 1..Len(f) : AAD(p, f)[Prefix + Len(p) + 1 + i] = f[i]
<1> DEFINE z == <<0>>
           a == Domain \o z
           b == a \o p
           c == b \o z
           e == c \o f
<1>0. Domain \in Seq(Nat) /\ AAD(p, f) = e
  BY NameAssumption DEF AAD
<1>1. z \in Seq(Nat) /\ Len(z) = 1 /\ z[1] = 0
  OBVIOUS
<1> HIDE DEF z
<1>2. a \in Seq(Nat) /\ Len(a) = Prefix
  <2>1. a \in Seq(Nat) /\ Len(a) = Len(Domain) + Len(z)
    BY <1>0, <1>1, ConcatBytes
  <2>. QED BY <2>1, <1>1 DEF Prefix
<1> HIDE DEF a
<1>3. /\ b \in Seq(Nat) /\ Len(b) = Prefix + Len(p)
      /\ \A i \in 1..Len(p) : b[Prefix + i] = p[i]
  <2>1. /\ b \in Seq(Nat) /\ Len(b) = Len(a) + Len(p)
        /\ \A i \in 1..Len(p) : b[Len(a) + i] = p[i]
    BY <1>2, ConcatBytes
  <2>. QED BY <1>2, <2>1
<1> HIDE DEF b
<1>4. /\ c \in Seq(Nat) /\ Len(c) = Prefix + Len(p) + 1
      /\ \A i \in 1..Len(b) : c[i] = b[i]
      /\ c[Prefix + Len(p) + 1] = 0
  <2>1. /\ c \in Seq(Nat) /\ Len(c) = Len(b) + Len(z)
        /\ \A i \in 1..Len(b) : c[i] = b[i]
        /\ \A i \in 1..Len(z) : c[Len(b) + i] = z[i]
    BY <1>1, <1>3, ConcatBytes
  <2>2. c[Len(b) + 1] = z[1]
    BY <2>1, <1>1
  <2>. QED BY <2>1, <2>2, <1>1, <1>3
<1> HIDE DEF c
<1>5. /\ Len(e) = Prefix + Len(p) + 1 + Len(f)
      /\ \A i \in 1..Len(c) : e[i] = c[i]
      /\ \A i \in 1..Len(f) : e[Prefix + Len(p) + 1 + i] = f[i]
  <2>1. /\ Len(e) = Len(c) + Len(f)
        /\ \A i \in 1..Len(c) : e[i] = c[i]
        /\ \A i \in 1..Len(f) : e[Len(c) + i] = f[i]
    BY <1>4, ConcatBytes
  <2>. QED BY <2>1, <1>4
<1> HIDE DEF e
<1>6. Prefix \in Nat /\ Len(p) \in Nat
  BY <1>2
<1>7. ASSUME NEW i \in 1..Len(p) PROVE e[Prefix + i] = p[i]
  <2> DEFINE j == Prefix + i
  <2>1. j \in 1..Len(b) /\ j \in 1..Len(c)
    BY <1>3, <1>4, <1>6
  <2>2. b[j] = p[i]
    BY <1>3
  <2> HIDE DEF j
  <2>3. e[j] = c[j] /\ c[j] = b[j]
    BY <2>1, <1>4, <1>5
  <2>. QED BY <2>2, <2>3 DEF j
<1>8. e[Prefix + (Len(p) + 1)] = 0
  <2> DEFINE j == Prefix + Len(p) + 1
  <2>1. j \in 1..Len(c) /\ j = Prefix + (Len(p) + 1)
    BY <1>4, <1>6
  <2>2. c[j] = 0
    BY <1>4
  <2> HIDE DEF j
  <2>3. e[j] = c[j]
    BY <2>1, <1>5
  <2>. QED BY <2>1, <2>2, <2>3
<1>. QED BY <1>0, <1>5, <1>7, <1>8

(* No provider id ends before another one does: the separator would be a   *)
(* byte of the longer one.                                                 *)
LEMMA AADLength ==
    ASSUME NEW p \in Seq(Nat \ {0}), NEW f \in Seq(Nat),
           NEW q \in Seq(Nat \ {0}), NEW g \in Seq(Nat),
           AAD(p, f) = AAD(q, g)
    PROVE  ~(Len(p) < Len(q))
<1> SUFFICES ASSUME Len(p) < Len(q) PROVE FALSE
  OBVIOUS
<1> DEFINE i == Len(p) + 1
<1>1. p \in Seq(Nat) /\ q \in Seq(Nat)
  OBVIOUS
<1>2. i \in 1..Len(q)
  OBVIOUS
<1>3. q[i] # 0
  BY <1>2
<1>4. AAD(q, g)[Prefix + i] = q[i]
  BY <1>1, <1>2, AADBytes
<1>5. AAD(p, f)[Prefix + i] = 0
  BY <1>1, AADBytes
<1>. QED BY <1>3, <1>4, <1>5

(* The separators make the additional data of two places differ, as the    *)
(* comment of AAD claims against a plain join.                             *)
THEOREM AADSeparates ==
    ASSUME NEW p \in Seq(Nat \ {0}), NEW f \in Seq(Nat),
           NEW q \in Seq(Nat \ {0}), NEW g \in Seq(Nat),
           AAD(p, f) = AAD(q, g)
    PROVE  p = q /\ f = g
<1> DEFINE s == AAD(p, f)
           n == Len(p)
<1>1. p \in Seq(Nat) /\ q \in Seq(Nat) /\ Len(p) \in Nat /\ Len(q) \in Nat
  OBVIOUS
<1>2. Len(q) = n
  BY <1>1, AADLength
<1>3. /\ Len(s) = Prefix + n + 1 + Len(f)
      /\ \A i \in 1..n : s[Prefix + i] = p[i]
      /\ \A i \in 1..Len(f) : s[Prefix + n + 1 + i] = f[i]
  BY <1>1, AADBytes
<1>4. /\ Len(s) = Prefix + n + 1 + Len(g)
      /\ \A i \in 1..n : s[Prefix + i] = q[i]
      /\ \A i \in 1..Len(g) : s[Prefix + n + 1 + i] = g[i]
  <2>1. /\ Len(AAD(q, g)) = Prefix + Len(q) + 1 + Len(g)
        /\ \A i \in 1..Len(q) : AAD(q, g)[Prefix + i] = q[i]
        /\ \A i \in 1..Len(g) : AAD(q, g)[Prefix + Len(q) + 1 + i] = g[i]
    BY <1>1, AADBytes
  <2>. QED BY <1>2, <2>1
<1>5. Prefix \in Nat /\ n \in Nat /\ Len(f) \in Nat /\ Len(g) \in Nat
  BY NameAssumption DEF Prefix
<1> HIDE DEF s
<1>6. Len(f) = Len(g)
  BY <1>3, <1>4, <1>5
<1>7. \A i \in 1..Len(p) : p[i] = q[i]
  BY <1>3, <1>4
<1>8. \A i \in 1..Len(f) : f[i] = g[i]
  BY <1>3, <1>4, <1>6
<1>9. p = q
  BY <1>1, <1>2, <1>7, SeqEqual
<1>10. f = g
  BY <1>6, <1>8, SeqEqual
<1>. QED BY <1>9, <1>10

-----------------------------------------------------------------------------
(* What the plugin makes of a window, for integers of any width.           *)
Adds(m) ==
    /\ m.used \in 0..(Half - 1)
    /\ m.limit # Nil \/ m.remaining # Nil
    /\ (m.limit # Nil /\ m.remaining # Nil) =>
         (0 <= m.remaining /\ 0 <= m.limit =>
            m.used = IF m.remaining <= m.limit THEN m.limit - m.remaining ELSE 0)

(* Two words a whole number of turns apart are one.                        *)
LEMMA WordsApart ==
    ASSUME NEW v \in Word, NEW w \in Word, NEW turns \in Int,
           w = v + turns * (2 * Half)
    PROVE  w = v
<1> DEFINE turn == 2 * Half
<1>1. turn \in Int /\ turn > 0 /\ v \in Int /\ w \in Int
  BY HalfAssumption DEF Word
<1>2. w - v < turn /\ v - w < turn
  BY HalfAssumption DEF Word
<1>3. w = v + turns * turn
  OBVIOUS
<1> HIDE DEF turn
<1>4. turns >= 1 => turns * turn >= turn
  BY <1>1, SMT
<1>5. turns <= -1 => turns * turn <= -turn
  BY <1>1, SMT
<1>6. turns = 0 => turns * turn = 0
  BY <1>1, SMT
<1>. QED BY <1>1, <1>2, <1>3, <1>4, <1>5, <1>6

(* The subtraction of toMetric is that of the machine, for words of any    *)
(* width: of all integers that differ from the true difference by a whole  *)
(* number of turns it returns the one that is a word.                      *)
THEOREM WrapIsModular ==
    ASSUME NEW a \in Word, NEW b \in Word
    PROVE  /\ Wrap(a - b) \in Word
           /\ \A w \in Word :
                (\E turns \in Int : w = a - b + turns * (2 * Half)) <=> w = Wrap(a - b)
<1>1. a - b \in Int /\ -2 * Half < a - b /\ a - b < 2 * Half
  BY HalfAssumption DEF Word
<1>2. Wrap(a - b) \in Word
  BY <1>1, HalfAssumption DEF Wrap, Word
<1>3. PICK k \in {-1, 0, 1} : Wrap(a - b) = a - b + k * (2 * Half)
  BY <1>1, HalfAssumption DEF Wrap
<1>4. ASSUME NEW w \in Word, NEW turns \in Int, w = a - b + turns * (2 * Half)
      PROVE  w = Wrap(a - b)
  <2>1. turns - k \in Int /\ k \in Int
    OBVIOUS
  <2>2. turns * (2 * Half) = (turns - k) * (2 * Half) + k * (2 * Half)
    BY <2>1, HalfAssumption, SMT
  <2>3. w = Wrap(a - b) + (turns - k) * (2 * Half)
    <3> DEFINE x == turns * (2 * Half)
               y == k * (2 * Half)
               z == (turns - k) * (2 * Half)
    <3>1. x \in Int /\ y \in Int /\ z \in Int
      BY <2>1, HalfAssumption
    <3>2. w = a - b + x /\ Wrap(a - b) = a - b + y /\ x = z + y
      BY <1>3, <1>4, <2>2
    <3> HIDE DEF x, y, z
    <3>3. w = Wrap(a - b) + z
      BY <1>1, <3>1, <3>2
    <3>. QED BY <3>3 DEF z
  <2>. QED BY <1>2, <2>1, <2>3, WordsApart
<1>5. \E turns \in Int : Wrap(a - b) = a - b + turns * (2 * Half)
  BY <1>3
<1>. QED BY <1>2, <1>4, <1>5

LEMMA MetricTyped ==
    ASSUME NEW w \in Window, NEW now
    PROVE  ToMetric(w, now) \in Metric
<1>1. Given(w.limit) \in Int /\ Given(w.remains) \in Int
  BY HalfAssumption DEF Given, Window, Word
<1>2. Difference(w) \in Int
  BY <1>1, HalfAssumption DEF Difference, Wrap
<1>3. Used(w) \in Nat
  BY <1>2 DEF Used
<1>4. /\ w.limit \in Word \cup {Nil} /\ w.remains \in Word \cup {Nil}
      /\ w.resetAt \in Nat \cup {Nil}
  BY DEF Window
<1>. QED BY <1>3, <1>4 DEF ToMetric, Metric

LEMMA MetricAdds ==
    ASSUME NEW w \in Window, NEW now, ~Blank(w)
    PROVE  Adds(ToMetric(w, now))
<1> DEFINE m == ToMetric(w, now)
<1>1. m.used = Used(w) /\ m.limit = w.limit /\ m.remaining = w.remains
  BY DEF ToMetric
<1>2. m.used \in 0..(Half - 1)
  <2>1. Given(w.limit) \in Word /\ Given(w.remains) \in Word
    BY HalfAssumption DEF Given, Window, Word
  <2>2. Difference(w) \in Word
    BY <2>1, WrapIsModular DEF Difference
  <2>. QED BY <1>1, <2>2, HalfAssumption DEF Used, Word
<1>3. m.limit # Nil \/ m.remaining # Nil
  BY <1>1 DEF Blank
<1>4. ASSUME w.limit # Nil, w.remains # Nil, 0 <= w.remains, 0 <= w.limit
      PROVE  Used(w) = IF w.remains <= w.limit THEN w.limit - w.remains ELSE 0
  <2>1. w.limit \in Word /\ w.remains \in Word
    BY <1>4 DEF Window
  <2>2. Difference(w) = w.limit - w.remains
    BY <1>4, <2>1, HalfAssumption DEF Difference, Wrap, Given, Word
  <2>. QED BY <1>4, <2>1, <2>2, HalfAssumption DEF Used, Word
<1>. QED BY <1>1, <1>2, <1>3, <1>4 DEF Adds

-----------------------------------------------------------------------------
(* A stored value was sealed for the place it was submitted for and with   *)
(* the key it was submitted under, wherever its row has been copied since. *)
Sealed ==
    \A s \in Places : rows[s] # NoRow =>
        /\ rows[s].plaintext.under = rows[s].key
        /\ \E t \in Places :
             rows[s].aad = Bound(t) /\ rows[s].plaintext.value \in {t, Empty}

(* What an attempt remembers of the answer it got.                         *)
Judged ==
    /\ attempt.pc \in {"load", "fetch"} => attempt.answer = Nil
    /\ attempt.pc = "store" => attempt.answer # Nil /\ Accepted(attempt.answer)
    /\ attempt.answer = Nil => attempt.outcome # "auth"
    /\ attempt.answer # Nil =>
         \/ attempt.outcome = Verdict(attempt.answer)
         \/ Accepted(attempt.answer) /\ attempt.outcome = "error"

Inv == TypeOK /\ Sealed /\ KeyReachesItsOwner /\ Judged /\ ShownAddsUp

LEMMA BoundInjective ==
    ASSUME NEW s \in Places, NEW t \in Places, Bound(s) = Bound(t)
    PROVE  s = t
<1>1. /\ s \in Seq(Nat \ {0}) \X Seq(Nat)
      /\ t \in Seq(Nat \ {0}) \X Seq(Nat)
  BY NameAssumption
<1>2. s[1] = t[1] /\ s[2] = t[2]
  BY <1>1, AADSeparates DEF Bound
<1>. QED BY <1>1, <1>2

(* An accepted answer is no rejected one.                                  *)
LEMMA Verdicts ==
    ASSUME NEW answer \in Answers
    PROVE  /\ Verdict(answer) \in {"auth", "ok", "error"}
           /\ Accepted(answer) => Verdict(answer) = "ok"
           /\ Rejected(answer) <=> Verdict(answer) = "auth"
           /\ answer.fiveHour \in Window /\ answer.weekly \in Window
<1>1. /\ answer.fiveHour \in Window /\ answer.weekly \in Window
      /\ answer.status \in Nat /\ answer.code \in Int
  BY AnswerAssumption
<1>2. Accepted(answer) => ~Rejected(answer)
  BY <1>1 DEF Accepted, Rejected, Success, IsAuthError
<1>. QED BY <1>1, <1>2 DEF Verdict

LEMMA Starts == Init => Inv
<1>1. Init => TypeOK
  BY PathAssumption DEF Init, TypeOK, NoAttempt
<1>2. Init => Sealed /\ KeyReachesItsOwner /\ Judged /\ ShownAddsUp
  BY DEF Init, NoAttempt, Sealed, KeyReachesItsOwner, Judged, ShownAddsUp, Shown
<1>. QED BY <1>1, <1>2 DEF Inv

(* The table: only SetValue seals, and it seals for its own place.         *)
Writes == \E s \in Places : SetValue(s, s) \/ SetValue(s, Empty) \/ Delete(s) \/ Damage(s)

Misplaces == \E s, t \in Places : Misplace(s, t)

LEMMA TableStep ==
    ASSUME Inv, Writes \/ Misplaces
    PROVE  /\ rows' \in [Places -> Blobs \cup {NoRow}]
           /\ Sealed'
           /\ UNCHANGED <<masterKey, clock, attempt, report>>
<1>1. rows \in [Places -> Blobs \cup {NoRow}] /\ masterKey \in MasterKeys
  BY DEF Inv, TypeOK
<1>2. ASSUME NEW s \in Places, NEW v \in {s, Empty}, SetValue(s, v)
      PROVE  rows' \in [Places -> Blobs \cup {NoRow}] /\ Sealed'
  <2> DEFINE blob == Seal(masterKey, [value |-> v, under |-> masterKey], Bound(s))
  <2>1. /\ blob \in Blobs /\ blob.aad = Bound(s) /\ blob.plaintext.value \in {s, Empty}
        /\ blob.plaintext.under = blob.key
    BY <1>1 DEF Seal, Blobs, Texts
  <2>2. rows' = [rows EXCEPT ![s] = blob]
    BY <1>2 DEF SetValue
  <2> HIDE DEF blob
  <2>. QED BY <1>1, <2>1, <2>2 DEF Inv, Sealed
<1>3. ASSUME NEW s \in Places, Delete(s)
      PROVE  rows' \in [Places -> Blobs \cup {NoRow}] /\ Sealed'
  BY <1>1, <1>3 DEF Delete, Inv, Sealed
<1>4. ASSUME NEW s \in Places, Damage(s)
      PROVE  rows' \in [Places -> Blobs \cup {NoRow}] /\ Sealed'
  <2> DEFINE blob == Altered(rows[s])
  <2>1. rows[s] \in Blobs /\ rows[s] # NoRow
    BY <1>1, <1>4 DEF Damage
  <2>2. /\ blob \in Blobs /\ blob.aad = rows[s].aad /\ blob.key = rows[s].key
        /\ blob.plaintext = rows[s].plaintext
    BY <2>1 DEF Altered, Blobs
  <2>3. rows' = [rows EXCEPT ![s] = blob]
    BY <1>4 DEF Damage
  <2> HIDE DEF blob
  <2>. QED BY <1>1, <2>1, <2>2, <2>3 DEF Inv, Sealed
<1>5. ASSUME NEW s \in Places, NEW t \in Places, Misplace(s, t)
      PROVE  rows' \in [Places -> Blobs \cup {NoRow}] /\ Sealed'
  BY <1>1, <1>5 DEF Misplace, Inv, Sealed
<1>6. UNCHANGED <<masterKey, clock, attempt, report>>
  BY DEF Writes, Misplaces, SetValue, Delete, Damage, Misplace
<1>. QED BY <1>2, <1>3, <1>4, <1>5, <1>6 DEF Writes, Misplaces

(* Reveal: a blob opens in its own place only.                             *)
LEMMA LoadStep ==
    ASSUME Inv, Load
    PROVE  Inv'
<1> DEFINE value == IF rows[Target] = NoRow THEN NoText
                    ELSE Open(masterKey, rows[Target], Bound(Target))
<1>1. value # NoText =>
        value \in Texts /\ value.value \in {Target, Empty} /\ value.under = masterKey
  <2> SUFFICES ASSUME value # NoText
               PROVE  value \in Texts /\ value.value \in {Target, Empty} /\ value.under = masterKey
    OBVIOUS
  <2>1. /\ rows[Target] # NoRow /\ rows[Target].aad = Bound(Target)
        /\ rows[Target].key = masterKey
        /\ value = rows[Target].plaintext
    BY DEF Open
  <2>2. PICK t \in Places :
               rows[Target].aad = Bound(t) /\ rows[Target].plaintext.value \in {t, Empty}
    BY <2>1, PathAssumption DEF Inv, Sealed
  <2>3. t = Target
    BY <2>1, <2>2, PathAssumption, BoundInjective
  <2>4. value \in Texts /\ value.under = masterKey
    BY <2>1, PathAssumption DEF Inv, TypeOK, Blobs, Sealed
  <2>. QED BY <2>1, <2>2, <2>3, <2>4
<1>2. /\ attempt.pc = "load"
      /\ IF value = NoText THEN Finish("error")
         ELSE attempt' = [attempt EXCEPT !.pc = "fetch", !.key = value]
      /\ UNCHANGED <<rows, masterKey, clock, report>>
  BY DEF Load
<1> HIDE DEF value
<1>3. TypeOK'
  BY <1>1, <1>2, PathAssumption DEF Inv, TypeOK, Finish, Texts
<1>4. KeyReachesItsOwner' /\ Judged'
  BY <1>1, <1>2 DEF Inv, TypeOK, Finish, KeyReachesItsOwner, Judged
<1>5. Sealed' /\ ShownAddsUp'
  BY <1>2 DEF Inv, Sealed, ShownAddsUp, Shown
<1>. QED BY <1>3, <1>4, <1>5 DEF Inv

(* FetchUsage: the answer is judged when it arrives.                       *)
LEMMA FetchStep ==
    ASSUME Inv, NEW answer \in Answers, Fetch(answer)
    PROVE  Inv'
<1>1. /\ attempt' = [attempt EXCEPT !.pc = IF Accepted(answer) THEN "store" ELSE "idle",
                                    !.answer = answer, !.at = clock,
                                    !.outcome = Verdict(answer)]
      /\ UNCHANGED <<rows, masterKey, clock, report>>
      /\ attempt.pc = "fetch"
  BY DEF Fetch
<1>2. Verdict(answer) \in {"auth", "ok", "error"} /\ answer # Nil
  BY Verdicts, AnswerAssumption
<1>3. TypeOK'
  BY <1>1, <1>2 DEF Inv, TypeOK
<1>4. KeyReachesItsOwner' /\ Judged'
  BY <1>1, <1>2 DEF Inv, TypeOK, KeyReachesItsOwner, Judged
<1>5. Sealed' /\ ShownAddsUp'
  BY <1>1 DEF Inv, Sealed, ShownAddsUp, Shown
<1>. QED BY <1>3, <1>4, <1>5 DEF Inv

(* Replace: both windows are mapped, neither of them blank.                *)
LEMMA ReplaceStep ==
    ASSUME Inv, Replace
    PROVE  Inv'
<1> DEFINE answer == attempt.answer
           five == ToMetric(answer.fiveHour, attempt.at)
           week == ToMetric(answer.weekly, attempt.at)
<1>1. answer \in Answers /\ Accepted(answer)
  BY DEF Inv, TypeOK, Judged, Replace
<1>2. /\ answer.fiveHour \in Window /\ answer.weekly \in Window
      /\ Verdict(answer) = "ok"
      /\ ~Blank(answer.fiveHour) /\ ~Blank(answer.weekly)
  BY <1>1, Verdicts DEF Accepted
<1>3. five \in Metric /\ week \in Metric /\ Adds(five) /\ Adds(week)
  BY <1>2, MetricTyped, MetricAdds
<1>4. /\ attempt' = [attempt EXCEPT !.pc = "idle", !.outcome = "ok"]
      /\ report' = [fiveHour |-> five, weekly |-> week, collectedAt |-> clock]
      /\ UNCHANGED <<rows, masterKey, clock>>
      /\ attempt.pc = "store"
  BY DEF Replace, Finish
<1> HIDE DEF five, week
<1>5. TypeOK'
  BY <1>3, <1>4 DEF Inv, TypeOK
<1>6. KeyReachesItsOwner' /\ Judged' /\ Sealed'
  BY <1>1, <1>2, <1>4 DEF Inv, TypeOK, KeyReachesItsOwner, Judged, Sealed
<1>7. ShownAddsUp'
  <2>1. Shown' \subseteq {five, week}
    BY <1>4 DEF Shown
  <2>. QED BY <2>1, <1>3 DEF ShownAddsUp, Adds
<1>. QED BY <1>5, <1>6, <1>7 DEF Inv

LEMMA Steps ==
    ASSUME Inv, [Next]_vars
    PROVE  Inv'
<1>1. CASE Writes \/ Misplaces
  BY <1>1, TableStep DEF Inv, TypeOK, KeyReachesItsOwner, Judged, ShownAddsUp, Shown
<1>2. CASE Restart
  <2>1. TypeOK'
    BY <1>2, PathAssumption DEF Restart, NoAttempt, Inv, TypeOK
  <2>. QED BY <1>2, <2>1 DEF Restart, NoAttempt, Inv, Sealed, KeyReachesItsOwner, Judged,
              ShownAddsUp, Shown
<1>3. CASE Tick
  <2>1. TypeOK'
    BY <1>3, PathAssumption DEF Tick, Inv, TypeOK
  <2>. QED BY <1>3, <2>1 DEF Tick, Inv, Sealed, KeyReachesItsOwner, Judged, ShownAddsUp, Shown
<1>4. CASE Begin
  <2>1. TypeOK'
    BY <1>4, PathAssumption DEF Begin, NoAttempt, Inv, TypeOK
  <2>. QED BY <1>4, <2>1 DEF Begin, NoAttempt, Inv, Sealed, KeyReachesItsOwner, Judged,
              ShownAddsUp, Shown
<1>5. CASE FetchRefused \/ StoreFails
  <2>1. /\ attempt.pc \in {"load", "fetch", "store"}
        /\ attempt' = [attempt EXCEPT !.pc = "idle", !.outcome = "error"]
        /\ UNCHANGED <<rows, masterKey, clock, report>>
    BY <1>5 DEF FetchRefused, StoreFails, Finish
  <2>2. TypeOK'
    BY <2>1 DEF Inv, TypeOK
  <2>3. KeyReachesItsOwner' /\ Judged'
    BY <2>1 DEF Inv, TypeOK, KeyReachesItsOwner, Judged
  <2>4. Sealed' /\ ShownAddsUp'
    BY <2>1 DEF Inv, Sealed, ShownAddsUp, Shown
  <2>. QED BY <2>2, <2>3, <2>4 DEF Inv
<1>6. CASE UNCHANGED vars
  BY <1>6 DEF vars, Inv, TypeOK, Sealed, KeyReachesItsOwner, Judged, ShownAddsUp, Shown
<1>. QED
  BY <1>1, <1>2, <1>3, <1>4, <1>5, <1>6, LoadStep, FetchStep, ReplaceStep
  DEF Next, Writes, Misplaces

LEMMA Invariant == Spec => []Inv
<1>1. Inv /\ [Next]_vars => Inv'
  BY Steps
<1>. QED BY <1>1, Starts, PTL DEF Spec

-----------------------------------------------------------------------------
(* The path keeps its type: whatever the upstream reports, no used count   *)
(* of a stored metric is negative.                                         *)
THEOREM TypeCorrect == Spec => []TypeOK
<1>1. Inv => TypeOK
  BY DEF Inv
<1>. QED BY <1>1, Invariant, PTL

(* A value sealed for one field of one provider is never sent for another, *)
(* for any names, keys, copies and damage of rows.                         *)
THEOREM KeyStaysWithItsOwner == Spec => []KeyReachesItsOwner
<1>1. Inv => KeyReachesItsOwner
  BY DEF Inv
<1>. QED BY <1>1, Invariant, PTL

(* A metric of the dashboard adds up, for integers of any width and any    *)
(* answer of the upstream.                                                 *)
THEOREM MetricsAddUp == Spec => []ShownAddsUp
<1>1. Inv => ShownAddsUp
  BY DEF Inv
<1>. QED BY <1>1, Invariant, PTL

(* The authentication class is given exactly to the refusals of the        *)
(* upstream that arrive whole.                                             *)
THEOREM RefusalsAreAuth == Spec => []RefusalIsAuth
<1>1. Inv => RefusalIsAuth
  <2> SUFFICES ASSUME Inv PROVE RefusalIsAuth
    OBVIOUS
  <2> DEFINE answer == attempt.answer
  <2>1. CASE answer = Nil
    BY <2>1 DEF Inv, Judged, RefusalIsAuth
  <2>2. CASE answer # Nil
    <3>1. /\ answer \in Answers
          /\ attempt.outcome = Verdict(answer) \/ (Accepted(answer) /\ attempt.outcome = "error")
      BY <2>2 DEF Inv, TypeOK, Judged
    <3>2. answer.status \in Nat /\ answer.code \in Int
      BY <3>1, AnswerAssumption
    <3>3. answer.whole /\ Refusal(answer) => Rejected(answer)
      BY <3>2 DEF Refusal, Rejected, Success, IsAuthError
    <3>4. Rejected(answer) => answer.whole /\ answer.status \in 200..299 \cup {401, 403}
      BY <3>2 DEF Rejected, Success
    <3>5. Rejected(answer) <=> attempt.outcome = "auth"
      BY <3>1, Verdicts
    <3>. QED BY <2>2, <3>3, <3>4, <3>5 DEF RefusalIsAuth
  <2>. QED BY <2>1, <2>2
<1>. QED BY <1>1, Invariant, PTL
=============================================================================
