-------------------------- MODULE Collection_proofs --------------------------
(***************************************************************************)
(* Proofs about the composed system, for any registry, any credential      *)
(* fields, any number of refresh and PUT requests, and no bound on time.   *)
(*                                                                         *)
(* The inductive invariant is TypeOK and GateRespected.  TypeOK holds what *)
(* types the next row CollectLoad reads: a frame that is loading has a     *)
(* declared field left.  GateRespected is inductive because nothing but    *)
(* the poll goroutine, at the end of its own attempt, ever moves an expiry *)
(* forward.                                                                *)
(* Backed, further down, says what a frame of Collect has behind it at     *)
(* each statement; EntriesHaveReasons rests on it.                         *)
(***************************************************************************)
EXTENDS Collection, TLAPS

-----------------------------------------------------------------------------
(* Lemmas about the operators the actions are built from.                  *)

LEMMA RegistryInProviders == \A i \in DOMAIN Registry : Registry[i] \in Providers
BY DEF Providers

(* recordFailure keeps the type of the registry.                           *)
LEMMA RecordFailureType ==
    ASSUME MemoryTypeOK, NEW p \in Providers, Cooldown!RecordFailure(p)
    PROVE  entries' \in [Providers -> Cooldown!Entry]
<1> DEFINE failures == entries[p].failures + 1
           window   == Cooldown!Backoff(PollInterval, failures)
<1>1. window \in Nat
  BY CollectionAssumption DEF Cooldown!Backoff
<1>2. failures \in Nat /\ now \in Nat
  BY DEF MemoryTypeOK, Cooldown!Entry
<1>3. entries' = [entries EXCEPT ![p] = [failures |-> failures, until |-> now + window]]
  BY DEF Cooldown!RecordFailure
<1>4. [failures |-> failures, until |-> now + window] \in Cooldown!Entry
  <2> HIDE DEF failures, window
  <2> QED BY <1>1, <1>2 DEF Cooldown!Entry
<1> HIDE DEF failures, window
<1> QED BY <1>3, <1>4 DEF MemoryTypeOK

(* Clear keeps it, and leaves the provider's gate open.                    *)
LEMMA ClearType ==
    ASSUME MemoryTypeOK, NEW p \in Providers, Cooldown!Clear(p)
    PROVE  entries' \in [Providers -> Cooldown!Entry]
BY DEF MemoryTypeOK, Cooldown!Clear, Cooldown!NoEntry, Cooldown!Entry

(* A frame of Collect is replaced by a well-formed one.                    *)
LEMMA MoveType ==
    ASSUME CollectTypeOK, NEW c \in Collectors, NEW f \in Frame, FrameOK(f), Move(c, f)
    PROVE  CollectTypeOK'
BY DEF CollectTypeOK, Move, FrameOK

LEMMA IdleFrameType == IdleFrame \in Frame /\ FrameOK(IdleFrame)
BY DEF IdleFrame, Frame, FrameOK

LEMMA BeginType ==
    ASSUME CollectTypeOK, NEW c \in Collectors, NEW p \in Providers, Begin(c, p)
    PROVE  CollectTypeOK'
<1> DEFINE f == [pc |-> "get", prov |-> p, creds |-> << >>, at |-> 0, res |-> None]
<1>1. f \in Frame /\ FrameOK(f)
  BY DEF Frame, FrameOK
<1>2. Move(c, f)
  BY DEF Begin
<1> HIDE DEF f
<1> QED BY <1>1, <1>2, MoveType

LEMMA ReturnType ==
    ASSUME CollectTypeOK, NEW c \in Collectors, collect[c].pc # "idle",
           NEW r \in Results, Return(c, r)
    PROVE  CollectTypeOK'
<1> DEFINE f == [collect[c] EXCEPT !.pc = "return", !.at = 0, !.res = r]
<1>1. f \in Frame /\ FrameOK(f)
  BY DEF CollectTypeOK, Frame, FrameOK
<1>2. Move(c, f)
  BY DEF Return
<1> HIDE DEF f
<1> QED BY <1>1, <1>2, MoveType

-----------------------------------------------------------------------------
(* TypeOK is preserved by every action.                                    *)

(* What is left alone keeps its type.                                      *)
LEMMA StoreStutter ==
    ASSUME StoreTypeOK, UNCHANGED db PROVE StoreTypeOK'
BY DEF StoreTypeOK, db

LEMMA MemoryStutter ==
    ASSUME MemoryTypeOK, UNCHANGED <<masterKey, entries, now, todo>> PROVE MemoryTypeOK'
BY DEF MemoryTypeOK

LEMMA PutStutter ==
    ASSUME PutTypeOK, UNCHANGED put PROVE PutTypeOK'
BY DEF PutTypeOK, PutOK

LEMMA CollectStutter ==
    ASSUME CollectTypeOK, UNCHANGED collect PROVE CollectTypeOK'
BY DEF CollectTypeOK, FrameOK

(* Collect: providers.Get, Reveal, FetchUsage, Replace.                    *)
LEMMA CollectStepType ==
    ASSUME TypeOK, NEW c \in Collectors, CollectStep(c)
    PROVE  TypeOK'
<1> DEFINE p == collect[c].prov
           fr == collect[c]
<1> USE DEF TypeOK
<1>t. ASSUME fr.pc # "idle"
      PROVE  /\ fr \in Frame /\ fr.creds \in Seq(Values) /\ FrameOK(fr)
             /\ p \in Providers /\ FieldCount[p] \in Nat
  BY <1>t, CollectionAssumption DEF CollectTypeOK, Frame, FrameOK
<1>1. CASE CollectGet(c)
  <2>0. fr.pc = "get" /\ UNCHANGED <<db, masterKey, entries, now, todo, put>>
    BY <1>1 DEF CollectGet
  <2>1. ASSUME Move(c, [fr EXCEPT !.pc = AfterLoading(p, << >>)])
        PROVE  CollectTypeOK'
    <3> DEFINE f == [fr EXCEPT !.pc = AfterLoading(p, << >>)]
    <3>1. f \in Frame /\ FrameOK(f)
      BY <1>t, <2>0 DEF Frame, FrameOK, AfterLoading
    <3> HIDE DEF f
    <3> QED BY <2>1, <3>1, MoveType DEF f
  <2>2. ASSUME Return(c, "disabled") \/ Return(c, "error") PROVE CollectTypeOK'
    BY <2>0, <2>2, ReturnType DEF Results
  <2> QED BY <1>1, <2>0, <2>1, <2>2, StoreStutter, MemoryStutter, PutStutter DEF CollectGet
<1>2. CASE CollectLoad(c)
  <2> DEFINE row   == cred[<<p, Len(fr.creds) + 1>>]
             creds == Append(fr.creds, row.value)
  <2>0. fr.pc = "load" /\ UNCHANGED <<db, masterKey, entries, now, todo, put>>
    BY <1>2 DEF CollectLoad
  <2>1. ASSUME row # None,
               Move(c, [fr EXCEPT !.creds = creds, !.pc = AfterLoading(p, creds)])
        PROVE  CollectTypeOK'
    <3> DEFINE f == [fr EXCEPT !.creds = creds, !.pc = AfterLoading(p, creds)]
    <3>1. Len(fr.creds) + 1 \in Fields(p)
      BY <1>t, <2>0 DEF FrameOK, Fields
    <3>2. <<p, Len(fr.creds) + 1>> \in Slots
      BY <1>t, <2>0, <3>1 DEF Slots
    <3>3. row.value \in Values
      BY <2>1, <3>2 DEF StoreTypeOK, Blob
    <3>4. creds \in Seq(Values) /\ Len(creds) = Len(fr.creds) + 1
      BY <1>t, <2>0, <3>3
    <3>5. f \in Frame /\ FrameOK(f)
      <4> HIDE DEF row, creds
      <4>1. AfterLoading(p, creds) \in {"load", "fetch"}
        BY DEF AfterLoading
      <4>2. f \in Frame
        BY <1>t, <2>0, <3>4, <4>1 DEF Frame
      <4>3. FrameOK(f)
        BY <1>t, <2>0, <3>1, <3>4 DEF Frame, FrameOK, AfterLoading, Fields
      <4> QED BY <4>2, <4>3
    <3> HIDE DEF f
    <3> QED BY <2>1, <3>5, MoveType DEF f
  <2>2. ASSUME Return(c, "uncredentialed") \/ Return(c, "error") PROVE CollectTypeOK'
    BY <2>0, <2>2, ReturnType DEF Results
  <2>3. CollectTypeOK'
    BY <1>2, <2>1, <2>2 DEF CollectLoad
  <2> QED BY <2>0, <2>3, StoreStutter, MemoryStutter, PutStutter
<1>3. CASE CollectFetch(c)
  <2>0. fr.pc = "fetch" /\ UNCHANGED <<db, masterKey, entries, now, todo, put>>
    BY <1>3 DEF CollectFetch
  <2>1. ASSUME Move(c, [fr EXCEPT !.pc = "replace", !.at = now]) PROVE CollectTypeOK'
    <3> DEFINE f == [fr EXCEPT !.pc = "replace", !.at = now]
    <3>1. f \in Frame /\ FrameOK(f)
      BY <1>t, <2>0 DEF Frame, FrameOK, MemoryTypeOK
    <3> HIDE DEF f
    <3> QED BY <2>1, <3>1, MoveType DEF f
  <2>2. ASSUME \/ Return(c, "auth") \/ Return(c, "error") \/ Return(c, "no_fetcher")
        PROVE  CollectTypeOK'
    BY <2>0, <2>2, ReturnType DEF Results
  <2> QED BY <1>3, <2>0, <2>1, <2>2, StoreStutter, MemoryStutter, PutStutter DEF CollectFetch
<1>4. CASE CollectReplace(c)
  <2>0. fr.pc = "replace" /\ UNCHANGED <<enabled, cred, masterKey, entries, now, todo, put>>
    BY <1>4 DEF CollectReplace
  <2>1. snap' \in [Providers -> Snapshot \cup {None}]
    <3>1. [collectedAt |-> fr.at, lastError |-> None] \in Snapshot
      BY <1>t, <2>0 DEF Frame, Snapshot
    <3> QED BY <1>4, <3>1 DEF CollectReplace, StoreTypeOK
  <2>2. CollectTypeOK'
    BY <1>4, <2>0, ReturnType DEF CollectReplace, Results
  <2> QED BY <2>0, <2>1, <2>2, MemoryStutter, PutStutter DEF StoreTypeOK
<1> QED BY <1>1, <1>2, <1>3, <1>4 DEF CollectStep

(* The poll goroutine.                                                     *)
LEMMA SchedStepType ==
    ASSUME TypeOK, SchedStep
    PROVE  TypeOK'
<1> USE DEF TypeOK
<1>0. Sched \in Collectors
  BY DEF Collectors
<1>1. CASE TickStart
  BY <1>1, StoreStutter, CollectStutter, PutStutter DEF TickStart, MemoryTypeOK
<1>2. ASSUME NEW i \in todo, SchedSkip(i) PROVE TypeOK'
  BY <1>2, StoreStutter, CollectStutter, PutStutter DEF SchedSkip, Visit, MemoryTypeOK
<1>3. ASSUME NEW i \in todo, SchedAttempt(i) PROVE TypeOK'
  <2>1. Registry[i] \in Providers
    BY RegistryInProviders DEF MemoryTypeOK
  <2>2. CollectTypeOK'
    BY <1>0, <1>3, <2>1, BeginType DEF SchedAttempt
  <2> QED BY <1>3, <2>2, StoreStutter, PutStutter DEF SchedAttempt, Visit, MemoryTypeOK
<1>4. CASE SchedReturn
  <2> DEFINE p == collect[Sched].prov
  <2>1. p \in Providers
    BY <1>0, <1>4 DEF SchedReturn, CollectTypeOK, FrameOK
  <2>2. entries' \in [Providers -> Cooldown!Entry]
    <3>1. CASE Cooldown!RecordFailure(p)
      BY <2>1, <3>1, RecordFailureType
    <3>2. CASE Cooldown!Clear(p)
      BY <2>1, <3>2, ClearType
    <3>3. CASE UNCHANGED entries
      BY <3>3 DEF MemoryTypeOK
    <3> QED BY <1>4, <3>1, <3>2, <3>3 DEF SchedReturn
  <2>3. CollectTypeOK'
    BY <1>0, <1>4, IdleFrameType, MoveType DEF SchedReturn
  <2> QED BY <1>4, <2>2, <2>3, StoreStutter, PutStutter DEF SchedReturn, MemoryTypeOK
<1> QED BY <1>1, <1>2, <1>3, <1>4 DEF SchedStep

(* Refresh requests.                                                       *)
LEMMA RefreshType ==
    ASSUME TypeOK, NEW c \in Refreshers,
           RefreshReturn(c) \/ \E p \in Providers : RefreshStart(c, p)
    PROVE  TypeOK'
<1> USE DEF TypeOK
<1>0. c \in Collectors
  BY DEF Collectors
<1>1. ASSUME NEW p \in Providers, RefreshStart(c, p) PROVE TypeOK'
  BY <1>0, <1>1, BeginType, StoreStutter, MemoryStutter, PutStutter DEF RefreshStart
<1>2. CASE RefreshReturn(c)
  BY <1>0, <1>2, IdleFrameType, MoveType, StoreStutter, MemoryStutter, PutStutter
     DEF RefreshReturn
<1> QED BY <1>1, <1>2

(* PUT requests: the body names the declared fields, so every row written  *)
(* is one of Slots.                                                        *)
LEMMA PutType ==
    ASSUME TypeOK, NEW w \in Writers,
           PutStep(w) \/ \E p \in Providers, v \in Values : PutStart(w, p, v)
    PROVE  TypeOK'
<1> USE DEF TypeOK
<1> DEFINE fr == put[w]
<1>t. /\ fr \in PutFrame
      /\ fr # IdlePut => /\ fr.prov \in Providers /\ fr.value \in Values
                         /\ fr.left \subseteq Fields(fr.prov)
  BY DEF PutTypeOK, PutOK
<1>i. IdlePut \in PutFrame /\ PutOK(IdlePut)
  BY DEF IdlePut, PutFrame, PutOK
<1>m. ASSUME NEW f \in PutFrame, PutOK(f), put' = [put EXCEPT ![w] = f]
      PROVE  PutTypeOK'
  BY <1>m DEF PutTypeOK, PutOK
<1>1. ASSUME NEW p \in Providers, NEW v \in Values, PutStart(w, p, v) PROVE TypeOK'
  <2> DEFINE f == [prov |-> p, value |-> v, left |-> Fields(p)]
  <2>1. Fields(p) \subseteq Nat
    BY DEF Fields
  <2>2. f \in PutFrame /\ PutOK(f)
    BY <2>1 DEF PutFrame, PutOK
  <2>3. put' = [put EXCEPT ![w] = f]
    BY <1>1 DEF PutStart
  <2> HIDE DEF f
  <2> QED BY <1>1, <1>m, <2>2, <2>3, StoreStutter, MemoryStutter, CollectStutter DEF PutStart
<1>2. CASE PutField(w)
  <2> PICK f \in fr.left :
        /\ cred' = [cred EXCEPT ![<<fr.prov, f>>] = [value |-> fr.value, key |-> masterKey]]
        /\ put' = [put EXCEPT ![w].left = @ \ {f}]
        /\ UNCHANGED <<enabled, snap, masterKey, entries, now, todo, collect>>
    BY <1>2 DEF PutField
  <2>1. fr # IdlePut
    BY DEF IdlePut
  <2>2. [value |-> fr.value, key |-> masterKey] \in Blob
    BY <1>t, <2>1 DEF Blob, MemoryTypeOK
  <2>3. StoreTypeOK'
    BY <2>2 DEF StoreTypeOK
  <2> DEFINE g == [fr EXCEPT !.left = @ \ {f}]
  <2>4. g \in PutFrame /\ PutOK(g)
    BY <1>t, <2>1 DEF PutFrame, PutOK
  <2>5. put' = [put EXCEPT ![w] = g]
    BY DEF PutTypeOK
  <2> HIDE DEF g
  <2> QED BY <1>m, <2>3, <2>4, <2>5, MemoryStutter, CollectStutter
<1>3. CASE PutFail(w)
  BY <1>3, <1>i, <1>m, StoreStutter, MemoryStutter, CollectStutter DEF PutFail
<1>4. CASE PutDone(w)
  <2>1. entries' \in [Providers -> Cooldown!Entry]
    BY <1>4, <1>t, ClearType DEF PutDone
  <2> QED BY <1>4, <1>i, <1>m, <2>1, StoreStutter, CollectStutter DEF PutDone, MemoryTypeOK
<1> QED BY <1>1, <1>2, <1>3, <1>4 DEF PutStep

(* DELETE credentials, enable and disable, restart, the clock.             *)
LEMMA OtherType ==
    ASSUME TypeOK,
           \/ \E p \in Providers : \/ DeleteCredentials(p)
                                  \/ SetEnabled(p, TRUE) \/ SetEnabled(p, FALSE)
           \/ \E k \in Keys : Restart(k)
           \/ AdvanceClock
    PROVE  TypeOK'
<1> USE DEF TypeOK
<1>1. ASSUME NEW p \in Providers, DeleteCredentials(p) PROVE TypeOK'
  BY <1>1, MemoryStutter, CollectStutter, PutStutter DEF DeleteCredentials, StoreTypeOK
<1>2. ASSUME NEW p \in Providers, SetEnabled(p, TRUE) \/ SetEnabled(p, FALSE) PROVE TypeOK'
  BY <1>2, MemoryStutter, CollectStutter, PutStutter DEF SetEnabled, StoreTypeOK
<1>3. ASSUME NEW k \in Keys, Restart(k) PROVE TypeOK'
  <2>1. MemoryTypeOK'
    BY <1>3 DEF Restart, MemoryTypeOK, Cooldown!NoEntry, Cooldown!Entry
  <2>2. CollectTypeOK'
    BY <1>3, IdleFrameType DEF Restart, CollectTypeOK, FrameOK
  <2>3. PutTypeOK'
    BY <1>3 DEF Restart, PutTypeOK, PutOK, IdlePut, PutFrame
  <2> QED BY <1>3, <2>1, <2>2, <2>3, StoreStutter DEF Restart
<1>4. CASE AdvanceClock
  BY <1>4, StoreStutter, CollectStutter, PutStutter DEF AdvanceClock, MemoryTypeOK
<1> QED BY <1>1, <1>2, <1>3, <1>4

(* Type correctness of the composed system.                                *)
THEOREM TypeCorrect == Spec => []TypeOK
<1>1. Init => TypeOK
  BY IdleFrameType DEF Init, TypeOK, StoreTypeOK, MemoryTypeOK, CollectTypeOK, PutTypeOK,
     FrameOK, PutOK, IdlePut, PutFrame, Cooldown!NoEntry, Cooldown!Entry
<1>2. TypeOK /\ [Next]_vars => TypeOK'
  <2> SUFFICES ASSUME TypeOK, [Next]_vars PROVE TypeOK'
    OBVIOUS
  <2>1. CASE UNCHANGED vars
    BY <2>1, StoreStutter, MemoryStutter, CollectStutter, PutStutter DEF vars, db, TypeOK
  <2>2. CASE Next
    BY <2>2, CollectStepType, SchedStepType, RefreshType, PutType, OtherType DEF Next
  <2> QED BY <2>1, <2>2
<1> QED BY <1>1, <1>2, PTL DEF Spec

-----------------------------------------------------------------------------
(* What one step of a call of Collect does to the rest of the system: only *)
(* its own frame moves; it passes the enabled check only for an enabled    *)
(* provider and reaches the upstream only from a stored last field; and it *)
(* writes at most the snapshot of its provider, as its last statement.     *)
LEMMA CollectStepEffect ==
    ASSUME TypeOK, NEW c \in Collectors, CollectStep(c)
    PROVE  LET fr == collect[c]
               p  == fr.prov
           IN  /\ fr.pc # "idle" /\ collect'[c].pc # "idle"
               /\ p \in Providers /\ collect'[c].prov = p
               /\ \A d \in Collectors : d # c => collect'[d] = collect[d]
               /\ collect'[c].pc \in {"load", "fetch", "replace"}
                  => fr.pc \in {"load", "fetch", "replace"} \/ enabled[p]
               /\ collect'[c].pc \in {"fetch", "replace"}
                  => \/ fr.pc \in {"fetch", "replace"}
                     \/ FieldCount[p] = 0
                     \/ \E f \in Fields(p) : cred[<<p, f>>] # None
               /\ \A q \in Providers :
                    snap'[q] # snap[q] => q = p /\ fr.pc = "replace"
               /\ UNCHANGED <<enabled, cred, masterKey, entries, now, todo, put>>
<1> DEFINE fr == collect[c]
           p  == fr.prov
<1>t. /\ CollectTypeOK /\ fr \in Frame
      /\ fr.pc # "idle" => p \in Providers /\ FieldCount[p] \in Nat /\ FrameOK(fr)
  BY CollectionAssumption DEF TypeOK, CollectTypeOK, FrameOK
<1>r. ASSUME NEW r \in Results, Return(c, r), fr.pc # "idle"
      PROVE  /\ collect'[c].pc = "return" /\ collect'[c].prov = p
             /\ \A d \in Collectors : d # c => collect'[d] = collect[d]
  BY <1>t, <1>r DEF Return, Move, CollectTypeOK, Frame
<1>1. CASE CollectGet(c)
  <2>1. CASE enabled[p] /\ Move(c, [fr EXCEPT !.pc = AfterLoading(p, << >>)])
    <3>1. /\ collect'[c] = [fr EXCEPT !.pc = AfterLoading(p, << >>)]
          /\ \A d \in Collectors : d # c => collect'[d] = collect[d]
      BY <1>t, <2>1 DEF Move, CollectTypeOK
    <3>2. collect'[c].prov = p /\ collect'[c].pc = AfterLoading(p, << >>)
      BY <1>t, <3>1 DEF Frame
    <3>3. fr.pc = "get" /\ UNCHANGED <<db, masterKey, entries, now, todo, put>>
      BY <1>1 DEF CollectGet
    <3> QED BY <1>t, <2>1, <3>1, <3>2, <3>3 DEF AfterLoading, db
  <2>2. CASE Return(c, "disabled") \/ Return(c, "error")
    BY <1>1, <1>r, <1>t, <2>2 DEF CollectGet, Results, db
  <2> QED BY <1>1, <2>1, <2>2 DEF CollectGet
<1>2. CASE CollectLoad(c)
  <2> DEFINE n     == Len(fr.creds) + 1
             row   == cred[<<p, n>>]
             creds == Append(fr.creds, row.value)
  <2>0. fr.pc = "load" /\ UNCHANGED <<db, masterKey, entries, now, todo, put>>
    BY <1>2 DEF CollectLoad
  <2>1. CASE row # None /\ Move(c, [fr EXCEPT !.creds = creds, !.pc = AfterLoading(p, creds)])
    <3>1. n \in Fields(p) /\ row # None
      BY <1>t, <2>0, <2>1 DEF FrameOK, Fields, Frame
    <3>2. /\ collect'[c] = [fr EXCEPT !.creds = creds, !.pc = AfterLoading(p, creds)]
          /\ \A d \in Collectors : d # c => collect'[d] = collect[d]
      BY <1>t, <2>1 DEF Move, CollectTypeOK
    <3> HIDE DEF creds
    <3>3. collect'[c].prov = p /\ collect'[c].pc = AfterLoading(p, creds)
      BY <1>t, <3>2 DEF Frame
    <3> QED BY <1>t, <2>0, <3>1, <3>2, <3>3 DEF AfterLoading, db
  <2>2. CASE Return(c, "uncredentialed") \/ Return(c, "error")
    BY <1>r, <1>t, <2>0, <2>2 DEF Results, db
  <2> QED BY <1>2, <2>1, <2>2 DEF CollectLoad
<1>3. CASE CollectFetch(c)
  <2>0. fr.pc = "fetch" /\ UNCHANGED <<db, masterKey, entries, now, todo, put>>
    BY <1>3 DEF CollectFetch
  <2>1. CASE Move(c, [fr EXCEPT !.pc = "replace", !.at = now])
    <3>1. /\ collect'[c] = [fr EXCEPT !.pc = "replace", !.at = now]
          /\ \A d \in Collectors : d # c => collect'[d] = collect[d]
      BY <1>t, <2>1 DEF Move, CollectTypeOK
    <3> QED BY <1>t, <2>0, <3>1 DEF Frame, db
  <2>2. CASE Return(c, "auth") \/ Return(c, "error") \/ Return(c, "no_fetcher")
    BY <1>r, <1>t, <2>0, <2>2 DEF Results, db
  <2> QED BY <1>3, <2>1, <2>2 DEF CollectFetch
<1>4. CASE CollectReplace(c)
  <2>1. fr.pc = "replace" /\ (Return(c, "ok") \/ Return(c, "error"))
    BY <1>4 DEF CollectReplace
  <2>2. \A q \in Providers : snap'[q] # snap[q] => q = p
    BY <1>4 DEF CollectReplace, TypeOK, StoreTypeOK
  <2> QED BY <1>4, <1>r, <1>t, <2>1, <2>2 DEF CollectReplace, Results
<1> QED BY <1>1, <1>2, <1>3, <1>4 DEF CollectStep

-----------------------------------------------------------------------------
(* The gate.                                                               *)

(* No attempt of the poll goroutine runs while its provider is in a        *)
(* cooldown, although the gate is read once, before the attempt.           *)
THEOREM GateIsRespected == Spec => []GateRespected
<1>1. Init => GateRespected
  BY DEF Init, GateRespected, Idle, IdleFrame, Collectors
<1>2. TypeOK /\ GateRespected /\ [Next]_vars => GateRespected'
  <2> SUFFICES ASSUME TypeOK, GateRespected, [Next]_vars,
                      ~Idle(Sched)'
               PROVE  ~Cooldown!Active(collect[Sched].prov)'
    BY DEF GateRespected
  <2> DEFINE p == collect[Sched].prov
  <2>0. Sched \in Collectors /\ Sched \notin Refreshers
    BY CollectionAssumption DEF Collectors
  <2>t. /\ \A q \in Providers : entries[q].until \in Nat
        /\ now \in Nat
        /\ ~Idle(Sched) => p \in Providers
    BY <2>0 DEF TypeOK, MemoryTypeOK, Cooldown!Entry, CollectTypeOK, FrameOK, Idle
  (* A step that leaves the poll goroutine's attempt and the registry.     *)
  <2>s. ASSUME ~Idle(Sched), collect'[Sched].prov = p, UNCHANGED <<entries, now>>
        PROVE  ~Cooldown!Active(collect[Sched].prov)'
    BY <2>s DEF GateRespected, Cooldown!Active
  <2>1. ASSUME NEW c \in Collectors, CollectStep(c)
        PROVE  ~Cooldown!Active(collect[Sched].prov)'
    <3>1. ~Idle(Sched) /\ collect'[Sched].prov = p /\ UNCHANGED <<entries, now>>
      BY <2>0, <2>1, CollectStepEffect DEF Idle
    <3> QED BY <3>1, <2>s
  <2>2. ASSUME TickStart \/ \E i \in todo : SchedSkip(i)
        PROVE  ~Cooldown!Active(collect[Sched].prov)'
    BY <2>2 DEF TickStart, SchedSkip, Visit, Idle
  <2>3. ASSUME NEW i \in todo, SchedAttempt(i)
        PROVE  ~Cooldown!Active(collect[Sched].prov)'
    <3>1. collect'[Sched].prov = Registry[i]
      BY <2>0, <2>3 DEF SchedAttempt, Begin, Move, TypeOK, CollectTypeOK
    <3> QED BY <2>3, <3>1 DEF SchedAttempt, Cooldown!Active
  <2>4. CASE SchedReturn
    <3>1. Idle(Sched)'
      BY <2>0, <2>4 DEF SchedReturn, Move, Idle, IdleFrame, TypeOK, CollectTypeOK
    <3> QED BY <3>1
  <2>5. ASSUME NEW c \in Refreshers,
               RefreshReturn(c) \/ \E q \in Providers : RefreshStart(c, q)
        PROVE  ~Cooldown!Active(collect[Sched].prov)'
    <3>1. collect'[Sched] = collect[Sched] /\ UNCHANGED <<entries, now>>
      BY <2>0, <2>5 DEF RefreshReturn, RefreshStart, Begin, Move, TypeOK, CollectTypeOK
    <3> QED BY <3>1, <2>s DEF Idle
  <2>6. ASSUME NEW w \in Writers, PutDone(w)
        PROVE  ~Cooldown!Active(collect[Sched].prov)'
    <3>1. collect' = collect /\ now' = now /\ ~Idle(Sched)
      BY <2>6 DEF PutDone, Idle
    <3>2. entries'[p].until \in {0, entries[p].until}
      BY <2>6, <2>t, <3>1 DEF PutDone, Cooldown!Clear, Cooldown!NoEntry, TypeOK, MemoryTypeOK
    <3> QED BY <2>t, <3>1, <3>2 DEF GateRespected, Cooldown!Active
  <2>7. ASSUME NEW w \in Writers,
               \/ PutField(w) \/ PutFail(w)
               \/ \E q \in Providers, v \in Values : PutStart(w, q, v)
        PROVE  ~Cooldown!Active(collect[Sched].prov)'
    BY <2>7, <2>s DEF PutField, PutFail, PutStart, Idle
  <2>8. ASSUME NEW q \in Providers,
               DeleteCredentials(q) \/ SetEnabled(q, TRUE) \/ SetEnabled(q, FALSE)
        PROVE  ~Cooldown!Active(collect[Sched].prov)'
    BY <2>8, <2>s DEF DeleteCredentials, SetEnabled, Idle
  <2>9. ASSUME NEW k \in Keys, Restart(k)
        PROVE  ~Cooldown!Active(collect[Sched].prov)'
    BY <2>0, <2>9 DEF Restart, Idle, IdleFrame
  <2>10. CASE AdvanceClock
    <3>1. /\ ~Idle(Sched) /\ ~(now < entries[p].until) /\ p \in Providers
          /\ now' = now + 1 /\ UNCHANGED <<entries, collect>>
      BY <2>10, <2>t DEF AdvanceClock, GateRespected, Cooldown!Active, Idle
    <3> QED BY <2>t, <3>1 DEF Cooldown!Active
  <2>11. CASE UNCHANGED vars
    BY <2>11, <2>s DEF vars, Idle
  <2> QED BY <2>1, <2>2, <2>3, <2>4, <2>5, <2>6, <2>7, <2>8, <2>9, <2>10, <2>11
          DEF Next, SchedStep, PutStep
<1> QED BY <1>1, <1>2, TypeCorrect, PTL DEF Spec

-----------------------------------------------------------------------------
(* The system uses the registry as AuthCooldown says: every step of it is  *)
(* a step of that module or leaves entries and now alone.  GateRespected   *)
(* is what makes the end of an attempt a step of it.                       *)
THEOREM ImplementsCooldown == Spec => CooldownProtocol
<1>1. Init => Cooldown!Init
  BY DEF Init, Cooldown!Init
<1>2. TypeOK /\ GateRespected /\ [Next]_vars => [Cooldown!Next]_(Cooldown!vars)
  <2> SUFFICES ASSUME TypeOK, GateRespected, [Next]_vars
               PROVE  Cooldown!Next \/ UNCHANGED <<entries, now>>
    BY DEF Cooldown!vars
  <2>0. Sched \in Collectors
    BY DEF Collectors
  <2>1. CASE SchedReturn
    <3> DEFINE p == collect[Sched].prov
    <3>1. ~Idle(Sched)
      BY <2>1 DEF SchedReturn, Idle
    <3>2. p \in Providers /\ ~Cooldown!Active(p) /\ now' = now
      BY <2>0, <2>1, <3>1 DEF GateRespected, Idle, SchedReturn, TypeOK, CollectTypeOK, FrameOK
    <3>3. CASE Cooldown!RecordFailure(p)
      BY <3>2, <3>3 DEF Cooldown!Next, Cooldown!AuthFailure
    <3>4. CASE Cooldown!Clear(p)
      BY <3>2, <3>4 DEF Cooldown!Next, Cooldown!AttemptSucceeds
    <3> QED BY <2>1, <3>2, <3>3, <3>4 DEF SchedReturn
  <2>2. ASSUME NEW w \in Writers, PutDone(w)
        PROVE  Cooldown!Next
    <3>1. put[w].prov \in Providers
      BY <2>2 DEF PutDone, TypeOK, PutTypeOK, PutOK
    <3> QED BY <2>2, <3>1 DEF PutDone, Cooldown!Next, Cooldown!CredentialSet
  <2>3. ASSUME NEW k \in Keys, Restart(k)
        PROVE  Cooldown!Next
    BY <2>3 DEF Restart, Cooldown!Next, Cooldown!Reboot
  <2>4. CASE AdvanceClock
    BY <2>4 DEF AdvanceClock, Cooldown!Next, Cooldown!Pass
  <2>5. ASSUME NEW c \in Collectors, CollectStep(c)
        PROVE  UNCHANGED <<entries, now>>
    BY <2>5, CollectStepEffect
  <2>6. ASSUME TickStart \/ \E i \in todo : SchedSkip(i) \/ SchedAttempt(i)
        PROVE  UNCHANGED <<entries, now>>
    BY <2>6 DEF TickStart, SchedSkip, SchedAttempt
  <2>7. ASSUME NEW c \in Refreshers,
               RefreshReturn(c) \/ \E p \in Providers : RefreshStart(c, p)
        PROVE  UNCHANGED <<entries, now>>
    BY <2>7 DEF RefreshReturn, RefreshStart
  <2>8. ASSUME NEW w \in Writers,
               \/ PutField(w) \/ PutFail(w)
               \/ \E p \in Providers, v \in Values : PutStart(w, p, v)
        PROVE  UNCHANGED <<entries, now>>
    BY <2>8 DEF PutField, PutFail, PutStart
  <2>9. ASSUME NEW p \in Providers,
               DeleteCredentials(p) \/ SetEnabled(p, TRUE) \/ SetEnabled(p, FALSE)
        PROVE  UNCHANGED <<entries, now>>
    BY <2>9 DEF DeleteCredentials, SetEnabled
  <2>10. CASE UNCHANGED vars
    BY <2>10 DEF vars
  <2> QED BY <2>1, <2>2, <2>3, <2>4, <2>5, <2>6, <2>7, <2>8, <2>9, <2>10
          DEF Next, SchedStep, PutStep
<1> QED BY <1>1, <1>2, TypeCorrect, GateIsRespected, PTL
        DEF Spec, CooldownProtocol, Cooldown!Spec

-----------------------------------------------------------------------------
(* What is proved of the registry alone holds of it in the whole system.   *)
(* Registered is the registry with its theorems; it and Cooldown unfold to *)
(* the same formulas.                                                      *)
Registered == INSTANCE AuthCooldown_proofs
                WITH base <- PollInterval, Bases <- {PollInterval}

LEMMA RegistryAssumption == Registered!CooldownAssumption
BY CollectionAssumption DEF Registered!CooldownAssumption

LEMMA SamePow2 == Cooldown!Pow2 = Registered!Pow2
BY DEF Cooldown!Pow2, Registered!Pow2

LEMMA SameBackoff ==
    /\ \A b, f : Cooldown!Backoff(b, f) = Registered!Backoff(b, f)
    /\ \A b : Cooldown!Faithful(b) <=> Registered!Faithful(b)
BY SamePow2 DEF Cooldown!Backoff, Registered!Backoff, Cooldown!Shifted, Registered!Shifted,
                Cooldown!Faithful, Registered!Faithful

LEMMA SameInit == Cooldown!Init <=> Registered!Init
BY DEF Cooldown!Init, Registered!Init, Cooldown!NoEntry, Registered!NoEntry

LEMMA SameNext == [Cooldown!Next]_(Cooldown!vars) <=> [Registered!Next]_(Registered!vars)
BY SameBackoff
   DEF Cooldown!Next, Cooldown!AuthFailure, Cooldown!AttemptSucceeds, Cooldown!CredentialSet,
       Cooldown!Reboot, Cooldown!Pass, Cooldown!Active, Cooldown!RecordFailure,
       Cooldown!Clear, Cooldown!NoEntry, Cooldown!vars,
       Registered!Next, Registered!AuthFailure, Registered!AttemptSucceeds,
       Registered!CredentialSet, Registered!Reboot, Registered!Pass, Registered!Active,
       Registered!RecordFailure, Registered!Clear, Registered!NoEntry, Registered!vars

LEMMA SameSpec == Cooldown!Spec <=> Registered!Spec
BY SameInit, SameNext, PTL DEF Cooldown!Spec, Registered!Spec

LEMMA SamePromiseInit == Cooldown!Promise!Init <=> Registered!Promise!Init
BY SameBackoff DEF Cooldown!Promise!Init, Registered!Promise!Init

LEMMA SamePromiseNext ==
    [Cooldown!Promise!Next]_(Cooldown!Promise!vars)
      <=> [Registered!Promise!Next]_(Registered!Promise!vars)
BY DEF Cooldown!Promise!Next, Cooldown!Promise!Fail, Cooldown!Promise!Forget,
       Cooldown!Promise!Restart, Cooldown!Promise!Wait, Cooldown!Promise!NextWindow,
       Cooldown!Promise!Capped, Cooldown!Promise!vars, Cooldown!Backoff,
       Cooldown!Shifted, Cooldown!Pow2,
       Registered!Promise!Next, Registered!Promise!Fail, Registered!Promise!Forget,
       Registered!Promise!Restart, Registered!Promise!Wait, Registered!Promise!NextWindow,
       Registered!Promise!Capped, Registered!Promise!vars, Registered!Backoff,
       Registered!Shifted, Registered!Pow2

LEMMA SamePromise == Cooldown!DoublesUpToCap <=> Registered!DoublesUpToCap
BY SamePromiseInit, SamePromiseNext, PTL
   DEF Cooldown!DoublesUpToCap, Registered!DoublesUpToCap,
       Cooldown!Promise!Spec, Registered!Promise!Spec

(* In the whole system, with every race of ticks, refreshes, credential    *)
(* updates and restarts, no cooldown ends later than the cap from now.     *)
THEOREM CooldownsStayBounded == Spec => []Cooldown!CooldownBounded
<1>1. Cooldown!CooldownBounded <=> Registered!CooldownBounded
  BY DEF Cooldown!CooldownBounded, Registered!CooldownBounded
<1>2. Registered!Spec => []Registered!CooldownBounded
  BY RegistryAssumption, Registered!CooldownIsBounded
<1> QED BY <1>1, <1>2, ImplementsCooldown, SameSpec, PTL DEF CooldownProtocol

(* In the whole system the windows of consecutive failures are the ones    *)
(* the registry's comment promises: the poll interval, doubled each time,  *)
(* saturated at the cap, forgotten by a success or a credential update.    *)
THEOREM BacksOffAsPromised ==
    ASSUME Cooldown!Faithful(PollInterval)
    PROVE  Spec => Cooldown!DoublesUpToCap
<1>1. \A b \in {PollInterval} : Registered!Faithful(b)
  BY SameBackoff
<1>2. Registered!Spec => Registered!DoublesUpToCap
  BY <1>1, RegistryAssumption, Registered!ImplementsPromise
<1> QED BY <1>2, ImplementsCooldown, SameSpec, SamePromise, PTL DEF CooldownProtocol

-----------------------------------------------------------------------------
(* Revocation.                                                             *)

(* The frames of the other actions: none of them puts a frame of Collect   *)
(* past providers.Get, and none writes a snapshot.                         *)
LEMMA OnlyCollectMovesOn ==
    ASSUME TypeOK, [Next]_vars, NEW c \in Collectors,
           \A d \in Collectors : ~CollectStep(d)
    PROVE  /\ collect'[c] = collect[c] \/ collect'[c].pc \in {"idle", "get"}
           /\ snap' = snap
<1> DEFINE Still == /\ collect'[c] = collect[c] \/ collect'[c].pc \in {"idle", "get"}
                    /\ snap' = snap
<1> SUFFICES Still
  OBVIOUS
<1>0. Sched \in Collectors /\ Refreshers \subseteq Collectors /\ IdleFrame.pc = "idle"
  BY DEF Collectors, IdleFrame
<1>m. ASSUME NEW d \in Collectors, NEW f, Move(d, f), f.pc \in {"idle", "get"}
      PROVE  collect'[c] = collect[c] \/ collect'[c].pc \in {"idle", "get"}
  BY <1>m DEF Move, TypeOK, CollectTypeOK
<1>b. ASSUME NEW d \in Collectors, NEW p, Begin(d, p)
      PROVE  collect'[c] = collect[c] \/ collect'[c].pc \in {"idle", "get"}
  BY <1>b DEF Begin, Move, TypeOK, CollectTypeOK
<1>1. CASE SchedStep
  <2>1. CASE TickStart \/ \E i \in todo : SchedSkip(i)
    BY <2>1 DEF TickStart, SchedSkip, db
  <2>2. CASE \E i \in todo : SchedAttempt(i)
    BY <1>0, <1>b, <2>2 DEF SchedAttempt, db
  <2>3. CASE SchedReturn
    BY <1>0, <1>m, <2>3 DEF SchedReturn, db
  <2> QED BY <1>1, <2>1, <2>2, <2>3 DEF SchedStep
<1>2. ASSUME NEW d \in Refreshers,
             RefreshReturn(d) \/ \E p \in Providers : RefreshStart(d, p)
      PROVE  Still
  BY <1>0, <1>m, <1>b, <1>2 DEF RefreshReturn, RefreshStart, db
<1>3. ASSUME NEW w \in Writers,
             PutStep(w) \/ \E p \in Providers, v \in Values : PutStart(w, p, v)
      PROVE  Still
  BY <1>3 DEF PutStep, PutField, PutFail, PutDone, PutStart, db
<1>4. ASSUME NEW p \in Providers,
             DeleteCredentials(p) \/ SetEnabled(p, TRUE) \/ SetEnabled(p, FALSE)
      PROVE  Still
  BY <1>4 DEF DeleteCredentials, SetEnabled
<1>5. ASSUME NEW k \in Keys, Restart(k) PROVE Still
  BY <1>0, <1>5 DEF Restart, db
<1>6. CASE AdvanceClock
  BY <1>6 DEF AdvanceClock, db
<1>7. CASE UNCHANGED vars
  BY <1>7 DEF vars
<1> QED BY <1>1, <1>2, <1>3, <1>4, <1>5, <1>6, <1>7 DEF Next

(* A disabled provider with no call past the enabled check stays quiet.    *)
THEOREM DisabledIsQuiet == Spec => DisabledStaysQuiet
<1> DEFINE Past == {"load", "fetch", "replace"}
           Quiet(p) == /\ ~InFlight(p, Past)'
                       /\ snap'[p] = snap[p]
<1>1. TypeOK /\ [Next]_vars =>
        \A p \in Providers : ~enabled[p] /\ ~InFlight(p, Past) => Quiet(p)
  <2> SUFFICES ASSUME TypeOK, [Next]_vars,
                      NEW p \in Providers, ~enabled[p], ~InFlight(p, Past)
               PROVE  Quiet(p)
    OBVIOUS
  <2>1. ASSUME NEW c \in Collectors, CollectStep(c) PROVE Quiet(p)
    BY <2>1, CollectStepEffect DEF InFlight
  <2>2. ASSUME \A c \in Collectors : ~CollectStep(c) PROVE Quiet(p)
    <3>1. \A c \in Collectors :
            collect'[c].pc \in Past => collect'[c] = collect[c]
      BY <2>2, OnlyCollectMovesOn
    <3>2. snap' = snap
      BY <2>2, OnlyCollectMovesOn DEF Collectors
    <3> QED BY <3>1, <3>2 DEF InFlight
  <2> QED BY <2>1, <2>2
<1> QED BY <1>1, TypeCorrect, PTL DEF Spec, DisabledStaysQuiet

(* A provider whose credentials are deleted and that has no upstream call  *)
(* under way stays quiet, also for a call half-way through its fields.     *)
THEOREM DeletedIsQuiet == Spec => DeletedStaysQuiet
<1> DEFINE Past == {"fetch", "replace"}
           Deleted(p) == FieldCount[p] > 0 /\ \A f \in Fields(p) : cred[<<p, f>>] = None
           Quiet(p) == /\ ~InFlight(p, Past)'
                       /\ snap'[p] = snap[p]
<1>1. TypeOK /\ [Next]_vars =>
        \A p \in Providers : Deleted(p) /\ ~InFlight(p, Past) => Quiet(p)
  <2> SUFFICES ASSUME TypeOK, [Next]_vars,
                      NEW p \in Providers, Deleted(p), ~InFlight(p, Past)
               PROVE  Quiet(p)
    OBVIOUS
  <2>0. FieldCount[p] # 0
    BY CollectionAssumption
  <2>1. ASSUME NEW c \in Collectors, CollectStep(c) PROVE Quiet(p)
    <3>1. /\ collect'[c].prov = collect[c].prov
          /\ \A d \in Collectors : d # c => collect'[d] = collect[d]
          /\ snap'[p] # snap[p] => p = collect[c].prov /\ collect[c].pc = "replace"
      BY <2>1, CollectStepEffect
    <3>2. collect'[c].prov = p => collect'[c].pc \notin Past
      <4> SUFFICES ASSUME collect[c].prov = p PROVE collect'[c].pc \notin Past
        BY <3>1
      <4>1. collect'[c].pc \in Past
            => \/ collect[c].pc \in Past
               \/ FieldCount[p] = 0
               \/ \E f \in Fields(p) : cred[<<p, f>>] # None
        BY <2>1, CollectStepEffect
      <4> QED BY <2>0, <4>1 DEF InFlight
    <3> QED BY <3>1, <3>2 DEF InFlight
  <2>2. ASSUME \A c \in Collectors : ~CollectStep(c) PROVE Quiet(p)
    <3>1. \A c \in Collectors :
            collect'[c].pc \in Past => collect'[c] = collect[c]
      BY <2>2, OnlyCollectMovesOn
    <3>2. snap' = snap
      BY <2>2, OnlyCollectMovesOn DEF Collectors
    <3> QED BY <3>1, <3>2 DEF InFlight
  <2> QED BY <2>1, <2>2
<1>2. TypeOK /\ [Next]_vars =>
        \A p \in Providers :
          /\ FieldCount[p] > 0
          /\ \A f \in Fields(p) : cred[<<p, f>>] = None
          /\ ~InFlight(p, {"fetch", "replace"})
          => /\ ~InFlight(p, {"fetch", "replace"})'
             /\ snap'[p] = snap[p]
  BY <1>1
<1> QED BY <1>2, TypeCorrect, PTL DEF Spec, DeletedStaysQuiet
-----------------------------------------------------------------------------
(* What an entry of the registry stands for.                               *)

(* A frame past loading has read every declared field, one past the        *)
(* upstream's answer has a Fetcher, and a success has stored its snapshot  *)
(* (s is the table of snapshots).                                          *)
FrameBacked(fr, s) ==
    /\ fr.pc \in {"fetch", "replace"} => Len(fr.creds) = FieldCount[fr.prov]
    /\ fr.pc = "replace" => fr.prov \in Live
    /\ fr.pc = "return" /\ fr.res \in {"auth", "ok"}
       => Len(fr.creds) = FieldCount[fr.prov] /\ fr.prov \in Live
    /\ fr.pc = "return" /\ fr.res = "ok" => s[fr.prov] # None

Backed == \A c \in Collectors : FrameBacked(collect[c], snap)

(* One frame moves, and no snapshot is lost.                               *)
LEMMA MoveBacked ==
    ASSUME CollectTypeOK, Backed, NEW c \in Collectors, NEW f, Move(c, f),
           FrameBacked(f, snap'),
           \A q \in Providers : snap[q] # None => snap'[q] # None
    PROVE  Backed'
<1>1. ASSUME NEW d \in Collectors PROVE FrameBacked(collect'[d], snap')
  <2>1. CASE d = c
    BY <2>1 DEF Move, CollectTypeOK
  <2>2. CASE d # c
    <3>1. collect'[d] = collect[d] /\ FrameBacked(collect[d], snap)
      BY <2>2 DEF Move, CollectTypeOK, Backed
    <3>2. collect[d].pc = "return" => collect[d].prov \in Providers
      BY DEF CollectTypeOK, FrameOK
    <3>. QED BY <3>1, <3>2 DEF FrameBacked
  <2>. QED BY <2>1, <2>2
<1>. QED BY <1>1 DEF Backed

LEMMA CollectBacked ==
    ASSUME TypeOK, Backed, NEW c \in Collectors, CollectStep(c)
    PROVE  Backed'
<1> DEFINE fr == collect[c]
           p  == fr.prov
<1>t. /\ CollectTypeOK /\ fr \in Frame /\ FrameBacked(fr, snap)
      /\ fr.pc # "idle" => p \in Providers
  BY DEF TypeOK, CollectTypeOK, FrameOK, Backed
<1>r. ASSUME NEW r \in Results \ {"auth", "ok"}, Return(c, r), snap' = snap
      PROVE  Backed'
  <2> DEFINE f == [fr EXCEPT !.pc = "return", !.at = 0, !.res = r]
  <2>1. FrameBacked(f, snap')
    BY <1>t DEF FrameBacked, Frame
  <2>2. Move(c, f)
    BY <1>r DEF Return
  <2> HIDE DEF f
  <2>. QED BY <1>t, <1>r, <2>1, <2>2, MoveBacked
<1>1. CASE CollectGet(c)
  <2>0. snap' = snap
    BY <1>1 DEF CollectGet, db
  <2>1. CASE Move(c, [fr EXCEPT !.pc = AfterLoading(p, << >>)])
    <3> DEFINE f == [fr EXCEPT !.pc = AfterLoading(p, << >>)]
    <3>1. fr.creds = << >>
      BY <1>1 DEF CollectGet, TypeOK, CollectTypeOK, FrameOK
    <3>2. FrameBacked(f, snap')
      BY <1>t, <3>1 DEF FrameBacked, Frame, AfterLoading
    <3>3. Move(c, f)
      BY <2>1
    <3> HIDE DEF f
    <3>. QED BY <1>t, <2>0, <3>2, <3>3, MoveBacked
  <2>2. CASE Return(c, "disabled") \/ Return(c, "error")
    BY <1>r, <2>0, <2>2 DEF Results
  <2>. QED BY <1>1, <2>1, <2>2 DEF CollectGet
<1>2. CASE CollectLoad(c)
  <2> DEFINE row   == cred[<<p, Len(fr.creds) + 1>>]
             creds == Append(fr.creds, row.value)
  <2>0. fr.pc = "load" /\ snap' = snap
    BY <1>2 DEF CollectLoad, db
  <2>1. CASE Move(c, [fr EXCEPT !.creds = creds, !.pc = AfterLoading(p, creds)])
    <3> DEFINE f == [fr EXCEPT !.creds = creds, !.pc = AfterLoading(p, creds)]
    <3>1. Move(c, f)
      BY <2>1
    <3> HIDE DEF creds
    <3>2. FrameBacked(f, snap')
      BY <1>t DEF FrameBacked, Frame, AfterLoading
    <3> HIDE DEF f
    <3>. QED BY <1>t, <2>0, <3>1, <3>2, MoveBacked
  <2>2. CASE Return(c, "uncredentialed") \/ Return(c, "error")
    BY <1>r, <2>0, <2>2 DEF Results
  <2>. QED BY <1>2, <2>1, <2>2 DEF CollectLoad
<1>3. CASE CollectFetch(c)
  <2>0. fr.pc = "fetch" /\ Len(fr.creds) = FieldCount[p] /\ snap' = snap
    BY <1>t, <1>3 DEF CollectFetch, FrameBacked, db
  <2>1. CASE p \in Live /\ Move(c, [fr EXCEPT !.pc = "replace", !.at = now])
    <3> DEFINE f == [fr EXCEPT !.pc = "replace", !.at = now]
    <3>1. FrameBacked(f, snap')
      BY <1>t, <2>0, <2>1 DEF FrameBacked, Frame
    <3>2. Move(c, f)
      BY <2>1
    <3> HIDE DEF f
    <3>. QED BY <1>t, <2>0, <3>1, <3>2, MoveBacked
  <2>2. CASE p \in Live /\ Return(c, "auth")
    <3> DEFINE f == [fr EXCEPT !.pc = "return", !.at = 0, !.res = "auth"]
    <3>1. FrameBacked(f, snap')
      BY <1>t, <2>0, <2>2 DEF FrameBacked, Frame
    <3>2. Move(c, f)
      BY <2>2 DEF Return
    <3> HIDE DEF f
    <3>. QED BY <1>t, <2>0, <3>1, <3>2, MoveBacked
  <2>3. CASE Return(c, "error") \/ Return(c, "no_fetcher")
    BY <1>r, <2>0, <2>3 DEF Results
  <2>. QED BY <1>3, <2>1, <2>2, <2>3 DEF CollectFetch
<1>4. CASE CollectReplace(c)
  <2>0. /\ fr.pc = "replace" /\ Len(fr.creds) = FieldCount[p] /\ p \in Live /\ p \in Providers
    BY <1>t, <1>4 DEF CollectReplace, FrameBacked
  <2>1. CASE /\ snap' = [snap EXCEPT ![p] = [collectedAt |-> fr.at, lastError |-> None]]
             /\ Return(c, "ok")
    <3> DEFINE f == [fr EXCEPT !.pc = "return", !.at = 0, !.res = "ok"]
               row == [collectedAt |-> fr.at, lastError |-> None]
    <3>1. row # None
      BY <1>t, CollectionAssumption DEF Frame, Snapshot
    <3>2. snap' = [snap EXCEPT ![p] = row]
      BY <2>1
    <3>3. Move(c, f)
      BY <2>1 DEF Return
    <3> HIDE DEF row
    <3>4. snap'[p] # None /\ \A q \in Providers : snap[q] # None => snap'[q] # None
      BY <2>0, <3>1, <3>2 DEF TypeOK, StoreTypeOK
    <3>5. FrameBacked(f, snap')
      BY <1>t, <2>0, <3>4 DEF FrameBacked, Frame
    <3> HIDE DEF f
    <3>. QED BY <1>t, <3>3, <3>4, <3>5, MoveBacked
  <2>2. CASE Return(c, "error") /\ UNCHANGED snap
    BY <1>r, <2>2 DEF Results
  <2>. QED BY <1>4, <2>1, <2>2 DEF CollectReplace
<1>. QED BY <1>1, <1>2, <1>3, <1>4 DEF CollectStep

(* A count goes up only for a rejection of complete credentials by the     *)
(* provider's upstream, and back only for a stored collection, a PUT that  *)
(* stored every field, or the end of the process: for any registry and any *)
(* number of requests.                                                     *)
THEOREM EntriesHaveReasons == Spec => EntryHasItsReason
<1> DEFINE Up(p)   == entries'[p].failures > entries[p].failures
           Back(p) == entries'[p].failures < entries[p].failures
           Reason(p) ==
             /\ Up(p) => Answered(p, "auth")
             /\ Back(p) => \/ Answered(p, "ok") /\ snap[p] # None
                           \/ \E w \in Writers :
                                put[w].prov = p /\ put[w].left = {} /\ put'[w] = IdlePut
                           \/ \E k \in Keys : Restart(k)
<1>1. Init => Backed
  BY DEF Init, Backed, FrameBacked, IdleFrame
<1>2. TypeOK /\ Backed /\ [Next]_vars => Backed'
  <2> SUFFICES ASSUME TypeOK, Backed, [Next]_vars PROVE Backed'
    OBVIOUS
  <2>1. ASSUME NEW c \in Collectors, CollectStep(c) PROVE Backed'
    BY <2>1, CollectBacked
  <2>2. ASSUME \A d \in Collectors : ~CollectStep(d) PROVE Backed'
    <3>1. ASSUME NEW c \in Collectors PROVE FrameBacked(collect'[c], snap')
      <4>1. /\ collect'[c] = collect[c] \/ collect'[c].pc \in {"idle", "get"}
            /\ snap' = snap
        BY <2>2, OnlyCollectMovesOn
      <4>. QED BY <4>1 DEF Backed, FrameBacked
    <3>. QED BY <3>1 DEF Backed
  <2>. QED BY <2>1, <2>2
<1>3. TypeOK /\ Backed /\ [Next]_vars => \A p \in Providers : Reason(p)
  <2> SUFFICES ASSUME TypeOK, Backed, [Next]_vars, NEW p \in Providers PROVE Reason(p)
    OBVIOUS
  <2>0. /\ Sched \in Collectors /\ entries[p].failures \in Nat
        /\ entries' = entries => ~Up(p) /\ ~Back(p)
    BY DEF Collectors, TypeOK, MemoryTypeOK, Cooldown!Entry
  <2>1. CASE SchedReturn
    <3> DEFINE q == collect[Sched].prov
    <3>1. /\ collect[Sched].pc = "return" /\ q \in Providers /\ Idle(Sched)'
          /\ FrameBacked(collect[Sched], snap)
      BY <2>0, <2>1 DEF SchedReturn, Move, Idle, IdleFrame, Backed,
                        TypeOK, CollectTypeOK, FrameOK
    <3>2. CASE collect[Sched].res = "auth" /\ Cooldown!RecordFailure(q)
      <4>1. ~Back(p) /\ (p # q => ~Up(p))
        <5> DEFINE u == now + Cooldown!Backoff(PollInterval, entries[q].failures + 1)
        <5>1. entries' = [entries EXCEPT ![q] = [failures |-> entries[q].failures + 1, until |-> u]]
          BY <3>2 DEF Cooldown!RecordFailure
        <5> HIDE DEF u
        <5>. QED BY <2>0, <3>1, <5>1 DEF TypeOK, MemoryTypeOK
      <4>. QED BY <3>1, <3>2, <4>1 DEF Answered, FrameBacked
    <3>3. CASE collect[Sched].res = "ok" /\ Cooldown!Clear(q)
      <4>1. ~Up(p) /\ (p # q => ~Back(p))
        BY <2>0, <3>1, <3>3 DEF Cooldown!Clear, Cooldown!NoEntry, TypeOK, MemoryTypeOK
      <4>. QED BY <3>1, <3>3, <4>1 DEF Answered, FrameBacked
    <3>. QED BY <2>0, <2>1, <3>2, <3>3 DEF SchedReturn
  <2>2. ASSUME NEW w \in Writers, PutDone(w) PROVE Reason(p)
    <3>1. /\ ~Up(p) /\ (p # put[w].prov => ~Back(p))
          /\ put[w].left = {} /\ put'[w] = IdlePut
      BY <2>0, <2>2 DEF PutDone, Cooldown!Clear, Cooldown!NoEntry,
                        TypeOK, MemoryTypeOK, PutTypeOK
    <3>. QED BY <3>1
  <2>3. ASSUME NEW k \in Keys, Restart(k) PROVE Reason(p)
    <3>1. ~Up(p)
      BY <2>0, <2>3 DEF Restart, Cooldown!NoEntry
    <3>. QED BY <2>3, <3>1
  <2>4. ASSUME NEW c \in Collectors, CollectStep(c) PROVE Reason(p)
    BY <2>0, <2>4, CollectStepEffect
  <2>5. ASSUME TickStart \/ \E i \in todo : SchedSkip(i) \/ SchedAttempt(i) PROVE Reason(p)
    BY <2>0, <2>5 DEF TickStart, SchedSkip, SchedAttempt
  <2>6. ASSUME NEW c \in Refreshers,
               RefreshReturn(c) \/ \E q \in Providers : RefreshStart(c, q)
        PROVE  Reason(p)
    BY <2>0, <2>6 DEF RefreshReturn, RefreshStart
  <2>7. ASSUME NEW w \in Writers,
               \/ PutField(w) \/ PutFail(w)
               \/ \E q \in Providers, v \in Values : PutStart(w, q, v)
        PROVE  Reason(p)
    BY <2>0, <2>7 DEF PutField, PutFail, PutStart
  <2>8. ASSUME NEW q \in Providers,
               DeleteCredentials(q) \/ SetEnabled(q, TRUE) \/ SetEnabled(q, FALSE)
        PROVE  Reason(p)
    BY <2>0, <2>8 DEF DeleteCredentials, SetEnabled
  <2>9. CASE AdvanceClock \/ UNCHANGED vars
    BY <2>0, <2>9 DEF AdvanceClock, vars
  <2>. QED BY <2>1, <2>2, <2>3, <2>4, <2>5, <2>6, <2>7, <2>8, <2>9
           DEF Next, SchedStep, PutStep
<1>. QED BY <1>1, <1>2, <1>3, TypeCorrect, PTL DEF Spec, EntryHasItsReason
=============================================================================
