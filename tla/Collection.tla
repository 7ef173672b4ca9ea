----------------------------- MODULE Collection -----------------------------
(***************************************************************************)
(* The core of the program: internal/scheduler (tick, collectOne,          *)
(* Collector.Collect), internal/credential.Service, internal/provider.     *)
(* Service and the SQLite store, driven at the same time by the poll       *)
(* goroutine and by HTTP handlers (refresh, PUT and DELETE credentials,    *)
(* enable, disable), with crashes and restarts.                            *)
(*                                                                         *)
(* The store has one connection (sqlite.New), so every SQL statement is    *)
(* one atomic step; nothing holds more than one statement together.  A     *)
(* statement may also fail: an expired or cancelled context, a disk error. *)
(*                                                                         *)
(* Abstractions.  A provider's declared credential fields are numbered in  *)
(* declaration order.  A credential value is a member of Values: the       *)
(* account it belongs to, so one PUT body is one value for all the fields. *)
(* Usage metrics are left out, the time of collection is kept.  The ticker *)
(* and every timeout are in PollLoop; here a tick may begin whenever the   *)
(* poll goroutine is idle and a fetch may last any time.                   *)
(***************************************************************************)
EXTENDS Integers, Sequences

CONSTANTS
    Registry,      \* the provider ids in registry order
    FieldCount,    \* how many credential fields each provider declares
    Live,          \* the providers with a registered Fetcher
    Values,        \* credential values
    Keys,          \* master keys
    None,          \* no row, no provider, no result
    Sched,         \* the poll goroutine, as a caller of Collect
    Refreshers,    \* refresh requests, as callers of Collect
    Writers,       \* PUT credentials requests
    PollInterval, MaxCooldown, Width, ShiftCap, MaxTime

Providers == {Registry[i] : i \in DOMAIN Registry}
Collectors == {Sched} \cup Refreshers

(* lastError is the snapshot's last_error column.                          *)
Snapshot == [collectedAt : Nat, lastError : {None}]

ASSUME CollectionAssumption ==
    /\ Registry \in Seq(Providers)
    /\ FieldCount \in [Providers -> Nat]
    /\ Live \subseteq Providers
    /\ None \notin Values \cup Keys \cup Providers \cup Nat
    /\ None \notin Snapshot
    /\ Sched \notin Refreshers
    /\ PollInterval \in Nat \ {0}
    /\ MaxCooldown \in Nat \ {0}
    /\ Width \in Nat \ {0}
    /\ ShiftCap \in Nat \ {0}
    /\ MaxTime \in Nat

VARIABLES
    enabled,    \* providers.enabled
    cred,       \* credentials rows: cred[<<p, f>>] is a sealed value or None
    snap,       \* usage_snapshots rows: snap[p] or None
    masterKey,  \* the master key of the running process
    entries,    \* the auth-cooldown registry
    now,        \* the clock
    todo,       \* registry positions the running tick has still to visit
    collect,    \* each caller's frame in Collect
    put         \* each PUT request's frame in SetValues

db == <<enabled, cred, snap>>
vars == <<enabled, cred, snap, masterKey, entries, now, todo, collect, put>>

Cooldown == INSTANCE AuthCooldown
              WITH base <- PollInterval, Bases <- {PollInterval}

-----------------------------------------------------------------------------
Fields(p) == 1..FieldCount[p]

(* The primary key of the credentials table.                               *)
Slots == UNION {{p} \X Fields(p) : p \in Providers}

(* A sealed blob opens only with the key that sealed it.  The binding to   *)
(* provider and field (secret.AAD) never fails here, because no operation  *)
(* moves a blob to another row.                                            *)
Blob == [value : Values, key : Keys]

Results == {"ok", "disabled", "uncredentialed", "no_fetcher", "auth", "error"}

(* One call of Collect: the statement it is about to run, the provider,    *)
(* the credential values read so far in field order, the collection time,  *)
(* and the result on the way out.                                          *)
Frame == [pc    : {"idle", "get", "load", "fetch", "replace", "return"},
          prov  : Providers \cup {None},
          creds : Seq(Values),
          at    : Nat,
          res   : Results \cup {None}]

IdleFrame ==
    [pc |-> "idle", prov |-> None, creds |-> << >>, at |-> 0, res |-> None]

(* A frame in use has a provider, starts with nothing read, and while it   *)
(* is loading has a declared field left to read.                           *)
FrameOK(fr) ==
    /\ fr.pc # "idle" => fr.prov \in Providers
    /\ fr.pc = "get" => fr.creds = << >>
    /\ fr.pc = "load" => Len(fr.creds) < FieldCount[fr.prov]

(* One call of SetValues: the fields of the body not yet stored.           *)
PutFrame == [prov  : Providers \cup {None},
             value : Values \cup {None},
             left  : SUBSET Nat]

IdlePut == [prov |-> None, value |-> None, left |-> {}]

PutOK(fr) ==
    fr # IdlePut =>
        fr.prov \in Providers /\ fr.value \in Values /\ fr.left \subseteq Fields(fr.prov)

StoreTypeOK ==
    /\ enabled \in [Providers -> BOOLEAN]
    /\ cred \in [Slots -> Blob \cup {None}]
    /\ snap \in [Providers -> Snapshot \cup {None}]

MemoryTypeOK ==
    /\ masterKey \in Keys
    /\ entries \in [Providers -> Cooldown!Entry]
    /\ now \in Nat
    /\ todo \subseteq DOMAIN Registry

CollectTypeOK ==
    /\ collect \in [Collectors -> Frame]
    /\ \A c \in Collectors : FrameOK(collect[c])

PutTypeOK ==
    /\ put \in [Writers -> PutFrame]
    /\ \A w \in Writers : PutOK(put[w])

TypeOK == StoreTypeOK /\ MemoryTypeOK /\ CollectTypeOK /\ PutTypeOK

(* Reconcile seeds every registry entry disabled; nothing else is stored.  *)
Init ==
    /\ enabled = [p \in Providers |-> FALSE]
    /\ cred = [s \in Slots |-> None]
    /\ snap = [p \in Providers |-> None]
    /\ masterKey \in Keys
    /\ entries = [p \in Providers |-> Cooldown!NoEntry]
    /\ now = 0
    /\ todo = {}
    /\ collect = [c \in Collectors |-> IdleFrame]
    /\ put = [w \in Writers |-> IdlePut]

-----------------------------------------------------------------------------
(* Collector.Collect, called by the poll goroutine and by refresh requests *)

Idle(c) == collect[c].pc = "idle"

Move(c, frame) == collect' = [collect EXCEPT ![c] = frame]

Begin(c, p) ==
    Move(c, [pc |-> "get", prov |-> p, creds |-> << >>, at |-> 0, res |-> None])

Return(c, result) ==
    Move(c, [collect[c] EXCEPT !.pc = "return", !.at = 0, !.res = result])

(* The next step of a frame that has read creds: another field, or the     *)
(* upstream call once every declared field is loaded.                      *)
AfterLoading(p, creds) == IF Len(creds) = FieldCount[p] THEN "fetch" ELSE "load"

(* Plausible bug: Collect trusts the caller's list of enabled providers.   *)
TrustingGet(c) ==
    /\ collect[c].pc = "get"
    /\ Move(c, [collect[c] EXCEPT !.pc = AfterLoading(collect[c].prov, << >>)])
    /\ UNCHANGED <<db, masterKey, entries, now, todo, put>>

(* providers.Get: the row is read, and a disabled provider is refused.     *)
CollectGet(c) ==
    LET p == collect[c].prov
    IN  /\ collect[c].pc = "get"
        /\ \/ /\ enabled[p]
              /\ Move(c, [collect[c] EXCEPT !.pc = AfterLoading(p, << >>)])
           \/ /\ ~enabled[p]
              /\ Return(c, "disabled")
           \/ Return(c, "error")
        /\ UNCHANGED <<db, masterKey, entries, now, todo, put>>

(* Plausible bug: a field without a row counts as an empty value.          *)
LaxLoad(c) ==
    LET p   == collect[c].prov
        n   == Len(collect[c].creds) + 1
        row == cred[<<p, n>>]
    IN  /\ collect[c].pc = "load"
        /\ \E v \in Values :
             LET creds == Append(collect[c].creds, IF row = None THEN v ELSE row.value)
             IN  Move(c, [collect[c] EXCEPT !.creds = creds,
                                            !.pc = AfterLoading(p, creds)])
        /\ UNCHANGED <<db, masterKey, entries, now, todo, put>>

(* loadCredentials, one Reveal per step: read the row and open the blob.   *)
CollectLoad(c) ==
    LET p     == collect[c].prov
        row   == cred[<<p, Len(collect[c].creds) + 1>>]
        creds == Append(collect[c].creds, row.value)
    IN  /\ collect[c].pc = "load"
        /\ \/ /\ row # None
              /\ row.key = masterKey
              /\ Move(c, [collect[c] EXCEPT !.creds = creds,
                                             !.pc = AfterLoading(p, creds)])
           \/ /\ row = None
              /\ Return(c, "uncredentialed")
           \/ Return(c, "error")
        /\ UNCHANGED <<db, masterKey, entries, now, todo, put>>

(* FetchUsage: refused without a Fetcher; otherwise the upstream answers,  *)
(* rejects the credentials, fails, or the context ends.  The collection    *)
(* time is read as soon as an answer is there.                             *)
CollectFetch(c) ==
    LET p == collect[c].prov
    IN  /\ collect[c].pc = "fetch"
        /\ \/ /\ p \in Live
              /\ \/ Move(c, [collect[c] EXCEPT !.pc = "replace", !.at = now])
                 \/ Return(c, "auth")
                 \/ Return(c, "error")
           \/ /\ p \notin Live
              /\ Return(c, "no_fetcher")
        /\ UNCHANGED <<db, masterKey, entries, now, todo, put>>

(* snapshots.Replace: an unconditional upsert of the one row of p, with a  *)
(* NULL last_error.                                                        *)
CollectReplace(c) ==
    LET p == collect[c].prov
    IN  /\ collect[c].pc = "replace"
        /\ \/ /\ snap' = [snap EXCEPT ![p] = [collectedAt |-> collect[c].at,
                                              lastError   |-> None]]
              /\ Return(c, "ok")
           \/ /\ Return(c, "error")
              /\ UNCHANGED snap
        /\ UNCHANGED <<enabled, cred, masterKey, entries, now, todo, put>>

-----------------------------------------------------------------------------
(* Scheduler: one tick of the poll goroutine                               *)

(* tick: one List; the providers enabled in it are visited in registry     *)
(* order.  A failing List ends the tick and changes nothing.               *)
TickStart ==
    /\ Idle(Sched)
    /\ todo = {}
    /\ todo' = {i \in DOMAIN Registry : enabled[Registry[i]]}
    /\ UNCHANGED <<db, masterKey, entries, now, collect, put>>

(* The loop of tick takes the next provider of its list.                   *)
Visit(i) ==
    /\ Idle(Sched)
    /\ i \in todo
    /\ \A j \in todo : i <= j
    /\ todo' = todo \ {i}

(* collectOne on a provider in cooldown: skipped.                          *)
SchedSkip(i) ==
    /\ Visit(i)
    /\ Cooldown!Active(Registry[i])
    /\ UNCHANGED <<db, masterKey, entries, now, collect, put>>

(* Plausible bug: the gate is not consulted.                               *)
UngatedAttempt(i) ==
    /\ Visit(i)
    /\ Begin(Sched, Registry[i])
    /\ UNCHANGED <<db, masterKey, entries, now, put>>

(* collectOne on any other provider calls Collect.                         *)
SchedAttempt(i) ==
    /\ Visit(i)
    /\ ~Cooldown!Active(Registry[i])
    /\ Begin(Sched, Registry[i])
    /\ UNCHANGED <<db, masterKey, entries, now, put>>

(* collectOne after Collect: an authentication failure engages or extends  *)
(* the cooldown, a success clears it, every other error leaves it alone.   *)
SchedReturn ==
    LET p == collect[Sched].prov
        r == collect[Sched].res
    IN  /\ collect[Sched].pc = "return"
        /\ \/ r = "auth" /\ Cooldown!RecordFailure(p)
           \/ r = "ok" /\ Cooldown!Clear(p)
           \/ r \notin {"auth", "ok"} /\ UNCHANGED entries
        /\ Move(Sched, IdleFrame)
        /\ UNCHANGED <<db, masterKey, now, todo, put>>

-----------------------------------------------------------------------------
(* HTTP handlers                                                           *)

(* POST refresh calls Collect directly: no gate, and no word to the        *)
(* registry about the result.                                              *)
RefreshStart(c, p) ==
    /\ Idle(c)
    /\ Begin(c, p)
    /\ UNCHANGED <<db, masterKey, entries, now, todo, put>>

(* Plausible bug: a refresh reports its failure to the registry.           *)
ReportingRefresh(c) ==
    /\ collect[c].pc = "return"
    /\ IF collect[c].res = "auth" THEN Cooldown!RecordFailure(collect[c].prov)
                                  ELSE UNCHANGED entries
    /\ Move(c, IdleFrame)
    /\ UNCHANGED <<db, masterKey, now, todo, put>>

RefreshReturn(c) ==
    /\ collect[c].pc = "return"
    /\ Move(c, IdleFrame)
    /\ UNCHANGED <<db, masterKey, entries, now, todo, put>>

(* Plausible bug: a body with an unknown field is accepted.                *)
UncheckedPut(w, p, v) ==
    /\ put[w] = IdlePut
    /\ put' = [put EXCEPT ![w] = [prov |-> p, value |-> v,
                                  left |-> Fields(p) \cup {FieldCount[p] + 1}]]
    /\ UNCHANGED <<db, masterKey, entries, now, todo, collect>>

(* PUT credentials whose body names exactly the declared fields of p; any  *)
(* other body is refused before the store is touched.                      *)
PutStart(w, p, v) ==
    /\ put[w] = IdlePut
    /\ put' = [put EXCEPT ![w] = [prov |-> p, value |-> v, left |-> Fields(p)]]
    /\ UNCHANGED <<db, masterKey, entries, now, todo, collect>>

(* SetValues walks the body in no particular order; one seal and upsert.   *)
PutField(w) ==
    \E f \in put[w].left :
        /\ cred' = [cred EXCEPT ![<<put[w].prov, f>>] =
                                  [value |-> put[w].value, key |-> masterKey]]
        /\ put' = [put EXCEPT ![w].left = @ \ {f}]
        /\ UNCHANGED <<enabled, snap, masterKey, entries, now, todo, collect>>

(* Plausible bug: the cooldown is cleared on every way out.                *)
ClearingPutFail(w) ==
    /\ put[w].left # {}
    /\ Cooldown!Clear(put[w].prov)
    /\ put' = [put EXCEPT ![w] = IdlePut]
    /\ UNCHANGED <<db, masterKey, now, todo, collect>>

(* A failing statement ends the request; the fields already stored stay.   *)
PutFail(w) ==
    /\ put[w].left # {}
    /\ put' = [put EXCEPT ![w] = IdlePut]
    /\ UNCHANGED <<db, masterKey, entries, now, todo, collect>>

(* Every field is stored: the cooldown of the provider is cleared.         *)
PutDone(w) ==
    /\ put[w] # IdlePut
    /\ put[w].left = {}
    /\ Cooldown!Clear(put[w].prov)
    /\ put' = [put EXCEPT ![w] = IdlePut]
    /\ UNCHANGED <<db, masterKey, now, todo, collect>>

(* DELETE credentials: one statement for all the fields; the cooldown and  *)
(* the snapshot stay.                                                      *)
DeleteCredentials(p) ==
    /\ cred' = [s \in Slots |-> IF s[1] = p THEN None ELSE cred[s]]
    /\ UNCHANGED <<enabled, snap, masterKey, entries, now, todo, collect, put>>

(* POST enable and POST disable.                                           *)
SetEnabled(p, b) ==
    /\ enabled' = [enabled EXCEPT ![p] = b]
    /\ UNCHANGED <<cred, snap, masterKey, entries, now, todo, collect, put>>

-----------------------------------------------------------------------------
(* The process dies at any point and boots again: the database survives    *)
(* and Reconcile finds every row; the registry and all frames are gone.    *)
(* The operator may have configured another master key.                    *)
Restart(k) ==
    /\ masterKey' = k
    /\ entries' = [p \in Providers |-> Cooldown!NoEntry]
    /\ todo' = {}
    /\ collect' = [c \in Collectors |-> IdleFrame]
    /\ put' = [w \in Writers |-> IdlePut]
    /\ UNCHANGED <<db, now>>

(* The clock advances, up to the bound MaxTime.                            *)
AdvanceClock ==
    /\ now < MaxTime
    /\ now' = now + 1
    /\ UNCHANGED <<db, masterKey, entries, todo, collect, put>>

CollectStep(c) ==
    CollectGet(c) \/ CollectLoad(c) \/ CollectFetch(c) \/ CollectReplace(c)

SchedStep ==
    \/ TickStart
    \/ \E i \in todo : SchedSkip(i) \/ SchedAttempt(i)
    \/ SchedReturn

PutStep(w) == PutField(w) \/ PutFail(w) \/ PutDone(w)

Next ==
    \/ \E c \in Collectors : CollectStep(c)
    \/ SchedStep
    \/ \E c \in Refreshers : RefreshReturn(c) \/ \E p \in Providers : RefreshStart(c, p)
    \/ \E w \in Writers :
         PutStep(w) \/ \E p \in Providers, v \in Values : PutStart(w, p, v)
    \/ \E p \in Providers : DeleteCredentials(p) \/ SetEnabled(p, TRUE) \/ SetEnabled(p, FALSE)
    \/ \E k \in Keys : Restart(k)
    \/ AdvanceClock

Spec == Init /\ [][Next]_vars

-----------------------------------------------------------------------------
(* Some call of Collect for p is at one of the given statements.           *)
InFlight(p, pcs) ==
    \E c \in Collectors : collect[c].prov = p /\ collect[c].pc \in pcs

(* The gate is read once, before the attempt, and the lock released: yet   *)
(* no attempt of the poll goroutine ever runs while its provider is in a   *)
(* cooldown, whatever credential updates, refreshes and the clock do in    *)
(* the meantime.                                                           *)
GateRespected ==
    ~Idle(Sched) => ~Cooldown!Active(collect[Sched].prov)

(* The whole system drives the registry as AuthCooldown assumes: failures  *)
(* and successes are recorded only for a provider whose gate is open, only *)
(* by the poll goroutine, one at a time; refresh requests never touch it.  *)
CooldownProtocol == Cooldown!Spec

(* The poll goroutine hands on a result of its call for p that only an     *)
(* upstream can have given: p has a Fetcher, and every declared field was  *)
(* there and opened.                                                       *)
Answered(p, result) ==
    LET fr == collect[Sched]
    IN  /\ fr.pc = "return" /\ fr.prov = p /\ fr.res = result
        /\ p \in Live
        /\ Len(fr.creds) = FieldCount[p]
        /\ Idle(Sched)'

(* An entry counts upstream rejections of the poll goroutine's complete    *)
(* credentials and nothing else: no timeout, failing statement, missing    *)
(* field or refresh counts one.  Nothing but a collection that has stored  *)
(* its snapshot, a PUT that has stored every field, or the end of the      *)
(* process takes a count back: no PUT that failed half-way does.           *)
EntryHasItsReason ==
    [][\A p \in Providers :
         /\ entries'[p].failures > entries[p].failures => Answered(p, "auth")
         /\ entries'[p].failures < entries[p].failures
            => \/ Answered(p, "ok") /\ snap[p] # None
               \/ \E w \in Writers :
                    put[w].prov = p /\ put[w].left = {} /\ put'[w] = IdlePut
               \/ \E k \in Keys : Restart(k)]_vars

(* Once a provider is disabled and the calls of Collect that had passed    *)
(* the enabled check are gone, its credentials are not read, its upstream  *)
(* is not called and its snapshot does not change, although the running    *)
(* tick still holds it in a list made before.                              *)
DisabledStaysQuiet ==
    [][\A p \in Providers :
         ~enabled[p] /\ ~InFlight(p, {"load", "fetch", "replace"})
         => /\ ~InFlight(p, {"load", "fetch", "replace"})'
            /\ snap'[p] = snap[p]]_vars

(* Once the credentials of a provider that needs some are deleted and no   *)
(* upstream call is under way, no call starts and the snapshot stays, also *)
(* when a call of Collect is half-way through reading the fields.          *)
DeletedStaysQuiet ==
    [][\A p \in Providers :
         /\ FieldCount[p] > 0
         /\ \A f \in Fields(p) : cred[<<p, f>>] = None
         /\ ~InFlight(p, {"fetch", "replace"})
         => /\ ~InFlight(p, {"fetch", "replace"})'
            /\ snap'[p] = snap[p]]_vars

-----------------------------------------------------------------------------
(* What documents and comments say and the code does not do.               *)

(* SetValues clears the cooldown "so the scheduler's next tick retries     *)
(* immediately": while the stored values are complete, no PUT is under way *)
(* and they are not the ones an attempt failed with, that attempt's late   *)
(* authentication failure must not put the provider back in cooldown.      *)
StaleFailureNeverGates ==
    [][\A p \in Providers :
         /\ entries'[p].until > entries[p].until
         /\ \A w \in Writers : put[w].prov # p
         /\ \A f \in Fields(p) : cred[<<p, f>>] # None
         => \A f \in Fields(p) : cred[<<p, f>>].value = collect[Sched].creds[f]]_vars

(* "GetSnapshot returns the latest snapshot": a snapshot is replaced only  *)
(* by one collected at the same time or later.                             *)
SnapshotNeverGoesBack ==
    [][\A p \in Providers :
         snap[p] # None => snap'[p].collectedAt >= snap[p].collectedAt]_vars

(* The request of w for p has stored every field of its body: unless the   *)
(* process dies, it is answered 204.                                       *)
Stored(w, p) == put[w].prov = p /\ put[w].left = {}

(* PUT replaces "every credential value for a provider": where each stored *)
(* value comes from a request that has stored all of its fields, they all  *)
(* come from one body.                                                     *)
CredentialsAreWhole ==
    \A p \in Providers :
        (\A f \in Fields(p) :
            /\ cred[<<p, f>>] # None
            /\ \E w \in Writers : Stored(w, p) /\ cred[<<p, f>>].value = put[w].value)
        => \A f, g \in Fields(p) : cred[<<p, f>>].value = cred[<<p, g>>].value
=============================================================================
