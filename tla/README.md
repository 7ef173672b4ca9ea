# Verification of ai-usage-dashboard

TLA+ models of the `aud` service, the TLC configurations that check them on
small instances, and proofs checked by TLAPS. Paths below are relative to the
repository root (`internal/...`, `cmd/...`).

The program polls AI providers for usage figures. One goroutine ticks and
collects every enabled provider in turn; HTTP handlers enable and disable
providers, store and delete their credentials, and can trigger a collection at
once; all of them share one SQLite store and one in-memory registry that backs
off providers whose credentials are rejected. There is no lock above the
statement level, so most of what can go wrong is in the interleaving.

## Inventory

| Component | State | Operations | Interacts with |
|---|---|---|---|
| Auth cooldown registry (`internal/scheduler/scheduler.go`) | map provider → (failures, until), mutex | `active`, `recordFailure`, `Clear` | scheduler (gate, result), credential service (clear) |
| Scheduler (`internal/scheduler/scheduler.go`) | ticker, position in the running tick | `Run`, `tick`, `collectOne` | provider service, collector, registry |
| Collector (`internal/scheduler/collector.go`) | none; one call frame per caller | `Collect`, `loadCredentials` | provider, credential and snapshot stores, fetchers; called by the scheduler and by refresh requests |
| Credential service (`internal/credential`) | rows of `credentials`, the master key | `SetValues`, `Delete`, `Presence`, `Reveal` | store, secret, registry |
| Provider service (`internal/provider/provider.go`) | rows of `providers`, compiled-in registry | `List`, `Get`, `SetEnabled`, `Reconcile` | store |
| Fetcher registry (`internal/provider/fetcher.go`) | map id → Fetcher, filled at boot | `RegisterFetcher`, `HasFetcher`, `FetchUsage` | plugins |
| Store (`internal/store`, `internal/store/sqlite`) | three tables, one connection | one SQL statement per method | everything above |
| Secret (`internal/secret`) | none | `Seal`, `Open`, `AAD` | credential service |
| Minimax plugin (`internal/plugins/minimax`) | none | `FetchUsage`, `toMetric`, `isAuthError` | the upstream |
| HTTP API (`internal/api`) | none beyond the request | refresh, credentials, enable, disable, reads, middleware | services above |
| Lifecycle (`cmd/aud/main.go`) | configuration, contexts, goroutines, exit status | `bootstrap`, `run`, `loadConfig` | everything |

The rest (generated types, OpenAPI lint, docs pages, mux, test doubles,
migrations) keeps no state of its own; `PROJECT.json` lists each with the reason
it is left out.

What is hard, and what each component has to get right:

* **Registry.** The window is a machine shift with three guards. It must double
  from the poll interval, saturate at the cap, and never end later than the cap
  from now, whatever overflowed.
* **Scheduler and collector.** The gate is read once and the result recorded
  much later; the tick walks a list made at its start; `Collect` is a sequence of
  single statements that a PUT, a DELETE, a disable or another `Collect` may cut
  at any point; the timeout may end it at any point too. An attempt must never
  run under a cooldown, a disabled or credential-less provider must stay quiet,
  no provider may be starved.
* **Credential service.** A PUT is one statement per field. Its failure or
  another PUT leaves a mixture.
* **Provider service.** `Reconcile` inserts the missing rows one statement at a time
  and may be cut short; the next boot may be another build with another registry.
  The operator's choices must survive that, and a service that runs must be
  complete.
* **HTTP API.** Handlers decide on a state they read statements ago, share one
  connection with everybody else, may fail or panic at any statement and may hang at
  an upstream. The store's one "not found" means three things. A status must be true
  of the history, every request must end and be logged once with the status it got,
  and nobody may keep the connection.
* **Secret and Minimax.** What is bound to a blob is joined from names; rows may be
  copied, damaged or sealed under an older key. An answer may be of any status, broken
  off, not JSON, or carry arbitrary 64-bit numbers. Only the right key may be sent, a
  refusal must be classified as one, and a metric must add up.
* **Lifecycle.** A signal, a listener error, running requests and a tick in
  progress meet in `run`; the deferred calls must stop the poll goroutine before
  the store closes, on every path, and the process must end.

## Modules

| Module | Models | Built on |
|---|---|---|
| `AuthCooldown` | the registry: one action per use the program makes of it | |
| `BackoffPromise` | what the registry's comment promises: windows double and saturate | |
| `MCAuthCooldown` | checks that the intervals of the run meet the hypothesis of the promise | `AuthCooldown` |
| `AuthCooldown_proofs` | theorems about `AuthCooldown` | `AuthCooldown` |
| `Collection` | scheduler, collector, credential service, provider service and store together, with restarts | `INSTANCE AuthCooldown` |
| `MCCollection` | registries and field counts for TLC | `Collection` |
| `Collection_proofs` | theorems about `Collection` | `Collection` |
| `PollLoop` | the poll goroutine's timing and liveness | `INSTANCE AuthCooldown` |
| `PollLoop_proofs` | theorems about `PollLoop` | `PollLoop` |
| `AccessLog` | what the middleware promises of every request | |
| `HttpApi` | the middleware, every handler and the store's one connection | `INSTANCE AccessLog` |
| `MCHttpApi` | a provider with two fields for TLC | `HttpApi` |
| `HttpApi_proofs` | theorems about `HttpApi` | `HttpApi` |
| `Secret` | `AAD`, `Seal`, `Open` over an ideal cipher | |
| `Minimax` | `FetchUsage` of the Minimax plugin as a function of the answer | |
| `UsagePath` | a credential's way to the upstream and an answer's way to the dashboard | `Secret`, `Minimax` |
| `MCUsagePath` | places, answers and four-bit words for TLC | `UsagePath` |
| `UsagePath_proofs` | theorems about `UsagePath` | `UsagePath` |
| `Lifecycle` | `bootstrap` and `run` | |
| `Lifecycle_proofs` | theorems about `Lifecycle` | `Lifecycle` |
| `ProviderCatalog` | `Reconcile`, `RegisterFetcher` and `SetEnabled` through boots of several builds | |
| `MCProviderCatalog` | four builds for TLC | `ProviderCatalog` |
| `ProviderCatalog_proofs` | theorems about `ProviderCatalog` | `ProviderCatalog` |

### AuthCooldown

`entries` is the registry's map; a missing key reads as the zero value in Go, so
an absent entry is `NoEntry`. `Shifted` is `base << (failures-1)` in two's
complement of `Width` bits; `Backoff` adds the code's three guards (count, sign,
cap). `Pow2` is a recursive function, so that it can be reasoned about. `Active`, `RecordFailure` and `Clear` are the methods, atomic because of the
mutex. The actions are their only callers: `AuthFailure` and `AttemptSucceeds`
(the scheduler, behind the gate), `CredentialSet`, and `Reboot`. That these are
really the only ways the program uses the registry is not assumed: `Collection`
shows it (`CooldownProtocol`).

`DoublesUpToCap` is a refinement: the window of each provider is computed from
its failure count and mapped onto `BackoffPromise`, which knows nothing of
shifts or counts. It holds of poll intervals that are `Faithful`: no shift within the
limit wraps to a positive duration under the cap, and the limit is not reached before
the cap is. In the program every whole number of seconds up to 13 hours is.

### Collection

One step per SQL statement and per upstream call. `collect[c]` is the frame of
one call of `Collect`, for the poll goroutine (`Sched`) and for each refresh
request; `put[w]` the frame of one call of `SetValues`; `todo` the rest of the
list `tick` walks. `enabled`, `cred` and `snap` are the three tables.

| Action | Code |
|---|---|
| `TickStart`, `SchedSkip`, `SchedAttempt`, `SchedReturn` | `tick`, `collectOne` |
| `CollectGet`, `CollectLoad`, `CollectFetch`, `CollectReplace` | `Collect`, in order |
| `RefreshStart`, `RefreshReturn` | `POST /providers/{id}/refresh` |
| `PutStart`, `PutField`, `PutFail`, `PutDone` | `PUT .../credentials`: validation, then `SetValues` field by field, in map order |
| `DeleteCredentials`, `SetEnabled` | `DELETE .../credentials`, enable, disable |
| `Restart` | the process dies anywhere and boots again, maybe under another key |
| `AdvanceClock` | time |

Every statement may also fail (disk, expired or cancelled context): that is the
`Return(c, "error")` of each `Collect` step, `PutFail`, and a tick that never
starts. `Collection` leaves out time limits: a tick may start whenever the
poll goroutine is idle and a fetch may last any time, which allows more
behaviours than the program has. Abstractions: a PUT body is one value for all
its fields (the account it belongs to), so a mixture is visible as two values;
usage metrics are dropped; a frame's result is one of six kinds of error.

### PollLoop

The same goroutine with time: `toFire` and `fired` are `time.Ticker` (one tick
buffered, the rest dropped), `left` the `context.WithTimeout` of the attempt,
`until` the rest of a cooldown. All clocks count down, so the model is finite
without a bound on time. Time passes only while the goroutine waits for the ticker
or an upstream; the statements between take none, so a slow store is outside this
model. A refresh touches none of this state.

| Action | Code |
|---|---|
| `TickStart`, `TickFails` | `tick`: its `List` succeeds, or fails and the tick is over without a visit |
| `Skip`, `Attempt` | `collectOne` up to the call of `Collect` |
| `Answer`, `Timeout` | `Collect` returns in time, or its context ends |
| `SetEnabled`, `CredentialSet` | enable, disable; a PUT clears the entry |
| `Elapse` | one unit of time, while the goroutine waits |

`due` is a history variable: the time left until an enabled provider must have been
attempted. It starts at `RetryBound` with every attempt and runs down, and a failing
`List` puts a poll interval back for each provider out of cooldown, because that is
what it costs. A provider in cooldown gets nothing back: it would not have been
attempted.

### HttpApi and AccessLog

`frame[r]` is the call stack of a request: the route, the provider, whether it waits
for the connection, holds it, is at an upstream, is about to answer or to log; what
the handler decided, what the client got, what the recorder remembers. `conn` is
the one connection of `SetMaxOpenConns(1)`; `enabled`, `cred` and `snap` are the
tables, `fetchers` the runtime registry, fixed at boot.

| Action | Code |
|---|---|
| `Receive` | routing, wrong methods, refused bodies, ids the registry does not know |
| `Acquire`, `Done`, `Fail` | a statement gets the connection, ends, or fails; a context that ends, a failing upstream |
| `Show`, `Flag` | the listing, one provider; enable and disable |
| `RowExists`, `GetPresence`, `DeleteCredentials`, `GetUsage` | `GET`/`DELETE .../credentials`, `GET .../usage`, two statements each |
| `Validate`, `Upsert` | `PUT .../credentials`: the comparison of names, then one statement per field in any order |
| `CollectRow`, `CollectSecret`, `Upstream`, `CollectReplace` | `POST .../refresh`: `Collect` and `writeRefreshError` |
| `Panic`, `Respond`, `Log` | `withRecovery`, `writeJSON` through the recorder, `withLogging` |

`excuse` and `alone` are history variables: whether the provider of a refresh could
not be fetched at some time since it came in, and whether any other write of the same
credentials overlapped a PUT. The poll goroutine appears as a refresh: it
runs the same statements. A panic comes before the answer, since no handler does
anything after it. Rows of `providers` exist throughout (`ProviderCatalog` shows
`ServingIsComplete`), so the store's own "not found" for a provider does not occur.

`AccessLog` is the abstract surface: a request opens, gets one status, is logged
once with it. `OneAnswerOneLine` is the refinement.

### Secret, Minimax and UsagePath

`Secret` has strings as sequences of bytes, because all it promises rests on how
names are joined; the cipher is ideal. `Minimax` is the plugin as operators: the
order in which it looks at an answer (`Rejected`, `Accepted`, `Verdict`) and the
arithmetic of a window in `-Half .. Half-1`, with `Wrap` for its one subtraction. An
assumption of `MCUsagePath` compares `Wrap` with subtraction modulo the word for all
pairs of words.

`UsagePath` puts them together: `SetValue` seals, `Load` opens, `Fetch` sends and
judges the answer, `Replace` stores the mapped windows, with replacement, deletion,
restarts under another key (`Restart`) and changes of the database file from outside
(`Misplace`, `Damage`) in between. A plaintext stands for the place it was submitted
for and the master key of that time, so a value that went astray, or was opened with the
wrong key, is visible. Answers come from the constant
`Answers`; time is what resets are compared with.

### Lifecycle

`main` is the program counter of `run`; the goroutine of `ListenAndServe`, the
request handlers, the poll goroutine and the signals interleave with it. The
select takes any ready case. `Shutdown` returns nil when no request is in flight
or an error when its deadline passes first, which may happen at any time while
one is. `exit` is the status once the process has ended. The four stages of the
poll goroutine (idle, list, visit, collect) are there because each may find the
context done.

### ProviderCatalog

`rows` is the `providers` table with the `enabled` column, `build` the compiled-in
registry and the Fetchers `main` registers, `have` the set `Reconcile` built from its
one `List`, `next` the position of its loop (then of the registrations), `live` the
runtime registry. `chosen` is a history variable: what the operator last asked for.

| Action | Code |
|---|---|
| `Boot` | `NewService` in `run`, by any build |
| `ListRows`, `SkipRow`, `CreateRow`, `Reconciled` | `Reconcile`: the list, an entry with a row, an entry without one, the end |
| `RegisterFetcher` | `RegisterFetcher`, whose two panics end the boot |
| `Serve` | the scheduler and the listener start |
| `SetEnabled` | one UPDATE, refused for an unknown id or a missing row |
| `Die` | a statement fails, the process is stopped or dies, anywhere |

Two processes on one database at the same time are not modelled.

## Runs

Passing runs:

| Run | Bounds | Shows |
|---|---|---|
| `cooldown` | 2 providers; poll intervals 1, 2, 256; cap 3; 12 bits, shift limit 5; time to 18 | `TypeOK`; `CooldownBounded`: no cooldown outlasts the cap; `DoublesUpToCap`: the registry implements the promise |
| `collection_race` | 1 provider, 2 fields, 2 master keys; refresh, PUT; cap 2; time to 3 | `TypeOK`; `CooldownProtocol`: the system uses the registry as `AuthCooldown` assumes; `EntryHasItsReason`: a count goes up only for an upstream's rejection of complete credentials, and back only for a stored collection, a PUT that stored every field, or the end of the process; `DeletedStaysQuiet`: after a DELETE no upstream call starts, even for a read half-way |
| `collection_tick` | 2 providers, the second without fields and without a Fetcher; refresh, PUT; cap 2; time to 2 | `GateRespected`: no attempt of the poll goroutine under a cooldown; `DisabledStaysQuiet` |
| `poll_loop` | 3 providers; poll = timeout = 1, cap 3 | `TypeOK`; `RetriedWithinBound`: attempts at least every cap + poll + 2(N-1) timeouts, and a poll interval more for each tick whose `List` failed while the provider was out of cooldown; `AttemptedForEver`, if the `List` succeeds again and again |
| `lifecycle` | 2 requests, 2 signals | `TypeOK`; `SchedulerStoreOpen`; `CleanExitDrained`; `NoCallWhileJoining`: while `run` waits for the poll goroutine it begins no upstream call; `StopsEventually` |
| `provider_catalog` | 3 providers; 4 builds; 4 failures or crashes | `TypeOK`; `ChoiceKept`: a row says enabled exactly when the operator last enabled it; `ServingIsComplete`; `OnlyFaultsEndBoot`: a boot of a well-formed build never trips over a row or a Fetcher; `BootServes`: what interrupted boots left never makes a boot of a well-formed build fail |
| `http_api` | 2 requests, an unknown id, 1 provider with 2 fields, with and without its Fetcher | `TypeOK`: only declared fields are ever stored; `NotFoundMeansUnknown`: 404 is for unknown ids and paths only; `ConflictIsReal`: a 409 was true while the refresh ran; `QuietPutIsWhole`: 204 means all fields are stored; `ConnectionIsHeld`: by a running statement or by nobody; `OneAnswerOneLine`; `EveryRequestEnds`: nobody waits for ever for the connection |
| `usage_path` | 2 places whose names join alike, 2 master keys, 4-bit words, 40 answers, time to 1 | `TypeOK`: no stored count is negative; `KeyReachesItsOwner`: only the value submitted for the live provider's field, under the running master key, is sent; `RefusalIsAuth`; `ShownAddsUp` |

Why the bounds are enough. In `cooldown` the failure count passes the shift limit
and the intervals cover doubling into the cap and overflowing, to a negative number
at the fourth failure and to zero at the fifth. In `collection_*` each run lets every actor overlap every
other one at every statement, which takes one call per actor; two fields make a
read or a write of the credentials divisible, two providers make the list of a
tick go stale, and both together with a long clock are too many states. The
live provider of the program has one field; the two-field run uses the shape the
tests use. In `poll_loop` a fetch is as long as
the poll interval, so a tick of three overruns it twice and fires are dropped, each
provider has others before and after it; `List` may fail at any tick, and `due` is
held at -1, one beyond the bound. In `http_api` two requests suffice for every property: each
relates one request to the writes, or the held connection, of one other; two
fields make a PUT and a read of credentials divisible. In `usage_path` the
answers have every class of status and code, whole and broken, and windows that are
consistent, overdrawn, half disclosed, blank, and wrapping in either direction; two
places are a row and the one it may be confused with. In `lifecycle` one signal and one request would
do; the second of each makes repeated signals and a partial drain possible. In
`provider_catalog` the builds add a provider, drop two, list them in another order
and register a Fetcher their registry lacks; four faults cut four boots or services
short, one more than there are providers to insert.

`CHECK_DEADLOCK FALSE` appears in the `Lifecycle` configurations only: there the
process ends.

Each property has a mutant in `PROJECT.json`: a plausible bug of one action (a
dropped guard, a forgotten call, a shift off by one) under which the run fails.

### Disagreements between the code and its documents

Each is a run of its own that TLC refutes.

| Run | Text | What the code does |
|---|---|---|
| `collection_stale` | a credential set lets "the scheduler's next tick" retry "immediately" (`credential.go:45`) | the late failure of an attempt with the old key puts the provider back |
| `collection_order` | "GetSnapshot returns the latest snapshot" (`store.go:97`) | an overtaken attempt writes an older one over it |
| `collection_torn` | PUT replaces every value (`README.md:183`) | two PUTs for a provider with two fields leave a mixture after each stored every field, so that only 204 is left to answer. Latent: the providers of the shipped registry (`provider.go:48`) have one field each |
| `lifecycle_bad_config` | "fails fast before the HTTP server starts" (`README.md:43`) | a poll interval of zero or less passes, and panics later |

Smaller ones, read off the code while modelling and not kept as runs:

* `lastError` is "Error message from the most recent failed collection attempt"
  (`api/openapi.yaml:329`). Nothing ever writes one: a failing `FetchUsage` returns
  (`collector.go:71`), and `Replace` stores NULL.
* `fetchTimeout` "bounds a single provider's FetchUsage call within one scheduler tick
  or on-demand refresh" (`main.go:37`). A refresh passes the request's context, which
  has no deadline (`refresh_handler.go:29`), and `http.DefaultClient` has none either.
* A reset that has passed is cleared "so the dashboard doesn't surface a stale" one
  (`minimax.go:253`). It is compared once, when fetched; a snapshot served later shows
  it all the same.
* A window without `remains` is shown as fully used, one without `limit` as unused
  (`minimax.go:203`), rather than as unknown. A negative `limit` less a large `remains`
  wraps to a positive count; of such windows `ShownAddsUp` only says that what is
  shown is a count of the range.
* HTTP 401 and 403 are wrapped in `ErrAuth` (`minimax.go:96`), unless the body breaks off:
  it is read before the status is looked at (`minimax.go:121`).
* PUT accepts an empty string and reports the field as configured; the plugin then
  refuses it as missing at every tick (`minimax.go:101`).

* `base << (failures-1)` may lose its high bits and come out small and positive. With
  64 bits the interval 2^33+1 ns waits two seconds, not an hour, after its 32nd
  failure. Such intervals are not `Faithful`; `MCAuthCooldown` checks that those of
  `cooldown` are, `DefaultsImplementPromise` proves it of the default of five minutes.
  At the other end, an interval below 839 ns is short of an hour when the
  shift limit makes its window jump there.
* "any successful collect" removes a provider's entry from the registry
  (`scheduler.go:24`). A successful refresh is one, and leaves it: `RefreshUsage` never
  calls the registry (`refresh_adapter.go:19`, `RefreshReturn`).
* `maxAuthCooldown` bounds the window, not the time between two attempts
  (`main.go:41`, "at least this often"): the next tick may be a poll interval later.
  `RetryBound` is what holds, while no tick's `List` fails.
* A request that outlives `Shutdown`'s ten seconds makes the process exit 1
  (`README.md:139` says it "then exits 0").
* A second signal during `Shutdown` is swallowed, since `signal.NotifyContext` stays
  registered until `run` has returned (`README.md:141` calls it a hard kill).

## Fairness

* `PollLoop`: `WF_vars(SchedStep)` and `WF_vars(Elapse)`. The Go runtime schedules a
  runnable goroutine and the clock advances; the deadline of `context.WithTimeout`
  is a step of the goroutine (`Timeout`). Nothing is assumed of upstreams (`Answer` is
  not fair) or of clients. Whether a tick lists the providers or fails is the store's
  choice, and fairness of `SchedStep` is content with either; so `AttemptedForEver`
  states its assumption itself: `[]<><<TickStart>>_vars`, the `List` does not fail for ever.
* `Lifecycle`: weak fairness of the main goroutine, of the start of the listener
  and of the poll goroutine's own steps, `Shutdown`'s deadline included. Strong
  fairness of `SchedStop`: the select of `Run` chooses at random between ready
  cases and the ticker is ready once per interval only, so a done context is
  noticed after finitely many ticks. No handler is assumed to end.
* `HttpApi`: weak fairness of each handler's own statements (`Work`) and strong fairness
  of `Acquire`, as the connection comes and goes: `database/sql` hands a freed connection
  to a waiting request. Both are about `frame`, since the log line of the last step may
  change without progress. No client calls, no upstream answers, nothing fails, and no
  context is assumed ever to end.
* `ProviderCatalog`: weak fairness of the steps of a boot, which is one goroutine.
  Nobody has to boot the program, enable anything or stop failing.
* `AuthCooldown`, `Collection` and `UsagePath` state safety only and assume no fairness.

## Proofs

Checked by TLAPS for every value of the constants that satisfies the modules'
named assumptions (`CooldownAssumption`: positive interval, cap, width and shift
limit; `CollectionAssumption`: field counts are naturals, the markers are not
values, the caller names differ; `CatalogAssumption`: a build's registry names no id
twice; `PollLoopAssumption`: positive durations and bounds; `HttpAssumption`: the
markers are not values; `NameAssumption`: provider ids, which are constants of the
build, contain no NUL; `PathAssumption`, `AnswerAssumption`, `HalfAssumption` and
`NilAssumption`: the markers are not values, and answers have their Go types).

`AuthCooldown_proofs`

* `BackoffBounded`: `Backoff(b, n) \in 1..MaxCooldown` for every base and count. It
  needs nothing about `Shifted`: the guards alone give it, which is why an overflow
  cannot break it.
* `TypeCorrect` and `CooldownIsBounded`: `TypeOK` is inductive, and
  `TypeOK /\ CooldownBounded` is.
* `ImplementsPromise`: every step maps to one of `BackoffPromise`, provided the poll
  intervals are `Faithful`. The heart is `BackoffSaturates`:
  guards and overflow included, the window is base times the power of two, saturated at
  the cap; so the next one is the doubled one, saturated (`BackoffDoubles`). This needs the
  powers of two, and those an induction: the library's induction theorems take an
  operator and cannot be used here, so `SetInduction` states induction for a set of
  numbers (from the least-element fact of `WellFoundedInduction`), `Pow2Equation` gives
  the existence of the recursive function, and the rest follows.
* `DefaultsImplementPromise`: the hypothesis holds of the numbers of `main.go` (five
  minutes, one hour, 64 bits, limit 32), although the shift overflows from the 26th failure
  on. The first 25 shifts lose no bit; the other seven are computed as remainders
  modulo 2^64, each negative or above the cap.

`Collection_proofs`

* `TypeCorrect`. The frames carry more than their types (`FrameOK`, `PutOK`): a call
  in use has a provider, and while loading it has a declared field left to read.
  Without that, `cred[<<p, f>>]` could be applied outside its domain.
* `GateIsRespected`. `TypeOK /\ GateRespected` is inductive: only `SchedReturn`
  extends a window, and it ends the attempt; `SchedAttempt` begins one and has just
  read the gate; PUTs and restarts only shorten windows; the clock only moves away
  from them.
* `ImplementsCooldown`. Step simulation from the same invariant: `SchedReturn` is
  `AuthFailure`, `AttemptSucceeds` or a stutter, and its guard `~Active` is exactly
  `GateRespected`; `PutDone` is `CredentialSet`; `Restart` is `Reboot`; `AdvanceClock` is
  `Pass`; all else stutters.
* `CooldownsStayBounded` and `BacksOffAsPromised` carry what is known of the registry to
  the composed system: `ImplementsCooldown` gives the registry's specification, and
  `AuthCooldown_proofs`, instantiated as `Registered`, its consequences. So windows double
  and saturate through every race of ticks, refreshes, PUTs and restarts. These two say
  nothing of *which* attempts count; that is what `collection_stale` refutes.
* `DisabledIsQuiet`, `DeletedIsQuiet`: the action properties, one step per action,
  from `TypeOK`.
* `EntriesHaveReasons`. When `SchedReturn` records a result the upstream call is long
  over; `Backed` carries from statement to statement what a frame has behind it: every
  declared field read, a Fetcher, and for a success the stored snapshot.

`Lifecycle_proofs`

* `SchedulerOutlived`. `SchedulerStoreOpen` alone says nothing about `main`, so
  closing the store or starting the goroutine could break it; `Staged` adds what the
  order of `run` guarantees: no goroutine before `StartScheduler`, the store open
  until `CloseStore`, and the goroutine gone by then.
* `CleanExit`. Status 0 is decided long before the exit. `Drained` carries it there: a
  `result` of nil stands for a signal, a called `Shutdown` and no request left, and
  `Shutdown` lets none begin; `ErrServerClosed` (nil to the select) only comes after
  `Shutdown`.
* `JoinIsQuiet`. `wg.Wait` has no deadline, so what bounds it is that nothing new
  starts. `Called` says that the cancellation comes first on every path, `Staged` that
  the goroutine is gone afterwards; then the context check of `tick` does the rest. It is
  the safety half of `StopsEventually`.
* `TypeCorrect`, with `Decided`: on the way out `run` has a result.

`PollLoop_proofs`

* `TypeCorrect`: `TypeOK` for any durations (`BackoffBounded` again), by itself inductive.
* `NobodyForgotten`. `RetriedWithinBound` says nothing of where the tick is. `Cursor`
  names the provider it has come to; `Delay` is the longest time until a provider out
  of cooldown has its turn, in the running tick (`left` and the turns before it) or,
  once passed, in the next one; `OnTime` says that a provider in cooldown has the rest
  of its window, a poll interval and two rounds of the others left, and one out of it has
  `Delay` left. The rest is arithmetic: a turn more costs one `FetchTimeout`
  (`TurnsNext`), the two rounds are the two products of `RetryBound`, and a failing
  `List` lengthens `Delay` by at most the poll interval it puts back (`TickFailsKeeps`).

`HttpApi_proofs`

* `TypeCorrect`, `NotFoundIsHonest`. `Shape` ties the parts of a frame together: what a
  handler for a provider has decided, sent and recorded, where 404 and 409 can come
  from, and that the fields left to store are declared ones.
* `AnswersAreLogged`: step simulation under `Shape`; a handler that panics stays in the
  open phase.
* `ConflictIsTrue`. `Conflicts` keeps the excuse from the decision to the log line;
  `ConflictDecided` is the step: at each of the three places that decide 409 the
  state just read is still there, since the statement is the decision.
* `ConnectionNeverLeaks`. `ConnectionIsHeld` is inductive with the type: each step changes
  the holder and the program counter of one request together (`ConnectionStep`), and
  none of the continuations of a handler is a held connection (`PcFacts`). It is the
  safety half of `EveryRequestEnds`.
* `QuietPutStoresAll`. `Wholes` is the loop invariant of `SetValues`: the declared
  fields not left to store are stored. Only a DELETE takes one away (`OthersStore`),
  and a PUT that a DELETE overlaps is not `alone`.

`UsagePath_proofs`

* `AADSeparates`: the additional data determines its place. The first NUL after the
  domain ends the provider id, so of two ids none can end first (`AADLength`); it does
  not matter what a field name contains.
* `KeyStaysWithItsOwner`. `Sealed` holds of every row wherever it is copied: its value
  was submitted for the place its additional data names, and under the key that sealed
  it. With `AADSeparates` a row
  that opens at the live provider's place was submitted for it.
* `RefusalsAreAuth`, `MetricsAddUp`. `Judged` keeps the verdict with the answer until it
  is stored, so both windows are known not to be blank when `Replace` maps them.
  `MetricAdds` is the arithmetic: a difference of two sensible windows never wraps.
* `WrapIsModular`: of all integers congruent to the true difference modulo the word,
  `Wrap` returns the one that is a word. Two words a whole number of turns apart are
  equal (`WordsApart`).

`ProviderCatalog_proofs`

* `TypeCorrect`: only ids of the running build's registry are ever live.
* `ChoiceIsKept`: rows and `chosen` change together in `SetEnabled`; `Reconcile`
  inserts only where there is no row, and such an id was never chosen.
* `CompleteService`. `BootProgress` is the loop invariant: the ids in `have` are
  persisted, every registry entry before `next` has a row, and every Fetcher before
  `next` is live. `RowsStay` (no step removes a row) keeps the first two.
* `BootNeverTrips`. The converse is needed: `NothingElse` says that a row outside `have`
  is of an entry already visited, and a live Fetcher is one already registered. As
  entries are distinct, `Create` never meets a key that exists and `RegisterFetcher`
  never panics. It is the safety half of `BootServes`.

Every invariant, action property and refinement that a passing run checks is proved.
Model-checked only is liveness (`AttemptedForEver`, `StopsEventually`, `BootServes`,
`EveryRequestEnds`), which needs fairness and ENABLED and is out of the prover's reach; for
each of the four the safety half is proved: `NobodyForgotten` (which even bounds the
wait), `JoinIsQuiet`, `BootNeverTrips`, `ConnectionNeverLeaks`.

What could still be proved: that each step of a boot, and each statement of a request,
brings it nearer to its end (a measure on the position that decreases); that
`PollLoop` gates like `AuthCooldown`; that a 204 to a DELETE nobody overlapped leaves no credential.

## Not modelled

* Generated types, the OpenAPI lint command, the embedded docs pages and the static
  mux keep no state; migrations are SQL run by a library, of which only success or
  failure matters (`Lifecycle`).
* Third-party code: SQLite, goose, `net/http`, `database/sql` and the AES-GCM cipher
  are modelled from their use. Test doubles are not part of the program.
* Data without consequences: the random request id, row timestamps, the wording of
  errors, `toStoreMetrics` and its like, which copy field by field.
* Two processes on one database at a time.
* The context inside a call of `Collect` during shutdown. In `Lifecycle` a call begins
  when it passes the context check of `tick` (`scheduler.go:136`). That a call which
  passed it before the cancellation does not reach the upstream late rests on the
  context derived at `scheduler.go:155`, which every later statement gets.
* Deadlines of the HTTP server. `WriteTimeout` (`main.go:132`) may cut off the answer of
  a slow refresh: the handler runs to its end and is logged with the status it wrote, and
  the client sees a broken connection. In `HttpApi` an answer that is written arrives.
* Calls of `Collect` that had passed the enabled check when their provider was disabled:
  they run to their end, and `DisabledStaysQuiet` speaks of the time after them.
* `Collection` and `HttpApi` overlap in what they say of a refresh and of a PUT, and are
  not composed: the first has the cooldown, restarts and the poll goroutine, the
  second statuses, panics and the connection. Neither needs the other's state for its
  properties, and together they are beyond TLC.
* An abstract service with an atomic PUT, collect and read: `collection_torn`,
  `collection_order` and `collection_stale` are exactly where the program does not
  implement it. `QuietPutIsWhole` is the part that it does.
