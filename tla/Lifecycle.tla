------------------------------ MODULE Lifecycle ------------------------------
(***************************************************************************)
(* cmd/aud: bootstrap and run.  The main goroutine loads the configuration,*)
(* opens the store, reconciles the providers, starts the poll goroutine    *)
(* and the listener, waits for a signal or a listener error, shuts the     *)
(* server down, and runs its deferred calls in LIFO order: cancel the      *)
(* scheduler, wait for it, close the store.  Signals, request handlers and *)
(* the two other goroutines interleave with it at every step.              *)
(*                                                                         *)
(* The ten seconds of httpServer.Shutdown may pass at any time while a     *)
(* handler is in flight; nothing bounds how long a handler takes.          *)
(***************************************************************************)
EXTENDS Naturals

CONSTANTS
    MaxHandlers,  \* bound: requests in flight at the same time
    MaxSignals    \* bound: how many signals are sent

ASSUME LifecycleAssumption == MaxHandlers \in Nat /\ MaxSignals \in Nat

VARIABLES
    config,     \* what the environment holds
    main,       \* where run() is
    result,     \* what run() returns
    signals,    \* SIGINT and SIGTERM received; ctx is done once there is one
    db,         \* the store handle
    server,     \* the listener goroutine
    shutdown,   \* httpServer.Shutdown was called
    serveErr,   \* the one-slot channel of the listener goroutine
    handlers,   \* requests in flight
    sched,      \* the poll goroutine
    cancelled,  \* cancelScheduler was called
    exit        \* the exit status, meaningful once the process has ended

vars == <<config, main, result, signals, db, server, shutdown, serveErr,
          handlers, sched, cancelled, exit>>

None == "none"

(* "nonpositive" is a poll interval that parses but is zero or negative.   *)
Configs == {"good", "bad", "nonpositive"}

TypeOK ==
    /\ config \in Configs
    /\ main \in {"config", "open", "reconcile", "poll", "listen", "wait", "shutdown",
                 "cancel", "join", "close", "return", "exited"}
    /\ result \in {None, "nil", "error"}
    /\ signals \in 0..MaxSignals
    /\ db \in {"closed", "open"}
    /\ server \in {None, "starting", "serving", "down"}
    /\ shutdown \in BOOLEAN
    /\ serveErr \in {None, "nil", "error"}
    /\ handlers \in 0..MaxHandlers
    /\ sched \in {None, "new", "idle", "list", "visit", "collect", "stopped"}
    /\ cancelled \in BOOLEAN
    /\ main = "return" => result # None
    /\ exit \in 0..2

Init ==
    /\ config \in Configs
    /\ main = "config"
    /\ result = None
    /\ signals = 0
    /\ db = "closed"
    /\ server = None
    /\ shutdown = FALSE
    /\ serveErr = None
    /\ handlers = 0
    /\ sched = None
    /\ cancelled = FALSE
    /\ exit = 0

Running == main # "exited"

Stopping == signals > 0

(* The poll goroutine's context is derived from the signal context.        *)
SchedDone == Stopping \/ cancelled

-----------------------------------------------------------------------------
(* The main goroutine                                                      *)

(* loadConfig rejects what does not parse; nothing is open yet.            *)
LoadConfig ==
    /\ main = "config"
    /\ IF config = "bad"
       THEN main' = "exited" /\ result' = "error" /\ exit' = 1
       ELSE main' = "open" /\ UNCHANGED <<result, exit>>
    /\ UNCHANGED <<config, signals, db, server, shutdown, serveErr, handlers, sched, cancelled>>

(* sqlite.New: open, ping, migrate; a failure closes what it opened.       *)
OpenStore ==
    /\ main = "open"
    /\ \/ main' = "reconcile" /\ db' = "open" /\ UNCHANGED <<result, exit>>
       \/ main' = "exited" /\ result' = "error" /\ exit' = 1 /\ UNCHANGED db
    /\ UNCHANGED <<config, signals, server, shutdown, serveErr, handlers, sched, cancelled>>

(* On an error only db.Close is deferred yet.                              *)
Reconcile ==
    /\ main = "reconcile"
    /\ \/ main' = "poll" /\ UNCHANGED result
       \/ main' = "close" /\ result' = "error"
    /\ UNCHANGED <<config, signals, db, server, shutdown, serveErr, handlers, sched,
                   cancelled, exit>>

StartScheduler ==
    /\ main = "poll"
    /\ main' = "listen"
    /\ sched' = "new"
    /\ UNCHANGED <<config, result, signals, db, server, shutdown, serveErr, handlers,
                   cancelled, exit>>

StartServer ==
    /\ main = "listen"
    /\ main' = "wait"
    /\ server' = "starting"
    /\ UNCHANGED <<config, result, signals, db, shutdown, serveErr, handlers, sched,
                   cancelled, exit>>

(* Plausible bug: the select has a default branch.                         *)
ImpatientSelect ==
    /\ main = "wait"
    /\ main' = "cancel"
    /\ result' = serveErr
    /\ UNCHANGED <<config, signals, db, server, shutdown, serveErr, handlers, sched,
                   cancelled, exit>>

(* The select of run: a listener error, or the signal context; either one  *)
(* when both are ready.                                                    *)
Select ==
    /\ main = "wait"
    /\ \/ /\ serveErr # None
          /\ main' = "cancel"
          /\ result' = serveErr
          /\ UNCHANGED shutdown
       \/ /\ Stopping
          /\ main' = "shutdown"
          /\ shutdown' = TRUE
          /\ UNCHANGED result
    /\ UNCHANGED <<config, signals, db, server, serveErr, handlers, sched, cancelled, exit>>

(* Plausible bug: the error of Shutdown is not returned.                   *)
CarelessShutdown ==
    /\ main = "shutdown"
    /\ main' = "cancel"
    /\ result' = "nil"
    /\ UNCHANGED <<config, signals, db, server, shutdown, serveErr, handlers, sched,
                   cancelled, exit>>

(* Shutdown returns nil once no request is in flight, or the error of its  *)
(* context after ten seconds.                                              *)
Shutdown ==
    /\ main = "shutdown"
    /\ main' = "cancel"
    /\ \/ handlers = 0 /\ result' = "nil"
       \/ handlers > 0 /\ result' = "error"
    /\ UNCHANGED <<config, signals, db, server, shutdown, serveErr, handlers, sched,
                   cancelled, exit>>

(* Plausible bug: run waits for the poll goroutine and does not cancel it. *)
ForgetfulCancel ==
    /\ main = "cancel"
    /\ main' = "join"
    /\ UNCHANGED <<config, result, signals, db, server, shutdown, serveErr, handlers, sched,
                   cancelled, exit>>

CancelScheduler ==
    /\ main = "cancel"
    /\ main' = "join"
    /\ cancelled' = TRUE
    /\ UNCHANGED <<config, result, signals, db, server, shutdown, serveErr, handlers, sched,
                   exit>>

(* Plausible bug: the wait is not registered, or runs after db.Close.      *)
HastyJoin ==
    /\ main = "join"
    /\ main' = "close"
    /\ UNCHANGED <<config, result, signals, db, server, shutdown, serveErr, handlers, sched,
                   cancelled, exit>>

(* wg.Wait.                                                                *)
Join ==
    /\ main = "join"
    /\ sched = "stopped"
    /\ main' = "close"
    /\ UNCHANGED <<config, result, signals, db, server, shutdown, serveErr, handlers, sched,
                   cancelled, exit>>

CloseStore ==
    /\ main = "close"
    /\ main' = "return"
    /\ db' = "closed"
    /\ UNCHANGED <<config, result, signals, server, shutdown, serveErr, handlers, sched,
                   cancelled, exit>>

(* bootstrap and main: the error becomes the exit status.                  *)
Exit ==
    /\ main = "return"
    /\ main' = "exited"
    /\ exit' = IF result = "nil" THEN 0 ELSE 1
    /\ UNCHANGED <<config, result, signals, db, server, shutdown, serveErr, handlers, sched,
                   cancelled>>

-----------------------------------------------------------------------------
(* The listener goroutine and the request handlers                         *)

(* ListenAndServe: bind, fail to bind, or notice an earlier Shutdown.      *)
Listen ==
    /\ Running /\ server = "starting"
    /\ \/ ~shutdown /\ server' = "serving" /\ UNCHANGED serveErr
       \/ ~shutdown /\ server' = "down" /\ serveErr' = "error"
       \/ shutdown /\ server' = "down" /\ serveErr' = "nil"
    /\ UNCHANGED <<config, main, result, signals, db, shutdown, handlers, sched, cancelled, exit>>

(* Serve returns: ErrServerClosed after Shutdown, any accept error before. *)
ServeReturn ==
    /\ Running /\ server = "serving"
    /\ server' = "down"
    /\ serveErr' = IF shutdown THEN "nil" ELSE "error"
    /\ UNCHANGED <<config, main, result, signals, db, shutdown, handlers, sched, cancelled, exit>>

HandlerStart ==
    /\ Running /\ server = "serving" /\ ~shutdown
    /\ handlers < MaxHandlers
    /\ handlers' = handlers + 1
    /\ UNCHANGED <<config, main, result, signals, db, server, shutdown, serveErr, sched,
                   cancelled, exit>>

HandlerEnd ==
    /\ Running /\ handlers > 0
    /\ handlers' = handlers - 1
    /\ UNCHANGED <<config, main, result, signals, db, server, shutdown, serveErr, sched,
                   cancelled, exit>>

-----------------------------------------------------------------------------
(* The poll goroutine                                                      *)

SchedMoves(from, to) ==
    /\ Running /\ sched = from
    /\ sched' = to
    /\ UNCHANGED <<config, main, result, signals, db, server, shutdown, serveErr, handlers,
                   cancelled, exit>>

(* Run: the ticker, which panics and ends the process when the interval is *)
(* not positive.                                                           *)
SchedBegin == config # "nonpositive" /\ SchedMoves("new", "idle")

SchedPanic ==
    /\ Running /\ sched = "new" /\ config = "nonpositive"
    /\ main' = "exited"
    /\ exit' = 2
    /\ UNCHANGED <<config, result, signals, db, server, shutdown, serveErr, handlers, sched,
                   cancelled>>

(* The select of Run, with either case when both are ready.                *)
SchedTick == SchedMoves("idle", "list")

SchedStop == SchedDone /\ SchedMoves("idle", "stopped")

(* tick: List, then the loop with its ctx.Err check, then collectOne, whose*)
(* statements and upstream call end with the context.                      *)
SchedList == SchedMoves("list", "visit") \/ SchedMoves("list", "idle")

SchedVisit ==
    \/ ~SchedDone /\ SchedMoves("visit", "collect")
    \/ SchedMoves("visit", "idle")

SchedCollect == SchedMoves("collect", "visit")

-----------------------------------------------------------------------------
(* A signal cancels ctx; later ones find the handler still registered and  *)
(* a context that is done already.                                         *)
Signal ==
    /\ Running /\ signals < MaxSignals
    /\ signals' = signals + 1
    /\ UNCHANGED <<config, main, result, db, server, shutdown, serveErr, handlers, sched,
                   cancelled, exit>>

MainStep ==
    \/ LoadConfig \/ OpenStore \/ Reconcile \/ StartScheduler \/ StartServer
    \/ Select \/ Shutdown \/ CancelScheduler \/ Join \/ CloseStore \/ Exit

ServeStep == Listen \/ ServeReturn

SchedStep ==
    SchedBegin \/ SchedPanic \/ SchedTick \/ SchedStop \/ SchedList \/ SchedVisit \/ SchedCollect

Next == MainStep \/ ServeStep \/ SchedStep \/ HandlerStart \/ HandlerEnd \/ Signal

(* Goroutines are scheduled; Shutdown gives up after its ten seconds.  The *)
(* select of Run chooses fairly between its ready cases, and the ticker is *)
(* ready only once per interval, so a done context is noticed.  No handler *)
(* is required to end.                                                     *)
Fairness ==
    /\ WF_vars(MainStep) /\ WF_vars(Listen)
    /\ WF_vars(SchedBegin \/ SchedPanic)
    /\ WF_vars(SchedList) /\ WF_vars(SchedVisit) /\ WF_vars(SchedCollect)
    /\ SF_vars(SchedStop)

Spec == Init /\ [][Next]_vars /\ Fairness

-----------------------------------------------------------------------------
(* The poll goroutine never touches a closed store and never outlives run: *)
(* the store is open from before its start until after its end, on every   *)
(* exit path, also when the listener fails and ctx is never cancelled.     *)
SchedulerStoreOpen ==
    Running /\ sched \notin {None, "stopped"} => db = "open"

(* Exit status 0 means a signal stopped the service and no request was cut *)
(* off, however the signal, the listener and the handlers interleave.      *)
CleanExitDrained ==
    ~Running /\ exit = 0 => signals > 0 /\ handlers = 0 /\ db = "closed"

(* run waits for the poll goroutine without a deadline, also when no signal*)
(* came: from then on no call to an upstream begins, so the wait lasts for *)
(* the one in progress, which has a timeout, at most.                      *)
NoCallWhileJoining ==
    [][(main \in {"join", "close", "return"} /\ sched # "collect") => (sched' # "collect")]_vars

(* A signal or a listener failure always ends the process, even when a     *)
(* handler never returns and the poll goroutine is in the middle of a tick.*)
StopsEventually == Stopping \/ serveErr = "error" ~> ~Running

-----------------------------------------------------------------------------
(* What the README says and the code does not do.                          *)

(* "loadConfig returns an error on any invalid value, and run() fails fast *)
(* before the HTTP server starts": with a poll interval the ticker rejects *)
(* nothing ever listens.                                                   *)
BadConfigNeverServes == config # "good" => server # "serving"
=============================================================================
