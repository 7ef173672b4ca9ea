------------------------------- MODULE HttpApi -------------------------------
(***************************************************************************)
(* The /api/v1 surface of internal/api: the middleware around it, every    *)
(* handler, and the statements it runs through the store's one pooled      *)
(* connection.  Requests interleave at statement granularity; a statement  *)
(* may fail, a client may go away, a handler may panic, and an upstream    *)
(* may never answer.  The poll goroutine is one more caller of Collect and *)
(* is represented by a refresh.                                            *)
(***************************************************************************)
EXTENDS Integers

CONSTANTS
    Requests,     \* requests that may be in flight at once
    Ids,          \* ids of the registry, every one with a row
    Unknown,      \* some other id
    FieldCount,   \* how many credential fields a provider declares
    None          \* no connection holder, statement or status

VARIABLES
    enabled,   \* providers table
    cred,      \* credentials table: the fields of a provider with a row
    snap,      \* usage_snapshots table: which providers have a row
    fetchers,  \* the runtime registry: ids with a Fetcher, fixed at boot
    conn,      \* the request that holds the connection
    frame,     \* the call stack of each request
    line,      \* the log line the last step wrote: request and status
    excuse,    \* history: the provider could not be fetched at some time
               \* since the request came in
    alone      \* history: no other write of the provider's credentials
               \* was under way since the request came in

tables == <<enabled, cred, snap>>
vars == <<enabled, cred, snap, fetchers, conn, frame, line, excuse, alone>>

Fields(id) == 1..FieldCount[id]

Ops == {"list", "get", "enable", "disable", "put", "presence", "delete",
        "usage", "refresh", "unknown", "body", "method", "route"}

Statements == {"list", "row", "flag", "upsert", "presence", "delete",
               "snapshot", "secret", "replace"}

Statuses == {200, 204, 400, 404, 405, 409, 415, 500}

ASSUME HttpAssumption ==
    /\ FieldCount \in [Ids -> Nat]
    /\ Unknown \notin Ids
    /\ None \notin Requests /\ None \notin Ids /\ None # Unknown
    /\ None \notin Ops /\ None \notin Statements /\ None \notin Statuses

(* pc: waiting for the connection, holding it, at the upstream, about to   *)
(* write the response, about to log.  status is what the handler decided,  *)
(* sent what the client got, rec what the recorder remembers.              *)
Frame == [op     : Ops \cup {None},
          id     : Ids \cup {Unknown, None},
          pc     : {"idle", "wait", "hold", "upstream", "write", "log"},
          stmt   : Statements \cup {None},
          left   : SUBSET Nat,
          status : Statuses \cup {None},
          sent   : Statuses \cup {None},
          rec    : Statuses \cup {None}]

IdleFrame == [op |-> None, id |-> None, pc |-> "idle", stmt |-> None, left |-> {},
              status |-> None, sent |-> None, rec |-> None]

(* A credential is only ever stored for a field its provider declares.     *)
TypeOK ==
    /\ enabled \in [Ids -> BOOLEAN]
    /\ cred \in [Ids -> SUBSET Nat]
    /\ \A id \in Ids : cred[id] \subseteq Fields(id)
    /\ snap \in [Ids -> BOOLEAN]
    /\ fetchers \subseteq Ids
    /\ conn \in Requests \cup {None}
    /\ frame \in [Requests -> Frame]
    /\ line \in (Requests \X Statuses) \cup {None}
    /\ excuse \in [Requests -> BOOLEAN]
    /\ alone \in [Requests -> BOOLEAN]

Init ==
    /\ enabled = [id \in Ids |-> FALSE]
    /\ cred = [id \in Ids |-> {}]
    /\ snap = [id \in Ids |-> FALSE]
    /\ fetchers \in SUBSET Ids
    /\ conn = None
    /\ frame = [r \in Requests |-> IdleFrame]
    /\ line = None
    /\ excuse = [r \in Requests |-> FALSE]
    /\ alone = [r \in Requests |-> FALSE]

-----------------------------------------------------------------------------
Move(r, fr) == frame' = [frame EXCEPT ![r] = fr]

Silent == line' = None

(* The handler goes on to its next statement.                              *)
Ask(r, stmt) == [frame[r] EXCEPT !.pc = "wait", !.stmt = stmt]

(* The handler has decided its answer.                                     *)
Decide(r, status) ==
    [frame[r] EXCEPT !.pc = "write", !.stmt = None, !.left = {}, !.status = status]

At(r, op, stmt) == frame[r].pc = "hold" /\ frame[r].op = op /\ frame[r].stmt = stmt

(* withLogging has set up its recorder, with 200 as the default.           *)
Entered(op, id) == [IdleFrame EXCEPT !.op = op, !.id = id, !.rec = 200]

Refused(op, id, status) == [Entered(op, id) EXCEPT !.pc = "write", !.status = status]

Begun(op, id, stmt) == [Entered(op, id) EXCEPT !.pc = "wait", !.stmt = stmt]

(* The statement a handler for one provider begins with.                   *)
First(op) == IF op \in {"enable", "disable"} THEN "flag" ELSE "row"

ProviderOps == {"get", "enable", "disable", "put", "presence", "delete", "usage", "refresh"}

(* Routing: an unregistered path, a method the path does not serve, the    *)
(* collection, or a provider.  The registry is asked before the store, so  *)
(* an unknown id costs no statement, whatever is asked of it.  PUT looks   *)
(* at the content type and at the body before it looks at the id.          *)
Receive(r) ==
    /\ frame[r].pc = "idle"
    /\ \/ Move(r, Refused("route", None, 404))
       \/ Move(r, Refused("method", None, 405))
       \/ Move(r, Begun("list", None, "list"))
       \/ \E op \in ProviderOps, id \in Ids : Move(r, Begun(op, id, First(op)))
       \/ Move(r, Refused("unknown", Unknown, 404))
       \/ \E status \in {400, 415} : Move(r, Refused("body", None, status))
    /\ UNCHANGED <<tables, conn>>
    /\ Silent

-----------------------------------------------------------------------------
(* database/sql: one connection, handed to one waiting statement at a time *)

Acquire(r) ==
    /\ frame[r].pc = "wait"
    /\ conn = None
    /\ conn' = r
    /\ Move(r, [frame[r] EXCEPT !.pc = "hold"])
    /\ UNCHANGED tables
    /\ Silent

(* Plausible bug: rows are not closed when reading them fails.             *)
LeakyFail(r) ==
    /\ frame[r].pc \in {"wait", "hold", "upstream"}
    /\ Move(r, Decide(r, 500))
    /\ UNCHANGED <<tables, conn>>
    /\ Silent

(* A statement or the upstream fails, or the request's context ends while  *)
(* it waits: the handler answers 500, and Close, Scan and Exec have given  *)
(* the connection back.                                                    *)
Fail(r) ==
    /\ frame[r].pc \in {"wait", "hold", "upstream"}
    /\ Move(r, Decide(r, 500))
    /\ conn' = IF conn = r THEN None ELSE conn
    /\ UNCHANGED tables
    /\ Silent

(* A statement has run and the connection is free again.                   *)
Done(r, fr) == Move(r, fr) /\ conn' = None /\ Silent

(* GET /providers and GET /providers/{id}.                                 *)
Show(r) ==
    /\ At(r, "list", "list") \/ At(r, "get", "row")
    /\ Done(r, Decide(r, 200))
    /\ UNCHANGED tables

(* POST enable and disable: one UPDATE; the answer is what was asked for.  *)
Flag(r) ==
    /\ At(r, "enable", "flag") \/ At(r, "disable", "flag")
    /\ enabled' = [enabled EXCEPT ![frame[r].id] = (frame[r].op = "enable")]
    /\ Done(r, Decide(r, 200))
    /\ UNCHANGED <<cred, snap>>

(* The second statement of the handlers that only need the row to exist.   *)
Second == [usage |-> "snapshot", presence |-> "presence", delete |-> "delete"]

RowExists(r) ==
    /\ frame[r].op \in DOMAIN Second
    /\ At(r, frame[r].op, "row")
    /\ Done(r, Ask(r, Second[frame[r].op]))
    /\ UNCHANGED tables

GetPresence(r) ==
    /\ At(r, "presence", "presence")
    /\ Done(r, Decide(r, 200))
    /\ UNCHANGED tables

DeleteCredentials(r) ==
    /\ At(r, "delete", "delete")
    /\ cred' = [cred EXCEPT ![frame[r].id] = {}]
    /\ Done(r, Decide(r, 204))
    /\ UNCHANGED <<enabled, snap>>

(* Plausible bug: a provider without a snapshot is reported as not found.  *)
StrictUsage(r) ==
    /\ At(r, "usage", "snapshot")
    /\ Done(r, Decide(r, IF snap[frame[r].id] THEN 200 ELSE 404))
    /\ UNCHANGED tables

(* GetUsage: a missing snapshot is a pending one, not an error.            *)
GetUsage(r) ==
    /\ At(r, "usage", "snapshot")
    /\ Done(r, Decide(r, 200))
    /\ UNCHANGED tables

-----------------------------------------------------------------------------
(* PUT credentials: validation against the row's provider, then SetValues  *)

Storing(r, left) ==
    IF left = {} THEN Decide(r, 204)
                 ELSE [Ask(r, "upsert") EXCEPT !.left = left]

(* Plausible bug: only unknown fields are refused.                         *)
LaxValidate(r) ==
    /\ At(r, "put", "row")
    /\ \E names \in SUBSET Fields(frame[r].id) : Done(r, Storing(r, names))
    /\ UNCHANGED tables

(* Plausible bug: only missing fields are refused.                         *)
LenientValidate(r) ==
    LET id == frame[r].id
    IN  /\ At(r, "put", "row")
        /\ Done(r, Storing(r, Fields(id) \cup {FieldCount[id] + 1}))
        /\ UNCHANGED tables

(* The submitted names are the declared ones, or the answer is 400.        *)
Validate(r) ==
    /\ At(r, "put", "row")
    /\ \/ Done(r, Storing(r, Fields(frame[r].id)))
       \/ Done(r, Decide(r, 400))
    /\ UNCHANGED tables

Upsert(r) ==
    /\ At(r, "put", "upsert")
    /\ \E f \in frame[r].left :
         /\ cred' = [cred EXCEPT ![frame[r].id] = @ \cup {f}]
         /\ Done(r, Storing(r, frame[r].left \ {f}))
    /\ UNCHANGED <<enabled, snap>>

-----------------------------------------------------------------------------
(* POST refresh: Collect, and its errors as statuses                       *)

Loading(r, left) ==
    IF left = {} THEN [frame[r] EXCEPT !.pc = "upstream", !.stmt = None, !.left = {}]
                 ELSE [Ask(r, "secret") EXCEPT !.left = left]

CollectRow(r) ==
    LET id == frame[r].id
    IN  /\ At(r, "refresh", "row")
        /\ Done(r, IF enabled[id] THEN Loading(r, Fields(id)) ELSE Decide(r, 409))
        /\ UNCHANGED tables

(* Plausible bug: an error of Reveal, whichever it is, becomes             *)
(* ErrProviderUncredentialed.                                              *)
HastySecret(r) ==
    /\ At(r, "refresh", "secret")
    /\ Done(r, Decide(r, 409))
    /\ UNCHANGED tables

(* loadCredentials, in declared order.  A missing row means uncredentialed *)
(* here, although the store calls it not found as well; a blob that does   *)
(* not open is a plain failure.                                            *)
CollectSecret(r) ==
    LET id == frame[r].id
    IN  /\ At(r, "refresh", "secret")
        /\ \E f \in frame[r].left :
             /\ \A g \in frame[r].left : f <= g
             /\ Done(r, IF f \in cred[id] THEN Loading(r, frame[r].left \ {f})
                                          ELSE Decide(r, 409))
        /\ UNCHANGED tables

(* FetchUsage is refused without a Fetcher; otherwise the upstream may     *)
(* answer, some day.                                                       *)
Upstream(r) ==
    /\ frame[r].pc = "upstream"
    /\ Move(r, IF frame[r].id \in fetchers THEN Ask(r, "replace") ELSE Decide(r, 409))
    /\ UNCHANGED <<tables, conn>>
    /\ Silent

CollectReplace(r) ==
    /\ At(r, "refresh", "replace")
    /\ snap' = [snap EXCEPT ![frame[r].id] = TRUE]
    /\ Done(r, Decide(r, 200))
    /\ UNCHANGED <<enabled, cred>>

-----------------------------------------------------------------------------
(* The middleware: withRequestID outside withLogging outside withRecovery  *)

(* Plausible bug: withLogging is inside withRecovery, so that a panic      *)
(* takes the log line with it.                                             *)
UnloggedPanic(r) ==
    /\ frame[r].pc \in {"hold", "upstream", "write"}
    /\ Move(r, IdleFrame)
    /\ conn' = IF conn = r THEN None ELSE conn
    /\ UNCHANGED tables
    /\ Silent

(* A handler panics before it has answered; withRecovery is about to write *)
(* a 500, and the deferred Close has given the connection back.            *)
Panic(r) ==
    /\ frame[r].pc \in {"hold", "upstream", "write"}
    /\ Move(r, Decide(r, 500))
    /\ conn' = IF conn = r THEN None ELSE conn
    /\ UNCHANGED tables
    /\ Silent

(* writeJSON or WriteHeader, through the recorder.                         *)
Respond(r) ==
    /\ frame[r].pc = "write"
    /\ Move(r, [frame[r] EXCEPT !.pc = "log", !.sent = frame[r].status,
                                 !.rec = frame[r].status])
    /\ UNCHANGED <<tables, conn>>
    /\ Silent

(* The log line, after which the request is over.                          *)
Log(r) ==
    /\ frame[r].pc = "log"
    /\ line' = <<r, frame[r].rec>>
    /\ Move(r, IdleFrame)
    /\ UNCHANGED <<tables, conn>>

Work(r) ==
    \/ Show(r) \/ Flag(r) \/ RowExists(r) \/ GetPresence(r) \/ DeleteCredentials(r)
    \/ GetUsage(r) \/ Validate(r) \/ Upsert(r)
    \/ CollectRow(r) \/ CollectSecret(r) \/ CollectReplace(r)
    \/ Respond(r) \/ Log(r)

(* History: what else went on while a request was under way.               *)
Refreshing(r) == frame[r].op = "refresh" /\ frame[r].id \in Ids

Refusable(id) == ~enabled[id] \/ ~(Fields(id) \subseteq cred[id]) \/ id \notin fetchers

Excused(r) == Refreshing(r) /\ Refusable(frame[r].id)

Undisturbed(r) ==
    \A q \in Requests \ {r} :
        ~(frame[q].op \in {"put", "delete"} /\ frame[q].id = frame[r].id)

Watch ==
    /\ excuse' = [r \in Requests |-> Excused(r)' \/ (excuse[r] /\ Refreshing(r)')]
    /\ alone' = [r \in Requests |-> /\ frame[r].pc = "idle" \/ alone[r]
                                    /\ Undisturbed(r) /\ Undisturbed(r)'
                                    /\ frame'[r].op = "put"]

Step(r) == Receive(r) \/ Acquire(r) \/ Work(r) \/ Upstream(r) \/ Fail(r) \/ Panic(r)

Next == (\E r \in Requests : Step(r)) /\ UNCHANGED fetchers /\ Watch

(* A goroutine that can run does, and database/sql does not pass over a    *)
(* waiting statement for ever.  No client has to call, no upstream has to  *)
(* answer, and nothing has to fail.                                        *)
Fairness ==
    \A r \in Requests :
        WF_frame(Work(r)) /\ SF_frame(Acquire(r))

Spec == Init /\ [][Next]_vars /\ Fairness

-----------------------------------------------------------------------------
(* One status per request, and one log line with that status, also for a   *)
(* handler that panics: the surface implements AccessLog.  Its phases are  *)
(* those of the frame, whatever the handler does meanwhile.                *)
Phase(r) ==
    IF frame[r].pc = "idle" THEN "idle" ELSE IF frame[r].pc = "log" THEN "answered" ELSE "open"

Access == INSTANCE AccessLog WITH
    phase  <- [r \in Requests |-> Phase(r)],
    status <- [r \in Requests |-> frame[r].sent]

OneAnswerOneLine == Access!Spec

(* ErrNotFound means three things in the store: no such provider, no such  *)
(* credential, no snapshot yet.  Only the first may reach a client as 404, *)
(* although all three pass through the same handlers.                      *)
NotFoundMeansUnknown ==
    \A r \in Requests :
        frame[r].sent = 404 => frame[r].op = "route" \/ frame[r].id = Unknown

(* A refresh is answered 409 only if, at some time while it ran, its       *)
(* provider really was disabled, without a credential, or without a        *)
(* Fetcher: a failure of the store, of a blob or of the upstream is never  *)
(* blamed on the provider's state.                                         *)
ConflictIsReal ==
    \A r \in Requests : frame[r].sent = 409 => excuse[r]

(* SetValues stores one field per statement and any of them may fail; yet  *)
(* 204 to a PUT no other write of the same credentials overlapped means    *)
(* that exactly the declared fields are stored.                            *)
QuietPutIsWhole ==
    \A r \in Requests :
        frame[r].op = "put" /\ frame[r].sent = 204 /\ alone[r]
        => cred[frame[r].id] = Fields(frame[r].id)

(* A request has the one connection exactly while a statement of it runs,  *)
(* however the statement, the handler or the client fails: nobody keeps it *)
(* through an upstream call or a response, and nobody gives back another's.*)
ConnectionIsHeld ==
    \A r \in Requests : conn = r <=> frame[r].pc = "hold"

(* There is one connection for all requests, and a refresh may hang in its *)
(* upstream call for ever: every other request still ends, because nobody  *)
(* keeps the connection.                                                   *)
EveryRequestEnds ==
    \A r \in Requests :
        frame[r].pc # "idle" ~> frame[r].pc \in {"idle", "upstream"}
=============================================================================
