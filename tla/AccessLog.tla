------------------------------ MODULE AccessLog ------------------------------
(***************************************************************************)
(* What the middleware of internal/api promises of every request: one      *)
(* status reaches the client, then exactly one log line is written, and it *)
(* carries that status.  How the status comes about is not its business.   *)
(***************************************************************************)

CONSTANTS
    Requests,   \* requests that may be in flight at once
    Statuses,   \* HTTP statuses
    None        \* no status yet

VARIABLES
    phase,    \* idle, open, answered
    status,   \* the status the client got
    line      \* the log line the last step wrote: request and status

vars == <<phase, status, line>>

Init ==
    /\ phase = [r \in Requests |-> "idle"]
    /\ status = [r \in Requests |-> None]
    /\ line = None

(* A request comes in.                                                     *)
Open(r) ==
    /\ phase[r] = "idle"
    /\ phase' = [phase EXCEPT ![r] = "open"]
    /\ line' = None
    /\ UNCHANGED status

(* The client gets its one status, a 500 if the handler panicked.          *)
Reply(r, s) ==
    /\ phase[r] = "open"
    /\ phase' = [phase EXCEPT ![r] = "answered"]
    /\ status' = [status EXCEPT ![r] = s]
    /\ line' = None

(* The log line is written, after which the request is over.               *)
Record(r) ==
    /\ phase[r] = "answered"
    /\ phase' = [phase EXCEPT ![r] = "idle"]
    /\ status' = [status EXCEPT ![r] = None]
    /\ line' = <<r, status[r]>>

(* The handler works; whatever it does, nothing is logged.                 *)
Handle ==
    /\ line' = None
    /\ UNCHANGED <<phase, status>>

Next ==
    \/ \E r \in Requests :
         \/ Open(r)
         \/ \E s \in Statuses : Reply(r, s)
         \/ Record(r)
    \/ Handle

Spec == Init /\ [][Next]_vars
=============================================================================
