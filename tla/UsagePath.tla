----------------------------- MODULE UsagePath -----------------------------
(***************************************************************************)
(* The way of a credential to the upstream and of the answer to the        *)
(* dashboard: PUT seals it into a row, Collect opens it, the Minimax       *)
(* plugin sends it and maps the answer, the snapshot is stored and served. *)
(* Meanwhile credentials are replaced, the process restarts with another   *)
(* master key, and the database file is altered from outside: rows are     *)
(* copied from one place to another or damaged.                            *)
(***************************************************************************)
EXTENDS Secret, Minimax

CONSTANTS
    Places,     \* <<provider id, field>>, each a sequence of bytes
    Target,     \* the place of the live plugin's subscription_key
    MasterKeys, \* keys the service is started with
    Empty,      \* the empty string, which PUT accepts as a value
    NoRow,      \* no blob is stored in a place
    Answers,    \* answers the upstream may give
    MaxClock    \* bound on time

(* A plaintext stands for the place it was submitted for, and carries the  *)
(* master key of the process it was submitted to.                          *)
Texts == [value : Places \cup {Empty}, under : MasterKeys]

Bound(place) == AAD(place[1], place[2])

Blobs == [intact : BOOLEAN, key : MasterKeys, aad : {Bound(s) : s \in Places},
          plaintext : Texts]

ASSUME PathAssumption ==
    /\ Target \in Places
    /\ NoText \notin Texts
    /\ Empty \notin Places
    /\ NoRow \notin Blobs
    /\ MaxClock \in Nat

(* Provider ids are constants of the build and free of the separator; a    *)
(* field name may be anything.                                             *)
ASSUME NameAssumption ==
    /\ Domain \in Seq(Nat)
    /\ Places \subseteq Seq(Nat \ {0}) \X Seq(Nat)

ASSUME AnswerAssumption ==
    /\ Answers \subseteq [status : Nat, whole : BOOLEAN, json : BOOLEAN, code : Int,
                         fiveHour : Window, weekly : Window]
    /\ Nil \notin Answers

VARIABLES
    rows,       \* credentials table
    masterKey,  \* of the running process
    clock,
    attempt,    \* Collect and FetchUsage for the live provider
    report      \* its row of usage_snapshots, or Nil

vars == <<rows, masterKey, clock, attempt, report>>

NoAttempt == [pc |-> "idle", key |-> NoText, answer |-> Nil, at |-> 0, outcome |-> "none"]

TypeOK ==
    /\ rows \in [Places -> Blobs \cup {NoRow}]
    /\ masterKey \in MasterKeys
    /\ clock \in 0..MaxClock
    /\ attempt \in [pc      : {"idle", "load", "fetch", "store"},
                    key     : Texts \cup {NoText},
                    answer  : Answers \cup {Nil},
                    at      : 0..MaxClock,
                    outcome : {"none", "ok", "auth", "error"}]
    /\ report \in [fiveHour : Metric, weekly : Metric, collectedAt : 0..MaxClock] \cup {Nil}

Init ==
    /\ rows = [s \in Places |-> NoRow]
    /\ masterKey \in MasterKeys
    /\ clock = 0
    /\ attempt = NoAttempt
    /\ report = Nil

-----------------------------------------------------------------------------
(* SetValues, for a provider with one field.                               *)
SetValue(place, value) ==
    /\ rows' = [rows EXCEPT ![place] =
                   Seal(masterKey, [value |-> value, under |-> masterKey], Bound(place))]
    /\ UNCHANGED <<masterKey, clock, attempt, report>>

Delete(place) ==
    /\ rows' = [rows EXCEPT ![place] = NoRow]
    /\ UNCHANGED <<masterKey, clock, attempt, report>>

(* From outside: a row is copied over another one, or damaged.             *)
Misplace(from, to) ==
    /\ rows' = [rows EXCEPT ![to] = rows[from]]
    /\ UNCHANGED <<masterKey, clock, attempt, report>>

Damage(place) ==
    /\ rows[place] # NoRow
    /\ rows' = [rows EXCEPT ![place] = Altered(@)]
    /\ UNCHANGED <<masterKey, clock, attempt, report>>

(* The process stops and starts again, perhaps with another master key.    *)
Restart ==
    /\ masterKey' \in MasterKeys
    /\ attempt' = NoAttempt
    /\ UNCHANGED <<rows, clock, report>>

Tick ==
    /\ clock < MaxClock
    /\ clock' = clock + 1
    /\ UNCHANGED <<rows, masterKey, attempt, report>>

-----------------------------------------------------------------------------
Finish(outcome) == attempt' = [attempt EXCEPT !.pc = "idle", !.outcome = outcome]

Begin ==
    /\ attempt.pc = "idle"
    /\ attempt' = [NoAttempt EXCEPT !.pc = "load"]
    /\ UNCHANGED <<rows, masterKey, clock, report>>

(* Reveal of the only field: a place without a row and a blob that does    *)
(* not open both end the attempt before anything is sent.                  *)
Load ==
    LET value == IF rows[Target] = NoRow THEN NoText
                 ELSE Open(masterKey, rows[Target], Bound(Target))
    IN  /\ attempt.pc = "load"
        /\ IF value = NoText THEN Finish("error")
           ELSE attempt' = [attempt EXCEPT !.pc = "fetch", !.key = value]
        /\ UNCHANGED <<rows, masterKey, clock, report>>

(* FetchUsage refuses an empty value without a request.                    *)
FetchRefused ==
    /\ attempt.pc = "fetch"
    /\ attempt.key.value = Empty
    /\ Finish("error")
    /\ UNCHANGED <<rows, masterKey, clock, report>>

(* The answer is classified, its windows mapped as of now.                 *)
Fetch(answer) ==
    /\ attempt.pc = "fetch"
    /\ attempt.key.value # Empty
    /\ attempt' = [attempt EXCEPT !.pc = IF Accepted(answer) THEN "store" ELSE "idle",
                                  !.answer = answer, !.at = clock,
                                  !.outcome = Verdict(answer)]
    /\ UNCHANGED <<rows, masterKey, clock, report>>

(* Replace, with a time of collection taken after the fetch.               *)
Replace ==
    /\ attempt.pc = "store"
    /\ Finish("ok")
    /\ report' = [fiveHour    |-> ToMetric(attempt.answer.fiveHour, attempt.at),
                  weekly      |-> ToMetric(attempt.answer.weekly, attempt.at),
                  collectedAt |-> clock]
    /\ UNCHANGED <<rows, masterKey, clock>>

(* A statement of the attempt fails.                                       *)
StoreFails ==
    /\ attempt.pc \in {"load", "store"}
    /\ Finish("error")
    /\ UNCHANGED <<rows, masterKey, clock, report>>

Next ==
    \/ \E s \in Places : SetValue(s, s) \/ SetValue(s, Empty) \/ Delete(s) \/ Damage(s)
    \/ \E s, t \in Places : Misplace(s, t)
    \/ Restart
    \/ Tick
    \/ Begin
    \/ Load
    \/ FetchRefused
    \/ \E a \in Answers : Fetch(a)
    \/ Replace
    \/ StoreFails

Spec == Init /\ [][Next]_vars

-----------------------------------------------------------------------------
(* SetValues promises that a stored value can never be swapped between     *)
(* fields or providers: whatever is copied where, under whatever keys the  *)
(* service has run, the value sent to the upstream is the one submitted    *)
(* for the live provider's own field.  And it was submitted under the      *)
(* master key of this process: a row of another key's time never opens.    *)
KeyReachesItsOwner ==
    attempt.pc \in {"fetch", "store"} =>
        attempt.key.value \in {Target, Empty} /\ attempt.key.under = masterKey

(* FetchUsage promises the authentication class for HTTP 401 and 403 and   *)
(* for code 1004, which engages the backoff.  If the answer arrives whole, *)
(* a refusal has this class whatever its body looks like; no answer that   *)
(* broke off, no other HTTP failure, and no failure of the store or of a   *)
(* blob has it.                                                            *)
Refusal(answer) ==
    \/ answer.status \in {401, 403}
    \/ answer.status = 200 /\ answer.json /\ answer.code = 1004

RefusalIsAuth ==
    /\ attempt.answer # Nil /\ attempt.answer.whole /\ Refusal(attempt.answer)
       => attempt.outcome = "auth"
    /\ attempt.outcome = "auth"
       => /\ attempt.answer # Nil
          /\ attempt.answer.whole
          /\ attempt.answer.status \in 200..299 \cup {401, 403}

(* What GetUsage shows.                                                    *)
Shown == IF report = Nil THEN {} ELSE {report.fiveHour, report.weekly}

(* A metric of the dashboard adds up: used is a count the machine can      *)
(* hold, whatever the difference wrapped to; where limit and remaining are *)
(* both counts it is exactly the difference, and nothing where more        *)
(* remains than the limit allows; and a metric shown never lacks both of   *)
(* them, although either window of an answer may.                          *)
ShownAddsUp ==
    \A m \in Shown :
        /\ m.used \in 0..(Half - 1)
        /\ m.limit # Nil \/ m.remaining # Nil
        /\ (m.limit # Nil /\ m.remaining # Nil) =>
             (0 <= m.remaining /\ 0 <= m.limit =>
                m.used = IF m.remaining <= m.limit THEN m.limit - m.remaining ELSE 0)
=============================================================================
