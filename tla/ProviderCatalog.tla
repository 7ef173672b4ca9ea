--------------------------- MODULE ProviderCatalog ---------------------------
(***************************************************************************)
(* internal/provider.Service over the providers table, through boots of    *)
(* different builds on one database.  A build brings its compiled-in       *)
(* registry and the Fetchers main registers.  A boot reads the rows,       *)
(* inserts the missing ones one statement at a time, registers the         *)
(* Fetchers and serves; it may die anywhere, and the next boot, maybe of   *)
(* an older or a newer build, finds what it left.                          *)
(***************************************************************************)
EXTENDS Integers, Sequences

CONSTANTS
    Ids,        \* provider ids
    Builds,     \* the builds that may run
    MaxFaults   \* bound: how many boots and services are cut short

ASSUME CatalogAssumption ==
    /\ Builds \subseteq [registry : Seq(Ids), fetchers : Seq(Ids)]
    /\ \A b \in Builds : \A i, j \in DOMAIN b.registry :
         b.registry[i] = b.registry[j] => i = j
    /\ MaxFaults \in Nat

VARIABLES
    rows,     \* the providers table: a row's enabled column, or no row
    build,    \* the build on the machine
    pc,       \* how far the boot is
    have,     \* the ids Reconcile's List returned
    next,     \* the position Reconcile or the registration has reached
    live,     \* the runtime Fetcher registry
    chosen,   \* history: the ids the operator last enabled
    faults    \* how many failures and crashes there were

vars == <<rows, build, pc, have, next, live, chosen, faults>>

Row == {"absent", "disabled", "enabled"}

Elements(s) == {s[i] : i \in DOMAIN s}

Registry == build.registry

Known == Elements(Registry)

TypeOK ==
    /\ rows \in [Ids -> Row]
    /\ build \in Builds
    /\ pc \in {"down", "list", "create", "register", "serving"}
    /\ have \subseteq Ids
    /\ next \in Nat \ {0}
    /\ live \subseteq Known
    /\ chosen \subseteq Ids
    /\ faults \in 0..MaxFaults

Init ==
    /\ rows = [id \in Ids |-> "absent"]
    /\ build \in Builds
    /\ pc = "down"
    /\ have = {}
    /\ next = 1
    /\ live = {}
    /\ chosen = {}
    /\ faults = 0

-----------------------------------------------------------------------------
(* NewService: an empty Fetcher registry.                                  *)
Boot(b) ==
    /\ pc = "down"
    /\ build' = b
    /\ pc' = "list"
    /\ have' = {}
    /\ next' = 1
    /\ live' = {}
    /\ UNCHANGED <<rows, chosen, faults>>

Persisted == {id \in Ids : rows[id] # "absent"}

(* Reconcile lists the existing rows, once.                                *)
ListRows ==
    /\ pc = "list"
    /\ have' = Persisted
    /\ pc' = "create"
    /\ UNCHANGED <<rows, build, next, live, chosen, faults>>

(* The registry entry Reconcile looks at, if there is one left.            *)
Visiting == pc = "create" /\ next \in DOMAIN Registry

SkipRow ==
    /\ Visiting
    /\ Registry[next] \in have
    /\ next' = next + 1
    /\ UNCHANGED <<rows, build, pc, have, live, chosen, faults>>

(* Plausible bug: the existing rows are not looked at.                     *)
BlindCreate ==
    /\ Visiting
    /\ IF rows[Registry[next]] = "absent"
       THEN /\ rows' = [rows EXCEPT ![Registry[next]] = "disabled"]
            /\ next' = next + 1
            /\ UNCHANGED pc
       ELSE pc' = "down" /\ UNCHANGED <<rows, next>>
    /\ UNCHANGED <<build, have, live, chosen, faults>>

(* Create inserts a disabled row; the primary key refuses a second one,    *)
(* and the error ends the boot.                                            *)
CreateRow ==
    /\ Visiting
    /\ Registry[next] \notin have
    /\ IF rows[Registry[next]] = "absent"
       THEN /\ rows' = [rows EXCEPT ![Registry[next]] = "disabled"]
            /\ next' = next + 1
            /\ UNCHANGED pc
       ELSE pc' = "down" /\ UNCHANGED <<rows, next>>
    /\ UNCHANGED <<build, have, live, chosen, faults>>

(* Plausible bug: rows the registry does not know are deleted.             *)
PruningReconciled ==
    /\ pc = "create"
    /\ next \notin DOMAIN Registry
    /\ pc' = "register"
    /\ next' = 1
    /\ rows' = [id \in Ids |-> IF id \in Known THEN rows[id] ELSE "absent"]
    /\ UNCHANGED <<build, have, live, chosen, faults>>

(* Plausible bug: the loop stops one entry early.                          *)
EarlyReconciled ==
    /\ pc = "create"
    /\ next + 1 \notin DOMAIN Registry
    /\ pc' = "register"
    /\ next' = 1
    /\ UNCHANGED <<rows, build, have, live, chosen, faults>>

(* Every entry is visited; rows the registry does not know are logged.     *)
Reconciled ==
    /\ pc = "create"
    /\ next \notin DOMAIN Registry
    /\ pc' = "register"
    /\ next' = 1
    /\ UNCHANGED <<rows, build, have, live, chosen, faults>>

(* Plausible bug: the id of a Fetcher is not looked up in the registry.    *)
TrustingRegister ==
    /\ pc = "register"
    /\ next \in DOMAIN build.fetchers
    /\ build.fetchers[next] \notin live
    /\ live' = live \cup {build.fetchers[next]}
    /\ next' = next + 1
    /\ UNCHANGED <<rows, build, pc, have, chosen, faults>>

(* RegisterFetcher panics on an id the registry does not know and on one   *)
(* that is registered already.                                             *)
RegisterFetcher ==
    LET id == build.fetchers[next]
    IN  /\ pc = "register"
        /\ next \in DOMAIN build.fetchers
        /\ IF id \in Known \ live
           THEN live' = live \cup {id} /\ next' = next + 1 /\ UNCHANGED pc
           ELSE pc' = "down" /\ UNCHANGED <<live, next>>
        /\ UNCHANGED <<rows, build, have, chosen, faults>>

(* The scheduler and the listener start.                                   *)
Serve ==
    /\ pc = "register"
    /\ next \notin DOMAIN build.fetchers
    /\ pc' = "serving"
    /\ UNCHANGED <<rows, build, have, next, live, chosen, faults>>

(* SetEnabled: one UPDATE, refused for an id the registry does not know or *)
(* that has no row.                                                        *)
SetEnabled(id, b) ==
    /\ pc = "serving"
    /\ id \in Known
    /\ rows[id] # "absent"
    /\ rows' = [rows EXCEPT ![id] = IF b THEN "enabled" ELSE "disabled"]
    /\ chosen' = IF b THEN chosen \cup {id} ELSE chosen \ {id}
    /\ UNCHANGED <<build, pc, have, next, live, faults>>

(* A statement fails, the process is stopped or it dies.                   *)
Die ==
    /\ pc # "down"
    /\ faults < MaxFaults
    /\ faults' = faults + 1
    /\ pc' = "down"
    /\ UNCHANGED <<rows, build, have, next, live, chosen>>

BootStep ==
    ListRows \/ SkipRow \/ CreateRow \/ Reconciled \/ RegisterFetcher \/ Serve

Next ==
    \/ \E b \in Builds : Boot(b)
    \/ BootStep
    \/ \E id \in Ids : SetEnabled(id, TRUE) \/ SetEnabled(id, FALSE)
    \/ Die

(* A boot that has begun goes on; nobody has to begin one.                 *)
Spec == Init /\ [][Next]_vars /\ WF_vars(BootStep)

-----------------------------------------------------------------------------
(* What List and Get report for an id of the registry.                     *)
ReportedEnabled(id) == rows[id] = "enabled"

(* The operator's choice outlives restarts, crashes in the middle of a     *)
(* Reconcile, and builds that do not know the provider: a row says enabled *)
(* exactly when the operator last enabled that provider.                   *)
ChoiceKept == \A id \in Ids : ReportedEnabled(id) <=> id \in chosen

(* A service that runs can address every provider it lists and poll every  *)
(* provider its main registers, whichever boot created which row: each id  *)
(* of its registry has a row, so Get and SetEnabled never answer not-found *)
(* for it, and every Fetcher of the build is live.                         *)
ServingIsComplete ==
    pc = "serving" => Known \subseteq Persisted /\ live = Elements(build.fetchers)

(* The Fetchers of a build are distinct and in its registry.               *)
WellFormed(b) ==
    /\ Elements(b.fetchers) \subseteq Elements(b.registry)
    /\ \A i, j \in DOMAIN b.fetchers : b.fetchers[i] = b.fetchers[j] => i = j

(* A boot of a well-formed build ends only because something interrupts    *)
(* it: no row that an interrupted boot, another build or the service left  *)
(* makes Create fail on a key that exists, and no Fetcher panics.          *)
OnlyFaultsEndBoot ==
    [][WellFormed(build) /\ pc # "down" /\ pc' = "down" => faults' = faults + 1]_vars

(* What interrupted boots left behind never makes Reconcile fail: a boot   *)
(* of a well-formed build that nothing interrupts ends up serving.         *)
BootServes ==
    pc = "list" /\ WellFormed(build) /\ faults = MaxFaults ~> pc = "serving"
=============================================================================
