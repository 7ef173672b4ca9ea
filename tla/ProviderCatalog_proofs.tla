----------------------- MODULE ProviderCatalog_proofs -----------------------
(***************************************************************************)
(* Proofs about ProviderCatalog, for any providers, builds and bound.      *)
(*                                                                         *)
(* TypeOK and ChoiceKept are inductive.  For ServingIsComplete the         *)
(* invariant is strengthened by how far a boot has come: what Reconcile    *)
(* saw or has visited has a row, and what has been registered is live.     *)
(***************************************************************************)
EXTENDS ProviderCatalog, TLAPS

(* How far a boot has come.                                                *)
BootProgress ==
    /\ pc = "list" => next = 1
    /\ pc = "create" => /\ have \subseteq Persisted
                        /\ \A i \in DOMAIN Registry : i < next => Registry[i] \in Persisted
    /\ pc = "register" => /\ Known \subseteq Persisted
                          /\ live \subseteq Elements(build.fetchers)
                          /\ \A i \in DOMAIN build.fetchers :
                               i < next => build.fetchers[i] \in live
    /\ pc \in {"list", "create"} => live = {}

-----------------------------------------------------------------------------
(* Ids named by a build's registry or its Fetchers are provider ids.       *)
LEMMA BuildIds ==
    ASSUME TypeOK
    PROVE  /\ Registry \in Seq(Ids) /\ build.fetchers \in Seq(Ids)
           /\ Known \subseteq Ids
           /\ Elements(build.fetchers) \subseteq Ids
<1>1. build \in [registry : Seq(Ids), fetchers : Seq(Ids)]
  BY CatalogAssumption DEF TypeOK
<1>2. Registry \in Seq(Ids) /\ build.fetchers \in Seq(Ids)
  BY <1>1 DEF Registry
<1>3. \A s \in Seq(Ids) : Elements(s) \subseteq Ids
  BY DEF Elements
<1> QED
  BY <1>2, <1>3 DEF Known

-----------------------------------------------------------------------------
(* Every step of a boot, of the service and of a crash keeps the types,    *)
(* among them that only ids of the build's registry are ever live.         *)
LEMMA TypeStep ==
    ASSUME TypeOK, [Next]_vars
    PROVE  TypeOK'
<1> USE DEF TypeOK
<1>b. Known \subseteq Ids
  BY BuildIds
<1>1. ASSUME NEW b \in Builds, Boot(b) PROVE TypeOK'
  BY <1>1 DEF Boot, Known, Registry
<1>2. CASE ListRows
  BY <1>2 DEF ListRows, Persisted, Known, Registry
<1>3. CASE SkipRow
  BY <1>3 DEF SkipRow, Known, Registry
<1>4. CASE CreateRow
  <2>1. rows' \in [Ids -> Row]
    BY <1>4 DEF CreateRow, Row
  <2> QED
    BY <1>4, <2>1 DEF CreateRow, Known, Registry
<1>5. CASE Reconciled
  BY <1>5 DEF Reconciled, Known, Registry
<1>6. CASE RegisterFetcher
  BY <1>6 DEF RegisterFetcher, Known, Registry
<1>7. CASE Serve
  BY <1>7 DEF Serve, Known, Registry
<1>8. ASSUME NEW id \in Ids, NEW b \in BOOLEAN, SetEnabled(id, b) PROVE TypeOK'
  <2>1. rows' \in [Ids -> Row]
    BY <1>8 DEF SetEnabled, Row
  <2> QED
    BY <1>8, <2>1 DEF SetEnabled, Known, Registry
<1>9. CASE Die
  BY <1>9, CatalogAssumption DEF Die, Known, Registry
<1>10. CASE UNCHANGED vars
  BY <1>10 DEF vars, Known, Registry
<1> QED
  BY <1>1, <1>2, <1>3, <1>4, <1>5, <1>6, <1>7, <1>8, <1>9, <1>10 DEF Next, BootStep

(* The catalogue keeps its type.                                           *)
THEOREM TypeCorrect == Spec => []TypeOK
<1>1. Init => TypeOK
  BY CatalogAssumption DEF Init, TypeOK, Row
<1>2. TypeOK /\ [Next]_vars => TypeOK'
  BY TypeStep
<1> QED
  BY <1>1, <1>2, PTL DEF Spec

-----------------------------------------------------------------------------
(* Reconcile inserts disabled rows and touches no other; only SetEnabled   *)
(* changes a row, and it changes the operator's choice with it.            *)
LEMMA ChoiceStep ==
    ASSUME TypeOK, ChoiceKept, [Next]_vars
    PROVE  ChoiceKept'
<1> USE DEF TypeOK, ChoiceKept, ReportedEnabled
<1>1. CASE UNCHANGED <<rows, chosen>>
  BY <1>1
<1>2. CASE CreateRow
  <2>1. rows' = rows
        \/ /\ rows[Registry[next]] = "absent"
           /\ rows' = [rows EXCEPT ![Registry[next]] = "disabled"]
    BY <1>2 DEF CreateRow
  <2> QED
    BY <1>2, <2>1 DEF CreateRow, Row
<1>3. ASSUME NEW id \in Ids, NEW b \in BOOLEAN, SetEnabled(id, b) PROVE ChoiceKept'
  BY <1>3 DEF SetEnabled, Row
<1> QED
  BY <1>1, <1>2, <1>3
  DEF Next, BootStep, vars, Boot, ListRows, SkipRow, Reconciled, RegisterFetcher, Serve, Die

(* The operator's choice survives every crash, restart and change of build.*)
THEOREM ChoiceIsKept == Spec => []ChoiceKept
<1>1. Init => ChoiceKept
  BY DEF Init, ChoiceKept, ReportedEnabled
<1>2. TypeOK /\ ChoiceKept /\ [Next]_vars => ChoiceKept'
  BY ChoiceStep
<1> QED
  BY <1>1, <1>2, TypeCorrect, PTL DEF Spec

-----------------------------------------------------------------------------
(* No step removes a row.                                                  *)
LEMMA RowsStay ==
    ASSUME TypeOK, [Next]_vars
    PROVE  Persisted \subseteq Persisted'
<1> USE DEF TypeOK, Persisted
<1>1. CASE UNCHANGED rows
  BY <1>1
<1>2. CASE CreateRow
  BY <1>2 DEF CreateRow, Row
<1>3. ASSUME NEW id \in Ids, NEW b \in BOOLEAN, SetEnabled(id, b)
      PROVE  Persisted \subseteq Persisted'
  BY <1>3 DEF SetEnabled, Row
<1> QED
  BY <1>1, <1>2, <1>3
  DEF Next, BootStep, vars, Boot, ListRows, SkipRow, Reconciled, RegisterFetcher, Serve, Die

(* Each step of a boot makes the progress its pc stands for.               *)
LEMMA ProgressStep ==
    ASSUME TypeOK, BootProgress, [Next]_vars
    PROVE  BootProgress'
<1>b. /\ Registry \in Seq(Ids) /\ build.fetchers \in Seq(Ids)
      /\ Known \subseteq Ids
      /\ next \in Nat \ {0}
  BY BuildIds DEF TypeOK
<1>r. Persisted \subseteq Persisted'
  BY RowsStay
<1>1. ASSUME NEW b \in Builds, Boot(b) PROVE BootProgress'
  BY <1>1 DEF Boot, BootProgress
<1>2. CASE ListRows
  <2>1. Persisted' = Persisted
    BY <1>2 DEF ListRows, Persisted
  <2>2. \A i \in DOMAIN Registry : ~(i < 1)
    BY <1>b
  <2> QED
    BY <1>2, <2>1, <2>2 DEF ListRows, BootProgress, Registry
<1>3. CASE SkipRow
  <2>1. Persisted' = Persisted /\ Registry[next] \in Persisted
    BY <1>3 DEF SkipRow, Visiting, Persisted, BootProgress
  <2>2. \A i \in DOMAIN Registry : i < next + 1 => i < next \/ i = next
    BY <1>b
  <2> QED
    BY <1>3, <2>1, <2>2 DEF SkipRow, Visiting, BootProgress, Registry
<1>4. CASE CreateRow
  <2>1. CASE pc' = "down"
    BY <2>1 DEF BootProgress
  <2>2. CASE pc' # "down"
    <3>1. /\ pc = "create" /\ UNCHANGED <<pc, build, have, live>>
          /\ next \in DOMAIN Registry /\ next' = next + 1
          /\ rows' = [rows EXCEPT ![Registry[next]] = "disabled"]
      BY <1>4, <2>2 DEF CreateRow, Visiting
    <3>2. Registry[next] \in Persisted'
      BY <1>b, <3>1 DEF Persisted, TypeOK
    <3>3. \A i \in DOMAIN Registry : i < next + 1 => i < next \/ i = next
      BY <1>b
    <3> QED
      BY <1>r, <3>1, <3>2, <3>3 DEF BootProgress, Registry
  <2> QED
    BY <2>1, <2>2
<1>5. CASE Reconciled
  <2>1. Persisted' = Persisted
    BY <1>5 DEF Reconciled, Persisted
  <2>2. \A i \in DOMAIN Registry : i < next
    BY <1>b, <1>5 DEF Reconciled
  <2>3. Known \subseteq Persisted
    BY <1>5, <2>2 DEF Reconciled, BootProgress, Known, Elements
  <2>4. \A i \in DOMAIN build.fetchers : ~(i < 1)
    BY <1>b
  <2> QED
    BY <1>5, <2>1, <2>3, <2>4 DEF Reconciled, BootProgress, Known, Registry
<1>6. CASE RegisterFetcher
  <2>1. CASE pc' = "down"
    BY <2>1 DEF BootProgress
  <2>2. CASE pc' # "down"
    <3>1. /\ pc = "register" /\ UNCHANGED <<pc, build, rows>>
          /\ next \in DOMAIN build.fetchers /\ next' = next + 1
          /\ live' = live \cup {build.fetchers[next]}
      BY <1>6, <2>2 DEF RegisterFetcher
    <3>2. \A i \in DOMAIN build.fetchers : i < next + 1 => i < next \/ i = next
      BY <1>b
    <3> QED
      BY <1>r, <3>1, <3>2 DEF BootProgress, Known, Registry, Elements
  <2> QED
    BY <2>1, <2>2
<1>7. CASE Serve
  BY <1>7 DEF Serve, BootProgress
<1>8. ASSUME NEW id \in Ids, NEW b \in BOOLEAN, SetEnabled(id, b) PROVE BootProgress'
  BY <1>8 DEF SetEnabled, BootProgress
<1>9. CASE Die
  BY <1>9 DEF Die, BootProgress
<1>10. CASE UNCHANGED vars
  BY <1>10 DEF vars, BootProgress, Persisted, Known, Registry
<1> QED
  BY <1>1, <1>2, <1>3, <1>4, <1>5, <1>6, <1>7, <1>8, <1>9, <1>10 DEF Next, BootStep

(* Only Serve enters the service, and rows and Fetchers stay while it runs.*)
LEMMA CompleteStep ==
    ASSUME TypeOK, BootProgress, ServingIsComplete, [Next]_vars
    PROVE  ServingIsComplete'
<1>r. Persisted \subseteq Persisted'
  BY RowsStay
<1>1. CASE Serve
  <2>1. \A i \in DOMAIN build.fetchers : i < next
    BY <1>1, BuildIds DEF Serve, TypeOK
  <2>2. Known \subseteq Persisted /\ live = Elements(build.fetchers)
    BY <1>1, <2>1 DEF Serve, BootProgress, Elements
  <2> QED
    BY <1>1, <2>2 DEF Serve, ServingIsComplete, Known, Registry, Persisted
<1>2. ASSUME NEW id \in Ids, NEW b \in BOOLEAN, SetEnabled(id, b)
      PROVE  ServingIsComplete'
  BY <1>2, <1>r DEF SetEnabled, ServingIsComplete, Known, Registry
<1>3. CASE UNCHANGED vars
  BY <1>3 DEF vars, ServingIsComplete, Known, Registry, Persisted
<1>4. CASE pc' # "serving"
  BY <1>4 DEF ServingIsComplete
<1> QED
  BY <1>1, <1>2, <1>3, <1>4
  DEF Next, BootStep, Boot, ListRows, SkipRow, CreateRow, Reconciled, RegisterFetcher, Die,
      Visiting

(* A running service has a row for every provider it lists and has every   *)
(* Fetcher of its build, whatever earlier boots of other builds left.      *)
THEOREM CompleteService == Spec => []ServingIsComplete
<1>1. Init => BootProgress /\ ServingIsComplete
  BY DEF Init, BootProgress, ServingIsComplete
<1>2. TypeOK /\ BootProgress /\ ServingIsComplete /\ [Next]_vars
      => (BootProgress /\ ServingIsComplete)'
  BY ProgressStep, CompleteStep
<1> QED
  BY <1>1, <1>2, TypeCorrect, PTL DEF Spec

-----------------------------------------------------------------------------
(* What a boot has done is all there is: a row Reconcile did not see is of *)
(* an entry it has visited since, and a live Fetcher is one it registered. *)
NothingElse ==
    /\ pc = "create" =>
         \A id \in Persisted \ have :
            \E i \in DOMAIN Registry : i < next /\ Registry[i] = id
    /\ pc = "register" =>
         \A id \in live :
            \E i \in DOMAIN build.fetchers : i < next /\ build.fetchers[i] = id

LEMMA NothingElseStep ==
    ASSUME TypeOK, BootProgress, NothingElse, [Next]_vars
    PROVE  NothingElse'
<1>b. /\ Registry \in Seq(Ids) /\ build.fetchers \in Seq(Ids)
      /\ next \in Nat \ {0}
  BY BuildIds DEF TypeOK
<1>1. CASE ListRows
  BY <1>1 DEF ListRows, NothingElse, Persisted
<1>2. CASE SkipRow
  <2>1. Persisted' = Persisted /\ \A i \in DOMAIN Registry : i < next => i < next + 1
    BY <1>b, <1>2 DEF SkipRow, Persisted
  <2> QED
    BY <1>2, <2>1 DEF SkipRow, Visiting, NothingElse, Registry
<1>3. CASE CreateRow
  <2>1. CASE pc' = "down"
    BY <2>1 DEF NothingElse
  <2>2. CASE pc' # "down"
    <3>1. /\ pc = "create" /\ UNCHANGED <<pc, build, have, live>>
          /\ next \in DOMAIN Registry /\ next' = next + 1
          /\ rows' = [rows EXCEPT ![Registry[next]] = "disabled"]
      BY <1>3, <2>2 DEF CreateRow, Visiting
    <3>2. Persisted' \subseteq Persisted \cup {Registry[next]}
      BY <3>1 DEF Persisted, TypeOK
    <3>3. next < next + 1 /\ \A i \in DOMAIN Registry : i < next => i < next + 1
      BY <1>b
    <3> QED
      BY <3>1, <3>2, <3>3 DEF NothingElse, Registry
  <2> QED
    BY <2>1, <2>2
<1>4. CASE Reconciled
  BY <1>4 DEF Reconciled, NothingElse, BootProgress
<1>5. CASE RegisterFetcher
  <2>1. CASE pc' = "down"
    BY <2>1 DEF NothingElse
  <2>2. CASE pc' # "down"
    <3>1. /\ pc = "register" /\ UNCHANGED <<pc, build>>
          /\ next \in DOMAIN build.fetchers /\ next' = next + 1
          /\ live' = live \cup {build.fetchers[next]}
      BY <1>5, <2>2 DEF RegisterFetcher
    <3>2. next < next + 1 /\ \A i \in DOMAIN build.fetchers : i < next => i < next + 1
      BY <1>b
    <3> QED
      BY <3>1, <3>2 DEF NothingElse
  <2> QED
    BY <2>1, <2>2
<1>6. CASE UNCHANGED vars
  BY <1>6 DEF vars, NothingElse, Persisted, Registry
<1>7. CASE pc' \notin {"create", "register"}
  BY <1>7 DEF NothingElse
<1> QED
  BY <1>1, <1>2, <1>3, <1>4, <1>5, <1>6, <1>7
  DEF Next, BootStep, Boot, Serve, SetEnabled, Die

(* Registry entries and the Fetchers of a well-formed build are distinct,  *)
(* so the one a boot has reached is not among those it has passed.         *)
LEMMA NoTrip ==
    ASSUME TypeOK, BootProgress, NothingElse, [Next]_vars,
           WellFormed(build), pc # "down", pc' = "down"
    PROVE  faults' = faults + 1
<1>b. /\ Registry \in Seq(Ids) /\ build.fetchers \in Seq(Ids)
      /\ next \in Nat \ {0}
  BY BuildIds DEF TypeOK
<1>1. CASE CreateRow
  <2>1. /\ pc = "create" /\ next \in DOMAIN Registry /\ Registry[next] \notin have
        /\ rows[Registry[next]] # "absent"
    BY <1>1 DEF CreateRow, Visiting
  <2>2. Registry[next] \in Persisted
    BY <1>b, <2>1 DEF Persisted
  <2>3. PICK i \in DOMAIN Registry : i < next /\ Registry[i] = Registry[next]
    BY <2>1, <2>2 DEF NothingElse
  <2>4. i = next
    BY <2>1, <2>3, CatalogAssumption DEF TypeOK, Registry
  <2> QED
    BY <1>b, <2>3, <2>4
<1>2. CASE RegisterFetcher
  <2>1. /\ pc = "register" /\ next \in DOMAIN build.fetchers
        /\ build.fetchers[next] \notin Known \ live
    BY <1>2 DEF RegisterFetcher
  <2>2. build.fetchers[next] \in Known
    BY <2>1 DEF WellFormed, Elements, Known, Registry
  <2>3. PICK i \in DOMAIN build.fetchers :
          i < next /\ build.fetchers[i] = build.fetchers[next]
    BY <2>1, <2>2 DEF NothingElse
  <2>4. i = next
    BY <2>1, <2>3 DEF WellFormed
  <2> QED
    BY <1>b, <2>3, <2>4
<1>3. CASE Die
  BY <1>3 DEF Die
<1> QED
  BY <1>1, <1>2, <1>3
  DEF Next, BootStep, vars, Boot, ListRows, SkipRow, Reconciled, Serve, SetEnabled, Visiting

(* Whatever interrupted boots, other builds and the operator left in the   *)
(* table, a boot of a well-formed build fails only when a statement fails  *)
(* or the process dies: the safety half of BootServes.                     *)
THEOREM BootNeverTrips == Spec => OnlyFaultsEndBoot
<1>1. Init => BootProgress /\ NothingElse
  BY DEF Init, BootProgress, NothingElse
<1>2. TypeOK /\ BootProgress /\ NothingElse /\ [Next]_vars
      => (BootProgress /\ NothingElse)'
  BY ProgressStep, NothingElseStep
<1>3. TypeOK /\ BootProgress /\ NothingElse /\ [Next]_vars
      => [WellFormed(build) /\ pc # "down" /\ pc' = "down" => faults' = faults + 1]_vars
  BY NoTrip
<1> QED
  BY <1>1, <1>2, <1>3, TypeCorrect, PTL DEF Spec, OnlyFaultsEndBoot
=============================================================================
