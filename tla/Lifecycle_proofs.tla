--------------------------- MODULE Lifecycle_proofs ---------------------------
(***************************************************************************)
(* Proofs about Lifecycle, for any number of requests and signals.         *)
(*                                                                         *)
(* SchedulerStoreOpen says where the poll goroutine may be when the store  *)
(* is closed; it is kept because of where run is when either changes,      *)
(* which is Staged.  CleanExitDrained is kept because of what result       *)
(* stands for on the way out, which is Drained.                            *)
(***************************************************************************)
EXTENDS Lifecycle, TLAPS

(* The order of run: the store before the poll goroutine, and after it.    *)
Staged ==
    /\ main \in {"config", "open", "reconcile", "poll"} => sched = None
    /\ main \in {"reconcile", "poll", "listen", "wait", "shutdown", "cancel", "join", "close"}
       => db = "open"
    /\ main \in {"close", "return"} => sched \in {None, "stopped"}

(* A result of nil stands for a signal and a server without requests.      *)
Drained ==
    /\ main \in {"config", "open", "reconcile", "poll", "listen", "wait"} => ~shutdown
    /\ serveErr = "nil" => shutdown
    /\ main = "shutdown" => signals > 0 /\ shutdown
    /\ result = "nil" => signals > 0 /\ shutdown /\ handlers = 0
    /\ main = "return" => db = "closed"

-----------------------------------------------------------------------------
(* Only the steps below move sched or db, and main never goes back.        *)
LEMMA StagedStep ==
    ASSUME Staged, [Next]_vars
    PROVE  Staged'
<1> USE DEF Staged
<1>1. CASE MainStep
  BY <1>1 DEF MainStep, LoadConfig, OpenStore, Reconcile, StartScheduler, StartServer,
     Select, Shutdown, CancelScheduler, Join, CloseStore, Exit, None
<1>2. CASE SchedStep
  BY <1>2 DEF SchedStep, SchedBegin, SchedPanic, SchedTick, SchedStop, SchedList,
     SchedVisit, SchedCollect, SchedMoves, None
<1>3. CASE ServeStep \/ HandlerStart \/ HandlerEnd \/ Signal
  BY <1>3 DEF ServeStep, Listen, ServeReturn, HandlerStart, HandlerEnd, Signal
<1>4. CASE UNCHANGED vars
  BY <1>4 DEF vars
<1> QED
  BY <1>1, <1>2, <1>3, <1>4 DEF Next

(* The poll goroutine finds the store open in every step and is gone when  *)
(* the store closes.                                                       *)
LEMMA StoreOpenStep ==
    ASSUME Staged, SchedulerStoreOpen, [Next]_vars
    PROVE  SchedulerStoreOpen'
<1> USE DEF Staged, SchedulerStoreOpen, Running
<1>1. CASE MainStep
  BY <1>1 DEF MainStep, LoadConfig, OpenStore, Reconcile, StartScheduler, StartServer,
     Select, Shutdown, CancelScheduler, Join, CloseStore, Exit, None
<1>2. CASE SchedStep
  BY <1>2 DEF SchedStep, SchedBegin, SchedPanic, SchedTick, SchedStop, SchedList,
     SchedVisit, SchedCollect, SchedMoves, None
<1>3. CASE ServeStep \/ HandlerStart \/ HandlerEnd \/ Signal
  BY <1>3 DEF ServeStep, Listen, ServeReturn, HandlerStart, HandlerEnd, Signal
<1>4. CASE UNCHANGED vars
  BY <1>4 DEF vars
<1> QED
  BY <1>1, <1>2, <1>3, <1>4 DEF Next

(* The poll goroutine never touches a closed store, on every exit path.    *)
THEOREM SchedulerOutlived == Spec => []SchedulerStoreOpen
<1>1. Init => Staged /\ SchedulerStoreOpen
  BY DEF Init, Staged, SchedulerStoreOpen
<1>2. Staged /\ SchedulerStoreOpen /\ [Next]_vars => (Staged /\ SchedulerStoreOpen)'
  BY StagedStep, StoreOpenStep
<1> QED
  BY <1>1, <1>2, PTL DEF Spec

-----------------------------------------------------------------------------
(* The wait comes after the cancellation, which is never taken back.       *)
Called == main = "join" => cancelled

LEMMA CalledStep ==
    ASSUME Called, [Next]_vars
    PROVE  Called'
<1> USE DEF Called
<1>1. CASE MainStep
  BY <1>1 DEF MainStep, LoadConfig, OpenStore, Reconcile, StartScheduler, StartServer,
     Select, Shutdown, CancelScheduler, Join, CloseStore, Exit
<1>2. CASE SchedStep
  BY <1>2 DEF SchedStep, SchedBegin, SchedPanic, SchedTick, SchedStop, SchedList,
     SchedVisit, SchedCollect, SchedMoves
<1>3. CASE ServeStep \/ HandlerStart \/ HandlerEnd \/ Signal
  BY <1>3 DEF ServeStep, Listen, ServeReturn, HandlerStart, HandlerEnd, Signal
<1>4. CASE UNCHANGED vars
  BY <1>4 DEF vars
<1> QED
  BY <1>1, <1>2, <1>3, <1>4 DEF Next

(* A call begins in SchedVisit only, under a context that is not done.     *)
LEMMA JoiningStep ==
    ASSUME Staged, Called, Next, main \in {"join", "close", "return"}, sched # "collect"
    PROVE  sched' # "collect"
<1>1. CASE main = "join"
  <2>1. SchedDone
    BY <1>1 DEF Called, SchedDone
  <2>2. CASE SchedVisit
    BY <2>1, <2>2 DEF SchedVisit, SchedMoves
  <2>3. CASE SchedBegin \/ SchedPanic \/ SchedTick \/ SchedStop \/ SchedList \/ SchedCollect
    BY <2>3 DEF SchedBegin, SchedPanic, SchedTick, SchedStop, SchedList, SchedCollect,
       SchedMoves
  <2>4. CASE MainStep
    BY <1>1, <2>4 DEF MainStep, LoadConfig, OpenStore, Reconcile, StartScheduler,
       StartServer, Select, Shutdown, CancelScheduler, Join, CloseStore, Exit
  <2>5. CASE ServeStep \/ HandlerStart \/ HandlerEnd \/ Signal
    BY <2>5 DEF ServeStep, Listen, ServeReturn, HandlerStart, HandlerEnd, Signal
  <2>. QED BY <2>2, <2>3, <2>4, <2>5 DEF Next, SchedStep
<1>2. CASE main \in {"close", "return"}
  <2>1. sched \in {None, "stopped"}
    BY <1>2 DEF Staged
  <2>2. CASE SchedStep
    BY <2>1, <2>2 DEF SchedStep, SchedBegin, SchedPanic, SchedTick, SchedStop, SchedList,
       SchedVisit, SchedCollect, SchedMoves, None
  <2>3. CASE MainStep
    BY <1>2, <2>3 DEF MainStep, LoadConfig, OpenStore, Reconcile, StartScheduler,
       StartServer, Select, Shutdown, CancelScheduler, Join, CloseStore, Exit
  <2>4. CASE ServeStep \/ HandlerStart \/ HandlerEnd \/ Signal
    BY <2>4 DEF ServeStep, Listen, ServeReturn, HandlerStart, HandlerEnd, Signal
  <2>. QED BY <2>2, <2>3, <2>4 DEF Next
<1> QED
  BY <1>1, <1>2

(* While run waits for the poll goroutine, and after that, no call to an   *)
(* upstream begins, whether a signal or a failing listener ended run.      *)
THEOREM JoinIsQuiet == Spec => NoCallWhileJoining
<1>1. Init => Staged /\ Called
  BY DEF Init, Staged, Called
<1>2. Staged /\ Called /\ [Next]_vars => (Staged /\ Called)'
  BY StagedStep, CalledStep
<1>3. Staged /\ Called /\ [Next]_vars
      => [(main \in {"join", "close", "return"} /\ sched # "collect")
           => (sched' # "collect")]_vars
  BY JoiningStep
<1> QED
  BY <1>1, <1>2, <1>3, PTL DEF Spec, NoCallWhileJoining

-----------------------------------------------------------------------------
Counting == signals \in Nat /\ handlers \in Nat

(* The counts of signals and of running requests stay natural numbers.     *)
LEMMA CountingStep ==
    ASSUME Counting, [Next]_vars
    PROVE  Counting'
<1> USE DEF Counting
<1>1. CASE MainStep
  BY <1>1 DEF MainStep, LoadConfig, OpenStore, Reconcile, StartScheduler, StartServer,
     Select, Shutdown, CancelScheduler, Join, CloseStore, Exit
<1>2. CASE SchedStep
  BY <1>2 DEF SchedStep, SchedBegin, SchedPanic, SchedTick, SchedStop, SchedList,
     SchedVisit, SchedCollect, SchedMoves
<1>3. CASE ServeStep
  BY <1>3 DEF ServeStep, Listen, ServeReturn
<1>4. CASE HandlerStart \/ HandlerEnd \/ Signal
  BY <1>4 DEF HandlerStart, HandlerEnd, Signal
<1>5. CASE UNCHANGED vars
  BY <1>5 DEF vars
<1> QED
  BY <1>1, <1>2, <1>3, <1>4, <1>5 DEF Next

(* Shutdown was called before nil can come out of the listener or of       *)
(* Shutdown, and after it no request begins.                               *)
LEMMA DrainedStep ==
    ASSUME Counting, Drained, [Next]_vars
    PROVE  Drained'
<1> USE DEF Counting, Drained
<1>1. CASE MainStep
  BY <1>1 DEF MainStep, LoadConfig, OpenStore, Reconcile, StartScheduler, StartServer,
     Select, Shutdown, CancelScheduler, Join, CloseStore, Exit, Stopping, None
<1>2. CASE SchedStep
  BY <1>2 DEF SchedStep, SchedBegin, SchedPanic, SchedTick, SchedStop, SchedList,
     SchedVisit, SchedCollect, SchedMoves
<1>3. CASE ServeStep
  BY <1>3 DEF ServeStep, Listen, ServeReturn
<1>4. CASE HandlerStart
  BY <1>4 DEF HandlerStart
<1>5. CASE HandlerEnd
  BY <1>5 DEF HandlerEnd
<1>6. CASE Signal
  BY <1>6 DEF Signal
<1>7. CASE UNCHANGED vars
  BY <1>7 DEF vars
<1> QED
  BY <1>1, <1>2, <1>3, <1>4, <1>5, <1>6, <1>7 DEF Next

(* Only Exit ends the process with status 0, and nothing runs afterwards.  *)
LEMMA CleanExitStep ==
    ASSUME Counting, Drained, CleanExitDrained, [Next]_vars
    PROVE  CleanExitDrained'
<1> USE DEF CleanExitDrained, Running
<1>1. CASE MainStep
  BY <1>1 DEF MainStep, LoadConfig, OpenStore, Reconcile, StartScheduler, StartServer,
     Select, Shutdown, CancelScheduler, Join, CloseStore, Exit, Drained
<1>2. CASE SchedStep
  BY <1>2 DEF SchedStep, SchedBegin, SchedPanic, SchedTick, SchedStop, SchedList,
     SchedVisit, SchedCollect, SchedMoves
<1>3. CASE ServeStep \/ HandlerStart \/ HandlerEnd \/ Signal
  BY <1>3 DEF ServeStep, Listen, ServeReturn, HandlerStart, HandlerEnd, Signal
<1>4. CASE UNCHANGED vars
  BY <1>4 DEF vars
<1> QED
  BY <1>1, <1>2, <1>3, <1>4 DEF Next

(* Exit status 0 means a signal, no request cut off and a closed store.    *)
THEOREM CleanExit == Spec => []CleanExitDrained
<1>1. Init => Counting /\ Drained /\ CleanExitDrained
  BY DEF Init, Counting, Drained, CleanExitDrained, Running, None
<1>2. Counting /\ Drained /\ CleanExitDrained /\ [Next]_vars
      => (Counting /\ Drained /\ CleanExitDrained)'
  BY CountingStep, DrainedStep, CleanExitStep
<1> QED
  BY <1>1, <1>2, PTL DEF Spec

-----------------------------------------------------------------------------
(* On the way out run always has a result to return.                       *)
Decided == main \in {"cancel", "join", "close", "return"} => result # None

LEMMA TypeStep ==
    ASSUME TypeOK, Decided, [Next]_vars
    PROVE  TypeOK' /\ Decided'
<1> USE LifecycleAssumption DEF TypeOK, Decided, Configs, None
<1>1. CASE LoadConfig \/ OpenStore \/ Reconcile \/ StartScheduler \/ StartServer
  BY <1>1 DEF LoadConfig, OpenStore, Reconcile, StartScheduler, StartServer
<1>2. CASE Select \/ Shutdown \/ CancelScheduler \/ Join \/ CloseStore \/ Exit
  <2>1. shutdown' \in BOOLEAN /\ cancelled' \in BOOLEAN
    BY <1>2 DEF Select, Shutdown, CancelScheduler, Join, CloseStore, Exit
  <2>2. exit' \in 0..2
    BY <1>2 DEF Select, Shutdown, CancelScheduler, Join, CloseStore, Exit
  <2>3. UNCHANGED <<config, signals, server, serveErr, handlers, sched>>
    BY <1>2 DEF Select, Shutdown, CancelScheduler, Join, CloseStore, Exit
  <2>4. /\ main' \in {"shutdown", "cancel", "join", "close", "return", "exited"}
        /\ result' \in {None, "nil", "error"}
        /\ db' \in {"closed", "open"}
        /\ main' \in {"cancel", "join", "close", "return"} => result' # None
    BY <1>2 DEF Select, Shutdown, CancelScheduler, Join, CloseStore, Exit
  <2>. QED BY <2>1, <2>2, <2>3, <2>4
<1>3. CASE ServeStep
  BY <1>3 DEF ServeStep, Listen, ServeReturn
<1>4. CASE HandlerStart \/ HandlerEnd \/ Signal
  BY <1>4 DEF HandlerStart, HandlerEnd, Signal
<1>5. CASE SchedStep
  BY <1>5 DEF SchedStep, SchedBegin, SchedPanic, SchedTick, SchedStop, SchedList,
     SchedVisit, SchedCollect, SchedMoves
<1>6. CASE UNCHANGED vars
  BY <1>6 DEF vars
<1> QED
  BY <1>1, <1>2, <1>3, <1>4, <1>5, <1>6 DEF Next, MainStep

(* Every state is one of the program's, and run never returns without a    *)
(* result: an error, or nil from the listener or from Shutdown.            *)
THEOREM TypeCorrect == Spec => []TypeOK
<1>1. Init => TypeOK /\ Decided
  <2>1. 0 \in 0..MaxSignals /\ 0 \in 0..MaxHandlers /\ 0 \in 0..2
    BY LifecycleAssumption
  <2>2. None # "nil" /\ None # "error"
    BY DEF None
  <2>. QED BY <2>1, <2>2 DEF Init, TypeOK, Decided
<1>2. TypeOK /\ Decided /\ [Next]_vars => (TypeOK /\ Decided)'
  BY TypeStep
<1> QED
  BY <1>1, <1>2, PTL DEF Spec
=============================================================================
