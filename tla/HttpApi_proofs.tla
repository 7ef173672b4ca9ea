--------------------------- MODULE HttpApi_proofs ---------------------------
(***************************************************************************)
(* Theorems about HttpApi, for any number of requests, providers and       *)
(* credential fields.                                                      *)
(***************************************************************************)
EXTENDS HttpApi, TLAPS

(* What the type of a frame leaves open.  A frame at a statement or at the *)
(* upstream has a registered provider, unless it lists them; the fields it *)
(* has still to read or write are declared ones; a status is decided       *)
(* before it is sent, sent before it is logged, and 404 decided only by    *)
(* the routing.                                                            *)
Shape(fr) ==
    /\ fr.pc \in {"wait", "hold", "upstream"} =>
         /\ fr.op = "list" \/ (fr.op \in ProviderOps /\ fr.id \in Ids)
         /\ fr.status = None
    /\ fr.op = "list" => fr.stmt \in {"list", None}
    /\ fr.stmt \in {"upsert", "secret"} => fr.left \subseteq Fields(fr.id)
    /\ fr.pc = "upstream" => fr.op = "refresh"
    /\ fr.pc \in {"write", "log"} => fr.status \in Statuses /\ fr.stmt = None /\ fr.left = {}
    /\ fr.pc = "log" => fr.sent = fr.status /\ fr.rec = fr.status
    /\ fr.pc # "log" => fr.sent = None
    /\ fr.pc = "idle" => fr = IdleFrame
    /\ fr.status = 404 => fr.op = "route" \/ fr.id = Unknown
    /\ fr.status = 409 => fr.op = "refresh" /\ fr.id \in Ids

Shapes == \A r \in Requests : Shape(frame[r])

(* A step of a request moves its own frame, to a frame of the same shape.  *)
Moves(r) ==
    \E fr \in Frame : Shape(fr) /\ frame' = [frame EXCEPT ![r] = fr]

LEMMA StatusFacts ==
    /\ {200, 204, 400, 404, 405, 409, 415, 500} \subseteq Statuses
    /\ \A status \in Statuses : status # None
BY HttpAssumption DEF Statuses

LEMMA OpFacts ==
    /\ ProviderOps \cup {"list", "unknown", "body", "method", "route"} \subseteq Ops
    /\ {"list", "row", "flag", "upsert", "presence", "delete", "snapshot", "secret", "replace"}
         \subseteq Statements
    /\ \A op \in Ops : op # None
    /\ \A stmt \in Statements : stmt # None
BY HttpAssumption DEF Ops, ProviderOps, Statements

(* The frames the handlers pass on are frames.                             *)
LEMMA DecideTyped ==
    ASSUME NEW r, frame[r] \in Frame, NEW status \in Statuses
    PROVE  Decide(r, status) \in Frame
BY DEF Decide, Frame

LEMMA AskTyped ==
    ASSUME NEW r, frame[r] \in Frame, NEW stmt \in Statements, NEW left \in SUBSET Nat
    PROVE  Ask(r, stmt) \in Frame /\ [Ask(r, stmt) EXCEPT !.left = left] \in Frame
BY DEF Ask, Frame

LEMMA EnteredTyped ==
    ASSUME NEW op \in Ops, NEW id \in Ids \cup {Unknown, None}
    PROVE  /\ IdleFrame \in Frame
           /\ \A status \in Statuses : Refused(op, id, status) \in Frame
           /\ \A stmt \in Statements : Begun(op, id, stmt) \in Frame
<1>1. 200 \in Statuses
  BY DEF Statuses
<1>2. IdleFrame \in Frame
  BY DEF IdleFrame, Frame
<1>3. ASSUME NEW status \in Statuses
      PROVE  Refused(op, id, status) \in Frame
  BY <1>1 DEF Refused, Entered, IdleFrame, Frame
<1>4. ASSUME NEW stmt \in Statements
      PROVE  Begun(op, id, stmt) \in Frame
  BY <1>1 DEF Begun, Entered, IdleFrame, Frame
<1>. QED BY <1>2, <1>3, <1>4

LEMMA RequestMoves ==
    ASSUME TypeOK, Shapes, NEW r \in Requests, Step(r)
    PROVE  Moves(r)
<1> DEFINE old == frame[r]
<1>0. old \in Frame /\ Shape(old)
  BY DEF TypeOK, Shapes
<1>d. ASSUME NEW status \in Statuses \ {404, 409}, old.pc \notin {"idle", "log"}
      PROVE  Decide(r, status) \in Frame /\ Shape(Decide(r, status))
  <2>1. Decide(r, status) \in Frame
    BY <1>0, StatusFacts, DecideTyped
  <2>2. Shape(Decide(r, status))
    BY <1>0, <1>d, <2>1 DEF Decide, Shape, Statuses
  <2>. QED BY <2>1, <2>2
<1>c. ASSUME old.op = "refresh", old.id \in Ids, old.pc \notin {"idle", "log"}
      PROVE  Decide(r, 409) \in Frame /\ Shape(Decide(r, 409))
  <2>1. Decide(r, 409) \in Frame
    BY <1>0, StatusFacts, DecideTyped
  <2>2. Shape(Decide(r, 409))
    BY <1>0, <1>c, <2>1 DEF Decide, Shape, Statuses
  <2>. QED BY <2>1, <2>2
<1>a. ASSUME NEW stmt \in Statements \ {"list", "upsert", "secret"}, old.op # "list",
             old.pc \in {"hold", "upstream"}
      PROVE  Ask(r, stmt) \in Frame /\ Shape(Ask(r, stmt))
  <2>1. Ask(r, stmt) \in Frame
    BY <1>0, AskTyped
  <2>2. Shape(Ask(r, stmt))
    BY <1>0, <1>a DEF Ask, Shape
  <2>. QED BY <2>1, <2>2
<1>b. ASSUME NEW stmt \in {"upsert", "secret"}, old.op # "list", old.pc = "hold",
             NEW left \in SUBSET Fields(old.id)
      PROVE  /\ [Ask(r, stmt) EXCEPT !.left = left] \in Frame
             /\ Shape([Ask(r, stmt) EXCEPT !.left = left])
  <2>1. [Ask(r, stmt) EXCEPT !.left = left] \in Frame
    BY <1>0, OpFacts, AskTyped DEF Fields
  <2>2. Shape([Ask(r, stmt) EXCEPT !.left = left])
    BY <1>0, <1>b DEF Ask, Shape
  <2>. QED BY <2>1, <2>2
<1>1. CASE Receive(r)
  <2>1. ASSUME NEW op \in {"route", "method", "unknown", "body"}, NEW id \in {None, Unknown},
               NEW status \in {400, 404, 405, 415},
               status = 404 => op = "route" \/ id = Unknown
        PROVE  Refused(op, id, status) \in Frame /\ Shape(Refused(op, id, status))
    <3>1. op \in Ops /\ status \in Statuses /\ op # "list" /\ status # 409
      BY StatusFacts, OpFacts
    <3>2. Refused(op, id, status) \in Frame
      BY <3>1, EnteredTyped
    <3>3. Shape(Refused(op, id, status))
      BY <2>1, <3>1, HttpAssumption DEF Refused, Entered, IdleFrame, Shape
    <3>. QED BY <3>2, <3>3
  <2>2. Begun("list", None, "list") \in Frame /\ Shape(Begun("list", None, "list"))
    <3>1. Begun("list", None, "list") \in Frame
      BY OpFacts, EnteredTyped
    <3>2. Shape(Begun("list", None, "list"))
      BY StatusFacts, HttpAssumption DEF Begun, Entered, IdleFrame, Shape
    <3>. QED BY <3>1, <3>2
  <2>3. ASSUME NEW op \in ProviderOps, NEW id \in Ids
        PROVE  Begun(op, id, First(op)) \in Frame /\ Shape(Begun(op, id, First(op)))
    <3>1. First(op) \in {"flag", "row"} /\ op # "list"
      BY DEF First, ProviderOps
    <3>2. Begun(op, id, First(op)) \in Frame
      BY <3>1, OpFacts, EnteredTyped
    <3>3. Shape(Begun(op, id, First(op)))
      BY <3>1, StatusFacts, HttpAssumption DEF Begun, Entered, IdleFrame, Shape
    <3>. QED BY <3>2, <3>3
  <2>. QED BY <1>1, <2>1, <2>2, <2>3 DEF Receive, Moves, Move
<1>2. CASE Acquire(r)
  <2>1. [old EXCEPT !.pc = "hold"] \in Frame /\ Shape([old EXCEPT !.pc = "hold"])
    BY <1>0, <1>2 DEF Acquire, Shape, Frame
  <2>. QED BY <1>2, <2>1 DEF Acquire, Moves, Move
<1>3. CASE Fail(r) \/ Panic(r)
  BY <1>3, <1>d, StatusFacts DEF Fail, Panic, Moves, Move
<1>4. CASE Show(r) \/ Flag(r) \/ GetPresence(r) \/ GetUsage(r) \/ DeleteCredentials(r)
  BY <1>4, <1>d, StatusFacts
  DEF Show, Flag, GetPresence, GetUsage, DeleteCredentials, At, Done, Moves, Move
<1>5. CASE RowExists(r)
  <2>1. Second[old.op] \in Statements \ {"list", "upsert", "secret"} /\ old.op # "list"
    BY <1>5, OpFacts DEF RowExists, Second
  <2>. QED BY <1>5, <2>1, <1>a DEF RowExists, At, Done, Moves, Move
<1>6. ASSUME old.op = "put", old.pc = "hold", NEW left \in SUBSET Fields(old.id)
      PROVE  Storing(r, left) \in Frame /\ Shape(Storing(r, left))
  BY <1>6, <1>b, <1>d, StatusFacts DEF Storing
<1>7. CASE Validate(r)
  <2>1. CASE Done(r, Storing(r, Fields(old.id)))
    BY <1>7, <2>1, <1>6 DEF Validate, At, Done, Moves, Move
  <2>2. CASE Done(r, Decide(r, 400))
    <3>1. 400 \in Statuses \ {404, 409} /\ old.pc = "hold"
      BY <1>7, StatusFacts DEF Validate, At
    <3>2. Decide(r, 400) \in Frame /\ Shape(Decide(r, 400))
      BY <3>1, <1>d
    <3>. QED BY <2>2, <3>2 DEF Done, Moves, Move
  <2>. QED BY <1>7, <2>1, <2>2 DEF Validate
<1>8. CASE Upsert(r)
  <2>1. old.left \subseteq Fields(old.id) /\ old.op = "put" /\ old.pc = "hold"
    BY <1>0, <1>8 DEF Upsert, At, Shape
  <2>2. PICK f \in old.left : Done(r, Storing(r, old.left \ {f}))
    BY <1>8 DEF Upsert
  <2>. QED BY <2>1, <2>2, <1>6 DEF Done, Moves, Move
<1>9. ASSUME old.op = "refresh", old.pc = "hold", NEW left \in SUBSET Fields(old.id)
      PROVE  Loading(r, left) \in Frame /\ Shape(Loading(r, left))
  <2>1. [old EXCEPT !.pc = "upstream", !.stmt = None, !.left = {}] \in Frame
    BY <1>0 DEF Frame
  <2>2. Shape([old EXCEPT !.pc = "upstream", !.stmt = None, !.left = {}])
    BY <1>0, <1>9, OpFacts DEF Shape
  <2>. QED BY <1>9, <1>b, <2>1, <2>2 DEF Loading
<1>10. CASE CollectRow(r)
  <2>1. old.op = "refresh" /\ old.pc = "hold" /\ old.id \in Ids
    BY <1>0, <1>10 DEF CollectRow, At, Shape
  <2>2. \/ frame' = [frame EXCEPT ![r] = Loading(r, Fields(old.id))]
        \/ frame' = [frame EXCEPT ![r] = Decide(r, 409)]
    BY <1>10 DEF CollectRow, Done, Move
  <2>. QED BY <2>1, <2>2, <1>9, <1>c DEF Moves
<1>11. CASE CollectSecret(r)
  <2>1. /\ old.op = "refresh" /\ old.pc = "hold" /\ old.id \in Ids
        /\ old.left \subseteq Fields(old.id)
    BY <1>0, <1>11 DEF CollectSecret, At, Shape
  <2>2. PICK f \in old.left : \/ frame' = [frame EXCEPT ![r] = Loading(r, old.left \ {f})]
                              \/ frame' = [frame EXCEPT ![r] = Decide(r, 409)]
    BY <1>11 DEF CollectSecret, Done, Move
  <2>. QED BY <2>1, <2>2, <1>9, <1>c DEF Moves
<1>12. CASE Upstream(r)
  <2>1. old.op = "refresh" /\ old.pc = "upstream" /\ old.id \in Ids
    BY <1>0, <1>12 DEF Upstream, Shape
  <2>. QED BY <1>12, <2>1, <1>a, <1>c, OpFacts DEF Upstream, Moves, Move
<1>13. CASE CollectReplace(r)
  <2>1. 200 \in Statuses \ {404, 409} /\ old.pc = "hold"
    BY <1>13, StatusFacts DEF CollectReplace, At
  <2>2. Decide(r, 200) \in Frame /\ Shape(Decide(r, 200))
    BY <2>1, <1>d
  <2>. QED BY <1>13, <2>2 DEF CollectReplace, Done, Moves, Move
<1>14. CASE Respond(r)
  <2> DEFINE new == [old EXCEPT !.pc = "log", !.sent = old.status, !.rec = old.status]
  <2>1. old.status \in Statuses
    BY <1>0, <1>14 DEF Respond, Shape
  <2>2. new \in Frame
    BY <1>0, <2>1 DEF Frame
  <2>3. Shape(new)
    BY <1>0, <1>14 DEF Respond, Shape
  <2>. QED BY <1>14, <2>2, <2>3 DEF Respond, Moves, Move
<1>15. CASE Log(r)
  <2>1. IdleFrame \in Frame
    BY EnteredTyped, OpFacts
  <2>2. Shape(IdleFrame)
    BY HttpAssumption, StatusFacts, OpFacts DEF IdleFrame, Shape
  <2>. QED BY <1>15, <2>1, <2>2 DEF Log, Moves, Move
<1>. QED
  BY <1>1, <1>2, <1>3, <1>4, <1>5, <1>7, <1>8, <1>10, <1>11, <1>12, <1>13, <1>14, <1>15
  DEF Step, Work

(* What a step does to the connection, the log and the tables.             *)
LEMMA RequestEffects ==
    ASSUME TypeOK, Shapes, NEW r \in Requests, Step(r)
    PROVE  /\ conn' \in {conn, None, r}
           /\ line' \in (Requests \X Statuses) \cup {None}
           /\ \/ UNCHANGED <<enabled, cred, snap>>
              \/ Flag(r) /\ enabled' \in [Ids -> BOOLEAN] /\ UNCHANGED <<cred, snap>>
              \/ DeleteCredentials(r) /\ UNCHANGED <<enabled, snap>>
              \/ Upsert(r) /\ UNCHANGED <<enabled, snap>>
              \/ CollectReplace(r) /\ snap' \in [Ids -> BOOLEAN] /\ UNCHANGED <<enabled, cred>>
<1>1. CASE Receive(r) \/ Acquire(r) \/ Fail(r) \/ Panic(r) \/ Upstream(r) \/ Respond(r)
  BY <1>1 DEF Receive, Acquire, Fail, Panic, Upstream, Respond, Silent, tables
<1>2. CASE Show(r) \/ RowExists(r) \/ GetPresence(r) \/ GetUsage(r) \/ Validate(r)
  BY <1>2 DEF Show, RowExists, GetPresence, GetUsage, Validate, Done, Silent, tables
<1>3. CASE CollectRow(r) \/ CollectSecret(r)
  BY <1>3 DEF CollectRow, CollectSecret, Done, Silent, tables
<1>4. CASE Flag(r)
  BY <1>4 DEF Flag, Done, Silent, TypeOK
<1>5. CASE DeleteCredentials(r) \/ Upsert(r)
  BY <1>5 DEF DeleteCredentials, Upsert, Done, Silent
<1>6. CASE CollectReplace(r)
  BY <1>6 DEF CollectReplace, Done, Silent, TypeOK
<1>7. CASE Log(r)
  <2>1. frame[r].rec \in Statuses
    BY <1>7 DEF Log, Shapes, Shape
  <2>. QED BY <1>7, <2>1 DEF Log, tables
<1>. QED BY <1>1, <1>2, <1>3, <1>4, <1>5, <1>6, <1>7 DEF Step, Work

LEMMA StartsTyped == Init => TypeOK /\ Shapes
<1>1. Shape(IdleFrame) /\ IdleFrame \in Frame
  <2>1. IdleFrame \in Frame
    BY EnteredTyped, OpFacts
  <2>. QED BY <2>1, HttpAssumption, StatusFacts, OpFacts DEF IdleFrame, Shape
<1>2. Init => Shapes
  BY <1>1 DEF Init, Shapes
<1>3. Init => frame \in [Requests -> Frame]
  BY <1>1 DEF Init
<1>4. Init => /\ cred \in [Ids -> SUBSET Nat]
              /\ \A id \in Ids : cred[id] \subseteq Fields(id)
  BY DEF Init
<1>. QED BY <1>2, <1>3, <1>4 DEF Init, TypeOK

LEMMA StaysTyped ==
    ASSUME TypeOK, Shapes, [Next]_vars
    PROVE  TypeOK' /\ Shapes'
<1>1. CASE UNCHANGED vars
  BY <1>1 DEF vars, tables, TypeOK, Shapes
<1>2. ASSUME NEW r \in Requests, Step(r), Watch, UNCHANGED fetchers
      PROVE  TypeOK' /\ Shapes'
  <2>1. frame' \in [Requests -> Frame] /\ Shapes'
    <3>1. PICK fr \in Frame : Shape(fr) /\ frame' = [frame EXCEPT ![r] = fr]
      BY <1>2, RequestMoves DEF Moves
    <3>. QED BY <3>1 DEF TypeOK, Shapes
  <2>2. /\ enabled' \in [Ids -> BOOLEAN]
        /\ snap' \in [Ids -> BOOLEAN]
        /\ conn' \in Requests \cup {None}
        /\ line' \in (Requests \X Statuses) \cup {None}
    BY <1>2, RequestEffects DEF TypeOK
  <2>3. cred' \in [Ids -> SUBSET Nat] /\ \A id \in Ids : cred'[id] \subseteq Fields(id)
    <3>1. CASE UNCHANGED cred
      BY <3>1 DEF TypeOK
    <3>2. CASE DeleteCredentials(r)
      BY <3>2 DEF DeleteCredentials, TypeOK
    <3>3. CASE Upsert(r)
      <4>1. frame[r].left \subseteq Fields(frame[r].id)
        BY <3>3 DEF Upsert, At, Shapes, Shape
      <4>2. PICK f \in frame[r].left :
              cred' = [cred EXCEPT ![frame[r].id] = @ \cup {f}]
        BY <3>3 DEF Upsert
      <4>3. f \in Fields(frame[r].id)
        BY <4>1
      <4>4. f \in Nat
        BY <4>3 DEF Fields
      <4>. QED BY <4>2, <4>3, <4>4 DEF TypeOK
    <3>. QED BY <1>2, <3>1, <3>2, <3>3, RequestEffects
  <2>4. excuse' \in [Requests -> BOOLEAN] /\ alone' \in [Requests -> BOOLEAN]
    BY <1>2 DEF Watch
  <2>. QED BY <1>2, <2>1, <2>2, <2>3, <2>4 DEF TypeOK
<1>. QED BY <1>1, <1>2 DEF Next

(* Every frame stays a frame, and only declared fields are ever stored,    *)
(* whatever statements of other requests come between two of one.          *)
THEOREM TypeCorrect == Spec => []TypeOK
<1>1. TypeOK /\ Shapes /\ [Next]_vars => (TypeOK /\ Shapes)'
  BY StaysTyped
<1>. QED BY <1>1, StartsTyped, PTL DEF Spec

LEMMA AlwaysShaped == Spec => [](TypeOK /\ Shapes)
<1>1. TypeOK /\ Shapes /\ [Next]_vars => (TypeOK /\ Shapes)'
  BY StaysTyped
<1>. QED BY <1>1, StartsTyped, PTL DEF Spec

(* 404 reaches a client only for an unknown path or provider, although     *)
(* the store's ErrNotFound also stands for a missing credential and a      *)
(* missing snapshot.                                                       *)
THEOREM NotFoundIsHonest == Spec => []NotFoundMeansUnknown
<1>1. TypeOK /\ Shapes => NotFoundMeansUnknown
  <2>1. ASSUME Shapes, NEW r \in Requests, frame[r].sent = 404
        PROVE  frame[r].op = "route" \/ frame[r].id = Unknown
    <3>1. frame[r].sent # None
      BY <2>1, StatusFacts
    <3>. QED BY <2>1, <3>1 DEF Shapes, Shape
  <2>. QED BY <2>1 DEF NotFoundMeansUnknown
<1>. QED BY <1>1, AlwaysShaped, PTL

-----------------------------------------------------------------------------
(* Receive opens a request, Respond answers it, Log closes it; between     *)
(* Receive and Respond a handler moves within the open phase.              *)
Working(r) == frame[r].pc \notin {"idle", "log"}

LEMMA HandlerStaysOpen ==
    ASSUME NEW r \in Requests, TypeOK, Shapes, Step(r),
           ~Receive(r), ~Respond(r), ~Log(r)
    PROVE  /\ Working(r) /\ Working(r)'
           /\ line' = None
           /\ frame'[r].op = frame[r].op /\ frame'[r].id = frame[r].id
<1> DEFINE old == frame[r]
           Kept(fr) == fr.op = old.op /\ fr.id = old.id
<1>0. frame \in [Requests -> Frame]
  BY DEF TypeOK
<1>d. ASSUME NEW s, old.pc # "idle" PROVE Decide(r, s).pc = "write" /\ Kept(Decide(r, s))
  BY <1>0 DEF Decide, Frame
<1>a. ASSUME NEW stmt PROVE Ask(r, stmt).pc = "wait" /\ Kept(Ask(r, stmt))
  BY <1>0 DEF Ask, Frame
<1>e. ASSUME NEW fr, fr.pc \in {"wait", "hold", "upstream", "write"}, Kept(fr), Move(r, fr)
      PROVE  Working(r)' /\ frame'[r].op = old.op /\ frame'[r].id = old.id
  BY <1>0, <1>e DEF Move, Working
<1>s. ASSUME NEW left PROVE Storing(r, left).pc \in {"wait", "write"} /\ Kept(Storing(r, left))
  BY <1>0 DEF Storing, Decide, Ask, Frame
<1>l. ASSUME NEW left PROVE Loading(r, left).pc \in {"wait", "upstream"} /\ Kept(Loading(r, left))
  BY <1>0 DEF Loading, Ask, Frame
<1>1. CASE Acquire(r)
  <2> DEFINE new == [old EXCEPT !.pc = "hold"]
  <2>1. new.pc = "hold" /\ Kept(new)
    BY <1>0 DEF Frame
  <2>2. Move(r, new) /\ old.pc = "wait" /\ line' = None
    BY <1>1 DEF Acquire, Silent
  <2> HIDE DEF new
  <2>. QED BY <2>1, <2>2, <1>e DEF Working
<1>2. CASE Fail(r) \/ Panic(r)
  BY <1>2, <1>d, <1>e DEF Fail, Panic, Silent, Working
<1>3. CASE Show(r) \/ Flag(r) \/ GetPresence(r) \/ GetUsage(r) \/ DeleteCredentials(r)
  BY <1>3, <1>d, <1>e
  DEF Show, Flag, GetPresence, GetUsage, DeleteCredentials, At, Done, Silent, Working
<1>4. CASE RowExists(r)
  BY <1>4, <1>a, <1>e DEF RowExists, At, Done, Silent, Working
<1>5. CASE Validate(r)
  <2>1. PICK fr \in {Storing(r, Fields(old.id)), Decide(r, 400)} : Done(r, fr)
    BY <1>5 DEF Validate
  <2>. QED BY <1>5, <2>1, <1>s, <1>d, <1>e DEF Validate, At, Done, Silent, Working
<1>10. CASE Upsert(r)
  <2>1. PICK f \in old.left : Done(r, Storing(r, old.left \ {f}))
    BY <1>10 DEF Upsert
  <2>. QED BY <1>10, <2>1, <1>s, <1>e DEF Upsert, At, Done, Silent, Working
<1>6. CASE CollectRow(r)
  <2>1. PICK fr \in {Loading(r, Fields(old.id)), Decide(r, 409)} : Done(r, fr)
    BY <1>6 DEF CollectRow
  <2>. QED BY <1>6, <2>1, <1>l, <1>d, <1>e DEF CollectRow, At, Done, Silent, Working
<1>7. CASE CollectSecret(r)
  <2>1. PICK f \in old.left : \/ Done(r, Loading(r, old.left \ {f}))
                              \/ Done(r, Decide(r, 409))
    BY <1>7 DEF CollectSecret
  <2>. QED BY <1>7, <2>1, <1>l, <1>d, <1>e DEF CollectSecret, At, Done, Silent, Working
<1>8. CASE Upstream(r)
  <2>1. PICK fr \in {Ask(r, "replace"), Decide(r, 409)} : Move(r, fr)
    BY <1>8 DEF Upstream
  <2>. QED BY <1>8, <2>1, <1>a, <1>d, <1>e DEF Upstream, Silent, Working
<1>9. CASE CollectReplace(r)
  <2>1. Decide(r, 200).pc = "write" /\ Kept(Decide(r, 200))
    BY <1>9, <1>d DEF CollectReplace, At
  <2>. QED BY <1>9, <2>1, <1>e DEF CollectReplace, At, Done, Silent, Working
<1>. QED
  BY <1>1, <1>2, <1>3, <1>4, <1>5, <1>6, <1>7, <1>8, <1>9, <1>10 DEF Step, Work

Phases == [r \in Requests |-> Phase(r)]
Sents == [r \in Requests |-> frame[r].sent]

LEMMA AccessStarts == Init => Access!Init
<1>1. IdleFrame.pc = "idle" /\ IdleFrame.sent = None
  BY DEF IdleFrame
<1>2. Init => \A r \in Requests : Phase(r) = "idle" /\ frame[r].sent = None
  BY <1>1 DEF Init, Phase
<1>3. Init => Phases = [r \in Requests |-> "idle"] /\ Sents = [r \in Requests |-> None]
  BY <1>2 DEF Phases, Sents
<1>. QED BY <1>3 DEF Init, Access!Init, Phases, Sents

LEMMA AccessSteps ==
    ASSUME TypeOK, Shapes, [Next]_vars
    PROVE  [Access!Next]_(Access!vars)
<1>1. CASE UNCHANGED vars
  <2>1. UNCHANGED <<frame, line>>
    BY <1>1 DEF vars
  <2>. QED BY <2>1 DEF Access!vars, Phase
<1>2. ASSUME NEW r \in Requests, Step(r)
      PROVE  Access!Next
  <2>1. PICK fr \in Frame : Shape(fr) /\ frame' = [frame EXCEPT ![r] = fr]
    BY <1>2, RequestMoves DEF Moves
  <2>2. frame \in [Requests -> Frame]
    BY DEF TypeOK
  <2>3. Shape(frame[r])
    BY DEF Shapes
  <2>4. frame'[r] = fr /\ \A q \in Requests \ {r} : frame'[q] = frame[q]
    BY <2>1, <2>2
  <2>5. /\ Phases' = [Phases EXCEPT ![r] = Phase(r)']
        /\ Sents' = [Sents EXCEPT ![r] = fr.sent]
    BY <2>1, <2>2, <2>4 DEF Phases, Sents, Phase
  <2>6. CASE Receive(r)
    <3>1. frame[r].pc = "idle" /\ line' = None
      BY <2>6 DEF Receive, Silent
    <3>2. fr.pc \in {"wait", "write"}
      <4>1. \A op, id, status : Refused(op, id, status).pc = "write"
        BY DEF Refused, Entered, IdleFrame
      <4>2. \A op, id, stmt : Begun(op, id, stmt).pc = "wait"
        BY DEF Begun, Entered, IdleFrame
      <4>3. PICK new : Move(r, new) /\ new.pc \in {"wait", "write"}
        BY <2>6, <4>1, <4>2 DEF Receive
      <4>. QED BY <2>2, <2>4, <4>3 DEF Move
    <3>3. Phase(r) = "idle" /\ Phase(r)' = "open"
      BY <3>1, <3>2, <2>4 DEF Phase
    <3>4. Sents' = Sents
      BY <2>1, <2>3, <2>5, <3>1, <3>2 DEF Shape, Sents
    <3>. QED BY <3>1, <3>3, <3>4, <2>5 DEF Access!Next, Access!Open, Phases, Sents
  <2>7. CASE Respond(r)
    <3>1. frame[r].pc = "write" /\ line' = None /\ frame[r].status \in Statuses
      BY <2>3, <2>7 DEF Respond, Silent, Shape
    <3>2. fr.pc = "log" /\ fr.sent = frame[r].status
      BY <2>2, <2>4, <2>7 DEF Respond, Move, Frame
    <3>3. Phase(r) = "open" /\ Phase(r)' = "answered"
      BY <3>1, <3>2, <2>4 DEF Phase
    <3>. QED BY <3>1, <3>2, <3>3, <2>5 DEF Access!Next, Access!Reply, Phases, Sents
  <2>8. CASE Log(r)
    <3>1. frame[r].pc = "log" /\ line' = <<r, frame[r].sent>>
      BY <2>3, <2>8 DEF Log, Shape
    <3>2. fr.pc = "idle" /\ fr.sent = None
      BY <2>2, <2>4, <2>8 DEF Log, Move, IdleFrame
    <3>3. Phase(r) = "answered" /\ Phase(r)' = "idle"
      BY <3>1, <3>2, <2>4 DEF Phase
    <3>. QED BY <3>1, <3>2, <3>3, <2>5 DEF Access!Next, Access!Record, Phases, Sents
  <2>9. CASE ~Receive(r) /\ ~Respond(r) /\ ~Log(r)
    <3>1. Working(r) /\ Working(r)' /\ line' = None
      BY <1>2, <2>9, HandlerStaysOpen
    <3>2. Phase(r) = "open" /\ Phase(r)' = "open"
      BY <3>1 DEF Working, Phase
    <3>3. fr.sent = None /\ frame[r].sent = None
      BY <2>1, <2>3, <2>4, <3>1 DEF Working, Shape
    <3>. QED BY <3>1, <3>2, <3>3, <2>5 DEF Access!Next, Access!Handle, Phases, Sents
  <2>. QED BY <2>6, <2>7, <2>8, <2>9
<1>. QED BY <1>1, <1>2 DEF Next

(* One status and one log line with that status for every request, also    *)
(* for one whose handler panics: the surface implements AccessLog.         *)
THEOREM AnswersAreLogged == Spec => OneAnswerOneLine
<1>1. Init => Access!Init
  BY AccessStarts
<1>2. TypeOK /\ Shapes /\ [Next]_vars => [Access!Next]_(Access!vars)
  BY AccessSteps
<1>. QED BY <1>1, <1>2, AlwaysShaped, PTL DEF Spec, OneAnswerOneLine, Access!Spec

-----------------------------------------------------------------------------
(* A status keeps its excuse from the decision to the log line.            *)
Conflicts == \A r \in Requests : frame[r].status = 409 => excuse[r]

(* 409 is decided only while the provider really is refusable: the row, a  *)
(* credential or the Fetcher that is found missing is missing then.        *)
LEMMA ConflictDecided ==
    ASSUME NEW r \in Requests, TypeOK, Shapes, Step(r),
           frame[r].status # 409, frame'[r].status = 409
    PROVE  /\ frame[r].id \in Ids /\ frame'[r].id = frame[r].id
           /\ Refusable(frame[r].id)
           /\ UNCHANGED <<enabled, cred>>
<1> DEFINE old == frame[r]
<1>0. frame \in [Requests -> Frame] /\ Shape(old) /\ old \in Frame
  BY DEF TypeOK, Shapes
<1>1. ASSUME NEW fr, fr.status # 409, Move(r, fr)
      PROVE  FALSE
  BY <1>0, <1>1 DEF Move
<1>d. ASSUME NEW s PROVE Decide(r, s).status = s /\ Decide(r, s).id = old.id
  BY <1>0 DEF Decide, Frame
<1>a. ASSUME NEW stmt PROVE Ask(r, stmt).status # 409
  BY <1>0 DEF Ask, Frame
<1>s. ASSUME NEW left PROVE Storing(r, left).status # 409
  BY <1>0 DEF Storing, Decide, Ask, Frame
<1>l. ASSUME NEW left PROVE Loading(r, left).status # 409
  BY <1>0 DEF Loading, Ask, Frame
<1>e. ASSUME Move(r, Decide(r, 409)) PROVE frame'[r].id = old.id
  BY <1>0, <1>d, <1>e DEF Move
<1>2. ~Receive(r)
  <2>1. \A op, id : \A status \in {400, 404, 405, 415} : Refused(op, id, status).status # 409
    BY DEF Refused, Entered, IdleFrame
  <2>2. \A op, id, stmt : Begun(op, id, stmt).status # 409
    BY StatusFacts DEF Begun, Entered, IdleFrame
  <2>. QED BY <2>1, <2>2, <1>1 DEF Receive
<1>3. ~Acquire(r)
  <2>1. [old EXCEPT !.pc = "hold"].status # 409
    BY <1>0 DEF Frame
  <2>. QED BY <2>1, <1>1 DEF Acquire
<1>4. ~Fail(r) /\ ~Panic(r) /\ ~Show(r) /\ ~Flag(r) /\ ~GetPresence(r) /\ ~GetUsage(r)
      /\ ~DeleteCredentials(r) /\ ~CollectReplace(r)
  BY <1>1, <1>d DEF Fail, Panic, Show, Flag, GetPresence, GetUsage, DeleteCredentials,
                    CollectReplace, Done
<1>5. ~RowExists(r) /\ ~Validate(r) /\ ~Upsert(r)
  <2>1. ~RowExists(r)
    BY <1>1, <1>a DEF RowExists, Done
  <2>2. ~Validate(r)
    <3>1. ~Done(r, Storing(r, Fields(old.id))) /\ ~Done(r, Decide(r, 400))
      BY <1>1, <1>s, <1>d DEF Done
    <3>. QED BY <3>1 DEF Validate
  <2>3. ~Upsert(r)
    <3> SUFFICES ASSUME Upsert(r) PROVE FALSE
      OBVIOUS
    <3>1. PICK f \in old.left : Move(r, Storing(r, old.left \ {f}))
      BY DEF Upsert, Done
    <3>. QED BY <3>1, <1>1, <1>s
  <2>. QED BY <2>1, <2>2, <2>3
<1>6. ~Respond(r)
  <2>1. [old EXCEPT !.pc = "log", !.sent = old.status, !.rec = old.status].status # 409
    BY <1>0 DEF Frame
  <2>. QED BY <2>1, <1>1 DEF Respond
<1>7. ~Log(r)
  BY <1>1, StatusFacts DEF Log, IdleFrame
<1>8. CASE CollectRow(r)
  <2>1. old.id \in Ids
    BY <1>0, <1>8 DEF CollectRow, At, Shape
  <2>2. ~enabled[old.id] /\ Move(r, Decide(r, 409))
    BY <1>8, <1>1, <1>l DEF CollectRow, Done
  <2>. QED BY <1>8, <2>1, <2>2, <1>e DEF CollectRow, tables, Refusable
<1>9. CASE CollectSecret(r)
  <2>1. old.id \in Ids /\ old.left \subseteq Fields(old.id)
    BY <1>0, <1>9 DEF CollectSecret, At, Shape
  <2>2. PICK f \in old.left :
          Done(r, IF f \in cred[old.id] THEN Loading(r, old.left \ {f}) ELSE Decide(r, 409))
    BY <1>9 DEF CollectSecret
  <2>3. f \notin cred[old.id] /\ Move(r, Decide(r, 409))
    BY <2>2, <1>1, <1>l DEF Done
  <2>. QED BY <1>9, <2>1, <2>3, <1>e DEF CollectSecret, tables, Refusable
<1>10. CASE Upstream(r)
  <2>1. old.id \in Ids
    BY <1>0, <1>10 DEF Upstream, Shape
  <2>2. old.id \notin fetchers /\ Move(r, Decide(r, 409))
    BY <1>10, <1>1, <1>a DEF Upstream
  <2>. QED BY <1>10, <2>1, <2>2, <1>e DEF Upstream, tables, Refusable
<1>. QED BY <1>2, <1>3, <1>4, <1>5, <1>6, <1>7, <1>8, <1>9, <1>10 DEF Step, Work

LEMMA ConflictsExcused ==
    ASSUME TypeOK, Shapes, Shapes', Conflicts, [Next]_vars
    PROVE  Conflicts'
<1>1. CASE UNCHANGED vars
  BY <1>1 DEF vars, Conflicts
<1>2. ASSUME NEW q \in Requests, Step(q), Watch, UNCHANGED fetchers,
             NEW r \in Requests, frame'[r].status = 409
      PROVE  excuse'[r]
  <2>1. Refreshing(r)'
    BY <1>2 DEF Shapes, Shape, Refreshing
  <2>2. CASE frame[r].status = 409
    BY <1>2, <2>1, <2>2 DEF Conflicts, Watch
  <2>3. CASE frame[r].status # 409
    <3>1. r = q
      <4>1. PICK fr : frame' = [frame EXCEPT ![q] = fr]
        BY <1>2, RequestMoves DEF Moves
      <4>. QED BY <1>2, <2>3, <4>1 DEF TypeOK
    <3>2. /\ frame'[r].id = frame[r].id
          /\ Refusable(frame[r].id)
          /\ UNCHANGED <<enabled, cred>>
      BY <1>2, <2>3, <3>1, ConflictDecided
    <3>3. Excused(r)'
      BY <1>2, <2>1, <3>2 DEF Excused, Refusable
    <3>. QED BY <1>2, <3>3 DEF Watch
  <2>. QED BY <2>2, <2>3
<1>. QED BY <1>1, <1>2 DEF Next, Conflicts

(* A refresh is refused with 409 only for a provider that was disabled, or *)
(* lacked a credential or a Fetcher, while the refresh ran.                *)
THEOREM ConflictIsTrue == Spec => []ConflictIsReal
<1> DEFINE Inv == TypeOK /\ Shapes /\ Conflicts
<1>1. Init => Inv
  <2>1. Init => Conflicts
    BY StatusFacts DEF Init, IdleFrame, Conflicts
  <2>. QED BY <2>1, StartsTyped
<1>2. Inv /\ [Next]_vars => Inv'
  BY StaysTyped, ConflictsExcused
<1>3. Inv => ConflictIsReal
  <2>1. ASSUME Inv, NEW r \in Requests, frame[r].sent = 409
        PROVE  frame[r].status = 409
    <3>1. frame[r].sent # None
      BY <2>1, StatusFacts
    <3>. QED BY <2>1, <3>1 DEF Shapes, Shape
  <2>. QED BY <2>1 DEF Conflicts, ConflictIsReal
<1>. QED BY <1>1, <1>2, <1>3, PTL DEF Spec

-----------------------------------------------------------------------------
(* A PUT that has begun to store, or has been answered 204, and which no   *)
(* other write overlapped, has stored every field but those still left.    *)
Storer(fr) == fr.op = "put" /\ (fr.stmt = "upsert" \/ fr.status = 204)

Stored(id, left) == id \in Ids /\ Fields(id) \ left \subseteq cred[id]

Wholes == \A r \in Requests :
    alone[r] /\ Storer(frame[r]) => Stored(frame[r].id, frame[r].left)

(* What the request does itself.                                           *)
LEMMA OwnStore ==
    ASSUME NEW r \in Requests, TypeOK, Shapes, Wholes, Step(r),
           alone[r] \/ frame[r].pc = "idle", Storer(frame'[r])
    PROVE  Stored(frame[r].id, frame[r].left)'
<1> DEFINE old == frame[r]
<1>0. frame \in [Requests -> Frame] /\ Shape(old) /\ old \in Frame
  BY DEF TypeOK, Shapes
<1>1. ASSUME NEW fr, Move(r, fr) PROVE frame'[r] = fr
  BY <1>0, <1>1 DEF Move
<1>2. ~Receive(r)
  <2>1. \A op, id, status : Refused(op, id, status).status = status
                           /\ Refused(op, id, status).stmt = None
    BY DEF Refused, Entered, IdleFrame
  <2>2. \A op, id, stmt : Begun(op, id, stmt).status = None /\ Begun(op, id, stmt).stmt = stmt
    BY DEF Begun, Entered, IdleFrame
  <2>3. \A fr : fr.stmt # "upsert" /\ fr.status # 204 => ~Move(r, fr)
    BY <1>1 DEF Storer
  <2>. QED BY <2>1, <2>2, <2>3, StatusFacts, OpFacts DEF Receive, First
<1>3. ~Log(r)
  <2>1. IdleFrame.op # "put"
    BY OpFacts DEF IdleFrame, ProviderOps
  <2>. QED BY <2>1, <1>1 DEF Log, Storer
<1>4. ASSUME Acquire(r) \/ Respond(r)
      PROVE  Stored(frame[r].id, frame[r].left)'
  <2>1. /\ frame'[r].op = old.op /\ frame'[r].id = old.id /\ frame'[r].left = old.left
        /\ frame'[r].stmt = old.stmt /\ frame'[r].status = old.status
    <3>1. CASE Acquire(r)
      BY <1>0, <3>1 DEF Acquire, Move, Frame
    <3>2. CASE Respond(r)
      BY <1>0, <3>2 DEF Respond, Move, Frame
    <3>. QED BY <1>4, <3>1, <3>2
  <2>2. alone[r] /\ cred' = cred
    BY <1>4 DEF Acquire, Respond, tables
  <2>. QED BY <2>1, <2>2 DEF Wholes, Storer, Stored
<1>5. ASSUME old.op # "put", old.pc \in {"hold", "upstream"} PROVE FALSE
  <2>1. ~Receive(r) /\ ~Respond(r) /\ ~Log(r)
    BY <1>5 DEF Receive, Respond, Log
  <2>2. frame'[r].op = old.op
    BY <2>1, HandlerStaysOpen
  <2>. QED BY <1>5, <2>2 DEF Storer
<1>6. CASE Fail(r) \/ Panic(r)
  <2>1. Decide(r, 500).stmt = None /\ Decide(r, 500).status = 500
    BY <1>0 DEF Decide, Frame
  <2>. QED BY <1>6, <2>1, <1>1, OpFacts DEF Fail, Panic, Storer
<1>7. CASE Validate(r)
  <2>1. old.id \in Ids /\ old.op = "put"
    BY <1>0, <1>7 DEF Validate, At, Shape
  <2>2. CASE frame'[r] = Storing(r, Fields(old.id))
    <3>1. frame'[r].id = old.id /\ frame'[r].left = Fields(old.id)
      BY <1>0, <2>2 DEF Storing, Decide, Ask, Frame
    <3>. QED BY <2>1, <3>1 DEF Stored, Fields
  <2>3. CASE frame'[r] = Decide(r, 400)
    <3>1. Decide(r, 400).stmt = None /\ Decide(r, 400).status = 400
      BY <1>0 DEF Decide, Frame
    <3>. QED BY <2>3, <3>1, OpFacts DEF Storer
  <2>4. frame'[r] \in {Storing(r, Fields(old.id)), Decide(r, 400)}
    BY <1>7, <1>1 DEF Validate, Done
  <2>. QED BY <2>2, <2>3, <2>4
<1>8. CASE Upsert(r)
  <2>1. /\ old.id \in Ids /\ old.op = "put" /\ old.pc = "hold" /\ old.stmt = "upsert"
        /\ old.left \in SUBSET Nat
    BY <1>0, <1>8 DEF Upsert, At, Shape, Frame
  <2>2. PICK f \in old.left :
          /\ cred' = [cred EXCEPT ![old.id] = @ \cup {f}]
          /\ frame'[r] = Storing(r, old.left \ {f})
    BY <1>8, <1>1 DEF Upsert, Done
  <2>3. frame'[r].id = old.id /\ frame'[r].left = old.left \ {f}
    BY <1>0, <2>2 DEF Storing, Decide, Ask, Frame
  <2>4. Fields(old.id) \ old.left \subseteq cred[old.id]
    BY <2>1 DEF Wholes, Storer, Stored
  <2>5. cred'[old.id] = cred[old.id] \cup {f}
    BY <2>1, <2>2 DEF TypeOK
  <2>. QED BY <2>1, <2>3, <2>4, <2>5 DEF Stored, Fields
<1>9. CASE Show(r) \/ Flag(r) \/ RowExists(r) \/ GetPresence(r) \/ DeleteCredentials(r)
           \/ GetUsage(r) \/ CollectRow(r) \/ CollectSecret(r) \/ CollectReplace(r)
           \/ Upstream(r)
  <2>1. old.op # "put" /\ old.pc \in {"hold", "upstream"}
    BY <1>0, <1>9 DEF Show, Flag, RowExists, GetPresence, DeleteCredentials, GetUsage,
       CollectRow, CollectSecret, CollectReplace, Upstream, At, Shape, Second
  <2>. QED BY <2>1, <1>5
<1>. QED BY <1>2, <1>3, <1>4, <1>6, <1>7, <1>8, <1>9 DEF Step, Work

(* What another request does: only a DELETE takes a field away.            *)
LEMMA OthersStore ==
    ASSUME NEW q \in Requests, TypeOK, Shapes, Step(q), NEW id \in Ids,
           ~(frame[q].op \in {"put", "delete"} /\ frame[q].id = id)
    PROVE  cred[id] \subseteq cred'[id]
<1>1. CASE DeleteCredentials(q)
  BY <1>1 DEF DeleteCredentials, At, TypeOK
<1>2. CASE Upsert(q)
  BY <1>2 DEF Upsert, At, TypeOK
<1>. QED BY <1>1, <1>2, RequestEffects

LEMMA WholesKept ==
    ASSUME TypeOK, Shapes, Wholes, [Next]_vars
    PROVE  Wholes'
<1>1. CASE UNCHANGED vars
  BY <1>1 DEF vars, tables, Wholes, Stored
<1>2. ASSUME NEW q \in Requests, Step(q), Watch,
             NEW r \in Requests, alone'[r], Storer(frame'[r])
      PROVE  Stored(frame[r].id, frame[r].left)'
  <2>1. /\ alone[r] \/ frame[r].pc = "idle"
        /\ Undisturbed(r)
    BY <1>2 DEF Watch
  <2>2. CASE r = q
    BY <1>2, <2>1, <2>2, OwnStore
  <2>3. CASE r # q
    <3>1. PICK fr : frame' = [frame EXCEPT ![q] = fr]
      BY <1>2, RequestMoves DEF Moves
    <3>2. frame'[r] = frame[r]
      BY <2>3, <3>1 DEF TypeOK
    <3>3. frame[r].pc # "idle"
      BY <1>2, <3>2, OpFacts, StatusFacts DEF Storer, Shapes, Shape, IdleFrame
    <3>4. Stored(frame[r].id, frame[r].left)
      BY <1>2, <2>1, <3>2, <3>3 DEF Wholes
    <3>5. ~(frame[q].op \in {"put", "delete"} /\ frame[q].id = frame[r].id)
      BY <2>1, <2>3 DEF Undisturbed
    <3>6. cred[frame[r].id] \subseteq cred'[frame[r].id]
      BY <1>2, <3>4, <3>5, OthersStore DEF Stored
    <3>. QED BY <3>2, <3>4, <3>6 DEF Stored
  <2>. QED BY <2>2, <2>3
<1>. QED BY <1>1, <1>2 DEF Next, Wholes

(* 204 to a PUT that no other write of the provider's credentials          *)
(* overlapped means that every declared field is stored, and no other,     *)
(* although each is a statement of its own and any of them may fail.       *)
THEOREM QuietPutStoresAll == Spec => []QuietPutIsWhole
<1> DEFINE Inv == TypeOK /\ Shapes /\ Wholes
<1>1. Init => Inv
  <2>1. Init => Wholes
    BY DEF Init, Wholes
  <2>. QED BY <2>1, StartsTyped
<1>2. Inv /\ [Next]_vars => Inv'
  BY StaysTyped, WholesKept
<1>3. Inv => QuietPutIsWhole
  <2>1. ASSUME Inv, NEW r \in Requests,
               frame[r].op = "put", frame[r].sent = 204, alone[r]
        PROVE  cred[frame[r].id] = Fields(frame[r].id)
    <3>1. frame[r].status = 204 /\ frame[r].left = {}
      BY <2>1, StatusFacts DEF Shapes, Shape
    <3>2. Stored(frame[r].id, frame[r].left)
      BY <2>1, <3>1 DEF Wholes, Storer
    <3>3. Fields(frame[r].id) \subseteq cred[frame[r].id]
      BY <3>1, <3>2 DEF Stored
    <3>4. cred[frame[r].id] \subseteq Fields(frame[r].id)
      BY <2>1, <3>2 DEF Stored, TypeOK
    <3>. QED BY <3>3, <3>4
  <2>. QED BY <2>1 DEF QuietPutIsWhole
<1>. QED BY <1>1, <1>2, <1>3, PTL DEF Spec
-----------------------------------------------------------------------------
(* The one connection.                                                     *)

(* No continuation of a handler leaves it holding the connection.          *)
LEMMA PcFacts ==
    ASSUME NEW r, frame[r] \in Frame
    PROVE  /\ \A status : Decide(r, status).pc = "write"
           /\ \A stmt : Ask(r, stmt).pc = "wait"
           /\ \A left : Storing(r, left).pc \in {"wait", "write"}
           /\ \A left : Loading(r, left).pc \in {"wait", "upstream"}
BY DEF Decide, Ask, Storing, Loading, Frame

(* A step of r may take the connection when nobody has it, and gives it    *)
(* back only if r has it; nobody else is affected.                         *)
LEMMA ConnectionStep ==
    ASSUME TypeOK, ConnectionIsHeld, NEW r \in Requests, Step(r)
    PROVE  /\ conn' = r <=> frame'[r].pc = "hold"
           /\ \A q \in Requests \ {r} : conn' = q <=> conn = q
<1>0. /\ frame \in [Requests -> Frame] /\ frame[r] \in Frame
      /\ conn = r <=> frame[r].pc = "hold"
      /\ None \notin Requests
  BY HttpAssumption DEF TypeOK, ConnectionIsHeld
<1>m. ASSUME NEW fr, Move(r, fr) PROVE frame'[r] = fr
  BY <1>0, <1>m DEF Move
<1>d. ASSUME frame[r].pc = "hold", NEW fr, Done(r, fr), fr.pc # "hold"
      PROVE  /\ conn' = r <=> frame'[r].pc = "hold"
             /\ \A q \in Requests \ {r} : conn' = q <=> conn = q
  BY <1>0, <1>d, <1>m DEF Done
<1>1. CASE Receive(r)
  <2>0. /\ \A op, id, status : Refused(op, id, status).pc = "write"
        /\ \A op, id, stmt : Begun(op, id, stmt).pc = "wait"
    BY DEF Refused, Begun, Entered, IdleFrame
  <2>1. PICK fr : Move(r, fr) /\ fr.pc \in {"wait", "write"}
    BY <1>1, <2>0 DEF Receive
  <2>2. frame[r].pc = "idle" /\ conn' = conn
    BY <1>1 DEF Receive
  <2>. QED BY <1>0, <2>1, <2>2, <1>m
<1>2. CASE Acquire(r)
  <2>1. frame'[r] = [frame[r] EXCEPT !.pc = "hold"] /\ conn = None /\ conn' = r
    BY <1>2, <1>m DEF Acquire
  <2>2. frame'[r].pc = "hold"
    BY <1>0, <2>1 DEF Frame
  <2>. QED BY <1>0, <2>1, <2>2
<1>3. CASE Fail(r) \/ Panic(r)
  <2>1. Move(r, Decide(r, 500)) /\ conn' = IF conn = r THEN None ELSE conn
    BY <1>3 DEF Fail, Panic
  <2>2. frame'[r].pc = "write"
    BY <1>0, <1>m, <2>1, PcFacts
  <2>. QED BY <1>0, <2>1, <2>2
<1>4. CASE Upstream(r)
  <2>1. PICK fr : Move(r, fr) /\ fr.pc \in {"wait", "write"}
    BY <1>0, <1>4, PcFacts DEF Upstream
  <2>2. frame[r].pc = "upstream" /\ conn' = conn
    BY <1>4 DEF Upstream
  <2>. QED BY <1>0, <2>1, <2>2, <1>m
<1>5. CASE Respond(r) \/ Log(r)
  <2>1. frame'[r].pc # "hold"
    <3>1. CASE Respond(r)
      <4>1. frame'[r] = [frame[r] EXCEPT !.pc = "log", !.sent = frame[r].status,
                                          !.rec = frame[r].status]
        BY <1>m, <3>1 DEF Respond
      <4>. QED BY <1>0, <4>1 DEF Frame
    <3>2. CASE Log(r)
      <4>1. frame'[r] = IdleFrame
        BY <1>m, <3>2 DEF Log
      <4>. QED BY <4>1 DEF IdleFrame
    <3>. QED BY <1>5, <3>1, <3>2
  <2>2. frame[r].pc # "hold" /\ conn' = conn
    BY <1>5 DEF Respond, Log
  <2>. QED BY <1>0, <2>1, <2>2
<1>6. CASE Show(r) \/ Flag(r) \/ GetPresence(r) \/ DeleteCredentials(r) \/ GetUsage(r)
  BY <1>0, <1>6, <1>d, PcFacts DEF Show, Flag, GetPresence, DeleteCredentials, GetUsage, At
<1>7. CASE RowExists(r)
  BY <1>0, <1>7, <1>d, PcFacts DEF RowExists, At
<1>8. CASE Validate(r)
  <2>1. frame[r].pc = "hold"
        /\ (Done(r, Storing(r, Fields(frame[r].id))) \/ Done(r, Decide(r, 400)))
    BY <1>8 DEF Validate, At
  <2>2. Storing(r, Fields(frame[r].id)).pc # "hold" /\ Decide(r, 400).pc # "hold"
    BY <1>0, PcFacts
  <2>. QED BY <2>1, <2>2, <1>d
<1>9. CASE Upsert(r)
  <2>1. PICK f : frame[r].pc = "hold" /\ Done(r, Storing(r, frame[r].left \ {f}))
    BY <1>9 DEF Upsert, At
  <2>2. Storing(r, frame[r].left \ {f}).pc # "hold"
    BY <1>0, PcFacts
  <2>. QED BY <2>1, <2>2, <1>d
<1>10. CASE CollectRow(r)
  <2>1. /\ frame[r].pc = "hold"
        /\ \/ Done(r, Loading(r, Fields(frame[r].id)))
           \/ Done(r, Decide(r, 409))
    BY <1>10 DEF CollectRow, At
  <2>2. Loading(r, Fields(frame[r].id)).pc # "hold" /\ Decide(r, 409).pc # "hold"
    BY <1>0, PcFacts
  <2>. QED BY <2>1, <2>2, <1>d
<1>11. CASE CollectSecret(r)
  <2>1. PICK f : /\ frame[r].pc = "hold"
                 /\ \/ Done(r, Loading(r, frame[r].left \ {f}))
                    \/ Done(r, Decide(r, 409))
    BY <1>11 DEF CollectSecret, At
  <2>2. Loading(r, frame[r].left \ {f}).pc # "hold" /\ Decide(r, 409).pc # "hold"
    BY <1>0, PcFacts
  <2>. QED BY <2>1, <2>2, <1>d
<1>12. CASE CollectReplace(r)
  BY <1>0, <1>12, <1>d, PcFacts DEF CollectReplace, At
<1>. QED BY <1>1, <1>2, <1>3, <1>4, <1>5, <1>6, <1>7, <1>8, <1>9, <1>10, <1>11,
           <1>12 DEF Step, Work

(* The connection is held by a running statement or by nobody: no failure, *)
(* panic or hanging upstream keeps it.  It is the safety half of           *)
(* EveryRequestEnds, and inductive together with the type.                 *)
THEOREM ConnectionNeverLeaks == Spec => []ConnectionIsHeld
<1>1. Init => ConnectionIsHeld
  <2>1. IdleFrame.pc = "idle"
    BY DEF IdleFrame
  <2>. QED BY <2>1, HttpAssumption DEF Init, ConnectionIsHeld
<1>2. TypeOK /\ Shapes /\ ConnectionIsHeld /\ [Next]_vars => ConnectionIsHeld'
  <2> SUFFICES ASSUME TypeOK, Shapes, ConnectionIsHeld, [Next]_vars
               PROVE  ConnectionIsHeld'
    OBVIOUS
  <2>1. ASSUME NEW r \in Requests, Step(r) PROVE ConnectionIsHeld'
    <3>1. \A q \in Requests \ {r} : frame'[q] = frame[q]
      <4>1. PICK fr : frame' = [frame EXCEPT ![r] = fr]
        BY <2>1, RequestMoves DEF Moves
      <4>. QED BY <4>1 DEF TypeOK
    <3>. QED BY <2>1, <3>1, ConnectionStep DEF ConnectionIsHeld
  <2>2. CASE UNCHANGED vars
    BY <2>2 DEF vars, ConnectionIsHeld
  <2>. QED BY <2>1, <2>2 DEF Next
<1>. QED BY <1>1, <1>2, AlwaysShaped, PTL DEF Spec
=============================================================================
