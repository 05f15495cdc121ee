-------------------------- MODULE DeploymentsProofs --------------------------
(***************************************************************************)
(* Proofs about Deployments: the types, what requests that come one after  *)
(* the other leave, what a request alone with the deployment repairs, and  *)
(* what no request brings back.                                            *)
(***************************************************************************)
EXTENDS Deployments, SequenceTheorems, TLAPS

-----------------------------------------------------------------------------
(* Requests and the resources they visit *)

\* The resources a request still has to visit.
Left(t) == {t[i] : i \in 1 .. Len(t)}

\* The bounds of an instance are naturals.
LEMMA BoundTypes ==
  /\ Counts \subseteq Nat /\ 0 \in Counts /\ Exposed \in BOOLEAN /\ MaxReplicas \in Nat \ {0}
BY DeploymentsAssumption DEF Counts

\* The first of the resources to visit, and the others.
LEMMA LeftTail ==
  ASSUME NEW t \in Seq(Resource), t # <<>>
  PROVE  /\ Head(t) \in Resource /\ Tail(t) \in Seq(Resource) /\ Len(t) \in Nat \ {0}
         /\ Left(t) = {Head(t)} \cup Left(Tail(t))
         /\ Len(t) = 1 => Left(Tail(t)) = {}
         /\ Len(t) # 1 => Tail(t) # <<>>
         /\ Len(Tail(t)) = Len(t) - 1
         /\ \A i \in 1 .. Len(Tail(t)) : Tail(t)[i] = t[i + 1]
<1>1. /\ Head(t) \in Resource /\ Tail(t) \in Seq(Resource) /\ Len(Tail(t)) = Len(t) - 1
      /\ \A i \in 1 .. Len(Tail(t)) : Tail(t)[i] = t[i + 1]
  BY HeadTailProperties
<1>2. Len(t) \in Nat \ {0} /\ Head(t) = t[1]
  BY EmptySeq
<1>3. Left(t) = {Head(t)} \cup Left(Tail(t))
  <2>1. ASSUME NEW i \in 1 .. Len(t) PROVE t[i] \in {Head(t)} \cup Left(Tail(t))
    <3>1. CASE i = 1
      BY <1>2, <3>1
    <3>2. CASE i # 1
      <4>1. i - 1 \in 1 .. Len(Tail(t))
        BY <1>1, <1>2, <3>2
      <4>2. Tail(t)[i - 1] = t[i]
        BY <1>1, <1>2, <4>1
      <4> QED BY <4>1, <4>2 DEF Left
    <3> QED BY <3>1, <3>2
  <2>2. ASSUME NEW i \in 1 .. Len(Tail(t)) PROVE Tail(t)[i] \in Left(t)
    BY <1>1, <1>2 DEF Left
  <2>3. Head(t) \in Left(t)
    BY <1>2 DEF Left
  <2> QED BY <2>1, <2>2, <2>3 DEF Left
<1>4. Len(t) = 1 => Left(Tail(t)) = {}
  BY <1>1, <1>2 DEF Left
<1>5. Len(t) # 1 => Tail(t) # <<>>
  <2>1. ASSUME NEW u, u = <<>> PROVE Len(u) = 0
    BY <2>1
  <2>2. Len(t) # 1 => Len(Tail(t)) # 0
    BY <1>1, <1>2
  <2> QED BY <2>1, <2>2, Zenon
<1> QED BY <1>1, <1>2, <1>3, <1>4, <1>5

\* The orders in which create and delete visit resources.
LEMMA OrderTypes ==
  /\ CreateOrder \in Seq(Resource) /\ CreateOrder # <<>>
  /\ \A b \in BOOLEAN : DeleteOrder(b) \in Seq(Resource) /\ DeleteOrder(b) # <<>>
  /\ <<>> \in Seq(Resource)
  /\ <<"redirect", "route">> \in Seq(Resource) /\ <<"redirect", "route">> # <<>>
<1>1. ASSUME NEW S, NEW a \in S, NEW b \in S PROVE <<a, b>> \in Seq(S) /\ <<a, b>> # <<>>
  OBVIOUS
<1>2. ASSUME NEW S, NEW a \in S, NEW b \in S, NEW c \in S PROVE <<a, b, c>> \in Seq(S) /\ <<a, b, c>> # <<>>
  OBVIOUS
<1>4. ASSUME NEW S, NEW a \in S, NEW b \in S, NEW c \in S, NEW d \in S, NEW e \in S
      PROVE  <<a, b, c, d, e>> \in Seq(S) /\ <<a, b, c, d, e>> # <<>>
  OBVIOUS
<1>5. "config" \in Resource /\ "deployment" \in Resource /\ "service" \in Resource
      /\ "route" \in Resource /\ "redirect" \in Resource
  BY DEF Resource, Base, Routes
<1>6. CreateOrder \in Seq(Resource) /\ CreateOrder # <<>>
  BY <1>2, <1>4, <1>5 DEF CreateOrder
<1>7. \A b \in BOOLEAN : DeleteOrder(b) \in Seq(Resource) /\ DeleteOrder(b) # <<>>
  BY <1>2, <1>4, <1>5 DEF DeleteOrder
<1>8. <<>> \in Seq(Resource)
  OBVIOUS
<1>9. <<"redirect", "route">> \in Seq(Resource) /\ <<"redirect", "route">> # <<>>
  BY <1>1, <1>5
<1> QED BY <1>6, <1>7, <1>8, <1>9

\* What they visit.
LEMMA OrderLeft ==
  /\ Left(CreateOrder) = Made
  /\ \A b \in BOOLEAN : Left(DeleteOrder(b)) = IF b THEN Resource ELSE Base
  /\ Left(<<"redirect", "route">>) = Routes
<1>1. Left(<<"redirect", "route">>) = Routes
  <2>1. Len(<<"redirect", "route">>) = 2
    OBVIOUS
  <2> QED BY <2>1 DEF Left, Routes
<1>2. ASSUME NEW a, NEW b, NEW c PROVE Left(<<a, b, c>>) = {a, b, c}
  <2>1. Len(<<a, b, c>>) = 3
    OBVIOUS
  <2> QED BY <2>1 DEF Left
<1>3. ASSUME NEW a, NEW b, NEW c, NEW d, NEW e PROVE Left(<<a, b, c, d, e>>) = {a, b, c, d, e}
  <2>1. Len(<<a, b, c, d, e>>) = 5
    OBVIOUS
  <2> QED BY <2>1 DEF Left
<1> QED BY <1>1, <1>2, <1>3, BoundTypes DEF CreateOrder, DeleteOrder, Made, Resource, Base, Routes

\* A request stands at a place of its operation, and one that visits resources has some left.
Place(r) ==
  /\ r.pc \in {"undo", "failed"} => r.op = "create"
  /\ r.pc = "db" => r.op # "create"
  /\ r.pc = "undo" \/ (r.pc = "cluster" /\ r.op \in {"create", "delete"}) => r.todo # <<>>

PlaceInv == \A x \in Handlers : ~Idle(x) => Place(h[x])
BaseInv  == TypeOK /\ PlaceInv

\* What a request is made of.
LEMMA RequestFields ==
  ASSUME NEW r \in Request
  PROVE  /\ r.op \in Op /\ r.op # "none" /\ r # NoRequest /\ r.pc \in {"cluster", "undo", "failed", "db"}
         /\ r.running \in BOOLEAN /\ r.keep \in Counts /\ r.count \in Counts
         /\ r.todo \in Seq(Resource) /\ r.late \in BOOLEAN /\ r.alone \in BOOLEAN
<1>1. r.op \in Op /\ r.pc \in {"cluster", "undo", "failed", "db"}
      /\ r.running \in BOOLEAN /\ r.keep \in Counts /\ r.count \in Counts
      /\ r.todo \in Seq(Resource) /\ r.late \in BOOLEAN /\ r.alone \in BOOLEAN
  BY DEF Request
<1>2. r.op # "none"
  BY <1>1 DEF Op
<1>3. NoRequest.op = "none"
  BY DEF NoRequest
<1> QED BY <1>1, <1>2, <1>3

\* A handler is idle or serves a request.
LEMMA HandlerFields ==
  ASSUME TypeOK, NEW x \in Handlers
  PROVE  /\ Idle(x) => h[x].op = "none"
         /\ ~Idle(x) => h[x] \in Request
         /\ h[x].op # "none" <=> ~Idle(x)
         /\ h[x].op # "none" => h[x] \in Request
<1>1. h[x] \in Request \cup {NoRequest}
  BY DEF TypeOK
<1>2. NoRequest.op = "none"
  BY DEF NoRequest
<1> QED BY <1>1, <1>2, RequestFields DEF Idle

\* The request as it moves to another place, with other resources left.
Moved(r, pc, todo) == [r EXCEPT !.pc = pc, !.todo = todo]

\* Nothing else of it changes.
LEMMA MovedFields ==
  ASSUME NEW r \in Request, NEW pc \in {"cluster", "undo", "failed", "db"}, NEW todo \in Seq(Resource)
  PROVE  LET q == Moved(r, pc, todo)
         IN  /\ q \in Request
             /\ q.op = r.op /\ q.running = r.running /\ q.keep = r.keep /\ q.count = r.count
             /\ q.late = r.late /\ q.alone = r.alone
             /\ q.pc = pc /\ q.todo = todo
BY DEF Moved, Request

\* A request loses nothing but its claim to be alone.
Crowded(r) == [r EXCEPT !.alone = FALSE]

\* Nothing else of it changes.
LEMMA CrowdedFields ==
  ASSUME NEW r \in Request
  PROVE  LET q == Crowded(r)
         IN  /\ q \in Request
             /\ q.op = r.op /\ q.running = r.running /\ q.keep = r.keep /\ q.count = r.count
             /\ q.late = r.late /\ q.pc = r.pc /\ q.todo = r.todo
             /\ ~q.alone
BY DEF Crowded, Request

\* A request that begins: its own record, and what becomes of the others'.
LEMMA TakeFields ==
  ASSUME TypeOK, NEW x \in Handlers, NEW r \in Request, Take(x, r)
  PROVE  /\ Idle(x) /\ h' \in [Handlers -> Request \cup {NoRequest}]
         /\ h'[x] \in Request
         /\ h'[x].op = r.op /\ h'[x].running = r.running /\ h'[x].keep = r.keep /\ h'[x].count = r.count
         /\ h'[x].late = r.late /\ h'[x].pc = r.pc /\ h'[x].todo = r.todo
         /\ h'[x].alone <=> \A y \in Handlers : Idle(y)
         /\ \A y \in Handlers : y # x =>
              \/ Idle(y) /\ h'[y] = h[y]
              \/ ~Idle(y) /\ h[y] \in Request /\ h'[y] = Crowded(h[y])
         /\ calm' <=> calm /\ \A y \in Handlers : Idle(y)
<1> DEFINE others == {y \in Handlers : ~Idle(y)}
           b == others = {}
           q == [r EXCEPT !.alone = b]
<1>1. b <=> \A y \in Handlers : Idle(y)
  OBVIOUS
<1>2. /\ Idle(x)
      /\ h' = [y \in Handlers |-> IF y = x THEN q ELSE IF Idle(y) THEN h[y] ELSE [h[y] EXCEPT !.alone = FALSE]]
      /\ calm' = (calm /\ b)
  BY DEF Take
<1>3. /\ q \in Request /\ q.alone = b
      /\ q.op = r.op /\ q.running = r.running /\ q.keep = r.keep /\ q.count = r.count
      /\ q.late = r.late /\ q.pc = r.pc /\ q.todo = r.todo
  <2>1. b \in BOOLEAN
    OBVIOUS
  <2> HIDE DEF b
  <2> QED BY <2>1 DEF Request
<1> HIDE DEF b, q
<1>4. h'[x] = q
  BY <1>2
<1>5. ASSUME NEW y \in Handlers, y # x
      PROVE  \/ Idle(y) /\ h'[y] = h[y]
             \/ ~Idle(y) /\ h[y] \in Request /\ h'[y] = Crowded(h[y])
  BY <1>2, <1>5, HandlerFields DEF Crowded
<1>6. \A y \in Handlers : h'[y] \in Request \cup {NoRequest}
  BY <1>3, <1>4, <1>5, CrowdedFields DEF Idle
<1>7. h' \in [Handlers -> Request \cup {NoRequest}]
  BY <1>2, <1>6
<1>8. calm' <=> calm /\ \A y \in Handlers : Idle(y)
  <2>1. calm \in BOOLEAN
    BY DEF TypeOK
  <2> QED BY <1>1, <1>2, <2>1
<1> QED BY <1>1, <1>2, <1>3, <1>4, <1>5, <1>7, <1>8

-----------------------------------------------------------------------------
(* Where a step takes its request *)

\* Handler x's request alone changes, to q.
Only(x, q) ==
  /\ h' \in [Handlers -> Request \cup {NoRequest}]
  /\ h'[x] = q
  /\ \A y \in Handlers : y # x => h'[y] = h[y]

\* A request that goes on with what it has left.
LEMMA GotoMoves ==
  ASSUME TypeOK, NEW x \in Handlers, h[x] \in Request,
         NEW pc \in {"cluster", "undo", "failed", "db"}, Goto(x, pc)
  PROVE  Only(x, Moved(h[x], pc, h[x].todo))
<1>1. [h[x] EXCEPT !.pc = pc] = Moved(h[x], pc, h[x].todo)
  BY DEF Moved, Request
<1>2. h \in [Handlers -> Request \cup {NoRequest}]
  BY DEF TypeOK
<1>3. h' = [h EXCEPT ![x] = Moved(h[x], pc, h[x].todo)]
  BY <1>1 DEF Goto
<1>4. Moved(h[x], pc, h[x].todo) \in Request
  BY MovedFields, RequestFields
<1> QED BY <1>2, <1>3, <1>4 DEF Only

\* A request that goes on to the next resource, or to pc after the last.
LEMMA AdvanceMoves ==
  ASSUME TypeOK, NEW x \in Handlers, h[x] \in Request, h[x].todo # <<>>,
         NEW pc \in {"cluster", "undo", "failed", "db"}, Advance(x, pc)
  PROVE  Only(x, Moved(h[x], IF Len(h[x].todo) = 1 THEN pc ELSE h[x].pc, Tail(h[x].todo)))
<1> DEFINE t == Tail(h[x].todo)
           c == IF Len(h[x].todo) = 1 THEN pc ELSE h[x].pc
<1>1. t \in Seq(Resource) /\ c \in {"cluster", "undo", "failed", "db"}
  BY RequestFields, LeftTail
<1>2. h \in [Handlers -> Request \cup {NoRequest}]
  BY DEF TypeOK
<1>3. h' = [h EXCEPT ![x] = Moved(h[x], c, t)]
  <2>1. h' = [h EXCEPT ![x] = [[h[x] EXCEPT !.todo = t] EXCEPT !.pc = c]]
    BY <1>2 DEF Advance, Request
  <2> HIDE DEF t, c
  <2>2. [[h[x] EXCEPT !.todo = t] EXCEPT !.pc = c] = Moved(h[x], c, t)
    BY DEF Moved, Request
  <2> QED BY <2>1, <2>2
<1> HIDE DEF t, c
<1>4. Moved(h[x], c, t) \in Request
  BY <1>1, MovedFields
<1>5. Only(x, Moved(h[x], c, t))
  BY <1>2, <1>3, <1>4 DEF Only
<1> QED BY <1>5 DEF t, c

\* A request that takes other resources to visit.
LEMMA UndoMoves ==
  ASSUME TypeOK, NEW x \in Handlers, h[x] \in Request,
         h' = [h EXCEPT ![x].pc = "undo", ![x].todo = <<"redirect", "route">>]
  PROVE  Only(x, Moved(h[x], "undo", <<"redirect", "route">>))
<1> DEFINE t == <<"redirect", "route">>
<1>1. t \in Seq(Resource)
  BY OrderTypes
<1> HIDE DEF t
<1>2. h \in [Handlers -> Request \cup {NoRequest}]
  BY DEF TypeOK
<1>3. h' = [h EXCEPT ![x] = Moved(h[x], "undo", t)]
  BY <1>2 DEF Moved, Request, t
<1>4. Moved(h[x], "undo", t) \in Request
  BY <1>1, MovedFields
<1>5. Only(x, Moved(h[x], "undo", t))
  BY <1>2, <1>3, <1>4 DEF Only
<1> QED BY <1>5 DEF t

\* A request that is answered.
LEMMA DoneMoves ==
  ASSUME TypeOK, NEW x \in Handlers, Done(x)
  PROVE  Only(x, NoRequest)
BY DEF TypeOK, Done, Only

\* What each step of a request does, with the request it leaves.
Unwritten == UNCHANGED <<row, ran>>

Patched(x) ==
  /\ h[x].op \in {"scale", "stop", "start", "restart"} /\ h[x].pc = "cluster"
  /\ "deployment" \in res /\ Patch(x) /\ Return
  /\ Only(x, Moved(h[x], "db", h[x].todo))
  /\ Unwritten /\ UNCHANGED <<res, cleaned>>

Seen(x) ==
  /\ At(x, "status", "cluster") /\ "deployment" \in res /\ spec > 0 /\ Return
  /\ Only(x, Moved(h[x], "db", h[x].todo))
  /\ Unwritten /\ UNCHANGED <<res, spec, cleaned>>

\* The request ends before the cluster or the row has its effect, or with a call that raised.
Ended(x) ==
  /\ h[x].pc = "cluster"
  /\ \/ Return /\ UNCHANGED spec /\ h[x].op = "status"
     \/ Return /\ UNCHANGED spec /\ h[x].op \in {"scale", "stop", "start", "restart"} /\ "deployment" \notin res
     \/ Raise /\ (UNCHANGED spec \/ ("deployment" \in res /\ Patch(x)))
  /\ Only(x, NoRequest)
  /\ Unwritten /\ UNCHANGED <<res, cleaned>>

Makes(x) ==
  /\ At(x, "create", "cluster") /\ MakeResource(Next1(x), h[x].count) /\ Return
  /\ Only(x, IF Len(h[x].todo) = 1 THEN NoRequest ELSE Moved(h[x], "cluster", Tail(h[x].todo)))
  /\ Unwritten /\ UNCHANGED cleaned

MakeFails(x) ==
  /\ At(x, "create", "cluster") /\ Raise
  /\ UNCHANGED <<res, spec>> \/ MakeResource(Next1(x), h[x].count)
  /\ \/ Next1(x) \in Routes /\ Only(x, Moved(h[x], "undo", <<"redirect", "route">>))
     \/ /\ Next1(x) \in Base \/ (Next1(x) = "route" /\ res' = res)
        /\ Only(x, Moved(h[x], "failed", h[x].todo))
  /\ Unwritten /\ UNCHANGED cleaned

Undoes(x) ==
  /\ At(x, "create", "undo")
  /\ \/ /\ DropResource(Next1(x)) /\ Return
        /\ Only(x, Moved(h[x], IF Len(h[x].todo) = 1 THEN "failed" ELSE "undo", Tail(h[x].todo)))
     \/ /\ Raise /\ (DropResource(Next1(x)) \/ UNCHANGED <<res, spec>>)
        /\ Only(x, Moved(h[x], "failed", h[x].todo))
  /\ Unwritten /\ UNCHANGED cleaned

Drops(x) ==
  /\ At(x, "delete", "cluster") /\ DropResource(Next1(x))
  /\ \/ /\ Return /\ cleaned' = (cleaned \/ (h[x].late /\ Len(h[x].todo) = 1))
        /\ Only(x, Moved(h[x], IF Len(h[x].todo) = 1 THEN "db" ELSE "cluster", Tail(h[x].todo)))
     \/ Raise /\ UNCHANGED cleaned /\ Only(x, NoRequest)
  /\ Unwritten

Wrote(x) ==
  /\ h[x].pc \in {"db", "failed"} /\ WriteRow(x) /\ Only(x, NoRequest)

\* A step of a request is one of these.
LEMMA StepCases ==
  ASSUME BaseInv, NEW x \in Handlers, Step(x)
  PROVE  /\ h[x] \in Request /\ Place(h[x]) /\ crashes' = crashes
         /\ \/ Patched(x) \/ Seen(x) \/ Ended(x) \/ Makes(x) \/ MakeFails(x)
            \/ Undoes(x) \/ Drops(x) \/ Wrote(x)
<1>1. TypeOK /\ PlaceInv
  BY DEF BaseInv
<1>2. h[x].op # "none"
  BY DEF Step, ClusterPatch, ClusterStatus, CreateResource, CreateRaises, UndoRoute, DeleteResource,
         DeleteRaises, WriteRow, At
<1>3. h[x] \in Request /\ Place(h[x])
  BY <1>1, <1>2, HandlerFields DEF PlaceInv
<1>4. Done(x) => Only(x, NoRequest)
  BY <1>1, DoneMoves
<1>5. ASSUME NEW pc \in {"cluster", "undo", "failed", "db"}, Goto(x, pc)
      PROVE  Only(x, Moved(h[x], pc, h[x].todo))
  BY <1>1, <1>3, <1>5, GotoMoves
<1>6. ASSUME NEW pc \in {"cluster", "undo", "failed", "db"}, Advance(x, pc), h[x].todo # <<>>
      PROVE  Only(x, Moved(h[x], IF Len(h[x].todo) = 1 THEN pc ELSE h[x].pc, Tail(h[x].todo)))
  BY <1>1, <1>3, <1>6, AdvanceMoves
<1>7. CASE ClusterPatch(x)
  <2>1. Goto(x, "db") => Only(x, Moved(h[x], "db", h[x].todo))
    BY <1>5
  <2>2. Patched(x) \/ Ended(x)
    BY <1>4, <1>7, <2>1 DEF ClusterPatch, Patched, Ended, Unwritten
  <2> QED BY <1>3, <1>7, <2>2 DEF ClusterPatch
<1>8. CASE ClusterStatus(x)
  <2>1. Goto(x, "db") => Only(x, Moved(h[x], "db", h[x].todo))
    BY <1>5
  <2>2. Seen(x) \/ Ended(x)
    BY <1>4, <1>8, <2>1 DEF ClusterStatus, Seen, Ended, Unwritten, At
  <2> QED BY <1>3, <1>8, <2>2 DEF ClusterStatus
<1>9. CASE CreateResource(x)
  <2>1. h[x].todo # <<>> /\ h[x].pc = "cluster"
    BY <1>3, <1>9 DEF Place, CreateResource, At
  <2>2. Advance(x, "cluster") => Only(x, Moved(h[x], "cluster", Tail(h[x].todo)))
    BY <1>6, <2>1
  <2>3. Makes(x)
    BY <1>4, <1>9, <2>2 DEF CreateResource, Makes, Unwritten
  <2> QED BY <1>3, <1>9, <2>3 DEF CreateResource
<1>10. CASE CreateRaises(x)
  <2>1. Goto(x, "failed") => Only(x, Moved(h[x], "failed", h[x].todo))
    BY <1>5
  <2>2. h' = [h EXCEPT ![x].pc = "undo", ![x].todo = <<"redirect", "route">>] =>
          Only(x, Moved(h[x], "undo", <<"redirect", "route">>))
    BY <1>1, <1>3, UndoMoves
  <2>3. MakeFails(x)
    BY <1>10, <2>1, <2>2 DEF CreateRaises, MakeFails, Unwritten
  <2> QED BY <1>3, <1>10, <2>3 DEF CreateRaises
<1>11. CASE UndoRoute(x)
  <2>1. h[x].todo # <<>> /\ h[x].pc = "undo"
    BY <1>3, <1>11 DEF Place, UndoRoute, At
  <2>2. Advance(x, "failed") =>
          Only(x, Moved(h[x], IF Len(h[x].todo) = 1 THEN "failed" ELSE "undo", Tail(h[x].todo)))
    BY <1>6, <2>1
  <2>3. Goto(x, "failed") => Only(x, Moved(h[x], "failed", h[x].todo))
    BY <1>5
  <2>4. Undoes(x)
    BY <1>11, <2>2, <2>3 DEF UndoRoute, Undoes, Unwritten
  <2> QED BY <1>3, <1>11, <2>4 DEF UndoRoute
<1>12. CASE DeleteResource(x)
  <2>1. h[x].todo # <<>> /\ h[x].pc = "cluster"
    BY <1>3, <1>12 DEF Place, DeleteResource, At
  <2>2. Advance(x, "db") =>
          Only(x, Moved(h[x], IF Len(h[x].todo) = 1 THEN "db" ELSE "cluster", Tail(h[x].todo)))
    BY <1>6, <2>1
  <2>3. Drops(x)
    BY <1>4, <1>12, <2>2 DEF DeleteResource, Drops, Unwritten
  <2> QED BY <1>3, <1>12, <2>3 DEF DeleteResource
<1>13. CASE DeleteRaises(x)
  <2>1. Ended(x)
    BY <1>4, <1>13 DEF DeleteRaises, Ended, Unwritten, At
  <2> QED BY <1>3, <1>13, <2>1 DEF DeleteRaises
<1>14. CASE WriteRow(x)
  <2>1. Wrote(x)
    BY <1>4, <1>14 DEF WriteRow, Wrote
  <2> QED BY <1>3, <1>14, <2>1 DEF WriteRow
<1> QED BY <1>7, <1>8, <1>9, <1>10, <1>11, <1>12, <1>13, <1>14 DEF Step

-----------------------------------------------------------------------------
(* Requests that begin *)

\* What a request begins with.
Fits(r) ==
  /\ r.pc = "cluster"
  /\ r.late <=> r.op = "delete" /\ CreateEnded
  /\ r.op = "scale" => r.keep = IF r.count > 0 THEN r.count ELSE row.lastNonZero
  /\ r.op = "stop" => r.count = 0 /\ r.keep = IF row.replicas > 0 THEN row.replicas ELSE row.lastNonZero
  /\ r.op = "start" => r.keep = r.count /\ (r.count > 0 \/ r.count = row.lastNonZero)
  /\ r.op = "delete" => r.todo = DeleteOrder(row.hostname)
  /\ r.op = "create" => r.todo = CreateOrder

\* The fields of a request that begins.
LEMMA FreshFields ==
  ASSUME TypeOK, NEW op \in Op, NEW count \in Counts, NEW keep \in Counts, NEW todo \in Seq(Resource)
  PROVE  LET r == Fresh(op, count, keep, todo)
         IN  /\ r \in Request
             /\ r.op = op /\ r.count = count /\ r.keep = keep /\ r.todo = todo /\ r.pc = "cluster"
             /\ r.late <=> op = "delete" /\ CreateEnded
<1> DEFINE b == op = "status" /\ row.status = "running"
           l == op = "delete" /\ CreateEnded
<1>1. b \in BOOLEAN /\ l \in BOOLEAN
  OBVIOUS
<1>2. Fresh(op, count, keep, todo) = [op |-> op, pc |-> "cluster", running |-> b, keep |-> keep,
                                      count |-> count, todo |-> todo, late |-> l, alone |-> TRUE]
  BY DEF Fresh
<1>3. l <=> op = "delete" /\ CreateEnded
  OBVIOUS
<1> HIDE DEF b, l
<1> QED BY <1>1, <1>2, <1>3 DEF Request

\* The fields of a request that begins and visits no resources one by one.
LEMMA PlainFields ==
  ASSUME TypeOK, NEW op \in Op, op # "delete", NEW count \in Counts, NEW keep \in Counts
  PROVE  LET r == Fresh(op, count, keep, <<>>)
         IN  /\ r \in Request
             /\ r.op = op /\ r.count = count /\ r.keep = keep /\ r.pc = "cluster"
             /\ ~r.late
<1> DEFINE e == <<>>
           r == Fresh(op, count, keep, e)
<1>1. e \in Seq(Resource)
  BY OrderTypes
<1> HIDE DEF e
<1>2. r \in Request /\ r.op = op /\ r.count = count /\ r.keep = keep /\ r.pc = "cluster" /\ ~r.late
  BY <1>1, FreshFields
<1> QED BY <1>2 DEF e

\* The fields of the row.
LEMMA RowFields ==
  ASSUME TypeOK
  PROVE  /\ row.status \in Status /\ row.replicas \in Counts /\ row.lastNonZero \in Counts
         /\ row.hostname \in BOOLEAN /\ row.deletedAt \in BOOLEAN
BY DEF TypeOK, Row

\* A create begins with a new row, and finds no request of the deployment's.
LEMMA CreateBegins ==
  ASSUME TypeOK, NEW x \in Handlers, Create(x)
  PROVE  \E r \in Request :
           /\ r.op = "create" /\ r.keep = r.count /\ r.count > 0 /\ r.pc = "cluster" /\ ~r.late
           /\ r.todo = CreateOrder
           /\ Take(x, r)
           /\ row' = [status |-> "creating", replicas |-> r.count, lastNonZero |-> r.count,
                      hostname |-> Exposed, deletedAt |-> FALSE]
           /\ ran' = r.count
<1>1. PICK n \in Counts \ {0} :
        /\ row' = [status |-> "creating", replicas |-> n, lastNonZero |-> n,
                   hostname |-> Exposed, deletedAt |-> FALSE]
        /\ ran' = n
        /\ Take(x, Fresh("create", n, n, CreateOrder))
  BY DEF Create
<1> DEFINE r == Fresh("create", n, n, CreateOrder)
<1>2. "create" \in Op
  BY DEF Op
<1>3. /\ r \in Request /\ r.op = "create" /\ r.count = n /\ r.keep = n /\ r.todo = CreateOrder /\ r.pc = "cluster"
      /\ ~r.late
  BY <1>2, FreshFields, OrderTypes
<1>4. n > 0
  BY BoundTypes DEF Counts
<1> HIDE DEF r
<1>5. Take(x, r)
  BY <1>1 DEF r
<1> QED BY <1>1, <1>3, <1>4, <1>5

\* The other requests begin with what Fits says.
LEMMA BeginFits ==
  ASSUME TypeOK, NEW x \in Handlers, Begin(x)
  PROVE  \E r \in Request : /\ Take(x, r) /\ Fits(r) /\ r.op # "create"
                            /\ r.op = "status" => row.status # "deleted"
<1> DEFINE Good(r) == /\ Take(x, r) /\ Fits(r) /\ r.op # "create"
                      /\ r.op = "status" => row.status # "deleted"
<1>1. "scale" \in Op /\ "stop" \in Op /\ "start" \in Op /\ "restart" \in Op /\ "delete" \in Op /\ "status" \in Op
  BY DEF Op
<1>2. 0 \in Counts /\ row.lastNonZero \in Counts /\ row.replicas \in Counts
  BY BoundTypes, RowFields
<1>3. CASE row.status # "deleted" /\ Take(x, Fresh("status", 0, 0, <<>>))
  <2> DEFINE r == Fresh("status", 0, 0, <<>>)
  <2>1. r \in Request /\ Fits(r) /\ r.op = "status"
    BY <1>1, <1>2, PlainFields DEF Fits
  <2>2. Take(x, r)
    BY <1>3
  <2> HIDE DEF r
  <2> QED BY <1>3, <2>1, <2>2
<1>4. ASSUME NEW n \in Counts, Take(x, Fresh("scale", n, IF n > 0 THEN n ELSE row.lastNonZero, <<>>))
      PROVE  \E r \in Request : Good(r)
  <2> DEFINE k == IF n > 0 THEN n ELSE row.lastNonZero
             r == Fresh("scale", n, k, <<>>)
  <2>1. k \in Counts
    BY <1>2
  <2>2. /\ r \in Request /\ r.op = "scale" /\ r.count = n /\ r.keep = k /\ r.pc = "cluster"
        /\ ~r.late
    BY <1>1, <2>1, PlainFields
  <2>3. Take(x, r)
    BY <1>4
  <2>4. Fits(r)
    BY <2>2 DEF Fits
  <2> HIDE DEF r
  <2> QED BY <2>2, <2>3, <2>4
<1>5. CASE Take(x, Fresh("stop", 0, IF row.replicas > 0 THEN row.replicas ELSE row.lastNonZero, <<>>))
  <2> DEFINE k == IF row.replicas > 0 THEN row.replicas ELSE row.lastNonZero
             r == Fresh("stop", 0, k, <<>>)
  <2>1. k \in Counts
    BY <1>2
  <2>2. /\ r \in Request /\ r.op = "stop" /\ r.count = 0 /\ r.keep = k /\ r.pc = "cluster"
        /\ ~r.late
    BY <1>1, <1>2, <2>1, PlainFields
  <2>3. Take(x, r)
    BY <1>5
  <2>4. Fits(r)
    BY <2>2 DEF Fits
  <2> HIDE DEF r
  <2> QED BY <2>2, <2>3, <2>4
<1>6. ASSUME NEW n \in (Counts \ {0}) \cup {row.lastNonZero}, Take(x, Fresh("start", n, n, <<>>))
      PROVE  \E r \in Request : Good(r)
  <2> DEFINE r == Fresh("start", n, n, <<>>)
  <2>1. n \in Counts /\ (n > 0 \/ n = row.lastNonZero)
    BY <1>2 DEF Counts
  <2>2. /\ r \in Request /\ r.op = "start" /\ r.count = n /\ r.keep = n /\ r.pc = "cluster"
        /\ ~r.late
    BY <1>1, <2>1, PlainFields
  <2>3. Take(x, r)
    BY <1>6
  <2>4. Fits(r)
    BY <2>1, <2>2 DEF Fits
  <2> HIDE DEF r
  <2> QED BY <2>2, <2>3, <2>4
<1>7. CASE Take(x, Fresh("restart", 0, 0, <<>>))
  <2> DEFINE r == Fresh("restart", 0, 0, <<>>)
  <2>1. r \in Request /\ Fits(r) /\ r.op = "restart"
    BY <1>1, <1>2, PlainFields DEF Fits
  <2>2. Take(x, r)
    BY <1>7
  <2> HIDE DEF r
  <2> QED BY <2>1, <2>2
<1>8. CASE Take(x, Fresh("delete", 0, 0, DeleteOrder(row.hostname)))
  <2> DEFINE r == Fresh("delete", 0, 0, DeleteOrder(row.hostname))
  <2>1. DeleteOrder(row.hostname) \in Seq(Resource)
    BY OrderTypes, RowFields
  <2>2. r \in Request /\ Fits(r) /\ r.op = "delete"
    BY <1>1, <1>2, <2>1, FreshFields DEF Fits
  <2>3. Take(x, r)
    BY <1>8
  <2> HIDE DEF r
  <2> QED BY <2>2, <2>3
<1>9. CASE \E n \in Counts : Take(x, Fresh("scale", n, IF n > 0 THEN n ELSE row.lastNonZero, <<>>))
  BY <1>4, <1>9
<1>10. CASE \E n \in (Counts \ {0}) \cup {row.lastNonZero} : Take(x, Fresh("start", n, n, <<>>))
  BY <1>6, <1>10
<1> HIDE DEF Good
<1> QED BY <1>3, <1>5, <1>7, <1>8, <1>9, <1>10 DEF Begin, Good

-----------------------------------------------------------------------------
(* Type correctness *)

\* The first resource a request visits is one, whatever it is for.
LEMMA VisitType ==
  ASSUME NEW x \in Handlers, h[x] \in Request, h[x].todo # <<>>
  PROVE  /\ Next1(x) \in Resource /\ Tail(h[x].todo) \in Seq(Resource)
         /\ Len(h[x].todo) # 1 => Tail(h[x].todo) # <<>>
         /\ Left(h[x].todo) = {Next1(x)} \cup Left(Tail(h[x].todo))
         /\ Len(h[x].todo) = 1 => Left(Tail(h[x].todo)) = {}
<1>1. h[x].todo \in Seq(Resource)
  BY RequestFields
<1> QED BY <1>1, LeftTail DEF Next1

\* The row a request writes.
LEMMA UpdatedFields ==
  ASSUME TypeOK, NEW x \in Handlers, h[x] \in Request
  PROVE  /\ Updated(x) \in Row
         /\ Updated(x).status # "absent"
         /\ Patches(x) => /\ Updated(x).replicas = h[x].count /\ Updated(x).lastNonZero = h[x].keep
                          /\ Updated(x).hostname = row.hostname /\ Updated(x).deletedAt = row.deletedAt
         /\ ~Patches(x) => /\ Updated(x).replicas = row.replicas /\ Updated(x).lastNonZero = row.lastNonZero
         /\ ~Patches(x) /\ h[x].op # "delete" =>
              Updated(x).hostname = row.hostname /\ Updated(x).deletedAt = row.deletedAt
         /\ h[x].op = "delete" =>
              Updated(x).status = "deleted" /\ Updated(x).deletedAt /\ ~Updated(x).hostname
         /\ h[x].op = "status" => Updated(x).status = "running"
         /\ h[x].op = "restart" => Updated(x).status = "creating"
         /\ h[x].op = "scale" => Updated(x).status = IF h[x].count = 0 THEN "stopped" ELSE "creating"
         /\ h[x].op = "stop" => Updated(x).status = "stopped"
         /\ h[x].op = "start" => Updated(x).status = "creating"
<1>1. /\ row \in Row /\ h[x].op \in Op /\ h[x].count \in Counts /\ h[x].keep \in Counts
  BY RequestFields DEF TypeOK
<1>2. ASSUME NEW status \in Status
      PROVE  LET r == Scaled(x, status)
             IN  /\ r \in Row /\ r.status = status /\ r.replicas = h[x].count /\ r.lastNonZero = h[x].keep
                 /\ r.hostname = row.hostname /\ r.deletedAt = row.deletedAt
  BY <1>1 DEF Scaled, Row
<1>3. CASE h[x].op = "scale"
  <2> DEFINE st == IF h[x].count = 0 THEN "stopped" ELSE "creating"
  <2>1. st \in Status /\ st # "absent"
    BY DEF Status
  <2>2. Updated(x) = Scaled(x, st)
    BY <1>3 DEF Updated
  <2> HIDE DEF st
  <2>3. /\ Updated(x) \in Row /\ Updated(x).status = st /\ Updated(x).replicas = h[x].count
        /\ Updated(x).lastNonZero = h[x].keep
        /\ Updated(x).hostname = row.hostname /\ Updated(x).deletedAt = row.deletedAt
    BY <1>2, <2>1, <2>2
  <2> QED BY <1>3, <2>1, <2>3 DEF st, Patches
<1>4. CASE h[x].op = "stop"
  <2>1. "stopped" \in Status
    BY DEF Status
  <2>2. Updated(x) = Scaled(x, "stopped")
    BY <1>4 DEF Updated
  <2> QED BY <1>2, <1>4, <2>1, <2>2 DEF Patches
<1>5. CASE h[x].op = "start"
  <2>1. "creating" \in Status
    BY DEF Status
  <2>2. Updated(x) = Scaled(x, "creating")
    BY <1>5 DEF Updated
  <2> QED BY <1>2, <1>5, <2>1, <2>2 DEF Patches
<1>6. CASE h[x].op = "create"
  BY <1>1, <1>6 DEF Updated, Row, Status, Patches
<1>7. CASE h[x].op = "status"
  BY <1>1, <1>7 DEF Updated, Row, Status, Patches
<1>8. CASE h[x].op = "restart"
  BY <1>1, <1>8 DEF Updated, Row, Status, Patches
<1>9. CASE h[x].op = "delete"
  BY <1>1, <1>9 DEF Updated, Row, Status, Patches
<1> QED BY <1>1, <1>3, <1>4, <1>5, <1>6, <1>7, <1>8, <1>9 DEF Op

\* At the start there is nothing.
LEMMA InitBase == Init => BaseInv
<1> SUFFICES ASSUME Init PROVE BaseInv
  OBVIOUS
<1>1. row \in Row
  BY BoundTypes DEF Init, NoRow, Row, Status
<1>2. TypeOK
  BY <1>1, BoundTypes DEF Init, TypeOK
<1>3. PlaceInv
  BY DEF Init, PlaceInv, Idle
<1> QED BY <1>2, <1>3 DEF BaseInv

\* A request that begins keeps types and places.
LEMMA BeginBase ==
  ASSUME BaseInv, NEW x \in Handlers, Create(x) \/ Begin(x)
  PROVE  BaseInv'
<1>1. TypeOK /\ PlaceInv
  BY DEF BaseInv
<1>2. PICK r \in Request : /\ Take(x, r) /\ r.pc = "cluster"
                           /\ r.op \in {"create", "delete"} => r.todo # <<>>
                           /\ row' \in Row /\ ran' \in Counts
  <2>1. CASE Create(x)
    <3>1. PICK r \in Request :
           /\ r.op = "create" /\ r.keep = r.count /\ r.count > 0 /\ r.pc = "cluster" /\ ~r.late
           /\ r.todo = CreateOrder
           /\ Take(x, r)
           /\ row' = [status |-> "creating", replicas |-> r.count, lastNonZero |-> r.count,
                      hostname |-> Exposed, deletedAt |-> FALSE]
           /\ ran' = r.count
      BY <1>1, <2>1, CreateBegins
    <3>2. row' \in Row /\ ran' \in Counts
      BY <3>1, BoundTypes, RequestFields DEF Row, Status
    <3> QED BY <3>1, <3>2, OrderTypes
  <2>2. CASE Begin(x)
    <3>1. PICK r \in Request : Take(x, r) /\ Fits(r) /\ r.op # "create"
      BY <1>1, <2>2, BeginFits
    <3>2. row' \in Row /\ ran' \in Counts
      BY <1>1, <2>2 DEF Begin, TypeOK
    <3> QED BY <1>1, <3>1, <3>2, OrderTypes, RowFields DEF Fits
  <2> QED BY <2>1, <2>2
<1>3. UNCHANGED <<res, spec, faults, crashes, cleaned>>
  BY DEF Create, Begin
<1>4. h' \in [Handlers -> Request \cup {NoRequest}] /\ calm' \in BOOLEAN
  <2>1. calm' \in BOOLEAN
    BY <1>2 DEF Take
  <2> QED BY <1>1, <1>2, <2>1, TakeFields
<1>5. ASSUME NEW y \in Handlers, ~Idle(y)' PROVE Place(h[y])'
  <2>1. CASE y = x
    <3>1. h'[x] \in Request /\ h'[x].op = r.op /\ h'[x].pc = r.pc /\ h'[x].todo = r.todo
      BY <1>1, <1>2, TakeFields
    <3> QED BY <1>2, <2>1, <3>1 DEF Place
  <2>2. CASE y # x
    <3>1. \/ Idle(y) /\ h'[y] = h[y]
          \/ ~Idle(y) /\ h[y] \in Request /\ h'[y] = Crowded(h[y])
      BY <1>1, <1>2, <2>2, TakeFields
    <3>2. Place(h[y]) /\ h[y] \in Request /\ h'[y] = Crowded(h[y])
      BY <1>1, <1>5, <3>1 DEF PlaceInv, Idle
    <3> QED BY <3>2, CrowdedFields DEF Place
  <2> QED BY <2>1, <2>2
<1> QED BY <1>1, <1>2, <1>3, <1>4, <1>5 DEF BaseInv, TypeOK, PlaceInv

\* Where one request changes, the others stay in their places.
LEMMA OnlyPlace ==
  ASSUME PlaceInv, NEW x \in Handlers, NEW q, Only(x, q), q = NoRequest \/ Place(q)
  PROVE  PlaceInv'
BY DEF PlaceInv, Only, Idle

\* The cluster keeps its types when a resource is made or dropped.
LEMMA ClusterType ==
  ASSUME TypeOK, NEW r \in Resource, NEW n \in Counts, MakeResource(r, n) \/ DropResource(r)
  PROVE  res' \in SUBSET Resource /\ spec' \in Counts
BY BoundTypes DEF TypeOK, MakeResource, DropResource

\* A step of a request keeps types and places.
LEMMA StepBase ==
  ASSUME BaseInv, NEW x \in Handlers, Step(x)
  PROVE  BaseInv'
<1>1. TypeOK /\ PlaceInv /\ h[x] \in Request /\ Place(h[x]) /\ crashes' = crashes
  BY StepCases DEF BaseInv
<1>2. h[x].count \in Counts /\ h[x].todo \in Seq(Resource)
  BY <1>1, RequestFields
<1>3. /\ Return => faults' \in Nat /\ calm' \in BOOLEAN
      /\ Raise => faults' \in Nat /\ calm' \in BOOLEAN
      /\ Unwritten => row' \in Row /\ ran' \in Counts
      /\ Patch(x) => spec' \in Counts
      /\ UNCHANGED spec => spec' \in Counts
      /\ UNCHANGED res => res' \in SUBSET Resource
      /\ UNCHANGED cleaned => cleaned' \in BOOLEAN
  <2>1. /\ faults \in Nat /\ calm \in BOOLEAN /\ row \in Row /\ ran \in Counts
        /\ spec \in Counts /\ res \in SUBSET Resource /\ cleaned \in BOOLEAN
    BY <1>1 DEF TypeOK
  <2>2. Return => faults' \in Nat /\ calm' \in BOOLEAN
    BY <2>1 DEF Return
  <2>3. Raise => faults' \in Nat /\ calm' \in BOOLEAN
    <3>1. Raise => faults' \in Nat
      BY <2>1 DEF Raise
    <3>2. Raise => calm' \in BOOLEAN
      BY DEF Raise
    <3> QED BY <3>1, <3>2
  <2>4. Unwritten => row' \in Row /\ ran' \in Counts
    BY <2>1 DEF Unwritten
  <2>5. Patch(x) => spec' \in Counts
    BY <1>2, <2>1 DEF Patch
  <2> QED BY <2>1, <2>2, <2>3, <2>4, <2>5
<1>4. ASSUME NEW q, Only(x, q), q = NoRequest \/ Place(q),
             res' \in SUBSET Resource, spec' \in Counts, row' \in Row, ran' \in Counts,
             faults' \in Nat, calm' \in BOOLEAN, cleaned' \in BOOLEAN
      PROVE  BaseInv'
  <2>1. PlaceInv'
    BY <1>1, <1>4, OnlyPlace
  <2>2. TypeOK'
    BY <1>1, <1>4 DEF TypeOK, Only
  <2> QED BY <2>1, <2>2 DEF BaseInv
<1>5. ASSUME NEW pc \in {"cluster", "undo", "failed", "db"}, NEW todo \in Seq(Resource),
             pc \in {"undo", "failed"} => h[x].op = "create",
             pc = "db" => h[x].op # "create",
             pc = "undo" \/ (pc = "cluster" /\ h[x].op \in {"create", "delete"}) => todo # <<>>
      PROVE  Place(Moved(h[x], pc, todo))
  <2> DEFINE q == Moved(h[x], pc, todo)
  <2>1. q.pc = pc /\ q.todo = todo /\ q.op = h[x].op
    <3>1. h[x] \in Request
      BY <1>1
    <3> QED BY <3>1 DEF Moved, Request
  <2> HIDE DEF q
  <2>2. Place(q)
    BY <1>5, <2>1 DEF Place
  <2> QED BY <2>2 DEF q
<1>6. CASE Patched(x)
  <2>1. Place(Moved(h[x], "db", h[x].todo))
    BY <1>2, <1>5, <1>6 DEF Patched
  <2> QED BY <1>3, <1>4, <1>6, <2>1 DEF Patched
<1>7. CASE Seen(x)
  <2>1. Place(Moved(h[x], "db", h[x].todo))
    BY <1>2, <1>5, <1>7 DEF Seen, At
  <2> QED BY <1>3, <1>4, <1>7, <2>1 DEF Seen
<1>8. CASE Ended(x)
  BY <1>3, <1>4, <1>8 DEF Ended
<1>9. ASSUME NEW todo \in Seq(Resource), todo # <<>>, h[x].todo = todo
      PROVE  /\ Next1(x) \in Resource /\ Tail(h[x].todo) \in Seq(Resource)
             /\ Len(h[x].todo) # 1 => Tail(h[x].todo) # <<>>
             /\ MakeResource(Next1(x), h[x].count) => res' \in SUBSET Resource /\ spec' \in Counts
             /\ DropResource(Next1(x)) => res' \in SUBSET Resource /\ spec' \in Counts
  BY <1>1, <1>2, <1>9, VisitType, ClusterType
<1>10. CASE Makes(x)
  <2>1. h[x].todo # <<>> /\ h[x].op = "create"
    BY <1>1, <1>10 DEF Makes, Place, At
  <2>2. Len(h[x].todo) # 1 => Place(Moved(h[x], "cluster", Tail(h[x].todo)))
    BY <1>2, <1>5, <1>9, <2>1
  <2>3. res' \in SUBSET Resource /\ spec' \in Counts
    BY <1>2, <1>9, <1>10, <2>1 DEF Makes
  <2> QED BY <1>3, <1>4, <1>10, <2>2, <2>3 DEF Makes
<1>11. CASE MakeFails(x)
  <2>1. h[x].todo # <<>> /\ h[x].op = "create"
    BY <1>1, <1>11 DEF MakeFails, Place, At
  <2>2. Place(Moved(h[x], "undo", <<"redirect", "route">>)) /\ Place(Moved(h[x], "failed", h[x].todo))
    BY <1>2, <1>5, <2>1, OrderTypes
  <2>3. res' \in SUBSET Resource /\ spec' \in Counts
    BY <1>2, <1>3, <1>9, <1>11, <2>1 DEF MakeFails
  <2> QED BY <1>3, <1>4, <1>11, <2>2, <2>3 DEF MakeFails
<1>12. CASE Undoes(x)
  <2>1. h[x].todo # <<>> /\ h[x].op = "create"
    BY <1>1, <1>12 DEF Undoes, Place, At
  <2>2. /\ Place(Moved(h[x], IF Len(h[x].todo) = 1 THEN "failed" ELSE "undo", Tail(h[x].todo)))
        /\ Place(Moved(h[x], "failed", h[x].todo))
    BY <1>2, <1>5, <1>9, <2>1
  <2>3. res' \in SUBSET Resource /\ spec' \in Counts
    BY <1>2, <1>3, <1>9, <1>12, <2>1 DEF Undoes
  <2> QED BY <1>3, <1>4, <1>12, <2>2, <2>3 DEF Undoes
<1>13. CASE Drops(x)
  <2>1. h[x].todo # <<>> /\ h[x].op = "delete"
    BY <1>1, <1>13 DEF Drops, Place, At
  <2>2. Place(Moved(h[x], IF Len(h[x].todo) = 1 THEN "db" ELSE "cluster", Tail(h[x].todo)))
    BY <1>2, <1>5, <1>9, <2>1
  <2>3. res' \in SUBSET Resource /\ spec' \in Counts
    BY <1>2, <1>9, <1>13, <2>1 DEF Drops
  <2>4. cleaned' \in BOOLEAN
    BY <1>1, <1>13 DEF Drops, TypeOK
  <2> QED BY <1>3, <1>4, <1>13, <2>2, <2>3, <2>4 DEF Drops
<1>14. CASE Wrote(x)
  <2>1. Updated(x) \in Row /\ Updated(x).replicas \in Counts
    BY <1>1, UpdatedFields DEF Row
  <2>2. row' \in Row /\ ran' \in Counts
    BY <1>1, <1>14, <2>1 DEF Wrote, WriteRow, TypeOK
  <2> QED BY <1>3, <1>4, <1>14, <2>2 DEF Wrote, WriteRow
<1> QED BY <1>6, <1>7, <1>8, <1>10, <1>11, <1>12, <1>13, <1>14, StepCases

\* Every step is a request's, its beginning, or a stop of the manager.
LEMMA NextSplit ==
  ASSUME [Next]_vars
  PROVE  \/ \E x \in Handlers : Create(x) \/ Begin(x)
         \/ \E x \in Handlers : Step(x)
         \/ Crash
         \/ UNCHANGED vars
BY DEF Next

\* A stop ends all requests.
LEMMA CrashEnds ==
  ASSUME Crash
  PROVE  /\ \A x \in Handlers : h'[x] = NoRequest /\ Idle(x)'
         /\ ~calm' /\ UNCHANGED <<row, res, spec, faults, ran, cleaned>>
BY DEF Crash, Idle

\* Every step keeps types and places.
LEMMA NextBase ==
  ASSUME BaseInv, [Next]_vars
  PROVE  BaseInv'
<1>1. CASE Crash
  <2>1. h' \in [Handlers -> Request \cup {NoRequest}] /\ crashes' \in Nat
    BY <1>1 DEF Crash, BaseInv, TypeOK
  <2>2. TypeOK'
    BY <1>1, <2>1 DEF Crash, BaseInv, TypeOK
  <2> QED BY <1>1, <2>2, CrashEnds DEF BaseInv, PlaceInv
<1>2. CASE UNCHANGED vars
  BY <1>2 DEF vars, BaseInv, TypeOK, PlaceInv, Idle
<1> QED BY <1>1, <1>2, NextSplit, BeginBase, StepBase

\* In every reachable state the row, the cluster and the requests are of the right types
\* (DeploymentsService, KubernetesService).
THEOREM TypeCorrect == Spec => []TypeOK
<1>1. BaseInv /\ [Next]_vars => BaseInv'
  BY NextBase
<1>2. BaseInv => TypeOK
  BY DEF BaseInv
<1> QED BY <1>1, <1>2, InitBase, PTL DEF Spec

-----------------------------------------------------------------------------
(* What a delete leaves *)

\* A request that goes on is the same request.
LEMMA MovedNow ==
  ASSUME NEW x \in Handlers, h[x] \in Request, NEW pc \in {"cluster", "undo", "failed", "db"},
         NEW todo \in Seq(Resource), Only(x, Moved(h[x], pc, todo))
  PROVE  /\ h'[x].op = h[x].op /\ h'[x].keep = h[x].keep /\ h'[x].count = h[x].count
         /\ h'[x].late = h[x].late /\ h'[x].alone = h[x].alone
         /\ h'[x].pc = pc /\ h'[x].todo = todo /\ h'[x] \in Request
         /\ \A y \in Handlers : y # x => h'[y] = h[y]
<1>1. h'[x] = Moved(h[x], pc, todo) /\ \A y \in Handlers : y # x => h'[y] = h[y]
  BY DEF Only
<1>2. h'[x] \in Request
  BY <1>1, MovedFields
<1> QED BY <1>1, <1>2 DEF Moved, Request

\* The same request, wherever it stands.
SameRequest(q, r) ==
  /\ q.op = r.op /\ q.keep = r.keep /\ q.count = r.count /\ q.late = r.late /\ q.alone = r.alone

\* No step of a request turns it or another into a different one.
LEMMA StepSame ==
  ASSUME BaseInv, NEW x \in Handlers, Step(x)
  PROVE  /\ h'[x] = NoRequest \/ (h'[x] \in Request /\ SameRequest(h'[x], h[x]))
         /\ \A y \in Handlers : y # x => h'[y] = h[y]
<1>1. TypeOK /\ h[x] \in Request /\ Place(h[x]) /\ h[x].todo \in Seq(Resource)
  BY StepCases, RequestFields DEF BaseInv
<1>2. ASSUME Only(x, NoRequest)
      PROVE  h'[x] = NoRequest /\ \A y \in Handlers : y # x => h'[y] = h[y]
  BY <1>2 DEF Only
<1>3. ASSUME NEW pc \in {"cluster", "undo", "failed", "db"}, NEW todo \in Seq(Resource),
             Only(x, Moved(h[x], pc, todo))
      PROVE  /\ h'[x] \in Request /\ SameRequest(h'[x], h[x])
             /\ \A y \in Handlers : y # x => h'[y] = h[y]
  BY <1>1, <1>3, MovedNow DEF SameRequest
<1>4. h[x].todo # <<>> => Tail(h[x].todo) \in Seq(Resource)
  BY <1>1, VisitType
<1>5. CASE Patched(x)
  BY <1>1, <1>3, <1>5 DEF Patched
<1>6. CASE Seen(x)
  BY <1>1, <1>3, <1>6 DEF Seen
<1>7. CASE Ended(x)
  BY <1>2, <1>7 DEF Ended
<1>8. CASE Makes(x)
  <2>1. h[x].todo # <<>>
    BY <1>1, <1>8 DEF Makes, Place, At
  <2> QED BY <1>2, <1>3, <1>4, <1>8, <2>1 DEF Makes
<1>9. CASE MakeFails(x)
  BY <1>1, <1>3, <1>9, OrderTypes DEF MakeFails
<1>10. CASE Undoes(x)
  <2>1. h[x].todo # <<>>
    BY <1>1, <1>10 DEF Undoes, Place, At
  <2> QED BY <1>1, <1>3, <1>4, <1>10, <2>1 DEF Undoes
<1>11. CASE Drops(x)
  <2>1. h[x].todo # <<>>
    BY <1>1, <1>11 DEF Drops, Place, At
  <2> QED BY <1>1, <1>2, <1>3, <1>4, <1>11, <2>1 DEF Drops
<1>12. CASE Wrote(x)
  BY <1>2, <1>12 DEF Wrote
<1> QED BY <1>5, <1>6, <1>7, <1>8, <1>9, <1>10, <1>11, <1>12, StepCases

\* A delete that began after create had ended.
Late(x) == h[x].op = "delete" /\ h[x].late

\* Once there is such a delete, nothing makes resources any more, and what it has not dropped
\* yet it still has to visit.
LateInv ==
  /\ cleaned \/ (\E x \in Handlers : Late(x)) => CreateEnded
  /\ \A x \in Handlers : Late(x) /\ h[x].pc = "cluster" => res \cap Base \subseteq Left(h[x].todo)
  /\ NoLeftovers

\* A request that begins leaves LateInv.
LEMMA BeginLate ==
  ASSUME BaseInv, LateInv, NEW x \in Handlers, Create(x) \/ Begin(x)
  PROVE  LateInv'
<1>1. TypeOK /\ UNCHANGED <<res, cleaned>>
  BY DEF BaseInv, Create, Begin
<1>2. CASE Create(x)
  <2>1. PICK r \in Request : r.op = "create" /\ Take(x, r)
    BY <1>1, <1>2, CreateBegins
  <2>2. ~cleaned /\ \A y \in Handlers : ~Late(y)
    BY <1>2 DEF Create, LateInv, CreateEnded
  <2>3. ASSUME NEW y \in Handlers PROVE ~Late(y)'
    <3>1. CASE y = x
      <4>1. h'[x].op = "create"
        BY <1>1, <2>1, TakeFields
      <4> QED BY <3>1, <4>1 DEF Late
    <3>2. CASE y # x
      <4>1. h'[y] = h[y] \/ (h[y] \in Request /\ h'[y] = Crowded(h[y]))
        BY <1>1, <2>1, <3>2, TakeFields
      <4> QED BY <2>2, <4>1, CrowdedFields DEF Late
    <3> QED BY <3>1, <3>2
  <2> QED BY <1>1, <2>2, <2>3 DEF LateInv, NoLeftovers
<1>3. CASE Begin(x)
  <2>1. PICK r \in Request : Take(x, r) /\ Fits(r) /\ r.op # "create"
    BY <1>1, <1>3, BeginFits
  <2>2. row' = row
    BY <1>3 DEF Begin
  <2>3. h'[x].op = r.op /\ h'[x].late = r.late /\ h'[x].todo = r.todo
    BY <1>1, <2>1, TakeFields
  <2>4. ASSUME NEW y \in Handlers, y # x
        PROVE  \/ h'[y] = h[y]
               \/ /\ h'[y].op = h[y].op /\ h'[y].late = h[y].late
                  /\ h'[y].pc = h[y].pc /\ h'[y].todo = h[y].todo
    <3>1. h'[y] = h[y] \/ (h[y] \in Request /\ h'[y] = Crowded(h[y]))
      BY <1>1, <2>1, <2>4, TakeFields
    <3> QED BY <3>1, CrowdedFields
  <2>5. CreateEnded => CreateEnded'
    BY <2>1, <2>2, <2>3, <2>4 DEF CreateEnded
  <2>6. Late(x)' => CreateEnded /\ res \cap Base \subseteq Left(r.todo)
    <3>1. ASSUME Late(x)' PROVE r.op = "delete" /\ CreateEnded
      BY <2>1, <2>3, <3>1 DEF Late, Fits
    <3>2. ASSUME r.op = "delete" PROVE Base \subseteq Left(r.todo)
      <4>1. row.hostname \in BOOLEAN /\ r.todo = DeleteOrder(row.hostname)
        BY <1>1, <2>1, <3>2, RowFields DEF Fits
      <4> QED BY <4>1, OrderLeft DEF Resource
    <3> QED BY <3>1, <3>2
  <2>7. \A y \in Handlers : y # x /\ Late(y)' => Late(y)
    BY <2>4 DEF Late
  <2>8. cleaned' \/ (\E y \in Handlers : Late(y)') => CreateEnded'
    BY <1>1, <2>5, <2>6, <2>7 DEF LateInv
  <2>9. ASSUME NEW y \in Handlers, Late(y)', h'[y].pc = "cluster"
        PROVE  res' \cap Base \subseteq Left(h'[y].todo)
    <3>1. CASE y = x
      BY <1>1, <2>3, <2>6, <2>9, <3>1
    <3>2. CASE y # x
      BY <1>1, <2>4, <2>7, <2>9, <3>2 DEF LateInv
    <3> QED BY <3>1, <3>2
  <2> QED BY <1>1, <2>8, <2>9 DEF LateInv, NoLeftovers
<1> QED BY <1>2, <1>3

\* A step of a request makes no resource once create has ended, and a delete drops what it visits.
LEMMA StepResources ==
  ASSUME BaseInv, NEW x \in Handlers, Step(x)
  PROVE  /\ h[x].op # "create" => res' \subseteq res
         /\ row.status # "absent" => row'.status # "absent"
         /\ \/ cleaned' = cleaned
            \/ Late(x) /\ h[x].pc = "cluster" /\ res' = res \ Left(h[x].todo)
         /\ Late(x)' => /\ Late(x)
                        /\ h'[x].pc = "cluster" => /\ h[x].pc = "cluster" /\ res' = res \ {Next1(x)}
                                                   /\ Left(h[x].todo) \subseteq {Next1(x)} \cup Left(h'[x].todo)
<1>1. TypeOK /\ h[x] \in Request /\ Place(h[x]) /\ h[x].todo \in Seq(Resource)
  BY StepCases, RequestFields DEF BaseInv
<1>2. Late(x)' => Late(x)
  <2>1. NoRequest.op # "delete"
    BY DEF NoRequest
  <2> QED BY <2>1, StepSame DEF Late, SameRequest
<1>3. CASE Patched(x)
  <2>1. h'[x].pc = "db"
    BY <1>1, <1>3, MovedNow DEF Patched
  <2> QED BY <1>2, <1>3, <2>1 DEF Patched, Unwritten
<1>4. CASE Seen(x)
  <2>1. h'[x].pc = "db"
    BY <1>1, <1>4, MovedNow DEF Seen
  <2> QED BY <1>2, <1>4, <2>1 DEF Seen, Unwritten
<1>5. ASSUME Only(x, NoRequest) PROVE ~Late(x)'
  BY <1>5 DEF Only, Late, NoRequest
<1>6. CASE Ended(x)
  BY <1>5, <1>6 DEF Ended, Unwritten
<1>7. h[x].op = "create" => ~Late(x)'
  BY <1>2 DEF Late
<1>8. CASE Makes(x)
  BY <1>7, <1>8 DEF Makes, Unwritten, At
<1>9. CASE MakeFails(x)
  BY <1>7, <1>9 DEF MakeFails, Unwritten, At
<1>10. CASE Undoes(x)
  BY <1>7, <1>10 DEF Undoes, Unwritten, At
<1>11. CASE Drops(x)
  <2>1. h[x].todo # <<>> /\ h[x].op = "delete" /\ h[x].pc = "cluster" /\ res' = res \ {Next1(x)} /\ row' = row
    BY <1>1, <1>11 DEF Drops, Place, At, DropResource, Unwritten
  <2>2. /\ Tail(h[x].todo) \in Seq(Resource)
        /\ Left(h[x].todo) = {Next1(x)} \cup Left(Tail(h[x].todo))
        /\ Len(h[x].todo) = 1 => Left(Tail(h[x].todo)) = {}
    BY <1>1, <2>1, VisitType
  <2>3. cleaned' = cleaned \/ (h[x].late /\ Len(h[x].todo) = 1)
    <3>1. cleaned \in BOOLEAN
      BY <1>1 DEF TypeOK
    <3> QED BY <1>11, <3>1 DEF Drops
  <2>4. \/ Only(x, NoRequest)
        \/ Only(x, Moved(h[x], IF Len(h[x].todo) = 1 THEN "db" ELSE "cluster", Tail(h[x].todo)))
    BY <1>11 DEF Drops
  <2>5. Late(x)' => h'[x].todo = Tail(h[x].todo)
    BY <1>1, <1>5, <2>2, <2>4, MovedNow
  <2> QED BY <1>2, <2>1, <2>2, <2>3, <2>5 DEF Late
<1>12. CASE Wrote(x)
  <2>1. row' = Updated(x) \/ row' = row
    BY <1>12 DEF Wrote, WriteRow
  <2> QED BY <1>1, <1>5, <1>12, <2>1, UpdatedFields DEF Wrote, WriteRow
<1> QED BY <1>3, <1>4, <1>6, <1>8, <1>9, <1>10, <1>11, <1>12, StepCases

\* Every step keeps LateInv.
LEMMA LateKept ==
  ASSUME BaseInv, LateInv, [Next]_vars
  PROVE  LateInv'
<1>1. ASSUME NEW x \in Handlers, Step(x) PROVE LateInv'
  <2>1. /\ h[x].op # "create" => res' \subseteq res
        /\ row.status # "absent" => row'.status # "absent"
        /\ \/ cleaned' = cleaned
           \/ Late(x) /\ h[x].pc = "cluster" /\ res' = res \ Left(h[x].todo)
        /\ Late(x)' => /\ Late(x)
                       /\ h'[x].pc = "cluster" => /\ h[x].pc = "cluster" /\ res' = res \ {Next1(x)}
                                                  /\ Left(h[x].todo) \subseteq {Next1(x)} \cup Left(h'[x].todo)
    BY <1>1, StepResources
  <2>2. /\ h'[x] = NoRequest \/ (h'[x] \in Request /\ SameRequest(h'[x], h[x]))
        /\ \A y \in Handlers : y # x => h'[y] = h[y]
    BY <1>1, StepSame
  <2>3. CreateEnded => CreateEnded'
    BY <2>1, <2>2 DEF CreateEnded, SameRequest, NoRequest
  <2>4. \A y \in Handlers : Late(y)' => Late(y)
    BY <2>1, <2>2 DEF Late
  <2>5. CreateEnded => res' \subseteq res
    BY <2>1 DEF CreateEnded
  <2>6. cleaned' \/ (\E y \in Handlers : Late(y)') => CreateEnded'
    BY <2>1, <2>3, <2>4 DEF LateInv
  <2>7. ASSUME NEW y \in Handlers, Late(y)', h'[y].pc = "cluster"
        PROVE  res' \cap Base \subseteq Left(h'[y].todo)
    <3>1. Late(y) /\ CreateEnded
      BY <2>4, <2>7 DEF LateInv
    <3>2. CASE y = x
      BY <2>1, <2>7, <3>1, <3>2 DEF LateInv
    <3>3. CASE y # x
      BY <2>2, <2>5, <2>7, <3>1, <3>3 DEF LateInv
    <3> QED BY <3>2, <3>3
  <2>8. NoLeftovers'
    <3>1. CASE cleaned' = cleaned
      BY <2>5, <3>1 DEF LateInv, NoLeftovers
    <3>2. CASE Late(x) /\ h[x].pc = "cluster" /\ res' = res \ Left(h[x].todo)
      BY <3>2 DEF LateInv, NoLeftovers
    <3> QED BY <2>1, <3>1, <3>2
  <2> QED BY <2>6, <2>7, <2>8 DEF LateInv
<1>2. CASE Crash
  <2>1. \A y \in Handlers : h'[y].op = "none"
    BY <1>2, CrashEnds DEF NoRequest
  <2> QED BY <1>2, <2>1, CrashEnds DEF LateInv, Late, CreateEnded, NoLeftovers
<1>3. CASE UNCHANGED vars
  BY <1>3 DEF vars, LateInv, Late, CreateEnded, NoLeftovers
<1> QED BY <1>1, <1>2, <1>3, BeginLate, NextSplit

\* Once a delete that began after create had ended got through the cluster, no request,
\* however late, brings the Deployment, the Service or the configuration back: patches need a
\* Deployment, and create, the only one that makes resources, runs once
\* (KubernetesService.deleteDeploymentResources).
THEOREM NothingLeft == Spec => []NoLeftovers
<1>1. Init => LateInv
  BY DEF Init, LateInv, Late, NoLeftovers, NoRequest
<1>2. BaseInv /\ [Next]_vars => BaseInv'
  BY NextBase
<1>3. BaseInv /\ LateInv /\ [Next]_vars => LateInv'
  BY LateKept
<1>4. LateInv => NoLeftovers
  BY DEF LateInv
<1> QED BY <1>1, <1>2, <1>3, <1>4, InitBase, PTL DEF Spec

-----------------------------------------------------------------------------
(* What a request alone with the deployment repairs *)

\* A patching request restores a count that is not zero, the one it sets unless that is zero.
Restores(r) ==
  r.op \in {"scale", "stop", "start"} =>
    /\ r.keep > 0 /\ (r.count > 0 => r.keep = r.count)
    /\ r.op = "start" => r.count > 0
    /\ r.op = "stop" => r.count = 0

\* The row remembers a count to restore, the one that runs if any does.
RowInv ==
  /\ (\E x \in Handlers : ~Idle(x)) => row.status # "absent"
  /\ row.status # "absent" => row.lastNonZero > 0
  /\ row.replicas > 0 => row.lastNonZero = row.replicas
  /\ \A x \in Handlers : Restores(h[x])

\* A request that is alone has no company, and what it patched and what it read still holds.
AloneInv ==
  \A x \in Handlers : ~Idle(x) /\ h[x].alone =>
    /\ \A y \in Handlers : y # x => Idle(y)
    /\ Patches(x) /\ h[x].pc = "db" => spec = h[x].count
    /\ Patches(x) /\ h[x].count = 0 /\ row.replicas > 0 => h[x].keep = row.replicas

\* No request restores nothing.
LEMMA RestoresNothing == Restores(NoRequest)
BY DEF Restores, NoRequest

\* A request that begins keeps RowInv.
LEMMA BeginRow ==
  ASSUME BaseInv, RowInv, NEW x \in Handlers, Create(x) \/ Begin(x)
  PROVE  RowInv'
<1>1. TypeOK
  BY DEF BaseInv
<1>2. PICK r \in Request :
        /\ Take(x, r) /\ Restores(r)
        /\ row'.status # "absent" /\ row'.lastNonZero > 0
        /\ row'.replicas > 0 => row'.lastNonZero = row'.replicas
  <2>1. CASE Create(x)
    <3>1. PICK r \in Request :
           /\ r.op = "create" /\ r.keep = r.count /\ r.count > 0
           /\ Take(x, r)
           /\ row' = [status |-> "creating", replicas |-> r.count, lastNonZero |-> r.count,
                      hostname |-> Exposed, deletedAt |-> FALSE]
      BY <1>1, <2>1, CreateBegins
    <3> QED BY <3>1 DEF Restores
  <2>2. CASE Begin(x)
    <3>1. PICK r \in Request : Take(x, r) /\ Fits(r) /\ r.op # "create"
      BY <1>1, <2>2, BeginFits
    <3>2. row' = row /\ row.status # "absent" /\ row.lastNonZero > 0
      BY <2>2 DEF Begin, RowInv
    <3>3. r.count \in Nat /\ row.replicas \in Nat /\ row.lastNonZero \in Nat
      BY <1>1, RequestFields, RowFields, BoundTypes
    <3>4. Restores(r)
      BY <3>1, <3>2, <3>3 DEF Restores, Fits, RowInv
    <3> QED BY <3>1, <3>2, <3>4 DEF RowInv
  <2> QED BY <2>1, <2>2
<1>3. ASSUME NEW y \in Handlers PROVE Restores(h[y])'
  <2>1. CASE y = x
    <3>1. h'[x].op = r.op /\ h'[x].keep = r.keep /\ h'[x].count = r.count
      BY <1>1, <1>2, TakeFields
    <3> QED BY <1>2, <2>1, <3>1 DEF Restores
  <2>2. CASE y # x
    <3>1. h'[y] = h[y] \/ (h[y] \in Request /\ h'[y] = Crowded(h[y]))
      BY <1>1, <1>2, <2>2, TakeFields
    <3> QED BY <3>1, CrowdedFields DEF Restores, RowInv
  <2> QED BY <2>1, <2>2
<1> QED BY <1>2, <1>3 DEF RowInv

\* A request that begins keeps AloneInv.
LEMMA BeginAlone ==
  ASSUME BaseInv, RowInv, AloneInv, NEW x \in Handlers, Create(x) \/ Begin(x)
  PROVE  AloneInv'
<1>1. TypeOK
  BY DEF BaseInv
<1>2. PICK r \in Request :
        /\ Take(x, r) /\ r.pc = "cluster"
        /\ r.op \in {"scale", "stop", "start"} /\ r.count = 0 /\ row'.replicas > 0 => r.keep = row'.replicas
  <2>1. CASE Create(x)
    BY <1>1, <2>1, CreateBegins
  <2>2. CASE Begin(x)
    <3>1. PICK r \in Request : Take(x, r) /\ Fits(r) /\ r.op # "create"
      BY <1>1, <2>2, BeginFits
    <3>2. row' = row /\ row.status # "absent" /\ row.lastNonZero > 0
      BY <2>2 DEF Begin, RowInv
    <3>3. r.count \in Nat /\ row.replicas \in Nat /\ row.lastNonZero \in Nat
      BY <1>1, RequestFields, RowFields, BoundTypes
    <3> QED BY <3>1, <3>2, <3>3 DEF Fits, RowInv
  <2> QED BY <2>1, <2>2
<1>3. /\ h'[x].op = r.op /\ h'[x].keep = r.keep /\ h'[x].count = r.count /\ h'[x].pc = r.pc
      /\ h'[x].alone <=> \A y \in Handlers : Idle(y)
      /\ \A y \in Handlers : y # x =>
            \/ Idle(y) /\ h'[y] = h[y]
            \/ ~Idle(y) /\ h[y] \in Request /\ h'[y] = Crowded(h[y])
  BY <1>1, <1>2, TakeFields
<1>4. ASSUME NEW y \in Handlers, ~Idle(y)', h'[y].alone PROVE y = x
  BY <1>3, <1>4, CrowdedFields DEF Idle
<1>5. h'[x].alone => \A y \in Handlers : y # x => Idle(y)'
  BY <1>3 DEF Idle
<1> QED BY <1>2, <1>3, <1>4, <1>5 DEF AloneInv, Patches

\* What a step of a request does to the row and to what runs.
LEMMA StepWrites ==
  ASSUME BaseInv, NEW x \in Handlers, Step(x)
  PROVE  /\ ~Idle(x) /\ h[x] \in Request
         /\ \/ row' = row /\ ran' = ran
            \/ /\ h'[x] = NoRequest /\ h[x].pc \in {"db", "failed"} /\ row' = Updated(x) /\ spec' = spec
               /\ ran' = IF row'.replicas > 0 THEN row'.replicas ELSE ran
         /\ Patches(x) /\ h'[x] # NoRequest => h'[x].pc = "db" /\ spec' = h[x].count
         /\ h[x].pc = "db" /\ UNCHANGED faults =>
              h'[x] = NoRequest /\ row' = Updated(x) /\ spec' = spec
<1>1. TypeOK /\ h[x] \in Request /\ Place(h[x]) /\ ~Idle(x)
  BY StepCases, RequestFields DEF BaseInv, Idle
<1>2. CASE Patched(x)
  BY <1>1, <1>2, MovedNow, RequestFields DEF Patched, Unwritten, Patch
<1>3. CASE Seen(x)
  BY <1>1, <1>3 DEF Seen, Unwritten, Patches, At
<1>4. CASE Ended(x)
  BY <1>1, <1>4 DEF Ended, Unwritten, Only
<1>5. CASE Makes(x)
  BY <1>1, <1>5 DEF Makes, Unwritten, Patches, At
<1>6. CASE MakeFails(x)
  BY <1>1, <1>6 DEF MakeFails, Unwritten, Patches, At
<1>7. CASE Undoes(x)
  BY <1>1, <1>7 DEF Undoes, Unwritten, Patches, At
<1>8. CASE Drops(x)
  BY <1>1, <1>8 DEF Drops, Unwritten, Patches, At
<1>9. CASE Wrote(x)
  <2>1. /\ h[x].pc \in {"db", "failed"} /\ h'[x] = NoRequest /\ spec' = spec
        /\ \/ row' = Updated(x) /\ ran' = IF row'.replicas > 0 THEN row'.replicas ELSE ran
           \/ Raise /\ row' = row /\ ran' = ran
    BY <1>9 DEF Wrote, WriteRow, Only
  <2>2. Raise => faults' # faults
    BY <1>1 DEF Raise, TypeOK
  <2> QED BY <1>1, <2>1, <2>2
<1> QED BY <1>2, <1>3, <1>4, <1>5, <1>6, <1>7, <1>8, <1>9, StepCases

\* A step of a request keeps RowInv and AloneInv.
LEMMA StepRepairs ==
  ASSUME BaseInv, RowInv, AloneInv, NEW x \in Handlers, Step(x)
  PROVE  RowInv' /\ AloneInv'
<1>1. /\ ~Idle(x) /\ h[x] \in Request
      /\ \/ row' = row /\ ran' = ran
         \/ h'[x] = NoRequest /\ row' = Updated(x)
      /\ Patches(x) /\ h'[x] # NoRequest => h'[x].pc = "db" /\ spec' = h[x].count
  BY StepWrites
<1>2. /\ h'[x] = NoRequest \/ (h'[x] \in Request /\ SameRequest(h'[x], h[x]))
      /\ \A y \in Handlers : y # x => h'[y] = h[y]
  BY StepSame
<1>3. row.status # "absent" /\ row.lastNonZero > 0
  BY <1>1 DEF RowInv
<1>4. ASSUME NEW y \in Handlers PROVE Restores(h[y])'
  BY <1>2, RestoresNothing DEF RowInv, Restores, SameRequest
<1>5. /\ row'.status # "absent" /\ row'.lastNonZero > 0
      /\ row'.replicas > 0 => row'.lastNonZero = row'.replicas
  <2>1. CASE row' = row
    BY <1>3, <2>1 DEF RowInv
  <2>2. CASE row' = Updated(x)
    <3>1. Updated(x).status # "absent"
      BY <1>1, UpdatedFields DEF BaseInv
    <3>2. CASE Patches(x)
      <4>1. Updated(x).replicas = h[x].count /\ Updated(x).lastNonZero = h[x].keep
        BY <1>1, <3>2, UpdatedFields DEF BaseInv
      <4>2. h[x].keep > 0 /\ (h[x].count > 0 => h[x].keep = h[x].count)
        BY <3>2 DEF RowInv, Restores, Patches
      <4> QED BY <2>2, <3>1, <4>1, <4>2
    <3>3. CASE ~Patches(x)
      <4>1. Updated(x).replicas = row.replicas /\ Updated(x).lastNonZero = row.lastNonZero
        BY <1>1, <3>3, UpdatedFields DEF BaseInv
      <4> QED BY <1>3, <2>2, <3>1, <4>1 DEF RowInv
    <3> QED BY <3>2, <3>3
  <2> QED BY <1>1, <2>1, <2>2
<1>6. RowInv'
  BY <1>4, <1>5 DEF RowInv
<1>7. ASSUME NEW y \in Handlers, ~Idle(y)', h'[y].alone
      PROVE  /\ \A z \in Handlers : z # y => Idle(z)'
             /\ Patches(y)' /\ h'[y].pc = "db" => spec' = h'[y].count
             /\ Patches(y)' /\ h'[y].count = 0 /\ row'.replicas > 0 => h'[y].keep = row'.replicas
  <2>1. CASE y # x
    <3>1. ~Idle(y) /\ h[y].alone
      BY <1>2, <1>7, <2>1 DEF Idle
    <3> QED BY <1>1, <2>1, <3>1 DEF AloneInv
  <2>2. CASE y = x
    <3>1. h'[x] # NoRequest /\ SameRequest(h'[x], h[x]) /\ h[x].alone /\ row' = row
      BY <1>1, <1>2, <1>7, <2>2 DEF Idle, SameRequest
    <3>2. \A z \in Handlers : z # x => Idle(z)'
      BY <1>1, <1>2, <3>1 DEF AloneInv, Idle
    <3>3. Patches(x)' => Patches(x)
      BY <3>1 DEF Patches, SameRequest
    <3>4. Patches(x)' => spec' = h'[x].count
      BY <1>1, <3>1, <3>3 DEF SameRequest
    <3>5. Patches(x)' /\ h'[x].count = 0 /\ row'.replicas > 0 => h'[x].keep = row'.replicas
      BY <1>1, <3>1, <3>3 DEF AloneInv, SameRequest
    <3> QED BY <2>2, <3>2, <3>4, <3>5
  <2> QED BY <2>1, <2>2
<1>8. AloneInv'
  BY <1>7 DEF AloneInv
<1> QED BY <1>6, <1>8

\* Every step keeps RowInv and AloneInv.
LEMMA RepairKept ==
  ASSUME BaseInv, RowInv, AloneInv, [Next]_vars
  PROVE  RowInv' /\ AloneInv'
<1>1. CASE Crash
  BY <1>1, CrashEnds, RestoresNothing DEF RowInv, AloneInv, Restores
<1>2. CASE UNCHANGED vars
  BY <1>2 DEF vars, RowInv, AloneInv, Restores, Patches, Idle
<1> QED BY <1>1, <1>2, StepRepairs, BeginRow, BeginAlone, NextSplit

\* A scale, stop or start that is alone with the deployment when it writes leaves the cluster
\* and the row in agreement, whatever earlier races, errors and stops left: it patches and
\* writes the same count, and keeps the one to restore (DeploymentsService.scale, stop, start).
THEOREM LoneRequestAlwaysRepairs == Spec => LoneRequestRepairs
<1> DEFINE A == \A x \in Handlers :
       /\ Patches(x) /\ h[x].pc = "db" /\ h[x].alone
       /\ h'[x] = NoRequest /\ UNCHANGED <<faults, crashes>>
       => /\ spec' = row'.replicas
          /\ row'.status = "stopped" <=> spec' = 0
          /\ spec' = 0 /\ row.replicas > 0 => row'.lastNonZero = row.replicas
<1>1. Init => RowInv /\ AloneInv
  BY RestoresNothing DEF Init, RowInv, AloneInv, NoRow, Idle
<1>2. ASSUME BaseInv, RowInv, AloneInv, [Next]_vars PROVE A
  <2> SUFFICES ASSUME NEW x \in Handlers, Patches(x), h[x].pc = "db", h[x].alone,
                      h'[x] = NoRequest, faults' = faults, crashes' = crashes
               PROVE  /\ spec' = row'.replicas
                      /\ row'.status = "stopped" <=> spec' = 0
                      /\ spec' = 0 /\ row.replicas > 0 => row'.lastNonZero = row.replicas
    OBVIOUS
  <2>1. TypeOK /\ h[x] \in Request /\ ~Idle(x)
    BY <1>2, HandlerFields DEF BaseInv, Patches
  <2>2. \A y \in Handlers : y # x => Idle(y)
    BY <1>2, <2>1 DEF AloneInv
  <2>3. Step(x)
    <3>1. ASSUME NEW y \in Handlers, Create(y) \/ Begin(y) PROVE FALSE
      <4>1. PICK r \in Request : Take(y, r)
        BY <2>1, <3>1, CreateBegins, BeginFits
      <4>2. y # x /\ h'[x] = Crowded(h[x])
        BY <2>1, <4>1, TakeFields
      <4> QED BY <2>1, <4>2, CrowdedFields, RequestFields
    <3>2. ASSUME NEW y \in Handlers, Step(y) PROVE y = x
      BY <1>2, <2>2, <3>2, StepWrites
    <3>3. ~Crash
      BY <2>1 DEF Crash, TypeOK
    <3>4. ~UNCHANGED vars
      BY <2>1 DEF vars, Idle
    <3> QED BY <1>2, <3>1, <3>2, <3>3, <3>4, NextSplit
  <2>4. row' = Updated(x) /\ spec' = spec /\ spec = h[x].count
    BY <1>2, <2>1, <2>3, StepWrites DEF AloneInv
  <2>5. /\ row'.replicas = h[x].count /\ row'.lastNonZero = h[x].keep
        /\ h[x].op = "scale" => row'.status = IF h[x].count = 0 THEN "stopped" ELSE "creating"
        /\ h[x].op = "stop" => row'.status = "stopped"
        /\ h[x].op = "start" => row'.status = "creating"
    BY <2>1, <2>4, UpdatedFields
  <2>6. Restores(h[x]) /\ h[x].op \in {"scale", "stop", "start"}
    BY <1>2 DEF RowInv, Patches
  <2>7. row'.status = "stopped" <=> h[x].count = 0
    BY <2>5, <2>6 DEF Restores
  <2>8. h[x].count = 0 /\ row.replicas > 0 => h[x].keep = row.replicas
    BY <1>2, <2>1 DEF AloneInv
  <2> QED BY <2>4, <2>5, <2>7, <2>8
<1>3. BaseInv /\ RowInv /\ AloneInv /\ [Next]_vars => BaseInv' /\ RowInv' /\ AloneInv'
  BY NextBase, RepairKept
<1> HIDE DEF A
<1>4. BaseInv /\ RowInv /\ AloneInv /\ [Next]_vars => [A]_vars
  BY <1>2
<1>5. Spec => [][A]_vars
  BY <1>1, <1>3, <1>4, InitBase, PTL DEF Spec
<1> QED BY <1>5 DEF A, LoneRequestRepairs

-----------------------------------------------------------------------------
(* What a create that fails takes back *)

\* No resource is to be visited twice, and the two routes come last.
Orderly(t) ==
  /\ Left(t) \subseteq Made
  /\ \A i, j \in 1 .. Len(t) : t[i] = t[j] => i = j
  /\ Exposed => /\ t[Len(t)] = "redirect"
                /\ Len(t) > 1 => t[Len(t) - 1] = "route"

\* Before create there is nothing and nothing has failed.  While create is alone, exactly what
\* it does not have to visit any more exists; once it has failed, and nothing else has, it
\* still has to visit the routes that exist, or there are none.
CreateInv ==
  /\ row.status = "absent" => res = {} /\ spec = 0 /\ faults = 0
  /\ \A x \in Handlers :
       /\ At(x, "create", "cluster") => Orderly(h[x].todo)
       /\ At(x, "create", "cluster") /\ h[x].alone =>
            /\ faults = 0
            /\ res = Made \ Left(h[x].todo)
            /\ spec = IF "deployment" \in res THEN h[x].count ELSE 0
       /\ At(x, "create", "undo") /\ h[x].alone =>
            /\ faults > 0
            /\ faults = 1 => res \cap Routes \subseteq Left(h[x].todo)
  /\ RoutesTakenBack

\* The order of create is orderly.
LEMMA CreateOrderly == Orderly(CreateOrder)
<1>1. Left(CreateOrder) \subseteq Made
  BY OrderLeft
<1>2. CASE Exposed
  <2> DEFINE t == <<"config", "deployment", "service", "route", "redirect">>
  <2>1. CreateOrder = t
    BY <1>2 DEF CreateOrder
  <2>2. /\ Len(t) = 5 /\ t[1] = "config" /\ t[2] = "deployment" /\ t[3] = "service"
        /\ t[4] = "route" /\ t[5] = "redirect"
    OBVIOUS
  <2> HIDE DEF t
  <2>3. \A i, j \in 1 .. 5 : t[i] = t[j] => i = j
    BY <2>2
  <2> QED BY <1>1, <2>1, <2>2, <2>3 DEF Orderly
<1>3. CASE ~Exposed
  <2> DEFINE t == <<"config", "deployment", "service">>
  <2>1. CreateOrder = t
    BY <1>3 DEF CreateOrder
  <2>2. Len(t) = 3 /\ t[1] = "config" /\ t[2] = "deployment" /\ t[3] = "service"
    OBVIOUS
  <2> HIDE DEF t
  <2>3. \A i, j \in 1 .. 3 : t[i] = t[j] => i = j
    BY <2>2
  <2> QED BY <1>1, <1>3, <2>1, <2>2, <2>3 DEF Orderly
<1> QED BY <1>2, <1>3

\* What is left of it stays orderly; the first resource is not visited again, and until the
\* redirect alone is left both routes are.
LEMMA OrderlyTail ==
  ASSUME NEW t \in Seq(Resource), t # <<>>, Orderly(t)
  PROVE  /\ Len(t) # 1 => Orderly(Tail(t))
         /\ Head(t) \in Made /\ Head(t) \notin Left(Tail(t))
         /\ Exposed /\ Head(t) # "redirect" => Routes \subseteq Left(t)
<1> DEFINE u == Tail(t)
           n == Len(t)
<1>1. /\ Head(t) \in Resource /\ u \in Seq(Resource) /\ n \in Nat \ {0}
      /\ Left(t) = {Head(t)} \cup Left(u)
      /\ Len(u) = n - 1
      /\ \A i \in 1 .. Len(u) : u[i] = t[i + 1]
  BY LeftTail
<1>2. Head(t) = t[1]
  OBVIOUS
<1> HIDE DEF u
<1>3. Head(t) \notin Left(u)
  <2> SUFFICES ASSUME NEW i \in 1 .. Len(u), Head(t) = u[i] PROVE FALSE
    BY DEF Left
  <2>1. t[1] = t[i + 1] /\ i + 1 \in 1 .. n /\ 1 \in 1 .. n /\ i + 1 # 1
    BY <1>1, <1>2
  <2> HIDE DEF n
  <2> QED BY <2>1 DEF Orderly, n
<1>4. n # 1 => Orderly(u)
  <2> SUFFICES ASSUME n # 1 PROVE Orderly(u)
    OBVIOUS
  <2>1. Left(u) \subseteq Made
    BY <1>1 DEF Orderly
  <2>2. ASSUME NEW i \in 1 .. Len(u), NEW j \in 1 .. Len(u), u[i] = u[j] PROVE i = j
    <3>1. i + 1 \in 1 .. n /\ j + 1 \in 1 .. n /\ t[i + 1] = t[j + 1]
      BY <1>1, <2>2
    <3>2. i + 1 = j + 1
      BY <3>1 DEF Orderly
    <3> QED BY <3>2
  <2>3. Exposed => u[Len(u)] = "redirect" /\ (Len(u) > 1 => u[Len(u) - 1] = "route")
    <3>1. Len(u) \in 1 .. Len(u) /\ Len(u) + 1 = n
      BY <1>1
    <3>2. u[Len(u)] = t[n]
      BY <1>1, <3>1
    <3>3. ASSUME Len(u) > 1 PROVE u[Len(u) - 1] = t[n - 1] /\ n > 1
      <4>1. Len(u) - 1 \in 1 .. Len(u) /\ (Len(u) - 1) + 1 = n - 1
        BY <1>1, <3>3
      <4> QED BY <1>1, <3>3, <4>1
    <3> QED BY <3>2, <3>3 DEF Orderly
  <2> QED BY <2>1, <2>2, <2>3 DEF Orderly
<1>5. Head(t) \in Made
  BY <1>1 DEF Orderly
<1>6. ASSUME Exposed, Head(t) # "redirect" PROVE Routes \subseteq Left(t)
  <2>1. t[n] = "redirect" /\ n \in 1 .. n
    BY <1>1, <1>6 DEF Orderly
  <2>2. n > 1
    BY <1>1, <1>2, <1>6, <2>1
  <2>3. t[n - 1] = "route" /\ n - 1 \in 1 .. n
    BY <1>1, <1>6, <2>2 DEF Orderly
  <2> QED BY <2>1, <2>3 DEF Left, Routes
<1> QED BY <1>3, <1>4, <1>5, <1>6 DEF u

\* What a create does with the cluster while it is alone.
CreateAlone(r) ==
  /\ r.op = "create" /\ r.pc = "cluster" =>
       /\ faults = 0
       /\ res = Made \ Left(r.todo)
       /\ spec = IF "deployment" \in res THEN r.count ELSE 0
  /\ r.op = "create" /\ r.pc = "undo" =>
       /\ faults > 0
       /\ faults = 1 => res \cap Routes \subseteq Left(r.todo)
  /\ r.op = "create" /\ r.pc = "failed" /\ faults = 1 => res \cap Routes = {}

\* CreateInv in these terms.
LEMMA CreateInvParts ==
  CreateInv <=> /\ row.status = "absent" => res = {} /\ spec = 0 /\ faults = 0
                /\ \A x \in Handlers : /\ At(x, "create", "cluster") => Orderly(h[x].todo)
                                       /\ h[x].op = "create" /\ h[x].alone => CreateAlone(h[x])
BY DEF CreateInv, CreateAlone, RoutesTakenBack, At

\* A request that begins keeps CreateInv.
LEMMA BeginCreate ==
  ASSUME BaseInv, RowInv, CreateInv, NEW x \in Handlers, Create(x) \/ Begin(x)
  PROVE  CreateInv'
<1>1. TypeOK /\ UNCHANGED <<res, spec, faults>>
  BY DEF BaseInv, Create, Begin
<1>2. PICK r \in Request :
        /\ Take(x, r) /\ r.pc = "cluster"
        /\ row'.status # "absent"
        /\ r.op = "create" => r.todo = CreateOrder /\ row.status = "absent"
  <2>1. CASE Create(x)
    <3>1. row.status = "absent"
      BY <2>1 DEF Create
    <3>2. PICK r \in Request :
           /\ r.pc = "cluster" /\ r.todo = CreateOrder
           /\ Take(x, r)
           /\ row' = [status |-> "creating", replicas |-> r.count, lastNonZero |-> r.count,
                      hostname |-> Exposed, deletedAt |-> FALSE]
      BY <1>1, <2>1, CreateBegins
    <3> QED BY <3>1, <3>2
  <2>2. CASE Begin(x)
    <3>1. PICK r \in Request : Take(x, r) /\ Fits(r) /\ r.op # "create"
      BY <1>1, <2>2, BeginFits
    <3>2. row' = row /\ row.status # "absent"
      BY <2>2 DEF Begin
    <3> QED BY <3>1, <3>2 DEF Fits
  <2> QED BY <2>1, <2>2
<1>3. /\ h'[x].op = r.op /\ h'[x].pc = r.pc /\ h'[x].todo = r.todo
      /\ h'[x].alone <=> \A y \in Handlers : Idle(y)
      /\ \A y \in Handlers : y # x =>
            \/ Idle(y) /\ h'[y] = h[y]
            \/ ~Idle(y) /\ h[y] \in Request /\ h'[y] = Crowded(h[y])
  BY <1>1, <1>2, TakeFields
<1>4. ASSUME NEW y \in Handlers, At(y, "create", "cluster")'
      PROVE  Orderly(h'[y].todo)
  <2>1. CASE y = x
    BY <1>2, <1>3, <1>4, <2>1, CreateOrderly DEF At
  <2>2. CASE y # x
    <3>1. h'[y].op = h[y].op /\ h'[y].pc = h[y].pc /\ h'[y].todo = h[y].todo
      BY <1>3, <2>2, CrowdedFields
    <3> QED BY <1>4, <3>1, CreateInvParts DEF At
  <2> QED BY <2>1, <2>2
<1>5. ASSUME NEW y \in Handlers, h'[y].op = "create", h'[y].alone
      PROVE  CreateAlone(h[y])'
  <2>1. y = x
    <3>1. NoRequest.op # "create"
      BY DEF NoRequest
    <3> QED BY <1>3, <1>5, <3>1, CrowdedFields DEF Idle
  <2>2. r.todo = CreateOrder /\ res = {} /\ spec = 0 /\ faults = 0
    BY <1>2, <1>3, <1>5, <2>1, CreateInvParts
  <2>3. h'[x].pc = "cluster" /\ Left(h'[x].todo) = Made
    BY <1>2, <1>3, <2>2, OrderLeft
  <2> QED BY <1>1, <2>1, <2>2, <2>3 DEF CreateAlone
<1>6. row'.status # "absent"
  BY <1>2
<1>7. CreateInv' <=> /\ row'.status = "absent" => res' = {} /\ spec' = 0 /\ faults' = 0
                     /\ \A y \in Handlers : /\ At(y, "create", "cluster")' => Orderly(h'[y].todo)
                                            /\ h'[y].op = "create" /\ h'[y].alone => CreateAlone(h[y])'
  BY DEF CreateInv, CreateAlone, RoutesTakenBack, At
<1> QED BY <1>4, <1>5, <1>6, <1>7

\* A step of a create that is alone does what CreateAlone says.
LEMMA StepCreateAlone ==
  ASSUME BaseInv, CreateInv, NEW x \in Handlers, Step(x), h'[x].op = "create"
  PROVE  /\ h'[x].pc = "cluster" => Orderly(h'[x].todo)
         /\ h'[x].alone => CreateAlone(h[x])'
<1>1. TypeOK /\ h[x] \in Request /\ Place(h[x]) /\ h[x].todo \in Seq(Resource) /\ h[x].count \in Counts
  BY StepCases, RequestFields DEF BaseInv
<1>2. h'[x] # NoRequest /\ SameRequest(h'[x], h[x])
  BY StepSame DEF NoRequest
<1>3. /\ h[x].op = "create"
      /\ h[x].pc = "cluster" => Orderly(h[x].todo)
      /\ h'[x].alone => CreateAlone(h[x])
      /\ h'[x].count = h[x].count
  BY <1>2, CreateInvParts DEF SameRequest, At
<1>4. ~Only(x, NoRequest)
  BY <1>2 DEF Only
<1>5. CASE Makes(x)
  <2>1. h[x].todo # <<>> /\ h[x].pc = "cluster" /\ Orderly(h[x].todo)
    BY <1>1, <1>3, <1>5 DEF Makes, Place, At
  <2>2. Tail(h[x].todo) \in Seq(Resource) /\ Len(h[x].todo) # 1
        /\ Only(x, Moved(h[x], "cluster", Tail(h[x].todo)))
        /\ Left(h[x].todo) = {Next1(x)} \cup Left(Tail(h[x].todo))
    BY <1>1, <1>4, <1>5, <2>1, VisitType DEF Makes
  <2>3. h'[x].pc = "cluster" /\ h'[x].todo = Tail(h[x].todo)
    BY <1>1, <2>2, MovedNow
  <2>4. Orderly(Tail(h[x].todo)) /\ Next1(x) \in Made /\ Next1(x) \notin Left(Tail(h[x].todo))
    BY <1>1, <2>1, <2>2, OrderlyTail DEF Next1
  <2>5. ASSUME h'[x].alone PROVE CreateAlone(h[x])'
    <3>1. faults = 0 /\ res = Made \ Left(h[x].todo) /\ spec = IF "deployment" \in res THEN h[x].count ELSE 0
      BY <1>3, <2>1, <2>5 DEF CreateAlone
    <3>2. /\ faults' = 0 /\ res' = res \cup {Next1(x)}
          /\ spec' = IF Next1(x) = "deployment" THEN h[x].count ELSE spec
      BY <1>5, <3>1 DEF Makes, Return, MakeResource
    <3>3. res' = Made \ Left(Tail(h[x].todo))
      BY <2>2, <2>4, <3>1, <3>2
    <3>4. spec' = IF "deployment" \in res' THEN h[x].count ELSE 0
      BY <3>1, <3>2
    <3> QED BY <1>3, <2>3, <3>2, <3>3, <3>4 DEF CreateAlone
  <2> QED BY <2>3, <2>4, <2>5
<1>6. CASE MakeFails(x)
  <2>1. h[x].todo # <<>> /\ h[x].pc = "cluster" /\ Orderly(h[x].todo) /\ Unwritten
    BY <1>1, <1>3, <1>6 DEF MakeFails, Place, At
  <2>2. CASE Only(x, Moved(h[x], "undo", <<"redirect", "route">>))
    <3>1. h'[x].pc = "undo" /\ h'[x].todo = <<"redirect", "route">>
      BY <1>1, <2>2, MovedNow, OrderTypes
    <3>2. Left(h'[x].todo) = Routes
      BY <3>1, OrderLeft
    <3>3. faults' > 0
      BY <1>1, <1>6 DEF MakeFails, Raise, TypeOK
    <3> QED BY <3>1, <3>2, <3>3 DEF CreateAlone
  <2>3. CASE /\ Next1(x) \in Base \/ (Next1(x) = "route" /\ res' = res)
             /\ Only(x, Moved(h[x], "failed", h[x].todo))
    <3>1. h'[x].pc = "failed"
      BY <1>1, <2>3, MovedNow
    <3>2. ASSUME h'[x].alone PROVE res' \cap Routes = {}
      <4>1. res = Made \ Left(h[x].todo)
        BY <1>3, <2>1, <3>2 DEF CreateAlone
      <4>2. Next1(x) # "redirect"
        BY <2>3 DEF Base
      <4>3. Exposed => Routes \subseteq Left(h[x].todo)
        BY <1>1, <2>1, <4>2, OrderlyTail DEF Next1
      <4>4. ~Exposed => Made = Base
        BY DEF Made
      <4>5. Base \cap Routes = {}
        BY DEF Base, Routes
      <4>6. res \cap Routes = {}
        BY <4>1, <4>3, <4>4, <4>5
      <4>7. res' = res \/ (res' = res \cup {Next1(x)} /\ Next1(x) \in Base)
        BY <1>6, <2>3 DEF MakeFails, MakeResource
      <4> QED BY <4>5, <4>6, <4>7
    <3> QED BY <3>1, <3>2 DEF CreateAlone
  <2> QED BY <1>6, <2>2, <2>3 DEF MakeFails
<1>7. CASE Undoes(x)
  <2>1. h[x].todo # <<>> /\ h[x].pc = "undo"
    BY <1>1, <1>7 DEF Undoes, Place, At
  <2>2. /\ Tail(h[x].todo) \in Seq(Resource)
        /\ Left(h[x].todo) = {Next1(x)} \cup Left(Tail(h[x].todo))
        /\ Len(h[x].todo) = 1 => Left(Tail(h[x].todo)) = {}
    BY <1>1, <2>1, VisitType
  <2>3. faults \in Nat /\ (h'[x].alone => faults > 0 /\ (faults = 1 => res \cap Routes \subseteq Left(h[x].todo)))
    BY <1>1, <1>3, <2>1 DEF CreateAlone, TypeOK
  <2>4. CASE /\ DropResource(Next1(x)) /\ Return
             /\ Only(x, Moved(h[x], IF Len(h[x].todo) = 1 THEN "failed" ELSE "undo", Tail(h[x].todo)))
    <3>1. /\ h'[x].pc = IF Len(h[x].todo) = 1 THEN "failed" ELSE "undo"
          /\ h'[x].todo = Tail(h[x].todo)
      BY <1>1, <2>2, <2>4, MovedNow
    <3>2. faults' = faults /\ res' = res \ {Next1(x)}
      BY <2>4 DEF Return, DropResource
    <3> QED BY <2>2, <2>3, <3>1, <3>2 DEF CreateAlone
  <2>5. CASE Raise /\ Only(x, Moved(h[x], "failed", h[x].todo))
    <3>1. h'[x].pc = "failed"
      BY <1>1, <2>5, MovedNow
    <3>2. faults' = faults + 1
      BY <2>5 DEF Raise
    <3> QED BY <2>3, <3>1, <3>2 DEF CreateAlone
  <2> QED BY <1>7, <2>4, <2>5 DEF Undoes
<1>8. ~Patched(x) /\ ~Seen(x) /\ ~Ended(x) /\ ~Drops(x) /\ ~Wrote(x)
  BY <1>3, <1>4 DEF Patched, Seen, Ended, Drops, Wrote, At
<1> QED BY <1>5, <1>6, <1>7, <1>8, StepCases

\* Every step keeps CreateInv.
LEMMA CreateKept ==
  ASSUME BaseInv, RowInv, AloneInv, CreateInv, [Next]_vars
  PROVE  CreateInv'
<1>1. CreateInv' <=> /\ row'.status = "absent" => res' = {} /\ spec' = 0 /\ faults' = 0
                     /\ \A y \in Handlers : /\ At(y, "create", "cluster")' => Orderly(h'[y].todo)
                                            /\ h'[y].op = "create" /\ h'[y].alone => CreateAlone(h[y])'
  BY DEF CreateInv, CreateAlone, RoutesTakenBack, At
<1>2. ASSUME NEW x \in Handlers, Step(x) PROVE CreateInv'
  <2>1. \A y \in Handlers : y # x => h'[y] = h[y]
    BY <1>2, StepSame
  <2>2. row.status # "absent" /\ row'.status # "absent" /\ ~Idle(x)
    <3>1. ~Idle(x)
      BY <1>2, StepWrites
    <3>2. row.status # "absent"
      BY <3>1 DEF RowInv
    <3> QED BY <1>2, <3>1, <3>2, StepResources
  <2>3. ASSUME NEW y \in Handlers, At(y, "create", "cluster")' PROVE Orderly(h'[y].todo)
    <3>1. CASE y = x
      BY <1>2, <2>3, <3>1, StepCreateAlone DEF At
    <3>2. CASE y # x
      BY <2>1, <2>3, <3>2, CreateInvParts DEF At
    <3> QED BY <3>1, <3>2
  <2>4. ASSUME NEW y \in Handlers, h'[y].op = "create", h'[y].alone PROVE CreateAlone(h[y])'
    <3>1. CASE y = x
      BY <1>2, <2>4, <3>1, StepCreateAlone
    <3>2. CASE y # x
      <4>1. h[y].alone /\ ~Idle(y)
        BY <2>1, <2>4, <3>2 DEF Idle, NoRequest
      <4> QED BY <2>2, <3>2, <4>1 DEF AloneInv
    <3> QED BY <3>1, <3>2
  <2> QED BY <1>1, <2>2, <2>3, <2>4
<1>3. CASE Crash
  <2>1. \A y \in Handlers : h'[y].op = "none"
    BY <1>3, CrashEnds DEF NoRequest
  <2> QED BY <1>1, <1>3, <2>1, CrashEnds, CreateInvParts DEF At
<1>4. CASE UNCHANGED vars
  BY <1>4 DEF vars, CreateInv, RoutesTakenBack, At
<1> QED BY <1>2, <1>3, <1>4, BeginCreate, NextSplit

\* When one call of a create that runs alone raises, no route is left behind: it fails before
\* the first route is asked for, or takes both back (KubernetesService.enableApplicationRouting).
THEOREM RoutesAlwaysTakenBack == Spec => []RoutesTakenBack
<1>1. Init => RowInv /\ AloneInv /\ CreateInv
  BY RestoresNothing DEF Init, RowInv, AloneInv, CreateInv, RoutesTakenBack, NoRow, Idle, At, NoRequest
<1>2. BaseInv /\ RowInv /\ AloneInv /\ CreateInv /\ [Next]_vars =>
        BaseInv' /\ RowInv' /\ AloneInv' /\ CreateInv'
  BY NextBase, RepairKept, CreateKept
<1>3. CreateInv => RoutesTakenBack
  BY DEF CreateInv
<1> QED BY <1>1, <1>2, <1>3, InitBase, PTL DEF Spec

-----------------------------------------------------------------------------
(* Requests that follow each other *)

\* The row is one that requests leave which nothing disturbs.
RowAgrees ==
  /\ row.deletedAt <=> row.status = "deleted"
  /\ row.status # "failed"
  /\ row.status = "stopped" => row.replicas = 0
  /\ row.status = "running" => row.replicas > 0
  /\ row.lastNonZero = ran
  /\ row.hostname <=> Exposed /\ row.status \notin {"absent", "deleted"}

\* The cluster has what the row says.
ClusterAgrees ==
  /\ row.status \in {"absent", "deleted"} => res = {}
  /\ row.status \notin {"absent", "deleted"} => res = Made /\ spec = row.replicas

\* What is true of the cluster and the row while request r is served.
Doing(r) ==
  /\ r.op = "create" => r.pc = "cluster" /\ row.status = "creating" /\ row.replicas = r.count
  /\ r.op = "delete" => res \subseteq (IF r.pc = "cluster" THEN Left(r.todo) ELSE {})
  /\ r.op \notin {"create", "delete"} /\ r.pc = "cluster" => ClusterAgrees
  /\ r.op \notin {"create", "delete"} /\ r.pc = "db" =>
       /\ row.status \notin {"absent", "deleted"} /\ res = Made
       /\ spec = IF r.op \in {"scale", "stop", "start"} THEN r.count ELSE row.replicas
       /\ r.op = "status" => spec > 0
  /\ r.op \in {"scale", "stop", "start"} /\ r.count = 0 => r.keep = row.lastNonZero

CalmInv ==
  calm => /\ \A x \in Handlers : ~Idle(x) => h[x].alone /\ Doing(h[x])
          /\ RowAgrees
          /\ Quiet => ClusterAgrees

\* A request that begins keeps CalmInv.
LEMMA BeginCalm ==
  ASSUME BaseInv, RowInv, CreateInv, CalmInv, NEW x \in Handlers, Create(x) \/ Begin(x), calm'
  PROVE  CalmInv'
<1>1. TypeOK /\ UNCHANGED <<res, spec>>
  BY DEF BaseInv, Create, Begin
<1>2. PICK r \in Request : Take(x, r) /\ (Create(x) \/ Fits(r))
  BY <1>1, CreateBegins, BeginFits
<1>3. calm /\ \A y \in Handlers : Idle(y)
  BY <1>1, <1>2, TakeFields
<1>4. RowAgrees /\ ClusterAgrees
  BY <1>3 DEF CalmInv, Quiet
<1>5. h'[x].alone /\ \A y \in Handlers : y # x => Idle(y)'
  BY <1>1, <1>2, <1>3, TakeFields DEF Idle
<1>6. ~Idle(x)'
  BY <1>1, <1>2, TakeFields, RequestFields DEF Idle
<1>7. Doing(h[x])' /\ RowAgrees'
  <2>1. CASE Create(x)
    <3>1. PICK q \in Request :
           /\ q.op = "create" /\ q.count > 0 /\ q.pc = "cluster"
           /\ Take(x, q)
           /\ row' = [status |-> "creating", replicas |-> q.count, lastNonZero |-> q.count,
                      hostname |-> Exposed, deletedAt |-> FALSE]
           /\ ran' = q.count
      BY <1>1, <2>1, CreateBegins
    <3>2. h'[x].op = "create" /\ h'[x].pc = "cluster" /\ h'[x].count = q.count
      BY <1>1, <3>1, TakeFields
    <3>3. /\ row'.status = "creating" /\ row'.replicas = q.count /\ row'.lastNonZero = q.count
          /\ row'.hostname = Exposed /\ ~row'.deletedAt
      BY <3>1
    <3>4. RowAgrees'
      BY <3>1, <3>3 DEF RowAgrees
    <3> QED BY <3>2, <3>3, <3>4 DEF Doing
  <2>2. CASE Begin(x)
    <3>1. PICK q \in Request : Take(x, q) /\ Fits(q) /\ q.op # "create"
      BY <1>1, <2>2, BeginFits
    <3>2. row' = row /\ ran' = ran
      BY <2>2 DEF Begin
    <3>3. /\ h'[x].op = q.op /\ h'[x].pc = "cluster" /\ h'[x].count = q.count /\ h'[x].keep = q.keep
          /\ h'[x].todo = q.todo
      BY <1>1, <3>1, TakeFields DEF Fits
    <3>4. RowAgrees' /\ ClusterAgrees'
      BY <1>1, <1>4, <3>2 DEF RowAgrees, ClusterAgrees
    <3>5. q.op = "delete" => res \subseteq Left(q.todo)
      <4>1. ASSUME q.op = "delete" PROVE Left(q.todo) = IF row.hostname THEN Resource ELSE Base
        <5>1. row.hostname \in BOOLEAN /\ q.todo = DeleteOrder(row.hostname)
          BY <1>1, <3>1, <4>1, RowFields DEF Fits
        <5> QED BY <5>1, OrderLeft
      <4> QED BY <1>4, <4>1 DEF RowAgrees, ClusterAgrees, Made
    <3>6. q.op \in {"scale", "stop", "start"} /\ q.count = 0 => q.keep = row.lastNonZero
      BY <3>1 DEF Fits, RowInv
    <3> QED BY <1>1, <3>1, <3>2, <3>3, <3>4, <3>5, <3>6 DEF Doing
  <2> QED BY <2>1, <2>2
<1> QED BY <1>5, <1>6, <1>7 DEF CalmInv, Quiet

\* A step of a request that nothing disturbs: where it takes the request, the cluster and the row.
LEMMA StepCalm ==
  ASSUME BaseInv, RowInv, AloneInv, CreateInv, CalmInv, NEW x \in Handlers, Step(x), calm'
  PROVE  CalmInv'
<1>1. TypeOK /\ h[x] \in Request /\ Place(h[x]) /\ ~Idle(x) /\ h[x].todo \in Seq(Resource)
      /\ h[x].op \in Op /\ h[x].pc \in {"cluster", "undo", "failed", "db"}
  BY StepCases, StepWrites, RequestFields DEF BaseInv
<1>2. ~Raise
  BY DEF Raise
<1>3. calm
  BY <1>2, StepCases DEF Patched, Seen, Ended, Makes, MakeFails, Undoes, Drops, Wrote, WriteRow, Return
<1>4. h[x].alone /\ Doing(h[x]) /\ RowAgrees /\ \A y \in Handlers : y # x => Idle(y)
  BY <1>1, <1>3 DEF CalmInv, AloneInv
<1>5. \A y \in Handlers : y # x => Idle(y)'
  BY <1>4, StepSame DEF Idle
<1>6. ASSUME h'[x] = NoRequest, RowAgrees', ClusterAgrees' PROVE CalmInv'
  BY <1>5, <1>6 DEF CalmInv, Idle
<1>7. ASSUME h'[x] \in Request, h'[x].alone, RowAgrees', Doing(h[x])' PROVE CalmInv'
  BY <1>5, <1>7, RequestFields DEF CalmInv, Idle, Quiet
<1>8. Unwritten => RowAgrees'
  BY <1>4 DEF Unwritten, RowAgrees
<1>9. "deployment" \in Made
  BY DEF Made, Resource, Base
<1>10. CASE Patched(x)
  <2>1. /\ h'[x] \in Request /\ h'[x].alone /\ h'[x].op = h[x].op /\ h'[x].pc = "db"
        /\ h'[x].count = h[x].count /\ h'[x].keep = h[x].keep
    BY <1>1, <1>4, <1>10, MovedNow DEF Patched
  <2>2. /\ row' = row /\ res' = res /\ "deployment" \in res
        /\ h[x].op \in {"scale", "stop", "start", "restart"} /\ h[x].pc = "cluster"
        /\ spec' = IF h[x].op \in {"scale", "stop", "start"} THEN h[x].count ELSE spec
    BY <1>10 DEF Patched, Unwritten, Patch, Patches
  <2>3. row.status \notin {"absent", "deleted"} /\ res = Made /\ spec = row.replicas
    BY <1>4, <2>2 DEF Doing, ClusterAgrees
  <2>4. h[x].op \in {"scale", "stop", "start"} /\ h[x].count = 0 => h[x].keep = row.lastNonZero
    BY <1>4 DEF Doing
  <2>5. Doing(h[x])'
    BY <2>1, <2>2, <2>3, <2>4 DEF Doing
  <2> QED BY <1>7, <1>8, <1>10, <2>1, <2>5 DEF Patched
<1>11. CASE Seen(x)
  <2>1. h'[x] \in Request /\ h'[x].alone /\ h'[x].op = h[x].op /\ h'[x].pc = "db"
    BY <1>1, <1>4, <1>11, MovedNow DEF Seen
  <2>2. /\ row' = row /\ res' = res /\ spec' = spec /\ "deployment" \in res /\ spec > 0
        /\ h[x].op = "status" /\ h[x].pc = "cluster"
    BY <1>11 DEF Seen, Unwritten, At
  <2>3. row.status \notin {"absent", "deleted"} /\ res = Made /\ spec = row.replicas
    BY <1>4, <2>2 DEF Doing, ClusterAgrees
  <2>4. Doing(h[x])'
    BY <2>1, <2>2, <2>3 DEF Doing
  <2> QED BY <1>7, <1>8, <1>11, <2>1, <2>4 DEF Seen
<1>12. CASE Ended(x)
  <2>1. /\ h[x].op \notin {"create", "delete"} /\ h[x].pc = "cluster" /\ h'[x] = NoRequest
        /\ row' = row /\ res' = res /\ spec' = spec
    BY <1>2, <1>12 DEF Ended, Only, Unwritten
  <2>2. ClusterAgrees'
    BY <1>4, <2>1 DEF Doing, ClusterAgrees
  <2> QED BY <1>6, <1>8, <1>12, <2>1, <2>2 DEF Ended
<1>13. CASE Makes(x)
  <2>1. /\ h[x].todo # <<>> /\ h[x].op = "create" /\ h[x].pc = "cluster" /\ row' = row
        /\ res' = res \cup {Next1(x)} /\ spec' = IF Next1(x) = "deployment" THEN h[x].count ELSE spec
    BY <1>1, <1>13 DEF Makes, Place, At, Unwritten, MakeResource
  <2>2. row.status = "creating" /\ row.replicas = h[x].count
    BY <1>4, <2>1 DEF Doing
  <2>3. CASE Only(x, NoRequest) /\ Len(h[x].todo) = 1
    <3>1. Left(h[x].todo) = {Next1(x)}
      BY <1>1, <2>1, <2>3, VisitType
    <3>2. Next1(x) \in Made
      BY <1>1, <2>1, OrderlyTail DEF Next1, CreateInv, At
    <3>3. res = Made \ {Next1(x)} /\ spec = IF "deployment" \in res THEN h[x].count ELSE 0
      BY <1>4, <2>1, <3>1 DEF CreateInv, At
    <3>4. res' = Made /\ spec' = row.replicas
      BY <1>9, <2>1, <2>2, <3>2, <3>3
    <3>5. ClusterAgrees'
      BY <2>1, <2>2, <3>4, <1>9 DEF ClusterAgrees, Made
    <3> QED BY <1>6, <1>8, <1>13, <2>3, <3>5 DEF Makes, Only
  <2>4. CASE Only(x, Moved(h[x], "cluster", Tail(h[x].todo)))
    <3>1. Tail(h[x].todo) \in Seq(Resource)
      BY <1>1, <2>1, VisitType
    <3>2. /\ h'[x] \in Request /\ h'[x].alone /\ h'[x].op = "create" /\ h'[x].pc = "cluster"
          /\ h'[x].count = h[x].count
      BY <1>1, <1>4, <2>1, <2>4, <3>1, MovedNow
    <3>3. Doing(h[x])'
      BY <2>1, <2>2, <3>2 DEF Doing
    <3> QED BY <1>7, <1>8, <1>13, <3>2, <3>3 DEF Makes
  <2> QED BY <1>13, <2>3, <2>4 DEF Makes
<1>14. CASE Drops(x)
  <2>1. /\ h[x].todo # <<>> /\ h[x].op = "delete" /\ h[x].pc = "cluster" /\ row' = row
        /\ res' = res \ {Next1(x)}
        /\ Only(x, Moved(h[x], IF Len(h[x].todo) = 1 THEN "db" ELSE "cluster", Tail(h[x].todo)))
    BY <1>1, <1>2, <1>14 DEF Drops, Place, At, Unwritten, DropResource
  <2>2. /\ Tail(h[x].todo) \in Seq(Resource)
        /\ Left(h[x].todo) = {Next1(x)} \cup Left(Tail(h[x].todo))
        /\ Len(h[x].todo) = 1 => Left(Tail(h[x].todo)) = {}
    BY <1>1, <2>1, VisitType
  <2>3. /\ h'[x] \in Request /\ h'[x].alone /\ h'[x].op = "delete"
        /\ h'[x].pc = IF Len(h[x].todo) = 1 THEN "db" ELSE "cluster"
        /\ h'[x].todo = Tail(h[x].todo)
    BY <1>1, <1>4, <2>1, <2>2, MovedNow
  <2>4. res \subseteq Left(h[x].todo)
    BY <1>4, <2>1 DEF Doing
  <2>5. Doing(h[x])'
    BY <2>1, <2>2, <2>3, <2>4 DEF Doing
  <2> QED BY <1>7, <1>8, <1>14, <2>3, <2>5 DEF Drops
<1>15. CASE Wrote(x)
  <2>1. /\ h[x].pc = "db" /\ h[x].op # "create" /\ h'[x] = NoRequest
        /\ row' = Updated(x) /\ ran' = IF row'.replicas > 0 THEN row'.replicas ELSE ran
        /\ res' = res /\ spec' = spec
    BY <1>1, <1>2, <1>4, <1>15 DEF Wrote, WriteRow, Only, Doing, Place
  <2>2. row.lastNonZero = ran /\ (row.replicas > 0 => row.lastNonZero = row.replicas)
    BY <1>4 DEF RowAgrees, RowInv
  <2>3. CASE h[x].op = "delete"
    <3>1. /\ row'.status = "deleted" /\ row'.deletedAt /\ ~row'.hostname
          /\ row'.replicas = row.replicas /\ row'.lastNonZero = row.lastNonZero
      BY <1>1, <2>1, <2>3, UpdatedFields DEF Patches
    <3>2. res = {}
      BY <1>4, <2>1, <2>3 DEF Doing
    <3>3. ran' = ran
      BY <2>1, <2>2, <3>1
    <3>4. RowAgrees' /\ ClusterAgrees'
      BY <2>1, <2>2, <3>1, <3>2, <3>3 DEF RowAgrees, ClusterAgrees
    <3> QED BY <1>6, <2>1, <3>4
  <2>4. CASE h[x].op \in {"status", "restart"}
    <3>1. /\ row.status \notin {"absent", "deleted"} /\ res = Made /\ spec = row.replicas
          /\ h[x].op = "status" => spec > 0
      BY <1>4, <2>1, <2>4 DEF Doing
    <3>2. /\ row'.status = IF h[x].op = "status" THEN "running" ELSE "creating"
          /\ row'.hostname = row.hostname /\ row'.deletedAt = row.deletedAt
          /\ row'.replicas = row.replicas /\ row'.lastNonZero = row.lastNonZero
      BY <1>1, <2>1, <2>4, UpdatedFields DEF Patches
    <3>3. ran' = ran
      BY <2>1, <2>2, <3>2
    <3>4. RowAgrees'
      BY <1>4, <2>2, <3>1, <3>2, <3>3 DEF RowAgrees
    <3>5. ClusterAgrees'
      BY <2>1, <2>4, <3>1, <3>2 DEF ClusterAgrees
    <3> QED BY <1>6, <2>1, <3>4, <3>5
  <2>5. CASE h[x].op \in {"scale", "stop", "start"}
    <3>1. /\ row.status \notin {"absent", "deleted"} /\ res = Made /\ spec = h[x].count
          /\ h[x].count = 0 => h[x].keep = row.lastNonZero
      BY <1>4, <2>1, <2>5 DEF Doing
    <3>2. /\ row'.status \in {"stopped", "creating"}
          /\ row'.status = "stopped" => h[x].count = 0
          /\ row'.hostname = row.hostname /\ row'.deletedAt = row.deletedAt
          /\ row'.replicas = h[x].count /\ row'.lastNonZero = h[x].keep
      <4>1. h[x].op = "stop" => h[x].count = 0
        BY DEF RowInv, Restores
      <4> QED BY <1>1, <2>1, <2>5, <4>1, UpdatedFields DEF Patches
    <3>3. h[x].count \in Nat /\ (h[x].count > 0 => h[x].keep = h[x].count)
      BY <1>1, <2>5, RequestFields, BoundTypes DEF RowInv, Restores
    <3>4. row'.lastNonZero = ran'
      BY <2>1, <2>2, <3>1, <3>2, <3>3
    <3>5. RowAgrees'
      BY <1>4, <3>1, <3>2, <3>4 DEF RowAgrees
    <3>6. ClusterAgrees'
      BY <2>1, <3>1, <3>2 DEF ClusterAgrees
    <3> QED BY <1>6, <2>1, <3>5, <3>6
  <2> QED BY <1>1, <2>1, <2>3, <2>4, <2>5 DEF Op
<1>16. ~MakeFails(x)
  BY <1>2 DEF MakeFails
<1>17. ~Undoes(x)
  BY <1>4 DEF Undoes, At, Doing
<1> QED BY <1>10, <1>11, <1>12, <1>13, <1>14, <1>15, <1>16, <1>17, StepCases

\* Every step keeps CalmInv.
LEMMA CalmKept ==
  ASSUME BaseInv, RowInv, AloneInv, CreateInv, CalmInv, [Next]_vars
  PROVE  CalmInv'
<1>1. ~calm' => CalmInv'
  BY DEF CalmInv
<1>2. CASE Crash
  BY <1>1, <1>2, CrashEnds
<1>3. CASE UNCHANGED vars
  BY <1>3 DEF vars, CalmInv, Quiet, Doing, RowAgrees, ClusterAgrees, Idle
<1> QED BY <1>1, <1>2, <1>3, BeginCalm, StepCalm, NextSplit

\* Any sequence of requests that do not overlap, of any length and with any counts, leaves
\* the row and the cluster in agreement (DeploymentsService, KubernetesService).
THEOREM SerialRequestsAgree == Spec => []SerialAgreement
<1>1. Init => RowInv /\ AloneInv /\ CreateInv /\ CalmInv
  BY RestoresNothing DEF Init, RowInv, AloneInv, CreateInv, RoutesTakenBack, NoRow, Idle, At, NoRequest,
                         CalmInv, RowAgrees, ClusterAgrees
<1>2. BaseInv /\ RowInv /\ AloneInv /\ CreateInv /\ CalmInv /\ [Next]_vars =>
        BaseInv' /\ RowInv' /\ AloneInv' /\ CreateInv' /\ CalmInv'
  BY NextBase, RepairKept, CreateKept, CalmKept
<1>3. BaseInv /\ CalmInv => SerialAgreement
  <2> SUFFICES ASSUME CalmInv, BaseInv, calm, Quiet
               PROVE  /\ row.deletedAt <=> row.status = "deleted"
                      /\ row.status # "failed"
                      /\ row.status \in {"absent", "deleted"} => res = {}
                      /\ row.status \in {"creating", "running", "stopped"} =>
                           /\ res = Made
                           /\ spec = row.replicas
                           /\ row.status = "stopped" => spec = 0
                           /\ row.status = "running" => spec > 0
                      /\ row.lastNonZero = ran
                      /\ row.hostname => Exposed
    BY DEF SerialAgreement
  <2>1. RowAgrees /\ ClusterAgrees
    BY DEF CalmInv
  <2> QED BY <2>1 DEF RowAgrees, ClusterAgrees
<1> QED BY <1>1, <1>2, <1>3, InitBase, PTL DEF Spec
=============================================================================
