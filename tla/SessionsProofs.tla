---------------------------- MODULE SessionsProofs ----------------------------
(* Theorems about Sessions for any number of requests, attempts, sessions     *)
(* and organizations, whatever fails, stops or expires.                       *)
EXTENDS Sessions, FiniteSetTheorems, TLAPS

-----------------------------------------------------------------------------
(* Facts about requests and rows *)

\* The bounds of an instance are naturals.
LEMMA BoundTypes ==
  /\ Limit \in Nat /\ MaxRotations \in Nat /\ Idle \in Nat /\ Life \in Nat
  /\ NoToken \in 0 .. MaxRotations + 1 /\ NoToken \notin 0 .. MaxRotations
BY SessionsAssumption DEF NoToken

\* A handler without a request has a record of the right type.
LEMMA NoRequestType ==
  /\ NoRequest \in Request
  /\ NoRequest.op = "none" /\ NoRequest.pc = "idle" /\ NoRequest.s = 0 /\ NoRequest.new = 0
  /\ NoRequest.a \in Attempts /\ NoRequest.org \in Orgs
<1> DEFINE a == CHOOSE a \in Attempts : TRUE
           o == CHOOSE o \in Orgs : TRUE
<1>1. a \in Attempts /\ o \in Orgs
  BY SessionsAssumption
<1>2. NoRequest = [op |-> "none", pc |-> "idle", s |-> 0, a |-> a, new |-> 0, token |-> 0, org |-> o]
  BY DEF NoRequest
<1> HIDE DEF a, o
<1> QED BY <1>1, <1>2, BoundTypes DEF Request, Op, PC

\* A request that goes on.
LEMMA RequestFields ==
  ASSUME NEW r \in Request
  PROVE  /\ r.op \in Op /\ r.pc \in PC /\ r.s \in 0 .. Limit /\ r.a \in Attempts
         /\ r.new \in 0 .. Limit /\ r.token \in 0 .. MaxRotations + 1 /\ r.org \in Orgs
         /\ \A pc \in PC, t \in 0 .. MaxRotations + 1, n \in 0 .. Limit, o \in Orgs :
              /\ [r EXCEPT !.pc = pc] \in Request
              /\ [r EXCEPT !.pc = pc, !.org = o] \in Request
              /\ [r EXCEPT !.pc = pc, !.new = n] \in Request
              /\ [r EXCEPT !.token = t, !.pc = pc] \in Request
BY DEF Request

\* A row of a session, new or changed.
LEMMA RowFields ==
  ASSUME NEW r \in Row
  PROVE  /\ r.org \in Orgs /\ r.idle \in 0 .. Idle /\ r.life \in 0 .. Life /\ r.stale \in BOOLEAN
         /\ r.refresh \in 0 .. MaxRotations /\ r.current \in 0 .. MaxRotations /\ r.revoked \in BOOLEAN
         /\ \A i \in 0 .. Idle, l \in 0 .. Life : [r EXCEPT !.idle = i, !.life = l] \in Row
         /\ \A i \in 0 .. Idle : [r EXCEPT !.idle = i] \in Row
         /\ \A n \in 0 .. MaxRotations : [r EXCEPT !.current = n] \in Row
BY DEF Row

\* The flags of a row are Booleans.
LEMMA RowBooleans ==
  ASSUME NEW r \in Row
  PROVE  /\ \A b \in BOOLEAN : [r EXCEPT !.revoked = b] \in Row
         /\ \A b \in BOOLEAN : [r EXCEPT !.stale = b] \in Row
         /\ \A b \in BOOLEAN, n \in 0 .. MaxRotations : [r EXCEPT !.stale = b, !.refresh = n] \in Row
BY DEF Row

\* The row of a new session has the right type.
LEMMA NewRowType ==
  ASSUME NEW o \in Orgs
  PROVE  NewRow(o) \in Row /\ NewRow(o).refresh = 0 /\ NewRow(o).current = 0 /\ ~NewRow(o).revoked
<1> DEFINE no == FALSE
<1>1. no \in BOOLEAN
  OBVIOUS
<1>2. NewRow(o) = [org |-> o, idle |-> Idle, life |-> Life, stale |-> no, refresh |-> 0,
                   current |-> 0, revoked |-> no]
  BY DEF NewRow
<1>3. ~NewRow(o).revoked
  BY DEF NewRow
<1> HIDE DEF no
<1> QED BY <1>1, <1>2, <1>3, BoundTypes DEF Row

\* The row of no session has the right type.
LEMMA NoRowType == NoRow \in Row
BY NoRequestType, NewRowType DEF NoRow

-----------------------------------------------------------------------------
(* Where a request goes *)

\* The request q is r one step later.
Follows(r, q) ==
  /\ q.op = r.op /\ q.s = r.s /\ q.a = r.a
  /\ \/ r.op = "callback" /\ r.pc = "find" /\ q.pc \in {"take", "drop"}
     \/ r.op = "callback" /\ r.pc = "take" /\ q.pc = "resolve"
     \/ r.pc = "auth" /\ q.pc \in {"touch", "evict"}
     \/ r.op \in {"logout", "switch"} /\ r.pc = "touch" /\ q.pc = "stored"
     \/ r.op = "logout" /\ r.pc = "stored" /\ q.pc \in {"revoke", "destroy"}
     \/ r.op # "logout" /\ r.pc = "stored" /\ q.pc \in {"refresh", "resolve"}
     \/ r.pc = "revoke" /\ q.pc = "destroy"
     \/ r.pc = "destroy" /\ q.pc = "audit"
     \/ r.pc = "refresh" /\ q.pc = "update"
     \/ r.pc = "update" /\ q.pc = "resolve"
     \/ r.pc = "resolve" /\ q.pc = "create"
     \/ r.pc = "create" /\ q.pc = "audit"

\* A request stands where its operation takes it, and all but a callback have a session.
Place(r) ==
  /\ r.op = "none" => r.pc = "idle"
  /\ r.op = "callback" => r.s = 0 /\ r.pc \in {"find", "take", "drop", "resolve", "create", "audit"}
  /\ r.op = "use" => r.s # 0 /\ r.pc \in {"auth", "touch", "evict"}
  /\ r.op = "logout" => r.s # 0 /\ r.pc \in {"auth", "touch", "evict", "stored", "revoke", "destroy", "audit"}
  /\ r.op = "switch" => r.s # 0 /\ r.pc \in {"auth", "touch", "evict", "stored", "refresh", "update",
                                             "resolve", "create", "audit"}
PlaceInv == \A x \in Handlers : Place(h[x])

\* A request that follows one in its place is in its place too.
LEMMA FollowsPlace ==
  ASSUME NEW r \in Request, NEW q \in Request, Place(r), q = NoRequest \/ Follows(r, q)
  PROVE  Place(q)
<1>1. CASE q = NoRequest
  BY <1>1, NoRequestType DEF Place
<1>2. CASE Follows(r, q)
  BY <1>2, RequestFields DEF Place, Follows, Op
<1> QED BY <1>1, <1>2

\* A step changes its own request only, to one that stands in its place, or ends it.
LEMMA StepRequest ==
  ASSUME TypeOK, PlaceInv, NEW x \in Handlers, Step(x)
  PROVE  \E q \in Request : h' = [h EXCEPT ![x] = q] /\ (q = NoRequest \/ Follows(h[x], q))
<1> DEFINE Moves(q) == h' = [h EXCEPT ![x] = q] /\ (q = NoRequest \/ Follows(h[x], q))
<1>1. h[x] \in Request
  BY DEF TypeOK
<1>2. ASSUME Done(x) PROVE \E q \in Request : Moves(q)
  BY <1>2, NoRequestType DEF Done
<1>3. ASSUME NEW pc \in PC, Goto(x, pc) PROVE h' = [h EXCEPT ![x] = [h[x] EXCEPT !.pc = pc]]
  BY <1>3 DEF Goto
<1>4. ASSUME NEW pc \in PC, Goto(x, pc), Follows(h[x], [h[x] EXCEPT !.pc = pc])
      PROVE  \E q \in Request : Moves(q)
  <2>1. [h[x] EXCEPT !.pc = pc] \in Request
    BY <1>1, RequestFields, BoundTypes
  <2> QED BY <1>3, <1>4, <2>1
<1>5. ASSUME NEW pc \in PC
      PROVE  LET q == [h[x] EXCEPT !.pc = pc] IN q.op = h[x].op /\ q.s = h[x].s /\ q.a = h[x].a /\ q.pc = pc
  BY <1>1 DEF Request
<1> SUFFICES \E q \in Request : Moves(q)
  OBVIOUS
<1> HIDE DEF Moves
<1>6. CASE FindAttempt(x)
  <2>1. \/ Done(x) \/ Goto(x, "take") \/ Goto(x, "drop")
    BY <1>6 DEF FindAttempt
  <2> QED BY <1>2, <1>4, <1>5, <1>6, <2>1 DEF FindAttempt, At, Follows, PC
<1>7. CASE TakeAttempt(x) \/ DropAttempt(x)
  BY <1>2, <1>4, <1>5, <1>7 DEF TakeAttempt, DropAttempt, At, Follows, PC
<1>8. CASE Authenticate(x)
  <2>1. \/ Done(x) \/ Goto(x, "touch") \/ Goto(x, "evict")
    BY <1>8 DEF Authenticate
  <2> QED BY <1>2, <1>4, <1>5, <1>8, <2>1 DEF Authenticate, Follows, PC
<1>9. CASE Evict(x) \/ Answer(x) \/ Raises(x)
  BY <1>2, <1>9 DEF Evict, Answer, Raises
<1>10. CASE Touch(x)
  BY <1>2, <1>4, <1>5, <1>10 DEF Touch, AfterGuards, Follows, PC
<1>11. CASE Resolve(x)
  <2>1. CASE Done(x)
    BY <1>2, <2>1
  <2>2. ASSUME NEW o \in Orgs, h' = [h EXCEPT ![x].pc = "create", ![x].org = o]
        PROVE  \E q \in Request : Moves(q)
    <3> DEFINE q == [h[x] EXCEPT !.pc = "create", !.org = o]
    <3>1. q \in Request
      BY <1>1, RequestFields, BoundTypes DEF PC
    <3>2. q.op = h[x].op /\ q.s = h[x].s /\ q.a = h[x].a /\ q.pc = "create"
      BY <1>1 DEF Request
    <3>3. h' = [h EXCEPT ![x] = q]
      BY <1>1, <2>2 DEF TypeOK, Request
    <3> HIDE DEF q
    <3> QED BY <1>11, <3>1, <3>2, <3>3 DEF Resolve, Follows, Moves
  <2> QED BY <1>11, <2>1, <2>2 DEF Resolve, Identities, SwitchIdentities, LoginIdentities
<1>12. CASE CreateSession(x)
  <2>1. PICK n \in Ids : h' = [h EXCEPT ![x].pc = "audit", ![x].new = n]
    BY <1>12 DEF CreateSession
  <2> DEFINE q == [h[x] EXCEPT !.pc = "audit", !.new = n]
  <2>2. n \in 0 .. Limit
    BY BoundTypes DEF Ids
  <2>3. q \in Request
    BY <1>1, <2>2, RequestFields, BoundTypes DEF PC
  <2>4. q.op = h[x].op /\ q.s = h[x].s /\ q.a = h[x].a /\ q.pc = "audit"
    BY <1>1 DEF Request
  <2>5. h' = [h EXCEPT ![x] = q]
    BY <1>1, <2>1 DEF TypeOK, Request
  <2> HIDE DEF q
  <2> QED BY <1>12, <2>3, <2>4, <2>5 DEF CreateSession, Follows, Moves
<1>13. ASSUME NEW t \in 0 .. MaxRotations + 1, NEW pc \in PC,
              h' = [h EXCEPT ![x].token = t, ![x].pc = pc],
              Follows(h[x], [h[x] EXCEPT !.pc = pc])
       PROVE  \E q \in Request : Moves(q)
  <2> DEFINE q == [h[x] EXCEPT !.token = t, !.pc = pc]
  <2>1. q \in Request
    BY <1>1, RequestFields, BoundTypes
  <2>2. q.op = h[x].op /\ q.s = h[x].s /\ q.a = h[x].a /\ q.pc = pc
    BY <1>1 DEF Request
  <2>3. h' = [h EXCEPT ![x] = q]
    BY <1>1, <1>13 DEF TypeOK, Request
  <2> HIDE DEF q
  <2>4. Follows(h[x], q)
    BY <1>5, <1>13, <2>2 DEF Follows
  <2> QED BY <2>1, <2>3, <2>4 DEF Moves
<1>14. CASE ReadStored(x)
  <2> DEFINE s == h[x].s
             pc == IF h[x].op = "logout" THEN "revoke" ELSE IF row[s].stale THEN "refresh" ELSE "resolve"
  <2>1. CASE Done(x)
    BY <1>2, <2>1
  <2>2. CASE h[x].op = "logout" /\ Goto(x, "destroy")
    <3>1. h[x].pc = "stored" /\ "destroy" \in PC
      BY <1>14 DEF ReadStored, PC
    <3>2. Follows(h[x], [h[x] EXCEPT !.pc = "destroy"])
      BY <1>5, <2>2, <3>1 DEF Follows
    <3> QED BY <1>4, <2>2, <3>1, <3>2
  <2>3. CASE ~Done(x) /\ ~(h[x].op = "logout" /\ Goto(x, "destroy"))
    <3>0. h[x].pc = "stored" /\ h[x].op \in {"logout", "switch"} /\ s \in Ids
      <4>1. h[x].pc = "stored" /\ Place(h[x]) /\ h[x].op \in Op /\ s \in 0 .. Limit
        BY <1>1, <1>14, RequestFields DEF ReadStored, PlaceInv
      <4>2. h[x].op \in {"logout", "switch"} /\ s # 0
        BY <4>1 DEF Place, Op
      <4> HIDE DEF s
      <4> QED BY <4>1, <4>2, BoundTypes DEF Ids
    <3>1. h' = [h EXCEPT ![x].token = row[s].refresh, ![x].pc = pc]
      BY <1>14, <2>3, <3>0 DEF ReadStored
    <3>2. pc \in PC /\ h[x].pc = "stored"
      BY <1>14 DEF PC, ReadStored
    <3>3. Follows(h[x], [h[x] EXCEPT !.pc = pc])
      BY <1>5, <3>2 DEF Follows
    <3>4. row[s].refresh \in 0 .. MaxRotations + 1
      <4>1. row[s] \in Row
        BY <3>0 DEF TypeOK
      <4>2. row[s].refresh \in 0 .. MaxRotations
        BY <4>1, RowFields
      <4> HIDE DEF s
      <4> QED BY <4>2, BoundTypes
    <3> HIDE DEF pc
    <3> QED BY <1>13, <3>1, <3>2, <3>3, <3>4
  <2> QED BY <2>1, <2>2, <2>3
<1>16. CASE Refresh(x)
  <2>0. h[x].token \in 0 .. MaxRotations + 1 /\ h[x].pc = "refresh"
    BY <1>1, <1>16, RequestFields DEF Refresh
  <2>1. CASE Done(x)
    BY <1>2, <2>1
  <2>2. ASSUME NEW t \in 0 .. MaxRotations + 1, h' = [h EXCEPT ![x].token = t, ![x].pc = "update"]
        PROVE  \E q \in Request : Moves(q)
    <3>1. "update" \in PC
      BY DEF PC
    <3>2. Follows(h[x], [h[x] EXCEPT !.pc = "update"])
      BY <1>5, <2>0, <3>1 DEF Follows
    <3> QED BY <1>13, <2>2, <3>1, <3>2
  <2>3. CASE h' = [h EXCEPT ![x].token = NoToken, ![x].pc = "update"]
    BY <2>2, <2>3, BoundTypes
  <2>4. CASE h[x].token < MaxRotations /\ h' = [h EXCEPT ![x].token = @ + 1, ![x].pc = "update"]
    <3>1. h[x].token + 1 \in 0 .. MaxRotations + 1
      BY <2>0, <2>4, BoundTypes
    <3> QED BY <2>2, <2>4, <3>1
  <2> QED BY <1>16, <2>1, <2>3, <2>4 DEF Refresh
<1>15. CASE Revoke(x) \/ Destroy(x) \/ UpdateTokens(x)
  BY <1>2, <1>4, <1>5, <1>15 DEF Revoke, Destroy, UpdateTokens, Follows, PC
<1> QED BY <1>6, <1>7, <1>8, <1>9, <1>10, <1>11, <1>12, <1>14, <1>15, <1>16 DEF Step

-----------------------------------------------------------------------------
(* What a request writes *)

\* The fields of a request, and a row of a session for each place that writes one.
LEMMA StepSession ==
  ASSUME TypeOK, PlaceInv, NEW x \in Handlers
  PROVE  /\ h[x] \in Request /\ h[x].s \in 0 .. Limit /\ h[x].a \in Attempts /\ h[x].new \in 0 .. Limit
         /\ h[x].token \in 0 .. MaxRotations + 1 /\ h[x].org \in Orgs
         /\ h[x].pc \in {"auth", "touch", "evict", "stored", "revoke", "destroy", "refresh", "update"} =>
              h[x].s \in Ids /\ row[h[x].s] \in Row
<1>1. h[x] \in Request /\ Place(h[x]) /\ \A s \in Ids : row[s] \in Row
  BY DEF TypeOK, PlaceInv
<1>2. /\ h[x].s \in 0 .. Limit /\ h[x].op \in Op /\ h[x].a \in Attempts /\ h[x].new \in 0 .. Limit
      /\ h[x].token \in 0 .. MaxRotations + 1 /\ h[x].org \in Orgs
  BY <1>1, RequestFields
<1>3. h[x].pc \in {"auth", "touch", "evict", "stored", "revoke", "destroy", "refresh", "update"} => h[x].s # 0
  BY <1>1, <1>2 DEF Place, Op
<1>4. h[x].s # 0 => h[x].s \in Ids
  BY <1>2, BoundTypes DEF Ids
<1> QED BY <1>1, <1>2, <1>3, <1>4

\* No row but that of one session is written.
RowOnly(s) == row' \in [Ids -> Row] /\ \A t \in Ids : t # s => row'[t] = row[t]

\* A row with one field replaced has the right type.
LEMMA RowSetType ==
  ASSUME TypeOK, NEW s \in Ids, NEW r \in Row, row' = [row EXCEPT ![s] = r]
  PROVE  RowOnly(s) /\ row'[s] = r
BY DEF TypeOK, RowOnly

\* Storing the tokens of a session keeps the types.
LEMMA StoreTokensType ==
  ASSUME TypeOK, PlaceInv, NEW x \in Handlers, h[x].pc = "update", StoreTokens(x)
  PROVE  RowOnly(h[x].s)
<1> DEFINE s == h[x].s
           b == FALSE
           t == IF h[x].token = NoToken THEN row[s].refresh ELSE h[x].token
<1>1. s \in Ids /\ row[s] \in Row /\ h[x].token \in 0 .. MaxRotations + 1
  BY StepSession
<1>2. t \in 0 .. MaxRotations
  <2>1. row[s].refresh \in 0 .. MaxRotations
    BY <1>1, RowFields
  <2> HIDE DEF s
  <2> QED BY <1>1, <2>1, BoundTypes DEF NoToken
<1>3. b \in BOOLEAN
  OBVIOUS
<1>4. row' = [row EXCEPT ![s] = [row[s] EXCEPT !.stale = b, !.refresh = t]]
  BY <1>1 DEF StoreTokens, TypeOK, Row
<1> HIDE DEF b, t
<1> QED BY <1>1, <1>2, <1>3, <1>4, RowBooleans, RowSetType

\* Revoking the token of a session keeps the types.
LEMMA RevokeTokenType ==
  ASSUME TypeOK, PlaceInv, NEW x \in Handlers, h[x].pc = "revoke", RevokeToken(x)
  PROVE  RowOnly(h[x].s)
<1> DEFINE s == h[x].s
           b == row[s].revoked \/ (Live(s) /\ h[x].token = row[s].current)
<1>1. s \in Ids /\ row[s] \in Row
  BY StepSession
<1>2. b \in BOOLEAN
  OBVIOUS
<1>3. row' = [row EXCEPT ![s] = [row[s] EXCEPT !.revoked = b]]
  BY DEF RevokeToken
<1> HIDE DEF b
<1> QED BY <1>1, <1>2, <1>3, RowBooleans, RowSetType

\* Renewing a session keeps the types.
LEMMA RenewType ==
  ASSUME TypeOK, NEW s \in Ids, Renew(s)
  PROVE  RowOnly(s)
<1>1. row[s] \in Row
  BY DEF TypeOK
<1>2. Least(Idle, row[s].life) \in 0 .. Idle
  <2>1. row[s].life \in 0 .. Life
    BY <1>1, RowFields
  <2> QED BY <2>1, BoundTypes DEF Least
<1>3. row' = [row EXCEPT ![s] = [row[s] EXCEPT !.idle = Least(Idle, row[s].life)]]
  BY DEF Renew
<1> QED BY <1>1, <1>2, <1>3, RowFields, RowSetType

\* Deleting a session keeps the types.
LEMMA DeleteType ==
  ASSUME TypeOK, NEW s \in Ids, Delete(s)
  PROVE  /\ state' \in [Ids -> {"unused", "live", "gone"}] /\ row' \in [Ids -> Row]
         /\ state'[s] = "gone" /\ \A t \in Ids : t # s => state'[t] = state[t] /\ row'[t] = row[t]
BY NoRowType DEF Delete, TypeOK

\* Inserting a session keeps the types, and changes no other session but the one replaced.
LEMMA InsertType ==
  ASSUME TypeOK, PlaceInv, NEW x \in Handlers, NEW n \in Ids, Insert(x, n)
  PROVE  /\ state' \in [Ids -> {"unused", "live", "gone"}] /\ row' \in [Ids -> Row]
         /\ pred' \in [Ids -> 0 .. Limit] /\ from' \in [Ids -> Attempts]
         /\ state'[n] = "live" /\ pred'[n] = h[x].s /\ from'[n] = h[x].a /\ row'[n] = NewRow(h[x].org)
         /\ \A t \in Ids : t # n => /\ pred'[t] = pred[t] /\ from'[t] = from[t]
                                    /\ t = h[x].s => state'[t] = "gone"
                                    /\ t # h[x].s => state'[t] = state[t] /\ row'[t] = row[t]
<1>1. h[x].s \in 0 .. Limit /\ h[x].a \in Attempts /\ h[x].org \in Orgs
  BY StepSession
<1>2. NewRow(h[x].org) \in Row /\ NoRow \in Row
  BY <1>1, NewRowType, NoRowType
<1> QED BY <1>1, <1>2 DEF Insert, TypeOK

\* What a step of a request does to the tables: it consumes an attempt, deletes its session,
\* inserts one, or changes columns of its session.
Consumes(x) == h[x].pc \in {"take", "drop"} /\ attempt' = [attempt EXCEPT ![h[x].a] = "gone"]
Deletes(x)  == Live(h[x].s) /\ h[x].s \in Ids /\ Delete(h[x].s) /\ UNCHANGED <<pred, from>>
Inserts(x)  == h[x].pc = "create" /\ \E n \in Ids : Fresh(n) /\ Insert(x, n)
Writes(x)   == UNCHANGED <<state, pred, from>> /\ RowOnly(h[x].s)

\* A refresh keeps the types.
LEMMA RefreshType ==
  ASSUME TypeOK, PlaceInv, NEW x \in Handlers, Refresh(x)
  PROVE  RowOnly(h[x].s)
<1> DEFINE s == h[x].s
<1>1. s \in Ids /\ row[s] \in Row /\ row \in [Ids -> Row]
  BY StepSession DEF Refresh, TypeOK
<1>2. CASE row' = row
  BY <1>1, <1>2 DEF RowOnly
<1>3. CASE Live(s) /\ h[x].token = row[s].current /\ h[x].token < MaxRotations
           /\ row' = [row EXCEPT ![s].current = @ + 1]
  <2>1. row[s].current \in 0 .. MaxRotations
    BY <1>1, RowFields
  <2>2. row[s].current + 1 \in 0 .. MaxRotations
    BY <1>3, <2>1, BoundTypes
  <2>3. row' = [row EXCEPT ![s] = [row[s] EXCEPT !.current = row[s].current + 1]]
    BY <1>3
  <2> QED BY <1>1, <2>2, <2>3, RowFields, RowSetType
<1> QED BY <1>2, <1>3 DEF Refresh

\* What each step of a request does to the tables: it inserts, deletes or writes a row.
LEMMA StepTables ==
  ASSUME TypeOK, PlaceInv, NEW x \in Handlers, Step(x)
  PROVE  /\ attempt' = attempt \/ Consumes(x)
         /\ Deletes(x) \/ Inserts(x) \/ Writes(x)
         /\ cookie' = cookie \/ (h[x].pc = "audit" /\ cookie' = h[x].new)
         /\ ws' = ws \/ \E o \in Orgs : ws' = [ws EXCEPT ![o] = "active"]
         /\ faults' \in {faults, faults + 1} /\ calm' \in BOOLEAN /\ UNCHANGED <<client, stops>>
<1>1. /\ h[x].pc \in {"auth", "touch", "evict", "stored", "revoke", "destroy", "refresh", "update"} => h[x].s \in Ids
      /\ row \in [Ids -> Row] /\ calm \in BOOLEAN
  BY StepSession DEF TypeOK
<1>2. NoFault => faults' = faults /\ calm' \in BOOLEAN
  BY <1>1 DEF NoFault
<1>3. Fault => faults' = faults + 1 /\ calm' \in BOOLEAN
  BY DEF Fault
<1>4. UNCHANGED store => Writes(x)
  BY <1>1 DEF store, Writes, RowOnly
<1>5. CASE FindAttempt(x) \/ Authenticate(x) \/ ReadStored(x)
  BY <1>2, <1>4, <1>5 DEF FindAttempt, Authenticate, ReadStored
<1>6. CASE TakeAttempt(x) \/ DropAttempt(x)
  BY <1>2, <1>4, <1>6 DEF TakeAttempt, DropAttempt, Consumes, At
<1>7. CASE Evict(x) \/ Destroy(x)
  BY <1>1, <1>2, <1>7 DEF Evict, Destroy, Deletes, Writes, RowOnly
<1>8. CASE Touch(x)
  BY <1>1, <1>2, <1>8, RenewType DEF Touch, Writes, RowOnly
<1>9. CASE Resolve(x)
  BY <1>2, <1>4, <1>9 DEF Resolve, ResolveIdentity, Identities, SwitchIdentities, LoginIdentities
<1>10. CASE CreateSession(x)
  BY <1>2, <1>10 DEF CreateSession, Inserts
<1>11. CASE Answer(x)
  BY <1>2, <1>4, <1>11 DEF Answer, CookieAfter
<1>12. CASE Revoke(x)
  <2>1. RowOnly(h[x].s)
    BY <1>1, <1>12, RevokeTokenType DEF Revoke, RowOnly
  <2> QED BY <1>2, <1>3, <1>12, <2>1 DEF Revoke, Writes
<1>13. CASE Refresh(x)
  BY <1>2, <1>3, <1>13, RefreshType DEF Refresh, Writes
<1>14. CASE UpdateTokens(x)
  BY <1>1, <1>2, <1>14, StoreTokensType DEF UpdateTokens, Writes, RowOnly
<1>15. CASE Raises(x)
  <2>1. faults' = faults + 1 /\ calm' \in BOOLEAN /\ UNCHANGED <<ws, cookie, client, stops>>
    BY <1>3, <1>15 DEF Raises
  <2>2. attempt' = attempt \/ Consumes(x)
    BY <1>15 DEF Raises, Consumes
  <2>3. Deletes(x) \/ Inserts(x) \/ Writes(x)
    BY <1>1, <1>4, <1>15, StoreTokensType DEF Raises, Deletes, Inserts, Writes, RowOnly, store
  <2> QED BY <2>1, <2>2, <2>3
<1> QED BY <1>5, <1>6, <1>7, <1>8, <1>9, <1>10, <1>11, <1>12, <1>13, <1>14, <1>15 DEF Step

-----------------------------------------------------------------------------
(* Type correctness *)

BaseInv == TypeOK /\ PlaceInv

\* The initial states are of the right types, each handler idle.
LEMMA InitBase == Init => BaseInv
<1> SUFFICES ASSUME Init PROVE BaseInv
  OBVIOUS
<1>1. \A x \in Handlers : h[x] = NoRequest
  BY DEF Init
<1>2. PlaceInv
  BY <1>1, NoRequestType DEF PlaceInv, Place
<1>3. TypeOK
  BY NoRequestType, NoRowType, BoundTypes DEF Init, TypeOK
<1> QED BY <1>2, <1>3 DEF BaseInv

\* A step of a request keeps types and places.
LEMMA StepBase ==
  ASSUME TypeOK, PlaceInv, NEW x \in Handlers, Step(x)
  PROVE  BaseInv'
<1>1. PICK q \in Request : h' = [h EXCEPT ![x] = q] /\ (q = NoRequest \/ Follows(h[x], q))
  BY StepRequest
<1>2. h' \in [Handlers -> Request] /\ PlaceInv'
  <2>1. h[x] \in Request /\ Place(h[x])
    BY DEF TypeOK, PlaceInv
  <2>2. Place(q)
    BY <1>1, <2>1, FollowsPlace
  <2> QED BY <1>1, <2>2 DEF TypeOK, PlaceInv
<1>3. attempt' \in [Attempts -> {"unused", "open", "expired", "gone"}]
  BY StepTables, StepSession DEF Consumes, TypeOK
<1>4. /\ state' \in [Ids -> {"unused", "live", "gone"}] /\ pred' \in [Ids -> 0 .. Limit]
      /\ from' \in [Ids -> Attempts] /\ row' \in [Ids -> Row]
  <2>1. CASE Deletes(x)
    BY <2>1, DeleteType DEF Deletes, TypeOK
  <2>2. CASE Inserts(x)
    BY <2>2, InsertType DEF Inserts
  <2>3. CASE Writes(x)
    BY <2>3 DEF Writes, RowOnly, TypeOK
  <2> QED BY <2>1, <2>2, <2>3, StepTables
<1>5. ws' \in [Orgs -> {"absent", "active", "suspended"}] /\ client' \in {"none", "ready", "failed"}
  BY StepTables DEF TypeOK
<1>6. cookie' \in 0 .. Limit
  BY StepTables, StepSession DEF TypeOK
<1>7. faults' \in Nat /\ stops' \in Nat /\ calm' \in BOOLEAN
  BY StepTables DEF TypeOK
<1> QED BY <1>2, <1>3, <1>4, <1>5, <1>6, <1>7 DEF BaseInv, TypeOK

\* The requests that begin.
LEMMA BeginRequest ==
  ASSUME BaseInv, NEW x \in Handlers, Begin(x)
  PROVE  \E op \in {"use", "logout", "switch"} : \E q \in Request :
           /\ q.op = op /\ q.pc = "auth" /\ q.s = cookie /\ q.a = from[cookie] /\ q.new = 0
           /\ cookie # 0 /\ h[x].op = "none" /\ h' = [h EXCEPT ![x] = q]
           /\ calm' = (calm /\ \A y \in Handlers : h[y].op = "none")
<1>1. PICK op \in {"use", "logout", "switch"} :
        Take(x, [NoRequest EXCEPT !.op = op, !.pc = "auth", !.s = cookie, !.a = from[cookie]])
  BY DEF Begin
<1> DEFINE q == [NoRequest EXCEPT !.op = op, !.pc = "auth", !.s = cookie, !.a = from[cookie]]
<1>2. cookie # 0 /\ cookie \in 0 .. Limit /\ from[cookie] \in Attempts
  BY BoundTypes DEF Begin, BaseInv, TypeOK, Ids
<1>3. q \in Request /\ q.op = op /\ q.pc = "auth" /\ q.s = cookie /\ q.a = from[cookie] /\ q.new = 0
  BY <1>2, NoRequestType DEF Request, Op, PC
<1> HIDE DEF q
<1> QED BY <1>1, <1>2, <1>3 DEF Take, q

\* A callback begins at its first place.
LEMMA BeginCallbackRequest ==
  ASSUME BaseInv, NEW x \in Handlers, NEW a \in Attempts, BeginCallback(x, a)
  PROVE  \E q \in Request :
           /\ q.op = "callback" /\ q.pc = "find" /\ q.s = 0 /\ q.a = a /\ q.new = 0
           /\ h[x].op = "none" /\ h' = [h EXCEPT ![x] = q]
<1> DEFINE q == [NoRequest EXCEPT !.op = "callback", !.pc = "find", !.a = a]
<1>1. q \in Request /\ q.op = "callback" /\ q.pc = "find" /\ q.s = 0 /\ q.a = a /\ q.new = 0
  BY NoRequestType DEF Request, Op, PC
<1>2. h' = [h EXCEPT ![x] = q] /\ h[x].op = "none"
  BY DEF BeginCallback
<1> HIDE DEF q
<1> QED BY <1>1, <1>2

\* Time, operators, the cleanup, discovery and stops touch no request but to end it.
LEMMA OutsideBase ==
  ASSUME BaseInv,
         \/ \E a \in Attempts : BeginLogin(a) \/ AttemptExpires(a)
         \/ \E s \in Ids : AccessTokenExpires(s)
         \/ \E o \in Orgs : Suspend(o)
         \/ Discover \/ ManagerStops \/ Tick \/ Cleanup
  PROVE  BaseInv'
<1>1. \A s \in Ids : row[s] \in Row
  BY DEF BaseInv, TypeOK
<1>2. ASSUME NEW a \in Attempts, BeginLogin(a) \/ AttemptExpires(a) PROVE BaseInv'
  BY <1>2 DEF BeginLogin, CreateLoginAttempt, AttemptExpires, store, BaseInv, TypeOK, PlaceInv
<1>3. ASSUME NEW s \in Ids, AccessTokenExpires(s) PROVE BaseInv'
  <2> DEFINE b == TRUE
  <2>1. row' = [row EXCEPT ![s] = [row[s] EXCEPT !.stale = b]] /\ b \in BOOLEAN
    BY <1>3 DEF AccessTokenExpires
  <2> HIDE DEF b
  <2>2. row' \in [Ids -> Row]
    BY <1>1, <2>1, RowBooleans, RowSetType DEF BaseInv, RowOnly
  <2> QED BY <1>3, <2>2 DEF AccessTokenExpires, BaseInv, TypeOK, PlaceInv
<1>4. ASSUME NEW o \in Orgs, Suspend(o) PROVE BaseInv'
  BY <1>4 DEF Suspend, store, BaseInv, TypeOK, PlaceInv
<1>5. CASE Discover
  <2>1. faults' \in Nat /\ calm' \in BOOLEAN /\ client' \in {"none", "ready", "failed"}
    <3>1. faults \in Nat /\ calm \in BOOLEAN
      BY DEF BaseInv, TypeOK
    <3>2. NoFault => faults' = faults /\ calm' = calm
      BY DEF NoFault
    <3>3. Fault => faults' = faults + 1 /\ calm' \in BOOLEAN
      BY DEF Fault
    <3>4. client' \in {"none", "ready", "failed"} /\ (NoFault \/ Fault)
      BY <1>5 DEF Discover
    <3> QED BY <3>1, <3>2, <3>3, <3>4
  <2> QED BY <1>5, <2>1 DEF Discover, store, BaseInv, TypeOK, PlaceInv
<1>6. CASE ManagerStops
  <2>1. calm' \in BOOLEAN
    BY <1>6 DEF ManagerStops
  <2>2. h' \in [Handlers -> Request] /\ PlaceInv'
    BY <1>6, NoRequestType DEF ManagerStops, PlaceInv, Place
  <2> QED BY <1>6, <2>1, <2>2 DEF ManagerStops, store, BaseInv, TypeOK
<1>7. CASE Tick
  <2>1. ASSUME NEW s \in Ids
        PROVE  [row[s] EXCEPT !.idle = Less(@), !.life = Less(@)] \in Row
    <3>1. row[s] \in Row /\ row[s].idle \in 0 .. Idle /\ row[s].life \in 0 .. Life
      BY <1>1, RowFields
    <3>2. Less(row[s].idle) \in 0 .. Idle /\ Less(row[s].life) \in 0 .. Life
      BY <3>1, BoundTypes DEF Less
    <3>3. [row[s] EXCEPT !.idle = Less(@), !.life = Less(@)]
            = [row[s] EXCEPT !.idle = Less(row[s].idle), !.life = Less(row[s].life)]
      BY <3>1 DEF Row
    <3> QED BY <3>1, <3>2, <3>3, RowFields
  <2>2. row' \in [Ids -> Row]
    BY <1>1, <1>7, <2>1 DEF Tick
  <2> QED BY <1>7, <2>2 DEF Tick, BaseInv, TypeOK, PlaceInv
<1>8. CASE Cleanup
  <2>1. row' \in [Ids -> Row]
    BY <1>1, <1>8, NoRowType DEF Cleanup
  <2>2. attempt' \in [Attempts -> {"unused", "open", "expired", "gone"}] /\ state' \in [Ids -> {"unused", "live", "gone"}]
    BY <1>8 DEF Cleanup, BaseInv, TypeOK
  <2> QED BY <1>8, <2>1, <2>2 DEF Cleanup, BaseInv, TypeOK, PlaceInv
<1> QED BY <1>2, <1>3, <1>4, <1>5, <1>6, <1>7, <1>8

\* Every step keeps types and places.
LEMMA NextBase == BaseInv /\ [Next]_vars => BaseInv'
<1> SUFFICES ASSUME BaseInv, [Next]_vars PROVE BaseInv'
  OBVIOUS
<1>1. ASSUME NEW x \in Handlers, Step(x) PROVE BaseInv'
  BY <1>1, StepBase DEF BaseInv
<1>2. ASSUME NEW x \in Handlers, NEW q \in Request, Place(q), h' = [h EXCEPT ![x] = q],
             calm' \in BOOLEAN, UNCHANGED <<attempt, store, ws, cookie, client, faults, stops>>
      PROVE  BaseInv'
  BY <1>2 DEF store, BaseInv, TypeOK, PlaceInv
<1>3. ASSUME NEW x \in Handlers, Begin(x) PROVE BaseInv'
  <2>1. PICK op \in {"use", "logout", "switch"}, q \in Request :
          /\ q.op = op /\ q.pc = "auth" /\ q.s = cookie /\ cookie # 0 /\ h' = [h EXCEPT ![x] = q]
          /\ calm' = (calm /\ \A y \in Handlers : h[y].op = "none")
    BY <1>3, BeginRequest
  <2>2. Place(q)
    BY <2>1 DEF Place
  <2>3. calm' \in BOOLEAN
    BY <2>1
  <2> QED BY <1>2, <1>3, <2>1, <2>2, <2>3 DEF Begin
<1>4. ASSUME NEW x \in Handlers, NEW a \in Attempts, BeginCallback(x, a) PROVE BaseInv'
  <2>1. PICK q \in Request : q.op = "callback" /\ q.pc = "find" /\ q.s = 0 /\ h' = [h EXCEPT ![x] = q]
    BY <1>4, BeginCallbackRequest
  <2>2. Place(q)
    BY <2>1 DEF Place
  <2>3. calm' \in BOOLEAN
    BY <1>4 DEF BeginCallback
  <2> QED BY <1>2, <1>4, <2>1, <2>2, <2>3 DEF BeginCallback
<1>5. CASE UNCHANGED vars
  BY <1>5 DEF vars, store, BaseInv, TypeOK, PlaceInv
<1> QED BY <1>1, <1>3, <1>4, <1>5, OutsideBase DEF Next

\* Tables, cookie and requests keep their types, whatever overlaps, fails, stops or expires:
\* every request stands where its operation takes it (AuthService, SessionService).
THEOREM TypeCorrect == Spec => []TypeOK
<1>1. BaseInv => TypeOK
  BY DEF BaseInv
<1> QED BY <1>1, InitBase, NextBase, PTL DEF Spec

-----------------------------------------------------------------------------
(* Sessions that cookies and requests name *)

Outside ==
  \/ \E a \in Attempts : BeginLogin(a) \/ AttemptExpires(a)
  \/ \E s \in Ids : AccessTokenExpires(s)
  \/ \E o \in Orgs : Suspend(o)
  \/ Discover \/ ManagerStops \/ Tick \/ Cleanup

\* A step is that of a request, its beginning, or none of a request's.
LEMMA NextSplit ==
  ASSUME [Next]_vars
  PROVE  \/ \E x \in Handlers : Step(x)
         \/ \E x \in Handlers : Begin(x) \/ \E a \in Attempts : BeginCallback(x, a)
         \/ Outside
         \/ UNCHANGED vars
BY DEF Next, Outside

\* What is not a request leaves the requests or ends them all, and deletes at most.
LEMMA OutsideKeeps ==
  ASSUME BaseInv, Outside \/ UNCHANGED vars
  PROVE  /\ h' = h \/ h' = [x \in Handlers |-> NoRequest]
         /\ UNCHANGED <<cookie, pred, from>>
         /\ \A s \in Ids : state'[s] = state[s] \/ (state[s] = "live" /\ state'[s] = "gone")
         /\ \A a \in Attempts : attempt[a] = "gone" => attempt'[a] = "gone"
<1>1. CASE Cleanup
  BY <1>1 DEF Cleanup, Expired, BaseInv, TypeOK
<1>2. ASSUME NEW a \in Attempts, BeginLogin(a) \/ AttemptExpires(a)
      PROVE  UNCHANGED <<h, cookie, store>> /\ \A b \in Attempts : attempt[b] = "gone" => attempt'[b] = "gone"
  BY <1>2 DEF BeginLogin, CreateLoginAttempt, AttemptExpires, BaseInv, TypeOK
<1>3. ASSUME NEW s \in Ids, AccessTokenExpires(s) PROVE UNCHANGED <<attempt, h, cookie, state, pred, from>>
  BY <1>3 DEF AccessTokenExpires
<1>4. ASSUME NEW o \in Orgs, Suspend(o) PROVE UNCHANGED <<attempt, h, cookie, store>>
  BY <1>4 DEF Suspend
<1> QED BY <1>1, <1>2, <1>3, <1>4 DEF Outside, Discover, ManagerStops, Tick, store, vars

\* A session that was made stays made, and one that was deleted stays deleted.
LEMMA StateGrows ==
  ASSUME BaseInv, [Next]_vars
  PROVE  \A s \in Ids : /\ state[s] # "unused" => state'[s] # "unused"
                        /\ state[s] = "gone" => state'[s] = "gone"
<1>1. ASSUME NEW x \in Handlers, Step(x), NEW s \in Ids
      PROVE  /\ state[s] # "unused" => state'[s] # "unused"
             /\ state[s] = "gone" => state'[s] = "gone"
  <2>1. TypeOK /\ PlaceInv
    BY DEF BaseInv
  <2>2. CASE Deletes(x)
    BY <2>1, <2>2, DeleteType DEF Deletes
  <2>3. CASE Inserts(x)
    BY <2>1, <2>3, InsertType DEF Inserts, Fresh
  <2>4. CASE Writes(x)
    BY <2>4 DEF Writes
  <2> QED BY <1>1, <2>1, <2>2, <2>3, <2>4, StepTables
<1>2. ASSUME NEW x \in Handlers, Begin(x) \/ \E a \in Attempts : BeginCallback(x, a)
      PROVE  UNCHANGED state
  BY <1>2 DEF Begin, BeginCallback, store
<1> QED BY <1>1, <1>2, NextSplit, OutsideKeeps

Issued(s) == s # 0 => s \in Ids /\ state[s] # "unused"
LinkInv ==
  /\ Issued(cookie)
  /\ \A x \in Handlers : Issued(h[x].s) /\ Issued(h[x].new)

\* The session a request made is one it inserted.
LEMMA StepNew ==
  ASSUME BaseInv, NEW x \in Handlers, Step(x)
  PROVE  \/ h'[x].new \in {0, h[x].new}
         \/ \E n \in Ids : h'[x].new = n /\ Fresh(n) /\ Insert(x, n)
<1>1. h[x] \in Request /\ h \in [Handlers -> Request]
  BY DEF BaseInv, TypeOK
<1>2. Done(x) => h'[x].new = 0
  BY <1>1, NoRequestType DEF Done
<1>3. \A pc : Goto(x, pc) => h'[x].new = h[x].new
  BY <1>1 DEF Goto, Request
<1>4. CASE CreateSession(x)
  <2>1. PICK n \in Ids : /\ Fresh(n) /\ Insert(x, n)
                         /\ h' = [h EXCEPT ![x].pc = "audit", ![x].new = n]
    BY <1>4 DEF CreateSession
  <2>2. h'[x].new = n
    BY <1>1, <2>1 DEF Request
  <2> QED BY <2>1, <2>2
<1>5. CASE Resolve(x)
  <2>1. Done(x) \/ \E o \in Orgs : h' = [h EXCEPT ![x].pc = "create", ![x].org = o]
    BY <1>5 DEF Resolve, Identities, LoginIdentities, SwitchIdentities
  <2>2. ASSUME NEW o \in Orgs, h' = [h EXCEPT ![x].pc = "create", ![x].org = o] PROVE h'[x].new = h[x].new
    BY <1>1, <2>2 DEF Request
  <2> QED BY <1>2, <2>1, <2>2
<1>6. ASSUME NEW t, NEW pc, h' = [h EXCEPT ![x].token = t, ![x].pc = pc] PROVE h'[x].new = h[x].new
  BY <1>1, <1>6 DEF Request
<1>7. CASE ReadStored(x)
  <2>1. \/ Done(x) \/ Goto(x, "destroy")
        \/ h' = [h EXCEPT ![x].token = row[h[x].s].refresh,
                           ![x].pc = IF h[x].op = "logout" THEN "revoke"
                                     ELSE IF row[h[x].s].stale THEN "refresh" ELSE "resolve"]
    BY <1>7 DEF ReadStored
  <2> QED BY <1>2, <1>3, <1>6, <2>1
<1>8. CASE Refresh(x)
  <2>1. \/ Done(x)
        \/ h' = [h EXCEPT ![x].token = NoToken, ![x].pc = "update"]
        \/ h' = [h EXCEPT ![x].token = @ + 1, ![x].pc = "update"]
    BY <1>8 DEF Refresh
  <2>2. CASE h' = [h EXCEPT ![x].token = @ + 1, ![x].pc = "update"]
    BY <1>1, <2>2 DEF Request
  <2> QED BY <1>2, <1>6, <2>1, <2>2
<1>9. CASE FindAttempt(x)
  <2>1. Done(x) \/ \E pc \in {"take", "drop"} : Goto(x, pc)
    BY <1>9 DEF FindAttempt
  <2> QED BY <1>2, <1>3, <2>1
<1>10. CASE TakeAttempt(x) \/ DropAttempt(x) \/ Evict(x) \/ Answer(x) \/ Raises(x)
  BY <1>2, <1>3, <1>10 DEF TakeAttempt, DropAttempt, Evict, Answer, Raises
<1>11. CASE Authenticate(x)
  <2>1. Done(x) \/ \E pc \in {"touch", "evict"} : Goto(x, pc)
    BY <1>11 DEF Authenticate
  <2> QED BY <1>2, <1>3, <2>1
<1>12. CASE Touch(x) \/ Revoke(x) \/ Destroy(x) \/ UpdateTokens(x)
  BY <1>2, <1>3, <1>12 DEF Touch, AfterGuards, Revoke, Destroy, UpdateTokens
<1> QED BY <1>4, <1>5, <1>7, <1>8, <1>9, <1>10, <1>11, <1>12 DEF Step

\* Every step keeps LinkInv.
LEMMA LinkKept ==
  ASSUME BaseInv, LinkInv, [Next]_vars
  PROVE  LinkInv'
<1>1. \A s : Issued(s) => Issued(s)'
  BY StateGrows DEF Issued
<1>2. Issued(0)'
  BY DEF Issued
<1>3. ASSUME NEW x \in Handlers, Step(x) PROVE LinkInv'
  <2>1. TypeOK /\ PlaceInv
    BY DEF BaseInv
  <2>2. PICK q \in Request : h' = [h EXCEPT ![x] = q] /\ (q = NoRequest \/ Follows(h[x], q))
    BY <1>3, <2>1, StepRequest
  <2>3. h'[x] = q /\ \A y \in Handlers : y # x => h'[y] = h[y]
    BY <2>1, <2>2 DEF TypeOK
  <2>4. q.s \in {0, h[x].s}
    BY <2>2, NoRequestType DEF Follows
  <2>5. Issued(q.new)'
    <3>1. CASE q.new \in {0, h[x].new}
      BY <1>1, <1>2, <3>1 DEF LinkInv
    <3>2. ASSUME NEW n \in Ids, q.new = n, Insert(x, n) PROVE Issued(q.new)'
      <4>1. state'[n] = "live"
        BY <2>1, <3>2, InsertType
      <4> QED BY <3>2, <4>1 DEF Issued
    <3> QED BY <1>3, <2>3, <3>1, <3>2, StepNew
  <2>6. cookie' \in {cookie, h[x].new}
    BY <1>3, <2>1, StepTables
  <2> QED BY <1>1, <1>2, <2>3, <2>4, <2>5, <2>6 DEF LinkInv
<1>4. ASSUME NEW x \in Handlers, NEW q \in Request, h' = [h EXCEPT ![x] = q], q.new = 0,
             q.s \in {0, cookie}, cookie' = cookie
      PROVE  LinkInv'
  <2>1. h'[x] = q /\ \A y \in Handlers : y # x => h'[y] = h[y]
    BY <1>4 DEF BaseInv, TypeOK
  <2> QED BY <1>1, <1>2, <1>4, <2>1 DEF LinkInv
<1>5. ASSUME NEW x \in Handlers, Begin(x) \/ \E a \in Attempts : BeginCallback(x, a) PROVE LinkInv'
  <2>1. cookie' = cookie
    BY <1>5 DEF Begin, BeginCallback
  <2>2. CASE Begin(x)
    BY <1>4, <2>1, <2>2, BeginRequest
  <2>3. ASSUME NEW a \in Attempts, BeginCallback(x, a) PROVE LinkInv'
    BY <1>4, <2>1, <2>3, BeginCallbackRequest
  <2> QED BY <1>5, <2>2, <2>3
<1>6. CASE Outside \/ UNCHANGED vars
  <2>1. /\ h' = h \/ h' = [x \in Handlers |-> NoRequest]
        /\ cookie' = cookie
    BY <1>6, OutsideKeeps
  <2> QED BY <1>1, <1>2, <2>1, NoRequestType DEF LinkInv
<1> QED BY <1>3, <1>5, <1>6, NextSplit

-----------------------------------------------------------------------------
(* A replaced session is gone *)

PredInv ==
  \A s \in Ids : state[s] # "unused" /\ pred[s] # 0 => pred[s] \in Ids /\ state[pred[s]] = "gone"

\* Only an insert makes a session; whom it replaces, and from which attempt it comes, is
\* said then and stays.
LEMMA OnlyInsertMakes ==
  ASSUME BaseInv, LinkInv, [Next]_vars
  PROVE  \/ \A s \in Ids : /\ pred'[s] = pred[s] /\ from'[s] = from[s]
                           /\ state'[s] # "unused" => state[s] # "unused"
         \/ \E x \in Handlers : Step(x) /\ Inserts(x)
<1>1. ASSUME NEW x \in Handlers, Step(x), ~Inserts(x), NEW s \in Ids
      PROVE  /\ pred'[s] = pred[s] /\ from'[s] = from[s]
             /\ state'[s] # "unused" => state[s] # "unused"
  <2>1. TypeOK /\ PlaceInv
    BY DEF BaseInv
  <2>2. CASE Deletes(x)
    BY <2>1, <2>2, DeleteType DEF Deletes, Live
  <2>3. CASE Writes(x)
    BY <2>3 DEF Writes
  <2> QED BY <1>1, <2>1, <2>2, <2>3, StepTables
<1>2. ASSUME NEW x \in Handlers, Begin(x) \/ \E a \in Attempts : BeginCallback(x, a)
      PROVE  UNCHANGED <<state, pred, from>>
  BY <1>2 DEF Begin, BeginCallback, store
<1>3. CASE Outside \/ UNCHANGED vars
  BY <1>3, OutsideKeeps
<1> QED BY <1>1, <1>2, <1>3, NextSplit

\* Every step keeps PredInv.
LEMMA PredKept ==
  ASSUME BaseInv, LinkInv, PredInv, [Next]_vars
  PROVE  PredInv'
<1>1. CASE \A s \in Ids : /\ pred'[s] = pred[s] /\ from'[s] = from[s]
                          /\ state'[s] # "unused" => state[s] # "unused"
  BY <1>1, StateGrows DEF PredInv
<1>2. ASSUME NEW x \in Handlers, Step(x), NEW n \in Ids, Fresh(n), Insert(x, n) PROVE PredInv'
  <2>1. /\ state'[n] = "live" /\ pred'[n] = h[x].s
        /\ \A t \in Ids : t # n => /\ pred'[t] = pred[t]
                                   /\ t = h[x].s => state'[t] = "gone"
                                   /\ t # h[x].s => state'[t] = state[t]
    BY <1>2, InsertType DEF BaseInv
  <2>2. h[x].s # 0 => h[x].s \in Ids /\ state[h[x].s] # "unused" /\ h[x].s # n
    BY <1>2 DEF LinkInv, Issued, Fresh
  <2>3. ASSUME NEW s \in Ids, state'[s] # "unused", pred'[s] # 0
        PROVE  pred'[s] \in Ids /\ state'[pred'[s]] = "gone"
    <3>1. CASE s = n
      BY <2>1, <2>2, <2>3, <3>1
    <3>2. CASE s # n
      <4>1. state[s] # "unused" /\ pred'[s] = pred[s]
        BY <2>1, <2>2, <2>3, <3>2, BoundTypes DEF Ids
      <4>2. pred[s] \in Ids /\ state[pred[s]] = "gone"
        BY <2>3, <4>1 DEF PredInv
      <4> QED BY <4>1, <4>2, StateGrows
    <3> QED BY <3>1, <3>2
  <2> QED BY <2>3 DEF PredInv
<1> QED BY <1>1, <1>2, OnlyInsertMakes DEF Inserts

\* At the start nothing refers to a session.
LEMMA InitLinks == Init => LinkInv /\ PredInv
BY NoRequestType DEF Init, LinkInv, Issued, PredInv

\* A session that was replaced is never there beside its successor: createSession deletes one
\* and inserts the other in one transaction, ids do not repeat, and neither the touch of a
\* request that authenticated earlier nor its tokens bring a row back (SessionService).
THEOREM PredecessorAlwaysGone == Spec => []PredecessorIsGone
<1> DEFINE IInv == BaseInv /\ LinkInv /\ PredInv
<1>1. Init => IInv
  BY InitBase, InitLinks
<1>2. IInv /\ [Next]_vars => IInv'
  BY NextBase, LinkKept, PredKept
<1>3. IInv => PredecessorIsGone
  BY DEF PredInv, PredecessorIsGone, Live
<1> QED BY <1>1, <1>2, <1>3, PTL DEF Spec

-----------------------------------------------------------------------------
(* A login attempt is used once *)

\* Whoever consumed an attempt, or the session made of it, is alone.
OnceInv ==
  \A a \in Attempts :
    /\ Consumers(a) # {} \/ LoginsOf(a) # {} => attempt[a] = "gone"
    /\ Consumers(a) = {} \/ LoginsOf(a) = {}
    /\ \A x, y \in Consumers(a) : x = y
    /\ \A s, t \in LoginsOf(a) : s = t

\* For an attempt, a step adds nobody; or the attempt is consumed now; or its one consumer
\* makes its one session.
OnceMove(a) ==
  \/ /\ attempt[a] = "gone" => attempt'[a] = "gone"
     /\ Consumers(a)' \subseteq Consumers(a) /\ LoginsOf(a)' \subseteq LoginsOf(a)
  \/ /\ attempt[a] # "gone" /\ attempt'[a] = "gone"
     /\ \E x : Consumers(a)' \subseteq Consumers(a) \cup {x}
     /\ LoginsOf(a)' \subseteq LoginsOf(a)
  \/ /\ attempt[a] = "gone" => attempt'[a] = "gone"
     /\ \E x \in Consumers(a) : Consumers(a)' \subseteq Consumers(a) \ {x}
     /\ \E n : LoginsOf(a)' \subseteq LoginsOf(a) \cup {n}

\* Every move that OnceMove lists keeps OnceInv.
LEMMA OnceMoveKeeps ==
  ASSUME OnceInv, \A a \in Attempts : OnceMove(a)
  PROVE  OnceInv'
<1> SUFFICES ASSUME NEW a \in Attempts
             PROVE  /\ Consumers(a)' # {} \/ LoginsOf(a)' # {} => attempt'[a] = "gone"
                    /\ Consumers(a)' = {} \/ LoginsOf(a)' = {}
                    /\ \A x, y \in Consumers(a)' : x = y
                    /\ \A s, t \in LoginsOf(a)' : s = t
  BY DEF OnceInv
<1> DEFINE C == Consumers(a)
           L == LoginsOf(a)
           D == Consumers(a)'
           M == LoginsOf(a)'
<1>1. /\ C # {} \/ L # {} => attempt[a] = "gone"
      /\ C = {} \/ L = {}
      /\ \A x, y \in C : x = y
      /\ \A s, t \in L : s = t
  BY DEF OnceInv
<1>2. \/ /\ attempt[a] = "gone" => attempt'[a] = "gone"
         /\ D \subseteq C /\ M \subseteq L
      \/ /\ attempt[a] # "gone" /\ attempt'[a] = "gone"
         /\ \E x : D \subseteq C \cup {x}
         /\ M \subseteq L
      \/ /\ attempt[a] = "gone" => attempt'[a] = "gone"
         /\ \E x \in C : D \subseteq C \ {x}
         /\ \E n : M \subseteq L \cup {n}
  BY DEF OnceMove
<1> HIDE DEF C, L, D, M
<1>3. /\ D # {} \/ M # {} => attempt'[a] = "gone"
      /\ D = {} \/ M = {}
      /\ \A x, y \in D : x = y
      /\ \A s, t \in M : s = t
  BY <1>1, <1>2
<1> QED BY <1>3 DEF D, M

\* The delete of an attempt, for the request that finds it and for one that does not.
LEMMA TakeStep ==
  ASSUME BaseInv, NEW x \in Handlers, Step(x), h[x].pc = "take", h'[x].op # "none"
  PROVE  /\ attempt[h[x].a] # "gone" /\ attempt'[h[x].a] = "gone" /\ UNCHANGED store
         /\ \A a \in Attempts : a # h[x].a => attempt'[a] = attempt[a]
<1>1. h \in [Handlers -> Request] /\ h[x].a \in Attempts /\ attempt \in [Attempts -> {"unused", "open", "expired", "gone"}]
  BY StepSession DEF BaseInv, TypeOK
<1>2. ~Done(x)
  BY <1>1, NoRequestType DEF Done
<1>3. ~Raises(x)
  BY <1>2 DEF Raises
<1>4. TakeAttempt(x)
  BY <1>3 DEF Step, FindAttempt, DropAttempt, Authenticate, Evict, Touch, Resolve, CreateSession, Answer,
              ReadStored, Revoke, Destroy, Refresh, UpdateTokens, At
<1> QED BY <1>1, <1>2, <1>4 DEF TakeAttempt

\* A step of a request is one of the moves OnceMove lists.
LEMMA StepOnce ==
  ASSUME BaseInv, LinkInv, NEW x \in Handlers, Step(x), NEW a \in Attempts
  PROVE  OnceMove(a)
<1>1. TypeOK /\ PlaceInv /\ h[x] \in Request /\ Place(h[x]) /\ h[x].op \in Op
  BY StepSession, RequestFields DEF BaseInv, PlaceInv
<1>2. PICK q \in Request : h' = [h EXCEPT ![x] = q] /\ (q = NoRequest \/ Follows(h[x], q))
  BY <1>1, StepRequest
<1>3. h'[x] = q /\ \A y \in Handlers : y # x => h'[y] = h[y]
  BY <1>1, <1>2 DEF TypeOK
<1>4. Consumers(a)' \subseteq Consumers(a) \cup {x}
  BY <1>3 DEF Consumers
<1>5. attempt[a] = "gone" => attempt'[a] = "gone"
  BY <1>1, StepTables, StepSession DEF Consumes, TypeOK
<1>6. CASE Inserts(x)
  <2>1. PICK n \in Ids : Fresh(n) /\ Insert(x, n)
    BY <1>6 DEF Inserts
  <2>2. h[x].pc = "create" /\ q.pc # "create" /\ q.pc # "resolve"
    BY <1>2, <1>6, NoRequestType DEF Inserts, Follows
  <2>3. Consumers(a)' \subseteq Consumers(a) \ {x}
    BY <1>3, <2>2 DEF Consumers
  <2>4. /\ pred'[n] = h[x].s /\ from'[n] = h[x].a
        /\ \A t \in Ids : t # n => /\ pred'[t] = pred[t] /\ from'[t] = from[t]
                                   /\ t # h[x].s => state'[t] = state[t]
    BY <1>1, <2>1, InsertType
  <2>5. \A t \in Ids : t = h[x].s => state[t] # "unused"
    BY BoundTypes DEF LinkInv, Issued, Ids
  <2>6. ASSUME NEW t \in LoginsOf(a)', t # n PROVE t \in LoginsOf(a)
    BY <2>4, <2>5, <2>6 DEF LoginsOf
  <2>7. CASE x \in Consumers(a)
    BY <1>5, <2>3, <2>6, <2>7 DEF OnceMove
  <2>8. CASE x \notin Consumers(a)
    <3>1. n \notin LoginsOf(a)'
      <4>1. h[x].op = "callback" \/ h[x].s # 0
        BY <1>1, <2>2 DEF Place, Op
      <4>2. h[x].op = "callback" => h[x].a # a
        BY <2>2, <2>8 DEF Consumers
      <4> QED BY <2>4, <4>1, <4>2 DEF LoginsOf
    <3>2. LoginsOf(a)' \subseteq LoginsOf(a)
      BY <2>6, <3>1
    <3> QED BY <1>5, <2>3, <3>2 DEF OnceMove
  <2> QED BY <2>7, <2>8
<1>7. CASE ~Inserts(x)
  <2>1. LoginsOf(a)' \subseteq LoginsOf(a)
    <3>1. ASSUME NEW s \in Ids
          PROVE  /\ pred'[s] = pred[s] /\ from'[s] = from[s]
                 /\ state'[s] # "unused" => state[s] # "unused"
      <4>1. CASE Deletes(x)
        BY <1>1, <4>1, DeleteType DEF Deletes, Live
      <4>2. CASE Writes(x)
        BY <4>2 DEF Writes
      <4> QED BY <1>1, <1>7, <4>1, <4>2, StepTables
    <3> QED BY <3>1 DEF LoginsOf
  <2>2. CASE h[x].pc = "take" /\ q.op # "none" /\ h[x].a = a
    BY <1>3, <1>4, <2>1, <2>2, TakeStep DEF OnceMove
  <2>3. CASE ~(h[x].pc = "take" /\ q.op # "none" /\ h[x].a = a)
    <3>1. x \in Consumers(a)' => x \in Consumers(a)
      <4> SUFFICES ASSUME q.op = "callback", q.a = a, q.pc \in {"resolve", "create"} PROVE x \in Consumers(a)
        BY <1>3 DEF Consumers
      <4>1. Follows(h[x], q)
        BY <1>2, NoRequestType
      <4>2. h[x].op = "callback" /\ h[x].a = a
        BY <4>1 DEF Follows
      <4>3. h[x].pc = "resolve"
        BY <1>1, <2>3, <4>1, <4>2 DEF Follows, Place
      <4> QED BY <4>2, <4>3 DEF Consumers
    <3>2. Consumers(a)' \subseteq Consumers(a)
      BY <1>4, <3>1
    <3> QED BY <1>5, <2>1, <3>2 DEF OnceMove
  <2> QED BY <2>2, <2>3
<1> QED BY <1>6, <1>7

\* Every step keeps OnceInv.
LEMMA OnceKept ==
  ASSUME BaseInv, LinkInv, OnceInv, [Next]_vars
  PROVE  OnceInv'
<1> SUFFICES ASSUME NEW a \in Attempts PROVE OnceMove(a)
  BY OnceMoveKeeps
<1>1. CASE \E x \in Handlers : Step(x)
  BY <1>1, StepOnce
<1>2. CASE ~\E x \in Handlers : Step(x)
  <2>1. LoginsOf(a)' \subseteq LoginsOf(a)
    BY <1>2, OnlyInsertMakes DEF LoginsOf
  <2>2. Consumers(a)' \subseteq Consumers(a) /\ (attempt[a] = "gone" => attempt'[a] = "gone")
    <3>1. ASSUME NEW x \in Handlers, NEW q \in Request, h' = [h EXCEPT ![x] = q], q.pc \in {"auth", "find"}
          PROVE  Consumers(a)' \subseteq Consumers(a)
      <4>1. h'[x] = q /\ \A y \in Handlers : y # x => h'[y] = h[y]
        BY <3>1 DEF BaseInv, TypeOK
      <4> QED BY <3>1, <4>1 DEF Consumers
    <3>2. ASSUME NEW x \in Handlers, Begin(x) PROVE Consumers(a)' \subseteq Consumers(a) /\ attempt' = attempt
      <4>1. \E q \in Request : q.pc = "auth" /\ h' = [h EXCEPT ![x] = q]
        BY <3>2, BeginRequest
      <4> QED BY <3>1, <3>2, <4>1 DEF Begin
    <3>3. ASSUME NEW x \in Handlers, NEW b \in Attempts, BeginCallback(x, b)
          PROVE  Consumers(a)' \subseteq Consumers(a) /\ attempt' = attempt
      <4>1. \E q \in Request : q.pc = "find" /\ h' = [h EXCEPT ![x] = q]
        BY <3>3, BeginCallbackRequest
      <4> QED BY <3>1, <3>3, <4>1 DEF BeginCallback
    <3>4. CASE Outside \/ UNCHANGED vars
      <4>1. /\ h' = h \/ h' = [x \in Handlers |-> NoRequest]
            /\ attempt[a] = "gone" => attempt'[a] = "gone"
        BY <3>4, OutsideKeeps
      <4> QED BY <4>1, NoRequestType DEF Consumers
    <3> QED BY <1>2, <3>2, <3>3, <3>4, NextSplit
  <2> QED BY <2>1, <2>2 DEF OnceMove
<1> QED BY <1>1, <1>2

\* However often and however close together a browser comes back with the state of an attempt,
\* at most one callback gets past consumeLoginAttempt and at most one session results: the
\* delete raises for all but the first, and no attempt comes back (SessionService).
THEOREM AttemptAlwaysUsedOnce == Spec => []AttemptUsedOnce
<1> DEFINE IInv == BaseInv /\ LinkInv /\ OnceInv
<1>1. Init => IInv
  <2> SUFFICES ASSUME Init PROVE OnceInv
    BY InitBase, InitLinks
  <2>1. \A a \in Attempts : Consumers(a) = {} /\ LoginsOf(a) = {}
    BY NoRequestType DEF Init, Consumers, LoginsOf
  <2> QED BY <2>1 DEF OnceInv
<1>2. IInv /\ [Next]_vars => IInv'
  BY NextBase, LinkKept, OnceKept
<1>3. IInv => AttemptUsedOnce
  <2> SUFFICES ASSUME OnceInv, NEW a \in Attempts
               PROVE  Cardinality(Consumers(a)) + Cardinality(LoginsOf(a)) <= 1
    BY DEF AttemptUsedOnce
  <2>1. ASSUME NEW S, \A x, y \in S : x = y PROVE S = {} \/ \E x : S = {x}
    BY <2>1
  <2>2. \A S : (\A x, y \in S : x = y) => Cardinality(S) \in {0, 1}
    BY <2>1, FS_EmptySet, FS_Singleton
  <2>3. /\ Consumers(a) = {} \/ LoginsOf(a) = {}
        /\ \A x, y \in Consumers(a) : x = y
        /\ \A s, t \in LoginsOf(a) : s = t
    BY DEF OnceInv
  <2>4. Cardinality(Consumers(a)) \in {0, 1} /\ Cardinality(LoginsOf(a)) \in {0, 1}
    BY <2>2, <2>3
  <2>5. Cardinality({}) = 0
    BY FS_EmptySet
  <2> QED BY <2>3, <2>4, <2>5
<1> QED BY <1>1, <1>2, <1>3, PTL DEF Spec

-----------------------------------------------------------------------------
(* The refresh token of a row is the one Asgardeo accepts *)

Updates(x, s) == h[x].s = s /\ h[x].pc = "update"
Newer(x, s)   == Updates(x, s) /\ h[x].token = row[s].current
Destroys(x, s) == h[x].s = s /\ h[x].pc = "destroy"

\* Of a session: whoever is about to refresh read a token the row has had; the row is behind
\* Asgardeo only while the one request that brings the newer token is about to store it; a
\* session that was revoked is about to be deleted.
Tok(s) ==
  /\ \A x \in Handlers : h[x].s = s /\ h[x].pc = "refresh" => h[x].token <= row[s].refresh
  /\ row[s].refresh <= row[s].current
  /\ row[s].refresh # row[s].current => \E x \in Handlers : Newer(x, s)
  /\ \A x \in Handlers : Updates(x, s) => \/ h[x].token = NoToken
                                          \/ Newer(x, s) /\ row[s].refresh # row[s].current
  /\ \A x, y \in Handlers : Newer(x, s) /\ Newer(y, s) => x = y
  /\ row[s].revoked => \E x \in Handlers : Destroys(x, s)

TokenInv == faults = 0 /\ stops = 0 => \A s \in Ids : Live(s) => Tok(s)

\* What the step does not concern.
SameTokens(s) ==
  /\ row'[s].refresh = row[s].refresh /\ row'[s].current = row[s].current
  /\ row'[s].revoked = row[s].revoked

\* A session keeps Tok when neither its tokens nor its requests change.
LEMMA TokUntouched ==
  ASSUME NEW s \in Ids, Tok(s), SameTokens(s),
         \A y \in Handlers :
           \/ h'[y] = h[y]
           \/ /\ ~Updates(y, s) /\ ~Destroys(y, s)
              /\ ~(h'[y].s = s /\ h'[y].pc = "update")
              /\ h'[y].s = s /\ h'[y].pc = "refresh" => h'[y].token = row[s].refresh,
         row[s].refresh \in Nat
  PROVE  Tok(s)'
<1> DEFINE f == row[s].refresh
           c == row[s].current
<1>1. row'[s].refresh = f /\ row'[s].current = c /\ row'[s].revoked = row[s].revoked
  BY DEF SameTokens
<1>2. \A y \in Handlers : /\ Updates(y, s)' => h'[y] = h[y] /\ Updates(y, s)
                          /\ Updates(y, s) \/ Destroys(y, s) => h'[y] = h[y]
  BY DEF Updates
<1>3. \A y \in Handlers : /\ Newer(y, s) => Newer(y, s)' /\ h'[y] = h[y]
                          /\ Newer(y, s)' => Newer(y, s)
  BY <1>1, <1>2 DEF Newer, Updates
<1>4. \A y \in Handlers : Destroys(y, s) => Destroys(y, s)'
  BY <1>2 DEF Destroys
<1>5. \A y \in Handlers : h'[y].s = s /\ h'[y].pc = "refresh" => h'[y].token <= f
  BY DEF Tok
<1>6. \A y \in Handlers : Updates(y, s)' => h'[y].token = NoToken \/ (Newer(y, s)' /\ f # c)
  BY <1>2, <1>3 DEF Tok
<1> HIDE DEF f, c
<1>7. f <= c /\ (f # c => \E x \in Handlers : Newer(x, s)')
  BY <1>3 DEF Tok, f, c
<1>8. \A x, y \in Handlers : Newer(x, s)' /\ Newer(y, s)' => x = y
  BY <1>3 DEF Tok
<1>9. row'[s].revoked => \E x \in Handlers : Destroys(x, s)'
  BY <1>1, <1>4 DEF Tok
<1>10. \A x \in Handlers : h'[x].s = s /\ h'[x].pc = "refresh" => h'[x].token <= row'[s].refresh
  BY <1>1, <1>5
<1>11. /\ row'[s].refresh <= row'[s].current
       /\ row'[s].refresh # row'[s].current => \E x \in Handlers : Newer(x, s)'
  BY <1>1, <1>7, Zenon
<1>12. \A x \in Handlers : Updates(x, s)' => \/ h'[x].token = NoToken
                                             \/ Newer(x, s)' /\ row'[s].refresh # row'[s].current
  BY <1>1, <1>6, Zenon
<1> QED BY <1>8, <1>9, <1>10, <1>11, <1>12, Zenon DEF Tok

\* A session nobody asks about yet.
LEMMA TokNew ==
  ASSUME NEW s \in Ids, NEW o \in Orgs, row'[s] = NewRow(o), \A x \in Handlers : h'[x].s # s
  PROVE  Tok(s)'
BY NewRowType DEF Tok, Updates, Newer

\* A step of a request touches the tokens of no session but its own.
LEMMA StepTokOthers ==
  ASSUME BaseInv, LinkInv, NEW x \in Handlers, Step(x),
         \A s \in Ids : Live(s) => Tok(s), NEW s \in Ids, s # h[x].s, Live(s)'
  PROVE  Tok(s)'
<1>1. TypeOK /\ PlaceInv /\ row[s] \in Row
  BY DEF BaseInv, TypeOK
<1>2. row[s].refresh \in Nat
  <2>1. row[s].refresh \in 0 .. MaxRotations
    BY <1>1, RowFields
  <2> QED BY <2>1, BoundTypes
<1>3. PICK q \in Request : h' = [h EXCEPT ![x] = q] /\ (q = NoRequest \/ Follows(h[x], q))
  BY <1>1, StepRequest
<1>4. h'[x] = q /\ q.s \in {0, h[x].s} /\ \A y \in Handlers : y # x => h'[y] = h[y]
  BY <1>1, <1>3, NoRequestType DEF TypeOK, Follows
<1>5. s # 0
  BY BoundTypes DEF Ids
<1>6. ASSUME row'[s] = row[s], Live(s) PROVE Tok(s)'
  <2>1. \A y \in Handlers :
           \/ h'[y] = h[y]
           \/ /\ ~Updates(y, s) /\ ~Destroys(y, s)
              /\ ~(h'[y].s = s /\ h'[y].pc = "update")
              /\ h'[y].s = s /\ h'[y].pc = "refresh" => h'[y].token = row[s].refresh
    BY <1>4, <1>5 DEF Updates, Destroys
  <2>2. SameTokens(s)
    BY <1>6 DEF SameTokens
  <2>3. Tok(s)
    BY <1>6
  <2> QED BY <1>2, <2>1, <2>2, <2>3, TokUntouched
<1>7. CASE Deletes(x)
  BY <1>1, <1>6, <1>7, DeleteType DEF Deletes, Live
<1>8. CASE Writes(x)
  BY <1>6, <1>8 DEF Writes, RowOnly, Live
<1>9. CASE Inserts(x)
  <2>1. PICK n \in Ids : Fresh(n) /\ Insert(x, n)
    BY <1>9 DEF Inserts
  <2>2. /\ row'[n] = NewRow(h[x].org) /\ h[x].org \in Orgs
        /\ \A t \in Ids : t # n /\ t # h[x].s => state'[t] = state[t] /\ row'[t] = row[t]
    BY <1>1, <2>1, InsertType, StepSession
  <2>3. CASE s = n
    <3>1. \A y \in Handlers : h[y].s # n
      BY <1>5, <2>1, <2>3 DEF LinkInv, Issued, Fresh
    <3>2. \A y \in Handlers : h'[y].s # n
      BY <1>4, <1>5, <2>3, <3>1
    <3> QED BY <2>2, <2>3, <3>2, TokNew
  <2>4. CASE s # n
    BY <1>6, <2>2, <2>4 DEF Live
  <2> QED BY <2>3, <2>4
<1> QED BY <1>1, <1>7, <1>8, <1>9, StepTables

\* What Asgardeo accepts and what the row keeps move in turn, unless an answer is lost.
LEMMA RefreshTok ==
  ASSUME BaseInv, NEW x \in Handlers, Refresh(x), faults' = faults,
         NEW s \in Ids, s = h[x].s, Live(s), Tok(s)
  PROVE  Tok(s)'
<1> DEFINE f == row[s].refresh
           c == row[s].current
<1>1. h \in [Handlers -> Request] /\ h[x] \in Request /\ row \in [Ids -> Row] /\ row[s] \in Row
  BY DEF BaseInv, TypeOK
<1>2. f \in 0 .. MaxRotations /\ c \in 0 .. MaxRotations /\ h[x].token \in 0 .. MaxRotations + 1
  BY <1>1, RowFields, RequestFields
<1>3. h[x].pc = "refresh" /\ ~Fault
  <2>1. faults \in Nat
    BY DEF BaseInv, TypeOK
  <2> QED BY <2>1 DEF Refresh, Fault
<1>4. ~Updates(x, s) /\ ~Destroys(x, s)
  BY <1>3 DEF Updates, Destroys
<1>5. CASE Done(x) /\ UNCHANGED row
  <2>1. h'[x] = NoRequest /\ \A y \in Handlers : y # x => h'[y] = h[y]
    BY <1>1, <1>5 DEF Done
  <2>2. SameTokens(s)
    BY <1>5 DEF SameTokens
  <2>3. f \in Nat
    BY <1>2, BoundTypes
  <2>4. \A y \in Handlers :
           \/ h'[y] = h[y]
           \/ /\ ~Updates(y, s) /\ ~Destroys(y, s)
              /\ ~(h'[y].s = s /\ h'[y].pc = "update")
              /\ h'[y].s = s /\ h'[y].pc = "refresh" => h'[y].token = row[s].refresh
    BY <1>4, <2>1, NoRequestType
  <2> QED BY <2>2, <2>3, <2>4, TokUntouched
<1>6. CASE ~(Done(x) /\ UNCHANGED row)
  <2>1. h[x].token = c /\ ~row[s].revoked
    BY <1>3, <1>6 DEF Refresh
  <2>2. h[x].token <= f /\ f <= c
    BY <1>3 DEF Tok
  <2>3. f = c
    BY <1>2, <2>1, <2>2, BoundTypes
  <2>4. \A y \in Handlers : Updates(y, s) => h[y].token = NoToken
    BY <2>3 DEF Tok
  <2>5. \A y \in Handlers : h[y].s = s /\ h[y].pc = "refresh" => h[y].token <= f
    BY DEF Tok
  <2>6. ASSUME NEW t, h' = [h EXCEPT ![x].token = t, ![x].pc = "update"]
        PROVE  /\ h'[x].s = s /\ h'[x].pc = "update" /\ h'[x].token = t
               /\ \A y \in Handlers : y # x => h'[y] = h[y]
    BY <1>1, <2>6 DEF Request
  <2>7. CASE h' = [h EXCEPT ![x].token = NoToken, ![x].pc = "update"] /\ UNCHANGED row
    <3>1. /\ h'[x].pc = "update" /\ h'[x].token = NoToken
          /\ \A y \in Handlers : y # x => h'[y] = h[y]
      BY <2>6, <2>7
    <3>2. row'[s].refresh = f /\ row'[s].current = f /\ ~row'[s].revoked
      BY <2>1, <2>3, <2>7
    <3>3. \A y \in Handlers : Updates(y, s)' => h'[y].token = NoToken
      BY <2>4, <3>1 DEF Updates
    <3>4. \A y \in Handlers : ~Newer(y, s)'
      <4>1. NoToken # f
        BY <1>2, BoundTypes
      <4> HIDE DEF f
      <4> QED BY <3>2, <3>3, <4>1 DEF Newer
    <3>5. \A y \in Handlers : h'[y].s = s /\ h'[y].pc = "refresh" => h'[y].token <= f
      BY <2>5, <3>1
    <3>6. f <= f
      BY <1>2, BoundTypes
    <3> HIDE DEF f
    <3> QED BY <3>2, <3>3, <3>4, <3>5, <3>6 DEF Tok
  <2>8. CASE /\ h[x].token < MaxRotations
             /\ h' = [h EXCEPT ![x].token = @ + 1, ![x].pc = "update"]
             /\ row' = [row EXCEPT ![s].current = @ + 1]
    <3>1. /\ h'[x].s = s /\ h'[x].pc = "update" /\ h'[x].token = c + 1
          /\ \A y \in Handlers : y # x => h'[y] = h[y]
      BY <1>1, <2>1, <2>8 DEF Request
    <3>2. row'[s].refresh = f /\ row'[s].current = f + 1 /\ row'[s].revoked = row[s].revoked
      BY <1>1, <2>3, <2>8 DEF Row
    <3>3. \A y \in Handlers : y # x /\ Updates(y, s)' => h'[y].token = NoToken
      BY <2>4, <3>1 DEF Updates
    <3>4. Newer(x, s)'
      BY <2>3, <3>1, <3>2 DEF Newer, Updates
    <3>5. \A y \in Handlers : Newer(y, s)' => y = x
      <4>1. f + 1 # NoToken
        BY <1>2, <2>1, <2>3, <2>8, BoundTypes DEF NoToken
      <4> HIDE DEF f
      <4> QED BY <3>2, <3>3, <4>1 DEF Newer
    <3>6. \A y \in Handlers : h'[y].s = s /\ h'[y].pc = "refresh" => h'[y].token <= f
      BY <2>5, <3>1
    <3>7. f <= f + 1 /\ f # f + 1
      BY <1>2, BoundTypes
    <3> HIDE DEF f
    <3> QED BY <2>1, <3>2, <3>3, <3>4, <3>5, <3>6, <3>7 DEF Tok
  <2> QED BY <1>3, <1>6, <2>7, <2>8 DEF Refresh
<1> QED BY <1>5, <1>6

\* Storing the refreshed tokens keeps Tok.
LEMMA UpdateTok ==
  ASSUME BaseInv, NEW x \in Handlers, UpdateTokens(x), NEW s \in Ids, s = h[x].s, Live(s), Tok(s)
  PROVE  Tok(s)'
<1> DEFINE f == row[s].refresh
           c == row[s].current
           t == h[x].token
<1>1. h \in [Handlers -> Request] /\ h[x] \in Request /\ row \in [Ids -> Row] /\ row[s] \in Row
  BY DEF BaseInv, TypeOK
<1>2. f \in 0 .. MaxRotations /\ c \in 0 .. MaxRotations /\ NoToken \notin 0 .. MaxRotations
  BY <1>1, RowFields, BoundTypes
<1>3. h[x].pc = "update" /\ StoreTokens(x) /\ Goto(x, "resolve")
  BY DEF UpdateTokens
<1>4. h'[x].pc = "resolve" /\ \A y \in Handlers : y # x => h'[y] = h[y]
  BY <1>1, <1>3 DEF Goto, Request
<1>5. Updates(x, s)
  BY <1>3 DEF Updates
<1>6. t = NoToken \/ (t = c /\ Newer(x, s) /\ f # c)
  BY <1>5 DEF Tok, Newer
<1>7. /\ row'[s].current = c /\ row'[s].revoked = row[s].revoked
      /\ t = NoToken => row'[s].refresh = f
      /\ t # NoToken => row'[s].refresh = t
  BY <1>1, <1>3 DEF StoreTokens, Row
<1>8. /\ f <= c /\ (f # c => \E y \in Handlers : Newer(y, s))
      /\ \A y \in Handlers : h[y].s = s /\ h[y].pc = "refresh" => h[y].token <= f
      /\ \A y \in Handlers : Updates(y, s) => h[y].token = NoToken \/ (Newer(y, s) /\ f # c)
      /\ \A y, z \in Handlers : Newer(y, s) /\ Newer(z, s) => y = z
  BY DEF Tok
<1>9. \A y \in Handlers : Updates(y, s)' => y # x /\ h'[y] = h[y] /\ Updates(y, s)
  BY <1>4 DEF Updates
<1>10. \A y \in Handlers : Newer(y, s)' => y # x /\ h'[y] = h[y] /\ Newer(y, s)
  BY <1>7, <1>9 DEF Newer
<1>11. \A y \in Handlers : y # x /\ Newer(y, s) => Newer(y, s)'
  BY <1>4, <1>7 DEF Newer, Updates
<1>12. row'[s].revoked => \E y \in Handlers : Destroys(y, s)'
  <2>1. \A y \in Handlers : Destroys(y, s) => Destroys(y, s)'
    BY <1>3, <1>4 DEF Destroys
  <2> QED BY <1>7, <2>1 DEF Tok
<1>13. \A y \in Handlers : h'[y].s = s /\ h'[y].pc = "refresh" => h[y].s = s /\ h[y].pc = "refresh" /\ h'[y].token = h[y].token
  BY <1>4
<1>14. CASE t = NoToken
  <2>1. ~Newer(x, s)
    BY <1>2, <1>14 DEF Newer
  <2>2. row'[s].refresh = f
    BY <1>7, <1>14
  <2> HIDE DEF f, c, t
  <2>3. \A y \in Handlers : h'[y].s = s /\ h'[y].pc = "refresh" => h'[y].token <= row'[s].refresh
    BY <1>8, <1>13, <2>2
  <2>4. row'[s].refresh <= row'[s].current /\ (row'[s].refresh # row'[s].current => \E y \in Handlers : Newer(y, s)')
    BY <1>7, <1>8, <1>11, <2>1, <2>2
  <2>5. \A y \in Handlers : Updates(y, s)' => h'[y].token = NoToken \/ (Newer(y, s)' /\ row'[s].refresh # row'[s].current)
    BY <1>7, <1>8, <1>9, <1>11, <2>2
  <2>6. \A y, z \in Handlers : Newer(y, s)' /\ Newer(z, s)' => y = z
    BY <1>8, <1>10
  <2> QED BY <1>12, <2>3, <2>4, <2>5, <2>6, Zenon DEF Tok
<1>15. CASE t # NoToken
  <2>1. Newer(x, s) /\ row'[s].refresh = c /\ f <= c
    BY <1>6, <1>7, <1>8, <1>15
  <2>2. \A y \in Handlers : ~Newer(y, s)'
    BY <1>8, <1>10, <2>1
  <2>3. \A y \in Handlers : Updates(y, s)' => h'[y].token = NoToken
    BY <1>8, <1>9, <2>1
  <2>4. \A y \in Handlers : h'[y].s = s /\ h'[y].pc = "refresh" => h'[y].token <= c
    <3>1. ASSUME NEW y \in Handlers, h[y].s = s, h[y].pc = "refresh" PROVE h[y].token <= c
      <4>1. h[y].token \in 0 .. MaxRotations + 1
        BY <1>1, RequestFields
      <4>2. h[y].token <= f
        BY <1>8, <3>1
      <4> HIDE DEF f, c
      <4> QED BY <1>2, <2>1, <4>1, <4>2, BoundTypes
    <3> QED BY <1>13, <3>1
  <2>5. c <= c
    BY <1>2, BoundTypes
  <2> HIDE DEF f, c, t
  <2> QED BY <1>7, <1>12, <2>1, <2>2, <2>3, <2>4, <2>5 DEF Tok
<1> QED BY <1>14, <1>15

\* A revocation keeps Tok: its logout is about to delete the row.
LEMMA RevokeTok ==
  ASSUME BaseInv, NEW x \in Handlers, Revoke(x), faults' = faults,
         NEW s \in Ids, s = h[x].s, Live(s), Tok(s)
  PROVE  Tok(s)'
<1>1. h \in [Handlers -> Request] /\ h[x] \in Request /\ row \in [Ids -> Row] /\ row[s] \in Row
  BY DEF BaseInv, TypeOK
<1>2. row[s].refresh \in Nat
  <2>1. row[s].refresh \in 0 .. MaxRotations
    BY <1>1, RowFields
  <2> QED BY <2>1, BoundTypes
<1>3. h[x].pc = "revoke"
  BY DEF Revoke
<1>4. ~Updates(x, s) /\ ~Destroys(x, s)
  BY <1>3 DEF Updates, Destroys
<1>5. CASE Done(x) /\ UNCHANGED row
  <2>1. h'[x] = NoRequest /\ \A y \in Handlers : y # x => h'[y] = h[y]
    BY <1>1, <1>5 DEF Done
  <2>2. SameTokens(s)
    BY <1>5 DEF SameTokens
  <2>3. \A y \in Handlers :
           \/ h'[y] = h[y]
           \/ /\ ~Updates(y, s) /\ ~Destroys(y, s)
              /\ ~(h'[y].s = s /\ h'[y].pc = "update")
              /\ h'[y].s = s /\ h'[y].pc = "refresh" => h'[y].token = row[s].refresh
    BY <1>4, <2>1, NoRequestType
  <2> QED BY <1>2, <2>2, <2>3, TokUntouched
<1>6. CASE RevokeToken(x) /\ Goto(x, "destroy")
  <2>1. h'[x].s = s /\ h'[x].pc = "destroy" /\ \A y \in Handlers : y # x => h'[y] = h[y]
    BY <1>1, <1>6 DEF Goto, Request
  <2>2. row'[s].refresh = row[s].refresh /\ row'[s].current = row[s].current
    BY <1>1, <1>6 DEF RevokeToken, Row
  <2>3. \A y \in Handlers : Updates(y, s)' <=> Updates(y, s)
    BY <1>4, <2>1 DEF Updates
  <2>4. \A y \in Handlers : Updates(y, s) => h'[y] = h[y]
    BY <1>4, <2>1
  <2>5. \A y \in Handlers : Newer(y, s)' <=> Newer(y, s)
    BY <2>2, <2>3, <2>4 DEF Newer
  <2>6. \A y \in Handlers : h'[y].s = s /\ h'[y].pc = "refresh" => h'[y].token <= row[s].refresh
    BY <2>1 DEF Tok
  <2>7. \A y \in Handlers : Updates(y, s)' => h'[y].token = NoToken \/ (Newer(y, s)' /\ row[s].refresh # row[s].current)
    BY <2>3, <2>4, <2>5 DEF Tok
  <2>8. /\ row[s].refresh <= row[s].current
        /\ row[s].refresh # row[s].current => \E y \in Handlers : Newer(y, s)'
        /\ \A y, z \in Handlers : Newer(y, s)' /\ Newer(z, s)' => y = z
    BY <2>5 DEF Tok
  <2>9. Destroys(x, s)'
    BY <2>1 DEF Destroys
  <2> QED BY <2>2, <2>6, <2>7, <2>8, <2>9 DEF Tok
<1>7. ~Fault
  <2>1. faults \in Nat
    BY DEF BaseInv, TypeOK
  <2> QED BY <2>1 DEF Fault
<1> QED BY <1>5, <1>6, <1>7 DEF Revoke

\* A step of a request keeps Tok of its own session.
LEMMA StepTokOwn ==
  ASSUME BaseInv, LinkInv, NEW x \in Handlers, Step(x), faults' = faults,
         NEW s \in Ids, s = h[x].s, Live(s), Tok(s), Live(s)'
  PROVE  Tok(s)'
<1>1. /\ TypeOK /\ PlaceInv /\ h \in [Handlers -> Request] /\ h[x] \in Request /\ Place(h[x])
      /\ row \in [Ids -> Row] /\ row[s] \in Row /\ state \in [Ids -> {"unused", "live", "gone"}]
  BY DEF BaseInv, TypeOK, PlaceInv
<1>2. row[s].refresh \in Nat
  <2>1. row[s].refresh \in 0 .. MaxRotations
    BY <1>1, RowFields
  <2> QED BY <2>1, BoundTypes
<1>3. PICK q \in Request : h' = [h EXCEPT ![x] = q] /\ (q = NoRequest \/ Follows(h[x], q))
  BY <1>1, StepRequest
<1>4. h'[x] = q /\ \A y \in Handlers : y # x => h'[y] = h[y]
  BY <1>1, <1>3
<1>5. s # 0 /\ NoRequest.s # s
  BY BoundTypes, NoRequestType DEF Ids
<1>6. ASSUME SameTokens(s), h[x].pc \notin {"update", "destroy", "refresh"},
             q.pc = "refresh" => q = NoRequest \/ q.token = row[s].refresh
      PROVE  Tok(s)'
  <2>1. ~(q.s = s /\ q.pc = "update")
    BY <1>3, <1>5, <1>6 DEF Follows
  <2>2. \A y \in Handlers :
           \/ h'[y] = h[y]
           \/ /\ ~Updates(y, s) /\ ~Destroys(y, s)
              /\ ~(h'[y].s = s /\ h'[y].pc = "update")
              /\ h'[y].s = s /\ h'[y].pc = "refresh" => h'[y].token = row[s].refresh
    BY <1>4, <1>5, <1>6, <2>1 DEF Updates, Destroys
  <2> QED BY <1>2, <1>6, <2>2, TokUntouched
<1>7. CASE FindAttempt(x) \/ TakeAttempt(x) \/ DropAttempt(x)
  BY <1>1, <1>5, <1>7 DEF FindAttempt, TakeAttempt, DropAttempt, At, Place
<1>8. CASE Authenticate(x) \/ Resolve(x) \/ Answer(x)
  <2>1. SameTokens(s) /\ h[x].pc \in {"auth", "resolve", "audit"}
    BY <1>8 DEF Authenticate, Resolve, Answer, store, SameTokens
  <2>2. q.pc # "refresh"
    BY <1>3, <2>1, NoRequestType DEF Follows
  <2> QED BY <1>6, <2>1, <2>2
<1>9. CASE Touch(x)
  <2>1. SameTokens(s) /\ h[x].pc = "touch"
    <3>1. Renew(s) /\ h[x].pc = "touch"
      BY <1>9 DEF Touch
    <3> QED BY <1>1, <3>1 DEF Renew, SameTokens, Row
  <2>2. q.pc # "refresh"
    BY <1>3, <2>1, NoRequestType DEF Follows
  <2> QED BY <1>6, <2>1, <2>2
<1>10. CASE ReadStored(x)
  <2>1. SameTokens(s) /\ h[x].pc = "stored" /\ h[x].op \in {"logout", "switch"}
    BY <1>1, <1>10, RequestFields DEF ReadStored, store, SameTokens, Place, Op
  <2>2. \/ Done(x)
        \/ h' = [h EXCEPT ![x].token = row[s].refresh,
                           ![x].pc = IF h[x].op = "logout" THEN "revoke"
                                     ELSE IF row[s].stale THEN "refresh" ELSE "resolve"]
    BY <1>10, <2>1 DEF ReadStored
  <2>3. CASE Done(x)
    <3>1. q.pc # "refresh"
      BY <1>1, <1>4, <2>3, NoRequestType DEF Done
    <3> QED BY <1>6, <2>1, <3>1
  <2>4. CASE ~Done(x)
    <3>1. q.token = row[s].refresh
      BY <1>1, <1>4, <2>2, <2>4 DEF Request
    <3> QED BY <1>6, <2>1, <3>1
  <2> QED BY <2>3, <2>4
<1>11. CASE Evict(x) \/ Destroy(x)
  <2>1. Delete(s)
    BY <1>11 DEF Evict, Destroy
  <2> QED BY <1>1, <2>1, DeleteType DEF Live
<1>12. CASE CreateSession(x)
  <2>1. PICK n \in Ids : Fresh(n) /\ Insert(x, n)
    BY <1>12 DEF CreateSession
  <2>2. s # n
    BY <2>1 DEF Fresh, Live
  <2> QED BY <1>1, <2>1, <2>2, InsertType DEF Live
<1>13. ~Raises(x)
  <2>1. faults \in Nat
    BY DEF BaseInv, TypeOK
  <2> QED BY <2>1 DEF Raises, Fault
<1> QED BY <1>7, <1>8, <1>9, <1>10, <1>11, <1>12, <1>13, RefreshTok, UpdateTok, RevokeTok DEF Step

\* Only a failure counts as one, and failures and stops are never forgotten.
LEMMA CountsGrow ==
  ASSUME BaseInv, [Next]_vars
  PROVE  /\ faults' \in {faults, faults + 1} /\ stops' \in {stops, stops + 1}
         /\ stops' = stops => ~ManagerStops
<1>1. ASSUME NEW x \in Handlers, Step(x) PROVE faults' \in {faults, faults + 1} /\ stops' = stops
  BY <1>1, StepTables DEF BaseInv
<1>2. ASSUME NEW x \in Handlers, Begin(x) \/ \E a \in Attempts : BeginCallback(x, a)
      PROVE  faults' = faults /\ stops' = stops
  BY <1>2 DEF Begin, BeginCallback
<1>3. ASSUME Outside \/ UNCHANGED vars
      PROVE  faults' \in {faults, faults + 1} /\ stops' \in {stops, stops + 1}
  <2>1. ASSUME NEW a \in Attempts, BeginLogin(a) \/ AttemptExpires(a) PROVE faults' = faults /\ stops' = stops
    BY <2>1 DEF BeginLogin, AttemptExpires
  <2>2. ASSUME NEW s \in Ids, AccessTokenExpires(s) PROVE faults' = faults /\ stops' = stops
    BY <2>2 DEF AccessTokenExpires
  <2>3. ASSUME NEW o \in Orgs, Suspend(o) PROVE faults' = faults /\ stops' = stops
    BY <2>3 DEF Suspend
  <2>4. CASE Discover
    <3>1. (NoFault \/ Fault) /\ stops' = stops
      BY <2>4 DEF Discover
    <3> QED BY <3>1 DEF NoFault, Fault
  <2>5. CASE ManagerStops \/ Tick \/ Cleanup \/ UNCHANGED vars
    BY <2>5 DEF ManagerStops, Tick, Cleanup, vars
  <2> QED BY <1>3, <2>1, <2>2, <2>3, <2>4, <2>5 DEF Outside
<1>4. stops' = stops => ~ManagerStops
  <2>1. stops \in Nat
    BY DEF BaseInv, TypeOK
  <2> QED BY <2>1 DEF ManagerStops
<1> QED BY <1>1, <1>2, <1>3, <1>4, NextSplit

\* Time and the cleanup touch no token of a session that stays.
LEMMA OutsideTokens ==
  ASSUME BaseInv, Outside \/ UNCHANGED vars, ~ManagerStops, NEW s \in Ids, Live(s)'
  PROVE  Live(s) /\ SameTokens(s) /\ h' = h
<1>1. row \in [Ids -> Row] /\ row[s] \in Row /\ state \in [Ids -> {"unused", "live", "gone"}]
  BY DEF BaseInv, TypeOK
<1>2. CASE Cleanup
  BY <1>1, <1>2 DEF Cleanup, Live, SameTokens
<1>3. CASE Tick
  BY <1>1, <1>3 DEF Tick, Live, SameTokens, Row
<1>4. ASSUME NEW t \in Ids, AccessTokenExpires(t) PROVE Live(s) /\ SameTokens(s) /\ h' = h
  <2>1. row[t] \in Row
    BY DEF BaseInv, TypeOK
  <2> QED BY <1>1, <1>4, <2>1 DEF AccessTokenExpires, Live, SameTokens, Row
<1>5. ASSUME NEW a \in Attempts, BeginLogin(a) \/ AttemptExpires(a) PROVE Live(s) /\ SameTokens(s) /\ h' = h
  BY <1>5 DEF BeginLogin, AttemptExpires, store, Live, SameTokens
<1>6. ASSUME NEW o \in Orgs, Suspend(o) PROVE Live(s) /\ SameTokens(s) /\ h' = h
  BY <1>6 DEF Suspend, store, Live, SameTokens
<1>7. CASE Discover \/ UNCHANGED vars
  BY <1>7 DEF Discover, store, vars, Live, SameTokens
<1> QED BY <1>2, <1>3, <1>4, <1>5, <1>6, <1>7 DEF Outside

\* Every step keeps TokenInv.
LEMMA TokenKept ==
  ASSUME BaseInv, LinkInv, TokenInv, [Next]_vars
  PROVE  TokenInv'
<1> SUFFICES ASSUME faults' = 0, stops' = 0, NEW s \in Ids, Live(s)' PROVE Tok(s)'
  BY DEF TokenInv
<1>1. faults = 0 /\ stops = 0 /\ ~ManagerStops
  <2>1. faults \in Nat /\ stops \in Nat
    BY DEF BaseInv, TypeOK
  <2> QED BY <2>1, CountsGrow
<1>2. \A t \in Ids : Live(t) => Tok(t)
  BY <1>1 DEF TokenInv
<1>3. row[s].refresh \in Nat
  <2>1. row[s] \in Row
    BY DEF BaseInv, TypeOK
  <2>2. row[s].refresh \in 0 .. MaxRotations
    BY <2>1, RowFields
  <2> QED BY <2>2, BoundTypes
<1>4. ASSUME NEW x \in Handlers, Step(x) PROVE Tok(s)'
  <2>1. CASE s # h[x].s
    BY <1>2, <1>4, <2>1, StepTokOthers
  <2>2. CASE s = h[x].s
    <3>1. Live(s)
      <4>1. state[s] # "unused" /\ state[s] # "gone" /\ s # 0
        BY <2>2, StateGrows DEF LinkInv, Issued, Live
      <4> QED BY <4>1 DEF BaseInv, TypeOK, Live
    <3>2. faults' = faults
      BY <1>1
    <3> QED BY <1>2, <1>4, <2>2, <3>1, <3>2, StepTokOwn
  <2> QED BY <2>1, <2>2
<1>5. ASSUME NEW x \in Handlers, NEW q \in Request, h' = [h EXCEPT ![x] = q], q.pc \in {"auth", "find"},
             h[x].op = "none", UNCHANGED store
      PROVE  Tok(s)'
  <2>1. h'[x] = q /\ \A y \in Handlers : y # x => h'[y] = h[y]
    BY <1>5 DEF BaseInv, TypeOK
  <2>2. h[x].pc = "idle"
    BY <1>5 DEF BaseInv, PlaceInv, Place
  <2>3. \A y \in Handlers :
           \/ h'[y] = h[y]
           \/ /\ ~Updates(y, s) /\ ~Destroys(y, s)
              /\ ~(h'[y].s = s /\ h'[y].pc = "update")
              /\ h'[y].s = s /\ h'[y].pc = "refresh" => h'[y].token = row[s].refresh
    BY <1>5, <2>1, <2>2 DEF Updates, Destroys
  <2>4. SameTokens(s) /\ Live(s)
    BY <1>5 DEF store, SameTokens, Live
  <2> QED BY <1>2, <1>3, <2>3, <2>4, TokUntouched
<1>6. ASSUME NEW x \in Handlers, Begin(x) PROVE Tok(s)'
  <2>1. \E q \in Request : q.pc = "auth" /\ h[x].op = "none" /\ h' = [h EXCEPT ![x] = q]
    BY <1>6, BeginRequest
  <2> QED BY <1>5, <1>6, <2>1 DEF Begin
<1>7. ASSUME NEW x \in Handlers, NEW a \in Attempts, BeginCallback(x, a) PROVE Tok(s)'
  <2>1. \E q \in Request : q.pc = "find" /\ h[x].op = "none" /\ h' = [h EXCEPT ![x] = q]
    BY <1>7, BeginCallbackRequest
  <2> QED BY <1>5, <1>7, <2>1 DEF BeginCallback
<1>8. CASE Outside \/ UNCHANGED vars
  <2>1. Live(s) /\ SameTokens(s) /\ h' = h
    BY <1>1, <1>8, OutsideTokens
  <2> QED BY <1>2, <1>3, <2>1, TokUntouched
<1> QED BY <1>4, <1>6, <1>7, <1>8, NextSplit

\* Without failures and stops the refresh token in a row is the one Asgardeo accepts, unless a
\* switch is about to store a newer one or a logout is about to delete the row.  Two switches
\* cannot both be given a token: the one that refreshes second holds a token the row had
\* before, which Asgardeo does not accept any more (AuthService.switchOrganization).
THEOREM TokensAlwaysFollow == Spec => []TokensFollow
<1> DEFINE IInv == BaseInv /\ LinkInv /\ TokenInv
<1>1. Init => IInv
  <2> SUFFICES ASSUME Init PROVE TokenInv
    BY InitBase, InitLinks
  <2> QED BY DEF Init, TokenInv, Live
<1>2. IInv /\ [Next]_vars => IInv'
  BY NextBase, LinkKept, TokenKept
<1>3. IInv => TokensFollow
  <2> SUFFICES ASSUME BaseInv, TokenInv, faults = 0, stops = 0, NEW s \in Ids, Live(s)
               PROVE  \/ row[s].refresh = row[s].current /\ ~row[s].revoked
                      \/ \E x \in Handlers : h[x].s = s /\ (At(x, "switch", "update") \/ At(x, "logout", "destroy"))
    BY DEF TokensFollow
  <2>1. Tok(s)
    BY DEF TokenInv
  <2>2. ASSUME NEW x \in Handlers, Updates(x, s) PROVE h[x].s = s /\ At(x, "switch", "update")
    <3>1. Place(h[x]) /\ h[x].op \in Op
      BY RequestFields DEF BaseInv, TypeOK, PlaceInv
    <3> QED BY <2>2, <3>1 DEF Updates, At, Place, Op
  <2>3. ASSUME NEW x \in Handlers, Destroys(x, s) PROVE h[x].s = s /\ At(x, "logout", "destroy")
    <3>1. Place(h[x]) /\ h[x].op \in Op
      BY RequestFields DEF BaseInv, TypeOK, PlaceInv
    <3> QED BY <2>3, <3>1 DEF Destroys, At, Place, Op
  <2> QED BY <2>1, <2>2, <2>3 DEF Tok, Newer
<1> QED BY <1>1, <1>2, <1>3, PTL DEF Spec

-----------------------------------------------------------------------------
(* Requests that follow each other *)

\* While no requests overlap and nothing fails: one request at most is served, it is about the
\* session in the cookie (a login begins without one), and the only session in the table is
\* the cookie's, or the one that the answer to be sent will put there; a logout that is to be
\* answered has left none.
CalmInv ==
  calm =>
    /\ \A x, y \in Handlers : h[x].op # "none" /\ h[y].op # "none" => x = y
    /\ \A x \in Handlers : /\ h[x].op = "callback" => cookie = 0
                           /\ h[x].op \notin {"none", "callback"} => h[x].s = cookie
    /\ (\A x \in Handlers : h[x].pc # "audit") => \A s \in Ids : Live(s) => s = cookie
    /\ \A x \in Handlers : h[x].pc = "audit" =>
         \A s \in Ids : Live(s) => s = h[x].new /\ h[x].op # "logout"

\* A step without failure: the insert, the delete and the answer are those of the request's place.
LEMMA StepPlain ==
  ASSUME NEW x \in Handlers, Step(x), calm'
  PROVE  /\ calm /\ ~Raises(x)
         /\ h[x].pc = "create" => CreateSession(x)
         /\ h[x].pc = "destroy" => Destroy(x)
         /\ h[x].pc = "audit" => Answer(x)
<1>1. ~Raises(x)
  BY DEF Raises, Fault
<1>2. calm
  BY <1>1 DEF Step, FindAttempt, TakeAttempt, DropAttempt, Authenticate, Evict, Touch, Resolve, CreateSession,
              Answer, ReadStored, Revoke, Destroy, Refresh, UpdateTokens, NoFault, Fault
<1>3. /\ h[x].pc = "create" => CreateSession(x)
      /\ h[x].pc = "destroy" => Destroy(x)
      /\ h[x].pc = "audit" => Answer(x)
  BY <1>1 DEF Step, FindAttempt, TakeAttempt, DropAttempt, Authenticate, Evict, Touch, Resolve, CreateSession,
              Answer, ReadStored, Revoke, Destroy, Refresh, UpdateTokens, At
<1> QED BY <1>1, <1>2, <1>3

\* A step of the only request leaves CalmInv.
LEMMA StepSerial ==
  ASSUME BaseInv, LinkInv, CalmInv, NEW x \in Handlers, Step(x), calm'
  PROVE  CalmInv'
<1>1. TypeOK /\ PlaceInv /\ h[x] \in Request /\ Place(h[x]) /\ h[x].op \in Op
  BY StepSession, RequestFields DEF BaseInv, PlaceInv
<1>2. /\ h[x].pc = "create" => CreateSession(x)
      /\ h[x].pc = "destroy" => Destroy(x)
      /\ h[x].pc = "audit" => Answer(x)
  BY StepPlain
<1>3. calm
  BY StepPlain
<1>4. PICK q \in Request : h' = [h EXCEPT ![x] = q] /\ (q = NoRequest \/ Follows(h[x], q))
  BY <1>1, StepRequest
<1>5. h'[x] = q /\ \A y \in Handlers : y # x => h'[y] = h[y]
  BY <1>1, <1>4 DEF TypeOK
<1>6. h[x].op # "none"
  <2>1. h[x].pc # "idle"
    BY DEF Step, FindAttempt, TakeAttempt, DropAttempt, Authenticate, Evict, Touch, Resolve, CreateSession,
           Answer, ReadStored, Revoke, Destroy, Refresh, UpdateTokens, At, Raises
  <2> QED BY <1>1, <2>1 DEF Place
<1>7. ASSUME NEW y \in Handlers, y # x PROVE h[y].op = "none" /\ h'[y] = h[y] /\ h[y].pc = "idle"
  <2>1. h[y].op = "none"
    BY <1>3, <1>6, <1>7 DEF CalmInv
  <2> QED BY <1>1, <1>5, <1>7, <2>1 DEF PlaceInv, Place
<1>8. /\ h[x].op = "callback" => cookie = 0
      /\ h[x].op # "callback" => h[x].s = cookie
  BY <1>3, <1>6 DEF CalmInv
<1>9. q # NoRequest => /\ q.op = h[x].op /\ q.s = h[x].s /\ h[x].pc # "audit"
                       /\ q.pc = "audit" => h[x].pc \in {"destroy", "create"}
  BY <1>1, <1>4 DEF Follows, Place
<1>10. h[x].pc # "audit" => cookie' = cookie
  BY <1>1, StepTables
<1>11. h[x].pc # "audit" => \A s \in Ids : Live(s) => s = cookie
  <2>1. h[x].pc # "audit" => \A y \in Handlers : h[y].pc # "audit"
    BY <1>7
  <2> QED BY <1>3, <2>1 DEF CalmInv
<1>12. ASSUME h[x].pc = "audit"
       PROVE  state' = state /\ (h[x].op # "logout" => cookie' = h[x].new)
  BY <1>2, <1>12 DEF Answer, CookieAfter, store
<1>13. ASSUME h[x].pc = "destroy" PROVE q.pc = "audit" /\ \A s \in Ids : ~Live(s)'
  <2>1. Destroy(x) /\ h[x].op = "logout" /\ h[x].s = cookie
    BY <1>1, <1>2, <1>8, <1>13 DEF Place, Op
  <2>2. q.pc = "audit"
    BY <1>1, <1>5, <2>1 DEF Destroy, Goto, TypeOK, Request
  <2>3. state' = IF Live(h[x].s) THEN [state EXCEPT ![h[x].s] = "gone"] ELSE state
    BY <2>1 DEF Destroy, Delete
  <2>4. state \in [Ids -> {"unused", "live", "gone"}]
    BY <1>1 DEF TypeOK
  <2>5. ASSUME NEW s \in Ids PROVE ~(s # 0 /\ state'[s] = "live")
    BY <1>11, <1>13, <2>1, <2>3, <2>4, <2>5 DEF Live
  <2> QED BY <2>2, <2>5 DEF Live
<1>14. ASSUME h[x].pc = "create"
       PROVE  q.pc = "audit" /\ \A s \in Ids : Live(s)' => s = q.new /\ q.op # "logout"
  <2>1. PICK n \in Ids : /\ Fresh(n) /\ Insert(x, n)
                         /\ h' = [h EXCEPT ![x].pc = "audit", ![x].new = n]
    BY <1>2, <1>14 DEF CreateSession
  <2>2. q.pc = "audit" /\ q.new = n /\ q.op # "logout"
    <3>1. q.pc = "audit" /\ q.new = n /\ q.op = h[x].op
      BY <1>1, <1>5, <2>1 DEF TypeOK, Request
    <3> QED BY <1>1, <1>14, <3>1 DEF Place
  <2>3. ASSUME NEW s \in Ids, s # n PROVE state'[s] # "live"
    <3>1. /\ s = h[x].s => state'[s] = "gone"
          /\ s # h[x].s => state'[s] = state[s]
      BY <1>1, <2>1, <2>3, InsertType
    <3>2. Live(s) => s = h[x].s
      <4>1. Live(s) => s = cookie /\ s # 0
        BY <1>11, <1>14 DEF Live
      <4> QED BY <1>8, <4>1
    <3>3. s # 0
      BY DEF Ids
    <3> QED BY <3>1, <3>2, <3>3 DEF Live
  <2> QED BY <2>2, <2>3 DEF Live
<1>15. ASSUME h[x].pc \notin {"create", "destroy", "audit"}, NEW s \in Ids, Live(s)' PROVE Live(s)
  <2>1. Deletes(x) \/ Writes(x)
    BY <1>1, <1>15, StepTables DEF Inserts
  <2>2. CASE Deletes(x)
    BY <1>1, <1>15, <2>2, DeleteType DEF Deletes, Live
  <2>3. CASE Writes(x)
    BY <1>15, <2>3 DEF Writes, Live
  <2> QED BY <2>1, <2>2, <2>3
<1>16. \A y, z \in Handlers : h'[y].op # "none" /\ h'[z].op # "none" => y = z
  BY <1>7
<1>17. \A y \in Handlers : /\ h'[y].op = "callback" => cookie' = 0
                           /\ h'[y].op \notin {"none", "callback"} => h'[y].s = cookie'
  BY <1>5, <1>7, <1>8, <1>9, <1>10, NoRequestType
<1>18. ASSUME \A y \in Handlers : h'[y].pc # "audit", NEW s \in Ids, Live(s)' PROVE s = cookie'
  <2>1. h[x].pc \notin {"create", "destroy"}
    BY <1>5, <1>13, <1>14, <1>18
  <2>2. CASE h[x].pc = "audit"
    BY <1>3, <1>12, <1>18, <2>2 DEF CalmInv, Live
  <2>3. CASE h[x].pc # "audit"
    BY <1>10, <1>11, <1>15, <1>18, <2>1, <2>3
  <2> QED BY <2>2, <2>3
<1>19. ASSUME NEW y \in Handlers, h'[y].pc = "audit", NEW s \in Ids, Live(s)'
       PROVE  s = h'[y].new /\ h'[y].op # "logout"
  <2>1. y = x
    BY <1>7, <1>19
  <2>2. h[x].pc \in {"destroy", "create"}
    BY <1>5, <1>9, <1>19, <2>1, NoRequestType
  <2> QED BY <1>5, <1>13, <1>14, <1>19, <2>1, <2>2
<1> QED BY <1>16, <1>17, <1>18, <1>19 DEF CalmInv

\* Every step keeps CalmInv.
LEMMA CalmKept ==
  ASSUME BaseInv, LinkInv, CalmInv, [Next]_vars
  PROVE  CalmInv'
<1> SUFFICES ASSUME calm' PROVE CalmInv'
  BY DEF CalmInv
<1>1. ASSUME NEW x \in Handlers, NEW q \in Request, h' = [h EXCEPT ![x] = q], calm,
             \A y \in Handlers : h[y].op = "none",
             q.pc # "audit", cookie' = cookie, state' = state,
             q.op = "callback" => cookie = 0,
             q.op \notin {"none", "callback"} => q.s = cookie
      PROVE  CalmInv'
  <2>1. h'[x] = q /\ \A y \in Handlers : y # x => h'[y] = h[y]
    BY <1>1 DEF BaseInv, TypeOK
  <2>2. \A y \in Handlers : h[y].pc = "idle"
    BY <1>1 DEF BaseInv, PlaceInv, Place
  <2>3. \A s \in Ids : Live(s)' => s = cookie
    BY <1>1, <2>2 DEF CalmInv, Live
  <2>4. \A y \in Handlers : h'[y].pc # "audit"
    BY <1>1, <2>1, <2>2
  <2> QED BY <1>1, <2>1, <2>3, <2>4 DEF CalmInv
<1>2. ASSUME NEW x \in Handlers, Begin(x) PROVE CalmInv'
  <2>1. PICK op \in {"use", "logout", "switch"} :
          Take(x, [NoRequest EXCEPT !.op = op, !.pc = "auth", !.s = cookie, !.a = from[cookie]])
    BY <1>2 DEF Begin
  <2>2. calm /\ \A y \in Handlers : h[y].op = "none"
    BY <2>1 DEF Take
  <2>3. PICK q \in Request : /\ q.op \in {"use", "logout", "switch"} /\ q.pc = "auth" /\ q.s = cookie
                             /\ h' = [h EXCEPT ![x] = q]
    BY <1>2, BeginRequest
  <2>4. cookie' = cookie /\ state' = state
    BY <1>2 DEF Begin, store
  <2> QED BY <1>1, <2>2, <2>3, <2>4
<1>3. ASSUME NEW x \in Handlers, NEW a \in Attempts, BeginCallback(x, a) PROVE CalmInv'
  <2>1. calm /\ cookie = 0 /\ (\A y \in Handlers : h[y].op = "none") /\ cookie' = cookie /\ state' = state
    BY <1>3 DEF BeginCallback, store
  <2>2. PICK q \in Request : q.op = "callback" /\ q.pc = "find" /\ q.s = 0 /\ h' = [h EXCEPT ![x] = q]
    BY <1>3, BeginCallbackRequest
  <2> QED BY <1>1, <2>1, <2>2
<1>4. CASE Outside \/ UNCHANGED vars
  <2>1. /\ h' = h /\ calm
    BY <1>4 DEF Outside, BeginLogin, AttemptExpires, AccessTokenExpires, Suspend, Discover, ManagerStops, Tick,
                Cleanup, NoFault, Fault, vars
  <2>2. cookie' = cookie /\ \A s \in Ids : Live(s)' => Live(s)
    BY <1>4, OutsideKeeps DEF Live
  <2> QED BY <2>1, <2>2 DEF CalmInv
<1> QED BY <1>2, <1>3, <1>4, StepSerial, NextSplit

\* As long as requests follow each other and nothing fails, the only session in the table is
\* the browser's, for any number of logins, switches and logouts: a switch deletes the one it
\* replaces, a logout its own, before the cookie changes (AuthService, SessionService).
THEOREM SerialSessionAlways == Spec => []SerialSession
<1>1. Init => LinkInv /\ CalmInv
  BY InitLinks, NoRequestType DEF Init, CalmInv, Live
<1>2. BaseInv /\ LinkInv /\ CalmInv /\ [Next]_vars => BaseInv' /\ LinkInv' /\ CalmInv'
  BY NextBase, LinkKept, CalmKept
<1>3. BaseInv /\ CalmInv => SerialSession
  <2> SUFFICES ASSUME BaseInv, CalmInv, calm, \A x \in Handlers : h[x].op = "none",
                      NEW s \in Ids, Live(s)
               PROVE  s = cookie
    BY DEF SerialSession
  <2>1. \A x \in Handlers : h[x].pc = "idle"
    BY DEF BaseInv, PlaceInv, Place
  <2> QED BY <2>1 DEF CalmInv
<1> QED BY <1>1, <1>2, <1>3, InitBase, PTL DEF Spec
=============================================================================
