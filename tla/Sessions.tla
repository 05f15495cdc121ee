------------------------------ MODULE Sessions ------------------------------
(***************************************************************************)
(* Logins and sessions of the deployment manager (auth/).  A browser keeps *)
(* one rca_session cookie.  A login leaves an attempt in the database; its *)
(* callback consumes the attempt and inserts a session.  Every other       *)
(* request authenticates with the cookie; logout deletes the session, a    *)
(* switch of organization replaces it.  Requests interleave at every await,*)
(* so each may write or delete a row that another has removed since.       *)
(*                                                                         *)
(* Asgardeo is external: it issues, rotates and revokes tokens.  Time is   *)
(* counted down: a session expires when idle or life has reached zero.     *)
(***************************************************************************)
EXTENDS Integers, FiniteSets

CONSTANTS
  Handlers,       \* HTTP requests being served at once
  Attempts,       \* login attempts; their states are random and never repeat
  Limit,          \* bound on sessions: ids are 1..Limit in the order of their creation
  Orgs,           \* organizations of customers; the root organization is not one of them
  Idle, Life,     \* auth.idleMinutes and auth.absoluteHours, in ticks
  MaxRotations,   \* bound on the refresh tokens Asgardeo issues after a session's first
  MaxFaults,      \* bound on database calls, responses and discoveries that fail
  MaxStops        \* bound on stops of the manager

ASSUME SessionsAssumption ==
  /\ Limit \in Nat /\ MaxRotations \in Nat
  /\ Idle \in Nat \ {0} /\ Life \in Nat \ {0}
  /\ MaxFaults \in Nat /\ MaxStops \in Nat
  /\ Attempts # {} /\ Orgs # {}

VARIABLES
  attempt,    \* AuthLoginAttempt rows
  state,      \* AuthSession rows: not yet issued, in the table, or deleted
  pred,       \* history: the session a session replaced, 0 for one made by a login
  from,       \* history: the attempt a session goes back to
  row,        \* the columns of a session that change, and what Asgardeo knows of its tokens
  ws,         \* Workspace of each organization
  cookie,     \* the cookie in the browser, 0 when there is none
  client,     \* clientPromise of the process: not asked for, resolved or rejected
  h,          \* the request each handler is serving
  faults, stops,
  calm        \* history: no requests overlapped, nothing failed, no login beside a session

store == <<state, pred, from, row>>
vars  == <<attempt, state, pred, from, row, ws, cookie, client, h, faults, stops, calm>>

Ids == 1 .. Limit
Op  == {"none", "callback", "use", "logout", "switch"}
PC  == {"idle", "find", "take", "drop", "auth", "touch", "evict", "stored", "revoke",
        "destroy", "refresh", "update", "resolve", "create", "audit"}

\* A request: the session its cookie named (0: none), the attempt of a callback, the session
\* it made, the refresh token it read from the row or got from Asgardeo, and the organization
\* of its identity.
Request == [op : Op, pc : PC, s : 0 .. Limit, a : Attempts, new : 0 .. Limit,
            token : 0 .. MaxRotations + 1, org : Orgs]
NoRequest == [op |-> "none", pc |-> "idle", s |-> 0, a |-> CHOOSE a \in Attempts : TRUE,
              new |-> 0, token |-> 0, org |-> CHOOSE o \in Orgs : TRUE]

\* The token of an answer that has none.
NoToken == MaxRotations + 1

\* Of a row: the organization, the two expiry times, whether the access token is about to
\* expire, the refresh token; and at Asgardeo: the refresh token it accepts, revoked or not.
Row == [org : Orgs, idle : 0 .. Idle, life : 0 .. Life, stale : BOOLEAN, refresh : 0 .. MaxRotations,
        current : 0 .. MaxRotations, revoked : BOOLEAN]
NewRow(o) == [org |-> o, idle |-> Idle, life |-> Life, stale |-> FALSE, refresh |-> 0,
              current |-> 0, revoked |-> FALSE]
NoRow == NewRow(NoRequest.org)

\* Type correctness of the tables, the requests and the rest.
TypeOK ==
  /\ attempt \in [Attempts -> {"unused", "open", "expired", "gone"}]
  /\ state \in [Ids -> {"unused", "live", "gone"}]
  /\ pred \in [Ids -> 0 .. Limit]
  /\ from \in [Ids -> Attempts]
  /\ row \in [Ids -> Row]
  /\ ws \in [Orgs -> {"absent", "active", "suspended"}]
  /\ cookie \in 0 .. Limit
  /\ client \in {"none", "ready", "failed"}
  /\ h \in [Handlers -> Request]
  /\ faults \in Nat /\ stops \in Nat
  /\ calm \in BOOLEAN

Init ==
  /\ attempt = [a \in Attempts |-> "unused"]
  /\ state = [s \in Ids |-> "unused"]
  /\ pred = [s \in Ids |-> 0]
  /\ from = [s \in Ids |-> NoRequest.a]
  /\ row = [s \in Ids |-> NoRow]
  /\ ws = [o \in Orgs |-> "absent"]
  /\ cookie = 0
  /\ client = "none"
  /\ h = [x \in Handlers |-> NoRequest]
  /\ faults = 0 /\ stops = 0
  /\ calm = TRUE

Live(s) == s # 0 /\ state[s] = "live"
Fault   == faults < MaxFaults /\ faults' = faults + 1 /\ calm' = FALSE
NoFault == UNCHANGED <<faults, calm>>

-----------------------------------------------------------------------------
(* Requests begin *)

At(x, op, pc) == h[x].op = op /\ h[x].pc = pc
Goto(x, pc)   == h' = [h EXCEPT ![x].pc = pc]
Done(x)       == h' = [h EXCEPT ![x] = NoRequest]

Take(x, request) ==
  /\ h[x].op = "none"
  /\ h' = [h EXCEPT ![x] = request]
  /\ calm' = (calm /\ \A y \in Handlers : h[y].op = "none")

\* authorizationRequest needs the endpoints that discovery found.
AuthorizationRequest == client = "ready"

CreateLoginAttempt(a) ==
  /\ attempt[a] = "unused"
  /\ attempt' = [attempt EXCEPT ![a] = "open"]

\* GET /auth/login: the attempt is inserted and the browser sent on.
BeginLogin(a) ==
  /\ AuthorizationRequest
  /\ CreateLoginAttempt(a)
  /\ UNCHANGED <<store, ws, cookie, client, h, faults, stops, calm>>

\* GET /auth/callback with the state of an attempt, perhaps for the second time.
BeginCallback(x, a) ==
  /\ attempt[a] # "unused" /\ h[x].op = "none"
  /\ h' = [h EXCEPT ![x] = [NoRequest EXCEPT !.op = "callback", !.pc = "find", !.a = a]]
  /\ calm' = (calm /\ cookie = 0 /\ \A y \in Handlers : h[y].op = "none")
  /\ UNCHANGED <<attempt, store, ws, cookie, client, faults, stops>>

\* Any other request carries the cookie the browser has now; without one it gets a 401.
Begin(x) ==
  /\ cookie # 0
  /\ \E op \in {"use", "logout", "switch"} :
       Take(x, [NoRequest EXCEPT !.op = op, !.pc = "auth", !.s = cookie, !.a = from[cookie]])
  /\ UNCHANGED <<attempt, store, ws, cookie, client, faults, stops>>

-----------------------------------------------------------------------------
(* AuthenticationGuard, CsrfGuard *)

Valid(s) == row[s].idle > 0 /\ row[s].life > 0 /\ ws[row[s].org] = "active"

\* authenticate, its read.
Authenticate(x) ==
  /\ h[x].pc = "auth"
  /\ IF ~Live(h[x].s) THEN Done(x)
     ELSE Goto(x, IF Valid(h[x].s) THEN "touch" ELSE "evict")
  /\ NoFault
  /\ UNCHANGED <<attempt, store, ws, cookie, client, stops>>

\* What is left of a deleted session is that it was there.
Delete(s) ==
  /\ state' = [state EXCEPT ![s] = "gone"]
  /\ row' = [row EXCEPT ![s] = NoRow]

\* authenticate deletes the invalid session; delete raises when it is gone.  No principal.
Evict(x) ==
  /\ h[x].pc = "evict"
  /\ IF Live(h[x].s) THEN Delete(h[x].s) ELSE UNCHANGED <<state, row>>
  /\ Done(x) /\ NoFault
  /\ UNCHANGED <<attempt, pred, from, ws, cookie, client, stops>>

Least(m, n) == IF m < n THEN m ELSE n

Renew(s) == row' = [row EXCEPT ![s].idle = Least(Idle, row[s].life)]

\* What follows authentication; the other guards may refuse the request.
AfterGuards(x) ==
  \/ Done(x)
  \/ h[x].op \in {"logout", "switch"} /\ Goto(x, "stored")

\* authenticate, its update: raises when the row is gone.
Touch(x) ==
  /\ h[x].pc = "touch"
  /\ IF Live(h[x].s) THEN Renew(h[x].s) /\ AfterGuards(x) ELSE UNCHANGED row /\ Done(x)
  /\ NoFault
  /\ UNCHANGED <<attempt, state, pred, from, ws, cookie, client, stops>>

-----------------------------------------------------------------------------
(* The callback of a login *)

\* consumeLoginAttempt, its read; a missing attempt is a 401.
FindAttempt(x) ==
  /\ At(x, "callback", "find")
  /\ CASE attempt[h[x].a] = "open"    -> Goto(x, "take")
       [] attempt[h[x].a] = "expired" -> Goto(x, "drop")
       [] OTHER                       -> Done(x)
  /\ NoFault
  /\ UNCHANGED <<attempt, store, ws, cookie, client, stops>>

\* Mutant: deleteMany, which accepts that the attempt is gone.
TakeAttemptAnyway(x) ==
  /\ At(x, "callback", "take")
  /\ attempt' = [attempt EXCEPT ![h[x].a] = "gone"]
  /\ Goto(x, "resolve") /\ NoFault
  /\ UNCHANGED <<store, ws, cookie, client, stops>>

\* consumeLoginAttempt, its delete, which raises when another callback was first.
TakeAttempt(x) ==
  /\ At(x, "callback", "take")
  /\ IF attempt[h[x].a] = "gone"
       THEN Done(x) /\ UNCHANGED attempt
       ELSE Goto(x, "resolve") /\ attempt' = [attempt EXCEPT ![h[x].a] = "gone"]
  /\ NoFault
  /\ UNCHANGED <<store, ws, cookie, client, stops>>

DropAttempt(x) ==
  /\ At(x, "callback", "drop")
  /\ attempt' = [attempt EXCEPT ![h[x].a] = "gone"]
  /\ Done(x) /\ NoFault
  /\ UNCHANGED <<store, ws, cookie, client, stops>>

-----------------------------------------------------------------------------
(* The identity and its session, for callback and switch *)

\* completeCallback: the code is exchanged for tokens of any organization.
LoginIdentities == Orgs

\* switchOrganization of OidcService: not for a session whose tokens have been revoked.
SwitchIdentities(s) == IF row[s].revoked THEN {} ELSE Orgs

\* The organizations the verified tokens of a request can be of.
Identities(x) == IF h[x].op = "switch" THEN SwitchIdentities(h[x].s) ELSE LoginIdentities

\* resolveIdentity, one transaction: makes the workspace or keeps it, unless it is inactive.
ResolveIdentity(o) ==
  /\ ws[o] # "suspended"
  /\ ws' = [ws EXCEPT ![o] = "active"]

\* Asgardeo, the root organization or an inactive workspace may end the request.
Resolve(x) ==
  /\ h[x].pc = "resolve" /\ client # "none"
  /\ \/ /\ client = "ready"
        /\ \E o \in Identities(x) :
             /\ ResolveIdentity(o)
             /\ h' = [h EXCEPT ![x].pc = "create", ![x].org = o]
     \/ Done(x) /\ UNCHANGED ws
  /\ NoFault
  /\ UNCHANGED <<attempt, store, cookie, client, stops>>

\* The id of the next session: random in the code, the first unused one here.
Fresh(n) == n \in Ids /\ state[n] = "unused" /\ \A m \in Ids : m < n => state[m] # "unused"

\* Mutant: the new session is inserted and the old one deleted in another transaction.
InsertKeepsOld(x, n) ==
  /\ state' = [state EXCEPT ![n] = "live"]
  /\ pred' = [pred EXCEPT ![n] = h[x].s]
  /\ from' = [from EXCEPT ![n] = h[x].a]
  /\ row' = [row EXCEPT ![n] = NewRow(h[x].org)]

\* createSession: one transaction inserts the session and deletes the one it replaces,
\* which may be gone already; a login replaces none.
Insert(x, n) ==
  /\ state' = [s \in Ids |-> IF s = n THEN "live"
                             ELSE IF s = h[x].s THEN "gone" ELSE state[s]]
  /\ pred' = [pred EXCEPT ![n] = h[x].s]
  /\ from' = [from EXCEPT ![n] = h[x].a]
  /\ row' = [s \in Ids |-> IF s = n THEN NewRow(h[x].org)
                           ELSE IF s = h[x].s THEN NoRow ELSE row[s]]

CreateSession(x) ==
  /\ h[x].pc = "create"
  /\ \E n \in Ids : /\ Fresh(n) /\ Insert(x, n)
                    /\ h' = [h EXCEPT ![x].pc = "audit", ![x].new = n]
  /\ NoFault
  /\ UNCHANGED <<attempt, ws, cookie, client, stops>>

\* The answer to a logout needs logoutUrl, and with it the endpoints that discovery found.
\* When discovery has failed, the session is deleted but the browser keeps its cookie.
CookieAfter(x) == IF h[x].op = "logout" /\ client = "failed" THEN cookie ELSE h[x].new

\* Mutant: the answer to a switch does not bring the new cookie.
AnswerForgetsSwitch(x) ==
  /\ h[x].pc = "audit"
  /\ h[x].op = "logout" => client # "none"
  /\ cookie' = IF h[x].op = "switch" THEN cookie ELSE CookieAfter(x)
  /\ Done(x) /\ NoFault
  /\ UNCHANGED <<attempt, store, ws, client, stops>>

\* The audit event is written, then the answer sets or clears the cookie of the browser,
\* whatever it has become meanwhile.
Answer(x) ==
  /\ h[x].pc = "audit"
  /\ h[x].op = "logout" => client # "none"
  /\ cookie' = CookieAfter(x)
  /\ Done(x) /\ NoFault
  /\ UNCHANGED <<attempt, store, ws, client, stops>>

-----------------------------------------------------------------------------
(* Logout and switch of organization *)

\* getStored: the tokens are read.  A switch needs the row, and refreshes an access token
\* that is about to expire; a logout goes on without the row.
ReadStored(x) ==
  /\ h[x].pc = "stored"
  /\ LET s == h[x].s IN
     CASE ~Live(s) /\ h[x].op = "switch" -> Done(x)
       [] ~Live(s) /\ h[x].op = "logout" -> Goto(x, "destroy")
       [] OTHER -> h' = [h EXCEPT ![x].token = row[s].refresh,
                           ![x].pc = IF h[x].op = "logout" THEN "revoke"
                                     ELSE IF row[s].stale THEN "refresh" ELSE "resolve"]
  /\ NoFault
  /\ UNCHANGED <<attempt, store, ws, cookie, client, stops>>

RevokeToken(x) ==
  row' = [row EXCEPT ![h[x].s].revoked = @ \/ (Live(h[x].s) /\ h[x].token = row[h[x].s].current)]

\* revokeTokens: a failed revocation is ignored; without a client the logout fails.  A refresh
\* token that has been rotated away is not known any more.
Revoke(x) ==
  /\ h[x].pc = "revoke" /\ client # "none"
  /\ \/ /\ client = "ready"
        /\ RevokeToken(x)
        /\ Goto(x, "destroy") /\ NoFault
     \/ client = "ready" /\ Goto(x, "destroy") /\ Fault /\ UNCHANGED row
     \/ client = "failed" /\ Done(x) /\ NoFault /\ UNCHANGED row
  /\ UNCHANGED <<attempt, state, pred, from, ws, cookie, client, stops>>

\* destroy: deleteMany, so the row may be gone.
Destroy(x) ==
  /\ h[x].pc = "destroy"
  /\ IF Live(h[x].s) THEN Delete(h[x].s) ELSE UNCHANGED <<state, row>>
  /\ Goto(x, "audit") /\ NoFault
  /\ UNCHANGED <<attempt, pred, from, ws, cookie, client, stops>>

\* refresh: only the current refresh token is accepted.  Asgardeo answers with the next one,
\* or with none and the current one stays good; any error is a 401, the answer that is lost
\* after a rotation included.
Refresh(x) ==
  /\ h[x].pc = "refresh" /\ client # "none"
  /\ LET s == h[x].s IN
     \/ /\ client = "ready"
        /\ Live(s) => h[x].token = row[s].current /\ ~row[s].revoked
        /\ \/ /\ h' = [h EXCEPT ![x].token = NoToken, ![x].pc = "update"]
              /\ NoFault /\ UNCHANGED row
           \/ /\ h[x].token < MaxRotations
              /\ row' = IF Live(s) THEN [row EXCEPT ![s].current = @ + 1] ELSE row
              /\ \/ h' = [h EXCEPT ![x].token = @ + 1, ![x].pc = "update"] /\ NoFault
                 \/ Done(x) /\ Fault
     \/ Done(x) /\ NoFault /\ UNCHANGED row
  /\ UNCHANGED <<attempt, state, pred, from, ws, cookie, client, stops>>

\* Mutant: only the access token is stored.
StoreAccessOnly(x) == row' = [row EXCEPT ![h[x].s].stale = FALSE]

StoreTokens(x) ==
  row' = [row EXCEPT ![h[x].s].stale = FALSE,
                     ![h[x].s].refresh = IF h[x].token = NoToken THEN @ ELSE h[x].token]

\* updateTokens: raises when the row is gone.
UpdateTokens(x) ==
  /\ h[x].pc = "update"
  /\ IF Live(h[x].s) THEN StoreTokens(x) /\ Goto(x, "resolve") ELSE UNCHANGED row /\ Done(x)
  /\ NoFault
  /\ UNCHANGED <<attempt, state, pred, from, ws, cookie, client, stops>>

-----------------------------------------------------------------------------
(* Failures, stops, time and the outside *)

\* A database call raises, without effect or after its commit, or the answer is lost.
Raises(x) ==
  /\ Fault /\ h[x].pc \notin {"idle", "revoke", "refresh"}
  /\ Done(x)
  /\ \/ UNCHANGED <<attempt, store>>
     \/ h[x].pc = "take" /\ attempt' = [attempt EXCEPT ![h[x].a] = "gone"] /\ UNCHANGED store
     \/ h[x].pc = "destroy" /\ Live(h[x].s) /\ Delete(h[x].s) /\ UNCHANGED <<attempt, pred, from>>
     \/ h[x].pc = "create" /\ (\E n \in Ids : Fresh(n) /\ Insert(x, n)) /\ UNCHANGED attempt
     \/ h[x].pc = "update" /\ Live(h[x].s) /\ StoreTokens(x) /\ UNCHANGED <<attempt, state, pred, from>>
  /\ UNCHANGED <<ws, cookie, client, stops>>

\* client(): one discovery per process; its promise is kept, rejected or not.
Discover ==
  /\ client = "none"
  /\ \/ client' = "ready" /\ NoFault
     \/ client' = "failed" /\ Fault
  /\ UNCHANGED <<attempt, store, ws, cookie, h, stops>>

ManagerStops ==
  /\ stops < MaxStops /\ stops' = stops + 1
  /\ client' = "none" /\ calm' = FALSE
  /\ h' = [x \in Handlers |-> NoRequest]
  /\ UNCHANGED <<attempt, store, ws, cookie, faults>>

\* Mutant: an expired session has less than no time left.
LessAnyway(n) == n - 1

Less(n) == IF n > 0 THEN n - 1 ELSE 0

\* Time passes for every session and attempt.
Tick ==
  /\ \E s \in Ids : state[s] = "live" /\ row[s].life > 0
  /\ row' = [s \in Ids |-> IF state[s] = "live"
                             THEN [row[s] EXCEPT !.idle = Less(@), !.life = Less(@)]
                             ELSE row[s]]
  /\ UNCHANGED <<attempt, state, pred, from, ws, cookie, client, h, faults, stops, calm>>

AttemptExpires(a) ==
  /\ attempt[a] = "open"
  /\ attempt' = [attempt EXCEPT ![a] = "expired"]
  /\ UNCHANGED <<store, ws, cookie, client, h, faults, stops, calm>>

AccessTokenExpires(s) ==
  /\ Live(s) /\ ~row[s].stale
  /\ row' = [row EXCEPT ![s].stale = TRUE]
  /\ UNCHANGED <<attempt, state, pred, from, ws, cookie, client, h, faults, stops, calm>>

\* An operator suspends a workspace; nothing in the code does.
Suspend(o) ==
  /\ ws[o] = "active"
  /\ ws' = [ws EXCEPT ![o] = "suspended"]
  /\ UNCHANGED <<attempt, store, cookie, client, h, faults, stops, calm>>

Expired == {s \in Ids : state[s] = "live" /\ (row[s].idle = 0 \/ row[s].life = 0)}

\* cleanup, a job of its own: expired attempts and sessions, in one transaction.
Cleanup ==
  /\ Expired # {} \/ \E a \in Attempts : attempt[a] = "expired"
  /\ attempt' = [a \in Attempts |-> IF attempt[a] = "expired" THEN "gone" ELSE attempt[a]]
  /\ state' = [s \in Ids |-> IF s \in Expired THEN "gone" ELSE state[s]]
  /\ row' = [s \in Ids |-> IF s \in Expired THEN NoRow ELSE row[s]]
  /\ UNCHANGED <<pred, from, ws, cookie, client, h, faults, stops, calm>>

Step(x) ==
  \/ FindAttempt(x) \/ TakeAttempt(x) \/ DropAttempt(x)
  \/ Authenticate(x) \/ Evict(x) \/ Touch(x)
  \/ Resolve(x) \/ CreateSession(x) \/ Answer(x)
  \/ ReadStored(x) \/ Revoke(x) \/ Destroy(x) \/ Refresh(x) \/ UpdateTokens(x)
  \/ Raises(x)

Next ==
  \/ \E x \in Handlers : Begin(x) \/ Step(x) \/ \E a \in Attempts : BeginCallback(x, a)
  \/ \E a \in Attempts : BeginLogin(a) \/ AttemptExpires(a)
  \/ \E s \in Ids : AccessTokenExpires(s)
  \/ \E o \in Orgs : Suspend(o)
  \/ Discover \/ ManagerStops \/ Tick \/ Cleanup

Spec == Init /\ [][Next]_vars

-----------------------------------------------------------------------------
(* Properties *)

\* A login attempt gives at most one session, however often and however close together the
\* browser comes back with its state.
Consumers(a) == {x \in Handlers : h[x].op = "callback" /\ h[x].a = a /\ h[x].pc \in {"resolve", "create"}}
LoginsOf(a)  == {s \in Ids : state[s] # "unused" /\ from[s] = a /\ pred[s] = 0}
AttemptUsedOnce == \A a \in Attempts : Cardinality(Consumers(a)) + Cardinality(LoginsOf(a)) <= 1

\* session.service.spec.ts:22, "creates the replacement and deletes the previous session
\* atomically": a replaced session is never there beside its successor, not even when a
\* request that authenticated with it earlier touches it or stores its tokens.
PredecessorIsGone == \A s \in Ids : Live(s) /\ pred[s] # 0 => state[pred[s]] = "gone"

\* As long as requests follow each other and nothing fails, the only session in the table is
\* the browser's: a switch leaves no old one, a logout leaves none.
SerialSession ==
  calm /\ (\A x \in Handlers : h[x].op = "none") => \A s \in Ids : Live(s) => s = cookie

\* Without failures and stops, the refresh token in a row is the one Asgardeo accepts, unless
\* a switch is about to store a newer one or a logout has revoked it and is about to delete
\* the row: two switches that refresh at once do not leave a dead token behind.
TokensFollow ==
  faults = 0 /\ stops = 0 =>
    \A s \in Ids : Live(s) =>
      \/ row[s].refresh = row[s].current /\ ~row[s].revoked
      \/ \E x \in Handlers : h[x].s = s /\ (At(x, "switch", "update") \/ At(x, "logout", "destroy"))
=============================================================================
