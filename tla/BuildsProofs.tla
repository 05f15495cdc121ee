---------------------------- MODULE BuildsProofs ----------------------------
(* Theorems about Builds for any number of requests, builds, policies,       *)
(* failed calls and stops of the manager.                                    *)
EXTENDS Builds, TLAPS


-----------------------------------------------------------------------------
(* Facts about requests *)

\* What a request becomes is a request.
LEMMA ReqType ==
  ASSUME NEW pc \in PC, NEW b \in BuildIds, NEW next \in 1 .. NumPolicies + 1,
         NEW r \in Statuses, NEW seen \in JobPhase, NEW alone \in BOOLEAN
  PROVE  /\ Req(pc, b, next, r, seen, alone) \in Request
         /\ Req(pc, b, next, r, seen, alone).pc = pc
         /\ Req(pc, b, next, r, seen, alone).b = b
         /\ Req(pc, b, next, r, seen, alone).next = next
         /\ Req(pc, b, next, r, seen, alone).row = r
         /\ Req(pc, b, next, r, seen, alone).seen = seen
         /\ Req(pc, b, next, r, seen, alone).alone = alone
BY DEF Req, Request

\* A handler without a request has a record of a request's type.
LEMMA IdleType ==
  /\ NoRequest \in Request
  /\ NoRequest.pc = "idle" /\ NoRequest.row = "pending" /\ NoRequest.seen = "absent"
<1>1. \E b \in BuildIds : TRUE
  BY BuildsAssumption
<1>2. (CHOOSE b \in BuildIds : TRUE) \in BuildIds
  BY <1>1, Zenon
<1> DEFINE any == CHOOSE b \in BuildIds : TRUE
           no == FALSE
<1>3. any \in BuildIds /\ no \in BOOLEAN /\ NoRequest = Req("idle", any, 1, "pending", "absent", no)
  BY <1>2 DEF NoRequest
<1>4. 1 \in 1 .. NumPolicies + 1 /\ "idle" \in PC /\ "pending" \in Statuses /\ "absent" \in JobPhase
  BY BuildsAssumption DEF PC, Statuses, JobPhase
<1> HIDE DEF any, no
<1> QED BY <1>3, <1>4, ReqType

\* A handler that goes on keeps all of its request but the await it is at.
LEMMA GotoType ==
  ASSUME TypeOK, NEW x \in Handlers, NEW to \in PC, Goto(x, to)
  PROVE  /\ h' \in [Handlers -> Request]
         /\ h'[x].pc = to /\ h'[x].b = h[x].b /\ h'[x].next = h[x].next
         /\ h'[x].row = h[x].row /\ h'[x].seen = h[x].seen
         /\ \A y \in Handlers : y # x => h'[y] = h[y]
<1>1. h[x] \in Request
  BY DEF TypeOK
<1>2. Req(to, h[x].b, h[x].next, h[x].row, h[x].seen, h[x].alone) \in Request
  BY <1>1, ReqType DEF Request
<1> QED BY <1>1, <1>2, ReqType DEF Goto, Serves, TypeOK, Request

\* A handler whose request is done is idle, and no other is touched.
LEMMA DoneType ==
  ASSUME TypeOK, NEW x \in Handlers, Done(x)
  PROVE  /\ h' \in [Handlers -> Request]
         /\ h'[x] = NoRequest
         /\ \A y \in Handlers : y # x => h'[y] = h[y]
BY IdleType DEF Done, Serves, TypeOK

\* The next policy, or on to the Job or the workload.
LEMMA FollowingType ==
  ASSUME TypeOK, NEW x \in Handlers, NEW kind \in {"create", "deploy"}, Following(x, kind),
         h[x].next # NumPolicies + 1
  PROVE  /\ h' \in [Handlers -> Request]
         /\ h'[x].next = h[x].next + 1 /\ h'[x].b = h[x].b
         /\ h'[x].row = h[x].row /\ h'[x].seen = h[x].seen
         /\ h[x].next = NumPolicies /\ kind = "create" => h'[x].pc = "job"
         /\ h[x].next = NumPolicies /\ kind = "deploy" => h'[x].pc = "d_workload"
         /\ h[x].next # NumPolicies /\ kind = "create" => h'[x].pc = "c_policy"
         /\ h[x].next # NumPolicies /\ kind = "deploy" => h'[x].pc = "d_policy"
         /\ \A y \in Handlers : y # x => h'[y] = h[y]
<1> DEFINE last == h[x].next = NumPolicies
           to == IF kind = "create" THEN IF last THEN "job" ELSE "c_policy"
                                    ELSE IF last THEN "d_workload" ELSE "d_policy"
           r == Req(to, h[x].b, h[x].next + 1, h[x].row, h[x].seen, h[x].alone)
<1>1. h[x] \in Request
  BY DEF TypeOK
<1>2. h[x].next + 1 \in 1 .. NumPolicies + 1 /\ h[x].b \in BuildIds
      /\ h[x].row \in Statuses /\ h[x].seen \in JobPhase /\ h[x].alone \in BOOLEAN
  BY <1>1, BuildsAssumption DEF Request
<1>3. /\ last /\ kind = "create" => to = "job"
      /\ last /\ kind = "deploy" => to = "d_workload"
      /\ ~last /\ kind = "create" => to = "c_policy"
      /\ ~last /\ kind = "deploy" => to = "d_policy"
  OBVIOUS
<1>4. to \in PC
  BY <1>3 DEF PC, Creating, Deploying
<1>5. h' = [h EXCEPT ![x] = r]
  BY DEF Following, Serves
<1>6. r \in Request /\ r.pc = to /\ r.b = h[x].b /\ r.next = h[x].next + 1
      /\ r.row = h[x].row /\ r.seen = h[x].seen
  BY <1>2, <1>4, ReqType
<1> HIDE DEF r, to
<1> QED BY <1>3, <1>5, <1>6 DEF TypeOK

\* A new request on b; the others keep all but what they remember of being alone.
LEMMA TakeType ==
  ASSUME TypeOK, NEW x \in Handlers, NEW b \in BuildIds, NEW first \in PC, Take(x, b, first)
  PROVE  /\ h' \in [Handlers -> Request]
         /\ h'[x].pc = first /\ h'[x].b = b /\ h'[x].next = 1
         /\ h'[x].row = "pending" /\ h'[x].seen = "absent"
         /\ \A y \in Handlers : y # x =>
              /\ h'[y].pc = h[y].pc /\ h'[y].b = h[y].b /\ h'[y].next = h[y].next
              /\ h'[y].row = h[y].row /\ h'[y].seen = h[y].seen
<1> DEFINE new(y) ==
             IF y = x
             THEN Req(first, b, 1, "pending", "absent",
                      first = "s_row" /\ \A z \in Handlers : h[z].pc # "idle" => h[z].b # b)
             ELSE Req(h[y].pc, h[y].b, h[y].next, h[y].row, h[y].seen, h[y].alone /\ h[y].b # b)
<1>1. new(x) \in Request /\ new(x).pc = first /\ new(x).b = b /\ new(x).next = 1
      /\ new(x).row = "pending" /\ new(x).seen = "absent"
  <2> DEFINE alone == first = "s_row" /\ \A z \in Handlers : h[z].pc # "idle" => h[z].b # b
  <2>1. 1 \in 1 .. NumPolicies + 1 /\ "pending" \in Statuses /\ "absent" \in JobPhase
    BY BuildsAssumption DEF Statuses, JobPhase
  <2>2. alone \in BOOLEAN
    OBVIOUS
  <2>3. new(x) = Req(first, b, 1, "pending", "absent", alone)
    OBVIOUS
  <2> HIDE DEF alone, new
  <2> QED BY <2>1, <2>2, <2>3, ReqType
<1>2. ASSUME NEW y \in Handlers, y # x
      PROVE  /\ new(y) \in Request
             /\ new(y).pc = h[y].pc /\ new(y).b = h[y].b /\ new(y).next = h[y].next
             /\ new(y).row = h[y].row /\ new(y).seen = h[y].seen
  <2>1. h[y] \in Request
    BY DEF TypeOK
  <2>2. /\ h[y].pc \in PC /\ h[y].b \in BuildIds /\ h[y].next \in 1 .. NumPolicies + 1
        /\ h[y].row \in Statuses /\ h[y].seen \in JobPhase
    BY <2>1 DEF Request
  <2> DEFINE alone == h[y].alone /\ h[y].b # b
  <2>3. alone \in BOOLEAN
    OBVIOUS
  <2>4. new(y) = Req(h[y].pc, h[y].b, h[y].next, h[y].row, h[y].seen, alone)
    BY <1>2
  <2> HIDE DEF new, alone
  <2> QED BY <2>2, <2>3, <2>4, ReqType
<1>3. h' = [y \in Handlers |-> new(y)]
  BY DEF Take
<1> HIDE DEF new
<1> QED BY <1>1, <1>2, <1>3

-----------------------------------------------------------------------------
(* The way through the namespace *)

InCreate == {"c_namespace", "c_make", "c_policy", "c_add"}
InDeploy == {"d_namespace", "d_make", "d_policy", "d_add"}
Unready  == {"insert", "c_namespace", "c_make", "d_build", "d_namespace", "d_make"}
AtPolicy == {"c_policy", "c_add", "d_policy", "d_add"}
AllPolicies(set) == \A p \in Policies : p \in set

\* What a request at await pc with policy next has seen to, given the policies there are.
Reconciled(pc, next, set) ==
  /\ pc \in Unready => next = 1
  /\ pc \in AtPolicy => next # NumPolicies + 1 /\ \A p \in Policies : p < next => p \in set
  /\ Isolation /\ pc \in {"job", "d_workload"} => AllPolicies(set)
PolicyInv == \A x \in Handlers : Reconciled(h[x].pc, h[x].next, policies)

\* The same request goes on to the await to.
Goes(x, to) == /\ h' \in [Handlers -> Request]
               /\ h'[x].pc = to /\ h'[x].b = h[x].b
               /\ h'[x].row = h[x].row /\ h'[x].seen = h[x].seen
               /\ \A y \in Handlers : y # x => h'[y] = h[y]

\* One step of ensureNamespace stays on the way of its request, or leaves it with every policy
\* there, or fails.
NamespaceStep(x) == ReadNamespace(x) \/ MakeNamespace(x) \/ ReadPolicy(x) \/ AddPolicy(x)
\* A step of ensureNamespace keeps the policies there are and goes on to the next one, or past
\* the last to the Job or the workload.
LEMMA NamespaceMoves ==
  ASSUME TypeOK, PolicyInv, NEW x \in Handlers, NamespaceStep(x)
  PROVE  /\ UNCHANGED <<status, job, workload, settled, cut, calm, faults, stops>>
         /\ namespace' \in BOOLEAN /\ policies' \in SUBSET Policies /\ policies \subseteq policies'
         /\ Reconciled(h'[x].pc, h'[x].next, policies')
         /\ \/ /\ h[x].pc \in InCreate
               /\ \E to \in InCreate \cup {"job", "fail"} : Goes(x, to)
            \/ /\ h[x].pc \in InDeploy
               /\ \E to \in InDeploy \cup {"d_workload", "idle"} : Goes(x, to)
<1> DEFINE Result == /\ Reconciled(h'[x].pc, h'[x].next, policies')
                     /\ \/ /\ h[x].pc \in InCreate
                           /\ \E to \in InCreate \cup {"job", "fail"} : Goes(x, to)
                        \/ /\ h[x].pc \in InDeploy
                           /\ \E to \in InDeploy \cup {"d_workload", "idle"} : Goes(x, to)
<1>1. h[x] \in Request /\ h[x].next \in 1 .. NumPolicies + 1 /\ NumPolicies \in Nat \ {0}
  BY BuildsAssumption DEF TypeOK, Request
<1>2. Reconciled(h[x].pc, h[x].next, policies)
  BY DEF PolicyInv
<1>3. /\ UNCHANGED <<status, job, workload, settled, cut, calm, faults, stops>>
      /\ namespace' \in BOOLEAN /\ policies' \in SUBSET Policies /\ policies \subseteq policies'
  <2>1. CASE ReadNamespace(x)
    BY <2>1 DEF ReadNamespace, NoFault, cluster, TypeOK
  <2>2. CASE MakeNamespace(x)
    BY <2>2 DEF MakeNamespace, NoFault, TypeOK
  <2>3. CASE ReadPolicy(x)
    BY <2>3 DEF ReadPolicy, NoFault, cluster, TypeOK
  <2>4. CASE AddPolicy(x)
    <3>1. h[x].pc \in AtPolicy
      BY <2>4 DEF AddPolicy, Step, AtPolicy
    <3>2. h[x].next \in Policies
      BY <1>1, <1>2, <3>1 DEF Reconciled, Policies
    <3> QED BY <2>4, <3>2 DEF AddPolicy, NoFault, TypeOK
  <2> QED BY <2>1, <2>2, <2>3, <2>4 DEF NamespaceStep
\* Goto: what is to be shown of the await it goes to.
<1>4. ASSUME NEW to \in PC, Goto(x, to), Reconciled(to, h[x].next, policies'),
             \/ h[x].pc \in InCreate /\ to \in InCreate \cup {"job", "fail"}
             \/ h[x].pc \in InDeploy /\ to \in InDeploy \cup {"d_workload", "idle"}
      PROVE  Result
  BY <1>4, GotoType DEF Goes
<1>5. ASSUME NEW kind \in {"create", "deploy"}, Fails(x, kind),
             \/ h[x].pc \in InCreate /\ kind = "create"
             \/ h[x].pc \in InDeploy /\ kind = "deploy"
      PROVE  Result
  <2>1. CASE kind = "create"
    <3>1. Goto(x, "fail") /\ "fail" \in PC /\ h[x].pc \in InCreate
      BY <1>5, <2>1 DEF Fails, To, PC, Creating
    <3>2. Reconciled("fail", h[x].next, policies')
      BY DEF Reconciled, Unready, AtPolicy
    <3> QED BY <1>4, <3>1, <3>2
  <2>2. CASE kind = "deploy"
    <3>1. Goto(x, "idle") /\ "idle" \in PC /\ h[x].pc \in InDeploy
      BY <1>5, <2>2 DEF Fails, To, PC
    <3>2. Reconciled("idle", h[x].next, policies')
      BY DEF Reconciled, Unready, AtPolicy
    <3> QED BY <1>4, <3>1, <3>2
  <2> QED BY <2>1, <2>2
<1>6. ASSUME ReadNamespace(x) PROVE Result
  <2> DEFINE kind == Step("c_namespace", "d_namespace", x)
  <2>1. \/ kind = "create" /\ h[x].pc = "c_namespace"
        \/ kind = "deploy" /\ h[x].pc = "d_namespace"
    BY <1>6 DEF ReadNamespace, Step
  <2>2. h[x].next = 1
    BY <1>2, <2>1 DEF Reconciled, Unready
  <2>3. \/ namespace /\ Reconcile(x, kind)
        \/ To(x, kind, "c_make", "d_make")
    BY <1>6, <2>1 DEF ReadNamespace
  <2> HIDE DEF kind, Result
  <2>4. ASSUME NEW to \in {"c_make", "c_policy", "job", "d_make", "d_policy", "d_workload"},
               to \in {"job", "d_workload"} => ~Isolation
        PROVE  Reconciled(to, h[x].next, policies')
    BY <1>1, <2>2, <2>4 DEF Reconciled, Unready, AtPolicy, Policies
  <2>5. CASE kind = "create"
    <3>1. \/ \E to \in {"c_make", "c_policy", "job"} : Goto(x, to) /\ (to = "job" => ~Isolation)
          \/ Fails(x, kind)
      BY <2>3, <2>5, BuildsAssumption DEF Reconcile, To
    <3> QED BY <1>4, <1>5, <2>1, <2>4, <2>5, <3>1 DEF InCreate, PC, Creating
  <2>6. CASE kind = "deploy"
    <3>1. \/ \E to \in {"d_make", "d_policy", "d_workload"} :
                Goto(x, to) /\ (to = "d_workload" => ~Isolation)
          \/ Fails(x, kind)
      BY <2>3, <2>6, BuildsAssumption DEF Reconcile, To
    <3> QED BY <1>4, <1>5, <2>1, <2>4, <2>6, <3>1 DEF InDeploy, PC, Deploying
  <2> QED BY <2>1, <2>5, <2>6
<1>7. ASSUME MakeNamespace(x) PROVE Result
  <2> DEFINE kind == Step("c_make", "d_make", x)
  <2>1. \/ kind = "create" /\ h[x].pc = "c_make"
        \/ kind = "deploy" /\ h[x].pc = "d_make"
    BY <1>7 DEF MakeNamespace, Step
  <2>2. h[x].next = 1
    BY <1>2, <2>1 DEF Reconciled, Unready
  <2>3. Reconcile(x, kind) \/ Fails(x, kind)
    BY <1>7, <2>1 DEF MakeNamespace
  <2> HIDE DEF kind, Result
  <2>4. ASSUME NEW to \in {"c_policy", "job", "d_policy", "d_workload"},
               to \in {"job", "d_workload"} => ~Isolation
        PROVE  Reconciled(to, h[x].next, policies')
    BY <1>1, <2>2, <2>4 DEF Reconciled, Unready, AtPolicy, Policies
  <2>5. CASE kind = "create" /\ Reconcile(x, kind)
    <3>1. \/ \E to \in {"c_policy", "job"} : Goto(x, to) /\ (to = "job" => ~Isolation)
          \/ Fails(x, kind)
      BY <2>5, BuildsAssumption DEF Reconcile, To
    <3> QED BY <1>4, <1>5, <2>1, <2>4, <2>5, <3>1 DEF InCreate, PC, Creating
  <2>6. CASE kind = "deploy" /\ Reconcile(x, kind)
    <3>1. \/ \E to \in {"d_policy", "d_workload"} : Goto(x, to) /\ (to = "d_workload" => ~Isolation)
          \/ Fails(x, kind)
      BY <2>6, BuildsAssumption DEF Reconcile, To
    <3> QED BY <1>4, <1>5, <2>1, <2>4, <2>6, <3>1 DEF InDeploy, PC, Deploying
  <2> QED BY <1>5, <2>1, <2>3, <2>5, <2>6 DEF InCreate, InDeploy
\* The policy the request is at is there: what is true of those before it is true with it.
<1>8. ASSUME NEW kind \in {"create", "deploy"}, Following(x, kind), h[x].next \in policies',
             \/ h[x].pc \in {"c_policy", "c_add"} /\ kind = "create"
             \/ h[x].pc \in {"d_policy", "d_add"} /\ kind = "deploy"
      PROVE  Result
  <2>1. h[x].next # NumPolicies + 1 /\ \A p \in Policies : p < h[x].next => p \in policies'
    BY <1>2, <1>3, <1>8 DEF Reconciled, AtPolicy
  <2>2. \A p \in Policies : p < h[x].next + 1 => p \in policies'
    BY <1>1, <1>8, <2>1 DEF Policies
  <2>3. h[x].next = NumPolicies => AllPolicies(policies')
    BY <1>1, <2>2 DEF Policies, AllPolicies
  <2>4. h'[x].next = h[x].next + 1
    BY <1>8, <2>1, FollowingType
  <2>5. CASE kind = "create"
    <3>1. \E to \in {"job", "c_policy"} : Goes(x, to) /\ (to = "job" <=> h[x].next = NumPolicies)
      BY <1>8, <2>1, <2>5, FollowingType DEF Goes
    <3>2. Reconciled(h'[x].pc, h'[x].next, policies')
      BY <1>1, <2>2, <2>3, <2>4, <3>1 DEF Goes, Reconciled, Unready, AtPolicy
    <3> QED BY <1>8, <2>5, <3>1, <3>2 DEF InCreate
  <2>6. CASE kind = "deploy"
    <3>1. \E to \in {"d_workload", "d_policy"} :
             Goes(x, to) /\ (to = "d_workload" <=> h[x].next = NumPolicies)
      BY <1>8, <2>1, <2>6, FollowingType DEF Goes
    <3>2. Reconciled(h'[x].pc, h'[x].next, policies')
      BY <1>1, <2>2, <2>3, <2>4, <3>1 DEF Goes, Reconciled, Unready, AtPolicy
    <3> QED BY <1>8, <2>6, <3>1, <3>2 DEF InDeploy
  <2> QED BY <2>5, <2>6
<1>9. ASSUME ReadPolicy(x) PROVE Result
  <2> DEFINE kind == Step("c_policy", "d_policy", x)
  <2>1. \/ kind = "create" /\ h[x].pc = "c_policy"
        \/ kind = "deploy" /\ h[x].pc = "d_policy"
    BY <1>9 DEF ReadPolicy, Step
  <2>2. \/ h[x].next \in policies /\ Following(x, kind)
        \/ To(x, kind, "c_add", "d_add")
    BY <1>9 DEF ReadPolicy
  <2> HIDE DEF kind, Result
  <2>3. Reconciled("c_add", h[x].next, policies') /\ Reconciled("d_add", h[x].next, policies')
    BY <1>2, <1>3, <2>1 DEF Reconciled, Unready, AtPolicy
  <2>4. CASE Following(x, kind) /\ h[x].next \in policies
    BY <1>3, <1>8, <2>1, <2>4
  <2>5. CASE kind = "create" /\ Goto(x, "c_add")
    BY <1>4, <2>1, <2>3, <2>5 DEF InCreate, PC, Creating
  <2>6. CASE kind = "deploy" /\ Goto(x, "d_add")
    BY <1>4, <2>1, <2>3, <2>6 DEF InDeploy, PC, Deploying
  <2> QED BY <2>1, <2>2, <2>4, <2>5, <2>6 DEF To
<1>10. ASSUME AddPolicy(x) PROVE Result
  <2> DEFINE kind == Step("c_add", "d_add", x)
  <2>1. \/ kind = "create" /\ h[x].pc = "c_add"
        \/ kind = "deploy" /\ h[x].pc = "d_add"
    BY <1>10 DEF AddPolicy, Step
  <2>2. h[x].next \in policies' /\ (Fails(x, kind) \/ Following(x, kind))
    BY <1>10 DEF AddPolicy
  <2> HIDE DEF kind, Result
  <2> QED BY <1>5, <1>8, <2>1, <2>2 DEF InCreate, InDeploy
<1> QED BY <1>3, <1>6, <1>7, <1>9, <1>10 DEF NamespaceStep

-----------------------------------------------------------------------------
(* Type correctness *)

\* The row of a request is there, once a create has inserted it.
RowInv == \A x \in Handlers : h[x].pc \notin {"idle", "insert"} => status[h[x].b] # "absent"

\* What a handler does outside ensureNamespace.
Begins(x) == \E b \in BuildIds : BeginCreate(x, b) \/ BeginStatus(x, b) \/ BeginDeploy(x, b)
Creates(x) == InsertBuild(x) \/ CreateJob(x) \/ RecordRunning(x) \/ RecordFailure(x)
Reads(x) == ReadBuild(x) \/ ReadJob(x) \/ WriteStatus(x)
Deploys(x) == ResolveImage(x) \/ CreateWorkload(x)
Raises(x) == ClusterRaises(x) \/ RequestRaises(x)
HandlerStep(x) ==
  Begins(x) \/ NamespaceStep(x) \/ Creates(x) \/ Reads(x) \/ Deploys(x) \/ Raises(x)

\* A step is one of a handler, of a Job, or a stop of the manager.
LEMMA NextSplit ==
  ASSUME [Next]_vars
  PROVE  \/ \E x \in Handlers : HandlerStep(x)
         \/ \E b \in BuildIds : JobMoves(b)
         \/ ManagerStops
         \/ UNCHANGED vars
BY DEF Next, HandlerStep, Begins, NamespaceStep, Creates, Reads, Deploys, Raises

\* The request of a handler that is done.
Rests(x) == /\ h' \in [Handlers -> Request]
            /\ h'[x].pc = "idle" /\ h'[x].row = "pending" /\ h'[x].seen = "absent"
            /\ \A y \in Handlers : y # x => h'[y] = h[y]

\* A handler that is done rests.
LEMMA DoneRests == ASSUME TypeOK, NEW x \in Handlers, Done(x) PROVE Rests(x)
BY DoneType, IdleType DEF Rests

\* A handler that goes on keeps its place among the policies.
LEMMA GotoGoes ==
  ASSUME TypeOK, NEW x \in Handlers, NEW to \in PC, Goto(x, to)
  PROVE  Goes(x, to) /\ h'[x].next = h[x].next
BY GotoType DEF Goes

\* Of a status request: what it reads is a status and a phase.
LEMMA ReadMoves ==
  ASSUME TypeOK, RowInv, NEW x \in Handlers, ReadBuild(x) \/ ReadJob(x)
  PROVE  \/ Rests(x)
         \/ /\ h' \in [Handlers -> Request] /\ h'[x].b = h[x].b
            /\ \/ h'[x].pc = "s_job" /\ h'[x].row = status[h[x].b] /\ h'[x].seen = h[x].seen
               \/ h'[x].pc = "s_write" /\ h'[x].row = h[x].row /\ h'[x].seen = job[h[x].b]
            /\ \A y \in Handlers : y # x => h'[y] = h[y]
<1>1. /\ h[x].b \in BuildIds /\ h[x].next \in 1 .. NumPolicies + 1
      /\ h[x].row \in Statuses /\ h[x].seen \in JobPhase /\ h[x].alone \in BOOLEAN
  BY DEF TypeOK, Request
<1>2. job[h[x].b] \in JobPhase /\ status[h[x].b] \in Statuses \cup {"absent"}
  BY <1>1 DEF TypeOK
<1>3. CASE ReadBuild(x)
  <2> DEFINE r == Req("s_job", h[x].b, h[x].next, status[h[x].b], h[x].seen, h[x].alone)
  <2>1. status[h[x].b] \in Statuses
    BY <1>2, <1>3 DEF ReadBuild, RowInv
  <2>2. r \in Request /\ r.pc = "s_job" /\ r.b = h[x].b /\ r.row = status[h[x].b] /\ r.seen = h[x].seen
    BY <1>1, <2>1, ReqType DEF PC, Reading
  <2>3. h' = [h EXCEPT ![x] = r]
    BY <1>3 DEF ReadBuild, Serves
  <2> HIDE DEF r
  <2> QED BY <2>2, <2>3 DEF TypeOK
<1>4. CASE ReadJob(x) /\ ~Done(x)
  <2> DEFINE r == Req("s_write", h[x].b, h[x].next, h[x].row, job[h[x].b], h[x].alone)
  <2>1. r \in Request /\ r.pc = "s_write" /\ r.b = h[x].b /\ r.row = h[x].row /\ r.seen = job[h[x].b]
    BY <1>1, <1>2, ReqType DEF PC, Reading
  <2>2. h' = [h EXCEPT ![x] = r]
    BY <1>4 DEF ReadJob, Serves
  <2> HIDE DEF r
  <2> QED BY <2>1, <2>2 DEF TypeOK
<1> QED BY <1>3, <1>4, DoneRests

\* getBuildStatusFromJob: an ended Job gives the build its phase, any other leaves it or makes it running.
LEMMA StatusFromJobType ==
  ASSUME NEW current \in Statuses, NEW phase \in JobPhase
  PROVE  /\ StatusFromJob(current, phase) \in Statuses
         /\ phase \in Ended => StatusFromJob(current, phase) = phase
         /\ phase \notin Ended => StatusFromJob(current, phase) \in {current, "running"}
BY DEF StatusFromJob, Statuses, JobPhase, Ended

BaseInv == TypeOK /\ RowInv /\ PolicyInv

\* No rows and no requests at first.
LEMMA InitBase == Init => BaseInv
<1> SUFFICES ASSUME Init PROVE BaseInv
  OBVIOUS
<1>1. TypeOK
  BY IdleType DEF Init, TypeOK, Policies, JobPhase
<1>2. RowInv /\ PolicyInv
  BY IdleType DEF Init, RowInv, PolicyInv, Reconciled, Unready, AtPolicy
<1> QED BY <1>1, <1>2 DEF BaseInv

\* A step of one handler disturbs the rows and the requests of the others no further than to
\* keep every row that is there.
LEMMA BaseKept ==
  ASSUME BaseInv, NEW x \in Handlers,
         \A y \in Handlers : y # x =>
           h'[y].pc = h[y].pc /\ h'[y].b = h[y].b /\ h'[y].next = h[y].next,
         policies \subseteq policies',
         \A b \in BuildIds : status[b] # "absent" => status'[b] # "absent",
         Reconciled(h'[x].pc, h'[x].next, policies'),
         h'[x].pc \notin {"idle", "insert"} => status'[h'[x].b] # "absent"
  PROVE  RowInv' /\ PolicyInv'
<1>1. ASSUME NEW y \in Handlers, y # x
      PROVE  /\ Reconciled(h'[y].pc, h'[y].next, policies')
             /\ h'[y].pc \notin {"idle", "insert"} => status'[h'[y].b] # "absent"
  <2>1. h'[y].pc = h[y].pc /\ h'[y].b = h[y].b /\ h'[y].next = h[y].next
    BY <1>1
  <2>2. /\ Reconciled(h[y].pc, h[y].next, policies)
        /\ h[y].pc \notin {"idle", "insert"} => status[h[y].b] # "absent"
    BY DEF BaseInv, PolicyInv, RowInv
  <2>3. h[y].b \in BuildIds
    BY DEF BaseInv, TypeOK, Request
  <2>4. Reconciled(h[y].pc, h[y].next, policies')
    BY <2>2 DEF Reconciled, AllPolicies
  <2> QED BY <2>1, <2>2, <2>3, <2>4
<1> QED BY <1>1 DEF RowInv, PolicyInv

\* A handler's step keeps the types, the rows and the policies, whatever it does.
LEMMA HandlerBase ==
  ASSUME BaseInv, NEW x \in Handlers, HandlerStep(x)
  PROVE  BaseInv'
<1> USE DEF BaseInv
<1>1. h[x].b \in BuildIds /\ h[x].next \in 1 .. NumPolicies + 1
      /\ h[x].row \in Statuses /\ h[x].seen \in JobPhase
  BY DEF TypeOK, Request
<1>2. Reconciled(h[x].pc, h[x].next, policies)
  BY DEF PolicyInv
<1>3. ASSUME Rests(x), policies \subseteq policies',
             \A b \in BuildIds : status[b] # "absent" => status'[b] # "absent"
      PROVE  RowInv' /\ PolicyInv'
  BY <1>3, BaseKept DEF Rests, Reconciled, Unready, AtPolicy
<1>4. ASSUME NEW to \in PC, Goes(x, to), h'[x].next = h[x].next,
             h[x].pc \notin {"idle", "insert"} \/ status'[h[x].b] # "absent",
             policies \subseteq policies', Reconciled(to, h[x].next, policies'),
             \A b \in BuildIds : status[b] # "absent" => status'[b] # "absent"
      PROVE  RowInv' /\ PolicyInv'
  BY <1>1, <1>4, BaseKept DEF Goes, RowInv
<1>5. CASE Begins(x)
  <2>1. PICK b \in BuildIds : BeginCreate(x, b) \/ BeginStatus(x, b) \/ BeginDeploy(x, b)
    BY <1>5 DEF Begins
  <2>2. PICK first \in {"insert", "s_row", "d_build"} :
             Take(x, b, first) /\ (first # "insert" => status[b] # "absent")
    BY <2>1 DEF BeginCreate, BeginStatus, BeginDeploy
  <2>3. first \in PC
    BY <2>2 DEF PC, Creating, Reading, Deploying
  <2>4. UNCHANGED <<status, namespace, policies, job, workload, settled, cut, faults, stops>>
        /\ calm' \in BOOLEAN
    BY <2>2 DEF Take, cluster, history, TypeOK
  <2>5. TypeOK'
    BY <2>2, <2>3, <2>4, TakeType DEF TypeOK
  <2>6. Reconciled(h'[x].pc, h'[x].next, policies')
    BY <2>2, <2>3, TakeType DEF Reconciled, Unready, AtPolicy
  <2> QED BY <2>2, <2>3, <2>4, <2>5, <2>6, TakeType, BaseKept
<1>6. CASE NamespaceStep(x)
  <2>1. /\ UNCHANGED <<status, job, workload, settled, cut, calm, faults, stops>>
        /\ namespace' \in BOOLEAN /\ policies' \in SUBSET Policies /\ policies \subseteq policies'
        /\ Reconciled(h'[x].pc, h'[x].next, policies')
    BY <1>6, NamespaceMoves
  <2>2. PICK to \in InCreate \cup InDeploy \cup {"job", "fail", "d_workload", "idle"} : Goes(x, to)
    BY <1>6, NamespaceMoves
  <2>3. status[h[x].b] # "absent"
    BY <1>6, NamespaceMoves DEF RowInv, InCreate, InDeploy
  <2>4. TypeOK'
    BY <2>1, <2>2 DEF TypeOK, Goes
  <2> QED BY <2>1, <2>2, <2>3, <2>4, BaseKept DEF Goes
<1>7. CASE Creates(x)
  <2>1. CASE InsertBuild(x)
    <3>1. Goes(x, "c_namespace") /\ h'[x].next = h[x].next
      BY <2>1, GotoGoes DEF InsertBuild, PC, Creating
    <3>2. /\ status' = [status EXCEPT ![h[x].b] = "pending"] /\ h[x].pc = "insert"
          /\ UNCHANGED <<namespace, policies, job, workload, settled, cut, calm, faults, stops>>
      BY <2>1 DEF InsertBuild, Record, NoFault, cluster
    <3>3. Reconciled("c_namespace", h[x].next, policies')
      BY <1>2, <3>2 DEF Reconciled, Unready, AtPolicy
    <3>4. TypeOK'
      BY <1>1, <3>1, <3>2 DEF TypeOK, Goes, Statuses
    <3> QED BY <1>1, <1>4, <3>1, <3>2, <3>3, <3>4 DEF PC, Creating, TypeOK
  <2>2. CASE CreateJob(x)
    <3>1. Goes(x, "running") /\ h'[x].next = h[x].next
      BY <2>2, GotoGoes DEF CreateJob, PC, Creating
    <3>2. /\ job' = [job EXCEPT ![h[x].b] = "new"]
          /\ UNCHANGED <<status, namespace, policies, workload, settled, cut, calm, faults, stops>>
      BY <2>2 DEF CreateJob, NoFault
    <3>3. TypeOK'
      BY <1>1, <3>1, <3>2 DEF TypeOK, Goes, JobPhase
    <3>4. h[x].pc = "job"
      BY <2>2 DEF CreateJob
    <3> QED BY <1>4, <3>1, <3>2, <3>3, <3>4 DEF PC, Creating, Reconciled, Unready, AtPolicy
  <2>3. CASE RecordRunning(x) \/ RecordFailure(x)
    <3>1. Rests(x)
      BY <2>3, DoneRests DEF RecordRunning, RecordFailure
    <3>2. /\ \E s \in {"running", "failed"} : status' = [status EXCEPT ![h[x].b] = s]
          /\ UNCHANGED <<namespace, policies, job, workload, settled, cut, calm, faults, stops>>
      BY <2>3 DEF RecordRunning, RecordFailure, Record, NoFault, cluster
    <3>3. TypeOK'
      BY <1>1, <3>1, <3>2 DEF TypeOK, Rests, Statuses
    <3> QED BY <1>1, <1>3, <3>1, <3>2, <3>3 DEF TypeOK
  <2> QED BY <1>7, <2>1, <2>2, <2>3 DEF Creates
<1>8. CASE Reads(x)
  <2>1. CASE ReadBuild(x) \/ ReadJob(x)
    <3>1. UNCHANGED <<status, namespace, policies, job, workload, settled, cut, calm, faults, stops>>
      BY <2>1 DEF ReadBuild, ReadJob, NoFault, cluster
    <3>2. TypeOK'
      BY <2>1, <3>1, ReadMoves DEF TypeOK, Rests
    <3>3. CASE Rests(x)
      BY <1>3, <3>1, <3>2, <3>3
    <3>4. CASE /\ h'[x].pc \in {"s_job", "s_write"} /\ h'[x].b = h[x].b
               /\ \A y \in Handlers : y # x => h'[y] = h[y]
      <4>1. status[h[x].b] # "absent"
        BY <2>1 DEF ReadBuild, ReadJob, RowInv
      <4>2. Reconciled(h'[x].pc, h'[x].next, policies')
        BY <3>4 DEF Reconciled, Unready, AtPolicy
      <4> QED BY <3>1, <3>2, <3>4, <4>1, <4>2, BaseKept
    <3> QED BY <2>1, <3>3, <3>4, ReadMoves
  <2>2. CASE WriteStatus(x)
    <3>1. Rests(x)
      BY <2>2, DoneRests DEF WriteStatus
    <3>2. /\ UNCHANGED <<namespace, policies, job, workload, cut, calm, faults, stops>>
          /\ status' = status \/ \E s \in Statuses : status' = [status EXCEPT ![h[x].b] = s]
          /\ settled' \in {settled, settled \cup {h[x].b}}
      BY <1>1, <2>2, StatusFromJobType DEF WriteStatus, NoFault, cluster
    <3>3. TypeOK'
      BY <1>1, <3>1, <3>2 DEF TypeOK, Rests
    <3> QED BY <1>1, <1>3, <3>1, <3>2, <3>3 DEF TypeOK, Statuses
  <2> QED BY <1>8, <2>1, <2>2 DEF Reads
<1>9. CASE Deploys(x)
  <2>1. CASE ResolveImage(x)
    <3>1. UNCHANGED <<status, namespace, policies, job, workload, settled, cut, calm, faults, stops>>
          /\ h[x].pc = "d_build"
      BY <2>1 DEF ResolveImage, NoFault, cluster
    <3>2. CASE Goto(x, "d_namespace")
      <4>1. Goes(x, "d_namespace") /\ h'[x].next = h[x].next /\ "d_namespace" \in PC
        BY <3>2, GotoGoes DEF PC, Deploying
      <4>2. Reconciled("d_namespace", h[x].next, policies')
        BY <1>2, <3>1 DEF Reconciled, Unready, AtPolicy
      <4>3. TypeOK'
        BY <3>1, <4>1 DEF TypeOK, Goes
      <4> QED BY <1>4, <3>1, <4>1, <4>2, <4>3
    <3>3. CASE Done(x)
      <4>1. Rests(x)
        BY <3>3, DoneRests
      <4>2. TypeOK'
        BY <3>1, <4>1 DEF TypeOK, Rests
      <4> QED BY <1>3, <3>1, <4>1, <4>2
    <3> QED BY <2>1, <3>2, <3>3 DEF ResolveImage
  <2>2. CASE CreateWorkload(x)
    <3>1. Rests(x)
      BY <2>2, DoneRests DEF CreateWorkload
    <3>2. /\ UNCHANGED <<status, namespace, policies, job, settled, cut, calm, faults, stops>>
          /\ workload' = workload \cup {h[x].b}
      BY <2>2 DEF CreateWorkload, NoFault, cluster
    <3>3. TypeOK'
      BY <1>1, <3>1, <3>2 DEF TypeOK, Rests
    <3> QED BY <1>3, <3>1, <3>2, <3>3
  <2> QED BY <1>9, <2>1, <2>2 DEF Deploys
<1>10. CASE Raises(x)
  <2>1. faults' \in Nat /\ calm' \in BOOLEAN /\ UNCHANGED <<workload, settled, stops>>
    <3>1. Fault /\ UNCHANGED <<workload, settled>>
      BY <1>10 DEF Raises, ClusterRaises, RequestRaises, history
    <3>2. faults' = faults + 1 /\ UNCHANGED stops
      BY <3>1 DEF Fault
    <3>3. calm' \in BOOLEAN
      BY <3>1, Zenon DEF Fault
    <3> QED BY <3>1, <3>2, <3>3 DEF TypeOK
  <2>2. CASE ClusterRaises(x)
    <3>1. Goes(x, "fail") /\ h'[x].next = h[x].next /\ "fail" \in PC
      BY <2>2, GotoGoes DEF ClusterRaises, PC, Creating
    <3>2. UNCHANGED <<status, cut>> /\ namespace' \in BOOLEAN /\ job' \in [BuildIds -> JobPhase]
          /\ policies \subseteq policies'
      BY <1>1, <2>2 DEF ClusterRaises, history, cluster, TypeOK, JobPhase
    <3>3. policies' \in SUBSET Policies
      <4>1. h[x].pc = "c_add" => h[x].next \in Policies
        BY <1>1, <1>2, BuildsAssumption DEF Reconciled, AtPolicy, Policies
      <4> QED BY <2>2, <4>1 DEF ClusterRaises, cluster, TypeOK
    <3>4. TypeOK'
      BY <2>1, <3>1, <3>2, <3>3 DEF TypeOK, Goes
    <3>5. h[x].pc \notin {"idle", "insert"}
      BY <2>2 DEF ClusterRaises, InCluster
    <3> QED BY <1>4, <3>1, <3>2, <3>4, <3>5 DEF Reconciled, Unready, AtPolicy
  <2>3. CASE RequestRaises(x)
    <3>1. Rests(x)
      BY <2>3, DoneRests DEF RequestRaises
    <3>2. /\ UNCHANGED <<namespace, policies, job>>
          /\ \/ status' = status
             \/ \E s \in {"pending", "running"} : status' = [status EXCEPT ![h[x].b] = s]
          /\ cut' \in {cut, cut \cup {h[x].b}}
      BY <2>3 DEF RequestRaises, Record, cluster
    <3>3. TypeOK'
      BY <1>1, <2>1, <3>1, <3>2 DEF TypeOK, Rests, Statuses
    <3> QED BY <1>1, <1>3, <3>1, <3>2, <3>3 DEF TypeOK
  <2> QED BY <1>10, <2>2, <2>3 DEF Raises
<1> QED BY <1>5, <1>6, <1>7, <1>8, <1>9, <1>10 DEF HandlerStep

\* So does every step.
LEMMA NextBase == BaseInv /\ [Next]_vars => BaseInv'
<1> SUFFICES ASSUME BaseInv, [Next]_vars PROVE BaseInv'
  OBVIOUS
<1> USE DEF BaseInv
<1>1. ASSUME NEW b \in BuildIds, JobMoves(b) PROVE BaseInv'
  <2>1. /\ UNCHANGED <<status, namespace, policies, workload, h, settled, cut, calm, faults, stops>>
        /\ job' \in [BuildIds -> JobPhase]
    BY <1>1 DEF JobMoves, history, TypeOK, JobPhase, Ended
  <2> QED BY <2>1 DEF TypeOK, RowInv, PolicyInv, Reconciled, AllPolicies
<1>2. CASE ManagerStops
  <2>1. /\ UNCHANGED <<status, namespace, policies, job, workload, settled, faults>>
        /\ h' = [x \in Handlers |-> NoRequest] /\ calm' \in BOOLEAN /\ stops' \in Nat
    <3>1. UNCHANGED <<status, namespace, policies, job, workload, settled, faults>>
      BY <1>2 DEF ManagerStops, cluster
    <3>2. h' = [x \in Handlers |-> NoRequest] /\ stops' \in Nat
      BY <1>2 DEF ManagerStops, TypeOK
    <3>3. calm' \in BOOLEAN
      BY <1>2, Zenon DEF ManagerStops
    <3> QED BY <3>1, <3>2, <3>3
  <2>2. cut' \in SUBSET BuildIds
    BY <1>2 DEF ManagerStops, TypeOK, Request
  <2>3. TypeOK'
    BY <2>1, <2>2, IdleType DEF TypeOK
  <2> QED BY <2>1, <2>3, IdleType DEF RowInv, PolicyInv, Reconciled, Unready, AtPolicy
<1>3. CASE UNCHANGED vars
  BY <1>3 DEF vars, cluster, history, TypeOK, RowInv, PolicyInv, Reconciled, AllPolicies
<1> QED BY <1>1, <1>2, <1>3, HandlerBase, NextSplit

\* BaseInv is an invariant.
LEMMA BaseInvariant == Spec => []BaseInv
BY InitBase, NextBase, PTL DEF Spec

\* The row, the cluster, the requests and the counters of builds keep their types, whatever
\* interleaves, fails or stops (BuildsService, KubernetesService.ensureNamespace).
THEOREM TypeCorrect == Spec => []TypeOK
<1>1. BaseInv => TypeOK
  BY DEF BaseInv
<1> QED BY <1>1, BaseInvariant, PTL

-----------------------------------------------------------------------------
(* What is deployed was built *)

BeforeJob  == {"insert", "c_namespace", "c_make", "c_policy", "c_add", "job"}
AfterBuild == {"d_namespace", "d_make", "d_policy", "d_add", "d_workload"}

\* What a request on b believes of the Job of b, whose phase is phase.
Sound(r, phase) ==
  /\ r.row = "succeeded" => phase = "succeeded"
  /\ r.seen \in Ended => phase = r.seen
  /\ r.pc \in AfterBuild => phase = "succeeded"
  /\ r.pc \in BeforeJob => phase = "absent"

RowsInv == \A b \in BuildIds : /\ status[b] = "absent" => job[b] = "absent"
                               /\ status[b] = "succeeded" => job[b] = "succeeded"
SoundInv == \A x \in Handlers : Sound(h[x], job[h[x].b])
OneCreator ==
  \A x, y \in Handlers : h[x].pc \in Creating /\ h[y].pc \in Creating /\ h[x].b = h[y].b => x = y

\* The inductive invariant: a record of success, and whoever has read one, is right, because a
\* Job is made once, by the one request that creates its build, and its end is final.
BuildInv == RowsInv /\ SoundInv /\ OneCreator /\ DeployedIsBuilt

\* A step of x that leaves the Jobs alone.
LEMMA BuildKept ==
  ASSUME BaseInv, BuildInv, NEW x \in Handlers, UNCHANGED job, RowsInv', DeployedIsBuilt',
         h' \in [Handlers -> Request],
         \A y \in Handlers : y # x => h'[y].pc = h[y].pc /\ h'[y].b = h[y].b
                                      /\ h'[y].row = h[y].row /\ h'[y].seen = h[y].seen,
         Sound(h'[x], job[h'[x].b]),
         h'[x].pc \in Creating =>
           \/ h[x].pc \in Creating /\ h'[x].b = h[x].b
           \/ \A y \in Handlers : h[y].pc \in Creating => h[y].b # h'[x].b
  PROVE  BuildInv'
<1>1. SoundInv'
  BY DEF BuildInv, SoundInv, Sound
<1>2. OneCreator'
  BY DEF BuildInv, OneCreator
<1> QED BY <1>1, <1>2 DEF BuildInv

\* The Job of a build is made by its creator, when nothing is known of it yet.
LEMMA JobMade ==
  ASSUME BaseInv, BuildInv, NEW x \in Handlers, h[x].pc = "job",
         NEW to \in {"running", "fail"}, Goes(x, to),
         job' = [job EXCEPT ![h[x].b] = "new"], UNCHANGED <<status, workload>>
  PROVE  BuildInv'
<1>1. h[x].b \in BuildIds /\ job[h[x].b] = "absent"
  BY DEF BaseInv, TypeOK, Request, BuildInv, SoundInv, Sound, BeforeJob
<1>2. status[h[x].b] # "absent"
  BY DEF BaseInv, RowInv
<1>3. RowsInv'
  BY <1>1, <1>2 DEF BaseInv, TypeOK, BuildInv, RowsInv
<1>4. DeployedIsBuilt'
  BY <1>1 DEF BaseInv, TypeOK, BuildInv, DeployedIsBuilt
<1>5. OneCreator'
  BY DEF BuildInv, OneCreator, Goes, Creating
<1>6. SoundInv'
  <2>1. ASSUME NEW y \in Handlers, y # x PROVE Sound(h'[y], job'[h'[y].b])
    <3>1. h'[y] = h[y] /\ h[y].b \in BuildIds /\ Sound(h[y], job[h[y].b])
      BY <2>1 DEF Goes, BaseInv, TypeOK, Request, BuildInv, SoundInv
    <3>2. CASE h[y].b # h[x].b
      BY <3>1, <3>2 DEF BaseInv, TypeOK
    <3>3. CASE h[y].b = h[x].b
      <4>1. h[y].pc \notin BeforeJob
        BY <2>1, <3>3 DEF BuildInv, OneCreator, BeforeJob, Creating
      <4>2. job'[h[y].b] = "new"
        BY <1>1, <3>3 DEF BaseInv, TypeOK
      <4> QED BY <1>1, <3>1, <3>3, <4>1, <4>2 DEF Sound, Ended
    <3> QED BY <3>2, <3>3
  <2>2. Sound(h'[x], job'[h'[x].b])
    <3>1. Sound(h[x], job[h[x].b])
      BY DEF BuildInv, SoundInv
    <3> QED BY <1>1, <3>1 DEF Goes, Sound, BeforeJob, AfterBuild, Ended
  <2> QED BY <2>1, <2>2 DEF SoundInv
<1> QED BY <1>3, <1>4, <1>5, <1>6 DEF BuildInv

\* A handler's step keeps one creator for each build and what is known of its Job's end.
LEMMA HandlerBuild ==
  ASSUME BaseInv, BuildInv, NEW x \in Handlers, HandlerStep(x)
  PROVE  BuildInv'
<1>1. /\ h[x].b \in BuildIds /\ h[x].row \in Statuses /\ h[x].seen \in JobPhase
      /\ job[h[x].b] \in JobPhase /\ status \in [BuildIds -> Statuses \cup {"absent"}]
  BY DEF BaseInv, TypeOK, Request
<1>2. Sound(h[x], job[h[x].b]) /\ RowsInv /\ DeployedIsBuilt
  BY DEF BuildInv, SoundInv
<1>3. h[x].pc \notin {"idle", "insert"} => status[h[x].b] # "absent"
  BY DEF BaseInv, RowInv
\* A request that is done, and may have written the row.
<1>4. ASSUME Rests(x), UNCHANGED job, RowsInv', DeployedIsBuilt' PROVE BuildInv'
  BY <1>4, BuildKept DEF Rests, Sound, Creating, BeforeJob, AfterBuild, Ended
<1>5. ASSUME UNCHANGED <<status, job, workload>> PROVE RowsInv' /\ DeployedIsBuilt'
  BY <1>2, <1>5 DEF RowsInv, DeployedIsBuilt
<1>6. CASE Begins(x)
  <2>1. PICK b \in BuildIds : BeginCreate(x, b) \/ BeginStatus(x, b) \/ BeginDeploy(x, b)
    BY <1>6 DEF Begins
  <2>2. UNCHANGED <<status, job, workload>>
    BY <2>1 DEF BeginCreate, BeginStatus, BeginDeploy, Take, cluster
  <2>3. CASE BeginCreate(x, b)
    <3>1. /\ status[b] = "absent" /\ Take(x, b, "insert") /\ "insert" \in PC
          /\ \A y \in Handlers : h[y].pc \in Creating => h[y].b # b
      BY <2>3 DEF BeginCreate, PC, Creating
    <3>2. Sound(h'[x], job[h'[x].b])
      BY <1>2, <3>1, TakeType DEF BaseInv, RowsInv, Sound, Ended, AfterBuild
    <3> QED BY <1>5, <2>2, <3>1, <3>2, TakeType, BuildKept DEF BaseInv
  <2>4. CASE BeginStatus(x, b) \/ BeginDeploy(x, b)
    <3>1. PICK first \in {"s_row", "d_build"} : Take(x, b, first)
      BY <2>4 DEF BeginStatus, BeginDeploy
    <3>2. first \in PC /\ first \notin Creating /\ first \notin BeforeJob \cup AfterBuild
      BY <3>1 DEF PC, Creating, Reading, Deploying, BeforeJob, AfterBuild
    <3>3. Sound(h'[x], job[h'[x].b])
      BY <3>1, <3>2, TakeType DEF BaseInv, Sound, Ended
    <3> QED BY <1>5, <2>2, <3>1, <3>2, <3>3, TakeType, BuildKept DEF BaseInv
  <2> QED BY <2>1, <2>3, <2>4
<1>7. CASE NamespaceStep(x)
  <2>1. UNCHANGED <<status, job, workload>>
    BY <1>7, NamespaceMoves DEF BaseInv
  <2>2. CASE h[x].pc \in InCreate /\ \E to \in InCreate \cup {"job", "fail"} : Goes(x, to)
    <3>1. Sound(h'[x], job[h'[x].b])
      BY <1>2, <2>2 DEF Goes, Sound, InCreate, BeforeJob, AfterBuild
    <3>2. h[x].pc \in Creating /\ h'[x].b = h[x].b
      BY <2>2 DEF Goes, InCreate, Creating
    <3> QED BY <1>5, <2>1, <2>2, <3>1, <3>2, BuildKept DEF Goes
  <2>3. CASE h[x].pc \in InDeploy /\ \E to \in InDeploy \cup {"d_workload", "idle"} : Goes(x, to)
    <3>1. Sound(h'[x], job[h'[x].b])
      BY <1>2, <2>3 DEF Goes, Sound, InDeploy, BeforeJob, AfterBuild
    <3>2. h'[x].pc \notin Creating
      BY <2>3 DEF Goes, InDeploy, Creating
    <3> QED BY <1>5, <2>1, <2>3, <3>1, <3>2, BuildKept DEF Goes
  <2> QED BY <1>7, <2>2, <2>3, NamespaceMoves DEF BaseInv
<1>8. CASE Creates(x)
  <2>1. CASE InsertBuild(x)
    <3>1. Goes(x, "c_namespace") /\ h[x].pc = "insert" /\ UNCHANGED <<job, workload>>
          /\ status' = [status EXCEPT ![h[x].b] = "pending"]
      BY <2>1, GotoGoes DEF BaseInv, InsertBuild, Record, PC, Creating, cluster
    <3>2. RowsInv' /\ DeployedIsBuilt'
      BY <1>1, <1>2, <3>1 DEF RowsInv, DeployedIsBuilt
    <3>3. Sound(h'[x], job[h'[x].b])
      BY <1>2, <3>1 DEF Goes, Sound, BeforeJob, AfterBuild
    <3> QED BY <3>1, <3>2, <3>3, BuildKept DEF Goes, Creating
  <2>2. CASE CreateJob(x)
    <3>1. Goes(x, "running")
      BY <2>2, GotoGoes DEF BaseInv, CreateJob, PC, Creating
    <3> QED BY <2>2, <3>1, JobMade DEF CreateJob
  <2>3. CASE RecordRunning(x) \/ RecordFailure(x)
    <3>1. Rests(x)
      BY <2>3, DoneRests DEF BaseInv, RecordRunning, RecordFailure
    <3>2. /\ \E s \in {"running", "failed"} : status' = [status EXCEPT ![h[x].b] = s]
          /\ UNCHANGED <<job, workload>>
      BY <2>3 DEF RecordRunning, RecordFailure, Record, cluster
    <3>3. RowsInv' /\ DeployedIsBuilt'
      BY <1>1, <1>2, <3>2 DEF RowsInv, DeployedIsBuilt
    <3> QED BY <1>4, <3>1, <3>2, <3>3
  <2> QED BY <1>8, <2>1, <2>2, <2>3 DEF Creates
<1>9. CASE Reads(x)
  <2>1. CASE ReadBuild(x) \/ ReadJob(x)
    <3>1. UNCHANGED <<status, job, workload>> /\ RowsInv' /\ DeployedIsBuilt'
      BY <1>5, <2>1 DEF ReadBuild, ReadJob, cluster
    <3>2. CASE Rests(x)
      BY <1>4, <3>1, <3>2
    <3>3. CASE ~Rests(x)
      <4>1. /\ h' \in [Handlers -> Request] /\ h'[x].b = h[x].b
            /\ \/ h'[x].pc = "s_job" /\ h'[x].row = status[h[x].b] /\ h'[x].seen = h[x].seen
               \/ h'[x].pc = "s_write" /\ h'[x].row = h[x].row /\ h'[x].seen = job[h[x].b]
            /\ \A y \in Handlers : y # x => h'[y] = h[y]
        BY <2>1, <3>3, ReadMoves DEF BaseInv
      <4>2. Sound(h'[x], job[h'[x].b]) /\ h'[x].pc \notin Creating
        BY <1>1, <1>2, <4>1 DEF Sound, RowsInv, Creating, BeforeJob, AfterBuild
      <4> QED BY <3>1, <4>1, <4>2, BuildKept
    <3> QED BY <3>2, <3>3
  <2>2. CASE WriteStatus(x)
    <3> DEFINE s == StatusFromJob(h[x].row, h[x].seen)
    <3>1. Rests(x) /\ h[x].pc = "s_write" /\ UNCHANGED <<job, workload>>
      BY <2>2, DoneRests DEF BaseInv, WriteStatus, cluster
    <3>2. status' = status \/ (s # h[x].row /\ status' = [status EXCEPT ![h[x].b] = s])
      BY <2>2 DEF WriteStatus
    <3>3. s \in Statuses /\ (s = "succeeded" /\ s # h[x].row => h[x].seen = "succeeded")
      BY <1>1, StatusFromJobType DEF Ended
    <3> HIDE DEF s
    <3>4. s = "succeeded" /\ s # h[x].row => job[h[x].b] = "succeeded"
      BY <1>2, <3>3 DEF Sound, Ended
    <3>5. status[h[x].b] # "absent" /\ s # "absent"
      BY <1>3, <3>1, <3>3 DEF Statuses
    <3>6. RowsInv'
      BY <1>1, <1>2, <3>1, <3>2, <3>4, <3>5 DEF RowsInv
    <3>7. DeployedIsBuilt'
      BY <1>2, <3>1 DEF DeployedIsBuilt
    <3> QED BY <1>4, <3>1, <3>6, <3>7
  <2> QED BY <1>9, <2>1, <2>2 DEF Reads
<1>10. CASE Deploys(x)
  <2>1. CASE ResolveImage(x)
    <3>1. UNCHANGED <<status, job, workload>> /\ RowsInv' /\ DeployedIsBuilt'
      BY <1>5, <2>1 DEF ResolveImage, cluster
    <3>2. CASE Done(x)
      BY <1>4, <3>1, <3>2, DoneRests DEF BaseInv
    <3>3. CASE status[h[x].b] = "succeeded" /\ Goto(x, "d_namespace")
      <4>1. Goes(x, "d_namespace")
        BY <3>3, GotoGoes DEF BaseInv, PC, Deploying
      <4>2. Sound(h'[x], job[h'[x].b]) /\ h'[x].pc \notin Creating
        BY <1>1, <1>2, <3>3, <4>1 DEF Goes, Sound, RowsInv, Creating, BeforeJob
      <4> QED BY <3>1, <4>1, <4>2, BuildKept DEF Goes
    <3> QED BY <2>1, <3>2, <3>3 DEF ResolveImage
  <2>2. CASE CreateWorkload(x)
    <3>1. Rests(x) /\ h[x].pc = "d_workload" /\ UNCHANGED <<status, job>>
          /\ workload' = workload \cup {h[x].b}
      BY <2>2, DoneRests DEF BaseInv, CreateWorkload, cluster
    <3>2. RowsInv' /\ DeployedIsBuilt'
      BY <1>2, <3>1 DEF RowsInv, DeployedIsBuilt, Sound, AfterBuild
    <3> QED BY <1>4, <3>1, <3>2
  <2> QED BY <1>10, <2>1, <2>2 DEF Deploys
<1>11. CASE Raises(x)
  <2>1. CASE ClusterRaises(x)
    <3>1. Goes(x, "fail") /\ h[x].pc \in InCluster /\ UNCHANGED <<status, workload>>
      BY <2>1, GotoGoes DEF BaseInv, ClusterRaises, PC, Creating
    <3>2. CASE h[x].pc = "job" /\ job' = [job EXCEPT ![h[x].b] = "new"]
      BY <3>1, <3>2, JobMade
    <3>3. CASE UNCHANGED job
      <4>1. Sound(h'[x], job[h'[x].b])
        BY <1>2, <3>1 DEF Goes, Sound, BeforeJob, AfterBuild
      <4>2. h[x].pc \in Creating /\ h'[x].b = h[x].b
        BY <3>1 DEF Goes, InCluster, Creating
      <4> QED BY <1>5, <3>1, <3>3, <4>1, <4>2, BuildKept DEF Goes
    <3> QED BY <2>1, <3>2, <3>3 DEF ClusterRaises, cluster
  <2>2. CASE RequestRaises(x)
    <3>1. Rests(x) /\ UNCHANGED <<job, workload>>
      BY <2>2, DoneRests DEF BaseInv, RequestRaises, cluster
    <3>2. \/ status' = status
          \/ \E s \in {"pending", "running"} : status' = [status EXCEPT ![h[x].b] = s]
      BY <2>2 DEF RequestRaises, Record
    <3>3. RowsInv' /\ DeployedIsBuilt'
      BY <1>1, <1>2, <3>1, <3>2 DEF RowsInv, DeployedIsBuilt
    <3> QED BY <1>4, <3>1, <3>3
  <2> QED BY <1>11, <2>1, <2>2 DEF Raises
<1> QED BY <1>6, <1>7, <1>8, <1>9, <1>10, <1>11 DEF HandlerStep

\* So does every step.
LEMMA NextBuild == BaseInv /\ BuildInv /\ [Next]_vars => BuildInv'
<1> SUFFICES ASSUME BaseInv, BuildInv, [Next]_vars PROVE BuildInv'
  OBVIOUS
<1> USE DEF BuildInv
<1>1. ASSUME NEW b \in BuildIds, JobMoves(b) PROVE BuildInv'
  <2>1. UNCHANGED <<status, workload, h>>
    BY <1>1 DEF JobMoves
  <2>2. /\ job[b] \in {"new", "active"}
        /\ \E e \in {"active"} \cup Ended : job' = [job EXCEPT ![b] = e]
    BY <1>1 DEF JobMoves
  <2>3. \A c \in BuildIds : /\ job[c] = "absent" <=> job'[c] = "absent"
                            /\ job[c] \in Ended => job'[c] = job[c]
    BY <2>2 DEF BaseInv, TypeOK, Ended
  <2>4. RowsInv' /\ OneCreator'
    BY <2>1, <2>3 DEF RowsInv, OneCreator, Ended
  <2>5. SoundInv'
    <3>1. ASSUME NEW x \in Handlers PROVE Sound(h[x], job'[h[x].b])
      BY <2>3 DEF BaseInv, TypeOK, Request, SoundInv, Sound, Ended
    <3> QED BY <2>1, <3>1 DEF SoundInv
  <2>6. DeployedIsBuilt'
    BY <2>1, <2>3 DEF BaseInv, TypeOK, DeployedIsBuilt, Ended
  <2> QED BY <2>4, <2>5, <2>6
<1>2. CASE ManagerStops
  <2>1. UNCHANGED <<status, job, workload>> /\ h' = [x \in Handlers |-> NoRequest]
    BY <1>2 DEF ManagerStops, cluster
  <2> QED BY <2>1, IdleType DEF RowsInv, SoundInv, Sound, OneCreator, DeployedIsBuilt,
                                Creating, BeforeJob, AfterBuild, Ended
<1>3. CASE UNCHANGED vars
  BY <1>3 DEF vars, cluster, RowsInv, SoundInv, OneCreator, DeployedIsBuilt, Sound
<1> QED BY <1>1, <1>2, <1>3, HandlerBuild, NextSplit

\* No build has a creator at first.
LEMMA InitBuild == Init => BuildInv
BY IdleType DEF Init, BuildInv, RowsInv, SoundInv, Sound, OneCreator, DeployedIsBuilt,
                Creating, BeforeJob, AfterBuild, Ended

\* Only an image that a Job has pushed is deployed (DeploymentsService.resolveDeploymentImage,
\* "Build must be succeeded before deployment"), however the writers of the row race.
THEOREM DeployedIsAlwaysBuilt == Spec => []DeployedIsBuilt
<1>1. BuildInv => DeployedIsBuilt
  BY DEF BuildInv
<1> QED BY <1>1, InitBuild, NextBuild, BaseInvariant, PTL DEF Spec

-----------------------------------------------------------------------------
(* No Job and no workload without the policies *)

\* What becomes of the policies, the Jobs and the workloads in one step.
LEMMA UseNeedsPolicies ==
  ASSUME BaseInv, [Next]_vars
  PROVE  /\ policies \subseteq policies'
         /\ \/ workload' = workload /\ \A b \in BuildIds : job[b] = "absent" => job'[b] = "absent"
            \/ Isolation => AllPolicies(policies)
<1> USE DEF BaseInv
<1>1. ASSUME NEW x \in Handlers, NamespaceStep(x)
      PROVE  policies \subseteq policies' /\ UNCHANGED <<job, workload>>
  BY <1>1, NamespaceMoves
<1>2. ASSUME NEW x \in Handlers, h[x].pc \in {"job", "d_workload"}
      PROVE  Isolation => AllPolicies(policies)
  BY <1>2 DEF PolicyInv, Reconciled
<1>3. ASSUME NEW x \in Handlers, Begins(x) PROVE UNCHANGED <<policies, job, workload>>
  BY <1>3 DEF Begins, BeginCreate, BeginStatus, BeginDeploy, Take, cluster
<1>4. ASSUME NEW x \in Handlers, Creates(x)
      PROVE  policies' = policies /\ workload' = workload /\ (job' = job \/ h[x].pc = "job")
  BY <1>4 DEF Creates, InsertBuild, CreateJob, RecordRunning, RecordFailure, cluster
<1>5. ASSUME NEW x \in Handlers, Reads(x) PROVE UNCHANGED <<policies, job, workload>>
  BY <1>5 DEF Reads, ReadBuild, ReadJob, WriteStatus, cluster
<1>6. ASSUME NEW x \in Handlers, Deploys(x)
      PROVE  UNCHANGED <<policies, job>> /\ (workload' = workload \/ h[x].pc = "d_workload")
  BY <1>6 DEF Deploys, ResolveImage, CreateWorkload, cluster
<1>7. ASSUME NEW x \in Handlers, Raises(x)
      PROVE  /\ policies \subseteq policies' /\ workload' = workload
             /\ job' = job \/ h[x].pc = "job"
  BY <1>7 DEF Raises, ClusterRaises, RequestRaises, cluster
<1>8. ASSUME NEW b \in BuildIds, JobMoves(b)
      PROVE  /\ UNCHANGED <<policies, workload>>
             /\ \A c \in BuildIds : job[c] = "absent" => job'[c] = "absent"
  BY <1>8 DEF JobMoves, TypeOK
<1>9. CASE ManagerStops
  BY <1>9 DEF ManagerStops, cluster
<1>10. CASE UNCHANGED vars
  BY <1>10 DEF vars, cluster
<1>11. CASE \E x \in Handlers : HandlerStep(x)
  BY <1>1, <1>2, <1>3, <1>4, <1>5, <1>6, <1>7, <1>11 DEF HandlerStep
<1> QED BY <1>8, <1>9, <1>10, <1>11, NextSplit

\* Every tenant NetworkPolicy is in the namespace before the first Job or workload is
\* (KubernetesService.ensureNamespace), also after creates that failed or stopped half way.
THEOREM IsolatedAlways == Spec => []IsolatedBeforeUse
<1>1. Init => IsolatedBeforeUse
  BY DEF Init, IsolatedBeforeUse
<1>2. BaseInv /\ IsolatedBeforeUse /\ [Next]_vars => IsolatedBeforeUse'
  BY UseNeedsPolicies DEF IsolatedBeforeUse, AllPolicies
<1> QED BY <1>1, <1>2, BaseInvariant, PTL DEF Spec

-----------------------------------------------------------------------------
(* Pending builds *)

\* A pending build has a request that creates it, unless a stop or the database cut it short
\* (BuildsService.create, whose catch records every other failure).
THEOREM PendingAlwaysCreated == Spec => []PendingIsCreated
<1> DEFINE Creator(b) == \E x \in Handlers : h[x].pc \in Creating /\ h[x].b = b
<1>1. Init => PendingIsCreated
  BY DEF Init, PendingIsCreated
<1>2. BaseInv /\ PendingIsCreated /\ [Next]_vars => PendingIsCreated'
  <2> SUFFICES ASSUME BaseInv, PendingIsCreated, [Next]_vars PROVE PendingIsCreated'
    OBVIOUS
  <2> USE DEF BaseInv
\* A step of x that writes no "pending" keeps the claim if x goes on creating its build.
  <2>1. ASSUME NEW x \in Handlers, cut \subseteq cut',
               \A b \in BuildIds : status'[b] = "pending" =>
                 /\ status[b] = "pending" \/ b \in cut' \/ (h'[x].pc \in Creating /\ h'[x].b = b)
                 /\ h[x].pc \in Creating /\ h[x].b = b =>
                      b \in cut' \/ (h'[x].pc \in Creating /\ h'[x].b = b),
               \A y \in Handlers : y # x => h'[y].pc = h[y].pc /\ h'[y].b = h[y].b
        PROVE  PendingIsCreated'
    <3>1. ASSUME NEW b \in BuildIds, status'[b] = "pending", b \notin cut', ~Creator(b)'
          PROVE  FALSE
      <4>1. status[b] = "pending" /\ b \notin cut
        BY <2>1, <3>1
      <4>2. PICK y \in Handlers : h[y].pc \in Creating /\ h[y].b = b
        BY <4>1 DEF PendingIsCreated
      <4> QED BY <2>1, <3>1, <4>2
    <3> QED BY <3>1 DEF PendingIsCreated
  <2>2. ASSUME NEW x \in Handlers, HandlerStep(x) PROVE PendingIsCreated'
    <3>1. h[x].b \in BuildIds /\ h[x].row \in Statuses /\ h[x].seen \in JobPhase
          /\ status \in [BuildIds -> Statuses \cup {"absent"}]
      BY DEF TypeOK, Request
    <3>2. CASE Begins(x)
      <4>1. PICK b \in BuildIds, first \in {"insert", "s_row", "d_build"} :
              Take(x, b, first) /\ first \in PC
        BY <3>2 DEF Begins, BeginCreate, BeginStatus, BeginDeploy, PC, Creating, Reading, Deploying
      <4>2. UNCHANGED <<status, cut>> /\ h[x].pc = "idle"
        BY <4>1 DEF Take, history
      <4> QED BY <2>1, <4>1, <4>2, TakeType DEF Creating
    <3>3. CASE NamespaceStep(x)
      <4>1. UNCHANGED <<status, cut>>
        BY <3>3, NamespaceMoves
      <4>2. CASE h[x].pc \in InCreate /\ \E to \in InCreate \cup {"job", "fail"} : Goes(x, to)
        BY <2>1, <4>1, <4>2 DEF Goes, InCreate, Creating
      <4>3. CASE h[x].pc \in InDeploy /\ \E to \in InDeploy \cup {"d_workload", "idle"} : Goes(x, to)
        BY <2>1, <4>1, <4>3 DEF Goes, InDeploy, Creating
      <4> QED BY <3>3, <4>2, <4>3, NamespaceMoves
    <3>4. CASE InsertBuild(x)
      <4>1. Goes(x, "c_namespace") /\ cut' = cut /\ status' = [status EXCEPT ![h[x].b] = "pending"]
        BY <3>4, GotoGoes DEF InsertBuild, Record, NoFault, PC, Creating
      <4> QED BY <2>1, <3>1, <4>1 DEF Goes, Creating
    <3>5. CASE CreateJob(x)
      <4>1. Goes(x, "running") /\ UNCHANGED <<status, cut>>
        BY <3>5, GotoGoes DEF CreateJob, NoFault, PC, Creating
      <4> QED BY <2>1, <4>1 DEF Goes, Creating
    <3>6. CASE RecordRunning(x) \/ RecordFailure(x)
      <4>1. Rests(x) /\ cut' = cut
            /\ \E s \in {"running", "failed"} : status' = [status EXCEPT ![h[x].b] = s]
        BY <3>6, DoneRests DEF RecordRunning, RecordFailure, Record, NoFault
      <4> QED BY <2>1, <3>1, <4>1 DEF Rests, Creating
    <3>7. CASE ReadBuild(x) \/ ReadJob(x)
      <4>1. UNCHANGED <<status, cut>> /\ h[x].pc \notin Creating
        BY <3>7 DEF ReadBuild, ReadJob, NoFault, Creating
      <4> QED BY <2>1, <3>7, <4>1, ReadMoves DEF Rests
    <3>8. CASE WriteStatus(x)
      <4> DEFINE s == StatusFromJob(h[x].row, h[x].seen)
      <4>1. Rests(x) /\ cut' = cut /\ h[x].pc \notin Creating
        BY <3>8, DoneRests DEF WriteStatus, NoFault, Creating
      <4>2. status' = status \/ (s # h[x].row /\ status' = [status EXCEPT ![h[x].b] = s])
        BY <3>8 DEF WriteStatus
      <4>3. s = "pending" => s = h[x].row
        BY <3>1, StatusFromJobType DEF Ended
      <4> HIDE DEF s
      <4> QED BY <2>1, <3>1, <4>1, <4>2, <4>3 DEF Rests
    <3>9. CASE Deploys(x)
      <4>1. UNCHANGED <<status, cut>> /\ h[x].pc \notin Creating
        BY <3>9 DEF Deploys, ResolveImage, CreateWorkload, NoFault, Creating
      <4>2. Rests(x) \/ Goes(x, "d_namespace")
        BY <3>9, DoneRests, GotoGoes DEF Deploys, ResolveImage, CreateWorkload, PC, Deploying
      <4> QED BY <2>1, <4>1, <4>2 DEF Rests, Goes
    <3>10. CASE ClusterRaises(x)
      <4>1. Goes(x, "fail") /\ UNCHANGED <<status, cut>>
        BY <3>10, GotoGoes DEF ClusterRaises, history, PC, Creating
      <4> QED BY <2>1, <4>1 DEF Goes, Creating
    <3>11. CASE RequestRaises(x)
      <4>1. Rests(x) /\ cut' = IF h[x].pc \in Creating THEN cut \cup {h[x].b} ELSE cut
        BY <3>11, DoneRests DEF RequestRaises
      <4>2. \/ status' = status
            \/ /\ h[x].pc \in {"insert", "running"}
               /\ \E s \in {"pending", "running"} : status' = [status EXCEPT ![h[x].b] = s]
        BY <3>11 DEF RequestRaises, Record
      <4> QED BY <2>1, <3>1, <4>1, <4>2 DEF Rests, Creating
    <3> QED BY <2>2, <3>2, <3>3, <3>4, <3>5, <3>6, <3>7, <3>8, <3>9, <3>10, <3>11
          DEF HandlerStep, Creates, Reads, Raises
  <2>3. CASE ManagerStops
    BY <2>3 DEF ManagerStops, PendingIsCreated
  <2>4. CASE (\E b \in BuildIds : JobMoves(b)) \/ UNCHANGED vars
    BY <2>4 DEF JobMoves, vars, history, PendingIsCreated
  <2> QED BY <2>2, <2>3, <2>4, NextSplit
<1> QED BY <1>1, <1>2, BaseInvariant, PTL DEF Spec
-----------------------------------------------------------------------------
(* The end of a build is found again *)

\* Only a request that begins says whether it is alone, and others only forget it.
LEMMA TakeAlone ==
  ASSUME TypeOK, NEW x \in Handlers, NEW b \in BuildIds, NEW first \in PC, Take(x, b, first)
  PROVE  /\ h'[x].alone => /\ first = "s_row"
                           /\ \A z \in Handlers : h[z].pc # "idle" => h[z].b # b
         /\ \A y \in Handlers : y # x /\ h'[y].alone => h[y].alone /\ h[y].b # b
<1> DEFINE mine == first = "s_row" /\ \A z \in Handlers : h[z].pc # "idle" => h[z].b # b
           still(y) == h[y].alone /\ h[y].b # b
<1>1. h'[x] = Req(first, b, 1, "pending", "absent", mine)
  BY DEF Take
<1>2. h'[x].alone = mine
  <2> HIDE DEF mine
  <2> QED BY <1>1 DEF Req
<1>3. ASSUME NEW y \in Handlers, y # x PROVE h'[y].alone = still(y)
  <2>1. h'[y] = Req(h[y].pc, h[y].b, h[y].next, h[y].row, h[y].seen, still(y))
    BY <1>3 DEF Take
  <2> HIDE DEF still
  <2> QED BY <2>1 DEF Req
<1> QED BY <1>2, <1>3, Zenon

\* Afterwards a request keeps its build, and what it knows of being alone, until it is done.
Keeps(x) == h'[x].pc # "idle" => h'[x].alone = h[x].alone /\ h'[x].b = h[x].b
\* Until it is done, a request stays about its build and remembers whether it is alone.
LEMMA StepKeeps ==
  ASSUME TypeOK, NEW x \in Handlers, HandlerStep(x), ~Begins(x)
  PROVE  h[x].pc # "idle" /\ Keeps(x)
<1> DEFINE As(pc, next, r, seen) == Serves(x, Req(pc, h[x].b, next, r, seen, h[x].alone))
<1>1. ASSUME NEW pc, NEW next, NEW r, NEW seen, As(pc, next, r, seen) PROVE Keeps(x)
  <2>1. h'[x] = Req(pc, h[x].b, next, r, seen, h[x].alone)
    BY <1>1 DEF Serves, TypeOK
  <2> QED BY <2>1 DEF Req, Keeps
<1>2. ASSUME Done(x) PROVE Keeps(x)
  BY <1>2, DoneType, IdleType DEF Keeps
<1>3. ASSUME NEW to, Goto(x, to) PROVE Keeps(x)
  BY <1>1, <1>3 DEF Goto
<1>4. ASSUME NEW kind, Following(x, kind) PROVE Keeps(x)
  BY <1>1, <1>4 DEF Following
<1> HIDE DEF As
<1>5. CASE NamespaceStep(x)
  <2>1. ASSUME NEW kind, NEW c, NEW d, To(x, kind, c, d) PROVE Keeps(x)
    BY <1>3, <2>1 DEF To
  <2>2. ASSUME NEW kind, Fails(x, kind) \/ Reconcile(x, kind) PROVE Keeps(x)
    BY <2>1, <2>2 DEF Fails, Reconcile
  <2>3. h[x].pc # "idle"
    BY <1>5 DEF NamespaceStep, ReadNamespace, MakeNamespace, ReadPolicy, AddPolicy, Step
  <2>4. Keeps(x)
    BY <1>4, <1>5, <2>1, <2>2 DEF NamespaceStep, ReadNamespace, MakeNamespace, ReadPolicy, AddPolicy
  <2> QED BY <2>3, <2>4
<1>6. CASE Creates(x)
  BY <1>2, <1>3, <1>6 DEF Creates, InsertBuild, CreateJob, RecordRunning, RecordFailure
<1>7. CASE Reads(x)
  <2>1. ReadBuild(x) => As("s_job", h[x].next, status[h[x].b], h[x].seen)
    BY DEF ReadBuild, As
  <2>2. ReadJob(x) => Done(x) \/ As("s_write", h[x].next, h[x].row, job[h[x].b])
    BY DEF ReadJob, As
  <2>3. h[x].pc # "idle"
    BY <1>7 DEF Reads, ReadBuild, ReadJob, WriteStatus
  <2> QED BY <1>1, <1>2, <1>7, <2>1, <2>2, <2>3 DEF Reads, WriteStatus
<1>8. CASE Deploys(x)
  BY <1>2, <1>3, <1>8 DEF Deploys, ResolveImage, CreateWorkload
<1>9. CASE Raises(x)
  BY <1>2, <1>3, <1>9 DEF Raises, ClusterRaises, RequestRaises, InCluster
<1> QED BY <1>5, <1>6, <1>7, <1>8, <1>9 DEF HandlerStep

\* A status request that is alone has no company on its build, so what it read of the row holds.
AloneInv ==
  \A x \in Handlers : h[x].alone /\ h[x].pc # "idle" =>
    /\ h[x].pc \in Reading
    /\ \A y \in Handlers : y # x /\ h[y].pc # "idle" => h[y].b # h[x].b
    /\ h[x].pc \in {"s_job", "s_write"} => h[x].row = status[h[x].b]

\* What a request on a settled build, whose Job is at phase, has read; it creates nothing.
Agrees(r, phase) ==
  /\ r.pc \notin Creating
  /\ r.pc \in {"s_job", "s_write"} => r.row = phase
  /\ r.pc = "s_write" => r.seen = phase

\* The Job of a settled build has ended, the row says how, and nobody has read anything else.
SettledInv ==
  \A b \in settled :
    /\ job[b] \in Ended /\ status[b] = job[b]
    /\ \A x \in Handlers : h[x].b = b => Agrees(h[x], job[b])

\* What neither begins nor reads: the row and the Job are written by the creator only.
LEMMA OthersMove ==
  ASSUME BaseInv, NEW x \in Handlers, HandlerStep(x), ~Begins(x), ~Reads(x)
  PROVE  /\ settled' = settled
         /\ \A y \in Handlers : y # x => h'[y] = h[y]
         /\ h'[x].pc \notin {"s_row", "s_job", "s_write"}
         /\ h[x].pc \in Reading => h'[x].pc = "idle"
         /\ h'[x].pc \in Creating => h[x].pc \in Creating /\ h'[x].b = h[x].b
         /\ \A b \in BuildIds : h[x].pc \notin Creating \/ b # h[x].b =>
              status'[b] = status[b] /\ job'[b] = job[b]
<1> USE DEF BaseInv
<1>1. /\ status \in [BuildIds -> Statuses \cup {"absent"}] /\ job \in [BuildIds -> JobPhase]
      /\ h[x].b \in BuildIds
  BY DEF TypeOK, Request
<1>2. CASE NamespaceStep(x)
  <2>1. PICK to \in PC : /\ Goes(x, to) /\ to \notin Reading /\ h[x].pc \notin Reading
                         /\ to \in Creating => h[x].pc \in Creating
    BY <1>2, NamespaceMoves DEF InCreate, InDeploy, Reading, Creating, PC, Deploying
  <2> QED BY <1>2, <2>1, NamespaceMoves DEF Goes, Reading
<1>3. CASE Creates(x)
  <2>1. Rests(x) \/ \E to \in {"c_namespace", "running"} : Goes(x, to)
    BY <1>3, DoneRests, GotoGoes DEF Creates, InsertBuild, CreateJob, RecordRunning, RecordFailure,
                                     PC, Creating
  <2>2. /\ h[x].pc \in Creating /\ settled' = settled
        /\ \A b \in BuildIds : b # h[x].b => status'[b] = status[b] /\ job'[b] = job[b]
    BY <1>1, <1>3 DEF Creates, InsertBuild, CreateJob, RecordRunning, RecordFailure, Record, Creating,
                      cluster
  <2> QED BY <2>1, <2>2 DEF Rests, Goes, Creating, Reading
<1>4. CASE Deploys(x)
  <2>1. Rests(x) \/ Goes(x, "d_namespace")
    BY <1>4, DoneRests, GotoGoes DEF Deploys, ResolveImage, CreateWorkload, PC, Deploying
  <2>2. h[x].pc \notin Reading /\ UNCHANGED <<status, job, settled>>
    BY <1>4 DEF Deploys, ResolveImage, CreateWorkload, Reading, cluster
  <2> QED BY <2>1, <2>2 DEF Rests, Goes, Creating, Reading
<1>5. CASE ClusterRaises(x)
  <2>1. Goes(x, "fail")
    BY <1>5, GotoGoes DEF ClusterRaises, PC, Creating
  <2>2. /\ h[x].pc \in Creating /\ UNCHANGED <<status, settled>>
        /\ \A b \in BuildIds : b # h[x].b => job'[b] = job[b]
    BY <1>1, <1>5 DEF ClusterRaises, InCluster, Creating, cluster, history
  <2> QED BY <2>1, <2>2 DEF Goes, Creating, Reading
<1>6. CASE RequestRaises(x)
  <2>1. Rests(x)
    BY <1>6, DoneRests DEF RequestRaises
  <2>2. /\ UNCHANGED <<job, settled>>
        /\ \A b \in BuildIds : h[x].pc \notin Creating \/ b # h[x].b => status'[b] = status[b]
    BY <1>1, <1>6 DEF RequestRaises, Record, Creating, cluster
  <2> QED BY <2>1, <2>2 DEF Rests, Creating, Reading
<1> QED BY <1>2, <1>3, <1>4, <1>5, <1>6 DEF HandlerStep, Raises

\* A status request ends, or reads the row, or reads the Job.
LEMMA ReadsMove ==
  ASSUME BaseInv, NEW x \in Handlers, Reads(x)
  PROVE  /\ job' = job /\ h[x].pc \in Reading
         /\ \A y \in Handlers : y # x => h'[y] = h[y]
         /\ \/ h'[x].pc = "idle"
            \/ /\ UNCHANGED <<status, settled>> /\ h'[x].b = h[x].b
               /\ \/ h'[x].pc = "s_job" /\ h'[x].row = status[h[x].b]
                  \/ /\ h[x].pc = "s_job" /\ h'[x].pc = "s_write"
                     /\ h'[x].row = h[x].row /\ h'[x].seen = job[h[x].b]
<1>1. CASE ReadBuild(x) \/ ReadJob(x)
  <2>1. UNCHANGED <<status, job, settled>> /\ h[x].pc \in Reading
        /\ (ReadJob(x) => h[x].pc = "s_job")
    BY <1>1 DEF ReadBuild, ReadJob, Reading, cluster
  <2>2. ReadBuild(x) => h'[x].pc # "s_write"
    <3> SUFFICES ASSUME ReadBuild(x) PROVE h'[x].pc # "s_write"
      OBVIOUS
    <3>1. h'[x] = Req("s_job", h[x].b, h[x].next, status[h[x].b], h[x].seen, h[x].alone)
      BY DEF ReadBuild, Serves, BaseInv, TypeOK
    <3> QED BY <3>1 DEF Req
  <2> QED BY <1>1, <2>1, <2>2, ReadMoves DEF BaseInv, Rests
<1>2. CASE WriteStatus(x)
  <2>1. Rests(x) /\ job' = job /\ h[x].pc \in Reading
    BY <1>2, DoneRests DEF BaseInv, WriteStatus, Reading, cluster
  <2> QED BY <2>1 DEF Rests
<1> QED BY <1>1, <1>2 DEF Reads

\* A handler's step keeps what is known of a request that reads a build alone.
LEMMA AloneKept ==
  ASSUME BaseInv, AloneInv, NEW x \in Handlers, HandlerStep(x)
  PROVE  AloneInv'
<1> USE DEF BaseInv
<1> DEFINE Fine(y) == h'[y].alone /\ h'[y].pc # "idle" =>
             /\ h'[y].pc \in Reading
             /\ \A z \in Handlers : z # y /\ h'[z].pc # "idle" => h'[z].b # h'[y].b
             /\ h'[y].pc \in {"s_job", "s_write"} => h'[y].row = status'[h'[y].b]
<1>1. CASE Begins(x)
  <2>1. PICK b \in BuildIds, first \in {"insert", "s_row", "d_build"} :
             Take(x, b, first) /\ first \in PC
    BY <1>1 DEF Begins, BeginCreate, BeginStatus, BeginDeploy, PC, Creating, Reading, Deploying
  <2>2. status' = status
    BY <2>1 DEF Take
  <2>3. Fine(x)
    BY <2>1, TakeType, TakeAlone DEF Reading
  <2>4. ASSUME NEW y \in Handlers, y # x PROVE Fine(y)
    <3> SUFFICES ASSUME h'[y].alone, h'[y].pc # "idle" PROVE Fine(y)
      OBVIOUS
    <3>1. h[y].alone /\ h[y].b # b /\ h[y].pc # "idle" /\ h'[y].pc = h[y].pc
          /\ h'[y].b = h[y].b /\ h'[y].row = h[y].row /\ h'[x].b = b
      BY <2>1, <2>4, TakeType, TakeAlone
    <3>2. \A z \in Handlers : z # y /\ h'[z].pc # "idle" => h'[z].b # h[y].b
      BY <2>1, <2>4, <3>1, TakeType DEF AloneInv
    <3> QED BY <2>2, <3>1, <3>2 DEF AloneInv
  <2> HIDE DEF Fine
  <2>5. \A y \in Handlers : Fine(y)
    BY <2>3, <2>4
  <2> QED BY <2>5 DEF AloneInv, Fine
<1>2. CASE ~Begins(x)
  <2>1. h[x].pc # "idle" /\ Keeps(x) /\ \A y \in Handlers : y # x => h'[y] = h[y]
    BY <1>2, StepKeeps, OthersMove, ReadsMove
  <2>2. \A b \in BuildIds : b # h[x].b => status'[b] = status[b]
    <3>1. h[x].b \in BuildIds /\ status \in [BuildIds -> Statuses \cup {"absent"}]
      BY DEF TypeOK, Request
    <3>2. WriteStatus(x) => \A b \in BuildIds : b # h[x].b => status'[b] = status[b]
      BY <3>1 DEF WriteStatus
    <3>3. ReadBuild(x) \/ ReadJob(x) => status' = status
      BY DEF ReadBuild, ReadJob
    <3> QED BY <1>2, <3>2, <3>3, OthersMove DEF Reads
  <2>3. Fine(x)
    <3> SUFFICES ASSUME h'[x].alone, h'[x].pc # "idle" PROVE Fine(x)
      OBVIOUS
    <3>1. h[x].alone /\ h'[x].b = h[x].b
      BY <2>1 DEF Keeps
    <3>2. /\ h[x].pc \in Reading
          /\ \A z \in Handlers : z # x /\ h[z].pc # "idle" => h[z].b # h[x].b
          /\ h[x].pc \in {"s_job", "s_write"} => h[x].row = status[h[x].b]
      BY <2>1, <3>1 DEF AloneInv
    <3>3. Reads(x)
      BY <1>2, <3>2, OthersMove
    <3>4. h'[x].pc \in {"s_job", "s_write"} /\ h'[x].row = status'[h[x].b]
      BY <3>2, <3>3, ReadsMove
    <3>5. \A z \in Handlers : z # x /\ h'[z].pc # "idle" => h'[z].b # h[x].b
      BY <2>1, <3>2
    <3> QED BY <3>1, <3>4, <3>5 DEF Reading
  <2>4. ASSUME NEW y \in Handlers, y # x PROVE Fine(y)
    <3> SUFFICES ASSUME h[y].alone, h[y].pc # "idle" PROVE Fine(y)
      BY <2>1, <2>4
    <3>1. h'[y] = h[y] /\ h[y].b # h[x].b /\ h[y].b \in BuildIds
      BY <2>1, <2>4 DEF AloneInv, TypeOK, Request
    <3>2. status'[h[y].b] = status[h[y].b]
      BY <2>2, <3>1
    <3>3. \A z \in Handlers : z # y /\ h'[z].pc # "idle" => h'[z].b # h[y].b
      BY <2>1, <3>1 DEF AloneInv, Keeps
    <3> QED BY <3>1, <3>2, <3>3 DEF AloneInv
  <2> HIDE DEF Fine
  <2>5. \A y \in Handlers : Fine(y)
    BY <2>3, <2>4
  <2> QED BY <2>5 DEF AloneInv, Fine
<1> QED BY <1>1, <1>2

\* A settled build stays settled.
LEMMA SettledKept ==
  ASSUME BaseInv, BuildInv, AloneInv, SettledInv, NEW x \in Handlers, HandlerStep(x)
  PROVE  SettledInv'
<1> USE DEF BaseInv
<1>1. /\ status \in [BuildIds -> Statuses \cup {"absent"}] /\ job \in [BuildIds -> JobPhase]
      /\ settled \in SUBSET BuildIds
      /\ \A y \in Handlers : h[y].b \in BuildIds /\ h[y].row \in Statuses /\ h[y].seen \in JobPhase
  BY DEF TypeOK, Request
<1> DEFINE Holds(b) == /\ job'[b] \in Ended /\ status'[b] = job'[b]
                       /\ \A y \in Handlers : h'[y].b = b => Agrees(h'[y], job'[b])
\* What is to be shown when the row and the Job of a settled build do not change.
<1>2. ASSUME NEW b \in settled, status'[b] = status[b], job'[b] = job[b],
             \A y \in Handlers : y # x =>
               h'[y].pc = h[y].pc /\ h'[y].b = h[y].b /\ h'[y].row = h[y].row /\ h'[y].seen = h[y].seen,
             h'[x].b = b => Agrees(h'[x], job[b])
      PROVE  Holds(b)
  BY <1>2 DEF SettledInv, Agrees
<1>3. CASE Begins(x)
  <2>1. PICK b \in BuildIds, first \in {"insert", "s_row", "d_build"} :
             Take(x, b, first) /\ first \in PC /\ (first = "insert" => status[b] = "absent")
    BY <1>3 DEF Begins, BeginCreate, BeginStatus, BeginDeploy, PC, Creating, Reading, Deploying
  <2>2. UNCHANGED <<status, job, settled>>
    BY <2>1 DEF Take, cluster, history
  <2>3. ASSUME NEW c \in settled PROVE Holds(c)
    <3>1. c = b => first # "insert"
      BY <2>1 DEF SettledInv, Ended
    <3>2. h'[x].b = c => Agrees(h'[x], job[c])
      BY <2>1, <3>1, TakeType DEF Agrees, Creating
    <3> QED BY <1>2, <2>1, <2>2, <3>2, TakeType
  <2> HIDE DEF Holds
  <2>4. \A c \in settled' : Holds(c)
    BY <2>2, <2>3
  <2> QED BY <2>4 DEF SettledInv, Holds
<1>4. CASE ~Begins(x) /\ ~Reads(x)
  <2>1. ASSUME NEW b \in settled PROVE Holds(b)
    <3>1. h[x].pc \notin Creating \/ b # h[x].b
      BY DEF SettledInv, Agrees
    <3>2. status'[b] = status[b] /\ job'[b] = job[b]
      BY <1>1, <1>4, <3>1, OthersMove
    <3>3. h'[x].b = b => Agrees(h'[x], job[b])
      BY <1>4, <3>1, OthersMove DEF Agrees
    <3> QED BY <1>2, <1>4, <3>2, <3>3, OthersMove
  <2>2. settled' = settled
    BY <1>4, OthersMove
  <2> HIDE DEF Holds
  <2>3. \A c \in settled' : Holds(c)
    BY <2>1, <2>2
  <2> QED BY <2>3 DEF SettledInv, Holds
<1>5. CASE ReadBuild(x) \/ ReadJob(x)
  <2>1. UNCHANGED <<status, job, settled>>
    BY <1>5 DEF ReadBuild, ReadJob, cluster
  <2>2. ASSUME NEW b \in settled PROVE Holds(b)
    <3>1. status[b] = job[b] /\ (h[x].b = b => Agrees(h[x], job[b]))
      BY DEF SettledInv
    <3>2. Reads(x)
      BY <1>5 DEF Reads
    <3>3. h'[x].b = b => Agrees(h'[x], job[b])
      BY <3>1, <3>2, ReadsMove DEF Agrees, Creating
    <3> QED BY <1>2, <2>1, <3>2, <3>3, ReadsMove
  <2> HIDE DEF Holds
  <2>3. \A c \in settled' : Holds(c)
    BY <2>1, <2>2
  <2> QED BY <2>3 DEF SettledInv, Holds
<1>6. CASE WriteStatus(x)
  <2> DEFINE s == StatusFromJob(h[x].row, h[x].seen)
  <2>1. /\ Rests(x) /\ job' = job /\ h[x].pc = "s_write"
        /\ status' = IF s # h[x].row THEN [status EXCEPT ![h[x].b] = s] ELSE status
        /\ settled' = IF h[x].alone /\ h[x].seen \in Ended THEN settled \cup {h[x].b} ELSE settled
    BY <1>6, DoneRests DEF WriteStatus, cluster
  <2>2. h[x].seen \in Ended => s = h[x].seen
    BY <1>1, StatusFromJobType
  <2> HIDE DEF s
  <2>3. ASSUME NEW b \in settled PROVE Holds(b)
    <3>1. status'[b] = status[b]
      <4>1. h[x].b = b => h[x].row = job[b] /\ h[x].seen = job[b] /\ job[b] \in Ended
        BY <2>1 DEF SettledInv, Agrees
      <4> QED BY <1>1, <2>1, <2>2, <4>1
    <3>2. Agrees(h'[x], job[b])
      BY <2>1 DEF Rests, Agrees, Creating
    <3> QED BY <1>2, <2>1, <3>1, <3>2 DEF Rests
  <2>4. ASSUME h[x].alone, h[x].seen \in Ended PROVE Holds(h[x].b)
    <3>1. job[h[x].b] = h[x].seen
      BY <2>4 DEF BuildInv, SoundInv, Sound
    <3>2. h[x].row = status[h[x].b] /\ \A y \in Handlers : y # x /\ h[y].pc # "idle" => h[y].b # h[x].b
      BY <2>1, <2>4 DEF AloneInv
    <3>3. status'[h[x].b] = s
      BY <1>1, <2>1, <3>2
    <3>4. \A y \in Handlers : h'[y].b = h[x].b => h'[y].pc = "idle"
      BY <2>1, <3>2 DEF Rests
    <3>5. \A y \in Handlers : h'[y].b = h[x].b => Agrees(h'[y], job'[h[x].b])
      BY <3>4 DEF Agrees, Creating
    <3> QED BY <2>1, <2>2, <2>4, <3>1, <3>3, <3>5
  <2> HIDE DEF Holds
  <2>5. \A c \in settled' : Holds(c)
    BY <2>1, <2>3, <2>4
  <2> QED BY <2>5 DEF SettledInv, Holds
<1> QED BY <1>3, <1>4, <1>5, <1>6 DEF Reads

\* Neither the Job controller nor a stop disturbs what is settled.
LEMMA NextSettled ==
  BaseInv /\ BuildInv /\ AloneInv /\ SettledInv /\ [Next]_vars => AloneInv' /\ SettledInv'
<1> SUFFICES ASSUME BaseInv, BuildInv, AloneInv, SettledInv, [Next]_vars
             PROVE  AloneInv' /\ SettledInv'
  OBVIOUS
<1>1. ASSUME NEW b \in BuildIds, JobMoves(b) PROVE AloneInv' /\ SettledInv'
  <2>1. UNCHANGED <<status, h, settled>> /\ \A c \in BuildIds : job[c] \in Ended => job'[c] = job[c]
    BY <1>1 DEF JobMoves, history, BaseInv, TypeOK, Ended
  <2>2. settled \in SUBSET BuildIds
    BY DEF BaseInv, TypeOK
  <2> QED BY <2>1, <2>2 DEF AloneInv, SettledInv, Agrees
<1>2. CASE ManagerStops
  <2>1. UNCHANGED <<status, job, settled>> /\ h' = [x \in Handlers |-> NoRequest]
    BY <1>2 DEF ManagerStops, cluster
  <2>2. \A x \in Handlers : h'[x].pc = "idle"
    BY <2>1, IdleType
  <2> QED BY <2>1, <2>2 DEF AloneInv, SettledInv, Agrees, Creating
<1>3. CASE UNCHANGED vars
  BY <1>3 DEF vars, cluster, history, AloneInv, SettledInv, Agrees
<1> QED BY <1>1, <1>2, <1>3, AloneKept, SettledKept, NextSplit

\* Once a status request that overlapped no other on its build has recorded how the Job ended,
\* the row says so for good: the creator is gone, and whoever reads or writes after it has
\* read the same (BuildsService.getStatus).
THEOREM EndAlwaysRecorded == Spec => []EndIsRecorded
<1> DEFINE IInv == BaseInv /\ BuildInv /\ AloneInv /\ SettledInv
<1>1. Init => IInv
  <2> SUFFICES ASSUME Init PROVE AloneInv /\ SettledInv
    BY InitBase, InitBuild
  <2> QED BY IdleType DEF Init, AloneInv, SettledInv
<1>2. IInv /\ [Next]_vars => IInv'
  BY NextBase, NextBuild, NextSettled
<1>3. IInv => EndIsRecorded
  BY DEF SettledInv, EndIsRecorded
<1> QED BY <1>1, <1>2, <1>3, PTL DEF Spec

-----------------------------------------------------------------------------
(* Requests that follow each other *)

\* What a request that nothing overlaps and nothing fails relies on: what it found missing in
\* the cluster is still missing, and it has no error to record.
Undisturbed(r, there, set) ==
  /\ r.pc # "fail"
  /\ r.pc \in {"c_make", "d_make"} => ~there
  /\ r.pc \in {"c_add", "d_add"} => r.next \notin set

\* While requests follow each other, nothing fails and the gateway is known, there is one request at most, it is
\* undisturbed, and a failure, in the row or read from it, is that of the Job.
CalmInv ==
  calm /\ (Isolation => Gateway) =>
    /\ \A x, y \in Handlers : h[x].pc # "idle" /\ h[y].pc # "idle" => x = y
    /\ \A x \in Handlers : Undisturbed(h[x], namespace, policies)
    /\ \A b \in BuildIds : status[b] = "failed" => job[b] = "failed"
    /\ \A x \in Handlers : h[x].pc \in {"s_job", "s_write"} /\ h[x].row = "failed" => job[h[x].b] = "failed"

\* ensureNamespace meets no conflict then.
LEMMA NamespaceCalm ==
  ASSUME BaseInv, NEW x \in Handlers, NamespaceStep(x), Isolation => Gateway,
         Undisturbed(h[x], namespace, policies)
  PROVE  Undisturbed(h'[x], namespace', policies')
<1> USE DEF BaseInv
<1>1. h[x].next \in 1 .. NumPolicies + 1 /\ NumPolicies \in Nat \ {0}
  BY BuildsAssumption DEF TypeOK, Request
<1>2. h[x].pc \in AtPolicy => h[x].next # NumPolicies + 1
  BY DEF PolicyInv, Reconciled
<1> DEFINE Safe == {"c_policy", "d_policy", "job", "d_workload"}
<1>3. ASSUME h'[x].pc \in Safe PROVE Undisturbed(h'[x], namespace', policies')
  BY <1>3 DEF Undisturbed
<1>4. ASSUME NEW kind \in {"create", "deploy"}, Reconcile(x, kind) PROVE h'[x].pc \in Safe
  <2>1. \E to \in Safe : Goto(x, to) /\ to \in PC
    BY <1>4, BuildsAssumption DEF Reconcile, To, PC, Creating, Deploying
  <2> QED BY <2>1, GotoType
<1>5. ASSUME NEW kind \in {"create", "deploy"}, Following(x, kind), h[x].pc \in AtPolicy
      PROVE  h'[x].pc \in Safe
  BY <1>2, <1>5, FollowingType
<1> HIDE DEF Safe
<1>6. CASE ReadNamespace(x)
  <2>1. PICK kind \in {"create", "deploy"} :
          \/ Reconcile(x, kind)
          \/ /\ ~namespace /\ namespace' = namespace
             /\ To(x, kind, "c_make", "d_make")
    BY <1>6 DEF ReadNamespace, Step, cluster
  <2>2. ASSUME ~namespace', To(x, kind, "c_make", "d_make")
        PROVE  Undisturbed(h'[x], namespace', policies')
    <3>1. \E to \in {"c_make", "d_make"} : Goto(x, to) /\ to \in PC
      BY <2>2 DEF To, PC, Creating, Deploying
    <3> QED BY <2>2, <3>1, GotoType DEF Undisturbed
  <2> QED BY <1>3, <1>4, <2>1, <2>2
<1>7. CASE MakeNamespace(x)
  <2>1. h[x].pc \in {"c_make", "d_make"} /\ \E kind \in {"create", "deploy"} : namespace \/ Reconcile(x, kind)
    BY <1>7 DEF MakeNamespace, Step
  <2> QED BY <1>3, <1>4, <2>1 DEF Undisturbed
<1>8. CASE ReadPolicy(x)
  <2>1. h[x].pc \in AtPolicy
    BY <1>8 DEF ReadPolicy, Step, AtPolicy
  <2>2. PICK kind \in {"create", "deploy"} :
          \/ Following(x, kind)
          \/ /\ h[x].next \notin policies /\ policies' = policies
             /\ To(x, kind, "c_add", "d_add")
    BY <1>8 DEF ReadPolicy, Step, cluster
  <2>3. ASSUME h[x].next \notin policies', To(x, kind, "c_add", "d_add")
        PROVE  Undisturbed(h'[x], namespace', policies')
    <3>1. \E to \in {"c_add", "d_add"} : Goto(x, to) /\ to \in PC
      BY <2>3 DEF To, PC, Creating, Deploying
    <3> QED BY <2>3, <3>1, GotoType DEF Undisturbed
  <2> QED BY <1>3, <1>5, <2>1, <2>2, <2>3
<1>9. CASE AddPolicy(x)
  <2>1. /\ h[x].pc \in {"c_add", "d_add"} /\ h[x].pc \in AtPolicy
        /\ \E kind \in {"create", "deploy"} : h[x].next \in policies \/ Following(x, kind)
    BY <1>9 DEF AddPolicy, Step, AtPolicy
  <2> QED BY <1>3, <1>5, <2>1 DEF Undisturbed
<1> QED BY <1>6, <1>7, <1>8, <1>9 DEF NamespaceStep

\* A step of the one request keeps the order of things.
LEMMA HandlerCalm ==
  ASSUME BaseInv, BuildInv, CalmInv, NEW x \in Handlers, HandlerStep(x)
  PROVE  CalmInv'
<1> USE DEF BaseInv
<1> SUFFICES ASSUME calm', Isolation => Gateway PROVE CalmInv'
  BY DEF CalmInv
<1>1. /\ h[x].b \in BuildIds /\ h[x].row \in Statuses /\ h[x].seen \in JobPhase
      /\ status \in [BuildIds -> Statuses \cup {"absent"}] /\ job \in [BuildIds -> JobPhase]
  BY DEF TypeOK, Request
<1>2. calm /\ ~Raises(x)
  <2>1. ~Raises(x)
    BY DEF Raises, ClusterRaises, RequestRaises, Fault
  <2>2. Begins(x) => calm
    BY DEF Begins, BeginCreate, BeginStatus, BeginDeploy, Take
  <2>3. ~Begins(x) => calm' = calm
    BY <2>1, NamespaceMoves DEF HandlerStep, Creates, InsertBuild, CreateJob, RecordRunning,
       RecordFailure, Reads, ReadBuild, ReadJob, WriteStatus, Deploys, ResolveImage, CreateWorkload, NoFault
  <2> QED BY <2>1, <2>2, <2>3
<1>3. CASE Begins(x)
  <2>1. PICK b \in BuildIds, first \in {"insert", "s_row", "d_build"} :
             Take(x, b, first) /\ first \in PC
    BY <1>3 DEF Begins, BeginCreate, BeginStatus, BeginDeploy, PC, Creating, Reading, Deploying
  <2>2. UNCHANGED <<status, job>> /\ \A y \in Handlers : h[y].pc = "idle"
    BY <2>1 DEF Take, cluster
  <2>3. h'[x].pc = first /\ \A y \in Handlers : y # x => h'[y].pc = "idle"
    BY <2>1, <2>2, TakeType
  <2>4. \A y \in Handlers : Undisturbed(h'[y], namespace', policies')
    BY <2>3 DEF Undisturbed
  <2> QED BY <1>2, <2>2, <2>3, <2>4 DEF CalmInv
<1>4. CASE ~Begins(x)
  <2>1. h[x].pc # "idle" /\ \A y \in Handlers : y # x => h'[y] = h[y] /\ h[y].pc = "idle"
    BY <1>2, <1>4, StepKeeps, OthersMove, ReadsMove DEF CalmInv
  <2>2. Undisturbed(h[x], namespace, policies)
    BY <1>2 DEF CalmInv
\* What is left is about x, the rows and the Jobs.
  <2>3. ASSUME Undisturbed(h'[x], namespace', policies'),
               \A b \in BuildIds : status'[b] = "failed" => job'[b] = "failed",
               h'[x].pc \in {"s_job", "s_write"} /\ h'[x].row = "failed" => job'[h'[x].b] = "failed"
        PROVE  CalmInv'
    <3>1. \A y \in Handlers : y # x => Undisturbed(h'[y], namespace', policies')
      BY <2>1 DEF Undisturbed
    <3> QED BY <2>1, <2>3, <3>1 DEF CalmInv
  <2>4. \A b \in BuildIds : status[b] = "failed" => job[b] = "failed"
    BY <1>2 DEF CalmInv
  <2>5. ASSUME Rests(x) \/ \E to \in {"c_namespace", "d_namespace", "running"} : Goes(x, to),
               \A b \in BuildIds : status'[b] = "failed" => job'[b] = "failed"
        PROVE  CalmInv'
    <3>1. h'[x].pc \in {"idle", "c_namespace", "d_namespace", "running"}
      BY <2>5 DEF Rests, Goes
    <3> QED BY <2>3, <2>5, <3>1 DEF Undisturbed
  <2>6. CASE NamespaceStep(x)
    <3>1. UNCHANGED <<status, job>> /\ h'[x].pc \notin {"s_job", "s_write"}
      BY <2>6, NamespaceMoves DEF Goes, InCreate, InDeploy
    <3> QED BY <2>2, <2>3, <2>4, <2>6, <3>1, NamespaceCalm
  <2>7. CASE Creates(x)
    <3>1. h[x].pc # "fail"
      BY <2>2 DEF Undisturbed
    <3>2. Rests(x) \/ \E to \in {"c_namespace", "running"} : Goes(x, to)
      BY <2>7, DoneRests, GotoGoes DEF Creates, InsertBuild, CreateJob, RecordRunning, RecordFailure,
                                       PC, Creating
    <3>3. CASE CreateJob(x)
      <4>1. job[h[x].b] = "absent"
        BY <3>3 DEF CreateJob, BuildInv, SoundInv, Sound, BeforeJob
      <4>2. status' = status /\ job' = [job EXCEPT ![h[x].b] = "new"]
        BY <3>3 DEF CreateJob
      <4> QED BY <1>1, <2>4, <2>5, <3>2, <4>1, <4>2
    <3>4. CASE InsertBuild(x) \/ RecordRunning(x)
      <4>1. job' = job /\ \E s \in {"pending", "running"} : status' = [status EXCEPT ![h[x].b] = s]
        BY <3>4 DEF InsertBuild, RecordRunning, Record, cluster
      <4> QED BY <1>1, <2>4, <2>5, <3>2, <4>1
    <3> QED BY <2>7, <3>1, <3>3, <3>4 DEF Creates, RecordFailure
  <2>8. CASE ReadBuild(x) \/ ReadJob(x)
    <3>1. UNCHANGED <<status, job>> /\ Reads(x)
      BY <2>8 DEF ReadBuild, ReadJob, Reads, cluster
    <3>2. h[x].pc = "s_job" /\ h[x].row = "failed" => job[h[x].b] = "failed"
      BY <1>2 DEF CalmInv
    <3>3. h'[x].pc \in {"idle", "s_job", "s_write"}
      BY <3>1, ReadsMove
    <3>4. h'[x].pc \in {"s_job", "s_write"} /\ h'[x].row = "failed" => job'[h'[x].b] = "failed"
      BY <1>1, <2>4, <3>1, <3>2, ReadsMove
    <3> QED BY <2>3, <2>4, <3>1, <3>3, <3>4 DEF Undisturbed
  <2>9. CASE WriteStatus(x)
    <3> DEFINE s == StatusFromJob(h[x].row, h[x].seen)
    <3>1. /\ Rests(x) /\ job' = job
          /\ status' = status \/ (s # h[x].row /\ status' = [status EXCEPT ![h[x].b] = s])
      BY <2>9, DoneRests DEF WriteStatus, cluster
    <3>2. s = "failed" /\ s # h[x].row => h[x].seen = "failed"
      BY <1>1, StatusFromJobType DEF Ended
    <3>3. h[x].seen = "failed" => job[h[x].b] = "failed"
      BY DEF BuildInv, SoundInv, Sound, Ended
    <3> HIDE DEF s
    <3>4. \A b \in BuildIds : status'[b] = "failed" => job'[b] = "failed"
      BY <1>1, <2>4, <3>1, <3>2, <3>3
    <3> QED BY <2>5, <3>1, <3>4
  <2>10. CASE Deploys(x)
    <3>1. UNCHANGED <<status, job>> /\ (Rests(x) \/ Goes(x, "d_namespace"))
      BY <2>10, DoneRests, GotoGoes DEF Deploys, ResolveImage, CreateWorkload, PC, Deploying, cluster
    <3> QED BY <2>4, <2>5, <3>1
  <2> QED BY <1>2, <1>4, <2>6, <2>7, <2>8, <2>9, <2>10 DEF HandlerStep, Reads
<1> QED BY <1>3, <1>4

\* As long as requests follow each other, nothing fails and the gateway is known, a build
\* fails only when its Job does, whatever earlier builds and deploys made of the namespace
\* and the policies
\* (BuildsService.create, KubernetesService.ensureNamespace).
THEOREM SerialBuildsAlwaysStart == Spec => []SerialBuildsStart
<1> DEFINE IInv == BaseInv /\ BuildInv /\ CalmInv
<1>1. Init => IInv
  <2> SUFFICES ASSUME Init PROVE CalmInv
    BY InitBase, InitBuild
  <2>1. \A x \in Handlers : h[x].pc = "idle"
    BY IdleType DEF Init
  <2> QED BY <2>1 DEF Init, CalmInv, Undisturbed
<1>2. IInv /\ [Next]_vars => IInv'
  <2> SUFFICES ASSUME BaseInv, BuildInv, CalmInv, [Next]_vars PROVE CalmInv'
    BY NextBase, NextBuild
  <2>1. ASSUME NEW b \in BuildIds, JobMoves(b) PROVE CalmInv'
    <3>1. UNCHANGED <<status, namespace, policies, h, calm>>
      BY <2>1 DEF JobMoves
    <3>2. \A c \in BuildIds : job[c] = "failed" => job'[c] = "failed"
      BY <2>1 DEF JobMoves, BaseInv, TypeOK
    <3>3. \A x \in Handlers : h[x].b \in BuildIds
      BY DEF BaseInv, TypeOK, Request
    <3> QED BY <3>1, <3>2, <3>3 DEF CalmInv, Undisturbed
  <2>2. CASE ManagerStops
    BY <2>2 DEF ManagerStops, CalmInv
  <2>3. CASE UNCHANGED vars
    BY <2>3 DEF vars, cluster, CalmInv, Undisturbed
  <2> QED BY <2>1, <2>2, <2>3, HandlerCalm, NextSplit
<1>3. IInv => SerialBuildsStart
  BY DEF CalmInv, SerialBuildsStart
<1> QED BY <1>1, <1>2, <1>3, PTL DEF Spec
=============================================================================
