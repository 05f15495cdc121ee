-------------------------------- MODULE Builds --------------------------------
(***************************************************************************)
(* Builds of git apps (builds/), and what they share with deployments of   *)
(* the workspace: its namespace with the tenant NetworkPolicies.  A create *)
(* inserts the row, prepares the namespace, creates the Job and notes that *)
(* it runs.  A status request reads the row, then the Job, and writes what *)
(* it saw.  A deploy takes the image of a build recorded as succeeded.     *)
(* Requests interleave at every await.                                     *)
(*                                                                         *)
(* The cluster is external: the API server refuses to create an object     *)
(* that is there, the Job controller runs the one pod of a Job (its        *)
(* backoffLimit is 0), and nothing deletes Jobs, namespaces or policies.   *)
(* Replacing a policy by the same manifest changes nothing.                *)
(***************************************************************************)
EXTENDS Integers, FiniteSets

CONSTANTS
  Handlers,     \* HTTP requests being served at once
  BuildIds,     \* builds of the one workspace
  NumPolicies,  \* tenant NetworkPolicies, in the order of their reconciliation
  Isolation,    \* tenantNetworkPolicyEnabled
  Gateway,      \* applicationGatewayName and applicationGatewayNamespace are configured
  MaxFaults,    \* bound on database and cluster calls that fail
  MaxStops      \* bound on stops of the manager

ASSUME BuildsAssumption ==
  /\ NumPolicies \in Nat \ {0}
  /\ Isolation \in BOOLEAN /\ Gateway \in BOOLEAN
  /\ MaxFaults \in Nat /\ MaxStops \in Nat
  /\ BuildIds # {}

VARIABLES
  status,      \* Build.status, "absent" before the row
  namespace,   \* whether the workspace's namespace exists
  policies,    \* the tenant NetworkPolicies in it
  job,         \* the phase of each build's Job
  workload,    \* builds whose image has been deployed
  h,           \* the request each handler is serving
  settled,     \* history: builds whose end a lone status request has recorded
  cut,         \* history: builds whose create was cut short by a stop or the database
  calm,        \* history: no requests overlapped and nothing failed
  faults, stops

cluster == <<namespace, policies, job>>
history == <<settled, cut>>
vars == <<status, cluster, workload, h, history, calm, faults, stops>>

Statuses == {"pending", "running", "succeeded", "failed"}
Policies == 1 .. NumPolicies
Ended    == {"succeeded", "failed"}
JobPhase == {"absent", "new", "active"} \cup Ended

Creating   == {"insert", "c_namespace", "c_make", "c_policy", "c_add", "job", "running", "fail"}
Reading    == {"s_row", "s_job", "s_write"}
Deploying  == {"d_build", "d_namespace", "d_make", "d_policy", "d_add", "d_workload"}
PC         == {"idle"} \cup Creating \cup Reading \cup Deploying

\* A request: the await it is at, its build, the policy it reconciles next; of a status
\* request, the status and the Job it has read and whether no other request on its build has
\* overlapped it (history).
Request == [pc : PC, b : BuildIds, next : 1 .. NumPolicies + 1,
            row : Statuses, seen : JobPhase, alone : BOOLEAN]
Req(pc, b, next, row, seen, alone) ==
  [pc |-> pc, b |-> b, next |-> next, row |-> row, seen |-> seen, alone |-> alone]
NoRequest == Req("idle", CHOOSE b \in BuildIds : TRUE, 1, "pending", "absent", FALSE)

\* Type correctness.
TypeOK ==
  /\ status \in [BuildIds -> Statuses \cup {"absent"}]
  /\ namespace \in BOOLEAN
  /\ policies \in SUBSET Policies
  /\ job \in [BuildIds -> JobPhase]
  /\ workload \in SUBSET BuildIds
  /\ h \in [Handlers -> Request]
  /\ settled \in SUBSET BuildIds /\ cut \in SUBSET BuildIds
  /\ calm \in BOOLEAN
  /\ faults \in Nat /\ stops \in Nat

Init ==
  /\ status = [b \in BuildIds |-> "absent"]
  /\ namespace = FALSE /\ policies = {}
  /\ job = [b \in BuildIds |-> "absent"]
  /\ workload = {}
  /\ h = [x \in Handlers |-> NoRequest]
  /\ settled = {} /\ cut = {}
  /\ calm = TRUE
  /\ faults = 0 /\ stops = 0

Serves(x, r) == h' = [h EXCEPT ![x] = r]
Goto(x, to)  == Serves(x, Req(to, h[x].b, h[x].next, h[x].row, h[x].seen, h[x].alone))
Done(x)      == Serves(x, NoRequest)
NoFault      == UNCHANGED <<cut, calm, faults, stops>>

-----------------------------------------------------------------------------
(* Requests begin *)

\* A request on b: the status requests in service on b are not alone any more.
Take(x, b, first) ==
  /\ h[x].pc = "idle"
  /\ h' = [y \in Handlers |->
             IF y = x
             THEN Req(first, b, 1, "pending", "absent",
                      first = "s_row" /\ \A z \in Handlers : h[z].pc # "idle" => h[z].b # b)
             ELSE Req(h[y].pc, h[y].b, h[y].next, h[y].row, h[y].seen, h[y].alone /\ h[y].b # b)]
  /\ calm' = (calm /\ \A y \in Handlers : h[y].pc = "idle")
  /\ UNCHANGED <<status, cluster, workload, history, faults, stops>>

\* create, for a git app with a repoUrl, under an id no row has.
BeginCreate(x, b) ==
  /\ status[b] = "absent"
  /\ \A y \in Handlers : h[y].pc \in Creating => h[y].b # b
  /\ Take(x, b, "insert")

BeginStatus(x, b) == status[b] # "absent" /\ Take(x, b, "s_row")

\* DeploymentsService.create with a buildId.
BeginDeploy(x, b) ==
  /\ status[b] # "absent" /\ b \notin workload
  /\ Take(x, b, "d_build")

-----------------------------------------------------------------------------
(* The namespace of the workspace, for create (c) and deploy (d) *)

Step(c, d, x) == CASE h[x].pc = c -> "create" [] h[x].pc = d -> "deploy" [] OTHER -> "none"
To(x, kind, c, d) == Goto(x, IF kind = "create" THEN c ELSE d)

\* An error of the cluster: create catches it, deploy passes it on to its caller.
Fails(x, kind) == To(x, kind, "fail", "idle")

\* Mutant: the policies are reconciled only for a namespace that is new.
ReadNamespaceNewOnly(x) ==
  LET kind == Step("c_namespace", "d_namespace", x) IN
  /\ kind # "none"
  /\ IF namespace THEN To(x, kind, "job", "d_workload") ELSE To(x, kind, "c_make", "d_make")
  /\ NoFault
  /\ UNCHANGED <<status, cluster, workload, settled>>

\* reconcileTenantNetworkPolicies raises when it has no gateway to name in the policies.
Reconcile(x, kind) ==
  CASE ~Isolation             -> To(x, kind, "job", "d_workload")
    [] Isolation /\ Gateway   -> To(x, kind, "c_policy", "d_policy")
    [] Isolation /\ ~Gateway  -> Fails(x, kind)

\* ensureNamespace looks for the namespace.
ReadNamespace(x) ==
  LET kind == Step("c_namespace", "d_namespace", x) IN
  /\ kind # "none"
  /\ IF namespace THEN Reconcile(x, kind) ELSE To(x, kind, "c_make", "d_make")
  /\ NoFault
  /\ UNCHANGED <<status, cluster, workload, settled>>

\* createNamespace: a conflict when another request was first.
MakeNamespace(x) ==
  LET kind == Step("c_make", "d_make", x) IN
  /\ kind # "none"
  /\ namespace' = TRUE
  /\ IF namespace THEN Fails(x, kind) ELSE Reconcile(x, kind)
  /\ NoFault
  /\ UNCHANGED <<status, policies, job, workload, settled>>

\* Mutant: off by one.
FollowingTooFar(x, kind) ==
  LET last == h[x].next > NumPolicies
      to == IF kind = "create" THEN IF last THEN "job" ELSE "c_policy"
                               ELSE IF last THEN "d_workload" ELSE "d_policy"
  IN  Serves(x, Req(to, h[x].b, h[x].next + 1, h[x].row, h[x].seen, h[x].alone))

\* The policy after this one, or the Job or workload after the last.
Following(x, kind) ==
  LET last == h[x].next = NumPolicies
      to == IF kind = "create" THEN IF last THEN "job" ELSE "c_policy"
                               ELSE IF last THEN "d_workload" ELSE "d_policy"
  IN  Serves(x, Req(to, h[x].b, h[x].next + 1, h[x].row, h[x].seen, h[x].alone))

\* Mutant: the policy is created without a look whether it is there.
ReadPolicyBlindly(x) ==
  LET kind == Step("c_policy", "d_policy", x) IN
  /\ kind # "none"
  /\ To(x, kind, "c_add", "d_add")
  /\ NoFault
  /\ UNCHANGED <<status, cluster, workload, settled>>

\* upsertNetworkPolicy: a policy that is there is replaced by the same manifest.
ReadPolicy(x) ==
  LET kind == Step("c_policy", "d_policy", x) IN
  /\ kind # "none"
  /\ \/ h[x].next \in policies /\ Following(x, kind)
     \/ h[x].next \notin policies /\ To(x, kind, "c_add", "d_add")
  /\ NoFault
  /\ UNCHANGED <<status, cluster, workload, settled>>

\* createNamespacedNetworkPolicy: a conflict when another request was first.
AddPolicy(x) ==
  LET kind == Step("c_add", "d_add", x) IN
  /\ kind # "none"
  /\ policies' = policies \cup {h[x].next}
  /\ \/ h[x].next \in policies /\ Fails(x, kind)
     \/ h[x].next \notin policies /\ Following(x, kind)
  /\ NoFault
  /\ UNCHANGED <<status, namespace, job, workload, settled>>

-----------------------------------------------------------------------------
(* The rest of create *)

Record(b, s) == status' = [status EXCEPT ![b] = s]

InsertBuild(x) ==
  /\ h[x].pc = "insert"
  /\ Record(h[x].b, "pending") /\ Goto(x, "c_namespace")
  /\ NoFault
  /\ UNCHANGED <<cluster, workload, settled>>

CreateJob(x) ==
  /\ h[x].pc = "job"
  /\ job' = [job EXCEPT ![h[x].b] = "new"]
  /\ Goto(x, "running") /\ NoFault
  /\ UNCHANGED <<status, namespace, policies, workload, settled>>

\* Whatever a status request has recorded meanwhile.
RecordRunning(x) ==
  /\ h[x].pc = "running"
  /\ Record(h[x].b, "running") /\ Done(x)
  /\ NoFault
  /\ UNCHANGED <<cluster, workload, settled>>

\* Mutant: the error is passed on without being recorded.
RecordNothing(x) ==
  /\ h[x].pc = "fail"
  /\ Done(x) /\ NoFault
  /\ UNCHANGED <<status, cluster, workload, settled>>

\* The catch of create.
RecordFailure(x) ==
  /\ h[x].pc = "fail"
  /\ Record(h[x].b, "failed") /\ Done(x)
  /\ NoFault
  /\ UNCHANGED <<cluster, workload, settled>>

-----------------------------------------------------------------------------
(* getStatus *)

ReadBuild(x) ==
  /\ h[x].pc = "s_row"
  /\ Serves(x, Req("s_job", h[x].b, h[x].next, status[h[x].b], h[x].seen, h[x].alone))
  /\ NoFault
  /\ UNCHANGED <<status, cluster, workload, settled>>

\* readNamespacedJob: without a Job the request fails.
ReadJob(x) ==
  /\ h[x].pc = "s_job"
  /\ IF job[h[x].b] = "absent" THEN Done(x)
     ELSE Serves(x, Req("s_write", h[x].b, h[x].next, h[x].row, job[h[x].b], h[x].alone))
  /\ NoFault
  /\ UNCHANGED <<status, cluster, workload, settled>>

\* Mutant: a Job with no active pod has succeeded.
StatusFromActive(current, phase) ==
  CASE phase = "active" -> "running"
    [] phase = "failed" -> "failed"
    [] OTHER            -> "succeeded"

\* Mutant: what has ended in the record stays as it is.
StatusKeepsEnd(current, phase) ==
  IF current \in Ended THEN current
  ELSE CASE phase \in Ended  -> phase
         [] phase = "active" -> "running"
         [] OTHER            -> current

\* getBuildStatusFromJob.  A Job the controller has not started yet counts no pod at all.
StatusFromJob(current, phase) ==
  CASE phase \in Ended  -> phase
    [] phase = "active" -> "running"
    [] OTHER            -> current

WriteStatus(x) ==
  /\ h[x].pc = "s_write"
  /\ LET b == h[x].b
         s == StatusFromJob(h[x].row, h[x].seen) IN
     /\ status' = IF s # h[x].row THEN [status EXCEPT ![b] = s] ELSE status
     /\ settled' = IF h[x].alone /\ h[x].seen \in Ended THEN settled \cup {b} ELSE settled
  /\ Done(x) /\ NoFault
  /\ UNCHANGED <<cluster, workload>>

-----------------------------------------------------------------------------
(* DeploymentsService.create with a buildId *)

\* resolveDeploymentImage.
ResolveImage(x) ==
  /\ h[x].pc = "d_build"
  /\ IF status[h[x].b] = "succeeded" THEN Goto(x, "d_namespace") ELSE Done(x)
  /\ NoFault
  /\ UNCHANGED <<status, cluster, workload, settled>>

\* The rest of deployImage, in module Deployments.
CreateWorkload(x) ==
  /\ h[x].pc = "d_workload"
  /\ workload' = workload \cup {h[x].b}
  /\ Done(x) /\ NoFault
  /\ UNCHANGED <<status, cluster, settled>>

-----------------------------------------------------------------------------
(* Failures, stops and the cluster *)

Fault == faults < MaxFaults /\ faults' = faults + 1 /\ calm' = FALSE /\ UNCHANGED stops

InCluster == {"c_namespace", "c_make", "c_policy", "c_add", "job"}

\* A call to the cluster raises in create, without effect or after it: the catch runs.
ClusterRaises(x) ==
  /\ h[x].pc \in InCluster
  /\ Fault /\ Goto(x, "fail")
  /\ \/ UNCHANGED cluster
     \/ h[x].pc = "c_make" /\ namespace' = TRUE /\ UNCHANGED <<policies, job>>
     \/ h[x].pc = "c_add" /\ policies' = policies \cup {h[x].next} /\ UNCHANGED <<namespace, job>>
     \/ /\ h[x].pc = "job"
        /\ job' = [job EXCEPT ![h[x].b] = "new"]
        /\ UNCHANGED <<namespace, policies>>
  /\ UNCHANGED <<status, workload, history>>

\* The database raises in create, before or after its write, or any call of another request,
\* whose caller gets the error; a call that took effect is the step before it.
RequestRaises(x) ==
  /\ h[x].pc \notin {"idle"} \cup InCluster
  /\ Fault /\ Done(x)
  /\ \/ UNCHANGED status
     \/ h[x].pc = "insert" /\ Record(h[x].b, "pending")
     \/ h[x].pc = "running" /\ Record(h[x].b, "running")
  /\ cut' = IF h[x].pc \in Creating THEN cut \cup {h[x].b} ELSE cut
  /\ UNCHANGED <<cluster, workload, settled>>

ManagerStops ==
  /\ stops < MaxStops /\ stops' = stops + 1
  /\ h' = [x \in Handlers |-> NoRequest]
  /\ cut' = cut \cup {h[x].b : x \in {y \in Handlers : h[y].pc \in Creating}}
  /\ calm' = FALSE
  /\ UNCHANGED <<status, cluster, workload, settled, faults>>

\* The Job controller.
JobMoves(b) ==
  /\ \/ job[b] = "new" /\ job' = [job EXCEPT ![b] = "active"]
     \/ job[b] = "active" /\ \E e \in Ended : job' = [job EXCEPT ![b] = e]
  /\ UNCHANGED <<status, namespace, policies, workload, h, history, calm, faults, stops>>

Next ==
  \/ \E x \in Handlers :
       \/ \E b \in BuildIds : BeginCreate(x, b) \/ BeginStatus(x, b) \/ BeginDeploy(x, b)
       \/ ReadNamespace(x) \/ MakeNamespace(x) \/ ReadPolicy(x) \/ AddPolicy(x)
       \/ InsertBuild(x) \/ CreateJob(x) \/ RecordRunning(x) \/ RecordFailure(x)
       \/ ReadBuild(x) \/ ReadJob(x) \/ WriteStatus(x)
       \/ ResolveImage(x) \/ CreateWorkload(x)
       \/ ClusterRaises(x) \/ RequestRaises(x)
  \/ \E b \in BuildIds : JobMoves(b)
  \/ ManagerStops

Spec == Init /\ [][Next]_vars

-----------------------------------------------------------------------------
(* Properties *)

\* deployments.service.ts:447, "Build must be succeeded before deployment": what is deployed
\* was pushed by a Job that succeeded, although the row is written by requests that read it
\* before the Job, by create whatever it has become, and read before the deploy goes on.
DeployedIsBuilt == \A b \in workload : job[b] = "succeeded"

\* No Job and no workload runs in a namespace that lacks one of its tenant policies, not even
\* after a create that failed or stopped between making the namespace and its policies.
IsolatedBeforeUse ==
  Isolation => \/ \A p \in Policies : p \in policies
               \/ workload = {} /\ \A b \in BuildIds : job[b] = "absent"

\* A pending build is being created; only a stop or the database leaves one behind, an error
\* of the cluster does not.
PendingIsCreated ==
  \A b \in BuildIds : status[b] = "pending" =>
    b \in cut \/ \E x \in Handlers : h[x].pc \in Creating /\ h[x].b = b

\* Requests that follow each other need no luck: a build fails only when its Job does, so the
\* second build of a workspace finds its namespace and policies and goes through.  A manager
\* that shall isolate tenants must know its gateway.
SerialBuildsStart ==
  calm /\ (Isolation => Gateway) =>
    \A b \in BuildIds : status[b] = "failed" => job[b] = "failed"

\* Create and overlapping status requests may write over the end of a build, and a create
\* whose Job was made although the call failed records a failure.  A status request that
\* overlaps no other request on the build repairs all of that, for good.
EndIsRecorded == \A b \in settled : status[b] = job[b]
=============================================================================
