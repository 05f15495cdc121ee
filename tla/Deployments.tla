---------------------------- MODULE Deployments -----------------------------
(***************************************************************************)
(* One deployment of DeploymentsService: its row in Postgres, the cluster  *)
(* resources KubernetesService makes for it, and the API requests that     *)
(* work on both.  A request reads the row, makes its calls to the cluster, *)
(* then writes the row from what it read: nothing locks the row and no     *)
(* write is conditional, so requests interleave at every await.            *)
(*                                                                         *)
(* Resource names contain the deployment's id, so deployments share        *)
(* nothing and one of them is enough.  replicas and desiredReplicas are    *)
(* always written together and are one field here.  "config" stands for    *)
(* the ConfigMap, the file ConfigMap, the Secret and the secret files.     *)
(***************************************************************************)
EXTENDS Integers, Sequences

CONSTANTS
  Handlers,      \* API requests being served at once
  MaxReplicas,   \* replica counts requests ask for are at most this
  Exposed,       \* whether the deployment was created with expose
  MaxFaults,     \* bound on cluster and database calls that raise
  MaxCrashes     \* bound on stops of the deployment manager

ASSUME DeploymentsAssumption ==
  /\ MaxReplicas \in Nat \ {0} /\ MaxFaults \in Nat /\ MaxCrashes \in Nat
  /\ Exposed \in BOOLEAN

VARIABLES
  row,      \* the Deployment row
  res,      \* cluster resources that exist
  spec,     \* spec.replicas of the Deployment resource, 0 while there is none
  h,        \* the request each handler is serving
  faults, crashes,
  ran,      \* history: the last non-zero count written to the row
  calm,     \* history: no requests overlapped, no call raised, no stop so far
  cleaned   \* history: a delete that began after create had ended removed everything it names

vars == <<row, res, spec, h, faults, crashes, ran, calm, cleaned>>

Counts   == 0 .. MaxReplicas
Status   == {"absent", "creating", "running", "failed", "stopped", "deleted"}
Base     == {"config", "deployment", "service"}
Routes   == {"route", "redirect"}
Resource == Base \cup Routes
Op       == {"create", "status", "scale", "stop", "start", "restart", "delete"}

Row == [status : Status, replicas : Counts, lastNonZero : Counts, hostname : BOOLEAN, deletedAt : BOOLEAN]

\* A request: what it does and where it stands; what it keeps of the row it read, that is
\* whether it was running and the lastNonZeroReplicas the request will write; the count it
\* will set; the resources it still has to visit; whether it is a delete that began after
\* create had ended; and whether it has had the deployment to itself so far.
Request ==
  [op : Op, pc : {"cluster", "undo", "failed", "db"}, running : BOOLEAN, keep : Counts,
   count : Counts, todo : Seq(Resource), late : BOOLEAN, alone : BOOLEAN]
NoRequest == [op |-> "none"]

\* Type correctness of the row, the cluster and the requests.
TypeOK ==
  /\ row \in Row
  /\ res \in SUBSET Resource
  /\ spec \in Counts
  /\ h \in [Handlers -> Request \cup {NoRequest}]
  /\ faults \in Nat /\ crashes \in Nat
  /\ ran \in Counts
  /\ calm \in BOOLEAN /\ cleaned \in BOOLEAN

Idle(x) == h[x] = NoRequest
At(x, op, pc) == h[x].op = op /\ h[x].pc = pc

NoRow == [status |-> "absent", replicas |-> 0, lastNonZero |-> 0, hostname |-> FALSE, deletedAt |-> FALSE]

Init ==
  /\ row = NoRow
  /\ res = {} /\ spec = 0
  /\ h = [x \in Handlers |-> NoRequest]
  /\ faults = 0 /\ crashes = 0
  /\ ran = 0 /\ calm = TRUE /\ cleaned = FALSE

-----------------------------------------------------------------------------
(* Requests begin *)

\* deployImage visits the resources in this order, deleteDeploymentResources in that one;
\* the route is deleted only when the row that was read has a hostname.
CreateOrder == IF Exposed THEN <<"config", "deployment", "service", "route", "redirect">>
                          ELSE <<"config", "deployment", "service">>

\* Mutant: the Service is forgotten.
DeleteOrderNoService(routes) == IF routes THEN <<"redirect", "route", "deployment", "config">>
                                          ELSE <<"deployment", "config">>

DeleteOrder(routes) == IF routes THEN <<"redirect", "route", "deployment", "service", "config">>
                                 ELSE <<"deployment", "service", "config">>

CreateEnded == row.status # "absent" /\ \A x \in Handlers : h[x].op # "create"

\* Handler x takes request r; the requests that are being served are not alone any more.
Take(x, r) ==
  LET others == {y \in Handlers : ~Idle(y)}
  IN  /\ Idle(x)
      /\ h' = [y \in Handlers |->
                 IF y = x THEN [r EXCEPT !.alone = (others = {})]
                 ELSE IF Idle(y) THEN h[y] ELSE [h[y] EXCEPT !.alone = FALSE]]
      /\ calm' = (calm /\ others = {})

Fresh(op, count, keep, todo) ==
  [op |-> op, pc |-> "cluster", running |-> op = "status" /\ row.status = "running",
   keep |-> keep, count |-> count, todo |-> todo,
   late |-> op = "delete" /\ CreateEnded, alone |-> TRUE]

\* create: the row is inserted with the validated count before any cluster call.
Create(x) ==
  /\ row.status = "absent"
  /\ \E n \in Counts \ {0} :
       /\ row' = [status |-> "creating", replicas |-> n, lastNonZero |-> n,
                  hostname |-> Exposed, deletedAt |-> FALSE]
       /\ ran' = n
       /\ Take(x, Fresh("create", n, n, CreateOrder))
  /\ UNCHANGED <<res, spec, faults, crashes, cleaned>>

\* The other operations begin with findOneOrThrow, which finds deleted rows too.
Begin(x) ==
  /\ row.status # "absent"
  /\ \/ /\ row.status # "deleted"
        /\ Take(x, Fresh("status", 0, 0, <<>>))
     \/ \E n \in Counts :
          Take(x, Fresh("scale", n, IF n > 0 THEN n ELSE row.lastNonZero, <<>>))
     \/ Take(x, Fresh("stop", 0, IF row.replicas > 0 THEN row.replicas ELSE row.lastNonZero, <<>>))
     \/ \E n \in (Counts \ {0}) \cup {row.lastNonZero} : Take(x, Fresh("start", n, n, <<>>))
     \/ Take(x, Fresh("restart", 0, 0, <<>>))
     \/ Take(x, Fresh("delete", 0, 0, DeleteOrder(row.hostname)))
  /\ UNCHANGED <<row, res, spec, faults, crashes, ran, cleaned>>

-----------------------------------------------------------------------------
(* Calls *)

Raise  == faults < MaxFaults /\ faults' = faults + 1 /\ calm' = FALSE
Return == UNCHANGED <<faults, calm>>

Goto(x, pc) == h' = [h EXCEPT ![x].pc = pc]
Done(x)     == h' = [h EXCEPT ![x] = NoRequest]

\* The calls of scaleDeployment and restartDeployment take effect only on a Deployment
\* resource that exists; on a missing one they raise Not Found and the request ends.
Patches(x) == h[x].op \in {"scale", "stop", "start"}

\* Mutant: the count is added to what runs.
PatchAdds(x) == spec' = IF Patches(x) THEN spec + h[x].count ELSE spec

\* Mutant: nothing is patched when the row says the count is there already.
PatchOnChange(x) == spec' = IF Patches(x) /\ h[x].count # row.replicas THEN h[x].count ELSE spec

Patch(x)   == spec' = IF Patches(x) THEN h[x].count ELSE spec

ClusterPatch(x) ==
  /\ h[x].op \in {"scale", "stop", "start", "restart"} /\ h[x].pc = "cluster"
  /\ \/ /\ "deployment" \in res
        /\ Patch(x) /\ Goto(x, "db") /\ Return
     \/ /\ "deployment" \notin res
        /\ UNCHANGED spec /\ Done(x) /\ Return
     \/ /\ Raise /\ Done(x)
        /\ UNCHANGED spec \/ ("deployment" \in res /\ Patch(x))
  /\ UNCHANGED <<row, res, crashes, ran, cleaned>>

\* getDeploymentStatus: the row becomes running when enough replicas are ready.
ClusterStatus(x) ==
  /\ At(x, "status", "cluster")
  /\ \E ready \in BOOLEAN :
       /\ ready => "deployment" \in res /\ spec > 0
       /\ IF ready /\ ~h[x].running THEN Goto(x, "db") ELSE Done(x)
  /\ Return \/ (Raise /\ Done(x))
  /\ UNCHANGED <<row, res, spec, crashes, ran, cleaned>>

Next1(x) == Head(h[x].todo)
Advance(x, pc) ==
  h' = [h EXCEPT ![x].todo = Tail(@), ![x].pc = IF Len(h[x].todo) = 1 THEN pc ELSE @]

\* deployImage, one resource; the request is done after the last one.
MakeResource(r, n) ==
  /\ res' = res \cup {r}
  /\ spec' = IF r = "deployment" THEN n ELSE spec

CreateResource(x) ==
  /\ At(x, "create", "cluster")
  /\ MakeResource(Next1(x), h[x].count)
  /\ IF Len(h[x].todo) = 1 THEN Done(x) ELSE Advance(x, "cluster")
  /\ Return
  /\ UNCHANGED <<row, crashes, ran, cleaned>>


\* Mutant: routes that were made are not taken back.
CreateRaisesNoUndo(x) ==
  /\ At(x, "create", "cluster") /\ Raise
  /\ UNCHANGED <<res, spec>> \/ MakeResource(Next1(x), h[x].count)
  /\ Goto(x, "failed")
  /\ UNCHANGED <<row, crashes, ran, cleaned>>

\* A call of deployImage raises, with or without having taken effect.  Both routes are
\* taken back when creating one of them raised; labelling the namespace for the gateway,
\* just before the routes, can raise too and takes nothing back.
CreateRaises(x) ==
  /\ At(x, "create", "cluster") /\ Raise
  /\ UNCHANGED <<res, spec>> \/ MakeResource(Next1(x), h[x].count)
  /\ \/ /\ Next1(x) \in Routes
        /\ h' = [h EXCEPT ![x].pc = "undo", ![x].todo = <<"redirect", "route">>]
     \/ /\ Next1(x) \in Base \/ (Next1(x) = "route" /\ res' = res)
        /\ Goto(x, "failed")
  /\ UNCHANGED <<row, crashes, ran, cleaned>>

DropResource(r) ==
  /\ res' = res \ {r}
  /\ spec' = IF r = "deployment" THEN 0 ELSE spec

\* The routes are deleted again, then the error reaches create's catch.
UndoRoute(x) ==
  /\ At(x, "create", "undo")
  /\ \/ DropResource(Next1(x)) /\ Advance(x, "failed") /\ Return
     \/ /\ Raise /\ Goto(x, "failed")
        /\ DropResource(Next1(x)) \/ UNCHANGED <<res, spec>>
  /\ UNCHANGED <<row, crashes, ran, cleaned>>

\* deleteDeploymentResources, one resource; missing ones count as deleted, any other
\* error ends the request.
DeleteResource(x) ==
  /\ At(x, "delete", "cluster")
  /\ DropResource(Next1(x))
  /\ \/ Advance(x, "db") /\ Return /\ cleaned' = (cleaned \/ (h[x].late /\ Len(h[x].todo) = 1))
     \/ Raise /\ Done(x) /\ UNCHANGED cleaned
  /\ UNCHANGED <<row, crashes, ran>>

DeleteRaises(x) ==
  /\ At(x, "delete", "cluster")
  /\ Raise /\ Done(x)
  /\ UNCHANGED <<row, res, spec, crashes, ran, cleaned>>

-----------------------------------------------------------------------------
(* The row is written from what the request read when it began *)


\* Mutant: a stop overwrites the count to restore.
ScaledForgets(x, status) ==
  [row EXCEPT !.replicas = h[x].count, !.lastNonZero = h[x].count, !.status = status]

Scaled(x, status) == [row EXCEPT !.replicas = h[x].count, !.lastNonZero = h[x].keep, !.status = status]

Updated(x) ==
  CASE h[x].op = "create"  -> [row EXCEPT !.status = "failed"]
    [] h[x].op = "status"  -> [row EXCEPT !.status = "running"]
    [] h[x].op = "scale"   -> Scaled(x, IF h[x].count = 0 THEN "stopped" ELSE "creating")
    [] h[x].op = "stop"    -> Scaled(x, "stopped")
    [] h[x].op = "start"   -> Scaled(x, "creating")
    [] h[x].op = "restart" -> [row EXCEPT !.status = "creating"]
    [] h[x].op = "delete"  -> [row EXCEPT !.status = "deleted", !.deletedAt = TRUE, !.hostname = FALSE]

WriteRow(x) ==
  /\ h[x].op # "none" /\ h[x].pc \in {"db", "failed"}
  /\ \/ /\ row' = Updated(x)
        /\ ran' = IF row'.replicas > 0 THEN row'.replicas ELSE ran
        /\ Return \/ Raise
     \/ Raise /\ UNCHANGED <<row, ran>>
  /\ Done(x)
  /\ UNCHANGED <<res, spec, crashes, cleaned>>

\* The deployment manager stops: every request it was serving is gone where it stood.
Crash ==
  /\ crashes < MaxCrashes
  /\ crashes' = crashes + 1 /\ calm' = FALSE
  /\ h' = [x \in Handlers |-> NoRequest]
  /\ UNCHANGED <<row, res, spec, faults, ran, cleaned>>

Step(x) ==
  \/ ClusterPatch(x) \/ ClusterStatus(x)
  \/ CreateResource(x) \/ CreateRaises(x) \/ UndoRoute(x)
  \/ DeleteResource(x) \/ DeleteRaises(x)
  \/ WriteRow(x)

Next ==
  \/ \E x \in Handlers : Create(x) \/ Begin(x) \/ Step(x)
  \/ Crash

Spec == Init /\ [][Next]_vars

-----------------------------------------------------------------------------
(* Properties *)

Quiet == \A x \in Handlers : Idle(x)

\* What create makes.
Made == IF Exposed THEN Resource ELSE Base

\* Any sequence of requests that do not overlap leaves the row and the cluster in agreement:
\* nothing exists of an absent or deleted deployment, everything of any other, with the
\* replicas the row says, and the count that start would restore is the last non-zero one.
SerialAgreement ==
  calm /\ Quiet =>
    /\ row.deletedAt <=> row.status = "deleted"
    /\ row.status # "failed"
    /\ row.status \in {"absent", "deleted"} => res = {}
    /\ row.status \in {"creating", "running", "stopped"} =>
         /\ res = Made
         /\ spec = row.replicas
         /\ row.status = "stopped" => spec = 0
         /\ row.status = "running" => spec > 0
    /\ row.lastNonZero = ran
    /\ row.hostname => Exposed

\* A scale, stop or start that has the deployment to itself repairs whatever drift earlier
\* races, errors and stops of the manager left between the row and the cluster, and a stop
\* remembers the count it stopped.
LoneRequestRepairs ==
  [][\A x \in Handlers :
       /\ Patches(x) /\ h[x].pc = "db" /\ h[x].alone
       /\ h'[x] = NoRequest /\ UNCHANGED <<faults, crashes>>
       => /\ spec' = row'.replicas
          /\ row'.status = "stopped" <=> spec' = 0
          /\ spec' = 0 /\ row.replicas > 0 => row'.lastNonZero = row.replicas]_vars

\* Once a delete that began after create had ended got through the cluster, no request,
\* however late, brings the Deployment, the Service or the configuration back.
NoLeftovers == cleaned => res \cap Base = {}

\* When one call of a create that runs alone raises, no route is left behind.
RoutesTakenBack ==
  \A x \in Handlers : At(x, "create", "failed") /\ h[x].alone /\ faults = 1 => res \cap Routes = {}

(* What comments of the code say and overlapping requests break *)

\* deployments.service.ts:330: "keeps the DB record as deleted history".
DeletedIsHistory == [][row.status = "deleted" => row'.status = "deleted"]_vars

\* deployments.service.ts:262: stop works "by scaling to zero".
StoppedRunsNothing == Quiet /\ row.status = "stopped" => spec = 0

\* kubernetes.service.ts:358: delete removes "the Kubernetes resources that were created for
\* a deployment"; here it began after create had ended and no call of it raised.
DeleteRemovesAll == cleaned => res = {}
=============================================================================
