------------------------------ MODULE Incidents ------------------------------
(***************************************************************************)
(* Health samples and incidents of one deployment.  A manager has two      *)
(* timers.  One collects a sample: it reads the deployment's row, observes *)
(* the cluster, stores the sample.  The other detects: it reads the two    *)
(* newest samples and works on all the problems they show at once, each    *)
(* task looking for an open incident of its rule before it opens one and   *)
(* starts a run for it.  A timer does nothing while its last round is on.  *)
(*                                                                         *)
(* A round ends with the first task that raises (Promise.all); the other   *)
(* tasks of that round are left behind and go on.                          *)
(*                                                                         *)
(* Nothing but the two newest samples is ever read, so no others are kept. *)
(* Samples are ordered by their insertion, which with one manager is the   *)
(* order of collectedAt.                                                   *)
(***************************************************************************)
EXTENDS Integers, FiniteSets, Sequences

CONSTANTS
  Managers,       \* deployment managers (two of them during a rolling update)
  Lives,          \* what a Deployment resource can show: desired, ready, warnings, restarts
  Stored,         \* the statuses the deployment's row takes
  Slots,          \* tasks of one rule that one manager can have at once
  AutoRca,        \* autoRcaEnabled
  MaxResolves,    \* bound on resolved incidents
  MaxManual,      \* bound on incidents users open
  MaxFaults,      \* bound on database and cluster calls that raise
  MaxCrashes      \* bound on stops of managers

ASSUME IncidentsAssumption ==
  /\ MaxResolves \in Nat /\ MaxManual \in Nat /\ MaxFaults \in Nat /\ MaxCrashes \in Nat
  /\ AutoRca \in BOOLEAN
  /\ IsFiniteSet(Managers) /\ IsFiniteSet(Slots)
  /\ Lives \subseteq [desired : Nat, ready : Nat, warnings : Nat, restarts : Nat]
  /\ Stored \subseteq {"creating", "running", "failed", "stopped", "deleted"}

Clusters == {{}} \cup {{l} : l \in Lives}

Rules == {"ready-replicas-below-desired", "kubernetes-warning-events",
          "container-restarts-increased", "health-status-failed", "health-status-warning"}
Tasks == Managers \X Rules \X Slots
ManagerOf(t) == t[1]
RuleOf(t)    == t[2]

VARIABLES
  stored,      \* status in the Deployment row
  live,        \* what the cluster shows of its Deployment resource; {} while there is none
  samples,     \* the newest DeploymentHealthSample rows, at most two, newest last
  age,         \* of the newest sample: "new", "read" by a detection, "old" after ten minutes
  collect,     \* each manager's collection
  round,       \* each manager's detection: "idle" while isDetecting is false
  current,     \* the tasks each manager's round waits for
  task,        \* where each task stands
  target,      \* the incident each task found or opened, 0 when it has none
  incidents,   \* Incident rows in the order they were opened
  orphans,     \* history: incidents whose task raised or stopped before it started their run
  up, faults, crashes, resolves

envVars    == <<stored, live>>
sampleVars == <<samples, age, collect>>
detectVars == <<round, current, task, target>>
countVars  == <<up, faults, crashes, resolves>>
vars       == <<envVars, sampleVars, detectVars, incidents, orphans, countVars>>

SampleStatus == {"creating", "running", "failed", "stopped", "deleted", "warning"}
Sample   == [status : SampleStatus, seen : Lives]
Incident == [rule : Rules \cup {"manual"}, open : BOOLEAN, run : BOOLEAN]
Collect  == [pc : {"idle", "row", "retain"}]
              \cup [pc : {"observe"}, stored : Stored]
              \cup [pc : {"store"}, sample : Sample]

\* Type correctness of samples, rounds, tasks and incidents.
TypeOK ==
  /\ stored \in Stored /\ live \in Clusters
  /\ samples \in Seq(Sample) /\ Len(samples) <= 2
  /\ age \in {"new", "read", "old"}
  /\ collect \in [Managers -> Collect]
  /\ round \in [Managers -> {"idle", "list", "read", "tasks"}]
  /\ current \in [Managers -> SUBSET Tasks]
  /\ task \in [Tasks -> {"none", "find", "update", "create", "run"}]
  /\ target \in [Tasks -> Nat]
  /\ incidents \in Seq(Incident) /\ orphans \in SUBSET Nat
  /\ up \in [Managers -> BOOLEAN]
  /\ faults \in Nat /\ crashes \in Nat /\ resolves \in Nat

Init ==
  /\ stored \in Stored \ {"deleted"} /\ live \in Clusters
  /\ samples = <<>> /\ age = "old"
  /\ collect = [m \in Managers |-> [pc |-> "idle"]]
  /\ round = [m \in Managers |-> "idle"]
  /\ current = [m \in Managers |-> {}]
  /\ task = [t \in Tasks |-> "none"] /\ target = [t \in Tasks |-> 0]
  /\ incidents = <<>> /\ orphans = {}
  /\ up = [m \in Managers |-> TRUE]
  /\ faults = 0 /\ crashes = 0 /\ resolves = 0

-----------------------------------------------------------------------------
(* The deployment, the cluster and time *)

\* The deployment's row and its cluster change as Deployments describes; here, freely.
Change ==
  /\ stored' \in Stored /\ live' \in Clusters
  /\ UNCHANGED <<sampleVars, detectVars, incidents, orphans, countVars>>

\* No sample arrived for ten minutes.  Detection runs every minute, so it has read the
\* newest one before, unless no manager was there to do so.
GrowOld ==
  /\ age = "read" \/ (age = "new" /\ \A m \in Managers : ~up[m])
  /\ age' = "old"
  /\ UNCHANGED <<envVars, samples, collect, detectVars, incidents, orphans, countVars>>

-----------------------------------------------------------------------------
(* Collecting a sample *)

NoFault == UNCHANGED faults
Fault   == faults < MaxFaults /\ faults' = faults + 1

\* deriveSampleStatus, from the stored status and what was seen of the cluster.
SampleStatusOf(status, seen) ==
  IF status = "stopped" \/ seen.desired = 0 THEN "stopped"
  ELSE IF status = "deleted" THEN "deleted"
  ELSE IF seen.warnings > 0 THEN "warning"
  ELSE IF seen.ready >= seen.desired THEN "running"
  ELSE status

\* collectAllHealthSamples lists the deployments that are not deleted; without one, only
\* the retention is left to do.  It and the detection ask for deployments of active workspaces;
\* a workspace is created active and nothing ever changes its status.
CollectBegin(m) ==
  /\ up[m] /\ collect[m].pc = "idle"
  /\ collect' = [collect EXCEPT ![m] =
                   [pc |-> IF stored = "deleted" THEN "retain" ELSE "row"]]
  /\ NoFault /\ UNCHANGED <<samples, age>>

\* findDeploymentForHealthSample, which asks for any status.
ReadRow(m) ==
  /\ collect[m].pc = "row"
  /\ collect' = [collect EXCEPT ![m] = [pc |-> "observe", stored |-> stored]]
  /\ NoFault /\ UNCHANGED <<samples, age>>

\* The three reads of the cluster; they raise Not Found while there is no Deployment resource.
Observe(m) ==
  /\ collect[m].pc = "observe"
  /\ \E seen \in live :
       collect' = [collect EXCEPT ![m] =
                     [pc |-> "store",
                      sample |-> [status |-> SampleStatusOf(@.stored, seen), seen |-> seen]]]
  /\ NoFault /\ UNCHANGED <<samples, age>>

ObserveRaises(m) ==
  /\ collect[m].pc = "observe" /\ live = {}
  /\ collect' = [collect EXCEPT ![m] = [pc |-> "retain"]]
  /\ NoFault /\ UNCHANGED <<samples, age>>

\* Mutant: one sample more than the two newest.
NewestThree(s) == IF Len(s) > 3 THEN Tail(s) ELSE s

Newest(s) == IF Len(s) > 2 THEN Tail(s) ELSE s

Store(m) ==
  /\ collect[m].pc = "store"
  /\ samples' = Newest(Append(samples, collect[m].sample))
  /\ age' = "new"
  /\ collect' = [collect EXCEPT ![m] = [pc |-> "retain"]]
  /\ NoFault

\* deleteExpiredHealthSamples: a sample older than the retention is old to detection too.
Retain(m) ==
  /\ collect[m].pc = "retain"
  /\ \/ UNCHANGED samples
     \/ Len(samples) = 2 /\ samples' = Tail(samples)
     \/ age = "old" /\ samples' = <<>>
  /\ collect' = [collect EXCEPT ![m] = [pc |-> "idle"]]
  /\ NoFault /\ UNCHANGED age

\* A call raises: the deployment's sample is not taken this time, or the round ends.
CollectRaises(m) ==
  /\ collect[m].pc # "idle" /\ Fault
  /\ \/ collect' = [collect EXCEPT ![m] =
                      [pc |-> IF @.pc = "retain" THEN "idle" ELSE "retain"]]
        /\ UNCHANGED <<samples, age>>
     \/ /\ collect[m].pc = "store"
        /\ samples' = Newest(Append(samples, collect[m].sample)) /\ age' = "new"
        /\ collect' = [collect EXCEPT ![m] = [pc |-> "retain"]]

CollectStep(m) ==
  /\ \/ CollectBegin(m) \/ ReadRow(m) \/ Observe(m) \/ ObserveRaises(m) \/ Store(m) \/ Retain(m)
     \/ CollectRaises(m)
  /\ UNCHANGED <<envVars, detectVars, incidents, orphans, up, crashes, resolves>>

-----------------------------------------------------------------------------
(* Detection *)

\* The problems the newest sample shows, by itself or beside the one before it.
Signals(s) ==
  LET latest == s[Len(s)].seen
      status == s[Len(s)].status
  IN  {r \in Rules :
         \/ r = "ready-replicas-below-desired" /\ latest.desired > 0 /\ latest.ready < latest.desired
         \/ r = "kubernetes-warning-events" /\ latest.warnings > 0
         \/ r = "container-restarts-increased" /\ Len(s) = 2 /\ latest.restarts > s[1].seen.restarts
         \/ r = "health-status-failed" /\ status = "failed"
         \/ r = "health-status-warning" /\ status = "warning"}

GotoRound(m, from, to) == round[m] = from /\ round' = [round EXCEPT ![m] = to]

DetectBegin(m) ==
  /\ up[m] /\ GotoRound(m, "idle", "list")
  /\ NoFault /\ UNCHANGED <<age, current, task, target, incidents>>

\* Mutant: samples of any age are recent.
DetectListAll(m) ==
  /\ IF samples # <<>> THEN GotoRound(m, "list", "read") ELSE GotoRound(m, "list", "idle")
  /\ NoFault /\ UNCHANGED <<age, current, task, target, incidents>>

\* getDeploymentIdsWithRecentSamples
DetectList(m) ==
  /\ IF samples # <<>> /\ age # "old" THEN GotoRound(m, "list", "read") ELSE GotoRound(m, "list", "idle")
  /\ NoFault /\ UNCHANGED <<age, current, task, target, incidents>>

HasFreeSlot(m, r) == \E k \in Slots : task[<<m, r, k>>] = "none"
FreeSlot(m, r)    == <<m, r, CHOOSE k \in Slots : task[<<m, r, k>>] = "none">>

\* detectDeploymentIncidents: one task for each signal.
DetectRead(m) ==
  LET signals == IF samples = <<>> THEN {} ELSE Signals(samples)
      new     == {FreeSlot(m, r) : r \in signals}
  IN  /\ \A r \in signals : HasFreeSlot(m, r)
      /\ IF signals = {} THEN GotoRound(m, "read", "idle") ELSE GotoRound(m, "read", "tasks")
      /\ current' = [current EXCEPT ![m] = new]
      /\ task' = [t \in Tasks |-> IF t \in new THEN "find" ELSE task[t]]
      /\ age' = IF age = "new" THEN "read" ELSE age
      /\ NoFault /\ UNCHANGED <<target, incidents>>

DetectRaises(m) ==
  /\ Fault
  /\ GotoRound(m, "list", "idle") \/ GotoRound(m, "read", "idle")
  /\ UNCHANGED <<age, current, task, target, incidents>>

-----------------------------------------------------------------------------
(* openAutomaticIncident *)

OpenOf(r) == {i \in DOMAIN incidents : incidents[i].rule = r /\ incidents[i].open}

GotoTask(t, from, to) ==
  /\ task[t] = from /\ task' = [task EXCEPT ![t] = to]
  /\ UNCHANGED <<round, current>>

\* A task of the round is done; with the last one the round is over.
Done(t) ==
  LET m    == ManagerOf(t)
      rest == current[m] \ {t}
  IN  /\ task' = [task EXCEPT ![t] = "none"]
      /\ target' = [target EXCEPT ![t] = 0]
      /\ current' = [current EXCEPT ![m] = rest]
      /\ round' = [round EXCEPT ![m] = IF t \in current[m] /\ rest = {} THEN "idle" ELSE @]

\* Mutant: isDetecting is not reset when the round raises.
RaisesStuck(t) ==
  LET m == ManagerOf(t)
  IN  /\ Fault
      /\ task' = [task EXCEPT ![t] = "none"]
      /\ target' = [target EXCEPT ![t] = 0]
      /\ current' = [current EXCEPT ![m] = IF t \in @ THEN {} ELSE @]
      /\ UNCHANGED round

\* A task raises: its round is over, and whatever else the round had under way is left behind.
Raises(t) ==
  LET m == ManagerOf(t)
  IN  /\ Fault
      /\ task' = [task EXCEPT ![t] = "none"]
      /\ target' = [target EXCEPT ![t] = 0]
      /\ current' = [current EXCEPT ![m] = IF t \in @ THEN {} ELSE @]
      /\ round' = [round EXCEPT ![m] = IF t \in current[m] THEN "idle" ELSE @]

\* Mutant: the open incident is not looked for.
FindNone(t) ==
  /\ GotoTask(t, "find", "create") /\ UNCHANGED target
  /\ NoFault /\ UNCHANGED incidents

Find(t) ==
  /\ \/ /\ OpenOf(RuleOf(t)) = {}
        /\ GotoTask(t, "find", "create") /\ UNCHANGED target
     \/ \E i \in OpenOf(RuleOf(t)) :
          GotoTask(t, "find", "update") /\ target' = [target EXCEPT ![t] = i]
  /\ NoFault /\ UNCHANGED incidents

\* Mutant: the update writes the status it read.
UpdateReopens(t) ==
  /\ task[t] = "update"
  /\ Done(t)
  /\ incidents' = [incidents EXCEPT ![target[t]] = [rule |-> @.rule, open |-> TRUE, run |-> @.run]]
  /\ NoFault

\* The update renews severity, summary and sample of the incident that was found; it leaves
\* the status alone, so an incident resolved in between stays resolved.
Update(t) ==
  /\ task[t] = "update"
  /\ Done(t)
  /\ NoFault /\ UNCHANGED incidents

OpenIncident(t) == incidents' = Append(incidents, [rule |-> RuleOf(t), open |-> TRUE, run |-> FALSE])

Create(t) ==
  /\ OpenIncident(t)
  /\ IF AutoRca
       THEN GotoTask(t, "create", "run") /\ target' = [target EXCEPT ![t] = Len(incidents) + 1]
       ELSE task[t] = "create" /\ Done(t)
  /\ NoFault

StartRun(i) == incidents' = [incidents EXCEPT ![i] = [rule |-> @.rule, open |-> @.open, run |-> TRUE]]

\* Mutant: the run is started for the newest incident, whoever opened it.
AutoRunNewest(t) ==
  /\ task[t] = "run"
  /\ StartRun(Len(incidents))
  /\ Done(t)
  /\ NoFault

\* rcaService.startForIncident(incident.id, "automatic")
AutoRun(t) ==
  /\ task[t] = "run"
  /\ StartRun(target[t])
  /\ Done(t)
  /\ NoFault

TaskRaises(t) ==
  /\ task[t] # "none"
  /\ Raises(t)
  /\ \/ task[t] # "run" /\ UNCHANGED <<incidents, orphans>>
     \/ task[t] = "create" /\ OpenIncident(t) /\ orphans' = orphans \cup {Len(incidents) + 1}
     \/ task[t] = "run" /\ UNCHANGED incidents /\ orphans' = orphans \cup {target[t]}
     \/ task[t] = "run" /\ StartRun(target[t]) /\ UNCHANGED orphans

TaskStep(t) ==
  /\ \/ (Find(t) \/ Update(t) \/ Create(t) \/ AutoRun(t)) /\ UNCHANGED orphans
     \/ TaskRaises(t)
  /\ UNCHANGED age

DetectStep(m) ==
  /\ DetectBegin(m) \/ DetectList(m) \/ DetectRead(m) \/ DetectRaises(m)
  /\ UNCHANGED orphans

DetectFrame == UNCHANGED <<envVars, samples, collect, up, crashes, resolves>>

Detect ==
  /\ (\E m \in Managers : DetectStep(m)) \/ (\E t \in Tasks : TaskStep(t))
  /\ DetectFrame

-----------------------------------------------------------------------------
(* Users *)

Resolve(i) ==
  /\ incidents[i].open /\ resolves < MaxResolves
  /\ incidents' = [incidents EXCEPT ![i] = [rule |-> @.rule, open |-> FALSE, run |-> @.run]]
  /\ resolves' = resolves + 1
  /\ UNCHANGED <<envVars, sampleVars, detectVars, orphans, up, faults, crashes>>

Manual == {i \in DOMAIN incidents : incidents[i].rule = "manual"}

CreateManualIncident ==
  /\ Cardinality(Manual) < MaxManual
  /\ incidents' = Append(incidents, [rule |-> "manual", open |-> TRUE, run |-> FALSE])
  /\ UNCHANGED <<envVars, sampleVars, detectVars, orphans, countVars>>

-----------------------------------------------------------------------------
(* Processes *)

ManagerStops(m) ==
  /\ up[m] /\ crashes < MaxCrashes
  /\ crashes' = crashes + 1
  /\ up' = [up EXCEPT ![m] = FALSE]
  /\ collect' = [collect EXCEPT ![m] = [pc |-> "idle"]]
  /\ round' = [round EXCEPT ![m] = "idle"]
  /\ current' = [current EXCEPT ![m] = {}]
  /\ task' = [t \in Tasks |-> IF ManagerOf(t) = m THEN "none" ELSE task[t]]
  /\ target' = [t \in Tasks |-> IF ManagerOf(t) = m THEN 0 ELSE target[t]]
  /\ orphans' = orphans \cup {target[t] : t \in {u \in Tasks : ManagerOf(u) = m /\ task[u] = "run"}}
  /\ UNCHANGED <<envVars, samples, age, incidents, faults, resolves>>

ManagerStarts(m) ==
  /\ ~up[m]
  /\ up' = [up EXCEPT ![m] = TRUE]
  /\ UNCHANGED <<envVars, sampleVars, detectVars, incidents, orphans, faults, crashes, resolves>>

Next ==
  \/ Change \/ GrowOld
  \/ \E m \in Managers : CollectStep(m) \/ ManagerStops(m) \/ ManagerStarts(m)
  \/ Detect
  \/ \E i \in DOMAIN incidents : Resolve(i)
  \/ CreateManualIncident

Spec == Init /\ [][Next]_vars

\* The timers tick, every call returns or raises, Kubernetes restarts a manager, and time
\* passes.  Nothing obliges the deployment, users or faults.
Fairness ==
  /\ \A m \in Managers :
       /\ WF_vars(CollectStep(m)) /\ WF_vars(DetectStep(m) /\ DetectFrame) /\ WF_vars(ManagerStarts(m))
  /\ \A t \in Tasks : WF_vars(TaskStep(t) /\ DetectFrame)
  /\ WF_vars(GrowOld)

FairSpec == Spec /\ Fairness

-----------------------------------------------------------------------------
(* Properties *)

\* One rule has at most one open incident for each manager, and one more for each call
\* that raised: looking for an incident and opening it are not one step, and a task left
\* behind by a failed round works beside the tasks of the next.
OpenBounded == \A r \in Rules : Cardinality(OpenOf(r)) <= Cardinality(Managers) + faults

\* An automatic incident has its run, or the task that opened it is about to start one; unless
\* that very task raised or its manager stopped in between.  Nothing else loses a run: no other
\* failure or stop, no task left behind, no resolve before the run is started.
RunFollows ==
  AutoRca =>
    \A i \in DOMAIN incidents :
       incidents[i].rule # "manual" /\ ~incidents[i].run /\ i \notin orphans =>
         \E t \in Tasks : task[t] = "run" /\ target[t] = i

\* No detection, however late, brings a resolved incident back.
ResolvedStays ==
  [][\A i \in DOMAIN incidents : ~incidents[i].open => ~incidents'[i].open]_vars

\* A deployment that stays short of replicas has an open incident for it in the end, also
\* when users resolve it, calls raise and managers stop.
Unready == stored = "running" /\ \E seen \in live : seen.ready < seen.desired
LastingProblemIsOpen == <>[]Unready => <>[](OpenOf("ready-replicas-below-desired") # {})

\* About a deployment that stays deleted the detection falls silent in the end, although
\* its samples and incidents remain.
DeletedFallsSilent == <>[](stored = "deleted") => <>[](\A t \in Tasks : task[t] = "none")
=============================================================================
