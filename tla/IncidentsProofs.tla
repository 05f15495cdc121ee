--------------------------- MODULE IncidentsProofs ---------------------------
(* Theorems about Incidents for any number of managers, tasks, incidents,    *)
(* faults, stops and users, and whatever the deployment goes through.        *)
EXTENDS Incidents, FiniteSetTheorems, TLAPS

-----------------------------------------------------------------------------
(* Facts about collections, tasks and incidents *)

\* Every stage of a collection is one that Collect lists.
LEMMA CollectType ==
  /\ \A p \in {"idle", "row", "retain"} : [pc |-> p] \in Collect
  /\ \A s \in Stored : [pc |-> "observe", stored |-> s] \in Collect
  /\ \A s \in Sample : [pc |-> "store", sample |-> s] \in Collect
  /\ \A c \in Collect : /\ c.pc = "observe" => c.stored \in Stored
                        /\ c.pc = "store" => c.sample \in Sample
BY DEF Collect

\* deriveSampleStatus returns one of the statuses of a sample.
LEMMA SampleStatusType ==
  ASSUME NEW status \in Stored, NEW seen \in Lives
  PROVE  [status |-> SampleStatusOf(status, seen), seen |-> seen] \in Sample
<1>1. status \in SampleStatus
  BY IncidentsAssumption DEF SampleStatus
<1> QED BY <1>1 DEF SampleStatusOf, SampleStatus, Sample

\* A task has a manager and a rule.
LEMMA TaskType ==
  ASSUME NEW t \in Tasks PROVE ManagerOf(t) \in Managers /\ RuleOf(t) \in Rules
BY DEF Tasks, ManagerOf, RuleOf

\* The newest samples, with one more.
LEMMA NewestType ==
  ASSUME NEW s \in Seq(Sample), Len(s) <= 2, NEW x \in Sample
  PROVE  Newest(Append(s, x)) \in Seq(Sample) /\ Len(Newest(Append(s, x))) <= 2
<1>1. Append(s, x) \in Seq(Sample) /\ Len(Append(s, x)) = Len(s) + 1
  OBVIOUS
<1> QED BY <1>1 DEF Newest

\* A free slot is a task that does not run.
LEMMA FreeSlotIsFree ==
  ASSUME NEW m \in Managers, NEW r \in Rules, HasFreeSlot(m, r)
  PROVE  /\ FreeSlot(m, r) \in Tasks /\ task[FreeSlot(m, r)] = "none"
         /\ ManagerOf(FreeSlot(m, r)) = m /\ RuleOf(FreeSlot(m, r)) = r
<1> DEFINE k == CHOOSE k \in Slots : task[<<m, r, k>>] = "none"
<1>1. k \in Slots /\ task[<<m, r, k>>] = "none"
  BY DEF HasFreeSlot
<1> HIDE DEF k
<1>2. FreeSlot(m, r) = <<m, r, k>>
  BY DEF FreeSlot, k
<1> QED BY <1>1, <1>2 DEF Tasks, ManagerOf, RuleOf

\* What users and tasks make of incidents are incidents.
LEMMA IncidentType ==
  ASSUME NEW i \in Incident
  PROVE  /\ i.rule \in Rules \cup {"manual"} /\ i.open \in BOOLEAN /\ i.run \in BOOLEAN
         /\ [rule |-> i.rule, open |-> FALSE, run |-> i.run] \in Incident
         /\ [rule |-> i.rule, open |-> i.open, run |-> TRUE] \in Incident
<1>1. i.rule \in Rules \cup {"manual"} /\ i.open \in BOOLEAN /\ i.run \in BOOLEAN
  BY DEF Incident
<1>2. TRUE \in BOOLEAN /\ FALSE \in BOOLEAN
  OBVIOUS
<1>3. ASSUME NEW r \in Rules \cup {"manual"}, NEW o \in BOOLEAN, NEW q \in BOOLEAN
      PROVE  [rule |-> r, open |-> o, run |-> q] \in Incident
  BY DEF Incident
<1>4. [rule |-> i.rule, open |-> FALSE, run |-> i.run] \in Incident
  BY <1>1, <1>2, <1>3, Zenon
<1>5. [rule |-> i.rule, open |-> i.open, run |-> TRUE] \in Incident
  BY <1>1, <1>2, <1>3, Zenon
<1> QED BY <1>1, <1>4, <1>5

\* What a task or a user opens is an incident.
LEMMA NewIncidentType ==
  ASSUME NEW r \in Rules \cup {"manual"}
  PROVE  [rule |-> r, open |-> TRUE, run |-> FALSE] \in Incident
BY DEF Incident

\* Tasks change the incidents in one of these ways.
LEMMA StartRunType ==
  ASSUME TypeOK, NEW i, StartRun(i)
  PROVE  /\ incidents' \in Seq(Incident) /\ Len(incidents') = Len(incidents)
         /\ \A j \in DOMAIN incidents :
              /\ incidents'[j].rule = incidents[j].rule /\ incidents'[j].open = incidents[j].open
              /\ j # i => incidents'[j] = incidents[j]
              /\ j = i => incidents'[j].run
<1> DEFINE new(x) == [rule |-> x.rule, open |-> x.open, run |-> TRUE]
<1>1. incidents \in Seq(Incident)
  BY DEF TypeOK
<1>2. \A x \in Incident : new(x) \in Incident /\ new(x).rule = x.rule /\ new(x).open = x.open
  BY IncidentType
<1>3. \A x : new(x).run
  OBVIOUS
<1>4. incidents' = [incidents EXCEPT ![i] = new(incidents[i])]
  BY DEF StartRun
<1> HIDE DEF new
<1>5. CASE i \in DOMAIN incidents
  BY <1>1, <1>2, <1>3, <1>4, <1>5
<1>6. CASE i \notin DOMAIN incidents
  <2>1. incidents' = incidents
    BY <1>1, <1>4, <1>6
  <2> QED BY <1>1, <1>6, <2>1
<1> QED BY <1>5, <1>6

\* Opening an incident leaves those before it as they are.
LEMMA OpenIncidentType ==
  ASSUME TypeOK, NEW r \in Rules \cup {"manual"},
         incidents' = Append(incidents, [rule |-> r, open |-> TRUE, run |-> FALSE])
  PROVE  /\ incidents' \in Seq(Incident) /\ Len(incidents') = Len(incidents) + 1
         /\ \A j \in DOMAIN incidents : incidents'[j] = incidents[j]
         /\ incidents'[Len(incidents) + 1] = [rule |-> r, open |-> TRUE, run |-> FALSE]
BY NewIncidentType DEF TypeOK

\* A resolve closes its incident and changes nothing else of any.
LEMMA ResolveType ==
  ASSUME TypeOK, NEW i \in DOMAIN incidents, Resolve(i)
  PROVE  /\ incidents' \in Seq(Incident) /\ Len(incidents') = Len(incidents)
         /\ ~incidents'[i].open
         /\ \A j \in DOMAIN incidents :
              /\ incidents'[j].rule = incidents[j].rule /\ incidents'[j].run = incidents[j].run
              /\ j # i => incidents'[j] = incidents[j]
<1> DEFINE new == [rule |-> incidents[i].rule, open |-> FALSE, run |-> incidents[i].run]
<1>1. incidents \in Seq(Incident) /\ incidents[i] \in Incident
  BY DEF TypeOK
<1>2. new \in Incident /\ new.rule = incidents[i].rule /\ new.run = incidents[i].run
  BY <1>1, IncidentType
<1>3. ~new.open
  OBVIOUS
<1>4. incidents' = [incidents EXCEPT ![i] = new]
  BY DEF Resolve
<1> HIDE DEF new
<1> QED BY <1>1, <1>2, <1>3, <1>4

-----------------------------------------------------------------------------
(* Type correctness *)

\* The initial states are of the right types.
LEMMA InitType == Init => TypeOK
BY IncidentsAssumption, CollectType DEF Init, TypeOK, Clusters

\* A step of a collection keeps the types: a sample is stored only after both reads.
LEMMA CollectStepType ==
  ASSUME TypeOK, NEW m \in Managers, CollectStep(m)
  PROVE  TypeOK'
<1>1. /\ collect[m] \in Collect /\ samples \in Seq(Sample) /\ Len(samples) <= 2
      /\ \A seen \in live : seen \in Lives
  BY DEF TypeOK, Clusters
<1>2. UNCHANGED <<stored, live, round, current, task, target, incidents, orphans, up, crashes, resolves>>
  BY DEF CollectStep, envVars, detectVars
<1>3. ASSUME NEW c \in Collect, collect' = [collect EXCEPT ![m] = c],
             samples' \in Seq(Sample), Len(samples') <= 2, age' \in {"new", "read", "old"}, faults' \in Nat
      PROVE  TypeOK'
  BY <1>2, <1>3 DEF TypeOK
<1>4. CASE CollectBegin(m)
  <2> DEFINE c == [pc |-> IF stored = "deleted" THEN "retain" ELSE "row"]
  <2>1. c \in Collect
    BY CollectType
  <2>2. collect' = [collect EXCEPT ![m] = c] /\ UNCHANGED <<samples, age, faults>>
    BY <1>4 DEF CollectBegin, NoFault
  <2> HIDE DEF c
  <2> QED BY <1>3, <2>1, <2>2 DEF TypeOK
<1>5. CASE ReadRow(m)
  BY <1>3, <1>5, CollectType DEF ReadRow, NoFault, TypeOK
<1>6. CASE Observe(m)
  <2>1. PICK seen \in live :
          collect' = [collect EXCEPT ![m] =
                       [pc |-> "store",
                        sample |-> [status |-> SampleStatusOf(collect[m].stored, seen), seen |-> seen]]]
    BY <1>6 DEF Observe
  <2>2. [status |-> SampleStatusOf(collect[m].stored, seen), seen |-> seen] \in Sample
    BY <1>1, <1>6, CollectType, SampleStatusType DEF Observe
  <2> QED BY <1>3, <1>6, <2>1, <2>2, CollectType DEF Observe, NoFault, TypeOK
<1>7. CASE ObserveRaises(m)
  BY <1>3, <1>7, CollectType DEF ObserveRaises, NoFault, TypeOK
<1>8. ASSUME collect[m].pc = "store", samples' = Newest(Append(samples, collect[m].sample))
      PROVE  samples' \in Seq(Sample) /\ Len(samples') <= 2
  BY <1>1, <1>8, CollectType, NewestType
<1>9. CASE Store(m)
  BY <1>3, <1>8, <1>9, CollectType DEF Store, NoFault, TypeOK
<1>10. CASE Retain(m)
  <2>1. samples' \in Seq(Sample) /\ Len(samples') <= 2
    <3>1. Len(samples) = 2 => Tail(samples) \in Seq(Sample) /\ Len(Tail(samples)) = 1
      BY <1>1
    <3>2. <<>> \in Seq(Sample) /\ Len(<<>>) = 0
      OBVIOUS
    <3>3. \/ samples' = samples
          \/ Len(samples) = 2 /\ samples' = Tail(samples)
          \/ samples' = <<>>
      BY <1>10 DEF Retain
    <3>4. CASE samples' = <<>>
      BY <3>2, <3>4
    <3>5. CASE Len(samples) = 2 /\ samples' = Tail(samples)
      BY <3>1, <3>5
    <3> QED BY <1>1, <3>3, <3>4, <3>5
  <2> QED BY <1>3, <1>10, <2>1, CollectType DEF Retain, NoFault, TypeOK
<1>11. CASE CollectRaises(m)
  <2>1. faults' \in Nat
    BY <1>11 DEF CollectRaises, Fault, TypeOK
  <2>2. samples' \in Seq(Sample) /\ Len(samples') <= 2 /\ age' \in {"new", "read", "old"}
    BY <1>1, <1>8, <1>11 DEF CollectRaises, TypeOK
  <2>3. \E p \in {"idle", "retain"} : collect' = [collect EXCEPT ![m] = [pc |-> p]]
    BY <1>11 DEF CollectRaises
  <2> QED BY <1>3, <2>1, <2>2, <2>3, CollectType
<1> QED BY <1>4, <1>5, <1>6, <1>7, <1>9, <1>10, <1>11 DEF CollectStep

\* A task that is done or raises.
LEMMA DoneTypes ==
  ASSUME TypeOK, NEW t \in Tasks, Done(t) \/ Raises(t)
  PROVE  /\ task' = [task EXCEPT ![t] = "none"] /\ target' = [target EXCEPT ![t] = 0]
         /\ \E c \in {{}, current[ManagerOf(t)], current[ManagerOf(t)] \ {t}} :
              current' = [current EXCEPT ![ManagerOf(t)] = c]
         /\ \E d \in {"idle", round[ManagerOf(t)]} : round' = [round EXCEPT ![ManagerOf(t)] = d]
BY DEF Done, Raises

\* A step of a task keeps the types of what tasks touch.
LEMMA TaskStepType ==
  ASSUME TypeOK, NEW t \in Tasks, TaskStep(t)
  PROVE  /\ round' \in [Managers -> {"idle", "list", "read", "tasks"}]
         /\ current' \in [Managers -> SUBSET Tasks]
         /\ task' \in [Tasks -> {"none", "find", "update", "create", "run"}]
         /\ target' \in [Tasks -> Nat]
         /\ incidents' \in Seq(Incident)
         /\ age' = age /\ faults' \in Nat
<1>1. ManagerOf(t) \in Managers /\ RuleOf(t) \in Rules \cup {"manual"}
  BY TaskType
<1>2. ASSUME Done(t) \/ Raises(t)
      PROVE  /\ round' \in [Managers -> {"idle", "list", "read", "tasks"}]
             /\ current' \in [Managers -> SUBSET Tasks]
             /\ task' \in [Tasks -> {"none", "find", "update", "create", "run"}]
             /\ target' \in [Tasks -> Nat]
  <2>1. task' = [task EXCEPT ![t] = "none"] /\ target' = [target EXCEPT ![t] = 0]
    BY <1>2, DoneTypes
  <2>2. PICK c \in {{}, current[ManagerOf(t)], current[ManagerOf(t)] \ {t}} :
          current' = [current EXCEPT ![ManagerOf(t)] = c]
    BY <1>2, DoneTypes
  <2>3. PICK d \in {"idle", round[ManagerOf(t)]} : round' = [round EXCEPT ![ManagerOf(t)] = d]
    BY <1>2, DoneTypes
  <2>4. c \in SUBSET Tasks
    BY <1>1, <2>2 DEF TypeOK
  <2>5. current' \in [Managers -> SUBSET Tasks]
    BY <2>2, <2>4 DEF TypeOK
  <2>6. round' \in [Managers -> {"idle", "list", "read", "tasks"}]
    BY <1>1, <2>3 DEF TypeOK
  <2> QED BY <2>1, <2>5, <2>6 DEF TypeOK
<1>3. ASSUME OpenIncident(t) PROVE incidents' \in Seq(Incident)
  BY <1>1, <1>3, OpenIncidentType DEF OpenIncident
<1>4. age' = age
  BY DEF TaskStep
<1>5. CASE Find(t)
  <2>1. \A i \in OpenOf(RuleOf(t)) : i \in Nat
    BY DEF OpenOf, TypeOK
  <2> QED BY <1>4, <1>5, <2>1 DEF Find, GotoTask, NoFault, TypeOK
<1>6. CASE Update(t)
  BY <1>2, <1>4, <1>6 DEF Update, NoFault, TypeOK
<1>7. CASE Create(t)
  <2>1. incidents' \in Seq(Incident) /\ faults' \in Nat
    BY <1>3, <1>7 DEF Create, NoFault, TypeOK
  <2>2. CASE GotoTask(t, "create", "run") /\ target' = [target EXCEPT ![t] = Len(incidents) + 1]
    BY <1>4, <2>1, <2>2 DEF GotoTask, TypeOK
  <2>3. CASE Done(t)
    BY <1>2, <1>4, <2>1, <2>3
  <2> QED BY <1>7, <2>2, <2>3 DEF Create
<1>8. CASE AutoRun(t)
  BY <1>2, <1>4, <1>8, StartRunType DEF AutoRun, NoFault, TypeOK
<1>9. CASE TaskRaises(t)
  <2>1. faults' \in Nat
    BY <1>9 DEF TaskRaises, Raises, Fault, TypeOK
  <2>2. incidents' \in Seq(Incident)
    BY <1>3, <1>9, StartRunType DEF TaskRaises, TypeOK
  <2> QED BY <1>2, <1>4, <1>9, <2>1, <2>2 DEF TaskRaises
<1> QED BY <1>5, <1>6, <1>7, <1>8, <1>9 DEF TaskStep

\* A detection that reads the samples starts one task for each signal, in a free slot.
LEMMA DetectReadMoves ==
  ASSUME TypeOK, NEW m \in Managers, DetectRead(m)
  PROVE  \E signals \in SUBSET Rules :
           LET new == {FreeSlot(m, r) : r \in signals} IN
           /\ \A r \in signals : HasFreeSlot(m, r)
           /\ new \in SUBSET Tasks
           /\ \A t \in new : task[t] = "none" /\ ManagerOf(t) = m
           /\ current' = [current EXCEPT ![m] = new]
           /\ task' = [t \in Tasks |-> IF t \in new THEN "find" ELSE task[t]]
           /\ signals = {} => round' = [round EXCEPT ![m] = "idle"]
           /\ signals # {} => round' = [round EXCEPT ![m] = "tasks"]
           /\ round[m] = "read"
           /\ age' \in {age, "read"} /\ UNCHANGED <<target, incidents, faults>>
<1> DEFINE signals == IF samples = <<>> THEN {} ELSE Signals(samples)
           new     == {FreeSlot(m, r) : r \in signals}
<1>1. signals \in SUBSET Rules
  BY DEF Signals
<1>2. /\ \A r \in signals : HasFreeSlot(m, r)
      /\ current' = [current EXCEPT ![m] = new]
      /\ task' = [t \in Tasks |-> IF t \in new THEN "find" ELSE task[t]]
      /\ IF signals = {} THEN GotoRound(m, "read", "idle") ELSE GotoRound(m, "read", "tasks")
      /\ age' \in {age, "read"} /\ UNCHANGED <<target, incidents, faults>>
  BY DEF DetectRead, NoFault
<1> HIDE DEF signals
<1>3. new \in SUBSET Tasks /\ \A t \in new : task[t] = "none" /\ ManagerOf(t) = m
  BY <1>1, <1>2, FreeSlotIsFree
<1>4. /\ signals = {} => round' = [round EXCEPT ![m] = "idle"]
      /\ signals # {} => round' = [round EXCEPT ![m] = "tasks"]
      /\ round[m] = "read"
  BY <1>2 DEF GotoRound
<1> QED BY <1>1, <1>2, <1>3, <1>4

\* A step of a detection keeps the types of what detections touch.
LEMMA DetectStepType ==
  ASSUME TypeOK, NEW m \in Managers, DetectStep(m)
  PROVE  /\ round' \in [Managers -> {"idle", "list", "read", "tasks"}]
         /\ current' \in [Managers -> SUBSET Tasks]
         /\ task' \in [Tasks -> {"none", "find", "update", "create", "run"}]
         /\ target' \in [Tasks -> Nat]
         /\ incidents' \in Seq(Incident)
         /\ age' \in {"new", "read", "old"} /\ faults' \in Nat
<1>1. CASE DetectRead(m)
  <2>1. PICK signals \in SUBSET Rules :
           LET new == {FreeSlot(m, r) : r \in signals} IN
           /\ new \in SUBSET Tasks
           /\ current' = [current EXCEPT ![m] = new]
           /\ task' = [t \in Tasks |-> IF t \in new THEN "find" ELSE task[t]]
           /\ \E to \in {"idle", "tasks"} : round' = [round EXCEPT ![m] = to]
           /\ age' \in {age, "read"} /\ UNCHANGED <<target, incidents, faults>>
    <3>1. \A signals \in SUBSET Rules : signals = {} \/ signals # {}
      OBVIOUS
    <3> QED BY <1>1, <3>1, DetectReadMoves
  <2> DEFINE new == {FreeSlot(m, r) : r \in signals}
  <2>2. new \in SUBSET Tasks
    BY <2>1
  <2> HIDE DEF new
  <2>3. current' \in [Managers -> SUBSET Tasks]
    BY <2>1, <2>2 DEF TypeOK, new
  <2>4. task' \in [Tasks -> {"none", "find", "update", "create", "run"}]
    BY <2>1 DEF TypeOK
  <2> QED BY <2>1, <2>3, <2>4 DEF TypeOK
<1>2. CASE DetectBegin(m)
  BY <1>2 DEF DetectBegin, GotoRound, NoFault, TypeOK
<1>3. CASE DetectList(m)
  BY <1>3 DEF DetectList, GotoRound, NoFault, TypeOK
<1>4. CASE DetectRaises(m)
  <2>1. round' = [round EXCEPT ![m] = "idle"] /\ faults' = faults + 1
    BY <1>4 DEF DetectRaises, GotoRound, Fault
  <2>2. UNCHANGED <<age, current, task, target, incidents>>
    BY <1>4 DEF DetectRaises
  <2> QED BY <2>1, <2>2 DEF TypeOK
<1> QED BY <1>1, <1>2, <1>3, <1>4 DEF DetectStep

\* A task of which a call raises leaves at most its own incident without a run.
LEMMA TaskOrphans ==
  ASSUME TypeOK, NEW t \in Tasks, TaskStep(t)
  PROVE  orphans \subseteq orphans' /\ orphans' \in SUBSET Nat
<1>1. Len(incidents) + 1 \in Nat /\ target[t] \in Nat /\ orphans \in SUBSET Nat
  BY DEF TypeOK
<1>2. orphans' \in {orphans, orphans \cup {Len(incidents) + 1}, orphans \cup {target[t]}}
  BY DEF TaskStep, TaskRaises
<1> QED BY <1>1, <1>2

\* Next, one named disjunct for each kind of actor.
LEMMA NextSplit ==
  ASSUME [Next]_vars
  PROVE  \/ Change \/ GrowOld
         \/ \E m \in Managers : CollectStep(m)
         \/ \E m \in Managers : ManagerStops(m) \/ ManagerStarts(m)
         \/ DetectFrame /\ \E m \in Managers : DetectStep(m)
         \/ DetectFrame /\ \E t \in Tasks : TaskStep(t)
         \/ \E i \in DOMAIN incidents : Resolve(i)
         \/ CreateManualIncident
         \/ UNCHANGED vars
BY DEF Next, Detect

\* A stop keeps the types, and takes nothing but what the manager had under way.
LEMMA ManagerStopsType ==
  ASSUME TypeOK, NEW m \in Managers, ManagerStops(m)
  PROVE  /\ TypeOK'
         /\ task' = [t \in Tasks |-> IF ManagerOf(t) = m THEN "none" ELSE task[t]]
         /\ current' = [current EXCEPT ![m] = {}]
         /\ UNCHANGED <<incidents, faults>> /\ crashes' = crashes + 1
         /\ orphans' = orphans \cup {target[t] : t \in {u \in Tasks : ManagerOf(u) = m /\ task[u] = "run"}}
         /\ target' = [t \in Tasks |-> IF ManagerOf(t) = m THEN 0 ELSE target[t]]
<1>1. /\ collect' = [collect EXCEPT ![m] = [pc |-> "idle"]] /\ [pc |-> "idle"] \in Collect
      /\ round' = [round EXCEPT ![m] = "idle"]
      /\ current' = [current EXCEPT ![m] = {}]
      /\ task' = [t \in Tasks |-> IF ManagerOf(t) = m THEN "none" ELSE task[t]]
      /\ target' = [t \in Tasks |-> IF ManagerOf(t) = m THEN 0 ELSE target[t]]
      /\ crashes' = crashes + 1
      /\ orphans' = orphans \cup {target[t] : t \in {u \in Tasks : ManagerOf(u) = m /\ task[u] = "run"}}
      /\ UNCHANGED <<stored, live, samples, age, incidents, faults, resolves>>
  BY CollectType DEF ManagerStops, envVars
<1>2. up' \in [Managers -> BOOLEAN]
  <2> DEFINE down == FALSE
  <2>1. up' = [up EXCEPT ![m] = down] /\ down \in BOOLEAN
    BY DEF ManagerStops
  <2> HIDE DEF down
  <2> QED BY <2>1 DEF TypeOK
<1>3. task' \in [Tasks -> {"none", "find", "update", "create", "run"}] /\ target' \in [Tasks -> Nat]
  BY <1>1 DEF TypeOK
<1>4. /\ stored' \in Stored /\ live' \in Clusters
      /\ samples' \in Seq(Sample) /\ Len(samples') <= 2 /\ age' \in {"new", "read", "old"}
      /\ incidents' \in Seq(Incident) /\ faults' \in Nat /\ crashes' \in Nat /\ resolves' \in Nat
  BY <1>1 DEF TypeOK
<1>5. collect' \in [Managers -> Collect]
  BY <1>1 DEF TypeOK
<1>6. /\ round' \in [Managers -> {"idle", "list", "read", "tasks"}]
      /\ current' \in [Managers -> SUBSET Tasks]
  BY <1>1 DEF TypeOK
<1>7. orphans' \in SUBSET Nat
  <2>1. \A t \in Tasks : target[t] \in Nat
    BY DEF TypeOK
  <2> QED BY <1>1, <2>1 DEF TypeOK
<1>8. TypeOK'
  BY <1>2, <1>3, <1>4, <1>5, <1>6, <1>7 DEF TypeOK
<1> QED BY <1>1, <1>8

\* Every step keeps the types.
LEMMA NextType == TypeOK /\ [Next]_vars => TypeOK'
<1> SUFFICES ASSUME TypeOK, [Next]_vars PROVE TypeOK'
  OBVIOUS
<1>1. CASE Change
  BY <1>1 DEF Change, sampleVars, detectVars, countVars, TypeOK
<1>2. CASE GrowOld
  BY <1>2 DEF GrowOld, envVars, detectVars, countVars, TypeOK
<1>3. ASSUME NEW m \in Managers, DetectStep(m), DetectFrame PROVE TypeOK'
  BY <1>3, DetectStepType DEF DetectStep, DetectFrame, envVars, TypeOK
<1>4. ASSUME NEW t \in Tasks, TaskStep(t), DetectFrame PROVE TypeOK'
  BY <1>4, TaskStepType, TaskOrphans DEF DetectFrame, envVars, TypeOK
<1>5. ASSUME NEW i \in DOMAIN incidents, Resolve(i) PROVE TypeOK'
  <2>1. incidents' \in Seq(Incident)
    BY <1>5, ResolveType
  <2> QED BY <1>5, <2>1 DEF Resolve, envVars, sampleVars, detectVars, TypeOK
<1>6. CASE CreateManualIncident
  <2>1. incidents' \in Seq(Incident)
    BY <1>6, OpenIncidentType DEF CreateManualIncident
  <2> QED BY <1>6, <2>1 DEF CreateManualIncident, envVars, sampleVars, detectVars, countVars, TypeOK
<1>7. ASSUME NEW m \in Managers, ManagerStarts(m) PROVE TypeOK'
  <2> DEFINE on == TRUE
  <2>1. up' = [up EXCEPT ![m] = on] /\ on \in BOOLEAN
    BY <1>7 DEF ManagerStarts
  <2> HIDE DEF on
  <2>2. up' \in [Managers -> BOOLEAN]
    BY <2>1 DEF TypeOK
  <2> QED BY <1>7, <2>2 DEF ManagerStarts, envVars, sampleVars, detectVars, TypeOK
<1>8. CASE UNCHANGED vars
  BY <1>8 DEF vars, envVars, sampleVars, detectVars, countVars, TypeOK
<1> QED BY <1>1, <1>2, <1>3, <1>4, <1>5, <1>6, <1>7, <1>8, CollectStepType, ManagerStopsType, NextSplit

\* Samples, rounds, tasks and incidents keep their types, whatever the timers interleave and
\* whatever raises or stops (ObservabilityService, IncidentsService).
THEOREM TypeCorrect == Spec => []TypeOK
BY InitType, NextType, PTL DEF Spec

-----------------------------------------------------------------------------
(* What a step does to the incidents and to the tasks of another manager *)

\* A step that is neither of a task nor of a user leaves the incidents as they are.
LEMMA IncidentsKept ==
  ASSUME TypeOK, [Next]_vars
  PROVE  \/ incidents' = incidents
         \/ DetectFrame /\ \E t \in Tasks : TaskStep(t)
         \/ \E i \in DOMAIN incidents : Resolve(i)
         \/ CreateManualIncident
<1>1. ASSUME NEW m \in Managers, DetectStep(m) PROVE incidents' = incidents
  BY <1>1 DEF DetectStep, DetectBegin, DetectList, DetectRead, DetectRaises
<1>2. ASSUME NEW m \in Managers, CollectStep(m) \/ ManagerStops(m) \/ ManagerStarts(m)
      PROVE  incidents' = incidents
  BY <1>2 DEF CollectStep, ManagerStops, ManagerStarts
<1> QED BY <1>1, <1>2, NextSplit DEF Change, GrowOld, vars

\* What a task makes of the incidents.
LEMMA TaskIncidents ==
  ASSUME TypeOK, NEW t \in Tasks, TaskStep(t)
  PROVE  \/ incidents' = incidents
         \/ task[t] = "create" /\ OpenIncident(t)
         \/ task[t] = "run" /\ StartRun(target[t])
BY DEF TaskStep, Find, Update, Create, AutoRun, TaskRaises, GotoTask

\* A resolved incident stays resolved: the update of a detection writes no status
\* (IncidentsService.openAutomaticIncident), a run changes none, and nothing else reopens one.
THEOREM ResolvedAlwaysStays == Spec => ResolvedStays
<1>1. TypeOK /\ [Next]_vars =>
        [\A i \in DOMAIN incidents : ~incidents[i].open => ~incidents'[i].open]_vars
  <2> SUFFICES ASSUME TypeOK, [Next]_vars, NEW i \in DOMAIN incidents, ~incidents[i].open
               PROVE  ~incidents'[i].open
    OBVIOUS
  <2>1. ASSUME NEW t \in Tasks, TaskStep(t) PROVE ~incidents'[i].open
    BY <2>1, TaskIncidents, StartRunType, OpenIncidentType, TaskType DEF OpenIncident
  <2>2. ASSUME NEW j \in DOMAIN incidents, Resolve(j) PROVE ~incidents'[i].open
    BY <2>2, ResolveType
  <2>3. CASE CreateManualIncident
    BY <2>3, OpenIncidentType DEF CreateManualIncident
  <2> QED BY <2>1, <2>2, <2>3, IncidentsKept
<1> QED BY <1>1, TypeCorrect, PTL DEF Spec, ResolvedStays

-----------------------------------------------------------------------------
(* At most one open incident of a rule for each manager, and one for each fault *)

OfRule(r)  == {t \in Tasks : RuleOf(t) = r}
Waited(r)  == {t \in OfRule(r) : task[t] # "none" /\ t \in current[ManagerOf(t)]}
Left(r)    == {t \in OfRule(r) : task[t] # "none" /\ t \notin current[ManagerOf(t)]}
Opening(r) == {t \in OfRule(r) : task[t] = "create"}

\* A round waits for tasks of its own manager, one of a rule, and for none but in its last part.
RoundInv ==
  \A m \in Managers :
    /\ current[m] # {} => round[m] = "tasks"
    /\ \A t \in current[m] : ManagerOf(t) = m /\ task[t] # "none"
    /\ \A t, u \in current[m] : RuleOf(t) = RuleOf(u) => t = u

\* Each fault leaves at most one task of a rule behind.
LeftInv == \A r \in Rules : Cardinality(Left(r)) <= faults

\* The open incidents of a rule together with those that will be opened, although their task
\* has already looked for one, are no more than the tasks there can have been.
OpeningInv ==
  \A r \in Rules :
    Cardinality(OpenOf(r)) + Cardinality(Opening(r)) <= Cardinality(Managers) + faults

\* The tasks of a rule are finitely many.
LEMMA TasksFinite ==
  ASSUME NEW r \in Rules
  PROVE  IsFiniteSet(OfRule(r)) /\ \A S \in SUBSET OfRule(r) : IsFiniteSet(S)
<1> DEFINE f == [t \in OfRule(r) |-> <<t[1], t[3]>>]
<1>1. f \in Injection(OfRule(r), Managers \X Slots)
  <2>1. ASSUME NEW t \in OfRule(r) PROVE t[1] \in Managers /\ t[3] \in Slots /\ t = <<t[1], r, t[3]>>
    BY DEF OfRule, Tasks, RuleOf
  <2>2. f \in [OfRule(r) -> Managers \X Slots]
    BY <2>1
  <2>3. \A t, u \in OfRule(r) : f[t] = f[u] => t = u
    BY <2>1
  <2> QED BY <2>2, <2>3 DEF Injection, IsInjective
<1>2. IsFiniteSet(Managers \X Slots)
  BY FS_Product, IncidentsAssumption
<1>3. IsFiniteSet(OfRule(r))
  BY <1>1, <1>2, FS_Injection
<1> QED BY <1>3, FS_Subset

\* The open incidents of a rule are finitely many.
LEMMA OpenFinite ==
  ASSUME TypeOK, NEW r \in Rules
  PROVE  IsFiniteSet(OpenOf(r)) /\ Cardinality(OpenOf(r)) \in Nat
<1>1. DOMAIN incidents = 1 .. Len(incidents) /\ Len(incidents) \in Nat
  BY DEF TypeOK
<1>2. IsFiniteSet(1 .. Len(incidents))
  BY <1>1, FS_Interval
<1>3. OpenOf(r) \subseteq 1 .. Len(incidents)
  BY <1>1 DEF OpenOf
<1> QED BY <1>2, <1>3, FS_Subset, FS_CardinalityType

\* A manager waits for at most one task of a rule.
LEMMA WaitedBound ==
  ASSUME TypeOK, RoundInv, NEW r \in Rules
  PROVE  IsFiniteSet(Waited(r)) /\ Cardinality(Waited(r)) <= Cardinality(Managers)
<1> DEFINE f == [t \in Waited(r) |-> ManagerOf(t)]
<1>1. f \in Injection(Waited(r), Managers)
  <2>1. f \in [Waited(r) -> Managers]
    BY TaskType DEF Waited, OfRule
  <2>2. ASSUME NEW t \in Waited(r), NEW u \in Waited(r), f[t] = f[u] PROVE t = u
    BY <2>2, TaskType DEF Waited, OfRule, RoundInv
  <2> QED BY <2>1, <2>2 DEF Injection, IsInjective
<1> QED BY <1>1, FS_Injection, IncidentsAssumption

\* How many tasks of a rule there can be at once.
LEMMA AliveBound ==
  ASSUME TypeOK, RoundInv, LeftInv, NEW r \in Rules,
         NEW S \in SUBSET {t \in OfRule(r) : task[t] # "none"}
  PROVE  IsFiniteSet(S) /\ Cardinality(S) <= Cardinality(Managers) + faults
<1>1. /\ IsFiniteSet(Waited(r)) /\ Cardinality(Waited(r)) \in Nat
      /\ Cardinality(Waited(r)) <= Cardinality(Managers)
  BY WaitedBound, FS_CardinalityType
<1>2. IsFiniteSet(Left(r)) /\ Cardinality(Left(r)) \in Nat /\ Cardinality(Left(r)) <= faults
  BY TasksFinite, FS_CardinalityType DEF Left, LeftInv
<1>3. Waited(r) \cap Left(r) = {}
  BY DEF Waited, Left
<1>4. /\ IsFiniteSet(Waited(r) \cup Left(r))
      /\ Cardinality(Waited(r) \cup Left(r)) = Cardinality(Waited(r)) + Cardinality(Left(r))
                                                - Cardinality(Waited(r) \cap Left(r))
  BY <1>1, <1>2, FS_Union
<1>5. Cardinality(Waited(r) \cap Left(r)) = 0
  BY <1>3, FS_EmptySet
<1>6. S \subseteq Waited(r) \cup Left(r)
  BY DEF Waited, Left
<1>7. /\ IsFiniteSet(S) /\ Cardinality(S) \in Nat
      /\ Cardinality(S) <= Cardinality(Waited(r) \cup Left(r))
  BY <1>4, <1>6, FS_Subset, FS_CardinalityType
<1>8. Cardinality(Managers) \in Nat /\ faults \in Nat
  BY IncidentsAssumption, FS_CardinalityType DEF TypeOK
<1> QED BY <1>1, <1>2, <1>4, <1>5, <1>7, <1>8

-----------------------------------------------------------------------------
(* Rounds and the tasks left behind *)

\* A task's step goes on to its next call, ends the task, or raises.
LEMMA TaskMoves ==
  ASSUME TypeOK, NEW t \in Tasks, TaskStep(t)
  PROVE  /\ task[t] # "none"
         /\ \/ /\ \E to \in {"create", "update", "run"} : task' = [task EXCEPT ![t] = to]
               /\ UNCHANGED <<round, current, faults>>
            \/ Done(t) /\ faults' = faults
            \/ Raises(t) /\ faults' = faults + 1
BY DEF TaskStep, Find, Update, Create, AutoRun, TaskRaises, GotoTask, NoFault, Raises, Fault

\* Only tasks, detections and stops of managers touch rounds and tasks.
LEMMA DetectionKept ==
  ASSUME TypeOK, [Next]_vars
  PROVE  \/ UNCHANGED detectVars /\ faults' >= faults
         \/ \E m \in Managers : ManagerStops(m)
         \/ \E m \in Managers : DetectStep(m)
         \/ \E t \in Tasks : TaskStep(t)
<1>1. faults \in Nat
  BY DEF TypeOK
<1>2. ASSUME NEW m \in Managers, CollectStep(m) PROVE UNCHANGED detectVars /\ faults' >= faults
  <2>1. faults' = faults \/ faults' = faults + 1
    BY <1>2 DEF CollectStep, CollectBegin, ReadRow, Observe, ObserveRaises, Store, Retain, CollectRaises, NoFault, Fault
  <2> QED BY <1>1, <1>2, <2>1 DEF CollectStep
<1>3. ASSUME NEW m \in Managers, ManagerStarts(m) PROVE UNCHANGED detectVars /\ faults' = faults
  BY <1>3 DEF ManagerStarts
<1>4. Change \/ GrowOld \/ CreateManualIncident \/ UNCHANGED vars => UNCHANGED detectVars /\ faults' = faults
  BY DEF Change, GrowOld, CreateManualIncident, vars, countVars
<1>5. ASSUME NEW i \in DOMAIN incidents, Resolve(i) PROVE UNCHANGED detectVars /\ faults' = faults
  BY <1>5 DEF Resolve
<1> QED BY <1>1, <1>2, <1>3, <1>4, <1>5, NextSplit

\* A detection before its tasks, or one that starts them.
LEMMA DetectMoves ==
  ASSUME TypeOK, RoundInv, NEW m \in Managers, DetectStep(m)
  PROVE  /\ current[m] = {} /\ faults' \in {faults, faults + 1}
         /\ \/ /\ UNCHANGED <<current, task>>
               /\ \E to \in {"idle", "list", "read"} : round' = [round EXCEPT ![m] = to]
            \/ DetectRead(m)
<1>1. CASE DetectBegin(m)
  BY <1>1 DEF DetectBegin, GotoRound, NoFault, RoundInv
<1>2. CASE DetectList(m)
  BY <1>2 DEF DetectList, GotoRound, NoFault, RoundInv
<1>3. CASE DetectRaises(m)
  BY <1>3 DEF DetectRaises, GotoRound, Fault, RoundInv
<1>4. CASE DetectRead(m)
  <2>1. round[m] = "read"
    BY <1>4 DEF DetectRead, GotoRound
  <2> QED BY <1>4, <2>1 DEF DetectRead, NoFault, RoundInv
<1> QED BY <1>1, <1>2, <1>3, <1>4 DEF DetectStep

\* A detection that reads samples starts tasks of different rules, and waits for them.
LEMMA DetectReadRounds ==
  ASSUME TypeOK, RoundInv, NEW m \in Managers, DetectRead(m)
  PROVE  /\ \A n \in Managers : n # m => current'[n] = current[n] /\ round'[n] = round[n]
         /\ current'[m] # {} => round'[m] = "tasks"
         /\ \A t \in current'[m] : ManagerOf(t) = m /\ task[t] = "none" /\ task'[t] = "find"
         /\ \A t \in Tasks : t \notin current'[m] => task'[t] = task[t]
         /\ \A t, u \in current'[m] : RuleOf(t) = RuleOf(u) => t = u
<1>1. PICK signals \in SUBSET Rules :
         LET new == {FreeSlot(m, r) : r \in signals} IN
         /\ \A r \in signals : HasFreeSlot(m, r)
         /\ new \in SUBSET Tasks
         /\ \A t \in new : task[t] = "none" /\ ManagerOf(t) = m
         /\ current' = [current EXCEPT ![m] = new]
         /\ task' = [t \in Tasks |-> IF t \in new THEN "find" ELSE task[t]]
         /\ signals = {} => round' = [round EXCEPT ![m] = "idle"]
         /\ signals # {} => round' = [round EXCEPT ![m] = "tasks"]
  BY DetectReadMoves
<1> DEFINE new == {FreeSlot(m, r) : r \in signals}
<1>2. /\ new \in SUBSET Tasks
      /\ \A t \in new : task[t] = "none" /\ ManagerOf(t) = m
      /\ current' = [current EXCEPT ![m] = new]
      /\ task' = [t \in Tasks |-> IF t \in new THEN "find" ELSE task[t]]
  BY <1>1
<1>3. \A t, u \in new : RuleOf(t) = RuleOf(u) => t = u
  <2>1. \A r \in signals : RuleOf(FreeSlot(m, r)) = r
    BY <1>1, FreeSlotIsFree
  <2> QED BY <2>1
<1>4. new # {} => round' = [round EXCEPT ![m] = "tasks"]
  BY <1>1
<1>5. \A n \in Managers : n # m => round'[n] = round[n]
  <2>1. signals = {} \/ signals # {}
    OBVIOUS
  <2> QED BY <1>1, <2>1 DEF TypeOK
<1> HIDE DEF new
<1>6. current'[m] = new /\ \A n \in Managers : n # m => current'[n] = current[n]
  BY <1>2 DEF TypeOK
<1>7. new # {} => round'[m] = "tasks"
  BY <1>4 DEF TypeOK
<1> QED BY <1>2, <1>3, <1>5, <1>6, <1>7

\* Every step keeps RoundInv; a round reads samples only after it stopped waiting.
LEMMA RoundInvKept ==
  ASSUME TypeOK, RoundInv, [Next]_vars
  PROVE  RoundInv'
<1>1. ASSUME UNCHANGED detectVars PROVE RoundInv'
  BY <1>1 DEF detectVars, RoundInv
<1>2. ASSUME NEW m \in Managers, ManagerStops(m) PROVE RoundInv'
  <2>1. /\ task' = [t \in Tasks |-> IF ManagerOf(t) = m THEN "none" ELSE task[t]]
        /\ current' = [current EXCEPT ![m] = {}] /\ round' = [round EXCEPT ![m] = "idle"]
    BY <1>2 DEF ManagerStops
  <2>2. current'[m] = {}
    BY <2>1 DEF TypeOK
  <2>3. \A n \in Managers : n # m => current'[n] = current[n] /\ round'[n] = round[n]
    BY <2>1 DEF TypeOK
  <2>4. \A n \in Managers : \A t \in current[n] : t \in Tasks /\ ManagerOf(t) = n
    BY DEF TypeOK, RoundInv
  <2>5. \A t \in Tasks : ManagerOf(t) # m => task'[t] = task[t]
    BY <2>1
  <2> QED BY <2>2, <2>3, <2>4, <2>5 DEF RoundInv
<1>3. ASSUME NEW m \in Managers, DetectStep(m) PROVE RoundInv'
  <2>1. CASE DetectRead(m)
    <3>1. /\ \A n \in Managers : n # m => current'[n] = current[n] /\ round'[n] = round[n]
          /\ current'[m] # {} => round'[m] = "tasks"
          /\ \A t \in current'[m] : ManagerOf(t) = m /\ task[t] = "none" /\ task'[t] = "find"
          /\ \A t \in Tasks : t \notin current'[m] => task'[t] = task[t]
          /\ \A t, u \in current'[m] : RuleOf(t) = RuleOf(u) => t = u
      BY <2>1, DetectReadRounds
    <3>2. \A n \in Managers : \A t \in current[n] : t \in Tasks
      BY DEF TypeOK
    <3>3. ASSUME NEW n \in Managers, n # m
          PROVE  \A t \in current'[n] : ManagerOf(t) = n /\ task'[t] # "none"
      BY <3>1, <3>2, <3>3 DEF RoundInv
    <3> QED BY <3>1, <3>3 DEF RoundInv
  <2>2. ASSUME UNCHANGED <<current, task>>, NEW to, round' = [round EXCEPT ![m] = to] PROVE RoundInv'
    <3>1. current[m] = {} /\ \A n \in Managers : n # m => round'[n] = round[n]
      BY <1>3, <2>2, DetectMoves DEF TypeOK
    <3> QED BY <2>2, <3>1 DEF RoundInv
  <2> QED BY <1>3, <2>1, <2>2, DetectMoves
<1>4. ASSUME NEW t \in Tasks, TaskStep(t) PROVE RoundInv'
  <2> DEFINE m == ManagerOf(t)
  <2>0. m \in Managers
    BY TaskType
  <2>1. \A n \in Managers : \A u \in current[n] : u \in Tasks /\ ManagerOf(u) = n
    BY DEF TypeOK, RoundInv
  <2>2. CASE /\ \E to \in {"create", "update", "run"} : task' = [task EXCEPT ![t] = to]
             /\ UNCHANGED <<round, current>>
    <3>1. task'[t] # "none" /\ \A u \in Tasks : u # t => task'[u] = task[u]
      BY <2>2 DEF TypeOK
    <3> QED BY <2>1, <2>2, <3>1 DEF RoundInv
  <2>3. CASE Done(t) \/ Raises(t)
    <3>1. task' = [task EXCEPT ![t] = "none"]
      BY <2>3, DoneTypes
    <3>2. \A u \in Tasks : u # t => task'[u] = task[u]
      BY <3>1 DEF TypeOK
    <3>3. current'[m] \subseteq current[m] \ {t}
      BY <2>0, <2>3 DEF Done, Raises, TypeOK
    <3>4. \A n \in Managers : n # m => current'[n] = current[n] /\ round'[n] = round[n]
      BY <2>0, <2>3 DEF Done, Raises, TypeOK
    <3>5. current'[m] # {} => round'[m] = round[m]
      BY <2>0, <2>3 DEF Done, Raises, TypeOK
    <3>6. \A n \in Managers : \A u \in current'[n] : u \in current[n] /\ u # t
      BY <2>1, <3>3, <3>4
    <3> HIDE DEF m
    <3> QED BY <2>1, <3>2, <3>3, <3>4, <3>5, <3>6 DEF RoundInv
  <2> QED BY <1>4, <2>2, <2>3, TaskMoves
<1> QED BY <1>1, <1>2, <1>3, <1>4, DetectionKept

\* Of a rule, a step leaves no task behind, or it raises and leaves one.
LEMMA LeftGrows ==
  ASSUME TypeOK, RoundInv, [Next]_vars, NEW r \in Rules
  PROVE  /\ faults' \in Nat
         /\ \/ Left(r)' \subseteq Left(r) /\ faults' >= faults
            \/ faults' = faults + 1 /\ \E u : Left(r)' \subseteq Left(r) \cup {u}
<1>0. faults' \in Nat
  BY NextType DEF TypeOK
<1>1. ASSUME UNCHANGED detectVars PROVE Left(r)' \subseteq Left(r)
  BY <1>1 DEF detectVars, Left, OfRule
<1>2. ASSUME NEW m \in Managers, ManagerStops(m) PROVE Left(r)' \subseteq Left(r) /\ faults' = faults
  <2>1. /\ task' = [t \in Tasks |-> IF ManagerOf(t) = m THEN "none" ELSE task[t]]
        /\ current' = [current EXCEPT ![m] = {}] /\ faults' = faults
    BY <1>2 DEF ManagerStops
  <2>2. \A n \in Managers : n # m => current'[n] = current[n]
    BY <2>1 DEF TypeOK
  <2> QED BY <2>1, <2>2, TaskType DEF Left, OfRule
<1>3. ASSUME NEW m \in Managers, DetectStep(m)
      PROVE  Left(r)' \subseteq Left(r) /\ faults' \in {faults, faults + 1}
  <2>1. faults' \in {faults, faults + 1}
    BY <1>3, DetectMoves
  <2>2. CASE DetectRead(m)
    <3>1. /\ \A n \in Managers : n # m => current'[n] = current[n]
          /\ \A t \in current'[m] : ManagerOf(t) = m
          /\ \A t \in Tasks : t \notin current'[m] => task'[t] = task[t]
      BY <2>2, DetectReadRounds
    <3>2. current[m] = {}
      BY <1>3, DetectMoves
    <3>3. ASSUME NEW t \in OfRule(r), task'[t] # "none", t \notin current'[ManagerOf(t)]
          PROVE  task[t] # "none" /\ t \notin current[ManagerOf(t)]
      <4>1. ManagerOf(t) \in Managers /\ t \in Tasks
        BY TaskType DEF OfRule
      <4>2. t \notin current'[m]
        BY <3>1, <3>3
      <4>3. task'[t] = task[t]
        BY <3>1, <4>1, <4>2
      <4>4. t \notin current[ManagerOf(t)]
        BY <3>1, <3>2, <3>3, <4>1
      <4> QED BY <3>3, <4>3, <4>4
    <3> QED BY <2>1, <3>3 DEF Left, OfRule
  <2>3. CASE UNCHANGED <<current, task>>
    BY <2>1, <2>3 DEF Left, OfRule
  <2> QED BY <1>3, <2>2, <2>3, DetectMoves
<1>4. ASSUME NEW t \in Tasks, TaskStep(t)
      PROVE  \/ Left(r)' \subseteq Left(r) /\ faults' = faults
             \/ faults' = faults + 1 /\ \E u : Left(r)' \subseteq Left(r) \cup {u}
  <2> DEFINE m == ManagerOf(t)
  <2>0. m \in Managers /\ task[t] # "none"
    BY <1>4, TaskType, TaskMoves
  <2>1. CASE /\ \E to \in {"create", "update", "run"} : task' = [task EXCEPT ![t] = to]
             /\ UNCHANGED <<round, current, faults>>
    <3>1. \A u \in Tasks : u # t => task'[u] = task[u]
      BY <2>1 DEF TypeOK
    <3> QED BY <2>0, <2>1, <3>1 DEF Left, OfRule
  <2>2. ASSUME Done(t) \/ Raises(t)
        PROVE  /\ t \notin Left(r)' /\ \A u \in Tasks : u # t => task'[u] = task[u]
               /\ \A n \in Managers : n # m => current'[n] = current[n]
    <3>1. task' = [task EXCEPT ![t] = "none"]
      BY <2>2, DoneTypes
    <3>2. \A n \in Managers : n # m => current'[n] = current[n]
      BY <2>0, <2>2 DEF Done, Raises, TypeOK
    <3> QED BY <3>1, <3>2 DEF Left, OfRule, TypeOK
  <2>3. CASE Done(t) /\ faults' = faults
    <3>1. \A n \in Managers : \A u \in current[n] : u # t => u \in current'[n]
      <4>1. current'[m] = current[m] \ {t}
        BY <2>0, <2>3 DEF Done, TypeOK
      <4> QED BY <2>2, <2>3, <4>1
    <3>2. ASSUME NEW u \in Left(r)' PROVE u \in Left(r)
      <4>1. u # t /\ u \in Tasks /\ RuleOf(u) = r /\ ManagerOf(u) \in Managers /\ task'[u] # "none"
            /\ u \notin current'[ManagerOf(u)]
        BY <2>2, <2>3, <3>2, TaskType DEF Left, OfRule
      <4> QED BY <2>2, <2>3, <3>1, <4>1 DEF Left, OfRule
    <3> QED BY <2>3, <3>2
  <2>4. CASE Raises(t) /\ faults' = faults + 1
    <3> DEFINE w == CHOOSE w \in current[m] : RuleOf(w) = r
    <3>1. ASSUME NEW u \in Left(r)' PROVE u \in Left(r) \cup {w}
      <4>1. u # t /\ u \in Tasks /\ RuleOf(u) = r /\ ManagerOf(u) \in Managers /\ task'[u] # "none"
            /\ u \notin current'[ManagerOf(u)]
        BY <2>2, <2>4, <3>1, TaskType DEF Left, OfRule
      <4>2. CASE u \in current[ManagerOf(u)]
        <5>1. ManagerOf(u) = m
          BY <2>2, <2>4, <4>1, <4>2
        <5>2. u \in current[m] /\ RuleOf(u) = r
          BY <4>1, <4>2, <5>1
        <5>3. w \in current[m] /\ RuleOf(w) = r
          BY <5>2
        <5> HIDE DEF w, m
        <5>4. u = w
          BY <2>0, <4>1, <5>2, <5>3 DEF RoundInv
        <5> QED BY <5>4
      <4>3. CASE u \notin current[ManagerOf(u)]
        BY <2>2, <2>4, <4>1, <4>3 DEF Left, OfRule
      <4> QED BY <4>2, <4>3
    <3> HIDE DEF w
    <3> QED BY <2>4, <3>1
  <2> QED BY <1>4, <2>1, <2>3, <2>4, TaskMoves
<1>5. faults \in Nat
  BY DEF TypeOK
<1> QED BY <1>0, <1>1, <1>2, <1>3, <1>4, <1>5, DetectionKept

\* Every step keeps LeftInv.
LEMMA LeftInvKept ==
  ASSUME TypeOK, RoundInv, LeftInv, [Next]_vars
  PROVE  LeftInv'
<1> SUFFICES ASSUME NEW r \in Rules PROVE Cardinality(Left(r)') <= faults'
  BY DEF LeftInv
<1>1. IsFiniteSet(Left(r)) /\ Cardinality(Left(r)) \in Nat /\ Cardinality(Left(r)) <= faults
  BY TasksFinite, FS_CardinalityType DEF Left, LeftInv
<1>2. faults \in Nat /\ faults' \in Nat
  BY LeftGrows DEF TypeOK
<1>3. CASE Left(r)' \subseteq Left(r) /\ faults' >= faults
  <2>1. Cardinality(Left(r)') <= Cardinality(Left(r)) /\ Cardinality(Left(r)') \in Nat
    BY <1>1, <1>3, FS_Subset, FS_CardinalityType
  <2> QED BY <1>1, <1>2, <1>3, <2>1
<1>4. ASSUME faults' = faults + 1, NEW u, Left(r)' \subseteq Left(r) \cup {u}
      PROVE  Cardinality(Left(r)') <= faults'
  <2>1. /\ IsFiniteSet(Left(r) \cup {u}) /\ Cardinality(Left(r) \cup {u}) \in Nat
        /\ Cardinality(Left(r) \cup {u}) <= Cardinality(Left(r)) + 1
    BY <1>1, FS_AddElement, FS_CardinalityType
  <2>2. Cardinality(Left(r)') <= Cardinality(Left(r) \cup {u}) /\ Cardinality(Left(r)') \in Nat
    BY <1>4, <2>1, FS_Subset, FS_CardinalityType
  <2> QED BY <1>1, <1>2, <1>4, <2>1, <2>2
<1> QED BY <1>3, <1>4, LeftGrows

-----------------------------------------------------------------------------
(* Open incidents *)

\* Of a rule, a step opens nothing and sends no task to open; or a task, having found nothing
\* open, goes to open one; or a task opens its incident.
OpeningMove(r) ==
  \/ OpenOf(r)' \subseteq OpenOf(r) /\ Opening(r)' \subseteq Opening(r)
  \/ OpenOf(r)' = {} /\ Opening(r)' \subseteq {t \in OfRule(r) : task[t] # "none"}
  \/ /\ \E i : OpenOf(r)' \subseteq OpenOf(r) \cup {i}
     /\ \E t \in Opening(r) : Opening(r)' \subseteq Opening(r) \ {t}

\* A step of a task is one of the moves OpeningMove lists.
LEMMA TaskOpens ==
  ASSUME TypeOK, NEW r \in Rules, NEW t \in Tasks, TaskStep(t)
  PROVE  OpeningMove(r)
<1>1. task' \in [Tasks -> {"none", "find", "update", "create", "run"}]
  BY TaskStepType
<1>2. CASE Find(t)
  <2>1. incidents' = incidents /\ OpenOf(r)' = OpenOf(r)
    BY <1>2 DEF Find, OpenOf
  <2>2. task[t] = "find" /\ \A u \in Tasks : u # t => task'[u] = task[u]
    BY <1>2 DEF Find, GotoTask, TypeOK
  <2>3. CASE OpenOf(RuleOf(t)) = {}
    <3>1. CASE RuleOf(t) = r
      <4>1. Opening(r)' \subseteq {u \in OfRule(r) : task[u] # "none"}
        BY <2>2 DEF Opening, OfRule
      <4> QED BY <2>1, <2>3, <3>1, <4>1 DEF OpeningMove
    <3>2. CASE RuleOf(t) # r
      <4>1. Opening(r)' \subseteq Opening(r)
        BY <2>2, <3>2 DEF Opening, OfRule
      <4> QED BY <2>1, <4>1 DEF OpeningMove
    <3> QED BY <3>1, <3>2
  <2>4. CASE GotoTask(t, "find", "update")
    <3>1. task'[t] = "update"
      BY <2>4 DEF GotoTask, TypeOK
    <3>2. Opening(r)' \subseteq Opening(r)
      BY <2>2, <3>1 DEF Opening, OfRule
    <3> QED BY <2>1, <3>2 DEF OpeningMove
  <2> QED BY <1>2, <2>3, <2>4 DEF Find
<1>3. CASE ~Find(t)
  <2>1. task'[t] # "create" /\ \A u \in Tasks : u # t => task'[u] = task[u]
    <3>1. CASE Done(t) \/ Raises(t)
      BY <3>1, DoneTypes DEF TypeOK
    <3>2. CASE GotoTask(t, "create", "run")
      BY <3>2 DEF GotoTask, TypeOK
    <3> QED BY <1>3, <3>1, <3>2 DEF TaskStep, Update, Create, AutoRun, TaskRaises
  <2>2. Opening(r)' \subseteq Opening(r) \ {t}
    BY <2>1 DEF Opening, OfRule
  <2>3. CASE incidents' = incidents
    BY <2>2, <2>3 DEF OpeningMove, OpenOf
  <2>4. CASE task[t] = "run" /\ StartRun(target[t])
    <3>1. OpenOf(r)' \subseteq OpenOf(r)
      <4>1. /\ incidents' \in Seq(Incident) /\ Len(incidents') = Len(incidents)
            /\ \A j \in DOMAIN incidents : incidents'[j].rule = incidents[j].rule /\ incidents'[j].open = incidents[j].open
        BY <2>4, StartRunType
      <4>2. DOMAIN incidents' = DOMAIN incidents
        BY <4>1 DEF TypeOK
      <4> QED BY <4>1, <4>2 DEF OpenOf
    <3> QED BY <2>2, <3>1 DEF OpeningMove
  <2>5. CASE task[t] = "create" /\ OpenIncident(t)
    <3>1. /\ incidents' \in Seq(Incident) /\ Len(incidents') = Len(incidents) + 1
          /\ \A j \in DOMAIN incidents : incidents'[j] = incidents[j]
          /\ incidents'[Len(incidents) + 1] = [rule |-> RuleOf(t), open |-> TRUE, run |-> FALSE]
      BY <2>5, OpenIncidentType, TaskType DEF OpenIncident
    <3>2. DOMAIN incidents' = DOMAIN incidents \cup {Len(incidents) + 1}
      BY <3>1 DEF TypeOK
    <3>3. CASE RuleOf(t) = r
      <4>1. OpenOf(r)' \subseteq OpenOf(r) \cup {Len(incidents) + 1}
        BY <3>1, <3>2 DEF OpenOf
      <4>2. t \in Opening(r)
        BY <2>5, <3>3 DEF Opening, OfRule
      <4> QED BY <2>2, <4>1, <4>2 DEF OpeningMove
    <3>4. CASE RuleOf(t) # r
      <4>1. OpenOf(r)' \subseteq OpenOf(r)
        <5>1. incidents'[Len(incidents) + 1].rule # r
          BY <3>1, <3>4
        <5> QED BY <3>1, <3>2, <5>1 DEF OpenOf
      <4> QED BY <2>2, <4>1 DEF OpeningMove
    <3> QED BY <3>3, <3>4
  <2> QED BY <2>3, <2>4, <2>5, TaskIncidents
<1> QED BY <1>2, <1>3

\* Every step is one of the moves OpeningMove lists.
LEMMA NextOpens ==
  ASSUME TypeOK, RoundInv, [Next]_vars, NEW r \in Rules
  PROVE  OpeningMove(r)
<1>1. CASE \E t \in Tasks : TaskStep(t)
  BY <1>1, TaskOpens
<1>2. CASE ~\E t \in Tasks : TaskStep(t)
  <2>1. Opening(r)' \subseteq Opening(r)
    <3>1. ASSUME UNCHANGED detectVars PROVE Opening(r)' \subseteq Opening(r)
      BY <3>1 DEF detectVars, Opening, OfRule
    <3>2. ASSUME NEW m \in Managers, ManagerStops(m) PROVE Opening(r)' \subseteq Opening(r)
      BY <3>2, ManagerStopsType DEF Opening, OfRule
    <3>3. ASSUME NEW m \in Managers, DetectStep(m) PROVE Opening(r)' \subseteq Opening(r)
      <4>1. CASE DetectRead(m)
        <5>1. \A t \in Tasks : task'[t] = task[t] \/ task'[t] = "find"
          BY <4>1, DetectReadRounds
        <5> QED BY <5>1 DEF Opening, OfRule
      <4>2. CASE UNCHANGED <<current, task>>
        BY <4>2 DEF Opening, OfRule
      <4> QED BY <3>3, <4>1, <4>2, DetectMoves
    <3> QED BY <1>2, <3>1, <3>2, <3>3, DetectionKept
  <2>2. OpenOf(r)' \subseteq OpenOf(r)
    <3>1. CASE incidents' = incidents
      BY <3>1 DEF OpenOf
    <3>2. ASSUME NEW i \in DOMAIN incidents, Resolve(i) PROVE OpenOf(r)' \subseteq OpenOf(r)
      <4>1. /\ incidents' \in Seq(Incident) /\ Len(incidents') = Len(incidents)
            /\ ~incidents'[i].open
            /\ \A j \in DOMAIN incidents :
                 /\ incidents'[j].rule = incidents[j].rule
                 /\ j # i => incidents'[j] = incidents[j]
        BY <3>2, ResolveType
      <4>2. DOMAIN incidents' = DOMAIN incidents
        BY <4>1 DEF TypeOK
      <4> QED BY <4>1, <4>2 DEF OpenOf
    <3>3. CASE CreateManualIncident
      <4>1. /\ incidents' \in Seq(Incident) /\ Len(incidents') = Len(incidents) + 1
            /\ \A j \in DOMAIN incidents : incidents'[j] = incidents[j]
            /\ incidents'[Len(incidents) + 1] = [rule |-> "manual", open |-> TRUE, run |-> FALSE]
        BY <3>3, OpenIncidentType DEF CreateManualIncident
      <4>2. DOMAIN incidents' = DOMAIN incidents \cup {Len(incidents) + 1}
        BY <4>1 DEF TypeOK
      <4>3. incidents'[Len(incidents) + 1].rule # r
        BY <4>1 DEF Rules
      <4> QED BY <4>1, <4>2, <4>3 DEF OpenOf
    <3> QED BY <1>2, <3>1, <3>2, <3>3, IncidentsKept
  <2> QED BY <2>1, <2>2 DEF OpeningMove
<1> QED BY <1>1, <1>2

\* Every step keeps OpeningInv: a task that found nothing open counts itself among those
\* that AliveBound bounds, and a task that opens one passes from one count to the other.
LEMMA OpeningInvKept ==
  ASSUME TypeOK, RoundInv, LeftInv, OpeningInv, [Next]_vars
  PROVE  OpeningInv'
<1> SUFFICES ASSUME NEW r \in Rules
             PROVE  Cardinality(OpenOf(r)') + Cardinality(Opening(r)') <= Cardinality(Managers) + faults'
  BY DEF OpeningInv
<1> DEFINE open == OpenOf(r)
           opening == Opening(r)
           limit == Cardinality(Managers) + faults
<1>1. IsFiniteSet(open) /\ Cardinality(open) \in Nat
  BY OpenFinite
<1>2. IsFiniteSet(opening) /\ Cardinality(opening) \in Nat
  BY TasksFinite, FS_CardinalityType DEF Opening
<1>3. Cardinality(open) + Cardinality(opening) <= limit
  BY DEF OpeningInv
<1>4. Cardinality(Managers) \in Nat /\ faults \in Nat /\ faults' \in Nat /\ faults' >= faults
  BY IncidentsAssumption, FS_CardinalityType, LeftGrows DEF TypeOK
<1>5. OpeningMove(r)
  BY NextOpens
<1>6. CASE OpenOf(r)' \subseteq open /\ Opening(r)' \subseteq opening
  <2>1. Cardinality(OpenOf(r)') \in Nat /\ Cardinality(OpenOf(r)') <= Cardinality(open)
    BY <1>1, <1>6, FS_Subset, FS_CardinalityType
  <2>2. Cardinality(Opening(r)') \in Nat /\ Cardinality(Opening(r)') <= Cardinality(opening)
    BY <1>2, <1>6, FS_Subset, FS_CardinalityType
  <2> HIDE DEF open, opening
  <2> QED BY <1>1, <1>2, <1>3, <1>4, <2>1, <2>2
<1>7. CASE OpenOf(r)' = {} /\ Opening(r)' \subseteq {t \in OfRule(r) : task[t] # "none"}
  <2>1. Cardinality(OpenOf(r)') = 0
    BY <1>7, FS_EmptySet
  <2>2. IsFiniteSet(Opening(r)') /\ Cardinality(Opening(r)') <= limit
    BY <1>7, AliveBound
  <2>3. Cardinality(Opening(r)') \in Nat
    BY <2>2, FS_CardinalityType
  <2> QED BY <1>4, <2>1, <2>2, <2>3
<1>8. ASSUME NEW i, OpenOf(r)' \subseteq open \cup {i},
             NEW t \in opening, Opening(r)' \subseteq opening \ {t}
      PROVE  Cardinality(OpenOf(r)') + Cardinality(Opening(r)') <= Cardinality(Managers) + faults'
  <2>1. /\ IsFiniteSet(open \cup {i}) /\ Cardinality(open \cup {i}) \in Nat
        /\ Cardinality(open \cup {i}) <= Cardinality(open) + 1
    <3> HIDE DEF open
    <3>1. IsFiniteSet(open \cup {i})
      BY <1>1, FS_AddElement
    <3>2. Cardinality(open \cup {i}) = IF i \in open THEN Cardinality(open) ELSE Cardinality(open) + 1
      BY <1>1, FS_AddElement
    <3> QED BY <1>1, <3>1, <3>2
  <2>2. /\ IsFiniteSet(opening \ {t}) /\ Cardinality(opening \ {t}) \in Nat
        /\ Cardinality(opening \ {t}) = Cardinality(opening) - 1
    BY <1>2, <1>8, FS_RemoveElement, FS_CardinalityType
  <2>3. Cardinality(OpenOf(r)') \in Nat /\ Cardinality(OpenOf(r)') <= Cardinality(open \cup {i})
    BY <1>8, <2>1, FS_Subset, FS_CardinalityType
  <2>4. Cardinality(Opening(r)') \in Nat /\ Cardinality(Opening(r)') <= Cardinality(opening \ {t})
    BY <1>8, <2>2, FS_Subset, FS_CardinalityType
  <2> HIDE DEF open, opening
  <2> QED BY <1>1, <1>2, <1>3, <1>4, <2>1, <2>2, <2>3, <2>4
<1> QED BY <1>5, <1>6, <1>7, <1>8 DEF OpeningMove

\* A rule has at most one open incident for each manager while no call raises; every call that
\* raises allows for one more.  By OpeningInv a
\* task between looking for an incident and opening its own is counted with the open ones,
\* by RoundInv a manager has one such task that its round waits for, and by LeftInv the
\* others were left behind by rounds that raised (IncidentsService.openAutomaticIncident).
THEOREM OpenAlwaysBounded == Spec => []OpenBounded
<1> DEFINE IInv == TypeOK /\ RoundInv /\ LeftInv /\ OpeningInv
<1>1. Init => IInv
  <2> SUFFICES ASSUME Init PROVE IInv
    OBVIOUS
  <2>1. TypeOK
    BY InitType
  <2>2. RoundInv
    BY DEF Init, RoundInv
  <2>3. \A r \in Rules : Left(r) = {} /\ Opening(r) = {} /\ OpenOf(r) = {}
    BY DEF Init, Left, Opening, OfRule, OpenOf
  <2>4. Cardinality({}) = 0 /\ faults = 0 /\ Cardinality(Managers) \in Nat
    BY FS_EmptySet, FS_CardinalityType, IncidentsAssumption DEF Init
  <2>5. LeftInv
    BY <2>3, <2>4 DEF LeftInv
  <2>6. OpeningInv
    BY <2>3, <2>4 DEF OpeningInv
  <2> QED BY <2>1, <2>2, <2>5, <2>6
<1>2. IInv /\ [Next]_vars => IInv'
  BY NextType, RoundInvKept, LeftInvKept, OpeningInvKept
<1>3. IInv => OpenBounded
  <2> SUFFICES ASSUME IInv, NEW r \in Rules
               PROVE  Cardinality(OpenOf(r)) <= Cardinality(Managers) + faults
    BY DEF OpenBounded
  <2>1. Cardinality(Opening(r)) \in Nat /\ Cardinality(OpenOf(r)) \in Nat
    BY TasksFinite, OpenFinite, FS_CardinalityType DEF Opening
  <2>2. Cardinality(Managers) \in Nat /\ faults \in Nat
    BY IncidentsAssumption, FS_CardinalityType DEF TypeOK
  <2>3. Cardinality(OpenOf(r)) + Cardinality(Opening(r)) <= Cardinality(Managers) + faults
    BY DEF OpeningInv
  <2> QED BY <2>1, <2>2, <2>3
<1> QED BY <1>1, <1>2, <1>3, PTL DEF Spec

-----------------------------------------------------------------------------
(* Every automatic incident gets its run *)

\* No incident stops being one that lost its run.
LEMMA OrphansKept ==
  ASSUME TypeOK, [Next]_vars
  PROVE  orphans \subseteq orphans'
<1>1. ASSUME NEW m \in Managers, CollectStep(m) \/ ManagerStarts(m) \/ DetectStep(m)
      PROVE  orphans' = orphans
  BY <1>1 DEF CollectStep, ManagerStarts, DetectStep
<1>2. ASSUME NEW i \in DOMAIN incidents, Resolve(i) PROVE orphans' = orphans
  BY <1>2 DEF Resolve
<1>3. ASSUME NEW m \in Managers, ManagerStops(m) PROVE orphans \subseteq orphans'
  BY <1>3, ManagerStopsType
<1> QED BY <1>1, <1>2, <1>3, TaskOrphans, NextSplit
        DEF Change, GrowOld, CreateManualIncident, vars

\* A task other than the one that steps keeps its place and its incident.
LEMMA OtherTasksKept ==
  ASSUME TypeOK, NEW t \in Tasks, TaskStep(t)
  PROVE  \A u \in Tasks : u # t => task'[u] = task[u] /\ target'[u] = target[u]
<1>1. CASE Done(t) \/ Raises(t)
  BY <1>1, DoneTypes DEF TypeOK
<1>2. CASE ~(Done(t) \/ Raises(t))
  BY <1>2 DEF TaskStep, Find, Update, Create, AutoRun, TaskRaises, GotoTask, TypeOK
<1> QED BY <1>1, <1>2

\* A step of a task leaves every automatic incident its run, or a task about to start one.
LEMMA TaskRunFollows ==
  ASSUME TypeOK, RunFollows, NEW t \in Tasks, TaskStep(t),
         AutoRca, NEW i \in DOMAIN incidents', incidents'[i].rule # "manual", ~incidents'[i].run,
         i \notin orphans'
  PROVE  \E u \in Tasks : task'[u] = "run" /\ target'[u] = i
<1>1. \A u \in Tasks : u # t => task'[u] = task[u] /\ target'[u] = target[u]
  BY OtherTasksKept
<1>2. ASSUME i \in DOMAIN incidents, incidents'[i].rule = incidents[i].rule, ~incidents[i].run
      PROVE  \E u \in Tasks : task[u] = "run" /\ target[u] = i
  <2>1. i \notin orphans
    BY TaskOrphans
  <2> QED BY <1>2, <2>1 DEF RunFollows
<1>3. CASE Find(t) \/ Update(t)
  <2>1. incidents' = incidents /\ task[t] # "run"
    BY <1>3 DEF Find, Update, GotoTask
  <2> QED BY <1>1, <1>2, <2>1
<1>4. CASE Create(t)
  <2>1. task[t] = "create" /\ task'[t] = "run" /\ target'[t] = Len(incidents) + 1
    BY <1>4 DEF Create, GotoTask, TypeOK
  <2>2. /\ incidents' \in Seq(Incident) /\ Len(incidents') = Len(incidents) + 1
        /\ \A j \in DOMAIN incidents : incidents'[j] = incidents[j]
    BY <1>4, OpenIncidentType, TaskType DEF Create, OpenIncident
  <2>3. i \in DOMAIN incidents \/ i = Len(incidents) + 1
    BY <2>2 DEF TypeOK
  <2>4. CASE i \in DOMAIN incidents
    <3>1. incidents'[i] = incidents[i]
      BY <2>2, <2>4
    <3> QED BY <1>1, <1>2, <2>1, <2>4, <3>1
  <2> QED BY <2>1, <2>3, <2>4
<1>5. CASE AutoRun(t)
  <2>1. /\ incidents' \in Seq(Incident) /\ Len(incidents') = Len(incidents)
        /\ \A j \in DOMAIN incidents :
             /\ incidents'[j].rule = incidents[j].rule
             /\ j # target[t] => incidents'[j] = incidents[j]
             /\ j = target[t] => incidents'[j].run
    BY <1>5, StartRunType DEF AutoRun
  <2>2. i \in DOMAIN incidents
    BY <2>1 DEF TypeOK
  <2>3. i # target[t] /\ incidents'[i] = incidents[i]
    BY <2>1, <2>2
  <2> QED BY <1>1, <1>2, <2>2, <2>3
<1>6. CASE TaskRaises(t)
  <2>1. CASE task[t] # "run" /\ UNCHANGED <<incidents, orphans>>
    BY <1>1, <1>2, <2>1
  <2>2. CASE task[t] = "create" /\ OpenIncident(t) /\ orphans' = orphans \cup {Len(incidents) + 1}
    <3>1. /\ incidents' \in Seq(Incident) /\ Len(incidents') = Len(incidents) + 1
          /\ \A j \in DOMAIN incidents : incidents'[j] = incidents[j]
      BY <2>2, OpenIncidentType, TaskType DEF OpenIncident
    <3>2. i \in DOMAIN incidents
      BY <2>2, <3>1 DEF TypeOK
    <3> QED BY <1>1, <1>2, <2>2, <3>1, <3>2
  <2>3. CASE task[t] = "run" /\ UNCHANGED incidents /\ orphans' = orphans \cup {target[t]}
    <3>1. i # target[t]
      BY <2>3
    <3> QED BY <1>1, <1>2, <2>3, <3>1
  <2>4. CASE task[t] = "run" /\ StartRun(target[t]) /\ UNCHANGED orphans
    <3>1. /\ incidents' \in Seq(Incident) /\ Len(incidents') = Len(incidents)
          /\ \A j \in DOMAIN incidents :
               /\ incidents'[j].rule = incidents[j].rule
               /\ j # target[t] => incidents'[j] = incidents[j]
               /\ j = target[t] => incidents'[j].run
      BY <2>4, StartRunType
    <3>2. i \in DOMAIN incidents
      BY <3>1 DEF TypeOK
    <3>3. i # target[t] /\ incidents'[i] = incidents[i]
      BY <3>1, <3>2
    <3> QED BY <1>1, <1>2, <3>2, <3>3
  <2> QED BY <1>6, <2>1, <2>2, <2>3, <2>4 DEF TaskRaises
<1> QED BY <1>3, <1>4, <1>5, <1>6 DEF TaskStep

\* Every step keeps RunFollows.
LEMMA RunFollowsKept ==
  ASSUME TypeOK, RoundInv, RunFollows, [Next]_vars
  PROVE  RunFollows'
<1> SUFFICES ASSUME AutoRca, NEW i \in DOMAIN incidents', incidents'[i].rule # "manual",
                    ~incidents'[i].run, i \notin orphans'
             PROVE  \E t \in Tasks : task'[t] = "run" /\ target'[t] = i
  BY DEF RunFollows
<1>1. i \notin orphans
  BY OrphansKept
<1>2. CASE \E t \in Tasks : TaskStep(t)
  BY <1>2, TaskRunFollows
<1>3. CASE ~\E t \in Tasks : TaskStep(t)
  <2>1. \A t \in Tasks : task[t] = "run" =>
           \/ task'[t] = "run" /\ target'[t] = target[t]
           \/ target[t] \in orphans'
    <3>1. ASSUME NEW m \in Managers, DetectStep(m)
          PROVE  \A t \in Tasks : task[t] = "run" => task'[t] = "run" /\ target'[t] = target[t]
      <4>1. CASE DetectRead(m)
        <5>1. \A t \in Tasks : task[t] = "run" => task'[t] = task[t]
          BY <4>1, DetectReadRounds
        <5> QED BY <4>1, <5>1 DEF DetectRead
      <4>2. CASE ~DetectRead(m)
        BY <3>1, <4>2 DEF DetectStep, DetectBegin, DetectList, DetectRaises
      <4> QED BY <4>1, <4>2
    <3>2. ASSUME NEW m \in Managers, ManagerStops(m), NEW t \in Tasks, task[t] = "run"
          PROVE  \/ task'[t] = "run" /\ target'[t] = target[t]
                 \/ target[t] \in orphans'
      BY <3>2, ManagerStopsType
    <3> QED BY <1>3, <3>1, <3>2, DetectionKept DEF detectVars
  <2>2. /\ i \in DOMAIN incidents /\ incidents[i].rule # "manual" /\ ~incidents[i].run
    <3>1. ASSUME NEW j \in DOMAIN incidents, Resolve(j)
          PROVE  /\ i \in DOMAIN incidents /\ incidents[i].rule # "manual" /\ ~incidents[i].run
      <4>1. /\ incidents' \in Seq(Incident) /\ Len(incidents') = Len(incidents)
            /\ \A k \in DOMAIN incidents :
                 incidents'[k].rule = incidents[k].rule /\ incidents'[k].run = incidents[k].run
        BY <3>1, ResolveType
      <4>2. i \in DOMAIN incidents
        BY <4>1 DEF TypeOK
      <4> QED BY <4>1, <4>2
    <3>2. CASE CreateManualIncident
      <4>1. /\ incidents' \in Seq(Incident) /\ Len(incidents') = Len(incidents) + 1
            /\ \A j \in DOMAIN incidents : incidents'[j] = incidents[j]
            /\ incidents'[Len(incidents) + 1] = [rule |-> "manual", open |-> TRUE, run |-> FALSE]
        BY <3>2, OpenIncidentType DEF CreateManualIncident
      <4>2. i \in DOMAIN incidents
        <5>1. i \in DOMAIN incidents \/ i = Len(incidents) + 1
          BY <4>1 DEF TypeOK
        <5> QED BY <4>1, <5>1
      <4> QED BY <4>1, <4>2
    <3> QED BY <1>3, <3>1, <3>2, IncidentsKept
  <2> QED BY <1>1, <2>1, <2>2 DEF RunFollows
<1> QED BY <1>2, <1>3

\* An automatic incident without a run has the task that opened it about to start one, unless that
\* task itself raised or was stopped: no other task takes its place or its incident from it, and no
\* other failure or stop loses the run (IncidentsService.openAutomaticIncident, autoRcaEnabled).
THEOREM RunAlwaysFollows == Spec => []RunFollows
<1> DEFINE IInv == TypeOK /\ RoundInv /\ RunFollows
<1>1. Init => IInv
  <2> SUFFICES ASSUME Init PROVE IInv
    OBVIOUS
  <2>1. TypeOK /\ RoundInv
    BY InitType DEF Init, RoundInv
  <2>2. RunFollows
    BY DEF Init, RunFollows
  <2> QED BY <2>1, <2>2
<1>2. IInv /\ [Next]_vars => IInv'
  BY NextType, RoundInvKept, RunFollowsKept
<1>3. IInv => RunFollows
  OBVIOUS
<1> QED BY <1>1, <1>2, <1>3, PTL DEF Spec
=============================================================================
