# Verification of NexCause

NexCause deploys applications to Kubernetes, watches their health, opens
incidents and lets an agent analyse the root cause of each.  This directory
holds TLA+ models of its stateful parts, the TLC configurations that check
them, and TLAPS proofs.  `PROJECT.json` maps every definition to the lines of
source it stands for.

## The system

| Part | State it keeps | Operations that change it |
|---|---|---|
| RCA agent (`rca-agent-service/src/main.py`, `db.py`) | rows `RcaRun`, `RcaRunEvent`, `RcaAgentThread`, `RcaChatMessage`; asyncio tasks in memory | `start_run`, `poll_pending_runs`, `run_rca`, `chat`, `list_chat`, start and stop of the process |
| RCA orchestration (`rca/rca.service.ts`) | creates `RcaRun` and its first event | `startForIncident`, `startForDeployment`, `triggerAgentRun` |
| Deployments (`deployments/deployments.service.ts`) | row `Deployment`, `RuntimeConfig` | `create`, `getStatus`, `scale`, `stop`, `start`, `restart`, `delete` |
| Kubernetes service (`kubernetes/kubernetes.service.ts`) | the cluster: namespaces, ConfigMaps, Secrets, Deployments, Services, HTTPRoutes, Jobs | the calls of the row above and of builds |
| Health samples (`observability/observability.service.ts`) | `DeploymentHealthSample`, `isCollecting` | the collection timer, retention |
| Incidents (`incidents/incidents.service.ts`) | `Incident`, `isDetecting` | the detection timer, `createManualIncident`, `resolve` |
| Sessions (`auth/`) | `AuthLoginAttempt`, `AuthSession`, `Workspace`, `IdentityUser`, `AuditEvent` | login, authenticate, logout, switch of organization, cleanup |
| Builds (`builds/builds.service.ts`) | `Build` and its Job | `create`, `getStatus` |
| RCA graph (`rca-agent-service/src/graph`, `agents`) | none that is stored: a token, the findings so far | one run of specialist agents |
| MCP evidence server (`rca-mcp-server`) | none; reads Postgres, Kubernetes, Prometheus, Tempo, Loki | read-only tools |
| Tenancy (`database/`) | the workspace of a request, row-level security | every query |
| Evidence (`evidence/evidence.service.ts`) | `EvidenceSnapshot`; reads the cluster and Postgres | `createSnapshot` |
| Telemetry, apps, frontend, charts | little or none | - |

How they interact.  The deployment manager (Node, one thread, many requests
interleaved at every `await`) writes Postgres and the cluster.  Its timers
sample health and open incidents; an incident starts a run.  A run is a row in
state `pending` plus one HTTP trigger nobody waits for.  The agent (Python,
asyncio) turns triggers and pending rows into tasks, and a task's only claim on
a run is a conditional `UPDATE`.  During a rolling update of a chart two
processes of a service work on the same tables.

What is hard: requests that overlap on one deployment (nothing is locked, every
row is written from an earlier read); tasks of several agents for one run;
database answers that are lost after the commit; processes that stop between
two steps; triggers that are lost; timers that look at what other timers wrote.
`PROJECT.json` lists these hazards at their lines.

What makes each part correct:

- a run is worked on by one task, ends, and stays ended; the events it has and
  its columns agree with its status;
- no pending run is forgotten;
- a deployment's record and its resources agree once nothing is under way, and
  a later request repairs what races left; deleting removes what was created;
- one open incident per deployment and rule for each manager at work, a run for
  it, and none that comes back once it is resolved;
- a login attempt counts once; a session that was deleted or replaced is not
  there again; the tokens kept are the ones Asgardeo accepts;
- what is deployed was built; nothing runs in a workspace without its network
  policies; the end of a build is found again after any overlap;
- evidence shows the window it names, whenever its sources answer;
- a report rests on evidence of every tool, sees the sample that caused it, and
  is reached in time or not at all.

## Modules

| Module | Models |
|---|---|
| `RcaRuns` | Runs from their creation to their end: the deployment manager's insert and trigger, the agent's tasks and poller, chat requests, faults and stops of agents |
| `MCRcaRuns` | its instances for TLC |
| `RunLifecycle` | the abstract life of a run, which `RcaRuns` implements |
| `RcaRunsProofs` | theorems about `RcaRuns` |
| `Deployments` | One deployment: its row, its cluster resources, the requests that work on both, faults and stops of the manager |
| `MCDeployments` | its instances for TLC |
| `DeploymentsProofs` | theorems about `Deployments` |
| `Incidents` | Health samples and incidents of one deployment: both timers of each manager, the tasks of a detection, users, faults and stops |
| `MCIncidents` | its instances for TLC |
| `IncidentsProofs` | theorems about `Incidents` |
| `Sessions` | Login attempts and sessions of one browser: requests that overlap, tokens at Asgardeo, expiry, cleanup, faults and stops |
| `MCSessions` | its instances for TLC |
| `SessionsProofs` | theorems about `Sessions` |
| `Builds` | Builds of one workspace, its namespace and network policies, status requests, deploys of a build, faults and stops |
| `MCBuilds` | its instances for TLC |
| `BuildsProofs` | theorems about `Builds` |
| `Evidence` | What the evidence server makes of what it reads: the window and the signals of each tool, as operators |
| `RcaGraph` | One run of the agent's graph against the evidence server, while samples come and go |
| `MCRcaGraph` | its instances for TLC |
| `EvidenceProofs` | lemmas about `Evidence`: what its operators return |
| `RcaGraphProofs` | theorems about `RcaGraph` |
| `Snapshots` | Requests for live evidence and snapshots of it: the window, the five sources that answer later, the cuts to the window |
| `MCSnapshots` | its instance for TLC |
| `SnapshotsProofs` | theorems about `Snapshots` |

### RcaRuns

A database call of the agent is one transaction (`tenant_connection`), so it is
one action.  It may commit, raise without having committed, or raise after its
commit; `ClaimRaises`, `ThreadRaises`, `CompleteRaises`, `FailRaises`,
`ChatRaises` and the `Fault` disjuncts of `Fail` are the last two.  `pc` says
where each `run_rca` task stands:

    claim -> select -> insert -> graph -> complete -> idle
                                   any of them -> fail -> idle
    claim -> failUnclaimed -> idle      (mark_running raised, nothing claimed)

`get_or_create_thread` is two actions: its SELECT and its INSERT see different
states of the table under READ COMMITTED, and the unique index on the run makes
the second of two inserts raise (`ThreadConflict`).  `stray` and `dropped` are
history variables: the runs that a task failed without holding them, and those
whose holder stopped or could not record its failure.

Of the events of a run only the number of each is kept (`events`).  Their one
order is `createdAt`, the time their transaction began, before the two
`set_config` calls and the update that may wait for another's commit, so a claim
can commit after a failure and carry the older time: what the newest event is
says nothing of the status.  `EventsAddUp` is what holds in whatever order they are read.

`RunLifecycle` says what the rest of the system may rely on: a run is taken by
one worker at a time, from pending or failed, and ended by that worker.  In
`RcaRuns` the workers are the tasks, `working[r]` is `Holders(r)`, and nothing
is promised of a run in `stray`.  `ImplementsLifecycle` is the refinement.

The LangGraph run is `GraphReturns` or `GraphRaises`; the content of a report,
of a message and of an error is abstracted to whether there is one.  One
workspace is modelled: the poller handles the workspaces one after another and
nothing else crosses them.  It takes active workspaces only (`db.py:54-59`), as
detection and collection do (`incidents.service.ts:160-163`,
`observability.service.ts:119-122`): nothing under `src/` ever changes a
workspace's status (`auth/workspace.service.ts:49,60` write its name and
organization), so the one modelled is active; in one that an operator suspends
these three stand still.  A poll round is one action although each workspace
is read separately: the tasks it starts check the status again when they claim.

### Deployments

Each API request (`h[x]`) is a record of what it does, where it stands, and
what it kept from the row it read.  Between the read, each cluster call and the
write of the row anything else may happen.  `create` and `delete` visit the
resources in the order of `deployImage` and `deleteDeploymentResources`.  The
names of resources contain the deployment's id, so deployments share nothing
and one suffices; the namespace and its policies, which they do share, are in
`Builds`.  `config` stands for
the four ConfigMaps and Secrets, which are made next to each other, used
together and deleted next to each other.

A manager that stops loses its requests where they stood (`Crash`).  A call
that raises may have taken effect (`Raise` in each action); a stop between the
cluster patch and the row's write leaves the same state as a write that raised.
`calm`, `ran` and `cleaned` are history variables for the properties.

### Incidents

`collect[m]` and `round[m]` are the two timers of a manager; "idle" is the
value FALSE of `isCollecting` and `isDetecting`.  A collection is the listing,
the read of the row, the three reads of the cluster (one action: they are made
next to each other and only counts of them are used), the insert and the
retention.  A detection lists, reads the two newest samples and starts one task
per problem; each task is `find -> update` or `find -> create -> run`, one
database transaction a step.  `current[m]` are the tasks `Promise.all` waits
for.  The first that raises ends the round (`Raises`); the others stay in
`task` and go on, which is the only way one manager can have two tasks of a
rule at work (`Slots`).  `orphans` is a history variable: the incidents whose own
task raised or was stopped before it started their run.

The deployment's row and its cluster change freely (`Change`), more than
`Deployments` allows.  Time is `age`: a sample is new, has been read by a
detection, or is older than the ten minutes detection looks back.  That a
sample grows old only after some detection had its chance (`GrowOld`) is the
one timing assumption: the timers tick every minute.  Samples are ordered by
insertion; `collectedAt` is taken a little earlier, and only two managers that
collect at the same time can tell the difference.  Only the two newest samples
are kept, because nothing here reads others.  Severity, titles and metadata are
left out, so a second `resolve` of an incident changes nothing.

### Sessions

A request is a record (`h[x]`): the session its cookie named when it arrived,
where it stands, and what it has read.  Each database call is an action;
`createSession`, `resolveIdentity` and the cleanup are one transaction each.
`consumeLoginAttempt` is two actions although it is one transaction: under READ
COMMITTED another callback can come between its read and its delete, and Prisma's
`delete` raises for a row that is gone, where `deleteMany` does not (`Destroy`,
`Insert`).  `update` raises too (`Touch`, `UpdateTokens`).

Asgardeo is external: it accepts the refresh token of a row if it is the current
one (`row.current`) and not revoked, may rotate it at a refresh or not, and may
refuse anything.  Access tokens are good until they are about to expire
(`stale`).  `client` is the discovery that a process makes once and keeps, failed
or not; a logout that needs it fails after the session is deleted, and the cookie
stays (`CookieAfter`).  A refresh whose answer is lost may have rotated the token.
A session's two expiry times count down in ticks.  Session ids are
numbered in the order of their creation; the random ids never repeat.  `pred`,
`from` and `calm` are history variables.

### Builds

A request is again a record.  Creating, looking at a build and deploying it
share `ensureNamespace`, which is a read and a create of the namespace, then a
read and a create of each policy in turn; the API server refuses to create what
is there.  A policy that is there is replaced by the same manifest, which
changes nothing.  The Job controller is external: new, active, ended, with one
attempt.  `Gateway` says whether the gateway's namespace and label are configured: without
them, and with isolation on, `reconcileTenantNetworkPolicies` throws.  The rest of a deploy is module `Deployments`.  `settled`, `cut`,
`calm` and `alone` are history variables.

### Evidence and RcaGraph

`Evidence` has one operator per preprocessing function: from counts, types and
kinds of lines to the names of the signals in their order.  What is kept of a
bundle is what the agent decides by: its tool, its signals, whether it has
samples; a report's reference keeps less, the source of the tool (`SourceOf`), which
three tools of Kubernetes share.  Two things of the code show there: an adapter never fills in the
status of a trace, so no trace counts as failed, and a query that fails is left
out like one without data.

`RcaGraph` is one run.  Each request to the server is awaited; a tool call is
two steps of the server, since it reads the incident (`BuildContext`) in one
transaction and its data (`Collect`) in another.  The context is read anew for
every tool, so the window may move.  Time passes only while something is
awaited, up to its timeout.  `HttpTimeout` stands for connecting, sending and waiting
for the answer together, each of which httpx limits by itself; a server that sends an answer in
pieces without end, each within the limit, is left out.  A metric may be NaN
(a quantile without data): Go's encoder refuses it and the server answers with an empty body,
so the run fails (`AnswerEmpty`, `unencoded`).

### Snapshots

A request (`h[x]`) reads the row, fixes the time of its collection and the
window (`Begun`), and then awaits five sources at once.  Each is an action and
answers at a time of its own; the logs are a list of pods, then one answer per
pod, in any order.  A source of the cluster that raises is replaced by an error
(`collectOrError`), Postgres is not.  Only when all have answered the window is
applied (`Finish`).  Nothing of the world is kept between answers: what a call
returns is any log or event that can exist by then.

The API server counts the age of a line back from the time it reads the log, and
the code has computed that age, in whole seconds, for the time of the collection;
a log keeps when it was read (`logs[p].at`).  Kubernetes gives events whole
seconds (`WholeSecond`).  Left out are the contents of pods, samples and lines,
the time of an event that has none, lines without a time, which the API server
does not return, and the summary.  A log is the one of a container's current run.

## Runs

| Run | Question | Bounds |
|---|---|---|
| `rca_faults` | Who holds a run; do row and events agree; can a completed run change; who loses the race for the thread; order of messages; is `RunLifecycle` implemented? | 2 agents, 1 run, a task and a chat request of each agent, 2 faults, 1 stop, no question starts on a thread of 2 messages |
| `rca_poll` | Is every pending run picked up? Does every run end for good? | 2 runs, `PollLimit` 1, 1 fault, 1 stop, lost triggers |
| `deployments_races` | Agreement after serial requests; cleanup; does one request alone repair what races left? | 2 requests at once, counts up to 2, exposed, 1 fault, 1 stop |
| `incidents_two` | Open incidents per rule and their runs when detections interleave | 2 managers (symmetric), one rule that signals all the time, 1 resolve, 1 manual incident, 1 fault |
| `incidents_lasting` | Do resolved incidents stay so; is a lasting problem open, a deleted deployment left alone, in the end? | 1 manager, 1 resolve, 1 fault, 1 stop |
| `sessions` | Attempts used once, a replaced session gone, tokens that work, nothing left over after serial requests | 2 requests at once, 1 attempt, 3 sessions, 1 organization, idle 1 and life 2 ticks, 1 rotation, 1 fault, 1 stop |
| `builds` | Is what is deployed built, what runs isolated, what ended recorded? | 2 requests at once, 2 builds, 3 policies, 2 faults, 1 stop |
| `rca_graph` | What a report rests on, the token, the trigger's sample, the end of the run | times scaled (below), 1 sample during the run, 1 fault |
| `snapshots` | What does evidence show of its window, and what does it miss? | 1 request, 1 pod with up to 2 lines of which 1 is asked for, 1 event, 5 instants, 2 of them a second |
| `deployments_deleted_history` | Does a deleted record stay deleted? (it does not) | 2 requests, no faults |
| `deployments_stopped` | Does a stopped record run nothing? (it can) | 2 requests, no faults |
| `deployments_delete_routes` | Does a delete after create remove everything? (not the routes) | 2 requests, no faults |

Why the bounds are enough.  Runs share nothing but the poll batch and the
chat thread belongs to one run, so one run with a task and a chat request
in each of two agents shows every race between two duplicates and of a task with
a chat; that a third changes nothing is what the theorems are for.  Two runs and
a limit of one make the batch too small.  A lost answer needs one fault, a fault in the except branch a second.
Two requests show every race of a deployment, because a request depends on
another only through the row and the resources it left; histories have no
bound, so what a pair left meets any later pair.  Counts 0, 1 and 2 tell "zero",
"another" and "last" apart.  The tasks of a run per agent bound the duplicates a
poller queues while a run is pending (`Slots`); a poll that finds no free slot
starts none, which in the code means one more duplicate that does what the others do.

For incidents, the rules do not meet: each task looks for its own, and
the incidents of different rules share only their numbering, which a manual
incident disturbs as well.  So one rule (short of replicas) is enough, with two
managers or with one.  With one rule a round has one task, so none is ever left behind
in these runs, and neither has a manager stop with two at work: what a task left
behind can open or fail to start is covered only by the proofs, for any number of
rules, slots, faults and stops.  The duplicates `incidents_two` reaches are real: `OpenBounded` is tight,
two managers do open two incidents of one rule.

For sessions, a race needs two requests: each touches the session its cookie
named, and a switch makes at most one more.  Three sessions are a login, a
switch of it and a second switch, or a second successor; one tick of idle time
and two of life tell the two expiry times apart.  For builds, two requests meet on the
namespace, on a policy and on the row of a build; the first policy, one in the
middle and the last are three; a lost answer and a second failure are two faults.

The times of `rca_graph` are scaled: two ticks are a second of the window, and,
for the run, the token lasts as long as four LLM timeouts, as it does with the
defaults (120 s and 30 s); a request may take half as long as an LLM call, which
in the code is the same 30 s, to keep the instance small.  What depends on
the ratio is `PromptRunSucceeds`: a run has at most three LLM calls before its
last request, so the token is just enough as long as the server is quick.  With
a longer `RCA_LLM_TIMEOUT_SECONDS` it is not, and nothing in the code ties the
two; the mutant `ExpiryForCalls` shows the limit.  A slow server, an answer that cannot be encoded and a
failed request are excluded by the property, which is about the LLM's share of the token alone.  One specialist's findings do
not depend on another's, so each tool either fails or finds one thing wrong.

Requests for evidence share nothing, and neither do pods or events, each of which
is cut to the window by itself, so one of each is enough for `snapshots`.  Five
instants hold a trigger before, at and after the collection, windows that begin before,
at and after the first line, and an answer up to two seconds late; windows reach
back by two instants or three, so that their seconds are rounded and are not.

Deadlock is checked except in three runs.  A manager whose discovery failed and
which has no sessions left can do nothing any more (`sessions`), which the code
really does: the rejected promise is kept.  A run of the graph ends
(`rca_graph`), and so does a request for evidence (`snapshots`).  Elsewhere a system with no request under way can take a new one.

## Fairness

Three runs assume any.  `rca_poll`: weak fairness of each task's next
step (asyncio runs every task; Postgres statements, MCP and model calls have
timeouts, so each returns or raises), of each agent's poll round (a `while True`
whose body swallows every exception) and of the restart of a stopped agent
(Kubernetes).  `incidents_lasting`: weak fairness of each manager's collection
and detection (`setInterval`, and every call returns or raises), of each task,
of the manager's restart, and of time (`GrowOld`).  `rca_graph`: time passes and
a timeout that is due strikes; that the server or the LLM ever answers is not
assumed.  Changes of the deployment, triggers, users and faults are never fair,
and faults and stops are bounded.

## What the code does against its own words

Three runs end in a counterexample, with two overlapping requests and no fault:

1. `DeletedIsHistory` - a delete "keeps the DB record as deleted history"
   (`deployments.service.ts:330`), but a request that read the row before the
   delete writes a live status over it.
2. `StoppedRunsNothing` - stop scales to zero (line 262); when patches and
   writes of two requests happen in opposite orders a stopped record runs.
3. `DeleteRemovesAll` - delete removes "the Kubernetes resources that were
   created" (`kubernetes.service.ts:358`); a delete that overlaps create forgets
   the hostname, and no later delete looks for the routes.

`NoLeftovers` and `LoneRequestRepairs` say how far the damage goes: everything
but the routes does stay deleted, and one request that has the deployment to itself
repairs the rest.

## Proofs

A theorem holds for every value of the constants: any number of processes, runs,
builds, requests, incidents and slots, and any bounds on faults and stops.  The
assumptions are those the modules state (`RunsAssumption`, `BuildsAssumption`,
`IncidentsAssumption`, `SessionsAssumption`, `DeploymentsAssumption`,
`EvidenceAssumption`, `RcaGraphAssumption`, `SnapshotsAssumption`): bounds are
naturals, a second, a minute, the default window and the tail are not zero, switches are Booleans, the data the tools may find are of the types their sources give, and
for `Incidents` the managers and slots are finitely many.  Every invariant and
every action property the passing runs check is proved.

`RcaRunsProofs`:

- `TypeCorrect`: `Spec => []TypeOK`;
- `HolderInvariant`: `Spec => []HolderInv`, where `HolderInv` is `OneHolder`,
  `HeldIsRunning`, `StrayNeedsFault` and `RunningIsHeld`.  `OneHolder` alone is
  not inductive: that a second task cannot claim a held run follows from the
  run's status, which is what `HeldIsRunning` says, and that status is disturbed
  only by a task that never claimed the run, which `StrayNeedsFault` ties to a fault.
  `RunningIsHeld` holds under every fault and stop: only the run's own holder can strand it;
- `OneHolderAlways`, `HeldIsRunningAlways`, `RunningIsHeldAlways`: its parts;
- `CompletedStays`: `CompletedIsFinal`, from `HolderInv`: while nothing has
  raised, a run with a holder is running, so a completed run has none; after a
  fault only `FailRun` reaches it, which keeps the report;
- `RecordAlwaysFollows`: `RecordFollowsStatus`, from `EventsAlwaysAddUp` and
  `ColumnsAlwaysFollow`.  That a claim is closed by one end is not inductive, since
  the end is still owed: `EndsPaid` counts the tasks that may yet write one with
  the ends written, against the claims and the calls that raised; `TasksHaveRuns` says
  that no task works on a run that was never created;
- `ThreadRaceAlwaysChat`: `ThreadRaceIsChat`, from `HolderInv`: the task that
  inserted the thread and the one about to would both hold the run;
- `AnswersAlwaysFollow`: `AnswersFollowQuestions`, from `OwedInv`, which counts
  the answers requests still owe with those that are stored.  That those
  requests are finitely many is part of the invariant, since nothing else bounds them;
- `LifecycleImplemented`: `Spec => ImplementsLifecycle`, the refinement of
  `RunLifecycle`.  An initial state maps to an initial state; with `TypeOK` and
  `HolderInv` a claim maps to `Begin`, a write by the holder to `End`, a stop or
  a failure before the claim to what `RunLifecycle` allows of a lost worker, and
  every other step to a stutter.

The argument goes task step by task step: `TaskMoves` says from where to where
each step goes, `TaskWrites` what it writes.

`BuildsProofs`:

- `TypeCorrect`, from `BaseInv`: the types, that a record names a build only when
  there is a row (`RowInv`), and what `ensureNamespace` leaves behind its place (`PolicyInv`);
- `DeployedIsAlwaysBuilt`: `DeployedIsBuilt`, from `BuildInv`.  The row alone
  does not tell: three kinds of requests write it without a condition.  It is
  right because a build has one creator (`OneCreator`), so its Job is made once
  and its end is final, and whoever read "succeeded" read it of that Job
  (`RowsInv`, `SoundInv`);
- `IsolatedAlways`: `IsolatedBeforeUse`, because policies are never removed and
  every request passes all of them before it makes a Job or a workload;
- `PendingAlwaysCreated`: `PendingIsCreated`, with `OneCreator` again;
- `EndAlwaysRecorded`: `EndIsRecorded`.  `AloneInv` says what a request that
  reads a build without company has read, `SettledInv` that after it nobody is
  left who could write anything else;
- `SerialBuildsAlwaysStart`: `SerialBuildsStart`, from `CalmInv`: one request at
  a time, none of the namespace and policies it found missing appears under its
  hands, so no call of it raises.

`IncidentsProofs`:

- `TypeCorrect`; `ResolvedAlwaysStays`: `ResolvedStays`, since only an append, a
  resolve and a start of a run write incidents;
- `OpenAlwaysBounded`: `OpenBounded`.  Counting open incidents is not inductive:
  a task that looked and found none will open one later.  `OpeningInv` counts
  it with those that are open.  When a task looks and finds none, the count
  falls to the tasks of the rule that are at work, and they are bounded: a
  manager's round waits for one (`RoundInv`), and each call that raised left at
  most one behind (`LeftInv`);
- `RunAlwaysFollows`: `RunFollows`, inductive with `RoundInv`; only the incident's
  own task, when it raises or stops, makes it an orphan.

`SessionsProofs`:

- `TypeCorrect`, with `PlaceInv`: a request stands where its operation takes it;
- `PredecessorAlwaysGone`: `PredecessorIsGone`.  It needs that cookies and
  requests name only sessions that were issued (`LinkInv`), since an identifier
  still to be issued could otherwise be replaced before it exists;
- `AttemptAlwaysUsedOnce`: `AttemptUsedOnce`, from `OnceInv`: of the callbacks
  of an attempt and the sessions made of it, whoever has consumed it is alone,
  and the attempt is gone from the table;
- `TokensAlwaysFollow`: `TokensFollow`, from `TokenInv`: requests about to
  refresh hold a token the row has had, only one of them can bring a newer one,
  and a revoked session has a logout that will delete it;
- `SerialSessionAlways`: `SerialSession`, from `CalmInv`: the session in the
  table is the cookie's, or the one the answer under way will put there.

`DeploymentsProofs`:

- `TypeCorrect`, with `PlaceInv`: only create undoes and fails, and a request at
  the cluster has something left to do there;
- `NothingLeft`: `NoLeftovers`, from `LateInv`: once a delete began after create
  had ended nothing makes resources, and what such a delete has not dropped it
  still has to visit;
- `LoneRequestAlwaysRepairs`: `LoneRequestRepairs`, from `RowInv` (the row always
  remembers a count to restore, whatever raced) and `AloneInv` (what a request
  without company read and patched still holds when it writes);
- `RoutesAlwaysTakenBack`: `RoutesTakenBack`, from `CreateInv`: while create is
  alone exactly what it has passed exists, and routes come in the order that the
  rollback takes them back in;
- `SerialRequestsAgree`: `SerialAgreement`, from `CalmInv`: what row and cluster
  are at each place of the one request under way.

`RcaGraphProofs`:

- `PromptRunAlwaysSucceeds`: `PromptRunSucceeds` for every `TokenLife` of at
  least three `LlmTimeout` and a second, which is what the code's two minutes
  and 30 seconds satisfy.  `ShapeInv` says that specialists done and specialists
  to come are four, so no request comes after the fourth LLM call; `PromptInv`
  bounds the time by the calls made.  The second is what `exp` loses to
  rounding;
- `ReportAlwaysComplete`: `ReportIsComplete`, for any data the tools find.
  It counts findings by the sources they refer to; those of two specialists never
  agree (`SourcesDiffer`).  `PlanInv` says that some order of the specialists explains where the run is:
  those of the findings have run all their tools, the current one has called the
  tools before the ones left to it, and the others are to come.  That each specialist
  comes once (`OrderIsOnce`) does the rest;
- `TypeCorrect`, from `RunInv`: what the tools may find has its types
  (`WorldInv`), and so has what the run made of it (`DataInv`), down to the five
  causes a finding names at most;
- `ReportAlwaysFollows`: `ReportFollowsEvidence`.  `RunInv` says of every finding
  that its causes are signals of its evidence and that it has causes if the
  evidence has signals (`FindingFollows`); the report takes the first cause of
  the first finding with any (`ConcludeFollows`), and no bundle is left out of the findings;
- `TriggerSampleIsSeen`: `TriggerSampleSeen`, if the server looks ahead for a
  second at least (`LooksAhead`).  The environment sets the minutes of
  `DEFAULT_LOOKAHEAD_MINUTES`, two by default; with none the window would end
  with the trigger's own second and could end before the sample
  (`TriggerInWindow` needs it, and the mutant `WindowEndsAtTrigger` shows why).

`EvidenceProofs` holds what these rest on: the rounding to whole seconds
(`WholeSecondNear`, `WholeSecondMonotone`), what every bundle is made of
(`SignalsTyped`, `ListBundles`, `LogBundle`, `MetricBundle`) and that the samples
found are the ones in the window (`SamplesCounted`).  The library states what
`FlattenSeq` computes through a recursive function over the length of the
sequence.  The induction that takes is done by its least counterexample: of the
lengths for which a claim fails there is a least (`LeastNumber`, from the
well-foundedness of `<`), and the step from the one before refutes it
(`PrefixJoin`, `JoinedHolds`).  Hence `Evidence` picks elements of sequences
with `FlattenSeq` (`Chosen`) and never with `SelectSeq`, whose definition the
library leaves without a fact to cite.

`SnapshotsProofs`:

- `TypeCorrect`; that a request never asks for the lines of no second, which the
  API server refuses, rests on `SecondsReach`;
- `WindowShown`: `EvidenceShowsWindow`, from `IInv`.  While a request reads
  (`Reads`), its seconds reach from the collection back to the start of the window
  at least (`SecondsReach`: they are rounded up), no log was read before the
  collection, and what is kept of each is what the API server answered.  So what
  is missing after the cut is at most as old, counted from the start of the window,
  as the answer was late (`LinesCut`); for events it is the fraction of a second (`EventsCut`).

Only model-checked: the liveness properties `PendingLeaves`, `RunsSettle`,
`LastingProblemIsOpen`, `DeletedFallsSilent` and `RunEnds`, since fairness and
ENABLED are beyond the prover.  TLC also shows that the hypotheses of the theorems
are met: the instance of `rca_graph` has the four specialists and nine tools of the
code, and what the tools find is reduced to one value of each kind, or nothing.

## Not modelled

- Tenancy: every transaction sets its workspace from the request's context and
  row-level security enforces it, so the modules model one workspace.
- Telemetry clients only query; apps are one table that is created and listed.
  There is no interleaving of theirs that a property could be about.
- The frontend keeps no state other parts depend on: what it sends is any request
  at any time, which is what the modules allow.
- The evidence server's text: summaries, statistics, redaction, and its scope checks.
- Charts, scripts and CI justify assumptions only: one replica of each service and the
  default rolling update, hence two processes at most for a short time.
- In the modelled parts: contents of reports, messages and manifests, the event
  stream to the browser, cryptography, audit events.

## Plan

Done, in this order: `RcaRuns` and its proofs, `Deployments`, `Incidents`,
`Sessions`, `Builds`, `RunLifecycle`, `Evidence`, `RcaGraph`, the proofs about
`Builds`, `Incidents`, `Sessions`, `Deployments` and `RcaGraph`, and `Snapshots`
with its proofs.  Left:

1. The scope checks of the evidence server, once it serves more than one workspace at a time.
2. Two workspaces in one model, if a transaction that sets none is ever added.
