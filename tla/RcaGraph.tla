------------------------------- MODULE RcaGraph -------------------------------
(***************************************************************************)
(* One run of the RCA agent's graph against the MCP evidence server: the   *)
(* agent signs a token, asks for the context, lets each specialist collect *)
(* the evidence of its tools and an LLM summarize it, and concludes.  The  *)
(* server reads the incident anew for each request and derives the window  *)
(* from its latest health sample, which the deployment manager moves on or *)
(* deletes meanwhile.                                                      *)
(*                                                                         *)
(* Time passes while a request or the LLM is awaited, up to its timeout.   *)
(* Nothing is assumed of the server and the LLM: they may never answer.    *)
(***************************************************************************)
EXTENDS Evidence, FiniteSets

CONSTANTS
  TokenLife,               \* of the token, two minutes
  LlmTimeout,              \* rca_llm_timeout_seconds
  HttpTimeout,             \* of MCPClient: to connect, to send and to wait for the answer together
  MaxFaults,               \* bound on requests and LLM calls that fail
  MaxLater,                \* bound on samples collected during the run
  Retention,               \* healthSampleRetentionMinutes, in ticks
  \* What the tools find: replicas, pods, event types, lines, series, durations, changes.
  Replicas, PodLists, EventTypes, LogLines, Series, Durations, Changes,
  SampleData               \* health samples, without their time

ASSUME RcaGraphAssumption ==
  /\ TokenLife \in Nat \ {0} /\ LlmTimeout \in Nat \ {0} /\ HttpTimeout \in Nat \ {0}
  /\ MaxFaults \in Nat /\ MaxLater \in Nat /\ Retention \in Nat
  /\ Replicas \subseteq [desired : Nat, ready : Nat, unavailable : Nat]
  /\ PodLists \subseteq Seq(Seq([ready : BOOLEAN, restarts : Nat]))
  /\ EventTypes \subseteq Seq({"Normal", "Warning"})
  /\ LogLines \subseteq Seq({"error", "trace", "plain", "blank"})
  /\ Series \subseteq Seq(Seq(Int)) /\ Durations \subseteq Seq(Nat) /\ Changes \subseteq Nat
  /\ SampleData \subseteq [desired : Nat, ready : Nat, restarts : Nat, warnings : Nat]

VARIABLES
  clock,
  samples,    \* DeploymentHealthSample rows of the deployment, oldest first
  later,      \* how many of them were collected during the run
  latest,     \* the time of the incident's latest health sample, or NoSample
  opened,     \* Incident.openedAt
  expiry,     \* exp of the token
  pc,         \* the await the run is at
  since,      \* when it began
  window,     \* the window the server derived for the request
  left,       \* the tools still to call, specialist by specialist
  evidence,   \* bundles of the current specialist
  findings,   \* of the specialists that are done
  report,
  slow,       \* history: time passed while the server was awaited
  unencoded,  \* history: a metric had a value that is not a number
  faults

history == <<slow, unencoded>>
world == <<samples, later, latest, opened>>
vars  == <<clock, world, expiry, pc, since, window, left, evidence, findings, report, history, faults>>

NoSample == -1
NoWindow == [trigger |-> NoSample, start |-> 0, end |-> 0]
NoReport == [status |-> "none", category |-> "none"]
Ended    == {"done", "failed"}
Waiting  == {"initialize", "list", "context", "call", "built", "llm"}
\* Of Waiting, the ones that wait for the server.
Requests == Waiting \ {"llm"}

-----------------------------------------------------------------------------
(* The specialists *)

Agent == {"kubernetes", "logs", "metrics_traces", "changes_config"}

ToolsOf(agent) ==
  CASE agent = "kubernetes" ->
         <<"get_deployment_status", "get_pods", "get_kubernetes_events", "get_health_samples">>
    [] agent = "logs"            -> <<"get_logs">>
    [] agent = "metrics_traces"  -> <<"get_metrics", "get_traces">>
    [] agent = "changes_config"  -> <<"get_runtime_configs", "get_recent_changes">>

\* Mutant: only the specialists whose terms occur are added.
SelectByTermsOnly(t) ==
  <<"kubernetes", "changes_config">>
    \o (IF "logs" \in t THEN <<"logs">> ELSE <<>>)
    \o (IF "metrics_traces" \in t THEN <<"metrics_traces">> ELSE <<>>)

\* select_specialists: all four, the metrics before the logs only when its terms alone occur.
SelectSpecialists(t) ==
  <<"kubernetes", "changes_config">>
    \o (IF "metrics_traces" \in t /\ "logs" \notin t THEN <<"metrics_traces", "logs">>
                                                     ELSE <<"logs", "metrics_traces">>)

\* evidence_reference: of a bundle's samples and errors nothing is kept, and of its tool the source.
References(bundles) ==
  [i \in DOMAIN bundles |-> [source |-> SourceOf(bundles[i].tool), signals |-> bundles[i].signals]]

\* Mutant: a finding is about its last tool only.
FindingOfLastTool(bundles) ==
  [causes |-> SubSeq(Last(bundles).signals, 1, Trim(Len(Last(bundles).signals), 5)),
   evidence |-> References(bundles)]

\* Mutant: off by one.
FindingOfSix(bundles) ==
  LET all == FlattenSeq([i \in DOMAIN bundles |-> bundles[i].signals])
  IN  [causes |-> SubSeq(all, 1, Trim(Len(all), 6)), evidence |-> References(bundles)]

\* The suspected causes of a finding are the names of its first five signals.
Finding(bundles) ==
  LET all == FlattenSeq([i \in DOMAIN bundles |-> bundles[i].signals])
  IN  [causes |-> SubSeq(all, 1, Trim(Len(all), 5)), evidence |-> References(bundles)]

\* HypothesisBuilder: always one hypothesis, the first cause of the first finding that has any.
Hypothesis(fs) ==
  LET causes == FlattenSeq([i \in DOMAIN fs |-> fs[i].causes])
  IN  IF causes = <<>> THEN [category |-> "unknown", confidence |-> "low"]
                       ELSE [category |-> causes[1], confidence |-> "medium"]

\* Verifier: any summary of a finding counts as support.
Verdict(hypothesis, fs) ==
  IF fs = <<>> THEN "inconclusive"
  ELSE IF hypothesis.confidence = "low" THEN "needs_followup" ELSE "approved"

\* ReportWriter.
Conclude(fs) ==
  LET best == Hypothesis(fs)
  IN  IF Verdict(best, fs) = "approved"
        THEN [status |-> "root_cause_identified", category |-> best.category]
        ELSE [status |-> "inconclusive", category |-> "none"]

-----------------------------------------------------------------------------
(* State *)

Sample == [at : Nat, desired : Nat, ready : Nat, restarts : Nat, warnings : Nat]
Tools  == AllTools \ {"get_rca_context"}
ReferenceOK(ref) == ref.source \in {SourceOf(t) : t \in Tools} /\ ref.signals \in Seq(SignalNames)

\* Type correctness; a finding has at most five causes.
TypeOK ==
  /\ clock \in Nat /\ since \in 0 .. clock /\ expiry \in Nat
  /\ samples \in Seq(Sample) /\ later \in 0 .. MaxLater
  /\ latest \in Nat \cup {NoSample} /\ opened \in Nat
  /\ pc \in Waiting \cup Ended
  /\ window = NoWindow \/ window \in [trigger : Nat, start : Int, end : Nat]
  /\ \A i \in DOMAIN left : left[i] \in Seq(AllTools) /\ left[i] # <<>>
  /\ \A i \in DOMAIN evidence :
       /\ evidence[i].tool \in Tools /\ evidence[i].signals \in Seq(SignalNames)
       /\ evidence[i].samples \in Nat /\ evidence[i].failed \in BOOLEAN
  /\ \A i \in DOMAIN findings :
       /\ findings[i].causes \in Seq(SignalNames) /\ Len(findings[i].causes) <= 5
       /\ \A j \in DOMAIN findings[i].evidence : ReferenceOK(findings[i].evidence[j])
  /\ report.status \in {"none", "root_cause_identified", "inconclusive"}
  /\ report.category \in SignalNames \cup {"none"}
  /\ slow \in BOOLEAN /\ unencoded \in BOOLEAN /\ faults \in Nat

At(t, data) == [at |-> t, desired |-> data.desired, ready |-> data.ready,
                restarts |-> data.restarts, warnings |-> data.warnings]

\* Mutant: the token lasts for as many LLM calls as come before the last request.
ExpiryForCalls(now) == WholeSecond(now + 3 * LlmTimeout)

\* exp, in whole seconds.
Expiry(now) == WholeSecond(now + TokenLife)

\* The run starts at any fraction of a second after the sample its incident was opened for.
\* A manual incident has no sample.
Init ==
  /\ clock \in 0 .. TicksPerSecond - 1
  /\ \E data \in SampleData : samples = <<At(clock, data)>>
  /\ later = 0 /\ latest \in {clock, NoSample} /\ opened = clock
  /\ expiry = Expiry(clock)
  /\ pc = "initialize" /\ since = clock
  /\ window = NoWindow
  /\ left = <<>> /\ evidence = <<>> /\ findings = <<>> /\ report = NoReport
  /\ slow = FALSE /\ unencoded = FALSE /\ faults = 0

\* A run that fails leaves nothing behind but its failure.
Await(what)   == pc' = what /\ since' = clock
Fail          == pc' = "failed" /\ since' = clock /\ window' = NoWindow
                 /\ left' = <<>> /\ evidence' = <<>> /\ findings' = <<>>
NoFault       == UNCHANGED <<history, faults>>
UntilThen     == IF pc = "llm" THEN LlmTimeout ELSE HttpTimeout
TimedOut      == clock - since >= UntilThen

-----------------------------------------------------------------------------
(* The run *)

\* serviceauth.Middleware, on every request.
TokenValid == clock < expiry

\* initialize, and validate_required_tools: the server has all of them.
Connect ==
  /\ pc \in {"initialize", "list"}
  /\ \/ /\ TokenValid
        /\ Await(IF pc = "initialize" THEN "list" ELSE "context")
        /\ UNCHANGED <<window, left, evidence, findings>>
     \/ ~TokenValid /\ Fail
  /\ NoFault
  /\ UNCHANGED <<clock, world, expiry, report>>

\* load_context and select_specialists; the rule key and the summary of the incident contain
\* any of the supervisor's terms.
LoadContext ==
  /\ pc = "context"
  /\ \/ /\ TokenValid
        /\ \E terms \in SUBSET {"logs", "metrics_traces"} :
             LET agents == SelectSpecialists(terms)
             IN  left' = [i \in DOMAIN agents |-> ToolsOf(agents[i])]
        /\ Await("call")
        /\ UNCHANGED <<window, evidence, findings>>
     \/ ~TokenValid /\ Fail
  /\ NoFault
  /\ UNCHANGED <<clock, world, expiry, report>>

\* scopedContext: the record of the incident is read, in a transaction of its own.
BuildContext ==
  /\ pc = "call"
  /\ \/ /\ TokenValid /\ pc' = "built"
        /\ window' = Window(IF latest # NoSample THEN latest ELSE opened, clock)
        /\ UNCHANGED <<since, left, evidence, findings>>
     \/ ~TokenValid /\ Fail
  /\ NoFault
  /\ UNCHANGED <<clock, world, expiry, report>>

Tool == Head(Head(left))

\* The bundles an adapter can answer with.
StatusBundles == {DeploymentStatus(d) : d \in Replicas}
PodBundles    == {Pods(p) : p \in PodLists}
EventBundles  == {Events(e) : e \in EventTypes}
\* Of one series for each query; the value of a query that fails or finds nothing is <<>>.
MetricBundles == {Metrics(s) : s \in Series}
TraceBundles  == {Traces(d) : d \in Durations}
ConfigBundles == {RuntimeConfigs(1)}
ChangeBundles == {RecentChanges(n) : n \in Changes}
SampleBundles == {HealthSamples(SamplesIn(samples, window))}

\* From Loki, else from the pods: a pod that cannot be read is one line that says "error".
LogBundles == {Logs(l) : l \in LogLines \cup {<<"error">>}}

\* What the tool may answer; an adapter that fails makes a bundle with the error.
Found(tool) ==
  {Unavailable(tool)} \cup
  CASE tool = "get_deployment_status" -> StatusBundles
    [] tool = "get_pods"              -> PodBundles
    [] tool = "get_kubernetes_events" -> EventBundles
    [] tool = "get_health_samples"    -> SampleBundles
    [] tool = "get_logs"              -> LogBundles
    [] tool = "get_metrics"           -> MetricBundles
    [] tool = "get_traces"            -> TraceBundles
    [] tool = "get_runtime_configs"   -> ConfigBundles
    [] tool = "get_recent_changes"    -> ChangeBundles

\* The tool is run and answers, and the server forgets the request; after the last one of a
\* specialist the LLM is asked.
Collect ==
  /\ pc = "built"
  /\ \E bundle \in Found(Tool) : evidence' = Append(evidence, bundle)
  /\ LET rest == Tail(Head(left)) IN
     IF rest = <<>> THEN left' = Tail(left) /\ Await("llm")
     ELSE left' = <<rest>> \o Tail(left) /\ Await("call")
  /\ window' = NoWindow /\ NoFault
  /\ UNCHANGED <<clock, world, expiry, findings, report>>

\* histogram_quantile of a histogram without observations is not a number.  The server parses
\* it but cannot encode its answer, which stays empty, and the agent raises.
AnswerEmpty ==
  /\ pc = "built" /\ Tool = "get_metrics"
  /\ Fail
  /\ unencoded' = TRUE
  /\ UNCHANGED <<clock, world, expiry, report, slow, faults>>

\* The LLM answers, or there is none and the fallback does.  After the last specialist the
\* hypothesis is built, verified and reported.
Summarize ==
  /\ pc = "llm"
  /\ findings' = Append(findings, Finding(evidence)) /\ evidence' = <<>>
  /\ IF left = <<>> THEN pc' = "done" /\ report' = Conclude(findings') /\ UNCHANGED since
     ELSE Await("call") /\ UNCHANGED report
  /\ NoFault
  /\ UNCHANGED <<clock, world, expiry, window, left>>

-----------------------------------------------------------------------------
(* Failures, time and the deployment manager *)

\* The server is not reached or answers with an error, or the LLM call fails.
Raises ==
  /\ pc \in Waiting /\ faults < MaxFaults
  /\ faults' = faults + 1 /\ Fail
  /\ UNCHANGED <<clock, world, expiry, report, history>>

\* Mutant: requests to the server have no timeout.
OnlyLlmTimesOut ==
  /\ pc = "llm" /\ TimedOut
  /\ faults' = faults + 1 /\ Fail
  /\ UNCHANGED <<clock, world, expiry, report, history>>

TimesOut ==
  /\ pc \in Waiting /\ TimedOut
  /\ faults' = faults + 1 /\ Fail
  /\ UNCHANGED <<clock, world, expiry, report, history>>

Tick ==
  /\ pc \in Waiting /\ ~TimedOut
  /\ clock' = clock + 1
  /\ slow' = (slow \/ pc \in Requests)
  /\ UNCHANGED <<world, expiry, pc, since, window, left, evidence, findings, report,
                 unencoded, faults>>

\* A round of the observability service and of incident detection, which may find the incident
\* still justified.
CollectSample ==
  /\ pc \in Waiting /\ later < MaxLater
  /\ \A i \in DOMAIN samples : samples[i].at < clock
  /\ \E data \in SampleData : samples' = Append(samples, At(clock, data))
  /\ later' = later + 1
  /\ latest' \in {latest, clock}
  /\ UNCHANGED <<clock, opened, expiry, pc, since, window, left, evidence, findings,
                 report, history, faults>>

\* deleteExpiredHealthSamples; the incident's reference is set to null.
DropSample ==
  /\ pc \in Waiting
  /\ samples # <<>> /\ samples[1].at < clock - Retention
  /\ samples' = Tail(samples)
  /\ latest' = IF latest = samples[1].at THEN NoSample ELSE latest
  /\ UNCHANGED <<clock, later, opened, expiry, pc, since, window, left, evidence, findings,
                 report, history, faults>>

Next ==
  \/ Connect \/ LoadContext \/ BuildContext \/ Collect \/ AnswerEmpty \/ Summarize
  \/ Raises \/ TimesOut \/ Tick
  \/ CollectSample \/ DropSample

Spec == Init /\ [][Next]_vars

\* Time passes and timeouts strike; answers are not assumed.
FairSpec == Spec /\ WF_vars(Tick) /\ WF_vars(TimesOut)

-----------------------------------------------------------------------------
(* Properties *)

Bundles == UNION {ToSet(findings[i].evidence) : i \in DOMAIN findings}

\* A report has one finding of every specialist, with a reference for each of its tools: the
\* sources of the tools, in their order, which is all a reference keeps of them.  It does so
\* whichever terms the incident's rule key and summary contain.
SourcesOf(agent) == [j \in DOMAIN ToolsOf(agent) |-> SourceOf(ToolsOf(agent)[j])]
Sources(refs)    == [j \in DOMAIN refs |-> refs[j].source]
ReportIsComplete ==
  pc = "done" =>
    \A agent \in Agent :
      Cardinality({i \in DOMAIN findings : Sources(findings[i].evidence) = SourcesOf(agent)}) = 1

\* A report names a root cause exactly when some tool signalled something, and the cause is
\* a signal of the first specialist that has one.
ReportFollowsEvidence ==
  pc = "done" =>
    /\ report.status = "root_cause_identified" <=> \E b \in Bundles : b.signals # <<>>
    /\ report.status = "root_cause_identified" =>
         \E i \in DOMAIN findings :
           /\ \E b \in ToSet(findings[i].evidence) : report.category \in ToSet(b.signals)
           /\ \A k \in 1 .. i - 1 : \A b \in ToSet(findings[k].evidence) : b.signals = <<>>

\* The token lasts for the run: when the server answers at once, all metrics are numbers and
\* nothing fails, the run comes to its report even if the LLM takes its full time for every
\* specialist.
PromptRunSucceeds == ~slow /\ ~unencoded /\ faults = 0 => pc # "failed"

\* A call that begins a whole second after the sample its window is derived from finds a
\* sample, whatever is collected meanwhile; within the second it may find none, since the
\* window ends with the last whole second.
TriggerSampleSeen ==
  [][Len(evidence') > Len(evidence) /\ Last(evidence').tool = "get_health_samples" =>
       \/ Last(evidence').failed \/ Last(evidence').samples > 0
       \/ WholeSecond(since) < window.trigger
       \/ \A i \in DOMAIN samples : samples[i].at # window.trigger]_vars

\* Every run ends, with a report or without, although neither the server nor the LLM need ever
\* answer.  (A server that sends its answer in pieces without end is not one of those: httpx
\* waits anew for every piece.)
RunEnds == <>(pc \in Ended)
=============================================================================
