------------------------------- MODULE Evidence -------------------------------
(***************************************************************************)
(* What the MCP evidence server (rca-mcp-server) makes of the data it has  *)
(* read: the window of a request and the signals of each tool's bundle.    *)
(* A bundle keeps its tool, the names of its signals in order, the number  *)
(* of its samples and whether it has errors; summaries, statistics, scopes *)
(* and severities are left out.  Times are integers; TicksPerSecond of     *)
(* them make a second.                                                     *)
(***************************************************************************)
EXTENDS Integers, Sequences, SequencesExt

CONSTANTS
  TicksPerSecond,          \* RFC 3339 keeps whole seconds
  Lookback, Lookahead,     \* DEFAULT_LOOKBACK_MINUTES and DEFAULT_LOOKAHEAD_MINUTES, in ticks
  MaxLogLines, MaxSamples  \* MAX_LOG_LINES, MAX_SAMPLES (and MAX_SPANS)

ASSUME EvidenceAssumption ==
  /\ TicksPerSecond \in Nat \ {0}
  /\ Lookback \in Nat /\ Lookahead \in Nat
  /\ MaxLogLines \in Nat \ {0} /\ MaxSamples \in Nat \ {0}

AllTools == {"get_rca_context", "get_deployment_status", "get_pods", "get_kubernetes_events",
             "get_logs", "get_metrics", "get_traces", "get_health_samples",
             "get_runtime_configs", "get_recent_changes"}

\* The source NewBundle gives the bundles of a tool.
SourceOf(tool) ==
  CASE tool \in {"get_deployment_status", "get_pods", "get_kubernetes_events"} -> "kubernetes"
    [] tool = "get_logs"            -> "logs"
    [] tool = "get_metrics"         -> "metrics"
    [] tool = "get_traces"          -> "traces"
    [] tool = "get_health_samples"  -> "health_samples"
    [] tool = "get_runtime_configs" -> "runtime"
    [] tool = "get_recent_changes"  -> "changes"

SignalNames == {"ready_replicas_below_desired", "unavailable_replicas", "containers_not_ready",
                "container_restarts_present", "kubernetes_warning_events", "readiness_degraded",
                "restart_count_increased", "warning_events_present", "log_errors_present",
                "stack_traces_present", "metric_spike", "slow_traces_present",
                "recent_changes_present"}

-----------------------------------------------------------------------------
(* The window *)

WholeSecond(t) == (t \div TicksPerSecond) * TicksPerSecond

\* Mutant: nothing after the trigger is looked at.
WindowEndsAtTrigger(trigger, now) ==
  [trigger |-> trigger, start |-> WholeSecond(trigger - Lookback), end |-> WholeSecond(trigger)]

\* Build and WindowTimes: both ends pass through a format that drops fractions of a second.
Window(trigger, now) ==
  [trigger |-> trigger,
   start |-> WholeSecond(trigger - Lookback),
   end   |-> WholeSecond(IF trigger + Lookahead > now THEN now ELSE trigger + Lookahead)]

-----------------------------------------------------------------------------
(* Bundles *)

\* The elements of a sequence at the indexes I, in their order.
Chosen(s, I) == FlattenSeq([i \in DOMAIN s |-> IF i \in I THEN <<s[i]>> ELSE <<>>])

\* The signals whose condition holds, in the order given.
Signals(candidates) ==
  Chosen([i \in DOMAIN candidates |-> candidates[i][1]], {i \in DOMAIN candidates : candidates[i][2]})

Trim(n, limit) == IF n > limit THEN limit ELSE n

Bundle(tool, candidates, n) ==
  [tool |-> tool, signals |-> Signals(candidates), samples |-> Trim(n, MaxSamples), failed |-> FALSE]

\* withError and unavailable: a bundle without signals.
Unavailable(tool) == [tool |-> tool, signals |-> <<>>, samples |-> 0, failed |-> TRUE]

\* From the replicas of the Deployment.
DeploymentStatus(d) ==
  Bundle("get_deployment_status",
         << <<"ready_replicas_below_desired", d.desired > 0 /\ d.ready < d.desired>>,
            <<"unavailable_replicas", d.unavailable > 0>> >>, 1)

\* From the labelled pods, each a sequence of containers.
Pods(pods) ==
  Bundle("get_pods",
         << <<"containers_not_ready", \E i \in DOMAIN pods : \E c \in ToSet(pods[i]) : ~c.ready>>,
            <<"container_restarts_present",
              \E i \in DOMAIN pods : \E c \in ToSet(pods[i]) : c.restarts > 0>> >>,
         Len(pods))

\* From the types of the events about the Deployment and its pods, of any time.
Events(types) ==
  Bundle("get_kubernetes_events",
         << <<"kubernetes_warning_events", \E i \in DOMAIN types : types[i] = "Warning">> >>,
         Len(types))

\* From the health samples in the window, newest first.
HealthSamples(s) ==
  IF s = <<>> THEN Bundle("get_health_samples", <<>>, 0)
  ELSE Bundle("get_health_samples",
         << <<"readiness_degraded", s[1].desired > 0 /\ s[1].ready < s[1].desired>>,
            <<"restart_count_increased", s[1].restarts > s[Len(s)].restarts>>,
            <<"warning_events_present", s[1].warnings > 0>> >>, Len(s))

\* ListHealthSamples; the samples are stored in the order of their collection.
SamplesIn(samples, window) ==
  LET inside == Chosen(samples, {i \in DOMAIN samples : /\ samples[i].at >= window.start
                                                        /\ samples[i].at <= window.end})
  IN  SubSeq(Reverse(inside), 1, Trim(Len(inside), MaxSamples))

\* From lines, each an "error" line, a "trace" line of a stack, "plain" or "blank".  Only the
\* first MaxLogLines lines that are not blank are looked at.
Logs(lines) ==
  LET kept == Chosen(lines, {i \in DOMAIN lines : lines[i] # "blank"})
      read == SubSeq(kept, 1, Trim(Len(kept), MaxLogLines))
  IN  [tool |-> "get_logs",
       signals |-> Signals(<< <<"log_errors_present", \E i \in DOMAIN read : read[i] = "error">>,
                              <<"stack_traces_present", \E i \in DOMAIN read : read[i] = "trace">> >>),
       samples |-> Len(read), failed |-> FALSE]

\* From series of values, all of them numbers; one without values, like one whose query failed,
\* is left out.
Metrics(series) ==
  LET known  == Chosen(series, {i \in DOMAIN series : series[i] # <<>>})
      Top(v) == CHOOSE m \in ToSet(v) : \A k \in ToSet(v) : m >= k
      Sum(v) == FoldSeq(LAMBDA x, y : x + y, 0, v)
  IN  Bundle("get_metrics",
             [i \in DOMAIN known |->
                <<"metric_spike", Top(known[i]) > 0 /\ Top(known[i]) * Len(known[i]) > 2 * Sum(known[i])>>],
             Len(known))

\* From the durations of the traces; the adapter never fills in their status, so none counts
\* as failed.
Traces(milliseconds) ==
  Bundle("get_traces",
         << <<"slow_traces_present", \E i \in DOMAIN milliseconds : milliseconds[i] >= 1000>> >>,
         Len(milliseconds))

RuntimeConfigs(n) == Bundle("get_runtime_configs", <<>>, n)

\* From the number of rows of the Deployment and its configs updated in the window.
RecentChanges(n) == Bundle("get_recent_changes", << <<"recent_changes_present", n > 0>> >>, n)
=============================================================================
