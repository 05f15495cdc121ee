------------------------------ MODULE Snapshots ------------------------------
(***************************************************************************)
(* Requests to EvidenceService: live evidence about one deployment and     *)
(* snapshots of it.  A request reads the deployment's row, fixes the time  *)
(* of its collection and with it the window, then asks five sources at     *)
(* once: the cluster for the status, the pods, the events and the logs,    *)
(* and Postgres for the health samples.  Each answers at a time of its     *)
(* own, later than the collection; only then the answers are cut down to   *)
(* the window.                                                             *)
(*                                                                         *)
(* A request sees of the world what its calls return, so an answer is any  *)
(* that a source could give at that time: the world has no state here.     *)
(* Times are integers; lines have theirs in full, Kubernetes gives events  *)
(* theirs in whole seconds.                                                *)
(***************************************************************************)
EXTENDS Integers, Sequences, FiniteSets

CONSTANTS
  Requests,                          \* each is one request
  Pods,                              \* pods the deployment may have
  EventNames,                        \* its events, and its pods'
  TicksPerSecond, TicksPerMinute,
  DefaultLookback, DefaultLookahead, \* in minutes
  TailLines,                         \* lines asked for of each log
  Triggers, Minutes,                 \* what the query of a request can say
  MaxTime, MaxLog                    \* bounds on the clock and on a log

NoTrigger == -1
Never     == -1

ASSUME SnapshotsAssumption ==
  /\ TicksPerSecond \in Nat \ {0} /\ TicksPerMinute \in Nat \ {0}
  /\ DefaultLookback \in Nat \ {0} /\ DefaultLookahead \in Nat \ {0}
  /\ TailLines \in Nat \ {0}
  /\ Triggers \subseteq Nat \cup {NoTrigger} /\ Minutes \subseteq Int
  /\ MaxTime \in Nat /\ MaxLog \in Nat

VARIABLES
  now,
  h     \* the requests

vars == <<now, h>>

Status  == {"creating", "running", "failed", "stopped", "deleted"}
Cluster == {"status", "pods", "events", "logs"}
Sources == Cluster \cup {"samples"}

\* A log: the times of its lines, oldest first.
Log == {l \in Seq(Nat) : \A i, j \in DOMAIN l : i <= j => l[i] <= l[j]}

\* Logs and events as they can be at a time.
LogsUpTo(t) ==
  {l \in UNION {[1 .. n -> 0 .. t] : n \in 0 .. MaxLog} : \A i, j \in DOMAIN l : i <= j => l[i] <= l[j]}
EventsUpTo(t) == [EventNames -> 0 .. t \cup {Never}]

\* What a request keeps of a pod's log: the log as it was when it was read, and when that was.
Unread  == [log |-> <<>>, at |-> 0]
Reading == [log : Log, at : Nat]

\* A request: where it stands; the status of the row; the time of the collection, the window
\* and the age of the lines to ask for; the sources that have not answered and those that
\* raised; the answers; the lines and the events that are left, and the status.
Request ==
  [pc : {"new", "reading", "returned", "stored", "failed"}, store : BOOLEAN, row : Status,
   at : Nat, start : Int, end : Int, since : Nat \ {0}, awaited : SUBSET Sources, raised : SUBSET Cluster,
   ready : BOOLEAN, events : [EventNames -> Nat \cup {Never}],
   listed : SUBSET Pods, todo : SUBSET Pods, logs : [Pods -> Reading], lines : [Pods -> SUBSET Nat],
   shown : SUBSET EventNames, status : Status]

New ==
  [pc |-> "new", store |-> FALSE, row |-> "creating", at |-> 0, start |-> 0, end |-> 0, since |-> 1,
   awaited |-> {}, raised |-> {}, ready |-> FALSE,
   events |-> [e \in EventNames |-> Never], listed |-> {}, todo |-> {},
   logs |-> [p \in Pods |-> Unread], lines |-> [p \in Pods |-> {}], shown |-> {},
   status |-> "creating"]

Init == now = 0 /\ h = [x \in Requests |-> New]

-----------------------------------------------------------------------------
(* The window *)

\* A number of minutes that is not a positive integer counts as not given.
Given(minutes, default) == IF minutes > 0 THEN minutes ELSE default

WindowStart(trigger, lookback) == trigger - Given(lookback, DefaultLookback) * TicksPerMinute

\* The window ends with the collection at the latest.
WindowEnd(trigger, lookahead, at) ==
  LET end == trigger + Given(lookahead, DefaultLookahead) * TicksPerMinute
  IN  IF end > at THEN at ELSE end

\* Mutant: rounded down.
SecondsFloored(start, end) ==
  LET n == (end - start) \div TicksPerSecond IN IF n > 1 THEN n ELSE 1

\* Mutant: not one at least.
SecondsUnbounded(start, end) == (end - start + TicksPerSecond - 1) \div TicksPerSecond

\* Rounded up, and one at least: Kubernetes refuses to look for the lines of no second.
SecondsBetween(start, end) ==
  LET n == (end - start + TicksPerSecond - 1) \div TicksPerSecond IN IF n > 1 THEN n ELSE 1

Within(t, r) == t >= r.start /\ t <= r.end

-----------------------------------------------------------------------------
(* Requests *)

\* A request that begins to collect at a time.
Begun(store, row, asked, lookback, lookahead, t) ==
  LET trigger == IF asked = NoTrigger THEN t ELSE asked
      start   == WindowStart(trigger, lookback)
  IN  [New EXCEPT !.pc = "reading", !.store = store, !.row = row, !.at = t,
                  !.start = start, !.end = WindowEnd(trigger, lookahead, t),
                  !.since = SecondsBetween(start, t), !.awaited = Sources]

\* Both endpoints read the row, or do not find it, then begin to collect.
Begin(x) ==
  /\ h[x].pc = "new"
  /\ \/ \E store \in BOOLEAN, row \in Status, asked \in Triggers, lookback, lookahead \in Minutes :
          h' = [h EXCEPT ![x] = Begun(store, row, asked, lookback, lookahead, now)]
     \/ h' = [h EXCEPT ![x].pc = "failed"]
  /\ UNCHANGED now

Awaits(x, source) == h[x].pc = "reading" /\ source \in h[x].awaited

\* All desired replicas are ready, and some are desired.
ReadStatus(x) ==
  /\ Awaits(x, "status")
  /\ \E ready \in BOOLEAN : h' = [h EXCEPT ![x].ready = ready, ![x].awaited = @ \ {"status"}]
  /\ UNCHANGED now

ReadPods(x) ==
  /\ Awaits(x, "pods")
  /\ h' = [h EXCEPT ![x].awaited = @ \ {"pods"}]
  /\ UNCHANGED now

\* An event is there once, with the time of its last occurrence.
ReadEvents(x) ==
  /\ Awaits(x, "events")
  /\ \E some \in EventsUpTo(now) : h' = [h EXCEPT ![x].events = some, ![x].awaited = @ \ {"events"}]
  /\ UNCHANGED now

\* The API server's answer: of the last TailLines lines those of the last so many seconds.
Answered(log, t, since) ==
  {i \in DOMAIN log : Len(log) - i < TailLines /\ log[i] >= t - since * TicksPerSecond}

\* The pods are listed once more, then the log of each is read.
ListLogs(x) ==
  /\ Awaits(x, "logs") /\ h[x].todo = {}
  /\ \E some \in SUBSET Pods :
       h' = [h EXCEPT ![x].listed = some, ![x].todo = some,
                      ![x].awaited = IF some = {} THEN @ \ {"logs"} ELSE @]
  /\ UNCHANGED now

ReadLog(x, p) ==
  /\ Awaits(x, "logs") /\ p \in h[x].todo
  /\ \E log \in LogsUpTo(now) :
       h' = [h EXCEPT ![x].logs[p] = [log |-> log, at |-> now], ![x].todo = @ \ {p},
                      ![x].lines[p] = Answered(log, now, h[x].since),
                      ![x].awaited = IF h[x].todo = {p} THEN @ \ {"logs"} ELSE @]
  /\ UNCHANGED now

\* A source of the cluster that raises, as the logs do when one listed pod has gone, leaves
\* an error in its place.
CollectRaises(x, source) ==
  /\ source \in Cluster /\ Awaits(x, source)
  /\ h' = [h EXCEPT ![x].raised = @ \cup {source}, ![x].awaited = @ \ {source}]
  /\ UNCHANGED now

\* The samples of the window come from Postgres, whose errors end the request.
ReadSamples(x) ==
  /\ Awaits(x, "samples")
  /\ \/ h' = [h EXCEPT ![x].awaited = @ \ {"samples"}]
     \/ h' = [h EXCEPT ![x].pc = "failed"]
  /\ UNCHANGED now

\* The events that are left: Kubernetes drops the fraction of a second.
WholeSecond(t) == (t \div TicksPerSecond) * TicksPerSecond
EventsWithin(r) == {e \in EventNames : r.events[e] # Never /\ Within(WholeSecond(r.events[e]), r)}

LinesWithin(r, p) == {i \in r.lines[p] : Within(r.logs[p].log[i], r)}

EvidenceStatus(r) == IF "status" \notin r.raised /\ r.ready THEN "running" ELSE r.row

\* Everything has answered; a snapshot is stored, live evidence returned.
Finish(x) ==
  /\ h[x].pc = "reading" /\ h[x].awaited = {}
  /\ \/ h' = [h EXCEPT ![x].pc = IF h[x].store THEN "stored" ELSE "returned",
                        ![x].shown = EventsWithin(h[x]),
                        ![x].lines = [p \in Pods |-> LinesWithin(h[x], p)],
                        ![x].status = EvidenceStatus(h[x])]
     \/ h[x].store /\ h' = [h EXCEPT ![x].pc = "failed"]
  /\ UNCHANGED now

Tick == now < MaxTime /\ now' = now + 1 /\ UNCHANGED h

Collect(x) ==
  \/ ReadStatus(x) \/ ReadPods(x) \/ ReadEvents(x) \/ ListLogs(x) \/ ReadSamples(x)
  \/ \E p \in Pods : ReadLog(x, p)
  \/ \E source \in Cluster : CollectRaises(x, source)

Next == Tick \/ \E x \in Requests : Begin(x) \/ Collect(x) \/ Finish(x)

Spec == Init /\ [][Next]_vars

-----------------------------------------------------------------------------
(* Properties *)

\* Type correctness of the clock and the requests.
TypeOK == now \in Nat /\ h \in [Requests -> Request]

Collected(r) == r.pc \in {"returned", "stored"}

\* Evidence has the events and the lines of its window, although its sources answer after
\* the window was fixed: no other, and all of them but what the code gives up.  That is an
\* event of the window's first second, the lines as old as the answer is late, and lines
\* followed by TailLines others.
EventsOfWindow(r) ==
  \A e \in EventNames : r.events[e] # Never =>
     /\ e \in r.shown => r.start <= r.events[e] /\ r.events[e] < r.end + TicksPerSecond
     /\ r.start + TicksPerSecond <= r.events[e] /\ r.events[e] <= r.end => e \in r.shown
LinesOfWindow(r, p) ==
  \A i \in DOMAIN r.logs[p].log : LET t == r.logs[p].log[i] IN
     /\ i \in r.lines[p] => r.start <= t /\ t <= r.end
     /\ /\ r.start + (r.logs[p].at - r.at) <= t /\ t <= r.end
        /\ Len(r.logs[p].log) - i < TailLines
        => i \in r.lines[p]
EvidenceShowsWindow ==
  \A x \in Requests : Collected(h[x]) =>
     /\ "events" \notin h[x].raised => EventsOfWindow(h[x])
     /\ "logs" \notin h[x].raised => \A p \in h[x].listed : LinesOfWindow(h[x], p)
=============================================================================
