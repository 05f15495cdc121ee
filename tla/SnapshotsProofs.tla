--------------------------- MODULE SnapshotsProofs ---------------------------
(* Theorems about Snapshots for any requests, pods, events, windows and    *)
(* bounds.                                                                 *)
EXTENDS Snapshots, TLAPS

-----------------------------------------------------------------------------
(* Seconds *)

\* Division by the length of a second leaves less than a second.
LEMMA Divided ==
  ASSUME NEW t \in Int
  PROVE  /\ t \div TicksPerSecond \in Int /\ (t \div TicksPerSecond) * TicksPerSecond \in Int
         /\ t - TicksPerSecond < (t \div TicksPerSecond) * TicksPerSecond
         /\ (t \div TicksPerSecond) * TicksPerSecond <= t
<1>1. TicksPerSecond \in Int /\ TicksPerSecond > 0
  BY SnapshotsAssumption
<1>2. /\ t \div TicksPerSecond \in Int /\ t % TicksPerSecond \in 0 .. TicksPerSecond - 1
      /\ t = TicksPerSecond * (t \div TicksPerSecond) + (t % TicksPerSecond)
  BY <1>1, SMTT(30)
<1> DEFINE q == t \div TicksPerSecond
           p == q * TicksPerSecond
           r == t % TicksPerSecond
<1>3. p \in Int /\ p = TicksPerSecond * q
  BY <1>1, <1>2
<1> HIDE DEF q, p, r
<1>4. t = p + r /\ r \in 0 .. TicksPerSecond - 1
  BY <1>2, <1>3 DEF q, r
<1>5. t - TicksPerSecond < p /\ p <= t
  BY <1>1, <1>3, <1>4
<1>6. q \in Int
  BY <1>2 DEF q
<1> QED BY <1>3, <1>5, <1>6 DEF p, q

\* The lines asked for are those of the time from the start of the window at least.
LEMMA SecondsReach ==
  ASSUME NEW start \in Int, NEW end \in Int
  PROVE  /\ SecondsBetween(start, end) \in Nat \ {0}
         /\ SecondsBetween(start, end) * TicksPerSecond \in Int
         /\ end - start <= SecondsBetween(start, end) * TicksPerSecond
<1> DEFINE T == TicksPerSecond
           t == end - start + T - 1
           n == t \div T
<1>1. T \in Nat /\ T > 0
  BY SnapshotsAssumption
<1>2. t \in Int
  BY <1>1
<1>3. n \in Int /\ n * T \in Int /\ t - T < n * T
  BY <1>2, Divided
<1>4. end - start <= n * T
  <2>1. t - T = end - start - 1
    BY <1>1
  <2> HIDE DEF n, t, T
  <2> QED BY <1>3, <2>1
<1>5. SecondsBetween(start, end) = IF n > 1 THEN n ELSE 1
  BY DEF SecondsBetween
<1> HIDE DEF n, t, T
<1>6. CASE n > 1
  BY <1>3, <1>4, <1>5, <1>6 DEF T
<1>7. CASE ~(n > 1)
  <2>1. n * T <= T
    <3>1. n = 1 \/ n <= 0
      BY <1>3, <1>7
    <3>2. CASE n = 1
      BY <1>1, <3>2
    <3>3. CASE n <= 0
      <4> DEFINE m == 0 - n
      <4>1. m \in Nat /\ n = 0 - m
        BY <1>3, <3>3
      <4> HIDE DEF m
      <4>2. m * T \in Nat
        BY <1>1, <4>1
      <4>3. n * T = 0 - m * T
        BY <1>1, <4>1
      <4> QED BY <1>1, <4>2, <4>3
    <3> QED BY <3>1, <3>2, <3>3
  <2>2. SecondsBetween(start, end) = 1 /\ 1 * T = T
    BY <1>1, <1>5, <1>7
  <2> QED BY <1>1, <1>3, <1>4, <2>1, <2>2 DEF T
<1> QED BY <1>6, <1>7

-----------------------------------------------------------------------------
(* Types *)

LEMMA LogsAreLogs ==
  ASSUME NEW t \in Nat, NEW log \in LogsUpTo(t)
  PROVE  log \in Log
<1>1. PICK n \in 0 .. MaxLog : log \in [1 .. n -> 0 .. t]
  BY DEF LogsUpTo
<1>2. n \in Nat
  BY <1>1, SnapshotsAssumption
<1>3. log \in Seq(Nat)
  BY <1>1, <1>2
<1> QED BY <1>3 DEF Log, LogsUpTo

\* A request that begins has its window and its seconds.
LEMMA WindowTyped ==
  ASSUME NEW t \in Nat, NEW asked \in Triggers, NEW lookback \in Minutes, NEW lookahead \in Minutes
  PROVE  LET trigger == IF asked = NoTrigger THEN t ELSE asked
         IN  /\ WindowStart(trigger, lookback) \in Int
             /\ WindowEnd(trigger, lookahead, t) \in Int
<1> DEFINE trigger == IF asked = NoTrigger THEN t ELSE asked
           back == Given(lookback, DefaultLookback)
           ahead == Given(lookahead, DefaultLookahead)
<1>1. trigger \in Int
  BY SnapshotsAssumption DEF NoTrigger
<1>2. back \in Int /\ ahead \in Int /\ TicksPerMinute \in Int
  BY SnapshotsAssumption DEF Given
<1>3. WindowStart(trigger, lookback) = trigger - back * TicksPerMinute
  BY DEF WindowStart
<1>4. WindowEnd(trigger, lookahead, t) \in {t, trigger + ahead * TicksPerMinute}
  BY DEF WindowEnd
<1> HIDE DEF trigger, back, ahead
<1>5. trigger - back * TicksPerMinute \in Int /\ trigger + ahead * TicksPerMinute \in Int
  BY <1>1, <1>2
<1> QED BY <1>3, <1>4, <1>5 DEF trigger

LEMMA NewType == New \in Request
<1>1. <<>> \in Log
  BY DEF Log
<1> QED BY <1>1 DEF New, Request, Status, Sources, Cluster, Unread, Reading, Never

LEMMA BegunType ==
  ASSUME NEW t \in Nat, NEW store \in BOOLEAN, NEW row \in Status, NEW asked \in Triggers,
         NEW lookback \in Minutes, NEW lookahead \in Minutes
  PROVE  Begun(store, row, asked, lookback, lookahead, t) \in Request
<1> DEFINE trigger == IF asked = NoTrigger THEN t ELSE asked
           start == WindowStart(trigger, lookback)
           end == WindowEnd(trigger, lookahead, t)
           since == SecondsBetween(start, t)
<1>1. start \in Int /\ end \in Int
  BY WindowTyped
<1>2. since \in Nat \ {0}
  <2>1. t \in Int
    OBVIOUS
  <2> HIDE DEF start
  <2> QED BY <1>1, <2>1, SecondsReach
<1>3. Begun(store, row, asked, lookback, lookahead, t) =
        [New EXCEPT !.pc = "reading", !.store = store, !.row = row, !.at = t, !.start = start,
                    !.end = end, !.since = since, !.awaited = Sources]
  BY DEF Begun
<1> HIDE DEF start, end, since
<1>4. [New EXCEPT !.pc = "reading", !.store = store, !.row = row, !.at = t, !.start = start,
                  !.end = end, !.since = since, !.awaited = Sources] \in Request
  BY <1>1, <1>2, NewType DEF Request
<1> QED BY <1>3, <1>4

LEMMA InitType == Init => TypeOK
BY NewType DEF Init, TypeOK

LEMMA NextType == TypeOK /\ [Next]_vars => TypeOK'
<1> SUFFICES ASSUME TypeOK, [Next]_vars PROVE TypeOK'
  OBVIOUS
<1>1. now' \in Nat
  <2>1. CASE Tick
    BY <2>1 DEF TypeOK, Tick
  <2>2. ASSUME NEW x \in Requests, Collect(x)
        PROVE  now' = now
    <3>1. CASE ReadStatus(x) \/ ReadPods(x) \/ ReadEvents(x) \/ ListLogs(x) \/ ReadSamples(x)
      BY <3>1 DEF ReadStatus, ReadPods, ReadEvents, ListLogs, ReadSamples
    <3>2. CASE \E p \in Pods : ReadLog(x, p)
      BY <3>2 DEF ReadLog
    <3>3. CASE \E source \in Cluster : CollectRaises(x, source)
      BY <3>3 DEF CollectRaises
    <3> QED BY <2>2, <3>1, <3>2, <3>3 DEF Collect
  <2>3. ASSUME NEW x \in Requests, Begin(x) \/ Finish(x)
        PROVE  now' = now
    BY <2>3 DEF Begin, Finish
  <2> QED BY <2>1, <2>2, <2>3 DEF TypeOK, Next, vars
\* A step of one request changes that one.
<1>2. ASSUME NEW x \in Requests, NEW r \in Request, h' = [h EXCEPT ![x] = r]
      PROVE  TypeOK'
  BY <1>1, <1>2 DEF TypeOK
<1>3. ASSUME NEW x \in Requests, Begin(x)
      PROVE  TypeOK'
  <2>1. CASE h' = [h EXCEPT ![x].pc = "failed"]
    <3>1. h[x] \in Request
      BY DEF TypeOK
    <3>2. [h[x] EXCEPT !.pc = "failed"] \in Request
      BY <3>1 DEF Request
    <3> QED BY <1>2, <2>1, <3>2
  <2>2. ASSUME NEW store \in BOOLEAN, NEW row \in Status, NEW asked \in Triggers,
               NEW lookback \in Minutes, NEW lookahead \in Minutes,
               h' = [h EXCEPT ![x] = Begun(store, row, asked, lookback, lookahead, now)]
        PROVE  TypeOK'
    <3>1. now \in Nat
      BY DEF TypeOK
    <3>2. Begun(store, row, asked, lookback, lookahead, now) \in Request
      BY <2>2, <3>1, BegunType
    <3> QED BY <1>2, <2>2, <3>2
  <2> QED BY <1>3, <2>1, <2>2 DEF Begin
<1>4. ASSUME NEW x \in Requests, Collect(x)
      PROVE  TypeOK'
  <2>1. h[x] \in Request
    BY DEF TypeOK
  <2>2. CASE ReadStatus(x)
    <3>1. PICK ready \in BOOLEAN : h' = [h EXCEPT ![x].ready = ready, ![x].awaited = @ \ {"status"}]
      BY <2>2 DEF ReadStatus
    <3>2. [h[x] EXCEPT !.ready = ready, !.awaited = @ \ {"status"}] \in Request
      BY <2>1 DEF Request
    <3> QED BY <1>1, <3>1, <3>2 DEF TypeOK
  <2>3. CASE ReadPods(x) \/ ReadSamples(x)
    <3>1. /\ [h[x] EXCEPT !.awaited = @ \ {"pods"}] \in Request
          /\ [h[x] EXCEPT !.awaited = @ \ {"samples"}] \in Request
          /\ [h[x] EXCEPT !.pc = "failed"] \in Request
      BY <2>1 DEF Request
    <3> QED BY <1>1, <2>3, <3>1 DEF TypeOK, ReadPods, ReadSamples
  <2>4. CASE ReadEvents(x)
    <3>1. PICK some \in EventsUpTo(now) :
            h' = [h EXCEPT ![x].events = some, ![x].awaited = @ \ {"events"}]
      BY <2>4 DEF ReadEvents
    <3>2. some \in [EventNames -> Nat \cup {Never}]
      BY DEF EventsUpTo, TypeOK, Never
    <3>3. [h[x] EXCEPT !.events = some, !.awaited = @ \ {"events"}] \in Request
      BY <2>1, <3>2 DEF Request
    <3> QED BY <1>1, <3>1, <3>3 DEF TypeOK
  <2>5. CASE ListLogs(x)
    <3>1. PICK some \in SUBSET Pods :
            h' = [h EXCEPT ![x].listed = some, ![x].todo = some,
                           ![x].awaited = IF some = {} THEN @ \ {"logs"} ELSE @]
      BY <2>5 DEF ListLogs
    <3>2. [h[x] EXCEPT !.listed = some, !.todo = some,
                       !.awaited = IF some = {} THEN @ \ {"logs"} ELSE @] \in Request
      BY <2>1 DEF Request
    <3> QED BY <1>1, <3>1, <3>2 DEF TypeOK
  <2>6. ASSUME NEW p \in Pods, ReadLog(x, p)
        PROVE  TypeOK'
    <3>1. PICK log \in LogsUpTo(now) :
            h' = [h EXCEPT ![x].logs[p] = [log |-> log, at |-> now], ![x].todo = @ \ {p},
                           ![x].lines[p] = Answered(log, now, h[x].since),
                           ![x].awaited = IF h[x].todo = {p} THEN @ \ {"logs"} ELSE @]
      BY <2>6 DEF ReadLog
    <3>2. [log |-> log, at |-> now] \in Reading
      BY LogsAreLogs DEF TypeOK, Reading
    <3>3. Answered(log, now, h[x].since) \in SUBSET Nat
      <4>1. log \in Seq(Nat)
        BY LogsAreLogs DEF TypeOK, Log
      <4> QED BY <4>1 DEF Answered
    <3>4. [h[x] EXCEPT !.logs[p] = [log |-> log, at |-> now], !.todo = @ \ {p},
                       !.lines[p] = Answered(log, now, h[x].since),
                       !.awaited = IF h[x].todo = {p} THEN @ \ {"logs"} ELSE @] \in Request
      BY <2>1, <3>2, <3>3 DEF Request
    <3> QED BY <1>1, <3>1, <3>4 DEF TypeOK
  <2>7. ASSUME NEW source \in Cluster, CollectRaises(x, source)
        PROVE  TypeOK'
    <3>1. [h[x] EXCEPT !.raised = @ \cup {source}, !.awaited = @ \ {source}] \in Request
      BY <2>1 DEF Request
    <3> QED BY <1>1, <2>7, <3>1 DEF TypeOK, CollectRaises
  <2> QED BY <1>4, <2>2, <2>3, <2>4, <2>5, <2>6, <2>7 DEF Collect
<1>5. ASSUME NEW x \in Requests, Finish(x)
      PROVE  TypeOK'
  <2>1. h[x] \in Request
    BY DEF TypeOK
  <2>2. /\ EventsWithin(h[x]) \in SUBSET EventNames
        /\ [p \in Pods |-> LinesWithin(h[x], p)] \in [Pods -> SUBSET Nat]
        /\ EvidenceStatus(h[x]) \in Status
    BY <2>1 DEF Request, EventsWithin, LinesWithin, EvidenceStatus, Status
  <2>3. /\ [h[x] EXCEPT !.pc = IF h[x].store THEN "stored" ELSE "returned",
                        !.shown = EventsWithin(h[x]),
                        !.lines = [p \in Pods |-> LinesWithin(h[x], p)],
                        !.status = EvidenceStatus(h[x])] \in Request
        /\ [h[x] EXCEPT !.pc = "failed"] \in Request
    BY <2>1, <2>2 DEF Request
  <2>4. CASE h' = [h EXCEPT ![x].pc = IF h[x].store THEN "stored" ELSE "returned",
                            ![x].shown = EventsWithin(h[x]),
                            ![x].lines = [p \in Pods |-> LinesWithin(h[x], p)],
                            ![x].status = EvidenceStatus(h[x])]
    BY <1>1, <2>3, <2>4 DEF TypeOK
  <2>5. CASE h' = [h EXCEPT ![x].pc = "failed"]
    BY <1>1, <2>3, <2>5 DEF TypeOK
  <2> QED BY <1>5, <2>4, <2>5 DEF Finish
<1>6. CASE Tick \/ UNCHANGED vars
  BY <1>1, <1>6 DEF TypeOK, Tick, vars
<1> QED BY <1>3, <1>4, <1>5, <1>6 DEF Next

\* The clock, the requests, what they have read and what is left of it keep their types
\* (EvidenceService, for any window a query can ask for).
THEOREM TypeCorrect == Spec => []TypeOK
<1> QED BY InitType, NextType, PTL DEF Spec

-----------------------------------------------------------------------------
(* What a request shows.  While it reads, the lines it asks for reach back *)
(* from its collection to the start of the window, each log it has read    *)
(* was read after the collection, and nothing of it is missing but what    *)
(* the API server left out; so what is cut from it, once everything has    *)
(* answered, is what is outside the window.                                *)

LogRead(r, p) ==
  /\ r.at <= r.logs[p].at
  /\ r.lines[p] = Answered(r.logs[p].log, r.logs[p].at, r.since)

Reads(r, t) ==
  r.pc = "reading" =>
     /\ r.at <= t
     /\ r.at - r.start <= r.since * TicksPerSecond
     /\ "logs" \notin r.awaited /\ "logs" \notin r.raised => r.todo = {}
     /\ "logs" \notin r.raised => \A p \in r.listed \ r.todo : LogRead(r, p)

Shows(r) ==
  Collected(r) =>
     /\ "events" \notin r.raised => EventsOfWindow(r)
     /\ "logs" \notin r.raised => \A p \in r.listed : LinesOfWindow(r, p)

IInv == TypeOK /\ \A x \in Requests : Reads(h[x], now) /\ Shows(h[x])

\* The events within the window by their whole second are those of the window.
LEMMA EventsCut ==
  ASSUME NEW r \in Request, r.shown = EventsWithin(r)
  PROVE  EventsOfWindow(r)
<1> SUFFICES ASSUME NEW e \in EventNames, r.events[e] # Never
             PROVE  /\ e \in r.shown => r.start <= r.events[e] /\ r.events[e] < r.end + TicksPerSecond
                    /\ r.start + TicksPerSecond <= r.events[e] /\ r.events[e] <= r.end => e \in r.shown
  BY Zenon DEF EventsOfWindow
<1> DEFINE t == r.events[e]
           w == WholeSecond(t)
<1>1. t \in Nat
  BY DEF Request
<1>2. w \in Int /\ t - TicksPerSecond < w /\ w <= t
  BY <1>1, Divided DEF WholeSecond
<1>3. e \in r.shown <=> r.start <= w /\ w <= r.end
  <2>1. r.start \in Int /\ r.end \in Int
    BY DEF Request
  <2> QED BY <2>1, <1>2 DEF EventsWithin, Within
<1>4. r.start \in Int /\ r.end \in Int /\ TicksPerSecond \in Int
  BY SnapshotsAssumption DEF Request
<1> HIDE DEF t, w
<1>5. /\ e \in r.shown => r.start <= t /\ t < r.end + TicksPerSecond
      /\ r.start + TicksPerSecond <= t /\ t <= r.end => e \in r.shown
  BY <1>1, <1>2, <1>3, <1>4
<1> QED BY <1>5 DEF t

\* The lines within the window, of those the API server answered with after the collection,
\* are those of the window but the oldest and those followed by many.
LEMMA LinesCut ==
  ASSUME NEW r \in Request, NEW s \in Request, NEW p \in Pods, LogRead(r, p),
         r.at - r.start <= r.since * TicksPerSecond,
         s.at = r.at, s.start = r.start, s.end = r.end, s.logs = r.logs,
         s.lines[p] = LinesWithin(r, p)
  PROVE  LinesOfWindow(s, p)
<1> DEFINE log == r.logs[p].log
           a == r.logs[p].at
           k == r.since * TicksPerSecond
<1>1. log \in Seq(Nat) /\ a \in Nat
  BY DEF Request, Reading, Log
<1>2. r.start \in Int /\ r.end \in Int /\ r.at \in Nat /\ r.since \in Nat
  BY DEF Request
<1>3. k \in Nat
  BY <1>2, SnapshotsAssumption
<1>4. r.at <= a /\ r.at - r.start <= k
  BY DEF LogRead
<1> SUFFICES ASSUME NEW i \in DOMAIN log
             PROVE  /\ i \in s.lines[p] => r.start <= log[i] /\ log[i] <= r.end
                    /\ /\ r.start + (a - r.at) <= log[i] /\ log[i] <= r.end
                       /\ Len(log) - i < TailLines
                       => i \in s.lines[p]
  BY DEF LinesOfWindow
<1>5. log[i] \in Nat
  BY <1>1
<1>6. i \in s.lines[p] <=> i \in r.lines[p] /\ log[i] >= r.start /\ log[i] <= r.end
  BY DEF LinesWithin, Within
<1>7. i \in r.lines[p] <=> Len(log) - i < TailLines /\ log[i] >= a - k
  BY DEF LogRead, Answered
<1> DEFINE t == log[i]
           d == Len(log) - i
<1> HIDE DEF k, a, t, d
<1> QED BY <1>1, <1>2, <1>3, <1>4, <1>5, <1>6, <1>7 DEF t, d

LEMMA InitInv == Init => IInv
<1> SUFFICES ASSUME Init PROVE \A x \in Requests : Reads(h[x], now) /\ Shows(h[x])
  BY InitType DEF IInv
<1> QED BY DEF Init, New, Reads, Shows, Collected

\* What a request that begins has asked for reaches its window.
LEMMA BegunReads ==
  ASSUME NEW t \in Nat, NEW store \in BOOLEAN, NEW row \in Status, NEW asked \in Triggers,
         NEW lookback \in Minutes, NEW lookahead \in Minutes
  PROVE  LET r == Begun(store, row, asked, lookback, lookahead, t)
         IN  Reads(r, t) /\ Shows(r)
<1> DEFINE trigger == IF asked = NoTrigger THEN t ELSE asked
           start == WindowStart(trigger, lookback)
           end == WindowEnd(trigger, lookahead, t)
           since == SecondsBetween(start, t)
           r == Begun(store, row, asked, lookback, lookahead, t)
<1>1. start \in Int
  BY WindowTyped
<1>2. t - start <= since * TicksPerSecond
  <2>1. t \in Int
    OBVIOUS
  <2> HIDE DEF start
  <2> QED BY <1>1, <2>1, SecondsReach
<1>3. r = [New EXCEPT !.pc = "reading", !.store = store, !.row = row, !.at = t, !.start = start,
                      !.end = end, !.since = since, !.awaited = Sources]
  BY DEF Begun
<1> HIDE DEF start, end, since, r
<1>4. /\ r.pc = "reading" /\ r.at = t /\ r.start = start /\ r.since = since
      /\ r.awaited = Sources /\ r.raised = {} /\ r.listed = {}
  BY <1>3 DEF New
<1>5. "logs" \in Sources
  BY DEF Sources, Cluster
<1>6. Reads(r, t)
  BY <1>2, <1>4, <1>5 DEF Reads
<1>7. Shows(r)
  BY <1>4 DEF Shows, Collected
<1> QED BY <1>6, <1>7 DEF r

LEMMA NextInv == IInv /\ [Next]_vars => IInv'
<1> SUFFICES ASSUME IInv, [Next]_vars PROVE IInv'
  OBVIOUS
<1>1. TypeOK /\ TypeOK'
  BY NextType DEF IInv
<1>2. now \in Nat
  BY <1>1 DEF TypeOK
\* A step of one request changes that one.
<1>3. ASSUME NEW x \in Requests, NEW r, h' = [h EXCEPT ![x] = r], now' = now,
             Reads(r, now), Shows(r)
      PROVE  IInv'
  <2>1. \A y \in Requests : h'[y] = IF y = x THEN r ELSE h[y]
    BY <1>1, <1>3 DEF TypeOK
  <2>2. \A y \in Requests : Reads(h'[y], now) /\ Shows(h'[y])
    BY <1>3, <2>1 DEF IInv
  <2> QED BY <1>1, <1>3, <2>2 DEF IInv
\* A request that has failed shows nothing.
<1>4. ASSUME NEW x \in Requests, h' = [h EXCEPT ![x].pc = "failed"], now' = now
      PROVE  IInv'
  <2>1. h[x] \in Request
    BY <1>1 DEF TypeOK
  <2> DEFINE r == [h[x] EXCEPT !.pc = "failed"]
  <2>2. r.pc = "failed"
    BY <2>1 DEF Request
  <2>3. h' = [h EXCEPT ![x] = r]
    BY <1>4
  <2> HIDE DEF r
  <2>4. Reads(r, now) /\ Shows(r)
    BY <2>2 DEF Reads, Shows, Collected
  <2> QED BY <1>3, <1>4, <2>3, <2>4
\* A request that is still reading shows nothing yet.
<1>5. ASSUME NEW x \in Requests, NEW r, h[x].pc = "reading", r.pc = "reading",
             r.at = h[x].at, r.start = h[x].start, r.since = h[x].since,
             h' = [h EXCEPT ![x] = r], now' = now,
             "logs" \notin r.awaited /\ "logs" \notin r.raised => r.todo = {},
             "logs" \notin r.raised => \A p \in r.listed \ r.todo : LogRead(r, p)
      PROVE  IInv'
  <2>1. Reads(r, now)
    BY <1>5 DEF IInv, Reads
  <2>2. Shows(r)
    BY <1>5 DEF Shows, Collected
  <2> QED BY <1>3, <1>5, <2>1, <2>2
<1>6. ASSUME NEW x \in Requests, Begin(x)
      PROVE  IInv'
  <2>1. now' = now
    BY <1>6 DEF Begin
  <2>2. ASSUME NEW store \in BOOLEAN, NEW row \in Status, NEW asked \in Triggers,
               NEW lookback \in Minutes, NEW lookahead \in Minutes,
               h' = [h EXCEPT ![x] = Begun(store, row, asked, lookback, lookahead, now)]
        PROVE  IInv'
    <3>1. /\ Reads(Begun(store, row, asked, lookback, lookahead, now), now)
          /\ Shows(Begun(store, row, asked, lookback, lookahead, now))
      BY <1>2, BegunReads
    <3> QED BY <1>3, <2>1, <2>2, <3>1
  <2> QED BY <1>4, <1>6, <2>1, <2>2 DEF Begin
<1>7. ASSUME NEW x \in Requests, Collect(x)
      PROVE  IInv'
  <2>1. h[x] \in Request /\ Reads(h[x], now)
    BY <1>1 DEF IInv, TypeOK
  \* An answer that leaves the logs alone.
  <2>2. ASSUME NEW r, NEW source \in Sources \ {"logs"}, Awaits(x, source),
               h' = [h EXCEPT ![x] = r], now' = now,
               r.pc = h[x].pc, r.at = h[x].at, r.start = h[x].start, r.since = h[x].since,
               r.listed = h[x].listed, r.todo = h[x].todo, r.logs = h[x].logs,
               r.lines = h[x].lines, r.awaited = h[x].awaited \ {source},
               r.raised \in {h[x].raised, h[x].raised \cup {source}}
        PROVE  IInv'
    <3>1. h[x].pc = "reading"
      BY <2>2 DEF Awaits
    <3>2. /\ "logs" \in r.awaited <=> "logs" \in h[x].awaited
          /\ "logs" \in r.raised <=> "logs" \in h[x].raised
      BY <2>2
    <3>3. \A p \in Pods : LogRead(h[x], p) => LogRead(r, p)
      BY <2>2 DEF LogRead
    <3>4. h[x].listed \subseteq Pods
      BY <2>1 DEF Request
    <3> QED BY <1>5, <2>1, <2>2, <3>1, <3>2, <3>3, <3>4 DEF Reads
  <2>3. CASE ReadStatus(x)
    <3>1. PICK ready \in BOOLEAN : h' = [h EXCEPT ![x].ready = ready, ![x].awaited = @ \ {"status"}]
      BY <2>3 DEF ReadStatus
    <3> DEFINE r == [h[x] EXCEPT !.ready = ready, !.awaited = @ \ {"status"}]
    <3>2. h' = [h EXCEPT ![x] = r] /\ now' = now /\ Awaits(x, "status")
      BY <1>1, <2>3, <3>1 DEF TypeOK, ReadStatus
    <3>3. "status" \in Sources \ {"logs"}
      BY DEF Sources, Cluster
    <3>4. /\ r.pc = h[x].pc /\ r.at = h[x].at /\ r.start = h[x].start /\ r.since = h[x].since
          /\ r.listed = h[x].listed /\ r.todo = h[x].todo /\ r.logs = h[x].logs
          /\ r.lines = h[x].lines /\ r.awaited = h[x].awaited \ {"status"}
          /\ r.raised \in {h[x].raised, h[x].raised \cup {"status"}}
      BY <2>1 DEF Request
    <3> HIDE DEF r
    <3> QED BY <2>2, <3>2, <3>3, <3>4
  <2>4. CASE ReadPods(x)
    <3> DEFINE r == [h[x] EXCEPT !.awaited = @ \ {"pods"}]
    <3>1. h' = [h EXCEPT ![x] = r] /\ now' = now /\ Awaits(x, "pods")
      BY <1>1, <2>4 DEF TypeOK, ReadPods
    <3>2. "pods" \in Sources \ {"logs"}
      BY DEF Sources, Cluster
    <3>3. /\ r.pc = h[x].pc /\ r.at = h[x].at /\ r.start = h[x].start /\ r.since = h[x].since
          /\ r.listed = h[x].listed /\ r.todo = h[x].todo /\ r.logs = h[x].logs
          /\ r.lines = h[x].lines /\ r.awaited = h[x].awaited \ {"pods"}
          /\ r.raised \in {h[x].raised, h[x].raised \cup {"pods"}}
      BY <2>1 DEF Request
    <3> HIDE DEF r
    <3> QED BY <2>2, <3>1, <3>2, <3>3
  <2>5. CASE ReadEvents(x)
    <3>1. PICK some \in EventsUpTo(now) :
            h' = [h EXCEPT ![x].events = some, ![x].awaited = @ \ {"events"}]
      BY <2>5 DEF ReadEvents
    <3> DEFINE r == [h[x] EXCEPT !.events = some, !.awaited = @ \ {"events"}]
    <3>2. h' = [h EXCEPT ![x] = r] /\ now' = now /\ Awaits(x, "events")
      BY <1>1, <2>5, <3>1 DEF TypeOK, ReadEvents
    <3>3. "events" \in Sources \ {"logs"}
      BY DEF Sources, Cluster
    <3>4. /\ r.pc = h[x].pc /\ r.at = h[x].at /\ r.start = h[x].start /\ r.since = h[x].since
          /\ r.listed = h[x].listed /\ r.todo = h[x].todo /\ r.logs = h[x].logs
          /\ r.lines = h[x].lines /\ r.awaited = h[x].awaited \ {"events"}
          /\ r.raised \in {h[x].raised, h[x].raised \cup {"events"}}
      BY <2>1 DEF Request
    <3> HIDE DEF r
    <3> QED BY <2>2, <3>2, <3>3, <3>4
  <2>6. CASE ReadSamples(x)
    <3>1. CASE h' = [h EXCEPT ![x].pc = "failed"]
      BY <1>4, <2>6, <3>1 DEF ReadSamples
    <3>2. CASE h' = [h EXCEPT ![x].awaited = @ \ {"samples"}]
      <4> DEFINE r == [h[x] EXCEPT !.awaited = @ \ {"samples"}]
      <4>1. h' = [h EXCEPT ![x] = r] /\ now' = now /\ Awaits(x, "samples")
        BY <1>1, <2>6, <3>2 DEF TypeOK, ReadSamples
      <4>2. "samples" \in Sources \ {"logs"}
        BY DEF Sources, Cluster
      <4>3. /\ r.pc = h[x].pc /\ r.at = h[x].at /\ r.start = h[x].start /\ r.since = h[x].since
            /\ r.listed = h[x].listed /\ r.todo = h[x].todo /\ r.logs = h[x].logs
            /\ r.lines = h[x].lines /\ r.awaited = h[x].awaited \ {"samples"}
            /\ r.raised \in {h[x].raised, h[x].raised \cup {"samples"}}
        BY <2>1 DEF Request
      <4> HIDE DEF r
      <4> QED BY <2>2, <4>1, <4>2, <4>3
    <3> QED BY <2>6, <3>1, <3>2 DEF ReadSamples
  <2>7. CASE ListLogs(x)
    <3>1. PICK some \in SUBSET Pods :
            h' = [h EXCEPT ![x].listed = some, ![x].todo = some,
                           ![x].awaited = IF some = {} THEN @ \ {"logs"} ELSE @]
      BY <2>7 DEF ListLogs
    <3> DEFINE r == [h[x] EXCEPT !.listed = some, !.todo = some,
                                 !.awaited = IF some = {} THEN @ \ {"logs"} ELSE @]
    <3>2. h' = [h EXCEPT ![x] = r] /\ now' = now /\ Awaits(x, "logs")
      BY <1>1, <2>7, <3>1 DEF TypeOK, ListLogs
    <3>3. /\ r.pc = h[x].pc /\ r.at = h[x].at /\ r.start = h[x].start /\ r.since = h[x].since
          /\ r.listed = some /\ r.todo = some
          /\ r.awaited = IF some = {} THEN h[x].awaited \ {"logs"} ELSE h[x].awaited
      BY <2>1 DEF Request
    <3> HIDE DEF r
    <3> QED BY <1>5, <3>2, <3>3 DEF Awaits
  <2>8. ASSUME NEW p \in Pods, ReadLog(x, p)
        PROVE  IInv'
    <3>1. PICK log \in LogsUpTo(now) :
            h' = [h EXCEPT ![x].logs[p] = [log |-> log, at |-> now], ![x].todo = @ \ {p},
                           ![x].lines[p] = Answered(log, now, h[x].since),
                           ![x].awaited = IF h[x].todo = {p} THEN @ \ {"logs"} ELSE @]
      BY <2>8 DEF ReadLog
    <3> DEFINE r == [h[x] EXCEPT !.logs[p] = [log |-> log, at |-> now], !.todo = @ \ {p},
                                 !.lines[p] = Answered(log, now, h[x].since),
                                 !.awaited = IF h[x].todo = {p} THEN @ \ {"logs"} ELSE @]
    <3>2. h' = [h EXCEPT ![x] = r] /\ now' = now /\ Awaits(x, "logs") /\ p \in h[x].todo
      <4>1. h' = [h EXCEPT ![x] = r]
        BY <3>1, Zenon
      <4> QED BY <2>8, <4>1 DEF ReadLog
    <3>3. /\ r.pc = h[x].pc /\ r.at = h[x].at /\ r.start = h[x].start /\ r.since = h[x].since
          /\ r.listed = h[x].listed /\ r.todo = h[x].todo \ {p} /\ r.raised = h[x].raised
          /\ r.awaited = IF h[x].todo = {p} THEN h[x].awaited \ {"logs"} ELSE h[x].awaited
          /\ r.logs = [h[x].logs EXCEPT ![p] = [log |-> log, at |-> now]]
          /\ r.lines = [h[x].lines EXCEPT ![p] = Answered(log, now, h[x].since)]
      BY <2>1 DEF Request
    <3>4. h[x].logs \in [Pods -> Reading] /\ h[x].lines \in [Pods -> SUBSET Nat] /\ h[x].listed \subseteq Pods
      BY <2>1 DEF Request
    <3> HIDE DEF r
    <3>5. h[x].pc = "reading" /\ "logs" \in h[x].awaited /\ h[x].at <= now
      BY <2>1, <3>2 DEF Awaits, Reads
    <3>6. LogRead(r, p)
      <4>1. r.logs[p] = [log |-> log, at |-> now] /\ r.lines[p] = Answered(log, now, h[x].since)
        BY <3>3, <3>4
      <4>2. r.logs[p].log = log /\ r.logs[p].at = now
        BY <4>1
      <4> QED BY <3>3, <3>5, <4>1, <4>2 DEF LogRead
    <3>7. \A q \in Pods : q # p /\ LogRead(h[x], q) => LogRead(r, q)
      BY <3>3, <3>4 DEF LogRead
    <3>8. "logs" \notin r.awaited => r.todo = {}
      BY <3>3, <3>5
    <3>9. "logs" \notin r.raised => \A q \in r.listed \ r.todo : LogRead(r, q)
      BY <2>1, <3>3, <3>4, <3>5, <3>6, <3>7 DEF Reads
    <3> QED BY <1>5, <3>2, <3>3, <3>5, <3>8, <3>9
  <2>9. ASSUME NEW source \in Cluster, CollectRaises(x, source)
        PROVE  IInv'
    <3> DEFINE r == [h[x] EXCEPT !.raised = @ \cup {source}, !.awaited = @ \ {source}]
    <3>1. h' = [h EXCEPT ![x] = r] /\ now' = now /\ Awaits(x, source)
      BY <1>1, <2>9 DEF TypeOK, CollectRaises
    <3>2. /\ r.pc = h[x].pc /\ r.at = h[x].at /\ r.start = h[x].start /\ r.since = h[x].since
          /\ r.listed = h[x].listed /\ r.todo = h[x].todo /\ r.logs = h[x].logs
          /\ r.lines = h[x].lines /\ r.awaited = h[x].awaited \ {source}
          /\ r.raised = h[x].raised \cup {source}
      BY <2>1 DEF Request
    <3> HIDE DEF r
    <3>3. CASE source = "logs"
      BY <1>5, <3>1, <3>2, <3>3 DEF Awaits
    <3>4. CASE source # "logs"
      <4>1. source \in Sources \ {"logs"}
        BY <3>4 DEF Sources
      <4> QED BY <2>2, <3>1, <3>2, <4>1
    <3> QED BY <3>3, <3>4
  <2> QED BY <1>7, <2>3, <2>4, <2>5, <2>6, <2>7, <2>8, <2>9 DEF Collect
<1>8. ASSUME NEW x \in Requests, Finish(x)
      PROVE  IInv'
  <2>1. h[x] \in Request /\ Reads(h[x], now) /\ now' = now /\ h[x].pc = "reading" /\ h[x].awaited = {}
    BY <1>1, <1>8 DEF IInv, TypeOK, Finish
  <2>2. CASE h' = [h EXCEPT ![x].pc = "failed"]
    BY <1>4, <2>1, <2>2
  <2>3. CASE h' = [h EXCEPT ![x].pc = IF h[x].store THEN "stored" ELSE "returned",
                            ![x].shown = EventsWithin(h[x]),
                            ![x].lines = [p \in Pods |-> LinesWithin(h[x], p)],
                            ![x].status = EvidenceStatus(h[x])]
    <3> DEFINE r == [h[x] EXCEPT !.pc = IF h[x].store THEN "stored" ELSE "returned",
                                 !.shown = EventsWithin(h[x]),
                                 !.lines = [p \in Pods |-> LinesWithin(h[x], p)],
                                 !.status = EvidenceStatus(h[x])]
    <3>1. h' = [h EXCEPT ![x] = r]
      BY <1>1, <2>3 DEF TypeOK
    <3>2. r \in Request
      BY <1>1, <3>1 DEF TypeOK
    <3>3. /\ r.pc \in {"stored", "returned"} /\ r.at = h[x].at /\ r.start = h[x].start
          /\ r.end = h[x].end /\ r.events = h[x].events /\ r.logs = h[x].logs
          /\ r.raised = h[x].raised /\ r.listed = h[x].listed
          /\ r.shown = EventsWithin(h[x]) /\ r.lines = [p \in Pods |-> LinesWithin(h[x], p)]
      BY <2>1 DEF Request
    <3> HIDE DEF r
    <3>4. EventsOfWindow(r)
      <4>1. EventsWithin(r) = EventsWithin(h[x])
        BY <3>3 DEF EventsWithin, Within
      <4> QED BY <3>2, <3>3, <4>1, EventsCut
    <3>5. ASSUME "logs" \notin r.raised, NEW p \in r.listed
          PROVE  LinesOfWindow(r, p)
      <4>1. p \in Pods
        BY <3>2, <3>5 DEF Request
      <4>2. LogRead(h[x], p) /\ h[x].at - h[x].start <= h[x].since * TicksPerSecond
        BY <2>1, <3>3, <3>5 DEF Reads
      <4>3. r.lines[p] = LinesWithin(h[x], p)
        BY <3>3, <4>1
      <4> QED BY <2>1, <3>2, <3>3, <4>1, <4>2, <4>3, LinesCut
    <3>6. Shows(r)
      BY <3>4, <3>5 DEF Shows
    <3>7. Reads(r, now)
      BY <3>3 DEF Reads
    <3> QED BY <1>3, <2>1, <3>1, <3>6, <3>7
  <2> QED BY <1>8, <2>2, <2>3 DEF Finish
<1>9. CASE Tick
  <2>1. now' = now + 1 /\ h' = h
    BY <1>9 DEF Tick
  <2>2. ASSUME NEW x \in Requests
        PROVE  Reads(h[x], now + 1)
    <3>1. Reads(h[x], now) /\ h[x].at \in Nat
      BY <1>1 DEF IInv, TypeOK, Request
    <3> DEFINE r == h[x]
    <3>2. r.at <= now => r.at <= now + 1
      BY <1>2, <3>1
    <3> HIDE DEF r
    <3>3. Reads(r, now) => Reads(r, now + 1)
      BY <3>2 DEF Reads
    <3> QED BY <3>1, <3>3 DEF r
  <2> QED BY <1>1, <2>1, <2>2 DEF IInv
<1>10. CASE UNCHANGED vars
  BY <1>1, <1>10 DEF IInv, vars
<1> QED BY <1>6, <1>7, <1>8, <1>9, <1>10 DEF Next

\* Evidence has the events and the lines of its window, although each source answers at a
\* time of its own and later than the window was fixed: every line and event left is of the
\* window, and what is missing is what the code gives up, an event of the first second, the
\* oldest lines by as much as the answer was late, and lines beyond the tail (collectLive,
\* secondsBetween, filterEventsByWindow, filterLogsByWindow).
THEOREM WindowShown == Spec => []EvidenceShowsWindow
<1>1. IInv => EvidenceShowsWindow
  BY DEF IInv, Shows, EvidenceShowsWindow
<1> QED BY <1>1, InitInv, NextInv, PTL DEF Spec
=============================================================================
