--------------------------- MODULE EvidenceProofs ---------------------------
(* Lemmas about Evidence for any window, limits and data: whole seconds, the *)
(* sequence that FlattenSeq makes of its parts, and the bundles of the tools *)
EXTENDS Evidence, WellFoundedInduction, SequenceTheorems, TLAPS

-----------------------------------------------------------------------------
(* Time *)

\* Dropping the fraction of a second takes less than a second.
LEMMA WholeSecondNear ==
  ASSUME NEW t \in Int
  PROVE  /\ WholeSecond(t) \in Int
         /\ t - TicksPerSecond < WholeSecond(t) /\ WholeSecond(t) <= t
<1>1. TicksPerSecond \in Int /\ TicksPerSecond > 0
  BY EvidenceAssumption
<1>2. /\ t \div TicksPerSecond \in Int /\ t % TicksPerSecond \in 0 .. TicksPerSecond - 1
      /\ t = TicksPerSecond * (t \div TicksPerSecond) + (t % TicksPerSecond)
  BY <1>1, SMTT(30)
<1> DEFINE q == t \div TicksPerSecond
           p == q * TicksPerSecond
           r == t % TicksPerSecond
<1>3. p \in Int /\ p = TicksPerSecond * q
  BY <1>1, <1>2
<1> HIDE DEF q, p, r
<1>4. t = p + r /\ r \in 0 .. TicksPerSecond - 1
  BY <1>2, <1>3 DEF q, r
<1>5. t - TicksPerSecond < p /\ p <= t
  BY <1>1, <1>3, <1>4
<1> QED BY <1>3, <1>5 DEF WholeSecond, p, q

\* Whole seconds keep the order of times, and zero.
LEMMA WholeSecondMonotone ==
  ASSUME NEW a \in Int, NEW b \in Int, a <= b
  PROVE  WholeSecond(a) <= WholeSecond(b)
<1> DEFINE T == TicksPerSecond
           q == a \div TicksPerSecond
           r == b \div TicksPerSecond
<1>1. T \in Nat /\ T > 0
  BY EvidenceAssumption
<1>2. q \in Int /\ r \in Int
  <2>1. \A t \in Int : t \div T \in Int
    BY <1>1, SMTT(30)
  <2> QED BY <2>1
<1>3. WholeSecond(a) = q * T /\ WholeSecond(b) = r * T
  BY DEF WholeSecond
<1>4. q * T <= a /\ b - T < r * T
  BY <1>3, WholeSecondNear
<1> HIDE DEF q, r, T
<1>5. q * T < r * T + T
  <2>1. q * T \in Int /\ r * T \in Int
    BY <1>1, <1>2
  <2> QED BY <1>1, <1>4, <2>1
<1>6. q <= r
  <2> SUFFICES ASSUME r + 1 <= q PROVE FALSE
    BY <1>2
  <2> DEFINE d == q - (r + 1)
  <2>1. d \in Nat /\ q = (r + 1) + d
    BY <1>2
  <2> HIDE DEF d
  <2>2. q * T = r * T + T + d * T
    BY <1>1, <1>2, <2>1
  <2>3. d * T \in Nat /\ r * T \in Int
    BY <1>1, <1>2, <2>1
  <2> QED BY <1>1, <1>5, <2>2, <2>3
<1>7. q * T <= r * T
  <2> DEFINE d == r - q
  <2>1. d \in Nat /\ r = q + d
    BY <1>2, <1>6
  <2> HIDE DEF d
  <2>2. r * T = q * T + d * T
    BY <1>1, <1>2, <2>1
  <2>3. d * T \in Nat /\ q * T \in Int
    BY <1>1, <1>2, <2>1
  <2> QED BY <2>2, <2>3
<1> QED BY <1>3, <1>7

\* A time that is not negative keeps no negative second.
LEMMA WholeSecondNat ==
  ASSUME NEW t \in Nat
  PROVE  WholeSecond(t) \in Nat
<1>1. TicksPerSecond \in Nat /\ TicksPerSecond > 0
  BY EvidenceAssumption
<1>2. 0 \div TicksPerSecond = 0
  BY <1>1, SMTT(30)
<1>3. WholeSecond(0) = 0
  BY <1>1, <1>2 DEF WholeSecond
<1>4. WholeSecond(0) <= WholeSecond(t) /\ WholeSecond(t) \in Int
  BY WholeSecondMonotone, WholeSecondNear
<1> QED BY <1>3, <1>4

\* A window is one of times that begins before the trigger, and ends after it when what is
\* looked at ahead is a second at least and the whole second of the request is not before it.
LEMMA WindowHolds ==
  ASSUME NEW trigger \in Nat, NEW now \in Nat
  PROVE  /\ Window(trigger, now) \in [trigger : Nat, start : Int, end : Nat]
         /\ Window(trigger, now).trigger = trigger
         /\ Window(trigger, now).start <= trigger
         /\ Lookahead >= TicksPerSecond /\ trigger <= WholeSecond(now)
              => trigger <= Window(trigger, now).end
<1> DEFINE last == IF trigger + Lookahead > now THEN now ELSE trigger + Lookahead
           w    == Window(trigger, now)
<1>1. Lookahead \in Nat /\ Lookback \in Nat /\ TicksPerSecond \in Nat
  BY EvidenceAssumption
<1>2. /\ w = [trigger |-> trigger, start |-> WholeSecond(trigger - Lookback), end |-> WholeSecond(last)]
      /\ last \in Nat
  BY <1>1 DEF Window
<1>3. WholeSecond(last) \in Nat
  <2> HIDE DEF last
  <2> QED BY <1>2, WholeSecondNat
<1>4. WholeSecond(trigger - Lookback) \in Int /\ WholeSecond(trigger - Lookback) <= trigger
  <2> DEFINE t == trigger - Lookback
  <2>1. t \in Int /\ t <= trigger
    BY <1>1
  <2> HIDE DEF t
  <2>2. WholeSecond(t) \in Int /\ WholeSecond(t) <= t
    BY <2>1, WholeSecondNear
  <2>3. WholeSecond(t) <= trigger
    BY <2>1, <2>2
  <2> QED BY <2>2, <2>3 DEF t
<1>5. ASSUME Lookahead >= TicksPerSecond, trigger <= WholeSecond(now)
      PROVE  trigger <= WholeSecond(last)
  <2>1. CASE last = now
    BY <1>5, <2>1
  <2>2. CASE last = trigger + Lookahead
    <3> HIDE DEF last
    <3>1. last - TicksPerSecond < WholeSecond(last)
      BY <1>2, WholeSecondNear
    <3> QED BY <1>1, <1>2, <1>3, <1>5, <2>2, <3>1
  <2> QED BY <2>1, <2>2
<1> HIDE DEF w, last
<1>6. /\ w \in [trigger : Nat, start : Int, end : Nat]
      /\ w.trigger = trigger /\ w.start = WholeSecond(trigger - Lookback) /\ w.end = WholeSecond(last)
  BY <1>2, <1>3, <1>4
<1>7. w.start <= trigger
  BY <1>4, <1>6
<1>8. Lookahead >= TicksPerSecond /\ trigger <= WholeSecond(now) => trigger <= w.end
  BY <1>5, <1>6
<1> QED BY <1>6, <1>7, <1>8 DEF w

-----------------------------------------------------------------------------
(* Induction over the parts of a sequence of sequences *)

\* Every set of numbers that is not empty has a least one.
LEMMA LeastNumber ==
  ASSUME NEW T \in SUBSET Nat, T # {}
  PROVE  \E n \in T : \A m \in T : n <= m
<1>1. \E n \in T : \A m \in T : ~(<<m, n>> \in OpToRel(<, Nat))
  BY NatLessThanWellFounded, WFMin
<1>2. PICK n \in T : \A m \in T : ~(<<m, n>> \in OpToRel(<, Nat))
  BY <1>1
<1>3. \A m \in T : ~(m < n)
  BY <1>2 DEF OpToRel
<1> QED BY <1>3

\* The recursive function of FlattenSeq.
Joined(seqs) ==
  CHOOSE f : f = [i \in 1 .. Len(seqs) |-> IF i = 1 THEN seqs[i] ELSE f[i - 1] \o seqs[i]]

\* FlattenSeq of any parts is its last value.
LEMMA FlattenIsJoined ==
  ASSUME NEW seqs, Len(seqs) # 0
  PROVE  FlattenSeq(seqs) = Joined(seqs)[Len(seqs)]
BY DEF FlattenSeq, Joined

\* f is that function for the first n parts.
PrefixJoin(seqs, n, f) ==
  f = [i \in 1 .. n |-> IF i = 1 THEN seqs[i] ELSE f[i - 1] \o seqs[i]]

\* There is such a function for any number of parts: the least number without one is neither
\* zero nor one more than another.
LEMMA Joins ==
  ASSUME NEW S, NEW seqs \in Seq(Seq(S)), NEW k \in Nat
  PROVE  \E f : PrefixJoin(seqs, k, f)
<1> DEFINE T == {n \in Nat : ~\E f : PrefixJoin(seqs, n, f)}
<1> SUFFICES ASSUME T # {} PROVE FALSE
  OBVIOUS
<1>1. PICK n \in T : \A m \in T : n <= m
  <2> HIDE DEF T
  <2>1. T \in SUBSET Nat
    BY DEF T
  <2> QED BY <2>1, LeastNumber
<1>2. n # 0
  <2>1. PrefixJoin(seqs, 0, <<>>)
    BY DEF PrefixJoin
  <2> QED BY <2>1, <1>1
<1>4. n \in Nat /\ n - 1 \in Nat /\ ~(n <= n - 1)
  BY <1>1, <1>2
<1>3. PICK f : PrefixJoin(seqs, n - 1, f)
  BY <1>1, <1>4, Zenon
<1> DEFINE g == [i \in 1 .. n |-> IF i = 1 THEN seqs[i] ELSE f[i - 1] \o seqs[i]]
<1>5. \A i \in 1 .. n - 1 : g[i] = f[i]
  <2> TAKE i \in 1 .. n - 1
  <2>1. i \in 1 .. n
    BY <1>4
  <2>2. f = [j \in 1 .. n - 1 |-> IF j = 1 THEN seqs[j] ELSE f[j - 1] \o seqs[j]]
    BY <1>3 DEF PrefixJoin
  <2>3. f[i] = IF i = 1 THEN seqs[i] ELSE f[i - 1] \o seqs[i]
    BY <2>2, Zenon
  <2> QED BY <2>1, <2>3, Zenon
<1>6. g = [i \in 1 .. n |-> IF i = 1 THEN seqs[i] ELSE g[i - 1] \o seqs[i]]
  <2>1. ASSUME NEW i \in 1 .. n, i # 1
        PROVE  g[i - 1] = f[i - 1]
    <3>1. i - 1 \in 1 .. n - 1
      BY <1>4, <2>1
    <3> QED BY <3>1, <1>5
  <2> QED BY <2>1, Zenon
<1>7. PrefixJoin(seqs, n, g)
  BY <1>6, Zenon DEF PrefixJoin
<1> QED BY <1>7, <1>1

\* All that is in the first n parts, and the first element of the first of them that has any.
Holds(seqs, n, s) ==
  /\ \A j \in DOMAIN s : \E k \in 1 .. n : \E i \in DOMAIN seqs[k] : seqs[k][i] = s[j]
  /\ \A k \in 1 .. n : \A i \in DOMAIN seqs[k] : \E j \in DOMAIN s : seqs[k][i] = s[j]
  /\ s # <<>> => \E k \in 1 .. n : /\ seqs[k] # <<>> /\ s[1] = seqs[k][1]
                                   /\ \A m \in 1 .. k - 1 : seqs[m] = <<>>

\* One more part joined is held too.
LEMMA HoldsStep ==
  ASSUME NEW S, NEW seqs \in Seq(Seq(S)), NEW n \in 1 .. Len(seqs) - 1, NEW s \in Seq(S),
         Holds(seqs, n, s)
  PROVE  Holds(seqs, n + 1, s \o seqs[n + 1])
<1> DEFINE t == seqs[n + 1]
           u == s \o t
<1>1. t \in Seq(S) /\ n + 1 \in 1 .. n + 1
  OBVIOUS
<1>2. \A k \in 1 .. n + 1 : k \in 1 .. n \/ k = n + 1
  OBVIOUS
<1>9. \A k \in 1 .. n : k \in 1 .. n + 1
  OBVIOUS
<1>3. /\ \A i \in DOMAIN s : i \in DOMAIN u /\ u[i] = s[i]
      /\ \A i \in DOMAIN t : \E j \in DOMAIN u : u[j] = t[i]
      /\ \A j \in DOMAIN u : j \in DOMAIN s \/ \E i \in DOMAIN t : u[j] = t[i]
      /\ s = <<>> => u = t
      /\ s # <<>> => 1 \in DOMAIN s
  <2> HIDE DEF t
  <2>1. \A i \in DOMAIN s : i \in DOMAIN u /\ u[i] = s[i]
    BY <1>1
  <2>2. \A i \in DOMAIN t : i + Len(s) \in DOMAIN u /\ u[i + Len(s)] = t[i]
    BY <1>1
  <2>3. \A j \in DOMAIN u : j \in DOMAIN s \/ (j - Len(s) \in DOMAIN t /\ u[j] = t[j - Len(s)])
    BY <1>1
  <2>4. s = <<>> => u = t
    BY <1>1, ConcatEmptySeq
  <2>5. s # <<>> => 1 \in DOMAIN s
    OBVIOUS
  <2> HIDE DEF u
  <2> QED BY <2>1, <2>2, <2>3, <2>4, <2>5, Zenon
<1>7. /\ \A j \in DOMAIN s : \E k \in 1 .. n : \E i \in DOMAIN seqs[k] : seqs[k][i] = s[j]
      /\ \A k \in 1 .. n : \A i \in DOMAIN seqs[k] : \E j \in DOMAIN s : seqs[k][i] = s[j]
      /\ s # <<>> => \E k \in 1 .. n : /\ seqs[k] # <<>> /\ s[1] = seqs[k][1]
                                       /\ \A m \in 1 .. k - 1 : seqs[m] = <<>>
  BY DEF Holds
<1>8. t = seqs[n + 1]
  OBVIOUS
<1> HIDE DEF t, u
<1>4. \A j \in DOMAIN u : \E k \in 1 .. n + 1 : \E i \in DOMAIN seqs[k] : seqs[k][i] = u[j]
  <2> TAKE j \in DOMAIN u
  <2>1. CASE j \in DOMAIN s
    <3>1. u[j] = s[j]
      BY <2>1, <1>3, Zenon
    <3>2. PICK k \in 1 .. n : \E i \in DOMAIN seqs[k] : seqs[k][i] = s[j]
      BY <2>1, <1>7, Zenon
    <3> QED BY <3>1, <3>2, <1>9, Zenon
  <2>2. CASE \E i \in DOMAIN t : u[j] = t[i]
    <3>1. \E i \in DOMAIN seqs[n + 1] : seqs[n + 1][i] = u[j]
      BY <2>2, <1>8, Zenon
    <3> QED BY <3>1, <1>1, Zenon
  <2> QED BY <2>1, <2>2, <1>3, Zenon
<1>5. \A k \in 1 .. n + 1 : \A i \in DOMAIN seqs[k] : \E j \in DOMAIN u : seqs[k][i] = u[j]
  <2> TAKE k \in 1 .. n + 1
  <2> TAKE i \in DOMAIN seqs[k]
  <2>1. CASE k \in 1 .. n
    <3>1. PICK j \in DOMAIN s : seqs[k][i] = s[j]
      BY <2>1, <1>7, Zenon
    <3> QED BY <3>1, <1>3, Zenon
  <2>2. CASE k = n + 1
    <3>1. i \in DOMAIN t /\ seqs[k][i] = t[i]
      BY <2>2, <1>8
    <3> QED BY <3>1, <1>3, Zenon
  <2> QED BY <2>1, <2>2, <1>2
<1>6. ASSUME u # <<>>
      PROVE  \E k \in 1 .. n + 1 : /\ seqs[k] # <<>> /\ u[1] = seqs[k][1]
                                   /\ \A m \in 1 .. k - 1 : seqs[m] = <<>>
  <2>1. CASE s # <<>>
    <3>1. u[1] = s[1]
      BY <2>1, <1>3
    <3> QED BY <3>1, <2>1, <1>7, <1>9, Zenon
  <2>2. CASE s = <<>>
    <3>1. u = t /\ t # <<>>
      BY <2>2, <1>3, <1>6
    <3>2. \A m \in 1 .. n : seqs[m] = <<>>
      <4> TAKE m \in 1 .. n
      <4> DEFINE part == seqs[m]
      <4>1. \A i \in DOMAIN part : FALSE
        BY <1>7, <2>2
      <4>2. part \in Seq(S)
        OBVIOUS
      <4> HIDE DEF part
      <4>3. part # <<>> => 1 \in DOMAIN part
        BY <4>2
      <4> QED BY <4>1, <4>3 DEF part
    <3>3. (n + 1) - 1 = n
      OBVIOUS
    <3> QED BY <3>1, <3>2, <3>3, <1>1, <1>8
  <2> QED BY <2>1, <2>2
<1> QED BY <1>4, <1>5, <1>6 DEF Holds, u, t

\* The function holds the first n parts at n.
LEMMA JoinedHolds ==
  ASSUME NEW S, NEW seqs \in Seq(Seq(S)), seqs # <<>>
  PROVE  \A n \in 1 .. Len(seqs) : Joined(seqs)[n] \in Seq(S) /\ Holds(seqs, n, Joined(seqs)[n])
<1> DEFINE f == Joined(seqs)
           T == {n \in 1 .. Len(seqs) : ~(f[n] \in Seq(S) /\ Holds(seqs, n, f[n]))}
<1>1. PrefixJoin(seqs, Len(seqs), f)
  <2>1. \E g : PrefixJoin(seqs, Len(seqs), g)
    BY Joins
  <2> QED BY <2>1, Zenon DEF PrefixJoin, Joined
<1>2. \A n \in 1 .. Len(seqs) : f[n] = IF n = 1 THEN seqs[n] ELSE f[n - 1] \o seqs[n]
  <2> HIDE DEF f
  <2>1. f = [i \in 1 .. Len(seqs) |-> IF i = 1 THEN seqs[i] ELSE f[i - 1] \o seqs[i]]
    BY <1>1, Zenon DEF PrefixJoin
  <2> QED BY <2>1, Zenon
<1> SUFFICES ASSUME T # {} PROVE FALSE
  OBVIOUS
<1>3. PICK n \in T : \A m \in T : n <= m
  <2> HIDE DEF T
  <2>1. T \in SUBSET Nat
    BY DEF T
  <2> QED BY <2>1, LeastNumber
<1> HIDE DEF f
<1>4. n \in 1 .. Len(seqs) /\ ~(f[n] \in Seq(S) /\ Holds(seqs, n, f[n]))
  BY <1>3
<1>5. CASE n = 1
  <2>1. f[1] = seqs[1] /\ seqs[1] \in Seq(S)
    BY <1>2, <1>4, <1>5
  <2>2. Holds(seqs, 1, seqs[1])
    BY <2>1 DEF Holds
  <2> QED BY <2>1, <2>2, <1>4, <1>5
<1>6. CASE n # 1
  <2>1. n - 1 \in 1 .. Len(seqs) - 1 /\ (n - 1) + 1 = n /\ ~(n <= n - 1) /\ n - 1 \in 1 .. Len(seqs)
    BY <1>4, <1>6
  <2>2. f[n - 1] \in Seq(S) /\ Holds(seqs, n - 1, f[n - 1])
    BY <2>1, <1>3, Zenon
  <2>3. f[n] = f[n - 1] \o seqs[n] /\ seqs[n] \in Seq(S)
    <3>1. f[n] = f[n - 1] \o seqs[n]
      BY <1>2, <1>4, <1>6, Zenon
    <3>2. seqs[n] \in Seq(S)
      BY <1>4
    <3> QED BY <3>1, <3>2
  <2>4. Holds(seqs, (n - 1) + 1, f[n - 1] \o seqs[(n - 1) + 1])
    BY <2>1, <2>2, HoldsStep
  <2>5. Holds(seqs, n, f[n])
    BY <2>1, <2>3, <2>4
  <2>6. f[n] \in Seq(S)
    BY <2>2, <2>3
  <2> QED BY <2>5, <2>6, <1>4
<1> QED BY <1>5, <1>6

\* FlattenSeq holds what its parts hold, and begins as the first of them that is not empty.
LEMMA FlattenHolds ==
  ASSUME NEW S, NEW seqs \in Seq(Seq(S))
  PROVE  FlattenSeq(seqs) \in Seq(S) /\ Holds(seqs, Len(seqs), FlattenSeq(seqs))
<1>1. CASE seqs = <<>>
  <2>1. FlattenSeq(seqs) = <<>>
    BY <1>1 DEF FlattenSeq
  <2> QED BY <2>1, <1>1 DEF Holds
<1>2. CASE seqs # <<>>
  <2>1. Len(seqs) # 0 /\ Len(seqs) \in 1 .. Len(seqs)
    BY <1>2
  <2>2. FlattenSeq(seqs) = Joined(seqs)[Len(seqs)]
    BY <2>1, FlattenIsJoined
  <2> QED BY <1>2, <2>1, <2>2, JoinedHolds
<1> QED BY <1>1, <1>2

-----------------------------------------------------------------------------
(* Bundles *)

\* What is chosen of a sequence is of it, and nothing of the indexes is lost.
LEMMA ChosenHolds ==
  ASSUME NEW S, NEW s \in Seq(S), NEW I
  PROVE  /\ Chosen(s, I) \in Seq(S)
         /\ \A j \in DOMAIN Chosen(s, I) : \E i \in DOMAIN s : i \in I /\ Chosen(s, I)[j] = s[i]
         /\ \A i \in DOMAIN s : i \in I => \E j \in DOMAIN Chosen(s, I) : Chosen(s, I)[j] = s[i]
<1> DEFINE parts == [i \in DOMAIN s |-> IF i \in I THEN <<s[i]>> ELSE <<>>]
           all   == FlattenSeq(parts)
<1>1. parts \in Seq(Seq(S)) /\ Len(parts) = Len(s) /\ DOMAIN s = 1 .. Len(s)
  <2>1. \A i \in DOMAIN s : parts[i] \in Seq(S)
    OBVIOUS
  <2>2. DOMAIN s = 1 .. Len(s) /\ Len(s) \in Nat /\ DOMAIN parts = 1 .. Len(s)
    OBVIOUS
  <2>3. parts \in [1 .. Len(s) -> Seq(S)]
    BY <2>1, <2>2
  <2> HIDE DEF parts
  <2> QED BY <2>2, <2>3
<1>2. \A i \in DOMAIN s : parts[i] = IF i \in I THEN <<s[i]>> ELSE <<>>
  OBVIOUS
<1>3. Chosen(s, I) = all
  BY DEF Chosen
<1> HIDE DEF parts, all
<1>4. all \in Seq(S) /\ Holds(parts, Len(s), all)
  BY <1>1, FlattenHolds DEF all
<1>5. /\ \A j \in DOMAIN all : \E k \in DOMAIN s : \E i \in DOMAIN parts[k] : parts[k][i] = all[j]
      /\ \A k \in DOMAIN s : \A i \in DOMAIN parts[k] : \E j \in DOMAIN all : parts[k][i] = all[j]
  <2> DEFINE D == 1 .. Len(s)
  <2>1. /\ \A j \in DOMAIN all : \E k \in D : \E i \in DOMAIN parts[k] : parts[k][i] = all[j]
        /\ \A k \in D : \A i \in DOMAIN parts[k] : \E j \in DOMAIN all : parts[k][i] = all[j]
    BY <1>4, Zenon DEF Holds
  <2>2. D = DOMAIN s
    BY <1>1
  <2> HIDE DEF D
  <2> QED BY <2>1, <2>2
<1>6. ASSUME NEW j \in DOMAIN all
      PROVE  \E i \in DOMAIN s : i \in I /\ all[j] = s[i]
  <2>1. PICK k \in DOMAIN s : \E i \in DOMAIN parts[k] : parts[k][i] = all[j]
    BY <1>5
  <2>2. PICK i \in DOMAIN parts[k] : parts[k][i] = all[j]
    BY <2>1
  <2>3. k \in I
    <3>1. k \notin I => parts[k] = <<>>
      BY <1>2, Zenon
    <3>2. parts[k] # <<>>
      BY <2>2
    <3> QED BY <3>1, <3>2
  <2>4. parts[k] = <<s[k]>>
    BY <1>2, <2>3
  <2>5. all[j] = s[k]
    BY <2>2, <2>4
  <2> QED BY <2>3, <2>5
<1>7. ASSUME NEW i \in DOMAIN s, i \in I
      PROVE  \E j \in DOMAIN all : all[j] = s[i]
  <2>1. parts[i] = <<s[i]>>
    BY <1>2, <1>7
  <2>2. 1 \in DOMAIN parts[i] /\ parts[i][1] = s[i]
    BY <2>1
  <2> QED BY <2>2, <1>5
<1> QED BY <1>3, <1>4, <1>6, <1>7

\* What n candidates raise are signals.
LEMMA SignalsTyped ==
  ASSUME NEW n \in Nat, NEW c, DOMAIN c = 1 .. n, \A i \in 1 .. n : c[i][1] \in SignalNames
  PROVE  Signals(c) \in Seq(SignalNames)
<1> DEFINE names == [i \in DOMAIN c |-> c[i][1]]
           I == {i \in DOMAIN c : c[i][2]}
<1>1. names \in Seq(SignalNames)
  OBVIOUS
<1> HIDE DEF names
<1>2. Chosen(names, I) \in Seq(SignalNames)
  <2> HIDE DEF I
  <2> QED BY <1>1, ChosenHolds
<1> QED BY <1>2 DEF Signals, names, I

\* As many samples as there are, up to the limit.
LEMMA TrimTyped ==
  \A n \in Nat : /\ Trim(n, MaxSamples) \in 0 .. n /\ (n # 0 => Trim(n, MaxSamples) # 0)
                 /\ Trim(n, MaxLogLines) \in 0 .. n
BY EvidenceAssumption DEF Trim

\* The bundles.
BundleSet == [tool : AllTools, signals : Seq(SignalNames), samples : Nat, failed : BOOLEAN]

\* The bundles of a tool without candidates, with one, two or three.
LEMMA BundleTyped ==
  \A tool \in AllTools, n \in Nat, a, b, c \in SignalNames : \A p, q, r :
    /\ Bundle(tool, <<>>, n) \in BundleSet
    /\ Bundle(tool, << <<a, p>> >>, n) \in BundleSet
    /\ Bundle(tool, << <<a, p>>, <<b, q>> >>, n) \in BundleSet
    /\ Bundle(tool, << <<a, p>>, <<b, q>>, <<c, r>> >>, n) \in BundleSet
<1> TAKE tool \in AllTools, n \in Nat, a, b, c \in SignalNames
<1> TAKE p, q, r
<1>1. Trim(n, MaxSamples) \in Nat
  BY TrimTyped
<1>2. \A s : Signals(s) \in Seq(SignalNames) => Bundle(tool, s, n) \in BundleSet
  BY <1>1 DEF Bundle, BundleSet
<1>3. Signals(<<>>) \in Seq(SignalNames)
  <2> DEFINE s == <<>>
  <2>1. DOMAIN s = 1 .. 0 /\ \A i \in 1 .. 0 : s[i][1] \in SignalNames
    OBVIOUS
  <2> HIDE DEF s
  <2>2. Signals(s) \in Seq(SignalNames)
    BY <2>1, SignalsTyped
  <2> QED BY <2>2 DEF s
<1>4. Signals(<< <<a, p>> >>) \in Seq(SignalNames)
  <2> DEFINE s == << <<a, p>> >>
  <2>1. DOMAIN s = 1 .. 1 /\ \A i \in 1 .. 1 : s[i][1] \in SignalNames
    OBVIOUS
  <2> HIDE DEF s
  <2>2. Signals(s) \in Seq(SignalNames)
    BY <2>1, SignalsTyped
  <2> QED BY <2>2 DEF s
<1>5. Signals(<< <<a, p>>, <<b, q>> >>) \in Seq(SignalNames)
  <2> DEFINE s == << <<a, p>>, <<b, q>> >>
  <2>1. DOMAIN s = 1 .. 2 /\ \A i \in 1 .. 2 : s[i][1] \in SignalNames
    OBVIOUS
  <2> HIDE DEF s
  <2>2. Signals(s) \in Seq(SignalNames)
    BY <2>1, SignalsTyped
  <2> QED BY <2>2 DEF s
<1>6. Signals(<< <<a, p>>, <<b, q>>, <<c, r>> >>) \in Seq(SignalNames)
  <2> DEFINE s == << <<a, p>>, <<b, q>>, <<c, r>> >>
  <2>1. DOMAIN s = 1 .. 3 /\ \A i \in 1 .. 3 : s[i][1] \in SignalNames
    OBVIOUS
  <2> HIDE DEF s
  <2>2. Signals(s) \in Seq(SignalNames)
    BY <2>1, SignalsTyped
  <2> QED BY <2>2 DEF s
<1> QED BY <1>2, <1>3, <1>4, <1>5, <1>6, Zenon

\* The tools about the deployment itself.
LEMMA DeploymentBundles ==
  ASSUME NEW d, NEW k \in Nat
  PROVE  /\ DeploymentStatus(d) \in BundleSet
         /\ RuntimeConfigs(k) \in BundleSet /\ RecentChanges(k) \in BundleSet
<1>1. /\ {"get_deployment_status", "get_runtime_configs", "get_recent_changes"} \subseteq AllTools
      /\ {"ready_replicas_below_desired", "unavailable_replicas", "recent_changes_present"}
           \subseteq SignalNames
      /\ 1 \in Nat
  BY DEF AllTools, SignalNames
<1>2. DeploymentStatus(d) \in BundleSet
  BY <1>1, BundleTyped, Zenon DEF DeploymentStatus
<1>3. RuntimeConfigs(k) \in BundleSet
  BY <1>1, BundleTyped, Zenon DEF RuntimeConfigs
<1>4. RecentChanges(k) \in BundleSet
  BY <1>1, BundleTyped, Zenon DEF RecentChanges
<1> QED BY <1>2, <1>3, <1>4

\* The tools whose samples are what they read.
LEMMA ListBundles ==
  ASSUME NEW S, NEW s \in Seq(S)
  PROVE  /\ Pods(s) \in BundleSet /\ Events(s) \in BundleSet /\ Traces(s) \in BundleSet
         /\ HealthSamples(s) \in BundleSet
<1>1. /\ {"get_pods", "get_kubernetes_events", "get_traces", "get_health_samples"} \subseteq AllTools
      /\ {"containers_not_ready", "container_restarts_present", "kubernetes_warning_events",
          "slow_traces_present", "readiness_degraded", "restart_count_increased",
          "warning_events_present"} \subseteq SignalNames
      /\ 0 \in Nat /\ Len(s) \in Nat
  BY DEF AllTools, SignalNames
<1>2. Pods(s) \in BundleSet
  BY <1>1, BundleTyped, Zenon DEF Pods
<1>3. Events(s) \in BundleSet
  BY <1>1, BundleTyped, Zenon DEF Events
<1>4. Traces(s) \in BundleSet
  BY <1>1, BundleTyped, Zenon DEF Traces
<1>5. HealthSamples(s) \in BundleSet
  <2>1. CASE s = <<>>
    BY <1>1, <2>1, BundleTyped, Zenon DEF HealthSamples
  <2>2. CASE s # <<>>
    BY <1>1, <2>2, BundleTyped, Zenon DEF HealthSamples
  <2> QED BY <2>1, <2>2
<1> QED BY <1>2, <1>3, <1>4, <1>5

\* The logs, of the lines that are not blank.
LEMMA LogBundle ==
  ASSUME NEW S, NEW lines \in Seq(S)
  PROVE  Logs(lines) \in BundleSet
<1> DEFINE kept == Chosen(lines, {i \in DOMAIN lines : lines[i] # "blank"})
           n    == Trim(Len(kept), MaxLogLines)
           read == SubSeq(kept, 1, n)
           c    == << <<"log_errors_present", \E i \in DOMAIN read : read[i] = "error">>,
                      <<"stack_traces_present", \E i \in DOMAIN read : read[i] = "trace">> >>
<1>1. kept \in Seq(S)
  BY ChosenHolds
<1> HIDE DEF kept
<1>2. n \in 0 .. Len(kept)
  <2>1. Len(kept) \in Nat
    BY <1>1
  <2> QED BY <2>1, TrimTyped, Zenon
<1> HIDE DEF n
<1>3. Len(read) \in Nat
  BY <1>1, <1>2
<1> HIDE DEF read
<1>4. Signals(c) \in Seq(SignalNames)
  <2>1. DOMAIN c = 1 .. 2 /\ \A i \in 1 .. 2 : c[i][1] \in SignalNames
    BY DEF SignalNames
  <2> HIDE DEF c
  <2> QED BY <2>1, SignalsTyped
<1>5. Logs(lines) = [tool |-> "get_logs", signals |-> Signals(c), samples |-> Len(read), failed |-> FALSE]
  BY Zenon DEF Logs, kept, n, read
<1> QED BY <1>3, <1>4, <1>5 DEF BundleSet, AllTools

\* The metrics, one candidate for each series that has values.
LEMMA MetricBundle ==
  ASSUME NEW S, NEW series \in Seq(S)
  PROVE  Metrics(series) \in BundleSet
<1> DEFINE known  == Chosen(series, {i \in DOMAIN series : series[i] # <<>>})
           Top(v) == CHOOSE m \in ToSet(v) : \A k \in ToSet(v) : m >= k
           Sum(v) == FoldSeq(LAMBDA x, y : x + y, 0, v)
           c      == [i \in DOMAIN known |->
                        <<"metric_spike",
                          Top(known[i]) > 0 /\ Top(known[i]) * Len(known[i]) > 2 * Sum(known[i])>>]
<1>1. known \in Seq(S)
  BY ChosenHolds
<1>2. Metrics(series) = Bundle("get_metrics", c, Len(known))
  BY Zenon DEF Metrics
<1> HIDE DEF known, Top, Sum
<1>3. Len(known) \in Nat /\ DOMAIN c = 1 .. Len(known)
  BY <1>1
<1>4. \A i \in 1 .. Len(known) : c[i][1] \in SignalNames
  <2> TAKE i \in 1 .. Len(known)
  <2>1. c[i] = <<"metric_spike",
                 Top(known[i]) > 0 /\ Top(known[i]) * Len(known[i]) > 2 * Sum(known[i])>>
    BY <1>3, Zenon
  <2>2. \A p : <<"metric_spike", p>>[1] = "metric_spike"
    OBVIOUS
  <2> HIDE DEF c
  <2>3. c[i][1] = "metric_spike"
    BY <2>1, <2>2, Zenon
  <2> QED BY <2>3 DEF SignalNames
<1> HIDE DEF c
<1>5. Signals(c) \in Seq(SignalNames)
  BY <1>3, <1>4, SignalsTyped
<1>6. Trim(Len(known), MaxSamples) \in Nat
  <2>1. Trim(Len(known), MaxSamples) \in 0 .. Len(known)
    BY <1>3, TrimTyped, Zenon
  <2> QED BY <2>1
<1>7. Bundle("get_metrics", c, Len(known)) \in BundleSet
  BY <1>5, <1>6 DEF Bundle, BundleSet, AllTools
<1> QED BY <1>2, <1>7

\* The samples read are of those there are, and there is one when one lies in the window.
LEMMA SamplesInHolds ==
  ASSUME NEW S, NEW rows \in Seq(S), NEW w
  PROVE  /\ SamplesIn(rows, w) \in Seq(S)
         /\ (\E i \in DOMAIN rows : rows[i].at >= w.start /\ rows[i].at <= w.end)
              => SamplesIn(rows, w) # <<>>
<1> DEFINE I      == {i \in DOMAIN rows : rows[i].at >= w.start /\ rows[i].at <= w.end}
           inside == Chosen(rows, I)
           n      == Trim(Len(inside), MaxSamples)
           newest == Reverse(inside)
<1>1. inside \in Seq(S) /\ (I # {} => inside # <<>>)
  <2>0. \A i \in I : i \in DOMAIN rows
    OBVIOUS
  <2> HIDE DEF I
  <2>1. inside \in Seq(S) /\ \A i \in DOMAIN rows : i \in I => \E j \in DOMAIN inside : TRUE
    BY ChosenHolds
  <2> HIDE DEF inside
  <2>2. (\E j \in DOMAIN inside : TRUE) => inside # <<>>
    OBVIOUS
  <2> QED BY <2>0, <2>1, <2>2
<1>2. SamplesIn(rows, w) = SubSeq(newest, 1, n)
  BY Zenon DEF SamplesIn
<1>3. (\E i \in DOMAIN rows : rows[i].at >= w.start /\ rows[i].at <= w.end) => I # {}
  OBVIOUS
<1> HIDE DEF I, inside
<1>4. /\ Len(inside) \in Nat /\ (inside # <<>> => Len(inside) # 0)
      /\ n \in 0 .. Len(inside) /\ (Len(inside) # 0 => n # 0)
  <2>1. Len(inside) \in Nat /\ (inside # <<>> => Len(inside) # 0)
    BY <1>1
  <2> QED BY <2>1, TrimTyped, Zenon
<1>5. newest \in Seq(S) /\ Len(newest) = Len(inside)
  BY <1>1, <1>4 DEF Reverse
<1> HIDE DEF newest, n
<1>6. SubSeq(newest, 1, n) \in Seq(S) /\ Len(SubSeq(newest, 1, n)) = n
  BY <1>4, <1>5
<1>7. inside # <<>> => SubSeq(newest, 1, n) # <<>>
  BY <1>4, <1>6
<1> QED BY <1>1, <1>2, <1>3, <1>6, <1>7

\* A bundle of samples has some when any were read.
LEMMA SamplesCounted ==
  ASSUME NEW S, NEW s \in Seq(S), s # <<>>
  PROVE  HealthSamples(s).samples > 0
<1>1. HealthSamples(s).samples = Trim(Len(s), MaxSamples)
  BY DEF HealthSamples, Bundle
<1>2. Len(s) \in Nat /\ Len(s) # 0
  OBVIOUS
<1>3. Trim(Len(s), MaxSamples) \in 0 .. Len(s) /\ Trim(Len(s), MaxSamples) # 0
  BY <1>2, TrimTyped, Zenon
<1> QED BY <1>1, <1>2, <1>3
=============================================================================
