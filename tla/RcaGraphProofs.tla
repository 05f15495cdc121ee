--------------------------- MODULE RcaGraphProofs ---------------------------
(* Theorems about RcaGraph for any timeouts, life of the token, data and     *)
(* number of samples and failures.                                           *)
EXTENDS RcaGraph, EvidenceProofs, FiniteSetTheorems

USE DEF history

-----------------------------------------------------------------------------
(* Time *)

\* The token outlives three LLM calls that take their full time.
TokenOutlives == TokenLife >= 3 * LlmTimeout + TicksPerSecond

\* What n LLM calls may take.
Spent(n) == n * LlmTimeout

\* One more call takes one more timeout; up to three take no more than three.
LEMMA SpentStep ==
  /\ Spent(0) = 0
  /\ \A n \in Nat : Spent(n) \in Nat /\ Spent(n + 1) = Spent(n) + LlmTimeout
  /\ \A n \in 0 .. 3 : Spent(n) <= 3 * LlmTimeout
<1>1. LlmTimeout \in Nat
  BY RcaGraphAssumption
<1>2. \A n \in Nat : n * LlmTimeout \in Nat /\ (n + 1) * LlmTimeout = n * LlmTimeout + LlmTimeout
  BY <1>1
<1>3. \A n \in 0 .. 3 : n * LlmTimeout <= 3 * LlmTimeout
  <2> TAKE n \in 0 .. 3
  <2>1. n = 0 \/ n = 1 \/ n = 2 \/ n = 3
    OBVIOUS
  <2> QED BY <1>1, <2>1
<1> QED BY <1>1, <1>2, <1>3 DEF Spent

-----------------------------------------------------------------------------
(* The specialists still to come *)

Calls == Seq(Tools) \ {<<>>}

\* Each specialist has tools.
LEMMA AgentTools == \A agent \in Agent : ToolsOf(agent) \in Calls
<1>1. ToolsOf("kubernetes") \in Calls
  BY DEF ToolsOf, Calls, Tools, AllTools
<1>2. ToolsOf("changes_config") \in Calls
  BY DEF ToolsOf, Calls, Tools, AllTools
<1>3. ToolsOf("logs") \in Calls
  BY DEF ToolsOf, Calls, Tools, AllTools
<1>4. ToolsOf("metrics_traces") \in Calls
  BY DEF ToolsOf, Calls, Tools, AllTools
<1> QED BY <1>1, <1>2, <1>3, <1>4 DEF Agent

\* There are four specialists, each with tools, whatever terms occur.
LEMMA FourSpecialists ==
  ASSUME NEW terms \in SUBSET {"logs", "metrics_traces"}
  PROVE  LET agents == SelectSpecialists(terms)
         IN  /\ [i \in DOMAIN agents |-> ToolsOf(agents[i])] \in Seq(Calls)
             /\ Len([i \in DOMAIN agents |-> ToolsOf(agents[i])]) = 4
<1> DEFINE agents == SelectSpecialists(terms)
           calls == [i \in DOMAIN agents |-> ToolsOf(agents[i])]
<1>1. \A agent \in Agent : ToolsOf(agent) \in Calls
  BY AgentTools
<1>2. DOMAIN agents = 1 .. 4 /\ \A i \in 1 .. 4 : agents[i] \in Agent
  <2>1. \/ agents = <<"kubernetes", "changes_config">> \o <<"metrics_traces", "logs">>
        \/ agents = <<"kubernetes", "changes_config">> \o <<"logs", "metrics_traces">>
    BY DEF SelectSpecialists
  <2> HIDE DEF agents
  <2>2. CASE agents = <<"kubernetes", "changes_config">> \o <<"metrics_traces", "logs">>
    BY <2>2 DEF Agent
  <2>3. CASE agents = <<"kubernetes", "changes_config">> \o <<"logs", "metrics_traces">>
    BY <2>3 DEF Agent
  <2> QED BY <2>1, <2>2, <2>3
<1> HIDE DEF agents
<1>4. calls \in [1 .. 4 -> Calls]
  BY <1>1, <1>2
<1>5. calls \in Seq(Calls) /\ Len(calls) = 4
  BY <1>4
<1> QED BY <1>5 DEF agents

\* What the run is about: the token it was given, the specialists done and to come, and where
\* they stand.
ShapeInv ==
  /\ clock \in Nat /\ since \in Nat /\ opened \in Nat /\ expiry = Expiry(opened)
  /\ faults \in Nat
  /\ left \in Seq(Calls) /\ \E S : findings \in Seq(S)
  /\ pc \in {"initialize", "list", "context"} => left = <<>> /\ findings = <<>>
  /\ pc \in {"call", "built"} => left # <<>> /\ Len(left) + Len(findings) = 4
  /\ pc = "llm" => Len(left) + Len(findings) = 3

\* While the server answers at once and can encode its answers, all the time that has passed is that of LLM calls.
PromptInv ==
  ~slow /\ ~unencoded /\ faults = 0 =>
    /\ pc # "failed"
    /\ pc \in Requests => clock <= opened + Spent(Len(findings))
    /\ pc = "llm" => since <= opened + Spent(Len(findings)) /\ clock <= since + LlmTimeout

\* A run has spent nothing at first.
LEMMA InitPrompt == Init => ShapeInv /\ PromptInv
<1> SUFFICES ASSUME Init PROVE ShapeInv /\ PromptInv
  OBVIOUS
<1>1. TicksPerSecond \in Nat \ {0} /\ clock \in Nat
  BY EvidenceAssumption DEF Init
<1>2. <<>> \in Seq(Calls) /\ <<>> \in Seq({}) /\ Len(<<>>) = 0
  OBVIOUS
<1>3. ShapeInv
  BY <1>1, <1>2 DEF Init, ShapeInv
<1>4. PromptInv
  BY <1>1, <1>2, SpentStep DEF Init, PromptInv
<1> QED BY <1>3, <1>4

\* A request comes after at most three findings.
LEMMA FindingsLeft ==
  ASSUME ShapeInv, pc \in Requests
  PROVE  Len(findings) \in 0 .. 3
<1>1. Len(left) \in Nat /\ (left # <<>> => Len(left) # 0)
  BY DEF ShapeInv
<1>2. Len(findings) \in Nat /\ (findings = <<>> => Len(findings) = 0)
  <2>1. PICK S : findings \in Seq(S)
    BY DEF ShapeInv
  <2> QED BY <2>1
<1>3. CASE pc \in {"initialize", "list", "context"}
  BY <1>2, <1>3 DEF ShapeInv
<1>4. CASE pc \in {"call", "built"}
  <2>1. left # <<>> /\ Len(left) + Len(findings) = 4
    BY <1>4 DEF ShapeInv
  <2> DEFINE l == Len(left)
             f == Len(findings)
  <2>2. l \in Nat /\ f \in Nat /\ l # 0 /\ l + f = 4
    BY <1>1, <1>2, <2>1
  <2> HIDE DEF l, f
  <2>3. f \in 0 .. 3
    BY <2>2
  <2> QED BY <2>3 DEF f
<1> QED BY <1>3, <1>4 DEF Requests, Waiting

\* A request of a prompt run comes before the fourth LLM call: its token is valid.
LEMMA TokenIsValid ==
  ASSUME TokenOutlives, ShapeInv, PromptInv, ~slow, ~unencoded, faults = 0, pc \in Requests
  PROVE  TokenValid
<1>1. Len(findings) \in 0 .. 3
  BY FindingsLeft
<1>2. clock <= opened + Spent(Len(findings)) /\ Spent(Len(findings)) <= 3 * LlmTimeout
      /\ Spent(Len(findings)) \in Nat
  <2> DEFINE n == Len(findings)
  <2>1. clock <= opened + Spent(n)
    BY DEF PromptInv
  <2>2. n \in 0 .. 3 /\ n \in Nat
    BY <1>1
  <2> HIDE DEF n
  <2>3. Spent(n) <= 3 * LlmTimeout /\ Spent(n) \in Nat
    BY <2>2, SpentStep
  <2> QED BY <2>1, <2>3 DEF n
<1> DEFINE used == Spent(Len(findings))
<1> HIDE DEF used
<1>3. clock <= opened + used /\ used <= 3 * LlmTimeout /\ used \in Nat
  BY <1>2 DEF used
<1>4. /\ clock \in Nat /\ opened \in Nat /\ expiry = WholeSecond(opened + TokenLife)
      /\ TokenLife \in Nat /\ LlmTimeout \in Nat /\ TicksPerSecond \in Nat
  BY RcaGraphAssumption, EvidenceAssumption DEF ShapeInv, Expiry
<1>5. expiry \in Int /\ opened + TokenLife - TicksPerSecond < expiry
  BY <1>4, WholeSecondNear
<1> QED BY <1>3, <1>4, <1>5 DEF TokenOutlives, TokenValid

-----------------------------------------------------------------------------
(* The steps *)

\* A tool leaves the list: what is left has one specialist less or as many.
LEMMA ToolGoes ==
  ASSUME left \in Seq(Calls), left # <<>>
  PROVE  /\ Tail(left) \in Seq(Calls) /\ Len(Tail(left)) + 1 = Len(left)
         /\ LET rest == Tail(Head(left))
            IN  rest # <<>> => /\ <<rest>> \o Tail(left) \in Seq(Calls)
                               /\ <<rest>> \o Tail(left) # <<>>
                               /\ Len(<<rest>> \o Tail(left)) = Len(left)
<1> DEFINE rest == Tail(Head(left))
<1>1. /\ Head(left) \in Calls /\ Tail(left) \in Seq(Calls)
      /\ Len(Tail(left)) \in Nat /\ Len(Tail(left)) + 1 = Len(left)
  OBVIOUS
<1>2. rest \in Seq(Tools)
  BY <1>1 DEF Calls
<1>3. ASSUME rest # <<>>
      PROVE  /\ <<rest>> \o Tail(left) \in Seq(Calls)
             /\ <<rest>> \o Tail(left) # <<>>
             /\ Len(<<rest>> \o Tail(left)) = Len(left)
  <2>1. rest \in Calls
    BY <1>2, <1>3 DEF Calls
  <2> HIDE DEF rest
  <2>2. <<rest>> \in Seq(Calls) /\ Len(<<rest>>) = 1
    BY <2>1
  <2>3. <<rest>> \o Tail(left) \in Seq(Calls) /\ Len(<<rest>> \o Tail(left)) = 1 + Len(Tail(left))
    BY <1>1, <2>2, ConcatProperties
  <2>4. Len(<<rest>> \o Tail(left)) = Len(left) /\ Len(left) # 0
    BY <1>1, <2>3
  <2>5. Len(<<>>) = 0
    OBVIOUS
  <2> QED BY <2>3, <2>4, <2>5
<1> QED BY <1>1, <1>3

\* Append makes a sequence one longer.
LEMMA AppendLonger ==
  ASSUME NEW S, NEW s \in Seq(S), NEW e
  PROVE  /\ Append(s, e) \in Seq(S \cup {e})
         /\ Len(s) \in Nat /\ Len(Append(s, e)) = Len(s) + 1
<1>1. s \in Seq(S \cup {e}) /\ Len(s) \in Nat
  OBVIOUS
<1> QED BY <1>1, AppendProperties

\* Every step keeps ShapeInv.
LEMMA NextShape == ShapeInv /\ [Next]_vars => ShapeInv'
<1> SUFFICES ASSUME ShapeInv, [Next]_vars PROVE ShapeInv'
  OBVIOUS
<1> DEFINE S == CHOOSE T : findings \in Seq(T)
<1>0. findings \in Seq(S) /\ Len(findings) \in Nat
  <2>1. findings \in Seq(S)
    BY DEF ShapeInv
  <2> HIDE DEF S
  <2> QED BY <2>1
<1>e. /\ <<>> \in Seq(Calls) /\ <<>> \in Seq(S)
      /\ Len(<<>>) = 0 /\ Len(left) \in Nat
  BY DEF ShapeInv
<1> HIDE DEF S
<1>f. CASE Fail /\ UNCHANGED <<clock, opened, expiry>> /\ faults' \in Nat
  BY <1>f, <1>e DEF ShapeInv, Fail, Expiry
<1>1. CASE Connect
  <2>1. CASE Fail
    BY <1>f, <1>1, <2>1 DEF Connect, NoFault, ShapeInv, world
  <2>2. CASE ~Fail
    BY <1>1, <2>2 DEF Connect, NoFault, ShapeInv, world, Await, Expiry
  <2> QED BY <2>1, <2>2
<1>2. CASE LoadContext
  <2>1. CASE Fail
    BY <1>f, <1>2, <2>1 DEF LoadContext, NoFault, ShapeInv, world
  <2>2. CASE ~Fail
    <3>1. PICK terms \in SUBSET {"logs", "metrics_traces"} :
            left' = [i \in DOMAIN SelectSpecialists(terms) |-> ToolsOf(SelectSpecialists(terms)[i])]
      BY <1>2, <2>2 DEF LoadContext
    <3>2. left' \in Seq(Calls) /\ Len(left') = 4
      BY <3>1, FourSpecialists
    <3>3. left' # <<>>
      BY <3>2, <1>e
    <3>4. findings = <<>> /\ Len(findings) = 0
      BY <1>2, <1>e DEF LoadContext, ShapeInv
    <3>5. Len(left') + Len(findings') = 4 /\ findings' = findings /\ pc' = "call" /\ since' = clock
      BY <1>2, <2>2, <3>2, <3>4 DEF LoadContext, Await
    <3> QED BY <1>2, <2>2, <1>0, <3>2, <3>3, <3>5 DEF LoadContext, NoFault, ShapeInv, world, Expiry
  <2> QED BY <2>1, <2>2
<1>3. CASE BuildContext
  <2>1. CASE Fail
    BY <1>f, <1>3, <2>1 DEF BuildContext, NoFault, ShapeInv, world
  <2>2. CASE ~Fail
    BY <1>3, <2>2 DEF BuildContext, NoFault, ShapeInv, world, Expiry
  <2> QED BY <2>1, <2>2
<1>4. CASE Collect
  <2>1. left \in Seq(Calls) /\ left # <<>> /\ Len(left) + Len(findings) = 4 /\ findings' = findings
    BY <1>4 DEF Collect, ShapeInv
  <2>2. CASE Tail(Head(left)) = <<>>
    <3>1. left' = Tail(left) /\ pc' = "llm" /\ since' = clock
      BY <1>4, <2>2 DEF Collect, Await
    <3>2. left' \in Seq(Calls) /\ Len(left') + 1 = Len(left) /\ Len(left') \in Nat
      BY <2>1, <3>1, ToolGoes
    <3>3. Len(left') + Len(findings') = 3
      BY <1>0, <1>e, <2>1, <3>2
    <3> QED BY <1>4, <1>0, <2>1, <3>1, <3>2, <3>3 DEF Collect, NoFault, ShapeInv, world, Expiry
  <2>3. CASE Tail(Head(left)) # <<>>
    <3>1. left' = <<Tail(Head(left))>> \o Tail(left) /\ pc' = "call" /\ since' = clock
      BY <1>4, <2>3 DEF Collect, Await
    <3>2. left' \in Seq(Calls) /\ left' # <<>> /\ Len(left') = Len(left)
      BY <2>1, <2>3, <3>1, ToolGoes
    <3> QED BY <1>4, <1>0, <2>1, <3>1, <3>2 DEF Collect, NoFault, ShapeInv, world, Expiry
  <2> QED BY <2>2, <2>3
<1>5. CASE Summarize
  <2> DEFINE f == Finding(evidence)
  <2>1. findings' = Append(findings, f)
    BY <1>5 DEF Summarize
  <2> HIDE DEF f
  <2>2. findings' \in Seq(S \cup {f}) /\ Len(findings') = Len(findings) + 1
    BY <1>0, <2>1, AppendLonger
  <2>3. Len(left) + Len(findings) = 3 /\ left' = left
    BY <1>5 DEF Summarize, ShapeInv
  <2>4. Len(left') + Len(findings') = 4
    BY <1>0, <1>e, <2>2, <2>3
  <2>5. pc' = "done" \/ (pc' = "call" /\ left # <<>>)
    BY <1>5 DEF Summarize, Await
  <2>6. since' \in Nat
    BY <1>5 DEF Summarize, Await, ShapeInv
  <2>7. /\ clock' = clock /\ opened' = opened /\ expiry' = expiry /\ faults' = faults
    BY <1>5 DEF Summarize, NoFault, world
  <2> QED BY <2>2, <2>3, <2>4, <2>5, <2>6, <2>7 DEF ShapeInv, Expiry
<1>12. CASE AnswerEmpty
  BY <1>f, <1>12 DEF AnswerEmpty, ShapeInv, world
<1>6. CASE Raises
  BY <1>f, <1>6 DEF Raises, ShapeInv, world
<1>7. CASE TimesOut
  BY <1>f, <1>7 DEF TimesOut, ShapeInv, world
<1>8. CASE Tick
  BY <1>8, <1>0 DEF Tick, ShapeInv, world, Expiry
<1>9. CASE CollectSample
  BY <1>9, <1>0 DEF CollectSample, ShapeInv, Expiry
<1>10. CASE DropSample
  BY <1>10, <1>0 DEF DropSample, ShapeInv, Expiry
<1>11. CASE UNCHANGED vars
  BY <1>11, <1>0 DEF vars, world, ShapeInv, Expiry
<1> QED BY <1>1, <1>2, <1>3, <1>4, <1>5, <1>6, <1>7, <1>8, <1>9, <1>10, <1>11, <1>12 DEF Next

\* Every step of a run whose token outlives the LLM calls keeps PromptInv.
LEMMA NextPrompt == TokenOutlives /\ ShapeInv /\ PromptInv /\ [Next]_vars => PromptInv'
<1> SUFFICES ASSUME TokenOutlives, ShapeInv, PromptInv, [Next]_vars, ~slow', ~unencoded', faults' = 0
             PROVE  PromptInv'
  BY DEF PromptInv
<1>t. clock \in Nat /\ since \in Nat /\ opened \in Nat /\ faults \in Nat /\ LlmTimeout \in Nat
  BY RcaGraphAssumption DEF ShapeInv
<1>1. CASE Connect
  <2>1. ~slow /\ ~unencoded /\ faults = 0 /\ pc \in Requests
    BY <1>1 DEF Connect, NoFault, Requests, Waiting
  <2>2. TokenValid
    BY <2>1, TokenIsValid
  <2>3. pc' \in {"list", "context"} /\ clock' = clock /\ opened' = opened /\ findings' = findings
    BY <1>1, <2>2 DEF Connect, Await, world
  <2> QED BY <2>1, <2>3 DEF PromptInv
<1>2. CASE LoadContext
  <2>1. ~slow /\ ~unencoded /\ faults = 0 /\ pc \in Requests
    BY <1>2 DEF LoadContext, NoFault, Requests, Waiting
  <2>2. TokenValid
    BY <2>1, TokenIsValid
  <2>3. pc' = "call" /\ clock' = clock /\ opened' = opened /\ findings' = findings
    BY <1>2, <2>2 DEF LoadContext, Await, world
  <2> QED BY <2>1, <2>3 DEF PromptInv
<1>3. CASE BuildContext
  <2>1. ~slow /\ ~unencoded /\ faults = 0 /\ pc \in Requests
    BY <1>3 DEF BuildContext, NoFault, Requests, Waiting
  <2>2. TokenValid
    BY <2>1, TokenIsValid
  <2>3. pc' = "built" /\ clock' = clock /\ opened' = opened /\ findings' = findings
    BY <1>3, <2>2 DEF BuildContext, world
  <2> QED BY <2>1, <2>3 DEF PromptInv
<1>4. CASE Collect
  <2>1. ~slow /\ ~unencoded /\ faults = 0 /\ pc \in Requests
    BY <1>4 DEF Collect, NoFault, Requests, Waiting
  <2>2. pc' \in {"call", "llm"} /\ since' = clock /\ clock' = clock /\ opened' = opened
        /\ findings' = findings
    BY <1>4 DEF Collect, Await, world
  <2>3. clock <= opened + Spent(Len(findings)) /\ clock <= clock + LlmTimeout
    BY <1>t, <2>1 DEF PromptInv
  <2> QED BY <2>2, <2>3 DEF PromptInv
<1>5. CASE Summarize
  <2>1. ~slow /\ ~unencoded /\ faults = 0 /\ pc = "llm"
    BY <1>5 DEF Summarize, NoFault
  <2> DEFINE n == Len(findings)
  <2>2. n \in Nat /\ Len(findings') = n + 1
    <3> DEFINE f == Finding(evidence)
    <3>1. findings' = Append(findings, f)
      BY <1>5 DEF Summarize
    <3> HIDE DEF f
    <3>2. PICK S : findings \in Seq(S)
      BY DEF ShapeInv
    <3> QED BY <3>1, <3>2, AppendLonger
  <2>3. since <= opened + Spent(n) /\ clock <= since + LlmTimeout
    BY <2>1 DEF PromptInv
  <2> HIDE DEF n
  <2>4. Spent(n) \in Nat /\ Spent(n + 1) = Spent(n) + LlmTimeout
    BY <2>2, SpentStep
  <2>5. clock <= opened + Spent(n + 1)
    BY <1>t, <2>3, <2>4
  <2>6. pc' \in {"done", "call"} /\ clock' = clock /\ opened' = opened
    BY <1>5 DEF Summarize, Await, world
  <2> QED BY <2>2, <2>5, <2>6 DEF PromptInv
<1>12. CASE AnswerEmpty
  BY <1>12 DEF AnswerEmpty
<1>6. CASE Raises
  BY <1>6, <1>t DEF Raises
<1>7. CASE TimesOut
  BY <1>7, <1>t DEF TimesOut
<1>8. CASE Tick
  <2>1. ~slow /\ ~unencoded /\ pc \notin Requests
    BY <1>8 DEF Tick
  <2>2. faults = 0 /\ pc = "llm"
    BY <1>8, <2>1 DEF Tick, Requests
  <2>3. clock' = clock + 1 /\ clock - since < LlmTimeout
    BY <1>8, <1>t, <2>2 DEF Tick, TimedOut, UntilThen
  <2>4. since <= opened + Spent(Len(findings)) /\ clock' <= since + LlmTimeout
    BY <1>t, <2>1, <2>2, <2>3 DEF PromptInv
  <2> QED BY <1>8, <2>2, <2>4 DEF Tick, world, Requests, PromptInv
<1>9. CASE CollectSample
  BY <1>9 DEF CollectSample, PromptInv
<1>10. CASE DropSample
  BY <1>10 DEF DropSample, PromptInv
<1>11. CASE UNCHANGED vars
  BY <1>11 DEF vars, world, PromptInv
<1> QED BY <1>1, <1>2, <1>3, <1>4, <1>5, <1>6, <1>7, <1>8, <1>9, <1>10, <1>11, <1>12 DEF Next

\* When the server answers at once and nothing fails, the run comes to its report even if the LLM
\* takes its full time for every specialist, provided the token outlives three such calls.
THEOREM PromptRunAlwaysSucceeds == TokenOutlives => (Spec => []PromptRunSucceeds)
<1> SUFFICES ASSUME TokenOutlives PROVE Spec => []PromptRunSucceeds
  OBVIOUS
<1>1. Init => ShapeInv /\ PromptInv
  BY InitPrompt
<1>2. ShapeInv /\ PromptInv /\ [Next]_vars => (ShapeInv /\ PromptInv)'
  BY NextShape, NextPrompt
<1>3. ShapeInv /\ PromptInv => PromptRunSucceeds
  BY DEF PromptInv, PromptRunSucceeds
<1> QED BY <1>1, <1>2, <1>3, PTL DEF Spec

-----------------------------------------------------------------------------
(* A report has evidence of every tool *)

\* The orders the specialists may come in.
Orders == {SelectSpecialists(terms) : terms \in SUBSET {"logs", "metrics_traces"}}

\* Whichever terms occur, each of the four specialists comes once.
LEMMA OrderIsOnce ==
  ASSUME NEW agents \in Orders
  PROVE  /\ DOMAIN agents = 1 .. 4
         /\ \A i \in 1 .. 4 : agents[i] \in Agent
         /\ \A b \in Agent : \E i \in 1 .. 4 : agents[i] = b
         /\ \A i, k \in 1 .. 4 : agents[i] = agents[k] => i = k
<1>1. \/ agents = <<"kubernetes", "changes_config">> \o <<"metrics_traces", "logs">>
      \/ agents = <<"kubernetes", "changes_config">> \o <<"logs", "metrics_traces">>
  BY DEF Orders, SelectSpecialists
<1>2. CASE agents = <<"kubernetes", "changes_config">> \o <<"metrics_traces", "logs">>
  <2>1. /\ DOMAIN agents = 1 .. 4
        /\ agents[1] = "kubernetes" /\ agents[2] = "changes_config"
        /\ agents[3] = "metrics_traces" /\ agents[4] = "logs"
    BY <1>2
  <2> QED BY <2>1 DEF Agent
<1>3. CASE agents = <<"kubernetes", "changes_config">> \o <<"logs", "metrics_traces">>
  <2>1. /\ DOMAIN agents = 1 .. 4
        /\ agents[1] = "kubernetes" /\ agents[2] = "changes_config"
        /\ agents[3] = "logs" /\ agents[4] = "metrics_traces"
    BY <1>3
  <2> QED BY <2>1 DEF Agent
<1> QED BY <1>1, <1>2, <1>3

\* The specialists' references differ in their sources.
LEMMA SourcesDiffer ==
  /\ \A a, b \in Agent : SourcesOf(a) = SourcesOf(b) => a = b
  /\ \A a \in Agent : DOMAIN SourcesOf(a) = DOMAIN ToolsOf(a)
<1>1. \A a \in Agent : 1 \in DOMAIN ToolsOf(a)
  BY DEF Agent, ToolsOf
<1>2. \A a \in Agent : SourcesOf(a)[1] = SourceOf(ToolsOf(a)[1])
  BY <1>1 DEF SourcesOf
<1>3. /\ SourceOf(ToolsOf("kubernetes")[1]) = "kubernetes"
      /\ SourceOf(ToolsOf("logs")[1]) = "logs"
      /\ SourceOf(ToolsOf("metrics_traces")[1]) = "metrics"
      /\ SourceOf(ToolsOf("changes_config")[1]) = "runtime"
  BY DEF ToolsOf, SourceOf
<1>4. \A a, b \in Agent : SourcesOf(a) = SourcesOf(b) => a = b
  BY <1>2, <1>3 DEF Agent
<1> QED BY <1>4 DEF SourcesOf

\* What a tool answers is about that tool.
LEMMA FoundIsOfTool ==
  ASSUME NEW tool \in Tools, NEW bundle \in Found(tool)
  PROVE  bundle.tool = tool
<1>1. \A t, c, n : Bundle(t, c, n).tool = t
  BY DEF Bundle
<1>2. Unavailable(tool).tool = tool
  BY DEF Unavailable
<1>3. \A b \in StatusBundles : b.tool = "get_deployment_status"
  <2>1. \A d : DeploymentStatus(d).tool = "get_deployment_status"
    BY <1>1, Zenon DEF DeploymentStatus
  <2> QED BY <2>1, Zenon DEF StatusBundles
<1>4. \A b \in PodBundles : b.tool = "get_pods"
  <2>1. \A d : Pods(d).tool = "get_pods"
    BY <1>1, Zenon DEF Pods
  <2> QED BY <2>1, Zenon DEF PodBundles
<1>5. \A b \in EventBundles : b.tool = "get_kubernetes_events"
  <2>1. \A d : Events(d).tool = "get_kubernetes_events"
    BY <1>1, Zenon DEF Events
  <2> QED BY <2>1, Zenon DEF EventBundles
<1>6. \A b \in SampleBundles : b.tool = "get_health_samples"
  <2>1. \A d : HealthSamples(d).tool = "get_health_samples"
    BY <1>1, Zenon DEF HealthSamples
  <2> QED BY <2>1, Zenon DEF SampleBundles
<1>7. \A b \in LogBundles : b.tool = "get_logs"
  <2>1. \A d : Logs(d).tool = "get_logs"
    BY <1>1, Zenon DEF Logs
  <2> QED BY <2>1, Zenon DEF LogBundles
<1>8. \A b \in MetricBundles : b.tool = "get_metrics"
  <2>1. \A d : Metrics(d).tool = "get_metrics"
    BY <1>1, Zenon DEF Metrics
  <2> QED BY <2>1, Zenon DEF MetricBundles
<1>9. \A b \in TraceBundles : b.tool = "get_traces"
  <2>1. \A d : Traces(d).tool = "get_traces"
    BY <1>1, Zenon DEF Traces
  <2> QED BY <2>1, Zenon DEF TraceBundles
<1>10. \A b \in ConfigBundles : b.tool = "get_runtime_configs"
  <2>1. \A d : RuntimeConfigs(d).tool = "get_runtime_configs"
    BY <1>1, Zenon DEF RuntimeConfigs
  <2> QED BY <2>1, Zenon DEF ConfigBundles
<1>11. \A b \in ChangeBundles : b.tool = "get_recent_changes"
  <2>1. \A d : RecentChanges(d).tool = "get_recent_changes"
    BY <1>1, Zenon DEF RecentChanges
  <2> QED BY <2>1, Zenon DEF ChangeBundles
<1>12. CASE tool = "get_deployment_status"
  <2>1. Found(tool) = {Unavailable(tool)} \cup StatusBundles
    BY <1>12 DEF Found
  <2> QED BY <1>2, <1>3, <1>12, <2>1, Zenon
<1>13. CASE tool = "get_pods"
  <2>1. Found(tool) = {Unavailable(tool)} \cup PodBundles
    BY <1>13 DEF Found
  <2> QED BY <1>2, <1>4, <1>13, <2>1, Zenon
<1>14. CASE tool = "get_kubernetes_events"
  <2>1. Found(tool) = {Unavailable(tool)} \cup EventBundles
    BY <1>14 DEF Found
  <2> QED BY <1>2, <1>5, <1>14, <2>1, Zenon
<1>15. CASE tool = "get_health_samples"
  <2>1. Found(tool) = {Unavailable(tool)} \cup SampleBundles
    BY <1>15 DEF Found
  <2> QED BY <1>2, <1>6, <1>15, <2>1, Zenon
<1>16. CASE tool = "get_logs"
  <2>1. Found(tool) = {Unavailable(tool)} \cup LogBundles
    BY <1>16 DEF Found
  <2> QED BY <1>2, <1>7, <1>16, <2>1, Zenon
<1>17. CASE tool = "get_metrics"
  <2>1. Found(tool) = {Unavailable(tool)} \cup MetricBundles
    BY <1>17 DEF Found
  <2> QED BY <1>2, <1>8, <1>17, <2>1, Zenon
<1>18. CASE tool = "get_traces"
  <2>1. Found(tool) = {Unavailable(tool)} \cup TraceBundles
    BY <1>18 DEF Found
  <2> QED BY <1>2, <1>9, <1>18, <2>1, Zenon
<1>19. CASE tool = "get_runtime_configs"
  <2>1. Found(tool) = {Unavailable(tool)} \cup ConfigBundles
    BY <1>19 DEF Found
  <2> QED BY <1>2, <1>10, <1>19, <2>1, Zenon
<1>20. CASE tool = "get_recent_changes"
  <2>1. Found(tool) = {Unavailable(tool)} \cup ChangeBundles
    BY <1>20 DEF Found
  <2> QED BY <1>2, <1>11, <1>20, <2>1, Zenon
<1> QED BY <1>12, <1>13, <1>14, <1>15, <1>16, <1>17, <1>18, <1>19, <1>20 DEF Tools, AllTools

\* The bundles are those of all tools of the specialist, in order.
HasRun(agent, bundles) ==
  /\ DOMAIN bundles = DOMAIN ToolsOf(agent)
  /\ \A j \in DOMAIN bundles : bundles[j].tool = ToolsOf(agent)[j]

\* The references are those of all tools of the specialist, in order.
Refers(agent, refs) ==
  /\ DOMAIN refs = DOMAIN ToolsOf(agent)
  /\ \A j \in DOMAIN refs : refs[j].source = SourceOf(ToolsOf(agent)[j])

\* The specialist has the bundles and still has to call the tools.
Collecting(agent, bundles, tools) ==
  /\ tools \in Calls
  /\ Len(bundles) + Len(tools) = Len(ToolsOf(agent))
  /\ \A j \in 1 .. Len(bundles) : bundles[j].tool = ToolsOf(agent)[j]
  /\ \A j \in 1 .. Len(tools) : tools[j] = ToolsOf(agent)[Len(bundles) + j]

\* The specialists of the findings have run.
Past(agents, fs) == \A i \in 1 .. Len(fs) : Refers(agents[i], fs[i].evidence)

\* After n specialists, the others are to come.
Coming(agents, n, rest) ==
  /\ rest \in Seq(Calls) /\ Len(rest) = 4 - n
  /\ \A i \in 1 .. Len(rest) : rest[i] = ToolsOf(agents[n + i])

\* The next specialist begins with nothing but its tools to call.
LEMMA SpecialistBegins ==
  ASSUME NEW agents, NEW n \in 0 .. 4, NEW rest, Coming(agents, n, rest), rest # <<>>
  PROVE  /\ Collecting(agents[n + 1], <<>>, Head(rest))
         /\ Coming(agents, n + 1, Tail(rest)) /\ n # 4
<1>1. /\ rest \in Seq(Calls) /\ Len(rest) = 4 - n
      /\ \A i \in 1 .. Len(rest) : rest[i] = ToolsOf(agents[n + i])
  BY DEF Coming
<1>2. Len(rest) \in Nat /\ Len(rest) # 0
  BY <1>1
<1>3. n # 4 /\ 1 \in 1 .. Len(rest)
  BY <1>1, <1>2
<1>4. /\ Head(rest) \in Calls /\ Tail(rest) \in Seq(Calls) /\ Len(Tail(rest)) = Len(rest) - 1
      /\ \A i \in 1 .. Len(Tail(rest)) : Tail(rest)[i] = rest[i + 1]
  BY <1>1, HeadTailProperties
<1>5. Head(rest) = ToolsOf(agents[n + 1])
  BY <1>1, <1>3
<1>6. Collecting(agents[n + 1], <<>>, Head(rest))
  <2>1. Head(rest) \in Seq(Tools) /\ Len(Head(rest)) \in Nat /\ Len(<<>>) = 0
    BY <1>4 DEF Calls
  <2>2. \A j \in 1 .. Len(Head(rest)) : 0 + j = j
    BY <2>1
  <2> QED BY <1>4, <1>5, <2>1, <2>2 DEF Collecting
<1>7. Coming(agents, n + 1, Tail(rest))
  <2>1. Len(Tail(rest)) = 4 - (n + 1)
    BY <1>1, <1>4
  <2>2. ASSUME NEW i \in 1 .. Len(Tail(rest)) PROVE Tail(rest)[i] = ToolsOf(agents[n + 1 + i])
    <3>1. i \in Nat /\ i + 1 \in 1 .. Len(rest) /\ n + (i + 1) = n + 1 + i
      BY <1>2, <1>4
    <3> QED BY <1>1, <1>4, <3>1
  <2> QED BY <1>4, <2>1, <2>2 DEF Coming
<1> QED BY <1>3, <1>6, <1>7

\* A bundle more, a tool less; after the last tool the specialist has run.
LEMMA ToolAnswers ==
  ASSUME NEW a \in Agent, NEW S, NEW bundles \in Seq(S), NEW tools, Collecting(a, bundles, tools),
         NEW e, e.tool = Head(tools)
  PROVE  /\ Tail(tools) # <<>> => Collecting(a, Append(bundles, e), Tail(tools))
         /\ Tail(tools) = <<>> => HasRun(a, Append(bundles, e))
<1> DEFINE n == Len(bundles)
           more == Append(bundles, e)
           all == ToolsOf(a)
           m == Len(tools)
           rest == Tail(tools)
<1>1. /\ tools \in Seq(Tools) /\ tools # <<>>
      /\ n + m = Len(all)
      /\ \A j \in 1 .. n : bundles[j].tool = all[j]
      /\ \A j \in 1 .. m : tools[j] = all[n + j]
  BY DEF Collecting, Calls
<1>2. n \in Nat /\ m \in Nat /\ m # 0
  BY <1>1
<1>3. /\ rest \in Seq(Tools) /\ Len(rest) = m - 1
      /\ \A j \in 1 .. Len(rest) : rest[j] = tools[j + 1]
      /\ Head(tools) = tools[1]
  BY <1>1, HeadTailProperties DEF m, rest
<1>4. bundles \in Seq(S \cup {e})
  OBVIOUS
<1>5. /\ more \in Seq(S \cup {e}) /\ Len(more) = n + 1
      /\ \A j \in 1 .. n : more[j] = bundles[j]
      /\ more[n + 1] = e
  BY <1>4, AppendProperties
<1> HIDE DEF n, more, all, m, rest
<1>6. \A j \in 1 .. Len(more) : more[j].tool = all[j]
  <2> SUFFICES ASSUME NEW j \in 1 .. Len(more) PROVE more[j].tool = all[j]
    OBVIOUS
  <2>1. CASE j = n + 1
    <3>1. 1 \in 1 .. m
      BY <1>2
    <3> QED BY <1>1, <1>3, <1>5, <2>1, <3>1
  <2>2. CASE j # n + 1
    <3>1. j \in 1 .. n
      BY <1>2, <1>5, <2>2
    <3> QED BY <1>1, <1>5, <3>1
  <2> QED BY <2>1, <2>2
<1>7. ASSUME rest # <<>> PROVE Collecting(a, more, rest)
  <2>1. rest \in Calls
    BY <1>3, <1>7 DEF Calls
  <2>2. Len(more) + Len(rest) = Len(all)
    <3>1. (n + 1) + (m - 1) = n + m
      BY <1>2
    <3> QED BY <1>1, <1>3, <1>5, <3>1, Zenon
  <2>3. ASSUME NEW j \in 1 .. Len(rest) PROVE rest[j] = all[Len(more) + j]
    <3>1. j \in Nat /\ j + 1 \in 1 .. m /\ n + (j + 1) = Len(more) + j
      BY <1>2, <1>3, <1>5
    <3> QED BY <1>1, <1>3, <3>1
  <2> QED BY <1>6, <2>1, <2>2, <2>3 DEF Collecting, all
<1>8. ASSUME rest = <<>> PROVE HasRun(a, more)
  <2>1. Len(rest) = 0
    BY <1>8
  <2>2. Len(more) = Len(all)
    BY <1>1, <1>2, <1>3, <1>5, <2>1
  <2>3. all \in Seq(Tools)
    BY AgentTools DEF all, Calls
  <2>4. DOMAIN more = 1 .. Len(more) /\ DOMAIN all = 1 .. Len(all)
    BY <1>5, <2>3
  <2> QED BY <1>6, <2>2, <2>4 DEF HasRun, all
<1> QED BY <1>7, <1>8 DEF more, rest

\* What is put before a sequence is its head, and the sequence its tail.
LEMMA PutFirst ==
  ASSUME NEW T, NEW x \in T, NEW s \in Seq(T)
  PROVE  Head(<<x>> \o s) = x /\ Tail(<<x>> \o s) = s
OBVIOUS

\* Where a run is in the plan of its specialists.
PlanInv ==
  /\ \E S : evidence \in Seq(S)
  /\ pc \in {"initialize", "list", "context"} => evidence = <<>>
  /\ pc \in {"call", "built"} =>
       /\ Len(findings) \in 0 .. 3
       /\ \E agents \in Orders :
            /\ Past(agents, findings)
            /\ Collecting(agents[Len(findings) + 1], evidence, Head(left))
            /\ Coming(agents, Len(findings) + 1, Tail(left))
  /\ pc = "llm" =>
       /\ Len(findings) \in 0 .. 3
       /\ \E agents \in Orders :
            /\ Past(agents, findings)
            /\ HasRun(agents[Len(findings) + 1], evidence)
            /\ Coming(agents, Len(findings) + 1, left)
  /\ pc = "done" =>
       Len(findings) = 4 /\ \E agents \in Orders : Past(agents, findings)

\* A run begins without evidence.
LEMMA InitPlan == Init => PlanInv
<1>1. <<>> \in Seq({})
  OBVIOUS
<1> QED BY <1>1 DEF Init, PlanInv

\* Every step keeps PlanInv.
LEMMA NextPlan == ShapeInv /\ PlanInv /\ [Next]_vars => PlanInv'
<1> SUFFICES ASSUME ShapeInv, PlanInv, [Next]_vars PROVE PlanInv'
  OBVIOUS
<1>0. PICK S : evidence \in Seq(S)
  BY DEF PlanInv
<1>e. <<>> \in Seq(S) /\ Len(<<>>) = 0
  OBVIOUS
<1>n. Len(findings) \in Nat
  <2>1. PICK F : findings \in Seq(F)
    BY DEF ShapeInv
  <2> QED BY <2>1
<1>s. ASSUME pc' = "failed", evidence' = evidence \/ evidence' = <<>> PROVE PlanInv'
  BY <1>0, <1>e, <1>s DEF PlanInv
<1>u. ASSUME \/ pc' = pc
             \/ pc \in {"initialize", "list"} /\ pc' \in {"list", "context"}
             \/ pc = "call" /\ pc' = "built",
             left' = left, evidence' = evidence, findings' = findings
      PROVE  PlanInv'
  <2>1. \E T : evidence' \in Seq(T)
    BY <1>0, <1>u
  <2>2. CASE pc' \in {"initialize", "list", "context"}
    BY <1>u, <2>1, <2>2 DEF PlanInv
  <2>3. CASE pc' \in {"call", "built"}
    BY <1>u, <2>1, <2>3 DEF PlanInv
  <2>4. CASE pc' \in {"llm", "done"}
    BY <1>u, <2>1, <2>4 DEF PlanInv
  <2>5. CASE pc' \notin {"initialize", "list", "context", "call", "built", "llm", "done"}
    BY <2>1, <2>5 DEF PlanInv
  <2> QED BY <2>2, <2>3, <2>4, <2>5
<1>1. CASE Connect
  BY <1>1, <1>s, <1>u DEF Connect, Await, Fail
<1>2. CASE LoadContext
  <2>1. CASE Fail
    BY <2>1, <1>s DEF Fail
  <2>2. CASE ~Fail
    <3>1. PICK terms \in SUBSET {"logs", "metrics_traces"} :
            left' = [i \in DOMAIN SelectSpecialists(terms) |-> ToolsOf(SelectSpecialists(terms)[i])]
      BY <1>2, <2>2 DEF LoadContext
    <3>2. left' \in Seq(Calls) /\ Len(left') = 4
      BY <3>1, FourSpecialists
    <3> DEFINE agents == SelectSpecialists(terms)
    <3>3. agents \in Orders
      BY DEF Orders
    <3>4. left' = [i \in DOMAIN agents |-> ToolsOf(agents[i])]
      BY <3>1
    <3> HIDE DEF agents
    <3>5. Coming(agents, 0, left')
      <4>1. DOMAIN agents = 1 .. 4
        BY <3>3, OrderIsOnce
      <4>2. \A i \in 1 .. 4 : left'[i] = ToolsOf(agents[0 + i])
        BY <3>4, <4>1
      <4> QED BY <3>2, <4>2 DEF Coming
    <3>6. left' # <<>>
      BY <3>2, <1>e
    <3>7. Collecting(agents[0 + 1], <<>>, Head(left')) /\ Coming(agents, 0 + 1, Tail(left'))
      BY <3>5, <3>6, SpecialistBegins
    <3>8. findings = <<>> /\ evidence = <<>> /\ Len(findings) = 0
      BY <1>2, <1>e DEF LoadContext, ShapeInv, PlanInv
    <3>9. findings' = <<>> /\ evidence' = <<>> /\ pc' = "call" /\ Len(findings') = 0
      BY <1>2, <2>2, <3>8 DEF LoadContext, Await
    <3>10. Past(agents, findings')
      BY <3>9 DEF Past
    <3> QED BY <1>e, <3>3, <3>7, <3>9, <3>10 DEF PlanInv
  <2> QED BY <2>1, <2>2
<1>3. CASE BuildContext
  BY <1>3, <1>s, <1>u DEF BuildContext, Fail
<1>4. CASE Collect
  <2> DEFINE n == Len(findings)
  <2>1. PICK agents \in Orders : /\ Past(agents, findings)
                                /\ Collecting(agents[n + 1], evidence, Head(left))
                                /\ Coming(agents, n + 1, Tail(left))
    BY <1>4 DEF Collect, PlanInv
  <2>2. n \in 0 .. 3 /\ left \in Seq(Calls) /\ left # <<>>
    BY <1>4 DEF Collect, PlanInv, ShapeInv
  <2>3. agents[n + 1] \in Agent
    <3>1. \A k \in 0 .. 3 : k + 1 \in 1 .. 4
      OBVIOUS
    <3> HIDE DEF n
    <3> QED BY <2>2, <3>1, OrderIsOnce
  <2>4. PICK bundle \in Found(Tool) : evidence' = Append(evidence, bundle)
    BY <1>4 DEF Collect
  <2>5. bundle.tool = Head(Head(left))
    <3>1. Head(left) \in Seq(Tools) /\ Head(left) # <<>>
      BY <2>2, HeadTailProperties DEF Calls
    <3>2. Tool \in Tools
      BY <3>1, HeadTailProperties DEF Tool
    <3> QED BY <2>4, <3>2, FoundIsOfTool DEF Tool
  <2> DEFINE rest == Tail(Head(left))
             a == agents[n + 1]
  <2>6. /\ rest # <<>> => Collecting(a, evidence', rest)
        /\ rest = <<>> => HasRun(a, evidence')
    BY <1>0, <2>1, <2>3, <2>4, <2>5, ToolAnswers
  <2>7. evidence' \in Seq(S \cup {bundle})
    BY <1>0, <2>4, AppendLonger
  <2>8. findings' = findings /\ Tail(left) \in Seq(Calls)
    BY <1>4, <2>2 DEF Collect
  <2>9. CASE rest = <<>>
    <3>1. left' = Tail(left) /\ pc' = "llm"
      BY <1>4, <2>9 DEF Collect, Await
    <3> QED BY <2>1, <2>2, <2>6, <2>7, <2>8, <2>9, <3>1 DEF PlanInv
  <2>10. CASE rest # <<>>
    <3>1. left' = <<rest>> \o Tail(left) /\ pc' = "call"
      BY <1>4, <2>10 DEF Collect, Await
    <3>2. rest \in Calls
      BY <2>1, <2>6, <2>10 DEF Collecting
    <3>3. Head(left') = rest /\ Tail(left') = Tail(left)
      BY <2>8, <3>1, <3>2, PutFirst
    <3> QED BY <2>1, <2>2, <2>6, <2>7, <2>8, <2>10, <3>1, <3>3 DEF PlanInv
  <2> QED BY <2>9, <2>10
<1>5. CASE Summarize
  <2> DEFINE n == Len(findings)
             f == Finding(evidence)
  <2>1. PICK agents \in Orders : /\ Past(agents, findings)
                                /\ HasRun(agents[n + 1], evidence)
                                /\ Coming(agents, n + 1, left)
    BY <1>5 DEF Summarize, PlanInv
  <2>2. n \in 0 .. 3 /\ n \in Nat
    BY <1>5, <1>n DEF Summarize, PlanInv
  <2>3. findings' = Append(findings, f) /\ evidence' = <<>> /\ left' = left
    BY <1>5 DEF Summarize
  <2>4. Refers(agents[n + 1], f.evidence)
    <3>1. f.evidence = [i \in DOMAIN evidence |->
                          [source |-> SourceOf(evidence[i].tool), signals |-> evidence[i].signals]]
      BY Zenon DEF Finding, References
    <3> HIDE DEF f
    <3> QED BY <2>1, <3>1 DEF HasRun, Refers
  <2> HIDE DEF f
  <2>5. PICK F : findings \in Seq(F)
    BY DEF ShapeInv
  <2>6. /\ Len(findings') = n + 1 /\ findings'[n + 1] = f
        /\ \A i \in 1 .. n : findings'[i] = findings[i]
    <3>1. findings \in Seq(F \cup {f})
      BY <2>5
    <3> QED BY <2>3, <3>1, AppendProperties
  <2> HIDE DEF n
  <2>7. Past(agents, findings')
    <3>1. ASSUME NEW i \in 1 .. n + 1 PROVE Refers(agents[i], findings'[i].evidence)
      <4>1. i \in 1 .. n \/ i = n + 1
        BY <2>2
      <4>2. CASE i \in 1 .. n
        BY <2>1, <2>6, <4>2 DEF Past, n
      <4>3. CASE i = n + 1
        BY <2>4, <2>6, <4>3
      <4> QED BY <4>1, <4>2, <4>3
    <3> QED BY <2>6, <3>1 DEF Past
  <2>8. n + 1 \in 0 .. 4
    BY <2>2
  <2>9. CASE left = <<>>
    <3>1. n + 1 = 4
      <4>1. Len(left) = 4 - (n + 1) /\ Len(left) = 0
        BY <1>e, <2>1, <2>9 DEF Coming
      <4> QED BY <2>2, <4>1
    <3>2. pc' = "done"
      BY <1>5, <2>9 DEF Summarize
    <3>3. \E T : evidence' \in Seq(T)
      BY <1>e, <2>3
    <3> QED BY <2>6, <2>7, <3>1, <3>2, <3>3 DEF PlanInv
  <2>10. CASE left # <<>>
    <3>1. pc' = "call"
      BY <1>5, <2>10 DEF Summarize, Await
    <3>2. /\ Collecting(agents[n + 1 + 1], <<>>, Head(left))
          /\ Coming(agents, n + 1 + 1, Tail(left)) /\ n + 1 # 4
      BY <2>1, <2>8, <2>10, SpecialistBegins
    <3>3. n + 1 \in 0 .. 3
      BY <2>2, <3>2
    <3>4. \E T : evidence' \in Seq(T)
      BY <1>e, <2>3
    <3>5. /\ Collecting(agents[Len(findings') + 1], evidence', Head(left'))
          /\ Coming(agents, Len(findings') + 1, Tail(left'))
          /\ Len(findings') \in 0 .. 3
      BY <2>3, <2>6, <3>2, <3>3
    <3> QED BY <2>7, <3>1, <3>4, <3>5 DEF PlanInv
  <2> QED BY <2>9, <2>10
<1>12. CASE AnswerEmpty
  BY <1>12, <1>s DEF AnswerEmpty, Fail
<1>6. CASE Raises
  BY <1>6, <1>s DEF Raises, Fail
<1>7. CASE TimesOut
  BY <1>7, <1>s DEF TimesOut, Fail
<1>8. CASE Tick
  <2>1. pc' = pc /\ left' = left /\ evidence' = evidence /\ findings' = findings
    BY <1>8 DEF Tick
  <2> QED BY <1>u, <2>1
<1>9. CASE CollectSample
  <2>1. pc' = pc /\ left' = left /\ evidence' = evidence /\ findings' = findings
    BY <1>9 DEF CollectSample
  <2> QED BY <1>u, <2>1
<1>10. CASE DropSample
  <2>1. pc' = pc /\ left' = left /\ evidence' = evidence /\ findings' = findings
    BY <1>10 DEF DropSample
  <2> QED BY <1>u, <2>1
<1>11. CASE UNCHANGED vars
  <2>1. pc' = pc /\ left' = left /\ evidence' = evidence /\ findings' = findings
    BY <1>11 DEF vars
  <2> QED BY <1>u, <2>1
<1> QED BY <1>1, <1>2, <1>3, <1>4, <1>5, <1>6, <1>7, <1>8, <1>9, <1>10, <1>11, <1>12 DEF Next

\* A run that is done has one finding of each specialist.
LEMMA DoneIsComplete == ShapeInv /\ PlanInv => ReportIsComplete
<1> SUFFICES ASSUME ShapeInv, PlanInv, pc = "done", NEW agent \in Agent
             PROVE  Cardinality({k \in DOMAIN findings : Sources(findings[k].evidence) = SourcesOf(agent)}) = 1
  BY DEF ReportIsComplete
<1>1. PICK agents \in Orders : Past(agents, findings)
  BY DEF PlanInv
<1>2. Len(findings) = 4
  BY DEF PlanInv
<1>3. DOMAIN findings = 1 .. 4
  <2>1. PICK F : findings \in Seq(F)
    BY DEF ShapeInv
  <2> QED BY <1>2, <2>1
<1>4. PICK i \in 1 .. 4 : agents[i] = agent
  BY OrderIsOnce
<1>5. \A k \in 1 .. 4 : agents[k] \in Agent /\ (agents[k] = agent <=> k = i)
  BY <1>4, OrderIsOnce
<1>6. ASSUME NEW k \in 1 .. 4 PROVE Sources(findings[k].evidence) = SourcesOf(agents[k])
  <2>1. Refers(agents[k], findings[k].evidence)
    BY <1>1, <1>2 DEF Past
  <2> QED BY <2>1 DEF Refers, Sources, SourcesOf
<1>7. \A k \in 1 .. 4 : Sources(findings[k].evidence) = SourcesOf(agent) <=> k = i
  BY <1>4, <1>5, <1>6, SourcesDiffer
<1> DEFINE places == {k \in DOMAIN findings : Sources(findings[k].evidence) = SourcesOf(agent)}
<1>8. places = {i}
  BY <1>3, <1>7
<1> HIDE DEF places
<1>9. Cardinality(places) = 1
  BY <1>8, FS_Singleton
<1> QED BY <1>9 DEF places

\* Whichever terms the incident's rule key and summary contain and whatever the tools find or
\* fail to find, a report has one finding of every specialist, with the references of its tools
\* in their order (select_specialists, run_specialists, evidence_reference).
THEOREM ReportAlwaysComplete == Spec => []ReportIsComplete
<1>1. Init => ShapeInv /\ PlanInv
  BY InitPrompt, InitPlan
<1>2. ShapeInv /\ PlanInv /\ [Next]_vars => (ShapeInv /\ PlanInv)'
  BY NextShape, NextPlan
<1>3. ShapeInv /\ PlanInv => ReportIsComplete
  BY DoneIsComplete
<1> QED BY <1>1, <1>2, <1>3, PTL DEF Spec

-----------------------------------------------------------------------------
(* What the evidence says *)

\* The bundles a specialist collects, what a finding keeps of them, and the findings.
EvidenceSet  == [tool : Tools, signals : Seq(SignalNames), samples : Nat, failed : BOOLEAN]
ReferenceSet == [source : {SourceOf(t) : t \in Tools}, signals : Seq(SignalNames)]

\* The causes of a finding follow from its evidence: there are some exactly when there are
\* signals, and the first is one of them.
Follows(f) ==
  /\ f.evidence \in Seq(ReferenceSet)
  /\ f.causes \in Seq(SignalNames) /\ Len(f.causes) <= 5
  /\ f.causes = <<>> => \A j \in DOMAIN f.evidence : f.evidence[j].signals = <<>>
  /\ f.causes # <<>> =>
       \E j \in DOMAIN f.evidence : \E k \in DOMAIN f.evidence[j].signals :
         f.evidence[j].signals[k] = f.causes[1]

\* Whatever a tool answers is a bundle of that tool.
LEMMA FoundTyped ==
  ASSUME NEW S, samples \in Seq(S), NEW tool \in Tools, NEW bundle \in Found(tool)
  PROVE  bundle \in EvidenceSet
<1>1. Unavailable(tool) \in BundleSet
  BY DEF Unavailable, BundleSet, Tools
<1>2. StatusBundles \subseteq BundleSet
  <2>1. \A d : DeploymentStatus(d) \in BundleSet
    BY DeploymentBundles
  <2> QED BY <2>1, Zenon DEF StatusBundles
<1>3. PodBundles \subseteq BundleSet
  <2>1. \A c \in PodLists : Pods(c) \in BundleSet
    BY ListBundles, RcaGraphAssumption
  <2> QED BY <2>1, Zenon DEF PodBundles
<1>4. EventBundles \subseteq BundleSet
  <2>1. \A e \in EventTypes : Events(e) \in BundleSet
    BY ListBundles, RcaGraphAssumption
  <2> QED BY <2>1, Zenon DEF EventBundles
<1>5. SampleBundles \subseteq BundleSet
  <2>1. SamplesIn(samples, window) \in Seq(S)
    BY SamplesInHolds
  <2>2. HealthSamples(SamplesIn(samples, window)) \in BundleSet
    BY <2>1, ListBundles
  <2> QED BY <2>2, Zenon DEF SampleBundles
<1>6. LogBundles \subseteq BundleSet
  <2>1. \A l \in LogLines \cup {<<"error">>} : l \in Seq({"error", "trace", "plain", "blank"})
    <3>1. <<"error">> \in Seq({"error", "trace", "plain", "blank"})
      OBVIOUS
    <3> QED BY <3>1, RcaGraphAssumption, Zenon
  <2>2. \A l \in LogLines \cup {<<"error">>} : Logs(l) \in BundleSet
    BY <2>1, LogBundle
  <2> QED BY <2>2, Zenon DEF LogBundles
<1>7. MetricBundles \subseteq BundleSet
  <2>1. \A m \in Series : Metrics(m) \in BundleSet
    BY MetricBundle, RcaGraphAssumption
  <2> QED BY <2>1, Zenon DEF MetricBundles
<1>8. TraceBundles \subseteq BundleSet
  <2>1. \A d \in Durations : Traces(d) \in BundleSet
    BY ListBundles, RcaGraphAssumption
  <2> QED BY <2>1, Zenon DEF TraceBundles
<1>9. ConfigBundles \subseteq BundleSet
  <2>1. RuntimeConfigs(1) \in BundleSet
    BY DeploymentBundles
  <2> QED BY <2>1, Zenon DEF ConfigBundles
<1>10. ChangeBundles \subseteq BundleSet
  <2>1. \A n \in Changes : RecentChanges(n) \in BundleSet
    BY DeploymentBundles, RcaGraphAssumption
  <2> QED BY <2>1, Zenon DEF ChangeBundles
<1> DEFINE B == BundleSet
<1>11. Found(tool) \subseteq B
  <2> HIDE DEF B
  <2>1. /\ Unavailable(tool) \in B /\ StatusBundles \subseteq B /\ PodBundles \subseteq B
        /\ EventBundles \subseteq B /\ SampleBundles \subseteq B /\ LogBundles \subseteq B
        /\ MetricBundles \subseteq B /\ TraceBundles \subseteq B /\ ConfigBundles \subseteq B
        /\ ChangeBundles \subseteq B
    BY <1>1, <1>2, <1>3, <1>4, <1>5, <1>6, <1>7, <1>8, <1>9, <1>10 DEF B
  <2> QED BY <2>1 DEF Found, Tools, AllTools
<1>12. bundle \in BundleSet /\ bundle.tool = tool
  BY <1>11, FoundIsOfTool
<1> QED BY <1>12 DEF BundleSet, EvidenceSet

\* A finding follows from the bundles of its specialist.
LEMMA FindingFollows ==
  ASSUME NEW bundles \in Seq(EvidenceSet)
  PROVE  Follows(Finding(bundles))
<1> DEFINE parts  == [i \in DOMAIN bundles |-> bundles[i].signals]
           all    == FlattenSeq(parts)
           n      == Trim(Len(all), 5)
           causes == SubSeq(all, 1, n)
           refs   == References(bundles)
           f      == Finding(bundles)
<1>1. parts \in Seq(Seq(SignalNames)) /\ Len(parts) = Len(bundles) /\ DOMAIN bundles = 1 .. Len(bundles)
  <2>1. \A i \in DOMAIN bundles : bundles[i] \in EvidenceSet
    OBVIOUS
  <2>2. \A i \in DOMAIN bundles : bundles[i].signals \in Seq(SignalNames)
    BY <2>1 DEF EvidenceSet
  <2>3. DOMAIN bundles = 1 .. Len(bundles) /\ Len(bundles) \in Nat
    OBVIOUS
  <2>4. parts \in [1 .. Len(bundles) -> Seq(SignalNames)]
    BY <2>2, <2>3
  <2> HIDE DEF parts
  <2> QED BY <2>3, <2>4
<1>2. \A i \in DOMAIN bundles : parts[i] = bundles[i].signals
  OBVIOUS
<1>3. refs \in Seq(ReferenceSet) /\ DOMAIN refs = DOMAIN bundles
  <2>1. \A i \in DOMAIN bundles : bundles[i] \in EvidenceSet
    OBVIOUS
  <2>2. \A i \in DOMAIN bundles :
          [source |-> SourceOf(bundles[i].tool), signals |-> bundles[i].signals] \in ReferenceSet
    BY <2>1 DEF EvidenceSet, ReferenceSet
  <2>3. refs \in [1 .. Len(bundles) -> ReferenceSet] /\ Len(bundles) \in Nat
    BY <1>1, <2>2 DEF References
  <2> HIDE DEF refs
  <2> QED BY <1>1, <2>3
<1>4. \A i \in DOMAIN bundles : refs[i].signals = parts[i]
  BY <1>2 DEF References
<1>5. f.causes = causes /\ f.evidence = refs
  BY DEF Finding
<1> HIDE DEF parts, all, refs, f
<1>6. all \in Seq(SignalNames) /\ Holds(parts, Len(parts), all)
  BY <1>1, FlattenHolds DEF all
<1>7. Len(all) \in Nat /\ n \in 0 .. Len(all) /\ n <= 5 /\ (all # <<>> => n # 0)
  BY <1>6 DEF Trim
<1> HIDE DEF n
<1>8. causes \in Seq(SignalNames) /\ Len(causes) = n /\ (n # 0 => causes[1] = all[1])
  BY <1>6, <1>7
<1>9. all = <<>> <=> causes = <<>>
  BY <1>6, <1>7, <1>8
<1> DEFINE D == 1 .. Len(parts)
<1>10. /\ \A j \in DOMAIN all : \E k \in D : \E i \in DOMAIN parts[k] : parts[k][i] = all[j]
       /\ \A k \in D : \A i \in DOMAIN parts[k] : \E j \in DOMAIN all : parts[k][i] = all[j]
  BY <1>6, Zenon DEF Holds
<1>11. D = DOMAIN bundles
  BY <1>1
<1> HIDE DEF D, causes
<1>12. ASSUME causes = <<>>
       PROVE  \A j \in DOMAIN refs : refs[j].signals = <<>>
  <2> TAKE j \in DOMAIN refs
  <2> DEFINE part == parts[j]
  <2>1. j \in D /\ part \in Seq(SignalNames) /\ refs[j].signals = part
    BY <1>1, <1>3, <1>4, <1>11
  <2>2. \A i \in DOMAIN part : FALSE
    BY <1>9, <1>10, <1>12, <2>1
  <2> HIDE DEF part
  <2>3. part # <<>> => 1 \in DOMAIN part
    BY <2>1
  <2> QED BY <2>1, <2>2, <2>3
<1>13. ASSUME causes # <<>>
       PROVE  \E j \in DOMAIN refs : \E k \in DOMAIN refs[j].signals : refs[j].signals[k] = causes[1]
  <2>1. 1 \in DOMAIN all /\ causes[1] = all[1]
    BY <1>6, <1>7, <1>8, <1>9, <1>13
  <2>2. PICK j \in D : \E i \in DOMAIN parts[j] : parts[j][i] = all[1]
    BY <1>10, <2>1
  <2>3. j \in DOMAIN refs /\ refs[j].signals = parts[j]
    BY <1>3, <1>4, <1>11, <2>2
  <2> QED BY <2>1, <2>2, <2>3
<1>14. Len(causes) <= 5
  BY <1>7, <1>8
<1>15. Follows(f)
  BY <1>3, <1>5, <1>8, <1>12, <1>13, <1>14 DEF Follows
<1> QED BY <1>15 DEF f

\* A report follows from the findings: it names a root cause exactly when a finding has causes,
\* and that is the first cause of the first of them.
LEMMA ConcludeFollows ==
  ASSUME NEW S, NEW fs \in Seq(S), \A i \in DOMAIN fs : Follows(fs[i])
  PROVE  /\ Conclude(fs).status \in {"root_cause_identified", "inconclusive"}
         /\ Conclude(fs).category \in SignalNames \cup {"none"}
         /\ (\E i \in DOMAIN fs : fs[i].causes # <<>>) => Conclude(fs).status = "root_cause_identified"
         /\ Conclude(fs).status = "root_cause_identified" =>
              \E i \in DOMAIN fs : /\ fs[i].causes # <<>> /\ Conclude(fs).category = fs[i].causes[1]
                                   /\ \A m \in 1 .. i - 1 : fs[m].causes = <<>>
<1> DEFINE parts  == [i \in DOMAIN fs |-> fs[i].causes]
           causes == FlattenSeq(parts)
           best   == Hypothesis(fs)
           r      == Conclude(fs)
<1>1. parts \in Seq(Seq(SignalNames)) /\ Len(parts) = Len(fs) /\ DOMAIN fs = 1 .. Len(fs)
  <2>1. \A i \in DOMAIN fs : fs[i].causes \in Seq(SignalNames)
    BY DEF Follows
  <2>2. DOMAIN fs = 1 .. Len(fs) /\ Len(fs) \in Nat
    OBVIOUS
  <2>3. parts \in [1 .. Len(fs) -> Seq(SignalNames)]
    BY <2>1, <2>2
  <2> HIDE DEF parts
  <2> QED BY <2>2, <2>3
<1>2. \A i \in DOMAIN fs : parts[i] = fs[i].causes
  OBVIOUS
<1>3. best = IF causes = <<>> THEN [category |-> "unknown", confidence |-> "low"]
                              ELSE [category |-> causes[1], confidence |-> "medium"]
  BY DEF Hypothesis
<1> HIDE DEF parts, causes
<1>4. causes \in Seq(SignalNames) /\ Holds(parts, Len(parts), causes)
  BY <1>1, FlattenHolds DEF causes
<1> DEFINE D == 1 .. Len(parts)
<1>5. /\ \A k \in D : \A i \in DOMAIN parts[k] : \E j \in DOMAIN causes : parts[k][i] = causes[j]
      /\ causes # <<>> => \E k \in D : /\ parts[k] # <<>> /\ causes[1] = parts[k][1]
                                       /\ \A m \in 1 .. k - 1 : parts[m] = <<>>
  BY <1>4, Zenon DEF Holds
<1>6. D = DOMAIN fs /\ \A k \in D : \A m \in 1 .. k - 1 : m \in D
  BY <1>1
<1> HIDE DEF D, best
<1>7. CASE causes = <<>>
  <2>1. best.confidence = "low"
    BY <1>3, <1>7
  <2>2. Verdict(best, fs) # "approved"
    BY <2>1 DEF Verdict
  <2>3. r = [status |-> "inconclusive", category |-> "none"]
    BY <2>2 DEF Conclude, best
  <2>4. \A i \in DOMAIN fs : fs[i].causes = <<>>
    <3> TAKE i \in DOMAIN fs
    <3> DEFINE part == parts[i]
    <3>1. part \in Seq(SignalNames) /\ part = fs[i].causes
      BY <1>1, <1>2
    <3>2. \A j \in DOMAIN part : FALSE
      BY <1>5, <1>6, <1>7
    <3> HIDE DEF part
    <3>3. part # <<>> => 1 \in DOMAIN part
      BY <3>1
    <3> QED BY <3>1, <3>2, <3>3
  <2> QED BY <2>3, <2>4
<1>8. CASE causes # <<>>
  <2>1. best = [category |-> causes[1], confidence |-> "medium"]
    BY <1>3, <1>8
  <2>2. PICK k \in D : /\ parts[k] # <<>> /\ causes[1] = parts[k][1]
                       /\ \A m \in 1 .. k - 1 : parts[m] = <<>>
    BY <1>5, <1>8
  <2>3. fs # <<>> /\ causes[1] \in SignalNames
    <3>1. fs # <<>>
      BY <1>6, <2>2
    <3>2. causes[1] \in SignalNames
      BY <1>4, <1>8
    <3> QED BY <3>1, <3>2
  <2>4. Verdict(best, fs) = "approved"
    BY <2>1, <2>3 DEF Verdict
  <2>5. r = [status |-> "root_cause_identified", category |-> causes[1]]
    BY <2>1, <2>4 DEF Conclude, best
  <2>6. /\ fs[k].causes # <<>> /\ r.category = fs[k].causes[1] /\ k \in DOMAIN fs
        /\ \A m \in 1 .. k - 1 : fs[m].causes = <<>>
    BY <1>2, <1>6, <2>2, <2>5
  <2> QED BY <2>3, <2>5, <2>6
<1> QED BY <1>7, <1>8

-----------------------------------------------------------------------------
(* Types *)

\* The evidence, the findings and the report; what they are made of follows from the tools.
DataInv ==
  /\ evidence \in Seq(EvidenceSet)
  /\ \A i \in DOMAIN findings : Follows(findings[i])
  /\ report = IF pc = "done" THEN Conclude(findings) ELSE NoReport

\* The world, the phase and the window, which is of a time the run was at while it waits for
\* the tool's answer.
WorldInv ==
  /\ samples \in Seq(Sample) /\ later \in 0 .. MaxLater
  /\ latest \in Nat \cup {NoSample}
  /\ pc \in Waiting \cup Ended /\ slow \in BOOLEAN /\ unencoded \in BOOLEAN
  /\ since <= clock
  /\ window = NoWindow \/ window \in [trigger : Nat, start : Int, end : Nat]
  /\ pc = "built" =>
       \E trigger \in Nat : \E now \in Nat : since <= now /\ window = Window(trigger, now)

\* A run begins with nothing but the sample of its incident.
LEMMA InitTypes == Init => DataInv /\ WorldInv
<1> SUFFICES ASSUME Init PROVE DataInv /\ WorldInv
  OBVIOUS
<1>1. clock \in Nat
  BY EvidenceAssumption DEF Init
<1>2. PICK data \in SampleData : samples = <<At(clock, data)>>
  BY DEF Init
<1>3. At(clock, data) \in Sample
  BY <1>1, RcaGraphAssumption DEF At, Sample
<1>4. samples \in Seq(Sample)
  BY <1>2, <1>3
<1>5. WorldInv
  <2>1. later = 0 /\ 0 \in 0 .. MaxLater /\ latest \in Nat \cup {NoSample}
    BY <1>1, RcaGraphAssumption DEF Init
  <2>2. pc \in Waiting \cup Ended /\ pc # "built" /\ slow \in BOOLEAN /\ unencoded \in BOOLEAN
    BY DEF Init, Waiting
  <2>3. since <= clock /\ window = NoWindow
    BY <1>1 DEF Init
  <2> QED BY <1>4, <2>1, <2>2, <2>3 DEF WorldInv
<1>6. DataInv
  <2>1. <<>> \in Seq(EvidenceSet) /\ DOMAIN <<>> = {}
    OBVIOUS
  <2>2. evidence = <<>> /\ findings = <<>> /\ report = NoReport /\ pc # "done"
    BY DEF Init
  <2> QED BY <2>1, <2>2, Zenon DEF DataInv
<1> QED BY <1>5, <1>6

\* Every step keeps the types of the evidence and what the findings follow from.
LEMMA NextData == ShapeInv /\ PlanInv /\ WorldInv /\ DataInv /\ [Next]_vars => DataInv'
<1> SUFFICES ASSUME ShapeInv, PlanInv, WorldInv, DataInv, [Next]_vars PROVE DataInv'
  OBVIOUS
<1>e. <<>> \in Seq(EvidenceSet) /\ DOMAIN <<>> = {}
  OBVIOUS
<1>f. ASSUME Fail, report' = report, pc # "done" PROVE DataInv'
  <2>1. evidence' = <<>> /\ findings' = <<>> /\ pc' = "failed" /\ report' = NoReport
    BY <1>f DEF Fail, DataInv
  <2>2. pc' # "done"
    BY <2>1
  <2> QED BY <1>e, <2>1, <2>2, Zenon DEF DataInv
<1>u. ASSUME evidence' = evidence, findings' = findings, report' = report,
             pc' = "done" <=> pc = "done"
      PROVE  DataInv'
  <2>1. report' = IF pc' = "done" THEN Conclude(findings) ELSE NoReport
    BY <1>u DEF DataInv
  <2> QED BY <1>u, <2>1, Zenon DEF DataInv
<1>1. CASE Connect
  <2>1. CASE Fail
    BY <1>f, <1>1, <2>1 DEF Connect
  <2>2. CASE ~Fail
    BY <1>u, <1>1, <2>2 DEF Connect, Await
  <2> QED BY <2>1, <2>2
<1>2. CASE LoadContext
  <2>1. CASE Fail
    BY <1>f, <1>2, <2>1 DEF LoadContext
  <2>2. CASE ~Fail
    BY <1>u, <1>2, <2>2 DEF LoadContext, Await
  <2> QED BY <2>1, <2>2
<1>3. CASE BuildContext
  <2>1. CASE Fail
    BY <1>f, <1>3, <2>1 DEF BuildContext
  <2>2. CASE ~Fail
    BY <1>u, <1>3, <2>2 DEF BuildContext
  <2> QED BY <2>1, <2>2
<1>4. CASE Collect
  <2>1. Tool \in Tools
    <3>1. left \in Seq(Calls) /\ left # <<>>
      BY <1>4 DEF Collect, ShapeInv
    <3>2. Head(left) \in Calls
      BY <3>1
    <3> QED BY <3>2 DEF Calls, Tool
  <2>2. PICK bundle \in Found(Tool) : evidence' = Append(evidence, bundle)
    BY <1>4 DEF Collect
  <2>3. bundle \in EvidenceSet
    BY <2>1, FoundTyped DEF WorldInv
  <2>4. evidence' \in Seq(EvidenceSet)
    BY <2>2, <2>3 DEF DataInv
  <2>5. findings' = findings /\ report' = report /\ pc # "done" /\ pc' # "done"
    BY <1>4 DEF Collect, Await
  <2>6. report' = NoReport
    BY <2>5 DEF DataInv
  <2> QED BY <2>4, <2>5, <2>6, Zenon DEF DataInv
<1>5. CASE Summarize
  <2> DEFINE f == Finding(evidence)
  <2>1. Follows(f)
    BY FindingFollows DEF DataInv
  <2>2. findings' = Append(findings, f) /\ evidence' = <<>>
    BY <1>5 DEF Summarize
  <2>3. PICK S : findings \in Seq(S)
    BY DEF ShapeInv
  <2> HIDE DEF f
  <2>4. \A i \in DOMAIN findings' : findings'[i] = f \/ (i \in DOMAIN findings /\ findings'[i] = findings[i])
    <3>1. findings \in Seq(S \cup {f}) /\ f \in S \cup {f}
      BY <2>3
    <3> QED BY <2>2, <3>1
  <2>5. \A i \in DOMAIN findings' : Follows(findings'[i])
    BY <2>1, <2>4, Zenon DEF DataInv
  <2>6. CASE left = <<>>
    <3>1. pc' = "done" /\ report' = Conclude(findings')
      BY <1>5, <2>6 DEF Summarize
    <3> QED BY <1>e, <2>2, <2>5, <3>1, Zenon DEF DataInv
  <2>7. CASE left # <<>>
    <3>1. pc' # "done" /\ pc # "done" /\ report' = report
      BY <1>5, <2>7 DEF Summarize, Await
    <3>2. report' = NoReport
      BY <3>1 DEF DataInv
    <3> QED BY <1>e, <2>2, <2>5, <3>1, <3>2, Zenon DEF DataInv
  <2> QED BY <2>6, <2>7
<1>12. CASE AnswerEmpty
  BY <1>f, <1>12 DEF AnswerEmpty
<1>6. CASE Raises
  BY <1>f, <1>6 DEF Raises, Waiting
<1>7. CASE TimesOut
  BY <1>f, <1>7 DEF TimesOut, Waiting
<1>8. CASE Tick
  BY <1>u, <1>8 DEF Tick
<1>9. CASE CollectSample
  BY <1>u, <1>9 DEF CollectSample
<1>10. CASE DropSample
  BY <1>u, <1>10 DEF DropSample
<1>11. CASE UNCHANGED vars
  BY <1>u, <1>11 DEF vars
<1> QED BY <1>1, <1>2, <1>3, <1>4, <1>5, <1>6, <1>7, <1>8, <1>9, <1>10, <1>11, <1>12 DEF Next

\* Every step keeps the types of the world, the phase and the window.
LEMMA NextWorld == ShapeInv /\ WorldInv /\ [Next]_vars => WorldInv'
<1> SUFFICES ASSUME ShapeInv, WorldInv, [Next]_vars PROVE WorldInv'
  OBVIOUS
<1>0. /\ clock \in Nat /\ since \in Nat /\ opened \in Nat /\ since <= clock
      /\ samples \in Seq(Sample) /\ later \in 0 .. MaxLater /\ latest \in Nat \cup {NoSample}
      /\ slow \in BOOLEAN /\ unencoded \in BOOLEAN /\ MaxLater \in Nat
  BY RcaGraphAssumption DEF ShapeInv, WorldInv
<1>s. ASSUME UNCHANGED world, slow' = slow, unencoded' \in BOOLEAN, clock' = clock, pc' \in Waiting \cup Ended, pc' # "built",
             since' = since \/ since' = clock, window' = window \/ window' = NoWindow
      PROVE  WorldInv'
  <2>1. since' <= clock'
    BY <1>0, <1>s
  <2>2. window' = NoWindow \/ window' \in [trigger : Nat, start : Int, end : Nat]
    BY <1>s DEF WorldInv
  <2> QED BY <1>s, <2>1, <2>2 DEF WorldInv, world
<1>1. CASE Connect
  BY <1>0, <1>s, <1>1 DEF Connect, Await, Fail, NoFault, Waiting, Ended
<1>2. CASE LoadContext
  BY <1>0, <1>s, <1>2 DEF LoadContext, Await, Fail, NoFault, Waiting, Ended
<1>3. CASE BuildContext
  <2>1. CASE Fail
    BY <1>0, <1>s, <1>3, <2>1 DEF BuildContext, Fail, NoFault, Waiting, Ended
  <2>2. CASE ~Fail
    <3> DEFINE trigger == IF latest # NoSample THEN latest ELSE opened
    <3>1. /\ pc' = "built" /\ window' = Window(trigger, clock) /\ since' = since
          /\ UNCHANGED <<world, clock, history>>
      BY <1>3, <2>2 DEF BuildContext, NoFault
    <3>2. trigger \in Nat
      BY <1>0
    <3> HIDE DEF trigger
    <3>3. window' \in [trigger : Nat, start : Int, end : Nat]
      BY <1>0, <3>1, <3>2, WindowHolds
    <3>4. \E t \in Nat : \E now \in Nat : since' <= now /\ window' = Window(t, now)
      BY <1>0, <3>1, <3>2
    <3>5. pc' \in Waiting
      BY <3>1 DEF Waiting
    <3> QED BY <1>0, <3>1, <3>3, <3>4, <3>5 DEF WorldInv, world
  <2> QED BY <2>1, <2>2
<1>4. CASE Collect
  BY <1>0, <1>s, <1>4 DEF Collect, Await, NoFault, Waiting
<1>5. CASE Summarize
  BY <1>0, <1>s, <1>5 DEF Summarize, Await, NoFault, Waiting, Ended
<1>12. CASE AnswerEmpty
  BY <1>0, <1>s, <1>12 DEF AnswerEmpty, Fail, Ended
<1>6. CASE Raises
  BY <1>0, <1>s, <1>6 DEF Raises, Fail, Ended
<1>7. CASE TimesOut
  BY <1>0, <1>s, <1>7 DEF TimesOut, Fail, Ended
<1>8. CASE Tick
  <2>1. /\ clock' = clock + 1 /\ slow' \in BOOLEAN
        /\ UNCHANGED <<world, unencoded, pc, since, window>>
    BY <1>0, <1>8 DEF Tick
  <2>2. since' <= clock'
    BY <1>0, <2>1
  <2> QED BY <2>1, <2>2 DEF WorldInv, world
<1>9. CASE CollectSample
  <2>1. PICK data \in SampleData : samples' = Append(samples, At(clock, data))
    BY <1>9 DEF CollectSample
  <2>2. At(clock, data) \in Sample
    BY <1>0, RcaGraphAssumption DEF At, Sample
  <2>3. samples' \in Seq(Sample)
    BY <1>0, <2>1, <2>2
  <2>4. later' \in 0 .. MaxLater /\ latest' \in Nat \cup {NoSample}
    BY <1>0, <1>9 DEF CollectSample
  <2> QED BY <1>9, <2>3, <2>4 DEF CollectSample, WorldInv
<1>10. CASE DropSample
  <2>1. samples' \in Seq(Sample)
    BY <1>0, <1>10 DEF DropSample
  <2>2. latest' \in Nat \cup {NoSample}
    BY <1>0, <1>10 DEF DropSample
  <2> QED BY <1>10, <2>1, <2>2 DEF DropSample, WorldInv
<1>11. CASE UNCHANGED vars
  BY <1>11 DEF vars, world, WorldInv
<1> QED BY <1>1, <1>2, <1>3, <1>4, <1>5, <1>6, <1>7, <1>8, <1>9, <1>10, <1>11, <1>12 DEF Next

\* The invariants together.
RunInv == ShapeInv /\ PlanInv /\ WorldInv /\ DataInv

LEMMA RunInvAlways == Spec => []RunInv
<1>1. Init => RunInv
  BY InitPrompt, InitPlan, InitTypes DEF RunInv
<1>2. RunInv /\ [Next]_vars => RunInv'
  BY NextShape, NextPlan, NextWorld, NextData DEF RunInv
<1> QED BY <1>1, <1>2, PTL DEF Spec

\* The invariants give the types.
LEMMA RunInvTypes == RunInv => TypeOK
<1> SUFFICES ASSUME RunInv PROVE TypeOK
  OBVIOUS
<1>1. clock \in Nat /\ since \in 0 .. clock
  BY DEF RunInv, ShapeInv, WorldInv
<1>2. expiry \in Nat /\ opened \in Nat /\ faults \in Nat
  <2> DEFINE t == opened + TokenLife
  <2>1. opened \in Nat /\ faults \in Nat /\ expiry = WholeSecond(t)
    BY DEF RunInv, ShapeInv, Expiry
  <2>2. t \in Nat
    BY <2>1, RcaGraphAssumption
  <2> HIDE DEF t
  <2> QED BY <2>1, <2>2, WholeSecondNat
<1>3. /\ samples \in Seq(Sample) /\ later \in 0 .. MaxLater /\ latest \in Nat \cup {NoSample}
      /\ pc \in Waiting \cup Ended /\ slow \in BOOLEAN /\ unencoded \in BOOLEAN
      /\ window = NoWindow \/ window \in [trigger : Nat, start : Int, end : Nat]
  BY DEF RunInv, WorldInv
<1>4. \A i \in DOMAIN left : left[i] \in Seq(AllTools) /\ left[i] # <<>>
  <2> TAKE i \in DOMAIN left
  <2>1. left[i] \in Calls
    BY DEF RunInv, ShapeInv
  <2>2. left[i] \in Seq(Tools) /\ left[i] # <<>>
    BY <2>1 DEF Calls
  <2> QED BY <2>2 DEF Tools
<1>5. \A i \in DOMAIN evidence :
        /\ evidence[i].tool \in Tools /\ evidence[i].signals \in Seq(SignalNames)
        /\ evidence[i].samples \in Nat /\ evidence[i].failed \in BOOLEAN
  <2> TAKE i \in DOMAIN evidence
  <2>1. evidence[i] \in EvidenceSet
    BY DEF RunInv, DataInv
  <2> QED BY <2>1 DEF EvidenceSet
<1>6. \A i \in DOMAIN findings :
        /\ findings[i].causes \in Seq(SignalNames) /\ Len(findings[i].causes) <= 5
        /\ \A j \in DOMAIN findings[i].evidence : ReferenceOK(findings[i].evidence[j])
  <2> TAKE i \in DOMAIN findings
  <2>1. Follows(findings[i])
    BY DEF RunInv, DataInv
  <2> DEFINE refs == findings[i].evidence
  <2>2. refs \in Seq(ReferenceSet)
    BY <2>1 DEF Follows
  <2> HIDE DEF refs
  <2>3. \A j \in DOMAIN refs : ReferenceOK(refs[j])
    <3> TAKE j \in DOMAIN refs
    <3>1. refs[j] \in ReferenceSet
      BY <2>2
    <3> QED BY <3>1 DEF ReferenceSet, ReferenceOK
  <2> QED BY <2>1, <2>3 DEF Follows, refs
<1>7. report.status \in {"none", "root_cause_identified", "inconclusive"}
      /\ report.category \in SignalNames \cup {"none"}
  <2>1. PICK S : findings \in Seq(S)
    BY DEF RunInv, ShapeInv
  <2>2. \A i \in DOMAIN findings : Follows(findings[i])
    BY DEF RunInv, DataInv
  <2>3. report = Conclude(findings) \/ report = NoReport
    BY DEF RunInv, DataInv
  <2>4. CASE report = Conclude(findings)
    BY <2>1, <2>2, <2>4, ConcludeFollows
  <2>5. CASE report = NoReport
    BY <2>5 DEF NoReport
  <2> QED BY <2>3, <2>4, <2>5
<1> QED BY <1>1, <1>2, <1>3, <1>4, <1>5, <1>6, <1>7 DEF TypeOK

\* Type correctness: whatever the tools answer, in whatever order time, samples and failures
\* come, the evidence, the findings with their at most five causes and the report are what
\* the agent expects.
THEOREM TypeCorrect == Spec => []TypeOK
<1>1. RunInv => TypeOK
  BY RunInvTypes
<1> QED BY <1>1, RunInvAlways, PTL

\* The findings of a report and the report say what the bundles say.
LEMMA RunInvFollows == RunInv => ReportFollowsEvidence
<1> SUFFICES ASSUME RunInv, pc = "done"
             PROVE  /\ report.status = "root_cause_identified" <=> \E b \in Bundles : b.signals # <<>>
                    /\ report.status = "root_cause_identified" =>
                         \E i \in DOMAIN findings :
                           /\ \E b \in ToSet(findings[i].evidence) : report.category \in ToSet(b.signals)
                           /\ \A k \in 1 .. i - 1 : \A b \in ToSet(findings[k].evidence) : b.signals = <<>>
  BY DEF ReportFollowsEvidence
<1>1. PICK S : findings \in Seq(S)
  BY DEF RunInv, ShapeInv
<1>2. \A i \in DOMAIN findings : Follows(findings[i])
  BY DEF RunInv, DataInv
<1>3. report = Conclude(findings)
  BY DEF RunInv, DataInv
<1>4. /\ (\E i \in DOMAIN findings : findings[i].causes # <<>>)
           => report.status = "root_cause_identified"
      /\ report.status = "root_cause_identified" =>
           \E i \in DOMAIN findings : /\ findings[i].causes # <<>>
                                      /\ report.category = findings[i].causes[1]
                                      /\ \A m \in 1 .. i - 1 : findings[m].causes = <<>>
  BY <1>1, <1>2, <1>3, ConcludeFollows
<1>5. ASSUME NEW i \in DOMAIN findings, findings[i].causes = <<>>
      PROVE  \A b \in ToSet(findings[i].evidence) : b.signals = <<>>
  BY <1>2, <1>5 DEF Follows, ToSet
<1>6. ASSUME NEW i \in DOMAIN findings, findings[i].causes # <<>>
      PROVE  \E b \in ToSet(findings[i].evidence) :
               b.signals # <<>> /\ findings[i].causes[1] \in ToSet(b.signals)
  <2> DEFINE refs == findings[i].evidence
  <2>1. PICK j \in DOMAIN refs : \E k \in DOMAIN refs[j].signals : refs[j].signals[k] = findings[i].causes[1]
    BY <1>2, <1>6, Zenon DEF Follows
  <2>2. refs[j] \in ToSet(refs) /\ findings[i].causes[1] \in ToSet(refs[j].signals)
    BY <2>1 DEF ToSet
  <2>3. refs[j].signals # <<>>
    BY <2>1
  <2> QED BY <2>2, <2>3
<1>7. ASSUME report.status = "root_cause_identified"
      PROVE  \E i \in DOMAIN findings :
               /\ \E b \in ToSet(findings[i].evidence) : b.signals # <<>> /\ report.category \in ToSet(b.signals)
               /\ \A k \in 1 .. i - 1 : \A b \in ToSet(findings[k].evidence) : b.signals = <<>>
  <2>1. PICK i \in DOMAIN findings : /\ findings[i].causes # <<>>
                                     /\ report.category = findings[i].causes[1]
                                     /\ \A m \in 1 .. i - 1 : findings[m].causes = <<>>
    BY <1>4, <1>7
  <2>2. \A m \in 1 .. i - 1 : m \in DOMAIN findings
    BY <1>1
  <2>3. \A m \in 1 .. i - 1 : \A b \in ToSet(findings[m].evidence) : b.signals = <<>>
    BY <1>5, <2>1, <2>2, Zenon
  <2>4. \E b \in ToSet(findings[i].evidence) : b.signals # <<>> /\ report.category \in ToSet(b.signals)
    BY <1>6, <2>1
  <2> QED BY <2>3, <2>4
<1>8. ASSUME NEW b \in Bundles, b.signals # <<>>
      PROVE  report.status = "root_cause_identified"
  <2>1. PICK i \in DOMAIN findings : b \in ToSet(findings[i].evidence)
    BY DEF Bundles
  <2> QED BY <1>4, <1>5, <1>8, <2>1
<1>9. ASSUME report.status = "root_cause_identified"
      PROVE  \E b \in Bundles : b.signals # <<>>
  <2>1. PICK i \in DOMAIN findings : \E b \in ToSet(findings[i].evidence) : b.signals # <<>>
    BY <1>7, <1>9
  <2> QED BY <2>1 DEF Bundles
<1> QED BY <1>7, <1>8, <1>9

\* A report names a root cause exactly when some tool signalled something, and the cause is a
\* signal of the first specialist that has one, whatever the tools may answer.
THEOREM ReportAlwaysFollows == Spec => []ReportFollowsEvidence
<1>1. RunInv => ReportFollowsEvidence
  BY RunInvFollows
<1> QED BY <1>1, RunInvAlways, PTL

-----------------------------------------------------------------------------
(* The sample of the trigger *)

\* DEFAULT_LOOKAHEAD_MINUTES is not zero.
LooksAhead == Lookahead >= TicksPerSecond

\* The window of a call that begins a whole second after its trigger holds the samples of that
\* time.
LEMMA TriggerInWindow ==
  ASSUME LooksAhead, RunInv, pc = "built", WholeSecond(since) >= window.trigger,
         NEW i \in DOMAIN samples, samples[i].at = window.trigger
  PROVE  samples[i].at >= window.start /\ samples[i].at <= window.end
<1>1. PICK trigger \in Nat : \E now \in Nat : since <= now /\ window = Window(trigger, now)
  BY DEF RunInv, WorldInv
<1>2. PICK now \in Nat : since <= now /\ window = Window(trigger, now)
  BY <1>1
<1>3. since \in Nat
  BY DEF RunInv, ShapeInv
<1>4. /\ WholeSecond(since) <= WholeSecond(now)
      /\ WholeSecond(since) \in Int /\ WholeSecond(now) \in Int
  BY <1>2, <1>3, WholeSecondMonotone, WholeSecondNear
<1>5. window.trigger = trigger /\ window.start <= trigger
  BY <1>2, WindowHolds
<1>6. trigger <= WholeSecond(now)
  BY <1>4, <1>5
<1>7. trigger <= window.end
  BY <1>2, <1>6, WindowHolds DEF LooksAhead
<1>8. window \in [trigger : Nat, start : Int, end : Nat]
  BY <1>2, WindowHolds
<1> QED BY <1>5, <1>7, <1>8

\* The evidence grows by the answer of a tool only, and that of get_health_samples has a sample.
LEMMA SampleSeenStep ==
  ASSUME LooksAhead, RunInv, [Next]_vars,
         Len(evidence') > Len(evidence), Last(evidence').tool = "get_health_samples"
  PROVE  \/ Last(evidence').failed \/ Last(evidence').samples > 0
         \/ WholeSecond(since) < window.trigger
         \/ \A i \in DOMAIN samples : samples[i].at # window.trigger
<1>1. evidence \in Seq(EvidenceSet) /\ Len(evidence) \in Nat
  BY DEF RunInv, DataInv
<1>2. Collect
  <2>1. evidence' # evidence /\ evidence' # <<>>
    BY <1>1
  <2> QED BY <2>1 DEF Next, vars, Connect, LoadContext, BuildContext, AnswerEmpty, Summarize, Raises,
                      TimesOut, Tick, CollectSample, DropSample, Fail
<1>3. Tool \in Tools
  <2>1. left \in Seq(Calls) /\ left # <<>>
    BY <1>2 DEF Collect, RunInv, ShapeInv
  <2>2. Head(left) \in Calls
    BY <2>1
  <2> QED BY <2>2 DEF Calls, Tool
<1>4. PICK bundle \in Found(Tool) : evidence' = Append(evidence, bundle)
  BY <1>2 DEF Collect
<1>5. bundle \in EvidenceSet
  BY <1>3, FoundTyped DEF RunInv, WorldInv
<1>6. Last(evidence') = bundle
  BY <1>1, <1>4, <1>5 DEF Last
<1>7. Tool = "get_health_samples"
  BY <1>3, <1>6, FoundIsOfTool
<1>8. bundle = Unavailable(Tool) \/ bundle = HealthSamples(SamplesIn(samples, window))
  BY <1>4, <1>7 DEF Found, SampleBundles
<1>9. CASE bundle = Unavailable(Tool)
  BY <1>6, <1>9 DEF Unavailable
<1>10. CASE bundle = HealthSamples(SamplesIn(samples, window))
  <2> SUFFICES ASSUME ~(WholeSecond(since) < window.trigger),
                      NEW i \in DOMAIN samples, samples[i].at = window.trigger
               PROVE  bundle.samples > 0
    BY <1>6
  <2>1. pc = "built" /\ samples \in Seq(Sample)
    BY <1>2 DEF Collect, RunInv, WorldInv
  <2>2. window.trigger \in Nat /\ WholeSecond(since) \in Int
    <3>1. since \in Nat
      BY DEF RunInv, ShapeInv
    <3>2. samples[i].at \in Nat
      <4>1. samples[i] \in Sample
        BY <2>1
      <4> QED BY <4>1 DEF Sample
    <3> QED BY <3>1, <3>2, WholeSecondNear
  <2>3. samples[i].at >= window.start /\ samples[i].at <= window.end
    BY <2>1, <2>2, TriggerInWindow
  <2> DEFINE read == SamplesIn(samples, window)
  <2>4. read \in Seq(Sample) /\ read # <<>>
    BY <2>1, <2>3, SamplesInHolds
  <2> HIDE DEF read
  <2>5. HealthSamples(read).samples > 0
    BY <2>4, SamplesCounted
  <2> QED BY <1>10, <2>5 DEF read
<1> QED BY <1>8, <1>9, <1>10

\* A call that begins a whole second after the sample its window is derived from finds a sample,
\* whatever is collected or deleted meanwhile.
THEOREM TriggerSampleIsSeen == LooksAhead => (Spec => TriggerSampleSeen)
<1> SUFFICES ASSUME LooksAhead PROVE Spec => TriggerSampleSeen
  OBVIOUS
<1>1. RunInv /\ [Next]_vars =>
        [Len(evidence') > Len(evidence) /\ Last(evidence').tool = "get_health_samples" =>
           \/ Last(evidence').failed \/ Last(evidence').samples > 0
           \/ WholeSecond(since) < window.trigger
           \/ \A i \in DOMAIN samples : samples[i].at # window.trigger]_vars
  BY SampleSeenStep
<1> QED BY <1>1, RunInvAlways, PTL DEF Spec, TriggerSampleSeen
=============================================================================
