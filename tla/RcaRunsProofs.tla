--------------------------- MODULE RcaRunsProofs ----------------------------
(* Theorems about RcaRuns for any number of agents, runs, task slots, chat   *)
(* requests, faults and agent stops.                                         *)
EXTENDS RcaRuns, FiniteSetTheorems, TLAPS

\* The two history variables go together in most steps.
USE DEF history

-----------------------------------------------------------------------------
(* Facts about tasks *)

\* The run of a task is a run.
LEMMA RunOfTask == ASSUME NEW t \in Tasks PROVE RunOf(t) \in Runs
BY DEF Tasks, RunOf

\* The slot Spawn takes is a free one of that agent and run.
LEMMA FreeSlotIsIdle ==
  ASSUME NEW a \in Agents, NEW r \in Runs, HasFreeSlot(a, r)
  PROVE  FreeSlot(a, r) \in Tasks /\ pc[FreeSlot(a, r)] = "idle"
BY DEF HasFreeSlot, FreeSlot, Tasks

\* Spawning starts tasks in free slots only: every other task stays where it is.
LEMMA SpawnKeepsTasks ==
  ASSUME NEW a \in Agents, NEW R \in SUBSET Runs, Spawn(a, R), NEW t \in Tasks
  PROVE  pc'[t] = pc[t] \/ (pc[t] = "idle" /\ pc'[t] = "claim")
<1> DEFINE new == {FreeSlot(a, r) : r \in {q \in R : HasFreeSlot(a, q)}}
<1>1. pc'[t] = IF t \in new THEN "claim" ELSE pc[t]
  BY DEF Spawn
<1>2. ASSUME t \in new PROVE pc[t] = "idle"
  BY <1>2, FreeSlotIsIdle
<1> QED BY <1>1, <1>2

-----------------------------------------------------------------------------
(* Type correctness *)

\* The initial state is well typed.
LEMMA InitType == Init => TypeOK
BY DEF Init, TypeOK, Row, NoRow, Status, PC, NoChat, ChatState

\* The three updates of a run keep its row and its events well formed.
LEMMA UpdatesType ==
  ASSUME TypeOK, NEW r \in Runs, MarkRunning(r) \/ CompleteRun(r) \/ FailRun(r)
  PROVE  row' \in [Runs -> Row] /\ events' \in [Runs -> [Event -> Nat]]
<1>1. CASE MarkRunning(r)
  BY <1>1 DEF TypeOK, MarkRunning, Row, Status, Event
<1>2. CASE CompleteRun(r)
  BY <1>2 DEF TypeOK, CompleteRun, Row, Status, Event
<1>3. CASE FailRun(r)
  BY <1>3 DEF TypeOK, FailRun, Row, Status, Event
<1> QED BY <1>1, <1>2, <1>3

\* A step of a task keeps the types.
LEMMA TaskStepType ==
  ASSUME TypeOK, NEW t \in Tasks, TaskStep(t)
  PROVE  TypeOK'
<1> DEFINE r == RunOf(t)
<1>0. r \in Runs
  BY RunOfTask
<1>1. row' \in [Runs -> Row] /\ events' \in [Runs -> [Event -> Nat]]
  <2>1. UNCHANGED <<row, events>> \/ MarkRunning(r) \/ CompleteRun(r) \/ FailRun(r)
    BY DEF TaskStep, Claim, Skip, ClaimRaises, SelectThread, InsertThread, ThreadConflict,
           ThreadRaises, GraphReturns, GraphRaises, Complete, CompleteRaises, Fail,
           FailUnclaimed, FailRaises
  <2> HIDE DEF r
  <2>2. CASE UNCHANGED <<row, events>>
    BY <2>2 DEF TypeOK
  <2> QED BY <1>0, <2>1, <2>2, UpdatesType
<1>2. pc' \in [Tasks -> PC]
  <2>1. \E from, to \in PC : Goto(t, from, to)
    BY DEF TaskStep, Claim, Skip, ClaimRaises, SelectThread, InsertThread, ThreadConflict,
           ThreadRaises, GraphReturns, GraphRaises, Complete, CompleteRaises, Fail,
           FailUnclaimed, FailRaises, PC
  <2> QED BY <2>1 DEF Goto, TypeOK
<1>3. thread' \in [Runs -> {"none", "run", "chat"}]
  BY <1>0 DEF TaskStep, Claim, Skip, ClaimRaises, SelectThread, InsertThread, ThreadConflict,
         ThreadRaises, GraphReturns, GraphRaises, Complete, CompleteRaises, Fail,
         FailUnclaimed, FailRaises, TypeOK
<1>4. faults' \in Nat /\ stray' \in SUBSET Runs /\ dropped' \in SUBSET Runs
  BY <1>0 DEF TaskStep, Claim, Skip, ClaimRaises, SelectThread, InsertThread, ThreadConflict,
         ThreadRaises, GraphReturns, GraphRaises, Complete, CompleteRaises, Fail,
         FailUnclaimed, FailRaises, TypeOK, Fault, NoFault
<1>5. UNCHANGED <<messages, trigger, up, chat, crashes>>
  BY DEF TaskStep
<1> QED BY <1>1, <1>2, <1>3, <1>4, <1>5 DEF TypeOK

\* A step of a chat request keeps the types.
LEMMA ChatStepType ==
  ASSUME TypeOK, NEW c \in Chats, ChatStep(c)
  PROVE  TypeOK'
<1> DEFINE r == chat[c].run
<1>1. UNCHANGED <<rcaVars, trigger, up, pc, crashes>>
  BY DEF ChatStep
<1>2. chat[c].pc # "idle" => /\ chat[c] \in [pc : ChatPC, run : Runs, kind : {"post", "get"}]
                            /\ r \in Runs
  BY DEF TypeOK, ChatState
<1>3. \A from \in ChatPC \ {"idle"}, to \in ChatPC : ChatGoto(c, from, to) => chat' \in [Chats -> ChatState]
  <2> SUFFICES ASSUME NEW from \in ChatPC \ {"idle"}, NEW to \in ChatPC, ChatGoto(c, from, to)
               PROVE  chat' \in [Chats -> ChatState]
    OBVIOUS
  <2> DEFINE new == IF to = "idle" THEN NoChat
                    ELSE [pc |-> to, run |-> chat[c].run, kind |-> chat[c].kind]
  <2>1. new \in ChatState
    BY <1>2 DEF ChatGoto, ChatState, NoChat
  <2>2. chat' = [chat EXCEPT ![c] = new]
    BY DEF ChatGoto
  <2> QED BY <2>1, <2>2 DEF TypeOK
<1>4. \A role \in {"user", "assistant"} :
         r \in Runs /\ AddMessage(c, role) => messages' \in [Runs -> Seq({"user", "assistant"})]
  BY DEF AddMessage, TypeOK
<1>5. faults \in Nat /\ (Fault => faults' \in Nat)
  BY DEF Fault, TypeOK
<1>6. ASSUME NEW q \in Runs, NEW kind \in {"post", "get"}, ChatStart(c, q, kind) PROVE TypeOK'
  <2>1. chat' \in [Chats -> ChatState]
    BY <1>6 DEF ChatStart, TypeOK, ChatState, ChatPC
  <2> QED BY <1>1, <1>6, <2>1 DEF ChatStart, TypeOK, rcaVars
<1>7. CASE ChatSelect(c)
  <2>1. chat' \in [Chats -> ChatState]
    BY <1>3, <1>7 DEF ChatSelect, ChatPC, WithThread
  <2> QED BY <1>1, <1>7, <2>1 DEF ChatSelect, TypeOK, rcaVars
<1>8. CASE ChatInsert(c)
  <2>1. chat' \in [Chats -> ChatState]
    BY <1>3, <1>8 DEF ChatInsert, ChatPC, WithThread
  <2>2. thread' \in [Runs -> {"none", "run", "chat"}]
    <3>1. r \in Runs
      BY <1>2, <1>8 DEF ChatInsert
    <3> HIDE DEF r
    <3>2. UNCHANGED thread \/ thread' = [thread EXCEPT ![r] = "chat"]
      BY <1>8 DEF ChatInsert, r
    <3> QED BY <3>1, <3>2 DEF TypeOK
  <2> QED BY <1>1, <1>8, <2>1, <2>2 DEF ChatInsert, TypeOK, rcaVars
<1>9. CASE ChatQuestion(c) \/ ChatAnswer(c)
  <2>1. chat[c].pc # "idle" /\ chat' \in [Chats -> ChatState]
    BY <1>3, <1>9 DEF ChatQuestion, ChatAnswer, ChatPC, ChatGoto
  <2>2. messages' \in [Runs -> Seq({"user", "assistant"})]
    BY <1>2, <1>4, <1>9, <2>1 DEF ChatQuestion, ChatAnswer
  <2> QED BY <1>1, <1>9, <2>1, <2>2 DEF ChatQuestion, ChatAnswer, TypeOK, rcaVars
<1>10. CASE ChatModel(c)
  <2>1. chat' \in [Chats -> ChatState]
    BY <1>3, <1>10 DEF ChatModel, ChatPC
  <2> QED BY <1>1, <1>10, <2>1 DEF ChatModel, TypeOK, rcaVars
<1>11. CASE ChatRaises(c)
  <2>1. chat[c].pc # "idle" /\ chat' \in [Chats -> ChatState]
    BY <1>3, <1>11 DEF ChatRaises, ChatPC, ChatGoto
  <2>2. messages' \in [Runs -> Seq({"user", "assistant"})]
    BY <1>2, <1>4, <1>11, <2>1 DEF ChatRaises, TypeOK
  <2>3. thread' \in [Runs -> {"none", "run", "chat"}]
    BY <1>2, <1>11, <2>1 DEF ChatRaises, TypeOK
  <2>4. faults' \in Nat
    BY <1>5, <1>11 DEF ChatRaises
  <2> QED BY <1>1, <2>1, <2>2, <2>3, <2>4 DEF TypeOK, rcaVars
<1> QED BY <1>6, <1>7, <1>8, <1>9, <1>10, <1>11 DEF ChatStep

\* Every step keeps the types.
LEMMA NextType == TypeOK /\ [Next]_vars => TypeOK'
<1> SUFFICES ASSUME TypeOK, [Next]_vars PROVE TypeOK'
  OBVIOUS
<1>1. ASSUME NEW r \in Runs, StartRun(r) PROVE TypeOK'
  <2>1. row' \in [Runs -> Row]
    BY <1>1 DEF StartRun, TypeOK, Row, Status, NewRow, NoRow
  <2>2. events' \in [Runs -> [Event -> Nat]]
    BY <1>1 DEF StartRun, TypeOK, Event
  <2>3. trigger' \in SUBSET Runs
    BY <1>1 DEF StartRun, TypeOK
  <2> QED BY <1>1, <2>1, <2>2, <2>3 DEF StartRun, TypeOK
<1>2. ASSUME NEW r \in Runs, LoseTrigger(r) PROVE TypeOK'
  BY <1>2 DEF LoseTrigger, TypeOK
<1>3. ASSUME NEW a \in Agents, NEW R \in SUBSET Runs, Spawn(a, R)
      PROVE  pc' \in [Tasks -> PC]
  BY <1>3 DEF Spawn, TypeOK, PC
<1>4. ASSUME NEW a \in Agents, NEW r \in Runs, AcceptTrigger(a, r) PROVE TypeOK'
  <2>1. pc' \in [Tasks -> PC]
    BY <1>3, <1>4 DEF AcceptTrigger
  <2> QED BY <1>4, <2>1 DEF AcceptTrigger, TypeOK
<1>5. ASSUME NEW a \in Agents, Poll(a) PROVE TypeOK'
  <2>1. PollBatch \in SUBSET Runs
    BY DEF PollBatch, Pending
  <2>2. pc' \in [Tasks -> PC]
    BY <1>3, <1>5, <2>1 DEF Poll
  <2> QED BY <1>5, <2>2 DEF Poll, TypeOK
<1>6. ASSUME NEW a \in Agents, AgentStops(a) PROVE TypeOK'
  <2>1. dropped' \in SUBSET Runs
    BY <1>6, RunOfTask DEF AgentStops, TypeOK
  <2> QED BY <1>6, <2>1 DEF AgentStops, TypeOK, PC, ChatState, NoChat
<1>7. ASSUME NEW a \in Agents, AgentStarts(a) PROVE TypeOK'
  BY <1>7 DEF AgentStarts, TypeOK, rcaVars, chatVars
<1>8. CASE UNCHANGED vars
  BY <1>8 DEF vars, TypeOK
<1> QED BY <1>1, <1>2, <1>4, <1>5, <1>6, <1>7, <1>8, TaskStepType, ChatStepType DEF Next

\* Whatever tasks, requests and agents do, the tables and the processes keep their types
\* (RCARepository and run_rca).
THEOREM TypeCorrect == Spec => []TypeOK
<1>1. Init => TypeOK
  BY InitType
<1>2. TypeOK /\ [Next]_vars => TypeOK'
  BY NextType
<1> QED BY <1>1, <1>2, PTL DEF Spec

-----------------------------------------------------------------------------
(* One task at a time holds a run *)

\* A step of task t moves t only, as its program counter says, and writes its run only.
LEMMA TaskMoves ==
  ASSUME TypeOK, NEW t \in Tasks, TaskStep(t)
  PROVE  /\ \A u \in Tasks : u # t => pc'[u] = pc[u]
         /\ faults' \in {faults, faults + 1}
         /\ crashes' = crashes
         /\ dropped \subseteq dropped'
         /\ \/ /\ MarkRunning(RunOf(t)) /\ pc[t] = "claim" /\ pc'[t] \in {"select", "fail"}
               /\ stray' = stray
            \/ /\ UNCHANGED <<row, events>> /\ stray' = stray
               /\ pc[t] \in Holding \ {"fail"} /\ pc'[t] \in Holding
            \/ /\ UNCHANGED <<row, events>> /\ stray' = stray
               /\ pc[t] \notin Holding /\ pc'[t] \notin Holding
               /\ pc'[t] = "failUnclaimed" => faults' = faults + 1
            \/ /\ UNCHANGED <<row, events>> /\ stray' = stray /\ faults' = faults + 1
               /\ pc[t] = "fail" /\ pc'[t] = "idle" /\ RunOf(t) \in dropped'
            \/ /\ CompleteRun(RunOf(t)) /\ stray' = stray /\ pc[t] = "complete"
               /\ pc'[t] = "idle" \/ (pc'[t] = "fail" /\ faults' = faults + 1)
            \/ /\ FailRun(RunOf(t)) /\ stray' = stray
               /\ pc[t] = "fail" /\ pc'[t] = "idle"
            \/ /\ FailRun(RunOf(t)) /\ stray' = stray \cup {RunOf(t)}
               /\ pc[t] = "failUnclaimed" /\ pc'[t] = "idle"
<1> USE DEF Goto, TypeOK, Fault, NoFault, Holding
<1>1. CASE Claim(t) \/ Skip(t) \/ ClaimRaises(t)
  BY <1>1 DEF Claim, Skip, ClaimRaises, TaskStep
<1>2. CASE SelectThread(t) \/ InsertThread(t) \/ ThreadConflict(t) \/ ThreadRaises(t)
  BY <1>2 DEF SelectThread, InsertThread, ThreadConflict, ThreadRaises, TaskStep
<1>3. CASE GraphReturns(t) \/ GraphRaises(t)
  BY <1>3 DEF GraphReturns, GraphRaises, TaskStep
<1>4. CASE Complete(t) \/ CompleteRaises(t)
  BY <1>4 DEF Complete, CompleteRaises, TaskStep
<1>5. CASE Fail(t) \/ FailUnclaimed(t) \/ FailRaises(t)
  BY <1>5 DEF Fail, FailUnclaimed, FailRaises, TaskStep
<1> QED BY <1>1, <1>2, <1>3, <1>4, <1>5 DEF TaskStep

\* A step of a task keeps the holder invariant.
LEMMA TaskStepHolder ==
  ASSUME TypeOK, HolderInv, NEW t \in Tasks, TaskStep(t)
  PROVE  HolderInv'
<1> DEFINE r == RunOf(t)
<1>0. /\ r \in Runs
      /\ \A u \in Tasks : u # t => pc'[u] = pc[u]
      /\ faults \in Nat /\ faults' \in {faults, faults + 1} /\ crashes' = crashes
      /\ dropped \subseteq dropped'
  BY RunOfTask, TaskMoves DEF TypeOK
<1>1. CASE MarkRunning(r) /\ pc[t] = "claim" /\ pc'[t] \in {"select", "fail"} /\ stray' = stray
  <2>1. \A q \in Runs : q # r => row'[q] = row[q]
    BY <1>1 DEF MarkRunning, TypeOK
  <2>2. row'[r].status = "running" /\ row[r].status \in {"pending", "failed"}
    BY <1>0, <1>1 DEF MarkRunning, Claimable, TypeOK
  <2>3. r \notin stray => Holders(r) = {}
    BY <1>0, <2>2 DEF HolderInv, HeldIsRunning
  <2>4. Holders(r)' = Holders(r) \cup {t} /\ \A q \in Runs : q # r => Holders(q)' = Holders(q)
    BY <1>0, <1>1 DEF Holders, Holding
  <2>5. OneHolder' /\ HeldIsRunning'
    BY <1>0, <1>1, <2>1, <2>2, <2>3, <2>4 DEF HolderInv, OneHolder, HeldIsRunning, Holders
  <2>6. StrayNeedsFault'
    BY <1>0, <1>1 DEF HolderInv, StrayNeedsFault
  <2>7. RunningIsHeld'
    BY <1>0, <2>1, <2>4 DEF HolderInv, RunningIsHeld
  <2> QED BY <2>5, <2>6, <2>7 DEF HolderInv
<1>2. CASE /\ UNCHANGED row /\ stray' = stray
           /\ pc[t] \in Holding \ {"fail"} /\ pc'[t] \in Holding
  <2>1. \A q \in Runs : Holders(q)' = Holders(q)
    BY <1>0, <1>2 DEF Holders
  <2>2. r \in Runs \ stray => row[r].status = "running"
    BY <1>0, <1>2 DEF HolderInv, HeldIsRunning, Holders
  <2>3. OneHolder'
    BY <1>2, <2>1 DEF HolderInv, OneHolder
  <2>4. HeldIsRunning'
    BY <1>0, <1>2, <2>1, <2>2 DEF HolderInv, HeldIsRunning, Holders
  <2>5. StrayNeedsFault'
    BY <1>0, <1>2 DEF HolderInv, StrayNeedsFault, Holding
  <2>6. RunningIsHeld'
    BY <1>0, <1>2, <2>1 DEF HolderInv, RunningIsHeld
  <2> QED BY <2>3, <2>4, <2>5, <2>6 DEF HolderInv
<1>3. CASE /\ UNCHANGED row /\ stray' = stray /\ pc[t] \notin Holding /\ pc'[t] \notin Holding
           /\ pc'[t] = "failUnclaimed" => faults' = faults + 1
  <2>1. \A q \in Runs : Holders(q)' = Holders(q)
    BY <1>0, <1>3 DEF Holders
  <2>2. OneHolder'
    BY <1>3, <2>1 DEF HolderInv, OneHolder
  <2>3. HeldIsRunning'
    BY <1>0, <1>3, <2>1 DEF HolderInv, HeldIsRunning, Holders
  <2>4. StrayNeedsFault'
    BY <1>0, <1>3 DEF HolderInv, StrayNeedsFault
  <2>5. RunningIsHeld'
    BY <1>0, <1>3, <2>1 DEF HolderInv, RunningIsHeld
  <2> QED BY <2>2, <2>3, <2>4, <2>5 DEF HolderInv
<1>4. CASE /\ UNCHANGED row /\ stray' = stray /\ faults' = faults + 1
           /\ pc[t] = "fail" /\ pc'[t] = "idle" /\ r \in dropped'
  <2>1. /\ \A q \in Runs : Holders(q)' = Holders(q) \ {t}
        /\ \A q \in Runs : q # r => Holders(q)' = Holders(q)
    BY <1>0, <1>4 DEF Holders, Holding
  <2>2. OneHolder' /\ HeldIsRunning'
    BY <1>0, <1>4, <2>1 DEF HolderInv, OneHolder, HeldIsRunning, Holders
  <2>3. StrayNeedsFault'
    BY <1>0, <1>4 DEF StrayNeedsFault
  <2>4. RunningIsHeld'
    BY <1>0, <1>4, <2>1 DEF HolderInv, RunningIsHeld
  <2> QED BY <2>2, <2>3, <2>4 DEF HolderInv
<1>5. CASE /\ CompleteRun(r) /\ stray' = stray /\ pc[t] = "complete"
           /\ pc'[t] = "idle" \/ (pc'[t] = "fail" /\ faults' = faults + 1)
  <2>1. /\ \A q \in Runs : q # r => row'[q] = row[q]
        /\ row'[r].status = "completed"
    BY <1>0, <1>5 DEF CompleteRun, TypeOK
  <2>2. /\ \A q \in Runs : q # r => Holders(q)' = Holders(q)
        /\ t \in Holders(r) /\ Holders(r)' \subseteq Holders(r)
    BY <1>0, <1>5 DEF Holders, Holding
  <2>3. r \in Runs \ stray => \A u \in Holders(r)' : u = t /\ pc'[t] = "fail"
    BY <1>0, <1>5, <2>2 DEF HolderInv, OneHolder, Holders, Holding
  <2>4. OneHolder'
    BY <1>0, <1>5, <2>2, <2>3 DEF HolderInv, OneHolder
  <2>5. HeldIsRunning'
    BY <1>0, <1>5, <2>1, <2>2, <2>3 DEF HolderInv, HeldIsRunning, Holders
  <2>6. StrayNeedsFault'
    BY <1>0, <1>5 DEF HolderInv, StrayNeedsFault
  <2>7. RunningIsHeld'
    BY <1>0, <2>1, <2>2 DEF HolderInv, RunningIsHeld
  <2> QED BY <2>4, <2>5, <2>6, <2>7 DEF HolderInv
<1>6. CASE FailRun(r) /\ stray' = stray /\ pc[t] = "fail" /\ pc'[t] = "idle"
  <2>1. /\ \A q \in Runs : q # r => row'[q] = row[q]
        /\ row'[r].status = "failed"
    BY <1>0, <1>6 DEF FailRun, TypeOK
  <2>2. /\ \A q \in Runs : q # r => Holders(q)' = Holders(q)
        /\ t \in Holders(r) /\ Holders(r)' = Holders(r) \ {t}
    BY <1>0, <1>6 DEF Holders, Holding
  <2>3. r \in Runs \ stray => Holders(r)' = {}
    BY <1>0, <2>2 DEF HolderInv, OneHolder
  <2>4. OneHolder'
    BY <1>0, <1>6, <2>2, <2>3 DEF HolderInv, OneHolder
  <2>5. HeldIsRunning'
    BY <1>0, <1>6, <2>1, <2>2, <2>3 DEF HolderInv, HeldIsRunning, Holders
  <2>6. StrayNeedsFault'
    BY <1>0, <1>6 DEF HolderInv, StrayNeedsFault
  <2>7. RunningIsHeld'
    BY <1>0, <2>1, <2>2 DEF HolderInv, RunningIsHeld
  <2> QED BY <2>4, <2>5, <2>6, <2>7 DEF HolderInv
<1>7. CASE /\ FailRun(r) /\ stray' = stray \cup {r}
           /\ pc[t] = "failUnclaimed" /\ pc'[t] = "idle"
  <2>1. \A q \in Runs : q # r => row'[q] = row[q]
    BY <1>0, <1>7 DEF FailRun, TypeOK
  <2>2. \A q \in Runs : Holders(q)' = Holders(q)
    BY <1>0, <1>7 DEF Holders, Holding
  <2>3. OneHolder' /\ HeldIsRunning'
    BY <1>0, <1>7, <2>1, <2>2 DEF HolderInv, OneHolder, HeldIsRunning, Holders, Holding
  <2>4. faults # 0 /\ faults' # 0
    BY <1>0, <1>7 DEF HolderInv, StrayNeedsFault
  <2>5. row'[r].status = "failed"
    BY <1>0, <1>7 DEF FailRun, TypeOK
  <2>6. RunningIsHeld'
    BY <1>0, <2>1, <2>2, <2>5 DEF HolderInv, RunningIsHeld
  <2> QED BY <2>3, <2>4, <2>6 DEF HolderInv, StrayNeedsFault
<1> QED BY <1>1, <1>2, <1>3, <1>4, <1>5, <1>6, <1>7, TaskMoves

\* A step that starts or drops tasks, without touching a run that exists.
ProcessStep ==
  /\ UNCHANGED <<faults, stray>>
  /\ \A r \in Runs : \/ row'[r].status = row[r].status
                     \/ row[r].status = "absent" /\ row'[r].status = "pending"
  /\ \A t \in Tasks : \/ pc'[t] = pc[t]
                      \/ pc[t] = "idle" /\ pc'[t] = "claim"
                      \/ pc'[t] = "idle" /\ (pc[t] \in Holding => RunOf(t) \in dropped')
  /\ dropped \subseteq dropped'

\* Such a step keeps the holder invariant too.
LEMMA ProcessStepHolder ==
  TypeOK /\ HolderInv /\ ProcessStep => HolderInv'
<1> SUFFICES ASSUME TypeOK, HolderInv, ProcessStep PROVE HolderInv'
  OBVIOUS
<1> USE DEF ProcessStep
<1>1. \A r \in Runs : Holders(r)' \subseteq Holders(r)
  BY DEF Holders, Holding
<1>2. \A r \in Runs : r \in dropped' \/ Holders(r)' = Holders(r)
  BY DEF Holders, Holding, TypeOK
<1>3. OneHolder'
  BY <1>1 DEF HolderInv, OneHolder
<1>4. HeldIsRunning'
  BY <1>1 DEF HolderInv, HeldIsRunning, Holders, Holding
<1>5. StrayNeedsFault'
  BY DEF HolderInv, StrayNeedsFault
<1>6. RunningIsHeld'
  <2> SUFFICES ASSUME NEW r \in Runs, row'[r].status = "running", r \notin dropped'
               PROVE  Holders(r)' # {}
    BY DEF RunningIsHeld
  <2>1. row[r].status = "running" /\ r \notin dropped
    OBVIOUS
  <2>2. Holders(r) # {}
    BY <2>1 DEF HolderInv, RunningIsHeld
  <2> QED BY <1>2, <2>2
<1> QED BY <1>3, <1>4, <1>5, <1>6 DEF HolderInv

\* Every step keeps the holder invariant.
LEMMA NextHolder == TypeOK /\ HolderInv /\ [Next]_vars => HolderInv'
<1> SUFFICES ASSUME TypeOK, HolderInv, [Next]_vars PROVE HolderInv'
  OBVIOUS
<1>1. ASSUME NEW r \in Runs, StartRun(r) \/ LoseTrigger(r) PROVE HolderInv'
  <2>1. \A q \in Runs : \/ row'[q].status = row[q].status
                        \/ row[q].status = "absent" /\ row'[q].status = "pending"
    <3>1. UNCHANGED row \/ (row' = [row EXCEPT ![r] = NewRow] /\ row[r].status = "absent")
      BY <1>1 DEF StartRun, LoseTrigger
    <3>2. NewRow.status = "pending"
      BY DEF NewRow
    <3> QED BY <3>1, <3>2 DEF TypeOK
  <2>2. ProcessStep
    BY <1>1, <2>1 DEF StartRun, LoseTrigger, ProcessStep
  <2> QED BY <2>2, ProcessStepHolder
<1>2. ASSUME NEW a \in Agents, NEW r \in Runs, AcceptTrigger(a, r) PROVE HolderInv'
  <2>1. Spawn(a, {r}) /\ UNCHANGED <<row, faults, stray, dropped>>
    BY <1>2 DEF AcceptTrigger
  <2>2. \A t \in Tasks : pc'[t] = pc[t] \/ (pc[t] = "idle" /\ pc'[t] = "claim")
    BY <2>1, SpawnKeepsTasks
  <2>3. ProcessStep
    BY <2>1, <2>2 DEF ProcessStep
  <2> QED BY <2>3, ProcessStepHolder
<1>3. ASSUME NEW a \in Agents, Poll(a) PROVE HolderInv'
  <2>1. Spawn(a, PollBatch) /\ UNCHANGED <<row, faults, stray, dropped>>
    BY <1>3 DEF Poll
  <2>2. PollBatch \in SUBSET Runs
    BY DEF PollBatch, Pending
  <2>3. \A t \in Tasks : pc'[t] = pc[t] \/ (pc[t] = "idle" /\ pc'[t] = "claim")
    BY <2>1, <2>2, SpawnKeepsTasks
  <2>4. ProcessStep
    BY <2>1, <2>3 DEF ProcessStep
  <2> QED BY <2>4, ProcessStepHolder
<1>4. ASSUME NEW a \in Agents, AgentStops(a) \/ AgentStarts(a) PROVE HolderInv'
  <2>1. UNCHANGED <<row, faults, stray>> /\ dropped \subseteq dropped'
    BY <1>4 DEF AgentStops, AgentStarts, rcaVars
  <2>2. \A t \in Tasks : \/ pc'[t] = pc[t]
                         \/ pc'[t] = "idle" /\ (pc[t] \in Holding => RunOf(t) \in dropped')
    BY <1>4 DEF AgentStops, AgentStarts
  <2>3. ProcessStep
    BY <2>1, <2>2 DEF ProcessStep
  <2> QED BY <2>3, ProcessStepHolder
<1>5. ASSUME NEW c \in Chats, ChatStep(c) PROVE HolderInv'
  <2>1. UNCHANGED <<row, stray, dropped, pc>> /\ faults' \in {faults, faults + 1}
    BY <1>5 DEF ChatStep, rcaVars, ChatStart, ChatSelect, ChatInsert, ChatQuestion, ChatModel,
           ChatAnswer, ChatRaises, Fault
  <2>2. \A r \in Runs : Holders(r)' = Holders(r)
    BY <2>1 DEF Holders
  <2> QED BY <2>1, <2>2 DEF HolderInv, OneHolder, HeldIsRunning, StrayNeedsFault, RunningIsHeld, TypeOK
<1>6. CASE UNCHANGED vars
  BY <1>6 DEF vars, HolderInv, OneHolder, HeldIsRunning, StrayNeedsFault, RunningIsHeld, Holders
<1> QED BY <1>1, <1>2, <1>3, <1>4, <1>5, <1>6, TaskStepHolder DEF Next

\* The holder invariant holds of every behaviour.
THEOREM HolderInvariant == Spec => []HolderInv
<1>1. Init => HolderInv
  BY DEF Init, HolderInv, OneHolder, HeldIsRunning, StrayNeedsFault, RunningIsHeld, Holders,
         Holding, NoRow
<1>2. TypeOK /\ HolderInv /\ [Next]_vars => HolderInv'
  BY NextHolder
<1> QED BY <1>1, <1>2, TypeCorrect, PTL DEF Spec

\* However many tasks the trigger, the pollers and several agents start for a run, and
\* whatever stops or raises, at most one of them works on it, as long as no task failed it
\* after its own mark_running raised (run_rca, RCARepository.mark_running).
THEOREM OneHolderAlways == Spec => []OneHolder
<1>1. HolderInv => OneHolder
  BY DEF HolderInv
<1> QED BY <1>1, HolderInvariant, PTL

\* A run that a task works on is running; only a task whose complete_run committed although it
\* raised finds it completed (run_rca fails it next).
THEOREM HeldIsRunningAlways == Spec => []HeldIsRunning
<1>1. HolderInv => HeldIsRunning
  BY DEF HolderInv
<1> QED BY <1>1, HolderInvariant, PTL

\* Only a stop of the agent whose task holds a run, or a fail_run of that task that raised, can
\* leave the run in status running with no task working on it (run_rca).
THEOREM RunningIsHeldAlways == Spec => []RunningIsHeld
<1>1. HolderInv => RunningIsHeld
  BY DEF HolderInv
<1> QED BY <1>1, HolderInvariant, PTL

\* Steps that write no run leave the run table and its events alone.
LEMMA OtherSteps ==
  ASSUME Next
  PROVE  \/ UNCHANGED <<row, events>>
         \/ \E r \in Runs : StartRun(r)
         \/ \E t \in Tasks : TaskStep(t)
BY DEF Next, LoseTrigger, AcceptTrigger, Poll, AgentStops, AgentStarts, ChatStep, rcaVars

\* A task writes the row and an event of its run together, or neither.
LEMMA TaskWrites ==
  ASSUME NEW t \in Tasks, TaskStep(t)
  PROVE  \/ UNCHANGED <<row, events>>
         \/ MarkRunning(RunOf(t)) \/ CompleteRun(RunOf(t)) \/ FailRun(RunOf(t))
BY DEF TaskStep, Claim, Skip, ClaimRaises, SelectThread, InsertThread, ThreadConflict,
       ThreadRaises, GraphReturns, GraphRaises, Complete, CompleteRaises, Fail,
       FailUnclaimed, FailRaises

\* The tasks that may still end r: they hold it, or do not know that they do not.
Enders(r) == {t \in Tasks : RunOf(t) = r /\ pc[t] \in Holding \cup {"failUnclaimed"}}

\* A task exists only for a run that does (AcceptTrigger looks it up, the poller selects it).
TasksHaveRuns == \A t \in Tasks : pc[t] # "idle" => row[RunOf(t)].status # "absent"

\* Every step keeps it so.
LEMMA NextTasks == ASSUME TypeOK, TasksHaveRuns, [Next]_vars PROVE TasksHaveRuns'
<1>1. ASSUME NEW r \in Runs, row[r].status # "absent" PROVE row'[r].status # "absent"
  <2>1. ASSUME NEW q \in Runs, StartRun(q) \/ MarkRunning(q) \/ CompleteRun(q) \/ FailRun(q)
        PROVE  row'[r].status # "absent"
    <3>1. q # r => row'[r] = row[r]
      BY <2>1 DEF StartRun, MarkRunning, CompleteRun, FailRun, TypeOK
    <3>2. CASE StartRun(r)
      BY <3>2 DEF StartRun, NewRow, TypeOK
    <3>3. CASE MarkRunning(r) \/ CompleteRun(r) \/ FailRun(r)
      <4>1. row'[r].status \in {"running", "completed", "failed"}
        BY <3>3 DEF MarkRunning, CompleteRun, FailRun, TypeOK
      <4> QED BY <4>1
    <3> QED BY <1>1, <2>1, <3>1, <3>2, <3>3
  <2>2. UNCHANGED row \/ Next
    BY DEF vars
  <2> QED BY <1>1, <2>1, <2>2, OtherSteps, TaskWrites, RunOfTask
<1>2. ASSUME NEW a \in Agents, NEW R \in SUBSET Runs, Spawn(a, R), NEW t \in Tasks,
             pc[t] = "idle", pc'[t] # "idle"
      PROVE  RunOf(t) \in R
  <2>1. PICK q \in R : t = FreeSlot(a, q)
    BY <1>2 DEF Spawn
  <2> QED BY <2>1 DEF FreeSlot, RunOf
<1> SUFFICES ASSUME NEW t \in Tasks, pc'[t] # "idle", pc[t] = "idle"
             PROVE  row[RunOf(t)].status # "absent"
  BY <1>1, RunOfTask DEF TasksHaveRuns
<1>3. ASSUME NEW u \in Tasks, TaskStep(u) PROVE FALSE
  <2>1. u # t => pc'[t] = pc[t]
    BY <1>3, TaskMoves
  <2>2. pc[u] # "idle"
    BY <1>3 DEF TaskStep, Claim, Skip, ClaimRaises, SelectThread, InsertThread, ThreadConflict,
           ThreadRaises, GraphReturns, GraphRaises, Complete, CompleteRaises, Fail,
           FailUnclaimed, FailRaises, Goto
  <2> QED BY <2>1, <2>2
<1>4. ASSUME NEW a \in Agents, NEW r \in Runs, AcceptTrigger(a, r)
      PROVE  row[RunOf(t)].status # "absent"
  <2>1. RunOf(t) \in {r} /\ row[r].status # "absent"
    BY <1>2, <1>4 DEF AcceptTrigger
  <2> QED BY <2>1
<1>5. ASSUME NEW a \in Agents, Poll(a) PROVE row[RunOf(t)].status # "absent"
  <2>1. PollBatch \in SUBSET Runs /\ \A r \in PollBatch : row[r].status = "pending"
    BY DEF PollBatch, Pending
  <2>2. RunOf(t) \in PollBatch
    BY <1>2, <1>5, <2>1 DEF Poll
  <2> QED BY <2>1, <2>2
<1>6. CASE \/ \E r \in Runs : StartRun(r) \/ LoseTrigger(r)
           \/ \E a \in Agents : AgentStops(a) \/ AgentStarts(a)
           \/ \E c \in Chats : ChatStep(c)
           \/ UNCHANGED vars
  BY <1>6 DEF StartRun, LoseTrigger, AgentStops, AgentStarts, ChatStep, vars
<1> QED BY <1>3, <1>4, <1>5, <1>6 DEF Next

\* What the events of one run and its status have to do with each other.
AddsUp(r) ==
  /\ Started(r) <= Ended(r) + Now(r)
  /\ Ended(r) + Now(r) <= Started(r) + faults
  /\ events[r]["run.created"] = IF row[r].status = "absent" THEN 0 ELSE 1
  /\ row[r].status = "running"   => Started(r) > 0
  /\ row[r].status = "completed" => events[r]["run.completed"] > 0
  /\ row[r].status = "failed"    => events[r]["run.failed"] > 0

\* Each end that is stored, or may still be, has a claim of its own or cost a fault.
EndsPaid(r) ==
  /\ IsFiniteSet(Enders(r))
  /\ Ended(r) + Cardinality(Enders(r)) <= Started(r) + faults

\* What one step does to the events of r and to those that may still end it: nothing; a task
\* loses the answer of its claim; a claim; an end, whose task leaves or loses the answer; the
\* creation.
EventMove(r) ==
  \/ /\ events'[r] = events[r] /\ row'[r].status = row[r].status
     /\ \/ faults <= faults' /\ Enders(r)' \subseteq Enders(r)
        \/ faults' = faults + 1 /\ \E t : Enders(r)' \subseteq Enders(r) \cup {t}
  \/ /\ MarkRunning(r)
     /\ faults <= faults' /\ \E t : Enders(r)' \subseteq Enders(r) \cup {t}
  \/ /\ CompleteRun(r) \/ FailRun(r)
     /\ \E t \in Enders(r) : \/ faults <= faults' /\ Enders(r)' \subseteq Enders(r) \ {t}
                             \/ faults' = faults + 1 /\ Enders(r)' \subseteq Enders(r)
  \/ StartRun(r) /\ Enders(r)' \subseteq Enders(r)

\* A step of a task is one of these.
LEMMA TaskEvents ==
  ASSUME TypeOK, NEW t \in Tasks, TaskStep(t), NEW r \in Runs
  PROVE  EventMove(r)
<1>1. /\ \A u \in Tasks : u # t => pc'[u] = pc[u]
      /\ faults \in Nat /\ faults' \in {faults, faults + 1} /\ faults <= faults'
  BY TaskMoves DEF TypeOK
<1>2. CASE RunOf(t) # r
  <2>1. Enders(r)' = Enders(r)
    BY <1>1, <1>2 DEF Enders
  <2>2. row'[r] = row[r] /\ events'[r] = events[r]
    BY <1>2, TaskWrites, RunOfTask DEF MarkRunning, CompleteRun, FailRun, TypeOK
  <2> QED BY <1>1, <2>1, <2>2 DEF EventMove
<1>3. CASE RunOf(t) = r
  <2>1. Enders(r)' \subseteq Enders(r) \cup {t}
    BY <1>1, <1>3 DEF Enders
  <2>2. pc'[t] \notin Holding \cup {"failUnclaimed"} => Enders(r)' \subseteq Enders(r) \ {t}
    BY <1>1, <1>3 DEF Enders
  <2>3. pc[t] \in Holding \cup {"failUnclaimed"} => t \in Enders(r) /\ Enders(r)' \subseteq Enders(r)
    BY <1>1, <1>3 DEF Enders
  <2>4. CASE MarkRunning(r)
    BY <1>1, <2>1, <2>4 DEF EventMove
  <2>5. CASE UNCHANGED <<row, events>> /\ (pc'[t] = "failUnclaimed" => faults' = faults + 1)
             /\ (pc'[t] \in Holding => pc[t] \in Holding)
    <3>1. CASE pc'[t] = "failUnclaimed"
      BY <1>1, <2>1, <2>5, <3>1 DEF EventMove
    <3>2. CASE pc'[t] # "failUnclaimed"
      <4>1. Enders(r)' \subseteq Enders(r)
        BY <2>2, <2>3, <2>5, <3>2
      <4> QED BY <1>1, <2>5, <4>1 DEF EventMove
    <3> QED BY <3>1, <3>2
  <2>6. CASE /\ CompleteRun(r) \/ FailRun(r)
             /\ pc[t] \in Holding \cup {"failUnclaimed"}
             /\ pc'[t] = "idle" \/ faults' = faults + 1
    <3>1. t \in Enders(r) /\ Enders(r)' \subseteq Enders(r)
      BY <2>3, <2>6
    <3>2. pc'[t] = "idle" => Enders(r)' \subseteq Enders(r) \ {t}
      BY <2>2 DEF Holding
    <3> QED BY <1>1, <2>6, <3>1, <3>2 DEF EventMove
  <2> QED BY <1>3, <2>4, <2>5, <2>6, TaskMoves DEF Holding
<1> QED BY <1>2, <1>3

\* So is every other step.
LEMMA NextEvents ==
  ASSUME TypeOK, [Next]_vars, NEW r \in Runs
  PROVE  EventMove(r)
<1>1. ASSUME UNCHANGED <<row, events>>, faults' \in {faults, faults + 1},
             \A t \in Tasks : \/ pc'[t] = pc[t]
                              \/ pc[t] = "idle" /\ pc'[t] = "claim"
                              \/ pc'[t] = "idle"
      PROVE  EventMove(r)
  <2>1. Enders(r)' \subseteq Enders(r) /\ faults <= faults'
    BY <1>1 DEF Enders, Holding, TypeOK
  <2> QED BY <1>1, <2>1 DEF EventMove
<1>2. ASSUME NEW q \in Runs, StartRun(q) PROVE EventMove(r)
  <2>1. Enders(r)' = Enders(r) /\ faults' = faults /\ faults \in Nat
    BY <1>2 DEF StartRun, Enders, TypeOK
  <2>2. q # r => row'[r] = row[r] /\ events'[r] = events[r]
    BY <1>2 DEF StartRun, TypeOK
  <2> QED BY <1>2, <2>1, <2>2 DEF EventMove
<1>3. ASSUME NEW a \in Agents, NEW R \in SUBSET Runs, Spawn(a, R), UNCHANGED <<row, events, faults>>
      PROVE  EventMove(r)
  BY <1>1, <1>3, SpawnKeepsTasks
<1>4. ASSUME NEW a \in Agents, \/ \E q \in Runs : AcceptTrigger(a, q)
                             \/ Poll(a)
      PROVE  EventMove(r)
  <2>1. PollBatch \in SUBSET Runs
    BY DEF PollBatch, Pending
  <2> QED BY <1>3, <1>4, <2>1 DEF AcceptTrigger, Poll
<1>5. CASE \/ \E a \in Agents : AgentStops(a) \/ AgentStarts(a)
           \/ \E q \in Runs : LoseTrigger(q)
           \/ \E c \in Chats : ChatStep(c)
           \/ UNCHANGED vars
  <2>1. /\ UNCHANGED <<row, events>> /\ faults' \in {faults, faults + 1}
        /\ \A t \in Tasks : pc'[t] = pc[t] \/ pc'[t] = "idle"
    BY <1>5 DEF AgentStops, AgentStarts, LoseTrigger, ChatStep, ChatStart, ChatSelect, ChatInsert,
           ChatQuestion, ChatModel, ChatAnswer, ChatRaises, Fault, rcaVars, vars
  <2> QED BY <1>1, <2>1
<1> QED BY <1>2, <1>4, <1>5, TaskEvents DEF Next

\* A step keeps the sums.
LEMMA EventsStep ==
  ASSUME TypeOK, TypeOK', TasksHaveRuns, NEW r \in Runs, AddsUp(r), EndsPaid(r), EventMove(r)
  PROVE  AddsUp(r)' /\ EndsPaid(r)'
<1> DEFINE E == Enders(r)
           F == Enders(r)'
<1>1. /\ IsFiniteSet(E) /\ Cardinality(E) \in Nat
      /\ Ended(r) + Cardinality(E) <= Started(r) + faults
  BY FS_CardinalityType DEF EndsPaid
<1>2. /\ Ended(r) \in Nat /\ Started(r) \in Nat /\ faults \in Nat /\ Now(r) \in {0, 1}
      /\ faults' \in Nat /\ row[r].status \in Status
  BY DEF TypeOK, Ended, Started, Event, Now, Row
<1>3. ASSUME NEW S, IsFiniteSet(S), F \subseteq S
      PROVE  IsFiniteSet(F) /\ Cardinality(F) \in Nat /\ Cardinality(F) <= Cardinality(S)
  BY <1>3, FS_Subset, FS_CardinalityType
<1>4. ASSUME F \subseteq E
      PROVE  IsFiniteSet(F) /\ Cardinality(F) \in Nat /\ Cardinality(F) <= Cardinality(E)
  BY <1>1, <1>3, <1>4
<1>5. ASSUME NEW t, F \subseteq E \cup {t}
      PROVE  IsFiniteSet(F) /\ Cardinality(F) \in Nat /\ Cardinality(F) <= Cardinality(E) + 1
  <2> HIDE DEF E, F
  <2>1. IsFiniteSet(E \cup {t}) /\ Cardinality(E \cup {t}) \in {Cardinality(E), Cardinality(E) + 1}
    BY <1>1, FS_AddElement
  <2> QED BY <1>1, <1>3, <1>5, <2>1
<1>6. ASSUME NEW t \in E
      PROVE  /\ Cardinality(E) > 0
             /\ F \subseteq E \ {t} => /\ IsFiniteSet(F) /\ Cardinality(F) \in Nat
                                       /\ Cardinality(F) <= Cardinality(E) - 1
  <2> HIDE DEF E, F
  <2>1. IsFiniteSet(E \ {t}) /\ Cardinality(E \ {t}) = Cardinality(E) - 1
    BY <1>1, <1>6, FS_RemoveElement
  <2>2. Cardinality(E \ {t}) \in Nat
    BY <2>1, FS_CardinalityType
  <2> QED BY <1>1, <1>3, <2>1, <2>2
<1>7. CASE events'[r] = events[r] /\ row'[r].status = row[r].status
  <2>1. /\ Started(r)' = Started(r) /\ Ended(r)' = Ended(r) /\ Now(r)' = Now(r)
    BY <1>7 DEF Started, Ended, Now
  <2>2. ASSUME faults <= faults' PROVE AddsUp(r)'
    BY <1>2, <1>7, <2>1, <2>2 DEF AddsUp
  <2>3. ASSUME faults <= faults', F \subseteq E PROVE EndsPaid(r)'
    <3> HIDE DEF E, F
    <3>1. Ended(r) + Cardinality(F) <= Started(r) + faults'
      BY <1>1, <1>2, <1>4, <2>3
    <3> QED BY <1>4, <2>1, <2>3, <3>1 DEF EndsPaid, F
  <2>4. ASSUME faults' = faults + 1, NEW t, F \subseteq E \cup {t} PROVE EndsPaid(r)'
    <3>1. IsFiniteSet(F) /\ Cardinality(F) \in Nat /\ Cardinality(F) <= Cardinality(E) + 1
      BY <1>5, <2>4
    <3> HIDE DEF E, F
    <3>2. Ended(r) + Cardinality(F) <= Started(r) + faults'
      BY <1>1, <1>2, <2>4, <3>1
    <3> QED BY <2>1, <3>1, <3>2 DEF EndsPaid, F
  <2>5. faults' = faults + 1 => faults <= faults'
    BY <1>2
  <2>6. CASE faults <= faults' /\ F \subseteq E
    BY <2>2, <2>3, <2>6
  <2>7. CASE faults' = faults + 1 /\ \E t : F \subseteq E \cup {t}
    BY <2>2, <2>4, <2>5, <2>7
  <2>8. CASE StartRun(r)
    <3>1. row[r].status = "absent" /\ row'[r].status = "pending"
      BY <2>8 DEF StartRun, NewRow, TypeOK
    <3> QED BY <1>7, <3>1
  <2>9. CASE MarkRunning(r)
    <3>1. Started(r)' = Started(r) + 1
      BY <2>9 DEF MarkRunning, Started, TypeOK, Event
    <3> QED BY <1>2, <2>1, <3>1
  <2>10. CASE CompleteRun(r) \/ FailRun(r)
    <3>1. \E e \in {"run.completed", "run.failed"} : events'[r] = [events[r] EXCEPT ![e] = @ + 1]
      BY <2>10 DEF CompleteRun, FailRun, TypeOK
    <3>2. Ended(r)' = Ended(r) + 1
      BY <3>1 DEF Ended, TypeOK, Event
    <3> QED BY <1>2, <2>1, <3>2
  <2> QED BY <2>6, <2>7, <2>8, <2>9, <2>10 DEF EventMove
<1>8. CASE MarkRunning(r) /\ faults <= faults' /\ \E t : F \subseteq E \cup {t}
  <2>1. /\ events'[r] = [events[r] EXCEPT !["run.running"] = @ + 1]
        /\ row'[r].status = "running" /\ row[r].status \in {"pending", "failed"}
    BY <1>8 DEF MarkRunning, Claimable, TypeOK
  <2>2. /\ Started(r)' = Started(r) + 1 /\ Ended(r)' = Ended(r) /\ Now(r) = 0 /\ Now(r)' = 1
        /\ events'[r]["run.created"] = events[r]["run.created"]
    BY <2>1 DEF Started, Ended, Now, TypeOK, Event
  <2>3. AddsUp(r)'
    <3>1. Ended(r) + 1 <= Started(r) + 1 + faults'
      BY <1>2, <1>8, <2>2 DEF AddsUp
    <3>2. Started(r) + 1 <= Ended(r) + 1 /\ Started(r) + 1 > 0
      BY <1>2, <2>2 DEF AddsUp
    <3> QED BY <2>1, <2>2, <3>1, <3>2 DEF AddsUp
  <2>4. EndsPaid(r)'
    <3>1. PICK t : F \subseteq E \cup {t}
      BY <1>8
    <3> HIDE DEF E, F
    <3>2. Ended(r) + Cardinality(F) <= Started(r) + 1 + faults'
      BY <1>1, <1>2, <1>5, <1>8, <3>1
    <3> QED BY <1>5, <2>2, <3>1, <3>2 DEF EndsPaid, F
  <2> QED BY <2>3, <2>4
<1>9. CASE /\ CompleteRun(r) \/ FailRun(r)
           /\ \E t \in E : \/ faults <= faults' /\ F \subseteq E \ {t}
                           \/ faults' = faults + 1 /\ F \subseteq E
  <2>1. PICK e \in {"run.completed", "run.failed"} :
           /\ events'[r] = [events[r] EXCEPT ![e] = @ + 1]
           /\ row'[r].status = IF e = "run.completed" THEN "completed" ELSE "failed"
    BY <1>9 DEF CompleteRun, FailRun, TypeOK
  <2>2. /\ Started(r)' = Started(r) /\ Ended(r)' = Ended(r) + 1
        /\ events'[r]["run.created"] = events[r]["run.created"]
        /\ events'[r][e] > 0
    <3>1. \A f \in Event : events[r][f] \in Nat /\ events'[r][f] = IF f = e THEN events[r][f] + 1 ELSE events[r][f]
      BY <2>1 DEF TypeOK, Event
    <3>2. CASE e = "run.completed"
      BY <3>1, <3>2 DEF Started, Ended, Event
    <3>3. CASE e = "run.failed"
      BY <3>1, <3>3 DEF Started, Ended, Event
    <3> QED BY <3>2, <3>3
  <2>3. PICK t \in E : \/ faults <= faults' /\ F \subseteq E \ {t}
                       \/ faults' = faults + 1 /\ F \subseteq E
    BY <1>9
  <2>4. faults <= faults' /\ Cardinality(E) > 0
    BY <1>2, <1>6, <2>3
  <2>5. row[r].status # "absent"
    BY <2>3 DEF TasksHaveRuns, Enders, Holding
  <2>6. AddsUp(r)'
    <3>1. Ended(r) + 1 <= Started(r) + faults' /\ Started(r) <= Ended(r) + 1
      BY <1>1, <1>2, <2>4 DEF AddsUp
    <3>2. /\ row'[r].status \in {"completed", "failed"} /\ Now(r)' = 0
          /\ row'[r].status = "completed" => e = "run.completed"
          /\ row'[r].status = "failed" => e = "run.failed"
      BY <2>1 DEF Now
    <3>3. events'[r]["run.created"] = 1
      BY <2>2, <2>5 DEF AddsUp
    <3> QED BY <1>2, <2>2, <3>1, <3>2, <3>3 DEF AddsUp
  <2>7. EndsPaid(r)'
    <3> HIDE DEF E, F
    <3>1. IsFiniteSet(F) /\ Ended(r) + 1 + Cardinality(F) <= Started(r) + faults'
      <4>1. CASE faults <= faults' /\ F \subseteq E \ {t}
        BY <1>1, <1>2, <1>6, <2>3, <4>1
      <4>2. CASE faults' = faults + 1 /\ F \subseteq E
        BY <1>1, <1>2, <1>4, <4>2
      <4> QED BY <2>3, <4>1, <4>2
    <3> QED BY <2>2, <3>1 DEF EndsPaid, F
  <2> QED BY <2>6, <2>7
<1>10. CASE StartRun(r) /\ F \subseteq E
  <2>1. /\ events'[r] = [events[r] EXCEPT !["run.created"] = @ + 1]
        /\ row[r].status = "absent" /\ row'[r].status = "pending" /\ faults' = faults
    BY <1>10 DEF StartRun, NewRow, TypeOK
  <2>2. /\ Started(r)' = Started(r) /\ Ended(r)' = Ended(r) /\ Now(r) = 0 /\ Now(r)' = 0
        /\ events'[r]["run.created"] = events[r]["run.created"] + 1
    BY <2>1 DEF Started, Ended, Now, TypeOK, Event
  <2>3. AddsUp(r)'
    BY <1>2, <2>1, <2>2 DEF AddsUp
  <2>4. EndsPaid(r)'
    <3> HIDE DEF E, F
    <3>1. IsFiniteSet(F) /\ Ended(r) + Cardinality(F) <= Started(r) + faults'
      BY <1>1, <1>2, <1>4, <1>10, <2>1
    <3> QED BY <2>2, <3>1 DEF EndsPaid, F
  <2> QED BY <2>3, <2>4
<1> QED BY <1>7, <1>8, <1>9, <1>10 DEF EventMove

\* Whatever order the events of a run are read in, their numbers agree with its status: no claim
\* but that of a running run is left without an end, and only a call that raised pays for an end
\* without a claim (mark_running, complete_run, fail_run, RcaService.startForIncident).
THEOREM EventsAlwaysAddUp == Spec => []EventsAddUp
<1> DEFINE IInv == TasksHaveRuns /\ \A r \in Runs : AddsUp(r) /\ EndsPaid(r)
<1>1. Init => IInv
  <2> SUFFICES ASSUME Init, NEW r \in Runs PROVE AddsUp(r) /\ EndsPaid(r)
    BY DEF Init, TasksHaveRuns
  <2>1. Enders(r) = {} /\ \A e \in Event : events[r][e] = 0
    BY DEF Init, Enders, Holding
  <2>2. Started(r) = 0 /\ Ended(r) = 0 /\ Now(r) = 0 /\ row[r].status = "absent" /\ faults = 0
    BY <2>1 DEF Init, Started, Ended, Now, Event, NoRow
  <2>3. IsFiniteSet(Enders(r)) /\ Cardinality(Enders(r)) = 0
    BY <2>1, FS_EmptySet
  <2>4. events[r]["run.created"] = 0
    BY <2>1 DEF Event
  <2> QED BY <2>2, <2>3, <2>4 DEF AddsUp, EndsPaid
<1>2. TypeOK /\ TypeOK' /\ IInv /\ [Next]_vars => IInv'
  BY NextEvents, EventsStep, NextTasks
<1>3. IInv => EventsAddUp
  BY DEF EventsAddUp, AddsUp
<1> HIDE DEF IInv
<1> QED BY <1>1, <1>2, <1>3, TypeCorrect, PTL DEF Spec

\* The report, the error and the end of a run follow its status through every retry: each of
\* the four writes (startForIncident, mark_running, complete_run, fail_run) sets them together.
THEOREM ColumnsAlwaysFollow == Spec => []ColumnsFollowStatus
<1> DEFINE Follows(w) == /\ w.status = "completed" => w.report /\ w.ended /\ ~w.error
                         /\ w.status = "failed"    => w.error /\ w.ended
                         /\ w.status = "running"   => ~w.error
                         /\ w.status \in {"absent", "pending"} => w \in {NoRow, NewRow}
<1>1. Init => ColumnsFollowStatus
  BY DEF Init, ColumnsFollowStatus, NoRow
<1>2. TypeOK /\ ColumnsFollowStatus /\ [Next]_vars => ColumnsFollowStatus'
  <2> SUFFICES ASSUME TypeOK, ColumnsFollowStatus, [Next]_vars PROVE ColumnsFollowStatus'
    OBVIOUS
  <2>1. ASSUME NEW r \in Runs,
               \/ StartRun(r) \/ MarkRunning(r) \/ CompleteRun(r) \/ FailRun(r)
        PROVE  ColumnsFollowStatus'
    <3>1. \A q \in Runs : q # r => row'[q] = row[q]
      BY <2>1 DEF StartRun, MarkRunning, CompleteRun, FailRun, TypeOK
    <3>2. Follows(row'[r])
      <4>1. CASE StartRun(r)
        BY <4>1 DEF StartRun, NewRow, TypeOK
      <4>2. CASE MarkRunning(r)
        BY <4>2 DEF MarkRunning, TypeOK
      <4>3. CASE CompleteRun(r)
        BY <4>3 DEF CompleteRun, TypeOK
      <4>4. CASE FailRun(r)
        BY <4>4 DEF FailRun, TypeOK
      <4> QED BY <2>1, <4>1, <4>2, <4>3, <4>4
    <3> QED BY <3>1, <3>2 DEF ColumnsFollowStatus
  <2>2. CASE UNCHANGED <<row, events>>
    BY <2>2 DEF ColumnsFollowStatus
  <2>3. UNCHANGED <<row, events>> \/ Next
    BY DEF vars
  <2> QED BY <2>1, <2>2, <2>3, OtherSteps, TaskWrites, RunOfTask
<1> QED BY <1>1, <1>2, TypeCorrect, PTL DEF Spec

\* The events and the columns of a run both agree with its status, whatever calls raise and
\* agents stop: an event is written with the row it tells of, and once for each (db.py).
THEOREM RecordAlwaysFollows == Spec => []RecordFollowsStatus
<1>1. EventsAddUp /\ ColumnsFollowStatus => RecordFollowsStatus
  BY DEF RecordFollowsStatus
<1> QED BY <1>1, EventsAlwaysAddUp, ColumnsAlwaysFollow, PTL

\* Nothing runs a completed run again or takes its report away, whatever is late, retried or
\* restarted; once a call has raised, its task can still fail it (mark_running, complete_run,
\* fail_run).
THEOREM CompletedStays == Spec => CompletedIsFinal
<1> DEFINE Fails(r) == faults' > 0 /\ row'[r].status = "failed" /\ row'[r].report
           Stays == \A r \in Runs : row[r].status = "completed" =>
                       \/ row'[r] = row[r]
                       \/ faults' > 0 /\ row'[r].status = "failed" /\ row'[r].report
<1>1. TypeOK /\ HolderInv /\ ColumnsFollowStatus /\ [Next]_vars => [Stays]_vars
  <2> SUFFICES ASSUME TypeOK, HolderInv, ColumnsFollowStatus, Next, NEW r \in Runs,
                      row[r].status = "completed"
               PROVE  row'[r] = row[r] \/ Fails(r)
    OBVIOUS
  <2>1. ASSUME NEW t \in Tasks, TaskStep(t) PROVE row'[r] = row[r] \/ Fails(r)
    <3>1. CASE RunOf(t) # r
      <4>1. RunOf(t) \in Runs
        BY RunOfTask
      <4> QED BY <2>1, <3>1, <4>1, TaskWrites DEF MarkRunning, CompleteRun, FailRun, TypeOK
    <3>2. ~MarkRunning(r)
      BY DEF MarkRunning, Claimable
    <3>3. row[r] \in Row /\ row[r].report /\ row[r].ended /\ ~row[r].error
      BY DEF TypeOK, ColumnsFollowStatus
    <3>4. CASE CompleteRun(r)
      BY <3>3, <3>4 DEF CompleteRun, TypeOK, Row
    <3>5. CASE RunOf(t) = r /\ FailRun(r) /\ faults' > 0
      <4>1. row'[r].status = "failed" /\ row'[r].report
        BY <3>3, <3>5 DEF FailRun, TypeOK
      <4> QED BY <3>5, <4>1
\* Without a fault no task holds the run, so none writes to it.
    <3>6. CASE RunOf(t) = r /\ ~(faults' > 0)
      <4>1. faults = 0
        <5>1. faults \in Nat /\ faults' \in {faults, faults + 1}
          BY <2>1, TaskMoves DEF TypeOK
        <5> QED BY <3>6, <5>1
      <4>2. r \notin stray /\ pc[t] # "failUnclaimed"
        BY <4>1 DEF HolderInv, StrayNeedsFault
      <4>3. pc[t] \notin Holding
        BY <3>6, <4>1, <4>2 DEF HolderInv, HeldIsRunning, Holders
      <4> QED BY <2>1, <3>2, <3>6, <4>2, <4>3, TaskMoves DEF Holding
    <3> QED BY <2>1, <3>1, <3>2, <3>4, <3>5, <3>6, TaskWrites
  <2>2. ASSUME NEW q \in Runs, StartRun(q) PROVE row'[r] = row[r]
    BY <2>2 DEF StartRun, TypeOK
  <2>3. ASSUME NEW q \in Runs, LoseTrigger(q) PROVE row'[r] = row[r]
    BY <2>3 DEF LoseTrigger
  <2>4. ASSUME NEW a \in Agents, \/ \E q \in Runs : AcceptTrigger(a, q)
                               \/ Poll(a) \/ AgentStops(a) \/ AgentStarts(a)
        PROVE  row'[r] = row[r]
    BY <2>4 DEF AcceptTrigger, Poll, AgentStops, AgentStarts, rcaVars
  <2>5. ASSUME NEW c \in Chats, ChatStep(c) PROVE row'[r] = row[r]
    BY <2>5 DEF ChatStep, rcaVars
  <2> QED BY <2>1, <2>2, <2>3, <2>4, <2>5 DEF Next
<1> QED BY <1>1, TypeCorrect, HolderInvariant, ColumnsAlwaysFollow, PTL DEF Spec, CompletedIsFinal

-----------------------------------------------------------------------------
(* RcaRuns implements RunLifecycle *)

\* The states and the workers the abstract specification sees.
St == [r \in Runs |-> row[r].status]
Wk == [r \in Runs |-> Holders(r)]

\* Seen from the abstract specification, a step of a task is a step of a worker or none.
LEMMA TaskStepLifecycle ==
  ASSUME TypeOK, HolderInv, NEW t \in Tasks, TaskStep(t)
  PROVE  Lifecycle!Next \/ UNCHANGED <<St, Wk, stray>>
<1> DEFINE r == RunOf(t)
<1>1. r \in Runs /\ \A u \in Tasks : u # t => pc'[u] = pc[u]
  BY RunOfTask, TaskMoves
<1>2. /\ \A q \in Runs : q # r => row'[q] = row[q]
      /\ row'[r].status \in Status
  <2>1. row' \in [Runs -> Row]
    BY TaskStepType DEF TypeOK
  <2>2. UNCHANGED row \/ MarkRunning(r) \/ CompleteRun(r) \/ FailRun(r)
    BY TaskWrites
  <2>3. \A q \in Runs : q # r => row'[q] = row[q]
    BY <1>1, <2>2 DEF MarkRunning, CompleteRun, FailRun, TypeOK
  <2> QED BY <1>1, <2>1, <2>3 DEF Row
<1>3. \A q \in Runs : q # r => Holders(q)' = Holders(q)
  BY <1>1 DEF Holders
<1> HIDE DEF r
<1>4. St' = [St EXCEPT ![r] = row'[r].status]
  BY <1>1, <1>2 DEF St
<1>5. Wk' = [Wk EXCEPT ![r] = Holders(r)'] /\ Holders(r)' \in SUBSET Tasks
  BY <1>1, <1>3 DEF Wk, Holders
<1>6. St[r] = row[r].status /\ Wk[r] = Holders(r)
  BY <1>1 DEF St, Wk
<1>7. CASE stray' = stray \cup {r}
  <2>1. Lifecycle!Break(r)
    BY <1>2, <1>4, <1>5, <1>7 DEF Lifecycle!Break, Lifecycle!Statuses, Status, St, Wk
  <2> QED BY <1>1, <2>1 DEF Lifecycle!Next
<1>8. CASE stray' = stray /\ r \notin stray
  <2> SUFFICES ASSUME TRUE PROVE Lifecycle!Next \/ (St' = St /\ Wk' = Wk)
    BY <1>8
  <2>1. CASE MarkRunning(r) /\ pc[t] = "claim" /\ pc'[t] \in {"select", "fail"}
    <3>1. row[r].status \in {"pending", "failed"} /\ row'[r].status = "running"
      BY <1>1, <2>1 DEF MarkRunning, Claimable, TypeOK
    <3>2. Holders(r) = {}
      BY <1>1, <1>8, <3>1 DEF HolderInv, HeldIsRunning
    <3>3. Holders(r)' = {t}
      BY <1>1, <2>1, <3>2 DEF Holders, Holding, r, TypeOK
    <3>4. Lifecycle!Begin(r, t)
      BY <1>4, <1>5, <1>6, <1>8, <3>1, <3>2, <3>3 DEF Lifecycle!Begin, St, Wk
    <3> QED BY <1>1, <3>4 DEF Lifecycle!Next
  <2>2. CASE UNCHANGED row /\ (pc[t] \in Holding <=> pc'[t] \in Holding)
    <3>1. Holders(r)' = Holders(r)
      BY <1>1, <2>2 DEF Holders
    <3> QED BY <1>4, <1>5, <1>6, <2>2, <3>1 DEF St, Wk
  <2>3. CASE UNCHANGED row /\ pc[t] = "fail" /\ pc'[t] = "idle"
    <3>1. \A q \in Runs : Holders(q)' = Holders(q) \ {t}
      BY <1>1, <2>3 DEF Holders, Holding
    <3>2. Lifecycle!Abandon({t})
      BY <1>8, <2>3, <3>1 DEF Lifecycle!Abandon, St, Wk
    <3> QED BY <3>2 DEF Lifecycle!Next
  <2>4. CASE CompleteRun(r) /\ pc[t] = "complete" /\ pc'[t] \in {"idle", "fail"}
    <3>1. t \in Holders(r)
      BY <1>1, <2>4 DEF Holders, Holding, r
    <3>2. Holders(r) = {t}
      BY <1>1, <1>8, <3>1 DEF HolderInv, OneHolder
    <3>3. row[r].status = "running" /\ row'[r].status = "completed"
      BY <1>1, <1>8, <2>4, <3>1 DEF HolderInv, HeldIsRunning, CompleteRun, TypeOK
    <3>4. Holders(r)' \in {{}, {t}}
      BY <1>1, <3>2 DEF Holders
    <3>5. Lifecycle!Finish(r, t)
      BY <1>4, <1>5, <1>6, <1>8, <3>2, <3>3, <3>4 DEF Lifecycle!Finish, St, Wk
    <3> QED BY <1>1, <3>5 DEF Lifecycle!Next
  <2>5. CASE FailRun(r) /\ pc[t] = "fail" /\ pc'[t] = "idle"
    <3>1. t \in Holders(r)
      BY <1>1, <2>5 DEF Holders, Holding, r
    <3>2. Holders(r) = {t}
      BY <1>1, <1>8, <3>1 DEF HolderInv, OneHolder
    <3>3. row'[r].status = "failed"
      BY <1>1, <2>5 DEF FailRun, TypeOK
    <3>4. Holders(r)' = {}
      BY <1>1, <2>5, <3>2 DEF Holders, Holding
    <3>5. Lifecycle!GiveUp(r, t)
      BY <1>4, <1>5, <1>6, <1>8, <3>2, <3>3, <3>4 DEF Lifecycle!GiveUp, St, Wk
    <3> QED BY <1>1, <3>5 DEF Lifecycle!Next
  <2>6. stray' # stray \cup {r}
    BY <1>8
  <2> QED BY <2>1, <2>2, <2>3, <2>4, <2>5, <2>6, TaskMoves DEF r, Holding
<1>9. stray' = stray \/ stray' = stray \cup {r}
  BY TaskMoves DEF r
<1>10. r \in stray /\ stray' = stray => stray' = stray \cup {r}
  OBVIOUS
<1> QED BY <1>7, <1>8, <1>9, <1>10

\* Every step is one of the abstract specification, or changes nothing it sees.
LEMMA NextLifecycle ==
  ASSUME TypeOK, HolderInv, [Next]_vars
  PROVE  Lifecycle!Next \/ UNCHANGED <<St, Wk, stray>>
<1>1. ASSUME NEW r \in Runs, StartRun(r) PROVE Lifecycle!Next
  <2>1. row' = [row EXCEPT ![r] = NewRow] /\ row[r].status = "absent" /\ UNCHANGED <<pc, stray>>
    BY <1>1 DEF StartRun
  <2>2. St' = [St EXCEPT ![r] = "pending"] /\ St[r] = "absent"
    BY <2>1 DEF St, NewRow, TypeOK
  <2>3. Wk' = Wk
    BY <2>1 DEF Wk, Holders
  <2>4. Lifecycle!Create(r)
    BY <2>1, <2>2, <2>3 DEF Lifecycle!Create, St, Wk
  <2> QED BY <2>4 DEF Lifecycle!Next
<1>2. ASSUME UNCHANGED <<row, stray>>,
             \A t \in Tasks : pc'[t] = pc[t] \/ (pc[t] = "idle" /\ pc'[t] = "claim")
      PROVE  UNCHANGED <<St, Wk, stray>>
  <2>1. \A r \in Runs : Holders(r)' = Holders(r)
    BY <1>2 DEF Holders, Holding
  <2> QED BY <1>2, <2>1 DEF St, Wk
<1>3. ASSUME NEW a \in Agents, NEW r \in Runs, AcceptTrigger(a, r)
      PROVE  UNCHANGED <<St, Wk, stray>>
  <2>1. \A t \in Tasks : pc'[t] = pc[t] \/ (pc[t] = "idle" /\ pc'[t] = "claim")
    BY <1>3, SpawnKeepsTasks DEF AcceptTrigger
  <2> QED BY <1>2, <1>3, <2>1 DEF AcceptTrigger
<1>4. ASSUME NEW a \in Agents, Poll(a) PROVE UNCHANGED <<St, Wk, stray>>
  <2>1. PollBatch \in SUBSET Runs
    BY DEF PollBatch, Pending
  <2>2. \A t \in Tasks : pc'[t] = pc[t] \/ (pc[t] = "idle" /\ pc'[t] = "claim")
    BY <1>4, <2>1, SpawnKeepsTasks DEF Poll
  <2> QED BY <1>2, <1>4, <2>2 DEF Poll
<1>5. ASSUME NEW a \in Agents, AgentStops(a) PROVE Lifecycle!Next
  <2> DEFINE gone == {t \in Tasks : AgentOf(t) = a}
  <2>1. \A r \in Runs : Holders(r)' = Holders(r) \ gone
    BY <1>5 DEF AgentStops, Holders, Holding, TypeOK
  <2>2. UNCHANGED <<row, stray>>
    BY <1>5 DEF AgentStops, rcaVars
  <2>3. Lifecycle!Abandon(gone)
    BY <2>1, <2>2 DEF Lifecycle!Abandon, St, Wk
  <2>4. gone \in SUBSET Tasks
    OBVIOUS
  <2> QED BY <2>3, <2>4 DEF Lifecycle!Next
<1>6. CASE \/ \E r \in Runs : LoseTrigger(r)
           \/ \E a \in Agents : AgentStarts(a)
           \/ \E c \in Chats : ChatStep(c)
           \/ UNCHANGED vars
  <2>1. UNCHANGED <<row, stray, pc>>
    BY <1>6 DEF LoseTrigger, AgentStarts, ChatStep, rcaVars, chatVars, vars
  <2> QED BY <1>2, <2>1
<1> QED BY <1>1, <1>3, <1>4, <1>5, <1>6, TaskStepLifecycle DEF Next

\* The agents' tasks, their poller, the trigger and their failures implement the life of a run
\* that RunLifecycle promises: one worker at a time, from pending or failed, to its end.
THEOREM LifecycleImplemented == Spec => ImplementsLifecycle
<1>1. Init => Lifecycle!Init
  <2> SUFFICES ASSUME Init PROVE Lifecycle!Init
    OBVIOUS
  <2>1. St = [r \in Runs |-> "absent"]
    BY DEF Init, St, NoRow
  <2>2. Wk = [r \in Runs |-> {}]
    BY DEF Init, Wk, Holders, Holding
  <2> QED BY <2>1, <2>2 DEF Lifecycle!Init, Init, St, Wk
<1>2. TypeOK /\ HolderInv /\ [Next]_vars => [Lifecycle!Next]_(Lifecycle!vars)
  BY NextLifecycle DEF Lifecycle!vars, St, Wk
<1> QED BY <1>1, <1>2, TypeCorrect, HolderInvariant, PTL DEF Spec, ImplementsLifecycle, Lifecycle!Spec

-----------------------------------------------------------------------------
(* Who makes the thread of a run *)

\* A task makes the thread of its run when it stands at its insert, and stands there only
\* when it has just found none.
LEMMA TaskThread ==
  ASSUME TypeOK, NEW t \in Tasks, TaskStep(t)
  PROVE  /\ stray \subseteq stray'
         /\ \/ thread' = thread
            \/ pc[t] = "insert" /\ thread' = [thread EXCEPT ![RunOf(t)] = "run"]
         /\ pc'[t] = "insert" => thread[RunOf(t)] = "none" /\ thread' = thread
<1>1. \A from, to \in PC : Goto(t, from, to) => pc[t] = from /\ pc'[t] = to
  BY DEF Goto, TypeOK
<1>2. CASE Claim(t) \/ Skip(t) \/ ClaimRaises(t)
  BY <1>1, <1>2 DEF Claim, Skip, ClaimRaises, PC
<1>3. CASE SelectThread(t)
  BY <1>1, <1>3 DEF SelectThread, PC
<1>4. CASE InsertThread(t) \/ ThreadConflict(t) \/ ThreadRaises(t)
  BY <1>1, <1>4 DEF InsertThread, ThreadConflict, ThreadRaises, PC
<1>5. CASE GraphReturns(t) \/ GraphRaises(t) \/ Complete(t) \/ CompleteRaises(t)
  BY <1>1, <1>5 DEF GraphReturns, GraphRaises, Complete, CompleteRaises, PC
<1>6. CASE Fail(t) \/ FailUnclaimed(t) \/ FailRaises(t)
  BY <1>1, <1>6 DEF Fail, FailUnclaimed, FailRaises, PC
<1> QED BY <1>2, <1>3, <1>4, <1>5, <1>6 DEF TaskStep

\* Everybody else moves no task to its insert and makes threads for chat requests only.
LEMMA OtherThread ==
  ASSUME TypeOK, Next, \A t \in Tasks : ~TaskStep(t)
  PROVE  /\ stray' = stray
         /\ \A t \in Tasks : pc'[t] = "insert" => pc[t] = "insert"
         /\ \A r \in Runs : thread'[r] = "run" => thread[r] = "run"
<1>1. CASE \E r \in Runs : StartRun(r) \/ LoseTrigger(r)
  BY <1>1 DEF StartRun, LoseTrigger
<1>2. ASSUME NEW a \in Agents, NEW R \in SUBSET Runs, Spawn(a, R)
      PROVE  \A t \in Tasks : pc'[t] = "insert" => pc[t] = "insert"
  BY <1>2, SpawnKeepsTasks
<1>3. ASSUME NEW a \in Agents, NEW r \in Runs, AcceptTrigger(a, r)
      PROVE  UNCHANGED <<thread, stray>> /\ \A t \in Tasks : pc'[t] = "insert" => pc[t] = "insert"
  BY <1>2, <1>3 DEF AcceptTrigger
<1>4. ASSUME NEW a \in Agents, Poll(a)
      PROVE  UNCHANGED <<thread, stray>> /\ \A t \in Tasks : pc'[t] = "insert" => pc[t] = "insert"
  BY <1>2, <1>4 DEF Poll, PollBatch, Pending
<1>5. CASE \E a \in Agents : AgentStops(a) \/ AgentStarts(a)
  BY <1>5 DEF AgentStops, AgentStarts, rcaVars
<1>6. ASSUME NEW c \in Chats, ChatStep(c)
      PROVE  /\ UNCHANGED <<pc, stray>>
             /\ \A r \in Runs : thread'[r] = "run" => thread[r] = "run"
  <2>1. thread' = thread \/ thread' = [thread EXCEPT ![chat[c].run] = "chat"]
    BY <1>6 DEF ChatStep, ChatStart, ChatSelect, ChatInsert, ChatQuestion, ChatModel, ChatAnswer, ChatRaises
  <2> QED BY <1>6, <2>1 DEF ChatStep, rcaVars, TypeOK
<1> QED BY <1>1, <1>3, <1>4, <1>5, <1>6 DEF Next

\* However many tasks the trigger and the pollers queued for a run, no two of them race for its
\* thread: the one that inserts it holds the run, and so does the one about to insert it
\* (RCARepository.get_or_create_thread after mark_running).
THEOREM ThreadRaceAlwaysChat == Spec => []ThreadRaceIsChat
<1>1. Init => ThreadRaceIsChat
  BY DEF Init, ThreadRaceIsChat
<1>2. TypeOK /\ HolderInv /\ ThreadRaceIsChat /\ [Next]_vars => ThreadRaceIsChat'
  <2> SUFFICES ASSUME TypeOK, HolderInv, ThreadRaceIsChat, [Next]_vars,
                      NEW r \in Runs, r \notin stray', NEW t \in Tasks, RunOf(t) = r,
                      pc'[t] = "insert", thread'[r] = "run"
               PROVE  FALSE
    BY DEF ThreadRaceIsChat, Holders
  <2>1. ASSUME pc[t] = "insert", r \notin stray PROVE t \in Holders(r) /\ thread[r] # "run"
    BY <2>1 DEF ThreadRaceIsChat, Holders, Holding
  <2>2. CASE UNCHANGED vars
    BY <2>1, <2>2 DEF vars
  <2>3. CASE Next /\ \A u \in Tasks : ~TaskStep(u)
    BY <2>1, <2>3, OtherThread
  <2>4. ASSUME NEW u \in Tasks, TaskStep(u) PROVE FALSE
    <3>1. CASE u = t
      BY <2>4, <3>1, TaskThread
    <3>2. CASE u # t
      <4>1. pc[t] = "insert" /\ r \notin stray
        BY <2>4, <3>2, TaskMoves, TaskThread
      <4>2. pc[u] = "insert" /\ RunOf(u) = r
        BY <2>1, <2>4, <4>1, TaskThread DEF TypeOK
      <4>3. u \in Holders(r)
        BY <4>2 DEF Holders, Holding
      <4> QED BY <2>1, <3>2, <4>1, <4>3 DEF HolderInv, OneHolder
    <3> QED BY <3>1, <3>2
  <2> QED BY <2>2, <2>3, <2>4
<1> QED BY <1>1, <1>2, TypeCorrect, HolderInvariant, PTL DEF Spec

-----------------------------------------------------------------------------
(* Questions and answers *)

Roles == {"user", "assistant"}

\* The messages of a role among the first n.
Of(m, n, role) == {i \in 1 .. n : m[i] = role}

\* The messages of a role are finitely many.
LEMMA OfFinite ==
  ASSUME NEW m, NEW n \in Nat, NEW role
  PROVE  IsFiniteSet(Of(m, n, role)) /\ Cardinality(Of(m, n, role)) \in Nat
<1>1. IsFiniteSet(1 .. n) /\ Of(m, n, role) \in SUBSET (1 .. n)
  BY FS_Interval DEF Of
<1> QED BY <1>1, FS_Subset, FS_CardinalityType

\* A message that is added counts once, at the end.
LEMMA AppendCounts ==
  ASSUME NEW m \in Seq(Roles), NEW new \in Roles, NEW role \in Roles
  PROVE  /\ Len(Append(m, new)) = Len(m) + 1
         /\ \A n \in 0 .. Len(m) : Of(Append(m, new), n, role) = Of(m, n, role)
         /\ Cardinality(Of(Append(m, new), Len(m) + 1, role)) =
              Cardinality(Of(m, Len(m), role)) + (IF role = new THEN 1 ELSE 0)
<1> DEFINE l == Len(m)
           a == Append(m, new)
<1>1. l \in Nat /\ Len(a) = l + 1 /\ a[l + 1] = new /\ \A i \in 1 .. l : a[i] = m[i]
  OBVIOUS
<1>2. \A n \in 0 .. l : Of(a, n, role) = Of(m, n, role)
  BY <1>1 DEF Of
<1>3. CASE role = new
  <2>1. Of(a, l + 1, role) = Of(m, l, role) \cup {l + 1} /\ l + 1 \notin Of(m, l, role)
    BY <1>1, <1>3 DEF Of
  <2>2. Cardinality(Of(a, l + 1, role)) = Cardinality(Of(m, l, role)) + 1
    BY <1>1, <2>1, OfFinite, FS_AddElement
  <2> QED BY <1>1, <1>2, <1>3, <2>2
<1>4. CASE role # new
  <2>1. Of(a, l + 1, role) = Of(m, l, role)
    BY <1>1, <1>4 DEF Of
  <2> QED BY <1>1, <1>2, <1>4, <2>1, OfFinite
<1> QED BY <1>3, <1>4

\* The requests that have stored a question on r and may store an answer.
Owed(r) == {c \in Chats : chat[c].pc \in {"answer", "assistant"} /\ chat[c].run = r}

\* Each answer that is stored or owed has a question.
OwedInv ==
  \A r \in Runs :
    /\ IsFiniteSet(Owed(r))
    /\ Cardinality(Of(messages[r], Len(messages[r]), "assistant")) + Cardinality(Owed(r))
         <= Cardinality(Of(messages[r], Len(messages[r]), "user"))

\* On a run, a step adds no message and owes nothing new; or stores a question, and owes its
\* answer at most; or stores an answer that was owed.
OwedMove(r) ==
  \/ messages'[r] = messages[r] /\ Owed(r)' \subseteq Owed(r)
  \/ /\ messages'[r] = Append(messages[r], "user")
     /\ \E c : Owed(r)' \subseteq Owed(r) \cup {c}
  \/ /\ messages'[r] = Append(messages[r], "assistant")
     /\ \E c \in Owed(r) : Owed(r)' \subseteq Owed(r) \ {c}

\* A move of a chat request changes nothing of the others; its own run stays.
LEMMA ChatMoves ==
  ASSUME TypeOK, NEW c \in Chats, NEW from, NEW to \in ChatPC, ChatGoto(c, from, to), from # "idle"
  PROVE  /\ chat[c].pc = from /\ chat[c].run \in Runs
         /\ \A d \in Chats : d # c => chat'[d] = chat[d]
         /\ chat'[c].pc = to
         /\ to # "idle" => chat'[c].run = chat[c].run
<1>1. chat[c].pc = from /\ chat[c].run \in Runs
  BY DEF ChatGoto, TypeOK, ChatState
<1>2. \A d \in Chats : d # c => chat'[d] = chat[d]
  BY DEF ChatGoto, TypeOK
<1>3. chat'[c] = IF to = "idle" THEN NoChat ELSE [pc |-> to, run |-> chat[c].run, kind |-> chat[c].kind]
  BY DEF ChatGoto, TypeOK
<1> QED BY <1>1, <1>2, <1>3 DEF NoChat

\* No chat step adds an answer, stored or owed, without a question.
LEMMA ChatOwed ==
  ASSUME TypeOK, NEW c \in Chats, ChatStep(c), NEW r \in Runs
  PROVE  OwedMove(r)
<1> DEFINE Owing == {"answer", "assistant"}
<1>1. messages \in [Runs -> Seq(Roles)]
  BY DEF TypeOK, Roles
\* Without a new message: whoever owes an answer then owed it before.
<1>2. ASSUME messages' = messages, NEW from \in ChatPC, NEW to \in ChatPC, ChatGoto(c, from, to),
             from # "idle", to \in Owing => from \in Owing
      PROVE  OwedMove(r)
  BY <1>2, ChatMoves DEF OwedMove, Owed
<1>3. ASSUME AddMessage(c, "user"), NEW to \in ChatPC, ChatGoto(c, "user", to)
      PROVE  OwedMove(r)
  <2>1. chat[c].run \in Runs /\ Owed(r)' \subseteq Owed(r) \cup {c}
    BY <1>3, ChatMoves DEF Owed
  <2>2. chat[c].run = r => messages'[r] = Append(messages[r], "user")
    BY <1>1, <1>3 DEF AddMessage
  <2>3. chat[c].run # r => messages'[r] = messages[r] /\ Owed(r)' \subseteq Owed(r)
    BY <1>1, <1>3, <2>1, ChatMoves DEF AddMessage, Owed
  <2> QED BY <2>1, <2>2, <2>3 DEF OwedMove
<1>4. ASSUME AddMessage(c, "assistant"), ChatGoto(c, "assistant", "idle")
      PROVE  OwedMove(r)
  <2>1. chat[c].run \in Runs /\ Owed(r)' \subseteq Owed(r) \ {c} /\ (chat[c].run = r => c \in Owed(r))
    BY <1>4, ChatMoves DEF Owed, ChatPC
  <2>2. chat[c].run = r => messages'[r] = Append(messages[r], "assistant")
    BY <1>1, <1>4 DEF AddMessage
  <2>3. chat[c].run # r => messages'[r] = messages[r] /\ Owed(r)' \subseteq Owed(r)
    BY <1>1, <1>4, <2>1 DEF AddMessage
  <2> QED BY <2>1, <2>2, <2>3 DEF OwedMove
<1>5. ASSUME NEW q \in Runs, NEW kind \in {"post", "get"}, ChatStart(c, q, kind) PROVE OwedMove(r)
  <2>1. messages' = messages /\ chat' = [chat EXCEPT ![c] = [pc |-> "select", run |-> q, kind |-> kind]]
    BY <1>5 DEF ChatStart
  <2>2. Owed(r)' \subseteq Owed(r)
    BY <2>1 DEF Owed, TypeOK
  <2> QED BY <2>1, <2>2 DEF OwedMove
<1>6. CASE ChatSelect(c) \/ ChatInsert(c)
  <2>1. PICK from \in {"select", "insert"}, to \in {"insert", "user", "idle"} : ChatGoto(c, from, to)
    BY <1>6 DEF ChatSelect, ChatInsert, WithThread
  <2>2. messages' = messages
    BY <1>6 DEF ChatSelect, ChatInsert
  <2> QED BY <1>2, <2>1, <2>2 DEF ChatPC
<1>7. CASE ChatQuestion(c)
  BY <1>3, <1>7 DEF ChatQuestion, ChatPC
<1>8. CASE ChatModel(c)
  BY <1>2, <1>8 DEF ChatModel, ChatPC
<1>9. CASE ChatAnswer(c)
  BY <1>4, <1>9 DEF ChatAnswer
<1>10. CASE ChatRaises(c)
  BY <1>2, <1>3, <1>4, <1>10 DEF ChatRaises, ChatPC
<1> QED BY <1>5, <1>6, <1>7, <1>8, <1>9, <1>10 DEF ChatStep

\* Nor does any other step.
LEMMA NextOwed == ASSUME TypeOK, [Next]_vars, NEW r \in Runs PROVE OwedMove(r)
<1>1. CASE UNCHANGED <<messages, chat>>
  BY <1>1 DEF OwedMove, Owed
<1>2. ASSUME NEW a \in Agents, AgentStops(a) PROVE OwedMove(r)
  <2>1. messages' = messages /\ \A c \in Chats : chat'[c] = NoChat \/ chat'[c] = chat[c]
    BY <1>2 DEF AgentStops
  <2>2. Owed(r)' \subseteq Owed(r)
    BY <2>1 DEF Owed, NoChat
  <2> QED BY <2>1, <2>2 DEF OwedMove
<1>3. \/ UNCHANGED <<messages, chat>>
      \/ \E a \in Agents : AgentStops(a)
      \/ \E c \in Chats : ChatStep(c)
  BY DEF Next, vars, StartRun, LoseTrigger, AcceptTrigger, Poll, TaskStep, AgentStarts, chatVars
<1> QED BY <1>1, <1>2, <1>3, ChatOwed

\* No chat thread shows an answer before its question, whichever requests on it overlap, raise
\* or are lost: a request stores its question before it asks the model, and its answer, if it
\* gets one, once (the chat endpoint of main.py, RCARepository.add_message).
THEOREM AnswersAlwaysFollow == Spec => []AnswersFollowQuestions
<1> DEFINE Answered(m, n) == Cardinality(Of(m, n, "assistant")) <= Cardinality(Of(m, n, "user"))
           Ordered == \A r \in Runs : \A n \in 0 .. Len(messages[r]) : Answered(messages[r], n)
           IInv == OwedInv /\ Ordered
<1>1. Init => IInv
  <2> SUFFICES ASSUME Init, NEW r \in Runs
               PROVE  /\ IsFiniteSet(Owed(r))
                      /\ Cardinality(Of(messages[r], Len(messages[r]), "assistant")) + Cardinality(Owed(r))
                           <= Cardinality(Of(messages[r], Len(messages[r]), "user"))
                      /\ \A n \in 0 .. Len(messages[r]) : Answered(messages[r], n)
    BY DEF OwedInv
  <2>1. messages[r] = <<>> /\ Owed(r) = {}
    BY DEF Init, Owed, NoChat
  <2>2. \A role : Of(messages[r], 0, role) = {}
    BY DEF Of
  <2>3. IsFiniteSet({}) /\ Cardinality({}) = 0 /\ Len(messages[r]) = 0
    BY <2>1, FS_EmptySet
  <2>4. Len(messages[r]) = 0 /\ \A role : Cardinality(Of(messages[r], 0, role)) = 0
    BY <2>2, <2>3
  <2> QED BY <2>1, <2>3, <2>4
<1>2. TypeOK /\ IInv /\ [Next]_vars => IInv'
  <2> SUFFICES ASSUME TypeOK, IInv, [Next]_vars, NEW r \in Runs
               PROVE  /\ IsFiniteSet(Owed(r)')
                      /\ Cardinality(Of(messages'[r], Len(messages'[r]), "assistant")) + Cardinality(Owed(r)')
                           <= Cardinality(Of(messages'[r], Len(messages'[r]), "user"))
                      /\ \A n \in 0 .. Len(messages'[r]) : Answered(messages'[r], n)
    BY DEF OwedInv
  <2> DEFINE m == messages[r]
             l == Len(m)
             O == Owed(r)
             P == Owed(r)'
  <2>1. m \in Seq(Roles) /\ l \in Nat
    BY DEF TypeOK, Roles
  <2>2. /\ IsFiniteSet(O) /\ Cardinality(O) \in Nat
        /\ Cardinality(Of(m, l, "assistant")) + Cardinality(O) <= Cardinality(Of(m, l, "user"))
        /\ \A n \in 0 .. l : Answered(m, n)
    BY FS_CardinalityType DEF OwedInv
  <2>3. OwedMove(r)
    BY NextOwed
  <2>4. /\ Cardinality(Of(m, l, "assistant")) \in Nat /\ Cardinality(Of(m, l, "user")) \in Nat
    BY <2>1, OfFinite
  <2>5. ASSUME NEW S, IsFiniteSet(S), P \subseteq S
        PROVE  IsFiniteSet(P) /\ Cardinality(P) \in Nat /\ Cardinality(P) <= Cardinality(S)
    BY <2>5, FS_Subset, FS_CardinalityType
  <2>6. CASE messages'[r] = m /\ P \subseteq O
    <3>1. IsFiniteSet(P) /\ Cardinality(P) \in Nat /\ Cardinality(P) <= Cardinality(O)
      BY <2>2, <2>5, <2>6
    <3> HIDE DEF m, l, O, P, Answered
    <3>2. Len(messages'[r]) = l
      BY <2>6 DEF l
    <3>3. Cardinality(Of(m, l, "assistant")) + Cardinality(P) <= Cardinality(Of(m, l, "user"))
      BY <2>2, <2>4, <3>1
    <3> QED BY <2>2, <2>6, <3>1, <3>2, <3>3 DEF P
\* With a new message: what is to be shown of the longer thread.
  <2>7. ASSUME NEW new \in Roles, messages'[r] = Append(m, new), IsFiniteSet(P), Cardinality(P) \in Nat,
               Cardinality(P) <= Cardinality(O) + (IF new = "user" THEN 1 ELSE -1)
        PROVE  /\ Cardinality(Of(messages'[r], Len(messages'[r]), "assistant")) + Cardinality(P)
                    <= Cardinality(Of(messages'[r], Len(messages'[r]), "user"))
               /\ \A n \in 0 .. Len(messages'[r]) : Answered(messages'[r], n)
    <3> DEFINE a == Append(m, new)
               ans(n) == Cardinality(Of(a, n, "assistant"))
               ask(n) == Cardinality(Of(a, n, "user"))
    <3>1. /\ Len(a) = l + 1
          /\ \A n \in 0 .. l : Of(a, n, "assistant") = Of(m, n, "assistant") /\ Of(a, n, "user") = Of(m, n, "user")
          /\ ans(l + 1) = Cardinality(Of(m, l, "assistant")) + (IF new = "user" THEN 0 ELSE 1)
          /\ ask(l + 1) = Cardinality(Of(m, l, "user")) + (IF new = "user" THEN 1 ELSE 0)
      BY <2>1, <2>7, AppendCounts DEF Roles
    <3>2. \A n \in 0 .. l : ans(n) <= ask(n)
      BY <2>2, <3>1
    <3> HIDE DEF ans, ask, O, P, m, l
    <3>3. ans(l + 1) + Cardinality(P) <= ask(l + 1)
      <4>1. CASE new = "user"
        BY <2>2, <2>4, <2>7, <3>1, <4>1
      <4>2. CASE new # "user"
        BY <2>2, <2>4, <2>7, <3>1, <4>2
      <4> QED BY <4>1, <4>2
    <3>4. ans(l + 1) \in Nat /\ ask(l + 1) \in Nat
      <4>1. CASE new = "user"
        BY <2>4, <3>1, <4>1
      <4>2. CASE new # "user"
        BY <2>4, <3>1, <4>2
      <4> QED BY <4>1, <4>2
    <3>5. ans(l + 1) <= ask(l + 1)
      BY <2>7, <3>3, <3>4
    <3>6. \A n \in 0 .. l + 1 : ans(n) <= ask(n)
      BY <2>1, <3>2, <3>5
    <3> QED BY <2>7, <3>1, <3>3, <3>6 DEF ans, ask
  <2>8. ASSUME NEW c, messages'[r] = Append(m, "user"), P \subseteq O \cup {c}
        PROVE  IsFiniteSet(P) /\ Cardinality(P) \in Nat /\ Cardinality(P) <= Cardinality(O) + 1
    <3> HIDE DEF O, P
    <3>1. IsFiniteSet(O \cup {c}) /\ Cardinality(O \cup {c}) \in {Cardinality(O), Cardinality(O) + 1}
      BY <2>2, FS_AddElement
    <3> QED BY <2>2, <2>5, <2>8, <3>1
  <2>9. ASSUME NEW c \in O, messages'[r] = Append(m, "assistant"), P \subseteq O \ {c}
        PROVE  IsFiniteSet(P) /\ Cardinality(P) \in Nat /\ Cardinality(P) <= Cardinality(O) - 1
    <3> HIDE DEF O, P
    <3>1. IsFiniteSet(O \ {c}) /\ Cardinality(O \ {c}) = Cardinality(O) - 1
      BY <2>2, <2>9, FS_RemoveElement
    <3> QED BY <2>2, <2>5, <2>9, <3>1
  <2> HIDE DEF Answered, m, l
  <2>10. CASE messages'[r] = Append(m, "user") /\ \E c : P \subseteq O \cup {c}
    BY <2>7, <2>8, <2>10 DEF Roles
  <2>11. CASE messages'[r] = Append(m, "assistant") /\ \E c \in O : P \subseteq O \ {c}
    <3>1. IsFiniteSet(P) /\ Cardinality(P) \in Nat /\ Cardinality(P) <= Cardinality(O) - 1
      BY <2>9, <2>11
    <3>2. Cardinality(P) <= Cardinality(O) + (-1)
      BY <2>2, <3>1
    <3> QED BY <2>7, <2>11, <3>1, <3>2 DEF Roles
  <2> QED BY <2>3, <2>6, <2>10, <2>11 DEF OwedMove, m
<1>3. IInv => AnswersFollowQuestions
  BY DEF AnswersFollowQuestions, Of
<1> HIDE DEF Ordered
<1> QED BY <1>1, <1>2, <1>3, TypeCorrect, PTL DEF Spec
=============================================================================
