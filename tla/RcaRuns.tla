------------------------------- MODULE RcaRuns -------------------------------
(***************************************************************************)
(* The life of root-cause-analysis runs.  The deployment manager creates a *)
(* run in state pending and triggers the RCA agent once, without waiting   *)
(* (RcaService.startForIncident).  An agent process executes run_rca tasks *)
(* that come from triggers and from its poller: each task first claims the *)
(* run with a conditional UPDATE, then builds the report and stores it.    *)
(* Every database call is one transaction; it may commit, raise without    *)
(* having committed, or raise after its commit (the answer is lost).       *)
(*                                                                         *)
(* Chat requests share the agent's thread table with the tasks.            *)
(***************************************************************************)
EXTENDS Integers, FiniteSets, Sequences

CONSTANTS
  Agents,           \* agent processes (two of them during a rolling update)
  NRuns,            \* runs are named 1..NRuns in the order of their createdAt
  Slots,            \* run_rca tasks of one run that one agent can hold at once
  Requests,         \* chat requests one agent can be serving at once
  PollLimit,        \* pending_runs(limit=3)
  PollEnabled,      \* RCA_AGENT_POLL_ENABLED
  TriggerEnabled,   \* rcaAgentEnabled and rcaAgentTriggerMode = "async"
  MaxFaults,        \* bound on database calls that raise
  MaxCrashes,       \* bound on agent stops
  MaxMessages       \* no chat question starts on a thread with that many messages

ASSUME RunsAssumption ==
  /\ NRuns \in Nat
  /\ PollLimit \in Nat \ {0}
  /\ MaxFaults \in Nat /\ MaxCrashes \in Nat /\ MaxMessages \in Nat
  /\ PollEnabled \in BOOLEAN /\ TriggerEnabled \in BOOLEAN

Runs  == 1 .. NRuns
Tasks == Agents \X Runs \X Slots
Chats == Agents \X Requests

AgentOf(t) == t[1]
RunOf(t)   == t[2]

VARIABLES
  row,        \* RcaRun: status, report ("result"), error ("errorMessage"), ended ("completedAt")
  events,     \* RcaRunEvent: how many of each event a run has (see below)
  thread,     \* RcaAgentThread of each run: who inserted it, "none" while there is none
  messages,   \* RcaChatMessage rows of each run's thread, in the order of their commits
  trigger,    \* runs whose POST /rca-agent/runs is on its way
  up,         \* agents that are running
  pc,         \* where each run_rca task stands, "idle" when there is none
  chat,       \* each chat request: where it stands, and its run and kind
  faults,     \* database calls that raised so far
  crashes,    \* agent stops so far
  stray,      \* history: runs failed by a task that never claimed them
  dropped     \* history: runs whose holder stopped, or failed to record its failure

\* An RcaRunEvent has no order but its createdAt, the time its transaction began, which need
\* not be the order in which the transactions wrote: of the events of a run only the number
\* of each is kept.  A chat request begins to store an answer after its question committed, so
\* each answer comes after its own question in the order of createdAt too.

history  == <<stray, dropped>>
rcaVars  == <<row, events, history>>
chatVars == <<messages, chat>>
vars     == <<row, events, thread, messages, trigger, up, pc, chat, faults, crashes, history>>

Status == {"absent", "pending", "running", "completed", "failed"}
Event  == {"run.created", "run.running", "run.completed", "run.failed"}
PC     == {"idle", "claim", "select", "insert", "graph", "complete", "fail", "failUnclaimed"}
ChatPC == {"idle", "select", "insert", "user", "answer", "assistant"}

\* A task holds its run from its committed mark_running until it has finished.
Holding == {"select", "insert", "graph", "complete", "fail"}
Holders(r) == {t \in Tasks : RunOf(t) = r /\ pc[t] \in Holding}

Row == [status : Status, report : BOOLEAN, error : BOOLEAN, ended : BOOLEAN]
NoRow  == [status |-> "absent", report |-> FALSE, error |-> FALSE, ended |-> FALSE]
NewRow == [status |-> "pending", report |-> FALSE, error |-> FALSE, ended |-> FALSE]

ChatState == [pc : ChatPC, run : Runs, kind : {"post", "get"}] \cup {[pc |-> "idle"]}
NoChat == [pc |-> "idle"]

\* Type correctness of the run table, the agents and their tasks.
TypeOK ==
  /\ row \in [Runs -> Row]
  /\ events \in [Runs -> [Event -> Nat]]
  /\ thread \in [Runs -> {"none", "run", "chat"}]
  /\ messages \in [Runs -> Seq({"user", "assistant"})]
  /\ trigger \in SUBSET Runs
  /\ up \in [Agents -> BOOLEAN]
  /\ pc \in [Tasks -> PC]
  /\ chat \in [Chats -> ChatState]
  /\ faults \in Nat /\ crashes \in Nat
  /\ stray \in SUBSET Runs /\ dropped \in SUBSET Runs

Init ==
  /\ row = [r \in Runs |-> NoRow]
  /\ events = [r \in Runs |-> [e \in Event |-> 0]]
  /\ thread = [r \in Runs |-> "none"]
  /\ messages = [r \in Runs |-> <<>>]
  /\ trigger = {}
  /\ up = [a \in Agents |-> TRUE]
  /\ pc = [t \in Tasks |-> "idle"]
  /\ chat = [c \in Chats |-> NoChat]
  /\ faults = 0 /\ crashes = 0
  /\ stray = {} /\ dropped = {}

-----------------------------------------------------------------------------
(* The deployment manager *)

\* startForIncident, startForDeployment: one transaction inserts the run and its
\* run.created event; the trigger is sent afterwards and nobody waits for it.
StartRun(r) ==
  /\ row[r].status = "absent"
  /\ \A q \in Runs : q < r => row[q].status # "absent"
  /\ row' = [row EXCEPT ![r] = NewRow]
  /\ events' = [events EXCEPT ![r]["run.created"] = @ + 1]
  /\ trigger' = IF TriggerEnabled THEN trigger \cup {r} ELSE trigger
  /\ UNCHANGED <<thread, messages, up, pc, chat, faults, crashes, history>>

\* The trigger never reaches an agent: the manager stopped before it sent it, the
\* token could not be signed, the agent was down or answered with an error.
LoseTrigger(r) ==
  /\ r \in trigger
  /\ trigger' = trigger \ {r}
  /\ UNCHANGED <<row, events, thread, messages, up, pc, chat, faults, crashes, history>>

-----------------------------------------------------------------------------
(* Where tasks come from *)

HasFreeSlot(a, r) == \E k \in Slots : pc[<<a, r, k>>] = "idle"
FreeSlot(a, r)    == <<a, r, CHOOSE k \in Slots : pc[<<a, r, k>>] = "idle">>

\* One new run_rca task of agent a for each run of R.
Spawn(a, R) ==
  LET new == {FreeSlot(a, r) : r \in {q \in R : HasFreeSlot(a, q)}}
  IN  pc' = [t \in Tasks |-> IF t \in new THEN "claim" ELSE pc[t]]

\* POST /rca-agent/runs: the run is looked up and run_rca becomes a background task.
AcceptTrigger(a, r) ==
  /\ r \in trigger /\ up[a] /\ HasFreeSlot(a, r)
  /\ trigger' = trigger \ {r}
  /\ row[r].status # "absent"
  /\ Spawn(a, {r})
  /\ UNCHANGED <<row, events, thread, messages, up, chat, faults, crashes, history>>

Pending == {r \in Runs : row[r].status = "pending"}


\* Mutant: LIMIT counts runs of every status.
PollBatchLimitsFirst == {r \in Pending : Cardinality({q \in Runs : q < r}) < PollLimit}

\* ORDER BY "createdAt" ASC LIMIT PollLimit.  Only runs of active workspaces are polled; a
\* workspace is created active and nothing ever changes its status, so every one is.
PollBatch == {r \in Pending : Cardinality({q \in Pending : q < r}) < PollLimit}

\* One round of poll_pending_runs: a task for each of the oldest pending runs, whether
\* or not a task for that run exists already.
Poll(a) ==
  /\ PollEnabled /\ up[a]
  /\ Spawn(a, PollBatch)
  /\ UNCHANGED <<row, events, thread, messages, trigger, up, chat, faults, crashes, history>>

-----------------------------------------------------------------------------
(* run_rca *)

Goto(t, from, to) == pc[t] = from /\ pc' = [pc EXCEPT ![t] = to]

NoFault == UNCHANGED faults
Fault   == faults < MaxFaults /\ faults' = faults + 1


\* Mutant: a running run can be claimed again.
ClaimableRunning(r) == row[r].status \in {"pending", "failed", "running"}

\* Mutant: a completed run can be claimed again.
ClaimableCompleted(r) == row[r].status \in {"pending", "failed", "completed"}

Claimable(r) == row[r].status \in {"pending", "failed"}

\* mark_running, committed: claims the run and logs it in the same transaction.
MarkRunning(r) ==
  /\ Claimable(r)
  /\ row' = [row EXCEPT ![r] = [status |-> "running", report |-> @.report,
                                error |-> FALSE, ended |-> @.ended]]
  /\ events' = [events EXCEPT ![r]["run.running"] = @ + 1]

\* complete_run, committed: whatever the status is.
CompleteRun(r) ==
  /\ row' = [row EXCEPT ![r] = [status |-> "completed", report |-> TRUE,
                                error |-> FALSE, ended |-> TRUE]]
  /\ events' = [events EXCEPT ![r]["run.completed"] = @ + 1]


\* Mutant: a status the schema does not have.
FailRunAsError(r) ==
  /\ row' = [row EXCEPT ![r] = [status |-> "error", report |-> @.report,
                                error |-> TRUE, ended |-> TRUE]]
  /\ events' = [events EXCEPT ![r]["run.failed"] = @ + 1]

\* fail_run, committed: whatever the status is; a stored report stays.
FailRun(r) ==
  /\ row' = [row EXCEPT ![r] = [status |-> "failed", report |-> @.report,
                                error |-> TRUE, ended |-> TRUE]]
  /\ events' = [events EXCEPT ![r]["run.failed"] = @ + 1]

Claim(t) ==
  /\ Goto(t, "claim", "select")
  /\ MarkRunning(RunOf(t))
  /\ NoFault /\ UNCHANGED <<thread, history>>


\* Mutant: the answer of mark_running is ignored.
SkipGoesOn(t) ==
  /\ Goto(t, "claim", "select")
  /\ ~Claimable(RunOf(t))
  /\ NoFault /\ UNCHANGED <<row, events, thread, history>>

\* Mutant: run.running is written before it is known whether the run could be claimed.
SkipLogged(t) ==
  /\ Goto(t, "claim", "idle")
  /\ ~Claimable(RunOf(t))
  /\ events' = [events EXCEPT ![RunOf(t)]["run.running"] = @ + 1]
  /\ NoFault /\ UNCHANGED <<row, thread, history>>

Skip(t) ==
  /\ Goto(t, "claim", "idle")
  /\ ~Claimable(RunOf(t))
  /\ NoFault /\ UNCHANGED <<row, events, thread, history>>

\* mark_running raises: the task does not know whether it holds the run, and fails it.
ClaimRaises(t) ==
  /\ Fault
  /\ \/ Goto(t, "claim", "failUnclaimed") /\ UNCHANGED <<row, events>>
     \/ Goto(t, "claim", "fail") /\ MarkRunning(RunOf(t))
  /\ UNCHANGED <<thread, history>>

\* get_or_create_thread: SELECT, then INSERT under the unique index on the run.
SelectThread(t) ==
  /\ IF thread[RunOf(t)] # "none" THEN Goto(t, "select", "graph") ELSE Goto(t, "select", "insert")
  /\ NoFault /\ UNCHANGED <<row, events, thread, history>>

InsertThread(t) ==
  /\ thread[RunOf(t)] = "none"
  /\ Goto(t, "insert", "graph")
  /\ thread' = [thread EXCEPT ![RunOf(t)] = "run"]
  /\ NoFault /\ UNCHANGED <<row, events, history>>

ThreadConflict(t) ==
  /\ thread[RunOf(t)] # "none"
  /\ Goto(t, "insert", "fail")
  /\ NoFault /\ UNCHANGED <<row, events, thread, history>>

ThreadRaises(t) ==
  /\ Fault
  /\ \/ Goto(t, "select", "fail") /\ UNCHANGED thread
     \/ Goto(t, "insert", "fail") /\ UNCHANGED thread
     \/ /\ thread[RunOf(t)] = "none"
        /\ Goto(t, "insert", "fail")
        /\ thread' = [thread EXCEPT ![RunOf(t)] = "run"]
  /\ UNCHANGED <<row, events, history>>

\* RCAGraphRunner.run: a report, or any exception of the MCP server or the model.
GraphReturns(t) ==
  /\ Goto(t, "graph", "complete")
  /\ NoFault /\ UNCHANGED <<row, events, thread, history>>


\* Mutant: an exception of the graph ends the task.
GraphRaisesUncaught(t) ==
  /\ Goto(t, "graph", "idle")
  /\ NoFault /\ UNCHANGED <<row, events, thread, history>>

GraphRaises(t) ==
  /\ Goto(t, "graph", "fail")
  /\ NoFault /\ UNCHANGED <<row, events, thread, history>>

Complete(t) ==
  /\ Goto(t, "complete", "idle")
  /\ CompleteRun(RunOf(t))
  /\ NoFault /\ UNCHANGED <<thread, history>>

CompleteRaises(t) ==
  /\ Fault
  /\ Goto(t, "complete", "fail")
  /\ UNCHANGED <<row, events>> \/ CompleteRun(RunOf(t))
  /\ UNCHANGED <<thread, history>>

\* The except branch; its own exception ends the task.
Fail(t) ==
  /\ Goto(t, "fail", "idle")
  /\ FailRun(RunOf(t))
  /\ NoFault \/ Fault
  /\ UNCHANGED <<thread, history>>

FailUnclaimed(t) ==
  /\ Goto(t, "failUnclaimed", "idle")
  /\ FailRun(RunOf(t))
  /\ stray' = stray \cup {RunOf(t)}
  /\ NoFault \/ Fault
  /\ UNCHANGED <<thread, dropped>>

FailRaises(t) ==
  /\ Fault
  /\ \/ Goto(t, "fail", "idle") /\ dropped' = dropped \cup {RunOf(t)}
     \/ Goto(t, "failUnclaimed", "idle") /\ UNCHANGED dropped
  /\ UNCHANGED <<row, events, thread, stray>>

TaskStep(t) ==
  /\ \/ Claim(t) \/ Skip(t) \/ ClaimRaises(t)
     \/ SelectThread(t) \/ InsertThread(t) \/ ThreadConflict(t) \/ ThreadRaises(t)
     \/ GraphReturns(t) \/ GraphRaises(t)
     \/ Complete(t) \/ CompleteRaises(t)
     \/ Fail(t) \/ FailUnclaimed(t) \/ FailRaises(t)
  /\ UNCHANGED <<messages, trigger, up, chat, crashes>>

-----------------------------------------------------------------------------
(* Chat requests on a run: POST stores the question, asks the model, stores  *)
(* the answer; GET only lists.  Both create the thread when it is missing,   *)
(* and any exception is an HTTP error.                                       *)

ChatGoto(c, from, to) ==
  /\ chat[c].pc = from
  /\ chat' = [chat EXCEPT ![c] =
                IF to = "idle" THEN NoChat ELSE [pc |-> to, run |-> @.run, kind |-> @.kind]]

\* Once the thread is there a POST goes on to store its question, a GET is done.
WithThread(c) == IF chat[c].kind = "post" THEN "user" ELSE "idle"

ChatStart(c, r, kind) ==
  /\ up[c[1]] /\ chat[c] = NoChat
  /\ row[r].status # "absent"
  /\ Len(messages[r]) < MaxMessages
  /\ chat' = [chat EXCEPT ![c] = [pc |-> "select", run |-> r, kind |-> kind]]
  /\ UNCHANGED <<thread, messages, faults>>

ChatSelect(c) ==
  /\ chat[c].pc = "select"
  /\ ChatGoto(c, "select", IF thread[chat[c].run] = "none" THEN "insert" ELSE WithThread(c))
  /\ UNCHANGED <<thread, messages, faults>>

ChatInsert(c) ==
  /\ chat[c].pc = "insert"
  /\ IF thread[chat[c].run] = "none"
       THEN /\ thread' = [thread EXCEPT ![chat[c].run] = "chat"]
            /\ ChatGoto(c, "insert", WithThread(c))
       ELSE ChatGoto(c, "insert", "idle") /\ UNCHANGED thread
  /\ UNCHANGED <<messages, faults>>

AddMessage(c, role) == messages' = [messages EXCEPT ![chat[c].run] = Append(@, role)]


\* Mutant: the question is not stored before the model is asked.
ChatQuestionUnsaved(c) ==
  /\ ChatGoto(c, "user", "answer")
  /\ UNCHANGED <<thread, messages, faults>>

ChatQuestion(c) ==
  /\ ChatGoto(c, "user", "answer")
  /\ AddMessage(c, "user")
  /\ UNCHANGED <<thread, faults>>

ChatModel(c) ==
  /\ ChatGoto(c, "answer", "assistant") \/ ChatGoto(c, "answer", "idle")
  /\ UNCHANGED <<thread, messages, faults>>

ChatAnswer(c) ==
  /\ ChatGoto(c, "assistant", "idle")
  /\ AddMessage(c, "assistant")
  /\ UNCHANGED <<thread, faults>>

\* A database call of the request raises, before or after its commit.
ChatRaises(c) ==
  /\ Fault
  /\ \/ /\ \E from \in {"select", "insert", "user", "assistant"} : ChatGoto(c, from, "idle")
        /\ UNCHANGED <<thread, messages>>
     \/ /\ ChatGoto(c, "user", "idle") /\ AddMessage(c, "user") /\ UNCHANGED thread
     \/ /\ ChatGoto(c, "assistant", "idle") /\ AddMessage(c, "assistant") /\ UNCHANGED thread
     \/ /\ ChatGoto(c, "insert", "idle") /\ thread[chat[c].run] = "none"
        /\ thread' = [thread EXCEPT ![chat[c].run] = "chat"] /\ UNCHANGED messages

ChatStep(c) ==
  /\ \/ \E r \in Runs, kind \in {"post", "get"} : ChatStart(c, r, kind)
     \/ ChatSelect(c) \/ ChatInsert(c) \/ ChatQuestion(c) \/ ChatModel(c)
     \/ ChatAnswer(c) \/ ChatRaises(c)
  /\ UNCHANGED <<rcaVars, trigger, up, pc, crashes>>

-----------------------------------------------------------------------------
(* Agent processes *)

\* A crash or a shutdown: the tasks and requests of the process are gone, and what they
\* had not committed with them.
AgentStops(a) ==
  /\ up[a] /\ crashes < MaxCrashes
  /\ crashes' = crashes + 1
  /\ up' = [up EXCEPT ![a] = FALSE]
  /\ pc' = [t \in Tasks |-> IF AgentOf(t) = a THEN "idle" ELSE pc[t]]
  /\ chat' = [c \in Chats |-> IF c[1] = a THEN NoChat ELSE chat[c]]
  /\ dropped' = dropped \cup {RunOf(t) : t \in {u \in Tasks : AgentOf(u) = a /\ pc[u] \in Holding}}
  /\ UNCHANGED <<row, events, stray, thread, messages, trigger, faults>>

AgentStarts(a) ==
  /\ ~up[a]
  /\ up' = [up EXCEPT ![a] = TRUE]
  /\ UNCHANGED <<rcaVars, chatVars, thread, trigger, pc, faults, crashes>>

Next ==
  \/ \E r \in Runs : StartRun(r) \/ LoseTrigger(r)
  \/ \E a \in Agents : \/ \E r \in Runs : AcceptTrigger(a, r)
                       \/ Poll(a) \/ AgentStops(a) \/ AgentStarts(a)
  \/ \E t \in Tasks : TaskStep(t)
  \/ \E c \in Chats : ChatStep(c)

Spec == Init /\ [][Next]_vars

\* asyncio runs every task, every call a task makes has a timeout, the poller loops, and
\* Kubernetes restarts an agent.  Nothing obliges users, triggers or faults.
Fairness ==
  /\ \A t \in Tasks : WF_vars(TaskStep(t))
  /\ \A a \in Agents : WF_vars(Poll(a)) /\ WF_vars(AgentStarts(a))

FairSpec == Spec /\ Fairness

-----------------------------------------------------------------------------
(* Properties *)

\* Two tasks, from the poller, the trigger or two agents, never work on one run at the
\* same time, except after a task whose mark_running raised has failed the run of another.
OneHolder ==
  \A r \in Runs \ stray : \A t, u \in Holders(r) : t = u

\* A run that is held is running, or its complete_run committed and then raised.
HeldIsRunning ==
  \A r \in Runs \ stray : \A t \in Holders(r) :
     row[r].status = "running" \/ (row[r].status = "completed" /\ pc[t] = "fail" /\ faults > 0)

\* A run marked running has a task working on it, unless the task that held it stopped with its
\* agent or could not record its failure: nothing else strands a run in running, whatever
\* duplicates, lost answers and other stops there are.
RunningIsHeld ==
  \A r \in Runs : row[r].status = "running" => Holders(r) # {} \/ r \in dropped

\* Only a database call that raised makes a task fail a run it does not hold.
StrayNeedsFault ==
  faults = 0 => stray = {} /\ \A t \in Tasks : pc[t] # "failUnclaimed"

\* Who holds a run and what its row says, which every step preserves together.
HolderInv == OneHolder /\ HeldIsRunning /\ StrayNeedsFault /\ RunningIsHeld

\* The events of a run add up to its status, in whatever order they are read: every claim but
\* that of a running run is closed by an end, however many tasks queue, retry and stop; an end
\* without a claim of its own costs a database call that raised; and the run was created once.
Started(r) == events[r]["run.running"]
Ended(r)   == events[r]["run.completed"] + events[r]["run.failed"]
Now(r)     == IF row[r].status = "running" THEN 1 ELSE 0

EventsAddUp ==
  \A r \in Runs :
     /\ Started(r) <= Ended(r) + Now(r)
     /\ Ended(r) + Now(r) <= Started(r) + faults
     /\ events[r]["run.created"] = IF row[r].status = "absent" THEN 0 ELSE 1
     /\ row[r].status = "running"   => Started(r) > 0
     /\ row[r].status = "completed" => events[r]["run.completed"] > 0
     /\ row[r].status = "failed"    => events[r]["run.failed"] > 0

\* The nullable columns follow the status through every retry: a completed run has its
\* report and no error, a failed one its error, a pending one neither.
ColumnsFollowStatus ==
  \A r \in Runs :
     /\ row[r].status = "completed" => row[r].report /\ row[r].ended /\ ~row[r].error
     /\ row[r].status = "failed"    => row[r].error /\ row[r].ended
     /\ row[r].status = "running"   => ~row[r].error
     /\ row[r].status \in {"absent", "pending"} => row[r] \in {NoRow, NewRow}

\* Both: what is stored of a run, in whatever table, tells the same story as its status.
RecordFollowsStatus == EventsAddUp /\ ColumnsFollowStatus

\* A completed run stays as it is, whatever late tasks, retries and second agents there are: only
\* once a database call has raised can a task that did not hear of the end turn it into failed,
\* and then the report stays.
CompletedIsFinal ==
  [][\A r \in Runs : row[r].status = "completed" =>
        \/ row'[r] = row[r]
        \/ faults' > 0 /\ row'[r].status = "failed" /\ row'[r].report]_vars

\* A task about to insert the thread conflicts only with a chat request: no two tasks of
\* a run race for it, however many the poller and the trigger queued.
ThreadRaceIsChat ==
  \A r \in Runs \ stray : \A t \in Holders(r) : pc[t] = "insert" => thread[r] # "run"

\* No chat thread shows an answer before its question.
AnswersFollowQuestions ==
  \A r \in Runs : \A n \in 0 .. Len(messages[r]) :
     Cardinality({i \in 1 .. n : messages[r][i] = "assistant"})
       <= Cardinality({i \in 1 .. n : messages[r][i] = "user"})

\* Every pending run is picked up or failed, also when its trigger is lost, agents stop
\* and database calls raise: the poller finds it, oldest first.
PendingLeaves == \A r \in Runs : row[r].status = "pending" ~> row[r].status # "pending"

\* Every run ends for good, with all the queued duplicates of its task, also when agents stop and
\* database calls raise; unless that took away the task that held it, or the record of its failure.
RunsSettle ==
  \A r \in Runs :
     row[r].status # "absent" ~>
       r \in dropped \/ [](row[r].status \in {"completed", "failed"})

-----------------------------------------------------------------------------
(* The abstract specification it implements *)

Lifecycle == INSTANCE RunLifecycle
               WITH Workers <- Tasks,
                    status  <- [r \in Runs |-> row[r].status],
                    working <- [r \in Runs |-> Holders(r)],
                    broken  <- stray

\* Whatever duplicates the trigger, the poller and two agents queue, whichever calls raise and
\* agents stop: a run is taken by one task at a time, from pending or failed, and only the
\* task that took it completes or fails it; except a run failed by a task whose claim raised.
ImplementsLifecycle == Lifecycle!Spec
=============================================================================
