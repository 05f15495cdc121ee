----------------------------- MODULE RunLifecycle -----------------------------
(***************************************************************************)
(* What the deployment manager and the user of a report may rely on, run   *)
(* by run: a run is created pending, one worker at a time takes it from    *)
(* pending or failed, and only that worker completes or fails it.  How     *)
(* runs come to workers, and that two agents, a trigger and a poller       *)
(* compete for them, is not said.  RcaRuns implements this.                *)
(***************************************************************************)
EXTENDS FiniteSets

CONSTANTS
  Runs,
  Workers

VARIABLES
  status,     \* of each run
  working,    \* the workers that have taken a run and not left it
  broken      \* runs of which nothing is promised any more

vars == <<status, working, broken>>

Statuses == {"absent", "pending", "running", "completed", "failed"}

Init ==
  /\ status = [r \in Runs |-> "absent"]
  /\ working = [r \in Runs |-> {}]
  /\ broken = {}

Create(r) ==
  /\ status[r] = "absent"
  /\ status' = [status EXCEPT ![r] = "pending"]
  /\ UNCHANGED <<working, broken>>

\* A worker takes a run nobody has, also one that has failed before.
Begin(r, w) ==
  /\ working[r] = {} /\ status[r] \in {"pending", "failed"}
  /\ status' = [status EXCEPT ![r] = "running"]
  /\ working' = [working EXCEPT ![r] = {w}]
  /\ UNCHANGED broken

\* The report is stored; the worker that has not heard of it stays.
Finish(r, w) ==
  /\ working[r] = {w} /\ status[r] = "running"
  /\ status' = [status EXCEPT ![r] = "completed"]
  /\ \E rest \in {{}, {w}} : working' = [working EXCEPT ![r] = rest]
  /\ UNCHANGED broken

\* Also when the worker stayed although its report was stored.
GiveUp(r, w) ==
  /\ working[r] = {w}
  /\ status' = [status EXCEPT ![r] = "failed"]
  /\ working' = [working EXCEPT ![r] = {}]
  /\ UNCHANGED broken

\* Workers vanish and leave their runs as they are.
Abandon(gone) ==
  /\ working' = [r \in Runs |-> working[r] \ gone]
  /\ UNCHANGED <<status, broken>>

\* A worker that does not know whether it has taken a run fails it.
Break(r) ==
  /\ broken' = broken \cup {r}
  /\ \E s \in Statuses : status' = [status EXCEPT ![r] = s]
  /\ \E some \in SUBSET Workers : working' = [working EXCEPT ![r] = some]

Next ==
  \/ \E r \in Runs : \/ Create(r) \/ Break(r)
                     \/ \E w \in Workers : Begin(r, w) \/ Finish(r, w) \/ GiveUp(r, w)
  \/ \E gone \in SUBSET Workers : Abandon(gone)

Spec == Init /\ [][Next]_vars
=============================================================================
