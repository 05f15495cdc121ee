----------------------------- MODULE MCRcaGraph -----------------------------
(* Instances of RcaGraph for TLC.  Every tool may be unavailable, which      *)
(* leaves no signal, so what it finds otherwise is something wrong where it  *)
(* can be.                                                                   *)
EXTENDS RcaGraph

MCReplicas   == {[desired |-> 2, ready |-> 1, unavailable |-> 1]}
MCPodLists   == {<< <<[ready |-> TRUE, restarts |-> 0], [ready |-> FALSE, restarts |-> 2]>> >>}
MCEventTypes == {<<"Normal", "Warning">>}
MCLogLines   == {<<"blank", "plain", "plain", "trace">>}
MCSeries     == {<< <<>>, <<0, 0>>, <<1, 1, 9>> >>}
MCDurations  == {<<20>>}
MCChanges    == {1}
MCSampleData == {[desired |-> 2, ready |-> 1, restarts |-> 0, warnings |-> 1]}
=============================================================================
