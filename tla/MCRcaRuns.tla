----------------------------- MODULE MCRcaRuns ------------------------------
(* Instances of RcaRuns for TLC; slots and agents are interchangeable only   *)
(* in name, so no symmetry is needed at these sizes.                         *)
EXTENDS RcaRuns

OneAgent  == {"a"}
TwoAgents == {"a", "b"}
=============================================================================
