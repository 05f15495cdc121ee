---------------------------- MODULE MCIncidents -----------------------------
(* Instances of Incidents for TLC: a deployment that is healthy or short of   *)
(* replicas.  Only one rule ever signals, so a round has one task and no task *)
(* is left behind by another of its round.                                    *)
EXTENDS Incidents, TLC

OneManager == {"m"}

\* Managers are alike: only invariants are checked under this symmetry.
ManagersAlike == Permutations(Managers)

Healthy == [desired |-> 1, ready |-> 1, warnings |-> 0, restarts |-> 0]
Short   == [desired |-> 1, ready |-> 0, warnings |-> 0, restarts |-> 0]

HealthyShort == {Healthy, Short}
AlwaysShort  == {Short}

Running == {"running"}
Live    == {"running", "deleted"}
=============================================================================
