--------------------------- MODULE MCDeployments ----------------------------
(* Instances of Deployments for TLC.                                         *)
EXTENDS Deployments, TLC

CONSTANTS x1, x2

One == {x1}
Two == {x1, x2}

\* Handlers are interchangeable: Init, Next and the safety properties treat them alike.
HandlersSymmetry == Permutations(Two)
=============================================================================
