------------------------------- MODULE MCBuilds -------------------------------
(* Instances of Builds for TLC.                                              *)
EXTENDS Builds, TLC

CONSTANTS x1, x2, b1, b2

TwoHandlers == {x1, x2}
TwoBuilds   == {b1, b2}

\* Handlers are interchangeable: Init, Next and the properties treat them alike.
HandlersSymmetry == Permutations(TwoHandlers)
=============================================================================
