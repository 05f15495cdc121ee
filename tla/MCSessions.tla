----------------------------- MODULE MCSessions -----------------------------
(* Instances of Sessions for TLC.                                            *)
EXTENDS Sessions, TLC

CONSTANTS x1, x2

Two == {x1, x2}

\* Handlers are interchangeable: Init, Next and the safety properties treat them alike.
HandlersSymmetry == Permutations(Two)
=============================================================================
