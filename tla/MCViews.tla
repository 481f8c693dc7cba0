------------------------------- MODULE MCViews -------------------------------
(***************************************************************************)
(* Instances of Views for TLC.                                             *)
(***************************************************************************)
EXTENDS Views, TLC

CONSTANTS w1, w2, v1, v2

MCWorkers == {w1, w2}
MCViewers == {v1, v2}
ViewSymmetry == Permutations(MCWorkers) \cup Permutations(MCViewers)
==============================================================================
