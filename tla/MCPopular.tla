------------------------------ MODULE MCPopular ------------------------------
(***************************************************************************)
(* Instances of Popular for TLC: all boards, and those of a week.          *)
(***************************************************************************)
EXTENDS Popular, TLC

CONSTANTS w1, w2, ALL, WEEKLY

MCWorkers == {w1, w2}
MCSpan == ALL :> 1 @@ WEEKLY :> 0
WorkerSymmetry == Permutations(MCWorkers)
==============================================================================
