----------------------------- MODULE MCContent -----------------------------
(***************************************************************************)
(* Instances of ContentLifecycle for TLC.  The windows keep the order of   *)
(* 7 < 30 = 30 < 90 < 100 days.                                            *)
(***************************************************************************)
EXTENDS ContentRetention, TLC

CONSTANTS u1, b1, f1, f2

MCOwner == [b \in Boards |-> u1]
MCBoardOf == [f \in Files |-> b1]
\* Either file alone fits in FileTotalMaxSize = 2, both together do not.
MCSize == [f \in Files |-> IF f = f1 THEN 1 ELSE 2]

AllOps == UserOps \cup BoardOps \cup FileOps

\* Requests are interchangeable.
WorkerSymmetry == Permutations(Workers)
=============================================================================
