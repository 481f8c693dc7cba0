------------------------------- MODULE MCBan -------------------------------
(***************************************************************************)
(* Instances of BanLadder for TLC.                                         *)
(***************************************************************************)
EXTENDS BanLadder, TLC

WorkerSymmetry == Permutations(Workers)
=============================================================================
