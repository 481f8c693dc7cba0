----------------------------- MODULE MCStorage -----------------------------
(***************************************************************************)
(* Instances of FileStorage for TLC.  The windows keep the order of        *)
(* 7 < 30 = 30 < 90 < 100 days: a file of 30 days is due for removal, and  *)
(* is still brought back when its owner restores all files of the board.   *)
(***************************************************************************)
EXTENDS FileStorage, TLC

CONSTANTS u1, b1, f1, f2

MCOwner == [b \in Boards |-> u1]
MCBoardOf == [f \in Files |-> b1]
MCSize == [f \in Files |-> 1]

\* Uploads, deletions and restorations of files and of their board; two files of
\* one board, so that one may pass the 7-day check of restore_all_file for both.
StorageOps == {"create_board", "delete_board", "restore_board", "upload_files",
               "delete_file", "restore_file", "restore_all_file",
               "admin_restore_file"}

WorkerSymmetry == Permutations(Workers)
=============================================================================
