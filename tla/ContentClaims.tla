--------------------------- MODULE ContentClaims ---------------------------
(***************************************************************************)
(* What a comment of the repository says about recovery, stated over       *)
(* ContentLifecycle.  The code does otherwise: it is checked to be         *)
(* violated (see README, Findings).                                        *)
(***************************************************************************)
EXTENDS MCContent

\* services/boards.py:432: a board an administrator deleted is not restored by
\* its user.
AdminDeletedBoardsStay ==
    [][\A b \in Boards : boards[b].mark \in AdminMarks /\ IsLive(boards'[b])
            => AdminRestoring]_vars

\* The operations the claim needs.
OverlapOps == {"create_board", "delete_board", "restore_board",
               "admin_delete_board"}
=============================================================================
