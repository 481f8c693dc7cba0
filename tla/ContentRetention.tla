-------------------------- MODULE ContentRetention --------------------------
(***************************************************************************)
(* ContentLifecycle implements Retention: the mapping forgets who deleted  *)
(* what, the sizes, and the requests in flight but for the immediate       *)
(* deletions among them.                                                   *)
(***************************************************************************)
EXTENDS ContentLifecycle

AccountOf(u) ==
    [state |-> IF IsLive(users[u]) THEN "ACTIVE" ELSE "AWAY",
     days |-> IF IsLive(users[u]) THEN 0 ELSE users[u].age]

StateOf(b) ==
    [state |-> IF IsDeleted(boards[b]) THEN "CLOSED"
               ELSE IF IsLive(boards[b]) THEN "OPEN"
               ELSE IF boards[b].mark = "UNBORN" THEN "NONE" ELSE "GONE",
     days |-> IF IsDeleted(boards[b]) THEN boards[b].age ELSE 0]

PlaceOf == [UNBORN |-> "NONE", LIVE |-> "SHOWN", PURGED |-> "GONE",
            USER |-> "BIN", ADMIN_SCHEDULED |-> "BIN",
            USER_CASCADE |-> "WITH_USER", BOARD_CASCADE |-> "WITH_BOARD"]

KeptOf(f) ==
    [place |-> PlaceOf[files[f].mark],
     days |-> IF IsDeleted(files[f]) THEN files[f].age ELSE 0]

Ordered(kind, op) ==
    {<<kind, pending[w].on>> :
        w \in {v \in Workers : pending[v].op = op /\ pending[v].arg = "ADMIN_IMMEDIATE"}}

ordersBar ==
    Ordered("user", "admin_delete_user")
    \cup Ordered("board", "admin_delete_board")
    \cup Ordered("files", "admin_delete_all_board_files")
    \cup Ordered("file", "admin_delete_one_file")

accountBar == [u \in Users |-> AccountOf(u)]
boardBar == [b \in Boards |-> StateOf(b)]
fileBar == [f \in Files |-> KeptOf(f)]

R == INSTANCE Retention WITH
        KeepDays <- UserExpireDays,
        ReturnDays <- AdminRestoreDays,
        LastDay <- AdminExpireDays,
        account <- accountBar,
        board <- boardBar,
        file <- fileBar,
        orders <- ordersBar

\* Whatever overlaps, deleted content is kept 30 days unless an administrator has
\* ordered its erasure or its board's 100 days are over, and nothing returns after
\* 90.  What a deletion of a board or of a user took along stays together: it all
\* returns, or it is all removed by the job, or goes by the erasure or with the
\* board it is on.  The job comes from day 30 on, although an administrator may
\* restore the board or the user until day 90: without those files, then.
RetentionKept == R!Spec
=============================================================================
