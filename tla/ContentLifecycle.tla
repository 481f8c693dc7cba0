-------------------------- MODULE ContentLifecycle --------------------------
(***************************************************************************)
(* Soft deletion, restoration and scheduled removal of the rows of the     *)
(* tables user, boards and files, with the cached boards.total_file_size.  *)
(*                                                                         *)
(* A request runs in two steps, as every service does.  The first step     *)
(* reads and checks outside any lock; the second is its transaction, which *)
(* acts on what the first one found.  Between the two, other requests and  *)
(* the scheduler may run.  A transaction is one step here (statement-level *)
(* interleaving of two transactions is outside this module).               *)
(*                                                                         *)
(* deleted_at is kept as the age of the deletion in days, saturated at the *)
(* longest window; a row's mark is deleted_by, or LIVE, UNBORN (the serial *)
(* index is not drawn yet) or PURGED (the row was deleted from the table). *)
(***************************************************************************)
EXTENDS Integers, FiniteSets, Functions

CONSTANTS
    Users, Boards, Files,   \* the rows the system may come to hold
    Owner,                  \* boards.user_index of each board
    BoardOf,                \* files.board_index of each file
    Size,                   \* files.file_size of each file
    Workers,                \* requests that may be in flight together
    Ops,                    \* the operations in use
    FileMaxSize, FileTotalMaxSize,
    UserRestoreDays,        \* 7
    CascadeRestoreDays,     \* 30: what a user's restore brings back
    UserExpireDays,         \* 30: rows the user, or a cascade, deleted
    AdminRestoreDays,       \* 90
    AdminExpireDays         \* 100: rows an administrator deleted

UserOps == {"withdraw", "restore_user", "ban",
            "admin_delete_user", "admin_restore_user"}
BoardOps == {"create_board", "delete_board", "restore_board",
             "delete_all", "restore_all_file",
             "admin_delete_board", "admin_restore_board",
             "admin_delete_all_board_files", "admin_restore_all_files"}
FileOps == {"upload_files", "delete_file", "restore_file",
            "admin_delete_one_file", "admin_restore_file"}

ASSUME RelationsAssumption ==
    /\ Owner \in [Boards -> Users]
    /\ BoardOf \in [Files -> Boards]
    /\ IsFiniteSet(Files) /\ Size \in [Files -> Nat]
    /\ FileMaxSize \in Nat /\ FileTotalMaxSize \in Nat
    /\ Ops \subseteq UserOps \cup BoardOps \cup FileOps

\* The order of the windows in services/ and models/: 7, 30, 90 and 100 days.
ASSUME WindowsAssumption ==
    /\ UserRestoreDays \in Nat /\ CascadeRestoreDays \in Nat
    /\ UserExpireDays \in Nat /\ AdminRestoreDays \in Nat
    /\ AdminExpireDays \in Nat
    /\ UserRestoreDays < CascadeRestoreDays
    /\ UserRestoreDays < UserExpireDays
    /\ CascadeRestoreDays < AdminRestoreDays
    /\ UserExpireDays < AdminExpireDays
    /\ AdminRestoreDays < AdminExpireDays

VARIABLES
    users,    \* [mark, age, anon, like]: anon once id and password are
              \* overwritten, like when the id is LIKE 'DELETED_%'
    boards,   \* [mark, age, total]: total is total_file_size
    files,    \* [mark, age]
    pending   \* the request each worker has checked and not yet committed

rows == <<users, boards, files>>
vars == <<users, boards, files, pending>>
-----------------------------------------------------------------------------
(* Rows *)

UserMarks == {"USER", "ADMIN_SCHEDULED", "ADMIN_RETAIN", "ADMIN_IMMEDIATE"}
BoardMarks == {"USER", "ADMIN_SCHEDULED", "ADMIN_RETAIN"}
FileMarks == {"USER", "USER_CASCADE", "BOARD_CASCADE", "ADMIN_SCHEDULED"}
Ages == 0 .. AdminExpireDays

IsLive(row) == row.mark = "LIVE"
IsRow(row) == row.mark \notin {"UNBORN", "PURGED"}
IsDeleted(row) == IsRow(row) /\ ~IsLive(row)

FilesOf(b) == {f \in Files : BoardOf[f] = b}
BoardsOf(u) == {b \in Boards : Owner[b] = u}
UserFiles(u) == {f \in Files : Owner[BoardOf[f]] = u}

SumSize(S) == SumFunctionOnSet(Size, S)

\* The rows of S are given a mark, as of now.
MarkFiles(S, mark) ==
    [f \in Files |-> IF f \in S THEN [mark |-> mark, age |-> 0] ELSE files[f]]

LiveFiles(fs, b) == {f \in FilesOf(b) : IsLive(fs[f])}

get_total_fsize(fs, b) == SumSize(LiveFiles(fs, b))

\* UPDATE boards ... WHERE index = b: no row, no effect.
update_total_board_fsize(bs, b, total) ==
    IF IsRow(bs[b]) THEN [bs EXCEPT ![b].total = total] ELSE bs

update_all_user_boards_total_fsize(bs, u) ==
    [b \in Boards |-> IF Owner[b] = u /\ IsLive(bs[b])
                      THEN [bs[b] EXCEPT !.total = 0] ELSE bs[b]]

\* Mutant: only live boards, as in the statement above.
recalculate_live_boards(bs, fs, u) ==
    [b \in Boards |-> IF Owner[b] = u /\ IsLive(bs[b])
                      THEN [bs[b] EXCEPT !.total = get_total_fsize(fs, b)]
                      ELSE bs[b]]

recalculate_all_user_boards_total_fsize(bs, fs, u) ==
    [b \in Boards |-> IF Owner[b] = u /\ IsRow(bs[b])
                      THEN [bs[b] EXCEPT !.total = get_total_fsize(fs, b)]
                      ELSE bs[b]]

\* The restorable files of a board, as each SELECT and UPDATE picks them.
user_get_restorable(b) ==
    {f \in FilesOf(b) : files[f].mark = "USER" /\ files[f].age <= UserRestoreDays}
\* Mutant: whoever deleted them.
user_restore_all_any_mark(b) ==
    {f \in FilesOf(b) : IsDeleted(files[f]) /\ files[f].age <= CascadeRestoreDays}
user_restore_all_restorable(b) ==
    {f \in FilesOf(b) : files[f].mark = "USER" /\ files[f].age <= CascadeRestoreDays}
\* Mutant: whenever they were deleted.
admin_restorable_any_age(b) == {f \in FilesOf(b) : IsDeleted(files[f])}
admin_restorable(b) ==
    {f \in FilesOf(b) : IsDeleted(files[f]) /\ files[f].age <= AdminRestoreDays}
\* Mutants: deleted_at > instead of >=.
restore_cascade_board_files_strict(b, days) ==
    {f \in FilesOf(b) : files[f].mark = "BOARD_CASCADE" /\ files[f].age < days}
restore_all_user_files_strict(u, days) ==
    {f \in UserFiles(u) : files[f].mark = "USER_CASCADE" /\ files[f].age < days}
restore_cascade_board_files(b, days) ==
    {f \in FilesOf(b) : files[f].mark = "BOARD_CASCADE" /\ files[f].age <= days}
restore_all_user_files(u, days) ==
    {f \in UserFiles(u) : files[f].mark = "USER_CASCADE" /\ files[f].age <= days}

restore_exceeds(u) ==
    \E b \in BoardsOf(u) :
        SumSize({f \in FilesOf(b) : files[f].mark \in {"LIVE", "USER_CASCADE"}})
            > FileTotalMaxSize

\* soft_delete_board overwrites the mark of a board that is already deleted.
soft_delete_board(b, by) ==
    IF IsRow(boards[b])
    THEN [boards EXCEPT ![b].mark = by, ![b].age = 0] ELSE boards

restore_board_row(b) ==
    IF IsRow(boards[b])
    THEN [boards EXCEPT ![b].mark = "LIVE", ![b].age = 0] ELSE boards

\* soft_delete_user leaves a user that is already deleted as it is.
soft_delete_user(u, by) ==
    IF IsLive(users[u])
    THEN [users EXCEPT ![u].mark = by, ![u].age = 0] ELSE users

hard_delete_user(u) ==
    [users EXCEPT ![u] = [mark |-> "ADMIN_IMMEDIATE", age |-> 0,
                          anon |-> TRUE, like |-> TRUE]]

\* WHERE id = the id the check read: a user renamed since is not matched.
restore_user_data(u, anon) ==
    IF IsDeleted(users[u]) /\ users[u].anon = anon
    THEN [users EXCEPT ![u].mark = "LIVE", ![u].age = 0] ELSE users
-----------------------------------------------------------------------------
(* Requests *)

Idle == [op |-> "idle"]
Request(op, on, arg) == [op |-> op, on |-> on, arg |-> arg]

DeleteOptions == {"ADMIN_SCHEDULED", "ADMIN_RETAIN", "ADMIN_IMMEDIATE"}
FileDeleteOptions == {"ADMIN_SCHEDULED", "ADMIN_IMMEDIATE"}

\* arg is the option an administrator deletes with, or whether the id that an
\* administrator's user restoration read is the overwritten one.
ArgsOf(op) ==
    IF op \in {"admin_delete_user", "admin_delete_board"} THEN DeleteOptions
    ELSE IF op \in {"admin_delete_one_file", "admin_delete_all_board_files"}
         THEN FileDeleteOptions
    ELSE IF op = "admin_restore_user" THEN {"NAMED", "ANON"}
    ELSE {"NONE"}

RequestsOn(ops, ids) ==
    {r \in [op : ops, on : ids,
            arg : DeleteOptions \cup {"NAMED", "ANON", "NONE"}] :
        r.arg \in ArgsOf(r.op)}

Requests == RequestsOn(UserOps, Users) \cup RequestsOn(BoardOps, Boards)
              \cup RequestsOn(FileOps, Files)

Begin(w, op, on, arg) ==
    /\ op \in Ops
    /\ pending[w] = Idle
    /\ pending' = [pending EXCEPT ![w] = Request(op, on, arg)]
    /\ UNCHANGED rows

Commit(w, op) ==
    /\ pending[w].op = op
    /\ pending' = [pending EXCEPT ![w] = Idle]

\* get_current_user refuses a deleted user; verify_password fails once the
\* password is overwritten.
SignedIn(u) == IsLive(users[u])
PasswordAccepted(u) == IsLive(users[u]) /\ ~users[u].anon

\* Serial indexes: a row being created by one request is no other's.
Unclaimed(id) ==
    \A w \in {v \in Workers : pending[v] # Idle} : pending[w].on # id
-----------------------------------------------------------------------------
(* Files, by their owner *)

upload_files(w, f) ==
    LET b == BoardOf[f] IN
    /\ files[f].mark = "UNBORN" /\ Unclaimed(f)
    /\ SignedIn(Owner[b]) /\ IsLive(boards[b])
    /\ get_total_fsize(files, b) + Size[f] <= FileTotalMaxSize
    /\ Size[f] <= FileMaxSize
    /\ Begin(w, "upload_files", f, "NONE")

\* The foreign key refuses the row, and rolls back, when the board is gone.
upload_files_txn(w) ==
    LET f == pending[w].on
        b == BoardOf[f]
    IN  /\ Commit(w, "upload_files")
        /\ files' = IF IsRow(boards[b]) THEN MarkFiles({f}, "LIVE") ELSE files
        /\ boards' = update_total_board_fsize(boards, b, get_total_fsize(files', b))
        /\ UNCHANGED users

delete_file(w, f) ==
    LET b == BoardOf[f] IN
    /\ PasswordAccepted(Owner[b]) /\ IsLive(boards[b]) /\ IsLive(files[f])
    /\ Begin(w, "delete_file", f, "NONE")

\* soft_delete_one_file matches any row with this index, deleted or not.
delete_one_file_txn(w, op, mark) ==
    LET f == pending[w].on
        b == BoardOf[f]
    IN  /\ Commit(w, op)
        /\ files' = MarkFiles({g \in {f} : IsRow(files[g])}, mark)
        /\ boards' = update_total_board_fsize(boards, b, get_total_fsize(files', b))
        /\ UNCHANGED users

delete_file_txn(w) == delete_one_file_txn(w, "delete_file", "USER")

delete_all(w, b) ==
    /\ PasswordAccepted(Owner[b]) /\ IsLive(boards[b])
    /\ Begin(w, "delete_all", b, "NONE")

delete_all_txn(w) ==
    LET b == pending[w].on IN
    /\ Commit(w, "delete_all")
    /\ files' = MarkFiles(LiveFiles(files, b), "USER")
    /\ boards' = update_total_board_fsize(boards, b, 0)
    /\ UNCHANGED users

\* Mutant: the size of the board is not looked at.
restore_file_any_size(w, f) ==
    LET b == BoardOf[f] IN
    /\ PasswordAccepted(Owner[b]) /\ IsLive(boards[b])
    /\ files[f].mark = "USER" /\ files[f].age <= UserRestoreDays
    /\ Begin(w, "restore_file", f, "NONE")

\* Mutant: the age of the deletion is not checked.
restore_file_any_age(w, f) ==
    LET b == BoardOf[f] IN
    /\ PasswordAccepted(Owner[b]) /\ IsLive(boards[b])
    /\ Size[f] + get_total_fsize(files, b) <= FileTotalMaxSize
    /\ files[f].mark = "USER"
    /\ Begin(w, "restore_file", f, "NONE")

restore_file(w, f) ==
    LET b == BoardOf[f] IN
    /\ PasswordAccepted(Owner[b]) /\ IsLive(boards[b]) /\ IsDeleted(files[f])
    /\ Size[f] + get_total_fsize(files, b) <= FileTotalMaxSize
    /\ files[f].age <= UserRestoreDays
    /\ files[f].mark = "USER"
    /\ Begin(w, "restore_file", f, "NONE")

\* Mutant: the size of the file is added, not the sum taken anew.
restore_one_file_txn_adds(w, op) ==
    LET f == pending[w].on
        b == BoardOf[f]
    IN  /\ Commit(w, op)
        /\ files' = MarkFiles({g \in {f} : IsRow(files[g])}, "LIVE")
        /\ boards' = update_total_board_fsize(boards, b, boards[b].total + Size[f])
        /\ UNCHANGED users

\* restore_one_file, too, matches any row with this index.
restore_one_file_txn(w, op) ==
    LET f == pending[w].on
        b == BoardOf[f]
    IN  /\ Commit(w, op)
        /\ files' = MarkFiles({g \in {f} : IsRow(files[g])}, "LIVE")
        /\ boards' = update_total_board_fsize(boards, b, get_total_fsize(files', b))
        /\ UNCHANGED users

restore_file_txn(w) == restore_one_file_txn(w, "restore_file")

restore_all_file(w, b) ==
    /\ PasswordAccepted(Owner[b]) /\ IsLive(boards[b])
    /\ SumSize(user_get_restorable(b)) # 0
    /\ get_total_fsize(files, b) + SumSize(user_get_restorable(b))
          <= FileTotalMaxSize
    /\ Begin(w, "restore_all_file", b, "NONE")

restore_all_file_txn(w) ==
    LET b == pending[w].on IN
    /\ Commit(w, "restore_all_file")
    /\ files' = MarkFiles(user_restore_all_restorable(b), "LIVE")
    /\ boards' = update_total_board_fsize(boards, b, get_total_fsize(files', b))
    /\ UNCHANGED users
-----------------------------------------------------------------------------
(* Boards, by their owner *)

create_board(w, b) ==
    /\ boards[b].mark = "UNBORN" /\ Unclaimed(b)
    /\ SignedIn(Owner[b])
    /\ Begin(w, "create_board", b, "NONE")

create_board_txn(w) ==
    /\ Commit(w, "create_board")
    /\ boards' = [boards EXCEPT ![pending[w].on].mark = "LIVE"]
    /\ UNCHANGED <<users, files>>

delete_board(w, b) ==
    /\ PasswordAccepted(Owner[b]) /\ IsLive(boards[b])
    /\ Begin(w, "delete_board", b, "NONE")

\* total_file_size is left as it was.
delete_board_txn(w) ==
    LET b == pending[w].on IN
    /\ Commit(w, "delete_board")
    /\ boards' = soft_delete_board(b, "USER")
    /\ files' = MarkFiles(LiveFiles(files, b), "BOARD_CASCADE")
    /\ UNCHANGED users

\* Mutant: the age of the deletion is not checked.
restore_board_any_age(w, b) ==
    /\ PasswordAccepted(Owner[b])
    /\ IsDeleted(boards[b]) /\ boards[b].mark = "USER"
    /\ Begin(w, "restore_board", b, "NONE")

\* The size of the files that come back is not looked at.
restore_board(w, b) ==
    /\ PasswordAccepted(Owner[b])
    /\ IsDeleted(boards[b]) /\ boards[b].age <= UserRestoreDays
    /\ boards[b].mark = "USER"
    /\ Begin(w, "restore_board", b, "NONE")

restore_board_txn(w) ==
    LET b == pending[w].on IN
    /\ Commit(w, "restore_board")
    /\ files' = MarkFiles(restore_cascade_board_files(b, CascadeRestoreDays), "LIVE")
    /\ boards' = update_total_board_fsize(restore_board_row(b), b,
                                          get_total_fsize(files', b))
    /\ UNCHANGED users
-----------------------------------------------------------------------------
(* The account, by its user *)

withdraw(w, u) ==
    /\ PasswordAccepted(u)
    /\ Begin(w, "withdraw", u, "NONE")

delete_user_rows(u, by) ==
    /\ users' = soft_delete_user(u, by)
    /\ files' = MarkFiles({f \in UserFiles(u) : IsLive(files[f])}, "USER_CASCADE")
    /\ boards' = update_all_user_boards_total_fsize(boards, u)

withdraw_txn(w) ==
    /\ Commit(w, "withdraw")
    /\ delete_user_rows(pending[w].on, "USER")

restore_user(w, u) ==
    /\ IsDeleted(users[u]) /\ ~users[u].anon
    /\ users[u].age <= UserRestoreDays
    /\ users[u].mark = "USER"
    /\ ~restore_exceeds(u)
    /\ Begin(w, "restore_user", u, "NONE")

\* The files come back even when restore_user_data matched no row.
restore_user_rows(u, anon, days) ==
    /\ users' = restore_user_data(u, anon)
    /\ files' = MarkFiles(restore_all_user_files(u, days), "LIVE")
    /\ boards' = recalculate_all_user_boards_total_fsize(boards, files', u)

restore_user_txn(w) ==
    /\ Commit(w, "restore_user")
    /\ restore_user_rows(pending[w].on, FALSE, CascadeRestoreDays)
-----------------------------------------------------------------------------
(* Administrators *)

\* The fourth ban: soft_delete_user alone, no cascade.  That ban_count is 3 is
\* decided outside this module.
ban(w, u) == Begin(w, "ban", u, "NONE")

ban_txn(w) ==
    /\ Commit(w, "ban")
    /\ users' = soft_delete_user(pending[w].on, "ADMIN_SCHEDULED")
    /\ UNCHANGED <<boards, files>>

\* The existence checks of the deletions are inside the transaction, yet lock
\* nothing: READ COMMITTED lets other transactions commit after them.
admin_delete_user(w, u, option) ==
    /\ option = "ADMIN_IMMEDIATE" \/ IsLive(users[u])
    /\ Begin(w, "admin_delete_user", u, option)

admin_delete_user_txn(w) ==
    LET u == pending[w].on IN
    /\ Commit(w, "admin_delete_user")
    /\ IF pending[w].arg = "ADMIN_IMMEDIATE"
       THEN /\ users' = hard_delete_user(u)
            /\ files' = MarkFiles({f \in UserFiles(u) : IsRow(files[f])}, "PURGED")
            /\ boards' = update_all_user_boards_total_fsize(boards, u)
       ELSE delete_user_rows(u, pending[w].arg)

admin_delete_board(w, b, option) ==
    /\ IF option = "ADMIN_IMMEDIATE" THEN IsRow(boards[b]) ELSE IsLive(boards[b])
    /\ Begin(w, "admin_delete_board", b, option)

PurgedBoard == [mark |-> "PURGED", age |-> 0, total |-> 0]

admin_delete_board_txn(w) ==
    LET b == pending[w].on
        by == pending[w].arg
    IN  /\ Commit(w, "admin_delete_board")
        /\ IF by = "ADMIN_IMMEDIATE"
           THEN /\ files' = MarkFiles({f \in FilesOf(b) : IsRow(files[f])}, "PURGED")
                /\ boards' = IF IsRow(boards[b])
                           THEN [boards EXCEPT ![b] = PurgedBoard] ELSE boards
           ELSE /\ files' = MarkFiles(LiveFiles(files, b), "BOARD_CASCADE")
                /\ boards' = soft_delete_board(b, by)
        /\ UNCHANGED users

admin_delete_one_file(w, f, option) ==
    /\ IF option = "ADMIN_IMMEDIATE" THEN IsRow(files[f]) ELSE IsLive(files[f])
    /\ Begin(w, "admin_delete_one_file", f, option)

\* Mutant: an immediate deletion only marks the file.
mark_written_soft(option) == option

\* An immediate deletion takes the file's row away.
mark_written(option) == IF option = "ADMIN_IMMEDIATE" THEN "PURGED" ELSE option

admin_delete_one_file_txn(w) ==
    delete_one_file_txn(w, "admin_delete_one_file", mark_written(pending[w].arg))

admin_delete_all_board_files(w, b, option) ==
    /\ IsRow(boards[b])
    /\ Begin(w, "admin_delete_all_board_files", b, option)

\* total_file_size is left as it was.
admin_delete_all_board_files_txn(w) ==
    LET b == pending[w].on IN
    /\ Commit(w, "admin_delete_all_board_files")
    /\ files' = IF pending[w].arg = "ADMIN_IMMEDIATE"
                THEN MarkFiles({f \in FilesOf(b) : IsRow(files[f])}, "PURGED")
                ELSE MarkFiles(LiveFiles(files, b), "ADMIN_SCHEDULED")
    /\ UNCHANGED <<users, boards>>

admin_restore_user(w, u) ==
    /\ IsDeleted(users[u]) /\ users[u].age <= AdminRestoreDays
    /\ ~restore_exceeds(u)
    /\ Begin(w, "admin_restore_user", u, IF users[u].anon THEN "ANON" ELSE "NAMED")

admin_restore_user_txn(w) ==
    /\ Commit(w, "admin_restore_user")
    /\ restore_user_rows(pending[w].on, pending[w].arg = "ANON", AdminRestoreDays)

\* SUM over no file is NULL, and comparing it fails the request.
admin_restore_board(w, b) ==
    /\ IsDeleted(boards[b]) /\ boards[b].age <= AdminRestoreDays
    /\ admin_restorable(b) # {}
    /\ SumSize(admin_restorable(b)) <= FileTotalMaxSize
    /\ Begin(w, "admin_restore_board", b, "NONE")

admin_restore_board_txn(w) ==
    LET b == pending[w].on IN
    /\ Commit(w, "admin_restore_board")
    /\ files' = MarkFiles(restore_cascade_board_files(b, AdminRestoreDays), "LIVE")
    /\ boards' = update_total_board_fsize(restore_board_row(b), b,
                                          get_total_fsize(files', b))
    /\ UNCHANGED users

\* Neither the board's state nor its size is looked at.
admin_restore_file(w, f) ==
    /\ IsDeleted(files[f]) /\ files[f].age <= AdminRestoreDays
    /\ Begin(w, "admin_restore_file", f, "NONE")

admin_restore_file_txn(w) == restore_one_file_txn(w, "admin_restore_file")

admin_restore_all_files(w, b) ==
    /\ IsLive(boards[b])
    /\ SumSize(admin_restorable(b)) # 0
    /\ get_total_fsize(files, b) + SumSize(admin_restorable(b)) <= FileTotalMaxSize
    /\ Begin(w, "admin_restore_all_files", b, "NONE")

admin_restore_all_files_txn(w) ==
    LET b == pending[w].on IN
    /\ Commit(w, "admin_restore_all_files")
    /\ files' = MarkFiles(admin_restorable(b), "LIVE")
    /\ boards' = update_total_board_fsize(boards, b, get_total_fsize(files', b))
    /\ UNCHANGED users
-----------------------------------------------------------------------------
(* A request that fails: an error response, a lost connection or a restart *)
(* of the server between the check and the commit; the transaction rolls   *)
(* back.                                                                   *)

abort(w) ==
    /\ pending[w] # Idle
    /\ pending' = [pending EXCEPT ![w] = Idle]
    /\ UNCHANGED rows
-----------------------------------------------------------------------------
(* The scheduler.  Its four jobs run at the same minute on connections of  *)
(* their own and commit each statement by itself, so the statements may    *)
(* come in any order, any number of times.                                 *)

\* Mutant: the files deleted with their board are forgotten.
FileExpired_no_board_cascade(f) ==
    \/ /\ files[f].mark \in {"USER", "USER_CASCADE"}
       /\ files[f].age >= UserExpireDays
    \/ /\ files[f].mark = "ADMIN_SCHEDULED"
       /\ files[f].age >= AdminExpireDays

\* Mutant: files go as soon as their owner's window closes.
FileExpired_early(f) ==
    \/ /\ files[f].mark \in {"USER", "USER_CASCADE", "BOARD_CASCADE"}
       /\ files[f].age >= UserRestoreDays
    \/ /\ files[f].mark = "ADMIN_SCHEDULED"
       /\ files[f].age >= AdminExpireDays

FileExpired(f) ==
    \/ /\ files[f].mark \in {"USER", "USER_CASCADE", "BOARD_CASCADE"}
       /\ files[f].age >= UserExpireDays
    \/ /\ files[f].mark = "ADMIN_SCHEDULED"
       /\ files[f].age >= AdminExpireDays

delete_files ==
    /\ files' = MarkFiles({f \in Files : FileExpired(f)}, "PURGED")
    /\ UNCHANGED <<users, boards, pending>>

\* Mutant: boards go when files do.
BoardExpired_early(b) ==
    boards[b].mark = "ADMIN_SCHEDULED" /\ boards[b].age >= UserExpireDays

BoardExpired(b) ==
    boards[b].mark = "ADMIN_SCHEDULED" /\ boards[b].age >= AdminExpireDays

\* Mutant: no ON DELETE CASCADE.
delete_boards_only ==
    /\ boards' = [b \in Boards |-> IF BoardExpired(b) THEN PurgedBoard ELSE boards[b]]
    /\ UNCHANGED <<users, files, pending>>

\* files.board_index is ON DELETE CASCADE.
delete_boards ==
    /\ boards' = [b \in Boards |-> IF BoardExpired(b) THEN PurgedBoard ELSE boards[b]]
    /\ files' = MarkFiles({f \in Files : IsRow(files[f]) /\ BoardExpired(BoardOf[f])},
                          "PURGED")
    /\ UNCHANGED <<users, pending>>

\* Mutant: only users who withdrew.
UserExpired_withdrawn_only(u) ==
    ~users[u].like /\ users[u].mark = "USER" /\ users[u].age >= UserExpireDays

\* NOT LIKE is meant to pass over the ids that are overwritten; it also passes
\* over a user who chose one that looks so.
UserExpired(u) ==
    /\ ~users[u].like
    /\ \/ users[u].mark = "USER" /\ users[u].age >= UserExpireDays
       \/ /\ users[u].mark \in {"ADMIN_SCHEDULED", "ADMIN_RETAIN"}
          /\ users[u].age >= AdminExpireDays

delete_soft_deleted_user ==
    /\ users' = [u \in Users |-> IF UserExpired(u)
                                 THEN [users[u] EXCEPT !.anon = TRUE, !.like = TRUE]
                                 ELSE users[u]]
    /\ UNCHANGED <<boards, files, pending>>

Older(row) ==
    IF IsDeleted(row) /\ row.age < AdminExpireDays
    THEN [row EXCEPT !.age = @ + 1] ELSE row

\* A day passes.  A request lasts far less than a day: none is in flight.
Tick ==
    /\ \A w \in Workers : pending[w] = Idle
    /\ users' = [u \in Users |-> Older(users[u])]
    /\ boards' = [b \in Boards |-> Older(boards[b])]
    /\ files' = [f \in Files |-> Older(files[f])]
    /\ UNCHANGED pending
-----------------------------------------------------------------------------
\* validate_id_format lets a user take an id such as DELETED_1 or DELETED123.
Init ==
    /\ \E like \in [Users -> BOOLEAN] :
          users = [u \in Users |-> [mark |-> "LIVE", age |-> 0,
                                    anon |-> FALSE, like |-> like[u]]]
    /\ boards = [b \in Boards |-> [mark |-> "UNBORN", age |-> 0, total |-> 0]]
    /\ files = [f \in Files |-> [mark |-> "UNBORN", age |-> 0]]
    /\ pending = [w \in Workers |-> Idle]

UserCheck(w) ==
    \E u \in Users :
        \/ withdraw(w, u) \/ restore_user(w, u)
        \/ ban(w, u) \/ admin_restore_user(w, u)
        \/ \E option \in DeleteOptions : admin_delete_user(w, u, option)

BoardCheck(w) ==
    \E b \in Boards :
        \/ create_board(w, b) \/ delete_board(w, b) \/ restore_board(w, b)
        \/ delete_all(w, b) \/ restore_all_file(w, b)
        \/ admin_restore_board(w, b) \/ admin_restore_all_files(w, b)
        \/ \E option \in DeleteOptions : admin_delete_board(w, b, option)
        \/ \E option \in FileDeleteOptions :
               admin_delete_all_board_files(w, b, option)

FileCheck(w) ==
    \E f \in Files :
        \/ upload_files(w, f) \/ delete_file(w, f) \/ restore_file(w, f)
        \/ admin_restore_file(w, f)
        \/ \E option \in FileDeleteOptions : admin_delete_one_file(w, f, option)

Check(w) == UserCheck(w) \/ BoardCheck(w) \/ FileCheck(w)

Txn(w) ==
    \/ withdraw_txn(w) \/ restore_user_txn(w) \/ ban_txn(w)
    \/ admin_delete_user_txn(w) \/ admin_restore_user_txn(w)
    \/ create_board_txn(w) \/ delete_board_txn(w) \/ restore_board_txn(w)
    \/ delete_all_txn(w) \/ restore_all_file_txn(w)
    \/ admin_delete_board_txn(w) \/ admin_restore_board_txn(w)
    \/ admin_delete_all_board_files_txn(w) \/ admin_restore_all_files_txn(w)
    \/ upload_files_txn(w) \/ delete_file_txn(w) \/ restore_file_txn(w)
    \/ admin_delete_one_file_txn(w) \/ admin_restore_file_txn(w)

Scheduler == delete_files \/ delete_boards \/ delete_soft_deleted_user

Next ==
    \/ \E w \in Workers : Check(w) \/ Txn(w) \/ abort(w)
    \/ Scheduler
    \/ Tick

Spec == Init /\ [][Next]_vars
-----------------------------------------------------------------------------
(* Properties *)

Totals == {0} \cup {SumSize(S) : S \in SUBSET Files}
UserRows == [mark : {"LIVE"} \cup UserMarks, age : Ages,
             anon : BOOLEAN, like : BOOLEAN]
BoardRows == [mark : {"UNBORN", "LIVE", "PURGED"} \cup BoardMarks,
              age : Ages, total : Totals]
FileRows == [mark : {"UNBORN", "LIVE", "PURGED"} \cup FileMarks, age : Ages]

\* Every row has a mark its table can hold and an age within the windows; every
\* cached size is the size of some set of files; every request is on a row of the
\* kind its operation takes.
TypeOK ==
    /\ users \in [Users -> UserRows]
    /\ boards \in [Boards -> BoardRows]
    /\ files \in [Files -> FileRows]
    /\ pending \in [Workers -> Requests \cup {Idle}]

\* As long as no two transactions overlap, a board that shows any live file shows
\* their exact size: every transaction that brings a file to life, or leaves one
\* alive, recomputes total_file_size (a board left without live files may keep a
\* stale total: deleting a board, and the administrators' bulk deletion, skip it).
\* Transactions that overlap may each sum without the other's file; Transactions
\* has them statement by statement.
TotalAccurate ==
    \A b \in Boards :
        IsRow(boards[b]) /\ LiveFiles(files, b) # {}
            => boards[b].total = get_total_fsize(files, b)

CauseStands(f) ==
    LET b == BoardOf[f]
        u == Owner[b]
    IN  /\ files[f].mark = "BOARD_CASCADE"
             => IsDeleted(boards[b]) /\ files[f].age = boards[b].age
        /\ files[f].mark = "USER_CASCADE"
             => IsDeleted(users[u]) /\ files[f].age = users[u].age

\* A cascade mark never outlives its cause: a file marked BOARD_CASCADE is on a
\* deleted board, one marked USER_CASCADE belongs to a deleted user, and both
\* were deleted at the same moment.  So an owner, who may restore a board or the
\* account for 7 days, restores every file with it.  An administrator may for 90,
\* and finds the files of the cascade gone from day 30 on (delete_files).
CascadeFollowsCause == \A f \in Files : CauseStands(f)

\* ON DELETE CASCADE and the foreign key of files.board_index, through every
\* way a board's row goes while uploads to it are in flight.
FilesHaveBoard ==
    \A f \in Files : IsRow(files[f]) => IsRow(boards[BoardOf[f]])

RowOf(r) == IF r.op \in UserOps THEN users[r.on]
            ELSE IF r.op \in BoardOps THEN boards[r.on] ELSE files[r.on]

\* The age up to which the check of a request accepts that its row is deleted:
\* 0 when the row had to be live.
WindowOf(r) ==
    IF r.op \in {"restore_user", "restore_board", "restore_file"}
    THEN UserRestoreDays
    ELSE IF r.op \in {"admin_restore_user", "admin_restore_board",
                      "admin_restore_file"}
    THEN AdminRestoreDays
    ELSE IF r.op \in {"ban", "admin_delete_all_board_files"}
            \/ r.arg = "ADMIN_IMMEDIATE"
    THEN AdminExpireDays
    ELSE 0

\* What a request checked is not protected until it commits: its row may have
\* been restored, deleted anew or removed since.  Whatever happened, a deleted
\* row that a request in flight is about to act on is within the window that its
\* check accepted.
RequestsInWindow ==
    \A w \in {v \in Workers : pending[v] # Idle} :
        IsDeleted(RowOf(pending[w])) => RowOf(pending[w]).age <= WindowOf(pending[w])

Creations == {"create_board", "upload_files"}

\* The row that a request is about to insert is not there yet, nor about to be
\* inserted by another.
CreationsDistinct ==
    \A w \in Workers : pending[w].op \in Creations =>
        /\ RowOf(pending[w]).mark = "UNBORN"
        /\ \A v \in Workers \ {w} : pending[v].op = pending[w].op
                                       => pending[v].on # pending[w].on

AdminRestores == {"admin_restore_user", "admin_restore_board",
                  "admin_restore_file", "admin_restore_all_files"}

Returned(row, newRow) == IsDeleted(row) /\ IsLive(newRow)

\* This step is the commit of a request that restores as an administrator.
AdminRestoring ==
    \E w \in Workers : pending[w].op \in AdminRestores /\ pending'[w] = Idle

OwnersRestores == {"restore_user", "restore_board", "restore_file", "restore_all_file"}

\* This step is the commit of a request that restores.
Restoring(w) ==
    pending[w].op \in OwnersRestores \cup AdminRestores /\ pending'[w] = Idle

\* The age up to which an operation brings back a board or a user, and a file.
RowDays(op) == IF op \in AdminRestores THEN AdminRestoreDays ELSE UserRestoreDays
FileDays(op) == IF op = "restore_all_file" THEN CascadeRestoreDays ELSE RowDays(op)

ReturnsInTime ==
    /\ \A f \in Files : Returned(files[f], files'[f])
          => \E w \in Workers : Restoring(w) /\ files[f].age <= FileDays(pending[w].op)
    /\ \A b \in Boards : Returned(boards[b], boards'[b])
          => \E w \in Workers : Restoring(w) /\ boards[b].age <= RowDays(pending[w].op)
    /\ \A u \in Users : Returned(users[u], users'[u])
          => \E w \in Workers : Restoring(w) /\ users[u].age <= RowDays(pending[w].op)

\* What is checked and what is committed are two steps, and the restoring UPDATEs
\* of a single row look at neither age nor mark; still no row comes back to life
\* but by a restoration, nor later than that restores: 90 days after its deletion
\* when an administrator does, 7 when its owner does, alone or with the board or
\* the account, 30 when its owner restores all files of the board, whose UPDATE
\* reaches further back than its check.
RestoredInTime == [][ReturnsInTime]_vars

AdminMarks == {"ADMIN_SCHEDULED", "ADMIN_RETAIN", "ADMIN_IMMEDIATE"}

\* Deleted by an administrator, directly or with the board or the user.
DeletedByAdmin(f) ==
    LET b == BoardOf[f] IN
    \/ files[f].mark \in AdminMarks
    \/ files[f].mark = "BOARD_CASCADE" /\ boards[b].mark \in AdminMarks
    \/ files[f].mark = "USER_CASCADE" /\ users[Owner[b]].mark \in AdminMarks

DeletionsStick ==
    AdminRestoring
    \/ /\ \A f \in Files : DeletedByAdmin(f) => files'[f].mark \notin {"LIVE", "USER"}
       /\ \A b \in Boards : boards[b].mark \in AdminMarks
             => boards'[b].mark \notin {"LIVE", "USER"}
       /\ \A u \in Users : users[u].mark \in AdminMarks
             => users'[u].mark \notin {"LIVE", "USER"}

\* What an administrator deleted only an administrator brings back, and no step
\* of a user relabels it as the user's own deletion (which the user could undo).
AdminDeletionSticks == [][DeletionsStick]_vars

\* What is on a board, or may still come back with it or with its owner.
LoadOf(b) ==
    {f \in FilesOf(b) :
        \/ IsLive(files[f])
        \/ /\ files[f].mark \in {"BOARD_CASCADE", "USER_CASCADE"}
           /\ files[f].age <= AdminRestoreDays}

Load(b) == SumSize(LoadOf(b))

LoadsWithinQuota ==
    \A b \in Boards : Load(b)' > FileTotalMaxSize /\ Load(b)' > Load(b)
        => \E w \in Workers :
              /\ pending[w].op \in {"restore_all_file", "admin_restore_file"}
              /\ pending'[w] = Idle

\* One request at a time, no history of uploads, deletions, restorations and days
\* loads a board beyond FILE_TOTAL_MAX_SIZE but a commit of the two operations
\* that look at no size, or at that of fewer files than they bring back.  What a
\* cascade took along stays in the account, so a restored board or user cannot
\* exceed the quota in one step either.
QuotaKept == [][LoadsWithinQuota]_vars

\* What its owner may still restore: alone, with the board or with the account.
OwnerMayRestore(f) ==
    LET b == BoardOf[f]
        u == Owner[b]
    IN  \/ files[f].mark = "USER" /\ files[f].age <= UserRestoreDays
        \/ /\ files[f].mark = "BOARD_CASCADE"
           /\ boards[b].mark = "USER" /\ boards[b].age <= UserRestoreDays
        \/ /\ files[f].mark = "USER_CASCADE"
           /\ users[u].mark = "USER" /\ users[u].age <= UserRestoreDays

\* This step is the commit of an immediate deletion of the file, its board or its
\* user.
Erasing(f) ==
    \E w \in {v \in Workers : pending[v] # Idle} :
        /\ pending[w].arg = "ADMIN_IMMEDIATE" /\ pending'[w] = Idle
        /\ pending[w].on \in {f, BoardOf[f], Owner[BoardOf[f]]}

RestorablesStay ==
    \A f \in Files : OwnerMayRestore(f) /\ files'[f].mark = "PURGED"
        => Erasing(f) \/ BoardExpired(BoardOf[f])

\* The windows of removal and of restoration are written apart, for files, boards
\* and users: whatever overlaps, a file that its owner may still restore, or bring
\* back by restoring its board or the account, goes only by an administrator's
\* immediate deletion or with its board, 100 days after an administrator deleted it.
RestorablesKept == [][RestorablesStay]_vars

\* Days pass however many requests arrive; each scheduler job runs every hour;
\* a request in flight ends.
Fairness ==
    /\ SF_vars(Tick)
    /\ WF_vars(delete_files) /\ WF_vars(delete_boards)
    /\ WF_vars(delete_soft_deleted_user)
    /\ \A w \in Workers : WF_vars(Txn(w) \/ abort(w))

FairSpec == Spec /\ Fairness

\* A deleted file does not stay deleted for ever: it is restored or its row goes.
DeletedFilesSettle ==
    \A f \in Files : IsDeleted(files[f]) ~> ~IsDeleted(files[f])

\* A deleted user is restored or loses id and password in the end, but for those
\* whose id looks overwritten already (those kept for good, ADMIN_RETAIN, are not
\* promised it: the job takes them all the same).
DeletedUsersSettle ==
    \A u \in Users :
        IsDeleted(users[u]) /\ users[u].mark # "ADMIN_RETAIN" /\ ~users[u].like
            ~> (IsLive(users[u]) \/ users[u].anon)
=============================================================================
