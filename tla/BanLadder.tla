----------------------------- MODULE BanLadder -----------------------------
(***************************************************************************)
(* Bans: user.status, ban_count and ban_end_at under the requests of       *)
(* several administrators, with the deletions and restorations that write  *)
(* the same columns.  A ban reads ban_count before its transaction and     *)
(* chooses by it; the transaction then counts from whatever is in the row. *)
(* ban_end_at is kept as the length of the ban in days, None for NULL.     *)
(***************************************************************************)
EXTENDS Integers

CONSTANTS Users, Workers

VARIABLES
    account,   \* [deleted, status, ban_count, ban_end]
    pending    \* the request each worker has checked and not yet committed

vars == <<account, pending>>

None == 0
Statuses == {"ACTIVE", "BANNED", "WITHDRAWN"}

\* Mutants: a third ban of a week; the second ban no longer than the first.
Ladder_week(ban_count) ==
    CASE ban_count = 0 -> 1 [] ban_count = 1 -> 3 [] OTHER -> 7
Ladder_late(ban_count) ==
    CASE ban_count <= 1 -> 1 [] ban_count = 2 -> 3 [] OTHER -> 5

\* ban_days for the first, second and third ban.
Ladder(ban_count) == CASE ban_count = 0 -> 1 [] ban_count = 1 -> 3 [] OTHER -> 5

Idle == [op |-> "idle"]

Begin(w, op, u, ban_days) ==
    /\ pending[w] = Idle
    /\ pending' = [pending EXCEPT ![w] = [op |-> op, on |-> u, ban_days |-> ban_days]]
    /\ UNCHANGED account

\* The row that the request of w is about to write, as the transaction finds it.
Found(w) == account[pending[w].on]

\* The UPDATEs of the transaction of w, all on that row.
Commit(w, op, row) ==
    /\ pending[w].op = op
    /\ pending' = [pending EXCEPT ![w] = Idle]
    /\ account' = [account EXCEPT ![pending[w].on] = row]
-----------------------------------------------------------------------------
(* The UPDATEs *)

\* No condition on deleted_at.
admin_ban(a, ban_days) ==
    [a EXCEPT !.status = "BANNED", !.ban_count = @ + 1, !.ban_end = ban_days]

soft_delete_user(a) ==
    IF a.deleted THEN a ELSE [a EXCEPT !.deleted = TRUE, !.status = "WITHDRAWN"]

\* Mutant: the deletion is left out, the status is not.
fourth_ban_settings_only(a) ==
    [a EXCEPT !.status = "WITHDRAWN", !.ban_end = None, !.ban_count = 4]

fourth_ban(a) ==
    [soft_delete_user(a) EXCEPT !.status = "WITHDRAWN", !.ban_end = None,
                                !.ban_count = 4]

\* Mutant: ban_count is kept.
admin_unban_keeps_count(a) ==
    IF a.deleted THEN a ELSE [a EXCEPT !.status = "ACTIVE", !.ban_end = None]

admin_unban(a) ==
    IF a.deleted THEN a
    ELSE [a EXCEPT !.status = "ACTIVE", !.ban_count = 0, !.ban_end = None]

hard_delete_user(a) == [a EXCEPT !.deleted = TRUE, !.status = "WITHDRAWN"]

\* Mutant: a restored user keeps the bans.
restore_user_data_keeps_count(a) ==
    IF a.deleted THEN [a EXCEPT !.deleted = FALSE, !.status = "ACTIVE"] ELSE a

\* ban_end_at is left as it was.
restore_user_data(a) ==
    IF a.deleted
    THEN [a EXCEPT !.deleted = FALSE, !.status = "ACTIVE", !.ban_count = 0]
    ELSE a
-----------------------------------------------------------------------------
(* The requests *)

\* Mutant: one ban too many before the deletion.
admin_user_ban_late(w, u) ==
    \/ /\ account[u].ban_count = 4
       /\ Begin(w, "fourth_ban", u, None)
    \/ /\ account[u].ban_count < 4
       /\ Begin(w, "ban", u, Ladder(account[u].ban_count))

\* A fifth ban is refused.
admin_user_ban(w, u) ==
    \/ /\ account[u].ban_count = 3
       /\ Begin(w, "fourth_ban", u, None)
    \/ /\ account[u].ban_count < 3
       /\ Begin(w, "ban", u, Ladder(account[u].ban_count))

ban_txn(w) == Commit(w, "ban", admin_ban(Found(w), pending[w].ban_days))

fourth_ban_txn(w) == Commit(w, "fourth_ban", fourth_ban(Found(w)))

admin_user_unban(w, u) ==
    /\ account[u].ban_count # 0
    /\ Begin(w, "unban", u, None)

unban_txn(w) == Commit(w, "unban", admin_unban(Found(w)))

\* A withdrawal, or an administrator's SCHEDULED or RETAIN deletion.
delete_user(w, u) ==
    /\ ~account[u].deleted
    /\ Begin(w, "delete_user", u, None)

delete_user_txn(w) == Commit(w, "delete_user", soft_delete_user(Found(w)))

\* An administrator's IMMEDIATE deletion.
purge_user(w, u) == Begin(w, "purge_user", u, None)

purge_user_txn(w) == Commit(w, "purge_user", hard_delete_user(Found(w)))

\* The user's restoration, or an administrator's.
restore_user(w, u) ==
    /\ account[u].deleted
    /\ Begin(w, "restore_user", u, None)

restore_user_txn(w) == Commit(w, "restore_user", restore_user_data(Found(w)))

\* An error, a lost connection or a restart of the server before the commit.
abort(w) ==
    /\ pending[w] # Idle
    /\ pending' = [pending EXCEPT ![w] = Idle]
    /\ UNCHANGED account
-----------------------------------------------------------------------------
Init ==
    /\ account = [u \in Users |-> [deleted |-> FALSE, status |-> "ACTIVE",
                                   ban_count |-> 0, ban_end |-> None]]
    /\ pending = [w \in Workers |-> Idle]

Check(w, u) ==
    \/ admin_user_ban(w, u) \/ admin_user_unban(w, u)
    \/ delete_user(w, u) \/ purge_user(w, u) \/ restore_user(w, u)

Txn(w) ==
    \/ ban_txn(w) \/ fourth_ban_txn(w) \/ unban_txn(w)
    \/ delete_user_txn(w) \/ purge_user_txn(w) \/ restore_user_txn(w)

Next == \E w \in Workers : (\E u \in Users : Check(w, u)) \/ Txn(w) \/ abort(w)

Spec == Init /\ [][Next]_vars
-----------------------------------------------------------------------------
(* Properties *)

BanOps == {"ban", "fourth_ban", "unban", "delete_user", "purge_user", "restore_user"}
Requests == [op : BanOps, on : Users, ban_days : {None, 1, 3, 5}]
Accounts == [deleted : BOOLEAN, status : Statuses,
             ban_count : Nat, ban_end : {None, 1, 3, 5}]

\* Every account is one the table can hold.
TypeOK ==
    /\ account \in [Users -> Accounts]
    /\ pending \in [Workers -> Requests \cup {Idle}]

\* Six statements write the three columns, each some of them; whatever their
\* order, the columns agree: an ACTIVE user counts no ban, a BANNED one counts
\* at least one and has an end to it, and only a deleted user is WITHDRAWN.
StatusAgrees ==
    \A u \in Users :
        LET a == account[u]
        IN  /\ a.status = "ACTIVE" => ~a.deleted /\ a.ban_count = 0
            /\ a.status = "BANNED" => a.ban_count > 0 /\ a.ban_end # None
            /\ a.status = "WITHDRAWN" => a.deleted

\* api/admin.py:134: one day for the first ban, three for the second, five for
\* the third.  True of one request at a time.
LadderFollowed ==
    \A u \in Users : account[u].status = "BANNED" =>
        /\ account[u].ban_count \in 1 .. 3
        /\ account[u].ban_end = <<1, 3, 5>>[account[u].ban_count]

\* api/admin.py:135: the fourth ban deletes the user.  True of one request at a
\* time; two that read the same count skip the deletion.
FourthBanDeletes ==
    \A u \in Users : account[u].ban_count >= 4 => account[u].deleted
=============================================================================
