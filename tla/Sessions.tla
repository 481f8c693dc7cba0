------------------------------ MODULE Sessions ------------------------------
(***************************************************************************)
(* Passwords, ids and the one refresh token that Redis keeps for a user.   *)
(* Changing a password and withdrawing delete the token before anything is *)
(* checked; finding a password looks the user up twice, writes a temporary *)
(* password and then mails it.  Each of these is a call of its own.        *)
(*                                                                         *)
(* A token stands for the password it was obtained with.  Asking for a new *)
(* access token only reads: it succeeds while the user's token is stored.  *)
(* Anonymised users do not return and are left out.                        *)
(***************************************************************************)
EXTENDS Naturals

CONSTANTS Users, Ids, Workers,
          Passwords,       \* what users choose
          Temporary,       \* what find_password issues
          FirstId, FirstPassword,
          NoToken

AllPasswords == Passwords \cup Temporary

ASSUME FirstAssumption ==
    /\ FirstId \in [Users -> Ids] /\ FirstPassword \in [Users -> Passwords]
    /\ \A u, v \in Users : FirstId[u] = FirstId[v] => u = v

ASSUME NothingAssumption == NoToken \notin AllPasswords

VARIABLES
    account,      \* [id, password, deleted]
    refresh_key,  \* refresh:user:<index>, or NoToken
    pending,      \* the request of each worker, before its next call
    known,        \* the passwords each user has chosen or been mailed
    unreached     \* history: users whose temporary password was not mailed to them

vars == <<account, refresh_key, pending, known, unreached>>

Idle == [at |-> "idle"]

Begins(w, request) ==
    /\ pending[w] = Idle
    /\ pending' = [pending EXCEPT ![w] = request]

At(w, call) == pending[w].at = call
Goes(w, call) == pending' = [pending EXCEPT ![w].at = call]
Ends(w) == pending' = [pending EXCEPT ![w] = Idle]

\* get_current_user refuses a deleted user.
SignedIn(u) == ~account[u].deleted

PasswordAccepted(u, password) == SignedIn(u) /\ account[u].password = password
-----------------------------------------------------------------------------
(* Sessions *)

token_login(w, u) ==
    /\ \E password \in known[u] :
           /\ PasswordAccepted(u, password)
           /\ Begins(w, [at |-> "set_key", on |-> u, password |-> password])
    /\ UNCHANGED <<account, refresh_key, known, unreached>>

\* A login ends the session before it.
set_key(w) ==
    /\ At(w, "set_key") /\ Ends(w)
    /\ refresh_key' = [refresh_key EXCEPT ![pending[w].on] = pending[w].password]
    /\ UNCHANGED <<account, known, unreached>>

token_logout(w, u) ==
    /\ SignedIn(u)
    /\ Begins(w, [at |-> "logout", on |-> u])
    /\ UNCHANGED <<account, refresh_key, known, unreached>>

delete_key(w) ==
    /\ At(w, "logout") /\ Ends(w)
    /\ refresh_key' = [refresh_key EXCEPT ![pending[w].on] = NoToken]
    /\ UNCHANGED <<account, known, unreached>>

\* REFRESH_TOKEN_EXPIRE_DAYS have passed.
expire_key(u) ==
    /\ refresh_key' = [refresh_key EXCEPT ![u] = NoToken]
    /\ UNCHANGED <<account, pending, known, unreached>>
-----------------------------------------------------------------------------
(* Changes by the user *)

\* Mutant: the session goes on.
update_my_password_keeps_key(w) ==
    /\ At(w, "pw_key") /\ Goes(w, "pw_check")
    /\ UNCHANGED <<account, refresh_key, known, unreached>>

\* Before the password is looked at.
update_my_password(w) ==
    /\ At(w, "pw_key") /\ Goes(w, "pw_check")
    /\ refresh_key' = [refresh_key EXCEPT ![pending[w].on] = NoToken]
    /\ UNCHANGED <<account, known, unreached>>

\* The user sends an old password, the right one perhaps, and a new one.
request_password(w, u, old, new) ==
    /\ SignedIn(u) /\ old \in known[u]
    /\ Begins(w, [at |-> "pw_key", on |-> u, password |-> old, new |-> new])
    /\ known' = [known EXCEPT ![u] = @ \cup {new}]
    /\ UNCHANGED <<account, refresh_key, unreached>>

check_password(w) ==
    /\ At(w, "pw_check") /\ PasswordAccepted(pending[w].on, pending[w].password)
    /\ Goes(w, "pw_txn")
    /\ UNCHANGED <<account, refresh_key, known, unreached>>

userPw_modify(w) ==
    /\ At(w, "pw_txn") /\ Ends(w)
    /\ account' = [account EXCEPT ![pending[w].on].password = pending[w].new]
    /\ UNCHANGED <<refresh_key, known, unreached>>

request_withdrawal(w, u, password) ==
    /\ SignedIn(u) /\ password \in known[u]
    /\ Begins(w, [at |-> "withdraw_key", on |-> u, password |-> password])
    /\ UNCHANGED <<account, refresh_key, known, unreached>>

\* Before the password is looked at, here too.
withdraw_user(w) ==
    /\ At(w, "withdraw_key") /\ Goes(w, "withdraw_check")
    /\ refresh_key' = [refresh_key EXCEPT ![pending[w].on] = NoToken]
    /\ UNCHANGED <<account, known, unreached>>

check_withdrawal(w) ==
    /\ At(w, "withdraw_check") /\ PasswordAccepted(pending[w].on, pending[w].password)
    /\ Goes(w, "withdraw_txn")
    /\ UNCHANGED <<account, refresh_key, known, unreached>>

soft_delete_user(w) ==
    /\ At(w, "withdraw_txn") /\ Ends(w)
    /\ account' = [account EXCEPT ![pending[w].on].deleted = TRUE]
    /\ UNCHANGED <<refresh_key, known, unreached>>

\* Mutant: only the rows of users who have not left are looked at.
FreeAmongLive(i) == \A u \in Users : SignedIn(u) => account[u].id # i

\* No row has this id, deleted or not.
Free(i) == \A u \in Users : account[u].id # i

modify_id(w, u, i) ==
    /\ \E password \in known[u] : PasswordAccepted(u, password)
    /\ Free(i)
    /\ Begins(w, [at |-> "id_txn", on |-> u, id |-> i])
    /\ UNCHANGED <<account, refresh_key, known, unreached>>

\* user.id is UNIQUE: the UPDATE fails if the id has been taken since.
userId_modify(w) ==
    /\ At(w, "id_txn") /\ Free(pending[w].id) /\ Ends(w)
    /\ account' = [account EXCEPT ![pending[w].on].id = pending[w].id]
    /\ UNCHANGED <<refresh_key, known, unreached>>
-----------------------------------------------------------------------------
(* Finding a password *)

find_password(w, u) ==
    /\ SignedIn(u)
    /\ Begins(w, [at |-> "find_index", owner |-> u, id |-> account[u].id])
    /\ UNCHANGED <<account, refresh_key, known, unreached>>

\* Whoever has the id by now. (If nobody has, audit_logs.target_index refuses NULL
\* and the transaction fails: abort.)
get_user_index(w) ==
    /\ At(w, "find_index")
    /\ \E u \in Users :
        /\ SignedIn(u) /\ account[u].id = pending[w].id
        /\ pending' = [pending EXCEPT ![w] =
                          [at |-> "issue", owner |-> pending[w].owner, on |-> u]]
    /\ UNCHANGED <<account, refresh_key, known, unreached>>

\* userPw_modify and its audit record.
issue(w) ==
    /\ At(w, "issue")
    /\ \E t \in Temporary :
        /\ account' = [account EXCEPT ![pending[w].on].password = t]
        /\ pending' = [pending EXCEPT ![w] =
                          [at |-> "mail", owner |-> pending[w].owner,
                           on |-> pending[w].on, password |-> t]]
    /\ UNCHANGED <<refresh_key, known, unreached>>

\* Mutant: a mail that is not sent is not noticed.
mail_unsent(w) ==
    /\ At(w, "mail") /\ Ends(w)
    /\ UNCHANGED <<account, refresh_key, known, unreached>>

Missed(w) == {pending[w].on} \ {pending[w].owner}

\* To the address that the first look-up found.
mail(w) ==
    /\ At(w, "mail") /\ Ends(w)
    /\ known' = [known EXCEPT ![pending[w].owner] = @ \cup {pending[w].password}]
    /\ unreached' = unreached \cup Missed(w)
    /\ UNCHANGED <<account, refresh_key>>
-----------------------------------------------------------------------------
(* Others *)

\* An administrator's deletion or a fourth ban: the token is left alone.
admin_delete_user(u) ==
    /\ ~account[u].deleted
    /\ account' = [account EXCEPT ![u].deleted = TRUE]
    /\ UNCHANGED <<refresh_key, pending, known, unreached>>

\* By the user or by an administrator.
restore_user(u) ==
    /\ account[u].deleted
    /\ account' = [account EXCEPT ![u].deleted = FALSE]
    /\ UNCHANGED <<refresh_key, pending, known, unreached>>

\* A refusal, a failed call, or a stop of the server between two calls.
abort(w) ==
    /\ pending[w] # Idle /\ Ends(w)
    /\ unreached' = IF At(w, "mail") THEN unreached \cup {pending[w].on}
                    ELSE unreached
    /\ UNCHANGED <<account, refresh_key, known>>
-----------------------------------------------------------------------------
Init ==
    /\ account = [u \in Users |-> [id |-> FirstId[u], password |-> FirstPassword[u],
                                   deleted |-> FALSE]]
    /\ refresh_key = [u \in Users |-> NoToken]
    /\ pending = [w \in Workers |-> Idle]
    /\ known = [u \in Users |-> {FirstPassword[u]}]
    /\ unreached = {}

Session(w) ==
    \/ \E u \in Users : token_login(w, u) \/ token_logout(w, u)
    \/ set_key(w) \/ delete_key(w)

Change(w) ==
    \/ \E u \in Users, new \in Passwords :
           \E old \in known[u] : request_password(w, u, old, new)
    \/ \E u \in Users : \E password \in known[u] : request_withdrawal(w, u, password)
    \/ \E u \in Users, i \in Ids : modify_id(w, u, i)
    \/ update_my_password(w) \/ check_password(w) \/ userPw_modify(w)
    \/ withdraw_user(w) \/ check_withdrawal(w) \/ soft_delete_user(w)
    \/ userId_modify(w)

Find(w) ==
    \/ \E u \in Users : find_password(w, u)
    \/ get_user_index(w) \/ issue(w) \/ mail(w)

Next ==
    \/ \E w \in Workers : Session(w) \/ Change(w) \/ Find(w) \/ abort(w)
    \/ \E u \in Users : expire_key(u) \/ admin_delete_user(u) \/ restore_user(u)

Spec == Init /\ [][Next]_vars
-----------------------------------------------------------------------------
(* Properties *)

Accounts == [id : Ids, password : AllPasswords, deleted : BOOLEAN]
Requests ==
    [at : {"set_key"}, on : Users, password : AllPasswords]
    \cup [at : {"logout"}, on : Users]
    \cup [at : {"pw_key", "pw_check", "pw_txn"}, on : Users,
          password : AllPasswords, new : Passwords]
    \cup [at : {"withdraw_key", "withdraw_check", "withdraw_txn"}, on : Users,
          password : AllPasswords]
    \cup [at : {"id_txn"}, on : Users, id : Ids]
    \cup [at : {"find_index"}, owner : Users, id : Ids]
    \cup [at : {"issue"}, owner : Users, on : Users]
    \cup [at : {"mail"}, owner : Users, on : Users, password : Temporary]

\* Rows, tokens and requests are of their kinds; no two rows have one id.
TypeOK ==
    /\ account \in [Users -> Accounts]
    /\ \A u, v \in Users : account[u].id = account[v].id => u = v
    /\ refresh_key \in [Users -> AllPasswords \cup {NoToken}]
    /\ pending \in [Workers -> Requests \cup {Idle}]
    /\ known \in [Users -> SUBSET AllPasswords]
    /\ unreached \subseteq Users

Mailing(w, u) ==
    At(w, "mail") /\ pending[w].on = u /\ pending[w].password = account[u].password

\* However changes, look-ups, mails and failures mix, a user knows the password of
\* the account, or it is being mailed, or a mail with it was lost or went to the
\* one who had the id before: nothing else locks a user out.
PasswordReachesUser ==
    \A u \in Users :
        \/ account[u].password \in known[u]
        \/ u \in unreached
        \/ \E w \in Workers : Mailing(w, u)

\* A stored token was obtained with the password the account has now, so that the
\* sessions of an earlier one are over, unless find_password has replaced it since.
\* True of one request at a time: a login that overlaps a change outlives it.
SessionsFollowPassword ==
    \A u \in Users : refresh_key[u] \in {NoToken, account[u].password}
                        \/ account[u].password \in Temporary
=============================================================================
