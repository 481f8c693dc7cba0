--------------------------- MODULE SessionsProofs ---------------------------
(***************************************************************************)
(* Proofs about Sessions, for every set of users, ids, passwords and       *)
(* overlapping requests.                                                   *)
(***************************************************************************)
EXTENDS Sessions, TLAPS

\* A password about to be written by a change was chosen by the row's user.
ChosenKnown ==
    \A w \in Workers : pending[w].at \in {"pw_key", "pw_check", "pw_txn"}
        => pending[w].new \in known[pending[w].on]

IInv == TypeOK /\ ChosenKnown /\ PasswordReachesUser

LEMMA InitHolds == Init => IInv
<1> SUFFICES ASSUME Init PROVE IInv
  OBVIOUS
<1>1. \A u \in Users : FirstId[u] \in Ids /\ FirstPassword[u] \in Passwords
  BY FirstAssumption
<1>2. account \in [Users -> Accounts]
  BY <1>1 DEF Init, Accounts, AllPasswords
<1>3. \A u \in Users : account[u].id = FirstId[u] /\ account[u].password = FirstPassword[u]
  BY DEF Init
<1>4. \A u, v \in Users : account[u].id = account[v].id => u = v
  BY <1>3, FirstAssumption
<1>5. /\ refresh_key \in [Users -> AllPasswords \cup {NoToken}]
      /\ pending \in [Workers -> Requests \cup {Idle}]
      /\ unreached \subseteq Users
  BY DEF Init
<1>6. known \in [Users -> SUBSET AllPasswords]
  BY <1>1 DEF Init, AllPasswords
<1>7. TypeOK
  BY <1>2, <1>4, <1>5, <1>6 DEF TypeOK
<1>8. ChosenKnown
  BY DEF Init, ChosenKnown, Idle
<1>9. PasswordReachesUser
  BY <1>3 DEF Init, PasswordReachesUser
<1> QED BY <1>7, <1>8, <1>9 DEF IInv

LEMMA Kinds ==
    ASSUME TypeOK, NEW w \in Workers, pending[w].at # "idle"
    PROVE  pending[w] \in Requests /\ pending[w] # Idle
BY DEF TypeOK, Idle

\* The fields of a request at each call.
LEMMA Fields ==
    ASSUME TypeOK, NEW w \in Workers
    PROVE  /\ pending[w].at \in {"set_key", "pw_key", "pw_check", "pw_txn",
                                 "withdraw_key", "withdraw_check", "withdraw_txn"}
                => pending[w].on \in Users /\ pending[w].password \in AllPasswords
           /\ pending[w].at \in {"logout", "id_txn"} => pending[w].on \in Users
           /\ At(w, "id_txn") => pending[w].id \in Ids
           /\ pending[w].at \in {"pw_key", "pw_check", "pw_txn"}
                => pending[w].new \in Passwords
           /\ pending[w].at \in {"find_index", "issue", "mail"}
                => pending[w].owner \in Users
           /\ pending[w].at \in {"issue", "mail"}
                => pending[w].on \in Users
           /\ At(w, "mail") => pending[w].password \in Temporary
<1>1. CASE pending[w] = Idle
  BY <1>1 DEF Idle, At
<1>2. CASE pending[w] \in Requests
  BY <1>2 DEF Requests, At
<1> QED BY <1>1, <1>2 DEF TypeOK

LEMMA BeginsAt ==
    ASSUME TypeOK, NEW w \in Workers, NEW request, Begins(w, request)
    PROVE  /\ pending[w].at = "idle" /\ pending'[w] = request
           /\ \A v \in Workers \ {w} : pending'[v] = pending[v]
           /\ request \in Requests => pending' \in [Workers -> Requests \cup {Idle}]
BY DEF Begins, TypeOK, Idle

LEMMA EndsIdle ==
    ASSUME TypeOK, NEW w \in Workers, Ends(w)
    PROVE  /\ pending'[w] = Idle /\ pending'[w].at = "idle"
           /\ \A v \in Workers \ {w} : pending'[v] = pending[v]
           /\ pending' \in [Workers -> Requests \cup {Idle}]
BY DEF Ends, TypeOK, Idle

PasswordCalls == {"pw_key", "pw_check", "pw_txn"}
WithdrawalCalls == {"withdraw_key", "withdraw_check", "withdraw_txn"}

LEMMA ChangeGoes ==
    ASSUME TypeOK, NEW w \in Workers, NEW call, Goes(w, call),
           \/ pending[w].at \in PasswordCalls /\ call \in PasswordCalls
           \/ pending[w].at \in WithdrawalCalls /\ call \in WithdrawalCalls
    PROVE  /\ pending'[w].at = call /\ pending'[w].on = pending[w].on
           /\ call \in PasswordCalls => pending'[w].new = pending[w].new
           /\ \A v \in Workers \ {w} : pending'[v] = pending[v]
           /\ pending' \in [Workers -> Requests \cup {Idle}]
<1>1. CASE pending[w].at \in PasswordCalls /\ call \in PasswordCalls
  <2>1. pending[w] \in [at : PasswordCalls, on : Users,
                        password : AllPasswords, new : Passwords]
    BY <1>1, Kinds DEF PasswordCalls, Requests
  <2> DEFINE next == [pending[w] EXCEPT !.at = call]
  <2>2. /\ next \in Requests /\ next.at = call /\ next.on = pending[w].on
        /\ next.new = pending[w].new
    BY <1>1, <2>1 DEF Requests, PasswordCalls
  <2>3. pending' = [pending EXCEPT ![w] = next]
    BY DEF Goes
  <2> QED BY <2>2, <2>3 DEF TypeOK
<1>2. CASE pending[w].at \in WithdrawalCalls /\ call \in WithdrawalCalls
  <2>1. pending[w] \in [at : WithdrawalCalls, on : Users, password : AllPasswords]
    BY <1>2, Kinds DEF WithdrawalCalls, Requests
  <2> DEFINE next == [pending[w] EXCEPT !.at = call]
  <2>2. next \in Requests /\ next.at = call /\ next.on = pending[w].on
    BY <1>2, <2>1 DEF Requests, WithdrawalCalls
  <2>3. pending' = [pending EXCEPT ![w] = next]
    BY DEF Goes
  <2>4. call \notin PasswordCalls
    BY <1>2 DEF PasswordCalls, WithdrawalCalls
  <2> QED BY <2>2, <2>3, <2>4 DEF TypeOK
<1> QED BY <1>1, <1>2
-----------------------------------------------------------------------------
\* What a step must leave, or make, true of the passwords; the request of w alone
\* moves, and no row is written.
Unwritten(w) ==
    /\ \A v \in Workers \ {w} : pending'[v] = pending[v]
    /\ \A u \in Users : account'[u].password = account[u].password
    /\ \A u \in Users : known[u] \subseteq known'[u]
    /\ unreached \subseteq unreached'

LEMMA UnwrittenHolds ==
    ASSUME IInv, TypeOK', NEW w \in Workers, Unwritten(w), ~At(w, "mail"),
           \/ pending'[w].at \notin PasswordCalls
           \/ /\ pending[w].at \in PasswordCalls
              /\ pending'[w].on = pending[w].on /\ pending'[w].new = pending[w].new
           \/ pending'[w].new \in known'[pending'[w].on]
    PROVE  IInv'
<1>1. \A v \in Workers : pending[v].at \in PasswordCalls => pending[v].on \in Users
  BY Fields DEF IInv, PasswordCalls
<1>2. ChosenKnown'
  BY <1>1 DEF IInv, ChosenKnown, Unwritten, PasswordCalls
<1>3. PasswordReachesUser'
  <2> SUFFICES ASSUME NEW u \in Users, account'[u].password \notin known'[u],
                      u \notin unreached'
               PROVE  \E v \in Workers : Mailing(v, u)'
    BY DEF PasswordReachesUser
  <2>1. PICK v \in Workers : Mailing(v, u)
    BY DEF IInv, PasswordReachesUser, Unwritten
  <2>2. v # w
    BY <2>1 DEF Mailing
  <2>3. Mailing(v, u)'
    BY <2>1, <2>2 DEF Mailing, At, Unwritten
  <2> QED BY <2>3
<1> QED BY <1>2, <1>3 DEF IInv
-----------------------------------------------------------------------------
(* Types *)

\* Writing a row, its id aside, keeps the rows typed and their ids apart.
LEMMA RowWritten ==
    ASSUME TypeOK, NEW u \in Users, NEW row \in Accounts,
           row.id = account[u].id, account' = [account EXCEPT ![u] = row]
    PROVE  /\ account' \in [Users -> Accounts]
           /\ \A v, x \in Users : account'[v].id = account'[x].id => v = x
<1>1. account' \in [Users -> Accounts]
  BY DEF TypeOK
<1>2. \A v \in Users : account'[v].id = account[v].id
  BY DEF TypeOK
<1> QED BY <1>1, <1>2 DEF TypeOK

LEMMA SessionTyped ==
    ASSUME TypeOK, NEW w \in Workers, Session(w)
    PROVE  TypeOK'
<1>1. ASSUME NEW u \in Users, token_login(w, u) PROVE TypeOK'
  <2>1. PICK password \in known[u] :
            Begins(w, [at |-> "set_key", on |-> u, password |-> password])
    BY <1>1 DEF token_login
  <2>2. password \in AllPasswords
    BY DEF TypeOK
  <2>3. [at |-> "set_key", on |-> u, password |-> password] \in Requests
    BY <2>2 DEF Requests
  <2> QED BY <1>1, <2>1, <2>3, BeginsAt DEF token_login, TypeOK
<1>2. ASSUME NEW u \in Users, token_logout(w, u) PROVE TypeOK'
  <2>1. [at |-> "logout", on |-> u] \in Requests
    BY DEF Requests
  <2> QED BY <1>2, <2>1, BeginsAt DEF token_logout, TypeOK
<1>3. CASE set_key(w)
  <2>1. pending[w].on \in Users /\ pending[w].password \in AllPasswords
    BY <1>3, Fields DEF set_key, At
  <2> QED BY <1>3, <2>1, EndsIdle DEF set_key, TypeOK
<1>4. CASE delete_key(w)
  BY <1>4, EndsIdle DEF delete_key, TypeOK
<1> QED BY <1>1, <1>2, <1>3, <1>4 DEF Session

LEMMA BeginningTyped ==
    ASSUME TypeOK, NEW w \in Workers, NEW u \in Users
    PROVE  /\ \A old \in known[u], new \in Passwords : request_password(w, u, old, new) => TypeOK'
           /\ \A password \in known[u] : request_withdrawal(w, u, password) => TypeOK'
           /\ \A i \in Ids : modify_id(w, u, i) => TypeOK'
           /\ find_password(w, u) => TypeOK'
<1>1. ASSUME NEW old \in known[u], NEW new \in Passwords, request_password(w, u, old, new)
      PROVE  TypeOK'
  <2>1. old \in AllPasswords /\ new \in AllPasswords
    BY DEF TypeOK, AllPasswords
  <2>2. [at |-> "pw_key", on |-> u, password |-> old, new |-> new] \in Requests
    BY <2>1 DEF Requests
  <2>3. known' \in [Users -> SUBSET AllPasswords]
    BY <1>1, <2>1 DEF request_password, TypeOK
  <2> QED BY <1>1, <2>2, <2>3, BeginsAt DEF request_password, TypeOK
<1>2. ASSUME NEW password \in known[u], request_withdrawal(w, u, password) PROVE TypeOK'
  <2>1. password \in AllPasswords
    BY DEF TypeOK
  <2>2. [at |-> "withdraw_key", on |-> u, password |-> password] \in Requests
    BY <2>1 DEF Requests
  <2> QED BY <1>2, <2>2, BeginsAt DEF request_withdrawal, TypeOK
<1>3. ASSUME NEW i \in Ids, modify_id(w, u, i) PROVE TypeOK'
  <2>1. [at |-> "id_txn", on |-> u, id |-> i] \in Requests
    BY DEF Requests
  <2> QED BY <1>3, <2>1, BeginsAt DEF modify_id, TypeOK
<1>4. ASSUME find_password(w, u) PROVE TypeOK'
  <2>1. account[u].id \in Ids
    BY DEF TypeOK, Accounts
  <2>2. [at |-> "find_index", owner |-> u, id |-> account[u].id] \in Requests
    BY <2>1 DEF Requests
  <2> QED BY <1>4, <2>2, BeginsAt DEF find_password, TypeOK
<1> QED BY <1>1, <1>2, <1>3, <1>4

LEMMA ChangeTyped ==
    ASSUME TypeOK, NEW w \in Workers, Change(w)
    PROVE  TypeOK'
<1>1. CASE update_my_password(w)
  BY <1>1, ChangeGoes DEF update_my_password, At, PasswordCalls, TypeOK
<1>2. CASE check_password(w)
  BY <1>2, ChangeGoes DEF check_password, At, PasswordCalls, TypeOK
<1>3. CASE userPw_modify(w)
  <2> DEFINE u == pending[w].on
             row == [account[u] EXCEPT !.password = pending[w].new]
  <2>1. u \in Users /\ pending[w].new \in AllPasswords
    BY <1>3, Fields DEF userPw_modify, At, AllPasswords
  <2>2. row \in Accounts /\ row.id = account[u].id
    BY <2>1 DEF TypeOK, Accounts
  <2>3. account' = [account EXCEPT ![u] = row]
    BY <1>3 DEF userPw_modify
  <2>4. /\ account' \in [Users -> Accounts]
        /\ \A v, x \in Users : account'[v].id = account'[x].id => v = x
    BY <2>1, <2>2, <2>3, RowWritten
  <2> QED BY <1>3, <2>4, EndsIdle DEF userPw_modify, TypeOK
<1>4. CASE withdraw_user(w)
  BY <1>4, ChangeGoes DEF withdraw_user, At, WithdrawalCalls, TypeOK
<1>5. CASE check_withdrawal(w)
  BY <1>5, ChangeGoes DEF check_withdrawal, At, WithdrawalCalls, TypeOK
<1>6. CASE soft_delete_user(w)
  <2> DEFINE u == pending[w].on
             row == [account[u] EXCEPT !.deleted = TRUE]
  <2>1. u \in Users
    BY <1>6, Fields DEF soft_delete_user, At
  <2>2. row \in Accounts /\ row.id = account[u].id
    BY <2>1 DEF TypeOK, Accounts
  <2>3. account' = [account EXCEPT ![u] = row]
    BY <1>6 DEF soft_delete_user
  <2>4. /\ account' \in [Users -> Accounts]
        /\ \A v, x \in Users : account'[v].id = account'[x].id => v = x
    BY <2>1, <2>2, <2>3, RowWritten
  <2> QED BY <1>6, <2>4, EndsIdle DEF soft_delete_user, TypeOK
<1>7. CASE userId_modify(w)
  <2> DEFINE u == pending[w].on
             row == [account[u] EXCEPT !.id = pending[w].id]
  <2>1. u \in Users /\ pending[w].id \in Ids
    BY <1>7, Fields DEF userId_modify, At
  <2>2. row \in Accounts /\ row.id = pending[w].id
    BY <2>1 DEF TypeOK, Accounts
  <2>3. account' = [account EXCEPT ![u] = row]
    BY <1>7 DEF userId_modify
  <2>4. account' \in [Users -> Accounts]
    BY <2>1, <2>2, <2>3 DEF TypeOK
  <2>5. \A v \in Users : account'[v].id = IF v = u THEN pending[w].id ELSE account[v].id
    BY <2>2, <2>3 DEF TypeOK
  <2>6. \A v, x \in Users : account'[v].id = account'[x].id => v = x
    BY <1>7, <2>5 DEF userId_modify, Free, TypeOK
  <2> QED BY <1>7, <2>4, <2>6, EndsIdle DEF userId_modify, TypeOK
<1> QED BY <1>1, <1>2, <1>3, <1>4, <1>5, <1>6, <1>7, BeginningTyped DEF Change

\* What get_user_index and issue leave pending, and the rows that issue writes.
LEMMA IndexNext ==
    ASSUME TypeOK, NEW w \in Workers, get_user_index(w)
    PROVE  \E u \in Users :
               /\ [at |-> "issue", owner |-> pending[w].owner, on |-> u] \in Requests
               /\ pending' = [pending EXCEPT ![w] =
                      [at |-> "issue", owner |-> pending[w].owner, on |-> u]]
<1>1. pending[w].owner \in Users
  BY Fields DEF get_user_index, At
<1>2. PICK u \in Users :
          pending' = [pending EXCEPT ![w] =
                         [at |-> "issue", owner |-> pending[w].owner, on |-> u]]
  BY DEF get_user_index
<1>3. [at |-> "issue", owner |-> pending[w].owner, on |-> u] \in Requests
  BY <1>1 DEF Requests
<1> QED BY <1>2, <1>3

Mail(w, t) == [at |-> "mail", owner |-> pending[w].owner,
               on |-> pending[w].on, password |-> t]

LEMMA IssueNext ==
    ASSUME TypeOK, NEW w \in Workers, issue(w)
    PROVE  \E t \in Temporary :
               /\ pending' = [pending EXCEPT ![w] = Mail(w, t)]
               /\ Mail(w, t) \in Requests
               /\ account' \in [Users -> Accounts]
               /\ \A u \in Users :
                      /\ account'[u].id = account[u].id
                      /\ account'[u].password = IF u = pending[w].on THEN t
                                                ELSE account[u].password
<1>1. pending[w].owner \in Users /\ pending[w].on \in Users
  BY Fields DEF issue, At
<1>2. PICK t \in Temporary :
          /\ account' = [account EXCEPT ![pending[w].on] =
                            [account[pending[w].on] EXCEPT !.password = t]]
          /\ pending' = [pending EXCEPT ![w] = Mail(w, t)]
  BY DEF issue, Mail
<1>3. Mail(w, t) \in Requests
  BY <1>1 DEF Requests, Mail
<1>4. \A u \in Users : LET row == [account[u] EXCEPT !.password = t]
                       IN  /\ row \in Accounts /\ account[u] \in Accounts
                           /\ row.id = account[u].id /\ row.password = t
  BY DEF TypeOK, Accounts, AllPasswords
<1>5. account' \in [Users -> Accounts]
  BY <1>1, <1>2, <1>4 DEF TypeOK
<1>6. \A u \in Users :
          /\ account'[u].id = account[u].id
          /\ account'[u].password = IF u = pending[w].on THEN t ELSE account[u].password
  BY <1>1, <1>2, <1>4 DEF TypeOK
<1> QED BY <1>2, <1>3, <1>5, <1>6

LEMMA FindTyped ==
    ASSUME TypeOK, NEW w \in Workers, Find(w)
    PROVE  TypeOK'
<1>1. CASE get_user_index(w)
  <2>1. pending' \in [Workers -> Requests \cup {Idle}]
    BY <1>1, IndexNext DEF TypeOK
  <2> QED BY <1>1, <2>1 DEF get_user_index, TypeOK
<1>2. CASE issue(w)
  <2>1. pending' \in [Workers -> Requests \cup {Idle}]
    BY <1>2, IssueNext DEF TypeOK
  <2>2. account' \in [Users -> Accounts] /\ \A u \in Users : account'[u].id = account[u].id
    BY <1>2, IssueNext
  <2> QED BY <1>2, <2>1, <2>2 DEF issue, TypeOK
<1>3. CASE mail(w)
  <2>1. /\ pending[w].owner \in Users /\ pending[w].on \in Users
        /\ pending[w].password \in AllPasswords
    BY <1>3, Fields DEF mail, At, AllPasswords
  <2>2. known' \in [Users -> SUBSET AllPasswords] /\ unreached' \subseteq Users
    BY <1>3, <2>1 DEF mail, Missed, TypeOK
  <2> QED BY <1>3, <2>2, EndsIdle DEF mail, TypeOK
<1> QED BY <1>1, <1>2, <1>3, BeginningTyped DEF Find

LEMMA OthersTyped ==
    ASSUME TypeOK, NEW u \in Users
    PROVE  /\ expire_key(u) => TypeOK'
           /\ admin_delete_user(u) => TypeOK'
           /\ restore_user(u) => TypeOK'
<1>1. ASSUME expire_key(u) PROVE TypeOK'
  BY <1>1 DEF expire_key, TypeOK
<1>2. ASSUME admin_delete_user(u) PROVE TypeOK'
  <2> DEFINE row == [account[u] EXCEPT !.deleted = TRUE]
  <2>1. row \in Accounts /\ row.id = account[u].id
    BY DEF TypeOK, Accounts
  <2>2. account' = [account EXCEPT ![u] = row]
    BY <1>2 DEF admin_delete_user
  <2>3. /\ account' \in [Users -> Accounts]
        /\ \A v, x \in Users : account'[v].id = account'[x].id => v = x
    BY <2>1, <2>2, RowWritten
  <2> QED BY <1>2, <2>3 DEF admin_delete_user, TypeOK
<1>3. ASSUME restore_user(u) PROVE TypeOK'
  <2> DEFINE row == [account[u] EXCEPT !.deleted = FALSE]
  <2>1. row \in Accounts /\ row.id = account[u].id
    BY DEF TypeOK, Accounts
  <2>2. account' = [account EXCEPT ![u] = row]
    BY <1>3 DEF restore_user
  <2>3. /\ account' \in [Users -> Accounts]
        /\ \A v, x \in Users : account'[v].id = account'[x].id => v = x
    BY <2>1, <2>2, RowWritten
  <2> QED BY <1>3, <2>3 DEF restore_user, TypeOK
<1> QED BY <1>1, <1>2, <1>3

LEMMA AbortTyped ==
    ASSUME TypeOK, NEW w \in Workers, abort(w)
    PROVE  TypeOK'
<1>1. At(w, "mail") => pending[w].on \in Users
  BY Fields DEF At
<1> QED BY <1>1, EndsIdle DEF abort, TypeOK

LEMMA StepTyped == TypeOK /\ [Next]_vars => TypeOK'
<1> SUFFICES ASSUME TypeOK, [Next]_vars PROVE TypeOK'
  OBVIOUS
<1>1. CASE UNCHANGED vars
  BY <1>1 DEF vars, TypeOK
<1>2. ASSUME NEW w \in Workers, Session(w) \/ Change(w) \/ Find(w) \/ abort(w)
      PROVE  TypeOK'
  BY <1>2, SessionTyped, ChangeTyped, FindTyped, AbortTyped
<1> QED BY <1>1, <1>2, OthersTyped DEF Next

\* Rows, tokens and requests are always of their kinds, and two rows never have one
\* id although the check of an id and its UPDATE are apart (modify_id, userId_modify).
THEOREM SessionsTyped == Spec => []TypeOK
<1>1. Init => TypeOK
  BY InitHolds DEF IInv
<1> QED BY <1>1, StepTyped, PTL DEF Spec
-----------------------------------------------------------------------------
(* Passwords reach users *)

LEMMA SessionHolds ==
    ASSUME IInv, TypeOK', NEW w \in Workers, Session(w)
    PROVE  IInv'
<1>0. TypeOK
  BY DEF IInv
<1>1. ASSUME NEW u \in Users, token_login(w, u) \/ token_logout(w, u) PROVE IInv'
  <2>1. PICK request : request.at \notin PasswordCalls /\ Begins(w, request)
    <3>1. CASE token_login(w, u)
      <4>1. PICK password \in known[u] :
                Begins(w, [at |-> "set_key", on |-> u, password |-> password])
        BY <3>1 DEF token_login
      <4> QED BY <4>1 DEF PasswordCalls
    <3>2. CASE token_logout(w, u)
      <4>1. Begins(w, [at |-> "logout", on |-> u])
        BY <3>2 DEF token_logout
      <4> QED BY <4>1 DEF PasswordCalls
    <3> QED BY <1>1, <3>1, <3>2
  <2>2. Unwritten(w) /\ ~At(w, "mail") /\ pending'[w].at \notin PasswordCalls
    BY <1>0, <1>1, <2>1, BeginsAt DEF token_login, token_logout, Unwritten, At
  <2> QED BY <2>2, UnwrittenHolds
<1>2. CASE set_key(w) \/ delete_key(w)
  <2>1. Ends(w) /\ UNCHANGED <<account, known, unreached>> /\ ~At(w, "mail")
    BY <1>2 DEF set_key, delete_key, At
  <2>2. pending'[w].at = "idle" /\ Unwritten(w)
    BY <1>0, <2>1, EndsIdle DEF Unwritten
  <2>3. pending'[w].at \notin PasswordCalls
    BY <2>2 DEF PasswordCalls
  <2> QED BY <2>1, <2>2, <2>3, UnwrittenHolds
<1> QED BY <1>1, <1>2 DEF Session

LEMMA BeginningHolds ==
    ASSUME IInv, TypeOK', NEW w \in Workers, NEW u \in Users
    PROVE  /\ \A old \in known[u], new \in Passwords : request_password(w, u, old, new) => IInv'
           /\ \A password \in known[u] : request_withdrawal(w, u, password) => IInv'
           /\ \A i \in Ids : modify_id(w, u, i) => IInv'
           /\ find_password(w, u) => IInv'
<1>0. TypeOK
  BY DEF IInv
<1>1. ASSUME NEW old \in known[u], NEW new \in Passwords, request_password(w, u, old, new)
      PROVE  IInv'
  <2>1. known' = [known EXCEPT ![u] = @ \cup {new}] /\ account' = account
        /\ unreached' = unreached
    BY <1>1 DEF request_password
  <2>2. (\A v \in Users : known[v] \subseteq known'[v]) /\ new \in known'[u]
    BY <1>0, <2>1 DEF TypeOK
  <2>3. pending[w].at = "idle" /\ pending'[w].on = u /\ pending'[w].new = new
        /\ \A v \in Workers \ {w} : pending'[v] = pending[v]
    BY <1>0, <1>1, BeginsAt DEF request_password
  <2>4. Unwritten(w) /\ ~At(w, "mail") /\ pending'[w].new \in known'[pending'[w].on]
    BY <2>1, <2>2, <2>3 DEF Unwritten, At
  <2> QED BY <2>4, UnwrittenHolds
<1>2. ASSUME NEW request, request.at \notin PasswordCalls, Begins(w, request),
             UNCHANGED <<account, known, unreached>>
      PROVE  IInv'
  <2>1. Unwritten(w) /\ ~At(w, "mail") /\ pending'[w].at \notin PasswordCalls
    BY <1>0, <1>2, BeginsAt DEF Unwritten, At
  <2> QED BY <2>1, UnwrittenHolds
<1>3. ASSUME NEW password \in known[u], request_withdrawal(w, u, password) PROVE IInv'
  BY <1>2, <1>3 DEF request_withdrawal, PasswordCalls
<1>4. ASSUME NEW i \in Ids, modify_id(w, u, i) PROVE IInv'
  BY <1>2, <1>4 DEF modify_id, PasswordCalls
<1>5. ASSUME find_password(w, u) PROVE IInv'
  BY <1>2, <1>5 DEF find_password, PasswordCalls
<1> QED BY <1>1, <1>3, <1>4, <1>5

\* The password that a change writes is one that its user chose.
LEMMA ChangeHolds ==
    ASSUME IInv, TypeOK', NEW w \in Workers, Change(w)
    PROVE  IInv'
<1>0. TypeOK
  BY DEF IInv
<1>1. CASE update_my_password(w) \/ check_password(w)
  <2>1. PICK call \in PasswordCalls : pending[w].at \in PasswordCalls /\ Goes(w, call)
    BY <1>1 DEF update_my_password, check_password, At, PasswordCalls
  <2>2. /\ pending'[w].on = pending[w].on /\ pending'[w].new = pending[w].new
        /\ \A v \in Workers \ {w} : pending'[v] = pending[v]
    BY <1>0, <2>1, ChangeGoes
  <2>3. Unwritten(w) /\ ~At(w, "mail")
    BY <1>1, <2>1, <2>2 DEF update_my_password, check_password, Unwritten, At, PasswordCalls
  <2> QED BY <2>1, <2>2, <2>3, UnwrittenHolds
<1>2. CASE userPw_modify(w)
  <2> DEFINE u == pending[w].on
  <2>1. u \in Users /\ pending[w].new \in known[u]
    BY <1>0, <1>2, Fields DEF userPw_modify, At, IInv, ChosenKnown
  <2>2. account'[u].password = pending[w].new
    BY <1>0, <1>2, <2>1 DEF userPw_modify, TypeOK, Accounts
  <2>3. \A v \in Users \ {u} : account'[v] = account[v]
    BY <1>0, <1>2 DEF userPw_modify, TypeOK
  <2>4. pending'[w].at = "idle" /\ \A v \in Workers \ {w} : pending'[v] = pending[v]
    BY <1>0, <1>2, EndsIdle DEF userPw_modify
  <2>5. known' = known /\ unreached' = unreached /\ ~At(w, "mail")
    BY <1>2 DEF userPw_modify, At
  <2>6. ChosenKnown'
    BY <2>4, <2>5 DEF IInv, ChosenKnown
  <2>7. PasswordReachesUser'
    <3> SUFFICES ASSUME NEW v \in Users, account'[v].password \notin known'[v],
                        v \notin unreached'
                 PROVE  \E x \in Workers : Mailing(x, v)'
      BY DEF PasswordReachesUser
    <3>1. account'[v] = account[v]
      BY <2>1, <2>2, <2>3, <2>5
    <3>2. PICK x \in Workers : Mailing(x, v)
      BY <2>5, <3>1 DEF IInv, PasswordReachesUser
    <3>3. pending'[x] = pending[x]
      BY <2>4, <2>5, <3>2 DEF Mailing
    <3>4. Mailing(x, v)'
      BY <3>1, <3>2, <3>3 DEF Mailing, At
    <3> QED BY <3>4
  <2> QED BY <2>6, <2>7 DEF IInv
<1>3. CASE withdraw_user(w) \/ check_withdrawal(w)
  <2>1. PICK call \in WithdrawalCalls : pending[w].at \in WithdrawalCalls /\ Goes(w, call)
    BY <1>3 DEF withdraw_user, check_withdrawal, At, WithdrawalCalls
  <2>2. pending'[w].at = call /\ \A v \in Workers \ {w} : pending'[v] = pending[v]
    BY <1>0, <2>1, ChangeGoes
  <2>3. /\ Unwritten(w) /\ ~At(w, "mail")
        /\ pending'[w].at \notin PasswordCalls
    BY <1>3, <2>1, <2>2
       DEF withdraw_user, check_withdrawal, Unwritten, At, PasswordCalls, WithdrawalCalls
  <2> QED BY <2>3, UnwrittenHolds
<1>4. CASE soft_delete_user(w) \/ userId_modify(w)
  <2>1. Ends(w) /\ UNCHANGED <<known, unreached>> /\ ~At(w, "mail")
    BY <1>4 DEF soft_delete_user, userId_modify, At
  <2>2. \A u \in Users : account'[u].password = account[u].password
    BY <1>0, <1>4 DEF soft_delete_user, userId_modify, TypeOK, Accounts
  <2>3. pending'[w].at = "idle" /\ Unwritten(w)
    BY <1>0, <2>1, <2>2, EndsIdle DEF Unwritten
  <2>4. pending'[w].at \notin PasswordCalls
    BY <2>3 DEF PasswordCalls
  <2> QED BY <2>1, <2>3, <2>4, UnwrittenHolds
<1> QED BY <1>1, <1>2, <1>3, <1>4, BeginningHolds DEF Change

\* From issue to mail the password is on its way; after it, it is known or missed.
LEMMA FindHolds ==
    ASSUME IInv, TypeOK', NEW w \in Workers, Find(w)
    PROVE  IInv'
<1>0. TypeOK
  BY DEF IInv
<1>1. CASE get_user_index(w)
  <2>1. pending'[w].at = "issue" /\ \A v \in Workers \ {w} : pending'[v] = pending[v]
    <3>1. PICK u \in Users :
              pending' = [pending EXCEPT ![w] =
                             [at |-> "issue", owner |-> pending[w].owner, on |-> u]]
      BY <1>0, <1>1, IndexNext
    <3> QED BY <1>0, <3>1 DEF TypeOK
  <2>2. Unwritten(w) /\ ~At(w, "mail") /\ pending'[w].at \notin PasswordCalls
    BY <1>1, <2>1 DEF get_user_index, Unwritten, At, PasswordCalls
  <2> QED BY <2>2, UnwrittenHolds
<1>2. CASE issue(w)
  <2>1. PICK t \in Temporary :
            /\ pending' = [pending EXCEPT ![w] = Mail(w, t)]
            /\ \A u \in Users : account'[u].password = IF u = pending[w].on THEN t
                                                       ELSE account[u].password
    BY <1>0, <1>2, IssueNext
  <2>2. /\ pending'[w].at = "mail" /\ pending'[w].on = pending[w].on
        /\ pending'[w].password = t
        /\ \A v \in Workers \ {w} : pending'[v] = pending[v]
    BY <1>0, <2>1 DEF TypeOK, Mail
  <2>3. known' = known /\ unreached' = unreached /\ ~At(w, "mail")
    BY <1>2 DEF issue, At
  <2>4. ChosenKnown'
    BY <2>2, <2>3 DEF IInv, ChosenKnown
  <2>5. PasswordReachesUser'
    <3> SUFFICES ASSUME NEW u \in Users, account'[u].password \notin known'[u],
                        u \notin unreached'
                 PROVE  \E v \in Workers : Mailing(v, u)'
      BY DEF PasswordReachesUser
    <3>1. CASE u = pending[w].on
      <4>1. Mailing(w, u)'
        BY <2>1, <2>2, <3>1 DEF Mailing, At
      <4> QED BY <4>1
    <3>2. CASE u # pending[w].on
      <4>1. PICK v \in Workers : Mailing(v, u)
        BY <2>1, <2>3, <3>2 DEF IInv, PasswordReachesUser
      <4>2. Mailing(v, u)'
        BY <2>1, <2>2, <2>3, <3>2, <4>1 DEF Mailing, At
      <4> QED BY <4>2
    <3> QED BY <3>1, <3>2
  <2> QED BY <2>4, <2>5 DEF IInv
<1>3. CASE mail(w)
  <2> DEFINE o == pending[w].owner
  <2>1. o \in Users /\ account' = account
    BY <1>0, <1>3, Fields DEF mail, At
  <2>2. pending'[w].at = "idle" /\ \A v \in Workers \ {w} : pending'[v] = pending[v]
    BY <1>0, <1>3, EndsIdle DEF mail
  <2>3. /\ pending[w].password \in known'[o]
        /\ \A u \in Users : known[u] \subseteq known'[u]
        /\ unreached' = unreached \cup Missed(w)
    BY <1>0, <1>3, <2>1 DEF mail, TypeOK
  <2>4. ChosenKnown'
    <3> SUFFICES ASSUME NEW v \in Workers, pending'[v].at \in PasswordCalls
                 PROVE  pending'[v].new \in known'[pending'[v].on]
      BY DEF ChosenKnown, PasswordCalls
    <3>1. pending'[v] = pending[v]
      BY <2>2 DEF PasswordCalls
    <3>2. pending[v].on \in Users /\ pending[v].new \in known[pending[v].on]
      BY <1>0, <3>1, Fields DEF IInv, ChosenKnown, PasswordCalls
    <3> QED BY <2>3, <3>1, <3>2
  <2>5. PasswordReachesUser'
    <3> SUFFICES ASSUME NEW u \in Users, account'[u].password \notin known'[u],
                        u \notin unreached'
                 PROVE  \E v \in Workers : Mailing(v, u)'
      BY DEF PasswordReachesUser
    <3>1. PICK v \in Workers : Mailing(v, u)
      BY <2>1, <2>3 DEF IInv, PasswordReachesUser
    <3>2. v # w
      BY <2>1, <2>3, <3>1 DEF Mailing, Missed
    <3>3. Mailing(v, u)'
      BY <2>1, <2>2, <3>1, <3>2 DEF Mailing, At
    <3> QED BY <3>3
  <2> QED BY <2>4, <2>5 DEF IInv
<1> QED BY <1>1, <1>2, <1>3, BeginningHolds DEF Find

LEMMA AbortHolds ==
    ASSUME IInv, TypeOK', NEW w \in Workers, abort(w)
    PROVE  IInv'
<1>1. /\ pending'[w].at = "idle"
      /\ \A v \in Workers \ {w} : pending'[v] = pending[v]
      /\ account' = account /\ known' = known
  BY EndsIdle DEF abort, IInv
<1>2. ChosenKnown'
  BY <1>1 DEF IInv, ChosenKnown
<1>3. PasswordReachesUser'
  <2> SUFFICES ASSUME NEW u \in Users, account'[u].password \notin known'[u],
                      u \notin unreached'
               PROVE  \E v \in Workers : Mailing(v, u)'
    BY DEF PasswordReachesUser
  <2>1. u \notin unreached /\ ~(At(w, "mail") /\ u = pending[w].on)
    BY DEF abort
  <2>2. PICK v \in Workers : Mailing(v, u)
    BY <1>1, <2>1 DEF IInv, PasswordReachesUser
  <2>3. Mailing(v, u)'
    BY <1>1, <2>1, <2>2 DEF Mailing, At
  <2> QED BY <2>3
<1> QED BY <1>2, <1>3 DEF IInv

LEMMA StillHolds ==
    ASSUME IInv, TypeOK', UNCHANGED <<pending, known, unreached>>,
           \A u \in Users : account'[u].password = account[u].password
    PROVE  IInv'
BY DEF IInv, ChosenKnown, PasswordReachesUser, Mailing, At

LEMMA StepHolds == IInv /\ [Next]_vars => IInv'
<1> SUFFICES ASSUME IInv, [Next]_vars PROVE IInv'
  OBVIOUS
<1>1. TypeOK /\ TypeOK'
  BY StepTyped DEF IInv
<1>2. CASE UNCHANGED vars
  BY <1>1, <1>2, StillHolds DEF vars
<1>3. ASSUME NEW w \in Workers, Session(w) \/ Change(w) \/ Find(w) \/ abort(w)
      PROVE  IInv'
  BY <1>1, <1>3, SessionHolds, ChangeHolds, FindHolds, AbortHolds
<1>4. ASSUME NEW u \in Users, expire_key(u) \/ admin_delete_user(u) \/ restore_user(u)
      PROVE  IInv'
  <2>1. /\ UNCHANGED <<pending, known, unreached>>
        /\ \A v \in Users : account'[v].password = account[v].password
    <3>1. CASE expire_key(u)
      BY <3>1 DEF expire_key
    <3>2. CASE admin_delete_user(u)
      BY <1>1, <3>2 DEF admin_delete_user, TypeOK, Accounts
    <3>3. CASE restore_user(u)
      BY <1>1, <3>3 DEF restore_user, TypeOK, Accounts
    <3> QED BY <1>4, <3>1, <3>2, <3>3
  <2> QED BY <1>1, <2>1, StillHolds
<1> QED BY <1>2, <1>3, <1>4 DEF Next

\* Through any mixture of changes, look-ups, mails and failed requests, a user whose
\* account has a password they do not know is being mailed it, or a mail with it was
\* lost or went to the one who had the id before (find_password, issue, mail).
THEOREM PasswordsReachUsers == Spec => []PasswordReachesUser
<1>1. IInv => PasswordReachesUser
  BY DEF IInv
<1> QED BY <1>1, InitHolds, StepHolds, PTL DEF Spec
-----------------------------------------------------------------------------
(* One request at a time *)

OneAtATime == \A v, w \in Workers : v = w

\* A login about to store its token holds the password of the account; a change of
\* password past its first call has ended the session.
CallFresh(w) ==
    /\ At(w, "set_key") => pending[w].password = account[pending[w].on].password
    /\ pending[w].at \in {"pw_check", "pw_txn"}
          => refresh_key[pending[w].on] = NoToken

OneInv == /\ TypeOK
          /\ \A w \in Workers : CallFresh(w)
          /\ SessionsFollowPassword

\* A step that writes no password and stores no token.
Quiet == /\ \A u \in Users : account'[u].password = account[u].password
         /\ \A u \in Users : refresh_key'[u] \in {refresh_key[u], NoToken}

LEMMA QuietHolds ==
    ASSUME OneInv, TypeOK', Quiet, \A w \in Workers : CallFresh(w)'
    PROVE  OneInv'
BY DEF OneInv, Quiet, SessionsFollowPassword

LEMMA OneSessionHolds ==
    ASSUME OneAtATime, OneInv, TypeOK', NEW w \in Workers, Session(w)
    PROVE  OneInv'
<1>0. TypeOK /\ \A v \in Workers : v = w
  BY DEF OneInv, OneAtATime
<1>1. ASSUME NEW u \in Users, token_login(w, u) PROVE OneInv'
  <2>1. PICK password \in known[u] :
            /\ PasswordAccepted(u, password)
            /\ Begins(w, [at |-> "set_key", on |-> u, password |-> password])
    BY <1>1 DEF token_login
  <2>2. pending'[w] = [at |-> "set_key", on |-> u, password |-> password]
    BY <1>0, <2>1, BeginsAt
  <2>3. CallFresh(w)' /\ Quiet
    BY <1>1, <2>1, <2>2 DEF token_login, CallFresh, At, PasswordAccepted, Quiet
  <2> QED BY <1>0, <2>3, QuietHolds
<1>2. ASSUME NEW u \in Users, token_logout(w, u) PROVE OneInv'
  <2>1. pending'[w] = [at |-> "logout", on |-> u]
    BY <1>0, <1>2, BeginsAt DEF token_logout
  <2>2. CallFresh(w)' /\ Quiet
    BY <1>2, <2>1 DEF token_logout, CallFresh, At, Quiet
  <2> QED BY <1>0, <2>2, QuietHolds
<1>3. CASE delete_key(w)
  <2>1. pending'[w].at = "idle"
    BY <1>0, <1>3, EndsIdle DEF delete_key
  <2>2. CallFresh(w)' /\ Quiet
    BY <1>0, <1>3, <2>1 DEF delete_key, CallFresh, At, Quiet, TypeOK
  <2> QED BY <1>0, <2>2, QuietHolds
<1>4. CASE set_key(w)
  <2> DEFINE u == pending[w].on
  <2>1. pending'[w].at = "idle" /\ u \in Users
    BY <1>0, <1>4, EndsIdle, Fields DEF set_key, At
  <2>2. pending[w].password = account[u].password /\ account' = account
        /\ refresh_key' = [refresh_key EXCEPT ![u] = pending[w].password]
    BY <1>4 DEF set_key, OneInv, CallFresh
  <2>3. \A v \in Users : refresh_key'[v] \in {refresh_key[v], account[v].password}
    BY <1>0, <2>1, <2>2 DEF TypeOK
  <2>4. SessionsFollowPassword'
    BY <2>2, <2>3 DEF OneInv, SessionsFollowPassword
  <2>5. CallFresh(w)'
    BY <2>1 DEF CallFresh, At
  <2> QED BY <1>0, <2>4, <2>5 DEF OneInv
<1> QED BY <1>1, <1>2, <1>3, <1>4 DEF Session

LEMMA OneChangeHolds ==
    ASSUME OneAtATime, OneInv, TypeOK', NEW w \in Workers, Change(w)
    PROVE  OneInv'
<1>0. TypeOK /\ \A v \in Workers : v = w
  BY DEF OneInv, OneAtATime
<1>1. ASSUME pending'[w].at \notin {"set_key", "pw_check", "pw_txn"}, Quiet
      PROVE  OneInv'
  BY <1>0, <1>1, QuietHolds DEF CallFresh, At
<1>2. ASSUME NEW request, Begins(w, request), UNCHANGED <<account, refresh_key>>,
             request.at \notin {"set_key", "pw_check", "pw_txn"}
      PROVE  OneInv'
  BY <1>0, <1>1, <1>2, BeginsAt DEF Quiet
<1>3. ASSUME NEW u \in Users, NEW old \in known[u], NEW new \in Passwords,
             request_password(w, u, old, new)
      PROVE  OneInv'
  BY <1>2, <1>3 DEF request_password
<1>4. ASSUME NEW u \in Users, NEW password \in known[u],
             request_withdrawal(w, u, password)
      PROVE  OneInv'
  BY <1>2, <1>4 DEF request_withdrawal
<1>5. ASSUME NEW u \in Users, NEW i \in Ids, modify_id(w, u, i)
      PROVE  OneInv'
  BY <1>2, <1>5 DEF modify_id
<1>6. CASE update_my_password(w)
  <2>1. pending[w].on \in Users
    BY <1>0, <1>6, Fields DEF update_my_password, At
  <2>2. pending'[w].at = "pw_check" /\ pending'[w].on = pending[w].on
    BY <1>0, <1>6, ChangeGoes DEF update_my_password, At, PasswordCalls
  <2>3. CallFresh(w)' /\ Quiet
    BY <1>0, <1>6, <2>1, <2>2 DEF update_my_password, CallFresh, At, Quiet, TypeOK
  <2> QED BY <1>0, <2>3, QuietHolds
<1>7. CASE check_password(w)
  <2>1. pending[w].at = "pw_check"
        /\ pending'[w].at = "pw_txn" /\ pending'[w].on = pending[w].on
    BY <1>0, <1>7, ChangeGoes DEF check_password, At, PasswordCalls
  <2>2. CallFresh(w)' /\ Quiet
    BY <1>7, <2>1 DEF check_password, CallFresh, At, Quiet, OneInv
  <2> QED BY <1>0, <2>2, QuietHolds
<1>8. CASE userPw_modify(w)
  <2> DEFINE u == pending[w].on
  <2>1. pending'[w].at = "idle" /\ refresh_key[u] = NoToken /\ refresh_key' = refresh_key
    BY <1>0, <1>8, EndsIdle DEF userPw_modify, OneInv, CallFresh, At
  <2>2. \A v \in Users \ {u} : account'[v] = account[v]
    BY <1>0, <1>8 DEF userPw_modify, TypeOK
  <2>3. SessionsFollowPassword'
    BY <2>1, <2>2 DEF OneInv, SessionsFollowPassword
  <2>4. CallFresh(w)'
    BY <2>1 DEF CallFresh, At
  <2> QED BY <1>0, <2>3, <2>4 DEF OneInv
<1>9. CASE withdraw_user(w)
  <2>1. pending'[w].at = "withdraw_check"
    BY <1>0, <1>9, ChangeGoes DEF withdraw_user, At, WithdrawalCalls
  <2>2. Quiet
    BY <1>0, <1>9 DEF withdraw_user, Quiet, TypeOK
  <2> QED BY <1>1, <2>1, <2>2
<1>10. CASE check_withdrawal(w)
  <2>1. pending'[w].at = "withdraw_txn"
    BY <1>0, <1>10, ChangeGoes DEF check_withdrawal, At, WithdrawalCalls
  <2>2. Quiet
    BY <1>10 DEF check_withdrawal, Quiet
  <2> QED BY <1>1, <2>1, <2>2
<1>11. CASE soft_delete_user(w) \/ userId_modify(w)
  <2>1. pending'[w].at = "idle"
    BY <1>0, <1>11, EndsIdle DEF soft_delete_user, userId_modify
  <2>2. Quiet
    BY <1>0, <1>11 DEF soft_delete_user, userId_modify, Quiet, TypeOK, Accounts
  <2> QED BY <1>1, <2>1, <2>2
<1> QED BY <1>3, <1>4, <1>5, <1>6, <1>7, <1>8, <1>9, <1>10, <1>11 DEF Change

LEMMA OneFindHolds ==
    ASSUME OneAtATime, OneInv, TypeOK', NEW w \in Workers, Find(w)
    PROVE  OneInv'
<1>0. TypeOK /\ \A v \in Workers : v = w
  BY DEF OneInv, OneAtATime
<1>1. ASSUME pending'[w].at \notin {"set_key", "pw_check", "pw_txn"}, Quiet
      PROVE  OneInv'
  BY <1>0, <1>1, QuietHolds DEF CallFresh, At
<1>2. ASSUME NEW u \in Users, find_password(w, u) PROVE OneInv'
  <2>1. pending'[w].at = "find_index"
    BY <1>0, <1>2, BeginsAt DEF find_password
  <2>2. Quiet
    BY <1>2 DEF find_password, Quiet
  <2> QED BY <1>1, <2>1, <2>2
<1>3. CASE get_user_index(w)
  <2>1. pending'[w].at = "issue"
    BY <1>0, <1>3 DEF get_user_index, TypeOK
  <2>2. Quiet
    BY <1>3 DEF get_user_index, Quiet
  <2> QED BY <1>1, <2>1, <2>2
<1>4. CASE issue(w)
  <2>1. PICK t \in Temporary :
            /\ pending' = [pending EXCEPT ![w] = Mail(w, t)]
            /\ \A u \in Users :
                   account'[u].password = IF u = pending[w].on THEN t
                                          ELSE account[u].password
    BY <1>0, <1>4, IssueNext
  <2>2. refresh_key' = refresh_key
    BY <1>4 DEF issue
  <2>3. SessionsFollowPassword'
    BY <2>1, <2>2 DEF OneInv, SessionsFollowPassword
  <2>4. pending'[w].at = "mail"
    BY <1>0, <2>1 DEF TypeOK, Mail
  <2>5. CallFresh(w)'
    BY <2>4 DEF CallFresh, At
  <2> QED BY <1>0, <2>3, <2>5 DEF OneInv
<1>5. CASE mail(w)
  <2>1. pending'[w].at = "idle"
    BY <1>0, <1>5, EndsIdle DEF mail
  <2>2. Quiet
    BY <1>5 DEF mail, Quiet
  <2> QED BY <1>1, <2>1, <2>2
<1> QED BY <1>2, <1>3, <1>4, <1>5 DEF Find

LEMMA OneStepHolds ==
    ASSUME OneAtATime, OneInv, [Next]_vars
    PROVE  OneInv'
<1>1. TypeOK /\ TypeOK'
  BY StepTyped DEF OneInv
<1>2. ASSUME Quiet, pending' = pending PROVE OneInv'
  <2>1. \A w \in Workers : pending[w].at \in {"set_key", "pw_check", "pw_txn"}
                              => pending[w].on \in Users
    BY <1>1, Fields
  <2>2. \A w \in Workers : CallFresh(w)'
    BY <1>2, <2>1 DEF OneInv, CallFresh, At, Quiet
  <2> QED BY <1>1, <1>2, <2>2, QuietHolds
<1>3. CASE UNCHANGED vars
  BY <1>2, <1>3 DEF vars, Quiet
<1>4. ASSUME NEW w \in Workers, abort(w) PROVE OneInv'
  <2>1. \A v \in Workers : CallFresh(v)'
    BY <1>1, <1>4, EndsIdle DEF OneAtATime, abort, CallFresh, At
  <2>2. Quiet
    BY <1>4 DEF abort, Quiet
  <2> QED BY <1>1, <2>1, <2>2, QuietHolds
<1>5. ASSUME NEW u \in Users, expire_key(u) \/ admin_delete_user(u) \/ restore_user(u)
      PROVE  OneInv'
  <2>1. CASE expire_key(u)
    <3>1. Quiet /\ pending' = pending
      BY <1>1, <2>1 DEF expire_key, Quiet, TypeOK
    <3> QED BY <1>2, <3>1
  <2>2. CASE admin_delete_user(u) \/ restore_user(u)
    <3>1. Quiet /\ pending' = pending
      BY <1>1, <2>2 DEF admin_delete_user, restore_user, Quiet, TypeOK, Accounts
    <3> QED BY <1>2, <3>1
  <2> QED BY <1>5, <2>1, <2>2
<1> QED BY <1>1, <1>3, <1>4, <1>5, OneSessionHolds, OneChangeHolds, OneFindHolds DEF Next

LEMMA OneInitHolds == Init => OneInv
<1>1. Init => TypeOK
  BY InitHolds DEF IInv
<1>2. Init => \A w \in Workers : CallFresh(w)
  BY DEF Init, CallFresh, At, Idle
<1>3. Init => SessionsFollowPassword
  BY DEF Init, SessionsFollowPassword
<1> QED BY <1>1, <1>2, <1>3 DEF OneInv

\* As long as requests do not overlap, a stored token was obtained with the password
\* that the account has (update_my_password deletes it first), unless find_password
\* has replaced that.
THEOREM TokensFollowPasswords ==
    ASSUME OneAtATime
    PROVE  Spec => []SessionsFollowPassword
<1>1. OneInv => SessionsFollowPassword
  BY DEF OneInv
<1> QED BY <1>1, OneInitHolds, OneStepHolds, PTL DEF Spec
=============================================================================
