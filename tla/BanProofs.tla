----------------------------- MODULE BanProofs -----------------------------
(***************************************************************************)
(* Proofs about BanLadder: whatever the number of users and of requests in *)
(* flight, the rows keep their types and the three columns agree.          *)
(***************************************************************************)
EXTENDS BanLadder, TLAPS

BanInv == TypeOK /\ StatusAgrees

AccountAgrees(a) ==
    /\ a.status = "ACTIVE" => ~a.deleted /\ a.ban_count = 0
    /\ a.status = "BANNED" => a.ban_count > 0 /\ a.ban_end # None
    /\ a.status = "WITHDRAWN" => a.deleted

GoodAccounts == {a \in Accounts : AccountAgrees(a)}

LEMMA InvByAccount ==
    ASSUME TypeOK
    PROVE  StatusAgrees <=> \A u \in Users : account[u] \in GoodAccounts
BY DEF TypeOK, StatusAgrees, GoodAccounts, AccountAgrees

\* Each UPDATE, on a row that agrees, leaves a row that agrees.
LEMMA UpdatesAgree ==
    ASSUME NEW a \in GoodAccounts
    PROVE  /\ \A days \in {1, 3, 5} : admin_ban(a, days) \in GoodAccounts
           /\ soft_delete_user(a) \in GoodAccounts
           /\ fourth_ban(a) \in GoodAccounts
           /\ admin_unban(a) \in GoodAccounts
           /\ hard_delete_user(a) \in GoodAccounts
           /\ restore_user_data(a) \in GoodAccounts
<1> USE DEF GoodAccounts, Accounts, AccountAgrees, Statuses, None
<1>1. \A days \in {1, 3, 5} : admin_ban(a, days) \in GoodAccounts
  <2> TAKE days \in {1, 3, 5}
  <2>1. a.ban_count + 1 \in Nat /\ a.ban_count + 1 > 0
    OBVIOUS
  <2>2. a \in Accounts /\ days \in {None, 1, 3, 5}
    OBVIOUS
  <2>3. admin_ban(a, days) \in Accounts
    BY <2>1, <2>2, Zenon DEF admin_ban
  <2>4. /\ admin_ban(a, days).status = "BANNED"
        /\ admin_ban(a, days).ban_count = a.ban_count + 1
        /\ admin_ban(a, days).ban_end = days
    BY <2>2 DEF admin_ban
  <2> QED
    BY <2>1, <2>3, <2>4
<1>2. soft_delete_user(a) \in GoodAccounts
  BY DEF soft_delete_user
<1>3. fourth_ban(a) \in GoodAccounts
  BY DEF fourth_ban, soft_delete_user
<1>4. admin_unban(a) \in GoodAccounts
  BY DEF admin_unban
<1>5. hard_delete_user(a) \in GoodAccounts
  BY DEF hard_delete_user
<1>6. restore_user_data(a) \in GoodAccounts
  BY DEF restore_user_data
<1> QED
  BY <1>1, <1>2, <1>3, <1>4, <1>5, <1>6

\* A request holds the days of a ban, and only a ban has days.
RequestsCarryDays ==
    \A w \in Workers : pending[w].op = "ban" => pending[w].ban_days \in {1, 3, 5}

IInv == BanInv /\ RequestsCarryDays

LEMMA InitHolds == Init => IInv
BY DEF Init, IInv, BanInv, TypeOK, StatusAgrees, RequestsCarryDays, Accounts,
       Statuses, None, Idle

\* A check writes no row, and what it holds is a request.
LEMMA CheckKeeps ==
    ASSUME IInv, NEW w \in Workers, NEW u \in Users, Check(w, u)
    PROVE  IInv'
<1> USE DEF IInv, BanInv
<1>1. PICK op \in BanOps, days \in {None, 1, 3, 5} :
          Begin(w, op, u, days) /\ (op = "ban" => days \in {1, 3, 5})
  BY DEF Check, admin_user_ban, admin_user_unban, delete_user, purge_user,
         restore_user, BanOps, Ladder, None
<1> DEFINE r == [op |-> op, on |-> u, ban_days |-> days]
<1>2. r \in Requests /\ (r.op = "ban" => r.ban_days \in {1, 3, 5})
  BY <1>1 DEF Requests
<1>3. pending' = [pending EXCEPT ![w] = r] /\ account' = account
  BY <1>1 DEF Begin
<1> HIDE DEF r
<1>4. TypeOK'
  BY <1>2, <1>3 DEF TypeOK
<1>5. RequestsCarryDays'
  BY <1>2, <1>3 DEF RequestsCarryDays, TypeOK
<1>6. StatusAgrees'
  BY <1>3 DEF StatusAgrees
<1> QED
  BY <1>4, <1>5, <1>6

\* A transaction writes one row, with one of the UPDATEs.
LEMMA TxnKeeps ==
    ASSUME IInv, NEW w \in Workers, Txn(w)
    PROVE  IInv'
<1> USE DEF IInv, BanInv
<1>1. pending[w] # Idle
  BY DEF Txn, ban_txn, fourth_ban_txn, unban_txn, delete_user_txn, purge_user_txn,
         restore_user_txn, Commit, Idle
<1>2. pending[w] \in Requests
  BY <1>1 DEF TypeOK
<1> DEFINE u == pending[w].on
<1>3. u \in Users
  BY <1>2 DEF Requests
<1>4. account[u] \in GoodAccounts
  BY <1>3, InvByAccount
<1>5. PICK row \in GoodAccounts :
          account' = [account EXCEPT ![u] = row]
  <2>1. CASE ban_txn(w)
    <3>1. pending[w].ban_days \in {1, 3, 5}
      BY <2>1 DEF ban_txn, Commit, RequestsCarryDays
    <3> QED
      BY <2>1, <3>1, <1>4, UpdatesAgree DEF ban_txn, Commit, Found
  <2>2. CASE fourth_ban_txn(w)
    BY <2>2, <1>4, UpdatesAgree DEF fourth_ban_txn, Commit, Found
  <2>3. CASE unban_txn(w)
    BY <2>3, <1>4, UpdatesAgree DEF unban_txn, Commit, Found
  <2>4. CASE delete_user_txn(w)
    BY <2>4, <1>4, UpdatesAgree DEF delete_user_txn, Commit, Found
  <2>5. CASE purge_user_txn(w)
    BY <2>5, <1>4, UpdatesAgree DEF purge_user_txn, Commit, Found
  <2>6. CASE restore_user_txn(w)
    BY <2>6, <1>4, UpdatesAgree DEF restore_user_txn, Commit, Found
  <2> QED
    BY <2>1, <2>2, <2>3, <2>4, <2>5, <2>6 DEF Txn
<1>6. pending' = [pending EXCEPT ![w] = Idle]
  BY DEF Txn, ban_txn, fourth_ban_txn, unban_txn, delete_user_txn, purge_user_txn,
         restore_user_txn, Commit
<1> HIDE DEF u
<1>7. account' \in [Users -> GoodAccounts]
  BY <1>3, <1>5, InvByAccount DEF TypeOK
<1>8. TypeOK'
  BY <1>6, <1>7 DEF TypeOK, GoodAccounts
<1>9. StatusAgrees'
  BY <1>7 DEF StatusAgrees, GoodAccounts, AccountAgrees
<1>10. RequestsCarryDays'
  BY <1>6 DEF RequestsCarryDays, TypeOK, Idle
<1> QED
  BY <1>8, <1>9, <1>10

LEMMA StepHolds == IInv /\ [Next]_vars => IInv'
<1> SUFFICES ASSUME IInv, [Next]_vars PROVE IInv'
  OBVIOUS
<1>1. CASE UNCHANGED vars
  BY <1>1 DEF vars, IInv, BanInv, TypeOK, StatusAgrees, RequestsCarryDays
<1>2. ASSUME NEW w \in Workers, NEW u \in Users, Check(w, u)
      PROVE  IInv'
  BY <1>2, CheckKeeps
<1>3. ASSUME NEW w \in Workers, Txn(w)
      PROVE  IInv'
  BY <1>3, TxnKeeps
<1>4. ASSUME NEW w \in Workers, abort(w)
      PROVE  IInv'
  BY <1>4 DEF abort, IInv, BanInv, TypeOK, StatusAgrees, RequestsCarryDays, Idle
<1> QED
  BY <1>1, <1>2, <1>3, <1>4 DEF Next

\* For every number of administrators at work: the six statements that write
\* status, ban_count and ban_end_at, each some of them, leave them in agreement.
THEOREM ColumnsAgree == Spec => []StatusAgrees
<1>1. IInv => StatusAgrees
  BY DEF IInv, BanInv
<1> QED
  BY <1>1, InitHolds, StepHolds, PTL DEF Spec
\* For any number of users and overlapping requests every account stays one that
\* the table can hold, and a request keeps the days its check chose.
THEOREM AccountTypesHold == Spec => []TypeOK
<1>1. IInv => TypeOK
  BY DEF IInv, BanInv
<1> QED
  BY <1>1, InitHolds, StepHolds, PTL DEF Spec

-----------------------------------------------------------------------------
(* One request at a time *)

OneAtATime == \A v, w \in Workers : v = w

\* The rows that the ladder can leave.
OnLadder(a) ==
    /\ a.status = "BANNED" => a.ban_count \in 1 .. 3
                              /\ a.ban_end = <<1, 3, 5>>[a.ban_count]
    /\ a.ban_count >= 4 => a.deleted

\* A ban in flight still finds the count it was chosen by.
BansFresh ==
    \A w \in Workers : pending[w].op = "ban" =>
        LET a == account[pending[w].on]
        IN  a.ban_count < 3 /\ pending[w].ban_days = Ladder(a.ban_count)

OneInv == /\ IInv
          /\ \A u \in Users : OnLadder(account[u])
          /\ BansFresh

LEMMA UpdatesOnLadder ==
    ASSUME NEW a \in Accounts, OnLadder(a)
    PROVE  /\ a.ban_count < 3 => OnLadder(admin_ban(a, Ladder(a.ban_count)))
           /\ OnLadder(soft_delete_user(a))
           /\ OnLadder(fourth_ban(a))
           /\ OnLadder(admin_unban(a))
           /\ OnLadder(hard_delete_user(a))
           /\ OnLadder(restore_user_data(a))
<1> USE DEF Accounts, OnLadder, Statuses, None
<1>1. ASSUME a.ban_count < 3
      PROVE  OnLadder(admin_ban(a, Ladder(a.ban_count)))
  <2> DEFINE d == admin_ban(a, Ladder(a.ban_count))
  <2>1. d.ban_count = a.ban_count + 1 /\ d.ban_end = Ladder(a.ban_count)
    BY DEF admin_ban
  <2>2. a.ban_count \in {0, 1, 2}
    BY <1>1
  <2>3. Ladder(0) = 1 /\ Ladder(1) = 3 /\ Ladder(2) = 5
    BY DEF Ladder
  <2>4. d.ban_count \in 1 .. 3 /\ d.ban_end = <<1, 3, 5>>[d.ban_count]
    BY <2>1, <2>2, <2>3
  <2> HIDE DEF d
  <2> QED
    BY <2>4 DEF d
<1>2. OnLadder(soft_delete_user(a))
  BY DEF soft_delete_user
<1>3. OnLadder(fourth_ban(a))
  BY DEF fourth_ban, soft_delete_user
<1>4. OnLadder(admin_unban(a))
  BY DEF admin_unban
<1>5. OnLadder(hard_delete_user(a))
  BY DEF hard_delete_user
<1>6. OnLadder(restore_user_data(a))
  BY DEF restore_user_data
<1> QED
  BY <1>1, <1>2, <1>3, <1>4, <1>5, <1>6

LEMMA OneStepHolds ==
    ASSUME OneAtATime, OneInv, [Next]_vars
    PROVE  OneInv'
<1>1. IInv'
  BY StepHolds DEF OneInv
<1>2. ASSUME NEW w \in Workers, NEW u \in Users, Check(w, u)
      PROVE  OneInv'
  <2>1. PICK op, days : /\ Begin(w, op, u, days)
                        /\ op = "ban" => account[u].ban_count < 3
                                           /\ days = Ladder(account[u].ban_count)
    BY <1>2 DEF Check, admin_user_ban, admin_user_unban, delete_user, purge_user,
                restore_user
  <2>2. account' = account
        /\ pending' = [pending EXCEPT ![w] = [op |-> op, on |-> u, ban_days |-> days]]
    BY <2>1 DEF Begin
  <2>3. BansFresh'
    BY <2>1, <2>2 DEF OneAtATime, BansFresh, OneInv, IInv, BanInv, TypeOK
  <2> QED
    BY <1>1, <2>2, <2>3 DEF OneInv, OnLadder
<1>3. ASSUME NEW w \in Workers, Txn(w)
      PROVE  OneInv'
  <2> DEFINE u == pending[w].on
  <2>1. pending[w] # Idle /\ pending' = [pending EXCEPT ![w] = Idle]
    BY <1>3 DEF Txn, ban_txn, fourth_ban_txn, unban_txn, delete_user_txn,
                purge_user_txn, restore_user_txn, Commit, Idle
  <2>2. u \in Users
    BY <2>1 DEF OneInv, IInv, BanInv, TypeOK, Requests
  <2>3. account[u] \in Accounts /\ OnLadder(account[u])
    BY <2>2 DEF OneInv, IInv, BanInv, TypeOK
  <2>4. PICK row : OnLadder(row) /\ account' = [account EXCEPT ![u] = row]
    <3>1. CASE ban_txn(w)
      BY <3>1, <2>3, UpdatesOnLadder DEF ban_txn, Commit, Found, OneInv, BansFresh
    <3>2. CASE fourth_ban_txn(w)
      BY <3>2, <2>3, UpdatesOnLadder DEF fourth_ban_txn, Commit, Found
    <3>3. CASE unban_txn(w)
      BY <3>3, <2>3, UpdatesOnLadder DEF unban_txn, Commit, Found
    <3>4. CASE delete_user_txn(w)
      BY <3>4, <2>3, UpdatesOnLadder DEF delete_user_txn, Commit, Found
    <3>5. CASE purge_user_txn(w)
      BY <3>5, <2>3, UpdatesOnLadder DEF purge_user_txn, Commit, Found
    <3>6. CASE restore_user_txn(w)
      BY <3>6, <2>3, UpdatesOnLadder DEF restore_user_txn, Commit, Found
    <3> QED
      BY <1>3, <3>1, <3>2, <3>3, <3>4, <3>5, <3>6 DEF Txn
  <2>5. \A v \in Users : OnLadder(account'[v])
    BY <2>4 DEF OneInv, IInv, BanInv, TypeOK
  <2>6. BansFresh'
    BY <2>1 DEF OneAtATime, BansFresh, OneInv, IInv, BanInv, TypeOK, Idle
  <2> QED
    BY <1>1, <2>5, <2>6 DEF OneInv, OnLadder
<1>4. ASSUME NEW w \in Workers, abort(w)
      PROVE  OneInv'
  <2>1. BansFresh'
    BY <1>4 DEF OneAtATime, abort, BansFresh, OneInv, IInv, BanInv, TypeOK, Idle
  <2> QED
    BY <1>1, <1>4, <2>1 DEF OneInv, OnLadder, abort
<1>5. CASE UNCHANGED vars
  BY <1>1, <1>5 DEF vars, OneInv, OnLadder, BansFresh
<1> QED
  BY <1>2, <1>3, <1>4, <1>5 DEF Next

LEMMA OneInitHolds == Init => OneInv
BY InitHolds DEF Init, OneInv, OnLadder, BansFresh, Idle

LEMMA OneInductive ==
    ASSUME OneAtATime
    PROVE  Spec => []OneInv
BY OneInitHolds, OneStepHolds, PTL DEF Spec

\* As long as requests do not overlap, bans last 1, 3 and 5 days (api/admin.py:134),
\* through any unbans, deletions and restorations in between.
THEOREM BansFollowLadder ==
    ASSUME OneAtATime
    PROVE  Spec => []LadderFollowed
<1>1. OneInv => LadderFollowed
  BY DEF OneInv, OnLadder, LadderFollowed
<1> QED
  BY <1>1, OneInductive, PTL

\* As long as requests do not overlap, the fourth ban deletes (api/admin.py:135).
THEOREM FourthBansDelete ==
    ASSUME OneAtATime
    PROVE  Spec => []FourthBanDeletes
<1>1. OneInv => FourthBanDeletes
  BY DEF OneInv, OnLadder, FourthBanDeletes
<1> QED
  BY <1>1, OneInductive, PTL
=============================================================================
