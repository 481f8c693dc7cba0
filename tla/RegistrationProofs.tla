------------------------- MODULE RegistrationProofs -------------------------
(***************************************************************************)
(* Proofs about Registration, for every set of ids, addresses, codes and   *)
(* requests.  Two facts about a request in flight carry the invariants:    *)
(* its address is confirmed once it has passed the mark, and the row it    *)
(* has inserted keeps its address until it is verified.                    *)
(***************************************************************************)
EXTENDS Registration, TLAPS

\* Every step of a request but sending a code follows a confirmation.
RequestsConfirmed ==
    /\ email_verified \subseteq confirmed
    /\ \A w \in Workers : pending[w] # Idle /\ pending[w].at # "send"
          => pending[w].email \in confirmed

\* Until its last statement a registration finds its own row by the address; the
\* accounts whose address is about to change are verified.
RowsAwaited ==
    \A w \in Workers :
        /\ pending[w].at \in Inserted =>
              /\ Registered(pending[w].id)
              /\ \/ accounts[pending[w].id].email = pending[w].email
                 \/ accounts[pending[w].id].is_verified
        /\ At(w, "modify") => LoggedIn(pending[w].id)

IInv == TypeOK /\ RequestsConfirmed /\ EmailsConfirmed
          /\ RowsAwaited /\ UnverifiedWereInterrupted

LEMMA InitHolds == Init => IInv
BY NoneAssumption
   DEF Init, IInv, TypeOK, RequestsConfirmed, EmailsConfirmed, RowsAwaited,
       UnverifiedWereInterrupted, Registered, Idle, At, Inserted

LEMMA Kinds ==
    ASSUME TypeOK, NEW w \in Workers, pending[w].at # "idle"
    PROVE  pending[w] \in Requests /\ pending[w] # Idle
BY DEF TypeOK, Idle

(***************************************************************************)
(* A step that leaves the accounts and the confirmations alone.            *)
(***************************************************************************)

\* Requests that neither wait for a row nor keep one waiting.
Rowless == {"send", "delete_code", "mark", "id_duplicate", "email_duplicate", "insert"}

\* Such a request begins, moves on or ends.
LEMMA RowlessHolds ==
    ASSUME IInv, TypeOK', RequestsConfirmed', NEW w \in Workers,
           UNCHANGED <<accounts, interrupted>>, confirmed \subseteq confirmed',
           \A v \in Workers \ {w} : pending'[v] = pending[v],
           pending'[w].at \in Rowless \cup {"idle"},
           pending[w].at \notin Inserted
    PROVE  IInv'
<1>2. EmailsConfirmed'
  BY DEF IInv, EmailsConfirmed, Registered
<1>3. RowsAwaited'
  BY DEF IInv, RowsAwaited, Rowless, Inserted, At, Registered, LoggedIn
<1>4. UnverifiedWereInterrupted'
  <2> SUFFICES ASSUME NEW i \in Ids, Registered(i)', ~accounts[i].is_verified,
                      i \notin interrupted
               PROVE  \E v \in Workers : pending'[v].at \in Inserted /\ pending'[v].id = i
    BY DEF UnverifiedWereInterrupted
  <2>1. PICK v \in Workers : pending[v].at \in Inserted /\ pending[v].id = i
    BY DEF IInv, UnverifiedWereInterrupted, Registered
  <2> QED BY <2>1
<1> QED BY <1>2, <1>3, <1>4 DEF IInv

(***************************************************************************)
(* Types.                                                                  *)
(***************************************************************************)
LEMMA VerificationTyped ==
    ASSUME TypeOK, NEW w \in Workers, Verification(w)
    PROVE  TypeOK'
<1>1. ASSUME NEW e \in Emails, NEW c \in Codes, send_verification_email(w, e, c)
      PROVE  TypeOK'
  BY <1>1 DEF send_verification_email, Begins, TypeOK, Requests
<1>2. ASSUME NEW e \in Emails, NEW c \in Codes, check_verification_code(w, e, c)
      PROVE  TypeOK'
  BY <1>2 DEF check_verification_code, Begins, TypeOK, Requests
<1>3. CASE send(w)
  <2>1. pending[w] \in [at : {"send"}, email : Emails, code : Codes]
    BY <1>3, Kinds DEF send, At, Requests, Inserted
  <2> QED BY <1>3, <2>1 DEF send, Ends, TypeOK
<1>4. CASE delete_code(w)
  <2>1. pending[w] \in [at : {"delete_code", "mark"}, email : Emails]
    BY <1>4, Kinds DEF delete_code, At, Requests, Inserted
  <2>2. [pending[w] EXCEPT !.at = "mark"] \in Requests
    BY <2>1 DEF Requests
  <2> QED BY <1>4, <2>1, <2>2 DEF delete_code, Goes, TypeOK
<1>5. CASE mark_verified(w)
  <2>1. pending[w].email \in Emails
    BY <1>5, Kinds DEF mark_verified, At, Requests
  <2> QED BY <1>5, <2>1 DEF mark_verified, Ends, TypeOK
<1> QED BY <1>1, <1>2, <1>3, <1>4, <1>5 DEF Verification

\* The requests about an account.
AccountRequests ==
    [at : {"id_duplicate", "email_duplicate", "insert", "modify"} \cup Inserted,
     id : Ids, email : Emails]

LEMMA AccountKinds ==
    ASSUME TypeOK, NEW w \in Workers,
           pending[w].at \in {"id_duplicate", "email_duplicate", "insert", "modify"}
                               \cup Inserted
    PROVE  pending[w] \in AccountRequests
BY Kinds DEF Requests, AccountRequests, Inserted

LEMMA AccountGoes ==
    ASSUME TypeOK, NEW w \in Workers, pending[w] \in AccountRequests,
           NEW call \in {"email_duplicate", "insert"} \cup Inserted, Goes(w, call)
    PROVE  pending' \in [Workers -> Requests \cup {Idle}]
<1>1. [pending[w] EXCEPT !.at = call] \in AccountRequests
  BY DEF AccountRequests, Inserted
<1> QED BY <1>1 DEF Goes, TypeOK, Requests, AccountRequests

LEMMA RegisterTyped ==
    ASSUME TypeOK, NEW w \in Workers, Register(w)
    PROVE  TypeOK'
<1>1. ASSUME NEW i \in Ids, NEW e \in Emails, register_user(w, i, e)
      PROVE  TypeOK'
  BY <1>1 DEF register_user, Begins, TypeOK, Requests
<1>2. CASE id_duplicate(w)
  BY <1>2, AccountKinds, AccountGoes DEF id_duplicate, At, TypeOK
<1>3. CASE email_duplicate(w)
  BY <1>3, AccountKinds, AccountGoes DEF email_duplicate, At, TypeOK
<1>4. CASE insert_user_basic_info(w)
  <2>1. pending[w] \in AccountRequests
    BY <1>4, AccountKinds DEF insert_user_basic_info, At
  <2>2. [email |-> pending[w].email, is_verified |-> FALSE] \in Rows
    BY <2>1 DEF AccountRequests, Rows
  <2>3. pending' \in [Workers -> Requests \cup {Idle}]
    BY <1>4, <2>1, AccountGoes DEF insert_user_basic_info, Inserted
  <2> QED BY <1>4, <2>2, <2>3 DEF insert_user_basic_info, TypeOK
<1>5. CASE delete_mark(w)
  BY <1>5, AccountKinds, AccountGoes DEF delete_mark, At, TypeOK, Inserted
<1>6. CASE update_is_verified_true(w)
  <2>1. \A i \in Ids : Registered(i) =>
            [accounts[i] EXCEPT !.is_verified = TRUE] \in Rows
    BY DEF Registered, TypeOK, Rows
  <2> QED BY <1>6, <2>1 DEF update_is_verified_true, Ends, TypeOK
<1> QED BY <1>1, <1>2, <1>3, <1>4, <1>5, <1>6 DEF Register

LEMMA ModifyTyped ==
    ASSUME TypeOK, RowsAwaited, NEW w \in Workers, Modify(w)
    PROVE  TypeOK'
<1>1. ASSUME NEW i \in Ids, NEW e \in Emails, modify_email(w, i, e)
      PROVE  TypeOK'
  BY <1>1 DEF modify_email, Begins, TypeOK, Requests
<1>2. CASE userEmail_modify(w)
  <2>1. pending[w] \in AccountRequests
    BY <1>2, AccountKinds DEF userEmail_modify, At
  <2>2. accounts[pending[w].id] \in Rows
    BY <1>2, <2>1 DEF RowsAwaited, userEmail_modify, LoggedIn, Registered, TypeOK,
                      AccountRequests
  <2>3. [accounts[pending[w].id] EXCEPT !.email = pending[w].email] \in Rows
    BY <2>1, <2>2 DEF Rows, AccountRequests
  <2>4. accounts' \in [Ids -> Rows \cup {NoAccount}]
    BY <1>2, <2>1, <2>3 DEF userEmail_modify, TypeOK, AccountRequests
  <2> QED BY <1>2, <2>4 DEF userEmail_modify, Ends, TypeOK
<1> QED BY <1>1, <1>2 DEF Modify

LEMMA StepTyped ==
    ASSUME TypeOK, RowsAwaited, [Next]_vars
    PROVE  TypeOK'
<1>1. ASSUME NEW w \in Workers, abort(w)
      PROVE  TypeOK'
  <2>1. pending[w].at \in Inserted => pending[w].id \in Ids
    BY AccountKinds DEF AccountRequests
  <2> QED BY <1>1, <2>1 DEF abort, Ends, TypeOK
<1>2. ASSUME NEW e \in Emails, expire_code(e) \/ expire_verified(e)
      PROVE  TypeOK'
  BY <1>2 DEF expire_code, expire_verified, TypeOK
<1>3. CASE UNCHANGED vars
  BY <1>3 DEF vars, TypeOK
<1> QED BY <1>1, <1>2, <1>3, VerificationTyped, RegisterTyped, ModifyTyped DEF Next
-----------------------------------------------------------------------------
(***************************************************************************)
(* Steps of requests that write no row.                                    *)
(***************************************************************************)
LEMMA BeginsAt ==
    ASSUME TypeOK, NEW w \in Workers, NEW request, Begins(w, request)
    PROVE  /\ pending[w].at \notin Inserted
           /\ pending'[w] = request
           /\ \A v \in Workers \ {w} : pending'[v] = pending[v]
BY DEF Begins, TypeOK, Idle, Inserted

LEMMA EndsIdle ==
    ASSUME TypeOK, NEW w \in Workers, Ends(w)
    PROVE  /\ pending'[w] = Idle /\ pending'[w].at = "idle"
           /\ \A v \in Workers \ {w} : pending'[v] = pending[v]
BY DEF Ends, TypeOK, Idle

LEMMA VerificationHolds ==
    ASSUME IInv, TypeOK', NEW w \in Workers, Verification(w)
    PROVE  IInv'
<1>0. TypeOK /\ RequestsConfirmed
  BY DEF IInv
<1>1. ASSUME NEW e \in Emails, NEW c \in Codes, send_verification_email(w, e, c)
      PROVE  IInv'
  <2> DEFINE request == [at |-> "send", email |-> e, code |-> c]
  <2>1. /\ pending[w].at \notin Inserted /\ pending'[w] = request
        /\ \A v \in Workers \ {w} : pending'[v] = pending[v]
    BY <1>0, <1>1, BeginsAt DEF send_verification_email
  <2>2. UNCHANGED <<accounts, email_verified, confirmed, interrupted>>
    BY <1>1 DEF send_verification_email
  <2>3. RequestsConfirmed'
    BY <1>0, <2>1, <2>2 DEF RequestsConfirmed
  <2> QED BY <2>1, <2>2, <2>3, RowlessHolds DEF Rowless
<1>2. ASSUME NEW e \in Emails, NEW c \in Codes, check_verification_code(w, e, c)
      PROVE  IInv'
  <2> DEFINE request == [at |-> "delete_code", email |-> e]
  <2>1. /\ pending[w].at \notin Inserted /\ pending'[w] = request
        /\ \A v \in Workers \ {w} : pending'[v] = pending[v]
    BY <1>0, <1>2, BeginsAt DEF check_verification_code
  <2>2. /\ UNCHANGED <<accounts, email_verified, interrupted>>
        /\ confirmed' = confirmed \cup {e}
    BY <1>2 DEF check_verification_code
  <2>3. RequestsConfirmed'
    BY <1>0, <2>1, <2>2 DEF RequestsConfirmed
  <2> QED BY <2>1, <2>2, <2>3, RowlessHolds DEF Rowless
<1>3. CASE send(w)
  <2>1. /\ pending[w].at \notin Inserted /\ pending'[w] = Idle /\ pending'[w].at = "idle"
        /\ \A v \in Workers \ {w} : pending'[v] = pending[v]
    BY <1>0, <1>3, EndsIdle DEF send, At, Inserted
  <2>2. UNCHANGED <<accounts, email_verified, confirmed, interrupted>>
    BY <1>3 DEF send
  <2>3. RequestsConfirmed'
    BY <1>0, <2>1, <2>2 DEF RequestsConfirmed
  <2> QED BY <2>1, <2>2, <2>3, RowlessHolds
<1>4. CASE delete_code(w)
  <2>1. pending[w] \in [at : {"delete_code", "mark"}, email : Emails]
    BY <1>0, <1>4, Kinds DEF delete_code, At, Requests, Inserted
  <2>2. /\ pending[w].at \notin Inserted
        /\ pending'[w].at = "mark" /\ pending'[w].email = pending[w].email
        /\ \A v \in Workers \ {w} : pending'[v] = pending[v]
    BY <1>0, <1>4, <2>1 DEF delete_code, Goes, At, TypeOK, Inserted
  <2>3. UNCHANGED <<accounts, email_verified, confirmed, interrupted>>
    BY <1>4 DEF delete_code
  <2>4. pending[w] # Idle /\ pending[w].at # "send"
    BY <1>0, <1>4, Kinds DEF delete_code, At
  <2>5. RequestsConfirmed'
    BY <1>0, <2>2, <2>3, <2>4 DEF RequestsConfirmed
  <2> QED BY <2>2, <2>3, <2>5, RowlessHolds DEF Rowless
<1>5. CASE mark_verified(w)
  <2>1. /\ pending[w].at \notin Inserted /\ pending'[w] = Idle /\ pending'[w].at = "idle"
        /\ \A v \in Workers \ {w} : pending'[v] = pending[v]
    BY <1>0, <1>5, EndsIdle DEF mark_verified, At, Inserted
  <2>2. /\ UNCHANGED <<accounts, confirmed, interrupted>>
        /\ email_verified' = email_verified \cup {pending[w].email}
    BY <1>5 DEF mark_verified
  <2>3. pending[w] # Idle /\ pending[w].at # "send"
    BY <1>0, <1>5, Kinds DEF mark_verified, At
  <2>4. RequestsConfirmed'
    BY <1>0, <2>1, <2>2, <2>3 DEF RequestsConfirmed
  <2> QED BY <2>1, <2>2, <2>4, RowlessHolds
<1> QED BY <1>1, <1>2, <1>3, <1>4, <1>5 DEF Verification

\* A registration moves on to its next call.
LEMMA AccountMoves ==
    ASSUME TypeOK, NEW w \in Workers, pending[w] \in AccountRequests,
           NEW call, Goes(w, call)
    PROVE  /\ pending'[w].at = call
           /\ pending'[w].id = pending[w].id /\ pending'[w].email = pending[w].email
           /\ \A v \in Workers \ {w} : pending'[v] = pending[v]
BY DEF Goes, TypeOK, AccountRequests

(***************************************************************************)
(* Registrations and changes of the address.                               *)
(***************************************************************************)
LEMMA ConfirmedMoves ==
    ASSUME TypeOK, RequestsConfirmed, NEW w \in Workers,
           pending[w] \in AccountRequests,
           NEW call, Goes(w, call),
           email_verified' \subseteq email_verified, confirmed' = confirmed
    PROVE  RequestsConfirmed'
<1>1. pending[w] # Idle /\ pending[w].at # "send"
  BY DEF AccountRequests, Inserted, Idle
<1> QED BY <1>1, AccountMoves DEF RequestsConfirmed

LEMMA ConfirmedEnds ==
    ASSUME TypeOK, RequestsConfirmed, NEW w \in Workers, Ends(w),
           UNCHANGED <<email_verified, confirmed>>
    PROVE  RequestsConfirmed'
BY EndsIdle DEF RequestsConfirmed

LEMMA RegisterHolds ==
    ASSUME IInv, TypeOK', NEW w \in Workers, Register(w)
    PROVE  IInv'
<1>0. TypeOK /\ RequestsConfirmed
  BY DEF IInv
<1>1. ASSUME NEW i \in Ids, NEW e \in Emails, register_user(w, i, e)
      PROVE  IInv'
  <2> DEFINE request == [at |-> "id_duplicate", id |-> i, email |-> e]
  <2>1. /\ pending[w].at \notin Inserted /\ pending'[w] = request
        /\ \A v \in Workers \ {w} : pending'[v] = pending[v]
    BY <1>0, <1>1, BeginsAt DEF register_user
  <2>2. /\ UNCHANGED <<accounts, email_verified, confirmed, interrupted>>
        /\ e \in email_verified
    BY <1>1 DEF register_user
  <2>3. RequestsConfirmed'
    BY <1>0, <2>1, <2>2 DEF RequestsConfirmed
  <2> QED BY <2>1, <2>2, <2>3, RowlessHolds DEF Rowless
<1>2. CASE id_duplicate(w)
  <2>1. pending[w] \in AccountRequests /\ pending[w].at \notin Inserted
    BY <1>0, <1>2, AccountKinds DEF id_duplicate, At, Inserted
  <2>2. UNCHANGED <<accounts, email_verified, confirmed, interrupted>>
    BY <1>2 DEF id_duplicate
  <2>3. Goes(w, "email_duplicate")
    BY <1>2 DEF id_duplicate
  <2>4. RequestsConfirmed'
    BY <1>0, <2>1, <2>2, <2>3, ConfirmedMoves
  <2>5. /\ pending'[w].at = "email_duplicate"
        /\ \A v \in Workers \ {w} : pending'[v] = pending[v]
    BY <1>0, <2>1, <2>3, AccountMoves
  <2> QED BY <2>1, <2>2, <2>4, <2>5, RowlessHolds DEF Rowless
<1>3. CASE email_duplicate(w)
  <2>1. pending[w] \in AccountRequests /\ pending[w].at \notin Inserted
    BY <1>0, <1>3, AccountKinds DEF email_duplicate, At, Inserted
  <2>2. UNCHANGED <<accounts, email_verified, confirmed, interrupted>>
    BY <1>3 DEF email_duplicate
  <2>3. Goes(w, "insert")
    BY <1>3 DEF email_duplicate
  <2>4. RequestsConfirmed'
    BY <1>0, <2>1, <2>2, <2>3, ConfirmedMoves
  <2>5. /\ pending'[w].at = "insert"
        /\ \A v \in Workers \ {w} : pending'[v] = pending[v]
    BY <1>0, <2>1, <2>3, AccountMoves
  <2> QED BY <2>1, <2>2, <2>4, <2>5, RowlessHolds DEF Rowless
<1>4. CASE insert_user_basic_info(w)
  <2> DEFINE i == pending[w].id
             e == pending[w].email
  <2>1. /\ pending[w] \in AccountRequests /\ pending[w].at = "insert"
        /\ Goes(w, "delete_mark")
        /\ ~Registered(i)
        /\ UNCHANGED <<email_verified, confirmed, interrupted>>
    BY <1>0, <1>4, AccountKinds DEF insert_user_basic_info, At
  <2>2. i \in Ids /\ e \in confirmed /\ e \in Emails
    BY <1>0, <2>1 DEF AccountRequests, RequestsConfirmed, Idle
  <2>3. /\ accounts'[i] = [email |-> e, is_verified |-> FALSE]
        /\ \A j \in Ids \ {i} : accounts'[j] = accounts[j]
    BY <1>0, <1>4, <2>2 DEF insert_user_basic_info, TypeOK
  <2>4. /\ pending'[w].at = "delete_mark" /\ pending'[w].id = i
        /\ pending'[w].email = e
        /\ \A v \in Workers \ {w} : pending'[v] = pending[v]
    BY <1>0, <2>1, AccountMoves
  <2>5. RequestsConfirmed'
    BY <1>0, <2>1, ConfirmedMoves
  <2>6. EmailsConfirmed'
    BY <2>1, <2>2, <2>3 DEF IInv, EmailsConfirmed, Registered
  <2>7. accounts'[i] # NoAccount
    <3>1. [email |-> e, is_verified |-> FALSE] \in Rows
      BY <2>2 DEF Rows
    <3> QED BY <2>3, <3>1, NoneAssumption
  <2>8. \A v \in Workers \ {w} : pending[v].at \in Inserted \cup {"modify"}
            => pending[v].id \in Ids \ {i}
    BY <1>0, <2>1, AccountKinds
       DEF IInv, RowsAwaited, At, LoggedIn, AccountRequests
  <2>9. RowsAwaited'
    BY <2>2, <2>3, <2>4, <2>7, <2>8
       DEF IInv, RowsAwaited, At, LoggedIn, Registered, Inserted
  <2>10. UnverifiedWereInterrupted'
    <3> SUFFICES ASSUME NEW j \in Ids, Registered(j)', ~accounts'[j].is_verified,
                        j \notin interrupted
                 PROVE  \E v \in Workers : pending'[v].at \in Inserted /\ pending'[v].id = j
      BY <2>1 DEF UnverifiedWereInterrupted
    <3>1. CASE j = i
      BY <3>1, <2>4 DEF Inserted
    <3>2. CASE j # i
      <4>1. PICK v \in Workers : pending[v].at \in Inserted /\ pending[v].id = j
        BY <3>2, <2>3 DEF IInv, UnverifiedWereInterrupted, Registered
      <4> QED BY <4>1, <2>1, <2>4 DEF Inserted
    <3> QED BY <3>1, <3>2
  <2> QED BY <2>5, <2>6, <2>9, <2>10 DEF IInv
<1>5. CASE delete_mark(w)
  <2>1. /\ pending[w] \in AccountRequests /\ pending[w].at = "delete_mark"
        /\ Goes(w, "verify")
        /\ email_verified' \subseteq email_verified
        /\ UNCHANGED <<accounts, confirmed, interrupted>>
    BY <1>0, <1>5, AccountKinds DEF delete_mark, At, Inserted
  <2>2. /\ pending'[w].at = "verify" /\ pending'[w].id = pending[w].id
        /\ pending'[w].email = pending[w].email
        /\ \A v \in Workers \ {w} : pending'[v] = pending[v]
    BY <1>0, <2>1, AccountMoves
  <2>3. RequestsConfirmed'
    BY <1>0, <2>1, ConfirmedMoves
  <2>4. EmailsConfirmed'
    BY <2>1 DEF IInv, EmailsConfirmed, Registered
  <2>5. RowsAwaited'
    BY <2>1, <2>2 DEF IInv, RowsAwaited, At, LoggedIn, Registered, Inserted
  <2>6. UnverifiedWereInterrupted'
    BY <2>1, <2>2 DEF IInv, UnverifiedWereInterrupted, Registered, Inserted
  <2> QED BY <2>3, <2>4, <2>5, <2>6 DEF IInv
<1>6. CASE update_is_verified_true(w)
  <2> DEFINE e == pending[w].email
  <2>1. /\ pending[w].at = "verify" /\ Ends(w)
        /\ UNCHANGED <<email_verified, confirmed, interrupted>>
    BY <1>6 DEF update_is_verified_true, At
  <2>2. /\ pending'[w] = Idle /\ pending'[w].at = "idle"
        /\ \A v \in Workers \ {w} : pending'[v] = pending[v]
    BY <1>0, <2>1, EndsIdle
  <2>3. RequestsConfirmed'
    BY <1>0, <2>1, ConfirmedEnds
  <2>4. \A j \in Ids : Registered(j)' <=> Registered(j)
    BY <1>0, <1>6, NoneAssumption
       DEF update_is_verified_true, IInv, TypeOK, Registered, Rows
  <2>5. \A j \in Ids : Registered(j) =>
            /\ accounts'[j].email = accounts[j].email
            /\ accounts'[j].is_verified \/ accounts'[j] = accounts[j]
            /\ accounts[j].is_verified => accounts'[j].is_verified
            /\ accounts[j].email = e => accounts'[j].is_verified
    BY <1>0, <1>6 DEF update_is_verified_true, IInv, TypeOK, Registered, Rows
  <2>6. EmailsConfirmed'
    BY <2>1, <2>4, <2>5 DEF IInv, EmailsConfirmed
  <2>7. \A v \in Workers : pending[v].at \in Inserted \cup {"modify"}
            => pending[v].id \in Ids
    BY <1>0, AccountKinds DEF AccountRequests
  <2>8. RowsAwaited'
    BY <2>2, <2>4, <2>5, <2>7 DEF IInv, RowsAwaited, At, LoggedIn, Inserted
  <2>9. UnverifiedWereInterrupted'
    <3> SUFFICES ASSUME NEW j \in Ids, Registered(j), ~accounts'[j].is_verified,
                        j \notin interrupted
                 PROVE  \E v \in Workers : pending'[v].at \in Inserted /\ pending'[v].id = j
      BY <2>1, <2>4 DEF UnverifiedWereInterrupted
    <3>1. ~accounts[j].is_verified /\ accounts[j].email # e
      BY <2>5
    <3>2. PICK v \in Workers : pending[v].at \in Inserted /\ pending[v].id = j
      BY <3>1 DEF IInv, UnverifiedWereInterrupted
    <3>3. v # w
      BY <3>1, <3>2 DEF IInv, RowsAwaited
    <3> QED BY <3>2, <3>3, <2>2
  <2> QED BY <2>3, <2>6, <2>8, <2>9 DEF IInv
<1> QED BY <1>1, <1>2, <1>3, <1>4, <1>5, <1>6 DEF Register

LEMMA ModifyHolds ==
    ASSUME IInv, TypeOK', NEW w \in Workers, Modify(w)
    PROVE  IInv'
<1>0. TypeOK /\ RequestsConfirmed
  BY DEF IInv
<1>1. ASSUME NEW i \in Ids, NEW e \in Emails, modify_email(w, i, e)
      PROVE  IInv'
  <2> DEFINE request == [at |-> "modify", id |-> i, email |-> e]
  <2>1. /\ pending[w].at \notin Inserted /\ pending'[w] = request
        /\ \A v \in Workers \ {w} : pending'[v] = pending[v]
    BY <1>0, <1>1, BeginsAt DEF modify_email
  <2>2. /\ UNCHANGED <<accounts, email_verified, confirmed, interrupted>>
        /\ e \in email_verified /\ LoggedIn(i)
    BY <1>1 DEF modify_email
  <2>3. RequestsConfirmed'
    BY <1>0, <2>1, <2>2 DEF RequestsConfirmed
  <2>4. EmailsConfirmed'
    BY <2>2 DEF IInv, EmailsConfirmed, Registered
  <2>5. RowsAwaited'
    BY <2>1, <2>2 DEF IInv, RowsAwaited, At, LoggedIn, Registered, Inserted
  <2>6. UnverifiedWereInterrupted'
    BY <2>1, <2>2 DEF IInv, UnverifiedWereInterrupted, Registered, Inserted
  <2> QED BY <2>3, <2>4, <2>5, <2>6 DEF IInv
<1>2. CASE userEmail_modify(w)
  <2> DEFINE i == pending[w].id
             e == pending[w].email
  <2>1. /\ pending[w] \in AccountRequests /\ pending[w].at = "modify" /\ Ends(w)
        /\ UNCHANGED <<email_verified, confirmed, interrupted>>
    BY <1>0, <1>2, AccountKinds DEF userEmail_modify, At
  <2>2. i \in Ids /\ e \in confirmed
    BY <1>0, <2>1 DEF AccountRequests, RequestsConfirmed, Idle
  <2>3. Registered(i) /\ accounts[i].is_verified
    BY <2>1 DEF IInv, RowsAwaited, At, LoggedIn
  <2>4. accounts[i] \in Rows
    BY <1>0, <2>2, <2>3 DEF TypeOK, Registered
  <2>5. /\ accounts'[i].email = e /\ accounts'[i].is_verified /\ accounts'[i] \in Rows
        /\ \A j \in Ids \ {i} : accounts'[j] = accounts[j]
    BY <1>0, <1>2, <2>2, <2>3, <2>4 DEF userEmail_modify, TypeOK, Rows, AccountRequests
  <2>6. \A j \in Ids : Registered(j)' <=> Registered(j)
    BY <2>3, <2>5, NoneAssumption DEF Registered
  <2>7. /\ pending'[w] = Idle /\ pending'[w].at = "idle"
        /\ \A v \in Workers \ {w} : pending'[v] = pending[v]
    BY <1>0, <2>1, EndsIdle
  <2>8. RequestsConfirmed'
    BY <1>0, <2>1, ConfirmedEnds
  <2>9. EmailsConfirmed'
    BY <2>1, <2>2, <2>5, <2>6 DEF IInv, EmailsConfirmed
  <2>10. \A v \in Workers : pending[v].at \in Inserted \cup {"modify"}
            => pending[v].id \in Ids
    BY <1>0, AccountKinds DEF AccountRequests
  <2>11. RowsAwaited'
    BY <2>5, <2>6, <2>7, <2>10 DEF IInv, RowsAwaited, At, LoggedIn, Inserted
  <2>12. UnverifiedWereInterrupted'
    <3> SUFFICES ASSUME NEW j \in Ids, Registered(j), ~accounts'[j].is_verified,
                        j \notin interrupted
                 PROVE  \E v \in Workers : pending'[v].at \in Inserted /\ pending'[v].id = j
      BY <2>1, <2>6 DEF UnverifiedWereInterrupted
    <3>1. PICK v \in Workers : pending[v].at \in Inserted /\ pending[v].id = j
      BY <2>5 DEF IInv, UnverifiedWereInterrupted
    <3> QED BY <3>1, <2>1, <2>7 DEF Inserted
  <2> QED BY <2>8, <2>9, <2>11, <2>12 DEF IInv
<1> QED BY <1>1, <1>2 DEF Modify

(***************************************************************************)
(* Interruptions and expiry.                                               *)
(***************************************************************************)
LEMMA AbortHolds ==
    ASSUME IInv, TypeOK', NEW w \in Workers, abort(w)
    PROVE  IInv'
<1>1. /\ pending'[w] = Idle /\ pending'[w].at = "idle"
      /\ \A v \in Workers \ {w} : pending'[v] = pending[v]
  BY EndsIdle DEF abort, IInv
<1>2. /\ UNCHANGED <<accounts, email_verified, confirmed>>
      /\ interrupted \subseteq interrupted'
      /\ pending[w].at \in Inserted => pending[w].id \in interrupted'
  BY DEF abort
<1>3. RequestsConfirmed'
  BY <1>2, ConfirmedEnds DEF abort, IInv
<1>4. EmailsConfirmed'
  BY <1>2 DEF IInv, EmailsConfirmed, Registered
<1>5. RowsAwaited'
  BY <1>1, <1>2 DEF IInv, RowsAwaited, At, LoggedIn, Registered, Inserted
<1>6. UnverifiedWereInterrupted'
  <2> SUFFICES ASSUME NEW i \in Ids, Registered(i), ~accounts[i].is_verified,
                      i \notin interrupted'
               PROVE  \E v \in Workers : pending'[v].at \in Inserted /\ pending'[v].id = i
    BY <1>2 DEF UnverifiedWereInterrupted, Registered
  <2>1. PICK v \in Workers : pending[v].at \in Inserted /\ pending[v].id = i
    BY <1>2 DEF IInv, UnverifiedWereInterrupted
  <2> QED BY <2>1, <1>1, <1>2
<1> QED BY <1>3, <1>4, <1>5, <1>6 DEF IInv

LEMMA ExpiryHolds ==
    ASSUME IInv, TypeOK', NEW e \in Emails, expire_code(e) \/ expire_verified(e)
    PROVE  IInv'
<1>1. /\ UNCHANGED <<accounts, pending, confirmed, interrupted>>
      /\ email_verified' \subseteq email_verified
  BY DEF expire_code, expire_verified
<1> QED BY <1>1 DEF IInv, RequestsConfirmed, EmailsConfirmed, RowsAwaited,
                    UnverifiedWereInterrupted, At, LoggedIn, Registered

LEMMA StepHolds == IInv /\ [Next]_vars => IInv'
<1> SUFFICES ASSUME IInv, [Next]_vars PROVE IInv'
  OBVIOUS
<1>1. TypeOK'
  BY StepTyped DEF IInv
<1>2. CASE UNCHANGED vars
  BY <1>2 DEF vars, IInv, TypeOK, RequestsConfirmed, EmailsConfirmed, RowsAwaited,
              UnverifiedWereInterrupted, At, LoggedIn, Registered
<1> QED BY <1>1, <1>2, VerificationHolds, RegisterHolds, ModifyHolds, AbortHolds,
           ExpiryHolds DEF Next
-----------------------------------------------------------------------------
(* Theorems *)

LEMMA Invariant == Spec => []IInv
BY InitHolds, StepHolds, PTL DEF Spec

\* Rows, keys and requests keep their kinds, for any number of each.
THEOREM RegistrationTyped == Spec => []TypeOK
<1>1. IInv => TypeOK
  BY DEF IInv
<1> QED BY <1>1, Invariant, PTL

\* Whatever overlaps, expires or stops: an account's address was confirmed.
THEOREM AddressesConfirmed == Spec => []EmailsConfirmed
<1>1. IInv => EmailsConfirmed
  BY DEF IInv
<1> QED BY <1>1, Invariant, PTL

\* Only an interrupted registration leaves an account that cannot log in.
THEOREM RegistrationsComplete == Spec => []UnverifiedWereInterrupted
<1>1. IInv => UnverifiedWereInterrupted
  BY DEF IInv
<1> QED BY <1>1, Invariant, PTL
=============================================================================
