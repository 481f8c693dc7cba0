---------------------------- MODULE Registration ----------------------------
(***************************************************************************)
(* Confirming an email address, registering, and changing the address.     *)
(* Two keys in Redis and the rows of the table user are read and written   *)
(* by calls of their own: only the last of them is in a transaction, so at *)
(* every await other requests run, a key expires or the server stops.      *)
(*                                                                         *)
(* A key may expire at any moment: its 5 or 30 minutes are not counted.    *)
(* user.id is UNIQUE, user.email is not.                                   *)
(***************************************************************************)
EXTENDS Naturals

CONSTANTS Ids, Emails, Codes, Workers,
          NoAccount, NoCode

Rows == [email : Emails, is_verified : BOOLEAN]

ASSUME NoneAssumption == NoAccount \notin Rows /\ NoCode \notin Codes

VARIABLES
    accounts,       \* the row of each id, or NoAccount
    email_auth,     \* the code stored for each email, or NoCode
    email_verified, \* the emails that hold the 30-minute mark
    inbox,          \* the codes mailed to each email
    pending,        \* the request of each worker, before its next call
    confirmed,      \* history: the emails whose code was given back
    interrupted     \* history: the ids whose registration stopped after its insert

vars == <<accounts, email_auth, email_verified, inbox, pending, confirmed, interrupted>>

Registered(i) == accounts[i] # NoAccount

Idle == [at |-> "idle"]

Begins(w, request) ==
    /\ pending[w] = Idle
    /\ pending' = [pending EXCEPT ![w] = request]

At(w, call) == pending[w].at = call
Goes(w, call) == pending' = [pending EXCEPT ![w].at = call]
Ends(w) == pending' = [pending EXCEPT ![w] = Idle]
-----------------------------------------------------------------------------
(* The code *)

send_verification_email(w, e, c) ==
    /\ Begins(w, [at |-> "send", email |-> e, code |-> c])
    /\ email_auth' = [email_auth EXCEPT ![e] = c]
    /\ UNCHANGED <<accounts, email_verified, inbox, confirmed, interrupted>>

\* A mail that cannot be sent ends the request: see abort.
send(w) ==
    /\ At(w, "send") /\ Ends(w)
    /\ inbox' = [inbox EXCEPT ![pending[w].email] = @ \cup {pending[w].code}]
    /\ UNCHANGED <<accounts, email_auth, email_verified, confirmed, interrupted>>

\* A user gives back a code from the inbox, an outdated one perhaps.
check_verification_code(w, e, c) ==
    /\ c \in inbox[e] /\ email_auth[e] = c
    /\ Begins(w, [at |-> "delete_code", email |-> e])
    /\ confirmed' = confirmed \cup {e}
    /\ UNCHANGED <<accounts, email_auth, email_verified, inbox, interrupted>>

\* Whatever code is there by now.
delete_code(w) ==
    /\ At(w, "delete_code") /\ Goes(w, "mark")
    /\ email_auth' = [email_auth EXCEPT ![pending[w].email] = NoCode]
    /\ UNCHANGED <<accounts, email_verified, inbox, confirmed, interrupted>>

mark_verified(w) ==
    /\ At(w, "mark") /\ Ends(w)
    /\ email_verified' = email_verified \cup {pending[w].email}
    /\ UNCHANGED <<accounts, email_auth, inbox, confirmed, interrupted>>

expire_code(e) ==
    /\ email_auth[e] # NoCode
    /\ email_auth' = [email_auth EXCEPT ![e] = NoCode]
    /\ UNCHANGED <<accounts, email_verified, inbox, pending, confirmed, interrupted>>

expire_verified(e) ==
    /\ e \in email_verified
    /\ email_verified' = email_verified \ {e}
    /\ UNCHANGED <<accounts, email_auth, inbox, pending, confirmed, interrupted>>
-----------------------------------------------------------------------------
(* Registration *)

register_user(w, i, e) ==
    /\ e \in email_verified
    /\ Begins(w, [at |-> "id_duplicate", id |-> i, email |-> e])
    /\ UNCHANGED <<accounts, email_auth, email_verified, inbox, confirmed, interrupted>>

id_duplicate(w) ==
    /\ At(w, "id_duplicate") /\ ~Registered(pending[w].id)
    /\ Goes(w, "email_duplicate")
    /\ UNCHANGED <<accounts, email_auth, email_verified, inbox, confirmed, interrupted>>

EmailTaken(e) == \E i \in Ids : Registered(i) /\ accounts[i].email = e

email_duplicate(w) ==
    /\ At(w, "email_duplicate") /\ ~EmailTaken(pending[w].email)
    /\ Goes(w, "insert")
    /\ UNCHANGED <<accounts, email_auth, email_verified, inbox, confirmed, interrupted>>

\* Mutant: the column has no default.
insert_user_no_default(w) ==
    /\ At(w, "insert") /\ ~Registered(pending[w].id)
    /\ accounts' = [accounts EXCEPT ![pending[w].id] = [email |-> pending[w].email]]
    /\ Goes(w, "delete_mark")
    /\ UNCHANGED <<email_auth, email_verified, inbox, confirmed, interrupted>>

\* is_verified is FALSE by default.
insert_user_basic_info(w) ==
    /\ At(w, "insert") /\ ~Registered(pending[w].id)
    /\ accounts' = [accounts EXCEPT ![pending[w].id] =
                        [email |-> pending[w].email, is_verified |-> FALSE]]
    /\ Goes(w, "delete_mark")
    /\ UNCHANGED <<email_auth, email_verified, inbox, confirmed, interrupted>>

delete_mark(w) ==
    /\ At(w, "delete_mark") /\ Goes(w, "verify")
    /\ email_verified' = email_verified \ {pending[w].email}
    /\ UNCHANGED <<accounts, email_auth, inbox, confirmed, interrupted>>

\* WHERE email = the address: every row that has it.
update_is_verified_true(w) ==
    /\ At(w, "verify") /\ Ends(w)
    /\ accounts' = [i \in Ids |->
                      IF Registered(i) /\ accounts[i].email = pending[w].email
                      THEN [accounts[i] EXCEPT !.is_verified = TRUE] ELSE accounts[i]]
    /\ UNCHANGED <<email_auth, email_verified, inbox, confirmed, interrupted>>
-----------------------------------------------------------------------------
(* Changing the address *)

\* login refuses a user whose is_verified is FALSE.
LoggedIn(i) == Registered(i) /\ accounts[i].is_verified

\* Mutant: login does not look at is_verified.
modify_email_unverified(w, i, e) ==
    /\ Registered(i) /\ e \in email_verified
    /\ Begins(w, [at |-> "modify", id |-> i, email |-> e])
    /\ UNCHANGED <<accounts, email_auth, email_verified, inbox, confirmed, interrupted>>

\* Mutant: the new address need not be confirmed.
modify_email_unmarked(w, i, e) ==
    /\ LoggedIn(i)
    /\ Begins(w, [at |-> "modify", id |-> i, email |-> e])
    /\ UNCHANGED <<accounts, email_auth, email_verified, inbox, confirmed, interrupted>>

\* The result of email_duplicate is not awaited, so it is never None and the
\* request goes on whether the address is taken or not.
modify_email(w, i, e) ==
    /\ LoggedIn(i) /\ e \in email_verified
    /\ Begins(w, [at |-> "modify", id |-> i, email |-> e])
    /\ UNCHANGED <<accounts, email_auth, email_verified, inbox, confirmed, interrupted>>

\* The mark is left to expire.
userEmail_modify(w) ==
    /\ At(w, "modify") /\ Ends(w)
    /\ accounts' = [accounts EXCEPT ![pending[w].id].email = pending[w].email]
    /\ UNCHANGED <<email_auth, email_verified, inbox, confirmed, interrupted>>
-----------------------------------------------------------------------------
Inserted == {"delete_mark", "verify"}

\* A refusal, a failed call, or a stop of the server between two calls.
abort(w) ==
    /\ pending[w] # Idle /\ Ends(w)
    /\ interrupted' = IF pending[w].at \in Inserted
                      THEN interrupted \cup {pending[w].id} ELSE interrupted
    /\ UNCHANGED <<accounts, email_auth, email_verified, inbox, confirmed>>

Init ==
    /\ accounts = [i \in Ids |-> NoAccount]
    /\ email_auth = [e \in Emails |-> NoCode]
    /\ email_verified = {}
    /\ inbox = [e \in Emails |-> {}]
    /\ pending = [w \in Workers |-> Idle]
    /\ confirmed = {} /\ interrupted = {}

Verification(w) ==
    \/ \E e \in Emails, c \in Codes :
           send_verification_email(w, e, c) \/ check_verification_code(w, e, c)
    \/ send(w) \/ delete_code(w) \/ mark_verified(w)

Register(w) ==
    \/ \E i \in Ids, e \in Emails : register_user(w, i, e)
    \/ id_duplicate(w) \/ email_duplicate(w) \/ insert_user_basic_info(w)
    \/ delete_mark(w) \/ update_is_verified_true(w)

Modify(w) ==
    \/ \E i \in Ids, e \in Emails : modify_email(w, i, e)
    \/ userEmail_modify(w)

Next ==
    \/ \E w \in Workers : Verification(w) \/ Register(w) \/ Modify(w) \/ abort(w)
    \/ \E e \in Emails : expire_code(e) \/ expire_verified(e)

Spec == Init /\ [][Next]_vars
-----------------------------------------------------------------------------
(* Properties *)

Requests ==
    [at : {"send"}, email : Emails, code : Codes]
    \cup [at : {"delete_code", "mark"}, email : Emails]
    \cup [at : {"id_duplicate", "email_duplicate", "insert", "modify"} \cup Inserted,
          id : Ids, email : Emails]

\* Rows, keys and requests are of their kinds.
TypeOK ==
    /\ accounts \in [Ids -> Rows \cup {NoAccount}]
    /\ email_auth \in [Emails -> Codes \cup {NoCode}]
    /\ email_verified \subseteq Emails
    /\ inbox \in [Emails -> SUBSET Codes]
    /\ pending \in [Workers -> Requests \cup {Idle}]
    /\ confirmed \subseteq Emails /\ interrupted \subseteq Ids

\* However requests overlap, whatever expires or stops half way, no account ever
\* has an address whose owner did not give its code back: by registration or by
\* a change of the address.
EmailsConfirmed == \A i \in Ids : Registered(i) => accounts[i].email \in confirmed

\* An account that cannot log in is one whose registration is still running or
\* was stopped after its insert: no other request, by changing or confirming
\* addresses, can make the last statement of a registration miss its own row.
UnverifiedWereInterrupted ==
    \A i \in Ids : Registered(i) /\ ~accounts[i].is_verified =>
        \/ i \in interrupted
        \/ \E w \in Workers : pending[w].at \in Inserted /\ pending[w].id = i

\* services/user.py:472: an address that is in use is refused.  Requests one at a
\* time suffice to violate it (see README, Findings).
EmailsUnique ==
    \A i, j \in Ids : Registered(i) /\ Registered(j) /\ accounts[i].email = accounts[j].email
        => i = j
=============================================================================
