-------------------------------- MODULE Views --------------------------------
(***************************************************************************)
(* The views of boards that are recorded, and the keys in Redis that keep  *)
(* a viewer from being recorded again for five minutes.  Every call to     *)
(* Redis or to the database is a step, since looking at a board is no      *)
(* transaction.                                                            *)
(*                                                                         *)
(* A viewer is what get_viewer makes of a request, a user or an anonymous  *)
(* cookie.  Time passes in ticks.                                          *)
(***************************************************************************)
EXTENDS Integers

CONSTANTS MaxBoards, Viewers, Workers,
          ViewTTL,        \* ticks a view's key lasts
          RequestTicks    \* ticks that may pass under one request

Boards == 1..MaxBoards

ASSUME BoundsAssumption ==
    MaxBoards \in Nat /\ ViewTTL \in Nat \ {0} /\ RequestTicks \in Nat

VARIABLES
    boards,     \* NONE, LIVE, DELETED or PURGED
    viewed,     \* rows of boards_view, as pairs
    view_key,   \* ticks left of board_view:<board>:<viewer>, 0 without one
    pending,    \* the request of each worker, before its next call
    spent,      \* ticks passed under each worker's request
    counted     \* history: workers that recorded this view since the key was last missing

vars == <<boards, viewed, view_key, pending, spent, counted>>

Idle == [at |-> "idle"]

HasRow(b) == boards[b] \in {"LIVE", "DELETED"}

At(w, call) == pending[w].at = call

Goes(w, call) ==
    /\ pending' = [pending EXCEPT ![w].at = call]
    /\ UNCHANGED spent

Ends(w) ==
    /\ pending' = [pending EXCEPT ![w] = Idle]
    /\ spent' = [spent EXCEPT ![w] = 0]
-----------------------------------------------------------------------------
(* The boards, as the other services change them *)

Becomes(B, state) == boards' = [b \in Boards |-> IF b \in B THEN state ELSE boards[b]]

\* A serial index: the next one, whatever has been deleted.
insert_boards_db ==
    /\ \E b \in Boards :
           /\ \A c \in Boards : boards[c] = "NONE" <=> c >= b
           /\ Becomes({b}, "LIVE")
    /\ UNCHANGED <<viewed, view_key, pending, spent, counted>>

soft_delete_boards(B) ==
    /\ \A b \in B : boards[b] = "LIVE"
    /\ Becomes(B, "DELETED")
    /\ UNCHANGED <<viewed, view_key, pending, spent, counted>>

restore_boards(B) ==
    /\ \A b \in B : HasRow(b)
    /\ Becomes(B, "LIVE")
    /\ UNCHANGED <<viewed, view_key, pending, spent, counted>>

\* ON DELETE CASCADE takes the views along.
delete_expired_boards(B) ==
    /\ \A b \in B : boards[b] = "DELETED"
    /\ Becomes(B, "PURGED")
    /\ viewed' = {view \in viewed : view[1] \notin B}
    /\ UNCHANGED <<view_key, pending, spent, counted>>
-----------------------------------------------------------------------------
(* Looking at a board *)

single_board_info(w, b, v) ==
    /\ boards[b] = "LIVE" /\ pending[w] = Idle
    /\ pending' = [pending EXCEPT ![w] = [at |-> "get_key", on |-> b, by |-> v]]
    /\ UNCHANGED <<boards, viewed, view_key, spent, counted>>

\* Mutant: the key is not asked for.
get_view_key_always(w) ==
    /\ At(w, "get_key")
    /\ Goes(w, "insert")
    /\ UNCHANGED <<boards, viewed, view_key, counted>>

get_view_key(w) ==
    LET r == pending[w] IN
    /\ At(w, "get_key")
    /\ IF view_key[r.on][r.by] = 0 THEN Goes(w, "insert") ELSE Ends(w)
    /\ UNCHANGED <<boards, viewed, view_key, counted>>

\* Mutant: the key is set whether or not the view is recorded.
insert_boards_view_info_unchecked(w) ==
    LET r == pending[w] IN
    /\ At(w, "insert") /\ Goes(w, "set_key")
    /\ \E recorded \in BOOLEAN :
           viewed' = IF recorded THEN viewed \cup {<<r.on, r.by>>} ELSE viewed
    /\ counted' = [counted EXCEPT ![r.on][r.by] = @ \cup {w}]
    /\ UNCHANGED <<boards, view_key>>

\* No transaction: the row is committed at once.  fk_board refuses a purged board's.
insert_boards_view_info(w) ==
    LET r == pending[w] IN
    /\ At(w, "insert")
    /\ IF HasRow(r.on)
       THEN /\ Goes(w, "set_key")
            /\ viewed' = viewed \cup {<<r.on, r.by>>}
            /\ counted' = [counted EXCEPT ![r.on][r.by] = @ \cup {w}]
       ELSE Ends(w) /\ UNCHANGED <<viewed, counted>>
    /\ UNCHANGED <<boards, view_key>>

\* Mutant: an expiry that is too long.
set_view_key_longer(w) ==
    LET r == pending[w] IN
    /\ At(w, "set_key") /\ Ends(w)
    /\ view_key' = [view_key EXCEPT ![r.on][r.by] = ViewTTL + 1]
    /\ UNCHANGED <<boards, viewed, counted>>

set_view_key(w) ==
    LET r == pending[w] IN
    /\ At(w, "set_key") /\ Ends(w)
    /\ view_key' = [view_key EXCEPT ![r.on][r.by] = ViewTTL]
    /\ UNCHANGED <<boards, viewed, counted>>
-----------------------------------------------------------------------------
(* Failures and time *)

\* Redis, the database or the server fails the next call.  A view that is
\* recorded with no key set will be recorded again.
abort(w) ==
    LET r == pending[w] IN
    /\ r # Idle /\ Ends(w)
    /\ counted' = IF At(w, "set_key") THEN [counted EXCEPT ![r.on][r.by] = @ \ {w}]
                                      ELSE counted
    /\ UNCHANGED <<boards, viewed, view_key>>

\* Workers that have recorded this view and not yet set its key.
Setting(b, v) == {w \in Workers : At(w, "set_key") /\ pending[w].on = b /\ pending[w].by = v}

Less(n) == IF n = 0 THEN 0 ELSE n - 1

tick ==
    /\ \A w \in Workers : pending[w] # Idle => spent[w] < RequestTicks
    /\ spent' = [w \in Workers |-> IF pending[w] = Idle THEN 0 ELSE spent[w] + 1]
    /\ view_key' = [b \in Boards |-> [v \in Viewers |-> Less(view_key[b][v])]]
    /\ counted' = [b \in Boards |-> [v \in Viewers |->
           IF view_key[b][v] = 1 THEN counted[b][v] \cap Setting(b, v) ELSE counted[b][v]]]
    /\ UNCHANGED <<boards, viewed, pending>>
-----------------------------------------------------------------------------
Init ==
    /\ boards = [b \in Boards |-> "NONE"]
    /\ viewed = {}
    /\ view_key = [b \in Boards |-> [v \in Viewers |-> 0]]
    /\ pending = [w \in Workers |-> Idle]
    /\ spent = [w \in Workers |-> 0]
    /\ counted = [b \in Boards |-> [v \in Viewers |-> {}]]

BoardsStep ==
    \/ insert_boards_db
    \/ \E B \in SUBSET Boards :
           soft_delete_boards(B) \/ restore_boards(B) \/ delete_expired_boards(B)

WorkerStep(w) ==
    \/ \E b \in Boards, v \in Viewers : single_board_info(w, b, v)
    \/ get_view_key(w)
    \/ insert_boards_view_info(w)
    \/ set_view_key(w)
    \/ abort(w)

Next == BoardsStep \/ (\E w \in Workers : WorkerStep(w)) \/ tick

Spec == Init /\ [][Next]_vars
-----------------------------------------------------------------------------
View == [at : {"get_key", "insert", "set_key"}, on : Boards, by : Viewers]

\* The rows, keys and requests are of the kinds declared above.
TypeOK ==
    /\ boards \in [Boards -> {"NONE", "LIVE", "DELETED", "PURGED"}]
    /\ viewed \subseteq Boards \X Viewers
    /\ view_key \in [Boards -> [Viewers -> 0..ViewTTL]]
    /\ pending \in [Workers -> View \cup {Idle}]
    /\ spent \in [Workers -> 0..RequestTicks]
    /\ counted \in [Boards -> [Viewers -> SUBSET Workers]]

\* Until a viewer's key runs out, no worker records that viewer on that board a
\* second time: n requests that overlap record at most n views, requests one
\* after the other record one.  Only a failure before the key is set undoes this.
ViewCountedOnce ==
    \A w \in Workers, b \in Boards, v \in Viewers :
        At(w, "insert") /\ pending[w].on = b /\ pending[w].by = v
            => w \notin counted[b][v]

\* A key stands for a view that is recorded, as long as the board's row exists;
\* and no view outlives its board.
KeysHaveViews ==
    /\ \A b \in Boards, v \in Viewers :
           view_key[b][v] > 0 /\ HasRow(b) => <<b, v>> \in viewed
    /\ \A view \in viewed : HasRow(view[1])
=============================================================================
