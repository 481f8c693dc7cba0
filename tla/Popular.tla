------------------------------- MODULE Popular -------------------------------
(***************************************************************************)
(* The lists of popular boards, which Redis serves for ten minutes, beside *)
(* the boards as they are written, edited, deleted and grow older.  Asking *)
(* Redis, asking the database and setting the list are three calls.        *)
(*                                                                         *)
(* view_count stays 0 on every board, as in the code, so that the ranking  *)
(* is by index alone.  Title and content are one text.  Time passes in     *)
(* ticks; ages of boards are in days and pass on their own.                *)
(***************************************************************************)
EXTENDS Integers, FiniteSets

CONSTANTS MaxBoards, Texts, Workers,
          Options,        \* PopularOption
          Span,           \* the greatest age an option lists
          MaxAge,         \* ages from here on are not told apart
          Top,            \* 5 in the code
          PopularTTL,     \* ticks a list lasts
          RequestTicks    \* ticks that may pass under one request

Boards == 1..MaxBoards

ASSUME BoundsAssumption ==
    /\ MaxBoards \in Nat /\ MaxAge \in Nat /\ Top \in Nat
    /\ PopularTTL \in Nat \ {0} /\ RequestTicks \in Nat
    /\ Texts # {} /\ Span \in [Options -> 0..MaxAge]

VARIABLES
    boards,     \* [state, notice, text, age]
    popular,    \* popular_boards:<option>: [left, list], left = 0 without one
    pending,    \* the request of each worker, before its next call
    spent,      \* ticks passed under each worker's request
    quiet       \* history: ticks since the boards last changed

vars == <<boards, popular, pending, spent, quiet>>

Idle == [at |-> "idle"]
MaxQuiet == PopularTTL + RequestTicks

HasRow(b) == boards[b].state \in {"LIVE", "DELETED"}
IsLive(b) == boards[b].state = "LIVE"

Begins(w, request) ==
    /\ pending[w] = Idle
    /\ pending' = [pending EXCEPT ![w] = request]
    /\ UNCHANGED spent

At(w, call) == pending[w].at = call

Ends(w) ==
    /\ pending' = [pending EXCEPT ![w] = Idle]
    /\ spent' = [spent EXCEPT ![w] = 0]

BoardsBecome(new) ==
    /\ boards' = new
    /\ quiet' = IF new = boards THEN quiet ELSE 0
-----------------------------------------------------------------------------
(* The boards, as the other services change them *)

NewBoard(text, notice) ==
    [state |-> "LIVE", notice |-> notice, text |-> text, age |-> 0]

\* What a row held is gone when there is none.
NoBoard(state) ==
    [state |-> state, notice |-> FALSE, text |-> CHOOSE text \in Texts : TRUE, age |-> 0]

\* A serial index: the next one, whatever has been deleted.
insert_boards_db(text, notice) ==
    /\ \E b \in Boards :
           /\ \A c \in Boards : boards[c].state = "NONE" <=> c >= b
           /\ BoardsBecome([boards EXCEPT ![b] = NewBoard(text, notice)])
    /\ UNCHANGED <<popular, pending, spent>>

create_board(text) == insert_boards_db(text, FALSE)
register_notice(text) == insert_boards_db(text, TRUE)

soft_delete_boards(B) ==
    /\ \A b \in B : IsLive(b)
    /\ BoardsBecome([b \in Boards |->
           IF b \in B THEN [boards[b] EXCEPT !.state = "DELETED"] ELSE boards[b]])
    /\ UNCHANGED <<popular, pending, spent>>

restore_boards(B) ==
    /\ \A b \in B : HasRow(b)
    /\ BoardsBecome([b \in Boards |->
           IF b \in B THEN [boards[b] EXCEPT !.state = "LIVE"] ELSE boards[b]])
    /\ UNCHANGED <<popular, pending, spent>>

delete_expired_boards(B) ==
    /\ \A b \in B : boards[b].state = "DELETED"
    /\ BoardsBecome([b \in Boards |-> IF b \in B THEN NoBoard("PURGED") ELSE boards[b]])
    /\ UNCHANGED <<popular, pending, spent>>

\* reg_date falls behind one of the periods.
grow_older(b) ==
    /\ HasRow(b) /\ boards[b].age < MaxAge
    /\ BoardsBecome([boards EXCEPT ![b].age = @ + 1])
    /\ UNCHANGED <<popular, pending, spent>>

\* title_modify and content_modify: the owner of a live board, with the password.
check_modify(w, b, text) ==
    /\ IsLive(b)
    /\ Begins(w, [at |-> "modify", on |-> b, text |-> text])
    /\ UNCHANGED <<boards, popular, quiet>>

\* WHERE index = $2: a board deleted since is edited too, a purged one is not there.
modify(w) ==
    LET b == pending[w].on IN
    /\ At(w, "modify") /\ Ends(w)
    /\ BoardsBecome(IF HasRow(b) THEN [boards EXCEPT ![b].text = pending[w].text]
                                 ELSE boards)
    /\ UNCHANGED popular
-----------------------------------------------------------------------------
(* The lists *)

Listed(b, o) == IsLive(b) /\ ~boards[b].notice /\ boards[b].age <= Span[o]

\* ORDER BY view_count DESC, index DESC, the first Top.
get_popular_top5_board(o) ==
    {[board |-> b, text |-> boards[b].text] :
        b \in {c \in Boards :
                  /\ Listed(c, o)
                  /\ Cardinality({d \in Boards : Listed(d, o) /\ d > c}) < Top}}

\* A list in Redis is served as it is: that request ends here.
get_popular(w, o) ==
    /\ popular[o].left = 0
    /\ Begins(w, [at |-> "top5", option |-> o])
    /\ UNCHANGED <<boards, popular, quiet>>

\* An empty list is 404 and is not kept.
read_popular(w) ==
    LET o == pending[w].option
        list == get_popular_top5_board(o)
    IN
    /\ At(w, "top5")
    /\ \/ list = {} /\ Ends(w)
       \/ /\ list # {}
          /\ pending' = [pending EXCEPT ![w] =
                 [at |-> "set_popular", option |-> o, list |-> list]]
          /\ UNCHANGED spent
    /\ UNCHANGED <<boards, popular, quiet>>

\* Mutant: a list that another request has set is kept on, with a new life.
set_popular_keeps(w) ==
    LET r == pending[w]
        old == popular[r.option]
    IN
    /\ At(w, "set_popular") /\ Ends(w)
    /\ popular' = [popular EXCEPT ![r.option] =
           [left |-> PopularTTL, list |-> IF old.left > 0 THEN old.list ELSE r.list]]
    /\ UNCHANGED <<boards, quiet>>

\* Mutant: an expiry that is too long.
set_popular_longer(w) ==
    LET r == pending[w] IN
    /\ At(w, "set_popular") /\ Ends(w)
    /\ popular' = [popular EXCEPT ![r.option] = [left |-> PopularTTL + 1, list |-> r.list]]
    /\ UNCHANGED <<boards, quiet>>

\* SETEX: the list and its life are replaced together.
set_popular(w) ==
    LET r == pending[w] IN
    /\ At(w, "set_popular") /\ Ends(w)
    /\ popular' = [popular EXCEPT ![r.option] = [left |-> PopularTTL, list |-> r.list]]
    /\ UNCHANGED <<boards, quiet>>
-----------------------------------------------------------------------------
(* Failures and time *)

\* Redis, the database or the server fails the next call.
abort(w) ==
    /\ pending[w] # Idle /\ Ends(w)
    /\ UNCHANGED <<boards, popular, quiet>>

NoList == [left |-> 0, list |-> {}]

tick ==
    /\ \A w \in Workers : pending[w] # Idle => spent[w] < RequestTicks
    /\ spent' = [w \in Workers |-> IF pending[w] = Idle THEN 0 ELSE spent[w] + 1]
    /\ popular' = [o \in Options |->
           IF popular[o].left <= 1 THEN NoList
           ELSE [left |-> popular[o].left - 1, list |-> popular[o].list]]
    /\ quiet' = IF quiet = MaxQuiet THEN quiet ELSE quiet + 1
    /\ UNCHANGED <<boards, pending>>
-----------------------------------------------------------------------------
Init ==
    /\ boards = [b \in Boards |-> NoBoard("NONE")]
    /\ popular = [o \in Options |-> NoList]
    /\ pending = [w \in Workers |-> Idle]
    /\ spent = [w \in Workers |-> 0]
    /\ quiet = 0

BoardsStep ==
    \/ \E text \in Texts : create_board(text) \/ register_notice(text)
    \/ \E B \in SUBSET Boards :
           soft_delete_boards(B) \/ restore_boards(B) \/ delete_expired_boards(B)
    \/ \E b \in Boards : grow_older(b)

WorkerStep(w) ==
    \/ \E b \in Boards, text \in Texts : check_modify(w, b, text)
    \/ modify(w)
    \/ \E o \in Options : get_popular(w, o)
    \/ read_popular(w)
    \/ set_popular(w)
    \/ abort(w)

Next == BoardsStep \/ (\E w \in Workers : WorkerStep(w)) \/ tick

Spec == Init /\ [][Next]_vars
-----------------------------------------------------------------------------
BoardRow == [state : {"NONE", "LIVE", "DELETED", "PURGED"}, notice : BOOLEAN,
             text : Texts, age : 0..MaxAge]

Entry == [board : Boards, text : Texts]

Request ==
    [at : {"modify"}, on : Boards, text : Texts]
    \cup [at : {"top5"}, option : Options]
    \cup [at : {"set_popular"}, option : Options, list : SUBSET Entry]

\* The rows, lists and requests are of the kinds declared above.
TypeOK ==
    /\ boards \in [Boards -> BoardRow]
    /\ popular \in [Options -> [left : 0..PopularTTL, list : SUBSET Entry]]
    /\ pending \in [Workers -> Request \cup {Idle}]
    /\ spent \in [Workers -> 0..RequestTicks]
    /\ quiet \in 0..MaxQuiet

\* A list of popular boards that Redis serves is the current one, or was when
\* the boards last changed, less than a list's life and one request ago.
PopularKeepsUp ==
    \A o \in Options : popular[o].left > 0 =>
        \/ popular[o].list = get_popular_top5_board(o)
        \/ quiet + popular[o].left <= PopularTTL + RequestTicks
=============================================================================
