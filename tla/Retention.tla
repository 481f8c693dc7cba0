----------------------------- MODULE Retention -----------------------------
(***************************************************************************)
(* What deletion comes to: content that is deleted is kept for some days,  *)
(* returns only within a window, and what went along with a board or with  *)
(* an account waits for it.  While the content waits all of it returns,    *)
(* and when its days are over all of it is removed; the board, or the      *)
(* account, may return for longer, and then returns without.  Requests,    *)
(* checks, overlaps, marks of who deleted what and cached sizes are not    *)
(* here: ContentRetention shows that ContentLifecycle implements this.     *)
(*                                                                         *)
(* Administrators order erasures as they please: orders come and go in any *)
(* step.  But nothing is erased before its time without one.               *)
(***************************************************************************)
EXTENDS Integers

CONSTANTS
    Users, Boards, Files, Owner, BoardOf,
    KeepDays,     \* a deleted file is kept at least so long
    ReturnDays,   \* nothing returns after so long
    LastDay       \* a closed board is kept so long; days count no further

VARIABLES
    account,   \* [state: ACTIVE or AWAY, days since it went]
    board,     \* [state: NONE, OPEN, CLOSED or GONE, days since it closed]
    file,      \* [place: see below, days since it was deleted]
    orders     \* erasures ordered: pairs of a kind and what is to go

retained == <<account, board, file>>

\* BIN: deleted by itself.  WITH_BOARD, WITH_USER: taken along.
Kept(f) == file[f].place \in {"BIN", "WITH_BOARD", "WITH_USER"}
Shown(f) == file[f].place = "SHOWN"
Present(f) == Kept(f) \/ Shown(f)

On(b) == {f \in Files : BoardOf[f] = b}
By(u) == {f \in Files : Owner[BoardOf[f]] = u}
TakenWithBoard(b) == {f \in On(b) : file[f].place = "WITH_BOARD"}
TakenWithUser(u) == {f \in By(u) : file[f].place = "WITH_USER"}

\* The files of S go to a place, today.
Moved(S, place) ==
    [f \in Files |-> IF f \in S THEN [place |-> place, days |-> 0] ELSE file[f]]

\* S holds all that is left of T, or none of it.
AllOrNone(T, S) == T \subseteq S \/ T \cap S = {}

InTime(S) == \A f \in S : file[f].days <= ReturnDays

Init ==
    /\ account = [u \in Users |-> [state |-> "ACTIVE", days |-> 0]]
    /\ board = [b \in Boards |-> [state |-> "NONE", days |-> 0]]
    /\ file = [f \in Files |-> [place |-> "NONE", days |-> 0]]
    /\ orders = {}
-----------------------------------------------------------------------------
(* Files *)

Publish(f) ==
    /\ file[f].place = "NONE"
    /\ board[BoardOf[f]].state \in {"OPEN", "CLOSED"}
    /\ file' = Moved({f}, "SHOWN")
    /\ UNCHANGED <<account, board>>

Discard(f) ==
    /\ Present(f)
    /\ file' = Moved({f}, "BIN")
    /\ UNCHANGED <<account, board>>

DiscardAll(b) ==
    /\ file' = Moved({f \in On(b) : Shown(f)}, "BIN")
    /\ UNCHANGED <<account, board>>

ReturnFile(f) ==
    /\ Kept(f) /\ InTime({f})
    /\ file' = Moved({f}, "SHOWN")
    /\ UNCHANGED <<account, board>>

\* Files of one board, with all or none of those that wait for the board.
ReturnFiles(b) ==
    /\ \E S \in SUBSET {f \in On(b) : Kept(f)} :
          /\ InTime(S)
          /\ AllOrNone(TakenWithBoard(b), S)
          /\ file' = Moved(S, "SHOWN")
    /\ UNCHANGED <<account, board>>

\* At once, as only administrators do.
EraseFile(f) ==
    /\ <<"file", f>> \in orders
    /\ Present(f)
    /\ file' = Moved({f}, "GONE")
    /\ UNCHANGED <<account, board>>

EraseFiles(b) ==
    /\ <<"files", b>> \in orders
    /\ file' = Moved({f \in On(b) : Present(f)}, "GONE")
    /\ UNCHANGED <<account, board>>

\* What one deletion took along is removed at once.
Remove ==
    /\ \E S \in SUBSET {f \in Files : Kept(f) /\ file[f].days >= KeepDays} :
          /\ \A b \in Boards : AllOrNone(TakenWithBoard(b), S)
          /\ \A u \in Users : AllOrNone(TakenWithUser(u), S)
          /\ file' = Moved(S, "GONE")
    /\ UNCHANGED <<account, board>>
-----------------------------------------------------------------------------
(* Boards *)

Open(b) ==
    /\ board[b].state = "NONE"
    /\ board' = [board EXCEPT ![b].state = "OPEN"]
    /\ UNCHANGED <<account, file>>

Close(b) ==
    /\ board[b].state \in {"OPEN", "CLOSED"}
    /\ board' = [board EXCEPT ![b] = [state |-> "CLOSED", days |-> 0]]
    /\ file' = Moved({f \in On(b) : Shown(f)}, "WITH_BOARD")
    /\ UNCHANGED account

Reopen(b) ==
    /\ board[b].state = "CLOSED" /\ board[b].days <= ReturnDays
    /\ InTime(TakenWithBoard(b))
    /\ board' = [board EXCEPT ![b] = [state |-> "OPEN", days |-> 0]]
    /\ file' = Moved(TakenWithBoard(b), "SHOWN")
    /\ UNCHANGED account

EraseBoard(b) ==
    /\ <<"board", b>> \in orders
    /\ board' = [board EXCEPT ![b] = [state |-> "GONE", days |-> 0]]
    /\ file' = Moved({f \in On(b) : Present(f)}, "GONE")
    /\ UNCHANGED account

RemoveBoards ==
    /\ \E B \in SUBSET {b \in Boards : board[b].state = "CLOSED"
                                         /\ board[b].days >= LastDay} :
          /\ board' = [b \in Boards |->
                          IF b \in B THEN [state |-> "GONE", days |-> 0] ELSE board[b]]
          /\ file' = Moved({f \in Files : BoardOf[f] \in B /\ Present(f)}, "GONE")
    /\ UNCHANGED account
-----------------------------------------------------------------------------
(* Accounts *)

Away(u) ==
    IF account[u].state = "ACTIVE"
    THEN [account EXCEPT ![u] = [state |-> "AWAY", days |-> 0]] ELSE account

Leave(u) ==
    /\ account' = Away(u)
    /\ file' = Moved({f \in By(u) : Shown(f)}, "WITH_USER")
    /\ UNCHANGED board

\* Sent away, with everything left in its place.
Suspend(u) ==
    /\ account' = Away(u)
    /\ UNCHANGED <<board, file>>

\* The files return also when the account, renamed meanwhile, stays away.
Return(u) ==
    /\ account[u].state = "AWAY" /\ account[u].days <= ReturnDays
    /\ InTime(TakenWithUser(u))
    /\ \/ account' = [account EXCEPT ![u] = [state |-> "ACTIVE", days |-> 0]]
       \/ UNCHANGED account
    /\ file' = Moved(TakenWithUser(u), "SHOWN")
    /\ UNCHANGED board

EraseUser(u) ==
    /\ <<"user", u>> \in orders
    /\ account' = [account EXCEPT ![u] = [state |-> "AWAY", days |-> 0]]
    /\ file' = Moved({f \in By(u) : Present(f)}, "GONE")
    /\ UNCHANGED board
-----------------------------------------------------------------------------
LaterDay(days) == IF days < LastDay THEN days + 1 ELSE days

NewDay ==
    /\ account' = [u \in Users |->
          IF account[u].state = "AWAY"
          THEN [account[u] EXCEPT !.days = LaterDay(@)] ELSE account[u]]
    /\ board' = [b \in Boards |->
          IF board[b].state = "CLOSED"
          THEN [board[b] EXCEPT !.days = LaterDay(@)] ELSE board[b]]
    /\ file' = [f \in Files |->
          IF Kept(f) THEN [file[f] EXCEPT !.days = LaterDay(@)] ELSE file[f]]

Next ==
    \/ \E f \in Files : Publish(f) \/ Discard(f) \/ ReturnFile(f) \/ EraseFile(f)
    \/ \E b \in Boards :
          \/ DiscardAll(b) \/ ReturnFiles(b) \/ EraseFiles(b)
          \/ Open(b) \/ Close(b) \/ Reopen(b) \/ EraseBoard(b)
    \/ \E u \in Users : Leave(u) \/ Suspend(u) \/ Return(u) \/ EraseUser(u)
    \/ Remove \/ RemoveBoards \/ NewDay

Spec == Init /\ [][Next]_retained
=============================================================================
