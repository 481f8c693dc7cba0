---------------------------- MODULE PopularProofs ----------------------------
(***************************************************************************)
(* The theorems about Popular.  A list that a request has read is behind   *)
(* the boards by no more than the time the request has taken; setting it   *)
(* hands that delay on to Redis, where it grows by the list's life.        *)
(***************************************************************************)
EXTENDS Popular, TLAPS

\* The lists as the boards are now.
Current == [o \in Options |-> get_popular_top5_board(o)]

\* PopularKeepsUp, of Current.
ServedKeepsUp ==
    \A o \in Options : popular[o].left > 0 =>
        \/ popular[o].list = Current[o]
        \/ quiet + popular[o].left <= PopularTTL + RequestTicks

\* What a request has read is current, or the boards changed while it was held.
ReadKeepsUp ==
    \A w \in Workers : At(w, "set_popular") =>
        \/ pending[w].list = Current[pending[w].option]
        \/ quiet <= spent[w]

IInv == TypeOK /\ ServedKeepsUp /\ ReadKeepsUp

LEMMA NoBoardIsRow ==
    ASSUME NEW state \in {"NONE", "LIVE", "DELETED", "PURGED"}
    PROVE  NoBoard(state) \in BoardRow
  <1>1. (CHOOSE text \in Texts : TRUE) \in Texts
    BY BoundsAssumption
  <1> QED
    BY <1>1, BoundsAssumption DEF NoBoard, BoardRow

LEMMA NumbersAreNaturals ==
    /\ MaxAge \in Nat /\ PopularTTL \in Nat /\ PopularTTL > 0 /\ RequestTicks \in Nat
    /\ MaxQuiet \in Nat /\ MaxQuiet = PopularTTL + RequestTicks
  BY BoundsAssumption DEF MaxQuiet

LEMMA InitHolds == Init => IInv
  BY NoBoardIsRow, NumbersAreNaturals DEF Init, NoList, IInv, TypeOK, ServedKeepsUp,
     ReadKeepsUp, At, Idle

\* The ranking is a list of boards with their texts.
LEMMA TopIsEntries ==
    ASSUME TypeOK, NEW o \in Options
    PROVE  get_popular_top5_board(o) \in SUBSET Entry
  <1> SUFFICES ASSUME NEW e \in get_popular_top5_board(o)
               PROVE  e \in Entry
    OBVIOUS
  <1>1. PICK b \in Boards : e = [board |-> b, text |-> boards[b].text]
    BY DEF get_popular_top5_board
  <1>2. boards[b].text \in Texts
    BY DEF TypeOK, BoardRow
  <1> QED
    BY <1>1, <1>2 DEF Entry

\* The ranking is of the boards alone.
LEMMA TopOfBoards ==
    ASSUME boards' = boards
    PROVE  Current' = Current
  BY DEF Current, get_popular_top5_board, Listed, IsLive

\* A worker is idle or at one of the calls.
LEMMA AtSetPopular ==
    ASSUME TypeOK, NEW w \in Workers, At(w, "set_popular")
    PROVE  /\ pending[w] # Idle
           /\ pending[w].option \in Options /\ pending[w].list \in SUBSET Entry
  BY DEF TypeOK, Request, At, Idle

LEMMA AtTop5 ==
    ASSUME TypeOK, NEW w \in Workers, At(w, "top5")
    PROVE  pending[w].option \in Options
  BY DEF TypeOK, Request, At, Idle

LEMMA AtModify ==
    ASSUME TypeOK, NEW w \in Workers, At(w, "modify")
    PROVE  pending[w].on \in Boards /\ pending[w].text \in Texts
  BY DEF TypeOK, Request, At, Idle
-----------------------------------------------------------------------------
(* The boards change, or a request goes on that sets no list *)

\* Requests that hold a list stay as they are.
HeldStay ==
    /\ pending' \in [Workers -> Request \cup {Idle}]
    /\ spent' \in [Workers -> 0..RequestTicks]
    /\ \A w \in Workers : At(w, "set_popular")'
           => pending'[w] = pending[w] /\ spent'[w] = spent[w]

\* Every list was current when the boards changed, a moment ago.
LEMMA BoardsBecomeKeeps ==
    ASSUME IInv, NEW new \in [Boards -> BoardRow], BoardsBecome(new),
           HeldStay, popular' = popular
    PROVE  IInv'
  <1>1. TypeOK'
    BY NumbersAreNaturals DEF IInv, TypeOK, BoardsBecome, HeldStay
  <1>2. CASE new = boards
    <2>1. boards' = boards /\ quiet' = quiet
      BY <1>2 DEF BoardsBecome
    <2>2. ServedKeepsUp'
      BY <2>1, TopOfBoards DEF IInv, ServedKeepsUp
    <2>3. ReadKeepsUp'
      <3>1. ASSUME NEW w \in Workers, At(w, "set_popular")'
            PROVE  \/ pending'[w].list = Current'[pending'[w].option]
                   \/ quiet' <= spent'[w]
        <4>1. pending'[w] = pending[w] /\ spent'[w] = spent[w] /\ At(w, "set_popular")
          BY <3>1 DEF HeldStay, At
        <4>2. pending[w].option \in Options
          BY <4>1, AtSetPopular DEF IInv
        <4>4. Current' = Current
          BY <2>1, TopOfBoards
        <4> QED
          BY <2>1, <4>1, <4>2, <4>4 DEF IInv, ReadKeepsUp
      <3> QED
        BY <3>1 DEF ReadKeepsUp
    <2> QED
      BY <1>1, <2>2, <2>3 DEF IInv
  <1>3. CASE new # boards
    <2>1. quiet' = 0
      BY <1>3 DEF BoardsBecome
    <2>2. ServedKeepsUp'
      <3>1. \A o \in Options : popular[o].left \in 0..PopularTTL
        BY DEF IInv, TypeOK
      <3>2. \A o \in Options : quiet' + popular'[o].left <= PopularTTL + RequestTicks
        BY <2>1, <3>1, NumbersAreNaturals
      <3> QED
        BY <3>2 DEF ServedKeepsUp
    <2>3. ReadKeepsUp'
      <3>1. \A w \in Workers : quiet' <= spent'[w]
        BY <2>1, NumbersAreNaturals DEF HeldStay
      <3> QED
        BY <3>1 DEF ReadKeepsUp
    <2> QED
      BY <1>1, <2>2, <2>3 DEF IInv
  <1> QED
    BY <1>2, <1>3

LEMMA UnchangedStay ==
    ASSUME TypeOK, UNCHANGED <<pending, spent>>
    PROVE  HeldStay
  BY DEF TypeOK, HeldStay

LEMMA InsertKeeps ==
    ASSUME IInv, NEW text \in Texts, NEW notice \in BOOLEAN, insert_boards_db(text, notice)
    PROVE  IInv'
  <1>1. PICK b \in Boards : BoardsBecome([boards EXCEPT ![b] = NewBoard(text, notice)])
    BY DEF insert_boards_db
  <1>2. NewBoard(text, notice) \in BoardRow
    BY NumbersAreNaturals DEF NewBoard, BoardRow
  <1>3. [boards EXCEPT ![b] = NewBoard(text, notice)] \in [Boards -> BoardRow]
    BY <1>2 DEF IInv, TypeOK
  <1> QED
    BY <1>1, <1>3, BoardsBecomeKeeps, UnchangedStay DEF insert_boards_db, IInv

\* Changing the state of a row leaves a row.
LEMMA StateKeepsRow ==
    ASSUME TypeOK, NEW b \in Boards, NEW state \in {"LIVE", "DELETED"}
    PROVE  [boards[b] EXCEPT !.state = state] \in BoardRow
  <1> DEFINE r == boards[b]
  <1>1. r \in BoardRow
    BY DEF TypeOK
  <1>2. [r EXCEPT !.state = state]
            = [state |-> state, notice |-> r.notice, text |-> r.text, age |-> r.age]
    BY <1>1 DEF BoardRow
  <1>3. r.notice \in BOOLEAN /\ r.text \in Texts /\ r.age \in 0..MaxAge
    BY <1>1 DEF BoardRow
  <1> QED
    BY <1>2, <1>3 DEF BoardRow

LEMMA SetsKeep ==
    ASSUME IInv, NEW B \in SUBSET Boards,
           soft_delete_boards(B) \/ restore_boards(B) \/ delete_expired_boards(B)
    PROVE  IInv'
  <1>1. CASE soft_delete_boards(B)
    <2>1. [b \in Boards |-> IF b \in B THEN [boards[b] EXCEPT !.state = "DELETED"]
                                       ELSE boards[b]] \in [Boards -> BoardRow]
      BY StateKeepsRow DEF IInv, TypeOK
    <2> QED
      BY <1>1, <2>1, BoardsBecomeKeeps, UnchangedStay DEF soft_delete_boards, IInv
  <1>2. CASE restore_boards(B)
    <2>1. [b \in Boards |-> IF b \in B THEN [boards[b] EXCEPT !.state = "LIVE"]
                                       ELSE boards[b]] \in [Boards -> BoardRow]
      BY StateKeepsRow DEF IInv, TypeOK
    <2> QED
      BY <1>2, <2>1, BoardsBecomeKeeps, UnchangedStay DEF restore_boards, IInv
  <1>3. CASE delete_expired_boards(B)
    <2>1. [b \in Boards |-> IF b \in B THEN NoBoard("PURGED") ELSE boards[b]]
              \in [Boards -> BoardRow]
      BY NoBoardIsRow DEF IInv, TypeOK
    <2> QED
      BY <1>3, <2>1, BoardsBecomeKeeps, UnchangedStay DEF delete_expired_boards, IInv
  <1> QED
    BY <1>1, <1>2, <1>3

LEMMA OlderKeeps ==
    ASSUME IInv, NEW b \in Boards, grow_older(b)
    PROVE  IInv'
  <1> DEFINE r == boards[b]
  <1>1. r \in BoardRow /\ r.age < MaxAge
    BY DEF grow_older, IInv, TypeOK
  <1>2. [r EXCEPT !.age = r.age + 1]
            = [state |-> r.state, notice |-> r.notice, text |-> r.text, age |-> r.age + 1]
    BY <1>1 DEF BoardRow
  <1>3. r.age + 1 \in 0..MaxAge
    BY <1>1, NumbersAreNaturals DEF BoardRow
  <1>4. /\ r.state \in {"NONE", "LIVE", "DELETED", "PURGED"}
        /\ r.notice \in BOOLEAN /\ r.text \in Texts
    BY <1>1 DEF BoardRow
  <1>5. [r EXCEPT !.age = r.age + 1] \in BoardRow
    BY <1>2, <1>3, <1>4 DEF BoardRow
  <1>6. [boards EXCEPT ![b].age = @ + 1] \in [Boards -> BoardRow]
    BY <1>5 DEF IInv, TypeOK
  <1> QED
    BY <1>6, BoardsBecomeKeeps, UnchangedStay DEF grow_older, IInv

LEMMA BoardsStepKeeps ==
    ASSUME IInv, BoardsStep
    PROVE  IInv'
  BY InsertKeeps, SetsKeep, OlderKeeps DEF BoardsStep, create_board, register_notice
-----------------------------------------------------------------------------
(* The requests *)

LEMMA BeginStays ==
    ASSUME TypeOK, NEW w \in Workers, NEW request \in Request,
           request.at # "set_popular", Begins(w, request)
    PROVE  HeldStay
  BY DEF TypeOK, Begins, HeldStay, At

LEMMA EndStays ==
    ASSUME TypeOK, NEW w \in Workers, Ends(w)
    PROVE  HeldStay
  BY NumbersAreNaturals DEF TypeOK, Ends, HeldStay, At, Idle

LEMMA BoardsStay ==
    ASSUME UNCHANGED <<boards, quiet>>
    PROVE  BoardsBecome(boards)
  BY DEF BoardsBecome

LEMMA HeldStayKeeps ==
    ASSUME IInv, HeldStay, UNCHANGED <<boards, popular, quiet>>
    PROVE  IInv'
  BY BoardsBecomeKeeps, BoardsStay DEF IInv, TypeOK

LEMMA CheckModifyKeeps ==
    ASSUME IInv, NEW w \in Workers, NEW b \in Boards, NEW text \in Texts,
           check_modify(w, b, text)
    PROVE  IInv'
  <1> DEFINE request == [at |-> "modify", on |-> b, text |-> text]
  <1>1. request \in Request /\ request.at # "set_popular"
    BY DEF Request
  <1> QED
    BY <1>1, BeginStays, HeldStayKeeps DEF check_modify, IInv

LEMMA ModifyKeeps ==
    ASSUME IInv, NEW w \in Workers, modify(w)
    PROVE  IInv'
  <1> DEFINE b == pending[w].on
             r == boards[b]
             t == pending[w].text
  <1>1. b \in Boards /\ t \in Texts
    BY AtModify DEF modify, IInv
  <1>2. r \in BoardRow
    BY <1>1 DEF IInv, TypeOK
  <1>3. [r EXCEPT !.text = t]
            = [state |-> r.state, notice |-> r.notice, text |-> t, age |-> r.age]
    BY <1>2 DEF BoardRow
  <1>4. /\ r.state \in {"NONE", "LIVE", "DELETED", "PURGED"}
        /\ r.notice \in BOOLEAN /\ r.age \in 0..MaxAge
    BY <1>2 DEF BoardRow
  <1>5. [r EXCEPT !.text = t] \in BoardRow
    BY <1>1, <1>3, <1>4 DEF BoardRow
  <1> DEFINE new == IF HasRow(b) THEN [boards EXCEPT ![b].text = t] ELSE boards
  <1>6. new \in [Boards -> BoardRow]
    BY <1>1, <1>5 DEF IInv, TypeOK
  <1>7. BoardsBecome(new) /\ popular' = popular /\ Ends(w)
    BY DEF modify
  <1>8. HeldStay
    BY <1>7, EndStays DEF IInv
  <1> QED
    BY <1>6, <1>7, <1>8, BoardsBecomeKeeps

LEMMA GetPopularKeeps ==
    ASSUME IInv, NEW w \in Workers, NEW o \in Options, get_popular(w, o)
    PROVE  IInv'
  <1> DEFINE request == [at |-> "top5", option |-> o]
  <1>1. request \in Request /\ request.at # "set_popular"
    BY DEF Request
  <1> QED
    BY <1>1, BeginStays, HeldStayKeeps DEF get_popular, IInv

LEMMA ReadPopularKeeps ==
    ASSUME IInv, NEW w \in Workers, read_popular(w)
    PROVE  IInv'
  <1> DEFINE o == pending[w].option
             list == get_popular_top5_board(o)
             read == [at |-> "set_popular", option |-> o, list |-> list]
  <1>1. o \in Options /\ UNCHANGED <<boards, popular, quiet>>
    BY AtTop5 DEF read_popular, IInv
  <1>2. CASE list = {} /\ Ends(w)
    BY <1>1, <1>2, EndStays, HeldStayKeeps DEF IInv
  <1>3. CASE pending' = [pending EXCEPT ![w] = read] /\ UNCHANGED spent
    <2>1. read \in Request
      BY <1>1, TopIsEntries DEF IInv, Request
    <2>2. TypeOK'
      BY <1>1, <1>3, <2>1 DEF IInv, TypeOK
    <2>3. ServedKeepsUp'
      BY <1>1, TopOfBoards DEF IInv, ServedKeepsUp
    <2>4. /\ pending'[w] = read
          /\ \A u \in Workers \ {w} : pending'[u] = pending[u]
      BY <1>3 DEF IInv, TypeOK
    <2>5. Current' = Current
      BY <1>1, TopOfBoards
    <2>6. ReadKeepsUp'
      <3> SUFFICES ASSUME NEW u \in Workers, At(u, "set_popular")'
                   PROVE  \/ pending'[u].list = Current'[pending'[u].option]
                          \/ quiet' <= spent'[u]
        BY DEF ReadKeepsUp
      <3>1. CASE u = w
        BY <1>1, <2>4, <2>5, <3>1 DEF Current
      <3>2. CASE u # w
        <4>1. pending'[u] = pending[u] /\ At(u, "set_popular")
          BY <2>4, <3>2 DEF At
        <4>2. pending[u].option \in Options
          BY <4>1, AtSetPopular DEF IInv
        <4> QED
          BY <1>1, <1>3, <2>5, <4>1, <4>2 DEF IInv, ReadKeepsUp
      <3> QED
        BY <3>1, <3>2
    <2> QED
      BY <2>2, <2>3, <2>6 DEF IInv
  <1> QED
    BY <1>2, <1>3 DEF read_popular

LEMMA SetPopularKeeps ==
    ASSUME IInv, NEW w \in Workers, set_popular(w)
    PROVE  IInv'
  <1> DEFINE r == pending[w]
  <1>1. /\ At(w, "set_popular") /\ Ends(w) /\ UNCHANGED <<boards, quiet>>
        /\ popular' = [popular EXCEPT ![r.option] = [left |-> PopularTTL, list |-> r.list]]
    BY DEF set_popular
  <1>2. r.option \in Options /\ r.list \in SUBSET Entry
    BY <1>1, AtSetPopular DEF IInv
  <1>3. HeldStay
    BY <1>1, EndStays DEF IInv
  <1>4. /\ popular' \in [Options -> [left : 0..PopularTTL, list : SUBSET Entry]]
        /\ popular'[r.option] = [left |-> PopularTTL, list |-> r.list]
        /\ \A o \in Options \ {r.option} : popular'[o] = popular[o]
    BY <1>1, <1>2, NumbersAreNaturals DEF IInv, TypeOK
  <1>5. TypeOK'
    BY <1>1, <1>3, <1>4 DEF IInv, TypeOK, HeldStay
  <1>6. Current' = Current
    BY <1>1, TopOfBoards
  <1>7. ServedKeepsUp'
    <2>1. r.list = Current[r.option] \/ quiet <= spent[w]
      BY <1>1 DEF IInv, ReadKeepsUp
    <2>2. spent[w] \in 0..RequestTicks /\ quiet \in Nat
      BY NumbersAreNaturals DEF IInv, TypeOK
    <2>3. r.list = Current[r.option]
          \/ quiet + PopularTTL <= PopularTTL + RequestTicks
      BY <2>1, <2>2, NumbersAreNaturals
    <2> QED
      BY <1>1, <1>2, <1>4, <1>6, <2>3 DEF IInv, ServedKeepsUp
  <1>8. ReadKeepsUp'
    <2> SUFFICES ASSUME NEW u \in Workers, At(u, "set_popular")'
                 PROVE  \/ pending'[u].list = Current'[pending'[u].option]
                        \/ quiet' <= spent'[u]
      BY DEF ReadKeepsUp
    <2>1. pending'[u] = pending[u] /\ spent'[u] = spent[u] /\ At(u, "set_popular")
      BY <1>3 DEF HeldStay, At
    <2>2. pending[u].option \in Options
      BY <2>1, AtSetPopular DEF IInv
    <2> QED
      BY <1>1, <1>6, <2>1, <2>2 DEF IInv, ReadKeepsUp
  <1> QED
    BY <1>5, <1>7, <1>8 DEF IInv

LEMMA AbortKeeps ==
    ASSUME IInv, NEW w \in Workers, abort(w)
    PROVE  IInv'
  BY EndStays, HeldStayKeeps DEF abort, IInv
-----------------------------------------------------------------------------
(* Time *)

\* As a list loses a tick of its life, the delay may gain one.
LEMMA TickKeeps ==
    ASSUME IInv, tick
    PROVE  IInv'
  <1>1. UNCHANGED <<boards, pending>>
    BY DEF tick
  <1>2. /\ quiet \in 0..MaxQuiet /\ quiet' \in 0..MaxQuiet /\ quiet' <= quiet + 1
    BY NumbersAreNaturals DEF tick, IInv, TypeOK
  <1>3. /\ spent' \in [Workers -> 0..RequestTicks]
        /\ \A w \in Workers : pending[w] # Idle => spent'[w] = spent[w] + 1
    BY NumbersAreNaturals DEF tick, IInv, TypeOK
  <1>4. /\ popular' \in [Options -> [left : 0..PopularTTL, list : SUBSET Entry]]
        /\ \A o \in Options : popular'[o].left > 0 =>
               /\ popular[o].left > 0 /\ popular'[o].left = popular[o].left - 1
               /\ popular'[o].list = popular[o].list
    <2>1. \A o \in Options : popular[o].left \in 0..PopularTTL /\ popular[o].list \in SUBSET Entry
      BY DEF IInv, TypeOK
    <2>2. \A o \in Options : popular'[o] =
              IF popular[o].left <= 1 THEN [left |-> 0, list |-> {}]
              ELSE [left |-> popular[o].left - 1, list |-> popular[o].list]
      BY DEF tick, NoList
    <2>3. ASSUME NEW o \in Options
          PROVE  popular'[o] \in [left : 0..PopularTTL, list : SUBSET Entry]
      <3>1. CASE popular[o].left <= 1
        <4>1. popular'[o] = [left |-> 0, list |-> {}]
          BY <2>2, <3>1
        <4> QED
          BY <4>1, NumbersAreNaturals
      <3>2. CASE ~(popular[o].left <= 1)
        <4>1. popular'[o] = [left |-> popular[o].left - 1, list |-> popular[o].list]
          BY <2>2, <3>2
        <4>2. popular[o].left - 1 \in 0..PopularTTL
          BY <2>1, <3>2, NumbersAreNaturals
        <4> QED
          BY <2>1, <4>1, <4>2
      <3> QED
        BY <3>1, <3>2
    <2>4. popular' \in [Options -> [left : 0..PopularTTL, list : SUBSET Entry]]
      BY <2>3 DEF tick
    <2>5. ASSUME NEW o \in Options, popular'[o].left > 0
          PROVE  /\ popular[o].left > 0 /\ popular'[o].left = popular[o].left - 1
                 /\ popular'[o].list = popular[o].list
      <3>1. CASE popular[o].left <= 1
        <4>1. popular'[o] = [left |-> 0, list |-> {}]
          BY <2>2, <3>1
        <4>2. popular'[o].left = 0
          BY <4>1
        <4> QED
          BY <2>5, <4>2
      <3>2. CASE ~(popular[o].left <= 1)
        <4>1. popular'[o] = [left |-> popular[o].left - 1, list |-> popular[o].list]
          BY <2>2, <3>2
        <4>2. popular[o].left > 0
          BY <2>1, <3>2, NumbersAreNaturals
        <4> QED
          BY <4>1, <4>2
      <3> QED
        BY <3>1, <3>2
    <2> QED
      BY <2>4, <2>5
  <1>5. TypeOK'
    BY <1>1, <1>2, <1>3, <1>4 DEF IInv, TypeOK
  <1>6. Current' = Current
    BY <1>1, TopOfBoards
  <1>7. ServedKeepsUp'
    <2> SUFFICES ASSUME NEW o \in Options, popular'[o].left > 0
                 PROVE  \/ popular'[o].list = Current'[o]
                        \/ quiet' + popular'[o].left <= PopularTTL + RequestTicks
      BY DEF ServedKeepsUp
    <2>1. /\ popular[o].left > 0 /\ popular'[o].left = popular[o].left - 1
          /\ popular'[o].list = popular[o].list
      BY <1>4
    <2>2. \/ popular[o].list = Current[o]
          \/ quiet + popular[o].left <= PopularTTL + RequestTicks
      BY <2>1 DEF IInv, ServedKeepsUp
    <2>3. popular[o].left \in Nat
      BY NumbersAreNaturals DEF IInv, TypeOK
    <2>4. CASE popular[o].list = Current[o]
      BY <1>6, <2>1, <2>4
    <2>5. CASE quiet + popular[o].left <= PopularTTL + RequestTicks
      BY <1>2, <2>1, <2>3, <2>5, NumbersAreNaturals
    <2> QED
      BY <2>2, <2>4, <2>5
  <1>8. ReadKeepsUp'
    <2> SUFFICES ASSUME NEW w \in Workers, At(w, "set_popular")'
                 PROVE  \/ pending'[w].list = Current'[pending'[w].option]
                        \/ quiet' <= spent'[w]
      BY DEF ReadKeepsUp
    <2>1. At(w, "set_popular") /\ pending'[w] = pending[w]
      BY <1>1 DEF At
    <2>2. pending[w].option \in Options /\ pending[w] # Idle
      BY <2>1, AtSetPopular DEF IInv
    <2>3. spent'[w] = spent[w] + 1 /\ spent[w] \in Nat
      BY <1>3, <2>2, NumbersAreNaturals DEF IInv, TypeOK
    <2>4. pending[w].list = Current[pending[w].option] \/ quiet <= spent[w]
      BY <2>1 DEF IInv, ReadKeepsUp
    <2>5. CASE pending[w].list = Current[pending[w].option]
      BY <1>6, <2>1, <2>2, <2>5
    <2>6. CASE quiet <= spent[w]
      BY <1>2, <2>3, <2>6, NumbersAreNaturals
    <2> QED
      BY <2>4, <2>5, <2>6
  <1> QED
    BY <1>5, <1>7, <1>8 DEF IInv
-----------------------------------------------------------------------------
LEMMA NextKeeps ==
    ASSUME IInv, [Next]_vars
    PROVE  IInv'
  <1>1. CASE UNCHANGED vars
    BY <1>1, UnchangedStay, HeldStayKeeps DEF vars, IInv
  <1>2. CASE BoardsStep
    BY <1>2, BoardsStepKeeps
  <1>3. ASSUME NEW w \in Workers, WorkerStep(w)
        PROVE  IInv'
    BY <1>3, CheckModifyKeeps, ModifyKeeps, GetPopularKeeps, ReadPopularKeeps,
       SetPopularKeeps, AbortKeeps DEF WorkerStep
  <1>4. CASE tick
    BY <1>4, TickKeeps
  <1> QED
    BY <1>1, <1>2, <1>3, <1>4 DEF Next

THEOREM Inductive == Spec => []IInv
  BY InitHolds, NextKeeps, PTL DEF Spec

\* The rows, lists and requests of get_popular_board_services keep their kinds.
THEOREM TypesHold == Spec => []TypeOK
  <1>1. IInv => TypeOK
    BY DEF IInv
  <1> QED
    BY Inductive, <1>1, PTL

\* A list that get_popular_board_services serves from Redis is behind the boards
\* by at most a list's life and one request.
THEOREM PopularListsKeepUp == Spec => []PopularKeepsUp
  <1>1. IInv => PopularKeepsUp
    BY DEF IInv, ServedKeepsUp, PopularKeepsUp, Current
  <1> QED
    BY Inductive, <1>1, PTL
==============================================================================
