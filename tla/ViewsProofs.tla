----------------------------- MODULE ViewsProofs -----------------------------
(***************************************************************************)
(* The theorems about Views.  Requests that overlap are told apart by what *)
(* a worker has yet to do: one that has recorded a view either still has   *)
(* to set the key or finds it when it asks again.                          *)
(***************************************************************************)
EXTENDS Views, TLAPS

\* A view that a worker has recorded shows in the key, or will when it sets it.
CountedShows ==
    \A w \in Workers, b \in Boards, v \in Viewers :
        w \in counted[b][v] => view_key[b][v] > 0 \/ w \in Setting(b, v)

\* The key follows the row.
SettingHasView ==
    \A w \in Workers : At(w, "set_key") /\ HasRow(pending[w].on)
        => <<pending[w].on, pending[w].by>> \in viewed

\* Nothing is known of a board that is not there yet.
NoneUntouched ==
    /\ \A w \in Workers : pending[w] # Idle => boards[pending[w].on] # "NONE"
    /\ \A b \in Boards, v \in Viewers : view_key[b][v] > 0 => boards[b] # "NONE"

IInv ==
    /\ TypeOK
    /\ CountedShows /\ ViewCountedOnce
    /\ KeysHaveViews /\ SettingHasView /\ NoneUntouched

LEMMA InitHolds == Init => IInv
  BY BoundsAssumption DEF Init, IInv, TypeOK, CountedShows, ViewCountedOnce, KeysHaveViews,
     SettingHasView, NoneUntouched, At, Idle, View, HasRow

\* A request that is not idle is a view of a board.
LEMMA PendingIsView ==
    ASSUME TypeOK, NEW w \in Workers, pending[w] # Idle
    PROVE  pending[w] \in View
  BY DEF TypeOK

LEMMA AtIsView ==
    ASSUME TypeOK, NEW w \in Workers, NEW call \in {"get_key", "insert", "set_key"}, At(w, call)
    PROVE  pending[w] \in View /\ pending[w] # Idle
  BY DEF TypeOK, At, Idle, View
-----------------------------------------------------------------------------
(* Requests and their workers *)

\* A worker whose request goes on keeps its board and viewer.
LEMMA GoesKeeps ==
    ASSUME TypeOK, NEW w \in Workers, pending[w] \in View, NEW call \in {"insert", "set_key"},
           Goes(w, call)
    PROVE  /\ pending' \in [Workers -> View \cup {Idle}]
           /\ pending'[w] = [at |-> call, on |-> pending[w].on, by |-> pending[w].by]
           /\ \A u \in Workers \ {w} : pending'[u] = pending[u]
           /\ spent' = spent
  <1>1. pending \in [Workers -> View \cup {Idle}]
    BY DEF TypeOK
  <1>2. [pending[w] EXCEPT !.at = call]
            = [at |-> call, on |-> pending[w].on, by |-> pending[w].by]
    BY DEF View
  <1>3. [pending[w] EXCEPT !.at = call] \in View
    BY <1>2 DEF View
  <1> QED
    BY <1>1, <1>2, <1>3 DEF Goes

LEMMA EndsKeeps ==
    ASSUME TypeOK, NEW w \in Workers, Ends(w)
    PROVE  /\ pending' \in [Workers -> View \cup {Idle}]
           /\ pending'[w] = Idle
           /\ \A u \in Workers \ {w} : pending'[u] = pending[u]
           /\ spent' \in [Workers -> 0..RequestTicks]
  BY BoundsAssumption DEF TypeOK, Ends

-----------------------------------------------------------------------------
(* The boards *)

\* A row is there or was not there yet; and views go with it, and only with it.
BoardsMove ==
    /\ boards' \in [Boards -> {"NONE", "LIVE", "DELETED", "PURGED"}]
    /\ \A b \in Boards : boards'[b] = "NONE" => boards[b] = "NONE"
    /\ \A b \in Boards : HasRow(b)' => HasRow(b) \/ boards[b] = "NONE"
    /\ viewed' \subseteq viewed
    /\ \A view \in viewed' : HasRow(view[1])'
    /\ \A view \in viewed : HasRow(view[1])' => view \in viewed'
    /\ UNCHANGED <<view_key, pending, spent, counted>>

LEMMA BoardsStepMoves ==
    ASSUME TypeOK, KeysHaveViews, BoardsStep
    PROVE  BoardsMove
  <1>0. /\ boards \in [Boards -> {"NONE", "LIVE", "DELETED", "PURGED"}]
        /\ \A view \in viewed : view[1] \in Boards /\ HasRow(view[1])
    BY DEF TypeOK, KeysHaveViews
  <1>1. CASE insert_boards_db
    <2>1. PICK b \in Boards : boards[b] = "NONE" /\ Becomes({b}, "LIVE")
      BY <1>1, BoundsAssumption DEF insert_boards_db, Boards
    <2>2. \A c \in Boards : boards'[c] = IF c = b THEN "LIVE" ELSE boards[c]
      BY <2>1 DEF Becomes
    <2>3. boards' \in [Boards -> {"NONE", "LIVE", "DELETED", "PURGED"}]
      BY <1>0, <2>1 DEF Becomes
    <2>4. UNCHANGED <<viewed, view_key, pending, spent, counted>>
      BY <1>1 DEF insert_boards_db
    <2> QED
      BY <1>0, <2>1, <2>2, <2>3, <2>4 DEF BoardsMove, HasRow
  <1>2. ASSUME NEW B \in SUBSET Boards, soft_delete_boards(B)
        PROVE  BoardsMove
    BY <1>0, <1>2 DEF soft_delete_boards, Becomes, BoardsMove, HasRow
  <1>3. ASSUME NEW B \in SUBSET Boards, restore_boards(B)
        PROVE  BoardsMove
    BY <1>0, <1>3 DEF restore_boards, Becomes, BoardsMove, HasRow
  <1>4. ASSUME NEW B \in SUBSET Boards, delete_expired_boards(B)
        PROVE  BoardsMove
    BY <1>0, <1>4 DEF delete_expired_boards, Becomes, BoardsMove, HasRow
  <1> QED
    BY <1>1, <1>2, <1>3, <1>4 DEF BoardsStep

LEMMA BoardsStepKeeps ==
    ASSUME IInv, BoardsStep
    PROVE  IInv'
  <1>1. BoardsMove
    BY BoardsStepMoves DEF IInv
  <1>2. UNCHANGED <<view_key, pending, spent, counted>>
    BY <1>1 DEF BoardsMove
  <1>3. TypeOK'
    BY <1>1, <1>2 DEF IInv, TypeOK, BoardsMove
  <1>4. CountedShows' /\ ViewCountedOnce'
    BY <1>2 DEF IInv, CountedShows, ViewCountedOnce, Setting, At
  <1>5. KeysHaveViews'
    <2>1. ASSUME NEW b \in Boards, NEW v \in Viewers, view_key'[b][v] > 0, HasRow(b)'
          PROVE  <<b, v>> \in viewed'
      <3>1. boards[b] # "NONE"
        BY <1>2, <2>1 DEF IInv, NoneUntouched
      <3>2. HasRow(b)
        BY <1>1, <2>1, <3>1 DEF BoardsMove
      <3>3. <<b, v>> \in viewed
        BY <1>2, <2>1, <3>2 DEF IInv, KeysHaveViews
      <3> QED
        BY <1>1, <2>1, <3>3 DEF BoardsMove
    <2> QED
      BY <1>1, <2>1 DEF KeysHaveViews, BoardsMove
  <1>6. SettingHasView'
    <2>1. ASSUME NEW w \in Workers, At(w, "set_key"), HasRow(pending[w].on)'
          PROVE  <<pending[w].on, pending[w].by>> \in viewed'
      <3>1. /\ pending[w].on \in Boards
            /\ pending[w] # Idle
        BY <2>1, AtIsView DEF IInv, View
      <3>2. HasRow(pending[w].on)
        BY <1>1, <1>2, <2>1, <3>1 DEF BoardsMove, IInv, NoneUntouched
      <3>3. <<pending[w].on, pending[w].by>> \in viewed
        BY <2>1, <3>2 DEF IInv, SettingHasView
      <3> QED
        BY <1>1, <1>2, <2>1, <3>3 DEF BoardsMove
    <2> QED
      BY <1>2, <2>1 DEF SettingHasView, At
  <1>7. NoneUntouched'
    <2>1. \A w \in Workers : pending[w] # Idle => pending[w].on \in Boards
      BY PendingIsView DEF IInv, View
    <2> QED
      BY <1>1, <1>2, <2>1 DEF IInv, NoneUntouched, BoardsMove
  <1> QED
    BY <1>3, <1>4, <1>5, <1>6, <1>7 DEF IInv
-----------------------------------------------------------------------------
(* The requests *)

LEMMA LookKeeps ==
    ASSUME IInv, NEW w \in Workers, NEW b \in Boards, NEW v \in Viewers,
           single_board_info(w, b, v)
    PROVE  IInv'
  <1>1. /\ UNCHANGED <<boards, viewed, view_key, spent, counted>>
        /\ boards[b] = "LIVE" /\ pending[w] = Idle
        /\ pending' = [pending EXCEPT ![w] = [at |-> "get_key", on |-> b, by |-> v]]
    BY DEF single_board_info
  <1>2. TypeOK'
    BY <1>1 DEF IInv, TypeOK, View
  <1>3. /\ pending'[w] = [at |-> "get_key", on |-> b, by |-> v]
        /\ \A u \in Workers \ {w} : pending'[u] = pending[u]
    BY <1>1 DEF IInv, TypeOK
  <1>4. CountedShows'
    BY <1>1, <1>3 DEF IInv, CountedShows, Setting, At, Idle
  <1>5. ViewCountedOnce'
    BY <1>1, <1>3 DEF IInv, ViewCountedOnce, At
  <1>6. KeysHaveViews'
    BY <1>1 DEF IInv, KeysHaveViews, HasRow
  <1>7. SettingHasView'
    BY <1>1, <1>3 DEF IInv, SettingHasView, HasRow, At
  <1>8. NoneUntouched'
    BY <1>1, <1>3 DEF IInv, NoneUntouched
  <1> QED
    BY <1>2, <1>4, <1>5, <1>6, <1>7, <1>8 DEF IInv

\* Ending a request disturbs nothing, unless it has recorded a view.
LEMMA EndKeeps ==
    ASSUME IInv, NEW w \in Workers, Ends(w), ~At(w, "set_key"),
           UNCHANGED <<boards, viewed, view_key, counted>>
    PROVE  IInv'
  <1>1. /\ pending' \in [Workers -> View \cup {Idle}]
        /\ pending'[w] = Idle
        /\ \A u \in Workers \ {w} : pending'[u] = pending[u]
        /\ spent' \in [Workers -> 0..RequestTicks]
    BY EndsKeeps DEF IInv
  <1>2. TypeOK'
    BY <1>1 DEF IInv, TypeOK
  <1>4. CountedShows'
    BY <1>1 DEF IInv, CountedShows, Setting, At
  <1>5. ViewCountedOnce'
    BY <1>1 DEF IInv, ViewCountedOnce, At, Idle
  <1>6. KeysHaveViews'
    BY DEF IInv, KeysHaveViews, HasRow
  <1>7. SettingHasView'
    BY <1>1 DEF IInv, SettingHasView, HasRow, At, Idle
  <1>8. NoneUntouched'
    BY <1>1 DEF IInv, NoneUntouched
  <1> QED
    BY <1>2, <1>4, <1>5, <1>6, <1>7, <1>8 DEF IInv

LEMMA GetKeyKeeps ==
    ASSUME IInv, NEW w \in Workers, get_view_key(w)
    PROVE  IInv'
  <1>1. /\ pending[w] \in View /\ pending[w] # Idle /\ At(w, "get_key")
        /\ UNCHANGED <<boards, viewed, view_key, counted>>
    BY AtIsView DEF get_view_key, IInv
  <1>2. CASE view_key[pending[w].on][pending[w].by] = 0
    <2>1. Goes(w, "insert")
      BY <1>2 DEF get_view_key
    <2>2. /\ pending' \in [Workers -> View \cup {Idle}]
          /\ pending'[w] = [at |-> "insert", on |-> pending[w].on, by |-> pending[w].by]
          /\ \A u \in Workers \ {w} : pending'[u] = pending[u]
          /\ spent' = spent
      BY <1>1, <2>1, GoesKeeps DEF IInv
    <2>3. w \notin counted[pending[w].on][pending[w].by]
      BY <1>1, <1>2 DEF IInv, CountedShows, Setting, At, View
    <2>4. TypeOK'
      BY <1>1, <2>2 DEF IInv, TypeOK
    <2>5. CountedShows'
      BY <1>1, <2>2 DEF IInv, CountedShows, Setting, At
    <2>6. ViewCountedOnce'
      BY <1>1, <2>2, <2>3 DEF IInv, ViewCountedOnce, At
    <2>7. KeysHaveViews'
      BY <1>1 DEF IInv, KeysHaveViews, HasRow
    <2>8. SettingHasView'
      BY <1>1, <2>2 DEF IInv, SettingHasView, HasRow, At
    <2>9. NoneUntouched'
      BY <1>1, <2>2 DEF IInv, NoneUntouched
    <2> QED
      BY <2>4, <2>5, <2>6, <2>7, <2>8, <2>9 DEF IInv
  <1>3. CASE view_key[pending[w].on][pending[w].by] # 0
    <2>1. Ends(w)
      BY <1>3 DEF get_view_key
    <2> QED
      BY <1>1, <2>1, EndKeeps DEF At
  <1> QED
    BY <1>2, <1>3

LEMMA InsertKeeps ==
    ASSUME IInv, NEW w \in Workers, insert_boards_view_info(w)
    PROVE  IInv'
  <1>1. /\ pending[w] \in View /\ pending[w] # Idle /\ At(w, "insert")
        /\ UNCHANGED <<boards, view_key>>
    BY AtIsView DEF insert_boards_view_info, IInv
  <1>2. CASE ~HasRow(pending[w].on)
    <2>1. Ends(w) /\ UNCHANGED <<viewed, counted>>
      BY <1>2 DEF insert_boards_view_info
    <2> QED
      BY <1>1, <2>1, EndKeeps DEF At
  <1>3. CASE HasRow(pending[w].on)
    <2> DEFINE b == pending[w].on
               v == pending[w].by
    <2>1. Goes(w, "set_key")
      BY <1>3 DEF insert_boards_view_info
    <2>2. /\ pending' \in [Workers -> View \cup {Idle}]
          /\ pending'[w] = [at |-> "set_key", on |-> b, by |-> v]
          /\ \A u \in Workers \ {w} : pending'[u] = pending[u]
          /\ spent' = spent
      BY <1>1, <2>1, GoesKeeps DEF IInv
    <2>3. /\ viewed' = viewed \cup {<<b, v>>}
          /\ counted' = [counted EXCEPT ![b][v] = @ \cup {w}]
          /\ b \in Boards /\ v \in Viewers
      BY <1>1, <1>3 DEF insert_boards_view_info, View
    <2>4. /\ counted' \in [Boards -> [Viewers -> SUBSET Workers]]
          /\ \A c \in Boards, u \in Viewers : counted'[c][u] =
                 IF c = b /\ u = v THEN counted[c][u] \cup {w} ELSE counted[c][u]
      BY <2>3 DEF IInv, TypeOK
    <2>a. \A x \in Workers, c \in Boards, u \in Viewers : x \in counted'[c][u]
              => x \in counted[c][u] \/ (x = w /\ c = b /\ u = v)
      <3> SUFFICES ASSUME NEW x \in Workers, NEW c \in Boards, NEW u \in Viewers,
                          x \in counted'[c][u]
                   PROVE  x \in counted[c][u] \/ (x = w /\ c = b /\ u = v)
        OBVIOUS
      <3>1. CASE c = b /\ u = v
        <4>1. counted'[c][u] = counted[c][u] \cup {w}
          BY <2>4, <3>1
        <4>2. x \in counted[c][u] \/ x = w
          BY <4>1
        <4> QED
          BY <3>1, <4>2
      <3>2. CASE ~(c = b /\ u = v)
        BY <2>4, <3>2
      <3> QED
        BY <3>1, <3>2
    <2>5. TypeOK'
      BY <1>1, <2>2, <2>3, <2>4 DEF IInv, TypeOK
    <2>6. CountedShows'
      BY <1>1, <2>2, <2>a DEF IInv, CountedShows, Setting, At
    <2>7. ViewCountedOnce'
      BY <1>1, <2>2, <2>a DEF IInv, ViewCountedOnce, At
    <2>8. KeysHaveViews'
      BY <1>1, <1>3, <2>3 DEF IInv, KeysHaveViews, HasRow
    <2>9. SettingHasView'
      BY <1>1, <2>2, <2>3 DEF IInv, SettingHasView, HasRow, At
    <2>10. NoneUntouched'
      BY <1>1, <2>2 DEF IInv, NoneUntouched
    <2> QED
      BY <2>5, <2>6, <2>7, <2>8, <2>9, <2>10 DEF IInv
  <1> QED
    BY <1>2, <1>3

LEMMA SetKeyKeeps ==
    ASSUME IInv, NEW w \in Workers, set_view_key(w)
    PROVE  IInv'
  <1> DEFINE b == pending[w].on
             v == pending[w].by
  <1>1. /\ pending[w] \in View /\ pending[w] # Idle /\ At(w, "set_key")
        /\ UNCHANGED <<boards, viewed, counted>> /\ Ends(w)
        /\ view_key' = [view_key EXCEPT ![b][v] = ViewTTL]
        /\ b \in Boards /\ v \in Viewers
    BY AtIsView DEF set_view_key, IInv, View
  <1>2. /\ pending' \in [Workers -> View \cup {Idle}]
        /\ pending'[w] = Idle
        /\ \A u \in Workers \ {w} : pending'[u] = pending[u]
        /\ spent' \in [Workers -> 0..RequestTicks]
    BY <1>1, EndsKeeps DEF IInv
  <1>3. /\ view_key' \in [Boards -> [Viewers -> 0..ViewTTL]]
        /\ \A c \in Boards, u \in Viewers :
               view_key'[c][u] = IF c = b /\ u = v THEN ViewTTL ELSE view_key[c][u]
    BY <1>1, BoundsAssumption DEF IInv, TypeOK
  <1>4. ViewTTL > 0
    BY BoundsAssumption
  <1>5. TypeOK'
    BY <1>1, <1>2, <1>3 DEF IInv, TypeOK
  <1>6. CountedShows'
    BY <1>1, <1>2, <1>3, <1>4 DEF IInv, CountedShows, Setting, At
  <1>7. ViewCountedOnce'
    BY <1>1, <1>2 DEF IInv, ViewCountedOnce, At, Idle
  <1>8. KeysHaveViews'
    BY <1>1, <1>3, <1>4 DEF IInv, KeysHaveViews, SettingHasView, HasRow
  <1>9. SettingHasView'
    BY <1>1, <1>2 DEF IInv, SettingHasView, HasRow, At, Idle
  <1>10. NoneUntouched'
    BY <1>1, <1>2, <1>3 DEF IInv, NoneUntouched
  <1> QED
    BY <1>5, <1>6, <1>7, <1>8, <1>9, <1>10 DEF IInv

LEMMA AbortKeeps ==
    ASSUME IInv, NEW w \in Workers, abort(w)
    PROVE  IInv'
  <1>1. /\ pending[w] # Idle /\ Ends(w) /\ UNCHANGED <<boards, viewed, view_key>>
    BY DEF abort
  <1>2. CASE ~At(w, "set_key")
    BY <1>1, <1>2, EndKeeps DEF abort
  <1>3. CASE At(w, "set_key")
    <2> DEFINE b == pending[w].on
               v == pending[w].by
    <2>1. /\ counted' = [counted EXCEPT ![b][v] = @ \ {w}]
          /\ b \in Boards /\ v \in Viewers
      BY <1>3, AtIsView DEF abort, IInv, View
    <2>2. /\ pending' \in [Workers -> View \cup {Idle}]
          /\ pending'[w] = Idle
          /\ \A u \in Workers \ {w} : pending'[u] = pending[u]
          /\ spent' \in [Workers -> 0..RequestTicks]
      BY <1>1, EndsKeeps DEF IInv
    <2>3. /\ counted' \in [Boards -> [Viewers -> SUBSET Workers]]
          /\ \A c \in Boards, u \in Viewers : counted'[c][u] =
                 IF c = b /\ u = v THEN counted[c][u] \ {w} ELSE counted[c][u]
      BY <2>1 DEF IInv, TypeOK
    <2>a. \A x \in Workers, c \in Boards, u \in Viewers : x \in counted'[c][u]
              => x \in counted[c][u] /\ ~(x = w /\ c = b /\ u = v)
      BY <2>3
    <2>4. TypeOK'
      BY <1>1, <2>2, <2>3 DEF IInv, TypeOK
    <2>5. CountedShows'
      BY <1>1, <1>3, <2>2, <2>a DEF IInv, CountedShows, Setting, At
    <2>6. ViewCountedOnce'
      BY <1>1, <2>2, <2>a DEF IInv, ViewCountedOnce, At, Idle
    <2>7. KeysHaveViews'
      BY <1>1 DEF IInv, KeysHaveViews, HasRow
    <2>8. SettingHasView'
      BY <1>1, <2>2 DEF IInv, SettingHasView, HasRow, At, Idle
    <2>9. NoneUntouched'
      BY <1>1, <2>2 DEF IInv, NoneUntouched
    <2> QED
      BY <2>4, <2>5, <2>6, <2>7, <2>8, <2>9 DEF IInv
  <1> QED
    BY <1>2, <1>3

LEMMA TickKeeps ==
    ASSUME IInv, tick
    PROVE  IInv'
  <1>1. /\ UNCHANGED <<boards, viewed, pending>>
        /\ \A w \in Workers : pending[w] # Idle => spent[w] < RequestTicks
        /\ spent' = [w \in Workers |-> IF pending[w] = Idle THEN 0 ELSE spent[w] + 1]
    BY DEF tick
  <1>2. spent' \in [Workers -> 0..RequestTicks]
    BY <1>1, BoundsAssumption DEF IInv, TypeOK
  <1>3. /\ view_key' \in [Boards -> [Viewers -> 0..ViewTTL]]
        /\ \A b \in Boards, v \in Viewers :
               /\ view_key'[b][v] > 0 => view_key[b][v] > 0
               /\ view_key[b][v] > 1 => view_key'[b][v] > 0
    BY BoundsAssumption DEF tick, Less, IInv, TypeOK
  <1>4. /\ counted' \in [Boards -> [Viewers -> SUBSET Workers]]
        /\ \A b \in Boards, v \in Viewers : counted'[b][v] =
               IF view_key[b][v] = 1 THEN counted[b][v] \cap Setting(b, v) ELSE counted[b][v]
    BY DEF tick, IInv, TypeOK
  <1>a. \A w \in Workers, b \in Boards, v \in Viewers : w \in counted'[b][v]
            => w \in counted[b][v] /\ (view_key[b][v] # 1 \/ w \in Setting(b, v))
    BY <1>4
  <1>5. TypeOK'
    BY <1>1, <1>2, <1>3, <1>4 DEF IInv, TypeOK
  <1>6. CountedShows'
    <2>1. ASSUME NEW w \in Workers, NEW b \in Boards, NEW v \in Viewers, w \in counted'[b][v]
          PROVE  view_key'[b][v] > 0 \/ w \in Setting(b, v)
      <3>1. /\ view_key[b][v] # 1 \/ w \in Setting(b, v)
            /\ view_key[b][v] > 0 \/ w \in Setting(b, v)
        BY <1>a, <2>1 DEF IInv, CountedShows
      <3>2. view_key[b][v] \in Nat
        BY BoundsAssumption DEF IInv, TypeOK
      <3> QED
        BY <1>3, <3>1, <3>2
    <2> QED
      BY <1>1, <2>1 DEF CountedShows, Setting, At
  <1>7. ViewCountedOnce'
    BY <1>1, <1>a DEF IInv, ViewCountedOnce, At
  <1>8. KeysHaveViews'
    BY <1>1, <1>3 DEF IInv, KeysHaveViews, HasRow
  <1>9. SettingHasView'
    BY <1>1 DEF IInv, SettingHasView, HasRow, At
  <1>10. NoneUntouched'
    BY <1>1, <1>3 DEF IInv, NoneUntouched
  <1> QED
    BY <1>5, <1>6, <1>7, <1>8, <1>9, <1>10 DEF IInv
-----------------------------------------------------------------------------
LEMMA NextKeeps ==
    ASSUME IInv, [Next]_vars
    PROVE  IInv'
  <1>1. CASE UNCHANGED vars
    BY <1>1 DEF vars, IInv, TypeOK, CountedShows, ViewCountedOnce, KeysHaveViews,
       SettingHasView, NoneUntouched, Setting, At, HasRow
  <1>2. CASE BoardsStep
    BY <1>2, BoardsStepKeeps
  <1>3. ASSUME NEW w \in Workers, WorkerStep(w)
        PROVE  IInv'
    BY <1>3, LookKeeps, GetKeyKeeps, InsertKeeps, SetKeyKeeps, AbortKeeps DEF WorkerStep
  <1>4. CASE tick
    BY <1>4, TickKeeps
  <1> QED
    BY <1>1, <1>2, <1>3, <1>4 DEF Next

THEOREM Inductive == Spec => []IInv
  BY InitHolds, NextKeeps, PTL DEF Spec

\* The rows, keys and requests of single_board_info_services keep their kinds.
THEOREM TypesHold == Spec => []TypeOK
  <1>1. IInv => TypeOK
    BY DEF IInv
  <1> QED
    BY Inductive, <1>1, PTL

\* While the five-minute key of single_board_info_services lasts, no worker
\* records the same view twice.
THEOREM ViewsCountOnce == Spec => []ViewCountedOnce
  <1>1. IInv => ViewCountedOnce
    BY DEF IInv
  <1> QED
    BY Inductive, <1>1, PTL

\* A key that single_board_info_services has set stands for a row of boards_view,
\* and the rows go with their board.
THEOREM KeysStandForViews == Spec => []KeysHaveViews
  <1>1. IInv => KeysHaveViews
    BY DEF IInv
  <1> QED
    BY Inductive, <1>1, PTL
==============================================================================
