-------------------------- MODULE RetentionProofs --------------------------
(***************************************************************************)
(* Proofs that deleted content is retained: ContentLifecycle implements    *)
(* Retention, for any rows, any number of overlapping requests, and any    *)
(* windows in the order of WindowsAssumption; and, with FileStorage, every *)
(* row that is shown or not yet due for removal has its content, but for   *)
(* the restorations that reach the day of the removal.                     *)
(***************************************************************************)
EXTENDS ContentRetention, FileStorage, ContentProofs

-----------------------------------------------------------------------------
(* The mapping *)

LEMMA FilesMapped ==
    ASSUME files \in [Files -> FileRows], NEW f \in Files
    PROVE  /\ R!Kept(f) <=> IsDeleted(files[f])
           /\ R!Shown(f) <=> IsLive(files[f])
           /\ R!Present(f) <=> IsRow(files[f])
           /\ fileBar[f].place = "NONE" <=> files[f].mark = "UNBORN"
           /\ fileBar[f].place = "WITH_BOARD" <=> files[f].mark = "BOARD_CASCADE"
           /\ fileBar[f].place = "WITH_USER" <=> files[f].mark = "USER_CASCADE"
           /\ IsDeleted(files[f]) => fileBar[f].days = files[f].age
<1>1. fileBar[f] = [place |-> PlaceOf[files[f].mark],
                    days |-> IF IsDeleted(files[f]) THEN files[f].age ELSE 0]
  BY DEF fileBar, KeptOf
<1>2. files[f].mark \in {"UNBORN", "LIVE", "PURGED"} \cup FileMarks
  BY DEF FileRows
<1>3. fileBar[f].place = PlaceOf[files[f].mark]
  BY <1>1
<1>4. /\ fileBar[f].place = "NONE" <=> files[f].mark = "UNBORN"
      /\ fileBar[f].place = "SHOWN" <=> files[f].mark = "LIVE"
      /\ fileBar[f].place = "WITH_BOARD" <=> files[f].mark = "BOARD_CASCADE"
      /\ fileBar[f].place = "WITH_USER" <=> files[f].mark = "USER_CASCADE"
      /\ fileBar[f].place = "BIN" <=> files[f].mark \in {"USER", "ADMIN_SCHEDULED"}
  BY <1>2, <1>3 DEF PlaceOf, FileMarks
<1>5. R!Shown(f) <=> IsLive(files[f])
  BY <1>4 DEF R!Shown, IsLive
<1>6. R!Kept(f) <=> IsDeleted(files[f])
  BY <1>2, <1>4 DEF R!Kept, IsDeleted, IsRow, IsLive, FileMarks
<1>7. R!Present(f) <=> IsRow(files[f])
  BY <1>5, <1>6 DEF R!Present, IsDeleted, IsRow, IsLive
<1> QED
  BY <1>1, <1>4, <1>5, <1>6, <1>7

LEMMA SetsMapped ==
    ASSUME files \in [Files -> FileRows]
    PROVE  /\ \A b : R!On(b) = FilesOf(b)
           /\ \A u : R!By(u) = UserFiles(u)
           /\ \A b : {f \in R!On(b) : R!Shown(f)} = LiveFiles(files, b)
           /\ \A b : {f \in R!On(b) : R!Present(f)}
                        = {f \in FilesOf(b) : IsRow(files[f])}
           /\ \A u : {f \in R!By(u) : R!Shown(f)}
                        = {f \in UserFiles(u) : IsLive(files[f])}
           /\ \A u : {f \in R!By(u) : R!Present(f)}
                        = {f \in UserFiles(u) : IsRow(files[f])}
           /\ \A b : R!TakenWithBoard(b)
                        = {f \in FilesOf(b) : files[f].mark = "BOARD_CASCADE"}
           /\ \A u : R!TakenWithUser(u)
                        = {f \in UserFiles(u) : files[f].mark = "USER_CASCADE"}
<1>1. (\A b : R!On(b) = FilesOf(b)) /\ (\A u : R!By(u) = UserFiles(u))
  BY DEF R!On, R!By, FilesOf, UserFiles
<1>2. /\ \A b : FilesOf(b) \subseteq Files
      /\ \A u : UserFiles(u) \subseteq Files
  BY DEF FilesOf, UserFiles
<1> QED
  BY <1>1, <1>2, FilesMapped DEF LiveFiles, R!TakenWithBoard, R!TakenWithUser

\* Marking files is moving them.
LEMMA MarkingMoves ==
    ASSUME files \in [Files -> FileRows], NEW S \in SUBSET Files,
           NEW mark \in {"LIVE", "PURGED"} \cup FileMarks,
           files' = MarkFiles(S, mark)
    PROVE  fileBar' = R!Moved(S, PlaceOf[mark])
<1>1. \A f \in Files : KeptOf(f)' = IF f \in S THEN [place |-> PlaceOf[mark], days |-> 0]
                                    ELSE KeptOf(f)
  <2> TAKE f \in Files
  <2>1. CASE f \in S
    <3>1. files'[f] = [mark |-> mark, age |-> 0]
      BY <2>1 DEF MarkFiles
    <3> QED
      BY <2>1, <3>1 DEF KeptOf, PlaceOf
  <2>2. CASE f \notin S
    <3>1. files'[f] = files[f]
      BY <2>2 DEF MarkFiles
    <3> QED
      BY <2>2, <3>1 DEF KeptOf, PlaceOf, IsDeleted, IsRow, IsLive
  <2> QED
    BY <2>1, <2>2
<1> QED
  BY <1>1 DEF fileBar, R!Moved

\* Boards that keep mark and age are where they were.
LEMMA BoardsStay ==
    ASSUME \A b \in Boards : boards'[b].mark = boards[b].mark
                                /\ boards'[b].age = boards[b].age
    PROVE  boardBar' = boardBar
BY DEF boardBar, StateOf, IsDeleted, IsRow, IsLive

LEMMA TotalsStay ==
    ASSUME boards \in [Boards -> BoardRows], NEW bs \in [Boards -> BoardRows],
           NEW b \in Boards
    PROVE  /\ \A c, t : /\ update_total_board_fsize(bs, c, t)[b].mark = bs[b].mark
                        /\ update_total_board_fsize(bs, c, t)[b].age = bs[b].age
           /\ \A u : /\ update_all_user_boards_total_fsize(boards, u)[b].mark
                           = boards[b].mark
                     /\ update_all_user_boards_total_fsize(boards, u)[b].age
                           = boards[b].age
           /\ \A u, fs : /\ recalculate_all_user_boards_total_fsize(boards, fs, u)[b].mark
                               = boards[b].mark
                         /\ recalculate_all_user_boards_total_fsize(boards, fs, u)[b].age
                               = boards[b].age
<1>1. \A c, t : /\ update_total_board_fsize(bs, c, t)[b].mark = bs[b].mark
                /\ update_total_board_fsize(bs, c, t)[b].age = bs[b].age
  BY DEF update_total_board_fsize, BoardRows
<1>2. \A u : /\ update_all_user_boards_total_fsize(boards, u)[b].mark = boards[b].mark
             /\ update_all_user_boards_total_fsize(boards, u)[b].age = boards[b].age
  BY DEF update_all_user_boards_total_fsize, BoardRows
<1>3. ASSUME NEW u, NEW fs
      PROVE  /\ recalculate_all_user_boards_total_fsize(boards, fs, u)[b].mark
                   = boards[b].mark
             /\ recalculate_all_user_boards_total_fsize(boards, fs, u)[b].age
                   = boards[b].age
  <2> DEFINE t(c) == get_total_fsize(fs, c)
  <2> HIDE DEF t
  <2>1. recalculate_all_user_boards_total_fsize(boards, fs, u)
          = [c \in Boards |-> IF Owner[c] = u /\ IsRow(boards[c])
                              THEN [boards[c] EXCEPT !.total = t(c)] ELSE boards[c]]
    BY DEF recalculate_all_user_boards_total_fsize, t
  <2> QED
    BY <2>1 DEF BoardRows
<1> QED
  BY <1>1, <1>2, <1>3
-----------------------------------------------------------------------------
(* The transactions, one abstract step each *)

Stays == accountBar' = accountBar /\ boardBar' = boardBar /\ fileBar' = fileBar

Implements == R!Next \/ Stays

LEMMA NothingMoves ==
    \A place : R!Moved({}, place) = fileBar
BY DEF R!Moved, fileBar

\* The transactions on files alone leave accounts and boards where they are.
LEMMA OnlyTotals ==
    ASSUME IInv, users' = users, NEW b, NEW t,
           boards' = boards \/ boards' = update_total_board_fsize(boards, b, t)
    PROVE  accountBar' = accountBar /\ boardBar' = boardBar
<1>1. accountBar' = accountBar
  BY DEF accountBar, AccountOf, IsLive
<1>2. boards \in [Boards -> BoardRows]
  BY DEF IInv, TypeOK
<1>3. \A c \in Boards : boards'[c].mark = boards[c].mark /\ boards'[c].age = boards[c].age
  BY <1>2, TotalsStay
<1> QED
  BY <1>1, <1>3, BoardsStay

\* A request that is about to erase is an order.
LEMMA RequestOrders ==
    ASSUME NEW w \in Workers, pending[w].arg = "ADMIN_IMMEDIATE"
    PROVE  LET r == pending[w] IN
           /\ r.op = "admin_delete_user" => <<"user", r.on>> \in ordersBar
           /\ r.op = "admin_delete_board" => <<"board", r.on>> \in ordersBar
           /\ r.op = "admin_delete_all_board_files" => <<"files", r.on>> \in ordersBar
           /\ r.op = "admin_delete_one_file" => <<"file", r.on>> \in ordersBar
<1>1. \A kind, op : pending[w].op = op => <<kind, pending[w].on>> \in Ordered(kind, op)
  BY DEF Ordered
<1> QED
  BY <1>1 DEF ordersBar

LEMMA FileTxnsImplement ==
    ASSUME IInv, NEW w \in Workers,
           \/ upload_files_txn(w) \/ delete_file_txn(w) \/ restore_file_txn(w)
           \/ admin_delete_one_file_txn(w) \/ admin_restore_file_txn(w)
    PROVE  Implements
<1> DEFINE r == pending[w]
           f == r.on
           b == BoardOf[f]
<1>1. r.op \in FileOps /\ f \in Files /\ r # Idle /\ r.arg \in ArgsOf(r.op)
  <2>1. r.op \in FileOps
    BY DEF upload_files_txn, delete_file_txn, restore_file_txn, FileOps, Commit,
           admin_delete_one_file_txn, admin_restore_file_txn,
           delete_one_file_txn, restore_one_file_txn
  <2> QED
    BY <2>1, RequestType DEF IInv
<1>2. files \in [Files -> FileRows] /\ boards \in [Boards -> BoardRows]
  BY DEF IInv, TypeOK
<1>3. users' = users /\ boards' = update_total_board_fsize(boards, b, get_total_fsize(files', b))
  BY DEF upload_files_txn, delete_file_txn, restore_file_txn,
         admin_delete_one_file_txn, admin_restore_file_txn,
         delete_one_file_txn, restore_one_file_txn
<1>4. accountBar' = accountBar /\ boardBar' = boardBar
  BY <1>3, OnlyTotals
<1>5. CASE files' = files
  BY <1>4, <1>5 DEF Implements, Stays, fileBar, KeptOf, IsDeleted, IsRow, IsLive
<1>6. CASE upload_files_txn(w)
  <2>1. files[f].mark = "UNBORN"
    BY <1>6, <1>1 DEF upload_files_txn, Commit, IInv, CreationsDistinct, Creations,
                      RowOf, UserOps, BoardOps
  <2>2. CASE IsRow(boards[b])
    <3>1. b \in Boards
      BY <1>1, Relations
    <3>2. boards[b].mark \in {"LIVE"} \cup BoardMarks
      BY <2>2, <3>1, <1>2 DEF BoardRows, IsRow
    <3>3. boardBar[b].state \in {"OPEN", "CLOSED"}
      BY <3>1, <3>2 DEF boardBar, StateOf, IsDeleted, IsRow, IsLive, BoardMarks
    <3>4. files' = MarkFiles({f}, "LIVE")
      BY <1>6, <2>2 DEF upload_files_txn
    <3>5. fileBar' = R!Moved({f}, "SHOWN")
      BY <1>1, <1>2, <3>4, MarkingMoves DEF PlaceOf
    <3>6. fileBar[f].place = "NONE"
      BY <1>1, <1>2, <2>1, FilesMapped
    <3>7. R!Publish(f)
      BY <1>4, <3>3, <3>5, <3>6 DEF R!Publish
    <3> QED
      BY <1>1, <3>7 DEF Implements, R!Next
  <2>3. CASE ~IsRow(boards[b])
    BY <1>5, <1>6, <2>3 DEF upload_files_txn
  <2> QED
    BY <2>2, <2>3
<1>7. ASSUME NEW mark \in {"LIVE", "USER", "ADMIN_SCHEDULED", "PURGED"},
             files' = MarkFiles({g \in {f} : IsRow(files[g])}, mark)
      PROVE  /\ IsRow(files[f]) => fileBar' = R!Moved({f}, PlaceOf[mark])
             /\ ~IsRow(files[f]) => Implements
  <2>1. CASE IsRow(files[f])
    <3>1. {g \in {f} : IsRow(files[g])} = {f}
      BY <2>1
    <3> QED
      BY <1>1, <1>2, <1>7, <2>1, <3>1, MarkingMoves DEF FileMarks
  <2>2. CASE ~IsRow(files[f])
    <3>1. {g \in {f} : IsRow(files[g])} = {}
      BY <2>2
    <3>2. fileBar' = R!Moved({}, PlaceOf[mark])
      BY <1>2, <1>7, <3>1, MarkingMoves DEF FileMarks
    <3> QED
      BY <1>4, <2>2, <3>2, NothingMoves DEF Implements, Stays
  <2> QED
    BY <2>1, <2>2
<1>8. ASSUME NEW op, NEW mark \in {"USER", "ADMIN_SCHEDULED", "PURGED"},
             delete_one_file_txn(w, op, mark),
             mark = "PURGED" => <<"file", f>> \in ordersBar
      PROVE  Implements
  <2>1. files' = MarkFiles({g \in {f} : IsRow(files[g])}, mark)
    BY <1>8 DEF delete_one_file_txn
  <2>2. CASE IsRow(files[f])
    <3>1. fileBar' = R!Moved({f}, PlaceOf[mark]) /\ R!Present(f)
      BY <1>1, <1>2, <1>7, <2>1, <2>2, FilesMapped
    <3>2. R!Discard(f) \/ R!EraseFile(f)
      BY <1>4, <1>8, <3>1 DEF R!Discard, R!EraseFile, PlaceOf
    <3> QED
      BY <1>1, <3>2 DEF Implements, R!Next
  <2> QED
    BY <1>7, <2>1, <2>2
<1>9. CASE delete_file_txn(w)
  BY <1>8, <1>9 DEF delete_file_txn
<1>10. CASE admin_delete_one_file_txn(w)
  <2>1. mark_written(r.arg) \in {"USER", "ADMIN_SCHEDULED", "PURGED"}
    BY <1>1, <1>10 DEF admin_delete_one_file_txn, delete_one_file_txn, Commit, ArgsOf,
                       FileDeleteOptions, mark_written
  <2>2. r.op = "admin_delete_one_file"
    BY <1>10 DEF admin_delete_one_file_txn, delete_one_file_txn, Commit
  <2>3. mark_written(r.arg) = "PURGED" => r.arg \in {"PURGED", "ADMIN_IMMEDIATE"}
    BY DEF mark_written
  <2>4. r.arg # "PURGED"
    BY <1>1, <2>2 DEF ArgsOf, FileDeleteOptions
  <2>5. mark_written(r.arg) = "PURGED" => <<"file", f>> \in ordersBar
    BY <2>2, <2>3, <2>4, RequestOrders
  <2> QED
    BY <1>8, <1>10, <2>1, <2>5 DEF admin_delete_one_file_txn
<1>11. ASSUME NEW op \in {"restore_file", "admin_restore_file"},
              restore_one_file_txn(w, op)
       PROVE  Implements
  <2>1. r.op = op /\ files' = MarkFiles({g \in {f} : IsRow(files[g])}, "LIVE")
    BY <1>11 DEF restore_one_file_txn, Commit
  <2>2. CASE IsDeleted(files[f])
    <3>1. files[f].age <= WindowOf(r)
      BY <1>1, <2>2 DEF IInv, RequestsInWindow, RowOf, FileOps, UserOps, BoardOps
    <3>2. files[f].age <= AdminRestoreDays
      <4>1. files[f].age \in Int
        BY <1>1, <1>2 DEF FileRows, Ages
      <4>2. WindowOf(r) \in {UserRestoreDays, AdminRestoreDays}
        BY <2>1 DEF WindowOf
      <4> QED
        BY <3>1, <4>1, <4>2, WindowsAssumption DEF WindowsAssumption
    <3>3. fileBar' = R!Moved({f}, "SHOWN")
      BY <1>7, <2>1, <2>2 DEF IsDeleted, PlaceOf
    <3>4. R!Kept(f) /\ R!InTime({f})
      BY <1>1, <1>2, <2>2, <3>2, FilesMapped DEF R!InTime
    <3>5. R!ReturnFile(f)
      BY <1>4, <3>3, <3>4 DEF R!ReturnFile
    <3> QED
      BY <1>1, <3>5 DEF Implements, R!Next
  <2>3. CASE IsLive(files[f])
    <3>1. fileBar' = R!Moved({f}, "SHOWN")
      BY <1>7, <2>1, <2>3 DEF IsLive, IsRow, PlaceOf
    <3>2. fileBar[f] = [place |-> "SHOWN", days |-> 0]
      BY <1>1, <2>3 DEF fileBar, KeptOf, PlaceOf, IsLive, IsDeleted
    <3>3. fileBar' = fileBar
      BY <3>1, <3>2 DEF R!Moved, fileBar
    <3> QED
      BY <1>4, <3>3 DEF Implements, Stays
  <2> QED
    BY <1>7, <2>1, <2>2, <2>3 DEF IsDeleted
<1>12. CASE restore_file_txn(w) \/ admin_restore_file_txn(w)
  BY <1>11, <1>12 DEF restore_file_txn, admin_restore_file_txn
<1> QED
  BY <1>6, <1>9, <1>10, <1>12

\* A request on a board is on a board, as old as its check allows.
LEMMA BoardOfRequest ==
    ASSUME IInv, NEW w \in Workers, NEW r, r = pending[w], r.op \in BoardOps
    PROVE  /\ r.on \in Boards /\ r.arg \in ArgsOf(r.op)
           /\ IsDeleted(boards[r.on]) => boards[r.on].age <= WindowOf(r)
<1>1. r # Idle /\ r.on \in Boards /\ r.arg \in ArgsOf(r.op)
  BY RequestType DEF IInv
<1>2. RowOf(r) = boards[r.on]
  BY DEF RowOf, UserOps, BoardOps
<1> QED
  BY <1>1, <1>2 DEF IInv, RequestsInWindow

LEMMA CascadeAges ==
    ASSUME IInv, NEW f \in Files
    PROVE  /\ files[f].mark = "BOARD_CASCADE"
                => /\ IsDeleted(files[f])
                   /\ IsDeleted(boards[BoardOf[f]])
                   /\ files[f].age = boards[BoardOf[f]].age
           /\ files[f].mark = "USER_CASCADE"
                => /\ IsDeleted(files[f])
                   /\ IsDeleted(users[Owner[BoardOf[f]]])
                   /\ files[f].age = users[Owner[BoardOf[f]]].age
BY DEF IInv, CascadeFollowsCause, CauseStands, IsDeleted, IsRow, IsLive

LEMMA BoardFilesTxnsImplement ==
    ASSUME IInv, NEW w \in Workers,
           \/ delete_all_txn(w) \/ restore_all_file_txn(w)
           \/ admin_delete_all_board_files_txn(w) \/ admin_restore_all_files_txn(w)
    PROVE  Implements
<1> DEFINE r == pending[w]
           b == r.on
<1>1. files \in [Files -> FileRows]
  BY DEF IInv, TypeOK
<1>2. accountBar' = accountBar /\ boardBar' = boardBar
  BY OnlyTotals DEF delete_all_txn, restore_all_file_txn,
                    admin_delete_all_board_files_txn, admin_restore_all_files_txn
<1>3. r.op \in BoardOps
  BY DEF delete_all_txn, restore_all_file_txn, admin_delete_all_board_files_txn,
         admin_restore_all_files_txn, Commit, BoardOps
<1>4. b \in Boards /\ (IsDeleted(boards[b]) => boards[b].age <= WindowOf(r))
  BY <1>3, BoardOfRequest
<1>5. CASE \/ delete_all_txn(w)
           \/ admin_delete_all_board_files_txn(w) /\ r.arg # "ADMIN_IMMEDIATE"
  <2>1. \E mark \in {"USER", "ADMIN_SCHEDULED"} :
           files' = MarkFiles(LiveFiles(files, b), mark)
    BY <1>5 DEF delete_all_txn, admin_delete_all_board_files_txn
  <2>2. LiveFiles(files, b) \subseteq Files
    BY DEF LiveFiles, FilesOf
  <2>3. fileBar' = R!Moved(LiveFiles(files, b), "BIN")
    BY <1>1, <2>1, <2>2, MarkingMoves DEF FileMarks, PlaceOf
  <2>4. R!DiscardAll(b)
    BY <1>1, <1>2, <2>3, SetsMapped DEF R!DiscardAll
  <2> QED
    BY <1>4, <2>4 DEF Implements, R!Next
<1>6. CASE admin_delete_all_board_files_txn(w) /\ r.arg = "ADMIN_IMMEDIATE"
  <2> DEFINE S == {f \in FilesOf(b) : IsRow(files[f])}
  <2>1. files' = MarkFiles(S, "PURGED") /\ S \subseteq Files
    BY <1>6 DEF admin_delete_all_board_files_txn, FilesOf
  <2>2. fileBar' = R!Moved(S, "GONE")
    BY <1>1, <2>1, MarkingMoves DEF PlaceOf
  <2>3. <<"files", b>> \in ordersBar
    BY <1>6, RequestOrders DEF admin_delete_all_board_files_txn, Commit
  <2>4. R!EraseFiles(b)
    BY <1>1, <1>2, <2>2, <2>3, SetsMapped DEF R!EraseFiles
  <2> QED
    BY <1>4, <2>4 DEF Implements, R!Next
<1>7. ASSUME NEW S \in SUBSET FilesOf(b), files' = MarkFiles(S, "LIVE"),
             \A f \in S : IsDeleted(files[f]) /\ files[f].age <= AdminRestoreDays,
             R!TakenWithBoard(b) \subseteq S \/ R!TakenWithBoard(b) \cap S = {}
      PROVE  Implements
  <2>1. S \subseteq Files
    BY DEF FilesOf
  <2>2. fileBar' = R!Moved(S, "SHOWN")
    BY <1>1, <1>7, <2>1, MarkingMoves DEF PlaceOf
  <2>3. \A f \in S : R!Kept(f) /\ fileBar[f].days = files[f].age
    BY <1>1, <1>7, <2>1, FilesMapped
  <2>4. R!InTime(S)
    BY <1>7, <2>3 DEF R!InTime
  <2>5. S \in SUBSET {f \in R!On(b) : R!Kept(f)}
    BY <1>1, <2>3, SetsMapped
  <2>6. R!ReturnFiles(b)
    BY <1>2, <1>7, <2>2, <2>4, <2>5 DEF R!ReturnFiles, R!AllOrNone
  <2> QED
    BY <1>4, <2>6 DEF Implements, R!Next
<1>8. \A f \in Files : files[f].age \in Int
  BY <1>1 DEF FileRows, Ages
<1>9. CASE restore_all_file_txn(w)
  <2> DEFINE S == user_restore_all_restorable(b)
  <2>1. files' = MarkFiles(S, "LIVE")
    BY <1>9 DEF restore_all_file_txn
  <2>2. S \in SUBSET FilesOf(b)
    BY DEF user_restore_all_restorable
  <2>3. \A f \in S : f \in Files /\ files[f].mark = "USER"
                       /\ files[f].age <= CascadeRestoreDays
    BY <2>2 DEF user_restore_all_restorable, FilesOf
  <2>4. \A f \in S : IsDeleted(files[f]) /\ files[f].age <= AdminRestoreDays
    BY <1>8, <2>3, WindowsAssumption DEF WindowsAssumption, IsDeleted, IsRow, IsLive
  <2>5. R!TakenWithBoard(b) \cap S = {}
    BY <1>1, <2>3, SetsMapped
  <2> QED
    BY <1>7, <2>1, <2>2, <2>4, <2>5
<1>10. CASE admin_restore_all_files_txn(w)
  <2> DEFINE S == admin_restorable(b)
  <2>1. files' = MarkFiles(S, "LIVE")
    BY <1>10 DEF admin_restore_all_files_txn
  <2>2. S \in SUBSET FilesOf(b)
    BY DEF admin_restorable
  <2>3. \A f \in S : IsDeleted(files[f]) /\ files[f].age <= AdminRestoreDays
    BY DEF admin_restorable
  <2>4. WindowOf(r) = 0 \/ r.arg = "ADMIN_IMMEDIATE"
    BY <1>10 DEF WindowOf, admin_restore_all_files_txn, Commit
  <2>5. r.arg # "ADMIN_IMMEDIATE"
    BY <1>3, <1>10, BoardOfRequest DEF ArgsOf, admin_restore_all_files_txn, Commit
  <2>6. \A f \in FilesOf(b) : files[f].mark = "BOARD_CASCADE"
                                => IsDeleted(files[f]) /\ files[f].age <= 0
    BY <1>4, <2>4, <2>5, CascadeAges DEF FilesOf
  <2>7. \A f \in FilesOf(b) : files[f].mark = "BOARD_CASCADE" => f \in S
    BY <1>8, <2>6, WindowsAssumption DEF WindowsAssumption, admin_restorable, FilesOf
  <2>8. R!TakenWithBoard(b) \subseteq S
    BY <1>1, <2>7, SetsMapped
  <2> QED
    BY <1>7, <2>1, <2>2, <2>3, <2>8
<1> QED
  BY <1>5, <1>6, <1>9, <1>10

\* Only b changes on the way from boards to boards'.
LEMMA OneBoardMoves ==
    ASSUME NEW b \in Boards, NEW state,
           \A c \in Boards \ {b} : boards'[c] = boards[c],
           StateOf(b)' = state
    PROVE  boardBar' = [boardBar EXCEPT ![b] = state]
<1>1. \A c \in Boards \ {b} : StateOf(c)' = StateOf(c)
  BY DEF StateOf, IsDeleted, IsRow, IsLive
<1> QED
  BY <1>1 DEF boardBar

LEMMA AccountsStay ==
    ASSUME users' = users
    PROVE  accountBar' = accountBar
BY DEF accountBar, AccountOf, IsLive

LEMMA CloseImplements ==
    ASSUME IInv, NEW b \in Boards, NEW by \in BoardMarks,
           users' = users,
           boards' = soft_delete_board(b, by),
           files' = MarkFiles(LiveFiles(files, b), "BOARD_CASCADE")
    PROVE  Implements
<1>1. files \in [Files -> FileRows] /\ boards \in [Boards -> BoardRows]
  BY DEF IInv, TypeOK
<1>2. LiveFiles(files, b) \subseteq Files
  BY DEF LiveFiles, FilesOf
<1>3. fileBar' = R!Moved(LiveFiles(files, b), "WITH_BOARD")
  BY <1>1, <1>2, MarkingMoves DEF FileMarks, PlaceOf
<1>4. accountBar' = accountBar
  BY AccountsStay
<1>5. CASE IsRow(boards[b])
  <2>1. boards' = [boards EXCEPT ![b].mark = by, ![b].age = 0]
    BY <1>5 DEF soft_delete_board
  <2>2. boards'[b].mark = by /\ boards'[b].age = 0 /\ by \in BoardMarks
    BY <1>1, <2>1 DEF BoardRows
  <2>3. StateOf(b)' = [state |-> "CLOSED", days |-> 0]
    BY <2>2 DEF StateOf, IsDeleted, IsRow, IsLive, BoardMarks
  <2>4. boardBar' = [boardBar EXCEPT ![b] = [state |-> "CLOSED", days |-> 0]]
    BY <1>1, <2>1, <2>3, OneBoardMoves
  <2>5. boardBar[b].state \in {"OPEN", "CLOSED"}
    <3>1. boards[b].mark \in {"LIVE"} \cup BoardMarks
      BY <1>1, <1>5 DEF BoardRows, IsRow
    <3> QED
      BY <3>1 DEF boardBar, StateOf, IsDeleted, IsRow, IsLive, BoardMarks
  <2>6. R!Close(b)
    BY <1>1, <1>3, <1>4, <2>4, <2>5, SetsMapped DEF R!Close
  <2> QED
    BY <2>6 DEF Implements, R!Next
<1>6. CASE ~IsRow(boards[b])
  <2>1. boards' = boards
    BY <1>6 DEF soft_delete_board
  <2>2. LiveFiles(files, b) = {}
    BY <1>6 DEF IInv, FilesHaveBoard, LiveFiles, FilesOf, IsLive, IsRow
  <2>3. fileBar' = fileBar
    BY <1>3, <2>2, NothingMoves
  <2>4. boardBar' = boardBar
    BY <2>1, BoardsStay
  <2> QED
    BY <1>4, <2>3, <2>4 DEF Implements, Stays
<1> QED
  BY <1>5, <1>6

LEMMA ReopenImplements ==
    ASSUME IInv, NEW b \in Boards, NEW days \in Nat, NEW within \in Nat,
           users' = users,
           within <= days, days <= AdminRestoreDays,
           IsDeleted(boards[b]) => boards[b].age <= within,
           files' = MarkFiles(restore_cascade_board_files(b, days), "LIVE"),
           boards' = update_total_board_fsize(restore_board_row(b), b,
                                              get_total_fsize(files', b))
    PROVE  Implements
<1> DEFINE S == restore_cascade_board_files(b, days)
           T == {f \in FilesOf(b) : files[f].mark = "BOARD_CASCADE"}
<1>1. files \in [Files -> FileRows] /\ boards \in [Boards -> BoardRows]
  BY DEF IInv, TypeOK
<1>2. accountBar' = accountBar
  BY AccountsStay
<1>3. AdminRestoreDays \in Nat /\ \A c \in Boards : boards[c].age \in Nat
  BY <1>1, WindowsAssumption DEF WindowsAssumption, BoardRows, Ages
<1>4. \A f \in T : /\ f \in Files
                   /\ IsDeleted(files[f]) /\ IsDeleted(boards[b])
                   /\ files[f].age = boards[b].age
  BY CascadeAges DEF FilesOf
<1>5. S = T
  BY <1>3, <1>4 DEF restore_cascade_board_files
<1>6. fileBar' = R!Moved(T, "SHOWN")
  <2>1. T \subseteq Files
    BY DEF FilesOf
  <2> QED
    BY <1>1, <1>5, <2>1, MarkingMoves DEF PlaceOf
<1>7. R!TakenWithBoard(b) = T
  BY <1>1, SetsMapped
<1>8. \A c \in Boards : IF c = b /\ IsRow(boards[b])
                        THEN boards'[c].mark = "LIVE"
                        ELSE boards'[c] = boards[c]
  BY <1>1, RestoredBoard
<1>9. CASE IsDeleted(boards[b])
  <2>1. boardBar' = [boardBar EXCEPT ![b] = [state |-> "OPEN", days |-> 0]]
    <3>1. IsRow(boards[b])
      BY <1>9 DEF IsDeleted
    <3>2. boards'[b].mark = "LIVE" /\ \A c \in Boards \ {b} : boards'[c] = boards[c]
      BY <1>8, <3>1
    <3>3. StateOf(b)' = [state |-> "OPEN", days |-> 0]
      BY <3>2 DEF StateOf, IsDeleted, IsLive
    <3> QED
      BY <3>2, <3>3, OneBoardMoves
  <2>2. boards[b].age <= AdminRestoreDays
    BY <1>3, <1>9
  <2>3. boardBar[b].state = "CLOSED" /\ boardBar[b].days <= AdminRestoreDays
    BY <1>9, <2>2 DEF boardBar, StateOf
  <2>4. R!InTime(T)
    <3>1. \A f \in T : fileBar[f].days = boards[b].age
      BY <1>1, <1>4, FilesMapped
    <3> QED
      BY <2>2, <3>1 DEF R!InTime
  <2>5. R!Reopen(b)
    BY <1>2, <1>6, <1>7, <2>1, <2>3, <2>4 DEF R!Reopen
  <2> QED
    BY <2>5 DEF Implements, R!Next
<1>10. CASE ~IsDeleted(boards[b])
  <2>1. T = {}
    BY <1>4, <1>10
  <2>2. fileBar' = fileBar
    BY <1>6, <2>1, NothingMoves
  <2>3. \A c \in Boards : IF IsLive(boards[c]) THEN IsLive(boards'[c])
                          ELSE boards'[c] = boards[c]
    BY <1>8, <1>10 DEF IsDeleted, IsLive
  <2>4. \A c \in Boards : StateOf(c)' = StateOf(c)
    BY <2>3 DEF StateOf, IsDeleted, IsRow, IsLive
  <2>5. boardBar' = boardBar
    BY <2>4 DEF boardBar
  <2> QED
    BY <1>2, <2>2, <2>5 DEF Implements, Stays
<1> QED
  BY <1>9, <1>10

LEMMA BoardTxnsImplement ==
    ASSUME IInv, NEW w \in Workers, NEW r, r = pending[w],
           \/ create_board_txn(w) \/ delete_board_txn(w) \/ restore_board_txn(w)
           \/ admin_delete_board_txn(w) \/ admin_restore_board_txn(w)
    PROVE  Implements
<1> DEFINE b == r.on
<1>1. files \in [Files -> FileRows] /\ boards \in [Boards -> BoardRows]
  BY DEF IInv, TypeOK
<1>2. r.op \in BoardOps /\ users' = users
  BY DEF create_board_txn, delete_board_txn, restore_board_txn,
         admin_delete_board_txn, admin_restore_board_txn, Commit, BoardOps
<1>3. /\ b \in Boards /\ r.arg \in ArgsOf(r.op)
      /\ IsDeleted(boards[b]) => boards[b].age <= WindowOf(r)
  BY <1>2, BoardOfRequest
<1>4. accountBar' = accountBar
  BY <1>2, AccountsStay
<1>5. CASE create_board_txn(w)
  <2>1. boards[b].mark = "UNBORN"
    BY <1>5 DEF create_board_txn, Commit, IInv, CreationsDistinct, Creations, RowOf,
                UserOps, BoardOps
  <2>2. boards' = [boards EXCEPT ![b].mark = "LIVE"] /\ files' = files
    BY <1>5 DEF create_board_txn
  <2>3. boards'[b].mark = "LIVE"
    BY <1>1, <1>3, <2>2 DEF BoardRows
  <2>4. StateOf(b)' = [state |-> "OPEN", days |-> 0]
    BY <2>3 DEF StateOf, IsDeleted, IsLive
  <2>5. boardBar' = [boardBar EXCEPT ![b] = [state |-> "OPEN", days |-> 0]]
    BY <1>1, <1>3, <2>2, <2>4, OneBoardMoves
  <2>6. boardBar[b] = [state |-> "NONE", days |-> 0]
    BY <1>3, <2>1 DEF boardBar, StateOf, IsDeleted, IsRow, IsLive
  <2>7. boardBar' = [boardBar EXCEPT ![b].state = "OPEN"]
    <3>1. [boardBar[b] EXCEPT !.state = "OPEN"] = [state |-> "OPEN", days |-> 0]
      BY <2>6
    <3>2. [boardBar EXCEPT ![b].state = "OPEN"]
            = [boardBar EXCEPT ![b] = [boardBar[b] EXCEPT !.state = "OPEN"]]
      OBVIOUS
    <3> QED
      BY <2>5, <3>1, <3>2
  <2>8. fileBar' = fileBar
    BY <2>2 DEF fileBar, KeptOf, IsDeleted, IsRow, IsLive
  <2>9. R!Open(b)
    BY <1>4, <2>6, <2>7, <2>8 DEF R!Open
  <2> QED
    BY <1>3, <2>9 DEF Implements, R!Next
<1>6. CASE delete_board_txn(w)
  BY <1>2, <1>3, <1>6, CloseImplements DEF delete_board_txn, BoardMarks
<1>7. CASE admin_delete_board_txn(w) /\ r.arg # "ADMIN_IMMEDIATE"
  <2>1. r.arg \in BoardMarks
    BY <1>3, <1>7 DEF admin_delete_board_txn, Commit, ArgsOf, DeleteOptions, BoardMarks
  <2> QED
    BY <1>2, <1>3, <1>7, <2>1, CloseImplements DEF admin_delete_board_txn
<1>8. CASE admin_delete_board_txn(w) /\ r.arg = "ADMIN_IMMEDIATE"
  <2> DEFINE S == {f \in FilesOf(b) : IsRow(files[f])}
  <2>1. files' = MarkFiles(S, "PURGED") /\ S \subseteq Files
    BY <1>8 DEF admin_delete_board_txn, FilesOf
  <2>2. fileBar' = R!Moved(S, "GONE")
    BY <1>1, <2>1, MarkingMoves DEF PlaceOf
  <2>3. CASE IsRow(boards[b])
    <3>1. boards' = [boards EXCEPT ![b] = PurgedBoard]
      BY <1>8, <2>3 DEF admin_delete_board_txn
    <3>2. boards'[b].mark = "PURGED"
      BY <1>1, <1>3, <3>1 DEF PurgedBoard
    <3>3. StateOf(b)' = [state |-> "GONE", days |-> 0]
      BY <3>2 DEF StateOf, IsDeleted, IsRow, IsLive
    <3>4. boardBar' = [boardBar EXCEPT ![b] = [state |-> "GONE", days |-> 0]]
      BY <1>1, <1>3, <3>1, <3>3, OneBoardMoves
    <3>5. <<"board", b>> \in ordersBar
      BY <1>8, RequestOrders DEF admin_delete_board_txn, Commit
    <3>6. R!EraseBoard(b)
      BY <1>1, <1>4, <2>2, <3>4, <3>5, SetsMapped DEF R!EraseBoard
    <3> QED
      BY <1>3, <3>6 DEF Implements, R!Next
  <2>4. CASE ~IsRow(boards[b])
    <3>1. boards' = boards
      BY <1>8, <2>4 DEF admin_delete_board_txn
    <3>2. S = {}
      BY <2>4 DEF IInv, FilesHaveBoard, FilesOf
    <3>3. fileBar' = fileBar /\ boardBar' = boardBar
      BY <2>2, <3>1, <3>2, NothingMoves, BoardsStay
    <3> QED
      BY <1>4, <3>3 DEF Implements, Stays
  <2> QED
    BY <2>3, <2>4
<1>9. CASE restore_board_txn(w)
  <2>1. IsDeleted(boards[b]) => boards[b].age <= UserRestoreDays
    BY <1>3, <1>9 DEF restore_board_txn, Commit, WindowOf
  <2>2. /\ UserRestoreDays \in Nat /\ CascadeRestoreDays \in Nat
        /\ UserRestoreDays <= CascadeRestoreDays
        /\ CascadeRestoreDays <= AdminRestoreDays
    BY WindowsAssumption DEF WindowsAssumption
  <2> QED
    BY <1>2, <1>3, <1>9, <2>1, <2>2, ReopenImplements DEF restore_board_txn
<1>10. CASE admin_restore_board_txn(w)
  <2>1. IsDeleted(boards[b]) => boards[b].age <= AdminRestoreDays
    BY <1>3, <1>10 DEF admin_restore_board_txn, Commit, WindowOf
  <2>2. AdminRestoreDays \in Nat /\ AdminRestoreDays <= AdminRestoreDays
    BY WindowsAssumption DEF WindowsAssumption
  <2> QED
    BY <1>2, <1>3, <1>10, <2>1, <2>2, ReopenImplements DEF admin_restore_board_txn
<1> QED
  BY <1>5, <1>6, <1>7, <1>8, <1>9, <1>10

\* A request on a user is on a user, away as long as its check allows.
LEMMA UserOfRequest ==
    ASSUME IInv, NEW w \in Workers, NEW r, r = pending[w], r.op \in UserOps
    PROVE  /\ r.on \in Users /\ r.arg \in ArgsOf(r.op)
           /\ IsDeleted(users[r.on]) => users[r.on].age <= WindowOf(r)
<1>1. r # Idle /\ r.on \in Users /\ r.arg \in ArgsOf(r.op)
  BY RequestType DEF IInv
<1>2. RowOf(r) = users[r.on]
  BY DEF RowOf
<1> QED
  BY <1>1, <1>2 DEF IInv, RequestsInWindow

LEMMA OneUserMoves ==
    ASSUME NEW u \in Users, NEW state,
           \A v \in Users \ {u} : users'[v] = users[v],
           AccountOf(u)' = state
    PROVE  accountBar' = [accountBar EXCEPT ![u] = state]
<1>1. \A v \in Users \ {u} : AccountOf(v)' = AccountOf(v)
  BY DEF AccountOf, IsLive
<1> QED
  BY <1>1 DEF accountBar

LEMMA GoingAway ==
    ASSUME IInv, NEW u \in Users, NEW by \in UserMarks,
           users' = soft_delete_user(u, by)
    PROVE  accountBar' = R!Away(u)
<1>1. users \in [Users -> UserRows]
  BY DEF IInv, TypeOK
<1>2. accountBar[u].state = "ACTIVE" <=> IsLive(users[u])
  BY DEF accountBar, AccountOf
<1>3. CASE IsLive(users[u])
  <2>1. users' = [users EXCEPT ![u].mark = by, ![u].age = 0]
    BY <1>3 DEF soft_delete_user
  <2>2. users'[u].mark = by /\ users'[u].age = 0 /\ by # "LIVE"
    BY <1>1, <2>1 DEF UserRows, UserMarks
  <2>3. AccountOf(u)' = [state |-> "AWAY", days |-> 0]
    BY <2>2 DEF AccountOf, IsLive
  <2>4. accountBar' = [accountBar EXCEPT ![u] = [state |-> "AWAY", days |-> 0]]
    BY <1>1, <2>1, <2>3, OneUserMoves
  <2> QED
    BY <1>2, <1>3, <2>4 DEF R!Away
<1>4. CASE ~IsLive(users[u])
  <2>1. users' = users
    BY <1>4 DEF soft_delete_user
  <2> QED
    BY <1>2, <1>4, <2>1, AccountsStay DEF R!Away
<1> QED
  BY <1>3, <1>4

LEMMA LeaveImplements ==
    ASSUME IInv, NEW u \in Users, NEW by \in UserMarks, delete_user_rows(u, by)
    PROVE  Implements
<1> DEFINE S == {f \in UserFiles(u) : IsLive(files[f])}
<1>1. files \in [Files -> FileRows] /\ boards \in [Boards -> BoardRows]
  BY DEF IInv, TypeOK
<1>2. accountBar' = R!Away(u)
  BY GoingAway DEF delete_user_rows
<1>3. boardBar' = boardBar
  BY <1>1, TotalsStay, BoardsStay DEF delete_user_rows
<1>4. fileBar' = R!Moved(S, "WITH_USER")
  <2>1. files' = MarkFiles(S, "USER_CASCADE") /\ S \subseteq Files
    BY DEF delete_user_rows, UserFiles
  <2> QED
    BY <1>1, <2>1, MarkingMoves DEF PlaceOf, FileMarks
<1>5. R!Leave(u)
  BY <1>1, <1>2, <1>3, <1>4, SetsMapped DEF R!Leave
<1> QED
  BY <1>5 DEF Implements, R!Next

LEMMA ReturnImplements ==
    ASSUME IInv, NEW u \in Users, NEW anon, NEW days \in Nat, NEW within \in Nat,
           within <= days, days <= AdminRestoreDays,
           IsDeleted(users[u]) => users[u].age <= within,
           restore_user_rows(u, anon, days)
    PROVE  Implements
<1> DEFINE S == restore_all_user_files(u, days)
           T == {f \in UserFiles(u) : files[f].mark = "USER_CASCADE"}
<1>1. /\ files \in [Files -> FileRows] /\ boards \in [Boards -> BoardRows]
      /\ users \in [Users -> UserRows]
  BY DEF IInv, TypeOK
<1>2. boardBar' = boardBar
  BY <1>1, TotalsStay, BoardsStay DEF restore_user_rows
<1>3. AdminRestoreDays \in Nat /\ \A v \in Users : users[v].age \in Nat
  BY <1>1, WindowsAssumption DEF WindowsAssumption, UserRows, Ages
<1>4. \A f \in T : /\ f \in Files
                   /\ IsDeleted(files[f]) /\ IsDeleted(users[u])
                   /\ files[f].age = users[u].age
  BY CascadeAges DEF UserFiles
<1>5. S = T
  BY <1>3, <1>4 DEF restore_all_user_files
<1>6. fileBar' = R!Moved(T, "SHOWN")
  <2>1. files' = MarkFiles(T, "LIVE") /\ T \subseteq Files
    BY <1>5 DEF restore_user_rows, UserFiles
  <2> QED
    BY <1>1, <2>1, MarkingMoves DEF PlaceOf
<1>7. R!TakenWithUser(u) = T
  BY <1>1, SetsMapped
<1>8. CASE IsDeleted(users[u])
  <2>1. users[u].age <= AdminRestoreDays
    BY <1>3, <1>8
  <2>2. accountBar[u].state = "AWAY" /\ accountBar[u].days <= AdminRestoreDays
    BY <1>8, <2>1 DEF accountBar, AccountOf, IsDeleted
  <2>3. R!InTime(T)
    <3>1. \A f \in T : fileBar[f].days = users[u].age
      BY <1>1, <1>4, FilesMapped
    <3> QED
      BY <2>1, <3>1 DEF R!InTime
  <2>4. \/ accountBar' = [accountBar EXCEPT ![u] = [state |-> "ACTIVE", days |-> 0]]
        \/ accountBar' = accountBar
    <3>1. CASE users[u].anon = anon
      <4>1. users' = [users EXCEPT ![u].mark = "LIVE", ![u].age = 0]
        BY <1>8, <3>1 DEF restore_user_rows, restore_user_data
      <4>2. users'[u].mark = "LIVE"
        BY <1>1, <4>1 DEF UserRows
      <4>3. AccountOf(u)' = [state |-> "ACTIVE", days |-> 0]
        BY <4>2 DEF AccountOf, IsLive
      <4> QED
        BY <1>1, <4>1, <4>3, OneUserMoves
    <3>2. CASE users[u].anon # anon
      <4>1. users' = users
        BY <3>2 DEF restore_user_rows, restore_user_data
      <4> QED
        BY <4>1, AccountsStay
    <3> QED
      BY <3>1, <3>2
  <2>5. R!Return(u)
    BY <1>2, <1>6, <1>7, <2>2, <2>3, <2>4 DEF R!Return
  <2> QED
    BY <2>5 DEF Implements, R!Next
<1>9. CASE ~IsDeleted(users[u])
  <2>1. T = {}
    BY <1>4, <1>9
  <2>2. fileBar' = fileBar
    BY <1>6, <2>1, NothingMoves
  <2>3. users' = users
    BY <1>9 DEF restore_user_rows, restore_user_data
  <2> QED
    BY <1>2, <2>2, <2>3, AccountsStay DEF Implements, Stays
<1> QED
  BY <1>8, <1>9

LEMMA UserTxnsImplement ==
    ASSUME IInv, NEW w \in Workers, NEW r, r = pending[w],
           \/ withdraw_txn(w) \/ restore_user_txn(w) \/ ban_txn(w)
           \/ admin_delete_user_txn(w) \/ admin_restore_user_txn(w)
    PROVE  Implements
<1> DEFINE u == r.on
<1>1. /\ files \in [Files -> FileRows] /\ boards \in [Boards -> BoardRows]
      /\ users \in [Users -> UserRows]
  BY DEF IInv, TypeOK
<1>2. r.op \in UserOps
  BY DEF withdraw_txn, restore_user_txn, ban_txn, admin_delete_user_txn,
         admin_restore_user_txn, Commit, UserOps
<1>3. /\ u \in Users /\ r.arg \in ArgsOf(r.op)
      /\ IsDeleted(users[u]) => users[u].age <= WindowOf(r)
  BY <1>2, UserOfRequest
<1>4. CASE withdraw_txn(w)
  BY <1>3, <1>4, LeaveImplements DEF withdraw_txn, UserMarks
<1>5. CASE ban_txn(w)
  <2>1. accountBar' = R!Away(u)
    BY <1>3, <1>5, GoingAway DEF ban_txn, UserMarks
  <2>2. boardBar' = boardBar /\ fileBar' = fileBar
    BY <1>5 DEF ban_txn, boardBar, StateOf, fileBar, KeptOf, IsDeleted, IsRow, IsLive
  <2>3. R!Suspend(u)
    BY <2>1, <2>2 DEF R!Suspend
  <2> QED
    BY <1>3, <2>3 DEF Implements, R!Next
<1>6. CASE admin_delete_user_txn(w) /\ r.arg # "ADMIN_IMMEDIATE"
  <2>1. r.arg \in UserMarks
    BY <1>3, <1>6 DEF admin_delete_user_txn, Commit, ArgsOf, DeleteOptions, UserMarks
  <2> QED
    BY <1>3, <1>6, <2>1, LeaveImplements DEF admin_delete_user_txn
<1>7. CASE admin_delete_user_txn(w) /\ r.arg = "ADMIN_IMMEDIATE"
  <2> DEFINE S == {f \in UserFiles(u) : IsRow(files[f])}
  <2>1. files' = MarkFiles(S, "PURGED") /\ S \subseteq Files
    BY <1>7 DEF admin_delete_user_txn, UserFiles
  <2>2. fileBar' = R!Moved(S, "GONE")
    BY <1>1, <2>1, MarkingMoves DEF PlaceOf
  <2>3. boardBar' = boardBar
    BY <1>1, <1>7, TotalsStay, BoardsStay DEF admin_delete_user_txn
  <2>4. users' = hard_delete_user(u)
    BY <1>7 DEF admin_delete_user_txn
  <2>5. AccountOf(u)' = [state |-> "AWAY", days |-> 0]
    <3>1. users'[u] = [mark |-> "ADMIN_IMMEDIATE", age |-> 0,
                      anon |-> TRUE, like |-> TRUE]
      BY <1>1, <1>3, <2>4 DEF hard_delete_user
    <3> QED
      BY <3>1 DEF AccountOf, IsLive
  <2>6. \A v \in Users \ {u} : users'[v] = users[v]
    BY <1>1, <2>4 DEF hard_delete_user
  <2>7. <<"user", u>> \in ordersBar
    BY <1>7, RequestOrders DEF admin_delete_user_txn, Commit
  <2>8. R!EraseUser(u)
    BY <1>1, <1>3, <2>2, <2>3, <2>5, <2>6, <2>7, OneUserMoves, SetsMapped
       DEF R!EraseUser
  <2> QED
    BY <1>3, <2>8 DEF Implements, R!Next
<1>8. CASE restore_user_txn(w)
  <2>1. IsDeleted(users[u]) => users[u].age <= UserRestoreDays
    BY <1>3, <1>8 DEF restore_user_txn, Commit, WindowOf
  <2>2. /\ UserRestoreDays \in Nat /\ CascadeRestoreDays \in Nat
        /\ UserRestoreDays <= CascadeRestoreDays
        /\ CascadeRestoreDays <= AdminRestoreDays
    BY WindowsAssumption DEF WindowsAssumption
  <2> QED
    BY <1>3, <1>8, <2>1, <2>2, ReturnImplements DEF restore_user_txn
<1>9. CASE admin_restore_user_txn(w)
  <2>1. IsDeleted(users[u]) => users[u].age <= AdminRestoreDays
    BY <1>3, <1>9 DEF admin_restore_user_txn, Commit, WindowOf
  <2>2. AdminRestoreDays \in Nat /\ AdminRestoreDays <= AdminRestoreDays
    BY WindowsAssumption DEF WindowsAssumption
  <2> QED
    BY <1>3, <1>9, <2>1, <2>2, ReturnImplements DEF admin_restore_user_txn
<1> QED
  BY <1>4, <1>5, <1>6, <1>7, <1>8, <1>9

-----------------------------------------------------------------------------
(* The jobs and the days *)

LEMMA DeleteFilesImplements ==
    ASSUME IInv, delete_files
    PROVE  Implements
<1> DEFINE S == {f \in Files : FileExpired(f)}
<1>1. files \in [Files -> FileRows]
  BY DEF IInv, TypeOK
<1>2. fileBar' = R!Moved(S, "GONE")
  BY <1>1, MarkingMoves DEF delete_files, PlaceOf
<1>3. \A f \in S : IsDeleted(files[f]) /\ files[f].age >= UserExpireDays
  <2>1. \A f \in Files : files[f].age \in Int
    BY <1>1 DEF FileRows, Ages
  <2> QED
    BY <2>1, WindowsAssumption DEF WindowsAssumption, FileExpired, IsDeleted, IsRow, IsLive
<1>4. \A f \in S : R!Kept(f) /\ fileBar[f].days >= UserExpireDays
  BY <1>1, <1>3, FilesMapped
<1>5. accountBar' = accountBar /\ boardBar' = boardBar
  BY AccountsStay, BoardsStay DEF delete_files
<1>6. ASSUME NEW b \in Boards
      PROVE  R!AllOrNone(R!TakenWithBoard(b), S)
  <2>1. \A f \in R!TakenWithBoard(b) :
            f \in Files /\ files[f].mark = "BOARD_CASCADE" /\ files[f].age = boards[b].age
    BY <1>1, SetsMapped DEF IInv, CascadeFollowsCause, CauseStands, FilesOf
  <2>2. \A f \in R!TakenWithBoard(b) : f \in S <=> boards[b].age >= UserExpireDays
    BY <2>1 DEF FileExpired
  <2> QED
    BY <2>2 DEF R!AllOrNone
<1>7. ASSUME NEW u \in Users
      PROVE  R!AllOrNone(R!TakenWithUser(u), S)
  <2>1. \A f \in R!TakenWithUser(u) :
            f \in Files /\ files[f].mark = "USER_CASCADE" /\ files[f].age = users[u].age
    BY <1>1, SetsMapped DEF IInv, CascadeFollowsCause, CauseStands, UserFiles
  <2>2. \A f \in R!TakenWithUser(u) : f \in S <=> users[u].age >= UserExpireDays
    BY <2>1 DEF FileExpired
  <2> QED
    BY <2>2 DEF R!AllOrNone
<1>8. S \in SUBSET {f \in Files : R!Kept(f) /\ fileBar[f].days >= UserExpireDays}
  BY <1>4
<1>9. R!Remove
  <2> HIDE DEF S
  <2> QED
    BY <1>2, <1>5, <1>6, <1>7, <1>8 DEF R!Remove
<1> QED
  BY <1>9 DEF Implements, R!Next

LEMMA DeleteBoardsImplements ==
    ASSUME IInv, delete_boards
    PROVE  Implements
<1> DEFINE B == {b \in Boards : BoardExpired(b)}
           S == {f \in Files : IsRow(files[f]) /\ BoardExpired(BoardOf[f])}
<1>1. files \in [Files -> FileRows]
  BY DEF IInv, TypeOK
<1>2. fileBar' = R!Moved(S, "GONE")
  BY <1>1, MarkingMoves DEF delete_boards, PlaceOf
<1>3. S = {f \in Files : BoardOf[f] \in B /\ R!Present(f)}
  BY <1>1, FilesMapped, Relations
<1>4. \A b \in B : boardBar[b].state = "CLOSED" /\ boardBar[b].days >= AdminExpireDays
  BY DEF BoardExpired, boardBar, StateOf, IsDeleted, IsRow, IsLive
<1>5. \A b \in Boards : StateOf(b)' = IF b \in B THEN [state |-> "GONE", days |-> 0]
                                      ELSE StateOf(b)
  BY DEF delete_boards, PurgedBoard, StateOf, IsDeleted, IsRow, IsLive
<1>6. boardBar' = [b \in Boards |-> IF b \in B THEN [state |-> "GONE", days |-> 0]
                                    ELSE boardBar[b]]
  BY <1>5 DEF boardBar
<1>7. accountBar' = accountBar
  BY AccountsStay DEF delete_boards
<1>8. R!RemoveBoards
  BY <1>2, <1>3, <1>4, <1>6, <1>7 DEF R!RemoveBoards
<1> QED
  BY <1>8 DEF Implements, R!Next

LEMMA DeleteUsersImplements ==
    ASSUME IInv, delete_soft_deleted_user
    PROVE  Implements
<1>1. users \in [Users -> UserRows]
  BY DEF IInv, TypeOK
<1>2. \A u \in Users : users'[u].mark = users[u].mark /\ users'[u].age = users[u].age
  BY <1>1 DEF delete_soft_deleted_user, UserRows
<1>3. accountBar' = accountBar
  BY <1>2 DEF accountBar, AccountOf, IsLive
<1>4. boardBar' = boardBar /\ fileBar' = fileBar
  BY DEF delete_soft_deleted_user, boardBar, StateOf, fileBar, KeptOf, IsDeleted,
         IsRow, IsLive
<1> QED
  BY <1>3, <1>4 DEF Implements, Stays

LEMMA TickImplements ==
    ASSUME IInv, Tick
    PROVE  Implements
<1>1. /\ files \in [Files -> FileRows] /\ boards \in [Boards -> BoardRows]
      /\ users \in [Users -> UserRows]
  BY DEF IInv, TypeOK
<1>2. accountBar' = [u \in Users |->
          IF accountBar[u].state = "AWAY"
          THEN [accountBar[u] EXCEPT !.days = R!LaterDay(@)] ELSE accountBar[u]]
  <2>1. ASSUME NEW u \in Users
        PROVE  AccountOf(u)' = IF AccountOf(u).state = "AWAY"
                               THEN [AccountOf(u) EXCEPT !.days = R!LaterDay(@)]
                               ELSE AccountOf(u)
    <3>1. users'[u] = Older(users[u]) /\ users[u].mark # "UNBORN" /\ users[u].mark # "PURGED"
      BY <1>1 DEF Tick, UserRows, UserMarks
    <3>2. /\ users'[u].mark = users[u].mark
          /\ ~IsLive(users[u]) => users'[u].age = R!LaterDay(users[u].age)
      BY <1>1, <3>1 DEF Older, UserRows, R!LaterDay, IsDeleted, IsRow
    <3>3. CASE IsLive(users[u])
      BY <3>2, <3>3 DEF AccountOf, IsLive
    <3>4. CASE ~IsLive(users[u])
      <4>1. AccountOf(u) = [state |-> "AWAY", days |-> users[u].age]
        BY <3>4 DEF AccountOf
      <4>2. AccountOf(u)' = [state |-> "AWAY", days |-> R!LaterDay(users[u].age)]
        BY <3>2, <3>4 DEF AccountOf, IsLive
      <4> QED
        BY <4>1, <4>2
    <3> QED
      BY <3>3, <3>4
  <2> QED
    BY <2>1 DEF accountBar
<1>3. boardBar' = [b \in Boards |->
          IF boardBar[b].state = "CLOSED"
          THEN [boardBar[b] EXCEPT !.days = R!LaterDay(@)] ELSE boardBar[b]]
  <2>1. ASSUME NEW b \in Boards
        PROVE  StateOf(b)' = IF StateOf(b).state = "CLOSED"
                             THEN [StateOf(b) EXCEPT !.days = R!LaterDay(@)]
                             ELSE StateOf(b)
    <3>1. boards'[b] = Older(boards[b])
      BY DEF Tick
    <3>2. /\ boards'[b].mark = boards[b].mark
          /\ IsDeleted(boards[b]) => boards'[b].age = R!LaterDay(boards[b].age)
      BY <1>1, <3>1 DEF Older, BoardRows, R!LaterDay
    <3>3. CASE ~IsDeleted(boards[b])
      BY <3>2, <3>3 DEF StateOf, IsDeleted, IsRow, IsLive
    <3>4. CASE IsDeleted(boards[b])
      <4>1. StateOf(b) = [state |-> "CLOSED", days |-> boards[b].age]
        BY <3>4 DEF StateOf
      <4>2. StateOf(b)' = [state |-> "CLOSED", days |-> R!LaterDay(boards[b].age)]
        BY <3>2, <3>4 DEF StateOf, IsDeleted, IsRow, IsLive
      <4> QED
        BY <4>1, <4>2
    <3> QED
      BY <3>3, <3>4
  <2> QED
    BY <2>1 DEF boardBar
<1>4. fileBar' = [f \in Files |->
          IF R!Kept(f) THEN [fileBar[f] EXCEPT !.days = R!LaterDay(@)] ELSE fileBar[f]]
  <2>1. ASSUME NEW f \in Files
        PROVE  KeptOf(f)' = IF IsDeleted(files[f])
                            THEN [KeptOf(f) EXCEPT !.days = R!LaterDay(@)]
                            ELSE KeptOf(f)
    <3>1. files'[f] = Older(files[f])
      BY DEF Tick
    <3>2. /\ files'[f].mark = files[f].mark
          /\ IsDeleted(files[f]) => files'[f].age = R!LaterDay(files[f].age)
      BY <1>1, <3>1 DEF Older, FileRows, R!LaterDay
    <3>3. CASE ~IsDeleted(files[f])
      BY <3>2, <3>3 DEF KeptOf, PlaceOf, IsDeleted, IsRow, IsLive
    <3>4. CASE IsDeleted(files[f])
      <4> DEFINE place == PlaceOf[files[f].mark]
      <4>1. KeptOf(f) = [place |-> place, days |-> files[f].age]
        BY <3>4 DEF KeptOf
      <4>2. KeptOf(f)' = [place |-> place, days |-> R!LaterDay(files[f].age)]
        BY <3>2, <3>4 DEF KeptOf, PlaceOf, IsDeleted, IsRow, IsLive
      <4> QED
        BY <3>4, <4>1, <4>2
    <3> QED
      BY <3>3, <3>4
  <2>2. \A f \in Files : fileBar[f] = KeptOf(f) /\ (R!Kept(f) <=> IsDeleted(files[f]))
    BY <1>1, FilesMapped DEF fileBar
  <2> QED
    BY <2>1, <2>2 DEF fileBar
<1>5. R!NewDay
  BY <1>2, <1>3, <1>4 DEF R!NewDay
<1> QED
  BY <1>5 DEF Implements, R!Next
-----------------------------------------------------------------------------
(* The theorem *)

LEMMA InitImplements == Init => R!Init
<1> SUFFICES ASSUME Init
            PROVE  R!Init
  OBVIOUS
<1>1. accountBar = [u \in Users |-> [state |-> "ACTIVE", days |-> 0]]
  BY DEF Init, accountBar, AccountOf, IsLive
<1>2. boardBar = [b \in Boards |-> [state |-> "NONE", days |-> 0]]
  BY DEF Init, boardBar, StateOf, IsDeleted, IsRow, IsLive
<1>3. fileBar = [f \in Files |-> [place |-> "NONE", days |-> 0]]
  BY DEF Init, fileBar, KeptOf, PlaceOf, IsDeleted, IsRow
<1>4. ordersBar = {}
  BY DEF Init, ordersBar, Ordered, Idle
<1> QED
  BY <1>1, <1>2, <1>3, <1>4 DEF R!Init

LEMMA StepImplements == IInv /\ [Next]_vars => [R!Next]_(R!retained)
<1> SUFFICES ASSUME IInv, [Next]_vars
            PROVE  Implements
  BY DEF Implements, Stays, R!retained
<1>1. ASSUME NEW w \in Workers, Check(w) \/ abort(w)
      PROVE  Implements
  <2>1. users' = users /\ boards' = boards /\ files' = files
    BY <1>1 DEF abort, Check, UserCheck, BoardCheck, FileCheck, Begin, rows,
                withdraw, restore_user, ban, admin_delete_user, admin_restore_user,
                create_board, delete_board, restore_board, delete_all,
                restore_all_file, admin_delete_board, admin_restore_board,
                admin_delete_all_board_files, admin_restore_all_files,
                upload_files, delete_file, restore_file, admin_delete_one_file,
                admin_restore_file
  <2> QED
    BY <2>1 DEF Implements, Stays, accountBar, AccountOf, boardBar, StateOf, fileBar,
                KeptOf, IsDeleted, IsRow, IsLive
<1>2. ASSUME NEW w \in Workers, Txn(w)
      PROVE  Implements
  BY <1>2, FileTxnsImplement, BoardFilesTxnsImplement, BoardTxnsImplement,
     UserTxnsImplement DEF Txn
<1>3. CASE Scheduler
  BY <1>3, DeleteFilesImplements, DeleteBoardsImplements, DeleteUsersImplements
     DEF Scheduler
<1>4. CASE Tick
  BY <1>4, TickImplements
<1>5. CASE UNCHANGED vars
  BY <1>5 DEF vars, Implements, Stays, accountBar, AccountOf, boardBar, StateOf,
              fileBar, KeptOf, IsDeleted, IsRow, IsLive
<1> QED
  BY <1>1, <1>2, <1>3, <1>4, <1>5 DEF Next

\* Whatever requests and jobs do to each other, the rows keep what Retention
\* promises: windows, minimal retention, and cascades that return entire.
THEOREM ContentIsRetained == Spec => RetentionKept
<1>1. Init => R!Init
  BY InitImplements
<1>2. IInv /\ [Next]_vars => [R!Next]_(R!retained)
  BY StepImplements
<1> QED
  BY <1>1, <1>2, Inductive, PTL DEF Spec, RetentionKept, R!Spec
-----------------------------------------------------------------------------
(* Contents *)

\* Past the day of its removal, or removed.
Gone(f) == FileExpired(f) \/ files[f].mark = "PURGED"

\* The inductive invariant: what is listed is gone, what is not yet due has its
\* content, but for what came back too late.
SInv == /\ IInv
        /\ disk \subseteq Files /\ late \subseteq Files
        /\ sweep \in [running : BOOLEAN, paths : SUBSET Files]
        /\ sweep.paths # {} => sweep.running
        /\ \A f \in Files \ late : Unexpired(f) => f \in disk
        /\ \A f \in sweep.paths \ late : Gone(f)

\* A step leaves a file, takes it away, finds it shown or not yet due, or inserts
\* its row after its content.
FileStays(f) ==
    \/ files'[f] = files[f]
    \/ files'[f].mark = "PURGED"
    \/ Unexpired(f)
    \/ files[f].mark = "UNBORN" /\ f \in disk

FilesStay == \A f \in Files : FileStays(f)

\* Or it is the commit of a restoration that reaches back that far.
FilesStayOrReturn(w) ==
    \A f \in Files :
        \/ FileStays(f)
        \/ pending[w].op \in LateRestores /\ FileExpired(f) /\ IsLive(files'[f])

\* The statements that mark many files mark live ones, or bring back deleted ones.
FilesMove ==
    \A f \in Files :
        \/ files'[f] = files[f]
        \/ files'[f].mark = "PURGED"
        \/ IsLive(files[f])
        \/ Returned(files[f], files'[f])

LEMMA ExpiredFiles ==
    ASSUME IInv, NEW f \in Files
    PROVE  /\ IsLive(files[f]) => Unexpired(f)
           /\ IsDeleted(files[f]) /\ files[f].age <= UserRestoreDays => Unexpired(f)
           /\ FileExpired(f) => IsDeleted(files[f])
           /\ Gone(f) => ~Unexpired(f)
<1>1. files[f].age \in Int
  BY DEF IInv, TypeOK, FileRows, Ages
<1>2. /\ UserRestoreDays \in Int /\ UserExpireDays \in Int /\ AdminExpireDays \in Int
      /\ UserRestoreDays < UserExpireDays /\ UserExpireDays < AdminExpireDays
  BY WindowsAssumption DEF WindowsAssumption
<1>3. FileExpired(f) => IsDeleted(files[f]) /\ files[f].age >= UserExpireDays
  BY <1>1, <1>2 DEF FileExpired, IsDeleted, IsRow, IsLive
<1>4. IsLive(files[f]) => Unexpired(f)
  BY <1>3 DEF Unexpired, IsDeleted, IsRow, IsLive
<1>5. IsDeleted(files[f]) /\ files[f].age <= UserRestoreDays => Unexpired(f)
  BY <1>1, <1>2, <1>3 DEF Unexpired, IsDeleted
<1>6. Gone(f) => ~Unexpired(f)
  BY DEF Gone, Unexpired, IsRow
<1> QED
  BY <1>3, <1>4, <1>5, <1>6

LEMMA MarkedMove ==
    ASSUME NEW S, NEW mark, files' = MarkFiles(S, mark),
           \/ mark = "PURGED"
           \/ \A f \in Files \cap S : \/ IsLive(files[f])
                                      \/ IsDeleted(files[f]) /\ mark = "LIVE"
    PROVE  FilesMove
BY DEF MarkFiles, FilesMove, Returned, IsLive

LEMMA ManyFilesTxnsMove ==
    ASSUME NEW w \in Workers,
           \/ delete_all_txn(w) \/ restore_all_file_txn(w)
           \/ admin_delete_all_board_files_txn(w) \/ admin_restore_all_files_txn(w)
           \/ create_board_txn(w) \/ delete_board_txn(w) \/ restore_board_txn(w)
           \/ admin_delete_board_txn(w) \/ admin_restore_board_txn(w)
           \/ withdraw_txn(w) \/ restore_user_txn(w) \/ ban_txn(w)
           \/ admin_delete_user_txn(w) \/ admin_restore_user_txn(w)
           \/ restore_file_txn(w) \/ admin_restore_file_txn(w)
    PROVE  FilesMove
<1>1. \A b : \A f \in LiveFiles(files, b) : IsLive(files[f])
  BY DEF LiveFiles
<1>2. CASE delete_all_txn(w) \/ delete_board_txn(w)
  BY <1>1, <1>2, MarkedMove DEF delete_all_txn, delete_board_txn
<1>3. CASE admin_delete_all_board_files_txn(w)
  BY <1>1, <1>3, MarkedMove DEF admin_delete_all_board_files_txn
<1>4. CASE admin_delete_board_txn(w)
  BY <1>1, <1>4, MarkedMove DEF admin_delete_board_txn
<1>5. CASE restore_all_file_txn(w)
  <2>1. \A f \in user_restore_all_restorable(pending[w].on) : IsDeleted(files[f])
    BY DEF user_restore_all_restorable, IsDeleted, IsRow, IsLive
  <2> QED
    BY <1>5, <2>1, MarkedMove DEF restore_all_file_txn
<1>6. CASE admin_restore_all_files_txn(w)
  <2>1. \A f \in admin_restorable(pending[w].on) : IsDeleted(files[f])
    BY DEF admin_restorable
  <2> QED
    BY <1>6, <2>1, MarkedMove DEF admin_restore_all_files_txn
<1>7. CASE restore_board_txn(w) \/ admin_restore_board_txn(w)
  <2>1. \A days : \A f \in restore_cascade_board_files(pending[w].on, days) :
            IsDeleted(files[f])
    BY DEF restore_cascade_board_files, IsDeleted, IsRow, IsLive
  <2> QED
    BY <1>7, <2>1, MarkedMove DEF restore_board_txn, admin_restore_board_txn
<1>8. CASE restore_user_txn(w) \/ admin_restore_user_txn(w)
  <2>1. \A days : \A f \in restore_all_user_files(pending[w].on, days) :
            IsDeleted(files[f])
    BY DEF restore_all_user_files, IsDeleted, IsRow, IsLive
  <2> QED
    BY <1>8, <2>1, MarkedMove
       DEF restore_user_txn, admin_restore_user_txn, restore_user_rows
<1>9. CASE create_board_txn(w) \/ ban_txn(w)
  BY <1>9 DEF create_board_txn, ban_txn, FilesMove
<1>10. ASSUME NEW u, NEW by, delete_user_rows(u, by)
       PROVE  FilesMove
  <2>1. \A f \in {g \in UserFiles(u) : IsLive(files[g])} : IsLive(files[f])
    OBVIOUS
  <2> QED
    BY <1>10, <2>1, MarkedMove DEF delete_user_rows
<1>11. CASE withdraw_txn(w)
  BY <1>10, <1>11 DEF withdraw_txn
<1>12. CASE admin_delete_user_txn(w)
  BY <1>10, <1>12, MarkedMove DEF admin_delete_user_txn
<1>13. CASE restore_file_txn(w) \/ admin_restore_file_txn(w)
  <2>1. \A f \in {g \in {pending[w].on} : IsRow(files[g])} :
            IsLive(files[f]) \/ IsDeleted(files[f])
    BY DEF IsDeleted
  <2> QED
    BY <1>13, <2>1, MarkedMove
       DEF restore_file_txn, admin_restore_file_txn, restore_one_file_txn
<1> QED
  BY <1>2, <1>3, <1>4, <1>5, <1>6, <1>7, <1>8, <1>9, <1>11, <1>12, <1>13

\* A file that is deleted anew, without its row being looked at again, was live
\* when the request was checked; a new one has its content.
LEMMA OneFileTxnsStay ==
    ASSUME IInv, NEW w \in Workers, Written(w),
           upload_files_txn(w) \/ delete_file_txn(w) \/ admin_delete_one_file_txn(w)
    PROVE  FilesStay
<1> DEFINE r == pending[w]
           f == r.on
<1>1. r.op \in FileOps /\ f \in Files /\ r # Idle /\ r.arg \in ArgsOf(r.op)
  <2>1. r.op \in FileOps
    BY DEF upload_files_txn, delete_file_txn, FileOps, Commit,
           admin_delete_one_file_txn, delete_one_file_txn
  <2> QED
    BY <2>1, RequestType DEF IInv
<1>2. IsDeleted(files[f]) => files[f].age <= WindowOf(r)
  BY <1>1 DEF IInv, RequestsInWindow, RowOf, FileOps, UserOps, BoardOps
<1>3. ASSUME NEW mark, files' = MarkFiles({g \in {f} : IsRow(files[g])}, mark),
             WindowOf(r) = 0
      PROVE  FilesStay
  <2>1. IsDeleted(files[f]) => files[f].age <= UserRestoreDays
    <3>1. files[f].age \in Int /\ UserRestoreDays \in Nat
      BY <1>1, WindowsAssumption DEF IInv, TypeOK, FileRows, Ages, WindowsAssumption
    <3> QED
      BY <1>2, <1>3, <3>1
  <2>2. IsRow(files[f]) => Unexpired(f)
    BY <1>1, <2>1, ExpiredFiles DEF IsDeleted
  <2> QED
    BY <1>3, <2>2 DEF FilesStay, FileStays, MarkFiles
<1>4. CASE upload_files_txn(w)
  <2>1. files[f].mark = "UNBORN" /\ f \in disk
    BY <1>4, <1>1 DEF upload_files_txn, Commit, IInv, CreationsDistinct, Creations,
                      RowOf, UserOps, BoardOps, Written, Uploading
  <2>2. files' = files \/ files' = MarkFiles({f}, "LIVE")
    BY <1>4 DEF upload_files_txn
  <2> QED
    BY <2>1, <2>2 DEF FilesStay, FileStays, MarkFiles
<1>5. CASE delete_file_txn(w)
  <2>1. WindowOf(r) = 0
    BY <1>1, <1>5 DEF delete_file_txn, delete_one_file_txn, Commit, WindowOf, ArgsOf
  <2> QED
    BY <1>3, <1>5, <2>1 DEF delete_file_txn, delete_one_file_txn
<1>6. CASE admin_delete_one_file_txn(w)
  <2>1. r.op = "admin_delete_one_file"
        /\ files' = MarkFiles({g \in {f} : IsRow(files[g])}, mark_written(r.arg))
    BY <1>6 DEF admin_delete_one_file_txn, delete_one_file_txn, Commit
  <2>2. CASE r.arg = "ADMIN_IMMEDIATE"
    BY <2>1, <2>2 DEF mark_written, FilesStay, FileStays, MarkFiles
  <2>3. CASE r.arg # "ADMIN_IMMEDIATE"
    BY <1>3, <2>1, <2>3 DEF WindowOf
  <2> QED
    BY <2>2, <2>3
<1> QED
  BY <1>4, <1>5, <1>6

\* The restorations of UserRestoreDays bring back nothing that is due for removal.
LEMMA TxnStays ==
    ASSUME SInv, NEW w \in Workers, Txn(w), Written(w)
    PROVE  FilesStayOrReturn(w)
<1>1. IInv
  BY DEF SInv
<1>2. CASE upload_files_txn(w) \/ delete_file_txn(w) \/ admin_delete_one_file_txn(w)
  BY <1>1, <1>2, OneFileTxnsStay DEF FilesStay, FilesStayOrReturn
<1>3. CASE ~(upload_files_txn(w) \/ delete_file_txn(w) \/ admin_delete_one_file_txn(w))
  <2>1. FilesMove
    BY <1>3, ManyFilesTxnsMove DEF Txn
  <2>2. ReturnsBy(pending[w])
    BY <1>1, FileTxnsWithin, BoardFilesTxnsWithin, BoardTxnsWithin, UserTxnsWithin
       DEF Txn
  <2>3. ASSUME NEW f \in Files, Returned(files[f], files'[f])
        PROVE  \/ Unexpired(f)
               \/ pending[w].op \in LateRestores /\ FileExpired(f) /\ IsLive(files'[f])
    <3>1. /\ pending[w].op \in OwnersRestores \cup AdminRestores
          /\ files[f].age <= FileDays(pending[w].op)
      BY <2>2, <2>3 DEF ReturnsBy, NothingReturns, Within
    <3>2. CASE pending[w].op \in LateRestores
      BY <2>3, <3>2 DEF Unexpired, Returned, IsDeleted
    <3>3. CASE pending[w].op \notin LateRestores
      <4>1. FileDays(pending[w].op) = UserRestoreDays
        BY <3>3 DEF LateRestores, FileDays, RowDays
      <4> QED
        BY <1>1, <2>3, <3>1, <4>1, ExpiredFiles DEF Returned
    <3> QED
      BY <3>2, <3>3
  <2>4. \A f \in Files : IsLive(files[f]) => Unexpired(f)
    BY <1>1, ExpiredFiles
  <2> QED
    BY <2>1, <2>3, <2>4 DEF FilesMove, FilesStayOrReturn, FileStays
<1> QED
  BY <1>2, <1>3

LEMMA Untouched ==
    ASSUME NEW f \in Files, files'[f] = files[f]
    PROVE  (Unexpired(f)' <=> Unexpired(f)) /\ (Gone(f)' <=> Gone(f))
BY DEF Unexpired, Gone, FileExpired, IsRow

\* A file that stays keeps its content where that is needed, and its place on the
\* list.
LEMMA StayKeeps ==
    ASSUME SInv, NEW f \in Files \ late, FileStays(f)
    PROVE  /\ Unexpired(f)' => f \in disk
           /\ f \in sweep.paths => Gone(f)'
<1>1. Unexpired(f) => f \in disk
  BY DEF SInv
<1>2. f \in sweep.paths => Gone(f) /\ ~Unexpired(f) /\ files[f].mark # "UNBORN"
  BY ExpiredFiles DEF SInv, Gone, FileExpired
<1>3. CASE files'[f] = files[f]
  BY <1>1, <1>2, <1>3, Untouched
<1>4. CASE files'[f].mark = "PURGED"
  BY <1>4 DEF Unexpired, Gone, IsRow
<1>5. CASE Unexpired(f) \/ (files[f].mark = "UNBORN" /\ f \in disk)
  BY <1>1, <1>2, <1>5
<1> QED
  BY <1>3, <1>4, <1>5 DEF FileStays
-----------------------------------------------------------------------------
(* Steps *)

LEMMA CheckBegins ==
    ASSUME NEW w \in Workers, Check(w)
    PROVE  UNCHANGED rows
<1>1. \E op, on, arg : Begin(w, op, on, arg)
  BY DEF Check, UserCheck, BoardCheck, FileCheck,
         withdraw, restore_user, ban, admin_delete_user, admin_restore_user,
         create_board, delete_board, restore_board, delete_all,
         restore_all_file, admin_delete_board, admin_restore_board,
         admin_delete_all_board_files, admin_restore_all_files,
         upload_files, delete_file, restore_file, admin_delete_one_file,
         admin_restore_file
<1> QED
  BY <1>1 DEF Begin

LEMMA StorageInitInductive == StorageInit => SInv
<1> SUFFICES ASSUME StorageInit
             PROVE  SInv
  OBVIOUS
<1>1. IInv /\ disk = {} /\ sweep = NoSweep /\ late = {}
  BY InitInductive DEF StorageInit
<1>2. \A f \in Files : ~Unexpired(f)
  BY DEF StorageInit, Init, Unexpired, IsRow
<1> QED
  BY <1>1, <1>2 DEF SInv, NoSweep

\* A step of FileStorage is a step of ContentLifecycle, or leaves its rows.
LEMMA StorageStepsContent == [StorageNext]_storageVars => [Next]_vars
<1> SUFFICES ASSUME StorageNext
             PROVE  [Next]_vars
  BY DEF storageVars, vars
<1>1. ASSUME NEW w \in Workers, RequestBegins(w) \/ write_content(w) \/ RequestEnds(w)
      PROVE  [Next]_vars
  BY <1>1 DEF RequestBegins, write_content, RequestEnds, Next, vars
<1>2. CASE Sweep
  BY <1>2 DEF Sweep, get_delete_file_path, remove_content, finish_sweep, stop_sweep,
              Next, Scheduler, vars
<1>3. CASE OtherJobs \/ Day
  BY <1>3 DEF OtherJobs, Day, Next
<1> QED
  BY <1>1, <1>2, <1>3 DEF StorageNext

LEMMA SchedulerStays ==
    ASSUME Scheduler
    PROVE  FilesStay
<1>1. CASE delete_files
  BY <1>1 DEF delete_files, MarkFiles, FilesStay, FileStays
<1>2. CASE delete_boards
  BY <1>2 DEF delete_boards, MarkFiles, FilesStay, FileStays
<1>3. CASE delete_soft_deleted_user
  BY <1>3 DEF delete_soft_deleted_user, FilesStay, FileStays
<1> QED
  BY <1>1, <1>2, <1>3 DEF Scheduler

\* A day makes files expire, and none current.
LEMMA DayExpires ==
    ASSUME IInv, Tick, NEW f \in Files, Unexpired(f)'
    PROVE  Unexpired(f)
<1>1. files[f] \in FileRows /\ files'[f] = Older(files[f])
  BY DEF Tick, IInv, TypeOK
<1>2. files'[f].mark = files[f].mark
  BY <1>1 DEF Older, FileRows
<1>3. files[f].age \in Int /\ files'[f].age \in {files[f].age, files[f].age + 1}
  BY <1>1 DEF Older, FileRows, Ages
<1>4. UserExpireDays \in Int /\ AdminExpireDays \in Int
  BY WindowsAssumption DEF WindowsAssumption
<1>5. FileExpired(f) => FileExpired(f)'
  BY <1>2, <1>3, <1>4 DEF FileExpired
<1> QED
  BY <1>2, <1>5 DEF Unexpired, IsRow

LEMMA StorageStepInductive ==
    ASSUME SInv, [StorageNext]_storageVars
    PROVE  SInv'
<1>1. IInv' /\ IInv
  BY StorageStepsContent, StepInductive DEF SInv
<1>2. ASSUME FilesStay, UNCHANGED <<disk, sweep, late>>
      PROVE  SInv'
  <2>1. \A f \in Files \ late : (Unexpired(f)' => f \in disk)
                                  /\ (f \in sweep.paths => Gone(f)')
    BY <1>2, StayKeeps DEF FilesStay
  <2> QED
    BY <1>1, <1>2, <2>1 DEF SInv
<1>3. ASSUME UNCHANGED rows
      PROVE  \A f \in Files : (Unexpired(f)' <=> Unexpired(f)) /\ (Gone(f)' <=> Gone(f))
  BY <1>3, Untouched DEF rows
<1>4. ASSUME NEW w \in Workers, RequestBegins(w)
      PROVE  SInv'
  <2>1. FilesStay
    BY <1>4, CheckBegins DEF RequestBegins, FilesStay, FileStays, rows
  <2> QED
    BY <1>2, <1>4, <2>1 DEF RequestBegins
<1>5. ASSUME NEW w \in Workers, RequestEnds(w)
      PROVE  SInv'
  <2>1. FilesStayOrReturn(w)
    BY <1>5, TxnStays DEF RequestEnds, abort, FilesStayOrReturn, FileStays, rows
  <2>2. late' = late \cup {f \in Files : ReturnsLate(w, f)} /\ UNCHANGED <<disk, sweep>>
    BY <1>5 DEF RequestEnds
  <2>3. ASSUME NEW f \in Files, f \notin late'
        PROVE  (Unexpired(f)' => f \in disk) /\ (f \in sweep.paths => Gone(f)')
    <3>1. f \notin late /\ ~ReturnsLate(w, f)
      BY <2>2, <2>3
    <3>2. CASE FileStays(f)
      BY <3>1, <3>2, StayKeeps
    <3>3. CASE ~FileStays(f)
      BY <2>1, <3>1, <3>3 DEF FilesStayOrReturn, ReturnsLate
    <3> QED
      BY <3>2, <3>3
  <2>4. late' \subseteq Files
    BY <2>2 DEF SInv
  <2> QED
    BY <1>1, <2>2, <2>3, <2>4 DEF SInv
<1>6. ASSUME NEW w \in Workers, write_content(w)
      PROVE  SInv'
  <2>1. pending[w].on \in Files
    BY <1>6, RequestType DEF write_content, Uploading, SInv, IInv, FileOps
  <2>2. UNCHANGED <<rows, sweep, late>> /\ disk' = disk \cup {pending[w].on}
    BY <1>6 DEF write_content, rows
  <2> QED
    BY <1>1, <1>3, <2>1, <2>2 DEF SInv
<1>7. CASE get_delete_file_path
  <2>1. UNCHANGED <<rows, disk, late>>
        /\ sweep' = [running |-> TRUE, paths |-> delete_file_paths]
    BY <1>7 DEF get_delete_file_path, rows
  <2>2. \A f \in delete_file_paths : f \in Files /\ Gone(f)
    BY DEF delete_file_paths, Gone
  <2> QED
    BY <1>1, <1>3, <2>1, <2>2 DEF SInv
<1>8. ASSUME NEW f \in Files, remove_content(f)
      PROVE  SInv'
  <2>1. UNCHANGED <<rows, late>> /\ disk' \in {disk, disk \ {f}} /\ f \in sweep.paths
        /\ sweep' = [sweep EXCEPT !.paths = @ \ {f}]
    BY <1>8 DEF remove_content, rows
  <2>2. /\ sweep'.paths = sweep.paths \ {f} /\ sweep'.running = sweep.running
        /\ sweep' \in [running : BOOLEAN, paths : SUBSET Files]
    BY <2>1 DEF SInv
  <2>3. f \notin late => ~Unexpired(f)
    BY <1>1, <2>1, ExpiredFiles DEF SInv
  <2>4. \A g \in Files \ late : Unexpired(g)' => g \in disk'
    BY <1>3, <2>1, <2>3 DEF SInv
  <2> QED
    BY <1>1, <1>3, <2>1, <2>2, <2>4 DEF SInv
<1>9. CASE finish_sweep
  <2>1. FilesStay /\ sweep' = NoSweep /\ UNCHANGED <<disk, late>>
    BY <1>9, SchedulerStays DEF finish_sweep, Scheduler
  <2>2. \A f \in Files \ late : Unexpired(f)' => f \in disk
    BY <2>1, StayKeeps DEF FilesStay
  <2> QED
    BY <1>1, <2>1, <2>2 DEF SInv, NoSweep
<1>10. CASE stop_sweep
  <2>1. UNCHANGED <<rows, disk, late>> /\ sweep' = NoSweep
    BY <1>10 DEF stop_sweep, rows
  <2> QED
    BY <1>1, <1>3, <2>1 DEF SInv, NoSweep
<1>11. CASE OtherJobs
  BY <1>2, <1>11, SchedulerStays DEF OtherJobs
<1>12. CASE Day
  <2>1. UNCHANGED <<disk, sweep, late>> /\ sweep.paths = {} /\ Tick
    BY <1>12 DEF Day, SInv
  <2>2. \A f \in Files : Unexpired(f)' => Unexpired(f)
    BY <1>1, <2>1, DayExpires
  <2> QED
    BY <1>1, <2>1, <2>2 DEF SInv
<1>13. CASE UNCHANGED storageVars
  BY <1>2, <1>13 DEF storageVars, FilesStay, FileStays
<1> QED
  BY <1>4, <1>5, <1>6, <1>7, <1>8, <1>9, <1>10, <1>11, <1>12, <1>13
     DEF StorageNext, Sweep

LEMMA StorageInductive == StorageSpec => []SInv
BY StorageInitInductive, StorageStepInductive, PTL DEF StorageSpec

\* Rows, requests, contents and sweeps stay in their types, whatever overlaps.
THEOREM StorageTypesHold == StorageSpec => []StorageTypeOK
<1>1. SInv => StorageTypeOK
  BY DEF SInv, IInv, StorageTypeOK
<1> QED
  BY <1>1, StorageInductive, PTL

\* However requests overlap with a sweep and whatever stops it, a row that is shown
\* or not yet due for removal has its content, unless a restoration that reaches the
\* day of the removal brought it back from the sweep's list or from behind it.
THEOREM UnexpiredContentsStay == StorageSpec => []UnexpiredFilesOnDisk
<1>1. SInv => UnexpiredFilesOnDisk
  BY DEF SInv, UnexpiredFilesOnDisk
<1> QED
  BY <1>1, StorageInductive, PTL

\* No other request, in flight when a sweep made its list or begun since, makes a
\* listed file current again.
THEOREM ListedFilesStayExpired == StorageSpec => []ListedFilesExpired
<1>1. SInv => ListedFilesExpired
  BY ExpiredFiles DEF SInv, ListedFilesExpired
<1> QED
  BY <1>1, StorageInductive, PTL
=============================================================================
