--------------------------- MODULE ContentProofs ---------------------------
(***************************************************************************)
(* Proofs about ContentLifecycle, for any rows, any number of overlapping  *)
(* requests, and any windows in the order of WindowsAssumption; and, from  *)
(* OneAtATime on, what holds as long as requests do not overlap.           *)
(***************************************************************************)
EXTENDS ContentLifecycle, FiniteSetTheorems, TLAPS

-----------------------------------------------------------------------------
(* What the helpers return *)

LEMMA AgeZero == 0 \in Ages /\ AdminExpireDays \in Nat
BY WindowsAssumption DEF WindowsAssumption, Ages

LEMMA Relations ==
    /\ \A b \in Boards : Owner[b] \in Users
    /\ \A f \in Files : BoardOf[f] \in Boards /\ Owner[BoardOf[f]] \in Users
BY RelationsAssumption DEF RelationsAssumption

LEMMA TotalsType ==
    /\ 0 \in Totals
    /\ \A fs, b : get_total_fsize(fs, b) \in Totals
BY DEF Totals, get_total_fsize, LiveFiles, FilesOf

LEMMA MarkFilesType ==
    ASSUME files \in [Files -> FileRows], NEW S,
           NEW mark \in {"UNBORN", "LIVE", "PURGED"} \cup FileMarks
    PROVE  MarkFiles(S, mark) \in [Files -> FileRows]
BY AgeZero DEF MarkFiles, FileRows

LEMMA UpdateTotalType ==
    ASSUME NEW bs \in [Boards -> BoardRows], NEW b \in Boards, NEW t \in Totals
    PROVE  update_total_board_fsize(bs, b, t) \in [Boards -> BoardRows]
BY DEF update_total_board_fsize, BoardRows

LEMMA UpdateAllTotalsType ==
    ASSUME NEW bs \in [Boards -> BoardRows], NEW fs, NEW u
    PROVE  /\ update_all_user_boards_total_fsize(bs, u) \in [Boards -> BoardRows]
           /\ recalculate_all_user_boards_total_fsize(bs, fs, u)
                 \in [Boards -> BoardRows]
<1>1. update_all_user_boards_total_fsize(bs, u) \in [Boards -> BoardRows]
  BY TotalsType DEF update_all_user_boards_total_fsize, BoardRows
<1>2. recalculate_all_user_boards_total_fsize(bs, fs, u) \in [Boards -> BoardRows]
  <2> DEFINE t(b) == get_total_fsize(fs, b)
  <2>1. \A b : t(b) \in Totals
    BY TotalsType
  <2> HIDE DEF t
  <2>2. [b \in Boards |-> IF Owner[b] = u /\ IsRow(bs[b])
                         THEN [bs[b] EXCEPT !.total = t(b)]
                         ELSE bs[b]] \in [Boards -> BoardRows]
    BY <2>1 DEF BoardRows
  <2> QED
    BY <2>2 DEF recalculate_all_user_boards_total_fsize, t
<1> QED
  BY <1>1, <1>2

LEMMA BoardHelpersType ==
    ASSUME boards \in [Boards -> BoardRows], NEW b \in Boards
    PROVE  /\ \A by \in BoardMarks : soft_delete_board(b, by) \in [Boards -> BoardRows]
           /\ restore_board_row(b) \in [Boards -> BoardRows]
BY AgeZero DEF soft_delete_board, restore_board_row, BoardRows

LEMMA UserHelpersType ==
    ASSUME users \in [Users -> UserRows], NEW u \in Users
    PROVE  /\ \A by \in UserMarks : soft_delete_user(u, by) \in [Users -> UserRows]
           /\ hard_delete_user(u) \in [Users -> UserRows]
           /\ \A anon : restore_user_data(u, anon) \in [Users -> UserRows]
BY AgeZero DEF soft_delete_user, hard_delete_user, restore_user_data, UserRows,
               UserMarks
-----------------------------------------------------------------------------
(* The inductive invariant.  TotalAccurate and CascadeFollowsCause are not  *)
(* inductive alone: a commit acts on what its check saw, so the invariant   *)
(* also says what is left of every check while its request is in flight.    *)

IInv == /\ TypeOK
        /\ FilesHaveBoard
        /\ TotalAccurate
        /\ CascadeFollowsCause
        /\ RequestsInWindow
        /\ CreationsDistinct

\* What every step but Tick does to ages: a row is deleted now, or as it was.
AgeKept(row, newRow) ==
    IsDeleted(newRow) => newRow.age = 0 \/ (IsDeleted(row) /\ newRow.age = row.age)

AgesKept ==
    /\ \A u \in Users : AgeKept(users[u], users'[u])
    /\ \A b \in Boards : AgeKept(boards[b], boards'[b])
    /\ \A f \in Files : AgeKept(files[f], files'[f])

\* A row is inserted only by the request that claimed its index.
UnbornKept(w) ==
    /\ \A b \in Boards : boards[b].mark = "UNBORN"
          => boards'[b].mark = "UNBORN" \/ pending[w] = Request("create_board", b, "NONE")
    /\ \A f \in Files : files[f].mark = "UNBORN"
          => files'[f].mark = "UNBORN" \/ pending[w] = Request("upload_files", f, "NONE")

\* What the effect of a step on the rows has to establish.
Effect == /\ users' \in [Users -> UserRows]
          /\ boards' \in [Boards -> BoardRows]
          /\ files' \in [Files -> FileRows]
          /\ FilesHaveBoard' /\ TotalAccurate' /\ CascadeFollowsCause'
          /\ AgesKept

\* And the effect of the transaction of w.
Sound(w) == Effect /\ UnbornKept(w)

LEMMA RequestType ==
    ASSUME TypeOK, NEW w \in Workers
    PROVE  /\ pending[w].op \in UserOps => pending[w].on \in Users
           /\ pending[w].op \in BoardOps => pending[w].on \in Boards
           /\ pending[w].op \in FileOps => pending[w].on \in Files
           /\ pending[w].op \in UserOps \cup BoardOps \cup FileOps
                 => /\ pending[w] = Request(pending[w].op, pending[w].on, pending[w].arg)
                    /\ pending[w].arg \in ArgsOf(pending[w].op)
                    /\ pending[w] # Idle
<1>1. pending[w] \in Requests \cup {Idle}
  BY DEF TypeOK
<1>2. CASE pending[w] = Idle
  BY <1>2 DEF Idle, UserOps, BoardOps, FileOps
<1>3. CASE pending[w] \in RequestsOn(UserOps, Users)
  BY <1>3 DEF RequestsOn, Request, Idle, UserOps, BoardOps, FileOps
<1>4. CASE pending[w] \in RequestsOn(BoardOps, Boards)
  BY <1>4 DEF RequestsOn, Request, Idle, UserOps, BoardOps, FileOps
<1>5. CASE pending[w] \in RequestsOn(FileOps, Files)
  BY <1>5 DEF RequestsOn, Request, Idle, UserOps, BoardOps, FileOps
<1> QED
  BY <1>1, <1>2, <1>3, <1>4, <1>5 DEF Requests

\* The request part of the invariant survives every step that begins no request.
LEMMA RequestsKept ==
    ASSUME IInv, Effect,
           pending' \in [Workers -> Requests \cup {Idle}],
           \A v \in Workers : pending'[v] \in {Idle, pending[v]},
           \A v \in Workers : LET r == pending'[v] IN
              /\ r.op = "create_board" /\ boards[r.on].mark = "UNBORN"
                   => boards'[r.on].mark = "UNBORN"
              /\ r.op = "upload_files" /\ files[r.on].mark = "UNBORN"
                   => files'[r.on].mark = "UNBORN"
    PROVE  IInv'
<1>1. TypeOK'
  BY DEF TypeOK, Effect
<1>2. RequestsInWindow'
  <2> SUFFICES ASSUME NEW v \in Workers, NEW r, r = pending'[v], r # Idle,
                     IsDeleted(RowOf(r)')
              PROVE  RowOf(r)'.age <= WindowOf(r)
    BY DEF RequestsInWindow, RowOf, IsDeleted, IsRow, IsLive
  <2>1. r = pending[v]
    OBVIOUS
  <2>2. r \in Requests
    BY <2>1 DEF IInv, TypeOK
  <2>3. WindowOf(r) \in Nat
    BY WindowsAssumption DEF WindowsAssumption, WindowOf
  <2>4. AgeKept(RowOf(r), RowOf(r)')
    <3>1. CASE r.op \in UserOps
      BY <3>1, <2>1, RequestType DEF RowOf, Effect, AgesKept, IInv
    <3>2. CASE r.op \in BoardOps
      BY <3>2, <2>1, RequestType DEF RowOf, Effect, AgesKept, IInv, UserOps, BoardOps
    <3>3. CASE r.op \in FileOps
      BY <3>3, <2>1, RequestType DEF RowOf, Effect, AgesKept, IInv, UserOps, BoardOps,
                                     FileOps
    <3> QED
      BY <2>2, <3>1, <3>2, <3>3 DEF Requests, RequestsOn
  <2>5. IsDeleted(RowOf(r)) => RowOf(r).age <= WindowOf(r)
    BY <2>1 DEF IInv, RequestsInWindow
  <2> QED
    BY <2>3, <2>4, <2>5 DEF AgeKept
<1>3. CreationsDistinct'
  <2> SUFFICES ASSUME NEW v \in Workers, NEW r, r = pending'[v], r.op \in Creations
              PROVE  /\ RowOf(r)'.mark = "UNBORN"
                     /\ \A x \in Workers \ {v} : pending'[x].op = r.op
                                                  => pending'[x].on # r.on
    BY DEF CreationsDistinct, RowOf
  <2>1. r = pending[v]
    BY DEF Idle, Creations
  <2>2. \A x \in Workers : pending'[x].op = r.op => pending'[x] = pending[x]
    BY DEF Idle, Creations
  <2>3. /\ RowOf(r).mark = "UNBORN"
        /\ \A x \in Workers \ {v} : pending[x].op = r.op => pending[x].on # r.on
    BY <2>1 DEF IInv, CreationsDistinct
  <2>4. RowOf(r)'.mark = "UNBORN"
    BY <2>3 DEF Creations, RowOf, UserOps, BoardOps
  <2> QED
    BY <2>2, <2>3, <2>4
<1> QED
  BY <1>1, <1>2, <1>3 DEF IInv, Effect

LEMMA CommitKept ==
    ASSUME IInv, NEW w \in Workers, Sound(w),
           pending' = [pending EXCEPT ![w] = Idle]
    PROVE  IInv'
<1>1. /\ pending' \in [Workers -> Requests \cup {Idle}]
      /\ \A v \in Workers : pending'[v] = IF v = w THEN Idle ELSE pending[v]
  BY DEF IInv, TypeOK
<1>2. ASSUME NEW v \in Workers, NEW r, r = pending'[v]
      PROVE  /\ r.op = "create_board" /\ boards[r.on].mark = "UNBORN"
                  => boards'[r.on].mark = "UNBORN"
             /\ r.op = "upload_files" /\ files[r.on].mark = "UNBORN"
                  => files'[r.on].mark = "UNBORN"
  <2>1. r.op \in Creations
           => /\ v # w /\ r = pending[v]
              /\ pending[w].op = r.op => pending[w].on # r.on
    BY <1>1, <1>2 DEF Idle, Creations, IInv, CreationsDistinct
  <2>2. /\ r.op = "create_board" => r.on \in Boards
        /\ r.op = "upload_files" => r.on \in Files
    BY <2>1, RequestType DEF IInv, Creations, BoardOps, FileOps
  <2>3. /\ r.op = "create_board" => pending[w] # Request("create_board", r.on, "NONE")
        /\ r.op = "upload_files" => pending[w] # Request("upload_files", r.on, "NONE")
    BY <2>1 DEF Request, Creations
  <2> QED
    BY <2>2, <2>3 DEF Sound, UnbornKept
<1> QED
  BY <1>1, <1>2, RequestsKept DEF Sound
-----------------------------------------------------------------------------
(* The effects of the transactions, by shape *)

\* Marking files of board b leaves the live files of the others alone.
LEMMA OtherBoards ==
    ASSUME NEW b \in Boards, NEW S \in SUBSET FilesOf(b), NEW mark,
           files' = MarkFiles(S, mark), NEW c \in Boards \ {b}
    PROVE  LiveFiles(files', c) = LiveFiles(files, c)
BY DEF LiveFiles, MarkFiles, FilesOf

\* When files of one board change, only that board's total has to be looked at.
LEMMA OneBoardTotals ==
    ASSUME TotalAccurate, boards \in [Boards -> BoardRows],
           NEW b \in Boards, NEW S \in SUBSET FilesOf(b), NEW mark,
           files' = MarkFiles(S, mark),
           \A c \in Boards \ {b} : boards'[c] = boards[c],
           \/ ~IsRow(boards'[b])
           \/ LiveFiles(files', b) = {}
           \/ boards'[b].total = get_total_fsize(files', b)
    PROVE  TotalAccurate'
<1>1. ASSUME NEW c \in Boards \ {b}, IsRow(boards'[c]), LiveFiles(files', c) # {}
      PROVE  boards'[c].total = get_total_fsize(files', c)
  <2>1. LiveFiles(files', c) = LiveFiles(files, c)
    BY OtherBoards
  <2> QED
    BY <1>1, <2>1 DEF TotalAccurate, get_total_fsize
<1> QED
  BY <1>1 DEF TotalAccurate, IsRow, LiveFiles, IsLive, get_total_fsize

\* Some files of board b get a mark that is no cascade; b has its new total, or
\* has no live file left.
LEMMA FileShape ==
    ASSUME IInv, NEW w \in Workers, NEW b \in Boards, NEW S \in SUBSET FilesOf(b),
           NEW mark \in {"LIVE", "USER", "ADMIN_SCHEDULED", "PURGED"},
           users' = users,
           files' = MarkFiles(S, mark),
           \/ boards' = update_total_board_fsize(boards, b, get_total_fsize(files', b))
           \/ /\ LiveFiles(files', b) = {}
              /\ boards' = boards \/ boards' = update_total_board_fsize(boards, b, 0),
           \A f \in S :
              \/ IsRow(files[f])
              \/ IsRow(boards[b]) /\ pending[w] = Request("upload_files", f, "NONE")
    PROVE  Sound(w)
<1>1. files' \in [Files -> FileRows]
  BY MarkFilesType DEF IInv, TypeOK, FileMarks
<1>2. boards' \in [Boards -> BoardRows]
  BY UpdateTotalType, TotalsType DEF IInv, TypeOK
<1>3. \A c \in Boards : /\ boards'[c].mark = boards[c].mark
                        /\ boards'[c].age = boards[c].age
                        /\ c # b => boards'[c] = boards[c]
  BY DEF update_total_board_fsize, IInv, TypeOK, BoardRows
<1>4. \A f \in Files : IF f \in S THEN files'[f] = [mark |-> mark, age |-> 0]
                                  ELSE files'[f] = files[f]
  BY DEF MarkFiles
<1>5. \A f \in S : BoardOf[f] = b
  BY DEF FilesOf
<1>6. FilesHaveBoard'
  BY <1>3, <1>4, <1>5, Relations DEF FilesHaveBoard, IInv, IsRow
<1>7. TotalAccurate'
  <2>1. \/ ~IsRow(boards[b])
        \/ LiveFiles(files', b) = {}
        \/ boards'[b].total = get_total_fsize(files', b)
    BY DEF update_total_board_fsize, IInv, TypeOK, BoardRows
  <2>2. IsRow(boards'[b]) <=> IsRow(boards[b])
    BY <1>3 DEF IsRow
  <2> QED
    BY <1>3, <2>1, <2>2, OneBoardTotals DEF IInv, TypeOK
<1>8. CascadeFollowsCause'
  <2> SUFFICES ASSUME NEW f \in Files, f \notin S
              PROVE  CauseStands(f)'
    BY <1>4 DEF CascadeFollowsCause, CauseStands
  <2>1. files'[f] = files[f] /\ BoardOf[f] \in Boards
    BY <1>4, Relations
  <2> QED
    BY <1>3, <2>1 DEF CascadeFollowsCause, CauseStands, IInv, IsDeleted, IsRow, IsLive
<1>9. AgesKept
  BY <1>3, <1>4 DEF AgesKept, AgeKept, IsDeleted, IsRow, IsLive
<1>10. UnbornKept(w)
  BY <1>3, <1>4 DEF UnbornKept, IsRow
<1> QED
  BY <1>1, <1>2, <1>6, <1>7, <1>8, <1>9, <1>10 DEF Sound, Effect, IInv, TypeOK

\* Board b is deleted, now, by a request that saw it live; its live files go too.
LEMMA DeleteBoardShape ==
    ASSUME IInv, NEW w \in Workers, NEW b \in Boards, NEW by \in BoardMarks,
           IsDeleted(boards[b]) => boards[b].age = 0,
           users' = users,
           files' = MarkFiles(LiveFiles(files, b), "BOARD_CASCADE"),
           boards' = soft_delete_board(b, by)
    PROVE  Sound(w)
<1>1. files' \in [Files -> FileRows]
  BY MarkFilesType DEF IInv, TypeOK, FileMarks
<1>2. boards' \in [Boards -> BoardRows]
  BY BoardHelpersType DEF IInv, TypeOK
<1>3. \A c \in Boards : IF c = b /\ IsRow(boards[b])
                        THEN boards'[c].mark = by /\ boards'[c].age = 0
                        ELSE boards'[c] = boards[c]
  BY DEF soft_delete_board, IInv, TypeOK, BoardRows
<1>4. \A f \in Files : IF BoardOf[f] = b /\ IsLive(files[f])
                       THEN files'[f] = [mark |-> "BOARD_CASCADE", age |-> 0]
                       ELSE files'[f] = files[f]
  BY DEF MarkFiles, LiveFiles, FilesOf
<1>5. IsRow(boards[b]) => IsDeleted(boards'[b])
  BY <1>3 DEF IsDeleted, IsRow, IsLive, BoardMarks
<1>6. FilesHaveBoard'
  BY <1>3, <1>4, <1>5, Relations DEF FilesHaveBoard, IInv, IsRow, IsLive, IsDeleted
<1>7. TotalAccurate'
  <2>1. LiveFiles(files', b) = {}
    BY <1>4 DEF LiveFiles, FilesOf, IsLive
  <2>2. LiveFiles(files, b) \in SUBSET FilesOf(b)
    BY DEF LiveFiles
  <2> QED
    BY <1>3, <2>1, <2>2, OneBoardTotals DEF IInv, TypeOK
<1>8. CascadeFollowsCause'
  <2> SUFFICES ASSUME NEW f \in Files
              PROVE  CauseStands(f)'
    BY DEF CascadeFollowsCause
  <2>1. BoardOf[f] \in Boards
    BY Relations
  <2>2. CASE BoardOf[f] = b /\ IsLive(files[f])
    BY <1>3, <1>4, <1>5, <2>2 DEF CauseStands, FilesHaveBoard, IInv, IsRow, IsLive
  <2>3. CASE ~(BoardOf[f] = b /\ IsLive(files[f]))
    BY <1>3, <1>4, <1>5, <2>1, <2>3 DEF CascadeFollowsCause, CauseStands, IInv, IsDeleted
  <2> QED
    BY <2>2, <2>3
<1>9. AgesKept
  BY <1>3, <1>4 DEF AgesKept, AgeKept
<1>10. UnbornKept(w)
  BY <1>3, <1>4 DEF UnbornKept, IsRow, IsLive
<1> QED
  BY <1>1, <1>2, <1>6, <1>7, <1>8, <1>9, <1>10 DEF Sound, Effect, IInv, TypeOK

LEMMA RestoredBoard ==
    ASSUME boards \in [Boards -> BoardRows], NEW b \in Boards, NEW t, NEW bs,
           bs = update_total_board_fsize(restore_board_row(b), b, t)
    PROVE  \A c \in Boards : IF c = b /\ IsRow(boards[b])
                             THEN bs[c].mark = "LIVE" /\ bs[c].total = t
                             ELSE bs[c] = boards[c]
<1>1. CASE IsRow(boards[b])
  <2>1. restore_board_row(b) = [boards EXCEPT ![b].mark = "LIVE", ![b].age = 0]
    BY <1>1 DEF restore_board_row
  <2>2. IsRow(restore_board_row(b)[b])
    BY <2>1 DEF IsRow, BoardRows
  <2>3. bs = [restore_board_row(b) EXCEPT ![b].total = t]
    BY <2>2 DEF update_total_board_fsize
  <2>4. restore_board_row(b) \in [Boards -> BoardRows]
    BY BoardHelpersType
  <2>5. restore_board_row(b)[b].mark = "LIVE"
    BY <2>1 DEF BoardRows
  <2>6. bs[b].mark = "LIVE" /\ bs[b].total = t
    BY <2>3, <2>4, <2>5 DEF BoardRows
  <2>7. \A c \in Boards \ {b} : bs[c] = boards[c]
    BY <2>1, <2>3, <2>4
  <2> QED
    BY <1>1, <2>6, <2>7
<1>2. CASE ~IsRow(boards[b])
  BY <1>2 DEF update_total_board_fsize, restore_board_row
<1> QED
  BY <1>1, <1>2

\* Board b comes back, within a window its files' window contains.
LEMMA RestoreBoardShape ==
    ASSUME IInv, NEW w \in Workers, NEW b \in Boards, NEW days \in Nat,
           IsDeleted(boards[b]) => boards[b].age <= days,
           users' = users,
           files' = MarkFiles(restore_cascade_board_files(b, days), "LIVE"),
           boards' = update_total_board_fsize(restore_board_row(b), b,
                                              get_total_fsize(files', b))
    PROVE  Sound(w)
<1>1. files' \in [Files -> FileRows]
  BY MarkFilesType DEF IInv, TypeOK
<1>2. boards' \in [Boards -> BoardRows]
  BY UpdateTotalType, TotalsType, BoardHelpersType DEF IInv, TypeOK
<1>3. \A c \in Boards : IF c = b /\ IsRow(boards[b])
                        THEN /\ boards'[c].mark = "LIVE"
                             /\ boards'[c].total = get_total_fsize(files', b)
                        ELSE boards'[c] = boards[c]
  BY RestoredBoard DEF IInv, TypeOK
<1>4. \A f \in Files :
         IF BoardOf[f] = b /\ files[f].mark = "BOARD_CASCADE" /\ files[f].age <= days
         THEN files'[f] = [mark |-> "LIVE", age |-> 0]
         ELSE files'[f] = files[f]
  BY DEF MarkFiles, restore_cascade_board_files, FilesOf
<1>5. FilesHaveBoard'
  BY <1>3, <1>4, Relations DEF FilesHaveBoard, IInv, IsRow
<1>6. TotalAccurate'
  <2>1. restore_cascade_board_files(b, days) \in SUBSET FilesOf(b)
    BY DEF restore_cascade_board_files
  <2>2. \/ ~IsRow(boards'[b])
        \/ boards'[b].total = get_total_fsize(files', b)
    BY <1>3
  <2> QED
    BY <1>3, <2>1, <2>2, OneBoardTotals DEF IInv, TypeOK
<1>7. CascadeFollowsCause'
  <2> SUFFICES ASSUME NEW f \in Files
              PROVE  CauseStands(f)'
    BY DEF CascadeFollowsCause
  <2>1. BoardOf[f] \in Boards /\ CauseStands(f)
    BY Relations DEF IInv, CascadeFollowsCause
  <2>2. CASE BoardOf[f] = b
    BY <1>3, <1>4, <2>1, <2>2 DEF CauseStands
  <2>3. CASE BoardOf[f] # b
    BY <1>3, <1>4, <2>1, <2>3 DEF CauseStands
  <2> QED
    BY <2>2, <2>3
<1>8. AgesKept
  BY <1>3, <1>4 DEF AgesKept, AgeKept, IsDeleted, IsRow, IsLive
<1>9. UnbornKept(w)
  BY <1>3, <1>4 DEF UnbornKept, IsRow
<1> QED
  BY <1>1, <1>2, <1>5, <1>6, <1>7, <1>8, <1>9 DEF Sound, Effect, IInv, TypeOK

\* User u is deleted, now, by a request that saw the user live.
LEMMA DeleteUserShape ==
    ASSUME IInv, NEW w \in Workers, NEW u \in Users, NEW by \in UserMarks,
           IsDeleted(users[u]) => users[u].age = 0,
           delete_user_rows(u, by)
    PROVE  Sound(w)
<1>1. files' \in [Files -> FileRows]
  BY MarkFilesType DEF IInv, TypeOK, FileMarks, delete_user_rows
<1>2. boards' \in [Boards -> BoardRows]
  BY UpdateAllTotalsType DEF IInv, TypeOK, delete_user_rows
<1>3. users' \in [Users -> UserRows]
  BY UserHelpersType DEF IInv, TypeOK, delete_user_rows
<1>4. \A b \in Boards : /\ boards'[b].mark = boards[b].mark
                        /\ boards'[b].age = boards[b].age
                        /\ Owner[b] # u => boards'[b] = boards[b]
  BY DEF delete_user_rows, update_all_user_boards_total_fsize, IInv, TypeOK, BoardRows
<1>5. \A f \in Files : IF Owner[BoardOf[f]] = u /\ IsLive(files[f])
                       THEN files'[f] = [mark |-> "USER_CASCADE", age |-> 0]
                       ELSE files'[f] = files[f]
  BY DEF delete_user_rows, MarkFiles, UserFiles
<1>6. /\ IsDeleted(users'[u]) /\ users'[u].age = 0
      /\ \A v \in Users \ {u} : users'[v] = users[v]
  BY DEF delete_user_rows, soft_delete_user, IInv, TypeOK, UserRows, UserMarks,
         IsDeleted, IsRow, IsLive
<1>7. FilesHaveBoard'
  BY <1>4, <1>5, Relations DEF FilesHaveBoard, IInv, IsRow, IsLive
<1>8. TotalAccurate'
  <2> SUFFICES ASSUME NEW b \in Boards, IsRow(boards'[b]), LiveFiles(files', b) # {}
              PROVE  boards'[b].total = get_total_fsize(files', b)
    BY DEF TotalAccurate, IsRow, LiveFiles, IsLive, get_total_fsize
  <2>1. Owner[b] # u
    BY <1>5 DEF LiveFiles, FilesOf, IsLive
  <2>2. LiveFiles(files', b) = LiveFiles(files, b)
    BY <1>5, <2>1 DEF LiveFiles, FilesOf
  <2> QED
    BY <1>4, <2>1, <2>2 DEF IInv, TotalAccurate, get_total_fsize
<1>9. CascadeFollowsCause'
  <2> SUFFICES ASSUME NEW f \in Files
              PROVE  CauseStands(f)'
    BY DEF CascadeFollowsCause
  <2>1. BoardOf[f] \in Boards /\ Owner[BoardOf[f]] \in Users /\ CauseStands(f)
    BY Relations DEF IInv, CascadeFollowsCause
  <2>2. CASE Owner[BoardOf[f]] = u
    BY <1>4, <1>5, <1>6, <2>1, <2>2 DEF CauseStands, IsDeleted, IsRow, IsLive
  <2>3. CASE Owner[BoardOf[f]] # u
    BY <1>4, <1>5, <1>6, <2>1, <2>3 DEF CauseStands
  <2> QED
    BY <2>2, <2>3
<1>10. AgesKept
  BY <1>4, <1>5, <1>6 DEF AgesKept, AgeKept, IsDeleted, IsRow, IsLive
<1>11. UnbornKept(w)
  BY <1>4, <1>5 DEF UnbornKept, IsLive
<1> QED
  BY <1>1, <1>2, <1>3, <1>7, <1>8, <1>9, <1>10, <1>11 DEF Sound, Effect

\* User u comes back, or only the files of u do.
LEMMA RestoreUserShape ==
    ASSUME IInv, NEW w \in Workers, NEW u \in Users, NEW anon, NEW days \in Nat,
           IsDeleted(users[u]) => users[u].age <= days,
           restore_user_rows(u, anon, days)
    PROVE  Sound(w)
<1>1. files' \in [Files -> FileRows]
  BY MarkFilesType DEF IInv, TypeOK, restore_user_rows
<1>2. boards' \in [Boards -> BoardRows]
  BY UpdateAllTotalsType DEF IInv, TypeOK, restore_user_rows
<1>3. users' \in [Users -> UserRows]
  BY UserHelpersType DEF IInv, TypeOK, restore_user_rows
<1>4. \A b \in Boards :
         /\ boards'[b].mark = boards[b].mark
         /\ boards'[b].age = boards[b].age
         /\ IF Owner[b] = u /\ IsRow(boards[b])
            THEN boards'[b].total = get_total_fsize(files', b)
            ELSE boards'[b] = boards[b]
  <2> DEFINE t(b) == get_total_fsize(files', b)
  <2> HIDE DEF t
  <2>1. boards' = [b \in Boards |-> IF Owner[b] = u /\ IsRow(boards[b])
                                   THEN [boards[b] EXCEPT !.total = t(b)]
                                   ELSE boards[b]]
    BY DEF restore_user_rows, recalculate_all_user_boards_total_fsize, t
  <2>2. boards \in [Boards -> BoardRows]
    BY DEF IInv, TypeOK
  <2>3. \A b \in Boards :
           /\ boards'[b].mark = boards[b].mark
           /\ boards'[b].age = boards[b].age
           /\ IF Owner[b] = u /\ IsRow(boards[b])
              THEN boards'[b].total = t(b)
              ELSE boards'[b] = boards[b]
    BY <2>1, <2>2 DEF BoardRows
  <2> QED
    BY <2>3 DEF t
<1>5. \A f \in Files :
         IF /\ Owner[BoardOf[f]] = u
            /\ files[f].mark = "USER_CASCADE" /\ files[f].age <= days
         THEN files'[f] = [mark |-> "LIVE", age |-> 0]
         ELSE files'[f] = files[f]
  BY DEF restore_user_rows, MarkFiles, restore_all_user_files, UserFiles
<1>6. /\ IsDeleted(users'[u]) => users'[u] = users[u]
      /\ \A v \in Users \ {u} : users'[v] = users[v]
  BY DEF restore_user_rows, restore_user_data, IInv, TypeOK, UserRows,
         IsDeleted, IsRow, IsLive
<1>7. FilesHaveBoard'
  BY <1>4, <1>5, Relations DEF FilesHaveBoard, IInv, IsRow
<1>8. TotalAccurate'
  <2> SUFFICES ASSUME NEW b \in Boards, IsRow(boards'[b]), LiveFiles(files', b) # {}
              PROVE  boards'[b].total = get_total_fsize(files', b)
    BY DEF TotalAccurate, IsRow, LiveFiles, IsLive, get_total_fsize
  <2>1. CASE Owner[b] = u
    BY <1>4, <2>1 DEF IsRow
  <2>2. CASE Owner[b] # u
    <3>1. LiveFiles(files', b) = LiveFiles(files, b)
      BY <1>5, <2>2 DEF LiveFiles, FilesOf
    <3> QED
      BY <1>4, <2>2, <3>1 DEF IInv, TotalAccurate, get_total_fsize
  <2> QED
    BY <2>1, <2>2
<1>9. CascadeFollowsCause'
  <2> SUFFICES ASSUME NEW f \in Files
              PROVE  CauseStands(f)'
    BY DEF CascadeFollowsCause
  <2>1. BoardOf[f] \in Boards /\ Owner[BoardOf[f]] \in Users /\ CauseStands(f)
    BY Relations DEF IInv, CascadeFollowsCause
  <2>2. CASE Owner[BoardOf[f]] = u
    BY <1>4, <1>5, <2>1, <2>2 DEF CauseStands, IsDeleted, IsRow, IsLive
  <2>3. CASE Owner[BoardOf[f]] # u
    BY <1>4, <1>5, <1>6, <2>1, <2>3 DEF CauseStands, IsDeleted, IsRow, IsLive
  <2> QED
    BY <2>2, <2>3
<1>10. AgesKept
  BY <1>4, <1>5, <1>6 DEF AgesKept, AgeKept, IsDeleted, IsRow, IsLive
<1>11. UnbornKept(w)
  BY <1>4, <1>5 DEF UnbornKept
<1> QED
  BY <1>1, <1>2, <1>3, <1>7, <1>8, <1>9, <1>10, <1>11 DEF Sound, Effect
-----------------------------------------------------------------------------
(* Every transaction has one of these shapes *)

LEMMA FileTxnsSound ==
    ASSUME IInv, NEW w \in Workers, NEW f \in Files, f = pending[w].on,
           \/ upload_files_txn(w)
           \/ \E op : \E mark \in {"LIVE", "USER", "ADMIN_SCHEDULED", "PURGED"} :
                 delete_one_file_txn(w, op, mark)
           \/ \E op : restore_one_file_txn(w, op),
           pending[w].op = "upload_files"
              => pending[w] = Request("upload_files", f, "NONE")
    PROVE  Sound(w)
<1> DEFINE b == BoardOf[f]
           S == {g \in {f} : IsRow(files[g])}
           New == IF IsRow(boards[b]) THEN {f} ELSE {}
<1>1. b \in Boards
  BY Relations
<1>2. S \in SUBSET FilesOf(b) /\ New \in SUBSET FilesOf(b)
  BY DEF FilesOf
<1>3. CASE upload_files_txn(w)
  <2>1. files' = MarkFiles(New, "LIVE")
    <3>1. MarkFiles({}, "LIVE") = files
      BY DEF MarkFiles, IInv, TypeOK
    <3> QED
      BY <1>3, <3>1 DEF upload_files_txn
  <2>2. \A g \in New : /\ IsRow(boards[b])
                       /\ pending[w] = Request("upload_files", g, "NONE")
    BY <1>3 DEF upload_files_txn, Commit
  <2>3. /\ users' = users
        /\ boards' = update_total_board_fsize(boards, b, get_total_fsize(files', b))
    BY <1>3 DEF upload_files_txn
  <2> QED
    BY <1>1, <1>2, <2>1, <2>2, <2>3, FileShape
<1>4. ASSUME NEW op, NEW mark \in {"LIVE", "USER", "ADMIN_SCHEDULED", "PURGED"},
             delete_one_file_txn(w, op, mark) \/ restore_one_file_txn(w, op)
      PROVE  Sound(w)
  <2>1. CASE delete_one_file_txn(w, op, mark)
    BY <1>1, <1>2, <2>1, FileShape DEF delete_one_file_txn
  <2>2. CASE restore_one_file_txn(w, op)
    BY <1>1, <1>2, <2>2, FileShape DEF restore_one_file_txn
  <2> QED
    BY <1>4, <2>1, <2>2
<1> QED
  BY <1>3, <1>4

LEMMA BoardFilesTxnsSound ==
    ASSUME IInv, NEW w \in Workers, NEW b \in Boards, b = pending[w].on,
           \/ delete_all_txn(w) \/ restore_all_file_txn(w)
           \/ admin_delete_all_board_files_txn(w) \/ admin_restore_all_files_txn(w)
    PROVE  Sound(w)
<1> DEFINE Rows == {f \in FilesOf(b) : IsRow(files[f])}
<1>1. /\ LiveFiles(files, b) \in SUBSET FilesOf(b)
      /\ user_restore_all_restorable(b) \in SUBSET FilesOf(b)
      /\ admin_restorable(b) \in SUBSET FilesOf(b)
      /\ Rows \in SUBSET FilesOf(b)
  BY DEF LiveFiles, user_restore_all_restorable, admin_restorable
<1>2. /\ \A f \in LiveFiles(files, b) : IsRow(files[f])
      /\ \A f \in user_restore_all_restorable(b) : IsRow(files[f])
      /\ \A f \in admin_restorable(b) : IsRow(files[f])
  BY DEF LiveFiles, user_restore_all_restorable, admin_restorable, IsLive, IsRow,
         IsDeleted
<1>3. \A mark : mark # "LIVE" =>
         /\ LiveFiles(MarkFiles(LiveFiles(files, b), mark), b) = {}
         /\ LiveFiles(MarkFiles(Rows, mark), b) = {}
  BY DEF LiveFiles, MarkFiles, IsLive, IsRow, FilesOf
<1>4. CASE delete_all_txn(w)
  BY <1>1, <1>2, <1>3, <1>4, FileShape DEF delete_all_txn
<1>5. CASE restore_all_file_txn(w)
  BY <1>1, <1>2, <1>5, FileShape DEF restore_all_file_txn
<1>6. CASE admin_restore_all_files_txn(w)
  BY <1>1, <1>2, <1>6, FileShape DEF admin_restore_all_files_txn
<1>7. CASE admin_delete_all_board_files_txn(w)
  <2>1. users' = users /\ boards' = boards
    BY <1>7 DEF admin_delete_all_board_files_txn
  <2>2. CASE files' = MarkFiles(Rows, "PURGED")
    BY <1>1, <1>3, <2>1, <2>2, FileShape
  <2>3. CASE files' = MarkFiles(LiveFiles(files, b), "ADMIN_SCHEDULED")
    BY <1>1, <1>2, <1>3, <2>1, <2>3, FileShape
  <2> QED
    BY <1>7, <2>2, <2>3 DEF admin_delete_all_board_files_txn
<1> QED
  BY <1>4, <1>5, <1>6, <1>7

\* The row a commit acts on is as old as the window of its request.
LEMMA CheckedRow ==
    ASSUME IInv, NEW w \in Workers, NEW r, r = pending[w]
    PROVE  /\ r.op \in {"delete_board", "restore_board", "admin_restore_board"}
                => /\ r.on \in Boards
                   /\ IsDeleted(boards[r.on]) => boards[r.on].age <= WindowOf(r)
           /\ r.op = "admin_delete_board"
                => /\ r.on \in Boards /\ r.arg \in DeleteOptions
                   /\ IsDeleted(boards[r.on]) => boards[r.on].age <= WindowOf(r)
           /\ r.op \in {"withdraw", "restore_user", "ban", "admin_restore_user"}
                => /\ r.on \in Users
                   /\ IsDeleted(users[r.on]) => users[r.on].age <= WindowOf(r)
           /\ r.op = "admin_delete_user"
                => /\ r.on \in Users /\ r.arg \in DeleteOptions
                   /\ IsDeleted(users[r.on]) => users[r.on].age <= WindowOf(r)
           /\ r.op \in UserOps \cup BoardOps /\ r.arg # "ADMIN_IMMEDIATE"
              /\ r.op \in {"delete_board", "withdraw", "admin_delete_board",
                           "admin_delete_user"} => WindowOf(r) = 0
           /\ r.op \in {"delete_board", "withdraw"} => r.arg = "NONE"
<1>1. r.op \in UserOps \cup BoardOps => r # Idle
  BY RequestType DEF IInv
<1>2. r # Idle /\ IsDeleted(RowOf(r)) => RowOf(r).age <= WindowOf(r)
  BY DEF IInv, RequestsInWindow
<1>3. r.op \in UserOps => RowOf(r) = users[r.on] /\ r.on \in Users
  BY RequestType DEF RowOf, IInv
<1>4. r.op \in BoardOps => RowOf(r) = boards[r.on] /\ r.on \in Boards
  BY RequestType DEF RowOf, IInv, UserOps, BoardOps
<1>5. r.op \in UserOps \cup BoardOps => r.arg \in ArgsOf(r.op)
  BY RequestType DEF IInv
<1>6. r.op \in UserOps /\ r # Idle /\ IsDeleted(users[r.on])
         => users[r.on].age <= WindowOf(r)
  BY <1>2, <1>3
<1>7. r.op \in BoardOps /\ r # Idle /\ IsDeleted(boards[r.on])
         => boards[r.on].age <= WindowOf(r)
  BY <1>2, <1>4
<1> QED
  BY <1>1, <1>3, <1>4, <1>5, <1>6, <1>7 DEF ArgsOf, UserOps, BoardOps, WindowOf

LEMMA BoardTxnsSound ==
    ASSUME IInv, NEW w \in Workers,
           \/ delete_board_txn(w) \/ restore_board_txn(w)
           \/ admin_restore_board_txn(w)
           \/ pending[w].arg # "ADMIN_IMMEDIATE" /\ admin_delete_board_txn(w)
    PROVE  Sound(w)
<1> DEFINE r == pending[w]
           b == r.on
<1>1. CASE delete_board_txn(w)
  <2>1. b \in Boards /\ (IsDeleted(boards[b]) => boards[b].age <= 0)
    BY <1>1, CheckedRow DEF delete_board_txn, Commit, BoardOps
  <2>2. IsDeleted(boards[b]) => boards[b].age = 0
    BY <2>1 DEF IInv, TypeOK, BoardRows, Ages
  <2> QED
    BY <1>1, <2>1, <2>2, DeleteBoardShape DEF delete_board_txn, BoardMarks
<1>2. CASE restore_board_txn(w)
  <2>1. b \in Boards /\ (IsDeleted(boards[b]) => boards[b].age <= UserRestoreDays)
    BY <1>2, CheckedRow DEF restore_board_txn, Commit, WindowOf
  <2>2. IsDeleted(boards[b]) => boards[b].age <= CascadeRestoreDays
    BY <2>1, WindowsAssumption DEF WindowsAssumption, IInv, TypeOK, BoardRows, Ages
  <2>3. CascadeRestoreDays \in Nat
    BY WindowsAssumption DEF WindowsAssumption
  <2> QED
    BY <1>2, <2>1, <2>2, <2>3, RestoreBoardShape DEF restore_board_txn
<1>3. CASE admin_restore_board_txn(w)
  <2>1. b \in Boards /\ (IsDeleted(boards[b]) => boards[b].age <= AdminRestoreDays)
    BY <1>3, CheckedRow DEF admin_restore_board_txn, Commit, WindowOf
  <2>2. AdminRestoreDays \in Nat
    BY WindowsAssumption DEF WindowsAssumption
  <2> QED
    BY <1>3, <2>1, <2>2, RestoreBoardShape DEF admin_restore_board_txn
<1>4. CASE r.arg # "ADMIN_IMMEDIATE" /\ admin_delete_board_txn(w)
  <2>1. /\ b \in Boards /\ r.arg \in BoardMarks
        /\ IsDeleted(boards[b]) => boards[b].age <= 0
    BY <1>4, CheckedRow DEF admin_delete_board_txn, Commit, BoardOps, DeleteOptions,
                           BoardMarks
  <2>2. IsDeleted(boards[b]) => boards[b].age = 0
    BY <2>1 DEF IInv, TypeOK, BoardRows, Ages
  <2> QED
    BY <1>4, <2>1, <2>2, DeleteBoardShape DEF admin_delete_board_txn
<1> QED
  BY <1>1, <1>2, <1>3, <1>4

LEMMA UserTxnsSound ==
    ASSUME IInv, NEW w \in Workers,
           \/ withdraw_txn(w) \/ restore_user_txn(w) \/ admin_restore_user_txn(w)
           \/ pending[w].arg # "ADMIN_IMMEDIATE" /\ admin_delete_user_txn(w)
    PROVE  Sound(w)
<1> DEFINE r == pending[w]
           u == r.on
<1>1. CASE withdraw_txn(w)
  <2>1. u \in Users /\ (IsDeleted(users[u]) => users[u].age <= 0)
    BY <1>1, CheckedRow DEF withdraw_txn, Commit, UserOps
  <2>2. IsDeleted(users[u]) => users[u].age = 0
    BY <2>1 DEF IInv, TypeOK, UserRows, Ages
  <2> QED
    BY <1>1, <2>1, <2>2, DeleteUserShape DEF withdraw_txn, UserMarks
<1>2. CASE restore_user_txn(w)
  <2>1. u \in Users /\ (IsDeleted(users[u]) => users[u].age <= UserRestoreDays)
    BY <1>2, CheckedRow DEF restore_user_txn, Commit, WindowOf
  <2>2. IsDeleted(users[u]) => users[u].age <= CascadeRestoreDays
    BY <2>1, WindowsAssumption DEF WindowsAssumption, IInv, TypeOK, UserRows, Ages
  <2>3. CascadeRestoreDays \in Nat
    BY WindowsAssumption DEF WindowsAssumption
  <2> QED
    BY <1>2, <2>1, <2>2, <2>3, RestoreUserShape DEF restore_user_txn
<1>3. CASE admin_restore_user_txn(w)
  <2>1. u \in Users /\ (IsDeleted(users[u]) => users[u].age <= AdminRestoreDays)
    BY <1>3, CheckedRow DEF admin_restore_user_txn, Commit, WindowOf
  <2>2. AdminRestoreDays \in Nat
    BY WindowsAssumption DEF WindowsAssumption
  <2> QED
    BY <1>3, <2>1, <2>2, RestoreUserShape DEF admin_restore_user_txn
<1>4. CASE r.arg # "ADMIN_IMMEDIATE" /\ admin_delete_user_txn(w)
  <2>1. /\ u \in Users /\ r.arg \in UserMarks
        /\ IsDeleted(users[u]) => users[u].age <= 0
    BY <1>4, CheckedRow DEF admin_delete_user_txn, Commit, UserOps, DeleteOptions,
                           UserMarks
  <2>2. IsDeleted(users[u]) => users[u].age = 0
    BY <2>1 DEF IInv, TypeOK, UserRows, Ages
  <2> QED
    BY <1>4, <2>1, <2>2, DeleteUserShape DEF admin_delete_user_txn
<1> QED
  BY <1>1, <1>2, <1>3, <1>4

LEMMA BanSound ==
    ASSUME IInv, NEW w \in Workers, ban_txn(w)
    PROVE  Sound(w)
<1> DEFINE u == pending[w].on
<1>1. /\ u \in Users
      /\ users' = soft_delete_user(u, "ADMIN_SCHEDULED")
      /\ boards' = boards /\ files' = files
  BY CheckedRow DEF ban_txn, Commit
<1>2. users' \in [Users -> UserRows]
  BY <1>1, UserHelpersType DEF IInv, TypeOK, UserMarks
<1>3. \A v \in Users : IF IsLive(users[v]) /\ v = u
                       THEN users'[v].age = 0
                       ELSE users'[v] = users[v]
  BY <1>1 DEF soft_delete_user, IInv, TypeOK, UserRows
<1>4. FilesHaveBoard' /\ TotalAccurate'
  BY <1>1 DEF IInv, FilesHaveBoard, TotalAccurate, IsRow, LiveFiles, IsLive,
              get_total_fsize
<1>5. CascadeFollowsCause'
  <2> SUFFICES ASSUME NEW f \in Files
              PROVE  CauseStands(f)'
    BY DEF CascadeFollowsCause
  <2>1. Owner[BoardOf[f]] \in Users /\ CauseStands(f)
    BY Relations DEF IInv, CascadeFollowsCause
  <2> QED
    BY <1>1, <1>3, <2>1 DEF CauseStands, IsDeleted, IsLive, IsRow
<1>6. AgesKept /\ UnbornKept(w)
  BY <1>1, <1>3 DEF AgesKept, AgeKept, UnbornKept
<1> QED
  BY <1>1, <1>2, <1>4, <1>5, <1>6 DEF Sound, Effect, IInv, TypeOK

LEMMA CreateBoardSound ==
    ASSUME IInv, NEW w \in Workers, create_board_txn(w)
    PROVE  Sound(w)
<1> DEFINE b == pending[w].on
<1>1. b \in Boards /\ pending[w] = Request("create_board", b, "NONE")
  BY RequestType DEF create_board_txn, Commit, BoardOps, UserOps, ArgsOf, IInv
<1>2. boards[b].mark = "UNBORN"
  BY <1>1 DEF create_board_txn, Commit, IInv, CreationsDistinct, Creations, RowOf,
              BoardOps, UserOps
<1>3. /\ boards' = [boards EXCEPT ![b].mark = "LIVE"]
      /\ users' = users /\ files' = files
  BY DEF create_board_txn
<1>4. \A c \in Boards : IF c = b THEN boards'[c].mark = "LIVE"
                                 ELSE boards'[c] = boards[c]
  BY <1>3 DEF IInv, TypeOK, BoardRows
<1>5. \A f \in Files : BoardOf[f] = b => ~IsRow(files[f])
  BY <1>2 DEF IInv, FilesHaveBoard, IsRow
<1>6. boards' \in [Boards -> BoardRows]
  BY <1>3 DEF IInv, TypeOK, BoardRows
<1>7. FilesHaveBoard'
  BY <1>3, <1>4, <1>5, Relations DEF FilesHaveBoard, IInv, IsRow
<1>8. TotalAccurate'
  <2> SUFFICES ASSUME NEW c \in Boards, IsRow(boards'[c]), LiveFiles(files, c) # {}
              PROVE  boards'[c].total = get_total_fsize(files, c)
    BY <1>3 DEF TotalAccurate, IsRow
  <2>1. c # b
    BY <1>5 DEF LiveFiles, FilesOf, IsLive, IsRow
  <2> QED
    BY <1>4, <2>1 DEF IInv, TotalAccurate
<1>9. CascadeFollowsCause'
  <2> SUFFICES ASSUME NEW f \in Files
              PROVE  CauseStands(f)'
    BY DEF CascadeFollowsCause
  <2>1. BoardOf[f] \in Boards /\ CauseStands(f)
    BY Relations DEF IInv, CascadeFollowsCause
  <2> QED
    BY <1>2, <1>3, <1>4, <2>1 DEF CauseStands, IsDeleted, IsLive, IsRow
<1>10. AgesKept
  BY <1>3, <1>4 DEF AgesKept, AgeKept, IsDeleted, IsLive
<1>11. UnbornKept(w)
  BY <1>1, <1>3, <1>4 DEF UnbornKept
<1> QED
  BY <1>3, <1>6, <1>7, <1>8, <1>9, <1>10, <1>11 DEF Sound, Effect, IInv, TypeOK

\* An immediate deletion removes the board and its files from the tables.
LEMMA PurgeBoardSound ==
    ASSUME IInv, NEW w \in Workers, admin_delete_board_txn(w),
           pending[w].arg = "ADMIN_IMMEDIATE"
    PROVE  Sound(w)
<1> DEFINE b == pending[w].on
           S == {f \in FilesOf(b) : IsRow(files[f])}
<1>1. /\ b \in Boards
      /\ users' = users
      /\ files' = MarkFiles(S, "PURGED")
      /\ boards' = IF IsRow(boards[b])
                   THEN [boards EXCEPT ![b] = PurgedBoard] ELSE boards
  BY CheckedRow DEF admin_delete_board_txn, Commit
<1>2. boards' \in [Boards -> BoardRows] /\ files' \in [Files -> FileRows]
  BY <1>1, AgeZero, TotalsType, MarkFilesType
     DEF IInv, TypeOK, BoardRows, PurgedBoard
<1>3. \A c \in Boards : IF c = b /\ IsRow(boards[b]) THEN boards'[c].mark = "PURGED"
                                                     ELSE boards'[c] = boards[c]
  BY <1>1 DEF IInv, TypeOK, PurgedBoard
<1>4. \A f \in Files : IF BoardOf[f] = b /\ IsRow(files[f])
                       THEN files'[f] = [mark |-> "PURGED", age |-> 0]
                       ELSE files'[f] = files[f]
  BY <1>1 DEF MarkFiles, FilesOf
<1>5. FilesHaveBoard'
  BY <1>3, <1>4, Relations DEF FilesHaveBoard, IInv, IsRow
<1>6. TotalAccurate'
  <2>1. LiveFiles(files', b) = {}
    BY <1>4 DEF LiveFiles, FilesOf, IsLive, IsRow
  <2> QED
    BY <1>1, <1>3, <2>1, OneBoardTotals DEF IInv, TypeOK
<1>7. CascadeFollowsCause'
  <2> SUFFICES ASSUME NEW f \in Files
              PROVE  CauseStands(f)'
    BY DEF CascadeFollowsCause
  <2>1. BoardOf[f] \in Boards /\ CauseStands(f)
    BY Relations DEF IInv, CascadeFollowsCause
  <2> QED
    BY <1>1, <1>3, <1>4, <2>1 DEF CauseStands, IsDeleted, IsLive, IsRow
<1>8. AgesKept
  BY <1>1, <1>3, <1>4 DEF AgesKept, AgeKept, IsDeleted, IsRow
<1>9. UnbornKept(w)
  BY <1>3, <1>4 DEF UnbornKept, IsRow
<1> QED
  BY <1>1, <1>2, <1>5, <1>6, <1>7, <1>8, <1>9 DEF Sound, Effect, IInv, TypeOK

\* An immediate deletion overwrites the user and removes the user's files.
LEMMA PurgeUserSound ==
    ASSUME IInv, NEW w \in Workers, admin_delete_user_txn(w),
           pending[w].arg = "ADMIN_IMMEDIATE"
    PROVE  Sound(w)
<1> DEFINE u == pending[w].on
           S == {f \in UserFiles(u) : IsRow(files[f])}
<1>1. /\ u \in Users
      /\ users' = hard_delete_user(u)
      /\ files' = MarkFiles(S, "PURGED")
      /\ boards' = update_all_user_boards_total_fsize(boards, u)
  BY CheckedRow DEF admin_delete_user_txn, Commit
<1>2. /\ users' \in [Users -> UserRows] /\ boards' \in [Boards -> BoardRows]
      /\ files' \in [Files -> FileRows]
  BY <1>1, UserHelpersType, UpdateAllTotalsType, MarkFilesType DEF IInv, TypeOK
<1>3. \A v \in Users : IF v = u THEN users'[v].age = 0 ELSE users'[v] = users[v]
  BY <1>1 DEF hard_delete_user, IInv, TypeOK
<1>4. \A c \in Boards : /\ boards'[c].mark = boards[c].mark
                        /\ boards'[c].age = boards[c].age
                        /\ Owner[c] # u => boards'[c] = boards[c]
  BY <1>1 DEF update_all_user_boards_total_fsize, IInv, TypeOK, BoardRows
<1>5. \A f \in Files : IF Owner[BoardOf[f]] = u /\ IsRow(files[f])
                       THEN files'[f] = [mark |-> "PURGED", age |-> 0]
                       ELSE files'[f] = files[f]
  BY <1>1 DEF MarkFiles, UserFiles
<1>6. FilesHaveBoard'
  BY <1>4, <1>5, Relations DEF FilesHaveBoard, IInv, IsRow
<1>7. TotalAccurate'
  <2> SUFFICES ASSUME NEW b \in Boards, IsRow(boards'[b]), LiveFiles(files', b) # {}
              PROVE  boards'[b].total = get_total_fsize(files', b)
    BY DEF TotalAccurate, IsRow, LiveFiles, IsLive, get_total_fsize
  <2>1. Owner[b] # u
    BY <1>5 DEF LiveFiles, FilesOf, IsLive, IsRow
  <2>2. LiveFiles(files', b) = LiveFiles(files, b)
    BY <1>5, <2>1 DEF LiveFiles, FilesOf
  <2> QED
    BY <1>4, <2>1, <2>2 DEF IInv, TotalAccurate, get_total_fsize
<1>8. CascadeFollowsCause'
  <2> SUFFICES ASSUME NEW f \in Files
              PROVE  CauseStands(f)'
    BY DEF CascadeFollowsCause
  <2>1. BoardOf[f] \in Boards /\ Owner[BoardOf[f]] \in Users /\ CauseStands(f)
    BY Relations DEF IInv, CascadeFollowsCause
  <2>2. CASE Owner[BoardOf[f]] = u
    BY <1>5, <2>1, <2>2 DEF CauseStands, IsRow
  <2>3. CASE Owner[BoardOf[f]] # u
    BY <1>3, <1>4, <1>5, <2>1, <2>3 DEF CauseStands, IsDeleted, IsRow, IsLive
  <2> QED
    BY <2>2, <2>3
<1>9. AgesKept
  BY <1>3, <1>4, <1>5 DEF AgesKept, AgeKept, IsDeleted, IsRow, IsLive
<1>10. UnbornKept(w)
  BY <1>4, <1>5 DEF UnbornKept, IsRow
<1> QED
  BY <1>2, <1>6, <1>7, <1>8, <1>9, <1>10 DEF Sound, Effect

LEMMA TxnSound ==
    ASSUME IInv, NEW w \in Workers, Txn(w)
    PROVE  Sound(w) /\ pending' = [pending EXCEPT ![w] = Idle]
<1>1. CASE withdraw_txn(w) \/ restore_user_txn(w) \/ admin_restore_user_txn(w)
  BY <1>1, UserTxnsSound
     DEF withdraw_txn, restore_user_txn, admin_restore_user_txn, Commit
<1>2. CASE ban_txn(w)
  BY <1>2, BanSound DEF ban_txn, Commit
<1>3. CASE admin_delete_user_txn(w)
  BY <1>3, UserTxnsSound, PurgeUserSound DEF admin_delete_user_txn, Commit
<1>4. CASE create_board_txn(w)
  BY <1>4, CreateBoardSound DEF create_board_txn, Commit
<1>5. CASE delete_board_txn(w) \/ restore_board_txn(w) \/ admin_restore_board_txn(w)
  BY <1>5, BoardTxnsSound
     DEF delete_board_txn, restore_board_txn, admin_restore_board_txn, Commit
<1>6. CASE admin_delete_board_txn(w)
  BY <1>6, BoardTxnsSound, PurgeBoardSound DEF admin_delete_board_txn, Commit
<1>7. CASE \/ delete_all_txn(w) \/ restore_all_file_txn(w)
           \/ admin_delete_all_board_files_txn(w) \/ admin_restore_all_files_txn(w)
  <2>1. /\ pending[w].op \in {"delete_all", "restore_all_file",
                             "admin_delete_all_board_files", "admin_restore_all_files"}
        /\ pending' = [pending EXCEPT ![w] = Idle]
    BY <1>7 DEF delete_all_txn, restore_all_file_txn, Commit,
                admin_delete_all_board_files_txn, admin_restore_all_files_txn
  <2>2. pending[w].on \in Boards
    BY <2>1, RequestType DEF IInv, BoardOps
  <2> QED
    BY <1>7, <2>1, <2>2, BoardFilesTxnsSound
<1>8. CASE \/ upload_files_txn(w) \/ delete_file_txn(w) \/ restore_file_txn(w)
           \/ admin_delete_one_file_txn(w) \/ admin_restore_file_txn(w)
  <2>1. pending[w].op \in FileOps /\ pending' = [pending EXCEPT ![w] = Idle]
    BY <1>8 DEF upload_files_txn, delete_file_txn, restore_file_txn, FileOps, Commit,
                admin_delete_one_file_txn, admin_restore_file_txn,
                delete_one_file_txn, restore_one_file_txn
  <2>2. /\ pending[w].on \in Files
        /\ pending[w] = Request(pending[w].op, pending[w].on, pending[w].arg)
        /\ pending[w].arg \in ArgsOf(pending[w].op)
    BY <2>1, RequestType DEF IInv
  <2>3. pending[w].op = "upload_files"
           => pending[w] = Request("upload_files", pending[w].on, "NONE")
    BY <2>2 DEF ArgsOf
  <2>4. admin_delete_one_file_txn(w)
           => mark_written(pending[w].arg) \in {"ADMIN_SCHEDULED", "PURGED"}
    BY <2>2 DEF admin_delete_one_file_txn, delete_one_file_txn, Commit, ArgsOf,
                FileDeleteOptions, mark_written
  <2>5. \/ upload_files_txn(w)
        \/ \E op : \E mark \in {"LIVE", "USER", "ADMIN_SCHEDULED", "PURGED"} :
              delete_one_file_txn(w, op, mark)
        \/ \E op : restore_one_file_txn(w, op)
    BY <1>8, <2>4 DEF delete_file_txn, admin_delete_one_file_txn, restore_file_txn,
                      admin_restore_file_txn
  <2> QED
    BY <2>1, <2>2, <2>3, <2>5, FileTxnsSound
<1> QED
  BY <1>1, <1>2, <1>3, <1>4, <1>5, <1>6, <1>7, <1>8 DEF Txn
-----------------------------------------------------------------------------
(* The steps that are no transaction *)

\* A check that begins a request on a row it found in the request's window.
LEMMA BeginKept ==
    ASSUME IInv, NEW w \in Workers, NEW op, NEW on, NEW arg,
           Begin(w, op, on, arg),
           NEW r \in Requests, r = Request(op, on, arg), r # Idle,
           IsDeleted(RowOf(r)) => RowOf(r).age <= WindowOf(r),
           op \in Creations => RowOf(r).mark = "UNBORN" /\ Unclaimed(on)
    PROVE  IInv'
<1>1. /\ pending[w] = Idle
      /\ pending' = [pending EXCEPT ![w] = r]
      /\ users' = users /\ boards' = boards /\ files' = files
  BY DEF Begin, rows
<1>2. \A v \in Workers : pending'[v] = IF v = w THEN r ELSE pending[v]
  BY <1>1 DEF IInv, TypeOK
<1>3. TypeOK'
  BY <1>1 DEF IInv, TypeOK
<1>4. FilesHaveBoard' /\ TotalAccurate' /\ CascadeFollowsCause'
  BY <1>1 DEF IInv, FilesHaveBoard, TotalAccurate, CascadeFollowsCause, CauseStands,
              IsRow, IsDeleted, IsLive, LiveFiles, get_total_fsize
<1>5. RequestsInWindow'
  BY <1>1, <1>2 DEF IInv, RequestsInWindow, RowOf, IsRow, IsDeleted, IsLive
<1>6. CreationsDistinct'
  <2> SUFFICES ASSUME NEW v \in Workers, NEW q, q = pending'[v], q.op \in Creations
              PROVE  /\ RowOf(q)'.mark = "UNBORN"
                     /\ \A x \in Workers \ {v} : pending'[x].op = q.op
                                                  => pending'[x].on # q.on
    BY DEF CreationsDistinct, RowOf
  <2>1. RowOf(q)' = RowOf(q)
    BY <1>1 DEF RowOf
  <2>2. r.op = op /\ r.on = on
    BY DEF Request
  <2>3. \A x \in Workers : pending[x].op \in Creations => pending[x] # Idle
    BY DEF Idle, Creations
  <2>4. CASE v = w
    BY <1>2, <2>1, <2>2, <2>3, <2>4 DEF Unclaimed
  <2>5. CASE v # w
    BY <1>2, <2>1, <2>2, <2>3, <2>5 DEF Unclaimed, IInv, CreationsDistinct
  <2> QED
    BY <2>4, <2>5
<1> QED
  BY <1>3, <1>4, <1>5, <1>6 DEF IInv

\* r is a request of the kind its operation takes.
LEMMA RequestKind ==
    ASSUME NEW op, NEW on, NEW arg \in ArgsOf(op),
           \/ op \in UserOps /\ on \in Users
           \/ op \in BoardOps /\ on \in Boards
           \/ op \in FileOps /\ on \in Files
    PROVE  /\ Request(op, on, arg) \in Requests
           /\ Request(op, on, arg) # Idle
<1>1. arg \in DeleteOptions \cup {"NAMED", "ANON", "NONE"}
  BY DEF ArgsOf, DeleteOptions, FileDeleteOptions
<1> QED
  BY <1>1 DEF Requests, RequestsOn, Request, Idle, UserOps, BoardOps, FileOps

LEMMA BeginOnUser ==
    ASSUME IInv, NEW w \in Workers, NEW op \in UserOps, NEW u \in Users,
           NEW arg \in ArgsOf(op), Begin(w, op, u, arg), NEW days,
           days = WindowOf(Request(op, u, arg)),
           IsDeleted(users[u]) => users[u].age <= days
    PROVE  IInv'
<1> DEFINE r == Request(op, u, arg)
<1>1. r \in Requests /\ r # Idle
  BY RequestKind
<1>2. RowOf(r) = users[u] /\ op \notin Creations
  BY DEF RowOf, Request, UserOps, Creations
<1> HIDE DEF r
<1> QED
  BY <1>1, <1>2, BeginKept DEF r

LEMMA BeginOnBoard ==
    ASSUME IInv, NEW w \in Workers, NEW op \in BoardOps, NEW b \in Boards,
           NEW arg \in ArgsOf(op), Begin(w, op, b, arg), NEW days,
           days = WindowOf(Request(op, b, arg)),
           IsDeleted(boards[b]) => boards[b].age <= days,
           op = "create_board" => boards[b].mark = "UNBORN" /\ Unclaimed(b)
    PROVE  IInv'
<1> DEFINE r == Request(op, b, arg)
<1>1. r \in Requests /\ r # Idle
  BY RequestKind
<1>2. /\ RowOf(r) = boards[b]
      /\ op \in Creations => op = "create_board"
  BY DEF RowOf, Request, UserOps, BoardOps, Creations
<1> HIDE DEF r
<1> QED
  BY <1>1, <1>2, BeginKept DEF r

LEMMA BeginOnFile ==
    ASSUME IInv, NEW w \in Workers, NEW op \in FileOps, NEW f \in Files,
           NEW arg \in ArgsOf(op), Begin(w, op, f, arg), NEW days,
           days = WindowOf(Request(op, f, arg)),
           IsDeleted(files[f]) => files[f].age <= days,
           op = "upload_files" => files[f].mark = "UNBORN" /\ Unclaimed(f)
    PROVE  IInv'
<1> DEFINE r == Request(op, f, arg)
<1>1. r \in Requests /\ r # Idle
  BY RequestKind
<1>2. /\ RowOf(r) = files[f]
      /\ op \in Creations => op = "upload_files"
  BY DEF RowOf, Request, UserOps, BoardOps, FileOps, Creations
<1> HIDE DEF r
<1> QED
  BY <1>1, <1>2, BeginKept DEF r

LEMMA UserCheckKept ==
    ASSUME IInv, NEW w \in Workers, UserCheck(w)
    PROVE  IInv'
<1> USE DEF UserOps, ArgsOf, WindowOf, Request
<1>1. PICK u \in Users :
         \/ withdraw(w, u) \/ restore_user(w, u)
         \/ ban(w, u) \/ admin_restore_user(w, u)
         \/ \E option \in DeleteOptions : admin_delete_user(w, u, option)
  BY DEF UserCheck
<1>2. users[u].age <= AdminExpireDays
  BY WindowsAssumption DEF WindowsAssumption, IInv, TypeOK, UserRows, Ages
<1>3. CASE withdraw(w, u)
  BY <1>3, BeginOnUser DEF withdraw, PasswordAccepted, IsDeleted
<1>4. CASE restore_user(w, u)
  BY <1>4, BeginOnUser DEF restore_user
<1>5. CASE ban(w, u)
  BY <1>2, <1>5, BeginOnUser DEF ban
<1>6. CASE admin_restore_user(w, u)
  BY <1>6, BeginOnUser DEF admin_restore_user
<1>7. ASSUME NEW option \in DeleteOptions, admin_delete_user(w, u, option)
      PROVE  IInv'
  BY <1>2, <1>7, BeginOnUser DEF admin_delete_user, IsDeleted
<1> QED
  BY <1>1, <1>3, <1>4, <1>5, <1>6, <1>7

LEMMA BoardCheckKept ==
    ASSUME IInv, NEW w \in Workers, BoardCheck(w)
    PROVE  IInv'
<1> USE DEF BoardOps, ArgsOf, WindowOf, Request
<1>1. PICK b \in Boards :
         \/ create_board(w, b) \/ delete_board(w, b) \/ restore_board(w, b)
         \/ delete_all(w, b) \/ restore_all_file(w, b)
         \/ admin_restore_board(w, b) \/ admin_restore_all_files(w, b)
         \/ \E option \in DeleteOptions : admin_delete_board(w, b, option)
         \/ \E option \in FileDeleteOptions :
                admin_delete_all_board_files(w, b, option)
  BY DEF BoardCheck
<1>2. boards[b].age <= AdminExpireDays
  BY WindowsAssumption DEF WindowsAssumption, IInv, TypeOK, BoardRows, Ages
<1>3. CASE create_board(w, b)
  BY <1>3, BeginOnBoard DEF create_board, IsDeleted, IsRow
<1>4. CASE delete_board(w, b)
  BY <1>4, BeginOnBoard DEF delete_board, IsDeleted
<1>5. CASE restore_board(w, b)
  BY <1>5, BeginOnBoard DEF restore_board
<1>6. CASE delete_all(w, b)
  BY <1>6, BeginOnBoard DEF delete_all, IsDeleted
<1>7. CASE restore_all_file(w, b)
  BY <1>7, BeginOnBoard DEF restore_all_file, IsDeleted
<1>8. CASE admin_restore_board(w, b)
  BY <1>8, BeginOnBoard DEF admin_restore_board
<1>9. CASE admin_restore_all_files(w, b)
  BY <1>9, BeginOnBoard DEF admin_restore_all_files, IsDeleted
<1>10. ASSUME NEW option \in DeleteOptions, admin_delete_board(w, b, option)
       PROVE  IInv'
  BY <1>2, <1>10, BeginOnBoard DEF admin_delete_board, IsDeleted
<1>11. ASSUME NEW option \in FileDeleteOptions,
              admin_delete_all_board_files(w, b, option)
       PROVE  IInv'
  BY <1>2, <1>11, BeginOnBoard DEF admin_delete_all_board_files
<1> QED
  BY <1>1, <1>3, <1>4, <1>5, <1>6, <1>7, <1>8, <1>9, <1>10, <1>11

LEMMA FileCheckKept ==
    ASSUME IInv, NEW w \in Workers, FileCheck(w)
    PROVE  IInv'
<1> USE DEF FileOps, ArgsOf, WindowOf, Request
<1>1. PICK f \in Files :
         \/ upload_files(w, f) \/ delete_file(w, f) \/ restore_file(w, f)
         \/ admin_restore_file(w, f)
         \/ \E option \in FileDeleteOptions : admin_delete_one_file(w, f, option)
  BY DEF FileCheck
<1>2. files[f].age <= AdminExpireDays
  BY WindowsAssumption DEF WindowsAssumption, IInv, TypeOK, FileRows, Ages
<1>3. CASE upload_files(w, f)
  BY <1>3, BeginOnFile DEF upload_files, IsDeleted, IsRow
<1>4. CASE delete_file(w, f)
  BY <1>4, BeginOnFile DEF delete_file, IsDeleted
<1>5. CASE restore_file(w, f)
  BY <1>5, BeginOnFile DEF restore_file
<1>6. CASE admin_restore_file(w, f)
  BY <1>6, BeginOnFile DEF admin_restore_file
<1>7. ASSUME NEW option \in FileDeleteOptions, admin_delete_one_file(w, f, option)
      PROVE  IInv'
  BY <1>2, <1>7, BeginOnFile DEF admin_delete_one_file, IsDeleted
<1> QED
  BY <1>1, <1>3, <1>4, <1>5, <1>6, <1>7

LEMMA AbortKept ==
    ASSUME IInv, NEW w \in Workers, abort(w)
    PROVE  IInv'
<1>1. /\ users' = users /\ boards' = boards /\ files' = files
      /\ pending' = [pending EXCEPT ![w] = Idle]
  BY DEF abort, rows
<1>2. FilesHaveBoard' /\ TotalAccurate' /\ CascadeFollowsCause'
  BY <1>1 DEF IInv, FilesHaveBoard, TotalAccurate, CascadeFollowsCause, CauseStands,
              IsRow, IsDeleted, IsLive, LiveFiles, get_total_fsize
<1>3. AgesKept /\ UnbornKept(w)
  BY <1>1 DEF AgesKept, AgeKept, UnbornKept
<1> QED
  BY <1>1, <1>2, <1>3, CommitKept DEF Sound, Effect, IInv, TypeOK

\* A scheduler statement touches no request and inserts no row.
LEMMA StatementKept ==
    ASSUME IInv, Effect, pending' = pending,
           \A b \in Boards : boards[b].mark = "UNBORN" => boards'[b].mark = "UNBORN",
           \A f \in Files : files[f].mark = "UNBORN" => files'[f].mark = "UNBORN"
    PROVE  IInv'
<1>1. pending \in [Workers -> Requests \cup {Idle}]
  BY DEF IInv, TypeOK
<1>2. ASSUME NEW v \in Workers
      PROVE  /\ pending[v].op = "create_board" => pending[v].on \in Boards
             /\ pending[v].op = "upload_files" => pending[v].on \in Files
  BY RequestType DEF IInv, BoardOps, FileOps
<1> QED
  BY <1>1, <1>2, RequestsKept

LEMMA DeleteFilesKept ==
    ASSUME IInv, delete_files
    PROVE  IInv'
<1> DEFINE S == {f \in Files : FileExpired(f)}
<1>1. /\ users' = users /\ boards' = boards /\ pending' = pending
      /\ files' = MarkFiles(S, "PURGED")
  BY DEF delete_files
<1>2. files' \in [Files -> FileRows]
  BY <1>1, MarkFilesType DEF IInv, TypeOK
<1>3. \A f \in Files : \/ files'[f] = files[f]
                       \/ /\ IsDeleted(files[f])
                          /\ files'[f] = [mark |-> "PURGED", age |-> 0]
  BY <1>1 DEF MarkFiles, FileExpired, IsDeleted, IsLive, IsRow
<1>4. FilesHaveBoard'
  BY <1>1, <1>3 DEF IInv, FilesHaveBoard, IsRow
<1>5. TotalAccurate'
  <2>1. \A b \in Boards : LiveFiles(files', b) = LiveFiles(files, b)
    BY <1>3 DEF LiveFiles, FilesOf, IsLive, IsDeleted
  <2> QED
    BY <1>1, <2>1 DEF IInv, TotalAccurate, get_total_fsize, IsRow
<1>6. CascadeFollowsCause'
  BY <1>1, <1>3 DEF IInv, CascadeFollowsCause, CauseStands, IsDeleted, IsLive, IsRow
<1>7. AgesKept
  BY <1>1, <1>3 DEF AgesKept, AgeKept, IsDeleted, IsRow
<1>8. Effect
  BY <1>1, <1>2, <1>4, <1>5, <1>6, <1>7 DEF Effect, IInv, TypeOK
<1> QED
  BY <1>1, <1>3, <1>8, StatementKept DEF IsDeleted, IsRow

LEMMA DeleteBoardsKept ==
    ASSUME IInv, delete_boards
    PROVE  IInv'
<1> DEFINE S == {f \in Files : IsRow(files[f]) /\ BoardExpired(BoardOf[f])}
<1>1. /\ users' = users /\ pending' = pending
      /\ files' = MarkFiles(S, "PURGED")
  BY DEF delete_boards
<1>2. files' \in [Files -> FileRows]
  BY <1>1, MarkFilesType DEF IInv, TypeOK
<1>3. boards' \in [Boards -> BoardRows]
  BY AgeZero, TotalsType DEF delete_boards, IInv, TypeOK, BoardRows, PurgedBoard
<1>4. \A b \in Boards : /\ BoardExpired(b) => IsDeleted(boards[b])
                        /\ IF BoardExpired(b) THEN boards'[b].mark = "PURGED"
                                              ELSE boards'[b] = boards[b]
  BY DEF delete_boards, PurgedBoard, BoardExpired, IsDeleted, IsLive, IsRow
<1>5. \A f \in Files : IF IsRow(files[f]) /\ BoardExpired(BoardOf[f])
                       THEN files'[f] = [mark |-> "PURGED", age |-> 0]
                       ELSE files'[f] = files[f]
  BY <1>1 DEF MarkFiles
<1>6. FilesHaveBoard'
  BY <1>4, <1>5, Relations DEF IInv, FilesHaveBoard, IsRow
<1>7. TotalAccurate'
  <2> SUFFICES ASSUME NEW b \in Boards, IsRow(boards'[b])
              PROVE  LiveFiles(files', b) # {}
                        => boards'[b].total = get_total_fsize(files', b)
    BY DEF TotalAccurate, IsRow, LiveFiles, IsLive, get_total_fsize
  <2>1. ~BoardExpired(b)
    BY <1>4 DEF IsRow
  <2>2. LiveFiles(files', b) = LiveFiles(files, b)
    BY <1>5, <2>1 DEF LiveFiles, FilesOf
  <2> QED
    BY <1>4, <2>1, <2>2 DEF IInv, TotalAccurate, get_total_fsize
<1>8. CascadeFollowsCause'
  <2> SUFFICES ASSUME NEW f \in Files
              PROVE  CauseStands(f)'
    BY DEF CascadeFollowsCause
  <2>1. BoardOf[f] \in Boards /\ CauseStands(f)
    BY Relations DEF IInv, CascadeFollowsCause
  <2> QED
    BY <1>1, <1>4, <1>5, <2>1 DEF CauseStands, IsDeleted, IsLive, IsRow
<1>9. AgesKept
  BY <1>1, <1>4, <1>5 DEF AgesKept, AgeKept, IsDeleted, IsRow
<1>10. Effect
  BY <1>1, <1>2, <1>3, <1>6, <1>7, <1>8, <1>9 DEF Effect, IInv, TypeOK
<1> QED
  BY <1>1, <1>4, <1>5, <1>10, StatementKept DEF IsDeleted, IsRow

LEMMA DeleteUsersKept ==
    ASSUME IInv, delete_soft_deleted_user
    PROVE  IInv'
<1>1. boards' = boards /\ files' = files /\ pending' = pending
  BY DEF delete_soft_deleted_user
<1>2. /\ users' \in [Users -> UserRows]
      /\ \A u \in Users : users'[u].mark = users[u].mark /\ users'[u].age = users[u].age
  BY DEF delete_soft_deleted_user, IInv, TypeOK, UserRows
<1>3. FilesHaveBoard' /\ TotalAccurate'
  BY <1>1 DEF IInv, FilesHaveBoard, TotalAccurate, IsRow, LiveFiles, IsLive,
              get_total_fsize
<1>4. CascadeFollowsCause'
  BY <1>1, <1>2, Relations
     DEF IInv, CascadeFollowsCause, CauseStands, IsDeleted, IsLive, IsRow
<1>5. AgesKept
  BY <1>1, <1>2 DEF AgesKept, AgeKept, IsDeleted, IsLive, IsRow
<1>6. Effect
  BY <1>1, <1>2, <1>3, <1>4, <1>5 DEF Effect, IInv, TypeOK
<1> QED
  BY <1>1, <1>6, StatementKept

LEMMA OlderAge ==
    ASSUME NEW row \in UserRows \cup BoardRows \cup FileRows, IsDeleted(row)
    PROVE  Older(row).age = IF row.age < AdminExpireDays THEN row.age + 1 ELSE row.age
<1>1. CASE row \in UserRows
  BY <1>1 DEF Older, UserRows
<1>2. CASE row \in BoardRows
  BY <1>2 DEF Older, BoardRows
<1>3. CASE row \in FileRows
  BY <1>3 DEF Older, FileRows
<1> QED
  BY <1>1, <1>2, <1>3

\* Cascade marks and their causes grow old together.
LEMMA TickKept ==
    ASSUME IInv, Tick
    PROVE  IInv'
<1>1. pending' = pending /\ \A w \in Workers : pending'[w] = Idle
  BY DEF Tick
<1>2. /\ \A u \in Users : users'[u] = Older(users[u])
      /\ \A b \in Boards : boards'[b] = Older(boards[b])
      /\ \A f \in Files : files'[f] = Older(files[f])
  BY DEF Tick
<1>3. TypeOK'
  <2>1. \A row \in UserRows : Older(row) \in UserRows
    BY AgeZero DEF Older, UserRows, Ages
  <2>2. \A row \in BoardRows : Older(row) \in BoardRows
    BY AgeZero DEF Older, BoardRows, Ages
  <2>3. \A row \in FileRows : Older(row) \in FileRows
    BY AgeZero DEF Older, FileRows, Ages
  <2> QED
    BY <2>1, <2>2, <2>3 DEF Tick, IInv, TypeOK
<1>4. /\ \A u \in Users : users'[u].mark = users[u].mark
      /\ \A b \in Boards : /\ boards'[b].mark = boards[b].mark
                           /\ boards'[b].total = boards[b].total
      /\ \A f \in Files : files'[f].mark = files[f].mark
  BY <1>2 DEF Older, IInv, TypeOK, UserRows, BoardRows, FileRows
<1>5. FilesHaveBoard'
  BY <1>4, Relations DEF IInv, FilesHaveBoard, IsRow
<1>6. TotalAccurate'
  <2>1. \A b \in Boards : LiveFiles(files', b) = LiveFiles(files, b)
    BY <1>4 DEF LiveFiles, FilesOf, IsLive
  <2> QED
    BY <1>4, <2>1 DEF IInv, TotalAccurate, get_total_fsize, IsRow
<1>7. CascadeFollowsCause'
  <2> SUFFICES ASSUME NEW f \in Files
              PROVE  CauseStands(f)'
    BY DEF CascadeFollowsCause
  <2> DEFINE b == BoardOf[f]
             u == Owner[b]
  <2>1. b \in Boards /\ u \in Users /\ CauseStands(f)
    BY Relations DEF IInv, CascadeFollowsCause
  <2>2. files[f] \in FileRows /\ boards[b] \in BoardRows /\ users[u] \in UserRows
    BY <2>1 DEF IInv, TypeOK
  <2>3. CASE files[f].mark = "BOARD_CASCADE"
    <3>1. IsDeleted(files[f]) /\ IsDeleted(boards[b]) /\ files[f].age = boards[b].age
      BY <2>1, <2>3 DEF CauseStands, IsDeleted, IsLive, IsRow
    <3>2. files'[f].age = boards'[b].age
      BY <1>2, <2>1, <2>2, <3>1, OlderAge
    <3> QED
      BY <1>4, <2>1, <2>3, <3>1, <3>2 DEF CauseStands, IsDeleted, IsLive, IsRow
  <2>4. CASE files[f].mark = "USER_CASCADE"
    <3>1. IsDeleted(files[f]) /\ IsDeleted(users[u]) /\ files[f].age = users[u].age
      BY <2>1, <2>4 DEF CauseStands, IsDeleted, IsLive, IsRow
    <3>2. files'[f].age = users'[u].age
      BY <1>2, <2>1, <2>2, <3>1, OlderAge
    <3> QED
      BY <1>4, <2>1, <2>4, <3>1, <3>2 DEF CauseStands, IsDeleted, IsLive, IsRow
  <2> QED
    BY <1>4, <2>3, <2>4 DEF CauseStands
<1>8. RequestsInWindow' /\ CreationsDistinct'
  BY <1>1 DEF RequestsInWindow, CreationsDistinct, Idle, Creations
<1> QED
  BY <1>3, <1>5, <1>6, <1>7, <1>8 DEF IInv
-----------------------------------------------------------------------------
(* The theorems *)

LEMMA InitInductive == Init => IInv
<1> SUFFICES ASSUME Init
            PROVE  IInv
  OBVIOUS
<1>1. TypeOK
  <2>1. PICK like \in [Users -> BOOLEAN] :
          users = [u \in Users |-> [mark |-> "LIVE", age |-> 0,
                                    anon |-> FALSE, like |-> like[u]]]
    BY DEF Init
  <2>2. users \in [Users -> UserRows]
    BY <2>1, AgeZero DEF UserRows
  <2> QED
    BY <2>2, AgeZero, TotalsType DEF Init, TypeOK, BoardRows, FileRows
<1>2. FilesHaveBoard /\ CascadeFollowsCause
  BY DEF Init, FilesHaveBoard, CascadeFollowsCause, CauseStands, IsRow
<1>3. TotalAccurate
  BY DEF Init, TotalAccurate, IsRow
<1>4. RequestsInWindow /\ CreationsDistinct
  BY DEF Init, RequestsInWindow, CreationsDistinct, Idle, Creations
<1> QED
  BY <1>1, <1>2, <1>3, <1>4 DEF IInv

LEMMA StepInductive == IInv /\ [Next]_vars => IInv'
<1> SUFFICES ASSUME IInv, [Next]_vars
            PROVE  IInv'
  OBVIOUS
<1>1. ASSUME NEW w \in Workers, Check(w)
      PROVE  IInv'
  BY <1>1, UserCheckKept, BoardCheckKept, FileCheckKept DEF Check
<1>2. ASSUME NEW w \in Workers, Txn(w)
      PROVE  IInv'
  BY <1>2, TxnSound, CommitKept
<1>3. ASSUME NEW w \in Workers, abort(w)
      PROVE  IInv'
  BY <1>3, AbortKept
<1>4. CASE Scheduler
  BY <1>4, DeleteFilesKept, DeleteBoardsKept, DeleteUsersKept DEF Scheduler
<1>5. CASE Tick
  BY <1>5, TickKept
<1>6. CASE UNCHANGED vars
  BY <1>6 DEF vars, IInv, TypeOK, FilesHaveBoard, TotalAccurate, CascadeFollowsCause,
              CauseStands, RequestsInWindow, CreationsDistinct, RowOf, IsRow, IsLive,
              IsDeleted, LiveFiles, get_total_fsize
<1> QED
  BY <1>1, <1>2, <1>3, <1>4, <1>5, <1>6 DEF Next

LEMMA Inductive == Spec => []IInv
BY InitInductive, StepInductive, PTL DEF Spec

\* Every row and every request stays in its type.
THEOREM TypeCorrect == Spec => []TypeOK
<1>1. IInv => TypeOK
  BY DEF IInv
<1> QED
  BY <1>1, Inductive, PTL

\* A file marked as deleted by a cascade always has its cause beside it, deleted
\* at the same moment.
THEOREM CascadesFollowCauses == Spec => []CascadeFollowsCause
<1>1. IInv => CascadeFollowsCause
  BY DEF IInv
<1> QED
  BY <1>1, Inductive, PTL

\* No file outlives its board's row.
THEOREM EveryFileHasBoard == Spec => []FilesHaveBoard
<1>1. IInv => FilesHaveBoard
  BY DEF IInv
<1> QED
  BY <1>1, Inductive, PTL

\* What a request saw at its check is, while it is in flight, still within the
\* window that the check accepted.
THEOREM RequestsStayInWindow == Spec => []RequestsInWindow
<1>1. IInv => RequestsInWindow
  BY DEF IInv
<1> QED
  BY <1>1, Inductive, PTL
-----------------------------------------------------------------------------
(* No row comes back later than its window. *)

\* Files come back within fdays, boards and users within days.
Within(fdays, days) ==
    /\ \A f \in Files : Returned(files[f], files'[f]) => files[f].age <= fdays
    /\ \A b \in Boards : Returned(boards[b], boards'[b]) => boards[b].age <= days
    /\ \A u \in Users : Returned(users[u], users'[u]) => users[u].age <= days

NothingReturns ==
    /\ \A f \in Files : ~Returned(files[f], files'[f])
    /\ \A b \in Boards : ~Returned(boards[b], boards'[b])
    /\ \A u \in Users : ~Returned(users[u], users'[u])

\* What the commit of the request r may bring back.
ReturnsBy(r) ==
    \/ NothingReturns
    \/ /\ r.op \in OwnersRestores \cup AdminRestores
       /\ Within(FileDays(r.op), RowDays(r.op))

LEMMA ReturnedInTime ==
    ASSUME NEW w \in Workers, pending'[w] = Idle, ReturnsBy(pending[w])
    PROVE  ReturnsInTime
BY DEF ReturnsBy, NothingReturns, Within, ReturnsInTime, Restoring

\* Marking files brings back only files it marks, and only with LIVE.
LEMMA MarkedFiles ==
    ASSUME NEW S, NEW mark, files' = MarkFiles(S, mark),
           NEW f \in Files, Returned(files[f], files'[f])
    PROVE  f \in S /\ mark = "LIVE"
BY DEF MarkFiles, Returned, IsDeleted, IsLive

LEMMA MarksOfBoards ==
    ASSUME boards \in [Boards -> BoardRows], NEW bs \in [Boards -> BoardRows],
           NEW b \in Boards
    PROVE  /\ \A c, t : update_total_board_fsize(bs, c, t)[b].mark = bs[b].mark
           /\ \A u : update_all_user_boards_total_fsize(boards, u)[b].mark
                        = boards[b].mark
           /\ \A c, by : IsDeleted(boards[b]) /\ by # "LIVE"
                            => soft_delete_board(c, by)[b].mark # "LIVE"
<1>1. \A c, t : update_total_board_fsize(bs, c, t)[b].mark = bs[b].mark
  BY DEF update_total_board_fsize, BoardRows
<1>2. \A u : update_all_user_boards_total_fsize(boards, u)[b].mark = boards[b].mark
  BY DEF update_all_user_boards_total_fsize, BoardRows
<1>3. \A c, by : IsDeleted(boards[b]) /\ by # "LIVE"
                    => soft_delete_board(c, by)[b].mark # "LIVE"
  BY DEF soft_delete_board, BoardRows, IsDeleted, IsLive
<1> QED
  BY <1>1, <1>2, <1>3

LEMMA MarksAfterRecalculation ==
    ASSUME boards \in [Boards -> BoardRows], NEW b \in Boards, NEW fs, NEW u
    PROVE  recalculate_all_user_boards_total_fsize(boards, fs, u)[b].mark
              = boards[b].mark
<1> DEFINE t(c) == get_total_fsize(fs, c)
<1> HIDE DEF t
<1>1. recalculate_all_user_boards_total_fsize(boards, fs, u)
        = [c \in Boards |-> IF Owner[c] = u /\ IsRow(boards[c])
                            THEN [boards[c] EXCEPT !.total = t(c)] ELSE boards[c]]
  BY DEF recalculate_all_user_boards_total_fsize, t
<1> QED
  BY <1>1 DEF BoardRows

\* The transactions on files alone leave every board and user as deleted as it was.
LEMMA FileTxnsWithin ==
    ASSUME IInv, NEW w \in Workers, NEW r, r = pending[w],
           \/ upload_files_txn(w) \/ delete_file_txn(w) \/ restore_file_txn(w)
           \/ admin_delete_one_file_txn(w) \/ admin_restore_file_txn(w)
    PROVE  ReturnsBy(r)
<1> DEFINE f == r.on
<1>1. r.op \in FileOps /\ f \in Files /\ r # Idle /\ r.arg \in ArgsOf(r.op)
  <2>1. r.op \in FileOps
    BY DEF upload_files_txn, delete_file_txn, restore_file_txn, FileOps, Commit,
           admin_delete_one_file_txn, admin_restore_file_txn,
           delete_one_file_txn, restore_one_file_txn
  <2> QED
    BY <2>1, RequestType DEF IInv
<1>2. boards \in [Boards -> BoardRows]
  BY DEF IInv, TypeOK
<1>3. users' = users /\ \E b, t : boards' = update_total_board_fsize(boards, b, t)
  BY DEF upload_files_txn, delete_file_txn, restore_file_txn,
         admin_delete_one_file_txn, admin_restore_file_txn,
         delete_one_file_txn, restore_one_file_txn
<1>4. \A b \in Boards : boards'[b].mark = boards[b].mark
  BY <1>2, <1>3, MarksOfBoards
<1>5. /\ \A b \in Boards : ~Returned(boards[b], boards'[b])
      /\ \A u \in Users : ~Returned(users[u], users'[u])
  BY <1>3, <1>4 DEF Returned, IsDeleted, IsLive, IsRow
<1>6. IsDeleted(files[f]) => files[f].age <= WindowOf(r)
  BY <1>1 DEF IInv, RequestsInWindow, RowOf, FileOps, UserOps, BoardOps
<1>7. CASE upload_files_txn(w)
  <2>1. files[f].mark = "UNBORN"
    BY <1>7, <1>1 DEF upload_files_txn, Commit, IInv, CreationsDistinct, Creations,
                      RowOf, UserOps, BoardOps
  <2>2. files' = files \/ files' = MarkFiles({f}, "LIVE")
    BY <1>7 DEF upload_files_txn
  <2>3. \A g \in Files : ~Returned(files[g], files'[g])
    BY <2>1, <2>2, MarkedFiles DEF Returned, IsDeleted, IsLive, IsRow
  <2> QED
    BY <1>5, <2>3 DEF ReturnsBy, NothingReturns
<1>8. CASE delete_file_txn(w) \/ admin_delete_one_file_txn(w)
  <2>1. \E S, mark : mark # "LIVE" /\ files' = MarkFiles(S, mark)
    <3>1. admin_delete_one_file_txn(w) => mark_written(r.arg) # "LIVE"
      BY <1>1 DEF admin_delete_one_file_txn, delete_one_file_txn, Commit, ArgsOf,
                  FileDeleteOptions, mark_written
    <3> QED
      BY <1>8, <3>1 DEF delete_file_txn, admin_delete_one_file_txn, delete_one_file_txn
  <2>2. \A g \in Files : ~Returned(files[g], files'[g])
    BY <2>1, MarkedFiles
  <2> QED
    BY <1>5, <2>2 DEF ReturnsBy, NothingReturns
<1>9. ASSUME NEW op, restore_one_file_txn(w, op)
      PROVE  \A g \in Files : Returned(files[g], files'[g])
                                 => r.op = op /\ files[g].age <= WindowOf(r)
  <2>1. r.op = op /\ files' = MarkFiles({g \in {f} : IsRow(files[g])}, "LIVE")
    BY <1>9 DEF restore_one_file_txn, Commit
  <2> QED
    BY <1>6, <2>1, MarkedFiles DEF Returned
<1>10. CASE restore_file_txn(w) \/ admin_restore_file_txn(w)
  <2>1. /\ r.op \in OwnersRestores \cup AdminRestores
        /\ WindowOf(r) = FileDays(r.op)
    BY <1>10 DEF restore_file_txn, admin_restore_file_txn, restore_one_file_txn,
                 Commit, WindowOf, FileDays, RowDays, OwnersRestores, AdminRestores
  <2>2. \A g \in Files : Returned(files[g], files'[g])
                            => files[g].age <= FileDays(r.op)
    BY <1>9, <1>10, <2>1 DEF restore_file_txn, admin_restore_file_txn
  <2> QED
    BY <1>5, <2>1, <2>2 DEF ReturnsBy, Within
<1> QED
  BY <1>7, <1>8, <1>10

LEMMA BoardFilesTxnsWithin ==
    ASSUME IInv, NEW w \in Workers, NEW r, r = pending[w],
           \/ delete_all_txn(w) \/ restore_all_file_txn(w)
           \/ admin_delete_all_board_files_txn(w) \/ admin_restore_all_files_txn(w)
    PROVE  ReturnsBy(r)
<1> DEFINE b == r.on
<1>1. boards \in [Boards -> BoardRows]
  BY DEF IInv, TypeOK
<1>2. users' = users /\ (boards' = boards
                         \/ \E t : boards' = update_total_board_fsize(boards, b, t))
  BY DEF delete_all_txn, restore_all_file_txn, admin_delete_all_board_files_txn,
         admin_restore_all_files_txn
<1>3. \A c \in Boards : boards'[c].mark = boards[c].mark
  BY <1>1, <1>2, MarksOfBoards
<1>4. /\ \A c \in Boards : ~Returned(boards[c], boards'[c])
      /\ \A u \in Users : ~Returned(users[u], users'[u])
  BY <1>2, <1>3 DEF Returned, IsDeleted, IsLive, IsRow
<1>5. CASE delete_all_txn(w) \/ admin_delete_all_board_files_txn(w)
  <2>1. \E S, mark : mark # "LIVE" /\ files' = MarkFiles(S, mark)
    BY <1>5 DEF delete_all_txn, admin_delete_all_board_files_txn
  <2> QED
    BY <1>4, <2>1, MarkedFiles DEF ReturnsBy, NothingReturns
<1>6. CASE restore_all_file_txn(w)
  <2>1. r.op \in OwnersRestores /\ FileDays(r.op) = CascadeRestoreDays
    BY <1>6 DEF restore_all_file_txn, Commit, OwnersRestores, FileDays
  <2>2. \A g \in Files : Returned(files[g], files'[g])
                            => files[g].age <= CascadeRestoreDays
    BY <1>6, MarkedFiles DEF restore_all_file_txn, user_restore_all_restorable
  <2> QED
    BY <1>4, <2>1, <2>2 DEF ReturnsBy, Within
<1>7. CASE admin_restore_all_files_txn(w)
  <2>1. r.op \in AdminRestores /\ FileDays(r.op) = AdminRestoreDays
    BY <1>7 DEF admin_restore_all_files_txn, Commit, AdminRestores, FileDays, RowDays
  <2>2. \A g \in Files : Returned(files[g], files'[g])
                            => files[g].age <= AdminRestoreDays
    BY <1>7, MarkedFiles DEF admin_restore_all_files_txn, admin_restorable
  <2> QED
    BY <1>4, <2>1, <2>2 DEF ReturnsBy, Within
<1> QED
  BY <1>5, <1>6, <1>7

LEMMA BoardTxnsWithin ==
    ASSUME IInv, NEW w \in Workers, NEW r, r = pending[w],
           \/ create_board_txn(w) \/ delete_board_txn(w) \/ restore_board_txn(w)
           \/ admin_delete_board_txn(w) \/ admin_restore_board_txn(w)
    PROVE  ReturnsBy(r)
<1> DEFINE b == r.on
<1>1. boards \in [Boards -> BoardRows]
  BY DEF IInv, TypeOK
<1>2. users' = users
  BY DEF create_board_txn, delete_board_txn, restore_board_txn,
         admin_delete_board_txn, admin_restore_board_txn
<1>3. \A u \in Users : ~Returned(users[u], users'[u])
  BY <1>2 DEF Returned, IsDeleted, IsLive
<1>4. CASE create_board_txn(w)
  <2>1. boards[b].mark = "UNBORN"
    BY <1>4 DEF create_board_txn, Commit, IInv, CreationsDistinct, Creations, RowOf,
                UserOps, BoardOps
  <2>2. \A c \in Boards : ~Returned(boards[c], boards'[c])
    BY <1>1, <1>4, <2>1 DEF create_board_txn, Returned, IsDeleted, IsLive, IsRow
  <2>3. \A g \in Files : ~Returned(files[g], files'[g])
    BY <1>4 DEF create_board_txn, Returned, IsDeleted, IsLive
  <2> QED
    BY <1>3, <2>2, <2>3 DEF ReturnsBy, NothingReturns
<1>5. CASE delete_board_txn(w) \/ admin_delete_board_txn(w)
  <2>1. \E S, mark : mark # "LIVE" /\ files' = MarkFiles(S, mark)
    BY <1>5 DEF delete_board_txn, admin_delete_board_txn
  <2>2. \A g \in Files : ~Returned(files[g], files'[g])
    BY <2>1, MarkedFiles
  <2>3. \/ \E by : by # "LIVE" /\ boards' = soft_delete_board(b, by)
        \/ boards' = [boards EXCEPT ![b] = PurgedBoard]
        \/ boards' = boards
    BY <1>5, CheckedRow
       DEF delete_board_txn, admin_delete_board_txn, Commit, DeleteOptions
  <2>4. \A c \in Boards : ~Returned(boards[c], boards'[c])
    <3>1. CASE \E by : by # "LIVE" /\ boards' = soft_delete_board(b, by)
      BY <1>1, <3>1, MarksOfBoards DEF Returned, IsLive
    <3>2. CASE boards' = [boards EXCEPT ![b] = PurgedBoard] \/ boards' = boards
      BY <1>1, <3>2 DEF Returned, IsDeleted, IsLive, PurgedBoard
    <3> QED
      BY <2>3, <3>1, <3>2
  <2> QED
    BY <1>3, <2>2, <2>4 DEF ReturnsBy, NothingReturns
<1>6. ASSUME NEW days,
             b \in Boards,
             IsDeleted(boards[b]) => boards[b].age <= days,
             boards' = update_total_board_fsize(restore_board_row(b), b,
                                                get_total_fsize(files', b))
      PROVE  \A c \in Boards : Returned(boards[c], boards'[c]) => boards[c].age <= days
  <2>1. \A c \in Boards \ {b} : boards'[c] = boards[c]
    BY <1>1, <1>6, RestoredBoard
  <2> QED
    BY <1>6, <2>1 DEF Returned, IsDeleted, IsLive
<1>7. ASSUME r.op \in {"restore_board", "admin_restore_board"},
             boards' = update_total_board_fsize(restore_board_row(b), b,
                                                get_total_fsize(files', b)),
             NEW days, files' = MarkFiles(restore_cascade_board_files(b, days), "LIVE")
      PROVE  ReturnsBy(r)
  <2>1. /\ r.op \in OwnersRestores \cup AdminRestores
        /\ WindowOf(r) = RowDays(r.op) /\ FileDays(r.op) = RowDays(r.op)
    BY <1>7 DEF OwnersRestores, AdminRestores, WindowOf, RowDays, FileDays
  <2>2. b \in Boards /\ (IsDeleted(boards[b]) => boards[b].age <= RowDays(r.op))
    BY <1>7, <2>1, CheckedRow
  <2>3. \A c \in Boards : Returned(boards[c], boards'[c])
                             => boards[c].age <= RowDays(r.op)
    BY <1>6, <1>7, <2>2
  <2>4. ASSUME NEW g \in Files, Returned(files[g], files'[g])
        PROVE  files[g].age <= FileDays(r.op)
    <3>1. g \in restore_cascade_board_files(b, days)
      BY <1>7, <2>4, MarkedFiles
    <3>2. BoardOf[g] = b /\ files[g].mark = "BOARD_CASCADE"
      BY <3>1 DEF restore_cascade_board_files, FilesOf
    <3>3. IsDeleted(boards[b]) /\ files[g].age = boards[b].age
      BY <3>2 DEF IInv, CascadeFollowsCause, CauseStands
    <3> QED
      BY <2>1, <2>2, <3>3
  <2> QED
    BY <1>3, <2>1, <2>3, <2>4 DEF ReturnsBy, Within
<1>8. CASE restore_board_txn(w) \/ admin_restore_board_txn(w)
  BY <1>7, <1>8 DEF restore_board_txn, admin_restore_board_txn, Commit
<1> QED
  BY <1>4, <1>5, <1>8

LEMMA UserTxnsWithin ==
    ASSUME IInv, NEW w \in Workers, NEW r, r = pending[w],
           \/ withdraw_txn(w) \/ restore_user_txn(w) \/ ban_txn(w)
           \/ admin_delete_user_txn(w) \/ admin_restore_user_txn(w)
    PROVE  ReturnsBy(r)
<1> DEFINE u == r.on
<1>1. boards \in [Boards -> BoardRows] /\ users \in [Users -> UserRows]
  BY DEF IInv, TypeOK
<1>2. \A c \in Boards : boards'[c].mark = boards[c].mark
  <2>1. \/ boards' = boards
        \/ boards' = update_all_user_boards_total_fsize(boards, u)
        \/ boards' = recalculate_all_user_boards_total_fsize(boards, files', u)
    BY DEF withdraw_txn, restore_user_txn, ban_txn, admin_delete_user_txn,
           admin_restore_user_txn, delete_user_rows, restore_user_rows
  <2> QED
    BY <1>1, <2>1, MarksOfBoards, MarksAfterRecalculation
<1>3. \A c \in Boards : ~Returned(boards[c], boards'[c])
  BY <1>2 DEF Returned, IsDeleted, IsLive, IsRow
<1>4. CASE withdraw_txn(w) \/ ban_txn(w) \/ admin_delete_user_txn(w)
  <2>1. files' = files \/ \E S, mark : mark # "LIVE" /\ files' = MarkFiles(S, mark)
    BY <1>4 DEF withdraw_txn, ban_txn, admin_delete_user_txn, delete_user_rows
  <2>2. \A g \in Files : ~Returned(files[g], files'[g])
    BY <2>1, MarkedFiles DEF Returned, IsDeleted, IsLive
  <2>3. users' = hard_delete_user(u) \/ \E by : users' = soft_delete_user(u, by)
    BY <1>4 DEF withdraw_txn, ban_txn, admin_delete_user_txn, delete_user_rows
  <2>4. \A v \in Users : ~Returned(users[v], users'[v])
    <3>1. CASE users' = hard_delete_user(u)
      BY <1>1, <3>1 DEF hard_delete_user, Returned, IsDeleted, IsLive
    <3>2. ASSUME NEW by, users' = soft_delete_user(u, by), NEW v \in Users,
                 IsDeleted(users[v])
          PROVE  users'[v] = users[v]
      <4>1. CASE IsLive(users[u])
        <5>1. v # u
          BY <3>2, <4>1 DEF IsDeleted
        <5> QED
          BY <1>1, <3>2, <4>1, <5>1 DEF soft_delete_user
      <4>2. CASE ~IsLive(users[u])
        BY <3>2, <4>2 DEF soft_delete_user
      <4> QED
        BY <4>1, <4>2
    <3> QED
      BY <2>3, <3>1, <3>2 DEF Returned, IsDeleted, IsLive
  <2> QED
    BY <1>3, <2>2, <2>4 DEF ReturnsBy, NothingReturns
<1>5. ASSUME NEW days, NEW anon,
             IsDeleted(users[u]) => users[u].age <= days,
             users' = restore_user_data(u, anon)
      PROVE  \A v \in Users : Returned(users[v], users'[v]) => users[v].age <= days
  BY <1>1, <1>5 DEF restore_user_data, Returned, IsDeleted, IsLive
<1>6. ASSUME r.op \in {"restore_user", "admin_restore_user"},
             NEW anon, NEW days, restore_user_rows(u, anon, days)
      PROVE  ReturnsBy(r)
  <2>1. /\ r.op \in OwnersRestores \cup AdminRestores
        /\ WindowOf(r) = RowDays(r.op) /\ FileDays(r.op) = RowDays(r.op)
    BY <1>6 DEF OwnersRestores, AdminRestores, WindowOf, RowDays, FileDays
  <2>2. u \in Users /\ (IsDeleted(users[u]) => users[u].age <= RowDays(r.op))
    BY <1>6, <2>1, CheckedRow
  <2>3. \A v \in Users : Returned(users[v], users'[v])
                            => users[v].age <= RowDays(r.op)
    BY <1>5, <1>6, <2>2 DEF restore_user_rows
  <2>4. ASSUME NEW g \in Files, Returned(files[g], files'[g])
        PROVE  files[g].age <= FileDays(r.op)
    <3>1. g \in restore_all_user_files(u, days)
      BY <1>6, <2>4, MarkedFiles DEF restore_user_rows
    <3>2. Owner[BoardOf[g]] = u /\ files[g].mark = "USER_CASCADE"
      BY <3>1 DEF restore_all_user_files, UserFiles
    <3>3. IsDeleted(users[u]) /\ files[g].age = users[u].age
      BY <3>2 DEF IInv, CascadeFollowsCause, CauseStands
    <3> QED
      BY <2>1, <2>2, <3>3
  <2> QED
    BY <1>3, <2>1, <2>3, <2>4 DEF ReturnsBy, Within
<1>7. CASE restore_user_txn(w) \/ admin_restore_user_txn(w)
  BY <1>6, <1>7 DEF restore_user_txn, admin_restore_user_txn, Commit
<1> QED
  BY <1>4, <1>7

LEMMA StepReturnsInTime == IInv /\ [Next]_vars => [ReturnsInTime]_vars
<1> SUFFICES ASSUME IInv, Next
            PROVE  ReturnsInTime
  BY DEF ReturnsInTime
<1>1. ASSUME NEW w \in Workers, Txn(w)
      PROVE  ReturnsInTime
  <2>1. ReturnsBy(pending[w])
    BY <1>1, FileTxnsWithin, BoardFilesTxnsWithin, BoardTxnsWithin, UserTxnsWithin
       DEF Txn
  <2>2. pending'[w] = Idle
    BY <1>1, TxnSound DEF IInv, TypeOK
  <2> QED
    BY <2>1, <2>2, ReturnedInTime
<1>2. ASSUME NEW w \in Workers, Check(w) \/ abort(w)
      PROVE  ReturnsInTime
  <2>1. users' = users /\ boards' = boards /\ files' = files
    BY <1>2 DEF abort, Check, UserCheck, BoardCheck, FileCheck, Begin, rows,
                withdraw, restore_user, ban, admin_delete_user, admin_restore_user,
                create_board, delete_board, restore_board, delete_all,
                restore_all_file, admin_delete_board, admin_restore_board,
                admin_delete_all_board_files, admin_restore_all_files,
                upload_files, delete_file, restore_file, admin_delete_one_file,
                admin_restore_file
  <2> QED
    BY <2>1 DEF ReturnsInTime, Returned, IsDeleted, IsLive
<1>3. CASE Scheduler
  <2>1. /\ \A f \in Files : ~Returned(files[f], files'[f])
        /\ \A b \in Boards : ~Returned(boards[b], boards'[b])
        /\ \A u \in Users : ~Returned(users[u], users'[u])
    <3>1. CASE delete_files
      BY <3>1, MarkedFiles DEF delete_files, Returned, IsDeleted, IsLive
    <3>2. CASE delete_boards
      BY <3>2, MarkedFiles DEF delete_boards, Returned, IsDeleted, IsLive, PurgedBoard
    <3>3. CASE delete_soft_deleted_user
      BY <3>3 DEF delete_soft_deleted_user, Returned, IsDeleted, IsLive, IInv, TypeOK,
                  UserRows
    <3> QED
      BY <1>3, <3>1, <3>2, <3>3 DEF Scheduler
  <2> QED
    BY <2>1 DEF ReturnsInTime
<1>4. CASE Tick
  BY <1>4 DEF Tick, ReturnsInTime, Returned, Older, IsDeleted, IsLive, IInv, TypeOK,
              UserRows, BoardRows, FileRows
<1> QED
  BY <1>1, <1>2, <1>3, <1>4 DEF Next

\* Whatever happens between a restoration's check and its commit, nothing comes
\* back but by a restoration, nor later than that restores: 7 days for an owner's,
\* 90 for an administrator's, and 30 for all files of a board by their owner.
THEOREM RestorationsInTime == Spec => RestoredInTime
BY StepReturnsInTime, Inductive, PTL DEF Spec, RestoredInTime
-----------------------------------------------------------------------------
(* What its owner may restore stays. *)

\* Marking files takes away only files it marks, and only with PURGED.
LEMMA MarkedAway ==
    ASSUME NEW S, NEW mark, files' = MarkFiles(S, mark),
           NEW f \in Files, files[f].mark # "PURGED", files'[f].mark = "PURGED"
    PROVE  f \in S /\ mark = "PURGED"
BY DEF MarkFiles

LEMMA TxnErases ==
    ASSUME IInv, NEW w \in Workers, Txn(w),
           NEW f \in Files, files[f].mark # "PURGED", files'[f].mark = "PURGED"
    PROVE  Erasing(f)
<1> DEFINE r == pending[w]
<1>1. pending'[w] = Idle
  BY TxnSound DEF IInv, TypeOK
<1>2. ASSUME r.op # "idle", r.arg = "ADMIN_IMMEDIATE",
             r.on \in {f, BoardOf[f], Owner[BoardOf[f]]}
      PROVE  Erasing(f)
  BY <1>1, <1>2 DEF Erasing, Idle
<1>3. ASSUME NEW S, NEW mark, mark # "PURGED", files' = MarkFiles(S, mark)
      PROVE  FALSE
  BY <1>3, MarkedAway
<1>4. files' # files
  OBVIOUS
<1>5. CASE \/ withdraw_txn(w) \/ restore_user_txn(w) \/ ban_txn(w)
           \/ admin_restore_user_txn(w)
  BY <1>3, <1>4, <1>5 DEF withdraw_txn, restore_user_txn, ban_txn, admin_restore_user_txn,
                          delete_user_rows, restore_user_rows
<1>6. CASE \/ create_board_txn(w) \/ delete_board_txn(w) \/ restore_board_txn(w)
           \/ admin_restore_board_txn(w) \/ delete_all_txn(w)
           \/ restore_all_file_txn(w) \/ admin_restore_all_files_txn(w)
  BY <1>3, <1>4, <1>6
     DEF create_board_txn, delete_board_txn, restore_board_txn, admin_restore_board_txn,
         delete_all_txn, restore_all_file_txn, admin_restore_all_files_txn
<1>7. CASE \/ upload_files_txn(w) \/ delete_file_txn(w) \/ restore_file_txn(w)
           \/ admin_restore_file_txn(w)
  BY <1>3, <1>4, <1>7 DEF upload_files_txn, delete_file_txn, restore_file_txn,
                          admin_restore_file_txn, delete_one_file_txn,
                          restore_one_file_txn
<1>8. CASE admin_delete_one_file_txn(w)
  <2> DEFINE S == {g \in {r.on} : IsRow(files[g])}
  <2>1. r.op = "admin_delete_one_file" /\ files' = MarkFiles(S, mark_written(r.arg))
    BY <1>8 DEF admin_delete_one_file_txn, delete_one_file_txn, Commit
  <2>2. f = r.on /\ mark_written(r.arg) = "PURGED"
    BY <2>1, MarkedAway
  <2>3. r.arg \in FileDeleteOptions
    BY <2>1, RequestType DEF IInv, ArgsOf, FileOps
  <2> QED
    BY <1>2, <2>1, <2>2, <2>3 DEF mark_written, FileDeleteOptions
<1>9. CASE admin_delete_user_txn(w)
  <2>1. r.op = "admin_delete_user"
    BY <1>9 DEF admin_delete_user_txn, Commit
  <2>2. CASE r.arg = "ADMIN_IMMEDIATE"
    <3>1. f \in UserFiles(r.on)
      BY <1>9, <2>2, MarkedAway DEF admin_delete_user_txn
    <3> QED
      BY <1>2, <2>1, <2>2, <3>1 DEF UserFiles
  <2>3. CASE r.arg # "ADMIN_IMMEDIATE"
    BY <1>3, <1>4, <1>9, <2>3 DEF admin_delete_user_txn, delete_user_rows
  <2> QED
    BY <2>2, <2>3
<1>10. CASE admin_delete_board_txn(w) \/ admin_delete_all_board_files_txn(w)
  <2>1. r.op \in {"admin_delete_board", "admin_delete_all_board_files"}
    BY <1>10 DEF admin_delete_board_txn, admin_delete_all_board_files_txn, Commit
  <2>2. CASE r.arg = "ADMIN_IMMEDIATE"
    <3>1. f \in FilesOf(r.on)
      BY <1>10, <2>2, MarkedAway
         DEF admin_delete_board_txn, admin_delete_all_board_files_txn
    <3> QED
      BY <1>2, <2>1, <2>2, <3>1 DEF FilesOf
  <2>3. CASE r.arg # "ADMIN_IMMEDIATE"
    BY <1>3, <1>10, <2>3 DEF admin_delete_board_txn, admin_delete_all_board_files_txn
  <2> QED
    BY <2>2, <2>3
<1> QED
  BY <1>5, <1>6, <1>7, <1>8, <1>9, <1>10 DEF Txn

\* Its cause is as old as the file is: the removal does not reach either.
LEMMA RestorableUnexpired ==
    ASSUME IInv, NEW f \in Files, OwnerMayRestore(f)
    PROVE  ~FileExpired(f)
<1>1. files[f].age \in Nat
  BY DEF IInv, TypeOK, FileRows, Ages
<1>2. files[f].mark \in {"USER", "USER_CASCADE", "BOARD_CASCADE"}
  BY DEF OwnerMayRestore
<1>3. files[f].age <= UserRestoreDays
  BY DEF OwnerMayRestore, IInv, CascadeFollowsCause, CauseStands
<1> QED
  BY <1>1, <1>2, <1>3, WindowsAssumption DEF FileExpired, WindowsAssumption

LEMMA StepKeepsRestorables == IInv /\ [Next]_vars => [RestorablesStay]_vars
<1> SUFFICES ASSUME IInv, Next, NEW f \in Files, OwnerMayRestore(f),
                    files'[f].mark = "PURGED"
             PROVE  Erasing(f) \/ BoardExpired(BoardOf[f])
  BY DEF RestorablesStay
<1>1. files[f].mark # "PURGED"
  BY DEF OwnerMayRestore
<1>2. ASSUME NEW w \in Workers, Txn(w)
      PROVE  Erasing(f)
  BY <1>1, <1>2, TxnErases
<1>3. ASSUME NEW w \in Workers, Check(w) \/ abort(w)
      PROVE  FALSE
  <2>1. files' = files
    BY <1>3 DEF abort, Check, UserCheck, BoardCheck, FileCheck, Begin, rows,
                withdraw, restore_user, ban, admin_delete_user, admin_restore_user,
                create_board, delete_board, restore_board, delete_all,
                restore_all_file, admin_delete_board, admin_restore_board,
                admin_delete_all_board_files, admin_restore_all_files,
                upload_files, delete_file, restore_file, admin_delete_one_file,
                admin_restore_file
  <2> QED
    BY <1>1, <2>1
<1>4. ~delete_files
  BY <1>1, MarkedAway, RestorableUnexpired DEF delete_files
<1>5. delete_boards => BoardExpired(BoardOf[f])
  BY <1>1, MarkedAway DEF delete_boards
<1>6. ~delete_soft_deleted_user
  BY <1>1 DEF delete_soft_deleted_user
<1>7. ~Tick
  BY <1>1 DEF Tick, Older, IInv, TypeOK, FileRows
<1> QED
  BY <1>2, <1>3, <1>4, <1>5, <1>6, <1>7 DEF Next, Scheduler

\* However requests overlap with each other and with the jobs, what its owner may
\* restore, alone or with the board or the account, is not removed before its time.
THEOREM RestorablesStayKept == Spec => RestorablesKept
BY StepKeepsRestorables, Inductive, PTL DEF Spec, RestorablesKept

-----------------------------------------------------------------------------
(* The size of some files.  What a fold computes of every finite set takes  *)
(* induction over finite sets; the library's theorems on it have operator   *)
(* parameters, so it is done here by a least counterexample.                *)

LEMMA SizesAre == \A f \in Files : Size[f] \in Nat
BY RelationsAssumption DEF RelationsAssumption

\* A set of sets of files that is not empty has a least one in it.
LEMMA LeastSet ==
    ASSUME NEW F \in SUBSET SUBSET Files, F # {}
    PROVE  \E T \in F : \A S \in F : S \subseteq T => S = T
<1>1. FiniteSubsetsOf(Files) = SUBSET Files
  BY RelationsAssumption, FS_FiniteSubsetsOfFinite DEF RelationsAssumption
<1>2. IsWellFoundedOn(StrictSubsetOrdering(Files), SUBSET Files)
  BY <1>1, FS_StrictSubsetOrderingWellFounded
<1>3. PICK T \in F : \A S \in F : ~(<<S, T>> \in StrictSubsetOrdering(Files))
  <2> DEFINE R == StrictSubsetOrdering(Files)
             Q == SUBSET Files
  <2>1. IsWellFoundedOn(R, Q) /\ F \subseteq Q /\ F # {}
    BY <1>2
  <2> HIDE DEF R, Q
  <2>2. \E x \in F : \A y \in F : ~(<<y, x>> \in R)
    BY <2>1, WFMin
  <2> QED
    BY <2>2 DEF R
<1> QED
  BY <1>3 DEF StrictSubsetOrdering

\* The file that the fold takes first.
First(S) == CHOOSE f \in S : TRUE

\* What the fold on S computes of the subsets of S.
FoldOf(S, g) ==
    g = [s \in SUBSET S |->
           IF s = {} THEN 0 ELSE Size[First(s)] + g[s \ {First(s)}]]

LEMMA SumIs == \A S : SumSize(S) = (CHOOSE g : FoldOf(S, g))[S]
BY DEF SumSize, SumFunctionOnSet, FoldFunctionOnSet, MapThenFoldSet, FoldOf, First

LEMMA FirstIn == \A S : S # {} => First(S) \in S
BY DEF First

Unfolds(S) == SumSize(S) = IF S = {} THEN 0 ELSE Size[First(S)] + SumSize(S \ {First(S)})

LEMMA SumUnfolds == \A S \in SUBSET Files : Unfolds(S)
<1> SUFFICES ASSUME {S \in SUBSET Files : ~Unfolds(S)} # {}
            PROVE  FALSE
  OBVIOUS
<1>1. PICK T \in SUBSET Files : ~Unfolds(T) /\ \A S \in SUBSET T : S # T => Unfolds(S)
  <2> DEFINE F == {S \in SUBSET Files : ~Unfolds(S)}
  <2>0. F \in SUBSET SUBSET Files /\ F # {}
    OBVIOUS
  <2> HIDE DEF F
  <2>1. PICK T \in F : \A S \in F : S \subseteq T => S = T
    BY <2>0, LeastSet
  <2> USE DEF F
  <2> QED
    BY <2>1
<1> DEFINE h == [s \in SUBSET T |-> IF s = {} THEN 0
                                 ELSE Size[First(s)] + SumSize(s \ {First(s)})]
           g == CHOOSE k : FoldOf(T, k)
<1>2. \A s \in SUBSET T : s # {} => First(s) \in s /\ s \ {First(s)} \in SUBSET T
                                    /\ s \ {First(s)} # T
  BY FirstIn
<1>3. FoldOf(T, h)
  <2>1. \A s \in SUBSET T : s # {} => h[s \ {First(s)}] = SumSize(s \ {First(s)})
    <3> TAKE s \in SUBSET T
    <3> HAVE s # {}
    <3> DEFINE r == s \ {First(s)}
    <3>1. r \in SUBSET T /\ Unfolds(r)
      BY <1>1, <1>2
    <3> HIDE DEF r
    <3>2. h[r] = SumSize(r)
      BY <3>1 DEF Unfolds
    <3> QED
      BY <3>2 DEF r
  <2> DEFINE G(s) == IF s = {} THEN 0 ELSE Size[First(s)] + SumSize(s \ {First(s)})
             H(s) == IF s = {} THEN 0 ELSE Size[First(s)] + h[s \ {First(s)}]
  <2>2. \A s \in SUBSET T : G(s) = H(s)
    BY <2>1
  <2>3. h = [s \in SUBSET T |-> G(s)]
    OBVIOUS
  <2> HIDE DEF G, h, H
  <2>4. h = [s \in SUBSET T |-> H(s)]
    BY <2>2, <2>3
  <2> QED
    BY <2>4 DEF FoldOf, H
<1>4. FoldOf(T, g)
  BY <1>3
<1>5. \A s \in SUBSET T :
         g[s] = IF s = {} THEN 0 ELSE Size[First(s)] + g[s \ {First(s)}]
  <2> HIDE DEF g
  <2> QED
    BY <1>4 DEF FoldOf
<1>6. \A s \in SUBSET T : s # T => g[s] = SumSize(s)
  <2> DEFINE F == {s \in SUBSET T : s # T /\ g[s] # SumSize(s)}
  <2> SUFFICES ASSUME F # {}
               PROVE  FALSE
    OBVIOUS
  <2>0. F \in SUBSET SUBSET Files /\ F # {}
    OBVIOUS
  <2> HIDE DEF F
  <2>1. PICK s \in F : \A r \in F : r \subseteq s => r = s
    BY <2>0, LeastSet
  <2> USE DEF F
  <2>2. s # {}
    BY <1>1, <1>5, <2>1 DEF Unfolds
  <2> DEFINE r == s \ {First(s)}
  <2>3. r \in SUBSET T /\ r # T /\ r \subseteq s /\ r # s
    BY <1>2, <2>1, <2>2
  <2>4. g[r] = SumSize(r)
    BY <2>1, <2>3
  <2>5. g[s] = Size[First(s)] + g[r]
    BY <1>5, <2>1, <2>2
  <2>6. SumSize(s) = Size[First(s)] + SumSize(r)
    BY <1>1, <2>1, <2>2 DEF Unfolds
  <2> QED
    BY <2>1, <2>4, <2>5, <2>6
<1>7. SumSize(T) = g[T]
  BY SumIs
<1>8. T # {} => g[T \ {First(T)}] = SumSize(T \ {First(T)})
  BY <1>2, <1>6
<1> QED
  BY <1>1, <1>5, <1>7, <1>8 DEF Unfolds

LEMMA SumOfNone == SumSize({}) = 0
BY SumUnfolds DEF Unfolds

\* A sum of sizes is a natural number.
LEMMA SumType == \A S \in SUBSET Files : SumSize(S) \in Nat
<1> DEFINE F == {S \in SUBSET Files : SumSize(S) \notin Nat}
<1> SUFFICES ASSUME F # {}
             PROVE  FALSE
  OBVIOUS
<1>0. F \in SUBSET SUBSET Files /\ F # {}
  OBVIOUS
<1> HIDE DEF F
<1>1. PICK T \in F : \A S \in F : S \subseteq T => S = T
  BY <1>0, LeastSet
<1> USE DEF F
<1>2. T # {}
  BY <1>1, SumOfNone
<1> DEFINE r == T \ {First(T)}
<1>3. First(T) \in Files /\ r \in SUBSET Files /\ r \subseteq T /\ r # T
  BY <1>1, <1>2, FirstIn
<1>4. SumSize(r) \in Nat /\ Size[First(T)] \in Nat
  BY <1>1, <1>3, SizesAre
<1>5. SumSize(T) = Size[First(T)] + SumSize(r)
  BY <1>1, <1>2, SumUnfolds DEF Unfolds
<1> QED
  BY <1>1, <1>4, <1>5

\* Whichever file is taken off.
LEMMA SumOfOneMore ==
    \A S \in SUBSET Files : \A f \in S : SumSize(S) = Size[f] + SumSize(S \ {f})
<1> DEFINE F == {T \in SUBSET Files : \E f \in T : SumSize(T) # Size[f] + SumSize(T \ {f})}
<1> SUFFICES ASSUME F # {}
             PROVE  FALSE
  OBVIOUS
<1>0. F \in SUBSET SUBSET Files /\ F # {}
  OBVIOUS
<1> HIDE DEF F
<1>1. PICK T \in F : \A U \in F : U \subseteq T => U = T
  BY <1>0, LeastSet
<1> USE DEF F
<1>2. PICK f \in T : SumSize(T) # Size[f] + SumSize(T \ {f})
  BY <1>1
<1> DEFINE c == First(T)
           both == T \ {c, f}
<1>3. c \in T /\ T \in SUBSET Files /\ T # {}
  BY <1>1, <1>2, FirstIn
<1>4. SumSize(T) = Size[c] + SumSize(T \ {c})
  BY <1>3, SumUnfolds DEF Unfolds
<1>5. c # f
  BY <1>2, <1>4
<1>6. \A U \in SUBSET T : U # T => \A e \in U : SumSize(U) = Size[e] + SumSize(U \ {e})
  BY <1>1
<1>7. SumSize(T \ {c}) = Size[f] + SumSize(both)
  <2>1. T \ {c} \in SUBSET T /\ T \ {c} # T /\ f \in T \ {c} /\ (T \ {c}) \ {f} = both
    BY <1>3, <1>5
  <2> QED
    BY <1>6, <2>1
<1>8. SumSize(T \ {f}) = Size[c] + SumSize(both)
  <2>1. T \ {f} \in SUBSET T /\ T \ {f} # T /\ c \in T \ {f} /\ (T \ {f}) \ {c} = both
    BY <1>3, <1>5
  <2> QED
    BY <1>6, <2>1
<1>9. SumSize(both) \in Nat /\ Size[c] \in Nat /\ Size[f] \in Nat
  BY <1>3, SizesAre, SumType
<1> QED
  BY <1>2, <1>4, <1>7, <1>8, <1>9

\* More files are no smaller.
LEMMA SumMonotone ==
    ASSUME NEW S \in SUBSET Files, NEW B \in SUBSET Files, S \subseteq B
    PROVE  SumSize(S) <= SumSize(B)
<1> DEFINE F == {T \in SUBSET Files : S \subseteq T /\ ~(SumSize(S) <= SumSize(T))}
<1> SUFFICES ASSUME F # {}
             PROVE  FALSE
  OBVIOUS
<1>0. F \in SUBSET SUBSET Files /\ F # {}
  OBVIOUS
<1> HIDE DEF F
<1>1. PICK T \in F : \A U \in F : U \subseteq T => U = T
  BY <1>0, LeastSet
<1> USE DEF F
<1>2. SumSize(S) \in Nat
  BY SumType
<1>3. PICK f \in T : f \notin S
  BY <1>1, <1>2
<1> DEFINE r == T \ {f}
<1>4. r \in SUBSET Files /\ S \subseteq r /\ r \subseteq T /\ r # T
  BY <1>1, <1>3
<1>5. SumSize(S) <= SumSize(r)
  BY <1>1, <1>4
<1>6. SumSize(T) = Size[f] + SumSize(r)
  BY <1>1, <1>3, SumOfOneMore
<1>7. SumSize(r) \in Nat /\ Size[f] \in Nat /\ SumSize(T) \in Nat
  BY <1>1, <1>3, <1>4, SizesAre, SumType
<1>8. SumSize(S) <= SumSize(T)
  <2> HIDE DEF r
  <2> QED
    BY <1>2, <1>5, <1>6, <1>7
<1> QED
  BY <1>1, <1>8

\* Two sets of files together are no larger than the one and the other.
LEMMA SumOfBoth ==
    ASSUME NEW S \in SUBSET Files, NEW B \in SUBSET Files
    PROVE  SumSize(S \cup B) <= SumSize(S) + SumSize(B)
<1> DEFINE F == {T \in SUBSET Files : ~(SumSize(S \cup T) <= SumSize(S) + SumSize(T))}
<1> SUFFICES ASSUME F # {}
             PROVE  FALSE
  OBVIOUS
<1>0. F \in SUBSET SUBSET Files /\ F # {}
  OBVIOUS
<1> HIDE DEF F
<1>1. PICK T \in F : \A U \in F : U \subseteq T => U = T
  BY <1>0, LeastSet
<1> USE DEF F
<1>2. SumSize(S) \in Nat
  BY SumType
<1>3. T # {}
  <2> SUFFICES ASSUME T = {}
               PROVE  FALSE
    OBVIOUS
  <2>1. S \cup T = S /\ SumSize(T) = 0
    BY SumOfNone
  <2>2. SumSize(S) <= SumSize(S) + 0
    BY <1>2
  <2>3. SumSize(S \cup T) <= SumSize(S) + SumSize(T)
    BY <2>1, <2>2
  <2> QED
    BY <1>1, <2>3
<1>4. PICK f \in T : TRUE
  BY <1>3
<1> DEFINE r == T \ {f}
           all == S \cup T
<1>5. r \in SUBSET Files /\ r \subseteq T /\ r # T /\ all \in SUBSET Files
  BY <1>1, <1>4
<1>6. SumSize(S \cup r) <= SumSize(S) + SumSize(r)
  BY <1>1, <1>5
<1>7. SumSize(T) = Size[f] + SumSize(r)
  BY <1>1, <1>4, SumOfOneMore
<1>8. /\ SumSize(r) \in Nat /\ Size[f] \in Nat /\ SumSize(T) \in Nat
      /\ SumSize(all) \in Nat /\ SumSize(S \cup r) \in Nat
  BY <1>1, <1>4, <1>5, SizesAre, SumType
<1>9. SumSize(all) <= Size[f] + SumSize(S \cup r)
  <2>1. CASE f \in S
    <3>1. all = S \cup r
      BY <2>1, <1>4
    <3> QED
      BY <1>8, <3>1
  <2>2. CASE f \notin S
    <3>1. all \ {f} = S \cup r /\ f \in all
      BY <2>2, <1>4
    <3>2. SumSize(all) = Size[f] + SumSize(all \ {f})
      BY <1>5, <3>1, SumOfOneMore
    <3> HIDE DEF r, all
    <3> QED
      BY <1>8, <3>1, <3>2
  <2> QED
    BY <2>1, <2>2
<1>10. SumSize(all) <= SumSize(S) + SumSize(T)
  <2> HIDE DEF r, all
  <2> QED
    BY <1>2, <1>6, <1>7, <1>8, <1>9
<1> QED
  BY <1>1, <1>10
-----------------------------------------------------------------------------
(* One request at a time: what a check found is there when its transaction  *)
(* commits, but for what the scheduler removed in between.                  *)

OneAtATime == \A v, w \in Workers : v = w

\* What a restored board may have on it: the files that come back and those there.
Restored(b) == LiveFiles(files, b) \cup admin_restorable(b)

\* With no other request in flight, what w was checked for is still so when it
\* commits: the jobs between only take rows away.
ChecksHold(w) ==
    LET r == pending[w] IN
    /\ r.op = "delete_file" => files[r.on].mark \in {"LIVE", "PURGED"}
    /\ r.op = "restore_file" => files[r.on].mark \in {"USER", "PURGED"}
    /\ r.op = "delete_board" => boards[r.on].mark = "LIVE"
    /\ r.op = "restore_board" => boards[r.on].mark = "USER"
    /\ r.op = "restore_user" => users[r.on].mark = "USER"
    /\ r.op \in {"upload_files", "restore_file"}
         => Load(BoardOf[r.on]) + Size[r.on] <= FileTotalMaxSize
    /\ r.op = "admin_restore_all_files"
         => SumSize(Restored(r.on)) <= FileTotalMaxSize

OInv == IInv /\ \A w \in Workers : ChecksHold(w)

LEMMA LoadsTyped ==
    /\ \A b : LoadOf(b) \in SUBSET Files /\ Load(b) \in Nat
    /\ \A b : LoadOf(b)' \in SUBSET Files /\ Load(b)' \in Nat
    /\ \A b : Restored(b) \in SUBSET Files /\ SumSize(Restored(b)) \in Nat
    /\ \A b : Restored(b)' \in SUBSET Files /\ SumSize(Restored(b)') \in Nat
    /\ FileTotalMaxSize \in Nat
<1>1. \A b : LoadOf(b) \in SUBSET Files /\ LoadOf(b)' \in SUBSET Files
  BY DEF LoadOf, FilesOf
<1>2. \A b : Restored(b) \in SUBSET Files /\ Restored(b)' \in SUBSET Files
  BY DEF Restored, LiveFiles, admin_restorable, FilesOf
<1> QED
  BY <1>1, <1>2, SumType, RelationsAssumption DEF Load, RelationsAssumption

\* On a board that is shown to its owner everything is live or deleted for itself.
LEMMA LoadShown ==
    ASSUME IInv, NEW b \in Boards, IsLive(boards[b]), IsLive(users[Owner[b]])
    PROVE  LoadOf(b) = LiveFiles(files, b)
<1>1. ASSUME NEW f \in FilesOf(b)
      PROVE  files[f].mark \notin {"BOARD_CASCADE", "USER_CASCADE"}
  <2>1. f \in Files /\ BoardOf[f] = b /\ CauseStands(f)
    BY <1>1 DEF FilesOf, IInv, CascadeFollowsCause
  <2> QED
    BY <2>1 DEF CauseStands, IsDeleted
<1> QED
  BY <1>1 DEF LoadOf, LiveFiles

\* A step that only takes rows away, and only by the scheduler's rules.
Removes ==
    /\ \A f \in Files : files'[f] = files[f] \/ files'[f].mark = "PURGED"
    /\ \A b \in Boards : \/ boards'[b].mark = boards[b].mark
                         \/ boards[b].mark = "ADMIN_SCHEDULED" /\ boards'[b].mark = "PURGED"
    /\ \A u \in Users : users'[u].mark = users[u].mark

LEMMA LessLoad ==
    ASSUME \A f \in Files : files'[f] = files[f] \/ files'[f].mark = "PURGED"
    PROVE  \A b : /\ Load(b)' <= Load(b)
                  /\ SumSize(Restored(b)') <= SumSize(Restored(b))
<1> TAKE b
<1>1. LoadOf(b)' \subseteq LoadOf(b)
  BY DEF LoadOf, FilesOf, IsLive
<1>2. Restored(b)' \subseteq Restored(b)
  BY DEF Restored, LiveFiles, admin_restorable, FilesOf, IsLive, IsDeleted, IsRow
<1> QED
  BY <1>1, <1>2, LoadsTyped, SumMonotone DEF Load

LEMMA SchedulerRemoves ==
    ASSUME IInv, Scheduler
    PROVE  Removes /\ pending' = pending
<1>1. CASE delete_files
  BY <1>1 DEF delete_files, MarkFiles, Removes
<1>2. CASE delete_boards
  BY <1>2 DEF delete_boards, MarkFiles, Removes, BoardExpired, PurgedBoard
<1>3. CASE delete_soft_deleted_user
  BY <1>3 DEF delete_soft_deleted_user, Removes, IInv, TypeOK, UserRows
<1> QED
  BY <1>1, <1>2, <1>3 DEF Scheduler

LEMMA ChecksHoldOn ==
    ASSUME IInv, NEW w \in Workers, ChecksHold(w), Removes, pending' = pending
    PROVE  ChecksHold(w)'
<1> DEFINE r == pending[w]
<1>1. /\ r.op \in FileOps => r.on \in Files
      /\ r.op \in BoardOps => r.on \in Boards
      /\ r.op \in UserOps => r.on \in Users
  BY RequestType DEF IInv
<1>2. /\ r.op = "delete_file" => files'[r.on].mark \in {"LIVE", "PURGED"}
      /\ r.op = "restore_file" => files'[r.on].mark \in {"USER", "PURGED"}
      /\ r.op = "delete_board" => boards'[r.on].mark = "LIVE"
      /\ r.op = "restore_board" => boards'[r.on].mark = "USER"
      /\ r.op = "restore_user" => users'[r.on].mark = "USER"
  BY <1>1 DEF ChecksHold, Removes, FileOps, BoardOps, UserOps
<1>3. ASSUME r.op \in {"upload_files", "restore_file"}
      PROVE  Load(BoardOf[r.on])' + Size[r.on] <= FileTotalMaxSize
  <2> DEFINE b == BoardOf[r.on]
             before == Load(b)
             after == Load(b)'
  <2>1. before + Size[r.on] <= FileTotalMaxSize
    BY <1>3 DEF ChecksHold
  <2>2. after <= before /\ after \in Nat /\ before \in Nat
    <3>1. \A c : Load(c)' <= Load(c) /\ Load(c)' \in Nat /\ Load(c) \in Nat
      BY LessLoad, LoadsTyped DEF Removes
    <3> QED
      BY <3>1
  <2>3. Size[r.on] \in Nat /\ FileTotalMaxSize \in Nat
    BY <1>1, <1>3, SizesAre, LoadsTyped DEF FileOps
  <2> HIDE DEF before, after
  <2> QED
    BY <2>1, <2>2, <2>3 DEF after
<1>4. r.op = "admin_restore_all_files" => SumSize(Restored(r.on)') <= FileTotalMaxSize
  <2>1. /\ \A c : SumSize(Restored(c)') <= SumSize(Restored(c))
        /\ \A c : SumSize(Restored(c)') \in Nat /\ SumSize(Restored(c)) \in Nat
        /\ FileTotalMaxSize \in Nat
    BY LessLoad, LoadsTyped DEF Removes
  <2> QED
    BY <2>1 DEF ChecksHold
<1> QED
  BY <1>2, <1>3, <1>4 DEF ChecksHold

\* A request that begins finds what it checks.
LEMMA ChecksFound ==
    ASSUME IInv, NEW w \in Workers, Check(w)
    PROVE  ChecksHold(w)'
<1> DEFINE q == pending'[w]
<1>1. DOMAIN pending = Workers /\ users' = users /\ boards' = boards /\ files' = files
  BY DEF IInv, TypeOK, Check, UserCheck, BoardCheck, FileCheck, Begin, rows,
         withdraw, restore_user, ban, admin_delete_user, admin_restore_user,
         create_board, delete_board, restore_board, delete_all,
         restore_all_file, admin_delete_board, admin_restore_board,
         admin_delete_all_board_files, admin_restore_all_files,
         upload_files, delete_file, restore_file, admin_delete_one_file,
         admin_restore_file
<1>2. ASSUME NEW op, NEW on, NEW arg, Begin(w, op, on, arg),
             op \notin {"delete_file", "restore_file", "delete_board", "restore_board",
                        "restore_user", "upload_files", "admin_restore_all_files"}
      PROVE  ChecksHold(w)'
  <2>1. q.op = op
    BY <1>1, <1>2 DEF Begin, Request
  <2> QED
    BY <1>2, <2>1 DEF ChecksHold
<1>3. ASSUME NEW op, NEW on, NEW arg, Begin(w, op, on, arg)
      PROVE  q.op = op /\ q.on = on
  BY <1>1, <1>3 DEF Begin, Request
<1>4. CASE UserCheck(w)
  <2>1. ASSUME NEW u \in Users, restore_user(w, u)
        PROVE  ChecksHold(w)'
    <3>1. q.op = "restore_user" /\ q.on = u
      BY <1>3, <2>1 DEF restore_user
    <3> QED
      BY <1>1, <2>1, <3>1 DEF restore_user, ChecksHold
  <2> QED
    BY <1>2, <1>4, <2>1 DEF UserCheck, withdraw, ban, admin_restore_user, admin_delete_user
<1>5. CASE BoardCheck(w)
  <2>1. ASSUME NEW b \in Boards, delete_board(w, b) \/ restore_board(w, b)
        PROVE  ChecksHold(w)'
    <3>1. q.on = b /\ \/ q.op = "delete_board" /\ boards[b].mark = "LIVE"
                      \/ q.op = "restore_board" /\ boards[b].mark = "USER"
      BY <1>3, <2>1 DEF delete_board, restore_board, IsLive
    <3> QED
      BY <1>1, <3>1 DEF ChecksHold
  <2>2. ASSUME NEW b \in Boards, admin_restore_all_files(w, b)
        PROVE  ChecksHold(w)'
    <3> DEFINE L == LiveFiles(files, b)
               S == admin_restorable(b)
    <3>1. q.op = "admin_restore_all_files" /\ q.on = b
      BY <1>3, <2>2 DEF admin_restore_all_files
    <3>2. SumSize(L) + SumSize(S) <= FileTotalMaxSize
      BY <2>2 DEF admin_restore_all_files, get_total_fsize
    <3>3. L \in SUBSET Files /\ S \in SUBSET Files
      BY DEF LiveFiles, admin_restorable, FilesOf
    <3> HIDE DEF L, S
    <3>4. SumSize(L \cup S) <= SumSize(L) + SumSize(S) /\ L \cup S \in SUBSET Files
      BY <3>3, SumOfBoth
    <3>5. /\ SumSize(L) \in Nat /\ SumSize(S) \in Nat /\ SumSize(L \cup S) \in Nat
          /\ FileTotalMaxSize \in Nat
      BY <3>3, <3>4, SumType, LoadsTyped
    <3>6. SumSize(L \cup S) <= FileTotalMaxSize
      BY <3>2, <3>4, <3>5
    <3>7. Restored(b)' = L \cup S
      BY <1>1 DEF Restored, LiveFiles, admin_restorable, IsLive, IsDeleted, IsRow, L, S
    <3> QED
      BY <3>1, <3>6, <3>7 DEF ChecksHold
  <2> QED
    BY <1>2, <1>5, <2>1, <2>2
       DEF BoardCheck, create_board, delete_all, restore_all_file, admin_restore_board,
           admin_delete_board, admin_delete_all_board_files
<1>6. CASE FileCheck(w)
  <2>1. ASSUME NEW f \in Files, delete_file(w, f)
        PROVE  ChecksHold(w)'
    <3>1. q.op = "delete_file" /\ q.on = f
      BY <1>3, <2>1 DEF delete_file
    <3> QED
      BY <1>1, <2>1, <3>1 DEF delete_file, IsLive, ChecksHold
  <2>2. ASSUME NEW f \in Files, upload_files(w, f) \/ restore_file(w, f)
        PROVE  ChecksHold(w)'
    <3> DEFINE b == BoardOf[f]
    <3>1. /\ q.on = f /\ q.op \in {"upload_files", "restore_file"}
          /\ q.op = "restore_file" => files[f].mark = "USER"
      BY <1>3, <2>2 DEF upload_files, restore_file
    <3>2. /\ IsLive(users[Owner[b]]) /\ IsLive(boards[b])
          /\ \/ get_total_fsize(files, b) + Size[f] <= FileTotalMaxSize
             \/ Size[f] + get_total_fsize(files, b) <= FileTotalMaxSize
      BY <2>2 DEF upload_files, restore_file, SignedIn, PasswordAccepted
    <3>3. Load(b) = get_total_fsize(files, b)
      BY <3>2, Relations, LoadShown DEF Load, get_total_fsize
    <3>4. Load(b) + Size[f] <= FileTotalMaxSize
      BY <3>2, <3>3, SizesAre, LoadsTyped
    <3>5. Load(b)' = Load(b)
      BY <1>1 DEF Load, LoadOf, IsLive
    <3> QED
      BY <1>1, <3>1, <3>4, <3>5 DEF ChecksHold
  <2> QED
    BY <1>2, <1>6, <2>1, <2>2 DEF FileCheck, admin_restore_file, admin_delete_one_file
<1> QED
  BY <1>4, <1>5, <1>6 DEF Check

LEMMA OStep ==
    ASSUME OneAtATime, OInv, [Next]_vars
    PROVE  OInv'
<1> USE DEF OInv
<1>1. IInv'
  BY StepInductive
<1>2. \A w \in Workers : ~(pending'[w] = Idle /\ ~ChecksHold(w)')
  BY DEF ChecksHold, Idle
<1>3. ASSUME NEW w \in Workers, Check(w)
      PROVE  OInv'
  BY <1>1, <1>3, ChecksFound DEF OneAtATime
<1>4. ASSUME NEW w \in Workers, Txn(w) \/ abort(w)
      PROVE  OInv'
  <2>1. pending'[w] = Idle
    BY <1>4, TxnSound DEF abort, IInv, TypeOK
  <2> QED
    BY <1>1, <1>2, <2>1 DEF OneAtATime
<1>5. CASE Scheduler
  BY <1>1, <1>5, SchedulerRemoves, ChecksHoldOn
<1>6. CASE Tick
  BY <1>1, <1>2, <1>6 DEF Tick
<1>7. CASE UNCHANGED vars
  <2>1. Removes /\ pending' = pending
    BY <1>7 DEF vars, Removes
  <2> QED
    BY <1>1, <2>1, ChecksHoldOn
<1> QED
  BY <1>3, <1>4, <1>5, <1>6, <1>7 DEF Next

LEMMA OInductive ==
    ASSUME OneAtATime
    PROVE  Spec => []OInv
<1>1. Init => OInv
  <2>1. Init => pending = [w \in Workers |-> Idle]
    BY DEF Init
  <2> QED
    BY <2>1, InitInductive DEF OInv, ChecksHold, Idle
<1>2. OInv /\ [Next]_vars => OInv'
  BY OStep
<1> QED
  BY <1>1, <1>2, PTL DEF Spec
-----------------------------------------------------------------------------
(* What administrators deleted *)

FilesStick == \A f \in Files : DeletedByAdmin(f) => files'[f].mark \notin {"LIVE", "USER"}
BoardsStick ==
    \A b \in Boards : boards[b].mark \in AdminMarks => boards'[b].mark \notin {"LIVE", "USER"}
UsersStick ==
    \A u \in Users : users[u].mark \in AdminMarks => users'[u].mark \notin {"LIVE", "USER"}
Stick == FilesStick /\ BoardsStick /\ UsersStick

LEMMA MarkedFilesStick ==
    ASSUME NEW S, NEW mark, files' = MarkFiles(S, mark),
           mark \in {"LIVE", "USER"} => \A f \in Files \cap S : ~DeletedByAdmin(f)
    PROVE  FilesStick
BY DEF FilesStick, MarkFiles, DeletedByAdmin, AdminMarks

\* Boards that keep their marks, but for the totals that are written.
LEMMA KeptBoardsStick ==
    ASSUME IInv,
           \/ boards' = boards
           \/ \E b, t : boards' = update_total_board_fsize(boards, b, t)
           \/ \E u : boards' = update_all_user_boards_total_fsize(boards, u)
           \/ \E fs, u : boards' = recalculate_all_user_boards_total_fsize(boards, fs, u)
    PROVE  BoardsStick
<1>1. \A b \in Boards : boards'[b].mark = boards[b].mark
  BY MarksOfBoards, MarksAfterRecalculation DEF IInv, TypeOK
<1> QED
  BY <1>1 DEF BoardsStick, AdminMarks

LEMMA KeptUsersStick ==
    ASSUME users' = users
    PROVE  UsersStick
BY DEF UsersStick, AdminMarks

LEMMA FileTxnsStick ==
    ASSUME OInv, NEW w \in Workers,
           \/ upload_files_txn(w) \/ delete_file_txn(w) \/ restore_file_txn(w)
           \/ admin_delete_one_file_txn(w)
    PROVE  Stick
<1> DEFINE r == pending[w]
           f == r.on
           S == {g \in {f} : IsRow(files[g])}
<1> USE DEF OInv
<1>1. users' = users /\ \E b, t : boards' = update_total_board_fsize(boards, b, t)
  BY DEF upload_files_txn, delete_file_txn, restore_file_txn, admin_delete_one_file_txn,
         delete_one_file_txn, restore_one_file_txn
<1>2. BoardsStick /\ UsersStick
  BY <1>1, KeptBoardsStick, KeptUsersStick
<1>3. CASE upload_files_txn(w)
  <2>1. r.op = "upload_files" /\ files[f].mark = "UNBORN"
    BY <1>3 DEF upload_files_txn, Commit, IInv, CreationsDistinct, Creations, RowOf,
                UserOps, BoardOps
  <2>2. ~DeletedByAdmin(f)
    BY <2>1 DEF DeletedByAdmin, AdminMarks
  <2>3. CASE files' = MarkFiles({f}, "LIVE")
    BY <1>2, <2>2, <2>3, MarkedFilesStick DEF Stick
  <2>4. CASE files' = files
    BY <1>2, <2>4 DEF Stick, FilesStick, DeletedByAdmin, AdminMarks
  <2> QED
    BY <1>3, <2>3, <2>4 DEF upload_files_txn
<1>4. CASE delete_file_txn(w)
  <2>1. r.op = "delete_file" /\ files' = MarkFiles(S, "USER")
    BY <1>4 DEF delete_file_txn, delete_one_file_txn, Commit
  <2>2. ~DeletedByAdmin(f)
    BY <2>1 DEF ChecksHold, DeletedByAdmin, AdminMarks
  <2> QED
    BY <1>2, <2>1, <2>2, MarkedFilesStick DEF Stick
<1>5. CASE restore_file_txn(w)
  <2>1. r.op = "restore_file" /\ files' = MarkFiles(S, "LIVE")
    BY <1>5 DEF restore_file_txn, restore_one_file_txn, Commit
  <2>2. ~DeletedByAdmin(f)
    BY <2>1 DEF ChecksHold, DeletedByAdmin, AdminMarks
  <2> QED
    BY <1>2, <2>1, <2>2, MarkedFilesStick DEF Stick
<1>6. CASE admin_delete_one_file_txn(w)
  <2>1. /\ files' = MarkFiles(S, mark_written(r.arg))
        /\ r.op = "admin_delete_one_file"
    BY <1>6 DEF admin_delete_one_file_txn, delete_one_file_txn, Commit
  <2>2. r.arg \in FileDeleteOptions
    BY <2>1, RequestType DEF IInv, FileOps, ArgsOf
  <2>3. mark_written(r.arg) \notin {"LIVE", "USER"}
    BY <2>2 DEF mark_written, FileDeleteOptions
  <2> QED
    BY <1>2, <2>1, <2>3, MarkedFilesStick DEF Stick
<1> QED
  BY <1>3, <1>4, <1>5, <1>6

LEMMA BoardFilesTxnsStick ==
    ASSUME OInv, NEW w \in Workers,
           \/ delete_all_txn(w) \/ restore_all_file_txn(w)
           \/ admin_delete_all_board_files_txn(w)
    PROVE  Stick
<1> USE DEF OInv
<1>1. users' = users /\ (boards' = boards
         \/ \E b, t : boards' = update_total_board_fsize(boards, b, t))
  BY DEF delete_all_txn, restore_all_file_txn, admin_delete_all_board_files_txn
<1>2. BoardsStick /\ UsersStick
  BY <1>1, KeptBoardsStick, KeptUsersStick
<1>3. CASE delete_all_txn(w)
  <2>1. \A f \in LiveFiles(files, pending[w].on) : ~DeletedByAdmin(f)
    BY DEF LiveFiles, DeletedByAdmin, AdminMarks, IsLive
  <2> QED
    BY <1>2, <1>3, <2>1, MarkedFilesStick DEF delete_all_txn, Stick
<1>4. CASE restore_all_file_txn(w)
  <2>1. \A f \in user_restore_all_restorable(pending[w].on) : ~DeletedByAdmin(f)
    BY DEF user_restore_all_restorable, DeletedByAdmin, AdminMarks
  <2> QED
    BY <1>2, <1>4, <2>1, MarkedFilesStick DEF restore_all_file_txn, Stick
<1>5. CASE admin_delete_all_board_files_txn(w)
  BY <1>2, <1>5, MarkedFilesStick DEF admin_delete_all_board_files_txn, Stick
<1> QED
  BY <1>3, <1>4, <1>5

LEMMA BoardTxnsStick ==
    ASSUME OInv, NEW w \in Workers,
           \/ create_board_txn(w) \/ delete_board_txn(w) \/ restore_board_txn(w)
           \/ admin_delete_board_txn(w)
    PROVE  Stick
<1> DEFINE r == pending[w]
           c == r.on
<1> USE DEF OInv
<1>1. UsersStick
  BY KeptUsersStick DEF create_board_txn, delete_board_txn, restore_board_txn,
                        admin_delete_board_txn
<1>2. r.op \in BoardOps => c \in Boards
  BY RequestType DEF IInv
<1>3. boards \in [Boards -> BoardRows]
  BY DEF IInv, TypeOK
<1>4. CASE create_board_txn(w)
  <2>1. r.op = "create_board" /\ c \in Boards /\ boards[c].mark = "UNBORN"
    BY <1>2, <1>4 DEF create_board_txn, Commit, IInv, CreationsDistinct, Creations, RowOf,
                UserOps, BoardOps
  <2>2. BoardsStick
    BY <1>3, <1>4, <2>1 DEF create_board_txn, BoardsStick, AdminMarks, BoardRows
  <2> QED
    BY <1>1, <1>4, <2>2 DEF create_board_txn, Stick, FilesStick, DeletedByAdmin, AdminMarks
<1>5. CASE delete_board_txn(w)
  <2>1. r.op = "delete_board" /\ c \in Boards /\ boards[c].mark = "LIVE"
    BY <1>2, <1>5 DEF delete_board_txn, Commit, ChecksHold, BoardOps
  <2>2. BoardsStick
    BY <1>3, <1>5, <2>1
       DEF delete_board_txn, soft_delete_board, BoardsStick, AdminMarks, BoardRows
  <2>3. FilesStick
    BY <1>5, MarkedFilesStick DEF delete_board_txn
  <2> QED
    BY <1>1, <2>2, <2>3 DEF Stick
<1>6. CASE restore_board_txn(w)
  <2>1. r.op = "restore_board" /\ c \in Boards /\ boards[c].mark = "USER"
    BY <1>2, <1>6 DEF restore_board_txn, Commit, ChecksHold, BoardOps
  <2>2. restore_board_row(c) \in [Boards -> BoardRows]
    BY <1>3, <2>1, BoardHelpersType
  <2>3. \A b \in Boards : boards'[b].mark = restore_board_row(c)[b].mark
    BY <1>3, <1>6, <2>2, MarksOfBoards DEF restore_board_txn
  <2>4. BoardsStick
    BY <1>3, <2>1, <2>3 DEF restore_board_row, BoardsStick, AdminMarks, BoardRows
  <2>5. \A f \in restore_cascade_board_files(c, CascadeRestoreDays) : ~DeletedByAdmin(f)
    BY <2>1 DEF restore_cascade_board_files, FilesOf, DeletedByAdmin, AdminMarks
  <2>6. FilesStick
    BY <1>6, <2>5, MarkedFilesStick DEF restore_board_txn
  <2> QED
    BY <1>1, <2>4, <2>6 DEF Stick
<1>7. CASE admin_delete_board_txn(w)
  <2>1. r.op = "admin_delete_board" /\ c \in Boards /\ r.arg \in DeleteOptions
    BY <1>2, <1>7, RequestType DEF admin_delete_board_txn, Commit, IInv, BoardOps, ArgsOf
  <2>2. FilesStick
    BY <1>7, MarkedFilesStick DEF admin_delete_board_txn
  <2>3. BoardsStick
    BY <1>3, <1>7, <2>1
       DEF admin_delete_board_txn, soft_delete_board, BoardsStick, AdminMarks, BoardRows,
           DeleteOptions, PurgedBoard
  <2> QED
    BY <1>1, <2>2, <2>3 DEF Stick
<1> QED
  BY <1>4, <1>5, <1>6, <1>7

LEMMA UserTxnsStick ==
    ASSUME OInv, NEW w \in Workers,
           withdraw_txn(w) \/ restore_user_txn(w) \/ ban_txn(w) \/ admin_delete_user_txn(w)
    PROVE  Stick
<1> DEFINE r == pending[w]
           u == r.on
<1> USE DEF OInv
<1>1. BoardsStick
  BY KeptBoardsStick DEF withdraw_txn, restore_user_txn, ban_txn, admin_delete_user_txn,
                         delete_user_rows, restore_user_rows
<1>2. r.op \in UserOps => u \in Users
  BY RequestType DEF IInv
<1>3. users \in [Users -> UserRows]
  BY DEF IInv, TypeOK
<1>4. \A by : by \in {"USER"} \cup AdminMarks /\ users' = soft_delete_user(u, by) => UsersStick
  BY <1>3 DEF soft_delete_user, UsersStick, AdminMarks, UserRows, IsLive
<1>5. ASSUME NEW by \in {"USER"} \cup AdminMarks, delete_user_rows(u, by)
      PROVE  Stick
  <2>1. FilesStick
    BY <1>5, MarkedFilesStick DEF delete_user_rows
  <2> QED
    BY <1>1, <1>4, <1>5, <2>1 DEF delete_user_rows, Stick
<1>6. CASE withdraw_txn(w)
  BY <1>5, <1>6 DEF withdraw_txn
<1>7. CASE restore_user_txn(w)
  <2>1. r.op = "restore_user" /\ users[u].mark = "USER" /\ u \in Users
    BY <1>2, <1>7 DEF restore_user_txn, Commit, ChecksHold, UserOps
  <2>2. \A f \in restore_all_user_files(u, CascadeRestoreDays) : ~DeletedByAdmin(f)
    BY <2>1 DEF restore_all_user_files, UserFiles, DeletedByAdmin, AdminMarks
  <2>3. FilesStick
    BY <1>7, <2>2, MarkedFilesStick DEF restore_user_txn, restore_user_rows
  <2>4. UsersStick
    BY <1>3, <1>7, <2>1
       DEF restore_user_txn, restore_user_rows, restore_user_data, UsersStick, AdminMarks,
           UserRows
  <2> QED
    BY <1>1, <2>3, <2>4 DEF Stick
<1>8. CASE ban_txn(w)
  <2>1. UsersStick
    BY <1>4, <1>8 DEF ban_txn, AdminMarks
  <2> QED
    BY <1>1, <1>8, <2>1 DEF ban_txn, Stick, FilesStick, DeletedByAdmin, AdminMarks
<1>9. CASE admin_delete_user_txn(w)
  <2>1. r.op = "admin_delete_user" /\ r.arg \in DeleteOptions
    BY <1>9, RequestType DEF admin_delete_user_txn, Commit, IInv, UserOps, ArgsOf
  <2>2. CASE r.arg = "ADMIN_IMMEDIATE"
    <3>1. FilesStick
      BY <1>9, <2>2, MarkedFilesStick DEF admin_delete_user_txn
    <3>2. UsersStick
      BY <1>3, <1>9, <2>2 DEF admin_delete_user_txn, hard_delete_user, UsersStick,
                              AdminMarks
    <3> QED
      BY <1>1, <3>1, <3>2 DEF Stick
  <2>3. CASE r.arg # "ADMIN_IMMEDIATE"
    BY <1>5, <1>9, <2>1, <2>3 DEF admin_delete_user_txn, DeleteOptions, AdminMarks
  <2> QED
    BY <2>2, <2>3
<1> QED
  BY <1>6, <1>7, <1>8, <1>9

LEMMA AdminCommits ==
    ASSUME IInv, NEW w \in Workers,
           \/ admin_restore_user_txn(w) \/ admin_restore_board_txn(w)
           \/ admin_restore_file_txn(w) \/ admin_restore_all_files_txn(w)
    PROVE  AdminRestoring
<1>1. pending[w].op \in AdminRestores /\ pending'[w] = Idle
  BY DEF admin_restore_user_txn, admin_restore_board_txn, admin_restore_file_txn,
         restore_one_file_txn, admin_restore_all_files_txn, Commit, AdminRestores, IInv,
         TypeOK
<1> QED
  BY <1>1 DEF AdminRestoring

LEMMA StepSticks == OInv /\ [Next]_vars => [DeletionsStick]_vars
<1> SUFFICES ASSUME OInv, Next
             PROVE  AdminRestoring \/ Stick
  BY DEF DeletionsStick, Stick, FilesStick, BoardsStick, UsersStick
<1> USE DEF OInv
<1>1. ASSUME NEW w \in Workers, Txn(w)
      PROVE  AdminRestoring \/ Stick
  BY <1>1, AdminCommits, FileTxnsStick, BoardFilesTxnsStick, BoardTxnsStick, UserTxnsStick
     DEF Txn
<1>2. ASSUME \A f \in Files : files'[f].mark \in {files[f].mark, "PURGED"},
             \A b \in Boards : boards'[b].mark \in {boards[b].mark, "PURGED"},
             \A u \in Users : users'[u].mark = users[u].mark
      PROVE  Stick
  BY <1>2 DEF Stick, FilesStick, BoardsStick, UsersStick, DeletedByAdmin, AdminMarks
<1>3. ASSUME NEW w \in Workers, Check(w) \/ abort(w)
      PROVE  Stick
  <2>1. users' = users /\ boards' = boards /\ files' = files
    BY <1>3 DEF abort, Check, UserCheck, BoardCheck, FileCheck, Begin, rows,
                withdraw, restore_user, ban, admin_delete_user, admin_restore_user,
                create_board, delete_board, restore_board, delete_all,
                restore_all_file, admin_delete_board, admin_restore_board,
                admin_delete_all_board_files, admin_restore_all_files,
                upload_files, delete_file, restore_file, admin_delete_one_file,
                admin_restore_file
  <2> QED
    BY <1>2, <2>1
<1>4. CASE Scheduler
  BY <1>2, <1>4, SchedulerRemoves DEF Removes
<1>5. CASE Tick
  BY <1>2, <1>5 DEF Tick, Older, IInv, TypeOK, UserRows, BoardRows, FileRows
<1> QED
  BY <1>1, <1>3, <1>4, <1>5 DEF Next

\* As long as requests do not overlap, a board that shows live files shows their
\* exact size in total_file_size.  (The hypothesis is about the program: two of its
\* transactions that overlap are not the single steps that they are here.)
THEOREM TotalsStayAccurate ==
    ASSUME OneAtATime
    PROVE  Spec => []TotalAccurate
<1>1. IInv => TotalAccurate
  BY DEF IInv
<1> QED
  BY <1>1, Inductive, PTL

\* As long as requests do not overlap, whatever sequence of deletions and
\* restorations of files, boards and accounts a user goes through, what an
\* administrator deleted comes back only by an administrator.
THEOREM AdminDeletionsStick ==
    ASSUME OneAtATime
    PROVE  Spec => AdminDeletionSticks
BY StepSticks, OInductive, PTL DEF Spec, AdminDeletionSticks
-----------------------------------------------------------------------------
(* The quota *)

InLoad(f) ==
    \/ IsLive(files[f])
    \/ /\ files[f].mark \in {"BOARD_CASCADE", "USER_CASCADE"}
       /\ files[f].age <= AdminRestoreDays

NoMoreLoad == \A b \in Boards : Load(b)' <= Load(b) \/ Load(b)' <= FileTotalMaxSize

LEMMA LessIsNoMore ==
    ASSUME \A b \in Boards : LoadOf(b)' \subseteq LoadOf(b)
    PROVE  NoMoreLoad
<1> SUFFICES ASSUME NEW b \in Boards
             PROVE  Load(b)' <= Load(b)
  BY DEF NoMoreLoad
<1>1. LoadOf(b)' \subseteq LoadOf(b)
  OBVIOUS
<1> QED
  BY <1>1, LoadsTyped, SumMonotone DEF Load

\* Cascades and returns from them move files within the load.
LEMMA LoadStays ==
    ASSUME NEW S, NEW mark, files' = MarkFiles(S, mark),
           mark \in {"LIVE", "BOARD_CASCADE", "USER_CASCADE"}
              => \A f \in Files \cap S : InLoad(f)
    PROVE  NoMoreLoad
<1>1. \A b \in Boards : LoadOf(b)' \subseteq LoadOf(b)
  BY DEF LoadOf, FilesOf, MarkFiles, InLoad, IsLive
<1> QED
  BY <1>1, LessIsNoMore

LEMMA FilesSame ==
    ASSUME files' = files
    PROVE  NoMoreLoad
<1>1. \A b \in Boards : LoadOf(b)' \subseteq LoadOf(b)
  BY DEF LoadOf, IsLive
<1> QED
  BY <1>1, LessIsNoMore

\* A file that is brought to life fits.
LEMMA FileFits ==
    ASSUME NEW f \in Files, Load(BoardOf[f]) + Size[f] <= FileTotalMaxSize,
           NEW S \in SUBSET {f}, files' = MarkFiles(S, "LIVE")
    PROVE  NoMoreLoad
<1> SUFFICES ASSUME NEW b \in Boards
             PROVE  Load(b)' <= Load(b) \/ Load(b)' <= FileTotalMaxSize
  BY DEF NoMoreLoad
<1> DEFINE L == LoadOf(b)
           N == LoadOf(b)'
<1>1. L \in SUBSET Files /\ N \in SUBSET Files /\ {f} \in SUBSET Files
  BY LoadsTyped
<1>2. CASE BoardOf[f] # b
  <2>1. N \subseteq L
    BY <1>2 DEF LoadOf, FilesOf, MarkFiles, IsLive
  <2> HIDE DEF L, N
  <2>2. SumSize(N) <= SumSize(L)
    BY <1>1, <2>1, SumMonotone
  <2> QED
    BY <2>2 DEF Load, L, N
<1>3. CASE BoardOf[f] = b
  <2>1. N \subseteq L \cup {f}
    BY <1>3 DEF LoadOf, FilesOf, MarkFiles, IsLive
  <2>2. SumSize(L) + Size[f] <= FileTotalMaxSize
    BY <1>3 DEF Load
  <2> HIDE DEF L, N
  <2>3. SumSize(N) <= SumSize(L \cup {f})
    BY <1>1, <2>1, SumMonotone
  <2>4. SumSize(L \cup {f}) <= SumSize(L) + SumSize({f})
    BY <1>1, SumOfBoth
  <2>5. SumSize({f}) = Size[f]
    <3>1. SumSize({f}) = Size[f] + SumSize({f} \ {f})
      BY <1>1, SumOfOneMore
    <3>2. {f} \ {f} = {} /\ Size[f] \in Nat
      BY SizesAre
    <3> QED
      BY <3>1, <3>2, SumOfNone
  <2>6. /\ SumSize(N) \in Nat /\ SumSize(L) \in Nat /\ SumSize(L \cup {f}) \in Nat
        /\ Size[f] \in Nat /\ FileTotalMaxSize \in Nat
    BY <1>1, SumType, SizesAre, LoadsTyped
  <2>7. SumSize(N) <= FileTotalMaxSize
    BY <2>2, <2>3, <2>4, <2>5, <2>6
  <2> QED
    BY <2>7 DEF Load, N
<1> QED
  BY <1>2, <1>3

LEMMA WindowsInts ==
    /\ CascadeRestoreDays \in Int /\ AdminRestoreDays \in Int
    /\ CascadeRestoreDays <= AdminRestoreDays
BY WindowsAssumption DEF WindowsAssumption

LEMMA FileTxnsFit ==
    ASSUME OInv, NEW w \in Workers,
           \/ upload_files_txn(w) \/ delete_file_txn(w) \/ restore_file_txn(w)
           \/ admin_delete_one_file_txn(w)
    PROVE  NoMoreLoad
<1> DEFINE r == pending[w]
           f == r.on
           S == {g \in {f} : IsRow(files[g])}
<1> USE DEF OInv
<1>1. CASE upload_files_txn(w) \/ restore_file_txn(w)
  <2>1. r.op \in {"upload_files", "restore_file"}
    BY <1>1 DEF upload_files_txn, restore_file_txn, restore_one_file_txn, Commit
  <2>2. f \in Files /\ Load(BoardOf[f]) + Size[f] <= FileTotalMaxSize
    BY <2>1, RequestType DEF IInv, FileOps, ChecksHold
  <2>3. files' = files \/ \E T \in SUBSET {f} : files' = MarkFiles(T, "LIVE")
    BY <1>1 DEF upload_files_txn, restore_file_txn, restore_one_file_txn
  <2> QED
    BY <2>2, <2>3, FilesSame, FileFits
<1>2. CASE delete_file_txn(w)
  BY <1>2, LoadStays DEF delete_file_txn, delete_one_file_txn
<1>3. CASE admin_delete_one_file_txn(w)
  <2>1. /\ files' = MarkFiles(S, mark_written(r.arg))
        /\ r.op = "admin_delete_one_file"
    BY <1>3 DEF admin_delete_one_file_txn, delete_one_file_txn, Commit
  <2>2. r.arg \in FileDeleteOptions
    BY <2>1, RequestType DEF IInv, FileOps, ArgsOf
  <2>3. mark_written(r.arg) \notin {"LIVE", "BOARD_CASCADE", "USER_CASCADE"}
    BY <2>2 DEF mark_written, FileDeleteOptions
  <2> QED
    BY <2>1, <2>3, LoadStays
<1> QED
  BY <1>1, <1>2, <1>3

LEMMA BoardTxnsFit ==
    ASSUME OInv, NEW w \in Workers,
           \/ delete_all_txn(w) \/ admin_delete_all_board_files_txn(w)
           \/ create_board_txn(w) \/ delete_board_txn(w) \/ restore_board_txn(w)
           \/ admin_delete_board_txn(w) \/ admin_restore_board_txn(w)
    PROVE  NoMoreLoad
<1> DEFINE b == pending[w].on
<1>1. \A f \in LiveFiles(files, b) : InLoad(f)
  BY DEF LiveFiles, InLoad
<1>2. \A f \in Files : files[f].age \in Int
  BY DEF OInv, IInv, TypeOK, FileRows, Ages
<1>3. \A f \in restore_cascade_board_files(b, CascadeRestoreDays)
              \cup restore_cascade_board_files(b, AdminRestoreDays) : InLoad(f)
  BY <1>2, WindowsInts DEF restore_cascade_board_files, FilesOf, InLoad
<1>4. CASE delete_all_txn(w) \/ admin_delete_all_board_files_txn(w)
  BY <1>4, LoadStays DEF delete_all_txn, admin_delete_all_board_files_txn
<1>5. CASE create_board_txn(w)
  BY <1>5, FilesSame DEF create_board_txn
<1>6. CASE delete_board_txn(w) \/ admin_delete_board_txn(w)
  BY <1>1, <1>6, LoadStays DEF delete_board_txn, admin_delete_board_txn
<1>7. CASE restore_board_txn(w) \/ admin_restore_board_txn(w)
  BY <1>3, <1>7, LoadStays DEF restore_board_txn, admin_restore_board_txn
<1> QED
  BY <1>4, <1>5, <1>6, <1>7

LEMMA UserTxnsFit ==
    ASSUME OInv, NEW w \in Workers,
           \/ withdraw_txn(w) \/ restore_user_txn(w) \/ ban_txn(w)
           \/ admin_delete_user_txn(w) \/ admin_restore_user_txn(w)
    PROVE  NoMoreLoad
<1> DEFINE u == pending[w].on
<1>1. \A f \in {g \in UserFiles(u) : IsLive(files[g])} : InLoad(f)
  BY DEF InLoad
<1>2. \A f \in Files : files[f].age \in Int
  BY DEF OInv, IInv, TypeOK, FileRows, Ages
<1>3. \A f \in restore_all_user_files(u, CascadeRestoreDays)
              \cup restore_all_user_files(u, AdminRestoreDays) : InLoad(f)
  BY <1>2, WindowsInts DEF restore_all_user_files, UserFiles, InLoad
<1>4. CASE withdraw_txn(w) \/ admin_delete_user_txn(w)
  BY <1>1, <1>4, LoadStays DEF withdraw_txn, admin_delete_user_txn, delete_user_rows
<1>5. CASE restore_user_txn(w) \/ admin_restore_user_txn(w)
  BY <1>3, <1>5, LoadStays DEF restore_user_txn, admin_restore_user_txn, restore_user_rows
<1>6. CASE ban_txn(w)
  BY <1>6, FilesSame DEF ban_txn
<1> QED
  BY <1>4, <1>5, <1>6

LEMMA RestoredFilesFit ==
    ASSUME OInv, NEW w \in Workers, admin_restore_all_files_txn(w)
    PROVE  NoMoreLoad
<1> DEFINE c == pending[w].on
<1> SUFFICES ASSUME NEW b \in Boards
             PROVE  Load(b)' <= Load(b) \/ Load(b)' <= FileTotalMaxSize
  BY DEF NoMoreLoad
<1> DEFINE L == LoadOf(b)
           N == LoadOf(b)'
<1>1. L \in SUBSET Files /\ N \in SUBSET Files /\ Restored(c) \in SUBSET Files
  BY LoadsTyped
<1>2. files' = MarkFiles(admin_restorable(c), "LIVE")
      /\ SumSize(Restored(c)) <= FileTotalMaxSize
  BY DEF admin_restore_all_files_txn, Commit, OInv, ChecksHold
<1>3. CASE b # c
  <2>1. N \subseteq L
    BY <1>2, <1>3 DEF LoadOf, FilesOf, MarkFiles, IsLive, admin_restorable
  <2> HIDE DEF L, N
  <2>2. SumSize(N) <= SumSize(L)
    BY <1>1, <2>1, SumMonotone
  <2> QED
    BY <2>2 DEF Load, L, N
<1>4. CASE b = c
  <2>1. N \subseteq Restored(b)
    BY <1>2, <1>4 DEF LoadOf, FilesOf, MarkFiles, IsLive, IsDeleted, IsRow,
                      admin_restorable, Restored, LiveFiles
  <2> DEFINE R == Restored(b)
  <2>2. SumSize(R) <= FileTotalMaxSize /\ R \in SUBSET Files
    BY <1>1, <1>2, <1>4
  <2> HIDE DEF N, R
  <2>3. SumSize(N) <= SumSize(R)
    BY <1>1, <2>1, <2>2, SumMonotone DEF R
  <2>4. SumSize(N) \in Nat /\ SumSize(R) \in Nat /\ FileTotalMaxSize \in Nat
    BY <1>1, <2>2, SumType, LoadsTyped
  <2>5. SumSize(N) <= FileTotalMaxSize
    BY <2>2, <2>3, <2>4
  <2> QED
    BY <2>5 DEF Load, N
<1> QED
  BY <1>3, <1>4

LEMMA StepWithinQuota == OInv /\ [Next]_vars => [LoadsWithinQuota]_vars
<1> SUFFICES ASSUME OInv, Next
             PROVE  LoadsWithinQuota
  OBVIOUS
<1>1. NoMoreLoad => LoadsWithinQuota
  <2> SUFFICES ASSUME NoMoreLoad, NEW b \in Boards, Load(b)' > FileTotalMaxSize,
                      Load(b)' > Load(b)
               PROVE  FALSE
    BY DEF LoadsWithinQuota
  <2>1. Load(b)' \in Nat /\ Load(b) \in Nat /\ FileTotalMaxSize \in Nat
    BY LoadsTyped
  <2>2. Load(b)' <= Load(b) \/ Load(b)' <= FileTotalMaxSize
    BY DEF NoMoreLoad
  <2> QED
    BY <2>1, <2>2
<1>2. ASSUME NEW w \in Workers, restore_all_file_txn(w) \/ admin_restore_file_txn(w)
      PROVE  LoadsWithinQuota
  <2>1. /\ pending[w].op \in {"restore_all_file", "admin_restore_file"}
        /\ pending'[w] = Idle
    BY <1>2 DEF restore_all_file_txn, admin_restore_file_txn, restore_one_file_txn, Commit,
                OInv, IInv, TypeOK
  <2> QED
    BY <2>1 DEF LoadsWithinQuota
<1>3. ASSUME NEW w \in Workers, Txn(w)
      PROVE  LoadsWithinQuota
  BY <1>1, <1>2, <1>3, FileTxnsFit, BoardTxnsFit, UserTxnsFit, RestoredFilesFit DEF Txn
<1>4. ASSUME NEW w \in Workers, Check(w) \/ abort(w)
      PROVE  NoMoreLoad
  <2>1. files' = files
    BY <1>4 DEF abort, Check, UserCheck, BoardCheck, FileCheck, Begin, rows,
                withdraw, restore_user, ban, admin_delete_user, admin_restore_user,
                create_board, delete_board, restore_board, delete_all,
                restore_all_file, admin_delete_board, admin_restore_board,
                admin_delete_all_board_files, admin_restore_all_files,
                upload_files, delete_file, restore_file, admin_delete_one_file,
                admin_restore_file
  <2> QED
    BY <2>1, FilesSame
<1>5. CASE Scheduler
  <2>1. \A f \in Files : files'[f] = files[f] \/ files'[f].mark = "PURGED"
    BY <1>5, SchedulerRemoves DEF OInv, Removes
  <2>2. NoMoreLoad
    BY <2>1, LessLoad DEF NoMoreLoad
  <2> QED
    BY <1>1, <2>2
<1>6. CASE Tick
  <2>1. \A f \in Files : /\ files'[f].mark = files[f].mark
                         /\ files[f].mark \in {"BOARD_CASCADE", "USER_CASCADE"}
                              => files'[f].age >= files[f].age
    BY <1>6, AgeZero DEF Tick, Older, OInv, IInv, TypeOK, FileRows, Ages
  <2>2. \A f \in Files : files'[f].age \in Int /\ files[f].age \in Int
    BY <1>6, StepInductive DEF OInv, IInv, TypeOK, FileRows, Ages, Next
  <2>3. \A b \in Boards : LoadOf(b)' \subseteq LoadOf(b)
    BY <2>1, <2>2, WindowsInts DEF LoadOf, FilesOf, IsLive
  <2> QED
    BY <1>1, <2>3, LessIsNoMore
<1> QED
  BY <1>1, <1>3, <1>4, <1>5, <1>6 DEF Next

\* As long as requests do not overlap, no board grows beyond the quota but by the
\* two operations that do not look at what they bring back: for any sizes, since
\* sums of sizes add up, and grow with the files they are of.
THEOREM QuotaIsKept ==
    ASSUME OneAtATime
    PROVE  Spec => QuotaKept
BY StepWithinQuota, OInductive, PTL DEF Spec, QuotaKept
=============================================================================
