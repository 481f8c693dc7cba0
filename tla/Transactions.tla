---------------------------- MODULE Transactions ----------------------------
(***************************************************************************)
(* The transactions on the files of one board, statement by statement, as  *)
(* PostgreSQL runs them under READ COMMITTED: a statement sees the rows    *)
(* committed before it and its own; an UPDATE locks each row it writes     *)
(* until the transaction ends, waits for rows others have locked, and then *)
(* looks at them again.  ContentLifecycle takes these transactions as one  *)
(* step each; here is what can happen inside.                              *)
(*                                                                         *)
(* A file row is NONE before its INSERT, LIVE, or marked with deleted_by.  *)
(* The ages of deletions, the quota and the other boards are left out.     *)
(***************************************************************************)
EXTENDS Integers, Sequences, FiniteSets, Functions, SequencesExt

CONSTANTS Files, Size, Workers, NoOne

FileStates == {"NONE", "LIVE", "USER", "BOARD_CASCADE"}
\* A total is the size of some files.
Totals == {SumFunctionOnSet(Size, S) : S \in SUBSET Files}
BoardRow == [live : BOOLEAN, total : Totals]

ASSUME RowsAssumption ==
    /\ IsFiniteSet(Files) /\ Size \in [Files -> Nat]
    /\ "board" \notin Files
    /\ NoOne \notin Workers /\ NoOne \notin FileStates /\ NoOne \notin BoardRow

VARIABLES
    file,      \* the committed rows of files
    board,     \* the committed row of boards: [live, total]
    lock,      \* who has locked each row
    draft,     \* what the one who locked a row has written in it
    pending,   \* the request of each worker and its next statement
    met        \* history: whether another transaction ran during this one

vars == <<file, board, lock, draft, pending, met>>

Board == "board"
Rows == Files \cup {Board}
Idle == [op |-> "idle"]

OneFileOps == {"upload_files", "delete_file", "restore_file"}

ManyFilesOps == {"restore_all", "delete_all", "delete_board", "restore_board"}

ManyFilesStatements ==
    [restore_all   |-> <<"begin", "scan", "write", "sum", "total", "commit">>,
     delete_all    |-> <<"begin", "scan", "write", "total", "commit">>,
     delete_board  |-> <<"begin", "live", "scan", "write", "commit">>,
     restore_board |-> <<"begin", "live", "scan", "write", "sum", "total", "commit">>]

\* Mutant: the total is summed before the file is written.
StatementsSumFirst(op) ==
    IF op \in OneFileOps THEN <<"begin", "sum", "write", "total", "commit">>
                         ELSE ManyFilesStatements[op]

\* Mutant: a deletion locks the board before its file.
StatementsBoardFirst(op) ==
    IF op = "delete_file" THEN <<"begin", "total", "write", "sum", "total", "commit">>
    ELSE IF op \in OneFileOps THEN <<"begin", "write", "sum", "total", "commit">>
    ELSE ManyFilesStatements[op]

\* What each service sends, in its order: write is the INSERT or the UPDATE of
\* files, live the UPDATE of boards.deleted_at, total that of total_file_size.
Statements(op) ==
    IF op \in OneFileOps THEN <<"begin", "write", "sum", "total", "commit">>
                         ELSE ManyFilesStatements[op]

\* The states a file is in for the operation's WHERE, and the one it is given.
Where(op) ==
    IF op \in OneFileOps THEN FileStates
    ELSE [restore_all |-> {"USER"}, delete_all |-> {"LIVE"},
          delete_board |-> {"LIVE"}, restore_board |-> {"BOARD_CASCADE"}][op]

Gives(op) ==
    IF op \in {"delete_file", "delete_all"} THEN "USER"
    ELSE IF op = "delete_board" THEN "BOARD_CASCADE" ELSE "LIVE"

At(t, statement) ==
    pending[t] # Idle /\ Statements(pending[t].op)[pending[t].next] = statement
Running(t) == pending[t] # Idle /\ pending[t].next > 1

\* A transaction sees what it has written itself.
FileSeen(t, f) == IF lock[f] = t THEN draft[f] ELSE file[f]
BoardSeen(t) == IF lock[Board] = t THEN draft[Board] ELSE board
get_total_fsize(t) == SumFunctionOnSet(Size, {f \in Files : FileSeen(t, f) = "LIVE"})

Free(t, row) == lock[row] \in {t, NoOne}

Write(t, row, value) ==
    /\ lock' = [lock EXCEPT ![row] = t]
    /\ draft' = [draft EXCEPT ![row] = value]

Goes(t) == pending' = [pending EXCEPT ![t].next = @ + 1]
-----------------------------------------------------------------------------
(* Requests: what each service checks before its transaction *)

Request(t, op, rows) ==
    /\ pending[t] = Idle
    /\ pending' = [pending EXCEPT ![t] =
           [op |-> op, next |-> 1, rows |-> rows, sum |-> 0]]
    /\ UNCHANGED <<file, board, lock, draft, met>>

\* A serial index that no other upload has drawn.
upload_files(t, f) ==
    /\ board.live /\ file[f] = "NONE"
    /\ \A u \in Workers : pending[u] # Idle => pending[u].rows # <<f>> /\ lock[f] = NoOne
    /\ Request(t, "upload_files", <<f>>)

delete_file(t, f) ==
    /\ board.live /\ file[f] = "LIVE"
    /\ Request(t, "delete_file", <<f>>)

restore_file(t, f) ==
    /\ board.live /\ file[f] = "USER"
    /\ Request(t, "restore_file", <<f>>)

delete_all(t) ==
    /\ board.live /\ \E f \in Files : file[f] = "LIVE"
    /\ Request(t, "delete_all", <<>>)

restore_all_file(t) ==
    /\ board.live /\ \E f \in Files : file[f] = "USER"
    /\ Request(t, "restore_all", <<>>)

delete_board(t) == board.live /\ Request(t, "delete_board", <<>>)
restore_board(t) == ~board.live /\ Request(t, "restore_board", <<>>)
-----------------------------------------------------------------------------
(* Statements *)

begin(t) ==
    /\ At(t, "begin") /\ Goes(t)
    /\ LET others == {u \in Workers \ {t} : Running(u)} IN
       met' = [u \in Workers |-> IF u = t THEN others # {}
                                 ELSE IF u \in others THEN TRUE ELSE met[u]]
    /\ UNCHANGED <<file, board, lock, draft>>

\* The rows the UPDATE finds, in the order it happens to find them.
scan(t) ==
    LET found == {f \in Files : FileSeen(t, f) \in Where(pending[t].op)} IN
    /\ At(t, "scan")
    /\ \E rows \in SetToSeqs(found) :
           pending' = [pending EXCEPT ![t].next = @ + 1, ![t].rows = rows]
    /\ UNCHANGED <<file, board, lock, draft, met>>

\* Mutant: the rows that were found are updated by their index alone.
write_by_index(t) ==
    /\ At(t, "write") /\ pending[t].rows # <<>>
    /\ LET f == Head(pending[t].rows)
       IN  Free(t, f) /\ Write(t, f, Gives(pending[t].op))
    /\ pending' = [pending EXCEPT ![t].rows = Tail(@)]
    /\ UNCHANGED <<file, board, met>>

\* One row of the statement, once it is free; WHERE is asked again of it.
write(t) ==
    LET r == pending[t]
        f == Head(r.rows)
    IN
    /\ At(t, "write") /\ r.rows # <<>>
    /\ Free(t, f)
    /\ IF FileSeen(t, f) \in Where(r.op) THEN Write(t, f, Gives(r.op))
                                         ELSE UNCHANGED <<lock, draft>>
    /\ pending' = [pending EXCEPT ![t].rows = Tail(@)]
    /\ UNCHANGED <<file, board, met>>

written(t) ==
    /\ At(t, "write") /\ pending[t].rows = <<>>
    /\ Goes(t)
    /\ UNCHANGED <<file, board, lock, draft, met>>

sum(t) ==
    /\ At(t, "sum")
    /\ pending' = [pending EXCEPT ![t].next = @ + 1, ![t].sum = get_total_fsize(t)]
    /\ UNCHANGED <<file, board, lock, draft, met>>

update_total_board_fsize(t) ==
    /\ At(t, "total") /\ Free(t, Board) /\ Goes(t)
    /\ Write(t, Board, [BoardSeen(t) EXCEPT !.total = pending[t].sum])
    /\ UNCHANGED <<file, board, met>>

set_live(t) ==
    /\ At(t, "live") /\ Free(t, Board) /\ Goes(t)
    /\ Write(t, Board, [BoardSeen(t) EXCEPT !.live = pending[t].op = "restore_board"])
    /\ UNCHANGED <<file, board, met>>

\* Mutant: the transaction is left open.
ReleaseNothing(t) ==
    /\ pending' = [pending EXCEPT ![t] = Idle]
    /\ met' = [met EXCEPT ![t] = FALSE]
    /\ UNCHANGED <<lock, draft>>

Release(t) ==
    /\ pending' = [pending EXCEPT ![t] = Idle]
    /\ met' = [met EXCEPT ![t] = FALSE]
    /\ lock' = [row \in Rows |-> IF lock[row] = t THEN NoOne ELSE lock[row]]
    /\ draft' = [row \in Rows |-> IF lock[row] = t THEN NoOne ELSE draft[row]]

commit(t) ==
    /\ At(t, "commit") /\ Release(t)
    /\ file' = [f \in Files |-> FileSeen(t, f)]
    /\ board' = BoardSeen(t)

\* A lost connection, or a request that is cancelled.
rollback(t) ==
    /\ pending[t] # Idle /\ Release(t)
    /\ UNCHANGED <<file, board>>
-----------------------------------------------------------------------------
(* Waiting *)

\* The row a transaction is to lock next.
Wanted(t) ==
    IF At(t, "write") /\ pending[t].rows # <<>> THEN {Head(pending[t].rows)}
    ELSE IF At(t, "total") \/ At(t, "live") THEN {Board} ELSE {}

WaitsFor(t) == {lock[row] : row \in Wanted(t)} \ {t, NoOne}

\* Each waits for another of them.
Deadlocked(S) == S # {} /\ \A t \in S : WaitsFor(t) \cap S # {}

\* Mutant: nobody looks.
deadlock_ignored(t) == FALSE /\ rollback(t)

\* After deadlock_timeout PostgreSQL fails one of them.
deadlock_detected(t) ==
    /\ \E S \in SUBSET Workers : t \in S /\ Deadlocked(S)
    /\ rollback(t)
-----------------------------------------------------------------------------
Init ==
    /\ file = [f \in Files |-> "NONE"]
    /\ board = [live |-> TRUE, total |-> 0]
    /\ lock = [row \in Rows |-> NoOne]
    /\ draft = [row \in Rows |-> NoOne]
    /\ pending = [t \in Workers |-> Idle]
    /\ met = [t \in Workers |-> FALSE]

Requests(t) ==
    \/ \E f \in Files : upload_files(t, f) \/ delete_file(t, f) \/ restore_file(t, f)
    \/ delete_all(t) \/ restore_all_file(t)
    \/ delete_board(t) \/ restore_board(t)

Statement(t) ==
    \/ begin(t)
    \/ scan(t)
    \/ write(t)
    \/ written(t)
    \/ sum(t)
    \/ update_total_board_fsize(t)
    \/ set_live(t)
    \/ commit(t)

Next == \E t \in Workers :
            Requests(t) \/ Statement(t) \/ deadlock_detected(t) \/ rollback(t)

\* A statement that can run does; PostgreSQL queues who waits for a row, so that
\* nobody is overtaken for ever; and it looks for deadlocks.
Fairness == \A t \in Workers : SF_vars(Statement(t)) /\ SF_vars(deadlock_detected(t))

Spec == Init /\ [][Next]_vars /\ Fairness
-----------------------------------------------------------------------------
Sent == [op : OneFileOps \cup ManyFilesOps, next : 1..7, rows : Seq(Files), sum : Totals]

\* The rows, locks and requests are of the kinds declared above; a row has a draft
\* while, and only while, it is locked by a transaction.
TypeOK ==
    /\ file \in [Files -> FileStates] /\ board \in BoardRow
    /\ lock \in [Rows -> Workers \cup {NoOne}]
    /\ \A f \in Files : draft[f] \in FileStates \cup {NoOne}
    /\ DOMAIN draft = Rows /\ draft[Board] \in BoardRow \cup {NoOne}
    /\ \A row \in Rows : (draft[row] = NoOne <=> lock[row] = NoOne)
                         /\ (lock[row] # NoOne => Running(lock[row]))
    /\ pending \in [Workers -> Sent \cup {Idle}]
    /\ \A t \in Workers : pending[t] # Idle
          => pending[t].next <= Len(Statements(pending[t].op))
    /\ met \in [Workers -> BOOLEAN]

\* A transaction that no other meets commits the size of the live files as the
\* total, whatever the total was before: only transactions that overlap make the
\* two differ, and the next one alone repairs it.
AloneBalances ==
    \A t \in Workers :
        At(t, "commit") /\ ~met[t] /\ pending[t].op # "delete_board"
            => BoardSeen(t).total = get_total_fsize(t)

\* Uploads, deletions and restorations of single files, which write the file
\* before its board, do not deadlock among themselves.
OneFileNoDeadlock ==
    \A S \in SUBSET Workers :
        Deadlocked(S) => \E t \in S : pending[t].op \notin OneFileOps

\* What the operation of t does to the rows as they are when it commits.
AsOneStep(t) ==
    LET op == pending[t].op
        taken == {f \in Files : file'[f] # file[f]}
    IN
    /\ \A f \in taken : file[f] \in Where(op) /\ file'[f] = Gives(op)
    /\ op \in OneFileOps => \A f, g \in taken : f = g
    /\ op \in ManyFilesOps /\ ~met[t] => {f \in Files : file[f] \in Where(op)} \subseteq taken
    /\ board'.live = IF op = "delete_board" THEN FALSE
                     ELSE IF op = "restore_board" THEN TRUE ELSE board.live

\* Statement by statement, each with rows that others wrote before it or are still
\* writing, a transaction comes to one step on the rows it leaves: it takes only
\* rows that still ask for it, every one of them if it met nobody, and it undoes
\* no deletion or restoration of the board that was committed under it.
CommitsAreSteps == [][\A t \in Workers : commit(t) => AsOneStep(t)]_vars

\* Every request ends, with its effects or without.
RequestsEnd == \A t \in Workers : pending[t] # Idle ~> pending[t] = Idle
=============================================================================
