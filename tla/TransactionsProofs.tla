------------------------- MODULE TransactionsProofs -------------------------
(***************************************************************************)
(* Proofs about Transactions, for any files of any sizes and any number of *)
(* transactions at once.                                                   *)
(***************************************************************************)
EXTENDS Transactions, FiniteSetTheorems, TLAPS

AllOps == OneFileOps \cup ManyFilesOps

-----------------------------------------------------------------------------
(* The statements of each operation *)

LEMMA StatementsAre ==
    /\ \A op \in OneFileOps :
          Statements(op) = <<"begin", "write", "sum", "total", "commit">>
    /\ Statements("restore_all")
          = <<"begin", "scan", "write", "sum", "total", "commit">>
    /\ Statements("delete_all") = <<"begin", "scan", "write", "total", "commit">>
    /\ Statements("delete_board") = <<"begin", "live", "scan", "write", "commit">>
    /\ Statements("restore_board")
          = <<"begin", "live", "scan", "write", "sum", "total", "commit">>
BY DEF Statements, ManyFilesStatements, OneFileOps

\* What comes after a statement.
Follow(op) ==
    LET S == Statements(op) IN
    \A n \in 1..Len(S) :
        /\ S[n] \in {"begin", "live", "scan", "write", "sum", "total", "commit"}
        /\ S[n] = "begin" <=> n = 1
        /\ S[n] = "commit" <=> n = Len(S)
        /\ S[n] \in {"begin", "live", "scan"}
              => S[n + 1] \in {"live", "scan", "write"}
        /\ S[n] = "write" => S[n + 1] \in {"sum", "total", "commit"}
        /\ S[n] = "sum" => S[n + 1] = "total"
        /\ S[n] = "total" => S[n + 1] = "commit"
        /\ op \in OneFileOps =>
              /\ S[n] \notin {"live", "scan"}
              /\ S[n] = "begin" => S[n + 1] = "write"
        /\ op \notin {"delete_all", "delete_board"} /\ S[n] = "write"
              => S[n + 1] = "sum"
        /\ op = "delete_all" => /\ S[n] \notin {"live", "sum"}
                                /\ S[n] = "write" => S[n + 1] = "total"
                                /\ S[n] = "begin" => S[n + 1] = "scan"
        /\ op = "delete_board" => S[n] \notin {"sum", "total"}

LEMMA StatementsFollow ==
    ASSUME NEW op \in AllOps
    PROVE  Len(Statements(op)) \in 1..7 /\ Follow(op)
<1>1. CASE op \in OneFileOps
  <2>1. Statements(op) = <<"begin", "write", "sum", "total", "commit">>
    BY <1>1, StatementsAre
  <2> QED
    BY <1>1, <2>1 DEF Follow, OneFileOps
<1>2. CASE op = "restore_all"
  <2>1. Statements(op) = <<"begin", "scan", "write", "sum", "total", "commit">>
    BY <1>2, StatementsAre
  <2> QED
    BY <1>2, <2>1 DEF Follow, OneFileOps
<1>3. CASE op = "delete_all"
  <2>1. Statements(op) = <<"begin", "scan", "write", "total", "commit">>
    BY <1>3, StatementsAre
  <2> QED
    BY <1>3, <2>1 DEF Follow, OneFileOps
<1>4. CASE op = "delete_board"
  <2>1. Statements(op) = <<"begin", "live", "scan", "write", "commit">>
    BY <1>4, StatementsAre
  <2> QED
    BY <1>4, <2>1 DEF Follow, OneFileOps
<1>5. CASE op = "restore_board"
  <2>1. Statements(op) = <<"begin", "live", "scan", "write", "sum", "total", "commit">>
    BY <1>5, StatementsAre
  <2>2. \A n \in 1..7 : n = 1 \/ n = 2 \/ n = 3 \/ n = 4 \/ n = 5 \/ n = 6 \/ n = 7
    OBVIOUS
  <2>3. op \notin OneFileOps /\ op \notin {"delete_all", "delete_board"}
    BY <1>5 DEF OneFileOps
  <2>4. Len(Statements(op)) = 7
    BY <2>1
  <2> QED
    BY <2>1, <2>2, <2>3, <2>4 DEF Follow
<1> QED
  BY <1>1, <1>2, <1>3, <1>4, <1>5 DEF AllOps, ManyFilesOps

\* The size of no files.
LEMMA NoFilesNoSize == SumFunctionOnSet(Size, {}) = 0
<1> DEFINE Eqn(g) == g = [s \in SUBSET {} |-> IF s = {} THEN 0 ELSE
                 Size[CHOOSE x \in s : TRUE] + g[s \ {CHOOSE x \in s : TRUE}]]
           iter == CHOOSE g : Eqn(g)
<1>1. Eqn([s \in SUBSET {} |-> 0])
  OBVIOUS
<1>2. Eqn(iter)
  BY <1>1
<1>3. iter[{}] = 0
  BY <1>2
<1>4. SumFunctionOnSet(Size, {}) = iter[{}]
  BY DEF SumFunctionOnSet, FoldFunctionOnSet, MapThenFoldSet
<1> QED
  BY <1>3, <1>4

\* An order of the rows that a scan finds names each of them, and only them.
LEMMA OrdersAreWhole ==
    ASSUME NEW S \in SUBSET Files, NEW rows \in SetToSeqs(S)
    PROVE  /\ rows \in Seq(Files)
           /\ \A f \in S : \E i \in 1..Len(rows) : rows[i] = f
<1> DEFINE n == Cardinality(S)
<1>1. IsFiniteSet(S)
  BY RowsAssumption, FS_Subset DEF RowsAssumption
<1>2. n \in Nat
  BY <1>1, FS_CardinalityType
<1>3. /\ rows \in [1..n -> S]
      /\ \A i, j \in 1..n : i # j => rows[i] # rows[j]
  BY DEF SetToSeqs
<1>4. rows \in Injection(1..n, S)
  BY <1>3 DEF Injection, IsInjective
<1>5. Cardinality(1..n) = n
  BY <1>2, FS_Interval
<1>6. rows \in Surjection(1..n, S)
  BY <1>1, <1>4, <1>5, FS_Injection
<1>7. rows \in Seq(Files) /\ Len(rows) = n
  BY <1>2, <1>3
<1> QED
  BY <1>6, <1>7 DEF Surjection
-----------------------------------------------------------------------------
(* The requests *)

LEMMA Kinds ==
    ASSUME TypeOK, NEW t \in Workers, pending[t] # Idle
    PROVE  /\ pending[t] \in Sent
           /\ pending[t].op \in AllOps
           /\ pending[t].rows \in Seq(Files)
           /\ pending[t].next \in 1..Len(Statements(pending[t].op))
           /\ Len(Statements(pending[t].op)) \in 1..7
           /\ Follow(pending[t].op)
<1>1. pending[t] \in Sent
  BY DEF TypeOK
<1>2. pending[t].op \in AllOps /\ pending[t].next \in 1..7
  BY <1>1 DEF Sent, AllOps
<1>3. pending[t].next <= Len(Statements(pending[t].op))
  BY DEF TypeOK
<1> QED
  BY <1>1, <1>2, <1>3, StatementsFollow DEF Sent

\* What a transaction is at once the statement before is done.
LEMMA GoesOn ==
    ASSUME TypeOK, NEW t \in Workers, NEW s, At(t, s), s # "commit",
           pending'[t] # Idle, pending'[t].op = pending[t].op,
           pending'[t].next = pending[t].next + 1
    PROVE  /\ Running(t)'
           /\ pending'[t].next \in 1..7
           /\ pending'[t].next <= Len(Statements(pending'[t].op))
           /\ s \in {"begin", "live", "scan"}
                 => At(t, "live")' \/ At(t, "scan")' \/ At(t, "write")'
           /\ s = "write" => At(t, "sum")' \/ At(t, "total")' \/ At(t, "commit")'
           /\ s = "sum" => At(t, "total")'
           /\ s = "total" => At(t, "commit")'
           /\ pending[t].op \in OneFileOps =>
                 s \notin {"live", "scan"} /\ (s = "begin" => At(t, "write")')
           /\ pending[t].op \notin {"delete_all", "delete_board"} /\ s = "write"
                 => At(t, "sum")'
           /\ pending[t].op = "delete_all" =>
                 /\ s \notin {"live", "sum"}
                 /\ s = "write" => At(t, "total")'
                 /\ s = "begin" => At(t, "scan")'
           /\ pending[t].op = "delete_board" => s \notin {"sum", "total"}
<1> DEFINE op == pending[t].op
           n == pending[t].next
           S == Statements(op)
<1>1. pending[t] # Idle /\ S[n] = s
  BY DEF At
<1>2. n \in 1..Len(S) /\ Len(S) \in 1..7 /\ Follow(op)
  BY <1>1, Kinds
<1>3. n # Len(S) /\ n + 1 \in 1..Len(S)
  BY <1>1, <1>2 DEF Follow
<1>4. \A s2 : At(t, s2)' <=> S[n + 1] = s2
  BY DEF At
<1>5. Running(t)' /\ pending'[t].next \in 1..7
           /\ pending'[t].next <= Len(Statements(pending'[t].op))
  <2> DEFINE m == Len(S)
  <2>1. n \in 1..m /\ m \in 1..7 /\ n + 1 \in 1..m
    BY <1>2, <1>3
  <2>2. m = Len(Statements(pending'[t].op)) /\ pending'[t].next = n + 1
    OBVIOUS
  <2> HIDE DEF n, m
  <2>3. n + 1 > 1 /\ n + 1 \in 1..7 /\ n + 1 <= m
    BY <2>1
  <2> QED
    BY <2>2, <2>3 DEF Running
<1> QED
  BY <1>1, <1>2, <1>4, <1>5 DEF Follow

LEMMA ManyGoOn ==
    ASSUME TypeOK, NEW t \in Workers, NEW s, At(t, s),
           pending[t].op \in ManyFilesOps, pending'[t] # Idle,
           pending'[t].op = pending[t].op, pending'[t].next = pending[t].next + 1
    PROVE  /\ s = "begin" => At(t, "live")' \/ At(t, "scan")'
           /\ s = "live" => At(t, "scan")'
           /\ s \in {"begin", "live"} /\ At(t, "scan")'
                 => (s = "live" <=> pending[t].op \in {"delete_board", "restore_board"})
           /\ s = "scan" => At(t, "write")'
           /\ pending[t].op = "delete_board" /\ s = "write" => At(t, "commit")'
<1> DEFINE n == pending[t].next
<1>1. /\ Statements(pending[t].op)[n] = s /\ n \in 1..7
      /\ \A s2 : At(t, s2)' <=> Statements(pending[t].op)[n + 1] = s2
  BY Kinds DEF At, Sent
<1>2. n = 1 \/ n = 2 \/ n = 3 \/ n = 4 \/ n = 5 \/ n = 6 \/ n = 7
  BY <1>1
<1>3. n <= Len(Statements(pending[t].op))
  BY Kinds DEF At, TypeOK
<1> HIDE DEF n
<1>4. CASE pending[t].op = "restore_all"
  <2>1. Len(Statements("restore_all")) = 6
    BY StatementsAre
  <2>2. n <= 6
    BY <1>3, <1>4, <2>1
  <2> QED
    BY <1>1, <1>2, <1>4, <2>2, StatementsAre
<1>5. CASE pending[t].op = "delete_all"
  <2>1. Len(Statements("delete_all")) = 5
    BY StatementsAre
  <2>2. n <= 5
    BY <1>3, <1>5, <2>1
  <2> QED
    BY <1>1, <1>2, <1>5, <2>2, StatementsAre
<1>6. CASE pending[t].op = "delete_board"
  <2>1. Len(Statements("delete_board")) = 5
    BY StatementsAre
  <2>2. n <= 5
    BY <1>3, <1>6, <2>1
  <2> QED
    BY <1>1, <1>2, <1>6, <2>2, StatementsAre
<1>7. CASE pending[t].op = "restore_board"
  <2>1. Len(Statements("restore_board")) = 7
    BY StatementsAre
  <2>2. n <= 7
    BY <1>3, <1>7, <2>1
  <2> QED
    BY <1>1, <1>2, <1>7, <2>2, StatementsAre
<1> QED
  BY <1>4, <1>5, <1>6, <1>7 DEF ManyFilesOps

LEMMA AtRunning ==
    ASSUME TypeOK, NEW t \in Workers, NEW s, At(t, s)
    PROVE  Running(t) <=> s # "begin"
<1>1. pending[t] # Idle /\ Statements(pending[t].op)[pending[t].next] = s
  BY DEF At
<1> QED
  BY <1>1, Kinds DEF Running, Follow
-----------------------------------------------------------------------------
(* The types *)

\* What a step may leave a request as.
Legal(v) == v \in Sent \cup {Idle} /\ (v # Idle => v.next <= Len(Statements(v.op)))

LEMMA RequestsTyped ==
    ASSUME TypeOK, NEW t \in Workers, NEW v, Legal(v), pending' = [pending EXCEPT ![t] = v]
    PROVE  /\ pending' \in [Workers -> Sent \cup {Idle}]
           /\ \A u \in Workers : pending'[u] # Idle
                 => pending'[u].next <= Len(Statements(pending'[u].op))
           /\ pending'[t] = v
           /\ \A u \in Workers \ {t} : pending'[u] = pending[u]
BY DEF TypeOK, Legal

LEMMA QuietTyped ==
    ASSUME TypeOK, NEW t \in Workers, NEW v, Legal(v), pending' = [pending EXCEPT ![t] = v],
           Running(t) => v # Idle /\ v.next > 1,
           UNCHANGED <<file, board, lock, draft>>, met' \in [Workers -> BOOLEAN]
    PROVE  TypeOK'
<1>1. \A u \in Workers : Running(u) => Running(u)'
  BY RequestsTyped DEF Running
<1> QED
  BY <1>1, RequestsTyped DEF TypeOK

LEMMA WriteTyped ==
    ASSUME TypeOK, NEW t \in Workers, NEW v, Legal(v), pending' = [pending EXCEPT ![t] = v],
           v # Idle, v.next > 1, NEW row \in Rows, NEW value, Write(t, row, value),
           value \in (IF row = Board THEN BoardRow ELSE FileStates),
           UNCHANGED <<file, board, met>>
    PROVE  TypeOK'
<1>1. \A u \in Workers : Running(u) => Running(u)'
  BY RequestsTyped DEF Running
<1>2. Running(t)'
  BY RequestsTyped DEF Running
<1>3. /\ lock' \in [Rows -> Workers \cup {NoOne}]
      /\ lock'[row] = t
      /\ \A other \in Rows \ {row} : lock'[other] = lock[other]
  BY DEF TypeOK, Write
<1>4. /\ DOMAIN draft' = Rows
      /\ draft'[row] = value
      /\ \A other \in Rows \ {row} : draft'[other] = draft[other]
  BY DEF TypeOK, Write
<1>5. t # NoOne /\ value # NoOne /\ Board \notin Files
  BY RowsAssumption DEF RowsAssumption, Board
<1>6. /\ \A f \in Files : draft'[f] \in FileStates \cup {NoOne}
      /\ draft'[Board] \in BoardRow \cup {NoOne}
  BY <1>4, <1>5 DEF TypeOK, Rows
<1>7. \A other \in Rows : /\ draft'[other] = NoOne <=> lock'[other] = NoOne
                          /\ (lock[other] # NoOne => Running(lock[other]))'
  <2> SUFFICES ASSUME NEW other \in Rows
               PROVE  /\ draft'[other] = NoOne <=> lock'[other] = NoOne
                      /\ (lock[other] # NoOne => Running(lock[other]))'
    OBVIOUS
  <2>1. CASE other = row
    BY <1>2, <1>3, <1>4, <1>5, <2>1
  <2>2. CASE other # row
    BY <1>1, <1>3, <1>4, <2>2 DEF TypeOK
  <2> QED
    BY <2>1, <2>2
<1>8. /\ pending' \in [Workers -> Sent \cup {Idle}]
      /\ \A u \in Workers : pending'[u] # Idle
             => pending'[u].next <= Len(Statements(pending'[u].op))
  BY RequestsTyped
<1> QED
  BY <1>3, <1>4, <1>6, <1>7, <1>8 DEF TypeOK

LEMMA ReleaseTyped ==
    ASSUME TypeOK, NEW t \in Workers, Release(t),
           file' \in [Files -> FileStates], board' \in BoardRow
    PROVE  TypeOK'
<1>1. Legal(Idle) /\ pending' = [pending EXCEPT ![t] = Idle]
  BY DEF Legal, Release
<1>2. /\ pending' \in [Workers -> Sent \cup {Idle}]
      /\ \A u \in Workers : pending'[u] # Idle
             => pending'[u].next <= Len(Statements(pending'[u].op))
  BY <1>1, RequestsTyped
<1>3. \A u \in Workers \ {t} : Running(u) => Running(u)'
  BY <1>1, RequestsTyped DEF Running
<1>4. met' \in [Workers -> BOOLEAN]
  BY DEF TypeOK, Release
<1>5. lock' \in [Rows -> Workers \cup {NoOne}] /\ DOMAIN draft' = Rows
  BY DEF TypeOK, Release
<1>6. /\ \A f \in Files : draft'[f] \in FileStates \cup {NoOne}
      /\ draft'[Board] \in BoardRow \cup {NoOne}
  BY DEF TypeOK, Release, Rows
<1>7. \A row \in Rows : /\ draft'[row] = NoOne <=> lock'[row] = NoOne
                        /\ (lock[row] # NoOne => Running(lock[row]))'
  BY <1>3 DEF TypeOK, Release
<1> QED
  BY <1>2, <1>4, <1>5, <1>6, <1>7 DEF TypeOK

\* What a transaction sees is of the kinds that rows are.
LEMMA Seen ==
    ASSUME TypeOK, NEW t \in Workers
    PROVE  /\ \A f \in Files : FileSeen(t, f) \in FileStates
           /\ BoardSeen(t) \in BoardRow
           /\ get_total_fsize(t) \in Totals
<1>1. \A row \in Rows : lock[row] = t => draft[row] # NoOne
  BY RowsAssumption DEF TypeOK, RowsAssumption
<1> QED
  BY <1>1 DEF TypeOK, FileSeen, BoardSeen, get_total_fsize, Totals, Rows

\* A request at its next statement.
LEMMA NextLegal ==
    ASSUME TypeOK, NEW t \in Workers, NEW s, At(t, s), s # "commit",
           NEW rows \in Seq(Files), NEW total \in Totals, NEW v,
           v = [pending[t] EXCEPT !.next = @ + 1, !.rows = rows, !.sum = total]
    PROVE  Legal(v) /\ v # Idle /\ v.next > 1
<1> DEFINE op == pending[t].op
           n == pending[t].next
           m == Len(Statements(op))
<1>1. pending[t] # Idle /\ Statements(op)[n] = s
  BY DEF At
<1>2. pending[t] \in Sent /\ n \in 1..m /\ m \in 1..7 /\ Follow(op)
  BY <1>1, Kinds
<1>3. n # m
  BY <1>1, <1>2 DEF Follow
<1>4. v = [op |-> op, next |-> n + 1, rows |-> rows, sum |-> total]
  BY <1>2 DEF Sent
<1>5. n + 1 \in 1..7 /\ n + 1 > 1 /\ n + 1 <= m
  <2> HIDE DEF n, m
  <2> QED
    BY <1>2, <1>3
<1>6. op \in OneFileOps \cup ManyFilesOps
  BY <1>2 DEF Sent
<1>7. v \in Sent
  BY <1>4, <1>5, <1>6 DEF Sent
<1>8. v # Idle
  BY <1>4, <1>6 DEF Idle, OneFileOps, ManyFilesOps
<1> QED
  BY <1>4, <1>5, <1>7, <1>8 DEF Legal

LEMMA GoesLegal ==
    ASSUME TypeOK, NEW t \in Workers, NEW s, At(t, s), s # "commit", Goes(t)
    PROVE  \E v : /\ Legal(v) /\ v # Idle /\ v.next > 1
                  /\ pending' = [pending EXCEPT ![t] = v]
<1>1. pending[t] \in Sent
  BY Kinds DEF At
<1> DEFINE v == [pending[t] EXCEPT !.next = @ + 1]
<1>2. v = [pending[t] EXCEPT !.next = @ + 1, !.rows = pending[t].rows, !.sum = pending[t].sum]
  BY <1>1 DEF Sent
<1>3. Legal(v) /\ v # Idle /\ v.next > 1
  <2>1. pending[t].rows \in Seq(Files) /\ pending[t].sum \in Totals
    BY <1>1 DEF Sent
  <2> HIDE DEF v
  <2> QED
    BY <1>2, <2>1, NextLegal
<1>4. pending' = [pending EXCEPT ![t] = v]
  BY DEF Goes
<1> QED
  BY <1>3, <1>4

LEMMA RequestsKeepTypes ==
    ASSUME TypeOK, NEW t \in Workers, Requests(t)
    PROVE  TypeOK'
<1>1. ASSUME NEW op \in AllOps, NEW rows \in Seq(Files), Request(t, op, rows)
      PROVE  TypeOK'
  <2> DEFINE v == [op |-> op, next |-> 1, rows |-> rows, sum |-> 0]
  <2>1. 0 \in Totals
    BY NoFilesNoSize DEF Totals
  <2>2. v \in Sent
    BY <2>1 DEF Sent, AllOps
  <2>3. Legal(v)
    <3> DEFINE m == Len(Statements(op))
    <3>1. m \in 1..7
      BY StatementsFollow
    <3> HIDE DEF m
    <3>2. 1 <= m
      BY <3>1
    <3> QED
      BY <2>2, <3>2 DEF Legal, m
  <2>4. pending' = [pending EXCEPT ![t] = v]
    BY <1>1 DEF Request
  <2>5. ~Running(t)
    BY <1>1 DEF Request, Running
  <2>6. UNCHANGED <<file, board, lock, draft, met>>
    BY <1>1 DEF Request
  <2> QED
    BY <2>3, <2>4, <2>5, <2>6, QuietTyped DEF TypeOK
<1>2. \A f \in Files : <<f>> \in Seq(Files)
  OBVIOUS
<1>3. <<>> \in Seq(Files)
  OBVIOUS
<1> QED
  BY <1>1, <1>2, <1>3
     DEF Requests, upload_files, delete_file, restore_file, delete_all, restore_all_file,
         delete_board, restore_board, AllOps, OneFileOps, ManyFilesOps

LEMMA StatementsKeepTypes ==
    ASSUME TypeOK, NEW t \in Workers, Statement(t)
    PROVE  TypeOK'
<1>1. CASE begin(t)
  <2>1. met' \in [Workers -> BOOLEAN]
    BY <1>1 DEF begin, TypeOK
  <2> QED
    BY <1>1, <2>1, GoesLegal, QuietTyped DEF begin
<1>2. CASE scan(t)
  <2>1. PICK rows \in SetToSeqs({f \in Files : FileSeen(t, f) \in Where(pending[t].op)}) :
          pending' = [pending EXCEPT ![t].next = @ + 1, ![t].rows = rows]
    BY <1>2 DEF scan
  <2>2. rows \in Seq(Files)
    BY <2>1, OrdersAreWhole
  <2>3. pending[t] \in Sent /\ At(t, "scan")
    BY <1>2, Kinds DEF scan, At
  <2> DEFINE v == [pending[t] EXCEPT !.next = @ + 1, !.rows = rows]
  <2>4. v = [pending[t] EXCEPT !.next = @ + 1, !.rows = rows, !.sum = pending[t].sum]
    BY <2>3 DEF Sent
  <2>5. Legal(v) /\ v # Idle /\ v.next > 1
    <3>1. pending[t].sum \in Totals
      BY <2>3 DEF Sent
    <3> HIDE DEF v
    <3> QED
      BY <2>2, <2>3, <2>4, <3>1, NextLegal
  <2>6. pending' = [pending EXCEPT ![t] = v]
    BY <2>1 DEF TypeOK
  <2> QED
    BY <1>2, <2>5, <2>6, QuietTyped DEF scan, TypeOK
<1>3. CASE write(t)
  <2> DEFINE v == [pending[t] EXCEPT !.rows = Tail(@)]
             f == Head(pending[t].rows)
  <2>1. At(t, "write") /\ pending[t] # Idle /\ pending[t].rows # <<>>
    BY <1>3 DEF write, At
  <2>2. pending[t] \in Sent /\ pending[t].rows \in Seq(Files) /\ Running(t)
    BY <2>1, Kinds, AtRunning
  <2>3. f \in Files /\ Tail(pending[t].rows) \in Seq(Files)
    BY <2>1, <2>2
  <2>4. v \in Sent /\ v # Idle /\ v.next > 1 /\ v.next <= Len(Statements(v.op))
    <3>1. v \in Sent /\ v.op = pending[t].op /\ v.next = pending[t].next
      BY <2>2, <2>3 DEF Sent
    <3>2. v # Idle
      BY <3>1 DEF Sent, Idle, OneFileOps, ManyFilesOps
    <3> QED
      BY <2>1, <2>2, <3>1, <3>2 DEF TypeOK, Running
  <2>5. pending' = [pending EXCEPT ![t] = v]
    BY <1>3 DEF write
  <2>6. Gives(pending[t].op) \in FileStates /\ f # Board /\ f \in Rows
    BY <2>3, RowsAssumption DEF Gives, FileStates, RowsAssumption, Board, Rows
  <2>7. CASE FileSeen(t, f) \in Where(pending[t].op)
    <3>1. Write(t, f, Gives(pending[t].op))
      BY <1>3, <2>7 DEF write
    <3> QED
      BY <1>3, <2>4, <2>5, <2>6, <3>1, WriteTyped DEF write, Legal
  <2>8. CASE FileSeen(t, f) \notin Where(pending[t].op)
    BY <1>3, <2>4, <2>5, <2>8, QuietTyped DEF write, Legal, TypeOK
  <2> QED
    BY <2>7, <2>8
<1>4. CASE written(t)
  BY <1>4, GoesLegal, QuietTyped DEF written, TypeOK
<1>5. CASE sum(t)
  <2> DEFINE v == [pending[t] EXCEPT !.next = @ + 1, !.sum = get_total_fsize(t)]
  <2>1. pending[t] \in Sent /\ At(t, "sum")
    BY <1>5, Kinds DEF sum, At
  <2>2. v = [pending[t] EXCEPT !.next = @ + 1, !.rows = pending[t].rows,
                               !.sum = get_total_fsize(t)]
    BY <2>1 DEF Sent
  <2>3. Legal(v) /\ v # Idle /\ v.next > 1
    BY <2>1, <2>2, NextLegal, Seen DEF Sent
  <2>4. pending' = [pending EXCEPT ![t] = v]
    BY <1>5 DEF sum, TypeOK
  <2> QED
    BY <1>5, <2>3, <2>4, QuietTyped DEF sum, TypeOK
<1>6. CASE update_total_board_fsize(t)
  <2> DEFINE value == [BoardSeen(t) EXCEPT !.total = pending[t].sum]
  <2>1. At(t, "total") /\ Goes(t) /\ Write(t, Board, value)
    BY <1>6 DEF update_total_board_fsize
  <2>2. pending[t].sum \in Totals
    BY <2>1, Kinds DEF At, Sent
  <2>3. value \in BoardRow
    BY <2>2, Seen DEF BoardRow
  <2>4. Board \in Rows
    BY DEF Rows
  <2> QED
    BY <1>6, <2>1, <2>3, <2>4, GoesLegal, WriteTyped DEF update_total_board_fsize
<1>7. CASE set_live(t)
  <2> DEFINE value == [BoardSeen(t) EXCEPT !.live = (pending[t].op = "restore_board")]
  <2>1. At(t, "live") /\ Goes(t) /\ Write(t, Board, value)
    BY <1>7 DEF set_live
  <2>2. value \in BoardRow
    BY Seen DEF BoardRow
  <2>3. Board \in Rows
    BY DEF Rows
  <2> QED
    BY <1>7, <2>1, <2>2, <2>3, GoesLegal, WriteTyped DEF set_live
<1>8. CASE commit(t)
  BY <1>8, Seen, ReleaseTyped DEF commit
<1> QED
  BY <1>1, <1>2, <1>3, <1>4, <1>5, <1>6, <1>7, <1>8 DEF Statement

LEMMA StepsKeepTypes == TypeOK /\ [Next]_vars => TypeOK'
<1> SUFFICES ASSUME TypeOK, [Next]_vars
             PROVE  TypeOK'
  OBVIOUS
<1>1. ASSUME NEW t \in Workers, deadlock_detected(t) \/ rollback(t)
      PROVE  TypeOK'
  <2>1. Release(t) /\ UNCHANGED <<file, board>>
    BY <1>1 DEF deadlock_detected, rollback
  <2> QED
    BY <2>1, ReleaseTyped DEF TypeOK
<1>2. CASE UNCHANGED vars
  BY <1>2 DEF vars, TypeOK, Running
<1> QED
  BY <1>1, <1>2, RequestsKeepTypes, StatementsKeepTypes DEF Next

LEMMA InitTyped == Init => TypeOK
<1> SUFFICES ASSUME Init
             PROVE  TypeOK
  OBVIOUS
<1>1. 0 \in Totals
  BY NoFilesNoSize DEF Totals
<1>2. board \in BoardRow
  BY <1>1 DEF Init, BoardRow
<1> QED
  BY <1>2 DEF Init, TypeOK, FileStates, Rows
-----------------------------------------------------------------------------
(* The inductive invariant *)

\* Two transactions that run at once have met.
OnlyMet == \A t, u \in Workers : t # u /\ Running(t) /\ Running(u) => met[t]

\* A transaction on one file has locked nothing before it locks the file, and
\* waits for nothing once it has locked the board.
OneFileLocks(t) ==
    pending[t] # Idle /\ pending[t].op \in OneFileOps =>
        /\ Len(pending[t].rows) <= 1
        /\ At(t, "write") /\ pending[t].rows # <<>> => \A row \in Rows : lock[row] # t
        /\ lock[Board] = t => At(t, "commit")

\* delete_all writes 0 without a sum.
ZeroSum(t) ==
    pending[t] # Idle /\ pending[t].op = "delete_all" => pending[t].sum = 0

\* What a transaction that no other has met knows of the rows: the sum it took,
\* or the files it is still to mark, is what it sees.
AloneSums(t) ==
    Running(t) /\ ~met[t] =>
        /\ pending[t].op \notin {"delete_all", "delete_board"}
             /\ (At(t, "total") \/ At(t, "commit"))
           => pending[t].sum = get_total_fsize(t)
        /\ pending[t].op \in ManyFilesOps /\ At(t, "write")
           => \A f \in Files : FileSeen(t, f) \in Where(pending[t].op)
                 => \E i \in 1..Len(pending[t].rows) : pending[t].rows[i] = f
        /\ pending[t].op \in ManyFilesOps
             /\ (At(t, "sum") \/ At(t, "total") \/ At(t, "commit"))
           => \A f \in Files : FileSeen(t, f) \notin Where(pending[t].op)
        /\ pending[t].op # "delete_board" /\ At(t, "commit")
           => BoardSeen(t).total = pending[t].sum

Step(t) == Requests(t) \/ Statement(t) \/ deadlock_detected(t) \/ rollback(t)

LEMMA RequestStep ==
    ASSUME NEW t, Requests(t)
    PROVE  \E op, rows : /\ Request(t, op, rows)
                         /\ rows = <<>> \/ \E f \in Files : rows = <<f>>
BY DEF Requests, upload_files, delete_file, restore_file, delete_all, restore_all_file,
       delete_board, restore_board

LEMMA OneAt ==
    ASSUME NEW t, NEW a, NEW b
    PROVE  /\ At(t, a) /\ At(t, b) => a = b
           /\ At(t, a)' /\ At(t, b)' => a = b
BY DEF At

\* A step of one transaction leaves what another has locked and written.
LEMMA OthersStep ==
    ASSUME TypeOK, NEW t \in Workers, NEW u \in Workers, u # t, Step(u)
    PROVE  /\ pending'[t] = pending[t]
           /\ \A row \in Rows : lock'[row] = t <=> lock[row] = t
           /\ \A row \in Rows : lock[row] = t => draft'[row] = draft[row]
           /\ met[t] => met'[t]
           /\ begin(u) /\ Running(t) => met'[t]
<1>1. t # NoOne /\ met \in [Workers -> BOOLEAN] /\ DOMAIN lock = Rows /\ DOMAIN draft = Rows
      /\ DOMAIN pending = Workers
  BY RowsAssumption DEF TypeOK, RowsAssumption
<1>2. CASE Requests(u)
  BY <1>1, <1>2, RequestStep DEF Request, begin, At
<1>3. ASSUME Release(u)
      PROVE  /\ pending'[t] = pending[t]
             /\ \A row \in Rows : lock'[row] = t <=> lock[row] = t
             /\ \A row \in Rows : lock[row] = t => draft'[row] = draft[row]
             /\ met[t] => met'[t]
             /\ pending'[u] = Idle
  BY <1>1, <1>3 DEF Release
<1>4. ~(begin(u) /\ pending'[u] = Idle)
  <2> SUFFICES ASSUME begin(u), pending'[u] = Idle
               PROVE  FALSE
    OBVIOUS
  <2>1. PICK v : v # Idle /\ pending' = [pending EXCEPT ![u] = v]
    BY GoesLegal DEF begin
  <2> QED
    BY <1>1, <2>1
<1>5. CASE deadlock_detected(u) \/ rollback(u) \/ commit(u)
  BY <1>3, <1>4, <1>5 DEF deadlock_detected, rollback, commit
<1>6. ASSUME NEW row \in Rows, NEW value, Write(u, row, value), Free(u, row)
      PROVE  /\ \A other \in Rows : lock'[other] = t <=> lock[other] = t
             /\ \A other \in Rows : lock[other] = t => draft'[other] = draft[other]
  BY <1>1, <1>6 DEF Write, Free
<1>7. CASE begin(u)
  BY <1>1, <1>7 DEF begin, Goes
<1>8. CASE scan(u) \/ written(u) \/ sum(u)
  BY <1>1, <1>8, OneAt DEF scan, written, sum, Goes, begin
<1>9. CASE write(u)
  <2>1. Head(pending[u].rows) \in Rows
    BY <1>9, Kinds DEF write, At, Rows
  <2> QED
    BY <1>1, <1>6, <1>9, <2>1, OneAt DEF write, begin
<1>10. CASE update_total_board_fsize(u)
  BY <1>1, <1>6, <1>10, OneAt DEF update_total_board_fsize, Goes, begin, Rows
<1>11. CASE set_live(u)
  BY <1>1, <1>6, <1>11, OneAt DEF set_live, Goes, begin, Rows
<1> QED
  BY <1>2, <1>5, <1>7, <1>8, <1>9, <1>10, <1>11 DEF Step, Statement

\* Only by BEGIN does a transaction start to run.
LEMMA OwnStep ==
    ASSUME TypeOK, NEW t \in Workers, Step(t), ~begin(t), Running(t)'
    PROVE  Running(t) /\ met' = met
<1>1. DOMAIN pending = Workers
  BY DEF TypeOK
<1>2. CASE Requests(t)
  BY <1>1, <1>2, RequestStep DEF Request, Running
<1>3. CASE deadlock_detected(t) \/ rollback(t) \/ commit(t)
  BY <1>1, <1>3 DEF deadlock_detected, rollback, commit, Release, Running
<1>4. CASE scan(t) \/ write(t) \/ written(t) \/ sum(t) \/ update_total_board_fsize(t)
           \/ set_live(t)
  BY <1>4, AtRunning DEF scan, write, written, sum, update_total_board_fsize, set_live
<1> QED
  BY <1>2, <1>3, <1>4 DEF Step, Statement

LEMMA OnlyMetKept ==
    ASSUME TypeOK, OnlyMet, NEW w \in Workers, Step(w)
    PROVE  OnlyMet'
<1> SUFFICES ASSUME NEW t \in Workers, NEW u \in Workers, t # u, Running(t)', Running(u)'
             PROVE  met'[t]
  BY DEF OnlyMet
<1>1. \A v \in Workers : v # w => (Running(v)' <=> Running(v))
  BY OthersStep DEF Running
<1>2. CASE w = t /\ begin(w)
  <2>1. Running(u)
    BY <1>1, <1>2
  <2> QED
    BY <1>2, <2>1 DEF begin
<1>3. CASE w = t /\ ~begin(w)
  BY <1>1, <1>3, OwnStep DEF OnlyMet
<1>4. CASE w # t /\ begin(w)
  BY <1>1, <1>4, OthersStep
<1>5. CASE w # t /\ ~begin(w)
  <2>1. Running(t) /\ Running(u)
    BY <1>1, <1>5, OwnStep
  <2> QED
    BY <1>5, <2>1, OthersStep DEF OnlyMet
<1> QED
  BY <1>2, <1>3, <1>4, <1>5

\* What a transaction sees stays while the others only hold back.
LEMMA SameSight ==
    ASSUME TypeOK, NEW t \in Workers, UNCHANGED <<file, board>>,
           \A row \in Rows : lock'[row] = t <=> lock[row] = t,
           \A row \in Rows : lock[row] = t => draft'[row] = draft[row]
    PROVE  /\ \A f \in Files : FileSeen(t, f)' = FileSeen(t, f)
           /\ BoardSeen(t)' = BoardSeen(t)
           /\ get_total_fsize(t)' = get_total_fsize(t)
<1>1. \A f \in Files : FileSeen(t, f)' = FileSeen(t, f)
  BY DEF FileSeen, Rows
<1>2. BoardSeen(t)' = BoardSeen(t)
  BY DEF BoardSeen, Rows
<1>3. {f \in Files : FileSeen(t, f)' = "LIVE"} = {f \in Files : FileSeen(t, f) = "LIVE"}
  BY <1>1
<1> QED
  BY <1>1, <1>2, <1>3 DEF get_total_fsize

LEMMA AloneUndisturbed ==
    ASSUME TypeOK, OnlyMet, NEW t \in Workers, NEW u \in Workers, u # t, Step(u),
           Running(t)', ~met'[t]
    PROVE  /\ Running(t) /\ ~met[t] /\ pending'[t] = pending[t]
           /\ \A f \in Files : FileSeen(t, f)' = FileSeen(t, f)
           /\ BoardSeen(t)' = BoardSeen(t)
           /\ get_total_fsize(t)' = get_total_fsize(t)
<1>1. pending'[t] = pending[t] /\ ~met[t] /\ Running(t)
  BY OthersStep DEF Running
<1>2. ~Running(u) /\ ~begin(u)
  BY <1>1, OthersStep DEF OnlyMet
<1>3. \A s : At(u, s) => s = "begin"
  BY <1>2, AtRunning
<1>4. UNCHANGED <<file, board>>
  BY <1>2, <1>3, RequestStep
     DEF Step, Statement, Request, deadlock_detected, rollback, scan, write, written, sum,
         update_total_board_fsize, set_live, commit
<1> QED
  BY <1>1, <1>4, OthersStep, SameSight

LEMMA ZeroSumKept ==
    ASSUME TypeOK, NEW t \in Workers, ZeroSum(t), NEW u \in Workers, Step(u)
    PROVE  ZeroSum(t)'
<1>1. DOMAIN pending = Workers
  BY DEF TypeOK
<1>2. CASE u # t
  BY <1>2, OthersStep DEF ZeroSum
<1>3. CASE u = t /\ Requests(t)
  BY <1>1, <1>3, RequestStep DEF Request, ZeroSum
<1>4. CASE u = t /\ Release(t)
  BY <1>1, <1>4 DEF Release, ZeroSum
<1>5. CASE u = t /\ (begin(t) \/ scan(t) \/ write(t) \/ written(t)
                     \/ update_total_board_fsize(t) \/ set_live(t))
  <2>1. pending[t] # Idle /\ pending[t] \in Sent
    BY <1>5, Kinds
       DEF begin, scan, write, written, update_total_board_fsize, set_live, At
  <2>2. pending'[t].op = pending[t].op /\ pending'[t].sum = pending[t].sum
    BY <1>1, <1>5, <2>1
       DEF begin, scan, write, written, update_total_board_fsize, set_live, Goes, Sent
  <2> QED
    BY <2>1, <2>2 DEF ZeroSum
<1>6. CASE u = t /\ sum(t)
  <2>1. At(t, "sum") /\ pending[t] # Idle /\ pending[t] \in Sent
    BY <1>6, Kinds DEF sum, At
  <2>2. pending'[t].op = pending[t].op /\ pending'[t].next = pending[t].next + 1
    BY <1>1, <1>6, <2>1 DEF sum, Sent
  <2>3. pending'[t] # Idle
    BY <2>1, <2>2 DEF Sent, Idle, OneFileOps, ManyFilesOps
  <2>4. pending[t].op # "delete_all"
    BY <2>1, <2>2, <2>3, GoesOn
  <2> QED
    BY <2>2, <2>4 DEF ZeroSum
<1> QED
  BY <1>2, <1>3, <1>4, <1>5, <1>6
     DEF Step, Statement, deadlock_detected, rollback, commit

LEMMA GoneOn ==
    ASSUME TypeOK, NEW t \in Workers, NEW s, At(t, s), s # "commit", Goes(t)
    PROVE  /\ pending'[t] # Idle
           /\ pending'[t].op = pending[t].op
           /\ pending'[t].rows = pending[t].rows
           /\ pending'[t].sum = pending[t].sum
           /\ pending'[t].next = pending[t].next + 1
<1>1. pending[t] \in Sent /\ DOMAIN pending = Workers
  BY Kinds DEF At, TypeOK
<1>2. /\ pending'[t].op = pending[t].op
      /\ pending'[t].rows = pending[t].rows
      /\ pending'[t].sum = pending[t].sum
      /\ pending'[t].next = pending[t].next + 1
  BY <1>1 DEF Goes, Sent
<1> QED
  BY <1>1, <1>2 DEF Sent, Idle, OneFileOps, ManyFilesOps

LEMMA OneFileLocksKept ==
    ASSUME TypeOK, NEW t \in Workers, OneFileLocks(t), NEW u \in Workers, Step(u)
    PROVE  OneFileLocks(t)'
<1>1. t # NoOne /\ DOMAIN pending = Workers /\ DOMAIN lock = Rows /\ Board \in Rows
      /\ Board \notin Files
  BY RowsAssumption DEF TypeOK, RowsAssumption, Rows, Board
<1>2. CASE u # t
  BY <1>1, <1>2, OthersStep DEF OneFileLocks, At
<1>3. ~Running(t) => \A row \in Rows : lock[row] # t
  BY <1>1 DEF TypeOK
<1>4. CASE u = t /\ Requests(t)
  <2>1. PICK op, rows : /\ Request(t, op, rows)
                        /\ rows = <<>> \/ \E f \in Files : rows = <<f>>
    BY <1>4, RequestStep
  <2>2. pending'[t].rows = rows /\ lock' = lock /\ ~Running(t)
    BY <1>1, <2>1 DEF Request, Running
  <2>3. Len(rows) <= 1
    <3>1. Len(<<>>) <= 1 /\ \A f : Len(<<f>>) <= 1
      OBVIOUS
    <3>2. rows = <<>> \/ \E f : rows = <<f>>
      BY <2>1
    <3> QED
      BY <3>1, <3>2
  <2> QED
    BY <1>1, <1>3, <2>2, <2>3 DEF OneFileLocks
<1>5. CASE u = t /\ Release(t)
  BY <1>1, <1>5 DEF Release, OneFileLocks
<1> SUFFICES ASSUME u = t, Statement(t), ~commit(t), pending'[t] # Idle,
                    pending'[t].op \in OneFileOps
             PROVE  /\ Len(pending'[t].rows) <= 1
                    /\ At(t, "write")' /\ pending'[t].rows # <<>>
                          => \A row \in Rows : lock'[row] # t
                    /\ lock'[Board] = t => At(t, "commit")'
  BY <1>2, <1>4, <1>5 DEF OneFileLocks, Step, deadlock_detected, rollback, commit
<1>6. CASE begin(t)
  <2>1. ~Running(t) /\ lock' = lock
    BY <1>6, AtRunning DEF begin
  <2>2. pending'[t].rows = pending[t].rows /\ pending'[t].op = pending[t].op
    BY <1>6, GoneOn DEF begin
  <2>3. pending[t] # Idle
    BY <1>6 DEF begin, At
  <2> QED
    BY <1>1, <1>3, <2>1, <2>2, <2>3 DEF OneFileLocks
<1>7. CASE scan(t)
  <2>1. At(t, "scan") /\ pending[t] \in Sent
    BY <1>7, Kinds DEF scan, At
  <2>2. pending'[t].op = pending[t].op /\ pending'[t].next = pending[t].next + 1
    BY <1>1, <1>7, <2>1 DEF scan, Sent
  <2> QED
    BY <2>1, <2>2, GoesOn
<1>8. CASE write(t)
  <2> DEFINE f == Head(pending[t].rows)
  <2>1. At(t, "write") /\ pending[t] \in Sent /\ pending[t] # Idle /\ pending[t].rows # <<>>
        /\ pending[t].rows \in Seq(Files)
    BY <1>8, Kinds DEF write, At
  <2>2. /\ pending'[t].op = pending[t].op /\ pending'[t].next = pending[t].next
        /\ pending'[t].rows = Tail(pending[t].rows)
    BY <1>1, <1>8, <2>1 DEF write, Sent
  <2>3. Len(pending[t].rows) <= 1 /\ \A row \in Rows : lock[row] # t
    BY <1>1, <2>1, <2>2 DEF OneFileLocks
  <2>4. Tail(pending[t].rows) = <<>>
    BY <2>1, <2>3
  <2>5. f \in Files
    BY <2>1
  <2>6. lock'[Board] # t
    BY <1>1, <1>8, <2>3, <2>5 DEF write, Write
  <2>7. pending'[t].rows = <<>> /\ Len(<<>>) <= 1
    BY <2>2, <2>4
  <2> QED
    BY <2>6, <2>7
<1>9. CASE written(t) \/ sum(t)
  <2>1. PICK s \in {"write", "sum"} : At(t, s)
    BY <1>9 DEF written, sum
  <2>2. pending[t] \in Sent /\ pending[t] # Idle
    BY <2>1, Kinds DEF At
  <2>3. /\ pending'[t].op = pending[t].op /\ pending'[t].next = pending[t].next + 1
        /\ pending'[t].rows = pending[t].rows
    BY <1>1, <1>9, <2>2 DEF written, sum, Goes, Sent
  <2>4. lock' = lock
    BY <1>9 DEF written, sum
  <2>5. lock[Board] # t /\ Len(pending[t].rows) <= 1
    BY <2>1, <2>2, <2>3, OneAt DEF OneFileLocks
  <2>6. ~At(t, "write")'
    BY <2>1, <2>3, GoesOn, OneAt
  <2> QED
    BY <2>3, <2>4, <2>5, <2>6
<1>10. CASE update_total_board_fsize(t)
  <2>1. At(t, "total") /\ Goes(t)
    BY <1>10 DEF update_total_board_fsize
  <2>2. pending'[t].rows = pending[t].rows /\ pending'[t].op = pending[t].op
        /\ pending'[t].next = pending[t].next + 1
    BY <2>1, GoneOn
  <2>3. At(t, "commit")'
    BY <2>1, <2>2, GoesOn
  <2>4. Len(pending[t].rows) <= 1
    BY <2>1, <2>2 DEF OneFileLocks, At
  <2> QED
    BY <2>2, <2>3, <2>4, OneAt
<1>11. CASE set_live(t)
  <2>1. At(t, "live") /\ Goes(t)
    BY <1>11 DEF set_live
  <2> QED
    BY <2>1, GoneOn, GoesOn
<1> QED
  BY <1>6, <1>7, <1>8, <1>9, <1>10, <1>11 DEF Statement

\* What has been marked no longer asks for it.
LEMMA GivesOnce ==
    \A op \in ManyFilesOps : Gives(op) \notin Where(op) /\ op \notin OneFileOps
BY DEF Gives, Where, ManyFilesOps, OneFileOps

LEMMA AloneSumsKept ==
    ASSUME TypeOK, OnlyMet, NEW t \in Workers, AloneSums(t), NEW u \in Workers, Step(u)
    PROVE  AloneSums(t)'
<1> SUFFICES ASSUME Running(t)', ~met'[t]
             PROVE  AloneSums(t)'
  BY DEF AloneSums
<1>1. t # NoOne /\ DOMAIN pending = Workers /\ DOMAIN lock = Rows /\ DOMAIN draft = Rows
      /\ Board \in Rows /\ Board \notin Files /\ Files \subseteq Rows
  BY RowsAssumption DEF TypeOK, RowsAssumption, Rows, Board
<1>2. CASE u # t
  BY <1>2, AloneUndisturbed DEF AloneSums, At
<1> SUFFICES ASSUME u = t
             PROVE  AloneSums(t)'
  BY <1>2
<1>3. CASE begin(t)
  <2>1. At(t, "begin") /\ Goes(t)
    BY <1>3 DEF begin
  <2>2. pending'[t].op = pending[t].op
        /\ (At(t, "live")' \/ At(t, "scan")' \/ At(t, "write")')
        /\ (pending[t].op \in ManyFilesOps => At(t, "live")' \/ At(t, "scan")')
    BY <2>1, GoneOn, GoesOn, ManyGoOn
  <2> QED
    BY <2>2, OneAt DEF AloneSums
<1>4. ~Requests(t) /\ ~Release(t)
  BY <1>1, RequestStep DEF Request, Release, Running
<1> SUFFICES ASSUME ~begin(t), Statement(t), ~commit(t), Running(t), ~met[t]
             PROVE  AloneSums(t)'
  BY <1>3, <1>4, OwnStep DEF Step, deadlock_detected, rollback, commit
<1>5. CASE scan(t)
  <2> DEFINE found == {f \in Files : FileSeen(t, f) \in Where(pending[t].op)}
  <2>1. At(t, "scan") /\ pending[t] \in Sent /\ pending[t] # Idle
    BY <1>5, Kinds DEF scan, At
  <2>2. PICK rows \in SetToSeqs(found) :
          pending' = [pending EXCEPT ![t].next = @ + 1, ![t].rows = rows]
    BY <1>5 DEF scan
  <2>3. /\ pending'[t].op = pending[t].op /\ pending'[t].next = pending[t].next + 1
        /\ pending'[t].rows = rows
    BY <1>1, <2>1, <2>2 DEF Sent
  <2>4. ~At(t, "sum")' /\ ~At(t, "total")' /\ ~At(t, "commit")'
    BY <2>1, <2>3, GoesOn, OneAt DEF Running
  <2>5. \A f \in Files : FileSeen(t, f)' = FileSeen(t, f)
    BY <1>5, SameSight DEF scan
  <2>6. ASSUME NEW f \in Files, FileSeen(t, f) \in Where(pending[t].op)
        PROVE  \E i \in 1..Len(rows) : rows[i] = f
    <3>1. f \in found
      BY <2>6
    <3> HIDE DEF found
    <3>2. found \subseteq Files
      BY DEF found
    <3> QED
      BY <2>2, <3>1, <3>2, OrdersAreWhole
  <2> QED
    BY <2>3, <2>4, <2>5, <2>6 DEF AloneSums
<1>6. CASE write(t)
  <2> DEFINE s == pending[t].rows
  <2>1. At(t, "write") /\ pending[t] \in Sent /\ pending[t] # Idle /\ s # <<>>
        /\ s \in Seq(Files)
    BY <1>6, Kinds DEF write, At
  <2>2. /\ pending'[t].op = pending[t].op /\ pending'[t].next = pending[t].next
        /\ pending'[t].rows = Tail(s)
    BY <1>1, <1>6, <2>1 DEF write, Sent
  <2>3. At(t, "write")'
    BY <2>1, <2>2 DEF At, Running
  <2>4. ~At(t, "sum")' /\ ~At(t, "total")' /\ ~At(t, "commit")'
    BY <2>3, OneAt
  <2>0. PICK h \in Files : h = Head(s)
    BY <2>1
  <2> DEFINE where == Where(pending[t].op)
             gives == Gives(pending[t].op)
  <2>6. ASSUME NEW f \in Files, pending[t].op \in ManyFilesOps, FileSeen(t, f)' \in where
        PROVE  \E i \in 1..Len(Tail(s)) : Tail(s)[i] = f
    <3>1. f # h /\ FileSeen(t, f) \in where
      <4>0. gives \notin where
        BY <2>6, GivesOnce
      <4> HIDE DEF gives, where
      <4>1. CASE FileSeen(t, h) \in where
        <5>1. Write(t, h, gives) /\ file' = file
          BY <1>6, <2>0, <4>1 DEF write, gives, where
        <5>2. FileSeen(t, h)' = gives
          BY <1>1, <5>1 DEF Write, FileSeen
        <5>3. f # h
          BY <2>6, <4>0, <5>2
        <5>4. lock'[f] = lock[f] /\ draft'[f] = draft[f]
          BY <1>1, <5>1, <5>3 DEF Write
        <5> QED
          BY <2>6, <5>1, <5>3, <5>4 DEF FileSeen
      <4>2. CASE FileSeen(t, h) \notin where
        <5>1. UNCHANGED <<file, board, lock, draft>>
          BY <1>6, <2>0, <4>2 DEF write, where
        <5> QED
          BY <2>6, <4>2, <5>1 DEF FileSeen
      <4> QED
        BY <4>1, <4>2
    <3>2. PICK i \in 1..Len(s) : s[i] = f
      BY <2>1, <2>6, <3>1 DEF AloneSums
    <3>3. i # 1
      BY <2>1, <2>0, <3>1, <3>2
    <3>4. i - 1 \in 1..Len(Tail(s)) /\ Tail(s)[i - 1] = s[i]
      BY <2>1, <3>3
    <3> QED
      BY <3>2, <3>4
  <2> QED
    BY <2>2, <2>4, <2>6 DEF AloneSums
<1>7. CASE written(t)
  <2>1. At(t, "write") /\ Goes(t) /\ pending[t].rows = <<>>
        /\ UNCHANGED <<file, board, lock, draft>>
    BY <1>7 DEF written
  <2>2. /\ pending'[t].op = pending[t].op /\ pending'[t].next = pending[t].next + 1
        /\ pending'[t].sum = pending[t].sum /\ pending'[t] # Idle
    BY <2>1, GoneOn
  <2>3. /\ pending[t].op \notin {"delete_all", "delete_board"} => At(t, "sum")'
        /\ pending[t].op = "delete_all" => At(t, "total")'
        /\ pending[t].op = "delete_board" => At(t, "commit")'
        /\ ~At(t, "write")'
    BY <2>1, <2>2, GoesOn, ManyGoOn, OneAt DEF ManyFilesOps
  <2>4. \A f \in Files : FileSeen(t, f)' = FileSeen(t, f)
    BY <2>1, SameSight
  <2>5. pending[t].op \in ManyFilesOps
          => \A f \in Files : FileSeen(t, f) \notin Where(pending[t].op)
    <3>1. ~\E i \in 1..Len(pending[t].rows) : TRUE
      BY <2>1
    <3> QED
      BY <2>1, <3>1 DEF AloneSums
  <2> QED
    BY <2>2, <2>3, <2>4, <2>5, OneAt DEF AloneSums
<1>8. CASE sum(t)
  <2>1. At(t, "sum") /\ pending[t] \in Sent /\ pending[t] # Idle
        /\ UNCHANGED <<file, board, lock, draft>>
    BY <1>8, Kinds DEF sum, At
  <2>2. /\ pending'[t].op = pending[t].op /\ pending'[t].next = pending[t].next + 1
        /\ pending'[t].sum = get_total_fsize(t)
    BY <1>1, <1>8, <2>1 DEF sum, Sent
  <2>3. At(t, "total")' /\ pending[t].op \notin {"delete_all", "delete_board"}
    BY <2>1, <2>2, GoesOn DEF Running
  <2>4. /\ get_total_fsize(t)' = get_total_fsize(t)
        /\ \A f \in Files : FileSeen(t, f)' = FileSeen(t, f)
    BY <2>1, SameSight
  <2>5. pending[t].op \in ManyFilesOps
          => \A f \in Files : FileSeen(t, f) \notin Where(pending[t].op)
    BY <2>1 DEF AloneSums
  <2>6. ~At(t, "write")' /\ ~At(t, "commit")'
    BY <2>3, OneAt
  <2> QED
    BY <2>2, <2>3, <2>4, <2>5, <2>6 DEF AloneSums
<1>9. CASE update_total_board_fsize(t)
  <2>1. At(t, "total") /\ Goes(t) /\ file' = file
        /\ Write(t, Board, [BoardSeen(t) EXCEPT !.total = pending[t].sum])
    BY <1>9 DEF update_total_board_fsize
  <2>2. /\ pending'[t].op = pending[t].op /\ pending'[t].next = pending[t].next + 1
        /\ pending'[t].sum = pending[t].sum /\ pending'[t] # Idle
    BY <2>1, GoneOn
  <2>3. At(t, "commit")'
    BY <2>1, <2>2, GoesOn
  <2>4. \A f \in Files : FileSeen(t, f)' = FileSeen(t, f)
    BY <1>1, <2>1 DEF Write, FileSeen
  <2>5. get_total_fsize(t)' = get_total_fsize(t)
    <3>1. {f \in Files : FileSeen(t, f)' = "LIVE"} = {f \in Files : FileSeen(t, f) = "LIVE"}
      BY <2>4
    <3> QED
      BY <3>1 DEF get_total_fsize
  <2>6. BoardSeen(t)'.total = pending[t].sum
    <3>1. BoardSeen(t)' = [BoardSeen(t) EXCEPT !.total = pending[t].sum]
      BY <1>1, <2>1 DEF Write, BoardSeen
    <3> QED
      BY <3>1, Seen DEF BoardRow
  <2> QED
    BY <2>1, <2>2, <2>3, <2>4, <2>5, <2>6, OneAt DEF AloneSums
<1>10. CASE set_live(t)
  <2>1. At(t, "live") /\ Goes(t)
    BY <1>10 DEF set_live
  <2>2. /\ pending'[t].op = pending[t].op /\ pending'[t].next = pending[t].next + 1
        /\ pending'[t] # Idle
    BY <2>1, GoneOn
  <2>3. pending[t].op \notin OneFileOps /\ pending[t].op \in ManyFilesOps
    BY <2>1, <2>2, GoesOn, Kinds DEF Sent, At
  <2>4. At(t, "scan")'
    BY <2>1, <2>2, <2>3, ManyGoOn
  <2> QED
    BY <2>2, <2>4, OneAt DEF AloneSums
<1> QED
  BY <1>5, <1>6, <1>7, <1>8, <1>9, <1>10 DEF Statement

-----------------------------------------------------------------------------
(* What a transaction has written, and the committed rows under it *)

BoardOps == {"delete_board", "restore_board"}

\* Whether the board is shown once op is through.
ShownBy(op) == IF op = "delete_board" THEN FALSE
               ELSE IF op = "restore_board" THEN TRUE ELSE board.live

\* A file that t has marked still asks for it, since t has it locked; and a
\* transaction on one file has marked one.
FileDrafts(t) ==
    /\ \A f \in Files : lock[f] = t => /\ draft[f] = Gives(pending[t].op)
                                       /\ file[f] \in Where(pending[t].op)
    /\ pending[t] # Idle /\ pending[t].op \in OneFileOps
          => \A f, g \in Files : lock[f] = t /\ lock[g] = t => f = g

\* The board as t will leave it; who deletes or restores it has it locked from the
\* first statement on.
BoardDraft(t) ==
    /\ lock[Board] = t => draft[Board].live = ShownBy(pending[t].op)
    /\ Running(t) /\ pending[t].op \in BoardOps /\ ~At(t, "live") => lock[Board] = t

\* Nobody else changes what t has locked.
LEMMA LockedRowsStay ==
    ASSUME TypeOK, NEW t \in Workers, NEW u \in Workers, u # t, Step(u)
    PROVE  /\ \A f \in Files : lock[f] = t => file'[f] = file[f]
           /\ lock[Board] = t => board' = board
<1>1. CASE commit(u)
  BY <1>1 DEF commit, FileSeen, BoardSeen, TypeOK
<1>2. CASE UNCHANGED <<file, board>>
  BY <1>2
<1> QED
  BY <1>1, <1>2, RequestStep
     DEF Step, Statement, Request, deadlock_detected, rollback, begin, scan, write, written,
         sum, update_total_board_fsize, set_live

\* Steps of t itself at which it has locked nothing, before or after.
LEMMA NothingLocked ==
    ASSUME TypeOK, NEW t \in Workers, Requests(t) \/ Release(t) \/ begin(t)
    PROVE  /\ \A row \in Rows : lock'[row] # t
           /\ ~begin(t) => ~Running(t)'
<1>1. t # NoOne /\ DOMAIN pending = Workers
  BY RowsAssumption DEF TypeOK, RowsAssumption
<1>2. CASE Requests(t)
  BY <1>1, <1>2, RequestStep DEF Request, Running, TypeOK
<1>3. CASE Release(t)
  BY <1>1, <1>3 DEF Release, Running
<1>4. CASE begin(t)
  <2>1. ~Running(t) /\ lock' = lock
    BY <1>4, AtRunning DEF begin
  <2>2. \A row \in Rows : lock[row] = t => Running(t)
    BY <1>1 DEF TypeOK
  <2> QED
    BY <1>4, <2>1, <2>2
<1> QED
  BY <1>2, <1>3, <1>4

\* Statements of t that write nothing.
LEMMA NothingWritten ==
    ASSUME TypeOK, NEW t \in Workers, scan(t) \/ written(t) \/ sum(t)
    PROVE  /\ UNCHANGED <<file, board, lock, draft>>
           /\ pending[t] # Idle /\ Running(t) /\ ~At(t, "live")
           /\ pending'[t].op = pending[t].op
<1>1. PICK s \in {"scan", "write", "sum"} : At(t, s)
  BY DEF scan, written, sum
<1>2. pending[t] # Idle /\ Running(t) /\ ~At(t, "live") /\ pending[t] \in Sent
  BY <1>1, AtRunning, OneAt, Kinds DEF At
<1>3. pending'[t].op = pending[t].op
  BY <1>2 DEF scan, written, sum, Goes, TypeOK, Sent
<1> QED
  BY <1>2, <1>3 DEF scan, written, sum

LEMMA FileDraftsKept ==
    ASSUME TypeOK, NEW t \in Workers, OneFileLocks(t), FileDrafts(t),
           NEW u \in Workers, Step(u)
    PROVE  FileDrafts(t)'
<1>1. /\ DOMAIN pending = Workers /\ DOMAIN lock = Rows /\ DOMAIN draft = Rows
      /\ Board \in Rows /\ Board \notin Files /\ Files \subseteq Rows
  BY RowsAssumption DEF TypeOK, RowsAssumption, Rows, Board
<1>2. CASE u # t
  BY <1>1, <1>2, OthersStep, LockedRowsStay DEF FileDrafts
<1>3. CASE u = t /\ (Requests(t) \/ Release(t) \/ begin(t))
  BY <1>1, <1>3, NothingLocked DEF FileDrafts
<1>4. CASE u = t /\ (scan(t) \/ written(t) \/ sum(t))
  BY <1>4, NothingWritten DEF FileDrafts
<1>5. CASE u = t /\ (update_total_board_fsize(t) \/ set_live(t))
  <2>1. PICK s \in {"total", "live"} : At(t, s) /\ Goes(t)
    BY <1>5 DEF update_total_board_fsize, set_live
  <2>2. pending'[t].op = pending[t].op /\ pending[t] # Idle
    BY <2>1, GoneOn DEF At
  <2>3. \A f \in Files : lock'[f] = lock[f] /\ draft'[f] = draft[f]
    BY <1>1, <1>5 DEF update_total_board_fsize, set_live, Write
  <2>4. file' = file
    BY <1>5 DEF update_total_board_fsize, set_live
  <2> QED
    BY <2>2, <2>3, <2>4 DEF FileDrafts
<1>6. CASE u = t /\ write(t)
  <2>1. At(t, "write") /\ pending[t] \in Sent /\ pending[t] # Idle
        /\ pending[t].rows # <<>> /\ file' = file
    BY <1>6, Kinds DEF write, At
  <2>2. PICK h \in Files : h = Head(pending[t].rows)
    BY <2>1, Kinds DEF write
  <2>3. pending'[t].op = pending[t].op
    BY <1>1, <1>6, <2>1 DEF write, Sent
  <2>4. CASE FileSeen(t, h) \in Where(pending[t].op)
    <3>1. Write(t, h, Gives(pending[t].op))
      BY <1>6, <2>2, <2>4 DEF write
    <3>2. /\ lock'[h] = t /\ draft'[h] = Gives(pending[t].op)
          /\ \A f \in Files \ {h} : lock'[f] = lock[f] /\ draft'[f] = draft[f]
      BY <1>1, <3>1 DEF Write
    <3>3. file[h] \in Where(pending[t].op)
      BY <2>4 DEF FileSeen, FileDrafts
    <3>4. pending[t].op \in OneFileOps => \A f \in Files : lock[f] # t
      BY <1>1, <2>1 DEF OneFileLocks
    <3> QED
      BY <2>1, <2>3, <3>2, <3>3, <3>4 DEF FileDrafts
  <2>5. CASE FileSeen(t, h) \notin Where(pending[t].op)
    <3>1. UNCHANGED <<lock, draft>>
      BY <1>6, <2>2, <2>5 DEF write
    <3> QED
      BY <2>1, <2>3, <3>1 DEF FileDrafts
  <2> QED
    BY <2>4, <2>5
<1> QED
  BY <1>2, <1>3, <1>4, <1>5, <1>6
     DEF Step, Statement, deadlock_detected, rollback, commit

LEMMA BoardDraftKept ==
    ASSUME TypeOK, NEW t \in Workers, BoardDraft(t), NEW u \in Workers, Step(u)
    PROVE  BoardDraft(t)'
<1>1. /\ DOMAIN pending = Workers /\ DOMAIN lock = Rows /\ DOMAIN draft = Rows
      /\ Board \in Rows /\ Board \notin Files /\ Files \subseteq Rows
  BY RowsAssumption DEF TypeOK, RowsAssumption, Rows, Board
<1>2. CASE u # t
  <2>1. pending'[t] = pending[t]
        /\ (Running(t)' <=> Running(t)) /\ (At(t, "live")' <=> At(t, "live"))
    BY <1>2, OthersStep DEF Running, At
  <2>2. lock'[Board] = t <=> lock[Board] = t
    BY <1>1, <1>2, OthersStep
  <2>3. lock[Board] = t => draft'[Board] = draft[Board] /\ board' = board
    BY <1>1, <1>2, OthersStep, LockedRowsStay
  <2> QED
    BY <2>1, <2>2, <2>3 DEF BoardDraft, ShownBy
<1>3. CASE u = t /\ (Requests(t) \/ Release(t))
  <2>1. ~begin(t) \/ ~Running(t)'
    BY <1>1, <1>3, RequestStep DEF Request, Release, Running
  <2> QED
    BY <1>1, <1>3, <2>1, NothingLocked DEF BoardDraft
<1>4. CASE u = t /\ begin(t)
  <2>1. At(t, "begin") /\ Goes(t)
    BY <1>4 DEF begin
  <2>2. pending'[t].op \in BoardOps => At(t, "live")'
    BY <2>1, GoneOn, ManyGoOn DEF BoardOps, ManyFilesOps
  <2> QED
    BY <1>1, <1>4, <2>2, NothingLocked DEF BoardDraft
<1>5. CASE u = t /\ (scan(t) \/ written(t) \/ sum(t))
  BY <1>5, NothingWritten DEF BoardDraft, ShownBy
<1>6. CASE u = t /\ write(t)
  <2>1. At(t, "write") /\ pending[t] \in Sent /\ pending[t] # Idle
        /\ pending[t].rows # <<>> /\ UNCHANGED <<file, board>>
    BY <1>6, Kinds DEF write, At
  <2>2. Head(pending[t].rows) \in Files
    BY <2>1, Kinds
  <2>3. pending'[t].op = pending[t].op
    BY <1>1, <1>6, <2>1 DEF write, Sent
  <2>4. lock'[Board] = lock[Board] /\ draft'[Board] = draft[Board]
    BY <1>1, <1>6, <2>2 DEF write, Write
  <2>5. Running(t) /\ ~At(t, "live")
    <3>1. ~At(t, "live")
      BY <2>1, OneAt
    <3> QED
      BY <2>1, <3>1, AtRunning
  <2> QED
    BY <2>1, <2>3, <2>4, <2>5 DEF BoardDraft, ShownBy
<1>7. CASE u = t /\ update_total_board_fsize(t)
  <2>1. At(t, "total") /\ Goes(t) /\ board' = board
        /\ Write(t, Board, [BoardSeen(t) EXCEPT !.total = pending[t].sum])
    BY <1>7 DEF update_total_board_fsize
  <2>2. pending'[t].op = pending[t].op
    BY <2>1, GoneOn
  <2>3. Running(t) /\ ~At(t, "live")
    <3>1. ~At(t, "live")
      BY <2>1, OneAt
    <3> QED
      BY <2>1, <3>1, AtRunning
  <2>4. BoardSeen(t) \in BoardRow /\ BoardSeen(t).live = ShownBy(pending[t].op)
    BY <2>3, Seen DEF BoardSeen, BoardDraft, ShownBy, BoardOps
  <2>5. lock'[Board] = t
        /\ draft'[Board] = [BoardSeen(t) EXCEPT !.total = pending[t].sum]
    BY <1>1, <2>1 DEF Write
  <2>6. draft'[Board].live = ShownBy(pending[t].op)
    BY <2>4, <2>5 DEF BoardRow
  <2> QED
    BY <2>1, <2>2, <2>5, <2>6 DEF BoardDraft, ShownBy
<1>8. CASE u = t /\ set_live(t)
  <2>1. At(t, "live") /\ Goes(t) /\ board' = board
        /\ Write(t, Board, [BoardSeen(t) EXCEPT !.live = (pending[t].op = "restore_board")])
    BY <1>8 DEF set_live
  <2>2. /\ pending'[t].op = pending[t].op /\ pending'[t].next = pending[t].next + 1
        /\ pending'[t] # Idle
    BY <2>1, GoneOn
  <2>3. pending[t].op \notin OneFileOps /\ pending[t].op \in ManyFilesOps
    BY <2>1, <2>2, GoesOn, Kinds DEF Sent, At
  <2>4. pending[t].op \in BoardOps
    BY <2>1, <2>2, <2>3, ManyGoOn DEF BoardOps
  <2>5. lock'[Board] = t /\ draft'[Board]
          = [BoardSeen(t) EXCEPT !.live = (pending[t].op = "restore_board")]
    BY <1>1, <2>1 DEF Write
  <2>6. draft'[Board].live = (pending[t].op = "restore_board")
    BY <2>5, Seen DEF BoardRow
  <2> QED
    BY <2>2, <2>4, <2>5, <2>6 DEF BoardDraft, ShownBy, BoardOps
<1> QED
  BY <1>2, <1>3, <1>4, <1>5, <1>6, <1>7, <1>8
     DEF Step, Statement, deadlock_detected, rollback, commit

-----------------------------------------------------------------------------
(* All of it is kept *)

TInv == /\ TypeOK
        /\ OnlyMet
        /\ \A t \in Workers : OneFileLocks(t) /\ ZeroSum(t) /\ AloneSums(t)
        /\ \A t \in Workers : FileDrafts(t) /\ BoardDraft(t)

LEMMA TInductive == Spec => []TInv
<1>1. Init => TInv
  <2> SUFFICES ASSUME Init
               PROVE  TInv
    OBVIOUS
  <2>1. TypeOK
    BY InitTyped
  <2>2. /\ \A t \in Workers : pending[t] = Idle /\ t # NoOne
        /\ \A t \in Workers : \A row \in Rows : lock[row] # t
        /\ Board \in Rows /\ Files \subseteq Rows
    BY RowsAssumption DEF Init, RowsAssumption, Rows
  <2> QED
    BY <2>1, <2>2 DEF TInv, OnlyMet, OneFileLocks, ZeroSum, AloneSums, FileDrafts,
                      BoardDraft, Running
<1>2. TInv /\ [Next]_vars => TInv'
  <2> SUFFICES ASSUME TInv, [Next]_vars
               PROVE  TInv'
    OBVIOUS
  <2>1. TypeOK'
    BY StepsKeepTypes DEF TInv
  <2>2. ASSUME NEW u \in Workers, Step(u)
        PROVE  TInv'
    BY <2>1, <2>2, OnlyMetKept, OneFileLocksKept, ZeroSumKept, AloneSumsKept,
       FileDraftsKept, BoardDraftKept DEF TInv
  <2>3. CASE UNCHANGED vars
    <3>1. ASSUME NEW t \in Workers
          PROVE  AloneSums(t)'
      <4>1. /\ \A s : At(t, s)' <=> At(t, s)
            /\ Running(t)' <=> Running(t)
            /\ \A f : FileSeen(t, f)' = FileSeen(t, f)
            /\ BoardSeen(t)' = BoardSeen(t)
            /\ get_total_fsize(t)' = get_total_fsize(t)
            /\ pending'[t] = pending[t] /\ met'[t] = met[t]
        BY <2>3 DEF vars, Running, At, FileSeen, BoardSeen, get_total_fsize
      <4> QED
        BY <4>1 DEF TInv, AloneSums
    <3>2. \A t \in Workers : FileDrafts(t)' /\ BoardDraft(t)'
      BY <2>3 DEF vars, TInv, FileDrafts, BoardDraft, ShownBy, Running, At
    <3> QED
      BY <2>1, <2>3, <3>1, <3>2 DEF vars, TInv, OnlyMet, OneFileLocks, ZeroSum, Running, At
  <2> QED
    BY <2>2, <2>3 DEF Next, Step
<1> QED
  BY <1>1, <1>2, PTL DEF Spec
-----------------------------------------------------------------------------
(* The theorems *)

\* Rows, locks, drafts and requests keep their types; a locked row has a draft, and
\* whoever holds a lock is in a transaction.
THEOREM TransactionTypesHold == Spec => []TypeOK
<1>1. TInv => TypeOK
  BY DEF TInv
<1> QED
  BY <1>1, TInductive, PTL

\* Whatever overlapped before, the transaction that no other meets writes the size
\* of the live files: the sum, or the 0 of delete_all, is right when it is written.
THEOREM TransactionsAloneBalance == Spec => []AloneBalances
<1>1. TInv => AloneBalances
  <2> SUFFICES ASSUME TInv, NEW t \in Workers, At(t, "commit"), ~met[t],
                      pending[t].op # "delete_board"
               PROVE  BoardSeen(t).total = get_total_fsize(t)
    BY DEF AloneBalances
  <2>1. TypeOK /\ AloneSums(t) /\ ZeroSum(t) /\ pending[t] # Idle
    BY DEF TInv, At
  <2>2. Running(t)
    BY <2>1, AtRunning
  <2>3. BoardSeen(t).total = pending[t].sum
    BY <2>1, <2>2 DEF AloneSums
  <2>4. CASE pending[t].op = "delete_all"
    <3>1. {f \in Files : FileSeen(t, f) = "LIVE"} = {}
      BY <2>1, <2>2, <2>4 DEF AloneSums, Where, OneFileOps, ManyFilesOps
    <3> QED
      BY <2>1, <2>3, <2>4, <3>1, NoFilesNoSize DEF get_total_fsize, ZeroSum
  <2>5. CASE pending[t].op # "delete_all"
    BY <2>1, <2>2, <2>3, <2>5 DEF AloneSums
  <2> QED
    BY <2>4, <2>5
<1> QED
  BY <1>1, TInductive, PTL

\* Among transactions on single files somebody can go on, however many wait: one
\* who waits for a file waits for a transaction past its own file, which waits at
\* most for the board, whose holder waits for nobody.
THEOREM OneFileTransactionsDoNotDeadlock == Spec => []OneFileNoDeadlock
<1>1. TInv => OneFileNoDeadlock
  <2> SUFFICES ASSUME TInv, NEW S \in SUBSET Workers, Deadlocked(S),
                      \A t \in S : pending[t].op \in OneFileOps
               PROVE  FALSE
    BY DEF OneFileNoDeadlock
  <2>1. TypeOK /\ \A t \in S : OneFileLocks(t)
    BY DEF TInv
  <2>2. \A t \in S : pending[t] # Idle
    BY DEF Idle, OneFileOps
  <2>3. ASSUME NEW t \in S
        PROVE  \E row \in Wanted(t) : lock[row] \in S
    BY <2>3 DEF Deadlocked, WaitsFor
  <2>4. ASSUME NEW t \in S, lock[Board] = t
        PROVE  FALSE
    <3>1. At(t, "commit")
      BY <2>1, <2>2, <2>4 DEF OneFileLocks
    <3>2. Wanted(t) = {}
      BY <3>1, OneAt DEF Wanted
    <3> QED
      BY <2>3, <3>2
  <2>5. ASSUME NEW t \in S
        PROVE  \E f \in Files : lock[f] \in S
    <3>1. PICK row \in Wanted(t) : lock[row] \in S
      BY <2>3
    <3>2. row # Board
      BY <2>4, <3>1
    <3>3. At(t, "write") /\ pending[t].rows # <<>> /\ row = Head(pending[t].rows)
      BY <3>1, <3>2 DEF Wanted
    <3>4. row \in Files
      BY <2>1, <2>2, <3>3, Kinds
    <3> QED
      BY <3>1, <3>4
  <2>6. ASSUME NEW t \in S, NEW f \in Files, lock[f] = t
        PROVE  FALSE
    <3>1. PICK row \in Wanted(t) : lock[row] \in S
      BY <2>3
    <3>2. row # Board
      BY <2>4, <3>1
    <3>3. At(t, "write") /\ pending[t].rows # <<>>
      BY <3>1, <3>2 DEF Wanted
    <3> QED
      BY <2>1, <2>2, <2>6, <3>3 DEF OneFileLocks, Rows
  <2> QED
    BY <2>5, <2>6 DEF Deadlocked
<1> QED
  BY <1>1, TInductive, PTL

\* A transaction that ran statement by statement comes to one step on the rows it
\* leaves, however many others ran meanwhile: what ContentLifecycle takes for one
\* step is one, but for the files that others wrote after the scan.
THEOREM TransactionsAreSteps == Spec => CommitsAreSteps
<1>1. ASSUME TInv, [Next]_vars
      PROVE  [\A t \in Workers : commit(t) => AsOneStep(t)]_vars
  <2> SUFFICES ASSUME NEW t \in Workers, commit(t)
               PROVE  AsOneStep(t)
    OBVIOUS
  <2> DEFINE op == pending[t].op
             taken == {f \in Files : file'[f] # file[f]}
  <2>1. /\ TypeOK /\ FileDrafts(t) /\ BoardDraft(t) /\ AloneSums(t)
        /\ At(t, "commit") /\ pending[t] # Idle /\ op \in AllOps
    BY <1>1, Kinds DEF TInv, commit, At, Sent, AllOps
  <2>2. Running(t) /\ ~At(t, "live")
    BY <2>1, AtRunning, OneAt
  <2>3. \A f \in Files : file'[f] = IF lock[f] = t THEN Gives(op) ELSE file[f]
    BY <2>1 DEF commit, FileSeen, FileDrafts
  <2>4. \A f \in taken : lock[f] = t /\ file[f] \in Where(op) /\ file'[f] = Gives(op)
    BY <2>1, <2>3 DEF FileDrafts
  <2>5. op \in OneFileOps => \A f, g \in taken : f = g
    BY <2>1, <2>4 DEF FileDrafts
  <2>6. ASSUME op \in ManyFilesOps, ~met[t], NEW f \in Files, file[f] \in Where(op)
        PROVE  f \in taken
    <3>1. FileSeen(t, f) \notin Where(op)
      BY <2>1, <2>2, <2>6 DEF AloneSums
    <3>2. file'[f] = FileSeen(t, f)
      BY DEF commit
    <3> QED
      BY <2>6, <3>1, <3>2
  <2>7. board'.live = ShownBy(op)
    BY <2>1, <2>2 DEF commit, BoardSeen, BoardDraft, ShownBy, BoardOps
  <2> QED
    BY <2>4, <2>5, <2>6, <2>7 DEF AsOneStep, ShownBy
<1> QED
  BY <1>1, TInductive, PTL DEF Spec, CommitsAreSteps
=============================================================================
