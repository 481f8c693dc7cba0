# FastAPI-Community-Backend in TLA+

Models, checks and proofs about the state that this backend keeps: the rows of
`user`, `boards` and `files`, the contents in `UPLOAD_DIR`, the keys in Redis.
Everything is translated from `src/app` and `src/alembic`; a docstring or a
comment is used only as a statement to check.

## 1. The system

One FastAPI process (`app/main.py`) serves requests on an asyncio loop. A
request takes a connection from an asyncpg pool (`db/database.py`), and its
service (`services/*.py`) follows one shape: **read and check** with separate
SELECTs that lock nothing, then **one transaction** that runs the UPDATEs
(`models/*.py`) and appends to the audit log. Between the two, and at every
other `await`, other requests run; so do the four jobs that APScheduler starts at
the same minute of every hour (`core/scheduler.py`), each statement of which
commits by itself. Nothing is deleted at once: a row is marked with `deleted_at`
and `deleted_by`, may be restored for some days, and is removed or anonymised by
a job.

| Component | State | Operations | What is hard | Correct when | Modelled in |
|---|---|---|---|---|---|
| Files | `files` rows; `boards.total_file_size` | upload, delete one / all, restore one / all (owner and administrator), hourly removal | check and commit are apart; the size is a cached sum that every operation must refresh | the size is right, the quota holds, windows hold | ContentLifecycle |
| Boards | `boards` rows | create, edit, delete, restore, administrator's delete (three options) and restore, notices, hourly removal | deletions cascade to files and must be undone together | a cascade mark never outlives its cause; what was deleted is kept while its owner may restore it, and a cascade returns, or goes, whole | ContentLifecycle, Retention; edits and notices: Popular |
| Accounts | `user` rows | withdraw, restore, administrator's delete and restore, hourly anonymisation | cascades over all boards of a user | same, and everything settles in the end | ContentLifecycle |
| Bans | `status`, `ban_count`, `ban_end_at`, `deleted_at` | ban, fourth ban, unban, and the deletions and restorations that write the same columns | six statements write overlapping columns chosen by a stale read | the columns agree, the ladder is 1, 3, 5 days, then deletion | BanLadder |
| Storage | contents in `UPLOAD_DIR` | written by an upload before its transaction; removed by the sweep | the sweep works from a list that grows stale | a file that is shown, or not yet due for removal, has its content | FileStorage |
| Registration | Redis `email_auth:*`, `email_verified:*`; `user.email`, `is_verified` | send code, check code, register, change the address | five or six awaited calls, no transaction, expiry, a stop half way | an account's address was confirmed; only a stop leaves it unverified | Registration |
| Scheduler | none of its own | four hourly jobs | any order among jobs and requests | | ContentLifecycle, FileStorage |
| Sessions | Redis `refresh:user:*` | login, refresh, logout | the key is deleted before the change it goes with is checked and committed | a stored token belongs to the password of the account | Sessions |
| Transactions | row locks of PostgreSQL | the statements of upload, delete and restore of files and boards | sums that miss what is not committed; locks taken in two orders | the sum is right when nobody else runs; everyone ends | Transactions |
| Views | `boards_view`, Redis `board_view:*` | look at a board | key asked, view inserted and key set in three calls; the board may go between | a view is recorded once per request until its key runs out | Views |
| Popular boards | Redis `popular_boards:*` | list, while boards are written, edited, deleted, restored and grow old | a list is read, then set: it may be stale when it is set | a list served is at most one life and one request behind | Popular |
| Profile | `user.id`, `password` | change id, change password, find a password | a temporary password is committed before it is mailed, to a user looked up twice | ids stay distinct, passwords reach their users | Sessions |
| Audit log, listings, validation, rate limits, logging | append-only or read-only | | | | no |

`PROJECT.json` holds the same list with sources, and the hazards line by line.

## 2. The modules

    ContentLifecycle ── ContentRetention ── MCContent ── ContentClaims      (TLC)
      │      │             └ INSTANCE Retention
      │      └── ContentProofs ── RetentionProofs (with FileStorage)        (TLAPS)
      └── FileStorage ── MCStorage                                          (TLC)
    BanLadder ── MCBan (TLC), BanProofs (TLAPS)
    Registration ── MCRegistration (TLC), RegistrationProofs (TLAPS)
    Sessions ── MCSessions (TLC), SessionsProofs (TLAPS)
    Views ── MCViews (TLC), ViewsProofs (TLAPS)
    Popular ── MCPopular (TLC), PopularProofs (TLAPS)
    Transactions ── MCTransactions (TLC), TransactionsProofs (TLAPS)

**ContentLifecycle** is the core: twenty operations. `users`, `boards` and
`files` hold a record per row: `mark` is `deleted_by` (or `LIVE`, `UNBORN` before
the serial index is drawn, `PURGED` when the row is gone), `age` the days since
`deleted_at`, `total` is `total_file_size`, `anon` says that id and password have
been overwritten. `pending` holds, for each request in flight, what it has
checked. An operation *op* of the code is two actions: `op(w, ...)`, whose guards
are the checks with their early returns, and `op_txn(w)`, the transaction with the
WHERE clauses of its statements (a statement that names the row by index alone
acts on a row whatever became of it since the check). `abort` is every failure in
between: the transaction rolls back. The jobs' statements are `delete_files`,
`delete_boards`, `delete_soft_deleted_user`. `Tick` is a day. `like` says that the id
is `LIKE 'DELETED_%'`, which an overwritten id is and a chosen one may be
(`schemas/user.py:38` admits `DELETED_1`).

**FileStorage** extends it with `disk` and the sweep of `delete_files_perman`:
list the expired paths, remove contents one at a time, delete the rows that are
expired by then. It composes with every request and the other jobs. Files expire on
the 30th day, and two kinds of restoration reach that day or beyond: an owner's of
all files of a board, and every administrator's. The history variable `late`
collects the files that such a one brings back after a sweep has fetched or removed
their paths; nothing guards against that in the code (section 5).

**Retention** is the abstract specification: an account is active or away, a board
open, closed or gone, a file shown, in the bin, waiting for its board or for its
user, or gone. It promises that the passing of time takes only what has been deleted 30
days, or lies on a board closed for 100; that nothing returns after 90; and that what
went along with a board or an account stays together: until it is removed, all of it
returns with the board or the account, and it is removed all at once. It does not
promise that the cascade lasts as long as its cause: from day 30 on the job removes
the files, and a board or an account that an administrator restores until day 90
then returns without them (section 5).
It knows no checks, overlaps, marks of who deleted what, or sizes. Of the requests it
knows one kind, `orders`: what administrators have asked to be erased at once. Orders
come and go in any step; nothing is erased before its time without one.
**ContentRetention** maps the rows to it (`accountBar`, `boardBar`, `fileBar`, and
`ordersBar` from the immediate deletions in flight) and `RetentionKept` is the
refinement.

**Transactions** opens one step of the core: the owner's transactions on the
files of one board, statement by statement as PostgreSQL runs them under READ
COMMITTED. `lock` and `draft` say who has written which row and what; a
statement that scans takes its rows one at a time in any order, waits for a row
that is locked, and asks its WHERE again. `deadlock_detected` is PostgreSQL's
answer to a cycle of waits.

**Views** has the three calls of a look at a board, with keys that run out,
boards that are deleted, restored and purged meanwhile, and failures in between.
**Popular** has the lists and everything that changes what they should hold:
boards and notices written, edited, deleted, restored, purged, grown too old.
In both, time passes in ticks, of which `RequestTicks` may pass under a request.

**BanLadder** keeps the four columns a ban is about; ContentLifecycle's `ban` is
its fourth ban, seen from the rows. **Registration** keeps every awaited call a
step of its own, since only the last one of a change of address is in a
transaction. **Sessions** does so for what touches a password: a stored refresh
token is the password it was obtained with, `known` holds the passwords that each
user has chosen or been mailed, and `unreached` records whose temporary password
was lost, or mailed to someone else. Asking for an access token only reads.

### Abstractions, and why they lose nothing the properties see

* *A transaction is one step* everywhere but in Transactions. Elsewhere requests
  interleave at the check and the commit. What one step hides, two transactions
  that each sum without the other's file, is stated in section 5; Transactions
  shows that it takes an overlap, and that otherwise a transaction comes to one step on
  the rows it takes, all of them if it met no other (`CommitsAreSteps`).
* *Days.* Ages count days and saturate at the longest window. `Tick` needs no
  request in flight, and `Day` no sweep: both last seconds. Real days are not
  whole, so a check may pass just before a window closes; properties about
  windows are stated for the ages that the check saw. Both bounds of 30 days are
  inclusive (`models/files.py:254`, `:362`), so a file of 30 days may be removed and
  may be restored. This also stands for a restoration that begins just before that
  moment and a sweep that starts just after it: `NOW()` is the time at which the
  transaction began, so either may come first.
* *Time zones.* Python compares `deleted_at` with its own clock and SQL with
  `NOW()`; the models have one clock.
* *Constants.* `WindowsAssumption` states the order of 7 < 30 = 30 < 90 < 100
  days and nothing else; the proofs hold for every such choice. TLC uses 0, 1, 1,
  2, 3. `RelationsAssumption` types the relations between rows.
* *The administrator* is not a row: no operation depends on the state of the
  administrator's own account except the token check.
* *`ban_count`* is not in ContentLifecycle: the ban that deletes may come at any
  time there. BanLadder says when it does.
* *Anonymisation* writes one fresh id. A restoration that read the old id then
  matches no row (`restore_user_data`). Whether a user's own id looks overwritten is
  chosen at `Init`: it can change only while its user is active, when no job reads
  it. Ids themselves, and their changes, are in Sessions.
* *Codes, addresses, passwords* are members of small sets. A key in Redis may
  expire at any moment. In Registration rows are neither deleted nor renamed: a
  row between its insert and its verification cannot log in, so its user cannot
  do either.
* *Transactions* has one board and no ages, quota or administrators; their
  single-file operations send the same statements. A restoration of a board is
  checked while the board is deleted, and the rest while it is there.
* *Views.* A viewer is what `get_viewer` made of a request (section 5 says what that
  is). A key may be asked for and set at any tick of its request, as calls take time.
* *Popular.* `view_count` is 0 on every board, since nothing updates it. Title and
  content are one text, and an option is the greatest age that it lists.
* *Sessions* has verified users only and leaves anonymised ones out: they do not
  return. Hashing is equality of passwords. The windows of restorations are in
  ContentLifecycle; here a deleted user may return at any time.

## 3. The runs

| Run | Instance | Checks |
|---|---|---|
| `sequential` | one request at a time, two files of sizes 1 and 2 on a board of quota 2, all operations | `TypeOK`, `TotalAccurate`, `CascadeFollowsCause`, `RestoredInTime`, `AdminDeletionSticks`, `QuotaKept` |
| `overlapping` | two requests, one file, all operations | `CascadeFollowsCause`, `RequestsInWindow`, `FilesHaveBoard`, `RestoredInTime`, `RestorablesKept`, `RetentionKept` |
| `settling` | one request, one file, fairness | `DeletedFilesSettle`, `DeletedUsersSettle` |
| `storage` | two requests, two files, a sweep that may fail and stop; uploads, deletions and restorations of files and of their board | `StorageTypeOK`, `UnexpiredFilesOnDisk`, `ListedFilesExpired` |
| `ban` | one request, two users | `TypeOK`, `StatusAgrees`, `LadderFollowed`, `FourthBanDeletes` |
| `registration` | two requests, two ids, two addresses, two codes | `TypeOK`, `EmailsConfirmed`, `UnverifiedWereInterrupted` |
| `sessions` | one request, two users, three ids, two passwords and a temporary one | `TypeOK`, `PasswordReachesUser`, `SessionsFollowPassword` |
| `views` | two requests, two boards, two viewers, keys of 2 ticks, requests of 1 | `TypeOK`, `ViewCountedOnce`, `KeysHaveViews` |
| `popular` | two requests, two boards, two texts, two options, lists of one board and 2 ticks, requests of 1 | `TypeOK`, `PopularKeepsUp` |
| `transactions` | two transactions, two files of sizes 1 and 2, fairness | `TypeOK`, `AloneBalances`, `OneFileNoDeadlock`, `CommitsAreSteps`, `RequestsEnd` |

and two runs that must find a violation (section 5).

What the properties say:

* `TotalAccurate`: a board that shows files shows their exact size, although
  some fifteen operations each refresh, zero or skip the cached sum. True of
  transactions one at a time: two that overlap may each sum without the other's file
  (section 5). The run has one request at a time; overlapping statements are in
  Transactions, `AloneBalances`.
* `CascadeFollowsCause`: a file marked `BOARD_CASCADE` or `USER_CASCADE` is on a
  board, or of a user, deleted at that very moment. Hence an owner who undoes the
  deletion, within 7 days, gets every file back: the 30-day window of the cascades
  never cuts off what the 7-day window of the cause let through. It says nothing of
  the kind for administrators, whose 90 days outlast the files of a cascade.
* `RequestsInWindow`: what a check accepted may change before the commit, yet a
  deleted row that a request acts on is within the window that its check accepted.
* `RestoredInTime`: no row comes back but by a restoration, and each within the
  window of its operation: 7 days for an owner's, of a file, a board or the account
  with their cascades; 30 for an owner's of all files of a board; 90 for an
  administrator's. (The documents of the API say 3 days: section 5.)
* `RestorablesKept`: the windows of removal and those of restoration are written
  apart in a dozen statements. Whatever overlaps, a file that its owner may still
  bring back, alone or with its board or the account, is taken away only by an
  administrator's immediate deletion, or with a board that an administrator deleted
  100 days before.
* `FilesHaveBoard`: the foreign key, with uploads in flight while a board goes.
* `AdminDeletionSticks`: no sequence of a user's operations revives or relabels
  what an administrator deleted. True of requests one at a time only: see
  `claim_adminoverlap`.
* `QuotaKept`: no step but a commit of `restore_all_file` or `admin_restore_file`
  makes a board, with the files that a restoration of it brings back, exceed the
  quota, or exceed it further. So a board that does may shrink by any operation, and
  the others never add to it. True of requests one at a time: see section 5.
* `RetentionKept`: the whole of Retention, with requests that overlap. It is broken
  by a job one day too early, one that takes a part of a cascade, a restoration that
  leaves a file of a cascade behind, one that comes too late, or a deletion that
  takes along what it should not.
* `DeletedFilesSettle`, `DeletedUsersSettle`: the jobs cover every mark a
  deletion can leave. Two kinds of users are left out of the second: those deleted
  with RETAIN, whom the documents promise to keep, and those whose id is
  `LIKE 'DELETED_%'`, whom the job passes over (section 5).
* `UnexpiredFilesOnDisk`, `ListedFilesExpired`: an upload writes its content before
  its row, a sweep works from a list that grows stale. Every row that is shown or not
  yet due has its content, and no listed row becomes current again, but for the files
  in `late`: no stale check lets another request delete a listed row anew or revive it.
* `StatusAgrees`, `LadderFollowed`, `FourthBanDeletes`: the columns of a ban.
* `EmailsConfirmed`, `UnverifiedWereInterrupted`: registration under overlap,
  expiry and interruption.
* `PasswordReachesUser`: however changes, look-ups, mails and failures mix, the
  only ways to be locked out of an account are a lost mail and a mail to the one
  who held the id before. With one request at a time a mail can only be lost; the
  theorem covers the overlaps.
* `SessionsFollowPassword`: a token of an earlier password is gone, even if the
  change fails half way. True of requests one at a time, and until `find_password`
  replaces the password, which leaves the token alone: see section 5.
* `ViewCountedOnce`: with a key asked for, a view inserted and a key set in three
  calls, each request in flight may record a viewer once, and none twice, until the
  key runs out. *n* requests at once do record *n* views.
* `KeysHaveViews`: a key never hides a viewer that is not recorded, although the
  insert may fail and the board, with its views, may be purged in between.
* `PopularKeepsUp`: a list read before a change and set after it is served on with
  a new life. It is wrong for less than a life and the time of a request, and that
  however many requests set it in turn.
* `AloneBalances`: whatever overlapping transactions left in `total_file_size`, one
  that no other overlaps makes it right.
* `CommitsAreSteps`: a transaction commits what its operation does to the rows as
  they are at that moment: each file it marks still asks for it, the board is
  shown or not as the operation says and otherwise as it was, although other
  transactions wrote the same rows between its statements. If it met no other, it
  takes every file of its WHERE: then it is the one step that the core has for it.
* `OneFileNoDeadlock`: uploads, deletions and restorations of single files lock the
  file before its board, and never wait in a circle. The bulk operations may,
  among themselves (rows in any order) and with a board's deletion (which locks the
  board first); that a deadlock ends, and with it both requests, is `RequestsEnd`.
* `TypeOK` of Sessions includes that ids are distinct, which a check before the
  transaction alone does not give.

**Bounds.** No counter is bounded by hand: ages saturate, rows are born once, and
`ban_count` is bounded by the ladder itself when one request runs at a time. One
board of one user is enough for the core, since every statement acts on the rows
of one board or one user; two or three files tell a file from the others of its
board and exceed the quota together; with two requests in flight one file
suffices for every stale check on a row. In `storage` two files, so that one may pass
the 7-day check of `restore_all_file` for both and the other come back on its last
day, and eight operations, among them each kind of restoration; the theorems have all
of them. In Registration two addresses, two ids
and two requests give every collision of two; two codes an outdated one. In
Sessions one id to spare lets two users change ids in turn, and one password to
spare makes an old and a new one. In Views and Popular two requests overlap in
every order, one board is deleted, edited or purged beside another, and lists of
one board (`Top` = 1, 5 in the code) leave the second out; a life of two ticks and
requests of one tell a key or a list set late from one set at once. `RequestTicks`
bounds how long a request may take: without it a list read could be set at any
later time, which `PopularKeepsUp` measures. `MaxAge` is where ages saturate and
`MaxBoards` how many serial indices are drawn. In Transactions two files are locked
in two orders, and two transactions suffice for a deadlock. The
proofs cover larger instances. **Symmetry** is over requests and, in Registration
and Views, over every set of equals; no run with a liveness property uses it.

**Fairness.** `FairSpec` of ContentLifecycle: `SF(Tick)`: days pass although
requests may keep arriving, so a moment with none in flight comes again and
again. `WF` of each job statement: APScheduler runs them every hour, and a run
that fails is followed by the next. `WF(Txn \/ abort)`: a request ends, one way or
the other. `Spec` of Transactions: `SF` of a transaction's statements, because PostgreSQL
queues those who wait for a row, so that nobody is overtaken for ever; `SF` of
`deadlock_detected`, because it looks for cycles after `deadlock_timeout`. Nothing
else is fair; no user has to do anything.

**Mutants.** Every property of a passing run is paired in `PROJECT.json` with a
mutated definition, kept in its module right before the original and marked
`Mutant`: a forgotten condition, `>` for `>=`, a missed refresh. With it the run
fails; so each property is sensitive to the code it is about.

## 4. Proofs

TLAPS checks these for every set of users, boards, files and requests, and every
windows within `WindowsAssumption`.

| Theorem | States |
|---|---|
| `ContentProofs!TypeCorrect` | `Spec => []TypeOK` |
| `ContentProofs!CascadesFollowCauses` | `Spec => []CascadeFollowsCause` |
| `ContentProofs!EveryFileHasBoard` | `Spec => []FilesHaveBoard` |
| `ContentProofs!RequestsStayInWindow` | `Spec => []RequestsInWindow` |
| `ContentProofs!RestorationsInTime` | `Spec => RestoredInTime` |
| `ContentProofs!RestorablesStayKept` | `Spec => RestorablesKept` |
| `ContentProofs!TotalsStayAccurate` | `Spec => []TotalAccurate`, for requests one at a time |
| `ContentProofs!AdminDeletionsStick` | `Spec => AdminDeletionSticks`, for requests one at a time |
| `ContentProofs!QuotaIsKept` | `Spec => QuotaKept`, for requests one at a time |
| `RetentionProofs!ContentIsRetained` | `Spec => RetentionKept`, the refinement |
| `RetentionProofs!StorageTypesHold` | `StorageSpec => []StorageTypeOK` |
| `RetentionProofs!UnexpiredContentsStay` | `StorageSpec => []UnexpiredFilesOnDisk` |
| `RetentionProofs!ListedFilesStayExpired` | `StorageSpec => []ListedFilesExpired` |
| `BanProofs!AccountTypesHold` | `Spec => []TypeOK` |
| `BanProofs!ColumnsAgree` | `Spec => []StatusAgrees` |
| `BanProofs!BansFollowLadder` | `Spec => []LadderFollowed`, for requests one at a time |
| `BanProofs!FourthBansDelete` | `Spec => []FourthBanDeletes`, for requests one at a time |
| `RegistrationProofs!RegistrationTyped` | `Spec => []TypeOK` |
| `RegistrationProofs!AddressesConfirmed` | `Spec => []EmailsConfirmed` |
| `RegistrationProofs!RegistrationsComplete` | `Spec => []UnverifiedWereInterrupted` |
| `SessionsProofs!SessionsTyped` | `Spec => []TypeOK` |
| `SessionsProofs!PasswordsReachUsers` | `Spec => []PasswordReachesUser` |
| `SessionsProofs!TokensFollowPasswords` | `Spec => []SessionsFollowPassword`, for requests one at a time |
| `ViewsProofs!TypesHold` | `Spec => []TypeOK` |
| `ViewsProofs!ViewsCountOnce` | `Spec => []ViewCountedOnce` |
| `ViewsProofs!KeysStandForViews` | `Spec => []KeysHaveViews` |
| `PopularProofs!TypesHold` | `Spec => []TypeOK` |
| `PopularProofs!PopularListsKeepUp` | `Spec => []PopularKeepsUp` |
| `TransactionsProofs!TransactionTypesHold` | `Spec => []TypeOK` |
| `TransactionsProofs!TransactionsAloneBalance` | `Spec => []AloneBalances` |
| `TransactionsProofs!TransactionsAreSteps` | `Spec => CommitsAreSteps` |
| `TransactionsProofs!OneFileTransactionsDoNotDeadlock` | `Spec => []OneFileNoDeadlock` |

The argument in each case: an invariant `IInv` that holds initially, is kept by
each action (one lemma per kind of operation), and implies the theorem.

* *Core.* The properties are not inductive one by one. A transaction acts on
  stale checks, so `IInv` carries what a request in flight may rely on:
  `RequestsInWindow` (its row is within the window it was checked for, which
  `Tick` cannot break while it runs) and `CreationsDistinct` (the row it will insert
  is not there). `CascadeFollowsCause` needs the equal ages of file and cause to
  show that the restoring UPDATE's window takes every file. `RestoredInTime` and
  `RestorablesKept` are step properties. The first follows from `RequestsInWindow`
  and, for the files of a cascade, from their cause's age, operation by operation; the
  second because a file has the age of its cause and 7 < 30 (`RestorableUnexpired`),
  and every transaction that takes rows away is an immediate deletion (`TxnErases`).
  `IInv` holds `TotalAccurate` too: each transaction that shows a file sums anew, by
  three lemmas about `SumSize`. In `Spec` it holds for any number of workers, but
  there a transaction is one step; the theorem is stated for requests one at a time,
  where the program's transactions come to that.
* *Core, one request at a time.* `OInv` adds `ChecksHold` to `IInv`: what the one
  request in flight was checked for is still so. The jobs may run in between, but
  they only take rows away, and none that a restoration in its window needs. Hence a
  user's restoration still meets the user's own mark (`AdminDeletionsStick`), and the
  size an upload or a restoration was checked with is no smaller than it is now
  (`QuotaIsKept`). A load is a sum over files that come and go, so the quota needs
  that sums add up and grow with their files. The fold in `SumSize` is unfolded
  once, and each fact about sets of any size follows by a least counterexample: the
  strict subsets of a finite set are well-founded. A deletion or a return of a whole
  board keeps within what `LoadOf` counted already, because a cascade stays in it.
* *Retention.* Each transaction is shown to be one action of Retention, from the same
  `IInv`: a request that has passed its check is in time (`RequestsInWindow`), and a
  restoration takes the whole cascade, and the job all of it or nothing, because file
  and cause have one age (`CascadeFollowsCause`). An immediate deletion is its own order (`RequestOrders`).
  Checks, aborts and sizes are stutters.
* *Storage.* `SInv` adds to `IInv` that a listed file is expired or gone, and that a
  row not yet due has its content, but for `late`. A step leaves a file, takes it
  away, finds it live or not yet due, or inserts its row after its content
  (`FileStays`): a request that deletes a file anew had found it live, and those that
  restore within 7 days find it, or the cause of its cascade, that young
  (`RestorationsInTime`). What is left are the commits of `LateRestores` on an expired
  file, which `late` records where the sweep has its path or its content. No
  hypothesis on the operations or on the two windows of 30 days is needed.
* *Bans.* `StatusAgrees` needs the types (the days of a pending ban are never 0)
  and that each UPDATE maps an agreeing row to an agreeing row, whatever the check
  saw. For the ladder `OneInv` adds `BansFresh`: the ban in flight still finds the
  count it was chosen by, which a second request breaks.
* *Registration.* `RequestsConfirmed`: a request past its mark has a confirmed
  address, even if the mark expires under it. `RowsAwaited`: until its last
  statement a registration finds its own row by the address, since whoever changes
  an address is verified already.
* *Sessions.* `ChosenKnown`: the password that a change in flight will write is
  one its user chose. Between `issue` and `mail` the request in flight itself
  vouches for the password; `mail` makes it known to its addressee or counts the
  row's user among the unreached. Types need the ids distinct, which `userId_modify`
  keeps by the UNIQUE constraint and `modify_id`'s check does not. For one request at
  a time `CallFresh`: a login about to store its token still holds the account's
  password, and a change past its first call has removed the token.
* *Views.* `CountedShows`: who has recorded a view has the key before it, or is the
  one that will set it. `SettingHasView`: until then the view is there, if the board is.
* *Popular.* `ReadKeepsUp`: a list that a request holds is current, or the boards
  changed no longer ago than the request has taken; setting it turns that into
  `PopularKeepsUp`, and a tick adds one to `quiet` as it takes one off the life.
* *Transactions.* The parts of `TInv`: `OneFileLocks`: a transaction on one file
  locks nothing before the file and waits for nothing once it has the board; so a
  set of such transactions in which everyone waits for another would need one that
  holds a file and waits for the board, whose holder waits for nobody.
  `AloneSums`: what a transaction that met no other has summed is the size of the
  files as it sees them (`delete_all` sees none when it stores its 0), and its draft of
  the board carries that size to the commit. `ZeroSum`: `delete_all` takes no sum, it stores 0. `OnlyMet`: two
  transactions that run at once have met. For `CommitsAreSteps`, `FileDrafts`: a file
  that a transaction has marked still asks for it among the committed rows, since
  its lock keeps the others off; `BoardDraft` says so of the board, and that who
  deletes or restores it has it locked from the first statement on. That a
  transaction alone takes every file is `AloneSums` again: until it is written, a file
  that asks is among the rows still to do.

The assumptions are `RelationsAssumption` and `WindowsAssumption` (core),
`RemovalAssumption` (FileStorage), `NoneAssumption` (Registration),
`FirstAssumption` and `NothingAssumption` (Sessions), `BoundsAssumption` (Views,
Popular) and `RowsAssumption` (Transactions); TLC evaluates them in the runs. The
set of files is finite in the core and in Transactions: the serial index of the
table has four bytes. Users, boards and workers may be any sets. `OneAtATime`, a
hypothesis of the theorems that are about requests one at a time, names a part of
the real histories: those without overlaps.

**Only model-checked**: every liveness property (`DeletedFilesSettle`,
`DeletedUsersSettle`, `RequestsEnd`), which needs fairness and `ENABLED`, out of this
prover's reach; and the two findings, which are violations. Every invariant and
every step property of the passing runs is a theorem.

## 5. Findings

Each has a run that must find the violation.

1. `claim_adminoverlap`. A user's restoration of a board is checked, an
   administrator deletes the board, the restoration commits: its UPDATE names the
   index alone and undoes the administrator's deletion, which
   `services/boards.py:432` says a user cannot.
2. `claim_emails`. The duplicate check of a changed address compares a coroutine
   with `None` (no `await`) and the wrong way round: addresses in use are accepted.
   Two overlapping registrations of one address pass theirs, too.

### Divergences the definitions carry

Seen while translating; the definitions follow the code, and the properties are
stated so as to hold of it.

* `delete_user_perman` and `delete_boards_perman` delete file rows at the minute the
  sweep runs; what they delete first the sweep never lists, and its content stays
  (`services/user.py:258`, against the comment at `services/files.py:416`).
* Two bans that read `ban_count` 2 bring it to 4 and skip the deletion; every later
  ban is refused as a fifth (`services/admin.py:188`, against `api/admin.py:135`).
* Two transactions on one board may each sum the files without the other's, and the
  later one stores its sum: `total_file_size` is wrong until a transaction that no
  other overlaps (`services/files.py:131`). `TotalAccurate` is claimed of one request
  at a time for this reason.
* What went along with a board or an account goes after 30 days, also when an
  administrator deleted the cause and may restore it until day 90: it returns without
  its files (`models/files.py:254`). `api/admin.py:189-190` and `:225-226` promise the
  files 100 days, `:192` and `:228` a restoration within 90, and the comment at
  `models/files.py:247` 100 days for every file.
* An owner restores a file for 7 days, and all files of a board for 30, once one of
  7 is among them (`services/files.py:376`, `models/files.py:362`); `api/files.py:115`
  and `:145` say 3 days.
* A user may take an id such as `DELETED_1` or `DELETED123` (`schemas/user.py:38`; `_`
  is any character to LIKE). Such a user, once deleted, is never anonymised
  (`models/user.py:191`).
* The anonymising job may rename a user between the check and the commit of a
  restoration: the UPDATE matches no row, the files return all the same and the user
  stays deleted (`services/admin.py:510`).
* *n* requests of one viewer at once record *n* views; a view whose key could not be
  set is recorded again (`services/boards.py:106`).
* Nothing calls `update_view_count` (`models/boards.py:354`): the ranking by
  `view_count` (`api/boards.py:118`) is by index alone.
* `get_viewer` takes the token's `sub`, a user's index, for an id
  (`core/security.py:145`): a signed-in viewer is recorded as anonymous, or as
  whoever has that number as id.
* Popular boards are served up to ten minutes after they are edited or deleted
  (`services/boards.py:520`).
* A board's page lists the files that were deleted, too (`models/boards.py:161`).
* Title and content of a board deleted since the check are edited all the same
  (`services/boards.py:275`).
* `restore_all_file` looks at the size of the files of 7 days and restores those
  of 30 (`services/files.py:377`, `models/files.py:354`; the comment at
  `services/files.py:376` says 7 days). It may exceed the quota.
* `restore_board` looks at no size (`services/boards.py:435`; `api/boards.py:288`
  says 25MB); an administrator's restoration of one file of a deleted board, which
  looks at none either, makes it exceed the quota.
* Two uploads may both find room (`services/files.py:93`), and exceed the quota.
* The administrators' bulk deletion leaves `total_file_size` as it was
  (`services/admin.py:479`) while its audit record says 0.
* Users deleted with RETAIN are anonymised after 100 days (`models/user.py:196`;
  `api/admin.py:190` says their data is kept for good).
* Files their owner deleted go after 30 days (`models/files.py:254`;
  `api/files.py:59` and `api/user.py:179` say 100).
* A returning user's files revive also on boards that an administrator deleted in
  the meantime (`services/user.py:558`; compare `api/admin.py:223`).
* An administrator cannot restore a board without restorable files: the sum is
  NULL, and comparing it with the quota fails (`services/admin.py:591`).
* An administrator may restore a file of 30 to 90 days that a running sweep has
  listed, alone or with others, and so may an owner's restoration of all files of a
  board on the 30th day, or one whose transaction began before the sweep's SELECT
  (`models/files.py:254` and `:362`, both inclusive): the row is live, its content is
  removed (`services/files.py:426`). When a sweep has removed the content and stopped
  before it deleted the rows, the same happens without an overlap. `late` holds these
  files.
* A login with the old password, between the deletion of the refresh token and the
  change of the password, stores a token that outlives the change
  (`api/user.py:275`). The token is also gone when the password sent is wrong.
* An administrator's deletion, a fourth ban and a found password leave the refresh
  token in Redis; the comment at `api/user.py:306` says it is deleted at the moment
  of a deletion. A deleted user is refused at every use (`core/security.py:115`).
* `find_password` takes the address from one look-up of the id and the row from
  another (`services/user.py:351`): when the id changes hands in between, the
  password of one user is replaced and mailed to the other.
* An upload whose transaction fails leaves its content on the disk
  (`services/files.py:129`).

## 6. Not modelled, and why

The JWTs and their cookies (only the stored refresh token is state); the audit log
(written, never read); listings, search and validation (no state); rate limits,
logging, the mail server (libraries and I/O). The limit of the connection pool: a
request takes one connection and asks for no second, so that it can only wait for
requests that end. The rows of the data base before the first migration are not
considered: `Init` is the empty schema with its users registered.

## 7. Plan

Done, in this order: ContentLifecycle with its runs and proofs, FileStorage,
BanLadder, Registration and Sessions with their proofs; then Retention and the
refinement with its proof, the proofs of FileStorage, of the ban ladder and of
sessions one request at a time, Views and Popular with their proofs,
Transactions with its proofs, and the proofs of the core one request at a time. Next:

1. *Transactions*: the transactions on all boards of a user and the administrators'
   bulk deletions, which lock the boards first.
2. *Composition* of Sessions with Registration: one account's rows under both.
