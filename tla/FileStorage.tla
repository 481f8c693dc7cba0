---------------------------- MODULE FileStorage ----------------------------
(***************************************************************************)
(* The contents of the uploaded files in UPLOAD_DIR, beside the rows of    *)
(* ContentLifecycle.  An upload writes the content before its transaction; *)
(* only the job delete_files_perman removes contents: it fetches the paths *)
(* of the expired rows, removes them one by one, and then deletes the rows *)
(* that are expired by that time.  Requests, and the other jobs, run in    *)
(* between.                                                                *)
(***************************************************************************)
EXTENDS ContentLifecycle

CONSTANT RemoveMayFail   \* whether the operating system may refuse to remove

ASSUME RemovalAssumption == RemoveMayFail \in BOOLEAN

VARIABLES
    disk,     \* the files whose content is in UPLOAD_DIR
    sweep,    \* delete_files_perman: [running, paths still to be removed]
    late      \* history: files that came back too late for their content, below

storageVars == <<users, boards, files, pending, disk, sweep, late>>

NoSweep == [running |-> FALSE, paths |-> {}]

StorageInit == Init /\ disk = {} /\ sweep = NoSweep /\ late = {}
-----------------------------------------------------------------------------
(* Uploads *)

Uploading(w) == pending[w].op = "upload_files"

\* The name is a fresh uuid: no content is overwritten.
write_content(w) ==
    /\ Uploading(w) /\ pending[w].on \notin disk
    /\ disk' = disk \cup {pending[w].on}
    /\ UNCHANGED <<users, boards, files, pending, sweep, late>>

\* Mutant: the transaction does not wait for the content.
Written_unawaited(w) == TRUE

Written(w) == Uploading(w) => pending[w].on \in disk

RequestBegins(w) == Check(w) /\ UNCHANGED <<disk, sweep, late>>

\* The restorations that reach back to the day a file expires, or beyond.
LateRestores == {"restore_all_file"} \cup AdminRestores

\* The request brings back an expired file whose content a sweep has removed, or
\* is about to remove.
ReturnsLate(w, f) ==
    /\ pending[w].op \in LateRestores
    /\ FileExpired(f) /\ IsLive(files'[f])
    /\ f \in sweep.paths \/ f \notin disk

\* A request that fails after write_content leaves the content behind.
RequestEnds(w) ==
    /\ (Txn(w) /\ Written(w)) \/ abort(w)
    /\ late' = late \cup {f \in Files : ReturnsLate(w, f)}
    /\ UNCHANGED <<disk, sweep>>
-----------------------------------------------------------------------------
(* delete_files_perman *)

delete_file_paths == {f \in Files : FileExpired(f)}

get_delete_file_path ==
    /\ ~sweep.running
    /\ sweep' = [running |-> TRUE, paths |-> delete_file_paths]
    /\ UNCHANGED <<users, boards, files, pending, disk, late>>

\* A missing file and a refusal are logged; the loop goes on.
remove_content(f) ==
    /\ f \in sweep.paths
    /\ sweep' = [sweep EXCEPT !.paths = @ \ {f}]
    /\ \/ disk' = disk \ {f}
       \/ RemoveMayFail /\ disk' = disk
    /\ UNCHANGED <<users, boards, files, pending, late>>

\* The rows are chosen anew, whatever became of the contents.
finish_sweep ==
    /\ sweep.running /\ sweep.paths = {}
    /\ delete_files
    /\ sweep' = NoSweep
    /\ UNCHANGED <<disk, late>>

\* The server stops in the middle; the next hour's job starts over.
stop_sweep ==
    /\ sweep.running
    /\ sweep' = NoSweep
    /\ UNCHANGED <<users, boards, files, pending, disk, late>>

Sweep ==
    \/ get_delete_file_path
    \/ \E f \in Files : remove_content(f)
    \/ finish_sweep
    \/ stop_sweep
-----------------------------------------------------------------------------
\* The statements of the other jobs: delete_user_perman runs delete_files too.
OtherJobs == Scheduler /\ UNCHANGED <<disk, sweep, late>>

\* A sweep, like a request, lasts far less than a day.
Day == Tick /\ ~sweep.running /\ UNCHANGED <<disk, sweep, late>>

StorageNext ==
    \/ \E w \in Workers : RequestBegins(w) \/ write_content(w) \/ RequestEnds(w)
    \/ Sweep
    \/ OtherJobs
    \/ Day

StorageSpec == StorageInit /\ [][StorageNext]_storageVars
-----------------------------------------------------------------------------
(* Properties *)

StorageTypeOK ==
    /\ TypeOK
    /\ disk \subseteq Files /\ late \subseteq Files
    /\ sweep \in [running : BOOLEAN, paths : SUBSET Files]

\* A file that is shown, or deleted and not yet due for removal.
Unexpired(f) == IsRow(files[f]) /\ ~FileExpired(f)

\* The sweep works on a list that is stale by the time each path is removed, and
\* removes contents before rows; an upload writes its content before its row.  Every
\* row that is shown or not yet due has its content, but for one case: an
\* administrator's restoration (of up to 90 days), or an owner's restoration of a
\* whole board (which reaches the 30th day, as the sweep does), brings back an
\* expired row whose path a sweep has fetched.
UnexpiredFilesOnDisk == \A f \in Files \ late : Unexpired(f) => f \in disk

\* The list of a running sweep stays right although nothing locks its rows: no
\* request in flight when the list was made, and none begun since, makes a listed
\* row current again by deleting it anew or by restoring it, alone or with its board
\* or account, but for the restorations named above.
ListedFilesExpired == \A f \in sweep.paths \ late : ~Unexpired(f)
=============================================================================
