------------------------------- MODULE VfsStore -------------------------------
(***************************************************************************)
(* What the virtual filesystem shares with the sync engine: the rows of    *)
(* drive_files (gdriver-vfs/src/db.rs; an inode is a rowid), the files of  *)
(* the cache directory and the queue of tasks.  The engine's side runs the *)
(* queued downloads, uploads and deletes and the poll of Drive's changes,  *)
(* one at a time; the platform's callbacks run beside it, on threads of    *)
(* their own, and every database or file access is a place where the other *)
(* side may run.                                                           *)
(***************************************************************************)
EXTENDS Naturals, Sequences

CONSTANTS
    Name,          \* names a user gives to files and folders
    None,          \* no row, no path, no file, nothing in progress
    MaxInode,      \* bound: rows of drive_files
    MaxHandles,    \* bound: open handles
    MaxOps,        \* bound: requests that change something, and edits made on Drive
    MaxWinOps,     \* the same for the platform with several threads
    MaxFaults      \* bound: failed transfers and failed file creations

ASSUME VfsConstants ==
    /\ MaxInode \in Nat /\ MaxInode >= 2
    /\ {MaxHandles, MaxOps, MaxWinOps, MaxFaults} \subseteq Nat
    /\ None \notin Name /\ None \notin Nat /\ Name \cap Nat = {}

VARIABLES
    platform, mount,                            \* backend.rs
    row, disk, queue,                           \* db.rs, cache directory
    engine, drive, unseen,                      \* the engine's work, Drive, unpolled changes
    known, open_files, next_fh, call, reply,    \* the kernel and the callbacks
    ops, faults

storeVars == <<row, disk, queue>>
engineVars == <<engine, drive, unseen, faults>>
fsVars == <<known, open_files, next_fh>>
mountVars == <<platform, mount>>
vfsVars == <<mountVars, storeVars, engineVars, fsVars, call, reply, ops>>

-----------------------------------------------------------------------------
Inode == 1..MaxInode
ROOT_INODE == 0
Thread == {1, 2}
Fh == 1..MaxHandles

\* A cache file is called by its file's id, or by a name after a rename.
Path == Inode \cup Name

\* What a cache file holds: a version of the file on Drive, or what the user
\* wrote.  Every write opens with truncate, so one write is the whole file.
Content == [of : Inode, src : {"drive", "user"}, ver : Nat]

Row == [name : Name \cup Inode, parent : 0..MaxInode,
        kind : {"file", "folder", "workspace"},
        state : {"cloud_only", "cached", "modified", "offline"},
        path : Path \cup {None}, trashed : BOOLEAN, ver : Nat]

Task == [op : {"download", "upload", "delete", "rename"}, ino : Inode,
         path : Path \cup {None}]

Work == [op : {"download"}, at : {"fetch", "row"}, task : Task, copy : Row]
        \cup [op : {"delete"}, task : Task, copy : Row]

DriveFile == [ver : Nat, name : Name \cup Inode, parent : 0..MaxInode]

ASSUME NoneIsNoRow == None \notin Row \cup DriveFile

Handle == [ino : 0..MaxInode, path : Path \cup {None}, doomed : BOOLEAN]

Call ==
    [op : {"read"}, at : {"wait", "file"}, ino : Inode, path : Path, seen : Nat,
     modified : BOOLEAN]
    \cup [op : {"create"}, ino : Inode]
    \cup [op : {"write"}, ino : Inode]
    \cup [op : {"unlink"}, ino : Inode, path : Path \cup {None}]
    \cup [op : {"renamed"}, ino : Inode, name : Name]
    \cup [op : {"insert"}, parent : 0..MaxInode, name : Name, dir : BOOLEAN]
    \cup [op : {"replace"}, ino : Inode, parent : 0..MaxInode, name : Name]

Code == {"none", "ok", "ENOENT", "EIO", "EISDIR", "EOPNOTSUPP", "ENOTSUP", "EBADF",
         "EEXIST", "ENOTDIR", "ENOTEMPTY", "NOT_FOUND", "NOT_SUPPORTED",
         "NOT_A_DIRECTORY", "COLLISION", "CANNOT_DELETE", "NOT_EMPTY",
         "INTERNAL_ERROR", "IO_TIMEOUT"}

Reply == [code : Code]
         \cup [code : {"data"}, ino : Inode, seen : Nat, modified : BOOLEAN,
               data : Content]

\* Every variable keeps its type.
VfsTypeOK ==
    /\ platform \in {"linux", "macos", "windows"}
    /\ mount \in {"none", "mounted", "failed", "unmounted"}
    /\ row \in [Inode -> Row \cup {None}]
    /\ disk \in [Path -> Content \cup {None}]
    /\ queue \in Seq(Task)
    /\ engine \in Work \cup {None}
    /\ drive \in [Inode -> DriveFile \cup {None}]
    /\ unseen \subseteq Inode /\ known \subseteq Inode
    /\ open_files \in [Fh -> Handle \cup {None}] /\ next_fh \in 1..(MaxHandles + 1)
    /\ call \in [Thread -> Call \cup {None}]
    /\ reply \in Reply
    /\ {ops, faults} \subseteq Nat

-----------------------------------------------------------------------------
\* The queries of db.rs.

Live(i) == row[i] # None /\ ~row[i].trashed

\* Two live rows of a folder may share a name: any of them is the answer.
lookup_by_parent_and_name(p, n) ==
    {i \in Inode : Live(i) /\ row[i].parent = p /\ row[i].name = n}

list_children_by_inode(p) == {i \in Inode : Live(i) /\ row[i].parent = p}

has_children(p) == list_children_by_inode(p) # {}

\* get_parent_info, or get_first_account_id for the root.
ParentKnown(p) == p # ROOT_INODE => Live(p)

cache_path(i) == i

\* local_path, or the cache path when the row has none.
LocalPath(i) == IF row[i].path # None THEN row[i].path ELSE cache_path(i)

Free == {i \in Inode : row[i] = None}
\* The rowid SQLite gives a new row is one that no row has.
NewInode == CHOOSE i \in Free : TRUE

LocalFile(i, p, n) ==
    [name |-> n, parent |-> p, kind |-> "file", state |-> "modified",
     path |-> cache_path(i), trashed |-> FALSE, ver |-> 0]

insert_local_file(p, n) == row' = [row EXCEPT ![NewInode] = LocalFile(NewInode, p, n)]

insert_local_folder(p, n) ==
    row' = [row EXCEPT ![NewInode] =
               [name |-> n, parent |-> p, kind |-> "folder", state |-> "cloud_only",
                path |-> None, trashed |-> FALSE, ver |-> 0]]

\* Mutant: a state that no other query knows.
update_file_size_mtime_dirty(i) == row' = [row EXCEPT ![i].state = "dirty"]

update_file_size_mtime(i) == row' = [row EXCEPT ![i].state = "modified"]

soft_delete_by_inode(i) == row' = [row EXCEPT ![i].trashed = TRUE]

rename_file(i, n, p) ==
    row' = [row EXCEPT ![i].name = n, ![i].parent = p, ![i].state = "modified"]

enqueue_task(op, i, p) ==
    queue' = Append(queue, [op |-> op, ino |-> i, path |-> p])

enqueue_download_task(i, p) == enqueue_task("download", i, p)

enqueue_upload_task(i, p) == enqueue_task("upload", i, p)

\* It also looks for "error", which no code of the daemon writes, and "synced",
\* which the files of a mounted drive never are.
wait_for_download(i) == row[i].state \in {"cached", "offline"}

-----------------------------------------------------------------------------
\* The engine.  A file's own content on Drive is told apart by its version.

OfDrive(i) == [of |-> i, src |-> "drive", ver |-> drive[i].ver]
OfUser(i) == [of |-> i, src |-> "user", ver |-> 0]

Counted ==
    /\ ops < IF platform = "windows" THEN MaxWinOps ELSE MaxOps
    /\ ops' = ops + 1

EngineStep == UNCHANGED <<mountVars, fsVars, call, reply, ops>>

\* Mutant: the poll keeps what the row says of the cache.
RowOfDriveKept(i) ==
    [name |-> drive[i].name, parent |-> drive[i].parent, kind |-> row[i].kind,
     state |-> row[i].state, path |-> row[i].path, trashed |-> FALSE,
     ver |-> drive[i].ver]

\* map_api_file_to_db: the row as Drive knows the file.
RowOfDrive(i) ==
    [name |-> drive[i].name, parent |-> drive[i].parent,
     kind |-> row[i].kind, state |-> "cloud_only", path |-> None, trashed |-> FALSE,
     ver |-> drive[i].ver]

\* download_file takes the task and reads the row.
DownloadStarts ==
    /\ engine = None /\ queue # <<>> /\ Head(queue).op = "download"
    /\ engine' = [op |-> "download", at |-> "fetch", task |-> Head(queue),
                  copy |-> row[Head(queue).ino]]
    /\ queue' = Tail(queue)
    /\ UNCHANGED <<row, disk, drive, unseen, faults>> /\ EngineStep

\* The content arrives and is renamed over the cache file.
DownloadArrives ==
    /\ engine # None /\ engine.op = "download" /\ engine.at = "fetch"
    /\ drive[engine.task.ino] # None
    /\ disk' = [disk EXCEPT ![engine.task.path] = OfDrive(engine.task.ino)]
    /\ engine' = [engine EXCEPT !.at = "row"]
    /\ UNCHANGED <<row, queue, drive, unseen, faults>> /\ EngineStep

\* The row as it was read goes back, cached and with the path.
DownloadRecorded ==
    /\ engine # None /\ engine.op = "download" /\ engine.at = "row"
    /\ row' = [row EXCEPT ![engine.task.ino] =
                  [engine.copy EXCEPT !.state = "cached", !.path = engine.task.path]]
    /\ engine' = None
    /\ UNCHANGED <<disk, queue, drive, unseen, faults>> /\ EngineStep

\* handle_download_failure: a file Drive does not have, or a failed transfer.
\* The task goes back to the queue or is given up; the row keeps its state.
DownloadFails ==
    /\ engine # None /\ engine.op = "download" /\ engine.at = "fetch"
    /\ \/ faults < MaxFaults /\ faults' = faults + 1
          /\ queue' \in {queue, Append(queue, engine.task)}
       \/ drive[engine.task.ino] = None /\ UNCHANGED <<faults, queue>>
    /\ engine' = None
    /\ UNCHANGED <<row, disk, drive, unseen>> /\ EngineStep

\* upload_file: whatever row the task is about, a new file is created in the
\* root of the Drive, called as the cache file, and gets a row of its own.  A
\* missing cache file fails the task, a row that cannot be written is logged.
\* check_and_resolve, which the engine calls before it, only reads and finds no
\* conflict here, since no row has an etag (Transfers).
UploadRuns ==
    /\ engine = None /\ queue # <<>> /\ Head(queue).op = "upload"
    /\ queue' = Tail(queue)
    /\ IF Head(queue).path # None /\ disk[Head(queue).path] # None /\ Free # {}
       THEN LET new == [ver |-> 1, name |-> Head(queue).path, parent |-> ROOT_INODE] IN
            /\ drive' = [drive EXCEPT ![NewInode] = new]
            /\ row' = [row EXCEPT ![NewInode] =
                          [name |-> new.name, parent |-> new.parent, kind |-> "file",
                           state |-> "cloud_only", path |-> None, trashed |-> FALSE,
                           ver |-> new.ver]]
            /\ unseen' = unseen \cup {NewInode}
       ELSE UNCHANGED <<drive, row, unseen>>
    /\ UNCHANGED <<disk, engine, faults>> /\ EngineStep

\* handle_remote_delete: every delete task of the filesystem has a file id, so
\* it reads the row, removes the local copy and asks nothing of Drive.
DeleteStarts ==
    /\ engine = None /\ queue # <<>> /\ Head(queue).op = "delete"
    /\ LET task == Head(queue)
           copy == row[task.ino]
       IN /\ engine' = [op |-> "delete", task |-> task, copy |-> copy]
          /\ disk' = IF copy.path # None THEN [disk EXCEPT ![copy.path] = None] ELSE disk
    /\ queue' = Tail(queue)
    /\ UNCHANGED <<row, drive, unseen, faults>> /\ EngineStep

DeleteRecorded ==
    /\ engine # None /\ engine.op = "delete"
    /\ row' = [row EXCEPT ![engine.task.ino] =
                  [engine.copy EXCEPT !.state = "cloud_only", !.path = None]]
    /\ engine' = None
    /\ UNCHANGED <<disk, queue, drive, unseen, faults>> /\ EngineStep

\* The engine knows no operation "rename": it marks the task completed.
RenameTaskIgnored ==
    /\ engine = None /\ queue # <<>> /\ Head(queue).op = "rename"
    /\ queue' = Tail(queue)
    /\ UNCHANGED <<row, disk, engine, drive, unseen, faults>> /\ EngineStep

\* process_change in stream mode, between two tasks of the same loop.
PollApplies(i) ==
    /\ engine = None /\ i \in unseen
    /\ unseen' = unseen \ {i}
    /\ row' = [row EXCEPT ![i] = RowOfDrive(i)]
    /\ UNCHANGED <<disk, queue, engine, drive, faults>> /\ EngineStep

\* Somebody edits a file on Drive (external).
EditOnDrive(i) ==
    /\ Counted /\ drive[i] # None
    /\ drive' = [drive EXCEPT ![i].ver = @ + 1]
    /\ unseen' = unseen \cup {i}
    /\ UNCHANGED <<mountVars, storeVars, engine, faults, fsVars, call, reply>>

-----------------------------------------------------------------------------
\* The two IPC handlers that write a row's state, each with one statement.

\* fs.set_offline finds a row by its local_path only: that of a mounted file is
\* called by the file id, so this is a path in the cache directory or that of a
\* file named like the id, as uploads make them.
set_offline(i, enabled) ==
    /\ Counted /\ Live(i) /\ row[i].path # None
    /\ row' = [row EXCEPT ![i].state = IF enabled THEN "offline" ELSE "cached"]
    /\ UNCHANGED <<mountVars, disk, queue, engineVars, fsVars, call, reply>>

\* offline.clear_cache removes no file: pinned rows become cached ones.
clear_cache ==
    /\ Counted
    /\ row' = [i \in Inode |->
                 IF Live(i) /\ row[i].state = "offline"
                 THEN [row[i] EXCEPT !.state = "cached"] ELSE row[i]]
    /\ UNCHANGED <<mountVars, disk, queue, engineVars, fsVars, call, reply>>

PinNext == clear_cache \/ \E i \in Inode, b \in BOOLEAN : set_offline(i, b)

-----------------------------------------------------------------------------
EngineNext ==
    \/ DownloadStarts \/ DownloadArrives \/ DownloadRecorded \/ DownloadFails
    \/ UploadRuns \/ DeleteStarts \/ DeleteRecorded \/ RenameTaskIgnored
    \/ \E i \in Inode : PollApplies(i) \/ EditOnDrive(i)
=============================================================================
