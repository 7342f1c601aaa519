------------------------------ MODULE VirtualFs ------------------------------
(***************************************************************************)
(* The virtual filesystem on the three platforms: daemon start mounts the  *)
(* backend of the platform (vfs/mod.rs), the callbacks and the engine run  *)
(* side by side, shutdown drops the handle.                                *)
(***************************************************************************)
EXTENDS MacFs, WinFs

CONSTANTS FolderName, FileName    \* the names of the first two rows

ASSUME FirstNames == {FolderName, FileName} \subseteq Name

Folder == [name |-> FolderName, parent |-> ROOT_INODE, kind |-> "folder",
           state |-> "cloud_only", path |-> None, trashed |-> FALSE, ver |-> 1]
File(k) == [name |-> FileName, parent |-> 1, kind |-> k,
            state |-> "cloud_only", path |-> None, trashed |-> FALSE, ver |-> 1]

\* After the initial sync of a Drive with one file in one folder.
VfsInit ==
    /\ platform \in {"linux", "macos", "windows"} /\ mount = "none"
    /\ \E k \in {"file", "workspace"} :
         row = [i \in Inode |-> CASE i = 1 -> Folder [] i = 2 -> File(k) [] OTHER -> None]
    /\ disk = [p \in Path |-> None]
    /\ queue = <<>> /\ engine = None
    /\ drive = [i \in Inode |->
                  IF i = 2 THEN [ver |-> 1, name |-> FileName, parent |-> 1] ELSE None]
    /\ unseen = {} /\ known = {}
    /\ open_files = [fh \in Fh |-> None] /\ next_fh = 1
    /\ call = [t \in Thread |-> None]
    /\ reply = [code |-> "none"]
    /\ ops = 0 /\ faults = 0

\* The daemon stops: the handle is dropped, and with it what the session knew.
\* A callback that has begun ends on its thread.
Unmount ==
    /\ mount = "mounted" /\ mount' = "unmounted"
    /\ known' = {} /\ open_files' = [fh \in Fh |-> None]
    /\ reply' = [code |-> "none"]
    /\ UNCHANGED <<platform, storeVars, engineVars, next_fh, call, ops>>

VfsNext == LinuxNext \/ MacNext \/ WindowsNext \/ EngineNext \/ PinNext \/ Unmount

VfsSpec == VfsInit /\ [][VfsNext]_vfsVars

\* A callback that has begun goes on: it runs on a thread of its own and the
\* wait of a read is a loop with a limit.  Nothing is assumed of the engine.
FairVfs ==
    /\ VfsSpec
    /\ WF_vfsVars(platform # "windows" /\ FuseContinues)
    /\ \A t \in Thread : WF_vfsVars(platform = "windows" /\ WinContinues(t))

-----------------------------------------------------------------------------
\* Properties.

\* What a read returns is of that file: what the user last wrote to it, or a
\* version of Drive's at least as new as the one the row announced when the
\* read began (the "cloud_only" test of read, the wait, the poll that resets a
\* row).  Only a row that a rename has made "modified" may be served older.
ReadIsFresh ==
    reply.code = "data" =>
        /\ reply.data.of = reply.ino
        /\ reply.data.src = "user" \/ reply.modified \/ reply.data.ver >= reply.seen

\* The cache never lies: a row that says "cached" or "offline" has in its cache
\* file its own content, either the user's or Drive's at the row's version or a
\* newer one, whatever polls, renames, pins and late downloads did in between.
CachedIsFresh ==
    \A i \in Inode :
        (row[i] # None /\ wait_for_download(i) /\ disk[LocalPath(i)] # None) =>
            /\ disk[LocalPath(i)].of = i
            /\ \/ disk[LocalPath(i)].src = "user"
               \/ disk[LocalPath(i)].ver >= row[i].ver

\* A read that has begun is answered, whether the download succeeds, fails or
\* never runs: no state of the row ends the wait of a failed one.
ReadsAnswered ==
    \A t \in Thread :
        (call[t] # None /\ call[t].op = "read") ~> (call[t] = None)
=============================================================================
