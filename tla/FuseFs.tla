-------------------------------- MODULE FuseFs --------------------------------
(***************************************************************************)
(* The FUSE callbacks of gdriver-vfs/src/linux.rs.  One thread serves them *)
(* one after the other; a callback that waits (read) or that makes several *)
(* accesses is split where the engine may run in between, with what it     *)
(* holds in call.  The kernel asks about inodes it has been told of.       *)
(*                                                                         *)
(* The kernel's root is inode 1, which to db.rs is the first row of the    *)
(* table (its own root is 0): row 1 is taken to be a folder.               *)
(***************************************************************************)
EXTENDS VfsStore

Fuser == 1          \* the thread of the FUSE session
KernelRoot == 1

Serving(t) == mount = "mounted" /\ call[t] = None

\* reply is the last answer given, on whichever thread.
Answer(c) == reply' = [code |-> c]

Hold(t, c) == call' = [call EXCEPT ![t] = c] /\ Answer("none")

Finish(t, c) == call' = [call EXCEPT ![t] = None] /\ Answer(c)

Others == UNCHANGED <<mountVars, engineVars>>

KnownFolders == {i \in known : row[i].kind = "folder"}

-----------------------------------------------------------------------------
\* Queries.

lookup(p, n) ==
    /\ Serving(Fuser) /\ p \in KnownFolders
    /\ LET found == lookup_by_parent_and_name(p, n) IN
       IF found = {} THEN Answer("ENOENT") /\ UNCHANGED known
       ELSE Answer("ok") /\ \E i \in found : known' = known \cup {i}
    /\ UNCHANGED <<storeVars, open_files, next_fh, call, ops>> /\ Others

getattr(i) ==
    /\ Serving(Fuser) /\ i \in known
    /\ Answer(IF Live(i) THEN "ok" ELSE "ENOENT")
    /\ UNCHANGED <<storeVars, fsVars, call, ops>> /\ Others

\* The entries it lists teach the kernel no inode: it looks each one up.
readdir(p) ==
    /\ Serving(Fuser) /\ p \in KnownFolders
    /\ Answer("ok")
    /\ UNCHANGED <<storeVars, fsVars, call, ops>> /\ Others

-----------------------------------------------------------------------------
\* Handles.

\* unsupported is the platform's error number for a Google Workspace file.
OpenCode(i, unsupported) ==
    IF ~Live(i) THEN "ENOENT"
    ELSE CASE row[i].kind = "folder" -> "EISDIR"
           [] row[i].kind = "workspace" -> unsupported
           [] OTHER -> "ok"

AddHandle(i, p) ==
    /\ open_files' = [open_files EXCEPT ![next_fh] =
                         [ino |-> i, path |-> p, doomed |-> FALSE]]
    /\ next_fh' = next_fh + 1

open(i, unsupported) ==
    /\ Serving(Fuser) /\ Counted /\ i \in known /\ next_fh \in Fh
    /\ Answer(OpenCode(i, unsupported))
    /\ IF OpenCode(i, unsupported) = "ok" THEN AddHandle(i, LocalPath(i))
       ELSE UNCHANGED <<open_files, next_fh>>
    /\ UNCHANGED <<storeVars, known, call>> /\ Others

release(fh) ==
    /\ Serving(Fuser) /\ open_files[fh] # None
    /\ open_files' = [open_files EXCEPT ![fh] = None]
    /\ Answer("ok")
    /\ UNCHANGED <<storeVars, known, next_fh, call, ops>> /\ Others

-----------------------------------------------------------------------------
\* read: a file the cache cannot serve is asked of the engine and awaited.

\* Mutant: only a missing cache file is downloaded.
MustFetchMissing(i) == disk[LocalPath(i)] = None

MustFetch(i) == row[i].state = "cloud_only" \/ disk[LocalPath(i)] = None

StartRead(t, i) ==
    LET held == [op |-> "read", at |-> IF MustFetch(i) THEN "wait" ELSE "file",
                 ino |-> i, path |-> LocalPath(i), seen |-> row[i].ver,
                 modified |-> row[i].state = "modified"]
    IN /\ Hold(t, held)
       /\ IF MustFetch(i) THEN enqueue_download_task(i, LocalPath(i)) ELSE UNCHANGED queue

read(fh) ==
    /\ Serving(Fuser) /\ Counted /\ open_files[fh] # None
    /\ LET i == open_files[fh].ino IN
       IF Live(i) THEN StartRead(Fuser, i)
       ELSE Answer("ENOENT") /\ UNCHANGED <<queue, call>>
    /\ UNCHANGED <<row, disk, fsVars>> /\ Others

InRead(t, at) == call[t] # None /\ call[t].op = "read" /\ call[t].at = at

\* wait_for_download finds the row cached.
ReadWaited(t) ==
    /\ InRead(t, "wait") /\ wait_for_download(call[t].ino)
    /\ call' = [call EXCEPT ![t].at = "file"]
    /\ UNCHANGED <<storeVars, fsVars, reply, ops>> /\ Others

\* Mutant: a wait without a limit.
ReadWaitsOn(t, c) == FALSE /\ UNCHANGED vfsVars

\* It does not, and DOWNLOAD_TIMEOUT_MS have passed: c is the error returned.
ReadTimesOut(t, c) ==
    /\ InRead(t, "wait") /\ ~wait_for_download(call[t].ino)
    /\ Finish(t, c)
    /\ UNCHANGED <<storeVars, fsVars, ops>> /\ Others

\* The cache file is opened and read; c is the error when it is not there.
ReadsFile(t, c) ==
    /\ InRead(t, "file")
    /\ LET r == call[t] IN
       reply' = IF disk[r.path] = None THEN [code |-> c]
                ELSE [code |-> "data", ino |-> r.ino, seen |-> r.seen,
                      modified |-> r.modified, data |-> disk[r.path]]
    /\ call' = [call EXCEPT ![t] = None]
    /\ UNCHANGED <<storeVars, fsVars, ops>> /\ Others

-----------------------------------------------------------------------------
\* create, write, flush, fsync.

\* The kernel has just looked the name up.
create(p, n) ==
    /\ Serving(Fuser) /\ Counted /\ p \in KnownFolders
    /\ lookup_by_parent_and_name(p, n) = {} /\ Free # {} /\ next_fh \in Fh
    /\ IF ParentKnown(p)
       THEN insert_local_file(p, n) /\ Hold(Fuser, [op |-> "create", ino |-> NewInode])
       ELSE Answer("ENOENT") /\ UNCHANGED <<row, call>>
    /\ UNCHANGED <<disk, queue, fsVars>> /\ Others

\* The empty cache file, and the handle.
CreateFile(t) ==
    /\ call[t] # None /\ call[t].op = "create" /\ next_fh \in Fh
    /\ LET i == call[t].ino IN
       /\ disk' = [disk EXCEPT ![cache_path(i)] = OfUser(i)]
       /\ AddHandle(i, cache_path(i))
       /\ known' = known \cup {i}
    /\ Finish(t, "ok")
    /\ UNCHANGED <<row, queue, ops>> /\ Others

\* The cache file cannot be created: the row stays.
CreateFails(t, c) ==
    /\ call[t] # None /\ call[t].op = "create" /\ faults < MaxFaults
    /\ faults' = faults + 1
    /\ Finish(t, c)
    /\ UNCHANGED <<storeVars, fsVars, ops, mountVars, engine, drive, unseen>>

StartWrite(t, h) ==
    /\ disk' = [disk EXCEPT ![h.path] = OfUser(h.ino)]
    /\ Hold(t, [op |-> "write", ino |-> h.ino])

write(fh) ==
    /\ Serving(Fuser) /\ Counted /\ open_files[fh] # None
    /\ StartWrite(Fuser, open_files[fh])
    /\ UNCHANGED <<row, queue, fsVars>> /\ Others

\* The row learns of the write, by rowid: a trashed row too.
WriteRecorded(t) ==
    /\ call[t] # None /\ call[t].op = "write"
    /\ update_file_size_mtime(call[t].ino)
    /\ Finish(t, "ok")
    /\ UNCHANGED <<disk, queue, fsVars, ops>> /\ Others

\* Only a row that is still "modified" is uploaded.
UploadIfModified(h) ==
    IF row[h.ino].state = "modified" THEN enqueue_upload_task(h.ino, h.path)
    ELSE UNCHANGED queue

FlushHandle(fh) ==
    /\ Serving(Fuser) /\ Counted /\ open_files[fh] # None
    /\ LET h == open_files[fh] IN
       IF Live(h.ino) THEN UploadIfModified(h) /\ Answer("ok")
       ELSE Answer("EBADF") /\ UNCHANGED queue
    /\ UNCHANGED <<row, disk, fsVars, call>> /\ Others

flush(fh) == FlushHandle(fh)

fsync(fh) == FlushHandle(fh)

-----------------------------------------------------------------------------
\* unlink, rename, mkdir, rmdir.

\* A delete task is queued first, then the cache file goes, then the row.
StartUnlink(t, i, p) ==
    /\ enqueue_task("delete", i, row[i].path)
    /\ Hold(t, [op |-> "unlink", ino |-> i, path |-> p])

unlink(p, n) ==
    /\ Serving(Fuser) /\ Counted /\ p \in KnownFolders
    /\ LET found == lookup_by_parent_and_name(p, n) IN
       \/ found = {} /\ Answer("ENOENT") /\ UNCHANGED <<queue, call>>
       \/ \E i \in found :
            IF row[i].kind = "folder" THEN Answer("EISDIR") /\ UNCHANGED <<queue, call>>
            ELSE StartUnlink(Fuser, i, row[i].path)
    /\ UNCHANGED <<row, disk, fsVars>> /\ Others

UnlinkFinished(t) ==
    /\ call[t] # None /\ call[t].op = "unlink"
    /\ disk' = IF call[t].path # None THEN [disk EXCEPT ![call[t].path] = None] ELSE disk
    /\ soft_delete_by_inode(call[t].ino)
    /\ Finish(t, "ok")
    /\ UNCHANGED <<queue, fsVars, ops>> /\ Others

\* p is i or lies below it.
Below(p, i) ==
    LET up[k \in 0..MaxInode] ==
            IF k = 0 THEN p ELSE IF up[k - 1] = 0 THEN 0 ELSE row[up[k - 1]].parent
    IN \E k \in 0..MaxInode : up[k] = i

\* The kernel itself refuses to move a folder below itself.
rename(p, n, newp, newn) ==
    /\ Serving(Fuser) /\ Counted /\ {p, newp} \subseteq KnownFolders
    /\ \A i \in lookup_by_parent_and_name(p, n) : ~Below(newp, i)
    /\ \/ /\ lookup_by_parent_and_name(p, n) = {}
          /\ Answer("ENOENT") /\ UNCHANGED <<row, call>>
       \/ \E i \in lookup_by_parent_and_name(p, n) :
            IF lookup_by_parent_and_name(newp, newn) # {}
            THEN Answer("EEXIST") /\ UNCHANGED <<row, call>>
            ELSE IF ~ParentKnown(newp)
            THEN Answer("ENOENT") /\ UNCHANGED <<row, call>>
            ELSE /\ rename_file(i, newn, newp)
                 /\ Hold(Fuser, [op |-> "renamed", ino |-> i, name |-> newn])
    /\ UNCHANGED <<disk, queue, fsVars>> /\ Others

\* The task, and the cache file moved to the new name; local_path stays.
RenameFinished(t) ==
    /\ call[t] # None /\ call[t].op = "renamed"
    /\ LET i == call[t].ino
           p == row[i].path
       IN IF Live(i)
          THEN /\ enqueue_task("rename", i, p)
               /\ disk' = IF p # None /\ disk[p] # None
                          THEN [disk EXCEPT ![p] = None, ![call[t].name] = disk[p]]
                          ELSE disk
          ELSE UNCHANGED <<queue, disk>>
    /\ Finish(t, "ok")
    /\ UNCHANGED <<row, fsVars, ops>> /\ Others

mkdir(p, n) ==
    /\ Serving(Fuser) /\ Counted /\ p \in KnownFolders /\ Free # {}
    /\ IF lookup_by_parent_and_name(p, n) # {}
       THEN Answer("EEXIST") /\ UNCHANGED <<row, known>>
       ELSE IF ~ParentKnown(p)
       THEN Answer("ENOENT") /\ UNCHANGED <<row, known>>
       ELSE /\ insert_local_folder(p, n)
            /\ known' = known \cup {NewInode}
            /\ Answer("ok")
    /\ UNCHANGED <<disk, queue, open_files, next_fh, call>> /\ Others

\* No cache file is removed here: StartUnlink is given no path.
rmdir(p, n) ==
    /\ Serving(Fuser) /\ Counted /\ p \in KnownFolders
    /\ LET found == lookup_by_parent_and_name(p, n) IN
       \/ found = {} /\ Answer("ENOENT") /\ UNCHANGED <<queue, call>>
       \/ \E i \in found :
            IF row[i].kind # "folder"
            THEN Answer("ENOTDIR") /\ UNCHANGED <<queue, call>>
            ELSE IF has_children(i)
            THEN Answer("ENOTEMPTY") /\ UNCHANGED <<queue, call>>
            ELSE StartUnlink(Fuser, i, None)
    /\ UNCHANGED <<row, disk, fsVars>> /\ Others

-----------------------------------------------------------------------------
\* mount_fuse: the mount point and the session may both fail to come up.
mount_fuse ==
    /\ mount = "none" /\ mount' \in {"mounted", "failed"}
    /\ known' = {KernelRoot}
    /\ UNCHANGED <<platform, storeVars, engineVars, open_files, next_fh, call, reply, ops>>

\* The steps a callback goes on with, whatever the platform.
CallbackNext(t, timeout, error) ==
    \/ ReadWaited(t) \/ ReadTimesOut(t, timeout) \/ ReadsFile(t, error)
    \/ CreateFile(t) \/ CreateFails(t, error) \/ WriteRecorded(t)
    \/ UnlinkFinished(t) \/ RenameFinished(t)

FuseContinues == CallbackNext(Fuser, "EIO", "EIO")

LinuxNext ==
    /\ platform = "linux"
    /\ \/ mount_fuse
       \/ \E i \in Inode : getattr(i) \/ readdir(i) \/ open(i, "EOPNOTSUPP")
       \/ \E fh \in Fh : release(fh) \/ read(fh) \/ write(fh) \/ flush(fh) \/ fsync(fh)
       \/ \E p \in Inode, n \in Name :
            \/ lookup(p, n) \/ create(p, n) \/ unlink(p, n) \/ mkdir(p, n) \/ rmdir(p, n)
            \/ \E newp \in Inode, newn \in Name : rename(p, n, newp, newn)
       \/ FuseContinues
=============================================================================
