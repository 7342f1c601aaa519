-------------------------------- MODULE WinFs --------------------------------
(***************************************************************************)
(* The WinFSP callbacks of gdriver-vfs/src/windows.rs.  They arrive on     *)
(* several threads at once and by path: each walks the rows from db.rs's   *)
(* root.  A FileContext is the handle itself; the kernel deletes a file by *)
(* can_delete and, when the handle is cleaned up, cleanup.                 *)
(***************************************************************************)
EXTENDS FuseFs

CONSTANT WinPath    \* paths, from the root down

ASSUME WinPaths == WinPath \subseteq Seq(Name)

\* The workers are alike: the first that is idle takes the next request.
Worker(t) == Serving(t) /\ \A u \in Thread : u < t => call[u] # None

\* The rows a walk along the components can end at.
Walk(path) ==
    IF path = <<>> THEN {ROOT_INODE}
    ELSE {i \in Inode : \E w \in [1..Len(path) -> Inode] :
            /\ w[Len(path)] = i
            /\ \A k \in 1..Len(path) :
                 w[k] \in lookup_by_parent_and_name(IF k = 1 THEN ROOT_INODE ELSE w[k - 1],
                                                    path[k])}

\* The same, where the code insists that all but the last are folders.
IsFolder(i) == i = ROOT_INODE \/ row[i].kind = "folder"

Parent(path) == SubSeq(path, 1, Len(path) - 1)
Last(path) == path[Len(path)]

-----------------------------------------------------------------------------
\* Queries.

get_security_by_name(t, path) ==
    /\ Worker(t)
    /\ \/ path = <<>> /\ Answer("ok")
       \/ /\ path # <<>>
          /\ \/ Walk(Parent(path)) = {} /\ Answer("NOT_FOUND")
             \/ \E p \in Walk(Parent(path)) :
                  Answer(IF ~IsFolder(p) THEN "NOT_A_DIRECTORY"
                            ELSE IF lookup_by_parent_and_name(p, Last(path)) = {}
                            THEN "NOT_FOUND" ELSE "ok")
    /\ UNCHANGED <<storeVars, fsVars, call, ops>> /\ Others

get_file_info(t, fh) ==
    /\ Worker(t) /\ open_files[fh] # None
    /\ LET i == open_files[fh].ino IN
       Answer(IF i = ROOT_INODE THEN "ok" ELSE IF Live(i) THEN "ok" ELSE "NOT_FOUND")
    /\ UNCHANGED <<storeVars, fsVars, call, ops>> /\ Others

read_directory(t, fh) ==
    /\ Worker(t) /\ open_files[fh] # None
    /\ Answer("ok")
    /\ UNCHANGED <<storeVars, fsVars, call, ops>> /\ Others

-----------------------------------------------------------------------------
\* Handles.

\* A folder is opened like a file; the root gets a placeholder.
win_open(t, path) ==
    /\ Worker(t) /\ Counted /\ next_fh \in Fh
    /\ \/ path = <<>> /\ AddHandle(ROOT_INODE, None) /\ Answer("ok")
       \/ path # <<>> /\ Walk(path) = {} /\ Answer("NOT_FOUND")
          /\ UNCHANGED <<open_files, next_fh>>
       \/ /\ path # <<>>
          /\ \E i \in Walk(path) :
               IF row[i].kind = "workspace"
               THEN Answer("NOT_SUPPORTED") /\ UNCHANGED <<open_files, next_fh>>
               ELSE AddHandle(i, LocalPath(i)) /\ Answer("ok")
    /\ UNCHANGED <<storeVars, known, call>> /\ Others

win_close(t, fh) ==
    /\ Worker(t) /\ open_files[fh] # None
    /\ open_files' = [open_files EXCEPT ![fh] = None]
    /\ Answer("ok")
    /\ UNCHANGED <<storeVars, known, next_fh, call, ops>> /\ Others

\* The handles the kernel reads and writes through.
FileHandle(fh) ==
    /\ open_files[fh] # None /\ open_files[fh].ino # ROOT_INODE
    /\ row[open_files[fh].ino].kind = "file"

win_read(t, fh) ==
    /\ Worker(t) /\ Counted /\ FileHandle(fh)
    /\ LET i == open_files[fh].ino IN
       IF Live(i) THEN StartRead(t, i)
       ELSE Answer("NOT_FOUND") /\ UNCHANGED <<queue, call>>
    /\ UNCHANGED <<row, disk, fsVars>> /\ Others

win_write(t, fh) ==
    /\ Worker(t) /\ Counted /\ FileHandle(fh)
    /\ StartWrite(t, open_files[fh])
    /\ UNCHANGED <<row, queue, fsVars>> /\ Others

\* Without the cache file there is nothing to cut; otherwise as a write.
set_file_size(t, fh) ==
    /\ Worker(t) /\ Counted /\ FileHandle(fh)
    /\ IF disk[open_files[fh].path] # None THEN StartWrite(t, open_files[fh])
       ELSE Answer("INTERNAL_ERROR") /\ UNCHANGED <<disk, call>>
    /\ UNCHANGED <<row, queue, fsVars>> /\ Others

\* A row that has gone is no error here.
win_flush(t, fh) ==
    /\ Worker(t) /\ Counted /\ open_files[fh] # None
    /\ LET h == open_files[fh] IN
       IF h.ino # ROOT_INODE /\ Live(h.ino) THEN UploadIfModified(h) ELSE UNCHANGED queue
    /\ Answer("ok")
    /\ UNCHANGED <<row, disk, fsVars, call>> /\ Others

-----------------------------------------------------------------------------
\* Deletion: the check and the deed are two callbacks.

DeleteCode(i) ==
    IF i = ROOT_INODE THEN "CANNOT_DELETE"
    ELSE IF ~Live(i) THEN "NOT_FOUND"
    ELSE IF row[i].kind = "folder" /\ has_children(i) THEN "NOT_EMPTY" ELSE "ok"

can_delete(t, fh) ==
    /\ Worker(t) /\ open_files[fh] # None
    /\ LET c == DeleteCode(open_files[fh].ino) IN
       /\ Answer(c)
       /\ open_files' = [open_files EXCEPT ![fh].doomed = (c = "ok")]
    /\ UNCHANGED <<storeVars, known, next_fh, call, ops>> /\ Others

\* A row that has gone gets no task, and is marked trashed again.
cleanup(t, fh) ==
    /\ Worker(t) /\ Counted /\ open_files[fh] # None /\ open_files[fh].doomed
    /\ LET i == open_files[fh].ino IN
       IF Live(i) THEN StartUnlink(t, i, row[i].path)
       ELSE UNCHANGED queue /\ Hold(t, [op |-> "unlink", ino |-> i, path |-> None])
    /\ open_files' = [open_files EXCEPT ![fh].doomed = FALSE]
    /\ UNCHANGED <<row, disk, known, next_fh>> /\ Others

-----------------------------------------------------------------------------
\* create: the walk and the check for the name, then the insertion.

CreateCode(p, n) ==
    IF ~IsFolder(p) THEN "NOT_A_DIRECTORY"
    ELSE IF lookup_by_parent_and_name(p, n) # {} THEN "COLLISION" ELSE "ok"

win_create(t, path, dir) ==
    /\ Worker(t) /\ Counted /\ path # <<>>
    /\ \/ Walk(Parent(path)) = {} /\ Answer("NOT_FOUND") /\ UNCHANGED call
       \/ \E p \in Walk(Parent(path)) :
            LET c == CreateCode(p, Last(path)) IN
            IF c = "ok"
            THEN Hold(t, [op |-> "insert", parent |-> p, name |-> Last(path), dir |-> dir])
            ELSE Answer(c) /\ UNCHANGED call
    /\ UNCHANGED <<storeVars, fsVars>> /\ Others

CreateInserts(t) ==
    /\ call[t] # None /\ call[t].op = "insert" /\ Free # {} /\ next_fh \in Fh
    /\ LET c == call[t] IN
       \/ /\ ~ParentKnown(c.parent)
          /\ Finish(t, "NOT_FOUND")
          /\ UNCHANGED <<row, open_files, next_fh>>
       \/ /\ ParentKnown(c.parent) /\ c.dir
          /\ insert_local_folder(c.parent, c.name)
          /\ AddHandle(NewInode, None)
          /\ Finish(t, "ok")
       \/ /\ ParentKnown(c.parent) /\ ~c.dir
          /\ insert_local_file(c.parent, c.name)
          /\ Hold(t, [op |-> "create", ino |-> NewInode])
          /\ UNCHANGED <<open_files, next_fh>>
    /\ UNCHANGED <<disk, queue, known, ops>> /\ Others

-----------------------------------------------------------------------------
\* rename: a target that is in the way is trashed, with no task for it.

win_rename(t, old, new, replace_if_exists) ==
    /\ Worker(t) /\ Counted /\ old # <<>> /\ new # <<>>
    /\ ~(Len(new) > Len(old) /\ SubSeq(new, 1, Len(old)) = old)    \* not below itself
    /\ \/ /\ Walk(old) = {} \/ Walk(Parent(new)) = {}
          /\ Answer("NOT_FOUND") /\ UNCHANGED <<row, call>>
       \/ \E i \in Walk(old), p \in Walk(Parent(new)) :
            LET held == [op |-> "replace", ino |-> i, parent |-> p, name |-> Last(new)]
                target == lookup_by_parent_and_name(p, Last(new))
            IN \/ target = {} /\ Hold(t, held) /\ UNCHANGED row
               \/ /\ target # {} /\ ~replace_if_exists
                  /\ Answer("COLLISION") /\ UNCHANGED <<row, call>>
               \/ /\ replace_if_exists
                  /\ \E j \in target : soft_delete_by_inode(j)
                  /\ Hold(t, held)
    /\ UNCHANGED <<disk, queue, fsVars>> /\ Others

\* The new parent may have gone by now, the target it made room for with it.
RenameRecorded(t) ==
    /\ call[t] # None /\ call[t].op = "replace"
    /\ LET c == call[t] IN
       IF ParentKnown(c.parent)
       THEN /\ rename_file(c.ino, c.name, c.parent)
            /\ Hold(t, [op |-> "renamed", ino |-> c.ino, name |-> c.name])
       ELSE /\ Finish(t, "NOT_FOUND")
            /\ UNCHANGED row
    /\ UNCHANGED <<disk, queue, fsVars, ops>> /\ Others

-----------------------------------------------------------------------------
mount_winfsp ==
    /\ mount = "none" /\ mount' \in {"mounted", "failed"}
    /\ UNCHANGED <<platform, storeVars, engineVars, fsVars, call, reply, ops>>

WinContinues(t) == CallbackNext(t, "IO_TIMEOUT", "INTERNAL_ERROR")

WindowsNext ==
    /\ platform = "windows"
    /\ \/ mount_winfsp
       \/ \E t \in Thread :
            \/ \E path \in WinPath :
                 \/ get_security_by_name(t, path) \/ win_open(t, path)
                 \/ \E dir \in BOOLEAN : win_create(t, path, dir)
                 \/ \E new \in WinPath, replace \in BOOLEAN :
                      win_rename(t, path, new, replace)
            \/ \E fh \in Fh :
                 \/ get_file_info(t, fh) \/ read_directory(t, fh) \/ win_close(t, fh)
                 \/ win_read(t, fh) \/ win_write(t, fh) \/ set_file_size(t, fh)
                 \/ win_flush(t, fh) \/ can_delete(t, fh) \/ cleanup(t, fh)
            \/ CreateInserts(t) \/ RenameRecorded(t)
            \/ WinContinues(t)
=============================================================================
