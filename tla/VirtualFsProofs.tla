--------------------------- MODULE VirtualFsProofs ---------------------------
(***************************************************************************)
(* Proofs about the virtual filesystem: the types, the freshness of what   *)
(* the cache says it has and of what a read returns, for every number of   *)
(* rows, names, handles and requests, on every platform.                   *)
(***************************************************************************)
EXTENDS VirtualFs, TLAPS

-----------------------------------------------------------------------------
\* The inductive invariant.

\* What file i has in the cache is its user's, or at least version v, or nothing.
Fresh(i, v) == disk[i] = None \/ disk[i].src = "user" \/ disk[i].ver >= v

\* i has a row.
There(i) == i \in Inode /\ row[i] # None

\* A row's path is the one called by its id.  It is there while the row says
\* "cached" or "offline", and as long as it is, what lies at it is fresh.
RowOK(i) ==
    row[i] # None =>
      /\ row[i].path \in {None, i}
      /\ row[i].state \in {"cached", "offline"} => row[i].path # None
      /\ row[i].path # None => Fresh(i, row[i].ver)

\* All rows.
RowsOK == \A i \in Inode : RowOK(i)

\* Files in the cache are called by their own ids, files of Drive have rows that
\* are not ahead of them, the kernel knows files by their rows.
StoreOK ==
    /\ \A i \in Inode : disk[i] # None => disk[i].of = i
    /\ \A i \in Inode : drive[i] # None => row[i] # None /\ row[i].ver <= drive[i].ver
    /\ \A i \in unseen : drive[i] # None
    /\ \A i \in known : row[i] # None
    /\ row[1] # None

\* Tasks are about rows, and a download goes to the row's own path.
TaskOK(task) ==
    /\ There(task.ino) /\ task.path \in {None, task.ino}
    /\ task.op = "download" => task.path = task.ino

\* The tasks that may be in the queue.
LegalTask == {task \in Task : TaskOK(task)}

\* All tasks.
QueueOK == queue \in Seq(LegalTask)

\* While the engine works on a row nobody else changes its version; what it has
\* fetched is not older than the row it is about to write.
EngineOK ==
    engine # None =>
      /\ TaskOK(engine.task) /\ engine.task.op = engine.op
      /\ row[engine.task.ino].ver = engine.copy.ver
      /\ engine.op = "download" /\ engine.at = "row" => Fresh(engine.task.ino, engine.copy.ver)

\* Only Windows has a handle of the root, and that is never deleted.
HandleOK(h) ==
    \/ h.ino = ROOT_INODE /\ platform = "windows" /\ h.doomed = FALSE
    \/ There(h.ino) /\ h.path \in {None, h.ino}

\* The handles that may be open.
LegalHandle == {h \in Handle : HandleOK(h)}

\* All handles.
HandlesOK == \A fh \in Fh : open_files[fh] \in LegalHandle \cup {None}

\* Callbacks are about rows.  A read is of the row's own path, saw a version
\* that the row has not gone below, and past the wait it finds that version.
ReadOK(c) ==
    /\ c.path = c.ino /\ c.seen <= row[c.ino].ver
    /\ c.at = "file" /\ ~c.modified => Fresh(c.ino, c.seen)

\* What each kind of callback relies on.
CallOK(c) ==
    /\ c.op # "insert" => There(c.ino)
    /\ c.op = "unlink" => c.path \in {None, c.ino}
    /\ c.op = "read" => ReadOK(c)

\* What a thread may be in the middle of.
LegalCall == {c \in Call : CallOK(c)}

\* All callbacks.
CallsOK == \A t \in Thread : call[t] \in LegalCall \cup {None}

\* The inductive invariant.
VfsInv ==
    /\ VfsTypeOK /\ RowsOK /\ StoreOK /\ QueueOK /\ EngineOK /\ HandlesOK /\ CallsOK
    /\ ReadIsFresh

-----------------------------------------------------------------------------
\* What a callback may do to each part of the state.

\* A row is left alone, edited without its version and path, or new.
RowMay(j) ==
    \/ row'[j] = row[j]
    \/ /\ row[j] # None /\ row'[j] \in Row
       /\ row'[j].ver = row[j].ver /\ row'[j].path = row[j].path
       /\ row'[j].state \in {"cached", "offline"} => row[j].path # None
    \/ /\ row[j] = None /\ row'[j] \in Row
       /\ row'[j].path \in {None, j} /\ row'[j].ver = 0
       /\ row'[j].state \notin {"cached", "offline"}

\* All rows.
RowStep ==
    \/ UNCHANGED row
    \/ row' \in [Inode -> Row \cup {None}] /\ \A j \in Inode : RowMay(j)

\* A cache file is left alone, removed or written by its user.
DiskMay(j) == disk'[j] \in {disk[j], None, OfUser(j)}

\* All cache files.
DiskStep ==
    \/ UNCHANGED disk
    \/ disk' \in [Path -> Content \cup {None}] /\ \A j \in Inode : DiskMay(j)

\* A callback queues at most one task.
QueueStep == UNCHANGED queue \/ \E task \in LegalTask : queue' = Append(queue, task)

\* The kernel learns only of rows, or forgets.
KnownStep == \/ UNCHANGED known
             \/ known' \subseteq Inode /\ \A i \in known' : i \in known \/ row'[i] # None

\* A handle is made, changed or closed.
HandleStep ==
    \/ UNCHANGED <<open_files, next_fh>>
    \/ /\ open_files' \in [Fh -> Handle \cup {None}] /\ next_fh' \in 1..(MaxHandles + 1)
       /\ \A fh \in Fh : open_files'[fh] \in {open_files[fh], None} \cup LegalHandle \cup LegalHandle'

\* A callback begins, goes on or is over.
CallStep ==
    \/ UNCHANGED call
    \/ /\ call' \in [Thread -> Call \cup {None}]
       /\ \A t \in Thread : call'[t] \in {call[t], None} \cup LegalCall \cup LegalCall'

\* A read is answered with what is fresh.
ReplyStep == UNCHANGED reply \/ (reply' \in Reply /\ ReadIsFresh')

\* What a step of any callback, on any platform, amounts to.
CallbackStep ==
    /\ UNCHANGED <<platform, engine, drive, unseen>>
    /\ mount' \in {"none", "mounted", "failed", "unmounted"}
    /\ ops' \in Nat /\ faults' \in Nat
    /\ RowStep /\ DiskStep /\ QueueStep /\ KnownStep /\ HandleStep /\ CallStep /\ ReplyStep

-----------------------------------------------------------------------------
\* What stays legal while rows and files only advance.

\* Rows stay, their versions grow, and what is fresh in the cache stays fresh.
Advances ==
    /\ UNCHANGED platform
    /\ row' \in [Inode -> Row \cup {None}] /\ disk' \in [Path -> Content \cup {None}]
    /\ \A j \in Inode : row[j] # None => row'[j] # None /\ row'[j].ver >= row[j].ver
    /\ \A j \in Inode, v \in Nat :
         row[j] # None /\ v <= row[j].ver /\ Fresh(j, v) => Fresh(j, v)'

\* A sequence over a set is one over any larger set.
LEMMA SeqGrows == ASSUME NEW S, NEW T, S \subseteq T, NEW s \in Seq(S) PROVE s \in Seq(T)
OBVIOUS

\* The version of a row is a number.
LEMMA VersionIsNat == ASSUME VfsTypeOK, NEW j \in Inode, row[j] # None PROVE row[j].ver \in Nat
<1>1. row[j] \in Row BY DEF VfsTypeOK
<1> QED BY <1>1 DEF Row

\* The tasks, handles and callbacks that were legal stay so.
LEMMA LegalStays ==
    ASSUME VfsTypeOK, Advances
    PROVE  /\ LegalTask \subseteq LegalTask' /\ LegalHandle \subseteq LegalHandle'
           /\ LegalCall \subseteq LegalCall'
<1>1. ASSUME NEW i, There(i) PROVE There(i)' BY <1>1 DEF There, Advances
<1>2. ASSUME NEW task \in LegalTask PROVE task \in LegalTask'
  BY <1>1, <1>2 DEF LegalTask, TaskOK
<1>3. ASSUME NEW h \in LegalHandle PROVE h \in LegalHandle'
  BY <1>1, <1>3 DEF LegalHandle, HandleOK, Advances
<1>4. ASSUME NEW c \in LegalCall PROVE c \in LegalCall'
  <2>1. c \in Call /\ CallOK(c) BY <1>4 DEF LegalCall
  <2>2. c.op # "insert" => There(c.ino)' BY <1>1, <2>1 DEF CallOK
  <2>3. ASSUME c.op = "read" PROVE ReadOK(c)'
    <3>1. c.seen \in Nat BY <2>1, <2>3 DEF Call
    <3>2. There(c.ino) /\ ReadOK(c) BY <2>1, <2>3 DEF CallOK
    <3>3. row[c.ino].ver \in Nat BY <3>2, VersionIsNat DEF There
    <3>4. row'[c.ino].ver >= row[c.ino].ver /\ row'[c.ino] \in Row
      BY <3>2 DEF There, Advances
    <3>5. row'[c.ino].ver \in Nat BY <3>4 DEF Row
    <3>6. c.seen <= row'[c.ino].ver BY <3>1, <3>2, <3>3, <3>4, <3>5 DEF ReadOK
    <3>7. c.at = "file" /\ ~c.modified => Fresh(c.ino, c.seen)'
      BY <3>1, <3>2 DEF ReadOK, There, Advances
    <3> QED BY <3>2, <3>6, <3>7 DEF ReadOK
  <2> QED BY <2>1, <2>2, <2>3 DEF LegalCall, CallOK
<1> QED BY <1>2, <1>3, <1>4

-----------------------------------------------------------------------------
\* Steps of callbacks keep the invariant.

\* A callback leaves versions, rows and fresh files as they are.
LEMMA CallbackAdvances ==
    ASSUME VfsInv, CallbackStep
    PROVE  /\ Advances
           /\ \A j \in Inode : row[j] # None => row'[j] # None /\ row'[j].ver = row[j].ver
           /\ \A j \in Inode, v \in Nat : Fresh(j, v) => Fresh(j, v)'
<1> USE DEF CallbackStep
<1>1. \A j \in Inode : row[j] # None => row'[j] # None /\ row'[j].ver = row[j].ver
  BY NoneIsNoRow DEF RowStep, RowMay
<1>2. ASSUME NEW j \in Inode, NEW v \in Nat, Fresh(j, v) PROVE Fresh(j, v)'
  <2>1. CASE disk'[j] = disk[j] BY <1>2, <2>1 DEF Fresh
  <2>2. CASE disk'[j] = None BY <2>2 DEF Fresh
  <2>3. CASE disk'[j] = OfUser(j) BY <2>3 DEF Fresh, OfUser
  <2> QED BY <2>1, <2>2, <2>3 DEF DiskStep, DiskMay
<1>3. row' \in [Inode -> Row \cup {None}] /\ disk' \in [Path -> Content \cup {None}]
  BY DEF RowStep, DiskStep, VfsInv, VfsTypeOK
<1>4. \A j \in Inode : row[j] # None => row'[j].ver >= row[j].ver
  BY <1>1, VersionIsNat DEF VfsInv
<1> QED BY <1>1, <1>2, <1>3, <1>4 DEF Advances

\* A callback leaves the rows as the engine and the cache need them.
LEMMA CallbackRows == ASSUME VfsInv, CallbackStep PROVE RowsOK'
<1> USE DEF CallbackStep
<1> SUFFICES ASSUME NEW i \in Inode PROVE RowOK(i)' BY DEF RowsOK
<1>1. /\ row[i] # None => row'[i] # None /\ row'[i].ver = row[i].ver
      /\ \A v \in Nat : Fresh(i, v) => Fresh(i, v)'
  BY CallbackAdvances
<1>2. RowOK(i) /\ row[i] \in Row \cup {None} BY DEF VfsInv, RowsOK, VfsTypeOK
<1>3. row[i] # None => row[i].ver \in Nat BY <1>2 DEF Row
<1>4. CASE row'[i] = row[i] BY <1>1, <1>2, <1>3, <1>4 DEF RowOK
<1>5. CASE /\ row[i] # None /\ row'[i] \in Row
           /\ row'[i].ver = row[i].ver /\ row'[i].path = row[i].path
           /\ row'[i].state \in {"cached", "offline"} => row[i].path # None
  BY <1>1, <1>2, <1>3, <1>5 DEF RowOK
<1>6. CASE /\ row[i] = None /\ row'[i] \in Row
           /\ row'[i].path \in {None, i} /\ row'[i].ver = 0
           /\ row'[i].state \notin {"cached", "offline"}
  <2>1. disk'[i] \in Content \cup {None} BY CallbackAdvances DEF Path, Advances
  <2>2. Fresh(i, 0)' BY <2>1 DEF Fresh, Content
  <2> QED BY <1>6, <2>2 DEF RowOK
<1> QED BY <1>4, <1>5, <1>6 DEF RowStep, RowMay

\* A callback keeps the invariant.
LEMMA CallbackKeeps == ASSUME VfsInv, CallbackStep PROVE VfsInv'
<1> USE DEF CallbackStep
<1>0. Advances BY CallbackAdvances
<1>1. /\ \A j \in Inode : row[j] # None => row'[j] # None /\ row'[j].ver = row[j].ver
      /\ \A j \in Inode, v \in Nat : Fresh(j, v) => Fresh(j, v)'
      /\ row' \in [Inode -> Row \cup {None}] /\ disk' \in [Path -> Content \cup {None}]
  BY CallbackAdvances DEF Advances
<1>2. RowsOK' BY CallbackRows
<1>3. StoreOK'
  <2>1. ASSUME NEW i \in Inode, disk'[i] # None PROVE disk'[i].of = i
    <3>1. CASE disk'[i] = disk[i] BY <2>1, <3>1 DEF VfsInv, StoreOK
    <3>2. CASE disk'[i] = OfUser(i) BY <3>2 DEF OfUser
    <3> QED BY <2>1, <3>1, <3>2 DEF DiskStep, DiskMay
  <2>2. \A i \in Inode : drive'[i] # None => row'[i] # None /\ row'[i].ver <= drive'[i].ver
    BY <1>1 DEF VfsInv, StoreOK
  <2>3. \A i \in unseen' : drive'[i] # None BY DEF VfsInv, StoreOK
  <2>4. \A i \in known' : row'[i] # None
    BY <1>1 DEF VfsInv, StoreOK, KnownStep, VfsTypeOK
  <2>5. row'[1] # None BY <1>1, VfsConstants DEF VfsInv, StoreOK, Inode
  <2> QED BY <2>1, <2>2, <2>3, <2>4, <2>5 DEF StoreOK
<1>4. LegalTask \subseteq LegalTask' /\ LegalHandle \subseteq LegalHandle'
      /\ LegalCall \subseteq LegalCall'
  BY <1>0, LegalStays DEF VfsInv
<1>5. QueueOK'
  <2>1. queue \in Seq(LegalTask') BY <1>4, SeqGrows DEF VfsInv, QueueOK
  <2>2. queue' \in Seq(LegalTask') BY <1>4, <2>1 DEF QueueStep
  <2> QED BY <2>2 DEF QueueOK
<1>6. EngineOK'
  <2> SUFFICES ASSUME engine # None PROVE EngineOK' BY DEF EngineOK
  <2>1. EngineOK /\ engine \in Work BY DEF VfsInv, VfsTypeOK
  <2>2. TaskOK(engine.task) /\ engine.task.op = engine.op
        /\ row[engine.task.ino].ver = engine.copy.ver
    BY <2>1 DEF EngineOK
  <2>3. TaskOK(engine.task)' BY <1>1, <2>2 DEF TaskOK, There
  <2>4. row'[engine.task.ino].ver = engine.copy.ver BY <1>1, <2>2 DEF TaskOK, There
  <2>5. engine.copy \in Row /\ engine.copy.ver \in Nat BY <2>1 DEF Work, Row
  <2>6. engine.op = "download" /\ engine.at = "row" => Fresh(engine.task.ino, engine.copy.ver)'
    BY <1>1, <2>1, <2>2, <2>5 DEF EngineOK, TaskOK, There
  <2> QED BY <2>2, <2>3, <2>4, <2>6 DEF EngineOK
<1>7. HandlesOK' BY <1>4 DEF VfsInv, HandlesOK, HandleStep
<1>8. CallsOK' BY <1>4 DEF VfsInv, CallsOK, CallStep
<1>9. VfsTypeOK'
  <2>1. known' \subseteq Inode BY DEF KnownStep, VfsInv, VfsTypeOK
  <2>2. open_files' \in [Fh -> Handle \cup {None}] /\ next_fh' \in 1..(MaxHandles + 1)
    BY DEF HandleStep, VfsInv, VfsTypeOK
  <2>3. call' \in [Thread -> Call \cup {None}] BY DEF CallStep, VfsInv, VfsTypeOK
  <2>4. reply' \in Reply BY DEF ReplyStep, VfsInv, VfsTypeOK
  <2>5. /\ platform' \in {"linux", "macos", "windows"} /\ engine' \in Work \cup {None}
        /\ drive' \in [Inode -> DriveFile \cup {None}] /\ unseen' \subseteq Inode
    BY DEF VfsInv, VfsTypeOK
  <2>6. queue' \in Seq(Task)
    <3>1. LegalTask' \subseteq Task BY DEF LegalTask
    <3> QED BY <1>5, <3>1, SeqGrows DEF QueueOK
  <2> QED BY <1>1, <2>1, <2>2, <2>3, <2>4, <2>5, <2>6 DEF VfsTypeOK
<1>10. ReadIsFresh' BY DEF ReplyStep, ReadIsFresh, VfsInv
<1> QED BY <1>2, <1>3, <1>5, <1>6, <1>7, <1>8, <1>9, <1>10 DEF VfsInv

-----------------------------------------------------------------------------
\* What the parts of a callback do.

\* An answer with a code carries no data.
LEMMA Answers == ASSUME NEW c \in Code, reply' = [code |-> c] PROVE ReplyStep
<1>1. reply' \in Reply BY DEF Reply
<1>2. reply'.code # "data" BY DEF Code
<1> QED BY <1>1, <1>2 DEF ReplyStep, ReadIsFresh

\* A callback that holds something legal, and one that is answered.
LEMMA Holds ==
    ASSUME VfsInv, NEW t \in Thread, NEW c \in Call, c \in LegalCall \cup LegalCall', Hold(t, c)
    PROVE  CallStep /\ ReplyStep
<1>1. ReplyStep BY Answers DEF Hold, Answer, Code
<1>2. call' \in [Thread -> Call \cup {None}] BY DEF Hold, VfsInv, VfsTypeOK
<1>3. \A u \in Thread : call'[u] \in {call[u], None} \cup LegalCall \cup LegalCall'
  BY DEF Hold, VfsInv, VfsTypeOK
<1> QED BY <1>1, <1>2, <1>3 DEF CallStep

\* A callback that is over is forgotten.
LEMMA Ends ==
    ASSUME VfsInv, NEW t \in Thread, call' = [call EXCEPT ![t] = None] PROVE CallStep
<1>1. call' \in [Thread -> Call \cup {None}] BY DEF VfsInv, VfsTypeOK
<1>2. \A u \in Thread : call'[u] \in {call[u], None} BY DEF VfsInv, VfsTypeOK
<1> QED BY <1>1, <1>2 DEF CallStep

\* A callback that is over is answered.
LEMMA Finishes ==
    ASSUME VfsInv, NEW t \in Thread, NEW c \in Code, Finish(t, c) PROVE CallStep /\ ReplyStep
BY Ends, Answers DEF Finish, Answer

\* A new handle of something legal.
LEMMA Adds ==
    ASSUME VfsInv, next_fh \in Fh, NEW i, NEW p, AddHandle(i, p),
           [ino |-> i, path |-> p, doomed |-> FALSE] \in LegalHandle \cup LegalHandle'
    PROVE  HandleStep
<1> DEFINE h == [ino |-> i, path |-> p, doomed |-> FALSE]
<1> HIDE DEF h
<1>1. h \in LegalHandle \cup LegalHandle' BY DEF h
<1>2. h \in Handle BY <1>1 DEF LegalHandle
<1>3. open_files' = [open_files EXCEPT ![next_fh] = h] /\ next_fh' = next_fh + 1
  BY DEF AddHandle, h
<1>4. open_files' \in [Fh -> Handle \cup {None}] BY <1>2, <1>3 DEF VfsInv, VfsTypeOK
<1>5. \A fh \in Fh :
        open_files'[fh] \in {open_files[fh], None} \cup LegalHandle \cup LegalHandle'
  BY <1>1, <1>3 DEF VfsInv, VfsTypeOK
<1>6. next_fh' \in 1..(MaxHandles + 1) BY <1>3, VfsConstants DEF Fh
<1> QED BY <1>4, <1>5, <1>6 DEF HandleStep

\* A handle that goes.
LEMMA Closes ==
    ASSUME VfsInv, NEW fh \in Fh, open_files' = [open_files EXCEPT ![fh] = None],
           UNCHANGED next_fh
    PROVE  HandleStep
<1>1. open_files' \in [Fh -> Handle \cup {None}] BY DEF VfsInv, VfsTypeOK
<1>2. \A g \in Fh : open_files'[g] \in {open_files[g], None} BY DEF VfsInv, VfsTypeOK
<1> QED BY <1>1, <1>2 DEF HandleStep, VfsInv, VfsTypeOK

\* A handle in use is one of Drive's rows', on Windows perhaps the root's.
LEMMA HandleInUse ==
    ASSUME VfsInv, NEW fh \in Fh, open_files[fh] # None
    PROVE  open_files[fh] \in Handle /\ HandleOK(open_files[fh])
BY DEF VfsInv, HandlesOK, LegalHandle

\* What a callback holds.
LEMMA CallInUse ==
    ASSUME VfsInv, NEW t \in Thread, call[t] # None
    PROVE  call[t] \in Call /\ CallOK(call[t])
BY DEF VfsInv, CallsOK, LegalCall

\* A row that is there.
LEMMA RowThere ==
    ASSUME VfsInv, NEW i, There(i)
    PROVE  /\ i \in Inode /\ row[i] # None /\ row[i] \in Row /\ row[i].ver \in Nat
           /\ row[i].path \in {None, i} /\ LocalPath(i) = i
           /\ row[i].state \in {"cached", "offline"} =>
                row[i].path = i /\ Fresh(i, row[i].ver)
<1>1. i \in Inode /\ row[i] # None /\ row[i] \in Row BY DEF There, VfsInv, VfsTypeOK
<1>2. row[i].ver \in Nat BY <1>1 DEF Row
<1>3. RowOK(i) BY <1>1 DEF VfsInv, RowsOK
<1> QED BY <1>1, <1>2, <1>3 DEF RowOK, LocalPath, cache_path

\* A row that is not trashed is there.
LEMMA LiveIsThere == ASSUME NEW i \in Inode, Live(i) PROVE There(i)
BY DEF Live, There

\* A row is edited without its version and path.
LEMMA Edits ==
    ASSUME VfsInv, NEW i, There(i), NEW r \in Row, row' = [row EXCEPT ![i] = r],
           r.ver = row[i].ver, r.path = row[i].path, r.state \in {"modified", row[i].state}
    PROVE  RowStep
<1>1. row' \in [Inode -> Row \cup {None}] BY DEF VfsInv, VfsTypeOK
<1>2. ASSUME NEW j \in Inode PROVE RowMay(j)
  <2>1. CASE j # i BY <2>1 DEF RowMay, VfsInv, VfsTypeOK
  <2>2. CASE j = i
    <3>1. row'[i] = r BY DEF VfsInv, VfsTypeOK, There
    <3>2. r.state \in {"cached", "offline"} => row[i].path = i BY RowThere
    <3>3. i # None BY VfsConstants DEF There, Inode
    <3> QED BY <2>2, <3>1, <3>2, <3>3, RowThere DEF RowMay
  <2> QED BY <2>1, <2>2
<1> QED BY <1>1, <1>2 DEF RowStep

\* The id of a new row.
LEMMA NewIsFree == ASSUME Free # {} PROVE NewInode \in Inode /\ row[NewInode] = None
BY DEF NewInode, Free

\* A row is inserted that nobody has downloaded.
LEMMA Inserts ==
    ASSUME VfsInv, NEW new \in Inode, row[new] = None, NEW r \in Row,
           row' = [row EXCEPT ![new] = r],
           r.path \in {None, new}, r.ver = 0, r.state \notin {"cached", "offline"}
    PROVE  RowStep /\ There(new)'
<1>1. row' \in [Inode -> Row \cup {None}] BY DEF VfsInv, VfsTypeOK
<1>2. row'[new] = r BY DEF VfsInv, VfsTypeOK
<1>3. ASSUME NEW j \in Inode PROVE RowMay(j)
  <2>1. CASE j # new BY <2>1 DEF RowMay, VfsInv, VfsTypeOK
  <2>2. CASE j = new BY <1>2, <2>2 DEF RowMay
  <2> QED BY <2>1, <2>2
<1>4. RowStep BY <1>1, <1>3 DEF RowStep
<1>5. row'[new] # None BY <1>2, NoneIsNoRow
<1> QED BY <1>4, <1>5 DEF There

\* A cache file becomes its user's, or goes; a path of no row changes nothing.
LEMMA Writes ==
    ASSUME VfsInv, NEW i \in Inode \cup {None}, disk' = [disk EXCEPT ![i] = OfUser(i)]
    PROVE  DiskStep
<1>1. CASE i \notin Path
  <2>1. disk' = disk BY <1>1 DEF VfsInv, VfsTypeOK
  <2> QED BY <2>1 DEF DiskStep
<1>2. CASE i \in Inode
  <2>1. OfUser(i) \in Content BY <1>2 DEF OfUser, Content
  <2>2. disk' \in [Path -> Content \cup {None}] BY <2>1 DEF VfsInv, VfsTypeOK
  <2>3. \A j \in Inode : DiskMay(j) BY DEF DiskMay, VfsInv, VfsTypeOK, Path
  <2> QED BY <2>2, <2>3 DEF DiskStep
<1> QED BY <1>1, <1>2, VfsConstants DEF Path, Inode

\* A cache file goes.
LEMMA Removes ==
    ASSUME VfsInv, NEW i \in Inode, disk' = [disk EXCEPT ![i] = None] PROVE DiskStep
<1>1. disk' \in [Path -> Content \cup {None}] BY DEF VfsInv, VfsTypeOK
<1>2. \A j \in Inode : DiskMay(j) BY DEF DiskMay, VfsInv, VfsTypeOK, Path
<1> QED BY <1>1, <1>2 DEF DiskStep

\* A task about a row that is there.
LEMMA Queues ==
    ASSUME VfsInv, NEW i, There(i), NEW p \in {None, i},
           NEW op \in {"download", "upload", "delete", "rename"},
           op = "download" => p = i, enqueue_task(op, i, p)
    PROVE  QueueStep
<1> DEFINE task == [op |-> op, ino |-> i, path |-> p]
<1>1. task \in Task BY DEF Task, There, Path
<1>2. TaskOK(task) BY DEF TaskOK
<1> QED BY <1>1, <1>2 DEF QueueStep, LegalTask, enqueue_task

\* What is counted, and what a callback leaves to the others.
LEMMA Counts ==
    ASSUME VfsInv, Counted \/ UNCHANGED ops, Others
    PROVE  /\ UNCHANGED <<platform, engine, drive, unseen>>
           /\ mount' \in {"none", "mounted", "failed", "unmounted"}
           /\ ops' \in Nat /\ faults' \in Nat
BY DEF VfsInv, VfsTypeOK, Counted, Others, mountVars, engineVars

-----------------------------------------------------------------------------
\* The actions of FUSE.

\* Queries.
LEMMA FuseQueries ==
    ASSUME VfsInv, NEW i \in Inode, NEW n \in Name, lookup(i, n) \/ getattr(i) \/ readdir(i)
    PROVE  CallbackStep
<1> USE DEF storeVars, fsVars, RowStep, DiskStep, QueueStep, HandleStep, CallStep
<1>1. CASE lookup(i, n)
  <2>1. ReplyStep BY <1>1, Answers DEF lookup, Answer, Code
  <2>2. KnownStep
    <3> DEFINE found == lookup_by_parent_and_name(i, n)
    <3>1. CASE found = {} BY <1>1, <3>1 DEF lookup, KnownStep
    <3>2. CASE found # {}
      <4>1. PICK j \in found : known' = known \cup {j} BY <1>1, <3>2 DEF lookup
      <4>2. j \in Inode /\ row[j] # None BY <4>1 DEF lookup_by_parent_and_name, Live
      <4>3. known \subseteq Inode /\ row' = row BY <1>1 DEF lookup, VfsInv, VfsTypeOK
      <4> QED BY <4>1, <4>2, <4>3 DEF KnownStep
    <3> QED BY <3>1, <3>2
  <2> QED BY <1>1, <2>1, <2>2, Counts DEF lookup, CallbackStep
<1>2. CASE getattr(i)
  <2>1. ReplyStep
    <3>1. CASE Live(i) BY <1>2, <3>1, Answers DEF getattr, Answer, Code
    <3>2. CASE ~Live(i) BY <1>2, <3>2, Answers DEF getattr, Answer, Code
    <3> QED BY <3>1, <3>2
  <2> QED BY <1>2, <2>1, Counts DEF getattr, CallbackStep, KnownStep
<1>3. CASE readdir(i)
  <2>1. ReplyStep BY <1>3, Answers DEF readdir, Answer, Code
  <2> QED BY <1>3, <2>1, Counts DEF readdir, CallbackStep, KnownStep
<1> QED BY <1>1, <1>2, <1>3

\* A handle of a row that is there is legal.
LEMMA NewHandle ==
    ASSUME NEW i, There(i), NEW p \in {None, i}
    PROVE  [ino |-> i, path |-> p, doomed |-> FALSE] \in LegalHandle
<1> DEFINE h == [ino |-> i, path |-> p, doomed |-> FALSE]
<1>1. h \in Handle BY VfsConstants DEF Handle, There, Inode, Path
<1>2. HandleOK(h) BY DEF HandleOK
<1> QED BY <1>1, <1>2 DEF LegalHandle

\* Opening and closing.
LEMMA FuseHandles ==
    ASSUME VfsInv, NEW i \in Inode, NEW fh \in Fh, NEW c \in Code, open(i, c) \/ release(fh)
    PROVE  CallbackStep
<1> USE DEF storeVars, fsVars, RowStep, DiskStep, QueueStep, KnownStep, CallStep
<1>1. CASE open(i, c)
  <2>1. OpenCode(i, c) \in Code BY DEF OpenCode, Code
  <2>2. ReplyStep BY <1>1, <2>1, Answers DEF open, Answer
  <2>3. HandleStep
    <3>1. CASE OpenCode(i, c) = "ok"
      <4>1. Live(i) BY <3>1 DEF OpenCode
      <4>2. There(i) BY <4>1, LiveIsThere
      <4>3. LocalPath(i) = i BY <4>2, RowThere
      <4>4. [ino |-> i, path |-> i, doomed |-> FALSE] \in LegalHandle BY <4>2, NewHandle
      <4>5. AddHandle(i, i) /\ next_fh \in Fh BY <1>1, <3>1, <4>3 DEF open
      <4> QED BY <4>4, <4>5, Adds
    <3>2. CASE OpenCode(i, c) # "ok" BY <1>1, <3>2 DEF open, HandleStep
    <3> QED BY <3>1, <3>2
  <2> QED BY <1>1, <2>2, <2>3, Counts DEF open, CallbackStep
<1>2. CASE release(fh)
  <2>1. ReplyStep BY <1>2, Answers DEF release, Answer, Code
  <2>2. HandleStep BY <1>2, Closes DEF release
  <2> QED BY <1>2, <2>1, <2>2, Counts DEF release, CallbackStep
<1> QED BY <1>1, <1>2

\* What callbacks on a row hold while they go on.
LEMMA NewCalls ==
    ASSUME NEW i, There(i)
    PROVE  /\ [op |-> "write", ino |-> i] \in LegalCall
           /\ \A p \in {None, i} : [op |-> "unlink", ino |-> i, path |-> p] \in LegalCall
           /\ \A n \in Name : [op |-> "renamed", ino |-> i, name |-> n] \in LegalCall
<1>1. i \in Inode BY DEF There
<1>2. [op |-> "write", ino |-> i] \in LegalCall BY <1>1 DEF LegalCall, Call, CallOK
<1>3. ASSUME NEW p \in {None, i}
      PROVE  [op |-> "unlink", ino |-> i, path |-> p] \in LegalCall
  <2>1. p \in Path \cup {None} BY <1>1 DEF Path
  <2> QED BY <1>1, <2>1 DEF LegalCall, Call, CallOK
<1>4. ASSUME NEW n \in Name
      PROVE  [op |-> "renamed", ino |-> i, name |-> n] \in LegalCall
  BY <1>1 DEF LegalCall, Call, CallOK
<1> QED BY <1>2, <1>3, <1>4

\* A read that begins is of the version its row has.
LEMMA Reads ==
    ASSUME VfsInv, NEW t \in Thread, NEW i \in Inode, Live(i), StartRead(t, i)
    PROVE  CallStep /\ ReplyStep /\ QueueStep
<1> DEFINE at == IF MustFetch(i) THEN "wait" ELSE "file"
           modified == row[i].state = "modified"
           held == [op |-> "read", at |-> at, ino |-> i, path |-> i,
                    seen |-> row[i].ver, modified |-> modified]
<1>1. There(i) BY LiveIsThere
<1>2. /\ row[i] \in Row /\ row[i].ver \in Nat /\ LocalPath(i) = i
      /\ row[i].state \in {"cached", "offline"} => Fresh(i, row[i].ver)
  BY <1>1, RowThere
<1>3. Hold(t, held) BY <1>2 DEF StartRead
<1>4. at \in {"wait", "file"} /\ (at = "file" => ~MustFetch(i)) OBVIOUS
<1>5. modified \in BOOLEAN OBVIOUS
<1>6. ~MustFetch(i) /\ ~modified => Fresh(i, row[i].ver)
  <2>1. row[i].state \in {"cloud_only", "cached", "modified", "offline"} BY <1>2 DEF Row
  <2> QED BY <1>2, <2>1 DEF MustFetch
<1>7. held \in Call
  <2> HIDE DEF at, modified
  <2>1. i \in Path BY DEF Path
  <2> QED BY <1>2, <1>4, <1>5, <2>1 DEF Call
<1>8. CallOK(held)
  <2> HIDE DEF at, modified
  <2>1. ReadOK(held) BY <1>2, <1>4, <1>5, <1>6 DEF ReadOK
  <2> QED BY <1>1, <2>1 DEF CallOK
<1>9. CallStep /\ ReplyStep
  <2> HIDE DEF held
  <2> QED BY <1>3, <1>7, <1>8, Holds DEF LegalCall
<1>10. QueueStep
  <2>1. CASE MustFetch(i)
    <3>1. enqueue_task("download", i, i) BY <1>2, <2>1 DEF StartRead, enqueue_download_task
    <3> QED BY <1>1, <3>1, Queues
  <2>2. CASE ~MustFetch(i) BY <2>2 DEF StartRead, QueueStep
  <2> QED BY <2>1, <2>2
<1> QED BY <1>9, <1>10

\* read of a FUSE session.
LEMMA FuseReads ==
    ASSUME VfsInv, platform # "windows", NEW fh \in Fh, read(fh) PROVE CallbackStep
<1> USE DEF storeVars, fsVars, RowStep, DiskStep, KnownStep, HandleStep
<1>1. open_files[fh].ino \in Inode BY HandleInUse DEF HandleOK, There, read
<1>2. CallStep /\ ReplyStep /\ QueueStep
  <2>1. CASE Live(open_files[fh].ino)
    BY <1>1, <2>1, Reads DEF read, Fuser, Thread
  <2>2. CASE ~Live(open_files[fh].ino)
    BY <2>2, Answers DEF read, Answer, Code, CallStep, QueueStep
  <2> QED BY <2>1, <2>2
<1> QED BY <1>2, Counts DEF read, CallbackStep

\* The wait of a read ends, its time runs out, its file is read.
LEMMA ReadsGoOn ==
    ASSUME VfsInv, NEW t \in Thread, NEW c \in Code,
           ReadWaited(t) \/ ReadTimesOut(t, c) \/ ReadsFile(t, c)
    PROVE  CallbackStep
<1> USE DEF storeVars, fsVars, RowStep, DiskStep, QueueStep, KnownStep, HandleStep
<1> DEFINE r == call[t]
<1>1. /\ r # None /\ r.op = "read" /\ r \in Call
      /\ There(r.ino) /\ ReadOK(r)
  BY CallInUse DEF ReadWaited, ReadTimesOut, ReadsFile, InRead, CallOK
<1>2. r.ino \in Inode /\ r.seen \in Nat /\ r.path \in Path /\ r.modified \in BOOLEAN
      /\ r = [op |-> "read", at |-> r.at, ino |-> r.ino, path |-> r.path,
              seen |-> r.seen, modified |-> r.modified]
  BY <1>1 DEF Call
<1>3. CASE ReadWaited(t)
  <2> DEFINE past == [op |-> "read", at |-> "file", ino |-> r.ino, path |-> r.path,
                      seen |-> r.seen, modified |-> r.modified]
  <2>1. call' = [call EXCEPT ![t] = past]
    <3>1. call' = [call EXCEPT ![t].at = "file"] BY <1>3 DEF ReadWaited
    <3>2. past = [r EXCEPT !.at = "file"] BY <1>2
    <3> QED BY <3>1, <3>2
  <2>2. past \in Call BY <1>2 DEF Call
  <2>3. Fresh(r.ino, r.seen)
    <3>1. row[r.ino].state \in {"cached", "offline"}
      BY <1>3 DEF ReadWaited, wait_for_download
    <3>2. Fresh(r.ino, row[r.ino].ver) /\ row[r.ino].ver \in Nat BY <1>1, <3>1, RowThere
    <3>3. disk[r.ino] # None => disk[r.ino].ver \in Nat
      BY <1>2 DEF VfsInv, VfsTypeOK, Path, Content
    <3> QED BY <1>1, <1>2, <3>2, <3>3 DEF Fresh, ReadOK
  <2>4. past \in LegalCall BY <1>1, <2>2, <2>3 DEF LegalCall, CallOK, ReadOK
  <2> HIDE DEF past
  <2>5. CallStep
    <3>1. call' \in [Thread -> Call \cup {None}] BY <2>1, <2>2 DEF VfsInv, VfsTypeOK
    <3>2. \A u \in Thread : call'[u] \in {call[u]} \cup LegalCall
      BY <2>1, <2>4 DEF VfsInv, VfsTypeOK
    <3> QED BY <3>1, <3>2 DEF CallStep
  <2> QED BY <1>3, <2>5, Counts DEF ReadWaited, CallbackStep, ReplyStep
<1>4. CASE ReadTimesOut(t, c)
  <2>1. CallStep /\ ReplyStep BY <1>4, Finishes DEF ReadTimesOut
  <2> QED BY <1>4, <2>1, Counts DEF ReadTimesOut, CallbackStep
<1>5. CASE ReadsFile(t, c)
  <2>1. CallStep BY <1>5, Ends DEF ReadsFile
  <2>2. ReplyStep
    <3>1. CASE disk[r.path] = None BY <1>5, <3>1, Answers DEF ReadsFile
    <3>2. CASE disk[r.path] # None
      <4> DEFINE d == disk[r.path]
      <4>1. reply' = [code |-> "data", ino |-> r.ino, seen |-> r.seen,
                      modified |-> r.modified, data |-> d]
        BY <1>5, <3>2 DEF ReadsFile
      <4>2. d \in Content /\ r.path = r.ino /\ d.of = r.ino
        BY <1>1, <1>2, <3>2 DEF ReadOK, VfsInv, VfsTypeOK, StoreOK
      <4>3. d.src = "user" \/ r.modified \/ d.ver >= r.seen
        BY <1>1, <1>5, <3>2 DEF ReadOK, Fresh, ReadsFile, InRead
      <4>4. reply' \in Reply BY <1>2, <4>1, <4>2 DEF Reply
      <4>5. ReadIsFresh' BY <4>1, <4>2, <4>3 DEF ReadIsFresh
      <4> QED BY <4>4, <4>5 DEF ReplyStep
    <3> QED BY <3>1, <3>2
  <2> QED BY <1>5, <2>1, <2>2, Counts DEF ReadsFile, CallbackStep
<1> QED BY <1>3, <1>4, <1>5

\* The row of a new file or folder goes into the table.
LEMMA LocalRows ==
    ASSUME VfsInv, NEW new \in Inode, new = NewInode, row[new] = None,
           NEW p \in 0..MaxInode, NEW n \in Name,
           insert_local_file(p, n) \/ insert_local_folder(p, n)
    PROVE  RowStep /\ There(new)'
<1>1. CASE insert_local_file(p, n)
  <2>1. LocalFile(new, p, n) \in Row BY DEF LocalFile, Row, cache_path, Path
  <2> QED BY <1>1, <2>1, Inserts DEF insert_local_file, LocalFile, cache_path
<1>2. CASE insert_local_folder(p, n)
  <2> DEFINE r == [name |-> n, parent |-> p, kind |-> "folder", state |-> "cloud_only",
                   path |-> None, trashed |-> FALSE, ver |-> 0]
  <2>1. r \in Row BY DEF Row
  <2>2. row' = [row EXCEPT ![new] = r] BY <1>2 DEF insert_local_folder
  <2> QED BY <2>1, <2>2, Inserts
<1> QED BY <1>1, <1>2

\* The call of a file that is made.
LEMMA NewCreate ==
    ASSUME NEW i, There(i)'
    PROVE  /\ [op |-> "create", ino |-> i] \in LegalCall'
           /\ [op |-> "create", ino |-> i] \in Call
<1>1. i \in Inode BY DEF There
<1>2. [op |-> "create", ino |-> i] \in Call BY <1>1 DEF Call
<1> QED BY <1>2 DEF LegalCall, CallOK

\* create, as far as the row.
LEMMA FuseCreates ==
    ASSUME VfsInv, NEW p \in Inode, NEW n \in Name, create(p, n) PROVE CallbackStep
<1> USE DEF storeVars, fsVars, DiskStep, QueueStep, KnownStep, HandleStep
<1>1. RowStep /\ CallStep /\ ReplyStep
  <2>1. CASE ParentKnown(p)
    <3>1. PICK new \in Inode : new = NewInode /\ row[new] = None BY NewIsFree DEF create
    <3>2. RowStep /\ There(new)' BY <2>1, <3>1, LocalRows DEF create, Inode
    <3>3. Hold(Fuser, [op |-> "create", ino |-> new]) BY <2>1, <3>1 DEF create
    <3> QED BY <3>2, <3>3, Holds, NewCreate DEF Fuser, Thread
  <2>2. CASE ~ParentKnown(p)
    BY <2>2, Answers DEF create, Answer, Code, CallStep, RowStep
  <2> QED BY <2>1, <2>2
<1> QED BY <1>1, Counts DEF create, CallbackStep

\* The empty file and its handle, or no file.
LEMMA CreatesFile ==
    ASSUME VfsInv, NEW t \in Thread, NEW c \in Code, CreateFile(t) \/ CreateFails(t, c)
    PROVE  CallbackStep
<1> USE DEF storeVars, fsVars, RowStep, QueueStep
<1> DEFINE i == call[t].ino
<1>1. There(i)
  <2>1. call[t] # None /\ call[t].op = "create" BY DEF CreateFile, CreateFails
  <2> QED BY <2>1, CallInUse DEF CallOK
<1>2. i \in Inode /\ row[i] # None BY <1>1 DEF There
<1>3. CASE CreateFile(t)
  <2>1. DiskStep
    <3>1. disk' = [disk EXCEPT ![i] = OfUser(i)] BY <1>3 DEF CreateFile, cache_path
    <3> HIDE DEF i
    <3> QED BY <1>2, <3>1, Writes
  <2>2. HandleStep
    <3>1. AddHandle(i, i) /\ next_fh \in Fh BY <1>3 DEF CreateFile, cache_path
    <3> HIDE DEF i
    <3> QED BY <1>1, <3>1, NewHandle, Adds
  <2>3. KnownStep
    <3>1. known' = known \cup {i} /\ row' = row BY <1>3 DEF CreateFile
    <3> QED BY <1>2, <3>1 DEF KnownStep, VfsInv, VfsTypeOK
  <2>4. CallStep /\ ReplyStep BY <1>3, Finishes DEF CreateFile, Code
  <2> QED BY <1>3, <2>1, <2>2, <2>3, <2>4, Counts DEF CreateFile, CallbackStep
<1>4. CASE CreateFails(t, c)
  <2>1. CallStep /\ ReplyStep BY <1>4, Finishes DEF CreateFails
  <2>2. faults' \in Nat /\ ops' \in Nat BY <1>4 DEF CreateFails, VfsInv, VfsTypeOK
  <2> QED BY <1>4, <2>1, <2>2
       DEF CreateFails, CallbackStep, mountVars, DiskStep, KnownStep, HandleStep,
           VfsInv, VfsTypeOK
<1> QED BY <1>3, <1>4

\* A write through a handle of a row.
LEMMA WritesFile ==
    ASSUME VfsInv, NEW t \in Thread, NEW h \in Handle, There(h.ino),
           h.path \in {None, h.ino}, StartWrite(t, h)
    PROVE  DiskStep /\ CallStep /\ ReplyStep
<1>1. DiskStep
  <2>1. CASE h.path = h.ino BY <2>1, Writes DEF StartWrite, There
  <2>2. CASE h.path = None
    <3>1. None \notin Path BY VfsConstants DEF Path, Inode
    <3>2. disk' = disk BY <2>2, <3>1 DEF StartWrite, VfsInv, VfsTypeOK
    <3> QED BY <3>2 DEF DiskStep
  <2> QED BY <2>1, <2>2
<1>2. [op |-> "write", ino |-> h.ino] \in LegalCall BY NewCalls
<1>3. [op |-> "write", ino |-> h.ino] \in Call BY <1>2 DEF LegalCall
<1> QED BY <1>1, <1>2, <1>3, Holds DEF StartWrite

\* A handle of a row, on the platforms where the root has none.
LEMMA FileInUse ==
    ASSUME VfsInv, NEW fh \in Fh, open_files[fh] # None,
           platform # "windows" \/ open_files[fh].ino # ROOT_INODE
    PROVE  /\ open_files[fh] \in Handle /\ There(open_files[fh].ino)
           /\ open_files[fh].path \in {None, open_files[fh].ino}
BY HandleInUse DEF HandleOK

\* A row that is still modified is uploaded.
LEMMA Uploads ==
    ASSUME VfsInv, NEW h \in Handle, There(h.ino), h.path \in {None, h.ino},
           UploadIfModified(h)
    PROVE  QueueStep
<1>1. CASE row[h.ino].state = "modified"
  <2>1. enqueue_task("upload", h.ino, h.path)
    BY <1>1 DEF UploadIfModified, enqueue_upload_task
  <2> QED BY <2>1, Queues
<1>2. CASE row[h.ino].state # "modified" BY <1>2 DEF UploadIfModified, QueueStep
<1> QED BY <1>1, <1>2

\* write, flush and fsync.
LEMMA FuseWrites ==
    ASSUME VfsInv, platform # "windows", NEW fh \in Fh, write(fh) \/ FlushHandle(fh)
    PROVE  CallbackStep
<1> USE DEF storeVars, fsVars, RowStep, KnownStep, HandleStep
<1>1. /\ open_files[fh] \in Handle /\ There(open_files[fh].ino)
      /\ open_files[fh].path \in {None, open_files[fh].ino}
  BY FileInUse DEF write, FlushHandle
<1>2. CASE write(fh)
  <2>1. DiskStep /\ CallStep /\ ReplyStep
    BY <1>1, <1>2, WritesFile DEF write, Fuser, Thread
  <2> QED BY <1>2, <2>1, Counts DEF write, CallbackStep, QueueStep
<1>3. CASE FlushHandle(fh)
  <2>1. QueueStep BY <1>1, <1>3, Uploads DEF FlushHandle, QueueStep
  <2>2. ReplyStep BY <1>3, Answers DEF FlushHandle, Answer, Code
  <2> QED BY <1>3, <2>1, <2>2, Counts DEF FlushHandle, CallbackStep, DiskStep, CallStep
<1> QED BY <1>2, <1>3

\* The row learns of the write.
LEMMA WritesRow ==
    ASSUME VfsInv, NEW t \in Thread, WriteRecorded(t) PROVE CallbackStep
<1> USE DEF storeVars, fsVars, DiskStep, QueueStep, KnownStep, HandleStep
<1> DEFINE i == call[t].ino
           r == [row[i] EXCEPT !.state = "modified"]
<1>1. There(i) BY CallInUse DEF WriteRecorded, CallOK
<1>2. row[i] \in Row BY <1>1, RowThere
<1>3. r \in Row /\ r.ver = row[i].ver /\ r.path = row[i].path /\ r.state = "modified"
  BY <1>2 DEF Row
<1>4. row' = [row EXCEPT ![i] = r] BY DEF WriteRecorded, update_file_size_mtime
<1>5. RowStep
  <2> HIDE DEF i, r
  <2> QED BY <1>1, <1>3, <1>4, Edits
<1>6. CallStep /\ ReplyStep BY Finishes DEF WriteRecorded, Code
<1> QED BY <1>5, <1>6, Counts DEF WriteRecorded, CallbackStep

\* A row that is being deleted: the task and what the callback holds.
LEMMA Unlinks ==
    ASSUME VfsInv, NEW t \in Thread, NEW i, There(i), NEW p \in {None, i},
           StartUnlink(t, i, p)
    PROVE  QueueStep /\ CallStep /\ ReplyStep
<1>1. QueueStep BY RowThere, Queues DEF StartUnlink
<1>2. [op |-> "unlink", ino |-> i, path |-> p] \in LegalCall BY NewCalls
<1>3. [op |-> "unlink", ino |-> i, path |-> p] \in Call BY <1>2 DEF LegalCall
<1> QED BY <1>1, <1>2, <1>3, Holds DEF StartUnlink

\* unlink and rmdir.
LEMMA FuseUnlinks ==
    ASSUME VfsInv, NEW p \in Inode, NEW n \in Name, unlink(p, n) \/ rmdir(p, n)
    PROVE  CallbackStep
<1> USE DEF storeVars, fsVars, RowStep, DiskStep, KnownStep, HandleStep
<1> DEFINE found == lookup_by_parent_and_name(p, n)
           refused == \E c \in Code : Answer(c) /\ UNCHANGED <<queue, call>>
<1>1. ASSUME refused PROVE QueueStep /\ CallStep /\ ReplyStep
  BY <1>1, Answers DEF Answer, QueueStep, CallStep
<1>2. {"ENOENT", "EISDIR", "ENOTDIR", "ENOTEMPTY"} \subseteq Code BY DEF Code
<1>3. Fuser \in Thread BY DEF Fuser, Thread
<1>4. ASSUME NEW i \in found PROVE There(i) /\ row[i].path \in {None, i}
  <2>1. There(i) BY <1>4 DEF lookup_by_parent_and_name, Live, There
  <2> QED BY <2>1, RowThere
<1>5. CASE unlink(p, n)
  <2>1. \/ refused
        \/ \E i \in found : StartUnlink(Fuser, i, row[i].path)
    BY <1>2, <1>5 DEF unlink
  <2>2. QueueStep /\ CallStep /\ ReplyStep BY <1>1, <1>3, <1>4, <2>1, Unlinks
  <2> QED BY <1>5, <2>2, Counts DEF unlink, CallbackStep
<1>6. CASE rmdir(p, n)
  <2>1. \/ refused
        \/ \E i \in found : StartUnlink(Fuser, i, None)
    BY <1>2, <1>6 DEF rmdir
  <2>2. QueueStep /\ CallStep /\ ReplyStep BY <1>1, <1>3, <1>4, <2>1, Unlinks
  <2> QED BY <1>6, <2>2, Counts DEF rmdir, CallbackStep
<1> QED BY <1>5, <1>6

\* A row is marked trashed.
LEMMA Trashes ==
    ASSUME VfsInv, NEW i, There(i), soft_delete_by_inode(i) PROVE RowStep
<1> DEFINE r == [row[i] EXCEPT !.trashed = TRUE]
<1>1. row[i] \in Row BY RowThere
<1>2. r \in Row /\ r.ver = row[i].ver /\ r.path = row[i].path /\ r.state = row[i].state
  BY <1>1 DEF Row
<1>3. row' = [row EXCEPT ![i] = r] BY DEF soft_delete_by_inode
<1> HIDE DEF r
<1> QED BY <1>2, <1>3, Edits

\* The cache file of a deleted row goes.
LEMMA UnlinksFile ==
    ASSUME VfsInv, NEW t \in Thread, UnlinkFinished(t) PROVE CallbackStep
<1> USE DEF storeVars, fsVars, QueueStep, KnownStep, HandleStep
<1>1. There(call[t].ino) /\ call[t].path \in {None, call[t].ino}
  BY CallInUse DEF UnlinkFinished, CallOK
<1>2. RowStep BY <1>1, Trashes DEF UnlinkFinished
<1>3. DiskStep
  <2>1. CASE call[t].path = None BY <2>1 DEF UnlinkFinished, DiskStep
  <2>2. CASE call[t].path # None
    <3>1. disk' = [disk EXCEPT ![call[t].ino] = None] BY <1>1, <2>2 DEF UnlinkFinished
    <3>2. call[t].ino \in Inode BY <1>1 DEF There
    <3> QED BY <3>1, <3>2, Removes
  <2> QED BY <2>1, <2>2
<1>4. CallStep /\ ReplyStep BY Finishes DEF UnlinkFinished, Code
<1> QED BY <1>2, <1>3, <1>4, Counts DEF UnlinkFinished, CallbackStep

\* A row gets another name and parent.
LEMMA Renames ==
    ASSUME VfsInv, NEW i, There(i), NEW n \in Name, NEW p \in 0..MaxInode,
           rename_file(i, n, p)
    PROVE  RowStep
<1> DEFINE r == [row[i] EXCEPT !.name = n, !.parent = p, !.state = "modified"]
<1>1. row[i] \in Row BY RowThere
<1>2. r \in Row /\ r.ver = row[i].ver /\ r.path = row[i].path /\ r.state = "modified"
  BY <1>1 DEF Row
<1>3. row' = [row EXCEPT ![i] = r] BY DEF rename_file
<1> HIDE DEF r
<1> QED BY <1>2, <1>3, Edits

\* rename.
LEMMA FuseRenames ==
    ASSUME VfsInv, NEW p \in Inode, NEW n \in Name, NEW newp \in Inode, NEW newn \in Name,
           rename(p, n, newp, newn)
    PROVE  CallbackStep
<1> USE DEF storeVars, fsVars, DiskStep, QueueStep, KnownStep, HandleStep
<1> DEFINE refused == \E c \in Code : Answer(c) /\ UNCHANGED <<row, call>>
<1>1. {"ENOENT", "EEXIST"} \subseteq Code BY DEF Code
<1>2. \/ refused
      \/ \E i \in lookup_by_parent_and_name(p, n) :
           /\ rename_file(i, newn, newp)
           /\ Hold(Fuser, [op |-> "renamed", ino |-> i, name |-> newn])
  BY <1>1 DEF rename
<1>3. RowStep /\ CallStep /\ ReplyStep
  <2>1. CASE refused BY <2>1, Answers DEF Answer, RowStep, CallStep
  <2>2. ASSUME NEW i \in lookup_by_parent_and_name(p, n),
               rename_file(i, newn, newp),
               Hold(Fuser, [op |-> "renamed", ino |-> i, name |-> newn])
        PROVE  RowStep /\ CallStep /\ ReplyStep
    <3>1. There(i) BY DEF lookup_by_parent_and_name, Live, There
    <3>2. RowStep BY <2>2, <3>1, Renames, VfsConstants DEF Inode
    <3>3. [op |-> "renamed", ino |-> i, name |-> newn] \in LegalCall BY <3>1, NewCalls
    <3>4. [op |-> "renamed", ino |-> i, name |-> newn] \in Call BY <3>3 DEF LegalCall
    <3> QED BY <2>2, <3>2, <3>3, <3>4, Holds DEF Fuser, Thread
  <2> QED BY <1>2, <2>1, <2>2
<1> QED BY <1>3, Counts DEF rename, CallbackStep

\* The cache file moves to the new name, which is no row's.
LEMMA RenamesFile ==
    ASSUME VfsInv, NEW t \in Thread, RenameFinished(t) PROVE CallbackStep
<1> USE DEF storeVars, fsVars, KnownStep, HandleStep, RowStep
<1> DEFINE i == call[t].ino
           n == call[t].name
<1>1. There(i) /\ n \in Name
  <2>1. call[t] # None /\ call[t].op = "renamed" BY DEF RenameFinished
  <2> QED BY <2>1, CallInUse DEF CallOK, Call
<1>2. row[i].path \in {None, i} /\ i \in Inode BY <1>1, RowThere
<1>3. CallStep /\ ReplyStep BY Finishes DEF RenameFinished, Code
<1>4. QueueStep
  <2>1. CASE Live(i) BY <1>1, <1>2, <2>1, Queues DEF RenameFinished
  <2>2. CASE ~Live(i) BY <2>2 DEF RenameFinished, QueueStep
  <2> QED BY <2>1, <2>2
<1>5. DiskStep
  <2>1. CASE disk' = disk BY <2>1 DEF DiskStep
  <2>2. CASE disk' # disk
    <3>1. /\ row[i].path = i /\ disk[i] # None
          /\ disk' = [disk EXCEPT ![i] = None, ![n] = disk[i]]
      BY <1>2, <2>2 DEF RenameFinished
    <3> HIDE DEF i, n
    <3>2. disk[i] \in Content BY <1>2, <3>1 DEF VfsInv, VfsTypeOK, Path
    <3>3. disk' \in [Path -> Content \cup {None}]
      BY <3>1, <3>2 DEF VfsInv, VfsTypeOK
    <3>4. ASSUME NEW j \in Inode PROVE DiskMay(j)
      <4>1. j # n BY <1>1, VfsConstants DEF Inode
      <4> QED BY <3>1, <4>1 DEF DiskMay, VfsInv, VfsTypeOK, Path
    <3> QED BY <3>3, <3>4 DEF DiskStep
  <2> QED BY <2>1, <2>2
<1> QED BY <1>3, <1>4, <1>5, Counts DEF RenameFinished, CallbackStep

\* mkdir.
LEMMA FuseMakes ==
    ASSUME VfsInv, NEW p \in Inode, NEW n \in Name, mkdir(p, n) PROVE CallbackStep
<1> USE DEF storeVars, fsVars, DiskStep, QueueStep, HandleStep, CallStep
<1> DEFINE refused == \E c \in Code : Answer(c) /\ UNCHANGED <<row, known>>
<1>1. {"ENOENT", "EEXIST", "ok"} \subseteq Code BY DEF Code
<1>2. \/ refused
      \/ insert_local_folder(p, n) /\ known' = known \cup {NewInode} /\ Answer("ok")
  BY <1>1 DEF mkdir
<1>3. RowStep /\ KnownStep /\ ReplyStep
  <2>1. CASE refused BY <2>1, Answers DEF Answer, RowStep, KnownStep
  <2>2. CASE insert_local_folder(p, n) /\ known' = known \cup {NewInode} /\ Answer("ok")
    <3>1. PICK new \in Inode : new = NewInode /\ row[new] = None BY NewIsFree DEF mkdir
    <3>2. RowStep /\ There(new)' BY <2>2, <3>1, LocalRows DEF Inode
    <3>3. ReplyStep BY <1>1, <2>2, Answers DEF Answer
    <3>4. known' = known \cup {new} /\ row'[new] # None BY <2>2, <3>1, <3>2 DEF There
    <3>5. KnownStep BY <3>4 DEF KnownStep, VfsInv, VfsTypeOK
    <3> QED BY <3>2, <3>3, <3>5
  <2> QED BY <1>2, <2>1, <2>2
<1> QED BY <1>3, Counts DEF mkdir, CallbackStep

\* The session comes up or not; the root it knows is row 1.
LEMMA FuseMounts == ASSUME VfsInv, mount_fuse PROVE CallbackStep
<1> USE DEF storeVars, fsVars, RowStep, DiskStep, QueueStep, HandleStep, CallStep, ReplyStep
<1>1. KnownStep
  <2>1. 1 \in Inode /\ row[1] # None BY VfsConstants DEF Inode, VfsInv, StoreOK
  <2> QED BY <2>1 DEF mount_fuse, KnownStep, KernelRoot
<1>2. ops' \in Nat /\ faults' \in Nat BY DEF mount_fuse, engineVars, VfsInv, VfsTypeOK
<1> QED BY <1>1, <1>2 DEF mount_fuse, CallbackStep, engineVars

\* The steps every platform's callbacks go on with.
LEMMA Continues ==
    ASSUME VfsInv, NEW t \in Thread, NEW c \in Code, NEW d \in Code, CallbackNext(t, c, d)
    PROVE  CallbackStep
BY ReadsGoOn, CreatesFile, WritesRow, UnlinksFile, RenamesFile DEF CallbackNext

\* What one FUSE session does, on Linux and on macOS.
LEMMA FuseSteps ==
    ASSUME VfsInv, platform # "windows", NEW c \in Code,
           \/ mount_fuse \/ FuseContinues
           \/ \E i \in Inode : getattr(i) \/ readdir(i) \/ open(i, c)
           \/ \E fh \in Fh : release(fh) \/ read(fh) \/ write(fh) \/ FlushHandle(fh)
           \/ \E p \in Inode, n \in Name :
                \/ lookup(p, n) \/ create(p, n) \/ unlink(p, n) \/ mkdir(p, n) \/ rmdir(p, n)
                \/ \E newp \in Inode, newn \in Name : rename(p, n, newp, newn)
    PROVE  CallbackStep
<1>1. CASE mount_fuse BY <1>1, FuseMounts
<1>2. CASE FuseContinues
  <2>1. Fuser \in Thread /\ "EIO" \in Code BY DEF Fuser, Thread, Code
  <2> QED BY <1>2, <2>1, Continues DEF FuseContinues
<1>3. ASSUME NEW i \in Inode, getattr(i) \/ readdir(i) PROVE CallbackStep
  <2>1. FileName \in Name BY FirstNames
  <2> QED BY <1>3, <2>1, FuseQueries
<1>4. ASSUME NEW i \in Inode, open(i, c) PROVE CallbackStep
  <2>1. next_fh \in Fh BY <1>4 DEF open
  <2> QED BY <1>4, <2>1, FuseHandles
<1>5. ASSUME NEW fh \in Fh, release(fh) PROVE CallbackStep
  <2>1. 1 \in Inode BY VfsConstants DEF Inode
  <2> QED BY <1>5, <2>1, FuseHandles
<1>6. ASSUME NEW fh \in Fh, read(fh) \/ write(fh) \/ FlushHandle(fh) PROVE CallbackStep
  BY <1>6, FuseReads, FuseWrites
<1>7. ASSUME NEW p \in Inode, NEW n \in Name,
             lookup(p, n) \/ create(p, n) \/ unlink(p, n) \/ mkdir(p, n) \/ rmdir(p, n)
      PROVE  CallbackStep
  BY <1>7, FuseQueries, FuseCreates, FuseUnlinks, FuseMakes
<1>8. ASSUME NEW p \in Inode, NEW n \in Name, NEW newp \in Inode, NEW newn \in Name,
             rename(p, n, newp, newn)
      PROVE  CallbackStep
  BY <1>8, FuseRenames
<1> QED BY <1>1, <1>2, <1>3, <1>4, <1>5, <1>6, <1>7, <1>8

\* Linux and macOS differ in one error number.
LEMMA LinuxSteps == ASSUME VfsInv, LinuxNext PROVE CallbackStep
<1>1. platform # "windows" /\ "EOPNOTSUPP" \in Code BY DEF LinuxNext, Code
<1> QED BY <1>1, FuseSteps DEF LinuxNext, flush, fsync

\* The callbacks of macOS that are its own.
LEMMA MacSteps == ASSUME VfsInv, MacNext PROVE CallbackStep
<1>1. platform # "windows" /\ "ENOTSUP" \in Code BY DEF MacNext, Code
<1>2. CASE MacMount \/ FuseContinues
  BY <1>1, <1>2, FuseSteps DEF MacMount, mount_fuse_t
<1>3. ASSUME NEW i \in Inode, mac_getattr(i) \/ mac_readdir(i) \/ mac_open(i)
      PROVE  CallbackStep
  BY <1>1, <1>3, FuseSteps DEF mac_getattr, mac_readdir, mac_open
<1>4. ASSUME NEW fh \in Fh,
             mac_release(fh) \/ mac_read(fh) \/ mac_write(fh) \/ mac_flush(fh) \/ mac_fsync(fh)
      PROVE  CallbackStep
  BY <1>1, <1>4, FuseSteps
     DEF mac_release, mac_read, mac_write, mac_flush, mac_fsync, flush, fsync
<1>5. ASSUME NEW p \in Inode, NEW n \in Name,
             \/ mac_lookup(p, n) \/ mac_create(p, n) \/ mac_unlink(p, n)
             \/ mac_mkdir(p, n) \/ mac_rmdir(p, n)
             \/ \E newp \in Inode, newn \in Name : mac_rename(p, n, newp, newn)
      PROVE  CallbackStep
  BY <1>1, <1>5, FuseSteps
     DEF mac_lookup, mac_create, mac_unlink, mac_mkdir, mac_rmdir, mac_rename
<1> QED BY <1>2, <1>3, <1>4, <1>5 DEF MacNext

-----------------------------------------------------------------------------
\* The actions of WinFSP.

\* A walk ends at the root or at a row that is there, whose parent is one too.
LEMMA WalkEnds ==
    ASSUME VfsInv, NEW path \in Seq(Name), NEW i \in Walk(path)
    PROVE  /\ i \in 0..MaxInode /\ (i = ROOT_INODE \/ There(i))
           /\ path # <<>> => There(i)
<1>1. CASE path = <<>> BY <1>1, VfsConstants DEF Walk, ROOT_INODE
<1>2. CASE path # <<>>
  <2>1. Len(path) \in 1..Len(path) BY <1>2
  <2>2. PICK w \in [1..Len(path) -> Inode] :
          /\ w[Len(path)] = i
          /\ \A k \in 1..Len(path) :
               w[k] \in lookup_by_parent_and_name(IF k = 1 THEN ROOT_INODE ELSE w[k - 1],
                                                  path[k])
    BY <1>2 DEF Walk
  <2>3. i \in Inode /\ Live(i) BY <2>1, <2>2 DEF lookup_by_parent_and_name
  <2> QED BY <2>3, LiveIsThere, VfsConstants DEF Inode
<1> QED BY <1>1, <1>2

\* The parts of a path.
LEMMA PathParts ==
    ASSUME NEW path \in Seq(Name), path # <<>>
    PROVE  Parent(path) \in Seq(Name) /\ Last(path) \in Name
<1>1. Len(path) \in Nat /\ Len(path) >= 1 OBVIOUS
<1>2. Parent(path) \in Seq(Name) BY <1>1 DEF Parent
<1>3. Last(path) \in Name BY <1>1 DEF Last
<1> QED BY <1>2, <1>3

\* Queries.
LEMMA WinQueries ==
    ASSUME VfsInv, NEW t \in Thread,
           \/ \E path \in WinPath : get_security_by_name(t, path)
           \/ \E fh \in Fh : get_file_info(t, fh) \/ read_directory(t, fh)
    PROVE  CallbackStep
<1> USE DEF storeVars, fsVars, RowStep, DiskStep, QueueStep, HandleStep, CallStep, KnownStep
<1>1. \E c \in Code : Answer(c)
  <2>1. {"ok", "NOT_FOUND", "NOT_A_DIRECTORY"} \subseteq Code BY DEF Code
  <2>2. CASE \E path \in WinPath : get_security_by_name(t, path)
    BY <2>1, <2>2 DEF get_security_by_name
  <2>3. CASE \E fh \in Fh : get_file_info(t, fh) \/ read_directory(t, fh)
    BY <2>1, <2>3 DEF get_file_info, read_directory
  <2> QED BY <2>2, <2>3
<1>2. ReplyStep BY <1>1, Answers DEF Answer
<1>3. UNCHANGED <<storeVars, fsVars, call, ops>> /\ Others
  BY DEF get_security_by_name, get_file_info, read_directory
<1> QED BY <1>2, <1>3, Counts DEF CallbackStep

\* Opening, closing.
LEMMA WinHandles ==
    ASSUME VfsInv, platform = "windows", NEW t \in Thread,
           \/ \E path \in WinPath : win_open(t, path)
           \/ \E fh \in Fh : win_close(t, fh)
    PROVE  CallbackStep
<1> USE DEF storeVars, fsVars, RowStep, DiskStep, QueueStep, CallStep, KnownStep
<1>1. {"ok", "NOT_FOUND", "NOT_SUPPORTED"} \subseteq Code BY DEF Code
<1>2. ASSUME NEW path \in WinPath, win_open(t, path) PROVE CallbackStep
  <2>1. path \in Seq(Name) /\ next_fh \in Fh BY <1>2, WinPaths DEF win_open
  <2>2. \/ UNCHANGED <<open_files, next_fh>>
        \/ AddHandle(ROOT_INODE, None)
        \/ path # <<>> /\ \E i \in Walk(path) : AddHandle(i, LocalPath(i))
    BY <1>2 DEF win_open
  <2>3. ASSUME AddHandle(ROOT_INODE, None) PROVE HandleStep
    <3> DEFINE h == [ino |-> ROOT_INODE, path |-> None, doomed |-> FALSE]
    <3>1. h \in Handle BY VfsConstants DEF Handle, ROOT_INODE
    <3>2. HandleOK(h) BY DEF HandleOK
    <3> QED BY <2>1, <2>3, <3>1, <3>2, Adds DEF LegalHandle
  <2>4. ASSUME path # <<>>, NEW i \in Walk(path), AddHandle(i, LocalPath(i)) PROVE HandleStep
    <3>1. There(i) BY <2>1, <2>4, WalkEnds
    <3>2. LocalPath(i) = i BY <3>1, RowThere
    <3>3. [ino |-> i, path |-> i, doomed |-> FALSE] \in LegalHandle BY <3>1, NewHandle
    <3> QED BY <2>1, <2>4, <3>2, <3>3, Adds
  <2>5. HandleStep BY <2>2, <2>3, <2>4 DEF HandleStep
  <2>6. \E c \in Code : Answer(c) BY <1>1, <1>2 DEF win_open
  <2>7. ReplyStep BY <2>6, Answers DEF Answer
  <2> QED BY <1>2, <2>5, <2>7, Counts DEF win_open, CallbackStep
<1>3. ASSUME NEW fh \in Fh, win_close(t, fh) PROVE CallbackStep
  <2>1. ReplyStep BY <1>1, <1>3, Answers DEF win_close, Answer
  <2>2. HandleStep BY <1>3, Closes DEF win_close
  <2> QED BY <1>3, <2>1, <2>2, Counts DEF win_close, CallbackStep
<1> QED BY <1>2, <1>3

\* Reading, writing, flushing through a handle.
LEMMA WinFiles ==
    ASSUME VfsInv, NEW t \in Thread, NEW fh \in Fh,
           win_read(t, fh) \/ win_write(t, fh) \/ set_file_size(t, fh) \/ win_flush(t, fh)
    PROVE  CallbackStep
<1> USE DEF storeVars, fsVars, RowStep, HandleStep, KnownStep
<1> DEFINE h == open_files[fh]
<1>1. {"ok", "NOT_FOUND", "INTERNAL_ERROR"} \subseteq Code BY DEF Code
<1>2. ASSUME FileHandle(fh)
      PROVE  h \in Handle /\ There(h.ino) /\ h.path \in {None, h.ino}
  BY <1>2, FileInUse DEF FileHandle
<1>3. CASE win_read(t, fh)
  <2>1. h.ino \in Inode BY <1>2, <1>3 DEF win_read, There
  <2>2. CallStep /\ ReplyStep /\ QueueStep
    <3>1. CASE Live(h.ino) BY <1>3, <2>1, <3>1, Reads DEF win_read
    <3>2. CASE ~Live(h.ino)
      BY <1>1, <1>3, <3>2, Answers DEF win_read, Answer, CallStep, QueueStep
    <3> QED BY <3>1, <3>2
  <2> QED BY <1>3, <2>2, Counts DEF win_read, CallbackStep, DiskStep
<1>4. CASE win_write(t, fh)
  <2>1. DiskStep /\ CallStep /\ ReplyStep BY <1>2, <1>4, WritesFile DEF win_write
  <2> QED BY <1>4, <2>1, Counts DEF win_write, CallbackStep, QueueStep
<1>5. CASE set_file_size(t, fh)
  <2>1. DiskStep /\ CallStep /\ ReplyStep
    <3>1. CASE disk[h.path] # None BY <1>2, <1>5, <3>1, WritesFile DEF set_file_size
    <3>2. CASE disk[h.path] = None
      BY <1>1, <1>5, <3>2, Answers DEF set_file_size, Answer, DiskStep, CallStep
    <3> QED BY <3>1, <3>2
  <2> QED BY <1>5, <2>1, Counts DEF set_file_size, CallbackStep, QueueStep
<1>6. CASE win_flush(t, fh)
  <2>1. QueueStep
    <3>1. CASE h.ino # ROOT_INODE /\ Live(h.ino)
      <4>1. h \in Handle /\ There(h.ino) /\ h.path \in {None, h.ino}
        BY <1>6, <3>1, FileInUse DEF win_flush
      <4> QED BY <1>6, <3>1, <4>1, Uploads DEF win_flush
    <3>2. CASE ~(h.ino # ROOT_INODE /\ Live(h.ino))
      BY <1>6, <3>2 DEF win_flush, QueueStep
    <3> QED BY <3>1, <3>2
  <2>2. ReplyStep BY <1>1, <1>6, Answers DEF win_flush, Answer
  <2> QED BY <1>6, <2>1, <2>2, Counts DEF win_flush, CallbackStep, DiskStep, CallStep
<1> QED BY <1>3, <1>4, <1>5, <1>6

\* Dooming a handle leaves the rest of it.
LEMMA Doomed ==
    ASSUME NEW h \in Handle, NEW d \in BOOLEAN
    PROVE  /\ [h EXCEPT !.doomed = d] = [ino |-> h.ino, path |-> h.path, doomed |-> d]
           /\ [ino |-> h.ino, path |-> h.path, doomed |-> d] \in Handle
BY DEF Handle

\* The check before a deletion: only a row's handle can be doomed.
LEMMA WinDooms ==
    ASSUME VfsInv, NEW t \in Thread, NEW fh \in Fh, can_delete(t, fh) PROVE CallbackStep
<1> USE DEF storeVars, fsVars, RowStep, DiskStep, QueueStep, CallStep, KnownStep
<1> DEFINE h == open_files[fh]
           c == DeleteCode(h.ino)
           d == (c = "ok")
           g == [ino |-> h.ino, path |-> h.path, doomed |-> d]
<1>1. h \in Handle /\ HandleOK(h) BY HandleInUse DEF can_delete
<1>2. c \in Code BY DEF DeleteCode, Code
<1>3. ReplyStep BY <1>2, Answers DEF can_delete, Answer
<1>4. HandleStep
  <2>1. d \in BOOLEAN /\ (h.ino = ROOT_INODE => d = FALSE) BY DEF DeleteCode
  <2>2. open_files' = [open_files EXCEPT ![fh].doomed = d] BY DEF can_delete
  <2> HIDE DEF d
  <2>3. g \in Handle BY <1>1, <2>1, Doomed
  <2>4. HandleOK(g) BY <1>1, <2>1 DEF HandleOK
  <2>5. open_files' = [open_files EXCEPT ![fh] = g]
    <3>1. g = [h EXCEPT !.doomed = d] BY <1>1, <2>1, Doomed
    <3> QED BY <2>2, <3>1
  <2> HIDE DEF g
  <2>6. open_files' \in [Fh -> Handle \cup {None}] BY <2>3, <2>5 DEF VfsInv, VfsTypeOK
  <2>7. \A k \in Fh : open_files'[k] \in {open_files[k], g}
    BY <2>5 DEF VfsInv, VfsTypeOK
  <2>8. next_fh' \in 1..(MaxHandles + 1) BY DEF can_delete, VfsInv, VfsTypeOK
  <2> QED BY <2>3, <2>4, <2>6, <2>7, <2>8 DEF HandleStep, LegalHandle
<1> QED BY <1>3, <1>4, Counts DEF can_delete, CallbackStep

\* The deletion.
LEMMA WinCleansUp ==
    ASSUME VfsInv, NEW t \in Thread, NEW fh \in Fh, cleanup(t, fh) PROVE CallbackStep
<1> USE DEF storeVars, fsVars, RowStep, DiskStep, KnownStep
<1> DEFINE h == open_files[fh]
           g == [ino |-> h.ino, path |-> h.path, doomed |-> FALSE]
<1>1. h \in Handle /\ HandleOK(h) /\ h.doomed = TRUE
  <2>1. h \in Handle /\ HandleOK(h) BY HandleInUse DEF cleanup
  <2>2. h.doomed \in BOOLEAN BY <2>1 DEF Handle
  <2> QED BY <2>1, <2>2 DEF cleanup
<1>2. There(h.ino) /\ h.path \in {None, h.ino} BY <1>1 DEF HandleOK
<1>3. QueueStep /\ CallStep /\ ReplyStep
  <2>1. CASE Live(h.ino) BY <1>2, <2>1, RowThere, Unlinks DEF cleanup
  <2>2. CASE ~Live(h.ino)
    <3> DEFINE held == [op |-> "unlink", ino |-> h.ino, path |-> None]
    <3>1. Hold(t, held) /\ UNCHANGED queue BY <2>2 DEF cleanup
    <3>2. held \in LegalCall BY <1>2, NewCalls
    <3>3. held \in Call BY <3>2 DEF LegalCall
    <3> QED BY <3>1, <3>2, <3>3, Holds DEF QueueStep
  <2> QED BY <2>1, <2>2
<1>4. HandleStep
  <2>1. open_files' = [open_files EXCEPT ![fh] = g]
    <3>1. open_files' = [open_files EXCEPT ![fh] = [h EXCEPT !.doomed = FALSE]]
      BY DEF cleanup
    <3>2. g = [h EXCEPT !.doomed = FALSE] BY <1>1, Doomed
    <3> QED BY <3>1, <3>2
  <2>2. g \in Handle BY <1>1, Doomed
  <2>3. HandleOK(g) BY <1>2 DEF HandleOK
  <2> HIDE DEF g
  <2>4. open_files' \in [Fh -> Handle \cup {None}] BY <2>1, <2>2 DEF VfsInv, VfsTypeOK
  <2>5. \A k \in Fh : open_files'[k] \in {open_files[k], g}
    BY <2>1 DEF VfsInv, VfsTypeOK
  <2>6. next_fh' \in 1..(MaxHandles + 1) BY DEF cleanup, VfsInv, VfsTypeOK
  <2> QED BY <2>2, <2>3, <2>4, <2>5, <2>6 DEF HandleStep, LegalHandle
<1> QED BY <1>3, <1>4, Counts DEF cleanup, CallbackStep

\* create: the walk, then the insertion.
LEMMA WinCreates ==
    ASSUME VfsInv, NEW t \in Thread, NEW path \in WinPath, NEW dir \in BOOLEAN,
           win_create(t, path, dir)
    PROVE  CallbackStep
<1> USE DEF storeVars, fsVars, RowStep, DiskStep, QueueStep, KnownStep, HandleStep
<1> DEFINE refused == \E c \in Code : Answer(c) /\ UNCHANGED call
           held(p) == [op |-> "insert", parent |-> p, name |-> Last(path), dir |-> dir]
<1>1. Parent(path) \in Seq(Name) /\ Last(path) \in Name
  BY PathParts, WinPaths DEF win_create
<1>2. \/ refused \/ \E p \in Walk(Parent(path)) : Hold(t, held(p))
  <2>1. "NOT_FOUND" \in Code BY DEF Code
  <2>2. \A p : CreateCode(p, Last(path)) \in Code BY DEF CreateCode, Code
  <2> QED BY <2>1, <2>2 DEF win_create
<1>3. CallStep /\ ReplyStep
  <2>1. CASE refused BY <2>1, Answers DEF Answer, CallStep
  <2>2. ASSUME NEW p \in Walk(Parent(path)), Hold(t, held(p))
        PROVE  CallStep /\ ReplyStep
    <3>1. p \in 0..MaxInode BY <1>1, WalkEnds
    <3>2. held(p) \in Call BY <1>1, <3>1 DEF Call
    <3>3. CallOK(held(p)) BY DEF CallOK
    <3> QED BY <2>2, <3>2, <3>3, Holds DEF LegalCall
  <2> QED BY <1>2, <2>1, <2>2
<1> QED BY <1>3, Counts DEF win_create, CallbackStep

\* The insertion: a folder's row and its handle, or a file's row.
LEMMA WinInserts ==
    ASSUME VfsInv, NEW t \in Thread, CreateInserts(t) PROVE CallbackStep
<1> USE DEF storeVars, fsVars, DiskStep, QueueStep, KnownStep
<1> DEFINE c == call[t]
<1>1. c.parent \in 0..MaxInode /\ c.name \in Name
  <2>1. c # None /\ c.op = "insert" BY DEF CreateInserts
  <2> QED BY <2>1, CallInUse DEF Call
<1>2. {"ok", "NOT_FOUND"} \subseteq Code BY DEF Code
<1>3. PICK new \in Inode : new = NewInode /\ row[new] = None
  BY NewIsFree DEF CreateInserts
<1>4. RowStep /\ HandleStep /\ CallStep /\ ReplyStep
  <2>1. CASE Finish(t, "NOT_FOUND") /\ UNCHANGED <<row, open_files, next_fh>>
    BY <1>2, <2>1, Finishes DEF RowStep, HandleStep
  <2>2. CASE /\ insert_local_folder(c.parent, c.name) /\ AddHandle(NewInode, None)
             /\ Finish(t, "ok")
    <3>1. RowStep /\ There(new)' BY <1>1, <1>3, <2>2, LocalRows
    <3>2. [ino |-> new, path |-> None, doomed |-> FALSE] \in LegalHandle'
      <4> DEFINE h == [ino |-> new, path |-> None, doomed |-> FALSE]
      <4>1. h \in Handle BY VfsConstants DEF Handle, Inode
      <4>2. HandleOK(h)' BY <3>1 DEF HandleOK
      <4> QED BY <4>1, <4>2 DEF LegalHandle
    <3>3. AddHandle(new, None) /\ next_fh \in Fh BY <1>3, <2>2 DEF CreateInserts
    <3>4. HandleStep BY <3>2, <3>3, Adds
    <3> QED BY <1>2, <2>2, <3>1, <3>4, Finishes
  <2>3. CASE /\ insert_local_file(c.parent, c.name)
             /\ Hold(t, [op |-> "create", ino |-> NewInode])
             /\ UNCHANGED <<open_files, next_fh>>
    <3>1. RowStep /\ There(new)' BY <1>1, <1>3, <2>3, LocalRows
    <3>2. Hold(t, [op |-> "create", ino |-> new]) BY <1>3, <2>3
    <3> QED BY <2>3, <3>1, <3>2, Holds, NewCreate DEF HandleStep
  <2> QED BY <2>1, <2>2, <2>3 DEF CreateInserts
<1> QED BY <1>4, Counts DEF CreateInserts, CallbackStep

\* rename: a target in the way is trashed.
LEMMA WinRenames ==
    ASSUME VfsInv, NEW t \in Thread, NEW old \in WinPath, NEW new \in WinPath,
           NEW b \in BOOLEAN, win_rename(t, old, new, b)
    PROVE  CallbackStep
<1> USE DEF storeVars, fsVars, DiskStep, QueueStep, KnownStep, HandleStep
<1> DEFINE refused == \E c \in Code : Answer(c) /\ UNCHANGED <<row, call>>
           held(i, p) == [op |-> "replace", ino |-> i, parent |-> p, name |-> Last(new)]
           target(p) == lookup_by_parent_and_name(p, Last(new))
<1>1. /\ Parent(new) \in Seq(Name) /\ Last(new) \in Name
      /\ old \in Seq(Name) /\ old # <<>>
  BY PathParts, WinPaths DEF win_rename
<1>2. \/ refused
      \/ \E i \in Walk(old), p \in Walk(Parent(new)) :
           /\ Hold(t, held(i, p))
           /\ UNCHANGED row \/ \E j \in target(p) : soft_delete_by_inode(j)
  <2>1. {"NOT_FOUND", "COLLISION"} \subseteq Code BY DEF Code
  <2> QED BY <2>1 DEF win_rename
<1>3. RowStep /\ CallStep /\ ReplyStep
  <2>1. CASE refused BY <2>1, Answers DEF Answer, CallStep, RowStep
  <2>2. ASSUME NEW i \in Walk(old), NEW p \in Walk(Parent(new)), Hold(t, held(i, p)),
               UNCHANGED row \/ \E j \in target(p) : soft_delete_by_inode(j)
        PROVE  RowStep /\ CallStep /\ ReplyStep
    <3>1. p \in 0..MaxInode /\ There(i) BY <1>1, WalkEnds
    <3>2. held(i, p) \in Call BY <1>1, <3>1 DEF Call, There
    <3>3. CallOK(held(i, p)) BY <3>1 DEF CallOK
    <3>4. CallStep /\ ReplyStep BY <2>2, <3>2, <3>3, Holds DEF LegalCall
    <3>5. ASSUME NEW j \in target(p) PROVE There(j)
      BY DEF lookup_by_parent_and_name, Live, There
    <3>6. RowStep BY <2>2, <3>5, Trashes DEF RowStep
    <3> QED BY <3>4, <3>6
  <2> QED BY <1>2, <2>1, <2>2
<1> QED BY <1>3, Counts DEF win_rename, CallbackStep

\* The row takes its new place, if that is still there.
LEMMA WinRecords ==
    ASSUME VfsInv, NEW t \in Thread, RenameRecorded(t) PROVE CallbackStep
<1> USE DEF storeVars, fsVars, DiskStep, QueueStep, KnownStep, HandleStep
<1> DEFINE c == call[t]
           held == [op |-> "renamed", ino |-> c.ino, name |-> c.name]
<1>1. There(c.ino) /\ c.parent \in 0..MaxInode /\ c.name \in Name
  <2>1. c # None /\ c.op = "replace" BY DEF RenameRecorded
  <2> QED BY <2>1, CallInUse DEF CallOK, Call
<1>2. RowStep /\ CallStep /\ ReplyStep
  <2>1. CASE ParentKnown(c.parent)
    <3>1. RowStep BY <1>1, <2>1, Renames DEF RenameRecorded
    <3>2. held \in LegalCall BY <1>1, NewCalls
    <3>3. held \in Call BY <3>2 DEF LegalCall
    <3>4. Hold(t, held) BY <2>1 DEF RenameRecorded
    <3> QED BY <3>1, <3>2, <3>3, <3>4, Holds
  <2>2. CASE ~ParentKnown(c.parent)
    <3>1. Finish(t, "NOT_FOUND") /\ UNCHANGED row BY <2>2 DEF RenameRecorded
    <3>2. "NOT_FOUND" \in Code BY DEF Code
    <3> QED BY <3>1, <3>2, Finishes DEF RowStep
  <2> QED BY <2>1, <2>2
<1> QED BY <1>2, Counts DEF RenameRecorded, CallbackStep

\* Windows.
LEMMA WindowsSteps == ASSUME VfsInv, WindowsNext PROVE CallbackStep
<1>1. platform = "windows" BY DEF WindowsNext
<1>2. CASE mount_winfsp
  <2>1. ops' \in Nat /\ faults' \in Nat
    BY <1>2 DEF mount_winfsp, engineVars, VfsInv, VfsTypeOK
  <2> QED BY <1>2, <2>1
       DEF mount_winfsp, CallbackStep, engineVars, storeVars, fsVars, RowStep, DiskStep,
           QueueStep, KnownStep, HandleStep, CallStep, ReplyStep
<1>3. ASSUME NEW t \in Thread, NEW path \in WinPath,
             \/ get_security_by_name(t, path) \/ win_open(t, path)
             \/ \E dir \in BOOLEAN : win_create(t, path, dir)
             \/ \E new \in WinPath, replace \in BOOLEAN : win_rename(t, path, new, replace)
      PROVE  CallbackStep
  BY <1>1, <1>3, WinQueries, WinHandles, WinCreates, WinRenames
<1>4. ASSUME NEW t \in Thread, NEW fh \in Fh,
             \/ get_file_info(t, fh) \/ read_directory(t, fh) \/ win_close(t, fh)
             \/ win_read(t, fh) \/ win_write(t, fh) \/ set_file_size(t, fh)
             \/ win_flush(t, fh) \/ can_delete(t, fh) \/ cleanup(t, fh)
      PROVE  CallbackStep
  BY <1>1, <1>4, WinQueries, WinHandles, WinFiles, WinDooms, WinCleansUp
<1>5. ASSUME NEW t \in Thread, CreateInserts(t) \/ RenameRecorded(t) PROVE CallbackStep
  BY <1>5, WinInserts, WinRecords
<1>6. ASSUME NEW t \in Thread, WinContinues(t) PROVE CallbackStep
  BY <1>6, Continues DEF WinContinues, Code
<1> QED BY <1>2, <1>3, <1>4, <1>5, <1>6 DEF WindowsNext

-----------------------------------------------------------------------------
\* Pinning, and the end of the mount.

\* Pins change no version and no path.
LEMMA PinSteps == ASSUME VfsInv, PinNext PROVE CallbackStep
<1> USE DEF fsVars, mountVars, DiskStep, QueueStep, KnownStep, HandleStep, CallStep, ReplyStep
<1>1. CASE clear_cache
  <2> DEFINE cleared(i) == IF Live(i) /\ row[i].state = "offline"
                           THEN [row[i] EXCEPT !.state = "cached"] ELSE row[i]
  <2>1. \A i \in Inode : row'[i] = cleared(i) BY <1>1 DEF clear_cache
  <2>2. ASSUME NEW i \in Inode PROVE RowMay(i) /\ row'[i] \in Row \cup {None}
    <3>1. row[i] \in Row \cup {None} BY DEF VfsInv, VfsTypeOK
    <3>2. CASE Live(i) /\ row[i].state = "offline"
      <4>1. There(i) BY <3>2, LiveIsThere
      <4>2. row[i] \in Row /\ row[i].path = i BY <3>2, <4>1, RowThere
      <4>3. row'[i] = [row[i] EXCEPT !.state = "cached"] BY <2>1, <3>2
      <4>4. row'[i] \in Row /\ row'[i].ver = row[i].ver /\ row'[i].path = row[i].path
        BY <4>2, <4>3 DEF Row
      <4>5. row[i].path # None BY <4>2, VfsConstants DEF Inode
      <4> QED BY <3>2, <4>4, <4>5 DEF RowMay, Live
    <3>3. CASE ~(Live(i) /\ row[i].state = "offline")
      BY <2>1, <3>1, <3>3 DEF RowMay
    <3> QED BY <3>2, <3>3
  <2>3. row' \in [Inode -> Row \cup {None}] BY <1>1, <2>1, <2>2 DEF clear_cache
  <2>4. RowStep BY <2>2, <2>3 DEF RowStep
  <2> QED BY <1>1, <2>4
       DEF clear_cache, CallbackStep, Counted, engineVars, VfsInv, VfsTypeOK
<1>2. ASSUME NEW i \in Inode, NEW b \in BOOLEAN, set_offline(i, b) PROVE CallbackStep
  <2> DEFINE s == IF b THEN "offline" ELSE "cached"
             r == [row[i] EXCEPT !.state = s]
  <2>1. There(i) /\ row[i].path # None BY <1>2, LiveIsThere DEF set_offline
  <2>2. row[i] \in Row BY <2>1, RowThere
  <2>3. s \in {"offline", "cached"} OBVIOUS
  <2>4. row' = [row EXCEPT ![i] = r] BY <1>2 DEF set_offline
  <2> HIDE DEF s
  <2>5. r \in Row /\ r.ver = row[i].ver /\ r.path = row[i].path BY <2>2, <2>3 DEF Row
  <2> HIDE DEF r
  <2>6. row' \in [Inode -> Row \cup {None}] BY <2>4, <2>5 DEF VfsInv, VfsTypeOK
  <2>7. ASSUME NEW j \in Inode PROVE RowMay(j)
    <3>1. CASE j = i
      <4>1. row'[i] = r /\ row[i] # None BY <2>1, <2>4 DEF VfsInv, VfsTypeOK, There
      <4> QED BY <2>1, <2>5, <3>1, <4>1 DEF RowMay
    <3>2. CASE j # i BY <2>4, <3>2 DEF RowMay, VfsInv, VfsTypeOK
    <3> QED BY <3>1, <3>2
  <2>8. RowStep BY <2>6, <2>7 DEF RowStep
  <2> QED BY <1>2, <2>8
       DEF set_offline, CallbackStep, Counted, engineVars, VfsInv, VfsTypeOK
<1> QED BY <1>1, <1>2 DEF PinNext

\* The handles and the kernel's knowledge end with the session.
LEMMA UnmountSteps == ASSUME VfsInv, Unmount PROVE CallbackStep
<1>1. HandleStep
  <2>1. open_files' \in [Fh -> Handle \cup {None}] BY DEF Unmount
  <2>2. \A fh \in Fh : open_files'[fh] = None BY DEF Unmount
  <2> QED BY <2>1, <2>2 DEF HandleStep, Unmount, VfsInv, VfsTypeOK
<1>2. ReplyStep BY Answers DEF Unmount, Code
<1>3. KnownStep BY DEF Unmount, KnownStep
<1> QED BY <1>1, <1>2, <1>3
     DEF Unmount, CallbackStep, storeVars, engineVars, RowStep, DiskStep, QueueStep,
         CallStep, VfsInv, VfsTypeOK

-----------------------------------------------------------------------------
\* The steps of the engine and of Drive.

\* What the engine leaves to the callbacks stays legal while rows only advance.
LEMMA EngineKeeps ==
    ASSUME VfsInv, Advances, UNCHANGED <<mountVars, fsVars, call, reply>>,
           RowsOK', StoreOK', EngineOK', queue' \in Seq(LegalTask),
           engine' \in Work \cup {None}, drive' \in [Inode -> DriveFile \cup {None}],
           unseen' \subseteq Inode, ops' \in Nat, faults' \in Nat
    PROVE  VfsInv'
<1> USE DEF mountVars, fsVars
<1>1. LegalTask \subseteq LegalTask' /\ LegalHandle \subseteq LegalHandle'
      /\ LegalCall \subseteq LegalCall'
  BY LegalStays DEF VfsInv
<1>2. QueueOK' BY <1>1, SeqGrows DEF QueueOK
<1>3. HandlesOK' BY <1>1 DEF VfsInv, HandlesOK
<1>4. CallsOK' BY <1>1 DEF VfsInv, CallsOK
<1>5. ReadIsFresh' BY DEF VfsInv, ReadIsFresh
<1>6. queue' \in Seq(Task)
  <2>1. LegalTask \subseteq Task BY DEF LegalTask
  <2> QED BY <2>1, SeqGrows
<1>7. /\ platform' \in {"linux", "macos", "windows"}
      /\ mount' \in {"none", "mounted", "failed", "unmounted"}
      /\ known' \subseteq Inode /\ reply' \in Reply
  BY DEF VfsInv, VfsTypeOK
<1>8. /\ open_files' \in [Fh -> Handle \cup {None}] /\ next_fh' \in 1..(MaxHandles + 1)
      /\ call' \in [Thread -> Call \cup {None}]
  BY DEF VfsInv, VfsTypeOK
<1>9. VfsTypeOK' BY <1>6, <1>7, <1>8 DEF VfsTypeOK, Advances
<1> QED BY <1>2, <1>3, <1>4, <1>5, <1>9 DEF VfsInv

\* Nothing advances while rows and files are left alone.
LEMMA NothingMoves == ASSUME VfsInv, UNCHANGED <<platform, row, disk>> PROVE Advances
<1>1. \A j \in Inode : row[j] # None => row[j].ver >= row[j].ver
  BY VersionIsNat DEF VfsInv
<1>2. row' \in [Inode -> Row \cup {None}] /\ disk' \in [Path -> Content \cup {None}]
  BY DEF VfsInv, VfsTypeOK
<1> QED BY <1>1, <1>2 DEF Advances, Fresh

\* The same rows and files serve the same.
LEMMA RowsStay ==
    ASSUME VfsInv, UNCHANGED <<row, disk>>
    PROVE  /\ RowsOK'
           /\ UNCHANGED <<drive, unseen, known>> => StoreOK'
BY DEF VfsInv, RowsOK, RowOK, Fresh, StoreOK

\* The task at the head of the queue, and the queue without it.
LEMMA TaskTaken ==
    ASSUME VfsInv, queue # <<>>
    PROVE  /\ Head(queue) \in Task /\ TaskOK(Head(queue)) /\ Head(queue) \in LegalTask
           /\ Tail(queue) \in Seq(LegalTask)
<1>1. queue \in Seq(LegalTask) BY DEF VfsInv, QueueOK
<1>2. Head(queue) \in LegalTask /\ Tail(queue) \in Seq(LegalTask) BY <1>1
<1> QED BY <1>2 DEF LegalTask

\* The types of what the engine steps leave alone.
LEMMA EngineTypes ==
    ASSUME VfsInv
    PROVE  /\ engine \in Work \cup {None} /\ drive \in [Inode -> DriveFile \cup {None}]
           /\ unseen \subseteq Inode /\ ops \in Nat /\ faults \in Nat
           /\ queue \in Seq(LegalTask)
BY DEF VfsInv, VfsTypeOK, QueueOK

\* The work in progress.
LEMMA WorkInUse ==
    ASSUME VfsInv, engine # None
    PROVE  /\ engine.task \in LegalTask /\ TaskOK(engine.task) /\ engine.task \in Task
           /\ There(engine.task.ino) /\ engine.copy \in Row /\ engine.task.op = engine.op
           /\ row[engine.task.ino].ver = engine.copy.ver /\ engine.copy.ver \in Nat
           /\ engine.op = "download" =>
                /\ engine.task.path = engine.task.ino /\ engine.at \in {"fetch", "row"}
                /\ engine.at = "row" => Fresh(engine.task.ino, engine.copy.ver)
<1>1. engine \in Work /\ EngineOK BY DEF VfsInv, VfsTypeOK
<1>2. engine.task \in Task /\ engine.copy \in Row BY <1>1 DEF Work
<1>3. engine.copy.ver \in Nat BY <1>2 DEF Row
<1>4. engine.op = "download" => engine.at \in {"fetch", "row"} BY <1>1 DEF Work
<1> QED BY <1>1, <1>2, <1>3, <1>4 DEF EngineOK, TaskOK, LegalTask

\* A download takes its task and reads the row.
LEMMA StartsDownload == ASSUME VfsInv, DownloadStarts PROVE VfsInv'
<1> USE DEF EngineStep, mountVars, fsVars
<1> DEFINE task == Head(queue)
           work == [op |-> "download", at |-> "fetch", task |-> task,
                    copy |-> row[task.ino]]
<1>1. /\ task \in Task /\ TaskOK(task) /\ task.op = "download"
      /\ queue' \in Seq(LegalTask)
  BY TaskTaken DEF DownloadStarts
<1>2. row[task.ino] \in Row BY <1>1, RowThere DEF TaskOK
<1>3. engine' = work BY DEF DownloadStarts
<1> HIDE DEF task
<1>4. engine' \in Work BY <1>1, <1>2, <1>3 DEF Work
<1>5. EngineOK'
  <2>1. engine'.task = task /\ engine'.op = "download" /\ engine'.at = "fetch"
        /\ engine'.copy = row[task.ino]
    BY <1>3
  <2>2. row' = row BY DEF DownloadStarts
  <2> QED BY <1>1, <2>1, <2>2 DEF EngineOK, TaskOK, There
<1> QED BY <1>1, <1>4, <1>5, EngineKeeps, NothingMoves, RowsStay, EngineTypes
     DEF DownloadStarts

\* The content arrives over the row's own cache file.
LEMMA ArrivesDownload == ASSUME VfsInv, DownloadArrives PROVE VfsInv'
<1> USE DEF EngineStep, mountVars, fsVars
<1> DEFINE i == engine.task.ino
<1>1. /\ engine # None /\ engine.op = "download" /\ engine.at = "fetch" /\ drive[i] # None
      /\ engine' = [engine EXCEPT !.at = "row"] /\ row' = row /\ drive' = drive
  BY DEF DownloadArrives
<1>2. /\ There(i) /\ i \in Inode /\ row[i] # None /\ engine.task.path = i
      /\ TaskOK(engine.task) /\ engine.task.op = engine.op
      /\ row[i].ver = engine.copy.ver /\ engine.copy.ver \in Nat
      /\ engine.task \in Task /\ engine.copy \in Row
  BY <1>1, WorkInUse DEF There
<1>3. drive[i].ver \in Nat /\ row[i].ver <= drive[i].ver
  BY <1>1, <1>2 DEF VfsInv, VfsTypeOK, DriveFile, StoreOK
<1>4. disk' = [disk EXCEPT ![i] = OfDrive(i)] BY <1>2 DEF DownloadArrives
<1>5. OfDrive(i) \in Content BY <1>2, <1>3 DEF OfDrive, Content
<1>6. disk' \in [Path -> Content \cup {None}] BY <1>4, <1>5 DEF VfsInv, VfsTypeOK
<1>7. /\ disk'[i] = OfDrive(i) /\ \A j \in Inode : j # i => disk'[j] = disk[j]
  BY <1>2, <1>4 DEF VfsInv, VfsTypeOK, Path
<1>8. disk'[i].ver = drive[i].ver /\ disk'[i].of = i BY <1>7 DEF OfDrive
<1>9. ASSUME NEW j \in Inode, NEW v \in Nat, row[j] # None, v <= row[j].ver, Fresh(j, v)
      PROVE  Fresh(j, v)'
  <2>1. CASE j # i BY <1>7, <1>9, <2>1 DEF Fresh
  <2>2. CASE j = i
    <3> HIDE DEF i
    <3>1. row[i].ver \in Nat BY <1>2
    <3>2. v <= drive[i].ver BY <1>3, <1>9, <2>2, <3>1
    <3> QED BY <1>8, <2>2, <3>2, <1>3 DEF Fresh
  <2> QED BY <2>1, <2>2
<1>10. Advances
  <2>1. \A j \in Inode : row[j] # None => row[j].ver >= row[j].ver
    BY VersionIsNat DEF VfsInv
  <2>2. row' \in [Inode -> Row \cup {None}] BY <1>1 DEF VfsInv, VfsTypeOK
  <2>3. platform' = platform BY DEF DownloadArrives
  <2> QED BY <1>1, <1>6, <1>9, <2>1, <2>2, <2>3 DEF Advances
<1>11. RowsOK'
  <2> SUFFICES ASSUME NEW j \in Inode PROVE RowOK(j)' BY DEF RowsOK
  <2>1. RowOK(j) BY DEF VfsInv, RowsOK
  <2>2. row[j] # None => row[j].ver \in Nat /\ row[j].ver <= row[j].ver
    BY VersionIsNat DEF VfsInv
  <2> QED BY <1>1, <1>9, <2>1, <2>2 DEF RowOK
<1>12. StoreOK'
  <2>1. \A j \in Inode : disk'[j] # None => disk'[j].of = j
    BY <1>7, <1>8 DEF VfsInv, StoreOK
  <2> QED BY <1>1, <2>1 DEF VfsInv, StoreOK, DownloadArrives
<1>13. engine' = [op |-> "download", at |-> "row", task |-> engine.task,
                  copy |-> engine.copy]
  <2>1. engine \in Work BY <1>1, EngineTypes
  <2> QED BY <1>1, <2>1 DEF Work
<1>14. engine' \in Work BY <1>2, <1>13 DEF Work
<1>15. EngineOK'
  <2>1. engine'.task = engine.task /\ engine'.op = "download" /\ engine'.at = "row"
        /\ engine'.copy = engine.copy
    BY <1>13
  <2>2. disk'[i].ver >= engine.copy.ver BY <1>2, <1>3, <1>8
  <2> QED BY <1>1, <1>2, <2>1, <2>2 DEF EngineOK, TaskOK, There, Fresh
<1> QED BY <1>10, <1>11, <1>12, <1>14, <1>15, EngineKeeps, EngineTypes DEF DownloadArrives

\* The engine writes a row back: the version stays, the path is what it left.
LEMMA WritesBack ==
    ASSUME VfsInv, NEW i, There(i), NEW r \in Row, row' = [row EXCEPT ![i] = r],
           UNCHANGED <<platform, disk, drive, known>>, unseen' \subseteq unseen,
           \/ r.ver = row[i].ver /\ r.ver \in Nat
           \/ drive[i] # None /\ r.ver = drive[i].ver,
           \/ r.path = None /\ r.state = "cloud_only"
           \/ r.path = i /\ Fresh(i, r.ver)
    PROVE  Advances /\ RowsOK' /\ StoreOK'
<1>1. i \in Inode /\ row[i] # None /\ row[i].ver \in Nat BY RowThere
<1>2. row'[i] = r /\ \A j \in Inode : j # i => row'[j] = row[j]
  BY <1>1 DEF VfsInv, VfsTypeOK
<1>3. r # None /\ r.ver \in Nat BY NoneIsNoRow DEF Row
<1>4. drive[i] # None => drive[i].ver \in Nat /\ row[i].ver <= drive[i].ver
  BY <1>1 DEF VfsInv, VfsTypeOK, DriveFile, StoreOK
<1>5. r.ver >= row[i].ver /\ (drive[i] # None => r.ver <= drive[i].ver)
  BY <1>1, <1>3, <1>4
<1>6. Advances
  <2>1. row' \in [Inode -> Row \cup {None}] /\ disk' \in [Path -> Content \cup {None}]
    BY DEF VfsInv, VfsTypeOK
  <2>2. ASSUME NEW j \in Inode, row[j] # None
        PROVE  row'[j] # None /\ row'[j].ver >= row[j].ver
    <3>1. row[j].ver \in Nat BY <2>2, VersionIsNat DEF VfsInv
    <3> QED BY <1>2, <1>3, <1>5, <2>2, <3>1
  <2> QED BY <2>1, <2>2 DEF Advances, Fresh
<1>7. RowsOK'
  <2> SUFFICES ASSUME NEW j \in Inode PROVE RowOK(j)' BY DEF RowsOK
  <2>1. CASE j # i
    <3>1. RowOK(j) /\ row'[j] = row[j] BY <1>2, <2>1 DEF VfsInv, RowsOK
    <3> QED BY <3>1 DEF RowOK, Fresh
  <2>2. CASE j = i
    <3>1. i # None BY <1>1, VfsConstants DEF Inode
    <3> QED BY <1>2, <2>2, <3>1 DEF RowOK, Fresh
  <2> QED BY <2>1, <2>2
<1>8. StoreOK'
  <2>1. \A j \in Inode : row[j] # None => row'[j] # None BY <1>2, <1>3
  <2>2. ASSUME NEW j \in Inode, drive[j] # None
        PROVE  row'[j] # None /\ row'[j].ver <= drive[j].ver
    <3>1. CASE j = i BY <1>2, <1>3, <1>5, <2>2, <3>1
    <3>2. CASE j # i BY <1>2, <2>2, <3>2 DEF VfsInv, StoreOK
    <3> QED BY <3>1, <3>2
  <2>3. 1 \in Inode BY VfsConstants DEF Inode
  <2>4. known \subseteq Inode BY DEF VfsInv, VfsTypeOK
  <2> QED BY <2>1, <2>2, <2>3, <2>4 DEF VfsInv, StoreOK
<1> QED BY <1>6, <1>7, <1>8

\* The row goes back cached, with the path of the file that has arrived.
LEMMA RecordsDownload == ASSUME VfsInv, DownloadRecorded PROVE VfsInv'
<1> USE DEF EngineStep, mountVars, fsVars
<1> DEFINE i == engine.task.ino
           r == [engine.copy EXCEPT !.state = "cached", !.path = i]
<1>1. engine # None /\ engine.op = "download" /\ engine.at = "row"
  BY DEF DownloadRecorded
<1>2. /\ There(i) /\ engine.task.path = i /\ engine.copy \in Row
      /\ engine.copy.ver = row[i].ver /\ engine.copy.ver \in Nat
      /\ Fresh(i, engine.copy.ver)
  BY <1>1, WorkInUse
<1>3. r \in Row /\ r.ver = engine.copy.ver /\ r.path = i
  <2>1. i \in Path BY <1>2 DEF There, Path
  <2> QED BY <1>2, <2>1 DEF Row
<1>4. row' = [row EXCEPT ![i] = r] BY <1>2 DEF DownloadRecorded
<1>5. engine' = None BY DEF DownloadRecorded
<1> HIDE DEF i, r
<1>6. Advances /\ RowsOK' /\ StoreOK'
  <2>1. UNCHANGED <<platform, disk, drive, known>> /\ unseen' \subseteq unseen
    BY DEF DownloadRecorded
  <2>2. Fresh(i, r.ver) /\ r.ver = row[i].ver /\ r.ver \in Nat BY <1>2, <1>3
  <2> QED BY <1>2, <1>3, <1>4, <2>1, <2>2, WritesBack
<1>7. EngineOK' BY <1>5 DEF EngineOK
<1> QED BY <1>5, <1>6, <1>7, EngineKeeps, EngineTypes DEF DownloadRecorded

\* The row goes back without a path, after its file has gone.
LEMMA RecordsDelete == ASSUME VfsInv, DeleteRecorded PROVE VfsInv'
<1> USE DEF EngineStep, mountVars, fsVars
<1> DEFINE i == engine.task.ino
           r == [engine.copy EXCEPT !.state = "cloud_only", !.path = None]
<1>1. engine # None BY DEF DeleteRecorded
<1>2. /\ There(i) /\ engine.copy \in Row
      /\ engine.copy.ver = row[i].ver /\ engine.copy.ver \in Nat
  BY <1>1, WorkInUse
<1>3. r \in Row /\ r.ver = engine.copy.ver /\ r.path = None /\ r.state = "cloud_only"
  BY <1>2 DEF Row
<1>4. row' = [row EXCEPT ![i] = r] BY DEF DeleteRecorded
<1>5. engine' = None BY DEF DeleteRecorded
<1> HIDE DEF i, r
<1>6. Advances /\ RowsOK' /\ StoreOK'
  <2>1. UNCHANGED <<platform, disk, drive, known>> /\ unseen' \subseteq unseen
    BY DEF DeleteRecorded
  <2>2. r.ver = row[i].ver /\ r.ver \in Nat BY <1>2, <1>3
  <2> QED BY <1>2, <1>3, <1>4, <2>1, <2>2, WritesBack
<1>7. EngineOK' BY <1>5 DEF EngineOK
<1> QED BY <1>5, <1>6, <1>7, EngineKeeps, EngineTypes DEF DeleteRecorded

\* A poll puts Drive's row in its place, which says nothing of the cache.
LEMMA AppliesPoll == ASSUME VfsInv, NEW i \in Inode, PollApplies(i) PROVE VfsInv'
<1> USE DEF EngineStep, mountVars, fsVars
<1> DEFINE r == RowOfDrive(i)
<1>1. engine = None /\ i \in unseen /\ drive[i] # None
  BY DEF PollApplies, VfsInv, StoreOK
<1>2. There(i) /\ row[i] \in Row
  <2>1. There(i) BY <1>1 DEF VfsInv, StoreOK, There
  <2> QED BY <2>1, RowThere
<1>3. drive[i] \in DriveFile BY <1>1 DEF VfsInv, VfsTypeOK
<1>4. r \in Row /\ r.ver = drive[i].ver /\ r.path = None /\ r.state = "cloud_only"
  BY <1>2, <1>3 DEF RowOfDrive, Row, DriveFile
<1>5. row' = [row EXCEPT ![i] = r] BY DEF PollApplies
<1> HIDE DEF r
<1>6. Advances /\ RowsOK' /\ StoreOK'
  <2>1. UNCHANGED <<platform, disk, drive, known>> /\ unseen' \subseteq unseen
    BY DEF PollApplies
  <2> QED BY <1>1, <1>2, <1>4, <1>5, <2>1, WritesBack
<1>7. engine' = None /\ queue' = queue BY <1>1 DEF PollApplies
<1>8. EngineOK' BY <1>7 DEF EngineOK
<1>9. unseen' \subseteq Inode BY EngineTypes DEF PollApplies
<1> QED BY <1>6, <1>7, <1>8, <1>9, EngineKeeps, EngineTypes DEF PollApplies

\* A file changes on Drive: rows fall behind it, never ahead.
LEMMA EditsDrive == ASSUME VfsInv, NEW i \in Inode, EditOnDrive(i) PROVE VfsInv'
<1> USE DEF storeVars, mountVars, fsVars
<1> DEFINE f == [drive[i] EXCEPT !.ver = @ + 1]
<1>1. drive[i] \in DriveFile /\ drive[i] # None BY DEF EditOnDrive, VfsInv, VfsTypeOK
<1>2. f \in DriveFile /\ f.ver = drive[i].ver + 1 /\ drive[i].ver \in Nat
  BY <1>1 DEF DriveFile
<1>3. drive' = [drive EXCEPT ![i] = f] BY DEF EditOnDrive
<1> HIDE DEF f
<1>4. /\ drive' \in [Inode -> DriveFile \cup {None}] /\ drive'[i] = f
      /\ \A j \in Inode : j # i => drive'[j] = drive[j]
  BY <1>2, <1>3, EngineTypes
<1>5. StoreOK'
  <2>0. f # None BY <1>2, NoneIsNoRow
  <2>1. row[i] # None /\ row[i].ver <= drive[i].ver /\ row[i].ver \in Nat
    BY <1>1, VersionIsNat DEF VfsInv, StoreOK
  <2>2. ASSUME NEW j \in Inode, drive'[j] # None
        PROVE  row[j] # None /\ row[j].ver <= drive'[j].ver
    BY <1>2, <1>4, <2>1, <2>2 DEF VfsInv, StoreOK
  <2>3. row' = row /\ disk' = disk /\ known' = known /\ unseen' = unseen \cup {i}
    BY DEF EditOnDrive
  <2>4. \A j \in unseen' : drive'[j] # None
    BY <1>4, <2>0, <2>3, EngineTypes DEF VfsInv, StoreOK
  <2> QED BY <2>2, <2>3, <2>4 DEF VfsInv, StoreOK
<1>6. EngineOK'
  <2>1. UNCHANGED <<row, disk, engine>> BY DEF EditOnDrive
  <2> QED BY <2>1 DEF VfsInv, EngineOK, TaskOK, There, Fresh
<1>7. unseen' \subseteq Inode /\ ops' \in Nat BY EngineTypes DEF EditOnDrive, Counted
<1> QED BY <1>4, <1>5, <1>6, <1>7, EngineKeeps, EngineTypes, NothingMoves, RowsStay
     DEF EditOnDrive

\* A download that fails goes back to the queue or is given up.
LEMMA FailsDownload == ASSUME VfsInv, DownloadFails PROVE VfsInv'
<1> USE DEF EngineStep, mountVars, fsVars
<1>1. engine # None /\ engine' = None /\ UNCHANGED <<row, disk, drive, unseen, known>>
  BY DEF DownloadFails
<1>2. engine.task \in LegalTask BY <1>1, WorkInUse
<1>3. queue' \in {queue, Append(queue, engine.task)} BY DEF DownloadFails
<1>4. queue' \in Seq(LegalTask)
  <2>1. queue \in Seq(LegalTask) BY EngineTypes
  <2>2. CASE queue' = queue BY <2>1, <2>2
  <2>3. CASE queue' = Append(queue, engine.task) BY <1>2, <2>1, <2>3
  <2> QED BY <1>3, <2>2, <2>3
<1>5. faults' \in Nat BY EngineTypes DEF DownloadFails
<1>6. EngineOK' BY <1>1 DEF EngineOK
<1>7. Advances BY NothingMoves DEF DownloadFails
<1>8. RowsOK' /\ StoreOK' BY <1>1, RowsStay
<1> QED BY <1>1, <1>4, <1>5, <1>6, <1>7, <1>8, EngineKeeps, EngineTypes DEF DownloadFails

\* A task of an operation the engine does not know.
LEMMA IgnoresRename == ASSUME VfsInv, RenameTaskIgnored PROVE VfsInv'
<1> USE DEF EngineStep, mountVars, fsVars
<1>1. UNCHANGED <<row, disk, drive, unseen, known, engine>> BY DEF RenameTaskIgnored
<1>2. queue' \in Seq(LegalTask) BY TaskTaken DEF RenameTaskIgnored
<1>3. engine = None BY DEF RenameTaskIgnored
<1>4. EngineOK' BY <1>1, <1>3 DEF EngineOK
<1>5. Advances BY NothingMoves DEF RenameTaskIgnored
<1>6. RowsOK' /\ StoreOK' BY <1>1, RowsStay
<1> QED BY <1>1, <1>2, <1>4, <1>5, <1>6, EngineKeeps, EngineTypes DEF RenameTaskIgnored

\* A deletion reads the row and removes its cache file.
LEMMA StartsDelete == ASSUME VfsInv, DeleteStarts PROVE VfsInv'
<1> USE DEF EngineStep, mountVars, fsVars
<1> DEFINE task == Head(queue)
           i == task.ino
           work == [op |-> "delete", task |-> task, copy |-> row[i]]
<1>1. task \in Task /\ TaskOK(task) /\ task.op = "delete" /\ queue' \in Seq(LegalTask)
  BY TaskTaken DEF DeleteStarts
<1>2. There(i) /\ row[i] \in Row /\ row[i].path \in {None, i} BY <1>1, RowThere DEF TaskOK
<1>3. engine' = work /\ UNCHANGED <<row, drive, unseen, platform, known>>
  BY DEF DeleteStarts
<1>4. DiskStep
  <2>1. CASE row[i].path = None BY <2>1 DEF DeleteStarts, DiskStep
  <2>2. CASE row[i].path = i
    <3>1. i # None BY <1>2, VfsConstants DEF There, Inode
    <3>2. disk' = [disk EXCEPT ![i] = None] BY <2>2, <3>1 DEF DeleteStarts
    <3>3. i \in Inode BY <1>2 DEF There
    <3> QED BY <3>2, <3>3, Removes
  <2> QED BY <1>2, <2>1, <2>2
<1> HIDE DEF task
<1>5. engine' \in Work BY <1>1, <1>2, <1>3 DEF Work
<1>6. EngineOK'
  <2>1. engine'.task = task /\ engine'.op = "delete" /\ engine'.copy = row[i]
    BY <1>3
  <2> QED BY <1>1, <1>3, <2>1 DEF EngineOK, TaskOK, There
<1>7. Advances /\ RowsOK' /\ StoreOK'
  <2>1. \A j \in Inode : disk'[j] \in {disk[j], None, OfUser(j)}
    BY <1>4 DEF DiskStep, DiskMay
  <2>2. ASSUME NEW j \in Inode, NEW v \in Nat, Fresh(j, v) PROVE Fresh(j, v)'
    BY <2>1, <2>2 DEF Fresh, OfUser
  <2>3. disk' \in [Path -> Content \cup {None}] BY <1>4 DEF DiskStep, VfsInv, VfsTypeOK
  <2>4. \A j \in Inode : row[j] # None => row[j].ver \in Nat /\ row[j].ver >= row[j].ver
    BY VersionIsNat DEF VfsInv
  <2>5. row' \in [Inode -> Row \cup {None}] BY <1>3 DEF VfsInv, VfsTypeOK
  <2>6. Advances BY <1>3, <2>2, <2>3, <2>4, <2>5 DEF Advances
  <2>7. RowsOK' BY <1>3, <2>2, <2>4 DEF VfsInv, RowsOK, RowOK
  <2>8. \A j \in Inode : disk'[j] # None => disk'[j].of = j
    BY <2>1 DEF VfsInv, StoreOK, OfUser
  <2>9. StoreOK' BY <1>3, <2>8 DEF VfsInv, StoreOK
  <2> QED BY <2>6, <2>7, <2>9
<1> QED BY <1>1, <1>5, <1>6, <1>7, EngineKeeps, EngineTypes DEF DeleteStarts

\* An upload makes a file of Drive, with a row of its own.
LEMMA RunsUpload == ASSUME VfsInv, UploadRuns PROVE VfsInv'
<1> USE DEF EngineStep, mountVars, fsVars
<1> DEFINE made == Head(queue).path # None /\ disk[Head(queue).path] # None /\ Free # {}
<1>1. queue' \in Seq(LegalTask) /\ Head(queue) \in Task BY TaskTaken DEF UploadRuns
<1>2. engine' = None /\ UNCHANGED <<disk, platform, known>> BY DEF UploadRuns
<1>3. EngineOK' BY <1>2 DEF EngineOK
<1>4. CASE ~made
  <2>1. UNCHANGED <<drive, row, unseen>> BY <1>4 DEF UploadRuns
  <2>2. Advances BY <1>2, <2>1, NothingMoves
  <2>3. RowsOK' /\ StoreOK' BY <1>2, <2>1, RowsStay
  <2> QED BY <1>1, <1>2, <1>3, <2>1, <2>2, <2>3, EngineKeeps, EngineTypes DEF UploadRuns
<1>5. CASE made
  <2>1. PICK new \in Inode : new = NewInode /\ row[new] = None BY <1>5, NewIsFree
  <2> DEFINE name == Head(queue).path
             f == [ver |-> 1, name |-> name, parent |-> ROOT_INODE]
             r == [name |-> name, parent |-> ROOT_INODE, kind |-> "file",
                   state |-> "cloud_only", path |-> None, trashed |-> FALSE, ver |-> 1]
  <2>2. /\ drive' = [drive EXCEPT ![new] = f] /\ row' = [row EXCEPT ![new] = r]
        /\ unseen' = unseen \cup {new}
    BY <1>5, <2>1 DEF UploadRuns
  <2>3. name \in Name \cup Inode BY <1>1, <1>5 DEF Task, Path
  <2> HIDE DEF name
  <2>4. f \in DriveFile /\ f.ver = 1 BY <2>3, VfsConstants DEF DriveFile, ROOT_INODE
  <2>5. r \in Row /\ r.ver = 1 /\ r.path = None /\ r.state = "cloud_only"
    BY <2>3, VfsConstants DEF Row, ROOT_INODE
  <2> HIDE DEF f, r
  <2>6. /\ drive' \in [Inode -> DriveFile \cup {None}] /\ drive'[new] = f
        /\ \A j \in Inode : j # new => drive'[j] = drive[j]
    BY <2>2, <2>4, EngineTypes
  <2>7. /\ row' \in [Inode -> Row \cup {None}] /\ row'[new] = r
        /\ \A j \in Inode : j # new => row'[j] = row[j]
    BY <2>2, <2>5 DEF VfsInv, VfsTypeOK
  <2>8. r # None BY <2>5, NoneIsNoRow
  <2>9. Advances
    <3>1. \A j \in Inode : row[j] # None => j # new /\ row[j].ver >= row[j].ver
      BY <2>1, VersionIsNat DEF VfsInv
    <3>2. disk' \in [Path -> Content \cup {None}] BY <1>2 DEF VfsInv, VfsTypeOK
    <3> QED BY <1>2, <2>7, <3>1, <3>2 DEF Advances, Fresh
  <2>10. RowsOK' BY <1>2, <2>5, <2>7 DEF VfsInv, RowsOK, RowOK, Fresh
  <2>11. StoreOK'
    <3>1. drive[new] = None BY <2>1 DEF VfsInv, StoreOK
    <3>2. ASSUME NEW j \in Inode, drive'[j] # None
          PROVE  row'[j] # None /\ row'[j].ver <= drive'[j].ver
      BY <2>4, <2>5, <2>6, <2>7, <2>8, <3>2 DEF VfsInv, StoreOK
    <3>3. ASSUME NEW j \in Inode, row[j] # None PROVE row'[j] # None
      BY <2>1, <2>7, <3>3
    <3>4. unseen \subseteq Inode /\ known \subseteq Inode /\ 1 \in Inode
      BY VfsConstants DEF VfsInv, VfsTypeOK, Inode
    <3>5. \A j \in unseen : drive'[j] # None BY <2>6, <3>1, <3>4 DEF VfsInv, StoreOK
    <3>6. drive'[new] # None BY <2>4, <2>6, NoneIsNoRow
    <3>7. \A j \in Inode : disk'[j] # None => disk'[j].of = j
      BY <1>2 DEF VfsInv, StoreOK
    <3>8. \A j \in unseen' : drive'[j] # None BY <2>2, <3>5, <3>6
    <3>9. \A j \in known' : row'[j] # None BY <1>2, <3>3, <3>4 DEF VfsInv, StoreOK
    <3>10. row'[1] # None BY <3>3, <3>4 DEF VfsInv, StoreOK
    <3> QED BY <3>2, <3>7, <3>8, <3>9, <3>10 DEF StoreOK
  <2>12. unseen' \subseteq Inode BY <2>2, EngineTypes
  <2> QED BY <1>1, <1>2, <1>3, <2>6, <2>9, <2>10, <2>11, <2>12, EngineKeeps, EngineTypes
       DEF UploadRuns
<1> QED BY <1>4, <1>5

-----------------------------------------------------------------------------
\* The theorems.

\* The first state.
LEMMA InitKeeps == VfsInit => VfsInv
<1> SUFFICES ASSUME VfsInit PROVE VfsInv OBVIOUS
<1> USE DEF VfsInit
<1>1. PICK k \in {"file", "workspace"} :
        row = [i \in Inode |-> CASE i = 1 -> Folder [] i = 2 -> File(k) [] OTHER -> None]
  OBVIOUS
<1>2. Folder \in Row /\ File(k) \in Row
  BY FirstNames, VfsConstants DEF Folder, File, Row, ROOT_INODE
<1>3. 1 \in Inode /\ 2 \in Inode BY VfsConstants DEF Inode
<1>4. row \in [Inode -> Row \cup {None}] BY <1>1, <1>2
<1>5. \A i \in Inode :
        row[i] # None => /\ i \in {1, 2} /\ row[i].path = None /\ row[i].ver = 1
                         /\ row[i].state = "cloud_only"
  BY <1>1 DEF Folder, File
<1>6. RowsOK BY <1>5 DEF RowsOK, RowOK
<1>7. row[1] # None /\ row[2] # None /\ row[2].ver = 1
  <2>1. row[1] = Folder /\ row[2] = File(k) BY <1>1, <1>3
  <2>2. File(k).ver = 1 BY DEF File
  <2> QED BY <1>2, <2>1, <2>2, NoneIsNoRow
<1> DEFINE f == [ver |-> 1, name |-> FileName, parent |-> 1]
<1>8. f \in DriveFile BY FirstNames, VfsConstants DEF DriveFile
<1>9. drive \in [Inode -> DriveFile \cup {None}] BY <1>8
<1>10. \A i \in Inode : drive[i] # None => i = 2 /\ drive[i].ver = 1 OBVIOUS
<1>11. StoreOK
  <2>1. \A i \in Inode : disk[i] = None BY DEF Path
  <2> QED BY <1>7, <1>10, <2>1 DEF StoreOK
<1>12. QueueOK /\ EngineOK /\ HandlesOK /\ CallsOK
  BY DEF QueueOK, EngineOK, HandlesOK, CallsOK
<1>13. VfsTypeOK
  <2>1. reply \in Reply BY DEF Reply, Code
  <2>2. next_fh \in 1..(MaxHandles + 1) BY VfsConstants
  <2>3. queue \in Seq(Task) OBVIOUS
  <2>4. disk \in [Path -> Content \cup {None}] OBVIOUS
  <2>5. open_files \in [Fh -> Handle \cup {None}] /\ call \in [Thread -> Call \cup {None}]
    OBVIOUS
  <2> QED BY <1>4, <1>9, <2>1, <2>2, <2>3, <2>4, <2>5 DEF VfsTypeOK
<1>14. ReadIsFresh BY DEF ReadIsFresh
<1> QED BY <1>6, <1>11, <1>12, <1>13, <1>14 DEF VfsInv

\* Every step, of whichever side, keeps the invariant.
LEMMA NextKeeps == VfsInv /\ [VfsNext]_vfsVars => VfsInv'
<1> SUFFICES ASSUME VfsInv, [VfsNext]_vfsVars PROVE VfsInv' OBVIOUS
<1>1. CASE LinuxNext \/ MacNext \/ WindowsNext \/ PinNext \/ Unmount
  BY <1>1, LinuxSteps, MacSteps, WindowsSteps, PinSteps, UnmountSteps, CallbackKeeps
<1>2. CASE EngineNext
  BY <1>2, StartsDownload, ArrivesDownload, RecordsDownload, FailsDownload, RunsUpload,
     StartsDelete, RecordsDelete, IgnoresRename, AppliesPoll, EditsDrive DEF EngineNext
<1>3. CASE UNCHANGED vfsVars
  <2>1. UNCHANGED <<mountVars, storeVars, engineVars, fsVars, call, reply, ops>>
    BY <1>3 DEF vfsVars
  <2>2. CallbackStep
    BY <2>1 DEF CallbackStep, mountVars, storeVars, engineVars, fsVars, RowStep, DiskStep,
                QueueStep, KnownStep, HandleStep, CallStep, ReplyStep, VfsInv, VfsTypeOK
  <2> QED BY <2>2, CallbackKeeps
<1> QED BY <1>1, <1>2, <1>3 DEF VfsNext

\* The invariant holds of every behaviour, on each of the three platforms.
THEOREM VfsInvariant == VfsSpec => []VfsInv
<1>1. VfsInit => VfsInv BY InitKeeps
<1>2. VfsInv /\ [VfsNext]_vfsVars => VfsInv' BY NextKeeps
<1> QED BY <1>1, <1>2, PTL DEF VfsSpec

\* Every variable of the filesystem and the engine beside it keeps its type.
THEOREM VfsTypeCorrect == VfsSpec => []VfsTypeOK
<1>1. VfsInv => VfsTypeOK BY DEF VfsInv
<1> QED BY <1>1, VfsInvariant, PTL

\* The cache never lies: what a row calls "cached" or "offline" is its own
\* content, its user's or Drive's at the row's version or a newer one, whatever
\* the callbacks, the downloads, the deletions and the polls do in between.
THEOREM CacheStaysFresh == VfsSpec => []CachedIsFresh
<1>1. VfsInv => CachedIsFresh
  <2> SUFFICES ASSUME VfsInv, NEW i \in Inode, row[i] # None, wait_for_download(i),
                      disk[LocalPath(i)] # None
               PROVE  /\ disk[LocalPath(i)].of = i
                      /\ disk[LocalPath(i)].src = "user" \/ disk[LocalPath(i)].ver >= row[i].ver
    BY DEF CachedIsFresh
  <2>1. There(i) BY DEF There
  <2>2. LocalPath(i) = i /\ Fresh(i, row[i].ver)
    BY <2>1, RowThere DEF wait_for_download
  <2> QED BY <2>2 DEF Fresh, VfsInv, StoreOK
<1> QED BY <1>1, VfsInvariant, PTL

\* What a read returns is of its file and not older than what the row announced
\* when the read began, unless a rename had made that row "modified".
THEOREM ReadsStayFresh == VfsSpec => []ReadIsFresh
<1>1. VfsInv => ReadIsFresh BY DEF VfsInv
<1> QED BY <1>1, VfsInvariant, PTL

=============================================================================
