--------------------------- MODULE WatcherProofs ---------------------------
(***************************************************************************)
(* Proofs about the watcher: the types of its state, and with them the     *)
(* bounds of its channels, and that no edit is forgotten on its way from   *)
(* notify to the engine, for any folders, paths and capacities.            *)
(***************************************************************************)
EXTENDS Watcher, TLAPS, SequenceTheorems

\* Sending on a channel with a free slot stays within its capacity.
LEMMA AppendType ==
    ASSUME NEW S, NEW q \in Seq(S), NEW e \in S, NEW n \in Nat, Len(q) < n
    PROVE  Append(q, e) \in Seq(S) /\ Len(Append(q, e)) <= n
<1>1. Append(q, e) \in Seq(S) /\ Len(Append(q, e)) = Len(q) + 1 /\ Len(q) \in Nat
  BY AppendProperties, LenProperties
<1>2. QED
  BY <1>1

\* Taking the head of a stream or channel.
LEMMA HeadTailType ==
    ASSUME NEW S, NEW q \in Seq(S), q # <<>>
    PROVE  Head(q) \in S /\ Tail(q) \in Seq(S) /\ Len(Tail(q)) <= Len(q)
BY HeadTailProperties, LenProperties

\* What notify is told to emit are events.
LEMMA NotedType ==
    ASSUME NEW stream \in Seq([path : Path, kind : EventKind]),
           NEW p \in Path, NEW k \in EventKind
    PROVE  Noted(stream, Event(p, k)) \in Seq([path : Path, kind : EventKind])
<1>1. Event(p, k) \in [path : Path, kind : EventKind]
  BY DEF Event
<1>2. QED
  BY <1>1, AppendProperties DEF Noted

\* A task made from an entry of the debounce map is a task.
LEMMA EventToTaskType ==
    ASSUME NEW p \in Path, NEW k
    PROVE  EventToTask(p, k) \subseteq Task
BY DEF EventToTask, Task, Operation, Upload

\* A task of the scan is a task.
LEMMA ScanTaskType ==
    ASSUME NEW p \in Path, NEW d
    PROVE  [path |-> p, operation |-> Upload(d)] \in Task
BY DEF Task, Operation, Upload

\* The watcher starts, with empty maps and channels, in its types.
LEMMA InitType == WatcherInit => WatcherTypeOK
BY WatcherAssumption DEF WatcherInit, WatcherTypeOK

\* What users do to files and folders keeps the types.
LEMMA UserType == WatcherTypeOK /\ User => WatcherTypeOK'
<1> SUFFICES ASSUME WatcherTypeOK, User PROVE WatcherTypeOK'
  OBVIOUS
<1> USE WatcherAssumption
<1>k. "Modify" \in EventKind /\ "Remove" \in EventKind /\ "Ignored" \in EventKind
  BY DEF EventKind
<1>1. ASSUME NEW p \in Path, NEW k \in EventKind, Happens, Emit(Event(p, k)),
             disk' \in [Path -> {"none", "file", "dir"}],
             untold' \in [Path -> {"nothing", "edit", "removal"}],
             lost' \in SUBSET Path,
             UNCHANGED <<enabled, unsent, loopVars, mapVars, outbox, channel, faults>>
      PROVE  WatcherTypeOK'
  <2>1. events' \in Seq([path : Path, kind : EventKind])
    BY <1>1, NotedType DEF Emit, WatcherTypeOK
  <2>2. QED
    BY <1>1, <2>1 DEF WatcherTypeOK, Happens, loopVars, mapVars
<1>2. ASSUME NEW p \in Path, Write(p) PROVE WatcherTypeOK'
  BY <1>1, <1>2, <1>k DEF Write, WatcherTypeOK
<1>3. ASSUME NEW p \in Path, Touch(p) PROVE WatcherTypeOK'
  BY <1>1, <1>3, <1>k DEF Touch, WatcherTypeOK, worldVars
<1>4. ASSUME NEW p \in Path, RemoveFile(p) PROVE WatcherTypeOK'
  BY <1>1, <1>4, <1>k DEF RemoveFile, WatcherTypeOK
<1>5. ASSUME NEW p \in Path, MakeDirectory(p) PROVE WatcherTypeOK'
  BY <1>1, <1>5, <1>k DEF MakeDirectory, WatcherTypeOK
<1>6. ASSUME NEW p \in Path, RemoveDirectory(p) PROVE WatcherTypeOK'
  BY <1>1, <1>6, <1>k DEF RemoveDirectory, WatcherTypeOK
<1>h. ASSUME Happens
      PROVE  ops' \in 0..MaxOps /\ unsent \in 0..ops' /\ unsent + 1 \in 0..ops'
  BY <1>h DEF Happens, WatcherTypeOK
<1>7. ASSUME NEW p \in Path, NEW q \in Path, Rename(p, q) PROVE WatcherTypeOK'
  <2>1. events' \in Seq([path : Path, kind : EventKind])
    BY <1>7, <1>k, NotedType DEF Rename, WatcherTypeOK
  <2>2. /\ disk' \in [Path -> {"none", "file", "dir"}]
        /\ untold' \in [Path -> {"nothing", "edit", "removal"}]
        /\ lost' \in SUBSET Path
    BY <1>7 DEF Rename, WatcherTypeOK
  <2>3. QED
    BY <1>7, <1>h, <2>1, <2>2 DEF Rename, WatcherTypeOK, loopVars, mapVars
<1>8. ASSUME NEW d \in Folder, AddFolder(d) \/ RemoveFolder(d) PROVE WatcherTypeOK'
  BY <1>8, <1>h DEF AddFolder, RemoveFolder, WatcherTypeOK, loopVars, mapVars
<1>9. QED
  BY <1>2, <1>3, <1>4, <1>5, <1>6, <1>7, <1>8 DEF User
\* Reload, scan and flush keep the types and the capacity of the channel.
LEMMA LoopType == WatcherTypeOK /\ Loop => WatcherTypeOK'
<1> SUFFICES ASSUME WatcherTypeOK, Loop PROVE WatcherTypeOK'
  OBVIOUS
<1> USE WatcherAssumption DEF WatcherTypeOK, worldVars, loopVars, mapVars
<1>1. ASSUME NEW new \in SUBSET Folder, ReloadFolders(new) PROVE WatcherTypeOK'
  BY <1>1 DEF ReloadFolders
<1>2. ASSUME NEW s \in toScan, ScanVisit(s) PROVE WatcherTypeOK'
  <2>1. s[2] \in Path
    OBVIOUS
  <2>2. channel' \in Seq(Task) /\ Len(channel') <= CHANNEL
    <3>1. [path |-> s[2], operation |-> Upload(s[1])] \in Task
      BY <2>1, ScanTaskType
    <3>2. Len(channel) < CHANNEL =>
             LET c == Append(channel, [path |-> s[2], operation |-> Upload(s[1])])
             IN  c \in Seq(Task) /\ Len(c) <= CHANNEL
      BY <3>1, AppendType DEF WatcherTypeOK
    <3>3. QED
      BY <1>2, <3>2 DEF ScanVisit, WatcherTypeOK
  <2>3. QED
    BY <1>2, <2>2 DEF ScanVisit
<1>3. ASSUME NEW s \in toScan, ScanSkips(s) PROVE WatcherTypeOK'
  BY <1>3 DEF ScanSkips
<1>4. ASSUME NEW t \in outbox, SendTask(t) PROVE WatcherTypeOK'
  <2>1. t \in Task /\ t.path \in Path
    BY DEF Task
  <2>2. channel' \in Seq(Task) /\ Len(channel') <= CHANNEL
    <3>1. Len(channel) < CHANNEL =>
             Append(channel, t) \in Seq(Task) /\ Len(Append(channel, t)) <= CHANNEL
      BY <2>1, AppendType DEF WatcherTypeOK
    <3>2. QED
      BY <1>4, <3>1 DEF SendTask, WatcherTypeOK
  <2>3. QED
    BY <1>4, <2>1, <2>2 DEF SendTask
<1>5. CASE ScanDone
  BY <1>5 DEF ScanDone
<1>6. CASE FlushDone
  BY <1>6 DEF FlushDone
<1>7. QED
  BY <1>1, <1>2, <1>3, <1>4, <1>5, <1>6 DEF Loop

\* The branches of select! keep the types.
LEMMA SelectType ==
    WatcherTypeOK /\ (ReceiveReload \/ HandleEvent \/ HandleError \/ Tick) => WatcherTypeOK'
<1> SUFFICES ASSUME WatcherTypeOK, ReceiveReload \/ HandleEvent \/ HandleError \/ Tick
             PROVE  WatcherTypeOK'
  OBVIOUS
<1> USE WatcherAssumption DEF WatcherTypeOK, worldVars, loopVars, mapVars
<1>1. CASE ReceiveReload
  BY <1>1 DEF ReceiveReload
<1>2. ASSUME events # <<>>
      PROVE  /\ Head(events).path \in Path /\ Head(events).kind \in EventKind
             /\ Tail(events) \in Seq([path : Path, kind : EventKind])
  <2>1. Head(events) \in [path : Path, kind : EventKind]
    BY <1>2, HeadTailType
  <2>2. QED
    BY <1>2, <2>1, HeadTailType
<1>3. CASE HandleEvent
  BY <1>2, <1>3 DEF HandleEvent
<1>4. CASE HandleError
  BY <1>2, <1>4 DEF HandleError
<1>5. CASE Tick
  <2>1. outbox' \in SUBSET Task
    BY <1>5, EventToTaskType DEF Tick, Ripe
  <2>2. QED
    BY <1>5, <2>1 DEF Tick, Ripe
<1>6. QED
  BY <1>1, <1>3, <1>4, <1>5

\* The engine's end of the channel keeps the types.
LEMMA EngineType == WatcherTypeOK /\ Engine => WatcherTypeOK'
<1> SUFFICES ASSUME WatcherTypeOK, Engine PROVE WatcherTypeOK'
  OBVIOUS
<1> USE WatcherAssumption DEF WatcherTypeOK, worldVars, loopVars, mapVars
<1>1. channel # <<>>
  BY DEF Engine, EngineReceives, EngineDrops
<1>2. /\ Head(channel) \in Task
      /\ Tail(channel) \in Seq(Task) /\ Len(Tail(channel)) <= CHANNEL
  <2>1. Head(channel) \in Task /\ Tail(channel) \in Seq(Task)
    BY <1>1, HeadTailType
  <2>2. Len(Tail(channel)) \in Nat /\ Len(channel) \in Nat
    BY <2>1, LenProperties
  <2>3. QED
    BY <1>1, <2>1, <2>2, HeadTailType
<1>3. Head(channel).path \in Path
  BY <1>2 DEF Task
<1>4. ASSUME NEW p \in Path, NEW op PROVE Truth(p, op) \in {"nothing", "edit", "removal"}
  BY DEF Truth
<1>5. CASE EngineReceives
  BY <1>2, <1>3, <1>4, <1>5 DEF EngineReceives
<1>6. CASE EngineDrops
  BY <1>2, <1>3, <1>6 DEF EngineDrops
<1>7. QED
  BY <1>5, <1>6 DEF Engine

\* Every step keeps the types.
LEMMA NextType == WatcherTypeOK /\ [WatcherNext]_watcherVars => WatcherTypeOK'
<1> SUFFICES ASSUME WatcherTypeOK, [WatcherNext]_watcherVars PROVE WatcherTypeOK'
  OBVIOUS
<1> USE WatcherAssumption
<1>1. CASE SignalReload
  BY <1>1 DEF SignalReload, WatcherTypeOK, mapVars
<1>2. CASE Time
  BY <1>2 DEF Time, Elapse, WatcherTypeOK, worldVars, loopVars
<1>3. CASE Restart
  BY <1>3 DEF Restart, WatcherTypeOK
<1>4. CASE UNCHANGED watcherVars
  BY <1>4 DEF watcherVars, WatcherTypeOK, worldVars, loopVars, mapVars
<1>5. QED
  BY <1>1, <1>2, <1>3, <1>4, UserType, LoopType, SelectType, EngineType DEF WatcherNext

\* The debounce map, the channels and the scan keep their types, and neither
\* channel ever holds more than its capacity, whoever sends: the scan waits for
\* a slot, the tick and the folder handlers give up.
THEOREM WatcherTypeCorrect == WatcherSpec => []WatcherTypeOK
BY InitType, NextType, PTL DEF WatcherSpec

-----------------------------------------------------------------------------
\* The inductive invariant of NoEditForgotten.

\* An upload of p, of either kind.
UploadOf(t, p) == t.path = p /\ t.operation # "delete"
\* A delete of p.
DeleteOf(t, p) == t.path = p /\ t.operation = "delete"

\* An event that stands for an upload of p is in notify's stream.
ModifyComes(p) == \E i \in 1..Len(events) : events[i] = Event(p, "Modify")

\* The debounce map has an entry of p which, should it not become an upload, is
\* counted as lost.
Entered(p) == pending[p] \in {"Modify", "Ignored"} /\ p \in touched

\* Behind the n-th task of the channel an upload of p is on its way.
UploadComes(p, n) ==
    \/ ModifyComes(p) \/ Entered(p)
    \/ \E t \in outbox : UploadOf(t, p)
    \/ \E i \in 1..Len(channel) : i > n /\ UploadOf(channel[i], p)
    \/ \E s \in toScan : s[2] = p

\* A removal of p is on its way, and no event that could replace it.
RemovalComes(p) ==
    \/ \E i \in 1..Len(events) :
          /\ events[i] = Event(p, "Remove")
          /\ \A j \in 1..Len(events) : j > i => events[j].path # p
    \/ pending[p] = "Remove" /\ \A j \in 1..Len(events) : events[j].path # p
    \/ \E t \in outbox : DeleteOf(t, p)
    \/ \E i \in 1..Len(channel) : DeleteOf(channel[i], p)

\* The loop leaves flush and scan with nothing left; the map's entries.
LoopOK ==
    /\ at # "flush" => outbox = {}
    /\ at # "scan" => toScan = {}
    /\ \A p \in Path : pending[p] \in Interesting => p \in touched
    /\ \A p \in due : pending[p] # "none"

\* Whatever is on its way is about a path below a watched folder.
Present(p) ==
    \/ \E i \in 1..Len(events) : events[i].path = p
    \/ pending[p] # "none"
    \/ \E t \in outbox : t.path = p
    \/ \E i \in 1..Len(channel) : channel[i].path = p
    \/ \E s \in toScan : s[2] = p

\* What is untold agrees with the disk.
TruthOK(p) ==
    /\ untold[p] = "edit" => disk[p] = "file"
    /\ untold[p] = "removal" => disk[p] # "file"
    /\ untold[p] = "removal" /\ disk[p] = "dir" => p \in lost

\* A removal that is still to come has an upload behind it, if there is a file.
RemovesFollowed(p) ==
    /\ \A i \in 1..Len(events) :
          events[i] = Event(p, "Remove")
             => \E j \in 1..Len(events) : j > i /\ events[j] = Event(p, "Modify")
    /\ pending[p] = "Remove" => ModifyComes(p)
    /\ \A t \in outbox : DeleteOf(t, p) => ModifyComes(p) \/ Entered(p)
    /\ \A i \in 1..Len(channel) : DeleteOf(channel[i], p) => UploadComes(p, i)

\* What is said of one path: what it rests on, and what has not been lost of it is
\* on its way.
PathOK(p) ==
    /\ Present(p) => Watched(p)
    /\ TruthOK(p)
    /\ p \notin lost =>
          /\ untold[p] = "removal" => RemovalComes(p)
          /\ untold[p] = "edit" /\ Watched(p) => UploadComes(p, 0)
          /\ disk[p] = "file" => RemovesFollowed(p)

\* The inductive invariant.
WatcherInv == WatcherTypeOK /\ LoopOK /\ \A p \in Path : PathOK(p)

-----------------------------------------------------------------------------
\* Steps that move nothing.

\* What is on its way, and where to, is left alone.
StillVars == <<disk, watched, events, pending, touched, outbox, channel, toScan, untold,
               lost>>

\* The parts of what is said of a path follow from the state it speaks of.
LEMMA StillPaths ==
    ASSUME NEW p \in Path, PathOK(p), UNCHANGED StillVars PROVE PathOK(p)'
BY DEF StillVars, PathOK, Present, Watched, Owners, TruthOK, RemovalComes, UploadComes,
       ModifyComes, Entered, RemovesFollowed

\* The signals, the clock and the ends of a scan and of a tick.
LEMMA StillSteps ==
    ASSUME WatcherInv,
           \/ SignalReload \/ ReceiveReload \/ ScanDone \/ FlushDone
           \/ \E d \in Folder : AddFolder(d) \/ RemoveFolder(d)
           \/ \E p \in Path : Elapse(p)
    PROVE  (LoopOK /\ \A p \in Path : PathOK(p))'
<1>1. UNCHANGED StillVars
  BY DEF SignalReload, ReceiveReload, ScanDone, FlushDone, AddFolder, RemoveFolder,
         Elapse, StillVars, worldVars, mapVars, loopVars
<1>2. \A p \in Path : PathOK(p)' BY <1>1, StillPaths DEF WatcherInv
<1>3. LoopOK'
  BY DEF WatcherInv, LoopOK, SignalReload, ReceiveReload, ScanDone, FlushDone, AddFolder,
         RemoveFolder, Elapse, worldVars, mapVars, loopVars
<1> QED BY <1>2, <1>3

-----------------------------------------------------------------------------
\* What users do to files.

\* The stream of notify only gets longer; what it gains is not about r.
GrowsAside(r) ==
    /\ Len(events) \in Nat /\ Len(events') \in Nat /\ Len(events) <= Len(events')
    /\ \A i \in 1..Len(events) : events'[i] = events[i]
    /\ \A i \in 1..Len(events') : i > Len(events) => events'[i].path # r

\* The rest of the way to the engine is left alone.
RestVars == <<pending, touched, outbox, channel, toScan, watched>>

\* new is the stream old with e behind it.
Gains(old, new, e) ==
    /\ Len(old) \in Nat /\ Len(new) = Len(old) + 1
    /\ new[Len(old) + 1] = e
    /\ \A i \in 1..Len(old) : new[i] = old[i]

\* Append adds one element, at the end.
LEMMA AppendGains ==
    ASSUME NEW S, NEW old \in Seq(S), NEW e \in S PROVE Gains(old, Append(old, e), e)
BY DEF Gains

\* What one event adds to the stream: itself, or nothing when nobody watches.
LEMMA NotedGains ==
    ASSUME NEW stream \in Seq([path : Path, kind : EventKind]), NEW p \in Path,
           NEW k \in EventKind
    PROVE  /\ Watched(p) => Gains(stream, Noted(stream, Event(p, k)), Event(p, k))
           /\ ~Watched(p) => Noted(stream, Event(p, k)) = stream
<1>1. Event(p, k) \in [path : Path, kind : EventKind] /\ Event(p, k).path = p BY DEF Event
<1>2. CASE Watched(p)
  <2>1. Noted(stream, Event(p, k)) = Append(stream, Event(p, k)) BY <1>1, <1>2 DEF Noted
  <2> QED BY <1>1, <1>2, <2>1, AppendGains
<1>3. CASE ~Watched(p)
  BY <1>1, <1>3 DEF Noted
<1> QED BY <1>2, <1>3

\* A path of which nothing happens stays as it was.
LEMMA AsideStays ==
    ASSUME NEW r \in Path, PathOK(r), GrowsAside(r), UNCHANGED RestVars,
           disk'[r] = disk[r], untold'[r] = untold[r], (r \in lost') = (r \in lost)
    PROVE  PathOK(r)'
<1> USE DEF GrowsAside, RestVars
<1>1. Watched(r)' = Watched(r) BY DEF Watched, Owners
<1>2. \A k : (\E i \in 1..Len(events') : events'[i] = Event(r, k))
               <=> \E i \in 1..Len(events) : events[i] = Event(r, k)
  BY DEF Event
<1>3. ModifyComes(r)' = ModifyComes(r) BY <1>2 DEF ModifyComes
<1>4. Entered(r)' = Entered(r) BY DEF Entered
<1>5. \A n : UploadComes(r, n) => UploadComes(r, n)' BY <1>3, <1>4 DEF UploadComes
<1>6. Present(r)' => Present(r) BY DEF Present
<1>7. RemovalComes(r) => RemovalComes(r)'
  <2>1. ASSUME NEW i \in 1..Len(events), events[i] = Event(r, "Remove"),
               \A j \in 1..Len(events) : j > i => events[j].path # r
        PROVE  RemovalComes(r)'
    <3>1. i \in 1..Len(events') /\ events'[i] = Event(r, "Remove") BY <2>1
    <3>2. ASSUME NEW j \in 1..Len(events'), j > i PROVE events'[j].path # r
      <4>1. CASE j > Len(events) BY <4>1
      <4>2. CASE j <= Len(events) BY <2>1, <3>2, <4>2
      <4> QED BY <4>1, <4>2
    <3> QED BY <3>1, <3>2 DEF RemovalComes
  <2>2. ASSUME pending[r] = "Remove", \A j \in 1..Len(events) : events[j].path # r
        PROVE  RemovalComes(r)'
    <3>1. \A j \in 1..Len(events') : events'[j].path # r BY <2>2
    <3> QED BY <2>2, <3>1 DEF RemovalComes
  <2>3. ASSUME \/ \E t \in outbox : DeleteOf(t, r)
               \/ \E i \in 1..Len(channel) : DeleteOf(channel[i], r)
        PROVE  RemovalComes(r)'
    BY <2>3 DEF RemovalComes, DeleteOf
  <2> QED BY <2>1, <2>2, <2>3 DEF RemovalComes
<1>8. disk[r] = "file" /\ RemovesFollowed(r) => RemovesFollowed(r)'
  <2> SUFFICES ASSUME RemovesFollowed(r) PROVE RemovesFollowed(r)' OBVIOUS
  <2>1. ASSUME NEW i \in 1..Len(events'), events'[i] = Event(r, "Remove")
        PROVE  \E j \in 1..Len(events') : j > i /\ events'[j] = Event(r, "Modify")
    <3>1. i \in 1..Len(events) /\ events[i] = Event(r, "Remove") BY <2>1 DEF Event
    <3> QED BY <3>1 DEF RemovesFollowed
  <2> QED BY <1>3, <1>4, <1>5, <2>1 DEF RemovesFollowed
<1> QED BY <1>1, <1>5, <1>6, <1>7, <1>8 DEF PathOK, TruthOK

\* A path that was written has its upload coming, if somebody watches.
LEMMA WrittenOK ==
    ASSUME NEW p \in Path, PathOK(p), UNCHANGED RestVars,
           Len(events) \in Nat, Len(events') \in Nat,
           disk'[p] = "file", untold'[p] = "edit",
           Watched(p) => Len(events') > Len(events)
                         /\ events'[Len(events')] = Event(p, "Modify"),
           ~Watched(p) => \A i \in 1..Len(events') : events'[i].path # p
    PROVE  PathOK(p)'
<1> USE DEF RestVars
<1>1. Watched(p)' = Watched(p) BY DEF Watched, Owners
<1>2. CASE Watched(p)
  <2>1. /\ Len(events') \in 1..Len(events')
        /\ events'[Len(events')] = Event(p, "Modify")
    BY <1>2
  <2>2. ModifyComes(p)' BY <2>1 DEF ModifyComes
  <2>3. Event(p, "Modify") # Event(p, "Remove") BY DEF Event
  <2>4. ASSUME NEW i \in 1..Len(events'), events'[i] = Event(p, "Remove")
        PROVE  \E j \in 1..Len(events') : j > i /\ events'[j] = Event(p, "Modify")
    <3>1. i < Len(events') BY <2>1, <2>3, <2>4
    <3> QED BY <2>1, <3>1
  <2>5. RemovesFollowed(p)' BY <2>2, <2>4 DEF RemovesFollowed, UploadComes
  <2> QED BY <1>1, <1>2, <2>2, <2>5 DEF PathOK, TruthOK, UploadComes
<1>3. CASE ~Watched(p)
  <2>1. ~Present(p) BY <1>3 DEF PathOK
  <2>2. ~Present(p)' BY <1>3, <2>1 DEF Present
  <2>3. RemovesFollowed(p)' BY <2>2 DEF Present, RemovesFollowed, Event, DeleteOf
  <2> QED BY <1>1, <1>3, <2>2, <2>3 DEF PathOK, TruthOK
<1> QED BY <1>2, <1>3

\* One event about p is aside for the others, and none at all when nobody watches.
LEMMA EmitGrows ==
    ASSUME WatcherInv, NEW p \in Path, NEW k \in EventKind, Emit(Event(p, k))
    PROVE  /\ \A r \in Path : r # p => GrowsAside(r)
           /\ Len(events) \in Nat /\ Len(events') \in Nat
           /\ Watched(p) => /\ Len(events') = Len(events) + 1
                            /\ events'[Len(events) + 1] = Event(p, k)
           /\ ~Watched(p) => events' = events
           /\ \A i \in 1..Len(events) : events'[i] = events[i]
<1>1. events \in Seq([path : Path, kind : EventKind]) BY DEF WatcherInv, WatcherTypeOK
<1>2. events' = Noted(events, Event(p, k)) BY DEF Emit
<1>3. Event(p, k).path = p BY DEF Event
<1>4. /\ Len(events) \in Nat /\ Len(events') \in Nat
      /\ \A i \in 1..Len(events) : events'[i] = events[i]
      /\ Watched(p) => Len(events') = Len(events) + 1 /\ events'[Len(events) + 1] = Event(p, k)
      /\ ~Watched(p) => events' = events
      /\ \A i \in 1..Len(events') : i > Len(events) => events'[i] = Event(p, k)
  <2>1. Len(events) \in Nat BY <1>1, LenProperties
  <2>2. CASE Watched(p)
    <3>1. Gains(events, events', Event(p, k)) BY <1>1, <1>2, <2>2, NotedGains
    <3> QED BY <2>2, <3>1 DEF Gains
  <2>3. CASE ~Watched(p)
    <3>1. events' = events BY <1>1, <1>2, <2>3, NotedGains
    <3> QED BY <2>1, <2>3, <3>1
  <2> QED BY <2>2, <2>3
<1>5. Len(events) <= Len(events') BY <1>4
<1> QED BY <1>3, <1>4, <1>5 DEF GrowsAside

\* A file is written.
LEMMA WriteKeeps ==
    ASSUME WatcherInv, NEW p \in Path, Write(p), NEW r \in Path PROVE PathOK(r)'
<1>1. "Modify" \in EventKind BY DEF EventKind
<1>2. PathOK(r) BY DEF WatcherInv
<1>3. UNCHANGED RestVars BY DEF Write, RestVars, loopVars, mapVars
<1>4. CASE r = p
  <2>1. /\ Len(events) \in Nat /\ Len(events') \in Nat
        /\ Watched(p) => Len(events') = Len(events) + 1
                         /\ events'[Len(events) + 1] = Event(p, "Modify")
        /\ ~Watched(p) => events' = events
    BY <1>1, EmitGrows DEF Write
  <2>2. disk'[p] = "file" /\ untold'[p] = "edit"
    BY DEF Write, WatcherInv, WatcherTypeOK
  <2>3. Watched(p) => Len(events') > Len(events) /\ events'[Len(events')] = Event(p, "Modify")
    BY <2>1
  <2>4. ~Watched(p) => \A i \in 1..Len(events') : events'[i].path # p
    BY <1>2, <1>4, <2>1 DEF PathOK, Present
  <2> QED BY <1>2, <1>3, <1>4, <2>1, <2>2, <2>3, <2>4, WrittenOK
<1>5. CASE r # p
  <2>1. GrowsAside(r) BY <1>1, <1>5, EmitGrows DEF Write
  <2>2. disk'[r] = disk[r] /\ untold'[r] = untold[r] /\ (r \in lost') = (r \in lost)
    BY <1>5 DEF Write, WatcherInv, WatcherTypeOK
  <2> QED BY <1>2, <1>3, <2>1, <2>2, AsideStays
<1> QED BY <1>4, <1>5

\* Nothing is said of a file that has gone or become a directory, but that what is
\* on its way is watched and what is untold of it is coming or lost.
LEMMA GoneOK ==
    ASSUME NEW p \in Path, PathOK(p), UNCHANGED RestVars, NEW k,
           Len(events) \in Nat, Len(events') \in Nat,
           Watched(p) => /\ Len(events') = Len(events) + 1
                         /\ events'[Len(events) + 1] = Event(p, k)
                         /\ \A i \in 1..Len(events) : events'[i] = events[i],
           ~Watched(p) => UNCHANGED events,
           disk'[p] # "file",
           \/ untold'[p] \notin {"edit", "removal"}
           \/ untold'[p] = "removal" /\ p \in lost'
           \/ untold'[p] = "removal" /\ k = "Remove" /\ Watched(p) /\ disk'[p] = "none"
    PROVE  PathOK(p)'
<1> USE DEF RestVars
<1>1. Watched(p)' = Watched(p) BY DEF Watched, Owners
<1>2. Present(p)' => Watched(p)
  <2>1. CASE Watched(p) BY <2>1
  <2>2. CASE ~Watched(p)
    <3>1. events' = events /\ ~Present(p) BY <2>2 DEF PathOK
    <3>2. ~Present(p)' BY <3>1 DEF Present
    <3> QED BY <3>2
  <2> QED BY <2>1, <2>2
<1>3. TruthOK(p)' BY DEF TruthOK
<1>4. ASSUME k = "Remove", Watched(p) PROVE RemovalComes(p)'
  <2>1. Len(events') \in 1..Len(events') /\ events'[Len(events')] = Event(p, "Remove")
    BY <1>4
  <2>2. \A j \in 1..Len(events') : ~(j > Len(events')) OBVIOUS
  <2> QED BY <2>1, <2>2 DEF RemovalComes
<1> QED BY <1>1, <1>2, <1>3, <1>4 DEF PathOK

\* A file is removed.
LEMMA RemoveKeeps ==
    ASSUME WatcherInv, NEW p \in Path, RemoveFile(p), NEW r \in Path PROVE PathOK(r)'
<1>1. "Remove" \in EventKind BY DEF EventKind
<1>2. PathOK(r) BY DEF WatcherInv
<1>3. UNCHANGED RestVars BY DEF RemoveFile, RestVars, loopVars, mapVars
<1>4. CASE r = p
  <2>1. /\ Len(events) \in Nat /\ Len(events') \in Nat
        /\ Watched(p) => /\ Len(events') = Len(events) + 1
                         /\ events'[Len(events) + 1] = Event(p, "Remove")
        /\ ~Watched(p) => events' = events
        /\ \A i \in 1..Len(events) : events'[i] = events[i]
    BY <1>1, EmitGrows DEF RemoveFile
  <2>2. disk'[p] = "none" /\ untold'[p] = "removal" /\ (Watched(p) \/ p \in lost')
    BY DEF RemoveFile, WatcherInv, WatcherTypeOK
  <2> QED BY <1>2, <1>3, <1>4, <2>1, <2>2, GoneOK
<1>5. CASE r # p
  <2>1. GrowsAside(r) BY <1>1, <1>5, EmitGrows DEF RemoveFile
  <2>2. disk'[r] = disk[r] /\ untold'[r] = untold[r] /\ (r \in lost') = (r \in lost)
    BY <1>5 DEF RemoveFile, WatcherInv, WatcherTypeOK
  <2> QED BY <1>2, <1>3, <2>1, <2>2, AsideStays
<1> QED BY <1>4, <1>5

\* A directory is made or removed where there is no file.
LEMMA DirectoryKeeps ==
    ASSUME WatcherInv, NEW p \in Path, MakeDirectory(p) \/ RemoveDirectory(p),
           NEW r \in Path
    PROVE  PathOK(r)'
<1>1. PICK k \in EventKind : Emit(Event(p, k))
  BY DEF MakeDirectory, RemoveDirectory, EventKind
<1>2. PathOK(r) BY DEF WatcherInv
<1>3. UNCHANGED RestVars /\ UNCHANGED untold
  BY DEF MakeDirectory, RemoveDirectory, RestVars, loopVars, mapVars
<1>4. CASE r = p
  <2>1. /\ Len(events) \in Nat /\ Len(events') \in Nat
        /\ Watched(p) => /\ Len(events') = Len(events) + 1
                         /\ events'[Len(events) + 1] = Event(p, k)
        /\ ~Watched(p) => events' = events
        /\ \A i \in 1..Len(events) : events'[i] = events[i]
    BY <1>1, EmitGrows
  <2>2. disk[p] # "file" /\ disk'[p] \in {"dir", "none"}
    BY DEF MakeDirectory, RemoveDirectory, WatcherInv, WatcherTypeOK
  <2>3. untold'[p] = "removal" => p \in lost'
    BY <1>2, <1>4 DEF MakeDirectory, RemoveDirectory, PathOK, TruthOK
  <2>4. untold'[p] # "edit" BY <1>2, <1>3, <1>4, <2>2 DEF PathOK, TruthOK
  <2> QED BY <1>2, <1>3, <1>4, <2>1, <2>2, <2>3, <2>4, GoneOK
<1>5. CASE r # p
  <2>1. GrowsAside(r) BY <1>1, <1>5, EmitGrows
  <2>2. disk'[r] = disk[r] /\ untold'[r] = untold[r] /\ (r \in lost') = (r \in lost)
    BY <1>3, <1>5 DEF MakeDirectory, RemoveDirectory, WatcherInv, WatcherTypeOK
  <2> QED BY <1>2, <1>3, <2>1, <2>2, AsideStays
<1> QED BY <1>4, <1>5

\* An event to ignore: what follows a removal still follows it.
LEMMA TouchKeeps ==
    ASSUME WatcherInv, NEW p \in Path, Touch(p), NEW r \in Path PROVE PathOK(r)'
<1>1. "Ignored" \in EventKind BY DEF EventKind
<1>2. PathOK(r) BY DEF WatcherInv
<1>3. UNCHANGED RestVars /\ UNCHANGED <<disk, untold, lost>>
  BY DEF Touch, RestVars, worldVars, loopVars, mapVars
<1>4. CASE r = p
  <2>1. /\ Len(events) \in Nat /\ Len(events') \in Nat
        /\ Watched(p) => /\ Len(events') = Len(events) + 1
                         /\ events'[Len(events) + 1] = Event(p, "Ignored")
        /\ ~Watched(p) => events' = events
        /\ \A i \in 1..Len(events) : events'[i] = events[i]
    BY <1>1, EmitGrows DEF Touch
  <2>2. disk[p] = "file" /\ untold[p] # "removal"
    BY <1>2, <1>4 DEF Touch, PathOK, TruthOK
  <2>3. Watched(p)' = Watched(p) BY <1>3 DEF Watched, Owners, RestVars
  <2>4. CASE ~Watched(p)
    <3>1. UNCHANGED StillVars BY <1>3, <2>1, <2>4 DEF StillVars, RestVars
    <3> QED BY <1>2, <1>4, <3>1, StillPaths
  <2>5. CASE Watched(p)
    <3>1. ModifyComes(p) => ModifyComes(p)'
      BY <2>1, <2>5 DEF ModifyComes
    <3>2. Entered(p)' = Entered(p) BY <1>3 DEF Entered, RestVars
    <3>3. \A n : UploadComes(p, n) => UploadComes(p, n)'
      BY <1>3, <3>1, <3>2 DEF UploadComes, RestVars
    <3>4. RemovesFollowed(p) => RemovesFollowed(p)'
      <4> SUFFICES ASSUME RemovesFollowed(p) PROVE RemovesFollowed(p)' OBVIOUS
      <4>1. ASSUME NEW i \in 1..Len(events'), events'[i] = Event(p, "Remove")
            PROVE  \E j \in 1..Len(events') : j > i /\ events'[j] = Event(p, "Modify")
        <5>1. Event(p, "Ignored") # Event(p, "Remove") BY DEF Event
        <5>2. i \in 1..Len(events) /\ events[i] = Event(p, "Remove")
          BY <2>1, <2>5, <4>1, <5>1
        <5>3. PICK j \in 1..Len(events) : j > i /\ events[j] = Event(p, "Modify")
          BY <5>2 DEF RemovesFollowed
        <5> QED BY <2>1, <2>5, <5>3
      <4> QED BY <1>3, <3>1, <3>2, <3>3, <4>1 DEF RemovesFollowed, RestVars
    <3> QED BY <1>2, <1>3, <1>4, <2>2, <2>3, <2>5, <3>3, <3>4 DEF PathOK, TruthOK
  <2> QED BY <2>4, <2>5
<1>5. CASE r # p
  <2>1. GrowsAside(r) BY <1>1, <1>5, EmitGrows DEF Touch
  <2> QED BY <1>2, <1>3, <2>1, AsideStays
<1> QED BY <1>4, <1>5

\* A rename writes the new path; the removal of the old one is lost.
LEMMA RenameKeeps ==
    ASSUME WatcherInv, NEW p \in Path, NEW q \in Path, Rename(p, q), NEW r \in Path
    PROVE  PathOK(r)'
<1> DEFINE mid == Noted(events, Event(p, "Modify"))
<1>1. "Modify" \in EventKind BY DEF EventKind
<1>2. PathOK(r) /\ PathOK(q) /\ PathOK(p) BY DEF WatcherInv
<1>3. UNCHANGED RestVars BY DEF Rename, RestVars, loopVars, mapVars
<1>4. /\ p # q /\ disk'[p] = "none" /\ disk'[q] = "file"
      /\ untold'[p] = "removal" /\ untold'[q] = "edit" /\ p \in lost'
      /\ \A s \in Path \ {p, q} : /\ disk'[s] = disk[s] /\ untold'[s] = untold[s]
                                  /\ (s \in lost') = (s \in lost)
  <2>1. p # q /\ lost' = (lost \ {q}) \cup {p} BY DEF Rename
  <2>2. disk' = [disk EXCEPT ![p] = "none", ![q] = "file"] BY DEF Rename
  <2>3. untold' = [untold EXCEPT ![p] = "removal", ![q] = "edit"] BY DEF Rename
  <2>4. /\ disk'[p] = "none" /\ disk'[q] = "file"
        /\ \A s \in Path \ {p, q} : disk'[s] = disk[s]
    BY <2>1, <2>2 DEF WatcherInv, WatcherTypeOK
  <2>5. /\ untold'[p] = "removal" /\ untold'[q] = "edit"
        /\ \A s \in Path \ {p, q} : untold'[s] = untold[s]
    BY <2>1, <2>3 DEF WatcherInv, WatcherTypeOK
  <2>6. \A s \in Path \ {p, q} : (s \in lost') = (s \in lost) BY <2>1
  <2> QED BY <2>1, <2>4, <2>5, <2>6
<1>5. events \in Seq([path : Path, kind : EventKind]) BY DEF WatcherInv, WatcherTypeOK
<1>6. mid \in Seq([path : Path, kind : EventKind]) BY <1>1, <1>5, NotedType
<1>7. events' = Noted(mid, Event(q, "Modify")) BY DEF Rename
<1>8. /\ Len(events) \in Nat /\ Len(mid) \in Nat
      /\ \A i \in 1..Len(events) : mid[i] = events[i]
      /\ Watched(p) => Len(mid) = Len(events) + 1
      /\ ~Watched(p) => mid = events
      /\ \A i \in 1..Len(mid) : i > Len(events) => mid[i] = Event(p, "Modify")
  <2>1. Len(events) \in Nat BY <1>5, LenProperties
  <2>2. CASE Watched(p)
    <3>1. Gains(events, mid, Event(p, "Modify")) BY <1>1, <1>5, <2>2, NotedGains
    <3> HIDE DEF mid
    <3> QED BY <2>2, <3>1 DEF Gains
  <2>3. CASE ~Watched(p)
    <3>1. mid = events BY <1>1, <1>5, <2>3, NotedGains
    <3> HIDE DEF mid
    <3> QED BY <2>1, <2>3, <3>1
  <2> QED BY <2>2, <2>3
<1> HIDE DEF mid
<1>9. /\ Len(events') \in Nat
      /\ \A i \in 1..Len(mid) : events'[i] = mid[i]
      /\ Watched(q) => /\ Len(events') = Len(mid) + 1
                       /\ events'[Len(mid) + 1] = Event(q, "Modify")
      /\ ~Watched(q) => events' = mid
      /\ \A i \in 1..Len(events') : i > Len(mid) => events'[i] = Event(q, "Modify")
  <2>1. CASE Watched(q)
    <3>1. Gains(mid, events', Event(q, "Modify")) BY <1>1, <1>6, <1>7, <2>1, NotedGains
    <3> QED BY <2>1, <3>1 DEF Gains
  <2>2. CASE ~Watched(q)
    <3>1. events' = mid BY <1>1, <1>6, <1>7, <2>2, NotedGains
    <3> QED BY <1>8, <2>2, <3>1
  <2> QED BY <2>1, <2>2
<1>10. Event(p, "Modify").path = p /\ Event(q, "Modify").path = q BY DEF Event
<1>11. Len(events) <= Len(mid) /\ Len(mid) <= Len(events') BY <1>8, <1>9
<1>12. ASSUME NEW i \in 1..Len(events')
       PROVE  \/ i \in 1..Len(events) /\ events'[i] = events[i]
              \/ events'[i].path = p /\ Watched(p)
              \/ events'[i].path = q /\ Watched(q)
  <2>1. CASE i <= Len(events) BY <1>8, <1>9, <1>11, <2>1
  <2>2. CASE i > Len(events) /\ i <= Len(mid) BY <1>8, <1>9, <1>10, <1>11, <2>2
  <2>3. CASE i > Len(mid) BY <1>8, <1>9, <1>10, <1>11, <2>3
  <2> QED BY <1>8, <2>1, <2>2, <2>3
<1>13. \A s \in Path : Watched(s)' = Watched(s) BY <1>3 DEF Watched, Owners, RestVars
<1>14. CASE r = p
  <2>1. Present(p)' => Watched(p)
    <3>1. Present(p)' => Present(p) \/ Watched(p)
      BY <1>3, <1>4, <1>12 DEF Present, RestVars
    <3> QED BY <1>2, <3>1 DEF PathOK
  <2> QED BY <1>4, <1>13, <1>14, <2>1 DEF PathOK, TruthOK
<1>15. CASE r = q
  <2>1. Watched(q) => Len(events') > Len(events) /\ events'[Len(events')] = Event(q, "Modify")
    BY <1>8, <1>9, <1>11
  <2>2. ~Watched(q) => \A i \in 1..Len(events') : events'[i].path # q
    <3> SUFFICES ASSUME ~Watched(q), NEW i \in 1..Len(events') PROVE events'[i].path # q
      OBVIOUS
    <3>1. \A j \in 1..Len(events) : events[j].path # q BY <1>2 DEF PathOK, Present
    <3> QED BY <1>4, <1>12, <3>1
  <2> QED BY <1>2, <1>3, <1>4, <1>8, <1>9, <1>15, <2>1, <2>2, WrittenOK
<1>16. CASE r # p /\ r # q
  <2>1. \A i \in 1..Len(events) : events'[i] = events[i] BY <1>8, <1>9, <1>11
  <2>2. ASSUME NEW i \in 1..Len(events'), i > Len(events) PROVE events'[i].path # r
    BY <1>8, <1>12, <1>16, <2>2
  <2>3. GrowsAside(r) BY <1>8, <1>9, <1>11, <2>1, <2>2 DEF GrowsAside
  <2> QED BY <1>2, <1>3, <1>4, <1>16, <2>3, AsideStays
<1> QED BY <1>14, <1>15, <1>16

\* Users keep the invariant.
LEMMA UserSteps ==
    ASSUME WatcherInv, User PROVE (LoopOK /\ \A p \in Path : PathOK(p))'
<1>1. CASE \E d \in Folder : AddFolder(d) \/ RemoveFolder(d) BY <1>1, StillSteps
<1>2. CASE \E p \in Path : \/ Write(p) \/ Touch(p) \/ RemoveFile(p)
                           \/ MakeDirectory(p) \/ RemoveDirectory(p)
                           \/ \E q \in Path : Rename(p, q)
  <2>1. \A r \in Path : PathOK(r)'
    BY <1>2, WriteKeeps, TouchKeeps, RemoveKeeps, DirectoryKeeps, RenameKeeps
  <2>2. UNCHANGED <<loopVars, mapVars, outbox>>
    BY <1>2 DEF Write, Touch, RemoveFile, MakeDirectory, RemoveDirectory, Rename
  <2>3. LoopOK' BY <2>2 DEF WatcherInv, LoopOK, loopVars, mapVars
  <2> QED BY <2>1, <2>3
<1> QED BY <1>1, <1>2 DEF User

-----------------------------------------------------------------------------
\* Reload and scan.

\* A folder that becomes watched has all of its paths to scan.
LEMMA ReloadKeeps ==
    ASSUME WatcherInv, NEW new \in SUBSET Folder, ReloadFolders(new), NEW r \in Path
    PROVE  PathOK(r)'
<1>1. PathOK(r) /\ toScan = {} BY DEF WatcherInv, LoopOK, ReloadFolders
<1>2. UNCHANGED <<disk, events, pending, touched, outbox, channel, untold, lost>>
  BY DEF ReloadFolders, worldVars, mapVars
<1>3. watched' = watched \cup new /\ toScan' = {s \in new \X Path : s[2] \in Under[s[1]]}
  BY DEF ReloadFolders
<1>4. Watched(r)' <=> Watched(r) \/ \E d \in new : r \in Under[d]
  BY <1>3 DEF Watched, Owners
<1>5. (\E s \in toScan' : s[2] = r) <=> \E d \in new : r \in Under[d]
  <2>1. ASSUME NEW s \in toScan', s[2] = r PROVE \E d \in new : r \in Under[d]
    BY <1>3, <2>1
  <2>2. ASSUME NEW d \in new, r \in Under[d] PROVE \E s \in toScan' : s[2] = r
    <3>1. <<d, r>> \in toScan' BY <1>3, <2>2
    <3> QED BY <3>1
  <2> QED BY <2>1, <2>2
<1>6. \A n : UploadComes(r, n) => UploadComes(r, n)'
  BY <1>1, <1>2 DEF UploadComes, ModifyComes, Entered
<1>7. Watched(r)' /\ ~Watched(r) => UploadComes(r, 0)' BY <1>4, <1>5 DEF UploadComes
<1>8. Present(r)' => Watched(r)' BY <1>1, <1>2, <1>4, <1>5 DEF Present, PathOK
<1>9. RemovalComes(r)' = RemovalComes(r) BY <1>2 DEF RemovalComes
<1>10. RemovesFollowed(r) => RemovesFollowed(r)'
  BY <1>2, <1>6 DEF RemovesFollowed, ModifyComes, Entered
<1> QED BY <1>1, <1>2, <1>6, <1>7, <1>8, <1>9, <1>10 DEF PathOK, TruthOK

\* The channel gains t, or is left alone.
ChannelGains(t) == UNCHANGED channel \/ Gains(channel, channel', t)

\* A path that the sender of a task is not about stays as it was.
LEMMA SendAside ==
    ASSUME WatcherTypeOK, NEW r \in Path, PathOK(r), NEW t, t.path # r, ChannelGains(t),
           UNCHANGED <<disk, watched, events, pending, touched, untold>>,
           \A u : u.path = r => (u \in outbox' <=> u \in outbox),
           \A s : s[2] = r => (s \in toScan' <=> s \in toScan),
           (r \in lost') = (r \in lost)
    PROVE  PathOK(r)'
<1>1. Len(channel) \in Nat BY LenProperties DEF WatcherTypeOK
<1>2. /\ \A i \in 1..Len(channel) : i \in 1..Len(channel') /\ channel'[i] = channel[i]
      /\ \A i \in 1..Len(channel') : i \in 1..Len(channel) \/ channel'[i].path # r
  BY <1>1 DEF ChannelGains, Gains
<1>3. Watched(r)' = Watched(r) BY DEF Watched, Owners
<1>4. ModifyComes(r)' = ModifyComes(r) /\ Entered(r)' = Entered(r)
  BY DEF ModifyComes, Entered
<1>5. \A n : UploadComes(r, n) => UploadComes(r, n)'
  BY <1>2, <1>4 DEF UploadComes, UploadOf
<1>6. Present(r)' => Present(r) BY <1>2 DEF Present
<1>7. RemovalComes(r) => RemovalComes(r)' BY <1>2 DEF RemovalComes, DeleteOf
<1>8. RemovesFollowed(r) => RemovesFollowed(r)'
  <2> SUFFICES ASSUME RemovesFollowed(r) PROVE RemovesFollowed(r)' OBVIOUS
  <2>1. ASSUME NEW i \in 1..Len(channel'), DeleteOf(channel'[i], r)
        PROVE  UploadComes(r, i)'
    BY <1>2, <1>5, <2>1 DEF RemovesFollowed, DeleteOf
  <2>2. ASSUME NEW u \in outbox', DeleteOf(u, r) PROVE ModifyComes(r) \/ Entered(r)
    BY <2>2 DEF RemovesFollowed, DeleteOf
  <2> QED BY <1>4, <2>1, <2>2 DEF RemovesFollowed
<1> QED BY <1>3, <1>5, <1>6, <1>7, <1>8 DEF PathOK, TruthOK

\* A path whose upload is sent has it behind every task of the channel.
LEMMA UploadSent ==
    ASSUME WatcherTypeOK, NEW r \in Path, PathOK(r), NEW t, UploadOf(t, r),
           Gains(channel, channel', t), Watched(r),
           UNCHANGED <<disk, watched, events, pending, touched, untold>>,
           outbox' \subseteq outbox, \A u \in outbox : DeleteOf(u, r) => u \in outbox',
           (r \in lost') = (r \in lost)
    PROVE  PathOK(r)'
<1>1. /\ Len(channel) \in Nat /\ Len(channel') = Len(channel) + 1
      /\ \A i \in 1..Len(channel) : i \in 1..Len(channel') /\ channel'[i] = channel[i]
      /\ Len(channel') \in 1..Len(channel') /\ channel'[Len(channel')] = t
      /\ \A i \in 1..Len(channel') : i \in 1..Len(channel) \/ channel'[i] = t
  BY DEF Gains
<1>2. \A n \in 0..Len(channel) : UploadComes(r, n)'
  <2> SUFFICES ASSUME NEW n \in 0..Len(channel) PROVE UploadComes(r, n)' OBVIOUS
  <2>1. UploadOf(channel'[Len(channel')], r) BY <1>1
  <2>2. Len(channel') > n BY <1>1
  <2> QED BY <1>1, <2>1, <2>2 DEF UploadComes, UploadOf
<1>3. Watched(r)' = Watched(r) BY DEF Watched, Owners
<1>4. ModifyComes(r)' = ModifyComes(r) /\ Entered(r)' = Entered(r)
  BY DEF ModifyComes, Entered
<1>5. RemovalComes(r) => RemovalComes(r)' BY <1>1 DEF RemovalComes, DeleteOf
<1>6. RemovesFollowed(r) => RemovesFollowed(r)'
  <2> SUFFICES ASSUME RemovesFollowed(r) PROVE RemovesFollowed(r)' OBVIOUS
  <2>1. ASSUME NEW i \in 1..Len(channel'), DeleteOf(channel'[i], r)
        PROVE  UploadComes(r, i)'
    <3>1. i \in 1..Len(channel) BY <1>1, <2>1 DEF DeleteOf, UploadOf
    <3> QED BY <1>1, <1>2, <3>1
  <2> QED BY <1>4, <2>1 DEF RemovesFollowed
<1>7. UploadComes(r, 0)' BY <1>1, <1>2
<1> QED BY <1>3, <1>5, <1>6, <1>7 DEF PathOK, TruthOK

\* The scan visits a path: its upload goes behind everything, unless there is no file.
LEMMA ScanVisitKeeps ==
    ASSUME WatcherInv, NEW s \in toScan, ScanVisit(s), NEW r \in Path PROVE PathOK(r)'
<1>1. WatcherTypeOK /\ PathOK(r) /\ s \in Folder \X Path BY DEF WatcherInv, WatcherTypeOK
<1>2. UNCHANGED <<disk, watched, events, pending, touched, outbox, untold, lost>>
      /\ toScan' = toScan \ {s}
  BY DEF ScanVisit, worldVars, mapVars
<1> DEFINE t == [path |-> s[2], operation |-> Upload(s[1])]
<1>3. t \in Task /\ t.path = s[2] /\ t.operation # "delete"
  BY <1>1 DEF Task, Operation, Upload
<1>4. /\ disk[s[2]] = "file" => Gains(channel, channel', t)
      /\ disk[s[2]] # "file" => UNCHANGED channel
  <2>1. channel \in Seq(Task) BY <1>1 DEF WatcherTypeOK
  <2>2. Gains(channel, Append(channel, t), t) BY <1>3, <2>1, AppendGains
  <2> QED BY <2>2 DEF ScanVisit
<1> HIDE DEF t
<1>5. CASE r # s[2]
  <2>1. ChannelGains(t) BY <1>4 DEF ChannelGains
  <2> QED BY <1>1, <1>2, <1>3, <1>5, <2>1, SendAside
<1>6. CASE r = s[2] /\ disk[r] = "file"
  <2>1. Watched(r) BY <1>1, <1>6 DEF PathOK, Present
  <2>2. UploadOf(t, r) BY <1>3, <1>6 DEF UploadOf
  <2> QED BY <1>1, <1>2, <1>4, <1>6, <2>1, <2>2, UploadSent
<1>7. CASE r = s[2] /\ disk[r] # "file"
  <2>1. UNCHANGED channel BY <1>4, <1>7
  <2>2. Watched(r)' = Watched(r) BY <1>2 DEF Watched, Owners
  <2>3. Present(r)' => Present(r) BY <1>2, <2>1 DEF Present
  <2>4. RemovalComes(r)' = RemovalComes(r) BY <1>2, <2>1 DEF RemovalComes
  <2> QED BY <1>1, <1>2, <1>7, <2>2, <2>3, <2>4 DEF PathOK, TruthOK
<1> QED BY <1>5, <1>6, <1>7

\* What is said of a path that has something lost.
LEMMA LostOK ==
    ASSUME NEW r \in Path, PathOK(r), r \in lost', Present(r)' => Present(r),
           UNCHANGED <<disk, watched, untold>>
    PROVE  PathOK(r)'
<1>1. Watched(r)' = Watched(r) BY DEF Watched, Owners
<1> QED BY <1>1 DEF PathOK, TruthOK

\* The scan leaves a path out: an event of it waits, or it is lost.
LEMMA ScanSkipsKeeps ==
    ASSUME WatcherInv, NEW s \in toScan, ScanSkips(s), NEW r \in Path PROVE PathOK(r)'
<1>1. WatcherTypeOK /\ PathOK(r) /\ s \in Folder \X Path BY DEF WatcherInv, WatcherTypeOK
<1>2. UNCHANGED <<disk, watched, events, pending, touched, outbox, channel, untold>>
      /\ toScan' = toScan \ {s}
  BY DEF ScanSkips, worldVars, mapVars
<1>3. \/ lost' = lost \cup {s[2]}
      \/ UNCHANGED lost /\ ModifyComes(s[2])
  <2>1. DOMAIN events = 1..Len(events) BY <1>1, LenProperties DEF WatcherTypeOK
  <2>2. \/ lost' = lost \cup {s[2]}
        \/ UNCHANGED lost /\ \E i \in DOMAIN events : events[i] = Event(s[2], "Modify")
    BY Zenon DEF ScanSkips
  <2>3. ASSUME NEW i \in DOMAIN events, events[i] = Event(s[2], "Modify")
        PROVE  ModifyComes(s[2])
    <3>1. i \in 1..Len(events) BY <2>1
    <3> QED BY <2>3, <3>1, Zenon DEF ModifyComes
  <2> QED BY <2>2, <2>3
<1>4. CASE r # s[2]
  <2>1. (r \in lost') = (r \in lost) BY <1>3, <1>4
  <2>2. PICK t : t = [path |-> s[2], operation |-> "upload"] OBVIOUS
  <2>3. t.path # r /\ ChannelGains(t) BY <1>2, <1>4, <2>2 DEF ChannelGains
  <2> QED BY <1>1, <1>2, <1>4, <2>1, <2>3, SendAside
<1>5. CASE r = s[2] /\ r \in lost'
  <2>1. Present(r)' => Present(r) BY <1>2 DEF Present
  <2> QED BY <1>1, <1>2, <1>5, <2>1, LostOK
<1>6. CASE r = s[2] /\ UNCHANGED lost /\ ModifyComes(s[2])
  <2>1. ModifyComes(r)' = ModifyComes(r) /\ Entered(r)' = Entered(r)
    BY <1>2 DEF ModifyComes, Entered
  <2>2. \A n : UploadComes(r, n)' BY <1>6, <2>1 DEF UploadComes
  <2>3. Watched(r)' = Watched(r) BY <1>2 DEF Watched, Owners
  <2>4. Present(r)' => Present(r) BY <1>2 DEF Present
  <2>5. RemovalComes(r)' = RemovalComes(r) BY <1>2 DEF RemovalComes
  <2>6. RemovesFollowed(r) => RemovesFollowed(r)'
    BY <1>2, <2>1, <2>2 DEF RemovesFollowed
  <2> QED BY <1>1, <1>2, <1>6, <2>2, <2>3, <2>4, <2>5, <2>6 DEF PathOK, TruthOK
<1> QED BY <1>3, <1>4, <1>5, <1>6

\* try_send of a task of the tick: the channel's last, or lost.
LEMMA SendKeeps ==
    ASSUME WatcherInv, NEW t \in outbox, SendTask(t), NEW r \in Path PROVE PathOK(r)'
<1>1. WatcherTypeOK /\ PathOK(r) /\ t \in Task /\ channel \in Seq(Task)
  BY DEF WatcherInv, WatcherTypeOK
<1>2. UNCHANGED <<disk, watched, events, pending, touched, toScan, untold>>
      /\ outbox' = outbox \ {t}
  BY DEF SendTask, worldVars, mapVars, loopVars
<1>3. \/ Gains(channel, channel', t) /\ UNCHANGED lost
      \/ UNCHANGED channel /\ lost' = lost \cup {t.path}
  <2>1. Gains(channel, Append(channel, t), t) BY <1>1, AppendGains
  <2> QED BY <2>1 DEF SendTask
<1>4. CASE r # t.path
  <2>1. ChannelGains(t) /\ (r \in lost') = (r \in lost) BY <1>3, <1>4 DEF ChannelGains
  <2> QED BY <1>1, <1>2, <1>4, <2>1, SendAside
<1>5. CASE r = t.path /\ UNCHANGED channel /\ lost' = lost \cup {t.path}
  <2>1. Present(r)' => Present(r) BY <1>2, <1>5 DEF Present
  <2> QED BY <1>1, <1>2, <1>5, <2>1, LostOK
<1>6. CASE UploadOf(t, r) /\ Gains(channel, channel', t) /\ UNCHANGED lost
  <2>1. Watched(r) BY <1>1, <1>6 DEF PathOK, Present, UploadOf
  <2>2. \A u \in outbox : DeleteOf(u, r) => u \in outbox'
    BY <1>2, <1>6 DEF DeleteOf, UploadOf
  <2> QED BY <1>1, <1>2, <1>6, <2>1, <2>2, UploadSent
<1>7. CASE DeleteOf(t, r) /\ Gains(channel, channel', t) /\ UNCHANGED lost
  <2>1. /\ Len(channel) \in Nat /\ Len(channel') = Len(channel) + 1
        /\ \A i \in 1..Len(channel) : i \in 1..Len(channel') /\ channel'[i] = channel[i]
        /\ Len(channel') \in 1..Len(channel') /\ channel'[Len(channel')] = t
        /\ \A i \in 1..Len(channel') : i \in 1..Len(channel) \/ channel'[i] = t
    BY <1>7 DEF Gains
  <2>2. Watched(r)' = Watched(r) /\ Watched(r)
    BY <1>1, <1>2, <1>7 DEF Watched, Owners, PathOK, Present, DeleteOf
  <2>3. ModifyComes(r)' = ModifyComes(r) /\ Entered(r)' = Entered(r)
    BY <1>2 DEF ModifyComes, Entered
  <2>4. \A n : UploadComes(r, n) => UploadComes(r, n)'
    BY <1>2, <1>7, <2>1, <2>3 DEF UploadComes, UploadOf, DeleteOf
  <2>5. RemovalComes(r)' BY <1>7, <2>1 DEF RemovalComes
  <2>6. RemovesFollowed(r) => RemovesFollowed(r)'
    <3> SUFFICES ASSUME RemovesFollowed(r) PROVE RemovesFollowed(r)' OBVIOUS
    <3>1. ASSUME NEW i \in 1..Len(channel'), DeleteOf(channel'[i], r)
          PROVE  UploadComes(r, i)'
      <4>1. CASE i \in 1..Len(channel) BY <2>1, <2>4, <3>1, <4>1 DEF RemovesFollowed
      <4>2. CASE channel'[i] = t
        BY <1>7, <2>3 DEF RemovesFollowed, UploadComes
      <4> QED BY <2>1, <4>1, <4>2
    <3> QED BY <1>2, <2>3, <3>1 DEF RemovesFollowed
  <2> QED BY <1>1, <1>2, <1>7, <2>2, <2>4, <2>5, <2>6 DEF PathOK, TruthOK
<1> QED BY <1>3, <1>4, <1>5, <1>6, <1>7 DEF UploadOf, DeleteOf

-----------------------------------------------------------------------------
\* Events and ticks.

\* new is the stream old without its head.
Drops(old, new) ==
    /\ Len(old) \in Nat /\ Len(old) > 0 /\ Len(new) = Len(old) - 1
    /\ \A i \in 1..Len(new) : i + 1 \in 1..Len(old) /\ new[i] = old[i + 1]
    /\ \A i \in 1..Len(old) : i > 1 => i - 1 \in 1..Len(new) /\ new[i - 1] = old[i]
    /\ Head(old) = old[1] /\ 1 \in 1..Len(old)

\* Tail drops the head.
LEMMA TailDrops ==
    ASSUME NEW S, NEW old \in Seq(S), old # <<>> PROVE Drops(old, Tail(old))
<1>1. Len(old) \in Nat /\ Len(old) > 0 BY EmptySeq, LenProperties
<1>2. /\ Len(Tail(old)) = Len(old) - 1 /\ Head(old) = old[1]
      /\ \A i \in 1..Len(Tail(old)) : Tail(old)[i] = old[i + 1]
  BY HeadTailProperties
<1> QED BY <1>1, <1>2 DEF Drops

\* A path that the next event is not about stays as it was.
LEMMA EventAside ==
    ASSUME NEW r \in Path, PathOK(r), Drops(events, events'), Head(events).path # r,
           pending'[r] = pending[r], (r \in touched') = (r \in touched),
           UNCHANGED <<disk, watched, outbox, channel, toScan, untold>>,
           (r \in lost') = (r \in lost)
    PROVE  PathOK(r)'
<1> USE DEF Drops
<1>1. Watched(r)' = Watched(r) BY DEF Watched, Owners
<1>2. \A k : Event(r, k).path = r BY DEF Event
<1>3. \A i \in 1..Len(events) : events[i].path = r => i > 1 BY DEF Drops
<1>4. ModifyComes(r) => ModifyComes(r)' BY <1>2, <1>3 DEF ModifyComes
<1>5. Entered(r)' = Entered(r) BY DEF Entered
<1>6. \A n : UploadComes(r, n) => UploadComes(r, n)' BY <1>4, <1>5 DEF UploadComes
<1>7. Present(r)' => Present(r) BY DEF Present
<1>8. RemovalComes(r) => RemovalComes(r)'
  <2>1. ASSUME NEW i \in 1..Len(events), events[i] = Event(r, "Remove"),
               \A j \in 1..Len(events) : j > i => events[j].path # r
        PROVE  RemovalComes(r)'
    <3>1. i > 1 BY <1>2, <1>3, <2>1
    <3>2. i - 1 \in 1..Len(events') /\ events'[i - 1] = Event(r, "Remove") BY <2>1, <3>1
    <3>3. ASSUME NEW j \in 1..Len(events'), j > i - 1 PROVE events'[j].path # r
      <4>1. j + 1 \in 1..Len(events) /\ j + 1 > i /\ events'[j] = events[j + 1]
        BY <3>3
      <4> QED BY <2>1, <4>1
    <3> QED BY <3>2, <3>3 DEF RemovalComes
  <2>2. ASSUME pending[r] = "Remove", \A j \in 1..Len(events) : events[j].path # r
        PROVE  RemovalComes(r)'
    <3>1. \A j \in 1..Len(events') : events'[j].path # r BY <2>2
    <3> QED BY <2>2, <3>1 DEF RemovalComes
  <2>3. ASSUME \/ \E t \in outbox : DeleteOf(t, r)
               \/ \E i \in 1..Len(channel) : DeleteOf(channel[i], r)
        PROVE  RemovalComes(r)'
    BY <2>3 DEF RemovalComes, DeleteOf
  <2> QED BY <2>1, <2>2, <2>3 DEF RemovalComes
<1>9. RemovesFollowed(r) => RemovesFollowed(r)'
  <2> SUFFICES ASSUME RemovesFollowed(r) PROVE RemovesFollowed(r)' OBVIOUS
  <2>1. ASSUME NEW i \in 1..Len(events'), events'[i] = Event(r, "Remove")
        PROVE  \E j \in 1..Len(events') : j > i /\ events'[j] = Event(r, "Modify")
    <3>1. i + 1 \in 1..Len(events) /\ events[i + 1] = Event(r, "Remove") BY <2>1
    <3>2. PICK j \in 1..Len(events) : j > i + 1 /\ events[j] = Event(r, "Modify")
      BY <3>1 DEF RemovesFollowed
    <3>3. j - 1 \in 1..Len(events') /\ events'[j - 1] = Event(r, "Modify") /\ j - 1 > i
      BY <3>2
    <3> QED BY <3>3
  <2> QED BY <1>4, <1>5, <1>6, <2>1 DEF RemovesFollowed
<1> QED BY <1>1, <1>6, <1>7, <1>8, <1>9 DEF PathOK, TruthOK

\* The entry of a path becomes the kind of its next event.
LEMMA EventOwn ==
    ASSUME NEW r \in Path, PathOK(r), Drops(events, events'),
           NEW k \in EventKind, Head(events) = Event(r, k),
           pending'[r] = k, k \in Interesting \/ r \in touched => r \in touched',
           outbox = {}, UNCHANGED <<disk, watched, outbox, channel, toScan, untold, lost>>
    PROVE  PathOK(r)'
<1> USE DEF Drops
<1>1. Watched(r)' = Watched(r) BY DEF Watched, Owners
<1>2. events[1] = Event(r, k) /\ events[1].path = r BY DEF Event
<1>3. Watched(r) BY <1>2 DEF PathOK, Present
<1>4. \A a, b \in EventKind : Event(r, a) = Event(r, b) => a = b BY DEF Event
<1>5. "Modify" \in EventKind /\ "Remove" \in EventKind BY DEF EventKind
<1>6. ModifyComes(r) => ModifyComes(r)' \/ k = "Modify"
  BY <1>2, <1>4, <1>5 DEF ModifyComes
<1>7. k = "Modify" => Entered(r)' BY DEF Entered, Interesting
<1>8. Entered(r) => Entered(r)' \/ k = "Remove" BY <1>7 DEF Entered, EventKind
<1>9. RemovesFollowed(r) /\ k = "Remove" => ModifyComes(r)'
  <2> SUFFICES ASSUME RemovesFollowed(r), k = "Remove" PROVE ModifyComes(r)' OBVIOUS
  <2>1. PICK j \in 1..Len(events) : j > 1 /\ events[j] = Event(r, "Modify")
    BY <1>2 DEF RemovesFollowed
  <2>2. j - 1 \in 1..Len(events') /\ events'[j - 1] = Event(r, "Modify") BY <2>1
  <2> QED BY <2>2 DEF ModifyComes
<1>10. RemovesFollowed(r) /\ (ModifyComes(r) \/ Entered(r)) => (ModifyComes(r) \/ Entered(r))'
  BY <1>6, <1>7, <1>8, <1>9
<1>11. RemovesFollowed(r) => \A n : UploadComes(r, n) => UploadComes(r, n)'
  BY <1>10 DEF UploadComes
<1>12. RemovalComes(r) => RemovalComes(r)'
  <2>1. ASSUME NEW i \in 1..Len(events), events[i] = Event(r, "Remove"),
               \A j \in 1..Len(events) : j > i => events[j].path # r
        PROVE  RemovalComes(r)'
    <3>1. CASE i > 1
      <4>1. i - 1 \in 1..Len(events') /\ events'[i - 1] = Event(r, "Remove") BY <2>1, <3>1
      <4>2. ASSUME NEW j \in 1..Len(events'), j > i - 1 PROVE events'[j].path # r
        <5>1. j + 1 \in 1..Len(events) /\ j + 1 > i /\ events'[j] = events[j + 1]
          BY <4>2
        <5> QED BY <2>1, <5>1
      <4> QED BY <4>1, <4>2 DEF RemovalComes
    <3>2. CASE i = 1
      <4>1. k = "Remove" BY <1>2, <1>4, <1>5, <2>1, <3>2
      <4>2. \A j \in 1..Len(events') : events'[j].path # r BY <2>1, <3>2
      <4> QED BY <4>1, <4>2 DEF RemovalComes
    <3> QED BY <3>1, <3>2
  <2>2. ASSUME \/ \E t \in outbox : DeleteOf(t, r)
               \/ \E i \in 1..Len(channel) : DeleteOf(channel[i], r)
        PROVE  RemovalComes(r)'
    BY <2>2 DEF RemovalComes, DeleteOf
  <2> QED BY <1>2, <2>1, <2>2 DEF RemovalComes
<1>13. RemovesFollowed(r) => RemovesFollowed(r)'
  <2> SUFFICES ASSUME RemovesFollowed(r) PROVE RemovesFollowed(r)' OBVIOUS
  <2>1. ASSUME NEW i \in 1..Len(events'), events'[i] = Event(r, "Remove")
        PROVE  \E j \in 1..Len(events') : j > i /\ events'[j] = Event(r, "Modify")
    <3>1. i + 1 \in 1..Len(events) /\ events[i + 1] = Event(r, "Remove") BY <2>1
    <3>2. PICK j \in 1..Len(events) : j > i + 1 /\ events[j] = Event(r, "Modify")
      BY <3>1 DEF RemovesFollowed
    <3>3. j - 1 \in 1..Len(events') /\ events'[j - 1] = Event(r, "Modify") /\ j - 1 > i
      BY <3>2
    <3> QED BY <3>3
  <2> QED BY <1>9, <1>11, <2>1 DEF RemovesFollowed
<1> QED BY <1>1, <1>3, <1>11, <1>12, <1>13 DEF PathOK, TruthOK

\* An event enters the map, or an error takes its place.
LEMMA EventKeeps ==
    ASSUME WatcherInv, HandleEvent \/ HandleError, NEW r \in Path PROVE PathOK(r)'
<1>1. PathOK(r) /\ events \in Seq([path : Path, kind : EventKind]) /\ outbox = {}
  BY DEF WatcherInv, WatcherTypeOK, LoopOK, HandleEvent, HandleError
<1>2. Drops(events, events')
  <2>1. events # <<>> /\ events' = Tail(events) BY DEF HandleEvent, HandleError
  <2> QED BY <1>1, <2>1, TailDrops
<1>3. UNCHANGED <<disk, watched, outbox, channel, toScan, untold>>
  BY DEF HandleEvent, HandleError, worldVars, loopVars
<1>4. PICK e \in [path : Path, kind : EventKind] : e = Head(events)
  BY <1>1, HeadTailType DEF HandleEvent, HandleError
<1>5. pending \in [Path -> EventKind \cup {"none"}] BY DEF WatcherInv, WatcherTypeOK
<1>6. CASE HandleEvent
  <2>1. /\ pending' = [pending EXCEPT ![e.path] = e.kind]
        /\ touched' = IF e.kind \in Interesting THEN touched \cup {e.path} ELSE touched
        /\ lost' = lost
    BY <1>4, <1>6 DEF HandleEvent
  <2>2. CASE e.path # r
    <3>1. pending'[r] = pending[r] /\ (r \in touched') = (r \in touched)
      BY <1>5, <2>1, <2>2
    <3> QED BY <1>1, <1>2, <1>3, <1>4, <2>1, <2>2, <3>1, EventAside
  <2>3. CASE e.path = r
    <3>1. e.kind \in EventKind /\ Head(events) = Event(r, e.kind) BY <1>4, <2>3 DEF Event
    <3>2. pending'[r] = e.kind /\ (e.kind \in Interesting \/ r \in touched => r \in touched')
      BY <1>5, <2>1, <2>3
    <3> QED BY <1>1, <1>2, <1>3, <2>1, <3>1, <3>2, EventOwn
  <2> QED BY <2>2, <2>3
<1>7. CASE HandleError
  <2>1. UNCHANGED <<pending, touched>> /\ lost' = lost \cup {e.path}
    BY <1>4, <1>7 DEF HandleError, mapVars
  <2>2. CASE e.path # r
    BY <1>1, <1>2, <1>3, <1>4, <2>1, <2>2, EventAside
  <2>3. CASE e.path = r
    <3>1. Present(r)' => Present(r) BY <1>2, <1>3, <2>1 DEF Present, Drops
    <3> QED BY <1>1, <1>3, <2>1, <2>3, <3>1, LostOK
  <2> QED BY <2>2, <2>3
<1> QED BY <1>6, <1>7

\* What the tick makes of the entries of the map.
LEMMA TickTasks ==
    ASSUME WatcherInv, Tick, NEW r \in Path, NEW t
    PROVE  t \in outbox' /\ t.path = r <=> r \in due /\ t \in EventToTask(r, pending[r])
<1>1. outbox' = UNION {EventToTask(p, pending[p]) : p \in due} BY DEF Tick, Ripe
<1>2. \A p, k, u : u \in EventToTask(p, k) => u.path = p BY DEF EventToTask
<1>3. due \subseteq Path BY DEF WatcherInv, WatcherTypeOK
<1>4. ASSUME t \in outbox', t.path = r PROVE r \in due /\ t \in EventToTask(r, pending[r])
  <2>1. PICK p \in due : t \in EventToTask(p, pending[p]) BY <1>1, <1>4
  <2>2. p = r BY <1>2, <1>4, <2>1
  <2> QED BY <2>1, <2>2
<1>5. ASSUME r \in due, t \in EventToTask(r, pending[r]) PROVE t \in outbox' /\ t.path = r
  BY <1>1, <1>2, <1>5
<1> QED BY <1>4, <1>5

\* The tick: an entry that is due becomes a task, or was to be ignored, or is lost.
LEMMA TickKeeps ==
    ASSUME WatcherInv, Tick, NEW r \in Path PROVE PathOK(r)'
<1>1. /\ PathOK(r) /\ outbox = {} /\ pending[r] \in EventKind \cup {"none"}
      /\ pending[r] \in Interesting => r \in touched
      /\ r \in due => pending[r] # "none"
  BY DEF WatcherInv, WatcherTypeOK, LoopOK, Tick
<1>2. UNCHANGED <<disk, watched, events, channel, toScan, untold>>
  BY DEF Tick, worldVars
<1>3. /\ pending'[r] = IF r \in due THEN "none" ELSE pending[r]
      /\ r \in touched' <=> r \in touched /\ r \notin due
      /\ r \in lost' <=> \/ r \in lost
                         \/ r \in touched /\ r \in due /\ EventToTask(r, pending[r]) = {}
  <2>1. pending' = [p \in Path |-> IF p \in due THEN "none" ELSE pending[p]]
        /\ touched' = touched \ due
        /\ lost' = lost \cup {p \in touched \cap due : EventToTask(p, pending[p]) = {}}
    BY DEF Tick, Ripe
  <2>2. r \in lost' <=> \/ r \in lost
                        \/ r \in touched /\ r \in due /\ EventToTask(r, pending[r]) = {}
    BY <2>1
  <2> QED BY <2>1, <2>2
<1>4. Watched(r)' = Watched(r) /\ ModifyComes(r)' = ModifyComes(r)
  BY <1>2 DEF Watched, Owners, ModifyComes
<1>5. CASE r \notin due
  <2>1. \A t : t \in outbox' => t.path # r BY <1>5, TickTasks
  <2>2. Entered(r)' = Entered(r) BY <1>3, <1>5 DEF Entered
  <2>3. \A n : UploadComes(r, n) => UploadComes(r, n)'
    BY <1>1, <1>2, <1>4, <2>2 DEF UploadComes
  <2>4. RemovalComes(r) => RemovalComes(r)'
    BY <1>1, <1>2, <1>3, <1>5 DEF RemovalComes
  <2>5. Present(r)' => Present(r) BY <1>2, <1>3, <1>5, <2>1 DEF Present
  <2>6. RemovesFollowed(r) => RemovesFollowed(r)'
    BY <1>2, <1>3, <1>4, <1>5, <2>1, <2>3 DEF RemovesFollowed, DeleteOf
  <2> QED BY <1>1, <1>2, <1>3, <1>4, <1>5, <2>3, <2>4, <2>5, <2>6 DEF PathOK, TruthOK
<1>6. CASE r \in due
  <2>1. Watched(r) /\ pending'[r] = "none" BY <1>1, <1>3, <1>6 DEF PathOK, Present
  <2>2. CASE EventToTask(r, pending[r]) = {}
    <3>1. CASE r \in touched
      <4>1. r \in lost' /\ Present(r) BY <1>1, <1>3, <1>6, <2>2, <3>1 DEF Present
      <4> QED BY <1>1, <1>2, <4>1, LostOK
    <3>2. CASE r \notin touched
      <4>1. pending[r] = "Ignored" /\ ~Entered(r)
        BY <1>1, <1>6, <3>2 DEF EventKind, Interesting, Entered
      <4>2. \A t : t \in outbox' => t.path # r BY <2>2, TickTasks
      <4>3. \A n : UploadComes(r, n) => UploadComes(r, n)'
        BY <1>1, <1>2, <1>4, <4>1 DEF UploadComes
      <4>4. RemovalComes(r) => RemovalComes(r)' BY <1>1, <1>2, <4>1 DEF RemovalComes
      <4>5. RemovesFollowed(r) => RemovesFollowed(r)'
        BY <1>2, <1>4, <2>1, <4>2, <4>3 DEF RemovesFollowed, DeleteOf
      <4> QED BY <1>1, <1>2, <1>3, <1>4, <2>1, <3>2, <4>3, <4>4, <4>5 DEF PathOK, TruthOK
    <3> QED BY <3>1, <3>2
  <2>3. CASE EventToTask(r, pending[r]) # {}
    <3>1. r \in lost' <=> r \in lost BY <1>3, <2>3
    <3>2. PICK t : /\ EventToTask(r, pending[r]) = {t} /\ pending[r] \in Interesting
                   /\ t.operation = "delete" <=> pending[r] = "Remove"
      BY <2>3 DEF EventToTask, Upload
    <3>3. t \in outbox' /\ t.path = r /\ \A u \in outbox' : u.path = r => u = t
      BY <1>6, <3>2, TickTasks
    <3>4. CASE pending[r] = "Remove"
      <4>1. DeleteOf(t, r) /\ ~Entered(r) BY <3>2, <3>3, <3>4 DEF DeleteOf, Entered
      <4>2. RemovalComes(r)' BY <3>3, <4>1 DEF RemovalComes
      <4>3. \A n : UploadComes(r, n) => UploadComes(r, n)'
        BY <1>1, <1>2, <1>4, <4>1 DEF UploadComes
      <4>4. RemovesFollowed(r) => RemovesFollowed(r)'
        BY <1>2, <1>4, <2>1, <3>4, <4>3 DEF RemovesFollowed
      <4> QED BY <1>1, <1>2, <1>4, <2>1, <3>1, <4>2, <4>3, <4>4 DEF PathOK, TruthOK
    <3>5. CASE pending[r] # "Remove"
      <4>1. UploadOf(t, r) BY <3>2, <3>3, <3>5 DEF UploadOf
      <4>2. \A n : UploadComes(r, n)' BY <3>3, <4>1 DEF UploadComes
      <4>3. RemovalComes(r) => RemovalComes(r)' BY <1>1, <1>2, <3>5 DEF RemovalComes
      <4>4. ASSUME NEW u \in outbox' PROVE ~DeleteOf(u, r)
        BY <3>3, <4>1 DEF DeleteOf, UploadOf
      <4>5. RemovesFollowed(r) => RemovesFollowed(r)'
        BY <1>2, <1>4, <2>1, <4>2, <4>4 DEF RemovesFollowed
      <4> QED BY <1>1, <1>2, <1>4, <2>1, <3>1, <4>2, <4>3, <4>5 DEF PathOK, TruthOK
    <3> QED BY <3>4, <3>5
  <2> QED BY <2>2, <2>3
<1> QED BY <1>5, <1>6

-----------------------------------------------------------------------------
\* The engine and the restart.

\* The channel without its head: what was behind it is one place nearer.
LEMMA ChannelDrops ==
    ASSUME NEW r \in Path, Drops(channel, channel'),
           UNCHANGED <<events, pending, touched, outbox, toScan>>
    PROVE  /\ \A n \in Nat : UploadComes(r, n + 1) => UploadComes(r, n)'
           /\ RemovesFollowed(r) => RemovesFollowed(r)'
           /\ Present(r)' => Present(r)
           /\ RemovalComes(r) => RemovalComes(r)' \/ DeleteOf(Head(channel), r)
           /\ UploadComes(r, 0) => UploadComes(r, 0)' \/ UploadOf(Head(channel), r)
<1> USE DEF Drops
<1>1. ModifyComes(r)' = ModifyComes(r) /\ Entered(r)' = Entered(r)
  BY DEF ModifyComes, Entered
<1>2. ASSUME NEW n \in Nat, UploadComes(r, n + 1) PROVE UploadComes(r, n)'
  <2>1. ASSUME NEW i \in 1..Len(channel), i > n + 1, UploadOf(channel[i], r)
        PROVE  UploadComes(r, n)'
    <3>1. i - 1 \in 1..Len(channel') /\ channel'[i - 1] = channel[i] /\ i - 1 > n BY <2>1
    <3>2. UploadOf(channel'[i - 1], r) BY <2>1, <3>1
    <3> QED BY <3>1, <3>2 DEF UploadComes, UploadOf
  <2> QED BY <1>1, <1>2, <2>1 DEF UploadComes
<1>3. RemovesFollowed(r) => RemovesFollowed(r)'
  <2> SUFFICES ASSUME RemovesFollowed(r) PROVE RemovesFollowed(r)' OBVIOUS
  <2>1. ASSUME NEW i \in 1..Len(channel'), DeleteOf(channel'[i], r)
        PROVE  UploadComes(r, i)'
    <3>1. i + 1 \in 1..Len(channel) /\ DeleteOf(channel[i + 1], r) /\ i \in Nat BY <2>1
    <3> QED BY <1>2, <3>1 DEF RemovesFollowed
  <2> QED BY <1>1, <2>1 DEF RemovesFollowed
<1>4. Present(r)' => Present(r) BY DEF Present
<1>5. RemovalComes(r) => RemovalComes(r)' \/ DeleteOf(Head(channel), r)
  <2>1. ASSUME NEW i \in 1..Len(channel), DeleteOf(channel[i], r), i > 1
        PROVE  RemovalComes(r)'
    <3>1. i - 1 \in 1..Len(channel') /\ channel'[i - 1] = channel[i] BY <2>1
    <3>2. DeleteOf(channel'[i - 1], r) BY <2>1, <3>1
    <3> QED BY <3>1, <3>2 DEF RemovalComes, DeleteOf
  <2>2. \A i \in 1..Len(channel) : i > 1 \/ i = 1 OBVIOUS
  <2> QED BY <2>1, <2>2 DEF RemovalComes
<1>6. UploadComes(r, 0) => UploadComes(r, 0)' \/ UploadOf(Head(channel), r)
  <2>1. ASSUME NEW i \in 1..Len(channel), UploadOf(channel[i], r), i > 1
        PROVE  UploadComes(r, 0)'
    <3>1. i - 1 \in 1..Len(channel') /\ channel'[i - 1] = channel[i] /\ i - 1 > 0 BY <2>1
    <3>2. UploadOf(channel'[i - 1], r) BY <2>1, <3>1
    <3> QED BY <3>1, <3>2 DEF UploadComes, UploadOf
  <2>2. \A i \in 1..Len(channel) : i > 1 \/ i = 1 OBVIOUS
  <2> QED BY <1>1, <2>1, <2>2 DEF UploadComes
<1> QED BY <1>2, <1>3, <1>4, <1>5, <1>6

\* The engine takes a task: what is untold afterwards is still on its way.
LEMMA EngineKeeps ==
    ASSUME WatcherInv, Engine, NEW r \in Path PROVE PathOK(r)'
<1>1. PathOK(r) /\ channel \in Seq(Task) /\ untold \in [Path -> {"nothing", "edit", "removal"}]
  BY DEF WatcherInv, WatcherTypeOK
<1>2. Drops(channel, channel')
  <2>1. channel # <<>> /\ channel' = Tail(channel)
    BY DEF Engine, EngineReceives, EngineDrops
  <2> QED BY <1>1, <2>1, TailDrops
<1>3. UNCHANGED <<disk, watched, events, pending, touched, outbox, toScan>>
  BY DEF Engine, EngineReceives, EngineDrops, worldVars, loopVars, mapVars
<1>4. PICK t \in Task : t = Head(channel)
  BY <1>1, HeadTailType DEF Engine, EngineReceives, EngineDrops
<1>5. Watched(r)' = Watched(r) BY <1>3 DEF Watched, Owners
<1>6. /\ \A n \in Nat : UploadComes(r, n + 1) => UploadComes(r, n)'
      /\ RemovesFollowed(r) => RemovesFollowed(r)'
      /\ Present(r)' => Present(r)
      /\ RemovalComes(r) => RemovalComes(r)' \/ DeleteOf(t, r)
      /\ UploadComes(r, 0) => UploadComes(r, 0)' \/ UploadOf(t, r)
  BY <1>2, <1>3, <1>4, ChannelDrops
<1>7. CASE t.path # r
  <2>1. untold'[r] = untold[r] /\ (r \in lost') = (r \in lost)
    BY <1>1, <1>4, <1>7 DEF Engine, EngineReceives, EngineDrops
  <2> QED BY <1>1, <1>3, <1>5, <1>6, <1>7, <2>1 DEF PathOK, TruthOK, UploadOf, DeleteOf
<1>8. CASE t.path = r /\ EngineDrops
  <2>1. r \in lost' /\ UNCHANGED untold BY <1>4, <1>8 DEF EngineDrops
  <2> QED BY <1>1, <1>3, <1>6, <2>1, LostOK
<1>9. CASE t.path = r /\ EngineReceives
  <2>1. untold'[r] = Truth(r, t.operation) /\ UNCHANGED lost
    BY <1>1, <1>4, <1>9 DEF EngineReceives
  <2>2. DeleteOf(t, r) /\ r \notin lost /\ disk[r] = "file" => UploadComes(r, 0)'
    <3> SUFFICES ASSUME DeleteOf(t, r), r \notin lost, disk[r] = "file"
                 PROVE  UploadComes(r, 0)'
      OBVIOUS
    <3>1. UploadComes(r, 1) BY <1>1, <1>2, <1>4 DEF PathOK, RemovesFollowed, Drops
    <3>2. UploadComes(r, 0 + 1) BY <3>1
    <3> QED BY <1>6, <3>2
  <2>3. CASE t.operation = "delete"
    <3>1. untold'[r] = IF disk[r] = "file" THEN "edit" ELSE "nothing"
      BY <2>1, <2>3 DEF Truth
    <3>2. DeleteOf(t, r) BY <1>9, <2>3 DEF DeleteOf
    <3> QED BY <1>1, <1>3, <1>5, <1>6, <2>1, <2>2, <3>1, <3>2 DEF PathOK, TruthOK
  <2>4. CASE t.operation # "delete"
    <3>1. untold'[r] = IF disk[r] = "file" THEN "nothing" ELSE untold[r]
      BY <2>1, <2>4 DEF Truth
    <3>2. ~DeleteOf(t, r) BY <2>4 DEF DeleteOf
    <3> QED BY <1>1, <1>3, <1>5, <1>6, <2>1, <3>1, <3>2 DEF PathOK, TruthOK
  <2> QED BY <2>3, <2>4
<1> QED BY <1>7, <1>8, <1>9 DEF Engine

\* After a restart nothing is on its way and nobody watches.
LEMMA RestartKeeps ==
    ASSUME WatcherInv, Restart, NEW r \in Path PROVE PathOK(r)'
<1>1. PathOK(r) BY DEF WatcherInv
<1>2. /\ watched' = {} /\ events' = <<>> /\ pending'[r] = "none"
      /\ toScan' = {} /\ outbox' = {} /\ channel' = <<>>
      /\ untold[r] = "removal" => r \in lost'
      /\ UNCHANGED <<disk, untold>>
  BY DEF Restart
<1>3. 1..Len(events') = {} /\ 1..Len(channel') = {} BY <1>2
<1>4. ~Watched(r)' /\ ~Present(r)' BY <1>2, <1>3 DEF Watched, Owners, Present
<1>5. RemovesFollowed(r)' BY <1>2, <1>3 DEF RemovesFollowed
<1> QED BY <1>1, <1>2, <1>4, <1>5 DEF PathOK, TruthOK

-----------------------------------------------------------------------------
\* The steps that are not the user's keep what is said of the loop.
LEMMA LoopKeeps ==
    ASSUME WatcherInv,
           \/ \E new \in SUBSET Folder : ReloadFolders(new)
           \/ \E s \in toScan : ScanVisit(s) \/ ScanSkips(s)
           \/ \E t \in outbox : SendTask(t)
           \/ HandleEvent \/ HandleError \/ Tick \/ Engine \/ Restart
    PROVE  LoopOK'
<1> USE DEF WatcherInv, LoopOK, worldVars, loopVars, mapVars
<1>1. CASE \E new \in SUBSET Folder : ReloadFolders(new) BY <1>1 DEF ReloadFolders
<1>2. CASE \E s \in toScan : ScanVisit(s) \/ ScanSkips(s) BY <1>2 DEF ScanVisit, ScanSkips
<1>3. CASE \E t \in outbox : SendTask(t) BY <1>3 DEF SendTask
<1>4. CASE HandleEvent
  <2>1. PICK e \in [path : Path, kind : EventKind] :
           /\ pending' = [pending EXCEPT ![e.path] = e.kind]
           /\ touched' = IF e.kind \in Interesting THEN touched \cup {e.path} ELSE touched
    BY <1>4, HeadTailType DEF HandleEvent, WatcherTypeOK
  <2>2. pending \in [Path -> EventKind \cup {"none"}] /\ e.kind # "none" /\ due \subseteq Path
    BY <2>1 DEF EventKind, WatcherTypeOK
  <2>3. \A p \in Path : pending'[p] \in Interesting => p \in touched' BY <2>1, <2>2
  <2>4. \A p \in due : pending'[p] # "none" BY <2>1, <2>2
  <2> QED BY <1>4, <2>3, <2>4 DEF HandleEvent
<1>5. CASE HandleError BY <1>5 DEF HandleError
<1>6. CASE Tick BY <1>6 DEF Tick, Ripe, Interesting
<1>7. CASE Engine BY <1>7 DEF Engine, EngineReceives, EngineDrops
<1>8. CASE Restart BY <1>8 DEF Restart, Interesting
<1> QED BY <1>1, <1>2, <1>3, <1>4, <1>5, <1>6, <1>7, <1>8

\* It holds when the daemon starts.
LEMMA InitWatcherInv == WatcherInit => WatcherInv
<1> SUFFICES ASSUME WatcherInit PROVE WatcherInv OBVIOUS
<1>1. WatcherTypeOK BY InitType
<1>2. LoopOK BY DEF WatcherInit, LoopOK, Interesting
<1>3. ASSUME NEW r \in Path PROVE PathOK(r)
  <2>1. /\ watched = {} /\ events = <<>> /\ pending[r] = "none"
        /\ toScan = {} /\ outbox = {} /\ channel = <<>>
        /\ untold[r] = IF disk[r] = "file" THEN "edit" ELSE "nothing"
    BY DEF WatcherInit
  <2>2. 1..Len(events) = {} /\ 1..Len(channel) = {} BY <2>1
  <2>3. ~Watched(r) /\ ~Present(r) BY <2>1, <2>2 DEF Watched, Owners, Present
  <2>4. RemovesFollowed(r) BY <2>1, <2>2 DEF RemovesFollowed
  <2> QED BY <2>1, <2>3, <2>4 DEF PathOK, TruthOK
<1> QED BY <1>1, <1>2, <1>3 DEF WatcherInv

\* Every step keeps it.
LEMMA NextWatcherInv == WatcherInv /\ [WatcherNext]_watcherVars => WatcherInv'
<1> SUFFICES ASSUME WatcherInv, [WatcherNext]_watcherVars PROVE WatcherInv' OBVIOUS
<1>1. WatcherTypeOK' BY NextType DEF WatcherInv
<1>2. CASE UNCHANGED watcherVars
  <2>1. UNCHANGED StillVars /\ UNCHANGED <<at, due>>
    BY <1>2 DEF watcherVars, StillVars, worldVars, loopVars, mapVars
  <2>2. \A p \in Path : PathOK(p)' BY <2>1, StillPaths DEF WatcherInv
  <2>3. LoopOK' BY <2>1 DEF WatcherInv, LoopOK, StillVars
  <2> QED BY <1>1, <2>2, <2>3 DEF WatcherInv
<1>3. CASE \/ SignalReload \/ ReceiveReload \/ ScanDone \/ FlushDone \/ Time
  BY <1>1, <1>3, StillSteps DEF WatcherInv, Time
<1>4. CASE User
  BY <1>1, <1>4, UserSteps DEF WatcherInv
<1>5. CASE \/ \E new \in SUBSET Folder : ReloadFolders(new)
           \/ \E s \in toScan : ScanVisit(s) \/ ScanSkips(s)
           \/ \E t \in outbox : SendTask(t)
           \/ HandleEvent \/ HandleError \/ Tick \/ Engine \/ Restart
  <2>1. LoopOK' BY <1>5, LoopKeeps
  <2>2. \A r \in Path : PathOK(r)'
    BY <1>5, ReloadKeeps, ScanVisitKeeps, ScanSkipsKeeps, SendKeeps, EventKeeps, TickKeeps,
       EngineKeeps, RestartKeeps
  <2> QED BY <1>1, <2>1, <2>2 DEF WatcherInv
<1> QED BY <1>2, <1>3, <1>4, <1>5 DEF WatcherNext, Loop

\* Whatever the engine has not been told of a watched path is still on its way to
\* it, behind everything that contradicts it, or counted as lost: in the stream,
\* the debounce map, the tick's tasks, the channel or the scan.
THEOREM WatcherInvariant == WatcherSpec => []WatcherInv
BY InitWatcherInv, NextWatcherInv, PTL DEF WatcherSpec

\* When nothing about a watched path is on its way any more, the last task the
\* engine got agrees with the disk, or the change is one the code is known to
\* lose: for any folders, overlapping ones too, any paths and any capacity.
THEOREM EditsAreRemembered == WatcherSpec => []NoEditForgotten
<1>1. WatcherInv => NoEditForgotten
  <2> SUFFICES ASSUME WatcherInv, NEW p \in Path, Watched(p), Quiet(p), p \notin lost
               PROVE  untold[p] = "nothing"
    BY DEF NoEditForgotten
  <2>1. /\ DOMAIN events = 1..Len(events) /\ DOMAIN channel = 1..Len(channel)
        /\ untold[p] \in {"nothing", "edit", "removal"}
    BY LenProperties DEF WatcherInv, WatcherTypeOK
  <2>2. ~Present(p) BY <2>1 DEF Quiet, Present
  <2>3. ~UploadComes(p, 0)
    BY <2>2 DEF Present, UploadComes, UploadOf, ModifyComes, Entered, Event
  <2>4. ~RemovalComes(p) BY <2>2 DEF Present, RemovalComes, DeleteOf, Event
  <2> QED BY <2>1, <2>3, <2>4 DEF WatcherInv, PathOK
<1>2. QED
  BY <1>1, WatcherInvariant, PTL

=============================================================================
