------------------------------ MODULE Watcher ------------------------------
(***************************************************************************)
(* The local filesystem watcher (watcher/mod.rs): notify's event stream,   *)
(* the debounce map, the tick that turns entries into tasks, the bounded   *)
(* channel to the sync engine, the reload of the sync folders and the scan *)
(* of a folder that is new.                                                *)
(*                                                                         *)
(* The user changes files, and the IPC handlers change sync_folders, at    *)
(* any time.  Time is abstract: an entry of the debounce map becomes due   *)
(* DEBOUNCE_MS after its first event, whenever that is.                    *)
(***************************************************************************)
EXTENDS Integers, Sequences

CONSTANTS Path,             \* paths of files below the sync folders
          Folder,           \* directories that may become sync folders
          Photos,           \* the ones of type photos
          Under,            \* Under[d]: the paths below folder d
          Length,           \* Length[d]: the length of d's own path
          CHANNEL,          \* slots of the channel to the engine
          RELOAD_CAPACITY,  \* slots of the reload channel
          MaxOps,           \* bound: what users do, to files and to folders
          MaxFaults         \* bound: restarts, errors of notify, of a walk, of a watch

ASSUME WatcherAssumption ==
    /\ Photos \subseteq Folder
    /\ Under \in [Folder -> SUBSET Path]
    /\ Length \in [Folder -> Nat]
    /\ \A d, e \in Folder : d # e /\ Under[d] \cap Under[e] # {} => Length[d] # Length[e]
    /\ CHANNEL \in Nat \ {0} /\ RELOAD_CAPACITY \in Nat \ {0}
    /\ MaxOps \in Nat /\ MaxFaults \in Nat

VARIABLES
    (* the disk and the database *)
    disk,       \* what is at a path
    enabled,    \* enabled rows of sync_folders
    unsent,     \* folder handlers between their statement and their signal
    (* the watcher *)
    reload,     \* signals in the reload channel
    watched,    \* keys of folder_map
    events,     \* notify's events, from the OS to the end of the bridge
    pending,    \* the debounce map: the kind of the entry of a path, or "none"
    due,        \* paths whose entry is at least DEBOUNCE_MS old
    at,         \* where the loop is
    toScan,     \* <<folder, path>> the scan has still to visit
    outbox,     \* tasks of the current tick that are not sent yet
    channel,    \* the channel to the engine
    (* history *)
    untold,     \* what the engine has not been told of a path
    lost,       \* paths of which a change was lost in a way the code knows
    touched,    \* paths with an event in the map that stands for a task
    failed,     \* folders that could not be watched
    ops, faults

worldVars == <<disk, enabled, unsent>>
mapVars == <<pending, due, touched>>
loopVars == <<reload, watched, at, toScan, failed>>
watcherVars == <<worldVars, loopVars, events, mapVars, outbox, channel, untold, lost,
                 ops, faults>>

\* "Modify" stands for Create and for Modify with data, a name or any other part
\* but metadata, "Remove" for the removal of anything but a folder, "Ignored"
\* for metadata, access, the removal of a folder and the rest.
EventKind == {"Modify", "Remove", "Ignored"}
Operation == {"upload", "photos_backup", "delete"}
Task == [path : Path, operation : Operation]

WatcherTypeOK ==
    /\ disk \in [Path -> {"none", "file", "dir"}]
    /\ enabled \in SUBSET Folder /\ unsent \in 0..ops
    /\ reload \in 0..RELOAD_CAPACITY
    /\ watched \in SUBSET Folder
    /\ events \in Seq([path : Path, kind : EventKind])
    /\ pending \in [Path -> EventKind \cup {"none"}]
    /\ due \in SUBSET Path /\ touched \in SUBSET Path
    /\ at \in {"reload", "scan", "select", "flush"}
    /\ toScan \in SUBSET (Folder \X Path)
    /\ outbox \in SUBSET Task
    /\ channel \in Seq(Task) /\ Len(channel) <= CHANNEL
    /\ untold \in [Path -> {"nothing", "edit", "removal"}]
    /\ lost \in SUBSET Path /\ failed \in SUBSET Folder
    /\ ops \in 0..MaxOps /\ faults \in 0..MaxFaults

\* The daemon starts; files and folders may be there already.
WatcherInit ==
    /\ disk \in [Path -> {"none", "file"}]
    /\ enabled \in SUBSET Folder /\ unsent = 0
    /\ reload = 0 /\ watched = {} /\ events = <<>>
    /\ pending = [p \in Path |-> "none"] /\ due = {} /\ touched = {}
    /\ at = "reload" /\ toScan = {}
    /\ outbox = {} /\ channel = <<>>
    /\ untold = [p \in Path |-> IF disk[p] = "file" THEN "edit" ELSE "nothing"]
    /\ lost = {} /\ failed = {}
    /\ ops = 0 /\ faults = 0

-----------------------------------------------------------------------------
(* find_owning_folder: the longest watched folder that is a prefix.          *)

Owners(p) == {d \in watched : p \in Under[d]}

Watched(p) == Owners(p) # {}

Owner(p) == CHOOSE d \in Owners(p) : \A e \in Owners(p) : Length[e] <= Length[d]

Upload(d) == IF d \in Photos THEN "photos_backup" ELSE "upload"

\* The kinds of event that stand for a task.
Interesting == {"Modify", "Remove"}

\* event_to_task, as a set: no task for a directory or an event to ignore.
EventToTask(p, kind) ==
    IF disk[p] = "dir" \/ ~Watched(p) \/ kind \notin Interesting
    THEN {}
    ELSE {[path |-> p,
           operation |-> IF kind = "Remove" THEN "delete" ELSE Upload(Owner(p))]}

-----------------------------------------------------------------------------
(* The user and notify.  A path below a watched folder yields events.        *)

Happens == ops < MaxOps /\ ops' = ops + 1

Event(p, kind) == [path |-> p, kind |-> kind]

Noted(stream, e) == IF Watched(e.path) THEN Append(stream, e) ELSE stream

Emit(e) == events' = Noted(events, e)

\* A file is created, or its content changes.
Write(p) ==
    /\ Happens
    /\ disk[p] # "dir"
    /\ disk' = [disk EXCEPT ![p] = "file"]
    /\ Emit(Event(p, "Modify"))
    /\ untold' = [untold EXCEPT ![p] = "edit"]
    /\ lost' = lost \ {p}
    /\ UNCHANGED <<enabled, unsent, loopVars, mapVars, outbox, channel, faults>>

\* Permissions change, or a reader or writer closes the file.
Touch(p) ==
    /\ Happens
    /\ disk[p] = "file"
    /\ Emit(Event(p, "Ignored"))
    /\ UNCHANGED <<worldVars, loopVars, mapVars, outbox, channel, untold, lost, faults>>

\* A removal that nobody watches is never told.
RemoveFile(p) ==
    /\ Happens
    /\ disk[p] = "file"
    /\ disk' = [disk EXCEPT ![p] = "none"]
    /\ Emit(Event(p, "Remove"))
    /\ untold' = [untold EXCEPT ![p] = "removal"]
    /\ lost' = IF Watched(p) THEN lost \ {p} ELSE lost \cup {p}
    /\ UNCHANGED <<enabled, unsent, loopVars, mapVars, outbox, channel, faults>>

\* The old path of a rename gets a Name event too, which means upload: its
\* removal is never told.
Rename(p, q) ==
    /\ Happens
    /\ p # q /\ disk[p] = "file" /\ disk[q] # "dir"
    /\ disk' = [disk EXCEPT ![p] = "none", ![q] = "file"]
    /\ events' = Noted(Noted(events, Event(p, "Modify")), Event(q, "Modify"))
    /\ untold' = [untold EXCEPT ![p] = "removal", ![q] = "edit"]
    /\ lost' = (lost \ {q}) \cup {p}
    /\ UNCHANGED <<enabled, unsent, loopVars, mapVars, outbox, channel, faults>>

\* A directory is made at the path, or removed.  Its event replaces that of a
\* file's removal.
MakeDirectory(p) ==
    /\ Happens
    /\ disk[p] = "none"
    /\ disk' = [disk EXCEPT ![p] = "dir"]
    /\ Emit(Event(p, "Modify"))
    /\ lost' = IF untold[p] = "removal" THEN lost \cup {p} ELSE lost
    /\ UNCHANGED <<enabled, unsent, loopVars, mapVars, outbox, channel, untold, faults>>

RemoveDirectory(p) ==
    /\ Happens
    /\ disk[p] = "dir"
    /\ disk' = [disk EXCEPT ![p] = "none"]
    /\ Emit(Event(p, "Ignored"))
    /\ UNCHANGED <<enabled, unsent, loopVars, mapVars, outbox, channel, untold, lost,
                   faults>>

-----------------------------------------------------------------------------
(* folder.add and folder.remove: a statement, then try_send on the reload    *)
(* channel, whose failure is ignored.                                        *)

AddFolder(d) ==
    /\ Happens
    /\ d \notin enabled
    /\ enabled' = enabled \cup {d} /\ unsent' = unsent + 1
    /\ UNCHANGED <<disk, loopVars, events, mapVars, outbox, channel, untold, lost, faults>>

RemoveFolder(d) ==
    /\ Happens
    /\ d \in enabled
    /\ enabled' = enabled \ {d} /\ unsent' = unsent + 1
    /\ UNCHANGED <<disk, loopVars, events, mapVars, outbox, channel, untold, lost, faults>>

\* Mutant: the signal of a handler is dropped while one is being served.
SignalReloadWhenIdle ==
    /\ unsent > 0
    /\ unsent' = unsent - 1
    /\ reload' = IF at = "select" /\ reload < RELOAD_CAPACITY THEN reload + 1 ELSE reload
    /\ UNCHANGED <<disk, enabled, watched, at, toScan, failed, events, mapVars, outbox,
                   channel, untold, lost, ops, faults>>

SignalReload ==
    /\ unsent > 0
    /\ unsent' = unsent - 1
    /\ reload' = IF reload < RELOAD_CAPACITY THEN reload + 1 ELSE reload
    /\ UNCHANGED <<disk, enabled, watched, at, toScan, failed, events, mapVars, outbox,
                   channel, untold, lost, ops, faults>>

-----------------------------------------------------------------------------
(* The loop.                                                                 *)

ReceiveReload ==
    /\ at = "select" /\ reload > 0
    /\ reload' = reload - 1 /\ at' = "reload"
    /\ UNCHANGED <<worldVars, watched, toScan, failed, events, mapVars, outbox, channel,
                   untold, lost, ops, faults>>

\* reload_folders: the new ones are watched, then scan_existing_files visits
\* them.  A folder that left the table stays watched.  One that is not there, or
\* that notify refuses, is skipped until the next reload, a failed query skips all.
ReloadFolders(new) ==
    /\ at = "reload"
    /\ LET skipped == (enabled \ watched) \ new IN
          /\ new \subseteq enabled \ watched
          /\ IF skipped = {} THEN UNCHANGED faults
             ELSE faults < MaxFaults /\ faults' = faults + 1
          /\ failed' = (failed \ new) \cup skipped
    /\ watched' = watched \cup new
    /\ at' = "scan"
    /\ toScan' = {s \in new \X Path : s[2] \in Under[s[1]]}
    /\ UNCHANGED <<worldVars, reload, events, mapVars, outbox, channel, untold, lost, ops>>

\* Mutant: the scan does not wait for a slot.
ScanVisitUnbounded(s) ==
    /\ at = "scan" /\ s \in toScan
    /\ toScan' = toScan \ {s}
    /\ channel' = IF disk[s[2]] = "file"
                  THEN Append(channel, [path |-> s[2], operation |-> Upload(s[1])])
                  ELSE channel
    /\ UNCHANGED <<worldVars, reload, watched, at, failed, events, mapVars, outbox, untold,
                   lost, ops, faults>>

\* walk_and_enqueue: a regular file is sent, waiting for a slot, with the
\* operation of the folder being scanned.
ScanVisit(s) ==
    /\ at = "scan" /\ s \in toScan
    /\ toScan' = toScan \ {s}
    /\ IF disk[s[2]] = "file"
       THEN /\ Len(channel) < CHANNEL
            /\ channel' = Append(channel, [path |-> s[2], operation |-> Upload(s[1])])
       ELSE UNCHANGED channel
    /\ UNCHANGED <<worldVars, reload, watched, at, failed, events, mapVars, outbox, untold,
                   lost, ops, faults>>

\* read_dir may leave out a file made since the walk began, whose event waits,
\* and a directory that cannot be read is left out with what is below it.
ScanSkips(s) ==
    /\ at = "scan" /\ s \in toScan
    /\ toScan' = toScan \ {s}
    /\ \/ /\ \E i \in DOMAIN events : events[i] = Event(s[2], "Modify")
          /\ UNCHANGED <<lost, faults>>
       \/ /\ faults < MaxFaults /\ faults' = faults + 1
          /\ lost' = lost \cup {s[2]}
    /\ UNCHANGED <<worldVars, reload, watched, at, failed, events, mapVars, outbox, channel,
                   untold, ops>>

ScanDone ==
    /\ at = "scan" /\ toScan = {}
    /\ at' = "select"
    /\ UNCHANGED <<worldVars, reload, watched, toScan, failed, events, mapVars, outbox,
                   channel, untold, lost, ops, faults>>

\* Mutant: the first event of the window decides.
HandleEventFirst ==
    /\ at = "select" /\ events # <<>>
    /\ LET e == Head(events) IN
          /\ pending' = [pending EXCEPT ![e.path] = IF @ = "none" THEN e.kind ELSE @]
          /\ touched' = IF e.kind \in Interesting THEN touched \cup {e.path} ELSE touched
    /\ events' = Tail(events)
    /\ UNCHANGED <<worldVars, loopVars, due, outbox, channel, untold, lost, ops, faults>>

\* A later event of a path replaces the kind of its entry, whatever that was,
\* and leaves its first_seen.
HandleEvent ==
    /\ at = "select" /\ events # <<>>
    /\ LET e == Head(events) IN
          /\ pending' = [pending EXCEPT ![e.path] = e.kind]
          /\ touched' = IF e.kind \in Interesting THEN touched \cup {e.path} ELSE touched
    /\ events' = Tail(events)
    /\ UNCHANGED <<worldVars, loopVars, due, outbox, channel, untold, lost, ops, faults>>

\* notify reports an error in the place of an event.
HandleError ==
    /\ at = "select" /\ events # <<>>
    /\ faults < MaxFaults /\ faults' = faults + 1
    /\ lost' = lost \cup {Head(events).path}
    /\ events' = Tail(events)
    /\ UNCHANGED <<worldVars, loopVars, mapVars, outbox, channel, untold, ops>>

\* Time passes: the entry of p has been there for DEBOUNCE_MS.
Elapse(p) ==
    /\ pending[p] # "none" /\ p \notin due
    /\ due' = due \cup {p}
    /\ UNCHANGED <<worldVars, loopVars, events, pending, touched, outbox, channel, untold,
                   lost, ops, faults>>

\* Mutant: the comparison with the threshold is the wrong way round.
RipeYoung == {p \in Path : pending[p] # "none" /\ p \notin due}

\* The entries a tick takes out of the map.
Ripe == due

\* The tick: what is due leaves the map, as a task or as nothing.
Tick ==
    /\ at = "select" /\ Ripe # {}
    /\ pending' = [p \in Path |-> IF p \in Ripe THEN "none" ELSE pending[p]]
    /\ due' = due \ Ripe /\ touched' = touched \ Ripe
    /\ outbox' = UNION {EventToTask(p, pending[p]) : p \in Ripe}
    /\ lost' = lost \cup {p \in touched \cap Ripe : EventToTask(p, pending[p]) = {}}
    /\ at' = "flush"
    /\ UNCHANGED <<worldVars, reload, watched, toScan, failed, events, channel, untold,
                   ops, faults>>

\* try_send: a task that finds the channel full is dropped.  The tasks of a tick
\* leave in the order of the hash map, which is any.
SendTask(t) ==
    /\ at = "flush" /\ t \in outbox
    /\ outbox' = outbox \ {t}
    /\ IF Len(channel) < CHANNEL
       THEN channel' = Append(channel, t) /\ UNCHANGED lost
       ELSE lost' = lost \cup {t.path} /\ UNCHANGED channel
    /\ UNCHANGED <<worldVars, loopVars, events, mapVars, untold, ops, faults>>

FlushDone ==
    /\ at = "flush" /\ outbox = {}
    /\ at' = "select"
    /\ UNCHANGED <<worldVars, reload, watched, toScan, failed, events, mapVars, outbox,
                   channel, untold, lost, ops, faults>>

-----------------------------------------------------------------------------
(* The sync engine: handle_watcher_task.                                     *)

\* Truth(p, op): what is still untold of p after the engine got the task.  An
\* upload reads the file when it is processed; a delete of a file that is there
\* again has to be followed by an upload.
Truth(p, op) ==
    IF op = "delete"
    THEN IF disk[p] = "file" THEN "edit" ELSE "nothing"
    ELSE IF disk[p] = "file" THEN "nothing" ELSE untold[p]

EngineReceives ==
    /\ channel # <<>>
    /\ channel' = Tail(channel)
    /\ LET t == Head(channel) IN
          untold' = [untold EXCEPT ![t.path] = Truth(t.path, t.operation)]
    /\ UNCHANGED <<worldVars, loopVars, events, mapVars, outbox, lost, ops, faults>>

\* A paused engine drops the task, and so does one whose INSERT fails.
EngineDrops ==
    /\ channel # <<>>
    /\ channel' = Tail(channel)
    /\ lost' = lost \cup {Head(channel).path}
    /\ UNCHANGED <<worldVars, loopVars, events, mapVars, outbox, untold, ops, faults>>

\* The daemon dies and starts again: run loads the folders and scans them all,
\* which finds every file but no removal.
Restart ==
    /\ faults < MaxFaults
    /\ faults' = faults + 1
    /\ unsent' = 0 /\ reload' = 0 /\ watched' = {} /\ events' = <<>>
    /\ pending' = [p \in Path |-> "none"] /\ due' = {} /\ touched' = {}
    /\ at' = "reload" /\ toScan' = {}
    /\ outbox' = {} /\ channel' = <<>>
    /\ lost' = {p \in Path : untold[p] = "removal"}
    /\ UNCHANGED <<disk, enabled, failed, untold, ops>>

-----------------------------------------------------------------------------
User ==
    \/ \E p \in Path :
          \/ Write(p) \/ Touch(p) \/ RemoveFile(p)
          \/ MakeDirectory(p) \/ RemoveDirectory(p)
          \/ \E q \in Path : Rename(p, q)
    \/ \E d \in Folder : AddFolder(d) \/ RemoveFolder(d)

Loop ==
    \/ \E new \in SUBSET Folder : ReloadFolders(new)
    \/ \E s \in toScan : ScanVisit(s) \/ ScanSkips(s)
    \/ \E t \in outbox : SendTask(t)
    \/ ScanDone \/ FlushDone

Time == \E p \in Path : Elapse(p)

Engine == EngineReceives \/ EngineDrops

WatcherNext ==
    \/ User \/ SignalReload
    \/ ReceiveReload \/ HandleEvent \/ HandleError \/ Tick \/ Loop
    \/ Time \/ Engine \/ Restart

WatcherSpec == WatcherInit /\ [][WatcherNext]_watcherVars

(* Fairness: select! starts at a random branch, so each that is ready again   *)
(* and again is taken; the engine takes tasks from its channel; time passes.  *)
FairWatcher ==
    /\ WatcherSpec
    /\ SF_watcherVars(ReceiveReload) /\ SF_watcherVars(HandleEvent) /\ SF_watcherVars(Tick)
    /\ WF_watcherVars(Loop) /\ WF_watcherVars(Time)
    /\ WF_watcherVars(Engine) /\ WF_watcherVars(SignalReload)

-----------------------------------------------------------------------------
(* Properties.                                                               *)

\* Nothing about p is on its way to the engine.
Quiet(p) ==
    /\ \A i \in DOMAIN events : events[i].path # p
    /\ pending[p] = "none"
    /\ \A t \in outbox : t.path # p
    /\ \A i \in DOMAIN channel : channel[i].path # p
    /\ \A s \in toScan : s[2] # p

\* When nothing more is on its way, the last task the engine got agrees with the
\* disk: an edit is not forgotten, a file that was removed and written again is
\* not left deleted, a new folder's files are found, whatever is coalesced, in
\* whatever order ticks, reloads, scans and restarts come.  Changes are lost
\* only where the history says so: a window whose last event is one to ignore, a
\* full channel, a paused engine, an error of notify or of the walk, the old path of a rename, a removal that nobody
\* watched or that a directory at the same path hides.
NoEditForgotten ==
    \A p \in Path : Watched(p) /\ Quiet(p) => untold[p] = "nothing" \/ p \in lost

\* A folder the user added is watched, though the handler's signal may be
\* dropped by a full channel or arrive during a scan.
FoldersWatched ==
    \A d \in Folder : d \in enabled ~> d \in watched \cup failed \/ d \notin enabled

\* What happens to a watched file reaches the engine, also through a full channel.
EditsArrive ==
    \A p \in Path :
        untold[p] # "nothing" /\ Watched(p)
            ~> untold[p] = "nothing" \/ p \in lost \/ ~Watched(p)

-----------------------------------------------------------------------------
(* What a comment says and the code does not keep.                           *)

\* event_to_task ignores "metadata-only events": a file that was created or
\* written within the window is not ignored when its entry leaves the map.
OnlyMetadataIgnored ==
    [][\A p \in touched \cap due :
          pending'[p] = "none" /\ at' = "flush" /\ disk[p] = "file"
             => \E t \in outbox' : t.path = p]_watcherVars
=============================================================================
