------------------------------- MODULE Handlers -------------------------------
(***************************************************************************)
(* The JSON-RPC handlers (ipc/handlers.rs) a connection task runs, one     *)
(* request of its client at a time, by what they do to shared state:       *)
(*   save  prefs.save: the file, then the copy in memory (config/mod.rs);  *)
(*   mode  system.set_sync_mode: memory, the engine, then the file;        *)
(*   item  fp.delete_item and its like: a row, then a task of the queue;   *)
(*   pin   fs.set_offline and the others that write one row.               *)
(* Reading is the same without the row.                                    *)
(* Tasks of different connections interleave at every await.               *)
(*                                                                         *)
(* preferences.toml and its temporary file are names of inodes: opening    *)
(* for writing empties the inode, renaming moves the name, and a writer    *)
(* keeps the inode it opened.                                              *)
(***************************************************************************)
EXTENDS Naturals, FiniteSets

CONSTANTS
    None,           \* no file of that name, no request
    Client,         \* one connection each
    MaxCalls,       \* bound: requests
    MaxFaults       \* bound: failed accesses, crashes

ASSUME HandlerConstants == MaxCalls \in Nat /\ MaxFaults \in Nat /\ None \notin Nat

VARIABLES
    memory,             \* the ConfigHandle
    toml, tmp, content, \* the two names, and what the inodes hold
    rows, tasks,        \* requests whose row is written, whose task is queued
    job,                \* the handler each connection runs
    faults,
    overlapped,         \* two requests for the preferences were in progress at once
    unsaved             \* the sync mode was changed and could not be written

configVars == <<memory, toml, tmp, content>>
handlerVars == <<configVars, rows, tasks, job, faults, overlapped, unsaved>>

-----------------------------------------------------------------------------
Id == 1..MaxCalls
Method == {"save", "mode", "item", "pin"}

\* rest stands for everything but the mode, by the request that wrote it.
Preferences == [rest : 0..MaxCalls + 1, sync_mode : {"Stream", "Mirror"}]
DefaultPreferences == [rest |-> MaxCalls + 1, sync_mode |-> "Stream"]

Inode == 0..MaxCalls

\* What an inode holds that does not parse: nothing, a part, a mixture.
Torn == None

Job == [id : Id, method : Method,
        at : {"begin", "send", "open", "write", "rename", "swap", "enqueue", "ok", "err"},
        prefs : Preferences, fd : Inode]

ASSUME NoneIsNoRecord == None \notin Preferences /\ None \notin Job

HandlersTypeOK ==
    /\ memory \in Preferences
    /\ toml \in Inode /\ tmp \in Inode \cup {None}
    /\ content \in [Inode -> Preferences \cup {Torn}]
    /\ rows \subseteq Id /\ tasks \subseteq Id
    /\ job \in [Client -> Job \cup {None}]
    /\ faults \in 0..MaxFaults /\ overlapped \in BOOLEAN /\ unsaved \in BOOLEAN

HandlersInit ==
    /\ memory = [rest |-> 0, sync_mode |-> "Stream"]
    /\ toml = 0 /\ tmp = None /\ content = [i \in Inode |-> IF i = toml THEN memory ELSE Torn]
    /\ rows = {} /\ tasks = {} /\ job = [c \in Client |-> None]
    /\ faults = 0 /\ overlapped = FALSE /\ unsaved = FALSE

Fault == faults < MaxFaults /\ faults' = faults + 1

-----------------------------------------------------------------------------
At(c, at) == job[c] # None /\ job[c].at = at

GoTo(c, at) == job' = [job EXCEPT ![c].at = at]

OfPreferences(c) == job[c] # None /\ job[c].method \in {"save", "mode"}

\* What a save request carries: the preferences as its client has put them.
Requested(id) == [rest |-> id, sync_mode |-> "Stream"]

\* Router::handle, dispatch: the request's handler starts.
dispatch(c, id, method) ==
    /\ job[c] = None
    /\ job' = [job EXCEPT ![c] = [id |-> id, method |-> method, prefs |-> Requested(id),
                                  at |-> IF method = "save" THEN "open" ELSE "begin",
                                  fd |-> 0]]
    /\ overlapped' = (\/ overlapped
                      \/ method \in {"save", "mode"} /\ \E d \in Client : OfPreferences(d))
    /\ UNCHANGED <<configVars, rows, tasks, faults, unsaved>>

-----------------------------------------------------------------------------
\* config::save_to, in a blocking thread.

\* Mutant: preferences.toml itself is written.
OpenTmpInPlace(c) ==
    /\ At(c, "open")
    /\ job' = [job EXCEPT ![c].fd = toml, ![c].at = "write"]
    /\ tmp' = toml /\ content' = [content EXCEPT ![toml] = Torn]
    /\ UNCHANGED <<memory, toml, rows, tasks, faults, overlapped, unsaved>>

\* fs::write opens preferences.toml.tmp, empty ...
OpenTmp(c) ==
    /\ At(c, "open")
    /\ LET fd == IF tmp = None THEN job[c].id ELSE tmp
       IN  /\ job' = [job EXCEPT ![c].fd = fd, ![c].at = "write"]
           /\ tmp' = fd /\ content' = [content EXCEPT ![fd] = Torn]
    /\ UNCHANGED <<memory, toml, rows, tasks, faults, overlapped, unsaved>>

\* ... and writes.  What another writer has put there since may stick out.
WriteTmp(c) ==
    /\ At(c, "write")
    /\ \E p \in {job[c].prefs} \cup (IF content[job[c].fd] = Torn THEN {} ELSE {Torn}) :
         content' = [content EXCEPT ![job[c].fd] = p]
    /\ GoTo(c, "rename")
    /\ UNCHANGED <<memory, toml, tmp, rows, tasks, faults, overlapped, unsaved>>

\* The name moves, to whatever inode it has by now; the old file is gone.
RenameTmp(c) ==
    /\ At(c, "rename") /\ tmp # None
    /\ toml' = tmp /\ tmp' = None /\ content' = [content EXCEPT ![toml] = Torn]
    /\ GoTo(c, IF job[c].method = "save" THEN "swap" ELSE "ok")
    /\ UNCHANGED <<memory, rows, tasks, faults, overlapped, unsaved>>

\* Mutant: an error of the blocking task is not looked at.
SaveFailsUnseen(c) ==
    /\ \/ At(c, "write") /\ Fault
       \/ At(c, "rename") /\ tmp = None /\ UNCHANGED faults
    /\ GoTo(c, "swap")
    /\ UNCHANGED <<configVars, rows, tasks, overlapped, unsaved>>

\* The disk is full, or another save has taken the temporary file away: an
\* error for prefs.save, a line in the log for set_sync_mode.
SaveFails(c) ==
    /\ \/ At(c, "write") /\ Fault
       \/ At(c, "rename") /\ tmp = None /\ UNCHANGED faults
    /\ GoTo(c, IF job[c].method = "save" THEN "err" ELSE "ok")
    /\ unsaved' = (unsaved \/ job[c].method = "mode")
    /\ UNCHANGED <<configVars, rows, tasks, overlapped>>

\* handle_prefs_save: the copy in memory comes last.
SwapMemory(c) ==
    /\ At(c, "swap")
    /\ memory' = job[c].prefs
    /\ unsaved' = FALSE
    /\ GoTo(c, "ok")
    /\ UNCHANGED <<toml, tmp, content, rows, tasks, faults, overlapped>>

-----------------------------------------------------------------------------
\* handle_set_sync_mode: memory first, then the command to the engine, then
\* a copy of memory goes to the file.
SetMode(c) ==
    /\ At(c, "begin") /\ job[c].method = "mode"
    /\ memory' = [memory EXCEPT !.sync_mode = "Mirror"]
    /\ GoTo(c, "send")
    /\ UNCHANGED <<toml, tmp, content, rows, tasks, faults, overlapped, unsaved>>

SendSwitchMode(c) ==
    /\ At(c, "send")
    /\ job' = [job EXCEPT ![c].prefs = memory, ![c].at = "open"]
    /\ UNCHANGED <<configVars, rows, tasks, faults, overlapped, unsaved>>

-----------------------------------------------------------------------------
\* handle_fp_delete_item, _modify_item, _create_item: two statements, and no
\* transaction around them.
ItemRow(c) ==
    /\ At(c, "begin") /\ job[c].method = "item"
    /\ \/ rows' = rows \cup {job[c].id} /\ GoTo(c, "enqueue") /\ UNCHANGED faults
       \/ Fault /\ GoTo(c, "err") /\ UNCHANGED rows
    /\ UNCHANGED <<configVars, tasks, overlapped, unsaved>>

\* Mutant: a task that cannot be queued is only logged.
ItemTaskLogged(c) ==
    /\ At(c, "enqueue")
    /\ \/ tasks' = tasks \cup {job[c].id} /\ UNCHANGED faults
       \/ Fault /\ UNCHANGED tasks
    /\ GoTo(c, "ok")
    /\ UNCHANGED <<configVars, rows, overlapped, unsaved>>

ItemTask(c) ==
    /\ At(c, "enqueue")
    /\ \/ tasks' = tasks \cup {job[c].id} /\ GoTo(c, "ok") /\ UNCHANGED faults
       \/ Fault /\ GoTo(c, "err") /\ UNCHANGED tasks
    /\ UNCHANGED <<configVars, rows, overlapped, unsaved>>

\* handle_fs_set_offline.
SetOffline(c) ==
    /\ At(c, "begin") /\ job[c].method = "pin"
    /\ \/ rows' = rows \cup {job[c].id} /\ GoTo(c, "ok") /\ UNCHANGED faults
       \/ Fault /\ GoTo(c, "err") /\ UNCHANGED rows
    /\ UNCHANGED <<configVars, tasks, overlapped, unsaved>>

-----------------------------------------------------------------------------
HandlerStep(c) ==
    \/ OpenTmp(c) \/ WriteTmp(c) \/ RenameTmp(c) \/ SaveFails(c)
    \/ SwapMemory(c) \/ SetMode(c) \/ SendSwitchMode(c) \/ ItemRow(c) \/ ItemTask(c)
    \/ SetOffline(c)

\* A crash, and the next start: config::load_from takes a file it cannot
\* parse for no file at all.
HandlersRestart ==
    /\ Fault
    /\ job' = [c \in Client |-> None]
    /\ memory' = IF content[toml] = Torn THEN DefaultPreferences ELSE content[toml]
    /\ unsaved' = FALSE
    /\ UNCHANGED <<toml, tmp, content, rows, tasks, overlapped>>

-----------------------------------------------------------------------------
\* Properties.

\* "the config file is never left in a partially-written state" (config/mod.rs):
\* so it is, through failures and crashes at any point, as long as no two
\* requests for the preferences are in progress at once; two share the name of
\* the temporary file, and one renames what the other has just emptied.
DiskNeverTorn == ~overlapped => content[toml] # Torn

\* When nobody is changing them the preferences in memory are those a restart
\* would load, unless two changes overlapped (the file keeps the one, memory the
\* other) or set_sync_mode could not write its file.
PreferencesAgree ==
    (~overlapped /\ ~unsaved /\ \A c \in Client : ~OfPreferences(c))
    => content[toml] = memory
=============================================================================
