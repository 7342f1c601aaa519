----------------------------- MODULE SyncEngine -----------------------------
(***************************************************************************)
(* The main loop of the sync engine (sync/engine.rs) on top of SyncQueue:  *)
(* the select over the command channel, the 30 s poll timer and the        *)
(* watcher's channel, the Idle / Scanning / Syncing / Paused states, and   *)
(* the IPC handlers that talk to it (sync.pause, sync.resume,              *)
(* system.set_sync_mode, prefs.save).                                      *)
(*                                                                         *)
(* The loop handles one branch to its end before it selects again, so a    *)
(* command waits for the batch in front of it.  The handlers of different  *)
(* connections run concurrently with the loop and with each other.  What   *)
(* incremental_sync and the mode switch insert into sync_queue are Produce *)
(* steps; the files themselves are not modelled.  sync.retry_error writes  *)
(* what the loop never reads and is left to SyncQueue.                     *)
(***************************************************************************)
EXTENDS SyncQueue, Sequences

CONSTANTS FromWatcher,    \* tasks the watcher sends; the others come over the database
          Client,         \* IPC connections that may have a request in flight
          SwitchModes,    \* modes system.set_sync_mode may ask for
          PrefsModes,     \* modes a prefs.save may carry in its Preferences
          CMD_CAPACITY,   \* slots of the command channel
          WATCH_CAPACITY  \* slots of the watcher's channel

Mode == {"stream", "mirror"}

\* A mode in the channel stands for SwitchMode(mode).
Command == {"Pause", "Resume"} \cup Mode

ASSUME EngineAssumption ==
    /\ FromWatcher \subseteq TaskId
    /\ SwitchModes \subseteq Mode /\ PrefsModes \subseteq Mode
    /\ CMD_CAPACITY \in Nat \ {0} /\ WATCH_CAPACITY \in Nat \ {0}

VARIABLES
    state,      \* SyncEngineState
    at,         \* the select branch the loop is in, "select" when in none
    todo,       \* accounts the poll or the mode switch has still to visit
    target,     \* the mode being switched to ("list" and "switch" only)
    cmds,       \* the command channel
    watch,      \* the watcher's channel
    noticed,    \* watcher tasks produced so far (each is sent once)
    dropped,    \* watcher tasks that never reached the queue
    cfg,        \* vfs.sync_mode of the shared in-memory preferences
    layout,     \* layout[a]: the mode the files of account a were last set up for
    request     \* request[c]: what the handler of connection c does next

loopVars == <<state, at, todo, target>>
watchVars == <<watch, noticed, dropped>>
shellVars == <<loopVars, cmds, watchVars, cfg, layout, request>>
allVars == <<vars, shellVars>>

NoRequest == [step |-> "none", mode |-> "stream"]

LoopTypeOK ==
    /\ state \in {"Idle", "Scanning", "Syncing", "Paused"}
    /\ at \in {"select", "poll", "poll_batch", "watch_batch", "list", "switch"}
    /\ todo \in SUBSET Account
    /\ target \in Mode
    /\ cmds \in Seq(Command) /\ Len(cmds) <= CMD_CAPACITY
    /\ watch \in Seq(FromWatcher) /\ Len(watch) <= WATCH_CAPACITY
    /\ noticed \in SUBSET FromWatcher /\ dropped \in SUBSET FromWatcher
    /\ cfg \in Mode
    /\ layout \in [Account -> Mode]
    /\ request \in [Client -> [step : {"none", "send", "write"}, mode : Mode]]

EngineTypeOK == TypeOK /\ LoopTypeOK

EngineInit ==
    /\ Init
    /\ state = "Idle" /\ at = "select" /\ todo = {}
    /\ cmds = <<>>
    /\ watch = <<>> /\ noticed = {} /\ dropped = {}
    /\ cfg \in Mode /\ target = "stream"
    /\ layout = [a \in Account |-> cfg]
    /\ request = [c \in Client |-> NoRequest]

-----------------------------------------------------------------------------
(* The IPC handlers.                                                         *)

Send(cmd) ==
    /\ Len(cmds) < CMD_CAPACITY
    /\ cmds' = Append(cmds, cmd)

\* sync.pause and sync.resume: the handler waits for a slot, then answers.
SendCommand(cmd) ==
    /\ Send(cmd)
    /\ UNCHANGED <<vars, loopVars, watchVars, cfg, layout, request>>

\* system.set_sync_mode writes the shared preferences first ...
SetSyncMode(c, mode) ==
    /\ request[c].step = "none"
    /\ cfg' = mode
    /\ request' = [request EXCEPT ![c] = [step |-> "send", mode |-> mode]]
    /\ UNCHANGED <<vars, loopVars, cmds, watchVars, layout>>

\* ... and tells the engine afterwards.  (It then saves to disk: Preferences.)
SendSwitchMode(c) ==
    /\ request[c].step = "send"
    /\ Send(request[c].mode)
    /\ request' = [request EXCEPT ![c] = NoRequest]
    /\ UNCHANGED <<vars, loopVars, watchVars, cfg, layout>>

\* prefs.save saves to disk, then replaces the shared preferences, mode
\* included, and tells the engine nothing.
PrefsSave(c, mode) ==
    /\ request[c].step = "none"
    /\ request' = [request EXCEPT ![c] = [step |-> "write", mode |-> mode]]
    /\ UNCHANGED <<vars, loopVars, cmds, watchVars, cfg, layout>>

PrefsWrite(c) ==
    /\ request[c].step = "write"
    /\ cfg' = request[c].mode
    /\ request' = [request EXCEPT ![c] = NoRequest]
    /\ UNCHANGED <<vars, loopVars, cmds, watchVars, layout>>

-----------------------------------------------------------------------------
(* Around the engine.                                                        *)

\* The debounce tick of the watcher uses try_send: a full channel drops.
WatchEvent(t) ==
    /\ t \in FromWatcher \ noticed
    /\ noticed' = noticed \cup {t}
    /\ IF Len(watch) < WATCH_CAPACITY
       THEN watch' = Append(watch, t) /\ UNCHANGED dropped
       ELSE dropped' = dropped \cup {t} /\ UNCHANGED watch
    /\ UNCHANGED <<vars, loopVars, cmds, cfg, layout, request>>

\* A row inserted over the database, by another task of the daemon or by the
\* engine itself while it polls or switches the mode.
Insert(t) ==
    /\ t \notin FromWatcher
    /\ \E column \in Column : Enqueue(t, column)
    /\ UNCHANGED shellVars

AccountLeaves(a) == Disconnect(a) /\ UNCHANGED shellVars

\* complete_oauth_flow ends in initial_sync, which sets the files up for the
\* mode it read from the preferences.
AccountJoins(a) ==
    /\ Connect(a)
    /\ layout' = [layout EXCEPT ![a] = cfg]
    /\ UNCHANGED <<loopVars, cmds, watchVars, cfg, request>>

-----------------------------------------------------------------------------
(* The select loop.                                                          *)

NextCommand(cmd) ==
    /\ at = "select"
    /\ cmds # <<>> /\ Head(cmds) = cmd
    /\ cmds' = Tail(cmds)

\* Mutant: the guard of can_transition, Syncing and Scanning left out.
HandlePauseWhenIdle ==
    /\ NextCommand("Pause")
    /\ state' = IF state = "Idle" THEN "Paused" ELSE state
    /\ UNCHANGED <<vars, at, todo, target, watchVars, cfg, layout, request>>

HandlePause ==
    /\ NextCommand("Pause")
    /\ state' = "Paused"
    /\ UNCHANGED <<vars, at, todo, target, watchVars, cfg, layout, request>>

HandleResume ==
    /\ NextCommand("Resume")
    /\ state' = IF state = "Paused" THEN "Idle" ELSE state
    /\ UNCHANGED <<vars, at, todo, target, watchVars, cfg, layout, request>>

\* Mutant: a select branch that is off while paused.
HandleModeSwitchUnlessPaused(mode) ==
    /\ state # "Paused"
    /\ NextCommand(mode)
    /\ IF cfg = mode
       THEN UNCHANGED loopVars
       ELSE state' = "Syncing" /\ at' = "list" /\ target' = mode /\ UNCHANGED todo
    /\ UNCHANGED <<vars, watchVars, cfg, layout, request>>

\* handle_mode_switch compares with the shared preferences, and migrates only
\* when they name another mode.
HandleModeSwitch(mode) ==
    /\ NextCommand(mode)
    /\ IF cfg = mode
       THEN UNCHANGED loopVars
       ELSE state' = "Syncing" /\ at' = "list" /\ target' = mode /\ UNCHANGED todo
    /\ UNCHANGED <<vars, watchVars, cfg, layout, request>>

\* A query the queue knows nothing of fails.
QueryFails ==
    /\ faults < MaxFaults
    /\ faults' = faults + 1
    /\ UNCHANGED <<dbVars, tokens, engineVars, attempts, overtaken, interrupted>>

SwitchList ==
    /\ at = "list"
    /\ \/ UNCHANGED <<vars, state>> /\ at' = "switch" /\ todo' = tokens
       \/ QueryFails /\ state' = "Idle" /\ at' = "select" /\ UNCHANGED todo
    /\ UNCHANGED <<target, cmds, watchVars, cfg, layout, request>>

\* enqueue_mirror_downloads or reset_mirror_to_stream for one account; an error
\* is logged and the account left as it was.
SwitchAccount(a) ==
    /\ at = "switch" /\ a \in todo
    /\ todo' = todo \ {a}
    /\ layout' \in {layout, [layout EXCEPT ![a] = target]}
    /\ UNCHANGED <<vars, state, at, target, cmds, watchVars, cfg, request>>

SwitchDone ==
    /\ at = "switch" /\ todo = {}
    /\ state' = "Idle" /\ at' = "select"
    /\ UNCHANGED <<vars, todo, target, cmds, watchVars, cfg, layout, request>>

\* handle_remote_poll.  A tick while paused, without accounts or with a failing
\* list_accounts returns at once and changes nothing.
PollBegin ==
    /\ at = "select" /\ state # "Paused" /\ tokens # {}
    /\ state' = "Scanning" /\ at' = "poll" /\ todo' = tokens
    /\ UNCHANGED <<vars, target, cmds, watchVars, cfg, layout, request>>

\* One account: no client, or an incremental_sync that may fail; what it
\* enqueues are Insert steps.
PollAccount(a) ==
    /\ at = "poll" /\ a \in todo
    /\ todo' = todo \ {a}
    /\ UNCHANGED <<vars, state, at, target, cmds, watchVars, cfg, layout, request>>

\* Mutant: the any_changes flag decides whether the queue is worked off.
PollDoneWithoutChanges ==
    /\ at = "poll" /\ todo = {}
    /\ state' = "Idle" /\ at' = "select"
    /\ UNCHANGED <<vars, todo, target, cmds, watchVars, cfg, layout, request>>

PollDone ==
    /\ at = "poll" /\ todo = {}
    /\ state' = "Syncing" /\ at' = "poll_batch"
    /\ UNCHANGED <<vars, todo, target, cmds, watchVars, cfg, layout, request>>

NextWatcherTask(t) ==
    /\ at = "select"
    /\ watch # <<>> /\ Head(watch) = t
    /\ watch' = Tail(watch)
    /\ UNCHANGED <<cmds, noticed, cfg, layout, request>>

\* handle_watcher_task while paused, or when the insert fails.
DropWatcherTask(t) ==
    /\ NextWatcherTask(t)
    /\ \/ state = "Paused" /\ UNCHANGED vars
       \/ state # "Paused" /\ QueryFails
    /\ dropped' = dropped \cup {t}
    /\ UNCHANGED loopVars

\* Mutant: handle_watcher_task without the check for Paused.
HandleWatcherTaskAlways(t) ==
    /\ NextWatcherTask(t)
    /\ \E column \in Column : Enqueue(t, column)
    /\ state' = "Syncing" /\ at' = "watch_batch"
    /\ UNCHANGED <<todo, target, dropped>>

HandleWatcherTask(t) ==
    /\ state # "Paused"
    /\ NextWatcherTask(t)
    /\ \E column \in Column : Enqueue(t, column)
    /\ state' = "Syncing" /\ at' = "watch_batch"
    /\ UNCHANGED <<todo, target, dropped>>

StartBatch ==
    /\ at \in {"poll_batch", "watch_batch"}
    /\ BeginBatch
    /\ UNCHANGED shellVars

Work == (ProcessTask \/ \E t \in TaskId : FetchTask(t)) /\ UNCHANGED shellVars

\* Mutant: the last transition of handle_remote_poll is missing.
BatchReturnsSyncing ==
    /\ at' = "select"
    /\ UNCHANGED <<state, todo, target, cmds, watchVars, cfg, layout, request>>

\* process_pending_tasks returned: handle_remote_poll goes back to Idle,
\* handle_watcher_task leaves the state as it is.
BatchReturns ==
    /\ at' = "select"
    /\ state' = IF at = "poll_batch" THEN "Idle" ELSE state
    /\ UNCHANGED <<todo, target, cmds, watchVars, cfg, layout, request>>

FinishBatch == EndBatch /\ BatchReturns

WorkError ==
    /\ PropagatedError
    /\ IF pc = "fetch" THEN BatchReturns ELSE UNCHANGED shellVars

\* The daemon dies: channels, handlers and the engine are gone.  The new daemon
\* loads the preferences from disk, where the mode may be an older one.
Restart ==
    /\ CrashAndRestart
    /\ state' = "Idle" /\ at' = "select" /\ todo' = {}
    /\ cmds' = <<>> /\ watch' = <<>>
    /\ dropped' = dropped \cup {watch[i] : i \in DOMAIN watch}
    /\ cfg' \in Mode
    /\ request' = [c \in Client |-> NoRequest]
    /\ UNCHANGED <<target, noticed, layout>>

-----------------------------------------------------------------------------
Handlers ==
    \/ \E cmd \in {"Pause", "Resume"} : SendCommand(cmd)
    \/ \E c \in Client :
          \/ \E mode \in SwitchModes : SetSyncMode(c, mode)
          \/ SendSwitchMode(c)
          \/ \E mode \in PrefsModes : PrefsSave(c, mode)
          \/ PrefsWrite(c)

World ==
    \/ \E t \in TaskId : WatchEvent(t) \/ Insert(t)
    \/ \E a \in Account : AccountLeaves(a) \/ AccountJoins(a)

HandleCommand ==
    \/ HandlePause \/ HandleResume
    \/ \E mode \in Mode : HandleModeSwitch(mode)

ReceiveTask == \E t \in TaskId : DropWatcherTask(t) \/ HandleWatcherTask(t)

Proceed ==
    \/ \E a \in Account : SwitchAccount(a) \/ PollAccount(a)
    \/ SwitchList \/ SwitchDone \/ PollDone
    \/ StartBatch \/ Work \/ FinishBatch

EngineNext ==
    \/ Handlers \/ World
    \/ HandleCommand \/ PollBegin \/ ReceiveTask \/ Proceed
    \/ WorkError \/ Restart

EngineSpec == EngineInit /\ [][EngineNext]_allVars

(* Fairness: tokio::select! starts at a random branch, so a branch that is    *)
(* ready again and again is taken; the timer ticks for ever; a handler that   *)
(* waits for a slot is served in order; what the loop awaits returns.         *)
EngineFairness ==
    /\ SF_allVars(HandleCommand) /\ SF_allVars(PollBegin) /\ SF_allVars(ReceiveTask)
    /\ WF_allVars(Proceed)
    /\ SF_allVars(BuildClient /\ UNCHANGED shellVars)
    /\ \A c \in Client : SF_allVars(SendSwitchMode(c) \/ PrefsWrite(c))

FairEngine == EngineSpec /\ EngineFairness

-----------------------------------------------------------------------------
(* Properties.                                                               *)

\* "Sync has been suspended by the user": while Paused no task is started, and
\* only a command (or a restart) ends the pause, never a poll tick, a task
\* from the watcher or the end of a batch that was running when it was asked.
PauseHolds ==
    [][state = "Paused" =>
         /\ attempts' = attempts
         /\ state' # "Paused" =>
              \/ faults' # faults
              \/ /\ cmds # <<>> /\ Head(cmds) # "Pause"
                 /\ cmds' = Tail(cmds)]_allVars

\* A Pause that got into the channel takes effect, however long the batch is
\* that the loop is in and whatever else is ready, unless a fault (the daemon may
\* have died, and the channel with it) comes before.
PauseObeyed ==
    \A n \in 0..MaxFaults :
        /\ faults = n
        /\ "Pause" \in {cmds[i] : i \in DOMAIN cmds}
        ~> state = "Paused" \/ faults > n

\* A set_sync_mode or prefs.save request is answered: no handler waits for
\* ever on a full command channel, also while the engine is paused.
RequestsAnswered ==
    \A c \in Client : request[c].step # "none" ~> request[c].step = "none"

\* The engine does not report syncing for ever, whatever fails or crashes, unless
\* the last account is disconnected: then the poll that would end it does nothing.
SyncingEnds ==
    state \in {"Scanning", "Syncing"} ~> state \in {"Idle", "Paused"} \/ tokens = {}

\* If the user does not leave the engine paused or an account disconnected, every
\* row in the queue is settled: the poll timer alone is enough to work it off.
QueueWorkedOff ==
    <>[](state # "Paused" /\ tokens = Account) =>
        \A t \in TaskId :
            status[t] = "pending" ~> status[t] \in Terminal \/ t \in interrupted

-----------------------------------------------------------------------------
(* What comments say and the code does not keep.                             *)

\* handle_set_sync_mode: the engine "handles the actual migration".  With all
\* requests answered and all commands handled, the files of every account are
\* set up for the mode in the preferences.
ModeSwitchMigrates ==
    /\ \A c \in Client : request[c].step = "none"
    /\ cmds = <<>> /\ at = "select"
    => \A a \in tokens : layout[a] = cfg
=============================================================================
