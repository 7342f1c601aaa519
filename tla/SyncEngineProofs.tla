-------------------------- MODULE SyncEngineProofs --------------------------
(***************************************************************************)
(* The engine's loop keeps the queue's specification, so every theorem of  *)
(* SyncQueueProofs holds of the whole engine; and a pause holds.           *)
(***************************************************************************)
EXTENDS SyncEngine, SyncQueueProofs

\* A pause is only ever seen while the loop waits in its select, and a batch
\* only runs in the two branches that start one.
LoopFocus ==
    /\ state = "Paused" => at = "select"
    /\ pc # "idle" => at \in {"poll_batch", "watch_batch"}
    /\ pc = "idle" => left = 0

EngineInv == IInv /\ LoopTypeOK /\ LoopFocus

USE EngineAssumption

-----------------------------------------------------------------------------
\* Each step of the loop is a step of the queue, or leaves the queue alone: a
\* query that fails outside a batch looks to the queue like a restart.
LEMMA EngineStepIsQueueStep ==
    EngineInv /\ [EngineNext]_allVars => [Next]_vars
<1> SUFFICES ASSUME EngineInv, [EngineNext]_allVars PROVE [Next]_vars
  OBVIOUS
<1>1. CASE Handlers
  BY <1>1 DEF Handlers, SendCommand, SetSyncMode, SendSwitchMode, PrefsSave, PrefsWrite
<1>2. CASE World
  BY <1>2 DEF World, WatchEvent, Insert, AccountLeaves, AccountJoins,
     Next, Produce
<1>3. CASE HandleCommand \/ PollBegin
  BY <1>3 DEF HandleCommand, HandlePause, HandleResume, HandleModeSwitch, PollBegin
<1>4. ASSUME QueryFails, pc = "idle" PROVE CrashAndRestart
  BY <1>4 DEF QueryFails, CrashAndRestart, Exposed, EngineInv, IInv, EngineFocus,
     LoopFocus, TypeOK, engineVars
<1>5. CASE ReceiveTask
  <2>1. PICK t \in TaskId : DropWatcherTask(t) \/ HandleWatcherTask(t)
    BY <1>5 DEF ReceiveTask
  <2>2. CASE HandleWatcherTask(t)
    BY <2>2 DEF HandleWatcherTask, Next, Produce
  <2>3. CASE DropWatcherTask(t)
    BY <2>3, <1>4 DEF DropWatcherTask, NextWatcherTask, EngineInv, LoopFocus, Next
  <2> QED
    BY <2>1, <2>2, <2>3
<1>6. CASE Proceed
  <2>1. CASE SwitchList
    BY <2>1, <1>4 DEF SwitchList, EngineInv, LoopFocus, Next
  <2>2. CASE SwitchDone \/ PollDone \/ \E a \in Account : SwitchAccount(a) \/ PollAccount(a)
    BY <2>2 DEF SwitchDone, PollDone, SwitchAccount, PollAccount
  <2>3. CASE StartBatch \/ Work \/ FinishBatch
    BY <2>3 DEF StartBatch, Work, FinishBatch, Next
  <2> QED
    BY <1>6, <2>1, <2>2, <2>3 DEF Proceed
<1>7. CASE WorkError \/ Restart
  BY <1>7 DEF WorkError, Restart, Next
<1>8. CASE UNCHANGED allVars
  BY <1>8 DEF allVars
<1> QED
  BY <1>1, <1>2, <1>3, <1>5, <1>6, <1>7, <1>8 DEF EngineNext
-----------------------------------------------------------------------------
\* The invariant holds at the start.
LEMMA EngineInitInv == EngineInit => EngineInv
<1> SUFFICES ASSUME EngineInit PROVE EngineInv
  OBVIOUS
<1>1. IInv
  BY InitIInv DEF EngineInit
<1>2. LoopTypeOK
  BY DEF EngineInit, LoopTypeOK, NoRequest, Mode
<1>3. LoopFocus
  BY DEF EngineInit, Init, LoopFocus
<1> QED
  BY <1>1, <1>2, <1>3 DEF EngineInv

\* The channels, the preferences and the requests keep their types.
LEMMA LoopTypeKept == EngineInv /\ [EngineNext]_allVars => LoopTypeOK'
<1> SUFFICES ASSUME EngineInv, [EngineNext]_allVars PROVE LoopTypeOK'
  OBVIOUS
<1> USE DEF EngineInv, LoopTypeOK, loopVars, watchVars, shellVars
<1>1. CASE Handlers
  <2>1. ASSUME NEW cmd \in Command, Send(cmd)
        PROVE  cmds' \in Seq(Command) /\ Len(cmds') <= CMD_CAPACITY
    BY <2>1 DEF Send
  <2>2. ASSUME NEW cmd \in {"Pause", "Resume"}, SendCommand(cmd) PROVE LoopTypeOK'
    BY <2>1, <2>2 DEF SendCommand, Command
  <2>3. ASSUME NEW c \in Client, NEW mode \in SwitchModes, SetSyncMode(c, mode)
        PROVE  LoopTypeOK'
    BY <2>3 DEF SetSyncMode
  <2>4. ASSUME NEW c \in Client, SendSwitchMode(c) PROVE LoopTypeOK'
    <3>1. request[c].mode \in Command
      BY <2>4 DEF Command
    <3> QED
      BY <2>1, <2>4, <3>1 DEF SendSwitchMode, NoRequest, Mode
  <2>5. ASSUME NEW c \in Client, NEW mode \in PrefsModes, PrefsSave(c, mode)
        PROVE  LoopTypeOK'
    BY <2>5 DEF PrefsSave
  <2>6. ASSUME NEW c \in Client, PrefsWrite(c) PROVE LoopTypeOK'
    BY <2>6 DEF PrefsWrite, NoRequest, Mode
  <2> QED
    BY <1>1, <2>2, <2>3, <2>4, <2>5, <2>6 DEF Handlers
<1>2. CASE World
  <2>1. ASSUME NEW t \in TaskId, WatchEvent(t) PROVE LoopTypeOK'
    <3>1. watch' \in Seq(FromWatcher) /\ Len(watch') <= WATCH_CAPACITY
      <4>1. CASE Len(watch) < WATCH_CAPACITY
        <5>1. watch' = Append(watch, t) /\ t \in FromWatcher
          BY <2>1, <4>1 DEF WatchEvent
        <5>2. watch' \in Seq(FromWatcher) /\ Len(watch') = Len(watch) + 1
          BY <5>1
        <5>3. Len(watch) \in Nat /\ WATCH_CAPACITY \in Nat
          BY EngineAssumption
        <5> QED
          BY <4>1, <5>2, <5>3
      <4>2. CASE ~(Len(watch) < WATCH_CAPACITY)
        BY <2>1, <4>2 DEF WatchEvent
      <4> QED
        BY <4>1, <4>2
    <3>2. noticed' \in SUBSET FromWatcher /\ dropped' \in SUBSET FromWatcher
      BY <2>1 DEF WatchEvent
    <3> QED
      BY <2>1, <3>1, <3>2 DEF WatchEvent
  <2>2. ASSUME NEW a \in Account, AccountJoins(a) PROVE LoopTypeOK'
    BY <2>2 DEF AccountJoins
  <2>3. ASSUME UNCHANGED shellVars PROVE LoopTypeOK'
    BY <2>3
  <2> QED
    BY <1>2, <2>1, <2>2, <2>3 DEF World, Insert, AccountLeaves
<1>3. CASE HandleCommand
  <2>1. ASSUME NEW cmd \in Command, NextCommand(cmd)
        PROVE  cmds' \in Seq(Command) /\ Len(cmds') <= CMD_CAPACITY
    BY <2>1 DEF NextCommand
  <2>2. CASE HandlePause \/ HandleResume
    BY <2>1, <2>2 DEF HandlePause, HandleResume, Command
  <2>3. ASSUME NEW mode \in Mode, HandleModeSwitch(mode) PROVE LoopTypeOK'
    BY <2>1, <2>3 DEF HandleModeSwitch, Command
  <2> QED
    BY <1>3, <2>2, <2>3 DEF HandleCommand
<1>4. CASE PollBegin
  BY <1>4 DEF PollBegin, IInv, TypeOK
<1>5. CASE ReceiveTask
  <2>1. PICK t \in TaskId : DropWatcherTask(t) \/ HandleWatcherTask(t)
    BY <1>5 DEF ReceiveTask
  <2>2. NextWatcherTask(t)
    BY <2>1 DEF DropWatcherTask, HandleWatcherTask
  <2>3. watch' \in Seq(FromWatcher) /\ Len(watch') <= WATCH_CAPACITY /\ t \in FromWatcher
    BY <2>2 DEF NextWatcherTask
  <2> QED
    BY <2>1, <2>2, <2>3 DEF DropWatcherTask, HandleWatcherTask, NextWatcherTask
<1>6. CASE Proceed
  <2>1. CASE SwitchList
    BY <2>1 DEF SwitchList, IInv, TypeOK
  <2>2. CASE SwitchDone \/ PollDone
    BY <2>2 DEF SwitchDone, PollDone
  <2>3. ASSUME NEW a \in Account, SwitchAccount(a) \/ PollAccount(a) PROVE LoopTypeOK'
    BY <2>3 DEF SwitchAccount, PollAccount
  <2>4. CASE StartBatch \/ Work
    BY <2>4 DEF StartBatch, Work
  <2>5. CASE FinishBatch
    BY <2>5 DEF FinishBatch, BatchReturns
  <2> QED
    BY <1>6, <2>1, <2>2, <2>3, <2>4, <2>5 DEF Proceed
<1>7. CASE WorkError
  BY <1>7 DEF WorkError, BatchReturns
<1>8. CASE Restart
  BY <1>8 DEF Restart, NoRequest, Mode
<1>9. CASE UNCHANGED allVars
  BY <1>9 DEF allVars
<1> QED
  BY <1>1, <1>2, <1>3, <1>4, <1>5, <1>6, <1>7, <1>8, <1>9 DEF EngineNext

\* Every branch of the select leaves Paused before it leaves the select, and
\* only the branches that start a batch have one running.
LEMMA LoopFocusKept == EngineInv /\ [EngineNext]_allVars => LoopFocus'
<1> SUFFICES ASSUME EngineInv, [EngineNext]_allVars PROVE LoopFocus'
  OBVIOUS
<1> USE DEF EngineInv, LoopFocus, loopVars, watchVars, shellVars, vars, engineVars
<1>1. CASE Handlers
  BY <1>1 DEF Handlers, SendCommand, SetSyncMode, SendSwitchMode, PrefsSave, PrefsWrite
<1>2. CASE World
  BY <1>2 DEF World, WatchEvent, Insert, Enqueue,
     AccountLeaves, Disconnect, AccountJoins, Connect
<1>3. CASE HandleCommand \/ PollBegin
  BY <1>3 DEF HandleCommand, NextCommand, HandlePause, HandleResume,
     HandleModeSwitch, PollBegin
<1>4. CASE ReceiveTask
  BY <1>4 DEF ReceiveTask, NextWatcherTask, DropWatcherTask, QueryFails,
     HandleWatcherTask, Enqueue
<1>5. CASE Proceed
  <2>1. CASE SwitchList
    BY <2>1 DEF SwitchList, QueryFails
  <2>2. CASE SwitchDone \/ PollDone \/ \E a \in Account : SwitchAccount(a) \/ PollAccount(a)
    BY <2>2 DEF SwitchDone, PollDone, SwitchAccount, PollAccount
  <2>3. CASE StartBatch
    BY <2>3 DEF StartBatch, BeginBatch
  <2>4. CASE Work
    BY <2>4 DEF Work, FetchTask, ProcessTask, UnknownOperation, DeferTask,
       BuildClient, ResolveConflict, NoConflict, SkipTask, RejectPhoto, StartTask,
       TaskSucceeds, TaskFails, RecordError, HandleFailure, Continue
  <2>5. CASE FinishBatch
    BY <2>5 DEF FinishBatch, EndBatch, BatchReturns
  <2> QED
    BY <1>5, <2>1, <2>2, <2>3, <2>4, <2>5 DEF Proceed
<1>6. CASE WorkError
  BY <1>6 DEF WorkError, PropagatedError, Continue, BatchReturns
<1>7. CASE Restart
  BY <1>7 DEF Restart, CrashAndRestart
<1>8. CASE UNCHANGED allVars
  BY <1>8 DEF allVars
<1> QED
  BY <1>1, <1>2, <1>3, <1>4, <1>5, <1>6, <1>7, <1>8 DEF EngineNext

-----------------------------------------------------------------------------
\* The inductive invariant of the engine.
THEOREM EngineInvariance == EngineSpec => []EngineInv
<1>1. EngineInv /\ [EngineNext]_allVars => EngineInv'
  BY EngineStepIsQueueStep, NextIInv, LoopTypeKept, LoopFocusKept DEF EngineInv
<1> QED
  BY EngineInitInv, <1>1, PTL DEF EngineSpec

\* Channels stay within their capacity and all variables of the engine, its
\* queue and the IPC handlers keep their types.
THEOREM EngineTypeCorrect == EngineSpec => []EngineTypeOK
<1>1. EngineInv => EngineTypeOK
  BY DEF EngineInv, IInv, EngineTypeOK
<1> QED
  BY <1>1, EngineInvariance, PTL

\* The engine only ever uses the queue as SyncQueue allows, whatever the order
\* of commands, polls, watcher tasks, mode switches and restarts.
THEOREM EngineKeepsQueue == EngineSpec => Spec
<1>1. EngineInit => Init
  BY DEF EngineInit
<1> QED
  BY <1>1, EngineInvariance, EngineStepIsQueueStep, PTL DEF EngineSpec, Spec

\* While the engine is paused no task is started, and only a command or a
\* restart ends the pause.
THEOREM PauseIsKept == EngineSpec => PauseHolds
<1> DEFINE Held ==
      state = "Paused" =>
         /\ attempts' = attempts
         /\ state' # "Paused" =>
              \/ faults' # faults
              \/ /\ cmds # <<>> /\ Head(cmds) # "Pause"
                 /\ cmds' = Tail(cmds)
<1>1. EngineInv /\ [EngineNext]_allVars => [Held]_allVars
  <2> SUFFICES ASSUME EngineInv, EngineNext, state = "Paused" PROVE Held
    OBVIOUS
  <2>0. at = "select" /\ pc = "idle"
    BY DEF EngineInv, LoopFocus
  <2> USE DEF loopVars, shellVars, vars, historyVars
  <2>1. CASE Handlers
    BY <2>1 DEF Handlers, SendCommand, SetSyncMode, SendSwitchMode, PrefsSave, PrefsWrite
  <2>2. CASE World
    BY <2>2 DEF World, WatchEvent, Insert, Enqueue,
       AccountLeaves, Disconnect, AccountJoins, Connect
  <2>3. CASE HandleCommand \/ PollBegin
    BY <2>3 DEF HandleCommand, NextCommand, HandlePause, HandleResume,
       HandleModeSwitch, PollBegin, Mode
  <2>4. CASE ReceiveTask
    BY <2>4 DEF ReceiveTask, DropWatcherTask, QueryFails, HandleWatcherTask
  <2>5. CASE Proceed
    BY <2>0, <2>5 DEF Proceed, SwitchList, SwitchDone, PollDone, SwitchAccount,
       PollAccount, StartBatch, Work, FinishBatch, EndBatch, FetchTask, ProcessTask,
       UnknownOperation, DeferTask, BuildClient, ResolveConflict, NoConflict,
       SkipTask, RejectPhoto, StartTask, TaskSucceeds, TaskFails, RecordError
  <2>6. CASE WorkError
    BY <2>0, <2>6 DEF WorkError, PropagatedError
  <2>7. CASE Restart
    <3>1. faults \in Nat /\ faults' = faults + 1 /\ attempts' = attempts
      BY <2>7 DEF Restart, CrashAndRestart, EngineInv, IInv, TypeOK
    <3> QED
      BY <3>1
  <2> QED
    BY <2>1, <2>2, <2>3, <2>4, <2>5, <2>6, <2>7 DEF EngineNext
<1> QED
  BY <1>1, EngineInvariance, PTL DEF EngineSpec, PauseHolds
=============================================================================
