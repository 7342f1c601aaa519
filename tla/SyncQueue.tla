----------------------------- MODULE SyncQueue -----------------------------
(***************************************************************************)
(* The sync_queue table and the part of the sync engine that works it off: *)
(* process_pending_tasks and, as far as the task's row is concerned, the   *)
(* upload, download, delete and photos_backup processors it calls.         *)
(*                                                                         *)
(* One engine task owns the processing; the IPC handlers, the VFS and the  *)
(* OAuth task insert rows at any time, and accounts come and go between    *)
(* any two awaits of the engine.  Every await that another actor can       *)
(* observe is a step of its own.  What the processors do to files and to   *)
(* Drive is not here: a run of a task succeeds or fails.                   *)
(***************************************************************************)
EXTENDS Integers, FiniteSets

CONSTANTS TaskId,       \* row ids of sync_queue
          Account,      \* account ids
          TaskKind,     \* operation, columns and priority a producer may insert
          CreatedAt,    \* created_at stamps
          MAX_RETRIES,  \* retries of a failing task
          BATCH,        \* iterations of the loop in process_pending_tasks
          MaxFaults,    \* bound: crashes and propagated errors in a behaviour
          Disconnectable, \* the accounts the user may disconnect
          None          \* "no task"

Operation == {"upload", "download", "delete", "photos_backup", "rename", "move"}

\* The operations process_pending_tasks has an arm for.
KnownOperation == {"upload", "download", "delete", "photos_backup"}

Kind == [operation : Operation, file_id : BOOLEAN, local_path : BOOLEAN,
         supported : BOOLEAN, priority : Int]

ASSUME QueueAssumption ==
    /\ MAX_RETRIES \in Nat
    /\ BATCH \in Nat
    /\ MaxFaults \in Nat
    /\ CreatedAt \subseteq Int /\ CreatedAt # {}
    /\ TaskKind \subseteq Kind /\ TaskKind # {}
    /\ Account # {} /\ Disconnectable \subseteq Account
    /\ None \notin TaskId

VARIABLES
    (* the database *)
    status,        \* sync_queue.status, "absent" before the row is inserted
    retry_count,   \* sync_queue.retry_count
    task,          \* the columns that never change once inserted
    sync_errors,   \* sync_errors[t]: t's row in sync_errors, by is_resolved
    (* the token store *)
    tokens,        \* accounts build_client_for_account may find a token for
    (* process_pending_tasks *)
    pc,            \* where the engine is in the loop body
    cur,           \* the task it fetched
    left,          \* iterations left
    (* history, read by the properties only *)
    attempts,      \* attempts[t]: times t was marked in_progress
    overtaken,     \* overtaken[t]: tasks behind t that started while t waited
    interrupted,   \* tasks whose processing a crash or a propagated error cut
    faults         \* crashes and propagated errors so far

dbVars == <<status, retry_count, task, sync_errors>>
engineVars == <<pc, cur, left>>
historyVars == <<attempts, overtaken, interrupted, faults>>
vars == <<dbVars, tokens, engineVars, historyVars>>

Status == {"absent", "pending", "in_progress", "completed", "failed"}

Column == [kind : TaskKind, account_id : Account, created_at : CreatedAt]

TypeOK ==
    /\ status \in [TaskId -> Status]
    /\ retry_count \in [TaskId -> Nat]
    /\ task \in [TaskId -> Column]
    /\ sync_errors \in [TaskId -> {"none", "unresolved", "resolved"}]
    /\ tokens \in SUBSET Account
    /\ pc \in {"idle", "fetch", "dispatch", "conflict", "start", "run", "record"}
    /\ cur \in TaskId \cup {None}
    /\ left \in 0..BATCH
    /\ attempts \in [TaskId -> Nat]
    /\ overtaken \in [TaskId -> Nat]
    /\ interrupted \in SUBSET TaskId
    /\ faults \in 0..MaxFaults

Init ==
    /\ status = [t \in TaskId |-> "absent"]
    /\ retry_count = [t \in TaskId |-> 0]
    /\ task = [t \in TaskId |-> CHOOSE c \in Column : TRUE]
    /\ sync_errors = [t \in TaskId |-> "none"]
    /\ tokens = Account
    /\ pc = "idle" /\ cur = None /\ left = 0
    /\ attempts = [t \in TaskId |-> 0]
    /\ overtaken = [t \in TaskId |-> 0]
    /\ interrupted = {}
    /\ faults = 0
-----------------------------------------------------------------------------
(* next_pending_task orders by priority, then created_at; rows equal in both *)
(* come in either order.                                                     *)

Ahead(t, u) ==
    \/ task[t].kind.priority < task[u].kind.priority
    \/ /\ task[t].kind.priority = task[u].kind.priority
       /\ task[t].created_at < task[u].created_at

\* Mutant: WHERE retry_count < MAX_RETRIES, the last retry is never fetched.
PendingWithRetriesLeft ==
    {t \in TaskId : status[t] = "pending" /\ retry_count[t] < MAX_RETRIES}

Pending == {t \in TaskId : status[t] = "pending"}

\* Mutant: a query without its ORDER BY.
AnyPendingTask(t) == t \in Pending

NextPendingTask(t) == t \in Pending /\ \A u \in Pending : ~Ahead(u, t)

-----------------------------------------------------------------------------
(* The producers and the token store.                                        *)

\* A row arrives: from the watcher's task, a poll, enqueue_mirror_downloads,
\* an fp.* handler or the VFS.  The stamp is the producer's, taken before the
\* insert, so rows need not arrive in the order of created_at.
Enqueue(t, column) ==
    /\ status[t] = "absent"
    /\ status' = [status EXCEPT ![t] = "pending"]
    /\ task' = [task EXCEPT ![t] = column]
    /\ UNCHANGED <<retry_count, sync_errors, tokens, engineVars, historyVars>>

\* auth.disconnect: the tokens and the account's row go, its tasks stay.
Disconnect(a) ==
    /\ a \in tokens \cap Disconnectable
    /\ tokens' = tokens \ {a}
    /\ UNCHANGED <<dbVars, engineVars, historyVars>>

\* The OAuth flow completes again for an account that was disconnected.
Connect(a) ==
    /\ a \notin tokens
    /\ tokens' = tokens \cup {a}
    /\ UNCHANGED <<dbVars, engineVars, historyVars>>

\* sync.retry_error: the row is marked resolved; nothing else happens.
RetryError(t) ==
    /\ sync_errors[t] = "unresolved"
    /\ sync_errors' = [sync_errors EXCEPT ![t] = "resolved"]
    /\ UNCHANGED <<status, retry_count, task, tokens, engineVars, historyVars>>

-----------------------------------------------------------------------------
(* process_pending_tasks: one iteration runs from "fetch" back to "fetch".   *)

\* The loop body is left; the next iteration fetches again.
Continue == pc' = "fetch" /\ cur' = None /\ UNCHANGED left

\* Mutant: for _ in 0..=10.
BeginBatchInclusive ==
    /\ pc = "idle"
    /\ pc' = "fetch" /\ left' = BATCH + 1 /\ UNCHANGED cur
    /\ UNCHANGED <<dbVars, tokens, historyVars>>

\* handle_remote_poll or handle_watcher_task calls process_pending_tasks.
BeginBatch ==
    /\ pc = "idle"
    /\ pc' = "fetch" /\ left' = BATCH /\ UNCHANGED cur
    /\ UNCHANGED <<dbVars, tokens, historyVars>>

FetchTask(t) ==
    /\ pc = "fetch" /\ left > 0
    /\ NextPendingTask(t)
    /\ pc' = "dispatch" /\ cur' = t /\ left' = left - 1
    /\ UNCHANGED <<dbVars, tokens, historyVars>>

\* The queue is drained, or the iterations are used up.
EndBatch ==
    /\ pc = "fetch"
    /\ left = 0 \/ Pending = {}
    /\ pc' = "idle" /\ left' = 0 /\ UNCHANGED cur
    /\ UNCHANGED <<dbVars, tokens, historyVars>>

\* No arm for the operation: the task is marked completed, nothing is done.
UnknownOperation ==
    /\ pc = "dispatch"
    /\ task[cur].kind.operation \notin KnownOperation
    /\ status' = [status EXCEPT ![cur] = "completed"]
    /\ Continue
    /\ UNCHANGED <<retry_count, task, sync_errors, tokens, historyVars>>

\* Mutant: a deferred task does not use up an iteration.
DeferTaskUncounted ==
    /\ pc = "dispatch"
    /\ task[cur].kind.operation \in KnownOperation
    /\ pc' = "fetch" /\ cur' = None /\ left' = left + 1
    /\ UNCHANGED <<dbVars, tokens, historyVars>>

\* build_client_for_account found no token, or its refresh failed: the row is
\* left as it is, pending, and the loop goes on.
DeferTask ==
    /\ pc = "dispatch"
    /\ task[cur].kind.operation \in KnownOperation
    /\ Continue
    /\ UNCHANGED <<dbVars, tokens, historyVars>>

BuildClient ==
    /\ pc = "dispatch"
    /\ task[cur].kind.operation \in KnownOperation
    /\ task[cur].account_id \in tokens
    /\ pc' = IF /\ task[cur].kind.operation = "upload"
                /\ task[cur].kind.file_id /\ task[cur].kind.local_path
             THEN "conflict" ELSE "start"
    /\ UNCHANGED <<cur, left, dbVars, tokens, historyVars>>

\* check_and_resolve returned Ok(Some(())): it marked the task completed.  That
\* takes a row with an etag, which no request of this program asks for
\* (Transfers); the queue is safe with it and without.
ResolveConflict ==
    /\ pc = "conflict"
    /\ status' = [status EXCEPT ![cur] = "completed"]
    /\ Continue
    /\ UNCHANGED <<retry_count, task, sync_errors, tokens, historyVars>>

\* It returned Ok(None) or an error: the normal upload follows.
NoConflict ==
    /\ pc = "conflict"
    /\ pc' = "start"
    /\ UNCHANGED <<cur, left, dbVars, tokens, historyVars>>

\* Mutant: the retry is not charged.
NewRetryUncharged(t) == retry_count[t]

NewRetry(t) == retry_count[t] + 1

\* Mutant: one retry too many.
OutOfRetriesLate(t) == retry_count[t] > MAX_RETRIES

OutOfRetries(t) == NewRetry(t) > MAX_RETRIES

\* Mutant: deletions forget the sync_errors row.
RecordsErrorForTransfers(t) == task[t].kind.operation \in {"upload", "download"}

\* Only photos_backup reports its failures by a push alone.
RecordsError(t) == task[t].kind.operation # "photos_backup"

\* handle_*_failure of the four processors.  The last failure sets the status
\* without touching retry_count.
HandleFailure ==
    IF OutOfRetries(cur)
    THEN /\ status' = [status EXCEPT ![cur] = "failed"]
         /\ UNCHANGED retry_count
         /\ IF RecordsError(cur)
            THEN pc' = "record" /\ UNCHANGED <<cur, left>>
            ELSE Continue
    ELSE /\ status' = [status EXCEPT ![cur] = "pending"]
         /\ retry_count' = [retry_count EXCEPT ![cur] = NewRetry(cur)]
         /\ Continue

\* The columns a processor insists on before it touches the row.
HasColumns(kind) ==
    CASE kind.operation = "download" -> kind.file_id /\ kind.local_path
      [] kind.operation \in {"upload", "photos_backup"} -> kind.local_path
      [] OTHER -> TRUE

SkipTask ==
    /\ pc = "start"
    /\ ~HasColumns(task[cur].kind)
    /\ status' = [status EXCEPT ![cur] = "completed"]
    /\ Continue
    /\ UNCHANGED <<retry_count, task, sync_errors, tokens, historyVars>>

\* backup_photo rejects the format before it marks the task in progress.
RejectPhoto ==
    /\ pc = "start"
    /\ HasColumns(task[cur].kind)
    /\ task[cur].kind.operation = "photos_backup" /\ ~task[cur].kind.supported
    /\ HandleFailure
    /\ UNCHANGED <<task, sync_errors, tokens, historyVars>>

StartTask ==
    /\ pc = "start"
    /\ HasColumns(task[cur].kind)
    /\ task[cur].kind.operation = "photos_backup" => task[cur].kind.supported
    /\ status' = [status EXCEPT ![cur] = "in_progress"]
    /\ pc' = "run"
    /\ attempts' = [attempts EXCEPT ![cur] = @ + 1]
    /\ overtaken' = [t \in TaskId |->
                        IF t \in Pending /\ Ahead(t, cur)
                        THEN overtaken[t] + 1 ELSE overtaken[t]]
    /\ UNCHANGED <<cur, left, retry_count, task, sync_errors, tokens,
                   interrupted, faults>>

\* Mutant: a return before update_task_status(.., "completed", ..).
TaskSucceedsUnsaved ==
    /\ pc = "run"
    /\ Continue
    /\ UNCHANGED <<dbVars, tokens, historyVars>>

TaskSucceeds ==
    /\ pc = "run"
    /\ status' = [status EXCEPT ![cur] = "completed"]
    /\ Continue
    /\ UNCHANGED <<retry_count, task, sync_errors, tokens, historyVars>>

\* A delete with a file_id (handle_remote_delete), or with nothing to delete,
\* calls nothing that can fail but the database.
TaskFails ==
    /\ pc = "run"
    /\ task[cur].kind.operation = "delete" =>
          ~task[cur].kind.file_id /\ task[cur].kind.local_path
    /\ HandleFailure
    /\ UNCHANGED <<task, sync_errors, tokens, historyVars>>

RecordError ==
    /\ pc = "record"
    /\ sync_errors' = [sync_errors EXCEPT ![cur] = "unresolved"]
    /\ Continue
    /\ UNCHANGED <<status, retry_count, task, tokens, historyVars>>

-----------------------------------------------------------------------------
(* Faults.                                                                   *)

\* The task whose processing is lost if the engine stops here: its row says
\* in_progress, or failed with the sync_errors row still to come.
Exposed == IF pc \in {"run", "record"} THEN {cur} ELSE {}

\* A query of the current step fails, or create_dir_all in download_file.  The
\* processor passes the error on with ? (or logs it, for insert_error), the row
\* keeps what it had, the loop goes on; a failed fetch ends the batch.  An error
\* inside check_and_resolve falls through to the upload (NoConflict), building a
\* client asks no database.
PropagatedError ==
    /\ faults < MaxFaults
    /\ \/ pc \in {"fetch", "start", "run", "record"}
       \/ pc = "dispatch" /\ task[cur].kind.operation \notin KnownOperation
    /\ IF pc = "fetch"
       THEN pc' = "idle" /\ left' = 0 /\ UNCHANGED cur
       ELSE Continue
    /\ interrupted' = interrupted \cup Exposed
    /\ faults' = faults + 1
    /\ UNCHANGED <<dbVars, tokens, attempts, overtaken>>

\* The daemon dies and is started again: main runs the migrations and starts
\* the engine; nothing looks at the rows the dead engine left in progress.
CrashAndRestart ==
    /\ faults < MaxFaults
    /\ pc' = "idle" /\ cur' = None /\ left' = 0
    /\ interrupted' = interrupted \cup Exposed
    /\ faults' = faults + 1
    /\ UNCHANGED <<dbVars, tokens, attempts, overtaken>>

-----------------------------------------------------------------------------
Produce == \E t \in TaskId, column \in Column : Enqueue(t, column)

ProcessTask ==
    \/ UnknownOperation \/ DeferTask \/ BuildClient
    \/ ResolveConflict \/ NoConflict
    \/ SkipTask \/ RejectPhoto \/ StartTask
    \/ TaskSucceeds \/ TaskFails \/ RecordError

Next ==
    \/ Produce
    \/ \E a \in Account : Disconnect(a) \/ Connect(a)
    \/ BeginBatch \/ EndBatch
    \/ \E t \in TaskId : RetryError(t)
    \/ \E t \in TaskId : FetchTask(t)
    \/ ProcessTask
    \/ PropagatedError \/ CrashAndRestart

Spec == Init /\ [][Next]_vars

(* Fairness: the 30 s interval starts a batch again and again, an HTTP call   *)
(* or a query that was started returns, and an account that keeps its tokens  *)
(* gets a client sooner or later.                                             *)
Fairness ==
    /\ WF_vars(BeginBatch) /\ WF_vars(EndBatch)
    /\ WF_vars(\E t \in TaskId : FetchTask(t))
    /\ WF_vars(ProcessTask)
    /\ SF_vars(BuildClient)

FairSpec == Spec /\ Fairness

-----------------------------------------------------------------------------
(* Safety.                                                                   *)

Terminal == {"completed", "failed"}

\* handle_*_failure gives a task MAX_RETRIES retries: it is never marked in
\* progress more than MAX_RETRIES + 1 times, however runs, crashes and propagated
\* errors interleave, and it is never given up before its retries are used.
RetryBudget ==
    \A t \in TaskId :
        /\ attempts[t] <= retry_count[t] + 1
        /\ retry_count[t] <= MAX_RETRIES
        /\ status[t] = "failed" => retry_count[t] = MAX_RETRIES

\* Every task the engine gave up on has its row in sync_errors for the UI to
\* list, unless the engine is about to write that row or was cut off before it did.
\* (photos_backup writes none: its failure is pushed as an event only.)
FailureReported ==
    \A t \in TaskId :
        status[t] = "failed" /\ task[t].kind.operation # "photos_backup" =>
            \/ sync_errors[t] # "none" \/ t \in interrupted
            \/ pc = "record" /\ cur = t

\* A row says in_progress only while the engine works on it, unless a crash or
\* a propagated error cut that work off: no ordinary path leaves a task behind.
NoTaskLeftBehind ==
    \A t \in TaskId :
        status[t] = "in_progress" =>
            t \in interrupted \/ (pc = "run" /\ cur = t)

\* next_pending_task is asked anew for every task, so a task that should go
\* first (a user is waiting for an fp.fetch_contents or a VFS read) is passed
\* by at most one task in its whole life: the one already fetched when it came.
BoundedOvertaking == \A t \in TaskId : overtaken[t] <= 1

-----------------------------------------------------------------------------
(* Liveness, under FairSpec.                                                 *)

\* If from some time on every account has its tokens, a queued task is completed
\* or given up, also after disconnects and crashes, unless a crash or a
\* propagated error cut the task's own run off.
TasksSettle ==
    <>[](tokens = Account) =>
        \A t \in TaskId :
            status[t] = "pending" ~> status[t] \in Terminal \/ t \in interrupted

\* "Processes up to 10 tasks per invocation to keep the event loop responsive":
\* a batch ends, also when the head of the queue can never be processed.
BatchEnds == pc # "idle" ~> pc = "idle"

-----------------------------------------------------------------------------
(* What the comments of the code promise and the code does not keep.         *)

\* reset_in_progress_to_pending: "Called at startup for crash recovery".  When
\* no batch is running, no task is left in progress.
CrashRecovery == pc = "idle" => \A t \in TaskId : status[t] # "in_progress"

-----------------------------------------------------------------------------
(* SyncQueue implements TaskLifecycle.                                       *)

PhaseOf(s) ==
    CASE s = "absent" -> "new"
      [] s = "pending" -> "waiting"
      [] s = "in_progress" -> "running"
      [] s = "completed" -> "done"
      [] s = "failed" -> "given_up"

Lifecycle == INSTANCE TaskLifecycle
    WITH phase <- [t \in TaskId |-> PhaseOf(status[t])],
         failures <- retry_count

\* The queue keeps what TaskLifecycle promises of every task.
ImplementsLifecycle == Lifecycle!LifecycleSpec
=============================================================================
