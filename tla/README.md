# TLA+ models of gdriver

gdriver is a Google Drive client: a daemon (`crates/gdriver-daemon`) keeps an
SQLite database in step with Google Drive and with local folders, and a desktop
application, file manager extensions and a virtual filesystem talk to it. The
modules here model the daemon's core (task queue, main loop, feed of changes from
Drive, watcher of local folders), the virtual filesystem on its three platforms,
the transfer of a file over the Drive client with its tokens, and the IPC between
the daemon and its clients with the preferences behind it. TLC checks them on
small instances and TLAPS proves the safety properties for every instance. Paths below are relative to `src/`; `PROJECT.json` maps every
definition to its lines and lists what is hard to test in the code ("hazards")
with the properties about it.

## 1. The system

### Parts

| Part | State | Operations | Hard about it |
|---|---|---|---|
| Sync queue: `db/queue.rs`, `process_pending_tasks` in `sync/engine.rs`, the processors `uploader`, `downloader`, `deleter`, `photos`, `conflict` | table `sync_queue` (operation, columns, priority, status, retry_count), table `sync_errors`; the task in hand | enqueue by five producers; fetch, mark in_progress, run, complete, retry, give up | crash between two writes; four copies of the failure handler; accounts that vanish under a task; unbounded reordering by priority |
| Engine loop: `sync/engine.rs` | state Idle/Scanning/Syncing/Paused, command channel (32), watcher channel (128), shared preferences | `select!` over commands, 30 s poll, watcher tasks; mode switch | commands wait behind a batch; full channels; handlers racing on the preferences |
| Change feed: `sync/initial.rs`, `sync/incremental.rs`, `db/files.rs`, `db/tokens.rs` | tables `drive_files`, `sync_tokens`; listing and pages in hand | start token, listing, upserts, mirror pass; page by page poll, token save | two tasks write the same rows without a transaction; failures and crashes between pages |
| Watcher: `watcher/mod.rs` | debounce map, folder map, `notify` stream | event, tick, reload, scan | events coalesced within 300 ms, dropped when the channel is full |
| Transfers: `uploader`, `downloader`, `deleter`, `photos`, `conflict`, `gdriver-api/src/files.rs` | local file, its row, the file on Drive, an upload session | conflict check, multipart and resumable upload, download, trash, photo backup | edits during a transfer; lost answers; sessions that stand still |
| Drive client: `gdriver-api/src/client.rs` | access token | requests with one refresh and a number of retries | answers lost after the effect |
| Tokens: `auth/token_store.rs`, `gdriver-api/src/auth.rs` | keyring, cached access tokens, `accounts` | login, refresh with rotation, disconnect | the three interleave |
| IPC: `ipc/server.rs`, `ipc/handlers.rs`, `crates/gdriver-ipc`, `daemon_client.rs` of the desktop application | connections, push broadcast, pending map | one handler per method; calls, answers, pushes | handlers of different connections interleave; cancelled reads; lagging receivers; late answers |
| Preferences: `config/mod.rs` | `Preferences` in memory, in a file, in a temporary file | save, load | two saves at once, a crash between the steps of one |
| Virtual filesystem: `crates/gdriver-vfs` | inode rows, cache files, open handles | lookup ... read, write, flush, rename, unlink, per platform | waits for the queue with a timeout; shares rows and cache files with the engine |
| `crates/gdriver-sync`, desktop frontend, extensions, platform code | - | - | types, forwarding, user interface |

### How they interact

The engine is one task and the only one that works off `sync_queue`. Rows come
from the watcher (over a channel, through the engine), from polls and mode
switches (the engine itself), and straight into the database from the IPC
handlers, the OAuth task's mirror pass and the virtual filesystem. Pause, resume
and mode switches reach the engine over the command channel. The OAuth task runs
`initial_sync` beside the engine's polls on the same tables. `auth.disconnect`
deletes tokens and the account's row at any moment. The callbacks of the virtual
filesystem run on threads of their own, share `drive_files` and the cache
directory with the engine, and wait for it by looking at a row again and again.
A request over IPC is handled inside its connection's task, so two connections
interleave and one does not. Everything but the database, the keyring, the cache
and the preferences file is lost in a crash.

### What makes each part correct

* Queue: a task is tried a bounded number of times, ends in a final state that no
  later step changes, is reported when given up, is never forgotten, and waits
  behind at most one less urgent task.
* Engine: a pause holds and is obeyed; requests are answered; the engine does not
  report syncing for ever; the timer alone is enough to work off the queue.
* Feed: no change on Drive is skipped by the stored token; what changed arrives.
* Watcher: when it is quiet, what the engine was last told of a file agrees with
  the disk, but for known losses; added folders are watched; channels keep their
  capacity.
* Virtual filesystem: a read returns its own file at the announced version or a
  newer one, or an error, within its timeout; a row that says cached is right.
* Transfers: a request is sent a bounded number of times; over all its runs a task
  makes one file, and another one only where an answer was lost; a row stands for a file that is really there; a job
  ends; work is not lost (it is, see below).
* Tokens: the refresh token kept is one that Google still accepts.
* Preferences: the file is whole, and says what memory says.
* IPC: an answer reaches the call it answers; what is answered is done; every call
  returns; the last push arrives.

## 2. Modules

| Module | Models | Composition |
|---|---|---|
| `TaskLifecycle` | the abstract life of one task: waiting, running, waiting again with one more failure, done or given up | implemented by `SyncQueue` |
| `SyncQueue` | the queue, its producers, tokens, the engine inside a batch | |
| `SyncEngine` | the loop, its channels, the handlers | extends `SyncQueue`; its steps in a batch are `SyncQueue`'s |
| `ChangesFeed` | `drive_files` of one account against Drive | on its own |
| `Watcher` | local files and folders against the tasks the engine is sent | on its own; `SyncEngine` has its end of the channel |
| `VfsStore` | rows, cache files, queue; the engine's and the poll's side of them | extended by the platforms |
| `FuseFs`, `MacFs`, `WinFs` | the callbacks of `linux.rs`, `macos.rs`, `windows.rs` | extend `VfsStore`; macOS is FUSE under its own names |
| `VirtualFs` | mount, the platforms, the engine, unmount | composes the three |
| `TokenStore` | keyring and cache, login, refresh, disconnect | |
| `DriveClient` | one request with its retries and refresh | extends `TokenStore`: the refresh is its |
| `Transfers` | the jobs of the engine on one file | composes `DriveClient` and `TokenStore` |
| `Handlers` | the handlers by their effect; preferences and their file | |
| `Ipc` | connections, the two kinds of client, pushes | extends `Handlers`: a connection task runs one |
| `SyncQueueProofs`, `SyncEngineProofs`, `ChangesFeedProofs`, `WatcherProofs`, `VirtualFsProofs`, `TransfersProofs`, `IpcProofs` | theorems | extend their module |
| `MCSyncQueue`, `MCSyncEngine`, `MCWatcher`, `MCVirtualFs` | the kinds of task, the folders and the paths for TLC | the others are run as they are |

### SyncQueue

`status`, `retry_count`, `task` are the columns of `sync_queue`; `sync_errors[t]`
is the error row of a task. `pc` is the await the engine is at within the loop
body: each step ends where another actor can see or change the database.
`FetchTask`, `UnknownOperation`, `DeferTask` (no client), `BuildClient`,
`ResolveConflict`/`NoConflict`, `SkipTask` and `RejectPhoto` (early returns),
`StartTask`, `TaskSucceeds`, `TaskFails`, `RecordError` follow one iteration;
`PropagatedError` is a `?` that leaves the processor in the middle (for example
`create_dir_all` in the downloader), `CrashAndRestart` the death of the daemon.
A run of a task succeeds or fails; what it does to bytes is in `Transfers`. A
task's kind says which columns are set, which is what the early returns look at.
`ResolveConflict` is in the code, but no row of the database leads to it (see
`Transfers`).
History variables: `attempts`, `overtaken`, `interrupted`, `faults`.

### SyncEngine

`at` is the branch of `select!` the loop is in. `HandlePause`, `HandleResume`,
`HandleModeSwitch` take the head of `cmds`; `PollBegin`, `PollAccount`,
`PollDone` are `handle_remote_poll`; `HandleWatcherTask` and `DropWatcherTask`
are `handle_watcher_task`; `StartBatch`, `Work`, `FinishBatch` run `SyncQueue`'s
steps. `cfg` is the sync mode in the shared preferences, and `request[c]` what
the handler of connection c still has to do, so that `system.set_sync_mode` is its
write and then its send. `layout[a]` says for which mode the files of an account
were last set up. A `prefs.save` whose file cannot be written changes nothing
here and is no step; the file is `Handlers`' subject. `sync.retry_error` writes a
column the loop never reads and is left to `SyncQueue`.

### ChangesFeed

Drive numbers its changes; a page token is a position in that numbering, and a
page returns for each file its last change after the token. `GetStartPageToken`,
`SaveStartPageToken`, `ListFiles`, `UpsertListed`, `EnqueueMirrorDownload` are
`initial_sync`; `PollBegin`, `ListChanges`, `ApplyChange`, `SaveToken`
`incremental_sync`; `BeginWork`, `FinishWork` the row a download or a remote
delete reads before and writes after its transfer. `Put` is `upsert_file`: it
overwrites, whatever is there. Abstractions: one OAuth flow at a time;
`process_change` is one step, because the engine is the only one to read its
outcome, and fails as a whole in `ApplyFails`; the queue is a set served in any
order (its order is `SyncQueue`'s subject); `sync_state` goes with `local_path`;
the local disk is the set of files with a copy.

`missed` accounts for the losses the code does have, at the step where each
happens: files that exist before the first listing has reached them or whose
listing is cut off, a change whose processing failed (it is logged and the token
moves on), and a newer row overwritten by an older one in the hands of the other
task. `NoChangeLost` says that these are all.

### Watcher

`events` is `notify`'s stream from the operating system to the end of the bridge,
one sequence; `pending`, `due` the debounce map and which of its entries are
`DEBOUNCE_MS` old; `watched` the keys of `folder_map`; `reload`, `channel` the two
bounded channels; `at` where the loop is. `ReceiveReload`, `HandleEvent`,
`HandleError` and `Tick` are the branches of `select!`; `ReloadFolders` is
`reload_folders`; `ScanVisit`, `ScanSkips`, `ScanDone` are the walk, which waits
for a slot; `SendTask`, `FlushDone` the `try_send`s at the end of a tick, which do
not wait. `AddFolder`, `RemoveFolder` and `SignalReload` are the two folder
handlers, a statement and then a signal. `Write`, `Touch`, `RemoveFile`, `Rename`,
`MakeDirectory`, `RemoveDirectory` are what users do, at any moment, a directory
being what makes `event_to_task` return nothing when the entry is taken out.

Abstractions. Event kinds are folded into the three classes `event_to_task`
distinguishes. Time is only whether an entry is due. A directory's contents are
paths of their own. `Restart` is the death of the daemon and `run` from the start.

History: `untold[p]` is what the engine does not know yet of p; `lost` accounts
for changes that are lost where the code decides so (channel full, engine paused,
an error of `notify` or of the walk, a window that ends with an event to ignore)
or where nobody watched; a later change of the same path starts again. `touched`
are the paths whose window saw an event that stands for a task, `failed` folders
whose watch was refused.

### VfsStore, FuseFs, MacFs, WinFs, VirtualFs

`row` is `drive_files` as `db.rs` sees it (an inode is a rowid), `disk` the cache
directory, `queue` the tasks in their order, `open_files`, `next_fh` the handle
table, `known` the inodes the kernel was told of, `call[t]` what the callback on
thread t still holds. `engine` is the task the engine runs, `drive` Drive's side
and `unseen` the changes it has not polled. The actions carry the names of the
callbacks. A callback that makes one access is one action; `read` (enqueue, wait,
open the cache file), `create`, `write`, `unlink`, `rename` and, on Windows,
`win_create` and `win_rename` are cut where the engine may run in between. The
engine's side (`DownloadStarts` ... `PollApplies`) is cut at its file accesses.
`set_offline` and `clear_cache` are the two IPC handlers that write a row's state.
FUSE serves one callback after the other; WinFSP has two workers. `platform` is
chosen in the initial state, so one run covers the three.

Abstractions. Content is the file it is of, who made it and Drive's version. The
walk along a path is one step. Names and file ids are disjoint. The kernel does
not move a folder below itself and has looked a name up before it creates it.
Paging of directories, volume statistics and attributes without effect are left
out. `KernelRoot` is 1, the kernel's root inode, `ROOT_INODE` 0, that of `db.rs`;
row 1 is taken to be a folder, without which FUSE could reach nothing.
`UploadRuns` leaves out the conflict check that the engine makes before an upload
with a file id: it only reads, and without an etag in the row it finds nothing (see
`Transfers`).

### TokenStore, DriveClient, Transfers

Google issues numbered tokens; `grants` and `live` are the refresh and access
tokens it accepts. `flow`, `leaving`, `refresh` are the login, the disconnect and
the engine's refresh under way: each keyring, cache or table access is a step.
`spoilt` says that the token we held was revoked or that its successor was lost
with an answer, a failed write or a crash.

`req` is the request under way with its attempt and whether it has refreshed;
`sends` counts. `Attempt` is one turn of the loop all four `execute` functions
have; what Drive does with it (`done`, `undone`) comes from the caller: Drive may
do what it is asked and answer 5xx, or do it while the answer or its body is lost.

`job` is the task the engine runs on one file: `UploadBegins` and `CheckBegins`
with `ConflictChecked`, the multipart upload or the session
(`files_upload_resumable_start`, `_chunk`, `_query`), `DownloadBegins`,
`do_download`, `Placed`, `Recorded`, `DeleteBegins`, `PhotoBegins`. `local`,
`remote`, `uploaded` are where a content can be, `row` what the database says,
`session` Drive's side of a resumable upload. A content is the number of the edit
that made it, an etag the content it belongs to. The tasks in `todo` start in any
order (their order is `SyncQueue`'s subject) and stay there while they run.
`asked`, `created` and `lost` count, for each kind of task and over the whole run,
the tasks enqueued, the files made on Drive and the answers to that which were
lost. `TransferRestart` is a crash: a task that was in_progress is not run again.

The conflict check reads the row, the local file and Drive's metadata, and never
finds a conflict: `detect_conflict` (`conflict.rs:42-45`) needs the etag of the
row, and neither the fields asked of the file requests (`files.rs:20-26`) nor
those of the change feed (`changes.rs:17-20`) name it, so that
`map_api_file_to_db` (`initial.rs:236`) writes None into every row. `Row` and `remote_changed` keep the
Option, and `ConflictChecked` has no step for a conflict: if a row could have an
etag, a job would stop there and `JobsEnd` would fail. `resolve_conflict` is
therefore not modelled.

### Handlers, Ipc

`Handlers` groups the methods by what they do to shared state: `save` (the file,
then memory), `mode` (memory, the engine, then the file), `item` (a row, then a
task), `pin` (one row). `toml` and `tmp` are names of inodes and `content` what
these hold, so that opening the temporary file empties what another writer has
open, and a rename moves the name. `overlapped` says that two requests for the
preferences were in progress at once, `unsaved` that a mode switch could not write
its file.

`Ipc` has a line that arrives in two parts, `line` what the server has of it,
`cut` the requests whose first part a push swallowed; `toServer` and `toClient`
the socket; `sent`, `pos` the broadcast and each receiver's place in it; `call`,
`pending`, `reader`, `writer` the clients' side. An application
(`daemon_client.rs`) has any number of calls in flight; an extension
(`gdriver-ipc/src/client.rs`) blocks in one and gives up after its timeout
(`ExtGivesUp`), which `late` remembers. Applications call `save` and `mode`,
extensions `item` and `pin`. `Crash` and `Start` are the daemon's. Abstractions: an
answer or a push is one message; the entry in the pending map and the send are one
step; ids are numbered over all connections.

## 3. Runs

| Run | Instance | Checks |
|---|---|---|
| `queue` | 2 tasks of 8 kinds, 2 accounts, one disconnectable, 2 retries, batch of 2, 1 fault | `TypeOK`, `RetryBudget`, `FailureReported`, `NoTaskLeftBehind`, `BoundedOvertaking`, `ImplementsLifecycle`, `TasksSettle`, `BatchEnds` |
| `queue_crash` | 1 task, 1 fault | violation of `CrashRecovery` |
| `engine` | 2 tasks, one from the watcher, 1 account, disconnectable, 1 client switching and saving modes, channels of 1, no retry, batch of 1, 1 fault | `EngineTypeOK`, `PauseHolds`, `PauseObeyed`, `RequestsAnswered`, `SyncingEnds`, `QueueWorkedOff` |
| `engine_mode` | 1 task, mode switches | violation of `ModeSwitchMigrates` |
| `feed` | 2 files, one a folder, mirror mode, pages of 1, 2 changes, 1 login, 1 fault | `FeedTypeOK`, `NoChangeLost`, `CatchesUp` |
| `feed_trash` | 1 file, 1 change | violation of `TrashRemovesCopy` |
| `watcher` | a photos folder inside a drive folder, a file in both and one outside, channels of 1, 3 changes, 1 fault | `WatcherTypeOK`, `NoEditForgotten`, `FoldersWatched`, `EditsArrive` |
| `watcher_ignored` | 1 file, 1 folder, 3 changes | violation of `OnlyMetadataIgnored` |
| `vfs` | 3 platforms, a file or a Workspace document in a folder, 2 names, 3 rows, 2 handles, 4 operations (3 on Windows, with 2 threads), 1 fault | `VfsTypeOK`, `ReadIsFresh`, `CachedIsFresh`, `ReadsAnswered` |
| `client` | 1 file of 3 units in chunks of 2, 3 contents, 3 tokens, 3 operations, 1 retry, 1 fault | `ClientTypeOK`, `AttemptsBounded`, `KeyringUsable`, `NoNeedlessCopy`, `RowsAreReal`, `JobsEnd` |
| `client_work` | the same with 1 token, 2 operations, no fault | violation of `NeverLosesWork` |
| `ipc` | two applications, or one and an extension; 2 calls, 2 pushes, broadcast of 1, 2 attempts to connect, 4 of these together, 1 fault | `IpcTypeOK`, `DiskNeverTorn`, `PreferencesAgree`, `AnswerIsOwn`, `AnsweredIsDone`, `CallsReturn`, `BlockingCallsReturn`, `LastPushArrives` |

Why the bounds are enough. Two tasks are what overtaking, and a batch cut off
between two tasks, need; the budget needs a retry and an end of retries; one
fault puts a crash at every point, and what follows it is ordinary operation. A
batch of 2 is cut off by its limit as soon as a task is retried or deferred. A
channel of 1 is full after one send. The engine has a single watcher task, so its
channel is never found full there; the `watcher` run has that case. Pages of 1
make every poll of two changes a poll of two pages, with a failure, a crash, a new
change, a login or a disconnect between them; a login can start in the middle of a
poll. Three changes are a removal, a new file at the same path and a touch, or a
file, a folder and a file again, with an event of each in flight.

Four operations of the filesystem are a read, an edit on Drive, a rename and a
second read, or a creation, a write, a flush and an edit; three rows leave room
for the new file or for the row an upload makes. A file of 3 in chunks of 2 has a
full chunk, a short last one and an offset in the middle of a chunk. Three tokens
are a login, a rotation and a second login; two applications are what a race on
the preferences needs, an application and an extension what a late answer beside a
push needs. A broadcast of 1 lags with the second push. The proofs remove all
of these bounds for safety.

`MaxFaults`, `MaxChanges`, `MaxLogins`, `MaxOps`, `MaxWinOps`, `MaxInode`,
`MaxHandles`, `MaxIssued`, `MaxEdits`, `MaxCalls`, `MaxPush`, `MaxLoad` and
`Populations` bound the models; a behaviour that has used them up goes on without.
`MaxRetries`, `CHUNK_SIZE`, `Capacity`, `MaxAttempts`, `BATCH`, `MAX_RETRIES` and
the channel sizes are the code's own limits, smaller. Deadlock is checked in the
queue and the engine. The others may stop when their bounds are used up and
nothing is left to do: there the cfg switches it off.

### Fairness

* Queue: the poll timer begins batches for ever and an await that was started
  returns (`WF`); an account that keeps its tokens gets a client sooner or later
  (`SF` on `BuildClient`, since a failing token refresh defers the task and the
  attempt comes back). A task may fail for ever; the budget settles it.
* Engine: `tokio::select!` polls its branches from a random one, so a branch that
  is ready again and again is taken (`SF` on commands, timer and watcher); a
  handler waiting for a slot is served in order (`SF` on a handler's next step).
* Feed: polls come back between the tasks of a long queue (`SF` on `PollBegin`);
  what was started goes on.
* Watcher: `SF` on each branch of its `select!`, as for the engine; the walk and
  the sends of a tick go on, handlers send their signal, the engine takes tasks
  out of its channel, time passes (`WF`).
* Virtual filesystem: a callback that has begun goes on, on a thread of its own,
  and the wait of a read is a loop with a limit (`WF`). Nothing is assumed of the
  engine: a read is answered though no download ever runs.
* Client: what a running job awaits returns, with a result or an error (`WF` while
  there is a job). Drive misbehaves a bounded number of times.
* IPC: connection tasks, reader tasks and callers run, and a blocked read times
  out (`WF`).

Nothing is assumed of the user, of Drive, of producers or of faults.

### What the violations show

* `CrashRecovery`: `reset_in_progress_to_pending` says it is called at startup for
  crash recovery; nothing calls it, and a task whose run a crash cut off stays
  in_progress for ever.
* `ModeSwitchMigrates`: the handler writes the new mode into the preferences and
  then sends the command, whose handler returns when the preferences already name
  that mode: files are not migrated.
* `TrashRemovesCopy`: the row of a trashed file is overwritten, without its
  `local_path`, before it is asked whether there is a local copy, so that the
  delete task is not enqueued.
* `OnlyMetadataIgnored`: a later event of a path replaces the kind of its entry in
  the debounce map, so that a new or changed file is ignored when a metadata or
  access event (the closing of the file, on Linux) follows within the window.
* `NeverLosesWork`: the README of the program promises that conflicts are detected
  and no work is lost. A file edited on both sides whose remote edit is polled
  first is downloaded over the local edit: only uploads look for a conflict, and
  they compare an etag that no row has.

### Differences without a run of their own

Queue, engine, watcher:
* the comment of `delete_account` says the rows of `sync_queue` go with the
  account; the table has no foreign key. Such a task at the head of the queue is
  fetched and deferred in each iteration of each batch, so nothing behind it runs
  (`TasksSettle` therefore asks that every account has its tokens again).
* a mode switch ends a pause; after a batch started by the watcher the engine
  reports Syncing until the next poll, and for ever when no account is left;
  `sync.retry_error` says it triggers a retry and only marks the row resolved;
  `sync.get_status` answers UpToDate always.
* a removed folder stays watched until a restart; the scan of a drive folder
  enqueues uploads for the files of a photos folder inside it; the old path of a
  rename becomes an upload, never a delete.

Client:
* the `is_complete` of a session's status query is not used, so that a lost last
  answer means a second upload; a 308 without a Range counts as the whole chunk
  for a chunk and as 0 for a query; a transport error is not retried; a session
  that never advances keeps the loop (and the engine) for ever, which `JobsEnd`
  excludes by the bound on faults.
* the comment of `files_delete` calls DELETE a move to the trash; a poll resets
  `local_mtime` and `local_path`, so that a later delete finds nothing to remove;
  a download records the mtime it reads after the rename,
  which may be that of an edit in between.
* a refresh in flight during a disconnect puts the tokens back after they were
  wiped; the client of a login has no refresher; the callback listener waits
  without a limit.

Virtual filesystem:
* the root is 0 in `db.rs` and 1 in the kernel; `block_on` asks for the current
  tokio handle on a thread that has none.
* an upload always creates a new file in the root of the Drive, called by the file
  id, and the edited row stays `modified`; a delete task carries a file id and is
  taken for a remote delete, so nothing is deleted on Drive; a rename task is
  unknown to the engine and is completed, while the cache file has moved and
  `local_path` has not.
* an unlink or a rename that races a download is undone when the download writes
  back the row it read; a rename makes a polled row `modified`, so that a read
  serves the older cache file (the exception in `ReadIsFresh`).
* each write truncates the cache file; a flush after a poll has reset the row is
  answered with success and queues no upload, and so is one after the row was
  pinned; `offline.clear_cache` removes no file.
* on Windows a rename onto itself with replace trashes the file, a replaced target
  gets no delete task, and a creation racing `can_delete` leaves an orphan.

IPC:
* the parse error of a cut line is answered without an id: an application's call
  waits for ever (the exception in `CallsReturn`), and a call made after the
  reader task ended does too.
* the blocking client says it waits for the matching id and does not compare ids;
  after a timeout the late answer is taken for the next call's (the exception in
  `AnswerIsOwn`). The named pipe on Windows has no timeout. The Swift client of
  the File Provider takes any next line, a push too, for its answer. The
  application never reconnects.
* two saves at once share `preferences.toml.tmp`, although `config/mod.rs` says
  that the file is never left partially written; file and memory may keep
  different ones (the exceptions in `DiskNeverTorn` and `PreferencesAgree`). A mode
  switch that cannot write its file only logs it.
* a second daemon removes the socket of the first; a folder made by
  `fp.create_item` has no task; `fp.modify_item` may do two pairs of row and task.
* at shutdown `main` still owns the router, and with it the senders whose closing
  would end the engine and the watcher it awaits.

## 4. Proofs

Every safety property of the passing runs is a theorem: the invariants, the action
properties and the refinement. Constants are arbitrary within the assumptions of
the modules that declare them (`QueueAssumption`, `EngineAssumption`,
`FeedAssumption`, `WatcherAssumption`, `VfsConstants`, `WinPaths`, `FirstNames`,
`TokenConstants`, `RetryConstant`, `TransferConstants`, `HandlerConstants`,
`IpcConstants`): any number of tasks, accounts, files, rows, clients, retries,
faults, any batch, page, chunk and channel size. The bounds `Max...` of the models
are arbitrary numbers too, so none of the results depends on one. Where `None`
stands for Rust's `None` beside a set of records (`NoneIsNoRefresh`,
`NoneIsNoRequest`, `NoneIsNoJob`, `NoneIsNoRow`, `NoneIsNoRecord`) it is assumed to
be none of them. Each theorem is the usual three facts about an inductive
invariant: it holds at the start, every step keeps it, it implies the property.

* `SyncQueueProofs`. `TypeCorrect`, `RetriesBounded`, `FailuresReported`,
  `NothingLeftBehind`, `OvertakingBounded` and the refinement `Refinement`
  (`SyncQueue` implements `TaskLifecycle`, in which a settled task stays so). The
  invariant `IInv` adds to the properties themselves: `EngineFocus`, which relates
  `pc` to the status of the task in hand (it is still pending up to `StartTask`,
  in_progress while it runs), without which no result could be said to belong to
  a running task; `PendingBudget`, that a pending task has been tried as often as
  it has failed, which is what keeps `attempts` below the budget when it is
  started again; and `NotYetOvertaken`, that only the task already in hand can
  pass a waiting one. `NextIInv` has a lemma per conjunct, split by actions.
* `SyncEngineProofs`. `EngineKeepsQueue`: the engine implements `SyncQueue`, so the
  theorems above hold of it. `EngineInv` is `IInv`, the types of the loop, and
  `LoopFocus`: the engine is paused only between branches, and a batch runs only
  in a branch that began one. `PauseIsKept` and `EngineTypeCorrect` follow.
* `ChangesFeedProofs`. `FeedTypeCorrect` and `FeedComplete` (`NoChangeLost`).
  `FeedInv` adds `Positions` (tokens and versions are at most Drive's latest
  change), `Cascade` (no account, no token and no rows), `PageInHand`,
  `PageIsTrue` (an entry in hand is the file's last change or an older one) and
  the heart of it, `PollCovers`: of the changes up to the position the fetched
  pages reach, each is applied, in the page in hand, or accounted for. It is what
  makes saving the token after the last page safe. `PutAccounts` shows once that a
  write to `drive_files` makes no file outdated without accounting for it.
* `WatcherProofs`. `WatcherTypeCorrect`: types and the capacities of both channels,
  inductive as it stands. `EditsAreRemembered` (`NoEditForgotten`) speaks of paths
  of which nothing is on its way any more; `WatcherInv` says what holds before.
  For each path that nothing is lost of, an edit the engine was not told of is
  still coming (`UploadComes`): as an event, as an entry of the map, as a task of
  the tick, in the channel or as a path to scan; so is a removal (`RemovalComes`),
  with no event behind it that would replace it. The part that is
  easily missed is `RemovesFollowed`: if there is a file, each removal on its way, wherever
  it is, has an upload behind it, because the engine, which gets the removal of a
  file that is there again, relies on it. `Present` says that what is on its way is
  below a watched folder (folders stay watched), `LoopOK` that scan and tick leave
  nothing over, and that an entry which stands for a task is `touched`.
* `VirtualFsProofs`. `VfsTypeCorrect`, `CacheStaysFresh` (`CachedIsFresh`) and
  `ReadsStayFresh` (`ReadIsFresh`), on the three platforms. `VfsInv`: a row's path
  is its own cache file, and as long as it has one, what lies there is the user's or
  not older than the row (`RowsOK`); Drive is never behind a row (`StoreOK`); a
  download in the queue goes to the row's own path (`QueueOK`); while the engine
  works on a row its version stays, so that what it has fetched is fresh when it
  writes the row back (`EngineOK`); a handle or a callback in progress is about a
  row that is there, and a read past its wait finds the version it saw
  (`HandlesOK`, `CallsOK`). The proof goes through `CallbackStep`, which says what a
  step of any callback may do to each part of the state: that it keeps the
  invariant is proved once (`CallbackKeeps`), and that each callback of `linux.rs`,
  `macos.rs` and `windows.rs` is one, callback by callback. The engine's steps move
  versions and have a lemma each.
* `TransfersProofs`. `ClientTypeCorrect`, `AttemptsAreBounded`, `KeyringStaysUsable`,
  `RowsStayReal`, `CopiesAreNeeded` (`NoNeedlessCopy`). `TransferInv` has four
  parts that hardly touch. `SendsCounted` bounds the sendings by the attempt, one
  more after the only refresh. `KeyringInv`: nothing is known that was not issued,
  the tokens of a login are its own until they are saved, and what is about to be
  saved Google accepts unless `spoilt`. `JobInv`: which request belongs to which
  step of a job, and that an upload about to be taken for a success has made its
  file (`SuccessIsReal`). `TaskInv`: the task that runs is one of `todo`
  (`TasksRun`), and the files made and the tasks still to do are together at most
  the tasks enqueued and the answers lost, but for one while the job has not yet
  noted the answer (`JobMade`) to the request that made its file
  (`CopiesCounted`). `NoNeedlessCopy` alone is not inductive: it does not say that
  a task which has made its file leaves the queue, by success, by giving up or in a
  crash. The steps of jobs are first reduced to moves (`JobMove`), requests to
  `DriveStep`.
* `IpcProofs`. `IpcTypeCorrect`, `DiskStaysWhole` (`DiskNeverTorn`),
  `PreferencesStayInStep` (`PreferencesAgree`), `AnswersAreOwn` (`AnswerIsOwn`),
  `AnsweredAreDone` (`AnsweredIsDone`). `IpcInv`: whatever is on a connection is of
  its own requests (`InFlight`); no name stands for the inode a request is going to
  open (`Fresh`); a lone request for the preferences tells by where it is what the
  temporary file, the file and the memory hold (`OneSaver`); a handler that says ok,
  and an answer that does, has its row and task (`HandlerDone`, `AnswerDone`); a
  blocking client none of whose calls has timed out has one thing on its way, the
  request, its handler or its answer (`OneThing`), which is why comparing no ids is
  safe until then.

Only model-checked, each with one fault at least: liveness (`TasksSettle`,
`BatchEnds`, `PauseObeyed`, `RequestsAnswered`, `SyncingEnds`, `QueueWorkedOff`,
`CatchesUp`, `FoldersWatched`, `EditsArrive`, `ReadsAnswered`, `JobsEnd`,
`CallsReturn`, `BlockingCallsReturn`, `LastPushArrives`), since the prover cannot
reason about `ENABLED` and fairness.

## 5. Not modelled

* The desktop frontend, the tray and windows, the extensions and their own
  clients, the registration with the operating system: user interface and pure
  I/O. The library `gdriver-sync`: no binary calls it.
* Handlers that read, or write one row nobody else depends on: notifications,
  statistics, suggestions, feedback, search.
* Folder trees on Drive and the parent chains of mirror paths; photo albums; more
  than one file in `Transfers`; building of URLs, queries and bodies.
* The closing of `notify`'s stream; the named pipe of Windows; the XPC listener of
  the File Provider, which nothing creates; graceful shutdown, which is sequential
  and described above.

`PROJECT.json` gives the status of each part.

## 6. Plan

The models are as wide as planned and their safety properties are proved. What is
left:

1. What the liveness properties rest on, as invariants and action properties: a
   call that waits has a request, a handler, an answer or an end of file coming
   (`CallsReturn`), a request under way comes nearer to its end with each step
   (`JobsEnd`).
2. An abstract specification of the watcher's path to the engine, a register per
   file that ends up holding the last change, implemented by `Watcher` with
   `WatcherInv` as the invariant of the mapping.
