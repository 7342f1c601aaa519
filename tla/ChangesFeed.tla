---------------------------- MODULE ChangesFeed ----------------------------
(***************************************************************************)
(* How drive_files follows Google Drive, for one account: initial_sync     *)
(* (sync/initial.rs), run by the OAuth task after a login, incremental_    *)
(* sync (sync/incremental.rs), run by the engine at every poll, and the    *)
(* upserts at the end of download_file and handle_remote_delete.           *)
(*                                                                         *)
(* The engine polls and works off tasks one after the other; the OAuth     *)
(* task runs beside it and they share drive_files and sync_tokens without  *)
(* a transaction.  Drive numbers its changes; a page token is a position   *)
(* in that numbering and a file's version the number of its last change.   *)
(***************************************************************************)
EXTENDS Integers, FiniteSets

CONSTANTS File,        \* Drive file ids
          Folder,      \* the ones that are folders
          InFolder,    \* the ones an enabled sync folder covers
          Mirror,      \* sync mode: TRUE mirror, FALSE stream
          PAGE,        \* entries of one page of files.list or changes.list
          MaxChanges,  \* bound: changes on Drive
          MaxLogins,   \* bound: OAuth flows
          MaxFaults    \* bound: failing calls

ASSUME FeedAssumption ==
    /\ Folder \subseteq File /\ InFolder \subseteq File
    /\ Mirror \in BOOLEAN
    /\ PAGE \in Nat \ {0}
    /\ MaxChanges \in Nat /\ MaxLogins \in Nat /\ MaxFaults \in Nat

VARIABLES
    (* Google Drive *)
    head,        \* number of the latest change
    changedAt,   \* changedAt[f]: number of f's last change
    life,        \* life[f]: what that change made of f
    (* the database *)
    account,     \* the row in accounts exists
    token,       \* sync_tokens.page_token, NoToken without a row
    row,         \* row[f]: f's row in drive_files
    queue,       \* pending download and delete tasks
    copies,      \* files with a copy on the local disk
    (* the OAuth task, in initial_sync *)
    loginAt,     \* the step it is at, "none" when there is no such task
    start,       \* the start page token it got
    toList,      \* files the listing, or the mirror pass, has still to return
    listed,      \* entries of the page in hand
    clones,      \* the rows the mirror pass has fetched
    (* the engine, in incremental_sync or working on a task *)
    pollAt,      \* the step it is at, "none" between polls
    seen,        \* how far the pages fetched so far reach
    more,        \* the page in hand has a next_page_token
    page,        \* entries of the page in hand
    work,        \* the task in hand, with the row its processor has read; or {}
    (* history *)
    missed,      \* files with an outdated row that no page will bring again
    logins, faults

driveVars == <<head, changedAt, life>>
dbVars == <<account, token, row, queue, copies>>
loginVars == <<loginAt, start, toList, listed, clones>>
pollVars == <<pollAt, seen, more, page>>
feedVars == <<driveVars, dbVars, loginVars, pollVars, work, missed, logins, faults>>

NoToken == -1

\* The columns the properties tell apart; sync_state goes with local_path.
Row == [known : BOOLEAN, version : Nat, is_trashed : BOOLEAN, local_path : BOOLEAN]
NoRow == [known |-> FALSE, version |-> 0, is_trashed |-> FALSE, local_path |-> FALSE]

\* A file resource in a response; "gone" is a change with removed = true.
Entry == [file : File, version : Nat, life : {"live", "trashed", "gone"}]

Task == [operation : {"download", "delete"}, file : File]

Work == [operation : {"download", "delete"}, file : File, clone : Row]

Exists(f) == life[f] \in {"live", "trashed"}

FeedTypeOK ==
    /\ head \in 0..MaxChanges
    /\ changedAt \in [File -> 0..MaxChanges]
    /\ life \in [File -> {"absent", "live", "trashed", "gone"}]
    /\ account \in BOOLEAN
    /\ token \in -1..MaxChanges
    /\ row \in [File -> Row]
    /\ queue \in SUBSET Task
    /\ copies \in SUBSET File
    /\ loginAt \in {"none", "token", "save", "list", "upsert", "mirror"}
    /\ start \in 0..MaxChanges
    /\ toList \in SUBSET File
    /\ listed \in SUBSET Entry
    /\ clones \in [File -> Row]
    /\ pollAt \in {"none", "list", "apply", "save"}
    /\ seen \in 0..MaxChanges
    /\ more \in BOOLEAN
    /\ page \in SUBSET Entry
    /\ work \in SUBSET Work
    /\ missed \in SUBSET File
    /\ logins \in 0..MaxLogins
    /\ faults \in 0..MaxFaults

\* A daemon without an account; some files are already on Drive.
FeedInit ==
    /\ head = 0
    /\ changedAt = [f \in File |-> 0]
    /\ life \in [File -> {"absent", "live"}]
    /\ account = FALSE /\ token = NoToken
    /\ row = [f \in File |-> NoRow]
    /\ queue = {} /\ copies = {}
    /\ loginAt = "none" /\ start = 0 /\ toList = {} /\ listed = {}
    /\ clones = [f \in File |-> NoRow]
    /\ pollAt = "none" /\ seen = 0 /\ more = FALSE /\ page = {}
    /\ work = {}
    /\ missed = {f \in File : Exists(f)}
    /\ logins = 0 /\ faults = 0

-----------------------------------------------------------------------------
(* Google Drive.                                                             *)

\* Another device creates, edits, trashes, restores or removes a file.
DriveChange(f, to) ==
    /\ head < MaxChanges
    /\ \/ life[f] = "absent" /\ to = "live"
       \/ life[f] = "live" /\ to \in {"live", "trashed", "gone"}
       \/ life[f] = "trashed" /\ to \in {"live", "gone"}
    /\ head' = head + 1
    /\ changedAt' = [changedAt EXCEPT ![f] = head + 1]
    /\ life' = [life EXCEPT ![f] = to]
    /\ missed' = IF token = NoToken THEN missed \cup {f} ELSE missed \ {f}
    /\ UNCHANGED <<dbVars, loginVars, pollVars, work, logins, faults>>

-----------------------------------------------------------------------------
(* drive_files.                                                              *)

\* A row that says of f what Drive says.
FreshRow(f, r) ==
    IF Exists(f)
    THEN /\ r.known /\ r.version = changedAt[f]
         /\ r.is_trashed <=> life[f] = "trashed"
    ELSE r.known => r.is_trashed

Fresh(f) == FreshRow(f, row[f])

\* upsert_file and mark_trashed, while the account's row exists.
Put(f, r) ==
    /\ row' = [row EXCEPT ![f] = r]
    /\ missed' = IF FreshRow(f, r) THEN missed \ {f}
                 ELSE IF Fresh(f) THEN missed \cup {f} ELSE missed

Keep == UNCHANGED <<row, missed>>

\* map_api_file_to_db: a response knows nothing of the local copy.
MapApiFileToDb(e) ==
    [known |-> TRUE, version |-> e.version,
     is_trashed |-> e.life = "trashed", local_path |-> FALSE]

EntryOf(f) == [file |-> f, version |-> changedAt[f], life |-> life[f]]

Download(f) == [operation |-> "download", file |-> f]
Delete(f) == [operation |-> "delete", file |-> f]

\* enqueue_download_for_change: folders are never fetched; mirror mode fetches
\* every other file, stream mode those under a sync folder.
Wanted == (IF Mirror THEN File ELSE InFolder) \ Folder

-----------------------------------------------------------------------------
(* The accounts.                                                             *)

\* complete_oauth_flow has stored the account and calls initial_sync.
LoginBegin ==
    /\ loginAt = "none" /\ logins < MaxLogins
    /\ logins' = logins + 1
    /\ account' = TRUE
    /\ loginAt' = "token"
    /\ UNCHANGED <<driveVars, token, row, queue, copies, start, toList, listed, clones,
                   pollVars, work, missed, faults>>

\* auth.disconnect: drive_files and sync_tokens go with the account.
DisconnectAccount ==
    /\ account
    /\ account' = FALSE /\ token' = NoToken
    /\ row' = [f \in File |-> NoRow]
    /\ missed' = {f \in File : Exists(f)}
    /\ UNCHANGED <<driveVars, queue, copies, loginVars, pollVars, work, logins, faults>>

-----------------------------------------------------------------------------
(* initial_sync.                                                             *)

GetStartPageToken ==
    /\ loginAt = "token"
    /\ start' = head /\ loginAt' = "save"
    /\ UNCHANGED <<driveVars, dbVars, toList, listed, clones, pollVars, work,
                   missed, logins, faults>>

\* From here on only the listing can tell what happened up to the token.
SaveStartPageToken ==
    /\ loginAt = "save" /\ account
    /\ token' = start
    /\ loginAt' = "list" /\ toList' = {f \in File : Exists(f)}
    /\ missed' = missed \cup {f \in File : ~Fresh(f) /\ changedAt[f] <= start}
    /\ UNCHANGED <<driveVars, account, row, queue, copies, start, listed, clones,
                   pollVars, work, logins, faults>>

\* files_list returns a page: what is left of the files at this moment.
ListFiles(S) ==
    /\ loginAt = "list"
    /\ S # {} /\ Cardinality(S) <= PAGE
    /\ listed' = {EntryOf(f) : f \in {g \in S : Exists(g)}}
    /\ toList' = toList \ S
    /\ loginAt' = IF listed' = {} THEN "list" ELSE "upsert"
    /\ UNCHANGED <<driveVars, dbVars, start, clones, pollVars, work, missed, logins, faults>>

UpsertListed(e) ==
    /\ loginAt = "upsert" /\ account
    /\ Put(e.file, MapApiFileToDb(e))
    /\ listed' = listed \ {e}
    /\ loginAt' = IF listed' = {} THEN "list" ELSE "upsert"
    /\ UNCHANGED <<driveVars, account, token, queue, copies, start, toList, clones,
                   pollVars, work, logins, faults>>

\* No next_page_token: stream mode is done, mirror mode fetches all rows.
ListDone ==
    /\ loginAt = "list" /\ toList = {}
    /\ LET todo == {f \in File \ Folder :
                      row[f].known /\ ~row[f].is_trashed /\ ~row[f].local_path}
       IN  IF Mirror /\ todo # {}
           THEN loginAt' = "mirror" /\ toList' = todo /\ clones' = row
           ELSE loginAt' = "none" /\ UNCHANGED <<toList, clones>>
    /\ UNCHANGED <<driveVars, dbVars, start, listed, pollVars, work, missed, logins, faults>>

\* enqueue_mirror_downloads writes the fetched row back with its local_path.
EnqueueMirrorDownload(f) ==
    /\ loginAt = "mirror" /\ account
    /\ Put(f, [clones[f] EXCEPT !.local_path = TRUE])
    /\ queue' = queue \cup {Download(f)}
    /\ toList' = toList \ {f}
    /\ loginAt' = IF toList' = {} THEN "none" ELSE "mirror"
    /\ UNCHANGED <<driveVars, account, token, copies, start, listed, clones,
                   pollVars, work, logins, faults>>

\* A call fails (without the account every write does): initial_sync returns,
\* and nobody calls it again.
LoginFails ==
    /\ \/ loginAt # "none" /\ faults < MaxFaults /\ faults' = faults + 1
       \/ loginAt \in {"save", "upsert", "mirror"} /\ ~account /\ UNCHANGED faults
    /\ loginAt' = "none" /\ listed' = {} /\ toList' = {}
    /\ UNCHANGED <<driveVars, dbVars, start, clones, pollVars, work, missed, logins>>

-----------------------------------------------------------------------------
(* incremental_sync.                                                         *)

\* Mutant: a missing token is taken for the beginning of the feed.
PollBeginAnyToken ==
    /\ pollAt = "none" /\ work = {} /\ account
    /\ pollAt' = "list" /\ seen' = token
    /\ UNCHANGED <<driveVars, dbVars, loginVars, more, page, work, missed, logins, faults>>

\* handle_remote_poll; without a stored token the account is skipped.
PollBegin ==
    /\ pollAt = "none" /\ work = {} /\ account
    /\ token # NoToken
    /\ pollAt' = "list" /\ seen' = token
    /\ UNCHANGED <<driveVars, dbVars, loginVars, more, page, work, missed, logins, faults>>

\* changes_list from position seen: the last changes up to position n, the
\* whole rest of the feed or a full page of it.
ChangesUpTo(n) == {f \in File : seen < changedAt[f] /\ changedAt[f] <= n}

\* Mutant: every page is asked for with the stored token.
ListChangesAgain(n) ==
    /\ pollAt = "list"
    /\ IF n = head THEN Cardinality(ChangesUpTo(n)) <= PAGE
                   ELSE Cardinality(ChangesUpTo(n)) = PAGE
    /\ page' = {EntryOf(f) : f \in ChangesUpTo(n)}
    /\ seen' = (IF n = head THEN n ELSE seen) /\ more' = (n # head)
    /\ pollAt' = IF page' # {} THEN "apply" ELSE IF more' THEN "list" ELSE "save"
    /\ UNCHANGED <<driveVars, dbVars, loginVars, work, missed, logins, faults>>

ListChanges(n) ==
    /\ pollAt = "list"
    /\ IF n = head THEN Cardinality(ChangesUpTo(n)) <= PAGE
                   ELSE Cardinality(ChangesUpTo(n)) = PAGE
    /\ page' = {EntryOf(f) : f \in ChangesUpTo(n)}
    /\ seen' = n /\ more' = (n # head)
    /\ pollAt' = IF page' # {} THEN "apply" ELSE IF more' THEN "list" ELSE "save"
    /\ UNCHANGED <<driveVars, dbVars, loginVars, work, missed, logins, faults>>

NextEntry(e) ==
    /\ page' = page \ {e}
    /\ pollAt' = IF page' # {} THEN "apply" ELSE IF more THEN "list" ELSE "save"
    /\ UNCHANGED <<driveVars, account, token, copies, loginVars, seen, more, work, logins>>

\* process_change for a removed file.
ProcessRemoval(e) ==
    /\ e.life = "gone"
    /\ IF row[e.file].known
       THEN Put(e.file, [row[e.file] EXCEPT !.is_trashed = TRUE])
       ELSE Keep
    /\ queue' = IF row[e.file].local_path THEN queue \cup {Delete(e.file)} ELSE queue

\* process_change for a file that exists.  The row it has just mapped has no
\* local_path, so a file in the trash gets no delete task.  Without the account
\* the upsert fails and is logged.
ProcessUpdate(e) ==
    /\ e.life # "gone"
    /\ IF account
       THEN /\ Put(e.file, MapApiFileToDb(e))
            /\ queue' = IF e.life = "live" /\ e.file \in Wanted
                        THEN queue \cup {Download(e.file)} ELSE queue
       ELSE Keep /\ UNCHANGED queue

ApplyChange(e) ==
    /\ pollAt = "apply"
    /\ NextEntry(e)
    /\ ProcessRemoval(e) \/ ProcessUpdate(e)
    /\ UNCHANGED faults

\* A query of process_change fails: it is logged and the loop goes on.
ApplyFails(e) ==
    /\ pollAt = "apply" /\ faults < MaxFaults
    /\ NextEntry(e)
    /\ faults' = faults + 1
    /\ missed' = IF e.version = changedAt[e.file] /\ ~Fresh(e.file)
                 THEN missed \cup {e.file} ELSE missed
    /\ UNCHANGED <<row, queue>>

\* Mutant: the token is asked for anew instead of taken from the last page.
SaveTokenOfNow ==
    /\ pollAt = "save"
    /\ token' = IF account THEN head ELSE token
    /\ pollAt' = "none"
    /\ UNCHANGED <<driveVars, account, row, queue, copies, loginVars, seen, more, page,
                   work, missed, logins, faults>>

SaveToken ==
    /\ pollAt = "save"
    /\ token' = IF account THEN seen ELSE token
    /\ pollAt' = "none"
    /\ UNCHANGED <<driveVars, account, row, queue, copies, loginVars, seen, more, page,
                   work, missed, logins, faults>>

\* changes_list or set_token fails: incremental_sync returns the error and the
\* stored token stays.
PollFails ==
    /\ pollAt \in {"list", "save"} /\ faults < MaxFaults
    /\ faults' = faults + 1
    /\ pollAt' = "none" /\ page' = {}
    /\ UNCHANGED <<driveVars, dbVars, loginVars, seen, more, work, missed, logins>>

-----------------------------------------------------------------------------
(* Tasks.                                                                    *)

\* fp.fetch_contents, or a read in the VFS, asks for a file whose row it found,
\* whatever the row says (bound: one such task in the queue at a time).
RequestDownload(f) ==
    /\ row[f].known /\ f \notin Folder
    /\ Download(f) \notin queue
    /\ queue' = queue \cup {Download(f)}
    /\ UNCHANGED <<driveVars, account, token, row, copies, loginVars, pollVars, work,
                   missed, logins, faults>>

\* The processor reads the row; a delete removes the file it names.
BeginWork(t) ==
    /\ pollAt = "none" /\ work = {} /\ account
    /\ t \in queue
    /\ queue' = queue \ {t}
    /\ work' = {[operation |-> t.operation, file |-> t.file, clone |-> row[t.file]]}
    /\ copies' = IF t.operation = "delete" /\ row[t.file].local_path
                 THEN copies \ {t.file} ELSE copies
    /\ UNCHANGED <<driveVars, account, token, row, loginVars, pollVars, missed, logins, faults>>

\* It writes the row it has read back, with local_path set or cleared.
FinishWork(w) ==
    /\ w.operation = "download" => Exists(w.file)
    /\ work' = {}
    /\ copies' = IF w.operation = "download" THEN copies \cup {w.file} ELSE copies
    /\ IF account /\ w.clone.known
       THEN Put(w.file, [w.clone EXCEPT !.local_path = (w.operation = "download")])
       ELSE Keep
    /\ UNCHANGED <<driveVars, account, token, queue, loginVars, pollVars, logins, faults>>

\* handle_download_failure: the task is queued again or given up.
WorkFails(w) ==
    /\ w.operation = "download"
    /\ work' = {}
    /\ queue' \in {queue, queue \cup {Download(w.file)}}
    /\ UNCHANGED <<driveVars, account, token, row, copies, loginVars, pollVars, missed,
                   logins, faults>>

-----------------------------------------------------------------------------
\* The daemon dies; what is in the database is all the next one knows.
Crash ==
    /\ faults < MaxFaults
    /\ faults' = faults + 1
    /\ loginAt' = "none" /\ toList' = {} /\ listed' = {}
    /\ pollAt' = "none" /\ page' = {}
    /\ work' = {}
    /\ UNCHANGED <<driveVars, dbVars, start, clones, seen, more, missed, logins>>

-----------------------------------------------------------------------------
Drive == \E f \in File, to \in {"live", "trashed", "gone"} : DriveChange(f, to)

InitialSync ==
    \/ GetStartPageToken \/ SaveStartPageToken \/ ListDone
    \/ \E S \in SUBSET toList : ListFiles(S)
    \/ \E e \in listed : UpsertListed(e)
    \/ \E f \in toList : EnqueueMirrorDownload(f)

Poll ==
    \/ \E n \in seen..head : ListChanges(n)
    \/ \E e \in page : ApplyChange(e)
    \/ SaveToken

Tasks ==
    \/ \E t \in queue : BeginWork(t)
    \/ \E w \in work : FinishWork(w) \/ WorkFails(w)

FeedNext ==
    \/ Drive
    \/ LoginBegin \/ DisconnectAccount
    \/ InitialSync \/ LoginFails
    \/ PollBegin \/ Poll \/ PollFails
    \/ \E e \in page : ApplyFails(e)
    \/ \E f \in File : RequestDownload(f)
    \/ Tasks \/ Crash

FeedSpec == FeedInit /\ [][FeedNext]_feedVars

(* Fairness: the poll timer ticks for ever, also between the tasks of a long  *)
(* queue; calls return.                                                       *)
FairFeed ==
    /\ FeedSpec
    /\ SF_feedVars(PollBegin) /\ WF_feedVars(Poll)
    /\ WF_feedVars(Tasks) /\ WF_feedVars(InitialSync \/ LoginFails)

-----------------------------------------------------------------------------
(* Properties.                                                               *)

\* No change on Drive is silently lost: a row is up to date, or its file's last
\* change lies behind the stored token and the next poll brings it, or the file
\* is one of those whose loss the history accounts for: before the first
\* listing, a failed process_change, a listing cut off or of an earlier login,
\* a newer row overwritten by an older one in the hands of the other task.
\* Failed polls, pages, redelivered and overlapping changes lose nothing.
NoChangeLost ==
    \A f \in File :
        \/ Fresh(f) \/ f \in missed
        \/ token # NoToken /\ token < changedAt[f]

\* What Drive did to a file of a connected account reaches drive_files.
CatchesUp ==
    \A f \in File :
        ~Fresh(f) /\ token # NoToken ~> Fresh(f) \/ f \in missed \/ ~account

-----------------------------------------------------------------------------
(* What a comment says and the code does not keep.                           *)

\* deleter.rs: "the file was trashed/deleted on Drive - remove the local copy and
\* update the DB".  When a poll learns that a file with a local copy was trashed
\* or deleted, a delete task is in the queue.
TrashRemovesCopy ==
    [][\A f \in copies :
          /\ pollAt = "apply"
          /\ row[f].local_path /\ ~row[f].is_trashed /\ row'[f].is_trashed
          => Delete(f) \in queue']_feedVars
=============================================================================
