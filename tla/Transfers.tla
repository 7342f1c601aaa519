------------------------------ MODULE Transfers ------------------------------
(***************************************************************************)
(* What the engine does with a DriveClient to one file of a mirrored       *)
(* folder: upload (uploader.rs) after the conflict check (conflict.rs),    *)
(* download (downloader.rs), the trashing of a file deleted locally        *)
(* (deleter.rs), the backup of a photo (photos.rs).  The user edits the    *)
(* file and somebody edits it on Drive at any time; the engine runs one    *)
(* job at a time, and a job is cut at every request and file access.       *)
(*                                                                         *)
(* A content is the number of the edit that made it; an etag is told by    *)
(* the content Drive has it for.                                           *)
(***************************************************************************)
EXTENDS DriveClient

CONSTANTS
    FILE_LEN, CHUNK_SIZE,    \* of a resumable upload, in units a session can persist
    MaxEdits                 \* bound: contents

ASSUME TransferConstants ==
    {FILE_LEN, CHUNK_SIZE, MaxEdits} \subseteq Nat \ {0}

VARIABLES
    local,              \* the file at the local path
    remote, uploaded,   \* the file on Drive; files created by uploads
    row, rows,          \* its row in drive_files; rows written after uploads
    polled,             \* the edit of remote up to which the poll has read
    edits, last,        \* contents so far; the user's last
    todo,               \* how many tasks the queue has: pending, or run by the job
    session,            \* Drive's side of the resumable upload
    job,                \* the task that runs
    \* History, by kind of task, over the whole run:
    asked,              \* tasks enqueued
    created, lost       \* files made on Drive; answers to that which were lost

fileVars == <<local, row, rows, polled, edits, last>>
jobVars == <<req, sends, job, todo, asked>>
driveVars == <<remote, uploaded, session, created, lost>>
transferVars == <<tokenVars, jobVars, fileVars, driveVars>>

-----------------------------------------------------------------------------
Content == 1..MaxEdits

\* Uploads of the watcher carry no file id, those of the filesystem do.
Kind == {"upload", "upload_id", "download", "delete", "photo"}

\* No request that fills drive_files names etag among its fields, so that
\* map_api_file_to_db writes None.  local_mtime is left out: only
\* detect_conflict reads it.
Row == [etag : Content \cup {None}, local_path : BOOLEAN, trashed : BOOLEAN]

Session == [got : 0..FILE_LEN, complete : BOOLEAN]

\* base is the row as it was read.
Job == [kind : Kind,
        at : {"begin", "check", "upload", "chunks", "query", "fetch", "place",
              "record", "trash", "bytes", "create"},
        content : Content \cup {None}, offset : 0..FILE_LEN, base : Row]

ASSUME NoneIsNoJob == None \notin Job

TransferTypeOK ==
    /\ local \in Content \cup {None}
    /\ remote \in Content \cup {None} /\ uploaded \subseteq Content
    /\ row \in Row /\ rows \subseteq Content /\ polled \in Content
    /\ edits \in Content /\ last \in Content \cup {None}
    /\ session \in Session \cup {None} /\ job \in Job \cup {None}
    /\ todo \in [Kind -> Nat] /\ asked \in [Kind -> Nat]
    /\ created \in [Kind -> Nat] /\ lost \in [Kind -> Nat]

ClientTypeOK == TokenTypeOK /\ RequestTypeOK /\ TransferTypeOK

TransferInit ==
    /\ TokenInit /\ RequestInit
    /\ local = 1 /\ remote = 1 /\ uploaded = {}
    /\ row = [etag |-> None, local_path |-> TRUE, trashed |-> FALSE]
    /\ rows = {} /\ polled = 1
    /\ edits = 1 /\ last = None
    /\ session = None /\ job = None
    /\ todo = [k \in Kind |-> 0] /\ asked = [k \in Kind |-> 0]
    /\ created = [k \in Kind |-> 0] /\ lost = [k \in Kind |-> 0]

-----------------------------------------------------------------------------
\* The steps of a job.

Others == UNCHANGED <<account, keyring, cache, google, flow, leaving, refresh, ops, faults,
                      spoilt, remote, uploaded, polled, edits, last, asked>>

InJob(at) == job # None /\ job.at = at

Continue(j, purpose) == job' = j /\ Ask(purpose) /\ UNCHANGED <<client, todo>>

\* Mutant: a task whose run is over is pending again, whatever came of it.
EndsPending(keep) ==
    /\ job' = None /\ req' = None /\ client' = None
    /\ keep \in BOOLEAN
    /\ UNCHANGED <<sends, todo>>

\* The run is over; a failed task may be pending again, for a retry (SyncQueue).
Ends(keep) ==
    /\ job' = None /\ req' = None /\ client' = None
    /\ todo' = IF keep THEN todo ELSE [todo EXCEPT ![job.kind] = @ - 1]
    /\ UNCHANGED sends

Completes == Ends(FALSE)
Fails == \E keep \in BOOLEAN : Ends(keep)

StartJob(k) ==
    /\ job = None /\ req = None /\ client # None /\ refresh = None /\ todo[k] > 0
    /\ job' = [kind |-> k, at |-> "begin", content |-> None, offset |-> 0, base |-> row]
    /\ session' = None
    /\ UNCHANGED <<req, sends, client, todo, local, row, rows, created, lost>> /\ Others

Files == UNCHANGED <<local, row, rows>> /\ Others
Sessions == UNCHANGED <<session, created, lost>>

-----------------------------------------------------------------------------
\* upload_file: a file that cannot be read fails the task; the size decides.
upload_file ==
    IF local = None THEN Fails
    ELSE \E strategy \in {"multipart", "start"} :
           Continue([job EXCEPT !.at = "upload", !.content = local], strategy)

UploadBegins ==
    /\ InJob("begin") /\ job.kind = "upload"
    /\ upload_file
    /\ Files /\ Sessions

\* check_and_resolve: without a local file there is no conflict.
CheckBegins ==
    /\ InJob("begin") /\ job.kind = "upload_id"
    /\ IF local = None THEN upload_file
       ELSE Continue([job EXCEPT !.at = "check", !.content = local], "read")
    /\ Files /\ Sessions

\* What detect_conflict makes of the two etags.
remote_changed == job.base.etag # None /\ job.base.etag # remote

\* Drive's metadata have come, or not.  Either way the upload follows: with no
\* etag in the row there is no conflict, and resolve_conflict is never reached
\* (a job that saw one would stay here, against JobsEnd).
ConflictChecked ==
    /\ InJob("check")
    /\ (Returned("ok") /\ ~remote_changed) \/ Returned("err")
    /\ upload_file
    /\ Files /\ Sessions

UploadOk == rows' = rows \cup {job.content} /\ Completes

UploadErr == Fails /\ UNCHANGED rows

files_upload_multipart ==
    /\ InJob("upload") /\ req.for = "multipart"
    /\ \/ Returned("ok") /\ UploadOk
       \/ Returned("err") /\ UploadErr
    /\ UNCHANGED <<local, row>> /\ Others /\ Sessions

-----------------------------------------------------------------------------
\* do_resumable_upload.

\* Mutant: the last chunk is as long as the others.
ChunkEndPast(offset) == offset + CHUNK_SIZE

ChunkEnd(offset) == IF offset + CHUNK_SIZE < FILE_LEN THEN offset + CHUNK_SIZE ELSE FILE_LEN

\* Mutant: a loop that has sent every byte has succeeded.
NextChunkTrusting(offset) ==
    IF offset < FILE_LEN
    THEN Continue([job EXCEPT !.at = "chunks", !.offset = offset], "chunk") /\ UNCHANGED rows
    ELSE UploadOk

\* The loop's condition; without a file at its end the upload has failed.
NextChunk(offset) ==
    IF offset < FILE_LEN
    THEN Continue([job EXCEPT !.at = "chunks", !.offset = offset], "chunk") /\ UNCHANGED rows
    ELSE UploadErr

files_upload_resumable_start ==
    /\ InJob("upload") /\ req.for = "start"
    /\ \/ Returned("ok") /\ NextChunk(0)
       \/ Returned("err") /\ UploadErr
    /\ UNCHANGED <<local, row>> /\ Others /\ Sessions

\* 308 without a Range header counts as the whole chunk received.
files_upload_resumable_chunk ==
    /\ InJob("chunks")
    /\ \/ Returned("ok") /\ session.complete /\ UploadOk
       \/ /\ Returned("ok") /\ ~session.complete
          /\ NextChunk(IF session.got > 0 THEN session.got ELSE ChunkEnd(job.offset))
       \/ /\ Returned("err")
          /\ Continue([job EXCEPT !.at = "query"], "query")
          /\ UNCHANGED rows
    /\ UNCHANGED <<local, row>> /\ Others /\ Sessions

\* Mutant: a query that fails is followed by the same chunk.
QueryInsists ==
    /\ InJob("query")
    /\ \/ Returned("ok") /\ NextChunk(IF session.complete THEN FILE_LEN ELSE session.got)
       \/ Returned("err") /\ NextChunk(job.offset)
    /\ UNCHANGED <<local, row>> /\ Others /\ Sessions

\* is_complete is not looked at: everything received ends the loop.
files_upload_resumable_query ==
    /\ InJob("query")
    /\ \/ Returned("ok") /\ NextChunk(IF session.complete THEN FILE_LEN ELSE session.got)
       \/ Returned("err") /\ UploadErr
    /\ UNCHANGED <<local, row>> /\ Others /\ Sessions

-----------------------------------------------------------------------------
\* Downloads: a temporary file, renamed over the local path.

DownloadBegins ==
    /\ InJob("begin") /\ job.kind = "download"
    /\ Continue([job EXCEPT !.at = "fetch"], "fetch")
    /\ Files /\ Sessions

\* The content streams in; Drive's answer, the stream or the disk may fail.
do_download ==
    /\ InJob("fetch")
    /\ \/ /\ Returned("ok") /\ remote # None
          /\ job' = [job EXCEPT !.at = "place", !.content = remote] /\ req' = None
          /\ UNCHANGED <<sends, client, todo>>
       \/ Returned("err") /\ Fails
    /\ Files /\ Sessions

Placed ==
    /\ InJob("place")
    /\ local' = job.content
    /\ job' = [job EXCEPT !.at = "record"]
    /\ UNCHANGED <<req, sends, client, todo, row, rows>> /\ Others /\ Sessions

\* The row as it was read before the download.
Recorded ==
    /\ InJob("record")
    /\ row' = [job.base EXCEPT !.local_path = TRUE]
    /\ Completes
    /\ UNCHANGED <<local, rows>> /\ Others /\ Sessions

-----------------------------------------------------------------------------
\* handle_local_delete: a row that has lost its local path is not found.
DeleteBegins ==
    /\ InJob("begin") /\ job.kind = "delete"
    /\ IF job.base.local_path THEN Continue([job EXCEPT !.at = "trash"], "trash")
       ELSE Completes
    /\ Files /\ Sessions

files_delete ==
    /\ InJob("trash")
    /\ \/ Returned("ok") /\ Completes /\ row' = [row EXCEPT !.trashed = TRUE]
       \/ Returned("err") /\ Fails /\ UNCHANGED row
    /\ UNCHANGED <<local, rows>> /\ Others /\ Sessions

\* backup_photo: the bytes, then the media item made of them.
PhotoBegins ==
    /\ InJob("begin") /\ job.kind = "photo"
    /\ IF local = None THEN Fails
       ELSE Continue([job EXCEPT !.at = "bytes", !.content = local], "bytes")
    /\ Files /\ Sessions

upload_media_item ==
    /\ InJob("bytes")
    /\ \/ Returned("ok") /\ Continue([job EXCEPT !.at = "create"], "create")
       \/ Returned("err") /\ Fails
    /\ Files /\ Sessions

\* An item that Photos rejects in a 200 answer fails as an error does.
batch_create ==
    /\ InJob("create")
    /\ \/ Returned("ok") /\ Completes
       \/ Returned("err") /\ Fails
    /\ Files /\ Sessions

-----------------------------------------------------------------------------
\* Drive (external), by what a request is for.

Untouched == UNCHANGED <<remote, uploaded, session, created, lost>>

\* An answer that does not arrive although the thing has been done.
CountLost == lost' = IF req'.at = "ok" THEN lost ELSE [lost EXCEPT ![job.kind] = @ + 1]

Creates(c) ==
    /\ uploaded' = uploaded \cup {c}
    /\ created' = [created EXCEPT ![job.kind] = @ + 1]
    /\ CountLost

\* It takes what follows on what it has, up to the byte before end; with the
\* last byte the file is there.  Any other chunk leaves the session alone.
Persists(end) ==
    IF ~session.complete /\ job.offset <= session.got /\ session.got < end
    THEN /\ session' = [got |-> end, complete |-> end = FILE_LEN]
         /\ IF end = FILE_LEN THEN Creates(job.content)
            ELSE UNCHANGED <<uploaded, created, lost>>
    ELSE UNCHANGED <<uploaded, session, created, lost>>

\* What Drive does not have it answers with 404.
Known == req.for \in {"read", "fetch", "trash"} => remote # None

NotFound ==
    /\ req # None /\ ~Known /\ client \in live
    /\ Refused
    /\ Untouched
    /\ UNCHANGED <<account, keyring, cache, google, flow, leaving, refresh, client, ops,
                   faults, spoilt>>

\* Part of a chunk is persisted, or nothing, and 308 says so.
PartlyAccepted ==
    /\ InRequest("send") /\ req.for = "chunk"
    /\ Accepted /\ Fault
    /\ \E end \in session.got..(ChunkEnd(job.offset) - 1) : Persists(end)
    /\ UNCHANGED <<account, keyring, cache, google, flow, leaving, refresh, client, ops,
                   spoilt, remote>>

Requests ==
    /\ \/ execute_json(Known /\ IF req.for = "create"
                                THEN Creates(job.content) /\ UNCHANGED <<remote, session>>
                                ELSE Untouched,
                       Untouched)
       \/ execute_no_content(Known /\ remote' = None
                                /\ UNCHANGED <<uploaded, session, created, lost>>,
                             Untouched)
       \/ execute_raw(/\ Known
                      /\ CASE req.for = "multipart" ->
                                Creates(job.content) /\ UNCHANGED <<remote, session>>
                           [] req.for = "start" ->
                                session' = [got |-> 0, complete |-> FALSE]
                                /\ UNCHANGED <<remote, uploaded, created, lost>>
                           [] OTHER -> Untouched,
                      Untouched)
       \/ execute_raw_no_redirect(IF req.for = "chunk"
                                  THEN Persists(ChunkEnd(job.offset)) /\ UNCHANGED remote
                                  ELSE Untouched,
                                  Untouched)
       \/ NotFound \/ PartlyAccepted
    /\ UNCHANGED <<job, todo, asked, fileVars>>

-----------------------------------------------------------------------------
\* The user, somebody on Drive (external), and the poll.

Elsewhere ==
    UNCHANGED <<account, keyring, cache, google, flow, leaving, refresh, client, faults, spoilt,
                req, sends, job, uploaded, session, created, lost>>

enqueue(k) ==
    /\ todo' = [todo EXCEPT ![k] = @ + 1]
    /\ asked' = [asked EXCEPT ![k] = @ + 1]

\* The watcher or the mounted filesystem enqueue what the user saves.
UserEdits(k) ==
    /\ Op /\ edits < MaxEdits /\ edits' = edits + 1
    /\ local' = edits' /\ last' = edits' /\ enqueue(k)
    /\ UNCHANGED <<row, rows, polled, remote>> /\ Elsewhere

UserDeletes ==
    /\ Op /\ local # None /\ local' = None /\ last' = None
    /\ enqueue("delete")
    /\ UNCHANGED <<row, rows, polled, edits, remote>> /\ Elsewhere

EditOnDrive ==
    /\ Op /\ remote # None /\ edits < MaxEdits /\ edits' = edits + 1
    /\ remote' = edits'
    /\ UNCHANGED <<local, row, rows, polled, last, todo, asked>> /\ Elsewhere

\* process_change in mirror mode (ChangesFeed): the row forgets the local copy.
Poll ==
    /\ account /\ job = None /\ client = None /\ refresh = None
    /\ remote # None /\ remote # polled /\ polled' = remote
    /\ row' = [etag |-> None, local_path |-> FALSE, trashed |-> FALSE]
    /\ enqueue("download")
    /\ UNCHANGED <<local, rows, edits, last, remote, ops>> /\ Elsewhere

\* A crash.  A task is in_progress from the start of its run proper, after the
\* conflict check, and next_pending_task does not return it any more.
TransferRestart ==
    /\ TokensRestart
    /\ job' = None /\ req' = None /\ session' = None
    /\ todo' = IF job # None /\ job.at \notin {"begin", "check"}
               THEN [todo EXCEPT ![job.kind] = @ - 1] ELSE todo
    /\ UNCHANGED <<sends, asked, fileVars, remote, uploaded, created, lost>>

-----------------------------------------------------------------------------
JobNext ==
    \/ \E k \in Kind : StartJob(k)
    \/ UploadBegins \/ CheckBegins \/ ConflictChecked
    \/ files_upload_multipart \/ files_upload_resumable_start
    \/ files_upload_resumable_chunk \/ files_upload_resumable_query
    \/ DownloadBegins \/ do_download \/ Placed \/ Recorded
    \/ DeleteBegins \/ files_delete \/ PhotoBegins \/ upload_media_item \/ batch_create

Beside == UNCHANGED <<jobVars, fileVars, driveVars>>

\* A refresh outside a request is that of build_client_for_account.
RefreshSteps ==
    \/ (refresh_access_token \/ RefreshSaves) /\ UNCHANGED <<req, sends>>
    \/ Refreshed \/ NotRefreshed
    \/ req = None /\ (RefreshFails \/ RefreshCaches) /\ UNCHANGED <<req, sends>>

EngineNext ==
    \/ JobNext \/ Requests
    \/ RefreshSteps /\ UNCHANGED <<job, todo, asked, fileVars, driveVars>>

TransferNext ==
    \/ EngineNext
    \/ (\E k \in Kind : todo[k] > 0) /\ job = None /\ (BuildFromCache \/ BuildByRefresh) /\ Beside
    \/ (LoginNext \/ DisconnectNext \/ GoogleNext) /\ Beside
    \/ TransferRestart
    \/ \E k \in {"upload", "upload_id", "photo"} : UserEdits(k)
    \/ UserDeletes \/ EditOnDrive \/ Poll

TransferSpec == TransferInit /\ [][TransferNext]_transferVars

\* What the engine awaits returns: requests and refreshes are answered or fail,
\* and a file access ends.
FairTransfers == TransferSpec /\ WF_transferVars(EngineNext /\ (job # None))

-----------------------------------------------------------------------------
\* Properties.

\* The refresh token in the keyring is one that Google accepts, through logins,
\* rotations, disconnects and the engine's refreshes that race them, unless it
\* was revoked or its successor got lost with an answer, a failed write or a
\* crash (RefreshSaves, LoginSaves).
KeyringUsable ==
    (keyring # None /\ ~spoilt /\ ~(Refreshing("answered") /\ refresh.new_rt # refresh.rt))
    => keyring \in grants

\* Every file the uploads and backups make on Drive, from the first task to the
\* last, is owed to a task of its own or to an answer that was lost after Drive
\* had made one: the retry of a POST, the query of a session whose last answer
\* was lost, the retry of the task.  Neither a run that fails nor a restart in
\* the middle of one makes a file of a task a second time.
NoNeedlessCopy == \A k \in Kind : created[k] <= asked[k] + lost[k]

\* A row written after an upload is of a file that is on Drive with all its
\* bytes, whatever chunks were refused, cut short or answered without a Range.
RowsAreReal == rows \subseteq uploaded

\* A job ends, whatever Drive answers, as long as it does not misbehave for ever.
JobsEnd == job # None ~> job = None

\* "Detects edit conflicts and keeps both versions so you never lose work": the
\* user's last edit is on disk or on Drive.
NeverLosesWork == last # None => last \in {local, remote} \cup uploaded
=============================================================================
