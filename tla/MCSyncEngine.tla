---------------------------- MODULE MCSyncEngine ----------------------------
(* Instances of SyncEngine for TLC.                                          *)
EXTENDS SyncEngine

\* What the watcher sends for a changed file: no file_id, priority 5.
WatcherUpload ==
    [operation |-> "upload", file_id |-> FALSE, local_path |-> TRUE,
     supported |-> TRUE, priority |-> 5]

OneKind == {WatcherUpload}
=============================================================================
