---------------------------- MODULE MCSyncQueue ----------------------------
(* Instances of SyncQueue for TLC.                                           *)
EXTENDS SyncQueue

Task(op, file, path, ok, prio) ==
    [operation |-> op, file_id |-> file, local_path |-> path,
     supported |-> ok, priority |-> prio]

\* One task of each producer that the engine treats differently.
FileProviderUpload   == Task("upload", TRUE, TRUE, TRUE, 1)
VfsDownload          == Task("download", TRUE, TRUE, TRUE, 1)
VfsRename            == Task("rename", TRUE, TRUE, TRUE, 1)
FpDeleteNoCopy       == Task("delete", TRUE, FALSE, TRUE, 1)
WatcherUpload        == Task("upload", FALSE, TRUE, TRUE, 5)
WatcherDelete        == Task("delete", FALSE, TRUE, TRUE, 5)
WatcherPhoto         == Task("photos_backup", FALSE, TRUE, TRUE, 5)
WatcherNotAPhoto     == Task("photos_backup", FALSE, TRUE, FALSE, 5)

\* No producer writes this row; the processors guard against it all the same.
BareUpload           == Task("upload", FALSE, FALSE, TRUE, 5)

AllKinds == {FileProviderUpload, VfsDownload, VfsRename, FpDeleteNoCopy, WatcherDelete,
             WatcherPhoto, WatcherNotAPhoto, BareUpload}
UploadKinds == {FileProviderUpload, WatcherUpload}
=============================================================================
