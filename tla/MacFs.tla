-------------------------------- MODULE MacFs --------------------------------
(***************************************************************************)
(* gdriver-vfs/src/macos.rs.  mount tries FileProvider, which always gives *)
(* up, and falls back to FUSE-T; the FUSE-T callbacks are those of linux.rs *)
(* line for line but for the error of a Google Workspace file, so each is  *)
(* the action of FuseFs under this platform's name.  The XPC listener of   *)
(* FileProvider is never created by the code that is here.                 *)
(***************************************************************************)
EXTENDS FuseFs

mac_lookup(p, n) == lookup(p, n)
mac_getattr(i) == getattr(i)
mac_readdir(p) == readdir(p)
mac_open(i) == open(i, "ENOTSUP")
mac_read(fh) == read(fh)
mac_create(p, n) == create(p, n)
mac_write(fh) == write(fh)
mac_flush(fh) == flush(fh)
mac_fsync(fh) == fsync(fh)
mac_unlink(p, n) == unlink(p, n)
mac_rename(p, n, newp, newn) == rename(p, n, newp, newn)
mac_mkdir(p, n) == mkdir(p, n)
mac_rmdir(p, n) == rmdir(p, n)
mac_release(fh) == release(fh)

\* mount_fileprovider bails out, whatever the machine.
FileProviderMounts == FALSE

\* mount_fuse_t: no FUSE device, no mount point or no session fails the mount.
mount_fuse_t == mount_fuse

MacMount == ~FileProviderMounts /\ mount_fuse_t

MacNext ==
    /\ platform = "macos"
    /\ \/ MacMount
       \/ \E i \in Inode : mac_getattr(i) \/ mac_readdir(i) \/ mac_open(i)
       \/ \E fh \in Fh :
            mac_release(fh) \/ mac_read(fh) \/ mac_write(fh) \/ mac_flush(fh) \/ mac_fsync(fh)
       \/ \E p \in Inode, n \in Name :
            \/ mac_lookup(p, n) \/ mac_create(p, n) \/ mac_unlink(p, n)
            \/ mac_mkdir(p, n) \/ mac_rmdir(p, n)
            \/ \E newp \in Inode, newn \in Name : mac_rename(p, n, newp, newn)
       \/ FuseContinues
=============================================================================
