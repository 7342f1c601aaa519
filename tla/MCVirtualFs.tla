----------------------------- MODULE MCVirtualFs -----------------------------
(* The virtual filesystem with two names: a folder and a file in it.       *)
EXTENDS VirtualFs

\* The root, the folder, the file, and the names that are free at first.
MCPaths == {<<>>, <<FolderName>>, <<FileName>>, <<FolderName, FileName>>}
=============================================================================
