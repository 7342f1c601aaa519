----------------------------- MODULE MCWatcher -----------------------------
(* Instances of Watcher for TLC: a photos folder inside a drive folder holds *)
(* p1; p2 is elsewhere on the disk.                                          *)
EXTENDS Watcher

CONSTANTS p1, p2, outer, inner

Nested == [d \in Folder |-> {p1}]
NestedLength == [d \in Folder |-> IF d = inner THEN 2 ELSE 1]
=============================================================================
