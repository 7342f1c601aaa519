SPECIFICATION FairWatcher
CONSTANTS
    p1 = p1
    p2 = p2
    outer = outer
    inner = inner
    Path = {p1, p2}
    Folder = {outer, inner}
    Photos = {inner}
    Under <- Nested
    Length <- NestedLength
    CHANNEL = 1
    RELOAD_CAPACITY = 1
    MaxOps = 3
    MaxFaults = 1
INVARIANTS WatcherTypeOK NoEditForgotten
PROPERTIES FoldersWatched EditsArrive
CHECK_DEADLOCK FALSE
