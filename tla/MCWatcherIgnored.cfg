SPECIFICATION WatcherSpec
CONSTANTS
    p1 = p1
    p2 = p2
    outer = outer
    inner = inner
    Path = {p1}
    Folder = {outer}
    Photos = {}
    Under <- Nested
    Length <- NestedLength
    CHANNEL = 1
    RELOAD_CAPACITY = 1
    MaxOps = 3
    MaxFaults = 0
PROPERTY OnlyMetadataIgnored
CHECK_DEADLOCK FALSE
