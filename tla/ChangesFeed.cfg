SPECIFICATION FairFeed
CONSTANTS
    File = {f1, f2}
    Folder = {f2}
    InFolder = {f1}
    Mirror = TRUE
    PAGE = 1
    MaxChanges = 2
    MaxLogins = 1
    MaxFaults = 1
INVARIANTS FeedTypeOK NoChangeLost
PROPERTIES CatchesUp
CHECK_DEADLOCK FALSE
