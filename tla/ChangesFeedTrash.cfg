SPECIFICATION FeedSpec
CONSTANTS
    File = {f1}
    Folder = {}
    InFolder = {}
    Mirror = FALSE
    PAGE = 2
    MaxChanges = 1
    MaxLogins = 1
    MaxFaults = 0
PROPERTIES TrashRemovesCopy
CHECK_DEADLOCK FALSE
