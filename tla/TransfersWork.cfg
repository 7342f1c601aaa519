CONSTANTS
    None = None
    MaxIssued = 1
    MaxOps = 2
    MaxFaults = 0
    MaxRetries = 1
    FILE_LEN = 3
    CHUNK_SIZE = 2
    MaxEdits = 3
SPECIFICATION TransferSpec
INVARIANT NeverLosesWork
CHECK_DEADLOCK FALSE
