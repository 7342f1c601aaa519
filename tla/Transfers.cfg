CONSTANTS
    None = None
    MaxIssued = 3
    MaxOps = 3
    MaxFaults = 1
    MaxRetries = 1
    FILE_LEN = 3
    CHUNK_SIZE = 2
    MaxEdits = 3
SPECIFICATION FairTransfers
INVARIANTS ClientTypeOK AttemptsBounded KeyringUsable  RowsAreReal
CHECK_DEADLOCK FALSE
PROPERTY JobsEnd
