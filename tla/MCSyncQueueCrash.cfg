SPECIFICATION Spec
CONSTANTS
    None = None
    TaskId = {t1}
    Account = {a1}
    Disconnectable = {}
    TaskKind <- UploadKinds
    CreatedAt = {1}
    MAX_RETRIES = 1
    BATCH = 2
    MaxFaults = 1
INVARIANTS CrashRecovery
