SPECIFICATION FairEngine
CONSTANTS
    None = None
    TaskId = {t1, t2}
    FromWatcher = {t1}
    Account = {a1}
    Disconnectable = {a1}
    TaskKind <- OneKind
    CreatedAt = {1}
    MAX_RETRIES = 0
    BATCH = 1
    MaxFaults = 1
    Client = {c1}
    SwitchModes = {"stream"}
    PrefsModes = {"mirror"}
    CMD_CAPACITY = 1
    WATCH_CAPACITY = 1
INVARIANTS EngineTypeOK
PROPERTIES PauseHolds PauseObeyed RequestsAnswered SyncingEnds QueueWorkedOff
