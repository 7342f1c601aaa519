SPECIFICATION EngineSpec
CONSTANTS
    None = None
    TaskId = {t1}
    FromWatcher = {t1}
    Account = {a1}
    Disconnectable = {}
    TaskKind <- OneKind
    CreatedAt = {1}
    MAX_RETRIES = 1
    BATCH = 2
    MaxFaults = 0
    Client = {c1}
    SwitchModes = {"stream", "mirror"}
    PrefsModes = {}
    CMD_CAPACITY = 2
    WATCH_CAPACITY = 1
INVARIANTS ModeSwitchMigrates
