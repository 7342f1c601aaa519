SPECIFICATION FairSpec
CONSTANTS
    None = None
    TaskId = {t1, t2}
    Account = {a1, a2}
    Disconnectable = {a2}
    TaskKind <- AllKinds
    CreatedAt = {1}
    MAX_RETRIES = 2
    BATCH = 2
    MaxFaults = 1
INVARIANTS TypeOK RetryBudget FailureReported NoTaskLeftBehind BoundedOvertaking
PROPERTIES ImplementsLifecycle TasksSettle BatchEnds
