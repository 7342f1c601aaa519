CONSTANTS
    None = None
    Client = {a1, a2, e1}
    Populations = {{a1, a2}, {a1, e1}}
    App = {a1, a2}
    MaxCalls = 2
    MaxFaults = 1
    Capacity = 1
    MaxAttempts = 2
    MaxPush = 2
    MaxLoad = 4
SPECIFICATION FairIpc
INVARIANTS IpcTypeOK DiskNeverTorn PreferencesAgree AnswerIsOwn AnsweredIsDone
PROPERTIES CallsReturn BlockingCallsReturn LastPushArrives
CHECK_DEADLOCK FALSE
