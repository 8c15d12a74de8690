CONSTANTS
    q1 = q1
    q2 = q2
    q3 = q3
    k1 = k1
    k2 = k2
    Requests <- MCRequests
    Keys = {k1}
    KeyOf <- MCSameKey
    EngineVerdicts = {"pass", "fail"}
    Capped = TRUE
    Limit = 1
    MaxInFlight = 2
    MaxTries = 2
    Faults = {"handler", "enqueue", "job", "slack"}
    NoRun = NoRun
SPECIFICATION Spec
INVARIANT ReplayNotCounted
CHECK_DEADLOCK FALSE
