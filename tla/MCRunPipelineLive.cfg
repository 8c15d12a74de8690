CONSTANTS
    q1 = q1
    q2 = q2
    q3 = q3
    k1 = k1
    k2 = k2
    Requests <- MCRequests
    Keys = {k1, k2}
    KeyOf <- MCKeyOf
    EngineVerdicts = {"fail"}
    Capped = TRUE
    Limit = 1
    MaxInFlight = 1
    MaxTries = 2
    Faults = {"handler", "enqueue", "job"}
    NoRun = NoRun
SPECIFICATION FairSpec
INVARIANT AcceptedIsBacked
PROPERTIES
    DeliveredSettles
    IncidentPosted
    QueueDrains
CHECK_DEADLOCK FALSE
