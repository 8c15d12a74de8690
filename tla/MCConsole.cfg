CONSTANTS
    Recorders = {"r1", "r2"}
    Workers = {"w1", "w2"}
    Settings <- MCSettings
    Interval = 3
    LeaseTTL = 2
    Skew = 1
    Window = 2
    MinSamples = 1
    Retention = 3
    Admins = {"a1", "a2", "a3", "a4"}
    Callbacks = {"c1", "c2"}
    KnownUser = FALSE
SPECIFICATION Spec
INVARIANTS
    TypeOK
    TrafficAccounted
    DriftIsBacked
    AuditAgrees
CHECK_DEADLOCK FALSE
