CONSTANTS
    N = 2
    MaxAttempts = 2
    Configs <- MCConfigs
    Faults = {"error", "exit", "scratch", "flush", "output"}
    MaxFaults = 1
SPECIFICATION FairSpec
INVARIANTS
    TypeOK
    OneLinePerSample
    LineOfDecidingAttempt
    OnlyFaultsSpoil
    
    RunnersBounded
PROPERTY TimedRunEnds
CHECK_DEADLOCK FALSE
