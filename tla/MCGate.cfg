CONSTANTS
    Jobs = {"first", "second"}
    Settings <- MCSettings
    Dirs = {"shared", "fresh"}
    Codes = {"old", "new", "local"}
    Requests = {"r1", "r2"}
    Calls <- MCCalls
    Answers = {a, b}
    Samples = 2
    MaxAttempts = 2
    MaxPosts = 2
    MaxRate = 50
    PageSize = 1
    MaxOthers = 1
    Faults = {"kill", "runner", "timeout", "handled", "checkout", "flush", "slack", "github"}
SPECIFICATION Spec
INVARIANTS
    TypeOK
    ReplayRepeatsRecording
    MissStopsGate
    ExitIsEarned
    PostedOnce
SYMMETRY MCAnswerSymmetry
CHECK_DEADLOCK FALSE
