CONSTANTS
    Jobs = {"first", "second"}
    Settings <- MCRecordThenReplay
    Dirs = {"shared", "fresh"}
    Codes = {"old", "new", "local"}
    Requests = {"r1", "r2"}
    Calls <- MCCalls
    Answers = {a, b}
    Samples = 2
    MaxAttempts = 2
    MaxPosts = 2
    MaxRate = 50
    PageSize = 1
    MaxOthers = 1
    Faults = {"timeout"}
SPECIFICATION Spec
INVARIANT ReplayIsDeterministic
CHECK_DEADLOCK FALSE
