CONSTANTS
    Tasks = {"main", "child"}
    Main = "main"
    Captures = {"first", "second"}
    Scenarios <- MCScenarios
    Available = {"openai", "httpx", "span", "grpc_stream"}
    CallStack <- MCCallStack
    AgentNames <- MCAgentNames
    MaxCalls = 3
    Normal <- MCNormal
    Scale = 27720
    Agents <- MCAgents
    FunctionOf <- MCFunctionOf
    Tools <- MCTools
    Runs <- MCRuns
    Cases = 2
    MaxRuns = 4
    Warn <- MCWarn
    Fail <- MCFail
    Alpha = 50
    MinSamples = 2
    Outputs <- MCOutputs
    Marks = {20, 40, 60, 75, 80, 90}
    Settings <- MCSettings
    Files = 4
    Defs = {"plan", "act"}
    Names = {"planner", "actor", "boss", "tool", "finder"}
    Bodies = {1, 2}
    Prompts = {1, 2}
    Models = {1, 2}
    ToolSets = {{}, {"search"}}
    TestCases = 2
    MaxFiles = 3
    Worlds <- MCWorlds
SPECIFICATION EngineSpec
INVARIANTS
    CaptureTypeOK
    KeptOnce
    HistoryIsWhole
    TypeOK
    CorrectionIsStepUp
    VerdictSettled
    FullPassIsFull
    AttributionTypeOK
    CauseMatchesChange
    WalkIsReachability
CHECK_DEADLOCK FALSE
