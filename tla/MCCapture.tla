------------------------------ MODULE MCCapture ------------------------------
(* A task and one it starts, two captures of one name, three calls.       *)
EXTENDS Capture

F(function, code) == [function |-> function, code |-> code]

MCCallStack ==
    [t \in Tasks |->
        IF t = Main THEN <<F("create", "sdk"), F("ask", "user"), F("plan", "user"), F("run", "agentdiff")>>
        ELSE <<F("invoke", "framework"), F("work", "user")>>]
MCAgentNames == [plan |-> "Planner", search |-> "Searcher"]

Setting(shims, n, blocks, kinds) ==
    [enabled |-> shims, calls |-> n, captures |-> blocks, faults |-> kinds]

MCScenarios ==
    {Setting({"openai", "httpx", "aiohttp"}, 2, {"first"}, {"capture"}),
     Setting({"openai", "httpx"}, 3, {"first"}, {"cancel"}),
     Setting({"httpx", "span", "grpc_stream"}, 2, {"first"}, {"capture", "cancel"}),
     Setting({"httpx"}, 1, {"first", "second"}, {"flush", "install"}),
     Setting({"tool"}, 2, {"first", "second"}, {})}
=============================================================================
