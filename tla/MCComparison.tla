----------------------------- MODULE MCComparison -----------------------------
(* Two test cases of two agents with one function and one tool, up to four *)
(* samples a side.                                                         *)
EXTENDS Comparison

MCNormal ==
    {[z2 |-> 0, p |-> 1000], [z2 |-> 1, p |-> 750], [z2 |-> 455, p |-> 350],
     [z2 |-> 1642, p |-> 150], [z2 |-> 2706, p |-> 75], [z2 |-> 3842, p |-> 45],
     [z2 |-> 4218, p |-> 35], [z2 |-> 5024, p |-> 22],
     [z2 |-> 5412, p |-> 15], [z2 |-> 6635, p |-> 7],
     [z2 |-> 7879, p |-> 3]}

MCAgents == <<"router", "planner">>
MCFunctionOf == [a \in Range(MCAgents) |-> "route"]
MCTools == <<"search">>

Run(fires, calls, latency, ok) ==
    [fires |-> fires, calls |-> [t \in {"search"} |-> calls], latency |-> latency,
     tokens |-> 100, ok |-> ok]

Quiet == Run({}, 0, 100, TRUE)
Busy == Run({"router", "planner"}, 2, 100, TRUE)
Slow == Run({"router"}, 0, 7000, TRUE)
Broken == Run({}, 1, 100, FALSE)
MCRuns == {Quiet, Busy, Slow, Broken}

MCWarn == [k \in Kinds |->
    CASE k = "agent" -> 20 [] k = "tool" -> 50 [] k = "latency_ms" -> 100000
      [] k = "total_tokens" -> 20000 [] k = "error_rate" -> 10]
MCFail == [k \in Kinds |->
    CASE k = "agent" -> 50 [] k = "tool" -> 100 [] k = "latency_ms" -> 500000
      [] k = "total_tokens" -> 100000 [] k = "error_rate" -> 25]

Times(n, run) == [i \in 1 .. n |-> run]
Sampled ==
    {<<>>, Times(1, Quiet), Times(4, Quiet), Times(4, Busy), Times(4, Slow), Times(4, Broken),
     Times(3, Quiet) \o Times(1, Busy), <<Quiet>> \o Times(3, Slow), <<Quiet, Busy, Slow>>}

Doc(a, b) == [kind |-> "structured", length |-> 9, leaves |-> [a |-> a, b |-> b]]
Text(n) == [kind |-> "text", length |-> n, leaves |-> <<>>]
MCOutputs == {Text(0), Text(4), Text(5), Text(9), Doc(1, 1), Doc(1, 2)}

MCMeetings ==
    [baseline : {<<>>, <<Text(0), Text(5)>>, <<Doc(1, 1)>>},
     candidate : {<<Text(0)>>, <<Text(4)>>, <<Text(9)>>, <<Doc(1, 1)>>, <<Doc(1, 2)>>},
     semantic : {40, 75, 90, NoScore},
     replies : {<<>>, <<80, Garbled>>, <<Garbled, 20>>, <<Garbled, 60>>, <<Garbled, Garbled>>}]

(* No samples and nothing to evaluate. *)
Least ==
    [command |-> "ci", correction |-> "none", inputs |-> "few",
     samples |-> {<< <<>>, <<>> >>}, outputs |-> {}]

MCSettings ==
    {Least,
     [command |-> "ci", correction |-> "benjamini_hochberg", inputs |-> "enough",
      samples |-> Sampled \X Sampled, outputs |-> {}],
     [command |-> "ci", correction |-> "benjamini_hochberg", inputs |-> "few",
      samples |-> {Times(4, Quiet), Times(4, Slow)} \X Sampled, outputs |-> {}],
     [command |-> "ci", correction |-> "none", inputs |-> "enough",
      samples |-> {Times(4, Quiet), Times(4, Busy)} \X Sampled, outputs |-> {}]}
    \cup {[command |-> "compare", correction |-> "benjamini_hochberg", inputs |-> "enough",
           samples |-> {<<Times(4, Quiet), Times(4, Busy)>>}, outputs |-> MCMeetings],
          [command |-> "server", correction |-> "none", inputs |-> "few",
           samples |-> {Times(4, Quiet)} \X Sampled,
           outputs |-> {m \in MCMeetings : m.replies = <<>> /\ m.semantic \in {75, NoScore}}]}
=============================================================================
