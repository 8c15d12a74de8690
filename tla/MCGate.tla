------------------------------- MODULE MCGate -------------------------------
(* Jobs that record and replay a cassette, and jobs that deliver a verdict. *)
EXTENDS Gate, TLC

Call(mode, base, cand, samples) ==
    [mode |-> mode, baseline |-> base, candidate |-> cand, dir |-> "shared",
     samples |-> samples, inputs |-> "enough", failOn |-> "fail", delivers |-> FALSE]

MCCalls == [c \in Codes |-> CASE c = "old" -> {"r1"} [] c = "new" -> {"r2"} [] c = "local" -> {}]

MCCassettes ==
    {[first |-> Call("record", "local", "old", 1), second |-> Call("replay", "new", "old", 1)],
     [first |-> Call("replay", "old", "old", 1),
      second |-> [Call("record", "old", "new", 1) EXCEPT !.dir = "fresh"]],
     [first |-> Call("record", "local", "old", 2)]}

MCDelivery(inputs, failOn) ==
    [Call("live", "local", "local", 1) EXCEPT !.inputs = inputs, !.failOn = failOn, !.delivers = TRUE]

MCDeliveries ==
    {[first |-> MCDelivery("few", "fail"), second |-> MCDelivery("few", "warn")],
     [first |-> MCDelivery("enough", "never"), second |-> MCDelivery("none", "fail")]}

(* One job records and one replays what it recorded. *)
MCRecordThenReplay ==
    {[first |-> Call("record", "local", "old", 1), second |-> Call("replay", "old", "old", 1)]}

MCSettings == MCCassettes \cup MCDeliveries

MCAnswerSymmetry == Permutations(Answers)
=============================================================================
