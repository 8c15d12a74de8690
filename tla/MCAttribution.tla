---------------------------- MODULE MCAttribution ----------------------------
(* Reworded agents in files 1 and 2, a library in file 3 and a prompt in file 4, *)
(* compared in two cases.  Base set of worlds varies what the runs show, one *)
(* what the files import and one what the user named.                      *)
EXTENDS Attribution

Base == [prompt |-> 1, model |-> 1, tools |-> {}]
Reworded == [prompt |-> 2, model |-> 1, tools |-> {}]
Dear == [prompt |-> 1, model |-> 2, tools |-> {}]
Handy == [prompt |-> 1, model |-> 1, tools |-> {"search"}]

E(name, function, file) == [name |-> name, function |-> function, file |-> file]
Listing(agents, tools, entries) ==
    [r \in Roles |-> CASE r = "agent" -> agents [] r = "tool" -> tools [] r = "entry_point" -> entries]

(* The second agent has a function of its own, or another file's "plan".   *)
Fresh(second) ==
    Listing(<<E("planner", "plan", 1), E("actor", second, 2)>>, <<E("tool", "act", 3)>>, <<>>)
Empty == Listing(<<>>, <<>>, <<>>)
Renamed == Listing(<<E("boss", "plan", 1), E("actor", "act", 2)>>, <<E("finder", "act", 3)>>, <<>>)
Moved == Listing(<<>>, <<E("boss", "plan", 1)>>, <<E("actor", "act", 2)>>)
Doubled == Listing(<<E("planner", "plan", 1)>>, <<E("boss", "plan", 1)>>, <<>>)
Entered == Listing(<<E("boss", "plan", 1)>>, <<>>, <<E("actor", "plan", 1)>>)

Body(first, second) ==
    [f \in FilePaths |-> [d \in Defs |->
        CASE f = 1 /\ d = "plan" -> first [] f = 2 -> second [] OTHER -> Nowhere]]

Home(p) == IF p = 1 THEN 4 ELSE Nowhere
NoImports == [f \in FilePaths |-> <<>>]
Judge(first, second) == [i \in 1 .. TestCases |-> [n \in Names |-> IF i = 1 THEN first ELSE second]]
Same(obs) == [v \in Versions |-> [n \in Names |-> obs]]

Usual ==
    [mode |-> "git", existing |-> Empty, fresh |-> Fresh("act"),
     body |-> [v \in Versions |-> Body(1, 1)], changed |-> {3},
     home |-> [p \in Prompts |-> Home(p)], gone |-> {},
     imports |-> NoImports, observed |-> Same(<<Base>>), verdicts |-> Judge("fail", "pass")]

ObservedRuns == {<<>>, <<Base>>, <<Reworded>>, <<Dear, Base>>, <<Base, Dear>>, <<Base, Handy, Handy>>}

OfRuns ==
    {[Usual EXCEPT !.mode = mode, !.fresh = Fresh(second),
        !.body["candidate"] = Body(bodies[1], bodies[2]),
        !.changed = {f \in {1, 2} : bodies[f] # 1} \cup more,
        !.observed["baseline"] = [n \in Names |-> b],
        !.observed["candidate"] = [n \in Names |-> c],
        !.verdicts = Judge("warn", "fail")] :
        mode \in {"git", "observed"}, second \in {"act", "plan"},
        bodies \in {<<0, 1>>, <<1, 1>>, <<2, 1>>, <<1, 2>>}, more \in {{}, {3, 4}},
        b \in {<<>>, <<Base>>, <<Dear, Base>>}, c \in ObservedRuns}

Lists(S) == {<<>>} \cup {<<a>> : a \in S} \cup {<<a, b>> : a \in S, b \in S}

OfImports ==
    {[Usual EXCEPT !.changed = changed, !.gone = gone,
        !.imports = [f \in FilePaths |-> CASE f = 1 -> x [] f = 2 -> y [] f = 3 -> z [] OTHER -> <<>>]] :
        changed \in {{3}, {1, 2}}, gone \in {{}, {1}},
        x \in Lists({2, 3}), y \in Lists({2, 3}), z \in {<<>>, <<2>>, <<3, 2>>}}

OfNames ==
    {[Usual EXCEPT !.existing = old, !.fresh = Fresh(second), !.verdicts = Judge(first, second2)] :
        old \in {Empty, Renamed, Moved, Doubled, Entered}, second \in {"act", "plan"},
        first \in Judgements, second2 \in Judgements}

MCWorlds == OfRuns \cup OfImports \cup OfNames
=============================================================================
