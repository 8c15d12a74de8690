------------------------------ MODULE Attribution ------------------------------
(***************************************************************************)
(* Who is blamed for a change of behaviour: the structure a rescan leaves  *)
(* (structure_yaml.py), the manifests of both sides and their differences, *)
(* the rules over the git diff, the walk of the import graph for the rule  *)
(* of last resort (attribution/), and the cause that the incident's        *)
(* finding carries (findings.py).                                          *)
(*                                                                         *)
(* A file is its place in the order of the repository's paths.  What a     *)
(* function's body or a prompt says is a value; 0 is what does not exist.  *)
(***************************************************************************)
EXTENDS Integers, FiniteSets, Sequences, SequencesExt

CONSTANTS
    Files,       \* number of files of the repository
    Defs,        \* qualified names of functions
    Names,       \* display names of agents and tools
    Bodies,      \* versions of a function's source
    Prompts,     \* system prompts
    Models,      \* models with their sampling parameters
    ToolSets,    \* tool names offered in a request
    TestCases,   \* number of test cases
    MaxFiles,    \* files a walk visits at most
    Worlds       \* repositories and the runs observed in them

Nowhere == 0
FilePaths == 1 .. Files
Versions == {"baseline", "candidate"}
Judgements == {"pass", "warn", "fail"}
Roles == {"agent", "tool", "entry_point"}
Entries == [name : Names, function : Defs, file : FilePaths]
Docs == [Roles -> Seq(Entries)]
Observations == [prompt : Prompts \cup {Nowhere}, model : Models, tools : ToolSets]

ASSUME FileAssumption == {Files, TestCases, MaxFiles} \subseteq Nat \ {0}

(* existing and fresh are structure.yaml and a new scan; body the source   *)
(* of a function in either version; changed the paths git calls changed;   *)
(* home the file of the working tree that holds a prompt, and gone the     *)
(* paths it has not; imports the project files a file imports, in its      *)
(* order; observed what the runs of a version asked the provider, in the   *)
(* order of the trajectories; verdicts what the comparison found.          *)
ASSUME WorldAssumption ==
    \A w \in Worlds :
        /\ w.mode \in {"git", "observed"}
        /\ w.existing \in Docs /\ w.fresh \in Docs
        /\ w.body \in [Versions -> [FilePaths -> [Defs -> Bodies \cup {Nowhere}]]]
        /\ w.changed \subseteq FilePaths
        /\ \A f \in FilePaths : w.body["baseline"][f] # w.body["candidate"][f] => f \in w.changed
        /\ w.home \in [Prompts -> FilePaths \cup {Nowhere}]
        /\ w.gone \subseteq FilePaths
        /\ w.imports \in [FilePaths -> Seq(FilePaths \ w.gone)]
        /\ w.observed \in [Versions -> [Names -> Seq(Observations)]]
        /\ w.verdicts \in [1 .. TestCases -> [Names -> Judgements]]

VARIABLES
    world,      \* fixed
    stage,      \* "rescan", "diff", "manifests", "next", "walk", "rules" or "done"
    structure,  \* structure.yaml after the rescan
    diff,       \* paths with a unified diff
    manifests,  \* of both versions, by function
    at,         \* the case and agent whose change is being attributed
    visited,    \* files the walk has seen
    frontier,   \* stack of files it has still to see
    blamed,     \* the attributions so far
    causes      \* of the incident's findings

attributionVars == <<world, stage, structure, diff, manifests, at, visited, frontier, blamed, causes>>
walk == <<visited, frontier>>
-----------------------------------------------------------------------------
(* merge_structures: a rescan keeps the names its user gave. *)

Key(e) == <<e.file, e.function>>

(* A key is known in the last role that has it; a later entry of that role *)
(* replaces an earlier one.                                                *)
KnownIn(doc, role, key) == {i \in DOMAIN doc[role] : Key(doc[role][i]) = key}
KnownAs(doc, key) ==
    CASE KnownIn(doc, "entry_point", key) # {} -> "entry_point"
      [] KnownIn(doc, "entry_point", key) = {} /\ KnownIn(doc, "tool", key) # {} -> "tool"
      [] KnownIn(doc, "entry_point", key) \cup KnownIn(doc, "tool", key) = {}
         /\ KnownIn(doc, "agent", key) # {} -> "agent"
      [] OTHER -> "unknown"
KnownEntry(doc, key) ==
    LET role == KnownAs(doc, key) IN doc[role][Max(KnownIn(doc, role, key))]

(* Entry points have no name: a function that was one has its fresh name.  *)
Merged(existing, role, e) ==
    IF role # "entry_point" /\ KnownAs(existing, Key(e)) \in {"agent", "tool"}
    THEN [e EXCEPT !.name = KnownEntry(existing, Key(e)).name]
    ELSE e

Merge(existing, fresh) ==
    [role \in Roles |->
        [i \in DOMAIN fresh[role] |-> Merged(existing, role, fresh[role][i])]]
-----------------------------------------------------------------------------
(* The manifest of one version of an agent. *)

Observed(version, name) == world.observed[version][name]

ObservedPrompts(version, name) ==
    {o.prompt : o \in Range(Observed(version, name))} \ {Nowhere}

(* The most common configuration; of equally common ones the first seen.   *)
NoConfig == [model |-> Nowhere, tools |-> {}]
Config(o) == [model |-> o.model, tools |-> o.tools]
Seen(obs, c) == {i \in DOMAIN obs : Config(obs[i]) = c}
MostCommon(obs) ==
    IF obs = <<>> THEN NoConfig
    ELSE LET best == {i \in DOMAIN obs : \A j \in DOMAIN obs :
                         Cardinality(Seen(obs, Config(obs[j])))
                         <= Cardinality(Seen(obs, Config(obs[i])))}
         IN  Config(obs[Min(best)])

(* The files that hold a prompt are looked for in the working tree, for    *)
(* both versions; a prompt found nowhere has the file Nowhere.             *)
PromptFiles(prompts) == {world.home[p] : p \in prompts}

Manifest(version, e) ==
    LET prompts == ObservedPrompts(version, e.name)
    IN  [name |-> e.name, file |-> e.file,
         code |-> world.body[version][e.file][e.function],
         prompts |-> prompts, files |-> PromptFiles(prompts),
         config |-> MostCommon(Observed(version, e.name))]

(* Manifests are kept by function: of two agents with one function name    *)
(* only the later is left.                                                 *)
Manifests(version) ==
    LET agents == structure["agent"]
        latest(f) == Max({i \in DOMAIN agents : agents[i].function = f})
    IN  [f \in {agents[i].function : i \in DOMAIN agents} |->
            Manifest(version, agents[latest(f)])]

(* Mutant of Differences: a body that one side has not counts as changed.  *)
DifferencesUnguarded(b, c) ==
    [name |-> b.name, file |-> c.file,
     promptChanged |-> b.prompts # c.prompts, files |-> b.files \cup c.files,
     codeChanged |-> b.code # c.code,
     modelChanged |-> b.config.model # c.config.model,
     toolsChanged |-> b.config.tools # c.config.tools]

Differences(b, c) ==
    [name |-> b.name, file |-> c.file,
     promptChanged |-> b.prompts # c.prompts, files |-> b.files \cup c.files,
     codeChanged |-> Nowhere \notin {b.code, c.code} /\ b.code # c.code,
     modelChanged |-> b.config.model # c.config.model,
     toolsChanged |-> b.config.tools # c.config.tools]

DeltaOf(function) ==
    Differences(manifests["baseline"][function], manifests["candidate"][function])
-----------------------------------------------------------------------------
(* The rules.  A weight is in hundredths; a hunk is that of the target.    *)
(* The causes found are a set: their order is that of weight and path.     *)

Blame(rule, target, weight) ==
    [rule |-> rule, target |-> target, hunk |-> target \in diff, weight |-> weight]
BlameAll(rule, targets, weight) == {Blame(rule, f, weight) : f \in targets}

DirectPromptChange(d) ==
    LET hits == d.files \cap diff
    IN  CASE ~d.promptChanged -> {}
          [] d.promptChanged /\ hits # {} -> BlameAll("direct_prompt_change", hits, 90)
          [] OTHER -> BlameAll("direct_prompt_change", {d.file} \cap diff, 75)

CodeChange(d) ==
    IF d.codeChanged THEN BlameAll("code_change", {d.file} \cap diff, 80) ELSE {}

ModelConfigChange(d) ==
    IF d.modelChanged THEN {Blame("model_config_change", d.file, 70)} ELSE {}

ToolFiles == {structure["tool"][i].file : i \in DOMAIN structure["tool"]}

ToolSchemaChange(d) ==
    LET hits == ToolFiles \cap diff
    IN  CASE ~d.toolsChanged -> {}
          [] d.toolsChanged /\ hits # {} -> BlameAll("tool_schema_change", hits, 60)
          [] OTHER -> {Blame("tool_schema_change", d.file, 50)}

DirectRules(d) ==
    DirectPromptChange(d) \cup CodeChange(d) \cup ModelConfigChange(d) \cup ToolSchemaChange(d)

(* Nothing direct: the agent's own file if it changed, or the first of the *)
(* changed files, those that the agent imports before the others.          *)
ReachableChange(d, reachable) ==
    LET among == IF reachable # {} THEN reachable ELSE diff
        target == IF d.file \in among THEN d.file ELSE Min(among)
    IN  IF diff = {} THEN {}
        ELSE {Blame("reachable_change", target, IF reachable # {} THEN 35 ELSE 20)}

ApplyRules(d, reachable) ==
    IF DirectRules(d) # {} THEN DirectRules(d) ELSE ReachableChange(d, reachable)

NoBlame == [rule |-> "none", target |-> Nowhere, hunk |-> FALSE, weight |-> 0]

(* Mutant of Primary: the weights of all causes are added up. *)
PrimarySummed(found) ==
    IF found = {} THEN NoBlame
    ELSE [(CHOOSE b \in found : TRUE) EXCEPT
            !.weight = MapThenSumSet(LAMBDA b : b.weight, found)]

(* The heaviest.  Equally heavy ones are of one rule, which found them in  *)
(* the order of their paths, and the sort keeps that order.                *)
Primary(found) ==
    LET heaviest == {b \in found : \A c \in found : c.weight <= b.weight}
    IN  IF found = {} THEN NoBlame
        ELSE CHOOSE b \in heaviest : \A c \in heaviest : b.target <= c.target

(* attribute_observed: what the captures show, without git. *)
ObservedBlame(d) ==
    [rule |-> "observed_change",
     target |-> IF d.promptChanged /\ d.files # {} THEN Min(d.files) ELSE Nowhere,
     hunk |-> FALSE, weight |-> 50]
-----------------------------------------------------------------------------
AttributionInit ==
    /\ world \in Worlds
    /\ stage = "rescan"
    /\ structure = world.existing
    /\ diff = {}
    /\ manifests = [v \in Versions |-> <<>>]
    /\ at = <<1, 0>>
    /\ visited = {}
    /\ frontier = <<>>
    /\ blamed = <<>>
    /\ causes = {}

Rescan ==
    /\ stage = "rescan"
    /\ structure' = Merge(world.existing, world.fresh)
    /\ stage' = IF world.mode = "git" THEN "diff" ELSE "manifests"
    /\ UNCHANGED <<world, diff, manifests, at, walk, blamed, causes>>

(* A git that cannot list the changes leaves an empty diff, and one that    *)
(* cannot show a file leaves that file out.                                *)
CollectGitDiff ==
    /\ stage = "diff"
    /\ diff' \in SUBSET world.changed
    /\ stage' = "manifests"
    /\ UNCHANGED <<world, structure, manifests, at, walk, blamed, causes>>

BuildManifests ==
    /\ stage = "manifests"
    /\ manifests' = [v \in Versions |-> Manifests(v)]
    /\ stage' = "next"
    /\ UNCHANGED <<world, structure, diff, at, walk, blamed, causes>>

(* The cases in order, and in each the agents in the structure's order.    *)
LastDelta == <<TestCases, Len(structure["agent"])>>
After(p) == IF p[2] < Len(structure["agent"]) THEN <<p[1], p[2] + 1>> ELSE <<p[1] + 1, 1>>
AgentAt == structure["agent"][at[2]]

NextDelta ==
    /\ stage = "next"
    /\ at # LastDelta /\ Len(structure["agent"]) > 0
    /\ at' = After(at)
    /\ LET agent == structure["agent"][After(at)[2]]
           file == DeltaOf(agent.function).file
           starts == world.mode = "git" /\ diff # {} /\ file \notin world.gone
       IN  CASE world.verdicts[After(at)[1]][agent.name] = "pass" ->
                    stage' = "next" /\ UNCHANGED walk
             [] OTHER ->
                    /\ stage' = IF starts THEN "walk" ELSE "rules"
                    /\ visited' = {}
                    /\ frontier' = IF starts THEN <<file>> ELSE <<>>
    /\ UNCHANGED <<world, structure, diff, manifests, blamed, causes>>

(* The files of a list that are not seen yet, in the list's order.         *)
Unseen(list, seen) ==
    LET upto[i \in 0 .. Len(list)] ==
            IF i = 0 THEN <<>>
            ELSE upto[i - 1] \o (IF list[i] \in seen THEN <<>> ELSE <<list[i]>>)
    IN  upto[Len(list)]

(* Mutant of Visit: what a file imports replaces the stack. *)
VisitOnly ==
    /\ stage = "walk"
    /\ frontier # <<>> /\ Cardinality(visited) < MaxFiles
    /\ LET f == Last(frontier)
       IN  /\ visited' = visited \cup {f}
           /\ frontier' = Unseen(world.imports[f], visited')
    /\ UNCHANGED <<world, stage, structure, diff, manifests, at, blamed, causes>>

(* reachable_files: one file of the stack; the files it imports are put on *)
(* the stack in the order of its text.                                     *)
Visit ==
    /\ stage = "walk"
    /\ frontier # <<>> /\ Cardinality(visited) < MaxFiles
    /\ LET f == Last(frontier)
           seen == visited \cup {f}
       IN  /\ visited' = seen
           /\ frontier' = Front(frontier)
                          \o (IF f \in visited THEN <<>> ELSE Unseen(world.imports[f], seen))
    /\ UNCHANGED <<world, stage, structure, diff, manifests, at, blamed, causes>>

WalkEnds ==
    /\ stage = "walk"
    /\ frontier = <<>> \/ Cardinality(visited) >= MaxFiles
    /\ stage' = "rules"
    /\ UNCHANGED <<world, structure, diff, manifests, at, walk, blamed, causes>>

(* Only a blame has an explanation, and none changes the blame: the LLM's  *)
(* sentences, or the rule's own when it is silent.                         *)
AttributeDelta ==
    /\ stage = "rules"
    /\ LET d == DeltaOf(AgentAt.function)
           primary == IF world.mode = "observed" THEN ObservedBlame(d)
                      ELSE Primary(ApplyRules(d, visited \cap diff))
       IN  \E text \in IF primary = NoBlame THEN {"none"} ELSE {"llm", "rule"} :
              blamed' = Append(blamed, [case |-> at[1], agent |-> AgentAt, primary |-> primary,
                                        explanation |-> text])
    /\ stage' = "next"
    /\ UNCHANGED <<world, structure, diff, manifests, at, walk, causes>>

(* The finding of a function has the first cause any of its cases has.     *)
Cause(function) ==
    LET hits == {i \in DOMAIN blamed :
                    blamed[i].agent.function = function /\ blamed[i].primary # NoBlame}
    IN  IF hits = {} THEN NoBlame
        ELSE blamed[Min(hits)].primary

Brief ==
    /\ stage = "next"
    /\ at = LastDelta \/ Len(structure["agent"]) = 0
    /\ causes' = {[function |-> f, cause |-> Cause(f)] :
                     f \in {blamed[i].agent.function : i \in DOMAIN blamed}}
    /\ stage' = "done"
    /\ UNCHANGED <<world, structure, diff, manifests, at, walk, blamed>>

AttributionNext ==
    \/ Rescan \/ CollectGitDiff \/ BuildManifests
    \/ NextDelta \/ Visit \/ WalkEnds \/ AttributeDelta
    \/ Brief

AttributionSpec == AttributionInit /\ [][AttributionNext]_attributionVars
-----------------------------------------------------------------------------
(* Properties. *)

Blames == [rule : {"none", "direct_prompt_change", "code_change", "model_config_change",
                   "tool_schema_change", "reachable_change", "observed_change"},
           target : FilePaths \cup {Nowhere}, hunk : BOOLEAN, weight : 0 .. 100]

AttributionTypeOK ==
    /\ stage \in {"rescan", "diff", "manifests", "next", "walk", "rules", "done"}
    /\ DOMAIN structure = Roles /\ \A r \in Roles : Range(structure[r]) \subseteq Entries
    /\ diff \subseteq FilePaths
    /\ DOMAIN manifests = Versions
    /\ at[1] \in 1 .. TestCases /\ at[2] \in 0 .. Len(structure["agent"])
    /\ visited \subseteq FilePaths /\ Range(frontier) \subseteq FilePaths
    /\ \A i \in DOMAIN blamed : blamed[i].primary \in Blames
    /\ \A c \in causes : c.function \in Defs /\ c.cause \in Blames

Alone(e) == \A i, j \in DOMAIN structure["agent"] :
    structure["agent"][i].function = e.function /\ structure["agent"][j].function = e.function => i = j

BodyChanged(e) ==
    LET b == world.body["baseline"][e.file][e.function]
        c == world.body["candidate"][e.file][e.function]
    IN  b # c /\ Nowhere \notin {b, c}

Count(version, e, c) == Cardinality(Seen(Observed(version, e.name), c))
Configs(version, e) == {Config(o) : o \in Range(Observed(version, e.name))}
Tied(version, e) ==
    \E c, d \in Configs(version, e) :
        /\ c # d /\ Count(version, e, c) = Count(version, e, d)
        /\ \A x \in Configs(version, e) : Count(version, e, x) <= Count(version, e, c)

Known(role, e) == KnownIn(world.existing, role, Key(e)) # {}

(* A cause matches what changed of the agent it is given for, as long as   *)
(* no two agents have one function name (manifest.py:195 keeps one of      *)
(* them) and no two configurations are equally common (manifest.py:105     *)
(* then takes the first seen): more than a guess needs a difference of the *)
(* agent's own body, prompts or requests; a changed body is never just     *)
(* guessed at and its hunk is shown; the finding has the cause of each of  *)
(* its cases; and the agent has the name the user gave it, unless the      *)
(* function is an entry point too (structure_yaml.py:90-91 lets the       *)
(* nameless entry win).                                                    *)
CauseMatchesChange ==
    \A i \in DOMAIN blamed :
        LET b == blamed[i].primary
            e == blamed[i].agent
        IN  /\ Alone(e) /\ world.mode = "git" =>
                  /\ b.weight >= 50 =>
                        \/ BodyChanged(e)
                        \/ ObservedPrompts("baseline", e.name) # ObservedPrompts("candidate", e.name)
                        \/ Tied("baseline", e) \/ Tied("candidate", e)
                        \/ \E c \in Configs("baseline", e) \cup Configs("candidate", e) :
                              Count("baseline", e, c) # Count("candidate", e, c)
                  /\ BodyChanged(e) /\ e.file \in diff => b.weight >= 80 /\ b.hunk
                  /\ b.rule = "code_change" => b.target = e.file
                  /\ \A c \in causes : c.function = e.function => c.cause = b
            /\ ~Known("entry_point", e) /\ (Known("agent", e) \/ Known("tool", e)) =>
                  \E r \in {"agent", "tool"} : \E k \in KnownIn(world.existing, r, Key(e)) :
                      e.name = world.existing[r][k].name

(* A walk that was not cut off has visited exactly the files reachable by  *)
(* imports, the smallest set that holds the agent's file and what each of  *)
(* its members imports; one that was cut off visited some of them.         *)
WalkIsReachability ==
    LET closed == {S \in SUBSET FilePaths :
                     /\ DeltaOf(AgentAt.function).file \in S
                     /\ \A f \in S : Range(world.imports[f]) \subseteq S}
    IN  stage = "rules" /\ visited # {} =>
            /\ \A S \in closed : visited \subseteq S
            /\ Cardinality(visited) <= MaxFiles
            /\ Cardinality(visited) < MaxFiles => visited \in closed
=============================================================================
