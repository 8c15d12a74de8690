------------------------------ MODULE Comparison ------------------------------
(***************************************************************************)
(* The comparison of two sets of trajectories, from the samples of every   *)
(* test case to a verdict: compare.py over stats.py, then, in `agentdiff   *)
(* compare`, the evaluation of the outputs (output_eval.py), in `agentdiff *)
(* ci run` the summary of the incident (findings.py), and on the server,   *)
(* which has no judge, both (server/engine_runner.py).                     *)
(*                                                                         *)
(* A trajectory is reduced to what the comparison reads of it.  A test     *)
(* case is its place in the sorted list of identifiers; agents have the    *)
(* order of the structure, tools that of their names.                      *)
(***************************************************************************)
EXTENDS Statistics

CONSTANTS
    Agents,      \* sequence of the structure's agents
    FunctionOf,  \* the function of an agent, which agents may share
    Tools,       \* sequence of tool names
    Runs,        \* what a trajectory may show
    Cases,       \* number of test cases
    MaxRuns,     \* bound on the trajectories of a side
    Warn, Fail,  \* thresholds of an effect by kind, in hundredths of its unit
    Alpha,       \* significance level, in thousandths
    MinSamples,  \* samples below which a side has low power
    Outputs,     \* final outputs
    Marks,       \* scores of a comparison of outputs, in hundredths
    Settings     \* commands, with the samples and outputs they may meet

Metrics == <<"latency_ms", "total_tokens", "error_rate">>
Kinds == {"agent", "tool"} \cup Range(Metrics)
Verdicts == {"pass", "warn", "fail"}
None == "none"
NoScore == -1      \* not rated
Garbled == -2      \* a reply without a score
NoSummary == [findings |-> {}, verdict |-> None]

(* What a case is compared in, in the order of its deltas.                 *)
Signals ==
    [i \in DOMAIN Agents |-> <<"agent", Agents[i]>>]
    \o [i \in DOMAIN Tools |-> <<"tool", Tools[i]>>]
    \o [i \in DOMAIN Metrics |-> <<Metrics[i], Metrics[i]>>]
Rates == {"agent", "error_rate"}

Trajectories == [fires : SUBSET Range(Agents), calls : [Range(Tools) -> Nat],
                 latency : Nat, tokens : Nat, ok : BOOLEAN]
Sides == UNION {[1 .. n -> Runs] : n \in 0 .. MaxRuns}

ASSUME ListAssumption == Agents \in Seq(Range(Agents)) /\ Tools \in Seq(Range(Tools))
ASSUME FunctionAssumption == DOMAIN FunctionOf = Range(Agents)
ASSUME RunsAssumption == Runs \subseteq Trajectories
ASSUME BoundsAssumption == Cases \in Nat \ {0} /\ MaxRuns \in Nat /\ MinSamples \in Nat
ASSUME ThresholdAssumption ==
    /\ Warn \in [Kinds -> Nat] /\ Fail \in [Kinds -> Nat]
    /\ \A k \in Kinds : Warn[k] <= Fail[k]
    /\ Alpha \in 1 .. One
(* Every size of a family divides Scale.                                   *)
ASSUME FamilyAssumption == \A n \in 1 .. Cases * Len(Signals) : Scale % n = 0

(* An output is blank (of length 0), a text, or a JSON document with its   *)
(* leaves by path.                                                         *)
ASSUME OutputsAssumption ==
    /\ \A o \in Outputs : /\ o.kind \in {"text", "structured"} /\ o.length \in Nat
                         /\ IsFiniteSet(DOMAIN o.leaves)
    /\ Marks \subseteq Int \ {NoScore, Garbled}

(* What evaluating one case meets: the outputs of both sides, the score of *)
(* the embedding, or none when it raises, and what the judge answers.       *)
Meetings ==
    [baseline : UNION {[1 .. n -> Outputs] : n \in 0 .. MaxRuns},
     candidate : UNION {[1 .. n -> Outputs] : n \in 0 .. MaxRuns},
     semantic : Marks \cup {NoScore},
     replies : {<<>>} \cup [1 .. 2 -> Marks \cup {Garbled}]]

ASSUME SettingsAssumption ==
    \A s \in Settings :
        /\ s.command \in {"compare", "ci", "server"}
        /\ s.correction \in {"benjamini_hochberg", "none"}
        /\ s.inputs \in {"none", "few", "enough"}
        /\ s.samples \subseteq Sides \X Sides
        /\ s.outputs \subseteq Meetings
        /\ s.command = "server" =>
              s.correction = "none" /\ \A m \in s.outputs : m.replies = <<>>

VARIABLES
    setting,   \* the command and its configuration; fixed
    pc,        \* "compare", "correct", "evaluate", "summarise" or "done"
    samples,   \* the sides of the cases compared so far
    deltas,    \* their deltas, case by case
    overall,   \* their verdicts
    verdict,   \* of the whole comparison, or None
    weak,      \* the cases a low-power warning names
    evals,     \* evaluations of the cases' outputs
    summary    \* of the incident, or NoSummary

vars == <<setting, pc, samples, deltas, overall, verdict, weak, evals, summary>>
-----------------------------------------------------------------------------
(* Verdicts. *)

Severity(v) == CASE v = "pass" -> 0 [] v = "warn" -> 1 [] v = "fail" -> 2

Worst(vs) ==
    IF vs = {} THEN "pass"
    ELSE CHOOSE v \in vs : \A w \in vs : Severity(w) <= Severity(v)

Abs(n) == IF n < 0 THEN -n ELSE n

(* The verdict of an effect of gap / unit by its size alone.               *)
EffectVerdict(kind, gap, unit) ==
    IF 100 * Abs(gap) >= Fail[kind] * unit THEN "fail"
    ELSE IF 100 * Abs(gap) >= Warn[kind] * unit THEN "warn"
    ELSE "pass"

(* An effect that is not significant is one degree softer.                 *)
ApplySignificance(effect, significant) ==
    CASE significant -> effect
      [] ~significant /\ effect = "fail" -> "warn"
      [] OTHER -> "pass"
-----------------------------------------------------------------------------
(* The deltas of one test case. *)

AtLeastOne(n) == IF n = 0 THEN 1 ELSE n

Value(signal, run) ==
    CASE signal[1] = "agent" -> IF signal[2] \in run.fires THEN 1 ELSE 0
      [] signal[1] = "tool" -> run.calls[signal[2]]
      [] signal[1] = "latency_ms" -> run.latency
      [] signal[1] = "total_tokens" -> run.tokens
      [] signal[1] = "error_rate" -> IF run.ok THEN 0 ELSE 1
Values(signal, side) == [i \in DOMAIN side |-> Value(signal, side[i])]

PValue(signal, b, c) ==
    LET bs == Values(signal, b)
        cs == Values(signal, c)
    IN  IF signal[1] \in Rates
        THEN TwoProportion(Total(bs), Len(bs), Total(cs), Len(cs))
        ELSE MannWhitney(bs, cs)

(* The mean over the candidate less that over the baseline is gap / unit;  *)
(* a side without samples has the mean 0.                                  *)
Delta(signal, b, c) ==
    LET gap == Total(Values(signal, c)) * AtLeastOne(Len(b))
               - Total(Values(signal, b)) * AtLeastOne(Len(c))
        unit == AtLeastOne(Len(b)) * AtLeastOne(Len(c))
        p == PValue(signal, b, c)
        significant == Significant(p * Scale, Alpha)
    IN  [kind |-> signal[1], of |-> signal[2], gap |-> gap, unit |-> unit,
         p |-> p, adjusted |-> p * Scale, significant |-> significant,
         weak |-> Len(b) < MinSamples \/ Len(c) < MinSamples,
         verdict |-> ApplySignificance(EffectVerdict(signal[1], gap, unit), significant)]

(* Only the tools that some trajectory of the case calls. *)
Exercised(side) == {t \in Range(Tools) : \E i \in DOMAIN side : side[i].calls[t] > 0}
Compared(b, c) ==
    {k \in DOMAIN Signals :
        Signals[k][1] = "tool" => Signals[k][2] \in Exercised(b) \cup Exercised(c)}
DeltasOf(b, c) == [k \in Compared(b, c) |-> Delta(Signals[k], b, c)]

VerdictsOf(ds) == {ds[k].verdict : k \in DOMAIN ds}

(* Every delta of every case, by case and place. *)
Places(ds) == UNION {{i} \X (DOMAIN ds[i]) : i \in DOMAIN ds}
-----------------------------------------------------------------------------
(* compare_all: case by case, then the correction of the whole family.     *)

Init ==
    /\ setting \in Settings
    /\ pc = "compare"
    /\ samples = <<>>
    /\ deltas = <<>>
    /\ overall = <<>>
    /\ verdict = None
    /\ weak = {}
    /\ evals = <<>>
    /\ summary = NoSummary

CompareTestCase(b, c) ==
    /\ pc = "compare"
    /\ samples' = Append(samples, <<b, c>>)
    /\ deltas' = Append(deltas, DeltasOf(b, c))
    /\ overall' = Append(overall, Worst(VerdictsOf(DeltasOf(b, c))))
    /\ pc' = IF Len(deltas) + 1 = Cases THEN "correct" ELSE pc
    /\ UNCHANGED <<setting, verdict, weak, evals, summary>>

Family(ds) == [at \in Places(ds) |-> ds[at[1]][at[2]].p]

Reconsider(d, adjusted) ==
    LET significant == Significant(adjusted, Alpha)
    IN  [d EXCEPT !.adjusted = adjusted, !.significant = significant,
                  !.verdict = ApplySignificance(EffectVerdict(d.kind, d.gap, d.unit), significant)]

(* The deltas after the Benjamini-Hochberg correction, if it is configured. *)
Corrected(ds) ==
    LET adjusted == BenjaminiHochberg(Family(ds))
    IN  IF setting.correction = "none" THEN ds
        ELSE [i \in DOMAIN ds |->
                [k \in DOMAIN ds[i] |-> Reconsider(ds[i][k], adjusted[<<i, k>>])]]

(* Mutant of Recomputed: the provisional verdicts of the cases are kept. *)
NotRecomputed(ds) == overall

Recomputed(ds) == [i \in DOMAIN ds |-> Worst(VerdictsOf(ds[i]))]

Correct ==
    /\ pc = "correct"
    /\ deltas' = Corrected(deltas)
    /\ overall' = Recomputed(deltas')
    /\ verdict' = Worst(Range(overall'))
    /\ weak' = {i \in DOMAIN deltas : \E k \in DOMAIN deltas[i] : deltas[i][k].weak}
    /\ pc' = IF setting.command = "compare" THEN "evaluate" ELSE "summarise"
    /\ UNCHANGED <<setting, samples, evals, summary>>
-----------------------------------------------------------------------------
(* evaluate_output: the traditional evaluation of one case's outputs.      *)

IsBlank(o) == o.kind = "text" /\ o.length = 0

Representative(outputs) ==
    LET said == {i \in DOMAIN outputs : ~IsBlank(outputs[i])}
    IN  IF said = {} THEN [kind |-> "text", length |-> 0, leaves |-> <<>>]
        ELSE outputs[Min(said)]

(* The share of the leaves that both documents have with one value.        *)
Matching(x, y) == {p \in DOMAIN x.leaves \cap DOMAIN y.leaves : x.leaves[p] = y.leaves[p]}
Paths(x, y) == DOMAIN x.leaves \cup DOMAIN y.leaves
Similarity(x, y) ==
    IF Paths(x, y) = {} THEN 100
    ELSE (100 * Cardinality(Matching(x, y))) \div Cardinality(Paths(x, y))

LengthRatio(x, y) ==
    (100 * Min({x.length, y.length})) \div AtLeastOne(Max({x.length, y.length}))

(* The judge is asked again, once, when its reply has no score.            *)
Judged(replies) ==
    IF replies = <<>> THEN NoScore
    ELSE IF replies[1] # Garbled THEN replies[1]
    ELSE IF replies[2] # Garbled THEN replies[2] ELSE NoScore

Cutoffs == [semantic |-> [fail |-> 70, warn |-> 85], length |-> [fail |-> 50, warn |-> 80],
            structural |-> [fail |-> 70, warn |-> 90], judge |-> [fail |-> 40, warn |-> 70]]

(* A judge's score, of 5, is in hundredths too, and already fails or warns *)
(* at its cutoff; the other scores must be below theirs.                   *)
Rated(check, score) ==
    LET cut == Cutoffs[check]
        Under(limit) == score < limit \/ (check = "judge" /\ score = limit)
    IN  CASE Under(cut.fail) -> "fail"
          [] ~Under(cut.fail) /\ Under(cut.warn) -> "warn"
          [] OTHER -> "pass"

Scored(scores) == {check \in DOMAIN scores : scores[check] # NoScore}

(* Mutant of Skipped: a judge that gave no score is not recorded. *)
SkippedUnlessJudge(scores) == DOMAIN scores \ (Scored(scores) \cup {"judge"})

(* Checks that were wanted and have no score. *)
Skipped(scores) == DOMAIN scores \ Scored(scores)

Evaluation(m) ==
    LET x == Representative(m.baseline)
        y == Representative(m.candidate)
        scores == CASE IsBlank(x) /\ IsBlank(y) -> <<>>
                    [] x.kind = "structured" /\ y.kind = "structured" ->
                        [structural |-> Similarity(x, y), judge |-> Judged(m.replies)]
                    [] OTHER ->
                        [semantic |-> m.semantic, judge |-> Judged(m.replies),
                         length |-> LengthRatio(x, y)]
    IN  [scores |-> scores, skipped |-> Skipped(scores),
         verdict |-> Worst({Rated(check, scores[check]) : check \in Scored(scores)})]

EvaluateOutput(m) ==
    /\ pc = "evaluate"
    /\ evals' = Append(evals, Evaluation(m))
    /\ pc' = IF Len(evals) + 1 = Cases THEN "done" ELSE pc
    /\ UNCHANGED <<setting, samples, deltas, overall, verdict, weak, summary>>
-----------------------------------------------------------------------------
(* build_incident_summary: one finding for a function or a metric, however *)
(* many cases changed, and however many agents have the function.          *)

Subject(d) == IF d.kind = "agent" THEN FunctionOf[d.of] ELSE d.of

Changed(kind, subject) ==
    {at \in Places(deltas) :
        LET d == deltas[at[1]][at[2]]
        IN  d.kind = kind /\ Subject(d) = subject /\ d.verdict # "pass"}

Finding(kind, subject) ==
    LET hit == {deltas[at[1]][at[2]] : at \in Changed(kind, subject)}
    IN  [kind |-> kind, of |-> subject, verdict |-> Worst({d.verdict : d \in hit}),
         p |-> Min({d.p : d \in hit}), affected |-> Cardinality(Changed(kind, subject))]

Findings ==
    {Finding(f[1], f[2]) : f \in
        {g \in ({"agent"} \X Range(FunctionOf)) \cup {<<m, m>> : m \in Range(Metrics)} :
            Changed(g[1], g[2]) # {}}}

Summarise ==
    /\ pc = "summarise"
    /\ LET warned == IF setting.inputs = "enough" THEN "pass" ELSE "warn"
       IN  summary' = [findings |-> Findings,
                       verdict |-> Worst({verdict, warned} \cup {f.verdict : f \in Findings})]
    /\ pc' = IF setting.command = "server" THEN "evaluate" ELSE "done"
    /\ UNCHANGED <<setting, samples, deltas, overall, verdict, weak, evals>>

Next ==
    \/ \E s \in setting.samples : CompareTestCase(s[1], s[2])
    \/ Correct
    \/ \E m \in setting.outputs : EvaluateOutput(m)
    \/ Summarise

Spec == Init /\ [][Next]_vars
-----------------------------------------------------------------------------
(* Properties. *)

TypeOK ==
    /\ setting \in Settings
    /\ pc \in {"compare", "correct", "evaluate", "summarise", "done"}
    /\ samples \in Seq(Sides \X Sides) /\ Len(samples) <= Cases
    /\ DOMAIN deltas = DOMAIN samples /\ DOMAIN overall = DOMAIN samples
    /\ \A at \in Places(deltas) :
          LET d == deltas[at[1]][at[2]]
          IN  /\ d.kind \in Kinds /\ d.gap \in Int /\ d.unit \in Nat \ {0}
              /\ d.p \in 0 .. One /\ d.adjusted \in 0 .. One * Scale
              /\ d.significant \in BOOLEAN /\ d.verdict \in Verdicts
    /\ Range(overall) \subseteq Verdicts
    /\ verdict \in Verdicts \cup {None}
    /\ weak \subseteq 1 .. Cases
    /\ Len(evals) <= Cases
    /\ summary # NoSummary => /\ pc \in {"evaluate", "done"} /\ setting.command # "compare"
                         /\ summary.verdict \in Verdicts
                         /\ \A f \in summary.findings : f.verdict \in {"warn", "fail"}

(* After the correction a delta is significant exactly when the step-up    *)
(* procedure of Benjamini and Hochberg rejects its hypothesis: when some   *)
(* test of the family, not more probable than allowed for the number of    *)
(* tests up to it, is at least as improbable (stats.py's running minimum,  *)
(* ranks and ties; the family is every delta of every case).               *)
CorrectionIsStepUp ==
    verdict # None /\ setting.correction = "benjamini_hochberg" =>
        LET family == Family(deltas)
            Within(p) == Cardinality({at \in DOMAIN family : family[at] <= p})
        IN  \A at \in Places(deltas) :
                deltas[at[1]][at[2]].significant <=>
                    \E by \in Places(deltas) :
                        /\ family[at] <= family[by]
                        /\ family[by] * Cardinality(Places(deltas)) < Alpha * Within(family[by])

(* What is reported is the corrected verdict, nowhere a provisional one:   *)
(* a case's verdict, the comparison's and the incident's are the worst of  *)
(* the deltas they stand for, a fail has a significant delta of failing    *)
(* size with samples on both sides, and every agent or metric that changed *)
(* is in exactly one finding, as bad as its worst case: that of its        *)
(* function, which tells of all the agents that share it (findings.py:122). *)
VerdictSettled ==
    verdict # None =>
        /\ \A i \in DOMAIN deltas : overall[i] = Worst(VerdictsOf(deltas[i]))
        /\ verdict = Worst(Range(overall))
        /\ verdict = "fail" <=>
              \E at \in Places(deltas) :
                  LET d == deltas[at[1]][at[2]]
                  IN  /\ d.significant /\ 100 * Abs(d.gap) >= Fail[d.kind] * d.unit
                      /\ \A side \in {1, 2} : samples[at[1]][side] # <<>>
        /\ summary # NoSummary =>
              /\ summary.verdict = Worst({verdict} \cup {v \in {"warn"} : setting.inputs # "enough"})
              /\ \A at \in Places(deltas) :
                    LET d == deltas[at[1]][at[2]]
                    IN  d.kind # "tool" /\ d.verdict # "pass" =>
                            \E f \in summary.findings :
                                /\ f.kind = d.kind /\ f.of = Subject(d)
                                /\ Severity(f.verdict) >= Severity(d.verdict)
                                /\ \A g \in summary.findings :
                                      g.kind = d.kind /\ g.of = Subject(d) => g = f
              /\ \A f \in summary.findings :
                    \E at \in Places(deltas) :
                        LET d == deltas[at[1]][at[2]]
                        IN  d.kind = f.kind /\ Subject(d) = f.of /\ d.verdict = f.verdict

(* "A PASS is never mistaken for a full pass across every signal"          *)
(* (output_eval.py:225-227): outputs that pass without a skipped check     *)
(* were judged, and by meaning or leaf by leaf, and no signal was low.     *)
FullPassIsFull ==
    \A i \in DOMAIN evals :
        LET e == evals[i]
        IN  e.verdict = "pass" /\ e.skipped = {} /\ e.scores # <<>> =>
                /\ "judge" \in DOMAIN e.scores
                /\ DOMAIN e.scores \cap {"semantic", "structural"} # {}
                /\ \A check \in DOMAIN e.scores :
                      e.scores[check] # NoScore /\ e.scores[check] >= Cutoffs[check].warn
=============================================================================
