-------------------------------- MODULE Gate --------------------------------
(***************************************************************************)
(* The CI gate, `agentdiff ci run`: it samples the baseline and then the   *)
(* candidate, checks what was sampled, compares, delivers the verdict to   *)
(* Slack and to the pull request, and ends with an exit code.  Several     *)
(* jobs, one after the other or at the same time, share the HTTP cassette, *)
(* the output directories and the comments of one pull request.            *)
(*                                                                         *)
(* A version of the program (a code) makes the calls Calls[code] in every  *)
(* sample.  The threads of a side, its attempts and their timeouts are the *)
(* subject of Sampling; here the samples of a side are taken one by one.   *)
(***************************************************************************)
EXTENDS Naturals, Sequences, FiniteSets

CONSTANTS
    Jobs,         \* commands that may be run
    Settings,     \* which of them are run, and how they are called
    Dirs,         \* output directories
    Codes,        \* versions of the program that is sampled
    Requests,     \* fingerprints of HTTP requests
    Calls,        \* the requests of a version's sample
    Answers,      \* what the provider may answer
    Samples,      \* bound on the samples of a side
    MaxAttempts,  \* attempts of a sample
    MaxPosts,     \* attempts of a Slack post
    MaxRate,      \* failed samples a side may have, in percent
    PageSize,     \* comments in one page of GitHub's listing
    MaxOthers,    \* bound on the comments of other people
    Faults        \* what may go wrong, a subset of FaultKinds

Sides == {"baseline", "candidate"}
Verdicts == {"pass", "warn", "fail"}
FaultKinds == {"kill", "runner", "timeout", "handled", "checkout", "flush", "slack", "github"}

ASSUME CodeAssumption == Calls \in [Codes -> SUBSET Requests]
ASSUME SettingAssumption ==
    \A s \in Settings :
        s \in [DOMAIN s \cap Jobs ->
                  [mode : {"record", "replay", "live"}, baseline : Codes, candidate : Codes,
                   dir : Dirs, samples : 1 .. Samples, inputs : {"none", "few", "enough"},
                   failOn : {"fail", "warn", "never"}, delivers : BOOLEAN]]
ASSUME BoundAssumption ==
    /\ {Samples, MaxAttempts, MaxPosts, PageSize} \subseteq Nat \ {0}
    /\ MaxRate \in 0 .. 100
    /\ MaxOthers \in Nat
ASSUME FaultAssumption == Faults \subseteq FaultKinds

VARIABLES
    setting,   \* how a job was called; fixed
    pc,        \* where a job stands
    side,      \* the side it samples
    left,      \* samples of that side still to take
    tries,     \* attempts of the current sample or post
    heard,     \* what the current attempt heard for each request
    loaded,    \* the recordings a replaying job has read
    late,      \* sides with an abandoned attempt that still records
    verdict,   \* of the summary, or "none"
    listed,    \* number of comments when a running job listed them
    exit,      \* exit code of a job that has ended
    why,       \* what ended it
    cassette,  \* the cassette file
    lines,     \* trajectories in the files of an output directory
    comments,  \* of the pull request, oldest first
    posts,     \* messages of a running job that Slack accepted
    take,      \* the last recording of the cassette, for the properties only
    source,    \* the take a job's recordings are from, likewise
    unknown    \* those of them that Slack did not confirm, likewise

sampled == <<side, left, tries, heard, loaded, late, source>>
recorded == <<cassette, take, lines>>
delivered == <<listed, comments, posts, unknown>>
vars == <<setting, pc, verdict, exit, why, sampled, recorded, delivered>>

None == "none"         \* no recording, no verdict
Raised == "raised"     \* a call that raised, which the runner handled
Other == "other"       \* somebody else, on the pull request
Nothing == [r \in Requests |-> None]

ASSUME JobAssumption == IsFiniteSet(Jobs) /\ Other \notin Jobs
ASSUME AnswerAssumption == {None, Raised} \cap Answers = {}

(* A failed sample has a line too; a miss is one that says so. *)
Lines == [job : Jobs, n : 1 .. Samples, kind : {"ok", "failed", "miss"}]

(* A take is pure while nobody else records, and done when its last sample *)
(* succeeded; heard is then what that sample heard.                        *)
Takes == [job : Jobs \cup {None}, side : Sides, pure : BOOLEAN, done : BOOLEAN,
          heard : [Requests -> Answers \cup {None, Raised}]]

TypeOK ==
    /\ setting \in Settings
    /\ pc \in [Jobs -> {"idle", "begin", "sampling", "check", "validate", "slack",
                        "list", "comment", "finish", "ended", "killed"}]
    /\ side \in [Jobs -> Sides]
    /\ left \in [Jobs -> 0 .. Samples]
    /\ tries \in [Jobs -> Nat]
    /\ \A j \in Jobs : tries[j] <= MaxAttempts \/ tries[j] <= MaxPosts
    /\ heard \in [Jobs -> [Requests -> Answers \cup {None, Raised}]]
    /\ loaded \in [Jobs -> [Requests -> Answers \cup {None}]]
    /\ late \in [Jobs -> SUBSET Sides]
    /\ verdict \in [Jobs -> Verdicts \cup {None}]
    /\ listed \in [Jobs -> 0 .. Len(comments)]
    /\ exit \in [Jobs -> {0, 1}]
    /\ why \in [Jobs -> {None, "sampling", "miss", "quality", "slack", "verdict"}]
    /\ cassette \in [file : {"missing", "torn", "whole"},
                     answer : [Requests -> Answers \cup {None}]]
    /\ lines \in [Dirs -> [Sides -> SUBSET Lines]]
    /\ comments \in Seq([by : Jobs \cup {Other}, marked : BOOLEAN])
    /\ posts \in [Jobs -> 0 .. MaxPosts]
    /\ take \in Takes
    /\ source \in [Jobs -> Takes]
    /\ unknown \in [Jobs -> 0 .. MaxPosts]

NoTake == [job |-> None, side |-> "baseline", pure |-> FALSE, done |-> FALSE,
           heard |-> Nothing]

Init ==
    /\ setting \in Settings
    /\ pc = [j \in Jobs |-> "idle"]
    /\ side = [j \in Jobs |-> "baseline"]
    /\ left = [j \in Jobs |-> 0]
    /\ tries = [j \in Jobs |-> 0]
    /\ heard = [j \in Jobs |-> Nothing]
    /\ loaded = [j \in Jobs |-> Nothing]
    /\ late = [j \in Jobs |-> {}]
    /\ verdict = [j \in Jobs |-> None]
    /\ listed = [j \in Jobs |-> 0]
    /\ exit = [j \in Jobs |-> 0]
    /\ why = [j \in Jobs |-> None]
    /\ cassette = [file |-> "missing", answer |-> Nothing]
    /\ lines = [d \in Dirs |-> [s \in Sides |-> {}]]
    /\ comments = <<>>
    /\ posts = [j \in Jobs |-> 0]
    /\ take = NoTake
    /\ source = [j \in Jobs |-> NoTake]
    /\ unknown = [j \in Jobs |-> 0]

Code(j) == setting[j][side[j]]
Mode(j) == setting[j].mode
Written(j, s) == lines[setting[j].dir][s]
Goes(j, to) == pc' = [pc EXCEPT ![j] = to]

(* The process is gone, and its variables with it. *)
Forget(j) ==
    /\ left' = [left EXCEPT ![j] = 0]
    /\ tries' = [tries EXCEPT ![j] = 0]
    /\ heard' = [heard EXCEPT ![j] = Nothing]
    /\ loaded' = [loaded EXCEPT ![j] = Nothing]
    /\ late' = [late EXCEPT ![j] = {}]
    /\ source' = [source EXCEPT ![j] = NoTake]
    /\ listed' = [listed EXCEPT ![j] = 0]
    /\ posts' = [posts EXCEPT ![j] = 0]
    /\ unknown' = [unknown EXCEPT ![j] = 0]
    /\ UNCHANGED side

(* The command ends with an exit code. *)
End(j, cause, code) ==
    /\ Goes(j, "ended")
    /\ exit' = [exit EXCEPT ![j] = code]
    /\ why' = [why EXCEPT ![j] = cause]
    /\ Forget(j)

Running(j) == pc[j] \notin {"idle", "ended", "killed"}

(***************************************************************************)
(* Sampling a side                                                         *)
(***************************************************************************)
(* Without test cases the gate warns, delivers nothing and ends. *)
Start(j) ==
    /\ pc[j] = "idle"
    /\ IF setting[j].inputs = "none"
       THEN Goes(j, "finish") /\ verdict' = [verdict EXCEPT ![j] = "warn"]
       ELSE Goes(j, "begin") /\ UNCHANGED verdict
    /\ UNCHANGED <<setting, exit, why, sampled, recorded, delivered>>

(* Recording empties the cassette, for each side again; replaying reads it. *)
OpenCassette(j) ==
    CASE Mode(j) = "record" ->
            /\ cassette' = [file |-> "whole", answer |-> Nothing]
            /\ take' = [NoTake EXCEPT !.job = j, !.side = side[j], !.pure = TRUE]
            /\ UNCHANGED <<loaded, source>>
      [] Mode(j) = "replay" ->
            /\ cassette.file = "whole"
            /\ loaded' = [loaded EXCEPT ![j] = cassette.answer]
            /\ source' = [source EXCEPT ![j] = take]
            /\ UNCHANGED <<cassette, take>>
      [] Mode(j) = "live" -> UNCHANGED <<cassette, take, loaded, source>>

BeginSide(j) ==
    /\ pc[j] = "begin"
    /\ Goes(j, "sampling")
    /\ left' = [left EXCEPT ![j] = setting[j].samples]
    /\ tries' = [tries EXCEPT ![j] = 1]
    /\ heard' = [heard EXCEPT ![j] = Nothing]
    /\ OpenCassette(j)
    /\ UNCHANGED <<setting, side, late, verdict, exit, why, lines, delivered>>

(* The checkout fails, or the cassette to replay is missing or unreadable. *)
CannotBegin(j) ==
    /\ pc[j] = "begin"
    /\ \/ "checkout" \in Faults
       \/ Mode(j) = "replay" /\ cassette.file # "whole"
    /\ End(j, "sampling", 1)
    /\ UNCHANGED <<setting, verdict, recorded, comments>>

(* Variant: the first recording of a request is kept. *)
KeepFirst(r, a) == cassette' = [cassette EXCEPT !.answer[r] = IF @ = None THEN a ELSE @]

(* A recording is appended; the last one of a request wins. *)
Keep(r, a) == cassette' = [cassette EXCEPT !.answer[r] = a]

Recording(j) == <<take.job, take.side>> = <<j, side[j]>>
Spoil == take' = [take EXCEPT !.pure = FALSE]

Calling(j, r) ==
    /\ pc[j] = "sampling"
    /\ r \in Calls[Code(j)]
    /\ heard[j][r] = None

Hears(j, r, a) == heard' = [heard EXCEPT ![j][r] = a]

(* The file cannot be written: the error is swallowed, and what was written *)
(* of the recording makes the cassette unreadable.                          *)
RecordFails ==
    /\ "flush" \in Faults
    /\ cassette' = cassette \/ cassette' = [cassette EXCEPT !.file = "torn"]
    /\ Spoil

(* An answer is recorded before the runner has it.  A call that raises is  *)
(* not recorded: the runner handles it and goes on, unless it is an        *)
(* AttemptFails; one that is made again until it is answered is one call.  *)
CallProvider(j, r) ==
    /\ Calling(j, r)
    /\ Mode(j) # "replay"
    /\ \/ /\ "handled" \in Faults
          /\ Hears(j, r, Raised)
          /\ UNCHANGED <<cassette, take>>
       \/ \E a \in Answers :
            /\ Hears(j, r, a)
            /\ IF Mode(j) = "record"
               THEN \/ Keep(r, a) /\ IF Recording(j) THEN UNCHANGED take ELSE Spoil
                    \/ RecordFails
               ELSE UNCHANGED <<cassette, take>>
    /\ UNCHANGED <<setting, pc, side, left, tries, loaded, late, source, verdict, exit,
                   why, lines, delivered>>

(* An abandoned attempt records what it still hears.  Those of a checkout  *)
(* end with the process that samples it.                                   *)
LateCall(j, s, r) ==
    /\ Running(j)
    /\ s \in late[j]
    /\ r \in Calls[setting[j][s]]
    /\ \E a \in Answers : Keep(r, a)
    /\ Spoil
    /\ UNCHANGED <<setting, pc, verdict, exit, why, sampled, lines, delivered>>

(* A miss is an exception, which the runner may handle and go on. *)
LookUp(j, r) ==
    /\ Calling(j, r)
    /\ Mode(j) = "replay"
    /\ \/ loaded[j][r] # None /\ Hears(j, r, loaded[j][r])
       \/ loaded[j][r] = None /\ "handled" \in Faults /\ Hears(j, r, Raised)
    /\ UNCHANGED <<setting, pc, side, left, tries, loaded, late, source, verdict, exit,
                   why, recorded, delivered>>

(* The line of a sample is written, or the flush fails and is swallowed. *)
WriteLine(j, kind) ==
    \/ lines' = [lines EXCEPT ![setting[j].dir][side[j]] =
                   @ \cup {[job |-> j, n |-> left[j], kind |-> kind]}]
    \/ "flush" \in Faults /\ UNCHANGED lines

(* The recordings that count are those of the last sample. *)
CloseTake(j, kind) ==
    IF Mode(j) = "record" /\ Recording(j)
    THEN take' = [take EXCEPT !.done = kind = "ok", !.heard = heard[j]]
    ELSE UNCHANGED take

EndSample(j, kind, running) ==
    /\ WriteLine(j, kind)
    /\ left' = [left EXCEPT ![j] = @ - 1]
    /\ tries' = [tries EXCEPT ![j] = 1]
    /\ heard' = [heard EXCEPT ![j] = Nothing]
    /\ IF left[j] = 1
       THEN /\ Goes(j, "check")
            /\ CloseTake(j, kind)
            /\ late' = [late EXCEPT ![j] = running \ {"baseline"}]
            /\ loaded' = [loaded EXCEPT ![j] = Nothing]
            /\ source' = [source EXCEPT ![j] = NoTake]
       ELSE /\ late' = [late EXCEPT ![j] = running]
            /\ UNCHANGED <<pc, take, loaded, source>>
    /\ UNCHANGED <<setting, side, verdict, exit, why, cassette, delivered>>

SampleEnds(j) ==
    /\ pc[j] = "sampling"
    /\ \A r \in Calls[Code(j)] : heard[j][r] # None
    /\ EndSample(j, "ok", late[j])

(* Variant: one attempt too many. *)
TriesLeftOneMore(j) == tries[j] <= MaxAttempts

TriesLeft(j) == tries[j] < MaxAttempts

(* An attempt failed; running are the sides with an abandoned one. *)
FallBack(j, kind, running) ==
    /\ pc[j] = "sampling"
    /\ IF TriesLeft(j)
       THEN /\ tries' = [tries EXCEPT ![j] = @ + 1]
            /\ heard' = [heard EXCEPT ![j] = Nothing]
            /\ late' = [late EXCEPT ![j] = running]
            /\ UNCHANGED <<setting, pc, side, left, loaded, source, verdict, exit, why,
                           recorded, delivered>>
       ELSE EndSample(j, kind, running)

AttemptFails(j) == "runner" \in Faults /\ FallBack(j, "failed", late[j])
AttemptMisses(j) ==
    /\ Mode(j) = "replay"
    /\ \E r \in Requests : Calling(j, r) /\ loaded[j][r] = None
    /\ FallBack(j, "miss", late[j])
AttemptTimesOut(j) ==
    /\ "timeout" \in Faults
    /\ FallBack(j, "failed", late[j] \cup (IF Mode(j) = "record" THEN {side[j]} ELSE {}))

(* The line of a successful attempt cannot be read back (see Sampling), or *)
(* the process that samples a checkout fails.                              *)
SamplingAborts(j) ==
    /\ pc[j] = "sampling"
    /\ {"flush", "checkout"} \cap Faults # {}
    /\ End(j, "sampling", 1)
    /\ UNCHANGED <<setting, verdict, recorded, comments>>

(***************************************************************************)
(* Checks and comparison                                                   *)
(***************************************************************************)
(* Variant: the check is made once, when both sides have been sampled. *)
MissesOfCandidate(j) ==
    /\ Mode(j) # "live"
    /\ side[j] = "candidate"
    /\ \E l \in Written(j, side[j]) : l.kind = "miss"

(* A sampled side whose file tells of a miss, whoever wrote that line. *)
Misses(j) ==
    /\ Mode(j) # "live"
    /\ \E l \in Written(j, side[j]) : l.kind = "miss"

CheckSide(j) ==
    /\ pc[j] = "check"
    /\ ~Misses(j)
    /\ IF side[j] = "baseline"
       THEN Goes(j, "begin") /\ side' = [side EXCEPT ![j] = "candidate"]
       ELSE Goes(j, "validate") /\ UNCHANGED side
    /\ UNCHANGED <<setting, left, tries, heard, loaded, late, source, verdict, exit, why,
                   recorded, delivered>>

RefuseMiss(j) ==
    /\ pc[j] = "check"
    /\ Misses(j)
    /\ End(j, "miss", 1)
    /\ UNCHANGED <<setting, verdict, recorded, comments>>

(* Variant: an empty side is good enough. *)
GoodIfEmpty(file) ==
    100 * Cardinality({l \in file : l.kind # "ok"}) <= MaxRate * Cardinality(file)

(* There are trajectories, and not too many failed ones. *)
Good(file) ==
    /\ file # {}
    /\ 100 * Cardinality({l \in file : l.kind # "ok"}) <= MaxRate * Cardinality(file)

(* Too few inputs are a warning of the live tier. *)
Warned(j) == Mode(j) = "live" /\ setting[j].inputs = "few"

Worst(v, w) == IF "fail" \in {v, w} THEN "fail" ELSE IF "warn" \in {v, w} THEN "warn" ELSE "pass"

(* Both sides are loaded, validated and compared; the artifacts are written. *)
Validate(j) ==
    /\ pc[j] = "validate"
    /\ \A s \in Sides : Good(Written(j, s))
    /\ \E v \in Verdicts :
          verdict' = [verdict EXCEPT ![j] = Worst(v, IF Warned(j) THEN "warn" ELSE "pass")]
    /\ Goes(j, IF setting[j].delivers THEN "slack" ELSE "finish")
    /\ tries' = [tries EXCEPT ![j] = 1]
    /\ UNCHANGED <<setting, side, left, heard, loaded, late, source, exit, why, recorded,
                   delivered>>

RefuseQuality(j) ==
    /\ pc[j] = "validate"
    /\ \E s \in Sides : ~Good(Written(j, s))
    /\ End(j, "quality", 1)
    /\ UNCHANGED <<setting, verdict, recorded, comments>>

(***************************************************************************)
(* Deliveries                                                              *)
(***************************************************************************)
PostsLeft(j) == tries[j] < MaxPosts

Accepts(j) == posts' = [posts EXCEPT ![j] = @ + 1]

(* Variant: a confirmed post is tried again like a transient failure. *)
PostConfirmedAgain(j) ==
    /\ pc[j] = "slack"
    /\ Accepts(j)
    /\ UNCHANGED unknown
    /\ IF PostsLeft(j)
       THEN tries' = [tries EXCEPT ![j] = @ + 1] /\ UNCHANGED pc
       ELSE Goes(j, "list") /\ UNCHANGED tries
    /\ UNCHANGED <<setting, side, left, heard, loaded, late, source, verdict, exit, why,
                   recorded, listed, comments>>

PostConfirmed(j) ==
    /\ pc[j] = "slack"
    /\ Accepts(j)
    /\ Goes(j, "list")
    /\ UNCHANGED <<setting, verdict, exit, why, sampled, recorded, listed, comments, unknown>>

(* Slack refuses for good: no delivery, and the gate goes on. *)
PostRefused(j) ==
    /\ pc[j] = "slack"
    /\ "slack" \in Faults
    /\ Goes(j, "list")
    /\ UNCHANGED <<setting, verdict, exit, why, sampled, recorded, delivered>>

(* A transient failure: the post may have arrived all the same. *)
PostFails(j) ==
    /\ pc[j] = "slack"
    /\ "slack" \in Faults
    /\ \/ UNCHANGED <<posts, unknown>>
       \/ Accepts(j) /\ unknown' = [unknown EXCEPT ![j] = @ + 1]
    /\ IF PostsLeft(j)
       THEN tries' = [tries EXCEPT ![j] = @ + 1] /\ UNCHANGED pc
       ELSE Goes(j, "list") /\ UNCHANGED tries
    /\ UNCHANGED <<setting, side, left, heard, loaded, late, source, verdict, exit, why,
                   recorded, listed, comments>>

(* The answer is not JSON: an exception no delivery catches. *)
PostGarbled(j) ==
    /\ pc[j] = "slack"
    /\ "slack" \in Faults
    /\ End(j, "slack", 1)
    /\ UNCHANGED <<setting, verdict, recorded, comments>>

ListComments(j) ==
    /\ pc[j] = "list"
    /\ Goes(j, "comment")
    /\ listed' = [listed EXCEPT ![j] = Len(comments)]
    /\ UNCHANGED <<setting, verdict, exit, why, sampled, recorded, comments, posts, unknown>>

(* A call to GitHub fails before it did anything, and the gate goes on; *)
(* one that fails afterwards is a WriteComment.                         *)
GitHubFails(j) ==
    /\ pc[j] \in {"list", "comment"}
    /\ "github" \in Faults
    /\ Goes(j, "finish")
    /\ UNCHANGED <<setting, verdict, exit, why, sampled, recorded, delivered>>

(* The first page of what was listed is searched for the marker. *)
Marked(j) ==
    {i \in DOMAIN comments : i <= listed[j] /\ i <= PageSize /\ comments[i].marked}

Edit(i) == comments' = [comments EXCEPT ![i].marked = TRUE]

WriteComment(j) ==
    /\ pc[j] = "comment"
    /\ IF Marked(j) = {}
       THEN comments' = Append(comments, [by |-> j, marked |-> TRUE])
       ELSE \E i \in Marked(j) : (\A k \in Marked(j) : i <= k) /\ Edit(i)
    /\ Goes(j, "finish")
    /\ UNCHANGED <<setting, verdict, exit, why, sampled, recorded, listed, posts, unknown>>

Severity == [v \in Verdicts |-> CASE v = "pass" -> 0 [] v = "warn" -> 1 [] v = "fail" -> 2]
ExitCode(j) ==
    IF setting[j].failOn # "never" /\ Severity[verdict[j]] >= Severity[setting[j].failOn]
    THEN 1 ELSE 0

Finish(j) ==
    /\ pc[j] = "finish"
    /\ End(j, "verdict", ExitCode(j))
    /\ UNCHANGED <<setting, verdict, recorded, comments>>

(* The process is killed; a recording it was writing stays torn. *)
Killed(j) ==
    /\ "kill" \in Faults
    /\ Running(j)
    /\ Goes(j, "killed")
    /\ \/ /\ Mode(j) = "record" /\ pc[j] = "sampling"
          /\ cassette' = [cassette EXCEPT !.file = "torn"]
       \/ UNCHANGED cassette
    /\ Forget(j)
    /\ UNCHANGED <<setting, verdict, exit, why, take, lines, comments>>

(* Somebody else comments; it is of no consequence when no job delivers. *)
OtherComments ==
    /\ \E j \in DOMAIN setting : setting[j].delivers
    /\ Cardinality({i \in DOMAIN comments : comments[i].by = Other}) < MaxOthers
    /\ comments' = Append(comments, [by |-> Other, marked |-> FALSE])
    /\ UNCHANGED <<setting, pc, verdict, exit, why, sampled, recorded, listed, posts, unknown>>

Sample(j) ==
    \/ BeginSide(j)
    \/ CannotBegin(j)
    \/ \E r \in Requests : CallProvider(j, r) \/ LookUp(j, r)
    \/ SampleEnds(j)
    \/ AttemptFails(j)
    \/ AttemptMisses(j)
    \/ AttemptTimesOut(j)
    \/ SamplingAborts(j)
Decide(j) == CheckSide(j) \/ RefuseMiss(j) \/ Validate(j) \/ RefuseQuality(j)
Deliver(j) ==
    \/ PostConfirmed(j)
    \/ PostRefused(j)
    \/ PostFails(j)
    \/ PostGarbled(j)
    \/ ListComments(j)
    \/ GitHubFails(j)
    \/ WriteComment(j)
Step(j) == Sample(j) \/ Decide(j) \/ Deliver(j) \/ Finish(j)

Next ==
    \/ \E j \in DOMAIN setting : Start(j) \/ Step(j) \/ Killed(j)
    \/ \E j \in DOMAIN setting, s \in Sides, r \in Requests : LateCall(j, s, r)
    \/ OtherComments

Spec == Init /\ [][Next]_vars

(***************************************************************************)
(* Properties                                                              *)
(***************************************************************************)
OwnLines(j, s) == {l \in Written(j, s) : l.job = j}
Shares(j) == \E k \in DOMAIN setting \ {j} : setting[k].dir = setting[j].dir
Reported(j) == pc[j] = "ended" /\ why[j] = "verdict"

(* A replay of a side that ran to the end of its recording, by the code    *)
(* that was recorded.                                                      *)
ReplaysTake(j, t) ==
    /\ pc[j] = "sampling" /\ Mode(j) = "replay"
    /\ t.done
    /\ setting[t.job][t.side] = Code(j)

(* A side that ran to the end of its recording can be replayed: the same   *)
(* code finds each call that was answered in the last recorded sample, and *)
(* hears the same, even when earlier samples heard something else.  That   *)
(* goes for a recording nobody added to: no abandoned attempt, no other    *)
(* job, no failed write (cassette.py: the last recording of a request is   *)
(* the one that counts).                                                   *)
ReplayRepeatsRecording ==
    \A j \in DOMAIN setting :
        LET t == source[j] IN
        ReplaysTake(j, t) /\ t.pure =>
            \A r \in Calls[Code(j)] :
               t.heard[r] # Raised => /\ loaded[j][r] # None
                                      /\ heard[j][r] \in {None, t.heard[r]}

(* What README.md:209 says of the hermetic tier, that its replay is fully  *)
(* deterministic: a replay hears what the last sample heard whose          *)
(* recording it replays.  It need not when an attempt was abandoned: that  *)
(* goes on recording after the attempt that counts.                        *)
ReplayIsDeterministic ==
    \A j \in DOMAIN setting :
        LET t == source[j] IN
        ReplaysTake(j, t) => \A r \in Calls[Code(j)] : heard[j][r] \in {None, t.heard[r]}

(* A replayed request that was never recorded, and that the runner did not *)
(* handle itself, ends the gate, even when its line is one failure among   *)
(* allowed ones (compare.py:362).                                          *)
MissStopsGate ==
    \A j \in DOMAIN setting, s \in Sides :
        Reported(j) /\ Mode(j) = "replay" => \A l \in OwnLines(j, s) : l.kind # "miss"

(* A gate that reports a verdict compared something on each side, its own  *)
(* samples unless the directory is shared, with no more failures than      *)
(* allowed, whatever became of its attempts and its lines.                 *)
ExitIsEarned ==
    \A j \in DOMAIN setting :
        Reported(j) /\ setting[j].inputs # "none" =>
            \A s \in Sides :
                /\ Written(j, s) # {}
                /\ ~Shares(j) => Good(OwnLines(j, s))

(* Slack, GitHub, or webhook failures never hide the underlying verdict    *)
(* (docs/integrations.md:3): the exit code of a command that compared is   *)
(* that of the verdict.  It is not when Slack's answer is not JSON.        *)
VerdictNotHidden ==
    \A j \in DOMAIN setting :
        pc[j] = "ended" /\ verdict[j] # None => exit[j] = ExitCode(j)

(* Slack has a second message of a job only if it did not confirm an       *)
(* earlier one.                                                            *)
PostedOnce == \A j \in Jobs : posts[j] <= 1 + unknown[j]
=============================================================================
