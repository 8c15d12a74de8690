------------------------------ MODULE GateProofs ------------------------------
(***************************************************************************)
(* Proofs about Gate for every set of jobs, settings, versions, requests   *)
(* and faults, and every bound.  IInv, the inductive invariant, says for   *)
(* each job how far it has come (StageInv, HeardInv), what its lines tell  *)
(* (MissInv, EarnedInv), and what the cassette holds of the last recording *)
(* and a replaying job of the one it loaded (TakeInv, SourceInv).          *)
(***************************************************************************)
EXTENDS Gate, TLAPS, FiniteSetTheorems, SequenceTheorems

Stages == {"idle", "begin", "sampling", "check", "validate", "slack", "list", "comment",
           "finish", "ended", "killed"}

(* Where a job has no verdict yet, and where it is delivered. *)
Undecided == {"idle", "begin", "sampling", "check", "validate"}
Delivering == {"slack", "list", "comment"}

(* No verdict and no post before the comparison; then every post but a     *)
(* confirmed one, the last, is an attempt Slack did not confirm.           *)
StageInv(j) ==
    /\ pc[j] \in Undecided => verdict[j] = None /\ posts[j] = 0 /\ unknown[j] = 0
    /\ pc[j] = "sampling" => left[j] # 0 /\ tries[j] \in 1 .. MaxAttempts
    /\ pc[j] = "slack" => /\ tries[j] \in 1 .. MaxPosts
                          /\ posts[j] < tries[j]
                          /\ posts[j] = unknown[j]
    /\ posts[j] <= 1 + unknown[j]

(* A replayed request that was recorded is answered with its recording. *)
HeardInv(j) ==
    Mode(j) = "replay" =>
        \A r \in Requests : heard[j][r] = None \/ loaded[j][r] \in {None, heard[j][r]}

(* A line is in the directory of its job. *)
LineInv ==
    \A d \in Dirs, s \in Sides : \A l \in lines[d][s] :
        l.job \in DOMAIN setting /\ setting[l.job].dir = d

(* The baseline is checked before the candidate is sampled, and both are   *)
(* before they are compared.                                               *)
NoMiss(j, s) == \A l \in OwnLines(j, s) : l.kind # "miss"
Compared(j) == pc[j] \in Delivering \cup {"finish"} \/ Reported(j)
MissInv(j) ==
    Mode(j) = "replay" =>
        /\ side[j] = "candidate" \/ pc[j] = "idle" \/ Compared(j) => NoMiss(j, "baseline")
        /\ pc[j] = "idle" \/ Compared(j) => NoMiss(j, "candidate")
        /\ pc[j] = "validate" => side[j] = "candidate" /\ NoMiss(j, "candidate")

(* What was compared was good enough, and nobody adds to it unless the     *)
(* directory is shared.                                                    *)
EarnedInv(j) ==
    Compared(j) /\ setting[j].inputs # "none" =>
        \A s \in Sides :
            /\ Written(j, s) # {}
            /\ ~Shares(j) => Good(Written(j, s))

(* The cassette holds what the sample being recorded has heard so far, and *)
(* in the end what the last one heard.                                     *)
TakeInv ==
    take.pure =>
        /\ take.job \in DOMAIN setting
        /\ Mode(take.job) = "record"
        /\ pc[take.job] = "sampling" /\ side[take.job] = take.side =>
              /\ ~take.done
              /\ \A r \in Requests :
                    heard[take.job][r] \in {None, Raised, cassette.answer[r]}
        /\ take.done =>
              \A r \in Calls[setting[take.job][take.side]] :
                  /\ take.heard[r] # None
                  /\ take.heard[r] # Raised => cassette.answer[r] = take.heard[r]

(* What a replaying job loaded is the recording its source describes. *)
SourceInv(j) ==
    LET t == source[j] IN
    t.pure /\ t.done =>
        /\ t.job \in DOMAIN setting
        /\ pc[j] = "sampling" /\ Mode(j) = "replay" =>
              \A r \in Calls[setting[t.job][t.side]] :
                  /\ t.heard[r] # None
                  /\ t.heard[r] # Raised => loaded[j][r] = t.heard[r]

JobInv ==
    /\ \A j \in Jobs : StageInv(j)
    /\ \A j \in DOMAIN setting : HeardInv(j) /\ MissInv(j) /\ EarnedInv(j) /\ SourceInv(j)

IInv ==
    /\ TypeOK
    /\ JobInv
    /\ LineInv
    /\ TakeInv

-----------------------------------------------------------------------------
(* What a job's setting is. *)
LEMMA SettingFacts ==
    ASSUME TypeOK, NEW j \in DOMAIN setting
    PROVE  /\ j \in Jobs /\ DOMAIN setting \subseteq Jobs
           /\ setting[j].mode \in {"record", "replay", "live"}
           /\ setting[j].baseline \in Codes /\ setting[j].candidate \in Codes
           /\ setting[j].dir \in Dirs
           /\ setting[j].samples \in 1 .. Samples
           /\ setting[j].inputs \in {"none", "few", "enough"}
           /\ setting[j].failOn \in {"fail", "warn", "never"}
           /\ setting[j].delivers \in BOOLEAN
<1>1. setting \in Settings
  BY DEF TypeOK
<1> QED
  BY <1>1, SettingAssumption

LEMMA Bounds ==
    /\ Samples \in Nat \ {0} /\ MaxAttempts \in Nat \ {0} /\ MaxPosts \in Nat \ {0}
    /\ PageSize \in Nat \ {0} /\ MaxOthers \in Nat
  BY BoundAssumption

(* The code that is sampled, and its requests. *)
LEMMA CodeFacts ==
    ASSUME TypeOK, NEW j \in DOMAIN setting, NEW s \in Sides
    PROVE  setting[j][s] \in Codes /\ Calls[setting[j][s]] \subseteq Requests
<1>1. setting[j][s] \in Codes
  BY SettingFacts DEF Sides
<1> QED
  BY <1>1, CodeAssumption

(* A job that a step leaves alone, and that shares no line it writes. *)
LEMMA JobFrame ==
    ASSUME JobInv, NEW k \in Jobs,
           setting' = setting, lines' = lines,
           pc'[k] = pc[k], side'[k] = side[k], left'[k] = left[k], tries'[k] = tries[k],
           heard'[k] = heard[k], loaded'[k] = loaded[k], source'[k] = source[k],
           verdict'[k] = verdict[k], why'[k] = why[k],
           posts'[k] = posts[k], unknown'[k] = unknown[k]
    PROVE  /\ StageInv(k)'
           /\ k \in DOMAIN setting => (HeardInv(k) /\ MissInv(k) /\ EarnedInv(k) /\ SourceInv(k))'
<1>1. StageInv(k)'
  BY DEF JobInv, StageInv
<1>2. k \in DOMAIN setting => HeardInv(k)'
  BY DEF JobInv, HeardInv, Mode
<1>3. k \in DOMAIN setting => MissInv(k)'
  BY DEF JobInv, MissInv, Mode, Compared, Reported, NoMiss, OwnLines, Written
<1>4. k \in DOMAIN setting => EarnedInv(k)'
  BY DEF JobInv, EarnedInv, Compared, Reported, Written, Shares
<1>5. k \in DOMAIN setting => SourceInv(k)'
  BY DEF JobInv, SourceInv, Mode
<1> QED
  BY <1>1, <1>2, <1>3, <1>4, <1>5

Comments == [by : Jobs \cup {Other}, marked : BOOLEAN]

LEMMA CommentFacts ==
    ASSUME TypeOK
    PROVE  /\ comments \in Seq(Comments)
           /\ Len(comments) \in Nat /\ DOMAIN comments = 1 .. Len(comments)
           /\ \A i \in DOMAIN comments :
                 /\ comments[i] \in Comments
                 /\ comments[i].by \in Jobs \cup {Other}
<1>1. comments \in Seq(Comments)
  BY DEF TypeOK, Comments
<1>2. Len(comments) \in Nat /\ DOMAIN comments = 1 .. Len(comments)
  BY <1>1, LenProperties
<1>3. \A i \in DOMAIN comments : comments[i] \in Comments
  BY <1>1, <1>2, ElementOfSeq
<1>4. \A c \in Comments : c.by \in Jobs \cup {Other}
  BY DEF Comments
<1> QED
  BY <1>1, <1>2, <1>3, <1>4

LEMMA StartStep ==
    ASSUME IInv, NEW j \in DOMAIN setting, Start(j)
    PROVE  IInv'
<1> USE DEF Start, sampled, recorded, delivered, Goes
<1>0. /\ TypeOK /\ JobInv /\ LineInv /\ TakeInv
      /\ j \in Jobs /\ DOMAIN setting \subseteq Jobs
  BY SettingFacts DEF IInv
<1>1. TypeOK'
  BY <1>0, Bounds, ZenonT(60) DEF TypeOK, Verdicts
<1>2. JobInv'
  <2>1. \A k \in Jobs \ {j} : 
           /\ StageInv(k)'
           /\ k \in DOMAIN setting => (HeardInv(k) /\ MissInv(k) /\ EarnedInv(k) /\ SourceInv(k))'
    BY <1>0, JobFrame DEF TypeOK
  <2>2. StageInv(j)'
    BY <1>0 DEF JobInv, StageInv, TypeOK, Undecided
  <2>3. HeardInv(j)'
    BY <1>0 DEF JobInv, HeardInv, Mode
  <2>4. MissInv(j)'
    BY <1>0 DEF JobInv, MissInv, Mode, Compared, Reported, NoMiss, OwnLines, Written, TypeOK, Delivering
  <2>5. EarnedInv(j)'
    BY <1>0 DEF JobInv, EarnedInv, Compared, Reported, Written, Shares, TypeOK, Delivering
  <2>6. SourceInv(j)'
    BY <1>0, ZenonT(60) DEF JobInv, SourceInv, Mode, TypeOK
  <2> QED
    BY <1>0, <2>1, <2>2, <2>3, <2>4, <2>5, <2>6 DEF JobInv
<1>3. LineInv'
  BY <1>0 DEF LineInv
<1>4. TakeInv'
  BY <1>0 DEF TakeInv, Mode, TypeOK
<1> QED
  BY <1>1, <1>2, <1>3, <1>4 DEF IInv

(* Nothing heard, nothing recorded. *)
LEMMA Blanks ==
    /\ Nothing \in [Requests -> Answers \cup {None}]
    /\ Nothing \in [Requests -> Answers \cup {None, Raised}]
    /\ NoTake \in Takes
<1>1. /\ Nothing \in [Requests -> Answers \cup {None}]
      /\ Nothing \in [Requests -> Answers \cup {None, Raised}]
  BY DEF Nothing
<1> QED
  BY <1>1 DEF NoTake, Takes, Sides

LEMMA ForgetTypes ==
    ASSUME TypeOK, NEW j \in Jobs, Forget(j)
    PROVE  /\ side' \in [Jobs -> Sides]
           /\ left' \in [Jobs -> 0 .. Samples]
           /\ tries' \in [Jobs -> Nat]
           /\ \A k \in Jobs : tries'[k] <= MaxAttempts \/ tries'[k] <= MaxPosts
           /\ heard' \in [Jobs -> [Requests -> Answers \cup {None, Raised}]]
           /\ loaded' \in [Jobs -> [Requests -> Answers \cup {None}]]
           /\ late' \in [Jobs -> SUBSET Sides]
           /\ source' \in [Jobs -> Takes]
           /\ listed' \in [Jobs -> 0 .. Len(comments)]
           /\ posts' \in [Jobs -> 0 .. MaxPosts]
           /\ unknown' \in [Jobs -> 0 .. MaxPosts]
  BY Bounds, Blanks, SMTT(60) DEF TypeOK, Forget

LEMMA EditFacts ==
    ASSUME TypeOK, NEW i \in DOMAIN comments, Edit(i)
    PROVE  comments' \in Seq(Comments) /\ Len(comments') = Len(comments)
<1> DEFINE c == [comments[i] EXCEPT !.marked = TRUE]
<1>1. /\ comments \in Seq(Comments) /\ DOMAIN comments = 1 .. Len(comments)
      /\ comments[i] \in Comments
  BY CommentFacts
<1>2. c \in Comments
  BY <1>1 DEF Comments
<1>3. comments' = [comments EXCEPT ![i] = c]
  BY DEF Edit
<1> HIDE DEF c
<1> QED
  BY <1>1, <1>2, <1>3, ExceptSeq

LEMMA AppendFacts ==
    ASSUME TypeOK, NEW c \in Comments, comments' = Append(comments, c)
    PROVE  comments' \in Seq(Comments) /\ Len(comments') = Len(comments) + 1
  BY CommentFacts, AppendProperties

(* A comment that is added leaves what was listed within the comments. *)
LEMMA ListedGrows ==
    ASSUME TypeOK, NEW n \in Nat, Len(comments) <= n
    PROVE  listed \in [Jobs -> 0 .. n]
<1>1. Len(comments) \in Nat
  BY CommentFacts
<1> QED
  BY <1>1 DEF TypeOK

LEMMA KeepFacts ==
    ASSUME TypeOK, NEW r \in Requests, NEW a \in Answers, Keep(r, a)
    PROVE  /\ cassette' \in [file : {"missing", "torn", "whole"},
                            answer : [Requests -> Answers \cup {None}]]
           /\ \A q \in Requests :
                 cassette'.answer[q] = IF q = r THEN a ELSE cassette.answer[q]
<1> DEFINE f == [cassette.answer EXCEPT ![r] = a]
<1>1. /\ cassette.answer \in [Requests -> Answers \cup {None}]
      /\ cassette.file \in {"missing", "torn", "whole"}
      /\ cassette = [file |-> cassette.file, answer |-> cassette.answer]
  BY DEF TypeOK
<1>2. /\ f \in [Requests -> Answers \cup {None}]
      /\ \A q \in Requests : f[q] = IF q = r THEN a ELSE cassette.answer[q]
  BY <1>1
<1>3. cassette' = [cassette EXCEPT !.answer = f]
  BY DEF Keep
<1> HIDE DEF f
<1>4. cassette' = [file |-> cassette.file, answer |-> f]
  BY <1>1, <1>3
<1> QED
  BY <1>1, <1>2, <1>4

LEMMA SpoilFacts ==
    ASSUME TypeOK, Spoil
    PROVE  take' \in Takes /\ ~take'.pure
<1>1. take = [job |-> take.job, side |-> take.side, pure |-> take.pure, done |-> take.done,
              heard |-> take.heard]
      /\ take \in Takes
  BY DEF TypeOK, Takes
<1>2. take' = [job |-> take.job, side |-> take.side, pure |-> FALSE, done |-> take.done,
               heard |-> take.heard]
  BY <1>1 DEF Spoil
<1> QED
  BY <1>1, <1>2 DEF Takes

LEMMA EndStep ==
    ASSUME IInv, NEW j \in DOMAIN setting, NEW cause \in {None, "sampling", "miss", "quality", "slack", "verdict"}, NEW code \in {0, 1},
           Running(j), End(j, cause, code),
           UNCHANGED <<setting, verdict, recorded, comments>>,
           cause = "verdict" => pc[j] = "finish"
    PROVE  IInv'
<1> USE DEF End, Forget, Goes, recorded, sampled, delivered, Nothing, NoTake, Running
<1>0. /\ TypeOK /\ JobInv /\ LineInv /\ TakeInv
      /\ j \in Jobs /\ DOMAIN setting \subseteq Jobs
  BY SettingFacts DEF IInv
<1>1. TypeOK'
  <2> HIDE DEF Forget, Nothing, NoTake
  <2> QED
    BY <1>0, ForgetTypes DEF TypeOK
<1>2. JobInv'
  <2>1. \A k \in Jobs \ {j} :
           /\ StageInv(k)'
           /\ k \in DOMAIN setting => (HeardInv(k) /\ MissInv(k) /\ EarnedInv(k) /\ SourceInv(k))'
    BY <1>0, JobFrame DEF TypeOK
  <2>2. StageInv(j)'
    BY <1>0, Bounds DEF JobInv, StageInv, TypeOK, Undecided
  <2>3. HeardInv(j)'
    BY <1>0 DEF JobInv, HeardInv, Mode, TypeOK, Nothing
  <2>4. MissInv(j)'
    BY <1>0 DEF JobInv, MissInv, Mode, Compared, Reported, NoMiss, OwnLines, Written, TypeOK, Delivering
  <2>5. EarnedInv(j)'
    BY <1>0 DEF JobInv, EarnedInv, Compared, Reported, Written, Shares, TypeOK, Delivering
  <2>6. SourceInv(j)'
    BY <1>0 DEF JobInv, SourceInv, Mode, TypeOK, NoTake
  <2> QED
    BY <1>0, <2>1, <2>2, <2>3, <2>4, <2>5, <2>6 DEF JobInv
<1>3. LineInv'
  BY <1>0 DEF LineInv
<1>4. TakeInv'
  BY <1>0 DEF TakeInv, Mode, TypeOK, Nothing
<1> QED
  BY <1>1, <1>2, <1>3, <1>4 DEF IInv

LEMMA KillStep ==
    ASSUME IInv, NEW j \in DOMAIN setting, Killed(j)
    PROVE  IInv'
<1> USE DEF Killed, Forget, Goes, recorded, sampled, delivered, Nothing, NoTake, Running
<1>0. /\ TypeOK /\ JobInv /\ LineInv /\ TakeInv
      /\ j \in Jobs /\ DOMAIN setting \subseteq Jobs
  BY SettingFacts DEF IInv
<1>1. TypeOK'
  <2> HIDE DEF Forget, Nothing, NoTake
  <2>1. cassette' \in [file : {"missing", "torn", "whole"},
                      answer : [Requests -> Answers \cup {None}]]
    BY <1>0 DEF TypeOK
  <2> QED
    BY <1>0, <2>1, ForgetTypes DEF TypeOK
<1>2. JobInv'
  <2>1. \A k \in Jobs \ {j} :
           /\ StageInv(k)'
           /\ k \in DOMAIN setting => (HeardInv(k) /\ MissInv(k) /\ EarnedInv(k) /\ SourceInv(k))'
    BY <1>0, JobFrame DEF TypeOK
  <2>2. StageInv(j)'
    BY <1>0, Bounds DEF JobInv, StageInv, TypeOK, Undecided
  <2>3. HeardInv(j)'
    BY <1>0 DEF JobInv, HeardInv, Mode, TypeOK, Nothing
  <2>4. MissInv(j)'
    BY <1>0 DEF JobInv, MissInv, Mode, Compared, Reported, NoMiss, OwnLines, Written, TypeOK, Delivering
  <2>5. EarnedInv(j)'
    BY <1>0 DEF JobInv, EarnedInv, Compared, Reported, Written, Shares, TypeOK, Delivering
  <2>6. SourceInv(j)'
    BY <1>0 DEF JobInv, SourceInv, Mode, TypeOK, NoTake
  <2> QED
    BY <1>0, <2>1, <2>2, <2>3, <2>4, <2>5, <2>6 DEF JobInv
<1>3. LineInv'
  BY <1>0 DEF LineInv
<1>4. TakeInv'
  BY <1>0, ZenonT(60) DEF TakeInv, Mode, TypeOK, Nothing
<1> QED
  BY <1>1, <1>2, <1>3, <1>4 DEF IInv

LEMMA CheckSideStep ==
    ASSUME IInv, NEW j \in DOMAIN setting, CheckSide(j)
    PROVE  IInv'
<1> USE DEF CheckSide, Goes, recorded, sampled, delivered
<1>0. /\ TypeOK /\ JobInv /\ LineInv /\ TakeInv
      /\ j \in Jobs /\ DOMAIN setting \subseteq Jobs
  BY SettingFacts DEF IInv
<1>1. TypeOK'
  <2>1. pc' \in [Jobs -> Stages] /\ side' \in [Jobs -> Sides]
    BY <1>0, ZenonT(60) DEF TypeOK, Stages, Sides
  <2> QED
    BY <1>0, <2>1 DEF TypeOK, Stages
<1>2. JobInv'
  <2>1. \A k \in Jobs \ {j} :
           /\ StageInv(k)'
           /\ k \in DOMAIN setting => (HeardInv(k) /\ MissInv(k) /\ EarnedInv(k) /\ SourceInv(k))'
    BY <1>0, JobFrame DEF TypeOK
  <2>2. StageInv(j)'
    BY <1>0, Bounds DEF JobInv, StageInv, TypeOK, Undecided
  <2>3. HeardInv(j)'
    BY <1>0 DEF JobInv, HeardInv, Mode, TypeOK, Nothing
  <2>4. MissInv(j)'
    <3>1. Mode(j) = "replay" => NoMiss(j, side[j])
      BY DEF Misses, NoMiss, OwnLines
    <3>2. \A s \in Sides : NoMiss(j, s)' <=> NoMiss(j, s)
      BY DEF NoMiss, OwnLines, Written
    <3>3. side[j] \in Sides /\ pc'[j] \in {"begin", "validate"}
      BY <1>0 DEF TypeOK
    <3> QED
      BY <1>0, <3>1, <3>2, <3>3 DEF JobInv, MissInv, Mode, Compared, Reported, TypeOK, Delivering, Sides
  <2>5. EarnedInv(j)'
    BY <1>0 DEF JobInv, EarnedInv, Compared, Reported, Written, Shares, TypeOK, Delivering
  <2>6. SourceInv(j)'
    BY <1>0, ZenonT(60) DEF JobInv, SourceInv, Mode, TypeOK, NoTake
  <2> QED
    BY <1>0, <2>1, <2>2, <2>3, <2>4, <2>5, <2>6 DEF JobInv
<1>3. LineInv'
  BY <1>0 DEF LineInv
<1>4. TakeInv'
  BY <1>0 DEF TakeInv, Mode, TypeOK, Nothing
<1> QED
  BY <1>1, <1>2, <1>3, <1>4 DEF IInv

LEMMA ValidateStep ==
    ASSUME IInv, NEW j \in DOMAIN setting, Validate(j)
    PROVE  IInv'
<1> USE DEF Validate, Goes, recorded, sampled, delivered
<1>0. /\ TypeOK /\ JobInv /\ LineInv /\ TakeInv
      /\ j \in Jobs /\ DOMAIN setting \subseteq Jobs
  BY SettingFacts DEF IInv
<1>1. TypeOK'
  <2>1. \A v, w \in Verdicts : Worst(v, w) \in Verdicts
    BY DEF Worst, Verdicts
  <2>2. verdict' \in [Jobs -> Verdicts \cup {None}]
    BY <1>0, <2>1 DEF TypeOK, Verdicts
  <2> QED
    BY <1>0, <2>2, Bounds, SettingFacts, SMTT(60) DEF TypeOK
<1>2. JobInv'
  <2>1. \A k \in Jobs \ {j} :
           /\ StageInv(k)'
           /\ k \in DOMAIN setting => (HeardInv(k) /\ MissInv(k) /\ EarnedInv(k) /\ SourceInv(k))'
    BY <1>0, JobFrame DEF TypeOK
  <2>2. StageInv(j)'
    BY <1>0, Bounds DEF JobInv, StageInv, TypeOK, Undecided
  <2>3. HeardInv(j)'
    BY <1>0 DEF JobInv, HeardInv, Mode, TypeOK, Nothing
  <2>4. MissInv(j)'
    BY <1>0 DEF JobInv, MissInv, Mode, Compared, Reported, NoMiss, OwnLines, Written, TypeOK, Delivering
  <2>5. EarnedInv(j)'
    <3>1. \A s \in Sides : Written(j, s)' = Written(j, s)
      BY DEF Written
    <3>2. \A s \in Sides : Good(Written(j, s)) /\ Written(j, s) # {}
      BY DEF Good
    <3> QED
      BY <3>1, <3>2 DEF EarnedInv, Good
  <2>6. SourceInv(j)'
    BY <1>0 DEF JobInv, SourceInv, Mode, TypeOK, NoTake
  <2> QED
    BY <1>0, <2>1, <2>2, <2>3, <2>4, <2>5, <2>6 DEF JobInv
<1>3. LineInv'
  BY <1>0 DEF LineInv
<1>4. TakeInv'
  BY <1>0 DEF TakeInv, Mode, TypeOK, Nothing
<1> QED
  BY <1>1, <1>2, <1>3, <1>4 DEF IInv

LEMMA PostConfirmedStep ==
    ASSUME IInv, NEW j \in DOMAIN setting, PostConfirmed(j)
    PROVE  IInv'
<1> USE DEF PostConfirmed, Accepts, Goes, recorded, sampled, delivered
<1>0. /\ TypeOK /\ JobInv /\ LineInv /\ TakeInv
      /\ j \in Jobs /\ DOMAIN setting \subseteq Jobs
  BY SettingFacts DEF IInv
<1>1. TypeOK'
  <2>1. posts' \in [Jobs -> 0 .. MaxPosts]
    BY <1>0, Bounds DEF TypeOK, JobInv, StageInv
  <2> QED
    BY <1>0, <2>1, Bounds, SettingFacts DEF TypeOK
<1>2. JobInv'
  <2>1. \A k \in Jobs \ {j} :
           /\ StageInv(k)'
           /\ k \in DOMAIN setting => (HeardInv(k) /\ MissInv(k) /\ EarnedInv(k) /\ SourceInv(k))'
    BY <1>0, JobFrame DEF TypeOK
  <2>2. StageInv(j)'
    BY <1>0, Bounds DEF JobInv, StageInv, TypeOK, Undecided
  <2>3. HeardInv(j)'
    BY <1>0 DEF JobInv, HeardInv, Mode, TypeOK, Nothing
  <2>4. MissInv(j)'
    BY <1>0 DEF JobInv, MissInv, Mode, Compared, Reported, NoMiss, OwnLines, Written, TypeOK, Delivering
  <2>5. EarnedInv(j)'
    BY <1>0 DEF JobInv, EarnedInv, Compared, Reported, Written, Shares, TypeOK, Delivering
  <2>6. SourceInv(j)'
    BY <1>0 DEF JobInv, SourceInv, Mode, TypeOK, NoTake
  <2> QED
    BY <1>0, <2>1, <2>2, <2>3, <2>4, <2>5, <2>6 DEF JobInv
<1>3. LineInv'
  BY <1>0 DEF LineInv
<1>4. TakeInv'
  BY <1>0 DEF TakeInv, Mode, TypeOK, Nothing
<1> QED
  BY <1>1, <1>2, <1>3, <1>4 DEF IInv

LEMMA PostRefusedStep ==
    ASSUME IInv, NEW j \in DOMAIN setting, PostRefused(j)
    PROVE  IInv'
<1> USE DEF PostRefused, Goes, recorded, sampled, delivered
<1>0. /\ TypeOK /\ JobInv /\ LineInv /\ TakeInv
      /\ j \in Jobs /\ DOMAIN setting \subseteq Jobs
  BY SettingFacts DEF IInv
<1>1. TypeOK'
  BY <1>0, Bounds, SettingFacts DEF TypeOK, Verdicts, Sides
<1>2. JobInv'
  <2>1. \A k \in Jobs \ {j} :
           /\ StageInv(k)'
           /\ k \in DOMAIN setting => (HeardInv(k) /\ MissInv(k) /\ EarnedInv(k) /\ SourceInv(k))'
    BY <1>0, JobFrame DEF TypeOK
  <2>2. StageInv(j)'
    BY <1>0, Bounds DEF JobInv, StageInv, TypeOK, Undecided
  <2>3. HeardInv(j)'
    BY <1>0 DEF JobInv, HeardInv, Mode, TypeOK, Nothing
  <2>4. MissInv(j)'
    BY <1>0 DEF JobInv, MissInv, Mode, Compared, Reported, NoMiss, OwnLines, Written, TypeOK, Delivering
  <2>5. EarnedInv(j)'
    BY <1>0 DEF JobInv, EarnedInv, Compared, Reported, Written, Shares, TypeOK, Delivering
  <2>6. SourceInv(j)'
    BY <1>0 DEF JobInv, SourceInv, Mode, TypeOK, NoTake
  <2> QED
    BY <1>0, <2>1, <2>2, <2>3, <2>4, <2>5, <2>6 DEF JobInv
<1>3. LineInv'
  BY <1>0 DEF LineInv
<1>4. TakeInv'
  BY <1>0 DEF TakeInv, Mode, TypeOK, Nothing
<1> QED
  BY <1>1, <1>2, <1>3, <1>4 DEF IInv

LEMMA PostFailsStep ==
    ASSUME IInv, NEW j \in DOMAIN setting, PostFails(j)
    PROVE  IInv'
<1> USE DEF PostFails, PostsLeft, Accepts, Goes, recorded, sampled, delivered
<1>0. /\ TypeOK /\ JobInv /\ LineInv /\ TakeInv
      /\ j \in Jobs /\ DOMAIN setting \subseteq Jobs
  BY SettingFacts DEF IInv
<1>1. TypeOK'
  <2>0. /\ tries \in [Jobs -> Nat] /\ posts \in [Jobs -> Nat] /\ unknown \in [Jobs -> Nat]
        /\ posts[j] < tries[j] /\ posts[j] = unknown[j] /\ tries[j] <= MaxPosts
        /\ pc \in [Jobs -> Stages] /\ j \in Jobs
    BY <1>0, Bounds DEF TypeOK, JobInv, StageInv, Stages
  <2>1. posts' \in [Jobs -> 0 .. MaxPosts] /\ unknown' \in [Jobs -> 0 .. MaxPosts]
    <3> HIDE DEF PostFails
    <3>1. posts[j] + 1 \in 0 .. MaxPosts /\ unknown[j] + 1 \in 0 .. MaxPosts
      BY <2>0, Bounds
    <3>2. /\ posts' = posts \/ posts' = [posts EXCEPT ![j] = posts[j] + 1]
          /\ unknown' = unknown \/ unknown' = [unknown EXCEPT ![j] = unknown[j] + 1]
      BY DEF PostFails
    <3>3. posts \in [Jobs -> 0 .. MaxPosts] /\ unknown \in [Jobs -> 0 .. MaxPosts]
      BY <1>0 DEF TypeOK
    <3> QED
      BY <3>1, <3>2, <3>3
  <2>2. /\ tries' \in [Jobs -> Nat]
        /\ \A k \in Jobs : tries'[k] <= MaxAttempts \/ tries'[k] <= MaxPosts
    <3>1. CASE PostsLeft(j)
      <4> HIDE DEF PostFails
      <4>1. tries' = [tries EXCEPT ![j] = tries[j] + 1]
        BY <3>1 DEF PostFails
      <4>2. tries[j] + 1 <= MaxPosts /\ tries[j] + 1 \in Nat
        BY <2>0, <3>1, Bounds
      <4> QED
        BY <1>0, <2>0, <4>1, <4>2 DEF TypeOK
    <3>2. CASE ~PostsLeft(j)
      BY <1>0, <3>2 DEF TypeOK
    <3> QED
      BY <3>1, <3>2
  <2>3. pc' \in [Jobs -> Stages]
    BY <2>0 DEF Stages
  <2> QED
    BY <1>0, <2>1, <2>2, <2>3 DEF TypeOK, Stages
<1>2. JobInv'
  <2>1. \A k \in Jobs \ {j} :
           /\ StageInv(k)'
           /\ k \in DOMAIN setting => (HeardInv(k) /\ MissInv(k) /\ EarnedInv(k) /\ SourceInv(k))'
    BY <1>0, JobFrame DEF TypeOK
  <2>2. StageInv(j)'
    BY <1>0, Bounds, SMTT(60) DEF JobInv, StageInv, TypeOK, Undecided
  <2>3. HeardInv(j)'
    BY <1>0 DEF JobInv, HeardInv, Mode, TypeOK, Nothing
  <2>4. MissInv(j)'
    BY <1>0 DEF JobInv, MissInv, Mode, Compared, Reported, NoMiss, OwnLines, Written, TypeOK, Delivering
  <2>5. EarnedInv(j)'
    BY <1>0 DEF JobInv, EarnedInv, Compared, Reported, Written, Shares, TypeOK, Delivering
  <2>6. SourceInv(j)'
    BY <1>0, SMTT(60) DEF JobInv, SourceInv, Mode, TypeOK, NoTake
  <2> QED
    BY <1>0, <2>1, <2>2, <2>3, <2>4, <2>5, <2>6 DEF JobInv
<1>3. LineInv'
  BY <1>0 DEF LineInv
<1>4. TakeInv'
  BY <1>0 DEF TakeInv, Mode, TypeOK, Nothing
<1> QED
  BY <1>1, <1>2, <1>3, <1>4 DEF IInv

LEMMA ListCommentsStep ==
    ASSUME IInv, NEW j \in DOMAIN setting, ListComments(j)
    PROVE  IInv'
<1> USE DEF ListComments, Goes, recorded, sampled, delivered
<1>0. /\ TypeOK /\ JobInv /\ LineInv /\ TakeInv
      /\ j \in Jobs /\ DOMAIN setting \subseteq Jobs
  BY SettingFacts DEF IInv
<1>1. TypeOK'
  <2>1. Len(comments) \in Nat
    BY <1>0, CommentFacts
  <2> QED
    BY <1>0, <2>1 DEF TypeOK
<1>2. JobInv'
  <2>1. \A k \in Jobs \ {j} :
           /\ StageInv(k)'
           /\ k \in DOMAIN setting => (HeardInv(k) /\ MissInv(k) /\ EarnedInv(k) /\ SourceInv(k))'
    BY <1>0, JobFrame DEF TypeOK
  <2>2. StageInv(j)'
    BY <1>0, Bounds DEF JobInv, StageInv, TypeOK, Undecided
  <2>3. HeardInv(j)'
    BY <1>0 DEF JobInv, HeardInv, Mode, TypeOK, Nothing
  <2>4. MissInv(j)'
    BY <1>0 DEF JobInv, MissInv, Mode, Compared, Reported, NoMiss, OwnLines, Written, TypeOK, Delivering
  <2>5. EarnedInv(j)'
    BY <1>0 DEF JobInv, EarnedInv, Compared, Reported, Written, Shares, TypeOK, Delivering
  <2>6. SourceInv(j)'
    BY <1>0 DEF JobInv, SourceInv, Mode, TypeOK, NoTake
  <2> QED
    BY <1>0, <2>1, <2>2, <2>3, <2>4, <2>5, <2>6 DEF JobInv
<1>3. LineInv'
  BY <1>0 DEF LineInv
<1>4. TakeInv'
  BY <1>0 DEF TakeInv, Mode, TypeOK, Nothing
<1> QED
  BY <1>1, <1>2, <1>3, <1>4 DEF IInv

LEMMA GitHubFailsStep ==
    ASSUME IInv, NEW j \in DOMAIN setting, GitHubFails(j)
    PROVE  IInv'
<1> USE DEF GitHubFails, Goes, recorded, sampled, delivered
<1>0. /\ TypeOK /\ JobInv /\ LineInv /\ TakeInv
      /\ j \in Jobs /\ DOMAIN setting \subseteq Jobs
  BY SettingFacts DEF IInv
<1>1. TypeOK'
  BY <1>0, Bounds, SettingFacts DEF TypeOK, Verdicts, Sides
<1>2. JobInv'
  <2>1. \A k \in Jobs \ {j} :
           /\ StageInv(k)'
           /\ k \in DOMAIN setting => (HeardInv(k) /\ MissInv(k) /\ EarnedInv(k) /\ SourceInv(k))'
    BY <1>0, JobFrame DEF TypeOK
  <2>2. StageInv(j)'
    BY <1>0, Bounds DEF JobInv, StageInv, TypeOK, Undecided
  <2>3. HeardInv(j)'
    BY <1>0 DEF JobInv, HeardInv, Mode, TypeOK, Nothing
  <2>4. MissInv(j)'
    BY <1>0 DEF JobInv, MissInv, Mode, Compared, Reported, NoMiss, OwnLines, Written, TypeOK, Delivering
  <2>5. EarnedInv(j)'
    BY <1>0 DEF JobInv, EarnedInv, Compared, Reported, Written, Shares, TypeOK, Delivering
  <2>6. SourceInv(j)'
    BY <1>0 DEF JobInv, SourceInv, Mode, TypeOK, NoTake
  <2> QED
    BY <1>0, <2>1, <2>2, <2>3, <2>4, <2>5, <2>6 DEF JobInv
<1>3. LineInv'
  BY <1>0 DEF LineInv
<1>4. TakeInv'
  BY <1>0 DEF TakeInv, Mode, TypeOK, Nothing
<1> QED
  BY <1>1, <1>2, <1>3, <1>4 DEF IInv

LEMMA WriteCommentStep ==
    ASSUME IInv, NEW j \in DOMAIN setting, WriteComment(j)
    PROVE  IInv'
<1> USE DEF WriteComment, Edit, Goes, recorded, sampled, delivered
<1>0. /\ TypeOK /\ JobInv /\ LineInv /\ TakeInv
      /\ j \in Jobs /\ DOMAIN setting \subseteq Jobs
  BY SettingFacts DEF IInv
<1> DEFINE c == [by |-> j, marked |-> TRUE]
<1> HIDE DEF Edit
<1>a. ASSUME Marked(j) = {}
      PROVE  comments' \in Seq(Comments) /\ Len(comments') = Len(comments) + 1
  <2>1. c \in Comments
    BY <1>0 DEF Comments
  <2> QED
    BY <1>0, <1>a, <2>1, AppendFacts
<1>b. ASSUME Marked(j) # {}
      PROVE  comments' \in Seq(Comments) /\ Len(comments') = Len(comments)
  BY <1>0, <1>b, EditFacts DEF Marked
<1>1. TypeOK'
  <2>1. /\ comments' \in Seq(Comments)
        /\ Len(comments') \in Nat /\ Len(comments) <= Len(comments')
    BY <1>0, <1>a, <1>b, CommentFacts
  <2>2. listed' \in [Jobs -> 0 .. Len(comments')]
    BY <1>0, <2>1, ListedGrows
  <2> QED
    BY <1>0, <2>1, <2>2 DEF TypeOK, Comments
<1>2. JobInv'
  <2>1. \A k \in Jobs \ {j} :
           /\ StageInv(k)'
           /\ k \in DOMAIN setting => (HeardInv(k) /\ MissInv(k) /\ EarnedInv(k) /\ SourceInv(k))'
    BY <1>0, JobFrame DEF TypeOK
  <2>2. StageInv(j)'
    BY <1>0, Bounds DEF JobInv, StageInv, TypeOK, Undecided
  <2>3. HeardInv(j)'
    BY <1>0 DEF JobInv, HeardInv, Mode, TypeOK, Nothing
  <2>4. MissInv(j)'
    BY <1>0 DEF JobInv, MissInv, Mode, Compared, Reported, NoMiss, OwnLines, Written, TypeOK, Delivering
  <2>5. EarnedInv(j)'
    BY <1>0 DEF JobInv, EarnedInv, Compared, Reported, Written, Shares, TypeOK, Delivering
  <2>6. SourceInv(j)'
    BY <1>0 DEF JobInv, SourceInv, Mode, TypeOK, NoTake
  <2> QED
    BY <1>0, <2>1, <2>2, <2>3, <2>4, <2>5, <2>6 DEF JobInv
<1>3. LineInv'
  BY <1>0 DEF LineInv
<1>4. TakeInv'
  BY <1>0 DEF TakeInv, Mode, TypeOK, Nothing
<1> QED
  BY <1>1, <1>2, <1>3, <1>4 DEF IInv

(* What opening the cassette does, in each mode. *)
LEMMA OpenFacts ==
    ASSUME TypeOK, NEW j \in DOMAIN setting, OpenCassette(j)
    PROVE  /\ cassette' \in [file : {"missing", "torn", "whole"},
                            answer : [Requests -> Answers \cup {None}]]
           /\ take' \in Takes
           /\ loaded' \in [Jobs -> [Requests -> Answers \cup {None}]]
           /\ source' \in [Jobs -> Takes]
           /\ \A k \in Jobs \ {j} : loaded'[k] = loaded[k] /\ source'[k] = source[k]
           /\ Mode(j) = "record" => /\ take'.job = j /\ take'.side = side[j] /\ ~take'.done
                                    /\ source' = source
           /\ Mode(j) = "replay" => /\ loaded'[j] = cassette.answer /\ source'[j] = take
                                    /\ take' = take /\ cassette' = cassette
           /\ Mode(j) = "live" => UNCHANGED <<cassette, take, loaded, source>>
<1>0. j \in Jobs /\ side[j] \in Sides /\ Mode(j) \in {"record", "replay", "live"}
  BY SettingFacts DEF TypeOK, Mode
<1>1. CASE Mode(j) = "record"
  <2>1. /\ cassette' = [file |-> "whole", answer |-> Nothing]
        /\ take' = [NoTake EXCEPT !.job = j, !.side = side[j], !.pure = TRUE]
        /\ loaded' = loaded /\ source' = source
    BY <1>1 DEF OpenCassette
  <2>2. take' = [job |-> j, side |-> side[j], pure |-> TRUE, done |-> FALSE, heard |-> Nothing]
    BY <2>1 DEF NoTake
  <2>3. take' \in Takes
    BY <1>0, <2>2, Blanks DEF Takes
  <2> QED
    <3>1. cassette' \in [file : {"missing", "torn", "whole"},
                        answer : [Requests -> Answers \cup {None}]]
      BY <2>1, Blanks
    <3>2. take'.job = j /\ take'.side = side[j] /\ ~take'.done
      BY <2>2
    <3>3. /\ loaded' \in [Jobs -> [Requests -> Answers \cup {None}]]
          /\ source' \in [Jobs -> Takes]
      BY <2>1 DEF TypeOK
    <3> QED
      BY <1>1, <2>1, <2>3, <3>1, <3>2, <3>3
<1>2. CASE Mode(j) = "replay"
  <2>1. /\ loaded' = [loaded EXCEPT ![j] = cassette.answer]
        /\ source' = [source EXCEPT ![j] = take]
        /\ UNCHANGED <<cassette, take>>
    BY <1>2 DEF OpenCassette
  <2> QED
    BY <1>0, <1>2, <2>1 DEF TypeOK
<1>3. CASE Mode(j) = "live"
  BY <1>0, <1>3 DEF OpenCassette, TypeOK
<1> QED
  BY <1>0, <1>1, <1>2, <1>3

LEMMA BeginSideStep ==
    ASSUME IInv, NEW j \in DOMAIN setting, BeginSide(j)
    PROVE  IInv'
<1> USE DEF BeginSide, Goes, recorded, sampled, delivered
<1>0. /\ TypeOK /\ JobInv /\ LineInv /\ TakeInv
      /\ j \in Jobs /\ DOMAIN setting \subseteq Jobs
  BY SettingFacts DEF IInv
<1>a. setting[j].samples \in 1 .. Samples
  BY <1>0, SettingFacts
<1>1. TypeOK'
  <2>1. pc' \in [Jobs -> Stages]
    BY <1>0 DEF TypeOK, Stages
  <2>2. left' \in [Jobs -> 0 .. Samples]
    BY <1>0, <1>a, Bounds DEF TypeOK
  <2>3. /\ tries' \in [Jobs -> Nat]
        /\ \A k \in Jobs : tries'[k] <= MaxAttempts \/ tries'[k] <= MaxPosts
    BY <1>0, Bounds DEF TypeOK
  <2>4. heard' \in [Jobs -> [Requests -> Answers \cup {None, Raised}]]
    BY <1>0, Blanks DEF TypeOK
  <2> QED
    BY <1>0, <2>1, <2>2, <2>3, <2>4, OpenFacts DEF TypeOK, Stages
<1>2. JobInv'
  <2>1. \A k \in Jobs \ {j} :
           /\ StageInv(k)'
           /\ k \in DOMAIN setting => (HeardInv(k) /\ MissInv(k) /\ EarnedInv(k) /\ SourceInv(k))'
    BY <1>0, JobFrame, OpenFacts, SMTT(60) DEF TypeOK
  <2>2. StageInv(j)'
    BY <1>0, <1>a, Bounds DEF JobInv, StageInv, TypeOK, Undecided
  <2>3. HeardInv(j)'
    BY <1>0 DEF JobInv, HeardInv, Mode, TypeOK, Nothing
  <2>4. MissInv(j)'
    BY <1>0 DEF JobInv, MissInv, Mode, Compared, Reported, NoMiss, OwnLines, Written, TypeOK, Delivering
  <2>5. EarnedInv(j)'
    BY <1>0 DEF JobInv, EarnedInv, Compared, Reported, Written, Shares, TypeOK, Delivering
  <2>6. SourceInv(j)'
    <3>1. CASE Mode(j) = "replay"
      BY <1>0, <3>1, OpenFacts DEF SourceInv, TakeInv, Mode
    <3>2. CASE Mode(j) # "replay"
      <4>1. source' = source
        BY <1>0, <3>2, OpenFacts, SettingFacts DEF Mode
      <4> QED
        BY <1>0, <3>2, <4>1 DEF JobInv, SourceInv, Mode
    <3> QED
      BY <3>1, <3>2
  <2> QED
    BY <1>0, <2>1, <2>2, <2>3, <2>4, <2>5, <2>6 DEF JobInv
<1>3. LineInv'
  BY <1>0 DEF LineInv
<1>4. TakeInv'
  <2>1. CASE Mode(j) = "record"
    <3>1. \A r \in Requests : heard'[j][r] = None
      BY <1>0 DEF TypeOK, Nothing
    <3> QED
      BY <1>0, <2>1, <3>1, OpenFacts DEF TakeInv, Mode
  <2>2. CASE Mode(j) # "record"
    <3>1. take' = take /\ cassette' = cassette
      BY <1>0, <2>2, OpenFacts, SettingFacts DEF Mode
    <3>2. take.pure => take.job # j
      BY <1>0, <2>2 DEF TakeInv
    <3> QED
      BY <1>0, <3>1, <3>2 DEF TakeInv, Mode, TypeOK
  <2> QED
    BY <2>1, <2>2
<1> QED
  BY <1>1, <1>2, <1>3, <1>4 DEF IInv

LEMMA RecordFailsFacts ==
    ASSUME TypeOK, RecordFails
    PROVE  /\ cassette' \in [file : {"missing", "torn", "whole"},
                            answer : [Requests -> Answers \cup {None}]]
           /\ take' \in Takes /\ ~take'.pure
  BY SpoilFacts DEF TypeOK, RecordFails

(* What is recorded of a call is what was heard, or the take is spoiled. *)
LEMMA CallProviderFacts ==
    ASSUME TypeOK, NEW j \in DOMAIN setting, NEW r \in Requests, CallProvider(j, r)
    PROVE  \E a \in Answers \cup {Raised} :
              /\ heard' = [heard EXCEPT ![j][r] = a]
              /\ cassette' \in [file : {"missing", "torn", "whole"},
                               answer : [Requests -> Answers \cup {None}]]
              /\ take' \in Takes
              /\ \/ ~take'.pure
                 \/ UNCHANGED <<cassette, take>> /\ (Mode(j) = "record" => a = Raised)
                 \/ /\ Mode(j) = "record" /\ Recording(j)
                    /\ take' = take
                    /\ \A q \in Requests :
                          cassette'.answer[q] = IF q = r THEN a ELSE cassette.answer[q]
<1>1. CASE /\ Hears(j, r, Raised)
           /\ UNCHANGED <<cassette, take>>
  BY <1>1 DEF Hears, TypeOK
<1>2. ASSUME NEW a \in Answers, Hears(j, r, a),
             Mode(j) = "record", Keep(r, a), Recording(j), UNCHANGED take
      PROVE  /\ heard' = [heard EXCEPT ![j][r] = a]
             /\ cassette' \in [file : {"missing", "torn", "whole"},
                              answer : [Requests -> Answers \cup {None}]]
             /\ take' \in Takes
             /\ \A q \in Requests :
                   cassette'.answer[q] = IF q = r THEN a ELSE cassette.answer[q]
  BY <1>2, KeepFacts DEF Hears, TypeOK
<1>3. ASSUME NEW a \in Answers, Hears(j, r, a), (Keep(r, a) /\ Spoil) \/ RecordFails
      PROVE  /\ heard' = [heard EXCEPT ![j][r] = a]
             /\ cassette' \in [file : {"missing", "torn", "whole"},
                              answer : [Requests -> Answers \cup {None}]]
             /\ take' \in Takes /\ ~take'.pure
  BY <1>3, KeepFacts, SpoilFacts, RecordFailsFacts DEF Hears
<1>4. ASSUME NEW a \in Answers, Hears(j, r, a), Mode(j) # "record", UNCHANGED <<cassette, take>>
      PROVE  /\ heard' = [heard EXCEPT ![j][r] = a]
             /\ cassette' \in [file : {"missing", "torn", "whole"},
                              answer : [Requests -> Answers \cup {None}]]
             /\ take' \in Takes
  BY <1>4 DEF Hears, TypeOK
<1>5. \/ /\ Hears(j, r, Raised)
         /\ UNCHANGED <<cassette, take>>
      \/ \E a \in Answers :
            /\ Hears(j, r, a)
            /\ \/ Mode(j) = "record" /\ Keep(r, a) /\ Recording(j) /\ UNCHANGED take
               \/ Keep(r, a) /\ Spoil
               \/ RecordFails
               \/ Mode(j) # "record" /\ UNCHANGED <<cassette, take>>
  BY DEF CallProvider
<1> QED
  BY <1>1, <1>2, <1>3, <1>4, <1>5

LEMMA CallProviderStep ==
    ASSUME IInv, NEW j \in DOMAIN setting, NEW r \in Requests, CallProvider(j, r)
    PROVE  IInv'
<1>0. /\ TypeOK /\ JobInv /\ LineInv /\ TakeInv
      /\ j \in Jobs /\ DOMAIN setting \subseteq Jobs
  BY SettingFacts DEF IInv
<1>a. PICK a \in Answers \cup {Raised} :
          /\ heard' = [heard EXCEPT ![j][r] = a]
          /\ cassette' \in [file : {"missing", "torn", "whole"},
                           answer : [Requests -> Answers \cup {None}]]
          /\ take' \in Takes
          /\ \/ ~take'.pure
             \/ UNCHANGED <<cassette, take>> /\ (Mode(j) = "record" => a = Raised)
             \/ /\ Mode(j) = "record" /\ Recording(j)
                /\ take' = take
                /\ \A q \in Requests :
                      cassette'.answer[q] = IF q = r THEN a ELSE cassette.answer[q]
  BY <1>0, CallProviderFacts
<1>b. /\ Mode(j) # "replay" /\ heard[j][r] = None
      /\ UNCHANGED <<setting, pc, side, left, tries, loaded, late, source, verdict, exit, why,
                     lines, listed, comments, posts, unknown>>
  BY DEF CallProvider, Calling, delivered
<1>d. /\ heard' \in [Jobs -> [Requests -> Answers \cup {None, Raised}]]
      /\ \A q \in Requests : heard'[j][q] = IF q = r THEN a ELSE heard[j][q]
      /\ \A k \in Jobs \ {j} : heard'[k] = heard[k]
  BY <1>0, <1>a DEF TypeOK
<1>1. TypeOK'
  BY <1>0, <1>a, <1>b, <1>d DEF TypeOK
<1>2. JobInv'
  <2>1. \A k \in Jobs \ {j} :
           /\ StageInv(k)'
           /\ k \in DOMAIN setting => (HeardInv(k) /\ MissInv(k) /\ EarnedInv(k) /\ SourceInv(k))'
    BY <1>0, <1>b, <1>d, JobFrame DEF TypeOK
  <2>2. StageInv(j)'
    BY <1>0, <1>b, <1>d, Bounds DEF JobInv, StageInv, TypeOK, Undecided
  <2>3. HeardInv(j)'
    BY <1>0, <1>b, <1>d DEF JobInv, HeardInv, Mode, TypeOK, Nothing
  <2>4. MissInv(j)'
    BY <1>0, <1>b, <1>d DEF JobInv, MissInv, Mode, Compared, Reported, NoMiss, OwnLines, Written, TypeOK, Delivering
  <2>5. EarnedInv(j)'
    BY <1>0, <1>b, <1>d DEF JobInv, EarnedInv, Compared, Reported, Written, Shares, TypeOK, Delivering
  <2>6. SourceInv(j)'
    BY <1>0, <1>b, <1>d DEF JobInv, SourceInv, Mode, TypeOK, NoTake
  <2> QED
    BY <1>0, <1>b, <1>d, <2>1, <2>2, <2>3, <2>4, <2>5, <2>6 DEF JobInv
<1>3. LineInv'
  BY <1>0, <1>b DEF LineInv
<1>4. TakeInv'
  <2>1. CASE ~take'.pure
    BY <2>1 DEF TakeInv
  <2>2. CASE UNCHANGED <<cassette, take>> /\ (Mode(j) = "record" => a = Raised)
    <3>1. take.pure /\ take.job = j => Mode(j) = "record"
      BY <1>0 DEF TakeInv
    <3> QED
      BY <1>0, <1>b, <1>d, <2>2, <3>1 DEF TakeInv, Mode
  <2>3. CASE /\ Mode(j) = "record" /\ Recording(j)
             /\ take' = take
             /\ \A q \in Requests :
                   cassette'.answer[q] = IF q = r THEN a ELSE cassette.answer[q]
    <3>1. take.job = j /\ take.side = side[j] /\ pc[j] = "sampling"
      BY <2>3 DEF Recording, CallProvider, Calling
    <3> QED
      BY <1>0, <1>b, <1>d, <2>3, <3>1 DEF TakeInv, Mode
  <2> QED
    BY <1>a, <2>1, <2>2, <2>3
<1> QED
  BY <1>1, <1>2, <1>3, <1>4 DEF IInv

LEMMA LookUpStep ==
    ASSUME IInv, NEW j \in DOMAIN setting, NEW r \in Requests, LookUp(j, r)
    PROVE  IInv'
<1> USE DEF LookUp, Hears, Calling, recorded, sampled, delivered
<1>0. /\ TypeOK /\ JobInv /\ LineInv /\ TakeInv
      /\ j \in Jobs /\ DOMAIN setting \subseteq Jobs
  BY SettingFacts DEF IInv
<1>a. PICK a \in Answers \cup {None, Raised} :
          /\ heard' = [heard EXCEPT ![j][r] = a]
          /\ loaded[j][r] \in {None, a}
  <2>1. CASE loaded[j][r] # None /\ heard' = [heard EXCEPT ![j][r] = loaded[j][r]]
    <3>1. loaded[j][r] \in Answers \cup {None, Raised}
      BY <1>0 DEF TypeOK
    <3> QED
      BY <2>1, <3>1
  <2>2. CASE loaded[j][r] = None /\ heard' = [heard EXCEPT ![j][r] = Raised]
    BY <2>2
  <2> QED
    BY <2>1, <2>2
<1>b. /\ heard' \in [Jobs -> [Requests -> Answers \cup {None, Raised}]]
      /\ \A q \in Requests : heard'[j][q] = IF q = r THEN a ELSE heard[j][q]
      /\ \A k \in Jobs \ {j} : heard'[k] = heard[k]
  BY <1>0, <1>a DEF TypeOK
<1>1. TypeOK'
  BY <1>0, <1>b DEF TypeOK
<1>2. JobInv'
  <2>1. \A k \in Jobs \ {j} :
           /\ StageInv(k)'
           /\ k \in DOMAIN setting => (HeardInv(k) /\ MissInv(k) /\ EarnedInv(k) /\ SourceInv(k))'
    BY <1>0, JobFrame DEF TypeOK
  <2>2. StageInv(j)'
    BY <1>0, Bounds DEF JobInv, StageInv, TypeOK, Undecided
  <2>3. HeardInv(j)'
    BY <1>0, <1>a, <1>b DEF JobInv, HeardInv, Mode
  <2>4. MissInv(j)'
    BY <1>0 DEF JobInv, MissInv, Mode, Compared, Reported, NoMiss, OwnLines, Written, TypeOK, Delivering
  <2>5. EarnedInv(j)'
    BY <1>0 DEF JobInv, EarnedInv, Compared, Reported, Written, Shares, TypeOK, Delivering
  <2>6. SourceInv(j)'
    BY <1>0, ZenonT(60) DEF JobInv, SourceInv, Mode, TypeOK, NoTake
  <2> QED
    BY <1>0, <2>1, <2>2, <2>3, <2>4, <2>5, <2>6 DEF JobInv
<1>3. LineInv'
  BY <1>0 DEF LineInv
<1>4. TakeInv'
  BY <1>0 DEF TakeInv, Mode, TypeOK, Nothing
<1> QED
  BY <1>1, <1>2, <1>3, <1>4 DEF IInv

(* A line that is written belongs to the job that writes it. *)
LEMMA WriteFacts ==
    ASSUME TypeOK, NEW j \in DOMAIN setting, left[j] # 0,
           NEW kind \in {"ok", "failed", "miss"}, WriteLine(j, kind)
    PROVE  /\ lines' \in [Dirs -> [Sides -> SUBSET Lines]]
           /\ \A d \in Dirs, s \in Sides :
                 /\ lines[d][s] \subseteq lines'[d][s]
                 /\ \A l \in lines'[d][s] : 
                       l \in lines[d][s] \/ (l.job = j /\ d = setting[j].dir /\ s = side[j])
<1> DEFINE l == [job |-> j, n |-> left[j], kind |-> kind]
           d == setting[j].dir
           s == side[j]
<1>1. j \in Jobs /\ d \in Dirs /\ s \in Sides /\ left[j] \in 1 .. Samples
  BY SettingFacts, Bounds, SMTT(30) DEF TypeOK
<1>2. l \in Lines /\ l.job = j
  BY <1>1 DEF Lines
<1>3. \/ lines' = lines
      \/ lines' = [lines EXCEPT ![d][s] = lines[d][s] \cup {l}]
  BY DEF WriteLine
<1> HIDE DEF l, d, s
<1>4. lines \in [Dirs -> [Sides -> SUBSET Lines]]
  BY DEF TypeOK
<1>5. ASSUME lines' = [lines EXCEPT ![d][s] = lines[d][s] \cup {l}]
      PROVE  /\ lines' \in [Dirs -> [Sides -> SUBSET Lines]]
             /\ \A e \in Dirs, t \in Sides :
                   lines'[e][t] = IF e = d /\ t = s THEN lines[d][s] \cup {l} ELSE lines[e][t]
  BY <1>1, <1>2, <1>4, <1>5
<1> QED
  BY <1>1, <1>2, <1>3, <1>4, <1>5 DEF d, s

(* What other jobs think of their lines, and a job of its other side.      *)
LEMMA LinesGrow ==
    ASSUME TypeOK, LineInv, NEW j \in DOMAIN setting, setting' = setting,
           \A d \in Dirs, s \in Sides :
              /\ lines[d][s] \subseteq lines'[d][s]
              /\ \A l \in lines'[d][s] : 
                    l \in lines[d][s] \/ (l.job = j /\ d = setting[j].dir /\ s = side[j])
    PROVE  /\ LineInv'
           /\ \A k \in DOMAIN setting, s \in Sides :
                 /\ k # j \/ s # side[j] => (NoMiss(k, s)' <=> NoMiss(k, s))
                 /\ Written(k, s) \subseteq Written(k, s)'
                 /\ k # j /\ ~Shares(k) => Written(k, s)' = Written(k, s)
<1>1. LineInv'
  BY DEF LineInv
<1>2. ASSUME NEW k \in DOMAIN setting, NEW s \in Sides
      PROVE  /\ Written(k, s) \subseteq Written(k, s)'
             /\ k # j /\ ~Shares(k) => Written(k, s)' = Written(k, s)
             /\ k # j \/ s # side[j] => (NoMiss(k, s)' <=> NoMiss(k, s))
  <2>1. setting[k].dir \in Dirs
    BY SettingFacts
  <2>2. Written(k, s) \subseteq Written(k, s)'
    BY <2>1 DEF Written
  <2>3. k # j /\ ~Shares(k) => Written(k, s)' = Written(k, s)
    <3> SUFFICES ASSUME k # j, ~Shares(k) PROVE Written(k, s)' \subseteq Written(k, s)
      BY <2>2
    <3>1. setting[j].dir # setting[k].dir
      BY DEF Shares
    <3> QED
      BY <2>1, <3>1 DEF Written
  <2>4. k # j \/ s # side[j] => OwnLines(k, s)' = OwnLines(k, s)
    BY <2>1, <2>2 DEF Written, OwnLines
  <2> QED
    BY <2>2, <2>3, <2>4 DEF NoMiss
<1> QED
  BY <1>1, <1>2

(* A job whose lines others add to. *)
LEMMA SharingFrame ==
    ASSUME JobInv, NEW k \in DOMAIN setting, k \in Jobs,
           setting' = setting,
           \A s \in Sides :
              /\ NoMiss(k, s)' <=> NoMiss(k, s)
              /\ Written(k, s) \subseteq Written(k, s)'
              /\ ~Shares(k) => Written(k, s)' = Written(k, s),
           pc'[k] = pc[k], side'[k] = side[k], left'[k] = left[k], tries'[k] = tries[k],
           heard'[k] = heard[k], loaded'[k] = loaded[k], source'[k] = source[k],
           verdict'[k] = verdict[k], why'[k] = why[k],
           posts'[k] = posts[k], unknown'[k] = unknown[k]
    PROVE  (StageInv(k) /\ HeardInv(k) /\ MissInv(k) /\ EarnedInv(k) /\ SourceInv(k))'
<1>1. StageInv(k)'
  BY DEF JobInv, StageInv
<1>2. HeardInv(k)'
  BY DEF JobInv, HeardInv, Mode
<1>3. MissInv(k)'
  BY DEF JobInv, MissInv, Mode, Compared, Reported, Sides
<1>4. EarnedInv(k)'
  <2>1. Shares(k)' = Shares(k)
    BY DEF Shares
  <2>2. ASSUME NEW s \in Sides, Compared(k), setting[k].inputs # "none"
        PROVE  Written(k, s)' # {} /\ (~Shares(k) => Good(Written(k, s)'))
    BY <2>2 DEF JobInv, EarnedInv
  <2> QED
    BY <2>1, <2>2 DEF EarnedInv, Compared, Reported, Good
<1>5. SourceInv(k)'
  BY DEF JobInv, SourceInv, Mode
<1> QED
  BY <1>1, <1>2, <1>3, <1>4, <1>5

(* The end of a sample, whatever it was: its line is written, and the last *)
(* one of a recording closes its take.                                     *)
LEMMA EndSampleStep ==
    ASSUME IInv, NEW j \in DOMAIN setting, NEW kind \in {"ok", "failed", "miss"},
           NEW running \in SUBSET Sides, pc[j] = "sampling",
           kind = "ok" => \A r \in Calls[Code(j)] : heard[j][r] # None,
           EndSample(j, kind, running)
    PROVE  IInv'
<1> USE DEF EndSample, Goes, delivered
<1>0. /\ TypeOK /\ JobInv /\ LineInv /\ TakeInv
      /\ j \in Jobs /\ DOMAIN setting \subseteq Jobs /\ side[j] \in Sides
  BY SettingFacts DEF IInv, TypeOK
<1>a. /\ lines' \in [Dirs -> [Sides -> SUBSET Lines]]
      /\ \A d \in Dirs, s \in Sides :
            /\ lines[d][s] \subseteq lines'[d][s]
            /\ \A l \in lines'[d][s] :
                  l \in lines[d][s] \/ (l.job = j /\ d = setting[j].dir /\ s = side[j])
  <2>1. left[j] # 0
    BY <1>0 DEF JobInv, StageInv
  <2> QED
    BY <1>0, <2>1, WriteFacts
<1>b. /\ LineInv'
      /\ \A k \in DOMAIN setting, s \in Sides :
            /\ k # j \/ s # side[j] => (NoMiss(k, s)' <=> NoMiss(k, s))
            /\ Written(k, s) \subseteq Written(k, s)'
            /\ k # j /\ ~Shares(k) => Written(k, s)' = Written(k, s)
  <2>1. setting' = setting
    OBVIOUS
  <2> HIDE DEF EndSample
  <2> QED
    BY <1>0, <1>a, <2>1, LinesGrow
<1> HIDE DEF EndSample
<1>c. /\ setting' = setting /\ side' = side /\ verdict' = verdict /\ exit' = exit /\ why' = why
      /\ cassette' = cassette /\ UNCHANGED delivered
      /\ left' = [left EXCEPT ![j] = left[j] - 1]
      /\ tries' = [tries EXCEPT ![j] = 1]
      /\ heard' = [heard EXCEPT ![j] = Nothing]
      /\ \/ /\ left[j] = 1 /\ CloseTake(j, kind)
            /\ pc' = [pc EXCEPT ![j] = "check"]
            /\ late' = [late EXCEPT ![j] = running \ {"baseline"}]
            /\ loaded' = [loaded EXCEPT ![j] = Nothing]
            /\ source' = [source EXCEPT ![j] = NoTake]
         \/ /\ left[j] # 1 /\ UNCHANGED <<pc, take, loaded, source>>
            /\ late' = [late EXCEPT ![j] = running]
  BY DEF EndSample
<1>d. take' \in Takes
  <2>1. CASE left[j] = 1 /\ Mode(j) = "record" /\ Recording(j)
    <3>1. take' = [take EXCEPT !.done = kind = "ok", !.heard = heard[j]]
      BY <1>c, <2>1 DEF CloseTake
    <3>2. heard[j] \in [Requests -> Answers \cup {None, Raised}]
      BY <1>0 DEF TypeOK
    <3>3. /\ take \in Takes
          /\ take = [job |-> take.job, side |-> take.side, pure |-> take.pure,
                     done |-> take.done, heard |-> take.heard]
      BY <1>0 DEF TypeOK, Takes
    <3>4. take' = [job |-> take.job, side |-> take.side, pure |-> take.pure,
                   done |-> kind = "ok", heard |-> heard[j]]
      BY <3>1, <3>3
    <3> QED
      BY <3>2, <3>3, <3>4 DEF Takes
  <2>2. CASE ~(left[j] = 1 /\ Mode(j) = "record" /\ Recording(j))
    BY <1>0, <1>c, <2>2 DEF CloseTake, TypeOK
  <2> QED
    BY <2>1, <2>2
<1>1. TypeOK'
  <2>1. /\ pc' \in [Jobs -> Stages]
        /\ late' \in [Jobs -> SUBSET Sides]
        /\ loaded' \in [Jobs -> [Requests -> Answers \cup {None}]]
        /\ source' \in [Jobs -> Takes]
    <3>1. /\ pc \in [Jobs -> Stages] /\ "check" \in Stages
          /\ late \in [Jobs -> SUBSET Sides]
          /\ loaded \in [Jobs -> [Requests -> Answers \cup {None}]]
          /\ source \in [Jobs -> Takes]
      BY <1>0 DEF TypeOK, Stages
    <3>2. pc' \in [Jobs -> Stages]
      BY <1>c, <3>1
    <3>3. late' \in [Jobs -> SUBSET Sides]
      BY <1>c, <3>1
    <3>4. loaded' \in [Jobs -> [Requests -> Answers \cup {None}]]
      BY <1>c, <3>1, Blanks
    <3>5. source' \in [Jobs -> Takes]
      BY <1>c, <3>1, Blanks
    <3> QED
      BY <3>2, <3>3, <3>4, <3>5
  <2>2. left' \in [Jobs -> 0 .. Samples]
    BY <1>0, <1>c, Bounds DEF TypeOK, JobInv, StageInv
  <2>3. /\ tries' \in [Jobs -> Nat]
        /\ \A k \in Jobs : tries'[k] <= MaxAttempts \/ tries'[k] <= MaxPosts
    BY <1>0, <1>c, Bounds DEF TypeOK
  <2>4. heard' \in [Jobs -> [Requests -> Answers \cup {None, Raised}]]
    BY <1>0, <1>c, Blanks DEF TypeOK
  <2> QED
    BY <1>0, <1>a, <1>c, <1>d, <2>1, <2>2, <2>3, <2>4 DEF TypeOK, Stages
<1>2. JobInv'
  <2>1. ASSUME NEW k \in Jobs \ {j}
        PROVE  /\ StageInv(k)'
               /\ k \in DOMAIN setting =>
                     (HeardInv(k) /\ MissInv(k) /\ EarnedInv(k) /\ SourceInv(k))'
    <3>1. /\ pc'[k] = pc[k] /\ left'[k] = left[k] /\ tries'[k] = tries[k] /\ heard'[k] = heard[k]
          /\ loaded'[k] = loaded[k] /\ source'[k] = source[k]
      BY <1>0, <1>c DEF TypeOK
    <3>2. StageInv(k)'
      BY <1>0, <1>c, <3>1 DEF JobInv, StageInv
    <3> QED
      BY <1>0, <1>b, <1>c, <3>1, <3>2, SharingFrame
  <2>2. StageInv(j)'
    BY <1>0, <1>c, Bounds DEF JobInv, StageInv, TypeOK, Undecided
  <2>3. HeardInv(j)'
    BY <1>0, <1>c, Blanks DEF HeardInv, Mode, TypeOK, Nothing
  <2>4. MissInv(j)'
    <3>1. pc'[j] \in {"sampling", "check"}
      BY <1>0, <1>c DEF TypeOK
    <3> QED
      BY <1>0, <1>b, <1>c, <3>1 DEF JobInv, MissInv, Mode, Compared, Reported, Delivering, Sides
  <2>5. EarnedInv(j)'
    BY <1>0, <1>c DEF EarnedInv, Compared, Reported, TypeOK, Delivering
  <2>6. SourceInv(j)'
    <3>1. CASE left[j] = 1
      <4>1. source'[j] = NoTake /\ ~NoTake.pure
        BY <1>0, <1>c, <3>1 DEF TypeOK, NoTake
      <4> QED
        BY <4>1 DEF SourceInv
    <3>2. CASE left[j] # 1
      <4>1. UNCHANGED <<setting, pc, loaded, source>>
        BY <1>c, <3>2
      <4> QED
        BY <1>0, <4>1 DEF JobInv, SourceInv, Mode
    <3> QED
      BY <3>1, <3>2
  <2> QED
    BY <1>0, <1>c, <2>1, <2>2, <2>3, <2>4, <2>5, <2>6 DEF JobInv
<1>4. TakeInv'
  <2>1. CASE left[j] = 1 /\ Mode(j) = "record" /\ Recording(j)
    <3>1. take' = [take EXCEPT !.done = kind = "ok", !.heard = heard[j]]
      BY <1>c, <2>1 DEF CloseTake
    <3>2. /\ take.job = j /\ take.side = side[j]
          /\ pc'[j] = "check"
      BY <1>0, <1>c, <2>1 DEF Recording, TypeOK
    <3>3. /\ take'.job = j /\ take'.side = side[j] /\ take'.pure = take.pure
          /\ take'.done <=> kind = "ok"
          /\ take'.heard = heard[j]
      BY <1>0, <3>1, <3>2 DEF TypeOK, Takes
    <3>4. Calls[setting[j][side[j]]] \subseteq Requests
      BY <1>0, CodeFacts
    <3>5. take.pure => \A r \in Requests : heard[j][r] \in {None, Raised, cassette.answer[r]}
      BY <1>0, <3>2 DEF TakeInv
    <3> QED
      BY <1>0, <1>c, <2>1, <3>2, <3>3, <3>4, <3>5 DEF TakeInv, Mode, Code
  <2>2. CASE ~(left[j] = 1 /\ Mode(j) = "record" /\ Recording(j))
    <3>1. take' = take
      BY <1>c, <2>2 DEF CloseTake
    <3>2. \A r \in Requests : heard'[j][r] = None
      BY <1>0, <1>c DEF TypeOK, Nothing
    <3>3. \A k \in Jobs \ {j} : pc'[k] = pc[k] /\ heard'[k] = heard[k]
      BY <1>0, <1>c DEF TypeOK
    <3>4. pc'[j] = "sampling" => pc[j] = "sampling"
      OBVIOUS
    <3> QED
      BY <1>0, <1>c, <3>1, <3>2, <3>3, <3>4 DEF TakeInv, Mode
  <2> QED
    BY <2>1, <2>2
<1> QED
  BY <1>1, <1>2, <1>b, <1>4 DEF IInv

(* Another attempt at the sample. *)
LEMMA RetryStep ==
    ASSUME IInv, NEW j \in DOMAIN setting, NEW running \in SUBSET Sides,
           pc[j] = "sampling", TriesLeft(j),
           tries' = [tries EXCEPT ![j] = @ + 1],
           heard' = [heard EXCEPT ![j] = Nothing],
           late' = [late EXCEPT ![j] = running],
           UNCHANGED <<setting, pc, side, left, loaded, source, verdict, exit, why,
                       recorded, delivered>>
    PROVE  IInv'
<1> USE DEF recorded, delivered
<1>0. /\ TypeOK /\ JobInv /\ LineInv /\ TakeInv
      /\ j \in Jobs /\ DOMAIN setting \subseteq Jobs
  BY SettingFacts DEF IInv
<1>a. tries[j] \in Nat /\ tries[j] + 1 \in 1 .. MaxAttempts
  BY <1>0, Bounds DEF JobInv, StageInv, TriesLeft
<1>1. TypeOK'
  <2>1. heard' \in [Jobs -> [Requests -> Answers \cup {None, Raised}]]
    BY <1>0, Blanks DEF TypeOK
  <2>2. /\ tries' \in [Jobs -> Nat]
        /\ \A k \in Jobs : tries'[k] <= MaxAttempts \/ tries'[k] <= MaxPosts
    BY <1>0, <1>a, Bounds DEF TypeOK
  <2> QED
    BY <1>0, <2>1, <2>2 DEF TypeOK
<1>2. JobInv'
  <2>1. \A k \in Jobs \ {j} :
           /\ StageInv(k)'
           /\ k \in DOMAIN setting => (HeardInv(k) /\ MissInv(k) /\ EarnedInv(k) /\ SourceInv(k))'
    BY <1>0, JobFrame DEF TypeOK
  <2>2. StageInv(j)'
    BY <1>0, <1>a DEF JobInv, StageInv, TypeOK, Undecided
  <2>3. HeardInv(j)'
    BY <1>0, Blanks DEF HeardInv, Mode, TypeOK, Nothing
  <2>4. MissInv(j)' /\ EarnedInv(j)' /\ SourceInv(j)'
    BY <1>0 DEF JobInv, MissInv, EarnedInv, SourceInv, Mode, Compared, Reported, NoMiss, OwnLines,
                Written, Shares
  <2> QED
    BY <1>0, <2>1, <2>2, <2>3, <2>4 DEF JobInv
<1>3. LineInv'
  BY <1>0 DEF LineInv
<1>4. TakeInv'
  <2>1. \A k \in Jobs, r \in Requests : heard'[k][r] \in {None, heard[k][r]}
    BY <1>0 DEF TypeOK, Nothing
  <2> QED
    BY <1>0, <2>1 DEF TakeInv, Mode
<1> QED
  BY <1>1, <1>2, <1>3, <1>4 DEF IInv

LEMMA FallBackStep ==
    ASSUME IInv, NEW j \in DOMAIN setting, NEW kind \in {"failed", "miss"},
           NEW running \in SUBSET Sides, FallBack(j, kind, running)
    PROVE  IInv'
<1>1. CASE TriesLeft(j)
  BY <1>1, RetryStep DEF FallBack
<1>2. CASE ~TriesLeft(j)
  BY <1>2, EndSampleStep DEF FallBack
<1> QED
  BY <1>1, <1>2

LEMMA LateCallStep ==
    ASSUME IInv, NEW j \in DOMAIN setting, NEW s \in Sides, NEW r \in Requests,
           LateCall(j, s, r)
    PROVE  IInv'
<1>0. /\ TypeOK /\ JobInv /\ LineInv /\ TakeInv
      /\ DOMAIN setting \subseteq Jobs
  BY SettingFacts DEF IInv
<1>1. PICK a \in Answers : Keep(r, a)
  BY DEF LateCall
<1>2. /\ cassette' \in [file : {"missing", "torn", "whole"},
                       answer : [Requests -> Answers \cup {None}]]
      /\ take' \in Takes /\ ~take'.pure
  BY <1>0, <1>1, KeepFacts, SpoilFacts DEF LateCall
<1>3. UNCHANGED <<setting, pc, verdict, exit, why, side, left, tries, heard, loaded, late, source,
                  lines, listed, comments, posts, unknown>>
  BY DEF LateCall, sampled, delivered
<1>4. TypeOK'
  BY <1>0, <1>2, <1>3 DEF TypeOK
<1>5. JobInv'
  BY <1>0, <1>3, JobFrame DEF JobInv
<1>6. LineInv' /\ TakeInv'
  BY <1>0, <1>2, <1>3 DEF LineInv, TakeInv
<1> QED
  BY <1>4, <1>5, <1>6 DEF IInv

LEMMA OtherCommentsStep ==
    ASSUME IInv, OtherComments
    PROVE  IInv'
<1> DEFINE c == [by |-> Other, marked |-> FALSE]
<1>0. TypeOK /\ JobInv /\ LineInv /\ TakeInv
  BY DEF IInv
<1>1. UNCHANGED <<setting, pc, verdict, exit, why, side, left, tries, heard, loaded, late, source,
                  cassette, take, lines, listed, posts, unknown>>
  BY DEF OtherComments, sampled, recorded
<1>2. comments' \in Seq(Comments) /\ Len(comments') = Len(comments) + 1
  <2>1. c \in Comments
    BY DEF Comments
  <2> QED
    BY <1>0, <2>1, AppendFacts DEF OtherComments
<1>3. TypeOK'
  <2>1. listed' \in [Jobs -> 0 .. Len(comments')]
    BY <1>0, <1>1, <1>2, CommentFacts, ListedGrows
  <2> QED
    BY <1>0, <1>1, <1>2, <2>1 DEF TypeOK, Comments
<1>4. JobInv'
  BY <1>0, <1>1, SettingFacts, JobFrame DEF JobInv
<1>5. LineInv' /\ TakeInv'
  BY <1>0, <1>1 DEF LineInv, TakeInv, Mode
<1> QED
  BY <1>3, <1>4, <1>5 DEF IInv

-----------------------------------------------------------------------------
LEMMA InitStep == Init => IInv
<1> SUFFICES ASSUME Init PROVE IInv
  OBVIOUS
<1> USE DEF Init
<1>0. DOMAIN setting \subseteq Jobs
  BY SettingAssumption
<1>1. TypeOK
  <2>1. comments \in Seq([by : Jobs \cup {Other}, marked : BOOLEAN])
    BY EmptySeq
  <2>2. cassette \in [file : {"missing", "torn", "whole"},
                     answer : [Requests -> Answers \cup {None}]]
    BY Blanks
  <2>3. Len(comments) = 0 /\ 0 \in 0 .. 0 /\ 0 \in 0 .. Samples /\ 0 \in 0 .. MaxPosts
    BY Bounds
  <2>4. /\ heard \in [Jobs -> [Requests -> Answers \cup {None, Raised}]]
        /\ loaded \in [Jobs -> [Requests -> Answers \cup {None}]]
        /\ take \in Takes /\ source \in [Jobs -> Takes]
    BY Blanks
  <2> HIDE DEF Nothing, NoTake
  <2> QED
    BY <2>1, <2>2, <2>3, <2>4, Bounds DEF TypeOK, Sides
<1>2. \A j \in Jobs : StageInv(j)
  BY DEF StageInv, Undecided
<1>3. \A j \in DOMAIN setting : HeardInv(j) /\ SourceInv(j)
  BY <1>0, Blanks DEF HeardInv, SourceInv, NoTake, Nothing
<1>4. \A j \in DOMAIN setting : MissInv(j) /\ EarnedInv(j)
  <2> SUFFICES ASSUME NEW j \in DOMAIN setting PROVE MissInv(j) /\ EarnedInv(j)
    OBVIOUS
  <2>1. setting[j].dir \in Dirs /\ j \in Jobs
    BY <1>1, SettingFacts
  <2>2. \A s \in Sides : Written(j, s) = {}
    BY <2>1 DEF Written
  <2>3. pc[j] = "idle" /\ ~Compared(j)
    BY <2>1 DEF Compared, Reported, Delivering
  <2> QED
    BY <2>2, <2>3 DEF MissInv, EarnedInv, NoMiss, OwnLines, Sides
<1>5. LineInv /\ TakeInv
  BY DEF LineInv, TakeInv, NoTake
<1> QED
  BY <1>1, <1>2, <1>3, <1>4, <1>5 DEF IInv, JobInv

(* Each end of the command is one of the ends EndStep speaks of. *)
LEMMA EndsStep ==
    ASSUME IInv, NEW j \in DOMAIN setting,
           \/ CannotBegin(j) \/ SamplingAborts(j) \/ RefuseMiss(j) \/ RefuseQuality(j)
           \/ PostGarbled(j) \/ Finish(j)
    PROVE  IInv'
<1>0. j \in Jobs
  BY SettingFacts DEF IInv
<1>2. CASE CannotBegin(j)
  BY <1>2, EndStep DEF CannotBegin, Running
<1>3. CASE SamplingAborts(j)
  BY <1>3, EndStep DEF SamplingAborts, Running
<1>4. CASE RefuseMiss(j)
  BY <1>4, EndStep DEF RefuseMiss, Running
<1>5. CASE RefuseQuality(j)
  BY <1>5, EndStep DEF RefuseQuality, Running
<1>6. CASE PostGarbled(j)
  BY <1>6, EndStep DEF PostGarbled, Running
<1>7. CASE Finish(j)
  <2>1. ExitCode(j) \in {0, 1}
    BY DEF ExitCode
  <2> QED
    BY <1>7, <2>1, EndStep DEF Finish, Running
<1> QED
  BY <1>2, <1>3, <1>4, <1>5, <1>6, <1>7

LEMMA JobStep ==
    ASSUME IInv, NEW j \in DOMAIN setting, Start(j) \/ Step(j) \/ Killed(j)
    PROVE  IInv'
<1>0. j \in Jobs /\ late[j] \in SUBSET Sides /\ side[j] \in Sides
  BY SettingFacts DEF IInv, TypeOK
<1>1. CASE Start(j) \/ Killed(j)
  BY <1>1, StartStep, KillStep
<1>2. CASE BeginSide(j) \/ \E r \in Requests : CallProvider(j, r) \/ LookUp(j, r)
  BY <1>2, BeginSideStep, CallProviderStep, LookUpStep
<1>3. CASE SampleEnds(j)
  BY <1>0, <1>3, EndSampleStep DEF SampleEnds
<1>4. CASE AttemptFails(j) \/ AttemptMisses(j)
  BY <1>0, <1>4, FallBackStep DEF AttemptFails, AttemptMisses
<1>5. CASE AttemptTimesOut(j)
  <2> DEFINE running == late[j] \cup (IF Mode(j) = "record" THEN {side[j]} ELSE {})
  <2>1. running \in SUBSET Sides
    BY <1>0
  <2>2. FallBack(j, "failed", running)
    BY <1>5 DEF AttemptTimesOut
  <2> HIDE DEF running
  <2> QED
    BY <2>1, <2>2, FallBackStep
<1>6. CASE CannotBegin(j) \/ SamplingAborts(j) \/ RefuseMiss(j) \/ RefuseQuality(j)
           \/ PostGarbled(j) \/ Finish(j)
  BY <1>6, EndsStep
<1>7. CASE CheckSide(j) \/ Validate(j)
  BY <1>7, CheckSideStep, ValidateStep
<1>8. CASE \/ PostConfirmed(j) \/ PostRefused(j) \/ PostFails(j) \/ ListComments(j)
           \/ GitHubFails(j) \/ WriteComment(j)
  BY <1>8, PostConfirmedStep, PostRefusedStep, PostFailsStep, ListCommentsStep, GitHubFailsStep,
     WriteCommentStep
<1> QED
  BY <1>1, <1>2, <1>3, <1>4, <1>5, <1>6, <1>7, <1>8 DEF Step, Sample, Decide, Deliver

LEMMA StepKeeps == IInv /\ [Next]_vars => IInv'
<1> SUFFICES ASSUME IInv, [Next]_vars PROVE IInv'
  OBVIOUS
<1>1. CASE Next
  BY <1>1, JobStep, LateCallStep, OtherCommentsStep DEF Next
<1>2. CASE UNCHANGED vars
  <2>0. TypeOK /\ JobInv /\ LineInv /\ TakeInv
    BY DEF IInv
  <2>1. UNCHANGED <<setting, pc, verdict, exit, why, side, left, tries, heard, loaded, late, source,
                    cassette, take, lines, listed, comments, posts, unknown>>
    BY <1>2 DEF vars, sampled, recorded, delivered
  <2>2. TypeOK'
    BY <2>0, <2>1 DEF TypeOK
  <2>3. JobInv'
    BY <2>0, <2>1, SettingFacts, JobFrame DEF JobInv
  <2>4. LineInv' /\ TakeInv'
    BY <2>0, <2>1 DEF LineInv, TakeInv, Mode
  <2> QED
    BY <2>2, <2>3, <2>4 DEF IInv
<1> QED
  BY <1>1, <1>2

(* Every reachable state of a gate satisfies the inductive invariant: what *)
(* the stand of each job implies about cassette, lines, posts and comments.*)
THEOREM Inductive == Spec => []IInv
  BY InitStep, StepKeeps, PTL DEF Spec

(* Every reachable state is well typed; no sample or post is tried more    *)
(* often than allowed, and every count of comments is of real ones.        *)
THEOREM TypeCorrect == Spec => []TypeOK
<1>1. IInv => TypeOK
  BY DEF IInv
<1> QED
  BY <1>1, Inductive, PTL

(* A recording that nobody but its own last attempts added to repeats      *)
(* itself (cassette.py): whatever failed and was retried before, and       *)
(* whatever earlier samples heard, the same code finds every call that the *)
(* last recorded sample had an answer for, and hears that answer.          *)
THEOREM Replays == Spec => []ReplayRepeatsRecording
<1>1. ASSUME IInv PROVE ReplayRepeatsRecording
  <2> SUFFICES ASSUME NEW j \in DOMAIN setting,
                      ReplaysTake(j, source[j]), source[j].pure,
                      NEW r \in Calls[Code(j)], source[j].heard[r] # Raised
               PROVE  loaded[j][r] # None /\ heard[j][r] \in {None, source[j].heard[r]}
    BY DEF ReplayRepeatsRecording
  <2>1. side[j] \in Sides
    BY <1>1, SettingFacts DEF IInv, TypeOK
  <2>2. r \in Requests
    BY <1>1, <2>1, CodeFacts DEF IInv, Code
  <2>3. source[j].heard[r] # None /\ loaded[j][r] = source[j].heard[r]
    BY <1>1 DEF IInv, JobInv, SourceInv, ReplaysTake
  <2>4. heard[j][r] = None \/ loaded[j][r] \in {None, heard[j][r]}
    BY <1>1, <2>2 DEF IInv, JobInv, HeardInv, ReplaysTake
  <2> QED
    BY <2>3, <2>4
<1> QED
  BY <1>1, Inductive, PTL

(* A miss that the runner did not handle never ends in a verdict           *)
(* (compare.py): each side is searched before the next step.               *)
THEOREM MissStops == Spec => []MissStopsGate
<1>1. IInv => MissStopsGate
  BY DEF IInv, JobInv, MissInv, MissStopsGate, Compared, NoMiss, Sides
<1> QED
  BY <1>1, Inductive, PTL

(* A verdict rests on two sides that are not empty and not mostly failed,  *)
(* of the gate's own samples when nobody shares its directory.             *)
THEOREM Earned == Spec => []ExitIsEarned
<1>1. ASSUME IInv PROVE ExitIsEarned
  <2> SUFFICES ASSUME NEW j \in DOMAIN setting, Reported(j), setting[j].inputs # "none",
                      NEW s \in Sides
               PROVE  Written(j, s) # {} /\ (~Shares(j) => Good(OwnLines(j, s)))
    BY DEF ExitIsEarned
  <2>1. Written(j, s) # {} /\ (~Shares(j) => Good(Written(j, s)))
    BY <1>1 DEF IInv, JobInv, EarnedInv, Compared
  <2>2. setting[j].dir \in Dirs
    BY <1>1, SettingFacts DEF IInv
  <2>3. ~Shares(j) => OwnLines(j, s) = Written(j, s)
    BY <1>1, <2>2 DEF IInv, LineInv, OwnLines, Written, Shares
  <2> QED
    BY <2>1, <2>3
<1> QED
  BY <1>1, Inductive, PTL

(* Slack accepts one message of a job more than it failed to confirm.      *)
THEOREM OnePost == Spec => []PostedOnce
<1>1. IInv => PostedOnce
  BY DEF IInv, JobInv, StageInv, PostedOnce
<1> QED
  BY <1>1, Inductive, PTL
=============================================================================
