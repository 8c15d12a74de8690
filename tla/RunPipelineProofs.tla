------------------------- MODULE RunPipelineProofs --------------------------
(***************************************************************************)
(* Proofs about RunPipeline for every set of requests, every assignment of *)
(* keys and every bound.  IInv is the inductive invariant; the safety      *)
(* properties that do not count anything are parts of it.                  *)
(***************************************************************************)
EXTENDS RunPipeline, TLAPS, FiniteSetTheorems

(* A request stands before its INSERT, or knows its run. *)
HandlerInv ==
    \A q \in Requests :
        /\ pc[q] \in {"new", "lookup", "quota", "insert"} =>
              target[q] = NoRun /\ status[q] = "absent"
        /\ pc[q] \in {"meter", "enqueue"} => target[q] # NoRun
        /\ pc[q] # "end" => job[q] = "none" /\ reply[q] = "none"

(* A run that somebody knows exists, and has the key of whoever knows it. *)
TargetInv ==
    \A q \in Requests :
        /\ target[q] # NoRun => status[target[q]] # "absent" /\ KeyOf[target[q]] = KeyOf[q]
        /\ job[q] # "none" => target[q] # NoRun

(* Deliveries left. *)
TriesInv ==
    \A j \in Requests :
        /\ job[j] = "none" => tries[j] = 0
        /\ job[j] = "queued" => tries[j] < MaxTries

(* What the row says while an execution holds or announces the run. *)
HeldInv ==
    \A j \in Requests :
        /\ job[j] \in Holding => status[target[j]] \in {"processing", "deleted"}
        /\ job[j] \in Announcing => status[target[j]] \in {"done", "deleted"}
        /\ job[j] \in Announcing /\ status[target[j]] = "done" =>
              verdict[target[j]] = result[j]
        /\ job[j] \in {"save_done"} \cup Announcing => result[j] \in Verdict
        /\ job[j] = "recovery" => result[j] = "pass"

(* Nothing was posted for a run whose execution has not announced it yet. *)
UnpostedInv ==
    \A j \in Requests :
        Busy(j) => alerts[target[j]] = 0 /\ target[j] \notin recovered

IInv ==
    /\ TypeOK
    /\ HandlerInv
    /\ TargetInv
    /\ TriesInv
    /\ HeldInv
    /\ ClaimExclusive
    /\ FindingsMatchStatus
    /\ UnpostedInv
    /\ PostsMatchRecord
    /\ AcceptedIsBacked
    /\ NoSilentSkip

-----------------------------------------------------------------------------
LEMMA ArriveStep ==
    ASSUME IInv, NEW q \in Requests, Arrive(q)
    PROVE  IInv'
<1> USE RequestsAssumption, KeyAssumption, VerdictAssumption, BoundAssumption
<1> USE DEF IInv, TypeOK, Arrive, Verdict, Alerting, JobPhases, Running, Holding,
        Announcing, Active, Live, Replies, handlerVars, runVars, jobVars,
        outVars
<1>1. TypeOK'
  OBVIOUS
<1>2. HandlerInv' /\ TargetInv' /\ TriesInv'
  BY DEF HandlerInv, TargetInv, TriesInv
<1>3. HeldInv' /\ ClaimExclusive'
  BY DEF HeldInv, ClaimExclusive, TargetInv, HandlerInv, Busy
<1>4. FindingsMatchStatus'
  BY DEF FindingsMatchStatus, HeldInv, TargetInv, HandlerInv, NoVerdict
<1>5. UnpostedInv' /\ PostsMatchRecord'
  BY DEF UnpostedInv, PostsMatchRecord, ClaimExclusive, HeldInv, TargetInv,
         HandlerInv, Busy
<1>6. AcceptedIsBacked' /\ NoSilentSkip'
  BY DEF AcceptedIsBacked, NoSilentSkip, TargetInv, HandlerInv, HeldInv,
         Accepted
<1> QED
  BY <1>1, <1>2, <1>3, <1>4, <1>5, <1>6

LEMMA RateLimitedStep ==
    ASSUME IInv, NEW q \in Requests, RateLimited(q)
    PROVE  IInv'
<1> USE RequestsAssumption, KeyAssumption, VerdictAssumption, BoundAssumption
<1> USE DEF IInv, TypeOK, RateLimited, Answer, Verdict, Alerting, JobPhases,
        Running, Holding, Announcing, Active, Live, Replies, handlerVars,
        runVars, jobVars, outVars
<1>1. TypeOK'
  OBVIOUS
<1>2. HandlerInv' /\ TargetInv' /\ TriesInv'
  BY DEF HandlerInv, TargetInv, TriesInv
<1>3. HeldInv' /\ ClaimExclusive'
  BY DEF HeldInv, ClaimExclusive, TargetInv, HandlerInv, Busy
<1>4. FindingsMatchStatus'
  BY DEF FindingsMatchStatus, HeldInv, TargetInv, HandlerInv, NoVerdict
<1>5. UnpostedInv' /\ PostsMatchRecord'
  BY DEF UnpostedInv, PostsMatchRecord, ClaimExclusive, HeldInv, TargetInv,
         HandlerInv, Busy
<1>6. AcceptedIsBacked' /\ NoSilentSkip'
  BY DEF AcceptedIsBacked, NoSilentSkip, TargetInv, HandlerInv, HeldInv,
         Accepted
<1> QED
  BY <1>1, <1>2, <1>3, <1>4, <1>5, <1>6

LEMMA LookupRunStep ==
    ASSUME IInv, NEW q \in Requests, LookupRun(q)
    PROVE  IInv'
<1> USE RequestsAssumption, KeyAssumption, VerdictAssumption, BoundAssumption
<1> USE DEF IInv, TypeOK, LookupRun, Answer, Existing, Verdict, Alerting,
        JobPhases, Running, Holding, Announcing, Active, Live, Replies,
        handlerVars, runVars, jobVars, outVars
<1>1. TypeOK'
  OBVIOUS
<1>2. HandlerInv' /\ TargetInv' /\ TriesInv'
  BY DEF HandlerInv, TargetInv, TriesInv
<1>3. HeldInv' /\ ClaimExclusive'
  BY DEF HeldInv, ClaimExclusive, TargetInv, HandlerInv, Busy
<1>4. FindingsMatchStatus'
  BY DEF FindingsMatchStatus, HeldInv, TargetInv, HandlerInv, NoVerdict
<1>5. UnpostedInv' /\ PostsMatchRecord'
  BY DEF UnpostedInv, PostsMatchRecord, ClaimExclusive, HeldInv, TargetInv,
         HandlerInv, Busy
<1>6. AcceptedIsBacked' /\ NoSilentSkip'
  BY DEF AcceptedIsBacked, NoSilentSkip, TargetInv, HandlerInv, HeldInv,
         Accepted
<1> QED
  BY <1>1, <1>2, <1>3, <1>4, <1>5, <1>6

LEMMA EnforceQuotaStep ==
    ASSUME IInv, NEW q \in Requests, EnforceQuota(q)
    PROVE  IInv'
<1> USE RequestsAssumption, KeyAssumption, VerdictAssumption, BoundAssumption
<1> USE DEF IInv, TypeOK, EnforceQuota, Answer, Verdict, Alerting, JobPhases,
        Running, Holding, Announcing, Active, Live, Replies, handlerVars,
        runVars, jobVars, outVars
<1>1. TypeOK'
  OBVIOUS
<1>2. HandlerInv' /\ TargetInv' /\ TriesInv'
  BY DEF HandlerInv, TargetInv, TriesInv
<1>3. HeldInv' /\ ClaimExclusive'
  BY DEF HeldInv, ClaimExclusive, TargetInv, HandlerInv, Busy
<1>4. FindingsMatchStatus'
  BY DEF FindingsMatchStatus, HeldInv, TargetInv, HandlerInv, NoVerdict
<1>5. UnpostedInv' /\ PostsMatchRecord'
  BY DEF UnpostedInv, PostsMatchRecord, ClaimExclusive, HeldInv, TargetInv,
         HandlerInv, Busy
<1>6. AcceptedIsBacked' /\ NoSilentSkip'
  BY DEF AcceptedIsBacked, NoSilentSkip, TargetInv, HandlerInv, HeldInv,
         Accepted
<1> QED
  BY <1>1, <1>2, <1>3, <1>4, <1>5, <1>6

LEMMA InsertRunStep ==
    ASSUME IInv, NEW q \in Requests, InsertRun(q)
    PROVE  IInv'
<1> USE RequestsAssumption, KeyAssumption, VerdictAssumption, BoundAssumption
<1> USE DEF IInv, TypeOK, InsertRun, Verdict, Alerting, JobPhases, Running,
        Holding, Announcing, Active, Live, Replies, handlerVars, runVars,
        jobVars, outVars
<1>1. TypeOK'
  OBVIOUS
<1>2. HandlerInv' /\ TargetInv' /\ TriesInv'
  BY DEF HandlerInv, TargetInv, TriesInv
<1>3. HeldInv' /\ ClaimExclusive'
  BY DEF HeldInv, ClaimExclusive, TargetInv, HandlerInv, Busy
<1>4. FindingsMatchStatus'
  BY DEF FindingsMatchStatus, HeldInv, TargetInv, HandlerInv, NoVerdict
<1>5. UnpostedInv' /\ PostsMatchRecord'
  BY DEF UnpostedInv, PostsMatchRecord, ClaimExclusive, HeldInv, TargetInv,
         HandlerInv, Busy
<1>6. AcceptedIsBacked' /\ NoSilentSkip'
  BY DEF AcceptedIsBacked, NoSilentSkip, TargetInv, HandlerInv, HeldInv,
         Accepted
<1> QED
  BY <1>1, <1>2, <1>3, <1>4, <1>5, <1>6

LEMMA IncrementUsageStep ==
    ASSUME IInv, NEW q \in Requests, IncrementUsage(q)
    PROVE  IInv'
<1> USE RequestsAssumption, KeyAssumption, VerdictAssumption, BoundAssumption
<1> USE DEF IInv, TypeOK, IncrementUsage, Verdict, Alerting, JobPhases, Running,
        Holding, Announcing, Active, Live, Replies, handlerVars, runVars,
        jobVars, outVars
<1>1. TypeOK'
  OBVIOUS
<1>2. HandlerInv' /\ TargetInv' /\ TriesInv'
  BY DEF HandlerInv, TargetInv, TriesInv
<1>3. HeldInv' /\ ClaimExclusive'
  BY DEF HeldInv, ClaimExclusive, TargetInv, HandlerInv, Busy
<1>4. FindingsMatchStatus'
  BY DEF FindingsMatchStatus, HeldInv, TargetInv, HandlerInv, NoVerdict
<1>5. UnpostedInv' /\ PostsMatchRecord'
  BY DEF UnpostedInv, PostsMatchRecord, ClaimExclusive, HeldInv, TargetInv,
         HandlerInv, Busy
<1>6. AcceptedIsBacked' /\ NoSilentSkip'
  BY DEF AcceptedIsBacked, NoSilentSkip, TargetInv, HandlerInv, HeldInv,
         Accepted
<1> QED
  BY <1>1, <1>2, <1>3, <1>4, <1>5, <1>6

LEMMA EnqueueStep ==
    ASSUME IInv, NEW q \in Requests, Enqueue(q)
    PROVE  IInv'
<1> USE RequestsAssumption, KeyAssumption, VerdictAssumption, BoundAssumption
<1> USE DEF IInv, TypeOK, Enqueue, Answer, Verdict, Alerting, JobPhases, Running,
        Holding, Announcing, Active, Live, Replies, handlerVars, runVars,
        jobVars, outVars
<1>1. TypeOK'
  OBVIOUS
<1>2. HandlerInv' /\ TargetInv' /\ TriesInv'
  BY DEF HandlerInv, TargetInv, TriesInv
<1>3. HeldInv' /\ ClaimExclusive'
  BY DEF HeldInv, ClaimExclusive, TargetInv, HandlerInv, Busy
<1>4. FindingsMatchStatus'
  BY DEF FindingsMatchStatus, HeldInv, TargetInv, HandlerInv, NoVerdict
<1>5. UnpostedInv' /\ PostsMatchRecord'
  BY DEF UnpostedInv, PostsMatchRecord, ClaimExclusive, HeldInv, TargetInv,
         HandlerInv, Busy
<1>6. AcceptedIsBacked' /\ NoSilentSkip'
  BY DEF AcceptedIsBacked, NoSilentSkip, TargetInv, HandlerInv, HeldInv,
         Accepted
<1> QED
  BY <1>1, <1>2, <1>3, <1>4, <1>5, <1>6

LEMMA HandlerFailsStep ==
    ASSUME IInv, NEW q \in Requests, HandlerFails(q)
    PROVE  IInv'
<1> USE RequestsAssumption, KeyAssumption, VerdictAssumption, BoundAssumption
<1> USE DEF IInv, TypeOK, HandlerFails, Answer, Verdict, Alerting, JobPhases,
        Running, Holding, Announcing, Active, Live, Replies, handlerVars,
        runVars, jobVars, outVars
<1>1. TypeOK'
  OBVIOUS
<1>2. HandlerInv' /\ TargetInv' /\ TriesInv'
  BY DEF HandlerInv, TargetInv, TriesInv
<1>3. HeldInv' /\ ClaimExclusive'
  BY DEF HeldInv, ClaimExclusive, TargetInv, HandlerInv, Busy
<1>4. FindingsMatchStatus'
  BY DEF FindingsMatchStatus, HeldInv, TargetInv, HandlerInv, NoVerdict
<1>5. UnpostedInv' /\ PostsMatchRecord'
  BY DEF UnpostedInv, PostsMatchRecord, ClaimExclusive, HeldInv, TargetInv,
         HandlerInv, Busy
<1>6. AcceptedIsBacked' /\ NoSilentSkip'
  BY DEF AcceptedIsBacked, NoSilentSkip, TargetInv, HandlerInv, HeldInv,
         Accepted
<1> QED
  BY <1>1, <1>2, <1>3, <1>4, <1>5, <1>6

LEMMA DeliverStep ==
    ASSUME IInv, NEW j \in Requests, Deliver(j)
    PROVE  IInv'
<1> USE RequestsAssumption, KeyAssumption, VerdictAssumption, BoundAssumption
<1> USE DEF IInv, TypeOK, Deliver, Goto, Verdict, Alerting, JobPhases, Running,
        Holding, Announcing, Active, Live, Replies, handlerVars, runVars,
        jobVars, outVars
<1>1. TypeOK'
  BY DEF TriesInv
<1>2. HandlerInv' /\ TargetInv' /\ TriesInv'
  BY DEF HandlerInv, TargetInv, TriesInv
<1>3. HeldInv' /\ ClaimExclusive'
  BY DEF HeldInv, ClaimExclusive, TargetInv, HandlerInv, Busy
<1>4. FindingsMatchStatus'
  BY DEF FindingsMatchStatus, HeldInv, TargetInv, HandlerInv, NoVerdict
<1>5. UnpostedInv' /\ PostsMatchRecord'
  BY DEF UnpostedInv, PostsMatchRecord, ClaimExclusive, HeldInv, TargetInv,
         HandlerInv, Busy
<1>6. AcceptedIsBacked' /\ NoSilentSkip'
  BY DEF AcceptedIsBacked, NoSilentSkip, TargetInv, HandlerInv, HeldInv,
         Accepted
<1> QED
  BY <1>1, <1>2, <1>3, <1>4, <1>5, <1>6

(* Nobody but the claiming job becomes busy, and it only on a claimable run. *)
LEMMA ClaimBusy ==
    ASSUME TypeOK, NEW j \in Requests, ClaimRun(j)
    PROVE  \A i \in Requests : Busy(i)' =>
               Busy(i) \/ (i = j /\ status[target[j]] \in Claimable)
<1>1. \A i \in Requests : i # j => job'[i] = job[i]
  BY DEF TypeOK, ClaimRun, Goto, Return
<1>2. job'[j] = "over" \/ (job'[j] = "load" /\ status[target[j]] \in Claimable)
  BY DEF TypeOK, ClaimRun, Goto, Return
<1>3. "over" \notin Holding \cup Announcing
  BY DEF Holding, Announcing
<1> QED
  BY <1>1, <1>2, <1>3 DEF Busy

LEMMA ClaimRunStep ==
    ASSUME IInv, NEW j \in Requests, ClaimRun(j)
    PROVE  IInv'
<1> USE RequestsAssumption, KeyAssumption, VerdictAssumption, BoundAssumption
<1> USE DEF IInv, TypeOK, ClaimRun, Claimable, Goto, Return, Verdict, Alerting,
        JobPhases, Running, Holding, Announcing, Active, Live, Replies,
        handlerVars, runVars, jobVars, outVars
<1>1. TypeOK'
  OBVIOUS
<1>2. HandlerInv' /\ TargetInv' /\ TriesInv'
  BY DEF HandlerInv, TargetInv, TriesInv
<1>3. HeldInv'
  BY DEF HeldInv, TargetInv, Busy
<1>3a. ClaimExclusive'
  <2>1. \A i \in Requests : Busy(i)' =>
           Busy(i) \/ (i = j /\ status[target[j]] \in Claimable)
    BY ClaimBusy
  <2>2. \A i \in Requests : Busy(i) => status[target[i]] \in {"processing", "done", "deleted"}
    BY DEF Busy, HeldInv
  <2>3. target' = target
    OBVIOUS
  <2> QED
    BY <2>1, <2>2, <2>3 DEF ClaimExclusive
<1>4. FindingsMatchStatus'
  BY DEF FindingsMatchStatus, HeldInv, TargetInv, HandlerInv, NoVerdict
<1>5. UnpostedInv' /\ PostsMatchRecord'
  <2>1. CASE status[target[j]] \in Claimable
    <3>1. target[j] \in Requests
      BY DEF TargetInv
    <3>2. alerts[target[j]] = 0 /\ target[j] \notin recovered
      <4>1. status[target[j]] \notin {"done", "deleted"}
        BY <2>1
      <4>2. /\ alerts[target[j]] =< 1
            /\ alerts[target[j]] = 1 \/ target[j] \in recovered =>
                  status[target[j]] \in {"done", "deleted"}
        BY <3>1 DEF PostsMatchRecord
      <4>3. alerts[target[j]] \in Nat
        BY <3>1
      <4> HIDE DEF IInv, TypeOK, ClaimRun
      <4> QED
        BY <4>1, <4>2, <4>3
    <3>3. alerts' = alerts /\ recovered' = recovered /\ target' = target
      OBVIOUS
    <3>4. \A i \in Requests : Busy(i)' => i = j \/ Busy(i)
      BY DEF Busy
    <3>5. UnpostedInv'
      BY <3>2, <3>3, <3>4 DEF UnpostedInv
    <3>6. \A r \in Requests : r # target[j] => status'[r] = status[r]
      OBVIOUS
    <3>7. PostsMatchRecord'
      BY <3>2, <3>3, <3>6 DEF PostsMatchRecord
    <3> QED
      BY <3>5, <3>7
  <2>2. CASE status[target[j]] \notin Claimable
    BY <2>2 DEF UnpostedInv, PostsMatchRecord, Busy
  <2> QED
    BY <2>1, <2>2
<1>6. AcceptedIsBacked' /\ NoSilentSkip'
  BY DEF AcceptedIsBacked, NoSilentSkip, TargetInv, HandlerInv, HeldInv,
         Accepted
<1> QED
  BY <1>1, <1>2, <1>3, <1>3a, <1>4, <1>5, <1>6

LEMMA LoadRunStep ==
    ASSUME IInv, NEW j \in Requests, LoadRun(j)
    PROVE  IInv'
<1> USE RequestsAssumption, KeyAssumption, VerdictAssumption, BoundAssumption
<1> USE DEF IInv, TypeOK, LoadRun, Goto, Verdict, Alerting, JobPhases, Running,
        Holding, Announcing, Active, Live, Replies, handlerVars, runVars,
        jobVars, outVars
<1>1. TypeOK'
  OBVIOUS
<1>2. HandlerInv' /\ TargetInv' /\ TriesInv'
  BY DEF HandlerInv, TargetInv, TriesInv
<1>3. HeldInv' /\ ClaimExclusive'
  BY DEF HeldInv, ClaimExclusive, TargetInv, HandlerInv, Busy
<1>4. FindingsMatchStatus'
  BY DEF FindingsMatchStatus, HeldInv, TargetInv, HandlerInv, NoVerdict
<1>5. UnpostedInv' /\ PostsMatchRecord'
  BY DEF UnpostedInv, PostsMatchRecord, ClaimExclusive, HeldInv, TargetInv,
         HandlerInv, Busy
<1>6. AcceptedIsBacked' /\ NoSilentSkip'
  BY DEF AcceptedIsBacked, NoSilentSkip, TargetInv, HandlerInv, HeldInv,
         Accepted
<1> QED
  BY <1>1, <1>2, <1>3, <1>4, <1>5, <1>6

LEMMA RunEngineStep ==
    ASSUME IInv, NEW j \in Requests, RunEngine(j)
    PROVE  IInv'
<1> USE RequestsAssumption, KeyAssumption, VerdictAssumption, BoundAssumption
<1> USE DEF IInv, TypeOK, RunEngine, Goto, Verdict, Alerting, JobPhases, Running,
        Holding, Announcing, Active, Live, Replies, handlerVars, runVars,
        jobVars, outVars
<1>1. TypeOK'
  OBVIOUS
<1>2. HandlerInv' /\ TargetInv' /\ TriesInv'
  BY DEF HandlerInv, TargetInv, TriesInv
<1>3. HeldInv' /\ ClaimExclusive'
  BY DEF HeldInv, ClaimExclusive, TargetInv, HandlerInv, Busy
<1>4. FindingsMatchStatus'
  BY DEF FindingsMatchStatus, HeldInv, TargetInv, HandlerInv, NoVerdict
<1>5. UnpostedInv' /\ PostsMatchRecord'
  BY DEF UnpostedInv, PostsMatchRecord, ClaimExclusive, HeldInv, TargetInv,
         HandlerInv, Busy
<1>6. AcceptedIsBacked' /\ NoSilentSkip'
  BY DEF AcceptedIsBacked, NoSilentSkip, TargetInv, HandlerInv, HeldInv,
         Accepted
<1> QED
  BY <1>1, <1>2, <1>3, <1>4, <1>5, <1>6

LEMMA SaveFailedStep ==
    ASSUME IInv, NEW j \in Requests, SaveFailed(j)
    PROVE  IInv'
<1> USE RequestsAssumption, KeyAssumption, VerdictAssumption, BoundAssumption
<1> USE DEF IInv, TypeOK, SaveFailed, Return, Goto, Verdict, Alerting, JobPhases,
        Running, Holding, Announcing, Active, Live, Replies, handlerVars,
        runVars, jobVars, outVars
<1>1. TypeOK'
  OBVIOUS
<1>2. HandlerInv' /\ TargetInv' /\ TriesInv'
  BY DEF HandlerInv, TargetInv, TriesInv
<1>3. HeldInv' /\ ClaimExclusive'
  BY DEF HeldInv, ClaimExclusive, TargetInv, HandlerInv, Busy
<1>4. FindingsMatchStatus'
  BY DEF FindingsMatchStatus, HeldInv, TargetInv, HandlerInv, NoVerdict
<1>5. UnpostedInv' /\ PostsMatchRecord'
  BY DEF UnpostedInv, PostsMatchRecord, ClaimExclusive, HeldInv, TargetInv,
         HandlerInv, Busy
<1>6. AcceptedIsBacked' /\ NoSilentSkip'
  BY DEF AcceptedIsBacked, NoSilentSkip, TargetInv, HandlerInv, HeldInv,
         Accepted
<1> QED
  BY <1>1, <1>2, <1>3, <1>4, <1>5, <1>6

LEMMA SaveDoneStep ==
    ASSUME IInv, NEW j \in Requests, SaveDone(j)
    PROVE  IInv'
<1> USE RequestsAssumption, KeyAssumption, VerdictAssumption, BoundAssumption
<1> USE DEF IInv, TypeOK, SaveDone, Goto, Verdict, Alerting, JobPhases, Running,
        Holding, Announcing, Active, Live, Replies, handlerVars, runVars,
        jobVars, outVars
<1>1. TypeOK'
  BY DEF TargetInv, HeldInv
<1>2. HandlerInv' /\ TargetInv' /\ TriesInv'
  BY DEF HandlerInv, TargetInv, TriesInv
<1>3. HeldInv' /\ ClaimExclusive'
  BY DEF HeldInv, ClaimExclusive, TargetInv, HandlerInv, Busy
<1>4. FindingsMatchStatus'
  BY DEF FindingsMatchStatus, HeldInv, TargetInv, HandlerInv, NoVerdict
<1>5. UnpostedInv' /\ PostsMatchRecord'
  BY DEF UnpostedInv, PostsMatchRecord, ClaimExclusive, HeldInv, TargetInv,
         HandlerInv, Busy
<1>6. AcceptedIsBacked' /\ NoSilentSkip'
  BY DEF AcceptedIsBacked, NoSilentSkip, TargetInv, HandlerInv, HeldInv,
         Accepted
<1> QED
  BY <1>1, <1>2, <1>3, <1>4, <1>5, <1>6

LEMMA PostSlackStep ==
    ASSUME IInv, NEW j \in Requests, PostSlack(j)
    PROVE  IInv'
<1> USE RequestsAssumption, KeyAssumption, VerdictAssumption, BoundAssumption
<1> USE DEF IInv, TypeOK, PostSlack, Goto, Return, Verdict, Alerting, JobPhases,
        Running, Holding, Announcing, Active, Live, Replies, handlerVars,
        runVars, jobVars, outVars
<1>1. TypeOK'
  OBVIOUS
<1>2. HandlerInv' /\ TargetInv' /\ TriesInv'
  BY DEF HandlerInv, TargetInv, TriesInv
<1>3. HeldInv' /\ ClaimExclusive'
  BY DEF HeldInv, ClaimExclusive, TargetInv, HandlerInv, Busy
<1>4. FindingsMatchStatus'
  BY DEF FindingsMatchStatus, HeldInv, TargetInv, HandlerInv, NoVerdict
<1>5. UnpostedInv' /\ PostsMatchRecord'
  BY DEF UnpostedInv, PostsMatchRecord, ClaimExclusive, HeldInv, TargetInv,
         HandlerInv, Busy
<1>6. AcceptedIsBacked' /\ NoSilentSkip'
  BY DEF AcceptedIsBacked, NoSilentSkip, TargetInv, HandlerInv, HeldInv,
         Accepted
<1> QED
  BY <1>1, <1>2, <1>3, <1>4, <1>5, <1>6

LEMMA PostRecoveryStep ==
    ASSUME IInv, NEW j \in Requests, PostRecovery(j)
    PROVE  IInv'
<1> USE RequestsAssumption, KeyAssumption, VerdictAssumption, BoundAssumption
<1> USE DEF IInv, TypeOK, PostRecovery, Goto, Return, Verdict, Alerting, JobPhases,
        Running, Holding, Announcing, Active, Live, Replies, handlerVars,
        runVars, jobVars, outVars
<1>1. TypeOK'
  BY DEF TargetInv
<1>2. HandlerInv' /\ TargetInv' /\ TriesInv'
  BY DEF HandlerInv, TargetInv, TriesInv
<1>3. HeldInv' /\ ClaimExclusive'
  BY DEF HeldInv, ClaimExclusive, TargetInv, HandlerInv, Busy
<1>4. FindingsMatchStatus'
  BY DEF FindingsMatchStatus, HeldInv, TargetInv, HandlerInv, NoVerdict
<1>5. UnpostedInv' /\ PostsMatchRecord'
  BY DEF UnpostedInv, PostsMatchRecord, ClaimExclusive, HeldInv, TargetInv,
         HandlerInv, Busy
<1>6. AcceptedIsBacked' /\ NoSilentSkip'
  BY DEF AcceptedIsBacked, NoSilentSkip, TargetInv, HandlerInv, HeldInv,
         Accepted
<1> QED
  BY <1>1, <1>2, <1>3, <1>4, <1>5, <1>6

LEMMA JobFailsStep ==
    ASSUME IInv, NEW j \in Requests, JobFails(j)
    PROVE  IInv'
<1> USE RequestsAssumption, KeyAssumption, VerdictAssumption, BoundAssumption
<1> USE DEF IInv, TypeOK, JobFails, LeaveJob, Goto, Verdict, Alerting, JobPhases,
        Running, Holding, Announcing, Active, Live, Replies, handlerVars,
        runVars, jobVars, outVars
<1>1. TypeOK'
  OBVIOUS
<1>2. HandlerInv' /\ TargetInv' /\ TriesInv'
  BY DEF HandlerInv, TargetInv, TriesInv
<1>3. HeldInv' /\ ClaimExclusive'
  BY DEF HeldInv, ClaimExclusive, TargetInv, HandlerInv, Busy
<1>4. FindingsMatchStatus'
  BY DEF FindingsMatchStatus, HeldInv, TargetInv, HandlerInv, NoVerdict
<1>5. UnpostedInv' /\ PostsMatchRecord'
  BY DEF UnpostedInv, PostsMatchRecord, ClaimExclusive, HeldInv, TargetInv,
         HandlerInv, Busy
<1>6. AcceptedIsBacked' /\ NoSilentSkip'
  BY DEF AcceptedIsBacked, NoSilentSkip, TargetInv, HandlerInv, HeldInv,
         Accepted
<1> QED
  BY <1>1, <1>2, <1>3, <1>4, <1>5, <1>6

LEMMA RunGoneStep ==
    ASSUME IInv, NEW j \in Requests, RunGone(j)
    PROVE  IInv'
<1> USE RequestsAssumption, KeyAssumption, VerdictAssumption, BoundAssumption
<1> USE DEF IInv, TypeOK, RunGone, LeaveJob, Goto, Verdict, Alerting, JobPhases,
        Running, Holding, Announcing, Active, Live, Replies, handlerVars,
        runVars, jobVars, outVars
<1>1. TypeOK'
  OBVIOUS
<1>2. HandlerInv' /\ TargetInv' /\ TriesInv'
  BY DEF HandlerInv, TargetInv, TriesInv
<1>3. HeldInv' /\ ClaimExclusive'
  BY DEF HeldInv, ClaimExclusive, TargetInv, HandlerInv, Busy
<1>4. FindingsMatchStatus'
  BY DEF FindingsMatchStatus, HeldInv, TargetInv, HandlerInv, NoVerdict
<1>5. UnpostedInv' /\ PostsMatchRecord'
  BY DEF UnpostedInv, PostsMatchRecord, ClaimExclusive, HeldInv, TargetInv,
         HandlerInv, Busy
<1>6. AcceptedIsBacked' /\ NoSilentSkip'
  BY DEF AcceptedIsBacked, NoSilentSkip, TargetInv, HandlerInv, HeldInv,
         Accepted
<1> QED
  BY <1>1, <1>2, <1>3, <1>4, <1>5, <1>6

(* Deletions, by a user or by retention. *)
LEMMA DeleteRunsStep ==
    ASSUME IInv, NEW S \in SUBSET Requests, DeleteRuns(S),
           \A r \in S : status[r] \in Live
    PROVE  IInv'
<1> USE RequestsAssumption, KeyAssumption, VerdictAssumption, BoundAssumption
<1> USE DEF IInv, TypeOK, DeleteRuns, Verdict, Alerting, JobPhases, Running, Holding,
        Announcing, Active, Live, Replies, handlerVars, runVars, jobVars, outVars
<1>1. TypeOK'
  OBVIOUS
<1>2. HandlerInv' /\ TargetInv' /\ TriesInv'
  BY DEF HandlerInv, TargetInv, TriesInv
<1>3. HeldInv' /\ ClaimExclusive'
  BY DEF HeldInv, ClaimExclusive, TargetInv, Busy
<1>4. FindingsMatchStatus'
  BY DEF FindingsMatchStatus, NoVerdict
<1>5. UnpostedInv' /\ PostsMatchRecord'
  BY DEF UnpostedInv, PostsMatchRecord, Busy
<1>6. AcceptedIsBacked' /\ NoSilentSkip'
  BY DEF AcceptedIsBacked, NoSilentSkip, TargetInv, Accepted
<1> QED
  BY <1>1, <1>2, <1>3, <1>4, <1>5, <1>6

LEMMA InitIInv == Init => IInv
BY RequestsAssumption, KeyAssumption, BoundAssumption
   DEF Init, IInv, TypeOK, HandlerInv, TargetInv, TriesInv, HeldInv, ClaimExclusive,
       FindingsMatchStatus, UnpostedInv, PostsMatchRecord, AcceptedIsBacked, NoSilentSkip,
       Busy, Accepted, Verdict, NoVerdict, JobPhases, Running, Holding, Announcing,
       Active, Live, Replies

LEMMA NextIInv == IInv /\ [Next]_vars => IInv'
<1> SUFFICES ASSUME IInv, [Next]_vars PROVE IInv'
  OBVIOUS
<1>1. CASE UNCHANGED vars
  BY <1>1 DEF vars, handlerVars, runVars, jobVars, outVars, IInv, TypeOK, HandlerInv,
     TargetInv, TriesInv, HeldInv, ClaimExclusive, FindingsMatchStatus, UnpostedInv,
     PostsMatchRecord, AcceptedIsBacked, NoSilentSkip, Busy
<1>2. ASSUME NEW q \in Requests, Handle(q) \/ RateLimited(q) \/ HandlerFails(q)
      PROVE  IInv'
  BY <1>2, ArriveStep, RateLimitedStep, LookupRunStep, EnforceQuotaStep, InsertRunStep,
     IncrementUsageStep, EnqueueStep, HandlerFailsStep DEF Handle
<1>3. ASSUME NEW j \in Requests, Process(j) \/ JobFails(j)
      PROVE  IInv'
  BY <1>3, DeliverStep, ClaimRunStep, LoadRunStep, RunEngineStep, SaveFailedStep,
     SaveDoneStep, PostSlackStep, PostRecoveryStep, JobFailsStep, RunGoneStep DEF Process
<1>4. ASSUME NEW r \in Requests, DeleteRun(r)
      PROVE  IInv'
  BY <1>4, DeleteRunsStep DEF DeleteRun
<1>5. ASSUME NEW cutoff \in 2..clock + 1, CleanupRetention(cutoff)
      PROVE  IInv'
  BY <1>5, DeleteRunsStep DEF CleanupRetention
<1> QED
  BY <1>1, <1>2, <1>3, <1>4, <1>5 DEF Next

(* In every reachable state all parts of IInv hold: what the handlers and the      *)
(* executions know agrees with the rows they work on.                              *)
THEOREM Inductive == Spec => []IInv
BY InitIInv, NextIInv, PTL DEF Spec

(* Every variable keeps its type; no job is delivered more than MaxTries times.    *)
THEOREM TypeCorrect == Spec => []TypeOK
<1>1. IInv => TypeOK
  BY DEF IInv
<1> QED
  BY <1>1, Inductive, PTL

(* process_run's conditional UPDATE is a lock: for any number of deliveries and    *)
(* workers, one execution at a time works on a run.                                *)
THEOREM Exclusion == Spec => []ClaimExclusive
<1>1. IInv => ClaimExclusive
  BY DEF IInv
<1> QED
  BY <1>1, Inductive, PTL

(* Findings are written exactly once and exactly for the finished runs.            *)
THEOREM FindingsOnce == Spec => []FindingsMatchStatus
<1>1. IInv => FindingsMatchStatus
  BY DEF IInv
<1> QED
  BY <1>1, Inductive, PTL

(* A run is posted at most once, as what its row says.                             *)
THEOREM PostedOnce == Spec => []PostsMatchRecord
<1>1. IInv => PostsMatchRecord
  BY DEF IInv
<1> QED
  BY <1>1, Inductive, PTL

(* A 202 answers for a committed run of the request's own key.                     *)
THEOREM AcceptedBacked == Spec => []AcceptedIsBacked
<1>1. IInv => AcceptedIsBacked
  BY DEF IInv
<1> QED
  BY <1>1, Inductive, PTL

(* No delivery ends normally while its run still waits.                            *)
THEOREM NothingSkipped == Spec => []NoSilentSkip
<1>1. IInv => NoSilentSkip
  BY DEF IInv
<1> QED
  BY <1>1, Inductive, PTL

-----------------------------------------------------------------------------
(* Counting requests: the soft cap and the meter. *)

(* The handler of q goes on to another await. *)
MovesTo(q, to) == pc' = [pc EXCEPT ![q] = to]

(* It is counted where it comes to, and no more where it came from. *)
LEMMA Moves ==
    ASSUME TypeOK, NEW q \in Requests, NEW to, NEW P, MovesTo(q, to)
    PROVE  /\ Count(P) \in Nat
           /\ Count(P)' = Count(P) + (IF to \in P THEN 1 ELSE 0) - (IF pc[q] \in P THEN 1 ELSE 0)
<1> DEFINE S == Standing(P)
<1>1. IsFiniteSet(S)
  BY RequestsAssumption, FS_Subset DEF Standing
<1>2. Cardinality(S) \in Nat
  BY <1>1, FS_CardinalityType
<1>3. CASE to \in P
  <2>1. Standing(P)' = S \cup {q}
    BY <1>3 DEF Standing, TypeOK, MovesTo
  <2>2. Cardinality(S \cup {q}) = IF q \in S THEN Cardinality(S) ELSE Cardinality(S) + 1
    BY <1>1, FS_AddElement
  <2>3. q \in S <=> pc[q] \in P
    BY DEF Standing
  <2> HIDE DEF S
  <2> QED
    BY <1>2, <1>3, <2>1, <2>2, <2>3 DEF Count, S
<1>4. CASE to \notin P
  <2>1. Standing(P)' = S \ {q}
    BY <1>4 DEF Standing, TypeOK, MovesTo
  <2>2. Cardinality(S \ {q}) = IF q \in S THEN Cardinality(S) - 1 ELSE Cardinality(S)
    BY <1>1, FS_RemoveElement
  <2>3. q \in S <=> pc[q] \in P
    BY DEF Standing
  <2> HIDE DEF S
  <2> QED
    BY <1>2, <1>4, <2>1, <2>2, <2>3 DEF Count, S
<1> QED
  BY <1>3, <1>4

(* Inductive together with TypeOK. *)
CountInv ==
    /\ Count(Active) =< MaxInFlight
    /\ QuotaOvershoot
    /\ MeteredHasRun

(* A request that has passed the check is in flight. *)
LEMMA PassedInFlightNext == Count(Passed)' =< Count(Active)'
<1>1. Standing(Passed)' \subseteq Standing(Active)' /\ Standing(Active)' \subseteq Requests
  BY DEF Standing, Active, Passed
<1>2. IsFiniteSet(Standing(Active)')
  BY <1>1, RequestsAssumption, FS_Subset
<1> QED
  BY <1>1, <1>2, FS_Subset DEF Count

(* What the three counts become when a handler goes from one await to another. *)
LEMMA MoveCounts ==
    ASSUME TypeOK, NEW q \in Requests, NEW to, MovesTo(q, to)
    PROVE  /\ Count(Active) \in Nat /\ Count(Passed) \in Nat /\ Count(Unmetered) \in Nat
           /\ Count(Active)' = Count(Active) + (IF to \in Active THEN 1 ELSE 0)
                                             - (IF pc[q] \in Active THEN 1 ELSE 0)
           /\ Count(Passed)' = Count(Passed) + (IF to \in Passed THEN 1 ELSE 0)
                                             - (IF pc[q] \in Passed THEN 1 ELSE 0)
           /\ Count(Unmetered)' = Count(Unmetered) + (IF to \in Unmetered THEN 1 ELSE 0)
                                                   - (IF pc[q] \in Unmetered THEN 1 ELSE 0)
<1>1. /\ Count(Active) \in Nat
      /\ Count(Active)' = Count(Active) + (IF to \in Active THEN 1 ELSE 0)
                                        - (IF pc[q] \in Active THEN 1 ELSE 0)
  BY Moves
<1>2. /\ Count(Passed) \in Nat
      /\ Count(Passed)' = Count(Passed) + (IF to \in Passed THEN 1 ELSE 0)
                                        - (IF pc[q] \in Passed THEN 1 ELSE 0)
  BY Moves
<1>3. /\ Count(Unmetered) \in Nat
      /\ Count(Unmetered)' = Count(Unmetered) + (IF to \in Unmetered THEN 1 ELSE 0)
                                              - (IF pc[q] \in Unmetered THEN 1 ELSE 0)
  BY Moves
<1> QED
  BY <1>1, <1>2, <1>3

(* The quota check is the only way to the INSERT, and it is passed only below the *)
(* limit: every request that has passed it and is not yet counted is in flight.   *)
LEMMA HandlerCounts ==
    ASSUME TypeOK, CountInv, NEW q \in Requests, Handle(q) \/ RateLimited(q) \/ HandlerFails(q)
    PROVE  CountInv'
<1> USE BoundAssumption DEF CountInv, QuotaOvershoot, MeteredHasRun
<1>1. runsUsed \in Nat /\ clock \in Nat /\ pc[q] \in {"new", "end"} \cup Active
  BY DEF TypeOK
<1>2. CASE Arrive(q)
  <2>1. MovesTo(q, "lookup") /\ pc[q] = "new" /\ Count(Active) < MaxInFlight
    BY <1>2 DEF Arrive, MovesTo
  <2>2. runsUsed' = runsUsed /\ clock' = clock
    BY <1>2 DEF Arrive, runVars
  <2>m. /\ "lookup" \in Active /\ "lookup" \notin Passed /\ "lookup" \notin Unmetered
        /\ "new" \notin Active /\ "new" \notin Passed /\ "new" \notin Unmetered
    BY DEF Active, Passed, Unmetered
  <2>3. /\ Count(Active) \in Nat /\ Count(Passed) \in Nat /\ Count(Unmetered) \in Nat
        /\ Count(Active)' = Count(Active) + 1
        /\ Count(Passed)' = Count(Passed) /\ Count(Unmetered)' = Count(Unmetered)
    BY <2>1, <2>m, MoveCounts
  <2> QED
    BY <1>1, <2>1, <2>2, <2>3
<1>3. CASE EnforceQuota(q) /\ ~QuotaExceeded
  <2>1. MovesTo(q, "insert") /\ pc[q] = "quota"
    BY <1>3 DEF EnforceQuota, MovesTo
  <2>2. runsUsed' = runsUsed /\ clock' = clock
    BY <1>3 DEF EnforceQuota, runVars
  <2>m. /\ "insert" \in Active /\ "insert" \in Passed /\ "insert" \notin Unmetered
        /\ "quota" \in Active /\ "quota" \notin Passed /\ "quota" \notin Unmetered
    BY DEF Active, Passed, Unmetered
  <2>3. /\ Count(Active) \in Nat /\ Count(Passed) \in Nat /\ Count(Unmetered) \in Nat
        /\ Count(Active)' = Count(Active)
        /\ Count(Passed)' = Count(Passed) + 1 /\ Count(Unmetered)' = Count(Unmetered)
    BY <2>1, <2>m, MoveCounts
  <2>4. Capped => runsUsed < Limit
    BY <1>1, <1>3 DEF QuotaExceeded
  <2> QED
    BY <1>1, <2>2, <2>3, <2>4, PassedInFlightNext
<1>4. CASE InsertRun(q)
  <2>1. MovesTo(q, "meter") /\ pc[q] = "insert"
    BY <1>4 DEF InsertRun, MovesTo
  <2>2. runsUsed' = runsUsed /\ clock' = clock + 1
    BY <1>4 DEF InsertRun
  <2>m. /\ "meter" \in Active /\ "meter" \in Passed /\ "meter" \in Unmetered
        /\ "insert" \in Active /\ "insert" \in Passed /\ "insert" \notin Unmetered
    BY DEF Active, Passed, Unmetered
  <2>3. /\ Count(Active) \in Nat /\ Count(Passed) \in Nat /\ Count(Unmetered) \in Nat
        /\ Count(Active)' = Count(Active)
        /\ Count(Passed)' = Count(Passed) /\ Count(Unmetered)' = Count(Unmetered) + 1
    BY <2>1, <2>m, MoveCounts
  <2> QED
    BY <1>1, <2>2, <2>3
<1>5. CASE IncrementUsage(q)
  <2>1. MovesTo(q, "enqueue") /\ pc[q] = "meter"
    BY <1>5 DEF IncrementUsage, MovesTo
  <2>2. runsUsed' = runsUsed + 1 /\ clock' = clock
    BY <1>5 DEF IncrementUsage, runVars
  <2>m. /\ "enqueue" \in Active /\ "enqueue" \notin Passed /\ "enqueue" \notin Unmetered
        /\ "meter" \in Active /\ "meter" \in Passed /\ "meter" \in Unmetered
    BY DEF Active, Passed, Unmetered
  <2>3. /\ Count(Active) \in Nat /\ Count(Passed) \in Nat /\ Count(Unmetered) \in Nat
        /\ Count(Active)' = Count(Active)
        /\ Count(Passed)' = Count(Passed) - 1 /\ Count(Unmetered)' = Count(Unmetered) - 1
    BY <2>1, <2>m, MoveCounts
  <2> QED
    BY <1>1, <2>2, <2>3
<1>6. CASE \/ LookupRun(q) \/ Enqueue(q) \/ RateLimited(q) \/ HandlerFails(q)
           \/ EnforceQuota(q) /\ QuotaExceeded
  <2>1. runsUsed' = runsUsed /\ clock' = clock
    BY <1>6 DEF LookupRun, Enqueue, RateLimited, HandlerFails, EnforceQuota, runVars
  <2>2. \E to \in {"quota", "enqueue", "end"} :
           /\ MovesTo(q, to)
           /\ to # "end" => pc[q] = "lookup"
    BY <1>6 DEF LookupRun, Enqueue, RateLimited, HandlerFails, EnforceQuota, Answer,
       MovesTo
  <2>3. PICK to \in {"quota", "enqueue", "end"} :
           /\ MovesTo(q, to)
           /\ to # "end" => pc[q] = "lookup"
    BY <2>2
  <2>4. /\ to \notin Passed /\ to \notin Unmetered
        /\ to \in Active => pc[q] \in Active
    BY <2>3 DEF Active, Passed, Unmetered
  <2>5. /\ Count(Active) \in Nat /\ Count(Passed) \in Nat /\ Count(Unmetered) \in Nat
        /\ Count(Active)' =< Count(Active)
        /\ Count(Passed)' =< Count(Passed) /\ Count(Unmetered)' =< Count(Unmetered)
        /\ Count(Active)' \in Int /\ Count(Passed)' \in Int /\ Count(Unmetered)' \in Int
    BY <2>3, <2>4, MoveCounts
  <2> QED
    BY <1>1, <2>1, <2>5
<1> QED
  BY <1>2, <1>3, <1>4, <1>5, <1>6 DEF Handle

LEMMA NextCounts == TypeOK /\ CountInv /\ [Next]_vars => CountInv'
<1> SUFFICES ASSUME TypeOK, CountInv, [Next]_vars PROVE CountInv'
  OBVIOUS
<1>1. ASSUME NEW q \in Requests, Handle(q) \/ RateLimited(q) \/ HandlerFails(q)
      PROVE  CountInv'
  BY <1>1, HandlerCounts
<1>2. CASE pc' = pc /\ runsUsed' = runsUsed /\ clock' = clock
  BY <1>2 DEF CountInv, QuotaOvershoot, MeteredHasRun, Count, Standing
<1>3. ASSUME NEW j \in Requests, Process(j) \/ JobFails(j)
      PROVE  CountInv'
  BY <1>2, <1>3 DEF Process, Deliver, ClaimRun, LoadRun, RunEngine, SaveFailed, SaveDone,
     PostSlack, PostRecovery, RunGone, JobFails, LeaveJob, handlerVars, runVars
<1>4. ASSUME NEW S, DeleteRuns(S)
      PROVE  CountInv'
  BY <1>2, <1>4 DEF DeleteRuns, handlerVars
<1>5. CASE UNCHANGED vars
  BY <1>2, <1>5 DEF vars, handlerVars, runVars
<1> QED
  BY <1>1, <1>3, <1>4, <1>5 DEF Next, DeleteRun, CleanupRetention

LEMMA InitCounts == Init => CountInv
<1> SUFFICES ASSUME Init PROVE CountInv
  OBVIOUS
<1>1. Standing(Active) = {} /\ Standing(Passed) = {} /\ Standing(Unmetered) = {}
  BY DEF Init, Standing, Active, Passed, Unmetered
<1>2. runsUsed = 0 /\ clock = 0
  BY DEF Init
<1> QED
  BY <1>1, <1>2, BoundAssumption, FS_EmptySet DEF CountInv, QuotaOvershoot, MeteredHasRun, Count

LEMMA Counts == Spec => []CountInv
BY InitCounts, NextCounts, TypeCorrect, PTL DEF Spec

(* The soft cap of ingest.py:29-35: usage, with the requests that have passed the *)
(* check and are not counted yet, stays below the limit plus the requests the API *)
(* serves at a time.                                                              *)
THEOREM OvershootBounded == Spec => []QuotaOvershoot
<1>1. CountInv => QuotaOvershoot
  BY DEF CountInv
<1> QED
  BY <1>1, Counts, PTL

(* Usage never runs ahead of the runs stored: replays are not metered.            *)
THEOREM NeverOverMetered == Spec => []MeteredHasRun
<1>1. CountInv => MeteredHasRun
  BY DEF CountInv
<1> QED
  BY <1>1, Counts, PTL
=============================================================================
