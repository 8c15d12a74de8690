----------------------- MODULE RunPipelineRefinement ------------------------
(***************************************************************************)
(* RunPipeline implements RunLifecycle: the handlers, the queue, the       *)
(* workers and the deletions, seen through the refinement mapping of       *)
(* RunPipeline (Phase, Owner, verdict), take only the steps of the         *)
(* abstract specification.                                                 *)
(***************************************************************************)
EXTENDS RunPipelineProofs

(* A run whose row and holders stay the same looks the same. *)
LEMMA SameView ==
    ASSUME NEW r \in Requests, status'[r] = status[r], Holders(r)' = Holders(r)
    PROVE  PhaseOf(r)' = PhaseOf(r) /\ OwnerOf(r)' = OwnerOf(r)
BY DEF PhaseOf, OwnerOf

(* When no row changes and nobody starts or stops holding a run, nothing is seen. *)
LEMMA Stutter ==
    ASSUME status' = status, verdict' = verdict,
           \A r \in Requests : Holders(r)' = Holders(r)
    PROVE  UNCHANGED Lifecycle!vars
<1>1. \A r \in Requests : PhaseOf(r)' = PhaseOf(r) /\ OwnerOf(r)' = OwnerOf(r)
  BY SameView
<1>2. Phase' = Phase /\ Owner' = Owner
  BY <1>1 DEF Phase, Owner
<1> QED
  BY <1>2 DEF Lifecycle!vars

(* The claim being exclusive, an execution that holds a run is its only holder and *)
(* its owner.                                                                      *)
LEMMA HolderOwns ==
    ASSUME IInv, NEW j \in Requests, job[j] \in Holding, status[target[j]] # "deleted"
    PROVE  /\ target[j] \in Requests
           /\ status[target[j]] = "processing"
           /\ Holders(target[j]) = {j}
           /\ PhaseOf(target[j]) = "working"
           /\ OwnerOf(target[j]) = j
<1>1. target[j] \in Requests
  BY RequestsAssumption DEF IInv, TypeOK, TargetInv, Holding
<1>2. status[target[j]] = "processing"
  BY DEF IInv, HeldInv
<1>3. Holders(target[j]) = {j}
  BY DEF IInv, ClaimExclusive, Busy, Holders
<1>4. PhaseOf(target[j]) = "working"
  BY <1>2, <1>3 DEF PhaseOf
<1>5. MemberOf({j}) = j
  BY DEF MemberOf
<1> QED
  BY <1>1, <1>2, <1>3, <1>4, <1>5 DEF OwnerOf

(* Steps of the handlers: only the INSERT is visible. *)
LEMMA HandlerRefines ==
    ASSUME IInv, NEW q \in Requests, Handle(q) \/ RateLimited(q) \/ HandlerFails(q)
    PROVE  Lifecycle!Next \/ UNCHANGED Lifecycle!vars
<1>1. CASE InsertRun(q)
  <2>1. status[q] = "absent" /\ target[q] = NoRun /\ job[q] = "none"
    BY <1>1 DEF InsertRun, IInv, HandlerInv
  <2>2. \A r \in Requests : Holders(r)' = Holders(r)
    BY <1>1, <2>1, RequestsAssumption DEF InsertRun, Holders, Holding, jobVars, IInv, TypeOK
  <2>3. \A r \in Requests \ {q} : status'[r] = status[r]
    BY <1>1 DEF InsertRun, IInv, TypeOK
  <2>4. \A r \in Requests \ {q} : PhaseOf(r)' = PhaseOf(r) /\ OwnerOf(r)' = OwnerOf(r)
    BY <2>2, <2>3, SameView
  <2>5. status'[q] = "pending"
    BY <1>1 DEF InsertRun, IInv, TypeOK
  <2>6. PhaseOf(q) = "absent" /\ PhaseOf(q)' = "pending"
    BY <2>1, <2>5 DEF PhaseOf
  <2>7. OwnerOf(q) = NoRun /\ OwnerOf(q)' = NoRun
    BY <2>6 DEF OwnerOf
  <2>8. Owner' = Owner /\ Phase' = [Phase EXCEPT ![q] = "pending"]
    BY <2>4, <2>6, <2>7 DEF Owner, Phase
  <2>9. Lifecycle!Accept(q)
    BY <1>1, <2>6, <2>8 DEF Lifecycle!Accept, InsertRun, Phase
  <2> QED
    BY <2>9 DEF Lifecycle!Next
<1>2. CASE ~InsertRun(q)
  <2>1. status' = status /\ verdict' = verdict
    BY <1>2 DEF Handle, Arrive, LookupRun, EnforceQuota, IncrementUsage, Enqueue,
       RateLimited, HandlerFails, runVars
  <2>2. \A j \in Requests : job[j] # "none" => target'[j] = target[j] /\ job'[j] = job[j]
    BY <1>2 DEF Handle, Arrive, LookupRun, EnforceQuota, IncrementUsage, Enqueue,
       RateLimited, HandlerFails, jobVars, IInv, TypeOK, HandlerInv
  <2>3. \A j \in Requests : job[j] = "none" => job'[j] \in {"none", "queued"}
    BY <1>2 DEF Handle, Arrive, LookupRun, EnforceQuota, IncrementUsage, Enqueue,
       RateLimited, HandlerFails, jobVars, IInv, TypeOK
  <2>4. \A r \in Requests : Holders(r)' = Holders(r)
    BY <2>2, <2>3 DEF Holders, Holding
  <2> QED
    BY <2>1, <2>4, Stutter
<1> QED
  BY <1>1, <1>2

(* An execution that was the only holder of a run in progress lets go of it, and *)
(* the row becomes what the abstract phase ph says.                              *)
LEMMA LetGo ==
    ASSUME IInv, NEW j \in Requests, job[j] \in Holding, status[target[j]] # "deleted",
           target' = target, NEW phase, job' = [job EXCEPT ![j] = phase],
           phase \notin Holding, NEW s,
           s \in {"processing", "failed", "done"},
           status' = [status EXCEPT ![target[j]] = s],
           NEW ph, ph = IF s = "processing" THEN "abandoned" ELSE s
    PROVE  /\ Phase' = [Phase EXCEPT ![target[j]] = ph]
           /\ Owner' = [Owner EXCEPT ![target[j]] = NoRun]
<1> DEFINE t == target[j]
<1>1. t \in Requests /\ Holders(t) = {j}
  BY HolderOwns
<1>2. Holders(t)' = {}
  BY <1>1 DEF Holders, IInv, TypeOK
<1>3. status'[t] = s
  BY <1>1 DEF IInv, TypeOK
<1>4. PhaseOf(t)' = ph
  BY <1>2, <1>3 DEF PhaseOf
<1>5. OwnerOf(t)' = NoRun
  BY <1>4 DEF OwnerOf
<1>6. \A r \in Requests \ {t} : Holders(r)' = Holders(r)
  BY DEF Holders, IInv, TypeOK
<1>7. \A r \in Requests \ {t} : status'[r] = status[r]
  BY DEF IInv, TypeOK
<1>8. \A r \in Requests \ {t} : PhaseOf(r)' = PhaseOf(r) /\ OwnerOf(r)' = OwnerOf(r)
  BY <1>6, <1>7, SameView
<1> QED
  BY <1>1, <1>4, <1>5, <1>8 DEF Phase, Owner

(* The claim: visible exactly when the UPDATE matched. *)
LEMMA ClaimRefines ==
    ASSUME IInv, NEW j \in Requests, ClaimRun(j)
    PROVE  Lifecycle!Next \/ UNCHANGED Lifecycle!vars
<1> DEFINE t == target[j]
<1> USE DEF IInv, TypeOK
<1>1. t \in Requests /\ target' = target /\ verdict' = verdict
  BY DEF ClaimRun, TargetInv, handlerVars
<1>2. CASE status[t] \in Claimable
  <2>1. job' = [job EXCEPT ![j] = "load"] /\ status' = [status EXCEPT ![t] = "processing"]
    BY <1>2 DEF ClaimRun, Goto
  <2>2. Holders(t) = {}
    BY <1>2 DEF Holders, HeldInv, Claimable
  <2>3. Holders(t)' = {j}
    BY <1>1, <2>1, <2>2 DEF Holders, Holding
  <2>4. PhaseOf(t) = status[t]
    BY <1>2 DEF PhaseOf, Claimable
  <2>5. status'[t] = "processing"
    BY <1>1, <2>1
  <2>6. PhaseOf(t)' = "working"
    BY <1>1, <2>3, <2>5 DEF PhaseOf
  <2>7. OwnerOf(t)' = j
    <3>1. MemberOf({j}) = j
      BY DEF MemberOf
    <3> QED
      BY <2>3, <2>6, <3>1 DEF OwnerOf
  <2>8. \A r \in Requests \ {t} : Holders(r)' = Holders(r) /\ status'[r] = status[r]
    BY <1>1, <2>1, job[j] = "claim" DEF ClaimRun, Holders, Holding
  <2>9. \A r \in Requests \ {t} : PhaseOf(r)' = PhaseOf(r) /\ OwnerOf(r)' = OwnerOf(r)
    BY <2>8, SameView
  <2>10. /\ Phase' = [Phase EXCEPT ![t] = "working"]
         /\ Owner' = [Owner EXCEPT ![t] = j]
    BY <1>1, <2>6, <2>7, <2>9 DEF Phase, Owner
  <2>11. Lifecycle!Claim(t, j)
    BY <1>1, <1>2, <2>4, <2>10 DEF Lifecycle!Claim, Phase, Claimable
  <2> QED
    BY <1>1, <2>11 DEF Lifecycle!Next
<1>3. CASE status[t] \notin Claimable
  <2>1. status' = status /\ job[j] = "claim" /\ job' = [job EXCEPT ![j] = "over"]
    BY <1>3 DEF ClaimRun, Return, Goto
  <2>2. \A r \in Requests : Holders(r)' = Holders(r)
    BY <1>1, <2>1 DEF Holders, Holding
  <2> QED
    BY <1>1, <2>1, <2>2, Stutter
<1> QED
  BY <1>2, <1>3

(* The commits of a result, which only the owner of the run can be making. *)
LEMMA SaveRefines ==
    ASSUME IInv, NEW j \in Requests, SaveFailed(j) \/ SaveDone(j)
    PROVE  Lifecycle!Next
<1> DEFINE t == target[j]
<1>1. job[j] \in Holding /\ status[t] # "deleted"
  BY DEF SaveFailed, SaveDone, Holding, Live
<1>2. /\ t \in Requests
      /\ Phase[t] = "working"
      /\ Owner[t] = j
  BY <1>1, HolderOwns DEF Phase, Owner
<1>3. CASE SaveFailed(j)
  <2>1. /\ target' = target /\ verdict' = verdict
        /\ job' = [job EXCEPT ![j] = "over"]
        /\ status' = [status EXCEPT ![t] = "failed"]
    BY <1>3 DEF SaveFailed, Return, Goto, handlerVars
  <2>2. Phase' = [Phase EXCEPT ![t] = "failed"] /\ Owner' = [Owner EXCEPT ![t] = NoRun]
    BY <1>1, <2>1, LetGo DEF Holding
  <2>3. Lifecycle!Fail(t, j)
    BY <1>2, <2>1, <2>2 DEF Lifecycle!Fail
  <2> QED
    BY <1>2, <2>3 DEF Lifecycle!Next
<1>4. CASE SaveDone(j)
  <2>1. /\ target' = target /\ verdict' = [verdict EXCEPT ![t] = result[j]]
        /\ job' = [job EXCEPT ![j] = "notify"]
        /\ status' = [status EXCEPT ![t] = "done"]
    BY <1>4 DEF SaveDone, Goto, handlerVars
  <2>2. Phase' = [Phase EXCEPT ![t] = "done"] /\ Owner' = [Owner EXCEPT ![t] = NoRun]
    BY <1>1, <2>1, LetGo DEF Holding
  <2>3. result[j] \in Verdict
    BY <1>4 DEF SaveDone, IInv, HeldInv
  <2>4. Lifecycle!Report(t, j, result[j])
    BY <1>2, <2>1, <2>2 DEF Lifecycle!Report
  <2> QED
    BY <1>2, <2>3, <2>4 DEF Lifecycle!Next
<1> QED
  BY <1>3, <1>4

(* An execution that disappears abandons the run it holds, if any. *)
LEMMA LeaveRefines ==
    ASSUME IInv, NEW j \in Requests, JobFails(j) \/ RunGone(j)
    PROVE  Lifecycle!Next \/ UNCHANGED Lifecycle!vars
<1> DEFINE t == target[j]
<1>1. /\ target' = target /\ status' = status /\ verdict' = verdict
      /\ \E phase \in {"dropped", "queued"} : job' = [job EXCEPT ![j] = phase]
  BY DEF JobFails, RunGone, LeaveJob, Goto, handlerVars, runVars
<1>2. CASE job[j] \in Holding /\ status[t] # "deleted"
  <2>1. t \in Requests /\ status[t] = "processing" /\ Phase[t] = "working"
    BY <1>2, HolderOwns DEF Phase
  <2>2. status' = [status EXCEPT ![t] = "processing"]
    BY <1>1, <2>1 DEF IInv, TypeOK
  <2>3. PICK phase \in {"dropped", "queued"} : job' = [job EXCEPT ![j] = phase]
    BY <1>1
  <2>4. /\ Phase' = [Phase EXCEPT ![t] = "abandoned"]
        /\ Owner' = [Owner EXCEPT ![t] = NoRun]
    BY <1>1, <1>2, <2>2, <2>3, LetGo DEF Holding
  <2>5. Lifecycle!Abandon(t)
    BY <1>1, <2>1, <2>4 DEF Lifecycle!Abandon
  <2> QED
    BY <2>1, <2>5 DEF Lifecycle!Next
<1>3. CASE job[j] \in Holding /\ status[t] = "deleted"
  <2>1. \A r \in Requests : r # t => Holders(r)' = Holders(r)
    BY <1>1 DEF Holders, IInv, TypeOK
  <2>2. \A r \in Requests : r # t => PhaseOf(r)' = PhaseOf(r) /\ OwnerOf(r)' = OwnerOf(r)
    BY <1>1, <2>1, SameView
  <2>3. PhaseOf(t)' = PhaseOf(t) /\ OwnerOf(t)' = OwnerOf(t)
    <3>1. PhaseOf(t) = "removed"
      BY <1>3 DEF PhaseOf
    <3>2. PhaseOf(t)' = "removed"
      BY <1>1, <1>3 DEF PhaseOf
    <3> QED
      BY <3>1, <3>2 DEF OwnerOf
  <2>4. Phase' = Phase /\ Owner' = Owner
    BY <1>1, <2>2, <2>3 DEF Phase, Owner
  <2> QED
    BY <1>1, <2>4 DEF Lifecycle!vars
<1>4. CASE job[j] \notin Holding
  <2>1. \A r \in Requests : Holders(r)' = Holders(r)
    BY <1>1, <1>4 DEF Holders, Holding, IInv, TypeOK
  <2> QED
    BY <1>1, <2>1, Stutter
<1> QED
  BY <1>2, <1>3, <1>4

(* The other steps of an execution are its own business. *)
LEMMA QuietRefines ==
    ASSUME IInv, NEW j \in Requests,
           Deliver(j) \/ LoadRun(j) \/ RunEngine(j) \/ PostSlack(j) \/ PostRecovery(j)
    PROVE  UNCHANGED Lifecycle!vars
<1>1. target' = target /\ status' = status /\ verdict' = verdict
  BY DEF Deliver, LoadRun, RunEngine, PostSlack, PostRecovery, handlerVars, runVars
<1>2. \E phase \in JobPhases :
        /\ job' = [job EXCEPT ![j] = phase]
        /\ phase \in Holding <=> job[j] \in Holding
  BY DEF Deliver, LoadRun, RunEngine, PostSlack, PostRecovery, Goto, Return, Holding,
     JobPhases, Running, Announcing
<1>3. \A r \in Requests : Holders(r)' = Holders(r)
  BY <1>1, <1>2 DEF Holders, IInv, TypeOK
<1> QED
  BY <1>1, <1>3, Stutter

(* Deletions. *)
LEMMA DeleteRefines ==
    ASSUME IInv, NEW S \in SUBSET Requests, DeleteRuns(S),
           \A r \in S : status[r] \in Live
    PROVE  Lifecycle!Next
<1>1. /\ target' = target /\ job' = job
      /\ \A r \in Requests : status'[r] = IF r \in S THEN "deleted" ELSE status[r]
  BY DEF DeleteRuns, handlerVars, jobVars
<1>2. \A r \in Requests : Holders(r)' = Holders(r)
  BY <1>1 DEF Holders
<1>3. \A r \in Requests \ S : PhaseOf(r)' = PhaseOf(r) /\ OwnerOf(r)' = OwnerOf(r)
  BY <1>1, <1>2, SameView
<1>4. \A r \in S : PhaseOf(r)' = "removed"
  BY <1>1 DEF PhaseOf
<1>5. \A r \in S : OwnerOf(r)' = NoRun
  BY <1>4 DEF OwnerOf
<1>6. \A r \in S : PhaseOf(r) \notin {"absent", "removed"}
  BY DEF PhaseOf, Live
<1>7. /\ Phase' = [r \in Requests |-> IF r \in S THEN "removed" ELSE Phase[r]]
      /\ Owner' = [r \in Requests |-> IF r \in S THEN NoRun ELSE Owner[r]]
  BY <1>3, <1>4, <1>5 DEF Phase, Owner
<1>8. Lifecycle!Remove(S)
  BY <1>6, <1>7 DEF Lifecycle!Remove, DeleteRuns, Phase
<1> QED
  BY <1>8 DEF Lifecycle!Next

LEMMA InitRefines == Init => Lifecycle!Init
<1> SUFFICES ASSUME Init PROVE Lifecycle!Init
  OBVIOUS
<1>1. \A r \in Requests : PhaseOf(r) = "absent"
  BY DEF Init, PhaseOf
<1>2. \A r \in Requests : OwnerOf(r) = NoRun
  BY <1>1 DEF OwnerOf
<1> QED
  BY <1>1, <1>2 DEF Lifecycle!Init, Phase, Owner, Init

LEMMA StepRefines == IInv /\ [Next]_vars => [Lifecycle!Next]_(Lifecycle!vars)
<1> SUFFICES ASSUME IInv, [Next]_vars
             PROVE  Lifecycle!Next \/ UNCHANGED Lifecycle!vars
  OBVIOUS
<1>1. CASE UNCHANGED vars
  <2>1. \A r \in Requests : Holders(r)' = Holders(r)
    BY <1>1 DEF vars, handlerVars, jobVars, Holders
  <2> QED
    BY <1>1, <2>1, Stutter DEF vars, runVars
<1>2. ASSUME NEW q \in Requests, Handle(q) \/ RateLimited(q) \/ HandlerFails(q)
      PROVE  Lifecycle!Next \/ UNCHANGED Lifecycle!vars
  BY <1>2, HandlerRefines
<1>3. ASSUME NEW j \in Requests, Process(j) \/ JobFails(j)
      PROVE  Lifecycle!Next \/ UNCHANGED Lifecycle!vars
  BY <1>3, ClaimRefines, SaveRefines, LeaveRefines, QuietRefines DEF Process
<1>4. ASSUME NEW r \in Requests, DeleteRun(r)
      PROVE  Lifecycle!Next
  BY <1>4, DeleteRefines DEF DeleteRun
<1>5. ASSUME NEW cutoff \in 2..clock + 1, CleanupRetention(cutoff)
      PROVE  Lifecycle!Next
  BY <1>5, DeleteRefines DEF CleanupRetention
<1> QED
  BY <1>1, <1>2, <1>3, <1>4, <1>5 DEF Next

(* The hosted pipeline gives every run one owner at a time and one result.         *)
THEOREM Refinement == Spec => ImplementsLifecycle
BY InitRefines, StepRefines, Inductive, PTL DEF Spec, Lifecycle!Spec, ImplementsLifecycle
=============================================================================
