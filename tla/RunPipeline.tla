---------------------------- MODULE RunPipeline -----------------------------
(***************************************************************************)
(* The life of an uploaded run on the hosted server: the handler of        *)
(* POST /v1/runs (server/routes/ingest.py), the arq queue, the worker's    *)
(* process_run (server/worker.py) and the two ways a run is deleted        *)
(* (server/routes/manage.py, cleanup_retention in server/worker.py).       *)
(*                                                                         *)
(* Handlers and jobs are coroutines over one PostgreSQL database: an       *)
(* action is what one of them does between two awaits, a transaction is    *)
(* one action.  A request inserts at most one run and enqueues at most one *)
(* job, so the request's identity also names its run and its job.          *)
(***************************************************************************)
EXTENDS Integers, FiniteSets

CONSTANTS
    Requests,        \* uploads received by the API
    Keys,            \* idempotency keys (of the one project modelled)
    KeyOf,           \* the key each request carries
    EngineVerdicts,  \* verdicts the engine may reach in this instance
    Capped,          \* TRUE: the organisation's plan has a monthly cap
    Limit,           \* free_runs_per_month, for a capped plan
    MaxInFlight,     \* requests the API serves at a time
    MaxTries,        \* func(process_run, max_tries=3)
    Faults,          \* which components may fail in this instance
    NoRun            \* "no run"

NoVerdict == "none"
Alerting == {"warn", "fail"}
Verdict == {"pass"} \cup Alerting

ASSUME RequestsAssumption == IsFiniteSet(Requests) /\ NoRun \notin Requests
ASSUME KeyAssumption == KeyOf \in [Requests -> Keys]
ASSUME VerdictAssumption == EngineVerdicts \subseteq Verdict
ASSUME BoundAssumption ==
    /\ Capped \in BOOLEAN
    /\ Limit \in Nat \ {0}
    /\ MaxInFlight \in Nat \ {0}
    /\ MaxTries \in Nat \ {0}
ASSUME FaultAssumption == Faults \subseteq {"handler", "enqueue", "job", "slack"}

VARIABLES
    (* POST /v1/runs handlers *)
    pc,         \* the await each request's handler stands at
    target,     \* the run the request was resolved to
    reply,      \* what the client was told
    (* the runs table and its findings; a run is named by the request that inserted it *)
    status,     \* "absent" before the INSERT, "deleted" after the DELETE
    verdict,
    findings,   \* batches of Finding rows written for the run
    error,      \* TRUE once run.error has been set
    born,       \* created_at, 0 before the INSERT
    clock,      \* the last created_at given out
    runsUsed,   \* UsageCounter.runs of the current period
    (* the arq queue and the process_run executions *)
    job,        \* where the job enqueued by a request is
    tries,      \* deliveries of the job so far
    result,     \* verdict held by the executing coroutine
    (* what left the server *)
    alerts,     \* incident posts attempted for a run
    recovered   \* runs announced as a recovery

handlerVars == <<pc, target, reply>>
runVars == <<status, verdict, findings, error, born, clock>>
jobVars == <<job, tries, result>>
outVars == <<alerts, recovered>>
vars == <<handlerVars, runVars, runsUsed, jobVars, outVars>>

-----------------------------------------------------------------------------
Active == {"lookup", "quota", "insert", "meter", "enqueue"}
Replies == {"none", "pending", "processing", "done", "failed", "429", "500"}
Accepted == {"pending", "processing", "done", "failed"}

(* Phases of a job in which process_run has claimed the run and not yet settled it. *)
Holding == {"load", "engine", "save_failed", "save_done"}
(* Phases after the verdict was committed. *)
Announcing == {"notify", "recovery"}
Running == {"claim"} \cup Holding \cup Announcing
JobPhases == {"none", "queued", "over", "dropped"} \cup Running

Live == {"pending", "processing", "done", "failed"}

TypeOK ==
    /\ pc \in [Requests -> {"new", "end"} \cup Active]
    /\ target \in [Requests -> Requests \cup {NoRun}]
    /\ reply \in [Requests -> Replies]
    /\ status \in [Requests -> {"absent", "deleted"} \cup Live]
    /\ verdict \in [Requests -> Verdict \cup {NoVerdict}]
    /\ findings \in [Requests -> Nat]
    /\ error \in [Requests -> BOOLEAN]
    /\ born \in [Requests -> Nat]
    /\ clock \in Nat
    /\ runsUsed \in Nat
    /\ job \in [Requests -> JobPhases]
    /\ tries \in [Requests -> 0..MaxTries]
    /\ result \in [Requests -> Verdict \cup {NoVerdict}]
    /\ alerts \in [Requests -> Nat]
    /\ recovered \subseteq Requests

Init ==
    /\ pc = [q \in Requests |-> "new"]
    /\ target = [q \in Requests |-> NoRun]
    /\ reply = [q \in Requests |-> "none"]
    /\ status = [r \in Requests |-> "absent"]
    /\ verdict = [r \in Requests |-> NoVerdict]
    /\ findings = [r \in Requests |-> 0]
    /\ error = [r \in Requests |-> FALSE]
    /\ born = [r \in Requests |-> 0]
    /\ clock = 0
    /\ runsUsed = 0
    /\ job = [j \in Requests |-> "none"]
    /\ tries = [j \in Requests |-> 0]
    /\ result = [j \in Requests |-> NoVerdict]
    /\ alerts = [r \in Requests |-> 0]
    /\ recovered = {}

-----------------------------------------------------------------------------
(* create_run, one action per await. *)

Standing(P) == {q \in Requests : pc[q] \in P}
Count(P) == Cardinality(Standing(P))
Passed == {"insert", "meter"}   \* let through by the quota check, not yet counted
Unmetered == {"meter"}          \* stored, not yet counted
InFlight == Standing(Active)

Answer(q, what) ==
    /\ pc' = [pc EXCEPT ![q] = "end"]
    /\ reply' = [reply EXCEPT ![q] = what]

(* The rate limiter lets the request through, or failed and was ignored. *)
Arrive(q) ==
    /\ pc[q] = "new"
    /\ Count(Active) < MaxInFlight
    /\ pc' = [pc EXCEPT ![q] = "lookup"]
    /\ UNCHANGED <<target, reply, runVars, runsUsed, jobVars, outVars>>

(* The rate limiter refuses. *)
RateLimited(q) ==
    /\ pc[q] = "new"
    /\ Answer(q, "429")
    /\ UNCHANGED <<target, runVars, runsUsed, jobVars, outVars>>

(* Variant: the lookup forgets the key. *)
ExistingAnyKey(k) == {r \in Requests : status[r] \in Live}

(* Rows the SELECT by (project_id, idempotency_key) returns. *)
Existing(k) == {r \in Requests : status[r] \in Live /\ KeyOf[r] = k}

(* Variant: a replay of a pending run is metered again. *)
LookupRunMetersReplay(q) ==
    /\ pc[q] = "lookup"
    /\ \/ /\ Existing(KeyOf[q]) = {}
          /\ pc' = [pc EXCEPT ![q] = "quota"]
          /\ UNCHANGED target
       \/ \E r \in Existing(KeyOf[q]) :
          /\ target' = [target EXCEPT ![q] = r]
          /\ pc' = [pc EXCEPT ![q] = "meter"]
    /\ UNCHANGED <<reply, runVars, runsUsed, jobVars, outVars>>

(* scalar_one_or_none: no row, one row (a replay), or MultipleResultsFound. *)
LookupRun(q) ==
    /\ pc[q] = "lookup"
    /\ LET found == Existing(KeyOf[q]) IN
       \/ /\ found = {}
          /\ pc' = [pc EXCEPT ![q] = "quota"]
          /\ UNCHANGED <<target, reply>>
       \/ \E r \in found :
          /\ found = {r}
          /\ target' = [target EXCEPT ![q] = r]
          /\ IF status[r] = "pending"
             THEN pc' = [pc EXCEPT ![q] = "enqueue"] /\ UNCHANGED reply
             ELSE Answer(q, status[r])
       \/ /\ Cardinality(found) > 1
          /\ Answer(q, "500")
          /\ UNCHANGED target
    /\ UNCHANGED <<runVars, runsUsed, jobVars, outVars>>

(* Variant: the limit itself is still allowed. *)
QuotaExceededLate == Capped /\ runsUsed > Limit

QuotaExceeded == Capped /\ runsUsed >= Limit

(* _enforce_quota: reads the counter; nothing is reserved. *)
EnforceQuota(q) ==
    /\ pc[q] = "quota"
    /\ IF QuotaExceeded
       THEN Answer(q, "429")
       ELSE pc' = [pc EXCEPT ![q] = "insert"] /\ UNCHANGED reply
    /\ UNCHANGED <<target, runVars, runsUsed, jobVars, outVars>>

(* INSERT of the run and its trajectories, committed. *)
InsertRun(q) ==
    /\ pc[q] = "insert"
    /\ status' = [status EXCEPT ![q] = "pending"]
    /\ clock' = clock + 1
    /\ born' = [born EXCEPT ![q] = clock + 1]
    /\ target' = [target EXCEPT ![q] = q]
    /\ pc' = [pc EXCEPT ![q] = "meter"]
    /\ UNCHANGED <<reply, verdict, findings, error, runsUsed, jobVars, outVars>>

(* increment_usage: an UPSERT in a transaction of its own. *)
IncrementUsage(q) ==
    /\ pc[q] = "meter"
    /\ runsUsed' = runsUsed + 1
    /\ pc' = [pc EXCEPT ![q] = "enqueue"]
    /\ UNCHANGED <<target, reply, runVars, jobVars, outVars>>

(* _maybe_enqueue: a failing enqueue is swallowed.  A replay answers "pending" too: *)
(* the status it read.                                                              *)
Enqueue(q) ==
    /\ pc[q] = "enqueue"
    /\ \/ job' = [job EXCEPT ![q] = "queued"]
       \/ "enqueue" \in Faults /\ UNCHANGED job
    /\ Answer(q, "pending")
    /\ UNCHANGED <<target, runVars, runsUsed, tries, result, outVars>>

(* The API process dies or the database refuses: the client gets an error. *)
HandlerFails(q) ==
    /\ "handler" \in Faults
    /\ pc[q] \in Active
    /\ Answer(q, "500")
    /\ UNCHANGED <<target, runVars, runsUsed, jobVars, outVars>>

-----------------------------------------------------------------------------
(* process_run, one action per await; run is the row the job is about. *)

Goto(j, phase) == job' = [job EXCEPT ![j] = phase]

(* The coroutine returns; its locals are gone. *)
Return(j) == Goto(j, "over") /\ result' = [result EXCEPT ![j] = NoVerdict]

(* Variant: the deliveries of a job are not counted. *)
DeliverUncounted(j) ==
    /\ job[j] = "queued"
    /\ Goto(j, "claim")
    /\ UNCHANGED <<handlerVars, runVars, runsUsed, tries, result, outVars>>

(* arq hands the job to a worker. *)
Deliver(j) ==
    /\ job[j] = "queued"
    /\ Goto(j, "claim")
    /\ tries' = [tries EXCEPT ![j] = @ + 1]
    /\ UNCHANGED <<handlerVars, runVars, runsUsed, result, outVars>>

(* Variants: a guard that only looks for finished, or only for running, executions. *)
ClaimableUnlessDone == {"pending", "failed", "processing"}
ClaimableUnlessRunning == {"pending", "failed", "done"}

Claimable == {"pending", "failed"}

(* Variant: the claim is checked but not committed before the engine runs. *)
ClaimRunUncommitted(j) ==
    /\ job[j] = "claim"
    /\ IF status[target[j]] \in Claimable
       THEN Goto(j, "load") /\ UNCHANGED result
       ELSE Return(j)
    /\ UNCHANGED <<handlerVars, runVars, runsUsed, tries, outVars>>

(* UPDATE runs SET status = 'processing' WHERE id = .. AND status IN .., committed. *)
ClaimRun(j) ==
    /\ job[j] = "claim"
    /\ IF status[target[j]] \in Claimable
       THEN /\ status' = [status EXCEPT ![target[j]] = "processing"]
            /\ Goto(j, "load") /\ UNCHANGED result
       ELSE Return(j) /\ UNCHANGED status
    /\ UNCHANGED <<handlerVars, verdict, findings, error, born, clock, runsUsed,
                   tries, outVars>>

(* The run and its trajectories are read; scalar_one raises when the row is gone. *)
LoadRun(j) ==
    /\ job[j] = "load"
    /\ status[target[j]] \in Live
    /\ Goto(j, "engine")
    /\ UNCHANGED <<handlerVars, runVars, runsUsed, tries, result, outVars>>

(* run_engine in a thread, then explain_findings, which never raises. *)
RunEngine(j) ==
    /\ job[j] = "engine"
    /\ \/ Goto(j, "save_failed") /\ UNCHANGED result
       \/ \E v \in EngineVerdicts :
             /\ result' = [result EXCEPT ![j] = v]
             /\ Goto(j, "save_done")
    /\ UNCHANGED <<handlerVars, runVars, runsUsed, tries, outVars>>

(* Variants: the failure is not recorded; the failed run is put back to pending. *)
SaveFailedSilently(j) ==
    /\ job[j] = "save_failed"
    /\ status[target[j]] \in Live
    /\ Return(j)
    /\ UNCHANGED <<handlerVars, runVars, runsUsed, tries, outVars>>

SaveFailedAsPending(j) ==
    /\ job[j] = "save_failed"
    /\ status[target[j]] \in Live
    /\ status' = [status EXCEPT ![target[j]] = "pending"]
    /\ Return(j)
    /\ UNCHANGED <<handlerVars, verdict, findings, error, born, clock, runsUsed,
                   tries, outVars>>

(* The except branch: the exception is recorded, and swallowed. *)
SaveFailed(j) ==
    /\ job[j] = "save_failed"
    /\ status[target[j]] \in Live
    /\ status' = [status EXCEPT ![target[j]] = "failed"]
    /\ error' = [error EXCEPT ![target[j]] = TRUE]
    /\ Return(j)
    /\ UNCHANGED <<handlerVars, verdict, findings, born, clock, runsUsed,
                   tries, outVars>>

(* Variant: the execution forgets to notify. *)
SaveDoneUnannounced(j) ==
    /\ job[j] = "save_done"
    /\ status[target[j]] \in Live
    /\ findings' = [findings EXCEPT ![target[j]] = @ + 1]
    /\ status' = [status EXCEPT ![target[j]] = "done"]
    /\ verdict' = [verdict EXCEPT ![target[j]] = result[j]]
    /\ Return(j)
    /\ UNCHANGED <<handlerVars, error, born, clock, runsUsed, tries, outVars>>

(* Findings, status and verdict in one transaction; the UPDATE does not look at the *)
(* status it replaces.                                                              *)
SaveDone(j) ==
    /\ job[j] = "save_done"
    /\ status[target[j]] \in Live
    /\ findings' = [findings EXCEPT ![target[j]] = @ + 1]
    /\ status' = [status EXCEPT ![target[j]] = "done"]
    /\ verdict' = [verdict EXCEPT ![target[j]] = result[j]]
    /\ Goto(j, "notify")
    /\ UNCHANGED <<handlerVars, error, born, clock, runsUsed, tries, result, outVars>>

(* maybe_post_slack: only warn and fail are posted; a failing delivery is swallowed. *)
PostSlack(j) ==
    /\ job[j] = "notify"
    /\ \/ /\ result[j] \in Alerting
          /\ alerts' = [alerts EXCEPT ![target[j]] = @ + 1]
       \/ /\ result[j] \notin Alerting \/ "slack" \in Faults
          /\ UNCHANGED alerts
    /\ IF result[j] = "pass"
       THEN Goto(j, "recovery") /\ UNCHANGED result
       ELSE Return(j)
    /\ UNCHANGED <<handlerVars, runVars, runsUsed, tries, recovered>>

(* Finished runs created before r, and the verdict of the last of them. *)
DoneBefore(r) == {p \in Requests : status[p] = "done" /\ born[p] < born[r]}
Latest(S) == CHOOSE p \in S : \A o \in S : born[o] =< born[p]
Recovers(r) == DoneBefore(r) # {} /\ verdict[Latest(DoneBefore(r))] \in Alerting

(* post_recovery, when the previous finished run had been a warn or a fail. *)
PostRecovery(j) ==
    /\ job[j] = "recovery"
    /\ IF Recovers(target[j])
       THEN \/ recovered' = recovered \cup {target[j]}
            \/ "slack" \in Faults /\ UNCHANGED recovered
       ELSE UNCHANGED recovered
    /\ Return(j)
    /\ UNCHANGED <<handlerVars, runVars, runsUsed, tries, alerts>>

(* Variant: one delivery too many. *)
LeaveJobLate(j) ==
    /\ \/ Goto(j, "dropped")
       \/ tries[j] =< MaxTries /\ Goto(j, "queued")
    /\ result' = [result EXCEPT ![j] = NoVerdict]
    /\ UNCHANGED <<handlerVars, runVars, runsUsed, tries, outVars>>

(* process_run is left by an exception or a cancellation: arq delivers the job again *)
(* while it has tries left, or gives it up.                                         *)
LeaveJob(j) ==
    /\ \/ Goto(j, "dropped")
       \/ tries[j] < MaxTries /\ Goto(j, "queued")
    /\ result' = [result EXCEPT ![j] = NoVerdict]
    /\ UNCHANGED <<handlerVars, runVars, runsUsed, tries, outVars>>

(* A database or Redis error, a job timeout, a worker that is stopped or dies. *)
JobFails(j) ==
    /\ "job" \in Faults
    /\ job[j] \in Running
    /\ LeaveJob(j)

(* The row the coroutine loads or updates has been deleted meanwhile: the statement *)
(* raises.                                                                          *)
RunGone(j) ==
    /\ job[j] \in {"load", "save_failed", "save_done"}
    /\ status[target[j]] = "deleted"
    /\ LeaveJob(j)

-----------------------------------------------------------------------------
(* Deletion takes the findings and the trajectories along. *)
DeleteRuns(S) ==
    /\ S # {}
    /\ status' = [r \in Requests |-> IF r \in S THEN "deleted" ELSE status[r]]
    /\ verdict' = [r \in Requests |-> IF r \in S THEN NoVerdict ELSE verdict[r]]
    /\ findings' = [r \in Requests |-> IF r \in S THEN 0 ELSE findings[r]]
    /\ error' = [r \in Requests |-> IF r \in S THEN FALSE ELSE error[r]]
    /\ UNCHANGED <<handlerVars, born, clock, runsUsed, jobVars, outVars>>

(* DELETE /v1/runs/{id} by a member of the organisation. *)
DeleteRun(r) == status[r] \in Live /\ DeleteRuns({r})

(* cleanup_retention: every run created before the cutoff, whatever its status. *)
CleanupRetention(cutoff) ==
    DeleteRuns({r \in Requests : status[r] \in Live /\ born[r] < cutoff})

-----------------------------------------------------------------------------
Handle(q) ==
    \/ Arrive(q) \/ LookupRun(q) \/ EnforceQuota(q) \/ InsertRun(q)
    \/ IncrementUsage(q) \/ Enqueue(q)

Process(j) ==
    \/ Deliver(j) \/ ClaimRun(j) \/ LoadRun(j) \/ RunEngine(j) \/ SaveFailed(j)
    \/ SaveDone(j) \/ PostSlack(j) \/ PostRecovery(j) \/ RunGone(j)

Next ==
    \/ \E q \in Requests : Handle(q) \/ RateLimited(q) \/ HandlerFails(q)
    \/ \E j \in Requests : Process(j) \/ JobFails(j)
    \/ \E r \in Requests : DeleteRun(r)
    \/ \E cutoff \in 2..clock + 1 : CleanupRetention(cutoff)

Spec == Init /\ [][Next]_vars

(* The API serves the requests it has accepted and the workers drain the queue. *)
Fairness ==
    /\ \A q \in Requests : WF_vars(Handle(q) /\ pc[q] # "new")
    /\ \A j \in Requests : WF_vars(Process(j))

FairSpec == Spec /\ Fairness
-----------------------------------------------------------------------------
(* Safety.  The parts named here are also the parts of the inductive invariant. *)

Busy(j) == job[j] \in Holding \cup Announcing

(* Never do two executions of process_run work on one run: the claim is the only *)
(* lock, taken by its UPDATE and held until the commit of the result, which does *)
(* not look at the status again (worker.py:82-97, 145-148).                      *)
ClaimExclusive ==
    \A i, j \in Requests : Busy(i) /\ Busy(j) /\ target[i] = target[j] => i = j

(* The findings of a run are written exactly once, together with its verdict, and *)
(* exist for finished runs only: not for a failed, abandoned or deleted run, and   *)
(* not twice after a duplicate delivery (worker.py:82-87, 137-148).                *)
FindingsMatchStatus ==
    \A r \in Requests :
        /\ findings[r] = IF status[r] = "done" THEN 1 ELSE 0
        /\ verdict[r] # NoVerdict <=> status[r] = "done"

(* A run is posted to Slack at most once however often it is delivered, only after *)
(* its verdict is committed, and never as both an incident and a recovery: what    *)
(* was posted agrees with the row (worker.py:152-170).                             *)
PostsMatchRecord ==
    \A r \in Requests :
        /\ alerts[r] =< 1
        /\ alerts[r] = 1 \/ r \in recovered => status[r] \in {"done", "deleted"}
        /\ alerts[r] = 1 => r \notin recovered
        /\ alerts[r] = 1 /\ status[r] = "done" => verdict[r] \in Alerting
        /\ r \in recovered /\ status[r] = "done" => verdict[r] = "pass"

(* A 202 names a run that was committed under the request's own key, and a client *)
(* told "done" is never contradicted later (ingest.py:81-96, 127).                *)
AcceptedIsBacked ==
    \A q \in Requests : reply[q] \in Accepted =>
        /\ target[q] \in Requests
        /\ KeyOf[target[q]] = KeyOf[q]
        /\ status[target[q]] # "absent"
        /\ reply[q] = "done" => status[target[q]] \in {"done", "deleted"}

(* A delivery that ends normally never leaves its run waiting: a skipped claim    *)
(* means that somebody else has, or had, the run (worker.py:93-97).               *)
NoSilentSkip ==
    \A j \in Requests : job[j] = "over" => status[target[j]] # "pending"

(* The soft cap: usage passes the limit by less than the number of requests the   *)
(* API serves at a time (ingest.py:29-35).                                        *)
QuotaOvershoot ==
    Capped => runsUsed + Count(Passed) < Limit + MaxInFlight

(* Usage is never counted without a new run behind it: replays and retries are    *)
(* not metered (ingest.py:90-96, 118-124).                                        *)
MeteredHasRun == runsUsed + Count(Unmetered) =< clock

(* The run as its observers may understand it: RunLifecycle, with a run whose     *)
(* claim no execution holds any more read as abandoned.                           *)
Holders(r) == {j \in Requests : job[j] \in Holding /\ target[j] = r}

PhaseOf(r) ==
    CASE status[r] = "processing" /\ Holders(r) # {} -> "working"
      [] status[r] = "processing" /\ Holders(r) = {} -> "abandoned"
      [] status[r] = "deleted" -> "removed"
      [] OTHER -> status[r]

MemberOf(S) == CHOOSE j \in S : TRUE
OwnerOf(r) == IF PhaseOf(r) = "working" THEN MemberOf(Holders(r)) ELSE NoRun

Phase == [r \in Requests |-> PhaseOf(r)]
Owner == [r \in Requests |-> OwnerOf(r)]

Lifecycle == INSTANCE RunLifecycle
    WITH Runs <- Requests, Workers <- Requests, Verdicts <- Verdict, NoWorker <- NoRun,
         phase <- Phase, owner <- Owner, outcome <- verdict

(* Every step of the handlers, the queue, the workers and the deletions is one of *)
(* RunLifecycle's or none: one owner at a time, a result recorded once.           *)
ImplementsLifecycle == Lifecycle!Spec

-----------------------------------------------------------------------------
(* Liveness, under FairSpec. *)

Settled == {"done", "failed", "deleted"}

(* Some execution of the run was left by an exception or killed. *)
Interrupted(r) ==
    \E j \in Requests : target[j] = r /\ (job[j] = "dropped" \/ tries[j] > 1)

(* Unless an execution of it is interrupted, a run that was enqueued is settled,   *)
(* also when the first enqueue was lost and a replay made up for it                *)
(* (ingest.py:90-95, worker.py:97-148).                                            *)
DeliveredSettles ==
    \A j \in Requests :
        job[j] = "queued" ~>
            \E r \in Requests :
                target[j] = r /\ (status[r] \in Settled \/ Interrupted(r))

(* Unless an execution of it is interrupted, every recorded incident is posted:    *)
(* the commit and the post are not atomic, but the execution that made the first   *)
(* goes on to the second (worker.py:148-152).                                      *)
IncidentPosted ==
    \A r \in Requests :
        status[r] = "done" /\ verdict[r] \in Alerting ~> alerts[r] = 1 \/ Interrupted(r)

(* Whatever fails, the queue drains: max_tries bounds the deliveries of a job      *)
(* (worker.py:266-268).                                                            *)
QueueDrains ==
    \A j \in Requests : job[j] = "queued" ~> job[j] \in {"over", "dropped"}

-----------------------------------------------------------------------------
(* What comments in the code say, refuted by runs of their own. *)

(* "Idempotent replay -- never double-count usage" (ingest.py:90): uploads that    *)
(* carry one key are counted as one run, as long as no run is deleted.             *)
ReplayNotCounted ==
    (\A r \in Requests : status[r] # "deleted") =>
        runsUsed =< Cardinality({KeyOf[r] : r \in {s \in Requests : born[s] > 0}})

(* "so a transient DB/Redis blip retries rather than dropping the run"             *)
(* (worker.py:266): when a delivery ends normally its run is settled, or held by   *)
(* another execution.                                                              *)
RetryProcessesRun ==
    \A j \in Requests :
        job[j] = "over" /\ status[target[j]] = "processing" => Holders(target[j]) # {}
=============================================================================
