----------------------------- MODULE LiveTraffic -----------------------------
(***************************************************************************)
(* Live traffic on the hosted server: the collector in the user's process  *)
(* (collector/live.py), POST /v1/traffic (server/routes/traffic.py) with   *)
(* its rate limit, quota and metering, the cron jobs and their leases      *)
(* (server/worker.py) and the drift check of a project (server/drift.py).  *)
(*                                                                         *)
(* There is one project with one key.  A handler is a coroutine over one   *)
(* database and one Redis: an action is what it does between two awaits.   *)
(* Time is counted in units of which a cron interval has a few.            *)
(***************************************************************************)
EXTENDS Integers, FiniteSets, Sequences

CONSTANTS
    Recorders,   \* threads that record trajectories
    Workers,     \* replicas of the worker
    Settings,    \* what is scheduled in an instance, its limits, and what may fail
    Interval,    \* between two firings of the drift cron
    LeaseTTL,    \* _LEASE_TTL_SECONDS
    Skew,        \* how late a replica may fire
    Window,      \* drift_window_minutes
    MinSamples,  \* drift_min_samples
    Retention    \* AGENTDIFF_LIVE_RETENTION_DAYS

None == "none"
NoConfig == [row |-> 0, by |-> None]
FaultKinds == {"network", "redis", "api", "worker", "engine", "slack", "console"}

ASSUME TimeAssumption ==
    /\ {Interval, LeaseTTL, Window, MinSamples, Retention} \subseteq Nat \ {0}
    /\ Skew \in Nat /\ Skew < LeaseTTL /\ LeaseTTL < Interval
ASSUME RecorderAssumption == IsFiniteSet(Recorders)
ASSUME TrafficSettings ==
    \A s \in Settings :
        /\ {s.records, s.rate, s.quota, s.time} \subseteq Nat
        /\ s.flushEvery \in Nat \ {0}
        /\ s.recorders \subseteq Recorders /\ s.sweeps \subseteq Workers
        /\ {s.capped, s.ci} \subseteq BOOLEAN
        /\ s.faults \subseteq FaultKinds

VARIABLES
    setting,
    now,
    (* the collector *)
    recorded,   \* trajectories so far, which are numbered
    buffer,
    (* the API and Redis *)
    requests,   \* POST /v1/traffic, in the order they were sent
    hits,       \* of the rate limiter's key
    expires,    \* when it does, 0 if it does not
    usage,      \* UsageCounter.trajectories of the period
    (* tables the console changes too *)
    rows,       \* live_trajectories, a batch to a row
    project,    \* whether it is there
    revoked,    \* whether its key is
    slack,      \* its SlackConfig
    (* the cron jobs *)
    lease,      \* when the drift lease expires
    sweeps,     \* drift sweeps that took the lease
    drifts      \* drift runs with their findings

collectorVars == <<recorded, buffer>>
limiterVars == <<hits, expires>>
accessVars == <<project, revoked, slack>>
cronVars == <<lease, sweeps, drifts>>
trafficVars == <<collectorVars, requests, limiterVars, usage>>
liveVars == <<setting, now, trafficVars, rows, accessVars, cronVars>>

May(fault) == fault \in setting.faults
Trajectories == 1 .. setting.records
Ended == {"lost", "refused", "failed", "dead", "done"}
RequestPhases == {"sent", "project", "limit", "expire", "quota", "store", "meter"} \cup Ended
SweepPhases == {"list", "read", "engine", "record", "notify", "over", "dead"}

LiveTypeOK ==
    /\ setting \in Settings
    /\ now \in 0 .. setting.time
    /\ recorded \in 0 .. setting.records
    /\ buffer \subseteq 1 .. recorded
    /\ \A i \in DOMAIN requests :
        LET r == requests[i]
        IN  /\ r.by \in Recorders /\ r.batch \subseteq 1 .. recorded /\ r.batch # {}
            /\ r.phase \in RequestPhases
            /\ {r.waits, r.late} \subseteq BOOLEAN
            /\ r.stored \in -1 .. now
    /\ {hits, expires} \subseteq Nat
    /\ usage \in 0 .. recorded
    /\ \A i \in DOMAIN rows : rows[i].at \in 0 .. now /\ rows[i].batch \subseteq 1 .. recorded
    /\ {project, revoked} \subseteq BOOLEAN
    /\ lease \in 0 .. now + LeaseTTL
    /\ \A i \in DOMAIN sweeps : sweeps[i].phase \in SweepPhases /\ sweeps[i].began \in 0 .. now
    /\ \A i \in DOMAIN drifts : drifts[i].sweep \in DOMAIN sweeps /\ drifts[i].verdict \in {"warn", "fail"}

LiveInit ==
    /\ setting \in Settings
    /\ now = 0
    /\ recorded = 0 /\ buffer = {}
    /\ requests = <<>>
    /\ hits = 0 /\ expires = 0 /\ usage = 0
    /\ rows = <<>>
    /\ project = TRUE /\ revoked = FALSE
    /\ slack = NoConfig
    /\ lease = 0 /\ sweeps = <<>> /\ drifts = <<>>
-----------------------------------------------------------------------------
(* The collector: the buffer is emptied under the lock, the batch is posted *)
(* outside it, and is gone whatever becomes of the post.                    *)

Busy(t) == \E i \in DOMAIN requests : requests[i].by = t /\ requests[i].waits

PostBatch(t, batch) ==
    requests' = Append(requests,
        [by |-> t, batch |-> batch, phase |-> "sent", waits |-> TRUE,
         late |-> revoked \/ ~project, stored |-> -1])

Record(t) ==
    /\ t \in setting.recorders /\ recorded < setting.records /\ ~Busy(t)
    /\ recorded' = recorded + 1
    /\ LET filled == buffer \cup {recorded + 1}
       IN  IF Cardinality(filled) >= setting.flushEvery
           THEN buffer' = {} /\ PostBatch(t, filled)
           ELSE buffer' = filled /\ UNCHANGED requests
    /\ UNCHANGED <<setting, now, limiterVars, usage, rows, accessVars, cronVars>>

Flush(t) ==
    /\ t \in setting.recorders /\ ~Busy(t) /\ buffer # {}
    /\ buffer' = {}
    /\ PostBatch(t, buffer)
    /\ UNCHANGED <<setting, now, recorded, limiterVars, usage, rows, accessVars, cronVars>>

(* The post times out on the client; the server may go on with it. *)
GiveUp(i) ==
    /\ May("network") /\ requests[i].waits
    /\ requests' = [requests EXCEPT ![i].waits = FALSE]
    /\ UNCHANGED <<setting, now, collectorVars, limiterVars, usage, rows, accessVars, cronVars>>
-----------------------------------------------------------------------------
(* POST /v1/traffic. *)

At(i, phase) == requests[i].phase = phase
Moved(r, phase) ==
    [r EXCEPT !.phase = phase, !.waits = @ /\ phase \notin Ended]
Move(i, phase) == requests' = [requests EXCEPT ![i] = Moved(@, phase)]

Unlimited == <<setting, now, collectorVars, usage, rows, accessVars, cronVars>>

Arrive(i) ==
    /\ At(i, "sent")
    /\ \/ Move(i, IF revoked \/ ~project THEN "refused" ELSE "project")
       \/ May("network") /\ Move(i, "lost")
    /\ UNCHANGED <<limiterVars, Unlimited>>

(* The key is verified before the project is looked up. *)
FindProject(i) ==
    /\ At(i, "project")
    /\ Move(i, IF project THEN "limit" ELSE "refused")
    /\ UNCHANGED <<limiterVars, Unlimited>>

Allowed(count) == count =< setting.rate

(* INCR, and EXPIRE for the first hit.  A call that raises lets the request *)
(* pass, whether Redis has applied it or not.                              *)
CheckRateLimit(i) ==
    /\ At(i, "limit")
    /\ \/ /\ hits' = hits + 1
          /\ Move(i, IF hits' = 1 THEN "expire" ELSE IF Allowed(hits') THEN "quota" ELSE "refused")
       \/ May("redis") /\ hits' \in {hits, hits + 1} /\ Move(i, "quota")
    /\ UNCHANGED <<expires, Unlimited>>

SetExpiry(i) ==
    /\ At(i, "expire")
    /\ \/ expires' = now + 1 /\ Move(i, IF Allowed(1) THEN "quota" ELSE "refused")
       \/ May("redis") /\ expires' \in {expires, now + 1} /\ Move(i, "quota")
    /\ UNCHANGED <<hits, Unlimited>>

Expire ==
    /\ expires # 0 /\ now >= expires
    /\ hits' = 0 /\ expires' = 0
    /\ UNCHANGED <<requests, Unlimited>>

(* Mutant of CheckQuota: a quota that is just used up still admits. *)
CheckQuotaLate(i) ==
    /\ At(i, "quota")
    /\ Move(i, IF setting.capped /\ usage > setting.quota THEN "refused" ELSE "store")
    /\ UNCHANGED <<limiterVars, Unlimited>>

CheckQuota(i) ==
    /\ At(i, "quota")
    /\ Move(i, IF setting.capped /\ usage >= setting.quota THEN "refused" ELSE "store")
    /\ UNCHANGED <<limiterVars, Unlimited>>

(* Rows of a project that is gone violate their foreign key. *)
Store(i) ==
    /\ At(i, "store")
    /\ IF project
       THEN /\ rows' = Append(rows, [batch |-> requests[i].batch, at |-> now])
            /\ requests' = [requests EXCEPT ![i] = [Moved(@, "meter") EXCEPT !.stored = now]]
       ELSE /\ Move(i, "failed")
            /\ UNCHANGED rows
    /\ UNCHANGED <<setting, now, collectorVars, limiterVars, usage, accessVars, cronVars>>

(* Mutant of IncrementUsage: a metering whose answer is lost is repeated. *)
IncrementUsageAgain(i) ==
    /\ At(i, "meter")
    /\ usage' = usage + Cardinality(requests[i].batch)
    /\ Move(i, "done") \/ UNCHANGED requests
    /\ UNCHANGED <<setting, now, collectorVars, limiterVars, rows, accessVars, cronVars>>

IncrementUsage(i) ==
    /\ At(i, "meter")
    /\ usage' = usage + Cardinality(requests[i].batch)
    /\ Move(i, "done")
    /\ UNCHANGED <<setting, now, collectorVars, limiterVars, rows, accessVars, cronVars>>

(* The API process dies with a request. *)
Die(i) ==
    /\ May("api") /\ requests[i].phase \notin Ended \cup {"sent"}
    /\ Move(i, "dead")
    /\ UNCHANGED <<limiterVars, Unlimited>>

TrafficNext ==
    \/ \E t \in Recorders : Record(t) \/ Flush(t)
    \/ \E i \in DOMAIN requests :
          \/ GiveUp(i) \/ Arrive(i) \/ FindProject(i) \/ CheckRateLimit(i) \/ SetExpiry(i)
          \/ CheckQuota(i) \/ Store(i) \/ IncrementUsage(i) \/ Die(i)
    \/ Expire
-----------------------------------------------------------------------------
(* The cron jobs. *)

LastTick == now - (now % Interval)
Due(w) ==
    /\ w \in setting.sweeps /\ now - LastTick =< Skew
    /\ ~\E i \in DOMAIN sweeps : sweeps[i].worker = w /\ sweeps[i].tick = LastTick

(* SET NX: the key is not there, or has expired. *)
Leased == now >= lease

(* A replica that fires and does not get the lease skips this tick; one    *)
(* that cannot tell skips it too, although the lease may be its own.       *)
CheckDriftAll(w) ==
    /\ Due(w) /\ Leased
    /\ lease' = now + LeaseTTL
    /\ \/ sweeps' = Append(sweeps, [worker |-> w, tick |-> LastTick, began |-> now, phase |-> "list",
                                    base |-> {}, cand |-> {}, verdict |-> "pass", alerts |-> 0])
       \/ May("redis") /\ UNCHANGED sweeps
    /\ UNCHANGED <<setting, now, trafficVars, rows, accessVars, drifts>>

Stage(i, phase) == sweeps[i].phase = phase
Turn(i, phase) == sweeps' = [sweeps EXCEPT ![i].phase = phase]
SweepOnly == <<setting, now, trafficVars, rows, accessVars, lease, drifts>>

(* Mutant of Captured: a range that has both its ends. *)
CapturedInclusive(from, to) ==
    UNION {rows[k].batch : k \in {j \in DOMAIN rows : from =< rows[j].at /\ rows[j].at =< to}}

(* What was captured at a time in a range. *)
Captured(from, to) ==
    UNION {rows[k].batch : k \in {j \in DOMAIN rows : from =< rows[j].at /\ rows[j].at < to}}

ListProjects(i) ==
    /\ Stage(i, "list")
    /\ Turn(i, IF Captured(now - 2 * Window, now + 1) # {} THEN "read" ELSE "over")
    /\ UNCHANGED SweepOnly

Enough(base, cand) == Cardinality(base) >= MinSamples /\ Cardinality(cand) >= MinSamples

(* Both windows, and the configuration of the newest CI run. *)
ReadWindows(i) ==
    /\ Stage(i, "read")
    /\ LET base == Captured(now - 2 * Window, now - Window)
           cand == Captured(now - Window, now)
       IN  IF Enough(base, cand) /\ setting.ci
           THEN sweeps' = [sweeps EXCEPT ![i] = [@ EXCEPT !.phase = "engine", !.base = base, !.cand = cand]]
           ELSE Turn(i, "over")
    /\ UNCHANGED SweepOnly

(* The engine may also raise, which ends the check of this project. *)
CompareWindows(i) ==
    /\ Stage(i, "engine")
    /\ \/ \E v \in {"warn", "fail"} :
             sweeps' = [sweeps EXCEPT ![i] = [@ EXCEPT !.phase = "record", !.verdict = v]]
       \/ Turn(i, "over")
    /\ UNCHANGED SweepOnly

(* One transaction for the run and its findings. *)
RecordDrift(i) ==
    /\ Stage(i, "record")
    /\ IF project
       THEN /\ drifts' = Append(drifts, [sweep |-> i, verdict |-> sweeps[i].verdict, at |-> now])
            /\ Turn(i, "notify")
       ELSE Turn(i, "over") /\ UNCHANGED drifts
    /\ UNCHANGED <<setting, now, trafficVars, rows, accessVars, lease>>

(* The bot, then the webhook unless the bot's post was acknowledged.       *)
Posts == {1} \cup (IF May("slack") THEN {0, 2} ELSE {})

PostDrift(i) ==
    /\ Stage(i, "notify")
    /\ \E n \in IF slack = NoConfig THEN {0} ELSE Posts :
          sweeps' = [sweeps EXCEPT ![i] = [@ EXCEPT !.phase = "over", !.alerts = n]]
    /\ UNCHANGED SweepOnly

(* The worker dies, or arq's timeout cancels the job. *)
EndSweep(i) ==
    /\ May("worker") /\ sweeps[i].phase \notin {"over", "dead"}
    /\ Turn(i, "dead")
    /\ UNCHANGED SweepOnly

(* Live trajectories past their retention, at some time of the day; a row   *)
(* that is deleted keeps its place, with nothing in it.                    *)
PastRetention(row) == row.at < now - Retention
CleanupRetention ==
    /\ \E k \in DOMAIN rows : PastRetention(rows[k]) /\ rows[k].batch # {}
    /\ rows' = [k \in DOMAIN rows |->
         IF PastRetention(rows[k]) THEN [rows[k] EXCEPT !.batch = {}] ELSE rows[k]]
    /\ UNCHANGED <<setting, now, trafficVars, accessVars, cronVars>>

(* Time passes. *)
Tick ==
    /\ now < setting.time
    /\ now' = now + 1
    /\ UNCHANGED <<setting, trafficVars, rows, accessVars, cronVars>>

CronNext ==
    \/ \E w \in Workers : CheckDriftAll(w)
    \/ \E i \in DOMAIN sweeps :
          \/ ListProjects(i) \/ ReadWindows(i) \/ CompareWindows(i) \/ RecordDrift(i)
          \/ PostDrift(i) \/ EndSweep(i)
    \/ CleanupRetention
    \/ Tick

LiveNext == TrafficNext \/ CronNext
-----------------------------------------------------------------------------
(* Properties. *)

Size(is) == Cardinality(UNION {requests[i].batch : i \in is})
Stored == {i \in DOMAIN requests : requests[i].stored >= 0}
Unmetered == {i \in Stored : requests[i].phase # "done"}

(* No trajectory is sent twice or forgotten: it is in the buffer, or in one *)
(* batch, and nothing that fills a batch stays behind (live.py:45-64).     *)
SentOnce ==
    /\ Cardinality(buffer) < setting.flushEvery
    /\ \A n \in 1 .. recorded :
          Cardinality({i \in DOMAIN requests : n \in requests[i].batch})
              + (IF n \in buffer THEN 1 ELSE 0) = 1

(* A stored batch is in the table, once, until its retention or the        *)
(* project ends; what was sent after the key was revoked or the project    *)
(* deleted is never stored.                                                *)
StoredOnce ==
    /\ \A i \in Stored : ~requests[i].late
    /\ \A n \in 1 .. recorded : Cardinality({k \in DOMAIN rows : n \in rows[k].batch}) <= 1
    /\ project => \A i \in Stored :
          requests[i].stored >= now - Retention => \E k \in DOMAIN rows : rows[k].batch = requests[i].batch

(* Usage lags behind what is stored by the batches whose metering is still *)
(* to come or died with the process; and it passes the cap by what the     *)
(* recorders can have in flight (traffic.py:50-63).                        *)
Metered ==
    /\ usage = Size(Stored) - Size(Unmetered)
    /\ setting.capped /\ ~May("network") /\ setting.quota > 0 =>
          usage < setting.quota + Cardinality(Recorders) * setting.flushEvery

(* Every trajectory, and what the API does with it, is accounted for. *)
TrafficAccounted == SentOnce /\ StoredOnce /\ Metered

(* A drift run is recorded once by a sweep, of two windows that are big    *)
(* enough and share nothing, and nothing else is announced.                *)
DriftIsBacked ==
    /\ \A d \in DOMAIN drifts :
          LET s == sweeps[drifts[d].sweep]
          IN  /\ Cardinality(s.base) >= MinSamples /\ Cardinality(s.cand) >= MinSamples
              /\ s.base \cap s.cand = {}
              /\ s.base \cup s.cand \subseteq UNION {requests[i].batch : i \in Stored}
              /\ \A e \in DOMAIN drifts : drifts[e].sweep = drifts[d].sweep => d = e
    /\ \A i \in DOMAIN sweeps :
          sweeps[i].alerts > 0 => \E d \in DOMAIN drifts : drifts[d].sweep = i

(* "only one worker executes each cron per interval -- no double drift     *)
(* runs" (docs/deploy-production.md:177): of two sweeps that record a drift *)
(* run, the earlier has done so when the later begins.                     *)
NoDoubleDrift ==
    \A d, e \in DOMAIN drifts :
        drifts[d].sweep < drifts[e].sweep => drifts[d].at =< sweeps[drifts[e].sweep].began
=============================================================================
