# AgentDiff in TLA+

Specifications, model-checking configurations and proofs for AgentDiff: a tool that
samples an LLM agent before and after a change, compares the two behaviours, and a hosted
service that stores, analyses and reports the uploaded runs.

## Inventory of the system

| Component (source) | State | Operations | What is hard | What makes it correct |
|---|---|---|---|---|
| **Hosted run pipeline** (`server/routes/ingest.py`, `server/worker.py`, `server/models.py`) | `runs`, `trajectories`, `findings`, usage counters, the arq queue | `create_run`, `process_run`, `delete_run`, `cleanup_retention` | concurrent uploads of one key, duplicate deliveries, crashes between commit, metering, enqueue and post | one execution at a time, findings once, posts agree with rows, bounded overshoot, nothing stranded |
| **Usage, quota, rate limit, traffic** (`server/usage.py`, `ratelimit.py`, `routes/traffic.py`) | `usage_counters`, Redis counters, `live_trajectories` | `check_quota`, `increment_usage`, `check_rate_limit`, `ingest_traffic` | check-then-act, INCR and EXPIRE not atomic | bounded overshoot, metering follows what is stored |
| **Drift, leases, retention** (`server/drift.py`, `worker.py` crons) | Redis leases, drift runs | `check_drift_all`, `check_drift_for_project`, `cleanup_retention` | several replicas, leases that expire while held, overlapping windows | a drift run rests on two full windows; no double drift runs (refuted) |
| **Management, keys, audit** (`routes/manage.py`, `audit.py`, `deps.py`) | projects, keys, audit log | create, revoke, delete; authentication | read-then-write races | the trail agrees with the tables; one row per revocation (refuted) |
| **Slack OAuth and delivery** (`routes/slack_oauth.py`, `notify.py`, `incident/slack.py`) | state nonces, `slack_configs` | install, callback, disconnect, `_deliver` | single-use state, concurrent upserts, retries of unknown outcome | a state is used once, one configuration per project, the trail tells of what is configured |
| **Sampling engine** (`agentdiff/sampling.py`) | pool threads, attempt threads, scratch files, the output file | `run_samples`, `_run_one_sample_with_retry`, `_run_traced_with_timeout` | abandoned attempts, swallowed flushes, concurrent appends | one trajectory per sample, from the attempt that counts |
| **Capture** (`agentdiff/capture/`) | active tracer and SDK marker per context, events of a tracer, capture files | shims, `Tracer.record`, `_flush`, `record(name)` | context inheritance by threads and tasks, nested shims, cancellation | an exchange is told once, in the right tracer; a trajectory is a history |
| **Cassettes** (`capture/cassette.py`) | a JSONL file, a map in replay | record, lookup | concurrent and late writers, truncation | replay returns what was recorded; fully deterministic (refuted) |
| **Live collector** (`collector/live.py`) | buffer | `record`, `flush`, `_post_batch` | threads, posts outside the lock | no trajectory is sent twice; losses only with a failed post |
| **Comparison and statistics** (`compare.py`, `stats.py`, `output_eval.py`) | none (pure) | tests, BH adjustment, verdicts, findings, output evaluation | ties, empty sides, verdicts given twice, signals that are missing | the correction is the step-up procedure; only corrected verdicts are reported; a full pass has every signal |
| **Attribution** (`attribution/`) | none (pure) | merge of a rescan, manifest diff, reachability, rules | cycles, ranking, names shared or changed | a cause matches what changed; the walk finds what is reachable |
| **CI gate and deliveries** (`cli/ci.py`, `incident/`) | artifact files | sampling both sides, validation, exit code, GitHub upsert | list-then-create, swallowed failures | a verdict rests on two good sides; a delivery never hides it (refuted) |
| Parsers, redaction, syntax-tree analysis | none to speak of | format conversion | formats | not modelled: strings and syntax trees |
| Reports, dashboards, frontend, demo, benchmarks | none | queries and presentation | | not modelled: they change no state |

The parts meet at these places. The command line samples both sides (threads, subprocesses
and capture shims meet in `Tracer`), compares, and uploads with `GITHUB_SHA` as the
idempotency key. The API stores the run and enqueues its id; workers claim it by an UPDATE on
`runs.status`, run the engine in a thread, commit the result and then notify Slack. Live
collectors post trajectories; a cron compares windows of them and writes drift runs; another
cron deletes what is old. All coordination is done by the database (transactions at READ
COMMITTED), by Redis (queue, leases, counters, nonces) and, on the client, by context
variables and two locks.

`PROJECT.json` lists every component with its status and the hazards, each at the line where
it bites with the properties that would catch it.

## Modules

| Module | Role |
|---|---|
| `RunLifecycle` | What the service promises about one run: accepted, claimed by one worker, reported once or failed, abandoned, removed. |
| `RunPipeline` | The handlers, the queue, the executions and the deletions, one action per await; the properties; the refinement mapping. |
| `RunPipelineProofs` | The inductive invariant and the safety theorems. |
| `RunPipelineRefinement` | `RunPipeline` implements `RunLifecycle`. |
| `MCRunPipeline` (+ `.cfg` files) | Instances for TLC. |
| `Sampling` | `run_samples`: the pool, the attempts of a sample and their threads, scratch files, the output file; the properties. |
| `SamplingProofs` | Its inductive invariant and the safety theorems. |
| `MCSampling` (+ `.cfg` files) | The settings TLC runs it with. |
| `Gate` | `agentdiff ci run`: both sides sampled, with a cassette recorded or replayed, checked, compared, the verdict delivered, the exit code; several such commands; the properties. |
| `GateProofs` | Its inductive invariant and the safety theorems. |
| `MCGate` (+ `.cfg` files) | The commands TLC runs it with. |
| `Statistics` | The tests of `stats.py` and the correction for many tests: pure operators. |
| `Comparison` | Two sets of trajectories, case by case, to a corrected verdict, findings and the evaluation of outputs; as `compare`, as `ci` and on the server. Extends `Statistics`. |
| `ComparisonProofs` | What the tests return, that the correction is the step-up procedure, the inductive invariant and the safety theorems. |
| `Attribution` | A rescan merged into `structure.yaml`, the git diff, both manifests, the rules, the walk of the imports, the cause of a finding. |
| `AttributionProofs` | That a walk of the imports has one end, the inductive invariant and the safety theorems. |
| `Capture` | Tasks whose wrapped calls and captures nest, the tracer of each capture, the capture file. |
| `CaptureProofs` | Its inductive invariant and the safety theorems. |
| `LiveTraffic` | The live collector, `POST /v1/traffic`, limiter, quota and metering, the drift sweeps of several replicas, retention. |
| `Console` | Extends `LiveTraffic` with what members of the organisation do beside it: keys, names, deletion, Slack, the audit trail. |
| `ConsoleProofs` | The inductive invariant and the safety theorems of both. |
| `MCConsole` (+ `.cfg` files) | The scenes TLC runs both with. |
| `MCCapture`, `MCComparison`, `MCAttribution` | The instances of these three. |
| `MCEngine` (+ `.cfg` file) | The three in one run: `scene` says which of them moves, the others rest in one initial state. |

### How `RunPipeline` reads the code

Handlers and jobs are coroutines over one database, so an action is what one of them does
between two awaits, and a transaction is one action. A request inserts at most one run and
enqueues at most one job; the request's identity therefore also names its run and its job.

* `pc`, `target`, `reply`: where the handler of a request stands in `create_run`, the run it
  resolved to, the answer. `Arrive`, `LookupRun`, `EnforceQuota`, `InsertRun`,
  `IncrementUsage`, `Enqueue` are the awaits in order; `RateLimited` and the 429 of the quota
  are early returns; `HandlerFails` is an exception, or the end of the process, at any of
  them. `LookupRun` has the three outcomes of `scalar_one_or_none`: none, one, several rows.
* `status`, `verdict`, `findings`, `error`, `born`: the columns of `runs` and the number of
  batches of findings. `clock` orders `created_at`.
* `job`, `tries`, `result`: the arq job and the coroutine that executes it. `ClaimRun` is the
  UPDATE and its commit, `LoadRun` the two SELECTs, `RunEngine` the thread (any verdict, or an
  exception), `SaveFailed` and `SaveDone` the two commits, `PostSlack` and `PostRecovery` what
  follows. `JobFails` leaves the coroutine at any await (database or Redis error, timeout,
  worker shutdown); `RunGone` is the exception that the deletion of the row causes.
* `alerts`, `recovered`: what was posted.
* `DeleteRun`, `CleanupRetention`: both deletions, at any moment.

The operators called variants (for instance `ClaimRunUncommitted`) are not part of `Next`.
They are the code with a plausible mistake, and are used to show that each property notices it.

Abstractions. A verdict and a batch of findings stand for the engine's output. arq is modelled
from how it is used: an exception or a cancellation leads to another delivery while tries are
left, and it may also give a job up early. A rate limiter may refuse or let pass. Posting to
Slack is one step that may fail; the bot-then-webhook fallback is not resolved here. One
project, one billing period and the runs limit are modelled, not the trajectories limit.
`created_at` is taken at the commit of the INSERT. Deleting a whole project and the failure of
a retention sweep (which rolls back) are left out.

### How `Sampling` reads the code

Two kinds of thread act. The thread that serves a sample (the caller's, when there is one
worker, else one of the pool) takes the steps of `Serve(s)`; under a timeout each attempt has a
daemon thread, whose only visible step is `RunnerEnds`: the runner returns, raises or exits and
the tracer flushes. Without a timeout the serving thread calls the runner itself, and takes
that step while it stands at `trying`.

* `config`: `workers`, and whether `timeout_seconds > 0`. `Init` chooses it and nothing changes
  it, so that one run covers several settings.
* `pc[s]`, `attempt[s]`: where `_run_one_sample_with_retry` stands for a sample: `trying` (the
  `try`), `backoff` (the sleep), `append` and `copying` (the `else`), `note` and `noting`
  (`_write_trajectory`), then `recorded` or `raised`. `NextUp` is the order of the loop or of
  the executor's queue; one worker stops at the first exception, a pool drains its queue.
* `thread[s][a]`, `abandoned[s]`: how the runner of an attempt ended, and whether `join` had
  given it up before. An abandoned runner keeps running and may flush at any later moment; its
  flush makes the scratch directory again when that has been removed.
* `scratch[s][a]`: no directory, no file, an empty file, a part of a line, a line. A flush that
  fails is swallowed and leaves any of the first ones.
* `output`, `lock`: the lines of the output file and the holder of `_flush_lock`. Appending is
  two steps: `PutLine` opens the file and writes the first bytes, `EndLine` the rest. A line that
  never got its newline is `torn`, and the line appended to it is `glued`; `load_trajectory_set`
  skips both (`Loaded`).
* `faulted`: the disk faults met so far and whose they were. No guard but their bound reads it.

Abstractions. Durations are left out: a wait may end whenever its caller waits, also just after
the runner has flushed and before its thread has ended. The contents of a trajectory, the test
case a sample belongs to, the cassette context and `_checked_out` are left out. Cleaning up a
scratch directory never fails (`ignore_cleanup_errors`). A fault of the output happens at the
opening or in the middle of a line.

### How `Gate` reads the code

A job is one call of `ci run`. Jobs share the cassette file, the output directories and the
comments of one pull request, and take their steps in any order; nothing in the code makes one
wait for another.

* `setting`: the command line and the configuration of each job, chosen by `Init`; mode `live`
  is a gate without a cassette.
* `pc[j]`, `side[j]`, `left[j]`, `tries[j]`: where `ci_run_cmd` stands. The baseline is sampled
  in a checkout, by a process of its own; the candidate is the working tree, sampled by the
  command itself. Hence abandoned attempts (`late[j]`) of a baseline end with its sampling, and
  those of a candidate live, and record, until the command ends.
* `cassette`: a file that is missing, torn by a kill, or whole, and the last answer recorded for
  each request, which is all that `HTTPCassette._load` keeps. Recording empties it at the start
  of each side; `loaded[j]` is the map of a replaying side and `heard[j]` what the current attempt
  was answered. `CallProvider` has the three ends of a recorded call: an answer that is recorded
  before the runner has it, an answer whose recording fails (`RecordFails`: swallowed, and the file
  may be cut off), and an exception of the transport, which is not recorded (`httpx_shim.py:120`)
  and which the runner may handle and go on (`Raised`). A miss is an exception like any other, so
  that a runner that handles it goes on too (`LookUp`).
* `lines`: the trajectories in the two files of an output directory. They are appended to what
  is there, so a directory that is used again mixes the lines of several jobs, and the check for
  misses and the failure rate read all of them. A line is `ok`, `failed`, or a `miss`, a failure
  whose error begins with `CassetteMissError:`.
* `listed`, `comments`: the upsert is two calls, and the second acts on what the first listed.
  What GitHub has does not change what the command does next, and no property is about it.
* `posts`, `unknown`, `take`, `source` are bookkeeping for the properties: messages Slack took
  and those it took without the client knowing, the last recording of the cassette and the
  recording a replay has loaded. No guard reads them.

Abstractions. The samples of a side are taken one by one; their threads are the subject of
`Sampling`. The calls of a version are a fixed set: a runner whose requests depend on earlier
answers or on time is not modelled. The checks before the first sample (configuration, refs,
import of the runner) end a command that has done nothing yet and are left out. The comparison
gives any verdict; artifacts are written with it. The webhook and the upload to the hosted API
happen, but no later step reads their outcome, so they are left out. Only the httpx shim is
modelled: the aiohttp and gRPC shims call the provider also in a replay. An answer is one
value, so that of its headers and encoding nothing is said. A request that the runner makes again
until it is answered is one call. Comments are never deleted.

### How `Comparison` reads the code

The functions are pure, so the state is only how far `compare_all` and its caller have come
(`pc`) and what they hold: `samples` and `deltas` of the cases done, their verdicts `overall`,
then the result (`verdict`, `weak`), the evaluations `evals` and the incident's `summary`.
`CompareTestCase` is `compare_test_case` on any two sides; `Correct` is the family-wide
correction, the recomputation of the verdicts and the low-power warnings; `EvaluateOutput` is
`evaluate_output` for one case; `Summarise` is `build_incident_summary`. `setting.command`
says whose order of these is followed: `compare` (no incident), `ci` (no evaluation), or
`engine_runner.run_engine` (no correction and no judge, both the summary and evaluations).

Findings of agents are kept by the function of the agent, not by its name (`findings.py:122`):
`FunctionOf` is that of an agent and `Subject` what a delta is filed under. Two agents with one
function share one finding, and its `affected` counts both their deltas, so that it can exceed
the number of cases it is reported against; `VerdictSettled` asks for one finding per subject
and metric, and no bound on that count.

Arithmetic is exact. An effect is a fraction `gap / unit`, a probability a number of
thousandths, a rank is doubled so that ties need no halves, and a corrected probability has
the denominator `Scale`, which every family size divides (`FamilyAssumption`). The normal tail
is the one function that is not computed: `Normal` is a table of its values at squared z
scores, falling as the code's `erfc` does, so that every comparison with `alpha` of the exact
statistic is decided on one side of a step. Confidence intervals, effect sizes (`cohens_h`,
`cliffs_delta`) and the overlap of agent sets are reported and read by nobody, and are left out.

### How `Attribution` reads the code

A `world` is a repository with its git diff, an old and a new scan, and what the runs of both
versions showed; `Init` picks one. `Rescan` is `merge_structures`, `CollectGitDiff` lists the
changed paths and loses any of them (git failures are swallowed path by path), `BuildManifests`
is both calls of `build_manifest_for_side`. `NextDelta` goes through the deltas in their
order and skips the passing ones; `Visit` and `WalkEnds` are the loop of `reachable_files`,
one file at a time over its stack; `AttributeDelta` applies the rules, sorts and explains:
the rules give a set of blames, and of the heaviest the one with the first path is the cause,
as the stable sort of the code leaves it; `stage` says how far this has come;
`Brief` is the part of `build_incident_summary` that takes a finding's cause. `structure` is
indexed by role as the document is; a file is its place among the sorted paths.

Three things are followed as they are and exempted from `CauseMatchesChange`: manifests are kept by
function name, so two agents whose functions share one share a manifest (`manifest.py:195`); and of
equally common configurations the first seen wins (`manifest.py:105`), so that the order of the
samples can decide whether "the model changed"; and a function that is an entry point too is known
by that role, which has no name (`structure_yaml.py:90`), so that a rescan gives its agent the fresh
name.

### How `Capture` reads the code

A wrapper is a row of `Shims`: whether its events are HTTP, SDK, tool or framework events,
whether it marks its context as being inside an SDK, whether chunks follow a response, and
whether it returns before the call is over. Every row was read off its own module; `Enter`
and `Leave` are the shape they share, with the difference in the row. `context[t]` are the two
context variables, `stack[t]` the tokens that will restore them. `Spawn` starts a task with a
copy of the context (asyncio) or with an empty one (threads), also from inside an SDK call.

* `Record`, `Truncate`, `Activate`, `Close` are `agentdiff.record` around a block: the wrappers
  are installed, the name is looked up among those seen, the file truncated, the tracer entered;
  on the way out the context is restored and the line flushed. Looking up and truncating are
  two steps, because two threads may do them at the same time.
* `events[c]` is the tracer's list, whose events carry `superseded` from the moment they are
  recorded; `Kept` filters them as `_flush` does. A capture that raises is reported and ignored
  (`Append1`), so that an event may be missing; a cancellation is no `Exception`, so that no end
  is recorded (`Ends`). An end that arrives when the capture is over is lost.
* `calls` and `stale` are bookkeeping for the properties: what each call was and how it ended, and
  which captures began before the file was first truncated. No guard reads them but the bound on the calls.

The redaction settings of a capture are left out; `record(config=...)` sets them for the process and
does not reset them (`session.py:76`), whatever its docstring says of "the duration of this capture".

### How `LiveTraffic` and `Console` read the code

One project with one key, so that every request contends for the same rows. An action is what
a coroutine does between two awaits. `requests[i]` is a batch with its stand in
`ingest_traffic`; `Arrive` and `FindProject` are the two queries of the key, `CheckRateLimit` and
`SetExpiry` the INCR and the EXPIRE of the limiter, `CheckQuota`, `Store` and `IncrementUsage`
the rest. An INCR, EXPIRE or SET that Redis has applied may lose its answer: the limiter then lets
the request pass, with a counter that may never be given an expiry (`ratelimit.py:11`,
`traffic.py:49`), and the sweep does not begin, with its lease taken. `GiveUp` is a client's
timeout: the server goes on with the request. A recorder
thread posts its batch itself, outside the lock, and so has one request at a time.

`now` counts units of which a cron interval has a few. `CheckDriftAll` is the lease
(`SET NX EX`), the steps after it one sweep over the project: the list of projects with recent
rows, the two windows, the engine, one transaction for the run and its findings, the post.
`EndSweep` is a worker that dies or arq's timeout. A replica fires at most `Skew` after the tick;
arq's own deduplication of cron jobs is not relied upon.

`Console` adds requests of signed-in users, all of one user (so that the insertion of that
user's row is a race), and Slack's callbacks. `ReadProject` is what a handler reads, with
what it saw kept in `saw`; `Commit` is its transaction: `Rename`, `CreateKey`, `RevokeKey`,
`DeleteProject`, `DisconnectSlack`, `SetSlack`, each with its audit row. `slack` is the row of
the project's configuration, named by the number of its insertion, and by whom it was last set.
The trail is a set of rows: `AuditLog.created_at` is the clock of the process at the flush
(`models.py:155`, read at `manage.py:295`), so that overlapping transactions may be listed in
another order than they committed in, and no property speaks of an order. A state is named by the
installation that made it; `ConsumeState` is GETDEL. The bot's join of a
channel and the retention lease change nothing here. Statements on rows that are gone, second
rows of a project and children inserted beside a deletion fail with their transaction, as the
primary, unique and foreign keys of `models.py` make them.

## Runs

`CHECK_DEADLOCK FALSE` everywhere: the uploads of `RunPipeline` are finitely many and a call of
`run_samples` and a command of the gate end; these systems stop when everything has been served. So
do the comparison and the attribution, captures whose blocks have ended, and the console when its
settings are used up.

| Run | Instance | What it shows |
|---|---|---|
| `pipeline` | three uploads of one key, two in flight, two tries per job, verdicts pass and fail, all faults, symmetric uploads | `TypeOK`; `ClaimExclusive`; `FindingsMatchStatus`; `PostsMatchRecord`; `NoSilentSkip`; `QuotaOvershoot`; `MeteredHasRun`; the refinement `ImplementsLifecycle` |
| `pipeline_live` | two uploads of one key and one of another, one in flight, verdict fail, crashes and lost enqueues, fairness | `DeliveredSettles`, `IncidentPosted`, `QueueDrains`, and `AcceptedIsBacked` with two keys |
| `replay` | as `pipeline` | refutes `ReplayNotCounted` |
| `retry` | as `pipeline` | refutes `RetryProcessesRun` |
| `sampling` | two samples, two attempts each, one worker with a timeout, two with and two without; all faults, at most one of the disk; fairness | `TypeOK`; `OneLinePerSample`; `LineOfDecidingAttempt`; `OnlyFaultsSpoil`; `RaiseHasCause`; `RunnersBounded`; `TimedRunEnds` |
| `gate` | two commands: a recording and a replay of it; a replay and a recording over what it replays; a recording alone, of two samples; two attempts, all faults of sampling and of the cassette, calls that raise and are handled, failure rate 50 %. Or two that deliver to one pull request, or that have no inputs; Slack and GitHub fail; a page of one comment and one comment of somebody else | `TypeOK`; `ReplayRepeatsRecording`; `MissStopsGate`; `ExitIsEarned`; `PostedOnce` |
| `gate_replay` | a recording and a replay of it, of one sample; timeouts are the only fault | refutes `ReplayIsDeterministic` |
| `gate_verdict` | the commands of `gate`; Slack's are the only faults | refutes `VerdictNotHidden` |
| `engine`, capture moves | a task and a child, up to three calls and two captures of one name; SDK over HTTP, spans, streams, tools; cancellation with three calls, failing captures with two, failing flushes and installation with two captures | `CaptureTypeOK`; `KeptOnce`; `HistoryIsWhole` |
| `engine`, comparison moves | two cases, two agents with one function, one tool, nine samples of up to four runs on each side; with and without correction; output pairs of text and documents, judges that garble their reply once or twice; three commands | `TypeOK`; `CorrectionIsStepUp`; `VerdictSettled`; `FullPassIsFull` |
| `engine`, attribution moves | four files, two agents, two cases; three observations of the baseline against six of the candidate, every import list of two files, names that were renamed, moved, doubled or those of entry points; walks cut off after three files | `AttributionTypeOK`; `CauseMatchesChange`; `WalkIsReachability` |
| `console` | two recorders and up to four trajectories; two replicas over up to four units of time, an interval of three; up to four user requests and two callbacks; dying API and workers, Redis and network failures, one or two kinds of fault at a time | `TypeOK`; `TrafficAccounted`; `DriftIsBacked`; `AuditAgrees` |
| `console_drift` | two replicas, no faults | refutes `NoDoubleDrift` |
| `console_audit` | two requests to revoke one key, no faults | refutes `AuditedOnce` |

`engine` is one run of three modules that have no state in common. Every behaviour of it is one of
a single part, so that what it says of a part is what a run of that part alone would say; the
other two stay in one initial state, so that their instances add and do not multiply. For the sake
of it the names of the three differ (`CaptureInit`, `AttributionInit`, and so on).

Why the bounds are enough. Three uploads of one key are the least that show two rows for one
key and a third upload meeting both (the 500), and a replay beside a first upload. Two jobs on
one run (a lost enqueue made up for by a replay, or a replay that finds it still pending) and
two tries are what the claim must serialise. A limit of one and two requests in flight reach
the overshoot exactly. The verdicts pass and fail meet both branches of the notifications; warn
behaves as fail.

For `sampling`, two samples are the least that share the output and that queue behind one
worker; two attempts give an abandoned one beside the one that counts; one disk fault is enough
for a torn line, the line glued to it, a swallowed flush and an aborted loop. More faults only
repeat these, and the proofs have no bound.

For `gate`, two samples make the last answer differ from an earlier one, two attempts leave an
abandoned one beside a retry, and the miss of one sample beside the lines of a reused directory
passes the failure rate, so that only the check for misses stops it. The answers are symmetric.
For its deliveries, two commands are the least that list and then write at the same time; one
comment of the gate and one of another fill a page and one more. Samples are at most two and
requests are two, one per version, because a request is only ever related to itself.

For the comparison, two cases are the least in which the correction moves a verdict of one case by
what another measured, and in which a finding pools two; two agents with one function are the
least that share a finding. Four runs a side reach all three
verdicts, ties, and sides below the power limit; the table has steps on both sides of `alpha`
for one test and for a family. For the attribution, a walk of three in four files is cut off in
some worlds and complete in others, cycles and repeated imports included; two agents are the
least that can share a function name. For capture, three calls are an SDK call with two
requests under it, or a call and what its span makes; two captures of one name are the least
that meet at the truncation. For `console` each setting is a scene of its own, because what the
scenes share is small: two recorders with one batch each pass the quota together, a third hit
meets the limit, two replicas meet at a tick and after the lease, two callbacks and two
disconnections meet at one configuration. `MinSamples` is one and a window is two units, so that
both windows fill.

Fairness in `RunPipeline`. Weak fairness of every step of a handler that has started and of every
step of a job: uvicorn serves the requests it has accepted, and workers poll the queue as long
as the service is up. Nothing is assumed of arrivals, faults, users or cron jobs, and a job's
failure is never forced. The liveness properties exclude runs one of whose executions was
interrupted, because the code makes no promise for those, as `retry` shows.

Fairness in `Sampling`. Weak fairness of `Serve(s)` for every sample: the operating system runs
the serving threads, `join` with a timeout and `sleep` return. Runners get none, since the
program cannot make one return: `TimedRunEnds` says that with a timeout the call ends all the
same. Without one it need not, and nothing is claimed.

The other modules state safety only: that a command, a handler or a sweep ends follows from the
timeouts of each of its calls, and the pure modules end by their order.

## Findings

* **A retry skips the run it should process** (`retry`). The claim is committed before the run
  is loaded. An execution that ends after that leaves the row `processing`; the retry's claim
  matches nothing and returns normally. `worker.py:266` promises a retry.
* **Concurrent uploads of one key are not idempotent** (`replay`). Lookup and INSERT are
  separate transactions and the key's index is not unique, so both are stored and metered, and
  from then on uploads of that key get a 500. `ingest.py:90` promises no double counting.
* **A replay can hear what no recorded sample ended on** (`gate_replay`). An attempt that times out
  while recording is abandoned, and its thread records its answer after the retry has succeeded;
  `_load` keeps the last answer of a request (`cassette.py:95`). `README.md:209` says that the
  hermetic tier is fully deterministic. `ReplayRepeatsRecording` is what holds: with nobody else
  writing, the last recorded sample is repeated.
* **A delivery can hide the verdict** (`gate_verdict`). An answer of Slack that is not JSON raises
  in `_urllib_post` (`slack.py:98`) what neither the delivery nor the command catches: GitHub is not
  told and the exit code is 1, whatever the verdict. `docs/integrations.md:3-5` and
  `README.md:234` say that delivery failures never hide it.
* **Two sweeps record one drift** (`console_drift`). The lease lasts 240 s, is not renewed, and the
  sweep is not bounded by it (`worker.py:28`): the next tick finds the lease free, and both sweeps
  record a drift run over windows that overlap. `docs/deploy-production.md:175-178` promises one
  worker per interval and no double drift runs; `TODOS.md:50-54` has the overlap as open.
* **A key is revoked twice in the trail** (`console_audit`). Two requests read `revoked_at` as empty
  and each writes an audit row (`manage.py:207`); `manage.py:205` says that a second one must not be
  written. Two disconnections do the same (`slack_oauth.py:281`).

## Proofs

`RunPipelineProofs` proves, for every finite set of requests, every assignment of keys, every
set of verdicts and of faults and every bound, the safety properties that `pipeline` and
`pipeline_live` check. The assumptions are those named in `RunPipeline`: `RequestsAssumption`
(finitely many uploads, `NoRun` is none of them), `KeyAssumption`, `VerdictAssumption`,
`BoundAssumption` (limits and bounds are positive), `FaultAssumption`.

`IInv` is the inductive invariant. `ClaimExclusive` alone is not inductive: a claim succeeds
because of what the *row* says, so one must know what the row says while an execution holds
the run. That is `HeldInv`: in the holding phases the row is `processing` (or deleted), in the
announcing ones `done` (or deleted) with the verdict the coroutine carries. `UnpostedInv` says
that nothing was posted for a run somebody is still busy with, which makes `PostsMatchRecord`
inductive; `TargetInv` that a run someone refers to exists under that key; `HandlerInv` that a
request which has not inserted yet has no run; `TriesInv` bounds the deliveries. Each action
has a lemma that it preserves `IInv`, with a step for each group of conjuncts.

`QuotaOvershoot` and `MeteredHasRun` need to count requests. `CountInv` adds that at most
`MaxInFlight` handlers are active. The lemma `Moves` says how the number of handlers standing
in a set changes when one of them moves; the quota check is the only way to the INSERT and is
passed only below the limit, and whoever has passed it is in flight.

`RunPipelineRefinement` proves `Spec => ImplementsLifecycle`. The owner of a run is the one job
in a holding phase on it (unique by `ClaimExclusive`); a row left `processing` by nobody maps to
`abandoned`. Each action maps to a step of `RunLifecycle` or a stutter.

`SamplingProofs` proves every safety property that `sampling` checks, for every number of
samples and attempts, every set of settings and faults and every bound on the faults, from
`SizeAssumption` (at least one of each), `ConfigAssumption` (at least one worker) and
`FaultAssumption`. The invariant has three parts. `SampleInv` says, for each stand of a serving
thread, what became of the attempts so far: earlier ones failed or were abandoned, later ones
have not begun, and what is left on disk or running belongs to abandoned ones. It is what makes
`LineOfDecidingAttempt` inductive, because a note is written only at a stand where every attempt
has failed. `OutputInv` says that whoever stands at a write holds the lock and owns the last
line, without which `OnlyFaultsSpoil` could not survive the second half of an append. `PoolInv`
bounds the busy samples. The steps of different samples are separated by frame lemmas
(`SampleFrame`, `OutputFrame`), and the file has a lemma for each thing that can happen to it
(`PutLineKeeps`, `EndLineKeeps`, `ReleaseKeeps`, `BlankKeeps`). `RunnersBounded` follows by an
injection of the runners somebody waits for into the busy samples.

`GateProofs` proves every property that `gate` checks, for every finite set of jobs, all settings,
versions, requests and answers. Beside the assumptions on settings and bounds, `JobAssumption`
(finitely many jobs, `Other` is none of them) and `AnswerAssumption` (`None` and `Raised` are no
answers) are used. `StageInv` says what the stand of a job implies of its verdict and its posts:
while a job posts, all its attempts so far are ones that Slack did not confirm, which gives
`PostedOnce`. `MissInv` and `EarnedInv` carry the two checks of a side from the moment they pass to
the verdict: whatever is appended later is of a directory that is shared. For
`ReplayRepeatsRecording` the invariant follows a recording while it is made (`TakeInv`: what the
sample was answered so far is what the cassette holds, and a call that raised left nothing), keeps
it as long as nobody else writes and no write fails, and hands it to the jobs that load it
(`SourceInv`); `HeardInv` says that a replaying attempt hears only that. Nothing is proved about
recordings that somebody added to, nor that a delivery cannot end the command: both are refuted.

`CaptureProofs` proves what `engine` checks of capture, for every set of tasks, captures, wrappers
and stacks, and any number of calls. The code restores its two context variables by tokens, so
the invariant says that the frames of a task are a chain: each found what the one below it left
(`ChainInv`), the context is what the innermost one left (`TopInv`), and no frame is on two
stacks (`UniqueInv`). It follows that a request is recorded under the marker of the SDK call it
is made by, however deep. `Told` then says of each call what a history has of it, while it is
recorded (`HistoryInv`) and in each line of the file (`FileInv`), and `TruncateInv` who may
still truncate the file.

`ConsoleProofs` proves the four properties of `console`, for any number of recorders, replicas,
requests of users and callbacks, any lease, window and retention; `RecorderAssumption` makes the
recorders finitely many. The invariant has a part per table. `SendInv`: a trajectory is in the
buffer or in one batch, from which the batches are disjoint and rows share nothing. `WaitInv` and
`MeterInv`: the requests past the quota check are of different recorders, each with at most one
batch, so that without network faults (after which a recorder has several) the quota is passed by
less than one batch per recorder; the sum is the size of a union of disjoint batches. `LeaseInv`:
no lease reaches further than its length, and no sweep began in the future.
`DriftInv`: what a sweep has in its hands when it records, in two windows of stored rows, which
gives `DriftIsBacked`. `NonceInv` and `SlackInv`: an install
state is with one callback at most, a connection has one audit row, and a configuration that is gone
has a row that tells of its end. Counters without an expiry need no invariant, since nothing is
claimed of them. A deleted row of traffic keeps its place with an empty batch, so
that the drift windows and the conservation of trajectories can be stated over places.

`ComparisonProofs` proves what `engine` checks of the comparison, for every structure, table of the
normal tail, thresholds, number of cases and samples (`ListAssumption`: agents and tools are lists;
`FunctionAssumption`: every agent has a function; `OutputsAssumption`: documents are finite;
`FamilyAssumption`: `Scale` is divisible by every family
size, so that a division by a rank is exact; the code divides floats). Its first half is about
`Statistics`: every test returns a probability (`TwoProportionRange`, `MannWhitneyRange`), and an
adjusted probability is below a level exactly when some test at least as improbable has a share
below it (`AdjustedFacts`). The share of the last of several equal tests is the least among them
(`LastTie`), which is what makes the ranks of ties harmless. The second half is the invariant: a
delta is that of its samples up to the correction (`FitInv`), then its adjusted probability is that
of its place in the family (`CorrectedInv`). With these, `VerdictSettled` and `FullPassIsFull` are
inductive.

`AttributionProofs` proves what `engine` checks of the attribution, for every repository that
`WorldAssumption` describes: any files, imports (cycles included), structures, observed runs and
verdicts. A walk is described by its trail, the sequence of the states of its loop (`Walked`); two
complete walks from one file end alike (`OneWalk`, by the first step at which their trails differ),
so that the causes of two cases of one function agree. `Reaches` is the invariant of the walk
itself: what is seen is in every closed set that has the file, and what a seen file imports is seen
or on the stack. `Deserved` says of each blame that it is what the rules give for the manifests and
such a walk; `SameConfig` that equal counts of configurations without ties give equal manifests;
`NameKept` that a rescan keeps the name its user gave.

Each inductive invariant is strong enough to be kept by every action from any state that satisfies
it, which is more than TLC sees on reachable states. Induction over data, where a proof needs it
(the sum of a sample, the list that the walk pushes), is replaced by a least counterexample: the set
of the indices at which the claim fails has a least element, which contradicts the definition of the
function at that index.

Only model-checked: the liveness properties (`DeliveredSettles`, `IncidentPosted`, `QueueDrains`,
`TimedRunEnds`), since liveness needs fairness and ENABLED, which the prover does not reason about;
and the six refuted properties of `Findings`, which are false. Every invariant that a passing
run checks is proved, and so is the refinement.

## What the models say about the code besides

Behaviour that the properties follow or exempt, because no line of the repository promises
otherwise, or that was met while reading:

* Cancelling a call leaves its request without an end, for every wrapper; `HistoryIsWhole` exempts
  cancelled calls. A cancelled MCP call even replaces the cancellation by an
  `UnboundLocalError` (`mcp_shim.py`).
* Chunks are never superseded: a streamed SDK call leaves the chunks of its HTTP response in the
  trajectory, without that response (`streaming.py:36`, `tracer.py:83`).
* Asynchronous gRPC and streaming calls are recorded as ended when the call object is returned.
* An SDK call whose request could not be captured is lost with everything under it, since its
  HTTP events are superseded all the same.
* `LiveCollector.install()` passes an argument that `activator.install` has not, and catches
  only `ImportError` (`live.py:74`).
* A crash between the commit of a run and its metering is never made up for: the replay of a pending
  run enqueues it and does not meter it, while `ingest.py:36` says that usage is counted exactly
  once. In `RunPipeline`, a `HandlerFails` after `InsertRun` and a second upload of the key show it;
  `MeteredHasRun` bounds usage from above only.
* When the flush of an attempt that succeeded fails, there is no scratch file; the copy opens it
  outside the `try` (`sampling.py:398`) and its `FileNotFoundError` leaves `run_samples`, while
  `tracer.py:73` says that a flush failure never crashes the sampling loop. `RaiseHasCause` names
  the flush among the causes. If the file is there but empty or cut off, the sample counts as
  written and its line is skipped by the reader, which also loses the line appended after it
  (`OnlyFaultsSpoil` allows exactly that).
* A pass is posted when the previous finished run of the project was not one (the recovery), while
  `docs/hosted-quickstart.md:178` says that `pass` verdicts are silent.
* A pull request may have more than one comment of the gate: two commands both list and then create,
  and only the first page is searched (`github.py:43`), while `README.md:197`, `github.py:30` and
  `docs/integrations.md:22` speak of one. `Gate` has both ways; apart from them one comment follows
  from the guard of `WriteComment` alone, so that no property is stated.
* A second deletion of a project that was read before the first one's commit writes an audit row of
  its own; a disconnection read before a new connection may be listed last in the trail while Slack
  is connected. `AuditAgrees` compares the rows by the configuration they are about.
* A drift is reported by every sweep whose windows show it, also without overlapping sweeps.
* Death between INCR and EXPIRE, or an INCR whose answer is lost, leaves a counter that no later
  request gives an expiry and that refuses every request after the limit, for ever; the limiter's
  window is fixed from its first hit, while `ratelimit.py:8` says that it slides.
* A bot post that times out after Slack took it is followed by the webhook's post.
* A function that `structure.yaml` has as an agent and as an entry point loses at a rescan the name its
  user gave, since the last role that has the key wins (`structure_yaml.py:90`) and entry points have no
  name; the docstring (`structure_yaml.py:77`) says that such names are preserved.
* A delta of a tool never becomes a finding: it counts in the verdict and has no line in the incident.

## Plan

Modelled in this order: results stored and announced (`RunPipeline`), produced (`Sampling`), decided
on (`Gate`), computed and explained (`Comparison`, `Attribution`), observed (`Capture`), then what
surrounds them (`LiveTraffic`, `Console`). Of each, the safety properties were checked and then
proved. What is left is to state more:

1. The drift runs of `LiveTraffic` as runs of `RunLifecycle` that begin as done.
2. Deleting a whole project beside the executions of its runs (`RunPipeline` has one project and
   deletes runs).

## Not modelled

Formats and presentation: the parsers of providers' payloads, redaction, canonical requests,
renderers, reports, dashboards, the graph model, the stored payload of a run, the frontend. They
keep no state that outlives a call, and their correctness is about strings. The analysis of syntax
trees, whose result is an input of `Attribution`. Queries of the API, the SQLite store, project
creation and the list endpoints. LLM explanations decorate a finding and never raise. The server's
shell: wiring, settings, health, counters in memory. Third-party libraries are modelled only as the
code uses them.
