---------------------------- MODULE RunLifecycle ----------------------------
(***************************************************************************)
(* What the hosted server promises about one uploaded run, whatever the    *)
(* number of deliveries of it the queue makes: it is analysed by one       *)
(* worker at a time, its result is recorded once and never changes, and a  *)
(* run whose worker disappears is either recorded or visibly abandoned.    *)
(*                                                                         *)
(* phase[r] is what an observer of the database can say of run r, owner[r] *)
(* the worker that is analysing it and outcome[r] the recorded verdict.    *)
(* RunPipeline (server/routes/ingest.py, server/worker.py) implements this *)
(* specification.                                                          *)
(***************************************************************************)

CONSTANTS Runs,         \* run identities
          Workers,      \* worker executions
          Verdicts,     \* what the engine may conclude
          NoWorker,     \* "no worker": not a member of Workers
          NoVerdict     \* "no verdict yet": not a member of Verdicts

VARIABLES phase, owner, outcome

vars == <<phase, owner, outcome>>

Phases == {"absent", "pending", "working", "failed", "done", "abandoned", "removed"}

TypeOK ==
    /\ phase \in [Runs -> Phases]
    /\ owner \in [Runs -> Workers \cup {NoWorker}]
    /\ outcome \in [Runs -> Verdicts \cup {NoVerdict}]

Init ==
    /\ phase = [r \in Runs |-> "absent"]
    /\ owner = [r \in Runs |-> NoWorker]
    /\ outcome = [r \in Runs |-> NoVerdict]

(* A run is accepted from a client. *)
Accept(r) ==
    /\ phase[r] = "absent"
    /\ phase' = [phase EXCEPT ![r] = "pending"]
    /\ UNCHANGED <<owner, outcome>>

(* Worker w takes a run nobody is working on. *)
Claim(r, w) ==
    /\ phase[r] \in {"pending", "failed"}
    /\ phase' = [phase EXCEPT ![r] = "working"]
    /\ owner' = [owner EXCEPT ![r] = w]
    /\ UNCHANGED outcome

(* The owner, and nobody else, records a verdict. *)
Report(r, w, v) ==
    /\ phase[r] = "working" /\ owner[r] = w
    /\ phase' = [phase EXCEPT ![r] = "done"]
    /\ owner' = [owner EXCEPT ![r] = NoWorker]
    /\ outcome' = [outcome EXCEPT ![r] = v]

(* The owner, and nobody else, records that the analysis failed. *)
Fail(r, w) ==
    /\ phase[r] = "working" /\ owner[r] = w
    /\ phase' = [phase EXCEPT ![r] = "failed"]
    /\ owner' = [owner EXCEPT ![r] = NoWorker]
    /\ UNCHANGED outcome

(* The owner disappears without recording anything. *)
Abandon(r) ==
    /\ phase[r] = "working"
    /\ phase' = [phase EXCEPT ![r] = "abandoned"]
    /\ owner' = [owner EXCEPT ![r] = NoWorker]
    /\ UNCHANGED outcome

(* Runs are deleted, in any phase, one by a user or several by retention. *)
Remove(S) ==
    /\ S # {} /\ \A r \in S : phase[r] \notin {"absent", "removed"}
    /\ phase' = [r \in Runs |-> IF r \in S THEN "removed" ELSE phase[r]]
    /\ owner' = [r \in Runs |-> IF r \in S THEN NoWorker ELSE owner[r]]
    /\ outcome' = [r \in Runs |-> IF r \in S THEN NoVerdict ELSE outcome[r]]

Next ==
    \/ \E r \in Runs : Accept(r) \/ Abandon(r)
    \/ \E r \in Runs, w \in Workers : Claim(r, w) \/ Fail(r, w)
    \/ \E r \in Runs, w \in Workers, v \in Verdicts : Report(r, w, v)
    \/ \E S \in SUBSET Runs : Remove(S)

Spec == Init /\ [][Next]_vars
=============================================================================
