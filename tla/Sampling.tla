------------------------------ MODULE Sampling ------------------------------
(***************************************************************************)
(* The sampling engine of agentdiff: run_samples runs the user's Runner    *)
(* once per sample, each sample in up to MaxAttempts attempts, and appends *)
(* one trajectory per sample to one output file.                           *)
(*                                                                         *)
(* The actors are the thread that serves a sample (the calling thread, or  *)
(* one of a pool) and, under a timeout, the daemon thread of each attempt, *)
(* which Python cannot kill: an attempt that is given up goes on.  An      *)
(* attempt flushes its trajectory into a scratch file of its own, and the  *)
(* serving thread copies that file into the output when the attempt counts. *)
(***************************************************************************)
EXTENDS Naturals, Sequences, FiniteSets

CONSTANTS
    N,            \* number of samples, in the order in which they are submitted
    MaxAttempts,  \* 1 + retries
    Configs,      \* the settings a run may be started with
    Faults,       \* what may go wrong, a subset of FaultKinds
    MaxFaults     \* bound on the disk faults of a run

Samples == 1 .. N
Attempts == 1 .. MaxAttempts
DiskFaults == {"scratch", "flush", "output"}
FaultKinds == {"error", "exit"} \cup DiskFaults

ASSUME SizeAssumption == N \in Nat \ {0} /\ MaxAttempts \in Nat \ {0}
ASSUME ConfigAssumption ==
    Configs \subseteq [workers : Nat \ {0}, timed : BOOLEAN]
ASSUME FaultAssumption == Faults \subseteq FaultKinds /\ MaxFaults \in Nat

VARIABLES
    config,     \* workers, and whether timeout_seconds > 0; fixed by a call
    pc,         \* where the thread that serves a sample stands
    attempt,    \* number of the current attempt, 0 before the first
    thread,     \* runner of an attempt: not started, running, or how it ended
    scratch,    \* scratch directory of an attempt and the file in it
    abandoned,  \* attempts whose caller stopped waiting for them
    lock,       \* the sample that holds _flush_lock, or Free
    output,     \* lines of the output file
    faulted     \* disk faults so far, for the properties only

vars == <<config, pc, attempt, thread, scratch, abandoned, lock, output, faulted>>

Free == 0
Ended == {"ok", "error", "exit"}
Settled == {"recorded", "raised"}
Writing == {"copying", "noting"}

(* A line is from an attempt, or from nobody (0) when it notes a failure.  *)
(* It is torn until its newline is written, and glued when the line before *)
(* it never got one.  The reader keeps the whole lines and skips the rest. *)
Lines == [sample : Samples, from : 0 .. MaxAttempts, text : {"torn", "glued", "whole"}]
Loaded == {i \in DOMAIN output : output[i].text = "whole"}

TypeOK ==
    /\ config \in Configs
    /\ pc \in [Samples -> {"waiting", "trying", "backoff", "append", "note"}
                            \cup Writing \cup Settled]
    /\ attempt \in [Samples -> 0 .. MaxAttempts]
    /\ thread \in [Samples -> [Attempts -> {"none", "running"} \cup Ended]]
    /\ scratch \in [Samples -> [Attempts ->
                      {"nodir", "nofile", "blank", "partial", "line"}]]
    /\ abandoned \in [Samples -> SUBSET Attempts]
    /\ lock \in {Free} \cup Samples
    /\ output \in Seq(Lines)
    /\ faulted \subseteq Samples \X DiskFaults

Init ==
    /\ config \in Configs
    /\ pc = [s \in Samples |-> "waiting"]
    /\ attempt = [s \in Samples |-> 0]
    /\ thread = [s \in Samples |-> [a \in Attempts |-> "none"]]
    /\ scratch = [s \in Samples |-> [a \in Attempts |-> "nodir"]]
    /\ abandoned = [s \in Samples |-> {}]
    /\ lock = Free
    /\ output = <<>>
    /\ faulted = {}

(***************************************************************************)
(* Which sample is next: the loop of one worker serves them in order and   *)
(* ends at the first that raises; a pool takes them in order too, and runs *)
(* all of them even when one has raised, because leaving the executor      *)
(* waits for every future.                                                 *)
(***************************************************************************)
Busy == {s \in Samples : pc[s] \notin Settled \cup {"waiting"}}
Raised == {s \in Samples : pc[s] = "raised"}

(* Variant: one thread too many. *)
WorkerFreeOneMore == Cardinality(Busy) <= config.workers

WorkerFree == Cardinality(Busy) < config.workers

NextUp(s) ==
    /\ pc[s] = "waiting"
    /\ \A r \in 1 .. (s - 1) : pc[r] # "waiting"
    /\ WorkerFree
    /\ config.workers = 1 => Raised = {}

(* The call of run_samples is over. *)
Over ==
    \/ \A s \in Samples : pc[s] \in Settled
    \/ config.workers = 1 /\ Raised # {}

(* The disk fails once more, for sample s. *)
DiskFault(s, kind) ==
    /\ kind \in Faults
    /\ Cardinality(faulted) < MaxFaults
    /\ faulted' = faulted \cup {<<s, kind>>}

(***************************************************************************)
(* Attempts                                                                *)
(***************************************************************************)
(* A scratch directory and a tracer are made and the runner is called. *)
BeginAttempt(s, a) ==
    /\ pc' = [pc EXCEPT ![s] = "trying"]
    /\ attempt' = [attempt EXCEPT ![s] = a]
    /\ thread' = [thread EXCEPT ![s][a] = "running"]
    /\ UNCHANGED <<config, abandoned, lock, output, faulted>>

Start(s) ==
    /\ NextUp(s)
    /\ BeginAttempt(s, 1)
    /\ scratch' = [scratch EXCEPT ![s][1] = "nofile"]

(* The wait between attempts is over; the directory of the last one goes. *)
Retry(s) ==
    /\ pc[s] = "backoff"
    /\ BeginAttempt(s, attempt[s] + 1)
    /\ scratch' = [scratch EXCEPT ![s][attempt[s]] = "nodir",
                                  ![s][attempt[s] + 1] = "nofile"]

(* Making the scratch directory fails; nothing catches it. *)
NoScratch(s) ==
    /\ DiskFault(s, "scratch")
    /\ \/ NextUp(s) /\ UNCHANGED scratch
       \/ /\ pc[s] = "backoff"
          /\ scratch' = [scratch EXCEPT ![s][attempt[s]] = "nodir"]
    /\ pc' = [pc EXCEPT ![s] = "raised"]
    /\ UNCHANGED <<config, attempt, thread, abandoned, lock, output>>

(* Variant: nobody takes _flush_lock. *)
LockIgnored == TRUE

(* _flush_lock can be taken. *)
LockFree == lock = Free

(* The runner returns, raises or exits, and the tracer flushes into the    *)
(* scratch file, making the directory again if it is gone.  The flush may  *)
(* leave no file, an empty one or a part of the line; it never raises.     *)
(* The thread itself ends a little later.                                  *)
RunnerEnds(s, a, how) ==
    /\ thread[s][a] = "running"
    /\ how = "ok" \/ how \in Faults
    /\ LockFree
    /\ thread' = [thread EXCEPT ![s][a] = how]
    /\ \/ /\ scratch' = [scratch EXCEPT ![s][a] = "line"]
          /\ UNCHANGED faulted
       \/ /\ DiskFault(s, "flush")
          /\ \E left \in {scratch[s][a], "blank", "partial"} :
                scratch' = [scratch EXCEPT ![s][a] = left]
    /\ UNCHANGED <<config, pc, attempt, abandoned, lock, output>>

(* Variant: one attempt too many. *)
TriesLeftOneMore(s) == attempt[s] <= MaxAttempts

TriesLeft(s) == attempt[s] < MaxAttempts

(* An attempt failed: wait and try again, or give the sample up. *)
FallBack(s) ==
    /\ \/ /\ TriesLeft(s)
          /\ pc' = [pc EXCEPT ![s] = "backoff"]
          /\ UNCHANGED scratch
       \/ /\ ~TriesLeft(s)
          /\ pc' = [pc EXCEPT ![s] = "note"]
          /\ scratch' = [scratch EXCEPT ![s][attempt[s]] = "nodir"]
    /\ UNCHANGED <<config, attempt, thread, lock, output, faulted>>

(* Variant: the last error is raised again instead of being noted. *)
AttemptFailsRaising(s) ==
    /\ pc[s] = "trying"
    /\ thread[s][attempt[s]] = "error"
    /\ pc' = [pc EXCEPT ![s] = IF TriesLeft(s) THEN "backoff" ELSE "raised"]
    /\ scratch' = [scratch EXCEPT ![s][attempt[s]] = IF TriesLeft(s) THEN @ ELSE "nodir"]
    /\ UNCHANGED <<config, attempt, thread, abandoned, lock, output, faulted>>

AttemptFails(s) ==
    /\ pc[s] = "trying"
    /\ thread[s][attempt[s]] = "error"
    /\ FallBack(s)
    /\ UNCHANGED abandoned

(* Variants: the wait has no limit; what was flushed is used all the same. *)
JoinEndsWithThread(s) == thread[s][attempt[s]] # "running"
TimesOutUsingScratch(s) ==
    /\ pc[s] = "trying"
    /\ config.timed
    /\ IF scratch[s][attempt[s]] = "line"
       THEN /\ pc' = [pc EXCEPT ![s] = "append"]
            /\ UNCHANGED <<config, attempt, thread, scratch, lock, output, faulted>>
       ELSE FallBack(s)
    /\ abandoned' = [abandoned EXCEPT ![s] = @ \cup {attempt[s]}]

(* Whether join may return before the thread has ended. *)
JoinEnds(s) == config.timed

(* join(timeout) returned and the thread is still alive: it may run, or    *)
(* have flushed and not yet ended.                                         *)
TimesOut(s) ==
    /\ pc[s] = "trying"
    /\ JoinEnds(s)
    /\ FallBack(s)
    /\ abandoned' = [abandoned EXCEPT ![s] = @ \cup {attempt[s]}]

(* SystemExit and the like are no Exception: they leave the sample. *)
AttemptExits(s) ==
    /\ pc[s] = "trying"
    /\ thread[s][attempt[s]] = "exit"
    /\ pc' = [pc EXCEPT ![s] = "raised"]
    /\ scratch' = [scratch EXCEPT ![s][attempt[s]] = "nodir"]
    /\ UNCHANGED <<config, attempt, thread, abandoned, lock, output, faulted>>

AttemptSucceeds(s) ==
    /\ pc[s] = "trying"
    /\ thread[s][attempt[s]] = "ok"
    /\ pc' = [pc EXCEPT ![s] = "append"]
    /\ UNCHANGED <<config, attempt, thread, scratch, abandoned, lock, output, faulted>>

(***************************************************************************)
(* The output file                                                         *)
(***************************************************************************)
(* The file is opened and the first bytes of a line are written. *)
PutLine(s, from) ==
    output' = Append(output, [sample |-> s, from |-> from, text |-> "torn"])

(* The rest of the line and its newline, if it is still the last one. *)
EndLine(s) ==
    LET n == Len(output) IN
    IF n > 0 /\ output[n].sample = s
    THEN output' = [output EXCEPT ![n].text =
                      IF n > 1 /\ output[n - 1].text = "torn" THEN "glued" ELSE "whole"]
    ELSE UNCHANGED output

(* The scratch file is read and its text is appended, whatever it is. *)
BeginCopy(s) ==
    /\ pc[s] = "append"
    /\ LockFree
    /\ scratch[s][attempt[s]] # "nofile"
    /\ IF scratch[s][attempt[s]] = "blank" THEN UNCHANGED output ELSE PutLine(s, attempt[s])
    /\ pc' = [pc EXCEPT ![s] = "copying"]
    /\ lock' = s
    /\ UNCHANGED <<config, attempt, thread, scratch, abandoned, faulted>>

(* There is no scratch file: opening it raises, outside the try. *)
MissingFile(s) ==
    /\ pc[s] = "append"
    /\ LockFree
    /\ scratch[s][attempt[s]] = "nofile"
    /\ pc' = [pc EXCEPT ![s] = "raised"]
    /\ scratch' = [scratch EXCEPT ![s][attempt[s]] = "nodir"]
    /\ UNCHANGED <<config, attempt, thread, abandoned, lock, output, faulted>>

(* Variant: no return after the copy; the loop goes on. *)
EndCopyWithoutReturn(s) ==
    /\ pc[s] = "copying"
    /\ EndLine(s)
    /\ pc' = [pc EXCEPT ![s] = IF TriesLeft(s) THEN "backoff" ELSE "note"]
    /\ lock' = Free
    /\ UNCHANGED <<config, attempt, thread, scratch, abandoned, faulted>>

EndCopy(s) ==
    /\ pc[s] = "copying"
    /\ IF scratch[s][attempt[s]] = "line" THEN EndLine(s) ELSE UNCHANGED output
    /\ pc' = [pc EXCEPT ![s] = "recorded"]
    /\ scratch' = [scratch EXCEPT ![s][attempt[s]] = "nodir"]
    /\ lock' = Free
    /\ UNCHANGED <<config, attempt, thread, abandoned, faulted>>

(* The line that notes a failure, flushed by a tracer of its own. *)
BeginNote(s) ==
    /\ pc[s] = "note"
    /\ LockFree
    /\ PutLine(s, 0)
    /\ pc' = [pc EXCEPT ![s] = "noting"]
    /\ lock' = s
    /\ UNCHANGED <<config, attempt, thread, scratch, abandoned, faulted>>

EndNote(s) ==
    /\ pc[s] = "noting"
    /\ EndLine(s)
    /\ pc' = [pc EXCEPT ![s] = "recorded"]
    /\ lock' = Free
    /\ UNCHANGED <<config, attempt, thread, scratch, abandoned, faulted>>

(* Writing the output fails, at the opening or later.  The copy raises;    *)
(* the tracer of a failure swallows it and the sample counts as written.   *)
OutputFails(s) ==
    /\ DiskFault(s, "output")
    /\ \/ /\ pc[s] \in {"append", "copying"}
          /\ pc' = [pc EXCEPT ![s] = "raised"]
          /\ scratch' = [scratch EXCEPT ![s][attempt[s]] = "nodir"]
       \/ /\ pc[s] \in {"note", "noting"}
          /\ pc' = [pc EXCEPT ![s] = "recorded"]
          /\ UNCHANGED scratch
    /\ lock' = IF lock = s THEN Free ELSE lock
    /\ UNCHANGED <<config, attempt, thread, abandoned, output>>

(* A step of the thread that serves s, disk faults apart. *)
Serve(s) ==
    \/ Start(s)
    \/ Retry(s)
    \/ AttemptFails(s)
    \/ TimesOut(s)
    \/ AttemptExits(s)
    \/ AttemptSucceeds(s)
    \/ BeginCopy(s)
    \/ MissingFile(s)
    \/ EndCopy(s)
    \/ BeginNote(s)
    \/ EndNote(s)

Next ==
    \/ \E s \in Samples : Serve(s) \/ NoScratch(s) \/ OutputFails(s)
    \/ \E s \in Samples, a \in Attempts, how \in Ended : RunnerEnds(s, a, how)

Spec == Init /\ [][Next]_vars

(* Threads are scheduled and join returns; a runner need never return. *)
Fairness == \A s \in Samples : WF_vars(Serve(s))
FairSpec == Spec /\ Fairness

(***************************************************************************)
(* Properties                                                              *)
(***************************************************************************)
LinesOf(s) == {i \in DOMAIN output : output[i].sample = s}
FlushFailed(s) == <<s, "flush">> \in faulted
OutputFailed(s) == <<s, "output">> \in faulted
ScratchFailed(s) == <<s, "scratch">> \in faulted
Faulty(s) == FlushFailed(s) \/ OutputFailed(s) \/ ScratchFailed(s)
Spoilt(i) == FlushFailed(output[i].sample) \/ OutputFailed(output[i].sample)
Failed(s, a) == thread[s][a] = "error" \/ a \in abandoned[s]
Current(s, a) == a = attempt[s] /\ pc[s] = "trying"

(* A sample never has two lines, and none before its outcome is decided;   *)
(* one that counts as written and met no disk fault has exactly one.  The  *)
(* contract of _run_one_sample_with_retry, whatever its attempts do late.  *)
OneLinePerSample ==
    \A s \in Samples :
        /\ \A i, j \in LinesOf(s) : i = j
        /\ pc[s] \notin Writing \cup Settled => LinesOf(s) = {}
        /\ pc[s] = "recorded" /\ ~Faulty(s) => LinesOf(s) # {}

(* What a line says is what the run did: a line of an attempt is the last  *)
(* one's, which succeeded in time; a failure is noted only when every      *)
(* attempt failed or was abandoned.  No abandoned attempt leaves a line,   *)
(* though its thread may still flush.                                      *)
LineOfDecidingAttempt ==
    \A i \in DOMAIN output :
        LET s == output[i].sample
            a == output[i].from IN
        IF a = 0
        THEN /\ attempt[s] = MaxAttempts
             /\ \A b \in Attempts : Failed(s, b)
        ELSE /\ a = attempt[s]
             /\ thread[s][a] = "ok"
             /\ a \notin abandoned[s]

(* Lines never mix: the only lines a reader skips are the one being        *)
(* written, one whose sample met a disk fault, and one glued to such a     *)
(* line.  Appends of different samples share the file but hold the lock.   *)
OnlyFaultsSpoil ==
    \A i \in DOMAIN output \ Loaded :
        IF output[i].text = "torn"
        THEN lock = output[i].sample \/ Spoilt(i)
        ELSE i > 1 /\ output[i - 1].text = "torn" /\ Spoilt(i - 1)

(* A sample leaves the loop by an exception only if its runner exited or   *)
(* the disk failed: runners that raise, hang or come back late never end   *)
(* the loop.                                                               *)
RaiseHasCause ==
    \A s \in Raised :
        \/ Faulty(s)
        \/ attempt[s] > 0 /\ thread[s][attempt[s]] = "exit"

(* What a sample leaves behind it, a runner still running or a scratch     *)
(* directory, is of attempts that were abandoned.                          *)
LeftoversAbandoned ==
    \A s \in Samples, a \in Attempts :
        /\ thread[s][a] = "running" /\ ~Current(s, a) => a \in abandoned[s]
        /\ scratch[s][a] # "nodir" /\ (a # attempt[s] \/ pc[s] \in {"note", "noting"} \cup Settled)
             => a \in abandoned[s]

(* What the workers do not wait for is abandoned, and abandoned runners    *)
(* apart no more run at a time than there are workers.                     *)
RunnersBounded ==
    /\ LeftoversAbandoned
    /\ Cardinality({p \in Samples \X Attempts :
                       thread[p[1]][p[2]] = "running" /\ p[2] \notin abandoned[p[1]]})
         <= config.workers

(* With a timeout the call returns, even if no runner ever does. *)
TimedRunEnds == config.timed ~> Over
=============================================================================
