--------------------------- MODULE SamplingProofs ---------------------------
(***************************************************************************)
(* Proofs about Sampling for every number of samples and attempts, every   *)
(* set of settings and faults.  IInv, the inductive invariant, says for    *)
(* each stand of a serving thread what became of the attempts so far and   *)
(* of their scratch files (SampleInv), and for each line of the output who *)
(* wrote it and why (OutputInv).                                           *)
(***************************************************************************)
EXTENDS Sampling, TLAPS, FiniteSetTheorems

(* Attempts before the current one failed; those after it have not begun. *)
AttemptsInv(s) ==
    /\ pc[s] = "waiting" => attempt[s] = 0
    /\ pc[s] \notin {"waiting", "raised"} => attempt[s] > 0
    /\ \A a \in Attempts :
          /\ a < attempt[s] => Failed(s, a)
          /\ a <= attempt[s] => thread[s][a] # "none"
          /\ a > attempt[s] => /\ thread[s][a] = "none"
                               /\ scratch[s][a] = "nodir"
                               /\ a \notin abandoned[s]

(* What is known of the current attempt c and of its scratch file. *)
CurrentInv(s) ==
    LET c == attempt[s] IN
    /\ pc[s] = "trying" => c \notin abandoned[s]
    /\ pc[s] \in {"backoff", "note", "noting"} => Failed(s, c)
    /\ pc[s] = "backoff" => c < MaxAttempts
    /\ pc[s] \in {"note", "noting"} => c = MaxAttempts
    /\ pc[s] \in {"append", "copying"} => thread[s][c] = "ok" /\ c \notin abandoned[s]
    /\ pc[s] = "raised" => Faulty(s) \/ (c > 0 /\ thread[s][c] = "exit")
    /\ pc[s] \in {"trying", "append", "copying"} =>
          /\ scratch[s][c] # "nodir"
          /\ thread[s][c] \in Ended => scratch[s][c] = "line" \/ FlushFailed(s)
    /\ pc[s] = "copying" => scratch[s][c] # "nofile"

LeftoversInv(s) ==
    \A a \in Attempts :
        /\ thread[s][a] = "running" /\ ~Current(s, a) => a \in abandoned[s]
        /\ scratch[s][a] # "nodir" /\ (a # attempt[s] \/ pc[s] \in {"note", "noting"} \cup Settled)
             => a \in abandoned[s]

SampleInv(s) == AttemptsInv(s) /\ CurrentInv(s) /\ LeftoversInv(s)

(* The lock is held by whoever writes. *)
LockInv == \A s \in Samples : pc[s] \in Writing <=> lock = s

(* The line being written is the last. *)
HasBegun(s) == Len(output) > 0 /\ output[Len(output)].sample = s
WritingInv ==
    \A s \in Samples :
        pc[s] = "noting" \/ (pc[s] = "copying" /\ scratch[s][attempt[s]] # "blank")
          => HasBegun(s)

OutputInv ==
    /\ LockInv
    /\ WritingInv
    /\ OneLinePerSample
    /\ LineOfDecidingAttempt
    /\ OnlyFaultsSpoil

(* No more samples are being served than there are workers. *)
PoolInv == Cardinality(Busy) <= config.workers

IInv ==
    /\ TypeOK
    /\ \A s \in Samples : SampleInv(s)
    /\ OutputInv
    /\ PoolInv

-----------------------------------------------------------------------------
LEMMA InitStep == Init => IInv
<1> SUFFICES ASSUME Init PROVE IInv
  OBVIOUS
<1> USE SizeAssumption, ConfigAssumption
<1> USE DEF Init, Free, Settled, Writing, Ended, Samples, Attempts
<1>1. TypeOK
  BY DEF TypeOK
<1>2. \A s \in Samples : SampleInv(s)
  BY DEF SampleInv, AttemptsInv, CurrentInv, LeftoversInv, Failed, Current
<1>3. OutputInv
  BY DEF OutputInv, LockInv, WritingInv, OneLinePerSample, LinesOf, LineOfDecidingAttempt,
         OnlyFaultsSpoil, Loaded
<1>4. PoolInv
  <2>1. Busy = {}
    BY DEF Busy
  <2>2. config \in [workers : Nat \ {0}, timed : BOOLEAN]
    OBVIOUS
  <2> QED
    BY <2>1, <2>2, FS_EmptySet DEF PoolInv
<1> QED
  BY <1>1, <1>2, <1>3, <1>4 DEF IInv

(* The values of thread and of scratch. *)
ThreadStates == {"none", "running"} \cup Ended
ScratchStates == {"nodir", "nofile", "blank", "partial", "line"}

LEMMA SetCell ==
    ASSUME NEW V, NEW f \in [Samples -> [Attempts -> V]],
           NEW s \in Samples, NEW a \in Attempts, NEW v \in V
    PROVE  [f EXCEPT ![s][a] = v] \in [Samples -> [Attempts -> V]]
  OBVIOUS

LEMMA ScratchCell ==
    ASSUME TypeOK, NEW s \in Samples, NEW a \in Attempts, NEW v \in ScratchStates
    PROVE  [scratch EXCEPT ![s][a] = v] \in [Samples -> [Attempts -> ScratchStates]]
  BY SetCell DEF TypeOK, ScratchStates

LEMMA BusyFinite == IsFiniteSet(Busy) /\ Cardinality(Busy) \in Nat
<1>1. IsFiniteSet(1 .. N)
  BY SizeAssumption, FS_Interval
<1>2. Busy \in SUBSET (1 .. N)
  BY DEF Busy, Samples
<1> QED
  BY <1>1, <1>2, FS_Subset, FS_CardinalityType

(* Serving fewer samples keeps within the workers. *)
LEMMA BusyShrinks ==
    ASSUME TypeOK, PoolInv, config' = config, Busy' \subseteq Busy
    PROVE  PoolInv'
<1>1. IsFiniteSet(Busy') /\ Cardinality(Busy') <= Cardinality(Busy)
  BY BusyFinite, FS_Subset
<1>2. Cardinality(Busy') \in Nat
  BY <1>1, FS_CardinalityType
<1>3. config.workers \in Nat
  BY ConfigAssumption DEF TypeOK
<1> QED
  BY <1>1, <1>2, <1>3, BusyFinite DEF PoolInv

(* A sample that a step leaves alone keeps its invariant. *)
LEMMA SampleFrame ==
    ASSUME NEW r \in Samples, SampleInv(r),
           pc'[r] = pc[r], attempt'[r] = attempt[r], thread'[r] = thread[r],
           scratch'[r] = scratch[r], abandoned'[r] = abandoned[r],
           faulted \subseteq faulted'
    PROVE  SampleInv(r)'
<1>1. /\ FlushFailed(r) => FlushFailed(r)'
      /\ Faulty(r) => Faulty(r)'
  BY DEF FlushFailed, OutputFailed, ScratchFailed, Faulty
<1>2. AttemptsInv(r)'
  BY DEF SampleInv, AttemptsInv, Failed
<1>3. CurrentInv(r)'
  BY <1>1 DEF SampleInv, CurrentInv, Failed
<1>4. LeftoversInv(r)'
  BY DEF SampleInv, LeftoversInv, Current
<1> QED
  BY <1>2, <1>3, <1>4 DEF SampleInv

(* A line's sample is being written or over. *)
LEMMA LineOwner ==
    ASSUME TypeOK, OneLinePerSample, NEW i \in DOMAIN output
    PROVE  /\ output[i] \in Lines
           /\ output[i].sample \in Samples
           /\ pc[output[i].sample] \in Writing \cup Settled
<1>1. output[i] \in Lines
  BY DEF TypeOK
<1>2. output[i].sample \in Samples
  BY <1>1 DEF Lines
<1>3. i \in LinesOf(output[i].sample)
  BY DEF LinesOf
<1> QED
  BY <1>1, <1>2, <1>3 DEF OneLinePerSample

(* A step of one sample that writes nothing keeps the output's invariant.  *)
LEMMA OutputFrame ==
    ASSUME TypeOK, OutputInv, output' = output, lock' = lock, faulted \subseteq faulted',
           \A r \in Samples :
              /\ pc'[r] \in Writing <=> pc[r] \in Writing
              /\ pc'[r] = "recorded" => pc[r] = "recorded"
              /\ pc[r] \in Writing \cup Settled =>
                    /\ pc'[r] = pc[r]
                    /\ attempt'[r] = attempt[r]
                    /\ abandoned'[r] = abandoned[r]
                    /\ \A b \in Attempts : thread[r][b] \in Ended => thread'[r][b] = thread[r][b]
              /\ pc[r] = "copying" => scratch'[r][attempt[r]] = scratch[r][attempt[r]]
    PROVE  OutputInv'
<1> USE DEF Ended, Settled, Writing
<1>1. LockInv'
  BY DEF OutputInv, LockInv
<1>2. WritingInv'
  BY DEF OutputInv, WritingInv, HasBegun
<1>3. OneLinePerSample'
  <2>1. ASSUME NEW r \in Samples PROVE LinesOf(r)' = LinesOf(r) /\ (Faulty(r) => Faulty(r)')
    BY DEF LinesOf, Faulty, FlushFailed, OutputFailed, ScratchFailed
  <2> QED
    BY <2>1 DEF OutputInv, OneLinePerSample
<1>4. LineOfDecidingAttempt'
  <2> SUFFICES ASSUME NEW i \in DOMAIN output
               PROVE  LET s == output[i].sample
                          a == output[i].from IN
                      IF a = 0
                      THEN attempt'[s] = MaxAttempts /\ \A b \in Attempts : Failed(s, b)'
                      ELSE a = attempt'[s] /\ thread'[s][a] = "ok" /\ a \notin abandoned'[s]
    BY DEF LineOfDecidingAttempt
  <2>1. /\ output[i] \in Lines
        /\ output[i].sample \in Samples
        /\ pc[output[i].sample] \in Writing \cup Settled
    BY LineOwner DEF OutputInv
  <2>2. CASE output[i].from = 0
    BY <2>1, <2>2 DEF OutputInv, LineOfDecidingAttempt, Failed
  <2>3. CASE output[i].from # 0
    <3>1. output[i].from \in Attempts
      BY <2>1, <2>3, SizeAssumption DEF Lines, Attempts
    <3> QED
      BY <2>1, <2>3, <3>1 DEF OutputInv, LineOfDecidingAttempt
  <2> QED
    BY <2>2, <2>3
<1>5. OnlyFaultsSpoil'
  <2>1. \A i \in DOMAIN output : Spoilt(i) => Spoilt(i)'
    BY DEF Spoilt, FlushFailed, OutputFailed
  <2>2. Loaded' = Loaded
    BY DEF Loaded
  <2> QED
    BY <2>1, <2>2 DEF OutputInv, OnlyFaultsSpoil, TypeOK, Loaded
<1> QED
  BY <1>1, <1>2, <1>3, <1>4, <1>5 DEF OutputInv

LEMMA StartStep ==
    ASSUME IInv, NEW s \in Samples, Start(s)
    PROVE  IInv'
<1> USE SizeAssumption
<1> USE DEF Start, BeginAttempt, NextUp, WorkerFree, Free, Settled, Writing, Ended, Samples, Attempts
<1>0. TypeOK /\ OutputInv /\ PoolInv /\ SampleInv(s) /\ \A r \in Samples : SampleInv(r)
  BY DEF IInv
<1>1. TypeOK'
  <2>1. thread' \in [Samples -> [Attempts -> ThreadStates]]
    BY <1>0, SetCell DEF TypeOK, ThreadStates
  <2>2. scratch' \in [Samples -> [Attempts -> ScratchStates]]
    BY <1>0, SetCell DEF TypeOK, ScratchStates
  <2> QED
    BY <1>0, <2>1, <2>2 DEF TypeOK, DiskFaults, ThreadStates, ScratchStates
<1>2. SampleInv(s)'
  <2>1. AttemptsInv(s)'
    BY <1>0 DEF TypeOK, SampleInv, AttemptsInv, CurrentInv, Failed
  <2>2. CurrentInv(s)'
    <3>1. 1 \in Attempts /\ attempt[s] = 0
      BY <1>0 DEF SampleInv, AttemptsInv
    <3>2. /\ pc'[s] = "trying" /\ attempt'[s] = 1
          /\ thread'[s][1] = "running" /\ scratch'[s][1] = "nofile"
      BY <1>0, <3>1 DEF TypeOK
    <3>3. 1 \notin abandoned'[s]
      BY <1>0, <3>1 DEF SampleInv, AttemptsInv
    <3> QED
      BY <3>2, <3>3 DEF CurrentInv
  <2>3. LeftoversInv(s)'
    BY <1>0 DEF TypeOK, SampleInv, AttemptsInv, CurrentInv, LeftoversInv, Current, Failed
  <2> QED
    BY <2>1, <2>2, <2>3 DEF SampleInv
<1>3. \A r \in Samples : r # s => SampleInv(r)'
  BY <1>0, SampleFrame DEF TypeOK
<1>4. OutputInv'
  BY <1>0, OutputFrame DEF TypeOK, SampleInv, AttemptsInv, CurrentInv
<1>5. PoolInv'
  <2>1. Busy' = Busy \cup {s}
    BY <1>0 DEF Busy, TypeOK
  <2>2. Cardinality(Busy \cup {s}) = IF s \in Busy THEN Cardinality(Busy)
                                                  ELSE Cardinality(Busy) + 1
    BY BusyFinite, FS_AddElement
  <2>3. IsFiniteSet(Busy') /\ Cardinality(Busy') \in Nat
    BY <2>1, BusyFinite, FS_AddElement, FS_CardinalityType
  <2>4. config.workers \in Nat /\ config' = config
    BY <1>0, ConfigAssumption DEF TypeOK
  <2> QED
    BY <2>1, <2>2, <2>3, <2>4, <1>0, BusyFinite DEF PoolInv
<1> QED
  BY <1>1, <1>2, <1>3, <1>4, <1>5 DEF IInv

LEMMA RetryStep ==
    ASSUME IInv, NEW s \in Samples, Retry(s)
    PROVE  IInv'
<1> USE SizeAssumption
<1> USE DEF Retry, BeginAttempt, Free, Settled, Writing, Ended, Samples, Attempts
<1>0. TypeOK /\ OutputInv /\ PoolInv /\ SampleInv(s) /\ \A r \in Samples : SampleInv(r)
  BY DEF IInv
<1>1. TypeOK'
  <2>1. attempt[s] \in Attempts /\ attempt[s] + 1 \in Attempts
    BY <1>0 DEF TypeOK, SampleInv, AttemptsInv, CurrentInv
  <2>2. thread' \in [Samples -> [Attempts -> ThreadStates]]
    BY <1>0, <2>1, SetCell DEF TypeOK, ThreadStates
  <2>3. scratch' \in [Samples -> [Attempts -> ScratchStates]]
    <3> DEFINE f == [scratch EXCEPT ![s][attempt[s]] = "nodir"]
    <3>1. f \in [Samples -> [Attempts -> ScratchStates]]
      BY <1>0, <2>1, ScratchCell DEF ScratchStates
    <3>2. scratch' = [f EXCEPT ![s][attempt[s] + 1] = "nofile"]
      OBVIOUS
    <3>3. "nofile" \in ScratchStates
      BY DEF ScratchStates
    <3> HIDE DEF f
    <3>4. [f EXCEPT ![s][attempt[s] + 1] = "nofile"] \in [Samples -> [Attempts -> ScratchStates]]
      BY <2>1, <3>1, <3>3, SetCell
    <3> QED
      BY <3>2, <3>4
  <2>4. pc' \in [Samples -> {"waiting", "trying", "backoff", "append", "note"}
                               \cup Writing \cup Settled]
    BY <1>0 DEF TypeOK
  <2>5. attempt' \in [Samples -> 0 .. MaxAttempts]
    BY <1>0, <2>1 DEF TypeOK
  <2> QED
    BY <1>0, <2>2, <2>3, <2>4, <2>5 DEF TypeOK, ThreadStates, ScratchStates
<1>2. SampleInv(s)'
  <2>1. AttemptsInv(s)'
    BY <1>0 DEF TypeOK, SampleInv, AttemptsInv, CurrentInv, Failed
  <2>2. CurrentInv(s)'
    <3>1. attempt[s] \in Attempts /\ attempt[s] + 1 \in Attempts
      BY <1>0 DEF TypeOK, SampleInv, AttemptsInv, CurrentInv
    <3>2. /\ pc'[s] = "trying" /\ attempt'[s] = attempt[s] + 1
          /\ thread'[s][attempt[s] + 1] = "running"
          /\ scratch'[s][attempt[s] + 1] = "nofile"
      BY <1>0, <3>1 DEF TypeOK
    <3>3. attempt[s] + 1 \notin abandoned'[s]
      BY <1>0, <3>1 DEF SampleInv, AttemptsInv
    <3> QED
      BY <3>2, <3>3 DEF CurrentInv
  <2>3. LeftoversInv(s)'
    BY <1>0 DEF TypeOK, SampleInv, AttemptsInv, CurrentInv, LeftoversInv, Current, Failed
  <2> QED
    BY <2>1, <2>2, <2>3 DEF SampleInv
<1>3. \A r \in Samples : r # s => SampleInv(r)'
  BY <1>0, SampleFrame DEF TypeOK
<1>4. OutputInv'
  BY <1>0, OutputFrame DEF TypeOK, SampleInv, AttemptsInv, CurrentInv
<1>5. PoolInv'
  BY <1>0, BusyShrinks DEF Busy, TypeOK
<1> QED
  BY <1>1, <1>2, <1>3, <1>4, <1>5 DEF IInv

LEMMA NoScratchStep ==
    ASSUME IInv, NEW s \in Samples, NoScratch(s)
    PROVE  IInv'
<1> USE SizeAssumption
<1> USE DEF NoScratch, DiskFault, NextUp, WorkerFree, Free, Settled, Writing, Ended, Samples, Attempts
<1>0. TypeOK /\ OutputInv /\ PoolInv /\ SampleInv(s) /\ \A r \in Samples : SampleInv(r)
  BY DEF IInv
<1>1. TypeOK'
  <2>1. pc[s] \in {"trying", "backoff"} => attempt[s] \in Attempts
    BY <1>0 DEF TypeOK, SampleInv, AttemptsInv
  <2>2. scratch' \in [Samples -> [Attempts -> ScratchStates]]
    <3>1. CASE UNCHANGED scratch
      BY <1>0, <3>1 DEF TypeOK, ScratchStates
    <3>2. CASE scratch' = [scratch EXCEPT ![s][attempt[s]] = "nodir"] /\ pc[s] # "waiting"
      BY <1>0, <2>1, <3>2, ScratchCell DEF ScratchStates
    <3> QED
      BY <3>1, <3>2
  <2> QED
    BY <1>0, <2>1, <2>2 DEF TypeOK, DiskFaults, ScratchStates
<1>2. SampleInv(s)'
  <2>1. AttemptsInv(s)'
    BY <1>0 DEF TypeOK, SampleInv, AttemptsInv, CurrentInv, Failed
  <2>2. CurrentInv(s)'
    BY <1>0 DEF TypeOK, SampleInv, AttemptsInv, CurrentInv, Failed, Faulty, FlushFailed,
                OutputFailed, ScratchFailed
  <2>3. LeftoversInv(s)'
    BY <1>0 DEF TypeOK, SampleInv, AttemptsInv, CurrentInv, LeftoversInv, Current, Failed
  <2> QED
    BY <2>1, <2>2, <2>3 DEF SampleInv
<1>3. \A r \in Samples : r # s => SampleInv(r)'
  BY <1>0, SampleFrame DEF TypeOK
<1>4. OutputInv'
  BY <1>0, OutputFrame DEF TypeOK, SampleInv, AttemptsInv, CurrentInv
<1>5. PoolInv'
  BY <1>0, BusyShrinks DEF Busy, TypeOK
<1> QED
  BY <1>1, <1>2, <1>3, <1>4, <1>5 DEF IInv

LEMMA RunnerEndsStep ==
    ASSUME IInv, NEW s \in Samples, NEW a \in Attempts, NEW how \in Ended, RunnerEnds(s, a, how)
    PROVE  IInv'
<1> USE SizeAssumption
<1> USE DEF RunnerEnds, DiskFault, LockFree, Free, Settled, Writing, Ended, Samples, Attempts
<1>0. TypeOK /\ OutputInv /\ PoolInv /\ SampleInv(s) /\ \A r \in Samples : SampleInv(r)
  BY DEF IInv
<1>1. TypeOK'
  <2>1. thread' \in [Samples -> [Attempts -> ThreadStates]]
    BY <1>0, SetCell DEF TypeOK, ThreadStates
  <2>2. scratch' \in [Samples -> [Attempts -> ScratchStates]]
    <3>1. PICK v \in ScratchStates : scratch' = [scratch EXCEPT ![s][a] = v]
      BY <1>0 DEF TypeOK, ScratchStates
    <3> QED
      BY <1>0, <3>1, ScratchCell
  <2> QED
    BY <1>0, <2>1, <2>2 DEF TypeOK, DiskFaults, ThreadStates, ScratchStates
<1>2. SampleInv(s)'
  <2>1. AttemptsInv(s)'
    BY <1>0 DEF TypeOK, SampleInv, AttemptsInv, CurrentInv, Failed
  <2>2. CurrentInv(s)'
    <3>1. /\ FlushFailed(s) => FlushFailed(s)'
          /\ Faulty(s) => Faulty(s)'
      BY DEF FlushFailed, OutputFailed, ScratchFailed, Faulty
    <3>2. thread'[s][a] = how /\ (scratch'[s][a] = "line" \/ FlushFailed(s)')
      BY <1>0 DEF TypeOK, FlushFailed
    <3>3. \A b \in Attempts : b # a => thread'[s][b] = thread[s][b]
                                     /\ scratch'[s][b] = scratch[s][b]
      BY <1>0 DEF TypeOK
    <3>4. scratch[s][a] # "nodir" => scratch'[s][a] # "nodir"
      BY <1>0 DEF TypeOK
    <3>5. attempt[s] > 0 => attempt[s] \in Attempts
      BY <1>0 DEF TypeOK
    <3>6. pc[s] = "raised" => Faulty(s)' \/ (attempt[s] > 0 /\ thread'[s][attempt[s]] = "exit")
      BY <1>0, <3>1, <3>3, <3>5 DEF SampleInv, CurrentInv
    <3>7. pc[s] \in {"append", "copying"} => attempt[s] # a
      BY <1>0 DEF SampleInv, CurrentInv
    <3>8. \A b \in Attempts : Failed(s, b) => Failed(s, b)'
      BY <1>0, <3>3 DEF Failed
    <3>9. pc[s] \notin {"waiting", "raised"} => attempt[s] \in Attempts
      BY <1>0, <3>5 DEF SampleInv, AttemptsInv
    <3>10. pc[s] \in {"trying", "append", "copying"} =>
              /\ scratch'[s][attempt[s]] # "nodir"
              /\ thread'[s][attempt[s]] \in Ended =>
                    scratch'[s][attempt[s]] = "line" \/ FlushFailed(s)'
      BY <1>0, <3>1, <3>2, <3>3, <3>4, <3>9 DEF SampleInv, CurrentInv
    <3> QED
      BY <1>0, <3>3, <3>6, <3>7, <3>8, <3>9, <3>10 DEF SampleInv, CurrentInv
  <2>3. LeftoversInv(s)'
    BY <1>0 DEF TypeOK, SampleInv, AttemptsInv, CurrentInv, LeftoversInv, Current, Failed
  <2> QED
    BY <2>1, <2>2, <2>3 DEF SampleInv
<1>3. \A r \in Samples : r # s => SampleInv(r)'
  BY <1>0, SampleFrame DEF TypeOK
<1>4. OutputInv'
  <2>1. \A r \in Samples, b \in Attempts :
           thread[r][b] \in Ended => thread'[r][b] = thread[r][b]
    BY <1>0 DEF TypeOK
  <2>2. \A r \in Samples : pc[r] = "copying" => scratch'[r][attempt[r]] = scratch[r][attempt[r]]
    <3> SUFFICES ASSUME NEW r \in Samples, pc[r] = "copying"
                 PROVE  scratch'[r][attempt[r]] = scratch[r][attempt[r]]
      OBVIOUS
    <3>0. SampleInv(r)
      BY <1>0
    <3>1. thread[r][attempt[r]] = "ok" /\ attempt[r] \in Attempts
      BY <1>0, <3>0 DEF TypeOK, SampleInv, AttemptsInv, CurrentInv
    <3>2. r # s \/ attempt[r] # a
      BY <3>1
    <3> QED
      BY <1>0, <3>1, <3>2 DEF TypeOK
  <2>3. faulted \subseteq faulted'
    OBVIOUS
  <2> QED
    BY <1>0, <2>1, <2>2, <2>3, OutputFrame
<1>5. PoolInv'
  BY <1>0, BusyShrinks DEF Busy, TypeOK
<1> QED
  BY <1>1, <1>2, <1>3, <1>4, <1>5 DEF IInv

LEMMA AttemptFailsStep ==
    ASSUME IInv, NEW s \in Samples, AttemptFails(s)
    PROVE  IInv'
<1> USE SizeAssumption
<1> USE DEF AttemptFails, FallBack, TriesLeft, Free, Settled, Writing, Ended, Samples, Attempts
<1>0. TypeOK /\ OutputInv /\ PoolInv /\ SampleInv(s) /\ \A r \in Samples : SampleInv(r)
  BY DEF IInv
<1>1. TypeOK'
  <2>1. pc[s] \in {"trying", "backoff"} => attempt[s] \in Attempts
    BY <1>0 DEF TypeOK, SampleInv, AttemptsInv
  <2>2. scratch' \in [Samples -> [Attempts -> ScratchStates]]
    <3>1. CASE UNCHANGED scratch
      BY <1>0, <3>1 DEF TypeOK, ScratchStates
    <3>2. CASE scratch' = [scratch EXCEPT ![s][attempt[s]] = "nodir"] /\ pc[s] # "waiting"
      BY <1>0, <2>1, <3>2, ScratchCell DEF ScratchStates
    <3> QED
      BY <3>1, <3>2
  <2> QED
    BY <1>0, <2>1, <2>2 DEF TypeOK, DiskFaults, ScratchStates
<1>2. SampleInv(s)'
  <2>1. AttemptsInv(s)'
    BY <1>0 DEF TypeOK, SampleInv, AttemptsInv, CurrentInv, Failed
  <2>2. CurrentInv(s)'
    <3>1. Failed(s, attempt[s])' /\ attempt[s] <= MaxAttempts
      BY <1>0 DEF TypeOK, Failed
    <3>2. \/ pc'[s] = "backoff" /\ attempt[s] < MaxAttempts
          \/ pc'[s] = "note" /\ attempt[s] = MaxAttempts
      BY <1>0 DEF TypeOK
    <3> QED
      BY <3>1, <3>2 DEF CurrentInv
  <2>3. LeftoversInv(s)'
    BY <1>0 DEF TypeOK, SampleInv, AttemptsInv, CurrentInv, LeftoversInv, Current, Failed
  <2> QED
    BY <2>1, <2>2, <2>3 DEF SampleInv
<1>3. \A r \in Samples : r # s => SampleInv(r)'
  BY <1>0, SampleFrame DEF TypeOK
<1>4. OutputInv'
  <2>1. /\ pc[s] \notin Writing \cup Settled /\ pc'[s] \notin Writing \cup Settled
        /\ \A r \in Samples : r # s => pc'[r] = pc[r] /\ scratch'[r] = scratch[r]
                                      /\ abandoned'[r] = abandoned[r]
    BY <1>0 DEF TypeOK
  <2> QED
    BY <1>0, <2>1, OutputFrame
<1>5. PoolInv'
  BY <1>0, BusyShrinks DEF Busy, TypeOK
<1> QED
  BY <1>1, <1>2, <1>3, <1>4, <1>5 DEF IInv

LEMMA TimesOutStep ==
    ASSUME IInv, NEW s \in Samples, TimesOut(s)
    PROVE  IInv'
<1> USE SizeAssumption
<1> USE DEF TimesOut, FallBack, TriesLeft, JoinEnds, Free, Settled, Writing, Ended, Samples, Attempts
<1>0. TypeOK /\ OutputInv /\ PoolInv /\ SampleInv(s) /\ \A r \in Samples : SampleInv(r)
  BY DEF IInv
<1>1. TypeOK'
  <2>1. pc[s] \in {"trying", "backoff"} => attempt[s] \in Attempts
    BY <1>0 DEF TypeOK, SampleInv, AttemptsInv
  <2>2. scratch' \in [Samples -> [Attempts -> ScratchStates]]
    <3>1. CASE UNCHANGED scratch
      BY <1>0, <3>1 DEF TypeOK, ScratchStates
    <3>2. CASE scratch' = [scratch EXCEPT ![s][attempt[s]] = "nodir"] /\ pc[s] # "waiting"
      BY <1>0, <2>1, <3>2, ScratchCell DEF ScratchStates
    <3> QED
      BY <3>1, <3>2
  <2> QED
    BY <1>0, <2>1, <2>2 DEF TypeOK, DiskFaults, ScratchStates
<1>2. SampleInv(s)'
  <2>1. AttemptsInv(s)'
    BY <1>0 DEF TypeOK, SampleInv, AttemptsInv, CurrentInv, Failed
  <2>2. CurrentInv(s)'
    <3>1. Failed(s, attempt[s])' /\ attempt[s] <= MaxAttempts
      BY <1>0 DEF TypeOK, Failed
    <3>2. \/ pc'[s] = "backoff" /\ attempt[s] < MaxAttempts
          \/ pc'[s] = "note" /\ attempt[s] = MaxAttempts
      BY <1>0 DEF TypeOK
    <3> QED
      BY <3>1, <3>2 DEF CurrentInv
  <2>3. LeftoversInv(s)'
    BY <1>0 DEF TypeOK, SampleInv, AttemptsInv, CurrentInv, LeftoversInv, Current, Failed
  <2> QED
    BY <2>1, <2>2, <2>3 DEF SampleInv
<1>3. \A r \in Samples : r # s => SampleInv(r)'
  BY <1>0, SampleFrame DEF TypeOK
<1>4. OutputInv'
  <2>1. /\ pc[s] \notin Writing \cup Settled /\ pc'[s] \notin Writing \cup Settled
        /\ \A r \in Samples : r # s => pc'[r] = pc[r] /\ scratch'[r] = scratch[r]
                                      /\ abandoned'[r] = abandoned[r]
    BY <1>0 DEF TypeOK
  <2> QED
    BY <1>0, <2>1, OutputFrame
<1>5. PoolInv'
  BY <1>0, BusyShrinks DEF Busy, TypeOK
<1> QED
  BY <1>1, <1>2, <1>3, <1>4, <1>5 DEF IInv

LEMMA AttemptExitsStep ==
    ASSUME IInv, NEW s \in Samples, AttemptExits(s)
    PROVE  IInv'
<1> USE SizeAssumption
<1> USE DEF AttemptExits, Free, Settled, Writing, Ended, Samples, Attempts
<1>0. TypeOK /\ OutputInv /\ PoolInv /\ SampleInv(s) /\ \A r \in Samples : SampleInv(r)
  BY DEF IInv
<1>1. TypeOK'
  BY <1>0 DEF TypeOK, DiskFaults, SampleInv, AttemptsInv, CurrentInv
<1>2. SampleInv(s)'
  <2>1. AttemptsInv(s)'
    BY <1>0 DEF TypeOK, SampleInv, AttemptsInv, CurrentInv, Failed
  <2>2. CurrentInv(s)'
    BY <1>0 DEF TypeOK, SampleInv, AttemptsInv, CurrentInv, Failed, Faulty, FlushFailed,
                OutputFailed, ScratchFailed
  <2>3. LeftoversInv(s)'
    BY <1>0 DEF TypeOK, SampleInv, AttemptsInv, CurrentInv, LeftoversInv, Current, Failed
  <2> QED
    BY <2>1, <2>2, <2>3 DEF SampleInv
<1>3. \A r \in Samples : r # s => SampleInv(r)'
  BY <1>0, SampleFrame DEF TypeOK
<1>4. OutputInv'
  BY <1>0, OutputFrame DEF TypeOK, SampleInv, AttemptsInv, CurrentInv
<1>5. PoolInv'
  BY <1>0, BusyShrinks DEF Busy, TypeOK
<1> QED
  BY <1>1, <1>2, <1>3, <1>4, <1>5 DEF IInv

LEMMA AttemptSucceedsStep ==
    ASSUME IInv, NEW s \in Samples, AttemptSucceeds(s)
    PROVE  IInv'
<1> USE SizeAssumption
<1> USE DEF AttemptSucceeds, Free, Settled, Writing, Ended, Samples, Attempts
<1>0. TypeOK /\ OutputInv /\ PoolInv /\ SampleInv(s) /\ \A r \in Samples : SampleInv(r)
  BY DEF IInv
<1>1. TypeOK'
  BY <1>0 DEF TypeOK, DiskFaults, SampleInv, AttemptsInv, CurrentInv
<1>2. SampleInv(s)'
  <2>1. AttemptsInv(s)'
    BY <1>0 DEF TypeOK, SampleInv, AttemptsInv, CurrentInv, Failed
  <2>2. CurrentInv(s)'
    BY <1>0 DEF TypeOK, SampleInv, AttemptsInv, CurrentInv, Failed, Faulty, FlushFailed,
                OutputFailed, ScratchFailed
  <2>3. LeftoversInv(s)'
    BY <1>0 DEF TypeOK, SampleInv, AttemptsInv, CurrentInv, LeftoversInv, Current, Failed
  <2> QED
    BY <2>1, <2>2, <2>3 DEF SampleInv
<1>3. \A r \in Samples : r # s => SampleInv(r)'
  BY <1>0, SampleFrame DEF TypeOK
<1>4. OutputInv'
  BY <1>0, OutputFrame DEF TypeOK, SampleInv, AttemptsInv, CurrentInv
<1>5. PoolInv'
  BY <1>0, BusyShrinks DEF Busy, TypeOK
<1> QED
  BY <1>1, <1>2, <1>3, <1>4, <1>5 DEF IInv

LEMMA MissingFileStep ==
    ASSUME IInv, NEW s \in Samples, MissingFile(s)
    PROVE  IInv'
<1> USE SizeAssumption
<1> USE DEF MissingFile, LockFree, Free, Settled, Writing, Ended, Samples, Attempts
<1>0. TypeOK /\ OutputInv /\ PoolInv /\ SampleInv(s) /\ \A r \in Samples : SampleInv(r)
  BY DEF IInv
<1>1. TypeOK'
  BY <1>0 DEF TypeOK, DiskFaults, SampleInv, AttemptsInv, CurrentInv
<1>2. SampleInv(s)'
  <2>1. AttemptsInv(s)'
    BY <1>0 DEF TypeOK, SampleInv, AttemptsInv, CurrentInv, Failed
  <2>2. CurrentInv(s)'
    BY <1>0 DEF TypeOK, SampleInv, AttemptsInv, CurrentInv, Failed, Faulty, FlushFailed,
                OutputFailed, ScratchFailed
  <2>3. LeftoversInv(s)'
    BY <1>0 DEF TypeOK, SampleInv, AttemptsInv, CurrentInv, LeftoversInv, Current, Failed
  <2> QED
    BY <2>1, <2>2, <2>3 DEF SampleInv
<1>3. \A r \in Samples : r # s => SampleInv(r)'
  BY <1>0, SampleFrame DEF TypeOK
<1>4. OutputInv'
  BY <1>0, OutputFrame DEF TypeOK, SampleInv, AttemptsInv, CurrentInv
<1>5. PoolInv'
  BY <1>0, BusyShrinks DEF Busy, TypeOK
<1> QED
  BY <1>1, <1>2, <1>3, <1>4, <1>5 DEF IInv

(***************************************************************************)
(* Steps that write                                                        *)
(***************************************************************************)
(* The sample's line is begun at the end of the file. *)
LEMMA PutLineKeeps ==
    ASSUME TypeOK, OutputInv, NEW s \in Samples, NEW from \in 0 .. MaxAttempts,
           PutLine(s, from), LockFree, lock' = s,
           pc[s] \in {"append", "note"}, NEW w \in Writing, pc' = [pc EXCEPT ![s] = w],
           UNCHANGED <<attempt, thread, scratch, abandoned, faulted>>,
           IF from = 0
           THEN attempt[s] = MaxAttempts /\ \A b \in Attempts : Failed(s, b)
           ELSE from = attempt[s] /\ thread[s][from] = "ok" /\ from \notin abandoned[s]
    PROVE  OutputInv'
<1> USE DEF Settled, Writing
<1> DEFINE n == Len(output) + 1
           line == [sample |-> s, from |-> from, text |-> "torn"]
<1>1. /\ output \in Seq(Lines)
      /\ line \in Lines
      /\ output' = Append(output, line)
  BY DEF TypeOK, PutLine, Lines
<1>2. /\ Len(output') = n
      /\ DOMAIN output = 1 .. (n - 1)
      /\ DOMAIN output' = 1 .. n
      /\ \A i \in 1 .. (n - 1) : output'[i] = output[i]
      /\ output'[n] = line
      /\ n \in Nat \ {0}
  BY <1>1
<1>3. line.sample = s /\ line.from = from /\ line.text = "torn"
  OBVIOUS
<1>4. LinesOf(s) = {}
  BY DEF OutputInv, OneLinePerSample
<1>5. \A r \in Samples : pc'[r] = IF r = s THEN w ELSE pc[r]
  BY DEF TypeOK
<1> HIDE DEF n, line
<1>6. LockInv'
  BY <1>5 DEF OutputInv, LockInv, LockFree, Free, Samples
<1>7. WritingInv'
  <2>1. \A r \in Samples : r # s => pc[r] \notin Writing
    BY DEF OutputInv, LockInv, LockFree, Free, Samples
  <2> QED
    BY <1>2, <1>3, <1>5, <2>1 DEF WritingInv, HasBegun
<1>8. OneLinePerSample'
  <2>1. LinesOf(s)' = {n}
    BY <1>2, <1>3, <1>4 DEF LinesOf
  <2>2. \A r \in Samples : r # s => LinesOf(r)' = LinesOf(r)
    BY <1>2, <1>3 DEF LinesOf
  <2>3. \A r \in Samples : Faulty(r)' <=> Faulty(r)
    BY DEF Faulty, FlushFailed, OutputFailed, ScratchFailed
  <2> QED
    BY <1>5, <2>1, <2>2, <2>3 DEF OutputInv, OneLinePerSample
<1>9. LineOfDecidingAttempt'
  <2>1. \A r, b : Failed(r, b)' <=> Failed(r, b)
    BY DEF Failed
  <2> QED
    BY <1>2, <1>3, <2>1 DEF OutputInv, LineOfDecidingAttempt
<1>10. OnlyFaultsSpoil'
  <2>1. \A i \in 1 .. (n - 1) : Spoilt(i)' <=> Spoilt(i)
    BY <1>2 DEF Spoilt, FlushFailed, OutputFailed
  <2>2. \A i \in 1 .. (n - 1) : output[i].text = "torn" => Spoilt(i)
    <3> SUFFICES ASSUME NEW i \in 1 .. (n - 1), output[i].text = "torn"
                 PROVE  Spoilt(i)
      OBVIOUS
    <3>1. output[i].sample \in Samples
      BY <1>2, LineOwner DEF OutputInv
    <3>2. lock # output[i].sample
      BY <3>1 DEF LockFree, Free, Samples
    <3> QED
      BY <1>2, <3>2 DEF OutputInv, OnlyFaultsSpoil, Loaded
  <2>3. Loaded' = Loaded
    BY <1>2, <1>3 DEF Loaded
  <2> SUFFICES ASSUME NEW i \in 1 .. n, i \notin Loaded
               PROVE  IF output'[i].text = "torn"
                      THEN lock' = output'[i].sample \/ Spoilt(i)'
                      ELSE i > 1 /\ output'[i - 1].text = "torn" /\ Spoilt(i - 1)'
    BY <1>2, <2>3 DEF OnlyFaultsSpoil
  <2>4. CASE i = n
    BY <1>2, <1>3, <2>4
  <2>5. CASE i \in 1 .. (n - 1)
    <3>1. CASE output[i].text = "torn"
      BY <1>2, <2>1, <2>2, <2>5, <3>1
    <3>2. CASE output[i].text # "torn"
      <4>1. i > 1 /\ output[i - 1].text = "torn" /\ Spoilt(i - 1)
        BY <1>2, <2>5, <3>2 DEF OutputInv, OnlyFaultsSpoil
      <4>2. i - 1 \in 1 .. (n - 1)
        BY <2>5, <4>1, <1>2
      <4> QED
        BY <1>2, <2>1, <2>5, <3>2, <4>1, <4>2
    <3> QED
      BY <3>1, <3>2
  <2> QED
    BY <2>4, <2>5, <1>2
<1> QED
  BY <1>6, <1>7, <1>8, <1>9, <1>10 DEF OutputInv

(* The rest of the last line is written and the lock released. *)
LEMMA EndLineKeeps ==
    ASSUME TypeOK, OutputInv, NEW s \in Samples, EndLine(s), HasBegun(s),
           pc[s] \in Writing, pc' = [pc EXCEPT ![s] = "recorded"], lock' = Free,
           UNCHANGED <<attempt, thread, abandoned, faulted>>,
           \A r \in Samples : r # s => scratch'[r] = scratch[r]
    PROVE  OutputInv'
<1> USE DEF Settled, Writing
<1> DEFINE n == Len(output)
           text == IF n > 1 /\ output[n - 1].text = "torn" THEN "glued" ELSE "whole"
<1>1. output \in Seq(Lines) /\ n > 0 /\ n \in Nat /\ output[n].sample = s
  BY DEF TypeOK, HasBegun
<1>2. output' = [output EXCEPT ![n].text = text]
  BY <1>1 DEF EndLine
<1>3. /\ DOMAIN output = 1 .. n
      /\ DOMAIN output' = 1 .. n
      /\ Len(output') = n
  BY <1>1, <1>2
<1>4. \A i \in 1 .. n : i # n => output'[i] = output[i]
  BY <1>1, <1>2
<1>5. output[n] \in Lines
  BY <1>1
<1>6. /\ output'[n].sample = s
      /\ output'[n].from = output[n].from
      /\ output'[n].text = text
  BY <1>1, <1>2, <1>5 DEF Lines
<1>7. \A i \in 1 .. n : /\ output'[i].sample = output[i].sample
                        /\ output'[i].from = output[i].from
  BY <1>1, <1>4, <1>6
<1>8. \A r \in Samples : pc'[r] = IF r = s THEN "recorded" ELSE pc[r]
  BY DEF TypeOK
<1>9. lock = s /\ \A r \in Samples : r # s => pc[r] \notin Writing
  BY DEF OutputInv, LockInv
<1> HIDE DEF n, text
<1>10. LockInv' /\ WritingInv'
  BY <1>8, <1>9 DEF LockInv, WritingInv, Free, Samples
<1>11. OneLinePerSample'
  <2>1. \A r \in Samples : LinesOf(r)' = LinesOf(r)
    BY <1>3, <1>7 DEF LinesOf
  <2>2. n \in LinesOf(s)
    BY <1>1, <1>3 DEF LinesOf
  <2>3. \A r \in Samples : Faulty(r)' <=> Faulty(r)
    BY DEF Faulty, FlushFailed, OutputFailed, ScratchFailed
  <2> QED
    BY <1>8, <2>1, <2>2, <2>3 DEF OutputInv, OneLinePerSample
<1>12. LineOfDecidingAttempt'
  <2>1. \A r, b : Failed(r, b)' <=> Failed(r, b)
    BY DEF Failed
  <2> QED
    BY <1>3, <1>7, <2>1 DEF OutputInv, LineOfDecidingAttempt
<1>13. OnlyFaultsSpoil'
  <2>1. \A i \in 1 .. n : Spoilt(i)' <=> Spoilt(i)
    BY <1>7 DEF Spoilt, FlushFailed, OutputFailed
  <2>2. \A i \in 1 .. n : i # n /\ output[i].text = "torn" => Spoilt(i)
    <3> SUFFICES ASSUME NEW i \in 1 .. n, i # n, output[i].text = "torn"
                 PROVE  Spoilt(i)
      OBVIOUS
    <3>1. output[i].sample # s
      <4>1. i \in LinesOf(output[i].sample) /\ n \in LinesOf(s)
        BY <1>1, <1>3 DEF LinesOf
      <4> QED
        BY <4>1 DEF OutputInv, OneLinePerSample
    <3> QED
      BY <1>3, <1>9, <3>1 DEF OutputInv, OnlyFaultsSpoil, Loaded
  <2> SUFFICES ASSUME NEW i \in 1 .. n, output'[i].text # "whole"
               PROVE  IF output'[i].text = "torn"
                      THEN lock' = output'[i].sample \/ Spoilt(i)'
                      ELSE i > 1 /\ output'[i - 1].text = "torn" /\ Spoilt(i - 1)'
    BY <1>3 DEF OnlyFaultsSpoil, Loaded
  <2>3. CASE i = n
    <3>1. n > 1 /\ output[n - 1].text = "torn" /\ output'[n].text = "glued"
      BY <1>6, <2>3 DEF text
    <3>2. n - 1 \in 1 .. n /\ n - 1 # n
      BY <1>1, <3>1
    <3> QED
      BY <1>4, <2>1, <2>2, <2>3, <3>1, <3>2
  <2>4. CASE i # n
    <3>1. output'[i] = output[i]
      BY <1>4, <2>4
    <3>2. CASE output[i].text = "torn"
      BY <2>1, <2>2, <2>4, <3>1, <3>2
    <3>3. CASE output[i].text # "torn"
      <4>1. i > 1 /\ output[i - 1].text = "torn" /\ Spoilt(i - 1)
        BY <1>3, <2>4, <3>1, <3>3 DEF OutputInv, OnlyFaultsSpoil, Loaded
      <4>2. i - 1 \in 1 .. n /\ i - 1 # n
        BY <1>1, <4>1
      <4> QED
        BY <1>4, <2>1, <3>1, <3>3, <4>1, <4>2
    <3> QED
      BY <3>2, <3>3
  <2> QED
    BY <2>3, <2>4
<1> QED
  BY <1>10, <1>11, <1>12, <1>13 DEF OutputInv

(* A sample whose disk failed is over; the lock is free again if it had it. *)
LEMMA ReleaseKeeps ==
    ASSUME TypeOK, OutputInv, NEW s \in Samples, output' = output,
           pc[s] \in {"append", "note"} \cup Writing, NEW w \in Settled,
           pc' = [pc EXCEPT ![s] = w], lock' = (IF lock = s THEN Free ELSE lock),
           faulted \subseteq faulted', (FlushFailed(s) \/ OutputFailed(s))',
           UNCHANGED <<attempt, thread, abandoned>>,
           \A r \in Samples : r # s => scratch'[r] = scratch[r]
    PROVE  OutputInv'
<1> USE DEF Settled, Writing
<1>1. \A r \in Samples : pc'[r] = IF r = s THEN w ELSE pc[r]
  BY DEF TypeOK
<1>2. LockInv'
  BY <1>1 DEF OutputInv, LockInv, Free, Samples
<1>3. WritingInv'
  BY <1>1 DEF OutputInv, WritingInv, HasBegun
<1>4. OneLinePerSample'
  <2>1. \A r \in Samples : LinesOf(r)' = LinesOf(r) /\ (Faulty(r) => Faulty(r)')
    BY DEF LinesOf, Faulty, FlushFailed, OutputFailed, ScratchFailed
  <2>2. Faulty(s)'
    BY DEF Faulty
  <2> QED
    BY <1>1, <2>1, <2>2 DEF OutputInv, OneLinePerSample
<1>5. LineOfDecidingAttempt'
  BY DEF OutputInv, LineOfDecidingAttempt, Failed
<1>6. OnlyFaultsSpoil'
  <2>1. \A i \in DOMAIN output : /\ Spoilt(i) => Spoilt(i)'
                                 /\ output[i].sample = s => Spoilt(i)'
    BY DEF Spoilt, FlushFailed, OutputFailed
  <2> QED
    BY <2>1 DEF OutputInv, OnlyFaultsSpoil, Loaded, TypeOK
<1> QED
  BY <1>2, <1>3, <1>4, <1>5, <1>6 DEF OutputInv

(* An empty scratch file is opened: nothing is written under the lock. *)
LEMMA BlankKeeps ==
    ASSUME TypeOK, OutputInv, NEW s \in Samples, output' = output, LockFree, lock' = s,
           pc[s] = "append", pc' = [pc EXCEPT ![s] = "copying"],
           scratch[s][attempt[s]] = "blank",
           UNCHANGED <<attempt, thread, scratch, abandoned, faulted>>
    PROVE  OutputInv'
<1> USE DEF Settled, Writing
<1>1. \A r \in Samples : pc'[r] = IF r = s THEN "copying" ELSE pc[r]
  BY DEF TypeOK
<1>2. \A r \in Samples : pc[r] \notin Writing
  BY DEF OutputInv, LockInv, LockFree, Free, Samples
<1>3. LockInv' /\ WritingInv'
  BY <1>1, <1>2 DEF LockInv, WritingInv
<1>4. OneLinePerSample'
  <2>1. \A r \in Samples : LinesOf(r)' = LinesOf(r) /\ (Faulty(r) <=> Faulty(r)')
    BY DEF LinesOf, Faulty, FlushFailed, OutputFailed, ScratchFailed
  <2> QED
    BY <1>1, <2>1 DEF OutputInv, OneLinePerSample
<1>5. LineOfDecidingAttempt'
  BY DEF OutputInv, LineOfDecidingAttempt, Failed
<1>6. OnlyFaultsSpoil'
  <2>1. \A i \in DOMAIN output : /\ Spoilt(i) <=> Spoilt(i)'
                                 /\ output[i].sample \in Samples
    BY LineOwner DEF OutputInv, Spoilt, FlushFailed, OutputFailed
  <2>2. \A r \in Samples : lock # r
    BY DEF LockFree, Free, Samples
  <2> QED
    BY <2>1, <2>2 DEF OutputInv, OnlyFaultsSpoil, Loaded, TypeOK
<1> QED
  BY <1>3, <1>4, <1>5, <1>6 DEF OutputInv

(* Ending a line keeps a sequence of lines. *)
LEMMA EndLineType ==
    ASSUME output \in Seq(Lines), NEW s, EndLine(s)
    PROVE  output' \in Seq(Lines)
<1> DEFINE n == Len(output)
           text == IF n > 1 /\ output[n - 1].text = "torn" THEN "glued" ELSE "whole"
<1>1. CASE n > 0 /\ output[n].sample = s
  <2>1. output' = [output EXCEPT ![n].text = text]
    BY <1>1 DEF EndLine
  <2>2. output[n] \in Lines /\ n \in 1 .. Len(output)
    BY <1>1
  <2>3. [output[n] EXCEPT !.text = text] \in Lines
    BY <2>2 DEF Lines
  <2>4. output' = [output EXCEPT ![n] = [output[n] EXCEPT !.text = text]]
    BY <2>1
  <2> QED
    BY <2>2, <2>3, <2>4
<1>2. CASE ~(n > 0 /\ output[n].sample = s)
  BY <1>2 DEF EndLine
<1> QED
  BY <1>1, <1>2

LEMMA BeginCopyStep ==
    ASSUME IInv, NEW s \in Samples, BeginCopy(s)
    PROVE  IInv'
<1> USE SizeAssumption
<1> USE DEF BeginCopy, LockFree, Free, Settled, Writing, Ended, Samples, Attempts
<1>0. TypeOK /\ OutputInv /\ PoolInv /\ SampleInv(s) /\ \A r \in Samples : SampleInv(r)
  BY DEF IInv
<1>1. TypeOK'
  <2>3. output' \in Seq(Lines)
    <3>1. CASE UNCHANGED output
      BY <1>0, <3>1 DEF TypeOK
    <3>2. CASE PutLine(s, attempt[s])
      <4>1. [sample |-> s, from |-> attempt[s], text |-> "torn"] \in Lines
        BY <1>0 DEF TypeOK, Lines
      <4> QED
        BY <1>0, <3>2, <4>1 DEF TypeOK, PutLine
    <3> QED
      BY <3>1, <3>2
  <2> QED
    BY <1>0, <2>3 DEF TypeOK, DiskFaults, ScratchStates
<1>2. SampleInv(s)'
  <2>1. AttemptsInv(s)'
    BY <1>0 DEF TypeOK, SampleInv, AttemptsInv, CurrentInv, Failed
  <2>2. CurrentInv(s)'
    BY <1>0 DEF TypeOK, SampleInv, AttemptsInv, CurrentInv, Failed, Faulty, FlushFailed,
                OutputFailed, ScratchFailed
  <2>3. LeftoversInv(s)'
    BY <1>0 DEF TypeOK, SampleInv, AttemptsInv, CurrentInv, LeftoversInv, Current, Failed
  <2> QED
    BY <2>1, <2>2, <2>3 DEF SampleInv
<1>3. \A r \in Samples : r # s => SampleInv(r)'
  BY <1>0, SampleFrame DEF TypeOK
<1>4. OutputInv'
  <2>1. attempt[s] \in 1 .. MaxAttempts /\ thread[s][attempt[s]] = "ok"
        /\ attempt[s] \notin abandoned[s]
    BY <1>0 DEF TypeOK, SampleInv, AttemptsInv, CurrentInv
  <2>2. CASE PutLine(s, attempt[s])
    <3>1. pc' = [pc EXCEPT ![s] = "copying"] /\ "copying" \in Writing
      OBVIOUS
    <3>2. attempt[s] \in 0 .. MaxAttempts /\ attempt[s] # 0
      BY <2>1
    <3> QED
      BY <1>0, <2>1, <2>2, <3>1, <3>2, PutLineKeeps
  <2>3. CASE UNCHANGED output /\ scratch[s][attempt[s]] = "blank"
    BY <1>0, <2>3, BlankKeeps
  <2> QED
    BY <2>2, <2>3
<1>5. PoolInv'
  BY <1>0, BusyShrinks DEF Busy, TypeOK
<1> QED
  BY <1>1, <1>2, <1>3, <1>4, <1>5 DEF IInv

LEMMA BeginNoteStep ==
    ASSUME IInv, NEW s \in Samples, BeginNote(s)
    PROVE  IInv'
<1> USE SizeAssumption
<1> USE DEF BeginNote, LockFree, Free, Settled, Writing, Ended, Samples, Attempts
<1>0. TypeOK /\ OutputInv /\ PoolInv /\ SampleInv(s) /\ \A r \in Samples : SampleInv(r)
  BY DEF IInv
<1>1. TypeOK'
  <2>3. output' \in Seq(Lines)
    <3>1. [sample |-> s, from |-> 0, text |-> "torn"] \in Lines
      BY DEF Lines
    <3> QED
      BY <1>0, <3>1 DEF TypeOK, PutLine
  <2> QED
    BY <1>0, <2>3 DEF TypeOK, DiskFaults, ScratchStates
<1>2. SampleInv(s)'
  <2>1. AttemptsInv(s)'
    BY <1>0 DEF TypeOK, SampleInv, AttemptsInv, CurrentInv, Failed
  <2>2. CurrentInv(s)'
    BY <1>0 DEF TypeOK, SampleInv, AttemptsInv, CurrentInv, Failed, Faulty, FlushFailed,
                OutputFailed, ScratchFailed
  <2>3. LeftoversInv(s)'
    BY <1>0 DEF TypeOK, SampleInv, AttemptsInv, CurrentInv, LeftoversInv, Current, Failed
  <2> QED
    BY <2>1, <2>2, <2>3 DEF SampleInv
<1>3. \A r \in Samples : r # s => SampleInv(r)'
  BY <1>0, SampleFrame DEF TypeOK
<1>4. OutputInv'
  <2>1. attempt[s] = MaxAttempts /\ \A b \in Attempts : Failed(s, b)
    BY <1>0 DEF TypeOK, SampleInv, AttemptsInv, CurrentInv
  <2>2. /\ pc' = [pc EXCEPT ![s] = "noting"] /\ "noting" \in Writing
        /\ 0 \in 0 .. MaxAttempts
    OBVIOUS
  <2> QED
    BY <1>0, <2>1, <2>2, PutLineKeeps
<1>5. PoolInv'
  BY <1>0, BusyShrinks DEF Busy, TypeOK
<1> QED
  BY <1>1, <1>2, <1>3, <1>4, <1>5 DEF IInv

LEMMA EndCopyStep ==
    ASSUME IInv, NEW s \in Samples, EndCopy(s)
    PROVE  IInv'
<1> USE SizeAssumption
<1> USE DEF EndCopy, Free, Settled, Writing, Ended, Samples, Attempts
<1>0. TypeOK /\ OutputInv /\ PoolInv /\ SampleInv(s) /\ \A r \in Samples : SampleInv(r)
  BY DEF IInv
<1>1. TypeOK'
  <2>1. pc[s] \in {"append", "copying"} => attempt[s] \in Attempts
    BY <1>0 DEF TypeOK, SampleInv, AttemptsInv
  <2>2. scratch' \in [Samples -> [Attempts -> ScratchStates]]
    BY <1>0, <2>1, ScratchCell DEF ScratchStates
  <2>3. output' \in Seq(Lines)
    BY <1>0, EndLineType DEF TypeOK
  <2> QED
    BY <1>0, <2>1, <2>2, <2>3 DEF TypeOK, DiskFaults, ScratchStates
<1>2. SampleInv(s)'
  <2>1. AttemptsInv(s)'
    BY <1>0 DEF TypeOK, SampleInv, AttemptsInv, CurrentInv, Failed
  <2>2. CurrentInv(s)'
    BY <1>0 DEF TypeOK, SampleInv, AttemptsInv, CurrentInv, Failed, Faulty, FlushFailed,
                OutputFailed, ScratchFailed
  <2>3. LeftoversInv(s)'
    BY <1>0 DEF TypeOK, SampleInv, AttemptsInv, CurrentInv, LeftoversInv, Current, Failed
  <2> QED
    BY <2>1, <2>2, <2>3 DEF SampleInv
<1>3. \A r \in Samples : r # s => SampleInv(r)'
  BY <1>0, SampleFrame DEF TypeOK
<1>4. OutputInv'
  <2>1. CASE scratch[s][attempt[s]] = "line"
    <3>1. EndLine(s) /\ HasBegun(s)
      BY <1>0, <2>1 DEF OutputInv, WritingInv
    <3> QED
      BY <1>0, <3>1, EndLineKeeps DEF TypeOK
  <2>2. CASE scratch[s][attempt[s]] # "line"
    <3>1. FlushFailed(s) /\ output' = output
      BY <1>0, <2>2 DEF SampleInv, CurrentInv
    <3>2. (FlushFailed(s) \/ OutputFailed(s))'
      BY <3>1 DEF FlushFailed
    <3>3. lock' = IF lock = s THEN Free ELSE lock
      BY <1>0 DEF OutputInv, LockInv
    <3> QED
      BY <1>0, <3>1, <3>2, <3>3, ReleaseKeeps DEF TypeOK
  <2> QED
    BY <2>1, <2>2
<1>5. PoolInv'
  BY <1>0, BusyShrinks DEF Busy, TypeOK
<1> QED
  BY <1>1, <1>2, <1>3, <1>4, <1>5 DEF IInv

LEMMA EndNoteStep ==
    ASSUME IInv, NEW s \in Samples, EndNote(s)
    PROVE  IInv'
<1> USE SizeAssumption
<1> USE DEF EndNote, Free, Settled, Writing, Ended, Samples, Attempts
<1>0. TypeOK /\ OutputInv /\ PoolInv /\ SampleInv(s) /\ \A r \in Samples : SampleInv(r)
  BY DEF IInv
<1>1. TypeOK'
  <2>3. output' \in Seq(Lines)
    BY <1>0, EndLineType DEF TypeOK
  <2> QED
    BY <1>0, <2>3 DEF TypeOK, DiskFaults, ScratchStates
<1>2. SampleInv(s)'
  <2>1. AttemptsInv(s)'
    BY <1>0 DEF TypeOK, SampleInv, AttemptsInv, CurrentInv, Failed
  <2>2. CurrentInv(s)'
    BY <1>0 DEF TypeOK, SampleInv, AttemptsInv, CurrentInv, Failed, Faulty, FlushFailed,
                OutputFailed, ScratchFailed
  <2>3. LeftoversInv(s)'
    BY <1>0 DEF TypeOK, SampleInv, AttemptsInv, CurrentInv, LeftoversInv, Current, Failed
  <2> QED
    BY <2>1, <2>2, <2>3 DEF SampleInv
<1>3. \A r \in Samples : r # s => SampleInv(r)'
  BY <1>0, SampleFrame DEF TypeOK
<1>4. OutputInv'
  <2>1. HasBegun(s)
    BY <1>0 DEF OutputInv, WritingInv
  <2> QED
    BY <1>0, <2>1, EndLineKeeps
<1>5. PoolInv'
  BY <1>0, BusyShrinks DEF Busy, TypeOK
<1> QED
  BY <1>1, <1>2, <1>3, <1>4, <1>5 DEF IInv

LEMMA OutputFailsStep ==
    ASSUME IInv, NEW s \in Samples, OutputFails(s)
    PROVE  IInv'
<1> USE SizeAssumption
<1> USE DEF OutputFails, DiskFault, Free, Settled, Writing, Ended, Samples, Attempts
<1>0. TypeOK /\ OutputInv /\ PoolInv /\ SampleInv(s) /\ \A r \in Samples : SampleInv(r)
  BY DEF IInv
<1>1. TypeOK'
  <2>1. pc[s] \in {"append", "copying"} => attempt[s] \in Attempts
    BY <1>0 DEF TypeOK, SampleInv, AttemptsInv
  <2>2. scratch' \in [Samples -> [Attempts -> ScratchStates]]
    <3>1. CASE UNCHANGED scratch
      BY <1>0, <3>1 DEF TypeOK, ScratchStates
    <3>2. CASE scratch' = [scratch EXCEPT ![s][attempt[s]] = "nodir"]
               /\ pc[s] \in {"append", "copying"}
      BY <1>0, <2>1, <3>2, ScratchCell DEF ScratchStates
    <3> QED
      BY <3>1, <3>2
  <2> QED
    BY <1>0, <2>1, <2>2 DEF TypeOK, DiskFaults, ScratchStates
<1>2. SampleInv(s)'
  <2>1. AttemptsInv(s)'
    BY <1>0 DEF TypeOK, SampleInv, AttemptsInv, CurrentInv, Failed
  <2>2. CurrentInv(s)'
    <3>1. pc'[s] \in Settled /\ Faulty(s)'
      BY <1>0 DEF TypeOK, Faulty, OutputFailed
    <3> QED
      BY <3>1 DEF CurrentInv
  <2>3. LeftoversInv(s)'
    BY <1>0 DEF TypeOK, SampleInv, AttemptsInv, CurrentInv, LeftoversInv, Current, Failed
  <2> QED
    BY <2>1, <2>2, <2>3 DEF SampleInv
<1>3. \A r \in Samples : r # s => SampleInv(r)'
  BY <1>0, SampleFrame DEF TypeOK
<1>4. OutputInv'
  <2>1. (FlushFailed(s) \/ OutputFailed(s))'
    BY DEF OutputFailed
  <2>2. \A r \in Samples : r # s => scratch'[r] = scratch[r]
    BY <1>0 DEF TypeOK
  <2>3. PICK w \in Settled : pc' = [pc EXCEPT ![s] = w]
    OBVIOUS
  <2> QED
    BY <1>0, <2>1, <2>2, <2>3, ReleaseKeeps
<1>5. PoolInv'
  BY <1>0, BusyShrinks DEF Busy, TypeOK
<1> QED
  BY <1>1, <1>2, <1>3, <1>4, <1>5 DEF IInv

-----------------------------------------------------------------------------
LEMMA StepKeeps == IInv /\ [Next]_vars => IInv'
<1> SUFFICES ASSUME IInv, [Next]_vars PROVE IInv'
  OBVIOUS
<1>1. CASE Next
  <2>1. ASSUME NEW s \in Samples, Serve(s) PROVE IInv'
    BY <2>1, StartStep, RetryStep, AttemptFailsStep, TimesOutStep, AttemptExitsStep,
       AttemptSucceedsStep, BeginCopyStep, MissingFileStep, EndCopyStep, BeginNoteStep,
       EndNoteStep DEF Serve
  <2>2. ASSUME NEW s \in Samples, NoScratch(s) \/ OutputFails(s) PROVE IInv'
    BY <2>2, NoScratchStep, OutputFailsStep
  <2>3. ASSUME NEW s \in Samples, NEW a \in Attempts, NEW how \in Ended, RunnerEnds(s, a, how)
        PROVE  IInv'
    BY <2>3, RunnerEndsStep
  <2> QED
    BY <1>1, <2>1, <2>2, <2>3 DEF Next
<1>2. CASE UNCHANGED vars
  <2>1. TypeOK' /\ PoolInv'
    BY <1>2 DEF IInv, vars, TypeOK, PoolInv, Busy
  <2>2. \A s \in Samples : SampleInv(s)'
    BY <1>2, SampleFrame DEF IInv, vars
  <2>3. OutputInv'
    BY <1>2, OutputFrame DEF IInv, vars
  <2> QED
    BY <2>1, <2>2, <2>3 DEF IInv
<1> QED
  BY <1>1, <1>2

(* Every reachable state satisfies the inductive invariant: what the stand *)
(* of run_samples' threads implies about attempts, scratch files and lines. *)
THEOREM Inductive == Spec => []IInv
  BY InitStep, StepKeeps, PTL DEF Spec

(* Every reachable state of run_samples is well typed: no attempt beyond    *)
(* 1 + retries is ever made.                                               *)
THEOREM TypeCorrect == Spec => []TypeOK
<1>1. IInv => TypeOK
  BY DEF IInv
<1> QED
  BY <1>1, Inductive, PTL

(* _run_one_sample_with_retry writes one trajectory per sample, with any   *)
(* number of workers and abandoned attempts.                               *)
THEOREM OneLine == Spec => []OneLinePerSample
<1>1. IInv => OneLinePerSample
  BY DEF IInv, OutputInv
<1> QED
  BY <1>1, Inductive, PTL

(* No line of the output is of an abandoned attempt, and a failure is      *)
(* noted only when every attempt failed.                                   *)
THEOREM LineDecided == Spec => []LineOfDecidingAttempt
<1>1. IInv => LineOfDecidingAttempt
  BY DEF IInv, OutputInv
<1> QED
  BY <1>1, Inductive, PTL

(* Lines appended by the threads of a pool never mix: what the reader      *)
(* skips is the doing of a disk fault.                                     *)
THEOREM LinesWhole == Spec => []OnlyFaultsSpoil
<1>1. IInv => OnlyFaultsSpoil
  BY DEF IInv, OutputInv
<1> QED
  BY <1>1, Inductive, PTL

(* The sampling loop is left by an exception only for a runner's exit or a *)
(* disk fault.                                                             *)
THEOREM RaiseCaused == Spec => []RaiseHasCause
<1>1. IInv => RaiseHasCause
  BY DEF IInv, SampleInv, CurrentInv, RaiseHasCause, Raised
<1> QED
  BY <1>1, Inductive, PTL

(* Runners still running and scratch directories left after their sample   *)
(* are those of abandoned attempts.                                        *)
LEMMA Leftovers == IInv => LeftoversAbandoned
  BY DEF IInv, SampleInv, LeftoversInv, LeftoversAbandoned

(* What is left over is abandoned, and abandoned attempts apart no more     *)
(* runners run than there are workers.                                     *)
THEOREM Bounded == Spec => []RunnersBounded
<1>1. ASSUME IInv PROVE RunnersBounded
  <2> DEFINE R == {p \in Samples \X Attempts :
                     thread[p[1]][p[2]] = "running" /\ p[2] \notin abandoned[p[1]]}
             f == [p \in R |-> p[1]]
  <2>1. \A p \in R : p[1] \in Busy /\ p[2] = attempt[p[1]]
    BY <1>1 DEF IInv, SampleInv, LeftoversInv, Current, Busy, Settled
  <2>2. \A p \in R : p = <<p[1], p[2]>>
    OBVIOUS
  <2>3. f \in [R -> Busy]
    BY <2>1
  <2>4. \A p, q \in R : f[p] = f[q] => p = q
    BY <2>1, <2>2
  <2>5. f \in Injection(R, Busy)
    BY <2>3, <2>4 DEF Injection, IsInjective
  <2>6. IsFiniteSet(R) /\ Cardinality(R) <= Cardinality(Busy)
    BY <2>5, BusyFinite, FS_Injection
  <2>7. Cardinality(R) \in Nat /\ Cardinality(Busy) \in Nat /\ config.workers \in Nat
    BY <1>1, <2>6, BusyFinite, FS_CardinalityType, ConfigAssumption DEF IInv, TypeOK
  <2> HIDE DEF R
  <2>8. Cardinality(R) <= config.workers
    BY <1>1, <2>6, <2>7 DEF IInv, PoolInv
  <2> QED
    BY <1>1, <2>8, Leftovers DEF RunnersBounded, R
<1> QED
  BY <1>1, Inductive, PTL
=============================================================================
