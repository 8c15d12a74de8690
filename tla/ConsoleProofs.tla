---------------------------- MODULE ConsoleProofs ----------------------------
(***************************************************************************)
(* Proofs about Console and the LiveTraffic it runs beside, for any number *)
(* of recorders, workers, users and callbacks, any settings and any lease, *)
(* window and retention.  IInv, the inductive invariant, has a part for    *)
(* each table: what a request, a row, the usage, the limiter's counter,    *)
(* the lease, a drift run, an install state and the audit trail say of one *)
(* another.                                                                *)
(***************************************************************************)
EXTENDS Console, TLAPS, FunctionTheorems, FiniteSetTheorems, SequenceTheorems

(* What the tables hold. *)
Requests ==
    [by : Recorders, batch : SUBSET Nat, phase : RequestPhases, waits : BOOLEAN,
     late : BOOLEAN, stored : Int]
RowRecords == [batch : SUBSET Nat, at : Nat]
SweepRecords ==
    [worker : Workers, tick : Int, began : Nat, phase : SweepPhases, base : SUBSET Nat,
     cand : SUBSET Nat, verdict : {"pass", "warn", "fail"}, alerts : Nat]
DriftRecords == [sweep : Nat, verdict : {"warn", "fail"}, at : Nat]
Bindings(as) == [row : Nat, by : as \cup {None}]
AdminRecords == [phase : AdminPhases, saw : Nat]
CallbackRecords(as) == [phase : CallbackPhases, state : as \cup {None}, saw : Nat]
Entered == {"renamed", "minted", "revoked", "deleted", "connected", "disconnected"}
AuditRecords(as) ==
    {e \in [what : Entered, of : as \cup Callbacks, by : as, row : Nat] :
        e.what # "connected" => e.of = e.by}

ShapeInv ==
    /\ setting \in Settings
    /\ now \in Nat /\ recorded \in Nat
    /\ requests \in Seq(Requests)
    /\ hits \in Nat /\ expires \in Nat /\ usage \in Nat /\ lease \in Nat
    /\ rows \in Seq(RowRecords)
    /\ project \in BOOLEAN /\ revoked \in BOOLEAN
    /\ slack \in Bindings(setting.admins)
    /\ sweeps \in Seq(SweepRecords)
    /\ drifts \in Seq(DriftRecords)
    /\ admins \in [setting.admins -> AdminRecords]
    /\ callbacks \in [Callbacks -> CallbackRecords(setting.admins)]
    /\ users \in BOOLEAN
    /\ nonces \subseteq setting.admins
    /\ minted \in Nat /\ lastRow \in Nat
    /\ audit \subseteq AuditRecords(setting.admins) /\ IsFiniteSet(audit)

BoundInv == now =< setting.time /\ recorded =< setting.records

(* Requests, and the trajectories of some of them. *)
Batches(rq, is) == UNION {rq[i].batch : i \in is}
Done(rq) == {i \in DOMAIN rq : rq[i].phase = "done"}
Admitted(rq) == {i \in DOMAIN rq : rq[i].phase \in {"store", "meter"}}
Kept(rq) == {i \in DOMAIN rq : rq[i].stored >= 0}

(* A request that was sent too late is not let in; it is stored before it  *)
(* is metered; its sender waits for its end unless the network failed.     *)
Sound(r, s, t, n) ==
    /\ r.batch \subseteq 1 .. n /\ r.batch # {}
    /\ Cardinality(r.batch) =< s.flushEvery
    /\ r.stored \in -1 .. t
    /\ r.late => r.phase \in {"sent", "lost", "refused"}
    /\ r.stored >= 0 => r.phase \in {"meter", "done", "dead"}
    /\ r.phase \in {"meter", "done"} => r.stored >= 0
    /\ r.waits => r.phase \notin Ended
    /\ "network" \notin s.faults /\ r.phase \notin Ended => r.waits
RequestInv ==
    \A i \in DOMAIN requests :
        /\ Sound(requests[i], setting, now, recorded)
        /\ requests[i].late => revoked \/ ~project

(* A trajectory is in the buffer or in one batch. *)
SendInv ==
    /\ buffer \subseteq 1 .. recorded
    /\ Cardinality(buffer) < setting.flushEvery
    /\ \A i, j \in DOMAIN requests : i # j => requests[i].batch \cap requests[j].batch = {}
    /\ \A i \in DOMAIN requests : requests[i].batch \cap buffer = {}
    /\ 1 .. recorded \subseteq buffer \cup Batches(requests, DOMAIN requests)

(* A recorder waits for one request at a time. *)
WaitInv ==
    \A i, j \in DOMAIN requests :
        requests[i].waits /\ requests[j].waits /\ requests[i].by = requests[j].by => i = j

(* A row has the batch of a stored request, and no other row has any of it.*)
RowInv ==
    /\ \A k \in DOMAIN rows :
          /\ rows[k].at =< now
          /\ rows[k].batch # {} => \E i \in Kept(requests) : rows[k].batch = requests[i].batch
    /\ \A k, l \in DOMAIN rows : k # l => rows[k].batch \cap rows[l].batch = {}
    /\ project => \A i \in Kept(requests) :
          requests[i].stored >= now - Retention =>
              \E k \in DOMAIN rows : rows[k].batch = requests[i].batch /\ rows[k].at = requests[i].stored

(* The quota was not used up when the last of the requests that are past   *)
(* its check was admitted, and those were of different recorders then.     *)
Cap(s) == s.quota + Cardinality(Recorders) * s.flushEvery
MeterInv ==
    /\ usage = Cardinality(Batches(requests, Done(requests)))
    /\ setting.capped /\ "network" \notin setting.faults /\ setting.quota > 0 =>
          Cardinality(Batches(requests, Done(requests) \cup Admitted(requests))) < Cap(setting)

(* A sweep has begun, and its lease is never for longer than the TTL.      *)
LeaseInv ==
    /\ lease =< now + LeaseTTL
    /\ \A i \in DOMAIN sweeps : sweeps[i].began =< now

(* The windows of a sweep are of stored batches. *)
Windowed(s, rq) == s.base \cap s.cand = {} /\ s.base \cup s.cand \subseteq Batches(rq, Kept(rq))
DriftInv ==
    /\ \A i \in DOMAIN sweeps :
          /\ Windowed(sweeps[i], requests)
          /\ sweeps[i].phase \in {"engine", "record", "notify"} => Enough(sweeps[i].base, sweeps[i].cand)
          /\ sweeps[i].phase = "record" => sweeps[i].verdict \in {"warn", "fail"}
          /\ sweeps[i].phase = "notify" \/ sweeps[i].alerts > 0 =>
                \E d \in DOMAIN drifts : drifts[d].sweep = i
    /\ \A d \in DOMAIN drifts :
          /\ drifts[d].sweep \in DOMAIN sweeps
          /\ Enough(sweeps[drifts[d].sweep].base, sweeps[drifts[d].sweep].cand)
          /\ sweeps[drifts[d].sweep].phase \in {"notify", "over", "dead"}
    /\ \A d, e \in DOMAIN drifts : drifts[d].sweep = drifts[e].sweep => d = e

(* A state is of an installation that is done, and is with one callback at *)
(* most once it was consumed.                                              *)
Holding == {"exchange", "lookup", "bind", "done"}
NonceInv ==
    /\ \A a \in setting.admins : admins[a].phase = "state" => Op(a) = "install"
    /\ \A a \in nonces : Op(a) = "install" /\ admins[a].phase = "done"
    /\ \A c \in Callbacks : callbacks[c].phase # "none" =>
          /\ callbacks[c].state \in setting.admins
          /\ Op(callbacks[c].state) = "install" /\ admins[callbacks[c].state].phase = "done"
    /\ \A c \in Callbacks : callbacks[c].phase \in Holding => callbacks[c].state \notin nonces
    /\ \A c, d \in Callbacks :
          /\ callbacks[c].phase \in Holding /\ callbacks[d].phase \in Holding
          /\ callbacks[c].state = callbacks[d].state
          => c = d

(* A connection is told once, by the request that made it; a row that is    *)
(* not configured any more is said to be disconnected.                     *)
Connected(e) == e.what = "connected"
Disconnected(e) == e.what = "disconnected"
Connector(e, as, cs) ==
    \/ Op(e.by) = "configure" /\ as[e.by].phase = "done"
    \/ \E c \in Callbacks : cs[c].phase = "done" /\ cs[c].state = e.by
SlackInv ==
    /\ slack = NoConfig \/ (slack.row \in 1 .. lastRow /\ slack.by \in setting.admins)
    /\ \A a \in setting.admins : Op(a) = "disconnect" => admins[a].saw =< lastRow
    /\ \A e \in audit :
          /\ e.row =< lastRow
          /\ Connected(e) => e.row # 0 /\ Connector(e, admins, callbacks)
    /\ \A e, f \in audit : Connected(e) /\ Connected(f) /\ e.by = f.by => e = f
    /\ slack # NoConfig => \E e \in audit : Connected(e) /\ e.by = slack.by /\ e.row = slack.row
    /\ \A e \in audit : slack # NoConfig /\ Disconnected(e) => e.row # slack.row
    /\ project => \A e \in audit :
          Connected(e) /\ e.row # slack.row => \E f \in audit : Disconnected(f) /\ f.row = e.row

IInv ==
    /\ ShapeInv /\ BoundInv
    /\ RequestInv /\ SendInv /\ WaitInv
    /\ RowInv /\ MeterInv
    /\ LeaseInv /\ DriftInv
    /\ NonceInv /\ SlackInv /\ RevocationTold
-----------------------------------------------------------------------------
(* Requests. *)

(* The requests of rq2 are those of rq, further on. *)
Follows(rq, rq2) ==
    /\ DOMAIN rq2 = DOMAIN rq
    /\ \A j \in DOMAIN rq : rq2[j].batch = rq[j].batch /\ rq2[j].by = rq[j].by

LEMMA Members ==
  ASSUME NEW S, NEW q \in Seq(S), NEW i \in DOMAIN q
  PROVE  /\ q[i] \in S
         /\ i \in 1 .. Len(q) /\ i \in Nat
<1> QED
  BY LenProperties, ElementOfSeq

LEMMA Types ==
  ASSUME ShapeInv
  PROVE  /\ \A i \in DOMAIN requests : requests[i] \in Requests
         /\ \A k \in DOMAIN rows : rows[k] \in RowRecords
         /\ \A i \in DOMAIN sweeps : sweeps[i] \in SweepRecords
         /\ \A d \in DOMAIN drifts : drifts[d] \in DriftRecords
         /\ \A e \in audit :
               /\ e.what \in Entered /\ e.of \in setting.admins \cup Callbacks
               /\ e.by \in setting.admins /\ e.row \in Nat
               /\ e.what # "connected" => e.of = e.by
<1>1. /\ requests \in Seq(Requests) /\ rows \in Seq(RowRecords) /\ sweeps \in Seq(SweepRecords)
      /\ drifts \in Seq(DriftRecords) /\ audit \subseteq AuditRecords(setting.admins)
  BY DEF ShapeInv
<1>2. \A e \in audit :
          /\ e.what \in Entered /\ e.of \in setting.admins \cup Callbacks
          /\ e.by \in setting.admins /\ e.row \in Nat
          /\ e.what # "connected" => e.of = e.by
  BY <1>1 DEF AuditRecords
<1> QED
  BY <1>1, <1>2, Members

(* The numbers of the console, and the places of its requests. *)
LEMMA Times ==
  ASSUME ShapeInv
  PROVE  /\ now \in Nat /\ lease \in Nat /\ hits \in Nat /\ usage \in Nat
         /\ Window \in Nat \ {0} /\ Retention \in Nat \ {0}
         /\ LeaseTTL \in Nat \ {0} /\ Skew \in Nat
<1>1. now \in Nat /\ lease \in Nat /\ hits \in Nat /\ usage \in Nat
  BY DEF ShapeInv
<1> QED
  BY <1>1, TimeAssumption

LEMMA FirstNumbers ==
  ASSUME NEW n \in Nat
  PROVE  IsFiniteSet(1 .. n) /\ Cardinality(1 .. n) = n
BY FS_Interval

LEMMA RequestPlaces ==
  ASSUME ShapeInv
  PROVE  /\ DOMAIN requests = 1 .. Len(requests) /\ Len(requests) \in Nat
         /\ IsFiniteSet(DOMAIN requests) /\ Cardinality(DOMAIN requests) = Len(requests)
<1>1. requests \in Seq(Requests)
  BY DEF ShapeInv
<1>2. DOMAIN requests = 1 .. Len(requests) /\ Len(requests) \in Nat
  BY <1>1, LenProperties
<1> QED
  BY <1>2, FirstNumbers

(* A request that is moved keeps what it was sent with. *)
LEMMA MovedFacts ==
  ASSUME NEW r \in Requests, NEW p \in RequestPhases
  PROVE  /\ Moved(r, p) \in Requests
         /\ Moved(r, p).by = r.by /\ Moved(r, p).batch = r.batch /\ Moved(r, p).late = r.late
         /\ Moved(r, p).stored = r.stored
         /\ Moved(r, p).phase = p
         /\ Moved(r, p).waits <=> r.waits /\ p \notin Ended
<1>1. DEFINE m == Moved(r, p)
<1>2. m.by = r.by /\ m.batch = r.batch /\ m.late = r.late
      /\ m.stored = r.stored /\ m.phase = p /\ m.waits = (r.waits /\ p \notin Ended)
  BY DEF Moved, Requests
<1>3. m.waits \in BOOLEAN
  BY <1>2
<1>4. m \in Requests
  BY <1>2, <1>3 DEF Moved, Requests
<1> QED
  BY <1>2, <1>4

(* What is inserted comes last. *)
LEMMA Inserting ==
  ASSUME NEW S, NEW rq \in Seq(S), NEW r \in S, NEW rq2, rq2 = Append(rq, r)
  PROVE  /\ rq2 \in Seq(S)
         /\ Len(rq2) = Len(rq) + 1 /\ Len(rq) \in Nat
         /\ DOMAIN rq = 1 .. Len(rq) /\ DOMAIN rq2 = DOMAIN rq \cup {Len(rq) + 1}
         /\ Len(rq) + 1 \notin DOMAIN rq
         /\ rq2[Len(rq) + 1] = r
         /\ \A j \in DOMAIN rq : rq2[j] = rq[j]
<1>1. Len(rq) \in Nat /\ DOMAIN rq = 1 .. Len(rq)
  BY LenProperties
<1>2. Append(rq, r) \in Seq(S) /\ Len(Append(rq, r)) = Len(rq) + 1
  BY AppendProperties
<1>3. DOMAIN Append(rq, r) = 1 .. Len(rq) + 1
  BY <1>2, LenProperties
<1>4. Append(rq, r)[Len(rq) + 1] = r /\ \A j \in 1 .. Len(rq) : Append(rq, r)[j] = rq[j]
  BY AppendProperties
<1> QED
  BY <1>1, <1>2, <1>3, <1>4

LEMMA BatchesFollow ==
  ASSUME NEW rq, NEW rq2, NEW is, is \subseteq DOMAIN rq,
         \A j \in is : rq2[j].batch = rq[j].batch
  PROVE  Batches(rq2, is) = Batches(rq, is)
<1> QED
  BY DEF Batches

(* What was sent is finite, and some of it is no more than all of it.      *)
LEMMA BatchesBounded ==
  ASSUME NEW rq, NEW n \in Nat, NEW is, is \subseteq DOMAIN rq,
         \A j \in DOMAIN rq : rq[j].batch \subseteq 1 .. n
  PROVE  /\ Batches(rq, is) \subseteq 1 .. n
         /\ IsFiniteSet(Batches(rq, is))
         /\ Cardinality(Batches(rq, is)) \in Nat /\ Cardinality(Batches(rq, is)) =< n
<1>1. Batches(rq, is) \subseteq 1 .. n
  BY DEF Batches
<1>2. IsFiniteSet(1 .. n) /\ Cardinality(1 .. n) = n
  BY FirstNumbers
<1> QED
  BY <1>1, <1>2, FS_Subset, FS_CardinalityType

(* What is open goes on while time and the table do.                       *)
LEMMA SoundStays ==
  ASSUME NEW r \in Requests, NEW s, NEW t \in Nat, NEW t2 \in Nat, t =< t2,
         NEW n \in Nat, NEW n2 \in Nat, n =< n2, Sound(r, s, t, n)
  PROVE  Sound(r, s, t2, n2)
<1>1. 1 .. n \subseteq 1 .. n2
  OBVIOUS
<1>2. -1 .. t \subseteq -1 .. t2
  OBVIOUS
<1> QED
  BY <1>1, <1>2 DEF Sound
-----------------------------------------------------------------------------
(* What a step leaves alone when it leaves a table alone. *)

Closed == revoked \/ ~project

LEMMA RequestFrame ==
  ASSUME ShapeInv, RequestInv, UNCHANGED <<setting, requests, recorded>>,
         now' \in Nat, now =< now', Closed => Closed'
  PROVE  RequestInv'
<1> SUFFICES ASSUME NEW i \in DOMAIN requests
             PROVE  /\ Sound(requests[i], setting, now', recorded)
                    /\ requests[i].late => Closed'
  BY DEF RequestInv, Closed
<1>1. Sound(requests[i], setting, now, recorded) /\ (requests[i].late => Closed)
  BY DEF RequestInv, Closed
<1>2. requests[i] \in Requests /\ now \in Nat /\ recorded \in Nat
  BY Types DEF ShapeInv
<1> QED
  BY <1>1, <1>2, SoundStays

LEMMA SendFrame ==
  ASSUME SendInv, UNCHANGED <<setting, recorded, buffer, requests>>
  PROVE  SendInv'
<1> QED
  BY DEF SendInv

LEMMA RowFrame ==
  ASSUME ShapeInv, RequestInv, RowInv, UNCHANGED <<requests, rows>>,
         now' \in Nat, now =< now', project' => project
  PROVE  RowInv'
<1>1. \A i \in DOMAIN requests : requests[i].stored \in Int
  BY Types DEF Requests
<1>2. \A k \in DOMAIN rows : rows[k].at \in Nat
  BY Types DEF RowRecords
<1>3. \A k \in DOMAIN rows : rows[k].at =< now'
  BY <1>2 DEF RowInv, ShapeInv
<1>4. \A i \in DOMAIN requests : requests[i].stored >= now' - Retention
        => requests[i].stored >= now - Retention
  BY <1>1, Times
<1> QED
  BY <1>3, <1>4 DEF RowInv, Kept

LEMMA MeterFrame ==
  ASSUME MeterInv, UNCHANGED <<setting, requests, usage>>
  PROVE  MeterInv'
<1> QED
  BY DEF MeterInv

LEMMA WaitFrame ==
  ASSUME WaitInv, UNCHANGED requests
  PROVE  WaitInv'
<1> QED
  BY DEF WaitInv

LEMMA LeaseFrame ==
  ASSUME ShapeInv, LeaseInv, now' \in Nat, now =< now', UNCHANGED lease, DOMAIN sweeps' = DOMAIN sweeps,
         \A i \in DOMAIN sweeps : sweeps'[i].began = sweeps[i].began
  PROVE  LeaseInv'
<1>1. \A i \in DOMAIN sweeps : sweeps[i].began \in Nat
  BY Types DEF SweepRecords
<1>2. lease' =< now' + LeaseTTL
  BY Times DEF LeaseInv
<1>3. \A i \in DOMAIN sweeps : sweeps[i].began =< now'
  BY <1>1 DEF LeaseInv, ShapeInv
<1> QED
  BY <1>2, <1>3 DEF LeaseInv

(* Stored batches stay stored. *)
LEMMA WindowedStays ==
  ASSUME NEW s, NEW rq, NEW rq2, DOMAIN rq \subseteq DOMAIN rq2, Windowed(s, rq),
         \A i \in Kept(rq) : i \in Kept(rq2) /\ rq2[i].batch = rq[i].batch
  PROVE  Windowed(s, rq2)
<1> QED
  BY DEF Windowed, Batches

LEMMA DriftFrame ==
  ASSUME DriftInv, UNCHANGED <<sweeps, drifts>>, DOMAIN requests \subseteq DOMAIN requests',
         \A i \in Kept(requests) : i \in Kept(requests') /\ requests'[i].batch = requests[i].batch
  PROVE  DriftInv'
<1>1. \A i \in DOMAIN sweeps : Windowed(sweeps[i], requests')
  BY WindowedStays DEF DriftInv
<1> QED
  BY <1>1 DEF DriftInv

LEMMA ConsoleFrame ==
  ASSUME NonceInv, SlackInv, RevocationTold, UNCHANGED <<setting, accessVars, consoleVars>>
  PROVE  NonceInv' /\ SlackInv' /\ RevocationTold'
<1>1. NonceInv'
  BY DEF NonceInv, Op, accessVars, consoleVars
<1>2. SlackInv'
  BY DEF SlackInv, Op, Connected, Disconnected, Connector, accessVars, consoleVars
<1>3. RevocationTold'
  BY DEF RevocationTold, Entries, accessVars, consoleVars
<1> QED
  BY <1>1, <1>2, <1>3

(* A step that leaves the traffic alone. *)
LEMMA TrafficFrame ==
  ASSUME ShapeInv, RequestInv, SendInv, WaitInv, MeterInv,
         UNCHANGED <<setting, trafficVars>>, now' \in Nat, now =< now', Closed => Closed'
  PROVE  RequestInv' /\ SendInv' /\ WaitInv' /\ MeterInv'
<1>1. UNCHANGED <<requests, recorded, buffer, usage, limiterVars>>
  BY DEF trafficVars, collectorVars
<1> QED
  BY <1>1, RequestFrame, SendFrame, WaitFrame, MeterFrame

(* A step of the traffic does not reach the cron jobs and the console.     *)
LEMMA OthersFrame ==
  ASSUME ShapeInv, LeaseInv, DriftInv, NonceInv, SlackInv, RevocationTold,
         UNCHANGED <<setting, now, cronVars, accessVars, consoleVars>>,
         DOMAIN requests \subseteq DOMAIN requests',
         \A i \in Kept(requests) : i \in Kept(requests') /\ requests'[i].batch = requests[i].batch
  PROVE  LeaseInv' /\ DriftInv' /\ NonceInv' /\ SlackInv' /\ RevocationTold'
<1>1. UNCHANGED <<lease, sweeps, drifts>> /\ now' \in Nat /\ now =< now'
  BY DEF cronVars, ShapeInv
<1> QED
  BY <1>1, LeaseFrame, DriftFrame, ConsoleFrame
-----------------------------------------------------------------------------
(* POST /v1/traffic: a request that moves. *)

Moves(i, r) ==
    /\ i \in DOMAIN requests
    /\ r \in Requests /\ Sound(r, setting, now, recorded)
    /\ r.batch = requests[i].batch /\ r.by = requests[i].by /\ r.late = requests[i].late
    /\ r.waits => requests[i].waits
    /\ requests' = [requests EXCEPT ![i] = r]

LEMMA CapType ==
  ASSUME ShapeInv
  PROVE  /\ setting.quota \in Nat /\ setting.flushEvery \in Nat \ {0}
         /\ Cardinality(Recorders) \in Nat
         /\ Cardinality(Recorders) * setting.flushEvery \in Nat
         /\ Cap(setting) \in Nat
<1>1. setting.quota \in Nat /\ setting.flushEvery \in Nat \ {0}
  BY TrafficSettings DEF ShapeInv
<1>2. Cardinality(Recorders) \in Nat
  BY RecorderAssumption, FS_CardinalityType
<1>3. \A m, n \in Nat : m * n \in Nat
  OBVIOUS
<1>4. Cardinality(Recorders) * setting.flushEvery \in Nat
  BY <1>1, <1>2, <1>3
<1> QED
  BY <1>1, <1>2, <1>4 DEF Cap

LEMMA MoveFacts ==
  ASSUME ShapeInv, NEW i, NEW r, Moves(i, r)
  PROVE  /\ requests' \in Seq(Requests) /\ Len(requests') = Len(requests)
         /\ Follows(requests, requests')
         /\ requests'[i] = r
         /\ \A j \in DOMAIN requests : j # i => requests'[j] = requests[j]
<1>1. /\ requests \in Seq(Requests) /\ i \in DOMAIN requests /\ r \in Requests
      /\ r.batch = requests[i].batch /\ r.by = requests[i].by
      /\ requests' = [requests EXCEPT ![i] = r]
  BY DEF ShapeInv, Moves
<1>2. DOMAIN requests = 1 .. Len(requests)
  BY <1>1, LenProperties
<1>3. requests' \in Seq(Requests) /\ Len(requests') = Len(requests) /\ DOMAIN requests' = DOMAIN requests
  BY <1>1, <1>2, ExceptSeq
<1>4. requests'[i] = r /\ \A j \in DOMAIN requests : j # i => requests'[j] = requests[j]
  BY <1>1
<1> QED
  BY <1>1, <1>3, <1>4 DEF Follows

LEMMA MoveKeeps ==
  ASSUME ShapeInv, RequestInv, SendInv, WaitInv, NEW i, NEW r, Moves(i, r),
         UNCHANGED <<setting, now, collectorVars, project, revoked>>
  PROVE  RequestInv' /\ SendInv' /\ WaitInv'
<1>1. /\ DOMAIN requests' = DOMAIN requests /\ requests'[i] = r /\ i \in DOMAIN requests
      /\ \A j \in DOMAIN requests : j # i => requests'[j] = requests[j]
      /\ \A j \in DOMAIN requests : requests'[j].batch = requests[j].batch /\ requests'[j].by = requests[j].by
  BY MoveFacts DEF Moves, Follows
<1>2. UNCHANGED <<recorded, buffer>>
  BY DEF collectorVars
<1>3. RequestInv'
  BY <1>1, <1>2 DEF RequestInv, Moves
<1>4. Batches(requests', DOMAIN requests') = Batches(requests, DOMAIN requests)
  BY <1>1, BatchesFollow
<1>5. SendInv'
  BY <1>1, <1>2, <1>4 DEF SendInv
<1>6. \A j \in DOMAIN requests : requests'[j].waits => requests[j].waits
  BY <1>1 DEF Moves
<1>7. WaitInv'
  BY <1>1, <1>6 DEF WaitInv
<1> QED
  BY <1>3, <1>5, <1>7

(* One that does not store anything. *)
LEMMA MoveStored ==
  ASSUME ShapeInv, NEW i, NEW r, Moves(i, r), r.stored = requests[i].stored
  PROVE  /\ Kept(requests') = Kept(requests)
         /\ \A j \in DOMAIN requests : requests'[j].stored = requests[j].stored
                                       /\ requests'[j].batch = requests[j].batch
<1>1. /\ DOMAIN requests' = DOMAIN requests /\ requests'[i] = r /\ i \in DOMAIN requests
      /\ \A j \in DOMAIN requests : j # i => requests'[j] = requests[j]
      /\ \A j \in DOMAIN requests : requests'[j].batch = requests[j].batch /\ requests'[j].by = requests[j].by
  BY MoveFacts DEF Moves, Follows
<1> QED
  BY <1>1 DEF Kept

LEMMA MoveRows ==
  ASSUME ShapeInv, RowInv, NEW i, NEW r, Moves(i, r), r.stored = requests[i].stored,
         UNCHANGED <<now, rows, project>>
  PROVE  RowInv'
<1> QED
  BY MoveStored DEF RowInv, Kept

(* One that neither gets past the quota nor is metered. *)
LEMMA MoveMeter ==
  ASSUME ShapeInv, RequestInv, MeterInv, NEW i, NEW r, Moves(i, r), UNCHANGED <<setting, usage>>,
         r.phase = "done" <=> requests[i].phase = "done",
         r.phase \in {"store", "meter"} => requests[i].phase \in {"store", "meter"}
  PROVE  MeterInv'
<1>1. /\ DOMAIN requests' = DOMAIN requests /\ requests'[i] = r /\ i \in DOMAIN requests
      /\ \A j \in DOMAIN requests : j # i => requests'[j] = requests[j]
      /\ \A j \in DOMAIN requests : requests'[j].batch = requests[j].batch
  BY MoveFacts DEF Moves, Follows
<1>2. Done(requests') = Done(requests)
  BY <1>1 DEF Done
<1>3. Admitted(requests') \subseteq Admitted(requests)
  BY <1>1 DEF Admitted
<1>4. Batches(requests', Done(requests')) = Batches(requests, Done(requests))
  BY <1>1, <1>2 DEF Batches, Done
<1> DEFINE B == Batches(requests, Done(requests) \cup Admitted(requests))
           B2 == Batches(requests', Done(requests') \cup Admitted(requests'))
<1>5. B2 \subseteq B
  BY <1>1, <1>2, <1>3 DEF Batches, Done, Admitted
<1>6. \A j \in DOMAIN requests : requests[j].batch \subseteq 1 .. recorded
  BY DEF RequestInv, Sound
<1>7. Done(requests) \cup Admitted(requests) \subseteq DOMAIN requests
  BY DEF Done, Admitted
<1>8. IsFiniteSet(B) /\ Cardinality(B) \in Nat
  BY <1>6, <1>7, BatchesBounded DEF ShapeInv
<1>9. Cardinality(B2) \in Nat /\ Cardinality(B2) =< Cardinality(B)
  BY <1>5, <1>8, FS_Subset, FS_CardinalityType
<1>10. Cap(setting) \in Nat
  BY CapType
<1> HIDE DEF B, B2
<1>11. setting.capped /\ "network" \notin setting.faults /\ setting.quota > 0 => Cardinality(B) < Cap(setting)
  BY DEF MeterInv, B
<1>12. setting.capped /\ "network" \notin setting.faults /\ setting.quota > 0 => Cardinality(B2) < Cap(setting)
  BY <1>8, <1>9, <1>10, <1>11
<1> QED
  BY <1>4, <1>12 DEF MeterInv, B2

(* A move whose effect on the tables is known. *)
LEMMA AnyMove ==
  ASSUME IInv, NEW i, NEW r, Moves(i, r), UNCHANGED consoleVars,
         UNCHANGED <<setting, now, collectorVars, accessVars, cronVars>>,
         requests[i].stored >= 0 => r.stored >= 0,
         rows' \in Seq(RowRecords), usage' \in Nat, hits' \in Nat, expires' \in Nat,
         RowInv', MeterInv'
  PROVE  IInv'
<1>0. /\ ShapeInv /\ BoundInv /\ RequestInv /\ SendInv /\ WaitInv
      /\ LeaseInv /\ DriftInv /\ NonceInv /\ SlackInv /\ RevocationTold
  BY DEF IInv
<1>1. UNCHANGED <<recorded, buffer, project, revoked, slack, lease, sweeps, drifts>>
  BY DEF collectorVars, accessVars, cronVars
<1>2. ShapeInv' /\ BoundInv'
  BY <1>0, <1>1, MoveFacts DEF ShapeInv, BoundInv, consoleVars
<1>3. RequestInv' /\ SendInv' /\ WaitInv'
  BY <1>0, <1>1, MoveKeeps
<1>4. /\ DOMAIN requests' = DOMAIN requests /\ requests'[i] = r
      /\ \A j \in DOMAIN requests : j # i => requests'[j] = requests[j]
      /\ \A j \in DOMAIN requests : requests'[j].batch = requests[j].batch
  BY <1>0, MoveFacts DEF Follows
<1>5. \A j \in Kept(requests) : j \in Kept(requests') /\ requests'[j].batch = requests[j].batch
  BY <1>4 DEF Kept
<1>6. LeaseInv' /\ DriftInv' /\ NonceInv' /\ SlackInv' /\ RevocationTold'
  BY <1>0, <1>4, <1>5, OthersFrame
<1> QED
  BY <1>2, <1>3, <1>6 DEF IInv

(* What only moves a request needs to be looked at in its own table.       *)
LEMMA PlainMove ==
  ASSUME IInv, NEW i, NEW r, Moves(i, r), UNCHANGED consoleVars,
         UNCHANGED <<setting, now, collectorVars, usage, rows, accessVars, cronVars>>,
         r.stored = requests[i].stored,
         r.phase = "done" <=> requests[i].phase = "done",
         r.phase \in {"store", "meter"} => requests[i].phase \in {"store", "meter"},
         hits' \in Nat, expires' \in Nat
  PROVE  IInv'
<1>0. ShapeInv /\ RequestInv /\ RowInv /\ MeterInv
  BY DEF IInv
<1>1. RowInv' /\ MeterInv'
  BY <1>0, MoveRows, MoveMeter DEF accessVars
<1>2. rows' \in Seq(RowRecords) /\ usage' \in Nat
  BY <1>0 DEF ShapeInv
<1> QED
  BY <1>1, <1>2, AnyMove

LEMMA InitStep == Init => IInv
<1> SUFFICES ASSUME Init PROVE IInv
  OBVIOUS
<1>1. /\ setting \in Settings /\ now = 0 /\ recorded = 0 /\ buffer = {} /\ requests = <<>>
      /\ hits = 0 /\ expires = 0 /\ usage = 0 /\ rows = <<>> /\ project = TRUE /\ revoked = FALSE
      /\ slack = NoConfig /\ lease = 0 /\ sweeps = <<>> /\ drifts = <<>>
      /\ admins = [a \in setting.admins |-> [phase |-> "context", saw |-> 0]]
      /\ callbacks = [c \in Callbacks |-> [phase |-> "none", state |-> None, saw |-> 0]]
      /\ users = KnownUser /\ nonces = {} /\ minted = 0 /\ lastRow = 0 /\ audit = {}
  BY DEF Init, LiveInit
<1>2. ShapeInv
  BY <1>1, UserAssumption, EmptySeq, FS_EmptySet
     DEF ShapeInv, NoConfig, Bindings, AdminRecords, CallbackRecords, AdminPhases, CallbackPhases
<1>3. BoundInv
  BY <1>1, TrafficSettings DEF BoundInv
<1>4. DOMAIN requests = {} /\ DOMAIN rows = {} /\ DOMAIN sweeps = {} /\ DOMAIN drifts = {}
  BY <1>1
<1>5. RequestInv /\ WaitInv
  BY <1>4 DEF RequestInv, WaitInv
<1>6. SendInv
  BY <1>1, <1>4, TrafficSettings, FS_EmptySet DEF SendInv, Batches
<1>7. RowInv
  BY <1>4 DEF RowInv, Kept
<1>8. Batches(requests, Done(requests)) = {} /\ Batches(requests, Done(requests) \cup Admitted(requests)) = {}
  BY <1>4 DEF Batches, Done, Admitted
<1>9. MeterInv
  <2>1. /\ Cardinality(Batches(requests, Done(requests))) = 0
        /\ Cardinality(Batches(requests, Done(requests) \cup Admitted(requests))) = 0
    BY <1>8, FS_EmptySet
  <2>2. setting.quota > 0 => 0 < Cap(setting)
    BY <1>2, CapType DEF Cap
  <2>3. usage = 0
    BY <1>1
  <2> QED
    BY <2>1, <2>2, <2>3 DEF MeterInv
<1>11. LeaseInv /\ DriftInv
  BY <1>1, <1>4, TimeAssumption DEF LeaseInv, DriftInv
<1>12. NonceInv
  BY <1>1 DEF NonceInv, Holding
<1>13. SlackInv
  BY <1>1, <1>4 DEF SlackInv
<1>14. RevocationTold
  BY <1>1, <1>4, FS_EmptySet DEF RevocationTold, Entries
<1> QED
  BY <1>2, <1>3, <1>5, <1>6, <1>7, <1>9, <1>11, <1>12, <1>13, <1>14 DEF IInv

(* The phases a request may move to. *)
LEMMA MovedSound ==
  ASSUME NEW r \in Requests, NEW s, NEW t, NEW n, NEW p \in RequestPhases, Sound(r, s, t, n),
         r.late => p \in {"lost", "refused"},
         r.stored >= 0 => p \in {"meter", "done", "dead"},
         p \in {"meter", "done"} => r.stored >= 0,
         r.phase \notin Ended
  PROVE  Sound(Moved(r, p), s, t, n)
<1> DEFINE m == Moved(r, p)
<1>1. /\ m \in Requests /\ m.by = r.by /\ m.batch = r.batch /\ m.late = r.late
      /\ m.stored = r.stored /\ m.phase = p /\ (m.waits <=> r.waits /\ p \notin Ended)
  BY MovedFacts
<1> HIDE DEF m
<1> QED
  BY <1>1 DEF Sound, m

LEMMA MoveMoves ==
  ASSUME ShapeInv, RequestInv, NEW i \in DOMAIN requests, NEW p \in RequestPhases, Move(i, p),
         requests[i].late => p \in {"lost", "refused"},
         requests[i].stored >= 0 => p \in {"meter", "done", "dead"},
         p \in {"meter", "done"} => requests[i].stored >= 0,
         requests[i].phase \notin Ended
  PROVE  Moves(i, Moved(requests[i], p))
<1>1. requests[i] \in Requests /\ Sound(requests[i], setting, now, recorded)
  BY Types DEF RequestInv
<1>2. Sound(Moved(requests[i], p), setting, now, recorded)
  BY <1>1, MovedSound DEF May
<1>3. requests' = [requests EXCEPT ![i] = Moved(requests[i], p)]
  BY DEF Move
<1> QED
  BY <1>1, <1>2, <1>3, MovedFacts DEF Moves

Traffic == <<setting, now, collectorVars, usage, rows, accessVars, cronVars>>

(* A request that is moved past nothing of importance. *)
LEMMA MoveQuietly ==
  ASSUME IInv, NEW i \in DOMAIN requests, NEW p \in RequestPhases, Move(i, p), UNCHANGED <<Traffic, consoleVars>>,
         requests[i].late => p \in {"lost", "refused"},
         requests[i].stored >= 0 => p = "dead",
         requests[i].phase \notin Ended,
         p \in {"store", "meter"} => requests[i].phase \in {"store", "meter"},
         p \notin {"done", "meter"},
         hits' \in Nat, expires' \in Nat
  PROVE  IInv'
<1>1. ShapeInv /\ RequestInv
  BY DEF IInv
<1>2. Moves(i, Moved(requests[i], p))
  BY <1>1, MoveMoves
<1>3. requests[i] \in Requests
  BY <1>1, Types
<1>4. requests[i].phase # "done"
  BY DEF Ended
<1> QED
  BY <1>2, <1>3, <1>4, MovedFacts, PlainMove DEF Traffic

LEMMA GiveUpKeeps ==
  ASSUME IInv, NEW i \in DOMAIN requests, GiveUp(i), UNCHANGED consoleVars
  PROVE  IInv'
<1> DEFINE r == [requests[i] EXCEPT !.waits = FALSE]
<1>0. ShapeInv /\ RequestInv
  BY DEF IInv
<1>1. requests[i] \in Requests /\ Sound(requests[i], setting, now, recorded)
  BY <1>0, Types DEF RequestInv
<1>2. /\ r.by = requests[i].by /\ r.batch = requests[i].batch /\ r.phase = requests[i].phase
      /\ r.waits = FALSE /\ r.late = requests[i].late
      /\ r.stored = requests[i].stored
  BY <1>1 DEF Requests
<1>3. r \in Requests
  BY <1>1 DEF Requests
<1>4. requests' = [requests EXCEPT ![i] = r]
  BY DEF GiveUp
<1> HIDE DEF r
<1>5. "network" \in setting.faults
  BY DEF GiveUp, May
<1>6. Sound(r, setting, now, recorded)
  BY <1>1, <1>2, <1>5 DEF Sound
<1>7. Moves(i, r)
  BY <1>1, <1>2, <1>3, <1>4, <1>6 DEF Moves
<1>8. UNCHANGED <<Traffic, limiterVars>>
  BY DEF GiveUp, Traffic
<1> QED
  BY <1>0, <1>2, <1>7, <1>8, PlainMove DEF Traffic, limiterVars, ShapeInv

(* What the phase of a request says of it. *)
LEMMA PhaseSays ==
  ASSUME IInv, NEW i \in DOMAIN requests
  PROVE  /\ requests[i] \in Requests
         /\ requests[i].phase \notin {"meter", "done", "dead"} => requests[i].stored = -1
         /\ requests[i].phase \notin {"sent", "lost", "refused"} => ~requests[i].late
         /\ requests[i].late => revoked \/ ~project
         /\ hits \in Nat /\ expires \in Nat
<1>1. ShapeInv /\ RequestInv
  BY DEF IInv
<1>2. requests[i] \in Requests /\ Sound(requests[i], setting, now, recorded)
  BY <1>1, Types DEF RequestInv
<1>3. requests[i].stored \in Int /\ requests[i].stored >= -1
  BY <1>1, <1>2 DEF Sound, ShapeInv
<1>4. hits \in Nat /\ expires \in Nat
  BY <1>1 DEF ShapeInv
<1> QED
  BY <1>1, <1>2, <1>3, <1>4 DEF Sound, RequestInv

LEMMA ArriveKeeps ==
  ASSUME IInv, NEW i \in DOMAIN requests, Arrive(i), UNCHANGED consoleVars
  PROVE  IInv'
<1>1. PICK p \in {"refused", "project", "lost"} :
          Move(i, p) /\ (p = "project" => ~(revoked \/ ~project))
  BY DEF Arrive
<1>2. requests[i].phase = "sent" /\ UNCHANGED <<Traffic, limiterVars>>
  BY DEF Arrive, At, Unlimited, Traffic
<1>3. p \in RequestPhases /\ requests[i].phase \notin Ended
  BY <1>1, <1>2 DEF RequestPhases, Ended
<1>4. /\ requests[i].late => p \in {"lost", "refused"}
      /\ ~(requests[i].stored >= 0)
      /\ hits' \in Nat /\ expires' \in Nat
  BY <1>1, <1>2, PhaseSays DEF limiterVars
<1> QED
  BY <1>1, <1>2, <1>3, <1>4, MoveQuietly

LEMMA FindProjectKeeps ==
  ASSUME IInv, NEW i \in DOMAIN requests, FindProject(i), UNCHANGED consoleVars
  PROVE  IInv'
<1>1. PICK p \in {"limit", "refused"} : Move(i, p)
  BY DEF FindProject
<1>2. requests[i].phase = "project" /\ UNCHANGED <<Traffic, limiterVars>>
  BY DEF FindProject, At, Unlimited, Traffic
<1>3. p \in RequestPhases /\ requests[i].phase \notin Ended
  BY <1>1, <1>2 DEF RequestPhases, Ended
<1>4. /\ ~requests[i].late
      /\ ~(requests[i].stored >= 0)
      /\ hits' \in Nat /\ expires' \in Nat
  BY <1>1, <1>2, PhaseSays DEF limiterVars
<1> QED
  BY <1>1, <1>2, <1>3, <1>4, MoveQuietly

LEMMA DieKeeps ==
  ASSUME IInv, NEW i \in DOMAIN requests, Die(i), UNCHANGED consoleVars
  PROVE  IInv'
<1>1. Move(i, "dead") /\ UNCHANGED <<Traffic, limiterVars>>
      /\ requests[i].phase \notin Ended \cup {"sent"}
  BY DEF Die, Unlimited, Traffic
<1>2. "dead" \in RequestPhases
  BY DEF RequestPhases, Ended
<1>3. ~requests[i].late /\ hits' \in Nat /\ expires' \in Nat
  BY <1>1, PhaseSays DEF Ended, limiterVars
<1> QED
  BY <1>1, <1>2, <1>3, MoveQuietly

LEMMA CheckRateLimitKeeps ==
  ASSUME IInv, NEW i \in DOMAIN requests, CheckRateLimit(i), UNCHANGED consoleVars
  PROVE  IInv'
<1>1. requests[i].phase = "limit" /\ expires' = expires /\ UNCHANGED Traffic
  BY DEF CheckRateLimit, Unlimited, Traffic, At
<1>2. ~requests[i].late /\ ~(requests[i].stored >= 0) /\ hits \in Nat /\ expires \in Nat
  BY <1>1, PhaseSays
<1>3. PICK p \in {"expire", "quota", "refused"} : Move(i, p)
  BY DEF CheckRateLimit
<1>4. p \in RequestPhases /\ requests[i].phase \notin Ended
  BY <1>1, <1>3 DEF RequestPhases, Ended
<1>5. hits' \in Nat /\ expires' \in Nat
  BY <1>1, <1>2 DEF CheckRateLimit
<1> QED
  BY <1>1, <1>2, <1>3, <1>4, <1>5, MoveQuietly

LEMMA SetExpiryKeeps ==
  ASSUME IInv, NEW i \in DOMAIN requests, SetExpiry(i), UNCHANGED consoleVars
  PROVE  IInv'
<1>1. requests[i].phase = "expire" /\ hits' = hits /\ UNCHANGED Traffic
  BY DEF SetExpiry, Unlimited, Traffic, At
<1>2. ~requests[i].late /\ ~(requests[i].stored >= 0) /\ hits \in Nat /\ expires \in Nat
  BY <1>1, PhaseSays
<1>3. PICK p \in {"quota", "refused"} : Move(i, p)
  BY DEF SetExpiry
<1>4. p \in RequestPhases /\ requests[i].phase \notin Ended
  BY <1>1, <1>3 DEF RequestPhases, Ended
<1>5. hits' \in Nat /\ expires' \in Nat
  BY <1>1, <1>2 DEF SetExpiry, IInv, ShapeInv
<1> QED
  BY <1>1, <1>2, <1>3, <1>4, <1>5, MoveQuietly

LEMMA ExpireKeeps ==
  ASSUME IInv, Expire, UNCHANGED consoleVars
  PROVE  IInv'
<1>0. /\ ShapeInv /\ BoundInv /\ RequestInv /\ SendInv /\ WaitInv /\ RowInv /\ MeterInv
      /\ LeaseInv /\ DriftInv /\ NonceInv /\ SlackInv /\ RevocationTold
  BY DEF IInv
<1>1. /\ hits' = 0 /\ expires' = 0 /\ expires # 0
      /\ UNCHANGED <<requests, setting, now, recorded, buffer, usage, rows, project, revoked, slack,
                     lease, sweeps, drifts, accessVars, cronVars>>
  BY DEF Expire, Unlimited, collectorVars, accessVars, cronVars
<1>2. ShapeInv' /\ BoundInv'
  BY <1>0, <1>1 DEF ShapeInv, BoundInv, consoleVars
<1>4. RequestInv' /\ SendInv' /\ WaitInv' /\ RowInv' /\ MeterInv'
  BY <1>0, <1>1 DEF RequestInv, SendInv, WaitInv, RowInv, MeterInv
<1>5. LeaseInv' /\ DriftInv' /\ NonceInv' /\ SlackInv' /\ RevocationTold'
  BY <1>0, <1>1, OthersFrame
<1> QED
  BY <1>2, <1>4, <1>5 DEF IInv
-----------------------------------------------------------------------------
(* The quota: what the requests that are past its check may add. *)

(* Requests of different recorders have no more than a batch for each.     *)
LEMMA Spread ==
  ASSUME NEW rq, NEW A, NEW most \in Nat, NEW n \in Nat,
         \A i \in A : /\ rq[i].by \in Recorders /\ rq[i].batch \subseteq 1 .. n
                      /\ Cardinality(rq[i].batch) =< most,
         \A i, j \in A : rq[i].by = rq[j].by => i = j
  PROVE  /\ IsFiniteSet(Batches(rq, A))
         /\ Cardinality(Batches(rq, A)) =< Cardinality(Recorders) * most
<1> DEFINE all == Batches(rq, A)
           owner(x) == CHOOSE i \in A : x \in rq[i].batch
           numbered(i, h) == h \in [rq[i].batch -> 1 .. most] /\ \A x, y \in rq[i].batch : h[x] = h[y] => x = y
           number(i) == CHOOSE h : numbered(i, h)
           place == [x \in all |-> <<rq[owner(x)].by, number(owner(x))[x]>>]
<1>1. \A x \in all : owner(x) \in A /\ x \in rq[owner(x)].batch
  BY DEF Batches
<1>2. \A i \in A : numbered(i, number(i))
  <2> SUFFICES ASSUME NEW i \in A PROVE \E h : numbered(i, h)
    OBVIOUS
  <2>1. IsFiniteSet(rq[i].batch)
    <3>1. IsFiniteSet(1 .. n) /\ rq[i].batch \in SUBSET (1 .. n)
      BY FirstNumbers
    <3> QED
      BY <3>1, FS_Subset
  <2> DEFINE c == Cardinality(rq[i].batch)
             b == rq[i].batch
  <2>2. c \in Nat /\ ExistsBijection(1 .. c, b)
    BY <2>1, FS_CardinalityType
  <2>5. c =< most
    OBVIOUS
  <2> HIDE DEF c, b
  <2>3. PICK h : h \in Bijection(b, 1 .. c)
    <3>1. ExistsBijection(b, 1 .. c)
      BY <2>2, Fun_ExistsBijSymmetric
    <3> QED
      BY <3>1, Fun_ExistsBij
  <2>4. h \in [b -> 1 .. c] /\ \A x, y \in b : h[x] = h[y] => x = y
    BY <2>3 DEF Bijection, Injection, IsInjective
  <2>6. 1 .. c \subseteq 1 .. most
    BY <2>2, <2>5
  <2>7. h \in [b -> 1 .. most]
    BY <2>4, <2>6
  <2>8. numbered(i, h)
    BY <2>4, <2>7 DEF b
  <2> QED
    BY <2>8
<1> HIDE DEF owner, number
<1>3. place \in [all -> Recorders \X (1 .. most)]
  BY <1>1, <1>2
<1>4. \A x, y \in all : place[x] = place[y] => x = y
  <2> SUFFICES ASSUME NEW x \in all, NEW y \in all, place[x] = place[y] PROVE x = y
    OBVIOUS
  <2>1. rq[owner(x)].by = rq[owner(y)].by /\ number(owner(x))[x] = number(owner(y))[y]
    OBVIOUS
  <2>2. owner(x) = owner(y)
    BY <1>1, <2>1
  <2> QED
    BY <1>1, <1>2, <2>1, <2>2
<1> HIDE DEF all, place
<1>5. place \in Injection(all, Recorders \X (1 .. most))
  BY <1>3, <1>4, Fun_IsInj
<1>6. IsFiniteSet(1 .. most) /\ Cardinality(1 .. most) = most
  BY FirstNumbers
<1>7. /\ IsFiniteSet(Recorders \X (1 .. most))
      /\ Cardinality(Recorders \X (1 .. most)) = Cardinality(Recorders) * most
  BY <1>6, RecorderAssumption, FS_Product
<1> QED
  BY <1>5, <1>7, FS_Injection DEF all

LEMMA SentFinite ==
  ASSUME ShapeInv, RequestInv, NEW is, is \subseteq DOMAIN requests
  PROVE  /\ Batches(requests, is) \subseteq 1 .. recorded /\ IsFiniteSet(Batches(requests, is))
         /\ Cardinality(Batches(requests, is)) \in Nat /\ Cardinality(Batches(requests, is)) =< recorded
<1>1. \A j \in DOMAIN requests : requests[j].batch \subseteq 1 .. recorded
  BY DEF RequestInv, Sound
<1>2. recorded \in Nat
  BY DEF ShapeInv
<1> QED
  BY <1>1, <1>2, BatchesBounded

LEMMA UnionBound ==
  ASSUME NEW S, NEW T, IsFiniteSet(S), IsFiniteSet(T)
  PROVE  /\ Cardinality(S \cup T) \in Nat /\ Cardinality(S) \in Nat /\ Cardinality(T) \in Nat
         /\ Cardinality(S \cup T) =< Cardinality(S) + Cardinality(T)
<1>1. S \cap T \in SUBSET S
  OBVIOUS
<1>2. IsFiniteSet(S \cap T)
  BY <1>1, FS_Subset
<1>3. IsFiniteSet(S \cup T) /\ Cardinality(S \cup T) = Cardinality(S) + Cardinality(T) - Cardinality(S \cap T)
  BY FS_Union
<1>4. /\ Cardinality(S \cap T) \in Nat /\ Cardinality(S) \in Nat /\ Cardinality(T) \in Nat
      /\ Cardinality(S \cup T) \in Nat
  BY <1>2, <1>3, FS_CardinalityType
<1> QED
  BY <1>3, <1>4

(* A request that the quota lets through. *)
LEMMA AdmitKeeps ==
  ASSUME IInv, NEW i \in DOMAIN requests, requests[i].phase = "quota", Move(i, "store"),
         setting.capped => usage < setting.quota, UNCHANGED <<Traffic, limiterVars, consoleVars>>
  PROVE  IInv'
<1> DEFINE r == Moved(requests[i], "store")
<1>0. /\ ShapeInv /\ RequestInv /\ RowInv /\ MeterInv /\ WaitInv /\ SendInv
  BY DEF IInv
<1>1. /\ requests[i] \in Requests /\ ~requests[i].late /\ ~(requests[i].stored >= 0)
      /\ hits' \in Nat /\ expires' \in Nat
  BY PhaseSays DEF limiterVars
<1>2. "store" \in RequestPhases /\ requests[i].phase \notin Ended
  BY DEF RequestPhases, Ended
<1>3. Moves(i, r)
  BY <1>0, <1>1, <1>2, MoveMoves
<1>4. r.stored = requests[i].stored /\ r.phase = "store"
  BY <1>1, <1>2, MovedFacts
<1> HIDE DEF r
<1>6. UNCHANGED <<setting, now, recorded, buffer, usage, rows, project, revoked>>
  BY DEF Traffic, collectorVars, accessVars
<1>7. RowInv'
  BY <1>0, <1>3, <1>4, <1>6, MoveRows
<1>8. /\ DOMAIN requests' = DOMAIN requests /\ requests'[i] = r /\ requests' \in Seq(Requests)
      /\ \A j \in DOMAIN requests : j # i => requests'[j] = requests[j]
      /\ \A j \in DOMAIN requests : requests'[j].batch = requests[j].batch
  BY <1>0, <1>3, MoveFacts DEF Follows
<1>9. Done(requests') = Done(requests)
  BY <1>4, <1>8 DEF Done
<1>10. Batches(requests', Done(requests')) = Batches(requests, Done(requests))
  BY <1>8, <1>9 DEF Batches, Done
<1>11. RequestInv' /\ WaitInv'
  BY <1>0, <1>3, <1>6, MoveKeeps DEF collectorVars
<1>12. MeterInv'
  <2>1. usage' = Cardinality(Batches(requests', Done(requests')))
    BY <1>0, <1>6, <1>10 DEF MeterInv
  <2>2. ASSUME setting.capped, "network" \notin setting.faults, setting.quota > 0
        PROVE  Cardinality(Batches(requests', Done(requests') \cup Admitted(requests'))) < Cap(setting)
    <3> DEFINE M == Batches(requests', Done(requests'))
               A == Batches(requests', Admitted(requests'))
    <3>1. \A j \in DOMAIN requests' : requests'[j].batch \subseteq 1 .. recorded
      BY <1>6, <1>11 DEF RequestInv, Sound
    <3>2. recorded \in Nat
      BY <1>0 DEF ShapeInv
    <3>3. IsFiniteSet(M) /\ IsFiniteSet(A)
      BY <3>1, <3>2, BatchesBounded DEF Done, Admitted
    <3>4. Cardinality(A) =< Cardinality(Recorders) * setting.flushEvery
      <4>0. \A j \in DOMAIN requests' : requests'[j] \in Requests /\ Sound(requests'[j], setting, now, recorded)
        BY <1>6, <1>8, <1>11, Members DEF RequestInv
      <4>1. \A j \in Admitted(requests') : /\ j \in DOMAIN requests' /\ requests'[j].waits
                                           /\ requests'[j].by \in Recorders
        BY <2>2, <4>0 DEF Admitted, Sound, Requests, Ended
      <4>2. \A j \in Admitted(requests') : /\ requests'[j].batch \subseteq 1 .. recorded
                                           /\ Cardinality(requests'[j].batch) =< setting.flushEvery
        BY <1>6, <1>11 DEF RequestInv, Sound, Admitted
      <4>3. \A j, k \in Admitted(requests') : requests'[j].by = requests'[k].by => j = k
        BY <1>11, <4>1 DEF WaitInv
      <4>4. setting.flushEvery \in Nat
        BY <1>0, CapType
      <4> QED
        BY <3>2, <4>1, <4>2, <4>3, <4>4, Spread
    <3>5. Cardinality(M) = usage
      BY <1>6, <2>1
    <3>6. Batches(requests', Done(requests') \cup Admitted(requests')) = M \cup A
      BY DEF Batches
    <3> DEFINE P == Cardinality(Recorders) * setting.flushEvery
    <3> HIDE DEF M, A
    <3>7. /\ Cardinality(M \cup A) \in Nat /\ Cardinality(M) \in Nat /\ Cardinality(A) \in Nat
          /\ Cardinality(M \cup A) =< Cardinality(M) + Cardinality(A)
      BY <3>3, UnionBound
    <3>8. setting.quota \in Nat /\ P \in Nat /\ usage < setting.quota
      BY <1>0, <2>2, CapType
    <3>10. usage \in Nat
      BY <1>0 DEF ShapeInv
    <3>9. Cap(setting) = setting.quota + P /\ Cardinality(A) =< P
      BY <3>4 DEF Cap
    <3> HIDE DEF P
    <3>11. Cardinality(M \cup A) < setting.quota + P
      <4>1. \A u, m, a, q, x \in Nat : x =< m + a /\ m = u /\ u < q /\ a =< P => x < q + P
        BY <3>8
      <4> QED
        BY <3>5, <3>7, <3>8, <3>9, <3>10, <4>1
    <3> QED
      BY <3>6, <3>9, <3>11
  <2> QED
    BY <1>6, <2>1, <2>2 DEF MeterInv, Cap
<1>13. rows' \in Seq(RowRecords) /\ usage' \in Nat
  BY <1>0, <1>6 DEF ShapeInv
<1> QED
  BY <1>1, <1>3, <1>7, <1>12, <1>13, AnyMove DEF Traffic

LEMMA CheckQuotaKeeps ==
  ASSUME IInv, NEW i \in DOMAIN requests, CheckQuota(i), UNCHANGED consoleVars
  PROVE  IInv'
<1>1. requests[i].phase = "quota" /\ UNCHANGED <<Traffic, limiterVars>>
  BY DEF CheckQuota, At, Unlimited, Traffic
<1>2. CASE setting.capped /\ usage >= setting.quota
  <2>1. Move(i, "refused")
    BY <1>2 DEF CheckQuota
  <2>2. "refused" \in RequestPhases /\ requests[i].phase \notin Ended
    BY <1>1 DEF RequestPhases, Ended
  <2>3. ~requests[i].late /\ ~(requests[i].stored >= 0) /\ hits' \in Nat /\ expires' \in Nat
    BY <1>1, PhaseSays DEF limiterVars
  <2> QED
    BY <1>1, <2>1, <2>2, <2>3, MoveQuietly
<1>3. CASE ~(setting.capped /\ usage >= setting.quota)
  <2>1. Move(i, "store")
    BY <1>3 DEF CheckQuota
  <2>2. setting.capped => usage < setting.quota
    <3>1. setting \in Settings /\ usage \in Nat
      BY DEF IInv, ShapeInv
    <3>2. setting.quota \in Nat
      BY <3>1, TrafficSettings
    <3> QED
      BY <1>3, <3>1, <3>2
  <2> QED
    BY <1>1, <2>1, <2>2, AdmitKeeps
<1> QED
  BY <1>2, <1>3

(* A batch that is stored goes to a row of its own. *)
LEMMA StoreMoves ==
  ASSUME IInv, NEW i \in DOMAIN requests, requests[i].phase = "store",
         requests' = [requests EXCEPT ![i] = [Moved(@, "meter") EXCEPT !.stored = now]]
  PROVE  \E r : Moves(i, r) /\ r.phase = "meter" /\ r.stored = now
<1> DEFINE m == Moved(requests[i], "meter")
           r == [m EXCEPT !.stored = now]
<1>1. requests[i] \in Requests /\ Sound(requests[i], setting, now, recorded)
      /\ ~requests[i].late /\ now \in Nat
  BY PhaseSays DEF RequestInv, IInv, ShapeInv
<1>2. "meter" \in RequestPhases /\ "meter" \notin Ended
  BY DEF RequestPhases, Ended
<1>3. /\ m \in Requests /\ m.by = requests[i].by /\ m.batch = requests[i].batch
      /\ m.phase = "meter" /\ m.late = requests[i].late
      /\ m.waits <=> requests[i].waits
  BY <1>1, <1>2, MovedFacts
<1>4. requests' = [requests EXCEPT ![i] = r]
  OBVIOUS
<1> HIDE DEF m
<1>5. /\ r.by = m.by /\ r.batch = m.batch /\ r.phase = m.phase /\ r.waits = m.waits
      /\ r.late = m.late /\ r.stored = now
  BY <1>3 DEF Requests
<1>6. r \in Requests
  BY <1>1, <1>3 DEF Requests
<1> HIDE DEF r
<1>7. Sound(r, setting, now, recorded)
  BY <1>1, <1>2, <1>3, <1>5 DEF Sound, Ended
<1>8. Moves(i, r)
  BY <1>1, <1>3, <1>4, <1>5, <1>6, <1>7 DEF Moves
<1> QED
  BY <1>3, <1>5, <1>8

LEMMA StoredRow ==
  ASSUME IInv, NEW i \in DOMAIN requests, requests[i].phase = "store",
         NEW r, Moves(i, r), r.stored = now,
         rows' = Append(rows, [batch |-> requests[i].batch, at |-> now]),
         UNCHANGED <<now, project>>
  PROVE  RowInv' /\ rows' \in Seq(RowRecords)
<1> DEFINE new == [batch |-> requests[i].batch, at |-> now]
           last == Len(rows) + 1
<1>0. ShapeInv /\ RequestInv /\ SendInv /\ RowInv /\ now \in Nat /\ rows \in Seq(RowRecords)
  BY DEF IInv, ShapeInv
<1>1. /\ requests[i] \in Requests /\ ~(requests[i].stored >= 0)
  BY PhaseSays
<1>2. new \in RowRecords /\ new.batch = requests[i].batch /\ new.at = now
  BY <1>0, <1>1 DEF RowRecords, Requests
<1>3. /\ DOMAIN requests' = DOMAIN requests /\ requests'[i] = r
      /\ \A j \in DOMAIN requests : j # i => requests'[j] = requests[j]
      /\ \A j \in DOMAIN requests : requests'[j].batch = requests[j].batch
  BY <1>0, MoveFacts DEF Follows
<1>4. Kept(requests') = Kept(requests) \cup {i} /\ i \notin Kept(requests)
  BY <1>0, <1>1, <1>3 DEF Kept
<1> HIDE DEF new
<1>5. /\ rows' \in Seq(RowRecords) /\ DOMAIN rows' = DOMAIN rows \cup {last} /\ last \notin DOMAIN rows
      /\ rows'[last] = new /\ \A k \in DOMAIN rows : rows'[k] = rows[k]
  BY <1>0, <1>2, Inserting DEF new
<1> HIDE DEF last
<1>6. \A k \in DOMAIN rows' :
          /\ rows'[k].at =< now
          /\ rows'[k].batch # {} => \E j \in Kept(requests') : rows'[k].batch = requests'[j].batch
  <2>1. ASSUME NEW k \in DOMAIN rows
        PROVE  /\ rows'[k].at =< now
               /\ rows'[k].batch # {} => \E j \in Kept(requests') : rows'[k].batch = requests'[j].batch
    BY <1>0, <1>3, <1>4, <1>5 DEF RowInv, Kept
  <2>2. rows'[last].at =< now /\ rows'[last].batch = requests'[i].batch /\ i \in Kept(requests')
    BY <1>0, <1>2, <1>3, <1>4, <1>5
  <2> QED
    BY <1>5, <2>1, <2>2
<1>7. \A k \in DOMAIN rows : rows[k].batch \cap requests[i].batch = {}
  BY <1>0, <1>4 DEF RowInv, SendInv, Kept
<1>8. \A k, l \in DOMAIN rows' : k # l => rows'[k].batch \cap rows'[l].batch = {}
  BY <1>0, <1>2, <1>5, <1>7 DEF RowInv
<1>9. project' => \A j \in Kept(requests') :
          requests'[j].stored >= now' - Retention =>
              \E k \in DOMAIN rows' : rows'[k].batch = requests'[j].batch /\ rows'[k].at = requests'[j].stored
  <2> SUFFICES ASSUME project, NEW j \in Kept(requests'), requests'[j].stored >= now - Retention
               PROVE  \E k \in DOMAIN rows' :
                          rows'[k].batch = requests'[j].batch /\ rows'[k].at = requests'[j].stored
    OBVIOUS
  <2>1. CASE j = i
    BY <1>2, <1>3, <1>5, <2>1
  <2>2. CASE j # i
    <3>1. j \in Kept(requests) /\ requests'[j] = requests[j]
      BY <1>3, <1>4, <2>2 DEF Kept
    <3>2. PICK k \in DOMAIN rows : rows[k].batch = requests[j].batch /\ rows[k].at = requests[j].stored
      BY <1>0, <3>1 DEF RowInv
    <3> QED
      BY <1>5, <3>1, <3>2
  <2> QED
    BY <2>1, <2>2
<1> QED
  BY <1>5, <1>6, <1>8, <1>9 DEF RowInv

LEMMA RowStored ==
  ASSUME IInv, NEW i \in DOMAIN requests, requests[i].phase = "store", NEW r, Moves(i, r),
         r.phase = "meter", r.stored = now,
         rows' = Append(rows, [batch |-> requests[i].batch, at |-> now]),
         UNCHANGED <<setting, now, collectorVars, limiterVars, usage, accessVars, cronVars, consoleVars>>
  PROVE  IInv'
<1>0. ShapeInv /\ RequestInv /\ MeterInv
  BY DEF IInv
<1>1. project' = project /\ usage' \in Nat /\ hits' \in Nat /\ expires' \in Nat /\ r.stored >= 0
  BY <1>0 DEF accessVars, limiterVars, ShapeInv
<1>2. RowInv' /\ rows' \in Seq(RowRecords)
  BY <1>1, StoredRow
<1>3. MeterInv'
  BY <1>0, MoveMeter
<1> QED
  BY <1>1, <1>2, <1>3, AnyMove

LEMMA StoreKeeps ==
  ASSUME IInv, NEW i \in DOMAIN requests, Store(i), UNCHANGED consoleVars
  PROVE  IInv'
<1>1. requests[i].phase = "store" /\ requests[i].phase \notin Ended
      /\ UNCHANGED <<setting, now, collectorVars, limiterVars, usage, accessVars, cronVars>>
  BY DEF Store, At, Ended
<1>2. CASE project
  <2>1. /\ rows' = Append(rows, [batch |-> requests[i].batch, at |-> now])
        /\ requests' = [requests EXCEPT ![i] = [Moved(@, "meter") EXCEPT !.stored = now]]
    BY <1>2 DEF Store
  <2> QED
    BY <1>1, <2>1, StoreMoves, RowStored
<1>3. CASE ~project
  <2>1. Move(i, "failed") /\ UNCHANGED <<Traffic, limiterVars>>
    BY <1>1, <1>3 DEF Store, Traffic
  <2>2. ~requests[i].late /\ ~(requests[i].stored >= 0) /\ hits' \in Nat /\ expires' \in Nat
    BY <1>1, <2>1, PhaseSays DEF limiterVars
  <2>3. "failed" \in RequestPhases
    BY DEF RequestPhases, Ended
  <2> QED
    BY <1>1, <2>1, <2>2, <2>3, MoveQuietly
<1> QED
  BY <1>2, <1>3

(* Metering adds a batch that was admitted before. *)
LEMMA MeteredKeeps ==
  ASSUME IInv, NEW i \in DOMAIN requests, requests[i].phase = "meter", NEW r, Moves(i, r), r.phase = "done",
         usage' = usage + Cardinality(requests[i].batch), UNCHANGED setting
  PROVE  MeterInv' /\ usage' \in Nat
<1>0. ShapeInv /\ RequestInv /\ SendInv /\ MeterInv
  BY DEF IInv
<1>1. /\ DOMAIN requests' = DOMAIN requests /\ requests'[i] = r /\ i \in DOMAIN requests
      /\ \A j \in DOMAIN requests : j # i => requests'[j] = requests[j]
      /\ \A j \in DOMAIN requests : requests'[j].batch = requests[j].batch
  BY <1>0, MoveFacts DEF Follows
<1> DEFINE D == Batches(requests, Done(requests))
           b == requests[i].batch
<1>2. Done(requests') = Done(requests) \cup {i} /\ i \notin Done(requests)
  BY <1>1 DEF Done
<1>3. Batches(requests', Done(requests')) = D \cup b
  BY <1>1, <1>2 DEF Batches, Done
<1>4. D \cap b = {}
  BY <1>0, <1>2 DEF SendInv, Batches, Done
<1>5. Batches(requests, {i}) = b
  BY DEF Batches
<1>6. IsFiniteSet(D) /\ IsFiniteSet(b)
  <2>1. Done(requests) \subseteq DOMAIN requests /\ {i} \subseteq DOMAIN requests
    BY DEF Done
  <2> QED
    BY <1>0, <1>5, <2>1, SentFinite
<1>7. Done(requests') \cup Admitted(requests') = Done(requests) \cup Admitted(requests)
  BY <1>1 DEF Done, Admitted
<1>8. Batches(requests', Done(requests') \cup Admitted(requests'))
        = Batches(requests, Done(requests) \cup Admitted(requests))
  BY <1>1, <1>7 DEF Batches, Done, Admitted
<1>9. usage = Cardinality(D)
  BY <1>0 DEF MeterInv
<1> HIDE DEF D, b
<1>10. Cardinality(D \cup b) = Cardinality(D) + Cardinality(b) /\ Cardinality(D \cup b) \in Nat
  <2>1. IsFiniteSet(D \cup b) /\ Cardinality(D \cup b) = Cardinality(D) + Cardinality(b) - Cardinality(D \cap b)
    BY <1>6, FS_Union
  <2>2. Cardinality(D \cap b) = 0 /\ Cardinality(D) \in Nat /\ Cardinality(b) \in Nat
    BY <1>4, <1>6, FS_EmptySet, FS_CardinalityType
  <2> QED
    BY <2>1, <2>2, FS_CardinalityType
<1>11. usage' = Cardinality(D \cup b)
  BY <1>9, <1>10 DEF b
<1> QED
  BY <1>0, <1>3, <1>8, <1>10, <1>11 DEF MeterInv

LEMMA IncrementUsageKeeps ==
  ASSUME IInv, NEW i \in DOMAIN requests, IncrementUsage(i), UNCHANGED consoleVars
  PROVE  IInv'
<1>0. ShapeInv /\ RequestInv /\ RowInv
  BY DEF IInv
<1>1. /\ requests[i].phase = "meter" /\ requests[i].phase \notin Ended
      /\ usage' = usage + Cardinality(requests[i].batch) /\ Move(i, "done")
      /\ UNCHANGED <<setting, now, collectorVars, limiterVars, rows, accessVars, cronVars>>
  BY DEF IncrementUsage, At, Ended
<1>2. /\ requests[i] \in Requests /\ ~requests[i].late /\ requests[i].stored >= 0
      /\ hits' \in Nat /\ expires' \in Nat
  BY <1>0, <1>1, PhaseSays DEF RequestInv, Sound, limiterVars
<1>3. "done" \in RequestPhases
  BY DEF RequestPhases, Ended
<1>5. PICK r : r = Moved(requests[i], "done")
  OBVIOUS
<1>6. Moves(i, r) /\ r.phase = "done" /\ r.stored = requests[i].stored
  BY <1>0, <1>1, <1>2, <1>3, <1>5, MoveMoves, MovedFacts
<1>7. MeterInv' /\ usage' \in Nat
  BY <1>1, <1>6, MeteredKeeps
<1>8. RowInv' /\ rows' \in Seq(RowRecords)
  BY <1>0, <1>1, <1>6, MoveRows DEF accessVars, ShapeInv
<1> QED
  BY <1>1, <1>2, <1>6, <1>7, <1>8, AnyMove
-----------------------------------------------------------------------------
(* The collector. *)

NewRequest(t, b) ==
    [by |-> t, batch |-> b, phase |-> "sent", waits |-> TRUE,
     late |-> revoked \/ ~project, stored |-> -1]

(* What is sent is sent for the first time, by a recorder that waits for   *)
(* nothing else.                                                           *)
LEMMA Sending ==
  ASSUME IInv, NEW t \in Recorders, ~Busy(t), NEW b, PostBatch(t, b),
         recorded' \in Nat, recorded =< recorded', recorded' =< setting.records,
         b \subseteq 1 .. recorded', b # {}, Cardinality(b) =< setting.flushEvery,
         1 .. recorded' \subseteq b \cup Batches(requests, DOMAIN requests),
         \A j \in DOMAIN requests : requests[j].batch \cap b = {},
         buffer' = {},
         UNCHANGED <<setting, now, limiterVars, usage, rows, accessVars, cronVars, consoleVars>>
  PROVE  IInv'
<1> DEFINE r == NewRequest(t, b)
           last == Len(requests) + 1
<1>0. /\ ShapeInv /\ BoundInv /\ RequestInv /\ SendInv /\ WaitInv /\ RowInv /\ MeterInv
      /\ LeaseInv /\ DriftInv /\ NonceInv /\ SlackInv /\ RevocationTold
  BY DEF IInv
<1>1. UNCHANGED <<hits, expires, project, revoked, slack, lease, sweeps, drifts>>
  BY DEF limiterVars, accessVars, cronVars
<1>2. requests \in Seq(Requests) /\ now \in Nat /\ recorded \in Nat /\ setting.flushEvery \in Nat \ {0}
      /\ project \in BOOLEAN /\ revoked \in BOOLEAN
  <2>1. setting.flushEvery \in Nat \ {0}
    BY <1>0, CapType
  <2> QED
    BY <1>0, <2>1 DEF ShapeInv
<1>3. /\ r \in Requests /\ r.by = t /\ r.batch = b /\ r.phase = "sent" /\ r.waits = TRUE
      /\ r.late = Closed /\ r.stored = -1
  BY <1>2 DEF NewRequest, Requests, RequestPhases, Closed
<1>4. requests' = Append(requests, r)
  BY DEF PostBatch, NewRequest
<1> HIDE DEF r
<1>5. /\ requests' \in Seq(Requests)
      /\ DOMAIN requests' = DOMAIN requests \cup {last} /\ last \notin DOMAIN requests
      /\ requests'[last] = r /\ \A j \in DOMAIN requests : requests'[j] = requests[j]
  BY <1>2, <1>3, <1>4, Inserting
<1> HIDE DEF last
<1>6. ShapeInv' /\ BoundInv'
  BY <1>0, <1>1, <1>5 DEF ShapeInv, BoundInv, consoleVars
<1>7. RequestInv'
  <2>1. Sound(r, setting, now, recorded')
    BY <1>2, <1>3 DEF Sound, Ended
  <2>2. r.late => Closed
    BY <1>3
  <2>3. ASSUME NEW j \in DOMAIN requests
        PROVE  Sound(requests[j], setting, now, recorded') /\ (requests[j].late => Closed)
    <3>1. /\ requests[j] \in Requests /\ Sound(requests[j], setting, now, recorded)
          /\ requests[j].late => Closed
      BY <1>0, Types DEF RequestInv, Closed
    <3>2. now =< now
      BY <1>2
    <3> QED
      BY <1>2, <3>1, <3>2, SoundStays
  <2>4. \A j \in DOMAIN requests' : Sound(requests'[j], setting, now, recorded')
                                    /\ (requests'[j].late => Closed)
    BY <1>5, <2>1, <2>2, <2>3
  <2> QED
    BY <1>1, <2>4 DEF RequestInv, Closed
<1>8. SendInv'
  <2>1. /\ buffer' \subseteq 1 .. recorded'
        /\ Cardinality(buffer') < setting.flushEvery
        /\ \A j \in DOMAIN requests' : requests'[j].batch \cap buffer' = {}
    BY <1>2, FS_EmptySet
  <2>2. \A i, j \in DOMAIN requests' : i # j => requests'[i].batch \cap requests'[j].batch = {}
    BY <1>0, <1>3, <1>5 DEF SendInv
  <2>3. 1 .. recorded' \subseteq Batches(requests', DOMAIN requests')
    <3>1. Batches(requests', DOMAIN requests') = b \cup Batches(requests, DOMAIN requests)
      BY <1>3, <1>5 DEF Batches
    <3> QED
      BY <3>1
  <2> QED
    BY <2>1, <2>2, <2>3 DEF SendInv
<1>9. WaitInv'
  BY <1>0, <1>3, <1>5 DEF WaitInv, Busy
<1>10. /\ Kept(requests') = Kept(requests) /\ Done(requests') = Done(requests)
       /\ Admitted(requests') = Admitted(requests)
  BY <1>3, <1>5 DEF Kept, Done, Admitted
<1>11. /\ \A j \in DOMAIN requests : j \in DOMAIN requests' /\ requests'[j] = requests[j]
       /\ DOMAIN requests \subseteq DOMAIN requests'
  BY <1>5
<1>16. \A i \in Kept(requests) : i \in Kept(requests') /\ requests'[i].batch = requests[i].batch
  BY <1>10, <1>11 DEF Kept
<1>12. RowInv'
  BY <1>0, <1>1, <1>10, <1>11 DEF RowInv, Kept
<1>13. MeterInv'
  <2>1. /\ Batches(requests', Done(requests)) = Batches(requests, Done(requests))
        /\ Batches(requests', Done(requests) \cup Admitted(requests))
             = Batches(requests, Done(requests) \cup Admitted(requests))
    BY <1>11 DEF Batches, Done, Admitted
  <2> QED
    BY <1>0, <1>10, <2>1 DEF MeterInv
<1>15. LeaseInv' /\ DriftInv' /\ NonceInv' /\ SlackInv' /\ RevocationTold'
  BY <1>0, <1>11, <1>16, OthersFrame
<1> QED
  BY <1>6, <1>7, <1>8, <1>9, <1>12, <1>13, <1>15 DEF IInv

(* A trajectory that stays in the buffer. *)
LEMMA Buffering ==
  ASSUME IInv, recorded' = recorded + 1, recorded < setting.records,
         buffer' = buffer \cup {recorded + 1}, Cardinality(buffer') < setting.flushEvery, UNCHANGED requests,
         UNCHANGED <<setting, now, limiterVars, usage, rows, accessVars, cronVars, consoleVars>>
  PROVE  IInv'
<1>0. /\ ShapeInv /\ BoundInv /\ RequestInv /\ SendInv /\ WaitInv /\ RowInv /\ MeterInv
      /\ LeaseInv /\ DriftInv /\ NonceInv /\ SlackInv /\ RevocationTold
  BY DEF IInv
<1>1. UNCHANGED <<hits, expires, project, revoked, slack, lease, sweeps, drifts>>
  BY DEF limiterVars, accessVars, cronVars
<1>2. recorded \in Nat /\ now \in Nat /\ setting.records \in Nat
  BY <1>0, TrafficSettings DEF ShapeInv
<1>3. ShapeInv' /\ BoundInv'
  BY <1>0, <1>1, <1>2 DEF ShapeInv, BoundInv, consoleVars
<1>4. RequestInv'
  <2>1. ASSUME NEW j \in DOMAIN requests
        PROVE  Sound(requests[j], setting, now, recorded') /\ (requests[j].late => Closed)
    <3>1. /\ requests[j] \in Requests /\ Sound(requests[j], setting, now, recorded)
          /\ requests[j].late => Closed
      BY <1>0, Types DEF RequestInv, Closed
    <3>2. now =< now /\ recorded =< recorded' /\ recorded' \in Nat
      BY <1>2
    <3> QED
      BY <1>2, <3>1, <3>2, SoundStays
  <2> QED
    BY <1>1, <2>1 DEF RequestInv, Closed
<1>5. SendInv'
  <2>3. 1 .. recorded' = 1 .. recorded \cup {recorded + 1} /\ recorded + 1 \notin 1 .. recorded
    BY <1>2
  <2>1. buffer' \subseteq 1 .. recorded' /\ 1 .. recorded' = 1 .. recorded \cup {recorded + 1}
        /\ recorded + 1 \notin 1 .. recorded
    BY <1>0, <2>3 DEF SendInv
  <2>2. \A j \in DOMAIN requests : recorded + 1 \notin requests[j].batch
    BY <1>0, <2>1 DEF RequestInv, Sound
  <2> QED
    BY <1>0, <2>1, <2>2 DEF SendInv
<1>6. WaitInv' /\ RowInv' /\ MeterInv'
  BY <1>0, <1>1 DEF WaitInv, RowInv, MeterInv
<1>7. LeaseInv' /\ DriftInv' /\ NonceInv' /\ SlackInv' /\ RevocationTold'
  BY <1>0, OthersFrame
<1> QED
  BY <1>3, <1>4, <1>5, <1>6, <1>7 DEF IInv

LEMMA RecordKeeps ==
  ASSUME IInv, NEW t \in Recorders, Record(t), UNCHANGED consoleVars
  PROVE  IInv'
<1> DEFINE filled == buffer \cup {recorded + 1}
<1>0. ShapeInv /\ RequestInv /\ SendInv
  BY DEF IInv
<1>1. /\ recorded < setting.records /\ ~Busy(t) /\ recorded' = recorded + 1
      /\ UNCHANGED <<setting, now, limiterVars, usage, rows, accessVars, cronVars>>
  BY DEF Record
<1>2. recorded \in Nat /\ setting.records \in Nat /\ setting.flushEvery \in Nat \ {0}
  BY <1>0, TrafficSettings DEF ShapeInv
<1>3. /\ 1 .. recorded' = 1 .. recorded \cup {recorded + 1} /\ recorded + 1 \notin 1 .. recorded
      /\ recorded' \in Nat /\ recorded =< recorded' /\ recorded' =< setting.records
  BY <1>1, <1>2
<1>4. /\ buffer \subseteq 1 .. recorded /\ Cardinality(buffer) < setting.flushEvery
      /\ 1 .. recorded \subseteq buffer \cup Batches(requests, DOMAIN requests)
      /\ \A j \in DOMAIN requests : requests[j].batch \cap buffer = {} /\ requests[j].batch \subseteq 1 .. recorded
  BY <1>0 DEF SendInv, RequestInv, Sound
<1>5. IsFiniteSet(buffer) /\ Cardinality(buffer) \in Nat
  <2>2. IsFiniteSet(1 .. recorded)
    BY <1>2, FirstNumbers
  <2>1. IsFiniteSet(1 .. recorded) /\ buffer \in SUBSET (1 .. recorded)
    BY <1>4, <2>2
  <2> QED
    BY <2>1, FS_Subset, FS_CardinalityType
<1>6. recorded + 1 \notin buffer
  BY <1>3, <1>4
<1>7. Cardinality(filled) = Cardinality(buffer) + 1
  BY <1>5, <1>6, FS_AddElement
<1>8. CASE Cardinality(filled) >= setting.flushEvery
  <2>1. buffer' = {} /\ PostBatch(t, filled)
    BY <1>8 DEF Record
  <2>2. Cardinality(filled) =< setting.flushEvery
    BY <1>2, <1>4, <1>5, <1>7
  <2>3. /\ filled \subseteq 1 .. recorded' /\ filled # {}
        /\ 1 .. recorded' \subseteq filled \cup Batches(requests, DOMAIN requests)
        /\ \A j \in DOMAIN requests : requests[j].batch \cap filled = {}
    BY <1>3, <1>4
  <2> HIDE DEF filled
  <2> QED
    BY <1>1, <1>3, <2>1, <2>2, <2>3, Sending
<1>9. CASE ~(Cardinality(filled) >= setting.flushEvery)
  <2>1. buffer' = buffer \cup {recorded + 1} /\ UNCHANGED requests
    BY <1>9 DEF Record
  <2>2. Cardinality(buffer') < setting.flushEvery
    BY <1>2, <1>5, <1>7, <1>9, <2>1
  <2> QED
    BY <1>1, <2>1, <2>2, Buffering
<1> QED
  BY <1>8, <1>9

LEMMA FlushKeeps ==
  ASSUME IInv, NEW t \in Recorders, Flush(t), UNCHANGED consoleVars
  PROVE  IInv'
<1>0. ShapeInv /\ SendInv /\ BoundInv
  BY DEF IInv
<1>1. /\ ~Busy(t) /\ buffer # {} /\ buffer' = {} /\ PostBatch(t, buffer) /\ recorded' = recorded
      /\ UNCHANGED <<setting, now, limiterVars, usage, rows, accessVars, cronVars>>
  BY DEF Flush
<1>2. /\ buffer \subseteq 1 .. recorded /\ Cardinality(buffer) < setting.flushEvery
      /\ 1 .. recorded \subseteq buffer \cup Batches(requests, DOMAIN requests)
      /\ \A j \in DOMAIN requests : requests[j].batch \cap buffer = {}
      /\ recorded \in Nat /\ recorded =< setting.records
  BY <1>0 DEF SendInv, BoundInv, ShapeInv
<1>3. Cardinality(buffer) \in Nat /\ setting.flushEvery \in Nat
  <2>1. IsFiniteSet(1 .. recorded) /\ buffer \in SUBSET (1 .. recorded)
    BY <1>2, FirstNumbers
  <2> QED
    BY <1>0, <2>1, FS_Subset, FS_CardinalityType, CapType
<1>4. Cardinality(buffer) =< setting.flushEvery
  BY <1>2, <1>3
<1>5. /\ recorded' \in Nat /\ recorded =< recorded' /\ recorded' =< setting.records
      /\ buffer \subseteq 1 .. recorded'
      /\ 1 .. recorded' \subseteq buffer \cup Batches(requests, DOMAIN requests)
  BY <1>1, <1>2
<1> QED
  BY <1>1, <1>2, <1>4, <1>5, Sending

LEMMA TrafficKeeps ==
  ASSUME IInv, TrafficNext, UNCHANGED consoleVars
  PROVE  IInv'
<1> QED
  BY RecordKeeps, FlushKeeps, GiveUpKeeps, ArriveKeeps, FindProjectKeeps, CheckRateLimitKeeps,
     SetExpiryKeeps, CheckQuotaKeeps, StoreKeeps, IncrementUsageKeeps, DieKeeps, ExpireKeeps
     DEF TrafficNext
-----------------------------------------------------------------------------
(* The cron jobs. *)

LEMMA CronStep ==
  ASSUME IInv, UNCHANGED <<setting, now, trafficVars, rows, accessVars, consoleVars>>,
         lease' \in Nat, sweeps' \in Seq(SweepRecords), drifts' \in Seq(DriftRecords),
         LeaseInv', DriftInv'
  PROVE  IInv'
<1>0. /\ ShapeInv /\ BoundInv /\ RequestInv /\ SendInv /\ WaitInv /\ RowInv /\ MeterInv
      /\ NonceInv /\ SlackInv /\ RevocationTold
  BY DEF IInv
<1>1. UNCHANGED <<recorded, buffer, requests, hits, expires, usage, project, revoked, slack>>
  BY DEF trafficVars, collectorVars, limiterVars, accessVars
<1>2. ShapeInv' /\ BoundInv'
  BY <1>0, <1>1 DEF ShapeInv, BoundInv, consoleVars
<1>3. now' \in Nat /\ now =< now'
  BY <1>0 DEF ShapeInv
<1>4. RequestInv' /\ SendInv' /\ WaitInv' /\ MeterInv'
  BY <1>0, <1>1, <1>3, TrafficFrame DEF Closed
<1>5. RowInv'
  BY <1>0, <1>1, <1>3, RowFrame
<1>6. NonceInv' /\ SlackInv' /\ RevocationTold'
  BY <1>0, <1>1, ConsoleFrame
<1> QED
  BY <1>2, <1>4, <1>5, <1>6 DEF IInv

(* A sweep that takes the lease has compared nothing. *)
LEMMA SweepBegins ==
  ASSUME IInv, NEW s \in SweepRecords, s.began = now, s.phase = "list", s.alerts = 0,
         s.base = {}, s.cand = {}, sweeps' = Append(sweeps, s), lease' = now + LeaseTTL,
         UNCHANGED <<setting, now, trafficVars, rows, accessVars, drifts, consoleVars>>
  PROVE  IInv'
<1> DEFINE last == Len(sweeps) + 1
<1>0. ShapeInv /\ LeaseInv /\ DriftInv
  BY DEF IInv
<1>1. sweeps \in Seq(SweepRecords) /\ drifts' \in Seq(DriftRecords) /\ now \in Nat /\ LeaseTTL \in Nat
  BY <1>0, Times DEF ShapeInv
<1>2. /\ sweeps' \in Seq(SweepRecords) /\ DOMAIN sweeps' = DOMAIN sweeps \cup {last}
      /\ last \notin DOMAIN sweeps
      /\ sweeps'[last] = s /\ \A i \in DOMAIN sweeps : sweeps'[i] = sweeps[i]
  BY <1>1, Inserting
<1> HIDE DEF last
<1>3. LeaseInv'
  BY <1>0, <1>1, <1>2 DEF LeaseInv
<1>4. Windowed(s, requests) /\ requests' = requests
  BY DEF Windowed, trafficVars
<1>5. \A d \in DOMAIN drifts : drifts[d].sweep \in DOMAIN sweeps'
                               /\ sweeps'[drifts[d].sweep] = sweeps[drifts[d].sweep]
  BY <1>0, <1>2 DEF DriftInv
<1>6. \A i \in DOMAIN sweeps' :
          /\ Windowed(sweeps'[i], requests)
          /\ sweeps'[i].phase \in {"engine", "record", "notify"} => Enough(sweeps'[i].base, sweeps'[i].cand)
          /\ sweeps'[i].phase = "record" => sweeps'[i].verdict \in {"warn", "fail"}
          /\ sweeps'[i].phase = "notify" \/ sweeps'[i].alerts > 0 =>
                \E d \in DOMAIN drifts : drifts[d].sweep = i
  BY <1>0, <1>2, <1>4 DEF DriftInv
<1>7. DriftInv'
  BY <1>0, <1>4, <1>5, <1>6 DEF DriftInv
<1> QED
  BY <1>1, <1>2, <1>3, <1>7, CronStep

LEMMA CheckDriftAllKeeps ==
  ASSUME IInv, NEW w \in Workers, CheckDriftAll(w), UNCHANGED consoleVars
  PROVE  IInv'
<1> DEFINE s == [worker |-> w, tick |-> LastTick, began |-> now, phase |-> "list",
                 base |-> {}, cand |-> {}, verdict |-> "pass", alerts |-> 0]
<1>0. ShapeInv /\ LeaseInv /\ DriftInv
  BY DEF IInv
<1>1. /\ lease' = now + LeaseTTL
      /\ UNCHANGED <<setting, now, trafficVars, rows, accessVars, drifts>>
      /\ sweeps' = Append(sweeps, s) \/ UNCHANGED sweeps
  BY DEF CheckDriftAll
<1>2. now \in Nat /\ LeaseTTL \in Nat /\ Interval \in Nat \ {0} /\ LastTick \in Int
  BY <1>0, Times, TimeAssumption DEF ShapeInv, LastTick
<1>3. /\ s \in SweepRecords /\ s.began = now /\ s.phase = "list"
      /\ s.base = {} /\ s.cand = {} /\ s.alerts = 0
  BY <1>2 DEF SweepRecords, SweepPhases
<1> HIDE DEF s
<1>4. CASE sweeps' = Append(sweeps, s)
  BY <1>1, <1>3, <1>4, SweepBegins
<1>5. CASE UNCHANGED sweeps
  <2>1. LeaseInv'
    BY <1>0, <1>1, <1>2, <1>5 DEF LeaseInv
  <2>2. UNCHANGED requests
    BY <1>1 DEF trafficVars
  <2>3. DriftInv'
    BY <1>0, <1>1, <1>5, <2>2, DriftFrame
  <2>4. lease' \in Nat /\ sweeps' \in Seq(SweepRecords) /\ drifts' \in Seq(DriftRecords)
    BY <1>0, <1>1, <1>2, <1>5 DEF ShapeInv
  <2> QED
    BY <1>1, <2>1, <2>3, <2>4, CronStep
<1> QED
  BY <1>1, <1>4, <1>5

(* A sweep that goes on. *)
Turns(i, s) ==
    /\ i \in DOMAIN sweeps
    /\ s \in SweepRecords /\ s.began = sweeps[i].began
    /\ sweeps' = [sweeps EXCEPT ![i] = s]

LEMMA TurnFacts ==
  ASSUME ShapeInv, NEW i, NEW s, Turns(i, s)
  PROVE  /\ sweeps' \in Seq(SweepRecords) /\ DOMAIN sweeps' = DOMAIN sweeps
         /\ i \in DOMAIN sweeps /\ sweeps'[i] = s
         /\ \A j \in DOMAIN sweeps : j # i => sweeps'[j] = sweeps[j]
         /\ \A j \in DOMAIN sweeps : sweeps'[j].began = sweeps[j].began
<1>1. /\ sweeps \in Seq(SweepRecords) /\ i \in DOMAIN sweeps /\ s \in SweepRecords
      /\ sweeps' = [sweeps EXCEPT ![i] = s]
  BY DEF ShapeInv, Turns
<1>2. DOMAIN sweeps = 1 .. Len(sweeps)
  BY <1>1, LenProperties
<1>3. sweeps' \in Seq(SweepRecords) /\ DOMAIN sweeps' = DOMAIN sweeps
  BY <1>1, <1>2, ExceptSeq
<1>4. sweeps'[i] = s /\ \A j \in DOMAIN sweeps : j # i => sweeps'[j] = sweeps[j]
  BY <1>1
<1> QED
  BY <1>1, <1>3, <1>4 DEF Turns

LEMMA Turning ==
  ASSUME IInv, NEW i, NEW s, Turns(i, s), UNCHANGED SweepOnly, UNCHANGED consoleVars,
         Windowed(s, requests),
         s.phase \in {"engine", "record", "notify"} => Enough(s.base, s.cand),
         s.phase = "record" => s.verdict \in {"warn", "fail"},
         s.phase # "notify",
         s.alerts > 0 => sweeps[i].phase = "notify" \/ sweeps[i].alerts > 0,
         s.phase \notin {"over", "dead"} => sweeps[i].phase \notin {"notify", "over", "dead"},
         (s.base = sweeps[i].base /\ s.cand = sweeps[i].cand) \/ sweeps[i].phase = "read"
  PROVE  IInv'
<1>0. ShapeInv /\ LeaseInv /\ DriftInv
  BY DEF IInv
<1>1. /\ sweeps' \in Seq(SweepRecords) /\ DOMAIN sweeps' = DOMAIN sweeps
      /\ i \in DOMAIN sweeps /\ sweeps'[i] = s
      /\ \A j \in DOMAIN sweeps : j # i => sweeps'[j] = sweeps[j]
      /\ \A j \in DOMAIN sweeps : sweeps'[j].began = sweeps[j].began
  BY <1>0, TurnFacts
<1>2. /\ UNCHANGED <<setting, now, trafficVars, rows, accessVars, lease, drifts, requests>>
      /\ now' \in Nat /\ now =< now' /\ lease' \in Nat /\ drifts' \in Seq(DriftRecords)
  BY <1>0 DEF SweepOnly, trafficVars, ShapeInv
<1>3. LeaseInv'
  BY <1>0, <1>1, <1>2, LeaseFrame
<1>4. ASSUME NEW d \in DOMAIN drifts
      PROVE  /\ drifts[d].sweep \in DOMAIN sweeps'
             /\ Enough(sweeps'[drifts[d].sweep].base, sweeps'[drifts[d].sweep].cand)
             /\ sweeps'[drifts[d].sweep].phase \in {"notify", "over", "dead"}
  <2>1. /\ drifts[d].sweep \in DOMAIN sweeps
        /\ Enough(sweeps[drifts[d].sweep].base, sweeps[drifts[d].sweep].cand)
        /\ sweeps[drifts[d].sweep].phase \in {"notify", "over", "dead"}
    BY <1>0 DEF DriftInv
  <2>2. CASE drifts[d].sweep = i
    BY <1>1, <2>1, <2>2
  <2>3. CASE drifts[d].sweep # i
    BY <1>1, <2>1, <2>3
  <2> QED
    BY <2>2, <2>3
<1>5. ASSUME NEW j \in DOMAIN sweeps
      PROVE  /\ Windowed(sweeps'[j], requests)
             /\ sweeps'[j].phase \in {"engine", "record", "notify"} =>
                   Enough(sweeps'[j].base, sweeps'[j].cand)
             /\ sweeps'[j].phase = "record" => sweeps'[j].verdict \in {"warn", "fail"}
             /\ sweeps'[j].phase = "notify" \/ sweeps'[j].alerts > 0 =>
                   \E d \in DOMAIN drifts : drifts[d].sweep = j
  <2>1. CASE j = i
    BY <1>0, <1>1, <2>1 DEF DriftInv
  <2>2. CASE j # i
    BY <1>0, <1>1, <2>2 DEF DriftInv
  <2> QED
    BY <2>1, <2>2
<1>6. DriftInv'
  BY <1>0, <1>1, <1>2, <1>4, <1>5 DEF DriftInv
<1> QED
  BY <1>1, <1>2, <1>3, <1>6, CronStep

(* What a sweep is known to have. *)
LEMMA SweepSays ==
  ASSUME IInv, NEW i \in DOMAIN sweeps
  PROVE  /\ sweeps[i] \in SweepRecords /\ Windowed(sweeps[i], requests)
         /\ sweeps[i].phase \in {"engine", "record", "notify"} => Enough(sweeps[i].base, sweeps[i].cand)
<1> QED
  BY Types DEF IInv, DriftInv

LEMMA TurnTurns ==
  ASSUME IInv, NEW i \in DOMAIN sweeps, NEW p \in SweepPhases, Turn(i, p)
  PROVE  \E s : /\ Turns(i, s) /\ s.phase = p /\ s.base = sweeps[i].base /\ s.cand = sweeps[i].cand
                /\ s.verdict = sweeps[i].verdict /\ s.alerts = sweeps[i].alerts
                /\ Windowed(s, requests)
<1> DEFINE s == [sweeps[i] EXCEPT !.phase = p]
<1>1. sweeps[i] \in SweepRecords /\ Windowed(sweeps[i], requests)
  BY SweepSays
<1>2. /\ s.phase = p /\ s.base = sweeps[i].base /\ s.cand = sweeps[i].cand
      /\ s.verdict = sweeps[i].verdict /\ s.alerts = sweeps[i].alerts
      /\ s.tick = sweeps[i].tick /\ s.began = sweeps[i].began
  BY <1>1 DEF SweepRecords
<1>3. s \in SweepRecords
  BY <1>1 DEF SweepRecords
<1>4. sweeps' = [sweeps EXCEPT ![i] = s]
  BY DEF Turn
<1> HIDE DEF s
<1>5. Turns(i, s)
  BY <1>2, <1>3, <1>4 DEF Turns
<1>6. Windowed(s, requests)
  BY <1>1, <1>2 DEF Windowed
<1> QED
  BY <1>2, <1>5, <1>6

(* A sweep that ends, or has not read its windows yet. *)
LEMMA TurnKeeps ==
  ASSUME IInv, NEW i \in DOMAIN sweeps, NEW p \in {"read", "over", "dead"}, Turn(i, p),
         p = "read" => sweeps[i].phase = "list", UNCHANGED SweepOnly, UNCHANGED consoleVars
  PROVE  IInv'
<1>1. p \in SweepPhases
  BY DEF SweepPhases
<1> QED
  BY <1>1, TurnTurns, Turning

LEMMA ListProjectsKeeps ==
  ASSUME IInv, NEW i \in DOMAIN sweeps, ListProjects(i), UNCHANGED consoleVars
  PROVE  IInv'
<1>1. PICK p \in {"read", "over"} : Turn(i, p)
  BY DEF ListProjects
<1>2. sweeps[i].phase = "list" /\ UNCHANGED SweepOnly
  BY DEF ListProjects, Stage
<1> QED
  BY <1>1, <1>2, TurnKeeps

LEMMA EndSweepKeeps ==
  ASSUME IInv, NEW i \in DOMAIN sweeps, EndSweep(i), UNCHANGED consoleVars
  PROVE  IInv'
<1>1. Turn(i, "dead") /\ UNCHANGED SweepOnly
  BY DEF EndSweep
<1> QED
  BY <1>1, TurnKeeps

(* What was captured in two ranges is of stored batches, and of different  *)
(* ones if the ranges are.                                                 *)
LEMMA CapturedFacts ==
  ASSUME IInv, NEW a \in Int, NEW b \in Int, NEW c \in Int
  PROVE  /\ Captured(a, b) \subseteq Batches(requests, Kept(requests))
         /\ Captured(a, b) \in SUBSET Nat
         /\ Captured(a, b) \cap Captured(b, c) = {}
<1>0. ShapeInv /\ RowInv
  BY DEF IInv
<1>1. \A k \in DOMAIN rows : rows[k] \in RowRecords /\ rows[k].at \in Nat /\ rows[k].batch \subseteq Nat
  BY <1>0, Types DEF RowRecords
<1>2. \A k \in DOMAIN rows : rows[k].batch \subseteq Batches(requests, Kept(requests))
  BY <1>0 DEF RowInv, Batches
<1>3. Captured(a, b) \cap Captured(b, c) = {}
  <2> SUFFICES ASSUME NEW x \in Captured(a, b), x \in Captured(b, c) PROVE FALSE
    OBVIOUS
  <2>1. PICK k \in DOMAIN rows : x \in rows[k].batch /\ rows[k].at < b
    BY DEF Captured
  <2>2. PICK l \in DOMAIN rows : x \in rows[l].batch /\ b =< rows[l].at
    BY DEF Captured
  <2>3. k # l
    BY <1>1, <2>1, <2>2
  <2> QED
    BY <1>0, <2>1, <2>2, <2>3 DEF RowInv
<1>4. Captured(a, b) \subseteq Batches(requests, Kept(requests)) /\ Captured(a, b) \in SUBSET Nat
  BY <1>1, <1>2 DEF Captured
<1> QED
  BY <1>3, <1>4

LEMMA ReadWindowsKeeps ==
  ASSUME IInv, NEW i \in DOMAIN sweeps, ReadWindows(i), UNCHANGED consoleVars
  PROVE  IInv'
<1> DEFINE base == Captured(now - 2 * Window, now - Window)
           cand == Captured(now - Window, now)
<1>1. sweeps[i].phase = "read" /\ UNCHANGED SweepOnly
  BY DEF ReadWindows, Stage
<1>2. now - 2 * Window \in Int /\ now - Window \in Int /\ now \in Int
  <2>1. ShapeInv
    BY DEF IInv
  <2> QED
    BY <2>1, Times
<1>3. /\ base \in SUBSET Nat /\ cand \in SUBSET Nat /\ base \cap cand = {}
      /\ base \cup cand \subseteq Batches(requests, Kept(requests))
  BY <1>2, CapturedFacts
<1>4. \/ /\ Enough(base, cand)
         /\ sweeps' = [sweeps EXCEPT ![i] = [@ EXCEPT !.phase = "engine", !.base = base, !.cand = cand]]
      \/ Turn(i, "over")
  BY DEF ReadWindows
<1> HIDE DEF base, cand
<1>5. CASE /\ Enough(base, cand)
           /\ sweeps' = [sweeps EXCEPT ![i] = [@ EXCEPT !.phase = "engine", !.base = base, !.cand = cand]]
  <2> DEFINE s == [sweeps[i] EXCEPT !.phase = "engine", !.base = base, !.cand = cand]
  <2>0. sweeps[i] \in SweepRecords
    BY SweepSays
  <2>1. /\ s.phase = "engine" /\ s.base = base /\ s.cand = cand /\ s.alerts = sweeps[i].alerts
        /\ s.tick = sweeps[i].tick /\ s.began = sweeps[i].began
    BY <2>0 DEF SweepRecords
  <2>2. s \in SweepRecords
    BY <1>3, <2>0 DEF SweepRecords, SweepPhases
  <2>3. sweeps' = [sweeps EXCEPT ![i] = s]
    BY <1>5
  <2> HIDE DEF s
  <2>4. Turns(i, s) /\ Windowed(s, requests) /\ Enough(s.base, s.cand)
    BY <1>3, <1>5, <2>1, <2>2, <2>3 DEF Turns, Windowed
  <2> QED
    BY <1>1, <2>1, <2>4, Turning
<1>6. CASE Turn(i, "over")
  BY <1>1, <1>6, TurnKeeps
<1> QED
  BY <1>4, <1>5, <1>6

LEMMA CompareWindowsKeeps ==
  ASSUME IInv, NEW i \in DOMAIN sweeps, CompareWindows(i), UNCHANGED consoleVars
  PROVE  IInv'
<1>1. sweeps[i].phase = "engine" /\ UNCHANGED SweepOnly
  BY DEF CompareWindows, Stage
<1>2. /\ sweeps[i] \in SweepRecords /\ Windowed(sweeps[i], requests)
      /\ Enough(sweeps[i].base, sweeps[i].cand)
  BY <1>1, SweepSays
<1>3. ASSUME NEW v \in {"warn", "fail"},
             sweeps' = [sweeps EXCEPT ![i] = [@ EXCEPT !.phase = "record", !.verdict = v]]
      PROVE  IInv'
  <2> DEFINE s == [sweeps[i] EXCEPT !.phase = "record", !.verdict = v]
  <2>1. /\ s.phase = "record" /\ s.base = sweeps[i].base /\ s.cand = sweeps[i].cand
        /\ s.alerts = sweeps[i].alerts /\ s.verdict = v
        /\ s.tick = sweeps[i].tick /\ s.began = sweeps[i].began
    BY <1>2 DEF SweepRecords
  <2>2. s \in SweepRecords
    BY <1>2 DEF SweepRecords, SweepPhases
  <2>3. sweeps' = [sweeps EXCEPT ![i] = s]
    BY <1>3
  <2> HIDE DEF s
  <2>4. Turns(i, s) /\ Windowed(s, requests) /\ Enough(s.base, s.cand)
    BY <1>2, <2>1, <2>2, <2>3 DEF Turns, Windowed
  <2> QED
    BY <1>1, <2>1, <2>4, Turning
<1>4. CASE Turn(i, "over")
  BY <1>1, <1>4, TurnKeeps
<1> QED
  BY <1>3, <1>4 DEF CompareWindows

(* What is announced has its run. *)
LEMMA PostDriftKeeps ==
  ASSUME IInv, NEW i \in DOMAIN sweeps, PostDrift(i), UNCHANGED consoleVars
  PROVE  IInv'
<1>1. sweeps[i].phase = "notify" /\ UNCHANGED SweepOnly
  BY DEF PostDrift, Stage
<1>2. sweeps[i] \in SweepRecords /\ Windowed(sweeps[i], requests)
  BY <1>1, SweepSays
<1>3. PICK n \in {0, 1, 2} : sweeps' = [sweeps EXCEPT ![i] = [@ EXCEPT !.phase = "over", !.alerts = n]]
  BY DEF PostDrift, Posts
<1> DEFINE s == [sweeps[i] EXCEPT !.phase = "over", !.alerts = n]
<1>4. /\ s.phase = "over" /\ s.base = sweeps[i].base /\ s.cand = sweeps[i].cand
      /\ s.tick = sweeps[i].tick /\ s.began = sweeps[i].began
  BY <1>2 DEF SweepRecords
<1>8. n \in Nat
  BY <1>3
<1>5. s \in SweepRecords
  BY <1>2, <1>8 DEF SweepRecords, SweepPhases
<1>6. sweeps' = [sweeps EXCEPT ![i] = s]
  BY <1>3
<1> HIDE DEF s
<1>7. Turns(i, s) /\ Windowed(s, requests)
  BY <1>2, <1>4, <1>5, <1>6 DEF Turns, Windowed
<1> QED
  BY <1>1, <1>4, <1>7, Turning

(* A sweep that comes to record has not recorded yet. *)
LEMMA DriftRecorded ==
  ASSUME IInv, NEW i, NEW s, Turns(i, s), sweeps[i].phase = "record", s.phase = "notify",
         s.base = sweeps[i].base, s.cand = sweeps[i].cand, s.alerts = sweeps[i].alerts,
         drifts' = Append(drifts, [sweep |-> i, verdict |-> sweeps[i].verdict, at |-> now]),
         UNCHANGED <<setting, now, trafficVars, rows, accessVars, lease, consoleVars>>
  PROVE  IInv'
<1> DEFINE new == [sweep |-> i, verdict |-> sweeps[i].verdict, at |-> now]
           last == Len(drifts) + 1
<1>0. ShapeInv /\ LeaseInv /\ DriftInv /\ now \in Nat /\ lease \in Nat /\ drifts \in Seq(DriftRecords)
  BY DEF IInv, ShapeInv
<1>1. /\ sweeps' \in Seq(SweepRecords) /\ DOMAIN sweeps' = DOMAIN sweeps
      /\ i \in DOMAIN sweeps /\ sweeps'[i] = s
      /\ \A j \in DOMAIN sweeps : j # i => sweeps'[j] = sweeps[j]
      /\ \A j \in DOMAIN sweeps : sweeps'[j].began = sweeps[j].began
  BY <1>0, TurnFacts
<1>2. i \in Nat
  BY <1>0, <1>1, Members DEF ShapeInv
<1>3. /\ Windowed(s, requests) /\ Enough(s.base, s.cand) /\ sweeps[i].verdict \in {"warn", "fail"}
      /\ \A d \in DOMAIN drifts : drifts[d].sweep # i
      /\ sweeps[i] \in SweepRecords
  BY <1>0, <1>1, SweepSays DEF DriftInv, Windowed
<1>4. new \in DriftRecords /\ new.sweep = i
  BY <1>0, <1>2, <1>3 DEF DriftRecords
<1> HIDE DEF new
<1>5. /\ drifts' \in Seq(DriftRecords) /\ DOMAIN drifts' = DOMAIN drifts \cup {last}
      /\ last \notin DOMAIN drifts
      /\ drifts'[last] = new /\ \A d \in DOMAIN drifts : drifts'[d] = drifts[d]
  BY <1>0, <1>4, Inserting DEF new
<1> HIDE DEF last
<1>6. UNCHANGED <<requests, now, lease>> /\ now' \in Nat /\ now =< now' /\ lease' \in Nat
  BY <1>0 DEF trafficVars
<1>7. LeaseInv'
  BY <1>0, <1>1, <1>6, LeaseFrame
<1>8. ASSUME NEW d \in DOMAIN drifts'
      PROVE  /\ drifts'[d].sweep \in DOMAIN sweeps'
             /\ Enough(sweeps'[drifts'[d].sweep].base, sweeps'[drifts'[d].sweep].cand)
             /\ sweeps'[drifts'[d].sweep].phase \in {"notify", "over", "dead"}
  <2>1. CASE d = last
    BY <1>1, <1>3, <1>4, <1>5, <2>1
  <2>2. CASE d # last
    <3>1. d \in DOMAIN drifts /\ drifts'[d] = drifts[d] /\ drifts[d].sweep # i
      BY <1>3, <1>5, <2>2
    <3> QED
      BY <1>0, <1>1, <3>1 DEF DriftInv
  <2> QED
    BY <2>1, <2>2
<1>9. ASSUME NEW j \in DOMAIN sweeps
      PROVE  /\ Windowed(sweeps'[j], requests)
             /\ sweeps'[j].phase \in {"engine", "record", "notify"} =>
                   Enough(sweeps'[j].base, sweeps'[j].cand)
             /\ sweeps'[j].phase = "record" => sweeps'[j].verdict \in {"warn", "fail"}
             /\ sweeps'[j].phase = "notify" \/ sweeps'[j].alerts > 0 =>
                   \E d \in DOMAIN drifts' : drifts'[d].sweep = j
  <2>1. CASE j = i
    BY <1>1, <1>3, <1>4, <1>5, <2>1
  <2>2. CASE j # i
    BY <1>0, <1>1, <1>5, <2>2 DEF DriftInv
  <2> QED
    BY <2>1, <2>2
<1>10. \A d, e \in DOMAIN drifts' : drifts'[d].sweep = drifts'[e].sweep => d = e
  BY <1>0, <1>3, <1>4, <1>5 DEF DriftInv
<1>11. DriftInv'
  BY <1>1, <1>6, <1>8, <1>9, <1>10 DEF DriftInv
<1> QED
  BY <1>1, <1>5, <1>6, <1>7, <1>11, CronStep

LEMMA RecordDriftKeeps ==
  ASSUME IInv, NEW i \in DOMAIN sweeps, RecordDrift(i), UNCHANGED consoleVars
  PROVE  IInv'
<1>1. /\ sweeps[i].phase = "record"
      /\ UNCHANGED <<setting, now, trafficVars, rows, accessVars, lease>>
  BY DEF RecordDrift, Stage
<1>2. CASE project
  <2>1. /\ drifts' = Append(drifts, [sweep |-> i, verdict |-> sweeps[i].verdict, at |-> now])
        /\ Turn(i, "notify")
    BY <1>2 DEF RecordDrift
  <2>2. "notify" \in SweepPhases
    BY DEF SweepPhases
  <2>3. PICK s : /\ Turns(i, s) /\ s.phase = "notify" /\ s.base = sweeps[i].base
                 /\ s.cand = sweeps[i].cand /\ s.alerts = sweeps[i].alerts
    BY <2>1, <2>2, TurnTurns
  <2> QED
    BY <1>1, <2>1, <2>3, DriftRecorded
<1>3. CASE ~project
  <2>1. Turn(i, "over") /\ UNCHANGED SweepOnly
    BY <1>1, <1>3 DEF RecordDrift, SweepOnly
  <2> QED
    BY <2>1, TurnKeeps
<1> QED
  BY <1>2, <1>3

(* Retention takes what no window and no property asks for any more. *)
LEMMA CleanupRetentionKeeps ==
  ASSUME IInv, CleanupRetention, UNCHANGED consoleVars
  PROVE  IInv'
<1>0. /\ ShapeInv /\ BoundInv /\ RequestInv /\ SendInv /\ WaitInv /\ RowInv /\ MeterInv
      /\ LeaseInv /\ DriftInv /\ NonceInv /\ SlackInv /\ RevocationTold
  BY DEF IInv
<1>1. UNCHANGED <<setting, now, recorded, buffer, requests, hits, expires, usage, project, revoked, slack,
                  lease, sweeps, drifts, trafficVars, accessVars, cronVars>>
  BY DEF CleanupRetention, trafficVars, collectorVars, limiterVars, accessVars, cronVars
<1>2. /\ rows \in Seq(RowRecords) /\ now \in Nat /\ now' = now
      /\ \A k \in DOMAIN rows : rows[k] \in RowRecords /\ rows[k].at \in Nat
  BY <1>0, <1>1, Types DEF ShapeInv, RowRecords
<1>3. /\ DOMAIN rows' = DOMAIN rows
      /\ \A k \in DOMAIN rows :
            rows'[k] = IF PastRetention(rows[k]) THEN [rows[k] EXCEPT !.batch = {}] ELSE rows[k]
  BY DEF CleanupRetention
<1>4. ASSUME NEW k \in DOMAIN rows
      PROVE  /\ rows'[k] \in RowRecords /\ rows'[k].at = rows[k].at
             /\ rows'[k].batch = rows[k].batch \/ rows'[k].batch = {}
             /\ rows[k].at >= now - Retention => rows'[k] = rows[k]
  <2>1. CASE PastRetention(rows[k])
    <3>1. rows'[k] = [rows[k] EXCEPT !.batch = {}]
      BY <1>3, <2>1
    <3>2. ~(rows[k].at >= now - Retention)
      BY <1>2, <2>1, TimeAssumption DEF PastRetention
    <3> QED
      BY <1>2, <3>1, <3>2 DEF RowRecords
  <2>2. CASE ~PastRetention(rows[k])
    BY <1>2, <1>3, <2>2
  <2> QED
    BY <2>1, <2>2
<1>5. rows' \in Seq(RowRecords)
  <2>1. DOMAIN rows = 1 .. Len(rows) /\ Len(rows) \in Nat
    BY <1>2, LenProperties
  <2>2. rows' = [k \in DOMAIN rows |-> rows'[k]]
    BY DEF CleanupRetention
  <2>3. rows' \in [1 .. Len(rows) -> RowRecords]
    BY <1>4, <2>1, <2>2
  <2> QED
    BY <2>1, <2>3, SeqDef
<1>6. ShapeInv' /\ BoundInv'
  BY <1>0, <1>1, <1>5 DEF ShapeInv, BoundInv, consoleVars
<1>7. RowInv'
  <2>1. \A k \in DOMAIN rows' :
            /\ rows'[k].at =< now'
            /\ rows'[k].batch # {} => \E i \in Kept(requests) : rows'[k].batch = requests[i].batch
    BY <1>0, <1>2, <1>3, <1>4 DEF RowInv
  <2>2. \A k, l \in DOMAIN rows' : k # l => rows'[k].batch \cap rows'[l].batch = {}
    BY <1>0, <1>3, <1>4 DEF RowInv
  <2>3. ASSUME project, NEW i \in Kept(requests), requests[i].stored >= now - Retention
        PROVE  \E k \in DOMAIN rows' : rows'[k].batch = requests[i].batch /\ rows'[k].at = requests[i].stored
    <3>1. PICK k \in DOMAIN rows : rows[k].batch = requests[i].batch /\ rows[k].at = requests[i].stored
      BY <1>0, <2>3 DEF RowInv
    <3>2. rows'[k] = rows[k]
      BY <1>4, <2>3, <3>1
    <3> QED
      BY <1>3, <3>1, <3>2
  <2> QED
    BY <1>1, <2>1, <2>2, <2>3 DEF RowInv
<1>8. now' \in Nat /\ now =< now'
  BY <1>2
<1>9. RequestInv' /\ SendInv' /\ WaitInv' /\ MeterInv'
  BY <1>0, <1>1, <1>8, TrafficFrame DEF Closed
<1>10. LeaseInv' /\ DriftInv' /\ NonceInv' /\ SlackInv' /\ RevocationTold'
  BY <1>0, <1>1, OthersFrame
<1> QED
  BY <1>6, <1>7, <1>9, <1>10 DEF IInv

LEMMA TickKeeps ==
  ASSUME IInv, Tick, UNCHANGED consoleVars
  PROVE  IInv'
<1>0. /\ ShapeInv /\ BoundInv /\ RequestInv /\ SendInv /\ WaitInv /\ RowInv /\ MeterInv
      /\ LeaseInv /\ DriftInv /\ NonceInv /\ SlackInv /\ RevocationTold
  BY DEF IInv
<1>1. /\ now < setting.time /\ now' = now + 1
      /\ UNCHANGED <<setting, recorded, buffer, requests, hits, expires, usage, rows, project, revoked, slack,
                     lease, sweeps, drifts, trafficVars, accessVars, cronVars>>
  BY DEF Tick, trafficVars, collectorVars, limiterVars, accessVars, cronVars
<1>2. now' \in Nat /\ now =< now' /\ now' =< setting.time
  BY <1>0, <1>1, TrafficSettings DEF ShapeInv
<1>3. ShapeInv' /\ BoundInv'
  BY <1>0, <1>1, <1>2 DEF ShapeInv, BoundInv, consoleVars
<1>4. RequestInv' /\ SendInv' /\ WaitInv' /\ MeterInv'
  BY <1>0, <1>1, <1>2, TrafficFrame DEF Closed
<1>5. RowInv'
  BY <1>0, <1>1, <1>2, RowFrame
<1>6. LeaseInv'
  BY <1>0, <1>1, <1>2, LeaseFrame
<1>7. DriftInv'
  BY <1>0, <1>1, DriftFrame
<1>8. NonceInv' /\ SlackInv' /\ RevocationTold'
  BY <1>0, <1>1, ConsoleFrame
<1> QED
  BY <1>3, <1>4, <1>5, <1>6, <1>7, <1>8 DEF IInv

LEMMA LiveKeeps ==
  ASSUME IInv, LiveNext, UNCHANGED consoleVars
  PROVE  IInv'
<1> QED
  BY TrafficKeeps, CheckDriftAllKeeps, ListProjectsKeeps, ReadWindowsKeeps, CompareWindowsKeeps,
     RecordDriftKeeps, PostDriftKeeps, EndSweepKeeps, CleanupRetentionKeeps, TickKeeps
     DEF LiveNext, CronNext
-----------------------------------------------------------------------------
(* The console. *)

ConsoleShape ==
    /\ project \in BOOLEAN /\ revoked \in BOOLEAN
    /\ slack \in Bindings(setting.admins)
    /\ admins \in [setting.admins -> AdminRecords]
    /\ callbacks \in [Callbacks -> CallbackRecords(setting.admins)]
    /\ users \in BOOLEAN
    /\ nonces \subseteq setting.admins
    /\ minted \in Nat /\ lastRow \in Nat
    /\ audit \subseteq AuditRecords(setting.admins) /\ IsFiniteSet(audit)

LEMMA ConsoleStep ==
  ASSUME IInv, UNCHANGED <<setting, now, trafficVars, cronVars>>, ConsoleShape', Closed => Closed',
         rows' \in Seq(RowRecords), RowInv', NonceInv', SlackInv', RevocationTold'
  PROVE  IInv'
<1>0. /\ ShapeInv /\ BoundInv /\ RequestInv /\ SendInv /\ WaitInv /\ MeterInv
      /\ LeaseInv /\ DriftInv
  BY DEF IInv
<1>1. UNCHANGED <<recorded, buffer, requests, hits, expires, usage, lease, sweeps, drifts>>
  BY DEF trafficVars, collectorVars, limiterVars, cronVars
<1>2. ShapeInv' /\ BoundInv'
  BY <1>0, <1>1 DEF ShapeInv, BoundInv, ConsoleShape
<1>3. now' \in Nat /\ now =< now'
  BY <1>0 DEF ShapeInv
<1>4. RequestInv' /\ SendInv' /\ WaitInv' /\ MeterInv'
  BY <1>0, <1>1, <1>3, TrafficFrame
<1>5. LeaseInv'
  BY <1>0, <1>1, <1>3, LeaseFrame
<1>6. DriftInv'
  BY <1>0, <1>1, DriftFrame
<1> QED
  BY <1>2, <1>4, <1>5, <1>6 DEF IInv

(* A request of a member that goes on; one that is done stays so.          *)
Steps(a, m) ==
    /\ a \in setting.admins /\ m \in AdminRecords
    /\ admins[a].phase # "done"
    /\ Op(a) = "disconnect" => m.saw =< lastRow
    /\ m.phase = "state" => Op(a) = "install"
    /\ admins' = [admins EXCEPT ![a] = m]

LEMMA StepFacts ==
  ASSUME ShapeInv, NEW a, NEW m, Steps(a, m)
  PROVE  /\ admins' \in [setting.admins -> AdminRecords] /\ a \in setting.admins
         /\ admins'[a] = m
         /\ \A b \in setting.admins : b # a => admins'[b] = admins[b]
         /\ \A b \in setting.admins : admins[b].phase = "done" => b # a /\ admins'[b].phase = "done"
         /\ m.phase = "state" => Op(a) = "install"
<1> QED
  BY DEF ShapeInv, Steps

LEMMA GoesSteps ==
  ASSUME IInv, NEW a, NEW from, Ready(a, from), from # "done",
         NEW p \in AdminPhases, p # "state", Goes(a, p)
  PROVE  \E m : Steps(a, m) /\ m.phase = p /\ m.saw = admins[a].saw
<1> DEFINE m == [admins[a] EXCEPT !.phase = p]
<1>1. a \in setting.admins /\ admins[a].phase = from /\ admins[a] \in AdminRecords
  BY DEF IInv, ShapeInv, Ready
<1>2. m.phase = p /\ m.saw = admins[a].saw /\ m \in AdminRecords
  BY <1>1 DEF AdminRecords
<1>3. admins' = [admins EXCEPT ![a] = m]
  BY DEF Goes
<1> HIDE DEF m
<1>4. Op(a) = "disconnect" => admins[a].saw =< lastRow
  BY <1>1 DEF IInv, SlackInv
<1> QED
  BY <1>1, <1>2, <1>3, <1>4 DEF Steps

LEMMA NonceStays ==
  ASSUME ShapeInv, NonceInv, UNCHANGED <<setting, nonces, callbacks>>,
         \A b \in setting.admins : admins[b].phase = "done" => admins'[b].phase = "done",
         \A b \in setting.admins : admins'[b].phase = "state" => Op(b) = "install"
  PROVE  NonceInv'
<1> QED
  BY DEF NonceInv, Op, ShapeInv

(* The trail only grows. *)
LEMMA Telling ==
  ASSUME IInv, UNCHANGED setting, NEW e \in AuditRecords(setting.admins), audit' = audit \cup {e},
         \A b \in setting.admins : admins[b].phase = "done" => admins'[b].phase = "done",
         e.what # "connected" => admins'[e.of].phase = "done" /\ admins[e.of].phase # "done",
         revoked' <=> revoked \/ e.what = "revoked",
         ~project' <=> ~project \/ e.what = "deleted",
         minted' = IF e.what = "minted" THEN minted + 1 ELSE minted
  PROVE  /\ RevocationTold' /\ minted' \in Nat
         /\ audit' \subseteq AuditRecords(setting.admins) /\ IsFiniteSet(audit')
<1> DEFINE Entry(au, w) == {f \in au : f.what = w}
           E == Entry(audit, "minted")
           E2 == Entry(audit', "minted")
<1>0. /\ RevocationTold /\ ShapeInv /\ audit \subseteq AuditRecords(setting.admins)
      /\ IsFiniteSet(audit) /\ minted \in Nat
  BY DEF IInv, ShapeInv
<1>1. /\ revoked <=> Entry(audit, "revoked") # {}
      /\ ~project <=> Entry(audit, "deleted") # {}
      /\ minted = Cardinality(E)
      /\ \A f \in audit : f.what # "connected" => admins[f.of].phase = "done"
  BY <1>0 DEF RevocationTold, Entries
<1>2. \A w : Entry(audit', w) = IF w = e.what THEN Entry(audit, w) \cup {e} ELSE Entry(audit, w)
  OBVIOUS
<1>3. revoked' <=> Entry(audit', "revoked") # {}
  BY <1>1, <1>2
<1>4. ~project' <=> Entry(audit', "deleted") # {}
  BY <1>1, <1>2
<1>5. IsFiniteSet(E)
  <2>1. E \in SUBSET audit
    OBVIOUS
  <2> QED
    BY <1>0, <2>1, FS_Subset
<1>6. e.what = "minted" => e \notin E
  BY <1>1
<1>7. E2 = IF e.what = "minted" THEN E \cup {e} ELSE E
  BY <1>2
<1>8. minted' = Cardinality(E2)
  <2> HIDE DEF E, E2
  <2>1. e \notin E => Cardinality(E \cup {e}) = Cardinality(E) + 1
    BY <1>5, FS_AddElement
  <2> QED
    BY <1>1, <1>6, <1>7, <2>1
<1>9. \A f \in audit' : f.what # "connected" => admins'[f.of].phase = "done"
  <2> SUFFICES ASSUME NEW f \in audit', f.what # "connected" PROVE admins'[f.of].phase = "done"
    OBVIOUS
  <2>1. CASE f = e
    BY <2>1
  <2>2. CASE f \in audit
    <3>1. f.of \in setting.admins /\ admins[f.of].phase = "done"
      BY <1>0, <1>1, <2>2, Types
    <3> QED
      BY <3>1
  <2> QED
    BY <2>1, <2>2
<1>10. minted' \in Nat /\ IsFiniteSet(audit') /\ audit' \subseteq AuditRecords(setting.admins)
  BY <1>0, FS_AddElement
<1> HIDE DEF E
<1> QED
  BY <1>3, <1>4, <1>8, <1>9, <1>10 DEF RevocationTold, Entries

LEMMA SlackStays ==
  ASSUME IInv, UNCHANGED <<setting, slack, lastRow, audit>>, project' => project,
         \A a \in setting.admins : Op(a) = "disconnect" => admins'[a].saw =< lastRow,
         \A a \in setting.admins : admins[a].phase = "done" => admins'[a].phase = "done",
         \A c \in Callbacks : callbacks[c].phase = "done" =>
             callbacks'[c].phase = "done" /\ callbacks'[c].state = callbacks[c].state
  PROVE  SlackInv'
<1>1. SlackInv /\ \A e \in audit : e.by \in setting.admins
  BY Types DEF IInv
<1>2. \A e \in audit : Connected(e) => Connector(e, admins', callbacks')
  BY <1>1 DEF SlackInv, Connector, Op
<1> QED
  BY <1>1, <1>2 DEF SlackInv, Op, Connector

(* A request of a member that goes on without a row of the trail. *)
LEMMA AdminKeeps ==
  ASSUME IInv, NEW a, NEW m, Steps(a, m), users' \in BOOLEAN,
         \/ nonces' = nonces
         \/ nonces' = nonces \cup {a} /\ Op(a) = "install" /\ m.phase = "done",
         LiveUnchanged, UNCHANGED <<accessVars, callbacks, minted, lastRow, audit>>
  PROVE  IInv'
<1>0. /\ ShapeInv /\ RequestInv /\ RowInv /\ NonceInv /\ SlackInv /\ RevocationTold
  BY DEF IInv
<1>1. /\ UNCHANGED <<setting, now, trafficVars, rows, cronVars, project, revoked, slack, requests>>
  BY DEF LiveUnchanged, accessVars, trafficVars
<1>2. /\ admins' \in [setting.admins -> AdminRecords] /\ a \in setting.admins
      /\ admins'[a] = m
      /\ \A b \in setting.admins : b # a => admins'[b] = admins[b]
      /\ \A b \in setting.admins : admins[b].phase = "done" => b # a /\ admins'[b].phase = "done"
  BY <1>0, StepFacts
<1>3. \A b \in setting.admins : Op(b) = "disconnect" => admins'[b].saw =< lastRow
  BY <1>0, <1>2 DEF SlackInv, Steps
<1>4. SlackInv'
  BY <1>1, <1>2, <1>3, SlackStays
<1>5. NonceInv'
  <2>3. \A b \in setting.admins : admins'[b].phase = "state" => Op(b) = "install"
    BY <1>0, <1>2, StepFacts DEF NonceInv
  <2>1. CASE nonces' = nonces
    BY <1>0, <1>1, <1>2, <2>1, <2>3, NonceStays
  <2>2. CASE nonces' = nonces \cup {a} /\ Op(a) = "install" /\ m.phase = "done"
    <3>1. \A b \in nonces' : Op(b) = "install" /\ admins'[b].phase = "done"
      BY <1>0, <1>2, <2>2 DEF NonceInv, ShapeInv
    <3>2. \A c \in Callbacks : callbacks[c].phase # "none" =>
              /\ callbacks[c].state \in setting.admins /\ callbacks[c].state # a
              /\ Op(callbacks[c].state) = "install" /\ admins'[callbacks[c].state].phase = "done"
      BY <1>0, <1>2 DEF NonceInv
    <3>3. \A c \in Callbacks : callbacks[c].phase \in Holding => callbacks[c].state \notin nonces'
      BY <1>0, <2>2, <3>2 DEF NonceInv, Holding
    <3> QED
      BY <1>0, <1>1, <2>3, <3>1, <3>2, <3>3 DEF NonceInv, Op
  <2> QED
    BY <2>1, <2>2
<1>6. RevocationTold'
  <2>1. \A e \in audit : e.what # "connected" => e.of \in setting.admins
    BY <1>0, Types
  <2> QED
    BY <1>0, <1>1, <1>2, <2>1 DEF RevocationTold, Entries
<1>7. ConsoleShape'
  BY <1>0, <1>1, <1>2 DEF ShapeInv, ConsoleShape
<1>8. RowInv' /\ rows' \in Seq(RowRecords)
  BY <1>0, <1>1 DEF RowInv, ShapeInv
<1> QED
  BY <1>1, <1>4, <1>5, <1>6, <1>7, <1>8, ConsoleStep DEF Closed

LEMMA LoadUserKeeps ==
  ASSUME IInv, NEW a, LoadUser(a)
  PROVE  IInv'
<1>1. PICK p \in {"read", "user"} : Goes(a, p)
  BY DEF LoadUser
<1>2. /\ Ready(a, "context") /\ users' \in BOOLEAN
      /\ nonces' = nonces /\ LiveUnchanged /\ UNCHANGED <<accessVars, callbacks, minted, lastRow, audit>>
  BY DEF LoadUser, IInv, ShapeInv
<1>3. p \in AdminPhases
  BY <1>1 DEF AdminPhases
<1> QED
  BY <1>1, <1>2, <1>3, GoesSteps, AdminKeeps

LEMMA InsertUserKeeps ==
  ASSUME IInv, NEW a, InsertUser(a)
  PROVE  IInv'
<1>1. PICK p \in {"read", "failed"} : Goes(a, p)
  BY DEF InsertUser
<1>2. /\ Ready(a, "user") /\ users' \in BOOLEAN
      /\ nonces' = nonces /\ LiveUnchanged /\ UNCHANGED <<accessVars, callbacks, minted, lastRow, audit>>
  BY DEF InsertUser
<1>3. p \in AdminPhases
  BY <1>1 DEF AdminPhases
<1> QED
  BY <1>1, <1>2, <1>3, GoesSteps, AdminKeeps

LEMMA ChildrenType ==
  ASSUME ShapeInv
  PROVE  Children \in Nat
<1>1. drifts \in Seq(DriftRecords) /\ minted \in Nat /\ lastRow \in Nat
  BY DEF ShapeInv
<1>2. Len(drifts) \in Nat
  BY <1>1, LenProperties
<1>3. IsFiniteSet(DOMAIN requests) /\ Stored \in SUBSET (DOMAIN requests)
  BY RequestPlaces DEF Stored
<1>4. Cardinality(Stored) \in Nat
  BY <1>3, FS_Subset, FS_CardinalityType
<1> QED
  BY <1>1, <1>2, <1>4 DEF Children

LEMMA ReadProjectKeeps ==
  ASSUME IInv, NEW a, ReadProject(a)
  PROVE  IInv'
<1>0. ShapeInv /\ SlackInv /\ lastRow \in Nat /\ slack \in Bindings(setting.admins)
  BY DEF IInv, ShapeInv
<1>1. /\ a \in setting.admins /\ admins[a].phase = "read" /\ users' \in BOOLEAN
      /\ nonces' = nonces /\ LiveUnchanged /\ UNCHANGED <<accessVars, callbacks, minted, lastRow, audit>>
  BY <1>0 DEF ReadProject, Ready, ShapeInv
<1>2. Children \in Nat
  BY <1>0, ChildrenType
<1>3. slack.row \in Nat /\ slack.row =< lastRow
  BY <1>0 DEF SlackInv, NoConfig, Bindings
<1> DEFINE phase == IF ~project THEN "failed"
                    ELSE IF Op(a) = "install" THEN "state"
                    ELSE IF \/ Op(a) = "revoke" /\ revoked
                            \/ Op(a) = "disconnect" /\ slack = NoConfig THEN "done"
                    ELSE "commit"
           saw == IF Op(a) = "delete" THEN Children ELSE slack.row
           m == [phase |-> phase, saw |-> saw]
<1>9. phase = "state" => Op(a) = "install"
  OBVIOUS
<1>4. admins' = [admins EXCEPT ![a] = m]
  BY Zenon DEF ReadProject
<1>5. phase \in AdminPhases
  BY DEF AdminPhases
<1>6. saw \in Nat /\ (Op(a) = "disconnect" => saw =< lastRow)
  BY <1>2, <1>3
<1> HIDE DEF phase, saw
<1>7. m \in AdminRecords /\ m.saw = saw /\ m.phase = phase
  BY <1>5, <1>6 DEF AdminRecords
<1> HIDE DEF m
<1>8. Steps(a, m)
  BY <1>1, <1>4, <1>6, <1>7, <1>9 DEF Steps
<1> QED
  BY <1>1, <1>8, AdminKeeps

LEMMA SlackInstallKeeps ==
  ASSUME IInv, NEW a, SlackInstall(a)
  PROVE  IInv'
<1>0. Op(a) = "install"
  BY DEF SlackInstall, Ready, IInv, NonceInv
<1>1. PICK p \in {"done", "failed"} :
          /\ Goes(a, p)
          /\ nonces' = nonces \/ (nonces' = nonces \cup {a} /\ p = "done")
  BY DEF SlackInstall
<1>2. /\ Ready(a, "state") /\ users' \in BOOLEAN
      /\ LiveUnchanged /\ UNCHANGED <<accessVars, callbacks, minted, lastRow, audit>>
  BY DEF SlackInstall, IInv, ShapeInv
<1>3. p \in AdminPhases
  BY <1>1 DEF AdminPhases
<1>4. PICK m : Steps(a, m) /\ m.phase = p
  BY <1>1, <1>2, <1>3, GoesSteps
<1> QED
  BY <1>0, <1>1, <1>2, <1>4, AdminKeeps

(* What is done stays done, and what was read was there. *)
Onward ==
    /\ \A a \in setting.admins : admins[a].phase = "done" => admins'[a].phase = "done"
    /\ \A a \in setting.admins : Op(a) = "disconnect" => admins'[a].saw =< lastRow
    /\ \A c \in Callbacks : callbacks[c].phase = "done" =>
          callbacks'[c].phase = "done" /\ callbacks'[c].state = callbacks[c].state

LEMMA StepOnward ==
  ASSUME IInv, NEW a, NEW m, Steps(a, m), UNCHANGED callbacks
  PROVE  Onward
<1>1. ShapeInv /\ SlackInv
  BY DEF IInv
<1>2. /\ a \in setting.admins /\ admins'[a] = m
      /\ \A b \in setting.admins : b # a => admins'[b] = admins[b]
      /\ \A b \in setting.admins : admins[b].phase = "done" => b # a /\ admins'[b].phase = "done"
  BY <1>1, StepFacts
<1>3. \A b \in setting.admins : Op(b) = "disconnect" => admins'[b].saw =< lastRow
  BY <1>1, <1>2 DEF SlackInv, Steps
<1> QED
  BY <1>2, <1>3 DEF Onward

LEMMA Grown ==
  ASSUME IInv, Onward, UNCHANGED setting
  PROVE  /\ \A e \in audit : e.row \in Nat /\ (Connected(e) => Connector(e, admins', callbacks'))
         /\ lastRow \in Nat
<1>0. ShapeInv /\ SlackInv /\ lastRow \in Nat
  BY DEF IInv, ShapeInv
<1>1. \A e \in audit : e.by \in setting.admins /\ e.row \in Nat
  BY <1>0, Types
<1>2. \A e \in audit : Connected(e) => Connector(e, admins', callbacks')
  BY <1>0, <1>1 DEF SlackInv, Onward, Connector, Op
<1> QED
  BY <1>0, <1>1, <1>2

(* A row of the trail that is not about Slack. *)
LEMMA SlackTold ==
  ASSUME IInv, Onward, UNCHANGED <<setting, lastRow>>,
         ((project' = FALSE /\ slack' = NoConfig) \/ UNCHANGED <<project, slack>>),
         NEW e \in AuditRecords(setting.admins), e.what \notin {"connected", "disconnected"}, e.row = 0,
         audit' = audit \cup {e}
  PROVE  SlackInv'
<1>1. \A f \in audit : Connected(f) => Connector(f, admins', callbacks')
  BY Grown
<1>2. SlackInv /\ lastRow \in Nat
  BY DEF IInv, ShapeInv
<1>3. ~Connected(e) /\ ~Disconnected(e) /\ e.row =< lastRow
  BY <1>2 DEF Connected, Disconnected
<1>4. \A a \in setting.admins : Op(a) = "disconnect" => admins'[a].saw =< lastRow
  BY DEF Onward
<1> QED
  BY <1>1, <1>2, <1>3, <1>4 DEF SlackInv, Op, Connector

(* A disconnection of the row that was read. *)
LEMMA SlackGone ==
  ASSUME IInv, Onward, UNCHANGED <<setting, lastRow>>, project' = project,
         NEW e \in AuditRecords(setting.admins), e.what = "disconnected", e.row =< lastRow,
         slack' = IF slack.row = e.row THEN NoConfig ELSE slack,
         audit' = audit \cup {e}
  PROVE  SlackInv'
<1>1. \A f \in audit : Connected(f) => Connector(f, admins', callbacks')
  BY Grown
<1>2. SlackInv
  BY DEF IInv
<1>3. ~Connected(e) /\ Disconnected(e)
  BY DEF Connected, Disconnected
<1>4. \A a \in setting.admins : Op(a) = "disconnect" => admins'[a].saw =< lastRow
  BY DEF Onward
<1>5. slack' # NoConfig => slack' = slack /\ slack.row # e.row
  OBVIOUS
<1>6. \A f \in audit' : slack' # NoConfig /\ Disconnected(f) => f.row # slack'.row
  BY <1>2, <1>5 DEF SlackInv
<1>7. ASSUME project, NEW f \in audit', Connected(f), f.row # slack'.row
      PROVE  \E g \in audit' : Disconnected(g) /\ g.row = f.row
  <2>1. f \in audit
    BY <1>3, <1>7
  <2>2. CASE f.row = e.row
    BY <1>3, <2>2
  <2>3. CASE f.row # e.row
    <3>1. f.row # slack.row
      BY <1>7, <2>3
    <3> QED
      BY <1>2, <1>7, <2>1, <3>1 DEF SlackInv
  <2> QED
    BY <2>2, <2>3
<1>8. slack' # NoConfig => \E f \in audit' : Connected(f) /\ f.by = slack'.by /\ f.row = slack'.row
  BY <1>2, <1>5 DEF SlackInv
<1>9. \A f \in audit' :
          f.row =< lastRow /\ (Connected(f) => f.row # 0 /\ Connector(f, admins', callbacks'))
  BY <1>1, <1>2, <1>3 DEF SlackInv
<1>10. slack' = NoConfig \/ (slack'.row \in 1 .. lastRow /\ slack'.by \in setting.admins)
  BY <1>2, <1>5 DEF SlackInv
<1>11. \A f, g \in audit' : Connected(f) /\ Connected(g) /\ f.by = g.by => f = g
  BY <1>2, <1>3 DEF SlackInv
<1> QED
  BY <1>4, <1>6, <1>7, <1>8, <1>9, <1>10, <1>11 DEF SlackInv, Op, Connector

(* A connection, of the row that was read or of a new one. *)
LEMMA SlackBound ==
  ASSUME IInv, Onward, UNCHANGED setting, project, project' = project,
         admins' \in [setting.admins -> AdminRecords],
         NEW by \in setting.admins, NEW saw, saw = slack.row,
         lastRow' = IF saw = 0 THEN lastRow + 1 ELSE lastRow,
         slack' = [row |-> IF saw = 0 THEN lastRow' ELSE saw, by |-> by],
         NEW e \in AuditRecords(setting.admins), e.what = "connected", e.by = by, e.row = slack'.row,
         audit' = audit \cup {e},
         \A f \in audit : Connected(f) => f.by # by,
         \/ Op(by) = "configure" /\ admins'[by].phase = "done"
         \/ \E c \in Callbacks : callbacks'[c].phase = "done" /\ callbacks'[c].state = by
  PROVE  SlackInv'
<1>1. /\ \A f \in audit : f.row \in Nat /\ (Connected(f) => Connector(f, admins', callbacks'))
      /\ lastRow \in Nat
  BY Grown
<1>2. SlackInv
  BY DEF IInv
<1>3. (slack = NoConfig /\ slack.row = 0) \/ (slack # NoConfig /\ slack.row \in 1 .. lastRow)
  <2>1. slack = NoConfig \/ slack.row \in 1 .. lastRow
    BY <1>2 DEF SlackInv
  <2>2. NoConfig.row = 0
    BY DEF NoConfig
  <2> QED
    BY <2>1, <2>2
<1>4. Connected(e) /\ ~Disconnected(e) /\ Connector(e, admins', callbacks')
  BY DEF Connected, Disconnected, Connector
<1>5. /\ slack'.row \in 1 .. lastRow' /\ slack'.by = by /\ lastRow =< lastRow' /\ lastRow' \in Nat
      /\ slack.row = 0 => slack'.row = lastRow + 1
      /\ slack.row # 0 => slack'.row = slack.row
  BY <1>1, <1>3
<1>6. \A a \in setting.admins : Op(a) = "disconnect" => admins'[a].saw =< lastRow'
  <2> SUFFICES ASSUME NEW a \in setting.admins, Op(a) = "disconnect" PROVE admins'[a].saw =< lastRow'
    OBVIOUS
  <2>1. admins'[a].saw =< lastRow
    BY DEF Onward
  <2>2. admins'[a].saw \in Nat
    BY DEF AdminRecords
  <2> QED
    BY <1>1, <1>5, <2>1, <2>2
<1>7. \A f \in audit : f.row \in Nat /\ f.row =< lastRow /\ (Connected(f) => f.row # 0)
  BY <1>1, <1>2 DEF SlackInv
<1>8. \A f \in audit' :
          f.row =< lastRow' /\ (Connected(f) => f.row # 0 /\ Connector(f, admins', callbacks'))
  <2>1. \A f \in audit : f.row =< lastRow'
    BY <1>1, <1>5, <1>7
  <2>2. e.row =< lastRow' /\ e.row # 0
    BY <1>5
  <2> QED
    BY <1>1, <1>4, <1>7, <2>1, <2>2
<1>9. \A f, g \in audit' : Connected(f) /\ Connected(g) /\ f.by = g.by => f = g
  BY <1>2 DEF SlackInv
<1>10. \E f \in audit' : Connected(f) /\ f.by = slack'.by /\ f.row = slack'.row
  BY <1>4, <1>5
<1>11. ASSUME NEW f \in audit', Disconnected(f)
       PROVE  f.row # slack'.row
  <2>1. f \in audit
    BY <1>4, <1>11
  <2>2. CASE slack.row = 0
    BY <1>1, <1>5, <1>7, <2>1, <2>2
  <2>3. CASE slack.row # 0
    BY <1>2, <1>3, <1>5, <1>11, <2>1, <2>3 DEF SlackInv
  <2> QED
    BY <2>2, <2>3
<1>12. ASSUME NEW f \in audit', Connected(f), f.row # slack'.row
       PROVE  \E g \in audit' : Disconnected(g) /\ g.row = f.row
  <2>1. f \in audit
    BY <1>12
  <2>2. f.row # slack.row
    BY <1>5, <1>7, <1>12, <2>1
  <2> QED
    BY <1>2, <1>12, <2>1, <2>2 DEF SlackInv
<1>13. slack'.by \in setting.admins
  BY <1>5
<1> QED
  BY <1>5, <1>6, <1>8, <1>9, <1>10, <1>11, <1>12, <1>13 DEF SlackInv, Op, Connector

(* What a member commits, with its row of the trail. *)
LEMMA CommitTold ==
  ASSUME IInv, NEW a, NEW m, Steps(a, m), m.phase = "done",
         NEW e \in AuditRecords(setting.admins), e.of = a, audit' = audit \cup {e},
         UNCHANGED <<setting, now, trafficVars, cronVars, callbacks, users, nonces>>,
         revoked' <=> revoked \/ e.what = "revoked",
         ~project' <=> ~project \/ e.what = "deleted",
         minted' = IF e.what = "minted" THEN minted + 1 ELSE minted,
         revoked' \in BOOLEAN, project' \in BOOLEAN, slack' \in Bindings(setting.admins), lastRow' \in Nat,
         rows' \in Seq(RowRecords), RowInv', SlackInv'
  PROVE  IInv'
<1>0. /\ ShapeInv /\ NonceInv /\ project \in BOOLEAN /\ revoked \in BOOLEAN
  BY DEF IInv, ShapeInv
<1>1. /\ admins' \in [setting.admins -> AdminRecords] /\ a \in setting.admins
      /\ admins'[a] = m /\ admins[a].phase # "done"
      /\ \A b \in setting.admins : b # a => admins'[b] = admins[b]
      /\ \A b \in setting.admins : admins[b].phase = "done" => b # a /\ admins'[b].phase = "done"
  BY <1>0, StepFacts DEF Steps
<1>2. \A b \in setting.admins : admins'[b].phase = "state" => Op(b) = "install"
  BY <1>0, <1>1 DEF NonceInv
<1>3. NonceInv'
  BY <1>0, <1>1, <1>2, NonceStays
<1>4. /\ RevocationTold' /\ minted' \in Nat
      /\ audit' \subseteq AuditRecords(setting.admins) /\ IsFiniteSet(audit')
  BY <1>1, Telling
<1>5. ConsoleShape'
  BY <1>0, <1>1, <1>4 DEF ShapeInv, ConsoleShape
<1>6. Closed => Closed'
  BY <1>0 DEF Closed
<1> QED
  BY <1>3, <1>4, <1>5, <1>6, ConsoleStep

LEMMA CommitSteps ==
  ASSUME IInv, NEW a, Ready(a, "commit"), NEW p \in {"done", "failed"}, Goes(a, p)
  PROVE  \E m : Steps(a, m) /\ m.phase = p /\ m.saw = admins[a].saw
<1>1. p \in AdminPhases
  BY DEF AdminPhases
<1> QED
  BY <1>1, GoesSteps

(* A transaction that fails leaves no trace. *)
LEMMA FailedKeeps ==
  ASSUME IInv, NEW a, Ready(a, "commit"), Goes(a, "failed"),
         UNCHANGED <<setting, now, trafficVars, cronVars, rows, accessVars, callbacks, users, nonces,
                     minted, lastRow, audit>>
  PROVE  IInv'
<1>1. users' \in BOOLEAN /\ LiveUnchanged
  BY DEF IInv, ShapeInv, LiveUnchanged
<1>2. PICK m : Steps(a, m)
  BY CommitSteps
<1> QED
  BY <1>1, <1>2, AdminKeeps

(* A key or a name, of a project that is there. *)
LEMMA KeyTold ==
  ASSUME IInv, NEW a, Ready(a, "commit"), Goes(a, "done"), NEW what \in {"renamed", "minted", "revoked"},
         Audited(what, a, a, 0), revoked' = (revoked \/ what = "revoked"),
         minted' = IF what = "minted" THEN minted + 1 ELSE minted,
         UNCHANGED <<setting, now, trafficVars, cronVars, rows, project, slack, callbacks, users, nonces,
                     lastRow>>
  PROVE  IInv'
<1> DEFINE e == [what |-> what, of |-> a, by |-> a, row |-> 0]
<1>0. ShapeInv /\ RowInv /\ a \in setting.admins
  BY DEF IInv, Ready
<1>1. PICK m : Steps(a, m) /\ m.phase = "done"
  BY CommitSteps
<1>2. e \in AuditRecords(setting.admins) /\ e.what = what /\ e.of = a /\ e.row = 0
  BY <1>0 DEF AuditRecords, Entered
<1>3. audit' = audit \cup {e}
  BY DEF Audited
<1> HIDE DEF e
<1>4. Onward
  BY <1>1, StepOnward
<1>5. SlackInv'
  BY <1>2, <1>3, <1>4, SlackTold
<1>6. /\ revoked' \in BOOLEAN /\ project' \in BOOLEAN /\ slack' \in Bindings(setting.admins) /\ lastRow' \in Nat
      /\ rows' \in Seq(RowRecords) /\ project \in BOOLEAN /\ revoked \in BOOLEAN
      /\ requests' = requests
  BY <1>0 DEF ShapeInv, trafficVars
<1>7. RowInv'
  BY <1>0, <1>6 DEF RowInv
<1>8. revoked' <=> revoked \/ e.what = "revoked"
  BY <1>2, <1>6
<1>9. ~project' <=> ~project \/ e.what = "deleted"
  BY <1>2, <1>6
<1>10. minted' = IF e.what = "minted" THEN minted + 1 ELSE minted
  BY <1>2
<1> QED
  BY <1>1, <1>2, <1>3, <1>5, <1>6, <1>7, <1>8, <1>9, <1>10, CommitTold

(* The rows of a project go with it. *)
LEMMA DeleteKeeps ==
  ASSUME IInv, NEW a, Ready(a, "commit"), Goes(a, "done"),
         project' = FALSE, slack' = NoConfig, rows' = <<>>, Audited("deleted", a, a, 0),
         UNCHANGED <<setting, now, trafficVars, cronVars, revoked, callbacks, users, nonces, minted, lastRow>>
  PROVE  IInv'
<1> DEFINE e == [what |-> "deleted", of |-> a, by |-> a, row |-> 0]
<1>0. ShapeInv /\ a \in setting.admins
  BY DEF IInv, Ready
<1>1. PICK m : Steps(a, m) /\ m.phase = "done"
  BY CommitSteps
<1>2. e \in AuditRecords(setting.admins) /\ e.what = "deleted" /\ e.of = a /\ e.row = 0
  BY <1>0 DEF AuditRecords, Entered
<1>3. audit' = audit \cup {e}
  BY DEF Audited
<1> HIDE DEF e
<1>4. Onward
  BY <1>1, StepOnward
<1>5. SlackInv'
  BY <1>2, <1>3, <1>4, SlackTold
<1>6. /\ revoked' \in BOOLEAN /\ project' \in BOOLEAN /\ slack' \in Bindings(setting.admins) /\ lastRow' \in Nat
      /\ rows' \in Seq(RowRecords)
  BY <1>0, EmptySeq DEF ShapeInv, Bindings, NoConfig
<1>7. RowInv'
  <2>1. DOMAIN rows' = {}
    OBVIOUS
  <2> QED
    BY <2>1 DEF RowInv
<1>8. /\ revoked' <=> revoked \/ e.what = "revoked"
      /\ ~project' <=> ~project \/ e.what = "deleted"
      /\ minted' = IF e.what = "minted" THEN minted + 1 ELSE minted
  BY <1>2
<1> QED
  BY <1>1, <1>2, <1>3, <1>5, <1>6, <1>7, <1>8, CommitTold

LEMMA DisconnectKeeps ==
  ASSUME IInv, NEW a, Ready(a, "commit"), Op(a) = "disconnect", Goes(a, "done"),
         slack' = IF slack.row = admins[a].saw THEN NoConfig ELSE slack,
         Audited("disconnected", a, a, admins[a].saw),
         UNCHANGED <<setting, now, trafficVars, cronVars, rows, project, revoked, callbacks, users, nonces,
                     minted, lastRow>>
  PROVE  IInv'
<1> DEFINE e == [what |-> "disconnected", of |-> a, by |-> a, row |-> admins[a].saw]
<1>0. ShapeInv /\ RowInv /\ SlackInv /\ a \in setting.admins
  BY DEF IInv, Ready
<1>1. PICK m : Steps(a, m) /\ m.phase = "done"
  BY CommitSteps
<1>2. admins[a].saw \in Nat /\ admins[a].saw =< lastRow
  BY <1>0 DEF ShapeInv, SlackInv, AdminRecords
<1>3. e \in AuditRecords(setting.admins) /\ e.what = "disconnected" /\ e.of = a /\ e.row = admins[a].saw
  BY <1>0, <1>2 DEF AuditRecords, Entered
<1>4. audit' = audit \cup {e}
  BY DEF Audited
<1> HIDE DEF e
<1>5. Onward
  BY <1>1, StepOnward
<1>6. SlackInv'
  BY <1>2, <1>3, <1>4, <1>5, SlackGone
<1>7. /\ revoked' \in BOOLEAN /\ project' \in BOOLEAN /\ slack' \in Bindings(setting.admins) /\ lastRow' \in Nat
      /\ rows' \in Seq(RowRecords) /\ requests' = requests
  BY <1>0 DEF ShapeInv, Bindings, NoConfig, trafficVars
<1>8. RowInv'
  BY <1>0, <1>7 DEF RowInv
<1>9. /\ revoked' <=> revoked \/ e.what = "revoked"
      /\ ~project' <=> ~project \/ e.what = "deleted"
      /\ minted' = IF e.what = "minted" THEN minted + 1 ELSE minted
  BY <1>3
<1> QED
  BY <1>1, <1>3, <1>4, <1>6, <1>7, <1>8, <1>9, CommitTold

(* What a connection leaves in the tables. *)
LEMMA BoundFacts ==
  ASSUME IInv, NEW saw, NEW of \in setting.admins \cup Callbacks, NEW by \in setting.admins,
         Binds(saw), Bind(saw, of, by)
  PROVE  /\ project /\ saw = slack.row
         /\ lastRow' = IF saw = 0 THEN lastRow + 1 ELSE lastRow
         /\ slack' = [row |-> IF saw = 0 THEN lastRow' ELSE saw, by |-> by]
         /\ slack' \in Bindings(setting.admins) /\ lastRow' \in Nat
         /\ \E e \in AuditRecords(setting.admins) :
               /\ e.what = "connected" /\ e.of = of /\ e.by = by /\ e.row = slack'.row
               /\ audit' = audit \cup {e}
<1> DEFINE e == [what |-> "connected", of |-> of, by |-> by, row |-> slack'.row]
<1>1. lastRow \in Nat /\ slack.row \in Nat
  BY DEF IInv, ShapeInv, Bindings
<1>2. /\ project /\ saw = slack.row
      /\ lastRow' = IF saw = 0 THEN lastRow + 1 ELSE lastRow
      /\ slack' = [row |-> IF saw = 0 THEN lastRow' ELSE saw, by |-> by]
      /\ audit' = audit \cup {e}
  BY DEF Binds, Bind, Audited
<1>3. lastRow' \in Nat
  BY <1>1, <1>2
<1>4. slack'.row = IF saw = 0 THEN lastRow' ELSE saw
  BY <1>2
<1>5. slack'.row \in Nat
  BY <1>1, <1>2, <1>3, <1>4
<1>6. slack' \in Bindings(setting.admins)
  BY <1>1, <1>2, <1>3 DEF Bindings
<1>7. e \in AuditRecords(setting.admins) /\ e.what = "connected" /\ e.of = of /\ e.by = by
      /\ e.row = slack'.row
  BY <1>5 DEF AuditRecords, Entered
<1> HIDE DEF e
<1> QED
  BY <1>2, <1>3, <1>6, <1>7

LEMMA SetSlackKeeps ==
  ASSUME IInv, NEW a, Ready(a, "commit"), Op(a) = "configure", Goes(a, "done"),
         NEW saw, Binds(saw), Bind(saw, a, a),
         UNCHANGED <<setting, now, trafficVars, cronVars, rows, project, revoked, callbacks, users, nonces,
                     minted>>
  PROVE  IInv'
<1>0. ShapeInv /\ RowInv /\ SlackInv /\ NonceInv /\ a \in setting.admins /\ admins[a].phase = "commit"
  BY DEF IInv, Ready
<1>1. PICK m : Steps(a, m) /\ m.phase = "done"
  BY CommitSteps
<1> DEFINE of == a
           by == a
<1>2. /\ of \in setting.admins \cup Callbacks /\ by \in setting.admins
      /\ Binds(saw) /\ Bind(saw, of, by) /\ of = a /\ by = a
  BY <1>0
<1> HIDE DEF of, by
<1>2a. /\ project /\ saw = slack.row
       /\ lastRow' = IF saw = 0 THEN lastRow + 1 ELSE lastRow
       /\ slack' = [row |-> IF saw = 0 THEN lastRow' ELSE saw, by |-> by]
       /\ slack' \in Bindings(setting.admins) /\ lastRow' \in Nat
  BY <1>0, <1>2, BoundFacts
<1>3. PICK e \in AuditRecords(setting.admins) :
               /\ e.what = "connected" /\ e.of = of /\ e.by = by /\ e.row = slack'.row
               /\ audit' = audit \cup {e}
  BY <1>0, <1>2, BoundFacts
<1>4. Onward
  BY <1>1, StepOnward
<1>5. \A f \in audit : Connected(f) => f.by # a
  BY <1>0 DEF SlackInv, NonceInv, Connector
<1>6. /\ admins' \in [setting.admins -> AdminRecords] /\ admins'[a].phase = "done"
  BY <1>0, <1>1, StepFacts
<1>7. SlackInv'
  BY <1>0, <1>2, <1>2a, <1>3, <1>4, <1>5, <1>6, SlackBound
<1>8. /\ revoked' \in BOOLEAN /\ project' \in BOOLEAN /\ rows' \in Seq(RowRecords) /\ requests' = requests
  BY <1>0 DEF ShapeInv, trafficVars
<1>9. RowInv'
  BY <1>0, <1>8 DEF RowInv
<1>10. /\ revoked' <=> revoked \/ e.what = "revoked"
       /\ ~project' <=> ~project \/ e.what = "deleted"
       /\ minted' = IF e.what = "minted" THEN minted + 1 ELSE minted
  BY <1>3
<1> QED
  BY <1>1, <1>2, <1>2a, <1>3, <1>7, <1>8, <1>9, <1>10, CommitTold

LEMMA CommitKeeps ==
  ASSUME IInv, NEW a, Commit(a)
  PROVE  IInv'
<1>0. /\ Ready(a, "commit")
      /\ UNCHANGED <<setting, now, trafficVars, cronVars, callbacks, users, nonces>>
      /\ project \in BOOLEAN /\ revoked \in BOOLEAN
  BY DEF Commit, IInv, ShapeInv
<1>1. CASE SetSlack(a)
  <2>1. Op(a) = "configure" /\ UNCHANGED <<project, revoked, rows, minted>>
    BY <1>1 DEF SetSlack
  <2>2. CASE Binds(admins[a].saw)
    BY <1>0, <1>1, <2>1, <2>2, SetSlackKeeps DEF SetSlack
  <2>3. CASE ~Binds(admins[a].saw)
    BY <1>0, <1>1, <2>1, <2>3, FailedKeeps DEF SetSlack, accessVars
  <2> QED
    BY <2>2, <2>3
<1>2. CASE Rename(a) /\ UNCHANGED lastRow
  <2>1. UNCHANGED <<accessVars, rows, minted, project, revoked, slack>>
    <3>1. UNCHANGED <<accessVars, rows, minted>> /\ lastRow' = lastRow
      BY <1>2, SMTT(60) DEF Rename
    <3> QED
      BY <3>1 DEF accessVars
  <2>2. CASE project
    <3>1. Goes(a, "done") /\ Audited("renamed", a, a, 0)
      BY <1>2, <2>2 DEF Rename
    <3>2. /\ revoked' = (revoked \/ "renamed" = "revoked")
          /\ minted' = IF "renamed" = "minted" THEN minted + 1 ELSE minted
          /\ "renamed" \in {"renamed", "minted", "revoked"}
      BY <1>0, <2>1
    <3> QED
      BY <1>0, <1>2, <2>1, <3>1, <3>2, KeyTold
  <2>3. CASE ~project
    BY <1>0, <1>2, <2>1, <2>3, FailedKeeps DEF Rename
  <2> QED
    BY <2>2, <2>3
<1>3. CASE CreateKey(a) /\ UNCHANGED lastRow
  <2>1. UNCHANGED <<accessVars, rows, project, revoked, slack>>
    <3>1. UNCHANGED <<accessVars, rows>> /\ lastRow' = lastRow
      BY <1>3, SMTT(60) DEF CreateKey
    <3> QED
      BY <3>1 DEF accessVars
  <2>2. CASE project
    <3>1. Goes(a, "done") /\ Audited("minted", a, a, 0) /\ minted' = minted + 1
      BY <1>3, <2>2 DEF CreateKey
    <3>2. /\ revoked' = (revoked \/ "minted" = "revoked")
          /\ minted' = IF "minted" = "minted" THEN minted + 1 ELSE minted
          /\ "minted" \in {"renamed", "minted", "revoked"}
      BY <1>0, <2>1, <3>1
    <3> QED
      BY <1>0, <1>3, <2>1, <3>1, <3>2, KeyTold
  <2>3. CASE ~project
    BY <1>0, <1>3, <2>1, <2>3, FailedKeeps DEF CreateKey
  <2> QED
    BY <2>2, <2>3
<1>4. CASE RevokeKey(a) /\ UNCHANGED lastRow
  <2>1. UNCHANGED <<rows, project, slack, minted>>
    BY <1>4 DEF RevokeKey
  <2>2. CASE project
    <3>1. Goes(a, "done") /\ Audited("revoked", a, a, 0) /\ revoked' = TRUE
      BY <1>4, <2>2 DEF RevokeKey
    <3>2. /\ revoked' = (revoked \/ "revoked" = "revoked")
          /\ minted' = IF "revoked" = "minted" THEN minted + 1 ELSE minted
          /\ "revoked" \in {"renamed", "minted", "revoked"}
      BY <1>0, <2>1, <3>1
    <3> QED
      BY <1>0, <1>4, <2>1, <3>1, <3>2, KeyTold
  <2>3. CASE ~project
    BY <1>0, <1>4, <2>1, <2>3, FailedKeeps DEF RevokeKey, accessVars
  <2> QED
    BY <2>2, <2>3
<1>5. CASE DeleteProject(a) /\ UNCHANGED lastRow
  <2>1. minted' = minted
    BY <1>5 DEF DeleteProject
  <2>2. CASE project /\ admins[a].saw < Children
    BY <1>0, <1>5, <2>1, <2>2, FailedKeeps DEF DeleteProject
  <2>3. CASE ~(project /\ admins[a].saw < Children)
    BY <1>0, <1>5, <2>1, <2>3, DeleteKeeps DEF DeleteProject
  <2> QED
    BY <2>2, <2>3
<1>6. CASE DisconnectSlack(a) /\ UNCHANGED lastRow
  BY <1>0, <1>6, DisconnectKeeps DEF DisconnectSlack
<1> QED
  BY <1>1, <1>2, <1>3, <1>4, <1>5, <1>6 DEF Commit
-----------------------------------------------------------------------------
(* The callback of Slack. *)

(* A callback that goes on; one that is done stays so.                     *)
Returns(c, m) ==
    /\ c \in Callbacks /\ m \in CallbackRecords(setting.admins)
    /\ callbacks[c].phase # "done"
    /\ callbacks' = [callbacks EXCEPT ![c] = m]

LEMMA ReturnFacts ==
  ASSUME ShapeInv, UNCHANGED setting, NEW c, NEW m, Returns(c, m)
  PROVE  /\ callbacks' \in [Callbacks -> CallbackRecords(setting.admins)]
         /\ callbacks'[c] = m
         /\ \A d \in Callbacks : d # c => callbacks'[d] = callbacks[d]
<1> QED
  BY DEF ShapeInv, Returns

LEMMA ReturnOnward ==
  ASSUME IInv, UNCHANGED <<setting, admins>>, NEW c, NEW m, Returns(c, m)
  PROVE  Onward
<1>1. ShapeInv /\ SlackInv
  BY DEF IInv
<1>2. /\ callbacks'[c] = m /\ callbacks[c].phase # "done"
      /\ \A d \in Callbacks : d # c => callbacks'[d] = callbacks[d]
  BY <1>1, ReturnFacts DEF Returns
<1> QED
  BY <1>1, <1>2 DEF Onward, SlackInv

(* What only concerns the states of installations. *)
LEMMA StatesKeep ==
  ASSUME IInv, AdminsUnchanged, UNCHANGED <<slack, lastRow, audit>>,
         callbacks' \in [Callbacks -> CallbackRecords(setting.admins)],
         nonces' \subseteq setting.admins, NonceInv', Onward
  PROVE  IInv'
<1>0. /\ ShapeInv /\ RowInv /\ RevocationTold
  BY DEF IInv
<1>1. /\ UNCHANGED <<setting, now, trafficVars, rows, cronVars, project, revoked, admins, users, minted, requests>>
  BY DEF AdminsUnchanged, LiveUnchanged, trafficVars
<1>2. SlackInv'
  BY <1>1, SlackStays DEF Onward
<1>3. RevocationTold'
  BY <1>0, <1>1 DEF RevocationTold, Entries
<1>4. ConsoleShape'
  BY <1>0, <1>1 DEF ShapeInv, ConsoleShape
<1>5. RowInv' /\ rows' \in Seq(RowRecords)
  BY <1>0, <1>1 DEF RowInv, ShapeInv
<1> QED
  BY <1>1, <1>2, <1>3, <1>4, <1>5, ConsoleStep DEF Closed

(* A callback that keeps its state. *)
LEMMA ReturnKeeps ==
  ASSUME IInv, NEW c, NEW m, Returns(c, m), AdminsUnchanged, UNCHANGED <<slack, nonces, lastRow, audit>>,
         m.state = callbacks[c].state, callbacks[c].phase # "none",
         m.phase \in Holding => callbacks[c].phase \in Holding
  PROVE  IInv'
<1>0. /\ ShapeInv /\ NonceInv
  BY DEF IInv
<1>1. /\ UNCHANGED <<setting, admins>>
  BY DEF AdminsUnchanged, LiveUnchanged
<1>2. /\ callbacks' \in [Callbacks -> CallbackRecords(setting.admins)]
      /\ callbacks'[c] = m /\ c \in Callbacks
      /\ \A d \in Callbacks : d # c => callbacks'[d] = callbacks[d]
  BY <1>0, <1>1, ReturnFacts DEF Returns
<1>3. Onward
  BY <1>1, ReturnOnward
<1>4. \A d \in Callbacks : /\ callbacks'[d].state = callbacks[d].state
                           /\ callbacks'[d].phase # "none" => callbacks[d].phase # "none"
                           /\ callbacks'[d].phase \in Holding => callbacks[d].phase \in Holding
  BY <1>2
<1>5. NonceInv'
  BY <1>0, <1>1, <1>4 DEF NonceInv, Op
<1>6. nonces' \subseteq setting.admins
  BY <1>0 DEF ShapeInv
<1> QED
  BY <1>2, <1>3, <1>5, <1>6, StatesKeep

LEMMA ReplyReturns ==
  ASSUME IInv, NEW c \in Callbacks, NEW p \in CallbackPhases, Reply(c, p), callbacks[c].phase # "done"
  PROVE  \E m : /\ Returns(c, m) /\ m.phase = p /\ m.state = callbacks[c].state
<1> DEFINE m == [callbacks[c] EXCEPT !.phase = p]
<1>1. callbacks[c] \in CallbackRecords(setting.admins)
  BY DEF IInv, ShapeInv
<1>2. m.phase = p /\ m.state = callbacks[c].state /\ m \in CallbackRecords(setting.admins)
  BY <1>1 DEF CallbackRecords
<1>3. callbacks' = [callbacks EXCEPT ![c] = m]
  BY DEF Reply
<1> HIDE DEF m
<1> QED
  BY <1>2, <1>3 DEF Returns

(* A state is taken by one callback, and is gone with it. *)
LEMMA ConsumeStateKeeps ==
  ASSUME IInv, NEW c \in Callbacks, NEW a, ConsumeState(c, a)
  PROVE  IInv'
<1> DEFINE phase == IF a \in nonces THEN "exchange" ELSE "refused"
           m == [callbacks[c] EXCEPT !.state = a, !.phase = phase]
<1>0. /\ ShapeInv /\ NonceInv
  BY DEF IInv
<1>1. /\ callbacks[c].phase = "none" /\ AdminsUnchanged /\ UNCHANGED <<slack, lastRow, audit>>
      /\ nonces' = nonces \ {a}
      /\ a \in setting.admins /\ Op(a) = "install" /\ admins[a].phase = "done"
      /\ UNCHANGED <<setting, admins>>
  BY DEF ConsumeState, On, Installs, Ready, Used, AdminsUnchanged, LiveUnchanged
<1>2. callbacks[c] \in CallbackRecords(setting.admins)
  BY <1>0 DEF ShapeInv
<1>3. phase \in CallbackPhases /\ phase # "none" /\ (phase \in Holding => a \in nonces)
  BY DEF CallbackPhases, Holding
<1>4. callbacks' = [callbacks EXCEPT ![c] = m]
  BY DEF ConsumeState
<1> HIDE DEF phase
<1>5. m.phase = phase /\ m.state = a /\ m \in CallbackRecords(setting.admins)
  BY <1>1, <1>2, <1>3 DEF CallbackRecords
<1> HIDE DEF m
<1>6. Returns(c, m)
  BY <1>1, <1>4, <1>5 DEF Returns
<1>7. /\ callbacks' \in [Callbacks -> CallbackRecords(setting.admins)]
      /\ callbacks'[c] = m
      /\ \A d \in Callbacks : d # c => callbacks'[d] = callbacks[d]
  BY <1>0, <1>1, <1>6, ReturnFacts
<1>8. Onward
  BY <1>1, <1>6, ReturnOnward
<1>9. NonceInv'
  <2>1. \A b \in nonces' : b \in nonces /\ b # a
    BY <1>1
  <2>2. \A d \in Callbacks : callbacks'[d].phase # "none" =>
            /\ callbacks'[d].state \in setting.admins
            /\ Op(callbacks'[d].state) = "install" /\ admins[callbacks'[d].state].phase = "done"
    BY <1>0, <1>1, <1>5, <1>7 DEF NonceInv
  <2>3. \A d \in Callbacks : callbacks'[d].phase \in Holding => callbacks'[d].state \notin nonces'
    BY <1>0, <1>5, <1>7, <2>1 DEF NonceInv
  <2>4. \A d \in Callbacks : d # c /\ callbacks'[d].phase \in Holding /\ callbacks'[c].phase \in Holding
            => callbacks'[d].state # callbacks'[c].state
    BY <1>0, <1>3, <1>5, <1>7 DEF NonceInv
  <2>5. \A d, e \in Callbacks :
          /\ callbacks'[d].phase \in Holding /\ callbacks'[e].phase \in Holding
          /\ callbacks'[d].state = callbacks'[e].state
          => d = e
    BY <1>0, <1>7, <2>4 DEF NonceInv
  <2> QED
    BY <1>0, <1>1, <2>1, <2>2, <2>3, <2>5 DEF NonceInv, Op
<1>10. nonces' \subseteq setting.admins
  BY <1>0, <1>1 DEF ShapeInv
<1> QED
  BY <1>1, <1>7, <1>8, <1>9, <1>10, StatesKeep

LEMMA ExpireStateKeeps ==
  ASSUME IInv, NEW a, ExpireState(a)
  PROVE  IInv'
<1>0. /\ ShapeInv /\ NonceInv /\ SlackInv
  BY DEF IInv
<1>1. /\ AdminsUnchanged /\ UNCHANGED <<slack, lastRow, audit, callbacks, setting, admins>>
      /\ nonces' = nonces \ {a}
  BY DEF ExpireState, AdminsUnchanged, LiveUnchanged
<1>2. NonceInv'
  BY <1>0, <1>1 DEF NonceInv, Op
<1>3. Onward
  BY <1>0, <1>1 DEF Onward, SlackInv
<1>4. nonces' \subseteq setting.admins /\ callbacks' \in [Callbacks -> CallbackRecords(setting.admins)]
  BY <1>0, <1>1 DEF ShapeInv
<1> QED
  BY <1>1, <1>2, <1>3, <1>4, StatesKeep

LEMMA ExchangeCodeKeeps ==
  ASSUME IInv, NEW c \in Callbacks, ExchangeCode(c)
  PROVE  IInv'
<1>1. PICK p \in {"lookup", "failed"} : Reply(c, p)
  BY DEF ExchangeCode
<1>2. /\ callbacks[c].phase = "exchange" /\ AdminsUnchanged
      /\ UNCHANGED <<slack, nonces, lastRow, audit>>
  BY DEF ExchangeCode, On
<1>3. p \in CallbackPhases /\ callbacks[c].phase \in Holding /\ callbacks[c].phase # "done"
  BY <1>1, <1>2 DEF CallbackPhases, Holding
<1>4. PICK m : Returns(c, m) /\ m.phase = p /\ m.state = callbacks[c].state
  BY <1>1, <1>3, ReplyReturns
<1> QED
  BY <1>2, <1>3, <1>4, ReturnKeeps

LEMMA FindConfigKeeps ==
  ASSUME IInv, NEW c \in Callbacks, FindConfig(c)
  PROVE  IInv'
<1> DEFINE m == [callbacks[c] EXCEPT !.phase = "bind", !.saw = slack.row]
<1>1. /\ callbacks[c].phase = "lookup" /\ AdminsUnchanged
      /\ UNCHANGED <<slack, nonces, lastRow, audit>> /\ callbacks' = [callbacks EXCEPT ![c] = m]
  BY DEF FindConfig, On
<1>2. callbacks[c] \in CallbackRecords(setting.admins) /\ slack.row \in Nat
  BY DEF IInv, ShapeInv, Bindings
<1>3. m.phase = "bind" /\ m.state = callbacks[c].state /\ m \in CallbackRecords(setting.admins)
  BY <1>2 DEF CallbackRecords, CallbackPhases
<1> HIDE DEF m
<1>4. callbacks[c].phase \in Holding
  BY <1>1 DEF Holding
<1>5. Returns(c, m)
  BY <1>1, <1>3 DEF Returns
<1> QED
  BY <1>1, <1>3, <1>4, <1>5, ReturnKeeps

LEMMA BindConfigKeeps ==
  ASSUME IInv, NEW c \in Callbacks, BindConfig(c)
  PROVE  IInv'
<1> DEFINE saw == callbacks[c].saw
           by == callbacks[c].state
<1>0. /\ ShapeInv /\ RowInv /\ NonceInv /\ SlackInv
  BY DEF IInv
<1>1. /\ callbacks[c].phase = "bind" /\ AdminsUnchanged /\ nonces' = nonces
      /\ UNCHANGED <<setting, now, trafficVars, rows, cronVars, project, revoked, admins, users, minted, requests>>
  BY DEF BindConfig, On, AdminsUnchanged, LiveUnchanged, trafficVars
<1>2. callbacks[c].phase \in Holding /\ callbacks[c].phase # "done" /\ callbacks[c].phase # "none"
  BY <1>1 DEF Holding
<1>3. CASE ~Binds(saw)
  <2>1. Reply(c, "failed") /\ UNCHANGED <<slack, lastRow, audit>>
    BY <1>3 DEF BindConfig
  <2>2. "failed" \in CallbackPhases
    BY DEF CallbackPhases
  <2>3. PICK m : Returns(c, m) /\ m.phase = "failed" /\ m.state = callbacks[c].state
    BY <1>2, <2>1, <2>2, ReplyReturns
  <2> QED
    BY <1>1, <1>2, <2>1, <2>3, ReturnKeeps
<1>4. CASE Binds(saw)
  <2>1. Bind(saw, c, by) /\ Reply(c, "done")
    BY <1>4 DEF BindConfig
  <2>2. "done" \in CallbackPhases
    BY DEF CallbackPhases
  <2>3. PICK m : Returns(c, m) /\ m.phase = "done" /\ m.state = by
    BY <1>2, <2>1, <2>2, ReplyReturns
  <2>4. /\ callbacks' \in [Callbacks -> CallbackRecords(setting.admins)]
        /\ callbacks'[c] = m
        /\ \A d \in Callbacks : d # c => callbacks'[d] = callbacks[d]
    BY <1>0, <1>1, <2>3, ReturnFacts
  <2>5. Onward
    BY <1>1, <2>3, ReturnOnward
  <2>6. \A d \in Callbacks : /\ callbacks'[d].state = callbacks[d].state
                             /\ callbacks'[d].phase # "none" => callbacks[d].phase # "none"
                             /\ callbacks'[d].phase \in Holding => callbacks[d].phase \in Holding
    BY <1>2, <2>3, <2>4
  <2>7. NonceInv'
    BY <1>0, <1>1, <2>6 DEF NonceInv, Op
  <2>8. by \in setting.admins /\ Op(by) = "install"
    BY <1>0, <1>2 DEF NonceInv
  <2>9. \A f \in audit : Connected(f) => f.by # by
    <3> SUFFICES ASSUME NEW f \in audit, Connected(f), f.by = by PROVE FALSE
      OBVIOUS
    <3>1. PICK d \in Callbacks : callbacks[d].phase = "done" /\ callbacks[d].state = by
      BY <1>0, <2>8 DEF SlackInv, Connector
    <3>2. callbacks[d].phase \in Holding
      BY <3>1 DEF Holding
    <3>3. d = c
      BY <1>0, <1>2, <3>1, <3>2 DEF NonceInv
    <3> QED
      BY <1>2, <3>1, <3>3
  <2> HIDE DEF by, saw
  <2>10. /\ project /\ saw = slack.row
         /\ lastRow' = IF saw = 0 THEN lastRow + 1 ELSE lastRow
         /\ slack' = [row |-> IF saw = 0 THEN lastRow' ELSE saw, by |-> by]
         /\ slack' \in Bindings(setting.admins) /\ lastRow' \in Nat
    BY <1>4, <2>1, <2>8, BoundFacts
  <2>11. PICK e \in AuditRecords(setting.admins) :
               /\ e.what = "connected" /\ e.of = c /\ e.by = by /\ e.row = slack'.row
               /\ audit' = audit \cup {e}
    BY <1>4, <2>1, <2>8, BoundFacts
  <2>12. /\ admins' \in [setting.admins -> AdminRecords]
         /\ callbacks'[c].phase = "done" /\ callbacks'[c].state = by
    BY <1>0, <1>1, <2>3, <2>4 DEF ShapeInv
  <2>13. SlackInv'
    BY <1>1, <2>5, <2>8, <2>9, <2>10, <2>11, <2>12, SlackBound
  <2>14. project \in BOOLEAN /\ revoked \in BOOLEAN
    BY <1>0 DEF ShapeInv
  <2>15. /\ RevocationTold' /\ minted' \in Nat
         /\ audit' \subseteq AuditRecords(setting.admins) /\ IsFiniteSet(audit')
    <3>1. /\ revoked' <=> revoked \/ e.what = "revoked"
          /\ ~project' <=> ~project \/ e.what = "deleted"
          /\ minted' = IF e.what = "minted" THEN minted + 1 ELSE minted
      BY <1>1, <2>11, <2>14
    <3>2. \A b \in setting.admins : admins[b].phase = "done" => admins'[b].phase = "done"
      BY <1>1
    <3>3. e.what = "connected"
      BY <2>11
    <3> QED
      BY <1>1, <2>11, <3>1, <3>2, <3>3, Telling
  <2>16. ConsoleShape'
    BY <1>0, <1>1, <2>4, <2>10, <2>15 DEF ShapeInv, ConsoleShape
  <2>17. RowInv' /\ rows' \in Seq(RowRecords)
    BY <1>0, <1>1 DEF RowInv, ShapeInv
  <2> QED
    BY <1>1, <2>7, <2>13, <2>15, <2>16, <2>17, ConsoleStep DEF Closed
<1> QED
  BY <1>3, <1>4

LEMMA StepKeeps ==
  ASSUME IInv, [Next]_vars
  PROVE  IInv'
<1>1. CASE LiveNext /\ UNCHANGED consoleVars
  BY <1>1, LiveKeeps
<1>2. CASE ConsoleNext
  BY <1>2, LoadUserKeeps, InsertUserKeeps, ReadProjectKeeps, CommitKeeps, SlackInstallKeeps,
     ExpireStateKeeps, ConsumeStateKeeps, ExchangeCodeKeeps, FindConfigKeeps, BindConfigKeeps
     DEF ConsoleNext
<1>3. CASE UNCHANGED vars
  <2>0. /\ ShapeInv /\ BoundInv /\ RequestInv /\ SendInv /\ WaitInv /\ RowInv /\ MeterInv
        /\ LeaseInv /\ DriftInv /\ NonceInv /\ SlackInv /\ RevocationTold
    BY DEF IInv
  <2>1. UNCHANGED <<setting, now, recorded, buffer, requests, hits, expires, usage, rows, project, revoked,
                    slack, lease, sweeps, drifts, trafficVars, accessVars, cronVars, consoleVars>>
    BY <1>3 DEF vars, liveVars, trafficVars, collectorVars, limiterVars, accessVars, cronVars
  <2>2. ShapeInv' /\ BoundInv'
    BY <2>0, <2>1 DEF ShapeInv, BoundInv, consoleVars
  <2>3. RequestInv' /\ SendInv' /\ WaitInv' /\ RowInv' /\ MeterInv'
    BY <2>0, <2>1 DEF RequestInv, SendInv, WaitInv, RowInv, MeterInv
  <2>4. LeaseInv' /\ DriftInv' /\ NonceInv' /\ SlackInv' /\ RevocationTold'
    BY <2>0, <2>1, OthersFrame
  <2> QED
    BY <2>2, <2>3, <2>4 DEF IInv
<1> QED
  BY <1>1, <1>2, <1>3 DEF Next
-----------------------------------------------------------------------------
(* Theorems. *)

(* The tables of the server keep telling the truth about one another,      *)
(* whatever the collectors, the API, the cron jobs, the members and Slack  *)
(* do at the same time, and whatever fails.                                *)
THEOREM Inductive == Spec => []IInv
<1> QED
  BY InitStep, StepKeeps, PTL DEF Spec

LEMMA TypesFollow == IInv => TypeOK
<1> SUFFICES ASSUME IInv PROVE TypeOK
  OBVIOUS
<1>0. /\ ShapeInv /\ BoundInv /\ RequestInv /\ SendInv /\ RowInv /\ MeterInv /\ LeaseInv /\ DriftInv
      /\ SlackInv
  BY DEF IInv
<1>1. /\ setting \in Settings /\ now \in Nat /\ recorded \in Nat /\ now =< setting.time
      /\ recorded =< setting.records /\ setting.time \in Nat /\ setting.records \in Nat
      /\ hits \in Nat /\ expires \in Nat /\ usage \in Nat /\ lease \in Nat
  BY <1>0, TrafficSettings DEF ShapeInv, BoundInv
<1>2. \A i \in DOMAIN requests :
        LET r == requests[i]
        IN  /\ r.by \in Recorders /\ r.batch \subseteq 1 .. recorded /\ r.batch # {}
            /\ r.phase \in RequestPhases
            /\ {r.waits, r.late} \subseteq BOOLEAN
            /\ r.stored \in -1 .. now
  BY <1>0, Types DEF Requests, RequestInv, Sound
<1>3. {hits, expires} \subseteq Nat
  BY <1>1
<1>4. usage \in 0 .. recorded
  <2>1. Done(requests) \subseteq DOMAIN requests
    BY DEF Done
  <2>2. usage = Cardinality(Batches(requests, Done(requests)))
    BY <1>0 DEF MeterInv
  <2>3. usage =< recorded
    BY <1>0, <2>1, <2>2, SentFinite
  <2> QED
    BY <1>1, <2>3
<1>5. \A i \in DOMAIN rows : rows[i].at \in 0 .. now /\ rows[i].batch \subseteq 1 .. recorded
  <2>1. \A i \in DOMAIN rows : rows[i].at \in Nat /\ rows[i].at =< now
    BY <1>0, Types DEF RowRecords, RowInv
  <2>2. \A i \in DOMAIN rows : rows[i].batch \subseteq 1 .. recorded
    BY <1>0 DEF RowInv, RequestInv, Sound, Kept
  <2> QED
    BY <1>1, <2>1, <2>2
<1>6. lease \in 0 .. now + LeaseTTL
  BY <1>0, <1>1, TimeAssumption DEF LeaseInv
<1>7. \A i \in DOMAIN sweeps : sweeps[i].phase \in SweepPhases /\ sweeps[i].began \in 0 .. now
  BY <1>0, <1>1, Types DEF SweepRecords, LeaseInv
<1>8. \A i \in DOMAIN drifts : drifts[i].sweep \in DOMAIN sweeps /\ drifts[i].verdict \in {"warn", "fail"}
  BY <1>0, Types DEF DriftRecords, DriftInv
<1>9. buffer \subseteq 1 .. recorded
  BY <1>0 DEF SendInv
<1>10. now \in 0 .. setting.time /\ recorded \in 0 .. setting.records
  BY <1>1
<1>11. {project, revoked} \subseteq BOOLEAN
  BY <1>0 DEF ShapeInv
<1>12. LiveTypeOK
  BY <1>1, <1>2, <1>3, <1>4, <1>5, <1>6, <1>7, <1>8, <1>9, <1>10, <1>11 DEF LiveTypeOK
<1>13. \A e \in audit :
        /\ e.what \in {"renamed", "minted", "revoked", "deleted", "connected", "disconnected"}
        /\ e.of \in setting.admins \cup Callbacks /\ e.by \in setting.admins
        /\ e.row \in 0 .. lastRow
  <2>1. lastRow \in Nat
    BY <1>0 DEF ShapeInv
  <2> QED
    BY <1>0, <2>1, Types DEF Entered, SlackInv
<1>14. \A c \in Callbacks : callbacks[c].phase \in CallbackPhases
  BY <1>0 DEF ShapeInv, CallbackRecords
<1>15. \A a \in setting.admins : admins[a].phase \in AdminPhases
  BY <1>0 DEF ShapeInv, AdminRecords
<1> QED
  BY <1>0, <1>12, <1>13, <1>14, <1>15 DEF TypeOK, ShapeInv, SlackInv

(* Everything keeps its type: usage is no more than was recorded, the lease *)
(* is never for longer than its TTL, and a row of the trail is of a request *)
(* and of no configuration that was never inserted (usage.py, worker.py,    *)
(* audit.py).                                                               *)
THEOREM TypeCorrect == Spec => []TypeOK
<1> QED
  BY Inductive, TypesFollow, PTL

LEMMA DriftFollows == IInv => DriftIsBacked
<1> SUFFICES ASSUME IInv PROVE DriftIsBacked
  OBVIOUS
<1>0. DriftInv
  BY DEF IInv
<1>1. Kept(requests) = Stored
  BY DEF Kept, Stored
<1>2. \A d \in DOMAIN drifts :
          /\ drifts[d].sweep \in DOMAIN sweeps
          /\ Cardinality(sweeps[drifts[d].sweep].base) >= MinSamples
          /\ Cardinality(sweeps[drifts[d].sweep].cand) >= MinSamples
          /\ sweeps[drifts[d].sweep].base \cap sweeps[drifts[d].sweep].cand = {}
          /\ sweeps[drifts[d].sweep].base \cup sweeps[drifts[d].sweep].cand
               \subseteq UNION {requests[i].batch : i \in Stored}
  BY <1>0, <1>1 DEF DriftInv, Enough, Windowed, Batches
<1> QED
  BY <1>0, <1>2 DEF DriftIsBacked, DriftInv

(* However many sweeps run, and beside one another once a lease has        *)
(* expired: a drift run is recorded once by its sweep, from two windows     *)
(* that are big enough, share nothing and hold only what was stored, and   *)
(* what is announced was recorded (drift.py).                              *)
THEOREM Backed == Spec => []DriftIsBacked
<1> QED
  BY Inductive, DriftFollows, PTL

LEMMA AuditFollows == IInv => AuditAgrees
<1> SUFFICES ASSUME IInv PROVE AuditAgrees
  OBVIOUS
<1>0. SlackInv /\ RevocationTold
  BY DEF IInv
<1>1. /\ \A e : e \in Entries("connected") <=> e \in audit /\ Connected(e)
      /\ \A e : e \in Entries("disconnected") <=> e \in audit /\ Disconnected(e)
  BY DEF Entries, Connected, Disconnected
<1>2. \A e, f \in Entries("connected") : e.by = f.by => e = f
  BY <1>0, <1>1 DEF SlackInv
<1>3. slack # NoConfig =>
          /\ \E e \in Entries("connected") : e.by = slack.by /\ e.row = slack.row
          /\ \A e \in Entries("disconnected") : e.row # slack.row
  BY <1>0, <1>1 DEF SlackInv
<1>4. ASSUME slack = NoConfig, project, NEW e \in Entries("connected")
      PROVE  \E f \in Entries("disconnected") : f.row = e.row
  <2>1. e.row # 0 /\ slack.row = 0
    BY <1>0, <1>1, <1>4 DEF NoConfig, SlackInv
  <2> QED
    BY <1>0, <1>1, <1>4, <2>1 DEF SlackInv
<1> QED
  BY <1>0, <1>2, <1>3, <1>4 DEF AuditAgrees, ConnectionTold

(* The trail agrees with the tables whoever acts at the same time: a        *)
(* request connects at most once, what is configured was connected so and   *)
(* is not said to be disconnected, every row is said to be disconnected     *)
(* when nothing is configured, a key is revoked and a project deleted       *)
(* exactly when the trail says so, and a request that failed is not told    *)
(* (manage.py, slack_oauth.py, audit.py).  It does not say that the trail   *)
(* tells a thing once, or in the order it happened.                         *)
THEOREM AuditTrue == Spec => []AuditAgrees
<1> QED
  BY Inductive, AuditFollows, PTL

LEMMA AtMostOne ==
  ASSUME NEW S, \A i, k \in S : i = k
  PROVE  /\ S = {} => Cardinality(S) = 0
         /\ S # {} => Cardinality(S) = 1
<1>1. CASE S # {}
  <2>1. PICK i : S = {i}
    BY <1>1
  <2> QED
    BY <1>1, <2>1, FS_Singleton
<1>2. CASE S = {}
  BY <1>2, FS_EmptySet
<1> QED
  BY <1>1, <1>2

LEMMA SentFollows == IInv => SentOnce
<1> SUFFICES ASSUME IInv, NEW n \in 1 .. recorded
             PROVE  /\ Cardinality(buffer) < setting.flushEvery
                    /\ Cardinality({i \in DOMAIN requests : n \in requests[i].batch})
                         + (IF n \in buffer THEN 1 ELSE 0) = 1
  BY DEF SentOnce, IInv, SendInv
<1> DEFINE S == {i \in DOMAIN requests : n \in requests[i].batch}
<1>0. SendInv
  BY DEF IInv
<1>1. \A i, k \in S : i = k
  BY <1>0 DEF SendInv
<1>2. /\ n \in buffer => S = {}
      /\ n \notin buffer => S # {}
  BY <1>0 DEF SendInv, Batches
<1> HIDE DEF S
<1>3. /\ S = {} => Cardinality(S) = 0
      /\ S # {} => Cardinality(S) = 1
  BY <1>1, AtMostOne
<1>4. Cardinality(S) + (IF n \in buffer THEN 1 ELSE 0) = 1
  BY <1>2, <1>3
<1> QED
  BY <1>0, <1>4 DEF SendInv, S

LEMMA StoredFollows == IInv => StoredOnce
<1> SUFFICES ASSUME IInv PROVE StoredOnce
  OBVIOUS
<1>0. ShapeInv /\ RequestInv /\ RowInv
  BY DEF IInv
<1>1. Kept(requests) = Stored
  BY DEF Kept, Stored
<1>2. \A i \in Stored : ~requests[i].late
  BY <1>0 DEF Stored, RequestInv, Sound
<1>3. ASSUME NEW n \in 1 .. recorded
      PROVE  Cardinality({k \in DOMAIN rows : n \in rows[k].batch}) <= 1
  <2> DEFINE S == {k \in DOMAIN rows : n \in rows[k].batch}
  <2>1. \A k, l \in S : k = l
    BY <1>0 DEF RowInv
  <2> HIDE DEF S
  <2>2. Cardinality(S) = 0 \/ Cardinality(S) = 1
    BY <2>1, AtMostOne
  <2>3. Cardinality(S) <= 1
    BY <2>2
  <2> QED
    BY <2>3 DEF S
<1>4. project => \A i \in Stored :
          requests[i].stored >= now - Retention => \E k \in DOMAIN rows : rows[k].batch = requests[i].batch
  BY <1>0, <1>1 DEF RowInv
<1> QED
  BY <1>2, <1>3, <1>4 DEF StoredOnce

LEMMA MeterFollows == IInv => Metered
<1> SUFFICES ASSUME IInv PROVE Metered
  OBVIOUS
<1>0. ShapeInv /\ RequestInv /\ SendInv /\ MeterInv
  BY DEF IInv
<1> DEFINE D == Batches(requests, Done(requests))
           U == Batches(requests, Unmetered)
           S == Batches(requests, Stored)
           B == Batches(requests, Done(requests) \cup Admitted(requests))
<1>1. Stored = Done(requests) \cup Unmetered
  BY <1>0 DEF Stored, Unmetered, Done, RequestInv, Sound
<1>2. /\ Done(requests) \subseteq DOMAIN requests /\ Unmetered \subseteq DOMAIN requests
      /\ Admitted(requests) \subseteq DOMAIN requests
      /\ Done(requests) \cap Unmetered = {}
  BY DEF Stored, Unmetered, Done, Admitted
<1>3. S = D \cup U
  BY <1>1 DEF Batches
<1>4. D \cap U = {}
  BY <1>0, <1>2 DEF Batches, SendInv
<1>5. D \subseteq B
  BY DEF Batches
<1>6. /\ IsFiniteSet(D) /\ IsFiniteSet(U) /\ IsFiniteSet(B)
      /\ Cardinality(D) \in Nat /\ Cardinality(U) \in Nat /\ Cardinality(B) \in Nat
  <2>1. Done(requests) \cup Admitted(requests) \subseteq DOMAIN requests
    BY <1>2
  <2> QED
    BY <1>0, <1>2, <2>1, SentFinite
<1>7. usage = Cardinality(D)
  BY <1>0 DEF MeterInv
<1>8. Size(Stored) = Cardinality(S) /\ Size(Unmetered) = Cardinality(U)
  BY DEF Size, Batches
<1> HIDE DEF D, U, S, B
<1>9. Cardinality(S) = Cardinality(D) + Cardinality(U)
  <2>1. Cardinality(D \cup U) = Cardinality(D) + Cardinality(U) - Cardinality(D \cap U)
    BY <1>6, FS_Union
  <2>2. Cardinality(D \cap U) = 0
    BY <1>4, FS_EmptySet
  <2> QED
    BY <1>3, <1>6, <2>1, <2>2
<1>10. usage = Size(Stored) - Size(Unmetered)
  BY <1>6, <1>7, <1>8, <1>9
<1>11. Cardinality(D) =< Cardinality(B)
  BY <1>5, <1>6, FS_Subset
<1>12. setting.capped /\ ~May("network") /\ setting.quota > 0 => Cardinality(B) < Cap(setting)
  BY <1>0 DEF MeterInv, May, B
<1>13. Cap(setting) \in Nat
  BY <1>0, CapType
<1>14. setting.capped /\ ~May("network") /\ setting.quota > 0 => usage < Cap(setting)
  BY <1>6, <1>7, <1>11, <1>12, <1>13
<1> QED
  BY <1>10, <1>14 DEF Metered, Cap

(* Every trajectory is accounted for: it is in the buffer or was sent in    *)
(* one batch (live.py:45-64); a stored batch is in the table once until its *)
(* retention and nothing is stored for a revoked key; usage is what is      *)
(* stored less what is still to be metered, and passes the quota by less    *)
(* than a batch for each recorder (traffic.py:50-63).                       *)
THEOREM Accounted == Spec => []TrafficAccounted
<1>1. IInv => TrafficAccounted
  BY SentFollows, StoredFollows, MeterFollows DEF TrafficAccounted
<1> QED
  BY <1>1, Inductive, PTL
=============================================================================
