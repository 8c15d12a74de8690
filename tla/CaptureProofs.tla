---------------------------- MODULE CaptureProofs ----------------------------
(***************************************************************************)
(* Proofs about Capture for every set of tasks, captures, settings and     *)
(* call stacks, and any number of calls.  IInv, the inductive invariant,   *)
(* says how the open calls and captures of a task determine its context    *)
(* (ChainInv, TopInv), and what a capture's tracer (HistoryInv) and each   *)
(* line of the file (LineInv) tell of the calls that were made.            *)
(***************************************************************************)
EXTENDS Capture, TLAPS, FiniteSetTheorems, SequenceTheorems, WellFoundedInduction, NaturalsInduction

(* The tracer and the marker that a frame leaves to what runs in it, and   *)
(* the marker it found.                                                    *)
Effect(f) == IF f.on = "capture" THEN f.capture ELSE f.tracer
Marks(f) == IF f.on = "capture" THEN 0 ELSE IF Shims[f.shim].marks THEN f.call ELSE f.marker
Under(f) == IF f.on = "capture" THEN 0 ELSE f.marker

Open == {"truncate", "enter", "body"}
Closed == {"written", "lost"}

(* A frame is that of an open call or of an open capture. *)
FrameInv(f, ph, cs) ==
    IF f.on = "capture" THEN ph[f.capture] \in Open
    ELSE /\ f.call \in DOMAIN cs
         /\ cs[f.call].shim = f.shim
         /\ cs[f.call].tracer = f.tracer
         /\ cs[f.call].under = f.marker
         /\ cs[f.call].end = "open"

(* The frame g runs directly in the frame f, and found what f left. *)
Links(f, g, ph) ==
    /\ g.tracer = Effect(f)
    /\ Under(g) = Marks(f)
    /\ f.on = "capture" => ph[f.capture] = "body"

(* The context of a task whose innermost frame is f. *)
Leaves(f, ctx, ph) ==
    /\ ctx.marker = Marks(f)
    /\ ctx.tracer = IF f.on = "capture" /\ ph[f.capture] # "body" THEN f.tracer ELSE Effect(f)

Same(f, g) ==
    /\ f.on = g.on
    /\ IF f.on = "capture" THEN f.capture = g.capture ELSE f.call = g.call
UniqueInv ==
    \A t, u \in Tasks : \A i \in DOMAIN stack[t], k \in DOMAIN stack[u] :
        Same(stack[t][i], stack[u][k]) => t = u /\ i = k
OpenInv == \A t \in Tasks : \A i \in DOMAIN stack[t] : FrameInv(stack[t][i], phase, calls)
ChainInv ==
    \A t \in Tasks : \A i \in DOMAIN stack[t] :
        i # Len(stack[t]) => Links(stack[t][i], stack[t][i + 1], phase)
TopInv == \A t \in Tasks : stack[t] # <<>> => t \in alive /\ Leaves(Top(t), context[t], phase)

StackInv == UniqueInv /\ OpenInv /\ ChainInv /\ TopInv

(* The call records.  What is made under a marker goes over HTTP. *)
CallRecords ==
    [shim : DOMAIN Shims, tracer : Captures, under : 0 .. MaxCalls,
     end : {"open", "unseen", "ok", "error", "cancelled"}, captured : BOOLEAN, late : BOOLEAN]
CallInv == \A n \in DOMAIN calls : calls[n].under # 0 => Shims[calls[n].shim].kind = "http"

(* Histories are sequences while they are recorded, and keep the numbers   *)
(* of their events when they are written.                                  *)
Histories == UNION {[I -> Events] : I \in SUBSET Nat}
LineRecords == [capture : Captures, failed : BOOLEAN, events : Histories]
ShapeInv ==
    /\ stack \in [Tasks -> Seq(Frames)]
    /\ events \in [Captures -> Seq(Events)]
    /\ file \in Seq(LineRecords)
    /\ calls \in Seq(CallRecords)

(* The events of a history are of calls of its capture; those of a call    *)
(* that an SDK made are superseded.                                        *)
Known(h, c, cs) ==
    \A k \in DOMAIN h :
        /\ h[k].call \in DOMAIN cs
        /\ cs[h[k].call].tracer = c
        /\ h[k].superseded <=> h[k].part # "chunk" /\ cs[h[k].call].under # 0

(* What a history tells of a call n that was r. *)
Told(h, n, r) ==
    LET starts == EventPlaces(h, n, "start")
        ends == EventPlaces(h, n, "end")
        chunks == EventPlaces(h, n, "chunk")
    IN  /\ \A i, k \in starts : i = k
        /\ \A i, k \in ends : i = k
        /\ \A s \in starts, e \in ends : s < e
        /\ r.end = "open" => ends = {} /\ chunks = {}
        /\ ~Shims[r.shim].early => \A e \in ends : r.end = IF h[e].error THEN "error" ELSE "ok"
        /\ r.end \in {"ok", "error"} /\ starts # {} => ends # {}
        /\ r.under = 0 =>
              /\ r.captured <=> starts # {}
              /\ \A k \in chunks : \E e \in ends : e < k

HistoryInv ==
    \A c \in Captures :
        /\ Known(events[c], c, calls)
        /\ \A n \in Of(c) :
              /\ phase[c] \in {"body"} \cup Closed
              /\ phase[c] = "body" => Told(events[c], n, calls[n])

LineInv(l, ph, cs) ==
    /\ ph[l.capture] = "written"
    /\ Known(l.events, l.capture, cs)
    /\ \A k \in DOMAIN l.events : ~l.events[k].superseded
    /\ \A n \in DOMAIN cs :
          cs[n].tracer = l.capture /\ ~cs[n].late => Told(l.events, n, cs[n])

FileInv ==
    /\ \A i \in DOMAIN file : LineInv(file[i], phase, calls)
    /\ \A i, k \in DOMAIN file : file[i].capture = file[k].capture => i = k

(* Until somebody has truncated the file nobody is past truncating it, and *)
(* who still may began before.                                             *)
TruncateInv ==
    \A c \in Captures :
        /\ ~seen => phase[c] \in {"new", "truncate"}
        /\ phase[c] = "truncate" => c \in stale
        /\ phase[c] = "written" =>
              (\E i \in DOMAIN file : file[i].capture = c) \/ stale \ {c} # {}

IInv ==
    /\ CaptureTypeOK
    /\ ShapeInv
    /\ StackInv
    /\ CallInv
    /\ HistoryInv
    /\ FileInv
    /\ TruncateInv
-----------------------------------------------------------------------------
(* Operators. *)

(* Only the context of a model SDK is marked, and never that of a request. *)
LEMMA ShimFacts ==
    ASSUME NEW shim \in DOMAIN Shims
    PROVE  /\ Shims[shim].marks \in BOOLEAN
           /\ Shims[shim].early \in BOOLEAN
           /\ Shims[shim].chunks \in BOOLEAN
           /\ Shims[shim].kind = "http" => ~Shims[shim].marks
<1> DEFINE Fine(w) == /\ w.marks \in BOOLEAN /\ w.early \in BOOLEAN /\ w.chunks \in BOOLEAN
                      /\ w.kind = "http" => ~w.marks
<1>1. \A kind : Fine(Wrapper(kind))
  BY DEF Wrapper
<1>2. Fine(GrpcStream)
  <2> DEFINE w == Wrapper("framework")
  <2>1. w = [kind |-> w.kind, marks |-> w.marks, chunks |-> w.chunks, early |-> FALSE]
        /\ w.kind = "framework" /\ w.marks = FALSE /\ w.chunks = FALSE
    BY DEF Wrapper
  <2>2. GrpcStream = [w EXCEPT !.early = TRUE]
    BY DEF GrpcStream
  <2> HIDE DEF w
  <2>3. GrpcStream = [kind |-> w.kind, marks |-> w.marks, chunks |-> w.chunks, early |-> TRUE]
    BY <2>1, <2>2
  <2> QED
    BY <2>1, <2>3
<1> HIDE DEF Fine
<1>3. Fine(Shims[shim])
  <2> HIDE DEF GrpcStream
  <2> QED
    BY <1>1, <1>2 DEF Shims, OpenAI, OpenAIAsync, Anthropic, AnthropicAsync, Httpx, HttpxAsync,
                      Requests, Aiohttp, Mcp, Tool, ToolAsync, Span, Node, Grpc
<1> QED
  BY <1>3 DEF Fine

(* Of the indices of some frames one is the least. *)
LEMMA LeastIndex ==
    ASSUME NEW I \in SUBSET Nat, I # {}
    PROVE  \E i \in I : \A k \in I : i <= k
<1> DEFINE R == {ss \in Nat \X Nat : ss[1] < ss[2]}
<1>1. \A k, i \in Nat : k < i => <<k, i>> \in R
  <2> SUFFICES ASSUME NEW k \in Nat, NEW i \in Nat, k < i PROVE <<k, i>> \in R
    OBVIOUS
  <2>1. <<k, i>> \in Nat \X Nat /\ <<k, i>>[1] = k /\ <<k, i>>[2] = i
    OBVIOUS
  <2> QED
    BY <2>1
<1>2. IsWellFoundedOn(R, Nat)
  BY NatLessThanWellFounded DEF OpToRel
<1> HIDE DEF R
<1>3. PICK i \in I : \A k \in I : ~(<<k, i>> \in R)
  BY <1>2, WFMin
<1>4. ASSUME NEW k \in I PROVE i <= k
  <2>1. k \in Nat /\ i \in Nat /\ ~(k < i)
    BY <1>1, <1>3, <1>4
  <2> QED
    BY <2>1
<1> QED
  BY <1>4

(* An agent's name is a display name or a user function, or there is none. *)
LEMMA AgentFacts ==
    ASSUME NEW t \in Tasks
    PROVE  InferredAgent(t) \in DisplayNames \cup Functions \cup {Nil}
<1> DEFINE user == UserFrames(t)
           known == {i \in user : CallStack[t][i].function \in DOMAIN AgentNames}
<1>1. user \subseteq Nat /\ known \subseteq user
  BY StackAssumption DEF UserFrames
<1>2. ASSUME NEW I \in SUBSET user, I # {}
      PROVE  \E i \in I : Nearest(t, I) = CallStack[t][i].function
  <2>1. \E i \in I : \A k \in I : i <= k
    BY <1>1, <1>2, LeastIndex
  <2> QED
    BY <2>1 DEF Nearest
<1>3. CASE known # {}
  <2>1. PICK i \in known : Nearest(t, known) = CallStack[t][i].function
    BY <1>1, <1>2, <1>3
  <2> QED
    BY <1>3, <2>1 DEF InferredAgent, DisplayNames
<1>4. CASE known = {} /\ user # {}
  <2>1. PICK i \in user : Nearest(t, user) = CallStack[t][i].function
    BY <1>2, <1>4
  <2>2. Nearest(t, user) \in Functions
    BY <2>1 DEF Functions, UserFrames
  <2> QED
    BY <1>4, <2>2 DEF InferredAgent
<1>5. CASE known = {} /\ user = {}
  BY <1>5 DEF InferredAgent
<1> QED
  BY <1>3, <1>4, <1>5

(* A frame on top of a sequence, and one taken off it. *)
LEMMA PushFacts ==
    ASSUME NEW S, NEW s \in Seq(S), NEW x \in S
    PROVE  /\ Append(s, x) \in Seq(S)
           /\ Append(s, x) # <<>>
           /\ Len(s) \in Nat /\ Len(Append(s, x)) = Len(s) + 1
           /\ DOMAIN s = 1 .. Len(s) /\ DOMAIN Append(s, x) = 1 .. Len(s) + 1
           /\ \A i \in DOMAIN s : Append(s, x)[i] = s[i]
           /\ Append(s, x)[Len(s) + 1] = x
           /\ Last(Append(s, x)) = x
BY AppendProperties, LenProperties DEF Last

LEMMA PopFacts ==
    ASSUME NEW S, NEW s \in Seq(S), s # <<>>
    PROVE  /\ Front(s) \in Seq(S)
           /\ Len(s) \in Nat \ {0} /\ DOMAIN s = 1 .. Len(s)
           /\ Len(Front(s)) = Len(s) - 1 /\ DOMAIN Front(s) = 1 .. Len(s) - 1
           /\ \A i \in 1 .. Len(s) - 1 : Front(s)[i] = s[i]
           /\ Last(s) = s[Len(s)] /\ Last(s) \in S
           /\ Front(s) # <<>> => Len(s) > 1 /\ Last(Front(s)) = s[Len(s) - 1]
<1>1. Len(s) \in Nat \ {0} /\ DOMAIN s = 1 .. Len(s)
  BY LenProperties, EmptySeq
<1>2. \A i \in 1 .. Len(s) : s[i] \in S
  BY ElementOfSeq
<1>3. /\ SubSeq(s, 1, Len(s) - 1) \in Seq(S)
      /\ Len(SubSeq(s, 1, Len(s) - 1)) = IF 1 <= Len(s) - 1 THEN Len(s) - 1 ELSE 0
      /\ \A i \in 1 .. Len(s) - 1 : SubSeq(s, 1, Len(s) - 1)[i] = s[i]
  <2>1. \A i \in 1 .. Len(s) - 1 : s[i] \in S
    BY <1>1, <1>2
  <2>2. 1 \in Int /\ Len(s) - 1 \in Int
    BY <1>1
  <2> QED
    BY <1>1, <2>1, <2>2, SubSeqProperties
<1>4. Len(Front(s)) = Len(s) - 1 /\ DOMAIN Front(s) = 1 .. Len(s) - 1 /\ Front(s) \in Seq(S)
  BY <1>1, <1>3, LenProperties DEF Front
<1>5. Front(s) # <<>> => Len(s) - 1 # 0
  BY <1>4, EmptySeq
<1> QED
  BY <1>1, <1>2, <1>3, <1>4, <1>5 DEF Front, Last

-----------------------------------------------------------------------------
(* Histories. *)

LEMMA AppendPlaces ==
    ASSUME NEW h \in Seq(Events), NEW e \in Events, NEW n, NEW part
    PROVE  /\ EventPlaces(h, n, part) \subseteq 1 .. Len(h)
           /\ Len(h) \in Nat
           /\ \A i \in 1 .. Len(h) : Append(h, e)[i] = h[i]
           /\ Append(h, e)[Len(h) + 1] = e
           /\ EventPlaces(Append(h, e), n, part) =
                EventPlaces(h, n, part) \cup (IF e.call = n /\ e.part = part THEN {Len(h) + 1} ELSE {})
<1> DEFINE g == Append(h, e)
<1>1. /\ Len(h) \in Nat /\ DOMAIN h = 1 .. Len(h) /\ DOMAIN g = 1 .. Len(h) + 1
      /\ \A i \in DOMAIN h : g[i] = h[i]
      /\ g[Len(h) + 1] = e
  BY PushFacts
<1>2. DOMAIN g = DOMAIN h \cup {Len(h) + 1} /\ Len(h) + 1 \notin DOMAIN h
  BY <1>1
<1> HIDE DEF g
<1>3. EventPlaces(g, n, part) =
        EventPlaces(h, n, part) \cup (IF e.call = n /\ e.part = part THEN {Len(h) + 1} ELSE {})
  BY <1>1, <1>2 DEF EventPlaces
<1> QED
  BY <1>1, <1>3 DEF g, EventPlaces

(* A history knows as much of call records that only grew or ended. *)
LEMMA KnownGrows ==
    ASSUME NEW cs, NEW ds, NEW h, NEW c, Known(h, c, cs),
           \A n \in DOMAIN cs : /\ n \in DOMAIN ds
                                /\ ds[n].tracer = cs[n].tracer /\ ds[n].under = cs[n].under
    PROVE  Known(h, c, ds)
BY DEF Known

LEMMA KnownAppend ==
    ASSUME NEW cs, NEW c, NEW h \in Seq(Events), Known(h, c, cs), NEW e \in Events,
           e.call \in DOMAIN cs, cs[e.call].tracer = c,
           e.superseded <=> e.part # "chunk" /\ cs[e.call].under # 0
    PROVE  Known(Append(h, e), c, cs)
<1> DEFINE g == Append(h, e)
<1>1. /\ Len(h) \in Nat /\ DOMAIN h = 1 .. Len(h) /\ DOMAIN g = 1 .. Len(h) + 1
      /\ \A i \in DOMAIN h : g[i] = h[i]
      /\ g[Len(h) + 1] = e
  BY PushFacts
<1>2. \A k \in DOMAIN g : k \in DOMAIN h \/ k = Len(h) + 1
  BY <1>1
<1> HIDE DEF g
<1>3. Known(g, c, cs)
  BY <1>1, <1>2 DEF Known
<1> QED
  BY <1>3 DEF g

(* An event of another call does not change what is told of this one. *)
LEMMA ToldOther ==
    ASSUME NEW h \in Seq(Events), NEW n, NEW r, Told(h, n, r), NEW e \in Events, e.call # n
    PROVE  Told(Append(h, e), n, r)
<1> DEFINE g == Append(h, e)
<1>1. ASSUME NEW part PROVE EventPlaces(g, n, part) = EventPlaces(h, n, part)
  <2>1. EventPlaces(g, n, part) = EventPlaces(h, n, part) \cup (IF e.call = n /\ e.part = part THEN {Len(h) + 1} ELSE {})
    BY AppendPlaces
  <2> HIDE DEF g
  <2> QED
    BY <2>1
<1>2. \A i \in EventPlaces(h, n, "end") : g[i] = h[i]
  BY AppendPlaces
<1> HIDE DEF g
<1>3. Told(g, n, r)
  BY <1>1, <1>2 DEF Told
<1> QED
  BY <1>3 DEF g

(* The start of a call, recorded or not. *)
LEMMA ToldStart ==
    ASSUME NEW h \in Seq(Events), NEW n, NEW r, NEW e \in Events, NEW es \in {h, Append(h, e)},
           \A k \in DOMAIN h : h[k].call # n,
           e.call = n, e.part = "start", r.end = "open", r.captured <=> es # h
    PROVE  Told(es, n, r)
<1>1. \A part : EventPlaces(h, n, part) = {}
  BY DEF EventPlaces
<1>2. CASE es = h
  <2>1. Told(h, n, r)
    BY <1>1, <1>2 DEF Told
  <2> QED
    BY <1>2, <2>1
<1>3. CASE es = Append(h, e)
  <2>1. EventPlaces(es, n, "start") = {Len(h) + 1} /\ EventPlaces(es, n, "end") = {} /\ EventPlaces(es, n, "chunk") = {}
    BY <1>1, <1>3, AppendPlaces
  <2>2. es # h
    BY <1>1, <2>1
  <2> QED
    BY <2>1, <2>2 DEF Told
<1> QED
  BY <1>2, <1>3

(* The end of an open call. *)
LEMMA ToldEnd ==
    ASSUME NEW h \in Seq(Events), NEW n, NEW r \in CallRecords, Told(h, n, r), r.end = "open",
           NEW e \in Events, e.call = n, e.part = "end",
           NEW o \in {"ok", "error", "cancelled"},
           ~Shims[r.shim].early => o = IF e.error THEN "error" ELSE "ok"
    PROVE  Told(Append(h, e), n, [r EXCEPT !.end = o])
<1> DEFINE g == Append(h, e)
           q == [r EXCEPT !.end = o]
<1>1. q.end = o /\ q.shim = r.shim /\ q.under = r.under /\ q.captured = r.captured
  BY DEF CallRecords
<1>2. /\ EventPlaces(g, n, "start") = EventPlaces(h, n, "start")
      /\ EventPlaces(h, n, "start") \subseteq 1 .. Len(h) /\ Len(h) \in Nat
      /\ EventPlaces(g, n, "end") = EventPlaces(h, n, "end") \cup {Len(h) + 1}
      /\ EventPlaces(g, n, "chunk") = EventPlaces(h, n, "chunk")
      /\ g[Len(h) + 1] = e
  <2>1. ASSUME NEW part
        PROVE  EventPlaces(g, n, part) = IF e.part = part THEN EventPlaces(h, n, part) \cup {Len(h) + 1}
                                         ELSE EventPlaces(h, n, part)
    <3>1. EventPlaces(g, n, part) = EventPlaces(h, n, part)
                                 \cup (IF e.call = n /\ e.part = part THEN {Len(h) + 1} ELSE {})
      BY AppendPlaces
    <3> HIDE DEF g
    <3> QED
      BY <3>1
  <2>2. EventPlaces(h, n, "start") \subseteq 1 .. Len(h) /\ Len(h) \in Nat /\ g[Len(h) + 1] = e
    BY AppendPlaces
  <2> HIDE DEF g
  <2> QED
    BY <2>1, <2>2
<1>3. EventPlaces(h, n, "end") = {} /\ EventPlaces(h, n, "chunk") = {}
  BY DEF Told
<1>4. \A s \in EventPlaces(h, n, "start") : s < Len(h) + 1
  BY <1>2
<1> HIDE DEF g, q
<1>5. EventPlaces(g, n, "end") = {Len(h) + 1} /\ EventPlaces(g, n, "chunk") = {}
  BY <1>2, <1>3
<1>6. /\ \A i, k \in EventPlaces(h, n, "start") : i = k
      /\ r.under = 0 => (r.captured <=> EventPlaces(h, n, "start") # {})
  BY DEF Told
<1>7. ~Shims[q.shim].early => q.end = IF g[Len(h) + 1].error THEN "error" ELSE "ok"
  BY <1>1, <1>2
<1> DEFINE starts == EventPlaces(g, n, "start")
           ends == EventPlaces(g, n, "end")
           chunks == EventPlaces(g, n, "chunk")
<1>8. /\ \A i, k \in starts : i = k
      /\ \A i, k \in ends : i = k
      /\ \A s \in starts, f \in ends : s < f
      /\ ~Shims[q.shim].early => \A f \in ends : q.end = IF g[f].error THEN "error" ELSE "ok"
      /\ ends # {} /\ chunks = {} /\ q.end # "open"
      /\ q.under = 0 => (q.captured <=> starts # {})
  <2>1. starts = EventPlaces(h, n, "start") /\ ends = {Len(h) + 1} /\ chunks = {}
    BY <1>2, <1>5
  <2> HIDE DEF starts, ends, chunks
  <2>2. q.end # "open"
    BY <1>1
  <2> QED
    BY <1>1, <1>4, <1>6, <1>7, <2>1, <2>2
<1> HIDE DEF starts, ends, chunks
<1>9. Told(g, n, q)
  BY <1>8 DEF Told, starts, ends, chunks
<1> QED
  BY <1>9 DEF g, q

(* Chunks after an end. *)
LEMMA ToldChunk ==
    ASSUME NEW h \in Seq(Events), NEW n, NEW r, Told(h, n, r), r.end # "open",
           EventPlaces(h, n, "end") # {}, NEW e \in Events, e.call = n, e.part = "chunk"
    PROVE  Told(Append(h, e), n, r)
<1> DEFINE g == Append(h, e)
<1>1. /\ EventPlaces(g, n, "start") = EventPlaces(h, n, "start")
      /\ EventPlaces(g, n, "end") = EventPlaces(h, n, "end")
      /\ EventPlaces(g, n, "chunk") = EventPlaces(h, n, "chunk") \cup {Len(h) + 1}
      /\ \A i \in EventPlaces(h, n, "end") : g[i] = h[i] /\ i < Len(h) + 1
  <2>1. ASSUME NEW part
        PROVE  EventPlaces(g, n, part) = IF e.part = part THEN EventPlaces(h, n, part) \cup {Len(h) + 1}
                                         ELSE EventPlaces(h, n, part)
    <3>1. EventPlaces(g, n, part) = EventPlaces(h, n, part)
                                 \cup (IF e.call = n /\ e.part = part THEN {Len(h) + 1} ELSE {})
      BY AppendPlaces
    <3> HIDE DEF g
    <3> QED
      BY <3>1
  <2>2. EventPlaces(h, n, "end") \subseteq 1 .. Len(h) /\ Len(h) \in Nat /\ \A i \in 1 .. Len(h) : g[i] = h[i]
    BY AppendPlaces
  <2> HIDE DEF g
  <2> QED
    BY <2>1, <2>2
<1> HIDE DEF g
<1>2. Told(g, n, r)
  BY <1>1 DEF Told
<1> QED
  BY <1>2 DEF g

(* A call that ends without an event. *)
LEMMA ToldSilence ==
    ASSUME NEW h, NEW n, NEW r \in CallRecords, Told(h, n, r), r.end = "open",
           NEW o \in {"unseen", "cancelled"}
    PROVE  Told(h, n, [r EXCEPT !.end = o])
<1> DEFINE q == [r EXCEPT !.end = o]
<1>1. q.end = o /\ q.shim = r.shim /\ q.under = r.under /\ q.captured = r.captured
  BY DEF CallRecords
<1> HIDE DEF q
<1>2. Told(h, n, q)
  BY <1>1 DEF Told
<1> QED
  BY <1>2 DEF q

(* What a flush keeps of a history tells the same. *)
LEMMA KeptTold ==
    ASSUME NEW cs, NEW c, NEW h, Known(h, c, cs)
    PROVE  /\ Known(Kept(h), c, cs)
           /\ \A k \in DOMAIN Kept(h) : ~Kept(h)[k].superseded
           /\ \A n : Told(h, n, cs[n]) => Told(Kept(h), n, cs[n])
<1>1. DOMAIN Kept(h) = {i \in DOMAIN h : ~h[i].superseded} /\ \A k \in DOMAIN Kept(h) : Kept(h)[k] = h[k]
  BY DEF Kept
<1>2. Known(Kept(h), c, cs) /\ \A k \in DOMAIN Kept(h) : ~Kept(h)[k].superseded
  BY <1>1 DEF Known
<1>3. ASSUME NEW n, Told(h, n, cs[n])
      PROVE  Told(Kept(h), n, cs[n])
  <2>1. \A part : EventPlaces(Kept(h), n, part) \subseteq EventPlaces(h, n, part)
    BY <1>1 DEF EventPlaces
  <2>2. EventPlaces(Kept(h), n, "chunk") = EventPlaces(h, n, "chunk")
    BY <1>1 DEF EventPlaces, Known
  <2>3. \A i \in EventPlaces(Kept(h), n, "end") : Kept(h)[i] = h[i]
    BY <1>1 DEF EventPlaces
  <2>4. CASE cs[n].under # 0
    <3>1. EventPlaces(Kept(h), n, "start") = {} /\ EventPlaces(Kept(h), n, "end") = {}
      BY <1>1, <2>4 DEF EventPlaces, Known
    <3> QED
      BY <1>3, <2>2, <2>4, <3>1 DEF Told
  <2>5. CASE cs[n].under = 0
    <3>1. EventPlaces(Kept(h), n, "start") = EventPlaces(h, n, "start") /\ EventPlaces(Kept(h), n, "end") = EventPlaces(h, n, "end")
      BY <1>1, <2>5 DEF EventPlaces, Known
    <3> QED
      BY <1>3, <2>2, <2>3, <3>1 DEF Told
  <2> QED
    BY <2>4, <2>5
<1> QED
  BY <1>2, <1>3
-----------------------------------------------------------------------------
(* Stacks. *)

LEMMA TopFacts ==
    ASSUME stack \in [Tasks -> Seq(Frames)], NEW u \in Tasks, stack[u] # <<>>
    PROVE  /\ Len(stack[u]) \in DOMAIN stack[u]
           /\ Last(stack[u]) = stack[u][Len(stack[u])]
           /\ Top(u) = stack[u][Len(stack[u])] /\ Top(u) \in Frames
<1> DEFINE s == stack[u]
<1>1. s \in Seq(Frames) /\ s # <<>>
  OBVIOUS
<1> HIDE DEF s
<1>2. Len(s) \in Nat \ {0} /\ DOMAIN s = 1 .. Len(s) /\ Last(s) = s[Len(s)] /\ Last(s) \in Frames
  BY <1>1, PopFacts
<1>3. Len(s) \in DOMAIN s
  BY <1>2
<1> QED
  BY <1>2, <1>3 DEF s, Top

(* A frame that links to the innermost one goes on top of it. *)
LEMMA PushStack ==
    ASSUME stack \in [Tasks -> Seq(Frames)], StackInv, NEW t \in Tasks, NEW f \in Frames,
           Push(t, f), alive' = alive, t \in alive,
           \A u \in Tasks : \A i \in DOMAIN stack[u] :
               LET g == stack[u][i] IN
               /\ ~Same(g, f) /\ ~Same(f, g)
               /\ FrameInv(g, phase', calls')
               /\ g.on = "capture" => phase'[g.capture] = phase[g.capture],
           FrameInv(f, phase', calls'),
           stack[t] # <<>> => Links(Top(t), f, phase),
           Leaves(f, context'[t], phase'),
           \A u \in Tasks \ {t} : context'[u] = context[u]
    PROVE  StackInv' /\ stack' \in [Tasks -> Seq(Frames)]
<1> DEFINE N == Len(stack[t])
           g(u, i) == stack[u][i]
<1>1. /\ stack'[t] \in Seq(Frames) /\ stack'[t] # <<>>
      /\ N \in Nat /\ Len(stack'[t]) = N + 1
      /\ DOMAIN stack[t] = 1 .. N /\ DOMAIN stack'[t] = 1 .. N + 1
      /\ \A i \in DOMAIN stack[t] : stack'[t][i] = stack[t][i]
      /\ stack'[t][N + 1] = f
      /\ Last(stack'[t]) = f
  <2>1. stack'[t] = Append(stack[t], f) /\ stack[t] \in Seq(Frames)
    BY DEF Push
  <2> QED
    BY <2>1, PushFacts
<1>2. \A u \in Tasks \ {t} : stack'[u] = stack[u]
  BY DEF Push
<1>3. stack' \in [Tasks -> Seq(Frames)]
  BY <1>1 DEF Push
<1>4. \A i \in DOMAIN stack'[t] : i \in DOMAIN stack[t] \/ i = N + 1
  BY <1>1
<1>5. N + 1 \notin DOMAIN stack[t]
  BY <1>1
<1> HIDE DEF N
<1>6. UniqueInv'
  <2> SUFFICES ASSUME NEW u \in Tasks, NEW v \in Tasks, NEW i \in DOMAIN stack'[u],
                      NEW k \in DOMAIN stack'[v], Same(stack'[u][i], stack'[v][k])
               PROVE  u = v /\ i = k
    BY DEF UniqueInv, Same
  <2>1. \/ u = t /\ i = N + 1 /\ stack'[u][i] = f
        \/ i \in DOMAIN stack[u] /\ stack'[u][i] = stack[u][i]
    BY <1>1, <1>2, <1>4
  <2>2. \/ v = t /\ k = N + 1 /\ stack'[v][k] = f
        \/ k \in DOMAIN stack[v] /\ stack'[v][k] = stack[v][k]
    BY <1>1, <1>2, <1>4
  <2> QED
    BY <2>1, <2>2 DEF UniqueInv, StackInv
<1>7. OpenInv'
  <2> SUFFICES ASSUME NEW u \in Tasks, NEW i \in DOMAIN stack'[u]
               PROVE  FrameInv(stack'[u][i], phase', calls')
    BY DEF OpenInv
  <2>1. \/ u = t /\ i = N + 1 /\ stack'[u][i] = f
        \/ i \in DOMAIN stack[u] /\ stack'[u][i] = stack[u][i]
    BY <1>1, <1>2, <1>4
  <2> QED
    BY <2>1
<1>8. ChainInv'
  <2> SUFFICES ASSUME NEW u \in Tasks, NEW i \in DOMAIN stack'[u], i # Len(stack'[u])
               PROVE  Links(stack'[u][i], stack'[u][i + 1], phase')
    BY DEF ChainInv
  <2>1. i \in DOMAIN stack[u] /\ stack'[u][i] = stack[u][i]
    BY <1>1, <1>2, <1>4
  <2>2. Links(stack[u][i], stack'[u][i + 1], phase)
    <3>1. CASE u # t
      BY <1>2, <2>1, <3>1 DEF ChainInv, StackInv
    <3>2. CASE u = t /\ i # N
      <4>1. i + 1 \in DOMAIN stack[t]
        BY <1>1, <2>1, <3>2
      <4> QED
        BY <1>1, <2>1, <3>2, <4>1 DEF ChainInv, StackInv, N
    <3>3. CASE u = t /\ i = N
      <4>1. stack[t] # <<>> /\ Top(t) = stack[t][N]
        BY <2>1, <3>3, <1>1, EmptySeq DEF Top, Last, N
      <4> QED
        BY <1>1, <3>3, <4>1
    <3> QED
      BY <3>1, <3>2, <3>3
  <2> QED
    BY <2>1, <2>2 DEF Links
<1>9. TopInv'
  <2> SUFFICES ASSUME NEW u \in Tasks, stack'[u] # <<>>
               PROVE  u \in alive' /\ Leaves(Last(stack'[u]), context'[u], phase')
    BY DEF TopInv, Top
  <2>1. CASE u = t
    BY <1>1, <2>1
  <2>2. CASE u # t
    <3>1. Len(stack[u]) \in DOMAIN stack[u] /\ Last(stack[u]) = stack[u][Len(stack[u])]
      BY <1>2, <2>2, TopFacts
    <3>2. u \in alive /\ Leaves(Last(stack[u]), context[u], phase)
      BY <1>2, <2>2 DEF StackInv, TopInv, Top
    <3> QED
      BY <1>2, <2>2, <3>1, <3>2 DEF Leaves
  <2> QED
    BY <2>1, <2>2
<1> QED
  BY <1>3, <1>6, <1>7, <1>8, <1>9 DEF StackInv

(* Taking the innermost frame off leaves what that frame had found. *)
LEMMA PopStack ==
    ASSUME stack \in [Tasks -> Seq(Frames)], StackInv, NEW t \in Tasks, stack[t] # <<>>,
           Pop(t), alive' = alive,
           \A u \in Tasks : \A i \in DOMAIN stack[u] :
               LET g == stack[u][i] IN
               u # t \/ i # Len(stack[t]) =>
                 /\ FrameInv(g, phase', calls')
                 /\ g.on = "capture" => phase'[g.capture] = phase[g.capture],
           context'[t].tracer = Top(t).tracer, context'[t].marker = Under(Top(t)),
           \A u \in Tasks \ {t} : context'[u] = context[u]
    PROVE  StackInv' /\ stack' \in [Tasks -> Seq(Frames)]
<1> DEFINE N == Len(stack[t])
<1>1. /\ stack'[t] \in Seq(Frames)
      /\ N \in Nat \ {0} /\ DOMAIN stack[t] = 1 .. N
      /\ Len(stack'[t]) = N - 1 /\ DOMAIN stack'[t] = 1 .. N - 1
      /\ \A i \in 1 .. N - 1 : stack'[t][i] = stack[t][i]
      /\ Top(t) = stack[t][N]
      /\ stack'[t] # <<>> => N > 1 /\ Last(stack'[t]) = stack[t][N - 1]
  <2> DEFINE s == stack[t]
  <2>1. stack'[t] = Front(s) /\ s \in Seq(Frames) /\ s # <<>>
    BY DEF Pop
  <2> HIDE DEF s
  <2>2. /\ Front(s) \in Seq(Frames)
        /\ Len(s) \in Nat \ {0} /\ DOMAIN s = 1 .. Len(s)
        /\ Len(Front(s)) = Len(s) - 1 /\ DOMAIN Front(s) = 1 .. Len(s) - 1
        /\ \A i \in 1 .. Len(s) - 1 : Front(s)[i] = s[i]
        /\ Last(s) = s[Len(s)]
        /\ Front(s) # <<>> => Len(s) > 1 /\ Last(Front(s)) = s[Len(s) - 1]
    BY <2>1, PopFacts
  <2> QED
    BY <2>1, <2>2 DEF Top, s
<1>2. \A u \in Tasks \ {t} : stack'[u] = stack[u]
  BY DEF Pop
<1>3. stack' \in [Tasks -> Seq(Frames)]
  BY <1>1 DEF Pop
<1> HIDE DEF N
<1>4. ASSUME NEW u \in Tasks, NEW i \in DOMAIN stack'[u]
      PROVE  i \in DOMAIN stack[u] /\ stack'[u][i] = stack[u][i] /\ (u # t \/ i # Len(stack[t]))
  <2>1. CASE u = t
    <3>1. i \in 1 .. N - 1 /\ N \in Nat
      BY <1>1, <1>4, <2>1
    <3>2. i \in 1 .. N /\ i # N
      BY <3>1
    <3> QED
      BY <1>1, <2>1, <3>1, <3>2 DEF N
  <2>2. CASE u # t
    BY <1>2, <1>4, <2>2
  <2> QED
    BY <2>1, <2>2
<1>5. UniqueInv'
  BY <1>4 DEF UniqueInv, StackInv
<1>6. OpenInv'
  BY <1>4 DEF OpenInv
<1>7. ChainInv'
  <2> SUFFICES ASSUME NEW u \in Tasks, NEW i \in DOMAIN stack'[u], i # Len(stack'[u])
               PROVE  Links(stack'[u][i], stack'[u][i + 1], phase')
    BY DEF ChainInv
  <2>1. i # Len(stack[u]) /\ i + 1 \in DOMAIN stack'[u]
    <3>1. CASE u = t
      <4>1. i \in 1 .. N - 1 /\ i # N - 1 /\ N \in Nat
        BY <1>1, <3>1
      <4>2. i # N /\ i + 1 \in 1 .. N - 1
        BY <4>1
      <4> QED
        BY <1>1, <3>1, <4>2 DEF N
    <3>2. CASE u # t
      <4>1. DOMAIN stack[u] = 1 .. Len(stack[u]) /\ Len(stack[u]) \in Nat
        BY LenProperties
      <4> QED
        BY <1>2, <3>2, <4>1
    <3> QED
      BY <3>1, <3>2, SMTT(60)
  <2>2. Links(stack[u][i], stack[u][i + 1], phase)
    BY <1>4, <2>1 DEF StackInv, ChainInv
  <2> QED
    BY <1>4, <2>1, <2>2 DEF Links
<1>8. TopInv'
  <2> SUFFICES ASSUME NEW u \in Tasks, stack'[u] # <<>>
               PROVE  u \in alive' /\ Leaves(Last(stack'[u]), context'[u], phase')
    BY DEF TopInv, Top
  <2>1. CASE u = t
    <3>1. N - 1 \in DOMAIN stack[t] /\ N - 1 # N /\ N - 1 + 1 = N /\ N - 1 \in DOMAIN stack'[t]
      BY <1>1, <2>1
    <3>2. Links(stack[t][N - 1], stack[t][N - 1 + 1], phase)
      BY <3>1, SMTT(60) DEF StackInv, ChainInv, N
    <3>3. Links(stack[t][N - 1], Top(t), phase')
      BY <1>1, <3>1, <3>2 DEF Links, N
    <3> QED
      BY <1>1, <2>1, <3>3 DEF Links, Leaves, StackInv, TopInv
  <2>2. CASE u # t
    <3>1. Len(stack[u]) \in DOMAIN stack[u] /\ Last(stack[u]) = stack[u][Len(stack[u])]
      BY <1>2, <2>2, TopFacts
    <3>2. u \in alive /\ Leaves(Last(stack[u]), context[u], phase)
      BY <1>2, <2>2 DEF StackInv, TopInv, Top
    <3> QED
      BY <1>2, <2>2, <3>1, <3>2 DEF Leaves
  <2> QED
    BY <2>1, <2>2
<1> QED
  BY <1>3, <1>5, <1>6, <1>7, <1>8 DEF StackInv

(* The innermost frame, a capture, moves on. *)
LEMMA HoldStack ==
    ASSUME stack \in [Tasks -> Seq(Frames)], StackInv, NEW t \in Tasks, stack[t] # <<>>,
           UNCHANGED <<stack, alive>>,
           \A u \in Tasks : \A i \in DOMAIN stack[u] :
               LET g == stack[u][i] IN
               /\ FrameInv(g, phase', calls')
               /\ u # t \/ i # Len(stack[t]) =>
                     (g.on = "capture" => phase'[g.capture] = phase[g.capture]),
           Leaves(Top(t), context'[t], phase'),
           \A u \in Tasks \ {t} : context'[u] = context[u]
    PROVE  StackInv' /\ stack' \in [Tasks -> Seq(Frames)]
<1>1. UniqueInv' /\ OpenInv'
  BY DEF UniqueInv, OpenInv, StackInv
<1>2. ChainInv'
  BY DEF ChainInv, StackInv, Links
<1>3. TopInv'
  <2> SUFFICES ASSUME NEW u \in Tasks, stack[u] # <<>>
               PROVE  u \in alive /\ Leaves(Last(stack[u]), context'[u], phase')
    BY DEF TopInv, Top
  <2>1. u \in alive /\ Leaves(Last(stack[u]), context[u], phase)
    BY DEF StackInv, TopInv, Top
  <2>2. CASE u = t
    BY <2>1, <2>2 DEF Top
  <2>3. CASE u # t
    <3>1. Len(stack[u]) \in DOMAIN stack[u] /\ Last(stack[u]) = stack[u][Len(stack[u])]
      BY TopFacts
    <3> QED
      BY <2>1, <2>3, <3>1 DEF Leaves
  <2> QED
    BY <2>2, <2>3
<1> QED
  BY <1>1, <1>2, <1>3 DEF StackInv
-----------------------------------------------------------------------------
(* What a step leaves alone. *)

LEMMA TypesNext ==
    ASSUME ShapeInv', scenario' \in Scenarios, installed' \subseteq Available \cup Decorators,
           Main \in alive', alive' \subseteq Tasks, context' \in [Tasks -> Contexts],
           phase' \in [Captures -> {"new", "truncate", "enter", "body", "written", "lost"}],
           seen' \in BOOLEAN, Len(calls') <= MaxCalls, stale' \subseteq Captures
    PROVE  CaptureTypeOK'
<1>1. \A t \in Tasks : Range(stack'[t]) \subseteq Frames
  <2> SUFFICES ASSUME NEW t \in Tasks PROVE Range(stack'[t]) \subseteq Frames
    OBVIOUS
  <2>1. stack'[t] \in Seq(Frames)
    BY DEF ShapeInv
  <2>2. \A i \in DOMAIN stack'[t] : stack'[t][i] \in Frames
    BY <2>1, LenProperties, ElementOfSeq
  <2> QED
    BY <2>2 DEF Range
<1>2. \A c \in Captures : Range(events'[c]) \subseteq Events
  <2> SUFFICES ASSUME NEW c \in Captures PROVE Range(events'[c]) \subseteq Events
    OBVIOUS
  <2>1. events'[c] \in Seq(Events)
    BY DEF ShapeInv
  <2>2. \A i \in DOMAIN events'[c] : events'[c][i] \in Events
    BY <2>1, LenProperties, ElementOfSeq
  <2> QED
    BY <2>2 DEF Range
<1>3. \A i \in DOMAIN file' : file'[i].capture \in Captures /\ Range(file'[i].events) \subseteq Events
  <2> SUFFICES ASSUME NEW i \in DOMAIN file'
               PROVE  file'[i].capture \in Captures /\ Range(file'[i].events) \subseteq Events
    OBVIOUS
  <2>1. file'[i] \in LineRecords
    BY LenProperties, ElementOfSeq DEF ShapeInv
  <2>2. PICK I \in SUBSET Nat : file'[i].events \in [I -> Events]
    BY <2>1 DEF LineRecords, Histories
  <2>3. file'[i].capture \in Captures
    BY <2>1 DEF LineRecords
  <2>4. \A k \in DOMAIN file'[i].events : file'[i].events[k] \in Events
    BY <2>2
  <2> QED
    BY <2>3, <2>4 DEF Range
<1> QED
  BY <1>1, <1>2, <1>3 DEF CaptureTypeOK

LEMMA HistoryFrame ==
    ASSUME HistoryInv, calls' = calls, events' = events,
           \A c \in Captures : phase[c] \in {"body"} \cup Closed =>
                                  phase'[c] = phase[c] \/ phase'[c] \in Closed
    PROVE  HistoryInv'
BY DEF HistoryInv, Of, Closed

LEMMA FileFrame ==
    ASSUME FileInv, ShapeInv, file' = file, calls' = calls,
           \A c \in Captures : phase[c] = "written" => phase'[c] = "written"
    PROVE  FileInv'
<1>1. \A i \in DOMAIN file : file[i] \in LineRecords
  BY LenProperties, ElementOfSeq DEF ShapeInv
<1> QED
  BY <1>1 DEF FileInv, LineInv, LineRecords

(* A frame does not mind another capture's phase. *)
LEMMA FramesKeep ==
    ASSUME NEW f \in Frames, NEW c, NEW p, phase' = [phase EXCEPT ![c] = p], calls' = calls,
           phase \in [Captures -> {"new", "truncate", "enter", "body", "written", "lost"}],
           FrameInv(f, phase, calls), f.on = "capture" => f.capture # c
    PROVE  /\ FrameInv(f, phase', calls')
           /\ f.on = "capture" => phase'[f.capture] = phase[f.capture]
BY DEF FrameInv, Frames

(* A step that only moves tasks, contexts and wrappers. *)
LEMMA QuietStep ==
    ASSUME IInv, UNCHANGED <<stack, events, phase, seen, file, calls, stale>>,
           StackInv', scenario' \in Scenarios, installed' \subseteq Available \cup Decorators,
           Main \in alive', alive' \subseteq Tasks, context' \in [Tasks -> Contexts]
    PROVE  IInv'
<1>1. ShapeInv'
  BY DEF IInv, ShapeInv
<1>2. CaptureTypeOK'
  BY <1>1, TypesNext DEF IInv, CaptureTypeOK
<1>3. CallInv' /\ TruncateInv'
  BY DEF IInv, CallInv, TruncateInv
<1>4. HistoryInv'
  BY HistoryFrame DEF IInv
<1>5. FileInv'
  BY FileFrame DEF IInv
<1> QED
  BY <1>1, <1>2, <1>3, <1>4, <1>5 DEF IInv

LEMMA SpawnStep ==
    ASSUME IInv, NEW t \in Tasks, NEW u \in Tasks, NEW copied \in BOOLEAN, Spawn(t, u, copied)
    PROVE  IInv'
<1> USE DEF Spawn
<1>0. StackInv /\ CaptureTypeOK
  BY DEF IInv
<1>1. context' \in [Tasks -> Contexts] /\ \A v \in Tasks \ {u} : context'[v] = context[v]
  BY <1>0 DEF CaptureTypeOK
<1>2. alive' \subseteq Tasks /\ Main \in alive' /\ scenario' \in Scenarios
      /\ installed' \subseteq Available \cup Decorators
  BY <1>0 DEF CaptureTypeOK
<1>3. stack[u] = <<>>
  BY <1>0 DEF StackInv, TopInv
<1>4. UniqueInv' /\ OpenInv' /\ ChainInv'
  BY <1>0 DEF StackInv, UniqueInv, OpenInv, ChainInv
<1>5. TopInv'
  <2> SUFFICES ASSUME NEW v \in Tasks, stack[v] # <<>>
               PROVE  v \in alive' /\ Leaves(Last(stack[v]), context'[v], phase)
    BY DEF TopInv, Top
  <2> QED
    BY <1>0, <1>1, <1>3 DEF StackInv, TopInv, Top
<1> QED
  BY <1>1, <1>2, <1>4, <1>5, QuietStep DEF StackInv

LEMMA UninstallStep ==
    ASSUME IInv, Uninstall
    PROVE  IInv'
<1> USE DEF Uninstall
<1>1. StackInv'
  BY DEF IInv, StackInv, UniqueInv, OpenInv, ChainInv, TopInv, Top
<1>2. CaptureTypeOK
  BY DEF IInv
<1> QED
  BY <1>1, <1>2, QuietStep DEF CaptureTypeOK

(* A capture on the stack is on it once. *)
LEMMA OtherCaptures ==
    ASSUME StackInv, NEW t \in Tasks, NEW u \in Tasks, NEW k \in DOMAIN stack[t],
           NEW i \in DOMAIN stack[u], u # t \/ i # k,
           stack[t][k].on = "capture", stack[u][i].on = "capture"
    PROVE  stack[u][i].capture # stack[t][k].capture
BY DEF StackInv, UniqueInv, Same

LEMMA RecordStep ==
    ASSUME IInv, NEW t \in Tasks, NEW c \in Captures, Record(t, c)
    PROVE  IInv'
<1> USE DEF Record
<1>0. StackInv /\ CaptureTypeOK /\ ShapeInv /\ HistoryInv /\ FileInv /\ TruncateInv
  BY DEF IInv
<1> DEFINE f == [on |-> "capture", capture |-> c, tracer |-> context[t].tracer]
<1>1. f \in Frames
  BY <1>0 DEF CaptureTypeOK, Contexts, Frames
<1>2. phase' \in [Captures -> {"new", "truncate", "enter", "body", "written", "lost"}]
      /\ phase'[c] \in {"enter", "truncate"} /\ \A d \in Captures \ {c} : phase'[d] = phase[d]
  BY <1>0 DEF CaptureTypeOK
<1>3. \A u \in Tasks : \A i \in DOMAIN stack[u] :
          /\ ~Same(stack[u][i], f) /\ ~Same(f, stack[u][i])
          /\ FrameInv(stack[u][i], phase', calls')
          /\ stack[u][i].on = "capture" => phase'[stack[u][i].capture] = phase[stack[u][i].capture]
  <2> SUFFICES ASSUME NEW u \in Tasks, NEW i \in DOMAIN stack[u]
               PROVE  LET g == stack[u][i] IN
                      /\ ~Same(g, f) /\ ~Same(f, g)
                      /\ FrameInv(g, phase', calls')
                      /\ g.on = "capture" => phase'[g.capture] = phase[g.capture]
    OBVIOUS
  <2>1. stack[u][i] \in Frames
    BY <1>0, LenProperties, ElementOfSeq DEF ShapeInv
  <2>2. FrameInv(stack[u][i], phase, calls)
    BY <1>0 DEF StackInv, OpenInv
  <2>3. stack[u][i].on = "capture" => stack[u][i].capture # c
    BY <2>2 DEF FrameInv, Open
  <2> QED
    BY <1>0, <1>2, <2>1, <2>2, <2>3, FramesKeep DEF Same, CaptureTypeOK
<1>4. FrameInv(f, phase', calls')
  BY <1>2 DEF FrameInv, Open
<1>5. stack[t] # <<>> => Links(Top(t), f, phase)
  <2> SUFFICES ASSUME stack[t] # <<>> PROVE Links(Top(t), f, phase)
    OBVIOUS
  <2>1. Top(t).on \in {"call", "capture"}
    BY <1>0, TopFacts DEF ShapeInv, Frames
  <2>2. Leaves(Top(t), context[t], phase)
    BY <1>0 DEF StackInv, TopInv
  <2> QED
    BY <2>1, <2>2 DEF Links, Leaves, InBlock, At, Under
<1>6. Leaves(f, context'[t], phase')
  BY <1>2 DEF Leaves, Marks
<1>7. Push(t, f)
  OBVIOUS
<1> HIDE DEF f
<1>8. StackInv' /\ stack' \in [Tasks -> Seq(Frames)]
  BY <1>0, <1>1, <1>3, <1>4, <1>5, <1>6, <1>7, PushStack DEF ShapeInv
<1>9. ShapeInv'
  BY <1>0, <1>8 DEF ShapeInv
<1>10. installed' \subseteq Available \cup Decorators
  BY DEF InstallAll
<1>11. CaptureTypeOK'
  BY <1>0, <1>2, <1>9, <1>10, TypesNext DEF CaptureTypeOK
<1>12. HistoryInv'
  BY <1>0, <1>2, HistoryFrame DEF Closed
<1>13. FileInv'
  BY <1>0, <1>2, FileFrame
<1>14. TruncateInv'
  <2> SUFFICES ASSUME NEW d \in Captures
               PROVE  /\ ~seen => phase'[d] \in {"new", "truncate"}
                      /\ phase'[d] = "truncate" => d \in stale'
                      /\ phase'[d] = "written" =>
                            (\E i \in DOMAIN file : file[i].capture = d) \/ stale' \ {d} # {}
    BY DEF TruncateInv
  <2>1. stale \subseteq stale'
    OBVIOUS
  <2>2. CASE d # c
    BY <1>0, <1>2, <2>1, <2>2 DEF TruncateInv
  <2>3. CASE d = c
    <3>1. ~seen => phase'[c] = "truncate" /\ c \in stale'
      BY <1>0 DEF TruncateInv, CaptureTypeOK
    <3>2. seen => phase'[c] = "enter"
      BY <1>0 DEF CaptureTypeOK
    <3> QED
      BY <1>2, <2>3, <3>1, <3>2
  <2> QED
    BY <2>2, <2>3
<1>15. CallInv'
  BY DEF IInv, CallInv
<1> QED
  BY <1>8, <1>9, <1>11, <1>12, <1>13, <1>14, <1>15 DEF IInv

LEMMA TruncateStep ==
    ASSUME IInv, NEW t \in Tasks, Truncate(t)
    PROVE  IInv'
<1> USE DEF Truncate
<1>0. StackInv /\ CaptureTypeOK /\ ShapeInv /\ HistoryInv /\ FileInv /\ TruncateInv
  BY DEF IInv
<1> DEFINE c == Top(t).capture
<1>1. stack[t] # <<>> /\ Top(t).on = "capture" /\ phase[c] = "truncate"
  BY DEF At
<1>2. /\ Len(stack[t]) \in DOMAIN stack[t] /\ Top(t) = stack[t][Len(stack[t])]
      /\ Top(t) \in Frames
  BY <1>0, <1>1, TopFacts DEF ShapeInv
<1>3. c \in Captures
  BY <1>1, <1>2 DEF Frames
<1>4. phase' = [phase EXCEPT ![c] = "enter"]
  OBVIOUS
<1> HIDE DEF c
<1>5. phase' \in [Captures -> {"new", "truncate", "enter", "body", "written", "lost"}]
      /\ phase'[c] = "enter" /\ \A d \in Captures \ {c} : phase'[d] = phase[d]
  BY <1>0, <1>3, <1>4 DEF CaptureTypeOK
<1>6. \A u \in Tasks : \A i \in DOMAIN stack[u] :
          /\ FrameInv(stack[u][i], phase', calls')
          /\ u # t \/ i # Len(stack[t]) =>
                (stack[u][i].on = "capture" => phase'[stack[u][i].capture] = phase[stack[u][i].capture])
  <2> SUFFICES ASSUME NEW u \in Tasks, NEW i \in DOMAIN stack[u]
               PROVE  LET g == stack[u][i] IN
                      /\ FrameInv(g, phase', calls')
                      /\ u # t \/ i # Len(stack[t]) =>
                            (g.on = "capture" => phase'[g.capture] = phase[g.capture])
    OBVIOUS
  <2>1. stack[u][i] \in Frames
    BY <1>0, LenProperties, ElementOfSeq DEF ShapeInv
  <2>2. FrameInv(stack[u][i], phase, calls)
    BY <1>0 DEF StackInv, OpenInv
  <2>3. CASE u = t /\ i = Len(stack[t])
    BY <1>1, <1>2, <1>5, <2>3 DEF FrameInv, Open, c
  <2>4. CASE u # t \/ i # Len(stack[t])
    <3>1. stack[u][i].on = "capture" => stack[u][i].capture # c
      BY <1>0, <1>1, <1>2, <2>4, OtherCaptures DEF c
    <3> QED
      <4>1. calls' = calls
        OBVIOUS
      <4> HIDE DEF Truncate
      <4> QED
        BY <1>0, <1>4, <2>1, <2>2, <3>1, <4>1, FramesKeep DEF CaptureTypeOK
  <2> QED
    BY <2>3, <2>4
<1>7. Leaves(Top(t), context'[t], phase')
  BY <1>0, <1>1, <1>5 DEF Leaves, StackInv, TopInv, c
<1>8. StackInv' /\ stack' \in [Tasks -> Seq(Frames)]
  BY <1>0, <1>1, <1>6, <1>7, HoldStack DEF ShapeInv
<1>9. ShapeInv' /\ file' = <<>> /\ DOMAIN file' = {}
  BY <1>0, <1>8 DEF ShapeInv
<1>11. CaptureTypeOK'
  BY <1>0, <1>5, <1>9, TypesNext DEF CaptureTypeOK
<1>12. HistoryInv'
  BY <1>0, <1>1, <1>5, HistoryFrame DEF Closed
<1>13. FileInv'
  BY <1>9 DEF FileInv
<1>14. TruncateInv'
  BY <1>0, <1>1, <1>3, <1>5 DEF TruncateInv
<1>15. CallInv'
  BY DEF IInv, CallInv
<1> QED
  BY <1>8, <1>9, <1>11, <1>12, <1>13, <1>14, <1>15 DEF IInv

LEMMA ActivateStep ==
    ASSUME IInv, NEW t \in Tasks, Activate(t)
    PROVE  IInv'
<1> USE DEF Activate
<1>0. StackInv /\ CaptureTypeOK /\ ShapeInv /\ HistoryInv /\ FileInv /\ TruncateInv
  BY DEF IInv
<1> DEFINE c == Top(t).capture
<1>1. stack[t] # <<>> /\ Top(t).on = "capture" /\ phase[c] = "enter"
  BY DEF At
<1>2. /\ Len(stack[t]) \in DOMAIN stack[t] /\ Top(t) = stack[t][Len(stack[t])]
      /\ Top(t) \in Frames
  BY <1>0, <1>1, TopFacts DEF ShapeInv
<1>3. c \in Captures
  BY <1>1, <1>2 DEF Frames
<1>4. phase' = [phase EXCEPT ![c] = "body"] /\ calls' = calls
  OBVIOUS
<1>40. context' = [context EXCEPT ![t].tracer = c]
  OBVIOUS
<1> HIDE DEF c
<1>5. phase' \in [Captures -> {"new", "truncate", "enter", "body", "written", "lost"}]
      /\ phase'[c] = "body" /\ \A d \in Captures \ {c} : phase'[d] = phase[d]
  BY <1>0, <1>3, <1>4 DEF CaptureTypeOK
<1>6. \A u \in Tasks : \A i \in DOMAIN stack[u] :
          /\ FrameInv(stack[u][i], phase', calls')
          /\ u # t \/ i # Len(stack[t]) =>
                (stack[u][i].on = "capture" => phase'[stack[u][i].capture] = phase[stack[u][i].capture])
  <2> SUFFICES ASSUME NEW u \in Tasks, NEW i \in DOMAIN stack[u]
               PROVE  LET g == stack[u][i] IN
                      /\ FrameInv(g, phase', calls')
                      /\ u # t \/ i # Len(stack[t]) =>
                            (g.on = "capture" => phase'[g.capture] = phase[g.capture])
    OBVIOUS
  <2>1. stack[u][i] \in Frames
    BY <1>0, LenProperties, ElementOfSeq DEF ShapeInv
  <2>2. FrameInv(stack[u][i], phase, calls)
    BY <1>0 DEF StackInv, OpenInv
  <2>3. CASE u = t /\ i = Len(stack[t])
    BY <1>1, <1>2, <1>5, <2>3 DEF FrameInv, Open, c
  <2>4. CASE u # t \/ i # Len(stack[t])
    <3>1. stack[u][i].on = "capture" => stack[u][i].capture # c
      BY <1>0, <1>1, <1>2, <2>4, OtherCaptures DEF c
    <3> QED
      <4> HIDE DEF Activate
      <4> QED
        BY <1>0, <1>4, <2>1, <2>2, <3>1, FramesKeep DEF CaptureTypeOK
  <2> QED
    BY <2>3, <2>4
<1>7. /\ context' \in [Tasks -> Contexts] /\ \A u \in Tasks \ {t} : context'[u] = context[u]
      /\ context'[t].tracer = c /\ context'[t].marker = context[t].marker
  BY <1>0, <1>3, <1>40 DEF CaptureTypeOK, Contexts
<1>8. Leaves(Top(t), context'[t], phase')
  BY <1>0, <1>1, <1>5, <1>7 DEF Leaves, StackInv, TopInv, Effect, c
<1>9. StackInv' /\ stack' \in [Tasks -> Seq(Frames)]
  BY <1>0, <1>1, <1>6, <1>7, <1>8, HoldStack DEF ShapeInv
<1>10. ShapeInv'
  BY <1>0, <1>9 DEF ShapeInv
<1>11. CaptureTypeOK'
  BY <1>0, <1>5, <1>7, <1>10, TypesNext DEF CaptureTypeOK
<1>12. HistoryInv'
  BY <1>0, <1>1, <1>5, HistoryFrame DEF Closed
<1>13. FileInv'
  BY <1>0, <1>1, <1>5, FileFrame
<1>14. TruncateInv'
  BY <1>0, <1>1, <1>3, <1>5 DEF TruncateInv
<1>15. CallInv'
  BY DEF IInv, CallInv
<1> QED
  BY <1>9, <1>10, <1>11, <1>12, <1>13, <1>14, <1>15 DEF IInv

LEMMA LineFacts ==
    ASSUME NEW c \in Captures, NEW failed \in BOOLEAN, NEW h \in Seq(Events)
    PROVE  [capture |-> c, failed |-> failed, events |-> Kept(h)] \in LineRecords
<1>1. DOMAIN Kept(h) \in SUBSET Nat
  BY LenProperties DEF Kept
<1>2. \A k \in DOMAIN Kept(h) : Kept(h)[k] \in Events
  BY LenProperties, ElementOfSeq DEF Kept
<1>3. Kept(h) \in [DOMAIN Kept(h) -> Events]
  BY <1>2 DEF Kept
<1> QED
  BY <1>1, <1>3 DEF LineRecords, Histories

(* The line that a capture leaves, and what becomes of the others. *)
LEMMA LineKeeps ==
    ASSUME ShapeInv, FileInv, HistoryInv, NEW c \in Captures, NEW failed \in BOOLEAN,
           phase[c] = "body", phase' = [phase EXCEPT ![c] = "written"], calls' = calls,
           phase \in [Captures -> {"new", "truncate", "enter", "body", "written", "lost"}],
           file' = Append(file, Line(c, failed))
    PROVE  /\ file' \in Seq(LineRecords)
           /\ FileInv'
           /\ \E i \in DOMAIN file' : file'[i].capture = c
           /\ \A i \in DOMAIN file : i \in DOMAIN file' /\ file'[i] = file[i]
<1> DEFINE l == Line(c, failed)
           N == Len(file)
<1>1. l \in LineRecords /\ l.capture = c /\ l.events = Kept(events[c])
  BY LineFacts DEF Line, ShapeInv
<1>2. /\ file' \in Seq(LineRecords) /\ N \in Nat
      /\ DOMAIN file = 1 .. N /\ DOMAIN file' = 1 .. N + 1
      /\ \A i \in DOMAIN file : file'[i] = file[i]
      /\ file'[N + 1] = l
  BY <1>1, PushFacts DEF ShapeInv
<1> HIDE DEF l, N
<1>3. /\ N + 1 \in DOMAIN file' /\ N + 1 \notin DOMAIN file
      /\ \A i \in DOMAIN file' : i \in DOMAIN file \/ i = N + 1
      /\ \A i \in DOMAIN file : i \in DOMAIN file'
  BY <1>2
<1>4. \A i \in DOMAIN file : file[i].capture \in Captures /\ file[i].capture # c
  <2>1. \A i \in DOMAIN file : file[i] \in LineRecords
    BY LenProperties, ElementOfSeq DEF ShapeInv
  <2> QED
    BY <2>1 DEF FileInv, LineInv, LineRecords
<1>5. LineInv(l, phase', calls')
  <2>1. Known(events[c], c, calls)
    BY DEF HistoryInv
  <2>2. Known(Kept(events[c]), c, calls) /\ \A k \in DOMAIN Kept(events[c]) : ~Kept(events[c])[k].superseded
    BY <2>1, KeptTold
  <2>3. ASSUME NEW n \in DOMAIN calls, calls[n].tracer = c, ~calls[n].late
        PROVE  Told(Kept(events[c]), n, calls[n])
    <3>1. Told(events[c], n, calls[n])
      BY <2>3 DEF HistoryInv, Of
    <3> QED
      BY <2>1, <3>1, KeptTold
  <2> QED
    BY <1>1, <2>2, <2>3 DEF LineInv
<1>6. FileInv'
  <2>1. \A i \in DOMAIN file : LineInv(file[i], phase', calls')
    BY <1>4 DEF FileInv, LineInv
  <2>2. ASSUME NEW i \in DOMAIN file' PROVE LineInv(file'[i], phase', calls')
    BY <1>2, <1>3, <1>5, <2>1
  <2>3. ASSUME NEW i \in DOMAIN file', NEW k \in DOMAIN file', file'[i].capture = file'[k].capture
        PROVE  i = k
    <3>1. CASE i \in DOMAIN file /\ k \in DOMAIN file
      BY <1>2, <2>3, <3>1 DEF FileInv
    <3>2. CASE i = N + 1 \/ k = N + 1
      BY <1>1, <1>2, <1>3, <1>4, <2>3, <3>2
    <3> QED
      BY <1>3, <3>1, <3>2
  <2> QED
    BY <2>2, <2>3 DEF FileInv
<1> QED
  BY <1>1, <1>2, <1>3, <1>6

LEMMA CloseStep ==
    ASSUME IInv, NEW t \in Tasks, NEW failed \in BOOLEAN, Close(t, failed)
    PROVE  IInv'
<1>0. StackInv /\ CaptureTypeOK /\ ShapeInv /\ HistoryInv /\ FileInv /\ TruncateInv
  BY DEF IInv
<1> DEFINE c == Top(t).capture
<1>1. stack[t] # <<>> /\ Top(t).on = "capture" /\ phase[c] = "body"
  BY DEF Close, At
<1>2. /\ Len(stack[t]) \in DOMAIN stack[t] /\ Top(t) = stack[t][Len(stack[t])]
      /\ Top(t) \in Frames
  BY <1>0, <1>1, TopFacts DEF ShapeInv
<1>3. c \in Captures /\ Top(t).tracer \in Captures \cup {Nil}
  BY <1>1, <1>2 DEF Frames
<1>4. /\ UNCHANGED <<scenario, installed, alive, events, seen, calls, stale>>
      /\ Pop(t)
      /\ \/ phase' = [phase EXCEPT ![c] = "written"] /\ file' = Append(file, Line(c, failed))
         \/ phase' = [phase EXCEPT ![c] = "lost"] /\ UNCHANGED file
  BY DEF Close
<1>5. context' = [context EXCEPT ![t].tracer = Top(t).tracer]
  BY DEF Close
<1>6. PICK p \in Closed : phase' = [phase EXCEPT ![c] = p]
  BY <1>4 DEF Closed
<1> HIDE DEF c
<1>7. phase' \in [Captures -> {"new", "truncate", "enter", "body", "written", "lost"}]
      /\ phase'[c] = p /\ \A d \in Captures \ {c} : phase'[d] = phase[d]
  BY <1>0, <1>3, <1>6 DEF CaptureTypeOK, Closed
<1>8. \A u \in Tasks : \A i \in DOMAIN stack[u] :
          u # t \/ i # Len(stack[t]) =>
             /\ FrameInv(stack[u][i], phase', calls')
             /\ stack[u][i].on = "capture" => phase'[stack[u][i].capture] = phase[stack[u][i].capture]
  <2> SUFFICES ASSUME NEW u \in Tasks, NEW i \in DOMAIN stack[u], u # t \/ i # Len(stack[t])
               PROVE  LET g == stack[u][i] IN
                      /\ FrameInv(g, phase', calls')
                      /\ g.on = "capture" => phase'[g.capture] = phase[g.capture]
    OBVIOUS
  <2>1. stack[u][i] \in Frames
    BY <1>0, LenProperties, ElementOfSeq DEF ShapeInv
  <2>2. FrameInv(stack[u][i], phase, calls)
    BY <1>0 DEF StackInv, OpenInv
  <2>3. stack[u][i].on = "capture" => stack[u][i].capture # c
    BY <1>0, <1>1, <1>2, OtherCaptures DEF c
  <2>4. calls' = calls
    BY <1>4
  <2> QED
    BY <1>0, <1>6, <2>1, <2>2, <2>3, <2>4, FramesKeep DEF CaptureTypeOK
<1>9. /\ context' \in [Tasks -> Contexts] /\ \A u \in Tasks \ {t} : context'[u] = context[u]
      /\ context'[t].tracer = Top(t).tracer /\ context'[t].marker = context[t].marker
  BY <1>0, <1>3, <1>5 DEF CaptureTypeOK, Contexts
<1>10. context'[t].marker = Under(Top(t))
  BY <1>0, <1>1, <1>9 DEF Leaves, StackInv, TopInv, Marks, Under
<1>11. StackInv' /\ stack' \in [Tasks -> Seq(Frames)]
  BY <1>0, <1>1, <1>4, <1>8, <1>9, <1>10, PopStack DEF ShapeInv
<1>12. HistoryInv'
  BY <1>0, <1>1, <1>3, <1>4, <1>7, HistoryFrame
<1>13. CallInv'
  BY <1>4 DEF IInv, CallInv
<1>14. CASE phase' = [phase EXCEPT ![c] = "written"] /\ file' = Append(file, Line(c, failed))
  <2>1. /\ file' \in Seq(LineRecords)
        /\ FileInv'
        /\ \E i \in DOMAIN file' : file'[i].capture = c
        /\ \A i \in DOMAIN file : i \in DOMAIN file' /\ file'[i] = file[i]
    BY <1>0, <1>1, <1>3, <1>4, <1>14, LineKeeps DEF CaptureTypeOK, c
  <2>2. ShapeInv'
    BY <1>0, <1>4, <1>11, <2>1 DEF ShapeInv
  <2>3. CaptureTypeOK'
    BY <1>0, <1>4, <1>7, <1>9, <2>2, TypesNext DEF CaptureTypeOK
  <2>4. TruncateInv'
    BY <1>0, <1>1, <1>3, <1>4, <1>7, <2>1 DEF TruncateInv, Closed, c
  <2> QED
    BY <1>11, <1>12, <1>13, <2>1, <2>2, <2>3, <2>4 DEF IInv
<1>15. CASE phase' = [phase EXCEPT ![c] = "lost"] /\ UNCHANGED file
  <2>1. phase'[c] = "lost"
    BY <1>0, <1>3, <1>15 DEF CaptureTypeOK
  <2>2. ShapeInv'
    BY <1>0, <1>4, <1>11, <1>15 DEF ShapeInv
  <2>3. CaptureTypeOK'
    BY <1>0, <1>4, <1>7, <1>9, <2>2, TypesNext DEF CaptureTypeOK
  <2>4. TruncateInv'
    BY <1>0, <1>1, <1>3, <1>4, <1>7, <1>15, <2>1 DEF TruncateInv, c
  <2>5. FileInv'
    BY <1>0, <1>1, <1>4, <1>7, <1>15, FileFrame DEF c
  <2> QED
    BY <1>11, <1>12, <1>13, <2>2, <2>3, <2>4, <2>5 DEF IInv
<1> QED
  BY <1>4, <1>14, <1>15 DEF c

LEMMA EventFacts ==
    ASSUME NEW t \in Tasks, NEW n \in 1 .. MaxCalls, NEW shim \in DOMAIN Shims,
           NEW part \in {"start", "end", "chunk"}, NEW error \in BOOLEAN
    PROVE  /\ Event(t, n, shim, part, error) \in Events
           /\ Event(t, n, shim, part, error).call = n
           /\ Event(t, n, shim, part, error).part = part
           /\ Event(t, n, shim, part, error).error = error
           /\ Event(t, n, shim, part, error).superseded <=>
                part # "chunk" /\ Shims[shim].kind = "http" /\ context[t].marker # 0
<1>1. InferredAgent(t) \in DisplayNames \cup Functions \cup {Nil}
  BY AgentFacts
<1> QED
  BY <1>1 DEF Event, Events, Superseded

(* The records of the calls when one more is made. *)
LEMMA CallsGrow ==
    ASSUME ShapeInv, NEW r \in CallRecords, calls' = Append(calls, r), HistoryInv, FileInv,
           UNCHANGED <<phase, file>>
    PROVE  /\ calls' \in Seq(CallRecords)
           /\ Len(calls) \in Nat /\ Len(calls') = Len(calls) + 1
           /\ DOMAIN calls = 1 .. Len(calls)
           /\ DOMAIN calls' = DOMAIN calls \cup {Len(calls) + 1} /\ Len(calls) + 1 \notin DOMAIN calls
           /\ \A n \in DOMAIN calls : calls'[n] = calls[n]
           /\ calls'[Len(calls) + 1] = r
           /\ \A h, c : Known(h, c, calls) => Known(h, c, calls')
           /\ (\A i \in DOMAIN file : ~r.late => r.tracer # file[i].capture) => FileInv'
<1> DEFINE N == Len(calls)
<1>1. /\ calls' \in Seq(CallRecords) /\ N \in Nat /\ Len(calls') = N + 1
      /\ DOMAIN calls = 1 .. N /\ DOMAIN calls' = 1 .. N + 1
      /\ \A n \in DOMAIN calls : calls'[n] = calls[n]
      /\ calls'[N + 1] = r
  BY PushFacts DEF ShapeInv
<1>2. DOMAIN calls' = DOMAIN calls \cup {N + 1} /\ N + 1 \notin DOMAIN calls
  BY <1>1
<1> HIDE DEF N
<1>3. \A h, c : Known(h, c, calls) => Known(h, c, calls')
  BY <1>1, <1>2, KnownGrows
<1>4. ASSUME \A i \in DOMAIN file : ~r.late => r.tracer # file[i].capture
      PROVE  FileInv'
  <2>1. ASSUME NEW i \in DOMAIN file PROVE LineInv(file[i], phase, calls')
    <3>1. LineInv(file[i], phase, calls)
      BY DEF FileInv
    <3>2. Known(file[i].events, file[i].capture, calls')
      BY <1>3, <3>1 DEF LineInv
    <3>3. ASSUME NEW n \in DOMAIN calls', calls'[n].tracer = file[i].capture, ~calls'[n].late
          PROVE  Told(file[i].events, n, calls'[n])
      <4>1. n # N + 1
        BY <1>1, <1>4, <3>3
      <4> QED
        BY <1>1, <1>2, <3>1, <3>3, <4>1 DEF LineInv
    <3> QED
      BY <3>1, <3>2, <3>3 DEF LineInv
  <2> QED
    BY <2>1 DEF FileInv
<1> QED
  BY <1>1, <1>2, <1>3, <1>4 DEF N

LEMMA EnterStep ==
    ASSUME IInv, NEW t \in Tasks, NEW shim \in DOMAIN Shims, Enter(t, shim)
    PROVE  IInv'
<1>0. StackInv /\ CaptureTypeOK /\ ShapeInv /\ HistoryInv /\ FileInv /\ TruncateInv /\ CallInv
  BY DEF IInv
<1> DEFINE n == Len(calls) + 1
           c == context[t].tracer
           m == context[t].marker
           e == Event(t, n, shim, "start", FALSE)
           f == [on |-> "call", call |-> n, shim |-> shim, tracer |-> c, marker |-> m]
<1>1. PICK es \in {events[c], Append(events[c], e)} :
          /\ events' = [events EXCEPT ![c] = es]
          /\ calls' = Append(calls, [shim |-> shim, tracer |-> c, under |-> m, end |-> "open",
                                     captured |-> es # events[c], late |-> phase[c] # "body"])
  BY DEF Enter, Append1
<1>2. /\ c \in Captures /\ m \in 0 .. MaxCalls
      /\ m # 0 => Shims[shim].kind = "http"
      /\ Len(calls) \in Nat /\ n \in 1 .. MaxCalls
  <2>1. context[t] \in Contexts
    BY <1>0 DEF CaptureTypeOK
  <2>2. c \in Captures /\ m \in 0 .. MaxCalls /\ (m # 0 => Shims[shim].kind = "http")
    BY <2>1 DEF Enter, MayCall, Contexts
  <2>3. Len(calls) \in Nat /\ Len(calls) < scenario.calls /\ scenario.calls \in 0 .. MaxCalls
    BY <1>0, LenProperties, ScenarioAssumption DEF Enter, CaptureTypeOK, ShapeInv
  <2>4. n \in 1 .. MaxCalls
    BY <2>3, BoundAssumption
  <2> QED
    BY <2>2, <2>3, <2>4
<1>3. /\ UNCHANGED <<scenario, installed, alive, phase, seen, file, stale>>
      /\ t \in alive /\ InBlock(t) /\ Push(t, f)
      /\ context' = [context EXCEPT ![t].marker = IF Shims[shim].marks THEN n ELSE @]
  BY DEF Enter, MayCall
<1>4. e \in Events /\ e.call = n /\ e.part = "start" /\ (e.superseded <=> m # 0)
  <2> HIDE DEF n
  <2>1. /\ e \in Events /\ e.call = n /\ e.part = "start"
        /\ e.superseded <=> "start" # "chunk" /\ Shims[shim].kind = "http" /\ context[t].marker # 0
    <3>1. n \in 1 .. MaxCalls /\ InferredAgent(t) \in DisplayNames \cup Functions \cup {Nil}
      BY <1>2, AgentFacts
    <3> QED
      BY <3>1 DEF Event, Events, Superseded
  <2> HIDE DEF e
  <2> QED
    BY <1>2, <2>1
<1>5. f \in Frames /\ f.on = "call" /\ f.call = n /\ f.shim = shim /\ f.tracer = c /\ f.marker = m
  BY <1>2 DEF Frames
<1> DEFINE r == [shim |-> shim, tracer |-> c, under |-> m, end |-> "open",
                 captured |-> es # events[c], late |-> phase[c] # "body"]
<1>6. /\ r \in CallRecords
      /\ r.shim = shim /\ r.tracer = c /\ r.under = m /\ r.end = "open"
      /\ (r.captured <=> es # events[c]) /\ (r.late <=> phase[c] # "body")
  BY <1>2 DEF CallRecords
<1>7. calls' = Append(calls, r)
  BY <1>1
<1>8. context' \in [Tasks -> Contexts] /\ (\A u \in Tasks \ {t} : context'[u] = context[u])
      /\ context'[t].tracer = c /\ context'[t].marker = IF Shims[shim].marks THEN n ELSE m
  BY <1>0, <1>2, <1>3 DEF CaptureTypeOK, Contexts
<1> HIDE DEF n, c, m, e, f, r
<1>9. /\ calls' \in Seq(CallRecords)
      /\ Len(calls) \in Nat /\ Len(calls') = n
      /\ DOMAIN calls' = DOMAIN calls \cup {n} /\ n \notin DOMAIN calls
      /\ \A k \in DOMAIN calls : calls'[k] = calls[k]
      /\ calls'[n] = r
      /\ \A h, d : Known(h, d, calls) => Known(h, d, calls')
      /\ (\A i \in DOMAIN file : ~r.late => r.tracer # file[i].capture) => FileInv'
  BY <1>0, <1>3, <1>6, <1>7, CallsGrow DEF n
<1>10. FileInv'
  <2>1. \A i \in DOMAIN file : phase[file[i].capture] = "written"
    BY <1>0 DEF FileInv, LineInv
  <2> QED
    BY <1>6, <1>9, <2>1
<1>11. /\ events' \in [Captures -> Seq(Events)]
       /\ events'[c] = es /\ \A d \in Captures \ {c} : events'[d] = events[d]
  <2>1. events[c] \in Seq(Events)
    BY <1>0, <1>2 DEF ShapeInv
  <2>2. Append(events[c], e) \in Seq(Events)
    BY <1>4, <2>1, AppendProperties
  <2>3. es \in Seq(Events)
    BY <1>1, <2>1, <2>2
  <2> QED
    BY <1>0, <1>1, <1>2, <2>3 DEF ShapeInv
<1>12. ASSUME NEW u \in Tasks, NEW i \in DOMAIN stack[u]
       PROVE  LET g == stack[u][i] IN
              /\ ~Same(g, f) /\ ~Same(f, g)
              /\ FrameInv(g, phase', calls')
              /\ g.on = "capture" => phase'[g.capture] = phase[g.capture]
  <2>1. FrameInv(stack[u][i], phase, calls)
    BY <1>0 DEF StackInv, OpenInv
  <2> QED
    BY <1>3, <1>5, <1>9, <2>1 DEF FrameInv, Same
<1>13. FrameInv(f, phase', calls')
  BY <1>5, <1>6, <1>9 DEF FrameInv
<1>14. ASSUME stack[t] # <<>> PROVE Links(Top(t), f, phase)
  <2>1. Top(t).on \in {"call", "capture"}
    BY <1>0, <1>14, TopFacts DEF ShapeInv, Frames
  <2>2. Leaves(Top(t), context[t], phase)
    BY <1>0, <1>14 DEF StackInv, TopInv
  <2> QED
    BY <1>3, <1>5, <1>14, <2>1, <2>2 DEF Links, Leaves, InBlock, At, Under, c, m
<1>15. Leaves(f, context'[t], phase')
  BY <1>5, <1>8 DEF Leaves, Marks, Effect
<1>16. StackInv' /\ stack' \in [Tasks -> Seq(Frames)]
  BY <1>0, <1>3, <1>5, <1>8, <1>12, <1>13, <1>14, <1>15, PushStack DEF ShapeInv
<1>17. ShapeInv'
  BY <1>0, <1>3, <1>9, <1>11, <1>16 DEF ShapeInv
<1>18. CaptureTypeOK'
  <2>1. Len(calls') <= MaxCalls
    BY <1>2, <1>9, BoundAssumption
  <2> QED
    BY <1>0, <1>3, <1>8, <1>17, <2>1, TypesNext DEF CaptureTypeOK
<1>19. CallInv'
  BY <1>0, <1>2, <1>6, <1>9 DEF CallInv
<1>20. TruncateInv'
  BY <1>0, <1>3 DEF TruncateInv
<1>21. HistoryInv'
  <2>1. ASSUME NEW d \in Captures PROVE Known(events[d], d, calls')
    BY <1>0, <1>9 DEF HistoryInv
  <2>2. Known(es, c, calls')
    <3>1. CASE es = events[c]
      BY <1>2, <2>1, <3>1
    <3>2. CASE es = Append(events[c], e)
      <4>1. events[c] \in Seq(Events)
        BY <1>0, <1>2 DEF ShapeInv
      <4> QED
        BY <1>2, <1>4, <1>6, <1>9, <2>1, <3>2, <4>1, KnownAppend
    <3> QED
      BY <1>1, <3>1, <3>2
  <2>3. ASSUME NEW d \in Captures, NEW k \in DOMAIN calls, calls[k].tracer = d, ~calls[k].late
        PROVE  /\ phase[d] \in {"body"} \cup Closed
               /\ phase[d] = "body" => Told(events'[d], k, calls[k])
    <3>1. phase[d] \in {"body"} \cup Closed /\ (phase[d] = "body" => Told(events[d], k, calls[k]))
      BY <1>0, <2>3 DEF HistoryInv, Of
    <3>2. CASE events'[d] = events[d]
      BY <3>1, <3>2
    <3>3. CASE d = c /\ es = Append(events[c], e)
      <4>1. k # n /\ events[c] \in Seq(Events)
        BY <1>0, <1>2, <1>9 DEF ShapeInv
      <4> QED
        BY <1>4, <1>11, <3>1, <3>3, <4>1, ToldOther
    <3> QED
      BY <1>1, <1>11, <3>2, <3>3
  <2>4. phase[c] = "body" => Told(es, n, r)
    <3>1. events[c] \in Seq(Events) /\ \A k \in DOMAIN events[c] : events[c][k].call # n
      BY <1>0, <1>2, <1>9 DEF HistoryInv, Known, ShapeInv
    <3> QED
      BY <1>1, <1>4, <1>6, <3>1, ToldStart, ZenonT(60)
  <2> SUFFICES ASSUME NEW d \in Captures
               PROVE  /\ Known(events'[d], d, calls')
                      /\ \A k \in DOMAIN calls' :
                            calls'[k].tracer = d /\ ~calls'[k].late =>
                              /\ phase[d] \in {"body"} \cup Closed
                              /\ phase[d] = "body" => Told(events'[d], k, calls'[k])
    BY <1>3 DEF HistoryInv, Of
  <2>5. Known(events'[d], d, calls')
    BY <1>11, <2>1, <2>2
  <2>6. ASSUME NEW k \in DOMAIN calls', calls'[k].tracer = d, ~calls'[k].late
        PROVE  phase[d] \in {"body"} \cup Closed /\ (phase[d] = "body" => Told(events'[d], k, calls'[k]))
    <3>1. CASE k \in DOMAIN calls
      BY <1>9, <2>3, <2>6, <3>1
    <3>2. CASE k = n
      BY <1>6, <1>9, <1>11, <2>4, <2>6, <3>2
    <3> QED
      BY <1>9, <3>1, <3>2
  <2> QED
    BY <2>5, <2>6
<1> QED
  BY <1>10, <1>16, <1>17, <1>18, <1>19, <1>20, <1>21 DEF IInv

(* What the end of a call adds to the history of its tracer. *)
LEMMA EndFacts ==
    ASSUME IInv, NEW t \in Tasks, stack[t] # <<>>, Top(t).on = "call", NEW error \in BOOLEAN
    PROVE  LET f == Top(t) IN
           /\ Len(stack[t]) \in DOMAIN stack[t] /\ f = stack[t][Len(stack[t])]
           /\ f.call \in DOMAIN calls /\ f.call \in 1 .. MaxCalls
           /\ f.tracer \in Captures /\ f.marker \in 0 .. MaxCalls /\ f.shim \in DOMAIN Shims
           /\ calls[f.call] \in CallRecords
           /\ calls[f.call].shim = f.shim /\ calls[f.call].tracer = f.tracer
           /\ calls[f.call].under = f.marker /\ calls[f.call].end = "open"
           /\ context[t].tracer = f.tracer /\ TracerAtEnd(t, f) = f.tracer
           /\ Shims[f.shim].kind = "http" /\ context[t].marker # 0 <=> calls[f.call].under # 0
<1> DEFINE f == Top(t)
<1>0. StackInv /\ CaptureTypeOK /\ ShapeInv /\ CallInv
  BY DEF IInv
<1>1. Len(stack[t]) \in DOMAIN stack[t] /\ f = stack[t][Len(stack[t])] /\ f \in Frames
  BY <1>0, TopFacts DEF ShapeInv
<1> HIDE DEF f
<1>2. /\ f.call \in 1 .. MaxCalls /\ f.tracer \in Captures /\ f.marker \in 0 .. MaxCalls
      /\ f.shim \in DOMAIN Shims
  BY <1>1 DEF f, Frames
<1>3. FrameInv(f, phase, calls) /\ Leaves(f, context[t], phase)
  BY <1>0, <1>1 DEF StackInv, OpenInv, TopInv, f
<1>4. f.on = "call"
  BY DEF f
<1>5. /\ f.call \in DOMAIN calls
      /\ calls[f.call].shim = f.shim /\ calls[f.call].tracer = f.tracer
      /\ calls[f.call].under = f.marker /\ calls[f.call].end = "open"
      /\ context[t].tracer = f.tracer /\ context[t].marker = IF Shims[f.shim].marks THEN f.call ELSE f.marker
  BY <1>3, <1>4 DEF FrameInv, Leaves, Marks, Effect
<1>6. calls[f.call] \in CallRecords
  BY <1>0, <1>5, LenProperties, ElementOfSeq DEF ShapeInv
<1>7. Shims[f.shim].kind = "http" /\ context[t].marker # 0 <=> calls[f.call].under # 0
  BY <1>0, <1>2, <1>5, ShimFacts DEF CallInv
<1>8. TracerAtEnd(t, f) = f.tracer
  BY <1>5 DEF TracerAtEnd
<1> QED
  BY <1>1, <1>2, <1>5, <1>6, <1>7, <1>8 DEF f

(* A call that no longer is open, in the calls, the lines and the frames. *)
LEMMA CallsEnd ==
    ASSUME ShapeInv, FileInv, CallInv, NEW n \in DOMAIN calls, calls[n].end = "open",
           NEW v \in {"unseen", "ok", "error", "cancelled"},
           calls' = [calls EXCEPT ![n].end = v], UNCHANGED <<phase, file>>,
           phase[calls[n].tracer] = "written" => v = "unseen"
    PROVE  /\ calls' \in Seq(CallRecords) /\ Len(calls') = Len(calls) /\ DOMAIN calls' = DOMAIN calls
           /\ calls'[n] = [calls[n] EXCEPT !.end = v]
           /\ \A k \in DOMAIN calls : k # n => calls'[k] = calls[k]
           /\ \A k \in DOMAIN calls : /\ calls'[k].shim = calls[k].shim
                                      /\ calls'[k].tracer = calls[k].tracer
                                      /\ calls'[k].under = calls[k].under
                                      /\ calls'[k].late = calls[k].late
           /\ \A h, c : Known(h, c, calls) => Known(h, c, calls')
           /\ CallInv' /\ FileInv'
<1> DEFINE q == [calls[n] EXCEPT !.end = v]
<1>1. calls[n] \in CallRecords
  BY LenProperties, ElementOfSeq DEF ShapeInv
<1>2. /\ q \in CallRecords /\ q.shim = calls[n].shim /\ q.tracer = calls[n].tracer
      /\ q.under = calls[n].under /\ q.late = calls[n].late
  BY <1>1 DEF CallRecords
<1>3. calls' = [calls EXCEPT ![n] = q]
  OBVIOUS
<1> HIDE DEF q
<1>4. /\ calls' \in Seq(CallRecords) /\ Len(calls') = Len(calls) /\ DOMAIN calls' = DOMAIN calls
      /\ \A k \in DOMAIN calls : calls'[k] = IF k = n THEN q ELSE calls[k]
  <2>1. calls \in Seq(CallRecords) /\ n \in 1 .. Len(calls) /\ DOMAIN calls = 1 .. Len(calls)
    BY LenProperties DEF ShapeInv
  <2>2. /\ calls' \in Seq(CallRecords) /\ Len(calls') = Len(calls)
        /\ \A k \in 1 .. Len(calls) : calls'[k] = IF k = n THEN q ELSE calls[k]
    BY <1>2, <1>3, <2>1, ExceptSeq
  <2>3. DOMAIN calls' = 1 .. Len(calls')
    BY <2>2, LenProperties
  <2> QED
    BY <2>1, <2>2, <2>3
<1>5. \A k \in DOMAIN calls : /\ calls'[k].shim = calls[k].shim
                              /\ calls'[k].tracer = calls[k].tracer
                              /\ calls'[k].under = calls[k].under
                              /\ calls'[k].late = calls[k].late
  BY <1>2, <1>4
<1>6. \A h, c : Known(h, c, calls) => Known(h, c, calls')
  BY <1>4, <1>5, KnownGrows
<1>7. CallInv'
  BY <1>4, <1>5 DEF CallInv
<1>8. ASSUME NEW i \in DOMAIN file PROVE LineInv(file[i], phase, calls')
  <2>1. LineInv(file[i], phase, calls)
    BY DEF FileInv
  <2>2. Known(file[i].events, file[i].capture, calls')
    BY <1>6, <2>1 DEF LineInv
  <2>3. ASSUME NEW k \in DOMAIN calls, calls[k].tracer = file[i].capture, ~calls[k].late
        PROVE  Told(file[i].events, k, calls'[k])
    <3>1. Told(file[i].events, k, calls[k])
      BY <2>1, <2>3 DEF LineInv
    <3>2. CASE k # n
      BY <1>4, <3>1, <3>2
    <3>3. CASE k = n
      <4>1. v = "unseen"
        BY <2>1, <2>3, <3>3 DEF LineInv
      <4>2. Told(file[i].events, n, q)
        BY <1>1, <3>1, <3>3, <4>1, ToldSilence DEF q
      <4> QED
        BY <1>4, <3>3, <4>2
    <3> QED
      BY <3>2, <3>3
  <2> QED
    BY <1>4, <1>5, <2>1, <2>2, <2>3 DEF LineInv
<1>9. FileInv'
  BY <1>8 DEF FileInv
<1> QED
  BY <1>4, <1>5, <1>6, <1>7, <1>9 DEF q

LEMMA LeaveStep ==
    ASSUME IInv, NEW t \in Tasks, NEW outcome \in {"ok", "error", "cancelled"}, Leave(t, outcome)
    PROVE  IInv'
<1>0. StackInv /\ CaptureTypeOK /\ ShapeInv /\ HistoryInv /\ FileInv /\ TruncateInv /\ CallInv
  BY DEF IInv
<1> DEFINE f == Top(t)
           n == f.call
           c == f.tracer
           h == events[c]
           error == outcome = "error" /\ ~Shims[f.shim].early
           end == Event(t, n, f.shim, "end", error)
           chunk == Event(t, n, f.shim, "chunk", FALSE)
<1>1. stack[t] # <<>> /\ f.on = "call"
  BY DEF Leave
<1>2. /\ Len(stack[t]) \in DOMAIN stack[t] /\ f = stack[t][Len(stack[t])]
      /\ n \in DOMAIN calls /\ n \in 1 .. MaxCalls
      /\ c \in Captures /\ f.marker \in 0 .. MaxCalls /\ f.shim \in DOMAIN Shims
      /\ calls[n] \in CallRecords
      /\ calls[n].shim = f.shim /\ calls[n].tracer = c
      /\ calls[n].under = f.marker /\ calls[n].end = "open"
      /\ context[t].tracer = c /\ TracerAtEnd(t, f) = c
      /\ Shims[f.shim].kind = "http" /\ context[t].marker # 0 <=> calls[n].under # 0
  BY <1>1, EndFacts
<1>3. PICK es : /\ es \in {h, Append(h, end), Append(Append(h, end), chunk)}
                /\ es # h => Ends(outcome) \/ Shims[f.shim].early
                /\ events' = [events EXCEPT ![c] = es]
                /\ calls' = [calls EXCEPT ![n].end =
                               IF phase[c] # "body" \/ (es = h /\ Ends(outcome)) THEN "unseen" ELSE outcome]
  <2> DEFINE d == TracerAtEnd(t, f)
             ends == {Append(events[d], end)}
                     \cup (IF Shims[f.shim].chunks /\ ~error THEN {Append(Append(events[d], end), chunk)} ELSE {})
                     \cup (IF "capture" \in scenario.faults THEN {events[d]} ELSE {})
  <2>1. PICK es \in IF Ends(outcome) \/ Shims[f.shim].early THEN ends ELSE {events[d]} :
          /\ events' = [events EXCEPT ![d] = es]
          /\ calls' = [calls EXCEPT ![n].end =
                         IF phase[d] # "body" \/ (es = events[d] /\ Ends(outcome)) THEN "unseen" ELSE outcome]
    BY Zenon DEF Leave, Answered
  <2>2. d = c
    BY <1>2
  <2> HIDE DEF d
  <2>3. /\ es \in {h, Append(h, end), Append(Append(h, end), chunk)}
        /\ es # h => Ends(outcome) \/ Shims[f.shim].early
    <3> HIDE DEF f, n, c, end, chunk, error
    <3> QED
      BY <2>1, <2>2
  <2> HIDE DEF f, n, c, end, chunk, error, ends
  <2> QED
    BY <2>1, <2>2, <2>3
<1>4. /\ UNCHANGED <<scenario, installed, alive, phase, seen, file, stale>>
      /\ Pop(t)
      /\ context' = [context EXCEPT ![t].marker = f.marker]
  BY DEF Leave
<1>5. /\ end \in Events /\ end.call = n /\ end.part = "end"
      /\ (end.superseded <=> calls[n].under # 0)
      /\ end.error <=> outcome = "error" /\ ~Shims[f.shim].early
  <2>1. InferredAgent(t) \in DisplayNames \cup Functions \cup {Nil}
    BY AgentFacts
  <2> HIDE DEF n, f
  <2> QED
    BY <1>2, <2>1 DEF Event, Events, Superseded
<1>6. chunk \in Events /\ chunk.call = n /\ chunk.part = "chunk" /\ ~chunk.superseded
  <2> HIDE DEF n, f
  <2> QED
    BY <1>2 DEF Event, Events
<1> DEFINE v == IF phase[c] # "body" \/ (es = h /\ Ends(outcome)) THEN "unseen" ELSE outcome
<1>7. calls' = [calls EXCEPT ![n].end = v] /\ v \in {"unseen", "ok", "error", "cancelled"}
      /\ (phase[c] # "body" => v = "unseen")
  BY <1>3
<1>8. context' \in [Tasks -> Contexts] /\ (\A u \in Tasks \ {t} : context'[u] = context[u])
      /\ context'[t].tracer = c /\ context'[t].marker = f.marker
  <2>1. context[t] \in Contexts /\ t \in DOMAIN context
    BY <1>0 DEF CaptureTypeOK
  <2> HIDE DEF f, c
  <2> QED
    BY <1>0, <1>2, <1>4, <2>1, SMTT(60) DEF CaptureTypeOK, Contexts
<1>9. /\ \A k \in Captures : events[k] \in Seq(Events)
      /\ \A k \in Captures \ {c} : events'[k] = events[k]
      /\ events'[c] = es
      /\ events' \in [Captures -> Seq(Events)]
  <2>1. \A k \in Captures : events[k] \in Seq(Events)
    BY <1>0 DEF ShapeInv
  <2>2. Append(h, end) \in Seq(Events)
    BY <1>2, <1>5, <2>1, AppendProperties
  <2>3. Append(Append(h, end), chunk) \in Seq(Events)
    BY <1>6, <2>2, AppendProperties
  <2>4. es \in Seq(Events)
    BY <1>2, <1>3, <2>1, <2>2, <2>3
  <2> QED
    BY <1>0, <1>2, <1>3, <2>1, <2>4 DEF ShapeInv
<1> HIDE DEF f, n, c, h, error, end, chunk, v
<1>10. /\ calls' \in Seq(CallRecords) /\ Len(calls') = Len(calls) /\ DOMAIN calls' = DOMAIN calls
       /\ calls'[n] = [calls[n] EXCEPT !.end = v]
       /\ \A k \in DOMAIN calls : k # n => calls'[k] = calls[k]
       /\ \A k \in DOMAIN calls : /\ calls'[k].shim = calls[k].shim
                                  /\ calls'[k].tracer = calls[k].tracer
                                  /\ calls'[k].under = calls[k].under
                                  /\ calls'[k].late = calls[k].late
       /\ \A g, d : Known(g, d, calls) => Known(g, d, calls')
       /\ CallInv' /\ FileInv'
  <2>1. phase[calls[n].tracer] = "written" => v = "unseen"
    BY <1>2, <1>7
  <2> QED
    BY <1>0, <1>2, <1>4, <1>7, <2>1, CallsEnd
<1>11. ASSUME NEW u \in Tasks, NEW i \in DOMAIN stack[u], u # t \/ i # Len(stack[t])
       PROVE  LET g == stack[u][i] IN
              /\ FrameInv(g, phase', calls')
              /\ g.on = "capture" => phase'[g.capture] = phase[g.capture]
  <2>1. FrameInv(stack[u][i], phase, calls) /\ stack[u][i] \in Frames
    BY <1>0, LenProperties, ElementOfSeq DEF StackInv, OpenInv, ShapeInv
  <2>2. ~Same(stack[u][i], f)
    BY <1>0, <1>2, <1>11 DEF StackInv, UniqueInv
  <2>3. stack[u][i].on # "capture" => stack[u][i].call # n
    BY <1>1, <2>1, <2>2 DEF Same, Frames, n
  <2> QED
    BY <1>4, <1>10, <2>1, <2>3 DEF FrameInv
<1>12. StackInv' /\ stack' \in [Tasks -> Seq(Frames)]
  <2>1. context'[t].tracer = Top(t).tracer /\ context'[t].marker = Under(Top(t))
    BY <1>1, <1>8 DEF Under, f, c
  <2> QED
    BY <1>0, <1>1, <1>4, <1>8, <1>11, <2>1, PopStack DEF ShapeInv
<1>13. ShapeInv'
  BY <1>0, <1>4, <1>9, <1>10, <1>12 DEF ShapeInv
<1>14. CaptureTypeOK'
  BY <1>0, <1>4, <1>8, <1>10, <1>13, TypesNext DEF CaptureTypeOK
<1>15. TruncateInv'
  BY <1>0, <1>4 DEF TruncateInv
<1>16. ASSUME NEW d \in Captures PROVE Known(events'[d], d, calls')
  <2>1. Known(events[d], d, calls')
    BY <1>0, <1>10 DEF HistoryInv
  <2>2. CASE d # c \/ es = h
    BY <1>2, <1>9, <2>1, <2>2 DEF h
  <2>3. CASE d = c /\ es # h
    <3>1. h \in Seq(Events) /\ Known(h, c, calls') /\ n \in DOMAIN calls'
          /\ calls'[n].tracer = c /\ calls'[n].under = calls[n].under
      BY <1>2, <1>9, <1>10, <2>1, <2>3 DEF h
    <3>2. Known(Append(h, end), c, calls')
      BY <1>5, <3>1, KnownAppend
    <3>3. Append(h, end) \in Seq(Events)
      BY <1>5, <3>1, AppendProperties
    <3>4. Known(Append(Append(h, end), chunk), c, calls')
      BY <1>6, <3>1, <3>2, <3>3, KnownAppend
    <3> QED
      BY <1>3, <1>9, <2>3, <3>2, <3>4
  <2> QED
    BY <2>2, <2>3
<1>17. ASSUME NEW d \in Captures, NEW k \in DOMAIN calls, calls[k].tracer = d, ~calls[k].late, phase[d] = "body"
       PROVE  Told(events'[d], k, calls'[k])
  <2>1. Told(events[d], k, calls[k])
    BY <1>0, <1>17 DEF HistoryInv, Of
  <2>2. events[d] \in Seq(Events)
    BY <1>9
  <2>3. CASE k # n
    <3>1. CASE d # c \/ es = h
      BY <1>2, <1>9, <1>10, <2>1, <2>3, <3>1 DEF h
    <3>2. CASE d = c /\ es # h
      <4>1. h \in Seq(Events) /\ Told(h, k, calls[k])
        BY <2>1, <2>2, <3>2 DEF h
      <4>2. Told(Append(h, end), k, calls[k]) /\ Append(h, end) \in Seq(Events)
        BY <1>5, <2>3, <4>1, ToldOther, AppendProperties
      <4>3. Told(Append(Append(h, end), chunk), k, calls[k])
        BY <1>6, <2>3, <4>2, ToldOther
      <4> QED
        BY <1>3, <1>9, <1>10, <2>3, <3>2, <4>2, <4>3
    <3> QED
      BY <3>1, <3>2
  <2>4. CASE k = n
    <3>1. d = c /\ phase[c] = "body" /\ h \in Seq(Events) /\ Told(h, n, calls[n])
      BY <1>2, <1>17, <2>1, <2>2, <2>4 DEF h
    <3>2. v = IF es = h /\ Ends(outcome) THEN "unseen" ELSE outcome
      BY <3>1 DEF v
    <3>3. CASE es = h
      <4>1. v \in {"unseen", "cancelled"}
        BY <3>2, <3>3 DEF Ends
      <4>2. Told(h, n, [calls[n] EXCEPT !.end = v])
        BY <1>2, <3>1, <4>1, ToldSilence
      <4> QED
        BY <1>9, <1>10, <2>4, <3>1, <3>3, <4>2
    <3>4. CASE es # h
      <4>1. v = outcome
        BY <3>2, <3>4
      <4>2. ~Shims[calls[n].shim].early => v = IF end.error THEN "error" ELSE "ok"
        BY <1>2, <1>3, <1>5, <3>4, <4>1 DEF Ends
      <4>3. Told(Append(h, end), n, [calls[n] EXCEPT !.end = v])
        BY <1>2, <1>5, <3>1, <4>1, <4>2, ToldEnd
      <4>4. /\ Append(h, end) \in Seq(Events) /\ EventPlaces(Append(h, end), n, "end") # {}
            /\ calls'[n].end # "open"
        <5>1. EventPlaces(Append(h, end), n, "end") # {}
          BY <1>5, <3>1, AppendPlaces, SMTT(60)
        <5>2. calls'[n].end # "open"
          BY <1>2, <1>10, <4>1 DEF CallRecords
        <5> QED
          BY <1>5, <3>1, <5>1, <5>2, AppendProperties
      <4>5. Told(Append(Append(h, end), chunk), n, calls'[n])
        BY <1>6, <1>10, <4>3, <4>4, ToldChunk
      <4> QED
        BY <1>3, <1>9, <1>10, <2>4, <3>1, <3>4, <4>3, <4>5
    <3> QED
      BY <3>3, <3>4
  <2> QED
    BY <2>3, <2>4
<1>18. HistoryInv'
  <2>1. ASSUME NEW d \in Captures, NEW k \in DOMAIN calls, calls[k].tracer = d, ~calls[k].late
        PROVE  phase[d] \in {"body"} \cup Closed
    BY <1>0, <2>1 DEF HistoryInv, Of
  <2> QED
    BY <1>4, <1>10, <1>16, <1>17, <2>1 DEF HistoryInv, Of
<1> QED
  BY <1>10, <1>12, <1>13, <1>14, <1>15, <1>18 DEF IInv
-----------------------------------------------------------------------------
(* The inductive invariant. *)

LEMMA InitStep == CaptureInit => IInv
<1> SUFFICES ASSUME CaptureInit PROVE IInv
  OBVIOUS
<1> USE DEF CaptureInit
<1>1. \A c \in Captures : events[c] = <<>> /\ phase[c] = "new"
  OBVIOUS
<1>2. \A t \in Tasks : stack[t] = <<>> /\ DOMAIN stack[t] = {}
  OBVIOUS
<1>3. ShapeInv
  BY EmptySeq DEF ShapeInv
<1>4. \A t \in Tasks : Range(stack[t]) \subseteq Frames
  BY <1>2 DEF Range
<1>5. \A c \in Captures : Range(events[c]) \subseteq Events
  BY <1>1 DEF Range
<1>6. context \in [Tasks -> Contexts]
  BY BoundAssumption DEF Contexts
<1>7. Len(calls) = 0 /\ DOMAIN calls = {} /\ DOMAIN file = {}
  OBVIOUS
<1>8. CaptureTypeOK
  <2>1. Len(calls) <= MaxCalls
    BY <1>7, BoundAssumption
  <2> QED
    BY <1>4, <1>5, <1>6, <1>7, <2>1, TaskAssumption DEF CaptureTypeOK
<1>9. StackInv
  BY <1>2 DEF StackInv, UniqueInv, OpenInv, ChainInv, TopInv
<1>10. CallInv /\ FileInv
  BY <1>7 DEF CallInv, FileInv
<1>11. HistoryInv
  BY <1>1, <1>7 DEF HistoryInv, Known, Of
<1>12. TruncateInv
  BY <1>1 DEF TruncateInv
<1> QED
  BY <1>3, <1>8, <1>9, <1>10, <1>11, <1>12 DEF IInv

LEMMA StepKeeps == IInv /\ [CaptureNext]_captureVars => IInv'
<1> SUFFICES ASSUME IInv, [CaptureNext]_captureVars PROVE IInv'
  OBVIOUS
<1>1. CASE \E t \in Tasks, u \in Tasks, copied \in BOOLEAN : Spawn(t, u, copied)
  BY <1>1, SpawnStep
<1>2. CASE Uninstall
  BY <1>2, UninstallStep
<1>3. CASE \E t \in Tasks, c \in Captures : Record(t, c)
  BY <1>3, RecordStep
<1>4. CASE \E t \in Tasks : Truncate(t) \/ Activate(t)
  BY <1>4, TruncateStep, ActivateStep
<1>5. CASE \E t \in Tasks, failed \in BOOLEAN : Close(t, failed)
  BY <1>5, CloseStep
<1>6. CASE \E t \in Tasks, shim \in DOMAIN Shims : Enter(t, shim)
  BY <1>6, EnterStep
<1>7. CASE \E t \in Tasks, outcome \in {"ok", "error", "cancelled"} : Leave(t, outcome)
  BY <1>7, LeaveStep
<1>8. CASE UNCHANGED captureVars
  <2> USE <1>8 DEF captureVars
  <2>1. StackInv'
    BY DEF IInv, StackInv, UniqueInv, OpenInv, ChainInv, TopInv, Top
  <2>2. CaptureTypeOK
    BY DEF IInv
  <2> QED
    BY <2>1, <2>2, QuietStep DEF CaptureTypeOK
<1> QED
  BY <1>1, <1>2, <1>3, <1>4, <1>5, <1>6, <1>7, <1>8 DEF CaptureNext

(* Every reachable state satisfies the inductive invariant: stacks, markers, *)
(* histories and lines agree whatever is called, spawned or cancelled.     *)
THEOREM Inductive == CaptureSpec => []IInv
BY InitStep, StepKeeps, PTL DEF CaptureSpec

(* The state of tracer, wrappers, stacks and file keeps its types.         *)
THEOREM TypeCorrect == CaptureSpec => []CaptureTypeOK
<1>1. IInv => CaptureTypeOK
  BY DEF IInv
<1> QED
  BY Inductive, <1>1, PTL
-----------------------------------------------------------------------------
(* What a trajectory tells. *)

(* A line of the file is a history, and tells of each call of its capture. *)
LEMMA LineTells ==
    ASSUME IInv, NEW i \in DOMAIN file
    PROVE  /\ file[i].capture \in Captures /\ phase[file[i].capture] = "written"
           /\ Known(file[i].events, file[i].capture, calls)
           /\ \A k \in DOMAIN file[i].events : ~file[i].events[k].superseded /\ k \in Nat
           /\ \A n \in Of(file[i].capture) : n \in DOMAIN calls /\ Told(file[i].events, n, calls[n])
<1>1. LineInv(file[i], phase, calls)
  BY DEF IInv, FileInv
<1>2. file[i] \in LineRecords
  BY LenProperties, ElementOfSeq DEF IInv, ShapeInv
<1>3. file[i].capture \in Captures /\ DOMAIN file[i].events \subseteq Nat
  BY <1>2 DEF LineRecords, Histories
<1> QED
  BY <1>1, <1>3 DEF LineInv, Of

(* Of a set with at most one element. *)
LEMMA AtMostOne ==
    ASSUME NEW S, \A i, k \in S : i = k
    PROVE  S = {} \/ Cardinality(S) = 1
<1>1. CASE S # {}
  <2>1. PICK i : S = {i}
    BY <1>1
  <2> QED
    BY <2>1, FS_Singleton
<1> QED
  BY <1>1

LEMMA KeptFacts == IInv => KeptOnce
<1> SUFFICES ASSUME IInv, NEW i \in DOMAIN file, NEW n \in Of(file[i].capture), calls[n].under = 0
             PROVE  LET es == file[i].events IN
                    /\ UNION {EventPlaces(es, m, "start") : m \in Exchange(n)} = EventPlaces(es, n, "start")
                    /\ UNION {EventPlaces(es, m, "end") : m \in Exchange(n)} = EventPlaces(es, n, "end")
                    /\ Cardinality(EventPlaces(es, n, "start")) = IF calls[n].captured THEN 1 ELSE 0
  BY DEF KeptOnce
<1> DEFINE es == file[i].events
<1>1. /\ Known(es, file[i].capture, calls)
      /\ \A k \in DOMAIN es : ~es[k].superseded
      /\ n \in DOMAIN calls /\ Told(es, n, calls[n])
  BY LineTells
<1>2. n # 0
  <2>1. DOMAIN calls = 1 .. Len(calls) /\ Len(calls) \in Nat
    BY LenProperties DEF IInv, ShapeInv
  <2> QED
    BY <1>1, <2>1
<1> HIDE DEF es
<1>3. ASSUME NEW m \in DOMAIN calls, calls[m].under # 0
      PROVE  EventPlaces(es, m, "start") = {} /\ EventPlaces(es, m, "end") = {}
  BY <1>1, <1>3 DEF EventPlaces, Known
<1>4. ASSUME NEW m \in Exchange(n), m # n
      PROVE  EventPlaces(es, m, "start") = {} /\ EventPlaces(es, m, "end") = {}
  BY <1>2, <1>3, <1>4 DEF Exchange
<1>5. n \in Exchange(n)
  BY DEF Exchange
<1>6. UNION {EventPlaces(es, m, "start") : m \in Exchange(n)} = EventPlaces(es, n, "start")
  BY <1>4, <1>5
<1>7. UNION {EventPlaces(es, m, "end") : m \in Exchange(n)} = EventPlaces(es, n, "end")
  BY <1>4, <1>5
<1>8. Cardinality(EventPlaces(es, n, "start")) = IF calls[n].captured THEN 1 ELSE 0
  <2>1. /\ calls[n].captured <=> EventPlaces(es, n, "start") # {}
        /\ \A s, k \in EventPlaces(es, n, "start") : s = k
    BY <1>1 DEF Told
  <2> QED
    BY <2>1, AtMostOne, FS_EmptySet
<1> QED
  BY <1>6, <1>7, <1>8 DEF es

LEMMA WholeFacts == IInv => HistoryIsWhole
<1> SUFFICES ASSUME IInv PROVE HistoryIsWhole
  OBVIOUS
<1>1. ASSUME NEW i \in DOMAIN file
      PROVE  \A k \in DOMAIN file[i].events : calls[file[i].events[k].call].tracer = file[i].capture
  BY LineTells DEF Known
<1>2. ASSUME NEW i \in DOMAIN file, NEW n \in Of(file[i].capture)
      PROVE  LET es == file[i].events
                 starts == EventPlaces(es, n, "start")
                 ends == EventPlaces(es, n, "end")
             IN  /\ Cardinality(ends) <= 1
                 /\ calls[n].captured => \A e \in ends : \A s \in starts : s < e
                 /\ ~Shims[calls[n].shim].early =>
                       \A e \in ends : calls[n].end = IF es[e].error THEN "error" ELSE "ok"
                 /\ calls[n].end \in {"ok", "error"} /\ starts # {} => ends # {}
                 /\ calls[n].under = 0 =>
                       \A k \in EventPlaces(es, n, "chunk") : \E e \in ends : e < k
  <2> DEFINE es == file[i].events
             ends == EventPlaces(es, n, "end")
  <2>1. Told(es, n, calls[n])
    BY LineTells
  <2>2. Cardinality(ends) <= 1
    <3>1. \A e, k \in ends : e = k
      BY <2>1 DEF Told
    <3> HIDE DEF ends
    <3> QED
      BY <3>1, AtMostOne, FS_EmptySet
  <2> QED
    BY <2>1, <2>2 DEF Told
<1>3. ASSUME NEW c \in Captures
      PROVE  LET at == {i \in DOMAIN file : file[i].capture = c}
             IN  /\ Cardinality(at) <= 1
                 /\ phase[c] = "written" => at # {} \/ stale \ {c} # {}
  <2> DEFINE at == {i \in DOMAIN file : file[i].capture = c}
  <2>1. \A i, k \in at : i = k
    BY DEF IInv, FileInv
  <2>2. phase[c] = "written" => at # {} \/ stale \ {c} # {}
    BY DEF IInv, TruncateInv
  <2>3. Cardinality(at) <= 1
    <3> HIDE DEF at
    <3> QED
      BY <2>1, AtMostOne, FS_EmptySet
  <2> QED
    BY <2>2, <2>3
<1> QED
  BY <1>1, <1>2, <1>3 DEF HistoryIsWhole, WrittenStays

(* A trajectory tells of an exchange with a model once, by the marker that  *)
(* an SDK's wrapper sets and the filter of the tracer's flush.             *)
THEOREM ToldOnce == CaptureSpec => []KeptOnce
BY Inductive, KeptFacts, PTL

(* What is written is a history of its block, end after start, and stays   *)
(* in the file unless a concurrent capture began before the truncation.    *)
THEOREM Whole == CaptureSpec => []HistoryIsWhole
BY Inductive, WholeFacts, PTL
=============================================================================
