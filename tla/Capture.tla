------------------------------- MODULE Capture -------------------------------
(***************************************************************************)
(* The capture layer: wrappers around model SDKs, HTTP clients, RPCs, tools *)
(* and frameworks that record events with the active tracer, the tracer    *)
(* that writes them as one trajectory, and `agentdiff.record`, which opens *)
(* a tracer for a block of the user's code.                                *)
(*                                                                         *)
(* A task is a thread or an asyncio task with its context variables; its   *)
(* calls and captures nest, and are kept as a stack of frames.  A call is a *)
(* number, in the order of the calls; what it sends and hears is left out. *)
(***************************************************************************)
EXTENDS Integers, FiniteSets, Sequences, SequencesExt

CONSTANTS
    Tasks,       \* threads and asyncio tasks
    Main,        \* the one that runs from the start
    Captures,    \* blocks of agentdiff.record, all of one name
    Scenarios,   \* which wrappers are enabled or applied, how many calls and captures there
                 \* are, and what may go wrong
    Available,   \* wrappers whose library can be imported
    CallStack,   \* the frames above a call of a task, nearest first
    AgentNames,  \* display name of a function in structure.yaml
    MaxCalls     \* bound on the calls

Nil == "none"
FaultKinds == {"capture", "flush", "cancel", "install"}

(***************************************************************************)
(* What the wrappers do.  kind is who an event says captured it; a wrapper *)
(* marks its context while the original runs; chunks are recorded after a  *)
(* response; the tracer of a framework event is looked up again at the end; *)
(* an early wrapper is left when the original has returned a call object   *)
(* or an iterator, before the call is over.                                *)
(***************************************************************************)
Wrapper(kind) == [kind |-> kind, marks |-> kind = "sdk", chunks |-> kind = "http", early |-> FALSE]

OpenAI == Wrapper("sdk")
OpenAIAsync == Wrapper("sdk")
Anthropic == Wrapper("sdk")
AnthropicAsync == Wrapper("sdk")
Httpx == Wrapper("http")
HttpxAsync == Wrapper("http")
Requests == Wrapper("http")
Aiohttp == Wrapper("http")
Mcp == Wrapper("tool")
Tool == Wrapper("tool")
ToolAsync == Wrapper("tool")
Span == Wrapper("framework")
Node == Wrapper("framework")
Grpc == Wrapper("framework")
GrpcStream == [Wrapper("framework") EXCEPT !.early = TRUE]

Shims ==
    [openai |-> OpenAI, openai_async |-> OpenAIAsync,
     anthropic |-> Anthropic, anthropic_async |-> AnthropicAsync,
     httpx |-> Httpx, httpx_async |-> HttpxAsync, requests |-> Requests, aiohttp |-> Aiohttp,
     mcp |-> Mcp, tool |-> Tool, tool_async |-> ToolAsync,
     span |-> Span, node |-> Node, grpc |-> Grpc, grpc_stream |-> GrpcStream]

(* The decorator of tools is part of the user's code, never a patch. *)
Decorators == {"tool", "tool_async"}

ASSUME TaskAssumption == Main \in Tasks
ASSUME ShimAssumption == Available \subseteq DOMAIN Shims
ASSUME ScenarioAssumption ==
    \A s \in Scenarios :
        /\ s.enabled \subseteq DOMAIN Shims
        /\ s.calls \in 0 .. MaxCalls
        /\ s.captures \subseteq Captures
        /\ s.faults \subseteq FaultKinds
ASSUME StackAssumption ==
    \A t \in Tasks :
        /\ DOMAIN CallStack[t] \subseteq Nat
        /\ \A i \in DOMAIN CallStack[t] :
              CallStack[t][i].code \in {"user", "sdk", "framework", "agentdiff", "library"}
ASSUME BoundAssumption == MaxCalls \in Nat

VARIABLES
    scenario,   \* fixed
    installed,  \* wrappers that are in place
    alive,      \* tasks that have started
    context,    \* the context variables of a task
    stack,      \* its open calls and captures, the innermost last
    events,     \* of a capture's tracer, in the order of their sequence numbers
    phase,      \* of a capture
    seen,       \* whether the capture file was truncated by this process
    file,       \* the lines of the capture file
    calls,      \* what each call was, for the properties only
    stale       \* captures that began before the first was past truncating, likewise

captureVars == <<scenario, installed, alive, context, stack, events, phase, seen, file, calls, stale>>

(* The active tracer, and the SDK call that has set the marker, 0 if none. *)
Contexts == [tracer : Captures \cup {Nil}, marker : 0 .. MaxCalls]
Frames ==
    [on : {"call"}, call : 1 .. MaxCalls, shim : DOMAIN Shims, tracer : Captures,
     marker : 0 .. MaxCalls]
    \cup [on : {"capture"}, capture : Captures, tracer : Captures \cup {Nil}]
DisplayNames == {AgentNames[f] : f \in DOMAIN AgentNames}
Functions ==
    UNION {{CallStack[t][i].function : i \in {k \in DOMAIN CallStack[t] : CallStack[t][k].code = "user"}} :
            t \in Tasks}
Events ==
    [call : 1 .. MaxCalls, part : {"start", "end", "chunk"}, error : BOOLEAN,
     superseded : BOOLEAN, agent : DisplayNames \cup Functions \cup {Nil}]

CaptureTypeOK ==
    /\ scenario \in Scenarios
    /\ installed \subseteq Available \cup Decorators
    /\ Main \in alive /\ alive \subseteq Tasks
    /\ context \in [Tasks -> Contexts]
    /\ \A t \in Tasks : Range(stack[t]) \subseteq Frames
    /\ \A c \in Captures : Range(events[c]) \subseteq Events
    /\ phase \in [Captures -> {"new", "truncate", "enter", "body", "written", "lost"}]
    /\ seen \in BOOLEAN
    /\ \A i \in DOMAIN file : file[i].capture \in Captures /\ Range(file[i].events) \subseteq Events
    /\ Len(calls) <= MaxCalls
    /\ stale \subseteq Captures

CaptureInit ==
    /\ scenario \in Scenarios
    /\ installed = {}
    /\ alive = {Main}
    /\ context = [t \in Tasks |-> [tracer |-> Nil, marker |-> 0]]
    /\ stack = [t \in Tasks |-> <<>>]
    /\ events = [c \in Captures |-> <<>>]
    /\ phase = [c \in Captures |-> "new"]
    /\ seen = FALSE
    /\ file = <<>>
    /\ calls = <<>>
    /\ stale = {}

Top(t) == Last(stack[t])
Push(t, frame) == stack' = [stack EXCEPT ![t] = Append(@, frame)]
Pop(t) == stack' = [stack EXCEPT ![t] = Front(@)]
At(t, p) == stack[t] # <<>> /\ Top(t).on = "capture" /\ phase[Top(t).capture] = p

(* The task is not on its way into a capture. *)
InBlock(t) ==
    \/ stack[t] = <<>>
    \/ stack[t] # <<>> /\ Top(t).on = "call"
    \/ At(t, "body")
-----------------------------------------------------------------------------
(* install and uninstall. *)

(* Mutant of InstallAll: a missing library is not noticed. *)
InstallBlindly == scenario.enabled

(* An enabled wrapper whose library is missing is reported and left out.   *)
InstallAll == scenario.enabled \cap (Available \cup Decorators)

(* A task starts with a copy of its parent's context, as asyncio's tasks   *)
(* do, or with an empty one, as threads do.                                *)
Spawn(t, u, copied) ==
    /\ t \in alive /\ u \notin alive
    /\ alive' = alive \cup {u}
    /\ context' = IF copied THEN [context EXCEPT ![u] = context[t]] ELSE context
    /\ UNCHANGED <<scenario, installed, stack, events, phase, seen, file, calls, stale>>

Uninstall ==
    /\ "install" \in scenario.faults
    /\ installed' = installed \cap Decorators
    /\ UNCHANGED <<scenario, alive, context, stack, events, phase, seen, file, calls, stale>>
-----------------------------------------------------------------------------
(* agentdiff.record: the file is truncated by the first capture of its name *)
(* in the process; looking for that and truncating are two steps.  An SDK  *)
(* does not call back into code that captures.                             *)

Record(t, c) ==
    /\ t \in alive
    /\ c \in scenario.captures /\ phase[c] = "new" /\ context[t].marker = 0
    /\ InBlock(t)
    /\ installed' = InstallAll
    /\ phase' = [phase EXCEPT ![c] = IF seen THEN "enter" ELSE "truncate"]
    /\ stale' = stale \cup {d \in {c} : \A e \in Captures : phase[e] \in {"new", "truncate"}}
    /\ Push(t, [on |-> "capture", capture |-> c, tracer |-> context[t].tracer])
    /\ UNCHANGED <<scenario, alive, context, events, seen, file, calls>>

Truncate(t) ==
    /\ At(t, "truncate")
    /\ file' = <<>>
    /\ seen' = TRUE
    /\ phase' = [phase EXCEPT ![Top(t).capture] = "enter"]
    /\ UNCHANGED <<scenario, installed, alive, context, stack, events, calls, stale>>

Activate(t) ==
    /\ At(t, "enter")
    /\ context' = [context EXCEPT ![t].tracer = Top(t).capture]
    /\ phase' = [phase EXCEPT ![Top(t).capture] = "body"]
    /\ UNCHANGED <<scenario, installed, alive, stack, events, seen, file, calls, stale>>

(* What is kept of a history; an event keeps its sequence number. *)
Kept(es) == [k \in {i \in DOMAIN es : ~es[i].superseded} |-> es[k]]
Line(c, failed) == [capture |-> c, failed |-> failed, events |-> Kept(events[c])]

(* The block is left, by an exception when it failed; a flush that fails   *)
(* is only reported.                                                       *)
Close(t, failed) ==
    /\ At(t, "body")
    /\ LET c == Top(t).capture
       IN  /\ context' = [context EXCEPT ![t].tracer = Top(t).tracer]
           /\ \/ phase' = [phase EXCEPT ![c] = "written"] /\ file' = Append(file, Line(c, failed))
              \/ /\ "flush" \in scenario.faults
                 /\ phase' = [phase EXCEPT ![c] = "lost"] /\ UNCHANGED file
    /\ Pop(t)
    /\ UNCHANGED <<scenario, installed, alive, events, seen, calls, stale>>
-----------------------------------------------------------------------------
(* Calls through a wrapper.  Without a tracer it only calls the original.  *)

UserFrames(t) == {i \in DOMAIN CallStack[t] : CallStack[t][i].code = "user"}
Nearest(t, frames) == CallStack[t][CHOOSE i \in frames : \A k \in frames : i <= k].function

(* The first user frame that is an agent has its display name; without one *)
(* the nearest user function stands for the agent.                         *)
InferredAgent(t) ==
    LET user == UserFrames(t)
        known == {i \in user : CallStack[t][i].function \in DOMAIN AgentNames}
    IN  IF known # {} THEN AgentNames[Nearest(t, known)]
        ELSE IF user # {} THEN Nearest(t, user) ELSE Nil

(* Mutant of Superseded: what an SDK heard over HTTP is kept as well.      *)
NeverSuperseded(t, shim) == FALSE

Superseded(t, shim) == Shims[shim].kind = "http" /\ context[t].marker # 0

Event(t, n, shim, part, error) ==
    [call |-> n, part |-> part, error |-> error,
     superseded |-> part # "chunk" /\ Superseded(t, shim),
     agent |-> IF part = "start" \/ (part = "end" /\ Shims[shim].kind = "framework")
               THEN InferredAgent(t) ELSE Nil]

(* Recording one event may raise: that is reported and ignored.            *)
Append1(es, e) == {Append(es, e)} \cup (IF "capture" \in scenario.faults THEN {es} ELSE {})

(* A model SDK only calls out over HTTP. *)
MayCall(t, shim) ==
    /\ t \in alive /\ shim \in installed
    /\ context[t].tracer # Nil
    /\ context[t].marker # 0 => Shims[shim].kind = "http"
    /\ InBlock(t)

Enter(t, shim) ==
    /\ MayCall(t, shim)
    /\ Len(calls) < scenario.calls
    /\ LET n == Len(calls) + 1
           c == context[t].tracer
       IN  /\ \E es \in Append1(events[c], Event(t, n, shim, "start", FALSE)) :
                 /\ events' = [events EXCEPT ![c] = es]
                 /\ calls' = Append(calls, [shim |-> shim, tracer |-> c, under |-> context[t].marker,
                                            end |-> "open", captured |-> es # events[c],
                                            late |-> phase[c] # "body"])
           /\ context' = [context EXCEPT ![t].marker = IF Shims[shim].marks THEN n ELSE @]
           /\ Push(t, [on |-> "call", call |-> n, shim |-> shim, tracer |-> c,
                       marker |-> context[t].marker])
    /\ UNCHANGED <<scenario, installed, alive, phase, seen, file, stale>>

(* Framework events look the tracer up again, the others have kept it. *)
TracerAtEnd(t, frame) ==
    IF Shims[frame.shim].kind = "framework" THEN context[t].tracer ELSE frame.tracer

(* Mutant of Ends: a cancelled call is recorded as answered. *)
EndsAnyhow(outcome) == TRUE

(* A cancellation is no Exception: no wrapper records an end for it.       *)
Ends(outcome) == outcome # "cancelled"

(* An HTTP response is recorded with its chunks, if it has any. *)
Answered(t, frame, es, error) ==
    LET end == Append(es, Event(t, frame.call, frame.shim, "end", error))
        chunk == Event(t, frame.call, frame.shim, "chunk", FALSE)
    IN  {end} \cup (IF Shims[frame.shim].chunks /\ ~error THEN {Append(end, chunk)} ELSE {})
              \cup (IF "capture" \in scenario.faults THEN {es} ELSE {})

(* The call ends; what was raised goes on to the frame below. *)
Leave(t, outcome) ==
    /\ stack[t] # <<>> /\ Top(t).on = "call"
    /\ outcome = "cancelled" => "cancel" \in scenario.faults
    /\ LET frame == Top(t)
           c == TracerAtEnd(t, frame)
           error == outcome = "error" /\ ~Shims[frame.shim].early
       IN  /\ \E es \in IF Ends(outcome) \/ Shims[frame.shim].early
                        THEN Answered(t, frame, events[c], error) ELSE {events[c]} :
                 /\ events' = [events EXCEPT ![c] = es]
                 /\ calls' = [calls EXCEPT ![frame.call].end =
                                IF phase[c] # "body" \/ (es = events[c] /\ Ends(outcome))
                                THEN "unseen" ELSE outcome]
           /\ context' = [context EXCEPT ![t].marker = frame.marker]
    /\ Pop(t)
    /\ UNCHANGED <<scenario, installed, alive, phase, seen, file, stale>>

CaptureNext ==
    \/ \E t \in Tasks, u \in Tasks, copied \in BOOLEAN : Spawn(t, u, copied)
    \/ Uninstall
    \/ \E t \in Tasks, c \in Captures : Record(t, c)
    \/ \E t \in Tasks : Truncate(t) \/ Activate(t)
    \/ \E t \in Tasks, failed \in BOOLEAN : Close(t, failed)
    \/ \E t \in Tasks, shim \in DOMAIN Shims : Enter(t, shim)
    \/ \E t \in Tasks, outcome \in {"ok", "error", "cancelled"} : Leave(t, outcome)

CaptureSpec == CaptureInit /\ [][CaptureNext]_captureVars
-----------------------------------------------------------------------------
(* Properties. *)

EventPlaces(es, n, part) == {i \in DOMAIN es : es[i].call = n /\ es[i].part = part}

(* The calls that ran under an SDK call, and that call itself.             *)
Exchange(n) == {n} \cup {m \in DOMAIN calls : calls[m].under = n}
Of(c) == {n \in DOMAIN calls : calls[n].tracer = c /\ ~calls[n].late}

(* A trajectory tells of an exchange with a model once, however many HTTP  *)
(* requests and retries the SDK made of it: its own start, and none of     *)
(* theirs; and a request that no SDK made is there, unless capturing it    *)
(* failed (tracer.py's marker and the filter of its flush).                *)
KeptOnce ==
    \A i \in DOMAIN file : \A n \in Of(file[i].capture) :
        calls[n].under = 0 =>
            LET es == file[i].events
            IN  /\ UNION {EventPlaces(es, m, "start") : m \in Exchange(n)} = EventPlaces(es, n, "start")
                /\ UNION {EventPlaces(es, m, "end") : m \in Exchange(n)} = EventPlaces(es, n, "end")
                /\ Cardinality(EventPlaces(es, n, "start")) = IF calls[n].captured THEN 1 ELSE 0

(* A capture that was written stays in the file of its name, once, unless  *)
(* a concurrent one began before the file was first truncated.             *)
WrittenStays ==
    \A c \in Captures :
        LET at == {i \in DOMAIN file : file[i].capture = c}
        IN  /\ Cardinality(at) <= 1
            /\ phase[c] = "written" => at # {} \/ stale \ {c} # {}

(* A trajectory is a history of its block: an end follows the start of its *)
(* call and tells how the call ended, but for a stream or an asynchronous  *)
(* RPC; a start has its end unless the call was cancelled, was still going *)
(* on or the end could not be captured ("so the trajectory shows the       *)
(* failed call instead of a dangling request", httpx_shim.py:132); chunks  *)
(* follow a response that is there, unless an SDK superseded it.  And once *)
(* written it stays.                                                       *)
HistoryIsWhole ==
    /\ \A i \in DOMAIN file :
        LET es == file[i].events
            c == file[i].capture
        IN  /\ \A k \in DOMAIN es : calls[es[k].call].tracer = c
            /\ \A n \in Of(c) :
                  LET starts == EventPlaces(es, n, "start")
                      ends == EventPlaces(es, n, "end")
                  IN  /\ Cardinality(ends) <= 1
                      /\ calls[n].captured => \A e \in ends : \A s \in starts : s < e
                      /\ ~Shims[calls[n].shim].early =>
                            \A e \in ends : calls[n].end = IF es[e].error THEN "error" ELSE "ok"
                      /\ calls[n].end \in {"ok", "error"} /\ starts # {} => ends # {}
                      /\ calls[n].under = 0 =>
                            \A k \in EventPlaces(es, n, "chunk") : \E e \in ends : e < k
    /\ WrittenStays
=============================================================================
