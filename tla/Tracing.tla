------------------------------- MODULE Tracing -------------------------------
(***************************************************************************)
(* The Python SDK: the tracer provider of a process (tracer.py) and the    *)
(* spans of traced invocations, those of the LangGraph adapter             *)
(* (langgraph.py) and those of decorated functions with span helpers       *)
(* (raw.py, spans.py), in threads beside each other and beside the threads *)
(* that configure and reset tracing.                                       *)
(*                                                                         *)
(* A step is what runs under the lock of tracer.py or between two events   *)
(* of one thread.  What is captured on a span may raise on its way there   *)
(* (the str() of a value, a redaction): LangChain logs what a handler      *)
(* raises and goes on, a helper's exception is its caller's.               *)
(*                                                                         *)
(* OpenTelemetry is external: a span has the context it was started in,    *)
(* and is exported when it ends unless its provider has been shut down.    *)
(* A span processor has a thread from when it is built until it is shut    *)
(* down, and a provider has the number of its processor.                   *)
(***************************************************************************)
EXTENDS Naturals, Sequences, FiniteSets, SequencesExt

CONSTANTS
  GraphCalls,        \* calls of TracedGraph.invoke
  RawCalls,          \* calls of functions under trace_agent
  Inner,             \* the node runs of a graph, the helper blocks of a function
  Tools,             \* those of run_tool, and of execute_tool_span and memory_span
  Root,              \* the invoke_agent span
  NoTrace,           \* the context of a span without an identity
  NoOpKeepsContext,  \* a no-op span carries on the context it was started in
  MaxProcessors,     \* bound on how many span processors are built
  MaxCalls           \* bound on how many of the calls are made

Calls == GraphCalls \cup RawCalls
Spans == Inner \cup {Root}

ASSUME CallsAssumption ==
  /\ GraphCalls \cap RawCalls = {}
  /\ Tools \subseteq Inner
  /\ Root \notin Inner
  /\ NoTrace \notin Inner \cup {Root}

\* Which of the two depends on the version of OpenTelemetry.
ASSUME LibraryAssumption == NoOpKeepsContext \in BOOLEAN

ASSUME BoundAssumption == {MaxProcessors, MaxCalls} \subseteq Nat

VARIABLES
  provider,   \* _provider: its number, 0 for None
  processors, \* how many span processors were built
  coming,     \* those that configure_otlp_tracing has built and not yet passed on
  refused,    \* those it passed on when there was a provider already
  down,       \* those that were shut down
  pc,         \* where each call is
  tracer,     \* the provider behind the first tracer a call was given
  span,       \* the spans of each call
  tracked,    \* _spans of a graph call's callback handler
  node,       \* the last event of each node run
  stack,      \* the helper blocks a function is in
  exported,   \* the spans that were exported
  lost        \* the spans whose end() an exception in the SDK passed over

vars == <<provider, processors, coming, refused, down,
          pc, tracer, span, tracked, node, stack, exported, lost>>

sdk   == <<provider, processors, coming, refused, down>>
calls == <<pc, tracer, span, tracked, node, stack, exported, lost>>

\* by: the provider, 0 for the no-op tracer; trace: the span at the root of its
\* trace; ends: how often end() was called.
Span == [started : BOOLEAN, by : Nat, trace : Spans \cup {NoTrace}, ends : Nat]

Open(c, s) == span[c][s].started /\ span[c][s].ends = 0

TypeOK ==
  /\ provider \in 0 .. processors
  /\ processors \in 0 .. MaxProcessors
  /\ coming \subseteq 1 .. processors
  /\ refused \subseteq 1 .. processors
  /\ down \subseteq 1 .. processors
  /\ pc \in [Calls -> {"idle", "begun", "running", "returned", "raised"}]
  /\ tracer \in [Calls -> 0 .. processors]
  /\ span \in [Calls -> [Spans -> Span]]
  /\ tracked \in [Calls -> SUBSET Inner]
  /\ node \in [Calls -> [Inner -> {"waiting", "running", "failed", "ended"}]]
  /\ stack \in [Calls -> Seq(Inner)]
  /\ exported \subseteq Calls \X Spans
  /\ lost \subseteq Calls \X Inner
  /\ \A c \in Calls : \A n \in tracked[c] \cup ToSet(stack[c]) : Open(c, n)

NotStarted == [started |-> FALSE, by |-> 0, trace |-> NoTrace, ends |-> 0]

Init ==
  /\ provider = 0
  /\ processors = 0
  /\ coming = {}
  /\ refused = {}
  /\ down = {}
  /\ pc = [c \in Calls |-> "idle"]
  /\ tracer = [c \in Calls |-> 0]
  /\ span = [c \in Calls |-> [s \in Spans |-> NotStarted]]
  /\ tracked = [c \in Calls |-> {}]
  /\ node = [c \in Calls |-> [n \in Inner |-> "waiting"]]
  /\ stack = [c \in Calls |-> <<>>]
  /\ exported = {}
  /\ lost = {}

-----------------------------------------------------------------------------
(* The provider.  Each of these holds the lock all along, but the first.   *)

\* configure_otlp_tracing builds its processor before anything else.
BuildExporter ==
  /\ processors < MaxProcessors
  /\ processors' = processors + 1
  /\ coming' = coming \cup {processors + 1}
  /\ UNCHANGED <<provider, refused, down, calls>>

\* It ends in configure_tracing, which has no use for the processor when there
\* is a provider; nobody shuts it down.
ConfigureOtlp(p) ==
  /\ p \in coming
  /\ coming' = coming \ {p}
  /\ \/ provider = 0 /\ provider' = p /\ UNCHANGED refused
     \/ provider # 0 /\ refused' = refused \cup {p} /\ UNCHANGED provider
  /\ UNCHANGED <<processors, down, calls>>

\* Faulty variant of Configure: the last call wins.
ConfigureAgain ==
  /\ processors < MaxProcessors
  /\ processors' = processors + 1
  /\ provider' = processors + 1
  /\ UNCHANGED <<coming, refused, down, calls>>

\* configure_tracing by itself.  When there is a provider it is returned, and no
\* processor is built.
Configure ==
  /\ provider = 0
  /\ processors < MaxProcessors
  /\ processors' = processors + 1
  /\ provider' = processors + 1
  /\ UNCHANGED <<coming, refused, down, calls>>

\* Faulty variant of Reset: the provider is dropped and goes on running.
ResetOnlyDrops ==
  /\ provider # 0
  /\ provider' = 0
  /\ UNCHANGED <<processors, coming, refused, down, calls>>

Reset ==
  /\ provider # 0
  /\ down' = down \cup {provider}
  /\ provider' = 0
  /\ UNCHANGED <<processors, coming, refused, calls>>

-----------------------------------------------------------------------------
(* Spans.                                                                  *)

\* get_tracer: the provider read under the lock, 0 for the global no-op tracer.
\* Helpers start their span right after, which no other thread can tell from
\* the reading.
GetTracer == provider

StartSpan(by, context, s) ==
  [started |-> TRUE, by |-> by, ends |-> 0,
   trace |-> IF by = 0 THEN IF NoOpKeepsContext THEN context ELSE NoTrace
             ELSE IF context = NoTrace THEN s ELSE context]

\* The context of what a call does now: that of the innermost block.
Context(c) == span[c][IF stack[c] = <<>> THEN Root ELSE Last(stack[c])].trace

Up(p) == p # 0 /\ p \notin down

EndSpan(c, s) ==
  /\ span' = [span EXCEPT ![c][s].ends = @ + 1]
  /\ exported' = IF Up(span[c][s].by) THEN exported \cup {<<c, s>>} ELSE exported
  /\ UNCHANGED lost

\* The SDK raises and the span's end() is never reached.
LoseSpan(c, s) == lost' = lost \cup {<<c, s>>}

-----------------------------------------------------------------------------
(* Invocations of a traced graph.                                          *)

\* One more call may be made.
CallsLeft == Cardinality({c \in Calls : pc[c] # "idle"}) < MaxCalls

\* The callback handler takes its tracer when it is made, before the root span.
MakeHandler(c) ==
  /\ c \in GraphCalls
  /\ pc[c] = "idle" /\ CallsLeft
  /\ pc' = [pc EXCEPT ![c] = "begun"]
  /\ tracer' = [tracer EXCEPT ![c] = GetTracer]
  /\ UNCHANGED <<sdk, span, tracked, node, stack, exported, lost>>

OpenGraphRoot(c) ==
  /\ c \in GraphCalls
  /\ pc[c] = "begun"
  /\ pc' = [pc EXCEPT ![c] = "running"]
  /\ span' = [span EXCEPT ![c][Root] = StartSpan(GetTracer, NoTrace, Root)]
  /\ UNCHANGED <<sdk, tracer, tracked, node, stack, exported, lost>>

\* Faulty variant of NodeTracer: the tracer is looked up when it is needed.
LatestTracer(c) == GetTracer

NodeTracer(c) == tracer[c]

\* on_chain_start of a primary event; others return at once.  Nodes run in
\* threads with the context of the call, and node spans are not made current.
StartNode(c, n) ==
  /\ c \in GraphCalls
  /\ pc[c] = "running"
  /\ node[c][n] = "waiting"
  /\ node' = [node EXCEPT ![c][n] = "running"]
  /\ span' = [span EXCEPT ![c][n] = StartSpan(NodeTracer(c), Context(c), n)]
  /\ tracked' = [tracked EXCEPT ![c] = @ \cup {n}]
  /\ UNCHANGED <<sdk, pc, tracer, stack, exported, lost>>

\* Before it starts the span of a run_tool node the handler reads the node's
\* input, which need not be a mapping, and before it keeps the span it captures
\* the tool's arguments.  Either may raise, and the node runs nevertheless.
StartNodeRaises(c, n) ==
  /\ c \in GraphCalls
  /\ n \in Tools
  /\ pc[c] = "running"
  /\ node[c][n] = "waiting"
  /\ node' = [node EXCEPT ![c][n] = "running"]
  /\ \/ UNCHANGED <<span, lost>>
     \/ /\ span' = [span EXCEPT ![c][n] = StartSpan(NodeTracer(c), Context(c), n)]
        /\ LoseSpan(c, n)
  /\ UNCHANGED <<sdk, pc, tracer, tracked, stack, exported>>

\* The span of a node run is taken from the handler if it still has it, and
\* ended once its output or the error is captured, which may raise.
PopSpan(c, n) ==
  /\ tracked' = [tracked EXCEPT ![c] = @ \ {n}]
  /\ \/ n \notin tracked[c] /\ UNCHANGED <<span, exported, lost>>
     \/ n \in tracked[c] /\ EndSpan(c, n)
     \/ n \in tracked[c] /\ LoseSpan(c, n) /\ UNCHANGED <<span, exported>>

\* on_chain_end, also after on_chain_error.
EndNode(c, n) ==
  /\ node[c][n] \in {"running", "failed"}
  /\ node' = [node EXCEPT ![c][n] = "ended"]
  /\ PopSpan(c, n)
  /\ UNCHANGED <<sdk, pc, tracer, stack>>

\* Faulty variant of FailNode: the span is ended and left to on_chain_end.
FailNodeKeeps(c, n) ==
  /\ node[c][n] = "running"
  /\ node' = [node EXCEPT ![c][n] = "failed"]
  /\ EndSpan(c, n)
  /\ UNCHANGED <<sdk, pc, tracer, tracked, stack>>

\* Faulty variant of FailNode: the span is popped and not ended, and nothing is
\* raised.
FailNodeForgets(c, n) ==
  /\ node[c][n] = "running"
  /\ node' = [node EXCEPT ![c][n] = "failed"]
  /\ tracked' = [tracked EXCEPT ![c] = @ \ {n}]
  /\ UNCHANGED <<sdk, pc, tracer, span, stack, exported, lost>>

\* on_chain_error.
FailNode(c, n) ==
  /\ node[c][n] = "running"
  /\ node' = [node EXCEPT ![c][n] = "failed"]
  /\ PopSpan(c, n)
  /\ UNCHANGED <<sdk, pc, tracer, stack>>

\* invoke returns when no node runs.  It may although a node run failed: the
\* graph can be told to run the node again.
ReturnGraph(c) ==
  /\ c \in GraphCalls
  /\ pc[c] = "running"
  /\ \A n \in Inner : node[c][n] # "running"
  /\ pc' = [pc EXCEPT ![c] = "returned"]
  /\ EndSpan(c, Root)
  /\ UNCHANGED <<sdk, tracer, tracked, node, stack>>

\* It raises when a node has failed; nodes in other threads may still run.
RaiseGraph(c) ==
  /\ c \in GraphCalls
  /\ pc[c] = "running"
  /\ \E n \in Inner : node[c][n] = "failed"
  /\ pc' = [pc EXCEPT ![c] = "raised"]
  /\ EndSpan(c, Root)
  /\ UNCHANGED <<sdk, tracer, tracked, node, stack>>

-----------------------------------------------------------------------------
(* Invocations of a decorated function.                                    *)

OpenRawRoot(c) ==
  /\ c \in RawCalls
  /\ pc[c] = "idle" /\ CallsLeft
  /\ pc' = [pc EXCEPT ![c] = "running"]
  /\ tracer' = [tracer EXCEPT ![c] = GetTracer]
  /\ span' = [span EXCEPT ![c][Root] = StartSpan(GetTracer, NoTrace, Root)]
  /\ UNCHANGED <<sdk, tracked, node, stack, exported, lost>>

\* plan_span, execute_tool_span, retrieval_span, memory_span: each asks for the
\* tracer again.
EnterBlock(c, n) ==
  /\ c \in RawCalls
  /\ pc[c] = "running"
  /\ ~span[c][n].started
  /\ span' = [span EXCEPT ![c][n] = StartSpan(GetTracer, Context(c), n)]
  /\ stack' = [stack EXCEPT ![c] = Append(@, n)]
  /\ UNCHANGED <<sdk, pc, tracer, tracked, node, exported, lost>>

\* A redaction raises in execute_tool_span or memory_span: the span was started
\* and the block is not entered.  The exception is the function's to handle.
EnterBlockRaises(c, n) ==
  /\ c \in RawCalls
  /\ n \in Tools
  /\ pc[c] = "running"
  /\ ~span[c][n].started
  /\ span' = [span EXCEPT ![c][n] = StartSpan(GetTracer, Context(c), n)]
  /\ LoseSpan(c, n)
  /\ UNCHANGED <<sdk, pc, tracer, tracked, node, stack, exported>>

\* Faulty variant of LeaveBlock: an exception in the block passes end() over.
LeaveBlockOpen(c) ==
  /\ stack[c] # <<>>
  /\ \/ EndSpan(c, Last(stack[c]))
     \/ UNCHANGED <<span, exported, lost>>
  /\ stack' = [stack EXCEPT ![c] = Front(@)]
  /\ UNCHANGED <<sdk, pc, tracer, tracked, node>>

\* A block is left, by its end or by an exception.
LeaveBlock(c) ==
  /\ stack[c] # <<>>
  /\ EndSpan(c, Last(stack[c]))
  /\ stack' = [stack EXCEPT ![c] = Front(@)]
  /\ UNCHANGED <<sdk, pc, tracer, tracked, node>>

\* The function returns or raises, outside of every block.
LeaveFunction(c) ==
  /\ c \in RawCalls
  /\ pc[c] = "running"
  /\ stack[c] = <<>>
  /\ pc' = [pc EXCEPT ![c] = "returned"]
  /\ EndSpan(c, Root)
  /\ UNCHANGED <<sdk, tracer, tracked, node, stack>>

-----------------------------------------------------------------------------

Next ==
  \/ BuildExporter
  \/ \E p \in coming : ConfigureOtlp(p)
  \/ Configure
  \/ Reset
  \/ \E c \in Calls :
       \/ MakeHandler(c) \/ OpenGraphRoot(c) \/ ReturnGraph(c) \/ RaiseGraph(c)
       \/ OpenRawRoot(c) \/ LeaveBlock(c) \/ LeaveFunction(c)
       \/ \E n \in Inner : \/ StartNode(c, n) \/ StartNodeRaises(c, n)
                           \/ EndNode(c, n) \/ FailNode(c, n)
                           \/ EnterBlock(c, n) \/ EnterBlockRaises(c, n)

\* A node run ends, with a result or an error, and so do blocks and calls.
\* Nothing is assumed of an end event after an error.
Fairness == \A c \in Calls :
  /\ \A n \in Inner : WF_vars(node[c][n] = "running" /\ (EndNode(c, n) \/ FailNode(c, n)))
  /\ WF_vars(ReturnGraph(c) \/ RaiseGraph(c))
  /\ WF_vars(LeaveBlock(c))
  /\ WF_vars(LeaveFunction(c))

Spec == Init /\ [][Next]_vars /\ Fairness

-----------------------------------------------------------------------------
(* Properties.                                                             *)

\* Whatever threads configure and reset, a processor that is running is the one
\* of the provider that tracers are taken from (tracer.py:277-279), or one that a
\* configure_otlp_tracing has built beside it: still on its way to the lock, or
\* turned away there (tracer.py:210-214).  So every provider but one is down, and
\* the threads that do linger are those of the calls that found a provider.
OneProviderUp ==
  \A p \in 1 .. processors :
    p \notin down => p = provider \/ p \in coming \cup refused

\* No run id is ended twice (langgraph.py:109-110), even if an error and an end
\* arrive for it, in any order with the end of the call.
EndedOnce == \A c \in Calls, s \in Spans : span[c][s].ends <= 1

\* An exported node span is part of its own run's trace: whenever tracing is
\* configured or reset, nodes never show up as runs of their own
\* (instrument.py:6).
NodesBelongToTheirRun ==
  \A c \in GraphCalls, n \in Inner : <<c, n>> \in exported => span[c][n].trace = Root

\* The provider is not swapped under a running call (tracer.py:97-99): if the
\* first tracer of a call leads to a provider that is still up, all of its spans
\* belong to that provider, in one trace, and those that ended are exported.
RunsAreWhole ==
  \A c \in Calls : Up(tracer[c]) =>
    \A s \in Spans : span[c][s].started =>
      /\ span[c][s].by = tracer[c]
      /\ span[c][s].trace = Root
      /\ <<c, s>> \in exported \/ Open(c, s)

\* A span is open for no longer than what it stands for: a node run until its
\* end or error event, a block and a root until the call is over.  The exceptions
\* are the spans of node runs and blocks on which capturing content has raised
\* (langgraph.py:209, 250, 278-281; spans.py:239, 244, 337).
OnlyTheLostStayOpen ==
  \A c \in Calls, s \in Spans :
    Open(c, s) /\ <<c, s>> \notin lost =>
      pc[c] = "running" \/ (c \in GraphCalls /\ s \in Inner /\ node[c][s] = "running")

\* Every span that is started is ended, the root in any case and the others
\* unless they were lost in that way.
EverySpanEnds ==
  \A c \in Calls : (\E s \in Spans : Open(c, s) /\ <<c, s>> \notin lost)
                   ~> (\A s \in Spans : Open(c, s) => <<c, s>> \in lost)
=============================================================================
