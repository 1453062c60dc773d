---------------------------- MODULE TracingProofs ----------------------------
(***************************************************************************)
(* Proofs about Tracing: for any calls, any number of inner spans, any     *)
(* number of configurations and resets, and either behaviour of no-op      *)
(* spans, one provider is up, the runs are whole, and of what is over only *)
(* the spans stay open that were lost.                                     *)
(***************************************************************************)
EXTENDS Tracing, TLAPS

\* Where a call is decides what it has started; graphs have no blocks and
\* functions no nodes.
CallInv(c) ==
  /\ pc[c] \in {"idle", "begun"} => \A s \in Spans : ~span[c][s].started
  /\ pc[c] = "running" => Open(c, Root)
  /\ c \in GraphCalls => stack[c] = <<>>
  /\ c \in RawCalls => tracked[c] = {}

\* A node run that has not begun has no span; the others have the handler's
\* tracer.
NodeInv(c, n) ==
  c \in GraphCalls =>
    /\ node[c][n] = "waiting" => ~span[c][n].started
    /\ span[c][n].started => span[c][n].by = tracer[c]

\* A block is entered once.
StackInv(c) ==
  \A i, j \in DOMAIN stack[c] : stack[c][i] = stack[c][j] => i = j

\* Tracers are taken from providers, and so is the current one.
ProviderInv ==
  /\ provider \notin coming \cup refused
  /\ coming \cap refused = {}
  /\ \A c \in Calls : tracer[c] \notin coming \cup refused

ExportedInv == \A c \in Calls, s \in Spans : <<c, s>> \in exported => span[c][s].started

ShapeInv ==
  /\ \A c \in Calls : CallInv(c) /\ StackInv(c)
  /\ \A c \in Calls, n \in Inner : NodeInv(c, n)
  /\ ExportedInv

IInv ==
  /\ TypeOK
  /\ ShapeInv
  /\ ProviderInv
  /\ OneProviderUp
  /\ EndedOnce
  /\ RunsAreWhole
  /\ NodesBelongToTheirRun

-----------------------------------------------------------------------------
(* Facts about the parts of actions.                                       *)

\* A span that was never there has the type of one.
LEMMA StartType ==
  ASSUME NEW by \in Nat, NEW context \in Spans \cup {NoTrace}, NEW s \in Spans
  PROVE  StartSpan(by, context, s) \in Span
BY DEF StartSpan, Span

\* What is new about a span that was just started.
LEMMA StartEffect ==
  ASSUME NEW by, NEW context, NEW s
  PROVE  LET x == StartSpan(by, context, s)
         IN /\ x.started /\ x.ends = 0 /\ x.by = by
            /\ by # 0 => x.trace = IF context = NoTrace THEN s ELSE context
BY DEF StartSpan

\* Ending a span leaves everything else about spans as it is.
LEMMA EndEffect ==
  ASSUME TypeOK, NEW c \in Calls, NEW s \in Spans, EndSpan(c, s)
  PROVE  /\ span' \in [Calls -> [Spans -> Span]]
         /\ \A d \in Calls, t \in Spans :
              /\ span'[d][t].started = span[d][t].started
              /\ span'[d][t].by = span[d][t].by
              /\ span'[d][t].trace = span[d][t].trace
              /\ span'[d][t].ends = IF d = c /\ t = s THEN span[d][t].ends + 1
                                                      ELSE span[d][t].ends
         /\ exported' \subseteq exported \cup {<<c, s>>}
         /\ exported \subseteq exported'
         /\ Up(span[c][s].by) => <<c, s>> \in exported'
         /\ <<c, s>> \in exported' => <<c, s>> \in exported \/ Up(span[c][s].by)
<1> DEFINE x == [span[c][s] EXCEPT !.ends = @ + 1]
<1>1. span \in [Calls -> [Spans -> Span]]
  BY DEF TypeOK
<1>2. /\ x \in Span
      /\ x.started = span[c][s].started /\ x.by = span[c][s].by
      /\ x.trace = span[c][s].trace /\ x.ends = span[c][s].ends + 1
  BY <1>1 DEF Span
<1>3. span' = [span EXCEPT ![c] = [span[c] EXCEPT ![s] = x]]
  BY <1>1 DEF EndSpan
<1> HIDE DEF x
<1>4. span' \in [Calls -> [Spans -> Span]]
  BY <1>1, <1>2, <1>3
<1>5. ASSUME NEW d \in Calls, NEW t \in Spans
      PROVE  span'[d][t] = IF d = c /\ t = s THEN x ELSE span[d][t]
  BY <1>1, <1>3
<1>6. exported' = IF Up(span[c][s].by) THEN exported \cup {<<c, s>>} ELSE exported
  BY DEF EndSpan
<1> QED
  BY <1>2, <1>4, <1>5, <1>6

\* A provider that is up is the current one.
LEMMA UpIsCurrent ==
  ASSUME TypeOK, OneProviderUp, NEW p \in 0 .. processors, Up(p), p \notin coming \cup refused
  PROVE  p = provider
BY DEF TypeOK, OneProviderUp, Up

-----------------------------------------------------------------------------
(* The properties when a span ends or a provider comes or goes.            *)

\* A span that is open is ended once, and exported if its provider is up.
LEMMA EndKeeps ==
  ASSUME IInv, NEW c \in Calls, NEW s \in Spans, Open(c, s), EndSpan(c, s),
         UNCHANGED <<sdk, tracer>>
  PROVE  /\ OneProviderUp' /\ ProviderInv' /\ EndedOnce' /\ ExportedInv'
         /\ RunsAreWhole' /\ NodesBelongToTheirRun'
<1> USE DEF IInv, sdk
<1>0. /\ \A d \in Calls, t \in Spans :
           /\ span'[d][t].started = span[d][t].started
           /\ span'[d][t].by = span[d][t].by
           /\ span'[d][t].trace = span[d][t].trace
           /\ span'[d][t].ends = IF d = c /\ t = s THEN span[d][t].ends + 1
                                                   ELSE span[d][t].ends
      /\ exported' \subseteq exported \cup {<<c, s>>}
      /\ exported \subseteq exported'
      /\ Up(span[c][s].by) => <<c, s>> \in exported'
      /\ <<c, s>> \in exported' => <<c, s>> \in exported \/ Up(span[c][s].by)
  BY EndEffect
<1>1. OneProviderUp' /\ ProviderInv'
  BY DEF OneProviderUp, ProviderInv
<1>2. EndedOnce'
  BY <1>0 DEF EndedOnce, Open
<1>3. ExportedInv'
  BY <1>0 DEF ExportedInv, ShapeInv, Open
<1>4. RunsAreWhole'
  <2> SUFFICES ASSUME NEW d \in Calls, Up(tracer[d])', NEW t \in Spans, span'[d][t].started
               PROVE  /\ span'[d][t].by = tracer[d]
                      /\ span'[d][t].trace = Root
                      /\ <<d, t>> \in exported' \/ Open(d, t)'
    BY DEF RunsAreWhole
  <2>1. Up(tracer[d]) /\ span[d][t].started
    BY <1>0 DEF Up
  <2>2. /\ span[d][t].by = tracer[d]
        /\ span[d][t].trace = Root
        /\ <<d, t>> \in exported \/ Open(d, t)
    BY <2>1 DEF RunsAreWhole
  <2>3. <<d, t>> \in exported' \/ Open(d, t)'
    BY <2>1, <2>2, <1>0 DEF Open
  <2> QED
    BY <2>2, <2>3, <1>0
<1>5. NodesBelongToTheirRun'
  <2> SUFFICES ASSUME NEW d \in GraphCalls, NEW n \in Inner, <<d, n>> \in exported'
               PROVE  span'[d][n].trace = Root
    BY DEF NodesBelongToTheirRun
  <2>1. d \in Calls /\ n \in Spans
    BY DEF Calls, Spans
  <2>2. CASE <<d, n>> \in exported
    BY <2>1, <2>2, <1>0 DEF NodesBelongToTheirRun
  <2>3. CASE <<d, n>> \notin exported
    <3>1. d = c /\ n = s /\ Up(span[d][n].by)
      BY <2>3, <1>0
    <3>2. span[d][n].by = tracer[d]
      BY <2>1, <3>1 DEF ShapeInv, NodeInv, Open
    <3> QED
      BY <2>1, <3>1, <3>2, <1>0 DEF RunsAreWhole, Open
  <2> QED
    BY <2>2, <2>3
<1> QED
  BY <1>1, <1>2, <1>3, <1>4, <1>5

\* The calls do not move when tracing is configured.
LEMMA SdkKeeps ==
  ASSUME IInv, UNCHANGED calls, UNCHANGED down,
         provider' # provider => provider = 0 /\ provider' # 0
  PROVE  ShapeInv' /\ EndedOnce' /\ NodesBelongToTheirRun' /\ RunsAreWhole'
<1> USE DEF IInv, calls
<1>1. ShapeInv'
  BY DEF ShapeInv, CallInv, NodeInv, StackInv, ExportedInv, Open
<1>2. EndedOnce' /\ NodesBelongToTheirRun'
  BY DEF EndedOnce, NodesBelongToTheirRun
<1>3. RunsAreWhole'
  BY DEF RunsAreWhole, Up, Open
<1> QED
  BY <1>1, <1>2, <1>3

LEMMA ConfigureKeeps == IInv /\ Configure => IInv'
<1> SUFFICES ASSUME IInv, Configure PROVE IInv'
  OBVIOUS
<1>1. ShapeInv' /\ EndedOnce' /\ NodesBelongToTheirRun' /\ RunsAreWhole'
  BY SdkKeeps DEF Configure
<1> USE DEF IInv, Configure, calls
<1>2. TypeOK'
  BY BoundAssumption DEF TypeOK, Open
<1>3. OneProviderUp'
  BY DEF OneProviderUp, TypeOK
<1>4. ProviderInv'
  BY DEF ProviderInv, TypeOK
<1> QED
  BY <1>1, <1>2, <1>3, <1>4

LEMMA BuildExporterKeeps == IInv /\ BuildExporter => IInv'
<1> SUFFICES ASSUME IInv, BuildExporter PROVE IInv'
  OBVIOUS
<1>1. ShapeInv' /\ EndedOnce' /\ NodesBelongToTheirRun' /\ RunsAreWhole'
  BY SdkKeeps DEF BuildExporter
<1> USE DEF IInv, BuildExporter, calls
<1>2. TypeOK'
  BY BoundAssumption DEF TypeOK, Open
<1>3. OneProviderUp'
  BY DEF OneProviderUp, TypeOK
<1>4. ProviderInv'
  BY DEF ProviderInv, TypeOK
<1> QED
  BY <1>1, <1>2, <1>3, <1>4

\* The processor becomes the provider's, or is turned away.
LEMMA ConfigureOtlpKeeps == \A p \in coming : IInv /\ ConfigureOtlp(p) => IInv'
<1> SUFFICES ASSUME NEW p \in coming, IInv, ConfigureOtlp(p) PROVE IInv'
  OBVIOUS
<1>0. p # 0
  BY DEF IInv, TypeOK
<1>1. ShapeInv' /\ EndedOnce' /\ NodesBelongToTheirRun' /\ RunsAreWhole'
  BY <1>0, SdkKeeps DEF ConfigureOtlp
<1> USE DEF IInv, ConfigureOtlp, calls
<1>a. /\ provider' \in {provider, p}
      /\ coming' = coming \ {p} /\ refused' \subseteq refused \cup {p}
      /\ provider' = p => refused' = refused \/ provider = p
  OBVIOUS
<1>2. TypeOK'
  <2>1. /\ provider' \in 0 .. processors
        /\ coming' \subseteq 1 .. processors /\ refused' \subseteq 1 .. processors
    BY <1>a DEF TypeOK
  <2>2. \A c \in Calls : \A n \in tracked'[c] \cup ToSet(stack'[c]) : Open(c, n)'
    BY DEF TypeOK, Open
  <2> QED
    BY <2>1, <2>2 DEF TypeOK
<1>3. OneProviderUp'
  <2>1. CASE provider = 0
    BY <2>1 DEF OneProviderUp, TypeOK
  <2>2. CASE provider # 0
    BY <2>2 DEF OneProviderUp, TypeOK
  <2> QED
    BY <2>1, <2>2
<1>4. ProviderInv'
  <2>1. CASE provider = 0
    BY <2>1 DEF ProviderInv
  <2>2. CASE provider # 0
    BY <2>2 DEF ProviderInv
  <2> QED
    BY <2>1, <2>2
<1> QED
  BY <1>1, <1>2, <1>3, <1>4

LEMMA ResetKeeps == IInv /\ Reset => IInv'
<1> SUFFICES ASSUME IInv, Reset PROVE IInv'
  OBVIOUS
<1> USE DEF IInv, Reset, calls
<1>1. TypeOK'
  BY DEF TypeOK, Open
<1>2. ShapeInv'
  BY DEF ShapeInv, CallInv, NodeInv, StackInv, ExportedInv, Open
<1>3. OneProviderUp' /\ ProviderInv'
  BY DEF OneProviderUp, ProviderInv, TypeOK
<1>4. EndedOnce' /\ NodesBelongToTheirRun'
  BY DEF EndedOnce, NodesBelongToTheirRun
<1>5. RunsAreWhole'
  BY DEF RunsAreWhole, Up, Open
<1> QED
  BY <1>1, <1>2, <1>3, <1>4, <1>5

-----------------------------------------------------------------------------
(* Spans that are started.                                                 *)

\* A span is started by the provider of its call's tracer, if that is up, and
\* in the context of the root, unless it is the root.
LEMMA StartKeeps ==
  ASSUME IInv, NEW c \in Calls, NEW s \in Spans, ~span[c][s].started,
         NEW by \in Nat, NEW context \in Spans \cup {NoTrace},
         span' = [span EXCEPT ![c][s] = StartSpan(by, context, s)],
         \A d \in Calls : \/ tracer'[d] = tracer[d]
                          \/ /\ d = c /\ tracer'[d] = provider
                             /\ \A t \in Spans : ~span[c][t].started,
         Up(tracer'[c]) => /\ by = tracer'[c]
                           /\ context = IF s = Root THEN NoTrace ELSE Root,
         UNCHANGED <<sdk, exported>>
  PROVE  /\ span' \in [Calls -> [Spans -> Span]]
         /\ \A d \in Calls, t \in Spans :
              IF d = c /\ t = s
              THEN span'[d][t].started /\ span'[d][t].ends = 0 /\ span'[d][t].by = by
              ELSE span'[d][t] = span[d][t]
         /\ OneProviderUp' /\ ProviderInv' /\ EndedOnce' /\ ExportedInv'
         /\ RunsAreWhole' /\ NodesBelongToTheirRun'
<1> USE DEF IInv, sdk
<1> DEFINE x == StartSpan(by, context, s)
<1>1. x \in Span
  BY StartType
<1>2. /\ x.started /\ x.ends = 0 /\ x.by = by
      /\ by # 0 => x.trace = IF context = NoTrace THEN s ELSE context
  BY StartEffect
<1> HIDE DEF x
<1>3. /\ span' \in [Calls -> [Spans -> Span]]
      /\ \A d \in Calls, t \in Spans :
           span'[d][t] = IF d = c /\ t = s THEN x ELSE span[d][t]
  <2>1. span' = [span EXCEPT ![c][s] = x]
    BY DEF x
  <2>2. span \in [Calls -> [Spans -> Span]]
    BY DEF TypeOK
  <2> HIDE DEF IInv
  <2>3. span' = [span EXCEPT ![c] = [span[c] EXCEPT ![s] = x]]
    BY <2>1, <2>2
  <2> QED
    BY <1>1, <2>2, <2>3
<1>4. <<c, s>> \notin exported
  BY DEF ShapeInv, ExportedInv
<1>5. OneProviderUp' /\ ProviderInv'
  BY DEF OneProviderUp, ProviderInv, TypeOK
<1>6. EndedOnce'
  BY <1>2, <1>3 DEF EndedOnce
<1>7. ExportedInv'
  BY <1>2, <1>3 DEF ShapeInv, ExportedInv
<1>8. NodesBelongToTheirRun'
  BY <1>3, <1>4 DEF NodesBelongToTheirRun, Calls, Spans
<1>9. RunsAreWhole'
  <2> SUFFICES ASSUME NEW d \in Calls, Up(tracer[d])', NEW t \in Spans, span'[d][t].started
               PROVE  /\ span'[d][t].by = tracer'[d]
                      /\ span'[d][t].trace = Root
                      /\ <<d, t>> \in exported' \/ Open(d, t)'
    BY DEF RunsAreWhole
  <2>0. Up(tracer'[d])
    BY DEF Up
  <2>1. CASE d = c /\ t = s
    <3>1. x.by = tracer'[d] /\ by # 0
      BY <2>0, <2>1, <1>2 DEF Up
    <3>2. x.trace = Root
      BY <2>0, <2>1, <3>1, <1>2, CallsAssumption
    <3> QED
      BY <2>1, <3>1, <3>2, <1>2, <1>3 DEF Open
  <2>2. CASE ~(d = c /\ t = s)
    <3>1. span'[d][t] = span[d][t]
      BY <2>2, <1>3
    <3>2. tracer'[d] = tracer[d]
      BY <3>1
    <3> QED
      BY <2>0, <3>1, <3>2 DEF RunsAreWhole, Open
  <2> QED
    BY <2>1, <2>2
<1> QED
  BY <1>2, <1>3, <1>5, <1>6, <1>7, <1>8, <1>9

\* The context of a running call, if its provider is up, is in the root's trace.
LEMMA RunningContext ==
  ASSUME IInv, NEW c \in Calls, pc[c] = "running"
  PROVE  /\ Context(c) \in Spans \cup {NoTrace}
         /\ Up(tracer[c]) => Context(c) = Root
<1> DEFINE t == IF stack[c] = <<>> THEN Root ELSE Last(stack[c])
<1>1. t \in Spans /\ span[c][t].started
  <2>1. CASE stack[c] = <<>>
    BY <2>1 DEF IInv, ShapeInv, CallInv, Open, Spans
  <2>2. CASE stack[c] # <<>>
    <3>1. stack[c] \in Seq(Inner) /\ \A n \in ToSet(stack[c]) : Open(c, n)
      BY DEF IInv, TypeOK
    <3>2. Len(stack[c]) \in DOMAIN stack[c] /\ t = stack[c][Len(stack[c])]
      BY <2>2, <3>1 DEF Last
    <3> QED
      BY <3>1, <3>2 DEF ToSet, Open, Spans
  <2> QED
    BY <2>1, <2>2
<1>2. span[c][t] \in Span
  BY <1>1 DEF IInv, TypeOK
<1>3. Context(c) = span[c][t].trace
  BY DEF Context
<1> HIDE DEF t
<1> QED
  BY <1>1, <1>2, <1>3 DEF IInv, RunsAreWhole, Span

LEMMA MakeHandlerKeeps == \A c \in Calls : IInv /\ MakeHandler(c) => IInv'
<1> SUFFICES ASSUME NEW c \in Calls, IInv, MakeHandler(c) PROVE IInv'
  OBVIOUS
<1> USE DEF IInv, MakeHandler, GetTracer, sdk
<1>1. \A s \in Spans : ~span[c][s].started
  BY DEF ShapeInv, CallInv
<1>2. /\ \A d \in Calls : tracer'[d] = IF d = c THEN provider ELSE tracer[d]
      /\ \A d \in Calls : pc'[d] = IF d = c THEN "begun" ELSE pc[d]
  BY DEF TypeOK
<1>3. TypeOK'
  BY DEF TypeOK, Open
<1>4. ShapeInv'
  BY <1>1, <1>2 DEF ShapeInv, CallInv, NodeInv, StackInv, ExportedInv, Open, Spans
<1>5. OneProviderUp' /\ ProviderInv' /\ EndedOnce' /\ NodesBelongToTheirRun'
  BY <1>2 DEF OneProviderUp, ProviderInv, EndedOnce, NodesBelongToTheirRun
<1>6. RunsAreWhole'
  BY <1>1, <1>2 DEF RunsAreWhole, Up, Open
<1> QED
  BY <1>3, <1>4, <1>5, <1>6

LEMMA OpenRootKeeps ==
  \A c \in Calls : IInv /\ (OpenGraphRoot(c) \/ OpenRawRoot(c)) => IInv'
<1> SUFFICES ASSUME NEW c \in Calls, IInv, OpenGraphRoot(c) \/ OpenRawRoot(c) PROVE IInv'
  OBVIOUS
<1> USE DEF IInv
<1>1. /\ pc[c] \in {"idle", "begun"}
      /\ pc' = [pc EXCEPT ![c] = "running"]
      /\ span' = [span EXCEPT ![c][Root] = StartSpan(provider, NoTrace, Root)]
      /\ UNCHANGED <<sdk, tracked, node, stack, exported, lost>>
      /\ \/ c \in GraphCalls /\ tracer' = tracer
         \/ c \in RawCalls /\ tracer' = [tracer EXCEPT ![c] = provider]
  BY DEF OpenGraphRoot, OpenRawRoot, GetTracer
<1>2. /\ \A s \in Spans : ~span[c][s].started
      /\ Root \in Spans /\ provider \in Nat
      /\ \A d \in Calls : tracer'[d] = tracer[d] \/ (d = c /\ tracer'[d] = provider)
  BY <1>1 DEF ShapeInv, CallInv, Spans, TypeOK
<1>3. tracer' \in [Calls -> 0 .. processors]
  BY <1>1 DEF TypeOK
<1>4. Up(tracer'[c]) => provider = tracer'[c]
  BY <1>1, <1>3, UpIsCurrent DEF TypeOK, ProviderInv
<1>5. /\ span' \in [Calls -> [Spans -> Span]]
      /\ \A d \in Calls, t \in Spans :
           IF d = c /\ t = Root
           THEN span'[d][t].started /\ span'[d][t].ends = 0 /\ span'[d][t].by = provider
           ELSE span'[d][t] = span[d][t]
      /\ OneProviderUp' /\ ProviderInv' /\ EndedOnce' /\ ExportedInv'
      /\ RunsAreWhole' /\ NodesBelongToTheirRun'
  BY <1>1, <1>2, <1>4, StartKeeps
<1>6. Root \notin Inner /\ Inner \subseteq Spans
  BY CallsAssumption DEF Spans
<1>7. \A d \in Calls, n \in Inner : span'[d][n] = span[d][n]
  BY <1>5, <1>6
<1>8. TypeOK'
  <2>1. \A d \in Calls : \A n \in tracked[d] \cup ToSet(stack[d]) : Open(d, n)' <=> Open(d, n)
    <3> SUFFICES ASSUME NEW d \in Calls, NEW n \in tracked[d] \cup ToSet(stack[d])
                 PROVE  Open(d, n)' <=> Open(d, n)
      OBVIOUS
    <3>1. n \in Inner
      BY DEF TypeOK, ToSet
    <3> QED
      BY <3>1, <1>7 DEF Open
  <2> QED
    BY <1>1, <1>3, <1>5, <2>1 DEF TypeOK, sdk
<1>9. ShapeInv'
  <2>1. \A d \in Calls : pc'[d] = IF d = c THEN "running" ELSE pc[d]
    BY <1>1 DEF TypeOK
  <2>2. \A d \in Calls : CallInv(d)'
    BY <1>1, <1>2, <1>5, <2>1 DEF ShapeInv, CallInv, Open
  <2>3. \A d \in Calls : StackInv(d)'
    BY <1>1 DEF ShapeInv, StackInv
  <2>4. \A d \in Calls, n \in Inner : NodeInv(d, n)'
    BY <1>1, <1>2, <1>6, <1>7 DEF ShapeInv, NodeInv
  <2> QED
    BY <1>5, <2>2, <2>3, <2>4 DEF ShapeInv
<1> QED
  BY <1>5, <1>8, <1>9

\* A node's or a block's span is started, by the provider of the call's tracer if
\* that is up.
LEMMA InnerStart ==
  ASSUME IInv, NEW c \in Calls, NEW n \in Inner, pc[c] = "running", ~span[c][n].started,
         NEW by \in Nat, Up(tracer[c]) => by = tracer[c],
         span' = [span EXCEPT ![c][n] = StartSpan(by, Context(c), n)],
         UNCHANGED <<sdk, tracer, exported>>
  PROVE  /\ span' \in [Calls -> [Spans -> Span]]
         /\ \A d \in Calls, t \in Spans :
              IF d = c /\ t = n
              THEN span'[d][t].started /\ span'[d][t].ends = 0 /\ span'[d][t].by = by
              ELSE span'[d][t] = span[d][t]
         /\ OneProviderUp' /\ ProviderInv' /\ EndedOnce' /\ ExportedInv'
         /\ RunsAreWhole' /\ NodesBelongToTheirRun'
<1>1. n \in Spans /\ n # Root
  BY CallsAssumption DEF Spans
<1>2. Context(c) \in Spans \cup {NoTrace} /\ (Up(tracer[c]) => Context(c) = Root)
  BY RunningContext
<1>3. Up(tracer'[c]) => /\ by = tracer'[c]
                        /\ Context(c) = IF n = Root THEN NoTrace ELSE Root
  BY <1>1, <1>2
<1> QED
  BY <1>1, <1>2, <1>3, StartKeeps

\* The handler keeps the span of a node, or raises before or after starting it.
LEMMA StartNodeKeeps ==
  \A c \in Calls, n \in Inner :
    IInv /\ (StartNode(c, n) \/ StartNodeRaises(c, n)) => IInv'
<1> SUFFICES ASSUME NEW c \in Calls, NEW n \in Inner, IInv,
                    StartNode(c, n) \/ StartNodeRaises(c, n)
             PROVE  IInv'
  OBVIOUS
<1> USE DEF IInv
<1>1. /\ pc[c] = "running" /\ node[c][n] = "waiting"
      /\ node' = [node EXCEPT ![c][n] = "running"]
      /\ lost' = lost \/ lost' = lost \cup {<<c, n>>}
      /\ tracked' = tracked \/ tracked' = [tracked EXCEPT ![c] = @ \cup {n}]
      /\ UNCHANGED <<sdk, pc, tracer, stack, exported>>
      /\ c \in GraphCalls /\ c \notin RawCalls
  BY CallsAssumption DEF StartNode, StartNodeRaises, LoseSpan
<1>2. /\ \A d \in Calls : tracked'[d] \subseteq IF d = c THEN tracked[c] \cup {n} ELSE tracked[d]
      /\ tracked' \in [Calls -> SUBSET Inner]
      /\ \A d \in Calls, m \in Inner :
           node'[d][m] = IF d = c /\ m = n THEN "running" ELSE node[d][m]
      /\ node' \in [Calls -> [Inner -> {"waiting", "running", "failed", "ended"}]]
      /\ lost' \subseteq Calls \X Inner
  <2>1. lost' \subseteq Calls \X Inner
    BY <1>1 DEF TypeOK
  <2>2. /\ \A d \in Calls : tracked'[d] \subseteq IF d = c THEN tracked[c] \cup {n} ELSE tracked[d]
        /\ tracked' \in [Calls -> SUBSET Inner]
    <3>0. tracked \in [Calls -> SUBSET Inner]
      BY DEF TypeOK
    <3>1. CASE tracked' = tracked
      BY <3>0, <3>1
    <3>2. CASE tracked' = [tracked EXCEPT ![c] = @ \cup {n}]
      BY <3>0, <3>2
    <3> QED
      BY <1>1, <3>1, <3>2
  <2>3. /\ \A d \in Calls, m \in Inner :
             node'[d][m] = IF d = c /\ m = n THEN "running" ELSE node[d][m]
        /\ node' \in [Calls -> [Inner -> {"waiting", "running", "failed", "ended"}]]
    BY <1>1 DEF TypeOK
  <2> QED
    BY <2>1, <2>2, <2>3
<1>3. CASE span' = span
  <2>1. tracked' = tracked
    <3>1. CASE StartNode(c, n)
      <4>1. span[c][n] # StartSpan(NodeTracer(c), Context(c), n)
        BY <1>1, StartEffect DEF ShapeInv, NodeInv
      <4>2. n \in Spans /\ span \in [Calls -> [Spans -> Span]]
        BY DEF TypeOK, Spans
      <4>3. span'[c][n] = StartSpan(NodeTracer(c), Context(c), n)
        BY <3>1, <4>2 DEF StartNode
      <4> QED
        BY <1>3, <4>1, <4>3
    <3> QED
      BY <3>1 DEF StartNode, StartNodeRaises
  <2>2. TypeOK'
    BY <1>1, <1>2, <1>3, <2>1 DEF TypeOK, sdk, Open
  <2>3. ShapeInv'
    BY <1>1, <1>2, <1>3, <2>1 DEF ShapeInv, CallInv, NodeInv, StackInv, ExportedInv, Open
  <2>4. OneProviderUp' /\ ProviderInv' /\ EndedOnce' /\ NodesBelongToTheirRun' /\ RunsAreWhole'
    BY <1>1, <1>3 DEF OneProviderUp, ProviderInv, EndedOnce, NodesBelongToTheirRun,
                      RunsAreWhole, Up, Open, sdk
  <2> QED
    BY <2>2, <2>3, <2>4
<1>4. CASE span' = [span EXCEPT ![c][n] = StartSpan(tracer[c], Context(c), n)]
  <2>1. ~span[c][n].started /\ n \in Spans /\ n # Root /\ tracer[c] \in Nat
    BY <1>1, CallsAssumption DEF Spans, ShapeInv, NodeInv, TypeOK
  <2>2. /\ span' \in [Calls -> [Spans -> Span]]
        /\ \A d \in Calls, t \in Spans :
             IF d = c /\ t = n
             THEN span'[d][t].started /\ span'[d][t].ends = 0 /\ span'[d][t].by = tracer[c]
             ELSE span'[d][t] = span[d][t]
        /\ OneProviderUp' /\ ProviderInv' /\ EndedOnce' /\ ExportedInv'
        /\ RunsAreWhole' /\ NodesBelongToTheirRun'
    BY <1>1, <1>4, <2>1, InnerStart
  <2>3. TypeOK'
    <3>1. \A d \in Calls : \A m \in tracked'[d] \cup ToSet(stack'[d]) : Open(d, m)'
      <4> SUFFICES ASSUME NEW d \in Calls, NEW m \in tracked'[d] \cup ToSet(stack[d])
                   PROVE  Open(d, m)'
        BY <1>1
      <4>1. m \in Inner
        BY <1>2 DEF TypeOK, ToSet
      <4>2. (d = c /\ m = n) \/ Open(d, m)
        BY <1>2 DEF TypeOK
      <4> QED
        BY <4>1, <4>2, <2>2 DEF Open, Spans
    <3> QED
      BY <1>1, <1>2, <2>2, <3>1 DEF TypeOK, sdk
  <2>4. ShapeInv'
    <3>1. ASSUME NEW d \in Calls PROVE CallInv(d)'
      <4>1. CallInv(d)
        BY DEF ShapeInv
      <4>2. pc'[d] \in {"idle", "begun"} => \A s \in Spans : ~span'[d][s].started
        BY <1>1, <2>2, <4>1 DEF CallInv
      <4>3. Root \in Spans /\ span'[d][Root] = span[d][Root]
        BY <2>1, <2>2 DEF Spans
      <4>4. d \in RawCalls => tracked'[d] = {}
        BY <1>1, <1>2, <4>1 DEF CallInv
      <4> QED
        BY <1>1, <4>1, <4>2, <4>3, <4>4 DEF CallInv, Open
    <3>2. \A d \in Calls : StackInv(d)'
      BY <1>1 DEF ShapeInv, StackInv
    <3>3. \A d \in Calls, m \in Inner : NodeInv(d, m)'
      BY <1>1, <1>2, <2>2 DEF ShapeInv, NodeInv, Spans
    <3> QED
      BY <2>2, <3>1, <3>2, <3>3 DEF ShapeInv
  <2> QED
    BY <2>2, <2>3, <2>4
<1> QED
  BY <1>3, <1>4 DEF StartNode, StartNodeRaises, NodeTracer

\* A block is entered, or its helper raises once its span is started.
LEMMA EnterBlockKeeps ==
  \A c \in Calls, n \in Inner :
    IInv /\ (EnterBlock(c, n) \/ EnterBlockRaises(c, n)) => IInv'
<1> SUFFICES ASSUME NEW c \in Calls, NEW n \in Inner, IInv,
                    EnterBlock(c, n) \/ EnterBlockRaises(c, n)
             PROVE  IInv'
  OBVIOUS
<1> USE DEF IInv
<1>1. /\ pc[c] = "running" /\ ~span[c][n].started
      /\ span' = [span EXCEPT ![c][n] = StartSpan(provider, Context(c), n)]
      /\ lost' = lost \/ lost' = lost \cup {<<c, n>>}
      /\ stack' = stack \/ stack' = [stack EXCEPT ![c] = Append(@, n)]
      /\ UNCHANGED <<sdk, pc, tracer, tracked, node, exported>>
      /\ c \in RawCalls /\ c \notin GraphCalls
  BY CallsAssumption DEF EnterBlock, EnterBlockRaises, LoseSpan, GetTracer
<1>2. n \in Spans /\ n # Root /\ provider \in Nat /\ lost' \subseteq Calls \X Inner
  BY <1>1, CallsAssumption DEF Spans, TypeOK
<1>3. Up(tracer[c]) => provider = tracer[c]
  BY UpIsCurrent DEF TypeOK, ProviderInv
<1>4. /\ span' \in [Calls -> [Spans -> Span]]
      /\ \A d \in Calls, t \in Spans :
           IF d = c /\ t = n
           THEN span'[d][t].started /\ span'[d][t].ends = 0 /\ span'[d][t].by = provider
           ELSE span'[d][t] = span[d][t]
      /\ OneProviderUp' /\ ProviderInv' /\ EndedOnce' /\ ExportedInv'
      /\ RunsAreWhole' /\ NodesBelongToTheirRun'
  BY <1>1, <1>2, <1>3, InnerStart
<1>5. /\ stack' \in [Calls -> Seq(Inner)]
      /\ \A d \in Calls : \/ stack'[d] = stack[d]
                          \/ d = c /\ stack'[d] = Append(stack[d], n)
  <2>1. CASE stack' = stack
    BY <2>1 DEF TypeOK
  <2>2. CASE stack' = [stack EXCEPT ![c] = Append(@, n)]
    BY <2>2 DEF TypeOK
  <2> QED
    BY <1>1, <2>1, <2>2
<1>6. /\ stack[c] \in Seq(Inner)
      /\ \A i \in DOMAIN stack[c] : stack[c][i] # n
  BY <1>1 DEF TypeOK, ToSet, Open
<1>7. TypeOK'
  <2>1. \A d \in Calls : \A m \in tracked'[d] \cup ToSet(stack'[d]) : Open(d, m)'
    <3> SUFFICES ASSUME NEW d \in Calls, NEW m \in tracked[d] \cup ToSet(stack'[d])
                 PROVE  Open(d, m)'
      BY <1>1
    <3>1. m \in Inner
      BY <1>5 DEF TypeOK, ToSet
    <3>2. (d = c /\ m = n) \/ m \in tracked[d] \cup ToSet(stack[d])
      BY <1>5, <1>6 DEF ToSet
    <3>3. (d = c /\ m = n) \/ Open(d, m)
      BY <3>2 DEF TypeOK
    <3> QED
      BY <3>1, <3>3, <1>4 DEF Open, Spans
  <2> QED
    BY <1>1, <1>2, <1>4, <1>5, <2>1 DEF TypeOK, sdk
<1>8. ShapeInv'
  <2>1. \A d \in Calls : CallInv(d)'
    BY <1>1, <1>2, <1>4, <1>5 DEF ShapeInv, CallInv, Open, Spans
  <2>2. ASSUME NEW d \in Calls PROVE StackInv(d)'
    <3>1. CASE stack'[d] = stack[d]
      BY <3>1 DEF ShapeInv, StackInv
    <3>2. CASE d = c /\ stack'[d] = Append(stack[d], n)
      BY <3>2, <1>6 DEF ShapeInv, StackInv
    <3> QED
      BY <1>5, <3>1, <3>2
  <2>3. \A d \in Calls, m \in Inner : NodeInv(d, m)'
    BY <1>1, <1>4 DEF ShapeInv, NodeInv, Spans
  <2> QED
    BY <1>4, <2>1, <2>2, <2>3 DEF ShapeInv
<1> QED
  BY <1>4, <1>7, <1>8

-----------------------------------------------------------------------------
(* Spans that are ended.                                                   *)

\* What the steps below need of EndEffect.
LEMMA EndedSpan ==
  ASSUME TypeOK, NEW c \in Calls, NEW s \in Spans, EndSpan(c, s)
  PROVE  /\ span' \in [Calls -> [Spans -> Span]]
         /\ \A d \in Calls, t \in Spans :
              /\ span'[d][t].started = span[d][t].started
              /\ span'[d][t].by = span[d][t].by
              /\ span'[d][t].ends = IF d = c /\ t = s THEN span[d][t].ends + 1
                                                      ELSE span[d][t].ends
         /\ exported' \subseteq Calls \X Spans
<1>1. /\ span' \in [Calls -> [Spans -> Span]]
      /\ \A d \in Calls, t \in Spans :
           /\ span'[d][t].started = span[d][t].started
           /\ span'[d][t].by = span[d][t].by
           /\ span'[d][t].trace = span[d][t].trace
           /\ span'[d][t].ends = IF d = c /\ t = s THEN span[d][t].ends + 1
                                                   ELSE span[d][t].ends
      /\ exported' \subseteq exported \cup {<<c, s>>}
  BY EndEffect
<1>2. exported \subseteq Calls \X Spans
  BY DEF TypeOK
<1>3. exported' \subseteq Calls \X Spans
  BY <1>1, <1>2
<1> QED
  BY <1>1, <1>3

\* Either event of a node run ends its span, or finds it gone.
LEMMA PopSpanKeeps ==
  \A c \in Calls, n \in Inner : IInv /\ (EndNode(c, n) \/ FailNode(c, n)) => IInv'
<1> SUFFICES ASSUME NEW c \in Calls, NEW n \in Inner, IInv, EndNode(c, n) \/ FailNode(c, n)
             PROVE  IInv'
  OBVIOUS
<1> USE DEF IInv
<1>1. /\ n \in Spans /\ n # Root
      /\ PopSpan(c, n)
      /\ UNCHANGED <<sdk, pc, tracer, stack>>
      /\ node[c][n] # "waiting"
      /\ \E e \in {"failed", "ended"} : node' = [node EXCEPT ![c][n] = e]
  BY CallsAssumption DEF EndNode, FailNode, Spans
<1>2. /\ tracked' \in [Calls -> SUBSET Inner]
      /\ \A d \in Calls : tracked'[d] = IF d = c THEN tracked[c] \ {n} ELSE tracked[d]
  BY <1>1 DEF PopSpan, TypeOK
<1>3. /\ node' \in [Calls -> [Inner -> {"waiting", "running", "failed", "ended"}]]
      /\ \A d \in Calls, m \in Inner :
           (d = c /\ m = n) \/ node'[d][m] = node[d][m]
      /\ node'[c][n] # "waiting"
  BY <1>1 DEF TypeOK
<1>4. CASE span' = span /\ exported' = exported
  <2>1. span' = span /\ exported' = exported /\ lost' \subseteq Calls \X Inner
    BY <1>1, <1>4 DEF PopSpan, LoseSpan, EndSpan, TypeOK
  <2>2. TypeOK'
    <3>1. ASSUME NEW d \in Calls, NEW m \in tracked'[d] \cup ToSet(stack'[d])
          PROVE  Open(d, m)'
      <4>1. m \in tracked[d] \cup ToSet(stack[d])
        BY <1>1, <1>2
      <4>2. Open(d, m)
        BY <4>1 DEF TypeOK
      <4> QED
        BY <2>1, <4>2 DEF Open
    <3> QED
      BY <1>1, <1>2, <1>3, <2>1, <3>1 DEF TypeOK, sdk
  <2>3. ShapeInv'
    BY <1>1, <1>2, <1>3, <2>1 DEF ShapeInv, CallInv, NodeInv, StackInv, ExportedInv, Open
  <2>4. /\ OneProviderUp' /\ ProviderInv' /\ EndedOnce'
        /\ NodesBelongToTheirRun' /\ RunsAreWhole'
    BY <1>1, <2>1 DEF OneProviderUp, ProviderInv, EndedOnce, NodesBelongToTheirRun,
                      RunsAreWhole, Up, Open, sdk
  <2> QED
    BY <2>2, <2>3, <2>4
<1>5. CASE n \in tracked[c] /\ EndSpan(c, n)
  <2>1. EndSpan(c, n) /\ Open(c, n) /\ c \notin RawCalls /\ lost' = lost
    BY <1>5 DEF EndSpan, TypeOK, ShapeInv, CallInv
  <2>2. c \in GraphCalls /\ stack[c] = <<>>
    BY <2>1 DEF Calls, ShapeInv, CallInv
  <2>3. /\ OneProviderUp' /\ ProviderInv' /\ EndedOnce' /\ ExportedInv'
        /\ RunsAreWhole' /\ NodesBelongToTheirRun'
    BY <1>1, <2>1, EndKeeps
  <2>4. /\ span' \in [Calls -> [Spans -> Span]]
        /\ \A d \in Calls, t \in Spans :
             /\ span'[d][t].started = span[d][t].started
             /\ span'[d][t].by = span[d][t].by
             /\ span'[d][t].ends = IF d = c /\ t = n THEN span[d][t].ends + 1
                                                     ELSE span[d][t].ends
        /\ exported' \subseteq Calls \X Spans
    BY <1>1, <2>1, EndedSpan
  <2>5. TypeOK'
    <3>1. \A d \in Calls : \A m \in tracked'[d] \cup ToSet(stack'[d]) : Open(d, m)'
      <4> SUFFICES ASSUME NEW d \in Calls, NEW m \in tracked'[d] \cup ToSet(stack[d])
                   PROVE  Open(d, m)'
        BY <1>1
      <4>1. m \in Inner /\ Open(d, m) /\ ~(d = c /\ m = n)
        BY <1>2, <2>2 DEF TypeOK, ToSet
      <4> QED
        BY <4>1, <2>4 DEF Open, Spans
    <3> QED
      BY <1>1, <1>2, <1>3, <2>1, <2>4, <3>1 DEF TypeOK, sdk
  <2>6. ShapeInv'
    <3>1. ASSUME NEW d \in Calls PROVE CallInv(d)'
      <4>1. CallInv(d)
        BY DEF ShapeInv
      <4>2. Root \in Spans /\ span'[d][Root].ends = span[d][Root].ends
        BY <1>1, <2>4 DEF Spans
      <4>3. d \in RawCalls => tracked'[d] = {}
        BY <1>2, <2>1, <4>1 DEF CallInv
      <4> QED
        BY <1>1, <2>4, <4>1, <4>2, <4>3 DEF CallInv, Open
    <3>2. \A d \in Calls : StackInv(d)'
      BY <1>1 DEF ShapeInv, StackInv
    <3>3. ASSUME NEW d \in Calls, NEW m \in Inner PROVE NodeInv(d, m)'
      <4>1. NodeInv(d, m) /\ m \in Spans
        BY DEF ShapeInv, Spans
      <4>2. node'[d][m] = "waiting" => node[d][m] = "waiting"
        BY <1>3
      <4> QED
        BY <1>1, <2>4, <4>1, <4>2 DEF NodeInv
    <3> QED
      BY <2>3, <3>1, <3>2, <3>3 DEF ShapeInv
  <2> QED
    BY <2>3, <2>5, <2>6
<1> QED
  BY <1>1, <1>4, <1>5 DEF PopSpan

\* The innermost block is left; the others stay open.
LEMMA LeaveBlockKeeps == \A c \in Calls : IInv /\ LeaveBlock(c) => IInv'
<1> SUFFICES ASSUME NEW c \in Calls, IInv, LeaveBlock(c) PROVE IInv'
  OBVIOUS
<1> USE DEF IInv, LeaveBlock
<1> DEFINE n == Last(stack[c])
<1>1. /\ stack[c] \in Seq(Inner)
      /\ Len(stack[c]) \in DOMAIN stack[c] /\ n = stack[c][Len(stack[c])]
  BY DEF TypeOK, Last
<1>2. n \in Inner /\ n \in Spans /\ n # Root /\ Open(c, n) /\ c \notin GraphCalls
  BY <1>1, CallsAssumption DEF TypeOK, ToSet, Spans, ShapeInv, CallInv
<1>3. EndSpan(c, n) /\ lost' = lost
  BY DEF EndSpan
<1> HIDE DEF n
<1>4. /\ stack' \in [Calls -> Seq(Inner)]
      /\ \A d \in Calls : d # c => stack'[d] = stack[d]
      /\ Len(stack'[c]) = Len(stack[c]) - 1
      /\ \A i \in DOMAIN stack'[c] :
           i \in DOMAIN stack[c] /\ stack'[c][i] = stack[c][i] /\ i # Len(stack[c])
  <2>1. Front(stack[c]) \in Seq(Inner)
    BY <1>1 DEF Front
  <2>2. /\ Len(Front(stack[c])) = Len(stack[c]) - 1
        /\ \A i \in DOMAIN Front(stack[c]) :
             /\ i \in DOMAIN stack[c] /\ i # Len(stack[c])
             /\ Front(stack[c])[i] = stack[c][i]
    BY <1>1 DEF Front
  <2> QED
    BY <2>1, <2>2 DEF TypeOK
<1>5. \A i \in DOMAIN stack'[c] : stack'[c][i] # n
  BY <1>1, <1>4 DEF ShapeInv, StackInv
<1>6. /\ OneProviderUp' /\ ProviderInv' /\ EndedOnce' /\ ExportedInv'
      /\ RunsAreWhole' /\ NodesBelongToTheirRun'
  BY <1>2, <1>3, EndKeeps
<1>7. /\ span' \in [Calls -> [Spans -> Span]]
      /\ \A d \in Calls, t \in Spans :
           /\ span'[d][t].started = span[d][t].started
           /\ span'[d][t].by = span[d][t].by
           /\ span'[d][t].ends = IF d = c /\ t = n THEN span[d][t].ends + 1
                                                   ELSE span[d][t].ends
      /\ exported' \subseteq Calls \X Spans
  BY <1>2, <1>3, EndedSpan
<1>8. TypeOK'
  <2>1. \A d \in Calls : \A m \in tracked'[d] \cup ToSet(stack'[d]) : Open(d, m)'
    <3> SUFFICES ASSUME NEW d \in Calls, NEW m \in tracked[d] \cup ToSet(stack'[d])
                 PROVE  Open(d, m)'
      OBVIOUS
    <3>0. tracked[c] = {}
      BY <1>2 DEF Calls, ShapeInv, CallInv
    <3>1. m \in tracked[d] \cup ToSet(stack[d]) /\ ~(d = c /\ m = n)
      BY <3>0, <1>4, <1>5 DEF ToSet
    <3>2. m \in Inner /\ Open(d, m)
      BY <3>1 DEF TypeOK, ToSet
    <3> QED
      BY <3>1, <3>2, <1>7 DEF Open, Spans
  <2> QED
    BY <1>2, <1>3, <1>4, <1>7, <2>1 DEF TypeOK, sdk
<1>9. ShapeInv'
  <2>1. ASSUME NEW d \in Calls PROVE CallInv(d)'
    <3>1. CallInv(d)
      BY DEF ShapeInv
    <3>2. Root \in Spans /\ span'[d][Root].ends = span[d][Root].ends
      BY <1>2, <1>7 DEF Spans
    <3>3. d \in GraphCalls => stack'[d] = <<>>
      BY <1>2, <1>4, <3>1 DEF CallInv
    <3> QED
      BY <1>7, <3>1, <3>2, <3>3 DEF CallInv, Open
  <2>2. \A d \in Calls : StackInv(d)'
    BY <1>4 DEF ShapeInv, StackInv
  <2>3. \A d \in Calls, m \in Inner : NodeInv(d, m)'
    BY <1>7 DEF ShapeInv, NodeInv, Spans
  <2> QED
    BY <1>6, <2>1, <2>2, <2>3 DEF ShapeInv
<1> QED
  BY <1>6, <1>8, <1>9

\* A call ends its root, whatever of it is still running.
LEMMA EndCallKeeps ==
  \A c \in Calls : IInv /\ (ReturnGraph(c) \/ RaiseGraph(c) \/ LeaveFunction(c)) => IInv'
<1> SUFFICES ASSUME NEW c \in Calls, IInv,
                    ReturnGraph(c) \/ RaiseGraph(c) \/ LeaveFunction(c)
             PROVE  IInv'
  OBVIOUS
<1> USE DEF IInv
<1>1. /\ pc[c] = "running"
      /\ \E p \in {"returned", "raised"} : pc' = [pc EXCEPT ![c] = p]
      /\ EndSpan(c, Root)
      /\ UNCHANGED <<sdk, tracer, tracked, node, stack, lost>>
  BY DEF EndSpan, ReturnGraph, RaiseGraph, LeaveFunction
<1>2. Root \in Spans /\ Root \notin Inner /\ Inner \subseteq Spans /\ Open(c, Root)
  BY <1>1, CallsAssumption DEF Spans, ShapeInv, CallInv
<1>3. /\ OneProviderUp' /\ ProviderInv' /\ EndedOnce' /\ ExportedInv'
      /\ RunsAreWhole' /\ NodesBelongToTheirRun'
  BY <1>1, <1>2, EndKeeps
<1>4. /\ span' \in [Calls -> [Spans -> Span]]
      /\ \A d \in Calls, t \in Spans :
           /\ span'[d][t].started = span[d][t].started
           /\ span'[d][t].by = span[d][t].by
           /\ span'[d][t].ends = IF d = c /\ t = Root THEN span[d][t].ends + 1
                                                      ELSE span[d][t].ends
      /\ exported' \subseteq Calls \X Spans
  BY <1>1, <1>2, EndedSpan
<1>5. /\ pc' \in [Calls -> {"idle", "begun", "running", "returned", "raised"}]
      /\ \A d \in Calls : d # c => pc'[d] = pc[d]
      /\ pc'[c] \in {"returned", "raised"}
  BY <1>1 DEF TypeOK
<1>6. TypeOK'
  <2>1. \A d \in Calls : \A m \in tracked'[d] \cup ToSet(stack'[d]) : Open(d, m)'
    <3> SUFFICES ASSUME NEW d \in Calls, NEW m \in tracked[d] \cup ToSet(stack[d])
                 PROVE  Open(d, m)'
      BY <1>1
    <3>1. m \in Inner /\ Open(d, m)
      BY DEF TypeOK, ToSet
    <3> QED
      BY <3>1, <1>2, <1>4 DEF Open
  <2> QED
    BY <1>1, <1>2, <1>4, <1>5, <2>1 DEF TypeOK, sdk
<1>7. ShapeInv'
  <2>1. ASSUME NEW d \in Calls PROVE CallInv(d)'
    <3>1. CallInv(d)
      BY DEF ShapeInv
    <3>2. pc'[d] = "running" => Open(d, Root)'
      BY <1>2, <1>4, <1>5, <3>1 DEF CallInv, Open
    <3>3. pc'[d] \in {"idle", "begun"} => pc[d] \in {"idle", "begun"}
      BY <1>5
    <3> QED
      BY <1>1, <1>4, <3>1, <3>2, <3>3 DEF CallInv
  <2>2. \A d \in Calls : StackInv(d)'
    BY <1>1 DEF ShapeInv, StackInv
  <2>3. \A d \in Calls, m \in Inner : NodeInv(d, m)'
    BY <1>1, <1>2, <1>4 DEF ShapeInv, NodeInv
  <2> QED
    BY <1>3, <2>1, <2>2, <2>3 DEF ShapeInv
<1> QED
  BY <1>3, <1>6, <1>7

-----------------------------------------------------------------------------
(* The invariant, and the theorems.                                        *)

LEMMA InitIInv == Init => IInv
<1> SUFFICES ASSUME Init PROVE IInv
  OBVIOUS
<1> USE DEF Init
<1>1. NotStarted \in Span /\ ~NotStarted.started /\ NotStarted.ends = 0
  BY DEF NotStarted, Span
<1>2. \A c \in Calls, s \in Spans : span[c][s] = NotStarted
  OBVIOUS
<1>3. TypeOK
  BY <1>1, BoundAssumption DEF TypeOK, ToSet
<1>4. ShapeInv
  BY <1>1, <1>2, CallsAssumption
  DEF ShapeInv, CallInv, NodeInv, StackInv, ExportedInv, Calls, Spans
<1>5. OneProviderUp /\ ProviderInv /\ EndedOnce /\ RunsAreWhole /\ NodesBelongToTheirRun
  BY <1>1, <1>2 DEF OneProviderUp, ProviderInv, EndedOnce, RunsAreWhole, NodesBelongToTheirRun
<1> QED
  BY <1>3, <1>4, <1>5 DEF IInv

LEMMA NextIInv == IInv /\ [Next]_vars => IInv'
<1> SUFFICES ASSUME IInv, [Next]_vars PROVE IInv'
  OBVIOUS
<1>1. CASE Configure
  BY <1>1, ConfigureKeeps
<1>2. CASE Reset
  BY <1>2, ResetKeeps
<1>3. ASSUME NEW c \in Calls, MakeHandler(c) PROVE IInv'
  BY <1>3, MakeHandlerKeeps
<1>4. ASSUME NEW c \in Calls, OpenGraphRoot(c) \/ OpenRawRoot(c) PROVE IInv'
  BY <1>4, OpenRootKeeps
<1>5. ASSUME NEW c \in Calls, ReturnGraph(c) \/ RaiseGraph(c) \/ LeaveFunction(c) PROVE IInv'
  BY <1>5, EndCallKeeps
<1>6. ASSUME NEW c \in Calls, LeaveBlock(c) PROVE IInv'
  BY <1>6, LeaveBlockKeeps
<1>7. ASSUME NEW c \in Calls, NEW n \in Inner, StartNode(c, n) \/ StartNodeRaises(c, n)
      PROVE  IInv'
  BY <1>7, StartNodeKeeps
<1>8. ASSUME NEW c \in Calls, NEW n \in Inner, EndNode(c, n) \/ FailNode(c, n) PROVE IInv'
  BY <1>8, PopSpanKeeps
<1>9. ASSUME NEW c \in Calls, NEW n \in Inner, EnterBlock(c, n) \/ EnterBlockRaises(c, n)
      PROVE  IInv'
  BY <1>9, EnterBlockKeeps
<1>10. CASE BuildExporter
  BY <1>10, BuildExporterKeeps
<1>11. ASSUME NEW p \in coming, ConfigureOtlp(p) PROVE IInv'
  BY <1>11, ConfigureOtlpKeeps
<1>12. CASE UNCHANGED vars
  <2> USE <1>12 DEF vars, IInv
  <2>1. TypeOK'
    BY DEF TypeOK, Open
  <2>2. ShapeInv'
    BY DEF ShapeInv, CallInv, NodeInv, StackInv, ExportedInv, Open
  <2>3. /\ OneProviderUp' /\ ProviderInv' /\ EndedOnce'
        /\ RunsAreWhole' /\ NodesBelongToTheirRun'
    BY DEF OneProviderUp, ProviderInv, EndedOnce, RunsAreWhole, NodesBelongToTheirRun, Open, Up
  <2> QED
    BY <2>1, <2>2, <2>3
<1> QED
  BY <1>1, <1>2, <1>3, <1>4, <1>5, <1>6, <1>7, <1>8, <1>9, <1>10, <1>11, <1>12 DEF Next

-----------------------------------------------------------------------------
(* Spans that are open.                                                    *)

\* An open span is still with the handler, on the stack or the root of a call
\* that goes on, unless it was lost.
HeldInv ==
  /\ \A c \in Calls : Open(c, Root) => pc[c] = "running"
  /\ \A c \in RawCalls : stack[c] # <<>> => pc[c] = "running"
  /\ \A c \in Calls, n \in Inner : n \in tracked[c] => node[c][n] = "running"
  /\ \A c \in Calls, n \in Inner :
       Open(c, n) /\ <<c, n>> \notin lost => n \in tracked[c] \cup ToSet(stack[c])

LEMMA InitHeld == Init => HeldInv
BY DEF Init, HeldInv, Open, NotStarted, Spans, Calls

\* A span that is started is the root of a call that begins, is held, or lost.
LEMMA StartHeld ==
  ASSUME IInv, HeldInv, NEW c \in Calls, NEW s \in Spans, NEW x,
         span' = [span EXCEPT ![c][s] = x],
         \A d \in Calls : pc'[d] = pc[d] \/ pc'[d] = "running",
         s = Root => pc'[c] = "running",
         \A d \in RawCalls : stack'[d] = stack[d] \/ pc'[d] = "running",
         \A d \in Calls, n \in Inner :
           /\ node[d][n] = "running" => node'[d][n] = "running"
           /\ n \in tracked'[d] => n \in tracked[d] \/ node'[d][n] = "running"
           /\ n \in tracked[d] \cup ToSet(stack[d]) => n \in tracked'[d] \cup ToSet(stack'[d]),
         lost \subseteq lost',
         s \in Inner => s \in tracked'[c] \cup ToSet(stack'[c]) \/ <<c, s>> \in lost'
  PROVE  HeldInv'
<1>1. \A d \in Calls, t \in Spans : (d = c /\ t = s) \/ span'[d][t] = span[d][t]
  BY DEF IInv, TypeOK
<1>2. Root \in Spans /\ Root \notin Inner /\ Inner \subseteq Spans /\ RawCalls \subseteq Calls
  BY CallsAssumption DEF Spans, Calls
<1>3. \A d \in Calls : Open(d, Root)' => pc'[d] = "running"
  BY <1>1, <1>2 DEF HeldInv, Open
<1>4. \A d \in RawCalls : stack'[d] # <<>> => pc'[d] = "running"
  BY <1>2 DEF HeldInv
<1>5. \A d \in Calls, n \in Inner : n \in tracked'[d] => node'[d][n] = "running"
  BY DEF HeldInv
<1>6. ASSUME NEW d \in Calls, NEW n \in Inner, Open(d, n)', <<d, n>> \notin lost'
      PROVE  n \in tracked'[d] \cup ToSet(stack'[d])
  <2>1. CASE d = c /\ n = s
    BY <1>6, <2>1
  <2>2. CASE ~(d = c /\ n = s)
    <3>1. Open(d, n) /\ <<d, n>> \notin lost
      BY <1>1, <1>2, <1>6, <2>2 DEF Open
    <3>2. n \in tracked[d] \cup ToSet(stack[d])
      BY <3>1 DEF HeldInv
    <3> QED
      BY <3>2
  <2> QED
    BY <2>1, <2>2
<1> QED
  BY <1>3, <1>4, <1>5, <1>6 DEF HeldInv

\* What ends a span, or loses it, no longer holds it.
LEMMA EndHeld ==
  ASSUME IInv, HeldInv, NEW c \in Calls, NEW s \in Spans,
         EndSpan(c, s) \/ (s \in Inner /\ LoseSpan(c, s) /\ span' = span)
                       \/ (s \in Inner /\ ~Open(c, s) /\ UNCHANGED <<span, lost>>),
         \A d \in Calls : pc'[d] = pc[d] \/ (d = c /\ s = Root),
         \A d \in RawCalls : stack'[d] # <<>> => stack[d] # <<>> /\ pc'[d] = pc[d],
         \A d \in Calls, n \in Inner :
           /\ n \in tracked'[d] => n \in tracked[d] /\ node'[d][n] = node[d][n]
           /\ n \in tracked[d] \cup ToSet(stack[d]) =>
                (d = c /\ n = s) \/ n \in tracked'[d] \cup ToSet(stack'[d])
  PROVE  HeldInv'
<1>1. /\ \A d \in Calls, t \in Spans : Open(d, t)' => Open(d, t)
      /\ s \in Inner \/ ~Open(c, s)'
      /\ ~Open(c, s)' \/ <<c, s>> \in lost'
      /\ lost \subseteq lost'
  <2>1. CASE EndSpan(c, s)
    <3>1. \A d \in Calls, t \in Spans :
            /\ span'[d][t].started = span[d][t].started
            /\ span'[d][t].ends = IF d = c /\ t = s THEN span[d][t].ends + 1
                                                    ELSE span[d][t].ends
      BY <2>1, EndedSpan DEF IInv
    <3>2. span[c][s].ends \in Nat
      BY DEF IInv, TypeOK, Span
    <3> QED
      BY <2>1, <3>1, <3>2 DEF EndSpan, Open
  <2>2. CASE s \in Inner /\ LoseSpan(c, s) /\ span' = span
    BY <2>2, CallsAssumption DEF LoseSpan, Open
  <2>3. CASE s \in Inner /\ ~Open(c, s) /\ UNCHANGED <<span, lost>>
    BY <2>3, CallsAssumption DEF Open
  <2> QED
    BY <2>1, <2>2, <2>3
<1>2. Root \in Spans /\ Root \notin Inner /\ Inner \subseteq Spans /\ RawCalls \subseteq Calls
  BY CallsAssumption DEF Spans, Calls
<1>3. \A d \in Calls : Open(d, Root)' => pc'[d] = "running"
  <2> SUFFICES ASSUME NEW d \in Calls, Open(d, Root)' PROVE pc'[d] = "running"
    OBVIOUS
  <2>1. Open(d, Root) /\ pc[d] = "running"
    BY <1>1, <1>2 DEF HeldInv
  <2>2. ~(d = c /\ s = Root)
    BY <1>1, <1>2
  <2> QED
    BY <2>1, <2>2
<1>4. \A d \in RawCalls : stack'[d] # <<>> => pc'[d] = "running"
  BY <1>2 DEF HeldInv
<1>5. \A d \in Calls, n \in Inner : n \in tracked'[d] => node'[d][n] = "running"
  BY DEF HeldInv
<1>6. ASSUME NEW d \in Calls, NEW n \in Inner, Open(d, n)', <<d, n>> \notin lost'
      PROVE  n \in tracked'[d] \cup ToSet(stack'[d])
  <2>1. Open(d, n) /\ <<d, n>> \notin lost /\ ~(d = c /\ n = s)
    BY <1>1, <1>2, <1>6
  <2>2. n \in tracked[d] \cup ToSet(stack[d])
    BY <2>1 DEF HeldInv
  <2> QED
    BY <2>1, <2>2
<1> QED
  BY <1>3, <1>4, <1>5, <1>6 DEF HeldInv

LEMMA NextHeld == IInv /\ HeldInv /\ [Next]_vars => HeldInv'
<1> SUFFICES ASSUME IInv, HeldInv, [Next]_vars PROVE HeldInv'
  OBVIOUS
<1>0. CASE UNCHANGED calls
  BY <1>0 DEF calls, HeldInv, Open
<1>1. CASE Configure \/ Reset \/ BuildExporter \/ UNCHANGED vars
  BY <1>0, <1>1 DEF Configure, Reset, BuildExporter, vars, calls
<1>2. ASSUME NEW p \in coming, ConfigureOtlp(p) PROVE HeldInv'
  BY <1>0, <1>2 DEF ConfigureOtlp
<1>3. ASSUME NEW c \in Calls, MakeHandler(c) PROVE HeldInv'
  <2>1. \A d \in Calls : pc'[d] = pc[d] \/ (d = c /\ pc[d] = "idle")
    BY <1>3 DEF MakeHandler, IInv, TypeOK
  <2>2. RawCalls \subseteq Calls /\ pc[c] = "idle"
    BY <1>3 DEF Calls, MakeHandler
  <2> QED
    BY <1>3, <2>1, <2>2 DEF MakeHandler, HeldInv, Open
<1>4. ASSUME NEW c \in Calls, OpenGraphRoot(c) \/ OpenRawRoot(c) PROVE HeldInv'
  <2>1. /\ span' = [span EXCEPT ![c][Root] = StartSpan(GetTracer, NoTrace, Root)]
        /\ UNCHANGED <<tracked, node, stack, lost>>
        /\ \A d \in Calls : pc'[d] = IF d = c THEN "running" ELSE pc[d]
        /\ Root \in Spans /\ Root \notin Inner
    BY <1>4, CallsAssumption DEF OpenGraphRoot, OpenRawRoot, IInv, TypeOK, Spans
  <2> QED
    BY <2>1, StartHeld
<1>5. ASSUME NEW c \in Calls, NEW n \in Inner, StartNode(c, n) \/ StartNodeRaises(c, n)
      PROVE  HeldInv'
  <2>1. /\ n \in Spans /\ n # Root /\ UNCHANGED <<pc, stack>>
        /\ \A d \in Calls, m \in Inner :
             node'[d][m] = IF d = c /\ m = n THEN "running" ELSE node[d][m]
    BY <1>5, CallsAssumption DEF StartNode, StartNodeRaises, IInv, TypeOK, Spans
  <2>2. CASE StartNode(c, n)
    <3>1. \A d \in Calls : tracked'[d] = IF d = c THEN tracked[c] \cup {n} ELSE tracked[d]
      BY <2>2 DEF StartNode, IInv, TypeOK
    <3>2. lost' = lost /\ span' = [span EXCEPT ![c][n] = StartSpan(NodeTracer(c), Context(c), n)]
      BY <2>2 DEF StartNode
    <3>3. /\ \A d \in Calls, m \in Inner :
               /\ node[d][m] = "running" => node'[d][m] = "running"
               /\ m \in tracked'[d] => m \in tracked[d] \/ node'[d][m] = "running"
               /\ m \in tracked[d] \cup ToSet(stack[d]) =>
                    m \in tracked'[d] \cup ToSet(stack'[d])
          /\ n \in tracked'[c] \cup ToSet(stack'[c])
      BY <2>1, <3>1
    <3> QED
      BY <2>1, <3>2, <3>3, StartHeld
  <2>3. CASE StartNodeRaises(c, n) /\ LoseSpan(c, n)
    <3>1. /\ tracked' = tracked /\ lost' = lost \cup {<<c, n>>}
          /\ span' = [span EXCEPT ![c][n] = StartSpan(NodeTracer(c), Context(c), n)]
             \/ UNCHANGED <<span, lost>>
      BY <2>3 DEF StartNodeRaises, LoseSpan
    <3>2. CASE span' = [span EXCEPT ![c][n] = StartSpan(NodeTracer(c), Context(c), n)]
      BY <2>1, <3>1, <3>2, StartHeld
    <3>3. CASE UNCHANGED <<span, lost>>
      BY <2>1, <3>1, <3>3 DEF HeldInv, Open
    <3> QED
      BY <3>1, <3>2, <3>3
  <2>4. CASE StartNodeRaises(c, n) /\ UNCHANGED <<span, lost>>
    <3>1. tracked' = tracked
      BY <2>4 DEF StartNodeRaises
    <3> QED
      BY <2>1, <2>4, <3>1 DEF HeldInv, Open
  <2> QED
    BY <1>5, <2>2, <2>3, <2>4 DEF StartNodeRaises
<1>6. ASSUME NEW c \in Calls, NEW n \in Inner, EnterBlock(c, n) \/ EnterBlockRaises(c, n)
      PROVE  HeldInv'
  <2>1. /\ n \in Spans /\ n # Root /\ UNCHANGED <<pc, tracked, node>> /\ pc[c] = "running"
        /\ span' = [span EXCEPT ![c][n] = StartSpan(GetTracer, Context(c), n)]
    BY <1>6, CallsAssumption DEF EnterBlock, EnterBlockRaises, Spans
  <2>2. CASE EnterBlock(c, n)
    <3>1. /\ lost' = lost /\ stack \in [Calls -> Seq(Inner)]
          /\ stack' = [stack EXCEPT ![c] = Append(@, n)]
      BY <2>2 DEF EnterBlock, IInv, TypeOK
    <3>2. stack'[c] = Append(stack[c], n) /\ \A d \in Calls : d = c \/ stack'[d] = stack[d]
      BY <3>1
    <3>3. n \in ToSet(stack'[c]) /\ ToSet(stack[c]) \subseteq ToSet(stack'[c])
      <4>1. stack[c] \in Seq(Inner)
        BY <3>1
      <4>2. /\ Len(stack'[c]) = Len(stack[c]) + 1 /\ stack'[c][Len(stack[c]) + 1] = n
            /\ \A i \in DOMAIN stack[c] : i \in DOMAIN stack'[c] /\ stack'[c][i] = stack[c][i]
            /\ Len(stack[c]) + 1 \in DOMAIN stack'[c]
        BY <3>2, <4>1
      <4> QED
        BY <4>2 DEF ToSet
    <3>4. RawCalls \subseteq Calls
      BY DEF Calls
    <3>5. \A d \in RawCalls : stack'[d] = stack[d] \/ pc'[d] = "running"
      BY <2>1, <3>2, <3>4
    <3> QED
      BY <2>1, <3>1, <3>2, <3>3, <3>5, StartHeld
  <2>3. CASE EnterBlockRaises(c, n)
    <3>1. stack' = stack /\ lost' = lost \cup {<<c, n>>}
      BY <2>3 DEF EnterBlockRaises, LoseSpan
    <3> QED
      BY <2>1, <3>1, StartHeld
  <2> QED
    BY <1>6, <2>2, <2>3
<1>7. ASSUME NEW c \in Calls, NEW n \in Inner, EndNode(c, n) \/ FailNode(c, n) PROVE HeldInv'
  <2>1. /\ n \in Spans /\ UNCHANGED <<pc, stack>> /\ PopSpan(c, n)
        /\ \A d \in Calls, m \in Inner : (d = c /\ m = n) \/ node'[d][m] = node[d][m]
    BY <1>7 DEF EndNode, FailNode, IInv, TypeOK, Spans
  <2>2. \A d \in Calls : tracked'[d] = IF d = c THEN tracked[c] \ {n} ELSE tracked[d]
    BY <2>1 DEF PopSpan, IInv, TypeOK
  <2>3. CASE n \notin tracked[c] /\ UNCHANGED <<span, exported, lost>>
    <3>1. \A d \in Calls : tracked'[d] = tracked[d]
      BY <2>2, <2>3
    <3>2. \A d \in Calls, m \in Inner : m \in tracked[d] => node'[d][m] = node[d][m]
      BY <2>1, <2>3
    <3> QED
      BY <2>1, <2>3, <3>1, <3>2 DEF HeldInv, Open
  <2>4. CASE EndSpan(c, n) \/ (LoseSpan(c, n) /\ span' = span)
    BY <2>1, <2>2, <2>4, EndHeld
  <2> QED
    BY <2>1, <2>3, <2>4 DEF PopSpan
<1>8. ASSUME NEW c \in Calls, LeaveBlock(c) PROVE HeldInv'
  <2> DEFINE n == Last(stack[c])
  <2>1. /\ stack[c] \in Seq(Inner) /\ stack[c] # <<>>
        /\ n = stack[c][Len(stack[c])]
        /\ EndSpan(c, n) /\ UNCHANGED <<pc, tracked, node>>
        /\ stack' = [stack EXCEPT ![c] = Front(@)]
    BY <1>8 DEF LeaveBlock, IInv, TypeOK, Last
  <2>2. n \in Spans
    BY <2>1 DEF Spans
  <2> HIDE DEF n
  <2>3. \A d \in Calls : stack'[d] = IF d = c THEN Front(stack[c]) ELSE stack[d]
    BY <2>1 DEF IInv, TypeOK
  <2>4. \A m \in ToSet(stack[c]) : m = n \/ m \in ToSet(Front(stack[c]))
    <3> SUFFICES ASSUME NEW i \in DOMAIN stack[c]
                 PROVE  stack[c][i] = n \/ stack[c][i] \in ToSet(Front(stack[c]))
      BY DEF ToSet
    <3>1. CASE i = Len(stack[c])
      BY <2>1, <3>1
    <3>2. CASE i # Len(stack[c])
      <4>1. i \in DOMAIN Front(stack[c]) /\ Front(stack[c])[i] = stack[c][i]
        BY <2>1, <3>2 DEF Front
      <4> QED
        BY <4>1 DEF ToSet
    <3> QED
      BY <3>1, <3>2
  <2>5. RawCalls \subseteq Calls
    BY DEF Calls
  <2>6. /\ \A d \in RawCalls : stack'[d] # <<>> => stack[d] # <<>> /\ pc'[d] = pc[d]
        /\ \A d \in Calls, m \in Inner :
             m \in tracked[d] \cup ToSet(stack[d]) =>
               (d = c /\ m = n) \/ m \in tracked'[d] \cup ToSet(stack'[d])
    BY <2>1, <2>3, <2>4, <2>5
  <2> QED
    BY <2>1, <2>2, <2>6, EndHeld
<1>9. ASSUME NEW c \in Calls, ReturnGraph(c) \/ RaiseGraph(c) \/ LeaveFunction(c) PROVE HeldInv'
  <2>1. /\ Root \in Spans /\ EndSpan(c, Root) /\ UNCHANGED <<tracked, node, stack>>
        /\ \A d \in Calls : d = c \/ pc'[d] = pc[d]
        /\ c \in RawCalls => stack[c] = <<>>
        /\ RawCalls \subseteq Calls
    BY <1>9, CallsAssumption
    DEF ReturnGraph, RaiseGraph, LeaveFunction, IInv, TypeOK, Spans, Calls
  <2> QED
    BY <2>1, EndHeld
<1> QED
  BY <1>1, <1>2, <1>3, <1>4, <1>5, <1>6, <1>7, <1>8, <1>9 DEF Next

LEMMA Invariance == Spec => [](IInv /\ HeldInv)
BY InitIInv, NextIInv, InitHeld, NextHeld, PTL DEF Spec

\* Every variable has its type; what a handler tracks and the blocks a function
\* is in are open spans.
THEOREM TypeCorrect == Spec => []TypeOK
<1>1. IInv => TypeOK
  BY DEF IInv
<1> QED
  BY <1>1, Invariance, PTL

\* However threads configure and reset tracing, one provider is up at most, the
\* one tracers are taken from, and the exporter threads beside it are those of
\* OTLP configurations that found a provider or have not yet looked for one.
THEOREM OneProviderCorrect == Spec => []OneProviderUp
<1>1. IInv => OneProviderUp
  BY DEF IInv
<1> QED
  BY <1>1, Invariance, PTL

\* The end() of no span is called twice, in whatever order the events of nodes,
\* blocks and calls arrive.
THEOREM EndedOnceCorrect == Spec => []EndedOnce
<1>1. IInv => EndedOnce
  BY DEF IInv
<1> QED
  BY <1>1, Invariance, PTL

\* A node whose span is exported is never shown as a run of its own.
THEOREM NodesBelongCorrect == Spec => []NodesBelongToTheirRun
<1>1. IInv => NodesBelongToTheirRun
  BY DEF IInv
<1> QED
  BY <1>1, Invariance, PTL

\* A call whose first provider is still up has all its spans with that provider
\* and in one trace, and has lost none that ended.
THEOREM RunsAreWholeCorrect == Spec => []RunsAreWhole
<1>1. IInv => RunsAreWhole
  BY DEF IInv
<1> QED
  BY <1>1, Invariance, PTL

\* Once a node run or a call is over, of its spans only those are open on which
\* capturing content has raised.
THEOREM OnlyTheLostStayOpenCorrect == Spec => []OnlyTheLostStayOpen
<1>1. IInv /\ HeldInv => OnlyTheLostStayOpen
  <2> SUFFICES ASSUME IInv, HeldInv, NEW c \in Calls, NEW s \in Spans,
                      Open(c, s), <<c, s>> \notin lost
               PROVE  \/ pc[c] = "running"
                      \/ c \in GraphCalls /\ s \in Inner /\ node[c][s] = "running"
    BY DEF OnlyTheLostStayOpen
  <2>1. CASE s = Root
    BY <2>1 DEF HeldInv
  <2>2. CASE s \in tracked[c]
    BY <2>2 DEF HeldInv, IInv, TypeOK, ShapeInv, CallInv, Calls
  <2>3. CASE s \in ToSet(stack[c])
    BY <2>3 DEF HeldInv, IInv, ShapeInv, CallInv, Calls, ToSet
  <2> QED
    BY <2>1, <2>2, <2>3 DEF HeldInv, Spans
<1> QED
  BY <1>1, Invariance, PTL

=============================================================================
