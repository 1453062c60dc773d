--------------------------- MODULE LLMSessionProofs ---------------------------
(***************************************************************************)
(* Proofs about LLMSession, for any traces, texts, disabled detectors,     *)
(* size of the sample and number of faults: its type invariant and its     *)
(* safety invariants, about the cache, the counters, the attribution of    *)
(* what is recorded, and the baselines of output drift.                    *)
(***************************************************************************)
EXTENDS LLMSession, Sums, SequenceTheorems

Replies == {"yes", "no", "odd"}

\* What a prompt was answered is what the cache keeps for it, if anything.
GivenInv == ~NoCache => \A p \in Prompts : given[p] \subseteq {cache[p]} \ {"none"}

\* A record of the telemetry, and a verdict.
Record == [trace : Nat \ {0}, detector : ToSet(Detectors), hit : BOOLEAN]

\* While a detector asks, the client's context is its trace and itself, its
\* attempt is logged, and its question is one of those it has.
PlaceInv ==
  at.question > 0 =>
    /\ Examining
    /\ context = <<at.trace, Detector>> /\ context \in attempts
    /\ Detector \in Chatting => at.question \in DOMAIN Questions(Trace, Detector)

\* The loop has left detector d of trace t.
Past(t, d) ==
  \E k \in 1 .. Len(Detectors) :
    d = Detectors[k] /\ (t < at.trace \/ (t = at.trace /\ k < at.detector))

\* A verdict ends its detector.
VerdictsInv ==
  /\ telemetry \in Seq(Record) /\ verdicts \subseteq Record
  /\ \A v \in verdicts : Past(v.trace, v.detector)

\* So does a vector.
VectorsInv ==
  /\ vectors \in Seq(1 .. Len(Traces))
  /\ \A i \in DOMAIN vectors : Past(vectors[i], "output_drift")

AgentOf(i) == Traces[vectors[i]].agent

\* The baseline of an agent is the output of its first trace that got a vector.
BaselineInv ==
  \A a \in Agents :
    IF baseline[a] = NoText THEN \A j \in DOMAIN vectors : AgentOf(j) # a
    ELSE \E m \in DOMAIN vectors : /\ AgentOf(m) = a
                                   /\ \A j \in 1 .. m - 1 : AgentOf(j) # a
                                   /\ baseline[a] = Drifting(Traces[vectors[m]])

\* The prompts with an answer in the cache.
Known == {p \in Prompts : cache[p] # "none"}

CachesAreFinite == IsFiniteSet(embedded) /\ IsFiniteSet(Known)

\* The inductive invariant.
IInv ==
  /\ TypeOK /\ GivenInv /\ PlaceInv /\ VerdictsInv /\ VectorsInv /\ BaselineInv
  /\ CachesAreFinite /\ AccountsBalance /\ Attributed /\ DriftIsAgainstTheFirst

LEMMA MinBelow ==
  ASSUME NEW a \in Nat, NEW b \in Nat
  PROVE  Min({a, b}) \in Nat /\ Min({a, b}) <= a
<1>1. \E x \in {a, b} : \A y \in {a, b} : x <= y
  <2>1. CASE a <= b
    BY <2>1
  <2>2. CASE b <= a
    BY <2>2
  <2> QED
    BY <2>1, <2>2
<1> QED
  BY <1>1 DEF Min

LEMMA TraceType ==
  ASSUME TypeOK, Examining PROVE Trace \in ToSet(Traces)
<1>1. Len(Traces) \in Nat /\ DOMAIN Traces = 1 .. Len(Traces)
  BY SessionAssumption
<1>2. Min({Len(Traces), LLMSample}) \in Nat /\ Min({Len(Traces), LLMSample}) <= Len(Traces)
  BY <1>1, MinBelow, SessionAssumption
<1>3. at.trace \in Nat \ {0} /\ at.trace <= Min({Len(Traces), LLMSample})
  BY DEF Examining, TypeOK
<1>4. at.trace \in 1 .. Len(Traces)
  BY <1>1, <1>2, <1>3
<1> QED
  BY <1>1, <1>4 DEF Trace, ToSet

\* Where the loop goes next is a place in it.
LEMMA PlaceType ==
  ASSUME TypeOK
  PROVE  LET Places == [trace : Nat \ {0}, detector : 1 .. Len(Detectors), question : Nat]
         IN  /\ NextDetector \in Places
             /\ At(at.trace, at.detector, 1) \in Places
             /\ NextQuestion \in Places
<1>1. Len(Detectors) = 6
  BY DEF Detectors
<1>2. /\ at.trace \in Nat \ {0} /\ at.trace + 1 \in Nat \ {0}
      /\ at.detector \in 1 .. 6 /\ at.question \in Nat
  BY <1>1 DEF TypeOK
<1>3. NextDetector \in [trace : Nat \ {0}, detector : 1 .. Len(Detectors), question : Nat]
  BY <1>1, <1>2 DEF NextDetector, At
<1> QED
  BY <1>1, <1>2, <1>3 DEF NextQuestion, At

\* Counters count up.
LEMMA CountType ==
  ASSUME stats \in [Counters -> Nat], NEW n \in Nat, NEW c, DOMAIN c = 1 .. n, Count(c)
  PROVE  stats' \in [Counters -> Nat]
<1>1. IsFiniteSet(1 .. n)
  BY FS_Interval
<1>2. \A x : IsFiniteSet({k \in DOMAIN c : c[k] = x})
  BY <1>1, FS_Subset
<1>3. \A x : Cardinality({k \in DOMAIN c : c[k] = x}) \in Nat
  BY <1>2, FS_CardinalityType
<1>4. stats' = [x \in Counters |-> stats[x] + Cardinality({k \in DOMAIN c : c[k] = x})]
  BY DEF Count
<1>5. \A x \in Counters : stats[x] + Cardinality({k \in DOMAIN c : c[k] = x}) \in Nat
  <2>1. \A m \in Nat, k \in Nat : m + k \in Nat
    OBVIOUS
  <2> QED
    BY <1>3, <2>1
<1> QED
  BY <1>4, <1>5

LEMMA InitInv == Init => TypeOK /\ GivenInv
<1>1. Len(Detectors) = 6
  BY DEF Detectors
<1>2. ASSUME Init PROVE at \in [trace : Nat \ {0}, detector : 1 .. Len(Detectors), question : Nat]
  BY <1>1, <1>2 DEF Init, At
<1>3. ASSUME Init PROVE TypeOK
  <2>1. /\ cache \in [Prompts -> {"none", "yes", "no", "odd"}]
        /\ given \in [Prompts -> SUBSET {"yes", "no", "odd"}]
    BY <1>3 DEF Init
  <2>2. /\ embedded \subseteq {Drifting(t) : t \in ToSet(Traces)}
        /\ baseline \in [Agents -> embedded \union {NoText}]
    BY <1>3 DEF Init
  <2>3. stats \in [Counters -> Nat] /\ hit \in BOOLEAN /\ responses \in Nat
    BY <1>3 DEF Init
  <2>4. faults \in 0 .. MaxFaults
    BY <1>3, SessionAssumption DEF Init
  <2> QED
    BY <1>2, <1>3, <2>1, <2>2, <2>3, <2>4 DEF TypeOK
<1> QED
  BY <1>3 DEF Init, GivenInv

\* An answer, if there is one, is given to the prompt.
LEMMA ConcludeType ==
  ASSUME TypeOK, NEW a, a \in Replies \/ Prompt \notin Prompts, NEW cached,
         Conclude(a, cached)
  PROVE  /\ at' \in [trace : Nat \ {0}, detector : 1 .. Len(Detectors), question : Nat]
         /\ given' \in [Prompts -> SUBSET Replies]
BY PlaceType DEF TypeOK, Conclude, Replies

\* Every step preserves the types.
LEMMA TypeStep == TypeOK /\ [Next]_vars => TypeOK'
<1> SUFFICES ASSUME TypeOK, [Next]_vars PROVE TypeOK'
  OBVIOUS
<1> DEFINE Places == [trace : Nat \ {0}, detector : 1 .. Len(Detectors), question : Nat]
           Vectors == {Drifting(t) : t \in ToSet(Traces)}
<1>0. ASSUME at' \in Places,
             cache' \in [Prompts -> {"none", "yes", "no", "odd"}],
             embedded' \subseteq Vectors,
             baseline' \in [Agents -> embedded' \union {NoText}],
             stats' \in [Counters -> Nat], hit' \in BOOLEAN, responses' \in Nat,
             given' \in [Prompts -> SUBSET {"yes", "no", "odd"}],
             faults' \in 0 .. MaxFaults
      PROVE  TypeOK'
  BY <1>0 DEF TypeOK
<1>1. stats \in [Counters -> Nat] /\ {1, 2, 3, 4} \subseteq Nat
  BY DEF TypeOK
<1>2. /\ Count(<<"cache_hits">>) => stats' \in [Counters -> Nat]
      /\ Count(<<"embed_calls">>) => stats' \in [Counters -> Nat]
      /\ Count(<<"embed_calls", "errors">>) => stats' \in [Counters -> Nat]
      /\ Count(<<"cache_misses", "chat_calls">>) => stats' \in [Counters -> Nat]
      /\ Count(<<"cache_misses", "chat_calls", "errors">>) => stats' \in [Counters -> Nat]
      /\ Count(<<"cache_misses", "chat_calls", "chat_calls", "errors">>) => stats' \in [Counters -> Nat]
  <2>1. Count(<<"cache_hits">>) => stats' \in [Counters -> Nat]
    <3>1. DOMAIN <<"cache_hits">> = 1 .. 1
      OBVIOUS
    <3> QED
      BY <1>1, <3>1, CountType
  <2>2. Count(<<"embed_calls">>) => stats' \in [Counters -> Nat]
    <3>1. DOMAIN <<"embed_calls">> = 1 .. 1
      OBVIOUS
    <3> QED
      BY <1>1, <3>1, CountType
  <2>3. Count(<<"embed_calls", "errors">>) => stats' \in [Counters -> Nat]
    <3>1. DOMAIN <<"embed_calls", "errors">> = 1 .. 2
      OBVIOUS
    <3> QED
      BY <1>1, <3>1, CountType
  <2>4. Count(<<"cache_misses", "chat_calls">>) => stats' \in [Counters -> Nat]
    <3>1. DOMAIN <<"cache_misses", "chat_calls">> = 1 .. 2
      OBVIOUS
    <3> QED
      BY <1>1, <3>1, CountType
  <2>5. Count(<<"cache_misses", "chat_calls", "errors">>) => stats' \in [Counters -> Nat]
    <3>1. DOMAIN <<"cache_misses", "chat_calls", "errors">> = 1 .. 3
      OBVIOUS
    <3> QED
      BY <1>1, <3>1, CountType
  <2>6. Count(<<"cache_misses", "chat_calls", "chat_calls", "errors">>) => stats' \in [Counters -> Nat]
    <3>1. DOMAIN <<"cache_misses", "chat_calls", "chat_calls", "errors">> = 1 .. 4
      OBVIOUS
    <3> QED
      BY <1>1, <3>1, CountType
  <2> QED
    BY <2>1, <2>2, <2>3, <2>4, <2>5, <2>6
<1>3. faults < MaxFaults /\ faults' = faults + 1 => faults' \in 0 .. MaxFaults
  BY SessionAssumption DEF TypeOK
<1>4. NextDetector \in Places /\ At(at.trace, at.detector, 1) \in Places /\ NextQuestion \in Places
  BY PlaceType
<1> USE DEF TypeOK
<1>5. CASE BeginDetector
  <2>1. at' \in Places /\ UNCHANGED <<client, baseline, verdicts, given, vectors, faults>>
    BY <1>5, <1>4 DEF BeginDetector
  <2> QED
    BY <2>1, <1>0 DEF client
<1>6. CASE AskCached
  <2>1. cache[Prompt] \in Replies \/ Prompt \notin Prompts
    BY <1>6 DEF AskCached, Cached, Replies
  <2>2. at' \in Places /\ given' \in [Prompts -> SUBSET Replies]
    BY <1>6, <2>1, ConcludeType DEF AskCached
  <2> QED
    BY <1>6, <1>0, <1>2, <2>2 DEF AskCached, Replies
<1>7. CASE AskAnswered
  <2>1. PICK a \in Replies : /\ Keep(a)
                            /\ responses' = responses + 1
                            /\ Count(<<"cache_misses", "chat_calls">>)
                            /\ Conclude(a, hit')
    BY <1>7 DEF AskAnswered, Replies
  <2>2. at' \in Places /\ given' \in [Prompts -> SUBSET Replies]
    BY <2>1, ConcludeType
  <2>3. cache' \in [Prompts -> {"none", "yes", "no", "odd"}]
    BY <2>1 DEF Keep, Replies
  <2>4. stats' \in [Counters -> Nat] /\ responses' \in Nat
    BY <1>2, <2>1
  <2>5. UNCHANGED <<embedded, baseline, faults>> /\ hit' \in BOOLEAN
    BY <1>7 DEF AskAnswered
  <2> QED
    BY <1>0, <2>2, <2>3, <2>4, <2>5 DEF Replies
<1>8. CASE AskEmpty
  BY <1>8, <1>0, <1>2, <1>3, <1>4 DEF AskEmpty
<1>9. CASE AskFails
  BY <1>9, <1>0, <1>2, <1>3, <1>4 DEF AskFails
<1>10. CASE LogFails
  <2>1. cache' \in [Prompts -> {"none", "yes", "no", "odd"}]
    BY <1>10 DEF LogFails, Keep
  <2>2. stats' \in [Counters -> Nat] /\ responses' \in Nat /\ faults' \in 0 .. MaxFaults
    BY <1>10, <1>2, <1>3 DEF LogFails
  <2>3. UNCHANGED <<embedded, baseline, given>> /\ hit' \in BOOLEAN
    BY <1>10 DEF LogFails
  <2>4. at' \in Places
    BY <1>10, <1>4 DEF LogFails
  <2> QED
    BY <1>0, <2>1, <2>2, <2>3, <2>4
<1>11. CASE Embed
  <2>1. Drifting(Trace) \in Vectors
    BY <1>11, TraceType DEF Embed, Embedding
  <2>2. embedded' = embedded \union {Drifting(Trace)} /\ embedded' \subseteq Vectors
    BY <1>11, <2>1 DEF Embed
  <2>3. baseline' \in [Agents -> embedded' \union {NoText}]
    BY <1>11, <2>2 DEF Embed, Compare
  <2>4. stats' \in [Counters -> Nat]
    BY <1>11, <1>2 DEF Embed
  <2> QED
    BY <1>11, <1>0, <1>4, <2>2, <2>3, <2>4 DEF Embed
<1>12. CASE EmbedFails
  BY <1>12, <1>0, <1>2, <1>3, <1>4 DEF EmbedFails
<1>13. CASE UNCHANGED vars
  BY <1>13 DEF vars
<1> QED
  BY <1>5, <1>6, <1>7, <1>8, <1>9, <1>10, <1>11, <1>12, <1>13 DEF Next

\* An answer is put in the cache before it is given, and is not replaced there.
LEMMA GivenStep == TypeOK /\ GivenInv /\ [Next]_vars => GivenInv'
<1> SUFFICES ASSUME TypeOK, GivenInv, [Next]_vars, ~NoCache, NEW p \in Prompts
             PROVE  given'[p] \subseteq {cache'[p]} \ {"none"}
  BY DEF GivenInv
<1>0. given[p] \subseteq {cache[p]} \ {"none"}
  BY DEF GivenInv
<1>1. CASE UNCHANGED <<cache, given>>
  BY <1>0, <1>1
<1>2. CASE AskCached
  BY <1>0, <1>2 DEF AskCached, Cached, Conclude, TypeOK
<1>3. CASE AskAnswered
  BY <1>0, <1>3 DEF AskAnswered, Cached, Conclude, Keep, TypeOK
<1>4. CASE LogFails
  BY <1>0, <1>4 DEF LogFails, Cached, Keep, TypeOK
<1>5. CASE BeginDetector \/ AskEmpty \/ AskFails \/ Embed \/ EmbedFails
  BY <1>1, <1>5 DEF BeginDetector, AskEmpty, AskFails, Embed, EmbedFails, client
<1> QED
  BY <1>1, <1>2, <1>3, <1>4, <1>5 DEF Next, vars

-----------------------------------------------------------------------------
(* The questions of a detector are a sequence of prompts.                  *)

LEMMA FirstOfLength ==
  ASSUME NEW S, NEW s \in Seq(S), NEW n \in Nat
  PROVE  Min({n, Len(s)}) \in Nat /\ DOMAIN FirstOf(n, s) = 1 .. Min({n, Len(s)})
<1>1. Len(s) \in Nat
  OBVIOUS
<1>2. Min({n, Len(s)}) \in Nat
  BY <1>1, MinBelow
<1>3. DOMAIN SubSeq(s, 1, Min({n, Len(s)})) = 1 .. Min({n, Len(s)})
  <2> DEFINE m == Min({n, Len(s)})
  <2>1. m \in Nat
    BY <1>2
  <2> HIDE DEF m
  <2>2. DOMAIN SubSeq(s, 1, m) = 1 .. m
    BY <2>1
  <2>3. QED BY <2>2 DEF m
<1> QED BY <1>2, <1>3 DEF FirstOf

\* However many texts a trace has, a detector has a number of questions.
LEMMA TextsLength ==
  ASSUME NEW t \in ToSet(Traces), NEW d \in Chatting
  PROVE  \E n \in Nat : DOMAIN Texts(t, d) = 1 .. n
<1>1. /\ t.outputs \in Seq(ToSet(t.outputs)) /\ t.responses \in Seq(ToSet(t.responses))
      /\ t.agentOutputs \in Seq(ToSet(t.agentOutputs))
  BY SessionAssumption
<1>2. CASE d = "semantic_loop"
  <2> DEFINE o == IF Len(t.outputs) < 2 THEN Append(t.outputs, Filler) ELSE t.outputs
             step == Max({1, Len(o) \div 3})
             n == (Len(o) - 2) \div step + 1
             m == Min({3, n})
  <2>1. Texts(t, d) = [i \in 1 .. m |-> Pair(o[(i - 1) * step + 1], o[(i - 1) * step + 2])]
    BY <1>2 DEF Texts, Pairs
  <2>2. DOMAIN Texts(t, d) = 1 .. m
    <3> HIDE DEF o, step, m
    <3>1. QED BY <2>1
  <2>3. n \in Int
    <3>1. Len(o) \in Nat
      BY <1>1
    <3>2. Len(o) \div 3 \in Nat
      <4> HIDE DEF o
      <4>1. QED BY <3>1
    <3>3. step \in Nat \ {0}
      <4> DEFINE q == Len(o) \div 3
      <4>1. q \in Nat
        BY <3>2
      <4> HIDE DEF q, o
      <4>2. \E x \in {1, q} : \A y \in {1, q} : x >= y
        <5>1. q >= 1 \/ 1 >= q
          BY <4>1
        <5>2. QED BY <4>1, <5>1
      <4>3. Max({1, q}) \in {1, q} /\ Max({1, q}) >= 1
        BY <4>2 DEF Max
      <4>4. QED BY <4>1, <4>3 DEF q
    <3> HIDE DEF o, step
    <3>4. QED BY <3>1, <3>3
  <2>4. m \in Int
    <3> HIDE DEF n
    <3>1. \E x \in {3, n} : \A y \in {3, n} : x <= y
      <4>1. n <= 3 \/ 3 <= n
        BY <2>3
      <4>2. QED BY <2>3, <4>1
    <3>2. Min({3, n}) \in {3, n}
      BY <3>1 DEF Min
    <3>3. QED BY <2>3, <3>2
  <2> HIDE DEF m
  <2>5. CASE m \in Nat
    BY <2>2, <2>5
  <2>6. CASE m \notin Nat
    <3>1. 1 .. m = 1 .. 0
      BY <2>4, <2>6
    <3>2. QED BY <2>2, <3>1
  <2>7. QED BY <2>5, <2>6
<1>3. CASE d = "hallucination"
  <2> DEFINE claims == IF t.responses # << >> THEN t.responses
                       ELSE IF t.agentOutputs # << >> THEN t.agentOutputs
                       ELSE IF t.output # NoText THEN <<t.output>> ELSE <<Filler>>
  <2>1. \E S : claims \in Seq(S)
    <3>1. <<t.output>> \in Seq({t.output}) /\ <<Filler>> \in Seq({Filler})
      OBVIOUS
    <3>2. QED BY <1>1, <3>1
  <2>2. Texts(t, d) = [i \in DOMAIN FirstOf(3, claims) |-> << <<claims[i]>>, FirstOf(5, t.results) >>]
    BY <1>3 DEF Texts, Claims
  <2> HIDE DEF claims
  <2>3. PICK S : claims \in Seq(S)
    BY <2>1
  <2>4. Min({3, Len(claims)}) \in Nat /\ DOMAIN FirstOf(3, claims) = 1 .. Min({3, Len(claims)})
    BY <2>3, FirstOfLength
  <2>5. QED BY <2>2, <2>4
<1>4. DOMAIN << >> = 1 .. 0 /\ \A x : DOMAIN <<x>> = 1 .. 1
  OBVIOUS
<1>5. CASE d = "goal_drift"
  <2>1. Texts(t, d) = << >> \/ \E x : Texts(t, d) = <<x>>
    BY <1>5 DEF Texts, LastAction
  <2>2. QED BY <1>4, <2>1
<1>6. CASE d = "quality_degradation"
  <2>1. Texts(t, d) = << >> \/ \E x : Texts(t, d) = <<x>>
    BY <1>6 DEF Texts, Outputs
  <2>2. QED BY <1>4, <2>1
<1>7. CASE d = "confusion_pattern"
  <2>1. Texts(t, d) = << >> \/ \E x : Texts(t, d) = <<x>>
    BY <1>7 DEF Texts, Execution
  <2>2. QED BY <1>4, <2>1
<1>8. QED
  <2>1. d \in {"semantic_loop", "hallucination", "goal_drift", "quality_degradation", "confusion_pattern"}
    BY DEF Chatting, Detectors, ToSet
  <2>2. QED BY <1>2, <1>3, <1>5, <1>6, <1>7, <2>1

LEMMA QuestionIsPrompt ==
  ASSUME NEW t \in ToSet(Traces), NEW d \in Chatting, NEW i \in DOMAIN Questions(t, d)
  PROVE  Questions(t, d)[i] \in Prompts
<1>1. Questions(t, d)[i] \in ToSet(Questions(t, d))
  BY Zenon DEF ToSet
<1> DEFINE sets == {ToSet(Questions(u, e)) : u \in ToSet(Traces), e \in Chatting}
<1>2. ToSet(Questions(t, d)) \in sets /\ Prompts = UNION sets
  BY DEF Prompts
<1> HIDE DEF sets
<1> QED BY <1>1, <1>2

LEMMA QuestionsType ==
  ASSUME NEW t \in ToSet(Traces), NEW d \in Chatting
  PROVE  Questions(t, d) \in Seq(Prompts)
<1>1. PICK n \in Nat : DOMAIN Texts(t, d) = 1 .. n
  BY TextsLength
<1>2. DOMAIN Questions(t, d) = 1 .. n
  BY <1>1 DEF Questions
<1>3. \A i \in 1 .. n : Questions(t, d)[i] \in Prompts
  BY <1>2, QuestionIsPrompt
<1>4. Questions(t, d) = [i \in 1 .. n |-> Questions(t, d)[i]]
  BY <1>1 DEF Questions
<1>5. Questions(t, d) \in [1 .. n -> Prompts]
  BY <1>3, <1>4
<1> QED BY <1>5

LEMMA PromptType ==
  ASSUME TypeOK, PlaceInv, Asking
  PROVE  Prompt \in Prompts
<1>1. Trace \in ToSet(Traces) /\ Detector \in Chatting
  BY TraceType DEF Asking
<1>2. at.question \in DOMAIN Questions(Trace, Detector)
  BY DEF Asking, PlaceInv, TypeOK
<1> QED BY <1>1, <1>2, QuestionIsPrompt DEF Prompt

-----------------------------------------------------------------------------
(* The loop moves forward.                                                 *)

LEMMA DetectorsDiffer ==
  ASSUME NEW j \in 1 .. Len(Detectors), NEW k \in 1 .. Len(Detectors), Detectors[j] = Detectors[k]
  PROVE  j = k
BY DEF Detectors

LEMMA Moves ==
  ASSUME [Next]_vars
  PROVE  at' \in {at, NextDetector, NextQuestion, At(at.trace, at.detector, 1)}
<1>1. CASE BeginDetector
  BY <1>1 DEF BeginDetector
<1>2. CASE AskCached
  BY <1>2 DEF AskCached, Conclude
<1>3. CASE AskAnswered
  BY <1>3 DEF AskAnswered, Conclude
<1>4. CASE AskEmpty \/ AskFails \/ LogFails \/ Embed \/ EmbedFails
  BY <1>4 DEF AskEmpty, AskFails, LogFails, Embed, EmbedFails
<1>5. CASE UNCHANGED vars
  BY <1>5 DEF vars
<1> QED BY <1>1, <1>2, <1>3, <1>4, <1>5 DEF Next

\* What it has left it does not come back to.
LEMMA PastStays ==
  ASSUME TypeOK, [Next]_vars, NEW t \in Nat, NEW d, Past(t, d)
  PROVE  Past(t, d)'
<1>1. PICK k \in 1 .. Len(Detectors) :
        d = Detectors[k] /\ (t < at.trace \/ (t = at.trace /\ k < at.detector))
  BY DEF Past
<1>2. /\ at.trace \in Nat /\ at.detector \in 1 .. Len(Detectors)
      /\ Len(Detectors) = 6
  BY DEF TypeOK, Detectors
<1>3. \/ at'.trace = at.trace /\ at'.detector = at.detector
      \/ at'.trace = at.trace /\ at'.detector = at.detector + 1
      \/ at'.trace = at.trace + 1 /\ at'.detector = 1
  BY Moves DEF NextDetector, NextQuestion, At
<1>4. t < at'.trace \/ (t = at'.trace /\ k < at'.detector)
  BY <1>1, <1>2, <1>3
<1> QED BY <1>1, <1>4 DEF Past

LEMMA Leaving ==
  ASSUME TypeOK, at' = NextDetector, NEW t, NEW d, t = at.trace, d = Detector
  PROVE  Past(t, d)'
<1>1. /\ at.trace \in Nat /\ at.detector \in 1 .. Len(Detectors)
      /\ Len(Detectors) = 6
  BY DEF TypeOK, Detectors
<1>2. \/ at'.trace = at.trace /\ at'.detector = at.detector + 1
      \/ at'.trace = at.trace + 1 /\ at'.detector = 1
  BY DEF NextDetector, At
<1>3. at.trace < at'.trace \/ (at.trace = at'.trace /\ at.detector < at'.detector)
  BY <1>1, <1>2
<1> QED BY <1>1, <1>3 DEF Past, Detector

LEMMA NotLeft ==
  ASSUME TypeOK PROVE ~ Past(at.trace, Detector)
<1> SUFFICES ASSUME NEW k \in 1 .. Len(Detectors), Detector = Detectors[k],
                    at.trace < at.trace \/ (at.trace = at.trace /\ k < at.detector)
             PROVE  FALSE
  BY DEF Past
<1>1. at.trace \in Nat /\ at.detector \in 1 .. Len(Detectors) /\ Len(Detectors) = 6
  BY DEF TypeOK, Detectors
<1>2. k = at.detector
  BY <1>1, DetectorsDiffer DEF Detector
<1> QED BY <1>1, <1>2

\* The place and the context belong together.
LEMMA PlaceStep == ASSUME TypeOK, PlaceInv, [Next]_vars PROVE PlaceInv'
<1>1. ASSUME at' = NextDetector PROVE PlaceInv'
  BY <1>1 DEF PlaceInv, NextDetector, At
<1>2. ASSUME Asking, at' = NextQuestion, UNCHANGED <<context, attempts>> PROVE PlaceInv'
  <2>1. Trace \in ToSet(Traces) /\ Detector \in Chatting
    BY <1>2, TraceType DEF Asking
  <2> DEFINE qs == Questions(Trace, Detector)
  <2>2. qs \in Seq(Prompts)
    BY <2>1, QuestionsType
  <2>3. CASE at.question < Len(qs)
    <3>1. at' = At(at.trace, at.detector, at.question + 1)
      BY <1>2, <2>3 DEF NextQuestion
    <3>2. /\ Trace' = Trace /\ Detector' = Detector
          /\ at'.trace = at.trace /\ at'.detector = at.detector /\ at'.question = at.question + 1
      BY <3>1 DEF Trace, Detector, At
    <3>3. at.question \in Nat
      BY DEF TypeOK
    <3> HIDE DEF qs
    <3>4. at.question + 1 \in DOMAIN qs
      BY <2>2, <2>3, <3>3
    <3>5. Examining /\ at.question > 0
      BY <1>2 DEF Asking
    <3>6. Examining'
      BY <3>2, <3>5 DEF Examining
    <3>7. context' = <<at'.trace, Detector'>> /\ context' \in attempts'
      BY <1>2, <3>2, <3>5 DEF PlaceInv
    <3>8. Questions(Trace, Detector)' = qs
      BY <3>2 DEF qs
    <3>9. QED BY <3>2, <3>4, <3>6, <3>7, <3>8 DEF PlaceInv
  <2>4. CASE ~ at.question < Len(qs)
    BY <1>1, <1>2, <2>4 DEF NextQuestion
  <2>5. QED BY <2>3, <2>4
<1>3. CASE BeginDetector
  <2>1. \/ at' = NextDetector
        \/ /\ at' = At(at.trace, at.detector, 1) /\ Asks(Trace, Detector)
           /\ context' = <<at.trace, Detector>>
           /\ attempts' = attempts \union {<<at.trace, Detector>>}
    BY <1>3 DEF BeginDetector, SetContext
  <2>2. CASE at' = At(at.trace, at.detector, 1)
    <3>0. CASE at' = NextDetector
      BY <1>1, <3>0
    <3>1. CASE /\ Asks(Trace, Detector) /\ context' = <<at.trace, Detector>>
               /\ attempts' = attempts \union {<<at.trace, Detector>>}
      <4>1. /\ Trace' = Trace /\ Detector' = Detector
            /\ at'.trace = at.trace /\ at'.detector = at.detector /\ at'.question = 1
        BY <2>2 DEF Trace, Detector, At
      <4>2. Examining
        BY <1>3 DEF BeginDetector
      <4>3. Examining'
        BY <4>1, <4>2 DEF Examining
      <4>4. context' = <<at'.trace, Detector'>> /\ context' \in attempts'
        BY <3>1, <4>1
      <4>5. ASSUME Detector \in Chatting PROVE 1 \in DOMAIN Questions(Trace, Detector)
        <5>1. Questions(Trace, Detector) \in Seq(Prompts)
          BY <4>2, <4>5, TraceType, QuestionsType
        <5>2. Questions(Trace, Detector) # << >>
          BY <3>1, <4>5 DEF Asks, Chatting
        <5>3. QED BY <5>1, <5>2
      <4>6. Questions(Trace, Detector)' = Questions(Trace, Detector)
        BY <4>1
      <4>7. QED BY <4>1, <4>3, <4>4, <4>5, <4>6 DEF PlaceInv
    <3>2. QED BY <2>1, <3>0, <3>1
  <2>3. QED BY <1>1, <2>1, <2>2
<1>4. CASE AskCached
  BY <1>1, <1>2, <1>4 DEF AskCached, Conclude
<1>5. CASE AskAnswered
  BY <1>1, <1>2, <1>5 DEF AskAnswered, Conclude
<1>6. CASE AskEmpty \/ AskFails \/ LogFails
  BY <1>2, <1>6 DEF AskEmpty, AskFails, LogFails
<1>7. CASE Embed \/ EmbedFails
  BY <1>1, <1>7 DEF Embed, EmbedFails
<1>8. CASE UNCHANGED vars
  BY <1>8 DEF vars, PlaceInv, Examining, Trace, Detector
<1> QED BY <1>3, <1>4, <1>5, <1>6, <1>7, <1>8 DEF Next

-----------------------------------------------------------------------------
(* What a step records.                                                    *)

RecordOf(h) == [trace |-> at.trace, detector |-> Detector, hit |-> h]

\* A chat that is recorded, with a verdict or without one.
Chats(h) ==
  /\ Asking
  /\ telemetry' = Append(telemetry, RecordOf(h))
  /\ \/ verdicts' = verdicts
     \/ verdicts' = verdicts \union {RecordOf(h)} /\ at' = NextDetector

Quiet == UNCHANGED <<telemetry, verdicts>>

LEMMA Records ==
  ASSUME TypeOK, PlaceInv, [Next]_vars
  PROVE  \/ UNCHANGED <<vectors, baseline>> /\ (Quiet \/ Chats(TRUE) \/ Chats(FALSE))
         \/ Embed
<1>1. ASSUME Asking, NEW h, Telemetry(h)
      PROVE  telemetry' = Append(telemetry, RecordOf(h))
  <2>1. context = <<at.trace, Detector>>
    BY <1>1 DEF Asking, PlaceInv
  <2> QED BY <1>1, <2>1 DEF Telemetry, RecordOf
<1>2. ASSUME NEW a, NEW h, Conclude(a, h)
      PROVE  \/ verdicts' = verdicts
             \/ verdicts' = verdicts \union {RecordOf(h)} /\ at' = NextDetector
  BY <1>2 DEF Conclude, RecordOf
<1>3. CASE AskCached
  <2>1. Asking /\ Telemetry(TRUE) /\ Conclude(cache[Prompt], TRUE) /\ UNCHANGED <<vectors, baseline>>
    BY <1>3 DEF AskCached
  <2> QED BY <1>1, <1>2, <2>1 DEF Chats
<1>4. CASE AskAnswered
  <2>1. /\ Asking /\ Telemetry(FALSE) /\ UNCHANGED <<vectors, baseline>>
        /\ \E a : Conclude(a, FALSE)
    BY <1>4 DEF AskAnswered
  <2> QED BY <1>1, <1>2, <2>1 DEF Chats
<1>5. CASE AskEmpty \/ LogFails
  BY <1>1, <1>5 DEF AskEmpty, LogFails, Chats
<1>6. CASE BeginDetector \/ AskFails \/ EmbedFails
  BY <1>6 DEF BeginDetector, AskFails, EmbedFails, Quiet, client
<1>7. CASE UNCHANGED vars
  BY <1>7 DEF vars, Quiet
<1> QED BY <1>3, <1>4, <1>5, <1>6, <1>7 DEF Next

\* An embedding leaves the telemetry, and is of the first detector.
LEMMA Embeds ==
  ASSUME TypeOK, Embed
  PROVE  /\ at.trace \in 1 .. Len(Traces) /\ Detector = "output_drift" /\ at' = NextDetector
         /\ UNCHANGED telemetry
         /\ vectors' = Append(vectors, at.trace)
         /\ baseline' = [baseline EXCEPT ![Trace.agent] = IF @ = NoText THEN Drifting(Trace) ELSE @]
         /\ verdicts' = IF <<baseline[Trace.agent], Drifting(Trace)>> \in Far
                        THEN verdicts \union {RecordOf(FALSE)} ELSE verdicts
<1>1. Examining
  BY DEF Embed, Embedding
<1>2. Len(Traces) \in Nat
  BY SessionAssumption
<1>3. Min({Len(Traces), LLMSample}) \in Nat /\ Min({Len(Traces), LLMSample}) <= Len(Traces)
  BY <1>2, MinBelow, SessionAssumption
<1>4. at.trace \in 1 .. Len(Traces)
  BY <1>1, <1>2, <1>3 DEF Examining, TypeOK
<1> QED BY <1>4 DEF Embed, Embedding, Compare, RecordOf

LEMMA RecordType ==
  ASSUME TypeOK, NEW h \in BOOLEAN
  PROVE  RecordOf(h) \in Record
<1>1. Detector \in ToSet(Detectors)
  BY DEF TypeOK, Detector, Detectors, ToSet
<1> QED BY <1>1 DEF TypeOK, RecordOf, Record

\* A verdict ends its detector, so no two verdicts are of one detector.
LEMMA VerdictsStep ==
  ASSUME TypeOK, PlaceInv, VerdictsInv, [Next]_vars
  PROVE  VerdictsInv'
<1>1. ASSUME NEW v \in verdicts PROVE Past(v.trace, v.detector)'
  BY <1>1, PastStays DEF VerdictsInv, Record
<1>2. ASSUME NEW v, NEW h \in BOOLEAN, v = RecordOf(h), at' = NextDetector
      PROVE  v \in Record /\ Past(v.trace, v.detector)'
  <2>1. v.trace = at.trace /\ v.detector = Detector
    BY <1>2 DEF RecordOf
  <2> QED BY <1>2, <2>1, Leaving, RecordType
<1>3. /\ telemetry \in Seq(Record) /\ verdicts \subseteq Record
      /\ \A h \in BOOLEAN : RecordOf(h) \in Record
  BY RecordType DEF VerdictsInv
<1>4. ASSUME telemetry' \in Seq(Record),
             \/ verdicts' = verdicts
             \/ \E h \in BOOLEAN : verdicts' = verdicts \union {RecordOf(h)} /\ at' = NextDetector
      PROVE  VerdictsInv'
  <2>1. \A v \in verdicts' : v \in Record /\ Past(v.trace, v.detector)'
    BY <1>1, <1>2, <1>3, <1>4
  <2> QED BY <1>4, <2>1 DEF VerdictsInv
<1>5. CASE Quiet
  BY <1>3, <1>4, <1>5 DEF Quiet
<1>6. ASSUME NEW h \in BOOLEAN, Chats(h) PROVE VerdictsInv'
  <2>1. telemetry' \in Seq(Record)
    BY <1>3, <1>6 DEF Chats
  <2> QED BY <1>4, <1>6, <2>1 DEF Chats
<1>7. CASE Embed
  <2>1. at' = NextDetector /\ UNCHANGED telemetry
        /\ verdicts' \in {verdicts, verdicts \union {RecordOf(FALSE)}}
    BY <1>7, Embeds
  <2> QED BY <1>3, <1>4, <2>1
<1> QED BY <1>5, <1>6, <1>7, Records

\* Whatever is recorded while one detector asks is its own.
LEMMA AttributedStep ==
  ASSUME TypeOK, PlaceInv, VerdictsInv, Attributed, [Next]_vars
  PROVE  Attributed'
<1> DEFINE Own(s, v) ==
      \E i \in DOMAIN s :
        /\ s[i] = v
        /\ \A j \in i + 1 .. Len(s) : <<s[j].trace, s[j].detector>> # <<v.trace, v.detector>>
<1>1. attempts \subseteq attempts'
  <2>1. CASE BeginDetector
    BY <2>1 DEF BeginDetector
  <2>2. CASE ~ BeginDetector
    BY <2>2 DEF Next, AskCached, AskAnswered, AskEmpty, AskFails, LogFails, Embed, EmbedFails, vars
  <2> QED BY <2>1, <2>2
<1>2. /\ telemetry \in Seq(Record) /\ verdicts \subseteq Record
      /\ \A i \in DOMAIN telemetry : <<telemetry[i].trace, telemetry[i].detector>> \in attempts
      /\ \A v \in verdicts : v.detector \in Chatting => Own(telemetry, v)
  BY DEF VerdictsInv, Attributed
<1>3. CASE Quiet
  BY <1>1, <1>3 DEF Quiet, Attributed
<1>4. ASSUME NEW h \in BOOLEAN, Chats(h) PROVE Attributed'
  <2> DEFINE r == RecordOf(h)
             n == Len(telemetry)
  <2>1. r.trace = at.trace /\ r.detector = Detector
    BY DEF RecordOf
  <2>2. <<r.trace, r.detector>> \in attempts'
    BY <1>1, <1>4, <2>1 DEF Chats, Asking, PlaceInv
  <2>3. telemetry' = Append(telemetry, r) /\ r \in Record
    BY <1>4, RecordType DEF Chats
  <2> HIDE DEF r
  <2>4. /\ n \in Nat /\ Len(telemetry') = n + 1 /\ DOMAIN telemetry' = 1 .. n + 1
        /\ telemetry'[n + 1] = r /\ DOMAIN telemetry = 1 .. n
        /\ \A i \in 1 .. n : telemetry'[i] = telemetry[i]
    BY <1>2, <2>3
  <2> HIDE DEF n
  <2>5. \A i \in DOMAIN telemetry' : <<telemetry'[i].trace, telemetry'[i].detector>> \in attempts'
    BY <1>1, <1>2, <2>2, <2>4
  <2>6. ASSUME NEW v \in verdicts, v.detector \in Chatting PROVE Own(telemetry', v)
    <3>1. <<v.trace, v.detector>> # <<r.trace, r.detector>>
      BY <2>1, NotLeft DEF VerdictsInv
    <3>2. PICK i \in 1 .. n :
            /\ telemetry[i] = v
            /\ \A j \in i + 1 .. n :
                 <<telemetry[j].trace, telemetry[j].detector>> # <<v.trace, v.detector>>
      BY <1>2, <2>4, <2>6 DEF n
    <3>3. \A j \in i + 1 .. n + 1 : j = n + 1 \/ (j \in i + 1 .. n /\ j \in 1 .. n)
      BY <2>4
    <3>4. \A j \in i + 1 .. n + 1 :
            <<telemetry'[j].trace, telemetry'[j].detector>> # <<v.trace, v.detector>>
      BY <2>4, <3>1, <3>2, <3>3
    <3>5. i \in DOMAIN telemetry'
      BY <2>4
    <3> QED BY <2>4, <3>2, <3>4, <3>5
  <2>7. Own(telemetry', r)
    <3>1. n + 1 \in DOMAIN telemetry' /\ (n + 1) + 1 .. Len(telemetry') = {}
      BY <2>4
    <3> QED BY <2>4, <3>1
  <2>8. \A v \in verdicts' : v \in verdicts \/ v = r
    BY <1>4 DEF Chats, r
  <2> QED BY <2>5, <2>6, <2>7, <2>8 DEF Attributed
<1>5. CASE Embed
  <2>1. /\ UNCHANGED telemetry
        /\ \A v \in verdicts' : v \in verdicts \/ v.detector \notin Chatting
    <3>1. RecordOf(FALSE).detector \notin Chatting
      BY <1>5, Embeds DEF RecordOf, Chatting
    <3> QED BY <1>5, <3>1, Embeds
  <2> QED BY <1>1, <1>2, <2>1 DEF Attributed
<1> QED BY <1>3, <1>4, <1>5, Records

-----------------------------------------------------------------------------
(* Vectors and baselines.                                                  *)

\* At an embedding the agent's trace comes last, and it is a new one.
LEMMA VectorsStep ==
  ASSUME TypeOK, PlaceInv, VectorsInv, [Next]_vars
  PROVE  VectorsInv'
<1>1. ASSUME NEW t \in 1 .. Len(Traces), Past(t, "output_drift")
      PROVE  Past(t, "output_drift")'
  <2>1. t \in Nat
    OBVIOUS
  <2> QED BY <1>1, <2>1, PastStays
<1>2. CASE vectors' = vectors
  BY <1>1, <1>2 DEF VectorsInv
<1>3. CASE Embed
  <2>1. /\ at.trace \in 1 .. Len(Traces) /\ Detector = "output_drift" /\ at' = NextDetector
        /\ vectors' = Append(vectors, at.trace) /\ vectors \in Seq(1 .. Len(Traces))
    BY <1>3, Embeds DEF VectorsInv
  <2>2. PICK t \in 1 .. Len(Traces) : t = at.trace
    BY <2>1
  <2>3. Past(t, "output_drift")'
    BY <2>1, <2>2, Leaving
  <2>4. vectors' \in Seq(1 .. Len(Traces))
    BY <2>1
  <2>5. \A i \in DOMAIN vectors' : vectors'[i] = t \/ \E j \in DOMAIN vectors : vectors'[i] = vectors[j]
    BY <2>1, <2>2
  <2>6. \A i \in DOMAIN vectors' : \E u : u = vectors'[i] /\ Past(u, "output_drift")'
    <3> TAKE i \in DOMAIN vectors'
    <3>1. PICK u \in 1 .. Len(Traces) : u = vectors'[i] /\ Past(u, "output_drift")'
      <4>1. CASE vectors'[i] = t
        BY <2>3, <4>1
      <4>2. CASE \E j \in DOMAIN vectors : vectors'[i] = vectors[j]
        <5>1. PICK j \in DOMAIN vectors : vectors'[i] = vectors[j]
          BY <4>2
        <5>2. PICK u \in 1 .. Len(Traces) : u = vectors[j]
          BY <2>1
        <5>3. Past(u, "output_drift")
          BY <5>2 DEF VectorsInv
        <5> QED BY <1>1, <5>1, <5>2, <5>3
      <4> QED BY <2>5, <4>1, <4>2
    <3> QED BY <3>1
  <2> QED BY <2>4, <2>6 DEF VectorsInv, Past
<1> QED BY <1>2, <1>3, Records

\* What an embedding does to the vectors and the baselines.
LEMMA NewVector ==
  ASSUME TypeOK, VectorsInv, Embed, NEW a, a = Trace.agent, NEW n, n = Len(vectors)
  PROVE  /\ n \in Nat /\ DOMAIN vectors = 1 .. n /\ DOMAIN vectors' = 1 .. n + 1
         /\ vectors'[n + 1] = at.trace /\ AgentOf(n + 1)' = a
         /\ \A j \in 1 .. n : vectors'[j] = vectors[j] /\ vectors[j] # at.trace
         /\ a \in Agents /\ Drifting(Trace) # NoText
         /\ baseline'[a] = IF baseline[a] = NoText THEN Drifting(Trace) ELSE baseline[a]
         /\ \A b \in Agents : b # a => baseline'[b] = baseline[b]
<1>1. /\ at.trace \in 1 .. Len(Traces) /\ Detector = "output_drift"
      /\ vectors' = Append(vectors, at.trace) /\ vectors \in Seq(1 .. Len(Traces))
      /\ baseline' = [baseline EXCEPT ![Trace.agent] = IF @ = NoText THEN Drifting(Trace) ELSE @]
  BY Embeds DEF VectorsInv
<1>2. /\ n \in Nat /\ DOMAIN vectors = 1 .. n /\ DOMAIN vectors' = 1 .. n + 1
      /\ vectors'[n + 1] = at.trace /\ \A j \in 1 .. n : vectors'[j] = vectors[j]
  BY <1>1
<1>3. \A j \in 1 .. n : vectors[j] # at.trace
  BY <1>1, <1>2, NotLeft DEF VectorsInv
<1>4. Trace \in ToSet(Traces)
  BY TraceType DEF Embed, Embedding
<1>5. a \in Agents
  BY <1>4 DEF Agents
<1>6. Drifting(Trace) # NoText
  BY SessionAssumption DEF Drifting
<1>7. AgentOf(n + 1)' = a
  BY <1>2 DEF AgentOf, Trace
<1>8. DOMAIN baseline = Agents
  BY DEF TypeOK
<1> QED BY <1>1, <1>2, <1>3, <1>5, <1>6, <1>7, <1>8

LEMMA BaselineStep ==
  ASSUME TypeOK, PlaceInv, VectorsInv, BaselineInv, [Next]_vars
  PROVE  BaselineInv'
<1>1. CASE UNCHANGED <<vectors, baseline>>
  BY <1>1 DEF BaselineInv, AgentOf
<1>2. CASE Embed
  <2>1. PICK a, n : a = Trace.agent /\ n = Len(vectors)
    OBVIOUS
  <2>2. /\ n \in Nat /\ DOMAIN vectors = 1 .. n /\ DOMAIN vectors' = 1 .. n + 1
        /\ vectors'[n + 1] = at.trace /\ AgentOf(n + 1)' = a
        /\ \A j \in 1 .. n : vectors'[j] = vectors[j] /\ vectors[j] # at.trace
        /\ a \in Agents /\ Drifting(Trace) # NoText
        /\ baseline'[a] = IF baseline[a] = NoText THEN Drifting(Trace) ELSE baseline[a]
        /\ \A b \in Agents : b # a => baseline'[b] = baseline[b]
    BY <1>2, <2>1, NewVector
  <2>3. \A j \in 1 .. n : AgentOf(j)' = AgentOf(j)
    BY <2>2 DEF AgentOf
  <2>4. Drifting(Traces[vectors'[n + 1]]) = Drifting(Trace)
    BY <2>2 DEF Trace
  <2>5. ASSUME NEW b \in Agents
        PROVE  IF baseline'[b] = NoText THEN \A j \in DOMAIN vectors' : AgentOf(j)' # b
               ELSE \E m \in DOMAIN vectors' : /\ AgentOf(m)' = b
                                               /\ \A j \in 1 .. m - 1 : AgentOf(j)' # b
                                               /\ baseline'[b] = Drifting(Traces[vectors'[m]])
    <3>1. CASE baseline[b] = NoText
      <4>1. \A j \in 1 .. n : AgentOf(j)' # b
        BY <2>2, <2>3, <3>1 DEF BaselineInv
      <4>2. CASE b = a
        <5>1. n + 1 \in DOMAIN vectors' /\ AgentOf(n + 1)' = b /\ (n + 1) - 1 = n
          BY <2>2, <4>2
        <5>2. baseline'[b] = Drifting(Traces[vectors'[n + 1]]) /\ baseline'[b] # NoText
          BY <2>2, <2>4, <3>1, <4>2
        <5> QED BY <4>1, <5>1, <5>2
      <4>3. CASE b # a
        <5>1. baseline'[b] = NoText
          BY <2>2, <3>1, <4>3
        <5>2. \A j \in DOMAIN vectors' : j \in 1 .. n \/ j = n + 1
          BY <2>2
        <5> QED BY <2>2, <4>1, <4>3, <5>1, <5>2
      <4> QED BY <4>2, <4>3
    <3>2. CASE baseline[b] # NoText
      <4>1. PICK m \in 1 .. n : /\ AgentOf(m) = b
                                /\ \A j \in 1 .. m - 1 : AgentOf(j) # b
                                /\ baseline[b] = Drifting(Traces[vectors[m]])
        BY <2>2, <3>2 DEF BaselineInv
      <4>2. baseline'[b] = baseline[b] /\ vectors'[m] = vectors[m]
        BY <2>2, <3>2
      <4>3. m \in DOMAIN vectors' /\ 1 .. m - 1 \subseteq 1 .. n
        BY <2>2
      <4>4. AgentOf(m)' = b /\ \A j \in 1 .. m - 1 : AgentOf(j)' # b
        BY <2>3, <4>1, <4>3
      <4> QED BY <3>2, <4>1, <4>2, <4>3, <4>4
    <3> QED BY <3>1, <3>2
  <2> QED BY <2>5 DEF BaselineInv
<1> QED BY <1>1, <1>2, Records

-----------------------------------------------------------------------------
(* Drift.                                                                  *)

\* The first of the vectors s that is of the same agent as the i-th.
FirstIn(s, i) == Min({j \in 1 .. i : Traces[s[j]].agent = Traces[s[i]].agent})

Drifted(vs, t) == \E v \in vs : v.trace = t /\ v.detector = "output_drift"

DriftAt(s, vs, i) ==
  Drifted(vs, s[i]) <=>
    FirstIn(s, i) # i /\ <<Drifting(Traces[s[FirstIn(s, i)]]), Drifting(Traces[s[i]])>> \in Far

LEMMA MinIs ==
  ASSUME NEW S \in SUBSET Int, NEW x \in S, \A y \in S : x <= y
  PROVE  Min(S) = x
<1>1. \E z \in S : \A y \in S : z <= y
  OBVIOUS
<1>2. Min(S) \in S /\ \A y \in S : Min(S) <= y
  BY <1>1, Zenon DEF Min
<1> DEFINE m == Min(S)
<1>3. m \in S /\ x <= m /\ m <= x
  BY <1>2
<1> HIDE DEF m
<1>4. m \in Int /\ x \in Int
  BY <1>3
<1>5. m = x
  BY <1>3, <1>4
<1> QED BY <1>5 DEF m

\* The first of the earlier vectors does not depend on the later ones.
LEMMA FirstStays ==
  ASSUME NEW s, NEW r, NEW i \in Nat \ {0}, \A j \in 1 .. i : r[j] = s[j]
  PROVE  FirstIn(s, i) \in 1 .. i /\ FirstIn(r, i) = FirstIn(s, i)
<1> DEFINE S == {j \in 1 .. i : Traces[s[j]].agent = Traces[s[i]].agent}
<1>1. S = {j \in 1 .. i : Traces[r[j]].agent = Traces[r[i]].agent}
  <2>1. i \in 1 .. i
    OBVIOUS
  <2> QED BY <2>1
<1>2. S \in SUBSET Nat /\ i \in S /\ S \subseteq 1 .. i
  OBVIOUS
<1> HIDE DEF S
<1>3. PICK x \in S : \A y \in S : x <= y
  BY <1>2, LeastMember
<1>4. Min(S) = x
  <2>1. S \in SUBSET Int
    BY <1>2
  <2> QED BY <1>3, <2>1, MinIs
<1>5. FirstIn(s, i) = Min(S) /\ FirstIn(r, i) = Min(S)
  BY <1>1 DEF FirstIn, S
<1> QED BY <1>2, <1>4, <1>5

LEMMA DriftIs ==
  DriftIsAgainstTheFirst <=> \A i \in DOMAIN vectors : DriftAt(vectors, verdicts, i)
BY DEF DriftIsAgainstTheFirst, DriftAt, Drifted, FirstIn

LEMMA DriftStep ==
  ASSUME TypeOK, PlaceInv, VerdictsInv, VectorsInv, BaselineInv, DriftIsAgainstTheFirst, [Next]_vars
  PROVE  DriftIsAgainstTheFirst'
<1>0. \A i \in DOMAIN vectors : DriftAt(vectors, verdicts, i)
  BY DriftIs
<1>1. ASSUME \A i \in DOMAIN vectors' : DriftAt(vectors', verdicts', i)
      PROVE  DriftIsAgainstTheFirst'
  BY <1>1 DEF DriftIsAgainstTheFirst, DriftAt, Drifted, FirstIn
<1>2. CASE Quiet /\ UNCHANGED vectors
  BY <1>0, <1>1, <1>2 DEF Quiet
<1>3. ASSUME NEW h \in BOOLEAN, Chats(h), UNCHANGED vectors PROVE DriftIsAgainstTheFirst'
  <2>1. RecordOf(h).detector # "output_drift"
    BY <1>3 DEF Chats, Asking, Chatting, RecordOf
  <2>2. \A t : Drifted(verdicts', t) <=> Drifted(verdicts, t)
    BY <1>3, <2>1 DEF Chats, Drifted
  <2> QED BY <1>0, <1>1, <1>3, <2>2 DEF DriftAt
<1>4. CASE Embed
  <2>1. PICK a, n : a = Trace.agent /\ n = Len(vectors)
    OBVIOUS
  <2>2. /\ n \in Nat /\ DOMAIN vectors = 1 .. n /\ DOMAIN vectors' = 1 .. n + 1
        /\ vectors'[n + 1] = at.trace /\ AgentOf(n + 1)' = a
        /\ \A j \in 1 .. n : vectors'[j] = vectors[j] /\ vectors[j] # at.trace
        /\ a \in Agents
    BY <1>4, <2>1, NewVector
  <2>3. /\ Detector = "output_drift"
        /\ verdicts' = IF <<baseline[a], Drifting(Trace)>> \in Far
                       THEN verdicts \union {RecordOf(FALSE)} ELSE verdicts
        /\ RecordOf(FALSE).trace = at.trace /\ RecordOf(FALSE).detector = "output_drift"
    BY <1>4, <2>1, Embeds DEF RecordOf
  <2>4. ASSUME NEW i \in 1 .. n PROVE DriftAt(vectors', verdicts', i)
    <3>1. \A j \in 1 .. i : vectors'[j] = vectors[j]
      BY <2>2
    <3>2. FirstIn(vectors, i) \in 1 .. i /\ FirstIn(vectors', i) = FirstIn(vectors, i)
      <4>1. i \in Nat \ {0}
        BY <2>2
      <4> QED BY <3>1, <4>1, FirstStays
    <3>3. /\ vectors'[i] = vectors[i] /\ vectors[i] # at.trace
          /\ vectors'[FirstIn(vectors, i)] = vectors[FirstIn(vectors, i)]
      BY <2>2, <3>1, <3>2
    <3>4. Drifted(verdicts', vectors[i]) <=> Drifted(verdicts, vectors[i])
      BY <2>3, <3>3 DEF Drifted
    <3>5. DriftAt(vectors, verdicts, i)
      BY <1>0, <2>2
    <3> QED BY <3>2, <3>3, <3>4, <3>5 DEF DriftAt
  <2>5. DriftAt(vectors', verdicts', n + 1)
    <3>1. Drifted(verdicts', at.trace) <=> <<baseline[a], Drifting(Trace)>> \in Far
      <4>1. ~ Drifted(verdicts, at.trace)
        BY <2>3, NotLeft DEF Drifted, VerdictsInv
      <4> QED BY <2>3, <4>1 DEF Drifted
    <3> DEFINE S == {j \in 1 .. n + 1 : Traces[vectors'[j]].agent = a}
    <3>2. FirstIn(vectors', n + 1) = Min(S)
      BY <2>2 DEF FirstIn, AgentOf
    <3>3. S \in SUBSET Int /\ n + 1 \in S /\ \A j \in S : j = n + 1 \/ (j \in 1 .. n /\ AgentOf(j) = a)
      BY <2>2 DEF AgentOf
    <3>4. \A j \in 1 .. n : AgentOf(j) = a => j \in S
      BY <2>2 DEF AgentOf
    <3> HIDE DEF S
    <3>5. CASE baseline[a] = NoText
      <4>1. \A j \in 1 .. n : AgentOf(j) # a
        BY <2>2, <3>5 DEF BaselineInv
      <4>2. \A j \in S : n + 1 <= j
        BY <2>2, <3>3, <4>1
      <4>3. FirstIn(vectors', n + 1) = n + 1
        BY <3>2, <3>3, <4>2, MinIs
      <4>4. <<baseline[a], Drifting(Trace)>> \notin Far
        BY <3>5, SessionAssumption
      <4> QED BY <2>2, <3>1, <4>3, <4>4 DEF DriftAt
    <3>6. CASE baseline[a] # NoText
      <4>1. PICK m \in 1 .. n : /\ AgentOf(m) = a
                                /\ \A j \in 1 .. m - 1 : AgentOf(j) # a
                                /\ baseline[a] = Drifting(Traces[vectors[m]])
        BY <2>2, <3>6 DEF BaselineInv
      <4>2. \A j \in S : m <= j
        <5> TAKE j \in S
        <5>1. j = n + 1 \/ (j \in 1 .. n /\ j \notin 1 .. m - 1)
          BY <3>3, <4>1
        <5> QED BY <2>2, <5>1
      <4>3. m \in S
        BY <3>4, <4>1
      <4>4. FirstIn(vectors', n + 1) = m
        BY <3>2, <3>3, <4>2, <4>3, MinIs
      <4>5. m # n + 1 /\ vectors'[m] = vectors[m] /\ Traces[vectors'[n + 1]] = Trace
        BY <2>2 DEF Trace
      <4> QED BY <2>2, <3>1, <4>1, <4>4, <4>5 DEF DriftAt
    <3> QED BY <3>5, <3>6
  <2>6. \A i \in DOMAIN vectors' : i \in 1 .. n \/ i = n + 1
    BY <2>2
  <2> QED BY <1>1, <2>4, <2>5, <2>6
<1> QED BY <1>2, <1>3, <1>4, Records

-----------------------------------------------------------------------------
(* The accounts.                                                           *)

Balance == stats["cache_hits"] + stats["chat_calls"] + stats["embed_calls"] - stats["errors"]

\* What a statement counts.
LEMMA CountEffects ==
  ASSUME TypeOK
  PROVE  /\ Balance \in Int
         /\ Count(<<"cache_hits">>) => Balance' = Balance + 1
         /\ Count(<<"embed_calls">>) => Balance' = Balance + 1
         /\ Count(<<"embed_calls", "errors">>) => Balance' = Balance
         /\ Count(<<"cache_misses", "chat_calls">>) => Balance' = Balance + 1
         /\ Count(<<"cache_misses", "chat_calls", "errors">>) => Balance' = Balance
         /\ Count(<<"cache_misses", "chat_calls", "chat_calls", "errors">>) => Balance' = Balance + 1
<1>1. /\ stats["cache_hits"] \in Nat /\ stats["chat_calls"] \in Nat
      /\ stats["embed_calls"] \in Nat /\ stats["errors"] \in Nat
  BY DEF TypeOK, Counters
<1> DEFINE Times(c, x) == Cardinality({k \in DOMAIN c : c[k] = x})
<1>2. ASSUME NEW c, Count(c), NEW h \in Nat, NEW k \in Nat, NEW e \in Nat, NEW r \in Nat,
             Times(c, "cache_hits") = h, Times(c, "chat_calls") = k,
             Times(c, "embed_calls") = e, Times(c, "errors") = r
      PROVE  Balance' = Balance + h + k + e - r
  <2>1. \A x \in Counters : stats'[x] = stats[x] + Times(c, x)
    BY <1>2 DEF Count, TypeOK
  <2>2. /\ stats'["cache_hits"] = stats["cache_hits"] + h
        /\ stats'["chat_calls"] = stats["chat_calls"] + k
        /\ stats'["embed_calls"] = stats["embed_calls"] + e
        /\ stats'["errors"] = stats["errors"] + r
    BY <1>2, <2>1 DEF Counters
  <2> QED BY <1>1, <1>2, <2>2 DEF Balance
<1>3. Cardinality({}) = 0 /\ \A k : Cardinality({k}) = 1
  BY FS_EmptySet, FS_Singleton
<1>4. Cardinality({2, 3}) = 2
  <2>1. IsFiniteSet({2}) /\ Cardinality({2}) = 1
    BY FS_Singleton
  <2>2. Cardinality({2} \union {3}) = Cardinality({2}) + 1
    BY <2>1, FS_AddElement
  <2>3. {2} \union {3} = {2, 3}
    OBVIOUS
  <2> QED BY <2>1, <2>2, <2>3
<1>5. Balance \in Int
  BY <1>1 DEF Balance
<1> HIDE DEF Times
<1>6. ASSUME Count(<<"cache_hits">>) PROVE Balance' = Balance + 1
  <2> DEFINE c == <<"cache_hits">>
             Of(x) == {k \in DOMAIN c : c[k] = x}
  <2>1. /\ Of("cache_hits") = {1} /\ Of("chat_calls") = {}
        /\ Of("embed_calls") = {} /\ Of("errors") = {}
    OBVIOUS
  <2>2. /\ Times(c, "cache_hits") = 1 /\ Times(c, "chat_calls") = 0
        /\ Times(c, "embed_calls") = 0 /\ Times(c, "errors") = 0
    BY <1>3, <1>4, <2>1 DEF Times
  <2> HIDE DEF c
  <2>3. Balance' = Balance + 1 + 0 + 0 - 0
    BY <1>2, <1>6, <2>2 DEF c
  <2> QED BY <1>5, <2>3
<1>7. ASSUME Count(<<"embed_calls">>) PROVE Balance' = Balance + 1
  <2> DEFINE c == <<"embed_calls">>
             Of(x) == {k \in DOMAIN c : c[k] = x}
  <2>1. /\ Of("cache_hits") = {} /\ Of("chat_calls") = {}
        /\ Of("embed_calls") = {1} /\ Of("errors") = {}
    OBVIOUS
  <2>2. /\ Times(c, "cache_hits") = 0 /\ Times(c, "chat_calls") = 0
        /\ Times(c, "embed_calls") = 1 /\ Times(c, "errors") = 0
    BY <1>3, <1>4, <2>1 DEF Times
  <2> HIDE DEF c
  <2>3. Balance' = Balance + 0 + 0 + 1 - 0
    BY <1>2, <1>7, <2>2 DEF c
  <2> QED BY <1>5, <2>3
<1>8. ASSUME Count(<<"embed_calls", "errors">>) PROVE Balance' = Balance
  <2> DEFINE c == <<"embed_calls", "errors">>
             Of(x) == {k \in DOMAIN c : c[k] = x}
  <2>1. /\ Of("cache_hits") = {} /\ Of("chat_calls") = {}
        /\ Of("embed_calls") = {1} /\ Of("errors") = {2}
    OBVIOUS
  <2>2. /\ Times(c, "cache_hits") = 0 /\ Times(c, "chat_calls") = 0
        /\ Times(c, "embed_calls") = 1 /\ Times(c, "errors") = 1
    BY <1>3, <1>4, <2>1 DEF Times
  <2> HIDE DEF c
  <2>3. Balance' = Balance + 0 + 0 + 1 - 1
    BY <1>2, <1>8, <2>2 DEF c
  <2> QED BY <1>5, <2>3
<1>9. ASSUME Count(<<"cache_misses", "chat_calls">>) PROVE Balance' = Balance + 1
  <2> DEFINE c == <<"cache_misses", "chat_calls">>
             Of(x) == {k \in DOMAIN c : c[k] = x}
  <2>1. /\ Of("cache_hits") = {} /\ Of("chat_calls") = {2}
        /\ Of("embed_calls") = {} /\ Of("errors") = {}
    OBVIOUS
  <2>2. /\ Times(c, "cache_hits") = 0 /\ Times(c, "chat_calls") = 1
        /\ Times(c, "embed_calls") = 0 /\ Times(c, "errors") = 0
    BY <1>3, <1>4, <2>1 DEF Times
  <2> HIDE DEF c
  <2>3. Balance' = Balance + 0 + 1 + 0 - 0
    BY <1>2, <1>9, <2>2 DEF c
  <2> QED BY <1>5, <2>3
<1>10. ASSUME Count(<<"cache_misses", "chat_calls", "errors">>) PROVE Balance' = Balance
  <2> DEFINE c == <<"cache_misses", "chat_calls", "errors">>
             Of(x) == {k \in DOMAIN c : c[k] = x}
  <2>1. /\ Of("cache_hits") = {} /\ Of("chat_calls") = {2}
        /\ Of("embed_calls") = {} /\ Of("errors") = {3}
    OBVIOUS
  <2>2. /\ Times(c, "cache_hits") = 0 /\ Times(c, "chat_calls") = 1
        /\ Times(c, "embed_calls") = 0 /\ Times(c, "errors") = 1
    BY <1>3, <1>4, <2>1 DEF Times
  <2> HIDE DEF c
  <2>3. Balance' = Balance + 0 + 1 + 0 - 1
    BY <1>2, <1>10, <2>2 DEF c
  <2> QED BY <1>5, <2>3
<1>11. ASSUME Count(<<"cache_misses", "chat_calls", "chat_calls", "errors">>) PROVE Balance' = Balance + 1
  <2> DEFINE c == <<"cache_misses", "chat_calls", "chat_calls", "errors">>
             Of(x) == {k \in DOMAIN c : c[k] = x}
  <2>1. /\ Of("cache_hits") = {} /\ Of("chat_calls") = {2, 3}
        /\ Of("embed_calls") = {} /\ Of("errors") = {4}
    OBVIOUS
  <2>2. /\ Times(c, "cache_hits") = 0 /\ Times(c, "chat_calls") = 2
        /\ Times(c, "embed_calls") = 0 /\ Times(c, "errors") = 1
    BY <1>3, <1>4, <2>1 DEF Times
  <2> HIDE DEF c
  <2>3. Balance' = Balance + 0 + 2 + 0 - 1
    BY <1>2, <1>11, <2>2 DEF c
  <2> QED BY <1>5, <2>3
<1> QED BY <1>5, <1>6, <1>7, <1>8, <1>9, <1>10, <1>11

\* An answer is kept for a prompt that had none, unless the cache is not used.
LEMMA KeepStep ==
  ASSUME TypeOK, PlaceInv, CachesAreFinite, Asking, ~Cached, NEW a \in Replies, Keep(a)
  PROVE  /\ IsFiniteSet(Known')
         /\ NoCache \/ Cardinality(Known') = Cardinality(Known) + 1
<1>1. Prompt \in Prompts
  BY PromptType
<1>2. Known' = Known \union {Prompt}
  BY <1>1 DEF Keep, Known, TypeOK, Replies
<1>3. NoCache \/ Prompt \notin Known
  BY DEF Cached, Known
<1>4. IsFiniteSet(Known)
  BY DEF CachesAreFinite
<1> QED BY <1>2, <1>3, <1>4, FS_AddElement

\* Every statement of the client counts what it does.
LEMMA AccountsStep ==
  ASSUME TypeOK, PlaceInv, VerdictsInv, CachesAreFinite, AccountsBalance, [Next]_vars
  PROVE  CachesAreFinite' /\ AccountsBalance'
<1> DEFINE n == Len(telemetry)
           e == Cardinality(embedded)
<1>1. /\ n \in Nat /\ e \in Nat /\ responses \in Nat
      /\ IsFiniteSet(embedded) /\ IsFiniteSet(Known)
  BY FS_CardinalityType DEF VerdictsInv, CachesAreFinite, TypeOK
<1>2. n = Balance - e
  <2>1. /\ stats["cache_hits"] \in Nat /\ stats["chat_calls"] \in Nat
        /\ stats["embed_calls"] \in Nat /\ stats["errors"] \in Nat
    BY DEF TypeOK, Counters
  <2>2. n + stats["errors"] = stats["cache_hits"] + stats["chat_calls"] + stats["embed_calls"] - e
    BY DEF AccountsBalance
  <2>3. \A h, k, m, r, x, y \in Int : x + r = h + k + m - y => x = (h + k + m - r) - y
    OBVIOUS
  <2>4. n \in Int /\ e \in Int
    BY <1>1
  <2> HIDE DEF n, e
  <2> QED BY <2>1, <2>2, <2>3, <2>4 DEF Balance
<1>3. ASSUME Len(telemetry') = Balance' - Cardinality(embedded'),
             Len(telemetry') \in Int, Cardinality(embedded') \in Int,
             IsFiniteSet(embedded'), IsFiniteSet(Known'),
             NoCache \/ responses' = Cardinality(Known')
      PROVE  CachesAreFinite' /\ AccountsBalance'
  <2>1. TypeOK'
    BY TypeStep
  <2>2. /\ stats'["cache_hits"] \in Nat /\ stats'["chat_calls"] \in Nat
        /\ stats'["embed_calls"] \in Nat /\ stats'["errors"] \in Nat
    BY <2>1 DEF TypeOK, Counters
  <2> DEFINE m == Len(telemetry')
             f == Cardinality(embedded')
  <2>3. m = Balance' - f /\ m \in Int /\ f \in Int
    BY <1>3
  <2> HIDE DEF m, f
  <2>4. m + stats'["errors"] = stats'["cache_hits"] + stats'["chat_calls"] + stats'["embed_calls"] - f
    BY <2>2, <2>3 DEF Balance
  <2> USE DEF m, f
  <2>5. Known' = {p \in Prompts : cache'[p] # "none"}
    BY DEF Known
  <2> QED BY <1>3, <2>4, <2>5 DEF CachesAreFinite, AccountsBalance
<1>4. Balance \in Int
  BY CountEffects
<1>5. NoCache \/ responses = Cardinality(Known)
  BY DEF AccountsBalance, Known
<1>6. ASSUME NEW h, Telemetry(h) PROVE Len(telemetry') = n + 1
  BY <1>6 DEF Telemetry, VerdictsInv
<1> HIDE DEF n, e
<1>7. CASE AskCached
  <2>1. Len(telemetry') = n + 1 /\ Balance' = Balance + 1
    BY <1>6, <1>7, CountEffects DEF AskCached
  <2>2. UNCHANGED <<embedded, responses>> /\ Known' = Known
    BY <1>7 DEF AskCached, Known
  <2> QED BY <1>1, <1>2, <1>3, <1>4, <1>5, <2>1, <2>2 DEF e
<1>8. CASE AskAnswered \/ LogFails
  <2>1. Len(telemetry') = n + 1 /\ Balance' = Balance + 1
    BY <1>6, <1>8, CountEffects DEF AskAnswered, LogFails
  <2>2. UNCHANGED embedded /\ responses' = responses + 1
    BY <1>8 DEF AskAnswered, LogFails
  <2>3. \E a \in Replies : Keep(a)
    BY <1>8 DEF AskAnswered, LogFails, Replies
  <2>4. Asking /\ ~Cached
    BY <1>8 DEF AskAnswered, LogFails
  <2>5. IsFiniteSet(Known') /\ (NoCache \/ Cardinality(Known') = Cardinality(Known) + 1)
    BY <2>3, <2>4, KeepStep
  <2> QED BY <1>1, <1>2, <1>3, <1>4, <1>5, <2>1, <2>2, <2>5 DEF e
<1>9. CASE AskEmpty
  <2>1. Len(telemetry') = n + 1 /\ Balance' = Balance + 1
    BY <1>6, <1>9, CountEffects DEF AskEmpty
  <2>2. UNCHANGED <<embedded, responses>> /\ Known' = Known
    BY <1>9 DEF AskEmpty, Known
  <2> QED BY <1>1, <1>2, <1>3, <1>4, <1>5, <2>1, <2>2 DEF e
<1>10. CASE AskFails
  <2>1. Len(telemetry') = n /\ Balance' = Balance
    BY <1>10, CountEffects DEF AskFails, n
  <2>2. UNCHANGED <<embedded, responses>> /\ Known' = Known
    BY <1>10 DEF AskFails, Known
  <2> QED BY <1>1, <1>2, <1>3, <1>4, <1>5, <2>1, <2>2 DEF e
<1>11. CASE EmbedFails
  <2>1. Len(telemetry') = n /\ Balance' = Balance
    BY <1>11, CountEffects DEF EmbedFails, n
  <2>2. UNCHANGED <<embedded, responses>> /\ Known' = Known
    BY <1>11 DEF EmbedFails, Known
  <2> QED BY <1>1, <1>2, <1>3, <1>4, <1>5, <2>1, <2>2 DEF e
<1>12. CASE Embed
  <2>1. Len(telemetry') = n /\ UNCHANGED responses /\ Known' = Known
    BY <1>12 DEF Embed, Known, n
  <2>2. CASE Drifting(Trace) \in embedded
    <3>1. UNCHANGED <<embedded, stats>>
      BY <1>12, <2>2 DEF Embed
    <3>2. Balance' = Balance
      BY <3>1 DEF Balance
    <3> QED BY <1>1, <1>2, <1>3, <1>4, <1>5, <2>1, <3>1, <3>2 DEF e
  <2>3. CASE Drifting(Trace) \notin embedded
    <3>1. embedded' = embedded \union {Drifting(Trace)} /\ Count(<<"embed_calls">>)
      BY <1>12, <2>3 DEF Embed
    <3>2. IsFiniteSet(embedded') /\ Cardinality(embedded') = e + 1
      BY <1>1, <2>3, <3>1, FS_AddElement DEF e
    <3>3. Balance' = Balance + 1
      BY <3>1, CountEffects
    <3> QED BY <1>1, <1>2, <1>3, <1>4, <1>5, <2>1, <3>2, <3>3
  <2> QED BY <2>2, <2>3
<1>13. CASE BeginDetector \/ UNCHANGED vars
  <2>1. UNCHANGED <<telemetry, embedded, responses, stats, cache>>
    BY <1>13 DEF BeginDetector, client, vars
  <2>2. Known' = Known /\ Balance' = Balance
    BY <2>1 DEF Known, Balance
  <2> QED BY <1>1, <1>2, <1>3, <1>4, <1>5, <2>1, <2>2 DEF n, e
<1> QED BY <1>7, <1>8, <1>9, <1>10, <1>11, <1>12, <1>13 DEF Next

-----------------------------------------------------------------------------
(* The invariant.                                                          *)

LEMMA InitIInv == ASSUME Init PROVE IInv
<1>1. TypeOK /\ GivenInv
  BY InitInv
<1>2. PlaceInv /\ VectorsInv /\ BaselineInv
  BY DEF Init, At, PlaceInv, VectorsInv, BaselineInv
<1>3. VerdictsInv /\ Attributed /\ DriftIsAgainstTheFirst
  BY DEF Init, VerdictsInv, Attributed, DriftIsAgainstTheFirst
<1>4. Known = {} /\ embedded = {} /\ Len(telemetry) = 0 /\ responses = 0
  BY DEF Init, Known
<1>5. CachesAreFinite
  BY <1>4, FS_EmptySet DEF CachesAreFinite
<1>6. AccountsBalance
  <2>1. /\ stats["cache_hits"] = 0 /\ stats["chat_calls"] = 0
        /\ stats["embed_calls"] = 0 /\ stats["errors"] = 0
    BY DEF Init, Counters
  <2>2. Cardinality(Known) = 0 /\ Cardinality(embedded) = 0
    BY <1>4, FS_EmptySet
  <2>3. Known = {p \in Prompts : cache[p] # "none"}
    BY DEF Known
  <2>4. Len(telemetry) + stats["errors"] =
          stats["cache_hits"] + stats["chat_calls"] + stats["embed_calls"] - Cardinality(embedded)
    BY <1>4, <2>1, <2>2
  <2> QED BY <1>4, <2>2, <2>3, <2>4 DEF AccountsBalance
<1> QED BY <1>1, <1>2, <1>3, <1>5, <1>6 DEF IInv

\* The invariant of LLMSession.
THEOREM Invariance == Spec => []IInv
<1>1. Init => IInv
  BY InitIInv
<1>2. IInv /\ [Next]_vars => IInv'
  BY TypeStep, GivenStep, PlaceStep, VerdictsStep, VectorsStep, BaselineStep, AccountsStep,
     AttributedStep, DriftStep DEF IInv
<1> QED BY <1>1, <1>2, PTL DEF Spec

\* Every variable of a session has its type.
THEOREM TypeCorrect == Spec => []TypeOK
<1>1. IInv => TypeOK
  BY DEF IInv
<1> QED BY <1>1, Invariance, PTL

\* In any session with the cache a prompt gets one answer, the one in the cache
\* (llm_client.py:209-231).
THEOREM SamePromptSameAnswerCorrect == Spec => []SamePromptSameAnswer
<1>1. IInv => SamePromptSameAnswer
  <2> SUFFICES ASSUME IInv, ~NoCache, NEW p \in Prompts
               PROVE  Cardinality(given[p]) <= 1 /\ given[p] \subseteq {cache[p]}
    BY DEF SamePromptSameAnswer
  <2>1. given[p] = {} \/ given[p] = {cache[p]}
    BY DEF IInv, GivenInv
  <2>2. Cardinality({}) = 0 /\ Cardinality({cache[p]}) = 1
    BY FS_EmptySet, FS_Singleton
  <2> QED BY <2>1, <2>2
<1> QED BY <1>1, Invariance, PTL

\* Whatever fails, the counters of the client account for its records, its
\* vectors and its cache (llm_client.py:208-355).
THEOREM AccountsBalanceCorrect == Spec => []AccountsBalance
<1>1. IInv => AccountsBalance
  BY DEF IInv
<1> QED BY <1>1, Invariance, PTL

\* However many traces are examined, every record of the shared client is of the
\* detector that asked, and every verdict has the flag of its own last chat
\* (validator.py:284-296, llm.py:285).
THEOREM AttributedCorrect == Spec => []Attributed
<1>1. IInv => Attributed
  BY DEF IInv
<1> QED BY <1>1, Invariance, PTL

\* For any agents and any embeddings that fail, an output has drifted when it is
\* far from the first one of its agent that got a vector (llm.py:158-170).
THEOREM DriftIsAgainstTheFirstCorrect == Spec => []DriftIsAgainstTheFirst
<1>1. IInv => DriftIsAgainstTheFirst
  BY DEF IInv
<1> QED BY <1>1, Invariance, PTL
=============================================================================
