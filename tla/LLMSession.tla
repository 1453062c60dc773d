------------------------------ MODULE LLMSession ------------------------------
(***************************************************************************)
(* A validation with a language model: for the first traces that the rules *)
(* found something in, the validator runs six detectors one after another  *)
(* (validator.py:267-311) that put questions to the model (detectors/      *)
(* llm.py) through one client with a cache and counters (llm_client.py).   *)
(*                                                                         *)
(* A step is one question or one embedding.  The model is external: it     *)
(* answers the same question differently each time, with an object of the  *)
(* wrong types, with nothing, or not at all.  A prompt holds texts that    *)
(* were cleaned and cut off, so different texts may give the same prompt.  *)
(***************************************************************************)
EXTENDS Integers, Sequences, FiniteSets, SequencesExt

CONSTANTS
  Traces,     \* the traces with a rule anomaly, in the order they are examined
  Clean,      \* what remains of a text in a prompt
  Far,        \* the pairs of texts whose embeddings are a drift apart
  NoText,     \* a text that is not there
  Filler,     \* the text that stands for a missing output
  NoCache,    \* llm_no_cache
  Disabled,   \* detectors that are disabled
  LLMSample,  \* how many traces are examined
  MaxFaults   \* bound on the answers of the model that are no use

Detectors == <<"output_drift", "semantic_loop", "hallucination", "goal_drift",
               "quality_degradation", "confusion_pattern">>

\* The texts of spans are collected in lists.  Far compares texts: what is not
\* there has no embedding.
ASSUME SessionAssumption ==
  /\ Traces \in Seq(ToSet(Traces))
  /\ \A t \in ToSet(Traces) : \A s \in {t.outputs, t.responses, t.agentOutputs} : s \in Seq(ToSet(s))
  /\ \A pair \in Far : pair[1] # NoText
  /\ NoCache \in BOOLEAN
  /\ LLMSample \in Nat /\ MaxFaults \in Nat
  /\ NoText # Filler

VARIABLES
  at,         \* trace, detector and question, by number
  cache,      \* _cache: the answer to a prompt, or "none"
  embedded,   \* _cache: the texts with a vector
  baseline,   \* _baselines: the text of an agent's baseline, or NoText
  stats,      \* _stats
  telemetry,  \* _telemetry
  responses,  \* the length of _responses, which the log file repeats
  context,    \* _trace_context: a trace and a detector
  hit,        \* last_cache_hit
  attempts,   \* llm_detector_attempts.jsonl
  verdicts,   \* the anomalies found
  given,      \* the answers each prompt got (a history variable)
  vectors,    \* the traces whose output got a vector (a history variable)
  faults

client == <<cache, embedded, stats, telemetry, responses, hit>>
vars == <<at, cache, embedded, baseline, stats, telemetry, responses, context,
          hit, attempts, verdicts, given, vectors, faults>>

-----------------------------------------------------------------------------
(***************************************************************************)
(* The questions of the detectors: the two texts they compare, each joined *)
(* from a sequence of texts.                                               *)
(***************************************************************************)
Pair(a, b) == << <<a>>, <<b>> >>

FirstOf(n, s) == SubSeq(s, 1, Min({n, Len(s)}))

\* SemanticLoopDetector: of the pairs of consecutive outputs at most three, a
\* step apart.
Pairs(outputs) ==
  LET o    == IF Len(outputs) < 2 THEN Append(outputs, Filler) ELSE outputs
      step == Max({1, Len(o) \div 3})
      n    == (Len(o) - 2) \div step + 1
  IN  [i \in 1 .. Min({3, n}) |-> Pair(o[(i - 1) * step + 1], o[(i - 1) * step + 2])]

\* HallucinationDetector: the first three claims, in the context of the tools.
Claims(t) ==
  LET claims == IF t.responses # << >> THEN t.responses
                ELSE IF t.agentOutputs # << >> THEN t.agentOutputs
                ELSE IF t.output # NoText THEN <<t.output>> ELSE <<Filler>>
  IN  [i \in DOMAIN FirstOf(3, claims) |-> << <<claims[i]>>, FirstOf(5, t.results) >>]

\* GoalDriftDetector: the goal and the last action.
LastAction(t) ==
  IF t.goal = NoText \/ t.actions = << >> THEN << >> ELSE <<Pair(t.goal, Last(t.actions))>>

\* QualityDegradationDetector: the baseline, by default the first of several
\* outputs, and the first output.
Outputs(t) ==
  LET base == IF t.baseline # NoText THEN t.baseline
              ELSE IF Len(t.responses) >= 2 THEN t.responses[1] ELSE NoText
  IN  IF t.responses = << >> \/ base = NoText THEN << >> ELSE <<Pair(base, t.responses[1])>>

\* ConfusionPatternDetector: the plan and the tools that were called.
Execution(t) ==
  IF t.plan = NoText \/ t.execution = << >> THEN << >> ELSE << << <<t.plan>>, FirstOf(10, t.execution) >> >>

Texts(t, d) ==
  CASE d = "semantic_loop"       -> Pairs(t.outputs)
    [] d = "hallucination"       -> Claims(t)
    [] d = "goal_drift"          -> LastAction(t)
    [] d = "quality_degradation" -> Outputs(t)
    [] d = "confusion_pattern"   -> Execution(t)

\* The cache key: the system prompt is the detector's.
Key(d, pair) ==
  <<d, [i \in DOMAIN pair[1] |-> Clean[pair[1][i]]], [i \in DOMAIN pair[2] |-> Clean[pair[2][i]]]>>

Chatting == ToSet(Detectors) \ {"output_drift"}

Questions(t, d) == [i \in DOMAIN Texts(t, d) |-> Key(d, Texts(t, d)[i])]

Prompts == UNION {ToSet(Questions(t, d)) : t \in ToSet(Traces), d \in Chatting}

Drifting(t) == IF t.output = NoText THEN Filler ELSE t.output

-----------------------------------------------------------------------------
(***************************************************************************)
(* The validator's loop.                                                   *)
(***************************************************************************)
At(t, d, q) == [trace |-> t, detector |-> d, question |-> q]

Examining == at.trace <= Min({Len(Traces), LLMSample})
Trace == Traces[at.trace]
Detector == Detectors[at.detector]
Asking == Examining /\ at.question > 0 /\ Detector \in Chatting
Embedding == Examining /\ at.question > 0 /\ Detector = "output_drift"
Prompt == Questions(Trace, Detector)[at.question]

\* The next detector of this trace, or the first of the next trace.
NextDetector ==
  IF at.detector < Len(Detectors)
  THEN At(at.trace, at.detector + 1, 0) ELSE At(at.trace + 1, 1, 0)

NextQuestion ==
  IF at.question < Len(Questions(Trace, Detector))
  THEN At(at.trace, at.detector, at.question + 1) ELSE NextDetector

Asks(t, d) == d = "output_drift" \/ Questions(t, d) # << >>

\* Faulty variant of SetContext: the context is set once for a trace.
SetContextOnce == context' = IF at.detector = 1 THEN <<at.trace, Detector>> ELSE context

SetContext == context' = <<at.trace, Detector>>

BeginDetector ==
  /\ Examining /\ at.question = 0
  /\ \/ /\ Detector \in Disabled
        /\ at' = NextDetector
        /\ UNCHANGED <<context, attempts>>
     \/ /\ Detector \notin Disabled
        /\ SetContext
        /\ attempts' = attempts \union {<<at.trace, Detector>>}
        /\ at' = IF Asks(Trace, Detector) THEN At(at.trace, at.detector, 1) ELSE NextDetector
  /\ UNCHANGED <<client, baseline, verdicts, given, vectors, faults>>

-----------------------------------------------------------------------------
(***************************************************************************)
(* A question to the model.                                                *)
(***************************************************************************)
Count(counters) ==
  stats' = [c \in DOMAIN stats |-> stats[c] + Cardinality({k \in DOMAIN counters : counters[k] = c})]

Telemetry(cached) ==
  telemetry' = Append(telemetry, [trace |-> context[1], detector |-> context[2], hit |-> cached])

\* Faulty variant of Conclude: an exception of a detector ends the session.
ConcludeUncaught(a, cached) ==
  /\ given' = [given EXCEPT ![Prompt] = @ \union {a}]
  /\ verdicts' = IF a # "yes" THEN verdicts
                 ELSE verdicts \union {[trace |-> at.trace, detector |-> Detector, hit |-> cached]}
  /\ at' = CASE a = "yes" -> NextDetector
              [] a = "odd" /\ Detector = "semantic_loop" -> At(Len(Traces) + 1, 1, 0)
              [] OTHER -> NextQuestion

\* What the detector makes of an answer.  A similarity that is no number raises
\* an exception that only the validator catches; the other detectors read no
\* number, and take every answer that is no JSON object for a no.
Conclude(a, cached) ==
  /\ given' = [given EXCEPT ![Prompt] = @ \union {a}]
  /\ verdicts' = IF a # "yes" THEN verdicts
                 ELSE verdicts \union {[trace |-> at.trace, detector |-> Detector, hit |-> cached]}
  /\ at' = IF a = "yes" \/ (a = "odd" /\ Detector = "semantic_loop") THEN NextDetector
           ELSE NextQuestion

Cached == ~NoCache /\ cache[Prompt] # "none"

AskCached ==
  /\ Asking /\ Cached
  /\ Count(<<"cache_hits">>)
  /\ hit' = TRUE
  /\ Telemetry(TRUE)
  /\ Conclude(cache[Prompt], hit')
  /\ UNCHANGED <<cache, embedded, responses, baseline, context, attempts, vectors, faults>>

\* Faulty variant of Keep: the answer is not put in the cache.
KeepNothing(a) == cache' = cache

Keep(a) == cache' = [cache EXCEPT ![Prompt] = a]

AskAnswered ==
  /\ Asking /\ ~Cached
  /\ hit' = FALSE
  /\ Telemetry(FALSE)
  /\ \E a \in {"yes", "no", "odd"} :
       /\ Keep(a)
       /\ responses' = responses + 1
       /\ Count(<<"cache_misses", "chat_calls">>)
       /\ Conclude(a, hit')
  /\ UNCHANGED <<embedded, baseline, context, attempts, vectors, faults>>

\* A reply without text is a call, and no answer.
AskEmpty ==
  /\ Asking /\ ~Cached /\ faults < MaxFaults
  /\ faults' = faults + 1
  /\ hit' = FALSE
  /\ Telemetry(FALSE)
  /\ Count(<<"cache_misses", "chat_calls">>)
  /\ at' = NextQuestion
  /\ UNCHANGED <<cache, embedded, responses, baseline, context, attempts, verdicts, given, vectors>>

\* Faulty variant of AskFails: a failed call is not counted as a call.
AskFailsUncounted ==
  /\ Asking /\ ~Cached /\ faults < MaxFaults
  /\ faults' = faults + 1
  /\ hit' = FALSE
  /\ Count(<<"cache_misses", "errors">>)
  /\ at' = NextQuestion
  /\ UNCHANGED <<cache, embedded, responses, telemetry, baseline, context, attempts,
                 verdicts, given, vectors>>

\* The server is down, or too slow.
AskFails ==
  /\ Asking /\ ~Cached /\ faults < MaxFaults
  /\ faults' = faults + 1
  /\ hit' = FALSE
  /\ Count(<<"cache_misses", "chat_calls", "errors">>)
  /\ at' = NextQuestion
  /\ UNCHANGED <<cache, embedded, responses, telemetry, baseline, context, attempts,
                 verdicts, given, vectors>>

\* The model answers, and the log file cannot be written: the answer is kept,
\* the call is counted again as a failed one, and the detector gets nothing.
LogFails ==
  /\ Asking /\ ~Cached /\ faults < MaxFaults
  /\ faults' = faults + 1
  /\ hit' = FALSE
  /\ Telemetry(FALSE)
  /\ \E a \in {"yes", "no", "odd"} : Keep(a)
  /\ responses' = responses + 1
  /\ Count(<<"cache_misses", "chat_calls", "chat_calls", "errors">>)
  /\ at' = NextQuestion
  /\ UNCHANGED <<embedded, baseline, context, attempts, verdicts, given, vectors>>

-----------------------------------------------------------------------------
(***************************************************************************)
(* Drift of an agent's output: the vector is compared with the first one   *)
(* of the agent in this session.                                           *)
(***************************************************************************)
\* Faulty variant of Compare: the agents share a baseline.
CompareAcrossAgents ==
  /\ baseline' = [a \in DOMAIN baseline |->
                    IF baseline[a] = NoText THEN Drifting(Trace) ELSE baseline[a]]
  /\ verdicts' = IF <<baseline[Trace.agent], Drifting(Trace)>> \in Far
                 THEN verdicts \union {[trace |-> at.trace, detector |-> Detector, hit |-> FALSE]}
                 ELSE verdicts

Compare ==
  /\ baseline' = [baseline EXCEPT ![Trace.agent] = IF @ = NoText THEN Drifting(Trace) ELSE @]
  /\ verdicts' = IF <<baseline[Trace.agent], Drifting(Trace)>> \in Far
                 THEN verdicts \union {[trace |-> at.trace, detector |-> Detector, hit |-> FALSE]}
                 ELSE verdicts

\* A vector is kept whatever no_cache says, and a hit is counted nowhere.
Embed ==
  /\ Embedding
  /\ IF Drifting(Trace) \in embedded THEN UNCHANGED <<embedded, stats>>
     ELSE /\ embedded' = embedded \union {Drifting(Trace)}
          /\ Count(<<"embed_calls">>)
  /\ vectors' = Append(vectors, at.trace)
  /\ Compare
  /\ at' = NextDetector
  /\ UNCHANGED <<cache, telemetry, responses, hit, context, attempts, given, faults>>

EmbedFails ==
  /\ Embedding /\ Drifting(Trace) \notin embedded /\ faults < MaxFaults
  /\ faults' = faults + 1
  /\ Count(<<"embed_calls", "errors">>)
  /\ at' = NextDetector
  /\ UNCHANGED <<cache, embedded, telemetry, responses, hit, baseline, context, attempts,
                 verdicts, given, vectors>>

-----------------------------------------------------------------------------
Counters == {"chat_calls", "embed_calls", "errors", "cache_hits", "cache_misses"}
Agents == {t.agent : t \in ToSet(Traces)}

Init ==
  /\ at = At(1, 1, 0)
  /\ cache = [p \in Prompts |-> "none"] /\ embedded = {}
  /\ baseline = [a \in Agents |-> NoText]
  /\ stats = [c \in Counters |-> 0]
  /\ telemetry = << >> /\ responses = 0 /\ hit = FALSE
  /\ context = <<0, "none">> /\ attempts = {} /\ verdicts = {}
  /\ given = [p \in Prompts |-> {}] /\ vectors = << >> /\ faults = 0

Next ==
  \/ BeginDetector
  \/ AskCached \/ AskAnswered \/ AskEmpty \/ AskFails \/ LogFails
  \/ Embed \/ EmbedFails

\* One process awaits each call, and a call ends by its timeout at the latest
\* (llm_client.py:151).
Spec == Init /\ [][Next]_vars /\ WF_vars(Next)

-----------------------------------------------------------------------------
\* Every variable has its type.
TypeOK ==
  /\ at \in [trace : Nat \ {0}, detector : 1 .. Len(Detectors), question : Nat]
  /\ cache \in [Prompts -> {"none", "yes", "no", "odd"}]
  /\ embedded \subseteq {Drifting(t) : t \in ToSet(Traces)}
  /\ baseline \in [Agents -> embedded \union {NoText}]
  /\ stats \in [Counters -> Nat]
  /\ hit \in BOOLEAN /\ responses \in Nat
  /\ given \in [Prompts -> SUBSET {"yes", "no", "odd"}]
  /\ faults \in 0 .. MaxFaults

\* Within a session one prompt has one answer, whichever trace and detector
\* asks, although the model answers differently each time, fails in between, or
\* its answer was never delivered (llm_client.py:209-231, :295); only no_cache
\* asks again.
SamePromptSameAnswer ==
  ~NoCache => \A p \in Prompts : Cardinality(given[p]) <= 1 /\ given[p] \subseteq {cache[p]}

\* The counters of the report account for each other: every chat that was not
\* an error left a record, every vector was paid once, and with the cache every
\* response is the answer to another prompt.  A miss is not a call: an answer
\* that could not be logged is one miss and two calls (llm_client.py:313-319).
AccountsBalance ==
  /\ Len(telemetry) + stats["errors"] =
       stats["cache_hits"] + stats["chat_calls"] + stats["embed_calls"] - Cardinality(embedded)
  /\ NoCache \/ responses = Cardinality({p \in Prompts : cache[p] # "none"})

\* What is recorded belongs to the detector that asked: every chat of the
\* telemetry is of an attempt that was logged, and every verdict's cache flag is
\* that of the last chat of its own trace and detector, although all detectors
\* share one client and its last_cache_hit is read after the answer was awaited
\* (validator.py:284-296, llm.py:285).
Attributed ==
  /\ \A i \in DOMAIN telemetry : <<telemetry[i].trace, telemetry[i].detector>> \in attempts
  /\ \A v \in verdicts :
       v.detector \in Chatting =>
         \E i \in DOMAIN telemetry :
           /\ telemetry[i] = v
           /\ \A j \in i + 1 .. Len(telemetry) :
                <<telemetry[j].trace, telemetry[j].detector>> # <<v.trace, v.detector>>

\* An output has drifted when it is far from the first output of the same agent
\* that got a vector in this session, whatever failed before or came between
\* (llm.py:158-170).
DriftIsAgainstTheFirst ==
  \A i \in DOMAIN vectors :
    LET t     == Traces[vectors[i]]
        first == Min({j \in 1 .. i : Traces[vectors[j]].agent = t.agent})
    IN  (\E v \in verdicts : v.trace = vectors[i] /\ v.detector = "output_drift") <=>
          /\ first # i
          /\ <<Drifting(Traces[vectors[first]]), Drifting(t)>> \in Far

\* Whatever the model answers, with or without the server, every trace of the
\* sample is examined by every enabled detector (validator.py:306, llm_client.py:316).
EndsWhateverTheModelAnswers ==
  <>(/\ ~Examining
     /\ attempts = (1 .. Min({Len(Traces), LLMSample})) \X (ToSet(Detectors) \ Disabled))
=============================================================================
