-------------------------- MODULE ValidationProofs --------------------------
(***************************************************************************)
(* Proofs about Validator and about TraceTrees.                            *)
(*                                                                         *)
(* Validator: for any traces, detectors, interval and number of kills,     *)
(* progress.json is honest, a run that ends has examined and recorded      *)
(* the key of every trace it read, a trace is examined again only for a    *)
(* reason, and the reports lie between the counters.                       *)
(*                                                                         *)
(* TraceTrees: for any corpus and limit, the conversion, the file and the  *)
(* forests built from it agree, a row loses nothing but cycles, and a      *)
(* diagnosis counts what it read, and reports of it what was converted.    *)
(***************************************************************************)
EXTENDS Validator, TraceTrees, Sums, SequenceTheorems

-----------------------------------------------------------------------------
(* Validator: the invariant.                                               *)

Running == pc \in {"loop", "save", "write"}

\* The keys that are safe from being examined again: in memory while a run goes
\* on, in the file otherwise.
Kept == IF Running THEN completed ELSE LoadProgress

\* What is known of the keys: the completed ones were examined, so were those
\* in the file (also while it is being rewritten), and a key that is not kept
\* was examined once less than ExaminedAgainForAReason allows.
KeysInv ==
  /\ \A k \in completed \cup progress : times[k] > 0
  /\ \A k \in Keys : times[k] <= scratch + faults + (IF k \in Kept THEN 1 ELSE 0)

\* What is known of a run: the traces behind it are completed, the report is
\* written when none is ahead, and at the end the file holds what memory holds.
RunInv ==
  /\ Running \/ pc = "done" => \A i \in seen \ todo : Key[i] \in completed
  /\ report # None => todo = {}
  /\ pc = "loop" => report = None
  /\ pc = "done" => todo = {} /\ ~broken /\ progress = completed

\* The first trace of each key among those the run reads.
FirstRows == {i \in seen : \A j \in seen : Key[j] = Key[i] => i <= j}

\* What is known of the traces behind a run: they come before those ahead, each
\* was counted, and a run without --resume knows only their keys and has
\* examined the first trace of each.
RowsInv ==
  Running \/ pc = "done" =>
    /\ \A i \in seen \ todo, j \in todo : i < j
    /\ processed = Cardinality(seen \ todo)
    /\ ~resuming => /\ looked = FirstRows \ todo
                    /\ completed = {Key[i] : i \in seen \ todo}
    /\ report # None => report.processed = processed
    /\ pc = "done" => report # None

IInv == TypeOK /\ KeysInv /\ RunInv /\ RowsInv /\ CountersBracketReports

-----------------------------------------------------------------------------
(* Lemmas about the operators.                                             *)

\* The keys are finitely many, and so are the completed ones.
LEMMA FiniteKeys ==
  ASSUME NEW S \in SUBSET Keys
  PROVE  Cardinality(S) \in Nat
<1>1. IsFiniteSet(Keys)
  <2>1. [i \in Items |-> Key[i]] \in Surjection(Items, Keys)
    BY DEF Surjection, Keys
  <2>2. QED
    BY <2>1, FS_Surjection, ValidatorAssumption
<1>2. QED
  BY <1>1, FS_Subset, FS_CardinalityType

\* What one trace adds to the list of anomalies: at most two of a type, and at
\* most one of the types that only rule-based detectors report.
LEMMA FiredType ==
  ASSUME NEW i \in Items, NEW llm \in SUBSET LlmTypes
  PROVE  /\ Fired(i, llm) \in [Types -> Nat]
         /\ \A t \in Types \ LlmTypes : Fired(i, llm)[t] \in {0, 1}
BY ValidatorAssumption DEF Fired

\* Deduplication keeps or drops all anomalies of a type.
LEMMA DedupType ==
  ASSUME NEW f \in [Types -> Nat]
  PROVE  /\ Dedup(f) \in [Types -> Nat]
         /\ \A t \in Types : Dedup(f)[t] \in {0, f[t]}
         /\ \A t \in Types \ {"pattern_loop", "step_efficiency"} : Dedup(f)[t] = f[t]
BY DEF Dedup

\* The counters stay natural numbers, with what is listed between them.
LEMMA CountedBound ==
  ASSUME NEW i \in Items, NEW llm \in SUBSET LlmTypes,
         counts \in [Types -> Nat], booked \in [Types -> Nat],
         severities \in [Types -> Nat], CountersBracketReports
  PROVE  LET f == Fired(i, llm) IN
         /\ Counted(f) \in [Types -> Nat]
         /\ Raised(booked, Dedup(f)) \in [Types -> Nat]
         /\ Raised(severities, f) \in [Types -> Nat]
         /\ \A t \in Types : /\ Counted(f)[t] <= Raised(booked, Dedup(f))[t]
                             /\ Raised(booked, Dedup(f))[t] <= Raised(severities, f)[t]
<1> DEFINE f == Fired(i, llm)
<1>1. f \in [Types -> Nat] /\ \A t \in Types \ LlmTypes : f[t] \in {0, 1}
  BY FiredType
<1>2. /\ Dedup(f) \in [Types -> Nat]
      /\ \A t \in Types : Dedup(f)[t] \in {0, f[t]}
      /\ \A t \in Types \ {"pattern_loop", "step_efficiency"} : Dedup(f)[t] = f[t]
  BY <1>1, DedupType
<1>3. \A t \in {"pattern_loop", "step_efficiency"} : t \in Types \ LlmTypes
  BY ValidatorAssumption DEF LoopFamily
<1> HIDE DEF f
<1>4. /\ \A t \in Types : Raised(counts, f)[t] = counts[t] + f[t]
      /\ \A t \in Types : Raised(booked, Dedup(f))[t] = booked[t] + Dedup(f)[t]
      /\ \A t \in Types : Raised(severities, f)[t] = severities[t] + f[t]
      /\ Raised(booked, Dedup(f)) \in [Types -> Nat]
      /\ Raised(severities, f) \in [Types -> Nat]
  BY <1>1, <1>2 DEF Raised
<1>5. ASSUME NEW t \in Types
      PROVE  /\ Counted(f)[t] \in Nat
             /\ Counted(f)[t] <= booked[t] + Dedup(f)[t]
             /\ booked[t] + Dedup(f)[t] <= severities[t] + f[t]
  <2>1. /\ counts[t] \in Nat /\ booked[t] \in Nat /\ severities[t] \in Nat
        /\ counts[t] <= booked[t] /\ booked[t] <= severities[t]
    BY DEF CountersBracketReports
  <2>2. f[t] \in Nat /\ Dedup(f)[t] \in Nat /\ Dedup(f)[t] \in {0, f[t]}
    BY <1>1, <1>2
  <2>3. Counted(f)[t] = IF /\ Dedup(f) # f
                           /\ t \in {"pattern_loop", "step_efficiency"}
                           /\ Dedup(f)[t] = 0
                           /\ counts[t] + f[t] > 0
                        THEN counts[t] + f[t] - 1
                        ELSE counts[t] + f[t]
    <3>1. Counted(f)[t] = IF /\ Dedup(f) # f
                             /\ t \in {"pattern_loop", "step_efficiency"}
                             /\ Dedup(f)[t] = 0
                             /\ Raised(counts, f)[t] > 0
                          THEN Raised(counts, f)[t] - 1
                          ELSE Raised(counts, f)[t]
      BY DEF Counted
    <3> DEFINE new == Raised(counts, f)[t]
    <3>2. new = counts[t] + f[t]
      BY <1>4
    <3>a. Counted(f)[t] = IF /\ Dedup(f) # f
                             /\ t \in {"pattern_loop", "step_efficiency"}
                             /\ Dedup(f)[t] = 0
                             /\ new > 0
                          THEN new - 1 ELSE new
      BY <3>1 DEF new
    <3> HIDE DEF new
    <3>3. QED
      BY <2>1, <2>2, <3>2, <3>a
  <2>4. CASE Dedup(f)[t] = f[t]
    BY <2>1, <2>2, <2>3, <2>4
  <2>5. CASE Dedup(f)[t] # f[t]
    <3>1. Dedup(f)[t] = 0 /\ f[t] = 1 /\ Dedup(f) # f
          /\ t \in {"pattern_loop", "step_efficiency"}
      BY <1>1, <1>2, <1>3, <2>5
    <3>2. QED
      BY <2>1, <2>3, <3>1
  <2>6. QED
    BY <2>4, <2>5
<1>6. Counted(f) \in [Types -> Nat]
  <2>1. Counted(f) = [t \in Types |-> Counted(f)[t]]
    BY DEF Counted
  <2>2. QED
    BY <1>5, <2>1
<1>7. QED
  BY <1>4, <1>5, <1>6 DEF f

\* Of the traces of a run that are behind it, one more is one more.
LEMMA OneMoreRow ==
  ASSUME NEW S \in SUBSET Items, NEW T \in SUBSET S, NEW i \in T
  PROVE  /\ S \ (T \ {i}) = (S \ T) \cup {i}
         /\ Cardinality(S \ T) \in Nat
         /\ Cardinality(S \ (T \ {i})) = Cardinality(S \ T) + 1
<1>1. IsFiniteSet(S \ T)
  BY FS_Subset, ValidatorAssumption
<1>2. Cardinality((S \ T) \cup {i}) = Cardinality(S \ T) + 1
  BY <1>1, FS_AddElement
<1>3. S \ (T \ {i}) = (S \ T) \cup {i}
  OBVIOUS
<1>4. QED
  BY <1>1, <1>2, <1>3, FS_CardinalityType

-----------------------------------------------------------------------------
(* The invariant is inductive.                                             *)

\* The invariant holds at first.
LEMMA InitIInv == Init => IInv
<1> SUFFICES ASSUME Init PROVE IInv
  OBVIOUS
<1>1. TypeOK
  <2>1. llmDone \in 0 .. LlmSample
    BY ValidatorAssumption DEF Init
  <2>2. /\ counts \in [Types -> Nat] /\ booked \in [Types -> Nat]
        /\ severities \in [Types -> Nat]
    BY DEF Init, Nothing
  <2>3. times \in [Keys -> Nat]
    BY DEF Init
  <2>4. QED
    BY <2>1, <2>2, <2>3 DEF Init, TypeOK
<1>2. KeysInv
  <2>1. /\ completed \cup progress = {}
        /\ Kept = {} /\ scratch = 0 /\ faults = 0
        /\ \A k \in Keys : times[k] = 0
    BY DEF Init, Kept, Running, LoadProgress
  <2>2. QED
    BY <2>1 DEF KeysInv
<1>3. RunInv /\ RowsInv /\ CountersBracketReports
  BY DEF Init, RunInv, RowsInv, CountersBracketReports, Running, Nothing
<1>4. QED
  BY <1>1, <1>2, <1>3 DEF IInv

\* An invocation reads what the file holds.
LEMMA StartStep ==
  ASSUME IInv, NEW s \in SUBSET Items, NEW resume \in BOOLEAN, Start(s, resume)
  PROVE  IInv'
<1>0. Kept = LoadProgress /\ LoadProgress \in SUBSET Keys
      /\ LoadProgress \subseteq progress
  BY DEF IInv, TypeOK, Start, Kept, Running, LoadProgress
<1>1. TypeOK'
  <2>1. llmDone' \in 0 .. LlmSample
    BY ValidatorAssumption DEF Start
  <2>2. /\ counts' \in [Types -> Nat] /\ booked' \in [Types -> Nat]
        /\ severities' \in [Types -> Nat]
    BY DEF Start, Nothing
  <2>3. completed' \in SUBSET Keys
    BY <1>0 DEF Start
  <2>4. /\ seen' \in SUBSET Items /\ todo' \in SUBSET seen'
        /\ resuming' \in BOOLEAN /\ processed' \in Nat
        /\ report' \in {None} /\ pc' = "loop"
        /\ scratch' \in Nat /\ runs' \in Nat /\ looked' \in SUBSET seen'
    BY DEF Start, IInv, TypeOK
  <2>5. UNCHANGED <<progress, broken, times, faults>>
    BY DEF Start, file
  <2>6. QED
    BY <2>1, <2>2, <2>3, <2>4, <2>5 DEF IInv, TypeOK
<1>2. KeysInv'
  <2>1. completed' = (IF resume THEN LoadProgress ELSE {}) /\ Kept' = completed'
    BY DEF Start, Kept, Running
  <2>2. (\A k \in completed \cup progress : times[k] > 0)'
    <3>1. completed' \subseteq progress /\ UNCHANGED <<progress, times>>
      BY <1>0, <2>1 DEF Start, file
    <3>2. QED
      BY <3>1 DEF IInv, KeysInv
  <2>3. (\A k \in Keys : times[k] <= scratch + faults + (IF k \in Kept THEN 1 ELSE 0))'
    BY <1>0, <2>1 DEF IInv, KeysInv, TypeOK, Start
  <2>4. QED
    BY <2>2, <2>3 DEF KeysInv
<1>3. RunInv'
  BY DEF RunInv, Start, Running
<1>4. CountersBracketReports'
  BY DEF CountersBracketReports, Start, Nothing
<1>5. RowsInv'
  <2>1. /\ pc' = "loop" /\ report' = None /\ processed' = 0 /\ looked' = {}
        /\ seen' \ todo' = {} /\ ~resuming' => completed' = {}
        /\ FirstRows' \ todo' = {}
    BY DEF Start, FirstRows
  <2>2. Cardinality({}) = 0
    BY FS_EmptySet
  <2> DEFINE begun == seen' \ todo'
  <2>a. begun = {}
    <3>1. seen' = s /\ todo' = s
      BY DEF Start
    <3> QED
      BY <3>1
  <2> HIDE DEF begun
  <2>b. {Key[i] : i \in begun} = {} /\ Cardinality(begun) = 0
    BY <2>a, <2>2
  <2>c. \A i \in begun, j \in todo' : i < j
    BY <2>a
  <2>3. {Key[i] : i \in seen' \ todo'} = {} /\ Cardinality(seen' \ todo') = 0
    BY <2>b DEF begun
  <2>4. \A i \in seen' \ todo', j \in todo' : i < j
    BY <2>c DEF begun
  <2>5. QED
    BY <2>1, <2>3, <2>4 DEF RowsInv
<1>6. QED
  BY <1>1, <1>2, <1>3, <1>4, <1>5 DEF IInv

\* A trace that is completed is passed over.
LEMMA SkipStep ==
  ASSUME IInv, NEW i \in Items, Skip(i)
  PROVE  IInv'
<1>1. (TypeOK /\ KeysInv /\ RunInv /\ CountersBracketReports)'
  BY DEF IInv, TypeOK, KeysInv, RunInv, CountersBracketReports, Kept, Running,
         LoadProgress, Skip, Reading, TraceKey, history, file
<1>2. RowsInv'
  <2>1. /\ i \in todo /\ todo \in SUBSET seen /\ seen \in SUBSET Items
        /\ \A j \in todo : i <= j
        /\ pc = "loop" /\ pc' = "loop" /\ report' = report /\ report = None
        /\ todo' = todo \ {i} /\ processed' = processed + 1
        /\ Key[i] \in completed
        /\ UNCHANGED <<seen, looked, resuming, completed>>
    BY DEF Skip, Reading, TraceKey, IInv, TypeOK, RunInv, history
  <2>2. /\ \A a \in seen \ todo, j \in todo : a < j
        /\ processed = Cardinality(seen \ todo)
        /\ ~resuming => /\ looked = FirstRows \ todo
                        /\ completed = {Key[a] : a \in seen \ todo}
    BY <2>1 DEF IInv, RowsInv, Running
  <2>3. /\ seen \ todo' = (seen \ todo) \cup {i}
        /\ Cardinality(seen \ todo') = Cardinality(seen \ todo) + 1
    BY <2>1, OneMoreRow
  <2>4. \A a \in seen \ todo', j \in todo' : a < j
    <3>1. \A a \in Items : a \in Nat
      BY ValidatorAssumption
    <3>2. QED
      BY <2>1, <2>2, <2>3, <3>1
  <2>5. ASSUME ~resuming
        PROVE  looked = FirstRows \ todo' /\ completed = {Key[a] : a \in seen \ todo'}
    <3>1. PICK a \in seen \ todo : Key[a] = Key[i]
      BY <2>1, <2>2, <2>5
    <3>2. a < i /\ a \in Nat /\ i \in Nat
      BY <2>1, <2>2, <3>1, ValidatorAssumption
    <3>3. i \notin FirstRows
      BY <3>1, <3>2 DEF FirstRows
    <3>4. FirstRows \ todo' = FirstRows \ todo
      BY <2>1, <3>3
    <3>5. {Key[b] : b \in seen \ todo'} = {Key[b] : b \in seen \ todo}
      BY <2>3, <3>1
    <3>6. QED
      BY <2>2, <2>5, <3>4, <3>5
  <2>6. FirstRows' = FirstRows
    BY <2>1 DEF FirstRows
  <2>7. QED
    BY <2>1, <2>2, <2>3, <2>4, <2>5, <2>6 DEF RowsInv, Running
<1>3. QED
  BY <1>1, <1>2 DEF IInv

\* A trace that is examined is recorded, and its key kept.
LEMMA ExamineStep ==
  ASSUME IInv, NEW i \in Items, Examine(i)
  PROVE  IInv'
<1>0. Key[i] \in Keys /\ Key[i] \notin completed /\ pc = "loop" /\ i \in todo
  BY DEF Examine, Reading, TraceKey, Keys
<1>1. PICK llm \in SUBSET LlmTypes :
        /\ counts' = Counted(Fired(i, llm))
        /\ severities' = Raised(severities, Fired(i, llm))
        /\ booked' = Raised(booked, Dedup(Fired(i, llm)))
  BY DEF Examine
<1>2. /\ counts' \in [Types -> Nat]
      /\ booked' \in [Types -> Nat]
      /\ severities' \in [Types -> Nat]
      /\ \A t \in Types : counts'[t] <= booked'[t] /\ booked'[t] <= severities'[t]
  BY <1>1, CountedBound DEF IInv, TypeOK
<1>3. llmDone' \in 0 .. LlmSample
  BY ValidatorAssumption DEF Examine, Sampled, IInv, TypeOK
<1>4. TypeOK'
  BY <1>0, <1>2, <1>3 DEF IInv, TypeOK, Examine, TraceKey, file
<1>5. KeysInv'
  <2>1. Kept = completed /\ Kept' = completed' /\ completed' = completed \cup {Key[i]}
    BY <1>0 DEF Kept, Running, Examine, TraceKey
  <2>2. /\ \A k \in Keys : times'[k] = IF k = Key[i] THEN times[k] + 1 ELSE times[k]
        /\ \A k \in Keys : times[k] \in Nat
    BY DEF Examine, IInv, TypeOK
  <2>3. (\A k \in completed \cup progress : times[k] > 0)'
    BY <1>0, <2>1, <2>2 DEF IInv, TypeOK, KeysInv, Examine, file
  <2>4. (\A k \in Keys : times[k] <= scratch + faults + (IF k \in Kept THEN 1 ELSE 0))'
    BY <1>0, <2>1, <2>2 DEF IInv, TypeOK, KeysInv, Examine
  <2>5. QED
    BY <2>3, <2>4 DEF KeysInv
<1>6. RunInv'
  BY <1>0 DEF IInv, TypeOK, RunInv, Examine, TraceKey, Running
<1>7. CountersBracketReports'
  BY <1>2 DEF CountersBracketReports
<1>8. RowsInv'
  <2>1. /\ todo \in SUBSET seen /\ seen \in SUBSET Items
        /\ \A j \in todo : i <= j
        /\ pc' \in {"loop", "save"} /\ report' = report /\ report = None
        /\ todo' = todo \ {i} /\ processed' = processed + 1
        /\ completed' = completed \cup {Key[i]}
        /\ looked' = looked \cup {i}
        /\ UNCHANGED <<seen, resuming>>
    BY <1>0 DEF Examine, Reading, TraceKey, IInv, TypeOK, RunInv
  <2>2. /\ \A a \in seen \ todo, j \in todo : a < j
        /\ processed = Cardinality(seen \ todo)
        /\ ~resuming => /\ looked = FirstRows \ todo
                        /\ completed = {Key[a] : a \in seen \ todo}
    BY <1>0 DEF IInv, RowsInv, Running
  <2>3. /\ seen \ todo' = (seen \ todo) \cup {i}
        /\ Cardinality(seen \ todo') = Cardinality(seen \ todo) + 1
    <3>1. i \in todo /\ todo \in SUBSET seen /\ seen \in SUBSET Items
      BY <1>0, <2>1 DEF Examine, Reading
    <3>2. /\ seen \ (todo \ {i}) = (seen \ todo) \cup {i}
          /\ Cardinality(seen \ (todo \ {i})) = Cardinality(seen \ todo) + 1
      BY <3>1, OneMoreRow
    <3>3. todo' = todo \ {i}
      BY <2>1
    <3>4. QED
      BY <3>2, <3>3
  <2>4. \A a \in seen \ todo', j \in todo' : a < j
    <3>1. \A a \in Items : a \in Nat
      BY ValidatorAssumption
    <3>2. QED
      BY <1>0, <2>1, <2>2, <2>3, <3>1
  <2>5. ASSUME ~resuming
        PROVE  looked' = FirstRows \ todo' /\ completed' = {Key[a] : a \in seen \ todo'}
    <3>1. \A a \in seen \ todo : Key[a] # Key[i]
      BY <1>0, <2>2, <2>5
    <3>2. i \in FirstRows
      BY <1>0, <2>1, <3>1 DEF FirstRows
    <3>3. FirstRows \ todo' = (FirstRows \ todo) \cup {i}
      BY <1>0, <2>1, <3>2
    <3>4. {Key[b] : b \in seen \ todo'} = {Key[b] : b \in seen \ todo} \cup {Key[i]}
      BY <2>3
    <3>5. QED
      BY <2>1, <2>2, <2>5, <3>3, <3>4
  <2>6. FirstRows' = FirstRows
    BY <2>1 DEF FirstRows
  <2>7. QED
    BY <2>1, <2>2, <2>3, <2>4, <2>5, <2>6 DEF RowsInv, Running
<1>9. QED
  BY <1>4, <1>5, <1>6, <1>7, <1>8 DEF IInv

\* While the file is rewritten, its keys are those before or none.
LEMMA TruncateProgressStep ==
  ASSUME IInv, TruncateProgress
  PROVE  IInv'
BY ValidatorAssumption
DEF IInv, TypeOK, KeysInv, RunInv, RowsInv, FirstRows, CountersBracketReports, Kept, Running, LoadProgress,
    TruncateProgress, memory, history

\* The file holds the keys in memory.
LEMMA WriteProgressStep ==
  ASSUME IInv, WriteProgress
  PROVE  IInv'
BY ValidatorAssumption
DEF IInv, TypeOK, KeysInv, RunInv, RowsInv, FirstRows, CountersBracketReports, Kept, Running, LoadProgress,
    WriteProgress, memory, history

\* A run ends when no trace is ahead.
LEMMA FinishStep ==
  ASSUME IInv, Finish
  PROVE  IInv'
<1>1. report' \in [processed : Nat, skipped : Int]
  <2>1. Cardinality(completed) \in Nat /\ processed \in Nat
    BY FiniteKeys DEF IInv, TypeOK
  <2>2. QED
    BY <2>1 DEF Finish, Report
<1>2. TypeOK'
  BY <1>1 DEF IInv, TypeOK, Finish, history, file
<1>3. KeysInv' /\ RunInv' /\ RowsInv' /\ CountersBracketReports'
  BY DEF IInv, TypeOK, KeysInv, RunInv, Report, RowsInv, FirstRows, CountersBracketReports, Kept, Running,
         LoadProgress, Finish, history, file
<1>4. QED
  BY <1>2, <1>3 DEF IInv

\* A kill loses what is in memory, and is counted.
LEMMA CrashStep ==
  ASSUME IInv, Crash
  PROVE  IInv'
BY ValidatorAssumption
DEF IInv, TypeOK, KeysInv, RunInv, RowsInv, FirstRows, CountersBracketReports, Kept, Running, LoadProgress,
    Crash, memory, history, file

\* Every step keeps the invariant.
LEMMA NextIInv == IInv /\ [Next]_vars => IInv'
<1> SUFFICES ASSUME IInv, [Next]_vars PROVE IInv'
  OBVIOUS
<1>1. CASE \E s \in SUBSET Items, resume \in BOOLEAN : Start(s, resume)
  BY <1>1, StartStep
<1>2. CASE \E i \in Items : Skip(i) \/ Examine(i)
  BY <1>2, SkipStep, ExamineStep
<1>3. CASE TruncateProgress
  BY <1>3, TruncateProgressStep
<1>4. CASE WriteProgress
  BY <1>4, WriteProgressStep
<1>5. CASE Finish
  BY <1>5, FinishStep
<1>6. CASE Crash
  BY <1>6, CrashStep
<1>7. CASE UNCHANGED vars
  BY <1>7
  DEF IInv, TypeOK, KeysInv, RunInv, RowsInv, FirstRows, CountersBracketReports, Kept, Running,
      LoadProgress, vars, memory, history, file
<1>8. QED
  BY <1>1, <1>2, <1>3, <1>4, <1>5, <1>6, <1>7 DEF Next

\* The invariant holds in every state.
LEMMA Inductive == Spec => []IInv
BY InitIInv, NextIInv, PTL DEF Spec

-----------------------------------------------------------------------------
(* The theorems.                                                           *)

\* Type correctness; in particular the counters never go below zero and no
\* more than --llm-sample traces are given to the LLM detectors.
THEOREM TypeCorrect == Spec => []TypeOK
<1>1. IInv => TypeOK
  BY DEF IInv
<1>2. QED
  BY <1>1, Inductive, PTL

\* progress.json never claims a trace that was not examined, wherever the
\* process is killed.
THEOREM HonestCorrect == Spec => []ProgressHonest
<1>1. IInv => ProgressHonest
  BY DEF IInv, KeysInv, ProgressHonest
<1>2. QED
  BY <1>1, Inductive, PTL

\* When validate-traces ends, the key of every trace it read has been examined
\* and is recorded; without --resume it has examined the first trace of each key
\* and no other; and all of them are counted as processed.
THEOREM CompleteCorrect == Spec => []DoneIsComplete
<1>1. IInv => DoneIsComplete
  <2> SUFFICES ASSUME IInv, pc = "done" PROVE DoneIsComplete
    BY DEF DoneIsComplete
  <2>1. todo = {} /\ ~broken /\ progress = completed /\ seen \ todo = seen
    BY DEF IInv, RunInv
  <2>2. \A i \in seen : times[Key[i]] > 0 /\ Key[i] \in LoadProgress
    BY <2>1 DEF IInv, TypeOK, KeysInv, RunInv, LoadProgress
  <2>3. report.processed = Cardinality(seen)
    BY <2>1 DEF IInv, RowsInv
  <2>4. ~resuming => looked = FirstRows
    BY <2>1 DEF IInv, RowsInv
  <2>5. QED
    BY <2>2, <2>3, <2>4 DEF DoneIsComplete, FirstRows
<1>2. QED
  BY <1>1, Inductive, PTL

\* A trace is examined more than once only if the process was killed or started
\* without --resume, and then once more for each of these.
THEOREM ExaminedAgainCorrect == Spec => []ExaminedAgainForAReason
<1>1. IInv => ExaminedAgainForAReason
  BY DEF IInv, TypeOK, KeysInv, ExaminedAgainForAReason
<1>2. QED
  BY <1>1, Inductive, PTL

\* Whatever combination of detectors fires, what the reports list lies between
\* the counters by type and those by severity in summary.json.
THEOREM CountersBracketCorrect == Spec => []CountersBracketReports
<1>1. IInv => CountersBracketReports
  BY DEF IInv
<1>2. QED
  BY <1>1, Inductive, PTL

-----------------------------------------------------------------------------
(* Keep: the members of a sequence that are in a set.                       *)

\* The recursion of Keep: it ends with what the last member adds.
LEMMA KeepRecursion ==
  ASSUME NEW S, NEW s \in Seq(S), NEW V
  PROVE  \E keep :
           /\ Keep(s, V) = keep[Len(s)]
           /\ keep[0] = << >>
           /\ \A n \in 1 .. Len(s) :
                keep[n] = IF s[n] \in V THEN Append(keep[n - 1], s[n]) ELSE keep[n - 1]
<1> DEFINE Step(g, n) == IF s[n] \in V THEN Append(g[n - 1], s[n]) ELSE g[n - 1]
           IsKeep(f, m) == f = [n \in 0 .. m |-> IF n = 0 THEN << >> ELSE Step(f, n)]
           U == {m \in Nat : \E f : IsKeep(f, m)}
           keep == CHOOSE f : IsKeep(f, Len(s))
<1>1. 0 \in U
  <2>1. IsKeep([n \in 0 .. 0 |-> << >>], 0)
    OBVIOUS
  <2>2. QED BY <2>1
<1>2. ASSUME NEW m \in Nat, m \in U PROVE m + 1 \in U
  <2>1. PICK f : IsKeep(f, m)
    BY <1>2
  <2> DEFINE g == [n \in 0 .. m + 1 |-> IF n = m + 1 THEN Step(f, n) ELSE f[n]]
  <2>2. \A n \in 0 .. m : g[n] = f[n]
    OBVIOUS
  <2>3. \A n \in 1 .. m + 1 : Step(g, n) = Step(f, n)
    <3>1. \A n \in 1 .. m + 1 : n - 1 \in 0 .. m
      OBVIOUS
    <3> HIDE DEF g
    <3>2. QED BY <3>1, <2>2
  <2>4. \A n \in 0 .. m : f[n] = IF n = 0 THEN << >> ELSE Step(f, n)
    BY <2>1
  <2> HIDE DEF Step
  <2>5. IsKeep(g, m + 1)
    <3>1. \A n \in 0 .. m + 1 : g[n] = IF n = 0 THEN << >> ELSE Step(g, n)
      BY <2>2, <2>3, <2>4
    <3>2. QED BY <3>1
  <2> HIDE DEF IsKeep
  <2>6. QED BY <2>5
<1>3. IsKeep(keep, Len(s))
  <2>1. Len(s) \in Nat
    OBVIOUS
  <2> HIDE DEF U, IsKeep
  <2>2. \A m \in Nat : m \in U
    BY <1>1, <1>2, NaturalInduction
  <2>3. QED BY <2>1, <2>2 DEF U
<1>4. Keep(s, V) = keep[Len(s)]
  BY DEF Keep
<1> HIDE DEF keep
<1>5. keep[0] = << >> /\ \A n \in 1 .. Len(s) : keep[n] = Step(keep, n)
  <2> HIDE DEF Step
  <2>1. 0 \in 0 .. Len(s) /\ \A n \in 1 .. Len(s) : n \in 0 .. Len(s) /\ n # 0
    OBVIOUS
  <2>2. QED BY <1>3, <2>1
<1>6. QED BY <1>4, <1>5

\* What is kept are members of the sequence, in the set.
LEMMA KeepType ==
  ASSUME NEW S, NEW s \in Seq(S), NEW V
  PROVE  Keep(s, V) \in Seq(S \cap V)
<1>1. PICK keep :
        /\ Keep(s, V) = keep[Len(s)]
        /\ keep[0] = << >>
        /\ \A n \in 1 .. Len(s) :
             keep[n] = IF s[n] \in V THEN Append(keep[n - 1], s[n]) ELSE keep[n - 1]
  BY KeepRecursion
<1> DEFINE U == {n \in Nat : n <= Len(s) => keep[n] \in Seq(S \cap V)}
<1>2. 0 \in U
  BY <1>1, EmptySeq
<1>3. ASSUME NEW n \in Nat, n \in U PROVE n + 1 \in U
  <2> SUFFICES ASSUME n + 1 <= Len(s) PROVE keep[n + 1] \in Seq(S \cap V)
    OBVIOUS
  <2>1. n + 1 \in 1 .. Len(s) /\ (n + 1) - 1 = n /\ n <= Len(s)
    OBVIOUS
  <2>2. keep[n] \in Seq(S \cap V)
    BY <1>3, <2>1
  <2>3. s[n + 1] \in S
    BY <2>1, ElementOfSeq
  <2>4. keep[n + 1] = IF s[n + 1] \in V THEN Append(keep[n], s[n + 1]) ELSE keep[n]
    BY <1>1, <2>1
  <2>5. CASE s[n + 1] \in V
    BY <2>2, <2>3, <2>4, <2>5, AppendProperties
  <2>6. CASE s[n + 1] \notin V
    BY <2>2, <2>4, <2>6
  <2>7. QED BY <2>5, <2>6
<1>4. Len(s) \in Nat
  OBVIOUS
<1> HIDE DEF U
<1>5. \A n \in Nat : n \in U
  BY <1>2, <1>3, NaturalInduction
<1>6. QED BY <1>1, <1>4, <1>5 DEF U

\* The members of s from a to b.
Part(s, a, b) == [j \in 1 .. b - a + 1 |-> s[a + j - 1]]

\* If the members in the set are those from a to b, these are kept.
LEMMA KeepBlock ==
  ASSUME NEW S, NEW s \in Seq(S), NEW V, NEW a \in Nat \ {0}, NEW b \in Nat,
         a <= b + 1, b <= Len(s),
         \A i \in 1 .. Len(s) : s[i] \in V <=> i \in a .. b
  PROVE  Keep(s, V) = Part(s, a, b)
<1>1. PICK keep :
        /\ Keep(s, V) = keep[Len(s)]
        /\ keep[0] = << >>
        /\ \A n \in 1 .. Len(s) :
             keep[n] = IF s[n] \in V THEN Append(keep[n - 1], s[n]) ELSE keep[n - 1]
  BY KeepRecursion
<1> DEFINE last(n) == IF n < a THEN a - 1 ELSE IF n <= b THEN n ELSE b
           Block(c) == [j \in 1 .. c - a + 1 |-> s[a + j - 1]]
           U == {n \in Nat : n <= Len(s) => keep[n] = Block(last(n))}
<1>2. 0 \in U
  <2>1. last(0) = a - 1
    OBVIOUS
  <2>2. Block(a - 1) = << >>
    OBVIOUS
  <2> HIDE DEF last, Block
  <2>3. QED BY <1>1, <2>1, <2>2
<1>3. ASSUME NEW n \in Nat, n \in U PROVE n + 1 \in U
  <2> SUFFICES ASSUME n + 1 <= Len(s) PROVE keep[n + 1] = Block(last(n + 1))
    OBVIOUS
  <2>1. n + 1 \in 1 .. Len(s) /\ (n + 1) - 1 = n /\ n <= Len(s)
    OBVIOUS
  <2>2. keep[n] = Block(last(n))
    BY <1>3, <2>1
  <2>3. keep[n + 1] = IF n + 1 \in a .. b THEN Append(keep[n], s[n + 1]) ELSE keep[n]
    BY <1>1, <2>1
  <2>4. CASE n + 1 \in a .. b
    <3>1. last(n) = n /\ last(n + 1) = n + 1
      BY <2>4
    <3>2. n - a + 1 \in Nat /\ (n + 1) - a + 1 = (n - a + 1) + 1 /\ a + ((n - a + 1) + 1) - 1 = n + 1
      BY <2>4
    <3>3. \A j \in 1 .. n - a + 1 : s[a + j - 1] \in S
      <4>1. \A j \in 1 .. n - a + 1 : a + j - 1 \in 1 .. Len(s)
        BY <2>1
      <4>2. QED BY <4>1, ElementOfSeq
    <3>4. Block(n) \in Seq(S) /\ Len(Block(n)) = n - a + 1
      BY <3>2, <3>3
    <3>5. Append(Block(n), s[n + 1]) = Block(n + 1)
      BY <3>2, <3>4
    <3> HIDE DEF last, Block
    <3>6. QED BY <2>2, <2>3, <2>4, <3>1, <3>5
  <2>5. CASE n + 1 \notin a .. b
    <3>1. last(n + 1) = last(n)
      BY <2>5
    <3> HIDE DEF last, Block
    <3>2. QED BY <2>2, <2>3, <2>5, <3>1
  <2>6. QED BY <2>4, <2>5
<1>4. Len(s) \in Nat
  OBVIOUS
<1> HIDE DEF U
<1>5. \A n \in Nat : n \in U
  BY <1>2, <1>3, NaturalInduction
<1>6. last(Len(s)) = b
  OBVIOUS
<1> HIDE DEF last
<1>7. keep[Len(s)] = Block(b)
  BY <1>4, <1>5, <1>6 DEF U
<1>8. QED BY <1>1, <1>7 DEF Part

\* A set with all members keeps the sequence.
LEMMA KeepAll ==
  ASSUME NEW S, NEW s \in Seq(S), NEW V, \A i \in 1 .. Len(s) : s[i] \in V
  PROVE  Keep(s, V) = s
<1>1. Len(s) \in Nat
  OBVIOUS
<1>2. Keep(s, V) = Part(s, 1, Len(s))
  <2>1. \A i \in 1 .. Len(s) : s[i] \in V <=> i \in 1 .. Len(s)
    OBVIOUS
  <2>2. 1 \in Nat \ {0} /\ 1 <= Len(s) + 1 /\ Len(s) <= Len(s)
    BY <1>1
  <2>3. QED BY <1>1, <2>1, <2>2, KeepBlock
<1>3. s = [j \in 1 .. Len(s) |-> s[j]]
  BY LenProperties
<1>4. Len(s) - 1 + 1 = Len(s) /\ \A j \in 1 .. Len(s) : 1 + j - 1 = j
  BY <1>1
<1>5. QED BY <1>2, <1>3, <1>4 DEF Part

-----------------------------------------------------------------------------
(* Sequences without repetition.                                            *)

\* A member more, and still each once.
LEMMA AppendOnce ==
  ASSUME NEW S, NEW s \in Seq(S), IsInjective(s), NEW e \in S, e \notin Range(s)
  PROVE  IsInjective(Append(s, e)) /\ Range(Append(s, e)) = Range(s) \cup {e}
<1> DEFINE t == Append(s, e)
<1>1. DOMAIN s = 1 .. Len(s) /\ DOMAIN t = 1 .. Len(s) + 1 /\ Len(s) \in Nat
  OBVIOUS
<1>2. t[Len(s) + 1] = e /\ \A i \in 1 .. Len(s) : t[i] = s[i]
  OBVIOUS
<1>3. \A i \in 1 .. Len(s) + 1 : i # Len(s) + 1 => i \in 1 .. Len(s)
  OBVIOUS
<1> HIDE DEF t
<1>4. \A i \in 1 .. Len(s) : s[i] # e
  BY <1>1 DEF Range
<1>5. IsInjective(t)
  BY <1>1, <1>2, <1>3, <1>4 DEF IsInjective
<1>6. Range(t) = Range(s) \cup {e}
  <2>1. Len(s) + 1 \in 1 .. Len(s) + 1 /\ \A i \in 1 .. Len(s) : i \in 1 .. Len(s) + 1
    BY <1>1
  <2>2. QED BY <1>1, <1>2, <1>3, <2>1 DEF Range
<1>7. QED BY <1>5, <1>6 DEF t

\* Two sequences with nothing in common, one after the other, and still each once.
LEMMA ConcatOnce ==
  ASSUME NEW S, NEW s \in Seq(S), NEW t \in Seq(S), IsInjective(s), IsInjective(t),
         Range(s) \cap Range(t) = {}
  PROVE  IsInjective(s \o t) /\ Range(s \o t) = Range(s) \cup Range(t)
<1> DEFINE u == s \o t
<1>1. DOMAIN s = 1 .. Len(s) /\ DOMAIN t = 1 .. Len(t) /\ Len(s) \in Nat /\ Len(t) \in Nat
  OBVIOUS
<1>2. /\ DOMAIN u = 1 .. Len(s) + Len(t)
      /\ \A i \in DOMAIN u : u[i] = IF i <= Len(s) THEN s[i] ELSE t[i - Len(s)]
  OBVIOUS
<1>3. \A i \in DOMAIN u : IF i <= Len(s) THEN i \in DOMAIN s ELSE i - Len(s) \in DOMAIN t
  BY <1>1, <1>2
<1>4. \A i, j \in DOMAIN u : i \in Int /\ j \in Int
  BY <1>1, <1>2
<1> HIDE DEF u
<1>5. IsInjective(u)
  <2> SUFFICES ASSUME NEW i \in DOMAIN u, NEW j \in DOMAIN u, u[i] = u[j] PROVE i = j
    BY DEF IsInjective
  <2>1. CASE i <= Len(s) /\ j <= Len(s)
    BY <1>2, <1>3, <2>1 DEF IsInjective
  <2>2. CASE ~(i <= Len(s)) /\ ~(j <= Len(s))
    <3>1. i - Len(s) = j - Len(s)
      BY <1>2, <1>3, <2>2 DEF IsInjective
    <3>2. QED BY <1>1, <1>4, <3>1
  <2>3. CASE i <= Len(s) /\ ~(j <= Len(s))
    BY <1>2, <1>3, <2>3 DEF Range
  <2>4. CASE ~(i <= Len(s)) /\ j <= Len(s)
    BY <1>2, <1>3, <2>4 DEF Range
  <2>5. QED BY <2>1, <2>2, <2>3, <2>4
<1>6. Range(u) = Range(s) \cup Range(t)
  BY RangeConcatenation DEF u
<1>7. QED BY <1>5, <1>6 DEF u

\* A member less, and still each once.
LEMMA TailOnce ==
  ASSUME NEW S, NEW s \in Seq(S), s # << >>, IsInjective(s)
  PROVE  /\ IsInjective(Tail(s)) /\ Head(s) \notin Range(Tail(s))
         /\ Range(s) = Range(Tail(s)) \cup {Head(s)}
<1> DEFINE t == Tail(s)
<1>1. DOMAIN s = 1 .. Len(s) /\ Len(s) \in Nat \ {0} /\ Head(s) = s[1]
  OBVIOUS
<1>2. DOMAIN t = 1 .. Len(s) - 1 /\ \A i \in DOMAIN t : t[i] = s[i + 1]
  OBVIOUS
<1>3. \A i \in DOMAIN t : i + 1 \in DOMAIN s /\ i + 1 # 1 /\ i \in Int
  BY <1>1, <1>2
<1>4. \A i \in DOMAIN s : i # 1 => i - 1 \in DOMAIN t /\ (i - 1) + 1 = i
  BY <1>1, <1>2
<1>5. 1 \in DOMAIN s /\ \A i, j \in Int : i + 1 = j + 1 => i = j
  BY <1>1
<1> HIDE DEF t
<1>6. IsInjective(t)
  BY <1>2, <1>3, <1>5 DEF IsInjective
<1>7. Head(s) \notin Range(t)
  BY <1>1, <1>2, <1>3, <1>5 DEF IsInjective, Range
<1>8. Range(s) = Range(t) \cup {Head(s)}
  <2>1. \A x \in Range(s) : x \in Range(t) \cup {Head(s)}
    BY <1>1, <1>2, <1>4 DEF Range
  <2>2. \A x \in Range(t) \cup {Head(s)} : x \in Range(s)
    BY <1>1, <1>2, <1>3, <1>5 DEF Range
  <2>3. QED BY <2>1, <2>2
<1>9. QED BY <1>6, <1>7, <1>8 DEF t

\* A sequence without repetition is as long as its range is large.
LEMMA OnceLength ==
  ASSUME NEW S, NEW s \in Seq(S), IsInjective(s)
  PROVE  IsFiniteSet(Range(s)) /\ Cardinality(Range(s)) = Len(s)
<1>1. s \in Bijection(1 .. Len(s), Range(s))
  BY DEF Bijection, Injection, Surjection, IsInjective, Range
<1>2. Len(s) \in Nat
  OBVIOUS
<1>3. IsFiniteSet(1 .. Len(s)) /\ Cardinality(1 .. Len(s)) = Len(s)
  BY <1>2, FS_Interval, SMTT(30)
<1>4. QED BY <1>1, <1>3, FS_Bijection DEF ExistsBijection

-----------------------------------------------------------------------------
(* The walk over a forest.                                                  *)

\* The parents of n spans, 0 for none.
IsUp(up, n) == n \in Nat /\ up \in [1 .. n -> 0 .. n]

\* The children of a span.
Under(up, n, p) == {j \in 1 .. n : up[j] = p}

\* The children of a span, or the roots, each of them once.
LEMMA ChildrenAre ==
  ASSUME NEW f, NEW N, IsUp(f.up, N), NEW p
  PROVE  /\ Children(f, p) \in Seq(1 .. N)
         /\ IsInjective(Children(f, p))
         /\ Range(Children(f, p)) = Under(f.up, N, p)
<1> DEFINE s == [j \in 1 .. N |-> j]
           V == {j \in 1 .. N : f.up[j] = p}
<1>1. N \in Nat /\ DOMAIN f.up = 1 .. N
  BY DEF IsUp
<1>2. s \in Seq(1 .. N) /\ Len(s) = N /\ \A n \in 1 .. N : s[n] = n
  BY <1>1
<1>3. Children(f, p) = Keep(s, V)
  BY <1>1 DEF Children
<1>11. \A n \in 1 .. N : n \in V <=> f.up[n] = p
  OBVIOUS
<1> HIDE DEF s, V
<1>4. PICK keep :
        /\ Keep(s, V) = keep[Len(s)]
        /\ keep[0] = << >>
        /\ \A n \in 1 .. Len(s) :
             keep[n] = IF s[n] \in V THEN Append(keep[n - 1], s[n]) ELSE keep[n - 1]
  BY <1>2, KeepRecursion
<1> DEFINE Good(k, n) == /\ k \in Seq(1 .. N) /\ IsInjective(k)
                         /\ Range(k) = {j \in 1 .. N : j <= n /\ f.up[j] = p}
           U == {n \in Nat : n <= N => Good(keep[n], n)}
<1>5. 0 \in U
  <2>1. << >> \in Seq(1 .. N) /\ IsInjective(<< >>) /\ Range(<< >>) = {}
    BY DEF IsInjective, Range
  <2>2. {j \in 1 .. N : j <= 0 /\ f.up[j] = p} = {}
    BY <1>1
  <2>3. QED BY <1>4, <2>1, <2>2
<1>6. ASSUME NEW n \in Nat, n \in U PROVE n + 1 \in U
  <2> SUFFICES ASSUME n + 1 <= N PROVE Good(keep[n + 1], n + 1)
    OBVIOUS
  <2>1. n + 1 \in 1 .. N /\ (n + 1) - 1 = n /\ n <= N
    BY <1>1
  <2>2. Good(keep[n], n)
    BY <1>6, <2>1
  <2>3. keep[n + 1] = IF f.up[n + 1] = p THEN Append(keep[n], n + 1) ELSE keep[n]
    BY <1>2, <1>4, <1>11, <2>1
  <2>4. \A j \in 1 .. N : j <= n + 1 <=> j <= n \/ j = n + 1
    BY <1>1
  <2>5. CASE f.up[n + 1] = p
    <3>0. keep[n] \in Seq(1 .. N) /\ IsInjective(keep[n])
      BY <2>2
    <3>1. n + 1 \notin Range(keep[n])
      BY <2>2
    <3>2. Append(keep[n], n + 1) \in Seq(1 .. N)
      BY <2>1, <2>2, AppendProperties
    <3>3. /\ IsInjective(Append(keep[n], n + 1))
          /\ Range(Append(keep[n], n + 1)) = Range(keep[n]) \cup {n + 1}
      <4> DEFINE D == 1 .. N
      <4>1. keep[n] \in Seq(D) /\ n + 1 \in D
        BY <2>1, <3>0
      <4> HIDE DEF D
      <4>2. QED BY <4>1, <3>0, <3>1, AppendOnce
    <3>4. QED BY <2>1, <2>2, <2>3, <2>4, <2>5, <3>2, <3>3
  <2>6. CASE f.up[n + 1] # p
    BY <2>2, <2>3, <2>4, <2>6
  <2>7. QED BY <2>5, <2>6
<1> HIDE DEF U, Good
<1>7. \A n \in Nat : n \in U
  BY <1>5, <1>6, NaturalInduction
<1>8. Good(keep[N], N)
  BY <1>1, <1>7 DEF U
<1>9. V = {j \in 1 .. N : j <= N /\ f.up[j] = p}
  BY <1>1 DEF V
<1>10. QED BY ZenonT(30), <1>2, <1>3, <1>4, <1>8, <1>9 DEF Good, V, Under

\* One step of the walk.
Advance(f, w) ==
  IF w.todo = << >> THEN w
  ELSE [seen |-> Append(w.seen, Head(w.todo)), todo |-> Children(f, Head(w.todo)) \o Tail(w.todo)]

\* The recursion of Walk: it ends with what as many steps as there are spans have
\* seen.
LEMMA WalkRecursion ==
  ASSUME NEW f, Len(f.up) \in Nat
  PROVE  \E after :
           /\ Walk(f) = after[Len(f.up)].seen
           /\ after[0] = [seen |-> << >>, todo |-> Children(f, 0)]
           /\ \A n \in 1 .. Len(f.up) : after[n] = Advance(f, after[n - 1])
<1> DEFINE N == Len(f.up)
           Begin == [seen |-> << >>, todo |-> Children(f, 0)]
           Step(g, n) == IF g[n - 1].todo = << >> THEN g[n - 1]
                         ELSE [seen |-> Append(g[n - 1].seen, Head(g[n - 1].todo)),
                               todo |-> Children(f, Head(g[n - 1].todo)) \o Tail(g[n - 1].todo)]
           IsWalk(g, m) == g = [n \in 0 .. m |-> IF n = 0 THEN Begin ELSE Step(g, n)]
           U == {m \in Nat : \E g : IsWalk(g, m)}
           after == CHOOSE g : IsWalk(g, N)
<1>1. 0 \in U
  <2>1. IsWalk([n \in 0 .. 0 |-> Begin], 0)
    <3> HIDE DEF Begin
    <3>1. QED OBVIOUS
  <2>2. QED BY <2>1
<1>2. ASSUME NEW m \in Nat, m \in U PROVE m + 1 \in U
  <2>1. PICK g : IsWalk(g, m)
    BY <1>2
  <2> DEFINE h == [n \in 0 .. m + 1 |-> IF n = m + 1 THEN Step(g, n) ELSE g[n]]
  <2> HIDE DEF Begin
  <2>4. \A n \in 0 .. m : g[n] = IF n = 0 THEN Begin ELSE Step(g, n)
    BY <2>1
  <2>2. /\ \A n \in 0 .. m : h[n] = g[n]
        /\ h[m + 1] = Step(g, m + 1)
    <3> HIDE DEF Step
    <3>1. QED OBVIOUS
  <2>3. \A n \in 1 .. m + 1 : Step(h, n) = Step(g, n)
    <3>1. \A n \in 1 .. m + 1 : n - 1 \in 0 .. m
      OBVIOUS
    <3> HIDE DEF h
    <3>2. \A n \in 1 .. m + 1 : h[n - 1] = g[n - 1]
      BY <2>2, <3>1
    <3>3. QED BY <3>2
  <2> HIDE DEF Step
  <2>5. IsWalk(h, m + 1)
    <3>1. \A n \in 0 .. m + 1 : h[n] = IF n = 0 THEN Begin ELSE Step(h, n)
      BY <2>2, <2>3, <2>4
    <3>2. QED BY <3>1
  <2> HIDE DEF IsWalk
  <2>6. QED BY <2>5
<1>3. IsWalk(after, N)
  <2> HIDE DEF U, IsWalk, N
  <2>1. \A m \in Nat : m \in U
    BY <1>1, <1>2, NaturalInduction
  <2>2. N \in Nat
    BY DEF N
  <2>3. QED BY <2>1, <2>2 DEF U
<1>4. Walk(f) = after[N].seen
  BY DEF Walk
<1> HIDE DEF after
<1>5. after[0] = Begin /\ \A n \in 1 .. N : after[n] = Step(after, n)
  <2> HIDE DEF Step, Begin
  <2>1. 0 \in 0 .. N /\ \A n \in 1 .. N : n \in 0 .. N /\ n # 0
    OBVIOUS
  <2>2. QED BY <1>3, <2>1
<1>6. \A n \in 1 .. N : Step(after, n) = Advance(f, after[n - 1])
  BY DEF Advance
<1>7. QED BY <1>4, <1>5, <1>6

\* What is known of a walk: what was seen and what is to be done are different
\* spans, and together the roots and the children of what was seen.
Walking(f, N, w) ==
  /\ w.seen \in Seq(1 .. N) /\ IsInjective(w.seen)
  /\ w.todo \in Seq(1 .. N) /\ IsInjective(w.todo)
  /\ Range(w.seen) \cap Range(w.todo) = {}
  /\ Range(w.seen) \cup Range(w.todo) = {j \in 1 .. N : f.up[j] \in {0} \cup Range(w.seen)}

\* A step of the walk sees one more span, and keeps what is seen apart from what
\* is still to be seen.
LEMMA AdvanceWalks ==
  ASSUME NEW f, NEW N, IsUp(f.up, N), NEW w, Walking(f, N, w), w.todo # << >>
  PROVE  Walking(f, N, Advance(f, w)) /\ Len(Advance(f, w).seen) = Len(w.seen) + 1
<1> DEFINE D == 1 .. N
           h == Head(w.todo)
           c == Children(f, h)
           done == Append(w.seen, h)
           left == c \o Tail(w.todo)
<1>1. /\ w.seen \in Seq(D) /\ IsInjective(w.seen)
      /\ w.todo \in Seq(D) /\ IsInjective(w.todo)
      /\ Range(w.seen) \cap Range(w.todo) = {}
      /\ Range(w.seen) \cup Range(w.todo) = {j \in D : f.up[j] \in {0} \cup Range(w.seen)}
  BY DEF Walking
<1>2. 0 \notin D
  BY DEF IsUp
<1>3. c \in Seq(D) /\ IsInjective(c) /\ Range(c) = {j \in D : f.up[j] = h}
  <2> HIDE DEF h
  <2>1. \A p : /\ Children(f, p) \in Seq(1 .. N) /\ IsInjective(Children(f, p))
               /\ Range(Children(f, p)) = Under(f.up, N, p)
    BY ChildrenAre
  <2>2. QED BY <2>1 DEF Under
<1> HIDE DEF D, c
<1>4. h \in D /\ Tail(w.todo) \in Seq(D)
  BY <1>1, HeadTailProperties
<1>5. /\ IsInjective(Tail(w.todo)) /\ h \notin Range(Tail(w.todo))
      /\ Range(w.todo) = Range(Tail(w.todo)) \cup {h}
  BY <1>1, TailOnce
<1> HIDE DEF h
<1>6. done \in Seq(D) /\ IsInjective(done) /\ Range(done) = Range(w.seen) \cup {h}
  <2>1. h \notin Range(w.seen)
    BY <1>1, <1>5
  <2>2. IsInjective(done) /\ Range(done) = Range(w.seen) \cup {h}
    BY <1>1, <1>4, <2>1, AppendOnce
  <2>3. QED BY <1>1, <1>4, <2>2, AppendProperties
<1>7. Range(c) \cap Range(Tail(w.todo)) = {} /\ Range(c) \cap Range(done) = {}
  <2> SUFFICES ASSUME NEW j \in Range(c), j \in Range(Tail(w.todo)) \cup Range(done) PROVE FALSE
    OBVIOUS
  <2>1. j \in Range(w.seen) \cup Range(w.todo)
    BY <1>5, <1>6
  <2>2. f.up[j] = h /\ f.up[j] \in {0} \cup Range(w.seen)
    BY <1>1, <1>3, <2>1
  <2>3. QED BY <1>1, <1>2, <1>4, <1>5, <2>2
<1>8. left \in Seq(D) /\ IsInjective(left) /\ Range(left) = Range(c) \cup Range(Tail(w.todo))
  <2>1. IsInjective(left) /\ Range(left) = Range(c) \cup Range(Tail(w.todo))
    <3> DEFINE r == Tail(w.todo)
    <3>1. r \in Seq(D) /\ IsInjective(r) /\ Range(c) \cap Range(r) = {}
      BY <1>4, <1>5, <1>7
    <3> HIDE DEF r
    <3>2. IsInjective(c \o r) /\ Range(c \o r) = Range(c) \cup Range(r)
      BY <1>3, <3>1, ConcatOnce
    <3>3. QED BY <3>2 DEF r
  <2>2. QED BY <1>3, <1>4, <2>1, ConcatProperties
<1>9. Range(done) \cap Range(left) = {}
  BY <1>1, <1>5, <1>6, <1>7, <1>8
<1>10. Range(done) \cup Range(left) = {j \in D : f.up[j] \in {0} \cup Range(done)}
  <2>1. Range(done) \cup Range(left) = Range(w.seen) \cup Range(w.todo) \cup Range(c)
    BY <1>5, <1>6, <1>8
  <2>2. QED BY <1>1, <1>3, <1>6, <2>1
<1>11. Len(done) = Len(w.seen) + 1
  BY <1>1, <1>4, AppendProperties
<1> HIDE DEF done, left
<1>12. Advance(f, w) = [seen |-> done, todo |-> left]
  BY DEF Advance, done, left, c, h
<1>13. Advance(f, w).seen = done /\ Advance(f, w).todo = left
  BY <1>12
<1>14. QED BY <1>6, <1>8, <1>9, <1>10, <1>11, <1>13 DEF Walking, D

\* The walk shows no span twice: the roots, and the children of what it shows.
LEMMA WalkIs ==
  ASSUME NEW f, NEW N, IsUp(f.up, N)
  PROVE  /\ Walk(f) \in Seq(1 .. N) /\ IsInjective(Walk(f))
         /\ Range(Walk(f)) \subseteq 1 .. N
         /\ \A j \in 1 .. N : j \in Range(Walk(f)) <=> f.up[j] \in {0} \cup Range(Walk(f))
<1>1. N \in Nat /\ Len(f.up) = N
  <2>1. N \in Nat /\ f.up \in Seq(0 .. N)
    BY SeqDef DEF IsUp
  <2>2. DOMAIN f.up = 1 .. N /\ DOMAIN f.up = 1 .. Len(f.up) /\ Len(f.up) \in Nat
    BY <2>1, LenProperties DEF IsUp
  <2>3. QED BY <2>1, <2>2
<1>2. PICK after :
        /\ Walk(f) = after[N].seen
        /\ after[0] = [seen |-> << >>, todo |-> Children(f, 0)]
        /\ \A n \in 1 .. N : after[n] = Advance(f, after[n - 1])
  BY <1>1, WalkRecursion
<1> DEFINE U == {n \in Nat : n <= N => /\ Walking(f, N, after[n])
                                       /\ after[n].todo = << >> \/ Len(after[n].seen) = n}
<1>3. 0 \in U
  <2>1. Children(f, 0) \in Seq(1 .. N) /\ IsInjective(Children(f, 0))
        /\ Range(Children(f, 0)) = Under(f.up, N, 0)
    BY ChildrenAre
  <2>2. << >> \in Seq(1 .. N) /\ IsInjective(<< >>) /\ Range(<< >>) = {} /\ Len(<< >>) = 0
    BY DEF IsInjective, Range
  <2>3. after[0].seen = << >> /\ after[0].todo = Children(f, 0)
    BY <1>2
  <2>4. Walking(f, N, after[0])
    BY <2>1, <2>2, <2>3 DEF Walking, Under
  <2>5. QED BY <2>2, <2>3, <2>4
<1>4. ASSUME NEW n \in Nat, n \in U PROVE n + 1 \in U
  <2> SUFFICES ASSUME n + 1 <= N
               PROVE  /\ Walking(f, N, after[n + 1])
                      /\ after[n + 1].todo = << >> \/ Len(after[n + 1].seen) = n + 1
    OBVIOUS
  <2>1. n + 1 \in 1 .. N /\ (n + 1) - 1 = n /\ n <= N
    BY <1>1
  <2>2. Walking(f, N, after[n]) /\ (after[n].todo = << >> \/ Len(after[n].seen) = n)
    BY <1>4, <2>1
  <2>3. after[n + 1] = Advance(f, after[n])
    BY <1>2, <2>1
  <2>4. CASE after[n].todo = << >>
    BY <2>2, <2>3, <2>4 DEF Advance
  <2>5. CASE after[n].todo # << >>
    BY <2>2, <2>3, <2>5, AdvanceWalks
  <2>6. QED BY <2>4, <2>5
<1> HIDE DEF U
<1>5. \A n \in Nat : n \in U
  BY <1>3, <1>4, NaturalInduction
<1> DEFINE w == after[N]
<1>6. Walking(f, N, w) /\ (w.todo = << >> \/ Len(w.seen) = N)
  BY <1>1, <1>5 DEF U
<1> HIDE DEF w
<1>7. w.todo = << >>
  <2> SUFFICES ASSUME w.todo # << >>, Len(w.seen) = N PROVE FALSE
    BY <1>6
  <2>1. w.seen \in Seq(1 .. N) /\ w.todo \in Seq(1 .. N) /\ IsInjective(w.seen)
        /\ Range(w.seen) \cap Range(w.todo) = {}
    BY <1>6 DEF Walking
  <2>2. Cardinality(Range(w.seen)) = N
    BY <2>1, OnceLength
  <2>3. Range(w.seen) \subseteq 1 .. N /\ Range(w.todo) \subseteq 1 .. N
    BY <2>1, RangeOfSeq
  <2>4. IsFiniteSet(1 .. N) /\ Cardinality(1 .. N) = N
    BY <1>1, FS_Interval
  <2>5. Range(w.seen) = 1 .. N
    BY <2>2, <2>3, <2>4, FS_Subset
  <2>6. w.todo[1] \in Range(w.todo)
    <3>1. 1 \in DOMAIN w.todo
      BY <2>1
    <3>2. QED BY <3>1 DEF Range
  <2>7. QED BY <2>1, <2>3, <2>5, <2>6
<1>8. Range(<< >>) = {}
  BY DEF Range
<1>9. Walk(f) = w.seen
  BY <1>2 DEF w
<1>10. QED BY <1>6, <1>7, <1>8, <1>9 DEF Walking

-----------------------------------------------------------------------------
(* Forests.                                                                 *)

\* A sequence is a function on the numbers up to its length, and the other way round.
LEMMA SequenceIs ==
  ASSUME NEW s
  PROVE  /\ IsSequence(s) => Len(s) \in Nat /\ DOMAIN s = 1 .. Len(s) /\ s = [i \in 1 .. Len(s) |-> s[i]]
         /\ \A n \in Nat : s = [i \in 1 .. n |-> s[i]] => IsSequence(s) /\ Len(s) = n
<1> DEFINE S == {s[i] : i \in DOMAIN s}
<1>1. ASSUME IsSequence(s)
      PROVE  Len(s) \in Nat /\ DOMAIN s = 1 .. Len(s) /\ s = [i \in 1 .. Len(s) |-> s[i]]
  <2>1. s \in Seq(S)
    BY <1>1 DEF IsSequence
  <2> HIDE DEF S
  <2>2. Len(s) \in Nat /\ s \in [1 .. Len(s) -> S] /\ DOMAIN s = 1 .. Len(s)
    BY <2>1, LenProperties
  <2>3. QED BY <2>2
<1>2. ASSUME NEW n \in Nat, s = [i \in 1 .. n |-> s[i]] PROVE IsSequence(s) /\ Len(s) = n
  <2>1. DOMAIN s = 1 .. n
    BY <1>2
  <2>2. \A i \in 1 .. n : s[i] \in S
    BY <2>1
  <2> HIDE DEF S
  <2>3. s \in [1 .. n -> S]
    BY <1>2, <2>2
  <2>4. s \in Seq(S)
    BY <2>3, SeqDef
  <2>5. Len(s) \in Nat /\ DOMAIN s = 1 .. Len(s)
    BY <2>4, LenProperties
  <2>6. Len(s) = n
    BY <2>1, <2>5
  <2>7. QED BY <2>4, <2>6 DEF IsSequence, S
<1>3. QED BY <1>1, <1>2

\* The parent of a span is the one that up says, or it has none.
ParentsAre(f, n) ==
  \A i \in 1 .. n :
    IF f.up[i] = 0 THEN f.spans[i].parent = NoParent
    ELSE f.spans[i].parent = f.spans[f.up[i]].id /\ f.spans[i].parent # NoParent

\* What a conversion returns.
IsForest(f) ==
  /\ IsSequence(f.spans)
  /\ IsUp(f.up, Len(f.spans))
  /\ ParentsAre(f, Len(f.spans))

\* What can be read back: there is a root, and ids are different.
IsTree(f) ==
  /\ IsForest(f)
  /\ f = [trace |-> f.trace, spans |-> f.spans, up |-> f.up]
  /\ \E i \in 1 .. Len(f.spans) : f.up[i] = 0
  /\ \A i, j \in 1 .. Len(f.spans) : f.spans[i].id = f.spans[j].id => i = j

\* How a forest is shown: its k-th span is the one that comes k-th in the walk.
LEMMA ShownIs ==
  ASSUME NEW f, IsForest(f)
  PROVE  /\ IsForest(Shown(f))
         /\ Len(Shown(f).spans) = Len(Walk(f))
         /\ \A k \in 1 .. Len(Walk(f)) :
              /\ Walk(f)[k] \in 1 .. Len(f.spans)
              /\ Shown(f).spans[k] = f.spans[Walk(f)[k]]
         /\ Shown(f).trace = f.trace
         /\ Shown(f) = [trace |-> Shown(f).trace, spans |-> Shown(f).spans, up |-> Shown(f).up]
         /\ Roots(f) # {} => \E k \in 1 .. Len(Walk(f)) : Shown(f).up[k] = 0
<1> DEFINE N == Len(f.spans)
           w == Walk(f)
           m == Len(w)
           place(i) == IF i = 0 THEN 0 ELSE CHOOSE k \in DOMAIN w : w[k] = i
           F == Shown(f)
<1>1. N \in Nat /\ f.up \in [1 .. N -> 0 .. N] /\ ParentsAre(f, N) /\ IsUp(f.up, N)
  BY DEF IsForest, IsUp
<1>2. /\ w \in Seq(1 .. N) /\ IsInjective(w)
      /\ Range(w) \subseteq 1 .. N
      /\ \A j \in 1 .. N : j \in Range(w) <=> f.up[j] \in {0} \cup Range(w)
  <2> HIDE DEF N
  <2>1. QED BY <1>1, WalkIs
<1>3. F = [trace |-> f.trace,
           spans |-> [k \in DOMAIN w |-> f.spans[w[k]]],
           up    |-> [k \in DOMAIN w |-> place(f.up[w[k]])]]
  BY DEF Shown
<1> HIDE DEF N, w, F
<1>4. m \in Nat /\ DOMAIN w = 1 .. m /\ \A k \in 1 .. m : w[k] \in 1 .. N /\ w[k] \in Range(w)
  BY <1>2 DEF Range
<1>5. \A i \in {0} \cup Range(w) : /\ place(i) \in 0 .. m
                                   /\ i = 0 <=> place(i) = 0
                                   /\ i # 0 => w[place(i)] = i
  <2>1. \A i \in Range(w) : i # 0 /\ \E k \in 1 .. m : w[k] = i
    BY <1>2, <1>4 DEF Range
  <2>2. \A k \in 1 .. m : k # 0 /\ k \in 0 .. m
    BY <1>4
  <2>3. place(0) = 0 /\ 0 \in 0 .. m
    BY <1>4
  <2>4. ASSUME NEW i \in Range(w)
        PROVE  place(i) \in 0 .. m /\ i # 0 /\ place(i) # 0 /\ w[place(i)] = i
    <3>1. PICK k \in DOMAIN w : w[k] = i
      BY <1>4, <2>1
    <3>2. i # 0
      BY <2>1
    <3>3. place(i) = CHOOSE j \in DOMAIN w : w[j] = i
      BY <3>2
    <3>4. place(i) \in DOMAIN w /\ w[place(i)] = i
      BY <3>1, <3>3
    <3> HIDE DEF place, m
    <3>5. QED BY <1>4, <2>2, <3>2, <3>4
  <2> HIDE DEF place, m
  <2>5. QED BY <2>3, <2>4
<1> HIDE DEF place, m
<1>6. /\ F.trace = f.trace
      /\ F.spans = [k \in 1 .. m |-> f.spans[w[k]]]
      /\ F.up = [k \in 1 .. m |-> place(f.up[w[k]])]
      /\ F = [trace |-> F.trace, spans |-> F.spans, up |-> F.up]
  BY <1>3, <1>4
<1>7. \A k \in 1 .. m : F.spans[k] = f.spans[w[k]] /\ F.up[k] = place(f.up[w[k]])
  BY <1>6
<1>8. \A k \in 1 .. m : f.up[w[k]] \in {0} \cup Range(w)
  BY <1>2, <1>4
<1>9. IsSequence(F.spans) /\ Len(F.spans) = m
  <2>1. F.spans = [k \in 1 .. m |-> F.spans[k]]
    BY <1>6
  <2>2. QED BY <1>4, <2>1, SequenceIs
<1>10. IsUp(F.up, m)
  BY <1>4, <1>5, <1>6, <1>8 DEF IsUp
<1>11. ParentsAre(F, m)
  <2> SUFFICES ASSUME NEW k \in 1 .. m
               PROVE  IF F.up[k] = 0 THEN F.spans[k].parent = NoParent
                      ELSE F.spans[k].parent = F.spans[F.up[k]].id /\ F.spans[k].parent # NoParent
    BY DEF ParentsAre
  <2>1. IF f.up[w[k]] = 0 THEN f.spans[w[k]].parent = NoParent
        ELSE f.spans[w[k]].parent = f.spans[f.up[w[k]]].id /\ f.spans[w[k]].parent # NoParent
    BY <1>1, <1>4 DEF ParentsAre
  <2>2. CASE F.up[k] = 0
    <3>1. f.up[w[k]] = 0
      BY <1>5, <1>7, <1>8, <2>2
    <3>2. QED BY <1>7, <2>1, <2>2, <3>1
  <2>3. CASE F.up[k] # 0
    <3>1. f.up[w[k]] # 0 /\ w[F.up[k]] = f.up[w[k]] /\ F.up[k] \in 1 .. m
      <4>1. F.up[k] \in 0 .. m
        BY <1>5, <1>7, <1>8
      <4>2. F.up[k] \in 1 .. m
        BY <1>4, <2>3, <4>1
      <4>3. QED BY <1>5, <1>7, <1>8, <2>3, <4>2
    <3>2. F.spans[F.up[k]] = f.spans[f.up[w[k]]]
      BY <1>7, <3>1
    <3>3. QED BY <1>7, <2>1, <2>3, <3>1, <3>2
  <2>4. QED BY <2>2, <2>3
<1>12. ASSUME Roots(f) # {} PROVE \E k \in 1 .. m : F.up[k] = 0
  <2>1. PICK i \in DOMAIN f.up : f.up[i] = 0
    BY <1>12 DEF Roots
  <2>2. i \in Range(w)
    BY <1>1, <1>2, <2>1
  <2>3. PICK k \in 1 .. m : w[k] = i
    BY <1>4, <2>2 DEF Range
  <2>4. F.up[k] = 0
    BY <1>5, <1>7, <2>1, <2>3
  <2>5. QED BY <2>4
<1>13. IsForest(F)
  BY <1>9, <1>10, <1>11 DEF IsForest
<1>14. QED BY <1>4, <1>6, <1>7, <1>9, <1>12, <1>13 DEF N, w, m, F

\* With different ids, it can be read back.
LEMMA ShownTree ==
  ASSUME NEW f, IsForest(f), Roots(f) # {}, Valid(Shown(f))
  PROVE  IsTree(Shown(f))
<1> DEFINE F == Shown(f)
           m == Len(F.spans)
           id == [i \in 1 .. m |-> F.spans[i].id]
<1>1. /\ IsForest(F)
      /\ F = [trace |-> F.trace, spans |-> F.spans, up |-> F.up]
      /\ \E k \in 1 .. m : F.up[k] = 0
  BY ShownIs
<1> HIDE DEF F
<1>2. m \in Nat /\ DOMAIN F.spans = 1 .. m
  BY <1>1, SequenceIs DEF IsForest
<1>3. Cardinality(Ids(F)) = m
  BY DEF Valid, F
<1>4. id \in Surjection(1 .. m, Ids(F))
  BY <1>2 DEF Surjection, Ids
<1>5. IsFiniteSet(1 .. m) /\ Cardinality(1 .. m) = m
  BY <1>2, FS_Interval
<1>6. id \in Injection(1 .. m, Ids(F))
  <2> HIDE DEF id, m
  <2>1. QED BY <1>3, <1>4, <1>5, FS_SurjSameCardinalityImpliesInj
<1>7. \A i, j \in 1 .. m : F.spans[i].id = F.spans[j].id => i = j
  <2>1. \A i, j \in 1 .. m : id[i] = id[j] => i = j
    <3> HIDE DEF id, m
    <3>1. QED BY <1>6 DEF Injection, IsInjective
  <2>2. \A i \in 1 .. m : id[i] = F.spans[i].id
    OBVIOUS
  <2> HIDE DEF id, m
  <2>3. QED BY <2>1, <2>2
<1>8. QED BY <1>1, <1>7 DEF IsTree, F

-----------------------------------------------------------------------------
(* The conversion of a row.                                                 *)

\* The greatest of the numbers up to n is one of them.
LEMMA GreatestMember ==
  ASSUME NEW n \in Nat, NEW T \in SUBSET (1 .. n), T # {}
  PROVE  Max(T) \in T /\ \A x \in T : x <= Max(T)
<1> DEFINE U == {k \in Nat : \A x \in T : x <= k}
<1>1. n \in U
  OBVIOUS
<1>2. PICK k \in U : \A l \in U : k <= l
  BY <1>1, LeastMember
<1>3. k \in T
  <2> SUFFICES ASSUME k \notin T PROVE FALSE
    OBVIOUS
  <2>1. \A x \in T : x \in Nat /\ x # 0 /\ x <= k - 1
    OBVIOUS
  <2>2. k - 1 \in Nat
    <3>1. PICK x \in T : TRUE
      OBVIOUS
    <3>2. x \in Nat /\ x # 0 /\ x <= k - 1 /\ k \in Nat
      BY <2>1, <3>1
    <3>3. QED BY <3>2
  <2>3. k - 1 \in U
    BY <2>1, <2>2
  <2>4. QED BY <1>2, <2>3
<1>4. \A x \in T : x \in Int /\ k >= x
  BY <1>2
<1>5. \E x \in T : \A y \in T : x >= y
  BY <1>3, <1>4
<1>6. Max(T) \in T /\ \A y \in T : Max(T) >= y
  BY <1>5, Zenon DEF Max
<1>7. QED BY <1>4, <1>6

\* A list of items.
IsItems(items) == IsSequence(items) /\ \A i \in DOMAIN items : items[i].id # NoParent

\* The items of a row are items, and in a list of runs the parents come first.
LEMMA ItemsAre ==
  ASSUME NEW r, IsRow(r), NEW format
  PROVE  /\ IsItems(ItemsOf(format, r))
         /\ format = "runs" => \A i \in DOMAIN ItemsOf(format, r) : ItemsOf(format, r)[i].parent \in 0 .. i - 1
<1>1. \A name \in DOMAIN r.lists : IsItems(r.lists[name])
  BY DEF IsRow, IsItems
<1>2. IsItems(<< >>)
  <2>1. IsSequence(<< >>)
    BY EmptySeq DEF IsSequence
  <2>2. DOMAIN << >> = {}
    OBVIOUS
  <2>3. QED BY <2>1, <2>2 DEF IsItems
<1>3. \A name \in DOMAIN r.lists : IsItems(List(r, name))
  <2> SUFFICES ASSUME NEW name \in DOMAIN r.lists PROVE IsItems(List(r, name))
    OBVIOUS
  <2> DEFINE s == r.lists[name]
             S == {s[i] : i \in DOMAIN s}
             V == {x \in ToSet(s) : x.parent = 1}
             k == Keep(s, V)
  <2>1. s \in Seq(S) /\ \A x \in S : x.id # NoParent
    BY <1>1 DEF IsItems, IsSequence
  <2>2. List(r, name) = IF name = "runs" THEN k ELSE s
    BY DEF List
  <2> HIDE DEF S, V, s
  <2>3. k \in Seq(S \cap V)
    BY <2>1, KeepType
  <2> HIDE DEF k
  <2>4. k \in [1 .. Len(k) -> S \cap V] /\ Len(k) \in Nat /\ DOMAIN k = 1 .. Len(k)
    BY <2>3, LenProperties
  <2>5. k = [i \in 1 .. Len(k) |-> k[i]] /\ \A i \in DOMAIN k : k[i] \in S
    BY <2>4
  <2>6. IsItems(k)
    BY <2>1, <2>4, <2>5, SequenceIs DEF IsItems
  <2>7. IsItems(s)
    BY <1>1 DEF s
  <2>8. QED BY <2>2, <2>6, <2>7
<1>5. IsItems(ItemsOf(format, r))
  <2> DEFINE name == ListName(format, r)
  <2>1. ItemsOf(format, r) = IF name \notin DOMAIN r.lists THEN << >>
                             ELSE IF format = "list" THEN List(r, name) ELSE r.lists[name]
    BY DEF ItemsOf
  <2> HIDE DEF name
  <2>2. QED BY <1>1, <1>2, <1>3, <2>1
<1>6. ASSUME format = "runs"
      PROVE  \A i \in DOMAIN ItemsOf(format, r) : ItemsOf(format, r)[i].parent \in 0 .. i - 1
  <2>1. ItemsOf(format, r) = IF "runs" \in DOMAIN r.lists THEN r.lists["runs"] ELSE << >>
    <3>1. ListName(format, r) = "runs"
      BY <1>6 DEF ListName
    <3>2. QED BY <1>6, <3>1 DEF ItemsOf
  <2>2. CASE "runs" \in DOMAIN r.lists
    BY <2>1, <2>2 DEF IsRow
  <2>3. CASE "runs" \notin DOMAIN r.lists
    BY <2>1, <2>3
  <2>4. QED BY <2>2, <2>3
<1>7. QED BY <1>5, <1>6

\* The last of the spans with the id of the parent.
LEMMA ParentOfIs ==
  ASSUME NEW items, IsItems(items), NEW i \in DOMAIN items
  PROVE  /\ ParentOf(items, i) \in 0 .. Len(items)
         /\ ParentOf(items, i) # 0 =>
              /\ items[ParentOf(items, i)].id = items[i].parent
              /\ \A j \in DOMAIN items : items[j].id = items[i].parent => j <= ParentOf(items, i)
<1> DEFINE named == {j \in DOMAIN items : items[j].id = items[i].parent}
           p == ParentOf(items, i)
<1>1. Len(items) \in Nat /\ DOMAIN items = 1 .. Len(items)
  BY SequenceIs DEF IsItems
<1>2. p = IF named = {} THEN 0 ELSE Max(named)
  BY DEF ParentOf
<1>3. CASE named = {}
  <2>1. p = 0 /\ 0 \in 0 .. Len(items)
    BY <1>1, <1>2, <1>3
  <2>2. QED BY <2>1
<1>4. CASE named # {}
  <2>1. named \in SUBSET (1 .. Len(items))
    BY <1>1
  <2> HIDE DEF named
  <2>2. p \in named /\ \A x \in named : x <= p
    BY <1>1, <1>2, <1>4, <2>1, GreatestMember
  <2>3. p \in 1 .. Len(items)
    BY <2>1, <2>2
  <2> HIDE DEF p
  <2>4. p \in 0 .. Len(items)
    BY <1>1, <2>3
  <2>5. QED BY <2>2, <2>4 DEF named, p
<1>5. QED BY <1>3, <1>4

\* The spans of a conversion are the items, after a root or not; parents come
\* before their children, but in a list of spans.
Converts(f, format, items, d) ==
  /\ IsForest(f)
  /\ Len(f.spans) = Len(items) + d
  /\ \A i \in 1 .. Len(items) + d : f.spans[i].item = i - d
  /\ \/ \A i \in 1 .. Len(items) + d : f.up[i] < i
     \/ format = "spans" /\ d = 0 /\ \A i \in 1 .. Len(items) : f.up[i] = ParentOf(items, i)

\* The conversion of a list of turns.
LEMMA TurnsConvert ==
  ASSUME NEW format, NEW r, NEW b, NEW n, IsItems(ItemsOf(format, r))
  PROVE  Converts(Turns(format, r, b, n), format, ItemsOf(format, r), 1)
<1> DEFINE items == ItemsOf(format, r)
           f == Turns(format, r, b, n)
           N == Len(items)
           root == Fresh(b, n, 0)
           data == RootData(format, r)
           s == <<Span(root, NoParent, data, 0)>>
           t == [i \in DOMAIN items |-> Span(Fresh(b, n, i), root, StepData(format, items, i), i)]
<1>1. N \in Nat /\ DOMAIN items = 1 .. N
  BY SequenceIs DEF IsItems
<1>2. IsSequence(t) /\ Len(t) = N
  <2>1. t = [i \in 1 .. N |-> t[i]]
    BY <1>1
  <2>2. QED BY <1>1, <2>1, SequenceIs
<1>3. f.spans = s \o t /\ f.up = [i \in 1 .. N + 1 |-> IF i = 1 THEN 0 ELSE 1]
  BY DEF Turns
<1>4. \A i \in 1 .. N : t[i] = Span(Fresh(b, n, i), root, StepData(format, items, i), i)
  BY <1>1
<1> HIDE DEF f, t, N, items, data
<1>5. DOMAIN (s \o t) = 1 .. N + 1
      /\ \A i \in 1 .. N + 1 : (s \o t)[i] = IF i = 1 THEN Span(root, NoParent, data, 0) ELSE t[i - 1]
  BY <1>1, <1>2
<1>6. IsSequence(f.spans) /\ Len(f.spans) = N + 1
  <2>1. f.spans = [i \in 1 .. N + 1 |-> f.spans[i]]
    <3> DEFINE T == {t[i] : i \in DOMAIN t}
               S == {Span(root, NoParent, data, 0)} \cup T
    <3>1. t \in Seq(T) /\ T \subseteq S /\ s \in Seq(S)
      BY <1>2 DEF IsSequence
    <3> HIDE DEF T, S
    <3>2. s \in Seq(S) /\ t \in Seq(S)
      BY <3>1, SeqMonotonic
    <3> HIDE DEF s
    <3>3. s \o t \in Seq(S)
      BY <3>2, ConcatProperties
    <3>4. s \o t \in [1 .. Len(s \o t) -> S] /\ DOMAIN (s \o t) = 1 .. Len(s \o t)
      BY <3>3, LenProperties
    <3>5. QED BY <1>3, <1>5, <3>4
  <2>2. QED BY <1>1, <2>1, SequenceIs
<1>7. IsUp(f.up, N + 1) /\ \A i \in 1 .. N + 1 : f.up[i] = IF i = 1 THEN 0 ELSE 1
  BY <1>1, <1>3 DEF IsUp
<1>8. \A i \in 1 .. N + 1 : /\ i = 1 => f.spans[i].id = root /\ f.spans[i].parent = NoParent /\ f.spans[i].item = 0
                            /\ i # 1 => f.spans[i].parent = root /\ f.spans[i].item = i - 1
  <2> SUFFICES ASSUME NEW i \in 1 .. N + 1
               PROVE  /\ i = 1 => f.spans[i].id = root /\ f.spans[i].parent = NoParent /\ f.spans[i].item = 0
                      /\ i # 1 => f.spans[i].parent = root /\ f.spans[i].item = i - 1
    OBVIOUS
  <2>1. CASE i = 1
    BY <1>3, <1>5, <2>1 DEF Span
  <2>2. CASE i # 1
    <3>1. i - 1 \in 1 .. N
      BY <1>1, <2>2
    <3>2. f.spans[i] = Span(Fresh(b, n, i - 1), root, StepData(format, items, i - 1), i - 1)
      BY <1>3, <1>4, <1>5, <2>2, <3>1
    <3>3. QED BY <2>2, <3>2 DEF Span
  <2>3. QED BY <2>1, <2>2
<1>9. root # NoParent
  BY DEF Fresh, NoParent
<1>10. ParentsAre(f, N + 1)
  <2>1. 1 \in 1 .. N + 1
    BY <1>1
  <2>2. QED BY <1>7, <1>8, <1>9, <2>1 DEF ParentsAre
<1>11. \A i \in 1 .. N + 1 : f.up[i] < i /\ f.spans[i].item = i - 1
  BY <1>1, <1>7, <1>8
<1>12. IsForest(f)
  BY <1>6, <1>7, <1>10 DEF IsForest
<1>13. QED BY <1>6, <1>11, <1>12 DEF Converts, f, N, items

\* The conversion of a list of runs.
LEMMA RunsConvert ==
  ASSUME NEW items, IsItems(items), NEW trace, \A i \in DOMAIN items : items[i].parent \in 0 .. i - 1
  PROVE  Converts(Runs(trace, items), "runs", items, 0)
<1> DEFINE f == Runs(trace, items)
           N == Len(items)
<1>1. N \in Nat /\ DOMAIN items = 1 .. N /\ \A i \in 1 .. N : items[i].id # NoParent
  BY SequenceIs DEF IsItems
<1>2. /\ f.spans = [i \in 1 .. N |->
                     Span(items[i].id, IF items[i].parent = 0 THEN NoParent ELSE items[items[i].parent].id,
                          items[i].data, i)]
      /\ f.up = [i \in 1 .. N |-> items[i].parent]
  BY <1>1 DEF Runs
<1> HIDE DEF f, N
<1>3. IsSequence(f.spans) /\ Len(f.spans) = N
  <2>1. f.spans = [i \in 1 .. N |-> f.spans[i]]
    BY <1>2
  <2>2. QED BY <1>1, <2>1, SequenceIs
<1>4. \A i \in 1 .. N : f.up[i] = items[i].parent /\ f.up[i] \in 0 .. N /\ f.up[i] < i
  BY <1>1, <1>2
<1>5. IsUp(f.up, N)
  BY <1>1, <1>2, <1>4 DEF IsUp
<1>6. \A i \in 1 .. N : /\ f.spans[i].id = items[i].id /\ f.spans[i].item = i
                        /\ f.spans[i].parent = IF items[i].parent = 0 THEN NoParent
                                               ELSE items[items[i].parent].id
  BY <1>2 DEF Span
<1>7. ParentsAre(f, N)
  <2>1. \A i \in 1 .. N : f.up[i] # 0 => f.up[i] \in 1 .. N
    BY <1>1, <1>4
  <2>2. QED BY <1>1, <1>4, <1>6, <2>1 DEF ParentsAre
<1>8. N + 0 = N /\ \A i \in 1 .. N : i - 0 = i
  BY <1>1
<1>9. QED BY <1>3, <1>4, <1>5, <1>6, <1>7, <1>8 DEF Converts, IsForest, f, N

\* The conversion of a list of spans.
LEMMA StructuredConvert ==
  ASSUME NEW items, IsItems(items), NEW trace
  PROVE  Converts(Structured(trace, items), "spans", items, 0)
<1> DEFINE f == Structured(trace, items)
           N == Len(items)
           p(i) == ParentOf(items, i)
<1>1. N \in Nat /\ DOMAIN items = 1 .. N /\ \A i \in 1 .. N : items[i].id # NoParent
  BY SequenceIs DEF IsItems
<1>2. /\ f.spans = [i \in 1 .. N |->
                     Span(items[i].id, IF p(i) = 0 THEN NoParent ELSE items[i].parent, items[i].data, i)]
      /\ f.up = [i \in 1 .. N |-> p(i)]
  BY <1>1 DEF Structured
<1>3. \A i \in 1 .. N : p(i) \in 0 .. N /\ (p(i) # 0 => items[p(i)].id = items[i].parent)
  BY <1>1, ParentOfIs
<1> HIDE DEF f, N, p
<1>4. IsSequence(f.spans) /\ Len(f.spans) = N
  <2>1. f.spans = [i \in 1 .. N |-> f.spans[i]]
    BY <1>2
  <2>2. QED BY <1>1, <2>1, SequenceIs
<1>5. IsUp(f.up, N) /\ \A i \in 1 .. N : f.up[i] = p(i)
  BY <1>1, <1>2, <1>3 DEF IsUp
<1>6. \A i \in 1 .. N : /\ f.spans[i].id = items[i].id /\ f.spans[i].item = i
                        /\ f.spans[i].parent = IF p(i) = 0 THEN NoParent ELSE items[i].parent
  BY <1>2 DEF Span
<1>7. ParentsAre(f, N)
  <2>1. \A i \in 1 .. N : p(i) # 0 => p(i) \in 1 .. N
    BY <1>1, <1>3
  <2>2. QED BY <1>1, <1>3, <1>5, <1>6, <2>1 DEF ParentsAre
<1>8. N + 0 = N /\ \A i \in 1 .. N : i - 0 = i
  BY <1>1
<1>9. QED BY <1>4, <1>5, <1>6, <1>7, <1>8 DEF Converts, IsForest, f, N, p

\* A row that raises has no root; any other becomes a forest of its items.
LEMMA ConvertIs ==
  ASSUME NEW r, IsRow(r), NEW format, NEW b, NEW n
  PROVE  /\ r.raises => Roots(Convert(format, r, b, n)) = {}
         /\ ~r.raises => \E d \in {0, 1} : Converts(Convert(format, r, b, n), format, ItemsOf(format, r), d)
<1> DEFINE items == ItemsOf(format, r)
<1>1. r.raises \in BOOLEAN
  BY DEF IsRow
<1>2. /\ IsItems(items)
      /\ format = "runs" => \A i \in DOMAIN items : items[i].parent \in 0 .. i - 1
  BY ItemsAre
<1>3. Convert(format, r, b, n) =
        CASE r.raises -> NoForest
          [] ~r.raises /\ format = "spans" /\ items # << >> -> Structured(r.trace, items)
          [] ~r.raises /\ format = "runs" /\ items # << >>  -> Runs(r.trace, items)
          [] OTHER -> Turns(format, r, b, n)
  BY DEF Convert
<1> HIDE DEF items
<1>4. CASE r.raises
  BY <1>3, <1>4 DEF NoForest, Roots
<1>5. CASE ~r.raises
  <2>1. \/ format = "spans" /\ Convert(format, r, b, n) = Structured(r.trace, items)
        \/ format = "runs" /\ Convert(format, r, b, n) = Runs(r.trace, items)
        \/ Convert(format, r, b, n) = Turns(format, r, b, n)
    BY <1>3, <1>5
  <2>2. QED BY <1>2, <1>5, <2>1, TurnsConvert, RunsConvert, StructuredConvert DEF items
<1>6. QED BY <1>1, <1>4, <1>5

-----------------------------------------------------------------------------
(* Writing a batch and reading it again.                                    *)

\* What a valid batch is: every row of it can be read back.
AreTrees(v) == IsSequence(v) /\ \A k \in 1 .. Len(v) : IsTree(Shown(v[k].forest))

\* One sequence after the other.
LEMMA ConcatIs ==
  ASSUME NEW s, NEW t, IsSequence(s), IsSequence(t)
  PROVE  /\ IsSequence(s \o t)
         /\ Len(s \o t) = Len(s) + Len(t)
         /\ \A i \in 1 .. Len(s) : (s \o t)[i] = s[i]
         /\ \A i \in 1 .. Len(t) : (s \o t)[Len(s) + i] = t[i]
<1> DEFINE P == {s[i] : i \in DOMAIN s}
           Q == {t[i] : i \in DOMAIN t}
           S == P \cup Q
<1>1. s \in Seq(P) /\ t \in Seq(Q) /\ P \subseteq S /\ Q \subseteq S
  BY DEF IsSequence
<1> HIDE DEF P, Q, S
<1>2. s \in Seq(S) /\ t \in Seq(S)
  BY <1>1, SeqMonotonic
<1>3. /\ s \o t \in Seq(S) /\ Len(s \o t) = Len(s) + Len(t)
      /\ \A i \in 1 .. Len(s) + Len(t) : (s \o t)[i] = IF i <= Len(s) THEN s[i] ELSE t[i - Len(s)]
  BY <1>2, ConcatProperties
<1>4. Len(s) \in Nat /\ Len(t) \in Nat
  BY <1>2, LenProperties
<1>5. s \o t \in [1 .. Len(s \o t) -> S] /\ Len(s \o t) \in Nat
  BY <1>3, LenProperties
<1>6. s \o t = [i \in 1 .. Len(s \o t) |-> (s \o t)[i]]
  BY <1>5
<1>7. IsSequence(s \o t)
  BY <1>5, <1>6, SequenceIs
<1>8. /\ \A i \in 1 .. Len(s) : i \in 1 .. Len(s) + Len(t) /\ i <= Len(s)
      /\ \A i \in 1 .. Len(t) : /\ Len(s) + i \in 1 .. Len(s) + Len(t)
                                /\ ~(Len(s) + i <= Len(s)) /\ (Len(s) + i) - Len(s) = i
  BY <1>4
<1>9. QED BY <1>3, <1>7, <1>8

\* The rows of a tree give the tree again.
LEMMA BuildTreesIs ==
  ASSUME NEW f, IsTree(f), NEW rows, DOMAIN rows = 1 .. Len(f.spans), rows[1].trace = f.trace,
         \A i \in 1 .. Len(f.spans) : rows[i].span = f.spans[i]
  PROVE  BuildTrees(rows) = f
<1> DEFINE N == Len(f.spans)
           parent(i) == IF rows[i].span.parent = NoParent THEN {}
                        ELSE {j \in DOMAIN rows : rows[j].span.id = rows[i].span.parent}
           up == [i \in DOMAIN rows |-> IF parent(i) = {} THEN 0 ELSE Max(parent(i))]
<1>1. /\ N \in Nat /\ f.spans = [i \in 1 .. N |-> f.spans[i]]
      /\ f.up \in [1 .. N -> 0 .. N] /\ ParentsAre(f, N)
      /\ f = [trace |-> f.trace, spans |-> f.spans, up |-> f.up]
      /\ \A i, j \in 1 .. N : f.spans[i].id = f.spans[j].id => i = j
  BY SequenceIs DEF IsTree, IsForest, IsUp
<1>2. BuildTrees(rows) = [trace |-> rows[1].trace, spans |-> [i \in DOMAIN rows |-> rows[i].span], up |-> up]
  BY DEF BuildTrees
<1>3. ASSUME NEW i \in 1 .. N PROVE up[i] = f.up[i]
  <2>1. up[i] = IF parent(i) = {} THEN 0 ELSE Max(parent(i))
    OBVIOUS
  <2>2. parent(i) = IF f.spans[i].parent = NoParent THEN {}
                    ELSE {j \in 1 .. N : f.spans[j].id = f.spans[i].parent}
    OBVIOUS
  <2> HIDE DEF up, parent, N
  <2>3. CASE f.up[i] = 0
    BY <1>1, <2>1, <2>2, <2>3 DEF ParentsAre
  <2>4. CASE f.up[i] # 0
    <3>1. f.up[i] \in 1 .. N
      BY <1>1, <2>4
    <3>2. f.spans[i].parent # NoParent /\ f.spans[i].parent = f.spans[f.up[i]].id
      BY <1>1, <2>4 DEF ParentsAre
    <3>3. \A j \in 1 .. N : f.spans[j].id = f.spans[i].parent <=> j = f.up[i]
      BY <1>1, <3>1, <3>2
    <3>4. parent(i) = {f.up[i]}
      BY <2>2, <3>1, <3>2, <3>3
    <3>5. Max({f.up[i]}) = f.up[i]
      <4>1. {f.up[i]} \in SUBSET (1 .. N) /\ {f.up[i]} # {}
        BY <3>1
      <4>2. Max({f.up[i]}) \in {f.up[i]}
        BY <1>1, <4>1, GreatestMember
      <4>3. QED BY <4>2
    <3>6. QED BY <2>1, <3>4, <3>5
  <2>5. QED BY <2>3, <2>4
<1>4. up = f.up
  <2>1. up = [i \in 1 .. N |-> up[i]] /\ f.up = [i \in 1 .. N |-> f.up[i]]
    BY <1>1
  <2> HIDE DEF up, N
  <2>2. QED BY <1>3, <2>1
<1>5. [i \in DOMAIN rows |-> rows[i].span] = f.spans
  BY <1>1
<1> HIDE DEF up
<1>6. QED BY <1>1, <1>2, <1>4, <1>5

\* The rows of a trace.
LEMMA FlatTraceIs ==
  ASSUME NEW v, NEW k, IsTree(Shown(v[k].forest))
  PROVE  LET f == Shown(v[k].forest)
         IN  /\ IsSequence(FlatTrace(v, k))
             /\ Len(FlatTrace(v, k)) = Len(f.spans) /\ Len(f.spans) \in Nat \ {0}
             /\ \A i \in 1 .. Len(f.spans) :
                  FlatTrace(v, k)[i] = [trace |-> f.trace, idx |-> k - 1, span |-> f.spans[i]]
<1> DEFINE f == Shown(v[k].forest)
           t == FlatTrace(v, k)
<1>1. IsTree(f)
  OBVIOUS
<1>2. t = [i \in DOMAIN f.spans |-> [trace |-> f.trace, idx |-> k - 1, span |-> f.spans[i]]]
  BY DEF FlatTrace
<1> HIDE DEF f, t
<1>3. /\ Len(f.spans) \in Nat /\ DOMAIN f.spans = 1 .. Len(f.spans)
      /\ \E i \in 1 .. Len(f.spans) : TRUE
  BY <1>1, SequenceIs DEF IsTree, IsForest
<1>4. Len(f.spans) # 0
  BY <1>3
<1>5. t = [i \in 1 .. Len(f.spans) |-> t[i]]
  BY <1>2, <1>3
<1>6. IsSequence(t) /\ Len(t) = Len(f.spans)
  BY <1>3, <1>5, SequenceIs
<1>7. QED BY <1>2, <1>3, <1>4, <1>6 DEF f, t

\* The recursion of Flatten: one trace after the other.
LEMMA FlattenRecursion ==
  ASSUME NEW v, Len(v) \in Nat
  PROVE  \E flat :
           /\ Flatten(v) = flat[Len(v)]
           /\ flat[0] = << >>
           /\ \A k \in 1 .. Len(v) : flat[k] = flat[k - 1] \o FlatTrace(v, k)
<1> DEFINE Step(g, n) == g[n - 1] \o FlatTrace(v, n)
           IsFlat(g, m) == g = [k \in 0 .. m |-> IF k = 0 THEN << >> ELSE Step(g, k)]
           U == {m \in Nat : \E g : IsFlat(g, m)}
           flat == CHOOSE g : IsFlat(g, Len(v))
<1>1. 0 \in U
  <2>1. IsFlat([n \in 0 .. 0 |-> << >>], 0)
    OBVIOUS
  <2>2. QED BY <2>1
<1>2. ASSUME NEW m \in Nat, m \in U PROVE m + 1 \in U
  <2>1. PICK g : IsFlat(g, m)
    BY <1>2
  <2> DEFINE h == [n \in 0 .. m + 1 |-> IF n = m + 1 THEN Step(g, n) ELSE g[n]]
  <2>2. \A n \in 0 .. m : g[n] = IF n = 0 THEN << >> ELSE Step(g, n)
    BY <2>1
  <2>3. (\A n \in 0 .. m : h[n] = g[n]) /\ h[m + 1] = Step(g, m + 1)
    <3> HIDE DEF Step
    <3>1. QED OBVIOUS
  <2>4. \A n \in 1 .. m + 1 : Step(h, n) = Step(g, n)
    <3>1. \A n \in 1 .. m + 1 : n - 1 \in 0 .. m
      OBVIOUS
    <3> HIDE DEF h
    <3>2. \A n \in 1 .. m + 1 : h[n - 1] = g[n - 1]
      BY <2>3, <3>1
    <3>3. QED BY <3>2
  <2> HIDE DEF Step
  <2>5. IsFlat(h, m + 1)
    <3>1. \A n \in 0 .. m + 1 : h[n] = IF n = 0 THEN << >> ELSE Step(h, n)
      BY <2>2, <2>3, <2>4
    <3>2. QED BY <3>1
  <2> HIDE DEF IsFlat
  <2>6. QED BY <2>5
<1>3. IsFlat(flat, Len(v))
  <2> HIDE DEF U, IsFlat
  <2>1. \A m \in Nat : m \in U
    BY <1>1, <1>2, NaturalInduction
  <2>2. QED BY <2>1 DEF U
<1>4. Flatten(v) = flat[Len(v)]
  BY DEF Flatten
<1> HIDE DEF flat
<1>5. flat[0] = << >> /\ \A n \in 1 .. Len(v) : flat[n] = Step(flat, n)
  <2> HIDE DEF Step
  <2>1. 0 \in 0 .. Len(v) /\ \A n \in 1 .. Len(v) : n \in 0 .. Len(v) /\ n # 0
    OBVIOUS
  <2>2. QED BY <1>3, <2>1
<1>6. QED BY <1>4, <1>5

\* The rows of a file are those of its traces, one trace after the other; off is
\* where each ends.
Blocks(v, rows, off) ==
  /\ off \in [0 .. Len(v) -> Nat] /\ off[0] = 0
  /\ IsSequence(rows) /\ Len(rows) = off[Len(v)]
  /\ \A k \in 1 .. Len(v) :
       /\ Len(FlatTrace(v, k)) \in Nat \ {0} /\ off[k] = off[k - 1] + Len(FlatTrace(v, k))
       /\ \A i \in 1 .. Len(FlatTrace(v, k)) :
            off[k - 1] + i \in 1 .. Len(rows) /\ rows[off[k - 1] + i] = FlatTrace(v, k)[i]
  /\ \A n \in 1 .. Len(rows) : \E k \in 1 .. Len(v) : n \in off[k - 1] + 1 .. off[k]

\* What a batch writes is in blocks, one for each trace.
LEMMA FlattenIs ==
  ASSUME NEW v, AreTrees(v)
  PROVE  \E off : Blocks(v, Flatten(v), off)
<1> DEFINE K == Len(v)
           T(k) == FlatTrace(v, k)
<1>1. K \in Nat /\ \A k \in 1 .. K : IsSequence(T(k)) /\ Len(T(k)) \in Nat \ {0}
  BY SequenceIs, FlatTraceIs DEF AreTrees
<1>2. PICK flat :
        /\ Flatten(v) = flat[K]
        /\ flat[0] = << >>
        /\ \A k \in 1 .. K : flat[k] = flat[k - 1] \o T(k)
  BY <1>1, FlattenRecursion
<1> HIDE DEF T
<1> DEFINE Good(m) ==
             /\ IsSequence(flat[m]) /\ Len(flat[m]) \in Nat
             /\ \A k \in 1 .. m : \A i \in 1 .. Len(T(k)) :
                  Len(flat[k - 1]) + i \in 1 .. Len(flat[m]) /\ flat[m][Len(flat[k - 1]) + i] = T(k)[i]
             /\ \A n \in 1 .. Len(flat[m]) : \E k \in 1 .. m : n \in Len(flat[k - 1]) + 1 .. Len(flat[k])
           U == {m \in Nat : m <= K => Good(m)}
<1> HIDE DEF Good
<1>3. 0 \in U
  <2>1. IsSequence(<< >>) /\ Len(<< >>) = 0
    BY EmptySeq DEF IsSequence
  <2>2. Good(0)
    BY <1>2, <2>1 DEF Good
  <2>3. QED BY <2>2
<1>4. ASSUME NEW m \in Nat, m \in U PROVE m + 1 \in U
  <2> SUFFICES ASSUME m + 1 <= K PROVE Good(m + 1)
    OBVIOUS
  <2>1. m + 1 \in 1 .. K /\ (m + 1) - 1 = m /\ m <= K
    BY <1>1
  <2>2. Good(m)
    BY <1>4, <2>1
  <2> DEFINE s == flat[m]
             t == T(m + 1)
             u == flat[m + 1]
  <2>3. u = s \o t
    BY <1>2, <2>1
  <2>4. IsSequence(s) /\ IsSequence(t) /\ Len(s) \in Nat /\ Len(t) \in Nat \ {0}
    BY <1>1, <2>1, <2>2 DEF Good
  <2> HIDE DEF s, t, u
  <2>5. /\ IsSequence(u) /\ Len(u) = Len(s) + Len(t)
        /\ \A i \in 1 .. Len(s) : u[i] = s[i]
        /\ \A i \in 1 .. Len(t) : u[Len(s) + i] = t[i]
    BY <2>3, <2>4, ConcatIs
  <2>6. Len(u) \in Nat /\ (\A i \in 1 .. Len(s) : i \in 1 .. Len(u))
        /\ (\A i \in 1 .. Len(t) : Len(s) + i \in 1 .. Len(u))
        /\ \A i \in 1 .. Len(u) : i \in 1 .. Len(s) \/ i \in Len(s) + 1 .. Len(u)
    BY <2>4, <2>5
  <2>7. ASSUME NEW k \in 1 .. m + 1, NEW i \in 1 .. Len(T(k))
        PROVE  Len(flat[k - 1]) + i \in 1 .. Len(u) /\ u[Len(flat[k - 1]) + i] = T(k)[i]
    <3>1. CASE k \in 1 .. m
      <4>1. Len(flat[k - 1]) + i \in 1 .. Len(s) /\ s[Len(flat[k - 1]) + i] = T(k)[i]
        BY <2>2, <3>1 DEF Good, s
      <4>2. QED BY <2>5, <2>6, <4>1
    <3>2. CASE k = m + 1
      <4>1. flat[k - 1] = s /\ T(k) = t
        BY <2>1, <3>2 DEF s, t
      <4>2. QED BY <2>5, <2>6, <4>1
    <3>3. k \in 1 .. m \/ k = m + 1
      OBVIOUS
    <3>4. QED BY <3>1, <3>2, <3>3
  <2>8. ASSUME NEW n \in 1 .. Len(u)
        PROVE  \E k \in 1 .. m + 1 : n \in Len(flat[k - 1]) + 1 .. Len(flat[k])
    <3>1. CASE n \in 1 .. Len(s)
      <4>1. PICK k \in 1 .. m : n \in Len(flat[k - 1]) + 1 .. Len(flat[k])
        BY <2>2, <3>1 DEF Good, s
      <4>2. k \in 1 .. m + 1
        OBVIOUS
      <4>3. QED BY <4>1, <4>2
    <3>2. CASE n \in Len(s) + 1 .. Len(u)
      <4>1. m + 1 \in 1 .. m + 1 /\ flat[(m + 1) - 1] = s /\ flat[m + 1] = u
        BY <2>1 DEF s, u
      <4>2. QED BY <3>2, <4>1
    <3>3. QED BY <2>6, <3>1, <3>2
  <2>9. QED BY <2>5, <2>6, <2>7, <2>8 DEF Good, u
<1> HIDE DEF U
<1>5. \A m \in Nat : m \in U
  BY <1>3, <1>4, NaturalInduction
<1>6. \A m \in 0 .. K : Good(m)
  BY <1>1, <1>5 DEF U
<1> DEFINE off == [k \in 0 .. K |-> Len(flat[k])]
<1>7. \A k \in 1 .. K : k \in 0 .. K /\ k - 1 \in 0 .. K
  BY <1>1
<1>8. 0 \in 0 .. K /\ K \in 0 .. K
  BY <1>1
<1>9. off \in [0 .. K -> Nat] /\ off[0] = 0 /\ \A k \in 0 .. K : off[k] = Len(flat[k])
  <2>1. Len(<< >>) = 0
    BY EmptySeq
  <2>2. QED BY <1>2, <1>6, <1>8, <2>1 DEF Good
<1> HIDE DEF off
<1>10. \A k \in 1 .. K : off[k] = off[k - 1] + Len(T(k))
  <2> SUFFICES ASSUME NEW k \in 1 .. K PROVE off[k] = off[k - 1] + Len(T(k))
    OBVIOUS
  <2>1. IsSequence(flat[k - 1]) /\ IsSequence(T(k)) /\ flat[k] = flat[k - 1] \o T(k)
    BY <1>1, <1>2, <1>6, <1>7 DEF Good
  <2>2. Len(flat[k]) = Len(flat[k - 1]) + Len(T(k))
    BY <2>1, ConcatIs
  <2>3. QED BY <1>7, <1>9, <2>2
<1>11. Good(K)
  BY <1>6, <1>8
<1>12. Blocks(v, flat[K], off)
  BY <1>1, <1>7, <1>8, <1>9, <1>10, <1>11 DEF Blocks, Good, T
<1>13. QED BY <1>2, <1>12

\* The key of the k-th trace of a file.
FileKey(v, k) == <<Shown(v[k].forest).trace, k - 1>>

\* The rows of a trace are those that bear its number.
LEMMA RowsAre ==
  ASSUME NEW v, AreTrees(v), NEW rows, NEW off, Blocks(v, rows, off), NEW k \in 1 .. Len(v)
  PROVE  LET f == Shown(v[k].forest)
         IN  /\ off[k - 1] \in Nat /\ off[k] \in Nat /\ off[k] = off[k - 1] + Len(f.spans)
             /\ off[k] <= Len(rows) /\ off[k - 1] < off[k]
             /\ \A i \in 1 .. Len(f.spans) :
                  /\ off[k - 1] + i \in 1 .. Len(rows)
                  /\ rows[off[k - 1] + i] = [trace |-> f.trace, idx |-> k - 1, span |-> f.spans[i]]
             /\ \A n \in 1 .. Len(rows) :
                  /\ n \in off[k - 1] + 1 .. off[k] => rows[n].idx = k - 1 /\ KeyOf(rows[n]) = FileKey(v, k)
                  /\ rows[n].idx = k - 1 \/ KeyOf(rows[n]) = FileKey(v, k) => n \in off[k - 1] + 1 .. off[k]
<1> DEFINE f(j) == Shown(v[j].forest)
           K == Len(v)
           m(j) == Len(f(j).spans)
<1>1. K \in Nat /\ \A j \in 1 .. K : IsTree(f(j))
  BY SequenceIs DEF AreTrees
<1>2. \A j \in 1 .. K : /\ Len(FlatTrace(v, j)) = m(j) /\ m(j) \in Nat \ {0}
                        /\ \A i \in 1 .. m(j) :
                             FlatTrace(v, j)[i] = [trace |-> f(j).trace, idx |-> j - 1, span |-> f(j).spans[i]]
  BY <1>1, FlatTraceIs
<1> HIDE DEF f, m, K
<1>3. \A j \in 1 .. K : off[j - 1] \in Nat /\ off[j] \in Nat
  <2>1. off \in [0 .. K -> Nat] /\ \A j \in 1 .. K : j - 1 \in 0 .. K /\ j \in 0 .. K
    BY <1>1 DEF Blocks, K
  <2>2. QED BY <2>1
<1>4. \A j \in 1 .. K :
        /\ off[j] = off[j - 1] + m(j)
        /\ \A i \in 1 .. m(j) :
             /\ off[j - 1] + i \in 1 .. Len(rows)
             /\ rows[off[j - 1] + i] = [trace |-> f(j).trace, idx |-> j - 1, span |-> f(j).spans[i]]
  <2> TAKE j \in 1 .. K
  <2>1. /\ off[j] = off[j - 1] + Len(FlatTrace(v, j))
        /\ \A i \in 1 .. Len(FlatTrace(v, j)) :
             off[j - 1] + i \in 1 .. Len(rows) /\ rows[off[j - 1] + i] = FlatTrace(v, j)[i]
    BY DEF Blocks, K
  <2> HIDE DEF Blocks
  <2>2. /\ Len(FlatTrace(v, j)) = m(j)
        /\ \A i \in 1 .. m(j) :
             FlatTrace(v, j)[i] = [trace |-> f(j).trace, idx |-> j - 1, span |-> f(j).spans[i]]
    BY <1>2
  <2> QED
    BY <2>1, <2>2
<1>5. \A n \in 1 .. Len(rows) : \E j \in 1 .. K : n \in off[j - 1] + 1 .. off[j]
  BY DEF Blocks, K
<1>6. Len(rows) \in Nat
  BY SequenceIs DEF Blocks
<1>7. ASSUME NEW j \in 1 .. K, NEW n \in off[j - 1] + 1 .. off[j]
      PROVE  rows[n].idx = j - 1 /\ KeyOf(rows[n]) = <<f(j).trace, j - 1>>
  <2> DEFINE i == n - off[j - 1]
  <2>1. i \in 1 .. m(j) /\ off[j - 1] + i = n
    BY <1>2, <1>3, <1>4
  <2> HIDE DEF i
  <2>2. rows[n] = [trace |-> f(j).trace, idx |-> j - 1, span |-> f(j).spans[i]]
    BY <1>4, <2>1
  <2>3. QED BY <2>2 DEF KeyOf
<1>8. k \in 1 .. K
  BY DEF K
<1>9. ASSUME NEW n \in 1 .. Len(rows), rows[n].idx = k - 1 \/ KeyOf(rows[n]) = <<f(k).trace, k - 1>>
      PROVE  n \in off[k - 1] + 1 .. off[k]
  <2>1. PICK j \in 1 .. K : n \in off[j - 1] + 1 .. off[j]
    BY <1>5
  <2>2. rows[n].idx = j - 1 /\ KeyOf(rows[n])[2] = j - 1
    BY <1>7, <2>1
  <2>3. j - 1 = k - 1
    BY <1>9, <2>2
  <2>4. j = k
    BY <1>1, <1>8, <2>3
  <2>5. QED BY <2>1, <2>4
<1>10. off[k] <= Len(rows) /\ off[k - 1] < off[k]
  <2>1. m(k) \in 1 .. m(k) /\ m(k) \in Nat \ {0}
    BY <1>2, <1>8
  <2>2. off[k] \in 1 .. Len(rows) /\ off[k] = off[k - 1] + m(k)
    BY <1>4, <1>8, <2>1
  <2>3. QED BY <1>3, <1>6, <1>8, <2>1, <2>2
<1>11. \A n \in off[k - 1] + 1 .. off[k] : rows[n].idx = k - 1 /\ KeyOf(rows[n]) = <<f(k).trace, k - 1>>
  BY <1>7, <1>8
<1>12. QED BY <1>3, <1>4, <1>8, <1>9, <1>10, <1>11 DEF f, m, FileKey

\* Asking for the rows with its key gives the trace again.
LEMMA RowsOfIs ==
  ASSUME NEW v, AreTrees(v), NEW rows, NEW off, Blocks(v, rows, off), NEW k \in 1 .. Len(v)
  PROVE  BuildTrees(RowsOf(rows, FileKey(v, k))) = Shown(v[k].forest)
<1> DEFINE f == Shown(v[k].forest)
           V == {rows[i] : i \in {j \in DOMAIN rows : KeyOf(rows[j]) = FileKey(v, k)}}
           S == {rows[i] : i \in DOMAIN rows}
           lo == off[k - 1]
           hi == off[k]
           L == Len(f.spans)
           line(i) == [trace |-> f.trace, idx |-> k - 1, span |-> f.spans[i]]
           part == RowsOf(rows, FileKey(v, k))
<1>1. lo \in Nat /\ hi \in Nat /\ hi = lo + L /\ hi <= Len(rows) /\ lo < hi
      /\ \A i \in 1 .. L : rows[lo + i] = line(i)
  <2>1. lo \in Nat /\ hi \in Nat /\ hi = lo + L /\ hi <= Len(rows) /\ lo < hi
    BY RowsAre
  <2>2. \A i \in 1 .. L : rows[lo + i] = line(i)
    BY RowsAre
  <2>3. QED BY <2>1, <2>2
<1>2. \A n \in 1 .. Len(rows) : KeyOf(rows[n]) = FileKey(v, k) <=> n \in lo + 1 .. hi
  <2>1. \A n \in 1 .. Len(rows) : n \in lo + 1 .. hi => KeyOf(rows[n]) = FileKey(v, k)
    BY RowsAre
  <2>2. \A n \in 1 .. Len(rows) : KeyOf(rows[n]) = FileKey(v, k) => n \in lo + 1 .. hi
    BY RowsAre
  <2>3. QED BY <2>1, <2>2
<1>3. IsTree(f) /\ L \in Nat
  BY SequenceIs DEF AreTrees, IsTree, IsForest
<1>4. rows \in Seq(S) /\ DOMAIN rows = 1 .. Len(rows) /\ Len(rows) \in Nat
  BY SequenceIs DEF Blocks, IsSequence
<1>5. part = Keep(rows, V)
  BY DEF RowsOf
<1>6. \A n \in 1 .. Len(rows) : rows[n] \in V <=> n \in lo + 1 .. hi
  BY <1>2, <1>4
<1> HIDE DEF f, V, S, lo, hi, L, line, part
<1>7. /\ lo + 1 \in Nat \ {0} /\ lo + 1 <= hi + 1 /\ hi - (lo + 1) + 1 = L
      /\ \A i \in 1 .. L : (lo + 1) + i - 1 = lo + i
  BY <1>1, <1>3
<1> DEFINE c == lo + 1
<1>8. /\ c \in Nat \ {0} /\ c <= hi + 1 /\ hi - c + 1 = L
      /\ \A i \in 1 .. L : c + i - 1 = lo + i
      /\ \A n \in 1 .. Len(rows) : rows[n] \in V <=> n \in c .. hi
  BY <1>6, <1>7
<1> HIDE DEF c
<1>9. Keep(rows, V) = Part(rows, c, hi)
  <2>1. c \in Nat \ {0} /\ hi \in Nat /\ c <= hi + 1 /\ hi <= Len(rows)
    BY <1>1, <1>8
  <2>2. \A n \in 1 .. Len(rows) : rows[n] \in V <=> n \in c .. hi
    BY <1>8
  <2>3. rows \in Seq(S)
    BY <1>4
  <2>4. QED BY <2>1, <2>2, <2>3, KeepBlock
<1>10. DOMAIN part = 1 .. L /\ \A i \in 1 .. L : part[i] = line(i)
  BY <1>1, <1>5, <1>8, <1>9 DEF Part
<1>11. 1 \in 1 .. L
  BY <1>1, <1>3
<1>12. part[1].trace = f.trace /\ \A i \in 1 .. L : part[i].span = f.spans[i]
  BY <1>10, <1>11 DEF line
<1>13. BuildTrees(part) = f
  BY <1>3, <1>10, <1>12, BuildTreesIs DEF L
<1>14. QED BY <1>13 DEF f, part

\* The recursion of Begun: a row adds its key when it is new.
LEMMA BegunRecursion ==
  ASSUME NEW rows, Len(rows) \in Nat
  PROVE  \E keys :
           /\ Begun(rows) = keys[Len(rows)]
           /\ keys[0] = << >>
           /\ \A n \in 1 .. Len(rows) :
                keys[n] = IF KeyOf(rows[n]) \in ToSet(keys[n - 1]) THEN keys[n - 1]
                          ELSE Append(keys[n - 1], KeyOf(rows[n]))
<1> DEFINE Step(g, n) == IF KeyOf(rows[n]) \in ToSet(g[n - 1]) THEN g[n - 1]
                         ELSE Append(g[n - 1], KeyOf(rows[n]))
           IsBegun(g, m) == g = [n \in 0 .. m |-> IF n = 0 THEN << >> ELSE Step(g, n)]
           U == {m \in Nat : \E g : IsBegun(g, m)}
           keys == CHOOSE g : IsBegun(g, Len(rows))
<1>1. 0 \in U
  <2>1. IsBegun([n \in 0 .. 0 |-> << >>], 0)
    OBVIOUS
  <2>2. QED BY <2>1
<1>2. ASSUME NEW m \in Nat, m \in U PROVE m + 1 \in U
  <2>1. PICK g : IsBegun(g, m)
    BY <1>2
  <2> DEFINE h == [n \in 0 .. m + 1 |-> IF n = m + 1 THEN Step(g, n) ELSE g[n]]
  <2>2. \A n \in 0 .. m : g[n] = IF n = 0 THEN << >> ELSE Step(g, n)
    BY <2>1
  <2>3. (\A n \in 0 .. m : h[n] = g[n]) /\ h[m + 1] = Step(g, m + 1)
    <3> HIDE DEF Step
    <3>1. QED OBVIOUS
  <2>4. \A n \in 1 .. m + 1 : Step(h, n) = Step(g, n)
    <3>1. \A n \in 1 .. m + 1 : n - 1 \in 0 .. m
      OBVIOUS
    <3> HIDE DEF h
    <3>2. \A n \in 1 .. m + 1 : h[n - 1] = g[n - 1]
      BY <2>3, <3>1
    <3>3. QED BY <3>2
  <2> HIDE DEF Step
  <2>5. IsBegun(h, m + 1)
    <3>1. \A n \in 0 .. m + 1 : h[n] = IF n = 0 THEN << >> ELSE Step(h, n)
      BY <2>2, <2>3, <2>4
    <3>2. QED BY <3>1
  <2> HIDE DEF IsBegun
  <2>6. QED BY <2>5
<1>3. IsBegun(keys, Len(rows))
  <2> HIDE DEF U, IsBegun
  <2>1. \A m \in Nat : m \in U
    BY <1>1, <1>2, NaturalInduction
  <2>2. QED BY <2>1 DEF U
<1>4. Begun(rows) = keys[Len(rows)]
  BY DEF Begun
<1> HIDE DEF keys
<1>5. keys[0] = << >> /\ \A n \in 1 .. Len(rows) : keys[n] = Step(keys, n)
  <2> HIDE DEF Step
  <2>1. 0 \in 0 .. Len(rows) /\ \A n \in 1 .. Len(rows) : n \in 0 .. Len(rows) /\ n # 0
    OBVIOUS
  <2>2. QED BY <1>3, <2>1
<1>6. QED BY <1>4, <1>5

\* The traces of the file begin in the order in which they were written.
LEMMA BegunIs ==
  ASSUME NEW v, AreTrees(v), NEW rows, NEW off, Blocks(v, rows, off)
  PROVE  Begun(rows) = [k \in 1 .. Len(v) |-> FileKey(v, k)]
<1> DEFINE K == Len(v)
           N == Len(rows)
           Prefix(c) == [k \in 1 .. c |-> FileKey(v, k)]
<1>1. K \in Nat /\ N \in Nat /\ off \in [0 .. K -> Nat] /\ off[0] = 0 /\ N = off[K]
  BY SequenceIs DEF AreTrees, Blocks
<1>2. PICK keys :
        /\ Begun(rows) = keys[N]
        /\ keys[0] = << >>
        /\ \A n \in 1 .. N : keys[n] = IF KeyOf(rows[n]) \in ToSet(keys[n - 1]) THEN keys[n - 1]
                                       ELSE Append(keys[n - 1], KeyOf(rows[n]))
  BY <1>1, BegunRecursion
<1>3. \A k \in 1 .. K :
        /\ off[k - 1] \in Nat /\ off[k] \in Nat /\ off[k - 1] < off[k]
        /\ \A n \in 1 .. N : n \in off[k - 1] + 1 .. off[k] =>
                               rows[n].idx = k - 1 /\ KeyOf(rows[n]) = FileKey(v, k)
  BY RowsAre
<1>4. \A c \in 0 .. K, k \in 1 .. K : FileKey(v, k) \in ToSet(Prefix(c)) <=> k <= c
  <2> TAKE c \in 0 .. K, k \in 1 .. K
  <2>1. ToSet(Prefix(c)) = {FileKey(v, j) : j \in 1 .. c}
    BY DEF ToSet
  <2>2. \A j \in 1 .. c : FileKey(v, j) = FileKey(v, k) => j = k
    <3> TAKE j \in 1 .. c
    <3>1. FileKey(v, j) = FileKey(v, k) => j - 1 = k - 1
      BY DEF FileKey
    <3>2. j \in Nat /\ k \in Nat
      BY <1>1
    <3>3. QED BY <3>1, <3>2
  <2> HIDE DEF Prefix
  <2>3. QED BY <1>1, <2>1, <2>2
<1>5. \A c \in Nat : Append(Prefix(c), FileKey(v, c + 1)) = Prefix(c + 1)
  <2> TAKE c \in Nat
  <2> DEFINE S == {FileKey(v, k) : k \in 1 .. c + 1}
  <2>1. Prefix(c) \in Seq(S) /\ Len(Prefix(c)) = c
    OBVIOUS
  <2>2. QED BY <2>1
<1> DEFINE Good(n, c) == /\ keys[n] = Prefix(c) /\ n <= off[c] /\ (c # 0 => off[c - 1] < n)
           U == {n \in Nat : n <= N => \E c \in 0 .. K : Good(n, c)}
<1>6. 0 \in U
  <2>1. Prefix(0) = << >>
    OBVIOUS
  <2> HIDE DEF Prefix
  <2>2. 0 \in 0 .. K /\ Good(0, 0)
    BY <1>1, <1>2, <2>1
  <2>3. QED BY <2>2
<1> HIDE DEF Prefix
<1>7. ASSUME NEW n \in Nat, n \in U PROVE n + 1 \in U
  <2> SUFFICES ASSUME n + 1 <= N PROVE \E c \in 0 .. K : Good(n + 1, c)
    OBVIOUS
  <2>1. n + 1 \in 1 .. N /\ (n + 1) - 1 = n /\ n <= N
    BY <1>1
  <2>2. PICK c \in 0 .. K : Good(n, c)
    BY <1>7, <2>1
  <2>3. keys[n + 1] = IF KeyOf(rows[n + 1]) \in ToSet(keys[n]) THEN keys[n]
                      ELSE Append(keys[n], KeyOf(rows[n + 1]))
    BY <1>2, <2>1
  <2>4. c \in Int /\ off[c] \in Nat
    BY <1>1
  <2>5. CASE n = off[c]
    <3>1. c # K
      BY <1>1, <2>1, <2>5
    <3>2. c + 1 \in 1 .. K /\ c + 1 \in 0 .. K /\ (c + 1) - 1 = c /\ c \in Nat
      BY <1>1, <3>1
    <3>3. off[c] < off[c + 1] /\ off[c + 1] \in Nat
      BY <1>3, <3>2
    <3>4. n + 1 \in off[c] + 1 .. off[c + 1]
      BY <2>4, <2>5, <3>3
    <3>5. KeyOf(rows[n + 1]) = FileKey(v, c + 1)
      BY <1>3, <2>1, <3>2, <3>4
    <3>6. FileKey(v, c + 1) \notin ToSet(keys[n])
      BY <1>4, <2>2, <2>4, <3>2
    <3>7. keys[n + 1] = Prefix(c + 1)
      BY <1>5, <2>2, <2>3, <3>2, <3>5, <3>6
    <3>8. n + 1 <= off[c + 1] /\ off[(c + 1) - 1] < n + 1
      BY <2>4, <2>5, <3>2, <3>3
    <3>9. QED BY <3>2, <3>7, <3>8
  <2>6. CASE n # off[c]
    <3>1. n < off[c] /\ c # 0
      BY <1>1, <2>2, <2>4, <2>6
    <3>2. c \in 1 .. K
      BY <1>1, <3>1
    <3>3. off[c - 1] < n /\ off[c - 1] \in Nat
      BY <1>3, <2>2, <3>1, <3>2
    <3>4. n + 1 \in off[c - 1] + 1 .. off[c]
      BY <2>4, <3>1, <3>3
    <3>5. KeyOf(rows[n + 1]) = FileKey(v, c)
      BY <1>3, <2>1, <3>2, <3>4
    <3>6. FileKey(v, c) \in ToSet(keys[n])
      BY <1>4, <2>2, <2>4, <3>2
    <3>7. keys[n + 1] = Prefix(c)
      BY <2>2, <2>3, <3>5, <3>6
    <3>8. n + 1 <= off[c] /\ off[c - 1] < n + 1
      BY <2>4, <3>1, <3>3
    <3>9. QED BY <3>7, <3>8
  <2>7. QED BY <2>5, <2>6
<1> HIDE DEF U
<1>8. \A n \in Nat : n \in U
  BY <1>6, <1>7, NaturalInduction
<1>9. PICK c \in 0 .. K : Good(N, c)
  BY <1>1, <1>8 DEF U
<1>10. c = K
  <2>1. c \in Int /\ off[c] \in Nat
    BY <1>1
  <2> SUFFICES ASSUME c # K PROVE FALSE
    OBVIOUS
  <2>2. K \in 1 .. K /\ c \in Nat /\ c < K
    BY <1>1, <2>1
  <2>3. off[K - 1] < N /\ off[K - 1] \in Nat
    BY <1>1, <1>3, <2>2
  <2>4. N \in 1 .. N /\ N \in off[K - 1] + 1 .. off[K]
    BY <1>1, <2>3
  <2>5. rows[N].idx = K - 1
    BY <1>3, <2>2, <2>4
  <2>6. c # 0
    BY <1>1, <1>9, <2>4
  <2>7. c \in 1 .. K
    BY <1>1, <2>2, <2>6
  <2>8. off[c - 1] < N /\ N <= off[c] /\ off[c - 1] \in Nat
    BY <1>3, <1>9, <2>6, <2>7
  <2>9. N \in off[c - 1] + 1 .. off[c]
    BY <1>1, <2>1, <2>8
  <2>10. rows[N].idx = c - 1
    BY <1>3, <2>4, <2>7, <2>9
  <2>11. QED BY <1>1, <2>2, <2>5, <2>10
<1>11. QED BY <1>2, <1>9, <1>10 DEF Prefix

\* A file gives back the traces that were written.
LEMMA TracesAre ==
  ASSUME NEW v, AreTrees(v)
  PROVE  Traces(Flatten(v)) = [k \in 1 .. Len(v) |-> Shown(v[k].forest)]
<1>1. PICK off : Blocks(v, Flatten(v), off)
  BY FlattenIs
<1> DEFINE rows == Flatten(v)
           keys == Begun(rows)
<1> HIDE DEF rows
<1>2. keys = [k \in 1 .. Len(v) |-> FileKey(v, k)]
  BY <1>1, BegunIs DEF rows
<1>3. \A k \in 1 .. Len(v) : BuildTrees(RowsOf(rows, FileKey(v, k))) = Shown(v[k].forest)
  BY <1>1, RowsOfIs DEF rows
<1>4. Traces(rows) = [n \in DOMAIN keys |-> BuildTrees(RowsOf(rows, keys[n]))]
  BY DEF Traces
<1> HIDE DEF keys
<1>5. DOMAIN keys = 1 .. Len(v) /\ \A n \in 1 .. Len(v) : keys[n] = FileKey(v, n)
  BY <1>2
<1>6. Traces(rows) = [k \in 1 .. Len(v) |-> Shown(v[k].forest)]
  BY <1>3, <1>4, <1>5
<1>7. QED BY <1>6 DEF rows

\* It has as many keys as traces.
LEMMA KeysOfCount ==
  ASSUME NEW v, AreTrees(v)
  PROVE  Cardinality(KeysOf(Flatten(v))) = Len(v)
<1> DEFINE rows == Flatten(v)
           K == Len(v)
           key == [k \in 1 .. K |-> FileKey(v, k)]
<1>1. PICK off : Blocks(v, rows, off)
  BY FlattenIs
<1> HIDE DEF rows
<1>2. K \in Nat /\ DOMAIN rows = 1 .. Len(rows)
  BY <1>1, SequenceIs DEF AreTrees, Blocks
<1>3. \A k \in 1 .. K :
        /\ off[k - 1] \in Nat /\ off[k] \in Nat /\ off[k] <= Len(rows) /\ off[k - 1] < off[k]
        /\ \A n \in 1 .. Len(rows) : n \in off[k - 1] + 1 .. off[k] => KeyOf(rows[n]) = FileKey(v, k)
  BY <1>1, RowsAre
<1>4. \A n \in 1 .. Len(rows) : \E k \in 1 .. K : n \in off[k - 1] + 1 .. off[k]
  BY <1>1 DEF Blocks
<1>5. KeysOf(rows) = {KeyOf(rows[n]) : n \in 1 .. Len(rows)}
  BY <1>2 DEF KeysOf, KeyOf
<1>6. \A k \in 1 .. K : FileKey(v, k) \in KeysOf(rows)
  <2> TAKE k \in 1 .. K
  <2>1. Len(rows) \in Nat
    BY <1>1, SequenceIs DEF Blocks
  <2>2. off[k] \in 1 .. Len(rows) /\ off[k] \in off[k - 1] + 1 .. off[k]
    <3>1. off[k - 1] \in Nat /\ off[k] \in Nat /\ off[k] <= Len(rows) /\ off[k - 1] < off[k]
      BY <1>3
    <3>2. QED BY <2>1, <3>1
  <2>3. KeyOf(rows[off[k]]) = FileKey(v, k)
    BY <1>3, <2>2
  <2>4. QED BY <1>5, <2>2, <2>3
<1>7. \A x \in KeysOf(rows) : \E k \in 1 .. K : x = FileKey(v, k)
  BY <1>3, <1>4, <1>5
<1>8. \A k, l \in 1 .. K : FileKey(v, k) = FileKey(v, l) => k = l
  <2> TAKE k, l \in 1 .. K
  <2>1. FileKey(v, k) = FileKey(v, l) => k - 1 = l - 1
    BY DEF FileKey
  <2>2. QED BY <1>2, <2>1
<1>9. key \in Bijection(1 .. K, KeysOf(rows))
  <2>1. DOMAIN key = 1 .. K /\ \A k \in 1 .. K : key[k] = FileKey(v, k)
    OBVIOUS
  <2>2. key \in [1 .. K -> KeysOf(rows)]
    BY <1>6
  <2> HIDE DEF key, K
  <2>3. QED BY <1>6, <1>7, <1>8, <2>1, <2>2 DEF Bijection, Injection, Surjection, IsInjective
<1>10. IsFiniteSet(1 .. K) /\ Cardinality(1 .. K) = K
  <2> HIDE DEF K
  <2>1. QED BY <1>2, FS_Interval
<1>11. Cardinality(KeysOf(rows)) = K
  BY <1>9, <1>10, FS_Bijection DEF ExistsBijection
<1>12. QED BY <1>11 DEF rows

\* Of the spans that the walk does not reach, each has its parent among them.
LEMMA UnreachedIs ==
  ASSUME NEW f, IsForest(f)
  PROVE  \A i \in 1 .. Len(f.spans) :
           i \notin Range(Walk(f)) => f.up[i] \in 1 .. Len(f.spans) /\ f.up[i] \notin Range(Walk(f))
<1> DEFINE N == Len(f.spans)
<1>1. IsUp(f.up, N)
  BY DEF IsForest
<1> HIDE DEF N
<1>2. \A j \in 1 .. N : j \in Range(Walk(f)) <=> f.up[j] \in {0} \cup Range(Walk(f))
  BY <1>1, WalkIs
<1>3. N \in Nat /\ \A i \in 1 .. N : f.up[i] \in 0 .. N
  BY <1>1 DEF IsUp
<1>4. ASSUME NEW i \in 1 .. N, i \notin Range(Walk(f))
      PROVE  f.up[i] \in 1 .. N /\ f.up[i] \notin Range(Walk(f))
  <2>1. f.up[i] # 0 /\ f.up[i] \notin Range(Walk(f))
    BY <1>2, <1>4
  <2>2. QED BY <1>3, <2>1
<1>5. QED BY <1>4 DEF N

\* An item is reached, or it leads to a cycle of spans.
LEMMA ReachedOrCycle ==
  ASSUME NEW f, NEW format, NEW items, IsItems(items), NEW d \in {0, 1}, Converts(f, format, items, d),
         NEW n \in DOMAIN items, n + d \notin Range(Walk(f))
  PROVE  format = "spans" /\ LeadsToCycle(items, n)
<1> DEFINE M == Len(items) + d
           C == {i \in 1 .. M : i \notin Range(Walk(f))}
<1>1. Len(items) \in Nat /\ DOMAIN items = 1 .. Len(items)
  BY SequenceIs DEF IsItems
<1>2. n + d \in C
  <2>1. n + d \in 1 .. M
    BY <1>1
  <2>2. QED BY <2>1
<1>3. \A i \in C : f.up[i] \in C
  BY UnreachedIs DEF Converts
<1>4. ~ \A i \in 1 .. M : f.up[i] < i
  <2> SUFFICES ASSUME \A i \in 1 .. M : f.up[i] < i PROVE FALSE
    OBVIOUS
  <2>1. C \in SUBSET Nat /\ C # {}
    BY <1>2
  <2>2. PICK i \in C : \A j \in C : i <= j
    BY <2>1, LeastMember
  <2>3. i \in 1 .. M /\ f.up[i] \in C /\ f.up[i] \in Nat /\ i \in Nat
    BY <1>3, <2>1, <2>2
  <2>4. f.up[i] < i /\ i <= f.up[i]
    BY <2>2, <2>3
  <2> HIDE DEF C, M
  <2>5. QED BY <2>3, <2>4
<1>5. format = "spans" /\ d = 0 /\ \A i \in 1 .. Len(items) : f.up[i] = ParentOf(items, i)
  BY <1>4 DEF Converts
<1>6. M = Len(items) /\ n + d = n
  BY <1>1, <1>5
<1>7. n \in C /\ C \in SUBSET DOMAIN items /\ 0 \notin C
  BY <1>1, <1>2, <1>6
<1>8. \A j \in C : /\ ParentOf(items, j) \in C
                   /\ items[ParentOf(items, j)].id = items[j].parent
                   /\ \A q \in DOMAIN items : items[q].id = items[j].parent => q <= ParentOf(items, j)
  <2> TAKE j \in C
  <2>1. j \in DOMAIN items
    BY <1>7
  <2> HIDE DEF C
  <2>2. ParentOf(items, j) \in C
    BY <1>1, <1>3, <1>5, <2>1
  <2>3. ParentOf(items, j) # 0
    BY <1>7, <2>2
  <2>4. QED BY <2>1, <2>2, <2>3, ParentOfIs
<1> HIDE DEF C
<1>9. QED BY <1>5, <1>7, <1>8 DEF LeadsToCycle

-----------------------------------------------------------------------------
(* The download.                                                            *)

\* What a batch b of corpus c has to write: rows of it, as they were converted,
\* with a root and without an error.
IsSaved(c, v, b) ==
  /\ IsSequence(v)
  /\ \A k \in 1 .. Len(v) :
       /\ v[k].row \in 1 .. Len(c[b].rows)
       /\ v[k].forest = Convert(Format(c[b].rows), c[b].rows[v[k].row], b, v[k].row)
       /\ Roots(v[k].forest) # {} /\ Valid(Shown(v[k].forest))

\* What a file of corpus c is.
IsFile(c, f) ==
  /\ f = [dataset |-> f.dataset, no |-> f.no, rows |-> f.rows, complete |-> f.complete,
          batch |-> f.batch, source |-> f.source]
  /\ f.no \in 1 .. Len(c)
  /\ f.complete \in BOOLEAN
  /\ f.batch \in 1 .. Len(c)
  /\ IsSaved(c, f.source, f.batch)
  /\ f.rows = Flatten(f.source)

\* A batch writes one file at most, when its rows are converted.
DownloadInv ==
  /\ corpus \in Corpora /\ batch \in 1 .. Len(corpus) + 1 /\ row \in Nat \ {0}
  /\ IsSaved(corpus, valid, batch) /\ (batch > Len(corpus) => valid = << >>)
  /\ IsSequence(files) /\ \A i \in 1 .. Len(files) : IsFile(corpus, files[i])
  /\ \/ Len(files) <= batch - 1
     \/ Len(files) <= batch /\ batch <= Len(corpus) /\ row > Len(Rows) /\ valid = << >>

\* A sequence with one more member.
LEMMA AppendIs ==
  ASSUME NEW s, IsSequence(s), NEW e
  PROVE  /\ IsSequence(Append(s, e)) /\ Len(Append(s, e)) = Len(s) + 1
         /\ \A i \in 1 .. Len(s) : Append(s, e)[i] = s[i]
         /\ Append(s, e)[Len(s) + 1] = e
<1> DEFINE P == {s[i] : i \in DOMAIN s}
           S == P \cup {e}
           t == Append(s, e)
<1>1. s \in Seq(P) /\ P \subseteq S /\ e \in S
  BY DEF IsSequence
<1> HIDE DEF P, S
<1>2. s \in Seq(S)
  BY <1>1, SeqMonotonic
<1>3. t \in Seq(S) /\ Len(t) = Len(s) + 1 /\ (\A i \in 1 .. Len(s) : t[i] = s[i]) /\ t[Len(s) + 1] = e
  BY <1>1, <1>2, AppendProperties
<1> HIDE DEF t
<1>4. t \in [1 .. Len(t) -> S] /\ Len(t) \in Nat
  BY <1>3, LenProperties
<1>5. t = [i \in 1 .. Len(t) |-> t[i]]
  BY <1>4
<1>6. IsSequence(t)
  BY <1>4, <1>5, SequenceIs
<1>7. QED BY <1>3, <1>6 DEF t

\* The rows of a corpus are rows.
LEMMA CorpusRows ==
  ASSUME NEW c \in Corpora
  PROVE  /\ Len(c) \in Nat /\ DOMAIN c = 1 .. Len(c)
         /\ \A b \in 1 .. Len(c) : /\ c[b].dataset \in Int
                                   /\ Len(c[b].rows) \in Nat
                                   /\ \A n \in 1 .. Len(c[b].rows) : IsRow(c[b].rows[n])
<1>1. /\ IsSequence(c)
      /\ \A b \in DOMAIN c : /\ c[b].dataset \in Int /\ IsSequence(c[b].rows)
                             /\ \A n \in DOMAIN c[b].rows : IsRow(c[b].rows[n])
  BY CorpusAssumption
<1>2. Len(c) \in Nat /\ DOMAIN c = 1 .. Len(c)
  BY <1>1, SequenceIs
<1>3. \A b \in 1 .. Len(c) : Len(c[b].rows) \in Nat /\ DOMAIN c[b].rows = 1 .. Len(c[b].rows)
  BY <1>1, <1>2, SequenceIs
<1>4. QED BY <1>1, <1>2, <1>3

\* What is saved was converted without an error, and can be read back.
LEMMA SavedAre ==
  ASSUME NEW c \in Corpora, NEW b \in 1 .. Len(c), NEW v, IsSaved(c, v, b)
  PROVE  /\ AreTrees(v)
         /\ \A k \in 1 .. Len(v) :
              LET r      == c[b].rows[v[k].row]
                  format == Format(c[b].rows)
              IN  /\ IsItems(ItemsOf(format, r))
                  /\ \E d \in {0, 1} : Converts(v[k].forest, format, ItemsOf(format, r), d)
<1>1. ASSUME NEW k \in 1 .. Len(v)
      PROVE  /\ IsTree(Shown(v[k].forest))
             /\ IsItems(ItemsOf(Format(c[b].rows), c[b].rows[v[k].row]))
             /\ \E d \in {0, 1} : Converts(v[k].forest, Format(c[b].rows),
                                           ItemsOf(Format(c[b].rows), c[b].rows[v[k].row]), d)
  <2> DEFINE r == c[b].rows[v[k].row]
             format == Format(c[b].rows)
             f == v[k].forest
  <2>1. /\ v[k].row \in 1 .. Len(c[b].rows)
        /\ f = Convert(format, r, b, v[k].row)
        /\ Roots(f) # {} /\ Valid(Shown(f))
    BY DEF IsSaved
  <2>2. IsRow(r)
    BY <2>1, CorpusRows
  <2> HIDE DEF r, format, f
  <2>3. IsItems(ItemsOf(format, r))
    BY <2>2, ItemsAre
  <2>4. PICK d \in {0, 1} : Converts(f, format, ItemsOf(format, r), d)
    BY <2>1, <2>2, ConvertIs DEF IsRow
  <2>5. IsTree(Shown(f))
    BY <2>1, <2>4, ShownTree DEF Converts
  <2>6. QED BY <2>3, <2>4, <2>5 DEF r, format, f
<1>2. QED BY <1>1 DEF AreTrees, IsSaved

\* At first nothing is written.
LEMMA DownloadBegins ==
  ASSUME TreesInit
  PROVE  DownloadInv
<1>1. Len(corpus) \in Nat /\ corpus \in Corpora
  BY CorpusRows DEF TreesInit
<1>2. IsSequence(<< >>) /\ Len(<< >>) = 0
  BY EmptySeq DEF IsSequence
<1>3. QED BY <1>1, <1>2 DEF TreesInit, DownloadInv, IsSaved

\* A row that is converted is saved as it was converted.
LEMMA ConvertRowKeeps ==
  ASSUME DownloadInv, ConvertRow
  PROVE  DownloadInv'
<1> DEFINE f == Convert(Format(Rows), Rows[row], batch, row)
<1>1. /\ batch <= Len(corpus) /\ row <= Len(Rows) /\ row' = row + 1
      /\ valid' = IF Roots(f) # {} /\ Valid(Shown(f))
                  THEN Append(valid, [row |-> row, forest |-> f]) ELSE valid
      /\ corpus' = corpus /\ batch' = batch /\ files' = files
  BY DEF ConvertRow
<1>2. /\ corpus \in Corpora /\ batch \in 1 .. Len(corpus) + 1 /\ row \in Nat \ {0}
      /\ IsSaved(corpus, valid, batch)
      /\ IsSequence(files) /\ \A i \in 1 .. Len(files) : IsFile(corpus, files[i])
  BY DEF DownloadInv
<1>3. Len(corpus) \in Nat /\ batch \in 1 .. Len(corpus) /\ Len(Rows) \in Nat
  BY <1>1, <1>2, CorpusRows DEF Rows
<1>4. row \in 1 .. Len(corpus[batch].rows)
  BY <1>1, <1>2, <1>3 DEF Rows
<1>5. Len(files) <= batch - 1
  BY <1>1, <1>2, <1>3 DEF DownloadInv
<1>6. IsSaved(corpus, valid', batch)
  <2>1. CASE Roots(f) # {} /\ Valid(Shown(f))
    <3> DEFINE e == [row |-> row, forest |-> f]
    <3>1. IsSequence(valid) /\ valid' = Append(valid, e) /\ Len(valid) \in Nat
      BY <1>1, <1>2, <2>1, SequenceIs DEF IsSaved
    <3>2. e.row = row /\ e.forest = Convert(Format(corpus[batch].rows), corpus[batch].rows[e.row], batch, e.row)
      BY DEF Rows
    <3>3. Roots(e.forest) # {} /\ Valid(Shown(e.forest))
      BY <2>1
    <3> HIDE DEF e, f
    <3>4. /\ IsSequence(valid') /\ Len(valid') = Len(valid) + 1
          /\ \A i \in 1 .. Len(valid) : valid'[i] = valid[i]
          /\ valid'[Len(valid) + 1] = e
      BY <3>1, AppendIs
    <3>5. \A i \in 1 .. Len(valid) + 1 : i \in 1 .. Len(valid) \/ i = Len(valid) + 1
      BY <3>1
    <3>6. QED BY <1>2, <1>4, <3>2, <3>3, <3>4, <3>5 DEF IsSaved
  <2>2. CASE ~(Roots(f) # {} /\ Valid(Shown(f)))
    BY <1>1, <1>2, <2>2
  <2>3. QED BY <2>1, <2>2
<1>7. row + 1 \in Nat \ {0}
  BY <1>2
<1> HIDE DEF f
<1>8. QED BY <1>1, <1>2, <1>5, <1>6, <1>7 DEF DownloadInv

\* How many numbers there are up to a number.
LEMMA UpToCount ==
  \A n \in Nat : IsFiniteSet(1 .. n) /\ Cardinality(1 .. n) = n
<1>1. ASSUME NEW n \in Nat
      PROVE  IsFiniteSet(1 .. n) /\ Cardinality(1 .. n) = n
  BY FS_Interval
<1>2. QED BY <1>1

\* The number of a file is at most that of the files there are, and one.
LEMMA SaveCountIs ==
  ASSUME IsSequence(files), NEW d
  PROVE  SaveCount(d) \in 1 .. Len(files) + 1
<1> DEFINE S == {i \in DOMAIN files : files[i].dataset = d}
<1>1. Len(files) \in Nat /\ DOMAIN files = 1 .. Len(files)
  BY SequenceIs
<1>2. S \in SUBSET (1 .. Len(files))
  BY <1>1
<1>3. IsFiniteSet(1 .. Len(files)) /\ Cardinality(1 .. Len(files)) = Len(files)
  BY <1>1, UpToCount
<1>4. SaveCount(d) = Cardinality(S) + 1
  BY DEF SaveCount
<1> HIDE DEF S
<1>5. Cardinality(S) \in Nat /\ Cardinality(S) <= Len(files)
  BY <1>2, <1>3, FS_Subset, FS_CardinalityType
<1>6. QED BY <1>1, <1>4, <1>5

\* A file that is begun holds what the batch saved.
LEMMA BeginFileKeeps ==
  ASSUME DownloadInv, BeginFile
  PROVE  /\ DownloadInv'
         /\ \E new : files' = Append(files, new) /\ ~new.complete
<1> DEFINE new == [dataset |-> corpus[batch].dataset, no |-> SaveCount(corpus[batch].dataset),
                    rows |-> Flatten(valid), complete |-> FALSE, batch |-> batch, source |-> valid]
<1>1. /\ batch <= Len(corpus) /\ row > Len(Rows) /\ valid # << >>
      /\ files' = Append(files, new) /\ valid' = << >>
      /\ corpus' = corpus /\ batch' = batch /\ row' = row
  BY DEF BeginFile
<1>2. /\ corpus \in Corpora /\ batch \in 1 .. Len(corpus) + 1 /\ row \in Nat \ {0}
      /\ IsSaved(corpus, valid, batch)
      /\ IsSequence(files) /\ \A i \in 1 .. Len(files) : IsFile(corpus, files[i])
      /\ Len(files) <= batch - 1
  BY <1>1 DEF DownloadInv
<1>3. Len(corpus) \in Nat /\ batch \in 1 .. Len(corpus) /\ Len(files) \in Nat
  BY <1>1, <1>2, CorpusRows, SequenceIs
<1>4. SaveCount(corpus[batch].dataset) \in 1 .. Len(corpus)
  <2>1. SaveCount(corpus[batch].dataset) \in 1 .. Len(files) + 1
    BY <1>2, SaveCountIs
  <2>2. QED BY <1>2, <1>3, <2>1
<1>5. IsFile(corpus, new)
  BY <1>2, <1>3, <1>4 DEF IsFile
<1>6. ~new.complete
  OBVIOUS
<1> HIDE DEF new
<1>7. /\ IsSequence(files') /\ Len(files') = Len(files) + 1
      /\ \A i \in 1 .. Len(files) : files'[i] = files[i]
      /\ files'[Len(files) + 1] = new
  BY <1>1, <1>2, AppendIs
<1>8. \A i \in 1 .. Len(files) + 1 : i \in 1 .. Len(files) \/ i = Len(files) + 1
  BY <1>3
<1>9. \A i \in 1 .. Len(files') : IsFile(corpus, files'[i])
  BY <1>2, <1>5, <1>7, <1>8
<1>10. IsSaved(corpus, << >>, batch)
  BY EmptySeq DEF IsSaved, IsSequence
<1>11. Len(files') <= batch
  BY <1>2, <1>3, <1>7
<1>12. (row > Len(Rows))'
  BY <1>1 DEF Rows
<1>13. QED BY <1>1, <1>2, <1>6, <1>7, <1>9, <1>10, <1>11, <1>12 DEF DownloadInv

\* The same files, and all of them complete.
Completes(fs, gs) ==
  /\ IsSequence(gs) /\ Len(gs) = Len(fs)
  /\ \A i \in 1 .. Len(fs) : gs[i] = [fs[i] EXCEPT !.complete = TRUE]

\* A file that is finished holds what it held.
LEMMA EndBatchKeeps ==
  ASSUME DownloadInv, EndBatch
  PROVE  DownloadInv' /\ Completes(files, files')
<1>1. /\ batch <= Len(corpus) /\ row > Len(Rows) /\ valid = << >>
      /\ files' = [i \in DOMAIN files |-> [files[i] EXCEPT !.complete = TRUE]]
      /\ batch' = batch + 1 /\ row' = 1 /\ corpus' = corpus /\ valid' = valid
  BY DEF EndBatch
<1>2. /\ corpus \in Corpora /\ batch \in 1 .. Len(corpus) + 1
      /\ IsSequence(files) /\ \A i \in 1 .. Len(files) : IsFile(corpus, files[i])
      /\ \/ Len(files) <= batch - 1
         \/ Len(files) <= batch
  BY DEF DownloadInv
<1>3. /\ Len(corpus) \in Nat /\ batch + 1 \in 1 .. Len(corpus) + 1
      /\ Len(files) \in Nat /\ DOMAIN files = 1 .. Len(files)
  BY <1>1, <1>2, CorpusRows, SequenceIs
<1>4. IsSequence(files') /\ Len(files') = Len(files)
  <2>1. files' = [i \in 1 .. Len(files) |-> files'[i]]
    BY <1>1, <1>3
  <2>2. QED BY <1>3, <2>1, SequenceIs
<1>5. \A i \in 1 .. Len(files) : files'[i] = [files[i] EXCEPT !.complete = TRUE]
  BY <1>1, <1>3
<1>6. \A i \in 1 .. Len(files) : IsFile(corpus, files'[i])
  <2> TAKE i \in 1 .. Len(files)
  <2> DEFINE f == files[i]
             g == files'[i]
  <2>1. /\ f = [dataset |-> f.dataset, no |-> f.no, rows |-> f.rows, complete |-> f.complete,
                batch |-> f.batch, source |-> f.source]
        /\ g = [f EXCEPT !.complete = TRUE]
    BY <1>2, <1>5 DEF IsFile
  <2>2. f.no \in 1 .. Len(corpus) /\ f.batch \in 1 .. Len(corpus)
        /\ IsSaved(corpus, f.source, f.batch) /\ f.rows = Flatten(f.source)
    BY <1>2 DEF IsFile
  <2> HIDE DEF f, g
  <2>3. g = [dataset |-> f.dataset, no |-> f.no, rows |-> f.rows, complete |-> TRUE,
             batch |-> f.batch, source |-> f.source]
    BY <2>1
  <2>4. IsFile(corpus, g)
    BY <2>2, <2>3 DEF IsFile
  <2>5. QED BY <2>4 DEF g
<1>7. IsSaved(corpus, << >>, batch')
  BY EmptySeq DEF IsSaved, IsSequence
<1>8. Len(files') <= batch' - 1
  BY <1>1, <1>2, <1>3, <1>4
<1>9. Completes(files, files')
  BY <1>4, <1>5 DEF Completes
<1>10. QED BY <1>1, <1>2, <1>3, <1>4, <1>6, <1>7, <1>8, <1>9 DEF DownloadInv

\* A file keeps what the roots of its rows show.
LEMMA DownloadGivesBack ==
  ASSUME DownloadInv
  PROVE  RoundTrip
<1>1. ASSUME NEW i \in DOMAIN files
      PROVE  Traces(files[i].rows) = [k \in DOMAIN files[i].source |-> Shown(files[i].source[k].forest)]
  <2>1. i \in 1 .. Len(files)
    BY SequenceIs DEF DownloadInv
  <2> DEFINE v == files[i].source
  <2>2. corpus \in Corpora /\ files[i].batch \in 1 .. Len(corpus)
        /\ IsSaved(corpus, v, files[i].batch) /\ files[i].rows = Flatten(v)
    BY <2>1 DEF DownloadInv, IsFile
  <2> HIDE DEF v
  <2>3. AreTrees(v)
    BY <2>2, SavedAre
  <2>4. DOMAIN v = 1 .. Len(v)
    BY <2>3, SequenceIs DEF AreTrees
  <2>5. Traces(Flatten(v)) = [k \in 1 .. Len(v) |-> Shown(v[k].forest)]
    BY <2>3, TracesAre
  <2>6. Traces(files[i].rows) = [k \in DOMAIN v |-> Shown(v[k].forest)]
    BY <2>2, <2>4, <2>5
  <2>7. QED BY <2>6 DEF v
<1>2. QED BY <1>1 DEF RoundTrip

\* What is counted once under each of its names.
LEMMA SameCount ==
  ASSUME NEW S, IsFiniteSet(S), NEW T, NEW h \in [S -> T],
         \A y \in T : \E x \in S : h[x] = y, \A x, z \in S : h[x] = h[z] => x = z
  PROVE  IsFiniteSet(T) /\ Cardinality(T) = Cardinality(S)
<1>1. h \in Bijection(S, T)
  BY DEF Bijection, Injection, Surjection, IsInjective
<1>2. QED BY <1>1, FS_Bijection DEF ExistsBijection

\* The rows of a file that hold an item of the k-th trace, and the items they hold.
AreStored(rows, k, stored, got) ==
  /\ \A n : n \in stored <=> n \in DOMAIN rows /\ rows[n].idx = k - 1 /\ rows[n].span.item # 0
  /\ \A y : y \in got <=> \E n \in stored : y = rows[n].span.item

\* Of a row in a file, no item is there twice, and those that are missing led to a
\* cycle.
LEMMA ItemsStored ==
  ASSUME NEW v, AreTrees(v), NEW k \in 1 .. Len(v),
         NEW format, NEW items, IsItems(items), NEW d \in {0, 1},
         Converts(v[k].forest, format, items, d),
         NEW stored, NEW got, AreStored(Flatten(v), k, stored, got)
  PROVE  /\ Cardinality(got) = Cardinality(stored)
         /\ \A n \in DOMAIN items : n \in got \/ (format = "spans" /\ LeadsToCycle(items, n))
<1> DEFINE f == v[k].forest
           F == Shown(f)
           w == Walk(f)
           m == Len(w)
           rows == Flatten(v)
           M == Len(items) + d
<1>1. PICK off : Blocks(v, rows, off)
  BY FlattenIs
<1>2. Len(F.spans) = m /\ \A j \in 1 .. m : w[j] \in 1 .. Len(f.spans) /\ F.spans[j] = f.spans[w[j]]
  BY ShownIs DEF Converts
<1>3. /\ off[k - 1] \in Nat /\ off[k] \in Nat /\ off[k] = off[k - 1] + Len(F.spans)
      /\ \A j \in 1 .. Len(F.spans) :
           /\ off[k - 1] + j \in 1 .. Len(rows)
           /\ rows[off[k - 1] + j] = [trace |-> F.trace, idx |-> k - 1, span |-> F.spans[j]]
      /\ \A n \in 1 .. Len(rows) : rows[n].idx = k - 1 => n \in off[k - 1] + 1 .. off[k]
  BY <1>1, RowsAre
<1>4. Len(f.spans) = M /\ \A i \in 1 .. M : f.spans[i].item = i - d
  BY DEF Converts
<1>5. Len(rows) \in Nat /\ DOMAIN rows = 1 .. Len(rows)
  BY <1>1, SequenceIs DEF Blocks
<1>6. M \in Nat /\ Len(items) \in Nat /\ DOMAIN items = 1 .. Len(items)
  BY SequenceIs DEF IsItems
<1>7. m \in Nat /\ DOMAIN w = 1 .. m /\ \A i, j \in 1 .. m : w[i] = w[j] => i = j
  <2>1. w \in Seq(1 .. Len(f.spans)) /\ IsInjective(w)
    BY WalkIs DEF Converts, IsForest
  <2> HIDE DEF w, f
  <2>2. m \in Nat /\ DOMAIN w = 1 .. m
    BY <2>1, LenProperties
  <2>3. QED BY <2>1, <2>2 DEF IsInjective
<1>8. \A n \in DOMAIN items : n + d \notin Range(w) => format = "spans" /\ LeadsToCycle(items, n)
  BY ReachedOrCycle
<1>9. \A n : n \in stored <=> n \in 1 .. Len(rows) /\ rows[n].idx = k - 1 /\ rows[n].span.item # 0
  BY <1>5 DEF AreStored
<1>10. \A y : y \in got <=> \E n \in stored : y = rows[n].span.item
  BY DEF AreStored
<1> HIDE DEF f, F, w, rows, M, m
<1>11. \A j \in 1 .. m : /\ w[j] \in 1 .. M
                         /\ off[k - 1] + j \in 1 .. Len(rows)
                         /\ rows[off[k - 1] + j].idx = k - 1
                         /\ rows[off[k - 1] + j].span.item = w[j] - d
  <2> TAKE j \in 1 .. m
  <2>1. w[j] \in 1 .. M /\ F.spans[j].item = w[j] - d
    BY <1>2, <1>4
  <2>2. /\ off[k - 1] + j \in 1 .. Len(rows)
        /\ rows[off[k - 1] + j] = [trace |-> F.trace, idx |-> k - 1, span |-> F.spans[j]]
    BY <1>2, <1>3
  <2>3. rows[off[k - 1] + j].idx = k - 1 /\ rows[off[k - 1] + j].span = F.spans[j]
    BY <2>2
  <2>4. QED BY <2>1, <2>2, <2>3
<1>12. \A n \in stored : \E j \in 1 .. m : n = off[k - 1] + j
  <2> TAKE n \in stored
  <2>1. n \in 1 .. Len(rows) /\ n \in off[k - 1] + 1 .. off[k]
    BY <1>3, <1>9
  <2>2. n - off[k - 1] \in 1 .. m /\ n = off[k - 1] + (n - off[k - 1])
    BY <1>2, <1>3, <1>7, <2>1, SMTT(30)
  <2>3. QED BY <2>2
<1>13. \A i, n \in stored : rows[i].span.item = rows[n].span.item => i = n
  <2> TAKE i, n \in stored
  <2>1. PICK a \in 1 .. m : i = off[k - 1] + a
    BY <1>12
  <2>2. PICK b \in 1 .. m : n = off[k - 1] + b
    BY <1>12
  <2>3. rows[i].span.item = w[a] - d /\ rows[n].span.item = w[b] - d
        /\ w[a] \in 1 .. M /\ w[b] \in 1 .. M
    BY <1>11, <2>1, <2>2
  <2>4. rows[i].span.item = rows[n].span.item => w[a] = w[b]
    BY <1>6, <2>3
  <2>5. QED BY <1>7, <2>1, <2>2, <2>4
<1>14. Cardinality(got) = Cardinality(stored)
  <2> DEFINE h == [n \in stored |-> rows[n].span.item]
             I == 1 .. Len(rows)
  <2>0. h \in [stored -> got]
    BY <1>10
  <2>1. DOMAIN h = stored /\ \A n \in stored : h[n] = rows[n].span.item
    OBVIOUS
  <2> HIDE DEF h
  <2>2. \A y \in got : \E n \in stored : h[n] = y
    BY <1>10, <2>1
  <2>3. \A i, n \in stored : h[i] = h[n] => i = n
    BY <1>13, <2>1
  <2>4. IsFiniteSet(I) /\ stored \in SUBSET I
    BY <1>5, <1>9, UpToCount
  <2> HIDE DEF I
  <2>5. IsFiniteSet(stored)
    BY <2>4, FS_Subset
  <2> HIDE DEF I
  <2>6. QED BY <2>0, <2>2, <2>3, <2>5, SameCount
<1>15. \A n \in DOMAIN items : n + d \in Range(w) => n \in got
  <2> SUFFICES ASSUME NEW n \in DOMAIN items, n + d \in Range(w) PROVE n \in got
    OBVIOUS
  <2>1. PICK j \in 1 .. m : w[j] = n + d
    BY <1>7 DEF Range
  <2>2. n \in Int /\ n # 0
    BY <1>6
  <2>3. w[j] - d = n
    BY <2>1, <2>2
  <2>4. off[k - 1] + j \in stored
    BY <1>9, <1>11, <2>1, <2>2, <2>3
  <2>5. rows[off[k - 1] + j].span.item = n
    BY <1>11, <2>1, <2>3
  <2>6. QED BY <1>10, <2>4, <2>5
<1>16. QED BY <1>8, <1>14, <1>15

\* A row loses nothing but what leads to a cycle.
LEMMA DownloadLosesOnlyCycles ==
  ASSUME DownloadInv
  PROVE  OnlyCyclesAreLost
<1> SUFFICES ASSUME NEW i \in DOMAIN files, NEW k \in DOMAIN files[i].source
             PROVE  LET r       == corpus[files[i].batch].rows[files[i].source[k].row]
                        format  == Format(corpus[files[i].batch].rows)
                        stored  == {n \in DOMAIN files[i].rows :
                                      files[i].rows[n].idx = k - 1 /\ files[i].rows[n].span.item # 0}
                        wanted  == ItemsOf(format, r)
                        items   == {files[i].rows[n].span.item : n \in stored}
                    IN  /\ Cardinality(items) = Cardinality(stored)
                        /\ \A n \in DOMAIN wanted : n \in items \/ (format = "spans" /\ LeadsToCycle(wanted, n))
  BY DEF OnlyCyclesAreLost
<1> DEFINE r       == corpus[files[i].batch].rows[files[i].source[k].row]
           format  == Format(corpus[files[i].batch].rows)
           stored  == {n \in DOMAIN files[i].rows :
                         files[i].rows[n].idx = k - 1 /\ files[i].rows[n].span.item # 0}
           wanted  == ItemsOf(format, r)
           items   == {files[i].rows[n].span.item : n \in stored}
<1>1. i \in 1 .. Len(files)
  BY SequenceIs DEF DownloadInv
<1> DEFINE v == files[i].source
           b == files[i].batch
<1>2. corpus \in Corpora /\ b \in 1 .. Len(corpus)
      /\ IsSaved(corpus, v, b) /\ files[i].rows = Flatten(v)
  BY <1>1 DEF DownloadInv, IsFile
<1>3. r = corpus[b].rows[v[k].row] /\ format = Format(corpus[b].rows) /\ k \in DOMAIN v
  OBVIOUS
<1>4. AreStored(Flatten(v), k, stored, items)
  BY <1>2 DEF AreStored
<1> HIDE DEF v, b, r, format, stored, items
<1>5. AreTrees(v) /\ k \in 1 .. Len(v)
  BY <1>2, <1>3, SavedAre, SequenceIs DEF AreTrees
<1>6. IsItems(wanted) /\ \E d \in {0, 1} : Converts(v[k].forest, format, wanted, d)
  BY <1>2, <1>3, <1>5, SavedAre
<1> HIDE DEF wanted
<1>7. /\ Cardinality(items) = Cardinality(stored)
      /\ \A n \in DOMAIN wanted : n \in items \/ (format = "spans" /\ LeadsToCycle(wanted, n))
  <2>1. PICK d \in {0, 1} : Converts(v[k].forest, format, wanted, d)
    BY <1>6
  <2>2. QED BY <1>4, <1>5, <1>6, <2>1, ItemsStored
<1>8. QED BY <1>7 DEF wanted, r, format, stored, items

-----------------------------------------------------------------------------
(* The diagnosis.                                                           *)

\* The files that are complete.
CompleteOf(fs) == {i \in DOMAIN fs : fs[i].complete}

\* How many traces the files of S hold.
SizeOf(fs, S) == SumFunctionOnSet([i \in DOMAIN fs |-> Len(fs[i].source)], S)

\* What the sizes of files of a corpus add up to: a file more adds its own.
LEMMA SizeIs ==
  ASSUME NEW fs, IsSequence(fs), \A i \in 1 .. Len(fs) : Len(fs[i].source) \in Nat
  PROVE  /\ SizeOf(fs, {}) = 0
         /\ \A S \in SUBSET (1 .. Len(fs)) :
              /\ IsFiniteSet(S) /\ SizeOf(fs, S) \in Nat
              /\ \A x \in S : SizeOf(fs, S) = SizeOf(fs, S \ {x}) + Len(fs[x].source)
<1> DEFINE D == 1 .. Len(fs)
           h == [i \in DOMAIN fs |-> Len(fs[i].source)]
<1>1. DOMAIN fs = D /\ Len(fs) \in Nat
  BY SequenceIs
<1>2. IsFiniteSet(D)
  BY <1>1, UpToCount
<1>3. \A i \in D : h[i] = Len(fs[i].source) /\ h[i] \in Nat /\ h[i] \in Int
  BY <1>1
<1>4. \A S : SizeOf(fs, S) = SumFunctionOnSet(h, S)
  BY DEF SizeOf
<1> HIDE DEF D, h
<1>5. ASSUME NEW S \in SUBSET D
      PROVE  /\ IsFiniteSet(S) /\ SizeOf(fs, S) \in Nat
             /\ \A x \in S : SizeOf(fs, S) = SizeOf(fs, S \ {x}) + Len(fs[x].source)
  <2>1. IsFiniteSet(S) /\ Nat \in {Nat, Int}
    BY <1>2, FS_Subset
  <2>2. \A i \in S : h[i] \in Nat
    BY <1>3
  <2>3. SumFunctionOnSet(h, S) \in Nat
    BY <2>1, <2>2, SumType
  <2>4. ASSUME NEW x \in S PROVE SizeOf(fs, S) = SizeOf(fs, S \ {x}) + Len(fs[x].source)
    <3> DEFINE R == S \ {x}
    <3>1. R \in SUBSET S /\ x \in S \ R /\ R \cup {x} = S
      OBVIOUS
    <3>2. \A i \in S : h[i] \in Int
      BY <1>3
    <3> HIDE DEF R
    <3>3. SumFunctionOnSet(h, R \cup {x}) = SumFunctionOnSet(h, R) + h[x]
      BY <2>1, <3>1, <3>2, SumAdd
    <3>4. h[x] = Len(fs[x].source)
      BY <1>3
    <3>5. QED BY <1>4, <3>1, <3>3, <3>4 DEF R
  <2>5. QED BY <1>4, <2>1, <2>3, <2>4
<1>6. SizeOf(fs, {}) = 0
  BY <1>4, SumEmpty
<1>7. QED BY <1>5, <1>6 DEF D

\* Only the files that are added up matter.
LEMMA SizeSame ==
  ASSUME NEW fs, NEW gs, NEW S, IsFiniteSet(S), S \subseteq DOMAIN fs, S \subseteq DOMAIN gs,
         \A i \in S : fs[i].source = gs[i].source
  PROVE  SizeOf(fs, S) = SizeOf(gs, S)
<1> DEFINE h == [i \in DOMAIN fs |-> Len(fs[i].source)]
           k == [i \in DOMAIN gs |-> Len(gs[i].source)]
<1>1. \A i \in S : h[i] = k[i]
  OBVIOUS
<1> HIDE DEF h, k
<1>2. SumFunctionOnSet(h, S) = SumFunctionOnSet(k, S)
  BY <1>1, SumSame
<1>3. QED BY <1>2 DEF SizeOf, h, k

\* What a file holds: as many traces as rows of its batch are valid, each of them
\* with a root.
LEMMA FileHolds ==
  ASSUME NEW c \in Corpora, NEW f, IsFile(c, f)
  PROVE  /\ Len(f.source) \in Nat
         /\ Cardinality(KeysOf(f.rows)) = Len(f.source)
         /\ IsSequence(Traces(f.rows)) /\ Len(Traces(f.rows)) = Len(f.source)
         /\ \A k \in 1 .. Len(f.source) : Roots(Traces(f.rows)[k]) # {}
<1> DEFINE v == f.source
           t == Traces(f.rows)
<1>1. f.batch \in 1 .. Len(c) /\ IsSaved(c, v, f.batch) /\ f.rows = Flatten(v)
  BY DEF IsFile
<1> HIDE DEF v, t
<1>2. AreTrees(v)
  BY <1>1, SavedAre
<1>3. Len(v) \in Nat
  BY <1>2, SequenceIs DEF AreTrees
<1>4. Cardinality(KeysOf(f.rows)) = Len(v)
  BY <1>1, <1>2, KeysOfCount
<1>5. t = [k \in 1 .. Len(v) |-> Shown(v[k].forest)]
  BY <1>1, <1>2, TracesAre DEF t
<1>6. IsSequence(t) /\ Len(t) = Len(v)
  <2>1. t = [k \in 1 .. Len(v) |-> t[k]]
    BY <1>5
  <2>2. QED BY <1>3, <2>1, SequenceIs
<1>7. \A k \in 1 .. Len(v) : t[k] = Shown(v[k].forest) /\ IsTree(t[k])
  BY <1>2, <1>5 DEF AreTrees
<1>8. \A k \in 1 .. Len(v) : Roots(t[k]) # {}
  <2> TAKE k \in 1 .. Len(v)
  <2> DEFINE g == t[k]
  <2>1. IsTree(g)
    BY <1>7
  <2> HIDE DEF g
  <2>2. PICK i \in 1 .. Len(g.spans) : g.up[i] = 0
    BY <2>1 DEF IsTree
  <2>3. DOMAIN g.up = 1 .. Len(g.spans)
    BY <2>1 DEF IsTree, IsForest, IsUp
  <2>4. Roots(g) # {}
    BY <2>2, <2>3 DEF Roots
  <2>5. QED BY <2>4 DEF g
<1>9. QED BY <1>3, <1>4, <1>6, <1>8 DEF v, t

\* The smaller of two numbers.
LEMMA SmallerIs ==
  ASSUME NEW a \in Nat, NEW b \in Nat
  PROVE  Min({a, b}) = IF a <= b THEN a ELSE b
<1> DEFINE m == IF a <= b THEN a ELSE b
           T == {a, b}
<1>1. m \in T /\ \A x \in T : m <= x
  OBVIOUS
<1>2. \A x, y \in T : x <= y /\ y <= x => x = y
  OBVIOUS
<1> HIDE DEF m, T
<1>3. Min(T) \in T /\ \A x \in T : Min(T) <= x
  BY <1>1, Zenon DEF Min
<1>4. QED BY <1>1, <1>2, <1>3 DEF m, T

\* A listing of all numbers up to n has each of them once.
LEMMA ListsAll ==
  ASSUME NEW n \in Nat, NEW D, D = 1 .. n, NEW l \in SetToSeqs(D)
  PROVE  l \in Seq(D) /\ IsInjective(l) /\ Range(l) = D
<1>1. IsFiniteSet(D) /\ Cardinality(D) = n
  BY UpToCount
<1>2. l \in [1 .. n -> D] /\ \A i, j \in 1 .. n : i # j => l[i] # l[j]
  BY <1>1 DEF SetToSeqs
<1>3. l \in Seq(D)
  BY <1>2, SeqDef
<1>4. IsInjective(l)
  BY <1>2 DEF IsInjective
<1>5. l \in Injection(D, D)
  BY <1>2, <1>4 DEF Injection
<1>6. l \in Surjection(D, D)
  BY <1>1, <1>5, FS_Injection
<1>7. Range(l) = D
  <2>1. \A t \in D : \E s \in D : l[s] = t
    BY <1>6 DEF Surjection
  <2>2. DOMAIN l = D /\ \A s \in D : l[s] \in D
    BY <1>2
  <2>3. QED BY <2>1, <2>2 DEF Range
<1>8. QED BY <1>3, <1>4, <1>7

\* The forest that the converter made for a trace of the files fs.
ForestOf(fs, l) == Shown(fs[l[1]].source[l[2]].forest)

\* A trace of the queue is of a file that has been read, and is as the converter
\* made it; none is there twice, and none was examined.  The names of files are D.
QueueIs(D, fs, list, q, noted) ==
  /\ IsSequence(q)
  /\ \A n \in DOMAIN q :
       /\ q[n].from[1] \in DOMAIN fs /\ q[n].from[1] \notin Range(list)
       /\ q[n].from \notin noted
       /\ q[n].dataset \in D /\ q[n].dataset = fs[q[n].from[1]].no
       /\ q[n].forest = ForestOf(fs, q[n].from)
  /\ \A n, k \in DOMAIN q : q[n].from = q[k].from => n = k

\* The traces examined are of files that have been read.
SeenIs(fs, now, list, noted) ==
  /\ IsFiniteSet(noted)
  /\ \A l \in noted : l[1] \in DOMAIN fs /\ l[1] \notin Range(list)
  /\ now \in {"idle", "counted"} => noted = {}

\* The tallies, over the names D.
IsTally(D, t) ==
  /\ t.traces \in [D -> Nat]
  /\ t.fields \in [D -> [Fields -> Nat]]
  /\ t.eligible \in [D -> [DetectorTypes -> Nat]]
  /\ t.reasons \in [Fields -> Int]

\* What is counted, read and still to be read: as long as no file has been
\* finished since the count, they add up.
AddUp(fs, now, number, count, list, traces, read) ==
  LET done == CompleteOf(fs)
      all  == SizeOf(fs, done)
  IN  /\ now \in {"idle", "counted"} => read = 0 /\ traces = << >> /\ list = << >>
      /\ now = "idle" => count = 0
      /\ now \in {"counted", "reading"} => read < MaxTraces
      /\ now # "idle" => /\ count <= Cardinality(done)
                         /\ count = Cardinality(done) => number = Min({all, MaxTraces})
      /\ now = "reading" /\ count = Cardinality(done) =>
           read + Len(traces) + SizeOf(fs, Range(list) \cap done) = all
      /\ now = "done" /\ count = Cardinality(done) => number = read

\* The files of a download of corpus c.
FilesAre(c, fs) == IsSequence(fs) /\ \A i \in 1 .. Len(fs) : IsFile(c, fs[i])

\* The files that are complete, and their sizes.
LEMMA FilesHold ==
  ASSUME NEW c \in Corpora, NEW fs, FilesAre(c, fs)
  PROVE  /\ Len(fs) \in Nat /\ DOMAIN fs = 1 .. Len(fs)
         /\ CompleteOf(fs) \subseteq DOMAIN fs /\ IsFiniteSet(CompleteOf(fs))
         /\ Cardinality(CompleteOf(fs)) \in Nat
         /\ \A S \in SUBSET DOMAIN fs :
              /\ IsFiniteSet(S) /\ SizeOf(fs, S) \in Nat
              /\ \A x \in S : SizeOf(fs, S) = SizeOf(fs, S \ {x}) + Len(fs[x].source)
<1>1. Len(fs) \in Nat /\ DOMAIN fs = 1 .. Len(fs)
  BY SequenceIs DEF FilesAre
<1>2. \A i \in 1 .. Len(fs) : Len(fs[i].source) \in Nat
  BY FileHolds DEF FilesAre
<1>3. \A S \in SUBSET (1 .. Len(fs)) :
        /\ IsFiniteSet(S) /\ SizeOf(fs, S) \in Nat
        /\ \A x \in S : SizeOf(fs, S) = SizeOf(fs, S \ {x}) + Len(fs[x].source)
  BY <1>2, SizeIs DEF FilesAre
<1>4. CompleteOf(fs) \in SUBSET (1 .. Len(fs))
  BY <1>1 DEF CompleteOf
<1>5. QED BY <1>1, <1>3, <1>4, FS_CardinalityType

\* When files are written or finished, the numbers of a diagnosis that goes on
\* either add up still or are not compared any more.
LEMMA AddUpGrows ==
  ASSUME NEW c \in Corpora, NEW fs, FilesAre(c, fs), NEW gs, FilesAre(c, gs),
         CompleteOf(fs) \subseteq CompleteOf(gs), \A i \in CompleteOf(fs) : gs[i].source = fs[i].source,
         NEW now, NEW number, NEW count \in Nat, NEW list, NEW traces, NEW read,
         AddUp(fs, now, number, count, list, traces, read)
  PROVE  AddUp(gs, now, number, count, list, traces, read)
<1> DEFINE a == Cardinality(CompleteOf(fs))
           b == Cardinality(CompleteOf(gs))
           R == Range(list) \cap CompleteOf(fs)
<1>1. a \in Nat /\ b \in Nat /\ CompleteOf(fs) \in SUBSET CompleteOf(gs)
      /\ IsFiniteSet(CompleteOf(gs)) /\ IsFiniteSet(CompleteOf(fs))
  BY FilesHold
<1>2. a <= b /\ (a = b => CompleteOf(fs) = CompleteOf(gs))
  BY <1>1, FS_Subset
<1>3. \A S \in SUBSET CompleteOf(fs) : SizeOf(fs, S) = SizeOf(gs, S)
  <2> TAKE S \in SUBSET CompleteOf(fs)
  <2>1. S \subseteq DOMAIN fs /\ S \subseteq DOMAIN gs /\ IsFiniteSet(S)
    BY <1>1, FilesHold
  <2>2. QED BY <2>1, SizeSame
<1>4. R \in SUBSET CompleteOf(fs)
  OBVIOUS
<1>5. now # "idle" => count <= a
  BY DEF AddUp
<1> HIDE DEF a, b
<1>6. count = b /\ now # "idle" => a = b
  BY <1>1, <1>2, <1>5
<1>7. now # "idle" => count <= b
  BY <1>1, <1>2, <1>5
<1>8. ASSUME now # "idle", count = b
      PROVE  count = a /\ CompleteOf(fs) = CompleteOf(gs)
             /\ SizeOf(gs, CompleteOf(gs)) = SizeOf(fs, CompleteOf(fs))
             /\ SizeOf(gs, Range(list) \cap CompleteOf(gs)) = SizeOf(fs, R)
  <2>1. count = a /\ CompleteOf(fs) = CompleteOf(gs)
    BY <1>2, <1>6, <1>8
  <2>2. CompleteOf(fs) \in SUBSET CompleteOf(fs) /\ R = Range(list) \cap CompleteOf(gs)
    BY <2>1
  <2> HIDE DEF R
  <2>3. QED BY <1>3, <1>4, <2>1, <2>2
<1>9. QED BY <1>7, <1>8 DEF AddUp, a, b, R

\* An element of a sum that is increased increases the sum.
LEMMA TotalBump ==
  ASSUME NEW D, IsFiniteSet(D), NEW t \in [D -> Int], NEW u \in [D -> Int], NEW d \in D, NEW e \in Int,
         u[d] = t[d] + e, \A x \in D \ {d} : u[x] = t[x]
  PROVE  Total(t) \in Int /\ Total(u) = Total(t) + e
<1> DEFINE R == D \ {d}
<1>1. R \in SUBSET D /\ d \in D \ R /\ R \cup {d} = D /\ IsFiniteSet(R)
  BY FS_Subset
<1>2. DOMAIN t = D /\ DOMAIN u = D /\ \A x \in D : t[x] \in Int /\ u[x] \in Int
  OBVIOUS
<1>3. \A x \in R : u[x] = t[x] /\ t[x] \in Int
  BY <1>2
<1> HIDE DEF R
<1>4. SumFunctionOnSet(t, R \cup {d}) = SumFunctionOnSet(t, R) + t[d]
  BY <1>1, <1>2, SumAdd
<1>5. SumFunctionOnSet(u, R \cup {d}) = SumFunctionOnSet(u, R) + u[d]
  BY <1>1, <1>2, SumAdd
<1>6. SumFunctionOnSet(t, R) = SumFunctionOnSet(u, R)
  BY <1>1, <1>3, SumSame
<1>7. SumFunctionOnSet(t, R) \in Int
  BY <1>1, <1>3, SumType, Int \in {Nat, Int}
<1>8. t[d] \in Int /\ u[d] \in Int
  BY <1>2
<1>9. SumFunctionOnSet(t, D) \in Int /\ SumFunctionOnSet(u, D) = SumFunctionOnSet(t, D) + e
  <2> DEFINE a == SumFunctionOnSet(t, R)
             b == SumFunctionOnSet(t, D)
             h == SumFunctionOnSet(u, D)
             p == t[d]
             q == u[d]
  <2>1. b = a + p
    BY <1>1, <1>4
  <2>2. h = a + q
    BY <1>1, <1>5, <1>6
  <2>3. a \in Int /\ p \in Int /\ q = p + e
    BY <1>7, <1>8
  <2> HIDE DEF a, b, h, p, q
  <2>4. b \in Int /\ h = b + e
    BY <2>1, <2>2, <2>3
  <2>5. QED BY <2>4 DEF b, h
<1>10. QED BY <1>2, <1>9 DEF Total

\* A sum of natural numbers is one.
LEMMA TotalType ==
  ASSUME NEW D, IsFiniteSet(D), NEW t \in [D -> Nat]
  PROVE  Total(t) \in Nat
<1>1. DOMAIN t = D /\ \A x \in D : t[x] \in Nat
  OBVIOUS
<1>2. SumFunctionOnSet(t, D) \in Nat
  BY <1>1, SumType, Nat \in {Nat, Int}
<1>3. QED BY <1>1, <1>2 DEF Total

-----------------------------------------------------------------------------
(* The tallies.                                                             *)

\* Sets of a few members are finite.
LEMMA FewAreFinite ==
  \A a, b, c, d, e, f, g : IsFiniteSet({a, b, c, d, e, f, g})
<1> TAKE a, b, c, d, e, f, g
<1>1. \A S, x : IsFiniteSet(S) => IsFiniteSet(S \cup {x})
  BY FS_AddElement
<1>2. IsFiniteSet({a})
  BY FS_Singleton
<1>3. IsFiniteSet((((((({a} \cup {b}) \cup {c}) \cup {d}) \cup {e}) \cup {f}) \cup {g}))
  BY <1>1, <1>2
<1>4. {a, b, c, d, e, f, g} = (((((({a} \cup {b}) \cup {c}) \cup {d}) \cup {e}) \cup {f}) \cup {g})
  OBVIOUS
<1>5. QED BY <1>3, <1>4

\* There are finitely many detectors.
LEMMA DetectorsFinite == IsFiniteSet(DetectorTypes)
<1> DEFINE A == {"empty_response", "low_output", "output_drift", "indeterminate_status",
                 "loop_detected", "pattern_loop", "argument_loop"}
           B == {"redundant_tool_call", "tool_error_rate", "specific_tool_error",
                 "wasted_tool_calls", "tool_latency", "tool_timeout", "cost_spike"}
           C == {"cost_vs_baseline", "cost_efficiency", "token_explosion", "per_tool_cost_spike",
                 "run_duration", "max_step_hit", "step_efficiency"}
           D == {"inactivity", "premature_completion", "retry_storm", "systemic_retry",
                 "transient_retry", "cascading_retry", "recovery_path"}
           E == {"intervention_frequency", "escalation_rate", "approval_latency",
                 "intervention_rejection", "anomaly_cluster", "run_frequency_anomaly",
                 "first_run_heuristic"}
<1>1. DetectorTypes \subseteq (((A \cup B) \cup C) \cup D) \cup E
  BY DEF DetectorTypes
<1>2. IsFiniteSet(A) /\ IsFiniteSet(B) /\ IsFiniteSet(C) /\ IsFiniteSet(D) /\ IsFiniteSet(E)
  BY FewAreFinite, Zenon
<1> HIDE DEF A, B, C, D, E
<1>3. \A S, T : IsFiniteSet(S) /\ IsFiniteSet(T) => IsFiniteSet(S \cup T)
  BY FS_Union
<1>4. IsFiniteSet((((A \cup B) \cup C) \cup D) \cup E)
  BY <1>2, <1>3
<1>5. QED BY <1>1, <1>4, FS_Subset

\* How many detectors need a field.
Needing(x) == Cardinality({t \in DetectorTypes : x \in DetectorRequirements[t]})

\* Of the traces S, those in the files with the number n; those with a field; those
\* without it; those with which a detector can work.
LinesOf(fs, S, n) == {l \in S : fs[l[1]].no = n}
HasOf(fs, l) == TraceFieldPresence(ForestOf(fs, l))
WithField(fs, S, x) == {l \in S : x \in HasOf(fs, l)}
Without(fs, S, x) == {l \in S : x \notin HasOf(fs, l)}
Workable(fs, S, k) == {l \in S : DetectorRequirements[k] \subseteq HasOf(fs, l)}

\* ReportTellsWhatWasConverted, of the tallies t and the traces noted.
Agree(D, fs, noted, t) ==
  /\ \A n \in D :
       /\ t.traces[n] = Cardinality(LinesOf(fs, noted, n))
       /\ \A x \in Fields : t.fields[n][x] = Cardinality(WithField(fs, LinesOf(fs, noted, n), x))
       /\ \A k \in DetectorTypes : t.eligible[n][k] = Cardinality(Workable(fs, LinesOf(fs, noted, n), k))
  /\ \A x \in Fields : t.reasons[x] = Needing(x) * Cardinality(Without(fs, noted, x))

\* What ExamineTrace makes of the tallies t, for a trace under the name d.
Examined(t, d, present, raised) ==
  [traces   |-> [t.traces EXCEPT ![d] = @ + 1],
   fields   |-> [t.fields EXCEPT ![d] = [x \in Fields |-> Bump(@[x], x \in raised)]],
   eligible |-> [t.eligible EXCEPT ![d] =
                  [k \in DetectorTypes |-> Bump(@[k], k \in Eligible(present))]],
   reasons  |-> [x \in Fields |-> t.reasons[x] + Lacking(x, present)]]

\* A number of detectors is a number.
LEMMA NeedingType == \A x : Needing(x) \in Nat
<1> TAKE x
<1> DEFINE S == {t \in DetectorTypes : x \in DetectorRequirements[t]}
<1>1. S \in SUBSET DetectorTypes
  OBVIOUS
<1> HIDE DEF S
<1>2. IsFiniteSet(S)
  BY <1>1, DetectorsFinite, FS_Subset
<1>3. Cardinality(S) \in Nat
  BY <1>2, FS_CardinalityType
<1>4. QED BY <1>3 DEF Needing, S

\* One trace more, which hits or not, is counted if it hits.
LEMMA OneMoreCounted ==
  ASSUME NEW S, IsFiniteSet(S), NEW e, e \notin S, NEW A \in SUBSET S, NEW B, NEW hit \in BOOLEAN,
         hit => B = A \cup {e}, ~hit => B = A
  PROVE  Cardinality(A) \in Nat /\ Cardinality(B) = IF hit THEN Cardinality(A) + 1 ELSE Cardinality(A)
<1>1. IsFiniteSet(A) /\ e \notin A
  BY FS_Subset
<1>2. Cardinality(A) \in Nat /\ Cardinality(A \cup {e}) = Cardinality(A) + 1
  BY <1>1, FS_CardinalityType, FS_AddElement
<1>3. QED BY <1>2

\* What ExamineTrace adds to the tallies.
ExaminedIs(D, t, u, d, present, raised) ==
  /\ \A n \in D : n # d => u.traces[n] = t.traces[n] /\ u.fields[n] = t.fields[n]
                           /\ u.eligible[n] = t.eligible[n]
  /\ u.traces[d] = t.traces[d] + 1
  /\ \A x \in Fields : u.fields[d][x] = IF x \in raised THEN t.fields[d][x] + 1 ELSE t.fields[d][x]
  /\ \A k \in DetectorTypes :
       u.eligible[d][k] = IF k \in Eligible(present) THEN t.eligible[d][k] + 1 ELSE t.eligible[d][k]
  /\ \A x \in Fields : u.reasons[x] = t.reasons[x] + (IF x \in present THEN 0 ELSE Needing(x))

\* The tallies keep their type, and grow by the trace examined.
LEMMA ExaminedAdds ==
  ASSUME NEW D, IsFiniteSet(D), NEW t, IsTally(D, t), NEW d \in D, NEW present, NEW raised
  PROVE  LET u == Examined(t, d, present, raised)
         IN  /\ IsTally(D, u) /\ ExaminedIs(D, t, u, d, present, raised)
             /\ Total(u.traces) = Total(t.traces) + 1
<1> DEFINE u == Examined(t, d, present, raised)
<1>1. /\ u.traces = [t.traces EXCEPT ![d] = @ + 1]
      /\ u.fields = [t.fields EXCEPT ![d] = [x \in Fields |-> IF x \in raised THEN @[x] + 1 ELSE @[x]]]
      /\ u.eligible = [t.eligible EXCEPT ![d] =
                        [k \in DetectorTypes |-> IF k \in Eligible(present) THEN @[k] + 1 ELSE @[k]]]
      /\ u.reasons = [x \in Fields |-> t.reasons[x] + Lacking(x, present)]
  BY DEF Examined, Bump
<1> HIDE DEF u
<1>2. /\ t.traces \in [D -> Nat] /\ t.fields \in [D -> [Fields -> Nat]]
      /\ t.eligible \in [D -> [DetectorTypes -> Nat]] /\ t.reasons \in [Fields -> Int]
  BY DEF IsTally
<1>3. \A x : Lacking(x, present) = IF x \in present THEN 0 ELSE Needing(x)
  BY DEF Lacking, Needing
<1>4. /\ u.traces \in [D -> Nat] /\ u.traces[d] = t.traces[d] + 1
      /\ \A n \in D \ {d} : u.traces[n] = t.traces[n]
  BY <1>1, <1>2
<1>5. /\ u.fields \in [D -> [Fields -> Nat]]
      /\ \A x \in Fields : u.fields[d][x] = IF x \in raised THEN t.fields[d][x] + 1 ELSE t.fields[d][x]
      /\ \A n \in D \ {d} : u.fields[n] = t.fields[n]
  <2>1. DOMAIN t.fields = D /\ t.fields[d] \in [Fields -> Nat]
    BY <1>2
  <2>2. u.fields[d] = [x \in Fields |-> IF x \in raised THEN t.fields[d][x] + 1 ELSE t.fields[d][x]]
        /\ DOMAIN u.fields = D
        /\ \A n \in D \ {d} : u.fields[n] = t.fields[n]
    BY <1>1, <2>1
  <2>3. u.fields[d] \in [Fields -> Nat]
    BY <2>1, <2>2
  <2>4. u.fields \in [D -> [Fields -> Nat]]
    BY <1>1, <1>2, <2>1, <2>2, <2>3
  <2>5. QED BY <2>2, <2>4
<1>6. /\ u.eligible \in [D -> [DetectorTypes -> Nat]]
      /\ \A k \in DetectorTypes : u.eligible[d][k] = IF k \in Eligible(present) THEN t.eligible[d][k] + 1 ELSE t.eligible[d][k]
      /\ \A n \in D \ {d} : u.eligible[n] = t.eligible[n]
  <2>1. DOMAIN t.eligible = D /\ t.eligible[d] \in [DetectorTypes -> Nat]
    BY <1>2
  <2>2. u.eligible[d] = [k \in DetectorTypes |-> IF k \in Eligible(present) THEN t.eligible[d][k] + 1 ELSE t.eligible[d][k]]
        /\ DOMAIN u.eligible = D
        /\ \A n \in D \ {d} : u.eligible[n] = t.eligible[n]
    BY <1>1, <2>1
  <2>3. u.eligible[d] \in [DetectorTypes -> Nat]
    BY <2>1, <2>2
  <2>4. u.eligible \in [D -> [DetectorTypes -> Nat]]
    BY <1>1, <1>2, <2>1, <2>2, <2>3
  <2>5. QED BY <2>2, <2>4
<1>7. \A x : Needing(x) \in Nat
  BY NeedingType
<1>8. /\ u.reasons \in [Fields -> Int]
      /\ \A x \in Fields : u.reasons[x] = t.reasons[x] + (IF x \in present THEN 0 ELSE Needing(x))
  <2>1. DOMAIN u.reasons = Fields /\ \A x \in Fields : u.reasons[x] = t.reasons[x] + Lacking(x, present)
    BY <1>1
  <2>2. \A x \in Fields : t.reasons[x] \in Int /\ Lacking(x, present) \in Int
    BY <1>2, <1>3, <1>7
  <2>3. \A x \in Fields : u.reasons[x] \in Int
    BY <2>1, <2>2
  <2>4. u.reasons \in [Fields -> Int]
    BY <1>1, <2>1, <2>3
  <2>5. QED BY <1>3, <2>1, <2>4
<1>9. IsTally(D, u)
  BY <1>4, <1>5, <1>6, <1>8 DEF IsTally
<1>10. Total(t.traces) \in Int /\ Total(u.traces) = Total(t.traces) + 1
  <2>1. t.traces \in [D -> Int] /\ u.traces \in [D -> Int]
    BY <1>2, <1>4
  <2>2. QED BY <1>4, <2>1, TotalBump
<1>11. ExaminedIs(D, t, u, d, present, raised)
  BY <1>4, <1>5, <1>6, <1>8 DEF ExaminedIs
<1>12. QED BY <1>9, <1>10, <1>11 DEF u

\* A trace that is examined is counted under its name, in the columns and for the
\* detectors that its forest, as converted, calls for.
LEMMA ExaminedAgrees ==
  ASSUME NEW D, IsFiniteSet(D), NEW fs, NEW noted, IsFiniteSet(noted),
         NEW t, IsTally(D, t), Agree(D, fs, noted, t),
         NEW e, e \notin noted, NEW d \in D, d = fs[e[1]].no, NEW f, f = ForestOf(fs, e)
  PROVE  /\ IsTally(D, Examined(t, d, TraceFieldPresence(f), FieldsRaised(f)))
         /\ Agree(D, fs, noted \cup {e}, Examined(t, d, TraceFieldPresence(f), FieldsRaised(f)))
         /\ Total(Examined(t, d, TraceFieldPresence(f), FieldsRaised(f)).traces)
              = Total(t.traces) + 1
<1> DEFINE present == TraceFieldPresence(f)
           raised == FieldsRaised(f)
           u == Examined(t, d, present, raised)
           all == noted \cup {e}
<1>1. IsTally(D, u) /\ ExaminedIs(D, t, u, d, present, raised) /\ Total(u.traces) = Total(t.traces) + 1
  BY ExaminedAdds
<1>2. /\ t.traces[d] \in Nat /\ \A x \in Fields : t.reasons[x] \in Int
  BY DEF IsTally
<1>3. \A x \in Fields : x \in raised <=> x \in present
  BY DEF FieldsRaised, TraceFieldPresence
<1>4. present = HasOf(fs, e)
  BY DEF HasOf
<1> HIDE DEF u, present, raised
<1>5. /\ \A x \in Fields : u.fields[d][x] = IF x \in present THEN t.fields[d][x] + 1 ELSE t.fields[d][x]
      /\ \A k \in DetectorTypes :
           u.eligible[d][k] = IF k \in Eligible(present) THEN t.eligible[d][k] + 1 ELSE t.eligible[d][k]
      /\ u.traces[d] = t.traces[d] + 1
      /\ \A x \in Fields : u.reasons[x] = t.reasons[x] + (IF x \in present THEN 0 ELSE Needing(x))
  BY <1>1, <1>3 DEF ExaminedIs
<1>11. /\ \A n : n # d => LinesOf(fs, all, n) = LinesOf(fs, noted, n)
       /\ LinesOf(fs, all, d) = LinesOf(fs, noted, d) \cup {e}
  BY DEF LinesOf
<1>12. LinesOf(fs, noted, d) \in SUBSET noted
  BY DEF LinesOf
<1>13. u.traces[d] = Cardinality(LinesOf(fs, all, d))
  <2>1. Cardinality(LinesOf(fs, all, d)) = Cardinality(LinesOf(fs, noted, d)) + 1
    <3> DEFINE hit == TRUE
               A == LinesOf(fs, noted, d)
               B == LinesOf(fs, all, d)
    <3>1. hit \in BOOLEAN /\ (hit => B = A \cup {e}) /\ (~hit => B = A) /\ A \in SUBSET noted
      BY <1>11, <1>12
    <3> HIDE DEF hit, A, B
    <3>2. Cardinality(B) = IF hit THEN Cardinality(A) + 1 ELSE Cardinality(A)
      BY <3>1, OneMoreCounted
    <3>3. QED BY <3>2 DEF hit, A, B
  <2>2. t.traces[d] = Cardinality(LinesOf(fs, noted, d))
    BY DEF Agree
  <2>3. QED BY <1>5, <2>1, <2>2
<1>14. ASSUME NEW x \in Fields
       PROVE  u.fields[d][x] = Cardinality(WithField(fs, LinesOf(fs, all, d), x))
  <2> DEFINE A == WithField(fs, LinesOf(fs, noted, d), x)
             B == WithField(fs, LinesOf(fs, all, d), x)
             hit == x \in present
  <2>1. A \in SUBSET noted /\ (hit => B = A \cup {e}) /\ (~hit => B = A) /\ hit \in BOOLEAN
    BY <1>4, <1>11, <1>12 DEF WithField
  <2>2. t.fields[d][x] = Cardinality(A)
    BY DEF Agree
  <2> HIDE DEF A, B, hit
  <2>3. Cardinality(B) = IF hit THEN Cardinality(A) + 1 ELSE Cardinality(A)
    BY <2>1, OneMoreCounted
  <2>4. QED BY <1>5, <2>2, <2>3 DEF B, hit
<1>15. ASSUME NEW k \in DetectorTypes
       PROVE  u.eligible[d][k] = Cardinality(Workable(fs, LinesOf(fs, all, d), k))
  <2> DEFINE A == Workable(fs, LinesOf(fs, noted, d), k)
             B == Workable(fs, LinesOf(fs, all, d), k)
             hit == k \in Eligible(present)
  <2>1. A \in SUBSET noted /\ (hit => B = A \cup {e}) /\ (~hit => B = A) /\ hit \in BOOLEAN
    BY <1>4, <1>11, <1>12 DEF Workable, Eligible
  <2>2. t.eligible[d][k] = Cardinality(A)
    BY DEF Agree
  <2> HIDE DEF A, B, hit
  <2>3. Cardinality(B) = IF hit THEN Cardinality(A) + 1 ELSE Cardinality(A)
    BY <2>1, OneMoreCounted
  <2>4. QED BY <1>5, <2>2, <2>3 DEF B, hit
<1>16. ASSUME NEW x \in Fields
       PROVE  u.reasons[x] = Needing(x) * Cardinality(Without(fs, all, x))
  <2> DEFINE A == Without(fs, noted, x)
             B == Without(fs, all, x)
             hit == x \notin present
             n == Needing(x)
             a == Cardinality(A)
  <2>1. A \in SUBSET noted /\ (hit => B = A \cup {e}) /\ (~hit => B = A) /\ hit \in BOOLEAN
    BY <1>4 DEF Without
  <2>2. t.reasons[x] = n * a
    BY DEF Agree
  <2>3. u.reasons[x] = t.reasons[x] + (IF hit THEN n ELSE 0)
    BY <1>5
  <2>4. n \in Nat
    BY NeedingType
  <2> HIDE DEF A, B, hit, n
  <2>5. a \in Nat /\ Cardinality(B) = IF hit THEN a + 1 ELSE a
    BY <2>1, OneMoreCounted
  <2> HIDE DEF a
  <2>6. \A i, j \in Nat : i * (j + 1) = i * j + i /\ i * j + 0 = i * j
    OBVIOUS
  <2>7. QED BY <2>2, <2>3, <2>4, <2>5, <2>6 DEF B, n
<1>17. ASSUME NEW n \in D
       PROVE  /\ u.traces[n] = Cardinality(LinesOf(fs, all, n))
              /\ \A x \in Fields : u.fields[n][x] = Cardinality(WithField(fs, LinesOf(fs, all, n), x))
              /\ \A k \in DetectorTypes :
                   u.eligible[n][k] = Cardinality(Workable(fs, LinesOf(fs, all, n), k))
  <2>1. CASE n = d
    BY <1>13, <1>14, <1>15, <2>1
  <2>2. CASE n # d
    <3>1. LinesOf(fs, all, n) = LinesOf(fs, noted, n)
      BY <1>11, <2>2
    <3>2. u.traces[n] = t.traces[n] /\ u.fields[n] = t.fields[n] /\ u.eligible[n] = t.eligible[n]
      BY <1>1, <2>2 DEF ExaminedIs
    <3>3. QED BY <3>1, <3>2 DEF Agree
  <2>3. QED BY <2>1, <2>2
<1>18. Agree(D, fs, all, u)
  BY <1>16, <1>17 DEF Agree
<1>19. QED BY <1>1, <1>18 DEF u, present, raised, all

\* What the diagnosis knows, of a download that has written the files fs.
DiagnosisIs(c, fs, now, number, count, list, traces, t, noted) ==
  /\ now \in {"idle", "counted", "reading", "done"}
  /\ number \in 0 .. MaxTraces /\ count \in Nat
  /\ list \in Seq(DOMAIN fs) /\ IsInjective(list)
  /\ QueueIs(DOMAIN c, fs, list, traces, noted) /\ SeenIs(fs, now, list, noted)
  /\ IsTally(DOMAIN c, t) /\ Agree(DOMAIN c, fs, noted, t)
  /\ AddUp(fs, now, number, count, list, traces, Total(t.traces))

\* What the diagnosis knows.
DiagnosisInv == DiagnosisIs(corpus, files, phase, total, counted, listing, queue, tally, diagnosed)

\* What a corpus numbers its data sets with.
LEMMA CorpusFinite ==
  ASSUME NEW c \in Corpora
  PROVE  Len(c) \in Nat /\ DOMAIN c = 1 .. Len(c) /\ IsFiniteSet(DOMAIN c)
<1>1. Len(c) \in Nat /\ DOMAIN c = 1 .. Len(c)
  BY CorpusRows
<1>2. QED BY <1>1, UpToCount

\* Zeros add up to zero.
LEMMA ZeroSum ==
  ASSUME NEW D, IsFiniteSet(D), NEW h, DOMAIN h = D, \A x \in D : h[x] = 0
  PROVE  Total(h) = 0
<1> DEFINE U == {s \in SUBSET D : SumFunctionOnSet(h, s) = 0}
<1>1. {} \in U
  BY SumEmpty
<1>2. \A x \in D : h[x] \in Int
  OBVIOUS
<1>3. ASSUME NEW s \in SUBSET D, NEW x \in D \ s, s \in U
      PROVE  s \cup {x} \in U
  <2>1. SumFunctionOnSet(h, s \cup {x}) = SumFunctionOnSet(h, s) + h[x]
    BY <1>2, SumAdd
  <2>2. SumFunctionOnSet(h, s) = 0 /\ h[x] = 0
    BY <1>3
  <2>3. SumFunctionOnSet(h, s \cup {x}) = 0
    BY <2>1, <2>2
  <2>4. QED BY <2>3
<1> HIDE DEF U
<1>4. D \in U
  BY <1>1, <1>3, FiniteInduction
<1>5. QED BY <1>4 DEF U, Total

\* What CountTraces adds up.
LEMMA CountIs ==
  ASSUME NEW c \in Corpora, NEW fs, FilesAre(c, fs)
  PROVE  SumFunctionOnSet([i \in CompleteOf(fs) |-> Cardinality(KeysOf(fs[i].rows))], CompleteOf(fs))
           = SizeOf(fs, CompleteOf(fs))
<1> DEFINE S == CompleteOf(fs)
           h == [i \in S |-> Cardinality(KeysOf(fs[i].rows))]
           k == [i \in DOMAIN fs |-> Len(fs[i].source)]
<1>1. S \subseteq DOMAIN fs /\ DOMAIN fs = 1 .. Len(fs) /\ IsFiniteSet(S)
  BY FilesHold
<1>2. \A i \in S : h[i] = k[i]
  <2> TAKE i \in S
  <2>1. Cardinality(KeysOf(fs[i].rows)) = Len(fs[i].source)
    BY <1>1, FileHolds DEF FilesAre
  <2>2. QED BY <1>1, <2>1
<1> HIDE DEF h, k, S
<1>3. SumFunctionOnSet(h, S) = SumFunctionOnSet(k, S)
  BY <1>1, <1>2, SumSame
<1>4. QED BY <1>3 DEF SizeOf, S, h, k

\* All traces of a file that can be read are put into the queue, as the converter
\* made them, under the number of the file.
LEMMA ReadIs ==
  ASSUME NEW c \in Corpora, FilesAre(c, files), NEW h \in DOMAIN files, NEW q, q = TracesOf(h)
  PROVE  /\ IsSequence(q) /\ Len(q) = Len(files[h].source) /\ files[h].no \in DOMAIN c
         /\ \A n \in DOMAIN q : /\ q[n].from = <<h, n>> /\ q[n].dataset = files[h].no
                                /\ q[n].forest = ForestOf(files, <<h, n>>)
<1> DEFINE f == files[h]
           traces == Traces(f.rows)
           rooted == Keep(traces, {g \in ToSet(traces) : Roots(g) # {}})
           S == ToSet(traces)
           V == {g \in ToSet(traces) : Roots(g) # {}}
<1>0. IsFile(c, f)
  BY FilesHold DEF FilesAre
<1>1. /\ Len(f.source) \in Nat
      /\ IsSequence(traces) /\ Len(traces) = Len(f.source)
      /\ \A k \in 1 .. Len(f.source) : Roots(traces[k]) # {}
  BY <1>0, FileHolds
<1>2. q = [n \in DOMAIN rooted |-> [dataset |-> Stem(f), forest |-> rooted[n], from |-> <<h, n>>]]
  BY DEF TracesOf
<1>3. traces = [k \in 1 .. Len(f.source) |-> Shown(f.source[k].forest)]
  <2>1. AreTrees(f.source) /\ f.rows = Flatten(f.source)
    BY <1>0, SavedAre DEF IsFile
  <2>2. QED BY <2>1, TracesAre
<1> HIDE DEF traces, f
<1>4. DOMAIN traces = 1 .. Len(traces) /\ Len(traces) \in Nat
  BY <1>1, SequenceIs
<1>5. \A k \in 1 .. Len(traces) : traces[k] \in V
  BY <1>1, <1>4 DEF ToSet
<1>6. traces \in Seq(S)
  BY <1>1 DEF IsSequence, ToSet
<1>7. rooted = traces
  <2> HIDE DEF S, V
  <2>1. Keep(traces, V) = traces
    BY <1>5, <1>6, KeepAll
  <2>2. QED BY <2>1 DEF V
<1> HIDE DEF rooted, S, V
<1>8. /\ DOMAIN q = 1 .. Len(traces)
      /\ \A n \in 1 .. Len(traces) : /\ q[n].dataset = Stem(f) /\ q[n].from = <<h, n>>
                                     /\ q[n].forest = traces[n]
  <2> DEFINE e(n) == [dataset |-> Stem(f), forest |-> rooted[n], from |-> <<h, n>>]
  <2>1. \A n : e(n).dataset = Stem(f) /\ e(n).forest = rooted[n] /\ e(n).from = <<h, n>>
    OBVIOUS
  <2>2. q = [n \in DOMAIN rooted |-> e(n)]
    BY <1>2
  <2> HIDE DEF e
  <2>3. DOMAIN q = DOMAIN rooted /\ \A n \in DOMAIN rooted : q[n] = e(n)
    BY <2>2
  <2>4. QED BY <1>4, <1>7, <2>1, <2>3
<1>9. IsSequence(q) /\ Len(q) = Len(traces)
  <2>1. q = [n \in DOMAIN q |-> q[n]]
    BY <1>2
  <2>2. QED BY <1>4, <1>8, <2>1, SequenceIs
<1>10. \A n \in 1 .. Len(traces) : traces[n] = ForestOf(files, <<h, n>>)
  BY <1>1, <1>3 DEF ForestOf, f
<1>11. f.no \in DOMAIN c
  BY <1>0, CorpusFinite DEF IsFile
<1>12. QED BY <1>1, <1>8, <1>9, <1>10, <1>11 DEF Stem, f

\* What is left of a sequence.
LEMMA TailIs ==
  ASSUME NEW s, IsSequence(s), s # << >>
  PROVE  /\ Len(s) \in Nat \ {0} /\ Head(s) = s[1] /\ 1 \in DOMAIN s
         /\ IsSequence(Tail(s)) /\ Len(Tail(s)) = Len(s) - 1
         /\ \A i \in DOMAIN Tail(s) : i + 1 \in DOMAIN s /\ Tail(s)[i] = s[i + 1]
<1> DEFINE S == {s[i] : i \in DOMAIN s}
           t == Tail(s)
<1>1. s \in Seq(S)
  BY DEF IsSequence
<1> HIDE DEF S, t
<1>2. t \in Seq(S) /\ Len(t) = Len(s) - 1 /\ \A i \in 1 .. Len(t) : t[i] = s[i + 1]
  BY <1>1, HeadTailProperties DEF t
<1>3. Len(s) \in Nat \ {0} /\ DOMAIN s = 1 .. Len(s) /\ Head(s) = s[1]
  BY <1>1
<1>4. DOMAIN t = 1 .. Len(t) /\ t \in [1 .. Len(t) -> S] /\ Len(t) \in Nat
  BY <1>2, LenProperties
<1>5. t = [i \in 1 .. Len(t) |-> t[i]]
  BY <1>4
<1>6. IsSequence(t)
  BY <1>4, <1>5, SequenceIs
<1>7. \A i \in DOMAIN t : i + 1 \in DOMAIN s
  BY <1>2, <1>3, <1>4
<1>8. 1 \in DOMAIN s
  BY <1>3
<1>9. QED BY <1>2, <1>3, <1>4, <1>6, <1>7, <1>8 DEF t

\* At first nothing is counted.
LEMMA DiagnosisBegins ==
  ASSUME TreesInit
  PROVE  DiagnosisInv
<1> DEFINE D == DOMAIN corpus
<1>1. /\ corpus \in Corpora /\ files = << >>
      /\ phase = "idle" /\ total = 0 /\ counted = 0 /\ listing = << >> /\ queue = << >>
      /\ diagnosed = {}
      /\ tally = [traces |-> [n \in D |-> 0], fields |-> [n \in D |-> [x \in Fields |-> 0]],
                  eligible |-> [n \in D |-> [d \in DetectorTypes |-> 0]],
                  reasons |-> [x \in Fields |-> 0]]
  BY DEF TreesInit
<1>2. IsFiniteSet(D)
  BY <1>1, CorpusFinite
<1> HIDE DEF D
<1>3. /\ tally.traces = [n \in D |-> 0] /\ tally.fields = [n \in D |-> [x \in Fields |-> 0]]
      /\ tally.eligible = [n \in D |-> [d \in DetectorTypes |-> 0]]
      /\ tally.reasons = [x \in Fields |-> 0]
  BY <1>1
<1>4. IsTally(D, tally)
  BY <1>3 DEF IsTally
<1>5. Total(tally.traces) = 0
  BY <1>2, <1>3, ZeroSum
<1>6. Cardinality({}) = 0 /\ IsFiniteSet({})
  BY FS_EmptySet
<1>7. Agree(D, files, diagnosed, tally)
  <2>1. /\ \A n : LinesOf(files, {}, n) = {} /\ Without(files, {}, n) = {}
        /\ \A n : WithField(files, {}, n) = {} /\ Workable(files, {}, n) = {}
    BY DEF LinesOf, Without, WithField, Workable
  <2>3. \A n \in D : tally.traces[n] = 0
    BY <1>3
  <2>4. \A n \in D, d \in DetectorTypes : tally.eligible[n][d] = 0
    BY <1>3
  <2>5. \A n \in D, x \in Fields : tally.fields[n][x] = 0
    BY <1>3
  <2>6. \A x \in Fields : tally.reasons[x] = Needing(x) * 0
    <3> TAKE x \in Fields
    <3>1. Needing(x) \in Nat
      BY NeedingType
    <3>2. \A a \in Nat : a * 0 = 0
      OBVIOUS
    <3>3. QED BY <1>3, <3>1, <3>2
  <2>7. QED BY <1>1, <1>6, <2>1, <2>3, <2>4, <2>5, <2>6 DEF Agree
<1>8. AddUp(files, phase, total, counted, listing, queue, 0)
  BY <1>1 DEF AddUp
<1>9. QueueIs(D, files, << >>, << >>, {}) /\ SeenIs(files, "idle", << >>, {})
  BY <1>6, EmptySeq DEF QueueIs, IsSequence, SeenIs
<1>10. << >> \in Seq(DOMAIN files) /\ IsInjective(<< >>)
  BY EmptySeq DEF IsInjective
<1>11. 0 \in 0 .. MaxTraces
  BY LimitAssumption
<1>12. QED BY <1>1, <1>4, <1>5, <1>7, <1>8, <1>9, <1>10, <1>11 DEF DiagnosisInv, DiagnosisIs, D

\* Writing a file does not disturb it.
LEMMA FilesGrow ==
  ASSUME NEW c \in Corpora, NEW fs, FilesAre(c, fs), NEW gs, FilesAre(c, gs), DOMAIN fs \subseteq DOMAIN gs,
         CompleteOf(fs) \subseteq CompleteOf(gs),
         \A i \in DOMAIN fs : gs[i].source = fs[i].source /\ gs[i].no = fs[i].no,
         NEW now, NEW number, NEW count, NEW list, NEW traces, NEW t, NEW noted,
         DiagnosisIs(c, fs, now, number, count, list, traces, t, noted)
  PROVE  DiagnosisIs(c, gs, now, number, count, list, traces, t, noted)
<1>1. /\ count \in Nat /\ list \in Seq(DOMAIN fs)
      /\ AddUp(fs, now, number, count, list, traces, Total(t.traces))
  BY DEF DiagnosisIs
<1>2. list \in Seq(DOMAIN gs)
  BY <1>1, SeqMonotonic
<1>3. \A i \in CompleteOf(fs) : gs[i].source = fs[i].source
  BY DEF CompleteOf
<1>4. AddUp(gs, now, number, count, list, traces, Total(t.traces))
  BY <1>1, <1>3, AddUpGrows
<1>5. /\ QueueIs(DOMAIN c, fs, list, traces, noted) /\ SeenIs(fs, now, list, noted)
      /\ Agree(DOMAIN c, fs, noted, t)
  BY DEF DiagnosisIs
<1>6. SeenIs(gs, now, list, noted)
  BY <1>5 DEF SeenIs
<1>7. QueueIs(DOMAIN c, gs, list, traces, noted)
  BY <1>5 DEF QueueIs, ForestOf
<1>8. \A l \in noted : gs[l[1]].no = fs[l[1]].no /\ HasOf(gs, l) = HasOf(fs, l)
  BY <1>5 DEF SeenIs, HasOf, ForestOf
<1>9. \A n : LinesOf(gs, noted, n) = LinesOf(fs, noted, n) /\ LinesOf(fs, noted, n) \subseteq noted
  BY <1>8 DEF LinesOf
<1>10. \A S \in SUBSET noted : \A x :
         /\ WithField(gs, S, x) = WithField(fs, S, x) /\ Without(gs, S, x) = Without(fs, S, x)
         /\ Workable(gs, S, x) = Workable(fs, S, x)
  BY <1>8 DEF WithField, Without, Workable
<1>11. Agree(DOMAIN c, gs, noted, t)
  BY <1>5, <1>9, <1>10 DEF Agree
<1>12. QED BY <1>2, <1>4, <1>6, <1>7, <1>11 DEF DiagnosisIs

\* The download does not disturb it.
LEMMA DownloadGrows ==
  ASSUME DownloadInv, DiagnosisInv, ConvertRow \/ BeginFile \/ EndBatch
  PROVE  DiagnosisInv'
<1>1. corpus \in Corpora /\ FilesAre(corpus, files)
  BY DEF DownloadInv, FilesAre
<1>2. corpus' = corpus /\ diagnosis' = diagnosis
  BY DEF ConvertRow, BeginFile, EndBatch, diagnosis
<1>3. /\ phase' = phase /\ total' = total /\ counted' = counted
      /\ listing' = listing /\ queue' = queue /\ tally' = tally
      /\ diagnosed' = diagnosed
  BY <1>2 DEF diagnosis
<1>4. DOMAIN files = 1 .. Len(files) /\ Len(files) \in Nat
  BY <1>1, SequenceIs DEF FilesAre
<1>5. CASE ConvertRow
  BY <1>2, <1>3, <1>5 DEF DiagnosisInv, ConvertRow
<1>6. CASE BeginFile
  <2>1. DownloadInv' /\ \E new : files' = Append(files, new) /\ ~new.complete
    BY <1>6, BeginFileKeeps
  <2>2. FilesAre(corpus, files')
    BY <1>2, <2>1 DEF DownloadInv, FilesAre
  <2>3. PICK e : files' = Append(files, e) /\ ~e.complete
    BY <2>1
  <2>4. /\ Len(files') = Len(files) + 1
        /\ \A i \in 1 .. Len(files) : files'[i] = files[i]
    BY <1>1, <2>3, AppendIs DEF FilesAre
  <2>5. DOMAIN files' = 1 .. Len(files) + 1
    BY <2>2, <2>4, SequenceIs DEF FilesAre
  <2>6. /\ DOMAIN files \subseteq DOMAIN files'
        /\ CompleteOf(files) \subseteq CompleteOf(files')
        /\ \A i \in DOMAIN files : files'[i].source = files[i].source /\ files'[i].no = files[i].no
    BY <1>4, <2>4, <2>5 DEF CompleteOf
  <2>7. QED BY <1>1, <1>2, <1>3, <2>2, <2>6, FilesGrow DEF DiagnosisInv
<1>7. CASE EndBatch
  <2>1. DownloadInv' /\ Completes(files, files')
    BY <1>7, EndBatchKeeps
  <2>2. FilesAre(corpus, files')
    BY <1>2, <2>1 DEF DownloadInv, FilesAre
  <2>3. /\ Len(files') = Len(files)
        /\ \A i \in 1 .. Len(files) : files'[i] = [files[i] EXCEPT !.complete = TRUE]
    BY <2>1 DEF Completes
  <2>4. \A i \in 1 .. Len(files) : /\ files'[i].complete
                                   /\ files'[i].source = files[i].source /\ files'[i].no = files[i].no
    <3> TAKE i \in 1 .. Len(files)
    <3> DEFINE f == files[i]
               g == files'[i]
    <3>1. /\ f = [dataset |-> f.dataset, no |-> f.no, rows |-> f.rows, complete |-> f.complete,
                  batch |-> f.batch, source |-> f.source]
          /\ g = [f EXCEPT !.complete = TRUE]
      BY <1>1, <2>3 DEF FilesAre, IsFile
    <3> HIDE DEF f, g
    <3>2. g.complete /\ g.source = f.source /\ g.no = f.no
      BY <3>1
    <3>3. QED BY <3>2 DEF f, g
  <2>5. DOMAIN files' = 1 .. Len(files)
    BY <2>2, <2>3, SequenceIs DEF FilesAre
  <2>6. /\ DOMAIN files \subseteq DOMAIN files'
        /\ CompleteOf(files) \subseteq CompleteOf(files')
        /\ \A i \in DOMAIN files : files'[i].source = files[i].source /\ files'[i].no = files[i].no
    BY <1>4, <2>4, <2>5 DEF CompleteOf
  <2>7. QED BY <1>1, <1>2, <1>3, <2>2, <2>6, FilesGrow DEF DiagnosisInv
<1>8. QED BY <1>5, <1>6, <1>7

\* The numbers are compared with what the files hold now.
LEMMA CountKeeps ==
  ASSUME DownloadInv, DiagnosisInv, CountTraces
  PROVE  DiagnosisInv'
<1> DEFINE S == CompleteOf(files)
           all == SizeOf(files, S)
<1>1. corpus \in Corpora /\ FilesAre(corpus, files)
  BY DEF DownloadInv, FilesAre
<1>2. /\ phase = "idle" /\ counted' = Cardinality(S)
      /\ phase' = IF total' = 0 THEN "done" ELSE "counted"
      /\ corpus' = corpus /\ files' = files /\ listing' = listing /\ queue' = queue /\ tally' = tally
      /\ diagnosed' = diagnosed
  BY DEF CountTraces, Complete, CompleteOf, download
<1>3. total' = Min({all, MaxTraces})
  <2>1. total' = Min({SumFunctionOnSet([i \in S |-> Cardinality(KeysOf(files[i].rows))], S), MaxTraces})
    BY DEF CountTraces, Complete, CompleteOf
  <2>2. SumFunctionOnSet([i \in S |-> Cardinality(KeysOf(files[i].rows))], S) = all
    BY <1>1, CountIs
  <2>3. QED BY <2>1, <2>2
<1>4. /\ DiagnosisIs(corpus, files, phase, total, counted, listing, queue, tally, diagnosed)
      /\ Total(tally.traces) = 0 /\ queue = << >> /\ listing = << >>
  BY <1>2 DEF DiagnosisInv, DiagnosisIs, AddUp
<1>5. S \subseteq DOMAIN files /\ Cardinality(S) \in Nat /\ all \in Nat
  BY <1>1, FilesHold
<1> HIDE DEF S, all
<1>6. total' = IF all <= MaxTraces THEN all ELSE MaxTraces
  BY <1>3, <1>5, SmallerIs, LimitAssumption
<1>7. total' \in 0 .. MaxTraces /\ counted' \in Nat
  BY <1>2, <1>5, <1>6, LimitAssumption
<1>8. total' # 0 => 0 < MaxTraces
  BY <1>7, LimitAssumption
<1>9. AddUp(files, phase', total', counted', listing, queue, Total(tally.traces))
  <2>1. total' = 0 => phase' = "done"
    BY <1>2
  <2>2. total' # 0 => phase' = "counted"
    BY <1>2
  <2>3. counted' = Cardinality(CompleteOf(files)) /\ Cardinality(CompleteOf(files)) \in Nat
        /\ total' = Min({SizeOf(files, CompleteOf(files)), MaxTraces})
    BY <1>2, <1>3, <1>5 DEF S, all
  <2>4. CASE total' = 0
    BY <1>4, <2>1, <2>3, <2>4 DEF AddUp
  <2>5. CASE total' # 0
    BY <1>4, <1>8, <2>2, <2>3, <2>5 DEF AddUp
  <2>6. QED BY <2>4, <2>5
<1>10. phase' \in {"idle", "counted", "reading", "done"}
  BY <1>2
<1>11. DiagnosisIs(corpus, files, phase', total', counted', listing, queue, tally, diagnosed)
  BY <1>2, <1>4, <1>7, <1>9, <1>10 DEF DiagnosisIs, SeenIs
<1>12. QED BY <1>2, <1>11 DEF DiagnosisInv

\* All files are listed: what was counted is what is to be read.
LEMMA ListKeeps ==
  ASSUME DownloadInv, DiagnosisInv, ListFiles
  PROVE  DiagnosisInv'
<1> DEFINE S == CompleteOf(files)
           all == SizeOf(files, S)
           read == Total(tally.traces)
<1>1. corpus \in Corpora /\ FilesAre(corpus, files)
  BY DEF DownloadInv, FilesAre
<1>2. /\ phase = "counted" /\ phase' = "reading" /\ listing' \in SetToSeqs(DOMAIN files)
      /\ corpus' = corpus /\ files' = files /\ total' = total /\ counted' = counted
      /\ queue' = queue /\ tally' = tally /\ diagnosed' = diagnosed
  BY DEF ListFiles, download
<1>3. DiagnosisIs(corpus, files, phase, total, counted, listing, queue, tally, diagnosed)
  BY DEF DiagnosisInv
<1>4. /\ read = 0 /\ queue = << >> /\ read < MaxTraces
      /\ counted <= Cardinality(S) /\ (counted = Cardinality(S) => total = Min({all, MaxTraces}))
  BY <1>2, <1>3 DEF DiagnosisIs, AddUp
<1>5. DOMAIN files = 1 .. Len(files) /\ Len(files) \in Nat /\ S \subseteq DOMAIN files /\ all \in Nat
  BY <1>1, FilesHold
<1>6. listing' \in Seq(DOMAIN files) /\ IsInjective(listing') /\ Range(listing') = DOMAIN files
  BY <1>2, <1>5, ListsAll
<1>7. Range(listing') \cap S = S /\ Len(queue) = 0
  BY <1>4, <1>5, <1>6
<1>8. read + Len(queue) + SizeOf(files, Range(listing') \cap S) = all
  <2>1. SizeOf(files, Range(listing') \cap S) = all
    BY <1>7
  <2> HIDE DEF all, read, S
  <2>2. QED BY <1>4, <1>5, <1>7, <2>1
<1>9. AddUp(files, "reading", total, counted, listing', queue, read)
  <2> HIDE DEF read
  <2>1. QED BY <1>4, <1>8 DEF AddUp
<1>10. DiagnosisIs(corpus, files, "reading", total, counted, listing', queue, tally, diagnosed)
  <2>1. diagnosed = {}
    BY <1>2, <1>3 DEF DiagnosisIs, SeenIs
  <2>2. SeenIs(files, "reading", listing', diagnosed)
    BY <2>1, FS_EmptySet DEF SeenIs
  <2>3. QueueIs(DOMAIN corpus, files, listing', queue, diagnosed)
    BY <1>3, <1>4 DEF DiagnosisIs, QueueIs
  <2>4. QED BY <1>3, <1>6, <1>9, <2>2, <2>3 DEF DiagnosisIs
<1>11. QED BY <1>2, <1>10 DEF DiagnosisInv

\* What is read is put into the queue.
LEMMA ReadKeeps ==
  ASSUME DownloadInv, DiagnosisInv, ReadFile
  PROVE  DiagnosisInv'
<1> DEFINE S == CompleteOf(files)
           all == SizeOf(files, S)
           read == Total(tally.traces)
           h == Head(listing)
           R == Range(listing) \cap S
           T == Range(Tail(listing)) \cap S
<1>1. corpus \in Corpora /\ FilesAre(corpus, files)
  BY DEF DownloadInv, FilesAre
<1>2. /\ phase = "reading" /\ queue = << >> /\ listing # << >> /\ listing' = Tail(listing)
      /\ corpus' = corpus /\ files' = files /\ phase' = phase /\ total' = total /\ counted' = counted
      /\ tally' = tally /\ diagnosed' = diagnosed
  BY DEF ReadFile, download
<1>3. DiagnosisIs(corpus, files, phase, total, counted, listing, queue, tally, diagnosed)
  BY DEF DiagnosisInv
<1>4. /\ read < MaxTraces
      /\ counted <= Cardinality(S) /\ (counted = Cardinality(S) => total = Min({all, MaxTraces}))
      /\ counted = Cardinality(S) => read + Len(queue) + SizeOf(files, R) = all
      /\ listing \in Seq(DOMAIN files) /\ IsInjective(listing)
  BY <1>2, <1>3 DEF DiagnosisIs, AddUp
<1>5. /\ h \in DOMAIN files /\ Tail(listing) \in Seq(DOMAIN files) /\ IsInjective(Tail(listing))
      /\ h \notin Range(Tail(listing)) /\ Range(listing) = Range(Tail(listing)) \cup {h}
  BY <1>2, <1>4, TailOnce, HeadTailProperties
<1>6. IsFile(corpus, files[h])
  BY <1>1, <1>5, FilesHold DEF FilesAre
<1>7. read \in Nat
  BY <1>1, <1>3, CorpusFinite, TotalType DEF DiagnosisIs, IsTally
<1>8. R \subseteq DOMAIN files /\ T \subseteq DOMAIN files /\ S \subseteq DOMAIN files
  BY <1>1, FilesHold
<1>9. SizeOf(files, R) \in Nat /\ SizeOf(files, T) \in Nat /\ all \in Nat
  BY <1>1, <1>8, FilesHold
<1>10. QueueIs(DOMAIN corpus, files, Tail(listing), queue', diagnosed) /\ Len(queue') \in Nat
       /\ SizeOf(files, R) = SizeOf(files, T) + Len(queue')
  <2>1. CASE ~files[h].complete
    <3>1. queue' = << >>
      BY <2>1 DEF ReadFile
    <3>2. h \notin S
      BY <2>1 DEF CompleteOf
    <3>3. R = T
      BY <1>5, <3>2
    <3>4. QueueIs(DOMAIN corpus, files, Tail(listing), << >>, diagnosed) /\ Len(<< >>) = 0
      BY EmptySeq DEF QueueIs, IsSequence
    <3> HIDE DEF R, T, S
    <3>5. SizeOf(files, R) = SizeOf(files, T) + 0
      BY <1>9, <3>3
    <3>6. QED BY <3>1, <3>4, <3>5
  <2>2. CASE files[h].complete
    <3> DEFINE f == files[h]
    <3>1. queue' = TracesOf(h)
      BY <2>2 DEF ReadFile
    <3>2. QueueIs(DOMAIN corpus, files, Tail(listing), queue', diagnosed) /\ Len(queue') = Len(f.source)
      <4> DEFINE q == TracesOf(h)
      <4>1. h \in DOMAIN files /\ h \notin Range(Tail(listing)) /\ h \in Range(listing)
        BY <1>5
      <4> HIDE DEF h, q
      <4>2. /\ IsSequence(q) /\ Len(q) = Len(files[h].source) /\ files[h].no \in DOMAIN corpus
            /\ \A n \in DOMAIN q : /\ q[n].from = <<h, n>> /\ q[n].dataset = files[h].no
                                   /\ q[n].forest = ForestOf(files, <<h, n>>)
        BY <1>1, <4>1, ReadIs DEF q
      <4>3. \A n : <<h, n>>[1] = h
        OBVIOUS
      <4>4. \A n : <<h, n>> \notin diagnosed
        <5>1. \A l \in diagnosed : l[1] \notin Range(listing)
          BY <1>3 DEF DiagnosisIs, SeenIs
        <5>2. QED BY <4>1, <4>3, <5>1
      <4>5. \A n, k : <<h, n>> = <<h, k>> => n = k
        OBVIOUS
      <4>6. QueueIs(DOMAIN corpus, files, Tail(listing), q, diagnosed)
        <5> DEFINE place(n) == <<h, n>>
        <5>1. /\ \A n : place(n)[1] = h /\ place(n) \notin diagnosed
              /\ \A n, k : place(n) = place(k) => n = k
          BY <4>3, <4>4, <4>5
        <5>2. \A n \in DOMAIN q : /\ q[n].from = place(n) /\ q[n].dataset = files[h].no
                                  /\ q[n].forest = ForestOf(files, place(n))
          BY <4>2
        <5> HIDE DEF place
        <5>3. ASSUME NEW n \in DOMAIN q
              PROVE  /\ q[n].from[1] = h /\ q[n].from \notin diagnosed
                     /\ q[n].dataset \in DOMAIN corpus /\ q[n].dataset = files[q[n].from[1]].no
                     /\ q[n].forest = ForestOf(files, q[n].from)
          BY <4>2, <5>1, <5>2
        <5>4. \A n, k \in DOMAIN q : q[n].from = q[k].from => n = k
          BY <5>1, <5>2
        <5>5. QED BY <4>1, <4>2, <5>3, <5>4 DEF QueueIs
      <4>7. QED BY <3>1, <4>2, <4>6 DEF q
    <3> HIDE DEF f
    <3>3. h \in S
      BY <1>5, <2>2 DEF CompleteOf
    <3>4. h \in R /\ T = R \ {h}
      BY <1>5, <3>3
    <3>5. Len(f.source) \in Nat
      BY <1>1, <1>6, FileHolds DEF f
    <3> HIDE DEF R, T
    <3>6. SizeOf(files, R) = SizeOf(files, R \ {h}) + Len(files[h].source)
      BY <1>1, <1>8, <3>4, FilesHold
    <3>7. SizeOf(files, R) = SizeOf(files, T) + Len(f.source)
      BY <3>4, <3>6 DEF f
    <3>8. QED BY <3>2, <3>5, <3>7
  <2>3. QED BY <2>1, <2>2
<1>11. counted = Cardinality(S) => read + Len(queue') + SizeOf(files, T) = all
  <2>1. Len(queue) = 0
    BY <1>2
  <2> HIDE DEF R, T, S, all, read
  <2>2. QED BY <1>4, <1>7, <1>9, <1>10, <2>1
<1>12. AddUp(files, phase, total, counted, Tail(listing), queue', read)
  <2> HIDE DEF read
  <2>1. QED BY <1>2, <1>4, <1>11 DEF AddUp
<1>13. DiagnosisIs(corpus, files, phase, total, counted, Tail(listing), queue', tally, diagnosed)
  <2>1. SeenIs(files, phase, Tail(listing), diagnosed)
    BY <1>3, <1>5 DEF DiagnosisIs, SeenIs
  <2>2. QED BY <1>3, <1>5, <1>10, <1>12, <2>1 DEF DiagnosisIs
<1>14. QED BY <1>2, <1>13 DEF DiagnosisInv

\* A trace that is examined is read, and is not in the queue any more.
LEMMA ExamineKeeps ==
  ASSUME DownloadInv, DiagnosisInv, ExamineTrace
  PROVE  DiagnosisInv'
<1> DEFINE S == CompleteOf(files)
           all == SizeOf(files, S)
           read == Total(tally.traces)
           left == SizeOf(files, Range(listing) \cap S)
           d == Head(queue).dataset
           f == Head(queue).forest
           e == Head(queue).from
           q == Len(queue)
<1>1. corpus \in Corpora /\ FilesAre(corpus, files)
  BY DEF DownloadInv, FilesAre
<1>2. /\ phase = "reading" /\ queue # << >> /\ queue' = Tail(queue)
      /\ phase' = IF Total(tally'.traces) >= MaxTraces THEN "done" ELSE phase
      /\ corpus' = corpus /\ files' = files /\ total' = total /\ counted' = counted
      /\ listing' = listing /\ diagnosed' = diagnosed \cup {e}
  BY DEF ExamineTrace, download
<1>3. tally' = Examined(tally, d, TraceFieldPresence(f), FieldsRaised(f))
  BY DEF ExamineTrace, Examined
<1>4. DiagnosisIs(corpus, files, phase, total, counted, listing, queue, tally, diagnosed)
  BY DEF DiagnosisInv
<1>5. /\ read < MaxTraces
      /\ counted <= Cardinality(S) /\ (counted = Cardinality(S) => total = Min({all, MaxTraces}))
      /\ counted = Cardinality(S) => read + Len(queue) + left = all
  BY <1>2, <1>4 DEF DiagnosisIs, AddUp
<1>6. /\ IsFiniteSet(DOMAIN corpus) /\ QueueIs(DOMAIN corpus, files, listing, queue, diagnosed)
      /\ SeenIs(files, phase, listing, diagnosed)
      /\ IsTally(DOMAIN corpus, tally) /\ Agree(DOMAIN corpus, files, diagnosed, tally)
  BY <1>1, <1>4, CorpusFinite DEF DiagnosisIs
<1>7. /\ Len(queue) \in Nat \ {0} /\ Head(queue) = queue[1] /\ 1 \in DOMAIN queue
      /\ IsSequence(Tail(queue)) /\ Len(Tail(queue)) = Len(queue) - 1
      /\ \A i \in DOMAIN Tail(queue) : i + 1 \in DOMAIN queue /\ Tail(queue)[i] = queue[i + 1]
  BY <1>2, <1>6, TailIs DEF QueueIs
<1>8. /\ d \in DOMAIN corpus /\ d = files[e[1]].no /\ f = ForestOf(files, e) /\ e \notin diagnosed
      /\ e[1] \in DOMAIN files /\ e[1] \notin Range(listing)
  BY <1>6, <1>7 DEF QueueIs
<1>a. QueueIs(DOMAIN corpus, files, listing, Tail(queue), diagnosed \cup {e})
  <2> DEFINE s == Tail(queue)
  <2>1. IsSequence(s) /\ \A i \in DOMAIN s : i + 1 \in DOMAIN queue /\ s[i] = queue[i + 1]
    BY <1>7
  <2>2. \A i \in DOMAIN s : i \in Nat \ {0}
    BY <2>1, SequenceIs
  <2> HIDE DEF s
  <2>3. ASSUME NEW i \in DOMAIN s
        PROVE  /\ s[i].from[1] \in DOMAIN files /\ s[i].from[1] \notin Range(listing)
               /\ s[i].from \notin diagnosed
               /\ s[i].dataset \in DOMAIN corpus /\ s[i].dataset = files[s[i].from[1]].no
               /\ s[i].forest = ForestOf(files, s[i].from)
    BY <1>6, <2>1 DEF QueueIs
  <2>4. \A i \in DOMAIN s : s[i].from # e
    <3> TAKE i \in DOMAIN s
    <3>1. i + 1 # 1 /\ i + 1 \in DOMAIN queue /\ s[i] = queue[i + 1]
      BY <2>1, <2>2
    <3>2. QED BY <1>6, <1>7, <3>1 DEF QueueIs
  <2>5. \A i, k \in DOMAIN s : s[i].from = s[k].from => i = k
    <3> TAKE i, k \in DOMAIN s
    <3>1. s[i].from = s[k].from => i + 1 = k + 1
      BY <1>6, <2>1 DEF QueueIs
    <3>2. QED BY <2>2, <3>1
  <2>6. QED BY <2>1, <2>3, <2>4, <2>5 DEF QueueIs, s
<1>b. SeenIs(files, phase', listing, diagnosed \cup {e})
  <2>1. IsFiniteSet(diagnosed \cup {e})
    BY <1>6, FS_AddElement DEF SeenIs
  <2>2. \A l \in diagnosed \cup {e} : l[1] \in DOMAIN files /\ l[1] \notin Range(listing)
    BY <1>6, <1>8 DEF SeenIs
  <2>3. phase' \notin {"idle", "counted"}
    BY <1>2
  <2>4. QED BY <2>1, <2>2, <2>3 DEF SeenIs
<1> HIDE DEF d, f, e
<1>9. /\ IsTally(DOMAIN corpus, tally') /\ Agree(DOMAIN corpus, files, diagnosed \cup {e}, tally')
      /\ Total(tally'.traces) = read + 1
  <2>1. IsFiniteSet(diagnosed)
    BY <1>6 DEF SeenIs
  <2> DEFINE u == Examined(tally, d, TraceFieldPresence(f), FieldsRaised(f))
  <2>2. /\ IsTally(DOMAIN corpus, u) /\ Agree(DOMAIN corpus, files, diagnosed \cup {e}, u)
        /\ Total(u.traces) = read + 1
    <3>1. /\ IsFiniteSet(DOMAIN corpus) /\ IsFiniteSet(diagnosed)
          /\ IsTally(DOMAIN corpus, tally) /\ Agree(DOMAIN corpus, files, diagnosed, tally)
      BY <1>6, <2>1
    <3>2. e \notin diagnosed /\ d \in DOMAIN corpus /\ d = files[e[1]].no /\ f = ForestOf(files, e)
      BY <1>8
    <3>3. \A y : y = ForestOf(files, e) =>
            /\ IsTally(DOMAIN corpus, Examined(tally, d, TraceFieldPresence(y), FieldsRaised(y)))
            /\ Agree(DOMAIN corpus, files, diagnosed \cup {e},
                     Examined(tally, d, TraceFieldPresence(y), FieldsRaised(y)))
            /\ Total(Examined(tally, d, TraceFieldPresence(y), FieldsRaised(y)).traces) = read + 1
      BY <3>1, <3>2, ExaminedAgrees
    <3>4. QED BY <3>2, <3>3
  <2>3. tally' = u
    BY <1>3
  <2> HIDE DEF u
  <2>4. QED BY <2>2, <2>3
<1>10. read \in Nat /\ all \in Nat /\ left \in Nat /\ q \in Nat \ {0}
  <2>1. S \subseteq DOMAIN files /\ Range(listing) \cap S \subseteq DOMAIN files
    BY <1>1, FilesHold
  <2>2. read \in Nat
    BY <1>6, TotalType DEF IsTally
  <2>3. QED BY <1>1, <1>7, <2>1, <2>2, FilesHold
<1>11. counted = Cardinality(S) => /\ total = IF all <= MaxTraces THEN all ELSE MaxTraces
                                   /\ read + q + left = all
  BY <1>5, <1>10, SmallerIs, LimitAssumption
<1>12. AddUp(files, phase', total, counted, listing, Tail(queue), read + 1)
  <2> HIDE DEF S, all, read, left, q
  <2>1. CASE read + 1 >= MaxTraces
    <3>1. phase' = "done"
      BY <1>2, <1>9, <2>1
    <3>2. counted = Cardinality(S) => total = read + 1
      BY <1>5, <1>10, <1>11, <2>1, LimitAssumption
    <3>3. QED BY <1>5, <3>1, <3>2 DEF AddUp, S, all
  <2>2. CASE ~(read + 1 >= MaxTraces)
    <3>1. phase' = "reading" /\ read + 1 < MaxTraces
      BY <1>2, <1>9, <1>10, <2>2, LimitAssumption
    <3>2. Len(Tail(queue)) = q - 1
      BY <1>7 DEF q
    <3>3. counted = Cardinality(S) => read + 1 + Len(Tail(queue)) + left = all
      <4>1. counted = Cardinality(S) => read + q + left = all
        BY <1>11
      <4>2. \A l : l = q - 1 => read + 1 + l + left = read + q + left
        BY <1>10
      <4>3. QED BY <3>2, <4>1, <4>2
    <3>4. QED BY <1>5, <3>1, <3>3 DEF AddUp, S, all, left
  <2>3. QED BY <2>1, <2>2
<1>13. phase' \in {"idle", "counted", "reading", "done"}
  BY <1>2
<1>14. DiagnosisIs(corpus, files, phase', total, counted, listing, Tail(queue), tally', diagnosed \cup {e})
  BY <1>4, <1>a, <1>b, <1>9, <1>12, <1>13 DEF DiagnosisIs
<1>15. QED BY <1>2, <1>14 DEF DiagnosisInv

\* When nothing is left, everything was read.
LEMMA EndKeeps ==
  ASSUME DownloadInv, DiagnosisInv, EndDiagnosis
  PROVE  DiagnosisInv'
<1> DEFINE S == CompleteOf(files)
           all == SizeOf(files, S)
           read == Total(tally.traces)
<1>1. corpus \in Corpora /\ FilesAre(corpus, files)
  BY DEF DownloadInv, FilesAre
<1>2. /\ phase = "reading" /\ queue = << >> /\ listing = << >> /\ phase' = "done"
      /\ corpus' = corpus /\ files' = files /\ total' = total /\ counted' = counted
      /\ listing' = listing /\ queue' = queue /\ tally' = tally /\ diagnosed' = diagnosed
  BY DEF EndDiagnosis, download
<1>3. DiagnosisIs(corpus, files, phase, total, counted, listing, queue, tally, diagnosed)
  BY DEF DiagnosisInv
<1>4. /\ read < MaxTraces
      /\ counted <= Cardinality(S) /\ (counted = Cardinality(S) => total = Min({all, MaxTraces}))
      /\ counted = Cardinality(S) => read + Len(queue) + SizeOf(files, Range(listing) \cap S) = all
  BY <1>2, <1>3 DEF DiagnosisIs, AddUp
<1>5. Range(listing) \cap S = {} /\ Len(queue) = 0
  BY <1>2 DEF Range
<1>6. SizeOf(files, {}) = 0
  BY SumEmpty DEF SizeOf
<1>7. read \in Nat /\ all \in Nat
  <2>1. S \subseteq DOMAIN files
    BY <1>1, FilesHold
  <2>2. read \in Nat
    BY <1>1, <1>3, CorpusFinite, TotalType DEF DiagnosisIs, IsTally
  <2>3. QED BY <1>1, <2>1, <2>2, FilesHold
<1>8. counted = Cardinality(S) => total = read
  <2>1. counted = Cardinality(S) => SizeOf(files, Range(listing) \cap S) = 0
    BY <1>5, <1>6
  <2> HIDE DEF S, all, read
  <2>2. counted = Cardinality(S) => all = read
    BY <1>4, <1>5, <1>7, <2>1
  <2>3. Min({all, MaxTraces}) = IF all <= MaxTraces THEN all ELSE MaxTraces
    BY <1>7, SmallerIs, LimitAssumption
  <2>4. QED BY <1>4, <1>7, <2>2, <2>3, LimitAssumption
<1>9. AddUp(files, "done", total, counted, listing, queue, read)
  <2> HIDE DEF read
  <2>1. QED BY <1>4, <1>8 DEF AddUp
<1>10. DiagnosisIs(corpus, files, "done", total, counted, listing, queue, tally, diagnosed)
  BY <1>3, <1>9 DEF DiagnosisIs, SeenIs
<1>11. QED BY <1>2, <1>10 DEF DiagnosisInv

-----------------------------------------------------------------------------
(* The theorems.                                                            *)

\* The invariant of TraceTrees.
TreesInv == DownloadInv /\ DiagnosisInv

\* TreesInv holds in every state.
THEOREM TreesInvariance == TreesSpec => []TreesInv
<1>1. TreesInit => TreesInv
  BY DownloadBegins, DiagnosisBegins DEF TreesInv
<1>2. TreesInv /\ [TreesNext]_treesVars => TreesInv'
  <2> SUFFICES ASSUME TreesInv, [TreesNext]_treesVars PROVE TreesInv'
    OBVIOUS
  <2> USE DEF TreesInv
  <2>1. CASE ConvertRow
    BY <2>1, ConvertRowKeeps, DownloadGrows
  <2>2. CASE BeginFile
    BY <2>2, BeginFileKeeps, DownloadGrows
  <2>3. CASE EndBatch
    BY <2>3, EndBatchKeeps, DownloadGrows
  <2>4. ASSUME UNCHANGED download PROVE DownloadInv'
    BY <2>4 DEF download, DownloadInv, Rows
  <2>5. CASE CountTraces
    BY <2>4, <2>5, CountKeeps DEF CountTraces
  <2>6. CASE ListFiles
    BY <2>4, <2>6, ListKeeps DEF ListFiles
  <2>7. CASE ReadFile
    BY <2>4, <2>7, ReadKeeps DEF ReadFile
  <2>8. CASE ExamineTrace
    BY <2>4, <2>8, ExamineKeeps DEF ExamineTrace
  <2>9. CASE EndDiagnosis
    BY <2>4, <2>9, EndKeeps DEF EndDiagnosis
  <2>10. CASE UNCHANGED treesVars
    BY <2>4, <2>10 DEF treesVars, download, DiagnosisInv
  <2>11. QED BY <2>1, <2>2, <2>3, <2>5, <2>6, <2>7, <2>8, <2>9, <2>10 DEF TreesNext
<1>3. QED BY <1>1, <1>2, PTL DEF TreesSpec

\* Every variable has its type, always.
THEOREM TreesTypeCorrect == TreesSpec => []TreesTypeOK
<1>1. TreesInv => TreesTypeOK
  <2> SUFFICES ASSUME TreesInv PROVE TreesTypeOK
    OBVIOUS
  <2>1. /\ corpus \in Corpora /\ batch \in 1 .. Len(corpus) + 1 /\ row \in Nat \ {0}
        /\ IsSaved(corpus, valid, batch) /\ (batch > Len(corpus) => valid = << >>)
        /\ FilesAre(corpus, files)
    BY DEF TreesInv, DownloadInv, FilesAre
  <2>2. /\ phase \in {"idle", "counted", "reading", "done"}
        /\ total \in 0 .. MaxTraces /\ counted \in Nat
        /\ listing \in Seq(DOMAIN files)
        /\ phase = "idle" => counted = 0
        /\ phase # "idle" => counted <= Cardinality(CompleteOf(files))
    <3>1. /\ phase \in {"idle", "counted", "reading", "done"}
          /\ total \in 0 .. MaxTraces /\ counted \in Nat
          /\ listing \in Seq(DOMAIN files)
          /\ AddUp(files, phase, total, counted, listing, queue, Total(tally.traces))
      BY DEF TreesInv, DiagnosisInv, DiagnosisIs
    <3>2. /\ phase = "idle" => counted = 0
          /\ phase # "idle" => counted <= Cardinality(CompleteOf(files))
      BY <3>1 DEF AddUp
    <3>3. QED BY <3>1, <3>2
  <2>3. counted \in 0 .. Len(files)
    <3>1. /\ Len(files) \in Nat /\ DOMAIN files = 1 .. Len(files)
          /\ CompleteOf(files) \in SUBSET DOMAIN files /\ Cardinality(CompleteOf(files)) \in Nat
      BY <2>1, FilesHold
    <3>2. IsFiniteSet(DOMAIN files) /\ Cardinality(DOMAIN files) = Len(files)
      BY <3>1, UpToCount
    <3>3. Cardinality(CompleteOf(files)) <= Len(files)
      BY <3>1, <3>2, FS_Subset
    <3>4. QED BY <2>2, <3>1, <3>3
  <2>4. \A i \in DOMAIN listing : listing[i] \in DOMAIN files
    BY <2>2
  <2>5. ASSUME NEW k \in DOMAIN valid
        PROVE  /\ Shown(valid[k].forest).up \in [DOMAIN Shown(valid[k].forest).spans ->
                                                  {0} \cup DOMAIN Shown(valid[k].forest).spans]
               /\ Cardinality(Ids(Shown(valid[k].forest))) = Len(Shown(valid[k].forest).spans)
    <3> DEFINE f == Shown(valid[k].forest)
    <3>1. Len(corpus) \in Nat /\ k \in 1 .. Len(valid)
      BY <2>1, CorpusFinite, SequenceIs DEF IsSaved
    <3>2. Valid(f)
      BY <2>1, <3>1 DEF IsSaved
    <3>3. IsForest(f)
      <4>1. batch \in 1 .. Len(corpus)
        BY <2>1, <3>1
      <4>2. AreTrees(valid)
        BY <2>1, <4>1, SavedAre
      <4>3. QED BY <3>1, <4>2 DEF AreTrees, IsTree
    <3> HIDE DEF f
    <3>4. DOMAIN f.spans = 1 .. Len(f.spans) /\ Len(f.spans) \in Nat
      BY <3>3, SequenceIs DEF IsForest
    <3>5. f.up \in [1 .. Len(f.spans) -> {0} \cup 1 .. Len(f.spans)]
      BY <3>3, <3>4 DEF IsForest, IsUp
    <3>6. QED BY <3>2, <3>4, <3>5 DEF Valid, f
  <2>6. QED BY <2>1, <2>2, <2>3, <2>4, <2>5 DEF TreesTypeOK
<1>2. QED BY <1>1, TreesInvariance, PTL

\* A file gives back what the converter made, always.
THEOREM RoundTripCorrect == TreesSpec => []RoundTrip
<1>1. TreesInv => RoundTrip
  BY DownloadGivesBack DEF TreesInv
<1>2. QED BY <1>1, TreesInvariance, PTL

\* A row in a file has lost nothing but cycles, ever.
THEOREM OnlyCyclesCorrect == TreesSpec => []OnlyCyclesAreLost
<1>1. TreesInv => OnlyCyclesAreLost
  BY DownloadLosesOnlyCycles DEF TreesInv
<1>2. QED BY <1>1, TreesInvariance, PTL

\* The count is that of the traces read, unless a file was finished later.
THEOREM CountCorrect == TreesSpec => []CountMissesOnlyLaterFiles
<1>1. TreesInv => CountMissesOnlyLaterFiles
  BY DEF TreesInv, DiagnosisInv, DiagnosisIs, AddUp, CountMissesOnlyLaterFiles, Complete, CompleteOf,
         Read
<1>2. QED BY <1>1, TreesInvariance, PTL

\* The report of a diagnosis tells what the converter made.
THEOREM ReportCorrect == TreesSpec => []ReportTellsWhatWasConverted
<1>1. TreesInv => ReportTellsWhatWasConverted
  <2> SUFFICES ASSUME TreesInv PROVE ReportTellsWhatWasConverted
    OBVIOUS
  <2> DEFINE has == UNION {{l} \X TraceFieldPresence(Converted(l)) : l \in diagnosed}
  <2>1. Agree(DOMAIN corpus, files, diagnosed, tally) /\ DOMAIN tally.traces = DOMAIN corpus
    BY DEF TreesInv, DiagnosisInv, DiagnosisIs, IsTally
  <2>2. \A l \in diagnosed : \A x : <<l, x>> \in has <=> x \in HasOf(files, l)
    BY DEF HasOf, ForestOf, Converted
  <2> HIDE DEF has
  <2>3. \A n : LookedAt(n) = LinesOf(files, diagnosed, n) /\ LookedAt(n) \subseteq diagnosed
    BY DEF LookedAt, LinesOf
  <2>4. \A n, x : {l \in LookedAt(n) : <<l, x>> \in has} = WithField(files, LinesOf(files, diagnosed, n), x)
    BY <2>2, <2>3 DEF WithField
  <2>5. \A n, d : {l \in LookedAt(n) : \A x \in DetectorRequirements[d] : <<l, x>> \in has} =
                    Workable(files, LinesOf(files, diagnosed, n), d)
    BY <2>2, <2>3 DEF Workable
  <2>6. \A x : {l \in diagnosed : <<l, x>> \notin has} = Without(files, diagnosed, x)
    BY <2>2 DEF Without
  <2>7. ASSUME NEW n \in DOMAIN tally.traces PROVE TallyIsRight(n, has)
    <3>1. n \in DOMAIN corpus
      BY <2>1
    <3>2. tally.traces[n] = Cardinality(LookedAt(n))
      BY <2>1, <2>3, <3>1 DEF Agree
    <3>3. ASSUME NEW x \in Fields
          PROVE  tally.fields[n][x] = Cardinality({l \in LookedAt(n) : <<l, x>> \in has})
      BY <2>1, <2>4, <3>1 DEF Agree
    <3>4. ASSUME NEW d \in DetectorTypes
          PROVE  tally.eligible[n][d] =
                   Cardinality({l \in LookedAt(n) : \A x \in DetectorRequirements[d] : <<l, x>> \in has})
      BY <2>1, <2>5, <3>1 DEF Agree
    <3>5. QED BY <3>2, <3>3, <3>4 DEF TallyIsRight
  <2>8. \A x \in Fields :
          tally.reasons[x] =
            Cardinality({d \in DetectorTypes : x \in DetectorRequirements[d]}) *
              Cardinality({l \in diagnosed : <<l, x>> \notin has})
    BY <2>1, <2>6 DEF Agree, Needing
  <2>9. QED BY <2>7, <2>8 DEF ReportTellsWhatWasConverted, has
<1>2. QED BY <1>1, TreesInvariance, PTL

=============================================================================
