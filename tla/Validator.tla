------------------------------ MODULE Validator ------------------------------
(***************************************************************************)
(* The validate-traces command: Validator.run (trace_pipeline/validator.py)*)
(* runs the detectors over the traces found in the parquet files, counts   *)
(* what they report, and from time to time writes the keys of the traces   *)
(* it has completed to progress.json, from which --resume continues after  *)
(* the process was killed.                                                 *)
(*                                                                         *)
(* The traces are numbered in the order of the files.  Which of them an    *)
(* invocation reads depends on the files on disk and on --max-files and    *)
(* --max-traces: any subset.                                               *)
(***************************************************************************)
EXTENDS Integers, FiniteSets

CONSTANTS
  Items,      \* the numbers of the traces that ever are on disk
  Key,        \* item -> <<trace id, run id>>
  Types,      \* anomaly types
  Hits,       \* item -> types its rule-based detectors report
  LlmTypes,   \* types of the LLM detectors; output_drift has a detector of
              \* each sort
  LlmSample,  \* --llm-sample, 0 when it is not given
  Interval,   \* save_interval: --llm-batch, or 5000
  None,       \* no report yet
  MaxFaults,  \* bound: kills
  MaxRuns     \* bound: invocations

Keys       == {Key[i] : i \in Items}
LoopFamily == {"loop", "pattern_loop", "argument_loop"}

ASSUME ValidatorAssumption ==
  /\ Items \subseteq Nat
  /\ IsFiniteSet(Items)
  /\ Hits \in [Items -> SUBSET Types]
  /\ LlmTypes \subseteq Types
  /\ LoopFamily \cup {"step_efficiency"} \subseteq Types \ LlmTypes
  /\ {LlmSample, MaxFaults, MaxRuns} \subseteq Nat
  /\ Interval \in Nat \ {0}

VARIABLES
  progress,   \* progress.json: the completed keys, none while there is no file
  broken,     \* progress.json holds no complete JSON document
  seen, todo, \* the traces this invocation reads, and those still ahead
  resuming,   \* --resume
  completed, processed,
  counts,     \* anomaly_counter, and detector_fire_count, which moves with it
  severities, \* severity_counter, told apart by the type of the anomaly
  booked,     \* anomalies_by_trace: how often it lists each type
  llmDone,    \* _llm_traces_done
  report,     \* summary.json of this invocation
  pc,
  times,      \* history: how often each key was examined
  looked,     \* history: the traces this invocation examined
  scratch,    \* history: invocations without --resume
  faults, runs

memory  == <<seen, todo, resuming, completed, processed, counts, severities,
             booked, llmDone, report>>
history == <<times, looked, scratch>>
file    == <<progress, broken>>
vars    == <<file, memory, pc, history, faults, runs>>

Nothing == [t \in Types |-> 0]

TypeOK ==
  /\ progress \in SUBSET Keys
  /\ broken \in BOOLEAN
  /\ seen \in SUBSET Items
  /\ todo \in SUBSET seen
  /\ resuming \in BOOLEAN
  /\ completed \in SUBSET Keys
  /\ processed \in Nat
  /\ counts \in [Types -> Nat]
  /\ severities \in [Types -> Nat]
  /\ booked \in [Types -> Nat]
  /\ llmDone \in 0 .. LlmSample
  /\ report \in [processed : Nat, skipped : Int] \cup {None}
  /\ pc \in {"off", "loop", "save", "write", "done"}
  /\ times \in [Keys -> Nat]
  /\ looked \in SUBSET seen
  /\ scratch \in Nat
  /\ faults \in Nat
  /\ runs \in Nat

Init ==
  /\ progress = {}
  /\ broken = FALSE
  /\ seen = {}
  /\ todo = {}
  /\ resuming = FALSE
  /\ completed = {}
  /\ processed = 0
  /\ counts = Nothing
  /\ severities = Nothing
  /\ booked = Nothing
  /\ llmDone = 0
  /\ report = None
  /\ pc = "off"
  /\ times = [k \in Keys |-> 0]
  /\ looked = {}
  /\ scratch = 0
  /\ faults = 0
  /\ runs = 0

-----------------------------------------------------------------------------
(* Starting, and looking at one trace.                                     *)

\* _load_progress: a missing or broken file is an empty set.
LoadProgress == IF broken THEN {} ELSE progress

Start(s, resume) ==
  /\ pc \in {"off", "done"}
  /\ runs < MaxRuns
  /\ runs' = runs + 1
  /\ seen' = s
  /\ todo' = s
  /\ resuming' = resume
  /\ completed' = IF resume THEN LoadProgress ELSE {}
  /\ processed' = 0
  /\ counts' = Nothing
  /\ severities' = Nothing
  /\ booked' = Nothing
  /\ llmDone' = 0
  /\ report' = None
  /\ pc' = "loop"
  /\ looked' = {}
  /\ scratch' = IF resume THEN scratch ELSE scratch + 1
  /\ UNCHANGED <<file, times, faults>>

\* The next trace of the iterator.
Reading(i) == pc = "loop" /\ i \in todo /\ \A j \in todo : i <= j

\* Faulty variant of TraceKey: a trace is known by its trace id.
KeyOfTrace(i) == CHOOSE k \in Keys : k[1] = Key[i][1]

TraceKey(i) == Key[i]

Skip(i) ==
  /\ Reading(i)
  /\ TraceKey(i) \in completed
  /\ processed' = processed + 1
  /\ todo' = todo \ {i}
  /\ UNCHANGED <<file, seen, resuming, completed, counts, severities, booked,
                 llmDone, report, pc, history, faults, runs>>

\* The LLM detectors are asked about a trace that a rule-based detector
\* reported, while the sample lasts.
Sampled(i) == Hits[i] # {} /\ llmDone < LlmSample

\* trace_anomalies: how often each type is in the list.
Fired(i, llm) ==
  [t \in Types |-> (IF t \in Hits[i] THEN 1 ELSE 0) + (IF t \in llm THEN 1 ELSE 0)]

\* _dedup_loop_family
Dedup(f) ==
  LET dropped == IF f["loop"] > 0 THEN {"step_efficiency", "pattern_loop"}
                 ELSE IF \E t \in LoopFamily : f[t] > 0 THEN {"step_efficiency"}
                 ELSE {}
  IN [t \in Types |-> IF t \in dropped THEN 0 ELSE f[t]]

\* A counter is raised for everything in the list.
Raised(c, f) == [t \in Types |-> c[t] + f[t]]

\* Faulty variant of Counted: what the deduplication drops stays counted.
CountedRaw(f) == Raised(counts, f)

\* The counters by type after the detectors and the correction: when the list became
\* shorter, the two types are counted down if they are not in it.
Counted(f) ==
  LET raised == Raised(counts, f)
  IN [t \in Types |->
        IF /\ Dedup(f) # f
           /\ t \in {"pattern_loop", "step_efficiency"}
           /\ Dedup(f)[t] = 0
           /\ raised[t] > 0
        THEN raised[t] - 1
        ELSE raised[t]]

\* The detectors run on a trace; its key is completed, and after every
\* Interval-th trace the progress is saved.  The counter by severity is not
\* corrected.
Examine(i) ==
  /\ Reading(i)
  /\ TraceKey(i) \notin completed
  /\ \E llm \in IF Sampled(i) THEN SUBSET LlmTypes ELSE {{}} :
       /\ counts' = Counted(Fired(i, llm))
       /\ severities' = Raised(severities, Fired(i, llm))
       /\ booked' = Raised(booked, Dedup(Fired(i, llm)))
  /\ llmDone' = IF Sampled(i) THEN llmDone + 1 ELSE llmDone
  /\ completed' = completed \cup {TraceKey(i)}
  /\ processed' = processed + 1
  /\ todo' = todo \ {i}
  /\ pc' = IF (processed + 1) % Interval = 0 THEN "save" ELSE "loop"
  /\ times' = [times EXCEPT ![Key[i]] = @ + 1]
  /\ looked' = looked \cup {i}
  /\ UNCHANGED <<file, seen, resuming, report, scratch, faults, runs>>

-----------------------------------------------------------------------------
(* Files.                                                                  *)

\* Path.write_text empties the file and then fills it.
TruncateProgress ==
  /\ pc = "save"
  /\ broken' = TRUE
  /\ pc' = "write"
  /\ UNCHANGED <<progress, memory, history, faults, runs>>

\* Written in the loop, and once more after the report.
WriteProgress ==
  /\ pc = "write"
  /\ progress' = completed
  /\ broken' = FALSE
  /\ pc' = IF report = None THEN "loop" ELSE "done"
  /\ UNCHANGED <<memory, history, faults, runs>>

Report == [processed |-> processed,
           skipped   |-> IF resuming THEN Cardinality(completed) - processed ELSE 0]

\* Faulty variant of Finish: the progress is not saved at the end.
FinishUnsaved ==
  /\ pc = "loop"
  /\ todo = {}
  /\ report' = Report
  /\ pc' = "done"
  /\ UNCHANGED <<file, seen, todo, resuming, completed, processed, counts,
                 severities, booked, llmDone, history, faults, runs>>

\* The reports are written, then the progress.
Finish ==
  /\ pc = "loop"
  /\ todo = {}
  /\ report' = Report
  /\ pc' = "save"
  /\ UNCHANGED <<file, seen, todo, resuming, completed, processed, counts,
                 severities, booked, llmDone, history, faults, runs>>

\* The process is killed, or a write raises.
Crash ==
  /\ pc \notin {"off", "done"}
  /\ faults < MaxFaults
  /\ faults' = faults + 1
  /\ pc' = "off"
  /\ UNCHANGED <<file, memory, history, runs>>

Next ==
  \/ \E s \in SUBSET Items, resume \in BOOLEAN : Start(s, resume)
  \/ \E i \in Items : Skip(i) \/ Examine(i)
  \/ TruncateProgress
  \/ WriteProgress
  \/ Finish
  \/ Crash

Spec == Init /\ [][Next]_vars

-----------------------------------------------------------------------------
(* Properties.                                                             *)

\* progress.json never claims a trace that no invocation examined, so --resume
\* cannot pass one over, wherever earlier invocations were killed.
ProgressHonest == ~broken => \A k \in progress : times[k] > 0

\* When a run is over, the key of every trace it read has been examined, by it
\* or by an earlier one, and is recorded.  A second trace with the key of another
\* (one trace id and one run id) is passed over although it may differ: without
\* --resume exactly the first trace of each key has been examined, while the
\* report counts all as processed.
DoneIsComplete ==
  pc = "done" =>
    /\ \A i \in seen : times[Key[i]] > 0 /\ Key[i] \in LoadProgress
    /\ ~resuming => looked = {i \in seen : \A j \in seen : Key[j] = Key[i] => i <= j}
    /\ report.processed = Cardinality(seen)

\* --resume skips what was completed (main.py:134): a trace is examined again
\* only for a kill, or because an invocation was started without --resume.
ExaminedAgainForAReason == \A k \in Keys : times[k] <= 1 + faults + scratch

\* What the reports list lies between the counters: those by type never exceed
\* it, for what the deduplication of the loop family dropped is counted down
\* again, and the one by severity never falls short of it.
CountersBracketReports ==
  \A t \in Types : counts[t] <= booked[t] /\ booked[t] <= severities[t]

=============================================================================
