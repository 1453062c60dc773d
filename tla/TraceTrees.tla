------------------------------ MODULE TraceTrees ------------------------------
(***************************************************************************)
(* What becomes of the spans of a data set between the download and the    *)
(* reports: the download command converts the rows of a batch to forests   *)
(* of spans, checks them and writes them span by span to a file            *)
(* (converter.py, pipeline.py:198-332); the diagnose command, which may    *)
(* run meanwhile, counts the traces of the files, reads the files, builds  *)
(* the forests again and reports which detectors can work with which data  *)
(* set (validator.py:455-1112).                                            *)
(*                                                                         *)
(* A step is one row, one file or one trace.  A value of an attribute is   *)
(* left out: what matters is which attributes a span has.  The report has  *)
(* a line for each name of a file, which is the number of the file among   *)
(* those of its data set.                                                  *)
(*                                                                         *)
(* ValidationProofs extends this module and Validator: names that Validator*)
(* uses begin with Trees here, or end in Of.                               *)
(***************************************************************************)
EXTENDS Integers, Sequences, FiniteSets, SequencesExt, FiniteSetsExt, Functions

CONSTANTS
  Corpora,    \* what the data sets may hold: sequences of batches [dataset, rows]
  MaxTraces   \* max_traces

NoParent == << >>

IsSequence(s) == s \in Seq({s[i] : i \in DOMAIN s})

\* An id is never missing; in a list of runs, the parent of a run comes before it
\* or is 0.
IsRow(r) ==
  /\ r.raises \in BOOLEAN
  /\ \A n \in DOMAIN r.lists :
       /\ IsSequence(r.lists[n])
       /\ \A i \in DOMAIN r.lists[n] :
            /\ r.lists[n][i].id # NoParent
            /\ n = "runs" => r.lists[n][i].parent \in 0 .. i - 1

ASSUME CorpusAssumption ==
  \A c \in Corpora :
    /\ IsSequence(c)
    /\ \A b \in DOMAIN c :
         /\ c[b].dataset \in Int
         /\ IsSequence(c[b].rows)
         /\ \A n \in DOMAIN c[b].rows : IsRow(c[b].rows[n])

ASSUME LimitAssumption == MaxTraces \in Nat

VARIABLES
  corpus,   \* the batches, in the order they are downloaded
  batch,    \* the batch that is being converted
  row,      \* its next row
  valid,    \* valid_traces: the rows of the batch that passed, with their forests
  files,    \* the files, in the order they are written
  phase,    \* where the diagnosis is
  total,    \* total_trace_count
  counted,  \* how many files could be counted (a history variable)
  listing,  \* files still to be read
  queue,    \* traces of the file that is being read, still to be examined
  tally,    \* what the diagnosis has added up
  diagnosed \* the traces examined, <<file, row of the file>> (a history variable)

download == <<corpus, batch, row, valid, files>>
diagnosis == <<phase, total, counted, listing, queue, tally, diagnosed>>
treesVars == <<corpus, batch, row, valid, files, phase, total, counted, listing, queue, tally, diagnosed>>

-----------------------------------------------------------------------------
(***************************************************************************)
(* Conversion.  A row holds lists: lists["spans"], lists["messages"], ...  *)
(* and other columns, data.  Item i of a list is [id, parent, data]; in    *)
(* lists["runs"], the run and its child runs, parent is the number of the  *)
(* parent run.  Data is [op, from, keys]: operation, role and attributes.  *)
(* The forest of a row is its spans and, for each, the one in whose        *)
(* child_spans it is, or 0; a span's item says where it came from (a       *)
(* history variable).                                                      *)
(***************************************************************************)
Formats == <<"runs", "messages", "steps", "spans", "actions", "list">>

\* The converter of a batch is chosen by its first row; a list of any other name
\* must not be empty.
Format(rows) ==
  LET lists == rows[1].lists
      filled(name) == name = "list" => lists[name] # << >>
      known == {i \in DOMAIN Formats : Formats[i] \in DOMAIN lists /\ filled(Formats[i])}
  IN  IF known = {} THEN "other" ELSE Formats[Min(known)]

Span(id, parent, data, item) == [id |-> id, parent |-> parent, data |-> data, item |-> item]
NoForest == [trace |-> NoParent, spans |-> << >>, up |-> << >>]

\* Ids that the converter makes up, different from all others.
Fresh(b, r, i) == <<"new", b, r, i>>

Runs(trace, items) ==
  [trace |-> trace,
   spans |-> [i \in DOMAIN items |->
               Span(items[i].id, IF items[i].parent = 0 THEN NoParent ELSE items[items[i].parent].id,
                    items[i].data, i)],
   up    |-> [i \in DOMAIN items |-> items[i].parent]]

\* Faulty variant of ParentOf: the first of the spans with that id.
ParentOfFirst(items, i) ==
  LET named == {j \in DOMAIN items : items[j].id = items[i].parent}
  IN  IF named = {} THEN 0 ELSE Min(named)

\* The last of the spans with that id; a parent that is no id of the list, a
\* number for instance, makes a root.
ParentOf(items, i) ==
  LET named == {j \in DOMAIN items : items[j].id = items[i].parent}
  IN  IF named = {} THEN 0 ELSE Max(named)

Structured(trace, items) ==
  [trace |-> trace,
   spans |-> [i \in DOMAIN items |->
               Span(items[i].id, IF ParentOf(items, i) = 0 THEN NoParent ELSE items[i].parent,
                    items[i].data, i)],
   up    |-> [i \in DOMAIN items |-> ParentOf(items, i)]]

\* The members of s that are in V, in their order.
Keep(s, V) ==
  LET keep[n \in 0 .. Len(s)] ==
        IF n = 0 THEN << >>
        ELSE IF s[n] \in V THEN Append(keep[n - 1], s[n]) ELSE keep[n - 1]
  IN  keep[Len(s)]

\* What the row has under a name: the child runs are a list in the run.
List(r, name) ==
  IF name = "runs" THEN Keep(r.lists[name], {x \in ToSet(r.lists[name]) : x.parent = 1})
                   ELSE r.lists[name]

\* The first list of the row that is not empty (the columns come in the order of
\* Formats) is renamed to "steps" and removed under its name: under this one, it
\* is lost.
NestedName(r) ==
  LET filled == {i \in DOMAIN Formats : Formats[i] \in DOMAIN r.lists /\ List(r, Formats[i]) # << >>}
  IN  CASE filled = {} -> "none"
        [] filled # {} /\ Formats[Min(filled)] = "steps" -> "actions"
        [] OTHER -> Formats[Min(filled)]

StepFormats == {"steps", "actions", "list"}

\* The list of a row at which the converter of the batch looks.
ListName(format, r) ==
  CASE format \in {"steps", "actions"} -> IF "steps" \in DOMAIN r.lists THEN "steps" ELSE "actions"
    [] format = "list" -> NestedName(r)
    [] OTHER -> format

ItemsOf(format, r) ==
  LET name == ListName(format, r)
  IN  CASE name \notin DOMAIN r.lists -> << >>
        [] name \in DOMAIN r.lists /\ format = "list" -> List(r, name)
        [] OTHER -> r.lists[name]

AddKeys(data, keys) == [data EXCEPT !.keys = @ \union keys]

\* The first step begins now, if it does not say when.
StepData(format, items, i) ==
  AddKeys(items[i].data, IF i = 1 /\ format \in StepFormats THEN {"start_time"} ELSE {})

\* The root over messages or steps begins with the first of them and ends with
\* the last, of those that say when; any other is made of the row's columns, and
\* begins now if these do not say when.
RootData(format, r) ==
  LET items == ItemsOf(format, r)
      turns == \/ format = "messages"
               \/ format \in StepFormats /\ ListName(format, r) \in DOMAIN r.lists
      timed == \E i \in DOMAIN items : "start_time" \in StepData(format, items, i).keys
      dated == format = "runs" \/ r.data.keys \intersect {"start_time", "end_time"} # {}
  IN  IF turns
      THEN [op |-> "invoke_agent", from |-> "none",
            keys |-> {"start_time"} \union (IF timed THEN {"end_time"} ELSE {})]
      ELSE AddKeys(r.data, IF dated THEN {} ELSE {"start_time"})

\* A root span for the row, and a child for each item.
Turns(format, r, b, n) ==
  LET items == ItemsOf(format, r)
  IN  [trace |-> Fresh(b, n, 0),
       spans |-> <<Span(Fresh(b, n, 0), NoParent, RootData(format, r), 0)>> \o
                 [i \in DOMAIN items |->
                   Span(Fresh(b, n, i), Fresh(b, n, 0), StepData(format, items, i), i)],
       up    |-> [i \in 1 .. Len(items) + 1 |-> IF i = 1 THEN 0 ELSE 1]]

\* The forest of row n of batch b.
Convert(format, r, b, n) ==
  LET items == ItemsOf(format, r)
  IN  CASE r.raises -> NoForest
        [] ~r.raises /\ format = "spans" /\ items # << >> -> Structured(r.trace, items)
        [] ~r.raises /\ format = "runs" /\ items # << >>  -> Runs(r.trace, items)
        [] OTHER -> Turns(format, r, b, n)

-----------------------------------------------------------------------------
(***************************************************************************)
(* What the roots lead to, in the order in which it is flattened; a cycle  *)
(* is reached from no root.                                                *)
(***************************************************************************)
Roots(f) == {i \in DOMAIN f.up : f.up[i] = 0}

Children(f, i) == Keep([j \in DOMAIN f.up |-> j], {j \in DOMAIN f.up : f.up[j] = i})

\* A span comes before its children, and they before what follows it.
Walk(f) ==
  LET after[n \in 0 .. Len(f.up)] ==
        IF n = 0 THEN [seen |-> << >>, todo |-> Children(f, 0)]
        ELSE LET w == after[n - 1]
             IN  IF w.todo = << >> THEN w
                 ELSE [seen |-> Append(w.seen, Head(w.todo)),
                       todo |-> Children(f, Head(w.todo)) \o Tail(w.todo)]
  IN  after[Len(f.up)].seen

\* The forest as its roots show it, its spans numbered in that order.
Shown(f) ==
  LET w == Walk(f)
      place(i) == IF i = 0 THEN 0 ELSE CHOOSE k \in DOMAIN w : w[k] = i
  IN  [trace |-> f.trace,
       spans |-> [k \in DOMAIN w |-> f.spans[w[k]]],
       up    |-> [k \in DOMAIN w |-> place(f.up[w[k]])]]

Ids(f) == {f.spans[i].id : i \in DOMAIN f.spans}
Blank == <<"">>

\* Faulty variant of Valid: an id may be there twice.
ValidWithDuplicates(f) ==
  /\ f.trace # Blank
  /\ Blank \notin Ids(f)
  /\ \A i \in DOMAIN f.spans : f.spans[i].parent \in {NoParent} \union Ids(f)

\* validate_spans finds no error in what the roots show.  Its test for cycles
\* compares ids along a path, where a cycle has a duplicate id.
Valid(f) ==
  /\ f.trace # Blank
  /\ Blank \notin Ids(f)
  /\ Cardinality(Ids(f)) = Len(f.spans)
  /\ \A i \in DOMAIN f.spans : f.spans[i].parent \in {NoParent} \union Ids(f)

-----------------------------------------------------------------------------
(***************************************************************************)
(* The download: rows are converted one by one; the valid ones of a batch  *)
(* go to a file of their own, with their place among the valid ones.       *)
(***************************************************************************)
Rows == corpus[batch].rows

ConvertRow ==
  /\ batch <= Len(corpus) /\ row <= Len(Rows)
  /\ LET f == Convert(Format(Rows), Rows[row], batch, row)
     IN  valid' = IF Roots(f) # {} /\ Valid(Shown(f))
                  THEN Append(valid, [row |-> row, forest |-> f]) ELSE valid
  /\ row' = row + 1
  /\ UNCHANGED <<corpus, batch, files, diagnosis>>

\* The rows of the k-th trace of a file: every span that the roots lead to.
FlatTrace(v, k) ==
  LET f == Shown(v[k].forest)
  IN  [i \in DOMAIN f.spans |-> [trace |-> f.trace, idx |-> k - 1, span |-> f.spans[i]]]

Flatten(v) ==
  LET flat[k \in 0 .. Len(v)] == IF k = 0 THEN << >> ELSE flat[k - 1] \o FlatTrace(v, k)
  IN  flat[Len(v)]

SaveCount(d) == Cardinality({i \in DOMAIN files : files[i].dataset = d}) + 1

\* The file is there before it is complete.
BeginFile ==
  /\ batch <= Len(corpus) /\ row > Len(Rows) /\ valid # << >>
  /\ files' = Append(files, [dataset |-> corpus[batch].dataset, no |-> SaveCount(corpus[batch].dataset),
                             rows |-> Flatten(valid), complete |-> FALSE,
                             batch |-> batch, source |-> valid])
  /\ valid' = << >>
  /\ UNCHANGED <<corpus, batch, row, diagnosis>>

EndBatch ==
  /\ batch <= Len(corpus) /\ row > Len(Rows) /\ valid = << >>
  /\ files' = [i \in DOMAIN files |-> [files[i] EXCEPT !.complete = TRUE]]
  /\ batch' = batch + 1 /\ row' = 1
  /\ UNCHANGED <<corpus, valid, diagnosis>>

-----------------------------------------------------------------------------
(***************************************************************************)
(* Reading a file: spans with the same trace id and row are a trace.       *)
(***************************************************************************)
\* Faulty variant of KeyOf: the trace id alone.
KeyOfTraceId(r) == <<r.trace>>

KeyOf(r) == <<r.trace, r.idx>>

\* _build_trees: the last span with the parent's id is the parent.
BuildTrees(rows) ==
  LET parent(i) == IF rows[i].span.parent = NoParent THEN {}
                   ELSE {j \in DOMAIN rows : rows[j].span.id = rows[i].span.parent}
  IN  [trace |-> rows[1].trace,
       spans |-> [i \in DOMAIN rows |-> rows[i].span],
       up    |-> [i \in DOMAIN rows |-> IF parent(i) = {} THEN 0 ELSE Max(parent(i))]]

\* The traces of a file, in the order they begin.
Begun(rows) ==
  LET keys[n \in 0 .. Len(rows)] ==
        IF n = 0 THEN << >>
        ELSE LET before == keys[n - 1]
             IN  IF KeyOf(rows[n]) \in ToSet(before) THEN before ELSE Append(before, KeyOf(rows[n]))
  IN  keys[Len(rows)]

RowsOf(rows, key) == Keep(rows, {rows[i] : i \in {j \in DOMAIN rows : KeyOf(rows[j]) = key}})

Traces(rows) ==
  LET keys == Begun(rows)
  IN  [n \in DOMAIN keys |-> BuildTrees(RowsOf(rows, keys[n]))]

-----------------------------------------------------------------------------
(***************************************************************************)
(* Normalisation: attributes of the data set's own become those that the   *)
(* detectors know.                                                         *)
(***************************************************************************)
NormalizeOperationName(op, from) ==
  CASE op # "unknown"     -> op
    [] op = "unknown" /\ from = "tool" -> "execute_tool"
    [] op = "unknown" /\ from = "assistant" -> "plan"
    [] op = "unknown" /\ from = "user" -> "invoke_agent"
    [] OTHER -> op

Assistant == {"assistant_response", "completion", "message_content", "content", "answer", "tool_output"}

\* "tool_response" stands for a value with a <tool_response> in it.
NormalizeAttrs(keys, from, op) ==
  LET toolLike == op \in {"execute_tool", "tool"} \/ from = "tool"
      has(sources) == keys \intersect sources # {}
  IN  keys \union {k \in {"response.content", "tool.name", "tool.result", "prompt_tokens",
                          "completion_tokens", "cost.total"} :
        CASE k = "response.content" -> has(Assistant) \/ (from = "assistant" /\ has({"value"}))
          [] k = "tool.name"   -> toolLike /\ has({"tool_name", "name", "label", "tool_response"})
          [] k = "tool.result" -> \/ /\ toolLike
                                     /\ has({"tool_output", "output", "result", "assistant_response",
                                             "tool_response"})
                                  \/ from = "tool" /\ has({"value"})
          [] k = "prompt_tokens"     -> has({"input_tokens"})
          [] k = "completion_tokens" -> has({"output_tokens"})
          [] k = "cost.total"        -> has({"cost_usd"})}

Normal(span) ==
  LET op == NormalizeOperationName(span.data.op, span.data.from)
  IN  [op |-> op, keys |-> NormalizeAttrs(span.data.keys, span.data.from, op)]

BehaviorOps == {"plan", "think", "execute_tool", "tool", "retrieval", "memory", "invoke_agent"}

Fields == {"has_output", "has_tool_name", "has_tool_result", "has_tool_args", "has_status",
           "has_timestamps", "has_parent_child", "has_tokens", "has_cost", "has_operations",
           "has_run_duration", "has_retry_semantics"}

\* The span of which the summary is made.
FirstRoot(f) == f.spans[Min(Roots(f))]

\* The fields that are found while the spans of a trace are walked over; the
\* duration is that of the first root, or is taken from the spans.
Found(f) ==
  LET spans == ToSet(Shown(f).spans)
      some(keys) == \E s \in spans : Normal(s).keys \intersect keys # {}
  IN  {x \in Fields :
        CASE x = "has_output"       -> some({"response.content", "agent.output"})
          [] x = "has_tool_name"    -> some({"tool.name"})
          [] x = "has_tool_result"  -> some({"tool.result"})
          [] x = "has_tool_args"    -> some({"tool.args"})
          [] x = "has_timestamps"   -> some({"start_time"})
          [] x = "has_parent_child" -> \E s \in spans : s.parent # NoParent
          [] x = "has_tokens"       -> some({"prompt_tokens", "completion_tokens"})
          [] x = "has_cost"         -> some({"cost.total"})
          [] x = "has_operations"   -> \E s \in spans : Normal(s).op \in BehaviorOps
          [] x = "has_run_duration" -> \/ "duration" \in FirstRoot(f).data.keys
                                       \/ some({"start_time"}) /\ some({"end_time"})
          [] x = "has_retry_semantics" -> some({"retry", "error.code"})
          [] x = "has_status"       -> FALSE}

\* What the summary of a trace says: it always has a status, and the retries that
\* the first root counts.
Summarised(f) ==
  {"has_status"} \union
    (IF "retry.count" \in FirstRoot(f).data.keys THEN {"has_retry_semantics"} ELSE {})

\* Faulty variant of FieldsRaised: without the summary's retries.
FieldsRaisedBySpans(f) == Found(f) \union {"has_status"}

\* The counters of fields that a trace raises.
FieldsRaised(f) == Found(f) \union Summarised(f)

\* trace_field_presence, by which the detectors are matched: put together after
\* the counters, from the same flags and once more from the summary.
TraceFieldPresence(f) == {x \in Fields : x \in Found(f) \/ x \in Summarised(f)}

DetectorTypes ==
  {"empty_response", "low_output", "output_drift", "indeterminate_status", "loop_detected",
   "pattern_loop", "argument_loop", "redundant_tool_call", "tool_error_rate", "specific_tool_error",
   "wasted_tool_calls", "tool_latency", "tool_timeout", "cost_spike", "cost_vs_baseline",
   "cost_efficiency", "token_explosion", "per_tool_cost_spike", "run_duration", "max_step_hit",
   "step_efficiency", "inactivity", "premature_completion", "retry_storm", "systemic_retry",
   "transient_retry", "cascading_retry", "recovery_path", "intervention_frequency",
   "escalation_rate", "approval_latency", "intervention_rejection", "anomaly_cluster",
   "run_frequency_anomaly", "first_run_heuristic"}

\* What a detector needs: _detector_requirements, detector by detector.
DetectorRequirements == [d \in DetectorTypes |->
  CASE d \in {"empty_response", "low_output", "output_drift"} -> {"has_output"}
    [] d = "indeterminate_status" -> {"has_status"}
    [] d \in {"loop_detected", "pattern_loop", "argument_loop", "redundant_tool_call"} ->
         {"has_tool_name", "has_operations"}
    [] d \in {"tool_error_rate", "specific_tool_error", "wasted_tool_calls"} ->
         {"has_tool_name", "has_tool_result", "has_operations"}
    [] d \in {"tool_latency", "tool_timeout"} -> {"has_tool_name", "has_timestamps", "has_operations"}
    [] d \in {"cost_spike", "cost_vs_baseline"} -> {"has_cost"}
    [] d = "cost_efficiency"      -> {"has_cost", "has_tokens"}
    [] d = "token_explosion"      -> {"has_tokens"}
    [] d = "per_tool_cost_spike"  -> {"has_tool_name", "has_cost"}
    [] d = "run_duration"         -> {"has_run_duration", "has_timestamps"}
    [] d = "max_step_hit"         -> {"has_operations"}
    [] d = "step_efficiency"      -> {"has_operations", "has_timestamps"}
    [] d = "inactivity"           -> {"has_timestamps"}
    [] d = "premature_completion" -> {"has_status", "has_operations"}
    [] d \in {"retry_storm", "systemic_retry", "transient_retry"} -> {"has_retry_semantics"}
    [] d \in {"cascading_retry", "recovery_path"} -> {"has_retry_semantics", "has_tool_name"}
    [] OTHER -> {}]

-----------------------------------------------------------------------------
(***************************************************************************)
(* The diagnosis.  The traces are read by a generator, which lists the     *)
(* files when its first trace is asked for, after they were counted.       *)
(***************************************************************************)
Complete == {i \in DOMAIN files : files[i].complete}

\* Faulty variant of KeysOf: a trace id is counted once.
KeysOfTraceIds(rows) == {rows[i].trace : i \in DOMAIN rows}

KeysOf(rows) == {<<rows[i].trace, rows[i].idx>> : i \in DOMAIN rows}

CountTraces ==
  /\ phase = "idle"
  /\ total' = Min({SumFunctionOnSet([i \in Complete |-> Cardinality(KeysOf(files[i].rows))], Complete),
                   MaxTraces})
  /\ counted' = Cardinality(Complete)
  /\ phase' = IF total' = 0 THEN "done" ELSE "counted"
  /\ UNCHANGED <<download, listing, queue, tally, diagnosed>>

\* The order of the paths: <dataset>/traces-<no>.parquet.
SortsBefore(file, other) ==
  \/ file.dataset < other.dataset
  \/ file.dataset = other.dataset /\ file.no < other.no

ListFiles ==
  /\ phase = "counted"
  /\ phase' = "reading"
  /\ \E s \in SetToSeqs(DOMAIN files) :
       /\ \A i, j \in DOMAIN s : i < j => SortsBefore(files[s[i]], files[s[j]])
       /\ listing' = s
  /\ UNCHANGED <<download, total, counted, queue, tally, diagnosed>>

\* What the report calls the data set of a trace is the name of its file without
\* the directory: the files with the same number, of all data sets.
Stem(file) == file.no

\* The traces of a file, without those that have no root.
TracesOf(i) ==
  LET traces == Traces(files[i].rows)
      rooted == Keep(traces, {f \in ToSet(traces) : Roots(f) # {}})
  IN  [n \in DOMAIN rooted |-> [dataset |-> Stem(files[i]), forest |-> rooted[n], from |-> <<i, n>>]]

\* A file that cannot be read is passed over.
ReadFile ==
  /\ phase = "reading" /\ queue = << >> /\ listing # << >>
  /\ listing' = Tail(listing)
  /\ queue' = IF files[Head(listing)].complete THEN TracesOf(Head(listing)) ELSE << >>
  /\ UNCHANGED <<download, phase, total, counted, tally, diagnosed>>

\* Faulty variant of Eligible: one of the fields is enough.
EligibleByOne(present) ==
  {d \in DetectorTypes : DetectorRequirements[d] = {} \/ DetectorRequirements[d] \intersect present # {}}

Eligible(present) == {d \in DetectorTypes : DetectorRequirements[d] \subseteq present}

Lacking(x, present) ==
  IF x \in present THEN 0 ELSE Cardinality({d \in DetectorTypes : x \in DetectorRequirements[d]})

Total(f) == SumFunctionOnSet(f, DOMAIN f)

Bump(n, hit) == IF hit THEN n + 1 ELSE n

ExamineTrace ==
  /\ phase = "reading" /\ queue # << >>
  /\ LET d       == Head(queue).dataset
         present == TraceFieldPresence(Head(queue).forest)
         raised  == FieldsRaised(Head(queue).forest)
     IN  tally' = [traces   |-> [tally.traces EXCEPT ![d] = @ + 1],
                   fields   |-> [tally.fields EXCEPT ![d] = [x \in Fields |-> Bump(@[x], x \in raised)]],
                   eligible |-> [tally.eligible EXCEPT ![d] =
                                  [t \in DetectorTypes |-> Bump(@[t], t \in Eligible(present))]],
                   reasons  |-> [x \in Fields |-> tally.reasons[x] + Lacking(x, present)]]
  /\ queue' = Tail(queue)
  /\ diagnosed' = diagnosed \union {Head(queue).from}
  /\ phase' = IF Total(tally'.traces) >= MaxTraces THEN "done" ELSE phase
  /\ UNCHANGED <<download, total, counted, listing>>

EndDiagnosis ==
  /\ phase = "reading" /\ queue = << >> /\ listing = << >>
  /\ phase' = "done"
  /\ UNCHANGED <<download, total, counted, listing, queue, tally, diagnosed>>

-----------------------------------------------------------------------------
TreesInit ==
  /\ corpus \in Corpora
  /\ batch = 1 /\ row = 1 /\ valid = << >> /\ files = << >>
  /\ phase = "idle" /\ total = 0 /\ counted = 0 /\ listing = << >> /\ queue = << >>
  /\ diagnosed = {}
  /\ tally = LET none(S) == [x \in S |-> 0]
                 stems   == DOMAIN corpus
             IN  [traces |-> none(stems), fields |-> [n \in stems |-> none(Fields)],
                  eligible |-> [n \in stems |-> none(DetectorTypes)], reasons |-> none(Fields)]

TreesNext ==
  \/ ConvertRow \/ BeginFile \/ EndBatch
  \/ CountTraces \/ ListFiles \/ ReadFile \/ ExamineTrace \/ EndDiagnosis

TreesSpec == TreesInit /\ [][TreesNext]_treesVars

-----------------------------------------------------------------------------
Read == Total(tally.traces)

\* Every variable has its type; what the roots of a valid row show is a forest
\* in which every id is there once.
TreesTypeOK ==
  /\ corpus \in Corpora
  /\ batch \in 1 .. Len(corpus) + 1 /\ row \in Nat \ {0}
  /\ phase \in {"idle", "counted", "reading", "done"}
  /\ total \in 0 .. MaxTraces /\ counted \in 0 .. Len(files)
  /\ \A i \in DOMAIN listing : listing[i] \in DOMAIN files
  /\ \A f \in {Shown(valid[k].forest) : k \in DOMAIN valid} :
       /\ f.up \in [DOMAIN f.spans -> {0} \union DOMAIN f.spans]
       /\ Cardinality(Ids(f)) = Len(f.spans)

\* A file gives back the forests that the converter made of the rows in it, in
\* their order and with nothing of one in another, although different rows may
\* have the same trace id and the same span ids (pipeline.py:308-332,
\* validator.py:860-893, :1101-1112).
RoundTrip ==
  \A i \in DOMAIN files :
    Traces(files[i].rows) =
      [k \in DOMAIN files[i].source |-> Shown(files[i].source[k].forest)]

\* Item i of a list of spans leads to a cycle, when each names the last item with
\* its parent's id: it is one of some items whose parents are all among them.
LeadsToCycle(items, i) ==
  \E C \in SUBSET DOMAIN items :
    /\ i \in C
    /\ \A j \in C : \E p \in C :
         /\ items[p].id = items[j].parent
         /\ \A q \in DOMAIN items : items[q].id = items[j].parent => q <= p

\* Of a row in a file, no item is there twice, and none is missing that was in
\* the list at which the converter looks that the first row of the batch chose,
\* but spans that lead to a cycle: these are dropped, and no error is counted
\* (converter.py:518-527, :598-650).
OnlyCyclesAreLost ==
  \A i \in DOMAIN files : \A k \in DOMAIN files[i].source :
    LET r       == corpus[files[i].batch].rows[files[i].source[k].row]
        format  == Format(corpus[files[i].batch].rows)
        stored  == {n \in DOMAIN files[i].rows :
                      files[i].rows[n].idx = k - 1 /\ files[i].rows[n].span.item # 0}
        wanted  == ItemsOf(format, r)
        items   == {files[i].rows[n].span.item : n \in stored}
    IN  /\ Cardinality(items) = Cardinality(stored)
        /\ \A n \in DOMAIN wanted : n \in items \/ (format = "spans" /\ LeadsToCycle(wanted, n))

\* The number of traces in the report is that of the traces read, but for files
\* that were finished after the count (validator.py:456-457, :801-826).
CountMissesOnlyLaterFiles ==
  phase = "done" /\ counted = Cardinality(Complete) => total = Read

\* The traces examined under the name n, and a trace as the converter made it.
LookedAt(n) == {l \in diagnosed : files[l[1]].no = n}
Converted(l) == Shown(files[l[1]].source[l[2]].forest)

\* The tally under the name n is right, when has tells which traces have which fields.
TallyIsRight(n, has) ==
  /\ tally.traces[n] = Cardinality(LookedAt(n))
  /\ \A x \in Fields : tally.fields[n][x] = Cardinality({l \in LookedAt(n) : <<l, x>> \in has})
  /\ \A d \in DetectorTypes :
       tally.eligible[n][d] =
         Cardinality({l \in LookedAt(n) : \A x \in DetectorRequirements[d] : <<l, x>> \in has})

\* The report tells what the converter made, although it counts forests that were
\* flattened, stored and built again: each trace is counted once, in the line of
\* its file's name, in the column of each field that its converted forest has and
\* of no other, and for each detector whose fields that forest has, although the
\* columns and the detectors are computed apart; it is a reason against each
\* other detector (pipeline.py:308-332, validator.py:479-610, :860-893).
ReportTellsWhatWasConverted ==
  phase = "done" =>
    LET has == UNION {{l} \X TraceFieldPresence(Converted(l)) : l \in diagnosed}
    IN  /\ \A n \in DOMAIN tally.traces : TallyIsRight(n, has)
        /\ \A x \in Fields :
             tally.reasons[x] =
               Cardinality({d \in DetectorTypes : x \in DetectorRequirements[d]}) *
                 Cardinality({l \in diagnosed : <<l, x>> \notin has})

=============================================================================
