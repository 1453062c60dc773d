# TLA+ models of agent-exec-trace

Specifications of the parts of agent-exec-trace whose behaviour depends on
order: who writes a table first, where a process is killed, what a second
invocation finds on disk. Each module is a translation of the code it names;
`PROJECT.json` maps every definition to the lines it stands for, lists the runs,
the mutants that show each property can fail, the hazards of the code, the
disagreements found between code and documents, and the theorems.

    tlc -workers 2 -config WorkerAlone.cfg MCAnalyticsWorker.tla     # one run
    tlapm AnalyticsWorkerProofs.tla                                  # one proof module

## 1. The system

An agent instrumented with the Python SDK exports OpenTelemetry spans to Jaeger.
The analytics worker polls Jaeger, turns each trace into a row of
`run_summaries`, runs the detectors over it, stores what they report in
`anomalies`, alerts a webhook, and aggregates. The API reads the tables for the
web interface. Beside this, two commands evaluate the detectors on public
datasets: `download-traces` converts dataset rows to parquet files,
`validate-traces` runs the detectors over the files and reports.

    agent + SDK --spans--> Jaeger --HTTP--> worker, commands --SQL--> Postgres <--SQL-- API <-- web
    dataset streams --> download-traces --parquet--> validate-traces --> reports, progress.json

| Part | State it keeps | Operations | Hard because | Correct when |
|---|---|---|---|---|
| Worker (`worker.py`) | loop position; traces fetched, item, anomalies found | poll cycle, `process_trace`, `_detect_and_alert`, `shutdown` | every database and HTTP call is an await at which other processes run, or an exception or a kill ends the pass | every run gets its summary, from the complete trace where nothing was in the way; none is processed twice; anomalies have their run |
| Commands (`main.py`: reprocess, rebuild, range) | their own worker object | the same passes, without the processed check | run beside the worker on the same tables | they repair and never damage what the worker stored |
| Ingestion (`ingest.py`) | none; tables `run_summaries`, `anomalies` | fetch, parse, summarise, upsert, `is_run_processed` | traces arrive span by span, the root span last | a run has one row, re-processing is idempotent |
| Detectors (`detectors/`) | none, some read the tables | `detect`, `detect_async` | some depend on what other passes stored before | each fires on what its description says |
| Alerts (`alerts.py`) | none | `send_alert` | a failing webhook must not stop the pass | an alert is about a stored anomaly |
| Materializers (`materializer.py`) | tables `fleet_rollups`, `version_cohort_summaries` | two aggregations per cycle | read at several moments while others write | a rollup describes the runs of its window |
| Download pipeline (`pipeline.py`, `downloader.py`) | open streams, schedule, counters, parquet files, manifest | cycle, open, download batch, save, manifest | streams fail or end anywhere, files outlive the process | rows counted are rows stored, each once; it ends |
| Validation (`validator.py`) | completed keys, counters, `progress.json`, reports | load, examine, save, report | killed runs are resumed from a file being rewritten | no key passed over, the counters bracket the reports |
| LLM client (`llm_client.py`) | response cache, statistics, trace context | `chat`, `embed` | failures count as "no answer" | answers are attributed to their trace |
| SDK tracer (`tracer.py`) | one provider behind a lock | configure, get, reset | callers in several threads | first configuration wins, spans reach it |
| SDK adapters (`langgraph.py`, `raw.py`, `pydantic.py`, `spans.py`) | open spans by callback id | node start, end, error; context managers | nodes run in threads, events may be missing | every span ends, unless capturing its content raises; under its own root |
| Converter (`converter.py`) and diagnosis (`validator.py`) | batches, parquet files; tallies of the report | convert, check, flatten, read, rebuild, examine | ids that are not unique, parents that are unknown or form cycles, files read while others are written | a forest comes back as it was, the report adds up |
| Redaction (`redact.py`) | none | `apply` | boundaries of the length cap | nothing exceeds the cap |
| API (`services/api`) | none | queries with filters and pages | several statements per answer, several requests per list | readers miss nothing that was there when they began but what moves under them |
| Web (`apps/web`) | what a page shows, its open requests | render, effect, cleanup, retry | answers arrive in any order | a page shows what its filters ask for, and stops loading |
| Demo agent, scripts, deployment | - | - | - | - |

Interactions worth a model: worker and commands share two tables without a
transaction spanning two calls; worker and Jaeger disagree for a while about
what a trace is; each command leaves files that the next invocation of the same
or of the other command reads; the worker's rollups and the API's answers are two
aggregations of tables that change in between; a web page holds requests made for
filters it no longer has.

## 2. What is modelled

### AnalyticsWorker

One `Poller` and any number of `CliProcs`, each a sequential asyncio task with
its own program counter (`sleep`, `loop`, `persist`, `detect`, `anomaly`,
`alert`). A step is the code between two awaits, so everything another process
can do in between is explored. Jaeger holds each trace as absent, partial,
complete or gone; a *snapshot* is what a fetch returned and is kept by the
process that fetched it, however old it gets. `RunIdOf` is the run id the
summary builder derives from a snapshot: the trace id while the root span is
missing.

- Polling: `StartCycle`, `FetchService` (any subset the limit allows), then
  `SkipDuplicate` or `TakeNew` after `IsRunProcessed`, and `Materialize` at the
  end of the cycle.
- Commands: `StartReprocess`, `StartRebuild`, `StartRange`, `FetchRange`,
  `Refetch`; these go to `PersistSummary` without the check.
- The pass over an item, common to all: `PersistSummary` (upsert), `Detect`
  (the trace-only detectors, any subset of the flaky ones, and the cluster
  detector as it sees the table at that moment), `PersistAnomaly`, `SendAlert`,
  `FinishItem`.
- Faults: every call can fail, with what the surrounding `except` does
  (`FetchFails`, `RefetchFails`, `PersistSummaryFails`, `PersistAnomalyFails`,
  `ListServicesFails`); `DropItem`; `Crash` at any point.

An anomaly's fresh uuid is the pass that detected it with its type, so that two
passes never agree on an id. Counters other than `processed_run_count`, the
contents of summaries and the texts of alerts are left out.

### Processing, implemented by the worker

What the polling worker promises, without Jaeger, fetching or program counters:
a run is `unseen`, `detecting`, `done` or `cut`; it is recorded once, worked on
alone, gets each type of anomaly at most once and only while it is worked on,
and is done when what its report calls for is stored. `AnalyticsWorker` maps its
state to it (`Phase`, `StoredTypes`, `Promise`): a run is detecting while it is
the item in hand, cut when a fault fell into its pass. `ProcessesEachRunOnce` is
the safety part and `PassesEnd` the fairness of `Processing`. The mapping is for
a worker without commands: a command that replays a run breaks the promise, as
section 5 tells.

### TracePipeline

The loop of `TracePipeline.run` over `remaining`, the downloader's open
iterators, a batch as the row numbers it pulled, numbered files per dataset,
the manifest. Datasets are sequences of valid and invalid rows. Opening may
fail, a stream may break in a batch (the rows pulled are lost), the process may
be killed, also while a file is written, and be started again on what is on disk.
The lists of validation errors and the ingestion into Postgres are left out.

### TraceTrees

The spans of a data set from the download to the diagnosis. `Format` and `Convert`
are the converters: one format for a batch, read off its first row, and the shape of
the forest each makes, with the item of the row each span came from (a history
variable). `ConvertRow`, `BeginFile` and `EndBatch` are the download; `CountTraces`,
`ListFiles`, `ReadFile`, `ExamineTrace` and `EndDiagnosis` are `run_diagnose`, which
may run at any moment meanwhile. `Walk` is the order in which a forest is flattened,
`BuildTrees` what the reader makes of the rows. `Normal` says which attributes a
span has after normalisation; the root that the chat and step converters make has an
operation and a start time of its own (`RootData`, `StepData`). The report asks for
its twelve fields twice, in two pieces of code: `FieldsRaised` is what
`_diagnose_trace` counts for the columns, `TraceFieldPresence` what decides which
detectors could run, and `DetectorRequirements` what each of them needs. Its lines
go by the name of the file without the directory (`Stem`), so that files of several
data sets with one number share a line. `diagnosed` is a history variable, the
traces examined. In a list format the first list that is not empty loses its name
and becomes the steps of the batch (`converter.py:529-545`), which the model keeps.
Values, times and the sample rows in the manifest are left out. Some names begin
with `Trees` or end in `Of` because one module of proofs is about this module and
`Validator`, as those of `WebPage` begin with `page` or `Page` because
`ReadModelsProofs` is about it too.

### Validator

`Validator.run` with `progress.json`. An invocation reads any subset of the traces
(files come and go, `--max-files` and `--max-traces` cut them off), with or without
`--resume`. `Examine` is the whole treatment of a trace: the rule based detectors,
the LLM detectors within `--llm-sample` (any answers), the deduplication of the loop
family, the completed key and the decision to save. The counters by type are raised
with each anomaly and corrected after the deduplication; the counter by severity is
raised with them and never corrected (`severities`). `looked` is a history variable,
the traces this invocation examined: a trace whose trace id and run id were seen
before is passed over although it counts as processed. Saving is two steps, because
`write_text` first empties the file. A kill may come anywhere. The partial reports,
the correlation matrix and the quick loader are left out; the diagnostic mode is in
`TraceTrees`.

### LLMSession

The part of `Validator.run` that asks a language model, for the first
`LLMSample` traces with a rule anomaly: six detectors one after another through
one client. A step is one question or one embedding. `Texts` says which texts
each detector compares, `Key` which prompts coincide after cleaning and cutting.
The model answers any question with yes, no or an object of the wrong types
(`AskAnswered`), with nothing (`AskEmpty`) or not at all (`AskFails`); the log
file may fail after an answer (`LogFails`). `given` and `vectors` are history
variables. The prompts' wording, the confidence values and token counts are left
out. That `openai` is not installed, in which case nothing is asked, is left out.

### ToolDetectors

The eleven detectors that look at the tool calls of one run, one after the
other on one trace. A call is what they read of a span: tool, arguments, result,
status, duration. `loop`, `argument_loop` and `redundant_tool_call` are loops
that carry a key and two counters from call to call; they are modelled call by
call (`BreakStreak`, `ExtendStreak`, `RestartStreak`, `Conclude`), one set of
actions for the three, with what differs in `StreakKey`, `Skipped` and
`StartCount`. The verdicts of the others are operators on the trace (`Judge`);
rates and ratios are compared without division, which is exact where the code's
floating point is (`cost.py:503` is the place where it is not, and the
operator states the rounded outcome). Evidence and explanations are left out.

### Tracing

The SDK in one process. `provider` is the module's `_provider`; it has the number of
its span processor, so that an old one can be told from a new one. `Configure` and
`Reset` are the bodies under the lock of `tracer.py`. `configure_otlp_tracing` is two
steps: it builds its processor, whose thread runs from then on (`BuildExporter`), and
comes to the lock later (`ConfigureOtlp`), where the processor becomes the provider's
or is `refused`. A call is an invocation of a traced graph or of a
decorated function. For a graph: `MakeHandler` (the callback handler takes its
tracer), `OpenGraphRoot` (`invoke_agent` takes its own), then node runs in
threads (`StartNode`, `EndNode`, `FailNode`: the three callbacks), then
`ReturnGraph` or `RaiseGraph`, after which nodes of other threads may still
report. For a function: `OpenRawRoot`, `EnterBlock`, `LeaveBlock`,
`LeaveFunction`; each helper asks for the tracer again. OpenTelemetry is
external: a span keeps the provider and the trace it was started with, and is
exported when it ends under a provider that has not been shut down. What a no-op
span does with the context it is started in depends on the version of
OpenTelemetry, hence the constant `NoOpKeepsContext`. It is assumed that the
application sets no global tracer provider of its own and passes no explicit
tracer. Of what is captured on a span only one thing is modelled, that it may raise:
a value's `str()`, a redaction, an input that is no mapping. Then a node runs
without a span, or a span that was started is not kept (`StartNodeRaises`), or one
that was taken from the handler is not ended (`PopSpan`), or a block is not entered
(`EnterBlockRaises`); such spans are `lost`. `Tools` are the nodes and blocks that
capture content as they start. Helpers used inside nodes are left out.

### ReadModels

What the stored runs are turned into. A step is one database statement; nobody
takes a transaction. `StoreRun` and `StoreAnomaly` are any other process. A second
summary of a run may move it to another agent, version or workload (`GroupsOf`),
while its anomalies keep the agent name they were detected under; `names` is the
history of these names. `GroupRuns`, `CountAnomalies`, `PersistRollup` and
`MaterializeCohorts` are the materializers, of the worker at the end of each cycle
and of the `materialize` command beside it; `FleetFails` is a statement that fails.
Each cycle inserts rows of its own period, so `rollups` holds, of each process, the
row it inserted last. A client walks the pages of the fleet or of the inbox
(`ReadTotal`, `ReadPage`) or reads a timeline (`StartTimeline`, `ReadRunAnomalies`).
Names are numbers in collation order, NULL last; `Matches` and `FleetAnomalies` are
what the two SQL texts make of NULL and of names: the materializer goes by the name
in the anomaly's row, the API by the run. In the order of a page, groups that tie
and anomalies detected at the same time may come in any order, and in a different
one for each request; a commit may come after one with a later time. `risen` and
`moved` are history variables, the groups that gained an anomaly and whether a run
left its group while a client walks. Averages, costs, filters and lists of runs are
left out.

### WebPage

A page and the hook `useAsync`. `Render` is a change of the filters, `RunEffect`
React's effect with the cleanup of the one before, `Retry` the button of an
error, `Leave` the unmounting, `Settle` an answer or an error of any open
request. `kept` says whether someone holds the cleanup of a request, `retried`
(a history variable) what was asked for with the button.

## 3. What the runs show

| Run | Bounds | Shows |
|---|---|---|
| `worker_alone` | 2 traces of one run (the run id of one is the trace id of the other), 2 services found through the wildcard, 1 fault | `ProcessesEachRunOnce`, `PassesEnd`: the worker implements `Processing`. `OneAnomalyPerType`: polling a run again, under another service, in another trace, after a failure never repeats an anomaly. `EventuallySummarised`: if the worker is always started again, the run of every complete trace gets a summary, and the summary of the complete trace unless a partial poll or another trace took the run before |
| `worker_commands` | 1 trace, 1 command process, 2 commands, 1 fault | `ForeignKeyHolds`, `NoSilentLoss`, `AlertsFollowRows` whatever the commands do meanwhile |
| `pipeline` | 3 datasets of 5, 4 and 3 rows, the last without a valid one, batches of 2, target 5, 2 faults, 2 invocations | `CountedIsStored`: counts agree with the files. `ReadThrough`: no row is passed over, and a dataset that failed is not read on. `ShortOnlyWhenAllRead`: it ends short of the target only if everything that did not fail is stored to its last row. `Terminates`: while streams answer, an invocation ends, or is left with nothing but data sets that it reads again for ever |
| `trees` | 147 corpora of 3 batches in 2 data sets: every format, equal trace ids, duplicate ids, unknown parents, cycles, mixed formats, a row that raises; at most 3 traces examined | `RoundTrip`: files give back the forests. `OnlyCyclesAreLost`: no span is lost or doubled but those on or under a cycle. `CountMissesOnlyLaterFiles`: the count and the files read agree, with a download running meanwhile. `ReportTellsWhatWasConverted`: every line, column, detector and reason of the report is what the converter's forests call for |
| `validate` | 4 traces (two runs of one trace, one run on disk twice), interval 2, sample 1, 3 invocations, 1 kill | `ProgressHonest`: resuming passes no key over. `DoneIsComplete`: which traces of a key are examined, and how many count. `ExaminedAgainForAReason`. `CountersBracketReports`: the counters by type never exceed what the reports list, those by severity never fall short of it |
| `llm_session` | 3 traces of 2 agents, two of which put the same questions; 4 detectors enabled, 2 disabled; 1 fault | `SamePromptSameAnswer`, `AccountsBalance`, `Attributed`, `DriftIsAgainstTheFirst`; `EndsWhateverTheModelAnswers` |
| `detectors` | every trace of up to 4 calls of 7 kinds and up to 6 calls of 3 kinds, thresholds 2 and 3, window 2 | `StreaksAreExact`: the loops find what they look for. `RedundantIsArgumentLoop`, `VerdictsAgree`: the verdicts of different detectors on one trace fit each other (a long loop is a pattern, an error rate has a culprit among the tools, a slow call has calls to be compared with, a trace of one tool has one verdict) |
| `tracing` | a graph or a function with 2 inner spans, 3 processors, no-op spans without context | `OneProviderUp`: a running processor is the provider's, or one that `configure_otlp_tracing` built beside it. `RunsAreWhole`, `NodesBelongToTheirRun`: configuring and resetting beside a running call neither mixes providers nor tears runs apart. `EndedOnce`, `OnlyTheLostStayOpen`, `EverySpanEnds`: each span ends exactly once, with events in any order, unless capturing its content raised |
| `read_models` | 3 runs, two of which a second summary may move to another group, versions and workloads with and without NULL, pages of 1, 4 writes, 2 times, 1 fault; the worker, the command and a client one at a time | `NeverUndercounts`: a rollup counts the anomalies its runs had when they were grouped, as far as they bear the agent's name and no run moved since. `FleetWalkMissesOnlyRisen`: a walk through the fleet misses only groups that rose meanwhile or tie with another, unless a run moved. `ReadersMissNothing`: an inbox misses only anomalies of equal times, a timeline nothing, and both deliver the announced total. `RollupsConverge`: the worker's rollups come to agree with the API although every cycle ends in an exception, but for groups that the two count differently |
| `web_page` | 3 filters, 4 requests | `StaleOnlyByRetry`: answers to former filters are never shown, but for those asked for with "Try again". `LoadingEnds` |

Two disagreements between the code and what is written about it, each a run that
TLC must find violated:

| Run | What the counterexample shows |
|---|---|
| `worker_cluster_late` | the cluster detector runs before the anomalies of its run are stored, so it does not fire on the pass that should trigger it |
| `cohorts_never` | no version ever gets its row in `version_cohort_summaries`: each cycle uses a connection after its release and raises, so the views the module's comment calls eventually consistent stay empty |

Further disagreements are listed in section 5.

**Bounds.** `MaxFaults`, `MaxCliRuns`, `MaxRuns`, `MaxWrites` and `MaxRequests`
bound otherwise unbounded counters, as `MaxProcessors` and `MaxCalls` do, and appear
in the guards of the actions that count. Two traces with one run id reach every
duplicate the worker can meet (same trace again, other trace of the run); one
command process that may run twice gives both orders of worker and command around
every await; the worker runs allow one fault, and two in one pass have no effect one
does not have, as each one ends the pass or the item. In the pipeline one dataset
ends in a short batch, one in a full one, and one has nothing valid and ends in a
short batch, so that it is read again for ever; without faults the target is crossed
in the middle of a cycle, and faults that drop datasets give the other ways out of
the loop. In the validator three invocations are the least for "scratch, killed,
resumed". In `trees` two batches of one data set give two files of it, the third a
second data set whose file has the same number; two rows are the least for a batch
whose second row is of another format. In `llm_session` three traces are the least
for a question repeated within an agent and across agents, and one fault falls on
every question in turn. In `tracing` two providers are what it takes to find an old
one behind a call while a new one is current, and the third processor is the one
that is turned away meanwhile; two inner spans give nodes beside each other and a
block within a block. A behaviour has one call, a graph or a function: calls share
nothing but the provider, and what other calls could do to it the configuring
threads do. In `read_models` four writes are two runs with two anomalies, or three
with one: enough for a group to rise over a page boundary already read, or for a run
to move to another group and for an anomaly to bear its former agent's name; worker,
command and client share only tables they read (each process inserts rows of its
own), so each is explored without the others. In `web_page` four requests are two
changes of filter with a retry of each. Every safety property of the passing runs is
also proved without bounds (section 4).

**Fairness.** The worker's specification assumes weak fairness of its own steps: the
event loop runs a ready task, and its calls return; those to Jaeger have a timeout,
for those to the database it is an assumption. `run` survives every exception of a
cycle. That a worker which stopped is started again is not assumed
(`docker-compose.yml` has no restart policy): it is the premise of
`EventuallySummarised`, which says what holds if somebody does. Nothing is assumed
about agents, commands and faults. `FetchLimit` is not below the number of traces in
the liveness run: Jaeger returns the newest traces first, and above the limit older
ones may indeed never be returned. The pipeline assumes nothing: `next` on a stream
has no timeout (`downloader.py:173`), and that streams answer is the premise of
`Terminates`; nobody has to start an invocation. The validator has no liveness
property: its loop is over a finite list. `PassesEnd` needs no fairness beyond the
worker's. A session with the language model goes on because one task awaits one call
at a time and a call ends by its timeout (`llm_client.py:151`). The worker's
materializers run at the end of every cycle because the loop of `run` survives
whatever a cycle raises, as long as the worker is up, which is the premise of
`RollupsConverge`; nothing is assumed of the command and of those who store and
read, and the number of writes is bounded, so that "come to agree" is said of tables
that have come to rest. In `web_page` React runs the effects it has scheduled, and a
request ends with an answer or an error: `fetch` has no timeout of its own
(`client.ts:116`), so this rests on the browser, which gives up a connection that is
gone; the operator may do nothing. In `tracing` a node run that has begun ends, with
a result or an error, and so do blocks and calls: that is up to the agent's code,
and the property is about what the SDK does with it. No end event is assumed after
an error.

**Mutants.** Each property of a passing run has a faulty variant of one
definition, written before the original in the same module and named after the
mistake (`TakeUnchecked`, `SkipByTrace`, `FinishUnsaved`, ...). With it in
place, TLC must find that property violated.

## 4. What is proved

Type correctness and every safety property the passing runs check, the safety half
of the refinement included, for all values of the constants: any traces, services,
detectors, number of commands, faults, kills, invocations, any data sets, corpora
and forests, any length of a trace, any calls and inner spans, any texts and
answers, any pages and writes, any filters and requests.

| Module of proofs | is about |
|---|---|
| `AnalyticsWorkerProofs` | `AnalyticsWorker`, and that it implements `Processing` |
| `TracePipelineProofs` | `TracePipeline` |
| `ValidationProofs` | `Validator` and `TraceTrees` |
| `LLMSessionProofs` | `LLMSession` |
| `ToolDetectorsProofs` | `ToolDetectors` |
| `TracingProofs` | `Tracing` |
| `ReadModelsProofs` | `ReadModels` and `WebPage` |
| `Sums` | no component: least members, induction over the natural numbers and over finite sets, and sums over finite sets, for the others to cite |

*Worker.* The inductive invariant `IInv` is `TypeOK` with five parts.
`ItemInv`: a process in the middle of a pass has an item, and what it is about to
alert on is stored. `KeyInv`: a row of `run_summaries` is stored under the run id
of its snapshot. `PassInv`: of a clean pass, what is still to be stored and what
is stored already cover what the detectors report; an item whose pass was not
clean is harmed or stored already. This is what `NoSilentLoss` needs to survive
the end of a pass. `ForeignKeyHolds` and `AlertsFollowRows` are inductive beside
these.
Each action has its step lemma; the actions that only move a process
are treated together. The theorems are `TypeCorrect`, `ForeignKeyCorrect`,
`NoSilentLossCorrect` and `AlertsCorrect`. For the worker without commands
(`CliProcs = {}`), `SoleInv` adds that the item in hand has no other row, whence
`OneAnomalyPerTypeCorrect` and `RowsWrittenOnceCorrect` (a stored summary is never
replaced).

*Refinement.* `ProcessesEachRunOnceCorrect`: a worker without commands implements
the safety part of `Processing`. Each step of the worker is one of four kinds, and
each kind has its lemma. `Unseen`: nothing that `Processing` sees changes while
the worker stays with its run or without one. `Records`: the summary is stored,
and no other run is being worked on. `Stores`: an anomaly is stored for the run in
hand, of a type it did not have, by `SoleInv`. `Leaves`: the worker turns away from
its run; `NoSilentLoss` says that the run is harmed or complete, which is the
difference between `Cut` and `Finish`, and `KeyInv` that no other run changes its
phase with it. The fairness part is beyond the proof system and model-checked.

*Pipeline.* `NoRowSkipped` and `CountedIsStored` are inductive with three more
facts. `InHand`: the batch about to be written came from the data set whose turn it
is. `SavesExist`: the files an invocation has counted are the first of those on
disk. `FailedHasNoTurn`: a data set that failed is in none of the lists of the
cycle, which holds because each list has it once and `list.remove` takes that one
(`RemoveOne`). `ReadThrough` is `NoRowSkipped` and a part of `FailedHasNoTurn`.
`ShortOnlyWhenAllRead` adds `ReadInv`: a data set that is no longer scheduled failed
or was read to its end, and below the target a cycle without progress has dropped
every data set that had its turn, so that nothing is left when the loop ends for
want of progress. Theorems: `TypeCorrect`, `CountedIsStoredCorrect`,
`ReadThroughCorrect`, `ShortOnlyWhenAllReadCorrect`.

*Validator.* `KeysInv` says that completed keys and keys in the file, broken or not,
have been examined, and that a key which is not safe from another examination (not
in memory during a run, not in a readable file between runs) has been examined once
less than the bound. `RunInv` says that the traces behind a run are completed, and
ties the report and the file to the end of the run. `RowsInv` follows the run from
trace to trace: those behind it come first, each was counted, and a run without
`--resume` has completed just their keys and examined the first trace of each. Of
`CountersBracketReports` the severities are the easy half, as nothing lowers them;
for the types the lemma `CountedBound` is about the correction of the counters: the
list became shorter by a type that only rule-based detectors report, so at most one
is taken back, and never more than was added. Theorems: `TypeCorrect`,
`HonestCorrect`, `CompleteCorrect`, `ExaminedAgainCorrect`,
`CountersBracketCorrect`.

*Trace trees.* Assumed of a corpus is what the parsers give: every item has an id,
and the parent of a run comes before it. The argument has four parts.

1. A walk. `Walking` is kept from round to round of `Walk`: what was seen and what is
   to be done are different spans, and together the roots and the children of what
   was seen. So `WalkIs`: a walk has no span twice, and has exactly the spans that
   the roots lead to. A span that is left out has a parent that is left out, and a
   finite forest has a cycle above it (`LeadsToCycle`).
2. A conversion. `ConvertIs`: the spans of a forest are the items of its row, after
   a root or not, in every format, and parents come first but in a list of spans,
   the one format in which there can be a cycle. A forest that `validate_spans` lets
   pass has a root and no id twice (`IsTree`).
3. A file. `Blocks` and `FlattenIs`: the rows of a file are blocks, one for a trace,
   in the order of the walks. `TracesAre`: grouping them by trace id and linking them
   by span id gives back the forests, because ids within a block differ and traces
   of one id end in one block. With `DownloadInv` (each file holds the rows of what
   was converted, and a batch has one file at most) this is `RoundTrip` and
   `OnlyCyclesAreLost`.
4. A diagnosis. `AddUp`: as long as no file was finished after the count, what was
   read, what waits in the queue and what the files still listed hold make the count;
   afterwards they make no less. `QueueIs`: a trace in the queue is the forest that
   the converter made for a row of a file already read (by `TracesAre`), and no trace
   is there twice or was examined before; `SeenIs` says of the examined ones what
   keeps this true when the next file is read. `Agree` is then
   `ReportTellsWhatWasConverted` at every moment, for the traces examined so far.
   It needs that the two computations of the fields, each put together in its own way
   from the spans and the summary, give the same on a forest, and that sums and
   cardinalities grow by one with a trace that is new, the `Sum...` lemmas of `Sums`.

Theorems: `TreesTypeCorrect`, `RoundTripCorrect`, `OnlyCyclesCorrect`,
`CountCorrect`, `ReportCorrect`.

*Tool detectors.* The invariant follows a loop through the trace. `SuffixInv`:
every streak that ends at the last call seen has the remembered key and is no
longer than `current`. `LastInv`: a remembered key stands for a streak of exactly
that length. `LongestInv`: no streak seen so far is longer than the maximum, and
one of that length was seen. At the end the maximum therefore decides whether
there is a streak of a given length (`LongestDecides`), and `ReportInv` keeps the
verdicts of the detectors that have run. `LongestInv` speaks of streaks of two
and more, since a first call never updates the maximum: thresholds of at least
two are an assumption. `SaysInv` keeps of each other verdict what it says about the
calls; `VerdictsAgree` compares these. A long streak of one tool repeats it in every
window, so that it is a pattern; if every tool failed less often than the specific
threshold, so did all calls together, because counts of calls and of failures are
sums over the tools. Theorems: `TypeCorrect`, `StreaksCorrect`, `RedundantCorrect`,
`VerdictsCorrect`.

*Tracing.* The invariant adds to the properties what ties a call to its spans.
`CallInv`: nothing is started before the root, the root is open while the call
runs, graphs have no blocks and functions track no nodes. `NodeInv`: a node that
has not begun has no span, any other has the handler's provider. `StackInv`: a
block is in the stack once, so that leaving it leaves no ended span behind.
`ExportedInv`: only started spans are exported. `ProviderInv`: a processor that is on
its way to the lock, or was refused there, is nobody's provider, the current one's or a
call's. `OneProviderUp` is what makes a
helper that asks for the tracer again find the provider of the call
(`UpIsCurrent`), `RunsAreWhole` what makes it start in the root's trace
(`RunningContext`). `StartKeeps` and `EndKeeps` are about any span that is started
or ended; the lemmas of the actions cite them. A second invariant, `HeldInv`, rests on
the first: an open span that is not lost is held by somebody who will end it, the
handler while its node runs, the stack while the function does, or the call itself;
this gives `OnlyTheLostStayOpen`. Theorems: `TypeCorrect`,
`OneProviderCorrect`, `EndedOnceCorrect`, `NodesBelongCorrect`,
`RunsAreWholeCorrect`, `OnlyTheLostStayOpenCorrect`.

*Language model.* A prompt that got an answer is in the cache from the step in which
it got it, because the answer is kept before anything that can fail (`GivenInv`: the
answers given are those in the cache), and an answer in the cache is never replaced,
because a cached prompt is not asked. `PlaceInv`: while a detector asks, the
client's context is its trace and itself, and its attempt is logged; `VerdictsInv`:
a verdict ends its detector. Together they give `Attributed`. `VectorsInv` and
`BaselineInv`: a trace gives one vector, and the baseline of an agent is that of its
first, whence `DriftIsAgainstTheFirst`. `AccountsBalance` is kept step by step; the
answers and vectors in the caches are counted, which needs that they are finitely
many (`CachesAreFinite`). Theorems: `TypeCorrect`, `SamePromptSameAnswerCorrect`,
`AccountsBalanceCorrect`, `AttributedCorrect`, `DriftIsAgainstTheFirstCorrect`.

*Read models.* `CountInv`: a row that is not counted yet is held to no more than a
count would find. It is kept because anomalies are never removed and never change
their agent's name, and a run that moves to another group takes its anomalies out of
what the rows in hand are held to; the queries agree with the grouping whatever is
NULL. `PagesInv`: between two pages a client has read exactly what stands before the
offset. `PageContents` says what a page holds, at its end too. Where an item stands in
a list is at least the number of those the order puts before it wherever ties go:
`Newer` for an anomaly, `Ahead` for a group. In the inbox that number only grows,
because what is stored is never removed (`InboxInv`). In the fleet it only grows unless
the group itself rises or a run leaves its group, which may make another group vanish
or fall (`FleetInv`). So an item the client has still to see has at least as many
before it as the client has read, or it is one of the exceptions. Theorems:
`TypeCorrect`, `NeverUndercountsCorrect`, `ReadersMissNothingCorrect`,
`FleetWalkCorrect`.

*Web page.* `TypeOK` contains what makes the cleanup enough: of the requests that
are not cancelled, at most one has its cleanup kept. The invariant adds that a
request which is not cancelled is for the page's filters, or its cleanup was lost
in a retry, or the effect is about to cancel it. Theorems: `TypeCorrect`,
`StaleOnlyByRetryCorrect`, `LoadingIsAwaitedCorrect` (a page that loads waits for a
request it has not cancelled: the safety half of `LoadingEnds`).

The assumptions are those the modules state of their constants; the runs evaluate
them.

Only model-checked: the liveness properties (`EventuallySummarised`, `PassesEnd`,
`Terminates`, `EverySpanEnds`, `RollupsConverge`, `LoadingEnds`,
`EndsWhateverTheModelAnswers`), because the proof system knows neither fairness nor
`ENABLED`; and the two counterexamples of section 3, which are runs by nature.

Theorems of induction that take a predicate as a parameter cannot be instantiated
here. `NaturalInduction` and `FiniteInduction` in `Sums` say the same of the set of
the numbers, or of the subsets, that have the property, and are enough for the recursive
functions of the model (`Walk`, `Flatten`) and for sums. Library operators whose
definitions the provers cannot use (recursive ones, `SelectSeq`
with an operator argument, `SetToSortSeq`, `@@`) are not used outside the `MC` modules.

## 5. Disagreements that need no run

Seen while modelling, with the models' help where noted. Each is a place where the
code does something other than its text, or than one would expect.

*Worker and commands.* `models.py:137` gives an anomaly a fresh uuid, and
`ON CONFLICT (id)` therefore never applies: reprocessing a stored run stores its
anomalies a second time, although `ingest.py:17-19` says that re-processing is
idempotent and `rebuild` may re-ingest everything. A worker that stops between the
summary (`worker.py:184`) and the anomalies leaves a run that counts as processed
and is never detected on again; this is `Cut` in `Processing`. The older snapshot
of the worker may overwrite the summary a command has stored meanwhile
(`worker.py:179-184`). A run that has a row is never looked at again by the worker
(`worker.py:176-181`): a trace without a run id of its own that is polled while its
root span is missing, and every further trace of a run, leave the run with the summary
and the anomalies of what was seen first. The second half of `EventuallySummarised`
says when this does not happen.

*Ingestion.* The comment at `ingest.py:288` says that spans without a start time
sort last; `datetime.min` sorts them first.

*Download.* A dataset whose last batch is short is dropped from the open streams
(`downloader.py:174-176`) but not from the schedule, so it is opened again and its
rows are stored twice; if none of its rows is valid, the cycle repeats for ever,
although `pipeline.py:114-115` says that it goes on until datasets are exhausted.
`Terminates` says that this (`OnlyBarrenLeft`) is the one way not to end, and the
run's instance reaches it. `validation_errors` is a list in a class body
(`pipeline.py:159`) and thus one list for all data sets.

*Conversion and diagnosis.* A converter with numeric parent ids finds no parent
(`converter.py:518-527`): every span becomes a root. The test for cycles in
`validate_spans` compares ids along a path from a root, where it finds only ids that
are there twice, an error of its own; spans on a cycle are reached from no root and
vanish. The diagnosis adds up under the stem of the file (`validator.py:480`), so
`<dataset>/traces-1.parquet` of all data sets is one "data set";
`test_validator_gaps.py:617` asserts the number of data sets over files that happen
to have different stems. `_load_traces_fast` breaks only its inner loop when it has
enough, and the sample takes every tenth trace only if there are more traces than
the sample (`validator.py:189-193`).

*Validation.* When the loop family is deduplicated, both `pattern_loop` and
`step_efficiency` are taken off the counters if the trace does not have them
(`validator.py:315-318`): the anomaly of another trace is taken back, which is why
`CountersBracketReports` is no equality. `severity_counter` (`validator.py:248`, `304`)
is raised with the others and not corrected at all, so that the report's
`anomaly_by_severity` counts anomalies that the deduplication dropped. A second trace
with the trace id and run id of another is not examined, though it may differ, and
counts as processed (`validator.py:219-223`). `traces_skipped_resume` is the
difference of completed keys and processed traces (`validator.py:385`), two counts
of different things. After `--resume` the counters start at zero while the rates
divide by all traces on disk (`validator.py:206`). A trace skipped on resume counts
towards `processed` (`validator.py:222`), but the progress is saved only after one
that was examined (`validator.py:329-330`): a multiple of the interval that falls on a
skipped trace passes the save over, although `main.py:128` says that progress is saved
every N traces. `llm_responses.json` has each
response six times, once for each detector that shares the client
(`validator.py:426-441`).

*Detectors.* With a window of 4 the pattern loop detector never finds the cycle of
three tools that `user-guide.md:702` gives as the example, however often it repeats
(`tool.py:199`). The allowlist of polled tools
that `user-guide.md:706` tells the operator to extend is a constructor argument no
setting supplies (`tool.py:95`). A share of exactly two thirds is below the
multiplier 2 in floating point (`cost.py:503`); the operator states the rounded
outcome.

*Language model.* `QualityDegradationDetector` compares the first output with
itself unless a baseline attribute is set. `SemanticLoopDetector` looks at three
pairs at most. `EmbeddingDriftDetector` speaks of a baseline centroid
(`llm.py:125`), which is the first vector of the session and lost on resume.
`embed` reads its cache whatever `no_cache` says (`llm_client.py:338`).

*Read models.* A second summary of a run overwrites its agent, version and workload
(`ingest.py:484-486`), while its anomalies keep the name they were detected under:
the materializer counts them by that name (`materializer.py:135`), the API by the
run, so the two never meet for such a run; `NeverUndercounts` and `RollupsConverge`
exempt it. A group that no run belongs to any more keeps its last row in
`fleet_rollups`. The inbox is ordered by `detected_at` alone (`queries.py:322`), and
anomalies of one time may change places between two pages, so that one is read twice
and one not at all. A walk through the fleet may skip a group when a run moved
meanwhile. For a group without a version or workload the materializer counts the
anomalies of all versions and workloads (`materializer.py:127-151`), the API none or
those without a workload (`queries.py:230-234`). Each cycle stamps its rollups with
a new period, so `fleet_rollups` grows by a row for each group in each cycle
(`materializer.py:80`). The API's pool (`db.py:32`) may be created twice by two
first requests; the lifespan handler creates it before.

*Web page.* `refetch` returns the cleanup that `execute` returns, and no caller
keeps it (`useAsync.ts:89`, `ui.tsx:294`): the answer to a retried request replaces
what the page shows for later filters. `StaleOnlyByRetry` says that nothing else
does.

*SDK.* The operation name that a caller's attribute of the same name replaces
(`spans.py:131-133`; the comment there and the docstring say it cannot). A value
whose `__str__` raises, an input that is no mapping or a redaction that raises
leaves a span open for ever (`langgraph.py:209`, `250`, `278-281`; `spans.py:239`,
`244`, `337`): the `lost` spans of `Tracing`. `configure_otlp_tracing` starts a
batch processor whose thread goes on when there is a provider already
(`tracer.py:210-214`), although `reset_tracing` says that the process does not leak
such threads (`tracer.py:256-257`); `OneProviderUp` says which do. A negative
`truncate_at` slices from the end (`redact.py:242`).

## 6. Plan

Done, each a module with its configuration, properties, mutants and proofs:
`AnalyticsWorker`, `Processing` with the refinement, `TracePipeline`, `TraceTrees`,
`Validator`, `LLMSession`, `ToolDetectors`, `Tracing`, `ReadModels` and `WebPage`.

To do, in this order:

1. Action properties: what a step of the validator and of the pipeline may never take
   back, as `RowsWrittenOnce` says of the worker.
2. Abstract specifications beside `Processing`: a trace is a tree of ended spans under
   one root, implemented by the runs of a provider that stays up (`Tracing`); a cache
   that answers once, implemented by `LLMSession`.
3. Helpers inside the nodes of a graph in `Tracing`.
4. The retry, runtime, interaction, output and baseline detectors, over the forests
   of `TraceTrees`.
5. The comparison of two runs and the filters of the API.

## 7. What is not modelled, and why

The demo agent, the scripts and the deployment hold no state that several actors
change. Redaction is a function of one string. The remaining detectors compare
sums of one trace with thresholds and carry nothing from span to span. The pools of
`db.py` are created by one task per process. The pages of the web interface lay out
what they fetch. Contents (durations, costs, tokens, texts) appear where a property
depends on them, otherwise not.
