--------------------------- MODULE AnalyticsWorker ---------------------------
(***************************************************************************)
(* The analytics service: the polling worker (worker.py), the reprocessing *)
(* commands of its CLI, which run as processes of their own, the Jaeger    *)
(* query API both read from and the Postgres tables both write to          *)
(* (ingest.py).                                                            *)
(*                                                                         *)
(* A process is a single asyncio task, so the steps below are the stretches*)
(* between two awaits: each one performs the database or HTTP call it ends *)
(* with and what follows it up to the next await.  A run of the agent is   *)
(* known by its run id; a trace is fetched as a snapshot, whose stage says *)
(* whether Jaeger already had the root span (the last one to be exported). *)
(***************************************************************************)
EXTENDS Naturals, FiniteSets

CONSTANTS
  Traces,      \* trace ids
  RunAttr,     \* trace -> the gen_ai.agent.run.id carried by its root span
               \* (the trace id itself when the instrumentation sets none)
  Services,    \* Jaeger service names
  ServicesOf,  \* trace -> the services its spans belong to
  Configured,  \* settings.trace_query_services, "*" left out
  Wildcard,    \* settings.trace_query_services contains "*"
  FetchLimit,  \* settings.trace_fetch_limit
  Types,       \* anomaly types
  Hits,        \* [trace, stage] -> types the trace-only detectors report
  Flaky,       \* types of the detectors that need the database or an LLM
  Cluster,     \* the type of AnomalyClusterDetector
  ClusterMin,  \* settings.detector_anomaly_cluster_min_types
  Poller,      \* the worker process
  CliProcs,    \* processes of the reprocess and rebuild commands
  None,        \* no row, no item
  MaxFaults,   \* bound: failed calls and crashes in a behaviour
  MaxCliRuns   \* bound: reprocess and rebuild commands in a behaviour

Stages    == {"partial", "complete"}
Snapshots == [trace : Traces, stage : Stages]
Runs      == Traces \cup {RunAttr[t] : t \in Traces}
Procs     == {Poller} \cup CliProcs
Jobs      == {"poll", "reprocess", "rebuild", "range"}

ASSUME ConstAssumption ==
  /\ RunAttr \in [Traces -> Runs]
  /\ ServicesOf \in [Traces -> SUBSET Services]
  /\ Configured \subseteq Services
  /\ Wildcard \in BOOLEAN
  /\ Hits \in [Snapshots -> SUBSET Types]
  /\ Flaky \subseteq Types
  /\ Cluster \in Types
  /\ Poller \notin CliProcs
  /\ None \notin Snapshots \cup Types
  /\ {FetchLimit, ClusterMin, MaxFaults, MaxCliRuns} \subseteq Nat

VARIABLES
  jaeger,      \* what Jaeger holds of each trace
  summaries,   \* table run_summaries, keyed by run id: the snapshot summarised
  anomalies,   \* table anomalies: the id is the pass and the type
  alerts,      \* anomaly rows whose webhook call was attempted
  nextPass,    \* the next detection pass; stands for the fresh uuid4 ids
  pc, job,     \* where each process is, and which command it runs
  svcs,        \* services still to fetch in this cycle
  batch,       \* snapshots fetched by the poller and not yet looked at
  replay,      \* trace ids a command has still to reprocess
  item,        \* the snapshot being processed
  pass,        \* the detection pass of the item
  found,       \* types detected on the item and not yet persisted
  alerting,    \* the type just persisted, whose alert is next
  processed,   \* metrics: processed_run_count of the process
  cliRuns,     \* commands started
  faults,      \* failed calls and crashes so far
  clean,       \* history: no anomaly of the current pass was dropped
  harmed       \* history: snapshots whose detection pass was cut short by a
               \* fault, and that no undisturbed pass has processed since

store    == <<summaries, anomalies, alerts>>
locals   == <<item, pass, found, alerting, clean>>
queues   == <<svcs, batch, replay>>
bounds   == <<cliRuns, faults>>
vars     == <<jaeger, store, nextPass, pc, job, queues, locals, processed,
              bounds, harmed>>

-----------------------------------------------------------------------------
(* Reading the trace and the tables.                                       *)

\* run_id is the root span's attribute or, when root_spans[0] does not carry
\* it, the trace id: a snapshot taken before the root span was exported has an
\* orphaned child as its root.
RunIdOf(s) == IF s.stage = "complete" THEN RunAttr[s.trace] ELSE s.trace

Snapshot(t) == [trace |-> t, stage |-> jaeger[t]]

Visible(s) == {t \in Traces : s \in ServicesOf[t] /\ jaeger[t] \in Stages}

\* is_run_processed: the run has a row in run_summaries.
IsRunProcessed(r) == summaries[r] # None

\* SELECT DISTINCT anomaly_type FROM anomalies WHERE run_id = r.
StoredTypes(r) == {a.type : a \in {b \in anomalies : b.run = r}}

Working(p) == pc[p] \in {"detect", "anomaly", "alert"}

TypeOK ==
  /\ jaeger \in [Traces -> Stages \cup {"absent", "gone"}]
  /\ summaries \in [Runs -> Snapshots \cup {None}]
  /\ anomalies \subseteq [pass : Nat, run : Runs, type : Types]
  /\ alerts \subseteq [pass : Nat, run : Runs, type : Types]
  /\ nextPass \in Nat
  /\ pc \in [Procs -> {"off", "sleep", "loop", "persist", "detect",
                       "anomaly", "alert"}]
  /\ job \in [Procs -> Jobs]
  /\ svcs \in [Procs -> SUBSET Services]
  /\ batch \in [Procs -> SUBSET Snapshots]
  /\ replay \in [Procs -> SUBSET Traces]
  /\ item \in [Procs -> Snapshots \cup {None}]
  /\ pass \in [Procs -> Nat]
  /\ found \in [Procs -> SUBSET Types]
  /\ alerting \in [Procs -> Types \cup {None}]
  /\ processed \in [Procs -> Nat]
  /\ cliRuns \in Nat
  /\ faults \in Nat
  /\ clean \in [Procs -> BOOLEAN]
  /\ harmed \subseteq Snapshots

Init ==
  /\ jaeger = [t \in Traces |-> "absent"]
  /\ summaries = [r \in Runs |-> None]
  /\ anomalies = {}
  /\ alerts = {}
  /\ nextPass = 0
  /\ pc = [p \in Procs |-> "off"]
  /\ job = [p \in Procs |-> IF p = Poller THEN "poll" ELSE "reprocess"]
  /\ svcs = [p \in Procs |-> {}]
  /\ batch = [p \in Procs |-> {}]
  /\ replay = [p \in Procs |-> {}]
  /\ item = [p \in Procs |-> None]
  /\ pass = [p \in Procs |-> 0]
  /\ found = [p \in Procs |-> {}]
  /\ alerting = [p \in Procs |-> None]
  /\ processed = [p \in Procs |-> 0]
  /\ cliRuns = 0
  /\ faults = 0
  /\ clean = [p \in Procs |-> TRUE]
  /\ harmed = {}

-----------------------------------------------------------------------------
(* Jaeger.  Spans are exported when they end, the root span last; the      *)
(* all-in-one deployment keeps them in memory and may lose them.           *)

Export(t, stage) ==
  /\ \/ jaeger[t] = "absent"
     \/ (jaeger[t] = "partial" /\ stage = "complete")
  /\ jaeger' = [jaeger EXCEPT ![t] = stage]
  /\ UNCHANGED <<store, nextPass, pc, job, queues, locals, processed, bounds,
                 harmed>>

Evict(t) ==
  /\ jaeger[t] = "complete"
  /\ faults < MaxFaults
  /\ faults' = faults + 1
  /\ jaeger' = [jaeger EXCEPT ![t] = "gone"]
  /\ UNCHANGED <<store, nextPass, pc, job, queues, locals, processed, cliRuns,
                 harmed>>

-----------------------------------------------------------------------------
(* The polling loop.                                                       *)

Goto(p, label) == pc' = [pc EXCEPT ![p] = label]

\* Forget the item: its stack frame is left.
DropItem(p) ==
  /\ item' = [item EXCEPT ![p] = None]
  /\ pass' = [pass EXCEPT ![p] = 0]
  /\ found' = [found EXCEPT ![p] = {}]
  /\ alerting' = [alerting EXCEPT ![p] = None]
  /\ clean' = [clean EXCEPT ![p] = TRUE]

\* run-worker: pool, schema, a fresh AnalyticsWorker.
StartWorker ==
  /\ pc[Poller] = "off"
  /\ Goto(Poller, "sleep")
  /\ UNCHANGED <<jaeger, store, nextPass, job, queues, locals, processed,
                 bounds, harmed>>

\* The cycle wakes up and settles the services to poll.  With "*" they are
\* those Jaeger lists; list_services answers [] when the call fails.
StartCycle ==
  /\ pc[Poller] = "sleep"
  /\ svcs' = [svcs EXCEPT ![Poller] =
                 IF Wildcard THEN {s \in Services : Visible(s) # {}}
                             ELSE Configured]
  /\ Goto(Poller, "loop")
  /\ UNCHANGED <<jaeger, store, nextPass, job, batch, replay, locals,
                 processed, bounds, harmed>>

ListServicesFails ==
  /\ pc[Poller] = "sleep"
  /\ Wildcard
  /\ faults < MaxFaults
  /\ faults' = faults + 1
  /\ svcs' = [svcs EXCEPT ![Poller] = {}]
  /\ Goto(Poller, "loop")
  /\ UNCHANGED <<jaeger, store, nextPass, job, batch, replay, locals,
                 processed, cliRuns, harmed>>

\* fetch_traces_by_service: at most FetchLimit of the service's traces.
FetchService(s, chosen) ==
  /\ pc[Poller] = "loop"
  /\ batch[Poller] = {}
  /\ s \in svcs[Poller]
  /\ chosen \subseteq Visible(s)
  /\ chosen = Visible(s) \/ Cardinality(chosen) = FetchLimit
  /\ batch' = [batch EXCEPT ![Poller] = {Snapshot(t) : t \in chosen}]
  /\ svcs' = [svcs EXCEPT ![Poller] = @ \ {s}]
  /\ UNCHANGED <<jaeger, store, nextPass, pc, job, replay, locals, processed,
                 bounds, harmed>>

\* Faulty variants: deduplication by trace id, and none at all.
SkipByTrace(x) ==
  /\ pc[Poller] = "loop"
  /\ x \in batch[Poller]
  /\ \/ IsRunProcessed(RunIdOf(x))
     \/ \E r \in Runs : summaries[r] # None /\ summaries[r].trace = x.trace
  /\ batch' = [batch EXCEPT ![Poller] = @ \ {x}]
  /\ UNCHANGED <<jaeger, store, nextPass, pc, job, svcs, replay, locals,
                 processed, bounds, harmed>>

TakeUnchecked(x) ==
  /\ pc[Poller] = "loop"
  /\ x \in batch[Poller]
  /\ batch' = [batch EXCEPT ![Poller] = @ \ {x}]
  /\ item' = [item EXCEPT ![Poller] = x]
  /\ Goto(Poller, "persist")
  /\ UNCHANGED <<jaeger, store, nextPass, job, svcs, replay, pass, found,
                 alerting, clean, processed, bounds, harmed>>

\* Deduplication: the run has a row already.
SkipDuplicate(x) ==
  /\ pc[Poller] = "loop"
  /\ x \in batch[Poller]
  /\ IsRunProcessed(RunIdOf(x))
  /\ batch' = [batch EXCEPT ![Poller] = @ \ {x}]
  /\ UNCHANGED <<jaeger, store, nextPass, pc, job, svcs, replay, locals,
                 processed, bounds, harmed>>

TakeNew(x) ==
  /\ pc[Poller] = "loop"
  /\ x \in batch[Poller]
  /\ ~IsRunProcessed(RunIdOf(x))
  /\ batch' = [batch EXCEPT ![Poller] = @ \ {x}]
  /\ item' = [item EXCEPT ![Poller] = x]
  /\ Goto(Poller, "persist")
  /\ UNCHANGED <<jaeger, store, nextPass, job, svcs, replay, pass, found,
                 alerting, clean, processed, bounds, harmed>>

\* All services done: both materializers, then the sleep.  An exception of
\* theirs ends in the same place, run()'s handler and the sleep.
Materialize ==
  /\ pc[Poller] = "loop"
  /\ batch[Poller] = {}
  /\ svcs[Poller] = {}
  /\ Goto(Poller, "sleep")
  /\ UNCHANGED <<jaeger, store, nextPass, job, queues, locals, processed,
                 bounds, harmed>>

-----------------------------------------------------------------------------
(* The commands of the CLI.                                                *)

StartCommand(c, kind) ==
  /\ pc[c] = "off"
  /\ cliRuns < MaxCliRuns
  /\ cliRuns' = cliRuns + 1
  /\ job' = [job EXCEPT ![c] = kind]
  /\ Goto(c, "loop")
  /\ UNCHANGED <<jaeger, store, nextPass, batch, locals, processed, faults,
                 harmed>>

\* reprocess --trace-id t
StartReprocess(c, t) ==
  /\ StartCommand(c, "reprocess")
  /\ replay' = [replay EXCEPT ![c] = {t}]
  /\ UNCHANGED svcs

\* rebuild: SELECT DISTINCT trace_id FROM run_summaries
StartRebuild(c) ==
  /\ StartCommand(c, "rebuild")
  /\ replay' = [replay EXCEPT ![c] =
                  {s.trace : s \in {summaries[r] : r \in Runs} \ {None}}]
  /\ UNCHANGED svcs

\* reprocess --start --end: the configured services, "*" taken as a name that
\* no service has.
StartRange(c) ==
  /\ StartCommand(c, "range")
  /\ svcs' = [svcs EXCEPT ![c] = Configured]
  /\ UNCHANGED replay

FetchRange(c, s) ==
  /\ pc[c] = "loop"
  /\ replay[c] = {}
  /\ s \in svcs[c]
  /\ replay' = [replay EXCEPT ![c] = Visible(s)]
  /\ svcs' = [svcs EXCEPT ![c] = @ \ {s}]
  /\ UNCHANGED <<jaeger, store, nextPass, pc, job, batch, locals, processed,
                 bounds, harmed>>

\* process_trace: fetch_trace_by_id, and no look at what was processed before.
Refetch(c, t) ==
  /\ pc[c] = "loop"
  /\ t \in replay[c]
  /\ replay' = [replay EXCEPT ![c] = @ \ {t}]
  /\ \/ /\ jaeger[t] \in Stages
        /\ item' = [item EXCEPT ![c] = Snapshot(t)]
        /\ Goto(c, "persist")
     \/ /\ jaeger[t] \notin Stages
        /\ UNCHANGED <<item, pc>>
  /\ UNCHANGED <<jaeger, store, nextPass, job, svcs, batch, pass, found,
                 alerting, clean, processed, bounds, harmed>>

EndCommand(c) ==
  /\ pc[c] = "loop"
  /\ replay[c] = {}
  /\ svcs[c] = {}
  /\ Goto(c, "off")
  /\ processed' = [processed EXCEPT ![c] = 0]
  /\ UNCHANGED <<jaeger, store, nextPass, job, queues, locals, bounds, harmed>>

-----------------------------------------------------------------------------
(* What the loop and the commands share: persist, detect, alert.           *)

\* Faulty variant of Upsert: the row is keyed by trace id.
UpsertByTrace(p) == summaries' = [summaries EXCEPT ![item[p].trace] = item[p]]

\* INSERT ... ON CONFLICT (run_id) DO UPDATE
Upsert(p) == summaries' = [summaries EXCEPT ![RunIdOf(item[p])] = item[p]]

PersistSummary(p) ==
  /\ pc[p] = "persist"
  /\ Upsert(p)
  /\ processed' = IF job[p] = "poll"
                  THEN [processed EXCEPT ![p] = @ + 1] ELSE processed
  /\ Goto(p, "detect")
  /\ UNCHANGED <<jaeger, anomalies, alerts, nextPass, job, queues, locals,
                 bounds, harmed>>

\* Every detector runs, each in its own try: what the trace alone decides is
\* always reported, the others depend on a database or an LLM that may fail.
\* AnomalyClusterDetector counts the types stored by now.
Detect(p, flaky) ==
  LET x == item[p]
      cluster == IF Cardinality(StoredTypes(RunIdOf(x))) >= ClusterMin
                 THEN {Cluster} ELSE {}
  IN /\ pc[p] = "detect"
     /\ flaky \subseteq Flaky
     /\ found' = [found EXCEPT ![p] = Hits[x] \cup flaky \cup cluster]
     /\ pass' = [pass EXCEPT ![p] = nextPass]
     /\ nextPass' = nextPass + 1
     /\ Goto(p, "anomaly")
     /\ UNCHANGED <<jaeger, store, job, queues, item, alerting, clean,
                    processed, bounds, harmed>>

Row(p, ty) == [pass |-> pass[p], run |-> RunIdOf(item[p]), type |-> ty]

\* INSERT ... ON CONFLICT (id) DO NOTHING; the run must exist (foreign key).
PersistAnomaly(p, ty) ==
  /\ pc[p] = "anomaly"
  /\ ty \in found[p]
  /\ IsRunProcessed(RunIdOf(item[p]))
  /\ anomalies' = anomalies \cup {Row(p, ty)}
  /\ found' = [found EXCEPT ![p] = @ \ {ty}]
  /\ alerting' = [alerting EXCEPT ![p] = ty]
  /\ Goto(p, "alert")
  /\ UNCHANGED <<jaeger, summaries, alerts, nextPass, job, queues, item, pass,
                 clean, processed, bounds, harmed>>

\* Faulty variant of SendAlert: a failed webhook call ends the anomaly loop.
AlertEndsLoop(p) ==
  /\ pc[p] = "alert"
  /\ alerts' = alerts \cup {Row(p, alerting[p])}
  /\ alerting' = [alerting EXCEPT ![p] = None]
  /\ found' \in {found, [found EXCEPT ![p] = {}]}
  /\ Goto(p, "anomaly")
  /\ UNCHANGED <<jaeger, summaries, anomalies, nextPass, job, queues, item,
                 pass, clean, processed, bounds, harmed>>

\* Faulty variant of SendAlert: a failed webhook call puts the anomaly back.
AlertAgain(p) ==
  /\ pc[p] = "alert"
  /\ alerts' = alerts \cup {Row(p, alerting[p])}
  /\ found' \in {found, [found EXCEPT ![p] = @ \cup {alerting[p]}]}
  /\ alerting' = [alerting EXCEPT ![p] = None]
  /\ Goto(p, "anomaly")
  /\ UNCHANGED <<jaeger, summaries, anomalies, nextPass, job, queues, item,
                 pass, clean, processed, bounds, harmed>>

\* send_alert: a failed webhook call is logged and swallowed.
SendAlert(p) ==
  /\ pc[p] = "alert"
  /\ alerts' = alerts \cup {Row(p, alerting[p])}
  /\ alerting' = [alerting EXCEPT ![p] = None]
  /\ Goto(p, "anomaly")
  /\ UNCHANGED <<jaeger, summaries, anomalies, nextPass, job, queues, item,
                 pass, found, clean, processed, bounds, harmed>>

\* The anomaly loop is over; process_trace updates its counters only now.
FinishItem(p) ==
  /\ pc[p] = "anomaly"
  /\ found[p] = {}
  /\ processed' = IF job[p] = "poll"
                  THEN processed ELSE [processed EXCEPT ![p] = @ + 1]
  /\ harmed' = IF clean[p] THEN harmed \ {item[p]} ELSE harmed
  /\ DropItem(p)
  /\ Goto(p, "loop")
  /\ UNCHANGED <<jaeger, store, nextPass, job, queues, bounds>>

-----------------------------------------------------------------------------
(* Faults.                                                                 *)

\* A call raises.  run() logs it and goes to sleep; rebuild_all goes on with
\* the next trace; a reprocess command ends.
Raise(p) ==
  /\ faults < MaxFaults
  /\ faults' = faults + 1
  /\ DropItem(p)
  /\ \/ /\ job[p] = "poll"
        /\ Goto(p, "sleep")
        /\ svcs' = [svcs EXCEPT ![p] = {}]
        /\ batch' = [batch EXCEPT ![p] = {}]
        /\ UNCHANGED <<replay, processed>>
     \/ /\ job[p] = "rebuild"
        /\ Goto(p, "loop")
        /\ UNCHANGED <<queues, processed>>
     \/ /\ job[p] \in {"reprocess", "range"}
        /\ Goto(p, "off")
        /\ svcs' = [svcs EXCEPT ![p] = {}]
        /\ replay' = [replay EXCEPT ![p] = {}]
        /\ processed' = [processed EXCEPT ![p] = 0]
        /\ UNCHANGED batch
  /\ UNCHANGED <<jaeger, anomalies, alerts, nextPass, job, cliRuns>>

\* A fetch or the deduplication query fails; nothing was written.  A rebuild
\* that cannot fetch a trace drops that trace.
FetchFails(p) ==
  /\ pc[p] = "loop"
  /\ batch[p] # {} \/ (svcs[p] # {} /\ replay[p] = {})
  /\ Raise(p)
  /\ UNCHANGED <<summaries, harmed>>

RefetchFails(c, t) ==
  /\ pc[c] = "loop"
  /\ t \in replay[c]
  /\ faults < MaxFaults
  /\ faults' = faults + 1
  /\ \/ /\ job[c] = "rebuild"
        /\ replay' = [replay EXCEPT ![c] = @ \ {t}]
        /\ UNCHANGED <<pc, svcs, processed>>
     \/ /\ job[c] # "rebuild"
        /\ Goto(c, "off")
        /\ svcs' = [svcs EXCEPT ![c] = {}]
        /\ replay' = [replay EXCEPT ![c] = {}]
        /\ processed' = [processed EXCEPT ![c] = 0]
  /\ UNCHANGED <<jaeger, store, nextPass, job, batch, locals, cliRuns, harmed>>

\* persist_run_summary raises, whether or not the row was committed first.
PersistSummaryFails(p) ==
  /\ pc[p] = "persist"
  /\ Raise(p)
  /\ \/ UNCHANGED <<summaries, harmed>>
     \/ /\ Upsert(p)
        /\ harmed' = harmed \cup {item[p]}

\* Faulty variant of PersistAnomalyFails: the alert is sent all the same.
AlertUnstored(p, ty) ==
  /\ pc[p] = "anomaly"
  /\ ty \in found[p]
  /\ faults < MaxFaults
  /\ faults' = faults + 1
  /\ found' = [found EXCEPT ![p] = @ \ {ty}]
  /\ alerting' = [alerting EXCEPT ![p] = ty]
  /\ clean' = [clean EXCEPT ![p] = FALSE]
  /\ harmed' = harmed \cup {item[p]}
  /\ Goto(p, "alert")
  /\ UNCHANGED <<jaeger, store, nextPass, job, queues, item, pass, processed,
                 cliRuns>>

\* persist_anomaly raises: the anomaly is logged, not retried, and neither
\* alerted on nor counted, whether or not the row was committed first.
PersistAnomalyFails(p, ty) ==
  /\ pc[p] = "anomaly"
  /\ ty \in found[p]
  /\ faults < MaxFaults
  /\ faults' = faults + 1
  /\ anomalies' \in {anomalies, anomalies \cup {Row(p, ty)}}
  /\ found' = [found EXCEPT ![p] = @ \ {ty}]
  /\ clean' = [clean EXCEPT ![p] = FALSE]
  /\ harmed' = harmed \cup {item[p]}
  /\ UNCHANGED <<jaeger, summaries, alerts, nextPass, pc, job, queues, item,
                 pass, alerting, processed, cliRuns>>

\* The process dies or is cancelled at an await: its memory is lost.
Crash(p) ==
  /\ pc[p] # "off"
  /\ faults < MaxFaults
  /\ faults' = faults + 1
  /\ harmed' = IF pc[p] = "detect" \/ found[p] # {}
               THEN harmed \cup {item[p]} ELSE harmed
  /\ Goto(p, "off")
  /\ svcs' = [svcs EXCEPT ![p] = {}]
  /\ batch' = [batch EXCEPT ![p] = {}]
  /\ replay' = [replay EXCEPT ![p] = {}]
  /\ processed' = [processed EXCEPT ![p] = 0]
  /\ DropItem(p)
  /\ UNCHANGED <<jaeger, store, nextPass, job, cliRuns>>

-----------------------------------------------------------------------------

Environment ==
  \E t \in Traces :
     \/ \E stage \in Stages : Export(t, stage)
     \/ Evict(t)

\* Steps of process p once it has an item.
ItemStep(p) ==
  \/ PersistSummary(p)
  \/ \E flaky \in SUBSET Flaky : Detect(p, flaky)
  \/ \E ty \in Types : PersistAnomaly(p, ty)
  \/ SendAlert(p)
  \/ FinishItem(p)

PollerStep ==
  \/ StartCycle
  \/ \E s \in Services, chosen \in SUBSET Traces : FetchService(s, chosen)
  \/ \E x \in Snapshots : SkipDuplicate(x) \/ TakeNew(x)
  \/ Materialize
  \/ ItemStep(Poller)

CommandStep(c) ==
  \/ \E t \in Traces : StartReprocess(c, t) \/ Refetch(c, t)
  \/ StartRebuild(c)
  \/ StartRange(c)
  \/ \E s \in Services : FetchRange(c, s)
  \/ EndCommand(c)
  \/ ItemStep(c)

Fault ==
  \/ ListServicesFails
  \/ \E p \in Procs :
       \/ FetchFails(p)
       \/ \E t \in Traces : RefetchFails(p, t)
       \/ PersistSummaryFails(p)
       \/ \E ty \in Types : PersistAnomalyFails(p, ty)
       \/ Crash(p)

Next ==
  \/ Environment
  \/ StartWorker
  \/ PollerStep
  \/ \E c \in CliProcs : CommandStep(c)
  \/ Fault

\* The event loop keeps running a worker that is up, and its calls return.
\* Nothing obliges anyone to start it, at first or after a crash, or to run a
\* command, nor an agent to export its spans.
Fairness == WF_vars(PollerStep)

Spec == Init /\ [][Next]_vars /\ Fairness

-----------------------------------------------------------------------------
(* Properties.                                                             *)

\* The foreign key anomalies.run_id -> run_summaries never rejects an anomaly:
\* whenever a process is detecting or storing anomalies of a run, whatever the
\* other processes and the crashes did, the run has its row (worker.py writes
\* the summary before it detects).
ForeignKeyHolds ==
  \A p \in Procs : Working(p) => IsRunProcessed(RunIdOf(item[p]))

\* The only way to lose an anomaly of a summarised run is a fault inside its
\* detection pass: otherwise, and again after an undisturbed reprocessing,
\* what the trace-only detectors report on the snapshot in run_summaries is in
\* the anomalies table or in the hands of a process that is still storing it.
NoSilentLoss ==
  \A r \in Runs :
    LET s == summaries[r]
    IN \/ s = None
       \/ s \in harmed
       \/ \E p \in Procs : Working(p) /\ item[p] = s
       \/ Hits[s] \subseteq StoredTypes(r)

\* An alert is sent for nothing but a row of the anomalies table, so that the
\* link in the webhook payload leads somewhere.
AlertsFollowRows == alerts \subseteq anomalies

\* With no command running, a run has at most one anomaly of a type: polling
\* the same trace again, under another service or after a crash detects
\* nothing twice.
OneAnomalyPerType ==
  \A a, b \in anomalies : a.run = b.run /\ a.type = b.type => a = b

\* With no command running, a row of run_summaries is written once: neither a
\* later poll nor a second trace of the same run replaces it.
RowsWrittenOnce ==
  [][\A r \in Runs :
        IsRunProcessed(r) => summaries'[r] = summaries[r]]_vars

CompleteOf(t) == [trace |-> t, stage |-> "complete"]

\* Another trace that Jaeger has shown may take the run of trace t.
Shared(t) ==
  \E u \in Traces \ {t} : jaeger[u] # "absent" /\ RunAttr[t] \in {u, RunAttr[u]}

\* Jaeger shows trace t completely and nothing is in the way of its summary: its
\* run has no row, the worker holds no earlier snapshot that would be stored under
\* the same run id, and no other trace is of that run.
Unrivalled(t) ==
  /\ jaeger[t] = "complete"
  /\ ~IsRunProcessed(RunAttr[t])
  /\ \A s \in (batch[Poller] \cup {item[Poller]}) \ {None, CompleteOf(t)} :
       RunIdOf(s) # RunAttr[t]
  /\ ~Shared(t)

\* With no command running, and as long as somebody starts the worker again
\* whenever it is down: the run of a trace that Jaeger shows completely under a
\* polled service is eventually summarised, and from the complete trace when
\* nothing else could take its run, although calls fail and the worker crashes a
\* bounded number of times.  A trace that Jaeger loses is exempt, and so is the
\* complete form of one whose run id was taken while it was still being exported.
EventuallySummarised ==
  []<>(pc[Poller] # "off") =>
    \A t \in {u \in Traces : ServicesOf[u] \cap Configured # {}} :
      /\ jaeger[t] = "complete"
           ~> (IsRunProcessed(RunAttr[t]) \/ jaeger[t] = "gone")
      /\ Unrivalled(t)
           ~> (summaries[RunAttr[t]] = CompleteOf(t) \/ jaeger[t] = "gone" \/ Shared(t))

-----------------------------------------------------------------------------
(* The worker implements Processing: where a run stands is read off the     *)
(* tables, the worker's position and the history of faults.                 *)

Phase(r) ==
  IF summaries[r] = None THEN "unseen"
  ELSE IF Working(Poller) /\ RunIdOf(item[Poller]) = r THEN "detecting"
  ELSE IF summaries[r] \in harmed THEN "cut" ELSE "done"

Promise == INSTANCE Processing WITH
  Reports <- Snapshots,
  Demand  <- Hits,
  report  <- summaries,
  phase   <- [r \in Runs |-> Phase(r)],
  stored  <- [r \in Runs |-> StoredTypes(r)]

\* With no command running, the worker processes one run at a time and each
\* run once: recorded once, each type stored once and only in between, and,
\* unless a fault cut it short, complete when the worker turns away from it.
ProcessesEachRunOnce == Promise!Safety

\* The worker never stays with a run: its pass ends, whatever the detectors
\* report and whichever calls fail.
PassesEnd == Promise!Fairness

\* AnomalyClusterDetector fires after all other detectors have run and
\* persisted their anomalies (cross_run.py:50-53): a run with ClusterMin types
\* of anomalies has a cluster anomaly.
ClustersAreReported ==
  \A r \in Runs :
    \/ Cardinality(StoredTypes(r) \ {Cluster}) < ClusterMin
    \/ \E p \in Procs : Working(p) /\ item[p] = summaries[r]
    \/ summaries[r] \in harmed
    \/ Cluster \in StoredTypes(r)
=============================================================================
