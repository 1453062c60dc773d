------------------------ MODULE AnalyticsWorkerProofs ------------------------
(***************************************************************************)
(* Proofs about AnalyticsWorker, for any traces, services, detectors,      *)
(* number of command processes and number of faults: its type invariant    *)
(* and its safety invariants, those about a worker that polls alone under  *)
(* the assumption that no command runs, and that such a worker implements  *)
(* the safety part of Processing.                                          *)
(***************************************************************************)
EXTENDS AnalyticsWorker, TLAPS

Busy == {"persist", "detect", "anomaly", "alert"}

\* A process between TakeNew or Refetch and the end of the anomaly loop has a
\* snapshot, nothing is found outside a detection pass, and a process that is
\* alerting has just stored the row it alerts on.
ItemInv ==
  \A p \in Procs :
    /\ pc[p] \in Busy => item[p] \in Snapshots
    /\ found[p] # {} => pc[p] \in {"anomaly", "alert"}
    /\ pc[p] = "alert" =>
         /\ alerting[p] \in Types
         /\ Row(p, alerting[p]) \in anomalies

\* Rows are keyed by the run id of the snapshot they summarise.
KeyInv == \A r \in Runs : summaries[r] # None => RunIdOf(summaries[r]) = r

\* What a pass still has to store, unless it dropped something.
PassInv ==
  \A p \in Procs :
    /\ pc[p] \in {"anomaly", "alert"} /\ clean[p] =>
         Hits[item[p]] \subseteq found[p] \cup StoredTypes(RunIdOf(item[p]))
    /\ ~clean[p] => pc[p] \in {"anomaly", "alert"}
    /\ Working(p) /\ ~clean[p] =>
         \/ item[p] \in harmed
         \/ Hits[item[p]] \subseteq StoredTypes(RunIdOf(item[p]))

IInv ==
  /\ TypeOK
  /\ ItemInv
  /\ KeyInv
  /\ PassInv
  /\ ForeignKeyHolds
  /\ AlertsFollowRows
  /\ NoSilentLoss

-----------------------------------------------------------------------------
(* Facts about the operators of the model.                                 *)

\* A snapshot is of a run.
LEMMA RunIdType == \A s \in Snapshots : RunIdOf(s) \in Runs
BY ConstAssumption DEF Snapshots, Runs, RunIdOf

\* What is stored stays stored while the anomalies table only grows.
LEMMA StoredGrows ==
  ASSUME anomalies \subseteq anomalies'
  PROVE  \A r : StoredTypes(r) \subseteq StoredTypes(r)'
BY DEF StoredTypes

-----------------------------------------------------------------------------
(* The inductive invariant.                                                *)

\* Before anything ran, no process has an item and every table is empty.
LEMMA InitIInv == Init => IInv
<1> SUFFICES ASSUME Init PROVE IInv
  OBVIOUS
<1>1. TypeOK
  BY ConstAssumption DEF Init, TypeOK, Jobs, Procs
<1>2. ItemInv /\ PassInv /\ ForeignKeyHolds
  BY DEF Init, ItemInv, PassInv, ForeignKeyHolds, Working, Busy
<1>3. KeyInv /\ NoSilentLoss /\ AlertsFollowRows
  BY DEF Init, KeyInv, NoSilentLoss, AlertsFollowRows
<1> QED
  BY <1>1, <1>2, <1>3 DEF IInv

\* A step that leaves the tables and the detection passes alone, and at most
\* moves a process outside a pass, possibly to a new item.
Quiet ==
  /\ UNCHANGED <<summaries, anomalies, alerts, harmed, found, alerting, pass,
                 clean>>
  /\ \A p \in Procs :
       \/ UNCHANGED <<pc[p], item[p]>>
       \/ /\ pc[p] \notin Busy
          /\ pc'[p] \notin Busy \/ (pc'[p] = "persist" /\ item'[p] \in Snapshots)

\* Quiet steps preserve what IInv says beyond the types.
LEMMA QuietStep ==
  ASSUME IInv, Quiet, TypeOK'
  PROVE  IInv'
<1>1. ItemInv'
  BY DEF IInv, ItemInv, Quiet, Busy, Row
<1>2. KeyInv' /\ AlertsFollowRows'
  BY DEF IInv, KeyInv, AlertsFollowRows, Quiet
<1>3. \A p \in Procs : Working(p) \/ Working(p)' => UNCHANGED <<pc[p], item[p]>>
  BY DEF Quiet, Busy, Working
<1>4. PassInv'
  BY <1>3 DEF IInv, PassInv, Quiet, Working, Busy, StoredTypes
<1>5. ForeignKeyHolds'
  BY <1>3 DEF IInv, ForeignKeyHolds, Quiet, Working, IsRunProcessed
<1>6. NoSilentLoss'
  BY <1>3 DEF IInv, NoSilentLoss, Quiet, Working, StoredTypes
<1> QED
  BY <1>1, <1>2, <1>4, <1>5, <1>6 DEF IInv

\* Everything but the item steps and the faults that cut a pass short is quiet.
QuietAction ==
  \/ Environment
  \/ StartWorker \/ StartCycle \/ ListServicesFails \/ Materialize
  \/ \E s \in Services, chosen \in SUBSET Traces : FetchService(s, chosen)
  \/ \E x \in Snapshots : SkipDuplicate(x) \/ TakeNew(x)
  \/ \E c \in CliProcs :
       \/ \E t \in Traces : StartReprocess(c, t) \/ Refetch(c, t)
       \/ StartRebuild(c) \/ StartRange(c) \/ EndCommand(c)
       \/ \E s \in Services : FetchRange(c, s)
  \/ \E p \in Procs, t \in Traces : RefetchFails(p, t)

LEMMA QuietActions ==
  ASSUME IInv, QuietAction
  PROVE  Quiet /\ TypeOK'
<1> USE ConstAssumption DEF IInv
<1>1. CASE Environment
  BY <1>1 DEF Environment, Export, Evict, Quiet, TypeOK, store, locals, queues,
              bounds
<1>2. CASE StartWorker \/ StartCycle \/ ListServicesFails \/ Materialize
  BY <1>2 DEF StartWorker, StartCycle, ListServicesFails, Materialize, Goto,
              Quiet, TypeOK, store, locals, queues, bounds, Busy, Procs
<1>3. ASSUME NEW s \in Services, NEW chosen \in SUBSET Traces,
             FetchService(s, chosen)
      PROVE  Quiet /\ TypeOK'
  <2>1. {Snapshot(t) : t \in chosen} \subseteq Snapshots
    BY <1>3 DEF FetchService, Snapshot, Snapshots, Visible
  <2> QED
    BY <1>3, <2>1 DEF FetchService, Quiet, TypeOK, store, locals, queues, bounds
<1>4. ASSUME NEW x \in Snapshots, SkipDuplicate(x) \/ TakeNew(x)
      PROVE  Quiet /\ TypeOK'
  <2>1. Quiet
    BY <1>4 DEF SkipDuplicate, TakeNew, Goto, Quiet, TypeOK, store, locals,
                queues, bounds, Busy, Procs
  <2>2. TypeOK'
    BY <1>4 DEF SkipDuplicate, TakeNew, Goto, TypeOK, store, locals, queues,
                bounds, Procs
  <2> QED
    BY <2>1, <2>2
<1>5. ASSUME NEW c \in CliProcs, NEW t \in Traces, StartReprocess(c, t)
      PROVE  Quiet /\ TypeOK'
  BY <1>5 DEF StartReprocess, StartCommand, Goto, Quiet, TypeOK, store, locals,
              queues, bounds, Busy, Procs, Jobs
<1>6. ASSUME NEW c \in CliProcs, NEW t \in Traces, Refetch(c, t)
      PROVE  Quiet /\ TypeOK'
  <2>1. jaeger[t] \in Stages => Snapshot(t) \in Snapshots
    BY DEF Snapshot, Snapshots
  <2>2. Quiet
    BY <1>6, <2>1 DEF Refetch, Goto, Quiet, TypeOK, store, locals, queues,
                      bounds, Busy, Procs
  <2>3. TypeOK'
    BY <1>6, <2>1 DEF Refetch, Goto, TypeOK, store, locals, queues, bounds, Procs
  <2> QED
    BY <2>2, <2>3
<1>7. ASSUME NEW c \in CliProcs, StartRebuild(c)
      PROVE  Quiet /\ TypeOK'
  <2>1. {s.trace : s \in {summaries[r] : r \in Runs} \ {None}} \subseteq Traces
    BY DEF TypeOK, Snapshots
  <2> QED
    BY <1>7, <2>1 DEF StartRebuild, StartCommand, Goto, Quiet, TypeOK, store,
                      locals, queues, bounds, Busy, Procs, Jobs
<1>8. ASSUME NEW c \in CliProcs, StartRange(c) \/ EndCommand(c)
      PROVE  Quiet /\ TypeOK'
  BY <1>8 DEF StartRange, EndCommand, StartCommand, Goto, Quiet, TypeOK, store,
              locals, queues, bounds, Busy, Procs, Jobs
<1>9. ASSUME NEW c \in CliProcs, NEW s \in Services, FetchRange(c, s)
      PROVE  Quiet /\ TypeOK'
  BY <1>9 DEF FetchRange, Visible, Quiet, TypeOK, store, locals, queues, bounds
<1>10. ASSUME NEW p \in Procs, NEW t \in Traces, RefetchFails(p, t)
       PROVE  Quiet /\ TypeOK'
  <2>1. Quiet
    BY <1>10 DEF RefetchFails, Goto, Quiet, TypeOK, store, locals, queues, bounds,
                 Busy
  <2>2. TypeOK'
    BY <1>10 DEF RefetchFails, Goto, TypeOK, store, locals, queues, bounds
  <2> QED
    BY <2>1, <2>2
<1> QED
  BY <1>1, <1>2, <1>3, <1>4, <1>5, <1>6, <1>7, <1>8, <1>9, <1>10 DEF QuietAction

\* Storing the summary: the row gets its key, and the process that wrote it is
\* the one that has the snapshot in hand.
LEMMA PersistSummaryStep ==
  ASSUME IInv, NEW p \in Procs, PersistSummary(p)
  PROVE  IInv'
<1> USE DEF IInv
<1>1. item[p] \in Snapshots /\ item[p] # None /\ RunIdOf(item[p]) \in Runs
  BY ConstAssumption, RunIdType DEF PersistSummary, ItemInv, Busy
<1>2. TypeOK'
  BY <1>1 DEF PersistSummary, Upsert, Goto, TypeOK, store, locals, queues, bounds
<1>3. /\ UNCHANGED <<anomalies, alerts, harmed, item, found, alerting, pass, clean>>
      /\ pc' = [pc EXCEPT ![p] = "detect"] /\ pc[p] = "persist"
      /\ summaries' = [summaries EXCEPT ![RunIdOf(item[p])] = item[p]]
  BY DEF PersistSummary, Upsert, Goto, locals, queues, bounds
<1>4. ItemInv'
  BY <1>3 DEF ItemInv, Busy, Row, TypeOK
<1>5. KeyInv' /\ AlertsFollowRows'
  BY <1>1, <1>3 DEF KeyInv, AlertsFollowRows, RunIdOf, TypeOK
<1>6. PassInv'
  BY <1>3 DEF PassInv, Working, StoredTypes, TypeOK
<1>7. ForeignKeyHolds'
  BY <1>1, <1>3 DEF ForeignKeyHolds, Working, IsRunProcessed, TypeOK
<1>8. NoSilentLoss'
  BY <1>1, <1>3 DEF NoSilentLoss, Working, StoredTypes, TypeOK
<1> QED
  BY <1>2, <1>4, <1>5, <1>6, <1>7, <1>8

\* Detection starts a pass that has everything still to store.
LEMMA DetectStep ==
  ASSUME IInv, NEW p \in Procs, NEW flaky \in SUBSET Flaky, Detect(p, flaky)
  PROVE  IInv'
<1> USE DEF IInv
<1>1. item[p] \in Snapshots
  BY DEF Detect, ItemInv, Busy
<1>2. PICK all \in SUBSET Types : /\ Hits[item[p]] \subseteq all
                                 /\ found' = [found EXCEPT ![p] = all]
  BY <1>1, ConstAssumption DEF Detect
<1>3. /\ UNCHANGED <<summaries, anomalies, alerts, harmed, item, alerting, clean>>
      /\ pc' = [pc EXCEPT ![p] = "anomaly"] /\ pc[p] = "detect"
      /\ pass' = [pass EXCEPT ![p] = nextPass]
  BY DEF Detect, Goto, store, queues
<1>4. TypeOK'
  BY <1>2 DEF Detect, Goto, TypeOK, store, queues, bounds
<1>5. ItemInv'
  BY <1>2, <1>3 DEF ItemInv, Busy, Row, TypeOK
<1>6. KeyInv' /\ AlertsFollowRows'
  BY <1>3 DEF KeyInv, AlertsFollowRows
<1>7. PassInv'
  BY <1>2, <1>3 DEF PassInv, Working, StoredTypes, TypeOK
<1>8. ForeignKeyHolds'
  BY <1>3 DEF ForeignKeyHolds, Working, IsRunProcessed, TypeOK
<1>9. NoSilentLoss'
  BY <1>3 DEF NoSilentLoss, Working, StoredTypes, TypeOK
<1> QED
  BY <1>4, <1>5, <1>6, <1>7, <1>8, <1>9

\* Storing an anomaly moves its type from what is found to what is stored.
LEMMA PersistAnomalyStep ==
  ASSUME IInv, NEW p \in Procs, NEW ty \in Types, PersistAnomaly(p, ty)
  PROVE  IInv'
<1> USE DEF IInv
<1>1. item[p] \in Snapshots /\ RunIdOf(item[p]) \in Runs
  BY RunIdType DEF PersistAnomaly, ItemInv, Busy
<1>2. /\ UNCHANGED <<summaries, alerts, harmed, item, pass, clean>>
      /\ pc' = [pc EXCEPT ![p] = "alert"] /\ pc[p] = "anomaly"
      /\ anomalies' = anomalies \cup {Row(p, ty)}
      /\ found' = [found EXCEPT ![p] = @ \ {ty}]
      /\ alerting' = [alerting EXCEPT ![p] = ty]
  BY DEF PersistAnomaly, Goto, queues, bounds
<1>3. TypeOK'
  BY <1>1 DEF PersistAnomaly, Goto, Row, TypeOK, store, queues, bounds
<1>4. \A r : StoredTypes(r) \subseteq StoredTypes(r)'
  BY <1>2, StoredGrows
<1>5. ty \in StoredTypes(RunIdOf(item[p]))'
  <2>1. Row(p, ty) \in anomalies' /\ UNCHANGED RunIdOf(item[p])
    BY <1>2 DEF RunIdOf
  <2> QED
    BY <2>1 DEF Row, StoredTypes
<1>6. ItemInv'
  BY <1>2 DEF ItemInv, Busy, Row, TypeOK
<1>7. KeyInv' /\ AlertsFollowRows'
  BY <1>2 DEF KeyInv, AlertsFollowRows
<1>8. PassInv'
  BY <1>2, <1>4, <1>5 DEF PassInv, Working, TypeOK
<1>9. ForeignKeyHolds'
  BY <1>2 DEF ForeignKeyHolds, Working, IsRunProcessed, TypeOK
<1>10. NoSilentLoss'
  BY <1>2, <1>4 DEF NoSilentLoss, Working, TypeOK
<1> QED
  BY <1>3, <1>6, <1>7, <1>8, <1>9, <1>10

\* An alert is about the row just stored.
LEMMA SendAlertStep ==
  ASSUME IInv, NEW p \in Procs, SendAlert(p)
  PROVE  IInv'
<1> USE DEF IInv
<1>1. /\ UNCHANGED <<summaries, anomalies, harmed, item, pass, found, clean>>
      /\ pc' = [pc EXCEPT ![p] = "anomaly"] /\ pc[p] = "alert"
      /\ alerts' = alerts \cup {Row(p, alerting[p])}
      /\ alerting' = [alerting EXCEPT ![p] = None]
  BY DEF SendAlert, Goto, queues, bounds
<1>2. Row(p, alerting[p]) \in anomalies
  BY <1>1 DEF ItemInv
<1>3. TypeOK'
  BY <1>2 DEF SendAlert, Goto, TypeOK, store, queues, bounds
<1>4. ItemInv'
  BY <1>1 DEF ItemInv, Busy, Row, TypeOK
<1>5. KeyInv' /\ AlertsFollowRows'
  BY <1>1, <1>2 DEF KeyInv, AlertsFollowRows
<1>6. PassInv'
  BY <1>1 DEF PassInv, Working, StoredTypes, TypeOK
<1>7. ForeignKeyHolds'
  BY <1>1 DEF ForeignKeyHolds, Working, IsRunProcessed, TypeOK
<1>8. NoSilentLoss'
  BY <1>1 DEF NoSilentLoss, Working, StoredTypes, TypeOK
<1> QED
  BY <1>3, <1>4, <1>5, <1>6, <1>7, <1>8

\* An item is finished with nothing left to store.
LEMMA FinishItemStep ==
  ASSUME IInv, NEW p \in Procs, FinishItem(p)
  PROVE  IInv'
<1> USE DEF IInv
<1>1. item[p] \in Snapshots
  BY DEF FinishItem, ItemInv, Busy
<1>2. /\ UNCHANGED <<summaries, anomalies, alerts>>
      /\ pc' = [pc EXCEPT ![p] = "loop"] /\ pc[p] = "anomaly"
      /\ found[p] = {}
      /\ item' = [item EXCEPT ![p] = None]
      /\ found' = [found EXCEPT ![p] = {}]
      /\ pass' = [pass EXCEPT ![p] = 0]
      /\ alerting' = [alerting EXCEPT ![p] = None]
      /\ clean' = [clean EXCEPT ![p] = TRUE]
      /\ harmed' = IF clean[p] THEN harmed \ {item[p]} ELSE harmed
  BY DEF FinishItem, DropItem, Goto, store, queues, bounds
<1>3. \/ ~clean[p] /\ item[p] \in harmed
      \/ Hits[item[p]] \subseteq StoredTypes(RunIdOf(item[p]))
  BY <1>2 DEF PassInv, Working
<1>4. TypeOK'
  BY DEF FinishItem, DropItem, Goto, TypeOK, store, queues, bounds
<1>5. ItemInv'
  BY <1>2 DEF ItemInv, Busy, Row, TypeOK
<1>6. KeyInv' /\ AlertsFollowRows'
  BY <1>2 DEF KeyInv, AlertsFollowRows
<1>7. PassInv'
  BY <1>2, <1>3 DEF PassInv, Working, StoredTypes, TypeOK
<1>8. ForeignKeyHolds'
  BY <1>2 DEF ForeignKeyHolds, Working, IsRunProcessed, TypeOK
<1>9. NoSilentLoss'
  BY <1>2, <1>3 DEF NoSilentLoss, KeyInv, Working, StoredTypes, TypeOK
<1> QED
  BY <1>4, <1>5, <1>6, <1>7, <1>8, <1>9

\* A process leaves its item: the tables keep what they have, and a pass that
\* had something left to store is recorded as cut short.
Cut(p) ==
  /\ UNCHANGED <<anomalies, alerts>>
  /\ \E label \in {"off", "sleep", "loop"} : pc' = [pc EXCEPT ![p] = label]
  /\ item' = [item EXCEPT ![p] = None]
  /\ found' = [found EXCEPT ![p] = {}]
  /\ pass' = [pass EXCEPT ![p] = 0]
  /\ alerting' = [alerting EXCEPT ![p] = None]
  /\ clean' = [clean EXCEPT ![p] = TRUE]
  /\ \/ UNCHANGED <<summaries, harmed>> /\ ~Working(p)
     \/ /\ UNCHANGED summaries
        /\ item[p] \in Snapshots
        /\ harmed' = harmed \cup {item[p]}
     \/ /\ UNCHANGED <<summaries, harmed>>
        /\ item[p] \in Snapshots
        /\ item[p] \in harmed \/ Hits[item[p]] \subseteq StoredTypes(RunIdOf(item[p]))
     \/ /\ item[p] \in Snapshots
        /\ pc[p] = "persist"
        /\ summaries' = [summaries EXCEPT ![RunIdOf(item[p])] = item[p]]
        /\ harmed' = harmed \cup {item[p]}

LEMMA CutStep ==
  ASSUME IInv, NEW p \in Procs, Cut(p), TypeOK'
  PROVE  IInv'
<1> USE DEF IInv
<1>1. item[p] \in Snapshots => item[p] # None /\ RunIdOf(item[p]) \in Runs
  BY ConstAssumption, RunIdType
<1>2. ItemInv'
  BY DEF Cut, ItemInv, Busy, Row, TypeOK
<1>3. KeyInv' /\ AlertsFollowRows'
  <2>1. KeyInv'
    BY <1>1 DEF Cut, KeyInv, RunIdOf, TypeOK
  <2>2. AlertsFollowRows'
    BY DEF Cut, AlertsFollowRows
  <2> QED
    BY <2>1, <2>2
<1>4. PassInv'
  BY DEF Cut, PassInv, Working, StoredTypes, TypeOK
<1>5. ForeignKeyHolds'
  <2>1. \A r \in Runs : summaries[r] # None => summaries'[r] # None
    BY <1>1 DEF Cut, TypeOK
  <2>2. \A q \in Procs : Working(q)' =>
          Working(q) /\ UNCHANGED item[q] /\ RunIdOf(item[q]) \in Runs
    BY RunIdType DEF Cut, ItemInv, Working, Busy, TypeOK
  <2> QED
    BY <2>1, <2>2 DEF ForeignKeyHolds, IsRunProcessed, RunIdOf
<1>6. NoSilentLoss'
  BY <1>1 DEF Cut, NoSilentLoss, KeyInv, Working, StoredTypes, TypeOK
<1> QED
  BY <1>2, <1>3, <1>4, <1>5, <1>6

\* Whatever the command, its exception handler keeps the types.
LEMMA RaiseTypes ==
  ASSUME TypeOK, NEW p \in Procs, Raise(p),
         summaries' \in [Runs -> Snapshots \cup {None}], harmed' \subseteq Snapshots
  PROVE  TypeOK'
<1> USE DEF TypeOK
<1>1. /\ item' \in [Procs -> Snapshots \cup {None}]
      /\ pass' \in [Procs -> Nat]
      /\ found' \in [Procs -> SUBSET Types]
      /\ alerting' \in [Procs -> Types \cup {None}]
      /\ clean' \in [Procs -> BOOLEAN]
      /\ faults' \in Nat
  BY DEF Raise, DropItem
<1>2. /\ svcs' \in [Procs -> SUBSET Services]
      /\ batch' \in [Procs -> SUBSET Snapshots]
      /\ replay' \in [Procs -> SUBSET Traces]
      /\ processed' \in [Procs -> Nat]
      /\ pc' \in [Procs -> {"off", "sleep", "loop", "persist", "detect",
                            "anomaly", "alert"}]
  <2>1. CASE job[p] = "poll"
    BY <2>1 DEF Raise, Goto, queues
  <2>2. CASE job[p] = "rebuild"
    BY <2>2 DEF Raise, Goto, queues
  <2>3. CASE job[p] \in {"reprocess", "range"}
    BY <2>3 DEF Raise, Goto, queues
  <2> QED
    BY <2>1, <2>2, <2>3 DEF Jobs
<1> QED
  BY <1>1, <1>2 DEF Raise

\* The failed fetches, the failed summary and the crashes are such steps.
LEMMA CutActions ==
  ASSUME IInv, NEW p \in Procs,
         FetchFails(p) \/ PersistSummaryFails(p) \/ Crash(p)
  PROVE  IInv'
<1> USE ConstAssumption DEF IInv
<1>1. CASE FetchFails(p)
  <2>1. Cut(p)
    BY <1>1 DEF FetchFails, Raise, DropItem, Goto, Cut, Working
  <2>2. TypeOK'
    BY <1>1, RaiseTypes DEF FetchFails, TypeOK
  <2> QED
    BY <2>1, <2>2, CutStep
<1>2. CASE PersistSummaryFails(p)
  <2>1. item[p] \in Snapshots /\ RunIdOf(item[p]) \in Runs
    BY <1>2, RunIdType DEF PersistSummaryFails, ItemInv, Busy
  <2>2. Cut(p)
    BY <1>2, <2>1 DEF PersistSummaryFails, Raise, Upsert, DropItem, Goto, Cut,
                      Working
  <2>3. summaries' \in [Runs -> Snapshots \cup {None}] /\ harmed' \subseteq Snapshots
    BY <1>2, <2>1 DEF PersistSummaryFails, Upsert, TypeOK
  <2>4. TypeOK'
    BY <1>2, <2>3, RaiseTypes DEF PersistSummaryFails
  <2> QED
    BY <2>2, <2>4, CutStep
<1>3. CASE Crash(p)
  <2>1. pc[p] \in Busy \/ found[p] # {} => item[p] \in Snapshots
    BY DEF ItemInv, Busy
  <2>2. pc[p] \in {"anomaly", "alert"} /\ found[p] = {} =>
          item[p] \in harmed \/ Hits[item[p]] \subseteq StoredTypes(RunIdOf(item[p]))
    BY DEF PassInv, Working
  <2>3. Cut(p)
    BY <1>3, <2>1, <2>2 DEF Crash, DropItem, Goto, Cut, Working, Busy, store
  <2>4. TypeOK'
    BY <1>3, <2>1 DEF Crash, DropItem, Goto, TypeOK, store, Busy
  <2> QED
    BY <2>3, <2>4, CutStep
<1> QED
  BY <1>1, <1>2, <1>3

\* A dropped anomaly is recorded, whether its row was committed or not.
LEMMA PersistAnomalyFailsStep ==
  ASSUME IInv, NEW p \in Procs, NEW ty \in Types, PersistAnomalyFails(p, ty)
  PROVE  IInv'
<1> USE DEF IInv
<1>1. item[p] \in Snapshots /\ RunIdOf(item[p]) \in Runs
  BY RunIdType DEF PersistAnomalyFails, ItemInv, Busy
<1>2. /\ UNCHANGED <<summaries, alerts, pc, item, pass, alerting>>
      /\ pc[p] = "anomaly"
      /\ anomalies \subseteq anomalies'
      /\ found' = [found EXCEPT ![p] = @ \ {ty}]
      /\ clean' = [clean EXCEPT ![p] = FALSE]
      /\ harmed' = harmed \cup {item[p]}
  BY DEF PersistAnomalyFails
<1>3. TypeOK'
  BY <1>1 DEF PersistAnomalyFails, Row, TypeOK, queues
<1>4. \A r : StoredTypes(r) \subseteq StoredTypes(r)'
  BY <1>2, StoredGrows
<1>5. ItemInv'
  BY <1>2 DEF ItemInv, Busy, Row, TypeOK
<1>6. KeyInv' /\ AlertsFollowRows'
  BY <1>2 DEF KeyInv, AlertsFollowRows
<1>7. PassInv'
  BY <1>2, <1>4 DEF PassInv, Working, TypeOK
<1>8. ForeignKeyHolds'
  BY <1>2 DEF ForeignKeyHolds, Working, IsRunProcessed
<1>9. NoSilentLoss'
  BY <1>2, <1>4 DEF NoSilentLoss, Working
<1> QED
  BY <1>3, <1>5, <1>6, <1>7, <1>8, <1>9

-----------------------------------------------------------------------------

LEMMA NextIInv == IInv /\ [Next]_vars => IInv'
<1> SUFFICES ASSUME IInv, [Next]_vars PROVE IInv'
  OBVIOUS
<1>1. ASSUME NEW p \in Procs, ItemStep(p)
      PROVE  IInv'
  BY <1>1, PersistSummaryStep, DetectStep, PersistAnomalyStep, SendAlertStep,
     FinishItemStep DEF ItemStep
<1>2. CASE QuietAction
  BY <1>2, QuietActions, QuietStep
<1>3. CASE Environment \/ StartWorker
  BY <1>2, <1>3 DEF QuietAction
<1>4. CASE PollerStep
  <2>1. Poller \in Procs
    BY DEF Procs
  <2> QED
    BY <1>1, <1>2, <1>4, <2>1 DEF PollerStep, QuietAction
<1>5. ASSUME NEW c \in CliProcs, CommandStep(c)
      PROVE  IInv'
  <2>1. c \in Procs
    BY DEF Procs
  <2> QED
    BY <1>1, <1>2, <1>5, <2>1 DEF CommandStep, QuietAction
<1>6. CASE Fault
  BY <1>2, <1>6, CutActions, PersistAnomalyFailsStep DEF Fault, QuietAction
<1>7. CASE UNCHANGED vars
  <2>1. Quiet /\ TypeOK'
    BY <1>7 DEF IInv, Quiet, TypeOK, vars, store, locals, queues, bounds
  <2> QED
    BY <2>1, QuietStep
<1> QED
  BY <1>3, <1>4, <1>5, <1>6, <1>7 DEF Next

LEMMA Inductive == Spec => []IInv
<1>1. Init => IInv
  BY InitIInv
<1>2. IInv /\ [Next]_vars => IInv'
  BY NextIInv
<1> QED
  BY <1>1, <1>2, PTL DEF Spec

-----------------------------------------------------------------------------
(* The theorems.                                                           *)

\* Type correctness.
THEOREM TypeCorrect == Spec => []TypeOK
<1>1. IInv => TypeOK
  BY DEF IInv
<1> QED
  BY <1>1, Inductive, PTL

\* No process stores an anomaly whose run has no row in run_summaries, however
\* many commands run beside the worker and wherever they fail.
THEOREM ForeignKeyCorrect == Spec => []ForeignKeyHolds
<1>1. IInv => ForeignKeyHolds
  BY DEF IInv
<1> QED
  BY <1>1, Inductive, PTL

\* What the trace-only detectors report on a summarised snapshot is stored or
\* being stored, unless a fault cut its detection pass short and no undisturbed
\* pass came after.
THEOREM NoSilentLossCorrect == Spec => []NoSilentLoss
<1>1. IInv => NoSilentLoss
  BY DEF IInv
<1> QED
  BY <1>1, Inductive, PTL

\* Every alert is about a stored anomaly.
THEOREM AlertsCorrect == Spec => []AlertsFollowRows
<1>1. IInv => AlertsFollowRows
  BY DEF IInv
<1> QED
  BY <1>1, Inductive, PTL

-----------------------------------------------------------------------------
(* The worker on its own.                                                  *)

\* While no command runs, the check of process_batch still holds when the
\* summary is written, and a pass starts on a run without anomalies.
SoleInv ==
  /\ pc[Poller] = "persist" => ~IsRunProcessed(RunIdOf(item[Poller]))
  /\ \A a \in anomalies : IsRunProcessed(a.run)
  /\ pc[Poller] = "detect" => StoredTypes(RunIdOf(item[Poller])) = {}
  /\ pc[Poller] \in {"anomaly", "alert"} =>
       found[Poller] \cap StoredTypes(RunIdOf(item[Poller])) = {}
  /\ OneAnomalyPerType

LEMMA SoleInit == Init => SoleInv
BY DEF Init, SoleInv, OneAnomalyPerType, Procs

\* Adding one row of a type that the run has not yet keeps the types apart.
LEMMA OneMoreAnomaly ==
  ASSUME OneAnomalyPerType, NEW p, NEW ty,
         ty \notin StoredTypes(RunIdOf(item[p])),
         anomalies' \in {anomalies, anomalies \cup {Row(p, ty)}}
  PROVE  /\ OneAnomalyPerType'
         /\ \A r : StoredTypes(r)' \subseteq StoredTypes(r) \cup {ty}
<1>1. \A a \in anomalies : a.run = RunIdOf(item[p]) => a.type # ty
  BY DEF StoredTypes
<1>2. Row(p, ty).run = RunIdOf(item[p]) /\ Row(p, ty).type = ty
  BY DEF Row
<1>3. OneAnomalyPerType'
  BY <1>1, <1>2 DEF OneAnomalyPerType
<1>4. \A r : StoredTypes(r)' \subseteq StoredTypes(r) \cup {ty}
  BY <1>2 DEF StoredTypes
<1> QED
  BY <1>3, <1>4

LEMMA SoleStep ==
  ASSUME CliProcs = {}, IInv, SoleInv, [Next]_vars
  PROVE  SoleInv' /\ [\A r \in Runs : IsRunProcessed(r)
                                      => summaries'[r] = summaries[r]]_vars
<1> DEFINE Once == \A r \in Runs : IsRunProcessed(r) => summaries'[r] = summaries[r]
<1> USE DEF SoleInv
<1>0. Procs = {Poller} /\ TypeOK
  BY DEF Procs, IInv
<1>1. ASSUME UNCHANGED <<summaries, anomalies>>,
             \/ UNCHANGED <<pc, item, found>>
             \/ pc'[Poller] \in {"off", "sleep", "loop"}
      PROVE  SoleInv' /\ Once
  BY <1>1 DEF IsRunProcessed, StoredTypes, RunIdOf, OneAnomalyPerType
<1>2. CASE Environment
  BY <1>1, <1>2 DEF Environment, Export, Evict, store, locals
<1>3. CASE StartWorker \/ StartCycle \/ ListServicesFails \/ Materialize
  BY <1>0, <1>1, <1>3 DEF StartWorker, StartCycle, ListServicesFails, Materialize,
                          Goto, TypeOK, store, locals
<1>4. ASSUME NEW s \in Services, NEW chosen \in SUBSET Traces,
             FetchService(s, chosen)
      PROVE  SoleInv' /\ Once
  BY <1>1, <1>4 DEF FetchService, store, locals
<1>5. ASSUME NEW x \in Snapshots, SkipDuplicate(x)
      PROVE  SoleInv' /\ Once
  BY <1>1, <1>5 DEF SkipDuplicate, store, locals
<1>6. ASSUME NEW x \in Snapshots, TakeNew(x)
      PROVE  SoleInv' /\ Once
  BY <1>0, <1>6 DEF TakeNew, Goto, TypeOK, store, IsRunProcessed, StoredTypes,
                    RunIdOf, OneAnomalyPerType
<1>7. CASE PersistSummary(Poller)
  <2>1. /\ item[Poller] \in Snapshots /\ item[Poller] # None
        /\ RunIdOf(item[Poller]) \in Runs
    BY <1>0, <1>7, ConstAssumption, RunIdType DEF PersistSummary, IInv, ItemInv, Busy
  <2>2. /\ summaries' = [summaries EXCEPT ![RunIdOf(item[Poller])] = item[Poller]]
        /\ UNCHANGED <<anomalies, item>>
        /\ pc[Poller] = "persist" /\ pc'[Poller] = "detect"
    BY <1>0, <1>7 DEF PersistSummary, Upsert, Goto, TypeOK, locals
  <2>3. StoredTypes(RunIdOf(item[Poller])) = {}
    BY <2>2 DEF StoredTypes
  <2>4. \A a \in anomalies' : IsRunProcessed(a.run)'
    BY <1>0, <2>1, <2>2 DEF IsRunProcessed, TypeOK
  <2>5. Once
    BY <1>0, <2>2 DEF IsRunProcessed, TypeOK
  <2> QED
    BY <2>2, <2>3, <2>4, <2>5 DEF StoredTypes, RunIdOf, OneAnomalyPerType
<1>8. ASSUME NEW flaky \in SUBSET Flaky, Detect(Poller, flaky)
      PROVE  SoleInv' /\ Once
  BY <1>0, <1>8 DEF Detect, Goto, TypeOK, store, IsRunProcessed, StoredTypes,
                    RunIdOf, OneAnomalyPerType
<1>9. ASSUME NEW ty \in Types, PersistAnomaly(Poller, ty) \/ PersistAnomalyFails(Poller, ty)
      PROVE  SoleInv' /\ Once
  <2>1. /\ ty \in found[Poller] /\ pc[Poller] = "anomaly"
        /\ found'[Poller] = found[Poller] \ {ty}
        /\ UNCHANGED <<summaries, item>>
        /\ anomalies' \in {anomalies, anomalies \cup {Row(Poller, ty)}}
        /\ pc'[Poller] \in {"anomaly", "alert"}
    BY <1>0, <1>9 DEF PersistAnomaly, PersistAnomalyFails, Goto, TypeOK
  <2>2. IsRunProcessed(RunIdOf(item[Poller]))
    BY <1>0, <2>1 DEF IInv, ForeignKeyHolds, Working
  <2>3. /\ OneAnomalyPerType'
        /\ \A r : StoredTypes(r)' \subseteq StoredTypes(r) \cup {ty}
    BY <2>1, OneMoreAnomaly
  <2>4. \A a \in anomalies' : IsRunProcessed(a.run)'
    BY <2>1, <2>2 DEF IsRunProcessed, Row
  <2>5. UNCHANGED RunIdOf(item[Poller])
    BY <2>1 DEF RunIdOf
  <2>6. found'[Poller] \cap StoredTypes(RunIdOf(item[Poller]))' = {}
    BY <2>1, <2>3, <2>5
  <2> QED
    BY <2>1, <2>3, <2>4, <2>6
<1>10. CASE SendAlert(Poller)
  BY <1>0, <1>10 DEF SendAlert, Goto, TypeOK, IsRunProcessed, StoredTypes, RunIdOf,
                     OneAnomalyPerType
<1>11. CASE FinishItem(Poller)
  BY <1>0, <1>1, <1>11 DEF FinishItem, Goto, TypeOK, store
<1>12. CASE FetchFails(Poller) \/ Crash(Poller)
  BY <1>0, <1>1, <1>12 DEF FetchFails, Crash, Raise, Goto, TypeOK, store
<1>13. CASE PersistSummaryFails(Poller)
  <2>1. /\ item[Poller] \in Snapshots /\ item[Poller] # None
        /\ RunIdOf(item[Poller]) \in Runs
    BY <1>0, <1>13, ConstAssumption, RunIdType
    DEF PersistSummaryFails, IInv, ItemInv, Busy
  <2>2. /\ UNCHANGED anomalies
        /\ pc[Poller] = "persist" /\ pc'[Poller] \in {"off", "sleep", "loop"}
        /\ \/ UNCHANGED summaries
           \/ summaries' = [summaries EXCEPT ![RunIdOf(item[Poller])] = item[Poller]]
    BY <1>0, <1>13 DEF PersistSummaryFails, Raise, Upsert, Goto, TypeOK
  <2>3. Once /\ \A r \in Runs : IsRunProcessed(r) => IsRunProcessed(r)'
    BY <1>0, <2>1, <2>2 DEF IsRunProcessed, TypeOK
  <2>4. \A a \in anomalies' : IsRunProcessed(a.run)'
    BY <1>0, <2>2, <2>3 DEF TypeOK
  <2> QED
    BY <2>2, <2>3, <2>4 DEF OneAnomalyPerType
<1>14. ASSUME NEW t \in Traces, RefetchFails(Poller, t)
       PROVE  SoleInv' /\ Once
  BY <1>0, <1>1, <1>14 DEF RefetchFails, Goto, TypeOK, store, locals
<1>15. CASE ItemStep(Poller)
  BY <1>7, <1>8, <1>9, <1>10, <1>11, <1>15 DEF ItemStep
<1>16. CASE PollerStep
  BY <1>3, <1>4, <1>5, <1>6, <1>15, <1>16 DEF PollerStep
<1>17. CASE Fault
  BY <1>0, <1>3, <1>9, <1>12, <1>13, <1>14, <1>17 DEF Fault
<1>18. CASE UNCHANGED vars
  BY <1>1, <1>18 DEF vars, store, locals
<1> QED
  BY <1>2, <1>3, <1>16, <1>17, <1>18 DEF Next

\* With no command running a run never gets two anomalies of one type.
THEOREM OneAnomalyPerTypeCorrect ==
  ASSUME CliProcs = {} PROVE Spec => []OneAnomalyPerType
<1>1. Init => SoleInv
  BY SoleInit
<1>2. IInv /\ SoleInv /\ [Next]_vars => SoleInv'
  BY SoleStep
<1>3. SoleInv => OneAnomalyPerType
  BY DEF SoleInv
<1> QED
  BY <1>1, <1>2, <1>3, Inductive, PTL DEF Spec

\* With no command running a row of run_summaries is never rewritten.
THEOREM RowsWrittenOnceCorrect ==
  ASSUME CliProcs = {} PROVE Spec => RowsWrittenOnce
<1>1. Init => SoleInv
  BY SoleInit
<1>2. IInv /\ SoleInv /\ [Next]_vars => SoleInv'
  BY SoleStep
<1>3. IInv /\ SoleInv /\ [Next]_vars =>
        [\A r \in Runs : IsRunProcessed(r) => summaries'[r] = summaries[r]]_vars
  BY SoleStep
<1> QED
  BY <1>1, <1>2, <1>3, Inductive, PTL DEF Spec, RowsWrittenOnce

-----------------------------------------------------------------------------
(***************************************************************************)
(* The polling worker, on its own, implements the safety part of           *)
(* Processing.                                                             *)
(***************************************************************************)
LEMMA InitRefines == Init => Promise!Init
BY DEF Init, Promise!Init, Phase, StoredTypes

\* Nothing that Processing sees changes while the worker stays with its run, or
\* stays without one.
LEMMA Unseen ==
  ASSUME UNCHANGED <<summaries, anomalies, harmed>>,
         Working(Poller)' = Working(Poller),
         Working(Poller) => UNCHANGED item[Poller]
  PROVE  UNCHANGED Promise!vars
<1>1. \A r \in Runs : Phase(r)' = Phase(r)
  BY DEF Phase, RunIdOf
<1>2. \A r \in Runs : StoredTypes(r)' = StoredTypes(r)
  BY DEF StoredTypes
<1> QED
  BY <1>1, <1>2 DEF Promise!vars

\* Turning away from a run is Finish or Cut: the tables stay, and no other run
\* becomes harmed or is healed.
LEMMA Leaves ==
  ASSUME IInv, IInv', Procs = {Poller},
         UNCHANGED <<summaries, anomalies>>,
         Working(Poller), ~Working(Poller)',
         \A s : s # item[Poller] => (s \in harmed' <=> s \in harmed)
  PROVE  Promise!Next
<1>1. RunIdOf(item[Poller]) \in Runs /\ summaries[RunIdOf(item[Poller])] # None
  BY RunIdType DEF IInv, ItemInv, ForeignKeyHolds, Working, Busy, IsRunProcessed
<1>2. PICK r \in Runs : r = RunIdOf(item[Poller])
  BY <1>1
<1>3. \A q \in Runs : StoredTypes(q)' = StoredTypes(q)
  BY DEF StoredTypes
<1>4. Phase(r) = "detecting" /\ summaries[r] # None
  BY <1>1, <1>2 DEF Phase
<1>5. ASSUME NEW q \in Runs, q # r
      PROVE  Phase(q)' = Phase(q)
  <2>1. summaries[q] # None => summaries[q] # item[Poller]
    BY <1>2, <1>5 DEF IInv, KeyInv
  <2> QED
    BY <1>2, <1>5, <2>1 DEF Phase
<1>6. \/ Phase(r)' = "cut"
      \/ Phase(r)' = "done" /\ Hits[summaries[r]] \subseteq StoredTypes(r)
  <2>1. \A p \in Procs : ~Working(p)'
    OBVIOUS
  <2>2. \/ summaries[r] \in harmed'
        \/ Hits[summaries[r]] \subseteq StoredTypes(r)
    BY <1>3, <1>4, <2>1 DEF IInv, NoSilentLoss
  <2> QED
    BY <1>4, <2>2 DEF Phase
<1>7. [q \in Runs |-> Phase(q)]' =
        [[q \in Runs |-> Phase(q)] EXCEPT ![r] = Phase(r)']
  BY <1>5
<1> QED
  BY <1>3, <1>4, <1>6, <1>7
  DEF Promise!Next, Promise!Leave, Promise!Finish, Promise!Cut

\* Recording the item of a run that has no row is Record.
LEMMA Records ==
  ASSUME IInv, Procs = {Poller},
         pc[Poller] = "persist", ~IsRunProcessed(RunIdOf(item[Poller])),
         Upsert(Poller), UNCHANGED anomalies,
         \/ pc'[Poller] = "detect" /\ UNCHANGED <<item, harmed>>
         \/ ~Working(Poller)' /\ harmed' = harmed \cup {item[Poller]}
  PROVE  Promise!Next
<1>1. item[Poller] \in Snapshots /\ RunIdOf(item[Poller]) \in Runs
  BY RunIdType DEF IInv, ItemInv, Busy
<1>2. PICK r \in Runs : r = RunIdOf(item[Poller])
  BY <1>1
<1>3. ~Working(Poller)
  BY DEF Working
<1>4. \A q \in Runs : StoredTypes(q)' = StoredTypes(q) /\ Phase(q) # "detecting"
  BY <1>3 DEF StoredTypes, Phase
<1>5. /\ summaries[r] = None /\ Phase(r) = "unseen"
      /\ summaries' = [summaries EXCEPT ![r] = item[Poller]]
      /\ summaries'[r] = item[Poller] /\ item[Poller] # None
  BY <1>1, <1>2, ConstAssumption DEF IsRunProcessed, Phase, Upsert, IInv, TypeOK
<1>6. ASSUME NEW q \in Runs, q # r
      PROVE  Phase(q)' = Phase(q)
  <2>1. summaries'[q] = summaries[q]
    BY <1>5, <1>6 DEF IInv, TypeOK
  <2>2. summaries[q] # None => summaries[q] # item[Poller]
    BY <1>2, <1>6 DEF IInv, KeyInv
  <2>3. ~(Working(Poller)' /\ RunIdOf(item[Poller])' = q)
    BY <1>2, <1>6 DEF RunIdOf
  <2> QED
    BY <1>3, <2>1, <2>2, <2>3 DEF Phase
<1>7. Phase(r)' \in {"detecting", "cut"}
  <2>1. CASE pc'[Poller] = "detect" /\ UNCHANGED item
    BY <1>2, <1>5, <2>1 DEF Phase, Working, RunIdOf
  <2>2. CASE ~Working(Poller)' /\ harmed' = harmed \cup {item[Poller]}
    BY <1>5, <2>2 DEF Phase
  <2> QED
    BY <2>1, <2>2
<1>8. [q \in Runs |-> Phase(q)]' =
        [[q \in Runs |-> Phase(q)] EXCEPT ![r] = Phase(r)']
  BY <1>6
<1> QED
  BY <1>1, <1>4, <1>5, <1>7, <1>8 DEF Promise!Next, Promise!Record, Promise!Detecting

\* Storing an anomaly that the run does not have is Store.
LEMMA Stores ==
  ASSUME IInv, SoleInv, Procs = {Poller}, NEW ty \in Types,
         pc[Poller] = "anomaly", ty \in found[Poller],
         anomalies' = anomalies \cup {Row(Poller, ty)},
         Working(Poller)', UNCHANGED <<summaries, item>>,
         \A s : s # item[Poller] => (s \in harmed' <=> s \in harmed)
  PROVE  Promise!Next
<1>1. Working(Poller)
  BY DEF Working
<1>2. RunIdOf(item[Poller]) \in Runs /\ summaries[RunIdOf(item[Poller])] # None
  BY <1>1, RunIdType DEF IInv, ItemInv, ForeignKeyHolds, Working, Busy, IsRunProcessed
<1>3. PICK r \in Runs : r = RunIdOf(item[Poller])
  BY <1>2
<1>4. RunIdOf(item[Poller])' = r
  BY <1>3 DEF RunIdOf
<1>5. Phase(r) = "detecting" /\ Phase(r)' = "detecting"
  BY <1>1, <1>2, <1>3, <1>4 DEF Phase
<1>6. ASSUME NEW q \in Runs, q # r
      PROVE  Phase(q)' = Phase(q)
  <2>1. summaries[q] # None => summaries[q] # item[Poller]
    BY <1>3, <1>6 DEF IInv, KeyInv
  <2> QED
    BY <1>3, <1>4, <1>6, <2>1 DEF Phase
<1>7. Row(Poller, ty).run = r /\ Row(Poller, ty).type = ty
  BY <1>3 DEF Row
<1>8. ty \notin StoredTypes(r)
  BY <1>3 DEF SoleInv
<1>9. \A q \in Runs : StoredTypes(q)' = IF q = r THEN StoredTypes(q) \cup {ty}
                                                 ELSE StoredTypes(q)
  BY <1>7 DEF StoredTypes
<1>10. [q \in Runs |-> StoredTypes(q)]' =
         [[q \in Runs |-> StoredTypes(q)] EXCEPT ![r] = @ \cup {ty}]
  BY <1>9
<1>11. [q \in Runs |-> Phase(q)]' = [q \in Runs |-> Phase(q)]
  BY <1>5, <1>6
<1> QED
  BY <1>5, <1>8, <1>10, <1>11 DEF Promise!Next, Promise!Store

\* Every step of the worker on its own is a step of Processing or none.
LEMMA NextRefines ==
  ASSUME CliProcs = {}, IInv, IInv', SoleInv, [Next]_vars
  PROVE  [Promise!Next]_Promise!vars
<1>0. Procs = {Poller} /\ TypeOK /\ TypeOK'
  BY DEF Procs, IInv
<1>1. ASSUME UNCHANGED <<summaries, anomalies, harmed>>,
             \/ UNCHANGED <<pc, item>>
             \/ ~Working(Poller) /\ ~Working(Poller)'
      PROVE  [Promise!Next]_Promise!vars
  BY <1>1, Unseen DEF Working
<1>2. CASE Environment
  BY <1>1, <1>2 DEF Environment, Export, Evict, store, locals
<1>3. CASE StartWorker \/ StartCycle \/ ListServicesFails \/ Materialize
  BY <1>0, <1>1, <1>3 DEF StartWorker, StartCycle, ListServicesFails, Materialize,
                          Goto, TypeOK, Working, store
<1>4. ASSUME NEW s \in Services, NEW chosen \in SUBSET Traces,
             FetchService(s, chosen)
      PROVE  [Promise!Next]_Promise!vars
  BY <1>1, <1>4 DEF FetchService, store, locals
<1>5. ASSUME NEW x \in Snapshots, SkipDuplicate(x) \/ TakeNew(x)
      PROVE  [Promise!Next]_Promise!vars
  BY <1>0, <1>1, <1>5 DEF SkipDuplicate, TakeNew, Goto, TypeOK, Working, store, locals
<1>6. CASE PersistSummary(Poller)
  BY <1>0, <1>6, Records DEF PersistSummary, SoleInv, Goto, TypeOK, locals
<1>7. ASSUME NEW flaky \in SUBSET Flaky, Detect(Poller, flaky)
      PROVE  [Promise!Next]_Promise!vars
  BY <1>0, <1>7, Unseen DEF Detect, Goto, TypeOK, Working, store
<1>8. ASSUME NEW ty \in Types, PersistAnomaly(Poller, ty) \/ PersistAnomalyFails(Poller, ty)
      PROVE  [Promise!Next]_Promise!vars
  <2>1. /\ pc[Poller] = "anomaly" /\ ty \in found[Poller]
        /\ UNCHANGED <<summaries, item>>
        /\ Working(Poller)'
        /\ anomalies' \in {anomalies, anomalies \cup {Row(Poller, ty)}}
        /\ harmed' \in {harmed, harmed \cup {item[Poller]}}
    BY <1>0, <1>8 DEF PersistAnomaly, PersistAnomalyFails, Goto, TypeOK, Working
  <2>2. CASE anomalies' = anomalies \cup {Row(Poller, ty)}
    BY <1>0, <2>1, <2>2, Stores
  <2>3. CASE anomalies' = anomalies
    <3>1. Working(Poller) /\ RunIdOf(item[Poller])' = RunIdOf(item[Poller])
      BY <2>1 DEF Working, RunIdOf
    <3>2. \A q \in Runs : Phase(q)' = Phase(q)
      <4>1. \A q \in Runs : \/ summaries[q] = None
                            \/ RunIdOf(item[Poller]) = q
                            \/ summaries[q] # item[Poller]
        BY DEF IInv, KeyInv
      <4> QED
        BY <2>1, <3>1, <4>1 DEF Phase
    <3>3. \A q \in Runs : StoredTypes(q)' = StoredTypes(q)
      BY <2>3 DEF StoredTypes
    <3> QED
      BY <2>1, <3>2, <3>3 DEF Promise!vars
  <2> QED
    BY <2>1, <2>2, <2>3
<1>9. CASE SendAlert(Poller)
  BY <1>0, <1>9, Unseen DEF SendAlert, Goto, TypeOK, Working
<1>10. CASE FinishItem(Poller)
  BY <1>0, <1>10, Leaves DEF FinishItem, Goto, TypeOK, Working, store
<1>11. CASE FetchFails(Poller)
  BY <1>0, <1>1, <1>11 DEF FetchFails, Raise, Goto, TypeOK, Working
<1>12. CASE Crash(Poller)
  <2>1. /\ UNCHANGED <<summaries, anomalies>> /\ ~Working(Poller)'
        /\ harmed' \in {harmed, harmed \cup {item[Poller]}}
        /\ ~Working(Poller) => UNCHANGED harmed
    BY <1>0, <1>12 DEF Crash, Goto, TypeOK, Working, store, IInv, ItemInv
  <2> QED
    BY <1>0, <1>1, <2>1, Leaves
<1>13. CASE PersistSummaryFails(Poller)
  <2>1. /\ pc[Poller] = "persist" /\ ~IsRunProcessed(RunIdOf(item[Poller]))
        /\ UNCHANGED anomalies /\ ~Working(Poller)'
    BY <1>0, <1>13 DEF PersistSummaryFails, Raise, Goto, TypeOK, Working, SoleInv
  <2>2. CASE UNCHANGED <<summaries, harmed>>
    BY <1>1, <2>1, <2>2 DEF Working
  <2>3. CASE Upsert(Poller) /\ harmed' = harmed \cup {item[Poller]}
    BY <1>0, <2>1, <2>3, Records
  <2> QED
    BY <1>13, <2>2, <2>3 DEF PersistSummaryFails
<1>14. ASSUME NEW t \in Traces, RefetchFails(Poller, t)
       PROVE  [Promise!Next]_Promise!vars
  BY <1>0, <1>1, <1>14 DEF RefetchFails, Goto, TypeOK, Working, store, locals
<1>15. CASE ItemStep(Poller)
  BY <1>6, <1>7, <1>8, <1>9, <1>10, <1>15 DEF ItemStep
<1>16. CASE PollerStep
  BY <1>3, <1>4, <1>5, <1>15, <1>16 DEF PollerStep
<1>17. CASE Fault
  BY <1>0, <1>3, <1>8, <1>11, <1>12, <1>13, <1>14, <1>17 DEF Fault
<1>18. CASE UNCHANGED vars
  BY <1>1, <1>18 DEF vars, store, locals
<1> QED
  BY <1>2, <1>3, <1>16, <1>17, <1>18 DEF Next

\* With no command running, the worker implements the safety part of
\* Processing: it works on one run at a time and processes each run once.
THEOREM ProcessesEachRunOnceCorrect ==
  ASSUME CliProcs = {} PROVE Spec => ProcessesEachRunOnce
<1>1. Init => SoleInv /\ Promise!Init
  BY SoleInit, InitRefines
<1>2. IInv /\ SoleInv /\ [Next]_vars => SoleInv'
  BY SoleStep
<1>3. IInv /\ IInv' /\ SoleInv /\ [Next]_vars => [Promise!Next]_Promise!vars
  BY NextRefines
<1> QED
  BY <1>1, <1>2, <1>3, Inductive, PTL DEF Spec, ProcessesEachRunOnce, Promise!Safety
=============================================================================
