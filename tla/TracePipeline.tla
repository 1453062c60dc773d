---------------------------- MODULE TracePipeline ----------------------------
(***************************************************************************)
(* The trace pipeline of the download-traces command: HFTraceDownloader    *)
(* (trace_pipeline/downloader.py) streams datasets in small batches, round *)
(* robin, and TracePipeline (trace_pipeline/pipeline.py) converts,         *)
(* validates and stores each batch as a parquet file, until it has enough  *)
(* valid traces, and writes the manifest.                                  *)
(*                                                                         *)
(* A row of a dataset is what conversion and validation make of it.        *)
(* A file is the set of the row numbers it holds.  The process may fail or *)
(* be killed, and be started again on the files an earlier invocation left.*)
(***************************************************************************)
EXTENDS Integers, Sequences, FiniteSets, Functions, SequencesExt

CONSTANTS
  Order,      \* the configured dataset ids, in order
  Rows,       \* dataset -> the kinds of its rows, in stream order
  BatchSize,  \* batch_size
  Target,     \* target_count
  None,       \* no manifest yet
  MaxFaults,  \* bound: failed opens and streams, kills
  MaxRuns     \* bound: invocations of the command

Datasets == Range(Order)
Kinds    == {"valid", "invalid"}

\* download-traces leaves out the repetitions among the ids it is given
\* (main.py:399-407).
ASSUME PipelineAssumption ==
  /\ Order \in Seq(Datasets)
  /\ IsInjective(Order)
  /\ Rows \in [Datasets -> Seq(Kinds)]
  /\ BatchSize \in Nat \ {0}
  /\ Target \in Nat \ {0}
  /\ {MaxFaults, MaxRuns} \subseteq Nat

VARIABLES
  open,       \* downloader._streams: datasets with an open iterator
  pos,        \* rows the iterator of a dataset has given out
  remaining,  \* datasets still scheduled
  todo,       \* what is left of the for loop's copy of remaining
  progress,   \* cycle_progress
  total,      \* total_valid
  valid,      \* stats[ds].valid
  saves,      \* _save_counts: files this process wrote of a dataset
  batch,      \* the valid rows of the batch about to be written
  disk,       \* dataset -> its parquet files; an unreadable file holds no row
  manifest,   \* manifest.json: the valid traces of each dataset
  pc,
  failed,     \* history: datasets that met an error in this invocation
  faults, runs

memory == <<open, pos, remaining, todo, progress, total, valid, saves,
            batch>>
vars   == <<memory, disk, manifest, pc, failed, faults, runs>>

Zero == [d \in Datasets |-> 0]

TypeOK ==
  /\ open \subseteq Datasets
  /\ pos \in [Datasets -> Nat]
  /\ \A d \in Datasets : pos[d] <= Len(Rows[d])
  /\ remaining \in Seq(Datasets) /\ todo \in Seq(Datasets)
  /\ progress \in BOOLEAN
  /\ total \in Nat
  /\ valid \in [Datasets -> Nat]
  /\ saves \in [Datasets -> Nat]
  /\ batch \subseteq Nat
  /\ disk \in [Datasets -> Seq(SUBSET Nat)]
  /\ \A d \in Datasets : \A k \in DOMAIN disk[d] : disk[d][k] \subseteq DOMAIN Rows[d]
  /\ manifest \in [Datasets -> Nat] \cup {None}
  /\ pc \in {"off", "cycle", "visit", "write", "finish", "done"}
  /\ failed \subseteq Datasets

Init ==
  /\ open = {}
  /\ pos = Zero
  /\ remaining = <<>>
  /\ todo = <<>>
  /\ progress = FALSE
  /\ total = 0
  /\ valid = Zero
  /\ saves = Zero
  /\ batch = {}
  /\ disk = [d \in Datasets |-> <<>>]
  /\ manifest = None
  /\ pc = "off"
  /\ failed = {}
  /\ faults = 0
  /\ runs = 0

-----------------------------------------------------------------------------
(* The command, and the loop over the cycles.                              *)

\* A fresh TracePipeline with a fresh downloader.
Start ==
  /\ pc \in {"off", "done"}
  /\ runs < MaxRuns
  /\ runs' = runs + 1
  /\ open' = {}
  /\ pos' = Zero
  /\ remaining' = Order
  /\ todo' = <<>>
  /\ progress' = TRUE
  /\ total' = 0
  /\ valid' = Zero
  /\ saves' = Zero
  /\ batch' = {}
  /\ failed' = {}
  /\ pc' = "cycle"
  /\ UNCHANGED <<disk, manifest, faults>>

\* Faulty variant of StartCycle: only the target ends the loop.
StartUntilTarget ==
  /\ pc = "cycle"
  /\ total < Target
  /\ todo' = remaining
  /\ progress' = FALSE
  /\ pc' = "visit"
  /\ UNCHANGED <<open, pos, remaining, total, valid, saves, batch, disk,
                 manifest, failed, faults, runs>>

\* while total_valid < target_count and remaining; a cycle without progress is
\* the last one.
StartCycle ==
  /\ pc = "cycle"
  /\ total < Target /\ remaining # <<>> /\ progress
  /\ todo' = remaining
  /\ progress' = FALSE
  /\ pc' = "visit"
  /\ UNCHANGED <<open, pos, remaining, total, valid, saves, batch, disk,
                 manifest, failed, faults, runs>>

LeaveLoop ==
  /\ pc = "cycle"
  /\ total >= Target \/ remaining = <<>> \/ ~progress
  /\ pc' = "finish"
  /\ UNCHANGED <<memory, disk, manifest, failed, faults, runs>>

\* The for loop has seen every dataset, or the target is reached.
EndCycle ==
  /\ pc = "visit"
  /\ todo = <<>> \/ total >= Target
  /\ todo' = <<>>
  /\ pc' = "cycle"
  /\ UNCHANGED <<open, pos, remaining, progress, total, valid, saves,
                 batch, disk, manifest, failed, faults, runs>>

Visiting(d) == pc = "visit" /\ total < Target /\ todo # <<>> /\ Head(todo) = d

\* remaining.remove(ds_id), and on to the next dataset.
DropDataset(d) ==
  /\ remaining' = RemoveFirst(remaining, d)
  /\ todo' = Tail(todo)

-----------------------------------------------------------------------------
(* One dataset.                                                            *)

\* open_dataset: a new iterator, at the first row.
OpenDataset(d) ==
  /\ Visiting(d)
  /\ d \notin open
  /\ open' = open \cup {d}
  /\ pos' = [pos EXCEPT ![d] = 0]
  /\ UNCHANGED <<remaining, todo, progress, total, valid, saves, batch,
                 disk, manifest, pc, failed, faults, runs>>

\* No split opens, it takes more than 20 seconds, or the call raises.
OpenFails(d) ==
  /\ Visiting(d)
  /\ d \notin open
  /\ faults < MaxFaults
  /\ faults' = faults + 1
  /\ failed' = failed \cup {d}
  /\ DropDataset(d)
  /\ UNCHANGED <<open, pos, progress, total, valid, saves, batch, disk,
                 manifest, pc, runs>>

\* The rows of the next batch; the iterator may give out fewer.
Pulled(d) ==
  LET left == Len(Rows[d]) - pos[d]
  IN pos[d] + 1 .. pos[d] + (IF left < BatchSize THEN left ELSE BatchSize)

Valid(d, rows) == {i \in rows : Rows[d][i] = "valid"}

\* Faulty variant of Exhausted: a batch that is not full is taken for the end.
ExhaustedWhenShort(d) ==
  /\ Visiting(d)
  /\ d \in open
  /\ Cardinality(Pulled(d)) < BatchSize
  /\ open' = open \ {d}
  /\ DropDataset(d)
  /\ UNCHANGED <<pos, progress, total, valid, saves, batch, disk,
                 manifest, pc, failed, faults, runs>>

\* The stream is exhausted: download_dataset pops it and answers [].
Exhausted(d) ==
  /\ Visiting(d)
  /\ d \in open
  /\ Pulled(d) = {}
  /\ open' = open \ {d}
  /\ DropDataset(d)
  /\ UNCHANGED <<pos, progress, total, valid, saves, batch, disk,
                 manifest, pc, failed, faults, runs>>

\* A batch is pulled, converted and validated.  A short one has met the end of
\* the stream, which is popped too; the dataset stays scheduled.
Download(d) ==
  LET rows == Pulled(d)
      good == Valid(d, rows)
  IN /\ Visiting(d)
     /\ d \in open
     /\ rows # {}
     /\ open' = IF Cardinality(rows) < BatchSize THEN open \ {d} ELSE open
     /\ pos' = [pos EXCEPT ![d] = @ + Cardinality(rows)]
     /\ progress' = TRUE
     /\ batch' = good
     /\ valid' = [valid EXCEPT ![d] = @ + Cardinality(good)]
     /\ total' = total + Cardinality(good)
     /\ \/ good = {} /\ todo' = Tail(todo) /\ UNCHANGED pc
        \/ good # {} /\ pc' = "write" /\ UNCHANGED todo
     /\ UNCHANGED <<remaining, saves, disk, manifest, failed, faults, runs>>

\* Faulty variant of StreamFails: the batch is given up, not the dataset.
SkipBatch(d) ==
  /\ Visiting(d)
  /\ d \in open
  /\ faults < MaxFaults
  /\ faults' = faults + 1
  /\ failed' = failed \cup {d}
  /\ pos' = [pos EXCEPT ![d] = @ + Cardinality(Pulled(d))]
  /\ todo' = Tail(todo)
  /\ UNCHANGED <<open, remaining, progress, total, valid, saves, batch,
                 disk, manifest, pc, runs>>

\* The stream raises in the middle of a batch: the rows already pulled are
\* lost with it.
StreamFails(d) ==
  /\ Visiting(d)
  /\ d \in open
  /\ faults < MaxFaults
  /\ faults' = faults + 1
  /\ failed' = failed \cup {d}
  /\ open' = open \ {d}
  /\ DropDataset(d)
  /\ UNCHANGED <<pos, progress, total, valid, saves, batch, disk,
                 manifest, pc, runs>>

-----------------------------------------------------------------------------
(* Storing.                                                                *)

\* traces-<k>.parquet is created or overwritten.
PutFile(files, k, rows) ==
  IF k > Len(files) THEN Append(files, rows) ELSE [files EXCEPT ![k] = rows]

\* Faulty variant of NextFile: the batch number is not advanced.
FirstFile(d) == 1

NextFile(d) == saves[d] + 1

SaveTraces ==
  LET d == Head(todo)
  IN /\ pc = "write"
     /\ disk' = [disk EXCEPT ![d] = PutFile(@, NextFile(d), batch)]
     /\ saves' = [saves EXCEPT ![d] = NextFile(d)]
     /\ batch' = {}
     /\ todo' = Tail(todo)
     /\ pc' = "visit"
     /\ UNCHANGED <<open, pos, remaining, progress, total, valid,
                    manifest, failed, faults, runs>>

\* generate_manifest
GenerateManifest ==
  /\ pc = "finish"
  /\ manifest' = valid
  /\ pc' = "done"
  /\ UNCHANGED <<memory, disk, failed, faults, runs>>

\* save_traces, or the ingestion before the manifest, raises out of run(), or
\* the process is killed; a write in progress may leave an unreadable file.
Abort ==
  /\ pc \notin {"off", "done"}
  /\ faults < MaxFaults
  /\ faults' = faults + 1
  /\ \/ UNCHANGED disk
     \/ /\ pc = "write"
        /\ disk' = [disk EXCEPT ![Head(todo)] = PutFile(@, NextFile(Head(todo)), {})]
  /\ pc' = "off"
  /\ UNCHANGED <<memory, manifest, failed, runs>>

-----------------------------------------------------------------------------

LocalStep ==
  \/ StartCycle
  \/ LeaveLoop
  \/ EndCycle
  \/ \E d \in Datasets : OpenDataset(d)
  \/ SaveTraces
  \/ GenerateManifest

\* The steps that ask a stream for rows, which nothing limits in time
\* (downloader.py:172-173).
StreamStep == \E d \in Datasets : Exhausted(d) \/ Download(d)

Fault ==
  \/ \E d \in Datasets : OpenFails(d) \/ StreamFails(d)
  \/ Abort

Next == Start \/ LocalStep \/ StreamStep \/ Fault

\* An invocation that is not killed goes on where it does not wait for a stream;
\* opening a dataset has a timeout, so it does answer.  Nobody has to start one.
Spec == Init /\ [][Next]_vars /\ WF_vars(LocalStep)

-----------------------------------------------------------------------------
(* Properties.                                                             *)

Running == pc \notin {"off", "done"}

\* The traces in the files of dataset d numbered in K.
Stored(d, K) == SumFunctionOnSet([k \in K |-> Cardinality(disk[d][k])], K)

\* What run() counts as valid, and in the end writes to the manifest, is what
\* its files hold, batch for batch, whatever files of an earlier, killed
\* invocation it finds and overwrites.
CountedIsStored ==
  Running \/ pc = "done" =>
    \A d \in Datasets :
      /\ valid[d] = Stored(d, 1 .. saves[d])
                   + (IF pc = "write" /\ Head(todo) = d THEN Cardinality(batch) ELSE 0)
      /\ pc = "done" => manifest[d] = valid[d]

\* No row is passed over: while a dataset has an open stream, every valid row
\* it has given out is in a file of this invocation, or about to be.
NoRowSkipped ==
  Running =>
    \A d \in open : \A i \in Valid(d, 1 .. pos[d]) :
      \/ \E k \in 1 .. saves[d] : i \in disk[d][k]
      \/ pc = "write" /\ Head(todo) = d /\ i \in batch

\* Errors are never retried (pipeline.py:117-119): a dataset that met an error
\* is not read again by this invocation.
FailedNotRead == Running => failed \cap (open \cup Range(remaining)) = {}

\* A dataset is read row by row until its stream ends or breaks, and not after
\* it broke, whatever happens to the datasets whose turn is in between.
ReadThrough == NoRowSkipped /\ FailedNotRead

\* Every valid row of dataset d is in a file of this invocation.
AllRead(d) ==
  \A i \in Valid(d, DOMAIN Rows[d]) : \E k \in 1 .. saves[d] : i \in disk[d][k]

\* run() gives up before the target is reached only when there is nothing left
\* to read (pipeline.py:114-115): every dataset that did not fail is stored from
\* its first row to its last, although a cycle without progress ends the loop
\* and a dataset is dropped by the answer to a request for more.
ShortOnlyWhenAllRead ==
  pc \in {"finish", "done"} /\ total < Target => \A d \in Datasets \ failed : AllRead(d)

\* A dataset that is opened again after its last batch, because that was short,
\* and never gives a valid row: it makes progress in every cycle and adds nothing.
Barren(d) == Len(Rows[d]) % BatchSize # 0 /\ Valid(d, DOMAIN Rows[d]) = {}

OnlyBarrenLeft == remaining # <<>> /\ \A d \in Range(remaining) : Barren(d)

\* While the streams answer, run() ends, as pipeline.py:114-115 says (the target is
\* reached or every dataset is exhausted or failed), or comes to schedule barren
\* datasets only, which it reads again for ever (pipeline.py:165-240): whichever
\* datasets fail or end in between, and although most are read more than once.
Terminates == WF_vars(StreamStep) => [](Running => <>(~Running \/ OnlyBarrenLeft))

=============================================================================
