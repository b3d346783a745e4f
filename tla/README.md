# EpochDeck in TLA+

A verification project for EpochDeck, a self-hosted experiment tracker: a Python
SDK that journals what a training run logs and delivers it to a Rust server, the
server that stores it in SQLite and Parquet, and a browser dashboard. The modules
here are written from the source under `src/`; where a document and the code
differ, the code is modelled and the difference is a run of its own.

## 1. The system

### 1.1 Components, their state and their operations

| Component | Source | State | Operations |
|---|---|---|---|
| Spool | `python/src/epochdeck/_spool.py` | per stream a journal, an ack file, a delivery file; `run.json`; blobs; `spool.lock` | open with tail recovery, append, read a batch, acknowledge, checkpoint, reclaim |
| Delivery worker | `_delivery.py` | stream cursor, last error, three events, exit flag | wait, deliver one record or batch, retry with back-off, stop, cancel |
| Run | `_run.py` | sequence and step counters, summaries, finished/finishing/closed | create/resume, log, alert, artifacts, finish, close, `sync_spool` |
| HTTP client | `client.py`, `_protocol.py` | connection pool | one call per endpoint, with validation of answers |
| Server handlers | `crates/epochdeck-server/src/lib.rs` | run locks (striped), project locks, admission semaphores, blob staging | create/finish runs, ingest, alerts, rich values, artifacts, blobs, queries |
| Compaction worker | `compaction.rs` | the pass in progress, cancellation flag, snapshot guard | retire, choose, build, swap, unlink |
| Catalog | `crates/epochdeck-catalog` | SQLite tables | one transaction per operation |
| Metric and blob stores | `crates/epochdeck-storage` | files, staging files | install without replacing, merge, read, sample, remove |
| Chart cache | `chart_cache.rs` | bounded maps by run revision | lookup, insert, evict |
| Importer, exporter, backup | `wandb_importer.py`, `_wandb_state.py`, `exporter.py`, `backup.py` | checkpoint file, project token, manifest | resumable import, checked traversal, snapshot and restore |
| Dashboard | `web/src` | schedulers, caches, selected resources | bounded requests, cancellation, merging late answers |

### 1.2 How they interact

`Run.log` appends a line to `events.jsonl` under the spool's thread lock, fsyncs
it and wakes the worker. The worker fixes a range of lines in `delivery.json`,
posts them, and after a 2xx answer replaces `ack` and unlinks `delivery.json`. The
server runs `process_ingest_batch` in a task of its own under the run's lock: it
asks the catalog whether it knows the batch, writes and installs a Parquet file
and registers both in one transaction. The compaction worker takes no run lock: it
merges adjacent segments into a new file, swaps the rows in one transaction under
the exclusive snapshot guard and unlinks the sources, which stay in a retirement
table until they are gone. Queries hold the guard shared from the manifest to the
last file they read.

### 1.3 What is hard

* **Delivery.** Answers are lost, requests arrive twice or after their client gave
  up, the process dies between any two file operations, points are appended while
  a batch is in flight, appends fail half-way.
* **Storage.** SQLite and the directory cannot change together: a file exists
  before its row and outlives it. A commit may report an error and have happened.
  Ingestion, compaction and queries overlap.
* **Lifecycle.** The answer to finish can be lost; the spool is reclaimed file by
  file; a cancelled worker may still own it.
* **Copies of everything.** An import that takes hours ends early in every way there
  is; a restore renames three trees and loses power in between; a project changes
  while it is exported.
* **Requests.** Locks chosen by hash, permits, a snapshot that the compactor takes
  whole, clients that hang up or read slowly.
* **Policy.** Which segments are merged decides how often a row is rewritten, and
  whether compaction can be stuck on one seed.

`PROJECT.json` lists each hazard at its line with the properties that cover it.

### 1.4 What makes each part correct

* Delivery: each point is on the server once, in order, none is skipped by an
  acknowledgement, a request in flight never changes, nothing is refused, every
  point arrives, the spool can always be reopened.
* Storage: no row names a missing file, no query meets one, what is read does not
  show compaction, no file is leaked while nothing crashes, retired files go.
* Policy: a seed survives to be merged, rewrites are logarithmic.
* Documents and artifacts: both sides derive one preview from one log, up to what the
  server's parser makes of its numbers; an alias names the newest version that asked
  for it.
* Import: the checkpoint never promises what the server does not hold, what is sent
  again is what was sent, a finished run is whole, an import can always go on.
* Backup and export: a copy is the state of one moment, a failed restore leaves no
  trace, a catalog never names what is not there.
* Requests: none waits in a circle, and only transfers wait for clients.
* Worker: no wake-up is lost, no stream is starved, the spool is locked while
  anyone may use it and released in the end, only a drained spool is finished.
* Lifecycle: what `run.json` says, what the server says and what the journals hold
  agree after every crash and every lost answer; nothing is reclaimed that the
  server does not have.

## 2. Modules

| Module | What it models |
|---|---|
| `RunLog` | What the server promises about one run: batches accepted in order, duplicates recognised, conflicts refused. The contract between the two sides. |
| `ReliableCopy` | What delivery promises: a growing source is copied in order, once. |
| `Delivery` | SDK process, spool files, worker, HTTP exchange, composed with `RunLog` as the server. |
| `DeliveryWorker` | The worker's loop over four journals and the threads that wake, stop and cancel it. |
| `RunLifecycle` | Create, resume, finish, reclaim and sync between `run.json`, the journals and the server. |
| `SegmentStore` | Ingest tasks, compaction, queries, restarts on files and rows; implements `RunLog`. |
| `CompactionPolicy` | `next_compaction_candidate` and its effect on the segments of a run. |
| `WandbImport` | The import of one W&B run: the worker, its transfers, the checkpoint file and the target run, on `RunLog`. |
| `Archive` | What a copy of stored data promises: one moment, published whole, restored at once. |
| `BackupRestore` | `backup.py` on three roots beside servers, under power loss; implements `Archive`. |
| `Export` | `exporter.py` page by page beside writers; implements `Archive`. |
| `MetricPreview` | The preview of a run's latest metrics as the SDK and as the server merge it. |
| `ArtifactRegistry` | Versions and aliases of one artifact collection. |
| `RequestPaths` | What each kind of request waits for and holds on its way, and the compactor. |
| `Selection` | What a query selects from a sequence, as a recursive function, which the provers can unfold. |
| `Delivery_proofs` | Theorems about `Delivery`. |
| `DeliveryWorker_proofs` | Theorems about `DeliveryWorker`. |
| `RunLifecycle_proofs` | Theorems about `RunLifecycle`. |
| `SegmentStore_proofs` | Theorems about `SegmentStore`. |
| `BackupRestore_proofs` | Theorems about `BackupRestore` and `Export`. |
| `WandbImport_proofs` | Theorems about `WandbImport`. |
| `Parts_proofs` | Theorems about `ArtifactRegistry`, `MetricPreview`, `RequestPaths` and `CompactionPolicy`. |
| `SequenceLemmas` | What selecting, concatenating and slicing sequences yields, by induction on numbers. |
| `MCDelivery`, `MCDeliveryWorker`, `MCRunLifecycle`, `MCSegmentStore`, `MCWandbImport` | Instances for TLC. |
| `MCParts` | One instance for the six parts that share no state: `CompactionPolicy`, `BackupRestore`, `Export`, `MetricPreview`, `ArtifactRegistry`, `RequestPaths`. |

`MCParts` chooses a part at the start and lets that one move. Its states are the sum
of the parts', not their product, and its properties are those of the parts: a
property about one part is trivially true where another moves. They are separate
processes, or separate tables of the catalog, and nothing one does is read by another.

`Delivery` uses `RunLog` as its server; `SegmentStore` shows (run
`SegmentStore_files`, property `ImplementsRunLog`) that the files under compaction
behave as that server. The two meet in `RunLog`, so neither model has to contain
the other.

### 2.1 Delivery and the code

* Offsets are byte offsets of record boundaries in the code; here they count
  complete lines. Bytes after the last newline are the flag `torn`. A line that
  does not parse is `Garbled`.
* `_atomic_text_write` (temporary file, fsync, replace, fsync of the directory) is
  one step: a crash inside it leaves the old or the new file, which is a crash
  before or after the step.
* An append (`write`, `flush`, `fsync` under the lock) is one step when it
  succeeds. `Crash` may leave `torn`; `LogInterrupted` is an append that raises in
  a process that goes on, with half the line ("torn") or all of it ("unreported")
  in the file. The constant `AppendFaults` says which of the two may happen.
* `Resume` is `create_run` with its answer. A call that fails leaves the process
  `opened`, from where `Crash` or `Resume` follow; a caller that lets go of the
  run is the first of these.
* `_read_record_batch` stops at the count limit, at the end of the file or before
  the record that would exceed the byte budget. The budget is abstracted to "it
  may stop at any readable line" (`MayTake`).
* `GiveUp` is an exception out of the HTTP call. The request may have been handled,
  may be handled later, any number of times (`stale` keeps it until `DropStale`).
* Of a point the sequence and an identity are kept: the digest of a batch
  (`request_sha256` on the client, the digest of the manifest on the server)
  distinguishes exactly what these distinguish, as the step and timestamp of a
  point are assigned once.
* `batch_status` and `register_batch` are one step of the server here. Their
  interleavings are the matter of `SegmentStore`.

### 2.2 DeliveryWorker and the code

* What `Delivery` shows of one journal is not repeated: a delivery succeeds or
  fails, and of each journal the number of unacknowledged records is kept. A
  number stands for a whole batch of metrics.
* `place` is the worker's program counter. `CheckStream` and `ChooseStream` look at
  one journal per step, because each takes the spool's lock by itself and records
  can be logged in between. `pending` asks in another order (metrics, alerts, rich
  values, artifacts) than `_next_delivery` (metrics, rich values, artifacts,
  alerts), hence `CheckOrder`.
* `wait` with a timeout may end at any time, so it has no guard on the event; only
  the wait at line 80 has none and is guarded. The `clear` behind a wait belongs to
  its step: an event set between the two could have been set before.
* `owner` is "run" for the worker of a `Run` and "sync" for the one of `sync_spool`,
  which starts, stops and joins it and cancels it whatever happens. The steps of
  `stop` and `cancel` are apart, as their order matters; `cancel` and the end of
  `run` take the exit lock and are one step each.
* A caller may call `finish` again after it failed and `close` again after it gave
  up. `join` returns because the worker has ended or the time is up.

### 2.3 RunLifecycle and the code

* Records are counted per stream: "metrics", and "others" for rich values, alerts
  and artifacts, which do not show in the summary. (Nor do metrics of the system
  sampler; they are not told apart from the others here.) A process is at one
  `proc`; the worker's deliveries are `StoreRecord` and `Acknowledge`.
* The metric-derived summary of the first *n* metric records is *n*. `Recovered` is
  `recover_summary`: the saved preview, brought up to date with the tail of the
  journal behind the saved offset. The explicit summary is one key with a value
  from `Explicit` or none, so merging is "a given value wins" (`Over`).
* What comes back from the server has been through its JSON parser. `serde_json` is
  taken without its feature `float_roundtrip` (`Cargo.toml:28`), so a number may come
  back as the one next to it: 9.200864349327219 is read as 9.20086434932722. Python
  reads exactly and compares exactly. `Parsed` is what the parser makes of an explicit
  summary (`Read`), in a request and each time it loads the document. The derived
  summary is read with every batch, so what it comes to depends on the batches;
  `Served` gives what the server answers with when it has *n* records. It has *n* of
  them once in a behaviour (`StoreRecord` only adds), so one function stands for the
  batches of one behaviour, and the theorems are about every function.
* `UpdateSummary` is `_update_summary`: it saves, and online sends the update and merges
  the answer. If it is refused or its answer is lost, the caller gets an exception and
  the server handles it now, later (`UpdateLate`) or never.
* `create_run` is asked in `creating`: `Created` on success, `Concluded` when it is
  refused and the finish of an earlier process is recognised, `NotCreated` for any
  other refusal and for no answer.
* A finish request whose client gave up or died joins `late` and is handled later
  or lost. Its field `made` is a history of what had been logged when it was sent;
  no action reads it.
* `reclaim_delivered` takes its steps one by one (`reclaimed` counts them), so a
  crash or an `OSError`, which becomes a warning, can come between any two.
* A metrics request that repeats a batch is acknowledged by a finished run, since
  `batch_status` looks at the batch first; the other records are refused then.

### 2.4 SegmentStore and the code

* A segment path is derived from what the file holds (the batch and its digest; for
  a merge the inputs), so a file is its path. `install_no_replace` leaves an
  existing file alone and says so (`fresh`, `outputFresh`).
* Each ingest task is a small program: `LockRun`, `CheckBatch`, `WriteBatch`,
  `RegisterBatch`/`RegisterFails`, `VerifyBatch`, `RemoveBatch`. It is a tokio task
  of its own, so a client's disconnect does not interrupt it.
* `Failures` says which calls may fail: "catalog" is a transaction that does not
  commit, "commit" one that does and reports an error all the same. "shutdown" is
  the worker's cancellation flag, looked at where the code looks at it.
* The snapshot guard is a tokio `RwLock`, which is fair: a reader that arrives
  while the worker waits has to wait (`WaitsForGuard`).
* A sampled query reads all its pages under one guard up to an extent read first;
  an unsampled history is one request per page, joined by the client's cursor.
* `Stuck` are files that the file system refuses to remove for good; a removal of any
  other may fail too ("remove"), but not for ever. A pass goes on to the next file
  of its batch and then to compaction.
* Which adjacent segments are merged is left open (`Candidates`): the safety of the
  swap does not depend on it. `CompactionPolicy` models the choice.
* Sequences begin at 0, and `metric_extent` and `list_segments` bind -1 where there is
  none (`MaxSequence`, the cursor of a query). A request is a batch of rows, never
  empty (`RequestsAssumption`: `validate_batch` refuses one).
* `Restart` forgets everything but rows and files. SQLite runs in WAL mode with its
  default synchronous level, so a commit that was reported is kept.
* The retirement table is ordered by the order of retirement. The code orders by a
  timestamp of one second and then by path; the difference is the order in which
  files of the same second are removed.

### 2.5 CompactionPolicy and the code

`Small` and `Seeds` are the first query (window functions over the segments below
the target), `FromSeed` and `Extension` the second query and its loop. `rewrites`
is a history variable: how often the most often rewritten row of a segment has
been rewritten. The code looks at all runs at once and takes the first seed; one
run suffices here, since a seed that is good for one run is never rejected
(`SeedsAreCandidates`).

### 2.6 WandbImport and the code

* `pc` and `todo` are the worker's place in `_import_one_run`: what it does to the
  outside is a list of tasks (a batch, a shard of run files, a creation, a finish,
  an update of the checkpoint), and an attempt may end before, between or after
  any two. A row of the source is the number of points it becomes, their bytes, its
  media and its skipped values; `ScanRow` is the body of the loop of
  `_import_history` (flush on size, on bytes, split of wide rows, cadence).
* Media and artifacts are uploaded by threads of their own (`UploadMedia`,
  `UploadArtifact`) and collected in the order they were submitted (`DrainMedia`,
  `CollectArtifact`). The media watermark is a row whose media are all done.
* Four ways to end an attempt: `Refuse` (a check, or the server), `Fail` (a call
  that raises, whether or not it took effect; an update of the checkpoint that fails
  while the later ones, of the watermark and the status, succeed, is one before that
  update), `Kill` (the process, or a checkpoint that cannot be written any more), `Interrupt`
  (Ctrl-C does not wait for workers, which may complete the one call they were about
  to make: `LateTask`). `LoseCheckpoint` removes the file between two attempts.
* The contents of points are tagged with the source's revision, so a batch sent
  again after the source has changed differs from the first.
* Abstracted: `include_files` is the same in all attempts; a late transfer of media
  is idempotent and not modelled; single reads of W&B are retried inside `Fail`; the
  checkpoint's line is appended whole (its torn tail and compaction are not
  modelled). `FinishedIsWhole` excludes the summary, and the recovery properties the
  case, where the late task is an update of the checkpoint: a worker of the
  interrupted process then overwrites what a later process has saved.

### 2.7 BackupRestore, Export and Archive

* A root is its set of top-level entries, which is what `restore_storage` renames.
  `shown` is what programs see, `disk` what a power loss leaves; `_fsync_directory`
  copies one to the other, `_fsync_directory_tree` makes entries `solid`.
* The locks of the three roots are taken one by one, by the tool and by servers; the
  second server shares only the blobs. `Fail` enters the rollback from any step of a
  restore, which unlinks in reverse order and may itself fail (`EndFailed`).
* The exporter's `before`, `page` and `PagesRead` are the cursor of
  `_cursor_records`; lists are newest first, so what is created during the export
  appears before the cursor or on a later page. `CreateArtifact`, `CreateRun`,
  `LogToRun` and `FinishRun` are the writers; each is one transaction and raises
  the token by trigger. Only a running run writes and none is opened again, so a
  project can hide a change from the exporter's checks of run states, but not from
  the token.
* Both promise `Archive`: with the roots' contents, and with the project, as `store`.
  The mappings say when a copy is `captured`: with the snapshot of the catalog for a
  backup, and with the first token for an export.

### 2.8 MetricPreview, ArtifactRegistry and RequestPaths

* In `MetricPreview` a point is the set of its keys, and logs one number (`Logged`)
  under all of them. A value of a preview is a number and the point it came from,
  which shows which value was kept. The SDK merges at each `log` (`MergePoint`), saves
  the preview with the number of points it counts (`SavePreview`) and replays the rest
  (`RecoverPoint`); the server merges what a batch comes to (`StorePoints`).
* The server reads a number with `Parsed` in the request, again in the stored preview
  with each batch that follows, and again when it answers (`Read`), so the number it
  answers with depends on how many batches came behind. The SDK's own values win over
  those of an answer (`MergeAnswer`), but a resumed run with a fresh spool has only
  the answer. `PreviewsAgree` therefore has two parts: which point each value is of, and
  of the number that it is a reading of that point's (`PreviewsFollowTheLog`,
  `Readings`); and that the two previews are equal once everything is delivered, if the
  parser keeps the numbers in them (`ExactPreviewsAreEqual`). That is the premise
  under which `RunLifecycle` has a lost finish recognised (`NumbersAreKept`).
* In `ArtifactRegistry` an ID is asked for with one request, which may be handled at
  any time and again. What it is refused or answered with changes nothing and is not
  a step.
* In `RequestPaths` a handler is the sequence of its waits: the lists of
  `acquire_mutation_locks`, permits, the snapshot, awaits of the catalog and jobs of
  the blocking pool. A handler whose client hangs up is dropped at its next await
  with all it holds, but for what a blocking job owns and for an ingest task, which
  is spawned once it holds its run's lock. Hash collisions are the choice of any
  of the `MutationLocks` stripes, which a path takes in ascending order (`Locks`). `HoldSnapshot` needs the readers gone, and readers wait behind a waiting
  compactor, as tokio's fair `RwLock` does. Limits that are only tried (admission,
  streams) make no one wait.

## 3. Runs

| Run | Question | Bounds |
|---|---|---|
| `Delivery` | Is delivery exact and complete under losses, repetitions, crashes and appends that fail? While none has failed, is nothing refused and the spool never stuck? Is the proofs' invariant an invariant? | 4 points, batches of up to 2, checkpoint every 2, 2 crashes, both faults |
| `Delivery_interrupted` | Does a point whose `log` call returned stay in the journal when an earlier append was interrupted? (no) | 3 points, no crash |
| `DeliveryWorker_calls` | Is the spool owned while it is used and released in the end, only a drained one finished, every stream tried although all deliveries may fail? Does a stop end the worker? | 3 streams, 2 loggers, 1 pending record each |
| `DeliveryWorker_stop` | Has a worker that was stopped delivered what is pending? (no) | 2 streams, 1 logger, 1 pending record each |
| `RunLifecycle` | Is a run finished, and its spool reclaimed, only with everything stored? Is a finish with a lost answer recognised, if the server's parser keeps the numbers? Is the proofs' invariant an invariant? | 2 metric and 1 other record, 2 summary values, of which one is read as the other, the derived summary of 1 record not kept and that of 2 kept, any number of crashes, updates, resumptions, syncs and late requests |
| `RunLifecycle_sync` | Has a spool that was synced been uploaded? (no) | 1 record of each kind, 1 summary value |
| `SegmentStore_files` | Does any row name a missing file, whatever fails? Do rows and files implement the log? | three batches and a conflicting one, 1 task, all failures, 1 restart |
| `SegmentStore_reads` | Do overlapping queries read exactly, and is every file somebody's? | three batches, 2 tasks, pages of 1 segment, 2 rows, 1 query, failed and ambiguous transactions, shutdown |
| `SegmentStore_fair` | Are requests answered and retired files removed, though one file cannot be? | two batches, 2 tasks, 1 query, 1 restart, 1 stuck file, passes of 2 files |
| `WandbImport` | Is the checkpoint true, is what is sent again known, is a finished run whole, does the import complete? | 4 histories of up to 3 rows, 3 files, 2 artifacts, batches, windows and chunks of 2, 2 early ends, 2 revisions |
| `WandbImport_rerun` | Can a failed attempt always be resumed? (no) | 1 early end, 1 revision |
| `Parts` | Do the two compaction queries agree, are rewrites logarithmic? Are backup and export of one moment, is a failed restore undone? Do the previews agree, and are they equal where numbers are kept, do aliases name the newest, does nothing wait in a circle? | policy: 2 schemas, sizes 1, 2, 8, 10 rows, target 8; backup: 3 entries (1 of metrics, 2 blobs), 2 servers, 3 mishaps; export: 3 artifacts, 2 runs, pages of 2, 3 changes, 1 abort; preview: 4 keys of which 2 fit and 1 is a system key, 3 points, a number that is kept, one that is not and one that takes two readings to settle; registry: 3 IDs, 3 versions; requests: 3, of which 2 admitted, 2 mutation locks, 1 permit per pool, the compactor |

Why these suffice: a batch limit of two makes a batch that ends at the limit and
one that ends with the journal differ; four points give two batches and a retry
that could grow; two crashes let a recovery be interrupted. Two tasks are the
least that compete for a file; `SegmentStore_files` has one, which can be given any
batch at any time, since the run lock lets one task work at a time and only the
waiting would be new. Three batches are the least for which a swap has a neighbour
that arrived meanwhile, a page that is full and a cursor inside a merged segment.
With three streams there are two others between a stream's turns, of which one is
looked at before and one after in both orders; a record is renewed as soon as it is
acknowledged, which is enough to keep a stream busy for ever. Two metric records give a summary a checkpoint can be behind
of, in front of a tail. In `CompactionPolicy`
the ratio of two is the code's own; a window of three instead of four segments is
the least for which the ratio makes each rewrite double a row's segment, a target
of eight rows admits three of them. `MinInputs` is 2 in `SegmentStore`, where only
the presence of several inputs matters. The histories of `WandbImport` have batches
that fill up, that overflow by size and that a wide row cuts short, rows without
metrics and more media than the window; two early ends let a recovery fail. Three
mishaps let a rollback fail and lose power after a restore that had failed; with two
of them the first forms of `FailedRestoreIsUndone` and of `Archive`'s crash held though
they were too strong (section 4.3). Three artifacts are two pages; three changes are
a run that starts, takes an alias and finishes. Three keys that count, of which two
fit, let a key be pushed out and come back. Two requests with two stripes can wait for
each other, a third is the task or job that a client left behind; one permit per pool
is the hardest case. Ingest tasks and requests are
symmetric.

The type invariants of `Delivery`, `DeliveryWorker`, `RunLifecycle`, `SegmentStore` and
`BackupRestore` are proved (section 4); those of `WandbImport` and `CompactionPolicy`
are stated in their modules and can be added to the configurations, where they hold.

`Delivery`, `Delivery_interrupted`, `Parts` and the runs of `DeliveryWorker`
switch deadlock checking off: after an interrupted append
delivery may stop for good, a worker that has ended stays so, and the parts end at
their bounds. So do the runs of `RunLifecycle`: a run whose finish cut off later
records, or whose lost finish is not recognised, can be neither resumed nor finished.

### 3.1 Fairness

`Delivery`: weak fairness of the worker's own steps (`run` loops for ever and
sleeps at most five seconds), of reopening and resuming (a stopped process is
started again, as the documentation asks), and strong fairness of the server's
answer and its receipt: an exchange that is repeated for ever is not lost every
time. Nothing is assumed of `Log`, `Crash` or `GiveUp`.

`DeliveryWorker`: weak fairness of the worker's next step, of the caller's next
step once it has called something, and of the notification that follows an append
(they are threads of one process, and every wait has a timeout or is the one whose
wake-up is in question); strong fairness of `CheckStream`, a look at the files that
does not fail for ever. A server may refuse a stream for ever: `NoStreamStarves` and
`OwnershipEnds` hold all the same, `StopEnds` allows for it. Nothing makes a program
log, finish or close.

`SegmentStore`: weak fairness of each task's and query's next step and of the
worker (tokio runs what is ready; the worker starts a pass at least every
interval), and strong fairness of taking the run lock, because a tokio mutex
queues its waiters. `RetiredAreRemoved` needs a pass that is larger than the number
of files that cannot be removed: with `RetirementBatch = 1` and one such file it
fails, as the code would with 64 of them.

`WandbImport`: weak fairness of starting an attempt (an import that failed is run
again, as the documentation asks), of the next task and of the worker's and its
threads' next step. `ImportCompletes` asks for a source that stays as it is and a
checkpoint file that is not removed; `Fail`, `Kill` and `Interrupt` are bounded, as
an import that is always interrupted does not complete.

### 3.2 The disagreements found

**An interrupted append takes the next record with it** (`Delivery_interrupted`).
ADR 0018 says that records returned successfully by `log` remain and that an
interrupted call's incomplete append is reported and removed. It is removed only
at the next start. When an append raises half-way and the program catches the
exception and logs again, the fragment and the next record become one line that is
not JSON: the second call returned normally, its record is lost, and delivery
stops at the line. The other safety properties survive (`Delivery`): the
server still holds a prefix of the journal.

**A stop can overtake a record** (`DeliveryWorker_stop`). The worker asks whether
anything is pending and then whether it was stopped. If the last record is logged
and `finish` called between the two, the worker ends with the record pending.
`finish` notices (`FinishedIsDelivered` holds) and raises "timed out with
undelivered data" without having waited, and calling it again does not help, since
the worker is gone; the run has to be closed and resumed. The Python README says
that `finish` still delivers pending data.

**A sync can overlook records** (`RunLifecycle_sync`). When the run is finished on
the server, `sync_spool` compares the two summaries and returns; unlike resuming,
it does not ask whether records are pending. A finish whose answer was lost,
followed by `mode="offline"`, an alert, an artifact or an image (none of which
shows in the summary) and a finish offline leads there: `sync` reports success and
the record stays in the spool. A metric would change the summary and be noticed
unless it leaves every latest value as it was.

**A lost finish is not always recognised** (no run of its own: with
`LostFinishIsAlwaysRecognised` as the invariant of `RunLifecycle_sync.cfg` TLC finds it
in 11 states). When the answer to finish is lost, the next process meets a 409 and
compares the finished run's summary with its own, value by value with `==`
(`_run.py:346`). The server's values went through its parser at least twice, in the
batch and when the answer was made, and that parser may be one unit in the last place
off (section 2.3). Then the process raises the conflict, and so does every later one:
the run is complete on the server, and its spool can be neither resumed nor synced and
keeps its journals for good. It takes a lost answer, or a process that ends before it has
saved it, and a number with 16 or 17 digits, of which about one in ten is not kept. ADR
0003 (lines 60-62) says that a conflict followed by a matching finished run proves that
a lost response committed. It does, but the summaries need not match. The test of it
(`python/tests/contracts/test_lifecycle_contract.py:376`) logs 1.0, against a fake
server that keeps Python's numbers. The repeated sync of a spool (`_run.py:980`) makes
the same comparison.

**A failed re-run spoils a completed import** (`WandbImport_rerun`). A run is taken for
complete while its status in the checkpoint says so. When the import is run again and
one read of W&B fails before that is looked at, the status becomes "failed" and the
phase stays "complete"; from then on the importer finds the target finished, does not
know the phase as one to recover from and refuses the run, in every later attempt. ADR
0010 calls running an import again safe.

## 4. Proofs

### 4.1 Delivery, worker and lifecycle

`Delivery_proofs` proves, for every batch limit, checkpoint interval, set of append
faults and bound (assumptions `LimitAssumption`, `FaultAssumption`,
`BoundAssumption`):

| Theorem | States |
|---|---|
| `TypeCorrectness` | `Spec => []TypeOK` |
| `Invariance` | `Spec => []DeliveryInv` |
| `ExactlyOnce` | `Spec => []StoredIsPrefix` |
| `NothingSkipped` | `Spec => []AckedIsStored` |
| `BatchesAreImmutable` | `Spec => []OneBatchInFlight` (a part of `DeliveryInv`) |
| `Refinement` | `Spec => CopiesReliably` |
| `JournalIsWhole` | `Spec => []WholeInv` |
| `WholeJournalIsWelcome` | `Spec => []NothingRefused` |
| `ReturnedIsKept` | `Spec => []CrashesLoseNothing` |
| `SpoolCanReopen` | `Spec => []CanReopen` |

`StoredIsPrefix` alone is not inductive: accepting a request keeps it only if the
request is the next part of the journal. `DeliveryInv` says where requests come
from. At any time there is at most one unregistered request, the body of
`delivery.json`, and it is the part of the journal behind the acknowledgement
(`DeliveryIsSlice`, `OneBatchInFlight`). The server is at the acknowledged line or
has exactly this request more (`ServerIsAtBoundary`). Every registered batch lies
in the stored part (`BatchesAreStored`) and readable lines carry distinct
identities (`PointsAreDistinct`, `PointsAreNumbered`), so the next request chosen
cannot be one that is already registered; without this a stale duplicate could
pass for the new one. `WorkerHoldsDelivery` ties the worker's place to these.
`TypeOK` is proved first and the rest is proved relative to it. The refinement adds
that the journal only grows and `stored` only advances along it.

The last four theorems are about a spool in whose life every `log` call has returned
(`AppendsAreWhole`): the properties have that as a premise, for every value of
`AppendFaults`, and crashes and lost answers are not restricted. `WholeInv` says what
the journal looks like then. Its *i*-th line is the *i*-th point and carries the sequence
*i*; the process knows where the journal ends; `run.json` is behind it by no more than
the points counted since, which is within the bound of a tail, and an incomplete line
exists only between two processes (`WholeLines`, `ProcessIsInStep`). So a batch begins
where the server ends and its sequences are consecutive, which is what the server asks
of a batch it does not know (`RunIsOpen`: it refuses none); the lines up to the
acknowledgement, the delivery and the checkpoint are complete, which is what opening
asks of a spool. A call that does not return ends the premise for good, whether or not
its line is in the file, so the invariant needs no case for it.

`DeliveryWorker_proofs` proves, for any number of streams, any order of looking at
them and any number of logging threads:

| Theorem | States |
|---|---|
| `TypeCorrectness` | `Spec => []TypeOK` |
| `SpoolIsOwned` | `Spec => []OwnsWhileActive` |
| `FinishIsComplete` | `Spec => []FinishedIsDelivered` |

`TypeOK` needs that what is being delivered is pending (`DeliveredIsPending`), so
that an acknowledgement never counts below zero. Ownership rests on `LockInv`: the
exit flag says exactly that the worker has ended, an open run has no caller in
`cancel` or `close`, and `close` reaches the unlocking only with the worker ended.
`FinishInv` says that from a successful join on the worker has ended, the run is
not open and nothing is pending; it is stable because nothing that is left running
can log or acknowledge.

`RunLifecycle_proofs` proves, for any numbers of records, any summary values and
whatever the server's parser makes of them and of the derived summaries
(`ExplicitAssumption`, `RecordAssumption`, `ParserAssumption`):

| Theorem | States |
|---|---|
| `Invariance` | `Spec => [](TypeOK /\ LifecycleInv)` |
| `FinishIsComplete` | `Spec => []FinishedIsComplete` |
| `ReclaimIsSafe` | `Spec => []ReclaimedIsStored` |
| `RequestsCutNothing` | `Spec => []RequestsAreCovered` |
| `LostFinishIsKnown` | `Spec => []LostFinishIsRecognised` |
| `FinishedRunStays` | `Spec => FinishedRunIsFixed` |

Types and invariant depend on each other here: a count stays in its bound because
what is stored was made. The heart is `JournalsAreWhole`: a journal lacks a record
only if its run is finished and the server has all of that stream, so "nothing
pending" means "everything stored" (lemma `DrainedIsStored`), both before and after
reclaiming. `FinishesAreCovered` carries this from the join to the answer, to the
reclaiming and to requests that arrive late; nothing is logged in between, since
only an open run logs. `SummaryIsDerived` is what makes a finish with a lost answer
recognisable: the saved summary and its offset are saved together, so recovery
arrives at the summary of the whole journal, as the server does. The SDK's side holds
whatever the parser does; that the server answers with the same values is the
premise `NumbersAreKept` of `LostFinishIsRecognised`, and section 3.2 says what
happens without it.

### 4.2 The segments of a run

`SegmentStore_proofs` proves, for any number of ingest tasks and readers, any set of
requests, any limits of pages and passes, any number of restarts and any calls that fail
(`SizeAssumption`, `RequestsAssumption`, `TaskAssumption`, `FailureAssumption`):

| Theorem | States |
|---|---|
| `StoreInvariance` | `Spec => []StoreInv` |
| `TypeCorrectness` | `Spec => []TypeOK` |
| `CatalogHasItsFiles` | `Spec => []ActiveHaveFiles` |
| `StoreRefinement` | `Spec => ImplementsRunLog` |
| `NoFileIsLeftOver` | `OnlyTheCatalogFails` implies `Spec => []FilesAreOwned` |
| `QueriesInvariance` | `Spec => []QueriesInv` |
| `ReadersMeetTheirFiles` | `Spec => []ReadersFindFiles` |
| `QueriesAreExact` | `Spec => []ReadsAreExact` |

`ActiveHaveFiles` is lost if someone removes a file that has a row, or gives a row to a
file that someone removes. `StoreInv` says who can. A task past the run lock is the one
that holds it (`OneAtATime`); it registers what it has found unknown and has a file, and
removes what has no row (`BatchesAreKnown`, `IngestIsSafe`). A merge's sources are
adjacent active segments up to the swap, since a batch registered meanwhile goes behind
them (`SourcesAreAdjacent`), and its output has a file before and no row after
(`CompactionIsSafe`). The rest of what is removed is retired, and no retired path is
active: it was merged into a segment that reaches further on at least one side, and
the active ones hold the history in order, each row once, so none can lie inside
another (`RetiredAreCovered`, `HistoryInOrder`, lemma `RetiredAreNotActive`). That is
where the naming of files by their contents matters: a merge of the same sources gets
the same name, and could otherwise retire a file that comes back.

That a swap does not change the history (`SourcesReplaced`) is the heart of the
refinement: `Replaced` selects by first and last sequence, and only because the
sources are adjacent in an increasing history does that take out exactly them.

`FilesAreOwned` needs hypotheses, and they are the ones the code needs: a killed process,
an unlink that fails and a question to the catalog that fails each leave a file nobody
will remove. Under `OnlyTheCatalogFails` (no restart, nothing stuck, and of `Failures`
neither "write" nor "verify" nor "remove") transactions may still abort or commit and
report an error, and the worker may be cancelled anywhere. `Owners` is what has to be
known besides: the flags `fresh` and `outputFresh` are up as long as the file may have to
be removed. Run `SegmentStore_reads` is an instance of the hypotheses.

`QueriesInv` describes a query by two numbers: it has seen the first *s* rows of the
history and its extent is the *x*-th (`Progress`). What it has fetched is a stretch of the
active segments, from the one that holds the row behind *s* on, up to the extent or as long
as a page (`Fetched`). Batches only append to the history (`ProgressKept`), and the
worker swaps and removes only while no query is in between (`GuardIsHeld`), so the
stretch stays one of active segments, whose files exist: that is `ReadersFindFiles`. A
paged history lets go of the guard between pages, and its cursor, a sequence, is found
again in whatever segments there are then, perhaps in the middle of a merged one.

The lists of the model are built by selecting and concatenating. `SequenceLemmas` proves
what these yield for sequences of any length, by induction; see 4.6.

### 4.3 Backup and restore, export

`BackupRestore_proofs` proves, for any entries, any servers and any number of failures,
power losses and damages (`RootsAssumption`), and for any pages, projects and writers of
an export (`ExportAssumption`, `NoExportAssumption`):

| Theorem | States |
|---|---|
| `BackupInvariance` | `BackupSpec => []BackupInv` |
| `CatalogIsSound` | `BackupSpec => []CatalogNamesFiles` |
| `RollbackIsComplete` | `BackupSpec => []FailedRestoreIsUndone` |
| `BackupRefinement` | `BackupSpec => RestoresWhatWasBackedUp` |
| `ExportInvariance` | `ExportSpec => []ExportInv` |
| `ExportRefinement` | `ExportSpec => ExportsOneMoment` |

A catalog must be sound in the view of programs and on the disk, since a loss of power
makes the second the first (`EntriesLast`); the restore syncs entries before it renames
the catalog over the old one, and `RestoreIsStaged` carries what has been staged,
installed and synced from one step to the next. `RestoreIsUndoable` is the ledger of the
rollback: what is in the roots is what has been noted in `committed` or could not be
removed, and what is still on disk was there before, is noted, or has been removed
without its root having been synced yet. `RootsAreOwned` keeps servers out meanwhile.

The proof changed the model twice. With two mishaps TLC had confirmed that a failed
restore leaves the disk as it was; the proof did not go through, and three mishaps
showed why: when a rollback cannot remove a tree, that tree stays, named by no catalog.
The property now says so (`stuck`). And `Archive` let a crash undo a restore only as a
whole at the moment of the crash, whereas it may become lasting part by part before; its
`lasting` and `Settle` say that now.

An export reads without a lock, so its invariant says nothing of what it holds once the
token has moved: what it reads then is refused in the end, wherever it came from.
`ReadSoFar` says, for the time before, where it is: a page ends at its cursor, so what
has been read of a listing are the entries from the one at hand up to the newest
(`Unread`), and of a run in hand the fields that were asked for. The second look at the
token turns this into what `ExportHolds` keeps for good: the bundle is the project as it
was at the first look, whatever writers do while it is flushed and published. A page, a
run, a flush are then stutters of the archive, each mutation is a change of its store,
and whatever ends an export, forgets what it had captured.

### 4.4 Artifacts, previews, requests, the policy

`Parts_proofs` proves, for any set of IDs, runs and aliases (`RegistryAssumption`), any
keys, any size of a preview and any parser (`PreviewAssumption`, `NumberAssumption`), any finite set of requests, any
number of locks and of permits in each pool (`RequestAssumption`), any schemas, batches
and limits of a compaction pass (`PolicyAssumption`):

| Theorem | States |
|---|---|
| `NewestIsNamed` | `RegistrySpec => []AliasesNameTheNewest` |
| `PreviewsOfBothAgree` | `PreviewSpec => []PreviewsAgree` |
| `NobodyWaitsInACircle` | `RequestsSpec => []NoCircularWait` |
| `PolicyInvariance` | `Spec => []PolicyInv` |
| `SeedsSuffice` | `Spec => []SeedsAreCandidates` |
| `RewritesAreLogarithmic` | `Spec => []RewritesAreBounded` |

The server compares a new version only with the present bearer of an alias. That this
gives the newest of all who asked for it needs two facts of `RegistryInv`: an alias that
was asked for always has a bearer, and the bearer is the newest so far
(`AliasesAreBorne`). `RegisteredWereAsked` says that only an unregistered ID can be
asked for, so a request never changes the aliases of a registered one.

The SDK merges its preview point by point and the server batch by batch, and each drops
keys as soon as there are too many, so what is dropped depends on where one stops
to look. `PreviewInv` says that every preview kept anywhere is the one of the definition:
the first `MaxPreview` keys of all that were logged up to there, each with its last
point and a reading of that point's number. A key that was once dropped has `MaxPreview` keys before it, and these stay; so
it can never come back into the preview and its forgotten value does not matter
(`RetainedFirst`, `RetainedMany`). Hence merging one point, or what a batch comes to,
into the preview of what went before gives the preview of all (`MergePoints`,
`MergePreviews`). Each reading stays in every set the parser does not lead out of
(`ReadKeeps`); for a number the parser keeps, that number alone is such a set, so all
its readings are equal (`ReadExactly`), and the two previews with them.

`NobodyWaitsInACircle` has the order of the resources as its invariant
(`RequestsInOrder`): locks by ascending stripe, then the pools of batches and queries,
then the snapshot. What a request still has to wait for comes after everything it
holds (`Follows`), on every path and for whatever stripes its keys fall on
(`PathsInOrder`, `PassedInOrder`). What holds a permit waits for nothing behind it
but a snapshot or, in a transfer, a client, so a pool drains (`PoolsDrain`). Of the locks somebody waits for, the last is
free or its holder waits for no lock (`LocksDrain`). So there is always someone who
goes on.

The policy asks twice: the first query's windows range over the small segments only, the
second starts from a seed and takes segments of any size. `PolicyInv` says that the
segments of a run lie in a row, so a window of adjacent small segments leaves no room
for a big one between them: it is a stretch of all segments (`SeedIsSlice`), and the
second query takes at least that stretch (`ExtensionOfSeed`). The bound on rewrites
needs `TierAssumption`, that a pass takes more segments than they may differ in size
(four and twice in the catalog): then what is merged has at least twice the rows of each
segment it comes from (`TogetherTwice`), so each rewrite of a row at least doubles its
segment. With a much larger ratio one big segment could be rewritten again
and again with a few rows more.

### 4.5 The W&B import

`WandbImport_proofs` proves, for any histories of rows (`DataAssumption`: a row has
numbers of points, bytes, media and skipped values), any limits of batches, parts,
windows and chunks, any number of files, artifacts, failures and revisions
(`ImportLimits`):

| Theorem | States |
|---|---|
| `ImportInvariant` | `Spec => []ImportInv` |
| `CheckpointTells` | `Spec => []CheckpointIsTrue` |
| `ResentIsWelcome` | `Spec => []ResentIsKnown` |
| `FinishedHoldsAll` | `Spec => []FinishedIsWhole` |
| `FinishedRecovers` | `Spec => []FinishedCanRecover` |

A checkpoint is true if each update is true when it is written, and an update is
decided long before: the list of tasks is made with the locals of an attempt that may
end between any two. So the invariant says of every task that it is right *after the
tasks before it* (`TaskHolds`, `Follow`): an update may claim the points of a batch
that is still to be sent, as long as the batch comes first. What is claimed stays true,
since the target only grows (`Grows`), whoever makes it grow: a thread, a request that
was given up, a task of an interrupted process (`ClaimsInv`, `EffectGrows`,
`ThenFollows`). `LocalsInv` and `MediaInv` say what the worker and its transfers know
at each place: the batch at hand is what lies between the committed row and the row it
has come to, and each medium of a row closed is stored or under way.

That a resent batch is a known one needs more than that it begins at a known sequence:
the server compares whole requests. `IsCut` says where batches end, without reference to
the attempt that cut them. From a row on, a batch takes narrow rows while they fit
and stops at the first that does not, at the limit or at the end; a part of a wide row
begins and ends at multiples of the limit. Two cuts with one beginning have one end
(`CutsEnd`), and every beginning is one at which a stored batch begins or the stored
points end (`Boundary`). So a resumed attempt, which starts from a row watermark and
not from a batch, meets the old boundaries again.

`PlaceInv` and `Whole` carry a finish from the checks that precede it to the server.
Nothing an attempt does can change a finished run. A late `finish` (a request that an
interrupted process leaves behind) finds the target as whole as when it was decided
on, since a target that a finish is meant for lacks nothing anybody could add.
`RecoverInv` needs the two exceptions its property has: a removed checkpoint and an
update by an interrupted process after another has taken over.

The invariant was checked by TLC on the instance of run `WandbImport` before it was
proved; the sums of the properties are recursive functions, for the provers' sake.

### 4.6 What the proofs rest on

`SequenceLemmas` starts from the well-foundedness of the natural numbers, which the
library states without an operator parameter. From it follow that a set of numbers has
a least element (`LeastElement`), and induction with a set in place of a predicate
(`Induction`). So `Only` and `FlattenSeq`, both recursive functions, are what their
equations say (`OnlyDefined`, `FlattenDefined`), and the rest is stated of them: what is
selected from a sequence when the selected elements lie together (`OnlySlice`), how
concatenation distributes (`FlattenConcat`), slices of slices.

Only model-checked is liveness: fairness and ENABLED are beyond the prover.

## 5. Not modelled

See `PROJECT.json` for every component with its reason. Of the modelled parts the
following is left out: contents of points beyond their identity, formats and size
limits of lines, file permissions and descriptors, a corrupted disk, two processes
on one spool (excluded by the OS lock), a server restored from an older backup
under live spools, the contents of the other journals, query sampling and
cancellation, updates of config, lineage, the retries of single W&B reads, imports of
several runs at once, the torn tail and the compaction of the import's checkpoint, a
KeyboardInterrupt between a rename of a restore and its note of it, SQLite's side
files, and the limits of the server that are only tried.

Narrower than the code are these, each where no property turns on it or as said:

* `RunLog` numbers a batch by its first point, as the SDK and the importer do; the
  server's `validate_batch` does not ask for it.
* `DeliveryWorker`: `_next_delivery` cannot raise (`_delivery.py:88`). If a look at the
  journals raises there, the worker waits and starts over, as after a failed delivery.
* `WandbImport`: two outcomes of an update of the checkpoint that fails, after which
  another succeeds. If it is the first of a run and the status is written, the entry has
  no phase and is refused from then on (`wandb_importer.py:2066`). If a part of its
  line is in the file, the next line completes it to one that is not JSON, and the
  checkpoint cannot be loaded any more. Both end in a refusal, of one run or of all,
  and never in a claim; but `ImportCompletes` does not hold then.
* `WandbImport`: `FinishTarget` overwrites the summary of a finished target, which the
  catalog refuses when it differs; a target is finished again only from the phase in
  which its summary is the same.
* `FilesAreOwned` is about failing and ambiguous transactions and cancelled passes. A
  write, a question to the catalog or a removal that fails may leave a file behind
  (section 4.2).
* `RequestsAreCovered` is about what was logged before a finish request. What a later
  process logs, before that request is handled, stays in its spool.

## 6. Plan

1. `_retrying_wandb_reads`: the listing that is read again and checked against the
   identity of what was emitted; several runs of one import.
2. `MinMaxSampler` and the chart lattice as operators against a reference; the chart
   cache.
3. The dashboard's schedulers and caches.
