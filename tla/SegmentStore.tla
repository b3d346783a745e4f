---------------------------- MODULE SegmentStore ----------------------------
(***************************************************************************)
(* The metric files of one run on the server and the catalog rows that     *)
(* name them: process_ingest_batch of epochdeck-server/src/lib.rs, the     *)
(* compaction worker of compaction.rs, the history queries, and what they  *)
(* call in epochdeck-catalog and epochdeck-storage.                        *)
(*                                                                         *)
(* Ingestion runs under the run's mutation lock, compaction does not; the  *)
(* two meet in the directory and in SQLite.  Queries hold the snapshot     *)
(* guard of MetricRuntime shared, the swap and every unlink by the worker  *)
(* hold it exclusively.                                                    *)
(***************************************************************************)
EXTENDS Integers, Sequences, SequencesExt, Selection

CONSTANTS
  Requests,         \* batches that clients may post
  Tasks,            \* ingest requests in progress at a time
  NoTask,           \* the run lock is free
  Readers,          \* history queries in progress at a time
  MinInputs,        \* MIN_COMPACTION_INPUT_SEGMENTS
  MaxInputs,        \* max_input_segments
  RetirementBatch,  \* retirement_batch
  PageLimit,        \* MAX_SEGMENTS_PER_QUERY
  HistoryLimit,     \* limit of a page of unsampled history
  Failures,         \* which of the calls below may fail
  Stuck,            \* files that cannot be removed, whoever tries
  MaxCrashes        \* bound: restarts of the server

ASSUME SizeAssumption ==
  /\ MinInputs \in Nat /\ 2 <= MinInputs /\ MaxInputs \in Nat
  /\ RetirementBatch \in Nat \ {0} /\ PageLimit \in Nat \ {0}
  /\ HistoryLimit \in Nat \ {0} /\ MaxCrashes \in Nat
ASSUME RequestsAssumption ==   \* validate_batch refuses an empty batch
  Requests \subseteq Seq([seq : Nat, id : Nat]) \ {<<>>}
ASSUME TaskAssumption == NoTask \notin Tasks
ASSUME FailureAssumption ==
  Failures \subseteq
    {"write",     \* write_batch or compact_segments
     "catalog",   \* a transaction that does not commit
     "commit",    \* one that commits and reports an error
     "verify",    \* segment_path_is_registered
     "remove",    \* remove_segment
     "shutdown"}  \* the worker is told to stop

VARIABLES
  \* tables of the catalog
  runState,   \* runs.state
  batches,    \* ingest_batches
  active,     \* metric_segments in the order of first_sequence
  retired,    \* retired_metric_segments in the order of retired_at
  \* the metric directory
  files,      \* the segment files
  \* ingest tasks
  pc,         \* where process_ingest_batch stands in each
  request,    \* what each was sent
  fresh,      \* did write_batch say InstalledNew?
  runLock,    \* mutation_locks[mutation_lock_index(run_id)]
  \* the compaction worker
  worker,     \* where compact_once stands
  sources,    \* candidate.segments
  outputFresh,\* did compact_segments say InstalledNew?
  victims,    \* the paths remove_files has not reached yet
  removed,    \* the paths it has removed
  cancelled,  \* its AtomicBool
  exclusive,  \* does it hold the snapshot guard?
  \* queries
  query,      \* per reader: place, mode, extent, cursor, listed, seen
  \* bookkeeping
  crashes

catalog == <<runState, batches, active, retired>>
ingest == <<pc, request, fresh, runLock>>
compaction ==
  <<worker, sources, outputFresh, victims, removed, cancelled, exclusive>>
vars == <<catalog, files, ingest, compaction, query, crashes>>

(***************************************************************************)
(* Segment paths.  A path is determined by what the file holds: the batch  *)
(* and its digest, or the paths of the segments that were merged.          *)
(***************************************************************************)
BatchPath(r) == [rows |-> r, of |-> <<>>]

RowsOf(paths) == FlattenSeq([i \in DOMAIN paths |-> paths[i].rows])

CompactedPath(paths) == [rows |-> RowsOf(paths), of |-> paths]

FirstSequence(p) == p.rows[1].seq
LastSequence(p) == p.rows[Len(p.rows)].seq

Active == ToSet(active)
Registered == Active \union ToSet(retired)

(* The history the active segments add up to.                              *)
Logical == RowsOf(active)

(* -1 stands for None: a sequence may be 0.                                *)
MaxSequence == IF active = <<>> THEN -1 ELSE LastSequence(Last(active))

(* The run's log as its clients know it.                                   *)
RunHistory == INSTANCE RunLog WITH stored <- Logical

NoQuery == [place |-> "idle", mode |-> "none", extent |-> -1, cursor |-> -1,
            listed |-> <<>>, seen |-> <<>>]

Init ==
  /\ runState = "absent" /\ batches = {} /\ active = <<>> /\ retired = <<>>
  /\ files = {}
  /\ pc = [t \in Tasks |-> "idle"] /\ request = [t \in Tasks |-> <<>>]
  /\ fresh = [t \in Tasks |-> FALSE] /\ runLock = NoTask
  /\ worker = "idle" /\ sources = <<>> /\ outputFresh = FALSE
  /\ victims = <<>> /\ removed = {} /\ cancelled = FALSE /\ exclusive = FALSE
  /\ query = [q \in Readers |-> NoQuery]
  /\ crashes = 0

(* LIMIT.                                                                  *)
AtMost(n, s) == SubSeq(s, 1, IF Len(s) < n THEN Len(s) ELSE n)

(* remove_segment.                                                         *)
MayRemove(p) == p \notin Stuck
MayKeep(p) == p \in Stuck \/ "remove" \in Failures

(***************************************************************************)
(* Runs.  create_run and finish_run hold the run lock throughout.          *)
(***************************************************************************)
CreateRun ==
  /\ runLock = NoTask
  /\ runState = "absent"   \* resuming a running run changes nothing
  /\ runState' = "running"
  /\ UNCHANGED <<batches, active, retired, files, ingest, compaction, query,
                 crashes>>

FinishRun ==
  /\ runLock = NoTask
  /\ runState = "running"
  /\ runState' = "finished"
  /\ UNCHANGED <<batches, active, retired, files, ingest, compaction, query,
                 crashes>>

(***************************************************************************)
(* Ingestion: ingest_batch and process_ingest_batch.  The task owns the    *)
(* lock, so a client that disconnects does not release it.                 *)
(***************************************************************************)
PostBatch(t) ==
  /\ pc[t] = "idle"
  /\ \E r \in Requests :
       /\ RunHistory!Consecutive(r)
       /\ request' = [request EXCEPT ![t] = r]
  /\ pc' = [pc EXCEPT ![t] = "queued"]
  /\ UNCHANGED <<catalog, files, fresh, runLock, compaction, query, crashes>>

LockRun(t) ==
  /\ pc[t] = "queued"
  /\ runLock = NoTask
  /\ runLock' = t
  /\ pc' = [pc EXCEPT ![t] = "checking"]
  /\ UNCHANGED <<catalog, files, request, fresh, compaction, query, crashes>>

(* Mutant: the guard outlives the task.                                    *)
RespondLocked(t) ==
  /\ pc' = [pc EXCEPT ![t] = "idle"]
  /\ request' = [request EXCEPT ![t] = <<>>]
  /\ fresh' = [fresh EXCEPT ![t] = FALSE]
  /\ UNCHANGED runLock

(* The task ends and its guard is dropped.                                 *)
Respond(t) ==
  /\ pc' = [pc EXCEPT ![t] = "idle"]
  /\ request' = [request EXCEPT ![t] = <<>>]
  /\ fresh' = [fresh EXCEPT ![t] = FALSE]
  /\ runLock' = NoTask

Goto(t, place) ==
  /\ pc' = [pc EXCEPT ![t] = place]
  /\ UNCHANGED <<request, runLock>>

(* batch_status and run_location.                                          *)
CheckBatch(t) ==
  /\ pc[t] = "checking"
  /\ \/ /\ \/ RunHistory!IsDuplicate(request[t])
           \/ RunHistory!ReusesSequence(request[t])
           \/ runState # "running"
        /\ Respond(t)
     \/ /\ ~RunHistory!IsDuplicate(request[t])
        /\ ~RunHistory!ReusesSequence(request[t])
        /\ runState = "running"
        /\ Goto(t, "writing") /\ UNCHANGED fresh
  /\ UNCHANGED <<catalog, files, compaction, query, crashes>>

(* write_batch: an existing file is left as it is.                         *)
WriteBatch(t) ==
  /\ pc[t] = "writing"
  /\ LET path == BatchPath(request[t])
     IN \/ /\ fresh' = [fresh EXCEPT ![t] = path \notin files]
           /\ files' = files \union {path}
           /\ Goto(t, "registering")
        \/ /\ "write" \in Failures
           /\ files' \in {files, files \union {path}}
           /\ Respond(t)
  /\ UNCHANGED <<catalog, compaction, query, crashes>>

Continues(r) ==
  active # <<>> => RunHistory!BatchSequence(r) = MaxSequence + 1

(* The checks register_batch makes before it inserts.                      *)
CanRegister(r) ==
  /\ ~RunHistory!ReusesSequence(r)
  /\ runState = "running"
  /\ Continues(r)

(* register_batch succeeds (a batch that is there already is a success).   *)
RegisterBatch(t) ==
  /\ pc[t] = "registering"
  /\ IF RunHistory!IsDuplicate(request[t])
       THEN UNCHANGED <<active, batches>>
       ELSE /\ CanRegister(request[t])
            /\ active' = Append(active, BatchPath(request[t]))
            /\ batches' = batches \union {request[t]}
  /\ \/ Respond(t)
     \/ "commit" \in Failures /\ Goto(t, "verifying") /\ UNCHANGED fresh
  /\ UNCHANGED <<runState, retired, files, compaction, query, crashes>>

(* Mutant: the error path leaves the file behind.                          *)
RegisterFailsLeaking(t) ==
  /\ pc[t] = "registering"
  /\ \/ "catalog" \in Failures
     \/ ~RunHistory!IsDuplicate(request[t]) /\ ~CanRegister(request[t])
  /\ Respond(t)
  /\ UNCHANGED <<catalog, files, compaction, query, crashes>>

(* register_batch reports an error and has changed nothing.                *)
RegisterFails(t) ==
  /\ pc[t] = "registering"
  /\ \/ "catalog" \in Failures
     \/ ~RunHistory!IsDuplicate(request[t]) /\ ~CanRegister(request[t])
  /\ Goto(t, "verifying")
  /\ UNCHANGED <<catalog, files, fresh, compaction, query, crashes>>

(* Mutant: a reported failure is believed.                                 *)
VerifyBatchBelieving(t) ==
  /\ pc[t] = "verifying"
  /\ \/ fresh[t] /\ Goto(t, "removing") /\ UNCHANGED fresh
     \/ ~fresh[t] /\ Respond(t)
  /\ UNCHANGED <<catalog, files, compaction, query, crashes>>

(* The error path: remove the file only when this task installed it and no *)
(* row names it.                                                           *)
VerifyBatch(t) ==
  /\ pc[t] = "verifying"
  /\ \/ /\ fresh[t] /\ BatchPath(request[t]) \notin Registered
        /\ Goto(t, "removing") /\ UNCHANGED fresh
     \/ /\ \/ ~fresh[t] \/ BatchPath(request[t]) \in Registered
           \/ "verify" \in Failures
        /\ Respond(t)
  /\ UNCHANGED <<catalog, files, compaction, query, crashes>>

RemoveBatch(t) ==
  /\ pc[t] = "removing"
  /\ \/ MayRemove(BatchPath(request[t])) /\ files' = files \ {BatchPath(request[t])}
     \/ MayKeep(BatchPath(request[t])) /\ UNCHANGED files
  /\ Respond(t)
  /\ UNCHANGED <<catalog, compaction, query, crashes>>

(***************************************************************************)
(* Compaction: compact_once, one pass at a time.                           *)
(***************************************************************************)
WaitsForGuard == worker \in {"toRetire", "built"}

(* Mutant: the worker does not wait for queries.                           *)
GuardIgnored == TRUE

(* No query holds the snapshot guard.                                      *)
GuardIsFree ==
  \A q \in Readers : query[q].place \notin {"listing", "reading"}

(* The pass returns; a cancelled one ends the worker.                      *)
EndPass ==
  /\ worker' = IF cancelled THEN "stopped" ELSE "idle"
  /\ sources' = <<>> /\ outputFresh' = FALSE
  /\ victims' = <<>> /\ removed' = {}
  /\ exclusive' = FALSE

(* retired_segments; the files of earlier passes come first.               *)
BeginPass ==
  /\ worker = "idle"
  /\ \/ cancelled /\ EndPass
     \/ /\ ~cancelled
        /\ victims' = AtMost(RetirementBatch, retired)
        /\ worker' = IF retired = <<>> THEN "choosing" ELSE "toRetire"
        /\ UNCHANGED <<sources, outputFresh, removed, exclusive>>
  /\ UNCHANGED <<catalog, files, ingest, cancelled, query, crashes>>

(* write_snapshot.                                                         *)
LockToRetire ==
  /\ worker = "toRetire" /\ GuardIsFree
  /\ exclusive' = TRUE
  /\ worker' = "retiring"
  /\ UNCHANGED <<catalog, files, ingest, sources, outputFresh, victims,
                 removed, cancelled, query, crashes>>

(* Mutant: the first file that cannot be removed ends the loop.            *)
RemoveUntilOneFails ==
  /\ worker \in {"retiring", "unlinking"} /\ victims # <<>> /\ ~cancelled
  /\ \/ /\ MayRemove(Head(victims))
        /\ files' = files \ {Head(victims)}
        /\ removed' = removed \union {Head(victims)}
        /\ victims' = Tail(victims)
     \/ MayKeep(Head(victims)) /\ victims' = <<>> /\ UNCHANGED <<files, removed>>
  /\ UNCHANGED <<catalog, ingest, worker, sources, outputFresh, exclusive, cancelled,
                 query, crashes>>

(* remove_files, one file: removed, or left for a later pass.  Cancelled,  *)
(* it forgets what it has removed.                                         *)
RemoveFile ==
  /\ worker \in {"retiring", "unlinking"} /\ victims # <<>>
  /\ \/ /\ ~cancelled
        /\ \/ /\ MayRemove(Head(victims))
              /\ files' = files \ {Head(victims)}
              /\ removed' = removed \union {Head(victims)}
           \/ MayKeep(Head(victims)) /\ UNCHANGED <<files, removed>>
        /\ victims' = Tail(victims)
        /\ UNCHANGED <<worker, sources, outputFresh, exclusive>>
     \/ cancelled /\ EndPass /\ UNCHANGED files
  /\ UNCHANGED <<catalog, ingest, cancelled, query, crashes>>

(* acknowledge_retired_segments.                                           *)
AcknowledgeRetired ==
  /\ worker \in {"retiring", "unlinking"} /\ victims = <<>>
  /\ \/ /\ retired' = Only(retired, ToSet(retired) \ removed)
        /\ IF worker = "retiring" /\ removed = {}
             THEN /\ worker' = "choosing" /\ exclusive' = FALSE
                  /\ UNCHANGED <<sources, outputFresh, victims, removed>>
             ELSE EndPass
     \/ /\ "catalog" \in Failures /\ removed # {}
        /\ UNCHANGED retired
        /\ EndPass
  /\ UNCHANGED <<runState, batches, active, files, ingest, cancelled, query,
                 crashes>>

(* next_compaction_candidate: some adjacent segments, or none.  Which, by  *)
(* their signatures and sizes, is the matter of CompactionPolicy.          *)
Candidates ==
  {s \in {SubSeq(active, i, j) : i, j \in 1 .. Len(active)} :
     Len(s) \in MinInputs .. MaxInputs}

ChooseSources ==
  /\ worker = "choosing"
  /\ \/ \E s \in Candidates :
          /\ sources' = s
          /\ worker' = "building"
          /\ UNCHANGED <<outputFresh, victims, removed, exclusive>>
     \/ EndPass
  /\ UNCHANGED <<catalog, files, ingest, cancelled, query, crashes>>

(* compact_segments, without any lock.                                     *)
Build ==
  /\ worker = "building"
  /\ LET path == CompactedPath(sources)
     IN \/ /\ ~cancelled
           /\ path \in files \/ ToSet(sources) \subseteq files
           /\ outputFresh' = (path \notin files)
           /\ files' = files \union {path}
           /\ worker' = "built"
           /\ UNCHANGED <<sources, victims, removed, exclusive>>
        \/ /\ cancelled \/ ~(ToSet(sources) \subseteq files)
           /\ UNCHANGED files
           /\ EndPass
        \/ /\ "write" \in Failures
           /\ files' \in {files, files \union {path}}
           /\ EndPass
  /\ UNCHANGED <<catalog, ingest, cancelled, query, crashes>>

LockToSwap ==
  /\ worker = "built" /\ GuardIsFree
  /\ exclusive' = TRUE
  /\ worker' = "swapping"
  /\ UNCHANGED <<catalog, files, ingest, sources, outputFresh, victims,
                 removed, cancelled, query, crashes>>

(* Mutant: batches registered during the merge are lost in the swap.       *)
ReplacedToTheEnd(out) ==
  Only(active, {p \in Active : LastSequence(p) < FirstSequence(out)}) \o <<out>>

(* The active segments with the sources replaced by the merged one.        *)
Replaced(out) ==
  Only(active, {p \in Active : LastSequence(p) < FirstSequence(out)})
    \o <<out>> \o
  Only(active, {p \in Active : FirstSequence(p) > LastSequence(out)})

(* replace_compacted_segments commits; on "commit" its caller is told it   *)
(* failed.                                                                 *)
ReplaceSources ==
  /\ worker = "swapping" /\ ~cancelled
  /\ ToSet(sources) \subseteq Active
  /\ active' = Replaced(CompactedPath(sources))
  /\ retired' = retired \o Only(sources, ToSet(sources) \ ToSet(retired))
  /\ \/ worker' = "unlinking" /\ victims' = sources
     \/ "commit" \in Failures /\ worker' = "disowning" /\ UNCHANGED victims
  /\ UNCHANGED <<runState, batches, files, ingest, sources, outputFresh,
                 removed, cancelled, exclusive, query, crashes>>

(* It fails, or the pass is cancelled before it.                           *)
AbandonOutput ==
  /\ \/ worker = "built" /\ cancelled
     \/ worker = "swapping" /\ cancelled
     \/ worker = "swapping" /\ "catalog" \in Failures
  /\ worker' = "disowning"
  /\ UNCHANGED <<catalog, files, ingest, sources, outputFresh, victims,
                 removed, cancelled, exclusive, query, crashes>>

(* cleanup_unregistered_output.                                            *)
VerifyOutput ==
  /\ worker = "disowning"
  /\ \/ /\ outputFresh /\ CompactedPath(sources) \notin Registered
        /\ worker' = "deleting"
        /\ UNCHANGED <<sources, outputFresh, victims, removed, exclusive>>
     \/ /\ \/ ~outputFresh \/ CompactedPath(sources) \in Registered
           \/ "verify" \in Failures
        /\ EndPass
  /\ UNCHANGED <<catalog, files, ingest, cancelled, query, crashes>>

RemoveOutput ==
  /\ worker = "deleting"
  /\ \/ MayRemove(CompactedPath(sources)) /\ files' = files \ {CompactedPath(sources)}
     \/ MayKeep(CompactedPath(sources)) /\ UNCHANGED files
  /\ EndPass
  /\ UNCHANGED <<catalog, ingest, cancelled, query, crashes>>

Shutdown ==
  /\ "shutdown" \in Failures /\ ~cancelled
  /\ cancelled' = TRUE
  /\ UNCHANGED <<catalog, files, ingest, worker, sources, outputFresh,
                 victims, removed, exclusive, query, crashes>>

(***************************************************************************)
(* Queries of the whole history.  A sampled one (sampled_history, the      *)
(* charts) reads all pages of segments under one guard, up to the extent   *)
(* read first; an unsampled one (history) is a request and a guard per     *)
(* page, strung together by the client's cursor (its extent is bookkeeping)*)
(***************************************************************************)
OpenQuery(q) ==
  /\ query[q].place \in {"idle", "between"}
  /\ ~exclusive /\ ~WaitsForGuard   \* the lock prefers the waiting writer
  /\ \E mode \in IF query[q].place = "idle" THEN {"sampled", "paged"}
                                           ELSE {"paged"} :
       query' = [query EXCEPT ![q].place = "listing", ![q].mode = mode,
                              ![q].extent = MaxSequence]
  /\ UNCHANGED <<catalog, files, ingest, compaction, crashes>>

(* Mutant: a segment that begins before the cursor is taken for read.      *)
ListLaterSegments(q) ==
  /\ query[q].place = "listing"
  /\ LET later == {p \in Active : FirstSequence(p) > query[q].cursor}
     IN query' = [query EXCEPT
                    ![q].place = "reading",
                    ![q].listed = AtMost(PageLimit, Only(active, later))]
  /\ UNCHANGED <<catalog, files, ingest, compaction, crashes>>

(* list_segments.                                                          *)
ListSegments(q) ==
  /\ query[q].place = "listing"
  /\ LET later == {p \in Active : LastSequence(p) > query[q].cursor}
     IN query' = [query EXCEPT
                    ![q].place = "reading",
                    ![q].listed = AtMost(PageLimit, Only(active, later))]
  /\ UNCHANGED <<catalog, files, ingest, compaction, crashes>>

PageIsFull(q) == Len(query[q].listed) = PageLimit

ListedRows(q) == RowsOf(query[q].listed)

(* read_segments: observe keeps the rows within the extent.                *)
ReadSampled(q) ==
  /\ query[q].place = "reading" /\ query[q].mode = "sampled"
  /\ LET listed == query[q].listed
         rows == Only(ListedRows(q), {row \in ToSet(ListedRows(q)) :
                                        row.seq <= query[q].extent})
         last == IF listed = <<>> THEN query[q].cursor
                                  ELSE LastSequence(Last(listed))
     IN query' = [query EXCEPT
                    ![q].seen = @ \o rows,
                    ![q].cursor = last,
                    ![q].place =
                      IF PageIsFull(q) /\ last < query[q].extent
                        THEN "listing" ELSE "done"]
  /\ UNCHANGED <<catalog, files, ingest, compaction, crashes>>

(* read_history: the rows after the cursor, up to the limit.               *)
ReadPage(q) ==
  /\ query[q].place = "reading" /\ query[q].mode = "paged"
  /\ LET later == {row \in ToSet(ListedRows(q)) : row.seq > query[q].cursor}
         page == AtMost(HistoryLimit, Only(ListedRows(q), later))
     IN query' = [query EXCEPT
                    ![q].seen = @ \o page,
                    ![q].cursor = IF page = <<>> THEN @ ELSE Last(page).seq,
                    ![q].place =
                      IF page # <<>> /\ (Len(page) = HistoryLimit \/ PageIsFull(q))
                        THEN "between" ELSE "done"]
  /\ UNCHANGED <<catalog, files, ingest, compaction, crashes>>

CloseQuery(q) ==
  /\ query[q].place = "done"
  /\ query' = [query EXCEPT ![q] = NoQuery]
  /\ UNCHANGED <<catalog, files, ingest, compaction, crashes>>

(* The server stops at any point and starts again.                         *)
Restart ==
  /\ crashes < MaxCrashes
  /\ crashes' = crashes + 1
  /\ pc' = [t \in Tasks |-> "idle"] /\ request' = [t \in Tasks |-> <<>>]
  /\ fresh' = [t \in Tasks |-> FALSE] /\ runLock' = NoTask
  /\ worker' = "idle" /\ sources' = <<>> /\ outputFresh' = FALSE
  /\ victims' = <<>> /\ removed' = {} /\ cancelled' = FALSE
  /\ exclusive' = FALSE
  /\ query' = [q \in Readers |-> NoQuery]
  /\ UNCHANGED <<catalog, files>>

IngestStep(t) ==
  \/ LockRun(t) \/ CheckBatch(t) \/ WriteBatch(t) \/ RegisterBatch(t)
  \/ RegisterFails(t) \/ VerifyBatch(t) \/ RemoveBatch(t)

WorkerStep ==
  \/ BeginPass \/ LockToRetire \/ RemoveFile \/ AcknowledgeRetired
  \/ ChooseSources \/ Build \/ LockToSwap \/ ReplaceSources \/ AbandonOutput
  \/ VerifyOutput \/ RemoveOutput

QueryStep(q) ==
  ListSegments(q) \/ ReadSampled(q) \/ ReadPage(q) \/ CloseQuery(q)

Next ==
  \/ CreateRun \/ FinishRun
  \/ \E t \in Tasks : PostBatch(t) \/ IngestStep(t)
  \/ WorkerStep \/ Shutdown
  \/ \E q \in Readers : OpenQuery(q) \/ QueryStep(q)
  \/ Restart

Spec == Init /\ [][Next]_vars

(* tokio runs every task that can proceed and queues the waiters of a      *)
(* mutex; the worker starts a pass at least every interval.                *)
Fairness ==
  /\ \A t \in Tasks : WF_vars(IngestStep(t)) /\ SF_vars(LockRun(t))
  /\ WF_vars(WorkerStep)
  /\ \A q \in Readers : WF_vars(QueryStep(q))

FairSpec == Spec /\ Fairness
-----------------------------------------------------------------------------
(***************************************************************************)
(* Properties.                                                             *)
(***************************************************************************)
TypeOK ==
  /\ runState \in {"absent", "running", "finished"}
  /\ batches \subseteq Requests
  /\ \A p \in Registered \union files : p.rows # <<>>
  /\ pc \in [Tasks -> {"idle", "queued", "checking", "writing", "registering",
                      "verifying", "removing"}]
  /\ request \in [Tasks -> Requests \union {<<>>}]
  /\ fresh \in [Tasks -> BOOLEAN] /\ runLock \in Tasks \union {NoTask}
  /\ worker \in {"idle", "toRetire", "retiring", "choosing", "building",
                "built", "swapping", "unlinking", "disowning", "deleting",
                "stopped"}
  /\ outputFresh \in BOOLEAN /\ cancelled \in BOOLEAN /\ exclusive \in BOOLEAN
  /\ \A q \in Readers :
       query[q].place \in {"idle", "between", "listing", "reading", "done"}
  /\ crashes \in 0 .. MaxCrashes

(* ADR 0014: the catalog never references a missing segment, whichever     *)
(* task or pass fails, is cancelled or is cut short.                       *)
ActiveHaveFiles == Active \subseteq files

(* A query meets every file it was told of (ADR 0002: no query observes    *)
(* manifests whose files have been removed), and so does the worker.       *)
ReadersFindFiles ==
  /\ \A q \in Readers :
       query[q].place = "reading" => ToSet(query[q].listed) \subseteq files
  /\ worker = "building" => ToSet(sources) \subseteq files

(* Compaction between or during reads shows in no result: what a query has *)
(* seen is the beginning of the run's history, each row once, and a query  *)
(* that is through has seen all rows there were when it last took its      *)
(* snapshot, a sampled one exactly those.                                  *)
ReadsAreExact ==
  \A q \in Readers :
    LET seen == query[q].seen
        end == IF seen = <<>> THEN -1 ELSE Last(seen).seq
    IN /\ IsPrefix(seen, Logical)
       /\ query[q].place = "done" =>
            /\ end >= query[q].extent
            /\ query[q].mode = "sampled" => end = query[q].extent

(* No file is left over while nothing crashes: each is named by a row or   *)
(* about to be, or about to be removed, by the operation that wrote it.    *)
FilesAreOwned ==
  \A p \in files \ Registered :
    \/ outputFresh /\ p = CompactedPath(sources)
    \/ \E t \in Tasks : fresh[t] /\ p = BatchPath(request[t])

(* The files under compaction are still those of the run's own log: every  *)
(* step of ingestion, compaction, failure and restart is a step of RunLog  *)
(* or none.                                                                *)
ImplementsRunLog ==
  /\ RunHistory!ServerInit
  /\ [][RunHistory!ServerNext(Requests)]_(RunHistory!serverVars)

(* A batch file that was compacted away is deleted and forgotten in the    *)
(* end, also when the server stopped between the swap and the unlink, and  *)
(* when some before it cannot be, as long as they do not fill a pass.      *)
RetiredAreRemoved ==
  \A r \in {q \in Requests : BatchPath(q) \notin Stuck} :
    (BatchPath(r) \in ToSet(retired))
      ~> (BatchPath(r) \notin ToSet(retired) \union files)

(* Every ingest request is answered, and every query of a run that stops   *)
(* growing ends, whatever the worker does meanwhile.                       *)
EveryRequestEnds ==
  /\ \A t \in Tasks : (pc[t] = "queued") ~> (pc[t] = "idle")
  /\ \A q \in Readers :
       (query[q].place = "listing") ~> (query[q].place \in {"idle", "between"})
=============================================================================
