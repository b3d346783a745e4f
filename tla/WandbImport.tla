---------------------------- MODULE WandbImport ----------------------------
(***************************************************************************)
(* The import of one Weights & Biases run (wandb_importer.py): the worker  *)
(* thread that runs _import_one_run, the threads that transfer media and   *)
(* artifacts, the run's state in the checkpoint file (_wandb_state.py) and *)
(* the target run on the server (its metric history is module RunLog).     *)
(*                                                                         *)
(* What a worker does to the outside is a list of tasks, carried out one   *)
(* after the other: requests to the server and updates of the checkpoint,  *)
(* each one fsynced line.  An attempt may end between any two tasks.       *)
(*                                                                         *)
(* A row of the source history is the number of metric points it needs (0, *)
(* 1, or more for a wide row), the bytes of a point, the media it refers   *)
(* to and the values that are skipped.  What is read from the source is    *)
(* tagged with the revision the source was in when it was read.            *)
(***************************************************************************)
EXTENDS RunLog, FiniteSets, SequencesExt

CONSTANTS
  Histories,        \* the row sequences a source may have
  Files,            \* run files of the source
  Artifacts,        \* artifacts the source run logged
  BatchSize,        \* _METRIC_BATCH_SIZE
  ByteLimit,        \* _METRIC_BATCH_BYTES
  SplitLimit,       \* points of a wide row that fit into one request
  MediaWindow,      \* _MAX_PENDING_MEDIA
  MediaWorkers,     \* _MEDIA_WORKERS
  PersistInterval,  \* _MEDIA_CHECKPOINT_INTERVAL
  FileChunk,        \* _FILE_CHUNK_SIZE
  ArtifactWindow,   \* _ARTIFACT_WORKERS
  NoState,          \* the checkpoint has no entry for the run
  MaxFaults,        \* bound: attempts that end early
  MaxRevision       \* bound: revisions of the source

ASSUME ImportLimits ==
  /\ {BatchSize, SplitLimit, MediaWindow, MediaWorkers, PersistInterval,
      FileChunk, ArtifactWindow} \subseteq Nat \ {0}
  /\ {Files, Artifacts, ByteLimit, MaxFaults, MaxRevision} \subseteq Nat

(* A row of the source and an entry of the checkpoint.                     *)
Row == [points : Nat, size : Nat, media : Nat, skipped : Nat]

Entry == [phase : {"history", "run_files", "logged_artifacts", "finalize", "complete"},
          complete : BOOLEAN, revision : Nat, rows : Nat, media : Nat, seq : Nat,
          unsupported : Nat, files : Nat, filesDone : BOOLEAN, arts : Nat,
          artsDone : BOOLEAN]

ASSUME DataAssumption == Histories \subseteq Seq(Row) /\ NoState \notin Entry

VARIABLES
  rows,       \* the source's history
  include,    \* include_files
  revision,   \* the source's current revision
  config,     \* the target: the revision its config names, 0 for none
  summary,    \* the target: revision and unsupported values, if finished
  media,      \* the target: rich values, by row, occurrence and revision
  shards,     \* the target: run-file artifacts, by first file and revision
  artifacts,  \* the target: logged artifacts, by index and revision
  ckpt,       \* the run's entry in the checkpoint file
  mem,        \* the run's entry in the importer's memory (Checkpoint._data)
  pc,         \* where the worker stands
  todo,       \* the tasks it has before it
  seen,       \* source_revision of this attempt
  h,          \* the locals of _import_history
  occ,        \* media of row h.scanned already scheduled
  pending,    \* transfers submitted and not yet drained
  committed,  \* _MediaPipeline._committed_rows
  closed,     \* _MediaPipeline._last_closed_row
  late,       \* the checkpoint update of an interrupted worker
  faults,     \* attempts that ended early
  lost        \* was the checkpoint file removed?

target == <<config, summary, media, shards, artifacts, serverVars>>
pipeline == <<occ, pending, committed, closed>>
checkpoint == <<ckpt, mem>>
attempt == <<pc, todo, seen, h, pipeline>>
world == <<rows, include, revision, late, faults, lost>>
vars == <<world, target, checkpoint, attempt>>

(***************************************************************************)
(* The checkpoint entry and the tasks.                                     *)
(***************************************************************************)
Phases == <<"history", "run_files", "logged_artifacts", "finalize", "complete">>

Fresh == [phase |-> "history", complete |-> FALSE, revision |-> 0, rows |-> 0,
          media |-> 0, seq |-> 1, unsupported |-> 0, files |-> 0,
          filesDone |-> FALSE, arts |-> 0, artsDone |-> FALSE]

(* Checkpoint.update: the fields given replace those of the entry.         *)
Merge(state, fields) ==
  LET old == IF state = NoState THEN Fresh ELSE state
  IN [f \in DOMAIN Fresh |-> IF f \in DOMAIN fields THEN fields[f] ELSE old[f]]

Save(fields) == <<[op |-> "save", arg |-> fields]>>
Ingest(points) == <<[op |-> "ingest", arg |-> points]>>
Shard(first) == <<[op |-> "shard", arg |-> first]>>
Create == <<[op |-> "create", arg |-> seen]>>
Finish(contents) == <<[op |-> "finish", arg |-> contents]>>

At(place) == pc = place /\ todo = <<>>

NoLocals == [scanned |-> 0, rows |-> 0, seq |-> 1, unsupported |-> 0,
             batch |-> <<>>, bytes |-> 0, end |-> 0]

Init ==
  /\ rows \in Histories /\ include \in BOOLEAN /\ revision = 1
  /\ config = 0 /\ summary = <<0, 0>>
  /\ media = {} /\ shards = {} /\ artifacts = {} /\ ServerInit
  /\ ckpt = NoState /\ late = <<>> /\ faults = 0 /\ lost = FALSE
  /\ pc = "idle" /\ todo = <<>> /\ seen = 0 /\ mem = NoState /\ h = NoLocals
  /\ occ = 0 /\ pending = <<>> /\ committed = 0 /\ closed = 0

(***************************************************************************)
(* The rows.  h.batch holds the points of rows h.rows + 1 .. h.end.        *)
(***************************************************************************)
Skipped(n) == rows[n].skipped + (IF include THEN 0 ELSE rows[n].media)

PointsOf(n, first) ==
  [i \in 1 .. rows[n].points |-> [seq |-> first + i - 1, id |-> <<n, i, revision>>]]

(* Mutant: the watermark moves before the batch is committed.              *)
FlushTasksSavedFirst(p, unsupported) ==
  Save([rows |-> p.end, seq |-> p.seq + Len(p.batch), unsupported |-> unsupported])
    \o Ingest(p.batch)

(* A batch is committed and the watermark moves to its last row.  The      *)
(* skipped values of the row under way are not part of unsupported yet.    *)
FlushTasks(p, unsupported) ==
  Ingest(p.batch)
    \o Save([rows |-> p.end, seq |-> p.seq + Len(p.batch),
             unsupported |-> unsupported])

Flushed(p) ==
  [p EXCEPT !.rows = p.end, !.seq = p.seq + Len(p.batch), !.batch = <<>>, !.bytes = 0]

(* _commit_split_metric_row.                                               *)
SplitTasks(points) ==
  LET Requests == (Len(points) + SplitLimit - 1) \div SplitLimit
      Part(k) == SubSeq(points, (k - 1) * SplitLimit + 1,
                        IF k = Requests THEN Len(points) ELSE k * SplitLimit)
  IN [k \in 1 .. Requests |-> Head(Ingest(Part(k)))]

NoTasks(p) == [locals |-> p, tasks |-> <<>>]

FlushedWhen(condition, p) ==
  IF condition
    THEN [locals |-> Flushed(p), tasks |-> FlushTasks(p, p.unsupported)]
    ELSE NoTasks(p)

(* What the body of the loop does with row n once its media are scheduled. *)
WideRow(p, n) ==
  LET flush == FlushedWhen(p.batch # <<>>, p)
      next == flush.locals.seq + rows[n].points
      unsupported == p.unsupported + Skipped(n)
  IN [locals |-> [p EXCEPT !.scanned = n, !.rows = n, !.seq = next, !.end = n,
                  !.unsupported = unsupported, !.batch = <<>>, !.bytes = 0],
      tasks |-> flush.tasks \o SplitTasks(PointsOf(n, flush.locals.seq))
                  \o Save([rows |-> n, seq |-> next, unsupported |-> unsupported])]

NarrowRow(p, n) ==
  LET flush == FlushedWhen(
                 rows[n].points = 1 /\ p.batch # <<>>
                   /\ p.bytes + rows[n].size > ByteLimit, p)
      q == flush.locals
      added == [q EXCEPT !.scanned = n, !.end = n,
                !.unsupported = @ + Skipped(n),
                !.batch = @ \o PointsOf(n, q.seq + Len(@)),
                !.bytes = @ + rows[n].points * rows[n].size]
      full == Len(added.batch) >= BatchSize
  IN [locals |-> IF full THEN Flushed(added) ELSE added,
      tasks |-> flush.tasks
                  \o (IF full THEN FlushTasks(added, added.unsupported) ELSE <<>>)]

RowOutcome(p, n) ==
  IF n <= p.rows THEN NoTasks([p EXCEPT !.scanned = n])
  ELSE IF rows[n].points > 1 THEN WideRow(p, n) ELSE NarrowRow(p, n)

(* The rest of the batch, after the last row.                              *)
LastOutcome(p) ==
  IF p.end > p.rows
    THEN [locals |-> Flushed(p),
          tasks |-> IF p.batch = <<>> THEN Tail(FlushTasks(p, p.unsupported))
                    ELSE FlushTasks(p, p.unsupported)]
    ELSE NoTasks(p)

(***************************************************************************)
(* Starting an attempt: import_wandb_runs takes the checkpoint's lock and  *)
(* loads it; _prepare_run_import.                                          *)
(***************************************************************************)
Begin ==
  /\ At("idle")
  /\ pc' = "refresh" /\ mem' = ckpt
  /\ todo' = IF ckpt = NoState THEN Save([phase |-> "history"]) ELSE <<>>
  /\ UNCHANGED <<world, target, ckpt, seen, h, pipeline>>

(* _SourceRunLoader.refresh and _validate_source_revision.                 *)
SourceMoved ==
  mem.revision \notin {0, revision} \/ (mem.complete /\ mem.phase # "complete")

Refresh ==
  /\ At("refresh") /\ ~SourceMoved
  /\ seen' = revision /\ pc' = "target"
  /\ UNCHANGED <<world, target, checkpoint, todo, h, pipeline>>

ExpectedSummary == <<seen, mem.unsupported>>

(* Mutant: a finished target is not looked into.                           *)
TargetRefusedIfFinished ==
  \/ runState = "absent" /\ mem.complete
  \/ runState # "absent" /\ config # seen
  \/ runState = "running" /\ mem.complete
  \/ runState = "finished" /\ ~mem.complete

(* The answers of get_run that end the attempt.                            *)
TargetRefused ==
  \/ runState = "absent" /\ mem.complete
  \/ runState # "absent" /\ config # seen
  \/ runState = "running" /\ mem.complete
  \/ /\ runState = "finished" /\ ~mem.complete
     /\ (mem.phase # "finalize" \/ summary # ExpectedSummary)

(* Mutant: the sequence to go on from is not the checkpoint's.             *)
AdmittedAtFirstSequence ==
  /\ todo' = (IF runState = "absent" THEN Create ELSE <<>>)
               \o Save([revision |-> seen])
  /\ h' = [NoLocals EXCEPT !.rows = mem.rows, !.end = mem.rows,
            !.unsupported = mem.unsupported]
  /\ pc' = mem.phase
  /\ occ' = 0 /\ pending' = <<>>
  /\ committed' = mem.media /\ closed' = mem.media

(* A run that is there to be filled: the next phase is the checkpoint's.   *)
Admitted ==
  /\ todo' = (IF runState = "absent" THEN Create ELSE <<>>)
               \o Save([revision |-> seen])
  /\ h' = [NoLocals EXCEPT !.rows = mem.rows, !.end = mem.rows, !.seq = mem.seq,
            !.unsupported = mem.unsupported]
  /\ pc' = mem.phase
  /\ occ' = 0 /\ pending' = <<>>
  /\ committed' = mem.media /\ closed' = mem.media

OpenTarget ==
  /\ At("target") /\ ~TargetRefused
  /\ runState # "finished"
  /\ Admitted
  /\ UNCHANGED <<world, target, checkpoint, seen>>

(* The target is finished: the answer to finish_run was lost, or the import*)
(* was complete before.                                                    *)
RecognizeFinished ==
  /\ At("target") /\ ~TargetRefused
  /\ runState = "finished"
  /\ todo' = IF mem.complete THEN <<>>
             ELSE Save([complete |-> TRUE, phase |-> "complete", revision |-> seen])
  /\ pc' = "end"
  /\ UNCHANGED <<world, target, checkpoint, seen, h, pipeline>>

(***************************************************************************)
(* What a task does.                                                       *)
(***************************************************************************)
SaveCheckpoint(t) ==
  /\ t.op = "save"
  /\ ckpt' = Merge(ckpt, t.arg)
  /\ UNCHANGED target

(* _get_or_create_target_run: resume = "never".                            *)
CreateTarget(t) ==
  /\ t.op = "create" /\ runState = "absent"
  /\ runState' = "running" /\ config' = t.arg
  /\ UNCHANGED <<ckpt, summary, media, shards, artifacts, batches, stored>>

(* _commit_metric_batch.                                                   *)
CommitBatch(t) ==
  /\ t.op = "ingest"
  /\ AcceptBatch(t.arg) \/ AnswerDuplicate(t.arg)
  /\ UNCHANGED <<ckpt, config, summary, media, shards, artifacts>>

(* create_artifact refuses an artifact ID whose contents differ.           *)
Conflicts(stock, key) == \E entry \in stock : entry[1] = key /\ entry[2] # revision

(* _import_file_chunk: the files are read and uploaded, then the artifact  *)
(* that names them is created.                                             *)
ImportShard(t) ==
  /\ t.op = "shard" /\ runState = "running" /\ ~Conflicts(shards, t.arg)
  /\ shards' = shards \union {<<t.arg, revision>>}
  /\ UNCHANGED <<ckpt, config, summary, media, artifacts, serverVars>>

FinishTarget(t) ==
  /\ t.op = "finish" /\ FinishRun
  /\ summary' = t.arg
  /\ UNCHANGED <<ckpt, config, media, shards, artifacts>>

Effect(t) ==
  \/ SaveCheckpoint(t) \/ CreateTarget(t) \/ CommitBatch(t)
  \/ ImportShard(t) \/ FinishTarget(t)

Refused(t) ==
  \/ t.op = "create" /\ runState # "absent"
  \/ t.op = "ingest" /\ ~CanAccept(t.arg) /\ ~IsDuplicate(t.arg)
  \/ t.op = "shard" /\ (runState # "running" \/ Conflicts(shards, t.arg))

Task ==
  /\ todo # <<>> /\ Effect(Head(todo))
  /\ mem' = IF Head(todo).op = "save" THEN Merge(mem, Head(todo).arg) ELSE mem
  /\ todo' = Tail(todo)
  /\ UNCHANGED <<world, pc, seen, h, pipeline>>

(***************************************************************************)
(* _import_history and _MediaPipeline.                                     *)
(***************************************************************************)
Transfer(key, occurrence) == [key |-> key, occ |-> occurrence, done |-> FALSE]

Outstanding(queue, n) == \E i \in 1 .. Len(queue) : queue[i].key = n

(* _advance_watermark.                                                     *)
Watermark(queue, from, last) ==
  CHOOSE k \in from .. last :
    /\ \A n \in from + 1 .. k : ~Outstanding(queue, n)
    /\ k = last \/ Outstanding(queue, k + 1)

(* _persist(force=False).                                                  *)
PersistTasks(mark) ==
  IF mark - mem.media >= PersistInterval THEN Save([media |-> mark]) ELSE <<>>

HistoryPipelined == include /\ h.scanned < Len(rows) /\ h.scanned + 1 > committed

(* schedule: the media of the next row, one by one.                        *)
ScheduleMedia ==
  /\ At("history") /\ HistoryPipelined
  /\ occ < rows[h.scanned + 1].media /\ Len(pending) < MediaWindow
  /\ pending' = Append(pending, Transfer(h.scanned + 1, occ + 1))
  /\ occ' = occ + 1
  /\ UNCHANGED <<world, target, checkpoint, pc, todo, seen, h, committed, closed>>

(* The row's media are all scheduled: schedule returns and the loop goes on*)
(* to the row's metrics.                                                   *)
ScanRow ==
  /\ At("history") /\ h.scanned < Len(rows)
  /\ HistoryPipelined => occ = rows[h.scanned + 1].media
  /\ LET n == h.scanned + 1
         mark == IF HistoryPipelined THEN Watermark(pending, committed, n) ELSE committed
     IN /\ closed' = IF HistoryPipelined THEN n ELSE closed
        /\ committed' = mark
        /\ todo' = (IF HistoryPipelined THEN PersistTasks(mark) ELSE <<>>)
                     \o RowOutcome(h, n).tasks
        /\ h' = RowOutcome(h, n).locals
  /\ occ' = 0
  /\ UNCHANGED <<world, target, checkpoint, pc, seen, pending>>

EndRows ==
  /\ At("history") /\ h.scanned = Len(rows)
  /\ todo' = LastOutcome(h).tasks /\ h' = LastOutcome(h).locals
  /\ pc' = "drain"
  /\ UNCHANGED <<world, target, checkpoint, seen, pipeline>>

(* _import_media_reference, in a pool that starts transfers in order.      *)
UploadMedia ==
  /\ \E i \in 1 .. Len(pending) :
       /\ pc \in {"history", "drain"} /\ ~pending[i].done
       /\ Cardinality({j \in 1 .. i - 1 : ~pending[j].done}) < MediaWorkers
       /\ runState = "running"
       /\ media' = media \union {<<pending[i].key, pending[i].occ, revision>>}
       /\ pending' = [pending EXCEPT ![i].done = TRUE]
  /\ UNCHANGED <<world, config, summary, shards, artifacts, serverVars, checkpoint, pc,
                 todo, seen, h, occ, committed, closed>>

(* _drain_one, when the window is full and in finish.                      *)
DrainMedia ==
  /\ \/ /\ At("history") /\ HistoryPipelined
        /\ occ < rows[h.scanned + 1].media /\ Len(pending) = MediaWindow
     \/ At("drain")
  /\ pending # <<>> /\ Head(pending).done
  /\ pending' = Tail(pending)
  /\ committed' = Watermark(pending', committed, closed)
  /\ todo' = PersistTasks(committed')
  /\ UNCHANGED <<world, target, checkpoint, pc, seen, h, occ, closed>>

(* finish persists the watermark; _import_one_run enters the next phase.   *)
EndHistory ==
  /\ At("drain") /\ pending = <<>>
  /\ LET next == IF include THEN "run_files" ELSE "finalize"
     IN /\ pc' = next
        /\ todo' = (IF committed = mem.media THEN <<>> ELSE Save([media |-> committed]))
             \o Save([phase |-> next, rows |-> h.rows, media |-> committed,
                      seq |-> h.seq, unsupported |-> h.unsupported])
  /\ UNCHANGED <<world, target, checkpoint, seen, h, pipeline>>

(***************************************************************************)
(* _import_run_files and _import_logged_artifacts.                         *)
(***************************************************************************)
(* A full chunk is followed by its watermark, the last one by completion.  *)
FileTasks ==
  LET start == mem.files \div FileChunk
      whole == Files \div FileChunk
      Chunk(k) == Shard((k - 1) * FileChunk) \o Save([files |-> k * FileChunk])
      Chunks == [i \in 1 .. 2 * (whole - start) |->
                   Chunk(start + (i + 1) \div 2)[IF i % 2 = 1 THEN 1 ELSE 2]]
  IN Chunks \o (IF Files % FileChunk = 0 THEN <<>> ELSE Shard(whole * FileChunk))
       \o Save([files |-> Files, filesDone |-> TRUE])

ImportFiles ==
  /\ At("run_files")
  /\ todo' = (IF mem.filesDone THEN <<>> ELSE FileTasks)
               \o Save([phase |-> "logged_artifacts"])
  /\ pc' = "logged_artifacts"
  /\ UNCHANGED <<world, target, checkpoint, seen, h, pipeline>>

(* The listing is read up to here; what the checkpoint counts is skipped.  *)
Submitted == IF pending = <<>> THEN mem.arts ELSE pending[Len(pending)].key

SubmitArtifact ==
  /\ At("logged_artifacts") /\ ~mem.artsDone
  /\ Submitted < Artifacts /\ Len(pending) < ArtifactWindow
  /\ pending' = Append(pending, Transfer(Submitted + 1, 0))
  /\ UNCHANGED <<world, target, checkpoint, pc, todo, seen, h, occ, committed, closed>>

(* _import_logged_artifact, in any order.                                  *)
UploadArtifact ==
  /\ \E i \in 1 .. Len(pending) :
       /\ pc = "logged_artifacts" /\ ~pending[i].done
       /\ runState = "running" /\ ~Conflicts(artifacts, pending[i].key)
       /\ artifacts' = artifacts \union {<<pending[i].key, revision>>}
       /\ pending' = [pending EXCEPT ![i].done = TRUE]
  /\ UNCHANGED <<world, config, summary, media, shards, serverVars, checkpoint, pc,
                 todo, seen, h, occ, committed, closed>>

(* collect: results are awaited in the order of submission.                *)
CollectArtifact ==
  /\ At("logged_artifacts") /\ pending # <<>> /\ Head(pending).done
  /\ (Len(pending) = ArtifactWindow \/ Submitted = Artifacts)
  /\ pending' = Tail(pending)
  /\ todo' = Save([arts |-> Head(pending).key])
  /\ UNCHANGED <<world, target, checkpoint, pc, seen, h, occ, committed, closed>>

(* Mutant: the last phase is not checkpointed.                             *)
EndArtifactsUnsaved ==
  /\ At("logged_artifacts") /\ pending = <<>>
  /\ (mem.artsDone \/ mem.arts = Artifacts)
  /\ todo' = IF mem.artsDone THEN <<>>
             ELSE Save([arts |-> mem.arts, artsDone |-> TRUE])
  /\ pc' = "finalize"
  /\ UNCHANGED <<world, target, checkpoint, seen, h, pipeline>>

EndArtifacts ==
  /\ At("logged_artifacts") /\ pending = <<>>
  /\ (mem.artsDone \/ mem.arts = Artifacts)
  /\ todo' = (IF mem.artsDone THEN <<>>
              ELSE Save([arts |-> mem.arts, artsDone |-> TRUE]))
               \o Save([phase |-> "finalize"])
  /\ pc' = "finalize"
  /\ UNCHANGED <<world, target, checkpoint, seen, h, pipeline>>

(* Mutant: the source is not refreshed before the run is finished.         *)
FinalizeUnchecked ==
  /\ At("finalize")
  /\ todo' = Finish(<<seen, h.unsupported>>)
               \o Save([complete |-> TRUE, phase |-> "complete", revision |-> seen])
  /\ pc' = "end"
  /\ UNCHANGED <<world, target, checkpoint, seen, h, pipeline>>

(***************************************************************************)
(* _finalize_import: the source is refreshed and must not have moved.      *)
(***************************************************************************)
Finalize ==
  /\ At("finalize") /\ revision = seen
  /\ todo' = Finish(<<seen, h.unsupported>>)
               \o Save([complete |-> TRUE, phase |-> "complete", rows |-> h.rows,
                        media |-> committed, seq |-> h.seq,
                        unsupported |-> h.unsupported, revision |-> seen])
  /\ pc' = "end"
  /\ UNCHANGED <<world, target, checkpoint, seen, h, pipeline>>

Leave ==
  /\ pc' = "idle" /\ todo' = <<>> /\ seen' = 0 /\ mem' = NoState /\ h' = NoLocals
  /\ occ' = 0 /\ pending' = <<>> /\ committed' = 0 /\ closed' = 0

EndAttempt ==
  /\ At("end") /\ Leave
  /\ UNCHANGED <<world, target, ckpt>>

(***************************************************************************)
(* Attempts that end early.                                                *)
(***************************************************************************)
(* abort persists the media watermark; collect sets the status to failed,  *)
(* whatever it was.                                                        *)
Persisted(state) ==
  IF include /\ pc \in {"history", "drain"} /\ committed # mem.media
    THEN Merge(state, [media |-> committed]) ELSE state

Abort ==
  /\ Leave
  /\ ckpt' = Merge(Persisted(ckpt), [complete |-> FALSE])

(* A check of the importer, or the server, refuses to go on.               *)
Refuse ==
  /\ \/ At("refresh") /\ SourceMoved
     \/ At("target") /\ TargetRefused
     \/ At("finalize") /\ revision # seen
     \/ todo # <<>> /\ Refused(Head(todo))
     \/ /\ At("logged_artifacts") /\ pending # <<>> /\ ~Head(pending).done
        /\ Conflicts(artifacts, Head(pending).key)
  /\ Abort
  /\ UNCHANGED <<world, target>>

(* A call fails, or its effect has taken place and its answer is lost.     *)
Fail ==
  /\ pc # "idle" /\ ~At("end") /\ mem # NoState /\ faults < MaxFaults
  /\ faults' = faults + 1
  /\ Abort
  /\ UNCHANGED <<rows, include, revision, late, lost, target>>

(* The process dies, or the checkpoint cannot be written any more and      *)
(* import_wandb_runs gives up.  Where one update fails as a whole and the  *)
(* later ones of abort and collect do not, that is a Fail before it.  Not  *)
(* modelled: a run's first update fails and its status is written, or a    *)
(* part of a line is and another line behind it.  Both end in a refusal.   *)
Kill ==
  /\ pc # "idle" /\ faults < MaxFaults
  /\ faults' = faults + 1
  /\ Leave
  /\ UNCHANGED <<rows, include, revision, late, lost, target, ckpt>>

(* KeyboardInterrupt: import_wandb_runs does not wait for its workers, and *)
(* releases the lock of the checkpoint.  A worker past its last look at the*)
(* cancellation still finishes the call it was about to make.              *)
Interrupt ==
  /\ todo # <<>> /\ faults < MaxFaults /\ late = <<>>
  /\ faults' = faults + 1
  /\ late' = <<Head(todo)>>
  /\ Leave
  /\ UNCHANGED <<rows, include, revision, lost, target, ckpt>>

LateTask ==
  /\ Len(late) = 1 /\ Effect(late[1])
  /\ late' = late \o late
  /\ UNCHANGED <<rows, include, revision, faults, lost, attempt, mem>>

(* The checkpoint file is removed between two attempts, once the process   *)
(* of the earlier one is gone.                                             *)
LoseCheckpoint ==
  /\ pc = "idle" /\ ckpt # NoState /\ ~lost /\ Len(late) # 1
  /\ lost' = TRUE /\ ckpt' = NoState
  /\ UNCHANGED <<rows, include, revision, late, faults, target, attempt, mem>>

SourceChanges ==
  /\ revision < MaxRevision
  /\ revision' = revision + 1
  /\ UNCHANGED <<rows, include, late, faults, lost, target, checkpoint, attempt>>

Work ==
  \/ Refresh \/ OpenTarget \/ RecognizeFinished
  \/ ScheduleMedia \/ ScanRow \/ EndRows \/ UploadMedia \/ DrainMedia \/ EndHistory
  \/ ImportFiles \/ SubmitArtifact \/ UploadArtifact \/ CollectArtifact \/ EndArtifacts
  \/ Finalize \/ EndAttempt \/ Refuse

Next ==
  \/ Begin \/ Task \/ Work
  \/ Fail \/ Kill \/ Interrupt \/ LateTask \/ LoseCheckpoint \/ SourceChanges

Spec == Init /\ [][Next]_vars

(* A worker that can go on does, and an import that failed is run again.   *)
FairSpec == Spec /\ WF_vars(Begin) /\ WF_vars(Task) /\ WF_vars(Work)
(***************************************************************************)
(* Properties.                                                             *)
(***************************************************************************)
(* The sum of the first n amounts.                                         *)
Total(amounts, n) ==
  LET total[k \in 0 .. Len(amounts)] ==
        IF k = 0 THEN 0 ELSE total[k - 1] + amounts[k]
  IN total[n]

PointsThrough(n) == Total([k \in 1 .. Len(rows) |-> rows[k].points], n)
SkippedThrough(n) == Total([k \in 1 .. Len(rows) |-> Skipped(k)], n)

FirstFiles == {first \in 0 .. Files - 1 : first % FileChunk = 0}

(* The points of all rows, as they are in the target's revision.           *)
History ==
  FlattenSeq([n \in 1 .. Len(rows) |->
    [i \in 1 .. rows[n].points |->
      [seq |-> PointsThrough(n - 1) + i, id |-> <<n, i, config>>]]])

TypeOK ==
  /\ rows \in Histories /\ include \in BOOLEAN /\ lost \in BOOLEAN
  /\ revision \in 1 .. MaxRevision /\ seen \in 0 .. MaxRevision
  /\ config \in 0 .. MaxRevision /\ faults \in 0 .. MaxFaults
  /\ \A state \in {ckpt, mem} :
       state # NoState =>
         /\ state.phase \in {Phases[i] : i \in DOMAIN Phases}
         /\ state.rows \in 0 .. Len(rows) /\ state.media \in 0 .. Len(rows)
         /\ state.files \in 0 .. Files /\ state.arts \in 0 .. Artifacts
  /\ pc \in {"idle", "refresh", "target", "drain", "end"} \union
             {Phases[i] : i \in 1 .. 4}
  /\ Len(pending) <= IF pc = "logged_artifacts" THEN ArtifactWindow ELSE MediaWindow
  /\ Len(h.batch) <= BatchSize

(* What the checkpoint says is done, the server has acknowledged: the      *)
(* points of the rows, every media of a row, the files, the artifacts; and *)
(* the values it says were not imported are those of these rows, each      *)
(* counted once, in whatever order transfers and attempts end.             *)
CheckpointIsTrue ==
  ckpt # NoState =>
    /\ ckpt.seq - 1 = PointsThrough(ckpt.rows) /\ ckpt.seq - 1 <= Len(stored)
    /\ ckpt.unsupported = SkippedThrough(ckpt.rows)
    /\ include => \A n \in 1 .. ckpt.media : \A o \in 1 .. rows[n].media :
                    \E m \in media : m[1] = n /\ m[2] = o
    /\ \A first \in FirstFiles :
         first < ckpt.files \/ ckpt.filesDone => \E shard \in shards : shard[1] = first
    /\ \A i \in 1 .. IF ckpt.artsDone THEN Artifacts ELSE ckpt.arts :
         \E artifact \in artifacts : artifact[1] = i

LateSave == Len(late) = 2 /\ late[1].op = "save"
LateFinish == Len(late) = 2 /\ late[1].op = "finish"

(* While the source stays as it is, what an attempt sends again is what an *)
(* earlier one sent: no batch and no shard conflicts with a stored one.    *)
ResentIsKnown ==
  revision = 1 /\ todo # <<>> /\ ~LateFinish /\ Head(todo).op \in {"ingest", "shard"}
    => ~Refused(Head(todo))

(* A finished target is the whole source, in order and without repetition, *)
(* in ONE of its revisions, the one its config and its summary name.       *)
FinishedIsWhole ==
  runState = "finished" =>
    /\ stored = History
    /\ LateSave \/ summary = <<config, SkippedThrough(Len(rows))>>
    /\ include =>
         /\ \A n \in 1 .. Len(rows) : \A o \in 1 .. rows[n].media : <<n, o, config>> \in media
         /\ \A first \in FirstFiles : <<first, config>> \in shards
         /\ \A i \in 1 .. Artifacts : <<i, config>> \in artifacts

(* finish_run reached the server and its answer did not come back: the     *)
(* checkpoint is in a phase from which the next attempt recognizes it.     *)
FinishedCanRecover ==
  runState = "finished" /\ ckpt # NoState /\ ~lost /\ ~LateSave =>
    ckpt.phase \in {"finalize", "complete"}

(* An import of a source at rest completes, however many of its attempts   *)
(* end early.                                                              *)
ImportCompletes ==
  [](revision = 1 /\ ~lost /\ ~LateSave) => <>(ckpt # NoState /\ ckpt.complete)

(* Documented (ADR 0010): running an import again is safe; a failed        *)
(* refresh leaves a checkpoint from which it resumes.                      *)
FailuresAreResumable ==
  At("target") /\ revision = 1 /\ ~lost /\ late = <<>> => ~TargetRefused
=============================================================================
