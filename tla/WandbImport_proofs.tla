------------------------- MODULE WandbImport_proofs -------------------------
(***************************************************************************)
(* Theorems about WandbImport: whatever an attempt to import a run dies of,*)
(* the checkpoint claims only what the target holds, what is sent again is *)
(* what was sent, a finished target is the whole source in one revision,   *)
(* and a lost answer to finish_run is recognized.                          *)
(***************************************************************************)
EXTENDS WandbImport, SequenceLemmas

-----------------------------------------------------------------------------
(* What the target holds, or will hold once the tasks in sent are done.    *)
LastSequence(batch) == batch[Len(batch)].seq

PointsHeld(s, sent) ==
  s <= Len(stored) \/ \E t \in sent : t.op = "ingest" /\ s <= LastSequence(t.arg)

(* A batch of points begins, or will begin, at this sequence.              *)
Boundary(s, sent) ==
  \/ s = Len(stored) + 1
  \/ \E b \in batches : b[1].seq = s
  \/ \E t \in sent : t.op = "ingest" /\ s = LastSequence(t.arg) + 1

MediaHeld(n) ==
  include =>
    \A k \in 1 .. n : \A o \in 1 .. rows[k].media : \E m \in media : m[1] = k /\ m[2] = o

ShardHeld(first, sent) ==
  (\E shard \in shards : shard[1] = first) \/ \E t \in sent : t.op = "shard" /\ t.arg = first

FilesHeld(n, sent) == \A first \in FirstFiles : first < n => ShardHeld(first, sent)

ArtifactsHeld(n) == \A i \in 1 .. n : \E artifact \in artifacts : artifact[1] = i

(* What must be there before a phase begins.                               *)
PhaseHeld(phase, sent) ==
  /\ phase \in {"history", "run_files", "logged_artifacts", "finalize", "complete"}
  /\ phase # "history" =>
       PointsHeld(PointsThrough(Len(rows)), sent) /\ MediaHeld(Len(rows))
  /\ phase \in {"logged_artifacts", "finalize", "complete"} =>
       (include => FilesHeld(Files, sent))
  /\ phase \in {"finalize", "complete"} => (include => ArtifactsHeld(Artifacts))
  /\ phase = "complete" => runState = "finished" \/ \E t \in sent : t.op = "finish"

(* What an update of the checkpoint claims is true.                        *)
RowsHold(fields, sent) ==
  /\ {"rows", "seq", "unsupported"} \subseteq DOMAIN fields
  /\ fields.rows \in 0 .. Len(rows)
  /\ fields.seq = PointsThrough(fields.rows) + 1
  /\ fields.unsupported = SkippedThrough(fields.rows)
  /\ Boundary(fields.seq, sent)

SaveHolds(fields, sent) ==
  /\ DOMAIN fields \subseteq DOMAIN Fresh
  /\ DOMAIN fields \intersect {"rows", "seq", "unsupported"} # {} => RowsHold(fields, sent)
  /\ "media" \in DOMAIN fields => fields.media \in 0 .. Len(rows) /\ MediaHeld(fields.media)
  /\ "files" \in DOMAIN fields => fields.files \in Nat /\ FilesHeld(fields.files, sent)
  /\ "filesDone" \in DOMAIN fields =>
       fields.filesDone \in BOOLEAN /\ (fields.filesDone = TRUE => FilesHeld(Files, sent))
  /\ "arts" \in DOMAIN fields => fields.arts \in Nat /\ ArtifactsHeld(fields.arts)
  /\ "artsDone" \in DOMAIN fields =>
       fields.artsDone \in BOOLEAN /\ (fields.artsDone = TRUE => ArtifactsHeld(Artifacts))
  /\ "phase" \in DOMAIN fields => PhaseHeld(fields.phase, sent)
  /\ "complete" \in DOMAIN fields => fields.complete \in BOOLEAN
  /\ "revision" \in DOMAIN fields => fields.revision \in Nat

EntryHolds(state) == state # NoState => state \in Entry /\ SaveHolds(state, {})

(* The revisions the target's contents may be of.                          *)
Revisions == {v \in 1 .. revision : config <= v}

HistoryPoint == [seq : Nat, id : Nat \X Nat \X Nat]

IsPoint(p) ==
  \E n \in 1 .. Len(rows) : \E i \in 1 .. rows[n].points : \E v \in Revisions :
    p = [seq |-> PointsThrough(n - 1) + i, id |-> <<n, i, v>>]

IsBatch(batch) ==
  /\ batch \in Seq(HistoryPoint) /\ batch # <<>>
  /\ \A i \in 1 .. Len(batch) : IsPoint(batch[i]) /\ batch[i].seq = batch[1].seq + i - 1

-----------------------------------------------------------------------------
(* Where _import_history cuts the history into batches: the bytes of rows  *)
(* that fit into one point, and what makes it commit.                      *)
BytesThrough(n) ==
  Total([k \in 1 .. Len(rows) |-> IF rows[k].points = 1 THEN rows[k].size ELSE 0], n)

(* Nothing before row e ends a batch that starts behind row r.             *)
Fits(r, e) ==
  \A k \in r + 1 .. e :
    /\ rows[k].points <= 1
    /\ rows[k].points = 1 /\ PointsThrough(k - 1) > PointsThrough(r) =>
         /\ BytesThrough(k) - BytesThrough(r) <= ByteLimit
         /\ PointsThrough(k - 1) - PointsThrough(r) < BatchSize

(* The batch is full, or it is the last one, or the next row does not fit. *)
Stops(r, e) ==
  \/ PointsThrough(e) - PointsThrough(r) >= BatchSize
  \/ PointsThrough(e) = PointsThrough(Len(rows))
  \/ \E k \in e + 1 .. Len(rows) :
       /\ PointsThrough(k - 1) = PointsThrough(e)
       /\ \/ rows[k].points > 1
          \/ rows[k].points = 1 /\ BytesThrough(k) - BytesThrough(r) > ByteLimit

NarrowCut(batch) ==
  \E r, e \in 0 .. Len(rows) :
    /\ r <= e /\ Fits(r, e) /\ Stops(r, e)
    /\ batch[1].seq = PointsThrough(r) + 1 /\ LastSequence(batch) = PointsThrough(e)

(* The k-th part of a wide row.                                            *)
EndOfPart(n, k) ==
  IF k * SplitLimit <= rows[n].points THEN k * SplitLimit ELSE rows[n].points

WideCut(batch) ==
  \E n \in 1 .. Len(rows) : \E k \in Nat \ {0} :
    /\ rows[n].points > 1 /\ (k - 1) * SplitLimit < rows[n].points
    /\ batch[1].seq = PointsThrough(n - 1) + (k - 1) * SplitLimit + 1
    /\ LastSequence(batch) = PointsThrough(n - 1) + EndOfPart(n, k)

IsCut(batch) == NarrowCut(batch) \/ WideCut(batch)

-----------------------------------------------------------------------------
(* The target has all of the source, in the revision its config names.     *)
Whole ==
  /\ Len(stored) = PointsThrough(Len(rows))
  /\ \A q \in 1 .. Len(stored) : stored[q].id[3] = config
  /\ include =>
       /\ \A n \in 1 .. Len(rows) : \A o \in 1 .. rows[n].media : <<n, o, config>> \in media
       /\ \A first \in FirstFiles : <<first, config>> \in shards
       /\ \A i \in 1 .. Artifacts : <<i, config>> \in artifacts

(* A task is right to be carried out after those in sent.                  *)
TaskHolds(t, sent) ==
  \/ t.op = "save" /\ SaveHolds(t.arg, sent)
  \/ t.op = "create" /\ t.arg \in 1 .. revision
  \/ /\ t.op = "ingest" /\ runState # "absent"
     /\ IsBatch(t.arg) /\ IsCut(t.arg) /\ Boundary(t.arg[1].seq, sent)
  \/ t.op = "shard" /\ runState # "absent" /\ t.arg \in Nat
  \/ t.op = "finish" /\ runState # "absent" /\ Whole

Before(tasks, i) == {tasks[j] : j \in 1 .. i - 1}

Follow(tasks, sent) ==
  \A i \in 1 .. Len(tasks) : TaskHolds(tasks[i], sent \union Before(tasks, i))

IsSequence(s) == \E S : s \in Seq(S)

-----------------------------------------------------------------------------
(* The parts of the invariant.  First the source and the target.           *)
TargetInv ==
  /\ rows \in Seq(Row) /\ include \in BOOLEAN
  /\ revision \in Nat /\ revision >= 1 /\ config \in 0 .. revision
  /\ runState \in {"absent", "running", "finished"}
  /\ runState = "absent" =>
       /\ config = 0 /\ stored = <<>> /\ batches = {}
       /\ media = {} /\ shards = {} /\ artifacts = {}
  /\ stored \in Seq(HistoryPoint)
  /\ \A q \in 1 .. Len(stored) : IsPoint(stored[q]) /\ stored[q].seq = q
  /\ Boundary(1, {})
  /\ \A b \in batches :
       /\ IsBatch(b) /\ IsCut(b)
       /\ LastSequence(b) <= Len(stored) /\ Boundary(LastSequence(b) + 1, {})
  /\ media \subseteq Nat \X Nat \X Nat /\ shards \subseteq Nat \X Nat
  /\ artifacts \subseteq Nat \X Nat
  /\ \A m \in media : m[3] \in Revisions
  /\ \A shard \in shards : shard[2] \in Revisions
  /\ \A artifact \in artifacts : artifact[2] \in Revisions
  /\ runState = "finished" => Whole

(* What is claimed, and what is about to be done.                          *)
ClaimsInv ==
  /\ EntryHolds(ckpt) /\ EntryHolds(mem)
  /\ IsSequence(todo) /\ Follow(todo, {})
  /\ late = <<>> \/ (\E t : late = <<t>> /\ TaskHolds(t, {})) \/ \E t : late = <<t, t>>

PhaseSave(t) == t.op = "save" /\ "phase" \in DOMAIN t.arg
FinishTask(t) == t.op = "finish"
Scanning == {"history", "drain"}
Later == {"run_files", "logged_artifacts", "finalize"}
Working == pc \in Scanning \union Later

(* Where the worker stands, and the phase it has entered.                  *)
PlaceInv ==
  /\ pc \in {"idle", "refresh", "target", "end"} \union Scanning \union Later
  /\ pc \in {"idle", "target"} => todo = <<>>
  /\ pc = "refresh" => todo = <<>> \/ todo = Save([phase |-> "history"])
  /\ pc # "idle" => mem # NoState \/ (pc = "refresh" /\ todo # <<>>)
  /\ pc = "target" => seen \in 1 .. revision
  /\ pc \in Scanning => mem.phase = "history" /\ \A t \in ToSet(todo) : ~PhaseSave(t)
  /\ pc \in Later =>
       /\ \A t \in ToSet(todo) : PhaseSave(t) => t.arg.phase = pc
       /\ mem.phase = pc \/ \E t \in ToSet(todo) : PhaseSave(t)
  /\ \A t \in ToSet(todo) : FinishTask(t) => pc = "end"
  /\ pc = "end" => \A t \in ToSet(todo) : t.op \in {"save", "finish"}
  /\ Working =>
       /\ seen \in 1 .. revision
       /\ \/ runState # "absent" /\ config = seen
          \/ todo # <<>> /\ Head(todo).op = "create" /\ Head(todo).arg = seen
       /\ runState = "finished" => LateFinish

(* The locals of _import_history.                                          *)
Locals == [scanned : Nat, rows : Nat, seq : Nat, unsupported : Nat,
           batch : Seq(HistoryPoint), bytes : Nat, end : Nat]

LocalsHold(p, sent) ==
  /\ p \in Locals /\ p.end \in 0 .. Len(rows) /\ p.rows \in 0 .. p.end
  /\ p.seq = PointsThrough(p.rows) + 1 /\ Boundary(p.seq, sent)
  /\ p.unsupported = SkippedThrough(p.end)
  /\ Len(p.batch) = PointsThrough(p.end) - PointsThrough(p.rows)
  /\ \A i \in 1 .. Len(p.batch) : IsPoint(p.batch[i]) /\ p.batch[i].seq = p.seq + i - 1
  /\ Fits(p.rows, p.end) /\ p.bytes = BytesThrough(p.end) - BytesThrough(p.rows)

LocalsInv ==
  Working =>
    /\ LocalsHold(h, ToSet(todo))
    /\ h.scanned \in 0 .. h.end
    /\ h.scanned < h.end \/ pc # "history" => h.rows = h.end
    /\ h.batch # <<>> => runState # "absent"
    /\ pc = "history" => Len(h.batch) < BatchSize
    /\ pc = "drain" => h.rows = Len(rows)

(* A medium is stored or its transfer is under way.                        *)
Stands(queue, n, o) ==
  \/ \E m \in media : m[1] = n /\ m[2] = o
  \/ \E i \in 1 .. Len(queue) : queue[i].key = n /\ queue[i].occ = o

PendingTransfer == [key : Nat, occ : Nat, done : BOOLEAN]

(* The media and the artifacts under way.                                  *)
MediaInv ==
  /\ pending \in Seq(PendingTransfer)
  /\ Working => committed \in 0 .. Len(rows) /\ MediaHeld(committed)
  /\ pc \in Scanning =>
       /\ closed \in committed .. Len(rows)
       /\ \A i \in 1 .. Len(pending) :
            pending[i].done => \E m \in media : m[1] = pending[i].key /\ m[2] = pending[i].occ
       /\ include =>
            /\ h.scanned <= closed
            /\ \A n \in 1 .. closed : \A o \in 1 .. rows[n].media : Stands(pending, n, o)
            /\ pc = "history" /\ HistoryPipelined =>
                 occ \in Nat /\ \A o \in 1 .. occ : Stands(pending, h.scanned + 1, o)
            /\ pc = "drain" => closed = Len(rows)

ArtifactInv ==
  /\ pc \in {"run_files", "finalize"} => pending = <<>>
  /\ pc = "logged_artifacts" /\ pending # <<>> =>
       /\ \A i \in 1 .. Len(pending) :
            /\ pending[i].key = pending[1].key + i - 1
            /\ pending[i].done => \E a \in artifacts : a[1] = pending[i].key
       /\ \/ todo = <<>> /\ pending[1].key = mem.arts + 1
          \/ todo = Save([arts |-> pending[1].key - 1])

(* While no late update has changed the checkpoint, it is what the worker  *)
(* knows, and what finish_run is told counts all rows.                     *)
Expected == <<config, SkippedThrough(Len(rows))>>

SyncInv ==
  ~LateSave =>
    /\ pc # "idle" => mem = ckpt
    /\ ckpt # NoState /\ ckpt.phase # "history" => ckpt.rows = Len(rows)
    /\ pc \in Later => h.rows = Len(rows)
    /\ \A t \in ToSet(todo) :
         t.op = "save" =>
           /\ pc \notin Scanning /\ "rows" \in DOMAIN t.arg => t.arg.rows = Len(rows)
           /\ PhaseSave(t) /\ t.arg.phase # "history" =>
                "rows" \in DOMAIN t.arg \/ (ckpt # NoState /\ ckpt.rows = Len(rows))
    /\ runState = "finished" => summary = Expected
    /\ \A t \in ToSet(todo) : FinishTask(t) => t.arg = Expected
    /\ Len(late) = 1 /\ FinishTask(late[1]) => late[1].arg = Expected

(* From the request to finish on, the checkpoint is in a phase from which  *)
(* a finished target is recognized.                                        *)
Concluding ==
  \/ runState = "finished" \/ \E t \in ToSet(todo) : FinishTask(t)
  \/ Len(late) = 1 /\ FinishTask(late[1])

Concluded == {"finalize", "complete"}

RecoverInv ==
  ~LateSave /\ ~lost /\ Concluding =>
    /\ ckpt # NoState /\ ckpt.phase \in Concluded
    /\ pc \in {"idle", "refresh", "target", "finalize", "end"}
    /\ \A t \in ToSet(todo) : PhaseSave(t) => t.arg.phase \in Concluded

ImportInv ==
  /\ TargetInv /\ ClaimsInv /\ PlaceInv /\ LocalsInv /\ MediaInv /\ ArtifactInv
  /\ SyncInv /\ RecoverInv

-----------------------------------------------------------------------------
(* Sums.                                                                   *)

(* Total is what its equations say.                                        *)
LEMMA TotalDefined ==
  ASSUME NEW amounts \in Seq(Nat)
  PROVE  /\ Total(amounts, 0) = 0
         /\ \A k \in 0 .. Len(amounts) : Total(amounts, k) \in Nat
         /\ \A k \in 1 .. Len(amounts) :
              Total(amounts, k) = Total(amounts, k - 1) + amounts[k]
<1> DEFINE m == Len(amounts)
<1> DEFINE IsTotal(f) ==
      f = [k \in 0 .. m |-> IF k = 0 THEN 0 ELSE f[k - 1] + amounts[k]]
<1> DEFINE step == [x \in (1 .. m) \X Nat |-> x[2] + amounts[x[1]]]
<1>1. step \in [(1 .. m) \X Nat -> Nat] /\ m \in Nat
  OBVIOUS
<1>2. PICK f \in [0 .. m -> Nat] : f[0] = 0 /\ \A i \in 1 .. m : f[i] = step[<<i, f[i - 1]>>]
  <2>1. step \in Steps(m, Nat) /\ 0 \in Nat
    BY <1>1 DEF Steps
  <2> HIDE DEF step
  <2>2. Recursive(m, Nat, 0, step) # {}
    BY <1>1, <2>1, Recursion
  <2> QED
    BY <2>2 DEF Recursive
<1>3. ASSUME NEW i \in 1 .. m PROVE f[i] = f[i - 1] + amounts[i]
  <2>1. i - 1 \in 0 .. m
    BY <1>1
  <2>2. <<i, f[i - 1]>> \in (1 .. m) \X Nat
    BY <2>1
  <2> QED
    BY <1>2, <2>2
<1>4. IsTotal(f)
  <2>1. ASSUME NEW i \in 0 .. m PROVE f[i] = IF i = 0 THEN 0 ELSE f[i - 1] + amounts[i]
    <3>1. CASE i = 0
      BY <1>2, <3>1
    <3>2. CASE i # 0
      <4>1. i \in 1 .. m
        BY <1>1, <3>2
      <4> QED
        BY <1>3, <4>1
    <3> QED
      BY <3>1, <3>2
  <2> QED
    BY <2>1
<1> DEFINE total == CHOOSE f_1 : IsTotal(f_1)
<1>5. IsTotal(total)
  BY <1>4
<1>6. \A k \in 0 .. m : Total(amounts, k) = total[k]
  BY DEF Total
<1> HIDE DEF total
<1>7. total[0] = 0 /\ \A k \in 1 .. m : total[k] = total[k - 1] + amounts[k]
  BY <1>1, <1>5
<1> HIDE DEF IsTotal
<1> DEFINE T == {n \in Nat : n <= m => total[n] \in Nat}
<1>8. 0 \in T
  BY <1>7
<1>9. ASSUME NEW n \in T PROVE n + 1 \in T
  <2> SUFFICES ASSUME n + 1 <= m PROVE total[n + 1] \in Nat
    OBVIOUS
  <2>1. n + 1 \in 1 .. m /\ (n + 1) - 1 = n /\ amounts[n + 1] \in Nat /\ total[n] \in Nat
    OBVIOUS
  <2>2. total[n + 1] = total[(n + 1) - 1] + amounts[n + 1]
    BY <1>7, <2>1
  <2> QED
    BY <2>1, <2>2
<1>10. T = Nat
  BY <1>8, <1>9, Induction
<1>11. \A k \in 0 .. m : total[k] \in Nat
  BY <1>1, <1>10
<1>12. \A k \in 1 .. m : k \in 0 .. m /\ k - 1 \in 0 .. m /\ 0 \in 0 .. m
  BY <1>1
<1>13. 0 \in 0 .. m
  BY <1>1
<1> QED
  BY <1>6, <1>7, <1>11, <1>12, <1>13

(* A sum grows with what is added.                                         *)
LEMMA TotalGrows ==
  ASSUME NEW amounts \in Seq(Nat), NEW i \in 0 .. Len(amounts), NEW j \in i .. Len(amounts)
  PROVE  Total(amounts, i) <= Total(amounts, j)
<1> DEFINE T == {n \in Nat : i + n <= Len(amounts) => Total(amounts, i) <= Total(amounts, i + n)}
<1>1. Len(amounts) \in Nat /\ i \in Nat /\ j \in Nat /\ Total(amounts, i) \in Nat
  BY TotalDefined
<1>2. 0 \in T
  BY <1>1
<1>3. ASSUME NEW n \in T PROVE n + 1 \in T
  <2> SUFFICES ASSUME i + (n + 1) <= Len(amounts)
      PROVE  Total(amounts, i) <= Total(amounts, i + (n + 1))
    OBVIOUS
  <2>1. i + n \in 0 .. Len(amounts) /\ i + (n + 1) \in 1 .. Len(amounts)
        /\ (i + (n + 1)) - 1 = i + n
    BY <1>1
  <2>2. Total(amounts, i + (n + 1)) = Total(amounts, i + n) + amounts[i + (n + 1)]
    BY <2>1, TotalDefined
  <2>3. Total(amounts, i + n) \in Nat /\ amounts[i + (n + 1)] \in Nat
    BY <2>1, TotalDefined
  <2>4. Total(amounts, i) <= Total(amounts, i + n)
    BY <1>1, <2>1
  <2> QED
    BY <1>1, <2>2, <2>3, <2>4
<1>4. T = Nat
  BY <1>2, <1>3, Induction
<1>5. j - i \in Nat /\ i + (j - i) = j /\ j <= Len(amounts)
  BY <1>1
<1>6. j - i \in T
  <2> HIDE DEF T
  <2> QED
    BY <1>4, <1>5
<1> QED
  BY <1>5, <1>6

(* What is known of a source.                                              *)
SourceTyped == rows \in Seq(Row) /\ include \in BOOLEAN

(* The points, the skipped values and the bytes of the rows before one.    *)
LEMMA Sums ==
  ASSUME SourceTyped
  PROVE  /\ Len(rows) \in Nat
         /\ PointsThrough(0) = 0 /\ SkippedThrough(0) = 0 /\ BytesThrough(0) = 0
         /\ \A n \in 0 .. Len(rows) :
              PointsThrough(n) \in Nat /\ SkippedThrough(n) \in Nat /\ BytesThrough(n) \in Nat
         /\ \A n \in 1 .. Len(rows) :
              /\ rows[n] \in Row
              /\ PointsThrough(n) = PointsThrough(n - 1) + rows[n].points
              /\ SkippedThrough(n) = SkippedThrough(n - 1) + Skipped(n)
              /\ BytesThrough(n) =
                   BytesThrough(n - 1) + (IF rows[n].points = 1 THEN rows[n].size ELSE 0)
         /\ \A m \in 0 .. Len(rows) : \A n \in m .. Len(rows) :
              PointsThrough(m) <= PointsThrough(n) /\ BytesThrough(m) <= BytesThrough(n)
<1> DEFINE points == [k \in 1 .. Len(rows) |-> rows[k].points]
<1> DEFINE skips == [k \in 1 .. Len(rows) |-> Skipped(k)]
<1> DEFINE sizes == [k \in 1 .. Len(rows) |-> IF rows[k].points = 1 THEN rows[k].size ELSE 0]
<1>1. Len(rows) \in Nat /\ \A n \in 1 .. Len(rows) : rows[n] \in Row
  BY DEF SourceTyped
<1>2. \A n \in 1 .. Len(rows) : rows[n].points \in Nat /\ Skipped(n) \in Nat /\ rows[n].size \in Nat
  BY <1>1 DEF Row, Skipped
<1>3. points \in Seq(Nat) /\ skips \in Seq(Nat) /\ sizes \in Seq(Nat)
  BY <1>1, <1>2
<1>4. Len(points) = Len(rows) /\ Len(skips) = Len(rows) /\ Len(sizes) = Len(rows)
  BY <1>1
<1>5. /\ \A n \in 1 .. Len(rows) :
           /\ points[n] = rows[n].points /\ skips[n] = Skipped(n)
           /\ sizes[n] = IF rows[n].points = 1 THEN rows[n].size ELSE 0
      /\ \A n : /\ PointsThrough(n) = Total(points, n) /\ SkippedThrough(n) = Total(skips, n)
                /\ BytesThrough(n) = Total(sizes, n)
  BY DEF PointsThrough, SkippedThrough, BytesThrough
<1> HIDE DEF points, skips, sizes
<1>6. \A n \in 1 .. Len(rows) :
        /\ Total(points, n) = Total(points, n - 1) + points[n]
        /\ Total(skips, n) = Total(skips, n - 1) + skips[n]
        /\ Total(sizes, n) = Total(sizes, n - 1) + sizes[n]
  BY <1>3, <1>4, TotalDefined
<1>7. \A n \in 0 .. Len(rows) :
        Total(points, n) \in Nat /\ Total(skips, n) \in Nat /\ Total(sizes, n) \in Nat
  BY <1>3, <1>4, TotalDefined
<1>8. Total(points, 0) = 0 /\ Total(skips, 0) = 0 /\ Total(sizes, 0) = 0
  BY <1>3, TotalDefined
<1>9. \A m \in 0 .. Len(rows) : \A n \in m .. Len(rows) :
        Total(points, m) <= Total(points, n) /\ Total(sizes, m) <= Total(sizes, n)
  BY <1>3, <1>4, TotalGrows
<1> QED
  BY <1>1, <1>5, <1>6, <1>7, <1>8, <1>9

(* A sequence is at most one point of one row.                             *)
LEMMA PointIsUnique ==
  ASSUME SourceTyped, NEW m \in 1 .. Len(rows), NEW n \in 1 .. Len(rows),
         NEW i \in 1 .. rows[m].points, NEW j \in 1 .. rows[n].points,
         PointsThrough(m - 1) + i = PointsThrough(n - 1) + j
  PROVE  m = n /\ i = j
<1>1. /\ Len(rows) \in Nat /\ rows[m] \in Row /\ rows[n] \in Row
      /\ PointsThrough(m) = PointsThrough(m - 1) + rows[m].points
      /\ PointsThrough(n) = PointsThrough(n - 1) + rows[n].points
  BY Sums
<1>2. /\ m - 1 \in 0 .. Len(rows) /\ n - 1 \in 0 .. Len(rows)
      /\ m \in 0 .. Len(rows) /\ n \in 0 .. Len(rows)
  BY <1>1
<1>3. /\ PointsThrough(m - 1) \in Nat /\ PointsThrough(n - 1) \in Nat
      /\ PointsThrough(m) \in Nat /\ PointsThrough(n) \in Nat
  BY <1>2, Sums
<1>4. rows[m].points \in Nat /\ rows[n].points \in Nat
  BY <1>1 DEF Row
<1>5. CASE m < n
  <2>1. n - 1 \in m .. Len(rows)
    BY <1>1, <1>2, <1>5
  <2>2. PointsThrough(m) <= PointsThrough(n - 1)
    BY <1>2, <2>1, Sums
  <2> QED
    BY <1>1, <1>3, <1>4, <2>2
<1>6. CASE n < m
  <2>1. m - 1 \in n .. Len(rows)
    BY <1>1, <1>2, <1>6
  <2>2. PointsThrough(n) <= PointsThrough(m - 1)
    BY <1>2, <2>1, Sums
  <2> QED
    BY <1>1, <1>3, <1>4, <2>2
<1>7. CASE m = n
  BY <1>3, <1>4, <1>7
<1> QED
  BY <1>1, <1>5, <1>6, <1>7

(* Every sequence up to the number of points is one of some row.           *)
LEMMA PointExists ==
  ASSUME SourceTyped, NEW q \in 1 .. PointsThrough(Len(rows))
  PROVE  \E n \in 1 .. Len(rows) : \E i \in 1 .. rows[n].points : q = PointsThrough(n - 1) + i
<1> DEFINE T == {n \in Nat : n <= Len(rows) /\ q <= PointsThrough(n)}
<1>1. Len(rows) \in Nat /\ PointsThrough(0) = 0 /\ q \in Nat /\ q >= 1
  <2>1. Len(rows) \in Nat /\ PointsThrough(0) = 0
    BY Sums
  <2>2. PointsThrough(Len(rows)) \in Nat
    BY <2>1, Sums
  <2> QED
    BY <2>1, <2>2
<1>2. Len(rows) \in T /\ T \in SUBSET Nat
  BY <1>1
<1>3. PICK n \in T : \A k \in T : n <= k
  BY <1>2, LeastElement
<1>4. n # 0
  BY <1>1, <1>3
<1>5. n \in 1 .. Len(rows) /\ n - 1 \in Nat /\ n - 1 \in 0 .. Len(rows)
  BY <1>1, <1>3, <1>4
<1>6. ~(q <= PointsThrough(n - 1))
  BY <1>1, <1>3, <1>5
<1>7. /\ PointsThrough(n) = PointsThrough(n - 1) + rows[n].points /\ rows[n] \in Row
      /\ PointsThrough(n - 1) \in Nat
  BY <1>5, Sums
<1>8. rows[n].points \in Nat /\ q <= PointsThrough(n)
  BY <1>3, <1>7 DEF Row
<1>9. q - PointsThrough(n - 1) \in 1 .. rows[n].points
  BY <1>1, <1>6, <1>7, <1>8
<1>10. q = PointsThrough(n - 1) + (q - PointsThrough(n - 1))
  BY <1>1, <1>7
<1> QED
  BY <1>5, <1>9, <1>10

-----------------------------------------------------------------------------
(* What a step may do to the target: it only gets more.                    *)
Grows ==
  /\ rows' = rows /\ include' = include
  /\ revision \in Nat /\ revision' \in Nat /\ revision <= revision'
  /\ Len(stored) \in Nat /\ Len(stored') \in Nat /\ Len(stored) <= Len(stored')
  /\ batches \subseteq batches' /\ media \subseteq media'
  /\ shards \subseteq shards' /\ artifacts \subseteq artifacts'
  /\ Len(stored') = Len(stored) \/ \E b \in batches' : b[1].seq = Len(stored) + 1
  /\ runState # "absent" => runState' # "absent" /\ config' = config
  /\ runState = "finished" => runState' = "finished"
  /\ runState # "absent" /\ Whole => Whole'

(* What does not depend on the target.                                     *)
LEMMA SourceStays ==
  ASSUME rows' = rows, include' = include
  PROVE  /\ \A n : PointsThrough(n)' = PointsThrough(n)
         /\ \A n : SkippedThrough(n)' = SkippedThrough(n)
         /\ \A n : BytesThrough(n)' = BytesThrough(n)
         /\ \A r, e : Fits(r, e)' <=> Fits(r, e)
         /\ \A b : IsCut(b)' <=> IsCut(b)
         /\ (SourceTyped' <=> SourceTyped)
<1>1. /\ \A n : PointsThrough(n)' = PointsThrough(n)
      /\ \A n : BytesThrough(n)' = BytesThrough(n)
  BY DEF PointsThrough, BytesThrough
<1>2. \A n : Skipped(n)' = Skipped(n)
  BY DEF Skipped
<1>3. \A n : SkippedThrough(n)' = SkippedThrough(n)
  BY <1>2 DEF SkippedThrough
<1>4. \A r, e : Fits(r, e)' <=> Fits(r, e)
  BY <1>1 DEF Fits
<1>5. \A r, e : Stops(r, e)' <=> Stops(r, e)
  BY <1>1 DEF Stops
<1>6. \A b : NarrowCut(b)' <=> NarrowCut(b)
  BY <1>1, <1>4, <1>5 DEF NarrowCut, LastSequence
<1>7. \A b : WideCut(b)' <=> WideCut(b)
  BY <1>1 DEF WideCut, LastSequence, EndOfPart
<1> QED
  BY <1>1, <1>3, <1>4, <1>6, <1>7 DEF IsCut, SourceTyped

(* What is held stays held.                                                *)
LEMMA HeldStays ==
  ASSUME Grows
  PROVE  /\ \A s, sent : s \in Nat /\ PointsHeld(s, sent) => PointsHeld(s, sent)'
         /\ \A s, sent : Boundary(s, sent) => Boundary(s, sent)'
         /\ \A n : MediaHeld(n) => MediaHeld(n)'
         /\ \A n, sent : FilesHeld(n, sent) => FilesHeld(n, sent)'
         /\ \A n : ArtifactsHeld(n) => ArtifactsHeld(n)'
<1> USE DEF Grows
<1>1. \A s, sent : s \in Nat /\ PointsHeld(s, sent) => PointsHeld(s, sent)'
  BY DEF PointsHeld, LastSequence
<1>2. \A s, sent : Boundary(s, sent) => Boundary(s, sent)'
  BY DEF Boundary, LastSequence
<1>3. \A n : MediaHeld(n) => MediaHeld(n)'
  BY DEF MediaHeld
<1>4. FirstFiles' = FirstFiles
  BY DEF FirstFiles
<1>5. \A f, sent : ShardHeld(f, sent) => ShardHeld(f, sent)'
  BY DEF ShardHeld
<1>6. \A n, sent : FilesHeld(n, sent) => FilesHeld(n, sent)'
  BY <1>4, <1>5 DEF FilesHeld
<1>7. \A n : ArtifactsHeld(n) => ArtifactsHeld(n)'
  BY DEF ArtifactsHeld
<1> QED
  BY <1>1, <1>2, <1>3, <1>6, <1>7

(* A phase that may begin may still begin once the target has grown.       *)
LEMMA PhaseStays ==
  ASSUME SourceTyped, Grows, NEW phase, NEW sent, PhaseHeld(phase, sent)
  PROVE  PhaseHeld(phase, sent)'
<1>1. rows' = rows /\ include' = include
  BY DEF Grows
<1>2. PointsThrough(Len(rows))' = PointsThrough(Len(rows)) /\ PointsThrough(Len(rows)) \in Nat
  BY <1>1, SourceStays, Sums
<1>3. PointsHeld(PointsThrough(Len(rows)), sent) => PointsHeld(PointsThrough(Len(rows)), sent)'
  BY <1>1, <1>2, HeldStays DEF PointsHeld, LastSequence, Grows
<1>4. MediaHeld(Len(rows)) => MediaHeld(Len(rows))'
  BY <1>1, HeldStays DEF MediaHeld, Grows
<1>5. FilesHeld(Files, sent) => FilesHeld(Files, sent)'
  BY HeldStays
<1>6. ArtifactsHeld(Artifacts) => ArtifactsHeld(Artifacts)'
  BY HeldStays
<1>7. runState = "finished" => runState' = "finished"
  BY DEF Grows
<1> QED
  BY <1>1, <1>3, <1>4, <1>5, <1>6, <1>7 DEF PhaseHeld

(* An update of the checkpoint that is true stays true while the target    *)
(* grows.                                                                  *)
LEMMA SaveStays ==
  ASSUME SourceTyped, Grows, NEW fields, NEW sent, SaveHolds(fields, sent)
  PROVE  SaveHolds(fields, sent)'
<1>1. rows' = rows /\ include' = include
  BY DEF Grows
<1>2. RowsHold(fields, sent) => RowsHold(fields, sent)'
  <2> SUFFICES ASSUME RowsHold(fields, sent) PROVE RowsHold(fields, sent)'
    OBVIOUS
  <2>1. PointsThrough(fields.rows)' = PointsThrough(fields.rows)
        /\ SkippedThrough(fields.rows)' = SkippedThrough(fields.rows)
    BY <1>1, SourceStays
  <2>2. Boundary(fields.seq, sent) => Boundary(fields.seq, sent)'
    BY HeldStays
  <2> QED
    BY <1>1, <2>1, <2>2 DEF RowsHold
<1>3. MediaHeld(fields.media) => MediaHeld(fields.media)'
  BY HeldStays
<1>4. FilesHeld(fields.files, sent) => FilesHeld(fields.files, sent)'
  BY HeldStays
<1>5. FilesHeld(Files, sent) => FilesHeld(Files, sent)'
  BY HeldStays
<1>6. ArtifactsHeld(Artifacts) => ArtifactsHeld(Artifacts)'
  BY HeldStays
<1>7. ArtifactsHeld(fields.arts) => ArtifactsHeld(fields.arts)'
  BY HeldStays
<1>8. PhaseHeld(fields.phase, sent) => PhaseHeld(fields.phase, sent)'
  BY PhaseStays
<1> QED
  BY <1>1, <1>2, <1>3, <1>4, <1>5, <1>6, <1>7, <1>8 DEF SaveHolds

(* A point of an existing revision stays one.                              *)
LEMMA PointStays ==
  ASSUME Grows, runState # "absent" PROVE \A p : IsPoint(p) => IsPoint(p)'
<1>1. rows' = rows /\ include' = include /\ config' = config
  BY DEF Grows
<1>2. \A n : PointsThrough(n)' = PointsThrough(n)
  BY <1>1, SourceStays
<1>3. \A v : v \in Revisions => v \in Revisions'
  BY <1>1 DEF Revisions, Grows
<1> QED
  BY <1>1, <1>2, <1>3 DEF IsPoint

(* A task that is right to be carried out stays right while the target     *)
(* grows.                                                                  *)
LEMMA TaskStays ==
  ASSUME SourceTyped, Grows, NEW t, NEW sent, TaskHolds(t, sent)
  PROVE  TaskHolds(t, sent)'
<1>1. rows' = rows /\ include' = include
  BY DEF Grows
<1>2. SaveHolds(t.arg, sent) => SaveHolds(t.arg, sent)'
  BY SaveStays
<1>3. runState # "absent" => \A b : IsBatch(b) => IsBatch(b)'
  BY PointStays DEF IsBatch
<1>4. Boundary(t.arg[1].seq, sent) => Boundary(t.arg[1].seq, sent)'
  BY HeldStays
<1>5. IsCut(t.arg) => IsCut(t.arg)'
  BY <1>1, SourceStays
<1>6. t.arg \in 1 .. revision => t.arg \in 1 .. revision'
  BY DEF Grows
<1>7. /\ runState # "absent" => runState' # "absent"
      /\ runState # "absent" /\ Whole => Whole'
  BY DEF Grows
<1> QED
  BY <1>2, <1>3, <1>4, <1>5, <1>6, <1>7 DEF TaskHolds

-----------------------------------------------------------------------------
(* Points, batches, and what a task does to the target.                    *)
LEMMA PointTyped ==
  ASSUME TargetInv
  PROVE  /\ SourceTyped /\ PointsThrough(Len(rows)) \in Nat
         /\ \A p : IsPoint(p) =>
              p \in HistoryPoint /\ p.seq \in 1 .. PointsThrough(Len(rows))
<1>1. SourceTyped /\ revision \in Nat
  BY DEF TargetInv, SourceTyped
<1>2. /\ Len(rows) \in Nat /\ PointsThrough(Len(rows)) \in Nat
      /\ \A n \in 1 .. Len(rows) :
           /\ n - 1 \in 0 .. Len(rows) /\ n \in 0 .. Len(rows) /\ Len(rows) \in n .. Len(rows)
           /\ rows[n] \in Row
           /\ PointsThrough(n) = PointsThrough(n - 1) + rows[n].points
  BY <1>1, Sums
<1>3. ASSUME NEW p, IsPoint(p)
      PROVE  p \in HistoryPoint /\ p.seq \in 1 .. PointsThrough(Len(rows))
  <2>1. PICK n \in 1 .. Len(rows) : \E i \in 1 .. rows[n].points : \E v \in Revisions :
               p = [seq |-> PointsThrough(n - 1) + i, id |-> <<n, i, v>>]
    BY <1>3 DEF IsPoint
  <2>2. PICK i \in 1 .. rows[n].points : \E v \in Revisions :
               p = [seq |-> PointsThrough(n - 1) + i, id |-> <<n, i, v>>]
    BY <2>1
  <2>3. PICK v \in Revisions : p = [seq |-> PointsThrough(n - 1) + i, id |-> <<n, i, v>>]
    BY <2>2
  <2>4. PointsThrough(n - 1) \in Nat /\ PointsThrough(n) \in Nat
        /\ PointsThrough(n) <= PointsThrough(Len(rows))
    BY <1>1, <1>2, Sums
  <2>5. rows[n].points \in Nat /\ i \in Nat /\ v \in Nat /\ n \in Nat /\ i >= 1
    BY <1>1, <1>2 DEF Row, Revisions
  <2>6. PointsThrough(n - 1) + i \in Nat /\ PointsThrough(n - 1) + i >= 1
        /\ PointsThrough(n - 1) + i <= PointsThrough(Len(rows))
    BY <1>2, <2>4, <2>5
  <2> QED
    BY <1>2, <2>3, <2>5, <2>6 DEF HistoryPoint
<1> QED
  BY <1>1, <1>2, <1>3

(* The sequences of a batch run without a gap from its first point to its  *)
(* last, and none is beyond the source's points.                           *)
LEMMA BatchTyped ==
  ASSUME TargetInv, NEW b, IsBatch(b)
  PROVE  /\ Len(b) \in Nat /\ Len(b) >= 1 /\ b[1].seq \in Nat /\ b[1].seq >= 1
         /\ LastSequence(b) = b[1].seq + Len(b) - 1
         /\ LastSequence(b) <= PointsThrough(Len(rows)) /\ PointsThrough(Len(rows)) \in Nat
<1>1. Len(b) \in Nat /\ Len(b) >= 1 /\ 1 \in 1 .. Len(b) /\ Len(b) \in 1 .. Len(b)
  BY EmptySeq DEF IsBatch
<1>2. /\ b[1].seq \in 1 .. PointsThrough(Len(rows)) /\ PointsThrough(Len(rows)) \in Nat
      /\ b[Len(b)].seq \in 1 .. PointsThrough(Len(rows))
      /\ b[Len(b)].seq = b[1].seq + Len(b) - 1
  BY <1>1, PointTyped DEF IsBatch
<1> QED
  BY <1>1, <1>2 DEF LastSequence

(* The next batch the target can accept follows what is stored.            *)
LEMMA AcceptedFollows ==
  ASSUME TargetInv, NEW r, IsBatch(r), Boundary(r[1].seq, {}), Continues(r)
  PROVE  r[1].seq = Len(stored) + 1
<1>1. stored \in Seq(HistoryPoint) /\ Len(stored) \in Nat
  BY DEF TargetInv
<1>2. CASE stored # <<>>
  <2>1. Len(stored) \in 1 .. Len(stored)
    BY <1>1, <1>2
  <2>2. stored[Len(stored)].seq = Len(stored)
    BY <2>1 DEF TargetInv
  <2> QED
    BY <1>2, <2>2 DEF Continues, BatchSequence
<1>3. CASE stored = <<>>
  <2>1. Len(stored) = 0
    BY <1>3
  <2>2. ASSUME NEW b \in batches PROVE FALSE
    <3>1. IsBatch(b) /\ LastSequence(b) <= 0
      BY <2>1 DEF TargetInv
    <3> QED
      BY <3>1, BatchTyped
  <2> QED
    BY <2>1, <2>2 DEF Boundary
<1> QED
  BY <1>2, <1>3

Untouched == rows' = rows /\ include' = include /\ revision' = revision

(* What a task leaves behind.                                              *)
TaskDone(t) ==
  /\ t.op = "ingest" =>
       LastSequence(t.arg) <= Len(stored) /\ Boundary(LastSequence(t.arg) + 1, {})
  /\ t.op = "shard" => \E shard \in shards : shard[1] = t.arg
  /\ t.op = "create" => runState # "absent" /\ config = t.arg
  /\ t.op = "finish" => runState = "finished"

(* The target that accepts a batch where the stored points end still holds *)
(* the cuts of one source, and its stored points end where the batch ends. *)
LEMMA AcceptedGrows ==
  ASSUME TargetInv, NEW r, IsBatch(r), IsCut(r), Boundary(r[1].seq, {}), AcceptBatch(r),
         Untouched, UNCHANGED <<config, media, shards, artifacts>>
  PROVE  /\ TargetInv' /\ Grows
         /\ LastSequence(r) <= Len(stored') /\ Boundary(LastSequence(r) + 1, {})'
<1>1. /\ stored \in Seq(HistoryPoint) /\ r \in Seq(HistoryPoint) /\ runState = "running"
      /\ stored' = stored \o r /\ batches' = batches \union {r} /\ runState' = runState
  BY DEF TargetInv, IsBatch, AcceptBatch, CanAccept
<1>2. /\ Len(stored) \in Nat /\ Len(r) \in Nat /\ Len(r) >= 1 /\ r[1].seq = Len(stored) + 1
      /\ LastSequence(r) = Len(stored) + Len(r)
      /\ LastSequence(r) <= PointsThrough(Len(rows)) /\ PointsThrough(Len(rows)) \in Nat
  BY <1>1, BatchTyped, AcceptedFollows DEF AcceptBatch, CanAccept
<1>3. /\ stored' \in Seq(HistoryPoint) /\ Len(stored') = Len(stored) + Len(r)
      /\ \A q \in 1 .. Len(stored) : stored'[q] = stored[q]
      /\ \A q \in Len(stored) + 1 .. Len(stored) + Len(r) : stored'[q] = r[q - Len(stored)]
  <2>1. /\ stored \o r \in Seq(HistoryPoint) /\ Len(stored \o r) = Len(stored) + Len(r)
        /\ \A i \in 1 .. Len(stored) + Len(r) : (stored \o r)[i] =
                     IF i <= Len(stored) THEN stored[i] ELSE r[i - Len(stored)]
    BY <1>1, ConcatProperties
  <2> QED
    BY <1>1, <1>2, <2>1
<1>4. ~Whole
  BY <1>2 DEF Whole
<1>5. Grows
  BY <1>1, <1>2, <1>3, <1>4 DEF Grows, TargetInv, Untouched
<1>6. SourceTyped /\ \A p : IsPoint(p) => IsPoint(p)'
  BY <1>1, <1>5, PointTyped, PointStays
<1>7. ASSUME NEW q \in 1 .. Len(stored') PROVE IsPoint(stored[q])' /\ stored'[q].seq = q
  <2>1. CASE q \in 1 .. Len(stored)
    BY <1>3, <1>6, <2>1 DEF TargetInv
  <2>2. CASE q \notin 1 .. Len(stored)
    <3>1. q \in Len(stored) + 1 .. Len(stored) + Len(r) /\ q - Len(stored) \in 1 .. Len(r)
      BY <1>2, <1>3, <2>2
    <3>2. PICK p : p = r[q - Len(stored)]
      OBVIOUS
    <3>3. IsPoint(p) /\ p.seq = q /\ stored'[q] = p
      <4>1. IsPoint(r[q - Len(stored)]) /\ r[q - Len(stored)].seq = r[1].seq + (q - Len(stored)) - 1
        BY <3>1 DEF IsBatch
      <4> QED
        BY <1>2, <1>3, <3>1, <3>2, <4>1
    <3>4. IsPoint(p)'
      BY <1>6, <3>3
    <3> QED
      BY <3>3, <3>4 DEF IsPoint
  <2> QED
    BY <2>1, <2>2
<1>8. /\ \A b : IsBatch(b) => IsBatch(b)'
      /\ \A b : IsCut(b) => IsCut(b)'
  BY <1>5, <1>6, SourceStays DEF IsBatch, Grows
<1>9. Boundary(LastSequence(r) + 1, {})'
  BY <1>2, <1>3 DEF Boundary
<1>10. ASSUME NEW b \in batches'
       PROVE  /\ IsBatch(b)' /\ IsCut(b)'
              /\ LastSequence(b) <= Len(stored') /\ Boundary(LastSequence(b) + 1, {})'
  <2>1. CASE b = r
    BY <1>2, <1>3, <1>8, <1>9, <2>1
  <2>2. CASE b \in batches
    <3>1. IsBatch(b) /\ IsCut(b) /\ LastSequence(b) <= Len(stored)
          /\ Boundary(LastSequence(b) + 1, {})
      BY <2>2 DEF TargetInv
    <3>2. LastSequence(b) \in Nat
      BY <3>1, BatchTyped
    <3>3. Boundary(LastSequence(b) + 1, {})'
      BY <1>5, <3>1, HeldStays
    <3> QED
      BY <1>2, <1>3, <1>8, <3>1, <3>2, <3>3
  <2> QED
    BY <1>1, <2>1, <2>2
<1>11. Revisions' = Revisions /\ Boundary(1, {})'
  BY <1>5, HeldStays DEF Revisions, Untouched, TargetInv
<1>12. TargetInv'
  <2>1. \A b \in batches' : LastSequence(b)' = LastSequence(b)
    BY DEF LastSequence
  <2> QED
    BY <1>1, <1>3, <1>7, <1>10, <1>11, <2>1 DEF TargetInv, Untouched
<1> QED
  BY <1>2, <1>3, <1>5, <1>9, <1>12

(* A step that adds media, shards or artifacts, or changes the source.     *)
LEMMA AdditionGrows ==
  ASSUME TargetInv, rows' = rows, include' = include, revision' \in {revision, revision + 1},
         UNCHANGED <<config, stored, batches, runState>>,
         media \subseteq media', shards \subseteq shards', artifacts \subseteq artifacts',
         media' \subseteq Nat \X Nat \X Nat, shards' \subseteq Nat \X Nat,
         artifacts' \subseteq Nat \X Nat,
         runState = "absent" => media' = {} /\ shards' = {} /\ artifacts' = {},
         \A m \in media' \ media : m[3] = revision,
         \A s \in shards' \ shards : s[2] = revision,
         \A a \in artifacts' \ artifacts : a[2] = revision
  PROVE  TargetInv' /\ Grows
<1>1. FirstFiles' = FirstFiles /\ \A n : PointsThrough(n)' = PointsThrough(n)
  BY SourceStays DEF FirstFiles
<1>2. revision \in Nat /\ revision >= 1 /\ config \in 0 .. revision /\ Len(stored) \in Nat
  BY DEF TargetInv
<1>3. Whole => Whole'
  BY <1>1 DEF Whole
<1>4. Grows
  BY <1>2, <1>3 DEF Grows
<1>5. revision \in Revisions' /\ Revisions \subseteq Revisions'
  BY <1>2 DEF Revisions
<1>6. \A p : IsPoint(p) => IsPoint(p)'
  BY <1>1, <1>5 DEF IsPoint
<1>7. \A b : /\ IsBatch(b) => IsBatch(b)'
             /\ IsCut(b) => IsCut(b)'
             /\ LastSequence(b)' = LastSequence(b)
             /\ Boundary(LastSequence(b) + 1, {}) => Boundary(LastSequence(b) + 1, {})'
  BY <1>4, <1>6, SourceStays, HeldStays DEF IsBatch, LastSequence
<1>8. /\ \A m \in media' : m[3] \in Revisions'
      /\ \A s \in shards' : s[2] \in Revisions'
      /\ \A a \in artifacts' : a[2] \in Revisions'
  BY <1>5 DEF TargetInv
<1>9. /\ rows' \in Seq(Row) /\ include' \in BOOLEAN
      /\ revision' \in Nat /\ revision' >= 1 /\ config' \in 0 .. revision'
      /\ runState' \in {"absent", "running", "finished"}
      /\ stored' \in Seq(HistoryPoint)
      /\ (runState' = "absent" =>
           config' = 0 /\ stored' = <<>> /\ batches' = {} /\ media' = {} /\ shards' = {}
           /\ artifacts' = {})
      /\ (runState' = "finished" => Whole')
      /\ Boundary(1, {})'
  BY <1>2, <1>3, <1>4, HeldStays DEF TargetInv
<1>10. \A q \in 1 .. Len(stored') : IsPoint(stored[q])' /\ stored'[q].seq = q
  BY <1>6 DEF TargetInv
<1>11. \A b \in batches' :
       /\ IsBatch(b)' /\ IsCut(b)'
       /\ LastSequence(b)' <= Len(stored') /\ Boundary(LastSequence(b) + 1, {})'
  BY <1>7 DEF TargetInv
<1>12. TargetInv'
  BY <1>7, <1>8, <1>9, <1>10, <1>11 DEF TargetInv
<1> QED
  BY <1>4, <1>12

(* A task carried out where it is right only adds to the target, and what  *)
(* it is for is then done.                                                 *)
LEMMA EffectGrows ==
  ASSUME TargetInv, Untouched, NEW t, TaskHolds(t, {}), Effect(t)
  PROVE  TargetInv' /\ Grows /\ TaskDone(t)'
<1>1. CASE SaveCheckpoint(t)
  <2>1. UNCHANGED target /\ t.op = "save"
    BY <1>1 DEF SaveCheckpoint
  <2>2. TargetInv' /\ Grows
    BY <2>1, AdditionGrows DEF target, serverVars, Untouched, TargetInv
  <2> QED
    BY <2>1, <2>2 DEF TaskDone
<1>2. CASE CreateTarget(t)
  <2>1. /\ runState = "absent" /\ runState' = "running" /\ config' = t.arg /\ t.op = "create"
        /\ UNCHANGED <<media, shards, artifacts, batches, stored>>
        /\ t.arg \in 1 .. revision
    BY <1>2 DEF CreateTarget, TaskHolds
  <2>2. /\ stored = <<>> /\ batches = {} /\ media = {} /\ shards = {} /\ artifacts = {}
        /\ revision \in Nat
    BY <2>1 DEF TargetInv
  <2>3. Boundary(1, {})'
    BY <2>1, <2>2 DEF Boundary
  <2>4. TargetInv'
    BY <2>1, <2>2, <2>3 DEF TargetInv, Untouched
  <2>5. Grows
    BY <2>1, <2>2 DEF Grows, Untouched
  <2> QED
    BY <2>1, <2>4, <2>5 DEF TaskDone
<1>3. CASE CommitBatch(t)
  <2>1. /\ t.op = "ingest" /\ UNCHANGED <<config, media, shards, artifacts>>
        /\ AcceptBatch(t.arg) \/ AnswerDuplicate(t.arg)
        /\ IsBatch(t.arg) /\ IsCut(t.arg) /\ Boundary(t.arg[1].seq, {})
    BY <1>3 DEF CommitBatch, TaskHolds
  <2>2. CASE AcceptBatch(t.arg)
    <3>1. /\ TargetInv' /\ Grows /\ LastSequence(t.arg) <= Len(stored')
          /\ Boundary(LastSequence(t.arg) + 1, {})'
      BY <2>1, <2>2, AcceptedGrows
    <3> QED
      BY <2>1, <3>1 DEF TaskDone, LastSequence
  <2>3. CASE AnswerDuplicate(t.arg)
    <3>1. UNCHANGED <<stored, batches, runState>> /\ t.arg \in batches
      BY <2>3 DEF AnswerDuplicate, IsDuplicate, serverVars
    <3>2. TargetInv' /\ Grows
      BY <2>1, <3>1, AdditionGrows DEF Untouched, TargetInv
    <3>3. LastSequence(t.arg) <= Len(stored) /\ Boundary(LastSequence(t.arg) + 1, {})
      BY <3>1 DEF TargetInv
    <3>4. Boundary(LastSequence(t.arg) + 1, {})'
      BY <3>2, <3>3, HeldStays
    <3> QED
      BY <2>1, <3>1, <3>2, <3>3, <3>4 DEF TaskDone, LastSequence
  <2> QED
    BY <2>1, <2>2, <2>3
<1>4. CASE ImportShard(t)
  <2>1. /\ t.op = "shard" /\ runState = "running" /\ shards' = shards \union {<<t.arg, revision>>}
        /\ UNCHANGED <<config, media, artifacts, serverVars>>
    BY <1>4 DEF ImportShard
  <2>2. (\A s \in shards' \ shards : s[2] = revision) /\ shards' \subseteq Nat \X Nat
    <3>1. t.arg \in Nat /\ revision \in Nat /\ shards \subseteq Nat \X Nat
      BY <2>1 DEF TaskHolds, TargetInv
    <3> QED
      BY <2>1, <3>1
  <2>3. TargetInv' /\ Grows
    BY <2>1, <2>2, AdditionGrows DEF Untouched, serverVars, TargetInv
  <2>4. <<t.arg, revision>> \in shards' /\ <<t.arg, revision>>[1] = t.arg
    BY <2>1
  <2> QED
    BY <2>1, <2>3, <2>4 DEF TaskDone
<1>5. CASE FinishTarget(t)
  <2>1. /\ t.op = "finish" /\ runState # "absent" /\ runState' = "finished" /\ Whole
        /\ UNCHANGED <<config, media, shards, artifacts, batches, stored>>
    BY <1>5 DEF FinishTarget, FinishRun, TaskHolds
  <2>2. /\ FirstFiles' = FirstFiles /\ Revisions' = Revisions
        /\ \A n : PointsThrough(n)' = PointsThrough(n)
    BY <2>1, SourceStays DEF FirstFiles, Untouched, Revisions
  <2>3. Whole'
    BY <2>1, <2>2 DEF Whole, Untouched
  <2>4. Grows
    BY <2>1, <2>3 DEF Grows, Untouched, TargetInv
  <2>5. /\ \A p : IsPoint(p) => IsPoint(p)'
        /\ \A b : IsBatch(b) => IsBatch(b)'
        /\ \A b : IsCut(b) => IsCut(b)'
        /\ \A b : LastSequence(b)' = LastSequence(b)
        /\ \A b : Boundary(LastSequence(b) + 1, {}) => Boundary(LastSequence(b) + 1, {})'
    BY <2>1, <2>4, PointStays, SourceStays, HeldStays DEF IsBatch, LastSequence, Grows
  <2>6. \A b \in batches' :
       /\ IsBatch(b)' /\ IsCut(b)'
       /\ LastSequence(b)' <= Len(stored') /\ Boundary(LastSequence(b) + 1, {})'
    BY <2>1, <2>5 DEF TargetInv
  <2>7. \A q \in 1 .. Len(stored') : IsPoint(stored[q])' /\ stored'[q].seq = q
    BY <2>1, <2>5 DEF TargetInv
  <2>8. Boundary(1, {})'
    BY <2>4, HeldStays DEF TargetInv
  <2>9. TargetInv'
    BY <2>1, <2>2, <2>3, <2>6, <2>7, <2>8 DEF TargetInv, Untouched
  <2> QED
    BY <2>1, <2>4, <2>9 DEF TaskDone
<1> QED
  BY <1>1, <1>2, <1>3, <1>4, <1>5 DEF Effect

-----------------------------------------------------------------------------
(* What is claimed of an update that comes after more.                     *)
LEMMA SaveHoldsAfter ==
  ASSUME NEW fields, NEW sent, NEW more, sent \subseteq more, SaveHolds(fields, sent)
  PROVE  SaveHolds(fields, more)
<1>1. \A s : PointsHeld(s, sent) => PointsHeld(s, more)
  BY DEF PointsHeld
<1>2. \A s : Boundary(s, sent) => Boundary(s, more)
  BY DEF Boundary
<1>3. \A f : ShardHeld(f, sent) => ShardHeld(f, more)
  BY DEF ShardHeld
<1>4. \A n : FilesHeld(n, sent) => FilesHeld(n, more)
  BY <1>3 DEF FilesHeld
<1>5. \A phase : PhaseHeld(phase, sent) => PhaseHeld(phase, more)
  BY <1>1, <1>4 DEF PhaseHeld
<1>6. RowsHold(fields, sent) => RowsHold(fields, more)
  BY <1>2 DEF RowsHold
<1> QED
  BY <1>4, <1>5, <1>6 DEF SaveHolds

(* A task that is right after some tasks is right after more of them.      *)
LEMMA HoldsAfter ==
  ASSUME NEW t, NEW sent, NEW more, sent \subseteq more, TaskHolds(t, sent)
  PROVE  TaskHolds(t, more)
<1>1. SaveHolds(t.arg, sent) => SaveHolds(t.arg, more)
  BY SaveHoldsAfter
<1>2. \A s : Boundary(s, sent) => Boundary(s, more)
  BY DEF Boundary
<1> QED
  BY <1>1, <1>2 DEF TaskHolds

(* Two lists of tasks, one after the other.                                *)
LEMMA FollowConcat ==
  ASSUME NEW s, NEW t, NEW sent, IsSequence(s), IsSequence(t),
         Follow(s, sent), Follow(t, sent \union ToSet(s))
  PROVE  IsSequence(s \o t) /\ Follow(s \o t, sent)
<1>1. PICK S : s \in Seq(S)
  BY DEF IsSequence
<1>2. PICK T : t \in Seq(T)
  BY DEF IsSequence
<1> DEFINE U == S \union T
<1>3. s \in Seq(U) /\ t \in Seq(U)
  BY <1>1, <1>2
<1>4. /\ s \o t \in Seq(U) /\ Len(s \o t) = Len(s) + Len(t)
      /\ Len(s) \in Nat /\ Len(t) \in Nat
      /\ \A i \in 1 .. Len(s) + Len(t) :
           (s \o t)[i] = IF i <= Len(s) THEN s[i] ELSE t[i - Len(s)]
  BY <1>3, ConcatProperties
<1>5. PICK c \in Seq(U) : c = s \o t
  BY <1>4
<1>6. ASSUME NEW i \in 1 .. Len(c) PROVE TaskHolds(c[i], sent \union Before(c, i))
  <2>1. CASE i <= Len(s)
    <3>1. i \in 1 .. Len(s) /\ c[i] = s[i]
      BY <1>4, <1>5, <2>1
    <3>2. Before(s, i) \subseteq Before(c, i)
      <4>1. \A j \in 1 .. i - 1 : c[j] = s[j]
        BY <1>4, <1>5, <2>1
      <4> QED
        BY <4>1 DEF Before
    <3>3. TaskHolds(s[i], sent \union Before(s, i))
      BY <3>1 DEF Follow
    <3> QED
      BY <3>1, <3>2, <3>3, HoldsAfter
  <2>2. CASE ~(i <= Len(s))
    <3>1. PICK k \in 1 .. Len(t) : k = i - Len(s) /\ c[i] = t[k]
      <4>1. i - Len(s) \in 1 .. Len(t) /\ c[i] = t[i - Len(s)]
        BY <1>4, <1>5, <2>2
      <4> QED
        BY <4>1
    <3>2. Before(t, k) \subseteq Before(c, i)
      <4>1. ASSUME NEW j \in 1 .. k - 1 PROVE Len(s) + j \in 1 .. i - 1 /\ c[Len(s) + j] = t[j]
        BY <1>4, <1>5, <3>1
      <4> QED
        BY <4>1 DEF Before
    <3>3. ToSet(s) \subseteq Before(c, i)
      <4>1. \A j \in 1 .. Len(s) : j \in 1 .. i - 1 /\ c[j] = s[j]
        BY <1>4, <1>5, <2>2
      <4>2. \A x \in ToSet(s) : \E j \in 1 .. Len(s) : x = s[j]
        BY <1>3 DEF ToSet
      <4> QED
        BY <4>1, <4>2 DEF Before
    <3>4. TaskHolds(t[k], (sent \union ToSet(s)) \union Before(t, k))
      BY DEF Follow
    <3>5. (sent \union ToSet(s)) \union Before(t, k) \subseteq sent \union Before(c, i)
      BY <3>2, <3>3
    <3> QED
      BY <3>1, <3>4, <3>5, HoldsAfter
  <2> QED
    BY <2>1, <2>2
<1>7. IsSequence(c)
  BY DEF IsSequence
<1> QED
  BY <1>5, <1>6, <1>7 DEF Follow

(* Lists of one and of no tasks.                                           *)
LEMMA FollowOne ==
  /\ IsSequence(<<>>) /\ \A sent : Follow(<<>>, sent)
  /\ \A t, sent : TaskHolds(t, sent) => IsSequence(<<t>>) /\ Follow(<<t>>, sent)
  /\ \A t : ToSet(<<t>>) = {t}
  /\ ToSet(<<>>) = {}
<1>1. <<>> \in Seq({})
  OBVIOUS
<1>2. IsSequence(<<>>) /\ \A sent : Follow(<<>>, sent)
  BY <1>1 DEF IsSequence, Follow
<1>3. ASSUME NEW t PROVE IsSequence(<<t>>) /\ ToSet(<<t>>) = {t}
  <2>1. <<t>> \in Seq({t}) /\ DOMAIN <<t>> = {1} /\ <<t>>[1] = t
    OBVIOUS
  <2>2. IsSequence(<<t>>)
    BY <2>1 DEF IsSequence
  <2>3. {<<t>>[i] : i \in DOMAIN <<t>>} = {t}
    BY <2>1
  <2> QED
    BY <2>2, <2>3 DEF ToSet
<1>4. ASSUME NEW t, NEW sent, TaskHolds(t, sent) PROVE Follow(<<t>>, sent)
  <2>1. sent \subseteq sent \union Before(<<t>>, 1)
    OBVIOUS
  <2>2. TaskHolds(<<t>>[1], sent \union Before(<<t>>, 1))
    BY <1>4, <2>1, HoldsAfter
  <2> QED
    BY <2>2 DEF Follow
<1>5. ToSet(<<>>) = {}
  BY DEF ToSet
<1> QED
  BY <1>2, <1>3, <1>4, <1>5

(* What held after a task holds once the task is done.                     *)
LEMMA SaveOnceDone ==
  ASSUME NEW t, TaskDone(t)', t.op = "ingest" => LastSequence(t.arg) \in Nat,
         PointsThrough(Len(rows))' \in Nat, Len(stored') \in Nat, NEW fields, NEW sent, SaveHolds(fields, {t} \union sent)'
  PROVE  SaveHolds(fields, sent)'
<1>1. ASSUME NEW s, s \in Nat, PointsHeld(s, {t} \union sent)' PROVE PointsHeld(s, sent)'
  BY <1>1 DEF PointsHeld, LastSequence, TaskDone
<1>2. \A s : Boundary(s, {t} \union sent)' => Boundary(s, sent)'
  BY DEF Boundary, LastSequence, TaskDone
<1>3. \A f : ShardHeld(f, {t} \union sent)' => ShardHeld(f, sent)'
  BY DEF ShardHeld, TaskDone
<1>4. \A n : FilesHeld(n, {t} \union sent)' => FilesHeld(n, sent)'
  BY <1>3 DEF FilesHeld
<1>5. PICK q : q = PointsThrough(Len(rows))'
  OBVIOUS
<1>6. q \in Nat
  BY <1>5
<1>7. PointsHeld(PointsThrough(Len(rows)), {t} \union sent)' => PointsHeld(PointsThrough(Len(rows)), sent)'
  BY <1>1, <1>5, <1>6 DEF PointsHeld
<1>8. \A phase : PhaseHeld(phase, {t} \union sent)' => PhaseHeld(phase, sent)'
  BY <1>4, <1>7 DEF PhaseHeld, TaskDone
<1>9. RowsHold(fields, {t} \union sent)' => RowsHold(fields, sent)'
  BY <1>2 DEF RowsHold
<1> QED
  BY <1>4, <1>8, <1>9 DEF SaveHolds

(* What is right after a task is sent is right without it once it is done. *)
LEMMA OnceDone ==
  ASSUME NEW t, TaskDone(t)', t.op = "ingest" => LastSequence(t.arg) \in Nat,
         PointsThrough(Len(rows))' \in Nat, Len(stored') \in Nat, NEW u, NEW sent, TaskHolds(u, {t} \union sent)'
  PROVE  TaskHolds(u, sent)'
<1>1. SaveHolds(u.arg, {t} \union sent)' => SaveHolds(u.arg, sent)'
  BY SaveOnceDone
<1>2. Boundary(u.arg[1].seq, {t} \union sent)' => Boundary(u.arg[1].seq, sent)'
  BY DEF Boundary, LastSequence, TaskDone
<1> QED
  BY <1>1, <1>2 DEF TaskHolds

(* The tasks behind one that is done.                                      *)
LEMMA TailFollows ==
  ASSUME TargetInv, Untouched, NEW tasks, tasks # <<>>, IsSequence(tasks), Follow(tasks, {}),
         Effect(Head(tasks))
  PROVE  /\ TargetInv' /\ Grows /\ TaskHolds(Head(tasks), {})
         /\ IsSequence(Tail(tasks)) /\ Follow(Tail(tasks), {})'
         /\ \A s : Boundary(s, ToSet(tasks)) => Boundary(s, ToSet(Tail(tasks)))'
<1>1. PICK S : tasks \in Seq(S)
  BY DEF IsSequence
<1>2. /\ Len(tasks) \in Nat /\ Len(tasks) >= 1 /\ Head(tasks) = tasks[1] /\ 1 \in 1 .. Len(tasks)
      /\ Tail(tasks) \in Seq(S) /\ Len(Tail(tasks)) = Len(tasks) - 1
      /\ \A i \in 1 .. Len(tasks) - 1 : Tail(tasks)[i] = tasks[i + 1]
  BY <1>1, EmptySeq, HeadTailProperties
<1>3. PICK t : t = Head(tasks)
  OBVIOUS
<1>4. TaskHolds(t, {})
  <2>1. TaskHolds(tasks[1], {} \union Before(tasks, 1))
    BY <1>2 DEF Follow
  <2>2. Before(tasks, 1) = {}
    BY DEF Before
  <2>3. {} \union Before(tasks, 1) = {}
    BY <2>2
  <2> QED
    BY <1>2, <1>3, <2>1, <2>3
<1>5. TargetInv' /\ Grows /\ TaskDone(t)'
  BY <1>3, <1>4, EffectGrows
<1>6. t.op = "ingest" => LastSequence(t.arg) \in Nat
  <2>1. t.op = "ingest" => IsBatch(t.arg)
    BY <1>4 DEF TaskHolds
  <2> QED
    BY <2>1, BatchTyped
<1>7. SourceTyped /\ PointsThrough(Len(rows))' \in Nat /\ Len(stored') \in Nat
  <2>1. SourceTyped /\ PointsThrough(Len(rows)) \in Nat
    BY PointTyped
  <2>2. PointsThrough(Len(rows))' = PointsThrough(Len(rows))
    BY SourceStays DEF Untouched
  <2> QED
    BY <1>5, <2>1, <2>2 DEF TargetInv
<1>8. PICK rest \in Seq(S) : rest = Tail(tasks)
  BY <1>2
<1>9. ASSUME NEW i \in 1 .. Len(rest) PROVE TaskHolds(rest[i], {} \union Before(rest, i))'
  <2>1. i + 1 \in 1 .. Len(tasks) /\ rest[i] = tasks[i + 1]
    BY <1>2, <1>8
  <2>2. PICK u : u = rest[i]
    OBVIOUS
  <2>3. TaskHolds(u, {} \union Before(tasks, i + 1))
    BY <2>1, <2>2 DEF Follow
  <2>4. PICK sent : sent = {} \union Before(rest, i)
    OBVIOUS
  <2>5. {} \union Before(tasks, i + 1) \subseteq {t} \union sent
    <3>1. ASSUME NEW j \in 1 .. (i + 1) - 1 PROVE tasks[j] \in {t} \union sent
      <4>1. CASE j = 1
        BY <1>2, <1>3, <4>1
      <4>2. CASE j # 1
        <5>1. j - 1 \in 1 .. i - 1 /\ j - 1 \in 1 .. Len(rest) /\ (j - 1) + 1 = j
          BY <1>2, <1>8, <4>2
        <5>2. rest[j - 1] = tasks[j]
          BY <1>2, <1>8, <5>1
        <5> QED
          BY <2>4, <5>1, <5>2 DEF Before
      <4> QED
        BY <4>1, <4>2
    <3> QED
      BY <3>1 DEF Before
  <2>6. TaskHolds(u, {t} \union sent)
    BY <2>3, <2>5, HoldsAfter
  <2>7. TaskHolds(u, {t} \union sent)'
    BY <1>5, <1>7, <2>6, TaskStays
  <2>8. TaskHolds(u, sent)'
    BY <1>5, <1>6, <1>7, <2>7, OnceDone
  <2> QED
    BY <2>2, <2>4, <2>8
<1>10. Follow(rest, {})'
  BY <1>9 DEF Follow
<1>11. ASSUME NEW s, Boundary(s, ToSet(tasks)) PROVE Boundary(s, ToSet(rest))'
  <2>1. PICK more : more = {t} \union ToSet(rest)
    OBVIOUS
  <2>2. ToSet(tasks) \subseteq more
    <3>1. ASSUME NEW j \in 1 .. Len(tasks) PROVE tasks[j] \in more
      <4>1. CASE j = 1
        BY <1>2, <1>3, <2>1, <4>1
      <4>2. CASE j # 1
        <5>1. j - 1 \in 1 .. Len(rest) /\ (j - 1) + 1 = j
          BY <1>2, <1>8, <4>2
        <5>2. rest[j - 1] = tasks[j]
          BY <1>2, <1>8, <5>1
        <5> QED
          BY <1>8, <2>1, <5>1, <5>2 DEF ToSet
      <4> QED
        BY <4>1, <4>2
    <3> QED
      BY <1>1, <3>1 DEF ToSet
  <2>3. Boundary(s, more)
    BY <1>11, <2>2 DEF Boundary
  <2>4. Boundary(s, more)'
    BY <1>5, <2>3, HeldStays
  <2> QED
    BY <1>5, <2>1, <2>4 DEF Boundary, TaskDone, LastSequence
<1> QED
  BY <1>2, <1>3, <1>4, <1>5, <1>8, <1>10, <1>11 DEF IsSequence

-----------------------------------------------------------------------------
(* Updates of the checkpoint.                                              *)
Updated(state, fields, f) ==
  IF f \in DOMAIN fields THEN fields[f] ELSE IF state = NoState THEN Fresh[f] ELSE state[f]

(* What a merged checkpoint has in each field.                             *)
LEMMA MergedFields ==
  ASSUME NEW state, NEW fields
  PROVE  /\ DOMAIN Merge(state, fields) = DOMAIN Fresh
         /\ \A f \in DOMAIN Fresh : Merge(state, fields)[f] = Updated(state, fields, f)
<1> DEFINE old == IF state = NoState THEN Fresh ELSE state
<1>1. Merge(state, fields) =
        [f \in DOMAIN Fresh |-> IF f \in DOMAIN fields THEN fields[f] ELSE old[f]]
  BY DEF Merge
<1>2. \A f : old[f] = IF state = NoState THEN Fresh[f] ELSE state[f]
  OBVIOUS
<1> HIDE DEF old
<1> QED
  BY <1>1, <1>2 DEF Updated

FieldNames == {"phase", "complete", "revision", "rows", "media", "seq", "unsupported",
               "files", "filesDone", "arts", "artsDone"}

(* A fresh checkpoint claims nothing.                                      *)
LEMMA FreshHolds ==
  ASSUME TargetInv PROVE Fresh \in Entry /\ SaveHolds(Fresh, {}) /\ DOMAIN Fresh = FieldNames
<1>1. DOMAIN Fresh = FieldNames
  BY DEF Fresh, FieldNames
<1>2. /\ SourceTyped /\ Len(rows) \in Nat /\ PointsThrough(0) = 0 /\ SkippedThrough(0) = 0
      /\ Boundary(1, {})
  BY Sums, PointTyped DEF TargetInv
<1>3. Fresh \in Entry
  BY DEF Fresh, Entry
<1>4. RowsHold(Fresh, {})
  BY <1>1, <1>2 DEF RowsHold, Fresh, FieldNames
<1>5. MediaHeld(0) /\ FilesHeld(0, {}) /\ ArtifactsHeld(0) /\ PhaseHeld("history", {})
  <2>1. \A f \in FirstFiles : ~(f < 0)
    BY ImportLimits DEF FirstFiles
  <2> QED
    BY <2>1 DEF MediaHeld, FilesHeld, ArtifactsHeld, PhaseHeld
<1>6. /\ Fresh.media = 0 /\ Fresh.files = 0 /\ Fresh.filesDone = FALSE /\ Fresh.arts = 0
      /\ Fresh.artsDone = FALSE /\ Fresh.phase = "history" /\ Fresh.complete = FALSE
      /\ Fresh.revision = 0
  BY DEF Fresh
<1>7. 0 \in 0 .. Len(rows) /\ 0 \in Nat
  BY <1>2
<1> QED
  BY <1>1, <1>3, <1>4, <1>5, <1>6, <1>7 DEF SaveHolds, FieldNames

(* What holds of an entry, field by field.                                 *)
LEMMA EntryFields ==
  ASSUME TargetInv, NEW state, state \in Entry, SaveHolds(state, {})
  PROVE  /\ DOMAIN state = FieldNames /\ RowsHold(state, {})
         /\ state.media \in 0 .. Len(rows) /\ MediaHeld(state.media)
         /\ state.files \in Nat /\ FilesHeld(state.files, {})
         /\ state.filesDone \in BOOLEAN /\ (state.filesDone = TRUE => FilesHeld(Files, {}))
         /\ state.arts \in Nat /\ ArtifactsHeld(state.arts)
         /\ state.artsDone \in BOOLEAN /\ (state.artsDone = TRUE => ArtifactsHeld(Artifacts))
         /\ PhaseHeld(state.phase, {}) /\ state.complete \in BOOLEAN /\ state.revision \in Nat
<1>1. DOMAIN state = FieldNames
  BY DEF Entry, FieldNames
<1> QED
  BY <1>1 DEF SaveHolds, FieldNames

(* A checkpoint that claims what is true, updated with what is true, does  *)
(* so too.                                                                 *)
LEMMA MergeHolds ==
  ASSUME TargetInv, NEW state, NEW fields, EntryHolds(state), SaveHolds(fields, {})
  PROVE  Merge(state, fields) \in Entry /\ EntryHolds(Merge(state, fields))
<1>1. PICK old : old = IF state = NoState THEN Fresh ELSE state
  OBVIOUS
<1>2. old \in Entry /\ SaveHolds(old, {}) /\ DOMAIN Fresh = FieldNames
  BY <1>1, FreshHolds DEF EntryHolds
<1>3. PICK new : new = Merge(state, fields)
  OBVIOUS
<1>4. /\ DOMAIN new = FieldNames
      /\ \A f \in FieldNames : new[f] = IF f \in DOMAIN fields THEN fields[f] ELSE old[f]
      /\ new = [f \in FieldNames |-> new[f]]
  <2>1. \A f \in FieldNames : Updated(state, fields, f) =
                                IF f \in DOMAIN fields THEN fields[f] ELSE old[f]
    BY <1>1 DEF Updated
  <2>2. new = [f \in FieldNames |-> new[f]]
    BY <1>2, <1>3 DEF Merge
  <2> QED
    BY <1>2, <1>3, <2>1, <2>2, MergedFields
<1>5. SourceTyped /\ Len(rows) \in Nat
      /\ \A n \in 0 .. Len(rows) : PointsThrough(n) \in Nat /\ SkippedThrough(n) \in Nat
  BY Sums, PointTyped
<1>6. RowsHold(new, {}) /\ new.rows \in Nat /\ new.seq \in Nat /\ new.unsupported \in Nat
  <2>1. RowsHold(new, {})
    <3>1. CASE DOMAIN fields \intersect {"rows", "seq", "unsupported"} # {}
      <4>1. RowsHold(fields, {})
        BY <3>1 DEF SaveHolds
      <4>2. new.rows = fields.rows /\ new.seq = fields.seq /\ new.unsupported = fields.unsupported
        BY <1>4, <4>1 DEF RowsHold, FieldNames
      <4> QED
        BY <1>4, <4>1, <4>2 DEF RowsHold, FieldNames
    <3>2. CASE DOMAIN fields \intersect {"rows", "seq", "unsupported"} = {}
      <4>1. RowsHold(old, {})
        BY <1>2, EntryFields
      <4>2. new.rows = old.rows /\ new.seq = old.seq /\ new.unsupported = old.unsupported
        BY <1>4, <3>2 DEF FieldNames
      <4> QED
        BY <1>4, <4>1, <4>2 DEF RowsHold, FieldNames
    <3> QED
      BY <3>1, <3>2
  <2> QED
    BY <1>5, <2>1 DEF RowsHold
<1>7. /\ DOMAIN old = FieldNames
      /\ old.media \in 0 .. Len(rows) /\ MediaHeld(old.media)
      /\ old.files \in Nat /\ FilesHeld(old.files, {})
      /\ old.filesDone \in BOOLEAN /\ (old.filesDone = TRUE => FilesHeld(Files, {}))
      /\ old.arts \in Nat /\ ArtifactsHeld(old.arts)
      /\ old.artsDone \in BOOLEAN /\ (old.artsDone = TRUE => ArtifactsHeld(Artifacts))
      /\ PhaseHeld(old.phase, {}) /\ old.complete \in BOOLEAN /\ old.revision \in Nat
  BY <1>2, EntryFields
<1>8. new.media \in 0 .. Len(rows) /\ MediaHeld(new.media)
  <2>1. new.media = IF "media" \in DOMAIN fields THEN fields.media ELSE old.media
    BY <1>4 DEF FieldNames
  <2>2. "media" \in DOMAIN fields => fields.media \in 0 .. Len(rows) /\ MediaHeld(fields.media)
    BY DEF SaveHolds
  <2> QED
    BY <1>7, <2>1, <2>2
<1>9. new.files \in Nat /\ FilesHeld(new.files, {})
  <2>1. new.files = IF "files" \in DOMAIN fields THEN fields.files ELSE old.files
    BY <1>4 DEF FieldNames
  <2>2. "files" \in DOMAIN fields => fields.files \in Nat /\ FilesHeld(fields.files, {})
    BY DEF SaveHolds
  <2> QED
    BY <1>7, <2>1, <2>2
<1>10. new.filesDone \in BOOLEAN /\ (new.filesDone = TRUE => FilesHeld(Files, {}))
  <2>1. new.filesDone = IF "filesDone" \in DOMAIN fields THEN fields.filesDone ELSE old.filesDone
    BY <1>4 DEF FieldNames
  <2>2. "filesDone" \in DOMAIN fields =>
          fields.filesDone \in BOOLEAN /\ (fields.filesDone = TRUE => FilesHeld(Files, {}))
    BY DEF SaveHolds
  <2> QED
    BY <1>7, <2>1, <2>2
<1>11. new.arts \in Nat /\ ArtifactsHeld(new.arts)
  <2>1. new.arts = IF "arts" \in DOMAIN fields THEN fields.arts ELSE old.arts
    BY <1>4 DEF FieldNames
  <2>2. "arts" \in DOMAIN fields => fields.arts \in Nat /\ ArtifactsHeld(fields.arts)
    BY DEF SaveHolds
  <2> QED
    BY <1>7, <2>1, <2>2
<1>12. new.artsDone \in BOOLEAN /\ (new.artsDone = TRUE => ArtifactsHeld(Artifacts))
  <2>1. new.artsDone = IF "artsDone" \in DOMAIN fields THEN fields.artsDone ELSE old.artsDone
    BY <1>4 DEF FieldNames
  <2>2. "artsDone" \in DOMAIN fields =>
          fields.artsDone \in BOOLEAN /\ (fields.artsDone = TRUE => ArtifactsHeld(Artifacts))
    BY DEF SaveHolds
  <2> QED
    BY <1>7, <2>1, <2>2
<1>13. PhaseHeld(new.phase, {})
  <2>1. new.phase = IF "phase" \in DOMAIN fields THEN fields.phase ELSE old.phase
    BY <1>4 DEF FieldNames
  <2> QED
    BY <1>7, <2>1 DEF SaveHolds
<1>14. new.complete \in BOOLEAN
  <2>1. new.complete = IF "complete" \in DOMAIN fields THEN fields.complete ELSE old.complete
    BY <1>4 DEF FieldNames
  <2>2. "complete" \in DOMAIN fields => fields.complete \in BOOLEAN
    BY DEF SaveHolds
  <2> QED
    BY <1>7, <2>1, <2>2
<1>15. new.revision \in Nat
  <2>1. new.revision = IF "revision" \in DOMAIN fields THEN fields.revision ELSE old.revision
    BY <1>4 DEF FieldNames
  <2> QED
    BY <1>7, <2>1 DEF SaveHolds
<1>16. SaveHolds(new, {})
  BY <1>2, <1>4, <1>6, <1>8, <1>9, <1>10, <1>11, <1>12, <1>13, <1>14, <1>15 DEF SaveHolds
<1>17. new \in Entry
  <2>1. new.phase \in {"history", "run_files", "logged_artifacts", "finalize", "complete"}
    BY <1>13 DEF PhaseHeld
  <2>2. new.media \in Nat
    BY <1>5, <1>8
  <2> QED
    BY <1>4, <1>6, <1>9, <1>10, <1>11, <1>12, <1>14, <1>15, <2>1, <2>2 DEF Entry, FieldNames
<1> QED
  BY <1>3, <1>16, <1>17 DEF EntryHolds

(* An entry stays true.                                                    *)
LEMMA EntryStays ==
  ASSUME TargetInv, Grows, NEW state, EntryHolds(state) PROVE EntryHolds(state)'
BY SaveStays, PointTyped DEF EntryHolds

(* A checkpoint is not the absence of one.                                 *)
LEMMA EntryIsThere ==
  ASSUME NEW state \in Entry PROVE state # NoState
BY DataAssumption

LateHolds(l) == l = <<>> \/ (\E t : l = <<t>> /\ TaskHolds(t, {})) \/ \E t : l = <<t, t>>

(* Claims that are true when a step is taken are true after it.            *)
LEMMA ClaimsAfter ==
  ASSUME TargetInv, Grows, EntryHolds(ckpt'), EntryHolds(mem'), LateHolds(late'),
         IsSequence(todo'), Follow(todo', {})
  PROVE  ClaimsInv'
<1>1. PICK c, m, l, tasks : c = ckpt' /\ m = mem' /\ l = late' /\ tasks = todo'
  OBVIOUS
<1>2. SourceTyped
  BY PointTyped
<1>3. EntryHolds(c)' /\ EntryHolds(m)'
  BY <1>1, EntryStays
<1>4. EntryHolds(ckpt)' /\ EntryHolds(mem)'
  BY <1>1, <1>3 DEF EntryHolds
<1>5. \A t, sent : TaskHolds(t, sent) => TaskHolds(t, sent)'
  BY <1>2, TaskStays
<1>6. Follow(tasks, {})'
  BY <1>1, <1>5 DEF Follow
<1>7. Follow(todo, {})' /\ IsSequence(todo)'
  BY <1>1, <1>6 DEF Follow, IsSequence
<1>8. l = <<>> \/ (\E t : l = <<t>> /\ TaskHolds(t, {})') \/ \E t : l = <<t, t>>
  BY <1>1, <1>5 DEF LateHolds
<1> QED
  BY <1>1, <1>4, <1>7, <1>8 DEF ClaimsInv

(* A step that leaves the target and the source alone.                     *)
Local == UNCHANGED <<rows, include, revision, target>>

(* A step that leaves source and target alone leaves what holds of them.   *)
LEMMA LocalGrows ==
  ASSUME TargetInv, Local PROVE TargetInv' /\ Grows
<1>1. UNCHANGED <<rows, include, revision, config, media, shards, artifacts, stored, batches,
                  runState>>
  BY DEF Local, target, serverVars
<1> QED
  BY <1>1, AdditionGrows DEF TargetInv

-----------------------------------------------------------------------------
(* What _import_history does with a row.                                   *)
HistoryTask(t) == t.op \in {"ingest", "save"} /\ ~PhaseSave(t)

HistoryTasks(tasks, sent) ==
  IsSequence(tasks) /\ Follow(tasks, sent) /\ \A t \in ToSet(tasks) : HistoryTask(t)

(* The elements of a concatenation.                                        *)
LEMMA ConcatElements ==
  ASSUME NEW s, NEW t, IsSequence(s), IsSequence(t)
  PROVE  ToSet(s \o t) = ToSet(s) \union ToSet(t)
<1>1. PICK S : s \in Seq(S)
  BY DEF IsSequence
<1>2. PICK T : t \in Seq(T)
  BY DEF IsSequence
<1> DEFINE U == S \union T
<1>3. s \in Seq(U) /\ t \in Seq(U)
  BY <1>1, <1>2
<1>4. /\ s \o t \in Seq(U) /\ Len(s \o t) = Len(s) + Len(t)
      /\ Len(s) \in Nat /\ Len(t) \in Nat
      /\ \A i \in 1 .. Len(s) + Len(t) :
           (s \o t)[i] = IF i <= Len(s) THEN s[i] ELSE t[i - Len(s)]
  BY <1>3, ConcatProperties
<1>5. PICK c \in Seq(U) : c = s \o t
  BY <1>4
<1>6. /\ DOMAIN s = 1 .. Len(s) /\ DOMAIN t = 1 .. Len(t) /\ DOMAIN c = 1 .. Len(s) + Len(t)
  BY <1>3, <1>4, <1>5
<1>7. ASSUME NEW i \in 1 .. Len(s) PROVE i \in 1 .. Len(s) + Len(t) /\ c[i] = s[i]
  BY <1>4, <1>5
<1>8. ASSUME NEW i \in 1 .. Len(t)
      PROVE  Len(s) + i \in 1 .. Len(s) + Len(t) /\ c[Len(s) + i] = t[i]
  BY <1>4, <1>5
<1>9. ASSUME NEW i \in 1 .. Len(s) + Len(t)
      PROVE  c[i] \in {s[j] : j \in 1 .. Len(s)} \union {t[j] : j \in 1 .. Len(t)}
  <2>1. CASE i <= Len(s)
    BY <1>4, <1>7, <2>1
  <2>2. CASE ~(i <= Len(s))
    <3>1. i - Len(s) \in 1 .. Len(t) /\ Len(s) + (i - Len(s)) = i
      BY <1>4, <2>2
    <3> QED
      BY <1>8, <3>1
  <2> QED
    BY <2>1, <2>2
<1>10. /\ ToSet(s) = {s[j] : j \in 1 .. Len(s)} /\ ToSet(t) = {t[j] : j \in 1 .. Len(t)}
       /\ ToSet(c) = {c[j] : j \in 1 .. Len(s) + Len(t)}
  BY <1>6 DEF ToSet
<1> HIDE DEF U
<1>11. ToSet(c) \subseteq ToSet(s) \union ToSet(t)
  BY <1>9, <1>10
<1>12. ToSet(s) \subseteq ToSet(c)
  BY <1>7, <1>10
<1>13. ToSet(t) \subseteq ToSet(c)
  BY <1>8, <1>10
<1> QED
  BY <1>5, <1>11, <1>12, <1>13

(* Tasks of the history import, one list after another.                    *)
LEMMA HistoryConcat ==
  ASSUME NEW s, NEW t, NEW sent, HistoryTasks(s, sent), HistoryTasks(t, sent \union ToSet(s))
  PROVE  HistoryTasks(s \o t, sent) /\ ToSet(s \o t) = ToSet(s) \union ToSet(t)
BY FollowConcat, ConcatElements DEF HistoryTasks

(* The row watermark moves to row n.                                       *)
LEMMA SaveRowsFollows ==
  ASSUME SourceTyped, NEW n \in 0 .. Len(rows), NEW s, s = PointsThrough(n) + 1,
         NEW sent, Boundary(s, sent)
  PROVE  LET tasks == Save([rows |-> n, seq |-> s, unsupported |-> SkippedThrough(n)])
         IN  HistoryTasks(tasks, sent)
<1> DEFINE fields == [rows |-> n, seq |-> s, unsupported |-> SkippedThrough(n)]
<1> DEFINE task == [op |-> "save", arg |-> fields]
<1>1. /\ DOMAIN fields = {"rows", "seq", "unsupported"} /\ fields.rows = n /\ fields.seq = s
      /\ fields.unsupported = SkippedThrough(n)
  OBVIOUS
<1> HIDE DEF fields
<1>2. RowsHold(fields, sent)
  BY <1>1 DEF RowsHold
<1>3. SaveHolds(fields, sent)
  BY <1>1, <1>2 DEF SaveHolds, Fresh
<1>4. task.op = "save" /\ task.arg = fields
  OBVIOUS
<1> HIDE DEF task
<1>5. TaskHolds(task, sent) /\ HistoryTask(task)
  BY <1>1, <1>3, <1>4 DEF TaskHolds, HistoryTask, PhaseSave
<1>6. HistoryTasks(<<task>>, sent)
  BY <1>5, FollowOne DEF HistoryTasks
<1> QED
  BY <1>6 DEF Save, task, fields

(* A batch that is cut where the importer cuts.                            *)
LEMMA IngestFollows ==
  ASSUME runState # "absent", NEW b, IsBatch(b), IsCut(b), NEW sent, Boundary(b[1].seq, sent)
  PROVE  HistoryTasks(Ingest(b), sent) /\ ToSet(Ingest(b)) = {[op |-> "ingest", arg |-> b]}
<1>1. PICK task : task = [op |-> "ingest", arg |-> b]
  OBVIOUS
<1>2. TaskHolds(task, sent) /\ HistoryTask(task)
  BY <1>1 DEF TaskHolds, HistoryTask, PhaseSave
<1> QED
  BY <1>1, <1>2, FollowOne DEF HistoryTasks, Ingest

(* What holds of the locals after some tasks holds after more of them.     *)
LEMMA LocalsAfter ==
  ASSUME NEW p, NEW sent, NEW more, sent \subseteq more, LocalsHold(p, sent)
  PROVE  LocalsHold(p, more)
BY DEF LocalsHold, Boundary

(* A batch is committed.                                                   *)
LEMMA FlushFollows ==
  ASSUME TargetInv, runState # "absent", NEW p, NEW sent, LocalsHold(p, sent),
         p.batch # <<>>, Stops(p.rows, p.end)
  PROVE  /\ HistoryTasks(FlushTasks(p, p.unsupported), sent)
         /\ LocalsHold(Flushed(p), ToSet(FlushTasks(p, p.unsupported)))
         /\ Flushed(p).rows = p.end /\ Flushed(p).end = p.end /\ Flushed(p).batch = <<>>
         /\ Flushed(p).scanned = p.scanned
<1>1. PICK b, r, e, s : b = p.batch /\ r = p.rows /\ e = p.end /\ s = p.seq
  OBVIOUS
<1>2. /\ SourceTyped /\ Len(rows) \in Nat /\ p \in Locals
      /\ b \in Seq(HistoryPoint) /\ e \in 0 .. Len(rows) /\ r \in 0 .. e /\ s = PointsThrough(r) + 1
      /\ Boundary(s, sent) /\ p.unsupported = SkippedThrough(e)
      /\ Len(b) = PointsThrough(e) - PointsThrough(r) /\ Fits(r, e) /\ Stops(r, e)
      /\ \A i \in 1 .. Len(b) : IsPoint(b[i]) /\ b[i].seq = s + i - 1
  BY <1>1, PointTyped, Sums DEF LocalsHold, Locals
<1>3. PointsThrough(r) \in Nat /\ PointsThrough(e) \in Nat /\ BytesThrough(e) \in Nat /\ r <= e
      /\ r \in 0 .. Len(rows)
  <2>1. r \in 0 .. Len(rows) /\ r <= e
    BY <1>2
  <2> QED
    BY <1>2, <2>1, Sums
<1>4. Len(b) \in Nat /\ Len(b) >= 1 /\ 1 \in 1 .. Len(b) /\ Len(b) \in 1 .. Len(b)
  BY <1>1, <1>2, EmptySeq
<1>5. b[1].seq = s /\ LastSequence(b) = PointsThrough(e)
  <2>1. b[1].seq = s + 1 - 1 /\ b[Len(b)].seq = s + Len(b) - 1
    BY <1>2, <1>4
  <2> QED
    BY <1>2, <1>3, <1>4, <2>1 DEF LastSequence
<1>6. IsBatch(b)
  BY <1>1, <1>2, <1>5 DEF IsBatch
<1>7. IsCut(b)
  BY <1>2, <1>3, <1>5 DEF IsCut, NarrowCut
<1>8. HistoryTasks(Ingest(b), sent) /\ ToSet(Ingest(b)) = {[op |-> "ingest", arg |-> b]}
  BY <1>2, <1>5, <1>6, <1>7, IngestFollows
<1>9. s + Len(b) = PointsThrough(e) + 1 /\ Boundary(s + Len(b), ToSet(Ingest(b)))
  <2>1. s + Len(b) = PointsThrough(e) + 1
    BY <1>2, <1>3, <1>4
  <2>2. PICK task : task = [op |-> "ingest", arg |-> b]
    OBVIOUS
  <2>3. task \in ToSet(Ingest(b)) /\ task.op = "ingest" /\ task.arg = b
    BY <1>8, <2>2
  <2> QED
    BY <1>5, <2>1, <2>3 DEF Boundary
<1> DEFINE save == Save([rows |-> e, seq |-> s + Len(b), unsupported |-> SkippedThrough(e)])
<1>10. HistoryTasks(save, sent \union ToSet(Ingest(b)))
  <2>1. Boundary(s + Len(b), sent \union ToSet(Ingest(b)))
    BY <1>9 DEF Boundary
  <2> QED
    BY <1>2, <1>9, <2>1, SaveRowsFollows
<1>11. FlushTasks(p, p.unsupported) = Ingest(b) \o save
  BY <1>1, <1>2 DEF FlushTasks
<1> HIDE DEF save
<1>12. HistoryTasks(FlushTasks(p, p.unsupported), sent)
       /\ ToSet(Ingest(b)) \subseteq ToSet(FlushTasks(p, p.unsupported))
  <2>1. /\ HistoryTasks(Ingest(b) \o save, sent)
        /\ ToSet(Ingest(b) \o save) = ToSet(Ingest(b)) \union ToSet(save)
    BY <1>8, <1>10, HistoryConcat
  <2> QED
    BY <1>11, <2>1
<1>13. PICK f : f = Flushed(p)
  OBVIOUS
<1>14. /\ f \in Locals /\ f.rows = e /\ f.end = e /\ f.seq = s + Len(b) /\ f.batch = <<>>
       /\ f.bytes = 0 /\ f.unsupported = p.unsupported /\ f.scanned = p.scanned
  <2>1. s + Len(b) \in Nat /\ e \in Nat /\ <<>> \in Seq(HistoryPoint)
    BY <1>2, <1>3, <1>9
  <2> QED
    BY <1>1, <1>2, <1>13, <2>1 DEF Flushed, Locals
<1>15. LocalsHold(f, ToSet(FlushTasks(p, p.unsupported)))
  <2>1. Boundary(s + Len(b), ToSet(FlushTasks(p, p.unsupported)))
    BY <1>9, <1>12 DEF Boundary
  <2>2. Fits(e, e)
    BY <1>2 DEF Fits
  <2>3. e \in 0 .. Len(rows) /\ e \in 0 .. e /\ Len(<<>>) = 0 /\ 1 .. 0 = {}
    BY <1>2
  <2> QED
    BY <1>2, <1>3, <1>9, <1>14, <2>1, <2>2, <2>3 DEF LocalsHold
<1> QED
  BY <1>1, <1>12, <1>13, <1>14, <1>15

(* A commit that depends on a condition: its tasks follow each other, and  *)
(* the locals are right once they are sent.                                *)
LEMMA FlushedWhenFollows ==
  ASSUME TargetInv, runState # "absent", NEW p, LocalsHold(p, {}), NEW condition \in BOOLEAN,
         condition => p.batch # <<>> /\ Stops(p.rows, p.end)
  PROVE  LET flush == FlushedWhen(condition, p)
         IN  /\ HistoryTasks(flush.tasks, {}) /\ LocalsHold(flush.locals, ToSet(flush.tasks))
             /\ flush.locals.end = p.end /\ flush.locals.scanned = p.scanned
             /\ condition => flush.locals.rows = p.end /\ flush.locals.batch = <<>>
             /\ ~condition => flush.locals = p
<1> DEFINE flush == FlushedWhen(condition, p)
<1>1. CASE condition
  <2>1. flush.locals = Flushed(p) /\ flush.tasks = FlushTasks(p, p.unsupported)
    BY <1>1 DEF FlushedWhen
  <2> HIDE DEF flush
  <2>2. /\ HistoryTasks(flush.tasks, {}) /\ LocalsHold(flush.locals, ToSet(flush.tasks))
        /\ flush.locals.end = p.end /\ flush.locals.scanned = p.scanned
        /\ flush.locals.rows = p.end /\ flush.locals.batch = <<>>
    BY <1>1, <2>1, FlushFollows
  <2> QED
    BY <1>1, <2>2 DEF flush
<1>2. CASE ~condition
  <2>1. flush.locals = p /\ flush.tasks = <<>>
    BY <1>2 DEF FlushedWhen, NoTasks
  <2>2. HistoryTasks(<<>>, {}) /\ ToSet(<<>>) = {}
    BY FollowOne DEF HistoryTasks
  <2> HIDE DEF flush
  <2>3. HistoryTasks(flush.tasks, {}) /\ LocalsHold(flush.locals, ToSet(flush.tasks))
    BY <2>1, <2>2
  <2> QED
    BY <1>2, <2>1, <2>3 DEF flush
<1> QED
  BY <1>1, <1>2

(* How many requests a wide row takes.                                     *)
LEMMA RequestsOfRow ==
  ASSUME NEW P \in Nat, NEW L \in Nat \ {0}
  PROVE  LET R == (P + L - 1) \div L
         IN  /\ R \in Nat /\ (P > 0 => R > 0) /\ R * L >= P /\ (R > 0 => (R - 1) * L < P)
             /\ \A k \in 1 .. R : (k - 1) * L \in Nat /\ (k - 1) * L < P
             /\ \A k \in 1 .. R - 1 : k * L \in Nat /\ k * L < P
<1>1. PICK R : R = (P + L - 1) \div L
  OBVIOUS
<1>2. R \in Nat /\ R * L <= P + L - 1 /\ P + L - 1 < (R + 1) * L
  BY <1>1
<1>3. R * L \in Nat /\ (R + 1) * L = R * L + L /\ R * L >= P
  BY <1>2
<1>4. ASSUME R > 0 PROVE (R - 1) * L = R * L - L /\ (R - 1) * L < P
  <2>1. (R - 1) * L = R * L - L
    BY <1>2, <1>4
  <2> QED
    BY <1>2, <1>3, <2>1
<1>5. P > 0 => R > 0
  <2> SUFFICES ASSUME P > 0, R = 0 PROVE FALSE
    BY <1>2
  <2>1. R * L = 0
    OBVIOUS
  <2> QED
    BY <1>3, <2>1
<1>6. ASSUME NEW k \in 0 .. R - 1 PROVE k * L \in Nat /\ k * L < P
  <2>1. R > 0
    BY <1>2
  <2>2. k \in Nat /\ R - 1 - k \in Nat /\ (R - 1) * L < P
    BY <1>2, <1>4, <2>1
  <2>3. k * L \in Nat /\ (R - 1 - k) * L \in Nat /\ (R - 1) * L = k * L + (R - 1 - k) * L
    BY <1>2, <2>2
  <2>4. (R - 1) * L \in Nat
    BY <1>2, <2>3
  <2> QED
    BY <2>2, <2>3, <2>4
<1>7. \A k \in 1 .. R : (k - 1) * L \in Nat /\ (k - 1) * L < P
  BY <1>2, <1>6
<1>8. \A k \in 1 .. R - 1 : k * L \in Nat /\ k * L < P
  BY <1>2, <1>6
<1> QED
  BY <1>1, <1>2, <1>3, <1>4, <1>5, <1>7, <1>8

(* The points of a row are points of the history.                          *)
LEMMA PointsOfRow ==
  ASSUME TargetInv, NEW n \in 1 .. Len(rows), NEW first, first = PointsThrough(n - 1) + 1
  PROVE  /\ PointsOf(n, first) \in Seq(HistoryPoint)
         /\ Len(PointsOf(n, first)) = rows[n].points
         /\ rows[n].points \in Nat /\ PointsThrough(n - 1) \in Nat
         /\ PointsThrough(n) = PointsThrough(n - 1) + rows[n].points
         /\ \A i \in 1 .. rows[n].points :
              IsPoint(PointsOf(n, first)[i]) /\ PointsOf(n, first)[i].seq = first + i - 1
<1>1. /\ SourceTyped /\ Len(rows) \in Nat /\ rows[n] \in Row
      /\ PointsThrough(n) = PointsThrough(n - 1) + rows[n].points
  BY PointTyped, Sums
<1>2. n - 1 \in 0 .. Len(rows) /\ rows[n].points \in Nat
  BY <1>1 DEF Row
<1>3. PointsThrough(n - 1) \in Nat
  BY <1>1, <1>2, Sums
<1>4. revision \in Revisions
  BY DEF TargetInv, Revisions
<1>5. PICK s : s = PointsOf(n, first)
  OBVIOUS
<1>6. PICK m \in Nat : m = rows[n].points
  BY <1>2
<1>7. ASSUME NEW i \in 1 .. m
      PROVE  IsPoint([seq |-> first + i - 1, id |-> <<n, i, revision>>])
  <2>1. first + i - 1 = PointsThrough(n - 1) + i
    BY <1>3
  <2> QED
    BY <1>4, <1>6, <2>1 DEF IsPoint
<1>8. s = [i \in 1 .. m |-> [seq |-> first + i - 1, id |-> <<n, i, revision>>]]
  BY <1>5, <1>6 DEF PointsOf
<1>9. \A i \in 1 .. m : s[i] = [seq |-> first + i - 1, id |-> <<n, i, revision>>]
  BY <1>8
<1>10. ASSUME NEW i \in 1 .. m PROVE IsPoint(s[i]) /\ s[i].seq = first + i - 1
  <2>1. s[i] = [seq |-> first + i - 1, id |-> <<n, i, revision>>]
    BY <1>9
  <2>2. IsPoint(s[i])
    BY <1>7, <2>1
  <2> QED
    BY <2>1, <2>2
<1>11. \A i \in 1 .. m : s[i] \in HistoryPoint
  BY <1>10, PointTyped
<1>12. s \in Seq(HistoryPoint) /\ Len(s) = m
  BY <1>8, <1>11
<1> QED
  BY <1>1, <1>3, <1>5, <1>6, <1>10, <1>12

(* The requests of a wide row are cut where the row and the limit say.     *)
LEMMA SplitFollows ==
  ASSUME TargetInv, runState # "absent", NEW n \in 1 .. Len(rows), rows[n].points > 1,
         NEW first, first = PointsThrough(n - 1) + 1, NEW sent, Boundary(first, sent)
  PROVE  LET tasks == SplitTasks(PointsOf(n, first))
         IN  HistoryTasks(tasks, sent) /\ Boundary(PointsThrough(n) + 1, ToSet(tasks))
<1>1. PICK points, P : points = PointsOf(n, first) /\ P = rows[n].points
  OBVIOUS
<1>2. /\ points \in Seq(HistoryPoint) /\ Len(points) = P /\ P \in Nat /\ P > 1
      /\ PointsThrough(n - 1) \in Nat /\ PointsThrough(n) = PointsThrough(n - 1) + P
      /\ \A i \in 1 .. P : IsPoint(points[i]) /\ points[i].seq = first + i - 1
  BY <1>1, PointsOfRow
<1>3. PICK L : L = SplitLimit
  OBVIOUS
<1>4. L \in Nat \ {0}
  BY <1>3, ImportLimits
<1>5. PICK R : R = (P + L - 1) \div L
  OBVIOUS
<1>6. /\ R \in Nat /\ R > 0 /\ R * L >= P /\ (R - 1) * L < P
      /\ \A k \in 1 .. R : (k - 1) * L \in Nat /\ (k - 1) * L < P
      /\ \A k \in 1 .. R - 1 : k * L \in Nat /\ k * L < P
  <2>1. P > 0
    BY <1>2
  <2> QED
    BY <1>2, <1>4, <1>5, <2>1, RequestsOfRow
<1> DEFINE last(k) == IF k = R THEN P ELSE k * L
<1> DEFINE part(k) == SubSeq(points, (k - 1) * L + 1, last(k))
<1> DEFINE task(k) == [op |-> "ingest", arg |-> part(k)]
<1> DEFINE tasks == [k \in 1 .. R |-> task(k)]
<1>7. SplitTasks(points) = tasks
  <2>1. \A b : Head(Ingest(b)) = [op |-> "ingest", arg |-> b]
    BY DEF Ingest
  <2> QED
    BY <1>2, <1>3, <1>5, <2>1 DEF SplitTasks
<1>8. ASSUME NEW k \in 1 .. R
      PROVE  /\ last(k) \in Nat /\ last(k) <= P /\ (k - 1) * L \in Nat /\ (k - 1) * L < last(k)
             /\ (k # R => last(k) = k * L) /\ k \in Nat \ {0}
             /\ last(k) = IF k * L <= P THEN k * L ELSE P
  <2>1. (k - 1) * L \in Nat /\ (k - 1) * L < P /\ k \in Nat \ {0} /\ k * L = (k - 1) * L + L
    BY <1>4, <1>6
  <2>2. CASE k = R
    BY <1>2, <1>4, <1>6, <2>1, <2>2
  <2>3. CASE k # R
    <3>1. k \in 1 .. R - 1
      BY <1>6, <2>3
    <3>2. k * L \in Nat /\ k * L < P
      BY <1>6, <3>1
    <3> QED
      BY <1>2, <1>4, <2>1, <2>3, <3>2
  <2> QED
    BY <2>2, <2>3
<1> HIDE DEF last
<1>9. ASSUME NEW k \in 1 .. R
      PROVE  /\ IsBatch(part(k)) /\ part(k)[1].seq = first + (k - 1) * L
             /\ LastSequence(part(k)) = PointsThrough(n - 1) + last(k)
  <2>1. PICK m, l : m = (k - 1) * L + 1 /\ l = last(k)
    OBVIOUS
  <2>2. m \in Nat /\ l \in Nat /\ m >= 1 /\ m <= l /\ l <= P
    BY <1>8, <2>1
  <2>3. m \in 1 .. P + 1 /\ l \in m - 1 .. P
    BY <1>2, <2>2
  <2>4. PICK b : b = SubSeq(points, m, l)
    OBVIOUS
  <2>5. /\ b \in Seq(HistoryPoint) /\ Len(b) = l - m + 1
        /\ \A i \in 1 .. l - m + 1 : b[i] = points[m + i - 1]
    BY <1>2, <2>3, <2>4, Slice
  <2>6. ASSUME NEW i \in 1 .. Len(b)
        PROVE  IsPoint(b[i]) /\ b[i].seq = first + (m + i - 1) - 1
    <3>1. PICK j : j = m + i - 1
      OBVIOUS
    <3>2. i \in 1 .. l - m + 1 /\ j \in 1 .. P
      <4>1. i \in 1 .. l - m + 1 /\ P \in Nat
        BY <1>2, <2>5
      <4> QED
        BY <2>2, <3>1, <4>1
    <3>3. b[i] = points[j]
      BY <2>5, <3>1, <3>2
    <3>4. IsPoint(points[j]) /\ points[j].seq = first + j - 1
      BY <1>2, <3>2
    <3> QED
      BY <3>1, <3>3, <3>4
  <2>7. Len(b) \in Nat /\ 1 \in 1 .. Len(b) /\ Len(b) \in 1 .. Len(b) /\ b # <<>>
        /\ first \in Nat
    BY <1>2, <2>2, <2>5, EmptySeq
  <2>8. b[1].seq = first + (m + 1 - 1) - 1 /\ b[Len(b)].seq = first + (m + Len(b) - 1) - 1
    BY <2>6, <2>7
  <2>9. b[1].seq = first + (m - 1) /\ b[Len(b)].seq = PointsThrough(n - 1) + l
    <3>1. first + (m + 1 - 1) - 1 = first + (m - 1)
      BY <2>2, <2>7
    <3>2. first + (m + Len(b) - 1) - 1 = PointsThrough(n - 1) + l
      BY <1>2, <2>2, <2>5
    <3> QED
      BY <2>8, <3>1, <3>2
  <2>10. ASSUME NEW i \in 1 .. Len(b) PROVE b[i].seq = b[1].seq + i - 1
    <3>1. b[i].seq = first + (m + i - 1) - 1
      BY <2>6
    <3>2. first + (m + i - 1) - 1 = (first + (m - 1)) + i - 1
      BY <2>2, <2>7
    <3> QED
      BY <2>9, <3>1, <3>2
  <2>11. IsBatch(b)
    BY <2>5, <2>6, <2>7, <2>10 DEF IsBatch
  <2>12. b = part(k)
    BY <2>1, <2>4
  <2>13. m - 1 = (k - 1) * L
    BY <1>8, <2>1
  <2> QED
    BY <2>1, <2>9, <2>11, <2>12, <2>13 DEF LastSequence
<1>10. ASSUME NEW k \in 1 .. R PROVE IsCut(part(k))
  <2>1. PICK b : b = part(k)
    OBVIOUS
  <2>2. /\ b[1].seq = PointsThrough(n - 1) + (k - 1) * SplitLimit + 1
        /\ LastSequence(b) = PointsThrough(n - 1) + EndOfPart(n, k)
    <3>1. b[1].seq = first + (k - 1) * L /\ LastSequence(b) = PointsThrough(n - 1) + last(k)
      BY <1>9, <2>1
    <3>2. last(k) = EndOfPart(n, k)
      BY <1>1, <1>3, <1>8 DEF EndOfPart
    <3>3. (k - 1) * L \in Nat
      BY <1>8
    <3> QED
      BY <1>2, <1>3, <3>1, <3>2, <3>3
  <2>3. rows[n].points > 1 /\ (k - 1) * SplitLimit < rows[n].points /\ k \in Nat \ {0}
    BY <1>1, <1>3, <1>6, <1>8
  <2>4. WideCut(b)
    BY <2>2, <2>3 DEF WideCut
  <2> QED
    BY <2>1, <2>4 DEF IsCut
<1> HIDE DEF part
<1>11. tasks \in Seq({task(k) : k \in 1 .. R}) /\ Len(tasks) = R /\ DOMAIN tasks = 1 .. R
       /\ \A k \in 1 .. R : tasks[k] = task(k)
  BY <1>6
<1> HIDE DEF tasks
<1>12. ASSUME NEW k \in 1 .. R PROVE TaskHolds(tasks[k], sent \union Before(tasks, k))
  <2>1. tasks[k].op = "ingest" /\ tasks[k].arg = part(k)
    BY <1>11
  <2>2. Boundary(part(k)[1].seq, sent \union Before(tasks, k))
    <3>1. CASE k = 1
      <4>1. part(k)[1].seq = first
        <5>1. (1 - 1) * L = 0
          BY <1>4
        <5> QED
          BY <1>2, <1>9, <3>1, <5>1
      <4> QED
        BY <4>1 DEF Boundary
    <3>2. CASE k # 1
      <4>1. k - 1 \in 1 .. R /\ k - 1 # R /\ k - 1 \in 1 .. k - 1
        BY <1>6, <3>2
      <4>2. tasks[k - 1] \in Before(tasks, k) /\ tasks[k - 1].op = "ingest"
            /\ tasks[k - 1].arg = part(k - 1)
        BY <1>11, <4>1 DEF Before
      <4>3. LastSequence(part(k - 1)) = PointsThrough(n - 1) + (k - 1) * L
        BY <1>8, <1>9, <4>1
      <4>4. part(k)[1].seq = first + (k - 1) * L /\ (k - 1) * L \in Nat
        BY <1>8, <1>9
      <4>5. part(k)[1].seq = LastSequence(part(k - 1)) + 1
        BY <1>2, <4>3, <4>4
      <4> QED
        BY <4>2, <4>5 DEF Boundary
    <3> QED
      BY <3>1, <3>2
  <2> QED
    BY <1>9, <1>10, <2>1, <2>2 DEF TaskHolds
<1>13. HistoryTasks(tasks, sent)
  <2>1. Follow(tasks, sent)
    BY <1>11, <1>12 DEF Follow
  <2>2. IsSequence(tasks)
    BY <1>11 DEF IsSequence
  <2>3. \A t \in ToSet(tasks) : HistoryTask(t)
    BY <1>11 DEF ToSet, HistoryTask, PhaseSave
  <2> QED
    BY <2>1, <2>2, <2>3 DEF HistoryTasks
<1>14. Boundary(PointsThrough(n) + 1, ToSet(tasks))
  <2>1. R \in 1 .. R
    BY <1>6
  <2>2. tasks[R] \in ToSet(tasks) /\ tasks[R].op = "ingest" /\ tasks[R].arg = part(R)
    BY <1>11, <2>1 DEF ToSet
  <2>3. LastSequence(part(R)) = PointsThrough(n)
    <3>1. last(R) = P
      BY DEF last
    <3> QED
      BY <1>2, <1>9, <2>1, <3>1
  <2> QED
    BY <2>2, <2>3 DEF Boundary
<1> QED
  BY <1>1, <1>7, <1>13, <1>14

(* A wide row.                                                             *)
LEMMA WideFollows ==
  ASSUME TargetInv, runState # "absent", NEW p, LocalsHold(p, {}),
         NEW n, n = p.end + 1, n \in 1 .. Len(rows), rows[n].points > 1
  PROVE  LET outcome == WideRow(p, n)
         IN  /\ HistoryTasks(outcome.tasks, {})
             /\ LocalsHold(outcome.locals, ToSet(outcome.tasks))
             /\ outcome.locals.scanned = n /\ outcome.locals.end = n
             /\ Len(outcome.locals.batch) = 0
<1>1. /\ SourceTyped /\ Len(rows) \in Nat /\ p \in Locals /\ p.batch \in Seq(HistoryPoint)
      /\ p.end \in 0 .. Len(rows) /\ p.rows \in 0 .. p.end
      /\ p.seq = PointsThrough(p.rows) + 1 /\ p.unsupported = SkippedThrough(p.end)
      /\ Len(p.batch) = PointsThrough(p.end) - PointsThrough(p.rows)
  BY PointTyped, Sums DEF LocalsHold, Locals
<1>2. /\ rows[n] \in Row /\ PointsThrough(n) = PointsThrough(n - 1) + rows[n].points
      /\ SkippedThrough(n) = SkippedThrough(n - 1) + Skipped(n) /\ n - 1 = p.end
      /\ n \in 0 .. Len(rows) /\ n \in Nat
  <2>1. /\ rows[n] \in Row /\ PointsThrough(n) = PointsThrough(n - 1) + rows[n].points
        /\ SkippedThrough(n) = SkippedThrough(n - 1) + Skipped(n)
    BY <1>1, Sums
  <2>2. p.end \in Nat
    BY <1>1
  <2> QED
    BY <1>1, <2>1, <2>2
<1>3. /\ PointsThrough(n - 1) \in Nat /\ PointsThrough(n) \in Nat /\ SkippedThrough(n) \in Nat
      /\ BytesThrough(n) \in Nat
  BY <1>1, <1>2, Sums
<1> DEFINE condition == p.batch # <<>>
<1>4. condition => Stops(p.rows, p.end)
  <2>1. n \in p.end + 1 .. Len(rows) /\ PointsThrough(n - 1) = PointsThrough(p.end)
    BY <1>1, <1>2
  <2> QED
    BY <2>1 DEF Stops
<1> DEFINE flush == FlushedWhen(condition, p)
<1>5. /\ HistoryTasks(flush.tasks, {}) /\ LocalsHold(flush.locals, ToSet(flush.tasks))
      /\ flush.locals.end = p.end /\ flush.locals.scanned = p.scanned
      /\ condition => flush.locals.rows = p.end /\ flush.locals.batch = <<>>
      /\ ~condition => flush.locals = p
  <2>1. condition \in BOOLEAN
    OBVIOUS
  <2> HIDE DEF condition
  <2>2. condition => p.batch # <<>>
    BY DEF condition
  <2> QED
    BY <1>4, <2>1, <2>2, FlushedWhenFollows
<1>6. PICK first : first = flush.locals.seq
  OBVIOUS
<1>7. first = PointsThrough(n - 1) + 1 /\ Boundary(first, ToSet(flush.tasks))
  <2>1. Boundary(first, ToSet(flush.tasks))
        /\ first = PointsThrough(flush.locals.rows) + 1
    BY <1>5, <1>6 DEF LocalsHold
  <2>2. CASE condition
    BY <1>2, <1>5, <2>1, <2>2
  <2>3. CASE ~condition
    <3>1. flush.locals.rows = p.rows /\ p.rows \in 0 .. Len(rows) /\ Len(p.batch) = 0
      BY <1>1, <1>5, <2>3
    <3>2. PointsThrough(p.rows) \in Nat /\ PointsThrough(p.end) \in Nat
      BY <1>1, <3>1, Sums
    <3> QED
      BY <1>1, <1>2, <2>1, <3>1, <3>2
  <2> QED
    BY <2>2, <2>3
<1> DEFINE split == SplitTasks(PointsOf(n, first))
<1>8. /\ HistoryTasks(split, {} \union ToSet(flush.tasks))
      /\ Boundary(PointsThrough(n) + 1, ToSet(split))
  <2>1. Boundary(first, {} \union ToSet(flush.tasks))
    BY <1>7 DEF Boundary
  <2> QED
    BY <1>7, <2>1, SplitFollows
<1> DEFINE next == first + rows[n].points
<1> DEFINE save == Save([rows |-> n, seq |-> next, unsupported |-> SkippedThrough(n)])
<1>9. next = PointsThrough(n) + 1
  <2>1. rows[n].points \in Nat
    BY <1>2 DEF Row
  <2> QED
    BY <1>2, <1>3, <1>7, <2>1
<1> HIDE DEF flush, split, next
<1>10. HistoryTasks(flush.tasks \o split, {})
       /\ ToSet(flush.tasks \o split) = ToSet(flush.tasks) \union ToSet(split)
  BY <1>5, <1>8, HistoryConcat
<1>11. HistoryTasks(save, {} \union ToSet(flush.tasks \o split))
  <2>1. Boundary(next, {} \union ToSet(flush.tasks \o split))
    BY <1>8, <1>9, <1>10 DEF Boundary
  <2> QED
    BY <1>1, <1>2, <1>9, <2>1, SaveRowsFollows
<1> HIDE DEF save
<1>12. /\ HistoryTasks((flush.tasks \o split) \o save, {})
       /\ ToSet((flush.tasks \o split) \o save) = ToSet(flush.tasks \o split) \union ToSet(save)
  BY <1>10, <1>11, HistoryConcat
<1>13. p.unsupported + Skipped(n) = SkippedThrough(n)
  BY <1>1, <1>2
<1>14. /\ WideRow(p, n).tasks = (flush.tasks \o split) \o save
       /\ WideRow(p, n).locals =
            [p EXCEPT !.scanned = n, !.rows = n, !.seq = next, !.end = n,
                      !.unsupported = SkippedThrough(n), !.batch = <<>>, !.bytes = 0]
  <2>1. /\ WideRow(p, n).tasks =
             flush.tasks \o split
               \o Save([rows |-> n, seq |-> next, unsupported |-> p.unsupported + Skipped(n)])
        /\ WideRow(p, n).locals =
             [p EXCEPT !.scanned = n, !.rows = n, !.seq = next, !.end = n,
                       !.unsupported = p.unsupported + Skipped(n), !.batch = <<>>, !.bytes = 0]
    BY <1>6 DEF WideRow, flush, split, next
  <2> QED
    BY <1>13, <2>1 DEF save
<1>15. PICK tasks, q : tasks = WideRow(p, n).tasks /\ q = WideRow(p, n).locals
  OBVIOUS
<1>16. /\ q \in Locals /\ q.scanned = n /\ q.rows = n /\ q.end = n /\ q.seq = next
       /\ q.unsupported = SkippedThrough(n) /\ q.batch = <<>> /\ q.bytes = 0
  <2>1. next \in Nat /\ <<>> \in Seq(HistoryPoint)
    BY <1>3, <1>9
  <2>2. q = [p EXCEPT !.scanned = n, !.rows = n, !.seq = next, !.end = n,
                      !.unsupported = SkippedThrough(n), !.batch = <<>>, !.bytes = 0]
    BY <1>14, <1>15
  <2>3. /\ q.scanned = n /\ q.rows = n /\ q.end = n /\ q.seq = next
        /\ q.unsupported = SkippedThrough(n) /\ q.batch = <<>> /\ q.bytes = 0
    BY <1>1, <2>2 DEF Locals
  <2>4. q \in Locals
    BY <1>1, <1>2, <1>3, <2>1, <2>2 DEF Locals
  <2> QED
    BY <2>3, <2>4
<1>17. HistoryTasks(tasks, {}) /\ Boundary(next, ToSet(tasks))
  <2>1. ToSet(split) \subseteq ToSet(tasks)
    BY <1>10, <1>12, <1>14, <1>15
  <2> QED
    BY <1>8, <1>9, <1>12, <1>14, <1>15, <2>1 DEF Boundary
<1>18. LocalsHold(q, ToSet(tasks)) /\ Len(q.batch) = 0
  <2>1. Fits(n, n) /\ n \in 0 .. n /\ Len(<<>>) = 0 /\ 1 .. 0 = {}
    BY <1>2 DEF Fits
  <2> QED
    BY <1>2, <1>3, <1>9, <1>16, <1>17, <2>1 DEF LocalsHold
<1> QED
  BY <1>15, <1>16, <1>17, <1>18

(* A row of at most one point joins the batch.                             *)
Joined(q, n) ==
  [q EXCEPT !.scanned = n, !.end = n,
   !.unsupported = @ + Skipped(n),
   !.batch = @ \o PointsOf(n, q.seq + Len(@)),
   !.bytes = @ + rows[n].points * rows[n].size]

(* A row that fits into the batch at hand joins it.                        *)
LEMMA JoinedHolds ==
  ASSUME TargetInv, NEW q, NEW sent, LocalsHold(q, sent),
         NEW n, n = q.end + 1, n \in 1 .. Len(rows), rows[n].points <= 1,
         Len(q.batch) < BatchSize,
         rows[n].points = 1 /\ q.batch # <<>> => q.bytes + rows[n].size <= ByteLimit
  PROVE  /\ LocalsHold(Joined(q, n), sent) /\ Joined(q, n).scanned = n /\ Joined(q, n).end = n
         /\ Joined(q, n).rows = q.rows
<1>1. /\ SourceTyped /\ Len(rows) \in Nat /\ q \in Locals /\ q.batch \in Seq(HistoryPoint)
      /\ q.end \in 0 .. Len(rows) /\ q.rows \in 0 .. q.end
      /\ q.seq = PointsThrough(q.rows) + 1 /\ q.unsupported = SkippedThrough(q.end)
      /\ Len(q.batch) = PointsThrough(q.end) - PointsThrough(q.rows)
      /\ \A i \in 1 .. Len(q.batch) : IsPoint(q.batch[i]) /\ q.batch[i].seq = q.seq + i - 1
      /\ Fits(q.rows, q.end) /\ q.bytes = BytesThrough(q.end) - BytesThrough(q.rows)
      /\ Boundary(q.seq, sent)
  BY PointTyped, Sums DEF LocalsHold, Locals
<1>2. PICK r, e, b : r = q.rows /\ e = q.end /\ b = q.batch
  OBVIOUS
<1>3. /\ r \in Nat /\ e \in Nat /\ n \in Nat /\ n = e + 1 /\ n - 1 = e /\ r <= e /\ r \in 0 .. n
      /\ n \in 0 .. Len(rows) /\ r \in 0 .. Len(rows) /\ e \in 0 .. Len(rows)
      /\ e \in r .. Len(rows)
  BY <1>1, <1>2
<1>4. /\ rows[n] \in Row /\ PointsThrough(n) = PointsThrough(n - 1) + rows[n].points
      /\ SkippedThrough(n) = SkippedThrough(n - 1) + Skipped(n)
      /\ BytesThrough(n) = BytesThrough(n - 1) + (IF rows[n].points = 1 THEN rows[n].size ELSE 0)
  BY <1>1, Sums
<1>5. /\ PointsThrough(r) \in Nat /\ PointsThrough(e) \in Nat /\ PointsThrough(n) \in Nat
      /\ BytesThrough(r) \in Nat /\ BytesThrough(e) \in Nat /\ BytesThrough(n) \in Nat
      /\ SkippedThrough(e) \in Nat /\ SkippedThrough(n) \in Nat
      /\ PointsThrough(r) <= PointsThrough(e) /\ BytesThrough(r) <= BytesThrough(e)
  BY <1>1, <1>3, Sums
<1>6. PICK P, size \in Nat : P = rows[n].points /\ size = rows[n].size /\ P \in {0, 1}
  <2>1. rows[n].points \in Nat /\ rows[n].size \in Nat
    BY <1>4 DEF Row
  <2> QED
    BY <2>1
<1>7. P * size = IF P = 1 THEN size ELSE 0
  <2>1. 1 * size = size /\ 0 * size = 0
    BY <1>6
  <2> QED
    BY <1>6, <2>1
<1>8. PICK first : first = q.seq + Len(b)
  OBVIOUS
<1>9. first = PointsThrough(n - 1) + 1 /\ Len(b) \in Nat /\ q.seq \in Nat
      /\ Len(b) = PointsThrough(e) - PointsThrough(r)
  <2>1. q.seq = PointsThrough(r) + 1 /\ Len(b) = PointsThrough(e) - PointsThrough(r)
    BY <1>1, <1>2
  <2>2. n - 1 = e
    BY <1>3
  <2>3. PICK x, y \in Nat : x = PointsThrough(r) /\ y = PointsThrough(e) /\ x <= y
    BY <1>5
  <2>4. y - x \in Nat /\ x + 1 \in Nat /\ (x + 1) + (y - x) = y + 1
    BY <2>3
  <2>5. q.seq = x + 1 /\ Len(b) = y - x
    BY <2>1, <2>3
  <2> QED
    BY <1>8, <2>1, <2>2, <2>3, <2>4, <2>5
<1>10. PICK points : points = PointsOf(n, first)
  OBVIOUS
<1>11. /\ points \in Seq(HistoryPoint) /\ Len(points) = P
       /\ \A i \in 1 .. P : IsPoint(points[i]) /\ points[i].seq = first + i - 1
  BY <1>6, <1>9, <1>10, PointsOfRow
<1>12. PICK t : t = Joined(q, n)
  OBVIOUS
<1>13. /\ t.scanned = n /\ t.end = n /\ t.rows = r /\ t.seq = q.seq
       /\ t.unsupported = q.unsupported + Skipped(n) /\ t.batch = b \o points
       /\ t.bytes = q.bytes + P * size
       /\ t = [q EXCEPT !.scanned = n, !.end = n, !.unsupported = q.unsupported + Skipped(n),
                        !.batch = b \o points, !.bytes = q.bytes + P * size]
  <2>1. t = [q EXCEPT !.scanned = n, !.end = n, !.unsupported = q.unsupported + Skipped(n),
                      !.batch = b \o points, !.bytes = q.bytes + P * size]
    BY <1>2, <1>6, <1>8, <1>10, <1>12 DEF Joined
  <2> QED
    BY <1>1, <1>2, <2>1 DEF Locals
<1>14. /\ b \o points \in Seq(HistoryPoint) /\ Len(b \o points) = Len(b) + P
       /\ \A i \in 1 .. Len(b) + P :
            (b \o points)[i] = IF i <= Len(b) THEN b[i] ELSE points[i - Len(b)]
  BY <1>1, <1>2, <1>11, ConcatProperties
<1>15. PICK c : c = b \o points
  OBVIOUS
<1>16. ASSUME NEW i \in 1 .. Len(c) PROVE IsPoint(c[i]) /\ c[i].seq = q.seq + i - 1
  <2>1. CASE i <= Len(b)
    <3>1. i \in 1 .. Len(b) /\ c[i] = b[i]
      BY <1>6, <1>9, <1>14, <1>15, <2>1
    <3> QED
      BY <1>1, <1>2, <3>1
  <2>2. CASE ~(i <= Len(b))
    <3>1. PICK j : j = i - Len(b)
      OBVIOUS
    <3>2. j \in 1 .. P /\ c[i] = points[j]
      <4>1. Len(c) = Len(b) + P /\ i \in 1 .. Len(b) + P
        BY <1>14, <1>15
      <4>2. c[i] = points[i - Len(b)]
        BY <1>14, <1>15, <2>2, <4>1
      <4>3. j \in 1 .. P
        <5>1. PICK l \in Nat : l = Len(b)
          BY <1>9
        <5>2. i \in 1 .. l + P /\ ~(i <= l) /\ j = i - l
          BY <2>2, <3>1, <4>1, <5>1
        <5> QED
          BY <1>6, <5>2
      <4> QED
        BY <3>1, <4>2, <4>3
    <3>3. q.seq \in Nat
      BY <1>9
    <3>4. first + j - 1 = q.seq + i - 1
      <4>1. PICK l, s \in Nat : l = Len(b) /\ s = q.seq
        BY <1>9
      <4>2. i \in Nat
        BY <1>6, <1>9, <1>14, <1>15
      <4>3. (s + l) + (i - l) - 1 = s + i - 1
        <5>1. \A x, y, z \in Nat : (x + y) + (z - y) - 1 = x + z - 1
          OBVIOUS
        <5> QED
          BY <4>1, <4>2, <5>1
      <4>4. first = s + l /\ j = i - l
        BY <1>8, <3>1, <4>1
      <4> QED
        BY <4>1, <4>3, <4>4
    <3> QED
      BY <1>11, <3>2, <3>4
  <2> QED
    BY <2>1, <2>2
<1>17. q.unsupported + Skipped(n) = SkippedThrough(n)
  BY <1>1, <1>2, <1>3, <1>4
<1>18. q.bytes + P * size = BytesThrough(n) - BytesThrough(r)
       /\ BytesThrough(n) - BytesThrough(r) \in Nat
  <2>1. q.bytes = BytesThrough(e) - BytesThrough(r)
    BY <1>1, <1>2
  <2>2. BytesThrough(n) = BytesThrough(e) + P * size
    BY <1>3, <1>4, <1>6, <1>7
  <2>3. P * size \in Nat
    BY <1>6, <1>7
  <2> QED
    BY <1>5, <2>1, <2>2, <2>3
<1>19. Len(c) = PointsThrough(n) - PointsThrough(r)
  <2>1. PointsThrough(n) = PointsThrough(e) + P
    BY <1>3, <1>4, <1>6
  <2>2. Len(c) = Len(b) + P
    BY <1>14, <1>15
  <2>3. PICK x, y \in Nat : x = PointsThrough(r) /\ y = PointsThrough(e)
    BY <1>5
  <2>4. Len(c) = (y - x) + P /\ PointsThrough(n) = y + P
    BY <1>9, <2>1, <2>2, <2>3
  <2> QED
    BY <1>6, <2>3, <2>4
<1>20. Fits(r, n)
  <2> SUFFICES ASSUME NEW k \in r + 1 .. n
      PROVE  /\ rows[k].points <= 1
             /\ rows[k].points = 1 /\ PointsThrough(k - 1) > PointsThrough(r) =>
                  /\ BytesThrough(k) - BytesThrough(r) <= ByteLimit
                  /\ PointsThrough(k - 1) - PointsThrough(r) < BatchSize
    BY DEF Fits
  <2>1. CASE k = n
    <3> SUFFICES ASSUME P = 1, PointsThrough(e) > PointsThrough(r)
        PROVE  /\ BytesThrough(n) - BytesThrough(r) <= ByteLimit
               /\ PointsThrough(e) - PointsThrough(r) < BatchSize
      BY <1>3, <1>6, <2>1
    <3>1. Len(b) > 0 /\ b # <<>>
      BY <1>1, <1>2, <1>5
    <3>2. q.bytes + size <= ByteLimit
      BY <1>2, <1>6, <3>1
    <3> QED
      BY <1>1, <1>2, <1>7, <1>18, <3>2
  <2>2. CASE k # n
    <3>1. k \in r + 1 .. e
      BY <1>3, <2>2
    <3> QED
      BY <1>1, <1>2, <3>1 DEF Fits
  <2> QED
    BY <2>1, <2>2
<1>21. t \in Locals
  <2>1. /\ q.unsupported + Skipped(n) \in Nat /\ q.bytes + P * size \in Nat /\ n \in Nat
        /\ b \o points \in Seq(HistoryPoint)
    BY <1>3, <1>5, <1>14, <1>17, <1>18
  <2> QED
    BY <1>1, <1>13, <2>1 DEF Locals
<1>22. LocalsHold(t, sent)
  BY <1>1, <1>2, <1>3, <1>13, <1>15, <1>16, <1>17, <1>18, <1>19, <1>20, <1>21 DEF LocalsHold
<1> QED
  BY <1>2, <1>12, <1>13, <1>22

(* A row that is not wide.                                                 *)
LEMMA NarrowFollows ==
  ASSUME TargetInv, runState # "absent", NEW p, LocalsHold(p, {}),
         NEW n, n = p.end + 1, n \in 1 .. Len(rows), ~(rows[n].points > 1),
         Len(p.batch) < BatchSize
  PROVE  LET outcome == NarrowRow(p, n)
         IN  /\ HistoryTasks(outcome.tasks, {})
             /\ LocalsHold(outcome.locals, ToSet(outcome.tasks))
             /\ outcome.locals.scanned = n /\ outcome.locals.end = n
             /\ Len(outcome.locals.batch) < BatchSize
<1>1. /\ SourceTyped /\ Len(rows) \in Nat /\ p \in Locals /\ p.batch \in Seq(HistoryPoint)
      /\ p.end \in 0 .. Len(rows) /\ p.rows \in 0 .. p.end
      /\ p.bytes = BytesThrough(p.end) - BytesThrough(p.rows)
      /\ BatchSize \in Nat \ {0} /\ ByteLimit \in Nat
  BY PointTyped, Sums, ImportLimits DEF LocalsHold, Locals
<1>2. /\ p.end \in Nat /\ n - 1 = p.end /\ n \in Nat /\ p.rows \in 0 .. Len(rows)
      /\ n \in p.end + 1 .. Len(rows)
  BY <1>1
<1>3. /\ rows[n] \in Row /\ rows[n].points \in Nat /\ rows[n].size \in Nat
      /\ BytesThrough(n) = BytesThrough(n - 1) + (IF rows[n].points = 1 THEN rows[n].size ELSE 0)
      /\ BytesThrough(p.end) \in Nat /\ BytesThrough(p.rows) \in Nat
  <2>1. rows[n] \in Row
    BY <1>1, Sums
  <2> QED
    BY <1>1, <1>2, <2>1, Sums DEF Row
<1> DEFINE condition == rows[n].points = 1 /\ p.batch # <<>> /\ p.bytes + rows[n].size > ByteLimit
<1>4. condition => p.batch # <<>> /\ Stops(p.rows, p.end)
  <2> SUFFICES ASSUME condition PROVE Stops(p.rows, p.end)
    OBVIOUS
  <2>1. PointsThrough(n - 1) = PointsThrough(p.end) /\ rows[n].points = 1
    BY <1>2
  <2>2. BytesThrough(n) - BytesThrough(p.rows) > ByteLimit
    BY <1>1, <1>2, <1>3
  <2> QED
    BY <1>2, <2>1, <2>2 DEF Stops
<1> DEFINE flush == FlushedWhen(condition, p)
<1>5. /\ HistoryTasks(flush.tasks, {}) /\ LocalsHold(flush.locals, ToSet(flush.tasks))
      /\ flush.locals.end = p.end /\ flush.locals.scanned = p.scanned
      /\ condition => flush.locals.rows = p.end /\ flush.locals.batch = <<>>
      /\ ~condition => flush.locals = p
  <2>1. condition \in BOOLEAN
    OBVIOUS
  <2> HIDE DEF condition
  <2> QED
    BY <1>4, <2>1, FlushedWhenFollows
<1>6. PICK q, sent : q = flush.locals /\ sent = ToSet(flush.tasks)
  OBVIOUS
<1> HIDE DEF flush
<1>7. /\ LocalsHold(q, sent) /\ q.end = p.end /\ Len(q.batch) < BatchSize
      /\ rows[n].points = 1 /\ q.batch # <<>> => q.bytes + rows[n].size <= ByteLimit
  <2>1. CASE condition
    <3>1. q.batch = <<>> /\ Len(q.batch) = 0 /\ LocalsHold(q, sent) /\ q.end = p.end
      BY <1>5, <1>6, <2>1
    <3> QED
      BY <1>1, <3>1
  <2>2. CASE ~condition
    <3>1. q = p /\ LocalsHold(q, sent)
      BY <1>5, <1>6, <2>2
    <3>2. p.bytes \in Nat
      BY <1>1 DEF Locals
    <3>3. rows[n].points = 1 /\ p.batch # <<>> => p.bytes + rows[n].size <= ByteLimit
      BY <1>1, <1>3, <2>2, <3>2
    <3> QED
      BY <3>1, <3>3
  <2> QED
    BY <2>1, <2>2
<1>8. PICK added : added = Joined(q, n)
  OBVIOUS
<1>9. LocalsHold(added, sent) /\ added.scanned = n /\ added.end = n /\ added.rows = q.rows
  BY <1>3, <1>7, <1>8, JoinedHolds
<1> DEFINE full == Len(added.batch) >= BatchSize
<1>10. /\ full => /\ NarrowRow(p, n).locals = Flushed(added)
                  /\ NarrowRow(p, n).tasks =
                       flush.tasks \o FlushTasks(added, added.unsupported)
       /\ ~full => /\ NarrowRow(p, n).locals = added
                   /\ NarrowRow(p, n).tasks = flush.tasks \o <<>>
  <2> DEFINE with == Joined(flush.locals, n)
  <2> DEFINE rest(q_1) == IF Len(q_1.batch) >= BatchSize
                            THEN FlushTasks(q_1, q_1.unsupported) ELSE <<>>
  <2>1. /\ NarrowRow(p, n).locals = IF Len(with.batch) >= BatchSize THEN Flushed(with) ELSE with
        /\ NarrowRow(p, n).tasks = flush.tasks \o rest(with)
    BY DEF NarrowRow, Joined, flush
  <2>2. with = added
    BY <1>6, <1>8
  <2> HIDE DEF with, full, rest
  <2>3. /\ NarrowRow(p, n).locals = IF Len(added.batch) >= BatchSize THEN Flushed(added) ELSE added
        /\ NarrowRow(p, n).tasks = flush.tasks \o rest(added)
    BY <2>1, <2>2
  <2>4. rest(added) = IF full THEN FlushTasks(added, added.unsupported) ELSE <<>>
    BY DEF rest, full
  <2> QED
    BY <2>3, <2>4 DEF full
<1> HIDE DEF condition
<1>11. CASE full
  <2>1. added.batch # <<>> /\ Stops(added.rows, added.end)
    <3>1. Len(added.batch) = PointsThrough(added.end) - PointsThrough(added.rows)
      BY <1>9 DEF LocalsHold
    <3>2. added.batch # <<>>
      BY <1>1, <1>11
    <3> QED
      BY <1>11, <3>1, <3>2 DEF Stops
  <2> DEFINE tasks == FlushTasks(added, added.unsupported)
  <2>2. /\ HistoryTasks(tasks, sent) /\ LocalsHold(Flushed(added), ToSet(tasks))
        /\ Flushed(added).end = n /\ Flushed(added).batch = <<>> /\ Flushed(added).scanned = n
    BY <1>9, <2>1, FlushFollows
  <2> HIDE DEF tasks
  <2>3. /\ HistoryTasks(flush.tasks \o tasks, {})
        /\ ToSet(flush.tasks \o tasks) = ToSet(flush.tasks) \union ToSet(tasks)
    <3>1. {} \union ToSet(flush.tasks) = sent
      BY <1>6
    <3> QED
      BY <1>5, <2>2, <3>1, HistoryConcat
  <2>4. LocalsHold(Flushed(added), ToSet(flush.tasks \o tasks))
    BY <2>2, <2>3, LocalsAfter
  <2>5. Len(<<>>) = 0 /\ 0 < BatchSize
    BY <1>1
  <2>6. NarrowRow(p, n).locals = Flushed(added) /\ NarrowRow(p, n).tasks = flush.tasks \o tasks
    BY <1>10, <1>11 DEF tasks
  <2> QED
    BY <2>2, <2>3, <2>4, <2>5, <2>6
<1>12. CASE ~full
  <2>1. /\ HistoryTasks(flush.tasks \o <<>>, {})
        /\ ToSet(flush.tasks \o <<>>) = ToSet(flush.tasks) \union ToSet(<<>>)
    <3>1. HistoryTasks(<<>>, {} \union ToSet(flush.tasks))
      BY FollowOne DEF HistoryTasks
    <3> QED
      BY <1>5, <3>1, HistoryConcat
  <2>2. LocalsHold(added, ToSet(flush.tasks \o <<>>))
    BY <1>6, <1>9, <2>1, LocalsAfter
  <2>3. Len(added.batch) < BatchSize
    <3>1. added.batch \in Seq(HistoryPoint)
      BY <1>9 DEF LocalsHold, Locals
    <3> QED
      BY <1>1, <1>12, <3>1
  <2>4. NarrowRow(p, n).locals = added /\ NarrowRow(p, n).tasks = flush.tasks \o <<>>
    BY <1>10, <1>12
  <2> QED
    BY <1>9, <2>1, <2>2, <2>3, <2>4
<1> QED
  BY <1>11, <1>12

(* Any row.                                                                *)
LEMMA RowFollows ==
  ASSUME TargetInv, runState # "absent", NEW p, LocalsHold(p, {}), Len(p.batch) < BatchSize,
         p.scanned \in 0 .. p.end, p.scanned < p.end => p.rows = p.end,
         NEW n, n = p.scanned + 1, n \in 1 .. Len(rows)
  PROVE  LET outcome == RowOutcome(p, n)
         IN  /\ HistoryTasks(outcome.tasks, {})
             /\ LocalsHold(outcome.locals, ToSet(outcome.tasks))
             /\ outcome.locals.scanned = n /\ n <= outcome.locals.end
             /\ n < outcome.locals.end => outcome.locals.rows = outcome.locals.end
             /\ Len(outcome.locals.batch) < BatchSize
<1>1. /\ p \in Locals /\ p.end \in Nat /\ p.rows \in 0 .. p.end /\ p.scanned \in Nat
      /\ BatchSize \in Nat \ {0} /\ n \in Nat
  BY ImportLimits DEF LocalsHold, Locals
<1>2. CASE n <= p.rows
  <2>1. PICK q : q = [p EXCEPT !.scanned = n]
    OBVIOUS
  <2>2. RowOutcome(p, n).locals = q /\ RowOutcome(p, n).tasks = <<>>
    BY <1>2, <2>1 DEF RowOutcome, NoTasks
  <2>3. /\ q \in Locals /\ q.scanned = n /\ q.rows = p.rows /\ q.end = p.end /\ q.seq = p.seq
        /\ q.unsupported = p.unsupported /\ q.batch = p.batch /\ q.bytes = p.bytes
    BY <1>1, <2>1 DEF Locals
  <2>4. HistoryTasks(<<>>, {}) /\ ToSet(<<>>) = {}
    BY FollowOne DEF HistoryTasks
  <2>5. LocalsHold(q, {})
    BY <2>3 DEF LocalsHold
  <2>6. p.rows = p.end /\ n <= p.end
    BY <1>1, <1>2
  <2> QED
    BY <2>2, <2>3, <2>4, <2>5, <2>6
<1>3. CASE ~(n <= p.rows)
  <2>1. n = p.end + 1
    BY <1>1, <1>3
  <2>2. CASE rows[n].points > 1
    <3>1. RowOutcome(p, n) = WideRow(p, n)
      BY <1>3, <2>2 DEF RowOutcome
    <3>2. LET outcome == WideRow(p, n)
          IN  /\ HistoryTasks(outcome.tasks, {})
              /\ LocalsHold(outcome.locals, ToSet(outcome.tasks))
              /\ outcome.locals.scanned = n /\ outcome.locals.end = n
              /\ Len(outcome.locals.batch) = 0
      BY <2>1, <2>2, WideFollows
    <3> QED
      BY <1>1, <3>1, <3>2
  <2>3. CASE ~(rows[n].points > 1)
    <3>1. RowOutcome(p, n) = NarrowRow(p, n)
      BY <1>3, <2>3 DEF RowOutcome
    <3>2. LET outcome == NarrowRow(p, n)
          IN  /\ HistoryTasks(outcome.tasks, {})
              /\ LocalsHold(outcome.locals, ToSet(outcome.tasks))
              /\ outcome.locals.scanned = n /\ outcome.locals.end = n
              /\ Len(outcome.locals.batch) < BatchSize
      BY <2>1, <2>3, NarrowFollows
    <3> QED
      BY <1>1, <3>1, <3>2
  <2> QED
    BY <2>2, <2>3
<1> QED
  BY <1>2, <1>3

(* The second of two tasks.                                                *)
LEMMA SecondIsLast ==
  ASSUME NEW x, NEW y PROVE Tail(<<x>> \o <<y>>) = <<y>>
<1> DEFINE S == {x, y}
<1>1. <<x>> \in Seq(S) /\ <<y>> \in Seq(S) /\ Len(<<x>>) = 1 /\ Len(<<y>>) = 1
      /\ <<x>>[1] = x /\ <<y>>[1] = y
  OBVIOUS
<1>2. PICK s, t \in Seq(S) : s = <<x>> /\ t = <<y>> /\ Len(s) = 1 /\ Len(t) = 1 /\ s[1] = x /\ t[1] = y
  BY <1>1
<1> HIDE DEF S
<1>3. PICK c \in Seq(S) : c = s \o t
  BY ConcatProperties
<1>9. /\ Len(c) = Len(s) + Len(t)
      /\ \A i \in 1 .. Len(s) + Len(t) : c[i] = IF i <= Len(s) THEN s[i] ELSE t[i - Len(s)]
  BY <1>3, ConcatProperties
<1>4. Len(c) = 2 /\ c # <<>>
  BY <1>2, <1>9, EmptySeq
<1>5. c[1 + 1] = t[1]
  <2>1. 1 + 1 \in 1 .. Len(s) + Len(t) /\ ~(1 + 1 <= Len(s)) /\ (1 + 1) - Len(s) = 1
    BY <1>2
  <2> QED
    BY <1>9, <2>1
<1>6. PICK d \in Seq(S) : d = Tail(c)
  BY <1>4, HeadTailProperties
<1>7. Tail(c) = t
  <2>1. Len(d) = Len(c) - 1 /\ \A i \in 1 .. Len(d) : d[i] = c[i + 1]
    BY <1>4, <1>6, HeadTailProperties
  <2>2. Len(d) = 1 /\ 1 \in 1 .. Len(d)
    BY <1>4, <2>1
  <2>3. d[1] = t[1]
    BY <1>5, <2>1, <2>2
  <2>4. \A i \in 1 .. Len(t) : t[i] = d[i]
    BY <1>2, <2>3
  <2> QED
    BY <1>2, <1>6, <2>2, <2>4, SeqEqual
<1>8. Tail(s \o t) = t
  BY <1>3, <1>7
<1> QED
  BY <1>2, <1>8

(* The rest of the batch.                                                  *)
LEMMA LastFollows ==
  ASSUME TargetInv, runState # "absent", NEW p, LocalsHold(p, {}), p.end = Len(rows)
  PROVE  LET outcome == LastOutcome(p)
         IN  /\ HistoryTasks(outcome.tasks, {})
             /\ LocalsHold(outcome.locals, ToSet(outcome.tasks))
             /\ outcome.locals.scanned = p.scanned /\ outcome.locals.end = p.end
             /\ outcome.locals.rows = p.end
<1>1. /\ SourceTyped /\ p \in Locals /\ p.end \in Nat /\ p.rows \in 0 .. p.end
      /\ p.end \in 0 .. Len(rows) /\ p.batch \in Seq(HistoryPoint)
  BY PointTyped DEF LocalsHold, Locals
<1>2. CASE p.end > p.rows /\ p.batch # <<>>
  <2>1. Stops(p.rows, p.end)
    BY DEF Stops
  <2>2. /\ LastOutcome(p).locals = Flushed(p)
        /\ LastOutcome(p).tasks = FlushTasks(p, p.unsupported)
    BY <1>2 DEF LastOutcome
  <2>3. \A sent : {} \union sent = sent
    OBVIOUS
  <2> QED
    BY <1>2, <2>1, <2>2, FlushFollows
<1>3. CASE p.end > p.rows /\ p.batch = <<>>
  <2>1. Len(p.batch) = 0 /\ p.rows \in 0 .. Len(rows)
    BY <1>1, <1>3
  <2>2. PointsThrough(p.end) \in Nat /\ PointsThrough(p.rows) \in Nat /\ BytesThrough(p.end) \in Nat
    BY <1>1, <2>1, Sums
  <2>3. PICK s : s = p.seq + Len(p.batch)
    OBVIOUS
  <2>4. s = p.seq /\ s = PointsThrough(p.end) + 1 /\ Boundary(s, {})
        /\ p.unsupported = SkippedThrough(p.end)
    BY <2>1, <2>2, <2>3 DEF LocalsHold
  <2> DEFINE save == Save([rows |-> p.end, seq |-> s, unsupported |-> SkippedThrough(p.end)])
  <2>5. HistoryTasks(save, {})
    BY <1>1, <2>4, SaveRowsFollows
  <2>6. LastOutcome(p).locals = Flushed(p) /\ LastOutcome(p).tasks = save
    <3>1. LastOutcome(p).locals = Flushed(p)
          /\ LastOutcome(p).tasks = Tail(FlushTasks(p, p.unsupported))
      BY <1>3 DEF LastOutcome
    <3>3. FlushTasks(p, p.unsupported) = Ingest(p.batch) \o save
      BY <2>3, <2>4 DEF FlushTasks
    <3>4. Tail(Ingest(p.batch) \o save) = save
      BY SecondIsLast DEF Ingest, Save, save
    <3> QED
      BY <3>1, <3>3, <3>4
  <2> HIDE DEF save
  <2>7. PICK f : f = Flushed(p)
    OBVIOUS
  <2>8. /\ f \in Locals /\ f.rows = p.end /\ f.end = p.end /\ f.seq = s /\ f.batch = <<>>
        /\ f.bytes = 0 /\ f.unsupported = p.unsupported /\ f.scanned = p.scanned
    <3>1. s \in Nat /\ <<>> \in Seq(HistoryPoint)
      BY <2>2, <2>4
    <3> QED
      BY <1>1, <2>3, <2>7, <3>1 DEF Flushed, Locals
  <2>9. LocalsHold(f, ToSet(save))
    <3>1. Boundary(s, ToSet(save))
      BY <2>4 DEF Boundary
    <3>2. Fits(p.end, p.end)
      BY <1>1 DEF Fits
    <3>3. p.end \in 0 .. p.end /\ Len(<<>>) = 0 /\ 1 .. 0 = {}
      BY <1>1
    <3> QED
      BY <1>1, <2>2, <2>4, <2>8, <3>1, <3>2, <3>3 DEF LocalsHold
  <2> QED
    BY <2>5, <2>6, <2>7, <2>8, <2>9
<1>4. CASE ~(p.end > p.rows)
  <2>1. p.rows = p.end
    BY <1>1, <1>4
  <2>2. LastOutcome(p).locals = p /\ LastOutcome(p).tasks = <<>>
    BY <1>4 DEF LastOutcome, NoTasks
  <2>3. HistoryTasks(<<>>, {}) /\ ToSet(<<>>) = {}
    BY FollowOne DEF HistoryTasks
  <2> QED
    BY <2>1, <2>2, <2>3
<1> QED
  BY <1>2, <1>3, <1>4

-----------------------------------------------------------------------------
(* Media.                                                                  *)

(* The watermark stops before the first row with a transfer under way.     *)
LEMMA WatermarkStops ==
  ASSUME NEW queue, NEW from \in Nat, NEW last \in Nat, from <= last
  PROVE  LET k == Watermark(queue, from, last)
         IN  k \in from .. last /\ \A n \in from + 1 .. k : ~Outstanding(queue, n)
<1> DEFINE T == {k \in Nat : from <= k /\ k <= last /\ (k = last \/ Outstanding(queue, k + 1))}
<1>1. last \in T /\ T \in SUBSET Nat
  OBVIOUS
<1>2. PICK k \in T : \A l \in T : k <= l
  BY <1>1, LeastElement
<1>3. ASSUME NEW n \in from + 1 .. k, Outstanding(queue, n) PROVE FALSE
  <2>1. n - 1 \in Nat /\ from <= n - 1 /\ n - 1 <= last /\ (n - 1) + 1 = n /\ n - 1 < k
    BY <1>2
  <2>2. n - 1 \in T
    BY <1>3, <2>1
  <2> QED
    BY <1>2, <2>1, <2>2
<1>4. \E l \in from .. last : /\ \A n \in from + 1 .. l : ~Outstanding(queue, n)
                              /\ l = last \/ Outstanding(queue, l + 1)
  BY <1>2, <1>3
<1> QED
  BY <1>4 DEF Watermark

(* What is behind the watermark is stored.                                 *)
LEMMA BehindWatermark ==
  ASSUME TargetInv, NEW queue, NEW from, NEW last, MediaHeld(from),
         from \in 0 .. Len(rows), last \in from .. Len(rows),
         include => \A n \in from + 1 .. last : \A o \in 1 .. rows[n].media : Stands(queue, n, o)
  PROVE  LET k == Watermark(queue, from, last) IN k \in from .. last /\ MediaHeld(k)
<1>1. Len(rows) \in Nat
  BY DEF TargetInv
<1>2. PICK k : k = Watermark(queue, from, last)
  OBVIOUS
<1>3. k \in from .. last /\ \A n \in from + 1 .. k : ~Outstanding(queue, n)
  BY <1>1, <1>2, WatermarkStops
<1>4. MediaHeld(k)
  <2> SUFFICES ASSUME include, NEW n \in 1 .. k, NEW o \in 1 .. rows[n].media
      PROVE  \E m \in media : m[1] = n /\ m[2] = o
    BY DEF MediaHeld
  <2>1. CASE n <= from
    <3>1. n \in 1 .. from
      BY <1>1, <1>3, <2>1
    <3> QED
      BY <3>1 DEF MediaHeld
  <2>2. CASE ~(n <= from)
    <3>1. n \in from + 1 .. k /\ n \in from + 1 .. last
      BY <1>1, <1>3, <2>2
    <3>2. Stands(queue, n, o) /\ ~Outstanding(queue, n)
      BY <1>3, <3>1
    <3> QED
      BY <3>2 DEF Stands, Outstanding
  <2> QED
    BY <2>1, <2>2
<1> QED
  BY <1>2, <1>3, <1>4

(* The watermark is saved, or nothing is.                                  *)
LEMMA PersistFollows ==
  ASSUME NEW mark \in 0 .. Len(rows), MediaHeld(mark), NEW sent
  PROVE  HistoryTasks(PersistTasks(mark), sent) /\ HistoryTasks(Save([media |-> mark]), sent)
<1> DEFINE fields == [media |-> mark]
<1> DEFINE task == [op |-> "save", arg |-> fields]
<1>1. DOMAIN fields = {"media"} /\ fields.media = mark
  OBVIOUS
<1> HIDE DEF fields
<1>2. SaveHolds(fields, sent)
  BY <1>1 DEF SaveHolds, Fresh
<1>3. task.op = "save" /\ task.arg = fields
  OBVIOUS
<1> HIDE DEF task
<1>4. TaskHolds(task, sent) /\ HistoryTask(task)
  BY <1>1, <1>2, <1>3 DEF TaskHolds, HistoryTask, PhaseSave
<1>5. HistoryTasks(<<task>>, sent)
  BY <1>4, FollowOne DEF HistoryTasks
<1>6. HistoryTasks(Save([media |-> mark]), sent)
  BY <1>5 DEF Save, task, fields
<1>7. HistoryTasks(<<>>, sent)
  BY FollowOne DEF HistoryTasks
<1> QED
  BY <1>6, <1>7 DEF PersistTasks

-----------------------------------------------------------------------------
(* Run files.                                                              *)

(* A task that claims nothing of the history or of the phase.              *)
FileTask(t) ==
  \/ t.op = "shard"
  \/ t.op = "save" /\ DOMAIN t.arg \subseteq {"files", "filesDone"}

(* A multiple of a number, and the quotient.                               *)
LEMMA Quotients ==
  ASSUME NEW n \in Nat, NEW c \in Nat \ {0}
  PROVE  /\ n \div c \in Nat /\ (n \div c) * c \in Nat /\ (n \div c) * c <= n
         /\ n < (n \div c) * c + c
         /\ n % c = 0 => n = (n \div c) * c
<1>1. n \div c \in Nat /\ (n \div c) * c \in Nat
  OBVIOUS
<1>2. (n \div c) * c <= n /\ n < (n \div c) * c + c
  OBVIOUS
<1>3. ASSUME n % c = 0 PROVE n = (n \div c) * c
  <2>1. n = c * (n \div c)
    BY <1>3
  <2>2. c * (n \div c) = (n \div c) * c
    BY <1>1
  <2> QED
    BY <2>1, <2>2
<1> QED
  BY <1>1, <1>2, <1>3

(* The products the parts of a wide row are counted in.                    *)
LEMMA Products ==
  ASSUME NEW m \in Nat, NEW n \in Nat, NEW c \in Nat \ {0}
  PROVE  /\ m * c \in Nat /\ (m < n => m * c + c <= n * c) /\ (m * c < n * c => m < n)
         /\ (m + 1) * c = m * c + c
<1>1. m * c \in Nat /\ n * c \in Nat /\ (m + 1) * c = m * c + c
  OBVIOUS
<1>2. ASSUME m < n PROVE m * c + c <= n * c
  <2>1. PICK d \in Nat : n = m + 1 + d
    <3>1. n - m - 1 \in Nat /\ n = m + 1 + (n - m - 1)
      BY <1>2
    <3> QED
      BY <3>1
  <2>2. d * c \in Nat /\ n * c = m * c + c + d * c
    BY <2>1
  <2> QED
    BY <1>1, <2>2
<1>3. ASSUME n <= m PROVE n * c <= m * c
  <2>1. PICK d \in Nat : m = n + d
    <3>1. m - n \in Nat /\ m = n + (m - n)
      BY <1>3
    <3> QED
      BY <3>1
  <2>2. d * c \in Nat /\ m * c = n * c + d * c
    BY <2>1
  <2> QED
    BY <1>1, <2>2
<1> QED
  BY <1>1, <1>2, <1>3

(* The index of a chunk's task.                                            *)
LEMMA Halves ==
  ASSUME NEW m \in Nat, NEW i \in 1 .. 2 * m
  PROVE  /\ (i + 1) \div 2 \in 1 .. m
         /\ i % 2 = 1 => i = 2 * ((i + 1) \div 2) - 1
         /\ i % 2 # 1 => i = 2 * ((i + 1) \div 2)
OBVIOUS

(* Shards are at the odd positions of the tasks of whole chunks.           *)
LEMMA Odds ==
  ASSUME NEW m \in Nat, NEW l \in 1 .. m
  PROVE  /\ 2 * l - 1 \in 1 .. 2 * m /\ (2 * l - 1) % 2 = 1 /\ ((2 * l - 1) + 1) \div 2 = l
OBVIOUS

(* What the file import does after a checkpoint that holds.                *)
LEMMA FilesFollow ==
  ASSUME TargetInv, runState # "absent", NEW done \in Nat, done = mem.files, FilesHeld(done, {})
  PROVE  /\ IsSequence(FileTasks) /\ Follow(FileTasks, {})
         /\ FilesHeld(Files, ToSet(FileTasks)) /\ \A t \in ToSet(FileTasks) : FileTask(t)
<1>1. PICK C : C = FileChunk
  OBVIOUS
<1>2. C \in Nat \ {0} /\ Files \in Nat
  BY <1>1, ImportLimits
<1>3. PICK start, whole \in Nat : start = done \div C /\ whole = Files \div C
  BY <1>2, Quotients
<1>4. /\ start * C \in Nat /\ start * C <= done
      /\ whole * C \in Nat /\ whole * C <= Files /\ Files < whole * C + C
      /\ Files % C = 0 => Files = whole * C
  BY <1>2, <1>3, Quotients
<1>5. PICK m \in Nat : /\ m = IF start <= whole THEN whole - start ELSE 0
                       /\ 1 .. 2 * (whole - start) = 1 .. 2 * m
  <2>1. CASE start <= whole
    <3>1. whole - start \in Nat
      BY <2>1
    <3> QED
      BY <2>1, <3>1
  <2>2. CASE ~(start <= whole)
    <3>1. 1 .. 2 * (whole - start) = {} /\ 1 .. 2 * 0 = {}
      BY <2>2
    <3> QED
      BY <2>2, <3>1
  <2> QED
    BY <2>1, <2>2
<1> DEFINE Of(q) == [op |-> "shard", arg |-> q * C]
<1> DEFINE Mark(q) == [op |-> "save", arg |-> [files |-> q * C]]
<1> DEFINE LastMark == [op |-> "save", arg |-> [files |-> Files, filesDone |-> TRUE]]
<1> DEFINE chunk(k) == <<[op |-> "shard", arg |-> (k - 1) * C]>> \o <<Mark(k)>>
<1> DEFINE chunks == [i \in 1 .. 2 * m |->
                        chunk(start + (i + 1) \div 2)[IF i % 2 = 1 THEN 1 ELSE 2]]
<1> DEFINE end == IF Files % C = 0 THEN <<>> ELSE <<Of(whole)>>
<1>6. FileTasks = chunks \o end \o <<LastMark>>
  BY <1>1, <1>3, <1>5 DEF FileTasks, Shard, Save
<1>7. ASSUME NEW k PROVE chunk(k)[1] = [op |-> "shard", arg |-> (k - 1) * C] /\ chunk(k)[2] = Mark(k)
  <2>1. ASSUME NEW x, NEW y PROVE (<<x>> \o <<y>>)[1] = x /\ (<<x>> \o <<y>>)[2] = y
    <3>1. <<x>> \in Seq({x, y}) /\ <<y>> \in Seq({x, y}) /\ Len(<<x>>) = 1 /\ Len(<<y>>) = 1
          /\ <<x>>[1] = x /\ <<y>>[1] = y
      OBVIOUS
    <3>2. \A i \in 1 .. Len(<<x>>) + Len(<<y>>) : (<<x>> \o <<y>>)[i] =
            IF i <= Len(<<x>>) THEN <<x>>[i] ELSE <<y>>[i - Len(<<x>>)]
      BY <3>1, ConcatProperties
    <3>3. 1 \in 1 .. Len(<<x>>) + Len(<<y>>) /\ 2 \in 1 .. Len(<<x>>) + Len(<<y>>)
          /\ 1 <= Len(<<x>>) /\ ~(2 <= Len(<<x>>)) /\ 2 - Len(<<x>>) = 1
      BY <3>1
    <3> QED
      BY <3>1, <3>2, <3>3
  <2> QED
    BY <2>1
<1> HIDE DEF chunk
<1>8. ASSUME NEW i \in 1 .. 2 * m
      PROVE  \E l \in 1 .. m :
               \/ i = 2 * l - 1 /\ chunks[i] = Of(start + l - 1)
               \/ i = 2 * l /\ chunks[i] = Mark(start + l)
  <2>1. PICK l \in 1 .. m : l = (i + 1) \div 2 /\ (i % 2 = 1 => i = 2 * l - 1)
                            /\ (i % 2 # 1 => i = 2 * l)
    BY Halves
  <2>2. chunks[i] = chunk(start + l)[IF i % 2 = 1 THEN 1 ELSE 2]
    BY <2>1
  <2>3. (start + l) - 1 = start + l - 1
    OBVIOUS
  <2> HIDE DEF chunks
  <2>4. CASE i % 2 = 1
    <3>1. chunks[i] = [op |-> "shard", arg |-> ((start + l) - 1) * C]
      BY <1>7, <2>2, <2>4
    <3> QED
      BY <2>1, <2>3, <2>4, <3>1
  <2>5. CASE i % 2 # 1
    BY <1>7, <2>1, <2>2, <2>5
  <2> QED
    BY <2>4, <2>5
<1>9. ASSUME NEW l \in 1 .. m
      PROVE  2 * l - 1 \in 1 .. 2 * m /\ chunks[2 * l - 1] = Of(start + l - 1)
  <2>1. 2 * l - 1 \in 1 .. 2 * m /\ (2 * l - 1) % 2 = 1 /\ ((2 * l - 1) + 1) \div 2 = l
    BY Odds
  <2>2. chunks[2 * l - 1] = chunk(start + l)[1]
    BY <2>1
  <2>3. (start + l) - 1 = start + l - 1
    OBVIOUS
  <2> HIDE DEF chunks
  <2> QED
    BY <1>7, <2>1, <2>2, <2>3
<1>10. chunks \in Seq({chunks[i] : i \in 1 .. 2 * m}) /\ Len(chunks) = 2 * m
       /\ DOMAIN chunks = 1 .. 2 * m
  <2>1. PICK N \in Nat : N = 2 * m
    OBVIOUS
  <2>2. PICK f : f = chunks
    OBVIOUS
  <2>3. f = [i \in 1 .. N |-> f[i]]
    BY <2>1, <2>2
  <2>4. f \in Seq({f[i] : i \in 1 .. N}) /\ Len(f) = N /\ DOMAIN f = 1 .. N
    BY <2>3
  <2> HIDE DEF chunks
  <2> QED
    BY <2>1, <2>2, <2>4
<1> HIDE DEF chunks
(* Every file before the end of chunk start + l is in the checkpoint or in *)
(* one of the first l chunks.                                              *)
<1>11. ASSUME NEW first \in FirstFiles, NEW sent, NEW l \in 0 .. m, first < (start + l) * C,
              \A j \in 1 .. l : Of(start + j - 1) \in sent
       PROVE  ShardHeld(first, sent)
  <2>1. first \in Nat /\ first % C = 0
    BY <1>1, <1>2 DEF FirstFiles
  <2>2. PICK q \in Nat : q = first \div C /\ first = q * C
    BY <1>2, <2>1, Quotients
  <2>3. CASE q < start
    <3>1. first < done
      BY <1>2, <1>4, <2>2, <2>3, Products
    <3>2. ShardHeld(first, {})
      BY <3>1 DEF FilesHeld
    <3> QED
      BY <3>2 DEF ShardHeld
  <2>4. CASE ~(q < start)
    <3>1. start + l \in Nat /\ q * C < (start + l) * C
      BY <1>11, <2>2
    <3>2. q < start + l
      BY <1>2, <3>1, Products
    <3>3. PICK j \in 1 .. l : q = start + j - 1
      <4>1. q - start + 1 \in 1 .. l /\ q = start + (q - start + 1) - 1
        BY <2>4, <3>2
      <4> QED
        BY <4>1
    <3>4. Of(start + j - 1).op = "shard" /\ Of(start + j - 1).arg = first
      BY <2>2, <3>3
    <3> HIDE DEF Of
    <3> QED
      BY <1>11, <3>4 DEF ShardHeld
  <2> QED
    BY <2>3, <2>4
<1>12. /\ \A q \in Nat : \A sent : TaskHolds(Of(q), sent) /\ FileTask(Of(q))
       /\ \A q \in Nat : FileTask(Mark(q))
       /\ FileTask(LastMark)
  <2>1. ASSUME NEW q \in Nat, NEW sent PROVE TaskHolds(Of(q), sent) /\ FileTask(Of(q))
    <3>1. q * C \in Nat
      BY <1>2, Products
    <3> QED
      BY <3>1 DEF TaskHolds, FileTask
  <2> QED
    BY <2>1 DEF FileTask
<1>13. ASSUME NEW l \in 1 .. m, NEW sent, \A j \in 1 .. l : Of(start + j - 1) \in sent
       PROVE  TaskHolds(Mark(start + l), sent)
  <2>1. PICK n : n = (start + l) * C
    OBVIOUS
  <2>2. n \in Nat /\ FilesHeld(n, sent)
    <3>1. n \in Nat /\ l \in 0 .. m
      BY <1>2, <2>1, Products
    <3> QED
      BY <1>11, <1>13, <2>1, <3>1 DEF FilesHeld
  <2>3. PICK fields : fields = [files |-> n]
    OBVIOUS
  <2>4. DOMAIN fields = {"files"} /\ fields.files = n
    BY <2>3
  <2>5. SaveHolds(fields, sent)
    BY <2>2, <2>4 DEF SaveHolds, Fresh
  <2> QED
    BY <2>1, <2>3, <2>5 DEF TaskHolds
<1>14. IsSequence(chunks) /\ Follow(chunks, {}) /\ \A t \in ToSet(chunks) : FileTask(t)
  <2>1. ASSUME NEW i \in 1 .. 2 * m
        PROVE  TaskHolds(chunks[i], {} \union Before(chunks, i)) /\ FileTask(chunks[i])
    <3>1. PICK l \in 1 .. m : \/ i = 2 * l - 1 /\ chunks[i] = Of(start + l - 1)
                              \/ i = 2 * l /\ chunks[i] = Mark(start + l)
      BY <1>8
    <3>2. CASE i = 2 * l - 1 /\ chunks[i] = Of(start + l - 1)
      <4>1. start + l - 1 \in Nat
        OBVIOUS
      <4> HIDE DEF Of
      <4> QED
        BY <1>12, <3>2, <4>1
    <3>3. CASE i = 2 * l /\ chunks[i] = Mark(start + l)
      <4>1. ASSUME NEW j \in 1 .. l PROVE Of(start + j - 1) \in Before(chunks, i)
        <5>1. j \in 1 .. m /\ 2 * j - 1 \in 1 .. i - 1
          BY <3>3
        <5> QED
          BY <1>9, <5>1 DEF Before
      <4>2. start + l \in Nat
        OBVIOUS
      <4> HIDE DEF Of, Mark
      <4> QED
        BY <1>12, <1>13, <3>3, <4>1, <4>2
    <3> QED
      BY <3>1, <3>2, <3>3
  <2>2. IsSequence(chunks)
    BY <1>10 DEF IsSequence
  <2> QED
    BY <1>10, <2>1, <2>2 DEF Follow, ToSet
<1>15. IsSequence(end) /\ Follow(end, {} \union ToSet(chunks)) /\ \A t \in ToSet(end) : FileTask(t)
  <2>1. CASE Files % C = 0
    <3>1. end = <<>>
      BY <2>1
    <3> HIDE DEF end
    <3> QED
      BY <3>1, FollowOne
  <2>2. CASE Files % C # 0
    <3>1. end = <<Of(whole)>>
      BY <2>2
    <3> HIDE DEF end, Of
    <3> QED
      BY <1>12, <3>1, FollowOne
  <2> QED
    BY <2>1, <2>2
<1>16. FilesHeld(Files, ToSet(chunks) \union ToSet(end))
  <2> SUFFICES ASSUME NEW first \in FirstFiles, first < Files
      PROVE  ShardHeld(first, ToSet(chunks) \union ToSet(end))
    BY DEF FilesHeld
  <2>1. first \in Nat /\ first % C = 0
    BY <1>1, <1>2 DEF FirstFiles
  <2>2. PICK q \in Nat : q = first \div C /\ first = q * C
    BY <1>2, <2>1, Quotients
  <2>3. CASE q < start + m
    <3>1. first < (start + m) * C /\ m \in 0 .. m
      <4>1. start + m \in Nat
        OBVIOUS
      <4>2. q * C + C <= (start + m) * C /\ q * C \in Nat
        BY <1>2, <2>3, <4>1, Products
      <4>3. (start + m) * C \in Nat
        BY <1>2, <4>1, Products
      <4> QED
        BY <1>2, <2>2, <4>2, <4>3
    <3>2. ASSUME NEW j \in 1 .. m PROVE Of(start + j - 1) \in ToSet(chunks) \union ToSet(end)
      BY <1>9, <1>10 DEF ToSet
    <3> HIDE DEF Of, end
    <3> QED
      BY <1>11, <3>1, <3>2
  <2>4. CASE ~(q < start + m)
    <3>1. CASE start <= whole
      <4>1. m = whole - start /\ ~(q < whole)
        BY <1>5, <2>4, <3>1
      <4>2. q = whole
        <5>1. ~(whole < q)
          <6> SUFFICES ASSUME whole < q PROVE FALSE
            OBVIOUS
          <6>1. whole * C + C <= q * C
            BY <1>2, Products
          <6> QED
            BY <1>2, <1>4, <2>1, <2>2, <6>1
        <5> QED
          BY <4>1, <5>1
      <4>3. Files % C # 0
        <5> SUFFICES ASSUME Files % C = 0 PROVE FALSE
          OBVIOUS
        <5> QED
          BY <1>2, <1>4, <2>2, <4>2
      <4>4. end = <<Of(whole)>> /\ ToSet(<<Of(whole)>>) = {Of(whole)}
        BY <4>3, FollowOne
      <4>5. Of(whole).op = "shard" /\ Of(whole).arg = first
        BY <2>2, <4>2
      <4> HIDE DEF Of, end
      <4> QED
        BY <4>4, <4>5 DEF ShardHeld
    <3>2. CASE ~(start <= whole)
      <4>1. whole + 1 <= start
        BY <3>2
      <4>2. whole * C + C <= start * C
        BY <1>2, <3>2, Products
      <4>3. first < done
        BY <1>2, <1>4, <2>1, <4>2
      <4>4. ShardHeld(first, {})
        BY <4>3 DEF FilesHeld
      <4> QED
        BY <4>4 DEF ShardHeld
    <3> QED
      BY <3>1, <3>2
  <2> QED
    BY <2>3, <2>4
<1> HIDE DEF end
<1>17. /\ IsSequence(chunks \o end) /\ Follow(chunks \o end, {})
       /\ ToSet(chunks \o end) = ToSet(chunks) \union ToSet(end)
  BY <1>14, <1>15, FollowConcat, ConcatElements
<1>18. PICK sent : sent = {} \union ToSet(chunks \o end)
  OBVIOUS
<1>19. TaskHolds(LastMark, sent)
  <2>1. PICK fields : fields = [files |-> Files, filesDone |-> TRUE]
    OBVIOUS
  <2>2. DOMAIN fields = {"files", "filesDone"} /\ fields.files = Files /\ fields.filesDone = TRUE
    BY <2>1
  <2>3. FilesHeld(Files, sent)
    BY <1>16, <1>17, <1>18 DEF FilesHeld, ShardHeld
  <2>4. SaveHolds(fields, sent)
    BY <1>2, <2>2, <2>3 DEF SaveHolds, Fresh
  <2> QED
    BY <2>1, <2>4 DEF TaskHolds
<1>20. PICK last : last = LastMark
  OBVIOUS
<1>21. TaskHolds(last, sent) /\ FileTask(last)
  BY <1>12, <1>19, <1>20
<1> HIDE DEF LastMark
<1>22. IsSequence(<<last>>) /\ Follow(<<last>>, sent) /\ ToSet(<<last>>) = {last}
  BY <1>21, FollowOne
<1>23. /\ IsSequence((chunks \o end) \o <<last>>) /\ Follow((chunks \o end) \o <<last>>, {})
       /\ ToSet((chunks \o end) \o <<last>>) = ToSet(chunks \o end) \union ToSet(<<last>>)
  BY <1>17, <1>18, <1>22, FollowConcat, ConcatElements
<1>24. FileTasks = (chunks \o end) \o <<last>>
  BY <1>6, <1>20
<1>25. FilesHeld(Files, ToSet(FileTasks))
  <2>1. ToSet(chunks) \union ToSet(end) \subseteq ToSet(FileTasks)
    BY <1>17, <1>23, <1>24
  <2> QED
    BY <1>16, <2>1 DEF FilesHeld, ShardHeld
<1>26. \A t \in ToSet(FileTasks) : FileTask(t)
  BY <1>14, <1>15, <1>17, <1>21, <1>22, <1>23, <1>24
<1> QED
  BY <1>23, <1>24, <1>25, <1>26

-----------------------------------------------------------------------------
(* The locals of the history hold after a step that leaves them alone.     *)
LEMMA LocalsStay ==
  ASSUME TargetInv, Grows, NEW p, NEW sent, LocalsHold(p, sent),
         p.batch # <<>> => runState # "absent"
  PROVE  LocalsHold(p, sent)'
<1>1. /\ rows' = rows /\ include' = include
      /\ \A s : Boundary(s, sent) => Boundary(s, sent)'
  BY HeldStays DEF Grows
<1>2. /\ \A n : PointsThrough(n)' = PointsThrough(n)
      /\ \A n : SkippedThrough(n)' = SkippedThrough(n)
      /\ \A n : BytesThrough(n)' = BytesThrough(n)
      /\ \A r, e : Fits(r, e)' <=> Fits(r, e)
  BY <1>1, SourceStays
<1>3. \A i \in 1 .. Len(p.batch) : IsPoint(p.batch[i])'
  <2>1. CASE p.batch = <<>>
    BY <2>1
  <2>2. CASE p.batch # <<>>
    BY <2>2, PointStays DEF LocalsHold
  <2> QED
    BY <2>1, <2>2
<1> QED
  BY <1>1, <1>2, <1>3 DEF LocalsHold, Locals, HistoryPoint

(* Tasks hold after more has been sent, and after a step of another actor. *)
LEMMA FollowAfter ==
  ASSUME NEW tasks, NEW sent, NEW more, sent \subseteq more, Follow(tasks, sent)
  PROVE  Follow(tasks, more)
<1> SUFFICES ASSUME NEW i \in 1 .. Len(tasks)
    PROVE  TaskHolds(tasks[i], more \union Before(tasks, i))
  BY DEF Follow
<1>1. TaskHolds(tasks[i], sent \union Before(tasks, i))
  BY DEF Follow
<1>2. sent \union Before(tasks, i) \subseteq more \union Before(tasks, i)
  OBVIOUS
<1> QED
  BY <1>1, <1>2, HoldsAfter

(* A list of tasks stays right to be carried out while the target grows.   *)
LEMMA FollowStays ==
  ASSUME TargetInv, Grows, NEW tasks, NEW sent, Follow(tasks, sent)
  PROVE  Follow(tasks, sent)'
<1> SUFFICES ASSUME NEW i \in 1 .. Len(tasks)
    PROVE  TaskHolds(tasks[i], sent \union Before(tasks, i))'
  BY DEF Follow, Before
<1>1. TaskHolds(tasks[i], sent \union Before(tasks, i)) /\ SourceTyped
  BY DEF Follow, TargetInv, SourceTyped
<1> DEFINE all == sent \union Before(tasks, i)
<1>2. TaskHolds(tasks[i], all)'
  <2> HIDE DEF all
  <2>1. PICK u : u = all
    OBVIOUS
  <2>2. TaskHolds(tasks[i], u)
    BY <1>1, <2>1 DEF all
  <2>3. TaskHolds(tasks[i], u)'
    BY <1>1, <2>2, TaskStays
  <2>4. u = all'
    BY <2>1 DEF all, Before
  <2> QED
    BY <2>3, <2>4
<1> QED
  BY <1>2

(* The elements of a sequence and of its tail.                             *)
LEMMA HeadAndTail ==
  ASSUME NEW s, IsSequence(s), s # <<>>
  PROVE  /\ Head(s) \in ToSet(s) /\ ToSet(Tail(s)) \subseteq ToSet(s)
         /\ \A t \in ToSet(s) : t = Head(s) \/ t \in ToSet(Tail(s))
         /\ s = <<Head(s)>> \o Tail(s)
         /\ Len(Tail(s)) = Len(s) - 1 /\ Len(s) \in Nat /\ Head(s) = s[1] /\ Len(s) >= 1
         /\ \A i \in 1 .. Len(s) - 1 : Tail(s)[i] = s[i + 1]
<1>1. PICK S : s \in Seq(S)
  BY DEF IsSequence
<1>2. /\ s[1] \in S /\ Len(s) \in Nat /\ Len(s) >= 1
      /\ \E i \in 1 .. Len(s) : i = 1
  BY <1>1
<1>3. Head(s) = s[1] /\ Len(Tail(s)) = Len(s) - 1 /\ Tail(s) \in Seq(S)
      /\ \A i \in 1 .. Len(s) - 1 : Tail(s)[i] = s[i + 1]
  BY <1>1, <1>2, HeadTailProperties
<1>4. ToSet(s) = {s[i] : i \in 1 .. Len(s)}
  BY <1>1 DEF ToSet
<1>5. PICK d \in Seq(S) : d = Tail(s)
  BY <1>3
<1>6. ToSet(d) = {d[i] : i \in 1 .. Len(d)}
  <2>1. d \in Seq(S)
    BY <1>5
  <2>2. DOMAIN d = 1 .. Len(d)
    BY <2>1
  <2> QED
    BY <2>2 DEF ToSet
<1>7. /\ Len(d) = Len(s) - 1 /\ \A i \in 1 .. Len(s) - 1 : d[i] = s[i + 1]
  BY <1>3, <1>5
<1>8. ToSet(d) \subseteq ToSet(s)
  <2> SUFFICES ASSUME NEW i \in 1 .. Len(d) PROVE d[i] \in ToSet(s)
    BY <1>6
  <2>1. i + 1 \in 1 .. Len(s) /\ d[i] = s[i + 1]
    BY <1>2, <1>7
  <2> QED
    BY <1>4, <2>1
<1>9. ASSUME NEW i \in 1 .. Len(s) PROVE s[i] = s[1] \/ s[i] \in ToSet(d)
  <2>1. CASE i = 1
    BY <2>1
  <2>2. CASE i # 1
    <3>1. i - 1 \in 1 .. Len(d) /\ d[i - 1] = s[i]
      BY <1>2, <1>7, <2>2
    <3> QED
      BY <1>6, <3>1
  <2> QED
    BY <2>1, <2>2
<1>10. s = <<Head(s)>> \o Tail(s)
  <2>1. <<s[1]>> \in Seq(S) /\ Len(<<s[1]>>) = 1
    BY <1>2
  <2>2. PICK c \in Seq(S) : c = <<s[1]>> \o d
    BY <1>5, <2>1, ConcatProperties
  <2>3. /\ Len(c) = 1 + Len(d) /\ c[1] = s[1]
        /\ \A i \in 2 .. Len(c) : c[i] = d[i - 1]
    <3>1. /\ Len(c) = 1 + Len(d)
          /\ \A i \in 1 .. Len(c) : c[i] = IF i <= 1 THEN <<s[1]>>[i] ELSE d[i - 1]
      BY <1>5, <2>1, <2>2, ConcatProperties
    <3> QED
      BY <1>5, <3>1
  <2>4. \A i \in 1 .. Len(s) : s[i] = c[i]
    <3> SUFFICES ASSUME NEW i \in 1 .. Len(s) PROVE s[i] = c[i]
      OBVIOUS
    <3>1. CASE i = 1
      BY <2>3, <3>1
    <3>2. CASE i # 1
      <4>1. i - 1 \in 1 .. Len(s) - 1 /\ i \in 2 .. Len(c)
        BY <1>2, <1>7, <2>3, <3>2
      <4> QED
        BY <1>2, <1>7, <2>3, <4>1
    <3> QED
      BY <3>1, <3>2
  <2>5. Len(c) = Len(s)
    BY <1>2, <1>7, <2>3
  <2> QED
    BY <1>1, <1>3, <1>5, <2>2, <2>4, <2>5, SeqEqual
<1> QED
  BY <1>2, <1>3, <1>4, <1>5, <1>8, <1>9, <1>10

-----------------------------------------------------------------------------
(* What an update of the checkpoint does to its phase and its rows.        *)
LEMMA MergedPhase ==
  ASSUME TargetInv, NEW state, NEW fields, EntryHolds(state), SaveHolds(fields, {})
  PROVE  LET new == Merge(state, fields)
         IN  /\ new # NoState
             /\ new.phase = (IF "phase" \in DOMAIN fields THEN fields.phase
                             ELSE IF state = NoState THEN "history" ELSE state.phase)
             /\ new.rows = (IF "rows" \in DOMAIN fields THEN fields.rows
                            ELSE IF state = NoState THEN 0 ELSE state.rows)
             /\ new.arts = (IF "arts" \in DOMAIN fields THEN fields.arts
                            ELSE IF state = NoState THEN 0 ELSE state.arts)
<1>1. Merge(state, fields) \in Entry
  BY MergeHolds
<1>2. Merge(state, fields) # NoState
  BY <1>1, EntryIsThere
<1>3. /\ {"phase", "rows", "arts"} \subseteq DOMAIN Fresh
      /\ Fresh.phase = "history" /\ Fresh.rows = 0 /\ Fresh.arts = 0
  BY DEF Fresh
<1>4. PICK new : new = Merge(state, fields)
  OBVIOUS
<1>5. \A f \in DOMAIN Fresh : new[f] = Updated(state, fields, f)
  BY <1>4, MergedFields
<1>6. /\ new["phase"] = Updated(state, fields, "phase")
      /\ new["rows"] = Updated(state, fields, "rows")
      /\ new["arts"] = Updated(state, fields, "arts")
  BY <1>3, <1>5
<1> QED
  BY <1>2, <1>3, <1>4, <1>6 DEF Updated

-----------------------------------------------------------------------------
(* The steps that end an attempt.  What they leave in the checkpoint.      *)
KeepsPlace ==
  \/ ckpt' = ckpt
  \/ /\ ckpt' # NoState
     /\ ckpt'.phase = (IF ckpt = NoState THEN "history" ELSE ckpt.phase)
     /\ ckpt'.rows = (IF ckpt = NoState THEN 0 ELSE ckpt.rows)

(* The note that an attempt was given up changes neither claims nor        *)
(* places.                                                                 *)
LEMMA AbortKeeps ==
  ASSUME ImportInv, ckpt' = Merge(Persisted(ckpt), [complete |-> FALSE])
  PROVE  EntryHolds(ckpt') /\ KeepsPlace
<1>1. TargetInv /\ EntryHolds(ckpt)
  BY DEF ImportInv, ClaimsInv
<1>2. SaveHolds([complete |-> FALSE], {}) /\ DOMAIN [complete |-> FALSE] = {"complete"}
  <2>1. DOMAIN [complete |-> FALSE] = {"complete"} /\ [complete |-> FALSE].complete = FALSE
    OBVIOUS
  <2> QED
    BY <2>1, <1>1, FreshHolds DEF SaveHolds, FieldNames
<1>3. EntryHolds(Persisted(ckpt))
      /\ \/ Persisted(ckpt) = ckpt
         \/ /\ Persisted(ckpt) # NoState
            /\ Persisted(ckpt).phase = (IF ckpt = NoState THEN "history" ELSE ckpt.phase)
            /\ Persisted(ckpt).rows = (IF ckpt = NoState THEN 0 ELSE ckpt.rows)
  <2>1. CASE include /\ pc \in {"history", "drain"} /\ committed # mem.media
    <3>1. committed \in 0 .. Len(rows) /\ MediaHeld(committed)
      BY <2>1 DEF ImportInv, MediaInv, Working, Scanning
    <3>2. DOMAIN [media |-> committed] = {"media"} /\ [media |-> committed].media = committed
      OBVIOUS
    <3>3. SaveHolds([media |-> committed], {})
      BY <1>1, <3>1, <3>2, FreshHolds DEF SaveHolds, FieldNames
    <3>4. Persisted(ckpt) = Merge(ckpt, [media |-> committed])
      BY <2>1 DEF Persisted
    <3> QED
      BY <1>1, <3>2, <3>3, <3>4, MergeHolds, MergedPhase
  <2>2. CASE ~(include /\ pc \in {"history", "drain"} /\ committed # mem.media)
    BY <1>1, <2>2 DEF Persisted
  <2> QED
    BY <2>1, <2>2
<1>4. PICK state : state = Persisted(ckpt)
  OBVIOUS
<1>5. /\ EntryHolds(state) /\ ckpt' = Merge(state, [complete |-> FALSE])
      /\ \/ state = ckpt
         \/ /\ state # NoState
            /\ state.phase = (IF ckpt = NoState THEN "history" ELSE ckpt.phase)
            /\ state.rows = (IF ckpt = NoState THEN 0 ELSE ckpt.rows)
  BY <1>3, <1>4
<1>6. EntryHolds(ckpt') /\ ckpt' # NoState
      /\ ckpt'.phase = (IF state = NoState THEN "history" ELSE state.phase)
      /\ ckpt'.rows = (IF state = NoState THEN 0 ELSE state.rows)
  BY <1>1, <1>2, <1>5, MergeHolds, MergedPhase
<1> QED
  BY <1>5, <1>6 DEF KeepsPlace

(* An attempt that ends leaves nothing behind but its checkpoint.          *)
LEMMA LeaveKeeps ==
  ASSUME ImportInv, Leave, Local, EntryHolds(ckpt'), KeepsPlace, lost' = lost,
         late' = late \/ (late = <<>> /\ todo # <<>> /\ late' = <<Head(todo)>>)
  PROVE  ImportInv'
<1>1. /\ TargetInv /\ ClaimsInv /\ PlaceInv /\ LocalsInv /\ MediaInv /\ ArtifactInv
      /\ SyncInv /\ RecoverInv
  BY DEF ImportInv
<1>2. TargetInv' /\ Grows
  BY <1>1, LocalGrows
<1>3. /\ pc' = "idle" /\ todo' = <<>> /\ mem' = NoState /\ pending' = <<>>
      /\ ToSet(todo') = {}
  BY FollowOne DEF Leave
<1>4. todo # <<>> => Head(todo) \in ToSet(todo) /\ TaskHolds(Head(todo), {})
  <2> SUFFICES ASSUME todo # <<>> PROVE Head(todo) \in ToSet(todo) /\ TaskHolds(Head(todo), {})
    OBVIOUS
  <2>1. /\ Head(todo) = todo[1] /\ Head(todo) \in ToSet(todo) /\ Len(todo) \in Nat
        /\ Len(todo) >= 1
    BY <1>1, HeadAndTail DEF ClaimsInv
  <2>2. 1 \in 1 .. Len(todo)
    BY <2>1
  <2>3. TaskHolds(todo[1], {} \union Before(todo, 1))
    BY <1>1, <2>2 DEF ClaimsInv, Follow
  <2>4. {} \union Before(todo, 1) = {}
    BY DEF Before
  <2> QED
    BY <2>1, <2>3, <2>4
<1>5. ClaimsInv'
  <2>1. LateHolds(late')
    <3>1. LateHolds(late)
      BY <1>1 DEF ClaimsInv, LateHolds
    <3>2. CASE late' = late
      BY <3>1, <3>2
    <3>3. CASE late' = <<Head(todo)>> /\ todo # <<>>
      BY <1>4, <3>3 DEF LateHolds
    <3> QED
      BY <3>2, <3>3
  <2>2. EntryHolds(mem')
    BY <1>3 DEF EntryHolds
  <2> QED
    BY <1>1, <1>2, <1>3, <2>1, <2>2, ClaimsAfter, FollowOne
<1>6. PlaceInv'
  BY <1>3 DEF PlaceInv, Working, Scanning, Later
<1>7. LocalsInv'
  BY <1>3 DEF LocalsInv, Working, Scanning, Later
<1>8. MediaInv' /\ ArtifactInv'
  BY <1>3 DEF MediaInv, ArtifactInv, Working, Scanning, Later
<1>9. UNCHANGED <<runState, config, summary, rows, include>> /\ Expected' = Expected
      /\ Len(rows') = Len(rows)
  <2>1. UNCHANGED <<runState, config, summary, rows, include>>
    BY DEF Local, target, serverVars
  <2> QED
    BY <2>1, SourceStays DEF Expected
<1>10. /\ LateSave' <=> LateSave
       /\ Len(late') = 1 /\ FinishTask(late'[1]) =>
            \/ late' = late
            \/ Head(todo) \in ToSet(todo) /\ FinishTask(Head(todo)) /\ late'[1] = Head(todo)
  <2>1. CASE late' = late
    BY <2>1 DEF LateSave
  <2>2. CASE late = <<>> /\ late' = <<Head(todo)>> /\ todo # <<>>
    <3>1. Len(late') = 1 /\ late'[1] = Head(todo) /\ Len(late) = 0
      BY <2>2
    <3> QED
      BY <1>4, <3>1 DEF LateSave
  <2> QED
    BY <2>1, <2>2
<1>11. SyncInv'
  <2> SUFFICES ASSUME ~LateSave PROVE
        /\ ckpt' # NoState /\ ckpt'.phase # "history" => ckpt'.rows = Len(rows)
        /\ runState = "finished" => summary = Expected
        /\ Len(late') = 1 /\ FinishTask(late'[1]) => late'[1].arg = Expected
    BY <1>3, <1>9, <1>10 DEF SyncInv, Later, FinishTask
  <2>1. ckpt' # NoState /\ ckpt'.phase # "history" => ckpt'.rows = Len(rows)
    BY <1>1 DEF SyncInv, KeepsPlace
  <2> QED
    BY <1>1, <1>10, <2>1 DEF SyncInv
<1>12. RecoverInv'
  <2> SUFFICES ASSUME ~LateSave, ~lost, Concluding'
      PROVE  ckpt' # NoState /\ ckpt'.phase \in Concluded
    BY <1>3, <1>10 DEF RecoverInv, Concluded
  <2>1. Concluding
    BY <1>3, <1>9, <1>10 DEF Concluding, FinishTask
  <2>2. ckpt # NoState /\ ckpt.phase \in Concluded
    BY <1>1, <2>1 DEF RecoverInv
  <2> QED
    BY <2>2 DEF KeepsPlace
<1> QED
  BY <1>2, <1>5, <1>6, <1>7, <1>8, <1>11, <1>12 DEF ImportInv

(* The ways an attempt ends keep the invariant.                            *)
LEMMA LeavingKeeps ==
  ASSUME ImportInv, EndAttempt \/ Refuse \/ Fail \/ Kill \/ Interrupt
  PROVE  ImportInv'
<1>1. ClaimsInv
  BY DEF ImportInv
<1>2. ASSUME ckpt' = ckpt PROVE EntryHolds(ckpt') /\ KeepsPlace
  BY <1>1, <1>2 DEF ClaimsInv, KeepsPlace
<1>3. CASE EndAttempt
  BY <1>2, <1>3, LeaveKeeps DEF EndAttempt, Local, world
<1>4. CASE Refuse
  BY <1>4, AbortKeeps, LeaveKeeps DEF Refuse, Abort, Local, world
<1>5. CASE Fail
  BY <1>5, AbortKeeps, LeaveKeeps DEF Fail, Abort, Local
<1>6. CASE Kill
  BY <1>2, <1>6, LeaveKeeps DEF Kill, Local
<1>7. CASE Interrupt
  BY <1>2, <1>7, LeaveKeeps DEF Interrupt, Local
<1> QED
  BY <1>3, <1>4, <1>5, <1>6, <1>7

-----------------------------------------------------------------------------
(* What a task does to the target's state and to the checkpoint.           *)
LEMMA EffectOn ==
  ASSUME TargetInv, NEW t, Effect(t), EntryHolds(ckpt), TaskHolds(t, {})
  PROVE  /\ t.op = "save" => ckpt' = Merge(ckpt, t.arg) /\ SaveHolds(t.arg, {})
         /\ t.op # "save" => ckpt' = ckpt
         /\ EntryHolds(ckpt')
         /\ t.op = "create" => runState = "absent" /\ runState' = "running" /\ config' = t.arg
         /\ t.op # "create" => config' = config
         /\ t.op # "finish" => summary' = summary /\ (runState' = "finished" => runState = "finished")
         /\ t.op = "finish" => summary' = t.arg /\ runState # "absent"
         /\ t.op \in {"save", "create", "ingest", "shard", "finish"}
<1>1. CASE SaveCheckpoint(t)
  <2>1. t.op = "save" /\ SaveHolds(t.arg, {}) /\ ckpt' = Merge(ckpt, t.arg)
        /\ UNCHANGED <<config, summary, runState>>
    BY <1>1 DEF SaveCheckpoint, TaskHolds, target, serverVars
  <2> QED
    BY <2>1, MergeHolds
<1>2. CASE CreateTarget(t)
  BY <1>2 DEF CreateTarget, EntryHolds
<1>3. CASE CommitBatch(t)
  BY <1>3 DEF CommitBatch, EntryHolds, AcceptBatch, AnswerDuplicate, serverVars
<1>4. CASE ImportShard(t)
  BY <1>4 DEF ImportShard, EntryHolds, serverVars
<1>5. CASE FinishTarget(t)
  BY <1>5 DEF FinishTarget, EntryHolds, FinishRun
<1> QED
  BY <1>1, <1>2, <1>3, <1>4, <1>5 DEF Effect

(* A request to finish is only made of a target that is there.             *)
LEMMA FinishOfTarget ==
  ASSUME ClaimsInv, NEW t \in ToSet(todo), FinishTask(t) PROVE runState # "absent"
<1>1. PICK S : todo \in Seq(S)
  BY DEF ClaimsInv, IsSequence
<1>2. PICK i \in 1 .. Len(todo) : t = todo[i]
  BY <1>1 DEF ToSet
<1>3. TaskHolds(todo[i], {} \union Before(todo, i))
  BY DEF ClaimsInv, Follow
<1> QED
  BY <1>2, <1>3 DEF TaskHolds, FinishTask

(* A task of the worker.                                                   *)
LEMMA TaskKeeps ==
  ASSUME ImportInv, Task PROVE ImportInv'
<1>1. /\ TargetInv /\ ClaimsInv /\ PlaceInv /\ LocalsInv /\ MediaInv /\ ArtifactInv
      /\ SyncInv /\ RecoverInv
  BY DEF ImportInv
<1>2. PICK t : t = Head(todo)
  OBVIOUS
<1>3. /\ todo # <<>> /\ Effect(t) /\ todo' = Tail(todo)
      /\ mem' = (IF t.op = "save" THEN Merge(mem, t.arg) ELSE mem)
      /\ UNCHANGED <<rows, include, revision, late, faults, lost, pc, seen, h, occ, pending,
                     committed, closed>>
  BY <1>2 DEF Task, world, pipeline
<1>4. /\ TargetInv' /\ Grows /\ TaskHolds(t, {})
      /\ IsSequence(todo') /\ Follow(todo, {})'
      /\ \A s : Boundary(s, ToSet(todo)) => Boundary(s, ToSet(todo))'
  <2>1. PICK r : r = todo
    OBVIOUS
  <2>2. r # <<>> /\ IsSequence(r) /\ Follow(r, {}) /\ Effect(Head(r)) /\ Untouched
    BY <1>1, <1>2, <1>3, <2>1 DEF ClaimsInv, Untouched
  <2>3. PICK d : d = Tail(r)
    OBVIOUS
  <2>4. /\ TargetInv' /\ Grows /\ TaskHolds(Head(r), {})
        /\ IsSequence(Tail(r)) /\ Follow(Tail(r), {})'
        /\ \A s : Boundary(s, ToSet(r)) => Boundary(s, ToSet(Tail(r)))'
    BY <1>1, <2>2, TailFollows
  <2>5. /\ IsSequence(d) /\ Follow(d, {})'
        /\ \A s : Boundary(s, ToSet(r)) => Boundary(s, ToSet(d))'
    BY <2>3, <2>4
  <2>6. todo' = d /\ t = Head(r)
    BY <1>2, <1>3, <2>1, <2>3
  <2>7. Follow(todo, {})'
    BY <2>5, <2>6 DEF Follow, Before
  <2>8. \A s : Boundary(s, ToSet(todo)) => Boundary(s, ToSet(todo))'
    BY <2>1, <2>5, <2>6 DEF Boundary, ToSet
  <2> QED
    BY <2>4, <2>5, <2>6, <2>7, <2>8
<1>5. /\ t \in ToSet(todo) /\ ToSet(todo') \subseteq ToSet(todo)
      /\ \A u \in ToSet(todo) : u = t \/ u \in ToSet(todo')
  BY <1>1, <1>2, <1>3, HeadAndTail DEF ClaimsInv
<1>6. /\ EntryHolds(ckpt) /\ EntryHolds(mem)
      /\ t.op = "save" => ckpt' = Merge(ckpt, t.arg) /\ SaveHolds(t.arg, {})
      /\ t.op # "save" => ckpt' = ckpt
      /\ EntryHolds(ckpt')
      /\ t.op = "create" => runState = "absent" /\ runState' = "running" /\ config' = t.arg
      /\ t.op # "create" => config' = config
      /\ t.op # "finish" => summary' = summary /\ (runState' = "finished" => runState = "finished")
      /\ t.op = "finish" => summary' = t.arg /\ runState # "absent"
  BY <1>1, <1>3, <1>4, EffectOn DEF ClaimsInv
<1>7. /\ EntryHolds(mem')
      /\ t.op # "save" => mem' = mem
      /\ t.op = "save" =>
           /\ mem' # NoState
           /\ mem'.phase = (IF "phase" \in DOMAIN t.arg THEN t.arg.phase
                            ELSE IF mem = NoState THEN "history" ELSE mem.phase)
           /\ mem'.arts = (IF "arts" \in DOMAIN t.arg THEN t.arg.arts
                           ELSE IF mem = NoState THEN 0 ELSE mem.arts)
  <2>1. CASE t.op = "save"
    BY <1>1, <1>3, <1>6, <2>1, MergeHolds, MergedPhase
  <2>2. CASE t.op # "save"
    BY <1>3, <1>6, <2>2
  <2> QED
    BY <2>1, <2>2
<1>8. /\ rows' = rows /\ include' = include /\ Len(rows) \in Nat
      /\ runState # "absent" => runState' # "absent" /\ config' = config
  BY <1>1, <1>4 DEF Grows, TargetInv
<1>9. ClaimsInv'
  <2>1. EntryHolds(ckpt)' /\ EntryHolds(mem)'
    <3>1. PICK c, m : c = ckpt' /\ m = mem'
      OBVIOUS
    <3>2. EntryHolds(c)' /\ EntryHolds(m)'
      BY <1>1, <1>4, <1>6, <1>7, <3>1, EntryStays
    <3> QED
      BY <3>1, <3>2 DEF EntryHolds
  <2>2. LateHolds(late)'
    <3>1. CASE late = <<>> \/ \E u : late = <<u, u>>
      BY <1>3, <3>1 DEF LateHolds
    <3>2. CASE \E u : late = <<u>> /\ TaskHolds(u, {})
      <4>1. PICK u : late = <<u>> /\ TaskHolds(u, {})
        BY <3>2
      <4>2. TaskHolds(u, {})'
        BY <1>1, <1>4, <4>1, TaskStays DEF TargetInv, SourceTyped
      <4> QED
        BY <1>3, <4>1, <4>2 DEF LateHolds
    <3> QED
      BY <1>1, <3>1, <3>2 DEF ClaimsInv
  <2> QED
    BY <1>4, <2>1, <2>2 DEF ClaimsInv, LateHolds
<1>10. PlaceInv'
  <2>1. pc \notin {"idle", "target"}
    BY <1>1, <1>3 DEF PlaceInv
  <2>2. pc = "refresh" => todo' = <<>> /\ t.op = "save"
    <3> SUFFICES ASSUME pc = "refresh" PROVE todo' = <<>> /\ t.op = "save"
      OBVIOUS
    <3>1. todo = Save([phase |-> "history"])
      BY <1>1, <1>3 DEF PlaceInv
    <3>2. PICK x : x = [op |-> "save", arg |-> [phase |-> "history"]]
      OBVIOUS
    <3>3. todo = <<x>> /\ x.op = "save"
      BY <3>1, <3>2 DEF Save
    <3>4. Tail(<<x>>) = <<>> /\ Head(<<x>>) = x
      OBVIOUS
    <3> QED
      BY <1>2, <1>3, <3>3, <3>4
  <2>3. mem' # NoState
    BY <1>1, <1>7, <2>1, <2>2 DEF PlaceInv
  <2>4. pc \in Scanning => mem'.phase = "history" /\ \A u \in ToSet(todo') : ~PhaseSave(u)
    <3> SUFFICES ASSUME pc \in Scanning
        PROVE  mem'.phase = "history" /\ \A u \in ToSet(todo') : ~PhaseSave(u)
      OBVIOUS
    <3>1. mem.phase = "history" /\ ~PhaseSave(t) /\ \A u \in ToSet(todo') : ~PhaseSave(u)
      BY <1>1, <1>5 DEF PlaceInv
    <3>2. mem'.phase = "history"
      BY <1>7, <3>1 DEF PhaseSave
    <3> QED
      BY <3>1, <3>2
  <2>5. pc \in Later =>
          /\ \A u \in ToSet(todo') : PhaseSave(u) => u.arg.phase = pc
          /\ mem'.phase = pc \/ \E u \in ToSet(todo') : PhaseSave(u)
    <3> SUFFICES ASSUME pc \in Later
        PROVE  /\ \A u \in ToSet(todo') : PhaseSave(u) => u.arg.phase = pc
               /\ mem'.phase = pc \/ \E u \in ToSet(todo') : PhaseSave(u)
      OBVIOUS
    <3>1. /\ \A u \in ToSet(todo) : PhaseSave(u) => u.arg.phase = pc
          /\ mem.phase = pc \/ \E u \in ToSet(todo) : PhaseSave(u)
          /\ mem # NoState
      BY <1>1 DEF PlaceInv, Later
    <3>2. CASE PhaseSave(t)
      BY <1>5, <1>7, <3>1, <3>2 DEF PhaseSave
    <3>3. CASE ~PhaseSave(t)
      <4>1. mem'.phase = mem.phase
        BY <1>7, <3>1, <3>3 DEF PhaseSave
      <4> QED
        BY <1>5, <3>1, <3>3, <4>1
    <3> QED
      BY <3>2, <3>3
  <2>6. /\ \A u \in ToSet(todo') : FinishTask(u) => pc = "end"
        /\ pc = "end" => \A u \in ToSet(todo') : u.op \in {"save", "finish"}
        /\ FinishTask(t) => pc = "end"
    BY <1>1, <1>5 DEF PlaceInv
  <2>7. Working =>
          /\ seen \in 1 .. revision
          /\ runState' # "absent" /\ config' = seen
          /\ runState' = "finished" => LateFinish
    <3> SUFFICES ASSUME Working
        PROVE  /\ seen \in 1 .. revision
               /\ runState' # "absent" /\ config' = seen
               /\ runState' = "finished" => LateFinish
      OBVIOUS
    <3>1. /\ seen \in 1 .. revision
          /\ \/ runState # "absent" /\ config = seen
             \/ t.op = "create" /\ t.arg = seen
          /\ runState = "finished" => LateFinish
      BY <1>1, <1>2 DEF PlaceInv
    <3>2. t.op # "finish"
      BY <2>6 DEF FinishTask, Working, Scanning, Later
    <3>3. runState' # "absent" /\ config' = seen
      BY <1>6, <1>8, <3>1
    <3> QED
      BY <1>6, <3>1, <3>2, <3>3
  <2>8. LateFinish' <=> LateFinish
    BY <1>3 DEF LateFinish
  <2>9. /\ pc \in {"idle", "refresh", "target", "end"} \union Scanning \union Later
        /\ Scanning' = Scanning /\ Later' = Later /\ (Working' <=> Working)
    BY <1>1, <1>3 DEF PlaceInv, Scanning, Later, Working
  <2>10. /\ \A u : PhaseSave(u)' <=> PhaseSave(u)
         /\ \A u : FinishTask(u)' <=> FinishTask(u)
    BY DEF PhaseSave, FinishTask
  <2>11. PICK d : d = ToSet(todo')
    OBVIOUS
  <2>12. d = ToSet(todo)'
    BY <2>11 DEF ToSet
  <2> QED
    BY <1>3, <2>1, <2>2, <2>3, <2>4, <2>5, <2>6, <2>7, <2>8, <2>9, <2>10, <2>11, <2>12
       DEF PlaceInv
<1>11. LocalsInv'
  <2>1. Scanning' = Scanning /\ Later' = Later /\ (Working' <=> Working)
    BY <1>3 DEF Scanning, Later, Working
  <2> SUFFICES ASSUME Working
      PROVE  /\ LocalsHold(h, ToSet(todo))'
             /\ h.scanned \in 0 .. h.end
             /\ h.scanned < h.end \/ pc # "history" => h.rows = h.end
             /\ h.batch # <<>> => runState' # "absent"
             /\ pc = "history" => Len(h.batch) < BatchSize
             /\ pc = "drain" => h.rows = Len(rows)
    BY <1>3, <2>1 DEF LocalsInv
  <2>2. /\ LocalsHold(h, ToSet(todo))
        /\ h.batch # <<>> => runState # "absent"
        /\ h.scanned \in 0 .. h.end
        /\ h.scanned < h.end \/ pc # "history" => h.rows = h.end
        /\ pc = "history" => Len(h.batch) < BatchSize
        /\ pc = "drain" => h.rows = Len(rows)
    BY <1>1 DEF LocalsInv
  <2>3. PICK p, all : p = h /\ all = ToSet(todo)
    OBVIOUS
  <2>4. LocalsHold(p, all)'
    BY <1>1, <1>4, <2>2, <2>3, LocalsStay
  <2>5. LocalsHold(h, ToSet(todo))'
    <3>2. Boundary(h.seq, ToSet(todo))'
      BY <1>3, <1>4, <2>2 DEF LocalsHold
    <3>3. h' = p
      BY <1>3, <2>3
    <3> QED
      BY <2>4, <3>2, <3>3 DEF LocalsHold, Locals, HistoryPoint
  <2> QED
    BY <1>8, <2>2, <2>5
<1>12. MediaInv'
  <2>1. Scanning' = Scanning /\ Later' = Later /\ (Working' <=> Working)
        /\ (HistoryPipelined' <=> HistoryPipelined)
    BY <1>3, <1>8 DEF Scanning, Later, Working, HistoryPipelined
  <2>2. media \subseteq media' /\ \A n : MediaHeld(n) => MediaHeld(n)'
    BY <1>4, HeldStays DEF Grows
  <2>3. \A n, o : Stands(pending, n, o) => Stands(pending, n, o)'
    BY <1>3, <2>2 DEF Stands
  <2>4. Working => MediaHeld(committed)'
    BY <1>1, <1>3, <2>2 DEF MediaInv, MediaHeld
  <2> QED
    BY <1>1, <1>3, <1>8, <2>1, <2>2, <2>3, <2>4 DEF MediaInv, PendingTransfer
<1>13. ArtifactInv'
  <2>1. artifacts \subseteq artifacts'
    BY <1>4 DEF Grows
  <2> SUFFICES ASSUME pc = "logged_artifacts", pending # <<>>
      PROVE  todo' = <<>> /\ pending[1].key = mem'.arts + 1
    BY <1>1, <1>3, <2>1 DEF ArtifactInv
  <2>2. todo = Save([arts |-> pending[1].key - 1])
    BY <1>1, <1>3 DEF ArtifactInv
  <2>3. PICK k, fields, x : /\ k = pending[1].key - 1 /\ fields = [arts |-> k]
                            /\ x = [op |-> "save", arg |-> fields]
    OBVIOUS
  <2>4. todo = <<x>> /\ x.op = "save" /\ x.arg = fields /\ "arts" \in DOMAIN fields
        /\ fields.arts = k
    BY <2>2, <2>3 DEF Save
  <2>5. Tail(<<x>>) = <<>> /\ Head(<<x>>) = x
    OBVIOUS
  <2>6. todo' = <<>> /\ t = x
    BY <1>2, <1>3, <2>4, <2>5
  <2>7. mem'.arts = k
    BY <1>7, <2>4, <2>6
  <2>8. pending[1].key \in Nat
    <3>1. pending[1] \in PendingTransfer
      BY <1>1 DEF MediaInv
    <3> QED
      BY <3>1 DEF PendingTransfer
  <2> QED
    BY <2>3, <2>6, <2>7, <2>8
<1>14. /\ LateSave' <=> LateSave
       /\ \A u : PhaseSave(u)' <=> PhaseSave(u)
       /\ \A u : FinishTask(u)' <=> FinishTask(u)
       /\ Scanning' = Scanning /\ Later' = Later
       /\ ToSet(todo)' = ToSet(todo')
  BY <1>3 DEF LateSave, PhaseSave, FinishTask, Scanning, Later, ToSet
<1>15. Len(late) = 1 /\ FinishTask(late[1]) => runState # "absent"
  <2> SUFFICES ASSUME Len(late) = 1, FinishTask(late[1]) PROVE runState # "absent"
    OBVIOUS
  <2>1. PICK u : late = <<u>> /\ TaskHolds(u, {})
    BY <1>1 DEF ClaimsInv
  <2> QED
    BY <2>1 DEF TaskHolds, FinishTask
<1>16. SyncInv'
  <2> SUFFICES ASSUME ~LateSave
      PROVE  /\ mem' = ckpt'
             /\ ckpt' # NoState /\ ckpt'.phase # "history" => ckpt'.rows = Len(rows)
             /\ pc \in Later => h.rows = Len(rows)
             /\ \A u \in ToSet(todo') :
                  u.op = "save" =>
                    /\ pc \notin Scanning /\ "rows" \in DOMAIN u.arg => u.arg.rows = Len(rows)
                    /\ PhaseSave(u) /\ u.arg.phase # "history" =>
                         "rows" \in DOMAIN u.arg \/ (ckpt' # NoState /\ ckpt'.rows = Len(rows))
             /\ runState' = "finished" => summary' = Expected'
             /\ \A u \in ToSet(todo') : FinishTask(u) => u.arg = Expected'
             /\ Len(late) = 1 /\ FinishTask(late[1]) => late[1].arg = Expected'
    BY <1>3, <1>8, <1>14 DEF SyncInv
  <2>1. /\ pc # "idle" => mem = ckpt
        /\ ckpt # NoState /\ ckpt.phase # "history" => ckpt.rows = Len(rows)
        /\ pc \in Later => h.rows = Len(rows)
        /\ \A u \in ToSet(todo) :
             u.op = "save" =>
               /\ pc \notin Scanning /\ "rows" \in DOMAIN u.arg => u.arg.rows = Len(rows)
               /\ PhaseSave(u) /\ u.arg.phase # "history" =>
                    "rows" \in DOMAIN u.arg \/ (ckpt # NoState /\ ckpt.rows = Len(rows))
        /\ runState = "finished" => summary = Expected
        /\ \A u \in ToSet(todo) : FinishTask(u) => u.arg = Expected
        /\ Len(late) = 1 /\ FinishTask(late[1]) => late[1].arg = Expected
    BY <1>1 DEF SyncInv
  <2>2. pc # "idle" /\ mem = ckpt
    BY <1>1, <1>3, <2>1 DEF PlaceInv
  <2>3. mem' = ckpt'
    BY <1>3, <1>6, <2>2
  <2>4. pc \in Scanning => ~PhaseSave(t) /\ mem.phase = "history" /\ mem # NoState
                           /\ \A u \in ToSet(todo) : ~PhaseSave(u)
    BY <1>1, <1>3, <1>5, <2>2 DEF PlaceInv, Scanning
  <2>5. t.op = "save" =>
          /\ ckpt' # NoState
          /\ ckpt'.phase = (IF "phase" \in DOMAIN t.arg THEN t.arg.phase
                            ELSE IF ckpt = NoState THEN "history" ELSE ckpt.phase)
          /\ ckpt'.rows = (IF "rows" \in DOMAIN t.arg THEN t.arg.rows
                           ELSE IF ckpt = NoState THEN 0 ELSE ckpt.rows)
    BY <1>1, <1>6, MergedPhase
  <2>6. t.op = "save" =>
          /\ pc \notin Scanning /\ "rows" \in DOMAIN t.arg => t.arg.rows = Len(rows)
          /\ PhaseSave(t) /\ t.arg.phase # "history" =>
               "rows" \in DOMAIN t.arg \/ (ckpt # NoState /\ ckpt.rows = Len(rows))
    BY <1>5, <2>1
  <2>7. ckpt' # NoState /\ ckpt'.phase # "history" => ckpt'.rows = Len(rows)
    <3>1. CASE t.op # "save"
      BY <1>6, <2>1, <3>1
    <3>2. CASE t.op = "save" /\ PhaseSave(t)
      <4>1. pc \notin Scanning /\ "phase" \in DOMAIN t.arg
        BY <2>4, <3>2 DEF PhaseSave
      <4> QED
        BY <2>5, <2>6, <3>2, <4>1
    <3>3. CASE t.op = "save" /\ ~PhaseSave(t)
      <4>1. "phase" \notin DOMAIN t.arg
        BY <3>3 DEF PhaseSave
      <4> QED
        BY <2>1, <2>2, <2>4, <2>5, <2>6, <3>3, <4>1
    <3> QED
      BY <3>1, <3>2, <3>3
  <2>8. ASSUME NEW u \in ToSet(todo'), u.op = "save"
        PROVE  /\ pc \notin Scanning /\ "rows" \in DOMAIN u.arg => u.arg.rows = Len(rows)
               /\ PhaseSave(u) /\ u.arg.phase # "history" =>
                    "rows" \in DOMAIN u.arg \/ (ckpt' # NoState /\ ckpt'.rows = Len(rows))
    <3>1. u \in ToSet(todo)
      BY <1>5
    <3>2. /\ pc \notin Scanning /\ "rows" \in DOMAIN u.arg => u.arg.rows = Len(rows)
          /\ PhaseSave(u) /\ u.arg.phase # "history" =>
               "rows" \in DOMAIN u.arg \/ (ckpt # NoState /\ ckpt.rows = Len(rows))
      BY <2>1, <2>8, <3>1
    <3>3. PhaseSave(u) => pc \notin Scanning
      BY <2>4, <3>1
    <3>4. ckpt # NoState /\ ckpt.rows = Len(rows) /\ pc \notin Scanning =>
            ckpt' # NoState /\ ckpt'.rows = Len(rows)
      BY <1>6, <2>5, <2>6
    <3> QED
      BY <3>2, <3>3, <3>4
  <2>9. t.op # "create" => Expected' = Expected
    <3>1. SkippedThrough(Len(rows))' = SkippedThrough(Len(rows))
      <4>1. PICK n : n = Len(rows)
        OBVIOUS
      <4>2. SkippedThrough(n)' = SkippedThrough(n)
        BY <1>8, SourceStays
      <4> QED
        BY <1>8, <4>1, <4>2 DEF SkippedThrough, Skipped
    <3> QED
      BY <1>6, <3>1 DEF Expected
  <2>10. CASE t.op = "create"
    <3>1. runState = "absent" /\ runState' = "running"
      BY <1>6, <2>10
    <3>2. \A u \in ToSet(todo') : ~FinishTask(u)
      BY <1>1, <1>5, <3>1, FinishOfTarget
    <3>3. ~(Len(late) = 1 /\ FinishTask(late[1]))
      BY <1>15, <3>1
    <3> QED
      BY <2>1, <2>3, <2>7, <2>8, <3>1, <3>2, <3>3
  <2>11. CASE t.op # "create"
    <3>1. runState' = "finished" => summary' = Expected
      BY <1>5, <1>6, <2>1 DEF FinishTask
    <3> QED
      BY <1>5, <2>1, <2>3, <2>7, <2>8, <2>9, <2>11, <3>1
  <2> QED
    BY <2>10, <2>11
<1>17. RecoverInv'
  <2> SUFFICES ASSUME ~LateSave, ~lost, Concluding'
      PROVE  /\ ckpt' # NoState /\ ckpt'.phase \in Concluded
             /\ pc \in {"idle", "refresh", "target", "finalize", "end"}
             /\ \A u \in ToSet(todo') : PhaseSave(u) => u.arg.phase \in Concluded
    <3>1. lost' = lost
      BY DEF Task, world
    <3> QED
      BY <1>3, <1>14, <3>1 DEF RecoverInv, Concluded
  <2>1. Concluding
    BY <1>3, <1>5, <1>6, <1>14 DEF Concluding, FinishTask
  <2>2. /\ ckpt # NoState /\ ckpt.phase \in Concluded
        /\ pc \in {"idle", "refresh", "target", "finalize", "end"}
        /\ \A u \in ToSet(todo) : PhaseSave(u) => u.arg.phase \in Concluded
    BY <1>1, <2>1 DEF RecoverInv
  <2>3. ckpt' # NoState /\ ckpt'.phase \in Concluded
    <3>1. CASE t.op # "save"
      BY <1>6, <2>2, <3>1
    <3>2. CASE t.op = "save"
      <4>1. PhaseSave(t) => t.arg.phase \in Concluded
        BY <1>5, <2>2
      <4>2. /\ ckpt' # NoState
            /\ ckpt'.phase = (IF "phase" \in DOMAIN t.arg THEN t.arg.phase
                              ELSE IF ckpt = NoState THEN "history" ELSE ckpt.phase)
        BY <1>1, <1>6, <3>2, MergedPhase
      <4> QED
        BY <2>2, <3>2, <4>1, <4>2 DEF PhaseSave
    <3> QED
      BY <3>1, <3>2
  <2> QED
    BY <1>5, <2>2, <2>3
<1> QED
  BY <1>4, <1>9, <1>10, <1>11, <1>12, <1>13, <1>16, <1>17 DEF ImportInv

-----------------------------------------------------------------------------
(* Steps during which the worker's place, tasks and history rest.          *)
Rests == UNCHANGED <<pc, todo, seen, h, mem>>

(* A step of the service or of a late request, which leaves the worker     *)
(* where it stands, keeps what holds of the worker.                        *)
LEMMA RestKeeps ==
  ASSUME ImportInv, TargetInv', Grows, Rests, EntryHolds(ckpt)', LateHolds(late)',
         Working /\ runState' = "finished" => LateFinish'
  PROVE  ClaimsInv' /\ PlaceInv' /\ LocalsInv'
<1>1. TargetInv /\ ClaimsInv /\ PlaceInv /\ LocalsInv
  BY DEF ImportInv
<1>2. /\ UNCHANGED <<pc, todo, seen, h, mem, rows, include>>
      /\ runState # "absent" => runState' # "absent" /\ config' = config
      /\ revision \in Nat /\ revision' \in Nat /\ revision <= revision'
  BY DEF Rests, Grows
<1>3. /\ \A t : PhaseSave(t)' <=> PhaseSave(t)
      /\ \A t : FinishTask(t)' <=> FinishTask(t)
      /\ Scanning' = Scanning /\ Later' = Later /\ (Working' <=> Working)
  BY <1>2 DEF PhaseSave, FinishTask, Scanning, Later, Working
<1>4. ClaimsInv'
  <2>1. EntryHolds(mem)'
    <3>1. PICK m : m = mem
      OBVIOUS
    <3>2. EntryHolds(m)'
      BY <1>1, <3>1, EntryStays DEF ClaimsInv
    <3> QED
      BY <1>2, <3>1, <3>2 DEF EntryHolds
  <2>2. IsSequence(todo)' /\ Follow(todo, {})'
    <3>1. PICK tasks : tasks = todo
      OBVIOUS
    <3>2. IsSequence(tasks) /\ Follow(tasks, {})'
      BY <1>1, <3>1, FollowStays DEF ClaimsInv
    <3> QED
      BY <1>2, <3>1, <3>2 DEF Follow, Before, IsSequence
  <2> QED
    BY <2>1, <2>2 DEF ClaimsInv, LateHolds
<1>5. PlaceInv'
  <2>1. \A t \in ToSet(todo)' : t \in ToSet(todo)
    BY <1>2
  <2> QED
    BY <1>1, <1>2, <1>3 DEF PlaceInv
<1>6. LocalsInv'
  <2> SUFFICES ASSUME Working
      PROVE  /\ LocalsHold(h, ToSet(todo))'
             /\ h.scanned \in 0 .. h.end
             /\ h.scanned < h.end \/ pc # "history" => h.rows = h.end
             /\ h.batch # <<>> => runState' # "absent"
             /\ pc = "history" => Len(h.batch) < BatchSize
             /\ pc = "drain" => h.rows = Len(rows)
    BY <1>2, <1>3 DEF LocalsInv
  <2>1. /\ LocalsHold(h, ToSet(todo))
        /\ h.batch # <<>> => runState # "absent"
        /\ h.scanned \in 0 .. h.end
        /\ h.scanned < h.end \/ pc # "history" => h.rows = h.end
        /\ pc = "history" => Len(h.batch) < BatchSize
        /\ pc = "drain" => h.rows = Len(rows)
    BY <1>1 DEF LocalsInv
  <2>2. PICK p, all : p = h /\ all = ToSet(todo)
    OBVIOUS
  <2>3. LocalsHold(p, all)'
    BY <1>1, <2>1, <2>2, LocalsStay
  <2>4. h' = p /\ ToSet(todo)' = all
    BY <1>2, <2>2
  <2>5. LocalsHold(h, ToSet(todo))'
    BY <2>3, <2>4 DEF LocalsHold, Boundary
  <2> QED
    BY <1>2, <2>1, <2>5
<1> QED
  BY <1>4, <1>5, <1>6

(* ... and its transfers too.                                              *)
LEMMA PipelineRestKeeps ==
  ASSUME ImportInv, Grows, Rests, UNCHANGED pipeline
  PROVE  MediaInv' /\ ArtifactInv'
<1>1. MediaInv /\ ArtifactInv
  BY DEF ImportInv
<1>2. /\ UNCHANGED <<pc, todo, seen, h, mem, rows, include, occ, pending, committed, closed>>
      /\ media \subseteq media' /\ artifacts \subseteq artifacts'
  BY DEF Rests, Grows, pipeline
<1>3. Scanning' = Scanning /\ Later' = Later /\ (Working' <=> Working)
      /\ (HistoryPipelined' <=> HistoryPipelined)
  BY <1>2 DEF Scanning, Later, Working, HistoryPipelined
<1>4. \A n, o : Stands(pending, n, o) => Stands(pending, n, o)'
  BY <1>2 DEF Stands
<1>5. Working => MediaHeld(committed)'
  BY <1>1, <1>2, HeldStays DEF MediaInv, MediaHeld
<1> QED
  BY <1>1, <1>2, <1>3, <1>4, <1>5 DEF MediaInv, PendingTransfer, ArtifactInv

(* ... and no one else changes what the run is told.                       *)
LEMMA SyncRests ==
  ASSUME ImportInv, Rests, UNCHANGED <<ckpt, rows, include, runState, config, summary>>,
         late' = late, lost' = lost
  PROVE  SyncInv' /\ RecoverInv'
<1>1. SyncInv /\ RecoverInv
  BY DEF ImportInv
<1>2. UNCHANGED <<pc, todo, seen, h, mem, rows, include>>
  BY DEF Rests
<1>3. /\ \A t : PhaseSave(t)' <=> PhaseSave(t)
      /\ \A t : FinishTask(t)' <=> FinishTask(t)
      /\ Scanning' = Scanning /\ Later' = Later /\ (LateSave' <=> LateSave)
      /\ ToSet(todo)' = ToSet(todo) /\ Expected' = Expected
  <2>1. SkippedThrough(Len(rows))' = SkippedThrough(Len(rows))
    BY <1>2 DEF SkippedThrough, Skipped
  <2> QED
    BY <1>2, <2>1 DEF PhaseSave, FinishTask, Scanning, Later, LateSave, Expected
<1>4. SyncInv'
  BY <1>1, <1>2, <1>3 DEF SyncInv
<1>5. Concluding' <=> Concluding
  BY <1>2, <1>3 DEF Concluding
<1> QED
  BY <1>1, <1>2, <1>3, <1>4, <1>5 DEF RecoverInv, Concluded

(* The late task holds after the step of another actor.                    *)
LEMMA LateStays ==
  ASSUME ImportInv, Grows, late' = late PROVE LateHolds(late)'
<1>1. SourceTyped /\ ClaimsInv
  BY DEF ImportInv, TargetInv, SourceTyped
<1>2. CASE late = <<>> \/ \E u : late = <<u, u>>
  BY <1>2 DEF LateHolds
<1>3. CASE \E u : late = <<u>> /\ TaskHolds(u, {})
  <2>1. PICK u : late = <<u>> /\ TaskHolds(u, {})
    BY <1>3
  <2>2. TaskHolds(u, {})'
    BY <1>1, <2>1, TaskStays
  <2> QED
    BY <2>1, <2>2 DEF LateHolds
<1> QED
  BY <1>1, <1>2, <1>3 DEF ClaimsInv

(* The entry of the checkpoint holds after the step of another actor.      *)
LEMMA CheckpointStays ==
  ASSUME ImportInv, Grows, ckpt' = ckpt PROVE EntryHolds(ckpt)'
<1>1. PICK c : c = ckpt
  OBVIOUS
<1>2. EntryHolds(c)'
  BY <1>1, EntryStays DEF ImportInv, ClaimsInv
<1> QED
  BY <1>1, <1>2 DEF EntryHolds

(* The source moves on, and nothing happens at all.                        *)
LEMMA SourceKeeps ==
  ASSUME ImportInv, SourceChanges \/ UNCHANGED vars PROVE ImportInv'
<1>1. /\ UNCHANGED <<rows, include, late, lost, config, summary, media, shards, artifacts,
                     stored, batches, runState, ckpt, mem, pc, todo, seen, h, occ, pending,
                     committed, closed>>
      /\ revision' \in {revision, revision + 1}
  BY DEF SourceChanges, vars, world, target, serverVars, checkpoint, attempt, pipeline
<1>2. TargetInv' /\ Grows
  BY <1>1, AdditionGrows DEF ImportInv, TargetInv
<1>3. Rests /\ UNCHANGED pipeline
  BY <1>1 DEF Rests, pipeline
<1>4. Working /\ runState' = "finished" => LateFinish'
  BY <1>1 DEF ImportInv, PlaceInv, LateFinish
<1> QED
  BY <1>1, <1>2, <1>3, <1>4, RestKeeps, PipelineRestKeeps, SyncRests, LateStays,
     CheckpointStays DEF ImportInv

(* The checkpoint file is removed.                                         *)
LEMMA LossKeeps ==
  ASSUME ImportInv, LoseCheckpoint PROVE ImportInv'
<1>1. /\ UNCHANGED <<rows, include, revision, late, config, summary, media, shards, artifacts,
                     stored, batches, runState, mem, pc, todo, seen, h, occ, pending,
                     committed, closed>>
      /\ Local /\ lost' /\ ckpt' = NoState /\ pc = "idle"
  BY DEF LoseCheckpoint, target, serverVars, attempt, pipeline, Local
<1>2. TargetInv' /\ Grows
  BY <1>1, LocalGrows DEF ImportInv
<1>3. Rests /\ UNCHANGED pipeline
  BY <1>1 DEF Rests, pipeline
<1>4. Working /\ runState' = "finished" => LateFinish'
  BY <1>1 DEF ImportInv, PlaceInv, LateFinish
<1>5. EntryHolds(ckpt)'
  BY <1>1 DEF EntryHolds
<1>6. SyncInv'
  <2>1. SyncInv /\ todo = <<>>
    BY <1>1 DEF ImportInv, PlaceInv
  <2>2. ToSet(todo)' = {} /\ (LateSave' <=> LateSave) /\ Expected' = Expected
        /\ Later' = Later /\ \A t : FinishTask(t)' <=> FinishTask(t)
    <3>1. SkippedThrough(Len(rows))' = SkippedThrough(Len(rows))
      BY <1>1 DEF SkippedThrough, Skipped
    <3>2. ToSet(todo)' = ToSet(todo)
      BY <1>1
    <3> QED
      BY <1>1, <2>1, <3>1, <3>2, FollowOne DEF LateSave, Expected, Later, FinishTask
  <2> QED
    BY <1>1, <2>1, <2>2 DEF SyncInv
<1>7. RecoverInv'
  BY <1>1 DEF RecoverInv
<1> QED
  BY <1>1, <1>2, <1>3, <1>4, <1>5, <1>6, <1>7, RestKeeps, PipelineRestKeeps, LateStays
     DEF ImportInv

(* A worker that was interrupted finishes the call it was about to make.   *)
LEMMA LateTaskKeeps ==
  ASSUME ImportInv, LateTask PROVE ImportInv'
<1>1. /\ TargetInv /\ ClaimsInv /\ PlaceInv /\ SyncInv /\ RecoverInv
      /\ EntryHolds(ckpt)
  BY DEF ImportInv, ClaimsInv
<1>2. PICK t : late = <<t>> /\ TaskHolds(t, {})
  <2>1. Len(late) = 1
    BY DEF LateTask
  <2>2. Len(<<>>) = 0 /\ \A u : Len(<<u, u>>) = 2
    OBVIOUS
  <2>3. late # <<>> /\ \A u : late # <<u, u>>
    BY <2>1, <2>2
  <2> QED
    BY <1>1, <2>3 DEF ClaimsInv
<1>3. /\ Len(late) = 1 /\ late[1] = t /\ late' = <<t, t>> /\ Len(late') = 2 /\ late'[1] = t
  <2>1. late' = <<t>> \o <<t>>
    BY <1>2 DEF LateTask
  <2>2. <<t>> \o <<t>> = <<t, t>>
    <3>1. PICK one : one = <<t>>
      OBVIOUS
    <3>2. one \in Seq({t}) /\ Len(one) = 1 /\ one[1] = t
      BY <3>1
    <3>3. PICK c : c = one \o one
      OBVIOUS
    <3>4. c \in Seq({t}) /\ Len(c) = 2 /\ c[1] = t /\ c[2] = t
      <4>1. /\ c \in Seq({t}) /\ Len(c) = Len(one) + Len(one)
            /\ \A i \in 1 .. Len(c) :
                 c[i] = IF i <= Len(one) THEN one[i] ELSE one[i - Len(one)]
        BY <3>2, <3>3, ConcatProperties
      <4> QED
        BY <3>2, <4>1
    <3>5. <<t, t>> \in Seq({t}) /\ Len(<<t, t>>) = 2 /\ <<t, t>>[1] = t /\ <<t, t>>[2] = t
      OBVIOUS
    <3>6. \A i \in 1 .. 2 : c[i] = <<t, t>>[i]
      BY <3>4, <3>5
    <3> QED
      BY <3>1, <3>3, <3>4, <3>5, <3>6, SeqEqual
  <2> QED
    BY <1>2, <2>1, <2>2
<1>4. /\ Effect(t) /\ Untouched /\ Rests /\ UNCHANGED pipeline
      /\ UNCHANGED <<rows, include, revision, lost, pc, todo, h, mem>>
  BY <1>2, <1>3 DEF LateTask, Untouched, Rests, attempt, pipeline
<1>5. TargetInv' /\ Grows
  BY <1>1, <1>2, <1>4, EffectGrows
<1>6. /\ t.op = "save" => ckpt' = Merge(ckpt, t.arg) /\ SaveHolds(t.arg, {})
      /\ t.op # "save" => ckpt' = ckpt
      /\ EntryHolds(ckpt')
      /\ t.op = "create" => runState = "absent" /\ runState' = "running"
      /\ t.op # "create" => config' = config
      /\ t.op # "finish" => summary' = summary /\ (runState' = "finished" => runState = "finished")
      /\ t.op = "finish" => summary' = t.arg
  BY <1>1, <1>2, <1>4, EffectOn
<1>7. EntryHolds(ckpt)'
  <2>1. PICK c : c = ckpt'
    OBVIOUS
  <2>2. EntryHolds(c)'
    BY <1>1, <1>5, <1>6, <2>1, EntryStays
  <2> QED
    BY <2>1, <2>2 DEF EntryHolds
<1>8. LateHolds(late)'
  BY <1>3 DEF LateHolds
<1>9. Working /\ runState' = "finished" => LateFinish'
  <2> SUFFICES ASSUME Working, runState' = "finished" PROVE LateFinish'
    OBVIOUS
  <2>1. runState # "finished"
    BY <1>1, <1>3 DEF PlaceInv, LateFinish
  <2>2. t.op = "finish"
    BY <1>6, <2>1
  <2> QED
    BY <1>3, <2>2 DEF LateFinish
<1>10. /\ ~LateSave /\ (LateSave' <=> t.op = "save")
       /\ \A u : PhaseSave(u)' <=> PhaseSave(u)
       /\ \A u : FinishTask(u)' <=> FinishTask(u)
       /\ Scanning' = Scanning /\ Later' = Later /\ ToSet(todo)' = ToSet(todo)
  BY <1>3, <1>4 DEF LateSave, PhaseSave, FinishTask, Scanning, Later
<1>11. SyncInv'
  <2> SUFFICES ASSUME t.op # "save"
      PROVE  /\ runState' = "finished" => summary' = Expected'
             /\ \A u \in ToSet(todo) : FinishTask(u) => u.arg = Expected'
    BY <1>1, <1>3, <1>4, <1>6, <1>10 DEF SyncInv
  <2>1. t.op # "create" => Expected' = Expected
    <3>1. SkippedThrough(Len(rows))' = SkippedThrough(Len(rows))
      BY <1>4 DEF SkippedThrough, Skipped
    <3> QED
      BY <1>6, <3>1 DEF Expected
  <2>2. /\ runState = "finished" => summary = Expected
        /\ \A u \in ToSet(todo) : FinishTask(u) => u.arg = Expected
        /\ FinishTask(t) => t.arg = Expected
    BY <1>1, <1>3, <1>10 DEF SyncInv
  <2>3. CASE t.op = "create"
    BY <1>1, <1>6, <2>3, FinishOfTarget
  <2>4. CASE t.op # "create"
    BY <1>6, <2>1, <2>2, <2>4 DEF FinishTask
  <2> QED
    BY <2>3, <2>4
<1>12. RecoverInv'
  <2> SUFFICES ASSUME t.op # "save", ~lost, Concluding'
      PROVE  /\ ckpt' # NoState /\ ckpt'.phase \in Concluded
             /\ pc \in {"idle", "refresh", "target", "finalize", "end"}
             /\ \A u \in ToSet(todo) : PhaseSave(u) => u.arg.phase \in Concluded
    BY <1>4, <1>10 DEF RecoverInv, Concluded
  <2>1. Concluding
    BY <1>3, <1>4, <1>6, <1>10 DEF Concluding, FinishTask
  <2> QED
    BY <1>1, <1>6, <1>10, <2>1 DEF RecoverInv
<1> QED
  BY <1>4, <1>5, <1>7, <1>8, <1>9, <1>11, <1>12, RestKeeps, PipelineRestKeeps DEF ImportInv

-----------------------------------------------------------------------------
(* The worker's own steps.  What they leave of the target and of what they *)
(* do not touch.                                                           *)
Own == Local /\ UNCHANGED <<ckpt, late, lost>>

(* A step of the worker alone, without a request, keeps what holds of      *)
(* source, target and checkpoint.                                          *)
LEMMA OwnKeeps ==
  ASSUME ImportInv, Own, mem' = mem \/ mem' = ckpt, IsSequence(todo'), Follow(todo', {})
  PROVE  /\ TargetInv' /\ Grows /\ ClaimsInv'
         /\ UNCHANGED <<rows, include, revision, runState, config, summary, media, artifacts>>
         /\ Expected' = Expected /\ (LateSave' <=> LateSave) /\ (LateFinish' <=> LateFinish)
         /\ \A t : PhaseSave(t)' <=> PhaseSave(t)
         /\ \A t : FinishTask(t)' <=> FinishTask(t)
         /\ Scanning' = Scanning /\ Later' = Later
         /\ ToSet(todo)' = ToSet(todo')
<1>1. TargetInv' /\ Grows
  BY LocalGrows DEF ImportInv, Own
<1>2. UNCHANGED <<rows, include, revision, runState, config, summary, media, artifacts>>
  BY DEF Own, Local, target, serverVars
<1>3. Expected' = Expected
  BY <1>2 DEF Expected, SkippedThrough, Skipped
<1>4. ClaimsInv'
  <2>1. PICK tasks, m : tasks = todo' /\ m = mem'
    OBVIOUS
  <2>2. EntryHolds(m) /\ IsSequence(tasks) /\ Follow(tasks, {})
    BY <2>1 DEF ImportInv, ClaimsInv
  <2>3. EntryHolds(m)' /\ Follow(tasks, {})'
    BY <1>1, <2>2, EntryStays, FollowStays DEF ImportInv
  <2>4. EntryHolds(mem)' /\ IsSequence(todo)' /\ Follow(todo, {})'
    BY <2>1, <2>2, <2>3 DEF EntryHolds, Follow, Before, IsSequence
  <2>5. EntryHolds(ckpt)' /\ LateHolds(late)'
    BY <1>1, CheckpointStays, LateStays DEF Own
  <2> QED
    BY <2>4, <2>5 DEF ClaimsInv, LateHolds
<1> QED
  BY <1>1, <1>2, <1>3, <1>4
     DEF Own, LateSave, LateFinish, PhaseSave, FinishTask, Scanning, Later, ToSet

(* The new locals hold, whatever they are.                                 *)
LEMMA NewLocalsHold ==
  ASSUME TargetInv, Grows, LocalsHold(h', ToSet(todo')), h'.batch # <<>> => runState # "absent"
  PROVE  LocalsHold(h, ToSet(todo))'
<1>1. PICK p, all : p = h' /\ all = ToSet(todo')
  OBVIOUS
<1>2. LocalsHold(p, all)'
  BY <1>1, LocalsStay
<1>3. all = ToSet(todo)'
  BY <1>1 DEF ToSet
<1> QED
  BY <1>1, <1>2, <1>3 DEF LocalsHold, Boundary

(* Before anything is recognized as concluded, only these places matter.   *)
LEMMA RecoverKept ==
  ASSUME ImportInv, Own, \A t \in ToSet(todo') : ~FinishTask(t),
         ~LateSave /\ ~lost /\ Concluding =>
           pc' \in {"idle", "refresh", "target", "finalize", "end"},
         \A t \in ToSet(todo') : PhaseSave(t) =>
            t.arg.phase \in Concluded \/ ckpt = NoState \/ ckpt.phase \notin Concluded
              \/ pc \notin {"idle", "refresh", "target", "finalize", "end"}
  PROVE  RecoverInv'
<1>1. UNCHANGED <<runState, late, lost, ckpt>>
  BY DEF Own, Local, target, serverVars
<1>2. /\ \A t : PhaseSave(t)' <=> PhaseSave(t)
      /\ \A t : FinishTask(t)' <=> FinishTask(t)
      /\ ToSet(todo)' = ToSet(todo') /\ (LateSave' <=> LateSave)
  BY <1>1 DEF PhaseSave, FinishTask, ToSet, LateSave
<1> SUFFICES ASSUME ~LateSave, ~lost, Concluding'
    PROVE  /\ ckpt # NoState /\ ckpt.phase \in Concluded
           /\ pc' \in {"idle", "refresh", "target", "finalize", "end"}
           /\ \A t \in ToSet(todo') : PhaseSave(t) => t.arg.phase \in Concluded
  BY <1>1, <1>2 DEF RecoverInv, Concluded
<1>3. Concluding
  BY <1>1, <1>2 DEF Concluding
<1>4. /\ ckpt # NoState /\ ckpt.phase \in Concluded
      /\ pc \in {"idle", "refresh", "target", "finalize", "end"}
  BY <1>3 DEF RecoverInv, ImportInv
<1> QED
  BY <1>3, <1>4

(* The update of one or more fields, before and after other tasks.         *)
LEMMA SaveFollows ==
  ASSUME NEW fields, NEW sent, SaveHolds(fields, sent)
  PROVE  /\ IsSequence(Save(fields)) /\ Follow(Save(fields), sent)
         /\ ToSet(Save(fields)) = {[op |-> "save", arg |-> fields]}
         /\ Save(fields) # <<>>
<1>1. PICK t : t = [op |-> "save", arg |-> fields]
  OBVIOUS
<1>2. TaskHolds(t, sent)
  BY <1>1 DEF TaskHolds
<1>3. Save(fields) = <<t>> /\ <<t>> # <<>>
  BY <1>1 DEF Save
<1> QED
  BY <1>1, <1>2, <1>3, FollowOne

(* Tasks after tasks.                                                      *)
LEMMA ThenFollows ==
  ASSUME NEW s, NEW t, IsSequence(s), IsSequence(t), Follow(s, {}), Follow(t, ToSet(s))
  PROVE  IsSequence(s \o t) /\ Follow(s \o t, {}) /\ ToSet(s \o t) = ToSet(s) \union ToSet(t)
<1>1. {} \union ToSet(s) = ToSet(s)
  OBVIOUS
<1>2. Follow(t, {} \union ToSet(s))
  BY <1>1
<1> QED
  BY <1>2, FollowConcat, ConcatElements

-----------------------------------------------------------------------------
(* An attempt begins.                                                      *)
LEMMA BeginKeeps ==
  ASSUME ImportInv, Begin PROVE ImportInv'
<1>1. /\ TargetInv /\ ClaimsInv /\ PlaceInv /\ SyncInv /\ MediaInv
  BY DEF ImportInv
<1>2. /\ Own /\ pc = "idle" /\ pc' = "refresh" /\ mem' = ckpt
      /\ todo' = (IF ckpt = NoState THEN Save([phase |-> "history"]) ELSE <<>>)
      /\ pending' = pending
  BY DEF Begin, At, Own, Local, world, pipeline
<1>3. DOMAIN [phase |-> "history"] = {"phase"} /\ [phase |-> "history"].phase = "history"
  OBVIOUS
<1>4. SaveHolds([phase |-> "history"], {})
  BY <1>1, <1>3, FreshHolds DEF SaveHolds, FieldNames, PhaseHeld
<1>5. /\ IsSequence(todo') /\ Follow(todo', {})
      /\ \A t \in ToSet(todo') : ckpt = NoState /\ t = [op |-> "save", arg |-> [phase |-> "history"]]
      /\ ckpt = NoState => todo' # <<>>
  BY <1>2, <1>4, SaveFollows, FollowOne
<1>6. \A t \in ToSet(todo') :
        /\ ~FinishTask(t) /\ t.op = "save" /\ "rows" \notin DOMAIN t.arg
        /\ t.arg.phase = "history" /\ ckpt = NoState
  BY <1>3, <1>5 DEF FinishTask
<1>7. /\ TargetInv' /\ Grows /\ ClaimsInv'
      /\ UNCHANGED <<rows, include, revision, runState, config, summary, media, artifacts>>
      /\ Expected' = Expected /\ (LateSave' <=> LateSave)
      /\ \A t : PhaseSave(t)' <=> PhaseSave(t)
      /\ \A t : FinishTask(t)' <=> FinishTask(t)
      /\ Scanning' = Scanning /\ Later' = Later
      /\ ToSet(todo)' = ToSet(todo')
  BY <1>2, <1>5, OwnKeeps
<1>8. PlaceInv'
  BY <1>2, <1>5, <1>6, <1>7 DEF PlaceInv, Working, Scanning, Later
<1>9. LocalsInv' /\ MediaInv' /\ ArtifactInv'
  BY <1>1, <1>2 DEF LocalsInv, MediaInv, ArtifactInv, Working, Scanning, Later, PendingTransfer
<1>10. SyncInv'
  <2>1. late' = late /\ ckpt' = ckpt
    BY <1>2 DEF Own
  <2> QED
    BY <1>1, <1>2, <1>6, <1>7, <2>1 DEF SyncInv, Later
<1>11. RecoverInv'
  BY <1>2, <1>6, RecoverKept
<1> QED
  BY <1>7, <1>8, <1>9, <1>10, <1>11 DEF ImportInv

(* The source is refreshed.                                                *)
LEMMA RefreshKeeps ==
  ASSUME ImportInv, Refresh PROVE ImportInv'
<1>1. /\ TargetInv /\ ClaimsInv /\ PlaceInv /\ SyncInv /\ MediaInv
  BY DEF ImportInv
<1>2. /\ Own /\ pc = "refresh" /\ pc' = "target" /\ mem' = mem /\ todo = <<>> /\ todo' = <<>>
      /\ pending' = pending /\ seen' = revision
  BY DEF Refresh, At, Own, Local, world, checkpoint, pipeline
<1>3. IsSequence(todo') /\ Follow(todo', {}) /\ ToSet(todo') = {} /\ ToSet(todo) = {}
  BY <1>2, FollowOne
<1>4. /\ TargetInv' /\ Grows /\ ClaimsInv'
      /\ UNCHANGED <<rows, include, revision, runState, config, summary, media, artifacts>>
      /\ Expected' = Expected /\ (LateSave' <=> LateSave)
      /\ \A t : FinishTask(t)' <=> FinishTask(t)
      /\ Scanning' = Scanning /\ Later' = Later
      /\ ToSet(todo)' = ToSet(todo')
  BY <1>2, <1>3, OwnKeeps
<1>5. PlaceInv'
  BY <1>1, <1>2, <1>3, <1>4 DEF PlaceInv, Working, Scanning, Later, TargetInv
<1>6. LocalsInv' /\ MediaInv' /\ ArtifactInv'
  BY <1>1, <1>2 DEF LocalsInv, MediaInv, ArtifactInv, Working, Scanning, Later, PendingTransfer
<1>7. SyncInv'
  <2>1. late' = late /\ ckpt' = ckpt
    BY <1>2 DEF Own
  <2> QED
    BY <1>1, <1>2, <1>3, <1>4, <2>1 DEF SyncInv, Later
<1>8. RecoverInv'
  BY <1>2, <1>3, RecoverKept
<1> QED
  BY <1>4, <1>5, <1>6, <1>7, <1>8 DEF ImportInv

(* A target that is whole holds what every phase asks for.                 *)
LEMMA WholeIsHeld ==
  ASSUME TargetInv, Whole, NEW sent
  PROVE  /\ PointsHeld(PointsThrough(Len(rows)), sent) /\ MediaHeld(Len(rows))
         /\ include => FilesHeld(Files, sent) /\ ArtifactsHeld(Artifacts)
<1>1. PointsThrough(Len(rows)) \in Nat
  BY PointTyped
<1>2. PointsHeld(PointsThrough(Len(rows)), sent)
  BY <1>1 DEF PointsHeld, Whole
<1>3. MediaHeld(Len(rows))
  <2> SUFFICES ASSUME include, NEW k \in 1 .. Len(rows), NEW o \in 1 .. rows[k].media
      PROVE  \E m \in media : m[1] = k /\ m[2] = o
    BY DEF MediaHeld
  <2>1. <<k, o, config>> \in media
    BY DEF Whole
  <2>2. <<k, o, config>>[1] = k /\ <<k, o, config>>[2] = o
    OBVIOUS
  <2> QED
    BY <2>1, <2>2
<1>4. include => FilesHeld(Files, sent)
  <2> SUFFICES ASSUME include, NEW first \in FirstFiles
      PROVE  \E shard \in shards : shard[1] = first
    BY DEF FilesHeld, ShardHeld
  <2>1. <<first, config>> \in shards /\ <<first, config>>[1] = first
    BY DEF Whole
  <2> QED
    BY <2>1
<1>5. include => ArtifactsHeld(Artifacts)
  <2> SUFFICES ASSUME include, NEW i \in 1 .. Artifacts
      PROVE  \E artifact \in artifacts : artifact[1] = i
    BY DEF ArtifactsHeld
  <2>1. <<i, config>> \in artifacts /\ <<i, config>>[1] = i
    BY DEF Whole
  <2> QED
    BY <2>1
<1> QED
  BY <1>2, <1>3, <1>4, <1>5

(* What the worker knows before it looks at the target.                    *)
LEMMA KnownEntry ==
  ASSUME ImportInv, pc # "idle", todo = <<>>
  PROVE  /\ mem \in Entry /\ SaveHolds(mem, {}) /\ RowsHold(mem, {})
         /\ mem.media \in 0 .. Len(rows) /\ MediaHeld(mem.media)
         /\ mem.files \in Nat /\ FilesHeld(mem.files, {})
         /\ mem.filesDone \in BOOLEAN /\ (mem.filesDone = TRUE => FilesHeld(Files, {}))
         /\ mem.arts \in Nat /\ ArtifactsHeld(mem.arts)
         /\ mem.artsDone \in BOOLEAN /\ (mem.artsDone = TRUE => ArtifactsHeld(Artifacts))
         /\ PhaseHeld(mem.phase, {}) /\ mem.complete \in BOOLEAN /\ mem.revision \in Nat
<1>1. mem # NoState /\ EntryHolds(mem) /\ TargetInv
  BY DEF ImportInv, PlaceInv, ClaimsInv
<1>2. mem \in Entry /\ SaveHolds(mem, {})
  BY <1>1 DEF EntryHolds
<1> QED
  BY <1>1, <1>2, EntryFields

(* The target is found finished.                                           *)
LEMMA RecognizeKeeps ==
  ASSUME ImportInv, RecognizeFinished PROVE ImportInv'
<1>1. /\ TargetInv /\ ClaimsInv /\ PlaceInv /\ SyncInv /\ MediaInv
  BY DEF ImportInv
<1> DEFINE fields == [complete |-> TRUE, phase |-> "complete", revision |-> seen]
<1>2. /\ Own /\ pc = "target" /\ pc' = "end" /\ mem' = mem /\ todo = <<>>
      /\ todo' = (IF mem.complete THEN <<>> ELSE Save(fields))
      /\ pending' = pending /\ seen' = seen /\ runState = "finished"
  BY DEF RecognizeFinished, At, Own, Local, world, checkpoint, pipeline
<1>3. /\ DOMAIN fields = {"complete", "phase", "revision"} /\ fields.phase = "complete"
      /\ fields.revision = seen /\ fields.complete = TRUE
  OBVIOUS
<1>4. ~mem.complete => mem.phase = "finalize"
  BY <1>2 DEF RecognizeFinished, TargetRefused
<1>5. PhaseHeld("complete", {}) /\ seen \in Nat
  BY <1>1, <1>2, WholeIsHeld DEF PhaseHeld, TargetInv, PlaceInv
<1> HIDE DEF fields
<1>6. SaveHolds(fields, {})
  BY <1>1, <1>3, <1>5, FreshHolds DEF SaveHolds, FieldNames
<1>7. /\ IsSequence(todo') /\ Follow(todo', {})
      /\ \A t \in ToSet(todo') : ~mem.complete /\ t = [op |-> "save", arg |-> fields]
  BY <1>2, <1>6, SaveFollows, FollowOne
<1>8. \A t \in ToSet(todo') :
        /\ ~FinishTask(t) /\ t.op = "save" /\ "rows" \notin DOMAIN t.arg
        /\ t.arg.phase = "complete" /\ mem.phase = "finalize"
  <2> SUFFICES ASSUME NEW t \in ToSet(todo')
      PROVE  /\ ~FinishTask(t) /\ t.op = "save" /\ "rows" \notin DOMAIN t.arg
             /\ t.arg.phase = "complete" /\ mem.phase = "finalize"
    OBVIOUS
  <2>1. t.op = "save" /\ t.arg = fields /\ ~mem.complete
    BY <1>7
  <2> QED
    BY <1>3, <1>4, <2>1 DEF FinishTask
<1>9. /\ TargetInv' /\ Grows /\ ClaimsInv'
      /\ UNCHANGED <<rows, include, revision, runState, config, summary, media, artifacts>>
      /\ Expected' = Expected /\ (LateSave' <=> LateSave)
      /\ \A t : PhaseSave(t)' <=> PhaseSave(t)
      /\ \A t : FinishTask(t)' <=> FinishTask(t)
      /\ Scanning' = Scanning /\ Later' = Later
      /\ ToSet(todo)' = ToSet(todo')
  BY <1>2, <1>7, OwnKeeps
<1>10. PlaceInv'
  BY <1>1, <1>2, <1>8, <1>9 DEF PlaceInv, Working, Scanning, Later
<1>11. LocalsInv' /\ MediaInv' /\ ArtifactInv'
  BY <1>1, <1>2 DEF LocalsInv, MediaInv, ArtifactInv, Working, Scanning, Later, PendingTransfer
<1>12. SyncInv'
  <2>1. late' = late /\ ckpt' = ckpt
    BY <1>2 DEF Own
  <2>2. mem # NoState
    BY <1>1, <1>2 DEF PlaceInv
  <2> QED
    BY <1>1, <1>2, <1>8, <1>9, <2>1, <2>2 DEF SyncInv, Later
<1>13. RecoverInv'
  <2>1. "complete" \in Concluded
    BY DEF Concluded
  <2> QED
    BY <1>2, <1>8, <2>1, RecoverKept
<1> QED
  BY <1>9, <1>10, <1>11, <1>12, <1>13 DEF ImportInv

(* The target is opened to be filled.                                      *)
LEMMA OpenKeeps ==
  ASSUME ImportInv, OpenTarget PROVE ImportInv'
<1>1. /\ TargetInv /\ ClaimsInv /\ PlaceInv /\ SyncInv /\ MediaInv /\ RecoverInv
  BY DEF ImportInv
<1> DEFINE fields == [revision |-> seen]
           created == IF runState = "absent" THEN Create ELSE <<>>
<1>2. /\ Own /\ pc = "target" /\ pc' = mem.phase /\ mem' = mem /\ todo = <<>>
      /\ todo' = created \o Save(fields) /\ seen' = seen /\ runState # "finished"
      /\ h' = [NoLocals EXCEPT !.rows = mem.rows, !.end = mem.rows, !.seq = mem.seq,
                !.unsupported = mem.unsupported]
      /\ occ' = 0 /\ pending' = <<>> /\ committed' = mem.media /\ closed' = mem.media
      /\ runState # "absent" => config = seen
  BY DEF OpenTarget, Admitted, At, Own, Local, world, checkpoint, TargetRefused
<1>3. /\ mem \in Entry /\ RowsHold(mem, {}) /\ PhaseHeld(mem.phase, {})
      /\ mem.media \in 0 .. Len(rows) /\ MediaHeld(mem.media) /\ mem # NoState
      /\ seen \in 1 .. revision /\ seen \in Nat
  BY <1>1, <1>2, KnownEntry, EntryIsThere DEF PlaceInv, TargetInv
<1>4. /\ mem.phase \in {"history", "run_files", "logged_artifacts", "finalize"}
  BY <1>2, <1>3 DEF PhaseHeld
<1>5. DOMAIN fields = {"revision"} /\ fields.revision = seen
  OBVIOUS
<1> HIDE DEF fields
<1>6. \A sent : SaveHolds(fields, sent)
  BY <1>1, <1>3, <1>5, FreshHolds DEF SaveHolds, FieldNames
<1>7. /\ IsSequence(created) /\ Follow(created, {})
      /\ \A t \in ToSet(created) : t.op = "create"
      /\ runState = "absent" => created = Create
      /\ runState # "absent" => created = <<>>
  <2>1. PICK t : t = [op |-> "create", arg |-> seen]
    OBVIOUS
  <2>2. TaskHolds(t, {}) /\ Create = <<t>> /\ t.op = "create"
    BY <1>3, <2>1 DEF TaskHolds, Create
  <2> QED
    BY <2>2, FollowOne
<1>8. runState = "absent" => todo' # <<>> /\ Head(todo') = [op |-> "create", arg |-> seen]
  <2> SUFFICES ASSUME runState = "absent"
      PROVE  todo' # <<>> /\ Head(todo') = [op |-> "create", arg |-> seen]
    OBVIOUS
  <2>1. PICK x, y : x = [op |-> "create", arg |-> seen] /\ y = [op |-> "save", arg |-> fields]
    OBVIOUS
  <2>2. todo' = <<x>> \o <<y>>
    BY <1>2, <1>7, <2>1 DEF Create, Save
  <2>3. <<x>> \o <<y>> # <<>> /\ Head(<<x>> \o <<y>>) = x
    <3>1. PICK a, b : a = <<x>> /\ b = <<y>>
      OBVIOUS
    <3>2. Len(a) = 1 /\ Len(b) = 1 /\ a[1] = x /\ a \in Seq({x, y}) /\ b \in Seq({x, y})
      BY <3>1
    <3>3. PICK c : c = a \o b
      OBVIOUS
    <3>4. /\ c \in Seq({x, y}) /\ Len(c) = Len(a) + Len(b)
          /\ \A i \in 1 .. Len(c) : c[i] = IF i <= Len(a) THEN a[i] ELSE b[i - Len(a)]
      BY <3>2, <3>3, ConcatProperties
    <3>5. c # <<>> /\ c[1] = x
      BY <3>2, <3>4
    <3>6. Head(c) = c[1]
      BY <3>4, <3>5, HeadTailProperties
    <3> QED
      BY <3>1, <3>3, <3>5, <3>6
  <2> QED
    BY <2>1, <2>2, <2>3
<1> HIDE DEF created
<1>9. /\ IsSequence(todo') /\ Follow(todo', {})
      /\ \A t \in ToSet(todo') :
           t.op = "create" \/ t = [op |-> "save", arg |-> fields]
  BY <1>2, <1>6, <1>7, SaveFollows, ThenFollows
<1>10. \A t \in ToSet(todo') :
        /\ ~FinishTask(t) /\ ~PhaseSave(t)
        /\ t.op = "save" => "rows" \notin DOMAIN t.arg
  <2> SUFFICES ASSUME NEW t \in ToSet(todo')
      PROVE  /\ ~FinishTask(t) /\ ~PhaseSave(t)
             /\ t.op = "save" => "rows" \notin DOMAIN t.arg
    OBVIOUS
  <2>1. t.op = "create" \/ (t.op = "save" /\ t.arg = fields)
    BY <1>9
  <2> QED
    BY <1>5, <2>1 DEF FinishTask, PhaseSave
<1>11. /\ TargetInv' /\ Grows /\ ClaimsInv'
       /\ UNCHANGED <<rows, include, revision, runState, config, summary, media, artifacts>>
       /\ Expected' = Expected /\ (LateSave' <=> LateSave)
       /\ \A t : PhaseSave(t)' <=> PhaseSave(t)
       /\ \A t : FinishTask(t)' <=> FinishTask(t)
       /\ Scanning' = Scanning /\ Later' = Later
       /\ ToSet(todo)' = ToSet(todo')
  BY <1>2, <1>9, OwnKeeps
<1>12. PlaceInv'
  BY <1>1, <1>2, <1>3, <1>4, <1>8, <1>10, <1>11 DEF PlaceInv, Working, Scanning, Later
<1>13. /\ h'.scanned = 0 /\ h'.rows = mem.rows /\ h'.end = mem.rows /\ h'.seq = mem.seq
       /\ h'.unsupported = mem.unsupported /\ h'.batch = <<>> /\ h'.bytes = 0
       /\ h' \in Locals /\ Len(h'.batch) = 0
  <2>1. mem.rows \in Nat /\ mem.seq \in Nat /\ mem.unsupported \in Nat
    BY <1>3 DEF Entry
  <2>2. h' = [scanned |-> 0, rows |-> mem.rows, seq |-> mem.seq,
              unsupported |-> mem.unsupported, batch |-> <<>>, bytes |-> 0, end |-> mem.rows]
    BY <1>2 DEF NoLocals
  <2>3. <<>> \in Seq(HistoryPoint) /\ Len(<<>>) = 0
    OBVIOUS
  <2> QED
    BY <2>1, <2>2, <2>3 DEF Locals
<1>14. /\ mem.rows \in 0 .. Len(rows) /\ Len(rows) \in Nat
       /\ mem.seq = PointsThrough(mem.rows) + 1 /\ Boundary(mem.seq, {})
       /\ mem.unsupported = SkippedThrough(mem.rows)
       /\ PointsThrough(mem.rows) \in Nat /\ BytesThrough(mem.rows) \in Nat
  <2>1. SourceTyped
    BY <1>1 DEF TargetInv, SourceTyped
  <2>2. mem.rows \in 0 .. Len(rows)
    BY <1>3 DEF RowsHold
  <2> QED
    BY <1>3, <2>1, <2>2, Sums DEF RowsHold
<1>15. LocalsHold(h', {})
  <2>1. Fits(mem.rows, mem.rows)
    BY <1>14 DEF Fits
  <2> QED
    BY <1>13, <1>14, <2>1 DEF LocalsHold
<1>16. LocalsHold(h, ToSet(todo))'
  <2>1. PICK p : p = h'
    OBVIOUS
  <2>2. LocalsHold(p, ToSet(todo'))
    BY <1>15, <2>1, LocalsAfter
  <2> QED
    BY <1>1, <1>11, <1>13, <2>1, <2>2, NewLocalsHold
<1>17. LocalsInv'
  <2>1. BatchSize \in Nat \ {0}
    BY ImportLimits
  <2>2. pc' # "drain"
    BY <1>2, <1>4
  <2> QED
    BY <1>13, <1>14, <1>16, <2>1, <2>2 DEF LocalsInv
<1>18. MediaInv'
  <2>1. MediaHeld(committed)'
    <3>1. PICK n : n = mem.media
      OBVIOUS
    <3>2. MediaHeld(n)'
      BY <1>3, <1>11, <3>1, HeldStays
    <3> QED
      BY <1>2, <3>1, <3>2 DEF MediaHeld
  <2>2. include => \A n \in 1 .. mem.media : \A o \in 1 .. rows[n].media :
          \E m \in media : m[1] = n /\ m[2] = o
    BY <1>3 DEF MediaHeld
  <2>3. include => \A n \in 1 .. mem.media : \A o \in 1 .. rows[n].media : Stands(<<>>, n, o)'
    BY <1>11, <2>2 DEF Stands
  <2>4. pending' \in Seq(PendingTransfer') /\ Len(pending') = 0
    BY <1>2
  <2>5. pc' # "drain" /\ 0 \in Nat /\ \A o : o \notin 1 .. 0
    BY <1>2, <1>4
  <2>6. \A i : i \notin 1 .. Len(pending')
    BY <2>4
  <2>7. /\ committed' = mem.media /\ closed' = mem.media /\ mem.media \in 0 .. Len(rows)
        /\ rows' = rows /\ include' = include /\ closed' \in committed' .. Len(rows)
        /\ h'.scanned <= closed'
    BY <1>2, <1>3, <1>11, <1>13, <1>14
  <2>8. include' =>
          \A n \in 1 .. closed' : \A o \in 1 .. rows'[n].media : Stands(pending, n, o)'
    BY <1>2, <2>3, <2>7 DEF Stands
  <2>9. occ' \in Nat /\ \A o \in 1 .. occ' : Stands(pending, h.scanned + 1, o)'
    BY <1>2, <2>5
  <2> QED
    BY <2>1, <2>4, <2>5, <2>6, <2>7, <2>8, <2>9 DEF MediaInv
<1>19. ArtifactInv'
  BY <1>2 DEF ArtifactInv
<1>20. SyncInv'
  <2>1. late' = late /\ ckpt' = ckpt
    BY <1>2 DEF Own
  <2>2. ~LateSave => (pc' \in Later => h'.rows = Len(rows))
    BY <1>1, <1>2, <1>3, <1>13 DEF SyncInv, Later
  <2> QED
    BY <1>1, <1>2, <1>10, <1>11, <2>1, <2>2 DEF SyncInv
<1>21. RecoverInv'
  <2>1. ~LateSave /\ ~lost /\ Concluding => pc' \in {"idle", "refresh", "target", "finalize", "end"}
    BY <1>1, <1>2, <1>4 DEF RecoverInv, SyncInv, Concluded
  <2> QED
    BY <1>2, <1>10, <2>1, RecoverKept
<1> QED
  BY <1>11, <1>12, <1>17, <1>18, <1>19, <1>20, <1>21 DEF ImportInv

-----------------------------------------------------------------------------
(* A longer queue of transfers.                                            *)
LEMMA LongerQueue ==
  ASSUME NEW queue \in Seq(PendingTransfer), NEW x \in PendingTransfer
  PROVE  /\ Append(queue, x) \in Seq(PendingTransfer) /\ Len(queue) \in Nat
         /\ Len(Append(queue, x)) = Len(queue) + 1 /\ Append(queue, x)[Len(queue) + 1] = x
         /\ \A i \in 1 .. Len(queue) : Append(queue, x)[i] = queue[i]
         /\ \A n, o : Stands(queue, n, o) => Stands(Append(queue, x), n, o)
         /\ Stands(Append(queue, x), x.key, x.occ)
<1>1. PICK a : a = Append(queue, x)
  OBVIOUS
<1>2. /\ a \in Seq(PendingTransfer) /\ Len(queue) \in Nat
      /\ Len(a) = Len(queue) + 1 /\ a[Len(queue) + 1] = x
      /\ \A i \in 1 .. Len(queue) : a[i] = queue[i]
  BY <1>1, AppendProperties
<1>3. \A i \in 1 .. Len(queue) : i \in 1 .. Len(a)
  BY <1>2
<1>4. \A n, o : Stands(queue, n, o) => Stands(a, n, o)
  BY <1>2, <1>3 DEF Stands
<1>5. Len(queue) + 1 \in 1 .. Len(a)
  BY <1>2
<1>6. Stands(a, x.key, x.occ)
  BY <1>2, <1>5 DEF Stands
<1> QED
  BY <1>1, <1>2, <1>4, <1>6

(* A transfer that is done has left its medium, and may leave the queue.   *)
LEMMA ShorterQueue ==
  ASSUME NEW queue \in Seq(PendingTransfer), queue # <<>>
  PROVE  /\ Tail(queue) \in Seq(PendingTransfer) /\ Len(queue) \in Nat \ {0}
         /\ Len(Tail(queue)) = Len(queue) - 1 /\ Head(queue) = queue[1]
         /\ \A i \in 1 .. Len(queue) - 1 : Tail(queue)[i] = queue[i + 1]
         /\ \A n, o : Stands(queue, n, o)
              /\ (\E m \in media : m[1] = queue[1].key /\ m[2] = queue[1].occ)
              => Stands(Tail(queue), n, o)
<1>1. PICK d : d = Tail(queue)
  OBVIOUS
<1>2. /\ d \in Seq(PendingTransfer) /\ Len(queue) \in Nat \ {0}
      /\ Len(d) = Len(queue) - 1 /\ Head(queue) = queue[1]
      /\ \A i \in 1 .. Len(queue) - 1 : d[i] = queue[i + 1]
  <2>1. Len(queue) \in Nat \ {0}
    OBVIOUS
  <2> QED
    BY <1>1, <2>1, HeadTailProperties
<1>3. ASSUME NEW n, NEW o, Stands(queue, n, o),
             \E m \in media : m[1] = queue[1].key /\ m[2] = queue[1].occ
      PROVE  Stands(d, n, o)
  <2>1. CASE \E m \in media : m[1] = n /\ m[2] = o
    BY <2>1 DEF Stands
  <2>2. CASE \E i \in 1 .. Len(queue) : queue[i].key = n /\ queue[i].occ = o
    <3>1. PICK i \in 1 .. Len(queue) : queue[i].key = n /\ queue[i].occ = o
      BY <2>2
    <3>2. CASE i = 1
      BY <1>3, <3>1, <3>2 DEF Stands
    <3>3. CASE i # 1
      <4>1. i - 1 \in 1 .. Len(d) /\ d[i - 1] = queue[i]
        BY <1>2, <3>3
      <4> QED
        BY <3>1, <4>1 DEF Stands
    <3> QED
      BY <3>2, <3>3
  <2> QED
    BY <1>3, <2>1, <2>2 DEF Stands
<1> QED
  BY <1>1, <1>2, <1>3

(* A transfer is submitted.                                                *)
LEMMA ScheduleKeeps ==
  ASSUME ImportInv, ScheduleMedia PROVE ImportInv'
<1>1. /\ TargetInv /\ PlaceInv /\ LocalsInv /\ MediaInv /\ ClaimsInv
  BY DEF ImportInv
<1>2. /\ Own /\ Rests /\ UNCHANGED <<pc, todo, h, mem, ckpt, late, lost, committed, closed>>
      /\ pc = "history" /\ HistoryPipelined /\ occ' = occ + 1
      /\ pending' = Append(pending, Transfer(h.scanned + 1, occ + 1))
  BY DEF ScheduleMedia, At, Own, Rests, Local, world, checkpoint
<1>3. /\ TargetInv' /\ Grows
      /\ UNCHANGED <<rows, include, revision, runState, config, summary, media, artifacts>>
  BY <1>1, <1>2, OwnKeeps DEF ClaimsInv
<1>4. h.scanned \in Nat /\ occ \in Nat /\ include /\ pending \in Seq(PendingTransfer)
      /\ h.end \in Nat
  BY <1>1, <1>2 DEF LocalsInv, MediaInv, LocalsHold, Working, Scanning, HistoryPipelined,
                    TargetInv, Locals
<1>5. PICK x : x = Transfer(h.scanned + 1, occ + 1)
  OBVIOUS
<1>6. x \in PendingTransfer /\ x.key = h.scanned + 1 /\ x.occ = occ + 1 /\ x.done = FALSE
  BY <1>4, <1>5 DEF PendingTransfer, Transfer
<1>7. pending' = Append(pending, x)
  BY <1>2, <1>5
<1>8. /\ pending' \in Seq(PendingTransfer) /\ Len(pending) \in Nat
      /\ Len(pending') = Len(pending) + 1 /\ pending'[Len(pending) + 1] = x
      /\ \A i \in 1 .. Len(pending) : pending'[i] = pending[i]
      /\ \A n, o : Stands(pending, n, o) => Stands(pending', n, o)
      /\ Stands(pending', h.scanned + 1, occ + 1)
  BY <1>4, <1>6, <1>7, LongerQueue
<1>9. \A n, o : Stands(pending', n, o) => Stands(pending, n, o)'
  BY <1>3 DEF Stands
<1>10. MediaInv'
  <2>1. /\ Scanning' = Scanning /\ (Working' <=> Working)
        /\ (HistoryPipelined' <=> HistoryPipelined) /\ MediaHeld(committed)' = MediaHeld(committed)
        /\ PendingTransfer' = PendingTransfer
    BY <1>2, <1>3 DEF Scanning, Later, Working, HistoryPipelined, MediaHeld, PendingTransfer
  <2>2. \A i \in 1 .. Len(pending') :
          pending'[i].done => \E m \in media : m[1] = pending'[i].key /\ m[2] = pending'[i].occ
    <3> SUFFICES ASSUME NEW i \in 1 .. Len(pending'), pending'[i].done
        PROVE  \E m \in media : m[1] = pending'[i].key /\ m[2] = pending'[i].occ
      OBVIOUS
    <3>1. i \in 1 .. Len(pending)
      <4>1. i # Len(pending) + 1
        BY <1>6, <1>8
      <4> QED
        BY <1>8, <4>1
    <3> QED
      BY <1>1, <1>2, <1>8, <3>1 DEF MediaInv, Scanning
  <2>3. /\ \A n \in 1 .. closed : \A o \in 1 .. rows[n].media : Stands(pending, n, o)'
        /\ \A o \in 1 .. occ : Stands(pending, h.scanned + 1, o)'
    BY <1>1, <1>2, <1>4, <1>8, <1>9 DEF MediaInv, Scanning
  <2>4. \A o \in 1 .. occ + 1 : Stands(pending', h.scanned + 1, o)
    <3> SUFFICES ASSUME NEW o \in 1 .. occ + 1 PROVE Stands(pending', h.scanned + 1, o)
      OBVIOUS
    <3>1. CASE o = occ + 1
      BY <1>8, <3>1
    <3>2. CASE o # occ + 1
      <4>1. o \in 1 .. occ
        BY <1>4, <3>2
      <4> QED
        BY <1>1, <1>2, <1>4, <1>8, <4>1 DEF MediaInv, Scanning
    <3> QED
      BY <3>1, <3>2
  <2>5. \A o \in 1 .. occ' : Stands(pending, h.scanned + 1, o)'
    <3>1. PICK n : n = h.scanned + 1
      OBVIOUS
    <3>2. \A o \in 1 .. occ' : Stands(pending, n, o)'
      BY <1>2, <1>9, <2>4, <3>1
    <3>3. n = h'.scanned + 1
      BY <1>2, <3>1
    <3> QED
      BY <3>2, <3>3 DEF Stands
  <2>6. pc' # "drain" /\ occ' \in Nat
    BY <1>2, <1>4
  <2> QED
    BY <1>1, <1>2, <1>3, <1>8, <2>1, <2>2, <2>3, <2>5, <2>6 DEF MediaInv
<1>11. ArtifactInv'
  BY <1>2 DEF ArtifactInv
<1>12. Working /\ runState' = "finished" => LateFinish'
  BY <1>1, <1>2, <1>3 DEF PlaceInv, LateFinish
<1> QED
  BY <1>2, <1>3, <1>10, <1>11, <1>12, RestKeeps, SyncRests, LateStays, CheckpointStays
     DEF ImportInv

(* A medium is stored.                                                     *)
LEMMA UploadMediaKeeps ==
  ASSUME ImportInv, UploadMedia PROVE ImportInv'
<1>1. /\ TargetInv /\ PlaceInv /\ LocalsInv /\ MediaInv /\ ClaimsInv
  BY DEF ImportInv
<1>2. PICK i \in 1 .. Len(pending) :
        /\ pc \in {"history", "drain"} /\ runState = "running"
        /\ media' = media \union {<<pending[i].key, pending[i].occ, revision>>}
        /\ pending' = [pending EXCEPT ![i].done = TRUE]
  BY DEF UploadMedia
<1>3. /\ UNCHANGED <<rows, include, revision, late, lost, config, summary, shards, artifacts,
                     runState, batches, stored, ckpt, mem, pc, todo, seen, h, occ, committed,
                     closed>>
      /\ Rests
  BY DEF UploadMedia, Rests, serverVars, checkpoint, world
<1>4. pending \in Seq(PendingTransfer) /\ Len(pending) \in Nat /\ pending[i] \in PendingTransfer
  BY <1>1 DEF MediaInv
<1>5. PICK k, o : k = pending[i].key /\ o = pending[i].occ /\ k \in Nat /\ o \in Nat
  BY <1>4 DEF PendingTransfer
<1>6. PICK m : m = <<k, o, revision>> /\ media' = media \union {m}
  BY <1>2, <1>5
<1>7. m[1] = k /\ m[2] = o /\ m[3] = revision /\ m \in Nat \X Nat \X Nat
  <2>1. revision \in Nat
    BY <1>1 DEF TargetInv
  <2> QED
    BY <1>5, <1>6, <2>1
<1>8. TargetInv' /\ Grows
  <2>1. media \subseteq media' /\ media' \subseteq Nat \X Nat \X Nat
        /\ \A x \in media' \ media : x[3] = revision
    BY <1>1, <1>6, <1>7 DEF TargetInv
  <2> QED
    BY <1>1, <1>2, <1>3, <2>1, AdditionGrows DEF TargetInv
<1>9. /\ pending' \in Seq(PendingTransfer) /\ Len(pending') = Len(pending)
      /\ \A j \in 1 .. Len(pending) :
           /\ pending'[j].key = pending[j].key /\ pending'[j].occ = pending[j].occ
           /\ j # i => pending'[j].done = pending[j].done
  <2>1. PICK x : x = [pending[i] EXCEPT !.done = TRUE]
    OBVIOUS
  <2>2. x \in PendingTransfer /\ x.key = pending[i].key /\ x.occ = pending[i].occ
    BY <1>4, <2>1 DEF PendingTransfer
  <2>3. pending' = [pending EXCEPT ![i] = x]
    BY <1>2, <2>1
  <2>4. /\ pending' \in Seq(PendingTransfer) /\ Len(pending') = Len(pending)
        /\ \A j \in 1 .. Len(pending) : pending'[j] = IF j = i THEN x ELSE pending[j]
    BY <1>4, <2>2, <2>3
  <2> QED
    BY <2>2, <2>4
<1>10. \A n, oo : Stands(pending, n, oo) => Stands(pending, n, oo)'
  BY <1>6, <1>9 DEF Stands
<1>11. MediaInv'
  <2>1. /\ Scanning' = Scanning /\ (Working' <=> Working)
        /\ (HistoryPipelined' <=> HistoryPipelined)
        /\ PendingTransfer' = PendingTransfer
    BY <1>3 DEF Scanning, Later, Working, HistoryPipelined, PendingTransfer
  <2>2. Working => MediaHeld(committed)'
    <3>1. PICK n : n = committed
      OBVIOUS
    <3>2. MediaHeld(n) => MediaHeld(n)'
      BY <1>8, HeldStays
    <3>3. Working => MediaHeld(n)
      BY <1>1, <3>1 DEF MediaInv
    <3> QED
      BY <1>3, <3>1, <3>2, <3>3 DEF MediaHeld
  <2>3. \A j \in 1 .. Len(pending') :
          pending'[j].done =>
            \E x \in media' : x[1] = pending'[j].key /\ x[2] = pending'[j].occ
    <3> SUFFICES ASSUME NEW j \in 1 .. Len(pending'), pending'[j].done
        PROVE  \E x \in media' : x[1] = pending'[j].key /\ x[2] = pending'[j].occ
      OBVIOUS
    <3>1. CASE j = i
      BY <1>5, <1>6, <1>7, <1>9, <3>1
    <3>2. CASE j # i
      <4>1. pending[j].done /\ j \in 1 .. Len(pending)
        BY <1>9, <3>2
      <4>2. \E x \in media : x[1] = pending[j].key /\ x[2] = pending[j].occ
        BY <1>1, <1>2, <4>1 DEF MediaInv, Scanning
      <4> QED
        BY <1>6, <1>9, <4>1, <4>2
    <3> QED
      BY <3>1, <3>2
  <2> QED
    BY <1>1, <1>3, <1>9, <1>10, <2>1, <2>2, <2>3 DEF MediaInv
<1>12. ArtifactInv'
  BY <1>2, <1>3 DEF ArtifactInv
<1>13. Working /\ runState' = "finished" => LateFinish'
  BY <1>1, <1>3 DEF PlaceInv, LateFinish
<1> QED
  BY <1>3, <1>8, <1>11, <1>12, <1>13, RestKeeps, SyncRests, LateStays, CheckpointStays
     DEF ImportInv

-----------------------------------------------------------------------------
(* A step of _import_history: tasks that neither finish nor change phase.  *)
LEMMA HistoryKeeps ==
  ASSUME ImportInv, Own, pc \in Scanning, pc' \in Scanning, todo = <<>>, mem' = mem, seen' = seen,
         HistoryTasks(todo', {}), LocalsHold(h', ToSet(todo')), h'.scanned \in 0 .. h'.end,
         h'.scanned < h'.end \/ pc' # "history" => h'.rows = h'.end,
         pc' = "history" => Len(h'.batch) < BatchSize,
         pc' = "drain" => h'.rows = Len(rows), MediaInv'
  PROVE  ImportInv'
<1>1. /\ TargetInv /\ PlaceInv /\ ClaimsInv /\ SyncInv
  BY DEF ImportInv
<1>2. /\ IsSequence(todo') /\ Follow(todo', {})
      /\ \A t \in ToSet(todo') : ~PhaseSave(t) /\ ~FinishTask(t)
  BY DEF HistoryTasks, HistoryTask, FinishTask
<1>3. /\ TargetInv' /\ Grows /\ ClaimsInv'
      /\ UNCHANGED <<rows, include, revision, runState, config, summary, media, artifacts>>
      /\ Expected' = Expected /\ (LateSave' <=> LateSave) /\ (LateFinish' <=> LateFinish)
      /\ \A t : PhaseSave(t)' <=> PhaseSave(t)
      /\ \A t : FinishTask(t)' <=> FinishTask(t)
      /\ Scanning' = Scanning /\ Later' = Later
      /\ ToSet(todo)' = ToSet(todo')
  BY <1>2, OwnKeeps
<1>4. /\ mem # NoState /\ mem.phase = "history" /\ seen \in 1 .. revision
      /\ runState # "absent" /\ config = seen /\ (runState = "finished" => LateFinish)
  BY <1>1 DEF PlaceInv, Scanning, Working
<1>5. PlaceInv'
  BY <1>1, <1>2, <1>3, <1>4 DEF PlaceInv, Working, Scanning, Later
<1>6. LocalsInv'
  <2>1. LocalsHold(h, ToSet(todo))'
    BY <1>1, <1>3, <1>4, NewLocalsHold
  <2> QED
    BY <1>3, <1>4, <2>1 DEF LocalsInv
<1>7. ArtifactInv'
  BY DEF ArtifactInv, Scanning
<1>8. SyncInv'
  <2>1. late' = late /\ ckpt' = ckpt
    BY DEF Own
  <2> QED
    BY <1>1, <1>2, <1>3, <2>1 DEF SyncInv, Scanning, Later
<1>9. RecoverInv'
  <2>1. ~(~LateSave /\ ~lost /\ Concluding)
    BY DEF ImportInv, RecoverInv, Scanning
  <2> QED
    BY <1>2, <2>1, RecoverKept
<1> QED
  BY <1>3, <1>5, <1>6, <1>7, <1>8, <1>9 DEF ImportInv

(* Tasks of the history, one list after the other.                         *)
LEMMA HistoryThen ==
  ASSUME NEW s, NEW t, HistoryTasks(s, {}), HistoryTasks(t, {})
  PROVE  /\ HistoryTasks(s \o t, {})
         /\ ToSet(s) \subseteq ToSet(s \o t) /\ ToSet(t) \subseteq ToSet(s \o t)
<1>1. HistoryTasks(t, {} \union ToSet(s))
  <2>1. Follow(t, {} \union ToSet(s))
    BY FollowAfter DEF HistoryTasks
  <2> QED
    BY <2>1 DEF HistoryTasks
<1>2. HistoryTasks(s \o t, {}) /\ ToSet(s \o t) = ToSet(s) \union ToSet(t)
  BY <1>1, HistoryConcat
<1> QED
  BY <1>2

(* What the worker knows while it scans the history and nothing is to do.  *)
LEMMA ScanningKnows ==
  ASSUME ImportInv, pc \in Scanning, todo = <<>>
  PROVE  /\ runState # "absent" /\ LocalsHold(h, {}) /\ h.scanned \in 0 .. h.end
         /\ h.scanned < h.end \/ pc # "history" => h.rows = h.end
         /\ pc = "history" => Len(h.batch) < BatchSize
         /\ pc = "drain" => h.rows = Len(rows)
         /\ h.end \in 0 .. Len(rows) /\ Len(rows) \in Nat /\ h.scanned \in 0 .. Len(rows)
         /\ pending \in Seq(PendingTransfer)
         /\ committed \in 0 .. Len(rows) /\ MediaHeld(committed)
         /\ closed \in committed .. Len(rows)
         /\ \A i \in 1 .. Len(pending) :
              pending[i].done => \E m \in media : m[1] = pending[i].key /\ m[2] = pending[i].occ
         /\ include =>
              /\ h.scanned <= closed
              /\ \A n \in 1 .. closed : \A o \in 1 .. rows[n].media : Stands(pending, n, o)
              /\ pc = "history" /\ HistoryPipelined =>
                   occ \in Nat /\ \A o \in 1 .. occ : Stands(pending, h.scanned + 1, o)
              /\ pc = "drain" => closed = Len(rows)
<1>1. TargetInv /\ PlaceInv /\ LocalsInv /\ MediaInv /\ Working
  BY DEF ImportInv, Working
<1>2. ToSet(todo) = {}
  BY FollowOne
<1>3. runState # "absent"
  BY <1>1 DEF PlaceInv
<1>4. Len(rows) \in Nat
  BY <1>1 DEF TargetInv
<1>5. /\ LocalsHold(h, {}) /\ h.scanned \in 0 .. h.end
      /\ h.scanned < h.end \/ pc # "history" => h.rows = h.end
      /\ pc = "history" => Len(h.batch) < BatchSize
      /\ pc = "drain" => h.rows = Len(rows)
  BY <1>1, <1>2 DEF LocalsInv
<1>6. h.end \in 0 .. Len(rows) /\ h.scanned \in 0 .. Len(rows)
  BY <1>4, <1>5 DEF LocalsHold
<1> QED
  BY <1>1, <1>3, <1>4, <1>5, <1>6 DEF MediaInv

(* The next row's metrics.                                                 *)
LEMMA ScanKeeps ==
  ASSUME ImportInv, ScanRow PROVE ImportInv'
<1>1. TargetInv
  BY DEF ImportInv
<1>2. PICK n : n = h.scanned + 1
  OBVIOUS
<1>3. PICK mark : mark = IF HistoryPipelined THEN Watermark(pending, committed, n) ELSE committed
  OBVIOUS
<1>4. PICK first : first = IF HistoryPipelined THEN PersistTasks(mark) ELSE <<>>
  OBVIOUS
<1>5. /\ Own /\ pc = "history" /\ pc' = pc /\ todo = <<>> /\ mem' = mem /\ seen' = seen
      /\ h.scanned < Len(rows)
      /\ HistoryPipelined => occ = rows[n].media
      /\ closed' = (IF HistoryPipelined THEN n ELSE closed)
      /\ committed' = mark
      /\ todo' = first \o RowOutcome(h, n).tasks
      /\ h' = RowOutcome(h, n).locals
      /\ occ' = 0 /\ pending' = pending
  BY <1>2, <1>3, <1>4 DEF ScanRow, At, Own, Local, world, checkpoint
<1>6. /\ runState # "absent" /\ LocalsHold(h, {}) /\ h.scanned \in 0 .. h.end
      /\ h.scanned < h.end => h.rows = h.end
      /\ Len(h.batch) < BatchSize
      /\ Len(rows) \in Nat /\ h.scanned \in 0 .. Len(rows) /\ h.end \in 0 .. Len(rows)
      /\ pending \in Seq(PendingTransfer)
      /\ committed \in 0 .. Len(rows) /\ MediaHeld(committed)
      /\ closed \in committed .. Len(rows)
      /\ \A i \in 1 .. Len(pending) :
           pending[i].done => \E m \in media : m[1] = pending[i].key /\ m[2] = pending[i].occ
      /\ include =>
           /\ h.scanned <= closed
           /\ \A k \in 1 .. closed : \A o \in 1 .. rows[k].media : Stands(pending, k, o)
           /\ HistoryPipelined => \A o \in 1 .. occ : Stands(pending, n, o)
  BY <1>2, <1>5, ScanningKnows DEF Scanning
<1>7. n \in 1 .. Len(rows)
  BY <1>2, <1>5, <1>6
<1>8. PICK outcome : outcome = RowOutcome(h, n)
  OBVIOUS
<1>9. PICK p : p = h
  OBVIOUS
<1>10. /\ HistoryTasks(outcome.tasks, {})
       /\ LocalsHold(outcome.locals, ToSet(outcome.tasks))
       /\ outcome.locals.scanned = n /\ n <= outcome.locals.end
       /\ n < outcome.locals.end => outcome.locals.rows = outcome.locals.end
       /\ Len(outcome.locals.batch) < BatchSize
  <2>1. outcome = RowOutcome(p, n)
    BY <1>8, <1>9
  <2>2. LocalsHold(p, {}) /\ Len(p.batch) < BatchSize /\ p.scanned \in 0 .. p.end
        /\ (p.scanned < p.end => p.rows = p.end) /\ n = p.scanned + 1
    BY <1>2, <1>6, <1>9
  <2> HIDE DEF LocalsHold
  <2> QED
    BY <1>1, <1>6, <1>7, <2>1, <2>2, RowFollows
<1>11. HistoryPipelined => include /\ n > committed /\ n - 1 <= closed
  BY <1>2, <1>5, <1>6 DEF HistoryPipelined
<1>12. HistoryPipelined => mark \in committed .. n /\ MediaHeld(mark)
  <2> SUFFICES ASSUME HistoryPipelined PROVE mark \in committed .. n /\ MediaHeld(mark)
    OBVIOUS
  <2>1. n \in committed .. Len(rows) /\ mark = Watermark(pending, committed, n)
    BY <1>3, <1>6, <1>7, <1>11
  <2>2. ASSUME NEW k \in committed + 1 .. n, NEW o \in 1 .. rows[k].media
        PROVE  Stands(pending, k, o)
    <3>1. CASE k = n
      BY <1>5, <1>6, <1>11, <2>2, <3>1
    <3>2. CASE k # n
      <4>1. k \in 1 .. closed
        BY <1>2, <1>6, <1>7, <1>11, <3>2
      <4> QED
        BY <1>6, <1>11, <2>2, <4>1
    <3> QED
      BY <3>1, <3>2
  <2>3. PICK queue, from : queue = pending /\ from = committed
    OBVIOUS
  <2>4. \A k \in from + 1 .. n : \A o \in 1 .. rows[k].media : Stands(queue, k, o)
    BY <2>2, <2>3
  <2>5. MediaHeld(from) /\ from \in 0 .. Len(rows) /\ n \in from .. Len(rows)
    BY <1>6, <2>1, <2>3
  <2>6. Watermark(queue, from, n) \in from .. n /\ MediaHeld(Watermark(queue, from, n))
    BY <1>1, <2>4, <2>5, BehindWatermark
  <2> QED
    BY <2>1, <2>3, <2>6
<1>13. mark \in 0 .. Len(rows) /\ MediaHeld(mark)
  BY <1>3, <1>6, <1>7, <1>12
<1>14. HistoryTasks(first, {})
  <2>1. HistoryTasks(<<>>, {})
    BY FollowOne DEF HistoryTasks
  <2> QED
    BY <1>4, <1>13, <2>1, PersistFollows
<1>15. /\ HistoryTasks(todo', {}) /\ LocalsHold(h', ToSet(todo'))
       /\ h'.scanned = n /\ n <= h'.end
       /\ n < h'.end => h'.rows = h'.end
       /\ Len(h'.batch) < BatchSize
  <2>1. todo' = first \o outcome.tasks /\ h' = outcome.locals
    BY <1>5, <1>8
  <2>2. PICK tasks, locals : tasks = outcome.tasks /\ locals = outcome.locals
    OBVIOUS
  <2>3. HistoryTasks(first \o tasks, {}) /\ ToSet(tasks) \subseteq ToSet(first \o tasks)
    BY <1>10, <1>14, <2>2, HistoryThen
  <2>4. LocalsHold(locals, ToSet(first \o tasks))
    BY <1>10, <2>2, <2>3, LocalsAfter
  <2> QED
    BY <1>10, <2>1, <2>2, <2>3, <2>4
<1>16. /\ h'.end \in Nat /\ h'.scanned \in 0 .. h'.end
  BY <1>7, <1>15 DEF LocalsHold, Locals
<1>17. UNCHANGED <<rows, include, media>>
  BY <1>5 DEF Own, Local, target
<1>18. MediaInv'
  <2>1. MediaHeld(committed)' /\ committed' \in 0 .. Len(rows)
    <3>1. MediaHeld(mark)'
      BY <1>13, <1>17 DEF MediaHeld
    <3> QED
      BY <1>5, <1>13, <3>1 DEF MediaHeld
  <2>2. closed' \in committed' .. Len(rows)
    BY <1>3, <1>5, <1>6, <1>7, <1>12
  <2>3. include => h'.scanned <= closed'
    <3>1. CASE HistoryPipelined
      BY <1>5, <1>7, <1>15, <3>1
    <3>2. CASE include /\ ~HistoryPipelined
      <4>1. n <= committed
        BY <1>2, <1>5, <1>6, <3>2 DEF HistoryPipelined
      <4> QED
        BY <1>5, <1>6, <1>7, <1>15, <3>2, <4>1
    <3> QED
      BY <3>1, <3>2
  <2>4. \A k, o : Stands(pending, k, o) => Stands(pending, k, o)'
    BY <1>5, <1>17 DEF Stands
  <2>5. include => \A k \in 1 .. closed' : \A o \in 1 .. rows[k].media : Stands(pending, k, o)
    <3> SUFFICES ASSUME include, NEW k \in 1 .. closed', NEW o \in 1 .. rows[k].media
        PROVE  Stands(pending, k, o)
      OBVIOUS
    <3>1. CASE k \in 1 .. closed
      BY <1>6, <3>1
    <3>2. CASE k \notin 1 .. closed
      <4>1. HistoryPipelined /\ k = n
        BY <1>2, <1>5, <1>6, <1>7, <1>11, <3>2
      <4> QED
        BY <1>5, <1>6, <4>1
    <3> QED
      BY <3>1, <3>2
  <2>6. /\ Scanning' = Scanning /\ PendingTransfer' = PendingTransfer
        /\ occ' \in Nat /\ \A o : o \notin 1 .. occ'
        /\ pc' # "drain"
    BY <1>5 DEF Scanning, PendingTransfer
  <2> QED
    BY <1>5, <1>6, <1>17, <2>1, <2>2, <2>3, <2>4, <2>5, <2>6 DEF MediaInv
<1> QED
  BY <1>5, <1>15, <1>16, <1>18, HistoryKeeps DEF Scanning

(* The rest of the batch.                                                  *)
LEMMA EndRowsKeeps ==
  ASSUME ImportInv, EndRows PROVE ImportInv'
<1>1. TargetInv
  BY DEF ImportInv
<1>2. /\ Own /\ pc = "history" /\ pc' = "drain" /\ todo = <<>> /\ mem' = mem /\ seen' = seen
      /\ h.scanned = Len(rows)
      /\ todo' = LastOutcome(h).tasks /\ h' = LastOutcome(h).locals
      /\ UNCHANGED <<pending, committed, closed>>
  BY DEF EndRows, At, Own, Local, world, checkpoint, pipeline
<1>3. /\ runState # "absent" /\ LocalsHold(h, {}) /\ h.scanned \in 0 .. h.end
      /\ h.end \in 0 .. Len(rows) /\ Len(rows) \in Nat
      /\ pending \in Seq(PendingTransfer)
      /\ committed \in 0 .. Len(rows) /\ MediaHeld(committed)
      /\ closed \in committed .. Len(rows)
      /\ \A i \in 1 .. Len(pending) :
           pending[i].done => \E m \in media : m[1] = pending[i].key /\ m[2] = pending[i].occ
      /\ include =>
           /\ h.scanned <= closed
           /\ \A k \in 1 .. closed : \A o \in 1 .. rows[k].media : Stands(pending, k, o)
  BY <1>2, ScanningKnows DEF Scanning
<1>4. PICK p : p = h
  OBVIOUS
<1>5. LocalsHold(p, {}) /\ p.end = Len(rows) /\ p.scanned = Len(rows)
  BY <1>2, <1>3, <1>4
<1>6. /\ HistoryTasks(LastOutcome(p).tasks, {})
      /\ LocalsHold(LastOutcome(p).locals, ToSet(LastOutcome(p).tasks))
      /\ LastOutcome(p).locals.scanned = p.scanned /\ LastOutcome(p).locals.end = p.end
      /\ LastOutcome(p).locals.rows = p.end
  BY <1>1, <1>3, <1>5, LastFollows
<1>7. /\ HistoryTasks(todo', {}) /\ LocalsHold(h', ToSet(todo'))
      /\ h'.scanned = Len(rows) /\ h'.end = Len(rows) /\ h'.rows = Len(rows)
  BY <1>2, <1>4, <1>5, <1>6
<1>8. UNCHANGED <<rows, include, media>>
  BY <1>2 DEF Own, Local, target
<1>9. MediaInv'
  <2>1. MediaHeld(committed)'
    BY <1>2, <1>3, <1>8 DEF MediaHeld
  <2>2. \A k, o : Stands(pending, k, o) => Stands(pending, k, o)'
    BY <1>2, <1>8 DEF Stands
  <2>3. Scanning' = Scanning /\ PendingTransfer' = PendingTransfer /\ pc' # "history"
    BY <1>2 DEF Scanning, PendingTransfer
  <2>4. include => closed = Len(rows)
    BY <1>2, <1>3
  <2> QED
    BY <1>2, <1>3, <1>7, <1>8, <2>1, <2>2, <2>3, <2>4 DEF MediaInv
<1>10. h'.scanned \in 0 .. h'.end
  BY <1>3, <1>7
<1> QED
  BY <1>2, <1>7, <1>9, <1>10, HistoryKeeps DEF Scanning

(* The oldest transfer is done.                                            *)
LEMMA DrainKeeps ==
  ASSUME ImportInv, DrainMedia PROVE ImportInv'
<1>1. TargetInv
  BY DEF ImportInv
<1>2. PICK queue : queue = Tail(pending)
  OBVIOUS
<1>3. PICK mark : mark = Watermark(queue, committed, closed)
  OBVIOUS
<1>4. /\ Own /\ pc \in Scanning /\ pc' = pc /\ todo = <<>> /\ mem' = mem /\ seen' = seen
      /\ h' = h /\ UNCHANGED <<occ, closed>>
      /\ pending # <<>> /\ Head(pending).done /\ pending' = queue
      /\ committed' = mark /\ todo' = PersistTasks(mark)
  BY <1>2, <1>3 DEF DrainMedia, At, Own, Local, world, checkpoint, Scanning
<1>5. /\ runState # "absent" /\ LocalsHold(h, {}) /\ h.scanned \in 0 .. h.end
      /\ h.scanned < h.end \/ pc # "history" => h.rows = h.end
      /\ pc = "history" => Len(h.batch) < BatchSize
      /\ pc = "drain" => h.rows = Len(rows)
      /\ Len(rows) \in Nat
      /\ pending \in Seq(PendingTransfer)
      /\ committed \in 0 .. Len(rows) /\ MediaHeld(committed)
      /\ closed \in committed .. Len(rows)
      /\ \A i \in 1 .. Len(pending) :
           pending[i].done => \E m \in media : m[1] = pending[i].key /\ m[2] = pending[i].occ
      /\ include =>
           /\ h.scanned <= closed
           /\ \A n \in 1 .. closed : \A o \in 1 .. rows[n].media : Stands(pending, n, o)
           /\ pc = "history" /\ HistoryPipelined =>
                occ \in Nat /\ \A o \in 1 .. occ : Stands(pending, h.scanned + 1, o)
           /\ pc = "drain" => closed = Len(rows)
  BY <1>4, ScanningKnows
<1>6. /\ queue \in Seq(PendingTransfer) /\ Len(pending) \in Nat \ {0}
      /\ Len(queue) = Len(pending) - 1 /\ Head(pending) = pending[1]
      /\ \A i \in 1 .. Len(pending) - 1 : queue[i] = pending[i + 1]
      /\ \A n, o : Stands(pending, n, o) => Stands(queue, n, o)
  <2>1. /\ queue \in Seq(PendingTransfer) /\ Len(pending) \in Nat \ {0}
        /\ Len(queue) = Len(pending) - 1 /\ Head(pending) = pending[1]
        /\ \A i \in 1 .. Len(pending) - 1 : queue[i] = pending[i + 1]
        /\ \A n, o : Stands(pending, n, o)
             /\ (\E m \in media : m[1] = pending[1].key /\ m[2] = pending[1].occ)
             => Stands(queue, n, o)
    BY <1>2, <1>4, <1>5, ShorterQueue
  <2>2. 1 \in 1 .. Len(pending) /\ pending[1].done
    BY <1>4, <2>1
  <2>3. \E m \in media : m[1] = pending[1].key /\ m[2] = pending[1].occ
    BY <1>5, <2>2
  <2> QED
    BY <2>1, <2>3
<1>7. mark \in committed .. closed /\ MediaHeld(mark)
  <2>1. PICK from, last : from = committed /\ last = closed
    OBVIOUS
  <2>2. include => \A n \in from + 1 .. last : \A o \in 1 .. rows[n].media : Stands(queue, n, o)
    <3> SUFFICES ASSUME include, NEW n \in from + 1 .. last, NEW o \in 1 .. rows[n].media
        PROVE  Stands(queue, n, o)
      OBVIOUS
    <3>1. n \in 1 .. closed
      BY <1>5, <2>1
    <3> QED
      BY <1>5, <1>6, <3>1
  <2>3. MediaHeld(from) /\ from \in 0 .. Len(rows) /\ last \in from .. Len(rows)
    BY <1>5, <2>1
  <2>4. Watermark(queue, from, last) \in from .. last /\ MediaHeld(Watermark(queue, from, last))
    BY <1>1, <2>2, <2>3, BehindWatermark
  <2> QED
    BY <1>3, <2>1, <2>4
<1>8. mark \in 0 .. Len(rows) /\ closed \in mark .. Len(rows)
  BY <1>5, <1>7
<1>9. HistoryTasks(todo', {})
  BY <1>4, <1>7, <1>8, PersistFollows
<1>10. LocalsHold(h', ToSet(todo'))
  <2>1. PICK p : p = h
    OBVIOUS
  <2>2. LocalsHold(p, ToSet(todo'))
    BY <1>5, <2>1, LocalsAfter
  <2> QED
    BY <1>4, <2>1, <2>2
<1>11. UNCHANGED <<rows, include, media>>
  BY <1>4 DEF Own, Local, target
<1>12. MediaInv'
  <2>1. MediaHeld(committed)'
    <3>1. MediaHeld(mark)'
      BY <1>7, <1>11 DEF MediaHeld
    <3> QED
      BY <1>4, <3>1 DEF MediaHeld
  <2>2. \A k, o : Stands(pending, k, o) => Stands(pending, k, o)'
    <3>1. \A k, o : Stands(queue, k, o) => Stands(pending, k, o)'
      BY <1>4, <1>11 DEF Stands
    <3> QED
      BY <1>6, <3>1
  <2>3. Scanning' = Scanning /\ PendingTransfer' = PendingTransfer
    BY DEF Scanning, PendingTransfer
  <2>4. ASSUME NEW i \in 1 .. Len(queue), queue[i].done
        PROVE  \E m \in media : m[1] = queue[i].key /\ m[2] = queue[i].occ
    <3>1. i + 1 \in 1 .. Len(pending) /\ queue[i] = pending[i + 1]
      BY <1>6
    <3> QED
      BY <1>5, <2>4, <3>1
  <2>5. pc = "history" /\ include => (HistoryPipelined' => HistoryPipelined)
    <3> SUFFICES ASSUME pc = "history", include, ~HistoryPipelined PROVE ~HistoryPipelined'
      OBVIOUS
    <3> QED
      BY <1>4, <1>5, <1>7, <1>11 DEF HistoryPipelined
  <2>6. ~(pc = "drain") => pc = "history"
    BY <1>4 DEF Scanning
  <2> QED
    BY <1>4, <1>5, <1>6, <1>8, <1>11, <2>1, <2>2, <2>3, <2>4, <2>5 DEF MediaInv
<1>13. pc' = "history" \/ pc' = "drain"
  BY <1>4 DEF Scanning
<1> QED
  BY <1>4, <1>5, <1>9, <1>10, <1>12, HistoryKeeps

-----------------------------------------------------------------------------
(* What the worker knows behind the history when nothing is to do.         *)
LEMMA LaterKnows ==
  ASSUME ImportInv, pc \in {"drain"} \union Later, todo = <<>>
  PROVE  /\ mem.phase = IF pc = "drain" THEN "history" ELSE pc
         /\ mem # NoState /\ runState # "absent" /\ config = seen /\ seen \in 1 .. revision
         /\ LocalsHold(h, {}) /\ h.rows = h.end /\ h.end \in 0 .. Len(rows) /\ Len(rows) \in Nat
         /\ committed \in 0 .. Len(rows) /\ MediaHeld(committed)
         /\ ~LateSave => h.rows = Len(rows) /\ mem = ckpt
         /\ pc = "drain" => h.rows = Len(rows)
<1>1. TargetInv /\ PlaceInv /\ LocalsInv /\ MediaInv /\ SyncInv /\ Working
  BY DEF ImportInv, Working, Scanning
<1>2. ToSet(todo) = {}
  BY FollowOne
<1>3. pc # "idle" /\ pc # "refresh" /\ pc # "history"
  BY DEF Later
<1>4. /\ runState # "absent" /\ config = seen /\ seen \in 1 .. revision /\ mem # NoState
      /\ mem.phase = IF pc = "drain" THEN "history" ELSE pc
  BY <1>1, <1>2, <1>3 DEF PlaceInv, Scanning, Later
<1>5. /\ LocalsHold(h, {}) /\ h.rows = h.end
      /\ pc = "drain" => h.rows = Len(rows)
  BY <1>1, <1>2, <1>3 DEF LocalsInv
<1>6. Len(rows) \in Nat /\ h.end \in 0 .. Len(rows)
  BY <1>1, <1>5 DEF TargetInv, LocalsHold
<1>7. ~LateSave => h.rows = Len(rows) /\ mem = ckpt
  BY <1>1, <1>3, <1>5 DEF SyncInv
<1> QED
  BY <1>1, <1>4, <1>5, <1>6, <1>7 DEF MediaInv

(* A step from the history to the last phase: tasks that do not finish,    *)
(* and that enter the phase in which the worker goes on.                   *)
LEMMA LaterKeeps ==
  ASSUME ImportInv, Own, pc \in {"drain", "run_files", "logged_artifacts"}, pc' \in Later,
         todo = <<>>, mem' = mem, seen' = seen, h' = h, committed' = committed,
         IsSequence(todo'), Follow(todo', {}),
         \A t \in ToSet(todo') :
           /\ ~FinishTask(t) /\ (PhaseSave(t) => t.arg.phase = pc')
           /\ t.op = "save" /\ "rows" \in DOMAIN t.arg => t.arg.rows = Len(rows)
           /\ pc = "drain" /\ PhaseSave(t) => "rows" \in DOMAIN t.arg,
         pc' = pc \/ \E t \in ToSet(todo') : PhaseSave(t),
         pending' \in Seq(PendingTransfer), ArtifactInv'
  PROVE  ImportInv'
<1>1. /\ TargetInv /\ PlaceInv /\ ClaimsInv /\ SyncInv
  BY DEF ImportInv
<1>2. /\ TargetInv' /\ Grows /\ ClaimsInv'
      /\ UNCHANGED <<rows, include, revision, runState, config, summary, media, artifacts>>
      /\ Expected' = Expected /\ (LateSave' <=> LateSave) /\ (LateFinish' <=> LateFinish)
      /\ \A t : PhaseSave(t)' <=> PhaseSave(t)
      /\ \A t : FinishTask(t)' <=> FinishTask(t)
      /\ Scanning' = Scanning /\ Later' = Later
      /\ ToSet(todo)' = ToSet(todo')
  BY OwnKeeps
<1>3. pc \in {"drain"} \union Later /\ pc # "idle"
  BY DEF Later
<1>4. /\ mem.phase = IF pc = "drain" THEN "history" ELSE pc
      /\ mem # NoState /\ runState # "absent" /\ config = seen /\ seen \in 1 .. revision
      /\ LocalsHold(h, {}) /\ h.rows = h.end /\ h.end \in 0 .. Len(rows) /\ Len(rows) \in Nat
      /\ committed \in 0 .. Len(rows) /\ MediaHeld(committed)
      /\ ~LateSave => h.rows = Len(rows) /\ mem = ckpt
      /\ pc = "drain" => h.rows = Len(rows)
  BY <1>3, LaterKnows
<1>5. runState = "finished" => LateFinish
  BY <1>1, <1>3 DEF PlaceInv, Working, Scanning
<1>6. PlaceInv'
  <2>1. /\ pc' \notin Scanning /\ pc' \notin {"idle", "refresh", "target", "end"}
    BY DEF Scanning, Later
  <2>2. mem'.phase = pc' \/ \E t \in ToSet(todo') : PhaseSave(t)
    BY <1>4, <2>1 DEF Later
  <2> QED
    BY <1>2, <1>4, <1>5, <2>1, <2>2 DEF PlaceInv, Working
<1>7. LocalsInv'
  <2>1. LocalsHold(h', ToSet(todo'))
    <3>1. PICK p : p = h
      OBVIOUS
    <3>2. LocalsHold(p, ToSet(todo'))
      BY <1>4, <3>1, LocalsAfter
    <3> QED
      BY <3>1, <3>2
  <2>2. LocalsHold(h, ToSet(todo))'
    BY <1>1, <1>2, <1>4, <2>1, NewLocalsHold
  <2>3. h.scanned \in 0 .. h.end
    BY <1>1, <1>3 DEF ImportInv, LocalsInv, Working, Scanning
  <2>4. pc' # "history" /\ pc' # "drain"
    BY DEF Later
  <2> QED
    BY <1>2, <1>4, <2>2, <2>3, <2>4 DEF LocalsInv
<1>8. MediaInv'
  <2>1. MediaHeld(committed)'
    BY <1>2, <1>4 DEF MediaHeld
  <2>2. pc' \notin Scanning' /\ PendingTransfer' = PendingTransfer
    BY DEF Scanning, Later, PendingTransfer
  <2> QED
    BY <1>2, <1>4, <2>1, <2>2 DEF MediaInv
<1>9. SyncInv'
  <2>1. late' = late /\ ckpt' = ckpt
    BY DEF Own
  <2> SUFFICES ASSUME ~LateSave
      PROVE  /\ mem' = ckpt /\ h'.rows = Len(rows)
             /\ ckpt # NoState /\ ckpt.phase # "history" => ckpt.rows = Len(rows)
             /\ \A t \in ToSet(todo') :
                  t.op = "save" =>
                    /\ "rows" \in DOMAIN t.arg => t.arg.rows = Len(rows)
                    /\ PhaseSave(t) =>
                         "rows" \in DOMAIN t.arg \/ (ckpt # NoState /\ ckpt.rows = Len(rows))
             /\ runState = "finished" => summary = Expected
             /\ Len(late) = 1 /\ FinishTask(late[1]) => late[1].arg = Expected
    BY <1>2, <2>1 DEF SyncInv
  <2>2. pc # "drain" => ckpt # NoState /\ ckpt.rows = Len(rows)
    BY <1>1, <1>4 DEF SyncInv
  <2> QED
    BY <1>1, <1>4, <2>2 DEF SyncInv
<1>10. RecoverInv'
  <2>1. ~(~LateSave /\ ~lost /\ Concluding)
    BY DEF ImportInv, RecoverInv
  <2>2. pc \notin {"idle", "refresh", "target", "finalize", "end"}
    OBVIOUS
  <2> QED
    BY <2>1, <2>2, RecoverKept
<1> QED
  BY <1>2, <1>6, <1>7, <1>8, <1>9, <1>10 DEF ImportInv

(* A claim of the points of all rows, from where the next batch begins.    *)
LEMMA AllPointsHeld ==
  ASSUME TargetInv, Boundary(PointsThrough(Len(rows)) + 1, {}), NEW sent
  PROVE  PointsHeld(PointsThrough(Len(rows)), sent)
<1>1. PointsThrough(Len(rows)) \in Nat /\ Len(stored) \in Nat
  BY PointTyped DEF TargetInv
<1>2. ASSUME NEW b \in batches, b[1].seq = PointsThrough(Len(rows)) + 1 PROVE FALSE
  <2>1. IsBatch(b)
    BY DEF TargetInv
  <2>2. /\ Len(b) \in Nat /\ Len(b) >= 1 /\ b[1].seq \in Nat
        /\ LastSequence(b) = b[1].seq + Len(b) - 1
        /\ LastSequence(b) <= PointsThrough(Len(rows))
    BY <2>1, BatchTyped
  <2> QED
    BY <1>1, <1>2, <2>2
<1>3. PointsThrough(Len(rows)) + 1 = Len(stored) + 1
  BY <1>2 DEF Boundary
<1> QED
  BY <1>1, <1>3 DEF PointsHeld

(* The history is all there: the next phase begins.                        *)
LEMMA EndHistoryKeeps ==
  ASSUME ImportInv, EndHistory PROVE ImportInv'
<1>1. TargetInv /\ MediaInv
  BY DEF ImportInv
<1>2. PICK next : next = IF include THEN "run_files" ELSE "finalize"
  OBVIOUS
<1>3. PICK fields : fields = [phase |-> next, rows |-> h.rows, media |-> committed,
                              seq |-> h.seq, unsupported |-> h.unsupported]
  OBVIOUS
<1>4. PICK marked : marked = [media |-> committed]
  OBVIOUS
<1>5. /\ Own /\ pc = "drain" /\ pc' = next /\ todo = <<>> /\ mem' = mem /\ seen' = seen
      /\ h' = h /\ UNCHANGED <<committed, pending>> /\ pending = <<>>
      /\ todo' = (IF committed = mem.media THEN <<>> ELSE Save(marked)) \o Save(fields)
  BY <1>2, <1>3, <1>4 DEF EndHistory, At, Own, Local, world, checkpoint, pipeline
<1>6. /\ LocalsHold(h, {}) /\ h.rows = h.end /\ h.rows = Len(rows)
      /\ Len(rows) \in Nat /\ committed \in 0 .. Len(rows) /\ MediaHeld(committed)
  BY <1>5, LaterKnows
<1>7. /\ DOMAIN fields = {"phase", "rows", "media", "seq", "unsupported"}
      /\ fields.phase = next /\ fields.rows = Len(rows) /\ fields.media = committed
      /\ fields.seq = h.seq /\ fields.unsupported = h.unsupported
      /\ DOMAIN marked = {"media"} /\ marked.media = committed
  BY <1>3, <1>4, <1>6
<1>8. MediaHeld(Len(rows))
  <2> SUFFICES ASSUME include, NEW k \in 1 .. Len(rows), NEW o \in 1 .. rows[k].media
      PROVE  \E m \in media : m[1] = k /\ m[2] = o
    BY DEF MediaHeld
  <2>1. Stands(pending, k, o)
    BY <1>1, <1>5 DEF MediaInv, Scanning
  <2>2. \A i : i \notin 1 .. Len(pending)
    BY <1>5
  <2> QED
    BY <2>1, <2>2 DEF Stands
<1>9. \A sent : RowsHold(fields, sent) /\ PhaseHeld(next, sent)
  <2> TAKE sent
  <2>1. /\ h.seq = PointsThrough(Len(rows)) + 1 /\ Boundary(h.seq, {})
        /\ h.unsupported = SkippedThrough(Len(rows))
    BY <1>6 DEF LocalsHold
  <2>2. Boundary(h.seq, sent) /\ PointsHeld(PointsThrough(Len(rows)), sent)
    BY <1>1, <2>1, AllPointsHeld DEF Boundary
  <2>3. RowsHold(fields, sent)
    BY <1>6, <1>7, <2>1, <2>2 DEF RowsHold
  <2>4. PhaseHeld(next, sent)
    BY <1>2, <1>8, <2>2 DEF PhaseHeld
  <2> QED
    BY <2>3, <2>4
<1>10. \A sent : SaveHolds(fields, sent) /\ SaveHolds(marked, sent)
  BY <1>1, <1>6, <1>7, <1>9, FreshHolds DEF SaveHolds, FieldNames
<1>11. PICK first : first = IF committed = mem.media THEN <<>> ELSE Save(marked)
  OBVIOUS
<1>12. /\ IsSequence(first) /\ Follow(first, {})
       /\ \A t \in ToSet(first) : t = [op |-> "save", arg |-> marked]
  BY <1>10, <1>11, SaveFollows, FollowOne
<1>13. /\ IsSequence(todo') /\ Follow(todo', {})
       /\ \A t \in ToSet(todo') :
            t = [op |-> "save", arg |-> marked] \/ t = [op |-> "save", arg |-> fields]
       /\ [op |-> "save", arg |-> fields] \in ToSet(todo')
  BY <1>5, <1>10, <1>11, <1>12, SaveFollows, ThenFollows
<1>14. PhaseSave([op |-> "save", arg |-> fields])
  BY <1>7 DEF PhaseSave
<1>15. \A t \in ToSet(todo') :
         /\ ~FinishTask(t) /\ (PhaseSave(t) => t.arg.phase = pc')
         /\ t.op = "save" /\ "rows" \in DOMAIN t.arg => t.arg.rows = Len(rows)
         /\ PhaseSave(t) => "rows" \in DOMAIN t.arg
  <2> TAKE t \in ToSet(todo')
  <2>1. t.op = "save" /\ (t.arg = marked \/ t.arg = fields)
    BY <1>13
  <2> QED
    BY <1>5, <1>7, <2>1 DEF FinishTask, PhaseSave
<1>16. pc' \in Later
  BY <1>2, <1>5 DEF Later
<1>17. pending' \in Seq(PendingTransfer) /\ ArtifactInv'
  BY <1>2, <1>5 DEF ArtifactInv
<1> QED
  BY <1>5, <1>13, <1>14, <1>15, <1>16, <1>17, LaterKeeps

(* The files are imported.                                                 *)
LEMMA FilesKeep ==
  ASSUME ImportInv, ImportFiles PROVE ImportInv'
<1>1. TargetInv /\ MediaInv /\ ArtifactInv
  BY DEF ImportInv
<1>2. PICK fields : fields = [phase |-> "logged_artifacts"]
  OBVIOUS
<1>3. PICK first : first = IF mem.filesDone THEN <<>> ELSE FileTasks
  OBVIOUS
<1>4. /\ Own /\ pc = "run_files" /\ pc' = "logged_artifacts" /\ todo = <<>> /\ mem' = mem
      /\ seen' = seen /\ h' = h /\ UNCHANGED <<committed, pending>>
      /\ todo' = first \o Save(fields)
  BY <1>2, <1>3 DEF ImportFiles, At, Own, Local, world, checkpoint, pipeline
<1>5. DOMAIN fields = {"phase"} /\ fields.phase = "logged_artifacts"
  BY <1>2
<1>6. runState # "absent" /\ mem.phase = "run_files"
  BY <1>4, LaterKnows DEF Later
<1>7. /\ mem.files \in Nat /\ FilesHeld(mem.files, {})
      /\ mem.filesDone \in BOOLEAN /\ (mem.filesDone = TRUE => FilesHeld(Files, {}))
      /\ PhaseHeld("run_files", {})
  BY <1>4, <1>6, KnownEntry
<1>8. PICK done : done = mem.files
  OBVIOUS
<1>9. /\ IsSequence(FileTasks) /\ Follow(FileTasks, {})
      /\ FilesHeld(Files, ToSet(FileTasks)) /\ \A t \in ToSet(FileTasks) : FileTask(t)
  BY <1>1, <1>6, <1>7, <1>8, FilesFollow
<1>10. /\ IsSequence(first) /\ Follow(first, {})
       /\ FilesHeld(Files, ToSet(first)) /\ \A t \in ToSet(first) : FileTask(t)
  <2>1. CASE mem.filesDone
    <3>1. mem.filesDone = TRUE
      BY <1>7, <2>1
    <3>2. first = <<>> /\ FilesHeld(Files, {})
      BY <1>3, <1>7, <2>1, <3>1
    <3>3. FilesHeld(Files, ToSet(first))
      BY <3>2, FollowOne
    <3> QED
      BY <3>2, <3>3, FollowOne
  <2>2. CASE ~mem.filesDone
    BY <1>3, <1>9, <2>2
  <2> QED
    BY <2>1, <2>2
<1>11. SaveHolds(fields, ToSet(first))
  <2>1. PhaseHeld("logged_artifacts", ToSet(first))
    BY <1>7, <1>10 DEF PhaseHeld, PointsHeld
  <2> QED
    BY <1>1, <1>5, <2>1, FreshHolds DEF SaveHolds, FieldNames
<1>12. /\ IsSequence(todo') /\ Follow(todo', {})
       /\ \A t \in ToSet(todo') : FileTask(t) \/ t = [op |-> "save", arg |-> fields]
       /\ [op |-> "save", arg |-> fields] \in ToSet(todo')
  BY <1>4, <1>10, <1>11, SaveFollows, ThenFollows
<1>13. PhaseSave([op |-> "save", arg |-> fields])
  BY <1>5 DEF PhaseSave
<1>14. \A t \in ToSet(todo') :
         /\ ~FinishTask(t) /\ (PhaseSave(t) => t.arg.phase = pc')
         /\ t.op = "save" /\ "rows" \in DOMAIN t.arg => t.arg.rows = Len(rows)
  <2> TAKE t \in ToSet(todo')
  <2>1. CASE t.op = "save" /\ t.arg = fields
    BY <1>4, <1>5, <2>1 DEF FinishTask, PhaseSave
  <2>2. CASE FileTask(t)
    BY <2>2 DEF FileTask, FinishTask, PhaseSave
  <2> QED
    BY <1>12, <2>1, <2>2
<1>15. pending' \in Seq(PendingTransfer) /\ ArtifactInv'
  BY <1>1, <1>4 DEF ArtifactInv, MediaInv
<1> QED
  BY <1>4, <1>12, <1>13, <1>14, <1>15, LaterKeeps DEF Later

(* An artifact is submitted.                                               *)
LEMMA SubmitKeeps ==
  ASSUME ImportInv, SubmitArtifact PROVE ImportInv'
<1>1. TargetInv /\ MediaInv /\ ArtifactInv
  BY DEF ImportInv
<1>2. PICK k : k = Submitted + 1
  OBVIOUS
<1>3. /\ Own /\ pc = "logged_artifacts" /\ pc' = pc /\ todo = <<>> /\ todo' = <<>> /\ mem' = mem
      /\ seen' = seen /\ h' = h /\ UNCHANGED <<committed, artifacts>>
      /\ pending' = Append(pending, Transfer(k, 0))
  BY <1>2 DEF SubmitArtifact, At, Own, Local, world, checkpoint, target
<1>4. mem.arts \in Nat /\ pending \in Seq(PendingTransfer)
  BY <1>1, <1>3, KnownEntry DEF MediaInv
<1>5. /\ pending # <<>> =>
           /\ \A i \in 1 .. Len(pending) :
                /\ pending[i].key = pending[1].key + i - 1
                /\ pending[i].done => \E a \in artifacts : a[1] = pending[i].key
           /\ pending[1].key = mem.arts + 1
  <2>1. todo # Save([arts |-> pending[1].key - 1])
    BY <1>3 DEF Save
  <2> QED
    BY <1>1, <1>3, <2>1 DEF ArtifactInv
<1>6. Len(pending) \in Nat /\ k = mem.arts + Len(pending) + 1 /\ k \in Nat
  <2>1. CASE pending = <<>>
    <3>1. Len(pending) = 0
      BY <2>1
    <3> QED
      BY <1>2, <1>4, <2>1, <3>1 DEF Submitted
  <2>2. CASE pending # <<>>
    <3>1. Len(pending) \in Nat \ {0}
      BY <1>4, <2>2
    <3>2. pending[Len(pending)].key = mem.arts + 1 + Len(pending) - 1
      BY <1>5, <2>2, <3>1
    <3> QED
      BY <1>2, <1>4, <2>2, <3>1, <3>2 DEF Submitted
  <2> QED
    BY <2>1, <2>2
<1>7. PICK x : x = Transfer(k, 0)
  OBVIOUS
<1>8. x \in PendingTransfer /\ x.key = k /\ x.done = FALSE
  BY <1>6, <1>7 DEF PendingTransfer, Transfer
<1>9. /\ pending' \in Seq(PendingTransfer)
      /\ Len(pending') = Len(pending) + 1 /\ pending'[Len(pending) + 1] = x
      /\ \A i \in 1 .. Len(pending) : pending'[i] = pending[i]
  BY <1>3, <1>4, <1>7, <1>8, LongerQueue
<1>10. pending'[1].key = mem.arts + 1
  <2>1. CASE pending = <<>>
    <3>1. Len(pending) = 0
      BY <2>1
    <3> QED
      BY <1>4, <1>6, <1>8, <1>9, <3>1
  <2>2. CASE pending # <<>>
    <3>1. 1 \in 1 .. Len(pending)
      BY <1>4, <2>2
    <3> QED
      BY <1>5, <1>9, <2>2, <3>1
  <2> QED
    BY <2>1, <2>2
<1>11. ASSUME NEW i \in 1 .. Len(pending')
       PROVE  /\ pending'[i].key = pending'[1].key + i - 1
              /\ pending'[i].done => \E a \in artifacts : a[1] = pending'[i].key
  <2>1. CASE i = Len(pending) + 1
    BY <1>4, <1>6, <1>8, <1>9, <1>10, <2>1
  <2>2. CASE i # Len(pending) + 1
    <3>1. i \in 1 .. Len(pending)
      BY <1>6, <1>9, <2>2
    <3>2. pending # <<>>
      BY <3>1
    <3> QED
      BY <1>4, <1>5, <1>9, <1>10, <3>1, <3>2
  <2> QED
    BY <2>1, <2>2
<1>12. ArtifactInv'
  BY <1>3, <1>10, <1>11 DEF ArtifactInv
<1>13. IsSequence(todo') /\ Follow(todo', {}) /\ ToSet(todo') = {}
  BY <1>3, FollowOne
<1> QED
  BY <1>3, <1>9, <1>12, <1>13, LaterKeeps DEF Later

(* An artifact is stored.                                                  *)
LEMMA UploadArtifactKeeps ==
  ASSUME ImportInv, UploadArtifact PROVE ImportInv'
<1>1. /\ TargetInv /\ PlaceInv /\ LocalsInv /\ MediaInv /\ ClaimsInv /\ ArtifactInv
  BY DEF ImportInv
<1>2. PICK i \in 1 .. Len(pending) :
        /\ pc = "logged_artifacts" /\ runState = "running"
        /\ artifacts' = artifacts \union {<<pending[i].key, revision>>}
        /\ pending' = [pending EXCEPT ![i].done = TRUE]
  BY DEF UploadArtifact
<1>3. /\ UNCHANGED <<rows, include, revision, late, lost, config, summary, shards, media,
                     runState, batches, stored, ckpt, mem, pc, todo, seen, h, occ, committed,
                     closed>>
      /\ Rests
  BY DEF UploadArtifact, Rests, serverVars, checkpoint, world
<1>4. pending \in Seq(PendingTransfer) /\ Len(pending) \in Nat /\ pending[i] \in PendingTransfer
      /\ pending # <<>>
  BY <1>1 DEF MediaInv
<1>5. PICK k : k = pending[i].key /\ k \in Nat
  BY <1>4 DEF PendingTransfer
<1>6. PICK m : m = <<k, revision>> /\ artifacts' = artifacts \union {m}
  BY <1>2, <1>5
<1>7. m[1] = k /\ m[2] = revision /\ m \in Nat \X Nat
  <2>1. revision \in Nat
    BY <1>1 DEF TargetInv
  <2> QED
    BY <1>5, <1>6, <2>1
<1>8. TargetInv' /\ Grows
  <2>1. artifacts \subseteq artifacts' /\ artifacts' \subseteq Nat \X Nat
        /\ \A x \in artifacts' \ artifacts : x[2] = revision
    BY <1>1, <1>6, <1>7 DEF TargetInv
  <2> QED
    BY <1>1, <1>2, <1>3, <2>1, AdditionGrows DEF TargetInv
<1>9. /\ pending' \in Seq(PendingTransfer) /\ Len(pending') = Len(pending)
      /\ \A j \in 1 .. Len(pending) :
           /\ pending'[j].key = pending[j].key
           /\ j # i => pending'[j].done = pending[j].done
  <2>1. PICK x : x = [pending[i] EXCEPT !.done = TRUE]
    OBVIOUS
  <2>2. x \in PendingTransfer /\ x.key = pending[i].key
    BY <1>4, <2>1 DEF PendingTransfer
  <2>3. pending' = [pending EXCEPT ![i] = x]
    BY <1>2, <2>1
  <2>4. /\ pending' \in Seq(PendingTransfer) /\ Len(pending') = Len(pending)
        /\ \A j \in 1 .. Len(pending) : pending'[j] = IF j = i THEN x ELSE pending[j]
    BY <1>4, <2>2, <2>3
  <2> QED
    BY <2>2, <2>4
<1>10. MediaInv'
  <2>1. (Working' <=> Working) /\ Scanning' = Scanning /\ PendingTransfer' = PendingTransfer
        /\ pc \notin Scanning
    BY <1>2, <1>3 DEF Working, Scanning, Later, PendingTransfer
  <2>2. Working => MediaHeld(committed)'
    BY <1>1, <1>3 DEF MediaInv, MediaHeld
  <2> QED
    BY <1>1, <1>3, <1>9, <2>1, <2>2 DEF MediaInv
<1>11. ArtifactInv'
  <2>1. /\ \A j \in 1 .. Len(pending) :
             /\ pending[j].key = pending[1].key + j - 1
             /\ pending[j].done => \E a \in artifacts : a[1] = pending[j].key
        /\ \/ todo = <<>> /\ pending[1].key = mem.arts + 1
           \/ todo = Save([arts |-> pending[1].key - 1])
    BY <1>1, <1>2, <1>4 DEF ArtifactInv
  <2>2. 1 \in 1 .. Len(pending)
    BY <1>4
  <2>3. ASSUME NEW j \in 1 .. Len(pending'), pending'[j].done
        PROVE  \E a \in artifacts' : a[1] = pending'[j].key
    <3>1. CASE j = i
      BY <1>5, <1>6, <1>7, <1>9, <3>1
    <3>2. CASE j # i
      BY <1>6, <1>9, <2>1, <2>3, <3>2
    <3> QED
      BY <3>1, <3>2
  <2>4. pending'[1].key = pending[1].key
    BY <1>9, <2>2
  <2>5. \A j \in 1 .. Len(pending') : pending'[j].key = pending'[1].key + j - 1
    BY <1>9, <2>1, <2>4
  <2>6. \/ todo' = <<>> /\ pending'[1].key = mem'.arts + 1
        \/ todo' = Save([arts |-> pending'[1].key - 1])
    BY <1>3, <2>1, <2>4
  <2> QED
    BY <1>2, <1>3, <2>3, <2>5, <2>6 DEF ArtifactInv, Save
<1>12. Working /\ runState' = "finished" => LateFinish'
  BY <1>1, <1>3 DEF PlaceInv, LateFinish
<1> QED
  BY <1>3, <1>8, <1>10, <1>11, <1>12, RestKeeps, SyncRests, LateStays, CheckpointStays
     DEF ImportInv

(* What stands in the queue of artifacts when nothing is to do.            *)
LEMMA QueueOfArtifacts ==
  ASSUME ImportInv, pc = "logged_artifacts", todo = <<>>, pending # <<>>
  PROVE  /\ pending[1].key = mem.arts + 1
         /\ \A i \in 1 .. Len(pending) :
              /\ pending[i].key = pending[1].key + i - 1
              /\ pending[i].done => \E a \in artifacts : a[1] = pending[i].key
<1>1. todo # Save([arts |-> pending[1].key - 1])
  BY DEF Save
<1> QED
  BY <1>1 DEF ImportInv, ArtifactInv

(* The result of the oldest transfer of an artifact.                       *)
LEMMA CollectKeeps ==
  ASSUME ImportInv, CollectArtifact PROVE ImportInv'
<1>1. TargetInv /\ MediaInv
  BY DEF ImportInv
<1>2. PICK queue, k : queue = Tail(pending) /\ k = pending[1].key
  OBVIOUS
<1>3. /\ Own /\ pc = "logged_artifacts" /\ pc' = pc /\ todo = <<>> /\ mem' = mem
      /\ seen' = seen /\ h' = h /\ UNCHANGED <<committed, artifacts>>
      /\ pending # <<>> /\ Head(pending).done
      /\ pending' = queue /\ todo' = Save([arts |-> Head(pending).key])
  BY <1>2 DEF CollectArtifact, At, Own, Local, world, checkpoint, target
<1>4. mem.arts \in Nat /\ ArtifactsHeld(mem.arts) /\ pending \in Seq(PendingTransfer)
  BY <1>1, <1>3, KnownEntry DEF MediaInv
<1>5. /\ k = mem.arts + 1
      /\ \A i \in 1 .. Len(pending) :
           /\ pending[i].key = k + i - 1
           /\ pending[i].done => \E a \in artifacts : a[1] = pending[i].key
  BY <1>2, <1>3, QueueOfArtifacts
<1>6. /\ queue \in Seq(PendingTransfer) /\ Len(pending) \in Nat \ {0}
      /\ Len(queue) = Len(pending) - 1 /\ Head(pending) = pending[1]
      /\ \A i \in 1 .. Len(pending) - 1 : queue[i] = pending[i + 1]
  BY <1>2, <1>3, <1>4, ShorterQueue
<1>7. \E a \in artifacts : a[1] = k
  <2>1. 1 \in 1 .. Len(pending)
    BY <1>6
  <2> QED
    BY <1>2, <1>3, <1>5, <1>6, <2>1
<1>8. ArtifactsHeld(k) /\ k \in Nat
  <2> SUFFICES ASSUME NEW i \in 1 .. k PROVE \E a \in artifacts : a[1] = i
    BY <1>4, <1>5 DEF ArtifactsHeld
  <2>1. CASE i = k
    BY <1>7, <2>1
  <2>2. CASE i # k
    <3>1. i \in 1 .. mem.arts
      BY <1>4, <1>5, <2>2
    <3> QED
      BY <1>4, <3>1 DEF ArtifactsHeld
  <2> QED
    BY <2>1, <2>2
<1>9. PICK fields : fields = [arts |-> k]
  OBVIOUS
<1>10. DOMAIN fields = {"arts"} /\ fields.arts = k /\ todo' = Save(fields)
  BY <1>2, <1>3, <1>6, <1>9
<1>11. SaveHolds(fields, {})
  BY <1>1, <1>8, <1>10, FreshHolds DEF SaveHolds, FieldNames
<1>12. /\ IsSequence(todo') /\ Follow(todo', {})
       /\ \A t \in ToSet(todo') : t = [op |-> "save", arg |-> fields]
  BY <1>10, <1>11, SaveFollows
<1>13. \A t \in ToSet(todo') :
         ~FinishTask(t) /\ ~PhaseSave(t) /\ (t.op = "save" => "rows" \notin DOMAIN t.arg)
  <2> TAKE t \in ToSet(todo')
  <2>1. t.op = "save" /\ t.arg = fields
    BY <1>12
  <2> QED
    BY <1>10, <2>1 DEF FinishTask, PhaseSave
<1>14. ArtifactInv'
  <2> SUFFICES ASSUME queue # <<>>
      PROVE  /\ \A i \in 1 .. Len(queue) :
                  /\ queue[i].key = queue[1].key + i - 1
                  /\ queue[i].done => \E a \in artifacts : a[1] = queue[i].key
             /\ todo' = Save([arts |-> queue[1].key - 1])
    BY <1>3 DEF ArtifactInv, Save
  <2>1. Len(queue) \in Nat \ {0}
    BY <1>6
  <2>2. ASSUME NEW i \in 1 .. Len(queue)
        PROVE  /\ queue[i].key = k + i
               /\ queue[i].done => \E a \in artifacts : a[1] = queue[i].key
    <3>1. i + 1 \in 1 .. Len(pending) /\ queue[i] = pending[i + 1] /\ (i + 1) - 1 = i
      BY <1>6
    <3>2. pending[i + 1].key = k + (i + 1) - 1
      BY <1>5, <3>1
    <3> QED
      BY <1>5, <1>8, <3>1, <3>2
  <2>3. queue[1].key = k + 1
    BY <2>1, <2>2
  <2>4. queue[1].key - 1 = k
    BY <1>8, <2>3
  <2>5. \A i \in 1 .. Len(queue) : queue[i].key = queue[1].key + i - 1
    BY <1>8, <2>2, <2>3
  <2> QED
    BY <1>9, <1>10, <2>2, <2>4, <2>5
<1> QED
  BY <1>3, <1>6, <1>12, <1>13, <1>14, LaterKeeps DEF Later

(* The artifacts are all there.                                            *)
LEMMA EndArtifactsKeeps ==
  ASSUME ImportInv, EndArtifacts PROVE ImportInv'
<1>1. TargetInv /\ MediaInv
  BY DEF ImportInv
<1>2. PICK ended, fields : ended = [arts |-> mem.arts, artsDone |-> TRUE]
                           /\ fields = [phase |-> "finalize"]
  OBVIOUS
<1>3. PICK first : first = IF mem.artsDone THEN <<>> ELSE Save(ended)
  OBVIOUS
<1>4. /\ Own /\ pc = "logged_artifacts" /\ pc' = "finalize" /\ todo = <<>> /\ mem' = mem
      /\ seen' = seen /\ h' = h /\ UNCHANGED <<committed, pending>> /\ pending = <<>>
      /\ mem.artsDone \/ mem.arts = Artifacts
      /\ todo' = first \o Save(fields)
  BY <1>2, <1>3 DEF EndArtifacts, At, Own, Local, world, checkpoint, pipeline
<1>5. mem.phase = "logged_artifacts"
  BY <1>4, LaterKnows DEF Later
<1>6. /\ mem.arts \in Nat /\ ArtifactsHeld(mem.arts)
      /\ mem.artsDone \in BOOLEAN /\ (mem.artsDone = TRUE => ArtifactsHeld(Artifacts))
      /\ PhaseHeld("logged_artifacts", {})
  BY <1>4, <1>5, KnownEntry
<1>7. ArtifactsHeld(Artifacts)
  BY <1>4, <1>6
<1>8. /\ DOMAIN fields = {"phase"} /\ fields.phase = "finalize"
      /\ DOMAIN ended = {"arts", "artsDone"} /\ ended.arts = mem.arts /\ ended.artsDone = TRUE
  BY <1>2
<1>9. \A sent : SaveHolds(ended, sent) /\ SaveHolds(fields, sent)
  <2> TAKE sent
  <2>1. PhaseHeld("finalize", sent)
    BY <1>6, <1>7 DEF PhaseHeld, PointsHeld, FilesHeld, ShardHeld
  <2>2. SaveHolds(ended, sent)
    BY <1>1, <1>6, <1>7, <1>8, FreshHolds DEF SaveHolds, FieldNames
  <2> QED
    BY <1>1, <1>8, <2>1, <2>2, FreshHolds DEF SaveHolds, FieldNames
<1>10. /\ IsSequence(first) /\ Follow(first, {})
       /\ \A t \in ToSet(first) : t = [op |-> "save", arg |-> ended]
  BY <1>3, <1>9, SaveFollows, FollowOne
<1>11. /\ IsSequence(todo') /\ Follow(todo', {})
       /\ \A t \in ToSet(todo') :
            t = [op |-> "save", arg |-> ended] \/ t = [op |-> "save", arg |-> fields]
       /\ [op |-> "save", arg |-> fields] \in ToSet(todo')
  <2>1. PICK second : second = Save(fields)
    OBVIOUS
  <2>2. SaveHolds(fields, ToSet(first))
    BY <1>9
  <2>3. /\ IsSequence(second) /\ Follow(second, ToSet(first))
        /\ ToSet(second) = {[op |-> "save", arg |-> fields]}
    BY <2>1, <2>2, SaveFollows
  <2>4. /\ IsSequence(first \o second) /\ Follow(first \o second, {})
        /\ ToSet(first \o second) = ToSet(first) \union ToSet(second)
    BY <1>10, <2>3, ThenFollows
  <2>5. todo' = first \o second
    BY <1>4, <2>1
  <2> QED
    BY <1>10, <2>3, <2>4, <2>5
<1>12. PhaseSave([op |-> "save", arg |-> fields])
  BY <1>8 DEF PhaseSave
<1>13. \A t \in ToSet(todo') :
         /\ ~FinishTask(t) /\ (PhaseSave(t) => t.arg.phase = pc')
         /\ "rows" \notin DOMAIN t.arg
  <2> TAKE t \in ToSet(todo')
  <2>1. t.op = "save" /\ (t.arg = ended \/ t.arg = fields)
    BY <1>11
  <2> QED
    BY <1>4, <1>8, <2>1 DEF FinishTask, PhaseSave
<1>14. pending' \in Seq(PendingTransfer) /\ ArtifactInv'
  BY <1>4 DEF ArtifactInv
<1> QED
  BY <1>4, <1>11, <1>12, <1>13, <1>14, LaterKeeps DEF Later

(* A target that holds everything, of a source that has not moved, is      *)
(* whole.                                                                  *)
LEMMA HeldIsWhole ==
  ASSUME TargetInv, PhaseHeld("finalize", {}), config = revision PROVE Whole
<1>1. /\ PointsHeld(PointsThrough(Len(rows)), {}) /\ MediaHeld(Len(rows))
      /\ include => FilesHeld(Files, {}) /\ ArtifactsHeld(Artifacts)
  BY DEF PhaseHeld
<1>2. \A v \in Revisions : v = config
  BY DEF Revisions, TargetInv
<1>3. PointsThrough(Len(rows)) \in Nat /\ Len(stored) \in Nat
      /\ \A p : IsPoint(p) => p \in HistoryPoint /\ p.seq \in 1 .. PointsThrough(Len(rows))
  BY PointTyped DEF TargetInv
<1>4. Len(stored) = PointsThrough(Len(rows))
  <2>1. PointsThrough(Len(rows)) <= Len(stored)
    BY <1>1 DEF PointsHeld
  <2>2. Len(stored) <= PointsThrough(Len(rows))
    <3>1. CASE Len(stored) = 0
      BY <1>3, <3>1
    <3>2. CASE Len(stored) # 0
      <4>1. Len(stored) \in 1 .. Len(stored)
        BY <1>3, <3>2
      <4>2. IsPoint(stored[Len(stored)]) /\ stored[Len(stored)].seq = Len(stored)
        BY <4>1 DEF TargetInv
      <4> QED
        BY <1>3, <4>2
    <3> QED
      BY <3>1, <3>2
  <2> QED
    BY <1>3, <2>1, <2>2
<1>5. ASSUME NEW q \in 1 .. Len(stored) PROVE stored[q].id[3] = config
  <2>1. IsPoint(stored[q])
    BY DEF TargetInv
  <2>2. PICK n, i : \E v \in Revisions :
          stored[q] = [seq |-> PointsThrough(n - 1) + i, id |-> <<n, i, v>>]
    BY <2>1 DEF IsPoint
  <2>3. PICK v \in Revisions :
          stored[q] = [seq |-> PointsThrough(n - 1) + i, id |-> <<n, i, v>>]
    BY <2>2
  <2>4. stored[q].id = <<n, i, v>> /\ <<n, i, v>>[3] = v
    BY <2>3
  <2> QED
    BY <1>2, <2>4
<1>6. ASSUME include, NEW n \in 1 .. Len(rows), NEW o \in 1 .. rows[n].media
      PROVE  <<n, o, config>> \in media
  <2>1. PICK m \in media : m[1] = n /\ m[2] = o
    BY <1>1, <1>6 DEF MediaHeld
  <2>2. m \in Nat \X Nat \X Nat /\ m[3] = config
    BY <1>2 DEF TargetInv
  <2>3. m = <<m[1], m[2], m[3]>>
    BY <2>2
  <2> QED
    BY <2>1, <2>2, <2>3
<1>7. ASSUME include, NEW first \in FirstFiles PROVE <<first, config>> \in shards
  <2>1. first < Files
    BY ImportLimits DEF FirstFiles
  <2>2. PICK s \in shards : s[1] = first
    BY <1>1, <1>7, <2>1 DEF FilesHeld, ShardHeld
  <2>3. s \in Nat \X Nat /\ s[2] = config
    BY <1>2 DEF TargetInv
  <2>4. s = <<s[1], s[2]>>
    BY <2>3
  <2> QED
    BY <2>2, <2>3, <2>4
<1>8. ASSUME include, NEW i \in 1 .. Artifacts PROVE <<i, config>> \in artifacts
  <2>1. PICK a \in artifacts : a[1] = i
    BY <1>1, <1>8 DEF ArtifactsHeld
  <2>2. a \in Nat \X Nat /\ a[2] = config
    BY <1>2 DEF TargetInv
  <2>3. a = <<a[1], a[2]>>
    BY <2>2
  <2> QED
    BY <2>1, <2>2, <2>3
<1> QED
  BY <1>4, <1>5, <1>6, <1>7, <1>8 DEF Whole

(* The run is finished.                                                    *)
LEMMA FinalizeKeeps ==
  ASSUME ImportInv, Finalize PROVE ImportInv'
<1>1. /\ TargetInv /\ PlaceInv /\ ClaimsInv /\ SyncInv /\ MediaInv /\ ArtifactInv /\ RecoverInv
  BY DEF ImportInv
<1>2. PICK fields : fields = [complete |-> TRUE, phase |-> "complete", rows |-> h.rows,
                              media |-> committed, seq |-> h.seq,
                              unsupported |-> h.unsupported, revision |-> seen]
  OBVIOUS
<1>3. PICK contents : contents = <<seen, h.unsupported>>
  OBVIOUS
<1>4. /\ Own /\ pc = "finalize" /\ pc' = "end" /\ todo = <<>> /\ mem' = mem
      /\ revision = seen /\ seen' = seen /\ pending' = pending
      /\ todo' = Finish(contents) \o Save(fields)
  BY <1>2, <1>3 DEF Finalize, At, Own, Local, world, checkpoint, pipeline
<1>5. /\ mem.phase = "finalize" /\ mem # NoState /\ runState # "absent" /\ config = seen
      /\ seen \in 1 .. revision /\ LocalsHold(h, {}) /\ h.rows = h.end
      /\ h.end \in 0 .. Len(rows) /\ Len(rows) \in Nat
      /\ committed \in 0 .. Len(rows) /\ MediaHeld(committed)
      /\ ~LateSave => h.rows = Len(rows) /\ mem = ckpt
  BY <1>4, LaterKnows DEF Later
<1>6. PhaseHeld("finalize", {})
  BY <1>4, <1>5, KnownEntry
<1>7. Whole
  BY <1>1, <1>4, <1>5, <1>6, HeldIsWhole
<1>8. /\ DOMAIN fields = {"complete", "phase", "rows", "media", "seq", "unsupported", "revision"}
      /\ fields.complete = TRUE /\ fields.phase = "complete" /\ fields.rows = h.rows
      /\ fields.media = committed /\ fields.seq = h.seq /\ fields.unsupported = h.unsupported
      /\ fields.revision = seen
  BY <1>2
<1>9. PICK t : t = [op |-> "finish", arg |-> contents]
  OBVIOUS
<1>10. /\ Finish(contents) = <<t>> /\ t.op = "finish" /\ t.arg = contents
       /\ TaskHolds(t, {})
  BY <1>5, <1>7, <1>9 DEF Finish, TaskHolds
<1>11. SaveHolds(fields, {t})
  <2>1. RowsHold(fields, {t})
    BY <1>5, <1>8 DEF RowsHold, LocalsHold, Boundary
  <2>2. PhaseHeld("complete", {t})
    BY <1>6, <1>10 DEF PhaseHeld, PointsHeld, FilesHeld, ShardHeld
  <2>3. seen \in Nat
    BY <1>1, <1>5 DEF TargetInv
  <2> QED
    BY <1>1, <1>5, <1>8, <2>1, <2>2, <2>3, FreshHolds DEF SaveHolds, FieldNames
<1>12. /\ IsSequence(todo') /\ Follow(todo', {})
       /\ ToSet(todo') = {t, [op |-> "save", arg |-> fields]}
  <2>1. /\ IsSequence(<<t>>) /\ Follow(<<t>>, {}) /\ ToSet(<<t>>) = {t}
    BY <1>10, FollowOne
  <2>2. /\ IsSequence(Save(fields)) /\ Follow(Save(fields), {t})
        /\ ToSet(Save(fields)) = {[op |-> "save", arg |-> fields]}
    BY <1>11, SaveFollows
  <2>3. PICK s, u : s = <<t>> /\ u = Save(fields)
    OBVIOUS
  <2>4. /\ IsSequence(s \o u) /\ Follow(s \o u, {}) /\ ToSet(s \o u) = ToSet(s) \union ToSet(u)
    BY <2>1, <2>2, <2>3, ThenFollows
  <2>5. todo' = s \o u
    BY <1>4, <1>10, <2>3
  <2> QED
    BY <2>1, <2>2, <2>3, <2>4, <2>5
<1>13. \A u \in ToSet(todo') :
         /\ u.op \in {"save", "finish"}
         /\ FinishTask(u) => u.arg = contents
         /\ u.op = "save" => u.arg.rows = h.rows /\ u.arg.phase = "complete"
                             /\ "rows" \in DOMAIN u.arg
         /\ PhaseSave(u) => u.arg.phase = "complete"
  <2> TAKE u \in ToSet(todo')
  <2>1. (u.op = "finish" /\ u.arg = contents) \/ (u.op = "save" /\ u.arg = fields)
    BY <1>10, <1>12
  <2> QED
    BY <1>8, <2>1 DEF FinishTask, PhaseSave
<1>14. /\ TargetInv' /\ Grows /\ ClaimsInv'
       /\ UNCHANGED <<rows, include, revision, runState, config, summary, media, artifacts>>
       /\ Expected' = Expected /\ (LateSave' <=> LateSave)
       /\ \A u : PhaseSave(u)' <=> PhaseSave(u)
       /\ \A u : FinishTask(u)' <=> FinishTask(u)
       /\ Scanning' = Scanning /\ Later' = Later
       /\ ToSet(todo)' = ToSet(todo')
  BY <1>4, <1>12, OwnKeeps
<1>15. pc' \notin {"idle", "refresh", "target"} \union Scanning \union Later
  BY <1>4 DEF Scanning, Later
<1>16. PlaceInv'
  BY <1>4, <1>5, <1>13, <1>14, <1>15 DEF PlaceInv, Working
<1>17. LocalsInv' /\ MediaInv' /\ ArtifactInv'
  BY <1>1, <1>4, <1>14, <1>15
     DEF LocalsInv, MediaInv, ArtifactInv, Working, PendingTransfer
<1>18. SyncInv'
  <2>1. late' = late /\ ckpt' = ckpt
    BY <1>4 DEF Own
  <2>2. ~LateSave => contents = Expected
    BY <1>3, <1>5 DEF Expected, LocalsHold
  <2> SUFFICES ASSUME ~LateSave
      PROVE  /\ mem' = ckpt
             /\ ckpt # NoState /\ ckpt.phase # "history" => ckpt.rows = Len(rows)
             /\ \A u \in ToSet(todo') :
                  /\ u.op = "save" => "rows" \in DOMAIN u.arg /\ u.arg.rows = Len(rows)
                  /\ FinishTask(u) => u.arg = Expected
             /\ runState = "finished" => summary = Expected
             /\ Len(late) = 1 /\ FinishTask(late[1]) => late[1].arg = Expected
    BY <1>14, <1>15, <2>1 DEF SyncInv
  <2> QED
    BY <1>1, <1>4, <1>5, <1>13, <2>2 DEF SyncInv
<1>19. RecoverInv'
  <2>1. late' = late /\ ckpt' = ckpt /\ lost' = lost
    BY <1>4 DEF Own
  <2>2. ~LateSave => ckpt # NoState /\ ckpt.phase \in Concluded
    BY <1>5 DEF Concluded
  <2>3. \A u \in ToSet(todo') : PhaseSave(u) => u.arg.phase \in Concluded
    BY <1>13 DEF Concluded
  <2> QED
    BY <1>4, <1>14, <2>1, <2>2, <2>3 DEF RecoverInv, Concluded
<1> QED
  BY <1>14, <1>16, <1>17, <1>18, <1>19 DEF ImportInv

-----------------------------------------------------------------------------
(* The invariant holds of every state.                                     *)
LEMMA InitHolds ==
  ASSUME Init PROVE ImportInv
<1>1. /\ rows \in Seq(Row) /\ include \in BOOLEAN /\ revision = 1 /\ config = 0
      /\ media = {} /\ shards = {} /\ artifacts = {}
      /\ runState = "absent" /\ batches = {} /\ stored = <<>>
      /\ ckpt = NoState /\ mem = NoState /\ late = <<>> /\ pc = "idle" /\ todo = <<>>
      /\ pending = <<>>
  BY DataAssumption DEF Init, ServerInit
<1>2. Len(stored) = 0 /\ stored \in Seq(HistoryPoint) /\ pending \in Seq(PendingTransfer)
      /\ Len(late) = 0
  BY <1>1
<1>3. Boundary(1, {})
  BY <1>2 DEF Boundary
<1>4. TargetInv
  BY <1>1, <1>2, <1>3 DEF TargetInv
<1>5. IsSequence(todo) /\ Follow(todo, {}) /\ ToSet(todo) = {}
  BY <1>1, FollowOne
<1>6. ClaimsInv
  BY <1>1, <1>5 DEF ClaimsInv, EntryHolds
<1>7. PlaceInv
  BY <1>1, <1>5 DEF PlaceInv, Working, Scanning, Later
<1>8. LocalsInv /\ MediaInv /\ ArtifactInv
  BY <1>1, <1>2 DEF LocalsInv, MediaInv, ArtifactInv, Working, Scanning, Later
<1>9. SyncInv
  BY <1>1, <1>2, <1>5 DEF SyncInv, Later
<1>10. RecoverInv
  BY <1>1, <1>2, <1>5 DEF RecoverInv, Concluding
<1> QED
  BY <1>4, <1>6, <1>7, <1>8, <1>9, <1>10 DEF ImportInv

(* Every step keeps the invariant.                                         *)
LEMMA StepKeeps ==
  ASSUME ImportInv, [Next]_vars PROVE ImportInv'
<1>1. CASE Begin
  BY <1>1, BeginKeeps
<1>2. CASE Task
  BY <1>2, TaskKeeps
<1>3. CASE Refresh \/ OpenTarget \/ RecognizeFinished
  BY <1>3, RefreshKeeps, OpenKeeps, RecognizeKeeps
<1>4. CASE ScheduleMedia \/ ScanRow \/ EndRows \/ UploadMedia \/ DrainMedia \/ EndHistory
  BY <1>4, ScheduleKeeps, ScanKeeps, EndRowsKeeps, UploadMediaKeeps, DrainKeeps, EndHistoryKeeps
<1>5. CASE \/ ImportFiles \/ SubmitArtifact \/ UploadArtifact \/ CollectArtifact
           \/ EndArtifacts \/ Finalize
  BY <1>5, FilesKeep, SubmitKeeps, UploadArtifactKeeps, CollectKeeps, EndArtifactsKeeps,
     FinalizeKeeps
<1>6. CASE EndAttempt \/ Refuse \/ Fail \/ Kill \/ Interrupt
  BY <1>6, LeavingKeeps
<1>7. CASE LateTask \/ LoseCheckpoint
  BY <1>7, LateTaskKeeps, LossKeeps
<1>8. CASE SourceChanges \/ UNCHANGED vars
  BY <1>8, SourceKeeps
<1> QED
  BY <1>1, <1>2, <1>3, <1>4, <1>5, <1>6, <1>7, <1>8 DEF Next, Work

(* What the target, the checkpoint, the worker's memory, its tasks and its *)
(* transfers have to do with each other, in every reachable state.         *)
THEOREM ImportInvariant == Spec => []ImportInv
<1>1. Init => ImportInv
  BY InitHolds
<1>2. ImportInv /\ [Next]_vars => ImportInv'
  BY StepKeeps
<1> QED
  BY <1>1, <1>2, PTL DEF Spec

(* What the checkpoint says is done, the server has acknowledged, whatever *)
(* an attempt dies of and in whatever order transfers end.                 *)
THEOREM CheckpointTells == Spec => []CheckpointIsTrue
<1>1. ASSUME ImportInv PROVE CheckpointIsTrue
  <2> SUFFICES ASSUME ckpt # NoState
      PROVE  /\ ckpt.seq - 1 = PointsThrough(ckpt.rows) /\ ckpt.seq - 1 <= Len(stored)
             /\ ckpt.unsupported = SkippedThrough(ckpt.rows)
             /\ include => \A n \in 1 .. ckpt.media : \A o \in 1 .. rows[n].media :
                             \E m \in media : m[1] = n /\ m[2] = o
             /\ \A first \in FirstFiles :
                  first < ckpt.files \/ ckpt.filesDone => \E shard \in shards : shard[1] = first
             /\ \A i \in 1 .. IF ckpt.artsDone THEN Artifacts ELSE ckpt.arts :
                  \E artifact \in artifacts : artifact[1] = i
    BY DEF CheckpointIsTrue
  <2>1. TargetInv /\ ckpt \in Entry /\ SaveHolds(ckpt, {})
    BY <1>1 DEF ImportInv, ClaimsInv, EntryHolds
  <2>2. /\ RowsHold(ckpt, {})
        /\ MediaHeld(ckpt.media) /\ FilesHeld(ckpt.files, {})
        /\ ckpt.filesDone \in BOOLEAN /\ (ckpt.filesDone = TRUE => FilesHeld(Files, {}))
        /\ ckpt.arts \in Nat /\ ArtifactsHeld(ckpt.arts)
        /\ ckpt.artsDone \in BOOLEAN /\ (ckpt.artsDone = TRUE => ArtifactsHeld(Artifacts))
    BY <2>1, EntryFields
  <2>3. /\ ckpt.rows \in 0 .. Len(rows) /\ ckpt.seq = PointsThrough(ckpt.rows) + 1
        /\ ckpt.unsupported = SkippedThrough(ckpt.rows) /\ Boundary(ckpt.seq, {})
    BY <2>2 DEF RowsHold
  <2>4. PointsThrough(ckpt.rows) \in Nat /\ Len(stored) \in Nat
    BY <2>1, <2>3, Sums DEF TargetInv, SourceTyped
  <2>5. ckpt.seq - 1 <= Len(stored)
    <3>1. CASE ckpt.seq = Len(stored) + 1
      BY <2>3, <2>4, <3>1
    <3>2. CASE \E b \in batches : b[1].seq = ckpt.seq
      <4>1. PICK b \in batches : b[1].seq = ckpt.seq
        BY <3>2
      <4>2. IsBatch(b) /\ LastSequence(b) <= Len(stored)
        BY <2>1 DEF TargetInv
      <4>3. Len(b) \in Nat /\ Len(b) >= 1 /\ LastSequence(b) = b[1].seq + Len(b) - 1
        BY <2>1, <4>2, BatchTyped
      <4> QED
        BY <2>3, <2>4, <4>1, <4>2, <4>3
    <3> QED
      BY <2>3, <3>1, <3>2 DEF Boundary
  <2>6. ASSUME NEW first \in FirstFiles, first < ckpt.files \/ ckpt.filesDone
        PROVE  \E shard \in shards : shard[1] = first
    <3>1. first < Files
      BY ImportLimits DEF FirstFiles
    <3> QED
      BY <2>2, <2>6, <3>1 DEF FilesHeld, ShardHeld
  <2>7. ASSUME NEW i \in 1 .. IF ckpt.artsDone THEN Artifacts ELSE ckpt.arts
        PROVE  \E artifact \in artifacts : artifact[1] = i
    <3>1. CASE ckpt.artsDone
      BY <2>2, <2>7, <3>1 DEF ArtifactsHeld
    <3>2. CASE ~ckpt.artsDone
      BY <2>2, <2>7, <3>2 DEF ArtifactsHeld
    <3> QED
      BY <3>1, <3>2
  <2> QED
    BY <2>2, <2>3, <2>4, <2>5, <2>6, <2>7 DEF MediaHeld
<1> QED
  BY <1>1, ImportInvariant, PTL

(* A finished target is recognized by the next attempt, although the       *)
(* answer to finish_run was lost.                                          *)
THEOREM FinishedRecovers == Spec => []FinishedCanRecover
<1>1. ASSUME ImportInv PROVE FinishedCanRecover
  BY <1>1 DEF ImportInv, RecoverInv, FinishedCanRecover, Concluding, Concluded
<1> QED
  BY <1>1, ImportInvariant, PTL

(* The points of the first n rows, in the revision of the target's config. *)
RowPoints(n) ==
  [i \in 1 .. rows[n].points |->
    [seq |-> PointsThrough(n - 1) + i, id |-> <<n, i, config>>]]

FirstRows(n) == [k \in 1 .. n |-> RowPoints(k)]

(* The points one row becomes.                                             *)
LEMMA RowPointsTyped ==
  ASSUME TargetInv, NEW n \in 1 .. Len(rows)
  PROVE  /\ RowPoints(n) \in Seq(HistoryPoint) /\ Len(RowPoints(n)) = rows[n].points
         /\ rows[n].points \in Nat /\ PointsThrough(n - 1) \in Nat
         /\ PointsThrough(n) = PointsThrough(n - 1) + rows[n].points
         /\ \A i \in 1 .. rows[n].points :
              RowPoints(n)[i] = [seq |-> PointsThrough(n - 1) + i, id |-> <<n, i, config>>]
<1>1. SourceTyped /\ config \in Nat /\ Len(rows) \in Nat
  BY DEF TargetInv, SourceTyped
<1>2. /\ rows[n] \in Row /\ PointsThrough(n) = PointsThrough(n - 1) + rows[n].points
      /\ \A m \in 0 .. Len(rows) : PointsThrough(m) \in Nat
  BY <1>1, Sums
<1>3. n - 1 \in 0 .. Len(rows) /\ n \in Nat
  BY <1>1
<1>4. rows[n].points \in Nat /\ PointsThrough(n - 1) \in Nat
  BY <1>2, <1>3 DEF Row
<1>5. \A i \in 1 .. rows[n].points :
        [seq |-> PointsThrough(n - 1) + i, id |-> <<n, i, config>>] \in HistoryPoint
  <2> TAKE i \in 1 .. rows[n].points
  <2>1. PointsThrough(n - 1) + i \in Nat /\ i \in Nat
    BY <1>4
  <2>2. <<n, i, config>> \in Nat \X Nat \X Nat
    BY <1>1, <1>3, <2>1
  <2> QED
    BY <2>1, <2>2 DEF HistoryPoint
<1>6. RowPoints(n) \in [1 .. rows[n].points -> HistoryPoint]
  BY <1>5 DEF RowPoints
<1>7. RowPoints(n) \in Seq(HistoryPoint) /\ Len(RowPoints(n)) = rows[n].points
  BY <1>4, <1>6
<1> QED
  BY <1>2, <1>4, <1>7 DEF RowPoints

(* The points of the first rows, in order, are the points of the history   *)
(* up to there.                                                            *)
LEMMA RowsFlattened ==
  ASSUME TargetInv, NEW n \in 0 .. Len(rows)
  PROVE  LET flat == FlattenSeq(FirstRows(n))
         IN  /\ flat \in Seq(HistoryPoint) /\ Len(flat) = PointsThrough(n)
             /\ \A k \in 1 .. n : \A i \in 1 .. rows[k].points :
                  flat[PointsThrough(k - 1) + i] =
                    [seq |-> PointsThrough(k - 1) + i, id |-> <<k, i, config>>]
<1>1. SourceTyped /\ Len(rows) \in Nat
  BY DEF TargetInv, SourceTyped
<1>2. /\ PointsThrough(0) = 0 /\ \A m \in 0 .. Len(rows) : PointsThrough(m) \in Nat
      /\ \A m \in 0 .. Len(rows) : \A k \in m .. Len(rows) : PointsThrough(m) <= PointsThrough(k)
  BY <1>1, Sums
<1> DEFINE Flat(m, flat) ==
      /\ flat \in Seq(HistoryPoint) /\ Len(flat) = PointsThrough(m)
      /\ \A k \in 1 .. m : \A i \in 1 .. rows[k].points :
           flat[PointsThrough(k - 1) + i] =
             [seq |-> PointsThrough(k - 1) + i, id |-> <<k, i, config>>]
<1> DEFINE T == {m \in Nat : m <= Len(rows) => Flat(m, FlattenSeq(FirstRows(m)))}
<1>3. 0 \in T
  <2>1. FirstRows(0) = <<>>
    BY DEF FirstRows
  <2>2. FlattenSeq(<<>>) = <<>>
    <3>1. <<>> \in Seq(HistoryPoint)
      OBVIOUS
    <3> QED
      BY <3>1, FlattenOne
  <2>3. Flat(0, <<>>)
    BY <1>2
  <2> QED
    BY <2>1, <2>2, <2>3
<1>4. ASSUME NEW m \in T, m + 1 <= Len(rows) PROVE Flat(m + 1, FlattenSeq(FirstRows(m + 1)))
  <2>1. m \in Nat /\ m <= Len(rows) /\ m + 1 \in 1 .. Len(rows) /\ (m + 1) - 1 = m
    BY <1>1, <1>4
  <2>2. PICK flat : flat = FlattenSeq(FirstRows(m))
    OBVIOUS
  <2>3. Flat(m, flat)
    BY <1>4, <2>1, <2>2
  <2>4. PICK ss : ss = FirstRows(m)
    OBVIOUS
  <2>5. PICK x : x = RowPoints(m + 1)
    OBVIOUS
  <2>6. /\ x \in Seq(HistoryPoint) /\ Len(x) = rows[m + 1].points
        /\ rows[m + 1].points \in Nat /\ PointsThrough(m) \in Nat
        /\ PointsThrough(m + 1) = PointsThrough(m) + rows[m + 1].points
        /\ \A i \in 1 .. rows[m + 1].points :
             x[i] = [seq |-> PointsThrough(m) + i, id |-> <<m + 1, i, config>>]
    BY <2>1, <2>5, RowPointsTyped
  <2>7. ss \in Seq(Seq(HistoryPoint)) /\ Len(ss) = m
    <3>1. \A k \in 1 .. m : RowPoints(k) \in Seq(HistoryPoint)
      <4> TAKE k \in 1 .. m
      <4>1. k \in 1 .. Len(rows)
        BY <1>1, <2>1
      <4> QED
        BY <4>1, RowPointsTyped
    <3>2. ss \in [1 .. m -> Seq(HistoryPoint)]
      BY <2>4, <3>1 DEF FirstRows
    <3> QED
      BY <2>1, <3>2
  <2>8. FirstRows(m + 1) = Append(ss, x)
    <3>1. PICK a : a = Append(ss, x)
      OBVIOUS
    <3>2. /\ a \in Seq(Seq(HistoryPoint)) /\ Len(a) = m + 1 /\ a[m + 1] = x
          /\ \A k \in 1 .. m : a[k] = ss[k]
      BY <2>6, <2>7, <3>1, AppendProperties
    <3>3. PICK b : b = FirstRows(m + 1)
      OBVIOUS
    <3>4. \A k \in 1 .. m + 1 : b[k] = RowPoints(k)
      BY <3>3 DEF FirstRows
    <3>5. b \in Seq(Seq(HistoryPoint)) /\ Len(b) = m + 1
      <4>1. \A k \in 1 .. m + 1 : RowPoints(k) \in Seq(HistoryPoint)
        <5> TAKE k \in 1 .. m + 1
        <5>1. k \in 1 .. Len(rows)
          BY <1>1, <2>1
        <5> QED
          BY <5>1, RowPointsTyped
      <4>2. b \in [1 .. m + 1 -> Seq(HistoryPoint)]
        BY <3>3, <4>1 DEF FirstRows
      <4> QED
        BY <2>1, <4>2
    <3>6. \A k \in 1 .. m : ss[k] = RowPoints(k)
      BY <2>4 DEF FirstRows
    <3>7. \A k \in 1 .. m + 1 : b[k] = a[k]
      <4> TAKE k \in 1 .. m + 1
      <4>1. CASE k = m + 1
        BY <2>1, <2>5, <3>2, <3>4, <4>1
      <4>2. CASE k # m + 1
        <5>1. k \in 1 .. m
          BY <2>1, <4>2
        <5> QED
          BY <3>2, <3>4, <3>6, <5>1
      <4> QED
        BY <4>1, <4>2
    <3> QED
      BY <3>1, <3>2, <3>3, <3>5, <3>7, SeqEqual
  <2>9. FlattenSeq(FirstRows(m + 1)) = flat \o x
    BY <2>2, <2>4, <2>6, <2>7, <2>8, FlattenAppend
  <2>10. PICK new : new = flat \o x
    OBVIOUS
  <2>11. /\ new \in Seq(HistoryPoint) /\ Len(new) = Len(flat) + Len(x)
         /\ \A i \in 1 .. Len(new) : new[i] = IF i <= Len(flat) THEN flat[i] ELSE x[i - Len(flat)]
    BY <2>3, <2>6, <2>10, ConcatProperties
  <2>12. Len(flat) = PointsThrough(m) /\ Len(new) = PointsThrough(m + 1)
    BY <2>3, <2>6, <2>11
  <2>13. ASSUME NEW k \in 1 .. m + 1, NEW i \in 1 .. rows[k].points
         PROVE  new[PointsThrough(k - 1) + i] =
                  [seq |-> PointsThrough(k - 1) + i, id |-> <<k, i, config>>]
    <3>1. CASE k = m + 1
      <4>1. k - 1 = m /\ i \in 1 .. rows[m + 1].points /\ i \in Nat
        BY <2>1, <2>6, <3>1
      <4>2. PICK q : q = PointsThrough(m) + i
        OBVIOUS
      <4>3. q \in 1 .. Len(new) /\ ~(q <= Len(flat)) /\ q - Len(flat) = i
        <5>1. PICK a, b : a = PointsThrough(m) /\ b = rows[m + 1].points
          OBVIOUS
        <5>2. a \in Nat /\ b \in Nat /\ i \in Nat /\ i \in 1 .. b /\ q = a + i
          BY <2>6, <4>1, <4>2, <5>1
        <5>3. Len(flat) = a /\ Len(new) = a + b
          BY <2>6, <2>12, <5>1
        <5> QED
          BY <5>2, <5>3
      <4>4. new[q] = x[i]
        BY <2>11, <4>3
      <4> QED
        BY <2>6, <3>1, <4>1, <4>2, <4>4
    <3>2. CASE k # m + 1
      <4>1. k \in 1 .. m /\ k \in 1 .. Len(rows)
        BY <1>1, <2>1, <3>2
      <4>2. /\ PointsThrough(k) = PointsThrough(k - 1) + rows[k].points
            /\ PointsThrough(k - 1) \in Nat /\ rows[k].points \in Nat
            /\ PointsThrough(k) <= PointsThrough(m)
        <5>1. k \in 0 .. Len(rows) /\ m \in k .. Len(rows)
          BY <1>1, <2>1, <4>1
        <5> QED
          BY <1>2, <4>1, <5>1, RowPointsTyped
      <4>3. PICK q : q = PointsThrough(k - 1) + i
        OBVIOUS
      <4>4. q \in 1 .. Len(new) /\ q <= Len(flat)
        <5>1. PICK a, b, c, d : /\ a = PointsThrough(k - 1) /\ b = rows[k].points
                                /\ c = PointsThrough(m) /\ d = rows[m + 1].points
          OBVIOUS
        <5>2. /\ a \in Nat /\ b \in Nat /\ c \in Nat /\ d \in Nat /\ a + b <= c
              /\ q = a + i /\ i \in 1 .. b /\ Len(flat) = c /\ Len(new) = c + d
          BY <2>6, <2>12, <4>2, <4>3, <5>1
        <5> QED
          BY <5>2
      <4>5. new[q] = flat[q]
        BY <2>11, <4>4
      <4> QED
        BY <2>3, <4>1, <4>3, <4>5
    <3> QED
      BY <3>1, <3>2
  <2> QED
    BY <2>9, <2>10, <2>11, <2>12, <2>13
<1>5. \A m \in T : m + 1 \in T
  BY <1>4
<1> HIDE DEF T
<1>6. T \in SUBSET Nat
  BY DEF T
<1>7. T = Nat
  BY <1>3, <1>5, <1>6, Induction
<1>8. n \in Nat /\ n <= Len(rows)
  BY <1>1
<1>9. n \in T
  BY <1>7, <1>8
<1> QED
  BY <1>8, <1>9 DEF T

(* A finished target is the whole source, in order and without repetition, *)
(* in one of its revisions.                                                *)
LEMMA WholeIsHistory ==
  ASSUME TargetInv, Whole PROVE stored = History
<1>1. SourceTyped /\ Len(rows) \in Nat /\ Len(rows) \in 0 .. Len(rows)
  BY DEF TargetInv, SourceTyped
<1>2. PICK flat : flat = FlattenSeq(FirstRows(Len(rows)))
  OBVIOUS
<1>3. /\ flat \in Seq(HistoryPoint) /\ Len(flat) = PointsThrough(Len(rows))
      /\ \A k \in 1 .. Len(rows) : \A i \in 1 .. rows[k].points :
           flat[PointsThrough(k - 1) + i] =
             [seq |-> PointsThrough(k - 1) + i, id |-> <<k, i, config>>]
  BY <1>1, <1>2, RowsFlattened
<1>4. flat = History
  BY <1>2 DEF History, FirstRows, RowPoints
<1>5. stored \in Seq(HistoryPoint) /\ Len(stored) = Len(flat)
  BY <1>3 DEF TargetInv, Whole
<1>6. ASSUME NEW q \in 1 .. Len(stored) PROVE stored[q] = flat[q]
  <2>1. IsPoint(stored[q]) /\ stored[q].seq = q /\ stored[q].id[3] = config
    BY DEF TargetInv, Whole
  <2>2. PICK n \in 1 .. Len(rows) : \E i \in 1 .. rows[n].points : \E v \in Revisions :
          stored[q] = [seq |-> PointsThrough(n - 1) + i, id |-> <<n, i, v>>]
    BY <2>1 DEF IsPoint
  <2>3. PICK i \in 1 .. rows[n].points : \E v \in Revisions :
          stored[q] = [seq |-> PointsThrough(n - 1) + i, id |-> <<n, i, v>>]
    BY <2>2
  <2>4. PICK v \in Revisions :
          stored[q] = [seq |-> PointsThrough(n - 1) + i, id |-> <<n, i, v>>]
    BY <2>3
  <2>5. stored[q].id = <<n, i, v>> /\ <<n, i, v>>[3] = v /\ q = PointsThrough(n - 1) + i
    BY <2>1, <2>4
  <2>6. v = config
    BY <2>1, <2>5
  <2> QED
    BY <1>3, <2>4, <2>5, <2>6
<1> QED
  BY <1>3, <1>4, <1>5, <1>6, SeqEqual

(* A finished target holds the whole source, in one revision: after all    *)
(* interruptions, retries, late answers and refreshes of the source,       *)
(* finish_run is asked only for a target whose points, media, file shards  *)
(* and artifacts are complete and of the revision its config names.        *)
THEOREM FinishedHoldsAll == Spec => []FinishedIsWhole
<1>1. ASSUME ImportInv PROVE FinishedIsWhole
  <2> SUFFICES ASSUME runState = "finished"
      PROVE  /\ stored = History
             /\ LateSave \/ summary = <<config, SkippedThrough(Len(rows))>>
             /\ Whole
    BY DEF FinishedIsWhole, Whole
  <2>1. TargetInv /\ Whole
    BY <1>1 DEF ImportInv, TargetInv
  <2>2. LateSave \/ summary = <<config, SkippedThrough(Len(rows))>>
    BY <1>1 DEF ImportInv, SyncInv, Expected
  <2> QED
    BY <2>1, <2>2, WholeIsHistory
<1> QED
  BY <1>1, ImportInvariant, PTL

-----------------------------------------------------------------------------
(* Between two rows before which as many points have passed, no bytes have *)
(* passed either.                                                          *)
LEMMA SameBytes ==
  ASSUME SourceTyped, NEW m \in 0 .. Len(rows), NEW n \in m .. Len(rows),
         PointsThrough(m) = PointsThrough(n)
  PROVE  BytesThrough(m) = BytesThrough(n)
<1>1. /\ Len(rows) \in Nat /\ m \in Nat /\ n \in Nat
      /\ \A k \in 0 .. Len(rows) : PointsThrough(k) \in Nat /\ BytesThrough(k) \in Nat
      /\ \A k \in 1 .. Len(rows) :
           /\ rows[k] \in Row /\ PointsThrough(k) = PointsThrough(k - 1) + rows[k].points
           /\ BytesThrough(k) =
                BytesThrough(k - 1) + (IF rows[k].points = 1 THEN rows[k].size ELSE 0)
      /\ \A i \in 0 .. Len(rows) : \A j \in i .. Len(rows) : PointsThrough(i) <= PointsThrough(j)
  BY Sums
<1> DEFINE T == {d \in Nat : m + d <= n => BytesThrough(m + d) = BytesThrough(m)}
<1>2. 0 \in T
  BY <1>1
<1>3. ASSUME NEW d \in T, m + (d + 1) <= n PROVE BytesThrough(m + (d + 1)) = BytesThrough(m)
  <2>1. PICK k : k = m + (d + 1)
    OBVIOUS
  <2>2. d \in Nat /\ k \in 1 .. Len(rows) /\ k - 1 = m + d /\ k \in m .. n /\ m + d <= n
        /\ k - 1 \in 0 .. Len(rows) /\ k - 1 \in m .. Len(rows) /\ n \in k .. Len(rows)
        /\ k \in 0 .. Len(rows)
    BY <1>1, <1>3, <2>1
  <2>3. BytesThrough(k - 1) = BytesThrough(m)
    BY <1>3, <2>2
  <2>4. PointsThrough(m) <= PointsThrough(k - 1) /\ PointsThrough(k) <= PointsThrough(n)
    BY <1>1, <2>2
  <2>5. rows[k].points \in Nat /\ PointsThrough(k) = PointsThrough(k - 1) + rows[k].points
        /\ PointsThrough(k - 1) \in Nat /\ PointsThrough(m) \in Nat
    BY <1>1, <2>2 DEF Row
  <2>6. rows[k].points = 0
    BY <2>4, <2>5
  <2>7. BytesThrough(k) = BytesThrough(k - 1) + 0 /\ BytesThrough(k - 1) \in Nat
    BY <1>1, <2>2, <2>6
  <2> QED
    BY <2>1, <2>3, <2>7
<1>4. \A d \in T : d + 1 \in T
  BY <1>3
<1> HIDE DEF T
<1>5. T \in SUBSET Nat
  BY DEF T
<1>6. T = Nat
  BY <1>2, <1>4, <1>5, Induction
<1>7. PICK d \in Nat : m + d = n
  <2>1. n - m \in Nat /\ m + (n - m) = n
    BY <1>1
  <2> QED
    BY <2>1
<1>8. d \in T
  BY <1>6
<1>9. BytesThrough(m + d) = BytesThrough(m)
  BY <1>1, <1>7, <1>8 DEF T
<1> QED
  BY <1>7, <1>9

(* The row that follows the first points of the history.                   *)
LEMMA NextRow ==
  ASSUME SourceTyped, NEW r \in 0 .. Len(rows), NEW e \in 0 .. Len(rows),
         PointsThrough(r) < PointsThrough(e)
  PROVE  \E n \in r + 1 .. e :
           /\ n \in 1 .. Len(rows) /\ PointsThrough(n - 1) = PointsThrough(r)
           /\ rows[n].points \in Nat /\ rows[n].points >= 1
<1>1. /\ Len(rows) \in Nat /\ r \in Nat /\ e \in Nat
      /\ \A k \in 0 .. Len(rows) : PointsThrough(k) \in Nat
      /\ \A k \in 1 .. Len(rows) :
           rows[k] \in Row /\ PointsThrough(k) = PointsThrough(k - 1) + rows[k].points
      /\ \A i \in 0 .. Len(rows) : \A j \in i .. Len(rows) : PointsThrough(i) <= PointsThrough(j)
  BY Sums
<1>2. PICK q : q = PointsThrough(r) + 1
  OBVIOUS
<1>3. q \in 1 .. PointsThrough(Len(rows)) /\ q <= PointsThrough(e)
  <2>1. e \in 0 .. Len(rows) /\ Len(rows) \in e .. Len(rows) /\ Len(rows) \in 0 .. Len(rows)
    BY <1>1
  <2>2. PointsThrough(e) <= PointsThrough(Len(rows)) /\ PointsThrough(e) \in Nat
        /\ PointsThrough(r) \in Nat /\ PointsThrough(Len(rows)) \in Nat
    BY <1>1, <2>1
  <2> QED
    BY <1>2, <2>2
<1>4. PICK n \in 1 .. Len(rows) : \E i \in 1 .. rows[n].points : q = PointsThrough(n - 1) + i
  BY <1>3, PointExists
<1>5. PICK i \in 1 .. rows[n].points : q = PointsThrough(n - 1) + i
  BY <1>4
<1>6. /\ n \in Nat /\ n \in 0 .. Len(rows) /\ n - 1 \in 0 .. Len(rows)
      /\ rows[n].points \in Nat /\ PointsThrough(n - 1) \in Nat /\ PointsThrough(r) \in Nat
      /\ PointsThrough(n) = PointsThrough(n - 1) + rows[n].points /\ PointsThrough(n) \in Nat
      /\ i \in Nat /\ i >= 1 /\ i <= rows[n].points
  <2>1. n \in Nat /\ n \in 0 .. Len(rows) /\ n - 1 \in 0 .. Len(rows)
    BY <1>1
  <2>2. rows[n].points \in Nat
    BY <1>1 DEF Row
  <2> QED
    BY <1>1, <2>1, <2>2
<1>7. r < n
  <2> SUFFICES ASSUME n <= r PROVE FALSE
    BY <1>1, <1>6
  <2>1. r \in n .. Len(rows)
    BY <1>1, <1>6
  <2>2. PointsThrough(n) <= PointsThrough(r)
    BY <1>1, <1>6, <2>1
  <2> QED
    BY <1>2, <1>5, <1>6, <2>2
<1>8. n <= e
  <2> SUFFICES ASSUME e < n PROVE FALSE
    BY <1>1, <1>6
  <2>1. n - 1 \in e .. Len(rows)
    BY <1>1, <1>6
  <2>2. PointsThrough(e) <= PointsThrough(n - 1)
    BY <1>1, <2>1
  <2>3. PointsThrough(e) \in Nat
    BY <1>1
  <2> QED
    BY <1>3, <1>5, <1>6, <2>2, <2>3
<1>9. PointsThrough(n - 1) = PointsThrough(r)
  <2>1. n - 1 \in r .. Len(rows)
    BY <1>1, <1>6, <1>7
  <2>2. PointsThrough(r) <= PointsThrough(n - 1)
    BY <1>1, <2>1
  <2> QED
    BY <1>2, <1>5, <1>6, <2>2
<1>10. n \in r + 1 .. e
  BY <1>1, <1>6, <1>7, <1>8
<1> QED
  BY <1>6, <1>9, <1>10

(* Two batches of small rows that begin at the same point end at the same. *)
LEMMA NarrowEnds ==
  ASSUME SourceTyped, NEW r \in 0 .. Len(rows), NEW e \in r .. Len(rows), Stops(r, e),
         NEW s \in 0 .. Len(rows), NEW f \in s .. Len(rows), Fits(s, f),
         PointsThrough(r) = PointsThrough(s), PointsThrough(r) < PointsThrough(e)
  PROVE  ~(PointsThrough(e) < PointsThrough(f))
<1> SUFFICES ASSUME PointsThrough(e) < PointsThrough(f) PROVE FALSE
  OBVIOUS
<1>1. /\ Len(rows) \in Nat /\ r \in Nat /\ e \in Nat /\ s \in Nat /\ f \in Nat
      /\ \A k \in 0 .. Len(rows) : PointsThrough(k) \in Nat /\ BytesThrough(k) \in Nat
      /\ \A i \in 0 .. Len(rows) : \A j \in i .. Len(rows) : PointsThrough(i) <= PointsThrough(j)
  BY Sums
<1>2. e \in 0 .. Len(rows) /\ f \in 0 .. Len(rows)
  BY <1>1
<1>3. PICK n \in e + 1 .. f :
        /\ n \in 1 .. Len(rows) /\ PointsThrough(n - 1) = PointsThrough(e)
        /\ rows[n].points \in Nat /\ rows[n].points >= 1
  BY <1>2, NextRow
<1>4. n \in s + 1 .. f
  <2> SUFFICES ASSUME n <= s PROVE FALSE
    BY <1>1, <1>3
  <2>1. n - 1 \in 0 .. Len(rows) /\ s \in n - 1 .. Len(rows)
    BY <1>1, <1>3
  <2>2. PointsThrough(n - 1) <= PointsThrough(s)
    BY <1>1, <2>1
  <2> QED
    BY <1>1, <1>2, <1>3, <2>2
<1>5. /\ rows[n].points = 1
      /\ BytesThrough(n) - BytesThrough(s) <= ByteLimit
      /\ PointsThrough(n - 1) - PointsThrough(s) < BatchSize
  <2>1. /\ rows[n].points <= 1
        /\ rows[n].points = 1 /\ PointsThrough(n - 1) > PointsThrough(s) =>
             /\ BytesThrough(n) - BytesThrough(s) <= ByteLimit
             /\ PointsThrough(n - 1) - PointsThrough(s) < BatchSize
    BY <1>4 DEF Fits
  <2>2. rows[n].points = 1
    BY <1>3, <2>1
  <2>3. PointsThrough(n - 1) > PointsThrough(s)
    BY <1>1, <1>2, <1>3
  <2> QED
    BY <2>1, <2>2, <2>3
<1>6. BytesThrough(r) = BytesThrough(s)
  <2>1. CASE r <= s
    <3>1. s \in r .. Len(rows)
      BY <1>1, <2>1
    <3> QED
      BY <3>1, SameBytes
  <2>2. CASE s <= r
    <3>1. r \in s .. Len(rows)
      BY <1>1, <2>2
    <3> QED
      BY <3>1, SameBytes
  <2> QED
    BY <1>1, <2>1, <2>2
<1>7. CASE PointsThrough(e) - PointsThrough(r) >= BatchSize
  <2>1. BatchSize \in Nat
    BY ImportLimits
  <2> QED
    BY <1>1, <1>2, <1>3, <1>5, <1>7, <2>1
<1>8. CASE PointsThrough(e) = PointsThrough(Len(rows))
  <2>1. Len(rows) \in f .. Len(rows) /\ Len(rows) \in 0 .. Len(rows)
    BY <1>1
  <2>2. PointsThrough(f) <= PointsThrough(Len(rows))
    BY <1>1, <1>2, <2>1
  <2> QED
    BY <1>1, <1>2, <1>8, <2>1, <2>2
<1>9. CASE \E k \in e + 1 .. Len(rows) :
             /\ PointsThrough(k - 1) = PointsThrough(e)
             /\ \/ rows[k].points > 1
                \/ rows[k].points = 1 /\ BytesThrough(k) - BytesThrough(r) > ByteLimit
  <2>1. PICK k \in e + 1 .. Len(rows) :
          /\ PointsThrough(k - 1) = PointsThrough(e)
          /\ \/ rows[k].points > 1
             \/ rows[k].points = 1 /\ BytesThrough(k) - BytesThrough(r) > ByteLimit
    BY <1>9
  <2>2. k \in 1 .. Len(rows) /\ 1 \in 1 .. rows[n].points /\ 1 \in 1 .. rows[k].points
    <3>1. k \in 1 .. Len(rows)
      BY <1>1
    <3>2. rows[k].points \in Nat
      BY <3>1, Sums DEF Row
    <3> QED
      BY <1>3, <2>1, <3>1, <3>2
  <2>3. PointsThrough(k - 1) + 1 = PointsThrough(n - 1) + 1
    BY <1>3, <2>1
  <2>4. k = n
    BY <1>3, <2>2, <2>3, PointIsUnique
  <2>5. BytesThrough(n) - BytesThrough(r) > ByteLimit /\ ByteLimit \in Nat
    <3>1. \/ rows[n].points > 1
          \/ rows[n].points = 1 /\ BytesThrough(n) - BytesThrough(r) > ByteLimit
      BY <2>1, <2>4
    <3>2. ~(rows[n].points > 1)
      BY <1>5
    <3>3. ByteLimit \in Nat
      BY ImportLimits
    <3> QED
      BY <3>1, <3>2, <3>3
  <2>6. n \in 0 .. Len(rows) /\ BytesThrough(n) \in Nat /\ BytesThrough(r) \in Nat
    BY <1>1, <1>3
  <2> QED
    BY <1>5, <1>6, <2>5, <2>6
<1> QED
  BY <1>7, <1>8, <1>9 DEF Stops

(* Two batches that begin at the same point end at the same point.         *)
LEMMA CutsEnd ==
  ASSUME TargetInv, NEW a, NEW b, IsBatch(a), IsBatch(b), IsCut(a), IsCut(b),
         a[1].seq = b[1].seq
  PROVE  LastSequence(a) = LastSequence(b)
<1>1. SourceTyped /\ Len(rows) \in Nat /\ \A k \in 0 .. Len(rows) : PointsThrough(k) \in Nat
  BY Sums DEF TargetInv, SourceTyped
<1>2. /\ a[1].seq <= LastSequence(a) /\ b[1].seq <= LastSequence(b)
      /\ a[1].seq \in Nat /\ LastSequence(a) \in Nat /\ LastSequence(b) \in Nat
  <2>1. /\ Len(a) \in Nat /\ Len(a) >= 1 /\ a[1].seq \in Nat
        /\ LastSequence(a) = a[1].seq + Len(a) - 1
    BY BatchTyped
  <2>2. /\ Len(b) \in Nat /\ Len(b) >= 1 /\ b[1].seq \in Nat
        /\ LastSequence(b) = b[1].seq + Len(b) - 1
    BY BatchTyped
  <2> QED
    BY <2>1, <2>2
<1>3. ASSUME NarrowCut(a), NarrowCut(b) PROVE LastSequence(a) = LastSequence(b)
  <2>1. PICK r, e \in 0 .. Len(rows) :
          /\ r <= e /\ Fits(r, e) /\ Stops(r, e)
          /\ a[1].seq = PointsThrough(r) + 1 /\ LastSequence(a) = PointsThrough(e)
    BY <1>3 DEF NarrowCut
  <2>2. PICK s, f \in 0 .. Len(rows) :
          /\ s <= f /\ Fits(s, f) /\ Stops(s, f)
          /\ b[1].seq = PointsThrough(s) + 1 /\ LastSequence(b) = PointsThrough(f)
    BY <1>3 DEF NarrowCut
  <2>3. e \in r .. Len(rows) /\ f \in s .. Len(rows)
    BY <1>1, <2>1, <2>2
  <2>4. PointsThrough(r) = PointsThrough(s) /\ PointsThrough(r) < PointsThrough(e)
        /\ PointsThrough(s) < PointsThrough(f)
    <3>1. PICK u, v, w, x, z : /\ u = PointsThrough(r) /\ v = PointsThrough(s)
                               /\ w = PointsThrough(e) /\ x = PointsThrough(f) /\ z = a[1].seq
      OBVIOUS
    <3>2. u \in Nat /\ v \in Nat /\ w \in Nat /\ x \in Nat /\ z \in Nat
      BY <1>1, <1>2, <2>1, <2>2, <3>1
    <3>3. z = u + 1 /\ z = v + 1 /\ z <= w /\ z <= x
      BY <1>2, <2>1, <2>2, <3>1
    <3>4. u = v /\ u < w /\ v < x
      BY <3>2, <3>3
    <3> QED
      BY <3>1, <3>4
  <2>5. ~(PointsThrough(e) < PointsThrough(f)) /\ ~(PointsThrough(f) < PointsThrough(e))
    BY <1>1, <2>1, <2>2, <2>3, <2>4, NarrowEnds
  <2> QED
    BY <1>1, <2>1, <2>2, <2>5
<1>4. ASSUME NEW c, NEW d, NarrowCut(c), WideCut(d), c[1].seq = d[1].seq,
             c[1].seq <= LastSequence(c)
      PROVE  FALSE
  <2>1. PICK r, e \in 0 .. Len(rows) :
          /\ r <= e /\ Fits(r, e)
          /\ c[1].seq = PointsThrough(r) + 1 /\ LastSequence(c) = PointsThrough(e)
    BY <1>4 DEF NarrowCut
  <2>2. PointsThrough(r) < PointsThrough(e)
    BY <1>1, <1>4, <2>1
  <2>3. PICK n \in r + 1 .. e :
          /\ n \in 1 .. Len(rows) /\ PointsThrough(n - 1) = PointsThrough(r)
          /\ rows[n].points \in Nat /\ rows[n].points >= 1
    BY <1>1, <2>2, NextRow
  <2>4. PICK m \in 1 .. Len(rows) : \E k \in Nat \ {0} :
          /\ rows[m].points > 1 /\ (k - 1) * SplitLimit < rows[m].points
          /\ d[1].seq = PointsThrough(m - 1) + (k - 1) * SplitLimit + 1
    BY <1>4 DEF WideCut
  <2>5. PICK k \in Nat \ {0} :
          /\ rows[m].points > 1 /\ (k - 1) * SplitLimit < rows[m].points
          /\ d[1].seq = PointsThrough(m - 1) + (k - 1) * SplitLimit + 1
    BY <2>4
  <2>6. PICK x : x = (k - 1) * SplitLimit
    OBVIOUS
  <2>7. x \in Nat
    <3>1. k - 1 \in Nat /\ SplitLimit \in Nat \ {0}
      BY ImportLimits
    <3> QED
      BY <2>6, <3>1, Products
  <2>8. rows[m].points \in Nat /\ PointsThrough(m - 1) \in Nat
    <3>1. m - 1 \in 0 .. Len(rows)
      BY <1>1
    <3> QED
      BY <1>1, <3>1, Sums DEF Row
  <2>9. x + 1 \in 1 .. rows[m].points /\ 1 \in 1 .. rows[n].points
    <3>1. PICK p, q : p = rows[m].points /\ q = rows[n].points
      OBVIOUS
    <3>2. x < p /\ p \in Nat /\ q \in Nat /\ q >= 1
      BY <2>3, <2>5, <2>6, <2>8, <3>1
    <3>3. x + 1 \in 1 .. p /\ 1 \in 1 .. q
      BY <2>7, <3>2
    <3> QED
      BY <3>1, <3>3
  <2>10. PointsThrough(m - 1) + (x + 1) = PointsThrough(n - 1) + 1
    <3>1. PICK p, q, z : p = PointsThrough(m - 1) /\ q = PointsThrough(n - 1) /\ z = d[1].seq
      OBVIOUS
    <3>2. z = p + x + 1 /\ p \in Nat
      BY <2>5, <2>6, <2>8, <3>1
    <3>3. z = q + 1
      BY <1>4, <2>1, <2>3, <3>1
    <3>4. p + (x + 1) = q + 1
      BY <2>7, <3>2, <3>3
    <3> QED
      BY <3>1, <3>4
  <2>11. m = n
    BY <1>1, <2>3, <2>9, <2>10, PointIsUnique
  <2>12. rows[n].points <= 1
    BY <2>1 DEF Fits
  <2> QED
    BY <2>3, <2>5, <2>11, <2>12
<1>5. ASSUME WideCut(a), WideCut(b) PROVE LastSequence(a) = LastSequence(b)
  <2>1. PICK m \in 1 .. Len(rows) : \E k \in Nat \ {0} :
          /\ (k - 1) * SplitLimit < rows[m].points
          /\ a[1].seq = PointsThrough(m - 1) + (k - 1) * SplitLimit + 1
          /\ LastSequence(a) = PointsThrough(m - 1) + EndOfPart(m, k)
    BY <1>5 DEF WideCut
  <2>2. PICK k \in Nat \ {0} :
          /\ (k - 1) * SplitLimit < rows[m].points
          /\ a[1].seq = PointsThrough(m - 1) + (k - 1) * SplitLimit + 1
          /\ LastSequence(a) = PointsThrough(m - 1) + EndOfPart(m, k)
    BY <2>1
  <2>3. PICK n \in 1 .. Len(rows) : \E l \in Nat \ {0} :
          /\ (l - 1) * SplitLimit < rows[n].points
          /\ b[1].seq = PointsThrough(n - 1) + (l - 1) * SplitLimit + 1
          /\ LastSequence(b) = PointsThrough(n - 1) + EndOfPart(n, l)
    BY <1>5 DEF WideCut
  <2>4. PICK l \in Nat \ {0} :
          /\ (l - 1) * SplitLimit < rows[n].points
          /\ b[1].seq = PointsThrough(n - 1) + (l - 1) * SplitLimit + 1
          /\ LastSequence(b) = PointsThrough(n - 1) + EndOfPart(n, l)
    BY <2>3
  <2>5. PICK x, y : x = (k - 1) * SplitLimit /\ y = (l - 1) * SplitLimit
    OBVIOUS
  <2>6. /\ x \in Nat /\ y \in Nat
        /\ k * SplitLimit = x + SplitLimit /\ l * SplitLimit = y + SplitLimit
    <3>1. k - 1 \in Nat /\ l - 1 \in Nat /\ SplitLimit \in Nat \ {0}
          /\ (k - 1) + 1 = k /\ (l - 1) + 1 = l
      BY ImportLimits
    <3>2. ((k - 1) + 1) * SplitLimit = (k - 1) * SplitLimit + SplitLimit
          /\ ((l - 1) + 1) * SplitLimit = (l - 1) * SplitLimit + SplitLimit
          /\ (k - 1) * SplitLimit \in Nat /\ (l - 1) * SplitLimit \in Nat
      BY <3>1, Products
    <3> QED
      BY <2>5, <3>1, <3>2
  <2>7. /\ rows[m].points \in Nat /\ PointsThrough(m - 1) \in Nat
        /\ rows[n].points \in Nat /\ PointsThrough(n - 1) \in Nat
    <3>1. m - 1 \in 0 .. Len(rows) /\ n - 1 \in 0 .. Len(rows)
      BY <1>1
    <3> QED
      BY <1>1, <3>1, Sums DEF Row
  <2>8. x + 1 \in 1 .. rows[m].points /\ y + 1 \in 1 .. rows[n].points
    <3>1. PICK p, q : p = rows[m].points /\ q = rows[n].points
      OBVIOUS
    <3>2. x < p /\ p \in Nat /\ y < q /\ q \in Nat
      BY <2>2, <2>4, <2>5, <2>7, <3>1
    <3>3. x + 1 \in 1 .. p /\ y + 1 \in 1 .. q
      BY <2>6, <3>2
    <3> QED
      BY <3>1, <3>3
  <2>9. PointsThrough(m - 1) + (x + 1) = PointsThrough(n - 1) + (y + 1)
    <3>1. PICK p, q : p = PointsThrough(m - 1) /\ q = PointsThrough(n - 1)
      OBVIOUS
    <3>2. a[1].seq = p + x + 1 /\ b[1].seq = q + y + 1
      BY <2>2, <2>4, <2>5, <3>1
    <3>3. p + x + 1 = q + y + 1 /\ p \in Nat /\ q \in Nat
      BY <2>7, <3>1, <3>2
    <3>4. p + (x + 1) = q + (y + 1)
      BY <2>6, <3>3
    <3> QED
      BY <3>1, <3>4
  <2>10. m = n /\ x + 1 = y + 1
    BY <1>1, <2>8, <2>9, PointIsUnique
  <2>11. k * SplitLimit = l * SplitLimit
    BY <2>6, <2>10
  <2> QED
    BY <2>2, <2>4, <2>10, <2>11 DEF EndOfPart
<1> QED
  BY <1>2, <1>3, <1>4, <1>5 DEF IsCut

(* While the source stays as it is, they are the same batch.               *)
LEMMA CutsAreEqual ==
  ASSUME TargetInv, revision = 1, runState # "absent", config = 1,
         NEW a, NEW b, IsBatch(a), IsBatch(b), IsCut(a), IsCut(b),
         a[1].seq = b[1].seq
  PROVE  a = b
<1>1. LastSequence(a) = LastSequence(b)
  BY CutsEnd
<1>2. /\ Len(a) \in Nat /\ a[1].seq \in Nat /\ LastSequence(a) = a[1].seq + Len(a) - 1
  BY BatchTyped
<1>3. /\ Len(b) \in Nat /\ b[1].seq \in Nat /\ LastSequence(b) = b[1].seq + Len(b) - 1
  BY BatchTyped
<1>4. Len(a) = Len(b)
  <2>1. PICK j, k, l, z : j = Len(a) /\ k = Len(b) /\ l = LastSequence(a) /\ z = a[1].seq
    OBVIOUS
  <2>2. l = z + j - 1 /\ l = z + k - 1 /\ j \in Nat /\ k \in Nat /\ z \in Nat
    BY <1>1, <1>2, <1>3, <2>1
  <2>3. j = k
    BY <2>2
  <2> QED
    BY <2>1, <2>3
<1>5. SourceTyped /\ \A v \in Revisions : v = 1
  BY DEF TargetInv, SourceTyped, Revisions
<1>6. ASSUME NEW i \in 1 .. Len(a) PROVE a[i] = b[i]
  <2>1. IsPoint(a[i]) /\ IsPoint(b[i]) /\ a[i].seq = b[i].seq
    <3>1. IsPoint(a[i]) /\ a[i].seq = a[1].seq + i - 1
      BY DEF IsBatch
    <3>2. IsPoint(b[i]) /\ b[i].seq = b[1].seq + i - 1
      BY <1>4 DEF IsBatch
    <3> QED
      BY <3>1, <3>2
  <2>2. PICK m \in 1 .. Len(rows) : \E j \in 1 .. rows[m].points : \E v \in Revisions :
          a[i] = [seq |-> PointsThrough(m - 1) + j, id |-> <<m, j, v>>]
    BY <2>1 DEF IsPoint
  <2>3. PICK j \in 1 .. rows[m].points : \E v \in Revisions :
          a[i] = [seq |-> PointsThrough(m - 1) + j, id |-> <<m, j, v>>]
    BY <2>2
  <2>4. a[i] = [seq |-> PointsThrough(m - 1) + j, id |-> <<m, j, 1>>]
    BY <1>5, <2>3
  <2>5. PICK n \in 1 .. Len(rows) : \E l \in 1 .. rows[n].points : \E v \in Revisions :
          b[i] = [seq |-> PointsThrough(n - 1) + l, id |-> <<n, l, v>>]
    BY <2>1 DEF IsPoint
  <2>6. PICK l \in 1 .. rows[n].points : \E v \in Revisions :
          b[i] = [seq |-> PointsThrough(n - 1) + l, id |-> <<n, l, v>>]
    BY <2>5
  <2>7. b[i] = [seq |-> PointsThrough(n - 1) + l, id |-> <<n, l, 1>>]
    BY <1>5, <2>6
  <2>8. PointsThrough(m - 1) + j = PointsThrough(n - 1) + l
    BY <2>1, <2>4, <2>7
  <2>9. m = n /\ j = l
    BY <1>5, <2>8, PointIsUnique
  <2> QED
    BY <2>4, <2>7, <2>9
<1>7. a \in Seq(HistoryPoint) /\ b \in Seq(HistoryPoint)
  BY DEF IsBatch
<1> QED
  BY <1>4, <1>6, <1>7, SeqEqual

(* A batch that continues where a stored one begins or the history ends is *)
(* accepted, or was accepted before.                                       *)
LEMMA BatchIsKnown ==
  ASSUME TargetInv, revision = 1, runState = "running", config = 1,
         NEW r, IsBatch(r), IsCut(r), Boundary(r[1].seq, {})
  PROVE  CanAccept(r) \/ IsDuplicate(r)
<1> SUFFICES ASSUME r \notin batches PROVE CanAccept(r)
  BY DEF IsDuplicate
<1>1. \A b \in batches : b[1].seq # r[1].seq
  <2> SUFFICES ASSUME NEW b \in batches, b[1].seq = r[1].seq PROVE FALSE
    OBVIOUS
  <2>1. IsBatch(b) /\ IsCut(b)
    BY DEF TargetInv
  <2>2. b = r
    BY <2>1, CutsAreEqual
  <2> QED
    BY <2>2
<1>2. Consecutive(r)
  <2> SUFFICES ASSUME NEW i \in 1 .. Len(r) - 1 PROVE r[i + 1].seq = r[i].seq + 1
    BY DEF Consecutive
  <2>1. Len(r) \in Nat /\ r[1].seq \in Nat
    BY BatchTyped
  <2>2. i \in 1 .. Len(r) /\ i + 1 \in 1 .. Len(r) /\ i \in Nat
    BY <2>1
  <2>3. r[i].seq = r[1].seq + i - 1 /\ r[i + 1].seq = r[1].seq + (i + 1) - 1
    BY <2>2 DEF IsBatch
  <2> QED
    BY <2>1, <2>2, <2>3
<1>3. ~ReusesSequence(r)
  BY <1>1 DEF ReusesSequence, BatchSequence
<1>4. Continues(r)
  <2> SUFFICES ASSUME stored # <<>> PROVE r[1].seq = stored[Len(stored)].seq + 1
    BY DEF Continues, BatchSequence
  <2>1. stored \in Seq(HistoryPoint)
    BY DEF TargetInv
  <2>2. Len(stored) \in 1 .. Len(stored)
    BY <2>1
  <2>3. stored[Len(stored)].seq = Len(stored)
    BY <2>2 DEF TargetInv
  <2>4. r[1].seq = Len(stored) + 1
    BY <1>1 DEF Boundary
  <2> QED
    BY <2>3, <2>4
<1> QED
  BY <1>2, <1>3, <1>4 DEF CanAccept, IsDuplicate

(* While the source stays as it is, what an attempt sends again is what an *)
(* earlier one sent: no batch and no shard conflicts with a stored one.    *)
THEOREM ResentIsWelcome == Spec => []ResentIsKnown
<1>1. ASSUME ImportInv PROVE ResentIsKnown
  <2> SUFFICES ASSUME revision = 1, todo # <<>>, ~LateFinish,
                      Head(todo).op \in {"ingest", "shard"}
      PROVE  ~Refused(Head(todo))
    BY DEF ResentIsKnown
  <2>1. TargetInv /\ ClaimsInv /\ PlaceInv
    BY <1>1 DEF ImportInv
  <2>2. PICK t : t = Head(todo)
    OBVIOUS
  <2>3. /\ t = todo[1] /\ t \in ToSet(todo) /\ Len(todo) \in Nat /\ Len(todo) >= 1
    BY <2>1, <2>2, HeadAndTail DEF ClaimsInv
  <2>4. TaskHolds(t, {})
    <3>1. 1 \in 1 .. Len(todo)
      BY <2>3
    <3>2. TaskHolds(todo[1], {} \union Before(todo, 1))
      BY <2>1, <3>1 DEF ClaimsInv, Follow
    <3>3. {} \union Before(todo, 1) = {}
      BY DEF Before
    <3> QED
      BY <2>3, <3>2, <3>3
  <2>5. Working
    <3>1. pc # "end"
      BY <2>1, <2>2, <2>3 DEF PlaceInv
    <3>2. pc # "refresh"
      <4> SUFFICES ASSUME pc = "refresh" PROVE FALSE
        OBVIOUS
      <4>1. todo = Save([phase |-> "history"])
        BY <2>1 DEF PlaceInv
      <4>2. PICK x : x = [op |-> "save", arg |-> [phase |-> "history"]]
        OBVIOUS
      <4>3. todo = <<x>> /\ x.op = "save"
        BY <4>1, <4>2 DEF Save
      <4>4. Head(<<x>>) = x
        OBVIOUS
      <4> QED
        BY <4>3, <4>4
    <3> QED
      BY <2>1, <3>1, <3>2 DEF PlaceInv, Working
  <2>6. runState = "running" /\ config = 1
    BY <2>1, <2>2, <2>4, <2>5 DEF PlaceInv, TargetInv, TaskHolds
  <2>7. CASE t.op = "ingest"
    <3>1. IsBatch(t.arg) /\ IsCut(t.arg) /\ Boundary(t.arg[1].seq, {})
      BY <2>4, <2>7 DEF TaskHolds
    <3>2. CanAccept(t.arg) \/ IsDuplicate(t.arg)
      BY <2>1, <2>6, <3>1, BatchIsKnown
    <3> QED
      BY <2>2, <2>7, <3>2 DEF Refused
  <2>8. CASE t.op = "shard"
    <3>1. ~Conflicts(shards, t.arg)
      BY <2>1, <2>6 DEF TargetInv, Revisions, Conflicts
    <3> QED
      BY <2>2, <2>6, <2>8, <3>1 DEF Refused
  <2> QED
    BY <2>2, <2>7, <2>8
<1> QED
  BY <1>1, ImportInvariant, PTL
=============================================================================
