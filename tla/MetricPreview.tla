---------------------------- MODULE MetricPreview ----------------------------
(***************************************************************************)
(* The preview of a run's latest metrics, kept twice: by the SDK, merged   *)
(* point by point (merge_metric_preview of _summary.py), and by the server, *)
(* merged batch by batch (latest_metrics and update_metric_summary_preview). *)
(* A finish whose answer was lost is recognised by comparing the two.      *)
(*                                                                         *)
(* A point is the set of its keys; under all of them it logs one number.   *)
(* A value of a preview is such a number with the point it came from, which *)
(* nobody compares: it tells values apart for the property.                *)
(*                                                                         *)
(* Python writes and reads a number exactly.  The server's JSON parser may *)
(* read the number next to the one that was written (serde_json without    *)
(* its feature float_roundtrip), each time it reads it: in a request, in   *)
(* the stored preview when a batch is merged into it, and when the preview *)
(* is answered with.                                                       *)
(***************************************************************************)
EXTENDS Naturals, Sequences, FiniteSets

CONSTANTS
  MetricKeys,  \* in their order
  SystemKeys,  \* the ones that begin with "system/"
  MaxPreview,  \* MAX_DERIVED_SUMMARY_KEYS
  MaxPoints,   \* bound: points logged
  Numbers,     \* what a point may log and the parser may make of it
  Logged,      \* the number the i-th point logs
  Parsed       \* what the server's parser makes of a number

ASSUME PreviewAssumption ==
  /\ MetricKeys \subseteq Nat /\ IsFiniteSet(MetricKeys) /\ SystemKeys \subseteq MetricKeys
  /\ MaxPreview \in Nat \ {0} /\ MaxPoints \in Nat

ASSUME NumberAssumption ==
  /\ Logged \in [1 .. MaxPoints -> Numbers]
  /\ Parsed \in [Numbers -> Numbers]

VARIABLES
  points,         \* logged and in the journal
  preview,        \* _metric_summary and _summary_truncated
  mergedUpTo,     \* the points it counts; all of them but during recover_summary
  saved,          \* the same in run.json
  savedUpTo,      \* summary_event_offset
  storedUpTo,     \* the points the server has
  serverPreview   \* metric_summary_json and metric_summary_truncated

sdk == <<points, preview, mergedUpTo, saved, savedUpTo>>
previewVars == <<sdk, storedUpTo, serverPreview>>

NoPreview == [values |-> <<>>, truncated |-> FALSE]

PreviewInit ==
  /\ points = <<>> /\ preview = NoPreview /\ mergedUpTo = 0
  /\ saved = NoPreview /\ savedUpTo = 0
  /\ storedUpTo = 0 /\ serverPreview = NoPreview

(* The first MaxPreview of some keys.                                      *)
Retained(keys) == {k \in keys : Cardinality({j \in keys : j < k}) < MaxPreview}

(* The points' values take the place of those there are.                   *)
Updated(current, metrics) ==
  [k \in DOMAIN current \union DOMAIN metrics |->
     IF k \in DOMAIN metrics THEN metrics[k] ELSE current[k]]

(* Mutant: once the preview is full, the keys in it keep their places.     *)
MergePreviewFirstCome(current, metrics, truncated) ==
  LET candidates == Updated(current, metrics)
      room == MaxPreview - Cardinality(DOMAIN current)
      new == DOMAIN metrics \ DOMAIN current
      kept == DOMAIN current \union
                {k \in new : Cardinality({j \in new : j < k}) < room}
  IN [values |-> [k \in kept |-> candidates[k]],
      truncated |-> truncated \/ kept # DOMAIN candidates]

(* merge_metric_preview; the server's loop that removes the last key while *)
(* there are too many comes to the same.                                   *)
MergePreview(current, metrics, truncated) ==
  LET candidates == Updated(current, metrics)
  IN [values |-> [k \in Retained(DOMAIN candidates) |-> candidates[k]],
      truncated |-> truncated \/ Cardinality(DOMAIN candidates) > MaxPreview]

(* latest_metrics of the points of a log from first to last: the latest    *)
(* point of each key, and its number.                                      *)
LatestPoints(log, first, last) ==
  LET Of(k) == {i \in first .. last : k \in log[i]}
  IN [k \in (UNION {log[i] : i \in first .. last}) \ SystemKeys |->
        CHOOSE i \in Of(k) : \A j \in Of(k) : j <= i]

NumbersOf(latest) ==
  [k \in DOMAIN latest |-> [point |-> latest[k], number |-> Logged[latest[k]]]]

LatestMetrics(log, first, last) == NumbersOf(LatestPoints(log, first, last))

(* parse_document of the server: values as its parser reads them.          *)
Read(values) == [k \in DOMAIN values |-> [values[k] EXCEPT !.number = Parsed[@]]]

MergePoint(i) ==
  /\ preview' = MergePreview(preview.values, LatestMetrics(points', i, i), preview.truncated)
  /\ mergedUpTo' = i

Recovered == mergedUpTo = Len(points)

(* _append_metrics; a point of the system monitor has system keys only.    *)
LogPoint ==
  /\ Recovered /\ Len(points) < MaxPoints
  /\ \E keys \in SUBSET MetricKeys \ {{}} : points' = Append(points, keys)
  /\ MergePoint(Len(points'))
  /\ UNCHANGED <<saved, savedUpTo, storedUpTo, serverPreview>>

(* _checkpoint_summary.                                                    *)
SavePreview ==
  /\ Recovered
  /\ saved' = preview /\ savedUpTo' = Len(points)
  /\ UNCHANGED <<points, preview, mergedUpTo, storedUpTo, serverPreview>>

(* register_batch of a batch that ends with some point of the journal: it  *)
(* reads the request, and the preview it has stored.                       *)
StorePoints ==
  /\ UNCHANGED sdk
  /\ storedUpTo' \in (storedUpTo + 1) .. Len(points)
  /\ serverPreview' =
       MergePreview(Read(serverPreview.values),
                    Read(LatestMetrics(points, storedUpTo + 1, storedUpTo')),
                    serverPreview.truncated)

(* What a resumption and an update of the summary do with the answer.      *)
MergeAnswer(own) ==
  /\ preview' = MergePreview(Read(serverPreview.values), own.values,
                             serverPreview.truncated \/ own.truncated)
  /\ saved' = preview' /\ savedUpTo' = Len(points)
  /\ UNCHANGED <<points, mergedUpTo, storedUpTo, serverPreview>>

UpdateSummary == Recovered /\ MergeAnswer(preview)

(* A delivered run is resumed with a fresh spool.                          *)
ResumeAfresh == Recovered /\ storedUpTo = Len(points) /\ MergeAnswer(NoPreview)

(* recover_summary, after a crash or a close: what was saved, and then the *)
(* tail of the journal, point by point.                                    *)
StartRecovery ==
  /\ preview' = saved /\ mergedUpTo' = savedUpTo
  /\ UNCHANGED <<points, saved, savedUpTo, storedUpTo, serverPreview>>

RecoverPoint ==
  /\ ~Recovered
  /\ UNCHANGED <<points, saved, savedUpTo, storedUpTo, serverPreview>>
  /\ MergePoint(mergedUpTo + 1)

PreviewNext ==
  \/ LogPoint \/ SavePreview \/ StorePoints
  \/ UpdateSummary \/ ResumeAfresh \/ StartRecovery \/ RecoverPoint

PreviewSpec == PreviewInit /\ [][PreviewNext]_previewVars
-----------------------------------------------------------------------------
(* The preview of the first n points, from its definition: the latest      *)
(* points of the first MaxPreview keys there are, and whether those are    *)
(* all.                                                                    *)
PreviewOf(n) ==
  LET keys == (UNION {points[i] : i \in 1 .. n}) \ SystemKeys
      Of(k) == {i \in 1 .. n : k \in points[i]}
  IN [latest |-> [k \in Retained(keys) |-> CHOOSE i \in Of(k) : \A j \in Of(k) : j <= i],
      truncated |-> Cardinality(keys) > MaxPreview]

(* What becomes of a number however often it is read; of one the parser    *)
(* keeps, only that number.                                                *)
KeptByParser == {S \in SUBSET Numbers : \A n \in S : Parsed[n] \in S}
Readings(number) == {r \in Numbers : \A S \in KeptByParser : number \in S => r \in S}

Previews(p, n) ==
  LET reference == PreviewOf(n)
  IN /\ p.truncated = reference.truncated
     /\ DOMAIN p.values = DOMAIN reference.latest
     /\ \A k \in DOMAIN p.values :
          /\ p.values[k].point = reference.latest[k]
          /\ p.values[k].number \in Readings(Logged[p.values[k].point])

(* However the points are cut into batches, checkpoints and resumptions,   *)
(* the SDK's preview has the keys, the flag and for each key the point that *)
(* all points logged give it, and the server's those of all points stored; *)
(* a number in it is the one that point logged or a reading of it.         *)
PreviewsFollowTheLog ==
  Previews(preview, mergedUpTo) /\ Previews(serverPreview, storedUpTo)

(* If the parser keeps the numbers in it, the server answers with the very *)
(* preview the SDK has, once everything has been delivered.                *)
ExactPreviewsAreEqual ==
  (/\ mergedUpTo = Len(points) /\ storedUpTo = Len(points)
   /\ \A k \in DOMAIN preview.values :
        LET number == Logged[preview.values[k].point] IN Parsed[number] = number)
    => /\ Read(serverPreview.values) = preview.values
       /\ serverPreview.truncated = preview.truncated

(* The two previews, which a lost finish is recognised by, agree: each is  *)
(* that of the points it counts, and they are equal as far as the server's *)
(* parser lets them be.                                                    *)
PreviewsAgree == PreviewsFollowTheLog /\ ExactPreviewsAreEqual
=============================================================================
