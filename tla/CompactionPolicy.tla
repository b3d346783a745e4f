-------------------------- MODULE CompactionPolicy --------------------------
(***************************************************************************)
(* Which segments of a run compaction merges: next_compaction_candidate of *)
(* epochdeck-catalog, over the metric_segments of one run while ingestion  *)
(* appends to them.  SegmentStore models how they are merged.              *)
(*                                                                         *)
(* A segment is its signature, its range of sequences and a history        *)
(* variable: how often its most often rewritten row has been rewritten.    *)
(***************************************************************************)
EXTENDS Naturals, Sequences, SequencesExt, Selection

CONSTANTS
  Signatures,
  TargetRows,  \* target_rows
  MinInputs,   \* MIN_COMPACTION_INPUT_SEGMENTS
  MaxInputs,   \* max_input_segments
  SizeRatio,   \* MAX_COMPACTION_SIZE_RATIO
  BatchSizes,  \* the sizes of batches
  MaxRows      \* bound: rows of the run

ASSUME PolicyAssumption ==
  /\ TargetRows \in Nat \ {0} /\ MinInputs \in Nat /\ MaxInputs \in Nat
  /\ 2 <= MinInputs /\ MinInputs <= MaxInputs
  /\ SizeRatio \in Nat \ {0} /\ BatchSizes \subseteq Nat \ {0}
  /\ MaxRows \in Nat

(* The two constants of the catalog: four segments of which the largest is *)
(* at most twice the smallest.                                             *)
ASSUME TierAssumption == SizeRatio < MinInputs

VARIABLES
  segments,  \* metric_segments in the order of first_sequence
  candidate  \* what the pass in progress has chosen, or <<>>

vars == <<segments, candidate>>

RowCount(s) == s.last - s.first + 1

TotalRows(list) ==
  LET upTo[i \in 0 .. Len(list)] ==
        IF i = 0 THEN 0 ELSE upTo[i - 1] + RowCount(list[i])
  IN upTo[Len(list)]

(* Adjacent segments of one schema.                                        *)
Adjacent(list) ==
  \A i \in 1 .. Len(list) - 1 :
    /\ list[i].signature = list[i + 1].signature
    /\ list[i].last + 1 = list[i + 1].first

(* Mutant: sizes do not matter.                                            *)
AnySizes(list) == TRUE

(* The largest is at most so many times the size of the smallest.          *)
Comparable(list) ==
  \A i, j \in 1 .. Len(list) : RowCount(list[i]) <= SizeRatio * RowCount(list[j])

(* The first query: the window functions range over the segments below the *)
(* target, and the first window that fits is the seed.                     *)
Small == Only(segments, {s \in ToSet(segments) : RowCount(s) < TargetRows})

(* Mutant: the windows are not checked to be adjacent and of one schema.   *)
SeedsOfAnySchema ==
  LET small == Small
      window(i) == SubSeq(small, i, i + MinInputs - 1)
  IN {i \in 1 .. Len(small) :
        /\ i + MinInputs - 1 <= Len(small)
        /\ TotalRows(window(i)) <= TargetRows
        /\ Comparable(window(i))}

Seeds ==
  LET small == Small
      window(i) == SubSeq(small, i, i + MinInputs - 1)
  IN {i \in 1 .. Len(small) :
        /\ i + MinInputs - 1 <= Len(small)
        /\ Adjacent(window(i))
        /\ TotalRows(window(i)) <= TargetRows
        /\ Comparable(window(i))}

SeedSequence ==
  LET seeds == Seeds
  IN Small[CHOOSE i \in seeds : \A j \in seeds : i <= j].first

(* The second: the segments from there on, of any size, and of them as     *)
(* many as the loop takes before it breaks.                                *)
FromSeed ==
  LET start == SeedSequence
      rest == Only(segments, {s \in ToSet(segments) : s.first >= start})
  IN SubSeq(rest, 1, IF Len(rest) < MaxInputs THEN Len(rest) ELSE MaxInputs)

Fits(list) ==
  /\ Adjacent(list) /\ Comparable(list)
  /\ \A i \in 1 .. Len(list) : RowCount(list[i]) < TargetRows
  /\ TotalRows(list) <= TargetRows

Extension ==
  LET rest == FromSeed
      taken == {n \in 0 .. Len(rest) : \A m \in 1 .. n : Fits(SubSeq(rest, 1, m))}
  IN SubSeq(rest, 1, CHOOSE n \in taken : \A m \in taken : m <= n)

NextCandidate ==
  IF Seeds # {} /\ Len(Extension) >= MinInputs THEN Extension ELSE <<>>

(* write_compacted_parquet and replace_compacted_segments.                 *)
Merged(list) ==
  [signature |-> Head(list).signature,
   first |-> Head(list).first,
   last |-> Last(list).last,
   rewrites |->
     1 + (CHOOSE n \in {s.rewrites : s \in ToSet(list)} :
            \A s \in ToSet(list) : s.rewrites <= n)]

NextRow == IF segments = <<>> THEN 1 ELSE Last(segments).last + 1

Init == segments = <<>> /\ candidate = <<>>

Register ==
  \E n \in BatchSizes, signature \in Signatures :
    /\ NextRow + n - 1 <= MaxRows
    /\ segments' = Append(segments, [signature |-> signature,
                                     first |-> NextRow,
                                     last |-> NextRow + n - 1,
                                     rewrites |-> 0])
    /\ UNCHANGED candidate

Choose ==
  /\ candidate = <<>>
  /\ NextCandidate # <<>>
  /\ candidate' = NextCandidate
  /\ UNCHANGED segments

Replace ==
  /\ candidate # <<>>
  /\ ToSet(candidate) \subseteq ToSet(segments)
  /\ segments' =
       Only(segments, {s \in ToSet(segments) : s.last < Head(candidate).first})
         \o <<Merged(candidate)>> \o
       Only(segments, {s \in ToSet(segments) : s.first > Last(candidate).last})
  /\ candidate' = <<>>

Next == Register \/ Choose \/ Replace

Spec == Init /\ [][Next]_vars
-----------------------------------------------------------------------------
(* The types of the variables. *)
Segment ==
  {s \in [signature : Signatures, first : 1 .. MaxRows, last : 1 .. MaxRows,
          rewrites : 0 .. MaxRows] : s.first <= s.last}

TypeOK ==
  /\ \A s \in ToSet(segments) \union ToSet(candidate) : s \in Segment
  /\ Len(segments) <= MaxRows /\ Len(candidate) <= MaxInputs

(* A seed is always good for a pass: the second query, which looks at      *)
(* segments of any size and counts the limit, does not turn the seed of    *)
(* the first into no candidate.  Otherwise this seed, always found first,  *)
(* would keep every other run from compaction.                             *)
SeedsAreCandidates == Seeds # {} => Len(Extension) >= MinInputs

TwoToThe(n) ==
  LET power[i \in 0 .. n] == IF i = 0 THEN 1 ELSE 2 * power[i - 1]
  IN power[n]

(* ADR 0002: the size tiers bound the rewrites per row logarithmically: a  *)
(* row is rewritten into a segment at least twice as large each time.      *)
RewritesAreBounded ==
  \A i \in 1 .. Len(segments) :
    TwoToThe(segments[i].rewrites) <= RowCount(segments[i])
=============================================================================
