--------------------------- MODULE MCSegmentStore ---------------------------
(* Small instances of SegmentStore. *)
EXTENDS SegmentStore

Row(n, id) == [seq |-> n, id |-> id]

(* The ingest tasks do not differ.                                          *)
TaskSymmetry == Permutations(Tasks)

(* One client's batches of one row each, from sequence 0 on.               *)
Single(n) == {<<Row(i, 1)>> : i \in 0 .. n - 1}
ThreeBatches == Single(3)
TwoBatches == Single(2)

(* A batch of two rows that reuses a sequence with other contents, too.     *)
ThreeAndRival == Single(3) \union {<<Row(1, 2), Row(2, 2)>>}

(* The file of the first batch is on a medium gone read-only, say.          *)
FirstIsStuck == {BatchPath(<<Row(0, 1)>>)}
=============================================================================
