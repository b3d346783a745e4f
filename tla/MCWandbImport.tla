--------------------------- MODULE MCWandbImport ---------------------------
(* WandbImport for TLC: small histories with every kind of row.            *)
EXTENDS WandbImport

MkRow(points, size, attachments, skipped) ==
  [points |-> points, size |-> size, media |-> attachments, skipped |-> skipped]

Plain == MkRow(1, 1, 0, 1)
Large == MkRow(1, 2, 0, 0)
Wide == MkRow(3, 1, 1, 0)
Bare == MkRow(0, 0, 1, 1)
Media == MkRow(1, 1, 2, 0)

(* Batches that fill up, that overflow and that a wide row cuts short; rows*)
(* without metrics; more media than the window holds.                      *)
MCHistories == {
  <<>>,
  <<Plain, Large, Bare>>,
  <<Plain, Wide, Plain>>,
  <<Media, Media, Bare>> }
=============================================================================
