---------------------------- MODULE ReliableCopy ----------------------------
(***************************************************************************)
(* What metric delivery promises (ADR 0003): records are appended to a     *)
(* source and copied to the other side in order, each exactly once, and a  *)
(* record that was copied stays.  How many are copied at a time, and how   *)
(* often the transport repeats itself, does not show.                      *)
(***************************************************************************)
EXTENDS Naturals, Sequences

VARIABLES source, copy

Init == source = <<>> /\ copy = <<>>

Grow ==
  /\ Len(source') = Len(source) + 1
  /\ source = SubSeq(source', 1, Len(source))

Advance ==
  /\ Len(copy') > Len(copy)
  /\ Len(copy') <= Len(source)
  /\ copy' = SubSeq(source, 1, Len(copy'))

Next ==
  \/ Grow /\ UNCHANGED copy
  \/ Advance /\ UNCHANGED source

Spec == Init /\ [][Next]_<<source, copy>>
=============================================================================
