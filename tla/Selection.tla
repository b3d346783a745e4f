----------------------------- MODULE Selection -----------------------------
(***************************************************************************)
(* The part of a sequence that a query selects, in the same order.         *)
(***************************************************************************)
EXTENDS Naturals, Sequences

Only(s, chosen) ==
  LET only[i \in 0 .. Len(s)] ==
        IF i = 0 THEN <<>>
        ELSE IF s[i] \in chosen THEN Append(only[i - 1], s[i]) ELSE only[i - 1]
  IN only[Len(s)]
=============================================================================
