------------------------- MODULE SegmentStore_proofs -------------------------
(***************************************************************************)
(* What holds of a run's segments for any number of tasks and readers, any *)
(* requests, page limits and any number of crashes.                        *)
(*                                                                         *)
(* StoreInv is the inductive invariant of ingestion and compaction.  That  *)
(* the active segments hold the history in order (HistoryInOrder) and have *)
(* their files is kept because one task at a time is past the run lock and *)
(* no batch is registered twice, because the sources of a merge are        *)
(* adjacent active segments until they are replaced, and because a file is *)
(* removed only when its row is retired or gone; that a retired segment is *)
(* not active, so that its removal harms no one, because it is covered by  *)
(* a larger one.                                                           *)
(*                                                                         *)
(* QueriesInv, on top of it, says how far each query has come in the       *)
(* history: which rows it has seen, which segments it has fetched, where   *)
(* its extent and its cursor are.                                          *)
(***************************************************************************)
EXTENDS SegmentStore, SequenceLemmas

(* A row is known by its sequence; what it logs is its id.                 *)
Row == [seq : Nat, id : Nat]

(* Paths name files with rows.                                             *)
Segments(S) == \A p \in S : p.rows \in Seq(Row) /\ p.rows # <<>>

(* The rows of each segment.                                               *)
AllRows(s) == [i \in DOMAIN s |-> s[i].rows]

(* How many rows the first k segments hold.                                *)
End(s, k) == Len(RowsOf(SubSeq(s, 1, k)))

(* Rows in the order of their sequences, no two with the same.             *)
Increasing(rows) ==
  \A i, j \in 1 .. Len(rows) : i < j => rows[i].seq < rows[j].seq
-----------------------------------------------------------------------------
(* The rows of a list of segments.                                         *)
LEMMA RowsTyped ==
  ASSUME NEW S, Segments(S), NEW s \in Seq(S)
  PROVE  /\ AllRows(s) \in Seq(Seq(Row)) /\ Len(AllRows(s)) = Len(s)
         /\ \A i \in 1 .. Len(s) : AllRows(s)[i] = s[i].rows
         /\ RowsOf(s) = FlattenSeq(AllRows(s)) /\ RowsOf(s) \in Seq(Row)
<1>1. /\ AllRows(s) \in Seq(Seq(Row)) /\ Len(AllRows(s)) = Len(s)
      /\ \A i \in 1 .. Len(s) : AllRows(s)[i] = s[i].rows
  BY DEF AllRows, Segments
<1>2. RowsOf(s) = FlattenSeq(AllRows(s))
  BY DEF RowsOf, AllRows
<1>3. FlattenSeq(AllRows(s)) \in Seq(Row)
  <2>1. <<>> \in Seq(Row)
    OBVIOUS
  <2>2. PICK rr \in Seq(Seq(Row)) : rr = AllRows(s)
    BY <1>1
  <2>3. FlattenSeq(rr) \in Seq(Row)
    BY <2>1, <2>2, FlattenAppend
  <2> QED
    BY <2>2, <2>3
<1> QED
  BY <1>1, <1>2, <1>3

(* The rows of two lists, one after the other.                             *)
LEMMA RowsConcat ==
  ASSUME NEW S, Segments(S), NEW s \in Seq(S), NEW t \in Seq(S)
  PROVE  RowsOf(s \o t) = RowsOf(s) \o RowsOf(t)
<1>1. PICK u \in Seq(S) : /\ u = s \o t /\ Len(u) = Len(s) + Len(t)
                          /\ \A i \in 1 .. Len(s) + Len(t) :
                               u[i] = IF i <= Len(s) THEN s[i] ELSE t[i - Len(s)]
  <2>1. s \o t \in Seq(S)
    OBVIOUS
  <2>2. Len(s \o t) = Len(s) + Len(t)
    OBVIOUS
  <2>3. ASSUME NEW i \in 1 .. Len(s) + Len(t)
        PROVE  (s \o t)[i] = IF i <= Len(s) THEN s[i] ELSE t[i - Len(s)]
    OBVIOUS
  <2> QED
    BY <2>1, <2>2, <2>3
<1>2a. PICK a \in Seq(Seq(Row)) : /\ a = AllRows(s) /\ Len(a) = Len(s)
                                  /\ \A i \in 1 .. Len(s) : a[i] = s[i].rows
  BY RowsTyped
<1>2b. PICK b \in Seq(Seq(Row)) : /\ b = AllRows(t) /\ Len(b) = Len(t)
                                  /\ \A i \in 1 .. Len(t) : b[i] = t[i].rows
  BY RowsTyped
<1>2c. PICK c \in Seq(Seq(Row)) : /\ c = AllRows(u) /\ Len(c) = Len(u)
                                  /\ \A i \in 1 .. Len(u) : c[i] = u[i].rows
  BY RowsTyped
<1>2. /\ Len(a) = Len(s) /\ Len(b) = Len(t) /\ Len(c) = Len(s) + Len(t)
      /\ \A i \in 1 .. Len(s) : a[i] = s[i].rows
      /\ \A i \in 1 .. Len(t) : b[i] = t[i].rows
      /\ \A i \in 1 .. Len(u) : c[i] = u[i].rows
  BY <1>1, <1>2a, <1>2b, <1>2c
<1>3. c = a \o b
  <2>1. Len(a \o b) = Len(c) /\ a \o b \in Seq(Seq(Row))
    <3>1. a \o b \in Seq(Seq(Row)) /\ Len(a \o b) = Len(a) + Len(b)
      OBVIOUS
    <3> QED
      BY <1>2, <3>1
  <2>2. ASSUME NEW i \in 1 .. Len(c) PROVE c[i] = (a \o b)[i]
    <3>1. (a \o b)[i] = IF i <= Len(a) THEN a[i] ELSE b[i - Len(a)]
      <4>1. i \in 1 .. Len(a) + Len(b)
        BY <1>2
      <4> QED
        BY <4>1
    <3>2. c[i] = u[i].rows /\ u[i] = IF i <= Len(s) THEN s[i] ELSE t[i - Len(s)]
      BY <1>1, <1>2
    <3>3. Len(s) \in Nat /\ Len(t) \in Nat
      OBVIOUS
    <3>4. CASE i <= Len(s)
      <4>1. i \in 1 .. Len(s)
        BY <1>2, <3>3, <3>4
      <4> QED
        BY <1>2, <3>1, <3>2, <3>4, <4>1
    <3>5. CASE ~(i <= Len(s))
      <4>1. i - Len(s) \in 1 .. Len(t)
        BY <1>2, <3>3, <3>5
      <4> QED
        BY <1>2, <3>1, <3>2, <3>5, <4>1
    <3> QED
      BY <3>4, <3>5
  <2>3. PICK d \in Seq(Seq(Row)) : d = a \o b
    BY <2>1
  <2> QED
    BY <2>1, <2>2, <2>3, SeqEqual
<1>4. FlattenSeq(a \o b) = FlattenSeq(a) \o FlattenSeq(b)
  BY FlattenConcat
<1>5. RowsOf(s) = FlattenSeq(a) /\ RowsOf(t) = FlattenSeq(b) /\ RowsOf(u) = FlattenSeq(c)
  BY <1>2a, <1>2b, <1>2c, RowsTyped
<1> QED
  BY <1>1, <1>3, <1>4, <1>5

(* The rows of one segment.                                                *)
LEMMA RowsOne ==
  ASSUME NEW S, Segments(S), NEW p \in S
  PROVE  RowsOf(<<p>>) = p.rows /\ RowsOf(<<>>) = <<>>
<1>1. <<p>> \in Seq(S) /\ <<>> \in Seq(S) /\ p.rows \in Seq(Row)
  BY DEF Segments
<1>2. AllRows(<<p>>) = <<p.rows>> /\ AllRows(<<>>) = <<>>
  BY DEF AllRows
<1>3. RowsOf(<<p>>) = FlattenSeq(<<p.rows>>) /\ RowsOf(<<>>) = FlattenSeq(<<>>)
  BY <1>2 DEF AllRows, RowsOf
<1> QED
  BY <1>1, <1>3, FlattenOne

(* The first and the last row are of the first and the last segment.       *)
LEMMA RowsEnds ==
  ASSUME NEW S, Segments(S), NEW s \in Seq(S), s # <<>>
  PROVE  /\ RowsOf(s) # <<>> /\ RowsOf(s)[1] = s[1].rows[1]
         /\ RowsOf(s)[Len(RowsOf(s))] = s[Len(s)].rows[Len(s[Len(s)].rows)]
<1>1. Len(s) \in Nat \ {0} /\ 1 \in 1 .. Len(s) /\ Len(s) \in 1 .. Len(s)
  OBVIOUS
<1>2. PICK first \in S, last \in S : first = s[1] /\ last = s[Len(s)]
  BY <1>1
<1>3. PICK front \in Seq(S), tail \in Seq(S) : s = front \o <<last>> /\ s = <<first>> \o tail
  <2>1. SubSeq(s, 1, Len(s)) = SubSeq(s, 1, Len(s) - 1) \o <<s[Len(s)]>>
    BY <1>1, SubSeqRecursiveSecond
  <2>2. SubSeq(s, 1, Len(s)) = <<s[1]>> \o SubSeq(s, 1 + 1, Len(s))
    BY <1>1, SubSeqRecursiveFirst
  <2>3. SubSeq(s, 1, Len(s)) = s
    BY SubSeqFull
  <2>4. SubSeq(s, 1, Len(s) - 1) \in Seq(S) /\ SubSeq(s, 1 + 1, Len(s)) \in Seq(S)
    BY <1>1, SubSeqProperties
  <2> QED
    BY <1>2, <2>1, <2>2, <2>3, <2>4
<1>4. <<first>> \in Seq(S) /\ <<last>> \in Seq(S)
  OBVIOUS
<1>5. RowsOf(s) = RowsOf(front) \o last.rows /\ RowsOf(s) = first.rows \o RowsOf(tail)
  <2>1. RowsOf(front \o <<last>>) = RowsOf(front) \o RowsOf(<<last>>)
    BY <1>4, RowsConcat
  <2>2. RowsOf(<<first>> \o tail) = RowsOf(<<first>>) \o RowsOf(tail)
    BY <1>4, RowsConcat
  <2> QED
    BY <1>3, <2>1, <2>2, RowsOne
<1>6. PICK a \in Seq(Row), b \in Seq(Row), c \in Seq(Row), d \in Seq(Row), r \in Seq(Row) :
        /\ a = RowsOf(front) /\ b = last.rows /\ c = first.rows /\ d = RowsOf(tail)
        /\ r = RowsOf(s) /\ b # <<>> /\ c # <<>>
  BY RowsTyped DEF Segments
<1>7. r = a \o b /\ r = c \o d
  BY <1>5, <1>6
<1>8. r # <<>> /\ r[1] = c[1] /\ r[Len(r)] = b[Len(b)]
  <2>1. Len(b) \in Nat \ {0} /\ Len(c) \in Nat \ {0}
    BY <1>6
  <2>2. r[1] = c[1] /\ Len(r) = Len(c) + Len(d) /\ Len(r) # 0
    BY <1>7, <2>1
  <2>3. Len(r) = Len(a) + Len(b) /\ r[Len(a) + Len(b)] = b[Len(b)]
    <3>1. Len(r) = Len(a) + Len(b)
      <4>1. Len(a \o b) = Len(a) + Len(b)
        OBVIOUS
      <4> QED
        BY <1>7, <4>1
    <3>2. PICK k \in 1 .. Len(a) + Len(b) : k = Len(a) + Len(b)
      BY <2>1
    <3>3. k - Len(a) = Len(b) /\ ~(k <= Len(a))
      BY <2>1, <3>2
    <3>4. (a \o b)[k] = IF k <= Len(a) THEN a[k] ELSE b[k - Len(a)]
      OBVIOUS
    <3>5. (a \o b)[k] = b[Len(b)]
      BY <3>3, <3>4
    <3> QED
      BY <1>7, <3>1, <3>2, <3>5
  <2> QED
    BY <2>2, <2>3
<1> QED
  BY <1>2, <1>6, <1>8

(* A slice of a list holds a slice of its rows.                            *)
LEMMA RowsOfSlice ==
  ASSUME NEW S, Segments(S), NEW s \in Seq(S),
         NEW m \in 1 .. Len(s) + 1, NEW n \in m - 1 .. Len(s)
  PROVE  /\ End(s, m - 1) \in Nat /\ End(s, n) \in Nat
         /\ End(s, m - 1) <= End(s, n) /\ End(s, n) <= Len(RowsOf(s))
         /\ Len(RowsOf(SubSeq(s, m, n))) = End(s, n) - End(s, m - 1)
         /\ RowsOf(SubSeq(s, m, n)) = SubSeq(RowsOf(s), End(s, m - 1) + 1, End(s, n))
<1>1. Len(s) \in Nat
  OBVIOUS
<1>2. PICK k \in 0 .. Len(s) : k = m - 1
  BY <1>1
<1>3. PICK a \in Seq(S), b \in Seq(S), c \in Seq(S), d \in Seq(S) :
        /\ a = SubSeq(s, 1, k) /\ b = SubSeq(s, m, n) /\ c = SubSeq(s, 1, n)
        /\ d = SubSeq(s, n + 1, Len(s))
  <2>1. SubSeq(s, 1, k) \in Seq(S) /\ SubSeq(s, m, n) \in Seq(S)
    BY <1>1, <1>2
  <2>2. SubSeq(s, 1, n) \in Seq(S) /\ SubSeq(s, n + 1, Len(s)) \in Seq(S)
    BY <1>1, <1>2
  <2> QED
    BY <2>1, <2>2
<1>4. c = a \o b
  <2>1. 1 \in 1 .. Len(s) + 1 /\ k \in 1 - 1 .. Len(s) /\ n \in k .. Len(s) /\ k + 1 = m
    BY <1>1, <1>2
  <2>2. SubSeq(s, 1, k) \o SubSeq(s, k + 1, n) = SubSeq(s, 1, n)
    BY <2>1, ConcatAdjacentSubSeq
  <2> QED
    BY <1>3, <2>1, <2>2
<1>5. s = c \o d
  <2>1. /\ 1 \in 1 .. Len(s) + 1 /\ n \in 1 - 1 .. Len(s) /\ Len(s) \in n .. Len(s)
    BY <1>1, <1>2
  <2>2. SubSeq(s, 1, n) \o SubSeq(s, n + 1, Len(s)) = SubSeq(s, 1, Len(s))
    BY <2>1, ConcatAdjacentSubSeq
  <2> QED
    BY <1>3, <2>2, SubSeqFull
<1>6. PICK x \in Seq(Row), y \in Seq(Row), z \in Seq(Row), w \in Seq(Row), r \in Seq(Row) :
        /\ x = RowsOf(a) /\ y = RowsOf(b) /\ w = RowsOf(c) /\ z = RowsOf(d) /\ r = RowsOf(s)
  BY RowsTyped
<1>7. w = x \o y /\ r = w \o z
  <2>1. RowsOf(a \o b) = RowsOf(a) \o RowsOf(b)
    BY RowsConcat
  <2>2. RowsOf(c \o d) = RowsOf(c) \o RowsOf(d)
    BY RowsConcat
  <2> QED
    BY <1>4, <1>5, <1>6, <2>1, <2>2
<1>8. Len(w) = Len(x) + Len(y) /\ Len(r) = Len(w) + Len(z)
  <2>1. Len(x \o y) = Len(x) + Len(y) /\ Len(w \o z) = Len(w) + Len(z)
    OBVIOUS
  <2> QED
    BY <1>7, <2>1
<1>9. SubSeq(r, Len(x) + 1, Len(x) + Len(y)) = y
  BY <1>7, MiddleOf
<1>10. End(s, m - 1) = Len(x) /\ End(s, n) = Len(w)
  BY <1>2, <1>3, <1>6 DEF End
<1>11. Len(x) \in Nat /\ Len(y) \in Nat /\ Len(z) \in Nat
  OBVIOUS
<1>12. RowsOf(SubSeq(s, m, n)) = y /\ RowsOf(s) = r
  BY <1>3, <1>6
<1> HIDE DEF End
<1>13. Len(w) = Len(x) + Len(y) /\ Len(w) <= Len(r) /\ Len(x) <= Len(w) /\ Len(w) \in Nat
  BY <1>8, <1>11
<1>14. SubSeq(r, Len(x) + 1, Len(w)) = y /\ Len(y) = Len(w) - Len(x)
  BY <1>9, <1>11, <1>13
<1> QED
  BY <1>10, <1>11, <1>12, <1>13, <1>14, Zenon

(* Where a segment's rows are among those of the list.                     *)
LEMMA RowsOfSegment ==
  ASSUME NEW S, Segments(S), NEW s \in Seq(S), NEW k \in 1 .. Len(s)
  PROVE  /\ End(s, k - 1) \in Nat /\ End(s, k) \in Nat
         /\ End(s, k - 1) < End(s, k) /\ End(s, k) <= Len(RowsOf(s))
         /\ RowsOf(s)[End(s, k - 1) + 1] = s[k].rows[1]
         /\ RowsOf(s)[End(s, k)] = s[k].rows[Len(s[k].rows)]
<1>1. Len(s) \in Nat /\ k \in 1 .. Len(s) + 1 /\ k \in k - 1 .. Len(s)
  OBVIOUS
<1>2. PICK p \in S : p = s[k] /\ SubSeq(s, k, k) = <<p>>
  <2>1. SubSeq(s, k, k) = <<s[k]>>
    <3>1. k \in 1 .. Len(s) /\ k \in k .. Len(s)
      OBVIOUS
    <3>2. SubSeq(s, k, k) = <<s[k]>> \o SubSeq(s, k + 1, k)
      BY <3>1, SubSeqRecursiveFirst
    <3>3. SubSeq(s, k + 1, k) = <<>>
      BY SubSeqEmpty
    <3>4. <<s[k]>> \o <<>> = <<s[k]>>
      <4>1. <<s[k]>> \in Seq(S)
        OBVIOUS
      <4> QED
        BY <4>1, ConcatEmptySeq
    <3> QED
      BY <3>2, <3>3, <3>4
  <2> QED
    BY <2>1
<1>3. PICK b \in Nat, e \in Nat :
        /\ b = End(s, k - 1) /\ e = End(s, k) /\ e <= Len(RowsOf(s))
        /\ Len(RowsOf(SubSeq(s, k, k))) = e - b
        /\ RowsOf(SubSeq(s, k, k)) = SubSeq(RowsOf(s), b + 1, e)
  BY <1>1, RowsOfSlice
<1>3a. b < e
  <2>1. p.rows \in Seq(Row) /\ p.rows # <<>> /\ RowsOf(<<p>>) = p.rows
    BY RowsOne DEF Segments
  <2>2. Len(p.rows) \in Nat \ {0}
    BY <2>1
  <2> QED
    BY <1>2, <1>3, <2>1, <2>2
<1>4. PICK y \in Seq(Row), r \in Seq(Row) : y = p.rows /\ y # <<>> /\ r = RowsOf(s)
  BY RowsTyped DEF Segments
<1>5. Len(y) = e - b /\ y = SubSeq(r, b + 1, e) /\ Len(y) \in Nat \ {0}
  BY <1>2, <1>3, <1>4, RowsOne
<1>6. \A i \in b + 1 .. e : r[i] \in Row
  BY <1>3, <1>4
<1>7. \A i \in 1 .. e - (b + 1) + 1 : SubSeq(r, b + 1, e)[i] = r[(b + 1) + i - 1]
  BY <1>6, SubSeqProperties
<1>8. y[1] = r[b + 1] /\ y[Len(y)] = r[e]
  <2>1. 1 \in 1 .. e - (b + 1) + 1 /\ (b + 1) + 1 - 1 = b + 1
    BY <1>5
  <2>2. Len(y) \in 1 .. e - (b + 1) + 1 /\ (b + 1) + Len(y) - 1 = e
    BY <1>5
  <2>3. SubSeq(r, b + 1, e)[1] = r[b + 1]
    BY <1>7, <2>1
  <2>4. SubSeq(r, b + 1, e)[Len(y)] = r[e]
    BY <1>7, <2>2
  <2> QED
    BY <1>5, <2>3, <2>4
<1>9. RowsOf(s)[b + 1] = s[k].rows[1] /\ RowsOf(s)[e] = s[k].rows[Len(s[k].rows)]
  BY <1>2, <1>4, <1>8
<1> QED
  BY <1>3, <1>3a, <1>9, Zenon

(* When the rows are in order, so are the segments.                        *)
LEMMA SegmentsInOrder ==
  ASSUME NEW S, Segments(S), NEW s \in Seq(S), Increasing(RowsOf(s))
  PROVE  /\ \A k \in 1 .. Len(s) :
              /\ FirstSequence(s[k]) \in Nat /\ LastSequence(s[k]) \in Nat
              /\ FirstSequence(s[k]) <= LastSequence(s[k])
         /\ \A i, j \in 1 .. Len(s) : i < j => LastSequence(s[i]) < FirstSequence(s[j])
<1>1. PICK r \in Seq(Row) : r = RowsOf(s)
  BY RowsTyped
<1>2. \A i, j \in 1 .. Len(r) : i < j => r[i].seq < r[j].seq
  BY <1>1 DEF Increasing
<1>3. \A i \in 1 .. Len(r) : r[i].seq \in Nat
  <2>1. \A i \in 1 .. Len(r) : r[i] \in Row
    OBVIOUS
  <2> QED
    BY <2>1 DEF Row
<1>4. ASSUME NEW k \in 1 .. Len(s)
      PROVE  /\ End(s, k - 1) \in Nat /\ End(s, k) \in Nat
             /\ End(s, k - 1) < End(s, k) /\ End(s, k) <= Len(r)
             /\ FirstSequence(s[k]) = r[End(s, k - 1) + 1].seq
             /\ LastSequence(s[k]) = r[End(s, k)].seq
  BY <1>1, RowsOfSegment DEF FirstSequence, LastSequence
<1>5. ASSUME NEW k \in 1 .. Len(s)
      PROVE  /\ FirstSequence(s[k]) \in Nat /\ LastSequence(s[k]) \in Nat
             /\ FirstSequence(s[k]) <= LastSequence(s[k])
  <2>1. PICK b \in 1 .. Len(r), e \in 1 .. Len(r) :
          /\ b = End(s, k - 1) + 1 /\ e = End(s, k) /\ b <= e
          /\ FirstSequence(s[k]) = r[b].seq /\ LastSequence(s[k]) = r[e].seq
    <3>1. End(s, k - 1) + 1 \in 1 .. Len(r) /\ End(s, k) \in 1 .. Len(r)
      BY <1>4
    <3>2. End(s, k - 1) + 1 <= End(s, k)
      BY <1>4
    <3> QED
      BY <1>4, <3>1, <3>2, Zenon
  <2>2. b = e \/ r[b].seq < r[e].seq
    BY <1>2, <2>1
  <2> QED
    BY <1>3, <2>1, <2>2
<1>6. ASSUME NEW i \in 1 .. Len(s), NEW j \in 1 .. Len(s), i < j
      PROVE  LastSequence(s[i]) < FirstSequence(s[j])
  <2>1. End(s, i) <= End(s, j - 1)
    <3>1. i + 1 \in 1 .. Len(s) + 1 /\ j - 1 \in (i + 1) - 1 .. Len(s)
      BY <1>6
    <3>2. End(s, (i + 1) - 1) <= End(s, j - 1)
      BY <3>1, RowsOfSlice
    <3> QED
      BY <3>2
  <2>2. PICK b \in 1 .. Len(r), e \in 1 .. Len(r) :
          /\ b = End(s, j - 1) + 1 /\ e = End(s, i) /\ e < b
          /\ FirstSequence(s[j]) = r[b].seq /\ LastSequence(s[i]) = r[e].seq
    <3>1. End(s, j - 1) + 1 \in 1 .. Len(r) /\ End(s, i) \in 1 .. Len(r)
      BY <1>4
    <3>2. End(s, i) < End(s, j - 1) + 1
      BY <1>4, <2>1
    <3> QED
      BY <1>4, <3>1, <3>2, Zenon
  <2> QED
    BY <1>2, <2>2
<1> QED
  BY <1>5, <1>6
-----------------------------------------------------------------------------
(* A path is the name of a file with rows.                                 *)
IsList(s) == s \in Seq(ToSet(s)) /\ Segments(ToSet(s))

(* Where tasks and the worker may be.                                      *)
Places == {"idle", "queued", "checking", "writing", "registering", "verifying",
           "removing"}

Stages == {"idle", "toRetire", "retiring", "choosing", "building", "built",
           "swapping", "unlinking", "disowning", "deleting", "stopped"}

(* Types.                                                                  *)
TablesTyped ==
  /\ runState \in {"absent", "running", "finished"}
  /\ batches \subseteq Requests
  /\ IsList(active) /\ IsList(retired) /\ Segments(files)

TasksTyped ==
  /\ pc \in [Tasks -> Places]
  /\ request \in [Tasks -> Requests \union {<<>>}]
  /\ fresh \in [Tasks -> BOOLEAN] /\ runLock \in Tasks \union {NoTask}
  /\ \A t \in Tasks :
       pc[t] # "idle" => request[t] \in Requests /\ RunHistory!Consecutive(request[t])

WorkerTyped ==
  /\ worker \in Stages /\ crashes \in 0 .. MaxCrashes
  /\ outputFresh \in BOOLEAN /\ cancelled \in BOOLEAN /\ exclusive \in BOOLEAN
  /\ sources \in Seq(ToSet(sources)) /\ victims \in Seq(ToSet(victims))

(* One task at a time is past the run lock, the one that holds it.         *)
OneAtATime ==
  \A t \in Tasks : runLock = t <=> pc[t] \notin {"idle", "queued"}

(* The active segments hold the history in order.                          *)
HistoryInOrder == Increasing(Logical)

(* A retired segment has been merged into a larger one.                    *)
Covers(a, p) ==
  /\ FirstSequence(a) <= FirstSequence(p) /\ LastSequence(p) <= LastSequence(a)
  /\ FirstSequence(a) < FirstSequence(p) \/ LastSequence(p) < LastSequence(a)

RetiredAreCovered == \A p \in ToSet(retired) : \E a \in Active : Covers(a, p)

(* A batch file with a row is that of a registered batch; a task that is   *)
(* about to write or to register one has found it is not.                  *)
BatchesAreKnown ==
  /\ \A r \in Requests : BatchPath(r) \in Registered => r \in batches
  /\ \A t \in Tasks : pc[t] \in {"writing", "registering"} => request[t] \notin batches

(* What is about to get a row has a file, what is about to be removed has  *)
(* no row.                                                                 *)
IngestIsSafe ==
  \A t \in Tasks :
    /\ pc[t] = "registering" => BatchPath(request[t]) \in files
    /\ pc[t] = "removing" => BatchPath(request[t]) \notin Registered

(* The worker holds sources that are still active.                         *)
Merging == worker \in {"building", "built", "swapping"}

(* The sources are adjacent active segments until they are replaced, by    *)
(* a file that is there.                                                   *)
SourcesAreAdjacent ==
  Merging => \E i, j \in 1 .. Len(active) : i < j /\ sources = SubSeq(active, i, j)

CompactionIsSafe ==
  /\ worker \in {"built", "swapping", "unlinking", "disowning", "deleting"} =>
       Len(sources) >= 2 /\ Segments(ToSet(sources))
  /\ worker \in {"built", "swapping"} => CompactedPath(sources) \in files
  /\ worker = "deleting" => CompactedPath(sources) \notin Registered
  /\ worker \in {"toRetire", "retiring", "unlinking"} =>
       ToSet(victims) \subseteq ToSet(retired)

(* The inductive invariant of the store.                                   *)
StoreInv ==
  /\ TablesTyped /\ TasksTyped /\ WorkerTyped
  /\ OneAtATime /\ HistoryInOrder /\ RetiredAreCovered
  /\ BatchesAreKnown /\ IngestIsSafe /\ ActiveHaveFiles
  /\ SourcesAreAdjacent /\ CompactionIsSafe
-----------------------------------------------------------------------------
(* Lists.                                                                  *)
LEMMA ListTyped ==
  ASSUME NEW S, Segments(S), NEW s \in Seq(S)
  PROVE  IsList(s) /\ ToSet(s) \subseteq S
  BY DEF IsList, Segments, ToSet

(* What a stretch of a list holds.                                         *)
LEMMA ListSlice ==
  ASSUME NEW S, NEW s \in Seq(S),
         NEW m \in 1 .. Len(s) + 1, NEW n \in m - 1 .. Len(s)
  PROVE  /\ SubSeq(s, m, n) \in Seq(S)
         /\ ToSet(SubSeq(s, m, n)) = {s[k] : k \in m .. n}
         /\ Len(SubSeq(s, m, n)) = n - m + 1
<1>1. Len(s) \in Nat /\ m \in Nat /\ n \in Nat
  OBVIOUS
<1>2. \A i \in m .. n : s[i] \in S
  BY <1>1
<1>3. PICK u \in Seq(S) : /\ u = SubSeq(s, m, n) /\ Len(u) = n - m + 1
                          /\ \A i \in 1 .. n - m + 1 : u[i] = s[m + i - 1]
  <2>1. /\ SubSeq(s, m, n) \in Seq(S)
        /\ Len(SubSeq(s, m, n)) = IF m <= n THEN n - m + 1 ELSE 0
        /\ \A i \in 1 .. n - m + 1 : SubSeq(s, m, n)[i] = s[m + i - 1]
    BY <1>1, <1>2, SubSeqProperties
  <2>2. Len(SubSeq(s, m, n)) = n - m + 1
    BY <1>1, <2>1
  <2> QED
    BY <2>1, <2>2
<1>4. ToSet(u) = {s[k] : k \in m .. n}
  <2>1. DOMAIN u = 1 .. n - m + 1
    BY <1>1, <1>3
  <2>2. ASSUME NEW i \in 1 .. n - m + 1 PROVE m + i - 1 \in m .. n /\ u[i] = s[m + i - 1]
    BY <1>1, <1>3
  <2>3. ASSUME NEW k \in m .. n PROVE k - m + 1 \in 1 .. n - m + 1 /\ s[k] = u[k - m + 1]
    <3>1. k - m + 1 \in 1 .. n - m + 1 /\ m + (k - m + 1) - 1 = k
      BY <1>1
    <3> QED
      BY <1>3, <3>1
  <2>4. ASSUME NEW x PROVE x \in ToSet(u) <=> x \in {s[k] : k \in m .. n}
    <3>1. ASSUME x \in ToSet(u) PROVE \E k \in m .. n : x = s[k]
      <4>1. PICK i \in 1 .. n - m + 1 : x = u[i]
        BY <2>1, <3>1 DEF ToSet
      <4> QED
        BY <2>2, <4>1
    <3>2. ASSUME NEW k \in m .. n, x = s[k] PROVE x \in ToSet(u)
      BY <2>1, <2>3, <3>2 DEF ToSet
    <3> QED
      BY <3>1, <3>2
  <2> QED
    BY <2>4
<1> QED
  BY <1>3, <1>4

(* What two lists hold together.                                           *)
LEMMA ConcatElements ==
  ASSUME NEW S, NEW s \in Seq(S), NEW t \in Seq(S)
  PROVE  ToSet(s \o t) = ToSet(s) \union ToSet(t)
<1>1. PICK u \in Seq(S) : u = s \o t
  <2>1. s \o t \in Seq(S)
    OBVIOUS
  <2> QED
    BY <2>1
<1>2. Len(s) \in Nat /\ Len(t) \in Nat /\ Len(s \o t) = Len(s) + Len(t)
  OBVIOUS
<1>3. DOMAIN s = 1 .. Len(s) /\ DOMAIN t = 1 .. Len(t) /\ DOMAIN u = 1 .. Len(s) + Len(t)
  BY <1>1, <1>2
<1>4. ASSUME NEW i \in 1 .. Len(s) PROVE u[i] = s[i] /\ i \in 1 .. Len(s) + Len(t)
  BY <1>1, <1>2
<1>5. ASSUME NEW i \in 1 .. Len(t) PROVE u[Len(s) + i] = t[i] /\ Len(s) + i \in 1 .. Len(s) + Len(t)
  <2>1. PICK k \in 1 .. Len(s) + Len(t) : k = Len(s) + i
    BY <1>2
  <2>2. ~(k <= Len(s)) /\ k - Len(s) = i
    BY <1>2, <2>1
  <2>3. (s \o t)[k] = IF k <= Len(s) THEN s[k] ELSE t[k - Len(s)]
    OBVIOUS
  <2> QED
    BY <1>1, <2>1, <2>2, <2>3
<1>6. ASSUME NEW i \in 1 .. Len(s) + Len(t)
      PROVE  i \in 1 .. Len(s) \/ (i - Len(s) \in 1 .. Len(t) /\ i = Len(s) + (i - Len(s)))
  BY <1>2
<1>7. ASSUME NEW x PROVE x \in ToSet(u) <=> x \in ToSet(s) \/ x \in ToSet(t)
  <2>1. CASE x \in ToSet(u)
    <3>1. PICK i \in 1 .. Len(s) + Len(t) : x = u[i]
      BY <1>3, <2>1 DEF ToSet
    <3> QED
      BY <1>3, <1>4, <1>5, <1>6, <3>1 DEF ToSet
  <2>2. ASSUME x \in ToSet(s) PROVE x \in ToSet(u)
    BY <1>3, <1>4, <2>2 DEF ToSet
  <2>3. ASSUME x \in ToSet(t) PROVE x \in ToSet(u)
    BY <1>3, <1>5, <2>3 DEF ToSet
  <2> QED
    BY <2>1, <2>2, <2>3
<1> QED
  BY <1>1, <1>7

(* Rows are in order when those of two parts are and one part follows the  *)
(* other.                                                                  *)
LEMMA IncreasingConcat ==
  ASSUME NEW s \in Seq(Row), NEW t \in Seq(Row), Increasing(s), Increasing(t),
         s # <<>> /\ t # <<>> => s[Len(s)].seq < t[1].seq
  PROVE  Increasing(s \o t)
<1>1. PICK u \in Seq(Row) : u = s \o t
  <2>1. s \o t \in Seq(Row)
    OBVIOUS
  <2> QED
    BY <2>1
<1>2. Len(s) \in Nat /\ Len(t) \in Nat /\ Len(s \o t) = Len(s) + Len(t)
  OBVIOUS
<1>3. \A i \in 1 .. Len(s) : s[i].seq \in Nat
  <2>1. \A i \in 1 .. Len(s) : s[i] \in Row
    OBVIOUS
  <2> QED
    BY <2>1 DEF Row
<1>4. \A i \in 1 .. Len(t) : t[i].seq \in Nat
  <2>1. \A i \in 1 .. Len(t) : t[i] \in Row
    OBVIOUS
  <2> QED
    BY <2>1 DEF Row
<1>5. ASSUME NEW i \in 1 .. Len(s) + Len(t)
      PROVE  \/ i \in 1 .. Len(s) /\ u[i] = s[i]
             \/ i > Len(s) /\ i - Len(s) \in 1 .. Len(t) /\ u[i] = t[i - Len(s)]
  <2>1. (s \o t)[i] = IF i <= Len(s) THEN s[i] ELSE t[i - Len(s)]
    OBVIOUS
  <2> QED
    BY <1>1, <1>2, <2>1
<1>6. ASSUME NEW i \in 1 .. Len(s), NEW j \in 1 .. Len(t) PROVE s[i].seq < t[j].seq
  <2>1. s # <<>> /\ t # <<>> /\ Len(s) \in 1 .. Len(s) /\ 1 \in 1 .. Len(t)
    BY <1>2
  <2>2. i = Len(s) \/ s[i].seq < s[Len(s)].seq
    BY <1>2, <2>1 DEF Increasing
  <2>3. j = 1 \/ t[1].seq < t[j].seq
    BY <1>2, <2>1 DEF Increasing
  <2> QED
    BY <1>3, <1>4, <2>1, <2>2, <2>3
<1>7. ASSUME NEW i \in 1 .. Len(s) + Len(t), NEW j \in 1 .. Len(s) + Len(t), i < j
      PROVE  u[i].seq < u[j].seq
  <2>1. CASE i \in 1 .. Len(s) /\ u[i] = s[i]
    <3>1. CASE j \in 1 .. Len(s) /\ u[j] = s[j]
      BY <1>7, <2>1, <3>1 DEF Increasing
    <3>2. CASE j > Len(s) /\ j - Len(s) \in 1 .. Len(t) /\ u[j] = t[j - Len(s)]
      BY <1>6, <2>1, <3>2
    <3> QED
      BY <1>5, <3>1, <3>2
  <2>2. CASE i > Len(s) /\ i - Len(s) \in 1 .. Len(t) /\ u[i] = t[i - Len(s)]
    <3>1. j > Len(s) /\ i - Len(s) < j - Len(s)
      BY <1>2, <1>7, <2>2
    <3>2. j - Len(s) \in 1 .. Len(t) /\ u[j] = t[j - Len(s)]
      BY <1>2, <1>5, <3>1
    <3> QED
      BY <2>2, <3>1, <3>2 DEF Increasing
  <2> QED
    BY <1>5, <2>1, <2>2
<1> QED
  BY <1>1, <1>2, <1>7 DEF Increasing

(* Consecutive rows are in order.                                          *)
LEMMA ConsecutiveIncreases ==
  ASSUME NEW r \in Seq(Row), RunHistory!Consecutive(r)
  PROVE  Increasing(r)
<1>1. Len(r) \in Nat
  OBVIOUS
<1>2. \A i \in 1 .. Len(r) : r[i].seq \in Nat
  <2>1. \A i \in 1 .. Len(r) : r[i] \in Row
    OBVIOUS
  <2> QED
    BY <2>1 DEF Row
<1>3. \A i \in 1 .. Len(r) - 1 : r[i + 1].seq = r[i].seq + 1
  BY DEF RunHistory!Consecutive
<1> DEFINE T == {d \in Nat : \A i \in 1 .. Len(r) :
                   i + d + 1 <= Len(r) => r[i].seq < r[i + d + 1].seq}
<1>4. 0 \in T
  <2>1. ASSUME NEW i \in 1 .. Len(r), i + 0 + 1 <= Len(r) PROVE r[i].seq < r[i + 0 + 1].seq
    <3>1. i \in 1 .. Len(r) - 1 /\ i + 0 + 1 = i + 1
      BY <1>1, <2>1
    <3> QED
      BY <1>2, <1>3, <3>1
  <2> QED
    BY <2>1
<1>5. ASSUME NEW d \in T PROVE d + 1 \in T
  <2>1. ASSUME NEW i \in 1 .. Len(r), i + (d + 1) + 1 <= Len(r)
        PROVE  r[i].seq < r[i + (d + 1) + 1].seq
    <3>1. i + d + 1 \in 1 .. Len(r) - 1 /\ i + d + 1 <= Len(r)
      BY <1>1, <2>1
    <3>2. r[i].seq < r[i + d + 1].seq
      BY <3>1
    <3>3. PICK k \in 1 .. Len(r) - 1 : k = i + d + 1
      BY <3>1
    <3>4. k + 1 = i + (d + 1) + 1 /\ r[k + 1].seq = r[k].seq + 1 /\ k \in 1 .. Len(r)
      BY <1>1, <1>3, <3>3
    <3>5. r[i].seq < r[k + 1].seq
      BY <1>2, <3>2, <3>3, <3>4
    <3> QED
      BY <3>4, <3>5
  <2> QED
    BY <2>1
<1>6. T = Nat
  <2> HIDE DEF T
  <2> QED
    BY <1>4, <1>5, Induction DEF T
<1>7. ASSUME NEW i \in 1 .. Len(r), NEW j \in 1 .. Len(r), i < j PROVE r[i].seq < r[j].seq
  <2>1. j - i - 1 \in Nat /\ i + (j - i - 1) + 1 = j
    BY <1>7
  <2>2. j - i - 1 \in T
    <3> HIDE DEF T
    <3> QED
      BY <1>6, <2>1
  <2> QED
    BY <2>1, <2>2
<1> QED
  BY <1>7 DEF Increasing

(* What the swap makes of the active segments: the sources are replaced by *)
(* one that holds the same rows, the others stay where they are.           *)
LEMMA SourcesReplaced ==
  ASSUME IsList(active), HistoryInOrder,
         NEW i \in 1 .. Len(active), NEW j \in 1 .. Len(active), i < j,
         NEW out, out = CompactedPath(SubSeq(active, i, j))
  PROVE  /\ out.rows \in Seq(Row) /\ out.rows # <<>>
         /\ FirstSequence(out) = FirstSequence(active[i])
         /\ LastSequence(out) = LastSequence(active[j])
         /\ IsList(Replaced(out))
         /\ ToSet(Replaced(out)) = {active[k] : k \in 1 .. i - 1} \union {out}
                                     \union {active[k] : k \in j + 1 .. Len(active)}
         /\ RowsOf(Replaced(out)) = Logical
<1> DEFINE S == Active \union {out}
<1>0. active \in Seq(Active) /\ Segments(Active) /\ Len(active) \in Nat
  BY DEF IsList, Active
<1>1. PICK before \in Seq(Active), some \in Seq(Active), after \in Seq(Active) :
        /\ before = SubSeq(active, 1, i - 1) /\ some = SubSeq(active, i, j)
        /\ after = SubSeq(active, j + 1, Len(active))
        /\ ToSet(before) = {active[k] : k \in 1 .. i - 1}
        /\ ToSet(after) = {active[k] : k \in j + 1 .. Len(active)}
        /\ Len(some) = j - i + 1
  <2>1. /\ 1 \in 1 .. Len(active) + 1 /\ i - 1 \in 1 - 1 .. Len(active)
        /\ i \in 1 .. Len(active) + 1 /\ j \in i - 1 .. Len(active)
        /\ j + 1 \in 1 .. Len(active) + 1 /\ Len(active) \in (j + 1) - 1 .. Len(active)
    BY <1>0
  <2>2. /\ SubSeq(active, 1, i - 1) \in Seq(Active)
        /\ ToSet(SubSeq(active, 1, i - 1)) = {active[k] : k \in 1 .. i - 1}
    BY <1>0, <2>1, ListSlice
  <2>3. SubSeq(active, i, j) \in Seq(Active) /\ Len(SubSeq(active, i, j)) = j - i + 1
    BY <1>0, <2>1, ListSlice
  <2>4. /\ SubSeq(active, j + 1, Len(active)) \in Seq(Active)
        /\ ToSet(SubSeq(active, j + 1, Len(active))) = {active[k] : k \in j + 1 .. Len(active)}
    BY <1>0, <2>1, ListSlice
  <2> QED
    BY <2>2, <2>3, <2>4
<1>2. active = (before \o some) \o after
  <2>1. SubSeq(active, 1, i - 1) \o SubSeq(active, (i - 1) + 1, j) = SubSeq(active, 1, j)
    <3>1. /\ 1 \in 1 .. Len(active) + 1 /\ i - 1 \in 1 - 1 .. Len(active)
          /\ j \in i - 1 .. Len(active)
      BY <1>0
    <3> QED
      BY <1>0, <3>1, ConcatAdjacentSubSeq
  <2>2. SubSeq(active, 1, j) \o SubSeq(active, j + 1, Len(active)) = SubSeq(active, 1, Len(active))
    <3>1. /\ 1 \in 1 .. Len(active) + 1 /\ j \in 1 - 1 .. Len(active)
          /\ Len(active) \in j .. Len(active)
      BY <1>0
    <3> QED
      BY <1>0, <3>1, ConcatAdjacentSubSeq
  <2>3. (i - 1) + 1 = i /\ SubSeq(active, 1, Len(active)) = active
    BY <1>0, SubSeqFull
  <2> QED
    BY <1>1, <2>1, <2>2, <2>3
<1>3. out.rows = RowsOf(some)
  BY <1>1 DEF CompactedPath
<1>4. some # <<>> /\ some[1] = active[i] /\ some[Len(some)] = active[j]
  <2>1. \A k \in i .. j : active[k] \in Active
    BY <1>0
  <2>2. \A k \in 1 .. j - i + 1 : some[k] = active[i + k - 1]
    <3>1. \A k \in 1 .. j - i + 1 : SubSeq(active, i, j)[k] = active[i + k - 1]
      BY <2>1, SubSeqProperties
    <3> QED
      BY <1>1, <3>1
  <2>3. 1 \in 1 .. j - i + 1 /\ j - i + 1 \in 1 .. j - i + 1 /\ i + 1 - 1 = i
        /\ i + (j - i + 1) - 1 = j
    OBVIOUS
  <2>4. some[1] = active[i + 1 - 1] /\ some[j - i + 1] = active[i + (j - i + 1) - 1]
    BY <2>2, <2>3
  <2>5. Len(some) # 0
    BY <1>1
  <2> QED
    BY <1>1, <2>3, <2>4, <2>5
<1>5. /\ out.rows \in Seq(Row) /\ out.rows # <<>>
      /\ FirstSequence(out) = FirstSequence(active[i])
      /\ LastSequence(out) = LastSequence(active[j])
  <2>1. RowsOf(some) \in Seq(Row)
    BY <1>0, RowsTyped
  <2>2. /\ RowsOf(some) # <<>> /\ RowsOf(some)[1] = active[i].rows[1]
        /\ RowsOf(some)[Len(RowsOf(some))] = active[j].rows[Len(active[j].rows)]
    BY <1>0, <1>4, RowsEnds
  <2> QED
    BY <1>3, <2>1, <2>2 DEF FirstSequence, LastSequence
<1>6. /\ \A k \in 1 .. Len(active) :
           /\ FirstSequence(active[k]) \in Nat /\ LastSequence(active[k]) \in Nat
           /\ FirstSequence(active[k]) <= LastSequence(active[k])
      /\ \A k, l \in 1 .. Len(active) :
           k < l => LastSequence(active[k]) < FirstSequence(active[l])
  BY <1>0, SegmentsInOrder DEF HistoryInOrder, Logical
<1>7. Only(active, {p \in Active : LastSequence(p) < FirstSequence(out)}) = before
  <2> DEFINE chosen == {p \in Active : LastSequence(p) < FirstSequence(out)}
  <2>1. ASSUME NEW k \in 1 .. Len(active)
        PROVE  active[k] \in chosen <=> (1 <= k /\ k <= i - 1)
    <3>1. active[k] \in Active
      BY <1>0
    <3>2. CASE k < i
      BY <1>5, <1>6, <3>1, <3>2
    <3>3. CASE ~(k < i)
      <4>1. FirstSequence(active[i]) <= LastSequence(active[k])
        BY <1>6, <3>3
      <4> QED
        BY <1>5, <1>6, <3>3, <4>1
    <3> QED
      BY <3>2, <3>3
  <2>2. 1 \in 1 .. Len(active) + 1 /\ i - 1 \in 1 - 1 .. Len(active)
    BY <1>0
  <2> HIDE DEF chosen
  <2>3. Only(active, chosen) = SubSeq(active, 1, i - 1)
    BY <1>0, <2>1, <2>2, OnlySlice
  <2> QED
    BY <1>1, <2>3 DEF chosen
<1>8. Only(active, {p \in Active : FirstSequence(p) > LastSequence(out)}) = after
  <2> DEFINE chosen == {p \in Active : FirstSequence(p) > LastSequence(out)}
  <2>1. ASSUME NEW k \in 1 .. Len(active)
        PROVE  active[k] \in chosen <=> (j + 1 <= k /\ k <= Len(active))
    <3>1. active[k] \in Active
      BY <1>0
    <3>2. CASE j < k
      BY <1>5, <1>6, <3>1, <3>2
    <3>3. CASE ~(j < k)
      <4>1. FirstSequence(active[k]) <= LastSequence(active[j])
        BY <1>6, <3>3
      <4> QED
        BY <1>5, <1>6, <3>3, <4>1
    <3> QED
      BY <3>2, <3>3
  <2>2. j + 1 \in 1 .. Len(active) + 1 /\ Len(active) \in (j + 1) - 1 .. Len(active)
    BY <1>0
  <2> HIDE DEF chosen
  <2>3. Only(active, chosen) = SubSeq(active, j + 1, Len(active))
    BY <1>0, <2>1, <2>2, OnlySlice
  <2> QED
    BY <1>1, <2>3 DEF chosen
<1>9. Replaced(out) = (before \o <<out>>) \o after
  BY <1>7, <1>8 DEF Replaced
<1>10. /\ Segments(S) /\ active \in Seq(S) /\ before \in Seq(S) /\ some \in Seq(S)
       /\ after \in Seq(S) /\ out \in S /\ <<out>> \in Seq(S) /\ ToSet(<<out>>) = {out}
  BY <1>0, <1>5 DEF Segments, ToSet
<1> HIDE DEF S
<1>11. PICK u \in Seq(S) : u = before \o <<out>> /\ ToSet(u) = ToSet(before) \union {out}
  <2>1. ToSet(before \o <<out>>) = ToSet(before) \union ToSet(<<out>>)
    BY <1>10, ConcatElements
  <2>2. before \o <<out>> \in Seq(S)
    BY <1>10, ConcatProperties
  <2> QED
    BY <1>10, <2>1, <2>2
<1>12. PICK v \in Seq(S) : v = u \o after /\ ToSet(v) = ToSet(u) \union ToSet(after)
  <2>1. ToSet(u \o after) = ToSet(u) \union ToSet(after)
    BY <1>10, ConcatElements
  <2>2. u \o after \in Seq(S)
    BY <1>10, ConcatProperties
  <2> QED
    BY <2>1, <2>2
<1>13. Replaced(out) = v /\ IsList(v)
  BY <1>9, <1>10, <1>11, <1>12, ListTyped
<1>14. RowsOf(v) = Logical
  <2>1. RowsOf(v) = RowsOf(u) \o RowsOf(after)
    BY <1>10, <1>12, RowsConcat
  <2>2. RowsOf(u) = RowsOf(before) \o RowsOf(<<out>>)
    BY <1>10, <1>11, RowsConcat
  <2>3. RowsOf(<<out>>) = RowsOf(some)
    BY <1>3, <1>10, RowsOne
  <2>4. RowsOf(before \o some) = RowsOf(before) \o RowsOf(some)
    BY <1>10, RowsConcat
  <2>5. before \o some \in Seq(S)
    BY <1>10, ConcatProperties
  <2>6. RowsOf((before \o some) \o after) = RowsOf(before \o some) \o RowsOf(after)
    BY <1>10, <2>5, RowsConcat
  <2> QED
    BY <1>2, <2>1, <2>2, <2>3, <2>4, <2>6 DEF Logical
<1> QED
  BY <1>1, <1>5, <1>11, <1>12, <1>13, <1>14
-----------------------------------------------------------------------------
(* What each part of the server leaves alone.                              *)
LEMMA RunFrame ==
  ASSUME CreateRun \/ FinishRun
  PROVE  UNCHANGED <<batches, active, retired, files, ingest, compaction, query, crashes>>
  BY DEF CreateRun, FinishRun

(* Tasks leave the worker and the queries alone, and add files only.       *)
LEMMA IngestFrame ==
  ASSUME NEW t \in Tasks, PostBatch(t) \/ IngestStep(t)
  PROVE  UNCHANGED <<runState, retired, compaction, query, crashes>>
<1>1. CASE PostBatch(t)
  BY <1>1 DEF PostBatch, catalog
<1>2. CASE LockRun(t) \/ CheckBatch(t) \/ WriteBatch(t)
  BY <1>2 DEF LockRun, CheckBatch, WriteBatch, catalog
<1>3. CASE RegisterBatch(t)
  BY <1>3 DEF RegisterBatch
<1>4. CASE RegisterFails(t) \/ VerifyBatch(t) \/ RemoveBatch(t)
  BY <1>4 DEF RegisterFails, VerifyBatch, RemoveBatch, catalog
<1> QED
  BY <1>1, <1>2, <1>3, <1>4 DEF IngestStep

(* The worker leaves the run and its tasks alone.                          *)
LEMMA WorkerFrame ==
  ASSUME WorkerStep \/ Shutdown
  PROVE  UNCHANGED <<runState, batches, ingest, query, crashes>>
<1>1. CASE BeginPass \/ LockToRetire \/ RemoveFile
  BY <1>1 DEF BeginPass, LockToRetire, RemoveFile, catalog
<1>2. CASE AcknowledgeRetired \/ ReplaceSources
  BY <1>2 DEF AcknowledgeRetired, ReplaceSources
<1>3. CASE ChooseSources \/ Build \/ LockToSwap
  BY <1>3 DEF ChooseSources, Build, LockToSwap, catalog
<1>4. CASE AbandonOutput \/ VerifyOutput \/ RemoveOutput \/ Shutdown
  BY <1>4 DEF AbandonOutput, VerifyOutput, RemoveOutput, Shutdown, catalog
<1> QED
  BY <1>1, <1>2, <1>3, <1>4 DEF WorkerStep

(* Queries read.                                                           *)
LEMMA QueryFrame ==
  ASSUME NEW q \in Readers, OpenQuery(q) \/ QueryStep(q)
  PROVE  UNCHANGED <<catalog, files, ingest, compaction, crashes>>
  BY DEF QueryStep, OpenQuery, ListSegments, ReadSampled, ReadPage, CloseQuery

(* The tables of segments change when a batch is registered, when its      *)
(* merged sources are replaced and when removed files are forgotten.       *)
LEMMA TablesFrame ==
  ASSUME [Next]_vars
  PROVE  \/ \E t \in Tasks : RegisterBatch(t)
         \/ ReplaceSources \/ AcknowledgeRetired
         \/ UNCHANGED <<batches, active, retired>>
<1>1. CASE CreateRun \/ FinishRun
  BY <1>1, RunFrame
<1>2. ASSUME NEW t \in Tasks, PostBatch(t) \/ IngestStep(t)
      PROVE  RegisterBatch(t) \/ UNCHANGED <<batches, active, retired>>
  BY <1>2 DEF PostBatch, IngestStep, LockRun, CheckBatch, WriteBatch, RegisterFails,
              VerifyBatch, RemoveBatch, catalog
<1>3. CASE WorkerStep \/ Shutdown
  BY <1>3 DEF WorkerStep, BeginPass, LockToRetire, RemoveFile, ChooseSources, Build,
              LockToSwap, AbandonOutput, VerifyOutput, RemoveOutput, Shutdown, catalog
<1>4. ASSUME NEW q \in Readers, OpenQuery(q) \/ QueryStep(q)
      PROVE  UNCHANGED <<batches, active, retired>>
  BY <1>4, QueryFrame DEF catalog
<1>5. CASE Restart \/ UNCHANGED vars
  BY <1>5 DEF Restart, vars, catalog
<1> QED
  BY <1>1, <1>2, <1>3, <1>4, <1>5 DEF Next
-----------------------------------------------------------------------------
(* The invariant holds of a server that starts empty.                      *)
LEMMA StoreInit == Init => StoreInv
<1> SUFFICES ASSUME Init PROVE StoreInv
  OBVIOUS
<1>0. IsList(<<>>) /\ ToSet(<<>>) = {} /\ <<>> \in Seq({})
  BY DEF IsList, Segments, ToSet
<1>1. TablesTyped /\ WorkerTyped
  <2>1. TablesTyped
    BY <1>0 DEF Init, TablesTyped, Segments
  <2>2. WorkerTyped
    <3>1. <<>> \in Seq(ToSet(<<>>)) /\ 0 \in 0 .. MaxCrashes
      BY <1>0, SizeAssumption
    <3> QED
      BY <3>1 DEF Init, WorkerTyped, Stages
  <2> QED
    BY <2>1, <2>2
<1>2. TasksTyped /\ OneAtATime /\ IngestIsSafe
  BY TaskAssumption DEF Init, TasksTyped, OneAtATime, IngestIsSafe, Places
<1>3. Logical = <<>>
  BY FlattenOne DEF Init, Logical, RowsOf, FlattenSeq
<1>4. HistoryInOrder
  BY <1>3 DEF HistoryInOrder, Increasing
<1>5. RetiredAreCovered /\ BatchesAreKnown /\ ActiveHaveFiles
  BY <1>0 DEF Init, RetiredAreCovered, BatchesAreKnown, ActiveHaveFiles, Registered, Active
<1>6. SourcesAreAdjacent /\ CompactionIsSafe
  BY DEF Init, SourcesAreAdjacent, Merging, CompactionIsSafe
<1> QED
  BY <1>1, <1>2, <1>4, <1>5, <1>6 DEF StoreInv

(* The run lock and what the tasks hold.                                   *)
LEMMA TasksNext ==
  ASSUME TasksTyped, OneAtATime, [Next]_vars
  PROVE  TasksTyped' /\ OneAtATime'
<1> USE DEF TasksTyped, OneAtATime, Places
<1>1. CASE CreateRun \/ FinishRun
  BY <1>1, RunFrame DEF ingest
<1>2. ASSUME NEW t \in Tasks, PostBatch(t) PROVE TasksTyped' /\ OneAtATime'
  BY <1>2 DEF PostBatch
<1>3. ASSUME NEW t \in Tasks, LockRun(t) PROVE TasksTyped' /\ OneAtATime'
  BY <1>3, TaskAssumption DEF LockRun
<1>4. ASSUME NEW t \in Tasks, CheckBatch(t) PROVE TasksTyped' /\ OneAtATime'
  BY <1>4, TaskAssumption DEF CheckBatch, Respond, Goto
<1>5. ASSUME NEW t \in Tasks, WriteBatch(t) PROVE TasksTyped' /\ OneAtATime'
  BY <1>5, TaskAssumption DEF WriteBatch, Respond, Goto
<1>6. ASSUME NEW t \in Tasks, RegisterBatch(t) PROVE TasksTyped' /\ OneAtATime'
  BY <1>6, TaskAssumption DEF RegisterBatch, Respond, Goto
<1>7. ASSUME NEW t \in Tasks, RegisterFails(t) PROVE TasksTyped' /\ OneAtATime'
  BY <1>7, TaskAssumption DEF RegisterFails, Goto
<1>8. ASSUME NEW t \in Tasks, VerifyBatch(t) PROVE TasksTyped' /\ OneAtATime'
  BY <1>8, TaskAssumption DEF VerifyBatch, Respond, Goto
<1>9. ASSUME NEW t \in Tasks, RemoveBatch(t) PROVE TasksTyped' /\ OneAtATime'
  BY <1>9, TaskAssumption DEF RemoveBatch, Respond
<1>10. CASE WorkerStep \/ Shutdown
  BY <1>10, WorkerFrame DEF ingest
<1>11. ASSUME NEW q \in Readers, OpenQuery(q) \/ QueryStep(q)
       PROVE  TasksTyped' /\ OneAtATime'
  BY <1>11, QueryFrame DEF ingest
<1>12. CASE Restart
  BY <1>12, TaskAssumption DEF Restart
<1>13. CASE UNCHANGED vars
  BY <1>13 DEF vars, ingest
<1> QED
  BY <1>1, <1>2, <1>3, <1>4, <1>5, <1>6, <1>7, <1>8, <1>9, <1>10, <1>11, <1>12, <1>13
     DEF Next, IngestStep

(* What the worker holds.                                                  *)
LEMMA EndPassTyped ==
  ASSUME WorkerTyped, EndPass, cancelled' \in BOOLEAN, UNCHANGED crashes
  PROVE  WorkerTyped'
<1>1. <<>> \in Seq(ToSet(<<>>))
  BY DEF ToSet
<1> QED
  BY <1>1 DEF WorkerTyped, EndPass, Stages

(* It keeps its types through every step of a pass, a failure and a        *)
(* restart.                                                                *)
LEMMA WorkerNext ==
  ASSUME TablesTyped, WorkerTyped, [Next]_vars
  PROVE  WorkerTyped'
<1> USE DEF Stages
<1>1. CASE CreateRun \/ FinishRun
  BY <1>1, RunFrame DEF compaction, WorkerTyped
<1>2. ASSUME NEW t \in Tasks, PostBatch(t) \/ IngestStep(t) PROVE WorkerTyped'
  BY <1>2, IngestFrame DEF compaction, WorkerTyped
<1>3. CASE BeginPass
  <2>1. CASE EndPass
    BY <1>3, <2>1, EndPassTyped DEF BeginPass, WorkerTyped
  <2>2. CASE ~EndPass
    <3>1. PICK n \in 0 .. Len(retired) : victims' = SubSeq(retired, 1, n)
      <4>1. Len(retired) \in Nat
        BY DEF TablesTyped, IsList
      <4> QED
        BY <1>3, <2>2, <4>1, SizeAssumption DEF BeginPass, AtMost
    <3>2. victims' \in Seq(ToSet(retired))
      BY <3>1 DEF TablesTyped, IsList
    <3>3. victims' \in Seq(ToSet(victims'))
      BY <3>2 DEF ToSet
    <3> QED
      BY <1>3, <2>2, <3>3 DEF BeginPass, WorkerTyped
  <2> QED
    BY <2>1, <2>2
<1>4. CASE LockToRetire \/ LockToSwap \/ AbandonOutput
  BY <1>4 DEF LockToRetire, LockToSwap, AbandonOutput, WorkerTyped
<1>5. CASE RemoveFile
  <2>1. CASE EndPass
    BY <1>5, <2>1, EndPassTyped DEF RemoveFile, WorkerTyped
  <2>2. CASE ~EndPass
    <3>1. victims # <<>> /\ victims' = Tail(victims)
      BY <1>5, <2>2 DEF RemoveFile
    <3>2. victims' \in Seq(ToSet(victims))
      BY <3>1 DEF WorkerTyped
    <3>3. victims' \in Seq(ToSet(victims'))
      BY <3>2 DEF ToSet
    <3> QED
      BY <1>5, <2>2, <3>3 DEF RemoveFile, WorkerTyped
  <2> QED
    BY <2>1, <2>2
<1>6. CASE AcknowledgeRetired
  BY <1>6, EndPassTyped DEF AcknowledgeRetired, WorkerTyped
<1>7. CASE ChooseSources
  <2>1. CASE EndPass
    BY <1>7, <2>1, EndPassTyped DEF ChooseSources, WorkerTyped
  <2>2. CASE ~EndPass
    <3>1. PICK i \in 1 .. Len(active), j \in 1 .. Len(active) : sources' = SubSeq(active, i, j)
      BY <1>7, <2>2 DEF ChooseSources, Candidates
    <3>2. sources' \in Seq(ToSet(active))
      BY <3>1 DEF TablesTyped, IsList
    <3>3. sources' \in Seq(ToSet(sources'))
      BY <3>2 DEF ToSet
    <3> QED
      BY <1>7, <2>2, <3>3 DEF ChooseSources, WorkerTyped
  <2> QED
    BY <2>1, <2>2
<1>8. CASE Build
  BY <1>8, EndPassTyped DEF Build, WorkerTyped
<1>9. CASE ReplaceSources
  BY <1>9 DEF ReplaceSources, WorkerTyped
<1>10. CASE VerifyOutput \/ RemoveOutput
  BY <1>10, EndPassTyped DEF VerifyOutput, RemoveOutput, WorkerTyped
<1>11. CASE Shutdown
  BY <1>11 DEF Shutdown, WorkerTyped
<1>12. ASSUME NEW q \in Readers, OpenQuery(q) \/ QueryStep(q)
       PROVE  WorkerTyped'
  BY <1>12, QueryFrame DEF compaction, WorkerTyped
<1>13. CASE Restart
  <2>1. <<>> \in Seq(ToSet(<<>>))
    BY DEF ToSet
  <2>2. crashes' \in 0 .. MaxCrashes
    BY <1>13, SizeAssumption DEF Restart, WorkerTyped
  <2> QED
    BY <1>13, <2>1, <2>2 DEF Restart, WorkerTyped
<1>14. CASE UNCHANGED vars
  BY <1>14 DEF vars, compaction, WorkerTyped
<1> QED
  BY <1>1, <1>2, <1>3, <1>4, <1>5, <1>6, <1>7, <1>8, <1>9, <1>10, <1>11, <1>12, <1>13, <1>14
     DEF Next, WorkerStep

(* Batches.                                                                *)
LEMMA RowsOfRequests ==
  ASSUME NEW r \in Requests
  PROVE  r \in Seq(Row) /\ r # <<>> /\ BatchPath(r).rows = r /\ BatchPath(r).of = <<>>
  BY RequestsAssumption DEF Row, BatchPath

(* A registered batch continues the history.                               *)
LEMMA RegisterExtends ==
  ASSUME TablesTyped, TasksTyped, HistoryInOrder,
         NEW t \in Tasks, RegisterBatch(t), request[t] \notin batches
  PROVE  /\ active' = Append(active, BatchPath(request[t]))
         /\ batches' = batches \union {request[t]} /\ request[t] \in Requests
         /\ IsList(active') /\ ToSet(active') = Active \union {BatchPath(request[t])}
         /\ Logical' = Logical \o request[t] /\ Increasing(Logical')
         /\ RunHistory!CanAccept(request[t])
<1> DEFINE r == request[t]
<1> DEFINE p == BatchPath(r)
<1> DEFINE S == Active \union {p}
<1>1. r \in Requests /\ RunHistory!Consecutive(r)
  BY DEF TasksTyped, RegisterBatch
<1>2. r \in Seq(Row) /\ r # <<>> /\ p.rows = r
  BY <1>1, RowsOfRequests
<1>3. active' = Append(active, p) /\ batches' = batches \union {r} /\ CanRegister(r)
  BY DEF RegisterBatch, RunHistory!IsDuplicate
<1>4. active \in Seq(S) /\ Segments(S) /\ p \in S /\ active \in Seq(Active) /\ Segments(Active)
  BY <1>2 DEF TablesTyped, IsList, Active, Segments
<1> HIDE DEF r, p, S
<1>5. Append(active, p) \in Seq(S) /\ ToSet(Append(active, p)) = ToSet(active) \union {p}
  BY <1>4, AppendElements
<1>6. IsList(active') /\ ToSet(active') = Active \union {p}
  BY <1>3, <1>4, <1>5, ListTyped DEF Active
<1>7. RowsOf(Append(active, p)) = RowsOf(active) \o r
  <2>1. Append(active, p) = active \o <<p>> /\ <<p>> \in Seq(S)
    BY <1>4, AppendIsConcat
  <2>2. RowsOf(active \o <<p>>) = RowsOf(active) \o RowsOf(<<p>>)
    BY <1>4, <2>1, RowsConcat
  <2> QED
    BY <1>2, <1>4, <2>1, <2>2, RowsOne
<1>8. Logical' = Logical \o r
  BY <1>3, <1>7 DEF Logical
<1>9. PICK h \in Seq(Row) : h = Logical
  BY <1>4, RowsTyped DEF Logical
<1>10. h # <<>> => active # <<>> /\ h[Len(h)].seq = LastSequence(Last(active))
  <2>1. active = <<>> => h = <<>>
    BY <1>4, <1>9, RowsOne DEF Logical
  <2>2. active # <<>> => h[Len(h)] = active[Len(active)].rows[Len(active[Len(active)].rows)]
    BY <1>4, <1>9, RowsEnds DEF Logical
  <2> QED
    BY <2>1, <2>2 DEF LastSequence, Last
<1>11. h # <<>> => r[1].seq = h[Len(h)].seq + 1
  BY <1>3, <1>10 DEF CanRegister, Continues, MaxSequence, RunHistory!BatchSequence
<1>12. h # <<>> => h[Len(h)].seq < r[1].seq
  <2>1. h # <<>> => h[Len(h)] \in Row
    OBVIOUS
  <2> QED
    BY <1>11, <2>1 DEF Row
<1>13. Increasing(h \o r)
  BY <1>1, <1>2, <1>9, <1>12, ConsecutiveIncreases, IncreasingConcat DEF HistoryInOrder
<1>14. RunHistory!CanAccept(r)
  BY <1>1, <1>3, <1>9, <1>11 DEF CanRegister, RunHistory!CanAccept, RunHistory!Continues,
     RunHistory!BatchSequence, RunHistory!IsDuplicate, r
<1> QED
  BY <1>1, <1>3, <1>6, <1>8, <1>9, <1>13, <1>14 DEF r, p

(* Removing a batch's row or a segment's leaves lists of segments.         *)
LEMMA SelectedTyped ==
  ASSUME NEW s, IsList(s), NEW chosen
  PROVE  IsList(Only(s, chosen)) /\ ToSet(Only(s, chosen)) = ToSet(s) \intersect chosen
<1>1. /\ Only(s, chosen) \in Seq(ToSet(s))
      /\ ToSet(Only(s, chosen)) = ToSet(s) \intersect chosen
  BY OnlyElements DEF IsList
<1> QED
  BY <1>1, ListTyped DEF IsList

(* The swap, from the state before it.                                     *)
LEMMA SwapReplaces ==
  ASSUME TablesTyped, HistoryInOrder, SourcesAreAdjacent, ReplaceSources
  PROVE  \E i, j \in 1 .. Len(active), out \in {CompactedPath(sources)} :
           /\ i < j /\ sources = SubSeq(active, i, j) /\ out = CompactedPath(sources)
           /\ out.rows \in Seq(Row) /\ out.rows # <<>>
           /\ FirstSequence(out) = FirstSequence(active[i])
           /\ LastSequence(out) = LastSequence(active[j])
           /\ IsList(active')
           /\ ToSet(active') = {active[k] : k \in 1 .. i - 1} \union {out}
                                 \union {active[k] : k \in j + 1 .. Len(active)}
           /\ Logical' = Logical
           /\ ToSet(sources) = {active[k] : k \in i .. j} /\ IsList(sources)
           /\ IsList(retired') /\ ToSet(retired') = ToSet(retired) \union ToSet(sources)
<1>1. PICK i \in 1 .. Len(active), j \in 1 .. Len(active) : i < j /\ sources = SubSeq(active, i, j)
  BY DEF SourcesAreAdjacent, Merging, ReplaceSources
<1>2. PICK out : out = CompactedPath(sources)
  OBVIOUS
<1>3. active' = Replaced(out)
  BY <1>2 DEF ReplaceSources
<1>4. IsList(active) /\ active \in Seq(Active) /\ Segments(Active) /\ Len(active) \in Nat
  BY DEF TablesTyped, IsList, Active
<1>5. /\ out.rows \in Seq(Row) /\ out.rows # <<>>
      /\ FirstSequence(out) = FirstSequence(active[i])
      /\ LastSequence(out) = LastSequence(active[j])
      /\ IsList(Replaced(out))
      /\ ToSet(Replaced(out)) = {active[k] : k \in 1 .. i - 1} \union {out}
                                  \union {active[k] : k \in j + 1 .. Len(active)}
      /\ RowsOf(Replaced(out)) = Logical
  BY <1>1, <1>2, <1>4, SourcesReplaced
<1>6. Logical' = Logical
  BY <1>3, <1>5 DEF Logical
<1>7. ToSet(sources) = {active[k] : k \in i .. j} /\ sources \in Seq(Active)
  <2>1. i \in 1 .. Len(active) + 1 /\ j \in i - 1 .. Len(active)
    BY <1>1, <1>4
  <2> QED
    BY <1>1, <1>4, <2>1, ListSlice
<1>8. IsList(sources)
  BY <1>4, <1>7, ListTyped
<1>9. IsList(retired') /\ ToSet(retired') = ToSet(retired) \union ToSet(sources)
  <2> DEFINE new == Only(sources, ToSet(sources) \ ToSet(retired))
  <2>1. IsList(new) /\ ToSet(new) = ToSet(sources) \ ToSet(retired)
    BY <1>8, SelectedTyped
  <2> DEFINE S == ToSet(retired) \union ToSet(sources)
  <2>2. IsList(retired) /\ Segments(S)
    BY <1>8 DEF TablesTyped, IsList, Segments
  <2>3. retired' = retired \o new
    BY DEF ReplaceSources
  <2> HIDE DEF new
  <2>4. retired \in Seq(S) /\ new \in Seq(S)
    <3>1. retired \in Seq(ToSet(retired)) /\ new \in Seq(ToSet(new))
      BY <2>1, <2>2 DEF IsList
    <3>2. ToSet(retired) \subseteq S /\ ToSet(new) \subseteq S
      BY <2>1
    <3> HIDE DEF S
    <3> QED
      BY <3>1, <3>2
  <2> HIDE DEF S
  <2>5. ToSet(retired \o new) = ToSet(retired) \union ToSet(new) /\ retired \o new \in Seq(S)
    BY <2>4, ConcatElements, ConcatProperties
  <2>6. IsList(retired \o new)
    BY <2>2, <2>5, ListTyped
  <2> QED
    BY <2>1, <2>3, <2>5, <2>6
<1> QED
  BY <1>1, <1>2, <1>3, <1>5, <1>6, <1>7, <1>8, <1>9

(* The sources of a merge are active segments, two or more.                *)
LEMMA SourcesTyped ==
  ASSUME TablesTyped, SourcesAreAdjacent, Merging
  PROVE  /\ Len(sources) >= 2 /\ IsList(sources)
         /\ CompactedPath(sources).rows \in Seq(Row) /\ CompactedPath(sources).rows # <<>>
         /\ ToSet(sources) \subseteq Active
<1>1. PICK i \in 1 .. Len(active), j \in 1 .. Len(active) : i < j /\ sources = SubSeq(active, i, j)
  BY DEF SourcesAreAdjacent
<1>2. active \in Seq(Active) /\ Segments(Active) /\ Len(active) \in Nat
  BY DEF TablesTyped, IsList, Active
<1>3. i \in 1 .. Len(active) + 1 /\ j \in i - 1 .. Len(active)
  BY <1>1, <1>2
<1>4. sources \in Seq(Active) /\ Len(sources) = j - i + 1
  BY <1>1, <1>2, <1>3, ListSlice
<1>5. IsList(sources) /\ ToSet(sources) \subseteq Active
  BY <1>2, <1>4, ListTyped
<1>6. Len(sources) >= 2 /\ sources # <<>>
  BY <1>1, <1>4
<1>7. RowsOf(sources) \in Seq(Row) /\ RowsOf(sources) # <<>>
  BY <1>2, <1>4, <1>6, RowsTyped, RowsEnds
<1> QED
  BY <1>5, <1>6, <1>7 DEF CompactedPath

(* The tables hold lists of segments with rows.                            *)
LEMMA TablesNext ==
  ASSUME TablesTyped, TasksTyped, HistoryInOrder, BatchesAreKnown, SourcesAreAdjacent, [Next]_vars
  PROVE  TablesTyped'
<1>1. /\ runState' \in {"absent", "running", "finished"}
  <2>1. CASE CreateRun \/ FinishRun
    BY <2>1 DEF CreateRun, FinishRun
  <2>2. CASE ~(CreateRun \/ FinishRun)
    BY <2>2, IngestFrame, WorkerFrame, QueryFrame DEF TablesTyped, Next, Restart, vars, catalog
  <2> QED
    BY <2>1, <2>2
<1>2. batches' \subseteq Requests /\ IsList(active') /\ IsList(retired')
  <2>1. ASSUME NEW t \in Tasks, RegisterBatch(t)
        PROVE  batches' \subseteq Requests /\ IsList(active') /\ IsList(retired')
    <3>1. request[t] \notin batches
      BY <2>1 DEF RegisterBatch, BatchesAreKnown
    <3>2. batches' = batches \union {request[t]} /\ request[t] \in Requests /\ IsList(active')
      BY <2>1, <3>1, RegisterExtends
    <3>3. retired' = retired
      BY <2>1 DEF RegisterBatch
    <3> QED
      BY <3>2, <3>3 DEF TablesTyped
  <2>2. CASE ReplaceSources
    <3>1. IsList(active') /\ IsList(retired')
      BY <2>2, SwapReplaces
    <3> QED
      BY <2>2, <3>1 DEF TablesTyped, ReplaceSources
  <2>3. CASE AcknowledgeRetired
    <3>1. batches' = batches /\ active' = active
      BY <2>3 DEF AcknowledgeRetired
    <3>2. retired' = Only(retired, ToSet(retired) \ removed) \/ retired' = retired
      BY <2>3 DEF AcknowledgeRetired
    <3>3. IsList(Only(retired, ToSet(retired) \ removed))
      BY SelectedTyped DEF TablesTyped
    <3> QED
      BY <3>1, <3>2, <3>3 DEF TablesTyped
  <2>4. CASE UNCHANGED <<batches, active, retired>>
    BY <2>4 DEF TablesTyped
  <2> QED
    BY <2>1, <2>2, <2>3, <2>4, TablesFrame
<1>3. Segments(files')
  <2>0. Segments(files)
    BY DEF TablesTyped
  <2>1. CASE CreateRun \/ FinishRun
    BY <2>0, <2>1, RunFrame
  <2>2. ASSUME NEW t \in Tasks, WriteBatch(t) PROVE Segments(files')
    <3>1. BatchPath(request[t]).rows \in Seq(Row) /\ BatchPath(request[t]).rows # <<>>
      BY <2>2, RowsOfRequests DEF WriteBatch, TasksTyped
    <3>2. files' \subseteq files \union {BatchPath(request[t])}
      BY <2>2 DEF WriteBatch
    <3> QED
      BY <2>0, <3>1, <3>2 DEF Segments
  <2>3. ASSUME NEW t \in Tasks, PostBatch(t) \/ IngestStep(t), ~WriteBatch(t)
        PROVE  files' \subseteq files
    BY <2>3 DEF PostBatch, IngestStep, LockRun, CheckBatch, RegisterBatch, RegisterFails,
                VerifyBatch, RemoveBatch
  <2>4. CASE Build
    <3>1. CompactedPath(sources).rows \in Seq(Row) /\ CompactedPath(sources).rows # <<>>
      BY <2>4, SourcesTyped DEF Build, Merging
    <3>2. files' \subseteq files \union {CompactedPath(sources)}
      BY <2>4 DEF Build
    <3> QED
      BY <2>0, <3>1, <3>2 DEF Segments
  <2>5. ASSUME WorkerStep \/ Shutdown, ~Build PROVE files' \subseteq files
    BY <2>5 DEF WorkerStep, BeginPass, LockToRetire, RemoveFile, AcknowledgeRetired,
       ChooseSources, LockToSwap, ReplaceSources, AbandonOutput, VerifyOutput, RemoveOutput,
       Shutdown
  <2>6. ASSUME NEW q \in Readers, OpenQuery(q) \/ QueryStep(q) PROVE files' = files
    BY <2>6, QueryFrame
  <2>7. CASE Restart \/ UNCHANGED vars
    BY <2>0, <2>7 DEF Restart, vars
  <2> QED
    BY <2>0, <2>1, <2>2, <2>3, <2>4, <2>5, <2>6, <2>7 DEF Next, IngestStep, Segments
<1> QED
  BY <1>1, <1>2, <1>3 DEF TablesTyped

(* The history stays in order, however its rows are cut.                   *)
LEMMA HistoryNext ==
  ASSUME TablesTyped, TasksTyped, HistoryInOrder, BatchesAreKnown, SourcesAreAdjacent, [Next]_vars
  PROVE  HistoryInOrder'
<1>1. ASSUME NEW t \in Tasks, RegisterBatch(t) PROVE HistoryInOrder'
  <2>1. request[t] \notin batches
    BY <1>1 DEF RegisterBatch, BatchesAreKnown
  <2> QED
    BY <1>1, <2>1, RegisterExtends DEF HistoryInOrder
<1>2. CASE ReplaceSources
  <2>1. Logical' = Logical
    BY <1>2, SwapReplaces
  <2> QED
    BY <2>1 DEF HistoryInOrder
<1>3. ASSUME active' = active PROVE HistoryInOrder'
  BY <1>3 DEF HistoryInOrder, Logical
<1> QED
  BY <1>1, <1>2, <1>3, TablesFrame DEF AcknowledgeRetired

(* A merged file holds the rows of its sources.                            *)
LEMMA PathTyped ==
  ASSUME NEW p, p.rows \in Seq(Row), p.rows # <<>>
  PROVE  FirstSequence(p) \in Nat /\ LastSequence(p) \in Nat
<1>1. PICK r \in Seq(Row) : r = p.rows /\ r # <<>>
  OBVIOUS
<1>2. r[1] \in Row /\ r[Len(r)] \in Row
  BY <1>1
<1> QED
  BY <1>1, <1>2 DEF FirstSequence, LastSequence, Row

(* What covers a segment is covered by what it is merged into.             *)
LEMMA RetiredNext ==
  ASSUME TablesTyped, TasksTyped, HistoryInOrder, RetiredAreCovered, BatchesAreKnown,
         SourcesAreAdjacent, [Next]_vars
  PROVE  RetiredAreCovered'
<1>1. ASSUME NEW t \in Tasks, RegisterBatch(t) PROVE RetiredAreCovered'
  <2>1. request[t] \notin batches
    BY <1>1 DEF RegisterBatch, BatchesAreKnown
  <2>2. Active \subseteq Active' /\ retired' = retired
    BY <1>1, <2>1, RegisterExtends DEF Active, RegisterBatch
  <2> QED
    BY <2>2 DEF RetiredAreCovered
<1>2. CASE ReplaceSources
  <2>1. PICK i \in 1 .. Len(active), j \in 1 .. Len(active), out \in {CompactedPath(sources)} :
          /\ i < j
          /\ FirstSequence(out) = FirstSequence(active[i])
          /\ LastSequence(out) = LastSequence(active[j])
          /\ Active' = {active[k] : k \in 1 .. i - 1} \union {out}
                        \union {active[k] : k \in j + 1 .. Len(active)}
          /\ ToSet(sources) = {active[k] : k \in i .. j}
          /\ ToSet(retired') = ToSet(retired) \union ToSet(sources)
    BY <1>2, SwapReplaces DEF Active
  <2>2. /\ \A k \in 1 .. Len(active) :
             /\ FirstSequence(active[k]) \in Nat /\ LastSequence(active[k]) \in Nat
             /\ FirstSequence(active[k]) <= LastSequence(active[k])
        /\ \A k, l \in 1 .. Len(active) :
             k < l => LastSequence(active[k]) < FirstSequence(active[l])
    BY SegmentsInOrder DEF TablesTyped, IsList, HistoryInOrder, Logical
  <2>3. out \in Active' /\ Len(active) \in Nat
    BY <2>1 DEF TablesTyped, IsList
  <2>4. ASSUME NEW k \in i .. j PROVE Covers(out, active[k])
    <3>1. k \in 1 .. Len(active)
      BY <2>3
    <3>2. FirstSequence(active[i]) <= FirstSequence(active[k]) /\ (i < k => FirstSequence(active[i]) < FirstSequence(active[k]))
      <4>1. i = k \/ LastSequence(active[i]) < FirstSequence(active[k])
        BY <2>2, <3>1
      <4> QED
        BY <2>2, <3>1, <4>1
    <3>3. LastSequence(active[k]) <= LastSequence(active[j]) /\ (k < j => LastSequence(active[k]) < LastSequence(active[j]))
      <4>1. k = j \/ LastSequence(active[k]) < FirstSequence(active[j])
        BY <2>2, <3>1
      <4> QED
        BY <2>2, <3>1, <4>1
    <3> QED
      BY <2>1, <3>2, <3>3 DEF Covers
  <2>5. ASSUME NEW p \in ToSet(retired) PROVE \E a \in Active' : Covers(a, p)
    <3>1. PICK a \in Active : Covers(a, p)
      BY DEF RetiredAreCovered
    <3>2. PICK k \in 1 .. Len(active) : a = active[k]
      BY <3>1 DEF Active, ToSet, TablesTyped, IsList
    <3>3. CASE k \in i .. j
      <4>1. Covers(out, a)
        BY <2>4, <3>2, <3>3
      <4>2. /\ FirstSequence(out) \in Nat /\ LastSequence(out) \in Nat
            /\ FirstSequence(a) \in Nat /\ LastSequence(a) \in Nat
        BY <2>1, <2>2, <3>2
      <4>3. FirstSequence(p) \in Nat /\ LastSequence(p) \in Nat
        BY PathTyped DEF TablesTyped, IsList, Segments
      <4>4. Covers(out, p)
        BY <3>1, <4>1, <4>2, <4>3 DEF Covers
      <4> QED
        BY <2>3, <4>4
    <3>4. CASE ~(k \in i .. j)
      <4>1. k \in 1 .. i - 1 \/ k \in j + 1 .. Len(active)
        BY <2>3, <3>4
      <4> QED
        BY <2>1, <3>1, <3>2, <4>1
    <3> QED
      BY <3>3, <3>4
  <2> QED
    BY <2>1, <2>3, <2>4, <2>5 DEF RetiredAreCovered
<1>3. CASE AcknowledgeRetired
  <2>1. ToSet(retired') \subseteq ToSet(retired)
    <3>1. ToSet(Only(retired, ToSet(retired) \ removed)) \subseteq ToSet(retired)
      BY SelectedTyped DEF TablesTyped
    <3>2. retired' = Only(retired, ToSet(retired) \ removed) \/ retired' = retired
      BY <1>3 DEF AcknowledgeRetired
    <3> QED
      BY <3>1, <3>2
  <2>2. Active' = Active
    BY <1>3 DEF AcknowledgeRetired, Active
  <2> QED
    BY <2>1, <2>2 DEF RetiredAreCovered
<1>4. CASE UNCHANGED <<batches, active, retired>>
  BY <1>4 DEF RetiredAreCovered, Active
<1> QED
  BY <1>1, <1>2, <1>3, <1>4, TablesFrame

(* So none is both active and retired.                                     *)
LEMMA RetiredAreNotActive ==
  ASSUME TablesTyped, HistoryInOrder, RetiredAreCovered
  PROVE  ToSet(retired) \intersect Active = {}
<1> SUFFICES ASSUME NEW p \in Active, p \in ToSet(retired) PROVE FALSE
  OBVIOUS
<1>1. PICK a \in Active : Covers(a, p)
  BY DEF RetiredAreCovered
<1>2. PICK k \in 1 .. Len(active), l \in 1 .. Len(active) : a = active[k] /\ p = active[l]
  BY <1>1 DEF Active, ToSet, TablesTyped, IsList
<1>3. /\ \A i \in 1 .. Len(active) :
           /\ FirstSequence(active[i]) \in Nat /\ LastSequence(active[i]) \in Nat
           /\ FirstSequence(active[i]) <= LastSequence(active[i])
      /\ \A i, j \in 1 .. Len(active) :
           i < j => LastSequence(active[i]) < FirstSequence(active[j])
  BY SegmentsInOrder DEF TablesTyped, IsList, HistoryInOrder, Logical
<1>4. k = l \/ k < l \/ l < k
  OBVIOUS
<1>5. CASE k = l
  BY <1>1, <1>2, <1>3, <1>5 DEF Covers
<1>6. CASE k < l
  <2>1. LastSequence(a) < FirstSequence(p)
    BY <1>2, <1>3, <1>6
  <2> QED
    BY <1>1, <1>2, <1>3, <2>1 DEF Covers
<1>7. CASE l < k
  <2>1. LastSequence(p) < FirstSequence(a)
    BY <1>2, <1>3, <1>7
  <2> QED
    BY <1>1, <1>2, <1>3, <2>1 DEF Covers
<1> QED
  BY <1>4, <1>5, <1>6, <1>7

(* How the set of paths with a row changes.                                *)
LEMMA RegisteredNext ==
  ASSUME TablesTyped, TasksTyped, HistoryInOrder, BatchesAreKnown, SourcesAreAdjacent, [Next]_vars
  PROVE  \/ \E t \in Tasks : /\ RegisterBatch(t) /\ batches' = batches \union {request[t]}
                              /\ Registered' = Registered \union {BatchPath(request[t])}
         \/ /\ ReplaceSources /\ batches' = batches
            /\ Registered' \subseteq Registered \union {CompactedPath(sources)}
         \/ Registered' \subseteq Registered /\ batches' = batches
<1>1. ASSUME NEW t \in Tasks, RegisterBatch(t)
      PROVE  /\ batches' = batches \union {request[t]}
             /\ Registered' = Registered \union {BatchPath(request[t])}
  <2>1. request[t] \notin batches
    BY <1>1 DEF RegisterBatch, BatchesAreKnown
  <2>2. /\ ToSet(active') = Active \union {BatchPath(request[t])} /\ retired' = retired
        /\ batches' = batches \union {request[t]}
    BY <1>1, <2>1, RegisterExtends DEF RegisterBatch
  <2> QED
    BY <2>2 DEF Registered, Active
<1>2. CASE ReplaceSources
  <2>1. PICK i \in 1 .. Len(active), j \in 1 .. Len(active), out \in {CompactedPath(sources)} :
          /\ out = CompactedPath(sources)
          /\ ToSet(active') = {active[k] : k \in 1 .. i - 1} \union {out}
                               \union {active[k] : k \in j + 1 .. Len(active)}
          /\ ToSet(retired') = ToSet(retired) \union ToSet(sources)
    BY <1>2, SwapReplaces
  <2>2. ToSet(sources) \subseteq Active /\ batches' = batches
    BY <1>2 DEF ReplaceSources
  <2>3. Len(active) \in Nat /\ \A k \in 1 .. Len(active) : active[k] \in Active
    BY DEF TablesTyped, IsList, Active
  <2>4. ToSet(active') \subseteq Active \union {CompactedPath(sources)}
    BY <2>1, <2>3
  <2> QED
    BY <1>2, <2>1, <2>2, <2>4 DEF Registered, Active
<1>3. CASE AcknowledgeRetired
  <2>1. ToSet(retired') \subseteq ToSet(retired)
    <3>1. ToSet(Only(retired, ToSet(retired) \ removed)) \subseteq ToSet(retired)
      BY SelectedTyped DEF TablesTyped
    <3>2. retired' = Only(retired, ToSet(retired) \ removed) \/ retired' = retired
      BY <1>3 DEF AcknowledgeRetired
    <3> QED
      BY <3>1, <3>2
  <2> QED
    BY <1>3, <2>1 DEF AcknowledgeRetired, Registered, Active
<1>4. CASE UNCHANGED <<batches, active, retired>>
  BY <1>4 DEF Registered, Active
<1> QED
  BY <1>1, <1>2, <1>3, <1>4, TablesFrame

(* Merged files are not batch files.                                       *)
LEMMA PathsDiffer ==
  ASSUME NEW r, NEW s, BatchPath(r) = CompactedPath(s)
  PROVE  s = <<>>
<1>1. BatchPath(r).of = <<>> /\ CompactedPath(s).of = s
  BY DEF BatchPath, CompactedPath
<1> QED
  BY <1>1

(* Different batches have different files.                                 *)
LEMMA BatchPathsDiffer ==
  ASSUME NEW r, NEW s, BatchPath(r) = BatchPath(s)
  PROVE  r = s
<1>1. BatchPath(r).rows = r /\ BatchPath(s).rows = s
  BY DEF BatchPath
<1> QED
  BY <1>1

(* A batch is registered once.                                             *)
LEMMA BatchesNext ==
  ASSUME TablesTyped, TasksTyped, OneAtATime, HistoryInOrder, BatchesAreKnown,
         SourcesAreAdjacent, CompactionIsSafe, [Next]_vars
  PROVE  BatchesAreKnown'
<1>1. ASSUME NEW r \in Requests, BatchPath(r) \in Registered' PROVE r \in batches'
  <2>1. ASSUME NEW t \in Tasks, batches' = batches \union {request[t]},
               Registered' = Registered \union {BatchPath(request[t])}
        PROVE  r \in batches'
    BY <1>1, <2>1, BatchPathsDiffer DEF BatchesAreKnown
  <2>2. ASSUME ReplaceSources, batches' = batches,
               Registered' \subseteq Registered \union {CompactedPath(sources)}
        PROVE  r \in batches'
    <3>1. sources # <<>>
      BY <2>2, SourcesTyped DEF ReplaceSources, Merging
    <3> QED
      BY <1>1, <2>2, <3>1, PathsDiffer DEF BatchesAreKnown
  <2>3. ASSUME Registered' \subseteq Registered, batches' = batches PROVE r \in batches'
    BY <1>1, <2>3 DEF BatchesAreKnown
  <2> QED
    BY <2>1, <2>2, <2>3, RegisteredNext
<1>2. ASSUME NEW t \in Tasks, pc'[t] \in {"writing", "registering"}
      PROVE  request'[t] \notin batches'
  <2> USE DEF TasksTyped, OneAtATime, BatchesAreKnown
  <2>1. CASE CreateRun \/ FinishRun
    BY <1>2, <2>1, RunFrame DEF ingest
  <2>2. ASSUME NEW u \in Tasks, PostBatch(u) \/ LockRun(u) PROVE request'[t] \notin batches'
    BY <1>2, <2>2 DEF PostBatch, LockRun, catalog, Places
  <2>3. ASSUME NEW u \in Tasks, CheckBatch(u) PROVE request'[t] \notin batches'
    BY <1>2, <2>3 DEF CheckBatch, Respond, Goto, catalog, RunHistory!IsDuplicate, Places
  <2>4. ASSUME NEW u \in Tasks, WriteBatch(u) PROVE request'[t] \notin batches'
    BY <1>2, <2>4 DEF WriteBatch, Respond, Goto, catalog, Places
  <2>5. ASSUME NEW u \in Tasks, RegisterBatch(u) PROVE request'[t] \notin batches'
    <3>1. pc'[u] \in {"idle", "verifying"} /\ (t # u => pc'[t] = pc[t])
      BY <2>5 DEF RegisterBatch, Respond, Goto, Places
    <3>2. t # u
      BY <1>2, <3>1
    <3>3. runLock = u /\ runLock = t
      BY <1>2, <2>5, <3>1, <3>2 DEF RegisterBatch
    <3> QED
      BY <3>2, <3>3
  <2>6. ASSUME NEW u \in Tasks, RegisterFails(u) \/ VerifyBatch(u) \/ RemoveBatch(u)
        PROVE  request'[t] \notin batches'
    BY <1>2, <2>6 DEF RegisterFails, VerifyBatch, RemoveBatch, Respond, Goto, catalog, Places
  <2>7. CASE WorkerStep \/ Shutdown
    BY <1>2, <2>7, WorkerFrame DEF ingest
  <2>8. ASSUME NEW q \in Readers, OpenQuery(q) \/ QueryStep(q)
        PROVE  request'[t] \notin batches'
    BY <1>2, <2>8, QueryFrame DEF ingest, catalog
  <2>9. CASE Restart \/ UNCHANGED vars
    BY <1>2, <2>9 DEF Restart, vars, ingest, catalog
  <2> QED
    BY <2>1, <2>2, <2>3, <2>4, <2>5, <2>6, <2>7, <2>8, <2>9 DEF Next, IngestStep
<1> QED
  BY <1>1, <1>2 DEF BatchesAreKnown

(* Who creates and who removes files.                                      *)
LEMMA FilesNext ==
  ASSUME [Next]_vars
  PROVE  \/ files \subseteq files'
         \/ \E t \in Tasks : RemoveBatch(t) /\ files' = files \ {BatchPath(request[t])}
         \/ RemoveFile /\ victims # <<>> /\ files' = files \ {Head(victims)}
         \/ RemoveOutput /\ files' = files \ {CompactedPath(sources)}
<1>1. CASE CreateRun \/ FinishRun
  BY <1>1, RunFrame
<1>2. ASSUME NEW t \in Tasks, PostBatch(t) \/ IngestStep(t)
      PROVE  \/ files \subseteq files'
             \/ RemoveBatch(t) /\ files' = files \ {BatchPath(request[t])}
  BY <1>2 DEF PostBatch, IngestStep, LockRun, CheckBatch, WriteBatch, RegisterBatch,
              RegisterFails, VerifyBatch, RemoveBatch
<1>3. CASE WorkerStep \/ Shutdown
  BY <1>3 DEF WorkerStep, BeginPass, LockToRetire, RemoveFile, AcknowledgeRetired,
     ChooseSources, Build, LockToSwap, ReplaceSources, AbandonOutput, VerifyOutput, RemoveOutput,
     Shutdown
<1>4. ASSUME NEW q \in Readers, OpenQuery(q) \/ QueryStep(q) PROVE files' = files
  BY <1>4, QueryFrame
<1>5. CASE Restart \/ UNCHANGED vars
  BY <1>5 DEF Restart, vars
<1> QED
  BY <1>1, <1>2, <1>3, <1>4, <1>5 DEF Next

(* What a pass removes from the disk is retired.                           *)
LEMMA VictimsAreRetired ==
  ASSUME WorkerTyped, CompactionIsSafe, RemoveFile
  PROVE  victims # <<>> /\ Head(victims) \in ToSet(retired)
<1>1. victims # <<>> /\ victims \in Seq(ToSet(victims)) /\ ToSet(victims) \subseteq ToSet(retired)
  BY DEF RemoveFile, WorkerTyped, CompactionIsSafe
<1> QED
  BY <1>1

(* No row loses its file: what is removed has no row, and what gets a row  *)
(* has a file.                                                             *)
LEMMA FilesKept ==
  ASSUME StoreInv, [Next]_vars
  PROVE  ActiveHaveFiles'
<1> USE DEF ActiveHaveFiles
<1>1. Active \subseteq files'
  <2>1. ASSUME NEW t \in Tasks, RemoveBatch(t), files' = files \ {BatchPath(request[t])}
        PROVE  Active \subseteq files'
    BY <2>1 DEF StoreInv, IngestIsSafe, RemoveBatch, Registered
  <2>2. CASE RemoveFile /\ victims # <<>> /\ files' = files \ {Head(victims)}
    BY <2>2, VictimsAreRetired, RetiredAreNotActive DEF StoreInv
  <2>3. CASE RemoveOutput /\ files' = files \ {CompactedPath(sources)}
    BY <2>3 DEF StoreInv, CompactionIsSafe, RemoveOutput, Registered
  <2> QED
    BY <2>1, <2>2, <2>3, FilesNext DEF StoreInv
<1>2. ASSUME NEW t \in Tasks, RegisterBatch(t) PROVE ActiveHaveFiles'
  <2>1. request[t] \notin batches /\ BatchPath(request[t]) \in files /\ files' = files
    BY <1>2 DEF RegisterBatch, StoreInv, BatchesAreKnown, IngestIsSafe
  <2>2. ToSet(active') = Active \union {BatchPath(request[t])}
    BY <1>2, <2>1, RegisterExtends DEF StoreInv
  <2> QED
    BY <1>1, <2>1, <2>2 DEF Active
<1>3. CASE ReplaceSources
  <2>1. CompactedPath(sources) \in files /\ files' = files
    BY <1>3 DEF ReplaceSources, StoreInv, CompactionIsSafe
  <2>2. PICK i \in 1 .. Len(active), j \in 1 .. Len(active), out \in {CompactedPath(sources)} :
          /\ out = CompactedPath(sources)
          /\ ToSet(active') = {active[k] : k \in 1 .. i - 1} \union {out}
                               \union {active[k] : k \in j + 1 .. Len(active)}
    BY <1>3, SwapReplaces DEF StoreInv
  <2>3. Len(active) \in Nat /\ \A k \in 1 .. Len(active) : active[k] \in Active
    BY DEF StoreInv, TablesTyped, IsList, Active
  <2>4. ToSet(active') \subseteq Active \union {CompactedPath(sources)}
    BY <2>2, <2>3
  <2> QED
    BY <1>1, <2>1, <2>4 DEF Active
<1>4. CASE active' = active
  BY <1>1, <1>4 DEF Active
<1> QED
  BY <1>2, <1>3, <1>4, TablesFrame DEF AcknowledgeRetired

(* What a task is about to register has its file, what it is about to      *)
(* remove has no row.                                                      *)
LEMMA IngestNext ==
  ASSUME StoreInv, [Next]_vars
  PROVE  IngestIsSafe'
<1> SUFFICES ASSUME NEW t \in Tasks
    PROVE  /\ pc'[t] = "registering" => BatchPath(request'[t]) \in files'
           /\ pc'[t] = "removing" => BatchPath(request'[t]) \notin Registered'
  BY DEF IngestIsSafe
<1>0. TasksTyped /\ OneAtATime /\ TasksTyped' /\ OneAtATime' /\ IngestIsSafe
  BY TasksNext DEF StoreInv
<1> USE DEF TasksTyped, OneAtATime, Places
<1>1. ASSUME pc'[t] = "registering" PROVE BatchPath(request'[t]) \in files'
  <2>1. \/ WriteBatch(t) /\ BatchPath(request[t]) \in files' /\ request' = request
        \/ pc[t] = "registering" /\ request'[t] = request[t]
    <3>1. CASE CreateRun \/ FinishRun
      BY <1>1, <3>1, RunFrame DEF ingest
    <3>2. ASSUME NEW u \in Tasks, PostBatch(u) \/ IngestStep(u), ~WriteBatch(u)
          PROVE  pc[t] = "registering" /\ request'[t] = request[t]
      BY <1>0, <1>1, <3>2 DEF PostBatch, IngestStep, LockRun, CheckBatch, RegisterBatch,
         RegisterFails, VerifyBatch, RemoveBatch, Respond, Goto
    <3>3. ASSUME NEW u \in Tasks, WriteBatch(u)
          PROVE  \/ WriteBatch(t) /\ BatchPath(request[t]) \in files' /\ request' = request
                 \/ pc[t] = "registering" /\ request'[t] = request[t]
      BY <1>0, <1>1, <3>3 DEF WriteBatch, Respond, Goto
    <3>4. CASE WorkerStep \/ Shutdown
      BY <1>1, <3>4, WorkerFrame DEF ingest
    <3>5. ASSUME NEW q \in Readers, OpenQuery(q) \/ QueryStep(q)
          PROVE  pc[t] = "registering" /\ request'[t] = request[t]
      BY <1>1, <3>5, QueryFrame DEF ingest
    <3>6. CASE Restart \/ UNCHANGED vars
      BY <1>1, <3>6 DEF Restart, vars, ingest
    <3> QED
      BY <3>1, <3>2, <3>3, <3>4, <3>5, <3>6 DEF Next, IngestStep
  <2>2. CASE pc[t] = "registering" /\ request'[t] = request[t]
    <3>1. BatchPath(request[t]) \in files
      BY <1>0, <2>2 DEF IngestIsSafe
    <3>2. request[t] \in Requests /\ request[t] \notin batches /\ runLock = t
      BY <2>2 DEF StoreInv, BatchesAreKnown
    <3>3. ASSUME NEW u \in Tasks, RemoveBatch(u) PROVE FALSE
      BY <1>0, <1>1, <2>2, <3>2, <3>3 DEF RemoveBatch, Respond
    <3>4. ASSUME RemoveFile PROVE Head(victims) # BatchPath(request[t])
      <4>1. Head(victims) \in Registered
        BY <3>4, VictimsAreRetired DEF StoreInv, Registered
      <4> QED
        BY <3>2, <4>1 DEF StoreInv, BatchesAreKnown
    <3>5. ASSUME RemoveOutput PROVE CompactedPath(sources) # BatchPath(request[t])
      <4>1. sources # <<>>
        BY <3>5 DEF RemoveOutput, StoreInv, CompactionIsSafe
      <4> QED
        BY <4>1, PathsDiffer
    <3> QED
      BY <2>2, <3>1, <3>3, <3>4, <3>5, FilesNext
  <2> QED
    BY <2>1, <2>2
<1>2. ASSUME pc'[t] = "removing" PROVE BatchPath(request'[t]) \notin Registered'
  <2>1. \/ VerifyBatch(t) /\ BatchPath(request[t]) \notin Registered /\ request' = request
        \/ pc[t] = "removing" /\ request'[t] = request[t]
    <3>1. CASE CreateRun \/ FinishRun
      BY <1>2, <3>1, RunFrame DEF ingest
    <3>2. ASSUME NEW u \in Tasks, PostBatch(u) \/ IngestStep(u), ~VerifyBatch(u)
          PROVE  pc[t] = "removing" /\ request'[t] = request[t]
      BY <1>0, <1>2, <3>2 DEF PostBatch, IngestStep, LockRun, CheckBatch, WriteBatch,
         RegisterBatch, RegisterFails, RemoveBatch, Respond, Goto
    <3>3. ASSUME NEW u \in Tasks, VerifyBatch(u)
          PROVE  \/ /\ VerifyBatch(t) /\ BatchPath(request[t]) \notin Registered
                    /\ request' = request
                 \/ pc[t] = "removing" /\ request'[t] = request[t]
      BY <1>0, <1>2, <3>3 DEF VerifyBatch, Respond, Goto
    <3>4. CASE WorkerStep \/ Shutdown
      BY <1>2, <3>4, WorkerFrame DEF ingest
    <3>5. ASSUME NEW q \in Readers, OpenQuery(q) \/ QueryStep(q)
          PROVE  pc[t] = "removing" /\ request'[t] = request[t]
      BY <1>2, <3>5, QueryFrame DEF ingest
    <3>6. CASE Restart \/ UNCHANGED vars
      BY <1>2, <3>6 DEF Restart, vars, ingest
    <3> QED
      BY <3>1, <3>2, <3>3, <3>4, <3>5, <3>6 DEF Next, IngestStep
  <2>2. BatchPath(request[t]) \notin Registered /\ request'[t] = request[t]
    BY <1>0, <2>1 DEF IngestIsSafe
  <2>3. ASSUME NEW u \in Tasks, RegisterBatch(u) PROVE FALSE
    <3>1. runLock = u /\ pc[u] = "registering"
      BY <1>0, <2>3 DEF RegisterBatch
    <3>2. pc[t] \in {"verifying", "removing"}
      BY <2>1 DEF VerifyBatch
    <3> QED
      BY <1>0, <3>1, <3>2
  <2>4. CASE ReplaceSources
    <3>1. sources # <<>>
      BY <2>4 DEF ReplaceSources, StoreInv, CompactionIsSafe
    <3>2. BatchPath(request[t]) # CompactedPath(sources)
      BY <3>1, PathsDiffer
    <3>3. Registered' \subseteq Registered \union {CompactedPath(sources)}
      BY <2>3, <2>4, RegisteredNext DEF StoreInv
    <3> QED
      BY <2>2, <3>2, <3>3
  <2>5. CASE Registered' \subseteq Registered
    BY <2>2, <2>5
  <2> QED
    BY <2>3, <2>4, <2>5, RegisteredNext DEF StoreInv
<1> QED
  BY <1>1, <1>2

(* A merge's sources stay adjacent: batches are registered behind them.    *)
LEMMA SourcesNext ==
  ASSUME StoreInv, [Next]_vars
  PROVE  SourcesAreAdjacent'
<1> SUFFICES ASSUME Merging'
    PROVE  \E i, j \in 1 .. Len(active') : i < j /\ sources' = SubSeq(active', i, j)
  BY DEF SourcesAreAdjacent
<1>1. \/ Merging /\ sources' = sources /\ ~ReplaceSources
      \/ ChooseSources /\ \E s \in Candidates : sources' = s
  <2>1. CASE CreateRun \/ FinishRun
    BY <2>1, RunFrame DEF compaction, Merging, CreateRun, FinishRun, ReplaceSources, ingest
  <2>2. ASSUME NEW t \in Tasks, PostBatch(t) \/ IngestStep(t)
        PROVE  Merging /\ sources' = sources /\ ~ReplaceSources
    BY <2>2, IngestFrame DEF compaction, Merging, ReplaceSources
  <2>3. CASE WorkerStep \/ Shutdown
    BY <2>3 DEF Merging, WorkerStep, BeginPass, LockToRetire, RemoveFile, AcknowledgeRetired,
       ChooseSources, Build, LockToSwap, ReplaceSources, AbandonOutput, VerifyOutput, RemoveOutput,
       Shutdown, EndPass
  <2>4. ASSUME NEW q \in Readers, OpenQuery(q) \/ QueryStep(q)
        PROVE  Merging /\ sources' = sources /\ ~ReplaceSources
    BY <2>4, QueryFrame DEF compaction, Merging, ReplaceSources
  <2>5. CASE Restart
    BY <2>5 DEF Restart, Merging
  <2>6. CASE UNCHANGED vars
    BY <2>6 DEF vars, compaction, Merging, ReplaceSources
  <2> QED
    BY <2>1, <2>2, <2>3, <2>4, <2>5, <2>6 DEF Next
<1>2. CASE Merging /\ sources' = sources /\ ~ReplaceSources
  <2>1. PICK i \in 1 .. Len(active), j \in 1 .. Len(active) :
          i < j /\ sources = SubSeq(active, i, j)
    BY <1>2 DEF StoreInv, SourcesAreAdjacent
  <2>2. ASSUME NEW t \in Tasks, RegisterBatch(t)
        PROVE  \E k, l \in 1 .. Len(active') : k < l /\ sources' = SubSeq(active', k, l)
    <3> DEFINE p == BatchPath(request[t])
    <3> DEFINE S == Active \union {p}
    <3>1. active' = Append(active, p)
      BY <2>2, RegisterExtends DEF StoreInv, RegisterBatch, BatchesAreKnown
    <3>2. active \in Seq(S) /\ p \in S
      BY DEF StoreInv, TablesTyped, IsList, Active
    <3> HIDE DEF p, S
    <3>3. Append(active, p) = active \o <<p>> /\ <<p>> \in Seq(S) /\ Len(Append(active, p)) = Len(active) + 1
      BY <3>2, AppendIsConcat
    <3>4. SubSeq(active \o <<p>>, i, j) = SubSeq(active, i, j)
      BY <3>2, <3>3, SubSeqOfConcat1
    <3>5. i \in 1 .. Len(active') /\ j \in 1 .. Len(active')
      <4>1. Len(active) \in Nat
        BY <3>2
      <4> QED
        BY <3>1, <3>3, <4>1
    <3> QED
      BY <1>2, <2>1, <3>1, <3>3, <3>4, <3>5
  <2>3. CASE active' = active
    BY <1>2, <2>1, <2>3
  <2> QED
    BY <1>2, <2>2, <2>3, TablesFrame DEF AcknowledgeRetired
<1>3. CASE ChooseSources /\ \E s \in Candidates : sources' = s
  <2>1. active' = active /\ Len(active) \in Nat
    BY <1>3 DEF ChooseSources, catalog, StoreInv, TablesTyped, IsList
  <2>2. PICK i \in 1 .. Len(active), j \in 1 .. Len(active) :
          sources' = SubSeq(active, i, j) /\ Len(SubSeq(active, i, j)) >= 2
    BY <1>3, SizeAssumption DEF Candidates
  <2>3. i < j
    <3>1. \A k \in i .. j : active[k] \in Active
      BY <2>1 DEF StoreInv, TablesTyped, IsList, Active
    <3>2. Len(SubSeq(active, i, j)) = IF i <= j THEN j - i + 1 ELSE 0
      BY <3>1, SubSeqProperties
    <3> QED
      BY <2>2, <3>2
  <2> QED
    BY <2>1, <2>2, <2>3
<1> QED
  BY <1>1, <1>2, <1>3

(* Steps of the others leave what the worker relies on.                    *)
LEMMA CompactionKept ==
  ASSUME StoreInv, [Next]_vars, UNCHANGED compaction, UNCHANGED retired
  PROVE  CompactionIsSafe'
<1> USE DEF compaction
<1>1. ASSUME worker \in {"built", "swapping"} PROVE CompactedPath(sources) \in files'
  <2>1. CompactedPath(sources) \in files /\ sources # <<>>
    BY <1>1 DEF StoreInv, CompactionIsSafe
  <2> QED
    BY <1>1, <2>1, FilesNext, PathsDiffer DEF RemoveFile, RemoveOutput
<1>2. ASSUME worker = "deleting" PROVE CompactedPath(sources) \notin Registered'
  <2>1. CompactedPath(sources) \notin Registered /\ sources # <<>>
    BY <1>2 DEF StoreInv, CompactionIsSafe
  <2>2. ~ReplaceSources
    BY <1>2 DEF ReplaceSources
  <2> QED
    BY <2>1, <2>2, RegisteredNext, PathsDiffer DEF StoreInv
<1> QED
  BY <1>1, <1>2 DEF StoreInv, CompactionIsSafe

(* What the worker is about to register, to remove or to forget is what it *)
(* was.                                                                    *)
LEMMA CompactionNext ==
  ASSUME StoreInv, [Next]_vars
  PROVE  CompactionIsSafe'
<1>0. CompactionIsSafe /\ TablesTyped /\ WorkerTyped /\ SourcesAreAdjacent
  BY DEF StoreInv
<1>1. CASE CreateRun \/ FinishRun
  BY <1>1, RunFrame, CompactionKept
<1>2. ASSUME NEW t \in Tasks, PostBatch(t) \/ IngestStep(t) PROVE CompactionIsSafe'
  BY <1>2, IngestFrame, CompactionKept
<1>3. ASSUME EndPass PROVE CompactionIsSafe'
  BY <1>3 DEF EndPass, CompactionIsSafe
<1>4. CASE BeginPass
  <2>1. ASSUME ~EndPass PROVE worker' = "choosing" \/ (worker' = "toRetire" /\ retired' = retired)
    BY <1>4, <2>1 DEF BeginPass, catalog
  <2>2. ASSUME ~EndPass PROVE ToSet(victims') \subseteq ToSet(retired)
    <3>1. PICK n \in 0 .. Len(retired) : victims' = SubSeq(retired, 1, n)
      <4>1. Len(retired) \in Nat
        BY <1>0 DEF TablesTyped, IsList
      <4> QED
        BY <1>4, <2>2, <4>1, SizeAssumption DEF BeginPass, AtMost
    <3>2. victims' \in Seq(ToSet(retired))
      BY <1>0, <3>1 DEF TablesTyped, IsList
    <3> QED
      BY <3>2 DEF ToSet
  <2> QED
    BY <1>3, <2>1, <2>2 DEF CompactionIsSafe
<1>5. CASE LockToRetire
  BY <1>0, <1>5 DEF LockToRetire, catalog, CompactionIsSafe
<1>6. CASE RemoveFile
  <2>1. ASSUME ~EndPass PROVE CompactionIsSafe'
    <3>1. /\ victims # <<>> /\ victims' = Tail(victims) /\ worker' = worker /\ sources' = sources
          /\ retired' = retired /\ worker \in {"retiring", "unlinking"}
      BY <1>6, <2>1 DEF RemoveFile, catalog
    <3>2. victims \in Seq(ToSet(retired))
      BY <1>0, <3>1 DEF WorkerTyped, CompactionIsSafe
    <3>3. Tail(victims) \in Seq(ToSet(retired))
      BY <3>1, <3>2
    <3>4. ToSet(Tail(victims)) \subseteq ToSet(retired)
      BY <3>3 DEF ToSet
    <3> QED
      BY <1>0, <3>1, <3>4 DEF CompactionIsSafe
  <2> QED
    BY <1>3, <2>1
<1>7. CASE AcknowledgeRetired
  BY <1>3, <1>7 DEF AcknowledgeRetired, CompactionIsSafe
<1>8. CASE ChooseSources
  BY <1>3, <1>8 DEF ChooseSources, CompactionIsSafe
<1>9. CASE Build
  <2>1. Len(sources) >= 2 /\ Segments(ToSet(sources))
    BY <1>0, <1>9, SourcesTyped DEF Build, Merging, IsList
  <2>2. EndPass \/ (worker' = "built" /\ sources' = sources /\ CompactedPath(sources) \in files')
    BY <1>9 DEF Build
  <2> QED
    BY <1>3, <2>1, <2>2 DEF CompactionIsSafe
<1>10. CASE LockToSwap
  BY <1>0, <1>10 DEF LockToSwap, catalog, CompactionIsSafe
<1>11. CASE ReplaceSources
  <2>1. ToSet(retired') = ToSet(retired) \union ToSet(sources)
    BY <1>11, SwapReplaces DEF StoreInv
  <2>2. Len(sources) >= 2 /\ Segments(ToSet(sources)) /\ sources' = sources
    BY <1>0, <1>11 DEF ReplaceSources, CompactionIsSafe
  <2>3. (worker' = "unlinking" /\ victims' = sources) \/ worker' = "disowning"
    BY <1>11 DEF ReplaceSources
  <2> QED
    BY <2>1, <2>2, <2>3 DEF CompactionIsSafe
<1>12. CASE AbandonOutput
  BY <1>0, <1>12 DEF AbandonOutput, catalog, CompactionIsSafe
<1>13. CASE VerifyOutput
  BY <1>0, <1>3, <1>13 DEF VerifyOutput, catalog, CompactionIsSafe, Registered, Active
<1>14. CASE RemoveOutput
  BY <1>3, <1>14 DEF RemoveOutput
<1>15. CASE Shutdown
  BY <1>0, <1>15 DEF Shutdown, catalog, CompactionIsSafe, Registered, Active
<1>16. ASSUME NEW q \in Readers, OpenQuery(q) \/ QueryStep(q) PROVE CompactionIsSafe'
  BY <1>16, QueryFrame, CompactionKept DEF catalog
<1>17. CASE Restart
  BY <1>17 DEF Restart, CompactionIsSafe
<1>18. CASE UNCHANGED vars
  BY <1>18, CompactionKept DEF vars, catalog
<1> QED
  BY <1>1, <1>2, <1>4, <1>5, <1>6, <1>7, <1>8, <1>9, <1>10, <1>11, <1>12, <1>13, <1>14, <1>15,
     <1>16, <1>17, <1>18 DEF Next, WorkerStep

(* Every step keeps the invariant.                                         *)
LEMMA StoreNext == StoreInv /\ [Next]_vars => StoreInv'
<1> SUFFICES ASSUME StoreInv, [Next]_vars PROVE StoreInv'
  OBVIOUS
<1>1. TablesTyped'
  BY TablesNext DEF StoreInv
<1>2. TasksTyped' /\ OneAtATime'
  BY TasksNext DEF StoreInv
<1>3. WorkerTyped'
  BY WorkerNext DEF StoreInv
<1>4. HistoryInOrder' /\ RetiredAreCovered' /\ BatchesAreKnown'
  BY HistoryNext, RetiredNext, BatchesNext DEF StoreInv
<1>5. IngestIsSafe' /\ ActiveHaveFiles' /\ SourcesAreAdjacent' /\ CompactionIsSafe'
  BY IngestNext, FilesKept, SourcesNext, CompactionNext
<1> QED
  BY <1>1, <1>2, <1>3, <1>4, <1>5 DEF StoreInv

(* Tasks that post batches, the worker that merges and removes files and   *)
(* the restarts between them keep the invariant.                           *)
THEOREM StoreInvariance == Spec => []StoreInv
<1>1. Init => StoreInv
  BY StoreInit
<1>2. StoreInv /\ [Next]_vars => StoreInv'
  BY StoreNext
<1> QED
  BY <1>1, <1>2, PTL DEF Spec

(* ADR 0014: whichever task or pass fails, is cancelled or is cut short by *)
(* a restart, every segment in the catalog has its file.                   *)
THEOREM CatalogHasItsFiles == Spec => []ActiveHaveFiles
<1>1. StoreInv => ActiveHaveFiles
  BY DEF StoreInv
<1> QED
  BY <1>1, StoreInvariance, PTL
-----------------------------------------------------------------------------
(* Under all this the log is that of RunLog.                               *)
LEMMA LogInit == Init => RunHistory!ServerInit
<1> SUFFICES ASSUME Init PROVE RunHistory!ServerInit
  OBVIOUS
<1>1. Logical = <<>>
  BY FlattenOne DEF Init, Logical, RowsOf, FlattenSeq
<1> QED
  BY <1>1 DEF Init, RunHistory!ServerInit

(* A step is one of the run's log, or none.                                *)
LEMMA LogNext ==
  ASSUME StoreInv, [Next]_vars
  PROVE  [RunHistory!ServerNext(Requests)]_(RunHistory!serverVars)
<1>1. CASE CreateRun
  <2>1. Logical' = Logical
    BY <1>1, RunFrame DEF Logical
  <2> QED
    BY <1>1, <2>1 DEF CreateRun, RunHistory!ServerNext, RunHistory!CreateOrResume
<1>2. CASE FinishRun
  <2>1. Logical' = Logical
    BY <1>2, RunFrame DEF Logical
  <2> QED
    BY <1>2, <2>1 DEF FinishRun, RunHistory!ServerNext, RunHistory!FinishRun
<1>3. ASSUME NEW t \in Tasks, RegisterBatch(t)
      PROVE  [RunHistory!ServerNext(Requests)]_(RunHistory!serverVars)
  <2>1. request[t] \notin batches
    BY <1>3 DEF RegisterBatch, StoreInv, BatchesAreKnown
  <2>2. /\ request[t] \in Requests /\ RunHistory!CanAccept(request[t])
        /\ batches' = batches \union {request[t]} /\ Logical' = Logical \o request[t]
    BY <1>3, <2>1, RegisterExtends DEF StoreInv
  <2>3. runState' = runState
    BY <1>3 DEF RegisterBatch
  <2>4. RunHistory!AcceptBatch(request[t])
    BY <2>2, <2>3 DEF RunHistory!AcceptBatch
  <2> QED
    BY <2>2, <2>4 DEF RunHistory!ServerNext
<1>4. CASE ReplaceSources
  <2>1. Logical' = Logical
    BY <1>4, SwapReplaces DEF StoreInv
  <2> QED
    BY <1>4, <2>1 DEF ReplaceSources, RunHistory!serverVars
<1>5. ASSUME ~CreateRun, ~FinishRun, UNCHANGED <<batches, active>>
      PROVE  UNCHANGED RunHistory!serverVars
  <2>1. runState' = runState
    BY <1>5, IngestFrame, WorkerFrame, QueryFrame DEF Next, Restart, vars, catalog
  <2>2. Logical' = Logical
    BY <1>5 DEF Logical
  <2> QED
    BY <1>5, <2>1, <2>2 DEF RunHistory!serverVars
<1> QED
  BY <1>1, <1>2, <1>3, <1>4, <1>5, TablesFrame DEF AcknowledgeRetired

(* The files and rows of a run, through ingestion, compaction, failures    *)
(* and restarts, implement its log.                                        *)
THEOREM StoreRefinement == Spec => ImplementsRunLog
<1>1. Init => RunHistory!ServerInit
  BY LogInit
<1>2. StoreInv /\ [Next]_vars => [RunHistory!ServerNext(Requests)]_(RunHistory!serverVars)
  BY LogNext
<1> QED
  BY <1>1, <1>2, StoreInvariance, PTL DEF Spec, ImplementsRunLog
-----------------------------------------------------------------------------
(* Who answers for a file, and how long: the flags are set while the file  *)
(* may yet have to be removed, the output of a merge has its row by the    *)
(* time the merged files are removed, and what a pass has removed is gone. *)
Owners ==
  /\ outputFresh => worker \in {"built", "swapping", "unlinking", "disowning", "deleting"}
  /\ worker = "unlinking" => CompactedPath(sources) \in Active
  /\ removed # {} => worker \in {"retiring", "unlinking"}
  /\ removed \subseteq ToSet(retired) /\ removed \intersect files = {}
  /\ \A t \in Tasks : fresh[t] => pc[t] \in {"registering", "verifying", "removing"}

(* The calls whose failure leaves a file to nobody.                        *)
OnlyTheCatalogFails ==
  MaxCrashes = 0 /\ Stuck = {} /\ Failures \intersect {"write", "verify", "remove"} = {}

(* No row is lost but those of removed files.                              *)
LEMMA RegisteredKept ==
  ASSUME StoreInv, [Next]_vars
  PROVE  /\ Registered \ removed \subseteq Registered'
         /\ ~AcknowledgeRetired => Registered \subseteq Registered'
<1>1. ASSUME NEW t \in Tasks, RegisterBatch(t) PROVE Registered \subseteq Registered'
  <2>1. request[t] \notin batches
    BY <1>1 DEF RegisterBatch, StoreInv, BatchesAreKnown
  <2>2. ToSet(active') = Active \union {BatchPath(request[t])} /\ retired' = retired
    BY <1>1, <2>1, RegisterExtends DEF StoreInv, RegisterBatch
  <2> QED
    BY <2>2 DEF Registered, Active
<1>2. CASE ReplaceSources
  <2>1. PICK i \in 1 .. Len(active), j \in 1 .. Len(active), out \in {CompactedPath(sources)} :
          /\ ToSet(active') = {active[k] : k \in 1 .. i - 1} \union {out}
                                 \union {active[k] : k \in j + 1 .. Len(active)}
          /\ ToSet(sources) = {active[k] : k \in i .. j}
          /\ ToSet(retired') = ToSet(retired) \union ToSet(sources)
    BY <1>2, SwapReplaces DEF StoreInv
  <2>2. Active \subseteq ToSet(active') \union ToSet(sources)
    <3>1. active \in Seq(Active) /\ Len(active) \in Nat
      BY DEF StoreInv, TablesTyped, IsList, Active
    <3>2. ASSUME NEW p \in Active PROVE p \in ToSet(active') \union ToSet(sources)
      <4>1. PICK k \in 1 .. Len(active) : p = active[k]
        BY <3>1 DEF Active, ToSet
      <4>2. k \in 1 .. i - 1 \/ k \in i .. j \/ k \in j + 1 .. Len(active)
        BY <3>1
      <4> QED
        BY <2>1, <4>1, <4>2
    <3> QED
      BY <3>2
  <2> QED
    BY <2>1, <2>2 DEF Registered, Active
<1>3. CASE AcknowledgeRetired
  <2>1. active' = active
    BY <1>3 DEF AcknowledgeRetired
  <2>2. ToSet(retired) \ removed \subseteq ToSet(retired')
    <3>1. CASE retired' = Only(retired, ToSet(retired) \ removed)
      BY <3>1, SelectedTyped DEF StoreInv, TablesTyped
    <3>2. CASE retired' = retired
      BY <3>2
    <3> QED
      BY <1>3, <3>1, <3>2 DEF AcknowledgeRetired
  <2> QED
    BY <1>3, <2>1, <2>2 DEF Registered, Active
<1>4. CASE UNCHANGED <<active, retired>>
  BY <1>4 DEF Registered, Active
<1> QED
  BY <1>1, <1>2, <1>3, <1>4, TablesFrame

(* When a pass is over, its output is no longer its own.                   *)
LEMMA OwnersEndPass ==
  ASSUME StoreInv, Owners, EndPass, UNCHANGED ingest
  PROVE  Owners'
<1>1. /\ outputFresh' = FALSE /\ removed' = {} /\ worker' # "unlinking"
      /\ \A t \in Tasks : fresh'[t] => pc'[t] \in {"registering", "verifying", "removing"}
  BY DEF EndPass, Owners, ingest
<1> QED
  BY <1>1 DEF Owners

(* The worker's part of it is kept by every step of a task.                *)
LEMMA OwnersIngest ==
  ASSUME StoreInv, Owners, NEW t \in Tasks, PostBatch(t) \/ IngestStep(t)
  PROVE  Owners'
<1> USE DEF StoreInv, TasksTyped
<1>1. /\ UNCHANGED compaction /\ retired' = retired
  BY IngestFrame
<1>2. \A u \in Tasks : fresh'[u] => pc'[u] \in {"registering", "verifying", "removing"}
  <2>1. CASE PostBatch(t) \/ LockRun(t)
    BY <2>1 DEF PostBatch, LockRun, Owners
  <2>2. CASE CheckBatch(t)
    BY <2>2 DEF CheckBatch, Respond, Goto, Owners
  <2>3. CASE WriteBatch(t)
    BY <2>3 DEF WriteBatch, Respond, Goto, Owners
  <2>4. CASE RegisterBatch(t)
    BY <2>4 DEF RegisterBatch, Respond, Goto, Owners
  <2>5. CASE RegisterFails(t)
    BY <2>5 DEF RegisterFails, Goto, Owners
  <2>6. CASE VerifyBatch(t)
    BY <2>6 DEF VerifyBatch, Respond, Goto, Owners
  <2>7. CASE RemoveBatch(t)
    BY <2>7 DEF RemoveBatch, Respond, Owners
  <2> QED
    BY <2>1, <2>2, <2>3, <2>4, <2>5, <2>6, <2>7 DEF IngestStep
<1>3. worker = "unlinking" => CompactedPath(sources) \in Active'
  <2>1. CASE RegisterBatch(t)
    <3>1. request[t] \notin batches
      BY <2>1 DEF RegisterBatch, BatchesAreKnown
    <3> QED
      BY <2>1, <3>1, RegisterExtends DEF Owners, Active
  <2>2. CASE ~RegisterBatch(t)
    <3>1. active' = active
      BY <2>2 DEF PostBatch, IngestStep, LockRun, CheckBatch, WriteBatch, RegisterFails,
                  VerifyBatch, RemoveBatch, catalog
    <3> QED
      BY <3>1 DEF Owners, Active
  <2> QED
    BY <2>1, <2>2
<1>4. removed \intersect files' = {}
  <2>1. CASE WriteBatch(t)
    <3>1. request[t] \notin batches /\ request[t] \in Requests
      BY <2>1 DEF WriteBatch, BatchesAreKnown
    <3>2. BatchPath(request[t]) \notin removed
      BY <3>1 DEF BatchesAreKnown, Owners, Registered
    <3>3. files' \subseteq files \union {BatchPath(request[t])}
      BY <2>1 DEF WriteBatch
    <3> QED
      BY <3>2, <3>3 DEF Owners
  <2>2. CASE ~WriteBatch(t)
    <3>1. files' \subseteq files
      BY <2>2 DEF PostBatch, IngestStep, LockRun, CheckBatch, RegisterBatch, RegisterFails,
                  VerifyBatch, RemoveBatch
    <3> QED
      BY <3>1 DEF Owners
  <2> QED
    BY <2>1, <2>2
<1> QED
  BY <1>1, <1>2, <1>3, <1>4 DEF Owners, compaction

(* And all of it by every step of the worker.                              *)
LEMMA OwnersWorker ==
  ASSUME StoreInv, Owners, WorkerStep \/ Shutdown, [Next]_vars
  PROVE  Owners'
<1>0. UNCHANGED ingest
  BY WorkerFrame
<1>1. CASE EndPass
  BY <1>0, <1>1, OwnersEndPass
<1> SUFFICES ASSUME ~EndPass PROVE Owners'
  BY <1>1
<1>2. \A t \in Tasks : fresh'[t] => pc'[t] \in {"registering", "verifying", "removing"}
  BY <1>0 DEF Owners, ingest
<1>3. CASE BeginPass \/ LockToRetire \/ ChooseSources
  BY <1>2, <1>3 DEF BeginPass, LockToRetire, ChooseSources, Owners, catalog, Active
<1>4. CASE RemoveFile
  <2>1. Head(victims) \in ToSet(retired)
    BY <1>4, VictimsAreRetired DEF StoreInv
  <2> QED
    BY <1>2, <1>4, <2>1 DEF RemoveFile, Owners, catalog, Active
<1>5. CASE AcknowledgeRetired
  BY <1>2, <1>5 DEF AcknowledgeRetired, Owners, Active
<1>6. CASE Build
  <2>1. removed = {}
    BY <1>6 DEF Build, Owners
  <2> QED
    BY <1>2, <1>6, <2>1 DEF Build, Owners, catalog, Active
<1>7. CASE LockToSwap \/ AbandonOutput
  BY <1>2, <1>7 DEF LockToSwap, AbandonOutput, Owners, catalog, Active
<1>8. CASE ReplaceSources
  <2>1. CompactedPath(sources) \in Active'
    <3>1. PICK i \in 1 .. Len(active), j \in 1 .. Len(active), out \in {CompactedPath(sources)} :
            /\ out = CompactedPath(sources)
            /\ ToSet(active') = {active[k] : k \in 1 .. i - 1} \union {out}
                                   \union {active[k] : k \in j + 1 .. Len(active)}
      BY <1>8, SwapReplaces DEF StoreInv
    <3> QED
      BY <3>1 DEF Active
  <2>2. removed = {}
    BY <1>8 DEF ReplaceSources, Owners
  <2> QED
    BY <1>2, <1>8, <2>1, <2>2 DEF ReplaceSources, Owners
<1>9. CASE VerifyOutput \/ RemoveOutput \/ Shutdown
  BY <1>2, <1>9 DEF VerifyOutput, RemoveOutput, Shutdown, Owners, catalog, Active
<1> QED
  BY <1>3, <1>4, <1>5, <1>6, <1>7, <1>8, <1>9 DEF WorkerStep

(* No file is left over when a task takes a step.                          *)
LEMMA OwnedIngest ==
  ASSUME StoreInv, Owners, FilesAreOwned, OnlyTheCatalogFails,
         NEW t \in Tasks, PostBatch(t) \/ IngestStep(t), [Next]_vars
  PROVE  FilesAreOwned'
<1> USE DEF StoreInv, TasksTyped
<1>1. UNCHANGED <<sources, outputFresh>> /\ Registered \subseteq Registered'
  <2>1. ~AcknowledgeRetired \/ Registered' = Registered
    BY IngestFrame DEF AcknowledgeRetired, compaction, Registered, Active
  <2> QED
    BY <2>1, RegisteredKept, IngestFrame DEF compaction
<1> SUFFICES ASSUME NEW p \in files' \ Registered'
    PROVE  \/ outputFresh /\ p = CompactedPath(sources)
           \/ \E u \in Tasks : fresh'[u] /\ p = BatchPath(request'[u])
  BY <1>1 DEF FilesAreOwned, CompactedPath, RowsOf
<1>2. p \notin Registered
  BY <1>1
<1>3. ASSUME p \in files
      PROVE  \/ outputFresh /\ p = CompactedPath(sources)
             \/ \E u \in Tasks : fresh[u] /\ p = BatchPath(request[u])
  BY <1>2, <1>3 DEF FilesAreOwned
<1>4. ASSUME NEW u \in Tasks, fresh[u], pc[t] \notin {"idle", "queued"} PROVE u = t
  BY <1>4 DEF Owners, OneAtATime
<1>5. CASE WriteBatch(t)
  <2>1. /\ fresh' = [fresh EXCEPT ![t] = BatchPath(request[t]) \notin files]
        /\ files' = files \union {BatchPath(request[t])} /\ request' = request
    BY <1>5 DEF WriteBatch, Goto, OnlyTheCatalogFails
  <2>2. ~fresh[t] /\ \A u \in Tasks : ~fresh[u]
    BY <1>4, <1>5 DEF WriteBatch, Owners
  <2>3. CASE p \in files
    BY <1>3, <2>2, <2>3
  <2>4. CASE p \notin files
    BY <2>1, <2>4
  <2> QED
    BY <2>3, <2>4
<1>6. CASE PostBatch(t) \/ LockRun(t)
  <2>1. p \in files /\ fresh' = fresh /\ ~fresh[t] /\ \A u \in Tasks : u # t => request'[u] = request[u]
    BY <1>6 DEF PostBatch, LockRun, Owners
  <2> QED
    BY <1>3, <2>1
<1>7. ASSUME files' = files, fresh' = fresh, request' = request
      PROVE  \/ outputFresh /\ p = CompactedPath(sources)
             \/ \E u \in Tasks : fresh'[u] /\ p = BatchPath(request'[u])
  BY <1>3, <1>7
<1>8. ASSUME files' \subseteq files, pc[t] \notin {"idle", "queued"},
             fresh[t] => p # BatchPath(request[t])
      PROVE  \/ outputFresh /\ p = CompactedPath(sources)
             \/ \E u \in Tasks : fresh'[u] /\ p = BatchPath(request'[u])
  BY <1>3, <1>4, <1>8
<1>9. CASE CheckBatch(t)
  BY <1>7, <1>8, <1>9 DEF CheckBatch, Respond, Goto, Owners
<1>10. CASE RegisterBatch(t)
  <2>1. BatchPath(request[t]) \in Registered'
    <3>1. request[t] \notin batches
      BY <1>10 DEF RegisterBatch, BatchesAreKnown
    <3> QED
      BY <1>10, <3>1, RegisterExtends DEF Registered, Active
  <2> QED
    BY <1>8, <1>10, <2>1 DEF RegisterBatch
<1>11. CASE RegisterFails(t)
  BY <1>7, <1>11 DEF RegisterFails, Goto
<1>12. CASE VerifyBatch(t)
  BY <1>2, <1>7, <1>8, <1>12 DEF VerifyBatch, Respond, Goto, OnlyTheCatalogFails
<1>13. CASE RemoveBatch(t)
  <2>1. files' = files \ {BatchPath(request[t])}
    BY <1>13 DEF RemoveBatch, MayKeep, OnlyTheCatalogFails
  <2> QED
    BY <1>8, <1>13, <2>1 DEF RemoveBatch
<1> QED
  BY <1>5, <1>6, <1>9, <1>10, <1>11, <1>12, <1>13 DEF IngestStep

(* Nor when the worker does.                                               *)
LEMMA OwnedWorker ==
  ASSUME StoreInv, Owners, FilesAreOwned, OnlyTheCatalogFails,
         WorkerStep \/ Shutdown, [Next]_vars
  PROVE  FilesAreOwned'
<1>1. UNCHANGED <<fresh, request>>
  BY WorkerFrame DEF ingest
<1> SUFFICES ASSUME NEW p \in files' \ Registered'
    PROVE  \/ outputFresh' /\ p = CompactedPath(sources')
           \/ \E u \in Tasks : fresh[u] /\ p = BatchPath(request[u])
  BY <1>1 DEF FilesAreOwned, CompactedPath, RowsOf, BatchPath
<1>2. ASSUME p \in files
      PROVE  p \notin Registered /\ (\/ outputFresh /\ p = CompactedPath(sources)
                                     \/ \E u \in Tasks : fresh[u] /\ p = BatchPath(request[u]))
  <2>1. p \notin removed
    BY <1>2 DEF Owners
  <2>2. p \notin Registered
    BY <2>1, RegisteredKept
  <2> QED
    BY <1>2, <2>2 DEF FilesAreOwned
<1>3. ASSUME files' \subseteq files, outputFresh => p # CompactedPath(sources)
      PROVE  \E u \in Tasks : fresh[u] /\ p = BatchPath(request[u])
  BY <1>2, <1>3
<1>4. ASSUME files' \subseteq files, outputFresh' = outputFresh, sources' = sources
      PROVE  \/ outputFresh' /\ p = CompactedPath(sources')
             \/ \E u \in Tasks : fresh[u] /\ p = BatchPath(request[u])
  BY <1>2, <1>4
<1>5. CASE worker \in {"idle", "toRetire", "retiring", "choosing"}
  <2>1. files' \subseteq files /\ ~outputFresh
    BY <1>5 DEF WorkerStep, BeginPass, LockToRetire, RemoveFile, AcknowledgeRetired,
                ChooseSources, Build, LockToSwap, ReplaceSources, AbandonOutput, VerifyOutput,
                RemoveOutput, Shutdown, Owners
  <2> QED
    BY <1>3, <2>1
<1>6. CASE Build
  <2>1. ~outputFresh /\ sources # <<>>
    <3>1. Len(sources) >= 2
      BY <1>6, SourcesTyped DEF Build, Merging, StoreInv
    <3>2. Len(<<>>) = 0
      OBVIOUS
    <3> QED
      BY <1>6, <3>1, <3>2 DEF Build, Owners
  <2>2. CASE p \in files
    BY <1>2, <2>1, <2>2
  <2>3. CASE p \notin files
    BY <1>6, <2>3 DEF Build, OnlyTheCatalogFails
  <2> QED
    BY <2>2, <2>3
<1>7. CASE worker = "unlinking" /\ (RemoveFile \/ AcknowledgeRetired)
  <2>1. files' \subseteq files /\ CompactedPath(sources) \in Registered'
    BY <1>7 DEF RemoveFile, AcknowledgeRetired, Owners, Registered, Active, catalog
  <2> QED
    BY <1>3, <2>1
<1>8. CASE LockToSwap \/ AbandonOutput \/ ReplaceSources \/ Shutdown
  BY <1>4, <1>8 DEF LockToSwap, AbandonOutput, ReplaceSources, Shutdown
<1>9. CASE VerifyOutput
  <2>1. CASE UNCHANGED <<sources, outputFresh>>
    BY <1>4, <1>9, <2>1 DEF VerifyOutput
  <2>2. CASE ~outputFresh \/ CompactedPath(sources) \in Registered
    BY <1>2, <1>9, <2>2 DEF VerifyOutput
  <2> QED
    BY <1>9, <2>1, <2>2 DEF VerifyOutput, OnlyTheCatalogFails
<1>10. CASE RemoveOutput
  <2>1. files' = files \ {CompactedPath(sources)}
    BY <1>10 DEF RemoveOutput, MayKeep, OnlyTheCatalogFails
  <2> QED
    BY <1>3, <2>1
<1> QED
  BY <1>5, <1>6, <1>7, <1>8, <1>9, <1>10
     DEF WorkerStep, BeginPass, LockToRetire, RemoveFile, AcknowledgeRetired, ChooseSources

(* So every step leaves each file with an owner.                           *)
LEMMA OwnedNext ==
  ASSUME OnlyTheCatalogFails, StoreInv, Owners, FilesAreOwned, [Next]_vars
  PROVE  Owners' /\ FilesAreOwned'
<1>1. ASSUME NEW t \in Tasks, PostBatch(t) \/ IngestStep(t) PROVE Owners' /\ FilesAreOwned'
  BY <1>1, OwnersIngest, OwnedIngest
<1>2. CASE WorkerStep \/ Shutdown
  BY <1>2, OwnersWorker, OwnedWorker
<1>3. ~Restart
  BY DEF Restart, OnlyTheCatalogFails, StoreInv, WorkerTyped
<1>4. ASSUME UNCHANGED <<active, retired, files, ingest, compaction>>
      PROVE  Owners' /\ FilesAreOwned'
  BY <1>4 DEF Owners, FilesAreOwned, Active, Registered, ingest, compaction
<1> QED
  BY <1>1, <1>2, <1>3, <1>4, RunFrame, QueryFrame DEF Next, vars, catalog

(* While no process is killed and no call on the file system fails, every  *)
(* file has a row or an operation that will give it one or remove it,      *)
(* whatever becomes of the transactions.                                   *)
THEOREM NoFileIsLeftOver ==
  ASSUME OnlyTheCatalogFails PROVE Spec => []FilesAreOwned
<1>1. Init => Owners /\ FilesAreOwned
  BY DEF Init, Owners, FilesAreOwned
<1>2. StoreInv /\ Owners /\ FilesAreOwned /\ [Next]_vars => Owners' /\ FilesAreOwned'
  BY OwnedNext
<1> QED
  BY <1>1, <1>2, StoreInvariance, PTL DEF Spec
-----------------------------------------------------------------------------
(* Queries.                                                                *)
(* The sequence of the i-th row, or what stands for none.                  *)
At(rows, i) == IF i = 0 THEN -1 ELSE rows[i].seq

(* Rows in order are told apart by their sequences.                        *)
LEMMA AtInOrder ==
  ASSUME NEW rows \in Seq(Row), Increasing(rows),
         NEW i \in 0 .. Len(rows), NEW j \in 0 .. Len(rows)
  PROVE  At(rows, i) \in Int /\ (At(rows, i) <= At(rows, j) <=> i <= j)
<1>1. Len(rows) \in Nat /\ \A k \in 1 .. Len(rows) : rows[k] \in Row
  OBVIOUS
<1>2. \A k \in 1 .. Len(rows) : rows[k].seq \in Nat
  BY <1>1 DEF Row
<1>3. ASSUME NEW k \in 0 .. Len(rows)
      PROVE  At(rows, k) \in Int /\ (k # 0 => At(rows, k) >= 0) /\ (k = 0 => At(rows, k) = -1)
  BY <1>1, <1>2, <1>3 DEF At
<1>4. ASSUME NEW k \in 0 .. Len(rows), NEW l \in 0 .. Len(rows), k < l
      PROVE  At(rows, k) < At(rows, l)
  <2>1. CASE k = 0
    BY <1>3, <1>4, <2>1
  <2>2. CASE k # 0
    <3>1. k \in 1 .. Len(rows) /\ l \in 1 .. Len(rows)
      BY <1>1, <1>4, <2>2
    <3>2. rows[k].seq < rows[l].seq
      BY <1>4, <3>1 DEF Increasing
    <3> QED
      BY <1>1, <3>1, <3>2 DEF At
  <2> QED
    BY <2>1, <2>2
<1>5. i < j => At(rows, i) < At(rows, j)
  BY <1>4
<1>6. j < i => At(rows, j) < At(rows, i)
  BY <1>4
<1>7. i = j => At(rows, i) = At(rows, j)
  OBVIOUS
<1>8. At(rows, i) \in Int /\ At(rows, j) \in Int
  BY <1>3
<1> QED
  BY <1>1, <1>5, <1>6, <1>7, <1>8

(* The rows of a stretch up to the x-th.                                   *)
LEMMA RowsUpTo ==
  ASSUME NEW rows \in Seq(Row), Increasing(rows), NEW x \in 0 .. Len(rows),
         NEW b \in 0 .. Len(rows), NEW a \in 0 .. b, a <= x,
         NEW c \in a .. b, c <= x, c = x \/ c = b
  PROVE  Only(SubSeq(rows, a + 1, b),
              {row \in ToSet(SubSeq(rows, a + 1, b)) : row.seq <= At(rows, x)})
           = SubSeq(rows, a + 1, c)
<1>1. Len(rows) \in Nat /\ a \in Nat /\ b \in Nat /\ x \in Nat /\ a <= c /\ c <= b
  OBVIOUS
<1>2. PICK t \in Seq(Row) : /\ t = SubSeq(rows, a + 1, b) /\ Len(t) = b - a
                            /\ \A k \in 1 .. b - a : t[k] = rows[a + k]
  <2>1. PICK m \in 1 .. Len(rows) + 1 : m = a + 1 /\ b \in m - 1 .. Len(rows)
    BY <1>1
  <2>2. PICK u \in Seq(Row) : /\ u = SubSeq(rows, m, b) /\ Len(u) = b - m + 1
                              /\ \A k \in 1 .. b - m + 1 : u[k] = rows[m + k - 1]
    <3>1. /\ SubSeq(rows, m, b) \in Seq(Row) /\ Len(SubSeq(rows, m, b)) = b - m + 1
          /\ \A k \in 1 .. b - m + 1 : SubSeq(rows, m, b)[k] = rows[m + k - 1]
      BY <2>1, Slice
    <3> QED
      BY <3>1
  <2>3. Len(u) = b - a /\ u = SubSeq(rows, a + 1, b)
    BY <1>1, <2>1, <2>2
  <2>4. ASSUME NEW k \in 1 .. b - a PROVE u[k] = rows[a + k]
    <3>1. k \in 1 .. b - m + 1 /\ m + k - 1 = a + k
      BY <1>1, <2>1
    <3> QED
      BY <2>2, <3>1
  <2> QED
    BY <2>3, <2>4
<1>3. PICK chosen : chosen = {row \in ToSet(t) : row.seq <= At(rows, x)}
  OBVIOUS
<1>4. ASSUME NEW k \in 1 .. Len(t)
      PROVE  t[k] \in chosen <=> (1 <= k /\ k <= c - a)
  <2>1. t[k] = rows[a + k] /\ t[k] \in ToSet(t) /\ a + k \in 1 .. b
    <3>1. t[k] \in ToSet(t)
      BY DEF ToSet
    <3>2. k \in 1 .. b - a
      BY <1>2
    <3>3. t[k] = rows[a + k] /\ a + k \in 1 .. b
      BY <1>1, <1>2, <3>2
    <3> QED
      BY <3>1, <3>3
  <2>2. PICK l \in 0 .. Len(rows) : l = a + k /\ l # 0
    BY <1>1, <2>1
  <2>3. At(rows, l) = t[k].seq
    BY <2>1, <2>2 DEF At
  <2>4. At(rows, l) <= At(rows, x) <=> l <= x
    BY AtInOrder
  <2>5. t[k] \in chosen <=> l <= x
    BY <1>3, <2>1, <2>3, <2>4
  <2> QED
    BY <1>1, <1>2, <2>1, <2>2, <2>5
<1>5. 1 \in 1 .. Len(t) + 1 /\ c - a \in 1 - 1 .. Len(t)
  BY <1>1, <1>2
<1>6. Only(t, chosen) = SubSeq(t, 1, c - a)
  BY <1>4, <1>5, OnlySlice
<1>7. SubSeq(SubSeq(rows, a + 1, b), 1, c - a) = SubSeq(rows, (a + 1) + 1 - 1, (a + 1) + (c - a) - 1)
  <2>1. /\ a + 1 \in 1 .. Len(rows) + 1 /\ b \in (a + 1) - 1 .. Len(rows)
        /\ 1 \in 1 .. b - (a + 1) + 2 /\ c - a \in 1 - 1 .. b - (a + 1) + 1
    BY <1>1
  <2> QED
    BY <2>1, SliceOfSlice
<1>8. (a + 1) + 1 - 1 = a + 1 /\ (a + 1) + (c - a) - 1 = c
  BY <1>1
<1> QED
  BY <1>2, <1>3, <1>6, <1>7, <1>8

(* The first rows of a stretch after the s-th.                             *)
LEMMA RowsAfter ==
  ASSUME NEW rows \in Seq(Row), Increasing(rows), NEW limit \in Nat,
         NEW b \in 0 .. Len(rows), NEW s \in 0 .. b, NEW a \in 0 .. s,
         NEW d \in s .. b, d <= s + limit, d = b \/ d = s + limit
  PROVE  AtMost(limit, Only(SubSeq(rows, a + 1, b),
              {row \in ToSet(SubSeq(rows, a + 1, b)) : row.seq > At(rows, s)}))
           = SubSeq(rows, s + 1, d)
<1>1. Len(rows) \in Nat /\ a \in Nat /\ b \in Nat /\ s \in Nat /\ a <= s /\ s <= d /\ d <= b
  OBVIOUS
<1>2. PICK t \in Seq(Row) : /\ t = SubSeq(rows, a + 1, b) /\ Len(t) = b - a
                            /\ \A k \in 1 .. b - a : t[k] = rows[a + k]
  <2>1. PICK m \in 1 .. Len(rows) + 1 : m = a + 1 /\ b \in m - 1 .. Len(rows)
    BY <1>1
  <2>2. PICK u \in Seq(Row) : /\ u = SubSeq(rows, m, b) /\ Len(u) = b - m + 1
                              /\ \A k \in 1 .. b - m + 1 : u[k] = rows[m + k - 1]
    <3>1. /\ SubSeq(rows, m, b) \in Seq(Row) /\ Len(SubSeq(rows, m, b)) = b - m + 1
          /\ \A k \in 1 .. b - m + 1 : SubSeq(rows, m, b)[k] = rows[m + k - 1]
      BY <2>1, Slice
    <3> QED
      BY <3>1
  <2>3. Len(u) = b - a /\ u = SubSeq(rows, a + 1, b)
    BY <1>1, <2>1, <2>2
  <2>4. ASSUME NEW k \in 1 .. b - a PROVE u[k] = rows[a + k]
    <3>1. k \in 1 .. b - m + 1 /\ m + k - 1 = a + k
      BY <1>1, <2>1
    <3> QED
      BY <2>2, <3>1
  <2> QED
    BY <2>3, <2>4
<1>3. PICK chosen : chosen = {row \in ToSet(t) : row.seq > At(rows, s)}
  OBVIOUS
<1>4. ASSUME NEW k \in 1 .. Len(t)
      PROVE  t[k] \in chosen <=> (s - a + 1 <= k /\ k <= b - a)
  <2>1. t[k] = rows[a + k] /\ t[k] \in ToSet(t) /\ a + k \in 1 .. b
    <3>1. t[k] \in ToSet(t)
      BY DEF ToSet
    <3>2. k \in 1 .. b - a
      BY <1>2
    <3>3. t[k] = rows[a + k] /\ a + k \in 1 .. b
      BY <1>1, <1>2, <3>2
    <3> QED
      BY <3>1, <3>3
  <2>2. PICK l \in 0 .. Len(rows) : l = a + k /\ l # 0
    BY <1>1, <2>1
  <2>3. At(rows, l) = t[k].seq
    BY <2>1, <2>2 DEF At
  <2>4. /\ At(rows, l) <= At(rows, s) <=> l <= s
        /\ At(rows, l) \in Int /\ At(rows, s) \in Int
    BY <1>1, AtInOrder
  <2>5. t[k] \in chosen <=> l > s
    BY <1>1, <1>3, <2>1, <2>2, <2>3, <2>4
  <2> QED
    BY <1>1, <1>2, <2>1, <2>2, <2>5
<1>5. PICK i \in 1 .. Len(t) + 1, j \in 0 .. Len(t) : i = s - a + 1 /\ j = b - a /\ j >= i - 1
  <2>1. s - a + 1 \in 1 .. Len(t) + 1
    BY <1>1, <1>2
  <2>2. b - a \in 0 .. Len(t) /\ b - a >= (s - a + 1) - 1
    BY <1>1, <1>2
  <2> QED
    BY <2>1, <2>2
<1>6. Only(t, chosen) = SubSeq(t, s - a + 1, b - a)
  <2>1. j \in i - 1 .. Len(t) /\ \A k \in 1 .. Len(t) : t[k] \in chosen <=> (i <= k /\ k <= j)
    BY <1>4, <1>5
  <2> QED
    BY <1>5, <2>1, OnlySlice
<1>7. SubSeq(SubSeq(rows, a + 1, b), s - a + 1, b - a)
        = SubSeq(rows, (a + 1) + (s - a + 1) - 1, (a + 1) + (b - a) - 1)
  <2>1. /\ a + 1 \in 1 .. Len(rows) + 1 /\ b \in (a + 1) - 1 .. Len(rows)
        /\ s - a + 1 \in 1 .. b - (a + 1) + 2
        /\ b - a \in (s - a + 1) - 1 .. b - (a + 1) + 1
    BY <1>1
  <2> QED
    BY <2>1, SliceOfSlice
<1>8. (a + 1) + (s - a + 1) - 1 = s + 1 /\ (a + 1) + (b - a) - 1 = b
  BY <1>1
<1>9. Only(t, chosen) = SubSeq(rows, s + 1, b)
  BY <1>2, <1>6, <1>7, <1>8
<1>10. PICK u \in Seq(Row) : u = SubSeq(rows, s + 1, b) /\ Len(u) = b - s
  <2>1. PICK m \in 1 .. Len(rows) + 1 : m = s + 1 /\ b \in m - 1 .. Len(rows)
    BY <1>1
  <2>2. PICK u \in Seq(Row) : u = SubSeq(rows, m, b) /\ Len(u) = b - m + 1
    <3>1. SubSeq(rows, m, b) \in Seq(Row) /\ Len(SubSeq(rows, m, b)) = b - m + 1
      BY <2>1, Slice
    <3> QED
      BY <3>1
  <2>3. Len(u) = b - s /\ u = SubSeq(rows, s + 1, b)
    BY <1>1, <2>1, <2>2
  <2> QED
    BY <2>3
<1>11. AtMost(limit, u) = SubSeq(u, 1, d - s)
  <2>1. (IF Len(u) < limit THEN Len(u) ELSE limit) = d - s
    BY <1>1, <1>10
  <2> QED
    BY <2>1 DEF AtMost
<1>12. SubSeq(SubSeq(rows, s + 1, b), 1, d - s)
         = SubSeq(rows, (s + 1) + 1 - 1, (s + 1) + (d - s) - 1)
  <2>1. /\ s + 1 \in 1 .. Len(rows) + 1 /\ b \in (s + 1) - 1 .. Len(rows)
        /\ 1 \in 1 .. b - (s + 1) + 2 /\ d - s \in 1 - 1 .. b - (s + 1) + 1
    BY <1>1
  <2> QED
    BY <2>1, SliceOfSlice
<1>13. (s + 1) + 1 - 1 = s + 1 /\ (s + 1) + (d - s) - 1 = d
  BY <1>1
<1> QED
  BY <1>2, <1>3, <1>9, <1>10, <1>11, <1>12, <1>13

(* The first k segments hold the first rows, more of them more.            *)
LEMMA EndsInOrder ==
  ASSUME NEW s, IsList(s)
  PROVE  /\ RowsOf(s) \in Seq(Row) /\ End(s, 0) = 0 /\ End(s, Len(s)) = Len(RowsOf(s))
         /\ \A k \in 0 .. Len(s) : End(s, k) \in 0 .. Len(RowsOf(s))
         /\ \A i, j \in 0 .. Len(s) : i <= j => End(s, i) <= End(s, j)
         /\ \A k \in 1 .. Len(s) : End(s, k - 1) < End(s, k)
<1>1. s \in Seq(ToSet(s)) /\ Segments(ToSet(s)) /\ Len(s) \in Nat
  BY DEF IsList
<1>2. RowsOf(s) \in Seq(Row)
  BY <1>1, RowsTyped
<1>3. End(s, Len(s)) = Len(RowsOf(s))
  BY <1>1, SubSeqFull DEF End
<1>4. End(s, 0) = 0
  <2>1. SubSeq(s, 1, 0) = <<>>
    BY SubSeqEmpty
  <2>2. RowsOf(<<>>) = <<>>
    BY FlattenOne DEF RowsOf, FlattenSeq
  <2>3. Len(<<>>) = 0
    OBVIOUS
  <2> QED
    BY <2>1, <2>2, <2>3, Zenon DEF End
<1>5. ASSUME NEW i \in 0 .. Len(s), NEW j \in i .. Len(s)
      PROVE  /\ End(s, i) \in Nat /\ End(s, j) \in Nat
             /\ End(s, i) <= End(s, j) /\ End(s, j) <= Len(RowsOf(s))
  <2>1. PICK m \in 1 .. Len(s) + 1 : m = i + 1 /\ m - 1 = i /\ j \in m - 1 .. Len(s)
    BY <1>1
  <2> QED
    BY <1>1, <2>1, RowsOfSlice
<1>6. ASSUME NEW k \in 1 .. Len(s) PROVE End(s, k - 1) < End(s, k)
  BY <1>1, RowsOfSegment
<1>7. ASSUME NEW k \in 0 .. Len(s) PROVE End(s, k) \in 0 .. Len(RowsOf(s))
  <2>1. k \in k .. Len(s)
    BY <1>1
  <2> QED
    BY <1>1, <1>2, <1>5, <2>1
<1>8. ASSUME NEW i \in 0 .. Len(s), NEW j \in 0 .. Len(s), i <= j PROVE End(s, i) <= End(s, j)
  <2>1. j \in i .. Len(s)
    BY <1>1, <1>8
  <2> QED
    BY <1>5, <2>1
<1> QED
  BY <1>2, <1>3, <1>4, <1>6, <1>7, <1>8

(* A segment ends with the last of the rows up to it.                      *)
LEMMA SegmentEnd ==
  ASSUME NEW s, IsList(s), NEW k \in 1 .. Len(s)
  PROVE  LastSequence(s[k]) = At(RowsOf(s), End(s, k)) /\ End(s, k) > 0
<1>1. s \in Seq(ToSet(s)) /\ Segments(ToSet(s))
  BY DEF IsList
<1>2. /\ End(s, k - 1) \in Nat /\ End(s, k) \in Nat /\ End(s, k - 1) < End(s, k)
      /\ RowsOf(s)[End(s, k)] = s[k].rows[Len(s[k].rows)]
  BY <1>1, RowsOfSegment
<1>3. End(s, k) > 0
  BY <1>2
<1> QED
  BY <1>2, <1>3 DEF At, LastSequence

(* list_segments: the segments that reach beyond the s-th row, from the    *)
(* first of them on, as many as the page holds.                            *)
LEMMA PageOfSegments ==
  ASSUME NEW a, IsList(a), Increasing(RowsOf(a)), NEW s \in 0 .. Len(RowsOf(a)),
         NEW limit \in Nat
  PROVE  \E m \in 1 .. Len(a) + 1 : \E n \in m - 1 .. Len(a) :
           /\ AtMost(limit, Only(a, {p \in ToSet(a) : LastSequence(p) > At(RowsOf(a), s)}))
                = SubSeq(a, m, n)
           /\ End(a, m - 1) <= s /\ (m <= n => s < End(a, m))
           /\ (n < m => limit = 0 \/ n = Len(a))
           /\ n - m + 1 <= limit /\ (n - m + 1 = limit \/ n = Len(a))
<1>1. /\ a \in Seq(ToSet(a)) /\ Len(a) \in Nat /\ RowsOf(a) \in Seq(Row)
      /\ End(a, 0) = 0 /\ End(a, Len(a)) = Len(RowsOf(a))
      /\ \A k \in 0 .. Len(a) : End(a, k) \in 0 .. Len(RowsOf(a))
      /\ \A i, j \in 0 .. Len(a) : i <= j => End(a, i) <= End(a, j)
  <2>1. a \in Seq(ToSet(a)) /\ Len(a) \in Nat
    BY DEF IsList
  <2> QED
    BY <2>1, EndsInOrder
<1>2. PICK l \in Nat : l = Len(RowsOf(a))
  BY <1>1
<1>3. PICK e \in [0 .. Len(a) -> 0 .. l] : e = [k \in 0 .. Len(a) |-> End(a, k)]
  BY <1>1, <1>2
<1>4. /\ e[0] = 0 /\ e[Len(a)] = l /\ \A k \in 0 .. Len(a) : e[k] = End(a, k) /\ e[k] \in 0 .. l
      /\ \A i, j \in 0 .. Len(a) : i <= j => e[i] <= e[j]
  BY <1>1, <1>2, <1>3
<1>5. PICK m \in 1 .. Len(a) + 1 :
        e[m - 1] <= s /\ \A k \in m .. Len(a) : s < e[k]
  <2> DEFINE T == {k \in Nat : k <= Len(a) + 1 /\ k >= 1 /\ \A j \in k .. Len(a) : s < e[j]}
  <2>1. Len(a) + 1 \in T
    BY <1>1
  <2>2. PICK m \in T : \A k \in T : m <= k
    <3>1. T \in SUBSET Nat /\ T # {}
      BY <2>1
    <3> HIDE DEF T
    <3> QED
      BY <3>1, LeastElement
  <2>3. m \in 1 .. Len(a) + 1 /\ \A k \in m .. Len(a) : s < e[k]
    BY <1>1, <2>2
  <2>4. e[m - 1] <= s
    <3>1. CASE m = 1
      BY <1>2, <1>4, <3>1
    <3>2. CASE m # 1
      <4>0. m - 1 \in Nat /\ m - 1 >= 1 /\ m - 1 <= Len(a) + 1 /\ ~(m <= m - 1)
        BY <1>1, <2>3, <3>2
      <4>1. m - 1 \in Nat /\ m - 1 >= 1 /\ m - 1 <= Len(a) + 1 /\ m - 1 \notin T
        <5>1. m - 1 \notin T
          <6> HIDE DEF T
          <6> QED
            BY <2>2, <4>0, Zenon
        <5> QED
          BY <4>0, <5>1
      <4>2. PICK j \in m - 1 .. Len(a) : ~(s < e[j])
        BY <4>1
      <4>3. j = m - 1
        <5>1. ~(j \in m .. Len(a))
          BY <2>3, <4>2
        <5> QED
          BY <1>1, <2>3, <4>2, <5>1
      <4>4. e[j] \in 0 .. l /\ s \in Nat
        BY <1>1, <1>2, <1>4, <2>3, <4>1, <4>2
      <4> QED
        BY <1>2, <4>2, <4>3, <4>4
    <3> QED
      BY <3>1, <3>2
  <2> QED
    BY <2>3, <2>4
<1>6. PICK chosen : chosen = {p \in ToSet(a) : LastSequence(p) > At(RowsOf(a), s)}
  OBVIOUS
<1>7. ASSUME NEW k \in 1 .. Len(a)
      PROVE  a[k] \in chosen <=> (m <= k /\ k <= Len(a))
  <2>1. LastSequence(a[k]) = At(RowsOf(a), End(a, k))
    BY SegmentEnd
  <2>2. PICK x \in 0 .. Len(RowsOf(a)) : x = End(a, k) /\ x = e[k]
    BY <1>1, <1>4
  <2>3. /\ At(RowsOf(a), x) <= At(RowsOf(a), s) <=> x <= s
        /\ At(RowsOf(a), x) \in Int /\ At(RowsOf(a), s) \in Int
    BY <1>1, AtInOrder
  <2>4. a[k] \in ToSet(a)
    BY <1>1 DEF ToSet
  <2>5. PICK y \in Int, z \in Int : /\ y = At(RowsOf(a), x) /\ z = At(RowsOf(a), s)
                                   /\ (y <= z <=> x <= s) /\ LastSequence(a[k]) = y
    BY <2>1, <2>2, <2>3
  <2>6. a[k] \in chosen <=> y > z
    BY <1>6, <2>4, <2>5
  <2>7. a[k] \in chosen <=> s < x
    BY <1>2, <2>2, <2>5, <2>6
  <2>8. s < x <=> m <= k
    <3>1. CASE m <= k
      <4>1. k \in m .. Len(a)
        BY <1>1, <3>1
      <4> QED
        BY <1>5, <2>2, <3>1, <4>1
    <3>2. CASE ~(m <= k)
      <4>1. k <= m - 1 /\ k \in 0 .. Len(a) /\ m - 1 \in 0 .. Len(a)
        BY <1>1, <3>2
      <4>2. e[k] <= e[m - 1]
        BY <1>4, <4>1
      <4>3. e[k] \in Nat /\ e[m - 1] \in Nat /\ s \in Nat
        BY <1>2, <1>4, <4>1
      <4> QED
        BY <1>5, <2>2, <3>2, <4>2, <4>3
    <3> QED
      BY <3>1, <3>2
  <2> QED
    BY <1>1, <2>7, <2>8
<1>8. Only(a, chosen) = SubSeq(a, m, Len(a))
  <2>1. Len(a) \in m - 1 .. Len(a)
    BY <1>1
  <2> QED
    BY <1>1, <1>7, <2>1, OnlySlice
<1>9. PICK u \in Seq(ToSet(a)) : u = SubSeq(a, m, Len(a)) /\ Len(u) = Len(a) - m + 1
  <2>1. Len(a) \in m - 1 .. Len(a)
    BY <1>1
  <2>2. SubSeq(a, m, Len(a)) \in Seq(ToSet(a)) /\ Len(SubSeq(a, m, Len(a))) = Len(a) - m + 1
    BY <1>1, <2>1, Slice
  <2> QED
    BY <2>2
<1>10. PICK c \in Nat : c = IF Len(u) < limit THEN Len(u) ELSE limit
  OBVIOUS
<1>11. c <= Len(a) - m + 1 /\ c <= limit /\ (c = limit \/ c = Len(a) - m + 1)
  BY <1>1, <1>9, <1>10
<1>12. AtMost(limit, u) = SubSeq(u, 1, c)
  BY <1>10 DEF AtMost
<1>13. SubSeq(SubSeq(a, m, Len(a)), 1, c) = SubSeq(a, m + 1 - 1, m + c - 1)
  <2>1. /\ Len(a) \in m - 1 .. Len(a) /\ 1 \in 1 .. Len(a) - m + 2
        /\ c \in 1 - 1 .. Len(a) - m + 1
    BY <1>1, <1>11
  <2> QED
    BY <1>1, <2>1, SliceOfSlice
<1>14. PICK n \in m - 1 .. Len(a) : n = m + c - 1
  BY <1>1, <1>11
<1>15. AtMost(limit, Only(a, chosen)) = SubSeq(a, m, n)
  <2>1. m + 1 - 1 = m
    BY <1>1
  <2> QED
    BY <1>8, <1>9, <1>12, <1>13, <1>14, <2>1
<1>16. /\ (n < m => limit = 0 \/ n = Len(a))
       /\ n - m + 1 <= limit /\ (n - m + 1 = limit \/ n = Len(a))
  BY <1>1, <1>11, <1>14
<1>17. End(a, m - 1) <= s /\ (m <= n => s < End(a, m))
  <2>1. m - 1 \in 0 .. Len(a) /\ (m <= n => m \in 0 .. Len(a) /\ m \in m .. Len(a))
    BY <1>1, <1>14
  <2> QED
    BY <1>4, <1>5, <2>1
<1> QED
  BY <1>6, <1>15, <1>16, <1>17

(* A query is a record, for what its steps make of it.                     *)
IsQuery(r) ==
  /\ r = [place |-> r.place, mode |-> r.mode, extent |-> r.extent, cursor |-> r.cursor,
          listed |-> r.listed, seen |-> r.seen]
  /\ r.place \in {"idle", "between", "listing", "reading", "done"}
  /\ r.mode \in {"none", "sampled", "paged"}

QueriesTyped ==
  query = [q \in Readers |-> query[q]] /\ \A q \in Readers : IsQuery(query[q])

(* The worker changes what queries read under the exclusive guard only.    *)
GuardIsHeld ==
  /\ worker \in {"retiring", "swapping", "unlinking"} => exclusive
  /\ exclusive => GuardIsFree

(* Query q is as r says, the others are as before.                         *)
Becomes(q, r) ==
  query' = [p \in Readers |-> IF p = q THEN r ELSE query[p]]

(* One field at a time.                                                    *)
IsRecord(r) ==
  r = [place |-> r.place, mode |-> r.mode, extent |-> r.extent, cursor |-> r.cursor,
       listed |-> r.listed, seen |-> r.seen]

LEMMA FieldsChange ==
  ASSUME NEW r, IsRecord(r), NEW x
  PROVE  /\ [r EXCEPT !.place = x] =
               [place |-> x, mode |-> r.mode, extent |-> r.extent, cursor |-> r.cursor,
                listed |-> r.listed, seen |-> r.seen]
         /\ [r EXCEPT !.mode = x] =
               [place |-> r.place, mode |-> x, extent |-> r.extent, cursor |-> r.cursor,
                listed |-> r.listed, seen |-> r.seen]
         /\ [r EXCEPT !.extent = x] =
               [place |-> r.place, mode |-> r.mode, extent |-> x, cursor |-> r.cursor,
                listed |-> r.listed, seen |-> r.seen]
         /\ [r EXCEPT !.cursor = x] =
               [place |-> r.place, mode |-> r.mode, extent |-> r.extent, cursor |-> x,
                listed |-> r.listed, seen |-> r.seen]
         /\ [r EXCEPT !.listed = x] =
               [place |-> r.place, mode |-> r.mode, extent |-> r.extent, cursor |-> r.cursor,
                listed |-> x, seen |-> r.seen]
         /\ [r EXCEPT !.seen = x] =
               [place |-> r.place, mode |-> r.mode, extent |-> r.extent, cursor |-> r.cursor,
                listed |-> r.listed, seen |-> x]
<1> USE DEF IsRecord
<1>1. [r EXCEPT !.place = x] =
        [place |-> x, mode |-> r.mode, extent |-> r.extent, cursor |-> r.cursor,
         listed |-> r.listed, seen |-> r.seen]
  OBVIOUS
<1>2. [r EXCEPT !.mode = x] =
        [place |-> r.place, mode |-> x, extent |-> r.extent, cursor |-> r.cursor,
         listed |-> r.listed, seen |-> r.seen]
  OBVIOUS
<1>3. [r EXCEPT !.extent = x] =
        [place |-> r.place, mode |-> r.mode, extent |-> x, cursor |-> r.cursor,
         listed |-> r.listed, seen |-> r.seen]
  OBVIOUS
<1>4. [r EXCEPT !.cursor = x] =
        [place |-> r.place, mode |-> r.mode, extent |-> r.extent, cursor |-> x,
         listed |-> r.listed, seen |-> r.seen]
  OBVIOUS
<1>5. [r EXCEPT !.listed = x] =
        [place |-> r.place, mode |-> r.mode, extent |-> r.extent, cursor |-> r.cursor,
         listed |-> x, seen |-> r.seen]
  OBVIOUS
<1>6. [r EXCEPT !.seen = x] =
        [place |-> r.place, mode |-> r.mode, extent |-> r.extent, cursor |-> r.cursor,
         listed |-> r.listed, seen |-> x]
  OBVIOUS
<1> QED
  BY <1>1, <1>2, <1>3, <1>4, <1>5, <1>6, Zenon

(* What a query's next record is, action by action: as it is opened,       *)
LEMMA Opened ==
  ASSUME NEW r, IsRecord(r), NEW x, NEW y, NEW z
  PROVE  [r EXCEPT !.place = x, !.mode = y, !.extent = z] =
           [place |-> x, mode |-> y, extent |-> z, cursor |-> r.cursor,
            listed |-> r.listed, seen |-> r.seen]
<1>1. PICK u : u = [r EXCEPT !.place = x]
  OBVIOUS
<1>2. PICK v : v = [u EXCEPT !.mode = y]
  OBVIOUS
<1>3. [r EXCEPT !.place = x, !.mode = y, !.extent = z] = [v EXCEPT !.extent = z]
  BY <1>1, <1>2
<1>4. u = [place |-> x, mode |-> r.mode, extent |-> r.extent, cursor |-> r.cursor,
           listed |-> r.listed, seen |-> r.seen]
  BY <1>1, FieldsChange
<1>5. v = [place |-> x, mode |-> y, extent |-> r.extent, cursor |-> r.cursor,
           listed |-> r.listed, seen |-> r.seen]
  BY <1>2, <1>4 DEF IsRecord
<1>6. IsRecord(v)
  BY <1>5 DEF IsRecord
<1>7. [v EXCEPT !.extent = z] =
        [place |-> v.place, mode |-> v.mode, extent |-> z, cursor |-> v.cursor,
         listed |-> v.listed, seen |-> v.seen]
  BY <1>6, FieldsChange
<1> QED
  BY <1>3, <1>5, <1>7

(* as its segments are listed,                                             *)
LEMMA Listed ==
  ASSUME NEW r, IsRecord(r), NEW x, NEW y
  PROVE  [r EXCEPT !.place = x, !.listed = y] =
           [place |-> x, mode |-> r.mode, extent |-> r.extent, cursor |-> r.cursor,
            listed |-> y, seen |-> r.seen]
<1>1. PICK u : u = [r EXCEPT !.place = x]
  OBVIOUS
<1>2. [r EXCEPT !.place = x, !.listed = y] = [u EXCEPT !.listed = y]
  BY <1>1
<1>3. u = [place |-> x, mode |-> r.mode, extent |-> r.extent, cursor |-> r.cursor,
           listed |-> r.listed, seen |-> r.seen]
  BY <1>1, FieldsChange
<1> QED
  BY <1>2, <1>3

(* as its rows are read.                                                   *)
LEMMA HasSeen ==
  ASSUME NEW r, IsRecord(r), NEW x, NEW y, NEW z
  PROVE  [r EXCEPT !.seen = x, !.cursor = y, !.place = z] =
           [place |-> z, mode |-> r.mode, extent |-> r.extent, cursor |-> y,
            listed |-> r.listed, seen |-> x]
<1>1. PICK u : u = [r EXCEPT !.seen = x]
  OBVIOUS
<1>2. PICK v : v = [u EXCEPT !.cursor = y]
  OBVIOUS
<1>3. [r EXCEPT !.seen = x, !.cursor = y, !.place = z] = [v EXCEPT !.place = z]
  BY <1>1, <1>2
<1>4. u = [place |-> r.place, mode |-> r.mode, extent |-> r.extent, cursor |-> r.cursor,
           listed |-> r.listed, seen |-> x]
  BY <1>1, FieldsChange
<1>5. v = [place |-> r.place, mode |-> r.mode, extent |-> r.extent, cursor |-> y,
           listed |-> r.listed, seen |-> x]
  BY <1>2, <1>4 DEF IsRecord
<1>6. IsRecord(v)
  BY <1>5 DEF IsRecord
<1>7. [v EXCEPT !.place = z] =
        [place |-> z, mode |-> v.mode, extent |-> v.extent, cursor |-> v.cursor,
         listed |-> v.listed, seen |-> v.seen]
  BY <1>6, FieldsChange
<1> QED
  BY <1>3, <1>5, <1>7

(* One query changes at a time: what opening it does,                      *)
LEMMA OpenEffect ==
  ASSUME QueriesTyped, NEW q \in Readers, OpenQuery(q)
  PROVE  /\ query[q].place \in {"idle", "between"} /\ ~exclusive
         /\ \E mode \in {"sampled", "paged"} :
              /\ query[q].place = "between" => mode = "paged"
              /\ Becomes(q, [place |-> "listing", mode |-> mode, extent |-> MaxSequence,
                             cursor |-> query[q].cursor, listed |-> query[q].listed,
                             seen |-> query[q].seen])
<1>1. PICK mode \in {"sampled", "paged"} :
        /\ query[q].place = "between" => mode = "paged"
        /\ query' = [query EXCEPT ![q].place = "listing", ![q].mode = mode,
                                  ![q].extent = MaxSequence]
  BY DEF OpenQuery
<1>2. PICK extent : extent = MaxSequence
  OBVIOUS
<1>3. Becomes(q, [query[q] EXCEPT !.place = "listing", !.mode = mode, !.extent = extent])
  BY <1>1, <1>2 DEF QueriesTyped, Becomes
<1>4. IsRecord(query[q])
  BY DEF QueriesTyped, IsQuery, IsRecord
<1>5. [query[q] EXCEPT !.place = "listing", !.mode = mode, !.extent = extent] =
        [place |-> "listing", mode |-> mode, extent |-> extent,
         cursor |-> query[q].cursor, listed |-> query[q].listed, seen |-> query[q].seen]
  BY <1>4, Opened
<1> QED
  BY <1>1, <1>2, <1>3, <1>5 DEF OpenQuery

(* what listing its segments does,                                         *)
LEMMA ListEffect ==
  ASSUME QueriesTyped, NEW q \in Readers, ListSegments(q)
  PROVE  /\ query[q].place = "listing"
         /\ Becomes(q, [place |-> "reading", mode |-> query[q].mode,
              extent |-> query[q].extent, cursor |-> query[q].cursor,
              listed |-> AtMost(PageLimit, Only(active,
                           {p \in Active : LastSequence(p) > query[q].cursor})),
              seen |-> query[q].seen])
<1>1. PICK page : page = AtMost(PageLimit, Only(active,
                           {p \in Active : LastSequence(p) > query[q].cursor}))
  OBVIOUS
<1>2. query' = [query EXCEPT ![q].place = "reading", ![q].listed = page]
  BY <1>1 DEF ListSegments
<1>3. Becomes(q, [query[q] EXCEPT !.place = "reading", !.listed = page])
  BY <1>2 DEF QueriesTyped, Becomes
<1>4. IsRecord(query[q])
  BY DEF QueriesTyped, IsQuery, IsRecord
<1>5. [query[q] EXCEPT !.place = "reading", !.listed = page] =
        [place |-> "reading", mode |-> query[q].mode, extent |-> query[q].extent,
         cursor |-> query[q].cursor, listed |-> page, seen |-> query[q].seen]
  BY <1>4, Listed
<1> QED
  BY <1>1, <1>3, <1>5 DEF ListSegments

(* what reading the segments of a sampled one does,                        *)
LEMMA SampleEffect ==
  ASSUME QueriesTyped, NEW q \in Readers, ReadSampled(q)
  PROVE  /\ query[q].place = "reading" /\ query[q].mode = "sampled"
         /\ LET r == query[q]
                rows == Only(RowsOf(r.listed),
                             {row \in ToSet(RowsOf(r.listed)) : row.seq <= r.extent})
                last == IF r.listed = <<>> THEN r.cursor ELSE LastSequence(Last(r.listed))
            IN Becomes(q, [place |-> IF Len(r.listed) = PageLimit /\ last < r.extent
                                       THEN "listing" ELSE "done",
                 mode |-> r.mode, extent |-> r.extent, cursor |-> last,
                 listed |-> r.listed, seen |-> r.seen \o rows])
<1>1. PICK r : r = query[q]
  OBVIOUS
<1>2. PICK rows : rows = Only(RowsOf(r.listed),
                              {row \in ToSet(RowsOf(r.listed)) : row.seq <= r.extent})
  OBVIOUS
<1>3. PICK last : last = IF r.listed = <<>> THEN r.cursor ELSE LastSequence(Last(r.listed))
  OBVIOUS
<1>4. PICK next : next = IF Len(r.listed) = PageLimit /\ last < r.extent
                             THEN "listing" ELSE "done"
  OBVIOUS
<1>5. PICK all : all = r.seen \o rows
  OBVIOUS
<1>6. query' = [query EXCEPT ![q].seen = all, ![q].cursor = last, ![q].place = next]
  <2>1. query' = [query EXCEPT ![q].seen = query[q].seen \o rows, ![q].cursor = last,
                               ![q].place = next]
    BY <1>1, <1>2, <1>3, <1>4 DEF ReadSampled, PageIsFull, ListedRows
  <2> QED
    BY <1>1, <1>5, <2>1
<1>7. Becomes(q, [r EXCEPT !.seen = all, !.cursor = last, !.place = next])
  BY <1>1, <1>6 DEF QueriesTyped, Becomes
<1>8. IsRecord(r)
  BY <1>1 DEF QueriesTyped, IsQuery, IsRecord
<1>9. PICK w : w = [r EXCEPT !.seen = all, !.cursor = last, !.place = next]
  OBVIOUS
<1>9a. w = [place |-> next, mode |-> r.mode, extent |-> r.extent, cursor |-> last,
            listed |-> r.listed, seen |-> all]
  BY <1>8, <1>9, HasSeen
<1>10. Becomes(q, [place |-> next, mode |-> r.mode, extent |-> r.extent, cursor |-> last,
                    listed |-> r.listed, seen |-> all])
  BY <1>7, <1>9, <1>9a, Zenon
<1>11. query[q].place = "reading" /\ query[q].mode = "sampled"
  BY DEF ReadSampled
<1> QED
  BY <1>1, <1>2, <1>3, <1>4, <1>5, <1>10, <1>11, Zenon

(* what reading those of a page does,                                      *)
LEMMA PageEffect ==
  ASSUME QueriesTyped, NEW q \in Readers, ReadPage(q)
  PROVE  /\ query[q].place = "reading" /\ query[q].mode = "paged"
         /\ LET r == query[q]
                page == AtMost(HistoryLimit, Only(RowsOf(r.listed),
                          {row \in ToSet(RowsOf(r.listed)) : row.seq > r.cursor}))
            IN Becomes(q, [place |-> IF page # <<>> /\ (Len(page) = HistoryLimit
                                                         \/ Len(r.listed) = PageLimit)
                                       THEN "between" ELSE "done",
                 mode |-> r.mode, extent |-> r.extent,
                 cursor |-> IF page = <<>> THEN r.cursor ELSE Last(page).seq,
                 listed |-> r.listed, seen |-> r.seen \o page])
<1>1. PICK r : r = query[q]
  OBVIOUS
<1>2. PICK page : page = AtMost(HistoryLimit, Only(RowsOf(r.listed),
                            {row \in ToSet(RowsOf(r.listed)) : row.seq > r.cursor}))
  OBVIOUS
<1>3. PICK last : last = IF page = <<>> THEN r.cursor ELSE Last(page).seq
  OBVIOUS
<1>4. PICK next : next = IF page # <<>> /\ (Len(page) = HistoryLimit
                                               \/ Len(r.listed) = PageLimit)
                             THEN "between" ELSE "done"
  OBVIOUS
<1>5. PICK all : all = r.seen \o page
  OBVIOUS
<1>6. query' = [query EXCEPT ![q].seen = all, ![q].cursor = last, ![q].place = next]
  <2>1. query' = [query EXCEPT
                    ![q].seen = query[q].seen \o page,
                    ![q].cursor = IF page = <<>> THEN query[q].cursor ELSE Last(page).seq,
                    ![q].place = next]
    BY <1>1, <1>2, <1>4 DEF ReadPage, PageIsFull, ListedRows
  <2> QED
    BY <1>1, <1>3, <1>5, <2>1
<1>7. Becomes(q, [r EXCEPT !.seen = all, !.cursor = last, !.place = next])
  BY <1>1, <1>6 DEF QueriesTyped, Becomes
<1>8. IsRecord(r)
  BY <1>1 DEF QueriesTyped, IsQuery, IsRecord
<1>9. PICK w : w = [r EXCEPT !.seen = all, !.cursor = last, !.place = next]
  OBVIOUS
<1>9a. w = [place |-> next, mode |-> r.mode, extent |-> r.extent, cursor |-> last,
            listed |-> r.listed, seen |-> all]
  BY <1>8, <1>9, HasSeen
<1>10. Becomes(q, [place |-> next, mode |-> r.mode, extent |-> r.extent, cursor |-> last,
                    listed |-> r.listed, seen |-> all])
  BY <1>7, <1>9, <1>9a, Zenon
<1>11. query[q].place = "reading" /\ query[q].mode = "paged"
  BY DEF ReadPage
<1> QED
  BY <1>1, <1>2, <1>3, <1>4, <1>5, <1>10, <1>11, Zenon

(* and what closing it does.                                               *)
LEMMA CloseEffect ==
  ASSUME QueriesTyped, NEW q \in Readers, CloseQuery(q)
  PROVE  query[q].place = "done" /\ Becomes(q, NoQuery)
  BY DEF QueriesTyped, Becomes, CloseQuery

(* The guard stays with the worker while it swaps and removes, and no      *)
(* query begins to read meanwhile.                                         *)
LEMMA GuardNext ==
  ASSUME StoreInv, QueriesTyped, GuardIsHeld, [Next]_vars
  PROVE  GuardIsHeld'
<1>1. CASE CreateRun \/ FinishRun
  BY <1>1, RunFrame DEF compaction, GuardIsHeld, GuardIsFree
<1>2. ASSUME NEW t \in Tasks, PostBatch(t) \/ IngestStep(t) PROVE GuardIsHeld'
  BY <1>2, IngestFrame DEF compaction, GuardIsHeld, GuardIsFree
<1>3. CASE WorkerStep \/ Shutdown
  <2>1. GuardIsFree' = GuardIsFree
    BY <1>3, WorkerFrame DEF GuardIsFree
  <2>2. ASSUME EndPass PROVE GuardIsHeld'
    BY <2>2 DEF EndPass, GuardIsHeld
  <2>3. CASE BeginPass \/ LockToRetire \/ RemoveFile
    BY <2>1, <2>2, <2>3 DEF BeginPass, LockToRetire, RemoveFile, GuardIsHeld
  <2>4. CASE AcknowledgeRetired \/ ChooseSources \/ Build
    BY <2>1, <2>2, <2>4 DEF AcknowledgeRetired, ChooseSources, Build, GuardIsHeld
  <2>5. CASE LockToSwap \/ ReplaceSources \/ AbandonOutput \/ VerifyOutput \/ RemoveOutput
    BY <2>1, <2>2, <2>5 DEF LockToSwap, ReplaceSources, AbandonOutput, VerifyOutput,
                           RemoveOutput, GuardIsHeld
  <2>6. CASE Shutdown
    BY <2>1, <2>6 DEF Shutdown, GuardIsHeld
  <2> QED
    BY <1>3, <2>3, <2>4, <2>5, <2>6 DEF WorkerStep
<1>4. ASSUME NEW q \in Readers, OpenQuery(q) \/ QueryStep(q) PROVE GuardIsHeld'
  <2>1. worker' = worker /\ exclusive' = exclusive
    BY <1>4, QueryFrame DEF compaction
  <2>2. CASE OpenQuery(q)
    BY <2>1, <2>2, OpenEffect DEF GuardIsHeld
  <2>3. CASE ListSegments(q)
    BY <2>1, <2>3, ListEffect DEF GuardIsHeld, GuardIsFree
  <2>4. CASE ReadSampled(q)
    BY <2>1, <2>4, SampleEffect DEF GuardIsHeld, GuardIsFree
  <2>5. CASE ReadPage(q)
    BY <2>1, <2>5, PageEffect DEF GuardIsHeld, GuardIsFree
  <2>6. CASE CloseQuery(q)
    BY <2>1, <2>6, CloseEffect DEF GuardIsHeld, GuardIsFree, Becomes, NoQuery
  <2> QED
    BY <1>4, <2>2, <2>3, <2>4, <2>5, <2>6 DEF QueryStep
<1>5. CASE Restart
  BY <1>5 DEF Restart, GuardIsHeld
<1>6. CASE UNCHANGED vars
  BY <1>6 DEF vars, compaction, GuardIsHeld, GuardIsFree
<1> QED
  BY <1>1, <1>2, <1>3, <1>4, <1>5, <1>6 DEF Next

(* The page of segments that a query has fetched: the active ones from the *)
(* first that reaches beyond the s rows it has seen, and, unless it is     *)
(* full, as far as the extent, the x-th row.                               *)
Fetched(r, s, x, a) ==
  \E m \in 1 .. Len(a) + 1 : \E n \in m - 1 .. Len(a) :
    /\ r.listed = SubSeq(a, m, n)
    /\ End(a, m - 1) <= s /\ s <= End(a, n) /\ (m <= n => s < End(a, n))
    /\ r.mode = "sampled" => End(a, m - 1) = s
    /\ n - m + 1 = PageLimit \/ x <= End(a, n)

(* How far a query has come in the history L of the active segments a.     *)
Progress(r, L, a) ==
  \E s, x \in 0 .. Len(L) :
    /\ r.seen = SubSeq(L, 1, s) /\ r.extent = At(L, x)
    /\ r.place # "done" => r.cursor = At(L, s)
    /\ r.place = "idle" => s = 0
    /\ r.place = "between" => r.mode = "paged"
    /\ r.place \in {"listing", "reading"} /\ r.mode = "sampled" =>
         s <= x /\ \E k \in 0 .. Len(a) : End(a, k) = s
    /\ r.place = "reading" => Fetched(r, s, x, a)
    /\ r.place = "done" => x <= s /\ (r.mode = "sampled" => s = x)

(* A query that has not begun has come nowhere.                            *)
LEMMA NothingRead ==
  ASSUME NEW L \in Seq(Row), NEW a PROVE Progress(NoQuery, L, a)
<1>1. 0 \in 0 .. Len(L) /\ SubSeq(L, 1, 0) = <<>>
  BY SubSeqEmpty
<1>2. At(L, 0) = -1
  BY DEF At
<1> QED
  BY <1>1, <1>2 DEF Progress, NoQuery

(* max_sequence is the sequence of the last row.                           *)
LEMMA MaxSequenceIsLast ==
  ASSUME IsList(active)
  PROVE  MaxSequence = At(Logical, Len(Logical))
<1>1. Logical = RowsOf(active) /\ Len(active) \in Nat /\ active \in Seq(ToSet(active))
  BY DEF Logical, IsList
<1>2. CASE active = <<>>
  <2>1. Logical = <<>> /\ Len(<<>>) = 0
    BY <1>1, <1>2, FlattenOne DEF RowsOf, FlattenSeq
  <2> QED
    BY <1>2, <2>1 DEF MaxSequence, At
<1>3. CASE active # <<>>
  <2>1. PICK k \in 1 .. Len(active) : k = Len(active)
    BY <1>1, <1>3
  <2>2. LastSequence(active[k]) = At(RowsOf(active), End(active, k))
    BY SegmentEnd
  <2>3. End(active, k) = Len(RowsOf(active))
    BY <2>1, EndsInOrder
  <2>4. Last(active) = active[k]
    BY <2>1 DEF Last
  <2> QED
    BY <1>1, <1>3, <2>2, <2>3, <2>4 DEF MaxSequence
<1> QED
  BY <1>2, <1>3

(* Opening a query puts it at the start of the history as it is.           *)
LEMMA OpenKeeps ==
  ASSUME IsList(active), NEW r, Progress(r, Logical, active),
         r.place \in {"idle", "between"}, NEW mode \in {"sampled", "paged"},
         r.place = "between" => mode = "paged",
         NEW w, w.place = "listing", w.mode = mode, w.extent = MaxSequence,
         w.cursor = r.cursor, w.seen = r.seen
  PROVE  Progress(w, Logical, active)
<1>1. PICK s \in 0 .. Len(Logical) :
        /\ r.seen = SubSeq(Logical, 1, s) /\ r.cursor = At(Logical, s)
        /\ r.place = "idle" => s = 0
  BY DEF Progress
<1>2. Logical \in Seq(Row) /\ End(active, 0) = 0 /\ Len(active) \in Nat
  BY EndsInOrder DEF Logical, IsList
<1>3. PICK x \in 0 .. Len(Logical) : x = Len(Logical) /\ w.extent = At(Logical, x)
  BY <1>2, MaxSequenceIsLast
<1>4. s <= x /\ 0 \in 0 .. Len(active)
  BY <1>2, <1>3
<1>5. mode = "sampled" => End(active, 0) = s
  BY <1>1, <1>2
<1> QED
  BY <1>1, <1>3, <1>4, <1>5 DEF Progress

(* Listing fetches the segments that follow what it has seen.              *)
LEMMA ListKeeps ==
  ASSUME IsList(active), Increasing(Logical), NEW r, Progress(r, Logical, active),
         r.place = "listing",
         NEW w, w.place = "reading", w.mode = r.mode, w.extent = r.extent,
         w.cursor = r.cursor, w.seen = r.seen,
         w.listed = AtMost(PageLimit, Only(active,
                             {p \in Active : LastSequence(p) > r.cursor}))
  PROVE  Progress(w, Logical, active)
<1>1. PICK s \in 0 .. Len(Logical), x \in 0 .. Len(Logical) :
        /\ r.seen = SubSeq(Logical, 1, s) /\ r.extent = At(Logical, x)
        /\ r.cursor = At(Logical, s)
        /\ r.mode = "sampled" => s <= x /\ \E k \in 0 .. Len(active) : End(active, k) = s
  BY DEF Progress
<1>2. /\ Logical \in Seq(Row) /\ Logical = RowsOf(active) /\ Active = ToSet(active)
      /\ Len(active) \in Nat /\ End(active, Len(active)) = Len(Logical)
      /\ \A k \in 0 .. Len(active) : End(active, k) \in 0 .. Len(Logical)
      /\ \A i, j \in 0 .. Len(active) : i <= j => End(active, i) <= End(active, j)
  BY EndsInOrder DEF Logical, IsList, Active
<1>3. PICK m \in 1 .. Len(active) + 1 : \E n \in m - 1 .. Len(active) :
        /\ w.listed = SubSeq(active, m, n)
        /\ End(active, m - 1) <= s /\ (m <= n => s < End(active, m))
        /\ (n < m => PageLimit = 0 \/ n = Len(active))
        /\ n - m + 1 <= PageLimit /\ (n - m + 1 = PageLimit \/ n = Len(active))
  <2>1. PageLimit \in Nat /\ Increasing(RowsOf(active)) /\ s \in 0 .. Len(RowsOf(active))
    BY <1>2, SizeAssumption
  <2>2. w.listed = AtMost(PageLimit, Only(active,
                     {p \in ToSet(active) : LastSequence(p) > At(RowsOf(active), s)}))
    BY <1>1, <1>2
  <2>3. \E m \in 1 .. Len(active) + 1 : \E n \in m - 1 .. Len(active) :
           /\ AtMost(PageLimit, Only(active,
                {p \in ToSet(active) : LastSequence(p) > At(RowsOf(active), s)}))
                = SubSeq(active, m, n)
           /\ End(active, m - 1) <= s /\ (m <= n => s < End(active, m))
           /\ (n < m => PageLimit = 0 \/ n = Len(active))
           /\ n - m + 1 <= PageLimit /\ (n - m + 1 = PageLimit \/ n = Len(active))
    BY <2>1, PageOfSegments
  <2> QED
    BY <2>2, <2>3
<1>4. PICK n \in m - 1 .. Len(active) :
        /\ w.listed = SubSeq(active, m, n)
        /\ End(active, m - 1) <= s /\ (m <= n => s < End(active, m))
        /\ (n < m => n = Len(active))
        /\ (n - m + 1 = PageLimit \/ n = Len(active))
  BY <1>3, SizeAssumption
<1>5. PICK b \in 0 .. Len(Logical), e \in 0 .. Len(Logical) :
        b = End(active, m - 1) /\ e = End(active, n) /\ b <= s
  BY <1>2, <1>4
<1>6. s <= e /\ (m <= n => s < e)
  <2>1. CASE m <= n
    <3>1. m \in 0 .. Len(active) /\ n \in 0 .. Len(active)
      BY <1>2, <2>1
    <3>2. PICK f \in 0 .. Len(Logical) : f = End(active, m) /\ s < f /\ f <= e
      BY <1>2, <1>4, <1>5, <2>1, <3>1
    <3> QED
      BY <1>2, <3>2
  <2>2. CASE ~(m <= n)
    <3>1. n < m
      BY <1>2, <2>2
    <3>2. e = Len(Logical)
      BY <1>2, <1>4, <1>5, <3>1
    <3> QED
      BY <1>2, <2>2, <3>2
  <2> QED
    BY <2>1, <2>2
<1>7. r.mode = "sampled" => b = s
  <2> SUFFICES ASSUME r.mode = "sampled" PROVE b = s
    OBVIOUS
  <2>1. PICK k \in 0 .. Len(active) : End(active, k) = s
    BY <1>1
  <2>2. CASE k <= m - 1
    <3>1. m - 1 \in 0 .. Len(active)
      BY <1>2
    <3>2. s <= b
      BY <1>2, <1>5, <2>1, <2>2, <3>1
    <3> QED
      BY <1>2, <1>5, <3>2
  <2>3. CASE ~(k <= m - 1)
    <3>1. m <= k /\ m \in 0 .. Len(active) /\ (n < m => n # Len(active))
      BY <1>2, <2>3
    <3>2. m <= n
      BY <1>2, <1>4, <3>1
    <3>3. End(active, m) <= s /\ s < End(active, m)
      BY <1>2, <1>4, <2>1, <3>1, <3>2
    <3>4. End(active, m) \in Nat /\ s \in Nat
      BY <1>2, <3>1
    <3> QED
      BY <3>3, <3>4
  <2> QED
    BY <2>2, <2>3
<1>8. n - m + 1 = PageLimit \/ x <= e
  <2>1. n = Len(active) => e = Len(Logical)
    BY <1>2, <1>5
  <2> QED
    BY <1>2, <1>4, <2>1
<1>9. Fetched(w, s, x, active)
  BY <1>4, <1>5, <1>6, <1>7, <1>8 DEF Fetched
<1> QED
  BY <1>1, <1>9 DEF Progress

(* What a query has fetched, with its indices.                             *)
LEMMA FetchedRows ==
  ASSUME IsList(active), NEW m \in 1 .. Len(active) + 1, NEW n \in m - 1 .. Len(active),
         NEW listed, listed = SubSeq(active, m, n)
  PROVE  /\ RowsOf(listed) = SubSeq(Logical, End(active, m - 1) + 1, End(active, n))
         /\ Len(listed) = n - m + 1 /\ (listed = <<>> <=> n < m)
         /\ m <= n => LastSequence(Last(listed)) = At(Logical, End(active, n))
<1>1. /\ active \in Seq(ToSet(active)) /\ Segments(ToSet(active)) /\ Len(active) \in Nat
      /\ Logical = RowsOf(active)
  BY DEF Logical, IsList
<1>2. RowsOf(listed) = SubSeq(Logical, End(active, m - 1) + 1, End(active, n))
  BY <1>1, RowsOfSlice
<1>3. PICK t \in Seq(ToSet(active)) : /\ t = listed /\ Len(t) = n - m + 1
                                     /\ \A k \in 1 .. n - m + 1 : t[k] = active[m + k - 1]
  <2>1. /\ SubSeq(active, m, n) \in Seq(ToSet(active)) /\ Len(SubSeq(active, m, n)) = n - m + 1
        /\ \A k \in 1 .. n - m + 1 : SubSeq(active, m, n)[k] = active[m + k - 1]
    BY <1>1, Slice
  <2> QED
    BY <2>1
<1>4. Len(listed) = n - m + 1 /\ (listed = <<>> <=> n < m)
  <2>1. t = <<>> <=> Len(t) = 0
    OBVIOUS
  <2> QED
    BY <1>1, <1>3, <2>1
<1>5. ASSUME m <= n PROVE LastSequence(Last(listed)) = At(Logical, End(active, n))
  <2>1. PICK k \in 1 .. n - m + 1 : k = n - m + 1 /\ m + k - 1 = n
    BY <1>1, <1>5
  <2>2. Last(t) = t[k] /\ t[k] = active[n]
    BY <1>3, <2>1 DEF Last
  <2>3. n \in 1 .. Len(active)
    BY <1>1, <1>5
  <2>4. LastSequence(active[n]) = At(RowsOf(active), End(active, n))
    BY <2>3, SegmentEnd
  <2> QED
    BY <1>1, <1>3, <2>2, <2>4
<1> QED
  BY <1>2, <1>4, <1>5

(* A sampled query reads the fetched segments up to its extent.            *)
LEMMA SampleKeeps ==
  ASSUME IsList(active), Increasing(Logical), NEW r, Progress(r, Logical, active),
         r.place = "reading", r.mode = "sampled",
         NEW rows, rows = Only(RowsOf(r.listed),
                               {row \in ToSet(RowsOf(r.listed)) : row.seq <= r.extent}),
         NEW last, last = IF r.listed = <<>> THEN r.cursor ELSE LastSequence(Last(r.listed)),
         NEW w, w.place = (IF Len(r.listed) = PageLimit /\ last < r.extent
                             THEN "listing" ELSE "done"),
         w.mode = r.mode, w.extent = r.extent, w.cursor = last, w.seen = r.seen \o rows
  PROVE  Progress(w, Logical, active)
<1>1. PICK s \in 0 .. Len(Logical), x \in 0 .. Len(Logical) :
        /\ r.seen = SubSeq(Logical, 1, s) /\ r.extent = At(Logical, x)
        /\ r.cursor = At(Logical, s) /\ s <= x /\ Fetched(r, s, x, active)
  BY DEF Progress
<1>2. /\ Logical \in Seq(Row) /\ Len(active) \in Nat /\ Len(Logical) \in Nat
      /\ \A k \in 0 .. Len(active) : End(active, k) \in 0 .. Len(Logical)
  BY EndsInOrder DEF Logical, IsList
<1>3. PICK m \in 1 .. Len(active) + 1 : \E n \in m - 1 .. Len(active) :
        /\ r.listed = SubSeq(active, m, n)
        /\ End(active, m - 1) = s /\ s <= End(active, n)
        /\ n - m + 1 = PageLimit \/ x <= End(active, n)
  BY <1>1 DEF Fetched
<1>4. PICK n \in m - 1 .. Len(active) :
        /\ r.listed = SubSeq(active, m, n)
        /\ End(active, m - 1) = s /\ s <= End(active, n)
        /\ n - m + 1 = PageLimit \/ x <= End(active, n)
  BY <1>3
<1>5. PICK b \in 0 .. Len(Logical) : b = End(active, n) /\ s <= b /\ n \in 0 .. Len(active)
  BY <1>2, <1>4
<1>6. /\ RowsOf(r.listed) = SubSeq(Logical, s + 1, b)
      /\ Len(r.listed) = n - m + 1 /\ (r.listed = <<>> <=> n < m)
      /\ m <= n => LastSequence(Last(r.listed)) = At(Logical, b)
  BY <1>4, <1>5, FetchedRows
<1>7. PICK c \in 0 .. Len(Logical) : c = (IF x < b THEN x ELSE b) /\ s <= c /\ c <= x
  BY <1>1, <1>2, <1>5
<1>8. rows = SubSeq(Logical, s + 1, c)
  <2>1. /\ Logical \in Seq(Row) /\ Increasing(Logical) /\ s \in 0 .. b /\ c \in s .. b
        /\ s <= x /\ c <= x /\ (c = x \/ c = b)
    BY <1>1, <1>2, <1>5, <1>7
  <2>2. Only(SubSeq(Logical, s + 1, b),
             {row \in ToSet(SubSeq(Logical, s + 1, b)) : row.seq <= At(Logical, x)})
          = SubSeq(Logical, s + 1, c)
    BY <2>1, RowsUpTo
  <2> QED
    BY <1>1, <1>6, <2>2
<1>9. w.seen = SubSeq(Logical, 1, c)
  <2>1. /\ 1 \in 1 .. Len(Logical) + 1 /\ s \in 1 - 1 .. Len(Logical)
        /\ c \in s .. Len(Logical)
    BY <1>2, <1>7
  <2>2. SubSeq(Logical, 1, s) \o SubSeq(Logical, s + 1, c) = SubSeq(Logical, 1, c)
    BY <1>2, <2>1, ConcatAdjacentSubSeq
  <2> QED
    BY <1>1, <1>8, <2>2
<1>10. last = At(Logical, b)
  <2>1. CASE m <= n
    BY <1>2, <1>6, <2>1
  <2>2. CASE ~(m <= n)
    <3>1. n = m - 1 /\ n < m
      BY <1>2, <2>2
    <3>2. b = s
      BY <1>4, <1>5, <3>1
    <3> QED
      BY <1>1, <1>6, <3>1, <3>2
  <2> QED
    BY <2>1, <2>2
<1>11. last < r.extent <=> b < x
  <2>1. /\ At(Logical, x) <= At(Logical, b) <=> x <= b
        /\ At(Logical, x) \in Int /\ At(Logical, b) \in Int
    BY <1>2, AtInOrder
  <2> QED
    BY <1>1, <1>2, <1>10, <2>1
<1>12. CASE Len(r.listed) = PageLimit /\ last < r.extent
  <2>1. w.place = "listing" /\ c = b /\ w.cursor = At(Logical, c)
    BY <1>2, <1>7, <1>10, <1>11, <1>12
  <2> QED
    BY <1>1, <1>5, <1>7, <1>9, <2>1 DEF Progress
<1>13. CASE ~(Len(r.listed) = PageLimit /\ last < r.extent)
  <2>1. x <= b
    <3>1. CASE Len(r.listed) = PageLimit
      BY <1>2, <1>11, <1>13, <3>1
    <3>2. CASE Len(r.listed) # PageLimit
      <4>1. n - m + 1 # PageLimit
        BY <1>6, <3>2
      <4> QED
        BY <1>4, <1>5, <4>1
    <3> QED
      BY <3>1, <3>2
  <2>2. w.place = "done" /\ c = x
    BY <1>2, <1>7, <1>13, <2>1
  <2> QED
    BY <1>1, <1>2, <1>7, <1>9, <2>2 DEF Progress
<1> QED
  BY <1>12, <1>13

(* A page takes the first rows of the fetched segments.                    *)
LEMMA PageKeeps ==
  ASSUME IsList(active), Increasing(Logical), NEW r, Progress(r, Logical, active),
         r.place = "reading", r.mode = "paged",
         NEW page, page = AtMost(HistoryLimit, Only(RowsOf(r.listed),
                            {row \in ToSet(RowsOf(r.listed)) : row.seq > r.cursor})),
         NEW w, w.place = (IF page # <<>> /\ (Len(page) = HistoryLimit
                                               \/ Len(r.listed) = PageLimit)
                             THEN "between" ELSE "done"),
         w.mode = r.mode, w.extent = r.extent, w.seen = r.seen \o page,
         w.cursor = IF page = <<>> THEN r.cursor ELSE Last(page).seq
  PROVE  Progress(w, Logical, active)
<1>1. PICK s \in 0 .. Len(Logical), x \in 0 .. Len(Logical) :
        /\ r.seen = SubSeq(Logical, 1, s) /\ r.extent = At(Logical, x)
        /\ r.cursor = At(Logical, s) /\ Fetched(r, s, x, active)
  BY DEF Progress
<1>2. /\ Logical \in Seq(Row) /\ Len(active) \in Nat /\ Len(Logical) \in Nat
      /\ \A k \in 0 .. Len(active) : End(active, k) \in 0 .. Len(Logical)
      /\ HistoryLimit \in Nat \ {0} /\ PageLimit \in Nat \ {0}
  BY EndsInOrder, SizeAssumption DEF Logical, IsList
<1>3. PICK m \in 1 .. Len(active) + 1 : \E n \in m - 1 .. Len(active) :
        /\ r.listed = SubSeq(active, m, n)
        /\ End(active, m - 1) <= s /\ s <= End(active, n) /\ (m <= n => s < End(active, n))
        /\ n - m + 1 = PageLimit \/ x <= End(active, n)
  BY <1>1 DEF Fetched
<1>4. PICK n \in m - 1 .. Len(active) :
        /\ r.listed = SubSeq(active, m, n)
        /\ End(active, m - 1) <= s /\ s <= End(active, n) /\ (m <= n => s < End(active, n))
        /\ n - m + 1 = PageLimit \/ x <= End(active, n)
  BY <1>3
<1>5. PICK a \in 0 .. Len(Logical), b \in 0 .. Len(Logical) :
        a = End(active, m - 1) /\ b = End(active, n) /\ a <= s /\ s <= b
  <2>1. m - 1 \in 0 .. Len(active) /\ n \in 0 .. Len(active)
    BY <1>2
  <2> QED
    BY <1>2, <1>4, <2>1
<1>6. RowsOf(r.listed) = SubSeq(Logical, a + 1, b) /\ Len(r.listed) = n - m + 1
  BY <1>4, <1>5, FetchedRows
<1>7. PICK d \in 0 .. Len(Logical) :
        d = (IF s + HistoryLimit < b THEN s + HistoryLimit ELSE b) /\ s <= d
  <2>1. CASE s + HistoryLimit < b
    BY <1>2, <1>5, <2>1
  <2>2. CASE ~(s + HistoryLimit < b)
    BY <1>2, <1>5, <2>2
  <2> QED
    BY <2>1, <2>2
<1>8. PICK p \in Seq(Row) : /\ p = page /\ p = SubSeq(Logical, s + 1, d) /\ Len(p) = d - s
                            /\ s # d => p[Len(p)] = Logical[d]
  <2>1. /\ Logical \in Seq(Row) /\ Increasing(Logical)
        /\ s \in 0 .. b /\ a \in 0 .. s /\ d \in s .. b /\ HistoryLimit \in Nat
        /\ d <= s + HistoryLimit /\ (d = b \/ d = s + HistoryLimit)
    BY <1>2, <1>5, <1>7
  <2>2. AtMost(HistoryLimit, Only(SubSeq(Logical, a + 1, b),
             {row \in ToSet(SubSeq(Logical, a + 1, b)) : row.seq > At(Logical, s)}))
          = SubSeq(Logical, s + 1, d)
    BY <2>1, RowsAfter
  <2>3. page = SubSeq(Logical, s + 1, d)
    BY <1>1, <1>6, <2>2
  <2>4. PICK i \in 1 .. Len(Logical) + 1 : i = s + 1 /\ d \in i - 1 .. Len(Logical)
    BY <1>2, <1>7
  <2>5. /\ SubSeq(Logical, i, d) \in Seq(Row) /\ Len(SubSeq(Logical, i, d)) = d - i + 1
        /\ \A k \in 1 .. d - i + 1 : SubSeq(Logical, i, d)[k] = Logical[i + k - 1]
    BY <1>2, <2>4, Slice
  <2>6. PICK p \in Seq(Row) : /\ p = page /\ Len(p) = d - i + 1
                              /\ \A k \in 1 .. d - i + 1 : p[k] = Logical[i + k - 1]
    BY <2>3, <2>4, <2>5
  <2>7. d - i + 1 = d - s
    BY <1>2, <2>4
  <2>8. ASSUME s # d PROVE p[Len(p)] = Logical[d]
    <3>1. PICK k \in 1 .. d - i + 1 : k = d - i + 1 /\ i + k - 1 = d
      BY <1>2, <1>7, <2>4, <2>8
    <3> QED
      BY <2>6, <3>1
  <2> QED
    BY <2>3, <2>6, <2>7, <2>8
<1>9. w.seen = SubSeq(Logical, 1, d)
  <2>1. /\ 1 \in 1 .. Len(Logical) + 1 /\ s \in 1 - 1 .. Len(Logical)
        /\ d \in s .. Len(Logical)
    BY <1>2, <1>7
  <2>2. SubSeq(Logical, 1, s) \o SubSeq(Logical, s + 1, d) = SubSeq(Logical, 1, d)
    BY <1>2, <2>1, ConcatAdjacentSubSeq
  <2> QED
    BY <1>1, <1>8, <2>2
<1>10. page = <<>> <=> s = d
  <2>1. p = <<>> <=> Len(p) = 0
    OBVIOUS
  <2> QED
    BY <1>2, <1>7, <1>8, <2>1
<1>11. w.cursor = At(Logical, d)
  <2>1. CASE s = d
    BY <1>1, <1>10, <2>1
  <2>2. CASE s # d
    <3>1. Last(page) = Logical[d]
      BY <1>8, <2>2 DEF Last
    <3>2. d # 0
      BY <1>2, <1>7, <2>2
    <3> QED
      BY <1>10, <2>2, <3>1, <3>2 DEF At
  <2> QED
    BY <2>1, <2>2
<1>12. CASE page # <<>> /\ (Len(page) = HistoryLimit \/ Len(r.listed) = PageLimit)
  <2>1. w.place = "between"
    BY <1>12
  <2> QED
    BY <1>1, <1>9, <1>11, <2>1 DEF Progress
<1>13. CASE ~(page # <<>> /\ (Len(page) = HistoryLimit \/ Len(r.listed) = PageLimit))
  <2>1. w.place = "done" /\ w.mode # "sampled"
    BY <1>13
  <2>2. Len(page) = d - s
    BY <1>8
  <2>3. d = b
    <3>1. CASE s = d
      BY <1>2, <1>5, <1>7, <3>1
    <3>2. CASE s # d
      BY <1>2, <1>5, <1>7, <1>10, <1>13, <2>2, <3>2
    <3> QED
      BY <3>1, <3>2
  <2>4. x <= b
    <3>1. CASE s = d
      <4>1. ~(m <= n)
        BY <1>2, <1>4, <1>5, <2>3, <3>1
      <4>2. n - m + 1 # PageLimit
        BY <1>2, <4>1
      <4> QED
        BY <1>4, <1>5, <4>2
    <3>2. CASE s # d
      BY <1>4, <1>5, <1>6, <1>10, <1>13, <3>2
    <3> QED
      BY <3>1, <3>2
  <2> QED
    BY <1>1, <1>9, <2>1, <2>3, <2>4 DEF Progress
<1> QED
  BY <1>12, <1>13

(* A batch registered meanwhile is not in the way.                         *)
LEMMA ProgressKept ==
  ASSUME NEW S, NEW a \in Seq(S), NEW p \in S, NEW L \in Seq(Row), NEW y \in Seq(Row),
         NEW r, Progress(r, L, a)
  PROVE  Progress(r, L \o y, Append(a, p))
<1>1. PICK K \in Seq(Row), b \in Seq(S) :
        /\ K = L \o y /\ Len(K) = Len(L) + Len(y)
        /\ b = Append(a, p) /\ Len(b) = Len(a) + 1
  <2>1. L \o y \in Seq(Row) /\ Append(a, p) \in Seq(S) /\ Len(Append(a, p)) = Len(a) + 1
    BY AppendProperties
  <2>2. Len(L \o y) = Len(L) + Len(y)
    OBVIOUS
  <2> QED
    BY <2>1, <2>2
<1>2. Len(L) \in Nat /\ Len(y) \in Nat /\ Len(a) \in Nat
  OBVIOUS
<1>3. ASSUME NEW i \in 0 .. Len(L)
      PROVE  i \in 0 .. Len(K) /\ SubSeq(K, 1, i) = SubSeq(L, 1, i) /\ At(K, i) = At(L, i)
  <2>1. i \in 0 .. Len(K) /\ 1 \in 1 .. Len(L) + 1 /\ i \in 1 - 1 .. Len(L)
    BY <1>1, <1>2
  <2>2. SubSeq(L \o y, 1, i) = SubSeq(L, 1, i)
    BY <2>1, SliceOfConcat
  <2>3. i # 0 => (L \o y)[i] = L[i]
    BY <1>2
  <2> QED
    BY <1>1, <2>1, <2>2, <2>3 DEF At
<1>4. ASSUME NEW m \in 1 .. Len(a) + 1, NEW n \in m - 1 .. Len(a)
      PROVE  /\ m \in 1 .. Len(b) + 1 /\ n \in m - 1 .. Len(b)
             /\ SubSeq(b, m, n) = SubSeq(a, m, n)
  <2>1. Append(a, p) = a \o <<p>> /\ <<p>> \in Seq(S)
    OBVIOUS
  <2>2. SubSeq(a \o <<p>>, m, n) = SubSeq(a, m, n)
    BY <2>1, SliceOfConcat
  <2>3. m \in 1 .. Len(b) + 1 /\ n \in m - 1 .. Len(b)
    BY <1>1, <1>2
  <2> QED
    BY <1>1, <2>1, <2>2, <2>3
<1>5. ASSUME NEW k \in 0 .. Len(a) PROVE k \in 0 .. Len(b) /\ End(b, k) = End(a, k)
  <2>1. 1 \in 1 .. Len(a) + 1 /\ k \in 1 - 1 .. Len(a) /\ k \in 0 .. Len(b)
    BY <1>1, <1>2
  <2> QED
    BY <1>4, <2>1 DEF End
<1>6. PICK s \in 0 .. Len(L), x \in 0 .. Len(L) :
        /\ r.seen = SubSeq(L, 1, s) /\ r.extent = At(L, x)
        /\ r.place # "done" => r.cursor = At(L, s)
        /\ r.place = "idle" => s = 0
        /\ r.place = "between" => r.mode = "paged"
        /\ r.place \in {"listing", "reading"} /\ r.mode = "sampled" =>
             s <= x /\ \E k \in 0 .. Len(a) : End(a, k) = s
        /\ r.place = "reading" => Fetched(r, s, x, a)
        /\ r.place = "done" => x <= s /\ (r.mode = "sampled" => s = x)
  BY DEF Progress
<1>7. Fetched(r, s, x, a) => Fetched(r, s, x, b)
  <2> SUFFICES ASSUME Fetched(r, s, x, a) PROVE Fetched(r, s, x, b)
    OBVIOUS
  <2>1. PICK m \in 1 .. Len(a) + 1 : \E n \in m - 1 .. Len(a) :
          /\ r.listed = SubSeq(a, m, n)
          /\ End(a, m - 1) <= s /\ s <= End(a, n) /\ (m <= n => s < End(a, n))
          /\ r.mode = "sampled" => End(a, m - 1) = s
          /\ n - m + 1 = PageLimit \/ x <= End(a, n)
    BY DEF Fetched
  <2>2. PICK n \in m - 1 .. Len(a) :
          /\ r.listed = SubSeq(a, m, n)
          /\ End(a, m - 1) <= s /\ s <= End(a, n) /\ (m <= n => s < End(a, n))
          /\ r.mode = "sampled" => End(a, m - 1) = s
          /\ n - m + 1 = PageLimit \/ x <= End(a, n)
    BY <2>1
  <2>3. m - 1 \in 0 .. Len(a) /\ n \in 0 .. Len(a)
    BY <1>2
  <2>4. End(b, m - 1) = End(a, m - 1) /\ End(b, n) = End(a, n)
    BY <1>5, <2>3
  <2>5. m \in 1 .. Len(b) + 1 /\ n \in m - 1 .. Len(b) /\ SubSeq(b, m, n) = SubSeq(a, m, n)
    BY <1>4
  <2> QED
    BY <2>2, <2>4, <2>5, Zenon DEF Fetched
<1>8. (\E k \in 0 .. Len(a) : End(a, k) = s) => \E k \in 0 .. Len(b) : End(b, k) = s
  BY <1>5
<1>9. Progress(r, K, b)
  <2>1. /\ s \in 0 .. Len(K) /\ x \in 0 .. Len(K)
        /\ SubSeq(K, 1, s) = SubSeq(L, 1, s) /\ At(K, s) = At(L, s) /\ At(K, x) = At(L, x)
    BY <1>3
  <2> QED
    BY <1>6, <1>7, <1>8, <2>1, Zenon DEF Progress
<1> QED
  BY <1>1, <1>9

(* The inductive invariant of the queries.                                 *)
QueriesInv ==
  /\ QueriesTyped /\ GuardIsHeld
  /\ \A q \in Readers : Progress(query[q], Logical, active)

(* No query has begun when the server starts.                              *)
LEMMA QueriesInit == Init => QueriesInv
<1> SUFFICES ASSUME Init PROVE QueriesInv
  OBVIOUS
<1>1. query = [q \in Readers |-> NoQuery] /\ worker = "idle" /\ exclusive = FALSE
  BY DEF Init
<1>2. QueriesTyped
  BY <1>1 DEF QueriesTyped, IsQuery, NoQuery
<1>3. GuardIsHeld
  BY <1>1 DEF GuardIsHeld
<1>4. Logical \in Seq(Row)
  BY StoreInit, EndsInOrder DEF StoreInv, TablesTyped, Logical
<1>5. ASSUME NEW q \in Readers PROVE Progress(query[q], Logical, active)
  BY <1>1, <1>4, NothingRead
<1> QED
  BY <1>2, <1>3, <1>5 DEF QueriesInv

(* What changed the query of one reader kept the rest.                     *)
LEMMA OneQuery ==
  ASSUME QueriesInv, NEW q \in Readers, NEW w, Becomes(q, w), IsQuery(w),
         UNCHANGED <<catalog, files, ingest, compaction, crashes>>,
         Progress(w, Logical, active)
  PROVE  QueriesTyped' /\ \A p \in Readers : Progress(query[p], Logical, active)'
<1>1. /\ query' = [p \in Readers |-> query'[p]] /\ query'[q] = w
      /\ \A p \in Readers : p # q => query'[p] = query[p]
  BY DEF Becomes
<1>2. active' = active /\ Logical' = Logical
  BY DEF catalog, Logical
<1>3. ASSUME NEW p \in Readers PROVE IsQuery(query'[p]) /\ Progress(query'[p], Logical, active)
  BY <1>1 DEF QueriesInv, QueriesTyped
<1>4. QueriesTyped'
  BY <1>1, <1>3 DEF QueriesTyped, IsQuery
<1>5. ASSUME NEW p \in Readers PROVE Progress(query[p], Logical, active)'
  <2>1. Progress(query'[p], Logical', active')
    BY <1>2, <1>3
  <2> QED
    BY <2>1
<1> QED
  BY <1>4, <1>5

(* Every step of a query keeps it where it should be in the history.       *)
LEMMA QueriesStep ==
  ASSUME StoreInv, QueriesInv, NEW q \in Readers, OpenQuery(q) \/ QueryStep(q)
  PROVE  QueriesTyped' /\ \A p \in Readers : Progress(query[p], Logical, active)'
<1>1. /\ UNCHANGED <<catalog, files, ingest, compaction, crashes>>
      /\ IsList(active) /\ Increasing(Logical) /\ Progress(query[q], Logical, active)
      /\ QueriesTyped /\ IsQuery(query[q])
  BY QueryFrame DEF StoreInv, TablesTyped, HistoryInOrder, QueriesInv, QueriesTyped
<1>2. CASE OpenQuery(q)
  <2>1. PICK mode \in {"sampled", "paged"} :
          /\ query[q].place \in {"idle", "between"}
          /\ query[q].place = "between" => mode = "paged"
          /\ Becomes(q, [place |-> "listing", mode |-> mode, extent |-> MaxSequence,
                         cursor |-> query[q].cursor, listed |-> query[q].listed,
                         seen |-> query[q].seen])
    BY <1>1, <1>2, OpenEffect
  <2>2. PICK w : w = [place |-> "listing", mode |-> mode, extent |-> MaxSequence,
                      cursor |-> query[q].cursor, listed |-> query[q].listed,
                      seen |-> query[q].seen]
    OBVIOUS
  <2>3. IsQuery(w)
    BY <2>2 DEF IsQuery
  <2>4. Progress(w, Logical, active)
    BY <1>1, <2>1, <2>2, OpenKeeps
  <2> QED
    BY <1>1, <2>1, <2>2, <2>3, <2>4, OneQuery
<1>3. CASE ListSegments(q)
  <2>1. PICK page : page = AtMost(PageLimit, Only(active,
                             {p \in Active : LastSequence(p) > query[q].cursor}))
    OBVIOUS
  <2>2. PICK w : w = [place |-> "reading", mode |-> query[q].mode, extent |-> query[q].extent,
                      cursor |-> query[q].cursor, listed |-> page, seen |-> query[q].seen]
    OBVIOUS
  <2>3. query[q].place = "listing" /\ Becomes(q, w)
    BY <1>1, <1>3, <2>1, <2>2, ListEffect
  <2>4. IsQuery(w)
    BY <1>1, <2>2 DEF IsQuery
  <2>5. Progress(w, Logical, active)
    BY <1>1, <2>1, <2>2, <2>3, ListKeeps
  <2> QED
    BY <1>1, <2>3, <2>4, <2>5, OneQuery
<1>4. CASE ReadSampled(q)
  <2>1. PICK r : r = query[q]
    OBVIOUS
  <2>2. PICK rows : rows = Only(RowsOf(r.listed),
                                {row \in ToSet(RowsOf(r.listed)) : row.seq <= r.extent})
    OBVIOUS
  <2>3. PICK last : last = IF r.listed = <<>> THEN r.cursor ELSE LastSequence(Last(r.listed))
    OBVIOUS
  <2>4. PICK w : w = [place |-> IF Len(r.listed) = PageLimit /\ last < r.extent
                                  THEN "listing" ELSE "done",
                      mode |-> r.mode, extent |-> r.extent, cursor |-> last,
                      listed |-> r.listed, seen |-> r.seen \o rows]
    OBVIOUS
  <2>5. r.place = "reading" /\ r.mode = "sampled" /\ Becomes(q, w)
    BY <1>1, <1>4, <2>1, <2>2, <2>3, <2>4, SampleEffect, Zenon
  <2>6. IsQuery(w)
    BY <2>4, <2>5 DEF IsQuery
  <2>7. /\ w.place = (IF Len(r.listed) = PageLimit /\ last < r.extent
                        THEN "listing" ELSE "done")
        /\ w.mode = r.mode /\ w.extent = r.extent /\ w.cursor = last
        /\ w.seen = r.seen \o rows
    BY <2>4
  <2>8. Progress(w, Logical, active)
    BY <1>1, <2>1, <2>2, <2>3, <2>5, <2>7, SampleKeeps
  <2> QED
    BY <1>1, <2>5, <2>6, <2>8, OneQuery
<1>5. CASE ReadPage(q)
  <2>1. PICK r : r = query[q]
    OBVIOUS
  <2>2. PICK page : page = AtMost(HistoryLimit, Only(RowsOf(r.listed),
                              {row \in ToSet(RowsOf(r.listed)) : row.seq > r.cursor}))
    OBVIOUS
  <2>3. PICK w : w = [place |-> IF page # <<>> /\ (Len(page) = HistoryLimit
                                                    \/ Len(r.listed) = PageLimit)
                                  THEN "between" ELSE "done",
                      mode |-> r.mode, extent |-> r.extent,
                      cursor |-> IF page = <<>> THEN r.cursor ELSE Last(page).seq,
                      listed |-> r.listed, seen |-> r.seen \o page]
    OBVIOUS
  <2>4. r.place = "reading" /\ r.mode = "paged" /\ Becomes(q, w)
    BY <1>1, <1>5, <2>1, <2>2, <2>3, PageEffect, Zenon
  <2>5. IsQuery(w)
    BY <2>3, <2>4 DEF IsQuery
  <2>6. /\ w.place = (IF page # <<>> /\ (Len(page) = HistoryLimit
                                          \/ Len(r.listed) = PageLimit)
                        THEN "between" ELSE "done")
        /\ w.mode = r.mode /\ w.extent = r.extent /\ w.seen = r.seen \o page
        /\ w.cursor = IF page = <<>> THEN r.cursor ELSE Last(page).seq
    BY <2>3
  <2>7. Progress(w, Logical, active)
    BY <1>1, <2>1, <2>2, <2>4, <2>6, PageKeeps
  <2> QED
    BY <1>1, <2>4, <2>5, <2>7, OneQuery
<1>6. CASE CloseQuery(q)
  <2>1. Becomes(q, NoQuery)
    BY <1>1, <1>6, CloseEffect
  <2>2. IsQuery(NoQuery)
    BY DEF IsQuery, NoQuery
  <2>3. Progress(NoQuery, Logical, active)
    BY <1>1, EndsInOrder, NothingRead DEF Logical
  <2> QED
    BY <1>1, <2>1, <2>2, <2>3, OneQuery
<1> QED
  BY <1>2, <1>3, <1>4, <1>5, <1>6 DEF QueryStep

(* Without the guard, a query does not depend on the files as they are.    *)
LEMMA SwappedUnnoticed ==
  ASSUME NEW r, NEW L, NEW a, NEW b, Progress(r, L, a), r.place \notin {"listing", "reading"}
  PROVE  Progress(r, L, b)
  BY DEF Progress

(* Every step keeps the invariant of the queries.                          *)
LEMMA QueriesNext ==
  ASSUME StoreInv, QueriesInv, [Next]_vars
  PROVE  QueriesInv'
<1>1. GuardIsHeld'
  BY GuardNext DEF QueriesInv
<1>2. ASSUME NEW q \in Readers, OpenQuery(q) \/ QueryStep(q)
      PROVE  QueriesTyped' /\ \A p \in Readers : Progress(query[p], Logical, active)'
  BY <1>2, QueriesStep
<1>3. ASSUME Restart
      PROVE  QueriesTyped' /\ \A p \in Readers : Progress(query[p], Logical, active)'
  <2>1. query' = [q \in Readers |-> NoQuery] /\ Logical' = Logical /\ active' = active
    BY <1>3 DEF Restart, catalog, Logical
  <2>2. QueriesTyped'
    BY <2>1 DEF QueriesTyped, IsQuery, NoQuery
  <2>3. Logical \in Seq(Row)
    BY EndsInOrder DEF StoreInv, TablesTyped, Logical
  <2>4. ASSUME NEW q \in Readers PROVE Progress(query[q], Logical, active)'
    <3>1. Progress(NoQuery, Logical', active')
      BY <2>1, <2>3, NothingRead
    <3> QED
      BY <2>1, <3>1
  <2> QED
    BY <2>2, <2>4
<1>4. ASSUME UNCHANGED query
      PROVE  QueriesTyped' /\ \A q \in Readers : Progress(query[q], Logical, active)'
  <2>1. QueriesTyped'
    BY <1>4 DEF QueriesInv, QueriesTyped
  <2> SUFFICES ASSUME NEW q \in Readers PROVE Progress(query[q], Logical', active')
    BY <1>4, <2>1
  <2>2. Progress(query[q], Logical, active)
    BY DEF QueriesInv
  <2>3. ASSUME NEW t \in Tasks, RegisterBatch(t) PROVE Progress(query[q], Logical', active')
    <3>1. request[t] \notin batches
      BY <2>3 DEF RegisterBatch, StoreInv, BatchesAreKnown
    <3>2. /\ active' = Append(active, BatchPath(request[t])) /\ request[t] \in Requests
          /\ Logical' = Logical \o request[t]
      BY <2>3, <3>1, RegisterExtends DEF StoreInv
    <3>3. PICK y \in Seq(Row) : y = request[t]
      BY <3>2, RowsOfRequests
    <3>4. Logical \in Seq(Row)
      BY EndsInOrder DEF StoreInv, TablesTyped, Logical
    <3>5. PICK p : p = BatchPath(request[t])
      OBVIOUS
    <3>6. active \in Seq(Active \union {p}) /\ p \in Active \union {p}
      <4>1. active \in Seq(Active)
        BY DEF StoreInv, TablesTyped, IsList, Active
      <4> QED
        BY <4>1
    <3>7. Progress(query[q], Logical \o y, Append(active, p))
      BY <2>2, <3>4, <3>6, ProgressKept
    <3> QED
      BY <3>2, <3>3, <3>5, <3>7
  <2>4. CASE ReplaceSources
    <3>1. Logical' = Logical
      BY <2>4, SwapReplaces DEF StoreInv
    <3>2. query[q].place \notin {"listing", "reading"}
      BY <2>4 DEF ReplaceSources, QueriesInv, GuardIsHeld, GuardIsFree
    <3> QED
      BY <2>2, <3>1, <3>2, SwappedUnnoticed
  <2>5. CASE active' = active
    BY <2>2, <2>5 DEF Logical
  <2> QED
    BY <2>3, <2>4, <2>5, TablesFrame DEF AcknowledgeRetired
<1>5. \/ UNCHANGED query \/ Restart
      \/ \E q \in Readers : OpenQuery(q) \/ QueryStep(q)
  BY RunFrame, IngestFrame, WorkerFrame DEF Next, vars
<1> QED
  BY <1>1, <1>2, <1>3, <1>4, <1>5 DEF QueriesInv

(* A query has seen the first rows of the history and nothing else: ADR    *)
(* 0002's guard, which the worker holds while it swaps or removes, keeps   *)
(* the segments it has listed the active ones, and a batch registered      *)
(* meanwhile comes after its extent.                                       *)
THEOREM QueriesInvariance == Spec => []QueriesInv
<1>1. Init => QueriesInv
  BY QueriesInit
<1>2. StoreInv /\ QueriesInv /\ [Next]_vars => QueriesInv'
  BY QueriesNext
<1> QED
  BY <1>1, <1>2, StoreInvariance, PTL DEF Spec

(* The types, which both invariants contain.                               *)
THEOREM TypeCorrectness == Spec => []TypeOK
<1>1. StoreInv /\ QueriesInv => TypeOK
  <2> SUFFICES ASSUME StoreInv, QueriesInv PROVE TypeOK
    OBVIOUS
  <2>1. \A p \in Registered \union files : p.rows # <<>>
    BY DEF StoreInv, TablesTyped, IsList, Segments, Registered, Active
  <2> QED
    BY <2>1 DEF StoreInv, TablesTyped, TasksTyped, WorkerTyped, Places, Stages,
                QueriesInv, QueriesTyped, IsQuery, TypeOK
<1> QED
  BY <1>1, StoreInvariance, QueriesInvariance, PTL

(* ADR 0002: no query, and no merge, meets a file that has been removed.   *)
THEOREM ReadersMeetTheirFiles == Spec => []ReadersFindFiles
<1>1. StoreInv /\ QueriesInv => ReadersFindFiles
  <2> SUFFICES ASSUME StoreInv, QueriesInv PROVE ReadersFindFiles
    OBVIOUS
  <2>1. ASSUME NEW q \in Readers, query[q].place = "reading"
        PROVE  ToSet(query[q].listed) \subseteq files
    <3>1. PICK s, x : Fetched(query[q], s, x, active)
      BY <2>1 DEF QueriesInv, Progress
    <3>2a. PICK m \in 1 .. Len(active) + 1 : \E n \in m - 1 .. Len(active) :
             query[q].listed = SubSeq(active, m, n)
      BY <3>1 DEF Fetched
    <3>2. PICK n \in m - 1 .. Len(active) : query[q].listed = SubSeq(active, m, n)
      BY <3>2a
    <3>3. active \in Seq(Active) /\ Len(active) \in Nat
      BY DEF StoreInv, TablesTyped, IsList, Active
    <3>4. ToSet(query[q].listed) = {active[k] : k \in m .. n}
      BY <3>2, <3>3, ListSlice
    <3>5. \A k \in m .. n : active[k] \in Active
      BY <3>3
    <3> QED
      BY <3>4, <3>5 DEF StoreInv, ActiveHaveFiles
  <2>2. ASSUME worker = "building" PROVE ToSet(sources) \subseteq files
    BY <2>2, SourcesTyped DEF StoreInv, Merging, ActiveHaveFiles
  <2> QED
    BY <2>1, <2>2 DEF ReadersFindFiles
<1> QED
  BY <1>1, StoreInvariance, QueriesInvariance, PTL

(* ADR 0002, ADR 0014: a query that lists its segments page by page, with  *)
(* merges, removals and batches between the pages, has seen each row of    *)
(* the history once and in order; when it is done it has them all up to    *)
(* its extent, and a sampled one no more.                                  *)
THEOREM QueriesAreExact == Spec => []ReadsAreExact
<1>1. StoreInv /\ QueriesInv => ReadsAreExact
  <2> SUFFICES ASSUME StoreInv, QueriesInv, NEW q \in Readers
      PROVE  LET seen == query[q].seen
                 end == IF seen = <<>> THEN -1 ELSE Last(seen).seq
             IN /\ IsPrefix(seen, Logical)
                /\ query[q].place = "done" =>
                     /\ end >= query[q].extent
                     /\ query[q].mode = "sampled" => end = query[q].extent
    BY DEF ReadsAreExact
  <2>1. PICK s \in 0 .. Len(Logical), x \in 0 .. Len(Logical) :
          /\ query[q].seen = SubSeq(Logical, 1, s) /\ query[q].extent = At(Logical, x)
          /\ query[q].place = "done" => x <= s /\ (query[q].mode = "sampled" => s = x)
    BY DEF QueriesInv, Progress
  <2>2. Logical \in Seq(Row) /\ Increasing(Logical) /\ Len(Logical) \in Nat
    BY EndsInOrder DEF StoreInv, TablesTyped, HistoryInOrder, Logical
  <2>3. PICK t \in Seq(Row) : /\ t = query[q].seen /\ Len(t) = s
                              /\ \A k \in 1 .. s : t[k] = Logical[k]
    <3>1. 1 \in 1 .. Len(Logical) + 1 /\ s \in 1 - 1 .. Len(Logical)
      BY <2>2
    <3>2. /\ SubSeq(Logical, 1, s) \in Seq(Row) /\ Len(SubSeq(Logical, 1, s)) = s - 1 + 1
          /\ \A k \in 1 .. s - 1 + 1 : SubSeq(Logical, 1, s)[k] = Logical[1 + k - 1]
      BY <2>2, <3>1, Slice
    <3>3. s - 1 + 1 = s /\ \A k \in 1 .. s : 1 + k - 1 = k
      BY <2>2
    <3> QED
      BY <2>1, <3>2, <3>3
  <2>4. IsPrefix(t, Logical)
    <3>1. SubSeq(t, 1, Len(t)) = t
      BY <2>3, SubSeqFull
    <3> QED
      BY <2>1, <2>2, <2>3, <3>1 DEF IsPrefix
  <2>5. (IF t = <<>> THEN -1 ELSE Last(t).seq) = At(Logical, s)
    <3>1. t = <<>> <=> s = 0
      BY <2>3
    <3>2. s # 0 => Last(t) = Logical[s]
      BY <2>2, <2>3 DEF Last
    <3> QED
      BY <3>1, <3>2 DEF At
  <2>6. /\ At(Logical, x) <= At(Logical, s) <=> x <= s
        /\ At(Logical, x) \in Int /\ At(Logical, s) \in Int
    BY <2>2, AtInOrder
  <2>7. query[q].place = "done" =>
          /\ At(Logical, s) >= query[q].extent
          /\ query[q].mode = "sampled" => At(Logical, s) = query[q].extent
    BY <2>1, <2>6
  <2> QED
    BY <2>3, <2>4, <2>5, <2>7
<1> QED
  BY <1>1, StoreInvariance, QueriesInvariance, PTL
=============================================================================
