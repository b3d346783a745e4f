--------------------------- MODULE SequenceLemmas ---------------------------
(***************************************************************************)
(* Facts about sequences that the proofs about stored segments rest on:    *)
(* what Only selects and what FlattenSeq concatenates.  Both are recursive *)
(* functions; that they are what their equations say, and what follows by  *)
(* induction, comes from the well-foundedness of the natural numbers, with *)
(* sets of numbers in place of predicates.                                 *)
(***************************************************************************)
EXTENDS Selection, SequencesExt, SequenceTheorems, WellFoundedInduction, TLAPS

(* Every non-empty set of natural numbers has a least element.             *)
LEMMA LeastElement ==
  ASSUME NEW T \in SUBSET Nat, T # {}
  PROVE  \E x \in T : \A y \in T : x <= y
<1> DEFINE R == {ss \in Nat \X Nat : ss[1] < ss[2]}
<1>1. IsWellFoundedOn(R, Nat)
  BY NatLessThanWellFounded DEF OpToRel
<1>2. PICK x \in T : \A y \in T : ~ (<<y, x>> \in R)
  BY <1>1, WFMin
<1>3. ASSUME NEW y \in T PROVE ~(y < x)
  <2>1. <<y, x>> \in Nat \X Nat
    OBVIOUS
  <2> QED
    BY <1>2, <2>1
<1> QED
  BY <1>3

(* Induction, for a set of numbers.                                        *)
LEMMA Induction ==
  ASSUME NEW T \in SUBSET Nat, 0 \in T, \A n \in T : n + 1 \in T
  PROVE  T = Nat
<1> SUFFICES ASSUME T # Nat PROVE FALSE
  OBVIOUS
<1>1. PICK x \in Nat \ T : \A y \in Nat \ T : x <= y
  BY LeastElement
<1>2. x # 0 /\ x - 1 \in Nat
  BY <1>1
<1>3. x - 1 \in T
  BY <1>1, <1>2
<1> QED
  BY <1>1, <1>3

(* A function may be defined by recursion over 0 .. m.                     *)
Steps(m, V) == [(1 .. m) \X V -> V]

Recursive(m, V, v, h) ==
  {f \in [0 .. m -> V] : f[0] = v /\ \A i \in 1 .. m : f[i] = h[<<i, f[i - 1]>>]}

(* There is such a function, whatever the first value and the step.        *)
LEMMA Recursion ==
  ASSUME NEW m \in Nat, NEW V, NEW v \in V, NEW h \in Steps(m, V)
  PROVE  Recursive(m, V, v, h) # {}
<1> USE DEF Steps, Recursive
<1> DEFINE T == {n \in Nat : n <= m =>
                   \E f \in [0 .. n -> V] :
                     f[0] = v /\ \A i \in 1 .. n : f[i] = h[<<i, f[i - 1]>>]}
<1>1. 0 \in T
  <2> DEFINE g == [i \in 0 .. 0 |-> v]
  <2>1. g \in [0 .. 0 -> V] /\ g[0] = v /\ 1 .. 0 = {}
    OBVIOUS
  <2>2. \E f \in [0 .. 0 -> V] : f[0] = v /\ \A i \in 1 .. 0 : f[i] = h[<<i, f[i - 1]>>]
    BY <2>1
  <2> QED
    BY <2>2
<1>2. ASSUME NEW n \in T PROVE n + 1 \in T
  <2> SUFFICES ASSUME n + 1 <= m
      PROVE  \E f \in [0 .. n + 1 -> V] :
               f[0] = v /\ \A i \in 1 .. n + 1 : f[i] = h[<<i, f[i - 1]>>]
    OBVIOUS
  <2>1. PICK f \in [0 .. n -> V] : f[0] = v /\ \A i \in 1 .. n : f[i] = h[<<i, f[i - 1]>>]
    OBVIOUS
  <2> DEFINE g == [i \in 0 .. n + 1 |-> IF i = n + 1 THEN h[<<n + 1, f[n]>>] ELSE f[i]]
  <2>2. f[n] \in V /\ <<n + 1, f[n]>> \in (1 .. m) \X V
    OBVIOUS
  <2>3. g \in [0 .. n + 1 -> V]
    BY <2>2
  <2>4. g[0] = v
    BY <2>1
  <2>5. ASSUME NEW i \in 1 .. n + 1 PROVE g[i] = h[<<i, g[i - 1]>>]
    <3>1. i - 1 \in 0 .. n /\ i - 1 # n + 1 /\ i - 1 \in 0 .. n + 1 /\ g[i - 1] = f[i - 1]
      OBVIOUS
    <3>2. CASE i = n + 1
      BY <3>1, <3>2
    <3>3. CASE i # n + 1
      <4>1. i \in 1 .. n /\ g[i] = f[i]
        BY <3>3
      <4> QED
        BY <2>1, <3>1, <4>1
    <3> QED
      BY <3>2, <3>3
  <2> HIDE DEF g
  <2> QED
    BY <2>3, <2>4, <2>5
<1>3. T = Nat
  BY <1>1, <1>2, Induction
<1>4. m \in T
  BY <1>3
<1> QED
  BY <1>4
-----------------------------------------------------------------------------
(* Only is what its equations say.                                         *)
LEMMA OnlyDefined ==
  ASSUME NEW S, NEW s \in Seq(S), NEW chosen
  PROVE  \E only \in [0 .. Len(s) -> Seq(S)] :
           /\ Only(s, chosen) = only[Len(s)] /\ only[0] = <<>>
           /\ \A i \in 1 .. Len(s) :
                only[i] = IF s[i] \in chosen THEN Append(only[i - 1], s[i]) ELSE only[i - 1]
<1> DEFINE IsOnly(f) ==
      f = [i \in 0 .. Len(s) |->
             IF i = 0 THEN <<>>
             ELSE IF s[i] \in chosen THEN Append(f[i - 1], s[i]) ELSE f[i - 1]]
<1> DEFINE h == [x \in (1 .. Len(s)) \X Seq(S) |->
                   IF s[x[1]] \in chosen THEN Append(x[2], s[x[1]]) ELSE x[2]]
<1>1. h \in [(1 .. Len(s)) \X Seq(S) -> Seq(S)] /\ <<>> \in Seq(S) /\ Len(s) \in Nat
  OBVIOUS
<1>2. PICK f \in [0 .. Len(s) -> Seq(S)] :
        f[0] = <<>> /\ \A i \in 1 .. Len(s) : f[i] = h[<<i, f[i - 1]>>]
  <2>1. h \in Steps(Len(s), Seq(S))
    BY <1>1 DEF Steps
  <2> HIDE DEF h
  <2>2. Recursive(Len(s), Seq(S), <<>>, h) # {}
    BY <1>1, <2>1, Recursion
  <2> QED
    BY <2>2 DEF Recursive
<1>3. ASSUME NEW i \in 1 .. Len(s)
      PROVE  f[i] = IF s[i] \in chosen THEN Append(f[i - 1], s[i]) ELSE f[i - 1]
  <2>1. <<i, f[i - 1]>> \in (1 .. Len(s)) \X Seq(S)
    BY <1>1
  <2> QED
    BY <1>2, <2>1
<1>4. IsOnly(f)
  <2>1. ASSUME NEW i \in 0 .. Len(s)
        PROVE  f[i] = IF i = 0 THEN <<>>
                      ELSE IF s[i] \in chosen THEN Append(f[i - 1], s[i]) ELSE f[i - 1]
    <3>1. CASE i = 0
      BY <1>2, <3>1
    <3>2. CASE i # 0
      <4>1. i \in 1 .. Len(s)
        BY <1>1, <3>2
      <4> QED
        BY <1>3, <3>2, <4>1
    <3> QED
      BY <3>1, <3>2
  <2> QED
    BY <2>1
<1>5. IsOnly(CHOOSE only : IsOnly(only))
  <2> HIDE DEF IsOnly
  <2> QED
    BY <1>4, Zenon
<1> DEFINE only == CHOOSE only : IsOnly(only)
<1>6. Only(s, chosen) = only[Len(s)]
  BY DEF Only
<1>7. ASSUME NEW i \in 0 .. Len(s)
      PROVE  only[i] = IF i = 0 THEN <<>>
                       ELSE IF s[i] \in chosen THEN Append(only[i - 1], s[i]) ELSE only[i - 1]
  BY <1>5
<1> HIDE DEF only
<1>8. only[0] = <<>>
  BY <1>1, <1>7
<1>9. ASSUME NEW i \in 1 .. Len(s)
      PROVE  only[i] = IF s[i] \in chosen THEN Append(only[i - 1], s[i]) ELSE only[i - 1]
  <2>1. i \in 0 .. Len(s) /\ i # 0
    BY <1>1
  <2> QED
    BY <1>7, <2>1
<1>10. only \in [0 .. Len(s) -> Seq(S)]
  <2> DEFINE T == {i \in Nat : i <= Len(s) => only[i] \in Seq(S)}
  <2>1. 0 \in T
    BY <1>1, <1>8
  <2>2. ASSUME NEW i \in T PROVE i + 1 \in T
    <3> SUFFICES ASSUME i + 1 <= Len(s) PROVE only[i + 1] \in Seq(S)
      OBVIOUS
    <3>1. only[i] \in Seq(S) /\ i + 1 \in 1 .. Len(s) /\ (i + 1) - 1 = i
          /\ s[i + 1] \in S
      BY <1>1
    <3>2. Append(only[i], s[i + 1]) \in Seq(S)
      BY <3>1, AppendProperties
    <3>3. only[i + 1] \in {Append(only[i], s[i + 1]), only[i]}
      BY <1>9, <3>1
    <3> QED
      BY <3>1, <3>2, <3>3
  <2>3. T = Nat
    <3> HIDE DEF T
    <3> QED
      BY <2>1, <2>2, Induction DEF T
  <2>4. only = [i \in 0 .. Len(s) |-> only[i]]
    BY <1>5 DEF only
  <2>5. ASSUME NEW i \in 0 .. Len(s) PROVE only[i] \in Seq(S)
    BY <2>3, <1>1
  <2> HIDE DEF T
  <2> QED
    BY <2>4, <2>5
<1> QED
  BY <1>6, <1>8, <1>9, <1>10

(* Appending adds an element.                                              *)
LEMMA AppendElements ==
  ASSUME NEW S, NEW s \in Seq(S), NEW x \in S
  PROVE  ToSet(Append(s, x)) = ToSet(s) \union {x}
<1> DEFINE a == Append(s, x)
<1>1. /\ a \in Seq(S) /\ Len(a) = Len(s) + 1 /\ a[Len(s) + 1] = x
      /\ \A i \in 1 .. Len(s) : a[i] = s[i]
  BY AppendProperties
<1>2. DOMAIN a = 1 .. Len(s) + 1 /\ DOMAIN s = 1 .. Len(s) /\ Len(s) \in Nat
  BY <1>1, LenProperties
<1> HIDE DEF a
<1>3. 1 .. Len(s) + 1 = (1 .. Len(s)) \union {Len(s) + 1}
  BY <1>2
<1>4. {a[i] : i \in 1 .. Len(s) + 1} = {s[i] : i \in 1 .. Len(s)} \union {x}
  BY <1>1, <1>3
<1> QED
  BY <1>2, <1>4 DEF ToSet, a

(* Only selects the chosen elements.                                       *)
LEMMA OnlyElements ==
  ASSUME NEW S, NEW s \in Seq(S), NEW chosen
  PROVE  Only(s, chosen) \in Seq(S) /\ ToSet(Only(s, chosen)) = ToSet(s) \intersect chosen
<1>1. PICK only \in [0 .. Len(s) -> Seq(S)] :
        /\ Only(s, chosen) = only[Len(s)] /\ only[0] = <<>>
        /\ \A i \in 1 .. Len(s) :
             only[i] = IF s[i] \in chosen THEN Append(only[i - 1], s[i]) ELSE only[i - 1]
  BY OnlyDefined
<1> DEFINE T == {n \in Nat : n <= Len(s) =>
                   ToSet(only[n]) = {s[i] : i \in 1 .. n} \intersect chosen}
<1>2. 0 \in T
  BY <1>1 DEF ToSet
<1>3. ASSUME NEW n \in T PROVE n + 1 \in T
  <2> SUFFICES ASSUME n + 1 <= Len(s)
      PROVE  ToSet(only[n + 1]) = {s[i] : i \in 1 .. n + 1} \intersect chosen
    OBVIOUS
  <2>1. /\ only[n] \in Seq(S) /\ s[n + 1] \in S /\ n + 1 \in 1 .. Len(s) /\ n \in Nat
        /\ ToSet(only[n]) = {s[i] : i \in 1 .. n} \intersect chosen
    OBVIOUS
  <2>2. only[n + 1] = IF s[n + 1] \in chosen THEN Append(only[n], s[n + 1]) ELSE only[n]
    BY <1>1, <2>1
  <2>3. {s[i] : i \in 1 .. n + 1} = {s[i] : i \in 1 .. n} \union {s[n + 1]}
    <3>1. 1 .. n + 1 = (1 .. n) \union {n + 1}
      BY <2>1
    <3> QED
      BY <3>1
  <2>4. ToSet(Append(only[n], s[n + 1])) = ToSet(only[n]) \union {s[n + 1]}
    BY <2>1, AppendElements
  <2> QED
    BY <2>1, <2>2, <2>3, <2>4
<1>4. T = Nat
  <2> HIDE DEF T
  <2> QED
    BY <1>2, <1>3, Induction DEF T
<1>5. Len(s) \in Nat /\ DOMAIN s = 1 .. Len(s)
  BY LenProperties
<1>6. Len(s) \in T
  <2> HIDE DEF T
  <2> QED
    BY <1>4, <1>5
<1>7. ToSet(only[Len(s)]) = {s[i] : i \in 1 .. Len(s)} \intersect chosen
  BY <1>5, <1>6
<1>8. ToSet(s) = {s[i] : i \in 1 .. Len(s)} /\ only[Len(s)] \in Seq(S)
  BY <1>5 DEF ToSet
<1> QED
  BY <1>1, <1>7, <1>8

(* What it selects from increasing numbers increases.                      *)
LEMMA OnlyKeepsOrder ==
  ASSUME NEW S \in SUBSET Int, NEW s \in Seq(S), NEW chosen
  PROVE  LET t == Only(s, chosen)
         IN  (\A i, j \in 1 .. Len(s) : i < j => s[i] < s[j]) =>
               \A i, j \in 1 .. Len(t) : i < j => t[i] < t[j]
<1>1. PICK only \in [0 .. Len(s) -> Seq(S)] :
        /\ Only(s, chosen) = only[Len(s)] /\ only[0] = <<>>
        /\ \A i \in 1 .. Len(s) :
             only[i] = IF s[i] \in chosen THEN Append(only[i - 1], s[i]) ELSE only[i - 1]
  BY OnlyDefined
<1> SUFFICES ASSUME \A i, j \in 1 .. Len(s) : i < j => s[i] < s[j]
    PROVE  LET t == only[Len(s)]
           IN  \A i, j \in 1 .. Len(t) : i < j => t[i] < t[j]
  BY <1>1
<1> DEFINE Good(n) ==
      /\ \A i, j \in 1 .. Len(only[n]) : i < j => only[n][i] < only[n][j]
      /\ \A i \in 1 .. Len(only[n]) : \A m \in n + 1 .. Len(s) : only[n][i] < s[m]
<1> DEFINE T == {n \in Nat : n <= Len(s) => Good(n)}
<1>2. 0 \in T
  BY <1>1
<1>3. ASSUME NEW n \in T PROVE n + 1 \in T
  <2> SUFFICES ASSUME n + 1 <= Len(s) PROVE Good(n + 1)
    OBVIOUS
  <2>1. /\ only[n] \in Seq(S) /\ s[n + 1] \in S /\ n + 1 \in 1 .. Len(s) /\ n \in Nat
    OBVIOUS
  <2>5. Good(n)
    OBVIOUS
  <2>2. only[n + 1] = IF s[n + 1] \in chosen THEN Append(only[n], s[n + 1]) ELSE only[n]
    BY <1>1, <2>1
  <2>3. CASE s[n + 1] \in chosen
    <3>1. PICK a \in Seq(S), b \in Seq(S), x \in S :
            a = only[n] /\ b = only[n + 1] /\ x = s[n + 1]
      <4>1. only[n + 1] \in Seq(S)
        BY <1>1, <2>1
      <4> QED
        BY <2>1, <4>1
    <3>2. /\ b = Append(a, x) /\ Len(b) = Len(a) + 1 /\ b[Len(a) + 1] = x
          /\ Len(a) \in Nat /\ \A i \in 1 .. Len(a) : b[i] = a[i]
      BY <2>2, <2>3, <3>1, AppendProperties
    <3>3. \A i \in 1 .. Len(a) : a[i] < x
      BY <2>1, <2>5, <3>1
    <3>4. \A i, j \in 1 .. Len(b) : i < j => b[i] < b[j]
      <4>1. ASSUME NEW i \in 1 .. Len(b), NEW j \in 1 .. Len(b), i < j PROVE b[i] < b[j]
        <5>1. i \in 1 .. Len(a) /\ (j \in 1 .. Len(a) \/ j = Len(a) + 1)
          <6>1. PICK l \in Nat : l = Len(a) /\ l + 1 = Len(b)
            BY <3>2
          <6>2. i \in 1 .. l + 1 /\ j \in 1 .. l + 1 /\ i < j
            BY <4>1, <6>1
          <6>3. i \in 1 .. l /\ (j \in 1 .. l \/ j = l + 1)
            BY <6>2
          <6> QED
            BY <6>1, <6>3
        <5>2. j \in 1 .. Len(a) => a[i] < a[j]
          BY <2>5, <3>1, <4>1, <5>1
        <5> QED
          BY <3>2, <3>3, <5>1, <5>2
      <4> QED
        BY <4>1
    <3>5. \A m \in n + 2 .. Len(s) : x < s[m]
      BY <2>1, <3>1
    <3>6. \A i \in 1 .. Len(b) : \A m \in n + 2 .. Len(s) : b[i] < s[m]
      BY <2>1, <2>5, <3>1, <3>2, <3>5
    <3> QED
      BY <2>1, <3>1, <3>4, <3>6
  <2>4. CASE s[n + 1] \notin chosen
    BY <2>1, <2>2, <2>4, <2>5
  <2> QED
    BY <2>3, <2>4
<1>4. T = Nat
  <2> HIDE DEF T
  <2> QED
    BY <1>2, <1>3, Induction DEF T
<1>5. Len(s) \in Nat
  OBVIOUS
<1>6. Good(Len(s))
  <2>1. Len(s) \in T
    <3> HIDE DEF T
    <3> QED
      BY <1>4, <1>5
  <2> QED
    BY <1>5, <2>1
<1> QED
  BY <1>1, <1>6

(* If these lie together it returns the part of s that they are.           *)
LEMMA OnlySlice ==
  ASSUME NEW S, NEW s \in Seq(S), NEW chosen,
         NEW m \in 1 .. Len(s) + 1, NEW n \in m - 1 .. Len(s),
         \A k \in 1 .. Len(s) : s[k] \in chosen <=> (m <= k /\ k <= n)
  PROVE  Only(s, chosen) = SubSeq(s, m, n)
<1>1. PICK only \in [0 .. Len(s) -> Seq(S)] :
        /\ Only(s, chosen) = only[Len(s)] /\ only[0] = <<>>
        /\ \A i \in 1 .. Len(s) :
             only[i] = IF s[i] \in chosen THEN Append(only[i - 1], s[i]) ELSE only[i - 1]
  BY OnlyDefined
<1> DEFINE T == {i \in Nat : i <= Len(s) =>
                   only[i] = SubSeq(s, m, IF i < n THEN i ELSE n)}
<1>2. 0 \in T
  <2>1. m \in Int /\ n \in Int /\ (IF 0 < n THEN 0 ELSE n) \in Int
        /\ (IF 0 < n THEN 0 ELSE n) < m
    OBVIOUS
  <2> QED
    BY <1>1, <2>1, SubSeqEmpty
<1>3. ASSUME NEW i \in T PROVE i + 1 \in T
  <2> SUFFICES ASSUME i + 1 <= Len(s)
      PROVE  only[i + 1] = SubSeq(s, m, IF i + 1 < n THEN i + 1 ELSE n)
    OBVIOUS
  <2>1. /\ s[i + 1] \in S /\ i + 1 \in 1 .. Len(s) /\ i \in Nat /\ (i + 1) - 1 = i
        /\ only[i] = SubSeq(s, m, IF i < n THEN i ELSE n)
        /\ m \in Int /\ n \in Int
    OBVIOUS
  <2>2. only[i + 1] = IF s[i + 1] \in chosen THEN Append(only[i], s[i + 1]) ELSE only[i]
    BY <1>1, <2>1
  <2>3. CASE m <= i + 1 /\ i + 1 <= n
    <3>1. SubSeq(s, m, i + 1) = SubSeq(s, m, i) \o <<s[i + 1]>>
      BY <2>1, <2>3, SubSeqRecursiveSecond
    <3>2. SubSeq(s, m, i) \in Seq(S)
      BY <2>1, <2>3, SubSeqProperties
    <3> QED
      BY <2>1, <2>2, <2>3, <3>1, <3>2, AppendIsConcat
  <2>4. CASE i + 1 < m
    <3>1. only[i] = <<>>
      BY <2>1, <2>4, SubSeqEmpty
    <3>2. SubSeq(s, m, IF i + 1 < n THEN i + 1 ELSE n) = <<>>
      BY <2>1, <2>4, SubSeqEmpty
    <3> QED
      BY <2>1, <2>2, <2>4, <3>1, <3>2
  <2>5. CASE i + 1 > n
    BY <2>1, <2>2, <2>5
  <2> QED
    BY <2>1, <2>3, <2>4, <2>5
<1>4. T = Nat
  <2> HIDE DEF T
  <2> QED
    BY <1>2, <1>3, Induction DEF T
<1>5. Len(s) \in T /\ (IF Len(s) < n THEN Len(s) ELSE n) = n
  BY <1>4
<1> QED
  BY <1>1, <1>5
-----------------------------------------------------------------------------
(* The concatenations of the first elements of a sequence of sequences.    *)
Flats(S, ss) ==
  {flat \in [1 .. Len(ss) -> Seq(S)] :
     flat[1] = ss[1] /\ \A i \in 2 .. Len(ss) : flat[i] = flat[i - 1] \o ss[i]}

(* FlattenSeq is what its equations say.                                   *)
LEMMA FlattenDefined ==
  ASSUME NEW S, NEW ss \in Seq(Seq(S)), ss # <<>>
  PROVE  \E flat \in Flats(S, ss) : FlattenSeq(ss) = flat[Len(ss)]
<1> DEFINE IsFlat(f) ==
      f = [i \in 1 .. Len(ss) |-> IF i = 1 THEN ss[i] ELSE f[i - 1] \o ss[i]]
<1> DEFINE h == [x \in (1 .. Len(ss)) \X Seq(S) |->
                   IF x[1] = 1 THEN ss[1] ELSE x[2] \o ss[x[1]]]
<1>1. <<>> \in Seq(S) /\ Len(ss) \in Nat \ {0} /\ \A i \in 1 .. Len(ss) : ss[i] \in Seq(S)
  OBVIOUS
<1>2. PICK f \in [0 .. Len(ss) -> Seq(S)] : \A i \in 1 .. Len(ss) : f[i] = h[<<i, f[i - 1]>>]
  <2>1. h \in Steps(Len(ss), Seq(S))
    <3>1. ASSUME NEW x \in (1 .. Len(ss)) \X Seq(S)
          PROVE  (IF x[1] = 1 THEN ss[1] ELSE x[2] \o ss[x[1]]) \in Seq(S)
      BY <1>1
    <3> QED
      BY <3>1 DEF Steps
  <2> HIDE DEF h
  <2>2. Recursive(Len(ss), Seq(S), <<>>, h) # {}
    BY <1>1, <2>1, Recursion
  <2> QED
    BY <2>2 DEF Recursive
<1> DEFINE g == [i \in 1 .. Len(ss) |-> f[i]]
<1>3. ASSUME NEW i \in 1 .. Len(ss)
      PROVE  g[i] = IF i = 1 THEN ss[i] ELSE g[i - 1] \o ss[i]
  <2>1. <<i, f[i - 1]>> \in (1 .. Len(ss)) \X Seq(S)
    <3>1. i - 1 \in 0 .. Len(ss)
      BY <1>1
    <3> QED
      BY <3>1
  <2>2. f[i] = IF i = 1 THEN ss[1] ELSE f[i - 1] \o ss[i]
    BY <1>2, <2>1
  <2>3. i # 1 => i - 1 \in 1 .. Len(ss)
    BY <1>1
  <2> QED
    BY <2>2, <2>3
<1>4. IsFlat(g)
  <2> HIDE DEF g
  <2>1. g = [i \in 1 .. Len(ss) |-> g[i]]
    BY DEF g
  <2> QED
    BY <1>3, <2>1
<1>5. IsFlat(CHOOSE flat : IsFlat(flat))
  <2> HIDE DEF IsFlat, g
  <2> QED
    BY <1>4, Zenon
<1> DEFINE flat == CHOOSE flat : IsFlat(flat)
<1>6. FlattenSeq(ss) = flat[Len(ss)]
  BY <1>1 DEF FlattenSeq
<1>7. ASSUME NEW i \in 1 .. Len(ss)
      PROVE  flat[i] = IF i = 1 THEN ss[i] ELSE flat[i - 1] \o ss[i]
  BY <1>5
<1> HIDE DEF flat
<1>8. flat[1] = ss[1]
  BY <1>1, <1>7
<1>9. ASSUME NEW i \in 2 .. Len(ss) PROVE flat[i] = flat[i - 1] \o ss[i]
  <2>1. i \in 1 .. Len(ss) /\ i # 1
    BY <1>1
  <2> QED
    BY <1>7, <2>1
<1>10. flat \in [1 .. Len(ss) -> Seq(S)]
  <2> DEFINE T == {i \in Nat : i + 1 <= Len(ss) => flat[i + 1] \in Seq(S)}
  <2>1. 0 \in T
    BY <1>1, <1>8
  <2>2. ASSUME NEW i \in T PROVE i + 1 \in T
    <3> SUFFICES ASSUME (i + 1) + 1 <= Len(ss) PROVE flat[(i + 1) + 1] \in Seq(S)
      OBVIOUS
    <3> DEFINE k == (i + 1) + 1
    <3>1. k \in 2 .. Len(ss) /\ k - 1 = i + 1 /\ flat[i + 1] \in Seq(S) /\ ss[k] \in Seq(S)
      BY <1>1
    <3>2. flat[k] = flat[i + 1] \o ss[k]
      BY <1>9, <3>1
    <3> QED
      BY <3>1, <3>2, ConcatProperties
  <2>3. T = Nat
    <3> HIDE DEF T
    <3> QED
      BY <2>1, <2>2, Induction DEF T
  <2>4. flat = [i \in 1 .. Len(ss) |-> flat[i]]
    BY <1>5 DEF flat
  <2>5. ASSUME NEW i \in 1 .. Len(ss) PROVE flat[i] \in Seq(S)
    <3>1. i - 1 \in Nat /\ (i - 1) + 1 = i
      BY <1>1
    <3>2. i - 1 \in T
      <4> HIDE DEF T
      <4> QED
        BY <2>3, <3>1
    <3> QED
      BY <3>1, <3>2
  <2> HIDE DEF T
  <2> QED
    BY <2>4, <2>5
<1> QED
  BY <1>6, <1>8, <1>9, <1>10 DEF Flats

(* Concatenating one sequence more.                                        *)
LEMMA FlattenAppend ==
  ASSUME NEW S, NEW ss \in Seq(Seq(S)), NEW x \in Seq(S)
  PROVE  /\ FlattenSeq(ss) \in Seq(S)
         /\ FlattenSeq(Append(ss, x)) = FlattenSeq(ss) \o x
<1>0. PICK a \in Seq(Seq(S)) : a = Append(ss, x) /\ a # <<>>
  BY AppendProperties
<1>1. /\ a \in Seq(Seq(S)) /\ a # <<>> /\ Len(a) = Len(ss) + 1 /\ a[Len(ss) + 1] = x
      /\ \A i \in 1 .. Len(ss) : a[i] = ss[i]
  BY <1>0, AppendProperties
<1>2. Len(ss) \in Nat
  OBVIOUS
<1>3. PICK flat \in Flats(S, a) : FlattenSeq(a) = flat[Len(a)]
  BY <1>1, FlattenDefined
<1> USE DEF Flats
<1>4. CASE ss = <<>>
  <2>1. FlattenSeq(ss) = <<>> /\ Len(ss) = 0
    BY <1>4 DEF FlattenSeq
  <2>2. FlattenSeq(a) = x
    BY <1>1, <1>3, <2>1
  <2>3. <<>> \o x = x /\ <<>> \in Seq(S)
    BY ConcatEmptySeq
  <2> QED
    BY <1>0, <2>1, <2>2, <2>3
<1>5. CASE ss # <<>>
  <2>1. PICK prefix \in Flats(S, ss) : FlattenSeq(ss) = prefix[Len(ss)]
    <3> HIDE DEF Flats
    <3> QED
      BY <1>5, FlattenDefined
  <2>2. Len(ss) \in Nat \ {0}
    BY <1>2, <1>5
  <2> DEFINE T == {i \in Nat : i + 1 <= Len(ss) => flat[i + 1] = prefix[i + 1]}
  <2>3. 0 \in T
    BY <1>1, <1>3, <2>1, <2>2
  <2>4. ASSUME NEW i \in T PROVE i + 1 \in T
    <3> SUFFICES ASSUME (i + 1) + 1 <= Len(ss) PROVE flat[(i + 1) + 1] = prefix[(i + 1) + 1]
      OBVIOUS
    <3> DEFINE k == (i + 1) + 1
    <3>1. /\ k \in 2 .. Len(ss) /\ k \in 2 .. Len(a) /\ k - 1 = i + 1 /\ k \in 1 .. Len(ss)
          /\ flat[i + 1] = prefix[i + 1]
      BY <1>1, <2>2
    <3>2. flat[k] = flat[i + 1] \o a[k] /\ prefix[k] = prefix[i + 1] \o ss[k]
      BY <1>3, <2>1, <3>1
    <3> QED
      BY <1>1, <3>1, <3>2
  <2>5. T = Nat
    <3> HIDE DEF T
    <3> QED
      BY <2>3, <2>4, Induction DEF T
  <2>6. Len(ss) - 1 \in Nat /\ (Len(ss) - 1) + 1 = Len(ss)
    BY <2>2
  <2>7. flat[Len(ss)] = prefix[Len(ss)]
    <3>1. Len(ss) - 1 \in T
      <4> HIDE DEF T
      <4> QED
        BY <2>5, <2>6
    <3> QED
      BY <2>6, <3>1
  <2>8. flat[Len(a)] = flat[Len(ss)] \o x
    <3>1. Len(a) \in 2 .. Len(a) /\ Len(a) - 1 = Len(ss) /\ a[Len(a)] = x
      BY <1>1, <2>2
    <3> QED
      BY <1>3, <3>1
  <2>9. prefix[Len(ss)] \in Seq(S)
    <3>1. Len(ss) \in 1 .. Len(ss)
      BY <2>2
    <3> QED
      BY <3>1
  <2> QED
    BY <1>0, <1>3, <2>1, <2>7, <2>8, <2>9
<1> QED
  BY <1>4, <1>5

(* Concatenating one.                                                      *)
LEMMA FlattenOne ==
  ASSUME NEW S, NEW x \in Seq(S) PROVE FlattenSeq(<<x>>) = x /\ FlattenSeq(<<>>) = <<>>
<1>1. FlattenSeq(<<>>) = <<>> /\ <<>> \in Seq(Seq(S))
  BY DEF FlattenSeq
<1>2. Append(<<>>, x) = <<x>> /\ <<>> \o x = x
  BY ConcatEmptySeq
<1> QED
  BY <1>1, <1>2, FlattenAppend

Associative(S) ==
  \A s \in Seq(S), t \in Seq(S), u \in Seq(S) : s \o (t \o u) = (s \o t) \o u

(* Concatenation, of any three.                                            *)
LEMMA ConcatIsAssociative ==
  ASSUME NEW S PROVE Associative(S)
<1> SUFFICES ASSUME NEW s \in Seq(S), NEW t \in Seq(S), NEW u \in Seq(S)
    PROVE  s \o (t \o u) = (s \o t) \o u
  BY DEF Associative
<1> QED
  BY ConcatAssociative

(* Concatenating two lists of sequences.                                   *)
LEMMA FlattenConcat ==
  ASSUME NEW S, NEW ss \in Seq(Seq(S)), NEW tt \in Seq(Seq(S))
  PROVE  FlattenSeq(ss \o tt) = FlattenSeq(ss) \o FlattenSeq(tt)
<1>0. Associative(S) /\ Associative(Seq(S))
  BY ConcatIsAssociative
<1> DEFINE part(n) == SubSeq(tt, 1, n)
<1> DEFINE T == {n \in Nat : n <= Len(tt) =>
                   FlattenSeq(ss \o part(n)) = FlattenSeq(ss) \o FlattenSeq(part(n))}
<1>1. Len(tt) \in Nat /\ \A i \in 1 .. Len(tt) : tt[i] \in Seq(S)
  OBVIOUS
<1>2. FlattenSeq(ss) \in Seq(S) /\ <<>> \in Seq(S)
  BY FlattenAppend
<1>3. 0 \in T
  <2>1. part(0) = <<>>
    BY SubSeqEmpty
  <2>2. ss \o <<>> = ss /\ FlattenSeq(ss) \o <<>> = FlattenSeq(ss)
    BY <1>2, ConcatEmptySeq
  <2>3. FlattenSeq(<<>>) = <<>>
    BY <1>2, FlattenOne
  <2> QED
    BY <2>1, <2>2, <2>3
<1>4. ASSUME NEW n \in T PROVE n + 1 \in T
  <2> SUFFICES ASSUME n + 1 <= Len(tt)
      PROVE  FlattenSeq(ss \o part(n + 1)) = FlattenSeq(ss) \o FlattenSeq(part(n + 1))
    OBVIOUS
  <2>1. /\ n \in Nat /\ n <= Len(tt) /\ n + 1 \in 1 .. Len(tt) /\ (n + 1) - 1 = n
        /\ FlattenSeq(ss \o part(n)) = FlattenSeq(ss) \o FlattenSeq(part(n))
    BY <1>1
  <2>2. part(n) \in Seq(Seq(S)) /\ tt[n + 1] \in Seq(S)
    BY <1>1, <2>1, SubSeqProperties
  <2>3. part(n + 1) = part(n) \o <<tt[n + 1]>>
    <3>1. 1 \in 1 .. Len(tt) /\ n + 1 \in 1 .. Len(tt)
      BY <2>1
    <3> QED
      BY <2>1, <3>1, SubSeqRecursiveSecond
  <2>4. PICK u \in Seq(Seq(S)), y \in Seq(S) :
          /\ u = part(n) /\ y = tt[n + 1] /\ part(n + 1) = u \o <<y>>
          /\ FlattenSeq(ss \o u) = FlattenSeq(ss) \o FlattenSeq(u)
    BY <2>1, <2>2, <2>3
  <2> HIDE DEF part
  <2>5. /\ u \o <<y>> = Append(u, y) /\ ss \o u \in Seq(Seq(S))
        /\ ss \o (u \o <<y>>) = Append(ss \o u, y)
    <3>1. ss \o u \in Seq(Seq(S)) /\ <<y>> \in Seq(Seq(S))
      BY ConcatProperties
    <3>2. PICK w \in Seq(Seq(S)) : w = <<y>>
      BY <3>1
    <3>3. ss \o (u \o w) = (ss \o u) \o w
      BY <1>0, Zenon DEF Associative
    <3> QED
      BY <3>1, <3>2, <3>3, AppendIsConcat
  <2>6. FlattenSeq(u) \in Seq(S) /\ FlattenSeq(u \o <<y>>) = FlattenSeq(u) \o y
    BY <2>5, FlattenAppend
  <2>7. FlattenSeq(ss \o (u \o <<y>>)) = FlattenSeq(ss \o u) \o y
    BY <2>5, FlattenAppend
  <2>8. FlattenSeq(ss) \o (FlattenSeq(u) \o y) = (FlattenSeq(ss) \o FlattenSeq(u)) \o y
    <3>1. PICK a \in Seq(S), b \in Seq(S) : a = FlattenSeq(ss) /\ b = FlattenSeq(u)
      BY <1>2, <2>6
    <3>2. a \o (b \o y) = (a \o b) \o y
      BY <1>0, Zenon DEF Associative
    <3> QED
      BY <3>1, <3>2
  <2> QED
    BY <2>4, <2>6, <2>7, <2>8
<1>5. T = Nat
  <2> HIDE DEF T
  <2> QED
    BY <1>3, <1>4, Induction DEF T
<1>6. Len(tt) \in T
  <2> HIDE DEF T
  <2> QED
    BY <1>1, <1>5
<1>7. part(Len(tt)) = tt
  BY SubSeqFull
<1>8. FlattenSeq(ss \o part(Len(tt))) = FlattenSeq(ss) \o FlattenSeq(part(Len(tt)))
  BY <1>1, <1>6
<1> HIDE DEF part
<1> QED
  BY <1>7, <1>8
-----------------------------------------------------------------------------
(* The middle of three sequences.                                          *)
LEMMA MiddleOf ==
  ASSUME NEW S, NEW x \in Seq(S), NEW y \in Seq(S), NEW z \in Seq(S)
  PROVE  SubSeq((x \o y) \o z, Len(x) + 1, Len(x) + Len(y)) = y
<1>0. PICK w \in Seq(S) : w = x \o y
  <2>1. x \o y \in Seq(S)
    OBVIOUS
  <2> QED
    BY <2>1
<1>1. PICK v \in Seq(S) : w = x \o y /\ v = w \o z
  <2>1. w \o z \in Seq(S)
    OBVIOUS
  <2> QED
    BY <1>0, <2>1
<1>2. Len(x) \in Nat /\ Len(y) \in Nat /\ Len(z) \in Nat
  OBVIOUS
<1>3. Len(w) = Len(x) + Len(y) /\ Len(v) = Len(w) + Len(z)
  <2>1. Len(x \o y) = Len(x) + Len(y) /\ Len(w \o z) = Len(w) + Len(z)
    OBVIOUS
  <2> QED
    BY <1>1, <2>1
<1>4. ASSUME NEW i \in 1 .. Len(y) PROVE v[Len(x) + i] = y[i]
  <2>1. PICK k \in 1 .. Len(w) : k = Len(x) + i /\ ~(k <= Len(x)) /\ k - Len(x) = i
    <3>1. /\ Len(x) + i \in 1 .. Len(w) /\ ~(Len(x) + i <= Len(x))
          /\ (Len(x) + i) - Len(x) = i
      BY <1>2, <1>3
    <3> QED
      BY <3>1
  <2>2. (w \o z)[k] = IF k <= Len(w) THEN w[k] ELSE z[k - Len(w)]
    <3>1. k \in 1 .. Len(w) + Len(z)
      BY <1>2, <1>3
    <3> QED
      BY <3>1
  <2>3. (x \o y)[k] = IF k <= Len(x) THEN x[k] ELSE y[k - Len(x)]
    <3>1. k \in 1 .. Len(x) + Len(y)
      BY <1>3
    <3> QED
      BY <3>1
  <2> QED
    BY <1>1, <2>1, <2>2, <2>3
<1>5. PICK m \in Int, n \in Int : m = Len(x) + 1 /\ n = Len(x) + Len(y)
  BY <1>2
<1>6. \A i \in m .. n : v[i] \in S
  BY <1>2, <1>3, <1>5
<1>7. /\ SubSeq(v, m, n) \in Seq(S)
      /\ Len(SubSeq(v, m, n)) = IF m <= n THEN n - m + 1 ELSE 0
      /\ \A i \in 1 .. n - m + 1 : SubSeq(v, m, n)[i] = v[m + i - 1]
  BY <1>6, SubSeqProperties
<1>8. Len(SubSeq(v, m, n)) = Len(y)
  BY <1>2, <1>5, <1>7
<1>9. ASSUME NEW i \in 1 .. Len(y) PROVE SubSeq(v, m, n)[i] = y[i]
  <2>1. i \in 1 .. n - m + 1 /\ m + i - 1 = Len(x) + i
    BY <1>2, <1>5
  <2> QED
    BY <1>4, <1>7, <2>1
<1>10. SubSeq(v, m, n) = y
  BY <1>7, <1>8, <1>9, SeqEqual
<1> QED
  BY <1>1, <1>5, <1>10
-----------------------------------------------------------------------------
(* Slices.                                                                 *)
(* A slice, by its elements.                                               *)
LEMMA Slice ==
  ASSUME NEW S, NEW s \in Seq(S), NEW m \in 1 .. Len(s) + 1, NEW n \in m - 1 .. Len(s)
  PROVE  /\ SubSeq(s, m, n) \in Seq(S) /\ Len(SubSeq(s, m, n)) = n - m + 1
         /\ \A k \in 1 .. n - m + 1 : SubSeq(s, m, n)[k] = s[m + k - 1]
<1>1. Len(s) \in Nat /\ m \in Nat /\ n \in Nat
  OBVIOUS
<1>2. \A i \in m .. n : s[i] \in S
  BY <1>1
<1>3. /\ SubSeq(s, m, n) \in Seq(S)
      /\ Len(SubSeq(s, m, n)) = IF m <= n THEN n - m + 1 ELSE 0
      /\ \A i \in 1 .. n - m + 1 : SubSeq(s, m, n)[i] = s[m + i - 1]
  BY <1>1, <1>2, SubSeqProperties
<1>4. Len(SubSeq(s, m, n)) = n - m + 1
  BY <1>1, <1>3
<1> QED
  BY <1>3, <1>4

(* A slice of a slice.                                                     *)
LEMMA SliceOfSlice ==
  ASSUME NEW S, NEW s \in Seq(S), NEW m \in 1 .. Len(s) + 1, NEW n \in m - 1 .. Len(s),
         NEW i \in 1 .. n - m + 2, NEW j \in i - 1 .. n - m + 1
  PROVE  SubSeq(SubSeq(s, m, n), i, j) = SubSeq(s, m + i - 1, m + j - 1)
<1>1. Len(s) \in Nat
  OBVIOUS
<1>2. PICK t \in Seq(S) : /\ t = SubSeq(s, m, n) /\ Len(t) = n - m + 1
                          /\ \A k \in 1 .. n - m + 1 : t[k] = s[m + k - 1]
  <2>1. /\ SubSeq(s, m, n) \in Seq(S) /\ Len(SubSeq(s, m, n)) = n - m + 1
        /\ \A k \in 1 .. n - m + 1 : SubSeq(s, m, n)[k] = s[m + k - 1]
    BY Slice
  <2> QED
    BY <2>1
<1>3. PICK u \in Seq(S) : /\ u = SubSeq(t, i, j) /\ Len(u) = j - i + 1
                          /\ \A k \in 1 .. j - i + 1 : u[k] = t[i + k - 1]
  <2>1. i \in 1 .. Len(t) + 1 /\ j \in i - 1 .. Len(t)
    BY <1>1, <1>2
  <2>2. /\ SubSeq(t, i, j) \in Seq(S) /\ Len(SubSeq(t, i, j)) = j - i + 1
        /\ \A k \in 1 .. j - i + 1 : SubSeq(t, i, j)[k] = t[i + k - 1]
    BY <2>1, Slice
  <2> QED
    BY <2>2
<1>4. PICK a \in Nat, b \in Nat : a = m + i - 1 /\ b = m + j - 1 /\ b <= Len(s) /\ a >= 1
                                  /\ b - a = j - i
  BY <1>1
<1>5. PICK v \in Seq(S) : /\ v = SubSeq(s, a, b) /\ Len(v) = j - i + 1
                          /\ \A k \in 1 .. j - i + 1 : v[k] = s[a + k - 1]
  <2>1. a \in 1 .. Len(s) + 1 /\ b \in a - 1 .. Len(s) /\ b - a + 1 = j - i + 1
    BY <1>1, <1>4
  <2>2. /\ SubSeq(s, a, b) \in Seq(S) /\ Len(SubSeq(s, a, b)) = b - a + 1
        /\ \A k \in 1 .. b - a + 1 : SubSeq(s, a, b)[k] = s[a + k - 1]
    BY <2>1, Slice
  <2> QED
    BY <2>1, <2>2
<1>6. ASSUME NEW k \in 1 .. j - i + 1 PROVE u[k] = v[k]
  <2>1. u[k] = t[i + k - 1] /\ v[k] = s[a + k - 1]
    BY <1>3, <1>5
  <2>2. PICK l \in 1 .. n - m + 1 : l = i + k - 1
    BY <1>1
  <2>3. t[l] = s[m + l - 1] /\ m + l - 1 = a + k - 1
    BY <1>1, <1>2, <1>4, <2>2
  <2> QED
    BY <2>1, <2>2, <2>3
<1>7. u = v
  BY <1>3, <1>5, <1>6, SeqEqual
<1> QED
  BY <1>2, <1>3, <1>4, <1>5, <1>7

(* A slice of what comes first.                                            *)
LEMMA SliceOfConcat ==
  ASSUME NEW S, NEW s \in Seq(S), NEW t \in Seq(S),
         NEW m \in 1 .. Len(s) + 1, NEW n \in m - 1 .. Len(s)
  PROVE  SubSeq(s \o t, m, n) = SubSeq(s, m, n)
<1>1. Len(s) \in Nat
  OBVIOUS
<1>2. CASE m <= n
  <2>1. m \in 1 .. Len(s) /\ n \in 1 .. Len(s)
    BY <1>1, <1>2
  <2> QED
    BY <2>1, SubSeqOfConcat1
<1>3. CASE ~(m <= n)
  <2>1. n < m /\ m \in Int /\ n \in Int
    BY <1>1, <1>3
  <2>2. SubSeq(s \o t, m, n) = <<>> /\ SubSeq(s, m, n) = <<>>
    BY <2>1, SubSeqEmpty
  <2> QED
    BY <2>2
<1> QED
  BY <1>2, <1>3
=============================================================================
