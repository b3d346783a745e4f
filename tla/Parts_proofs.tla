---------------------------- MODULE Parts_proofs ----------------------------
(***************************************************************************)
(* Of four parts that share no state, for any values of the constants:     *)
(*   - an alias names the newest version that asked for it,                *)
(*   - the previews of the SDK and of the server have the same keys and    *)
(*     sources, and are equal if the server's parser keeps their numbers,  *)
(*   - no requests of the server wait for each other in a circle,          *)
(*   - compaction can always use its seeds and rewrites rows rarely.       *)
(***************************************************************************)
EXTENDS ArtifactRegistry, MetricPreview, RequestPaths, CompactionPolicy,
        SequenceLemmas, FiniteSetTheorems, TLAPS

(***************************************************************************)
(* ArtifactRegistry.                                                       *)
(***************************************************************************)
(* The versions and names there are.                                       *)
RegistryTypes ==
  /\ version \in [Artifacts -> Nat]
  /\ names \in [Aliases -> SUBSET Artifacts]
  /\ asked \in [Artifacts -> Requested \union {NoRequest}]

Bearers(alias) == {a \in Registered : alias \in asked[a].aliases}

Newest(alias) == {a \in Bearers(alias) : \A b \in Bearers(alias) : version[b] <= version[a]}

(* An alias that was asked for is never without a bearer, which is what    *)
(* the comparison with the present bearer relies on.                       *)
AliasesAreBorne ==
  \A alias \in Aliases :
    names[alias] = Newest(alias) /\ (Bearers(alias) # {} => names[alias] # {})

RegisteredWereAsked == \A a \in Registered : asked[a] # NoRequest

RegistryInv == RegistryTypes /\ RegisteredWereAsked /\ AliasesAreBorne

(* The numbers of the versions.                                            *)
LEMMA MaxVersionIsNat == MaxVersion \in Nat /\ NoVersion \in Nat /\ Versions \subseteq Nat \ {NoVersion}
BY RegistryAssumption DEF NoVersion, Versions

(* At first there is neither a version nor a name.                         *)
LEMMA InitialRegistry == RegistryInit => RegistryInv
<1> SUFFICES ASSUME RegistryInit PROVE RegistryInv
  OBVIOUS
<1>1. RegistryTypes
  BY MaxVersionIsNat DEF RegistryInit, RegistryTypes
<1>2. Registered = {}
  BY DEF RegistryInit, Registered
<1> QED
  BY <1>1, <1>2 DEF RegistryInit, RegistryInv, RegisteredWereAsked, AliasesAreBorne,
                    Newest, Bearers

(* A request that is only asked for changes no alias: its ID is not        *)
(* registered.                                                             *)
LEMMA AskKeepsNames ==
  ASSUME RegistryInv, NEW a \in Artifacts, AskForArtifact(a)
  PROVE RegistryInv'
<1> USE DEF RegistryInv
<1>1. RegistryTypes'
  BY DEF AskForArtifact, RegistryTypes
<1>2. Registered' = Registered /\ a \notin Registered
  BY DEF AskForArtifact, Registered, RegisteredWereAsked
<1>3. \A b \in Registered : asked'[b] = asked[b]
  BY <1>2 DEF AskForArtifact, Registered, RegistryTypes
<1>4. \A alias \in Aliases : Bearers(alias)' = Bearers(alias)
  BY <1>2, <1>3 DEF Bearers
<1>5. \A alias \in Aliases : Newest(alias)' = Newest(alias)
  BY <1>4 DEF Newest, AskForArtifact
<1>6. AliasesAreBorne'
  BY <1>4, <1>5 DEF AliasesAreBorne, AskForArtifact
<1>7. RegisteredWereAsked'
  BY <1>2, <1>3 DEF RegisteredWereAsked
<1> QED
  BY <1>1, <1>6, <1>7

(* A new version takes the alias exactly if it is newer than the one that  *)
(* bears it, and then than all others.                                     *)
LEMMA CreateKeepsNames ==
  ASSUME RegistryInv, NEW a \in Artifacts, CreateVersion(a)
  PROVE RegistryInv'
<1> DEFINE v == NewVersion(a)
<1> USE DEF RegistryInv
<1>1. v \in Nat /\ v # NoVersion /\ \A b \in Registered : version[b] # v
  BY MaxVersionIsNat DEF CreateVersion, Taken
<1>2. /\ a \notin Registered /\ asked[a] # NoRequest
      /\ asked' = asked /\ version' = [version EXCEPT ![a] = v]
      /\ names' = NamesWith(a)
  BY DEF CreateVersion
<1> HIDE DEF v
<1>3. Registered' = Registered \union {a}
  BY <1>1, <1>2 DEF Registered, RegistryTypes
<1>4. version'[a] = v /\ \A b \in Registered : version'[b] = version[b]
  BY <1>1, <1>2 DEF Registered, RegistryTypes
<1>5. RegistryTypes'
  <2>1. NamesWith(a) \in [Aliases -> SUBSET Artifacts]
    BY DEF NamesWith, RegistryTypes
  <2> QED
    BY <1>1, <1>2, <2>1 DEF RegistryTypes
<1>6. RegisteredWereAsked'
  BY <1>2, <1>3 DEF RegisteredWereAsked
<1>7. ASSUME NEW alias \in Aliases
      PROVE names'[alias] = Newest(alias)' /\ (Bearers(alias)' # {} => names'[alias] # {})
  <2>1. /\ names[alias] = Newest(alias)
        /\ Bearers(alias) # {} => names[alias] # {}
    BY DEF AliasesAreBorne
  <2>2. Bearers(alias) \subseteq Registered /\ Registered \subseteq Artifacts
    BY DEF Bearers, Registered
  <2>3. \A b \in Bearers(alias) : version[b] \in Nat
    BY <2>2 DEF RegistryTypes
  <2>4. names'[alias] =
          IF alias \in asked[a].aliases /\ \A b \in names[alias] : version[b] < v
            THEN {a} ELSE names[alias]
    BY <1>2 DEF NamesWith, v
  <2>5. CASE alias \notin asked[a].aliases
    <3>1. Bearers(alias)' = Bearers(alias)
      BY <2>5, <1>2, <1>3 DEF Bearers
    <3>2. Newest(alias)' = Newest(alias)
      BY <3>1, <1>4, <2>2 DEF Newest
    <3> QED
      BY <3>1, <3>2, <2>1, <2>4, <2>5
  <2>6. CASE alias \in asked[a].aliases
    <3>1. Bearers(alias)' = Bearers(alias) \union {a}
      BY <2>6, <1>2, <1>3 DEF Bearers
    <3>2. \A b \in Bearers(alias) : version'[b] = version[b] /\ b # a
      BY <1>2, <1>4, <2>2
    <3>3. CASE \A b \in names[alias] : version[b] < v
      <4>1. \A b \in Bearers(alias) : version[b] < v
        <5> SUFFICES ASSUME NEW b \in Bearers(alias) PROVE version[b] < v
          OBVIOUS
        <5>1. PICK m \in names[alias] : TRUE
          BY <2>1
        <5>2. m \in Bearers(alias) /\ version[b] <= version[m]
          BY <5>1, <2>1 DEF Newest
        <5>3. version[m] < v
          BY <3>3, <5>1
        <5> QED
          BY <5>2, <5>3, <2>3, <1>1
      <4>2. Newest(alias)' = {a}
        BY <4>1, <3>1, <3>2, <1>1, <1>4, <2>3 DEF Newest
      <4> QED
        BY <4>2, <2>4, <2>6, <3>3
    <3>4. CASE \E b \in names[alias] : ~(version[b] < v)
      <4>1. PICK m \in names[alias] : ~(version[m] < v)
        BY <3>4
      <4>2. m \in Bearers(alias) /\ v < version[m]
        BY <4>1, <1>1, <2>1, <2>2, <2>3 DEF Newest
      <4>3. a \notin Newest(alias)'
        <5> SUFFICES ASSUME a \in Newest(alias)' PROVE FALSE
          OBVIOUS
        <5>1. version'[m] <= version'[a]
          BY <3>1, <4>2 DEF Newest
        <5> QED
          BY <5>1, <4>2, <3>2, <1>1, <1>4, <2>3
      <4>4. \A b \in Newest(alias) : version[m] <= version[b]
        BY <4>2 DEF Newest
      <4>5. Newest(alias)' = Newest(alias)
        BY <3>1, <3>2, <4>2, <4>3, <4>4, <1>1, <1>4, <2>3 DEF Newest
      <4> QED
        BY <4>1, <4>5, <2>1, <2>4
    <3> QED
      BY <3>3, <3>4
  <2> QED
    BY <2>5, <2>6
<1> QED
  BY <1>5, <1>6, <1>7 DEF AliasesAreBorne

(* The invariant behind the aliases.                                       *)
LEMMA RegistryInvariance == RegistrySpec => []RegistryInv
<1>1. ASSUME RegistryInv, [RegistryNext]_registryVars PROVE RegistryInv'
  <2>1. CASE \E a \in Artifacts : AskForArtifact(a) \/ CreateVersion(a)
    BY <1>1, <2>1, AskKeepsNames, CreateKeepsNames
  <2>2. CASE (\E run \in Runs : FinishWriter(run)) \/ UNCHANGED registryVars
    <3>1. asked' = asked /\ version' = version /\ names' = names
      BY <2>2 DEF FinishWriter, registryVars
    <3> QED
      BY <1>1, <3>1 DEF RegistryInv, RegistryTypes, RegisteredWereAsked, AliasesAreBorne,
                       Newest, Bearers, Registered
  <2> QED
    BY <1>1, <2>1, <2>2 DEF RegistryNext
<1> QED
  BY <1>1, InitialRegistry, PTL DEF RegistrySpec

(* In whatever order requests and repetitions of them are handled, an      *)
(* alias names the newest of the versions that asked for it.               *)
THEOREM NewestIsNamed == RegistrySpec => []AliasesNameTheNewest
<1>1. RegistryInv => AliasesNameTheNewest
  BY DEF RegistryInv, AliasesAreBorne, Newest, Bearers, AliasesNameTheNewest
<1> QED
  BY <1>1, RegistryInvariance, PTL
-----------------------------------------------------------------------------
(***************************************************************************)
(* MetricPreview.                                                          *)
(***************************************************************************)
(* The keys of some points, and the latest point of a key.                 *)
KeysOf(log, m, n) == (UNION {log[i] : i \in m .. n}) \ SystemKeys
PointsOf(log, k, m, n) == {i \in m .. n : k \in log[i]}
LastOf(T) == CHOOSE i \in T : \A j \in T : j <= i
Latest(log, k, m, n) == LastOf(PointsOf(log, k, m, n))

(* The preview of the first n points of a log.                             *)
PreviewIn(log, n) ==
  [values |-> [k \in Retained(KeysOf(log, 1, n)) |-> Latest(log, k, 1, n)],
   truncated |-> Cardinality(KeysOf(log, 1, n)) > MaxPreview]

(* A value is a reading of the number that its point logged.               *)
Values == {v \in [point : 1 .. MaxPoints, number : Numbers] :
             v.number \in Readings(Logged[v.point])}
Faithful(values) == values \in [DOMAIN values -> Values]
Sources(values) == [k \in DOMAIN values |-> values[k].point]

(* A preview has the sources of that of the first n points.                *)
IsPreviewOf(p, log, n) ==
  /\ Faithful(p.values) /\ Sources(p.values) = PreviewIn(log, n).values
  /\ p.truncated = PreviewIn(log, n).truncated

(* Whether keys are left out, or were before.                              *)
Incomplete(truncated, keys) == truncated \/ Cardinality(keys) > MaxPreview

(* The keys before one, in their order.                                    *)
Below(keys, k) == {j \in keys : j < k}

(* Keys are finitely many numbers.                                         *)
LEMMA KeysAreFinite ==
  ASSUME NEW A \in SUBSET MetricKeys
  PROVE  /\ A \in SUBSET Nat /\ IsFiniteSet(A) /\ Cardinality(A) \in Nat
         /\ \A B \in SUBSET A : Cardinality(B) \in Nat /\ Cardinality(B) <= Cardinality(A)
<1>1. IsFiniteSet(MetricKeys) /\ MetricKeys \subseteq Nat
  BY PreviewAssumption
<1>2. IsFiniteSet(A)
  BY <1>1, FS_Subset
<1>3. ASSUME NEW B \in SUBSET A
      PROVE  Cardinality(B) \in Nat /\ Cardinality(B) <= Cardinality(A)
  <2>1. IsFiniteSet(B) /\ Cardinality(B) <= Cardinality(A)
    BY <1>2, FS_Subset
  <2> QED
    BY <2>1, FS_CardinalityType
<1> QED
  BY <1>1, <1>2, <1>3, FS_CardinalityType

(* Keys that are not retained do not matter when more are added: the first *)
(* of them has enough before it.                                           *)
LEMMA RetainedFirst ==
  ASSUME NEW A \in SUBSET MetricKeys, NEW D \in SUBSET MetricKeys
  PROVE  Retained(Retained(A) \union D) = Retained(A \union D)
<1>1. MaxPreview \in Nat
  BY PreviewAssumption
<1>2. Retained(A) \subseteq A
  BY DEF Retained
<1>3. PICK V \in SUBSET MetricKeys : V = Retained(A) \union D
  <2>1. Retained(A) \union D \in SUBSET MetricKeys
    BY <1>2
  <2> QED
    BY <2>1
<1>4. PICK U \in SUBSET MetricKeys : U = A \union D
  <2>1. A \union D \in SUBSET MetricKeys
    OBVIOUS
  <2> QED
    BY <2>1
<1>5. V = Retained(A) \union D /\ U = A \union D /\ V \subseteq U
  BY <1>2, <1>3, <1>4
<1>6. \A S \in SUBSET MetricKeys : Retained(S) = {k \in S : Cardinality(Below(S, k)) < MaxPreview}
  BY DEF Retained, Below
<1>7. \A S \in SUBSET MetricKeys, T \in SUBSET MetricKeys :
        S \subseteq T => /\ Cardinality(S) \in Nat /\ Cardinality(T) \in Nat
                         /\ Cardinality(S) <= Cardinality(T)
  BY KeysAreFinite
<1>8. \A S \in SUBSET MetricKeys, k \in MetricKeys : Below(S, k) \in SUBSET MetricKeys
  BY DEF Below
<1>9. ASSUME NEW k \in Retained(U) PROVE k \in Retained(V)
  <2>1. k \in U /\ Cardinality(Below(U, k)) < MaxPreview
    BY <1>6
  <2>2. Below(A, k) \subseteq Below(U, k) /\ Below(V, k) \subseteq Below(U, k)
    BY <1>5 DEF Below
  <2>3. Cardinality(Below(A, k)) < MaxPreview /\ Cardinality(Below(V, k)) < MaxPreview
    BY <1>1, <1>7, <1>8, <2>1, <2>2
  <2>4. k \in V
    BY <1>5, <1>6, <2>1, <2>3
  <2> QED
    BY <1>6, <2>3, <2>4
<1>10. ASSUME NEW k \in Retained(V), k \notin Retained(U) PROVE FALSE
  <2>1. k \in V /\ k \in U /\ Cardinality(Below(V, k)) < MaxPreview
        /\ ~(Cardinality(Below(U, k)) < MaxPreview)
    BY <1>5, <1>6, <1>10
  <2> DEFINE T == {j \in A : j < k /\ ~(Cardinality(Below(A, j)) < MaxPreview)}
  <2>2. T # {}
    <3> SUFFICES ASSUME T = {} PROVE FALSE
      OBVIOUS
    <3>1. ASSUME NEW x \in Below(A, k) PROVE x \in Retained(A)
      <4>1. x \in A /\ x < k
        BY DEF Below
      <4>2. Cardinality(Below(A, x)) < MaxPreview
        BY <4>1
      <4> QED
        BY <1>6, <4>1, <4>2
    <3>2. Below(U, k) \subseteq Below(V, k)
      BY <1>5, <3>1 DEF Below
    <3>3. Cardinality(Below(U, k)) <= Cardinality(Below(V, k))
          /\ Cardinality(Below(U, k)) \in Nat /\ Cardinality(Below(V, k)) \in Nat
      BY <1>7, <1>8, <2>1, <3>2
    <3> QED
      BY <1>1, <2>1, <3>3
  <2>3. T \in SUBSET Nat
    BY KeysAreFinite
  <2>4. PICK j \in T : \A x \in T : j <= x
    <3> HIDE DEF T
    <3> QED
      BY <2>2, <2>3, LeastElement
  <2>5. j \in A /\ j < k /\ ~(Cardinality(Below(A, j)) < MaxPreview)
    BY <2>4
  <2>6. Below(A, j) \subseteq Retained(A)
    <3> SUFFICES ASSUME NEW x \in A, x < j PROVE Cardinality(Below(A, x)) < MaxPreview
      BY <1>6 DEF Below
    <3>1. x \in Nat /\ j \in Nat /\ k \in Nat
      BY <2>1, <2>5, KeysAreFinite
    <3>2. x \notin T
      <4> HIDE DEF T
      <4> QED
        BY <2>4, <3>1
    <3>3. x < k
      BY <2>5, <3>1
    <3> QED
      BY <3>2, <3>3
  <2>7. Below(A, j) \subseteq Below(V, k)
    <3>1. j \in Nat /\ k \in Nat
      BY <2>1, <2>5, KeysAreFinite
    <3>2. ASSUME NEW x \in Below(A, j) PROVE x \in V /\ x < k
      <4>1. x \in Nat /\ x < j /\ x \in V
        BY <1>5, <2>6, KeysAreFinite DEF Below
      <4> QED
        BY <2>5, <3>1, <4>1
    <3> QED
      BY <3>2 DEF Below
  <2>8. Cardinality(Below(A, j)) <= Cardinality(Below(V, k))
        /\ Cardinality(Below(A, j)) \in Nat /\ Cardinality(Below(V, k)) \in Nat
    BY <1>7, <1>8, <2>1, <2>5, <2>7
  <2> QED
    BY <1>1, <2>1, <2>5, <2>8
<1>11. Retained(U) \subseteq V /\ Retained(V) \subseteq U
  BY <1>5, <1>6, <1>9
<1> QED
  BY <1>5, <1>9, <1>10

(* Of few keys all are retained, of many the count shows.                  *)
LEMMA RetainedMany ==
  ASSUME NEW A \in SUBSET MetricKeys, NEW D \in SUBSET MetricKeys
  PROVE  /\ Retained(A) \in SUBSET A
         /\ Retained(A \union D) \intersect A \subseteq Retained(A)
         /\ Cardinality(A) > MaxPreview => Cardinality(A \union D) > MaxPreview
         /\ Cardinality(A) > MaxPreview \/ Cardinality(Retained(A) \union D) > MaxPreview
              <=> Cardinality(A \union D) > MaxPreview
<1>1. MaxPreview \in Nat
  BY PreviewAssumption
<1>2. \A S \in SUBSET MetricKeys : Retained(S) = {k \in S : Cardinality(Below(S, k)) < MaxPreview}
  BY DEF Retained, Below
<1>3. \A S \in SUBSET MetricKeys, T \in SUBSET MetricKeys :
        S \subseteq T => /\ Cardinality(S) \in Nat /\ Cardinality(T) \in Nat
                         /\ Cardinality(S) <= Cardinality(T)
  BY KeysAreFinite
<1>4. \A S \in SUBSET MetricKeys, k \in MetricKeys : Below(S, k) \in SUBSET MetricKeys
  BY DEF Below
<1>5. PICK U \in SUBSET MetricKeys : U = A \union D
  OBVIOUS
<1>6. Retained(A) \in SUBSET A
  BY <1>2
<1>7. ASSUME NEW k \in Retained(U), k \in A PROVE k \in Retained(A)
  <2>1. k \in U /\ Cardinality(Below(U, k)) < MaxPreview
    BY <1>2
  <2>2. Below(A, k) \subseteq Below(U, k)
    BY <1>5 DEF Below
  <2>3. Cardinality(Below(A, k)) < MaxPreview
    BY <1>1, <1>3, <1>4, <2>1, <2>2
  <2> QED
    BY <1>2, <1>7, <2>3
<1>8. Cardinality(A) \in Nat /\ Cardinality(U) \in Nat /\ Cardinality(A) <= Cardinality(U)
  BY <1>3, <1>5
<1>9. PICK V \in SUBSET MetricKeys : V = Retained(A) \union D /\ V \subseteq U
  BY <1>5, <1>6
<1>10. Cardinality(V) \in Nat /\ Cardinality(V) <= Cardinality(U)
  BY <1>3, <1>9
<1>11. ASSUME ~(Cardinality(A) > MaxPreview) PROVE V = U
  <2>1. ASSUME NEW k \in A PROVE k \in Retained(A)
    <3>1. PICK B \in SUBSET A : B = Below(A, k)
      BY DEF Below
    <3>2. k \in Nat /\ ~(k < k)
      BY <2>1, KeysAreFinite
    <3>3. B # A
      BY <2>1, <3>1, <3>2 DEF Below
    <3>4. Cardinality(B) <= Cardinality(A) /\ Cardinality(B) # Cardinality(A)
          /\ Cardinality(B) \in Nat
      BY <3>3, KeysAreFinite, FS_Subset
    <3>5. Cardinality(B) < MaxPreview
      BY <1>1, <1>8, <1>11, <3>4
    <3> QED
      BY <1>2, <2>1, <3>1, <3>5
  <2> QED
    BY <1>5, <1>9, <2>1
<1> QED
  BY <1>1, <1>5, <1>6, <1>7, <1>8, <1>9, <1>10, <1>11
-----------------------------------------------------------------------------
(* A nonempty set of the points up to some point has a last.               *)
LEMMA LastPoint ==
  ASSUME NEW n \in Nat, NEW T \in SUBSET (1 .. n), T # {}
  PROVE  \E i \in T : \A j \in T : j <= i
<1> DEFINE R == {n - i : i \in T}
<1>1. R \in SUBSET Nat /\ R # {}
  <2>1. ASSUME NEW i \in T PROVE n - i \in Nat
    <3>1. i \in 1 .. n
      OBVIOUS
    <3> QED
      BY <3>1
  <2> QED
    BY <2>1
<1>2. PICK x \in R : \A y \in R : x <= y
  <2> HIDE DEF R
  <2> QED
    BY <1>1, LeastElement
<1>3. PICK i \in T : x = n - i
  BY <1>2
<1>4. ASSUME NEW j \in T PROVE j <= i
  <2>1. n - j \in R
    OBVIOUS
  <2>2. n - i <= n - j
    <3> HIDE DEF R
    <3> QED
      BY <1>2, <1>3, <2>1
  <2> QED
    BY <2>2
<1> QED
  BY <1>4

(* The latest point of a key after m is the latest of all, and if there is *)
(* none after m, it is the latest up to m.                                 *)
LEMMA LatestOfTwo ==
  ASSUME NEW log \in Seq(SUBSET MetricKeys), NEW n \in 0 .. Len(log), NEW m \in 0 .. n, NEW k
  PROVE  /\ PointsOf(log, k, m + 1, n) # {} => Latest(log, k, 1, n) = Latest(log, k, m + 1, n)
         /\ PointsOf(log, k, m + 1, n) = {} => Latest(log, k, 1, n) = Latest(log, k, 1, m)
<1>1. n \in Nat /\ m \in Nat /\ m <= n
  OBVIOUS
<1>2. PICK A, B, C : /\ A = PointsOf(log, k, 1, n) /\ B = PointsOf(log, k, m + 1, n)
                     /\ C = PointsOf(log, k, 1, m)
  OBVIOUS
<1>3. A = B \union C /\ A \subseteq 1 .. n /\ B \subseteq m + 1 .. n /\ C \subseteq 1 .. m
  <2>1. 1 .. n = (m + 1 .. n) \union (1 .. m)
    BY <1>1
  <2> QED
    BY <1>2, <2>1 DEF PointsOf
<1>4. ASSUME B # {} PROVE Latest(log, k, 1, n) = Latest(log, k, m + 1, n)
  <2>1. PICK i \in B : \A j \in B : j <= i
    <3>1. B \in SUBSET (1 .. n)
      BY <1>1, <1>3
    <3> QED
      BY <1>1, <1>4, <3>1, LastPoint
  <2>2. i \in A /\ \A j \in A : j <= i
    BY <1>1, <1>3, <2>1
  <2>3. \A x \in A : (\A j \in A : j <= x) => x = i
    BY <1>3, <2>2
  <2>4. \A x \in B : (\A j \in B : j <= x) => x = i
    BY <1>1, <1>3, <2>1
  <2>5. LastOf(A) = i
    BY <2>2, <2>3 DEF LastOf
  <2>6. LastOf(B) = i
    BY <2>1, <2>4 DEF LastOf
  <2> QED
    BY <1>2, <2>5, <2>6 DEF Latest
<1>5. ASSUME B = {} PROVE Latest(log, k, 1, n) = Latest(log, k, 1, m)
  <2>1. A = C
    BY <1>3, <1>5
  <2> QED
    BY <1>2, <2>1 DEF Latest
<1> QED
  BY <1>2, <1>4, <1>5

(* The keys of some points.                                                *)
LEMMA KeysOfTwo ==
  ASSUME NEW log \in Seq(SUBSET MetricKeys), NEW n \in 0 .. Len(log), NEW m \in 0 .. n
  PROVE  /\ KeysOf(log, 1, m) \in SUBSET MetricKeys
         /\ KeysOf(log, m + 1, n) \in SUBSET MetricKeys
         /\ KeysOf(log, 1, n) = KeysOf(log, 1, m) \union KeysOf(log, m + 1, n)
         /\ KeysOf(log, 1, m) \intersect SystemKeys = {}
         /\ \A k : k \in KeysOf(log, m + 1, n) <=>
                     k \notin SystemKeys /\ PointsOf(log, k, m + 1, n) # {}
<1>1. Len(log) \in Nat /\ n \in Nat /\ m \in Nat /\ m <= n /\ n <= Len(log)
  OBVIOUS
<1>2. 1 .. n = (1 .. m) \union (m + 1 .. n) /\ 1 .. n \subseteq 1 .. Len(log)
  BY <1>1
<1>3. \A i \in 1 .. Len(log) : log[i] \in SUBSET MetricKeys
  OBVIOUS
<1>4. KeysOf(log, 1, m) \in SUBSET MetricKeys /\ KeysOf(log, m + 1, n) \in SUBSET MetricKeys
  BY <1>2, <1>3 DEF KeysOf
<1>5. KeysOf(log, 1, n) = KeysOf(log, 1, m) \union KeysOf(log, m + 1, n)
  BY <1>2 DEF KeysOf
<1>6. ASSUME NEW k
      PROVE  k \in KeysOf(log, m + 1, n) <=>
               k \notin SystemKeys /\ PointsOf(log, k, m + 1, n) # {}
  <2>1. k \in UNION {log[i] : i \in m + 1 .. n} <=> \E i \in m + 1 .. n : k \in log[i]
    OBVIOUS
  <2>2. PointsOf(log, k, m + 1, n) # {} <=> \E i \in m + 1 .. n : k \in log[i]
    BY DEF PointsOf
  <2> QED
    BY <2>1, <2>2 DEF KeysOf
<1>7. KeysOf(log, 1, m) \intersect SystemKeys = {}
  BY DEF KeysOf
<1> QED
  BY <1>4, <1>5, <1>6, <1>7

(* Merging the points after the m-th into the preview of the first m gives *)
(* the preview of all.                                                     *)
LEMMA MergePoints ==
  ASSUME NEW log \in Seq(SUBSET MetricKeys), NEW n \in 0 .. Len(log), NEW m \in 0 .. n
  PROVE  MergePreview(PreviewIn(log, m).values, LatestPoints(log, m + 1, n),
                      PreviewIn(log, m).truncated) = PreviewIn(log, n)
<1>1. PICK A, D, U : /\ A = KeysOf(log, 1, m) /\ D = KeysOf(log, m + 1, n)
                     /\ U = KeysOf(log, 1, n)
  OBVIOUS
<1>2. A \in SUBSET MetricKeys /\ D \in SUBSET MetricKeys /\ U = A \union D
  BY <1>1, KeysOfTwo
<1>3. PICK current, metrics, truncated :
        /\ current = [k \in Retained(A) |-> Latest(log, k, 1, m)]
        /\ metrics = [k \in D |-> Latest(log, k, m + 1, n)]
        /\ truncated = (Cardinality(A) > MaxPreview)
  OBVIOUS
<1>4. PreviewIn(log, m).values = current /\ PreviewIn(log, m).truncated = truncated
  BY <1>1, <1>3 DEF PreviewIn
<1>5. LatestPoints(log, m + 1, n) = metrics
  <2>1. LatestPoints(log, m + 1, n) =
          [k \in KeysOf(log, m + 1, n) |-> Latest(log, k, m + 1, n)]
    BY DEF LatestPoints, KeysOf, Latest, LastOf, PointsOf
  <2> QED
    BY <1>1, <1>3, <2>1
<1>6. PICK merged : merged = MergePreview(current, metrics, truncated)
  OBVIOUS
<1>7. DOMAIN current = Retained(A) /\ DOMAIN metrics = D /\ truncated \in BOOLEAN
  BY <1>3
<1>8. PICK keys : keys = Retained(A) \union D
  OBVIOUS
<1>9. /\ merged.values = [k \in Retained(keys) |-> Updated(current, metrics)[k]]
      /\ merged.truncated = Incomplete(truncated, keys)
      /\ merged = [values |-> merged.values, truncated |-> merged.truncated]
      /\ \A k \in keys : Updated(current, metrics)[k] =
                            IF k \in DOMAIN metrics THEN metrics[k] ELSE current[k]
  <2>1. keys = DOMAIN current \union DOMAIN metrics
    BY <1>8, <1>7
  <2>2. DOMAIN Updated(current, metrics) = keys
    BY <2>1 DEF Updated
  <2>3. merged.values = [k \in Retained(keys) |-> Updated(current, metrics)[k]]
    BY <1>6, <2>2 DEF MergePreview
  <2>4. merged.truncated = Incomplete(truncated, keys)
    BY <1>6, <2>2 DEF MergePreview, Incomplete
  <2>5. merged = [values |-> merged.values, truncated |-> merged.truncated]
    BY <1>6 DEF MergePreview
  <2>6. \A k \in keys : Updated(current, metrics)[k] =
                         IF k \in DOMAIN metrics THEN metrics[k] ELSE current[k]
    BY <2>1 DEF Updated
  <2> QED
    BY <2>3, <2>4, <2>5, <2>6
<1>10. merged.truncated = (Cardinality(U) > MaxPreview)
  <2>1. Cardinality(A) > MaxPreview \/ Cardinality(keys) > MaxPreview
          <=> Cardinality(U) > MaxPreview
    BY <1>2, <1>8, RetainedMany
  <2>2. (Cardinality(A) > MaxPreview \/ Cardinality(keys) > MaxPreview)
          = (Cardinality(U) > MaxPreview)
    BY <2>1
  <2>3. Incomplete(truncated, keys)
          = (Cardinality(A) > MaxPreview \/ Cardinality(keys) > MaxPreview)
    BY <1>3 DEF Incomplete
  <2>4. Incomplete(truncated, keys) = (Cardinality(U) > MaxPreview)
    BY <2>2, <2>3
  <2>5. merged.truncated = Incomplete(truncated, keys)
    BY <1>9
  <2> QED
    BY <2>4, <2>5, Zenon
<1>11. Retained(keys) = Retained(U)
  BY <1>2, <1>8, RetainedFirst
<1>12. ASSUME NEW k \in Retained(U) PROVE Updated(current, metrics)[k] = Latest(log, k, 1, n)
  <2>1. k \in U
    BY DEF Retained
  <2>2. CASE k \in D
    <3>1. Updated(current, metrics)[k] = Latest(log, k, m + 1, n)
      BY <1>3, <1>8, <1>7, <1>9, <2>2
    <3>2. PointsOf(log, k, m + 1, n) # {}
      BY <1>1, <2>2, KeysOfTwo
    <3> QED
      BY <3>1, <3>2, LatestOfTwo
  <2>3. CASE k \notin D
    <3>1. k \in A /\ k \in Retained(A)
      <4>1. k \in A
        BY <1>2, <2>1, <2>3
      <4>2. Retained(A \union D) \intersect A \subseteq Retained(A)
        BY <1>2, RetainedMany
      <4> QED
        BY <1>2, <4>1, <4>2
    <3>2. Updated(current, metrics)[k] = Latest(log, k, 1, m)
      BY <1>3, <1>8, <1>7, <1>9, <2>3, <3>1
    <3>3. PointsOf(log, k, m + 1, n) = {}
      <4>1. k \notin SystemKeys
        BY <1>1, <3>1, KeysOfTwo
      <4> QED
        BY <1>1, <2>3, <4>1, KeysOfTwo
    <3> QED
      BY <3>2, <3>3, LatestOfTwo
  <2> QED
    BY <2>2, <2>3
<1>13. merged.values = [k \in Retained(U) |-> Latest(log, k, 1, n)]
  BY <1>9, <1>11, <1>12
<1> QED
  BY <1>1, <1>4, <1>5, <1>6, <1>9, <1>10, <1>13 DEF PreviewIn

(* Merging one's own preview into that of fewer points gives one's own.    *)
LEMMA MergePreviews ==
  ASSUME NEW log \in Seq(SUBSET MetricKeys), NEW n \in 0 .. Len(log), NEW m \in 0 .. n
  PROVE  MergePreview(PreviewIn(log, m).values, PreviewIn(log, n).values,
                      PreviewIn(log, m).truncated \/ PreviewIn(log, n).truncated)
           = PreviewIn(log, n)
<1>1. PICK A, D, U : /\ A = KeysOf(log, 1, m) /\ D = KeysOf(log, m + 1, n)
                     /\ U = KeysOf(log, 1, n)
  OBVIOUS
<1>2. /\ A \in SUBSET MetricKeys /\ D \in SUBSET MetricKeys /\ U = A \union D
      /\ U \in SUBSET MetricKeys /\ A \union U = U /\ U \union A = U
  BY <1>1, KeysOfTwo
<1>3. PICK current, metrics, truncated :
        /\ current = [k \in Retained(A) |-> Latest(log, k, 1, m)]
        /\ metrics = [k \in Retained(U) |-> Latest(log, k, 1, n)]
        /\ truncated = (Cardinality(A) > MaxPreview \/ Cardinality(U) > MaxPreview)
  OBVIOUS
<1>4. /\ PreviewIn(log, m).values = current /\ PreviewIn(log, n).values = metrics
      /\ truncated = (PreviewIn(log, m).truncated \/ PreviewIn(log, n).truncated)
  BY <1>1, <1>3 DEF PreviewIn
<1>5. PICK merged : merged = MergePreview(current, metrics, truncated)
  OBVIOUS
<1>6. DOMAIN current = Retained(A) /\ DOMAIN metrics = Retained(U) /\ truncated \in BOOLEAN
  BY <1>3
<1>7. PICK keys : keys = Retained(A) \union Retained(U)
  OBVIOUS
<1>8. /\ merged.values = [k \in Retained(keys) |-> Updated(current, metrics)[k]]
      /\ merged.truncated = Incomplete(truncated, keys)
      /\ merged = [values |-> merged.values, truncated |-> merged.truncated]
      /\ \A k \in keys : Updated(current, metrics)[k] =
                            IF k \in DOMAIN metrics THEN metrics[k] ELSE current[k]
  <2>1. keys = DOMAIN current \union DOMAIN metrics
    BY <1>7, <1>6
  <2>2. DOMAIN Updated(current, metrics) = keys
    BY <2>1 DEF Updated
  <2>3. merged.values = [k \in Retained(keys) |-> Updated(current, metrics)[k]]
    BY <1>5, <2>2 DEF MergePreview
  <2>4. merged.truncated = Incomplete(truncated, keys)
    BY <1>5, <2>2 DEF MergePreview, Incomplete
  <2>5. merged = [values |-> merged.values, truncated |-> merged.truncated]
    BY <1>5 DEF MergePreview
  <2>6. \A k \in keys : Updated(current, metrics)[k] =
                         IF k \in DOMAIN metrics THEN metrics[k] ELSE current[k]
    BY <2>1 DEF Updated
  <2> QED
    BY <2>3, <2>4, <2>5, <2>6
<1>9. Retained(A) \in SUBSET MetricKeys /\ Retained(U) \in SUBSET U
  BY <1>2, RetainedMany
<1>10. Retained(keys) = Retained(U)
  <2>1. Retained(Retained(U) \union Retained(A)) = Retained(U \union Retained(A))
    BY <1>2, <1>9, RetainedFirst
  <2>2. U \union Retained(A) = U
    BY <1>2, RetainedMany
  <2>3. Retained(U) \union Retained(A) = keys
    BY <1>7
  <2> QED
    BY <2>1, <2>2, <2>3
<1>11. merged.truncated = (Cardinality(U) > MaxPreview)
  <2>1. Cardinality(A) > MaxPreview => Cardinality(U) > MaxPreview
    BY <1>2, RetainedMany
  <2>2. Cardinality(keys) > MaxPreview => Cardinality(U) > MaxPreview
    <3>1. keys \in SUBSET U
      BY <1>2, <1>7, <1>9, RetainedMany
    <3>2. /\ Cardinality(keys) \in Nat /\ Cardinality(U) \in Nat
          /\ Cardinality(keys) <= Cardinality(U)
      BY <1>2, <3>1, KeysAreFinite
    <3> QED
      BY <3>2, PreviewAssumption
  <2>3. ((Cardinality(A) > MaxPreview \/ Cardinality(U) > MaxPreview)
           \/ Cardinality(keys) > MaxPreview) = (Cardinality(U) > MaxPreview)
    BY <2>1, <2>2
  <2>4. Incomplete(truncated, keys)
          = ((Cardinality(A) > MaxPreview \/ Cardinality(U) > MaxPreview)
               \/ Cardinality(keys) > MaxPreview)
    BY <1>3 DEF Incomplete
  <2>5. Incomplete(truncated, keys) = (Cardinality(U) > MaxPreview)
    BY <2>3, <2>4
  <2>6. merged.truncated = Incomplete(truncated, keys)
    BY <1>8
  <2> QED
    BY <2>5, <2>6, Zenon
<1>12. \A k \in Retained(U) : Updated(current, metrics)[k] = Latest(log, k, 1, n)
  BY <1>3, <1>7, <1>6, <1>8
<1>13. merged.values = [k \in Retained(U) |-> Latest(log, k, 1, n)]
  BY <1>8, <1>10, <1>12
<1> QED
  BY <1>1, <1>4, <1>5, <1>8, <1>11, <1>13 DEF PreviewIn

(* Merging nothing changes nothing.                                        *)
LEMMA NothingIsMerged ==
  ASSUME NEW log \in Seq(SUBSET MetricKeys), NEW n \in 0 .. Len(log)
  PROVE  /\ NoPreview = PreviewIn(log, 0)
         /\ MergePreview(PreviewIn(log, n).values, NoPreview.values,
                         PreviewIn(log, n).truncated \/ NoPreview.truncated)
              = PreviewIn(log, n)
<1>1. KeysOf(log, 1, 0) = {}
  BY DEF KeysOf
<1>2. Cardinality(KeysOf(log, 1, 0)) = 0 /\ Retained({}) = {}
  BY <1>1, FS_EmptySet DEF Retained
<1>3. PreviewIn(log, 0).values = <<>>
  <2>1. PICK S : S = Retained(KeysOf(log, 1, 0)) /\ S = {}
    BY <1>1, <1>2
  <2>2. PreviewIn(log, 0).values = [k \in S |-> Latest(log, k, 1, 0)]
    BY <2>1 DEF PreviewIn
  <2>3. [k \in S |-> Latest(log, k, 1, 0)] = <<>>
    BY <2>1
  <2> QED
    BY <2>2, <2>3
<1>4. PreviewIn(log, 0).truncated = FALSE
  <2>1. PreviewIn(log, 0).truncated = (Cardinality(KeysOf(log, 1, 0)) > MaxPreview)
    BY DEF PreviewIn
  <2>2. ~(Cardinality(KeysOf(log, 1, 0)) > MaxPreview)
    BY <1>2, PreviewAssumption
  <2>3. (Cardinality(KeysOf(log, 1, 0)) > MaxPreview) = FALSE
    BY <2>2
  <2> QED
    BY <2>1, <2>3, Zenon
<1>5. NoPreview = PreviewIn(log, 0)
  BY <1>3, <1>4 DEF PreviewIn, NoPreview
<1>6. NoPreview.values = LatestPoints(log, n + 1, n)
  <2>1. n + 1 .. n = {}
    OBVIOUS
  <2> QED
    BY <2>1 DEF NoPreview, LatestPoints
<1>7. (PreviewIn(log, n).truncated \/ NoPreview.truncated) = PreviewIn(log, n).truncated
  <2>1. PreviewIn(log, n).truncated \in BOOLEAN
    BY DEF PreviewIn
  <2>2. NoPreview.truncated = FALSE
    BY DEF NoPreview
  <2>3. \A t \in BOOLEAN : (t \/ FALSE) = t
    OBVIOUS
  <2> QED
    BY <2>1, <2>2, <2>3, Zenon
<1>8. n \in 0 .. n
  OBVIOUS
<1> QED
  BY <1>5, <1>6, <1>7, <1>8, MergePoints
-----------------------------------------------------------------------------
(* A number is a reading of itself, and its readings are read as further   *)
(* ones.                                                                   *)
LEMMA ReadAgain ==
  ASSUME NEW x \in Numbers
  PROVE  x \in Readings(x) /\ \A r \in Readings(x) : Parsed[r] \in Readings(x)
<1>1. \A n \in Numbers : Parsed[n] \in Numbers
  BY NumberAssumption
<1>2. ASSUME NEW r \in Readings(x), NEW S \in KeptByParser, x \in S
      PROVE  Parsed[r] \in S
  BY <1>2 DEF Readings, KeptByParser
<1> QED
  BY <1>1, <1>2 DEF Readings

(* A number that the parser keeps has no other reading.                    *)
LEMMA ReadExactly ==
  ASSUME NEW x \in Numbers, Parsed[x] = x, NEW r \in Readings(x)
  PROVE  r = x
<1>1. {x} \in KeptByParser
  BY DEF KeptByParser
<1> QED
  BY <1>1 DEF Readings

(* parse_document changes no keys and no sources.                          *)
LEMMA ReadKeeps ==
  ASSUME NEW values, Faithful(values)
  PROVE  Faithful(Read(values)) /\ Sources(Read(values)) = Sources(values)
<1>1. ASSUME NEW k \in DOMAIN values
      PROVE  /\ [values[k] EXCEPT !.number = Parsed[@]] \in Values
             /\ [values[k] EXCEPT !.number = Parsed[@]].point = values[k].point
  <2>1. PICK v \in Values : v = values[k]
    BY DEF Faithful
  <2>2. /\ v \in [point : 1 .. MaxPoints, number : Numbers]
        /\ v.number \in Readings(Logged[v.point]) /\ Logged[v.point] \in Numbers
    BY NumberAssumption DEF Values
  <2>3. Parsed[v.number] \in Numbers /\ Parsed[v.number] \in Readings(Logged[v.point])
    BY <2>2, NumberAssumption, ReadAgain
  <2>4. /\ [v EXCEPT !.number = Parsed[@]] \in [point : 1 .. MaxPoints, number : Numbers]
        /\ [v EXCEPT !.number = Parsed[@]].point = v.point
        /\ [v EXCEPT !.number = Parsed[@]].number = Parsed[v.number]
    BY <2>2, <2>3
  <2> QED
    BY <2>1, <2>3, <2>4 DEF Values
<1> QED
  BY <1>1 DEF Faithful, Sources, Read

(* The points that are logged have the numbers they log.                   *)
LEMMA LoggedIsFaithful ==
  ASSUME NEW log \in Seq(SUBSET MetricKeys), Len(log) <= MaxPoints,
         NEW m \in Nat, NEW n \in 0 .. Len(log)
  PROVE  /\ Faithful(LatestMetrics(log, m + 1, n))
         /\ Sources(LatestMetrics(log, m + 1, n)) = LatestPoints(log, m + 1, n)
<1>1. PICK latest : latest = LatestPoints(log, m + 1, n)
  OBVIOUS
<1>2. /\ DOMAIN latest = KeysOf(log, m + 1, n)
      /\ latest = [k \in DOMAIN latest |-> Latest(log, k, m + 1, n)]
  BY <1>1 DEF LatestPoints, KeysOf, Latest, LastOf, PointsOf
<1>3. ASSUME NEW k \in DOMAIN latest
      PROVE  latest[k] \in 1 .. MaxPoints
  <2>1. PICK i \in m + 1 .. n : k \in log[i]
    BY <1>2 DEF KeysOf
  <2>2. PointsOf(log, k, m + 1, n) \in SUBSET (1 .. n) /\ PointsOf(log, k, m + 1, n) # {}
    BY <2>1 DEF PointsOf
  <2>3. \E j \in PointsOf(log, k, m + 1, n) : \A h \in PointsOf(log, k, m + 1, n) : h <= j
    <3>1. n \in Nat
      OBVIOUS
    <3>2. PICK T \in SUBSET (1 .. n) : T = PointsOf(log, k, m + 1, n)
      BY <2>2
    <3> QED
      BY <2>2, <3>1, <3>2, LastPoint
  <2>4. Latest(log, k, m + 1, n) \in PointsOf(log, k, m + 1, n)
    BY <2>3 DEF Latest, LastOf
  <2>5. 1 .. n \subseteq 1 .. MaxPoints
    BY PreviewAssumption
  <2> QED
    BY <1>2, <2>2, <2>4, <2>5
<1>4. ASSUME NEW i \in 1 .. MaxPoints
      PROVE  [point |-> i, number |-> Logged[i]] \in Values
  <2>1. Logged[i] \in Numbers
    BY NumberAssumption
  <2> QED
    BY <2>1, ReadAgain DEF Values
<1>5. LatestMetrics(log, m + 1, n) =
        [k \in DOMAIN latest |-> [point |-> latest[k], number |-> Logged[latest[k]]]]
  BY <1>1 DEF LatestMetrics, NumbersOf
<1>6. Faithful(LatestMetrics(log, m + 1, n))
  BY <1>3, <1>4, <1>5 DEF Faithful
<1>7. Sources(LatestMetrics(log, m + 1, n)) = latest
  BY <1>2, <1>5 DEF Sources
<1> QED
  BY <1>1, <1>6, <1>7

(* A merge looks at the keys only.                                         *)
LEMMA MergeIsFaithful ==
  ASSUME NEW current, Faithful(current), NEW metrics, Faithful(metrics), NEW truncated
  PROVE  /\ Faithful(MergePreview(current, metrics, truncated).values)
         /\ Sources(MergePreview(current, metrics, truncated).values)
              = MergePreview(Sources(current), Sources(metrics), truncated).values
         /\ MergePreview(current, metrics, truncated).truncated
              = MergePreview(Sources(current), Sources(metrics), truncated).truncated
<1>1. PICK keys : keys = DOMAIN current \union DOMAIN metrics
  OBVIOUS
<1>2. DOMAIN Sources(current) = DOMAIN current /\ DOMAIN Sources(metrics) = DOMAIN metrics
  BY DEF Sources
<1>3. PICK U, V : /\ U = Updated(current, metrics)
                  /\ V = Updated(Sources(current), Sources(metrics))
  OBVIOUS
<1>4. /\ DOMAIN U = keys /\ DOMAIN V = keys
      /\ \A k \in keys : U[k] \in Values /\ V[k] = U[k].point
  <2>1. /\ U = [k \in keys |-> IF k \in DOMAIN metrics THEN metrics[k] ELSE current[k]]
        /\ V = [k \in keys |-> IF k \in DOMAIN metrics THEN Sources(metrics)[k]
                                                       ELSE Sources(current)[k]]
    BY <1>1, <1>2, <1>3 DEF Updated
  <2>2. \A k \in DOMAIN metrics : metrics[k] \in Values /\ Sources(metrics)[k] = metrics[k].point
    BY DEF Faithful, Sources
  <2>3. \A k \in DOMAIN current : current[k] \in Values /\ Sources(current)[k] = current[k].point
    BY DEF Faithful, Sources
  <2> QED
    BY <1>1, <2>1, <2>2, <2>3
<1>5. Retained(keys) \subseteq keys
  BY DEF Retained
<1>6. /\ MergePreview(current, metrics, truncated).values = [k \in Retained(keys) |-> U[k]]
      /\ MergePreview(Sources(current), Sources(metrics), truncated).values
           = [k \in Retained(keys) |-> V[k]]
  BY <1>3, <1>4 DEF MergePreview
<1>7. MergePreview(current, metrics, truncated).truncated
        = MergePreview(Sources(current), Sources(metrics), truncated).truncated
  BY <1>3, <1>4 DEF MergePreview
<1>8. Faithful([k \in Retained(keys) |-> U[k]])
  BY <1>4, <1>5 DEF Faithful
<1>9. Sources([k \in Retained(keys) |-> U[k]]) = [k \in Retained(keys) |-> V[k]]
  BY <1>4, <1>5 DEF Sources
<1> QED
  BY <1>6, <1>7, <1>8, <1>9

(* So the preview that results fits if its sources do.                     *)
LEMMA MergeFits ==
  ASSUME NEW log, NEW n, NEW current, Faithful(current), NEW metrics, Faithful(metrics),
         NEW truncated,
         MergePreview(Sources(current), Sources(metrics), truncated) = PreviewIn(log, n)
  PROVE  IsPreviewOf(MergePreview(current, metrics, truncated), log, n)
<1>1. PICK p : p = MergePreview(current, metrics, truncated)
  OBVIOUS
<1>2. /\ Faithful(p.values) /\ Sources(p.values) = PreviewIn(log, n).values
      /\ p.truncated = PreviewIn(log, n).truncated
  BY <1>1, MergeIsFaithful
<1> QED
  BY <1>1, <1>2 DEF IsPreviewOf

(* Merging readings of the points after the m-th into a preview of the     *)
(* first m gives one of all.                                               *)
LEMMA MergePointsFits ==
  ASSUME NEW log \in Seq(SUBSET MetricKeys), NEW n \in 0 .. Len(log), NEW m \in 0 .. n,
         NEW current, NEW metrics, NEW truncated,
         Faithful(current), Sources(current) = PreviewIn(log, m).values,
         truncated = PreviewIn(log, m).truncated,
         Faithful(metrics), Sources(metrics) = LatestPoints(log, m + 1, n)
  PROVE  IsPreviewOf(MergePreview(current, metrics, truncated), log, n)
<1>1. MergePreview(Sources(current), Sources(metrics), truncated) = PreviewIn(log, n)
  BY MergePoints
<1> QED
  BY <1>1, MergeFits

(* Merging one's own preview into that of fewer points gives one's own.    *)
LEMMA MergeOwnFits ==
  ASSUME NEW log \in Seq(SUBSET MetricKeys), NEW n \in 0 .. Len(log), NEW m \in 0 .. n,
         NEW current, NEW own, NEW truncated,
         Faithful(current), Sources(current) = PreviewIn(log, m).values, IsPreviewOf(own, log, n),
         truncated = (PreviewIn(log, m).truncated \/ PreviewIn(log, n).truncated)
  PROVE  IsPreviewOf(MergePreview(current, own.values, truncated), log, n)
<1>1. Faithful(own.values) /\ Sources(own.values) = PreviewIn(log, n).values
  BY DEF IsPreviewOf
<1>2. MergePreview(Sources(current), Sources(own.values), truncated) = PreviewIn(log, n)
  BY <1>1, MergePreviews
<1> QED
  BY <1>1, <1>2, MergeFits

(* Of nothing: the preview of no points, and what is merged after a fresh  *)
(* start.                                                                  *)
LEMMA EmptyFits ==
  ASSUME NEW log \in Seq(SUBSET MetricKeys)
  PROVE  IsPreviewOf(NoPreview, log, 0)
<1>1. Faithful(NoPreview.values) /\ Sources(NoPreview.values) = NoPreview.values
  BY DEF Faithful, Sources, NoPreview
<1>2. 0 \in 0 .. Len(log)
  OBVIOUS
<1>3. NoPreview = PreviewIn(log, 0)
  BY <1>2, NothingIsMerged
<1> QED
  BY <1>1, <1>3 DEF IsPreviewOf

LEMMA MergeNothingFits ==
  ASSUME NEW log \in Seq(SUBSET MetricKeys), NEW n \in 0 .. Len(log),
         NEW current, NEW truncated,
         Faithful(current), Sources(current) = PreviewIn(log, n).values,
         truncated = (PreviewIn(log, n).truncated \/ NoPreview.truncated)
  PROVE  IsPreviewOf(MergePreview(current, NoPreview.values, truncated), log, n)
<1>1. Faithful(NoPreview.values) /\ Sources(NoPreview.values) = NoPreview.values
  BY DEF Faithful, Sources, NoPreview
<1>2. MergePreview(Sources(current), Sources(NoPreview.values), truncated) = PreviewIn(log, n)
  BY <1>1, NothingIsMerged
<1> QED
  BY <1>1, <1>2, MergeFits
-----------------------------------------------------------------------------
(* The previews, each of the points that it counts.                        *)
PreviewInv ==
  /\ points \in Seq(SUBSET MetricKeys) /\ Len(points) <= MaxPoints
  /\ mergedUpTo \in 0 .. Len(points) /\ savedUpTo \in 0 .. Len(points)
  /\ storedUpTo \in 0 .. Len(points)
  /\ IsPreviewOf(preview, points, mergedUpTo) /\ IsPreviewOf(saved, points, savedUpTo)
  /\ IsPreviewOf(serverPreview, points, storedUpTo)

(* At first there are no points and the previews are empty.                *)
LEMMA FirstPreviews == PreviewInit => PreviewInv
<1> SUFFICES ASSUME PreviewInit PROVE PreviewInv
  OBVIOUS
<1>1. /\ points = <<>> /\ mergedUpTo = 0 /\ savedUpTo = 0 /\ storedUpTo = 0
      /\ preview = NoPreview /\ saved = NoPreview /\ serverPreview = NoPreview
  BY DEF PreviewInit
<1>2. points \in Seq(SUBSET MetricKeys) /\ Len(points) = 0
  BY <1>1
<1>3. IsPreviewOf(NoPreview, points, 0)
  BY <1>2, EmptyFits
<1> QED
  BY <1>1, <1>2, <1>3, PreviewAssumption DEF PreviewInv

(* The invariant of the next state, from the previews there.               *)
LEMMA NextPreviews ==
  ASSUME points' \in Seq(SUBSET MetricKeys), Len(points') <= MaxPoints,
         mergedUpTo' \in 0 .. Len(points'), savedUpTo' \in 0 .. Len(points'),
         storedUpTo' \in 0 .. Len(points'), IsPreviewOf(preview', points', mergedUpTo'),
         IsPreviewOf(saved', points', savedUpTo'),
         IsPreviewOf(serverPreview', points', storedUpTo')
  PROVE  PreviewInv'
<1>1. /\ IsPreviewOf(preview, points, mergedUpTo)'
           <=> IsPreviewOf(preview', points', mergedUpTo')
      /\ IsPreviewOf(saved, points, savedUpTo)'
           <=> IsPreviewOf(saved', points', savedUpTo')
      /\ IsPreviewOf(serverPreview, points, storedUpTo)'
           <=> IsPreviewOf(serverPreview', points', storedUpTo')
  BY DEF IsPreviewOf, Faithful, Sources, PreviewIn, KeysOf, Latest, LastOf, PointsOf
<1> QED
  BY <1>1 DEF PreviewInv

(* One point more does not change the previews of those before it.         *)
LEMMA PreviewOfFirst ==
  ASSUME NEW log \in Seq(SUBSET MetricKeys), NEW keys \in SUBSET MetricKeys,
         NEW n \in 0 .. Len(log)
  PROVE  /\ Append(log, keys) \in Seq(SUBSET MetricKeys)
         /\ Len(Append(log, keys)) = Len(log) + 1
         /\ PreviewIn(Append(log, keys), n) = PreviewIn(log, n)
<1>1. PICK new \in Seq(SUBSET MetricKeys) : new = Append(log, keys)
  <2>1. Append(log, keys) \in Seq(SUBSET MetricKeys)
    OBVIOUS
  <2> QED
    BY <2>1
<1>2. Len(new) = Len(log) + 1 /\ \A i \in 1 .. n : new[i] = log[i]
  BY <1>1
<1>3. KeysOf(new, 1, n) = KeysOf(log, 1, n)
  BY <1>2 DEF KeysOf
<1>4. \A k : PointsOf(new, k, 1, n) = PointsOf(log, k, 1, n)
  BY <1>2 DEF PointsOf
<1>5. \A k : Latest(new, k, 1, n) = Latest(log, k, 1, n)
  BY <1>4 DEF Latest
<1>6. PreviewIn(new, n) = PreviewIn(log, n)
  BY <1>3, <1>5 DEF PreviewIn
<1> QED
  BY <1>1, <1>2, <1>6

(* Of one point more: _append_metrics and a step of recover_summary.       *)
LEMMA MergeOne ==
  ASSUME NEW log \in Seq(SUBSET MetricKeys), Len(log) <= MaxPoints,
         NEW n \in 0 .. Len(log) - 1, NEW p, IsPreviewOf(p, log, n)
  PROVE  IsPreviewOf(MergePreview(p.values, LatestMetrics(log, n + 1, n + 1), p.truncated),
              log, n + 1)
<1>1. Len(log) \in Nat /\ n + 1 \in 0 .. Len(log) /\ n \in 0 .. n + 1 /\ n \in Nat
  OBVIOUS
<1>2. PICK m : m = n + 1
  OBVIOUS
<1>3. m \in 0 .. Len(log) /\ n \in 0 .. m
  BY <1>1, <1>2
<1>4. PICK metrics : metrics = LatestMetrics(log, n + 1, m)
  OBVIOUS
<1>5. Faithful(metrics) /\ Sources(metrics) = LatestPoints(log, n + 1, m)
  BY <1>1, <1>3, <1>4, LoggedIsFaithful
<1>6. IsPreviewOf(MergePreview(p.values, metrics, p.truncated), log, m)
  BY <1>3, <1>5, MergePointsFits DEF IsPreviewOf
<1> QED
  BY <1>2, <1>4, <1>6

(* _append_metrics.                                                        *)
LEMMA LogPointKeeps ==
  ASSUME PreviewInv, LogPoint PROVE PreviewInv'
<1>1. PICK keys \in SUBSET MetricKeys : points' = Append(points, keys)
  BY DEF LogPoint
<1>2. PICK log, new : log = points /\ new = points'
  OBVIOUS
<1>3. /\ log \in Seq(SUBSET MetricKeys) /\ Len(log) \in Nat /\ Len(log) < MaxPoints
      /\ mergedUpTo = Len(log) /\ savedUpTo \in 0 .. Len(log) /\ storedUpTo \in 0 .. Len(log)
      /\ IsPreviewOf(preview, log, Len(log)) /\ IsPreviewOf(saved, log, savedUpTo)
      /\ IsPreviewOf(serverPreview, log, storedUpTo)
  BY <1>2 DEF LogPoint, Recovered, PreviewInv
<1>4. new = Append(log, keys)
  BY <1>1, <1>2
<1>5. /\ new \in Seq(SUBSET MetricKeys) /\ Len(new) = Len(log) + 1
      /\ \A n \in 0 .. Len(log) : PreviewIn(new, n) = PreviewIn(log, n)
  BY <1>3, <1>4, PreviewOfFirst
<1>6. Len(new) <= MaxPoints
  BY <1>3, <1>5, PreviewAssumption
<1>7. /\ preview' = MergePreview(preview.values, LatestMetrics(new, Len(new), Len(new)),
                                 preview.truncated)
      /\ mergedUpTo' = Len(new)
  BY <1>2 DEF LogPoint, MergePoint
<1>8. IsPreviewOf(preview, new, Len(log)) /\ IsPreviewOf(saved, new, savedUpTo)
      /\ IsPreviewOf(serverPreview, new, storedUpTo)
  BY <1>3, <1>5 DEF IsPreviewOf
<1>9. IsPreviewOf(preview', new, Len(new))
  <2>1. PICK n : n = Len(log)
    OBVIOUS
  <2>2. n \in 0 .. Len(new) - 1 /\ Len(new) = n + 1
    BY <1>3, <1>5, <2>1
  <2>3. IsPreviewOf(MergePreview(preview.values, LatestMetrics(new, n + 1, n + 1),
                          preview.truncated), new, n + 1)
    BY <1>5, <1>6, <1>8, <2>1, <2>2, MergeOne
  <2> QED
    BY <1>7, <2>2, <2>3
<1>10. /\ saved' = saved /\ savedUpTo' = savedUpTo /\ storedUpTo' = storedUpTo
       /\ serverPreview' = serverPreview
  BY DEF LogPoint
<1>11. /\ mergedUpTo' \in 0 .. Len(new) /\ savedUpTo' \in 0 .. Len(new)
       /\ storedUpTo' \in 0 .. Len(new)
  BY <1>3, <1>5, <1>7, <1>10
<1> QED
  BY <1>2, <1>5, <1>6, <1>7, <1>8, <1>9, <1>10, <1>11, NextPreviews

(* When no point is logged, the previews are to be those of the points     *)
(* that they now count.                                                    *)
LEMMA SamePoints ==
  ASSUME PreviewInv, points' = points,
         mergedUpTo' \in 0 .. Len(points), savedUpTo' \in 0 .. Len(points),
         storedUpTo' \in 0 .. Len(points), IsPreviewOf(preview', points, mergedUpTo'),
         IsPreviewOf(saved', points, savedUpTo'),
         IsPreviewOf(serverPreview', points, storedUpTo')
  PROVE  PreviewInv'
BY NextPreviews DEF PreviewInv

(* _checkpoint_summary.                                                    *)
LEMMA SavePreviewKeeps ==
  ASSUME PreviewInv, SavePreview PROVE PreviewInv'
<1>1. Len(points) \in 0 .. Len(points)
  BY DEF PreviewInv
<1> QED
  BY <1>1, SamePoints DEF PreviewInv, SavePreview, Recovered

(* register_batch, of any number of points.                                *)
LEMMA StorePointsKeeps ==
  ASSUME PreviewInv, StorePoints PROVE PreviewInv'
<1>1. PICK log, m, n : log = points /\ m = storedUpTo /\ n = storedUpTo'
  OBVIOUS
<1>2. /\ log \in Seq(SUBSET MetricKeys) /\ Len(log) <= MaxPoints
      /\ m \in 0 .. Len(log) /\ n \in m + 1 .. Len(log) /\ IsPreviewOf(serverPreview, log, m)
  BY <1>1 DEF PreviewInv, StorePoints
<1>3. n \in 0 .. Len(log) /\ m \in 0 .. n /\ m \in Nat
  BY <1>2
<1>4. PICK current, metrics : /\ current = Read(serverPreview.values)
                              /\ metrics = Read(LatestMetrics(log, m + 1, n))
  OBVIOUS
<1>5. Faithful(current) /\ Sources(current) = PreviewIn(log, m).values
  BY <1>2, <1>4, ReadKeeps DEF IsPreviewOf
<1>6. Faithful(metrics) /\ Sources(metrics) = LatestPoints(log, m + 1, n)
  <2>1. /\ Faithful(LatestMetrics(log, m + 1, n))
        /\ Sources(LatestMetrics(log, m + 1, n)) = LatestPoints(log, m + 1, n)
    BY <1>2, <1>3, LoggedIsFaithful
  <2> QED
    BY <1>4, <2>1, ReadKeeps
<1>7. serverPreview.truncated = PreviewIn(log, m).truncated
  BY <1>2 DEF IsPreviewOf
<1>8. IsPreviewOf(MergePreview(current, metrics, serverPreview.truncated), log, n)
  BY <1>2, <1>3, <1>5, <1>6, <1>7, MergePointsFits
<1>9. IsPreviewOf(serverPreview', points, storedUpTo')
  BY <1>1, <1>4, <1>8 DEF StorePoints
<1>10. /\ points' = points /\ preview' = preview /\ mergedUpTo' = mergedUpTo
       /\ saved' = saved /\ savedUpTo' = savedUpTo
  BY DEF StorePoints, sdk
<1>11. storedUpTo' \in 0 .. Len(points)
  BY <1>1, <1>3
<1> QED
  BY <1>9, <1>10, <1>11, SamePoints DEF PreviewInv

(* An answer of the server counts no point that the SDK does not count.    *)
LEMMA MergeAnswerKeeps ==
  ASSUME PreviewInv, Recovered, NEW own, MergeAnswer(own),
         own = preview \/ (own = NoPreview /\ storedUpTo = Len(points))
  PROVE  PreviewInv'
<1>1. PICK log, m, n : log = points /\ m = storedUpTo /\ n = Len(points)
  OBVIOUS
<1>2. /\ log \in Seq(SUBSET MetricKeys) /\ n = Len(log) /\ m \in 0 .. n /\ n \in 0 .. Len(log)
      /\ IsPreviewOf(serverPreview, log, m) /\ IsPreviewOf(preview, log, n) /\ mergedUpTo = n
  BY <1>1 DEF PreviewInv, Recovered
<1>3. PICK current, truncated : /\ current = Read(serverPreview.values)
                                /\ truncated = (serverPreview.truncated \/ own.truncated)
  OBVIOUS
<1>4. Faithful(current) /\ Sources(current) = PreviewIn(log, m).values
  BY <1>2, <1>3, ReadKeeps DEF IsPreviewOf
<1>5. IsPreviewOf(MergePreview(current, own.values, truncated), log, n)
  <2>1. CASE own = preview
    <3>1. truncated = (PreviewIn(log, m).truncated \/ PreviewIn(log, n).truncated)
      BY <1>2, <1>3, <2>1, Zenon DEF IsPreviewOf
    <3> QED
      BY <1>2, <1>4, <2>1, <3>1, MergeOwnFits
  <2>2. CASE own = NoPreview /\ m = n
    <3>1. truncated = (PreviewIn(log, n).truncated \/ NoPreview.truncated)
      BY <1>2, <1>3, <2>2, Zenon DEF IsPreviewOf
    <3> QED
      BY <1>2, <1>4, <2>2, <3>1, MergeNothingFits
  <2> QED
    BY <1>1, <2>1, <2>2
<1>6. IsPreviewOf(preview', points, n) /\ IsPreviewOf(saved', points, n) /\ savedUpTo' = n
  BY <1>1, <1>3, <1>5 DEF MergeAnswer
<1>7. /\ points' = points /\ mergedUpTo' = mergedUpTo /\ storedUpTo' = storedUpTo
      /\ serverPreview' = serverPreview
  BY DEF MergeAnswer
<1>8. /\ mergedUpTo' \in 0 .. Len(points) /\ savedUpTo' \in 0 .. Len(points)
      /\ storedUpTo' \in 0 .. Len(points)
  BY <1>1, <1>2, <1>6, <1>7
<1>9. /\ IsPreviewOf(preview', points, mergedUpTo') /\ IsPreviewOf(saved', points, savedUpTo')
      /\ IsPreviewOf(serverPreview', points, storedUpTo')
  BY <1>1, <1>2, <1>6, <1>7
<1> QED
  BY <1>7, <1>8, <1>9, SamePoints

(* recover_summary, from its start to each point it merges.                *)
LEMMA RecoveryKeeps ==
  ASSUME PreviewInv, StartRecovery \/ RecoverPoint PROVE PreviewInv'
<1>1. CASE StartRecovery
  BY <1>1, SamePoints DEF StartRecovery, PreviewInv
<1>2. CASE RecoverPoint
  <2>1. PICK log, n : log = points /\ n = mergedUpTo
    OBVIOUS
  <2>2. /\ log \in Seq(SUBSET MetricKeys) /\ Len(log) <= MaxPoints
        /\ n \in 0 .. Len(log) - 1 /\ IsPreviewOf(preview, log, n)
    BY <1>2, <2>1 DEF RecoverPoint, Recovered, PreviewInv
  <2>3. points' = points /\ mergedUpTo' = n + 1
        /\ preview' = MergePreview(preview.values, LatestMetrics(log, n + 1, n + 1),
                                   preview.truncated)
    BY <1>2, <2>1 DEF RecoverPoint, MergePoint
  <2>4. IsPreviewOf(MergePreview(preview.values, LatestMetrics(log, n + 1, n + 1),
                          preview.truncated), log, n + 1)
    BY <2>2, MergeOne
  <2>5. IsPreviewOf(preview', points, mergedUpTo')
    BY <2>1, <2>3, <2>4
  <2>6. mergedUpTo' \in 0 .. Len(points)
    BY <2>1, <2>2, <2>3
  <2>7. /\ saved' = saved /\ savedUpTo' = savedUpTo /\ storedUpTo' = storedUpTo
        /\ serverPreview' = serverPreview
    BY <1>2 DEF RecoverPoint
  <2> QED
    BY <2>3, <2>5, <2>6, <2>7, SamePoints DEF PreviewInv
<1> QED
  BY <1>1, <1>2

(* Every step keeps the previews.                                          *)
LEMMA PreviewStep ==
  PreviewInv /\ [PreviewNext]_previewVars => PreviewInv'
<1> SUFFICES ASSUME PreviewInv, [PreviewNext]_previewVars PROVE PreviewInv'
  OBVIOUS
<1>1. CASE LogPoint
  BY <1>1, LogPointKeeps
<1>2. CASE SavePreview
  BY <1>2, SavePreviewKeeps
<1>3. CASE StorePoints
  BY <1>3, StorePointsKeeps
<1>4. CASE UpdateSummary
  BY <1>4, MergeAnswerKeeps DEF UpdateSummary
<1>5. CASE ResumeAfresh
  BY <1>5, MergeAnswerKeeps DEF ResumeAfresh
<1>6. CASE StartRecovery \/ RecoverPoint
  BY <1>6, RecoveryKeeps
<1>7. CASE UNCHANGED previewVars
  BY <1>7, SamePoints DEF previewVars, sdk, PreviewInv
<1> QED
  BY <1>1, <1>2, <1>3, <1>4, <1>5, <1>6, <1>7 DEF PreviewNext

(* What is merged step by step is the preview of the definition.           *)
LEMMA PreviewOfDefinition ==
  ASSUME NEW p, NEW n, IsPreviewOf(p, points, n) PROVE Previews(p, n)
<1>1. PreviewOf(n).latest = PreviewIn(points, n).values
  BY DEF PreviewOf, PreviewIn, KeysOf, Latest, LastOf, PointsOf
<1>2. PreviewOf(n).truncated = PreviewIn(points, n).truncated
  BY DEF PreviewOf, PreviewIn, KeysOf
<1>3. /\ DOMAIN p.values = DOMAIN PreviewOf(n).latest
      /\ \A k \in DOMAIN p.values : p.values[k].point = PreviewOf(n).latest[k]
  BY <1>1 DEF IsPreviewOf, Sources
<1>4. \A k \in DOMAIN p.values : p.values[k].number \in Readings(Logged[p.values[k].point])
  BY DEF IsPreviewOf, Faithful, Values
<1> QED
  BY <1>2, <1>3, <1>4 DEF Previews, IsPreviewOf

(* However the points are cut into batches, checkpoints and resumptions,   *)
(* both sides keep the preview of the points they count, with readings of  *)
(* the numbers that were logged.                                           *)
THEOREM PreviewsOfBothFollow == PreviewSpec => []PreviewsFollowTheLog
<1>1. PreviewInv => PreviewsFollowTheLog
  BY PreviewOfDefinition DEF PreviewInv, PreviewsFollowTheLog
<1>2. PreviewSpec => []PreviewInv
  BY FirstPreviews, PreviewStep, PTL DEF PreviewSpec
<1> QED
  BY <1>1, <1>2, PTL

(* Two previews with the same sources are equal if the parser keeps their  *)
(* numbers.                                                                *)
LEMMA ExactValues ==
  ASSUME NEW a, Faithful(a), NEW b, Faithful(b), Sources(a) = Sources(b),
         \A k \in DOMAIN b : Parsed[Logged[b[k].point]] = Logged[b[k].point]
  PROVE  a = b
<1>1. DOMAIN a = DOMAIN b /\ \A k \in DOMAIN b : a[k].point = b[k].point
  BY DEF Sources
<1>2. ASSUME NEW k \in DOMAIN b PROVE a[k] = b[k]
  <2>1. PICK v \in Values, w \in Values : v = a[k] /\ w = b[k]
    BY <1>1 DEF Faithful
  <2>2. PICK x : x = Logged[w.point]
    OBVIOUS
  <2>3. x \in Numbers /\ Parsed[x] = x
    BY <2>1, <2>2, NumberAssumption DEF Values
  <2>4. v.number \in Readings(x) /\ w.number \in Readings(x)
    BY <1>1, <2>1, <2>2 DEF Values
  <2>5. v.number = w.number /\ v.point = w.point
    BY <1>1, <2>1, <2>3, <2>4, ReadExactly
  <2> QED
    BY <2>1, <2>5 DEF Values
<1>3. a = [k \in DOMAIN a |-> a[k]] /\ b = [k \in DOMAIN b |-> b[k]]
  BY DEF Faithful
<1> QED
  BY <1>1, <1>2, <1>3

(* If the parser keeps the numbers in it, the server answers with the very *)
(* preview the SDK has, once everything has been delivered.                *)
THEOREM ExactPreviewsOfBothAreEqual == PreviewSpec => []ExactPreviewsAreEqual
<1>1. ASSUME PreviewInv, mergedUpTo = Len(points), storedUpTo = Len(points),
             \A k \in DOMAIN preview.values :
               Parsed[Logged[preview.values[k].point]] = Logged[preview.values[k].point]
      PROVE  /\ Read(serverPreview.values) = preview.values
             /\ serverPreview.truncated = preview.truncated
  <2>1. /\ Faithful(preview.values) /\ Faithful(serverPreview.values)
        /\ Sources(serverPreview.values) = Sources(preview.values)
        /\ serverPreview.truncated = preview.truncated
    BY <1>1 DEF PreviewInv, IsPreviewOf
  <2>2. /\ Faithful(Read(serverPreview.values))
        /\ Sources(Read(serverPreview.values)) = Sources(preview.values)
    BY <2>1, ReadKeeps
  <2> QED
    BY <1>1, <2>1, <2>2, ExactValues
<1>2. PreviewInv => ExactPreviewsAreEqual
  BY <1>1 DEF ExactPreviewsAreEqual
<1>3. PreviewSpec => []PreviewInv
  BY FirstPreviews, PreviewStep, PTL DEF PreviewSpec
<1> QED
  BY <1>2, <1>3, PTL

(* The two previews agree: each is that of the points it counts, and they  *)
(* are equal as far as the server's parser lets them be.                   *)
THEOREM PreviewsOfBothAgree == PreviewSpec => []PreviewsAgree
<1>1. PreviewsFollowTheLog /\ ExactPreviewsAreEqual => PreviewsAgree
  BY DEF PreviewsAgree
<1> QED
  BY <1>1, PreviewsOfBothFollow, ExactPreviewsOfBothAreEqual, PTL
-----------------------------------------------------------------------------
(***************************************************************************)
(* RequestPaths.                                                           *)
(***************************************************************************)
(* What a request passes on its path.                                      *)
Stages == Resources \union {Catalog, Worker, Release, Client}

IsLock(a) == a \in {Lock(i) : i \in Stripes}
IsPool(a) == a \in {Pool(p) : p \in Pools}

(* What may come after a stage while its resource is held: the order in    *)
(* which the server takes its resources.  Locks come by ascending stripe,  *)
(* before the pools of batches and queries, and the snapshot comes last;   *)
(* only transfers wait for clients.                                        *)
Follows(a, b) ==
  /\ IsLock(a) =>
       \/ IsLock(b) /\ a[2] < b[2]
       \/ b \in {Catalog, Pool("ingest"), Pool("query"), Snapshot, Worker, Release}
  /\ a = Pool("query") => b \in {Snapshot, Catalog, Worker}
  /\ a = Snapshot => b \in {Catalog, Worker}
  /\ a = Pool("ingest") => b \in {Worker, Release}
  /\ a \in {Pool("artifact"), Pool("upload")} => b \in {Worker, Release, Client}

(* The end of a job gives back the permit before the k-th stage.           *)
Released(a, path, j, k) ==
  IsPool(a) /\ \E i \in j + 1 .. k - 1 : path[i] = Release

PathInOrder(path) ==
  \A k \in 1 .. Len(path) : \A j \in 1 .. k - 1 :
    Follows(path[j], path[k]) \/ Released(path[j], path, j, k)

(* Whatever comes on a path comes after what is held until then.           *)
Orderly(path, holds) ==
  /\ path \in Seq(Stages) /\ holds \subseteq Resources /\ PathInOrder(path)
  /\ \A h \in holds : \A k \in 1 .. Len(path) :
       Follows(h, path[k]) \/ Released(h, path, 0, k)

(* No two stages are the same.                                             *)
LEMMA StagesDiffer ==
  /\ \A i \in Stripes : Lock(i) \notin {Snapshot, Catalog, Worker, Release, Client}
  /\ \A p \in Pools : Pool(p) \notin {Snapshot, Catalog, Worker, Release, Client}
  /\ \A i \in Stripes, p \in Pools : Lock(i) # Pool(p)
  /\ \A i, j \in Stripes : Lock(i) = Lock(j) => i = j
  /\ \A p, q \in Pools : Pool(p) = Pool(q) => p = q
  /\ Snapshot \notin {Catalog, Worker, Release, Client}
  /\ Catalog \notin {Worker, Release, Client} /\ Worker \notin {Release, Client}
  /\ Release # Client
  BY DEF Lock, Pool, Pools, Snapshot, Catalog, Worker, Release, Client

(* The kind of a stage, and of a lock its stripe.                          *)
LEMMA IndicesOfStages ==
  /\ \A i \in Stripes : Lock(i)[1] = "stripe" /\ Lock(i)[2] = i
  /\ \A p \in Pools : Pool(p)[1] = p
  /\ Snapshot[1] = "snapshot"
  /\ "stripe" \notin Pools /\ "snapshot" \notin Pools
  BY DEF Lock, Pool, Pools, Snapshot

(* acquire_mutation_locks takes the locks in ascending order.              *)
LEMMA LocksInOrder ==
  ASSUME NEW stripes
  PROVE  /\ Locks(stripes) \in Seq({Lock(i) : i \in Stripes})
         /\ \A k \in 1 .. Len(Locks(stripes)) : \A j \in 1 .. k - 1 :
              Locks(stripes)[j][2] < Locks(stripes)[k][2]
<1>1. PICK s : s = StripeOrder
  OBVIOUS
<1>2. MutationLocks \in Nat /\ s = [i \in 1 .. MutationLocks |-> i - 1]
  BY <1>1, RequestAssumption DEF StripeOrder
<1>3. s \in Seq(Stripes) /\ Len(s) = MutationLocks
  BY <1>2 DEF Stripes
<1>4. \A i, j \in 1 .. Len(s) : i < j => s[i] < s[j]
  BY <1>2, <1>3
<1>5. Stripes \in SUBSET Int
  BY <1>2 DEF Stripes
<1>6. PICK t : t = Only(s, ToSet(stripes))
  OBVIOUS
<1>7. t \in Seq(Stripes)
  BY <1>3, <1>6, OnlyElements
<1>8. \A i, j \in 1 .. Len(t) : i < j => t[i] < t[j]
  BY <1>3, <1>4, <1>5, <1>6, OnlyKeepsOrder
<1>9. Locks(stripes) = [i \in 1 .. Len(t) |-> Lock(t[i])]
  BY <1>1, <1>6 DEF Locks
<1>10. Len(t) \in Nat /\ \A i \in 1 .. Len(t) : t[i] \in Stripes
  BY <1>7
<1>11. PICK u : u = [i \in 1 .. Len(t) |-> Lock(t[i])]
  OBVIOUS
<1>12. u \in Seq({Lock(i) : i \in Stripes}) /\ Len(u) = Len(t)
  <2>1. u \in [1 .. Len(t) -> {Lock(i) : i \in Stripes}]
    BY <1>10, <1>11
  <2> QED
    BY <1>10, <2>1
<1>13. \A k \in 1 .. Len(u) : \A j \in 1 .. k - 1 : u[j][2] < u[k][2]
  <2> SUFFICES ASSUME NEW k \in 1 .. Len(u), NEW j \in 1 .. k - 1 PROVE u[j][2] < u[k][2]
    OBVIOUS
  <2>1. j \in 1 .. Len(t) /\ k \in 1 .. Len(t) /\ j < k
    BY <1>10, <1>12
  <2>2. u[j] = Lock(t[j]) /\ u[k] = Lock(t[k]) /\ t[j] \in Stripes /\ t[k] \in Stripes
    BY <1>10, <1>11, <2>1
  <2> QED
    BY <1>8, <2>1, <2>2, IndicesOfStages
<1> QED
  BY <1>9, <1>11, <1>12, <1>13

(* A path that begins with locks and goes on with stages that may follow   *)
(* one.                                                                    *)
LEMMA AfterLocks ==
  ASSUME NEW stripes, NEW rest \in Seq(Stages), PathInOrder(rest),
         \A k \in 1 .. Len(rest) :
           rest[k] \in {Catalog, Pool("ingest"), Pool("query"), Snapshot, Worker, Release}
  PROVE  /\ Locks(stripes) \o rest \in Seq(Stages)
         /\ PathInOrder(Locks(stripes) \o rest)
         /\ \A k \in 1 .. Len(Locks(stripes) \o rest) :
              IsLock((Locks(stripes) \o rest)[k]) \/
                (Locks(stripes) \o rest)[k] \in {Catalog, Pool("ingest"), Pool("query"),
                                                 Snapshot, Worker, Release}
<1>1. PICK l \in Seq({Lock(i) : i \in Stripes}) :
        l = Locks(stripes) /\ \A k \in 1 .. Len(l) : \A j \in 1 .. k - 1 : l[j][2] < l[k][2]
  BY LocksInOrder
<1>2. PICK n \in Nat, m \in Nat : n = Len(l) /\ m = Len(rest)
  OBVIOUS
<1>3. l \in Seq(Stages)
  BY <1>1 DEF Stages, Resources
<1>4. PICK w \in Seq(Stages) : w = l \o rest
  <2>1. l \o rest \in Seq(Stages)
    BY <1>3, ConcatProperties
  <2> QED
    BY <2>1
<1>5. /\ Len(w) = n + m /\ \A k \in 1 .. n : w[k] = l[k]
      /\ \A k \in n + 1 .. n + m : w[k] = rest[k - n]
  BY <1>2, <1>3, <1>4, ConcatProperties
<1>6. \A k \in 1 .. n : IsLock(w[k])
  BY <1>1, <1>2, <1>5 DEF IsLock
<1>7. \A k \in n + 1 .. n + m :
        w[k] \in {Catalog, Pool("ingest"), Pool("query"), Snapshot, Worker, Release}
  BY <1>2, <1>5
<1>8. ASSUME NEW k \in 1 .. Len(w), NEW j \in 1 .. k - 1
      PROVE  Follows(w[j], w[k]) \/ Released(w[j], w, j, k)
  <2>1. k \in 1 .. n + m /\ j \in 1 .. n + m /\ j < k
    BY <1>2, <1>5
  <2>2. CASE j <= n
    <3>1. IsLock(w[j]) /\ (k > n \/ (IsLock(w[k]) /\ w[j][2] < w[k][2]))
      <4>1. IsLock(w[j])
        BY <1>2, <1>6, <2>1, <2>2
      <4>2. ASSUME ~(k > n) PROVE IsLock(w[k]) /\ w[j][2] < w[k][2]
        <5>1. k \in 1 .. n /\ j \in 1 .. n /\ j \in 1 .. k - 1
          BY <1>2, <2>1, <2>2, <4>2
        <5>2. l[j][2] < l[k][2]
          BY <1>1, <1>2, <5>1
        <5> QED
          BY <1>5, <1>6, <5>1, <5>2
      <4> QED
        BY <4>1, <4>2
    <3>2. k > n => w[k] \in {Catalog, Pool("ingest"), Pool("query"), Snapshot, Worker, Release}
      BY <1>7, <2>1
    <3> QED
      BY <3>1, <3>2, StagesDiffer DEF Follows, IsLock, Pools
  <2>3. CASE j > n
    <3>1. j - n \in 1 .. (k - n) - 1 /\ k - n \in 1 .. m /\ w[j] = rest[j - n] /\ w[k] = rest[k - n]
      BY <1>2, <1>5, <2>1, <2>3
    <3>2. Follows(w[j], w[k]) \/ Released(w[j], rest, j - n, k - n)
      BY <1>2, <3>1 DEF PathInOrder
    <3>3. ASSUME NEW i \in (j - n) + 1 .. (k - n) - 1, rest[i] = Release
          PROVE  \E x \in j + 1 .. k - 1 : w[x] = Release
      <4>1. i + n \in j + 1 .. k - 1 /\ i + n \in n + 1 .. n + m /\ (i + n) - n = i
        BY <1>2, <2>1, <2>3, <3>3
      <4> QED
        BY <1>5, <3>3, <4>1
    <3> QED
      BY <3>2, <3>3 DEF Released
  <2> QED
    BY <1>2, <2>1, <2>2, <2>3
<1>9. \A k \in 1 .. Len(w) :
        IsLock(w[k]) \/ w[k] \in {Catalog, Pool("ingest"), Pool("query"), Snapshot, Worker, Release}
  BY <1>2, <1>5, <1>6, <1>7
<1> QED
  BY <1>1, <1>4, <1>8, <1>9 DEF PathInOrder

(* Short sequences.                                                        *)
LEMMA ShortSequences ==
  ASSUME NEW S, NEW a \in S, NEW b \in S, NEW c \in S, NEW d \in S, NEW e \in S
  PROVE  /\ <<a>> \in Seq(S) /\ <<a, b, c>> \in Seq(S)
         /\ <<a, b, c, d>> \in Seq(S) /\ <<a, b, c, d, e>> \in Seq(S)
  OBVIOUS

(* The paths of each kind.                                                 *)
LEMMA PathsOfKinds ==
  /\ Paths("document") = {DocumentPath(run) : run \in Stripes}
  /\ Paths("resume") = {ResumePath(run) : run \in Stripes}
  /\ Paths("ingest") = {IngestPath(run) : run \in Stripes}
  /\ Paths("record") = {RecordPath(run, id) : run, id \in Stripes}
  /\ Paths("artifact") = {ArtifactPath(run, id, name) : run, id, name \in Stripes}
  /\ Paths("query") = {QueryPath} /\ Paths("download") = {DownloadPath}
  /\ Paths("upload") = {UploadPath}
  BY DEF Paths

(* Every request begins with a path in order.                              *)
LEMMA PathsInOrder ==
  ASSUME NEW kind \in Kinds, NEW path \in Paths(kind)
  PROVE  path \in Seq(Stages) /\ PathInOrder(path)
<1>1. /\ \A p \in Pools : Pool(p) \in Stages
      /\ Snapshot \in Stages /\ Catalog \in Stages /\ Worker \in Stages
      /\ Release \in Stages /\ Client \in Stages
  BY DEF Stages, Resources
<1>2. ASSUME NEW stripes
      PROVE  /\ Locks(stripes) \o <<Catalog>> \in Seq(Stages)
             /\ PathInOrder(Locks(stripes) \o <<Catalog>>)
             /\ \A k \in 1 .. Len(Locks(stripes) \o <<Catalog>>) :
                  \/ IsLock((Locks(stripes) \o <<Catalog>>)[k])
                  \/ (Locks(stripes) \o <<Catalog>>)[k] \in
                       {Catalog, Pool("ingest"), Pool("query"), Snapshot, Worker, Release}
  <2>1. PICK rest \in Seq(Stages) : rest = <<Catalog>>
    BY <1>1, ShortSequences
  <2>2. Len(rest) = 1 /\ rest[1] = Catalog
    BY <2>1
  <2>3. PathInOrder(rest)
    BY <2>2 DEF PathInOrder
  <2>4. \A k \in 1 .. Len(rest) :
          rest[k] \in {Catalog, Pool("ingest"), Pool("query"), Snapshot, Worker, Release}
    BY <2>2
  <2> QED
    BY <2>1, <2>3, <2>4, AfterLocks
<1>3. CASE kind = "document"
  <2>1. PICK run \in Stripes : path = Locks(<<run>>) \o <<Catalog>>
    BY <1>3, PathsOfKinds DEF DocumentPath
  <2> QED
    BY <1>2, <2>1
<1>4. CASE kind = "record"
  <2>1. PICK run \in Stripes, id \in Stripes : path = RecordPath(run, id)
    <3>1. path \in {RecordPath(run, id) : run, id \in Stripes}
      <4>1. Paths("record") = {RecordPath(run, id) : run, id \in Stripes}
        BY PathsOfKinds
      <4> QED
        BY <1>4, <4>1
    <3> QED
      BY <3>1
  <2>2. path = Locks(<<run, id>>) \o <<Catalog>>
    BY <2>1 DEF RecordPath
  <2> QED
    BY <1>2, <2>2
<1>5. CASE kind = "resume"
  <2>1. PICK rest \in Seq(Stages) : rest = <<Catalog, Pool("query"), Snapshot, Catalog>>
    BY <1>1, ShortSequences DEF Pools
  <2>2. Len(rest) = 4 /\ rest[1] = Catalog /\ rest[2] = Pool("query") /\ rest[3] = Snapshot
        /\ rest[4] = Catalog
    BY <2>1
  <2>3. PathInOrder(rest)
    <3> SUFFICES ASSUME NEW k \in 1 .. 4, NEW j \in 1 .. k - 1 PROVE Follows(rest[j], rest[k])
      BY <2>2 DEF PathInOrder
    <3>1. (j = 1 /\ k \in 2 .. 4) \/ (j = 2 /\ k \in 3 .. 4) \/ (j = 3 /\ k = 4)
      OBVIOUS
    <3> QED
      BY <2>2, <3>1, StagesDiffer DEF Follows, IsLock, Pools
  <2>4. \A k \in 1 .. Len(rest) :
          rest[k] \in {Catalog, Pool("ingest"), Pool("query"), Snapshot, Worker, Release}
    BY <2>2
  <2>5. PICK run \in Stripes : path = Locks(<<run>>) \o rest
    BY <1>5, <2>1, PathsOfKinds DEF ResumePath
  <2> QED
    BY <2>3, <2>4, <2>5, AfterLocks
<1>6. CASE kind = "ingest"
  <2>1. PICK rest \in Seq(Stages) : rest = <<Catalog, Pool("ingest"), Worker, Release, Catalog>>
    BY <1>1, ShortSequences DEF Pools
  <2>2. Len(rest) = 5 /\ rest[1] = Catalog /\ rest[2] = Pool("ingest") /\ rest[3] = Worker
        /\ rest[4] = Release /\ rest[5] = Catalog
    BY <2>1
  <2>3. PathInOrder(rest)
    <3> SUFFICES ASSUME NEW k \in 1 .. 5, NEW j \in 1 .. k - 1
        PROVE  Follows(rest[j], rest[k]) \/ Released(rest[j], rest, j, k)
      BY <2>2 DEF PathInOrder
    <3>1. CASE j = 2 /\ k = 5
      <4>1. 4 \in j + 1 .. k - 1 /\ IsPool(rest[j])
        BY <2>2, <3>1 DEF IsPool, Pools
      <4> QED
        BY <2>2, <4>1 DEF Released
    <3>2. CASE j = 2 /\ k # 5
      <4>1. k \in {3, 4}
        BY <3>2
      <4> QED
        BY <2>2, <3>2, <4>1, StagesDiffer DEF Follows, IsLock, Pools
    <3>3. CASE j # 2
      <4>1. j \in {1, 3, 4}
        BY <3>3
      <4> QED
        BY <2>2, <4>1, StagesDiffer DEF Follows, IsLock, Pools
    <3> QED
      BY <3>1, <3>2, <3>3
  <2>4. \A k \in 1 .. Len(rest) :
          rest[k] \in {Catalog, Pool("ingest"), Pool("query"), Snapshot, Worker, Release}
    BY <2>2
  <2>5. PICK run \in Stripes : path = Locks(<<run>>) \o rest
    BY <1>6, <2>1, PathsOfKinds DEF IngestPath
  <2> QED
    BY <2>3, <2>4, <2>5, AfterLocks
<1>7. CASE kind = "artifact"
  <2>1. PICK first \in Seq(Stages) : first = <<Pool("artifact"), Worker, Release>>
    BY <1>1, ShortSequences DEF Pools
  <2>2. Len(first) = 3 /\ first[1] = Pool("artifact") /\ first[2] = Worker /\ first[3] = Release
    BY <2>1
  <2>3. PICK run \in Stripes, id \in Stripes, name \in Stripes :
          path = first \o Locks(<<run, id, name>>) \o <<Catalog>>
    <3>1. PICK run \in Stripes, id \in Stripes, name \in Stripes :
            path = ArtifactPath(run, id, name)
      <4>1. Paths("artifact") = {ArtifactPath(run, id, name) : run, id, name \in Stripes}
        BY PathsOfKinds
      <4>2. path \in {ArtifactPath(run, id, name) : run, id, name \in Stripes}
        BY <1>7, <4>1
      <4> QED
        BY <4>2
    <3> QED
      BY <2>1, <3>1 DEF ArtifactPath
  <2>4. PICK l \in Seq(Stages) : l = Locks(<<run, id, name>>)
    <3>1. Locks(<<run, id, name>>) \in Seq({Lock(i) : i \in Stripes})
      BY LocksInOrder
    <3>2. {Lock(i) : i \in Stripes} \subseteq Stages
      BY DEF Stages, Resources
    <3> QED
      BY <3>1, <3>2
  <2>5. PICK rest \in Seq(Stages) : rest = l \o <<Catalog>>
    BY <1>2, <2>4
  <2>6. path = first \o rest
    <3>1. <<Catalog>> \in Seq(Stages)
      BY <1>1
    <3> QED
      BY <2>3, <2>4, <2>5, <3>1, ConcatAssociative
  <2>7. PICK m \in Nat : m = Len(rest)
    OBVIOUS
  <2>8. path \in Seq(Stages) /\ Len(path) = 3 + m
        /\ path[1] = Pool("artifact") /\ path[2] = Worker /\ path[3] = Release
        /\ \A k \in 4 .. 3 + m : path[k] = rest[k - 3]
    <3>1. PICK w \in Seq(Stages) : w = first \o rest
      <4>1. first \o rest \in Seq(Stages)
        BY ConcatProperties
      <4> QED
        BY <4>1
    <3>2. /\ Len(w) = 3 + m /\ \A k \in 1 .. 3 : w[k] = first[k]
          /\ \A k \in 4 .. 3 + m : w[k] = rest[k - 3]
      <4>1. PICK n \in Nat : n = Len(first) /\ n = 3
        BY <2>2
      <4>2. /\ Len(w) = n + m /\ \A k \in 1 .. n : w[k] = first[k]
            /\ \A k \in n + 1 .. n + m : w[k] = rest[k - n]
        <5>1. /\ Len(first \o rest) = Len(first) + Len(rest)
              /\ \A k \in 1 .. Len(first) + Len(rest) :
                   (first \o rest)[k] =
                     IF k <= Len(first) THEN first[k] ELSE rest[k - Len(first)]
          BY ConcatProperties
        <5>2. /\ Len(w) = n + m
              /\ \A k \in 1 .. n + m : w[k] = IF k <= n THEN first[k] ELSE rest[k - n]
          BY <2>7, <3>1, <4>1, <5>1
        <5> QED
          BY <5>2
      <4> QED
        BY <4>1, <4>2
    <3> QED
      BY <2>2, <2>6, <3>1, <3>2
  <2>9. ASSUME NEW k \in 1 .. Len(path), NEW j \in 1 .. k - 1
        PROVE  Follows(path[j], path[k]) \/ Released(path[j], path, j, k)
    <3>1. CASE k <= 3
      <4>1. (j = 1 /\ k \in {2, 3}) \/ (j = 2 /\ k = 3)
        BY <2>7, <2>8, <3>1
      <4> QED
        BY <2>8, <4>1, StagesDiffer DEF Follows, IsLock, Pools
    <3>2. CASE k > 3 /\ j = 1
      <4>1. 3 \in j + 1 .. k - 1 /\ IsPool(path[j])
        BY <2>7, <2>8, <3>2 DEF IsPool, Pools
      <4> QED
        BY <2>8, <4>1 DEF Released
    <3>3. CASE k > 3 /\ j \in {2, 3}
      BY <2>8, <3>3, StagesDiffer DEF Follows, IsLock, Pools
    <3>4. CASE k > 3 /\ j > 3
      <4>1. k - 3 \in 1 .. m /\ j - 3 \in 1 .. (k - 3) - 1
            /\ path[k] = rest[k - 3] /\ path[j] = rest[j - 3]
        BY <2>7, <2>8, <3>4
      <4>2. PathInOrder(rest)
        BY <1>2, <2>4, <2>5
      <4>3. Follows(path[j], path[k]) \/ Released(path[j], rest, j - 3, k - 3)
        BY <2>7, <4>1, <4>2 DEF PathInOrder
      <4>4. ASSUME NEW i \in (j - 3) + 1 .. (k - 3) - 1, rest[i] = Release
            PROVE  \E x \in j + 1 .. k - 1 : path[x] = Release
        <5>1. i + 3 \in j + 1 .. k - 1 /\ i + 3 \in 4 .. 3 + m /\ (i + 3) - 3 = i
          BY <2>7, <2>8, <3>4
        <5> QED
          BY <2>8, <4>4, <5>1
      <4> QED
        BY <4>3, <4>4 DEF Released
    <3> QED
      BY <2>7, <2>8, <3>1, <3>2, <3>3, <3>4
  <2> QED
    BY <2>8, <2>9 DEF PathInOrder
<1>8. CASE kind \in {"query", "download", "upload"}
  <2>1. path \in {QueryPath, DownloadPath, UploadPath}
    BY <1>8, PathsOfKinds
  <2>2. path \in Seq(Stages)
    <3>1. QueryPath \in Seq(Stages)
      BY <1>1, ShortSequences DEF QueryPath, Pools
    <3>2. DownloadPath \in Seq(Stages)
      BY <1>1, ShortSequences DEF DownloadPath, Pools
    <3>3. UploadPath \in Seq(Stages)
      BY <1>1, ShortSequences DEF UploadPath, Pools
    <3> QED
      BY <2>1, <3>1, <3>2, <3>3
  <2>3. CASE path = QueryPath
    <3>1. Len(path) = 5 /\ path[1] = Catalog /\ path[2] = Pool("query") /\ path[3] = Snapshot
          /\ path[4] = Catalog /\ path[5] = Worker
      BY <2>3 DEF QueryPath
    <3> SUFFICES ASSUME NEW k \in 1 .. 5, NEW j \in 1 .. k - 1 PROVE Follows(path[j], path[k])
      BY <2>2, <3>1 DEF PathInOrder
    <3>2. (j = 1 /\ k \in 2 .. 5) \/ (j = 2 /\ k \in 3 .. 5) \/ (j = 3 /\ k \in 4 .. 5)
          \/ (j = 4 /\ k = 5)
      OBVIOUS
    <3> QED
      BY <3>1, <3>2, StagesDiffer DEF Follows, IsLock, Pools
  <2>4. CASE path = DownloadPath
    <3>1. Len(path) = 4 /\ path[1] = Catalog /\ path[2] = Pool("artifact") /\ path[3] = Worker
          /\ path[4] = Client
      BY <2>4 DEF DownloadPath
    <3> SUFFICES ASSUME NEW k \in 1 .. 4, NEW j \in 1 .. k - 1 PROVE Follows(path[j], path[k])
      BY <2>2, <3>1 DEF PathInOrder
    <3>2. (j = 1 /\ k \in 2 .. 4) \/ (j = 2 /\ k \in 3 .. 4) \/ (j = 3 /\ k = 4)
      OBVIOUS
    <3> QED
      BY <3>1, <3>2, StagesDiffer DEF Follows, IsLock, Pools
  <2>5. CASE path = UploadPath
    <3>1. Len(path) = 3 /\ path[1] = Pool("upload") /\ path[2] = Client /\ path[3] = Worker
      BY <2>5 DEF UploadPath
    <3> SUFFICES ASSUME NEW k \in 1 .. 3, NEW j \in 1 .. k - 1 PROVE Follows(path[j], path[k])
      BY <2>2, <3>1 DEF PathInOrder
    <3>2. (j = 1 /\ k \in 2 .. 3) \/ (j = 2 /\ k = 3)
      OBVIOUS
    <3> QED
      BY <3>1, <3>2, StagesDiffer DEF Follows, IsLock, Pools
  <2> QED
    BY <2>1, <2>2, <2>3, <2>4, <2>5
<1> QED
  BY <1>3, <1>4, <1>5, <1>6, <1>7, <1>8 DEF Kinds
-----------------------------------------------------------------------------
(* A request that passes the first stage of its path takes it along when   *)
(* it is a resource, and leaves the permits of a job that ends.            *)
LEMMA PassedInOrder ==
  ASSUME NEW path, NEW holds, Orderly(path, holds), path # <<>>,
         NEW keep \in SUBSET holds,
         Head(path) = Release => \A h \in keep : ~IsPool(h)
  PROVE  /\ Orderly(Tail(path), keep)
         /\ Head(path) \in Resources => Orderly(Tail(path), keep \union {Head(path)})
<1>1. path \in Seq(Stages) /\ holds \subseteq Resources /\ PathInOrder(path)
  BY DEF Orderly
<1>2. PICK s \in Seq(Stages) : s = path
  BY <1>1
<1>3. PICK n \in Nat : n + 1 = Len(s)
  <2>1. Len(s) \in Nat /\ Len(s) # 0
    BY <1>2
  <2>2. Len(s) - 1 \in Nat /\ (Len(s) - 1) + 1 = Len(s)
    BY <2>1
  <2> QED
    BY <2>2
<1>4. PICK t \in Seq(Stages) : t = Tail(s)
  <2>1. Tail(s) \in Seq(Stages)
    BY <1>2
  <2> QED
    BY <2>1
<1>5. Len(t) = n /\ Head(s) = s[1] /\ \A k \in 1 .. n : t[k] = s[k + 1]
  BY <1>2, <1>3, <1>4
<1>6. ASSUME NEW a, NEW j \in 0 .. n, NEW k \in 1 .. n, j < k, Released(a, s, j + 1, k + 1)
      PROVE  Released(a, t, j, k)
  <2>1. PICK i \in j + 2 .. k : IsPool(a) /\ s[i] = Release
    <3>1. (j + 1) + 1 = j + 2 /\ (k + 1) - 1 = k
      OBVIOUS
    <3> QED
      BY <1>6, <3>1 DEF Released
  <2>2. i - 1 \in j + 1 .. k - 1 /\ i - 1 \in 1 .. n /\ (i - 1) + 1 = i
    BY <2>1
  <2>3. t[i - 1] = Release
    BY <1>5, <2>1, <2>2
  <2> QED
    BY <2>1, <2>2, <2>3 DEF Released
<1>7. PathInOrder(t)
  <2> SUFFICES ASSUME NEW k \in 1 .. n, NEW j \in 1 .. k - 1
      PROVE  Follows(t[j], t[k]) \/ Released(t[j], t, j, k)
    BY <1>5 DEF PathInOrder
  <2>1. k + 1 \in 1 .. Len(s) /\ j + 1 \in 1 .. (k + 1) - 1
        /\ t[k] = s[k + 1] /\ t[j] = s[j + 1] /\ j \in 0 .. n /\ j < k
    BY <1>3, <1>5
  <2>2. Follows(s[j + 1], s[k + 1]) \/ Released(s[j + 1], s, j + 1, k + 1)
    BY <1>1, <1>2, <2>1 DEF PathInOrder
  <2> QED
    BY <1>6, <2>1, <2>2
<1>8. ASSUME NEW h \in keep, NEW k \in 1 .. n
      PROVE  Follows(h, t[k]) \/ Released(h, t, 0, k)
  <2>1. k + 1 \in 1 .. Len(s) /\ t[k] = s[k + 1]
    BY <1>3, <1>5
  <2>2. Follows(h, s[k + 1]) \/ Released(h, s, 0, k + 1)
    BY <1>2, <2>1 DEF Orderly
  <2>3. ASSUME Released(h, s, 0, k + 1) PROVE Released(h, s, 0 + 1, k + 1)
    <3>1. PICK i \in 1 .. k : IsPool(h) /\ s[i] = Release
      <4>1. 0 + 1 = 1 /\ (k + 1) - 1 = k
        OBVIOUS
      <4> QED
        BY <2>3, <4>1 DEF Released
    <3>2. i # 1
      BY <1>2, <1>5, <3>1
    <3>3. i \in (0 + 1) + 1 .. (k + 1) - 1
      BY <3>1, <3>2
    <3> QED
      BY <3>1, <3>3 DEF Released
  <2>4. 0 \in 0 .. n /\ 0 < k
    OBVIOUS
  <2> QED
    BY <1>6, <2>1, <2>2, <2>3, <2>4
<1>9. ASSUME NEW k \in 1 .. n PROVE Follows(s[1], t[k]) \/ Released(s[1], t, 0, k)
  <2>1. k + 1 \in 1 .. Len(s) /\ 1 \in 1 .. (k + 1) - 1 /\ t[k] = s[k + 1]
    BY <1>3, <1>5
  <2>2. Follows(s[1], s[k + 1]) \/ Released(s[1], s, 1, k + 1)
    BY <1>1, <1>2, <2>1 DEF PathInOrder
  <2>3. 0 \in 0 .. n /\ 0 < k /\ 0 + 1 = 1
    OBVIOUS
  <2> QED
    BY <1>6, <2>1, <2>2, <2>3
<1>10. keep \subseteq Resources
  BY <1>1
<1>11. Orderly(t, keep)
  BY <1>4, <1>5, <1>7, <1>8, <1>10 DEF Orderly
<1>12. ASSUME s[1] \in Resources PROVE Orderly(t, keep \union {s[1]})
  BY <1>4, <1>5, <1>7, <1>8, <1>9, <1>10, <1>12 DEF Orderly
<1> QED
  BY <1>2, <1>4, <1>5, <1>11, <1>12

(* What comes next follows all that is held.                               *)
LEMMA NextFollows ==
  ASSUME NEW path, NEW holds, Orderly(path, holds), path # <<>>, NEW h \in holds
  PROVE  Head(path) \in Stages /\ Follows(h, Head(path))
<1>1. PICK s \in Seq(Stages) : s = path
  BY DEF Orderly
<1>2. 1 \in 1 .. Len(s) /\ Head(s) = s[1]
  BY <1>1
<1>3. Follows(h, s[1]) \/ Released(h, s, 0, 1)
  BY <1>1, <1>2 DEF Orderly
<1>4. ~Released(h, s, 0, 1)
  <2>1. 0 + 1 .. 1 - 1 = {}
    OBVIOUS
  <2> QED
    BY <2>1 DEF Released
<1> QED
  BY <1>1, <1>2, <1>3, <1>4

(* The end of a path, and the job that outlives its request.               *)
LEMMA LastInOrder ==
  /\ Orderly(<<>>, {})
  /\ \A holds \in SUBSET Resources :
       (\A h \in holds : Follows(h, Worker)) => Orderly(<<Worker>>, holds)
<1>1. PICK s \in Seq(Stages) : s = <<>> /\ Len(s) = 0
  <2>1. <<>> \in Seq(Stages) /\ Len(<<>>) = 0
    OBVIOUS
  <2> QED
    BY <2>1
<1>2. Orderly(s, {})
  <2>1. 1 .. Len(s) = {}
    BY <1>1
  <2> QED
    BY <2>1 DEF Orderly, PathInOrder
<1>3. ASSUME NEW holds \in SUBSET Resources, \A h \in holds : Follows(h, Worker)
      PROVE  Orderly(<<Worker>>, holds)
  <2>1. PICK t \in Seq(Stages) : t = <<Worker>> /\ Len(t) = 1 /\ t[1] = Worker
    <3>1. Worker \in Stages
      BY DEF Stages
    <3>2. <<Worker>> \in Seq(Stages)
      BY <3>1, ShortSequences
    <3>3. Len(<<Worker>>) = 1 /\ <<Worker>>[1] = Worker
      OBVIOUS
    <3> QED
      BY <3>2, <3>3
  <2>2. PathInOrder(t)
    BY <2>1 DEF PathInOrder
  <2>3. Orderly(t, holds)
    BY <1>3, <2>1, <2>2 DEF Orderly
  <2> QED
    BY <2>1, <2>3
<1> QED
  BY <1>1, <1>2, <1>3
-----------------------------------------------------------------------------
(* A request, with a path in order.                                        *)
IsRequest(q) ==
  /\ q = [kind |-> q.kind, path |-> q.path, holds |-> q.holds, admitted |-> q.admitted]
  /\ Orderly(q.path, q.holds)

(* The inductive invariant: whatever a request will still wait for comes   *)
(* after all that it holds by then in one order of the resources.          *)
RequestsInOrder ==
  /\ compactor \in {"idle", "waiting", "exclusive"}
  /\ request = [r \in Requests |-> request[r]]
  /\ \A r \in Requests : IsRequest(request[r])

(* No request.                                                             *)
LEMMA NoneIsRequest == IsRequest(None) /\ None.path = <<>> /\ None.holds = {}
<1>1. /\ None = [kind |-> "none", path |-> <<>>, holds |-> {}, admitted |-> FALSE]
      /\ None.kind = "none" /\ None.path = <<>> /\ None.holds = {} /\ None.admitted = FALSE
  BY DEF None
<1>2. None = [kind |-> None.kind, path |-> None.path, holds |-> None.holds,
              admitted |-> None.admitted]
  BY <1>1
<1>3. Orderly(None.path, None.holds)
  BY <1>1, LastInOrder
<1> QED
  BY <1>1, <1>2, <1>3 DEF IsRequest

(* At first there is no request.                                           *)
LEMMA RequestsStart == RequestsInit => RequestsInOrder
<1> SUFFICES ASSUME RequestsInit PROVE RequestsInOrder
  OBVIOUS
<1>1. request = [r \in Requests |-> None] /\ compactor = "idle"
  BY DEF RequestsInit
<1>2. \A r \in Requests : request[r] = None
  BY <1>1
<1>3. request = [r \in Requests |-> request[r]]
  BY <1>1
<1>4. \A r \in Requests : IsRequest(request[r])
  BY <1>2, NoneIsRequest
<1> QED
  BY <1>1, <1>3, <1>4 DEF RequestsInOrder

(* A request that goes on with another path and other holds.               *)
LEMMA RequestChanges ==
  ASSUME RequestsInOrder, NEW r \in Requests, NEW q, IsRequest(q),
         request' = [request EXCEPT ![r] = q], compactor' = compactor
  PROVE  RequestsInOrder'
<1>1. PICK f : f = request /\ f = [x \in Requests |-> f[x]]
               /\ \A x \in Requests : IsRequest(f[x])
  BY DEF RequestsInOrder
<1>2. PICK g : g = [f EXCEPT ![r] = q]
  OBVIOUS
<1>3. g = [x \in Requests |-> g[x]] /\ g[r] = q /\ \A x \in Requests \ {r} : g[x] = f[x]
  BY <1>1, <1>2
<1>4. \A x \in Requests : IsRequest(g[x])
  BY <1>1, <1>3
<1>5. request' = g
  BY <1>1, <1>2
<1>6. request' = [x \in Requests |-> request'[x]] /\ \A x \in Requests : IsRequest(request'[x])
  BY <1>3, <1>4, <1>5
<1>7. compactor' \in {"idle", "waiting", "exclusive"}
  BY DEF RequestsInOrder
<1>8. ASSUME NEW x \in Requests PROVE IsRequest(request[x])'
  <2>1. IsRequest(request'[x])
    BY <1>6
  <2> QED
    BY <2>1 DEF IsRequest, Orderly
<1> QED
  BY <1>6, <1>7, <1>8 DEF RequestsInOrder

(* A request that passes a stage.                                          *)
LEMMA PassedRequest ==
  ASSUME RequestsInOrder, NEW r \in Requests, request[r].path # <<>>, NEW holds,
         Orderly(Tail(request[r].path), holds), Step(r, holds), compactor' = compactor
  PROVE  RequestsInOrder'
<1>1. PICK f : f = request /\ f = [x \in Requests |-> f[x]] /\ IsRequest(f[r])
  BY DEF RequestsInOrder
<1>2. PICK v : v = f[r]
  OBVIOUS
<1>3. v = [kind |-> v.kind, path |-> v.path, holds |-> v.holds, admitted |-> v.admitted]
      /\ Orderly(Tail(v.path), holds)
  BY <1>1, <1>2 DEF IsRequest
<1>4. PICK p : p = Tail(v.path)
  OBVIOUS
<1>5. PICK w : w = [kind |-> v.kind, path |-> p, holds |-> holds, admitted |-> v.admitted]
  OBVIOUS
<1>6. w.kind = v.kind /\ w.path = p /\ w.holds = holds /\ w.admitted = v.admitted
  BY <1>5
<1>7. IsRequest(w)
  BY <1>3, <1>4, <1>5, <1>6 DEF IsRequest
<1>8. request' = [request EXCEPT ![r] = w]
  <2>1. request' = [f EXCEPT ![r].path = Tail(@), ![r].holds = holds]
    BY <1>1 DEF Step
  <2>2. PICK u : u = [v EXCEPT !.path = Tail(@), !.holds = holds]
    OBVIOUS
  <2>3. u = w
    <3>1. PICK a, b, c, d : v = [kind |-> a, path |-> b, holds |-> c, admitted |-> d]
                            /\ a = v.kind /\ d = v.admitted
      BY <1>3
    <3>2. u = [v EXCEPT !.path = p, !.holds = holds]
      BY <1>4, <2>2
    <3>3. u = [kind |-> a, path |-> p, holds |-> holds, admitted |-> d]
      BY <3>1, <3>2
    <3> QED
      BY <1>5, <3>1, <3>3
  <2>4. request' = [f EXCEPT ![r] = u]
    BY <1>1, <1>2, <2>1, <2>2
  <2> QED
    BY <1>1, <2>3, <2>4
<1> QED
  BY <1>7, <1>8, RequestChanges
-----------------------------------------------------------------------------
(* What a request may still do follows what it holds.                      *)
LEMMA HeldSoFar ==
  ASSUME RequestsInOrder, NEW r \in Requests
  PROVE  /\ Orderly(request[r].path, request[r].holds)
         /\ request[r].holds \subseteq Resources
  BY DEF RequestsInOrder, IsRequest, Orderly

(* admit_api_request.                                                      *)
LEMMA AdmitInOrder ==
  ASSUME RequestsInOrder, NEW r \in Requests, Admit(r) PROVE RequestsInOrder'
<1>1. PICK kind \in Kinds : \E path \in Paths(kind) :
        request' = [request EXCEPT ![r] =
                      [kind |-> kind, path |-> path, holds |-> {}, admitted |-> TRUE]]
  BY DEF Admit
<1>2. PICK path \in Paths(kind) :
        request' = [request EXCEPT ![r] =
                      [kind |-> kind, path |-> path, holds |-> {}, admitted |-> TRUE]]
  BY <1>1
<1>3. PICK q : q = [kind |-> kind, path |-> path, holds |-> {}, admitted |-> TRUE]
  OBVIOUS
<1>4. q.kind = kind /\ q.path = path /\ q.holds = {} /\ q.admitted = TRUE
  BY <1>3
<1>5. Orderly(path, {})
  <2>1. path \in Seq(Stages) /\ PathInOrder(path)
    BY PathsInOrder
  <2> QED
    BY <2>1 DEF Orderly
<1>6. IsRequest(q)
  BY <1>3, <1>4, <1>5 DEF IsRequest
<1>7. request' = [request EXCEPT ![r] = q]
  BY <1>2, <1>3
<1>8. compactor' = compactor
  BY DEF Admit
<1> QED
  BY <1>6, <1>7, <1>8, RequestChanges

(* A lock, a permit or the snapshot is taken along.                        *)
LEMMA AcquireInOrder ==
  ASSUME RequestsInOrder, NEW r \in Requests, Acquire(r) PROVE RequestsInOrder'
<1>1. PICK resource \in Resources :
        At(r, resource) /\ Step(r, request[r].holds \union {resource})
  BY DEF Acquire
<1>2. PICK path, holds : path = request[r].path /\ holds = request[r].holds
  OBVIOUS
<1>3. path # <<>> /\ Head(path) = resource /\ Orderly(path, holds)
  BY <1>1, <1>2, HeldSoFar DEF At
<1>4. resource # Release
  BY StagesDiffer DEF Resources
<1>5. holds \in SUBSET holds
  OBVIOUS
<1>6. Orderly(Tail(path), holds \union {resource})
  BY <1>3, <1>4, <1>5, PassedInOrder
<1>7. compactor' = compactor
  BY DEF Acquire
<1> QED
  BY <1>1, <1>2, <1>3, <1>6, <1>7, PassedRequest

(* An await of the catalog or of a client, and a job from its start to its *)
(* end.                                                                    *)
LEMMA WorkInOrder ==
  ASSUME RequestsInOrder, NEW r \in Requests, Work(r) PROVE RequestsInOrder'
<1>1. PICK path, holds : path = request[r].path /\ holds = request[r].holds
  OBVIOUS
<1>2. Orderly(path, holds) /\ compactor' = compactor
  BY <1>1, HeldSoFar DEF Work
<1>3. CASE (At(r, Catalog) \/ At(r, Worker) \/ At(r, Client)) /\ Step(r, request[r].holds)
  <2>1. path # <<>> /\ Head(path) # Release
    BY <1>1, <1>3, StagesDiffer DEF At
  <2>2. holds \in SUBSET holds
    OBVIOUS
  <2>3. Orderly(Tail(path), holds)
    BY <1>2, <2>1, <2>2, PassedInOrder
  <2> QED
    BY <1>1, <1>2, <1>3, <2>1, <2>3, PassedRequest
<1>4. CASE At(r, Release) /\ Step(r, request[r].holds \ Held(r, Pools))
  <2>1. PICK keep : keep = holds \ Held(r, Pools)
    OBVIOUS
  <2>2. keep \in SUBSET holds
    BY <2>1
  <2>3. \A h \in keep : ~IsPool(h)
    BY <1>1, <2>1, IndicesOfStages DEF Held, IsPool
  <2>4. path # <<>>
    BY <1>1, <1>4 DEF At
  <2>5. Orderly(Tail(path), keep)
    BY <1>2, <2>2, <2>3, <2>4, PassedInOrder
  <2> QED
    BY <1>1, <1>2, <1>4, <2>1, <2>4, <2>5, PassedRequest
<1> QED
  BY <1>3, <1>4 DEF Work

(* The end of a handler.                                                   *)
LEMMA RespondInOrder ==
  ASSUME RequestsInOrder, NEW r \in Requests, Respond(r) PROVE RequestsInOrder'
<1>1. request' = [request EXCEPT ![r] = None] /\ compactor' = compactor
  BY DEF Respond
<1> QED
  BY <1>1, NoneIsRequest, RequestChanges

(* What outlives a request holds nothing that its path does not follow.    *)
LEMMA SurvivesInOrder ==
  ASSUME RequestsInOrder, NEW r \in Requests PROVE IsRequest(Survives(r))
<1>1. PICK v : v = request[r]
  OBVIOUS
<1>2. /\ v = [kind |-> v.kind, path |-> v.path, holds |-> v.holds, admitted |-> v.admitted]
      /\ Orderly(v.path, v.holds) /\ v.holds \subseteq Resources
  BY <1>1 DEF RequestsInOrder, IsRequest, Orderly
<1>3. PICK a, b, c, d : /\ v = [kind |-> a, path |-> b, holds |-> c, admitted |-> d]
                        /\ Orderly(b, c) /\ c \subseteq Resources /\ b = v.path /\ c = v.holds
  BY <1>2
<1>4. CASE Survives(r) = [request[r] EXCEPT !.admitted = FALSE]
  <2>1. PICK w : w = [v EXCEPT !.admitted = FALSE]
    OBVIOUS
  <2>2. w = [kind |-> a, path |-> b, holds |-> c, admitted |-> FALSE]
    BY <1>3, <2>1
  <2>3. w.kind = a /\ w.path = b /\ w.holds = c /\ w.admitted = FALSE
    BY <2>2
  <2>4. IsRequest(w)
    BY <1>3, <2>2, <2>3 DEF IsRequest
  <2> QED
    BY <1>1, <1>4, <2>1, <2>4
<1>5. CASE /\ At(r, Worker)
           /\ Survives(r) = [request[r] EXCEPT !.path = <<Worker>>, !.admitted = FALSE,
                               !.holds = Held(r, Pools \union {"snapshot"})]
  <2>1. PICK p, h : p = <<Worker>> /\ h = Held(r, Pools \union {"snapshot"})
    OBVIOUS
  <2>2. PICK w : w = [v EXCEPT !.path = p, !.admitted = FALSE, !.holds = h]
    OBVIOUS
  <2>3. w = [kind |-> a, path |-> p, holds |-> h, admitted |-> FALSE]
    BY <1>3, <2>2
  <2>4. w.kind = a /\ w.path = p /\ w.holds = h /\ w.admitted = FALSE
    BY <2>3
  <2>5. h \subseteq c
    BY <1>1, <1>3, <2>1 DEF Held
  <2>6. b # <<>> /\ Head(b) = Worker
    BY <1>1, <1>3, <1>5 DEF At
  <2>7. \A x \in h : Follows(x, Worker)
    BY <1>3, <2>5, <2>6, NextFollows
  <2>8. h \in SUBSET Resources
    BY <1>3, <2>5
  <2>9. Orderly(p, h)
    BY <2>1, <2>7, <2>8, LastInOrder
  <2>10. IsRequest(w)
    BY <2>3, <2>4, <2>9 DEF IsRequest
  <2>11. Survives(r) = w
    BY <1>1, <1>5, <2>1, <2>2
  <2> QED
    BY <2>10, <2>11
<1>6. CASE Survives(r) = None
  BY <1>6, NoneIsRequest
<1>7. \/ Survives(r) = [request[r] EXCEPT !.admitted = FALSE]
      \/ /\ At(r, Worker)
         /\ Survives(r) = [request[r] EXCEPT !.path = <<Worker>>, !.admitted = FALSE,
                             !.holds = Held(r, Pools \union {"snapshot"})]
      \/ Survives(r) = None
  BY DEF Survives
<1> QED
  BY <1>4, <1>5, <1>6, <1>7

(* The client goes away.                                                   *)
LEMMA HangUpInOrder ==
  ASSUME RequestsInOrder, NEW r \in Requests, HangUp(r) PROVE RequestsInOrder'
<1>1. PICK q : q = Survives(r)
  OBVIOUS
<1>2. request' = [request EXCEPT ![r] = q] /\ compactor' = compactor
  BY <1>1 DEF HangUp
<1> QED
  BY <1>1, <1>2, SurvivesInOrder, RequestChanges

(* The compactor takes no part in a request.                               *)
LEMMA CompactorInOrder ==
  ASSUME RequestsInOrder, request' = request, compactor' \in {"idle", "waiting", "exclusive"}
  PROVE  RequestsInOrder'
  BY DEF RequestsInOrder, IsRequest, Orderly

(* Every step keeps the order.                                             *)
LEMMA RequestsStep ==
  RequestsInOrder /\ [RequestsNext]_requestVars => RequestsInOrder'
<1> SUFFICES ASSUME RequestsInOrder, [RequestsNext]_requestVars PROVE RequestsInOrder'
  OBVIOUS
<1>1. CASE \E r \in Requests : Admit(r) \/ Acquire(r) \/ Work(r) \/ Respond(r) \/ HangUp(r)
  BY <1>1, AdmitInOrder, AcquireInOrder, WorkInOrder, RespondInOrder, HangUpInOrder
<1>2. CASE WaitForSnapshot \/ HoldSnapshot \/ ReleaseSnapshot
  BY <1>2, CompactorInOrder DEF WaitForSnapshot, HoldSnapshot, ReleaseSnapshot
<1>3. CASE UNCHANGED requestVars
  <2>1. request' = request /\ compactor' = compactor
    BY <1>3 DEF requestVars
  <2>2. compactor' \in {"idle", "waiting", "exclusive"}
    BY <2>1 DEF RequestsInOrder
  <2> QED
    BY <2>1, <2>2, CompactorInOrder
<1> QED
  BY <1>1, <1>2, <1>3 DEF RequestsNext
-----------------------------------------------------------------------------
(* A lock or a permit that is not there is held by someone.                *)
LEMMA Unavailable ==
  ASSUME NEW resource \in Resources \ {Snapshot}, ~Available(resource)
  PROVE  \E q \in Requests : resource \in request[q].holds
<1> SUFFICES ASSUME \A q \in Requests : resource \notin request[q].holds PROVE FALSE
  OBVIOUS
<1>1. {q \in Requests : resource \in request[q].holds} = {}
  OBVIOUS
<1>2. Cardinality({q \in Requests : resource \in request[q].holds}) = 0
  BY <1>1, FS_EmptySet
<1>3. Capacity(resource) \in Nat \ {0}
  BY RequestAssumption DEF Capacity
<1>4. ~(Cardinality({q \in Requests : resource \in request[q].holds}) < Capacity(resource))
  BY DEF Available
<1> QED
  BY <1>2, <1>3, <1>4

(* Whoever is at the end of its path or waits for nothing goes on.         *)
LEMMA Unhindered ==
  ASSUME NEW r \in Active,
         request[r].path = <<>> \/ Head(request[r].path) \in {Catalog, Worker, Release}
  PROVE  CanGoOn(r)
<1>1. ASSUME NEW what \in Resources \union {Client} PROVE ~At(r, what)
  BY <1>1, StagesDiffer DEF At, Resources
<1>2. Pool("artifact") \in Resources /\ Pool("upload") \in Resources
  BY DEF Resources, Pools
<1> QED
  BY <1>1, <1>2 DEF CanGoOn, Transferring

(* So does whoever waits for a resource that is there.                     *)
LEMMA Granted ==
  ASSUME NEW r \in Active, NEW resource \in Resources,
         resource \notin {Pool("artifact"), Pool("upload")},
         At(r, resource), Available(resource)
  PROVE  CanGoOn(r)
<1>1. ASSUME NEW what, At(r, what) PROVE what = resource
  BY <1>1 DEF At
<1>2. resource # Client
  BY StagesDiffer DEF Resources
<1> QED
  BY <1>1, <1>2 DEF CanGoOn, Transferring

(* Whoever holds something is active, and its path is at the end or at a   *)
(* stage that may follow what it holds.                                    *)
LEMMA Holder ==
  ASSUME RequestsInOrder, NEW q \in Requests, NEW h \in request[q].holds
  PROVE  /\ q \in Active
         /\ request[q].path = <<>> \/ Follows(h, Head(request[q].path))
<1>1. request[q] # None
  BY NoneIsRequest
<1>2. Orderly(request[q].path, request[q].holds)
  BY HeldSoFar
<1> QED
  BY <1>1, <1>2, NextFollows DEF Active

(* While the compactor leaves the snapshot alone, someone goes on whenever *)
(* a query, a batch or a read waits for its permit ...                     *)
LEMMA PoolsDrain ==
  ASSUME RequestsInOrder, compactor = "idle", NEW r \in Active,
         NEW pool \in {Pool("query"), Pool("ingest"), Snapshot}, At(r, pool)
  PROVE  \E q \in Requests : CanGoOn(q)
<1>1. r \in Requests /\ pool \in Resources /\ pool \notin {Pool("artifact"), Pool("upload")}
      /\ Snapshot \in Resources /\ Snapshot \notin {Pool("artifact"), Pool("upload")}
  BY StagesDiffer DEF Active, Resources, Pools
<1>2. Available(Snapshot)
  BY DEF Available
<1>3. CASE Available(pool)
  BY <1>1, <1>3, Granted
<1>4. CASE ~Available(pool)
  <2>1. PICK q \in Requests : pool \in request[q].holds
    BY <1>1, <1>2, <1>4, Unavailable
  <2>2. q \in Active /\ (request[q].path = <<>> \/ Follows(pool, Head(request[q].path)))
    BY <2>1, Holder
  <2>3. CASE request[q].path = <<>> \/ Head(request[q].path) \in {Catalog, Worker, Release}
    BY <2>2, <2>3, Unhindered
  <2>4. CASE request[q].path # <<>> /\ Head(request[q].path) = Snapshot
    <3>1. At(q, Snapshot)
      BY <2>4 DEF At
    <3> QED
      BY <1>1, <1>2, <2>2, <3>1, Granted
  <2> QED
    BY <1>2, <1>4, <2>2, <2>3, <2>4 DEF Follows
<1> QED
  BY <1>3, <1>4

(* ... and whenever one waits for a lock: of those that are waited for,    *)
(* the last is free or its holder waits for no other.                      *)
LEMMA LocksDrain ==
  ASSUME RequestsInOrder, compactor = "idle", NEW r \in Active, NEW i \in Stripes,
         At(r, Lock(i))
  PROVE  \E q \in Requests : CanGoOn(q)
<1> DEFINE T == {n \in Nat : \E j \in Stripes, q \in Active :
                               At(q, Lock(j)) /\ n = MutationLocks - j}
<1>1. MutationLocks \in Nat
  BY RequestAssumption
<1>2. T \in SUBSET Nat /\ T # {}
  <2>1. MutationLocks - i \in Nat
    BY <1>1 DEF Stripes
  <2> QED
    BY <2>1
<1>3. PICK n \in T : \A m \in T : n <= m
  <2> HIDE DEF T
  <2> QED
    BY <1>2, LeastElement
<1>4. PICK j \in Stripes, q \in Active : At(q, Lock(j)) /\ n = MutationLocks - j
  BY <1>3
<1>5. ASSUME NEW k \in Stripes, NEW p \in Active, At(p, Lock(k)) PROVE k <= j
  <2>1. MutationLocks - k \in Nat /\ k \in Int /\ j \in Int
    BY <1>1, <1>4 DEF Stripes
  <2>2. MutationLocks - k \in T
    BY <1>5, <2>1
  <2>3. n <= MutationLocks - k
    <3> HIDE DEF T
    <3> QED
      BY <1>3, <2>2
  <2> QED
    BY <1>1, <1>4, <2>1, <2>3
<1> HIDE DEF T
<1>6. /\ q \in Requests /\ Lock(j) \in Resources \ {Snapshot}
      /\ Lock(j) \notin {Pool("artifact"), Pool("upload")}
  BY <1>4, StagesDiffer DEF Active, Resources, Pools
<1>7. CASE Available(Lock(j))
  BY <1>4, <1>6, <1>7, Granted
<1>8. CASE ~Available(Lock(j))
  <2>1. PICK p \in Requests : Lock(j) \in request[p].holds
    BY <1>6, <1>8, Unavailable
  <2>2. p \in Active /\ (request[p].path = <<>> \/ Follows(Lock(j), Head(request[p].path)))
    BY <2>1, Holder
  <2>3. CASE request[p].path = <<>> \/ Head(request[p].path) \in {Catalog, Worker, Release}
    BY <2>2, <2>3, Unhindered
  <2>4. CASE /\ request[p].path # <<>>
             /\ Head(request[p].path) \in {Pool("ingest"), Pool("query"), Snapshot}
    <3>1. PICK pool \in {Pool("query"), Pool("ingest"), Snapshot} : At(p, pool)
      BY <2>4 DEF At
    <3> QED
      BY <2>2, <3>1, PoolsDrain
  <2>5. ~(/\ request[p].path # <<>> /\ IsLock(Head(request[p].path))
          /\ Lock(j)[2] < Head(request[p].path)[2])
    <3> SUFFICES ASSUME request[p].path # <<>>, NEW k \in Stripes,
                        Head(request[p].path) = Lock(k), Lock(j)[2] < Lock(k)[2]
        PROVE  FALSE
      BY DEF IsLock
    <3>1. k <= j
      BY <1>5, <2>2 DEF At
    <3>2. j < k /\ j \in Int /\ k \in Int
      BY <1>1, <1>4, IndicesOfStages DEF Stripes
    <3> QED
      BY <3>1, <3>2
  <2>6. IsLock(Lock(j))
    BY <1>4 DEF IsLock
  <2> QED
    BY <2>2, <2>3, <2>4, <2>5, <2>6 DEF Follows
<1> QED
  BY <1>7, <1>8

(* The order of the resources leaves someone who goes on.                  *)
LEMMA OrderHasNoCircle == RequestsInOrder => NoCircularWait
<1> SUFFICES ASSUME RequestsInOrder, compactor # "exclusive",
                    (\E r \in Active : ~Transferring(r)) \/ compactor # "idle",
                    ~(compactor = "waiting" /\ \A r \in Requests : Snapshot \notin request[r].holds)
    PROVE  \E r \in Requests : CanGoOn(r)
  BY DEF NoCircularWait
<1>1. CASE compactor = "waiting"
  <2>1. PICK q \in Requests : Snapshot \in request[q].holds
    BY <1>1
  <2>2. q \in Active /\ (request[q].path = <<>> \/ Follows(Snapshot, Head(request[q].path)))
    BY <2>1, Holder
  <2> QED
    BY <2>2, Unhindered DEF Follows
<1>2. CASE compactor = "idle"
  <2>1. PICK r \in Active : ~Transferring(r)
    BY <1>2
  <2>2. r \in Requests
    BY DEF Active
  <2>3. CASE request[r].path = <<>>
    BY <2>2, <2>3, Unhindered
  <2>4. CASE request[r].path # <<>>
    <3>1. PICK s \in Seq(Stages) : s = request[r].path
      BY <2>2, HeldSoFar DEF Orderly
    <3>2. PICK head \in Stages : head = Head(s) /\ At(r, head)
      <4>1. Head(s) \in Stages
        BY <2>4, <3>1
      <4> QED
        BY <2>4, <3>1, <4>1 DEF At
    <3>3. head \notin {Client, Pool("artifact"), Pool("upload")}
      BY <2>1, <3>2 DEF Transferring
    <3>4. \/ head \in {Catalog, Worker, Release}
          \/ head \in {Pool("query"), Pool("ingest"), Snapshot}
          \/ \E i \in Stripes : head = Lock(i)
      BY <3>2, <3>3 DEF Stages, Resources, Pools
    <3>5. CASE head \in {Catalog, Worker, Release}
      BY <2>2, <3>1, <3>2, <3>5, Unhindered
    <3>6. CASE head \in {Pool("query"), Pool("ingest"), Snapshot}
      BY <1>2, <3>2, <3>6, PoolsDrain
    <3>7. CASE \E i \in Stripes : head = Lock(i)
      BY <1>2, <3>2, <3>7, LocksDrain
    <3> QED
      BY <3>4, <3>5, <3>6, <3>7
  <2> QED
    BY <2>3, <2>4
<1> QED
  BY <1>1, <1>2 DEF RequestsInOrder

(* However many requests, locks and workers there are, requests            *)
(* (mutations, batches, queries, transfers) and the compactor never wait   *)
(* for each other in a circle (acquire_mutation_locks, the acquire of a    *)
(* pool, metric_snapshots).                                                *)
THEOREM NobodyWaitsInACircle == RequestsSpec => []NoCircularWait
<1>1. RequestsSpec => []RequestsInOrder
  BY RequestsStart, RequestsStep, PTL DEF RequestsSpec
<1> QED
  BY <1>1, OrderHasNoCircle, PTL

(***************************************************************************)
(* CompactionPolicy.                                                       *)
(***************************************************************************)
(* Segments of any size.                                                   *)
StoredSegment == [signature : Signatures, first : Nat, last : Nat, rewrites : Nat]

(* Segments of which each begins where the one before it ends.             *)
InARow(list) ==
  /\ list \in Seq(StoredSegment)
  /\ \A i \in 1 .. Len(list) : list[i].first <= list[i].last
  /\ \A i \in 1 .. Len(list) - 1 : list[i].last + 1 = list[i + 1].first

(* What a pass has chosen is still there, whatever is registered meanwhile.*)
CandidateIsSlice ==
  candidate # <<>> =>
    \E p \in 1 .. Len(segments) : \E q \in p .. Len(segments) :
      candidate = SubSeq(segments, p, q) /\ MinInputs <= q - p + 1 /\ Fits(candidate)

PolicyInv == InARow(segments) /\ CandidateIsSlice /\ RewritesAreBounded

(* Powers are what their equations say.                                    *)
LEMMA PowersDefined ==
  ASSUME NEW n \in Nat
  PROVE  \E power \in [0 .. n -> Nat] :
           /\ TwoToThe(n) = power[n] /\ power[0] = 1
           /\ \A i \in 1 .. n : power[i] = 2 * power[i - 1]
<1> DEFINE IsPower(f) == f = [i \in 0 .. n |-> IF i = 0 THEN 1 ELSE 2 * f[i - 1]]
<1> DEFINE step == [x \in (1 .. n) \X Nat |-> 2 * x[2]]
<1>1. PICK f \in [0 .. n -> Nat] : f[0] = 1 /\ \A i \in 1 .. n : f[i] = step[<<i, f[i - 1]>>]
  <2>1. step \in Steps(n, Nat) /\ 1 \in Nat
    BY DEF Steps
  <2> HIDE DEF step
  <2>2. Recursive(n, Nat, 1, step) # {}
    BY <2>1, Recursion
  <2> QED
    BY <2>2 DEF Recursive
<1>2. ASSUME NEW i \in 1 .. n PROVE f[i] = 2 * f[i - 1]
  <2>1. i - 1 \in 0 .. n
    OBVIOUS
  <2>2. <<i, f[i - 1]>> \in (1 .. n) \X Nat
    BY <2>1
  <2> QED
    BY <1>1, <2>2
<1>3. IsPower(f)
  <2>1. ASSUME NEW i \in 0 .. n PROVE f[i] = IF i = 0 THEN 1 ELSE 2 * f[i - 1]
    <3>1. CASE i = 0
      BY <1>1, <3>1
    <3>2. CASE i # 0
      <4>1. i \in 1 .. n
        BY <3>2
      <4> QED
        BY <1>2, <3>2, <4>1
    <3> QED
      BY <3>1, <3>2
  <2> QED
    BY <2>1
<1> DEFINE power == CHOOSE g : IsPower(g)
<1>4. IsPower(power)
  <2> HIDE DEF IsPower
  <2> QED
    BY <1>3, Zenon
<1>5. TwoToThe(n) = power[n]
  BY DEF TwoToThe
<1>6. power[0] = 1 /\ \A i \in 1 .. n : power[i] = 2 * power[i - 1]
  <2> HIDE DEF power
  <2> QED
    BY <1>4
<1>7. power = [i \in 0 .. n |-> power[i]]
  <2> HIDE DEF power
  <2> QED
    BY <1>4
<1> HIDE DEF IsPower, power
<1> DEFINE T == {i \in Nat : i <= n => power[i] \in Nat}
<1>8. 0 \in T
  BY <1>6
<1>9. ASSUME NEW i \in T PROVE i + 1 \in T
  <2> SUFFICES ASSUME i + 1 <= n PROVE power[i + 1] \in Nat
    OBVIOUS
  <2>1. i + 1 \in 1 .. n /\ (i + 1) - 1 = i /\ power[i] \in Nat
    OBVIOUS
  <2>2. power[i + 1] = 2 * power[(i + 1) - 1]
    BY <1>6, <2>1
  <2> QED
    BY <2>1, <2>2
<1>10. T = Nat
  BY <1>8, <1>9, Induction
<1>11. \A i \in 0 .. n : power[i] \in Nat
  BY <1>10
<1> HIDE DEF T
<1>12. power \in [0 .. n -> Nat]
  BY <1>7, <1>11
<1> QED
  BY <1>5, <1>6, <1>12

(* Powers of two.                                                          *)
LEMMA Powers ==
  ASSUME NEW n \in Nat
  PROVE  TwoToThe(n) \in Nat /\ TwoToThe(0) = 1 /\ TwoToThe(n + 1) = 2 * TwoToThe(n)
<1>1. PICK f \in [0 .. n -> Nat] :
        /\ TwoToThe(n) = f[n] /\ f[0] = 1 /\ \A i \in 1 .. n : f[i] = 2 * f[i - 1]
  BY PowersDefined
<1>2. PICK g \in [0 .. n + 1 -> Nat] :
        /\ TwoToThe(n + 1) = g[n + 1] /\ g[0] = 1
        /\ \A i \in 1 .. n + 1 : g[i] = 2 * g[i - 1]
  <2>1. n + 1 \in Nat
    OBVIOUS
  <2> QED
    BY <2>1, PowersDefined
<1>3. PICK e \in [0 .. 0 -> Nat] : TwoToThe(0) = e[0] /\ e[0] = 1
  BY PowersDefined
<1> DEFINE T == {i \in Nat : i <= n => f[i] = g[i]}
<1>4. 0 \in T
  BY <1>1, <1>2
<1>5. ASSUME NEW i \in T PROVE i + 1 \in T
  <2> SUFFICES ASSUME i + 1 <= n PROVE f[i + 1] = g[i + 1]
    OBVIOUS
  <2>1. i + 1 \in 1 .. n /\ i + 1 \in 1 .. n + 1 /\ (i + 1) - 1 = i /\ f[i] = g[i]
    OBVIOUS
  <2>2. f[i + 1] = 2 * f[(i + 1) - 1] /\ g[i + 1] = 2 * g[(i + 1) - 1]
    BY <1>1, <1>2, <2>1
  <2> QED
    BY <2>1, <2>2
<1>6. T = Nat
  BY <1>4, <1>5, Induction
<1>7. f[n] = g[n] /\ f[n] \in Nat
  BY <1>6
<1>8. g[n + 1] = 2 * g[n]
  <2>1. n + 1 \in 1 .. n + 1 /\ (n + 1) - 1 = n
    OBVIOUS
  <2>2. g[n + 1] = 2 * g[(n + 1) - 1]
    BY <1>2, <2>1
  <2> QED
    BY <2>1, <2>2
<1> QED
  BY <1>1, <1>2, <1>3, <1>7, <1>8

(* What a segment is.                                                      *)
LEMMA SegmentTyped ==
  ASSUME NEW list, InARow(list), NEW k \in 1 .. Len(list)
  PROVE  /\ list[k] \in StoredSegment /\ list[k].first \in Nat /\ list[k].last \in Nat
         /\ list[k].rewrites \in Nat /\ list[k].first <= list[k].last
         /\ RowCount(list[k]) \in Nat /\ RowCount(list[k]) = list[k].last - list[k].first + 1
<1>1. list[k] \in StoredSegment /\ list[k].first <= list[k].last
  BY DEF InARow
<1>2. list[k].first \in Nat /\ list[k].last \in Nat /\ list[k].rewrites \in Nat
  BY <1>1 DEF StoredSegment
<1> QED
  BY <1>1, <1>2 DEF RowCount

(* Segments in a row do not overlap.                                       *)
LEMMA RowsAscend ==
  ASSUME NEW list, InARow(list), NEW i \in 1 .. Len(list), NEW j \in 1 .. Len(list), i < j
  PROVE  list[i].last < list[j].first
<1>1. /\ Len(list) \in Nat
      /\ \A k \in 1 .. Len(list) :
           list[k].first \in Nat /\ list[k].last \in Nat /\ list[k].first <= list[k].last
      /\ \A k \in 1 .. Len(list) - 1 : list[k].last + 1 = list[k + 1].first
  <2>1. Len(list) \in Nat
    BY DEF InARow
  <2>2. \A k \in 1 .. Len(list) :
          list[k].first \in Nat /\ list[k].last \in Nat /\ list[k].first <= list[k].last
    BY SegmentTyped
  <2>3. \A k \in 1 .. Len(list) - 1 : list[k].last + 1 = list[k + 1].first
    BY DEF InARow
  <2> QED
    BY <2>1, <2>2, <2>3
<1> DEFINE T == {d \in Nat : i + 1 + d <= Len(list) => list[i].last < list[i + 1 + d].first}
<1>2. 0 \in T
  BY <1>1
<1>3. ASSUME NEW d \in T PROVE d + 1 \in T
  <2> SUFFICES ASSUME i + 1 + (d + 1) <= Len(list)
      PROVE  list[i].last < list[i + 1 + (d + 1)].first
    OBVIOUS
  <2>1. PICK k : k = i + 1 + d
    OBVIOUS
  <2>2. d \in Nat /\ k \in 1 .. Len(list) - 1 /\ k \in 1 .. Len(list) /\ k + 1 \in 1 .. Len(list)
        /\ i + 1 + (d + 1) = k + 1 /\ i + 1 + d <= Len(list)
    BY <1>1, <2>1
  <2>3. list[i].last < list[k].first
    BY <2>1, <2>2
  <2>4. PICK a, b, c, e : /\ a = list[i].last /\ b = list[k].first /\ c = list[k].last
                          /\ e = list[k + 1].first
    OBVIOUS
  <2>5. a \in Nat /\ b \in Nat /\ c \in Nat /\ e \in Nat /\ a < b /\ b <= c /\ c + 1 = e
    BY <1>1, <2>2, <2>3, <2>4
  <2>6. a < e
    BY <2>5
  <2> QED
    BY <2>2, <2>4, <2>6
<1>4. T = Nat
  BY <1>2, <1>3, Induction
<1> HIDE DEF T
<1>5. PICK d \in Nat : j = i + 1 + d
  <2>1. j - (i + 1) \in Nat /\ j = i + 1 + (j - (i + 1))
    BY <1>1
  <2> QED
    BY <2>1
<1>6. d \in T
  BY <1>4
<1>7. i + 1 + d <= Len(list) => list[i].last < list[i + 1 + d].first
  BY <1>6 DEF T
<1> QED
  BY <1>1, <1>5, <1>7

(* A part of segments in a row is in a row.                                *)
LEMMA SliceInARow ==
  ASSUME NEW list, InARow(list), NEW m \in 1 .. Len(list) + 1, NEW n \in m - 1 .. Len(list)
  PROVE  InARow(SubSeq(list, m, n))
<1>1. PICK s : s = SubSeq(list, m, n)
  OBVIOUS
<1>2. list \in Seq(StoredSegment) /\ Len(list) \in Nat /\ m \in Nat /\ n \in Nat
  BY DEF InARow
<1>3. s \in Seq(StoredSegment) /\ Len(s) = n - m + 1
      /\ \A k \in 1 .. n - m + 1 : s[k] = list[m + k - 1]
  BY <1>1, <1>2, Slice
<1>4. ASSUME NEW i \in 1 .. Len(s) PROVE s[i].first <= s[i].last
  <2>1. i \in 1 .. n - m + 1 /\ m + i - 1 \in 1 .. Len(list)
    BY <1>2, <1>3
  <2>2. s[i] = list[m + i - 1]
    BY <1>3, <2>1
  <2> QED
    BY <2>1, <2>2 DEF InARow
<1>5. ASSUME NEW i \in 1 .. Len(s) - 1 PROVE s[i].last + 1 = s[i + 1].first
  <2>1. i \in 1 .. n - m + 1 /\ i + 1 \in 1 .. n - m + 1 /\ m + i - 1 \in 1 .. Len(list) - 1
        /\ m + (i + 1) - 1 = (m + i - 1) + 1
    BY <1>2, <1>3
  <2>2. s[i] = list[m + i - 1] /\ s[i + 1] = list[m + (i + 1) - 1]
    BY <1>3, <2>1
  <2>3. list[m + i - 1].last + 1 = list[(m + i - 1) + 1].first
    BY <2>1 DEF InARow
  <2> QED
    BY <2>1, <2>2, <2>3
<1>6. InARow(s)
  BY <1>3, <1>4, <1>5 DEF InARow
<1> QED
  BY <1>1, <1>6

(* Where a segment begins tells which it is.                               *)
LEMMA FirstTells ==
  ASSUME NEW list, InARow(list), NEW i \in 1 .. Len(list), NEW j \in 1 .. Len(list)
  PROVE  (list[i].first <= list[j].first <=> i <= j)
         /\ (list[i].first = list[j].first => i = j)
<1>1. Len(list) \in Nat /\ list[i].first \in Nat /\ list[i].last \in Nat
      /\ list[i].first <= list[i].last
      /\ list[j].first \in Nat /\ list[j].last \in Nat /\ list[j].first <= list[j].last
  BY SegmentTyped DEF InARow
<1>2. i < j => list[i].last < list[j].first
  BY RowsAscend
<1>3. j < i => list[j].last < list[i].first
  BY RowsAscend
<1> QED
  BY <1>1, <1>2, <1>3

(* The rows of segments in a row.                                          *)
LEMMA RowsInARow ==
  ASSUME NEW list, InARow(list), list # <<>>
  PROVE  TotalRows(list) = list[Len(list)].last - list[1].first + 1
<1> DEFINE n == Len(list)
<1> DEFINE IsSum(f) == f = [i \in 0 .. n |-> IF i = 0 THEN 0 ELSE f[i - 1] + RowCount(list[i])]
<1> DEFINE f == [i \in 0 .. n |-> IF i = 0 THEN 0 ELSE list[i].last - list[1].first + 1]
<1>1. n \in Nat /\ n >= 1 /\ list[1].first \in Nat
      /\ \A i \in 1 .. n : list[i].first \in Nat /\ list[i].last \in Nat
                           /\ RowCount(list[i]) = list[i].last - list[i].first + 1
  <2>1. n \in Nat /\ n >= 1
    BY DEF InARow
  <2>2. 1 \in 1 .. n
    BY <2>1
  <2> QED
    BY <2>1, <2>2, SegmentTyped
<1>2. f[0] = 0
  BY <1>1
<1>3. ASSUME NEW i \in 1 .. n PROVE f[i] = f[i - 1] + RowCount(list[i])
  <2>1. f[i] = list[i].last - list[1].first + 1
    BY <1>1
  <2>2. CASE i = 1
    BY <1>1, <1>2, <2>1, <2>2
  <2>3. CASE i # 1
    <3>1. PICK k : k = i - 1
      OBVIOUS
    <3>2. k \in 1 .. n - 1 /\ k \in 0 .. n /\ k # 0 /\ k + 1 = i /\ k \in 1 .. n
      BY <1>1, <2>3, <3>1
    <3>3. f[k] = list[k].last - list[1].first + 1
      BY <3>2
    <3>4. list[k].last + 1 = list[i].first
      BY <3>2 DEF InARow
    <3> HIDE DEF f
    <3>5. PICK a, b, c, d, e : /\ a = list[1].first /\ b = list[k].last /\ c = list[i].first
                               /\ d = list[i].last /\ e = RowCount(list[i])
      OBVIOUS
    <3>6. /\ a \in Nat /\ b \in Nat /\ c \in Nat /\ d \in Nat /\ e = d - c + 1 /\ b + 1 = c
          /\ f[i] = d - a + 1 /\ f[k] = b - a + 1
      BY <1>1, <2>1, <3>2, <3>3, <3>4, <3>5
    <3>7. f[i] = f[k] + e
      BY <3>6
    <3> QED
      BY <3>1, <3>5, <3>7
  <2> QED
    BY <2>2, <2>3
<1>4. IsSum(f)
  <2>1. ASSUME NEW i \in 0 .. n
        PROVE  f[i] = IF i = 0 THEN 0 ELSE f[i - 1] + RowCount(list[i])
    <3>1. CASE i = 0
      BY <1>2, <3>1
    <3>2. CASE i # 0
      <4>1. i \in 1 .. n
        BY <1>1, <3>2
      <4> HIDE DEF f
      <4> QED
        BY <1>3, <3>2, <4>1
    <3> QED
      BY <3>1, <3>2
  <2>2. f = [i \in 0 .. n |-> f[i]]
    OBVIOUS
  <2> HIDE DEF f
  <2> QED
    BY <2>1, <2>2
<1> DEFINE upTo == CHOOSE g : IsSum(g)
<1>5. IsSum(upTo)
  <2> HIDE DEF IsSum, f
  <2> QED
    BY <1>4, Zenon
<1>6. TotalRows(list) = upTo[n]
  BY DEF TotalRows
<1>7. upTo[0] = 0 /\ \A i \in 1 .. n : upTo[i] = upTo[i - 1] + RowCount(list[i])
  <2> HIDE DEF upTo
  <2> QED
    BY <1>1, <1>5
<1> HIDE DEF IsSum, upTo
<1> DEFINE T == {i \in Nat : i <= n => upTo[i] = f[i]}
<1>8. 0 \in T
  BY <1>2, <1>7
<1>9. ASSUME NEW i \in T PROVE i + 1 \in T
  <2> SUFFICES ASSUME i + 1 <= n PROVE upTo[i + 1] = f[i + 1]
    OBVIOUS
  <2> HIDE DEF f
  <2>1. i \in Nat /\ i + 1 \in 1 .. n /\ (i + 1) - 1 = i /\ upTo[i] = f[i]
    BY <1>1
  <2> HIDE DEF T
  <2>2. upTo[i + 1] = upTo[(i + 1) - 1] + RowCount(list[i + 1])
        /\ f[i + 1] = f[(i + 1) - 1] + RowCount(list[i + 1])
    BY <1>3, <1>7, <2>1
  <2> QED
    BY <2>1, <2>2
<1>10. T = Nat
  <2> HIDE DEF f
  <2> QED
    BY <1>8, <1>9, Induction
<1>11. upTo[n] = f[n]
  <2> HIDE DEF f
  <2> QED
    BY <1>1, <1>10
<1>12. f[n] = list[n].last - list[1].first + 1
  BY <1>1
<1> QED
  BY <1>6, <1>11, <1>12

(* What fits still does without its last segments.                         *)
LEMMA PrefixFits ==
  ASSUME NEW list, InARow(list), Fits(list), NEW m \in 1 .. Len(list)
  PROVE  Fits(SubSeq(list, 1, m))
<1>1. PICK s : s = SubSeq(list, 1, m)
  OBVIOUS
<1>2. list \in Seq(StoredSegment) /\ Len(list) \in Nat /\ m \in Nat /\ 1 \in 1 .. Len(list) + 1
      /\ m \in 1 - 1 .. Len(list) /\ 1 \in 1 .. Len(list)
  BY DEF InARow
<1>3. s \in Seq(StoredSegment) /\ Len(s) = m /\ \A k \in 1 .. m : s[k] = list[k]
  <2>1. s \in Seq(StoredSegment) /\ Len(s) = m - 1 + 1
        /\ \A k \in 1 .. m - 1 + 1 : s[k] = list[1 + k - 1]
    BY <1>1, <1>2, Slice
  <2>2. m - 1 + 1 = m /\ \A k \in 1 .. m : 1 + k - 1 = k
    BY <1>2
  <2> QED
    BY <2>1, <2>2
<1>4. InARow(s)
  BY <1>1, <1>2, SliceInARow
<1>5. \A k \in 1 .. m : k \in 1 .. Len(list)
  BY <1>2
<1>6. Adjacent(s)
  <2> SUFFICES ASSUME NEW i \in 1 .. Len(s) - 1
      PROVE  s[i].signature = s[i + 1].signature /\ s[i].last + 1 = s[i + 1].first
    BY DEF Adjacent
  <2>1. i \in 1 .. m /\ i + 1 \in 1 .. m /\ i \in 1 .. Len(list) - 1
    BY <1>2, <1>3
  <2> QED
    BY <1>3, <2>1 DEF Fits, Adjacent
<1>7. Comparable(s)
  BY <1>3, <1>5 DEF Fits, Comparable
<1>8. \A i \in 1 .. Len(s) : RowCount(s[i]) < TargetRows
  BY <1>3, <1>5 DEF Fits
<1>9. TotalRows(s) <= TargetRows
  <2>1. s # <<>> /\ list # <<>>
    BY <1>2, <1>3
  <2>2. TotalRows(s) = list[m].last - list[1].first + 1
    <3>1. 1 \in 1 .. m /\ m \in 1 .. m
      BY <1>2
    <3> QED
      BY <1>3, <1>4, <2>1, <3>1, RowsInARow
  <2>3. TotalRows(list) = list[Len(list)].last - list[1].first + 1
    BY <2>1, RowsInARow
  <2>4. list[m].last <= list[Len(list)].last /\ list[m].last \in Nat /\ list[1].first \in Nat
        /\ list[Len(list)].last \in Nat
    <3>1. Len(list) \in 1 .. Len(list)
      BY <1>2
    <3>2. /\ list[m].last \in Nat /\ list[1].first \in Nat /\ list[Len(list)].last \in Nat
          /\ list[Len(list)].first \in Nat /\ list[Len(list)].first <= list[Len(list)].last
      BY <1>2, <3>1, SegmentTyped
    <3>3. CASE m = Len(list)
      BY <3>2, <3>3
    <3>4. CASE m # Len(list)
      <4>1. m < Len(list)
        BY <1>2, <3>4
      <4>2. list[m].last < list[Len(list)].first
        BY <3>1, <4>1, RowsAscend
      <4> QED
        BY <3>2, <4>2
    <3> QED
      BY <3>2, <3>3, <3>4
  <2>5. TotalRows(list) <= TargetRows /\ TargetRows \in Nat
    BY PolicyAssumption DEF Fits
  <2> HIDE <1>1
  <2> QED
    BY <2>2, <2>3, <2>4, <2>5
<1>10. Fits(s)
  BY <1>6, <1>7, <1>8, <1>9 DEF Fits
<1> QED
  BY <1>1, <1>10

(* The first query looks at small segments only, but a window that it      *)
(* finds is a stretch of all of them.                                      *)
LEMMA SeedIsSlice ==
  ASSUME InARow(segments), NEW i \in Seeds
  PROVE  \E p \in 1 .. Len(segments) :
           /\ p + MinInputs - 1 <= Len(segments) /\ Small[i] = segments[p]
           /\ Fits(SubSeq(segments, p, p + MinInputs - 1))
<1>1. PICK w : w = SubSeq(Small, i, i + MinInputs - 1)
  OBVIOUS
<1>2. /\ i \in 1 .. Len(Small) /\ i + MinInputs - 1 <= Len(Small)
      /\ Adjacent(w) /\ TotalRows(w) <= TargetRows /\ Comparable(w)
  BY <1>1 DEF Seeds
<1>3. segments \in Seq(StoredSegment) /\ Len(segments) \in Nat
      /\ MinInputs \in Nat /\ MinInputs >= 2 /\ TargetRows \in Nat
  BY PolicyAssumption DEF InARow
<1>4. /\ Small \in Seq(StoredSegment) /\ Len(Small) \in Nat
      /\ ToSet(Small) = ToSet(segments)
                          \intersect {s \in ToSet(segments) : RowCount(s) < TargetRows}
  BY <1>3, OnlyElements DEF Small
<1>5. /\ w \in Seq(StoredSegment) /\ Len(w) = MinInputs
      /\ \A k \in 1 .. MinInputs : w[k] = Small[i + k - 1]
  <2>1. PICK j : j = i + MinInputs - 1
    OBVIOUS
  <2>2. i \in 1 .. Len(Small) + 1 /\ j \in i - 1 .. Len(Small) /\ j - i + 1 = MinInputs
    BY <1>2, <1>3, <1>4, <2>1
  <2>3. w \in Seq(StoredSegment) /\ Len(w) = j - i + 1
        /\ \A k \in 1 .. j - i + 1 : w[k] = Small[i + k - 1]
    BY <1>1, <1>4, <2>1, <2>2, Slice
  <2> QED
    BY <2>2, <2>3
<1>6. ASSUME NEW k \in 1 .. MinInputs
      PROVE  RowCount(w[k]) < TargetRows /\ \E q \in 1 .. Len(segments) : w[k] = segments[q]
  <2>1. i + k - 1 \in 1 .. Len(Small)
    BY <1>2, <1>3, <1>4
  <2>2. PICK v : v = w[k]
    OBVIOUS
  <2>3. v \in ToSet(Small)
    BY <1>5, <2>1, <2>2 DEF ToSet
  <2>4. v \in ToSet(segments) /\ RowCount(v) < TargetRows
    BY <1>4, <2>3
  <2>5. \E q \in 1 .. Len(segments) : v = segments[q]
    BY <2>4 DEF ToSet
  <2> QED
    BY <2>2, <2>4, <2>5
<1>7. 1 \in 1 .. MinInputs
  BY <1>3
<1>8. PICK p \in 1 .. Len(segments) : w[1] = segments[p]
  BY <1>6, <1>7
<1> DEFINE T == {k \in Nat : k < MinInputs => p + k <= Len(segments) /\ w[k + 1] = segments[p + k]}
<1>9. 0 \in T
  BY <1>3, <1>8
<1>10. ASSUME NEW k \in T PROVE k + 1 \in T
  <2> SUFFICES ASSUME k + 1 < MinInputs
      PROVE  p + (k + 1) <= Len(segments) /\ w[(k + 1) + 1] = segments[p + (k + 1)]
    OBVIOUS
  <2>1. k \in Nat /\ p + k <= Len(segments) /\ w[k + 1] = segments[p + k]
    BY <1>3
  <2> HIDE DEF T
  <2>2. PICK x, l : x = p + k /\ l = k + 1
    OBVIOUS
  <2>3. x \in 1 .. Len(segments) /\ l \in 1 .. MinInputs - 1 /\ l + 1 \in 1 .. MinInputs
        /\ p + (k + 1) = x + 1 /\ w[l] = segments[x] /\ x \in Nat
    BY <1>3, <2>1, <2>2
  <2>4. PICK q \in 1 .. Len(segments) : w[l + 1] = segments[q]
    BY <1>6, <2>3
  <2>5. w[l].last + 1 = w[l + 1].first
    BY <1>2, <1>5, <2>3 DEF Adjacent
  <2>6. segments[x].last + 1 = segments[q].first
    BY <2>3, <2>4, <2>5
  <2>7. /\ segments[x].first \in Nat /\ segments[x].last \in Nat /\ segments[q].first \in Nat
        /\ segments[x].first <= segments[x].last
    BY <2>3, SegmentTyped
  <2>8. ~(segments[q].first <= segments[x].first)
    BY <2>6, <2>7
  <2>9. ~(q <= x)
    BY <2>3, <2>8, FirstTells
  <2>10. x + 1 <= Len(segments) /\ x \in 1 .. Len(segments) - 1 /\ x + 1 \in 1 .. Len(segments)
    BY <1>3, <2>3, <2>9
  <2>11. segments[x].last + 1 = segments[x + 1].first
    BY <2>10 DEF InARow
  <2>12. q = x + 1
    BY <2>6, <2>10, <2>11, FirstTells
  <2> QED
    BY <2>2, <2>3, <2>4, <2>10, <2>12
<1>11. T = Nat
  BY <1>9, <1>10, Induction
<1>12. \A k \in Nat : k < MinInputs => p + k <= Len(segments) /\ w[k + 1] = segments[p + k]
  BY <1>11
<1> HIDE DEF T
<1>13. p + MinInputs - 1 <= Len(segments)
  <2>1. MinInputs - 1 \in Nat /\ MinInputs - 1 < MinInputs /\ p + (MinInputs - 1) = p + MinInputs - 1
    BY <1>3
  <2> QED
    BY <1>12, <2>1
<1>14. w = SubSeq(segments, p, p + MinInputs - 1)
  <2>1. PICK r : r = p + MinInputs - 1
    OBVIOUS
  <2>2. p \in 1 .. Len(segments) + 1 /\ r \in p - 1 .. Len(segments) /\ r - p + 1 = MinInputs
    BY <1>3, <1>13, <2>1
  <2>3. PICK u : u = SubSeq(segments, p, r)
    OBVIOUS
  <2>4. u \in Seq(StoredSegment) /\ Len(u) = r - p + 1
        /\ \A k \in 1 .. r - p + 1 : u[k] = segments[p + k - 1]
    BY <1>3, <2>2, <2>3, Slice
  <2>5. ASSUME NEW k \in 1 .. MinInputs PROVE u[k] = w[k]
    <3>1. k - 1 \in Nat /\ k - 1 < MinInputs /\ (k - 1) + 1 = k /\ p + (k - 1) = p + k - 1
      BY <1>3
    <3>2. w[(k - 1) + 1] = segments[p + (k - 1)]
      BY <1>12, <3>1
    <3> QED
      BY <2>2, <2>4, <3>1, <3>2
  <2>6. u = w
    BY <1>5, <2>2, <2>4, <2>5, SeqEqual
  <2> QED
    BY <2>1, <2>3, <2>6
<1>15. Small[i] = segments[p]
  <2>1. i + 1 - 1 = i
    BY <1>2, <1>4
  <2> QED
    BY <1>5, <1>7, <1>8, <2>1
<1>16. Fits(w)
  BY <1>2, <1>5, <1>6 DEF Fits
<1> QED
  BY <1>13, <1>14, <1>15, <1>16

(* What the second query takes is a stretch of the segments that fits and  *)
(* is at least as long as the seed's window.                               *)
LEMMA ExtensionOfSeed ==
  ASSUME InARow(segments), Seeds # {}
  PROVE  \E p \in 1 .. Len(segments) : \E n \in MinInputs .. Len(segments) :
           /\ p + n - 1 <= Len(segments)
           /\ Extension = SubSeq(segments, p, p + n - 1) /\ Fits(Extension) /\ Len(Extension) = n
<1>1. segments \in Seq(StoredSegment) /\ Len(segments) \in Nat
      /\ MinInputs \in Nat /\ MinInputs >= 2 /\ MaxInputs \in Nat /\ MinInputs <= MaxInputs
  BY PolicyAssumption DEF InARow
<1>2. \E i \in Seeds : \A j \in Seeds : i <= j
  <2>1. Seeds \in SUBSET Nat
    <3>1. \A x \in Seeds : x \in 1 .. Len(Small)
      BY DEF Seeds
    <3>2. Len(Small) \in Nat
      BY <1>1, OnlyElements DEF Small
    <3> QED
      BY <3>1, <3>2
  <2> QED
    BY <2>1, LeastElement
<1>3. PICK i \in Seeds : i = CHOOSE x \in Seeds : \A j \in Seeds : x <= j
  BY <1>2
<1>4. SeedSequence = Small[i].first
  BY <1>3 DEF SeedSequence
<1>5. PICK p \in 1 .. Len(segments) :
        /\ p + MinInputs - 1 <= Len(segments) /\ Small[i] = segments[p]
        /\ Fits(SubSeq(segments, p, p + MinInputs - 1))
  BY SeedIsSlice
<1>6. p \in Nat /\ p \in 1 .. Len(segments) + 1 /\ Len(segments) \in p - 1 .. Len(segments)
  BY <1>1
<1>7. PICK rest : rest = Only(segments, {s \in ToSet(segments) : s.first >= SeedSequence})
  OBVIOUS
<1>8. rest = SubSeq(segments, p, Len(segments))
  <2> DEFINE chosen == {s \in ToSet(segments) : s.first >= SeedSequence}
  <2>1. ASSUME NEW k \in 1 .. Len(segments)
        PROVE  segments[k] \in chosen <=> (p <= k /\ k <= Len(segments))
    <3>1. segments[k] \in ToSet(segments)
      BY <1>1 DEF ToSet
    <3>2. SeedSequence = segments[p].first
      BY <1>4, <1>5
    <3>3. segments[p].first <= segments[k].first <=> p <= k
      BY FirstTells
    <3>4. segments[p].first \in Nat /\ segments[k].first \in Nat /\ k <= Len(segments)
      BY <1>1, SegmentTyped
    <3> QED
      BY <3>1, <3>2, <3>3, <3>4
  <2> HIDE DEF chosen
  <2>2. Only(segments, chosen) = SubSeq(segments, p, Len(segments))
    BY <1>1, <1>6, <2>1, OnlySlice
  <2> QED
    BY <1>7, <2>2 DEF chosen
<1>9. PICK c : c = IF Len(rest) < MaxInputs THEN Len(rest) ELSE MaxInputs
  OBVIOUS
<1>10. Len(rest) = Len(segments) - p + 1
  BY <1>1, <1>6, <1>8, Slice
<1>11. c \in Nat /\ MinInputs <= c /\ c <= Len(segments) - p + 1 /\ p + c - 1 <= Len(segments)
       /\ c \in 1 - 1 .. Len(segments) - p + 1 /\ c <= Len(segments)
  BY <1>1, <1>5, <1>6, <1>9, <1>10
<1>12. PICK r : r = p + c - 1
  OBVIOUS
<1>13. r \in p - 1 .. Len(segments) /\ r - p + 1 = c /\ p + 1 - 1 = p
       /\ 1 \in 1 .. Len(segments) - p + 2
  BY <1>1, <1>6, <1>11, <1>12
<1>14. FromSeed = SubSeq(segments, p, r)
  <2>1. FromSeed = SubSeq(rest, 1, c)
    BY <1>7, <1>9 DEF FromSeed
  <2>2. SubSeq(SubSeq(segments, p, Len(segments)), 1, c)
          = SubSeq(segments, p + 1 - 1, p + c - 1)
    BY <1>1, <1>6, <1>11, <1>13, SliceOfSlice
  <2> QED
    BY <1>8, <1>12, <1>13, <2>1, <2>2
<1>15. PICK f : f = FromSeed
  OBVIOUS
<1>16. f \in Seq(StoredSegment) /\ Len(f) = c
  BY <1>1, <1>6, <1>13, <1>14, <1>15, Slice
<1>17. ASSUME NEW m \in 1 .. c
       PROVE  SubSeq(f, 1, m) = SubSeq(segments, p, p + m - 1)
  <2>1. m \in 1 - 1 .. r - p + 1 /\ 1 \in 1 .. r - p + 2
    BY <1>11, <1>13
  <2>2. SubSeq(SubSeq(segments, p, r), 1, m) = SubSeq(segments, p + 1 - 1, p + m - 1)
    BY <1>1, <1>6, <1>13, <2>1, SliceOfSlice
  <2> QED
    BY <1>13, <1>14, <1>15, <2>2
<1> DEFINE taken == {n \in 0 .. Len(f) : \A m \in 1 .. n : Fits(SubSeq(f, 1, m))}
<1>18. MinInputs \in taken
  <2>1. PICK w : w = SubSeq(segments, p, p + MinInputs - 1)
    OBVIOUS
  <2>2. PICK t : t = p + MinInputs - 1
    OBVIOUS
  <2>3. t \in p - 1 .. Len(segments) /\ t - p + 1 = MinInputs
    BY <1>1, <1>5, <1>6, <2>2
  <2>4. InARow(w) /\ Fits(w) /\ Len(w) = MinInputs
    <3>1. InARow(w)
      BY <1>6, <2>1, <2>2, <2>3, SliceInARow
    <3>2. Len(w) = t - p + 1
      BY <1>1, <1>6, <2>1, <2>2, <2>3, Slice
    <3> QED
      BY <1>5, <2>1, <2>3, <3>1, <3>2
  <2>5. ASSUME NEW m \in 1 .. MinInputs PROVE Fits(SubSeq(f, 1, m))
    <3>1. m \in 1 .. c /\ m \in 1 - 1 .. t - p + 1 /\ 1 \in 1 .. t - p + 2
      BY <1>1, <1>11, <2>3
    <3>2. SubSeq(SubSeq(segments, p, t), 1, m) = SubSeq(segments, p + 1 - 1, p + m - 1)
      BY <1>1, <1>6, <2>3, <3>1, SliceOfSlice
    <3>3. SubSeq(f, 1, m) = SubSeq(w, 1, m)
      BY <1>13, <1>17, <2>1, <2>2, <3>1, <3>2
    <3>4. m \in 1 .. Len(w)
      BY <2>4
    <3> QED
      BY <2>4, <3>3, <3>4, PrefixFits
  <2>6. MinInputs \in 0 .. Len(f)
    BY <1>1, <1>11, <1>16
  <2> QED
    BY <2>5, <2>6
<1>19. \E n \in taken : \A m \in taken : m <= n
  <2> DEFINE gaps == {d \in Nat : c - d \in taken}
  <2>1. taken \subseteq 0 .. c
    BY <1>16
  <2> HIDE DEF taken
  <2>2. c - MinInputs \in gaps
    <3>1. c - MinInputs \in Nat /\ c - (c - MinInputs) = MinInputs
      BY <1>1, <1>11
    <3> QED
      BY <1>18, <3>1
  <2>3. PICK d \in gaps : \A e \in gaps : d <= e
    <3>1. gaps \in SUBSET Nat /\ gaps # {}
      BY <2>2
    <3> QED
      BY <3>1, LeastElement
  <2>4. ASSUME NEW m \in taken PROVE m <= c - d
    <3>1. m \in 0 .. c /\ c - m \in Nat /\ c - (c - m) = m
      BY <1>11, <2>1
    <3>2. c - m \in gaps
      BY <3>1
    <3>3. d <= c - m
      BY <2>3, <3>2
    <3> QED
      BY <1>11, <2>3, <3>1, <3>3
  <2> QED
    BY <2>3, <2>4
<1>20. PICK n \in taken : n = CHOOSE x \in taken : \A m \in taken : m <= x
  <2> HIDE DEF taken
  <2> QED
    BY <1>19
<1>21. MinInputs <= n
  <2> HIDE DEF taken
  <2> QED
    BY <1>18, <1>19, <1>20
<1>22. n \in 0 .. c /\ n \in Nat /\ n \in 1 .. c /\ n \in 1 .. n /\ n \in MinInputs .. Len(segments)
       /\ p + n - 1 <= Len(segments)
  <2>1. n \in 0 .. c
    BY <1>16
  <2> HIDE DEF taken
  <2> QED
    BY <1>1, <1>6, <1>11, <1>21, <2>1
<1>23. Extension = SubSeq(f, 1, n)
  BY <1>15, <1>20 DEF Extension
<1>24. Fits(Extension)
  BY <1>22, <1>23
<1>25. Extension = SubSeq(segments, p, p + n - 1)
  BY <1>17, <1>22, <1>23
<1>26. Len(Extension) = n
  <2>1. 1 \in 1 .. Len(f) + 1 /\ n \in 1 - 1 .. Len(f) /\ n - 1 + 1 = n
    BY <1>11, <1>16, <1>22
  <2>2. Len(SubSeq(f, 1, n)) = n - 1 + 1
    BY <1>16, <2>1, Slice
  <2> QED
    BY <1>23, <2>1, <2>2
<1> QED
  BY <1>22, <1>24, <1>25, <1>26

(* Of some segments one has been rewritten most often.                     *)
LEMMA MostRewritten ==
  ASSUME NEW list, InARow(list), list # <<>>
  PROVE  \E m \in 1 .. Len(list) :
           \A i \in 1 .. Len(list) : list[i].rewrites <= list[m].rewrites
<1>1. Len(list) \in Nat /\ Len(list) >= 1
  BY DEF InARow
<1>2. \A i \in 1 .. Len(list) : list[i].rewrites \in Nat
  BY SegmentTyped
<1> DEFINE T == {n \in Nat : n < Len(list) =>
                   \E m \in 1 .. Len(list) :
                     \A i \in 1 .. n + 1 : list[i].rewrites <= list[m].rewrites}
<1>3. 0 \in T
  <2>1. 1 \in 1 .. Len(list) /\ \A i \in 1 .. 0 + 1 : i = 1
    BY <1>1
  <2>2. \A i \in 1 .. 0 + 1 : list[i].rewrites <= list[1].rewrites
    BY <1>2, <2>1
  <2> QED
    BY <2>1, <2>2
<1>4. ASSUME NEW n \in T PROVE n + 1 \in T
  <2> SUFFICES ASSUME n + 1 < Len(list)
      PROVE  \E m \in 1 .. Len(list) :
               \A i \in 1 .. (n + 1) + 1 : list[i].rewrites <= list[m].rewrites
    OBVIOUS
  <2>1. n \in Nat /\ n < Len(list)
    BY <1>1
  <2>2. PICK m \in 1 .. Len(list) : \A i \in 1 .. n + 1 : list[i].rewrites <= list[m].rewrites
    BY <2>1
  <2> HIDE DEF T
  <2>3. PICK x : x = (n + 1) + 1
    OBVIOUS
  <2>4. x \in 1 .. Len(list) /\ \A i \in 1 .. x : i \in 1 .. n + 1 \/ i = x
    BY <1>1, <2>1, <2>3
  <2>5. CASE list[x].rewrites <= list[m].rewrites
    BY <2>2, <2>3, <2>4, <2>5
  <2>6. CASE list[m].rewrites <= list[x].rewrites
    <3>1. ASSUME NEW i \in 1 .. x PROVE list[i].rewrites <= list[x].rewrites
      <4>1. CASE i = x
        BY <1>2, <2>4, <4>1
      <4>2. CASE i \in 1 .. n + 1
        <5>1. i \in 1 .. Len(list)
          BY <1>1, <2>1, <4>2
        <5>2. list[i].rewrites <= list[m].rewrites
          BY <2>2, <4>2
        <5>3. list[i].rewrites \in Nat /\ list[m].rewrites \in Nat /\ list[x].rewrites \in Nat
          BY <1>2, <2>4, <5>1
        <5> QED
          BY <2>6, <5>2, <5>3
      <4> QED
        BY <2>4, <4>1, <4>2
    <3> QED
      BY <2>3, <2>4, <3>1
  <2>7. list[m].rewrites \in Nat /\ list[x].rewrites \in Nat
    BY <1>2, <2>4
  <2> QED
    BY <2>5, <2>6, <2>7
<1>5. T = Nat
  BY <1>3, <1>4, Induction
<1>6. PICK n \in Nat : n + 1 = Len(list)
  <2>1. Len(list) - 1 \in Nat /\ (Len(list) - 1) + 1 = Len(list)
    BY <1>1
  <2> QED
    BY <2>1
<1>7. n \in T /\ n < Len(list)
  <2> HIDE DEF T
  <2> QED
    BY <1>5, <1>6
<1>8. \E m \in 1 .. Len(list) : \A i \in 1 .. n + 1 : list[i].rewrites <= list[m].rewrites
  BY <1>7
<1> QED
  BY <1>6, <1>8

(* Products.                                                               *)
LEMMA Multiples ==
  ASSUME NEW a \in Nat, NEW b \in Nat, NEW c \in Nat
  PROVE  /\ a * b \in Nat /\ (a + 1) * b = a * b + b /\ a * (b + c) = a * b + a * c
         /\ (a <= b => a * c <= b * c) /\ (c # 0 /\ c * a <= c * b => a <= b) /\ 0 * a = 0
         /\ a * b = b * a
  OBVIOUS

(* Segments of comparable sizes have together at least twice the rows of   *)
(* any one of them, if there are more than the ratio.                      *)
LEMMA TogetherTwice ==
  ASSUME NEW list, InARow(list), Comparable(list), Len(list) >= MinInputs,
         NEW m \in 1 .. Len(list)
  PROVE  2 * RowCount(list[m]) <= list[Len(list)].last - list[1].first + 1
<1>1. PICK R, C, n : R = RowCount(list[m]) /\ C = SizeRatio /\ n = Len(list)
  OBVIOUS
<1>2. /\ n \in Nat /\ C \in Nat \ {0} /\ R \in Nat /\ m \in 1 .. n /\ C + 1 <= n /\ 1 \in 1 .. n
      /\ C \in Nat
  <2>1. n \in Nat
    BY <1>1 DEF InARow
  <2>2. R \in Nat
    BY <1>1, SegmentTyped
  <2> QED
    BY <1>1, <2>1, <2>2, PolicyAssumption, TierAssumption
<1>3. PICK len \in [1 .. n -> Nat] :
        \A i \in 1 .. n : /\ len[i] = RowCount(list[i])
                          /\ len[i] = list[i].last - list[i].first + 1
  <2> DEFINE g == [i \in 1 .. n |-> RowCount(list[i])]
  <2>1. \A i \in 1 .. n : RowCount(list[i]) \in Nat
                          /\ RowCount(list[i]) = list[i].last - list[i].first + 1
    BY <1>1, SegmentTyped
  <2>2. g \in [1 .. n -> Nat] /\ \A i \in 1 .. n : g[i] = RowCount(list[i])
    BY <2>1
  <2> HIDE DEF g
  <2> QED
    BY <2>1, <2>2
<1>4. PICK sum \in [1 .. n -> Nat] :
        \A i \in 1 .. n : sum[i] = list[i].last - list[1].first + 1
  <2> DEFINE g == [i \in 1 .. n |-> list[i].last - list[1].first + 1]
  <2>1. ASSUME NEW i \in 1 .. n PROVE list[i].last - list[1].first + 1 \in Nat
    <3>1. /\ list[1].first \in Nat /\ list[i].first \in Nat /\ list[i].last \in Nat
          /\ list[i].first <= list[i].last
      BY <1>1, <1>2, SegmentTyped
    <3>2. list[1].first <= list[i].first
      <4>1. 1 <= i
        BY <1>2
      <4> QED
        BY <1>1, <1>2, <4>1, FirstTells
    <3> QED
      BY <3>1, <3>2
  <2>2. g \in [1 .. n -> Nat] /\ \A i \in 1 .. n : g[i] = list[i].last - list[1].first + 1
    BY <2>1
  <2> HIDE DEF g
  <2> QED
    BY <2>2
<1>5. sum[1] = len[1]
  <2>1. sum[1] = list[1].last - list[1].first + 1 /\ len[1] = list[1].last - list[1].first + 1
    <3>1. 1 \in 1 .. n
      BY <1>2
    <3> QED
      BY <1>3, <1>4, <3>1
  <2> QED
    BY <2>1
<1>6. ASSUME NEW i \in 1 .. n - 1 PROVE sum[i + 1] = sum[i] + len[i + 1]
  <2>1. i \in 1 .. n /\ i + 1 \in 1 .. n
    BY <1>2
  <2>2. list[i].last + 1 = list[i + 1].first
    BY <1>1 DEF InARow
  <2>3. PICK a, b, c, d : /\ a = list[1].first /\ b = list[i].last /\ c = list[i + 1].first
                          /\ d = list[i + 1].last
    OBVIOUS
  <2>4. a \in Nat /\ b \in Nat /\ c \in Nat /\ d \in Nat
    BY <1>1, <1>2, <2>1, <2>3, SegmentTyped
  <2>5. sum[i + 1] = d - a + 1 /\ sum[i] = b - a + 1 /\ len[i + 1] = d - c + 1 /\ b + 1 = c
    BY <1>3, <1>4, <2>1, <2>2, <2>3
  <2> QED
    BY <2>4, <2>5
<1>7. \A i \in 1 .. n : R <= C * len[i]
  BY <1>1, <1>2, <1>3 DEF Comparable
<1>8. len[m] = R
  BY <1>1, <1>2, <1>3
<1> DEFINE Others(i) == IF i < m THEN i ELSE i - 1
<1> DEFINE Its(i) == IF i < m THEN 0 ELSE C * R
<1> DEFINE T == {d \in Nat : d < n => Others(d + 1) * R + Its(d + 1) <= C * sum[d + 1]}
<1>9. 0 \in T
  <2>1. 0 + 1 = 1
    OBVIOUS
  <2>2. CASE m = 1
    <3>1. Others(1) = 0 /\ Its(1) = C * R /\ sum[1] = R /\ 0 * R = 0 /\ C * R \in Nat
      BY <1>2, <1>5, <1>8, <2>2, Multiples
    <3> QED
      BY <2>1, <3>1
  <2>3. CASE m # 1
    <3>1. 1 < m
      BY <1>2, <2>3
    <3>2. Others(1) = 1 /\ Its(1) = 0 /\ 1 * R = R /\ R <= C * sum[1]
      BY <1>2, <1>5, <1>7, <3>1
    <3>3. C * sum[1] \in Nat
      BY <1>2, Multiples
    <3> QED
      BY <1>2, <2>1, <3>2, <3>3
  <2> QED
    BY <2>2, <2>3
<1>10. ASSUME NEW d \in T PROVE d + 1 \in T
  <2> SUFFICES ASSUME d + 1 < n
      PROVE  Others((d + 1) + 1) * R + Its((d + 1) + 1) <= C * sum[(d + 1) + 1]
    OBVIOUS
  <2>1. PICK i : i = d + 1
    OBVIOUS
  <2>2. d \in Nat /\ i \in 1 .. n - 1 /\ i \in 1 .. n /\ i + 1 \in 1 .. n /\ i \in Nat /\ d < n
    BY <1>2, <2>1
  <2>3. Others(i) * R + Its(i) <= C * sum[i]
    BY <2>1, <2>2
  <2> HIDE DEF T
  <2>4. C * sum[i + 1] = C * sum[i] + C * len[i + 1]
    <3>1. sum[i + 1] = sum[i] + len[i + 1] /\ sum[i] \in Nat /\ len[i + 1] \in Nat
      BY <1>6, <2>2
    <3>2. PICK x, y, z : x = sum[i] /\ y = len[i + 1] /\ z = sum[i + 1]
      OBVIOUS
    <3>3. x \in Nat /\ y \in Nat /\ z = x + y /\ C \in Nat
      BY <1>2, <3>1, <3>2
    <3>4. C * (x + y) = C * x + C * y
      BY <3>3, Multiples
    <3> QED
      BY <3>2, <3>3, <3>4
  <2>5. C * sum[i] \in Nat /\ C * len[i + 1] \in Nat /\ C * R \in Nat
    <3>1. sum[i] \in Nat /\ len[i + 1] \in Nat /\ C \in Nat /\ R \in Nat
      BY <1>2, <2>2
    <3>2. PICK x, y : x = sum[i] /\ y = len[i + 1]
      OBVIOUS
    <3>3. C * x \in Nat /\ C * y \in Nat /\ C * R \in Nat
      BY <3>1, <3>2, Multiples
    <3> QED
      BY <3>2, <3>3
  <2>6. CASE i + 1 = m
    <3>1. Others(i + 1) = i /\ Others(i) = i /\ Its(i) = 0 /\ Its(i + 1) = C * R
          /\ len[i + 1] = R /\ i * R \in Nat
      BY <1>2, <1>8, <2>2, <2>6, Multiples
    <3> HIDE DEF Others, Its
    <3>2. Others(i + 1) * R + Its(i + 1) = Others(i) * R + Its(i) + C * len[i + 1]
      BY <2>5, <3>1
    <3>3. Others(i + 1) * R + Its(i + 1) <= C * sum[i + 1]
      <4>1. PICK a, b, c, e : /\ a = Others(i + 1) * R + Its(i + 1) /\ b = Others(i) * R + Its(i)
                              /\ c = C * sum[i] /\ e = C * len[i + 1]
        OBVIOUS
      <4>2. a = b + e /\ b <= c /\ b \in Nat /\ c \in Nat /\ e \in Nat
        BY <2>3, <2>5, <3>1, <3>2, <4>1
      <4> QED
        BY <2>4, <4>1, <4>2
    <3> QED
      BY <2>1, <3>3
  <2>7. CASE i + 1 # m
    <3>1. Others(i + 1) = Others(i) + 1 /\ Its(i) = Its(i + 1) /\ Its(i) \in Nat
          /\ Others(i) \in Nat
      <4>1. CASE i < m
        <5>1. i + 1 < m
          BY <1>2, <2>2, <2>7, <4>1
        <5> QED
          BY <2>2, <4>1, <5>1
      <4>2. CASE ~(i < m)
        <5>1. ~(i + 1 < m) /\ i - 1 \in Nat /\ (i + 1) - 1 = (i - 1) + 1
          BY <1>2, <2>2, <4>2
        <5> QED
          BY <2>5, <4>2, <5>1
      <4> QED
        BY <4>1, <4>2
    <3>2. (Others(i) + 1) * R = Others(i) * R + R /\ Others(i) * R \in Nat
      <4> HIDE DEF Others, Its
      <4> QED
        BY <1>2, <3>1, Multiples
    <3>3. R <= C * len[i + 1]
      BY <1>7, <2>2
    <3> HIDE DEF Others, Its
    <3>4. Others(i + 1) * R + Its(i + 1) <= C * sum[i + 1]
      <4>1. PICK a, b, c, e : /\ a = Others(i) * R /\ b = Its(i)
                              /\ c = C * sum[i] /\ e = C * len[i + 1]
        OBVIOUS
      <4>2. Others(i + 1) * R + Its(i + 1) = a + R + b
        BY <3>1, <3>2, <4>1
      <4>3. a + b <= c /\ a \in Nat /\ b \in Nat /\ c \in Nat /\ e \in Nat /\ R <= e
        BY <2>3, <2>5, <3>1, <3>2, <3>3, <4>1
      <4>4. a + R + b <= c + e
        BY <1>2, <4>3
      <4> QED
        BY <2>4, <4>1, <4>2, <4>4
    <3> QED
      BY <2>1, <3>4
  <2> QED
    BY <2>6, <2>7
<1> HIDE DEF T
<1>11. T = Nat
  <2>1. T \in SUBSET Nat
    BY DEF T
  <2> QED
    BY <1>9, <1>10, <2>1, Induction
<1>12. Others(n) * R + Its(n) <= C * sum[n]
  <2>1. n - 1 \in T /\ n - 1 < n /\ (n - 1) + 1 = n
    BY <1>2, <1>11
  <2> HIDE DEF Others, Its
  <2> QED
    BY <2>1 DEF T
<1>13. Others(n) = n - 1 /\ Its(n) = C * R
  BY <1>2
<1>14. C * R <= (n - 1) * R /\ C * R \in Nat /\ (n - 1) * R \in Nat /\ sum[n] \in Nat
  <2>1. C <= n - 1 /\ n - 1 \in Nat /\ n \in 1 .. n
    BY <1>2
  <2> QED
    BY <1>2, <2>1, Multiples
<1>15. C * (R + R) = C * R + C * R
  BY <1>2, Multiples
<1>16. C * (R + R) <= C * sum[n]
  <2> HIDE DEF Others, Its
  <2>1. PICK a, b, c : a = C * R /\ b = (n - 1) * R /\ c = C * sum[n]
    OBVIOUS
  <2>2. b + a <= c
    BY <1>12, <1>13, <2>1
  <2>3. c \in Nat
    BY <1>2, <1>14, <2>1, Multiples
  <2>4. a <= b /\ a \in Nat /\ b \in Nat
    BY <1>14, <2>1
  <2>5. a + a <= c
    BY <2>2, <2>3, <2>4
  <2> QED
    BY <1>15, <2>1, <2>5
<1>17. R + R <= sum[n]
  <2>1. R + R \in Nat
    BY <1>2
  <2> QED
    BY <1>2, <1>14, <1>16, <2>1, Multiples
<1>18. n \in 1 .. n /\ 2 * R = R + R
  BY <1>2
<1>19. sum[n] = list[n].last - list[1].first + 1
  BY <1>4, <1>18
<1> QED
  BY <1>1, <1>17, <1>18, <1>19

(* Of rows that have been rewritten n times there are at least 2^n.        *)
Bounded(list) == \A i \in 1 .. Len(list) : TwoToThe(list[i].rewrites) <= RowCount(list[i])

(* The segment that replaces those of a pass.                              *)
LEMMA MergedDoubles ==
  ASSUME NEW list, InARow(list), Comparable(list), Len(list) >= MinInputs, Bounded(list)
  PROVE  /\ Merged(list) \in StoredSegment /\ Merged(list).first <= Merged(list).last
         /\ Merged(list).first = list[1].first /\ Merged(list).last = list[Len(list)].last
         /\ TwoToThe(Merged(list).rewrites) <= RowCount(Merged(list))
<1>1. /\ list \in Seq(StoredSegment) /\ Len(list) \in Nat /\ list # <<>>
      /\ 1 \in 1 .. Len(list) /\ Len(list) \in 1 .. Len(list) /\ Head(list) = list[1]
      /\ Last(list) = list[Len(list)]
  <2>1. list \in Seq(StoredSegment)
    BY DEF InARow
  <2>2. Len(list) >= 2
    BY <2>1, PolicyAssumption
  <2> QED
    BY <2>1, <2>2 DEF Last
<1>2. PICK m \in 1 .. Len(list) : \A i \in 1 .. Len(list) : list[i].rewrites <= list[m].rewrites
  BY <1>1, MostRewritten
<1>3. PICK most : most = CHOOSE n \in {s.rewrites : s \in ToSet(list)} :
                           \A s \in ToSet(list) : s.rewrites <= n
  OBVIOUS
<1>4. most = list[m].rewrites
  <2>1. /\ list[m].rewrites \in {s.rewrites : s \in ToSet(list)}
        /\ \A s \in ToSet(list) : s.rewrites <= list[m].rewrites
    BY <1>1, <1>2 DEF ToSet
  <2>2. \E n \in {s.rewrites : s \in ToSet(list)} : \A s \in ToSet(list) : s.rewrites <= n
    BY <2>1
  <2>3. most \in {s.rewrites : s \in ToSet(list)} /\ \A s \in ToSet(list) : s.rewrites <= most
    BY <1>3, <2>2
  <2>4. PICK k \in 1 .. Len(list) : most = list[k].rewrites
    BY <1>1, <2>3 DEF ToSet
  <2>5. list[m] \in ToSet(list)
    BY <1>1 DEF ToSet
  <2>6. list[m].rewrites <= most /\ most <= list[m].rewrites
    BY <1>2, <2>3, <2>4, <2>5
  <2>7. most \in Nat /\ list[m].rewrites \in Nat
    BY <2>4, SegmentTyped
  <2> QED
    BY <2>6, <2>7
<1>5. PICK s : s = Merged(list)
  OBVIOUS
<1>6. s = [signature |-> list[1].signature, first |-> list[1].first,
           last |-> list[Len(list)].last, rewrites |-> 1 + most]
  BY <1>1, <1>3, <1>5 DEF Merged
<1>7. /\ list[1].signature \in Signatures /\ list[1].first \in Nat
      /\ list[Len(list)].last \in Nat /\ most \in Nat
  <2>1. list[1] \in StoredSegment
    BY <1>1, SegmentTyped
  <2> QED
    BY <1>1, <1>4, <2>1, SegmentTyped DEF StoredSegment
<1>8. s \in StoredSegment /\ s.first = list[1].first /\ s.last = list[Len(list)].last
      /\ s.rewrites = most + 1
  BY <1>6, <1>7 DEF StoredSegment
<1>9. s.first <= s.last
  <2>1. list[1].first <= list[Len(list)].first
    BY <1>1, FirstTells
  <2>2. list[Len(list)].first <= list[Len(list)].last /\ list[Len(list)].first \in Nat
    BY <1>1, SegmentTyped
  <2> QED
    BY <1>7, <1>8, <2>1, <2>2
<1>10. TwoToThe(s.rewrites) <= RowCount(s)
  <2>1. TwoToThe(most + 1) = 2 * TwoToThe(most) /\ TwoToThe(most) \in Nat
    BY <1>7, Powers
  <2>2. TwoToThe(most) <= RowCount(list[m])
    BY <1>4 DEF Bounded
  <2>3. 2 * RowCount(list[m]) <= list[Len(list)].last - list[1].first + 1
    BY TogetherTwice
  <2>4. RowCount(s) = list[Len(list)].last - list[1].first + 1
    BY <1>8 DEF RowCount
  <2>5. RowCount(list[m]) \in Nat
    BY SegmentTyped
  <2>6. PICK a, b, c, d : /\ a = TwoToThe(most) /\ b = RowCount(list[m]) /\ c = RowCount(s)
                          /\ d = TwoToThe(most + 1)
    OBVIOUS
  <2>7. d = 2 * a /\ a \in Nat /\ b \in Nat /\ a <= b /\ 2 * b <= c
    BY <2>1, <2>2, <2>3, <2>4, <2>5, <2>6
  <2>8. c \in Int
    BY <1>7, <2>4, <2>6
  <2>9. d <= c
    BY <2>7, <2>8
  <2> QED
    BY <1>8, <2>6, <2>9
<1> QED
  BY <1>5, <1>8, <1>9, <1>10

(* A part of a list in which all segments are bounded.                     *)
LEMMA SliceBounded ==
  ASSUME NEW list, InARow(list), Bounded(list),
         NEW m \in 1 .. Len(list) + 1, NEW n \in m - 1 .. Len(list)
  PROVE  Bounded(SubSeq(list, m, n))
<1>1. PICK s : s = SubSeq(list, m, n)
  OBVIOUS
<1>2. list \in Seq(StoredSegment) /\ Len(list) \in Nat
  BY DEF InARow
<1>3. Len(s) = n - m + 1 /\ \A k \in 1 .. n - m + 1 : s[k] = list[m + k - 1]
  BY <1>1, <1>2, Slice
<1>4. ASSUME NEW k \in 1 .. Len(s) PROVE TwoToThe(s[k].rewrites) <= RowCount(s[k])
  <2>1. k \in 1 .. n - m + 1 /\ m + k - 1 \in 1 .. Len(list)
    BY <1>2, <1>3
  <2>2. s[k] = list[m + k - 1]
    BY <1>3, <2>1
  <2> QED
    BY <2>1, <2>2 DEF Bounded
<1>5. Bounded(s)
  BY <1>4 DEF Bounded
<1> QED
  BY <1>1, <1>5

(* Two lists in a row, of which the second begins where the first ends.    *)
LEMMA ConcatInARow ==
  ASSUME NEW s, NEW t, InARow(s), InARow(t), Bounded(s), Bounded(t),
         s # <<>> /\ t # <<>> => s[Len(s)].last + 1 = t[1].first
  PROVE  InARow(s \o t) /\ Bounded(s \o t)
<1>1. PICK u : u = s \o t
  OBVIOUS
<1>2. s \in Seq(StoredSegment) /\ t \in Seq(StoredSegment) /\ Len(s) \in Nat /\ Len(t) \in Nat
  BY DEF InARow
<1>3. /\ u \in Seq(StoredSegment) /\ Len(u) = Len(s) + Len(t)
      /\ \A i \in 1 .. Len(s) : u[i] = s[i]
      /\ \A i \in 1 .. Len(t) : u[Len(s) + i] = t[i]
  BY <1>1, <1>2
<1>4. ASSUME NEW i \in 1 .. Len(u)
      PROVE  i \in 1 .. Len(s) \/ \E j \in 1 .. Len(t) : i = Len(s) + j
  <2>1. CASE i <= Len(s)
    BY <1>2, <1>3, <2>1
  <2>2. CASE ~(i <= Len(s))
    <3>1. i - Len(s) \in 1 .. Len(t) /\ i = Len(s) + (i - Len(s))
      BY <1>2, <1>3, <2>2
    <3> QED
      BY <3>1
  <2> QED
    BY <2>1, <2>2
<1>5. ASSUME NEW i \in 1 .. Len(u)
      PROVE  u[i].first <= u[i].last /\ TwoToThe(u[i].rewrites) <= RowCount(u[i])
  <2>1. CASE i \in 1 .. Len(s)
    BY <1>3, <2>1 DEF InARow, Bounded
  <2>2. ASSUME NEW j \in 1 .. Len(t), i = Len(s) + j
        PROVE  u[i].first <= u[i].last /\ TwoToThe(u[i].rewrites) <= RowCount(u[i])
    BY <1>3, <2>2 DEF InARow, Bounded
  <2> QED
    BY <1>4, <2>1, <2>2
<1>6. ASSUME NEW i \in 1 .. Len(u) - 1 PROVE u[i].last + 1 = u[i + 1].first
  <2>1. CASE i < Len(s)
    <3>1. i \in 1 .. Len(s) - 1 /\ i \in 1 .. Len(s) /\ i + 1 \in 1 .. Len(s)
      BY <1>2, <1>3, <2>1
    <3> QED
      BY <1>3, <3>1 DEF InARow
  <2>2. CASE i = Len(s)
    <3>1. i \in 1 .. Len(s) /\ 1 \in 1 .. Len(t) /\ s # <<>> /\ t # <<>>
      BY <1>2, <1>3, <2>2
    <3>2. u[i] = s[Len(s)] /\ u[i + 1] = t[1]
      BY <1>3, <2>2, <3>1
    <3> QED
      BY <3>1, <3>2
  <2>3. CASE i > Len(s)
    <3>1. PICK j : j = i - Len(s)
      OBVIOUS
    <3>2. j \in 1 .. Len(t) - 1 /\ j \in 1 .. Len(t) /\ j + 1 \in 1 .. Len(t)
          /\ i = Len(s) + j /\ i + 1 = Len(s) + (j + 1)
      BY <1>2, <1>3, <2>3, <3>1
    <3>3. u[i] = t[j] /\ u[i + 1] = t[j + 1]
      BY <1>3, <3>2
    <3> QED
      BY <3>2, <3>3 DEF InARow
  <2> QED
    BY <1>2, <1>3, <2>1, <2>2, <2>3
<1>7. InARow(u) /\ Bounded(u)
  BY <1>3, <1>5, <1>6 DEF InARow, Bounded
<1> QED
  BY <1>1, <1>7

(* One segment is in a row.                                                *)
LEMMA OneInARow ==
  ASSUME NEW x \in StoredSegment, x.first <= x.last, TwoToThe(x.rewrites) <= RowCount(x)
  PROVE  InARow(<<x>>) /\ Bounded(<<x>>)
<1>1. PICK s : s = <<x>>
  OBVIOUS
<1>2. s \in Seq(StoredSegment) /\ Len(s) = 1 /\ \A i \in 1 .. Len(s) : s[i] = x
  BY <1>1
<1>3. 1 .. Len(s) - 1 = {}
  BY <1>2
<1>4. InARow(s) /\ Bounded(s)
  BY <1>2, <1>3 DEF InARow, Bounded
<1> QED
  BY <1>1, <1>4

-----------------------------------------------------------------------------
(* A batch is registered behind all segments.                              *)
LEMMA RegisterKeeps ==
  ASSUME PolicyInv, Register PROVE PolicyInv'
<1>1. InARow(segments) /\ Bounded(segments) /\ segments \in Seq(StoredSegment)
      /\ Len(segments) \in Nat
  BY DEF PolicyInv, RewritesAreBounded, Bounded, InARow
<1>2. PICK n \in BatchSizes, signature \in Signatures :
        segments' = Append(segments, [signature |-> signature, first |-> NextRow,
                                      last |-> NextRow + n - 1, rewrites |-> 0])
  BY DEF Register
<1>3. PICK x, first : x = [signature |-> signature, first |-> first,
                           last |-> first + n - 1, rewrites |-> 0] /\ first = NextRow
  OBVIOUS
<1>4. n \in Nat \ {0}
  BY PolicyAssumption
<1>5. first \in Nat /\ (segments # <<>> => segments[Len(segments)].last + 1 = first)
  <2>1. CASE segments = <<>>
    BY <1>3, <2>1 DEF NextRow
  <2>2. CASE segments # <<>>
    <3>1. Len(segments) \in 1 .. Len(segments)
      BY <1>1, <2>2
    <3>2. segments[Len(segments)].last \in Nat
      BY <1>1, <3>1, SegmentTyped
    <3>3. first = segments[Len(segments)].last + 1
      BY <1>3, <2>2 DEF NextRow, Last
    <3> QED
      BY <3>2, <3>3
  <2> QED
    BY <2>1, <2>2
<1>6. InARow(<<x>>) /\ Bounded(<<x>>)
  <2>1. x \in StoredSegment /\ x.first <= x.last /\ RowCount(x) = n
    BY <1>3, <1>4, <1>5 DEF StoredSegment, RowCount
  <2>2. TwoToThe(x.rewrites) <= RowCount(x)
    <3>1. TwoToThe(0) = 1
      BY Powers
    <3>2. x.rewrites = 0
      BY <1>3
    <3> QED
      BY <1>4, <2>1, <3>1, <3>2
  <2> QED
    BY <2>1, <2>2, OneInARow
<1>7. segments' = segments \o <<x>>
  BY <1>1, <1>2, <1>3, AppendIsConcat
<1>8. PICK t : t = segments'
  OBVIOUS
<1>9. InARow(t) /\ Bounded(t)
  <2>1. segments # <<>> /\ <<x>> # <<>> => segments[Len(segments)].last + 1 = <<x>>[1].first
    <3>1. <<x>>[1] = x /\ x.first = first
      BY <1>3
    <3> QED
      BY <1>5, <3>1
  <2> QED
    BY <1>1, <1>6, <1>7, <1>8, <2>1, ConcatInARow
<1>10. Len(t) \in Nat /\ Len(segments) <= Len(t)
  BY <1>1, <1>7, <1>8, <1>6 DEF InARow
<1>11. CandidateIsSlice'
  <2> SUFFICES ASSUME candidate # <<>>
      PROVE  \E p \in 1 .. Len(t) : \E q \in p .. Len(t) :
               candidate = SubSeq(t, p, q) /\ MinInputs <= q - p + 1 /\ Fits(candidate)
    BY <1>8 DEF CandidateIsSlice, Register
  <2>1. PICK p \in 1 .. Len(segments) : \E q \in p .. Len(segments) :
          candidate = SubSeq(segments, p, q) /\ MinInputs <= q - p + 1 /\ Fits(candidate)
    BY DEF PolicyInv, CandidateIsSlice
  <2>2. PICK q \in p .. Len(segments) :
          candidate = SubSeq(segments, p, q) /\ MinInputs <= q - p + 1 /\ Fits(candidate)
    BY <2>1
  <2>3. p \in 1 .. Len(segments) + 1 /\ q \in p - 1 .. Len(segments)
        /\ p \in 1 .. Len(t) /\ q \in p .. Len(t)
    BY <1>1, <1>10
  <2>4. SubSeq(segments \o <<x>>, p, q) = SubSeq(segments, p, q)
    <3>1. <<x>> \in Seq(StoredSegment)
      BY <1>6 DEF InARow
    <3> QED
      BY <1>1, <2>3, <3>1, SliceOfConcat
  <2> QED
    BY <1>7, <1>8, <2>2, <2>3, <2>4
<1> QED
  BY <1>8, <1>9, <1>11 DEF PolicyInv, RewritesAreBounded, Bounded

(* A pass chooses.                                                         *)
LEMMA ChooseKeeps ==
  ASSUME PolicyInv, Choose PROVE PolicyInv'
<1>1. segments' = segments /\ InARow(segments) /\ RewritesAreBounded
  BY DEF Choose, PolicyInv
<1>2. candidate' = Extension /\ Seeds # {}
  BY DEF Choose, NextCandidate
<1>3. PICK p \in 1 .. Len(segments) : \E n \in MinInputs .. Len(segments) :
        /\ p + n - 1 <= Len(segments)
        /\ Extension = SubSeq(segments, p, p + n - 1) /\ Fits(Extension)
  BY <1>1, <1>2, ExtensionOfSeed
<1>4. PICK n \in MinInputs .. Len(segments) :
        /\ p + n - 1 <= Len(segments)
        /\ Extension = SubSeq(segments, p, p + n - 1) /\ Fits(Extension)
  BY <1>3
<1>5. PICK q : q = p + n - 1
  OBVIOUS
<1>6. q \in p .. Len(segments) /\ MinInputs <= q - p + 1
  <2>1. Len(segments) \in Nat /\ MinInputs \in Nat /\ MinInputs >= 2
    BY <1>1, PolicyAssumption DEF InARow
  <2> QED
    BY <1>4, <1>5, <2>1
<1>7. CandidateIsSlice'
  <2> SUFFICES \E r \in 1 .. Len(segments) : \E t \in r .. Len(segments) :
                 candidate' = SubSeq(segments, r, t) /\ MinInputs <= t - r + 1 /\ Fits(candidate')
    BY <1>1 DEF CandidateIsSlice
  <2> QED
    BY <1>2, <1>4, <1>5, <1>6
<1>8. InARow(segments)' /\ RewritesAreBounded'
  BY <1>1 DEF RewritesAreBounded
<1> QED
  BY <1>7, <1>8 DEF PolicyInv

(* The segments of a pass are replaced by one that fills their place.      *)
LEMMA ReplaceKeeps ==
  ASSUME PolicyInv, Replace PROVE PolicyInv'
<1>1. InARow(segments) /\ Bounded(segments) /\ segments \in Seq(StoredSegment)
      /\ Len(segments) \in Nat
  BY DEF PolicyInv, RewritesAreBounded, Bounded, InARow
<1>2. PICK p \in 1 .. Len(segments) : \E q \in p .. Len(segments) :
        candidate = SubSeq(segments, p, q) /\ MinInputs <= q - p + 1 /\ Fits(candidate)
  BY DEF PolicyInv, CandidateIsSlice, Replace
<1>3. PICK q \in p .. Len(segments) :
        candidate = SubSeq(segments, p, q) /\ MinInputs <= q - p + 1 /\ Fits(candidate)
  BY <1>2
<1>4. PICK c, m, e : c = candidate /\ m = Merged(candidate) /\ e = Len(segments)
  OBVIOUS
<1>5. /\ p \in Nat /\ q \in Nat /\ p >= 1 /\ p <= q /\ q <= e /\ e \in Nat
      /\ p \in 1 .. e + 1 /\ q \in p - 1 .. e /\ q \in 1 .. e /\ p \in 1 .. e
      /\ MinInputs \in Nat /\ MinInputs >= 2
  BY <1>1, <1>4, PolicyAssumption
<1>6. /\ InARow(c) /\ Bounded(c) /\ Len(c) = q - p + 1 /\ Len(c) >= MinInputs /\ Comparable(c)
      /\ c[1] = segments[p] /\ c[Len(c)] = segments[q]
  <2>1. InARow(c) /\ Bounded(c)
    BY <1>1, <1>3, <1>4, <1>5, SliceInARow, SliceBounded
  <2>2. Len(c) = q - p + 1 /\ \A k \in 1 .. q - p + 1 : c[k] = segments[p + k - 1]
    BY <1>1, <1>3, <1>4, <1>5, Slice
  <2>3. Comparable(c)
    BY <1>3, <1>4 DEF Fits
  <2>4. 1 \in 1 .. q - p + 1 /\ q - p + 1 \in 1 .. q - p + 1 /\ p + 1 - 1 = p
        /\ p + (q - p + 1) - 1 = q
    BY <1>5
  <2> QED
    BY <1>3, <1>5, <2>1, <2>2, <2>3, <2>4
<1>7. /\ m \in StoredSegment /\ m.first <= m.last
      /\ m.first = segments[p].first /\ m.last = segments[q].last
      /\ TwoToThe(m.rewrites) <= RowCount(m)
  BY <1>4, <1>6, MergedDoubles
<1>8. InARow(<<m>>) /\ Bounded(<<m>>)
  BY <1>7, OneInARow
<1>9. Head(candidate).first = segments[p].first /\ Last(candidate).last = segments[q].last
  <2>1. c # <<>> /\ c \in Seq(StoredSegment)
    BY <1>5, <1>6 DEF InARow
  <2>2. Head(c) = c[1]
    BY <2>1
  <2> QED
    BY <1>4, <1>6, <2>2 DEF Last
<1>10. Only(segments, {s \in ToSet(segments) : s.last < Head(candidate).first})
         = SubSeq(segments, 1, p - 1)
  <2> DEFINE chosen == {s \in ToSet(segments) : s.last < Head(candidate).first}
  <2>1. ASSUME NEW k \in 1 .. Len(segments)
        PROVE  segments[k] \in chosen <=> (1 <= k /\ k <= p - 1)
    <3>1. segments[k] \in ToSet(segments)
      BY <1>1 DEF ToSet
    <3>2. /\ segments[k].first \in Nat /\ segments[k].last \in Nat
          /\ segments[k].first <= segments[k].last
          /\ segments[p].first \in Nat
      BY <1>1, SegmentTyped
    <3>3. CASE k < p
      <4>1. segments[k].last < segments[p].first
        BY <1>1, <3>3, RowsAscend
      <4> QED
        BY <1>1, <1>5, <1>9, <3>1, <3>3, <4>1
    <3>4. CASE ~(k < p)
      <4>1. p <= k /\ ~(k <= p - 1)
        BY <1>1, <1>5, <3>4
      <4>2. segments[p].first <= segments[k].first
        BY <1>1, <4>1, FirstTells
      <4>3. ~(segments[k].last < segments[p].first)
        BY <3>2, <4>2
      <4> QED
        BY <1>9, <4>1, <4>3
    <3> QED
      BY <3>3, <3>4
  <2> HIDE DEF chosen
  <2>2. 1 \in 1 .. Len(segments) + 1 /\ p - 1 \in 1 - 1 .. Len(segments)
    BY <1>1, <1>5
  <2>3. Only(segments, chosen) = SubSeq(segments, 1, p - 1)
    BY <1>1, <2>1, <2>2, OnlySlice
  <2> QED
    BY <2>3 DEF chosen
<1>11. Only(segments, {s \in ToSet(segments) : s.first > Last(candidate).last})
         = SubSeq(segments, q + 1, e)
  <2> DEFINE chosen == {s \in ToSet(segments) : s.first > Last(candidate).last}
  <2>1. ASSUME NEW k \in 1 .. Len(segments)
        PROVE  segments[k] \in chosen <=> (q + 1 <= k /\ k <= e)
    <3>1. segments[k] \in ToSet(segments)
      BY <1>1 DEF ToSet
    <3>2. /\ segments[k].first \in Nat /\ segments[q].last \in Nat /\ segments[q].first \in Nat
          /\ segments[q].first <= segments[q].last /\ k <= e
      BY <1>1, <1>4, SegmentTyped
    <3>3. CASE q < k
      <4>1. segments[q].last < segments[k].first
        BY <1>1, <3>3, RowsAscend
      <4> QED
        BY <1>1, <1>5, <1>9, <3>1, <3>2, <3>3, <4>1
    <3>4. CASE ~(q < k)
      <4>1. k <= q /\ ~(q + 1 <= k)
        BY <1>1, <1>5, <3>4
      <4>2. segments[k].first <= segments[q].first
        BY <1>1, <4>1, FirstTells
      <4>3. ~(segments[k].first > segments[q].last)
        BY <3>2, <4>2
      <4> QED
        BY <1>9, <4>1, <4>3
    <3> QED
      BY <3>3, <3>4
  <2> HIDE DEF chosen
  <2>2. q + 1 \in 1 .. Len(segments) + 1 /\ e \in (q + 1) - 1 .. Len(segments)
    BY <1>1, <1>4, <1>5
  <2>3. Only(segments, chosen) = SubSeq(segments, q + 1, e)
    BY <1>1, <2>1, <2>2, OnlySlice
  <2> QED
    BY <2>3 DEF chosen
<1>12. PICK a, b, t : /\ a = SubSeq(segments, 1, p - 1) /\ b = SubSeq(segments, q + 1, e)
                      /\ t = segments'
  OBVIOUS
<1>13. t = a \o <<m>> \o b /\ candidate' = <<>>
  BY <1>4, <1>10, <1>11, <1>12 DEF Replace
<1>14. /\ InARow(a) /\ Bounded(a) /\ Len(a) = p - 1
       /\ p > 1 => a[p - 1] = segments[p - 1]
  <2>1. PICK r : r = p - 1
    OBVIOUS
  <2>2. 1 \in 1 .. Len(segments) + 1 /\ r \in 1 - 1 .. Len(segments) /\ r - 1 + 1 = r
    BY <1>1, <1>5, <2>1
  <2>3. InARow(a) /\ Bounded(a)
    BY <1>1, <1>12, <2>1, <2>2, SliceInARow, SliceBounded
  <2>4. Len(a) = r - 1 + 1 /\ \A k \in 1 .. r - 1 + 1 : a[k] = segments[1 + k - 1]
    BY <1>1, <1>12, <2>1, <2>2, Slice
  <2>5. r >= 1 => r \in 1 .. r - 1 + 1 /\ 1 + r - 1 = r
    BY <1>5, <2>1
  <2>6. r >= 1 => a[r] = segments[r]
    BY <2>4, <2>5
  <2> QED
    BY <1>5, <2>1, <2>2, <2>3, <2>4, <2>6
<1>15. /\ InARow(b) /\ Bounded(b) /\ Len(b) = e - q
       /\ q < e => b[1] = segments[q + 1]
  <2>1. q + 1 \in 1 .. Len(segments) + 1 /\ e \in (q + 1) - 1 .. Len(segments)
        /\ e - (q + 1) + 1 = e - q
    BY <1>1, <1>4, <1>5
  <2>2. InARow(b) /\ Bounded(b)
    BY <1>1, <1>12, <2>1, SliceInARow, SliceBounded
  <2>3. Len(b) = e - (q + 1) + 1 /\ \A k \in 1 .. e - (q + 1) + 1 : b[k] = segments[(q + 1) + k - 1]
    BY <1>1, <1>12, <2>1, Slice
  <2>4. q < e => 1 \in 1 .. e - (q + 1) + 1 /\ (q + 1) + 1 - 1 = q + 1
    BY <1>5
  <2>5. q < e => b[1] = segments[q + 1]
    BY <2>3, <2>4
  <2> QED
    BY <2>1, <2>2, <2>3, <2>5
<1>16. PICK d : d = a \o <<m>>
  OBVIOUS
<1>17. InARow(d) /\ Bounded(d) /\ d[Len(d)] = m
  <2>1. a # <<>> /\ <<m>> # <<>> => a[Len(a)].last + 1 = <<m>>[1].first
    <3> SUFFICES ASSUME a # <<>> PROVE a[Len(a)].last + 1 = m.first
      OBVIOUS
    <3>1. p > 1
      BY <1>5, <1>14 DEF InARow
    <3>2. PICK r : r = p - 1
      OBVIOUS
    <3>3. r \in 1 .. Len(segments) - 1 /\ r + 1 = p
      BY <1>1, <1>4, <1>5, <3>1, <3>2
    <3>4. segments[r].last + 1 = segments[r + 1].first
      BY <1>1, <3>3 DEF InARow
    <3> QED
      BY <1>7, <1>14, <3>1, <3>2, <3>3, <3>4
  <2>2. InARow(d) /\ Bounded(d)
    BY <1>8, <1>14, <1>16, <2>1, ConcatInARow
  <2>3. a \in Seq(StoredSegment)
    BY <1>14 DEF InARow
  <2>4. d[Len(d)] = m
    BY <1>7, <1>16, <2>3
  <2> QED
    BY <2>2, <2>4
<1>18. InARow(t) /\ Bounded(t)
  <2>1. d # <<>> /\ b # <<>> => d[Len(d)].last + 1 = b[1].first
    <3> SUFFICES ASSUME b # <<>> PROVE m.last + 1 = b[1].first
      BY <1>17
    <3>1. q < e
      BY <1>5, <1>15 DEF InARow
    <3>2. q \in 1 .. Len(segments) - 1
      BY <1>4, <1>5, <3>1
    <3>3. segments[q].last + 1 = segments[q + 1].first
      BY <1>1, <3>2 DEF InARow
    <3> QED
      BY <1>7, <1>15, <3>1, <3>3
  <2>2. t = d \o b
    BY <1>13, <1>16
  <2> QED
    BY <1>15, <1>17, <2>1, <2>2, ConcatInARow
<1> QED
  BY <1>12, <1>13, <1>18 DEF PolicyInv, RewritesAreBounded, Bounded, CandidateIsSlice

-----------------------------------------------------------------------------
(* The segments of a run lie in a row, what a pass has chosen is a stretch *)
(* of them that fits, and rewrites are bounded: an inductive invariant of  *)
(* registering, choosing and replacing.                                    *)
THEOREM PolicyInvariance == Spec => []PolicyInv
<1>1. Init => PolicyInv
  <2> SUFFICES ASSUME Init PROVE PolicyInv
    OBVIOUS
  <2>1. segments = <<>> /\ candidate = <<>> /\ Len(<<>>) = 0
    BY DEF Init
  <2>2. \A i \in 1 .. 0 : FALSE
    OBVIOUS
  <2>3. \A i \in 1 .. 0 - 1 : FALSE
    OBVIOUS
  <2> QED
    BY <2>1, <2>2, <2>3 DEF PolicyInv, InARow, CandidateIsSlice, RewritesAreBounded
<1>2. PolicyInv /\ [Next]_vars => PolicyInv'
  <2> SUFFICES ASSUME PolicyInv, [Next]_vars PROVE PolicyInv'
    OBVIOUS
  <2>1. CASE Register
    BY <2>1, RegisterKeeps
  <2>2. CASE Choose
    BY <2>2, ChooseKeeps
  <2>3. CASE Replace
    BY <2>3, ReplaceKeeps
  <2>4. CASE UNCHANGED vars
    BY <2>4 DEF vars, PolicyInv, CandidateIsSlice, RewritesAreBounded
  <2> QED
    BY <2>1, <2>2, <2>3, <2>4 DEF Next
<1> QED
  BY <1>1, <1>2, PTL DEF Spec

(* Whatever is registered and merged, a seed of the first query is good    *)
(* for a pass: the second query takes at least its window.                 *)
THEOREM SeedsSuffice == Spec => []SeedsAreCandidates
<1>1. PolicyInv => SeedsAreCandidates
  <2> SUFFICES ASSUME PolicyInv, Seeds # {} PROVE Len(Extension) >= MinInputs
    BY DEF SeedsAreCandidates
  <2>1. InARow(segments)
    BY DEF PolicyInv
  <2>2. PICK p \in 1 .. Len(segments) : \E n \in MinInputs .. Len(segments) : Len(Extension) = n
    BY <2>1, ExtensionOfSeed
  <2>3. MinInputs \in Nat /\ Len(segments) \in Nat
    BY <2>1, PolicyAssumption DEF InARow
  <2> QED
    BY <2>2, <2>3
<1> QED
  BY <1>1, PolicyInvariance, PTL

(* A row is rewritten at most logarithmically often: each pass it is in at *)
(* least doubles the segment it is in.                                     *)
THEOREM RewritesAreLogarithmic == Spec => []RewritesAreBounded
<1>1. PolicyInv => RewritesAreBounded
  BY DEF PolicyInv
<1> QED
  BY <1>1, PolicyInvariance, PTL
=============================================================================
