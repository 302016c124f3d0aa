----------------------------- MODULE Lists_proofs -----------------------------
(****************************************************************************)
(* What a filter of a list returns.  An element's place among the selected  *)
(* ones is a rank; no induction is needed, as a minimum of a set of numbers *)
(* exists by the library's WFMin.                                           *)
(****************************************************************************)
EXTENDS Lists, SequencesExt, SequenceTheorems, FiniteSetTheorems, WellFoundedInduction, TLAPS

LEMMA Minimum ==
    ASSUME NEW S \in SUBSET Nat, S # {}
    PROVE  \E m \in S : \A k \in S : m <= k
<1>1. PICK m \in S : \A k \in S : <<k, m>> \notin OpToRel(<, Nat)
  BY WFMin, NatLessThanWellFounded, Zenon
<1>2. \A k \in S : ~(k < m)
  BY <1>1, Zenon DEF OpToRel
<1> QED
  BY <1>2

\* The last place of several.
LEMMA LastPlace ==
    ASSUME NEW n \in Nat, NEW I \in SUBSET (1..n), I # {}
    PROVE  (CHOOSE i \in I : \A j \in I : j <= i) \in I
<1> DEFINE Back == {k \in 0..n : n - k \in I}
<1>1. ASSUME NEW i \in I PROVE n - i \in Back
  <2>1. i \in 1..n
    OBVIOUS
  <2>2. n - i \in 0..n /\ n - (n - i) = i
    BY <2>1
  <2>3. n - (n - i) \in I
    BY <2>2
  <2> QED
    BY <2>2, <2>3
<1>2. Back \in SUBSET Nat /\ Back # {}
  <2>1. PICK i : i \in I
    OBVIOUS
  <2>2. n - i \in Back
    BY <1>1, <2>1
  <2>3. \A k \in Back : k \in Nat
    OBVIOUS
  <2> HIDE DEF Back
  <2> QED
    BY <2>2, <2>3
<1>3. PICK m \in Back : \A k \in Back : m <= k
  BY <1>2, Minimum
<1>4. ASSUME NEW j \in I PROVE j <= n - m
  <2>1. m <= n - j /\ m \in Nat /\ j \in 1..n
    BY <1>1, <1>2, <1>3
  <2> QED
    BY <2>1
<1>5. n - m \in I
  BY <1>3
<1> QED
  BY <1>4, <1>5

\* Every number up to the size of a set of places is the rank of one of them.
LEMMA Ranked ==
    ASSUME NEW I \in SUBSET Nat, IsFiniteSet(I), NEW n \in 1..Cardinality(I)
    PROVE  \E i \in I : Cardinality({j \in I : j <= i}) = n
<1> DEFINE Below(i) == {j \in I : j <= i}
           Missing == {k \in 1..Cardinality(I) : \A i \in I : Cardinality(Below(i)) # k}
<1>1. Cardinality(I) \in Nat
  BY FS_CardinalityType
<1> SUFFICES ASSUME Missing # {} PROVE FALSE
  OBVIOUS
<1>2. PICK k \in Missing : \A l \in Missing : k <= l
  <2>1. Missing \in SUBSET Nat
    BY <1>1
  <2> QED
    BY <2>1, Minimum
<1>3. \E above \in SUBSET I : /\ above # {}
                              /\ Cardinality(I \ above) = k - 1
                              /\ \A i \in I \ above, j \in above : i < j
  <2>1. CASE k = 1
    <3>1. I # {}
      BY <1>1, <1>2, FS_EmptySet
    <3>2. Cardinality(I \ I) = 0
      BY FS_EmptySet
    <3> QED
      BY <2>1, <3>1, <3>2
  <2>2. CASE k # 1
    <3>1. k - 1 \in 1..Cardinality(I) /\ k - 1 \notin Missing
      BY <1>1, <1>2, <2>2
    <3>2. PICK i \in I : Cardinality(Below(i)) = k - 1
      BY <3>1
    <3>3. I \ (I \ Below(i)) = Below(i)
      OBVIOUS
    <3>4. I \ Below(i) # {}
      <4>1. SUFFICES ASSUME Below(i) = I PROVE FALSE
        OBVIOUS
      <4> QED
        BY <1>1, <1>2, <3>2, <4>1
    <3>5. ASSUME NEW a \in I \ (I \ Below(i)), NEW b \in I \ Below(i) PROVE a < b
      <4>1. a \in Nat /\ b \in Nat /\ i \in Nat
        OBVIOUS
      <4>2. a <= i /\ ~(b <= i)
        OBVIOUS
      <4> QED
        BY <4>1, <4>2
    <3>6. WITNESS I \ Below(i) \in SUBSET I
    <3> QED
      BY <3>2, <3>3, <3>4, <3>5
  <2> QED
    BY <2>1, <2>2
<1>4. PICK above \in SUBSET I : /\ above # {}
                                /\ Cardinality(I \ above) = k - 1
                                /\ \A i \in I \ above, j \in above : i < j
  BY <1>3
<1>5. PICK m \in above : \A j \in above : m <= j
  BY <1>4, Minimum
<1>6. Below(m) = (I \ above) \cup {m}
  <2>1. ASSUME NEW j \in I \ above PROVE j <= m
    <3>1. j < m /\ j \in Nat /\ m \in Nat
      BY <1>4
    <3> QED
      BY <3>1
  <2>2. ASSUME NEW j \in above, j <= m PROVE j = m
    <3>1. m <= j /\ j \in Nat /\ m \in Nat
      BY <1>5
    <3> QED
      BY <2>2, <3>1
  <2>3. m \in I /\ m <= m
    BY <1>5
  <2> QED
    BY <2>1, <2>2, <2>3
<1>7. Cardinality((I \ above) \cup {m}) = k
  <2>1. IsFiniteSet(I \ above)
    BY FS_Subset
  <2>2. m \notin I \ above /\ k \in Nat
    BY <1>1, <1>2, <1>5
  <2>3. Cardinality((I \ above) \cup {m}) = Cardinality(I \ above) + 1
    BY <2>1, <2>2, FS_AddElement
  <2> QED
    BY <1>4, <2>2, <2>3
<1> QED
  BY <1>2, <1>6, <1>7

\* A selection has only elements that stand at a selected place.
LEMMA SelectionElements ==
    ASSUME NEW s, NEW I \in SUBSET Nat, IsFiniteSet(I)
    PROVE  /\ Cardinality(I) \in Nat
           /\ DOMAIN Selection(s, I) = 1..Cardinality(I)
           /\ \A n \in 1..Cardinality(I) : \E i \in I : Selection(s, I)[n] = s[i]
           /\ I # {} => 1 \in 1..Cardinality(I)
<1>1. Cardinality(I) \in Nat
  BY FS_CardinalityType
<1>2. ASSUME NEW n \in 1..Cardinality(I) PROVE \E i \in I : Selection(s, I)[n] = s[i]
  <2>1. \E i \in I : Cardinality({j \in I : j <= i}) = n
    BY Ranked
  <2> QED
    BY <2>1 DEF Selection
<1>3. I # {} => Cardinality(I) # 0
  BY FS_EmptySet
<1>4. I # {} => 1 \in 1..Cardinality(I)
  BY <1>1, <1>3
<1>5. DOMAIN Selection(s, I) = 1..Cardinality(I)
  BY DEF Selection
<1> QED
  BY <1>1, <1>2, <1>4, <1>5

\* The places of a list are a finite set of numbers.
LEMMA PlacesAreFinite ==
    ASSUME NEW S, NEW s \in Seq(S), NEW I \in SUBSET DOMAIN s
    PROVE  I \in SUBSET Nat /\ IsFiniteSet(I)
<1>1. DOMAIN s = 1..Len(s) /\ Len(s) \in Nat
  BY LenProperties
<1>2. IsFiniteSet(1..Len(s))
  BY <1>1, FS_Interval
<1> QED
  BY <1>1, <1>2, FS_Subset

LEMMA SelectionIsSeq ==
    ASSUME NEW S, NEW s \in Seq(S), NEW I \in SUBSET DOMAIN s
    PROVE  /\ Selection(s, I) \in Seq(S)
           /\ \A x \in ToSet(Selection(s, I)) : \E i \in I : x = s[i]
           /\ I # {} => Selection(s, I)[1] \in S /\ \E i \in I : Selection(s, I)[1] = s[i]
<1>1. I \in SUBSET Nat /\ IsFiniteSet(I)
  BY PlacesAreFinite
<1>2. /\ Cardinality(I) \in Nat
      /\ DOMAIN Selection(s, I) = 1..Cardinality(I)
      /\ \A n \in 1..Cardinality(I) : \E i \in I : Selection(s, I)[n] = s[i]
      /\ I # {} => 1 \in 1..Cardinality(I)
  BY <1>1, SelectionElements
<1>3. \A i \in I : s[i] \in S
  BY ElementOfSeq, LenProperties
<1>4. Selection(s, I) = [n \in 1..Cardinality(I) |-> Selection(s, I)[n]]
  BY DEF Selection
<1>5. Selection(s, I) \in Seq(S)
  <2>1. \A n \in 1..Cardinality(I) : Selection(s, I)[n] \in S
    BY <1>2, <1>3
  <2> DEFINE f == Selection(s, I)
             n == Cardinality(I)
  <2>2. f \in [1..n -> S]
    BY <1>4, <2>1
  <2>3. n \in Nat
    BY <1>2
  <2> HIDE DEF f, n
  <2>4. f \in Seq(S)
    BY <2>2, <2>3, SeqDef
  <2> QED
    BY <2>4 DEF f
<1> QED
  BY <1>2, <1>3, <1>5 DEF ToSet

\* A selection leaves no selected place out.
LEMMA SelectionKeeps ==
    ASSUME NEW S, NEW s \in Seq(S), NEW I \in SUBSET DOMAIN s
    PROVE  \A i \in I : s[i] \in ToSet(Selection(s, I))
<1> DEFINE Below(i) == {j \in I : j <= i}
<1>1. /\ I \in SUBSET Nat /\ IsFiniteSet(I) /\ Cardinality(I) \in Nat
      /\ DOMAIN Selection(s, I) = 1..Cardinality(I)
  BY PlacesAreFinite, SelectionElements
<1>2. ASSUME NEW i \in I, NEW k \in I, i < k PROVE Cardinality(Below(i)) < Cardinality(Below(k))
  <2>1. i \in Nat /\ k \in Nat
    BY <1>1
  <2>2. Below(i) \subseteq Below(k) /\ k \in Below(k) /\ k \notin Below(i)
    <3>1. \A j \in I : j \in Nat
      BY <1>1
    <3> QED
      BY <1>2, <2>1, <3>1
  <2>3. IsFiniteSet(Below(k)) /\ Below(i) # Below(k)
    BY <1>1, <2>2, FS_Subset
  <2> HIDE DEF Below
  <2>4. /\ Cardinality(Below(i)) <= Cardinality(Below(k))
        /\ Cardinality(Below(i)) # Cardinality(Below(k))
    BY <2>2, <2>3, FS_Subset
  <2>5. Cardinality(Below(i)) \in Nat /\ Cardinality(Below(k)) \in Nat
    BY <2>2, <2>3, FS_Subset, FS_CardinalityType
  <2> QED
    BY <2>4, <2>5
<1>3. ASSUME NEW i \in I PROVE s[i] \in ToSet(Selection(s, I))
  <2> DEFINE n == Cardinality(Below(i))
             At(k) == Cardinality(Below(k)) = n
  <2>1. n \in 1..Cardinality(I)
    <3>1. Below(i) \in SUBSET I /\ i \in Below(i)
      BY <1>1
    <3>2. IsFiniteSet(Below(i))
      BY <1>1, <3>1, FS_Subset
    <3> HIDE DEF Below
    <3>3. n <= Cardinality(I) /\ n \in Nat
      BY <1>1, <3>1, FS_Subset, FS_CardinalityType
    <3>4. n # 0
      BY <3>1, <3>2, FS_EmptySet
    <3> QED
      BY <3>3, <3>4
  <2>2. ASSUME NEW k \in I, At(k) PROVE k = i
    <3>1. k \in Nat /\ i \in Nat /\ n \in Nat
      BY <1>1, <2>1
    <3>2. ~(k < i)
      <4>1. k < i => Cardinality(Below(k)) < n
        BY <1>2
      <4> QED
        BY <2>2, <3>1, <4>1
    <3>3. ~(i < k)
      <4>1. i < k => n < Cardinality(Below(k))
        BY <1>2
      <4> QED
        BY <2>2, <3>1, <4>1
    <3> QED
      BY <3>1, <3>2, <3>3
  <2>3. (CHOOSE k \in I : At(k)) = i
    BY <2>2
  <2>4. Selection(s, I)[n] = s[CHOOSE k \in I : At(k)]
    BY <2>1 DEF Selection
  <2>5. n \in DOMAIN Selection(s, I) /\ Selection(s, I)[n] = s[i]
    BY <1>1, <2>1, <2>3, <2>4
  <2> HIDE DEF n
  <2> QED
    BY <2>5 DEF ToSet
<1> QED
  BY <1>3

\* Every element of a selection has the rank of its place.
RankOf(I, i) == Cardinality({j \in I : j <= i})

LEMMA SelectionPlaces ==
    ASSUME NEW S, NEW s \in Seq(S), NEW I \in SUBSET DOMAIN s
    PROVE  \A n \in DOMAIN Selection(s, I) :
              \E i \in I : Selection(s, I)[n] = s[i] /\ RankOf(I, i) = n
<1>1. I \in SUBSET Nat /\ IsFiniteSet(I)
  BY PlacesAreFinite
<1> SUFFICES ASSUME NEW n \in DOMAIN Selection(s, I)
             PROVE  \E i \in I : Selection(s, I)[n] = s[i] /\ RankOf(I, i) = n
  OBVIOUS
<1>2. n \in 1..Cardinality(I)
  BY DEF Selection
<1>3. \E i \in I : RankOf(I, i) = n
  BY <1>1, <1>2, Ranked DEF RankOf
<1> QED
  BY <1>2, <1>3 DEF Selection, RankOf

\* What FlattenSeq is defined by exists, and its value starts with the first list.
LEMMA Flattened ==
    ASSUME NEW S, NEW seqs \in Seq(Seq(S)), seqs # <<>>
    PROVE  /\ FlattenSeq(seqs) \in Seq(S)
           /\ \A j \in DOMAIN seqs[1] : /\ j \in DOMAIN FlattenSeq(seqs)
                                        /\ FlattenSeq(seqs)[j] = seqs[1][j]
<1>1. PICK n \in Nat : n = Len(seqs)
  BY LenProperties
<1>2. n # 0 /\ \A i \in 1..n : seqs[i] \in Seq(S)
  BY <1>1, EmptySeq, ElementOfSeq
<1> DEFINE Value(g, i) == IF i = 1 THEN seqs[i] ELSE g[i - 1] \o seqs[i]
           Upto(k) == \E g \in [1..k -> Seq(S)] : \A i \in 1..k : g[i] = Value(g, i)
           Flat(g) == g = [i \in 1..n |-> Value(g, i)]
           f == CHOOSE g : Flat(g)
<1>3. \A k \in 1..n : Upto(k)
  <2> DEFINE Bad == {k \in 1..n : ~Upto(k)}
  <2> SUFFICES ASSUME Bad # {} PROVE FALSE
    OBVIOUS
  <2>1. Bad \in SUBSET Nat
    OBVIOUS
  <2>2. PICK m \in Bad : \A k \in Bad : m <= k
    BY <2>1, Minimum
  <2>3. m \in 1..n /\ ~Upto(m)
    BY <2>2
  <2>4. CASE m = 1
    <3> DEFINE g == [i \in 1..1 |-> seqs[1]]
    <3>1. g \in [1..1 -> Seq(S)]
      BY <1>2
    <3>2. \A i \in 1..1 : g[i] = Value(g, i)
      OBVIOUS
    <3>3. Upto(1)
      <4> HIDE DEF g
      <4> QED
        BY <3>1, <3>2
    <3> QED
      BY <2>3, <2>4, <3>3
  <2>5. CASE m # 1
    <3>1. m - 1 \in 1..n /\ m - 1 \notin Bad
      <4>1. m - 1 \in 1..n /\ m \in Nat /\ ~(m <= m - 1)
        BY <2>3, <2>5
      <4> HIDE DEF Bad
      <4> QED
        BY <2>2, <4>1
    <3>2. Upto(m - 1)
      BY <3>1
    <3>3. PICK g \in [1..(m - 1) -> Seq(S)] : \A i \in 1..(m - 1) : g[i] = Value(g, i)
      BY <3>2
    <3> DEFINE h == [i \in 1..m |-> IF i < m THEN g[i] ELSE g[m - 1] \o seqs[m]]
    <3>4. g[m - 1] \o seqs[m] \in Seq(S)
      <4>1. g[m - 1] \in Seq(S) /\ seqs[m] \in Seq(S)
        BY <1>2, <2>3, <2>5, <3>3
      <4> QED
        BY <4>1, ConcatProperties
    <3>5. h \in [1..m -> Seq(S)]
      <4>1. \A i \in 1..m : i < m => i \in 1..(m - 1)
        BY <2>3
      <4> QED
        BY <3>3, <3>4, <4>1
    <3>6. ASSUME NEW i \in 1..m PROVE h[i] = Value(h, i)
      <4>1. CASE i < m
        <5>1. i \in 1..(m - 1) /\ h[i] = g[i]
          BY <2>3, <4>1
        <5>2. i # 1 => i - 1 \in 1..m /\ i - 1 < m /\ h[i - 1] = g[i - 1]
          BY <2>3, <4>1
        <5> HIDE DEF h
        <5> QED
          BY <3>3, <5>1, <5>2
      <4>2. CASE i = m
        <5>1. h[i] = g[m - 1] \o seqs[m]
          <6>1. m \in 1..m /\ ~(m < m)
            BY <2>3
          <6>2. h[m] = g[m - 1] \o seqs[m]
            BY <6>1
          <6> HIDE DEF h
          <6> QED
            BY <4>2, <6>2
        <5>2. h[m - 1] = g[m - 1]
          BY <2>3, <2>5
        <5> HIDE DEF h
        <5> QED
          BY <2>5, <4>2, <5>1, <5>2
      <4>3. i < m \/ i = m
        BY <2>3
      <4> QED
        BY <4>1, <4>2, <4>3
    <3>7. Upto(m)
      <4> HIDE DEF h
      <4> QED
        BY <3>5, <3>6
    <3> QED
      BY <2>3, <3>7
  <2> QED
    BY <2>4, <2>5
<1>4. Flat(f)
  <2>1. n \in 1..n
    BY <1>2
  <2>2. Upto(n)
    <3> HIDE DEF Upto
    <3> QED
      BY <1>3, <2>1
  <2>3. PICK g \in [1..n -> Seq(S)] : \A i \in 1..n : g[i] = Value(g, i)
    BY <2>2
  <2>4. Flat(g)
    BY <2>3
  <2> HIDE DEF Flat
  <2> QED
    BY <2>4
<1>5. FlattenSeq(seqs) = f[n]
  BY <1>1, <1>2 DEF FlattenSeq
<1> DEFINE Good(k) == /\ f[k] \in Seq(S)
                      /\ \A j \in DOMAIN seqs[1] : j \in DOMAIN f[k] /\ f[k][j] = seqs[1][j]
<1> HIDE DEF f
<1>6. f[1] = seqs[1] /\ \A k \in 1..n : k # 1 => f[k] = f[k - 1] \o seqs[k]
  <2>1. f = [i \in 1..n |-> Value(f, i)]
    BY <1>4
  <2>2. \A k \in 1..n : f[k] = Value(f, k)
    <3> HIDE DEF Value
    <3>1. \A k \in 1..n : [i \in 1..n |-> Value(f, i)][k] = Value(f, k)
      OBVIOUS
    <3> QED
      BY <2>1, <3>1
  <2>3. 1 \in 1..n
    BY <1>2
  <2> QED
    BY <2>2, <2>3
<1>7. \A k \in 1..n : Good(k)
  <2> DEFINE Bad == {k \in 1..n : ~Good(k)}
  <2> SUFFICES ASSUME Bad # {} PROVE FALSE
    OBVIOUS
  <2>1. Bad \in SUBSET Nat
    OBVIOUS
  <2>2. PICK m \in Bad : \A k \in Bad : m <= k
    BY <2>1, Minimum
  <2>3. m \in 1..n /\ ~Good(m)
    BY <2>2
  <2>4. m # 1
    <3>1. Good(1)
      BY <1>2, <1>6
    <3> QED
      BY <2>3, <3>1
  <2>5. Good(m - 1)
    BY <2>2, <2>3, <2>4
  <2>6. f[m] = f[m - 1] \o seqs[m] /\ seqs[m] \in Seq(S) /\ f[m - 1] \in Seq(S)
    BY <1>2, <1>6, <2>3, <2>4, <2>5
  <2> DEFINE a == f[m - 1]
             b == seqs[m]
  <2>7. /\ a \o b \in Seq(S)
        /\ DOMAIN a = 1..Len(a) /\ Len(a) \in Nat /\ Len(b) \in Nat
        /\ DOMAIN (a \o b) = 1..Len(a \o b)
        /\ Len(a \o b) = Len(a) + Len(b)
        /\ \A i \in 1..(Len(a) + Len(b)) : (a \o b)[i] = IF i <= Len(a) THEN a[i]
                                                       ELSE b[i - Len(a)]
    <3>1. a \in Seq(S) /\ b \in Seq(S)
      BY <2>6
    <3> HIDE DEF a, b
    <3> QED
      BY <3>1, ConcatProperties, LenProperties
  <2>8. ASSUME NEW j \in DOMAIN seqs[1]
        PROVE  j \in DOMAIN f[m] /\ f[m][j] = seqs[1][j]
    <3>1. j \in DOMAIN a /\ a[j] = seqs[1][j]
      BY <2>5
    <3>2. f[m] = a \o b
      BY <2>6
    <3> HIDE DEF a, b
    <3>3. j \in 1..(Len(a) + Len(b)) /\ j <= Len(a)
      BY <2>7, <3>1
    <3> QED
      BY <2>7, <3>1, <3>2, <3>3
  <2>9. Good(m)
    BY <2>6, <2>7, <2>8
  <2> QED
    BY <2>3, <2>9
<1>8. n \in 1..n
  BY <1>2
<1> QED
  BY <1>5, <1>7, <1>8

LEMMA Removed ==
    ASSUME NEW S, NEW s \in Seq(S), NEW i \in 1..Len(s)
    PROVE  /\ RemoveAt(s, i) \in Seq(S)
           /\ DOMAIN RemoveAt(s, i) = 1..(Len(s) - 1)
           /\ \A j \in 1..(Len(s) - 1) : RemoveAt(s, i)[j] = IF j < i THEN s[j] ELSE s[j + 1]
<1>1. PICK n \in Nat : n = Len(s)
  BY LenProperties
<1>2. i \in 1..n /\ \A j \in 1..n : s[j] \in S
  BY <1>1, ElementOfSeq
<1> DEFINE a == SubSeq(s, 1, i - 1)
           b == SubSeq(s, i + 1, n)
<1>3. a \in Seq(S) /\ Len(a) = i - 1 /\ \A j \in 1..(i - 1) : a[j] = s[j]
  <2>1. \A j \in 1..(i - 1) : s[j] \in S
    BY <1>2
  <2>2. 1 \in Int /\ i - 1 \in Int
    BY <1>2
  <2>3. /\ a \in Seq(S) /\ Len(a) = IF 1 <= i - 1 THEN i - 1 - 1 + 1 ELSE 0
        /\ \A j \in 1..(i - 1 - 1 + 1) : a[j] = s[1 + j - 1]
    BY <2>1, <2>2, SubSeqProperties
  <2> HIDE DEF a
  <2> QED
    BY <1>2, <2>3
<1>4. b \in Seq(S) /\ Len(b) = n - i /\ \A j \in 1..(n - i) : b[j] = s[i + j]
  <2>1. \A j \in (i + 1)..n : s[j] \in S
    BY <1>2
  <2>2. i + 1 \in Int /\ n \in Int
    BY <1>2
  <2>3. /\ b \in Seq(S) /\ Len(b) = IF i + 1 <= n THEN n - (i + 1) + 1 ELSE 0
        /\ \A j \in 1..(n - (i + 1) + 1) : b[j] = s[(i + 1) + j - 1]
    BY <2>1, <2>2, SubSeqProperties
  <2> HIDE DEF b
  <2> QED
    BY <1>2, <2>3
<1>5. RemoveAt(s, i) = a \o b
  BY <1>1 DEF RemoveAt
<1> HIDE DEF a, b
<1>6. /\ a \o b \in Seq(S) /\ Len(a \o b) = Len(a) + Len(b)
      /\ \A j \in 1..(Len(a) + Len(b)) : (a \o b)[j] = IF j <= Len(a) THEN a[j]
                                                     ELSE b[j - Len(a)]
      /\ DOMAIN (a \o b) = 1..Len(a \o b)
  BY <1>3, <1>4, ConcatProperties, LenProperties
<1>7. Len(a) + Len(b) = n - 1
  BY <1>2, <1>3, <1>4
<1>8. ASSUME NEW j \in 1..(n - 1) PROVE (a \o b)[j] = IF j < i THEN s[j] ELSE s[j + 1]
  <2>1. CASE j < i
    <3>1. j \in 1..(i - 1) /\ j <= Len(a)
      BY <1>2, <1>3, <2>1
    <3> QED
      BY <1>3, <1>6, <1>7, <2>1, <3>1
  <2>2. CASE ~(j < i)
    <3>1. j - (i - 1) \in 1..(n - i) /\ ~(j <= i - 1) /\ i + (j - (i - 1)) = j + 1
      BY <1>2, <2>2
    <3>2. (a \o b)[j] = b[j - (i - 1)]
      BY <1>3, <1>6, <1>7, <3>1
    <3> QED
      BY <1>4, <2>2, <3>1, <3>2
  <2> QED
    BY <2>1, <2>2
<1> QED
  BY <1>1, <1>5, <1>6, <1>7, <1>8
===============================================================================
