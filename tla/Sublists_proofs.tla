--------------------------- MODULE Sublists_proofs ---------------------------
(* A sublist has exactly the selected elements, in their order.            *)
EXTENDS Sublists, SequencesExt, FiniteSetTheorems, FunctionTheorems,
        WellFoundedInduction, TLAPS

\* Nth counts through a set of indices: onto it, and upwards.
LEMMA NthCounts ==
    ASSUME NEW k \in Nat, NEW S \in SUBSET (1 .. k)
    PROVE  /\ Cardinality(S) \in Nat
           /\ \A n \in 1 .. Cardinality(S) : Nth(S, n) \in S
           /\ \A m, n \in 1 .. Cardinality(S) : m < n => Nth(S, m) < Nth(S, n)
           /\ \A i \in S : \E n \in 1 .. Cardinality(S) : Nth(S, n) = i
<1> DEFINE Upto(i) == {j \in S : j <= i}
           rank == [i \in S |-> Cardinality(Upto(i))]
           N == Cardinality(S)
<1>0. \A x \in S : x \in Int
  OBVIOUS
<1>1. IsFiniteSet(S)
  <2>1. IsFiniteSet(1 .. k)
    BY FS_Interval
  <2> QED BY <2>1, FS_Subset
<1>2. N \in Nat
  BY <1>1, FS_CardinalityType
<1>3. ASSUME NEW i \in S
      PROVE  IsFiniteSet(Upto(i)) /\ Cardinality(Upto(i)) \in 1 .. N
  <2>1. Upto(i) \in SUBSET S /\ i \in Upto(i)
    OBVIOUS
  <2>2. IsFiniteSet(Upto(i)) /\ Cardinality(Upto(i)) <= N
    BY <1>1, <2>1, FS_Subset
  <2>3. Cardinality(Upto(i)) \in Nat /\ Cardinality(Upto(i)) # 0
    BY <2>1, <2>2, FS_CardinalityType, FS_EmptySet
  <2> QED BY <1>2, <2>2, <2>3
<1>4. ASSUME NEW i \in S, NEW j \in S, i < j
      PROVE  Cardinality(Upto(i)) < Cardinality(Upto(j))
  <2>1. Upto(i) \in SUBSET Upto(j) /\ j \in Upto(j) /\ j \notin Upto(i)
    <3>1. i \in Int /\ j \in Int
      BY <1>0
    <3>2. \A x \in S : x <= i => x <= j
      BY <1>0, <1>4, <3>1
    <3>3. j <= j /\ ~ j <= i
      BY <1>4, <3>1
    <3> QED BY <3>2, <3>3
  <2>2. /\ IsFiniteSet(Upto(j))
        /\ Cardinality(Upto(i)) \in 1 .. N /\ Cardinality(Upto(j)) \in 1 .. N
    BY <1>3
  <2> HIDE DEF Upto
  <2>3. /\ Cardinality(Upto(i)) <= Cardinality(Upto(j))
        /\ Cardinality(Upto(j)) = Cardinality(Upto(i)) => Upto(j) = Upto(i)
    BY <2>1, <2>2, FS_Subset
  <2> QED BY <1>2, <2>1, <2>2, <2>3
<1>5. rank \in Injection(S, 1 .. N)
  <2>1. rank \in [S -> 1 .. N]
    BY <1>3
  <2>2. \A i, j \in S : i # j => rank[i] # rank[j]
    BY <1>3, <1>4
  <2> QED BY <2>1, <2>2, Fun_IsInj
<1>6. rank \in Surjection(S, 1 .. N)
  <2>1. IsFiniteSet(1 .. N) /\ Cardinality(1 .. N) = N
    BY <1>2, FS_Interval
  <2> HIDE DEF rank, N
  <2>2. Cardinality(S) = Cardinality(1 .. N)
    BY <2>1 DEF N
  <2> QED BY <1>5, <2>1, <2>2, FS_Injection
<1>7. ASSUME NEW n \in 1 .. N
      PROVE  Nth(S, n) \in S /\ Cardinality(Upto(Nth(S, n))) = n
  <2>1. \E i \in S : rank[i] = n
    BY <1>6, <1>7 DEF Surjection
  <2>2. \E i \in S : Cardinality({j \in S : j <= i}) = n
    BY <2>1
  <2> QED BY <2>2 DEF Nth
<1>8. ASSUME NEW m \in 1 .. N, NEW n \in 1 .. N, m < n
      PROVE  Nth(S, m) < Nth(S, n)
  <2>1. Nth(S, m) \in S /\ Nth(S, n) \in S
    BY <1>7
  <2>2. Cardinality(Upto(Nth(S, m))) = m /\ Cardinality(Upto(Nth(S, n))) = n
    BY <1>7
  <2>3. /\ m \in Int /\ n \in Int
        /\ Nth(S, m) \in Int /\ Nth(S, n) \in Int
    <3>1. m \in Int /\ n \in Int
      BY <1>2
    <3> QED BY <1>0, <2>1, <3>1
  <2> HIDE DEF Upto
  <2>4. ~ Nth(S, n) < Nth(S, m)
    <3>1. Nth(S, n) < Nth(S, m) =>
            Cardinality(Upto(Nth(S, n))) < Cardinality(Upto(Nth(S, m)))
      BY <1>4, <2>1
    <3> QED BY <1>8, <2>2, <2>3, <3>1
  <2>5. Nth(S, n) # Nth(S, m)
    BY <1>8, <2>2, <2>3
  <2> QED BY <2>3, <2>4, <2>5
<1>9. ASSUME NEW i \in S PROVE \E n \in 1 .. N : Nth(S, n) = i
  <2> DEFINE n == Cardinality(Upto(i))
  <2>1. n \in 1 .. N
    BY <1>3
  <2>2. Nth(S, n) \in S /\ Cardinality(Upto(Nth(S, n))) = n
    BY <1>7, <2>1
  <2>3. ~ Nth(S, n) < i /\ ~ i < Nth(S, n)
    <3>1. /\ Nth(S, n) < i => Cardinality(Upto(Nth(S, n))) < Cardinality(Upto(i))
          /\ i < Nth(S, n) => Cardinality(Upto(i)) < Cardinality(Upto(Nth(S, n)))
      BY <1>4, <2>2
    <3>2. n \in Int
      BY <1>2, <2>1
    <3> HIDE DEF Upto
    <3> QED BY <2>2, <3>1, <3>2
  <2>4. Nth(S, n) = i
    <3>1. i \in Int /\ Nth(S, n) \in Int
      BY <1>0, <2>2
    <3> HIDE DEF n
    <3> QED BY <2>3, <3>1
  <2> QED BY <2>1, <2>4
<1> QED BY <1>2, <1>7, <1>8, <1>9

\* A sublist holds the selected elements, in their order.
LEMMA SublistIs ==
    ASSUME NEW X, NEW fs \in Seq(X), NEW S \in SUBSET DOMAIN fs
    PROVE  /\ Sublist(fs, S) \in Seq(X)
           /\ Len(Sublist(fs, S)) = Cardinality(S) /\ Cardinality(S) \in Nat
           /\ \A n \in 1 .. Cardinality(S) :
                Nth(S, n) \in S /\ Sublist(fs, S)[n] = fs[Nth(S, n)]
           /\ \A m, n \in 1 .. Cardinality(S) : m < n => Nth(S, m) < Nth(S, n)
           /\ \A i \in S : \E n \in 1 .. Cardinality(S) : Nth(S, n) = i
<1>1. Len(fs) \in Nat /\ S \in SUBSET (1 .. Len(fs))
  OBVIOUS
<1>2. /\ Cardinality(S) \in Nat
      /\ \A n \in 1 .. Cardinality(S) : Nth(S, n) \in S
      /\ \A m, n \in 1 .. Cardinality(S) : m < n => Nth(S, m) < Nth(S, n)
      /\ \A i \in S : \E n \in 1 .. Cardinality(S) : Nth(S, n) = i
  BY <1>1, NthCounts
<1>3. \A n \in 1 .. Cardinality(S) : fs[Nth(S, n)] \in X
  BY <1>1, <1>2
<1>4. /\ Sublist(fs, S) \in Seq(X) /\ Len(Sublist(fs, S)) = Cardinality(S)
      /\ \A n \in 1 .. Cardinality(S) : Sublist(fs, S)[n] = fs[Nth(S, n)]
  BY <1>2, <1>3 DEF Sublist
<1> QED BY <1>2, <1>4

\* Its set of elements is theirs.
LEMMA SublistSet ==
    ASSUME NEW X, NEW fs \in Seq(X), NEW S \in SUBSET DOMAIN fs
    PROVE  ToSet(Sublist(fs, S)) = {fs[i] : i \in S}
<1> DEFINE sub == Sublist(fs, S)
<1>1. sub \in Seq(X) /\ Len(sub) = Cardinality(S) /\ Cardinality(S) \in Nat
  BY SublistIs
<1>2. \A n \in 1 .. Cardinality(S) : Nth(S, n) \in S /\ sub[n] = fs[Nth(S, n)]
  BY SublistIs
<1>3. \A i \in S : \E n \in 1 .. Cardinality(S) : Nth(S, n) = i
  BY SublistIs
<1> HIDE DEF sub
<1>4. DOMAIN sub = 1 .. Cardinality(S)
  BY <1>1
<1>5. ToSet(sub) = {fs[i] : i \in S}
  BY <1>2, <1>3, <1>4 DEF ToSet
<1> QED BY <1>5 DEF sub

\* A set of naturals that is not empty has a least element.
LEMMA Least ==
    ASSUME NEW S, S \subseteq Nat, S # {}
    PROVE  \E m \in S : \A k \in S : m <= k
<1>1. \E m \in S : \A k \in S : <<k, m>> \notin OpToRel(<, Nat)
  BY NatLessThanWellFounded, WFMin
<1>2. PICK m \in S : \A k \in S : <<k, m>> \notin OpToRel(<, Nat)
  BY <1>1
<1>3. ASSUME NEW k \in S PROVE m <= k
  <2>1. <<k, m>> \notin OpToRel(<, Nat)
    BY <1>2
  <2>2. k \in Nat /\ m \in Nat
    OBVIOUS
  <2>3. ~ (k < m)
    BY <2>1, <2>2 DEF OpToRel
  <2> QED BY <2>2, <2>3
<1> QED BY <1>2, <1>3
=============================================================================
