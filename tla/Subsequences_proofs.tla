------------------------- MODULE Subsequences_proofs -------------------------
(* The facts about Rank, Nth and Pick that the proofs about filters rest on.  *)
EXTENDS Subsequences, FiniteSetTheorems, SequenceTheorems, TLAPS

LEMMA FinitePositions ==
  ASSUME NEW n \in Nat, NEW S \in SUBSET (1 .. n)
  PROVE  IsFiniteSet(S) /\ Cardinality(S) \in Nat
<1>1. IsFiniteSet(1 .. n)
  BY FS_Interval
<1>2. IsFiniteSet(S)
  BY <1>1, FS_Subset
<1> QED BY <1>2, FS_CardinalityType

\* A later position has a higher rank.
LEMMA RankGrows ==
  ASSUME NEW n \in Nat, NEW S \in SUBSET (1 .. n), NEW i \in S
  PROVE  /\ Rank(S, i) \in 1 .. Cardinality(S)
         /\ \A j \in S : i < j => Rank(S, i) < Rank(S, j)
<1> DEFINE upTo(j) == {h \in S : h <= j}
<1>1. IsFiniteSet(S) /\ Cardinality(S) \in Nat
  BY FinitePositions
<1>2. ASSUME NEW j \in S
      PROVE  /\ IsFiniteSet(upTo(j)) /\ Cardinality(upTo(j)) \in Nat
             /\ Cardinality(upTo(j)) <= Cardinality(S) /\ j \in upTo(j)
  <2>1. upTo(j) \in SUBSET S
    OBVIOUS
  <2> QED BY <1>1, <2>1, FS_Subset, FS_CardinalityType
<1>3. Cardinality(upTo(i)) # 0
  BY <1>2, FS_EmptySet
<1>4. ASSUME NEW j \in S, i < j
      PROVE  Cardinality(upTo(i)) < Cardinality(upTo(j))
  <2>1. upTo(i) \in SUBSET upTo(j) /\ j \in upTo(j) /\ j \notin upTo(i)
    <3>1. S \subseteq Int /\ i \in Int /\ j \in Int
      OBVIOUS
    <3>2. \A h \in S : h <= i => h <= j
      BY <1>4, <3>1
    <3>3. ~ (j <= i) /\ j <= j
      BY <1>4, <3>1
    <3> QED BY <3>2, <3>3
  <2>2. upTo(i) # upTo(j)
    BY <2>1
  <2>3. Cardinality(upTo(i)) <= Cardinality(upTo(j)) /\ Cardinality(upTo(i)) # Cardinality(upTo(j))
    BY <1>2, <2>1, <2>2, FS_Subset
  <2>4. Cardinality(upTo(i)) \in Nat /\ Cardinality(upTo(j)) \in Nat
    BY <1>2
  <2> QED BY <2>3, <2>4
<1> QED BY <1>1, <1>2, <1>3, <1>4 DEF Rank

\* Every rank has a position, and only one.
LEMMA NthRank ==
  ASSUME NEW n \in Nat, NEW S \in SUBSET (1 .. n)
  PROVE  /\ \A k \in 1 .. Cardinality(S) : Nth(S, k) \in S /\ Rank(S, Nth(S, k)) = k
         /\ \A k, l \in 1 .. Cardinality(S) : k < l => Nth(S, k) < Nth(S, l)
         /\ \A i \in S : Nth(S, Rank(S, i)) = i
<1> DEFINE f == [i \in S |-> Rank(S, i)]
           K == 1 .. Cardinality(S)
<1>1. IsFiniteSet(S) /\ Cardinality(S) \in Nat
  BY FinitePositions
<1>2. IsFiniteSet(K) /\ Cardinality(K) = Cardinality(S)
  BY <1>1, FS_Interval
<1>3. \A i \in S : Rank(S, i) \in K
  BY RankGrows
<1>4. \A i, j \in S : i # j => Rank(S, i) # Rank(S, j)
  <2>1. ASSUME NEW i \in S, NEW j \in S, i < j
        PROVE  Rank(S, i) # Rank(S, j)
    <3>1. Rank(S, i) < Rank(S, j)
      BY <2>1, RankGrows
    <3>2. Rank(S, i) \in Int /\ Rank(S, j) \in Int
      BY <1>1, <1>3
    <3> QED BY <3>1, <3>2
  <2>2. \A i, j \in S : i # j => i < j \/ j < i
    OBVIOUS
  <2> QED BY <2>1, <2>2
<1>5. f \in Injection(S, K)
  BY <1>3, <1>4 DEF Injection, IsInjective
<1>6. f \in Surjection(S, K)
  BY <1>1, <1>2, <1>5, FS_Injection
<1>7. ASSUME NEW k \in K
      PROVE  Nth(S, k) \in S /\ Rank(S, Nth(S, k)) = k
  <2>1. PICK i \in S : Rank(S, i) = k
    BY <1>6 DEF Surjection
  <2> QED BY <2>1 DEF Nth
<1>8. ASSUME NEW k \in K, NEW l \in K, k < l
      PROVE  Nth(S, k) < Nth(S, l)
  <2>1. Nth(S, k) \in S /\ Nth(S, l) \in S /\ Rank(S, Nth(S, k)) = k /\ Rank(S, Nth(S, l)) = l
    BY <1>7
  <2>2. Nth(S, l) < Nth(S, k) => l < k
    BY <2>1, RankGrows
  <2>3. Nth(S, k) # Nth(S, l)
    BY <1>8, <2>1
  <2>4. Nth(S, k) \in Int /\ Nth(S, l) \in Int
    <3>1. S \subseteq Int
      OBVIOUS
    <3> QED BY <2>1, <3>1
  <2>5. ~ (l < k)
    BY <1>1, <1>8
  <2> QED BY <2>5, <1>8, <2>2, <2>3, <2>4
<1>9. ASSUME NEW i \in S
      PROVE  Nth(S, Rank(S, i)) = i
  BY <1>3, <1>4, <1>7
<1> QED BY <1>7, <1>8, <1>9

LEMMA PickIsSeq ==
  ASSUME NEW R, NEW s \in Seq(R), NEW S \in SUBSET (1 .. Len(s))
  PROVE  /\ Pick(s, S) \in Seq(R) /\ Len(Pick(s, S)) = Cardinality(S)
         /\ \A k \in 1 .. Len(Pick(s, S)) : Nth(S, k) \in S /\ Pick(s, S)[k] = s[Nth(S, k)]
<1>1. Len(s) \in Nat /\ Cardinality(S) \in Nat
  BY FinitePositions, LenProperties
<1>2. \A k \in 1 .. Cardinality(S) : Nth(S, k) \in S /\ s[Nth(S, k)] \in R
  <2>1. \A k \in 1 .. Cardinality(S) : Nth(S, k) \in S
    BY <1>1, NthRank
  <2> QED BY <2>1, ElementOfSeq
<1>3. Pick(s, S) \in [1 .. Cardinality(S) -> R]
  BY <1>2 DEF Pick
<1>4. Pick(s, S) \in Seq(R) /\ Len(Pick(s, S)) = Cardinality(S)
  BY <1>1, <1>3
<1> QED BY <1>2, <1>4 DEF Pick

\* What is picked are the elements at the positions, and it has none twice if
\* the sequence has none.
LEMMA PickKeeps ==
  ASSUME NEW R, NEW s \in Seq(R), NEW S \in SUBSET (1 .. Len(s))
  PROVE  /\ \A k \in 1 .. Len(Pick(s, S)) : \E i \in S : Pick(s, S)[k] = s[i]
         /\ \A i \in S : \E k \in 1 .. Len(Pick(s, S)) : Pick(s, S)[k] = s[i]
         /\ (\A i, j \in 1 .. Len(s) : s[i] = s[j] => i = j)
              => \A k, l \in 1 .. Len(Pick(s, S)) : Pick(s, S)[k] = Pick(s, S)[l] => k = l
<1>1. /\ Len(Pick(s, S)) = Cardinality(S) /\ Len(s) \in Nat
      /\ \A k \in 1 .. Len(Pick(s, S)) : Nth(S, k) \in S /\ Pick(s, S)[k] = s[Nth(S, k)]
  BY PickIsSeq, LenProperties
<1>2. \A i \in S : Rank(S, i) \in 1 .. Cardinality(S) /\ Nth(S, Rank(S, i)) = i
  BY <1>1, RankGrows, NthRank
<1>3. \A k \in 1 .. Cardinality(S) : Rank(S, Nth(S, k)) = k
  BY <1>1, NthRank
<1>4. ASSUME \A i, j \in 1 .. Len(s) : s[i] = s[j] => i = j,
             NEW k \in 1 .. Len(Pick(s, S)), NEW l \in 1 .. Len(Pick(s, S)),
             Pick(s, S)[k] = Pick(s, S)[l]
      PROVE  k = l
  <2>1. Nth(S, k) = Nth(S, l)
    BY <1>1, <1>4
  <2> QED BY <1>1, <1>3, <2>1
<1> QED BY <1>1, <1>2, <1>4
=============================================================================
