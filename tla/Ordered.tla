------------------------------ MODULE Ordered ------------------------------
(***************************************************************************)
(* The part of a sequence at some of its indexes, in order.  SelectSeq     *)
(* computes the same by recursion; this form says which element comes      *)
(* where, so that it can be reasoned about without induction.              *)
(***************************************************************************)
EXTENDS Naturals, Sequences, FiniteSets, FiniteSetTheorems, WellFoundedInduction, TLAPS

\* The n-th member of K, a finite set of numbers.
Nth(K, n) == CHOOSE i \in K : Cardinality({j \in K : j <= i}) = n

\* The elements of s at the indexes in K.
Selected(s, K) == [n \in 1..Cardinality(K) |-> s[Nth(K, n)]]

-----------------------------------------------------------------------------
\* A set of naturals that has a member has a least one.
LEMMA LeastMember ==
    ASSUME NEW T \in SUBSET Nat, T # {}
    PROVE  \E x \in T : \A y \in T : x <= y
<1>1. IsWellFoundedOn({ss \in Nat \X Nat : ss[1] < ss[2]}, Nat)
  BY NatLessThanWellFounded DEF OpToRel
<1>2. PICK R : R = {ss \in Nat \X Nat : ss[1] < ss[2]}
  OBVIOUS
<1>3. \E x \in T : \A y \in T : ~(<<y, x>> \in R)
  BY <1>1, <1>2, WFMin
<1>4. \A x, y \in Nat : ~(<<y, x>> \in R) => x <= y
  BY <1>2
<1> QED
  BY <1>3, <1>4

\* A finite set of numbers has an n-th member for every n up to its size: the least one is the first,
\* and the least one beyond the n-th is the next.
LEMMA NthExists ==
    ASSUME NEW K \in SUBSET Nat, IsFiniteSet(K), NEW n \in 1..Cardinality(K)
    PROVE  Nth(K, n) \in K /\ Cardinality({j \in K : j <= Nth(K, n)}) = n
<1> DEFINE R(i) == {j \in K : j <= i}
<1> DEFINE T == {m \in 1..Cardinality(K) : ~ \E i \in K : Cardinality(R(i)) = m}
<1>1. Cardinality(K) \in Nat
  BY FS_CardinalityType
<1>2. T = {}
  <2> SUFFICES ASSUME T # {} PROVE FALSE
    OBVIOUS
  <2>1. T \in SUBSET Nat
    BY <1>1
  <2>2. PICK m \in T : \A y \in T : m <= y
    <3> HIDE DEF T
    <3> QED
      BY <2>1, LeastMember
  <2>3. m \in 1..Cardinality(K) /\ \A i \in K : Cardinality(R(i)) # m
    OBVIOUS
  <2>4. \A i \in K : R(i) \in SUBSET K /\ IsFiniteSet(R(i)) /\ Cardinality(R(i)) \in Nat
    BY FS_Subset, FS_CardinalityType
  <2>5. CASE m = 1
    <3>1. K # {}
      BY <1>1, <2>3, FS_EmptySet
    <3>2. PICK i \in K : \A y \in K : i <= y
      BY <3>1, LeastMember
    <3>3. R(i) = {i}
      <4>1. i \in Nat /\ \A j \in K : j \in Nat /\ (j <= i => j = i)
        BY <3>2
      <4>a. \A j \in K : j <= i <=> j = i
        BY <4>1
      <4>2. \A j : j \in R(i) <=> j \in {i}
        BY <4>a
      <4> QED
        BY <4>2
    <3>4. Cardinality(R(i)) = 1
      BY <3>3, FS_Singleton
    <3> QED
      BY <2>3, <2>5, <3>4
  <2>6. CASE m # 1
    <3>1. m - 1 \in 1..Cardinality(K) /\ m - 1 < m /\ m - 1 \in Nat /\ m \in Nat
      BY <1>1, <2>3, <2>6
    <3>2. m - 1 \notin T
      BY <2>2, <3>1
    <3>3. PICK i \in K : Cardinality(R(i)) = m - 1
      BY <3>1, <3>2
    <3>4. PICK U \in SUBSET K : U = {j \in K : j > i}
      OBVIOUS
    <3>5. U # {}
      <4> SUFFICES ASSUME U = {} PROVE FALSE
        OBVIOUS
      <4>1. \A j \in K : j \in Nat /\ i \in Nat /\ ~(j > i)
        BY <3>4
      <4>2. R(i) = K
        <5>1. \A j \in K : j <= i
          BY <4>1
        <5> QED
          BY <5>1
      <4>3. Cardinality(K) = m - 1
        BY <3>3, <4>2
      <4> QED
        BY <1>1, <2>3, <4>3
    <3>6. PICK k \in U : \A y \in U : k <= y
      <4>1. U \in SUBSET Nat
        BY <3>4
      <4> QED
        BY <3>5, <4>1, LeastMember
    <3>7. R(k) = R(i) \union {k} /\ k \notin R(i) /\ k \in K
      <4>1. k \in K /\ k \in Nat /\ i \in Nat /\ k > i
        BY <3>4, <3>6
      <4>2. \A j \in K : j \in Nat /\ (j > i => k <= j)
        BY <3>4, <3>6
      <4>3. \A j \in K : j <= k <=> (j <= i \/ j = k)
        BY <4>1, <4>2
      <4>4. k \notin R(i)
        BY <4>1
      <4>5. \A j : j \in R(k) <=> j \in R(i) \union {k}
        BY <4>1, <4>3
      <4> HIDE DEF R
      <4> QED
        BY <4>1, <4>4, <4>5
    <3>8. Cardinality(R(i) \union {k}) = Cardinality(R(i)) + 1
      <4>1. IsFiniteSet(R(i)) /\ k \notin R(i)
        BY <2>4, <3>7
      <4> HIDE DEF R
      <4> QED
        BY <4>1, FS_AddElement
    <3>9. Cardinality(R(k)) = m
      <4> HIDE DEF R
      <4>1. Cardinality(R(k)) = (m - 1) + 1
        BY <3>3, <3>7, <3>8
      <4> QED
        BY <3>1, <4>1
    <3> QED
      BY <2>3, <3>7, <3>9
  <2> QED
    BY <2>5, <2>6
<1>3. \E i \in K : Cardinality({j \in K : j <= i}) = n
  BY <1>2
<1> QED
  BY <1>3 DEF Nth

\* What is selected is in the sequence, and no index is selected twice.
LEMMA SelectedFrom ==
    ASSUME NEW S, NEW s \in Seq(S), NEW K \in SUBSET DOMAIN s
    PROVE  /\ Selected(s, K) \in Seq(S)
           /\ DOMAIN Selected(s, K) = 1..Cardinality(K)
           /\ IsFiniteSet(K) /\ Cardinality(K) \in Nat
           /\ \A n \in 1..Cardinality(K) : Nth(K, n) \in K /\ Selected(s, K)[n] = s[Nth(K, n)]
           /\ \A n, m \in 1..Cardinality(K) : n # m => Nth(K, n) # Nth(K, m)
<1>1. DOMAIN s = 1..Len(s) /\ Len(s) \in Nat
  OBVIOUS
<1>2. K \in SUBSET Nat /\ IsFiniteSet(K) /\ Cardinality(K) \in Nat
  <2>1. IsFiniteSet(1..Len(s))
    BY <1>1, FS_Interval
  <2>2. K \in SUBSET Nat /\ K \in SUBSET (1..Len(s))
    BY <1>1
  <2> QED
    BY <2>1, <2>2, FS_Subset, FS_CardinalityType
<1>3. \A n \in 1..Cardinality(K) : Nth(K, n) \in K /\ Cardinality({j \in K : j <= Nth(K, n)}) = n
  BY <1>2, NthExists
<1>4. \A n \in 1..Cardinality(K) : Selected(s, K)[n] = s[Nth(K, n)] /\ s[Nth(K, n)] \in S
  <2>1. \A i \in DOMAIN s : s[i] \in S
    OBVIOUS
  <2> QED
    BY <1>3, <2>1 DEF Selected
<1>5. DOMAIN Selected(s, K) = 1..Cardinality(K) /\ Selected(s, K) \in [1..Cardinality(K) -> S]
  BY <1>3, <1>4 DEF Selected
<1>6. Selected(s, K) \in Seq(S)
  BY <1>2, <1>5
<1>7. \A n, m \in 1..Cardinality(K) : n # m => Nth(K, n) # Nth(K, m)
  BY <1>3
<1> QED
  BY <1>2, <1>3, <1>4, <1>5, <1>6, <1>7
=============================================================================
