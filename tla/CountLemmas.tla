----------------------------- MODULE CountLemmas -----------------------------
(***************************************************************************)
(* Counting the elements of a queue that have some property: the property  *)
(* is given by the set I of their indices, and what becomes of that set    *)
(* when an element is appended or the head removed.                        *)
(***************************************************************************)
EXTENDS Naturals, Sequences, FiniteSets, FiniteSetTheorems, TLAPS

\* Indices of a sequence are a finite set, counted by a natural number.
LEMMA CountType ==
    ASSUME NEW T, NEW q \in Seq(T), NEW I \in SUBSET DOMAIN q
    PROVE  /\ IsFiniteSet(I) /\ Cardinality(I) \in Nat
           /\ Cardinality(I) = 0 <=> I = {}
<1>1. Len(q) \in Nat /\ DOMAIN q = 1 .. Len(q)
  OBVIOUS
<1>2. IsFiniteSet(1 .. Len(q))
  BY <1>1, FS_Interval
<1>3. IsFiniteSet(I)
  BY <1>1, <1>2, FS_Subset
<1> QED
  BY <1>3, FS_CardinalityType, FS_EmptySet

LEMMA CountAppend ==
    ASSUME NEW T, NEW q \in Seq(T), NEW m \in T, NEW I \in SUBSET DOMAIN q,
           NEW J \in SUBSET DOMAIN Append(q, m), \A i \in DOMAIN q : i \in J <=> i \in I
    PROVE  Cardinality(J) = Cardinality(I) + (IF Len(q) + 1 \in J THEN 1 ELSE 0)
<1>1. Len(q) \in Nat /\ DOMAIN q = 1 .. Len(q) /\ DOMAIN Append(q, m) = 1 .. Len(q) + 1
  OBVIOUS
<1>2. IsFiniteSet(I) /\ Cardinality(I) \in Nat
  BY CountType
<1>3. CASE Len(q) + 1 \in J
  <2>1. J = I \cup {Len(q) + 1} /\ Len(q) + 1 \notin I
    BY <1>1, <1>3
  <2> QED
    BY <1>2, <1>3, <2>1, FS_AddElement
<1>4. CASE Len(q) + 1 \notin J
  <2>1. \A i : i \in J <=> i \in I
    <3>1. ASSUME NEW i \in J
          PROVE  i \in DOMAIN q
      BY <1>1, <1>4
    <3> QED
      BY <3>1
  <2>2. J = I
    BY <2>1
  <2> QED
    BY <1>2, <1>4, <2>2
<1> QED
  BY <1>3, <1>4

LEMMA CountTail ==
    ASSUME NEW T, NEW q \in Seq(T), q # <<>>, NEW I \in SUBSET DOMAIN q,
           NEW J \in SUBSET DOMAIN Tail(q), \A i \in DOMAIN Tail(q) : i \in J <=> i + 1 \in I
    PROVE  Cardinality(I) = Cardinality(J) + (IF 1 \in I THEN 1 ELSE 0)
<1>1. /\ Len(q) \in Nat /\ Len(q) >= 1 /\ DOMAIN q = 1 .. Len(q)
      /\ Tail(q) \in Seq(T) /\ DOMAIN Tail(q) = 1 .. Len(q) - 1
  OBVIOUS
<1>2. IsFiniteSet(I) /\ IsFiniteSet(J) /\ Cardinality(J) \in Nat
  BY <1>1, CountType
<1> DEFINE K == I \ {1}
           f == [i \in J |-> i + 1]
<1>3. ExistsBijection(J, K)
  <2>1. f \in [J -> K]
    BY <1>1
  <2>2. \A i, j \in J : f[i] = f[j] => i = j
    BY <1>1
  <2>3. \A k \in K : \E i \in J : f[i] = k
    <3>1. ASSUME NEW k \in K
          PROVE  k - 1 \in J /\ f[k - 1] = k
      BY <1>1
    <3> QED
      BY <3>1
  <2> HIDE DEF f
  <2>4. f \in Injection(J, K)
    BY <2>1, <2>2 DEF Injection, IsInjective
  <2>5. f \in Surjection(J, K)
    BY <2>1, <2>3 DEF Surjection
  <2> QED
    BY <2>4, <2>5 DEF ExistsBijection, Bijection
<1>4. IsFiniteSet(K) /\ Cardinality(K) = Cardinality(J)
  BY <1>2, <1>3, FS_Bijection
<1>5. CASE 1 \in I
  <2>1. I = K \cup {1} /\ 1 \notin K
    BY <1>5
  <2> QED
    BY <1>2, <1>4, <1>5, <2>1, FS_AddElement
<1>6. CASE 1 \notin I
  <2>1. I = K
    BY <1>6
  <2>2. Cardinality(I) = Cardinality(J)
    BY <1>4, <2>1
  <2> QED
    BY <1>2, <1>6, <2>2
<1> QED
  BY <1>5, <1>6
=============================================================================
