---------------------------- MODULE ModuloLemmas ----------------------------
(***************************************************************************)
(* Arithmetic modulo a variable number, as packet numbers (modulo 2^16)    *)
(* and slots of the reorder buffer (modulo its length) need it.            *)
(***************************************************************************)
EXTENDS Integers, TLAPS

\* A division has a quotient and a remainder below the divisor.
LEMMA DivMod ==
    ASSUME NEW M \in Nat \ {0}, NEW a \in Nat
    PROVE  /\ a = M * (a \div M) + (a % M)
           /\ a % M \in 0 .. M - 1
           /\ a \div M \in Int
  BY SMT

\* A number below the divisor is its own remainder.
LEMMA ModSmall ==
    ASSUME NEW M \in Nat \ {0}, NEW a \in Nat, a < M
    PROVE  a % M = a
  BY SMT

\* Different numbers with the same remainder are at least the divisor apart.
LEMMA ModApart ==
    ASSUME NEW M \in Nat \ {0}, NEW a \in Nat, NEW b \in Nat,
           a % M = b % M, a < b
    PROVE  b - a >= M
  BY SMT

\* Numbers less than the divisor apart differ in their remainders.
LEMMA ModNear ==
    ASSUME NEW M \in Nat \ {0}, NEW a \in Nat, NEW b \in Nat,
           a % M = b % M, a - b < M, b - a < M
    PROVE  a = b
<1>1. a < b => b - a >= M
  BY ModApart
<1>2. b < a => a - b >= M
  BY ModApart
<1>3. ~(b - a >= M) /\ ~(a - b >= M)
  OBVIOUS
<1> QED
  BY <1>1, <1>2, <1>3

\* Multiples of M are M apart.
LEMMA MultiplesApart ==
    ASSUME NEW M \in Nat \ {0}, NEW x \in Int, NEW y \in Int, x < y
    PROVE  M * x + M <= M * y
<1>1. M * (y - x) >= M
  BY SMT
<1>2. M * (y - x) = M * y - M * x
  BY SMT
<1> QED
  BY <1>1, <1>2, SMT

\* The remainder of a division is unique.
LEMMA RemainderUnique ==
    ASSUME NEW M \in Nat \ {0}, NEW x \in Int, NEW y \in Int,
           NEW r \in 0 .. M - 1, NEW s \in 0 .. M - 1,
           M * x + r = M * y + s
    PROVE  r = s
<1>0. M * x \in Int /\ M * y \in Int
  BY SMT
<1>1. CASE x < y
  BY <1>0, <1>1, MultiplesApart, SMT
<1>2. CASE y < x
  BY <1>0, <1>2, MultiplesApart, SMT
<1>3. CASE x = y
  BY <1>0, <1>3, SMT
<1> QED
  BY <1>1, <1>2, <1>3, SMT

\* Adding one before or after taking the remainder is the same.
LEMMA ModSucc ==
    ASSUME NEW M \in Nat \ {0}, NEW a \in Nat
    PROVE  ((a % M) + 1) % M = (a + 1) % M
<1> DEFINE q == a \div M
           r == a % M
           q2 == (a + 1) \div M
           r2 == (a + 1) % M
<1>1. a = M * q + r /\ r \in 0 .. M - 1 /\ q \in Int
  BY DivMod
<1>2. a + 1 = M * q2 + r2 /\ r2 \in 0 .. M - 1 /\ q2 \in Int
  <2>1. a + 1 \in Nat
    OBVIOUS
  <2> QED
    BY <2>1, DivMod
<1>3. M * q \in Int /\ M * q2 \in Int
  BY <1>1, <1>2, SMT
<1>4. CASE r + 1 < M
  <2>1. M * q + (r + 1) = M * q2 + r2
    BY <1>1, <1>2, <1>3, SMT
  <2>2. r + 1 = r2
    <3>1. r + 1 \in 0 .. M - 1
      BY <1>1, <1>4, SMT
    <3> HIDE DEF q, r, q2, r2
    <3> QED
      BY <1>1, <1>2, <2>1, <3>1, RemainderUnique
  <2>3. (r + 1) % M = r + 1
    BY <1>1, <1>4, SMT
  <2> QED
    BY <2>2, <2>3
<1>5. CASE r + 1 = M
  <2>1. M * (q + 1) = M * q + M
    BY <1>1, SMT
  <2>2. M * (q + 1) + 0 = M * q2 + r2
    BY <1>1, <1>2, <1>3, <1>5, <2>1, SMT
  <2>3. 0 = r2
    <3>1. 0 \in 0 .. M - 1 /\ q + 1 \in Int
      BY <1>1, SMT
    <3> HIDE DEF q, r, q2, r2
    <3> QED
      BY <1>1, <1>2, <2>2, <3>1, RemainderUnique
  <2>4. M % M = 0
    BY SMT
  <2> QED
    BY <2>3, <2>4, <1>5
<1> QED
  BY <1>1, <1>4, <1>5, SMT
=============================================================================
