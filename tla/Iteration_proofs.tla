-------------------------- MODULE Iteration_proofs --------------------------
(***************************************************************************)
(* What the proofs about the references use: induction over the natural    *)
(* numbers as a statement about sets of them, and what a function reaches  *)
(* that is applied again and again, as the recursions of the references    *)
(* apply their rules.                                                      *)
(***************************************************************************)
EXTENDS Integers, FiniteSetTheorems, WellFoundedInduction, TLAPS

\* A set of numbers that is not empty has a least one.
LEMMA LeastNumber ==
    ASSUME NEW S \in SUBSET Nat, S # {}
    PROVE  \E n \in S : \A m \in S : n <= m
<1> DEFINE R == {p \in Nat \X Nat : p[1] < p[2]}
<1>1. IsWellFoundedOn(R, Nat)
  BY NatLessThanWellFounded, Zenon DEF OpToRel
<1> HIDE DEF R
<1>2. PICK n \in S : \A m \in S : ~ (<<m, n>> \in R)
  BY <1>1, WFMin
<1>3. ASSUME NEW m \in S PROVE n <= m
  <2>1. <<m, n>> \in Nat \X Nat /\ ~ (<<m, n>> \in R)
    BY <1>2
  <2>2. ~ (m < n)
    BY <2>1 DEF R
  <2> QED
    BY <2>2
<1> QED
  BY <1>3

\* A set of numbers that holds 0 and with each number below B the next one
\* holds all of them.
LEMMA Induction ==
    ASSUME NEW B \in Nat, NEW S \in SUBSET (0 .. B), 0 \in S,
           \A n \in S : n < B => n + 1 \in S
    PROVE  S = 0 .. B
<1> SUFFICES ASSUME (0 .. B) \ S # {} PROVE FALSE
  OBVIOUS
<1>1. PICK n \in (0 .. B) \ S : \A m \in (0 .. B) \ S : n <= m
  <2> DEFINE T == (0 .. B) \ S
  <2>1. T \in SUBSET Nat /\ T # {}
    OBVIOUS
  <2> HIDE DEF T
  <2>2. \E n \in T : \A m \in T : n <= m
    BY <2>1, LeastNumber
  <2> QED
    BY <2>2 DEF T
<1>2. n - 1 \in 0 .. B /\ n - 1 < n
  BY <1>1
<1>3. n - 1 \in S
  BY <1>1, <1>2
<1> QED
  BY <1>1, <1>2, <1>3

\* r is what applying F to A again and again makes.
Iterates(r, A, F, B) == r[0] = A /\ \A i \in 1 .. B : r[i] = F[r[i - 1]]

LEMMA Iteration ==
    ASSUME NEW U, NEW A \in U, NEW F \in [U -> U], NEW B \in Nat
    PROVE  \E r \in [0 .. B -> U] : Iterates(r, A, F, B)
<1> DEFINE Upto(n, r) == r[0] = A /\ \A i \in 1 .. n : r[i] = F[r[i - 1]]
           S == {n \in 0 .. B : \E r \in [0 .. B -> U] : Upto(n, r)}
<1>1. 0 \in S
  <2>1. [i \in 0 .. B |-> A] \in [0 .. B -> U] /\ Upto(0, [i \in 0 .. B |-> A])
    OBVIOUS
  <2>2. 0 \in 0 .. B
    OBVIOUS
  <2> HIDE DEF Upto
  <2> QED
    BY <2>1, <2>2
<1>2. ASSUME NEW n \in S, n < B PROVE n + 1 \in S
  <2>1. PICK r \in [0 .. B -> U] : Upto(n, r)
    OBVIOUS
  <2> DEFINE q == [r EXCEPT ![n + 1] = F[r[n]]]
  <2>2. n \in 0 .. B /\ n + 1 \in 0 .. B /\ n + 1 # 0
    BY <1>2
  <2>3. q \in [0 .. B -> U] /\ q[n + 1] = F[r[n]] /\ \A i \in 0 .. n : q[i] = r[i]
    BY <2>2
  <2>4. Upto(n + 1, q)
    <3> HIDE DEF q
    <3>1. q[0] = A
      BY <2>1, <2>2, <2>3
    <3>2. ASSUME NEW i \in 1 .. n + 1 PROVE q[i] = F[q[i - 1]]
      <4>1. CASE i = n + 1
        <5>1. i - 1 = n /\ n \in 0 .. n
          BY <2>2, <4>1
        <5> QED
          BY <2>3, <4>1, <5>1
      <4>2. CASE i # n + 1
        <5>1. i \in 1 .. n /\ i \in 0 .. n /\ i - 1 \in 0 .. n
          BY <2>2, <4>2
        <5> QED
          BY <2>1, <2>3, <5>1
      <4> QED
        BY <4>1, <4>2
    <3> QED
      BY <3>1, <3>2
  <2> QED
    BY <2>2, <2>3, <2>4
<1>3. S \in SUBSET (0 .. B)
  OBVIOUS
<1> HIDE DEF S
<1>4. S = 0 .. B
  BY <1>1, <1>2, <1>3, Induction
<1>5. PICK r \in [0 .. B -> U] : Upto(B, r)
  BY <1>4 DEF S
<1> QED
  BY <1>5 DEF Iterates

\* Induction along a recursion.
LEMMA StaysIn ==
    ASSUME NEW B \in Nat, NEW r, NEW P, r[0] \in P,
           \A i \in 1 .. B : r[i - 1] \in P => r[i] \in P
    PROVE  \A i \in 0 .. B : r[i] \in P
<1> DEFINE S == {n \in 0 .. B : r[n] \in P}
<1>1. 0 \in S
  OBVIOUS
<1>2. ASSUME NEW n \in S, n < B PROVE n + 1 \in S
  <2>1. n + 1 \in 0 .. B /\ n + 1 \in 1 .. B /\ (n + 1) - 1 = n
    BY <1>2
  <2> QED
    BY <2>1
<1>3. S \in SUBSET (0 .. B)
  OBVIOUS
<1> HIDE DEF S
<1>4. S = 0 .. B
  BY <1>1, <1>2, <1>3, Induction
<1> QED
  BY <1>4 DEF S

\* Iteration of a function that only adds elements of U.
Climbs(r, A, F, B, U) ==
    /\ F \in [SUBSET U -> SUBSET U] /\ A \in SUBSET U
    /\ \A X \in SUBSET U : X \subseteq F[X]
    /\ Iterates(r, A, F, B)

\* As many steps as a set has elements are enough.
LEMMA Stable ==
    ASSUME NEW U, IsFiniteSet(U), NEW B \in Nat, Cardinality(U) <= B,
           NEW r, NEW A, NEW F, Climbs(r, A, F, B, U)
    PROVE  r[B] \in SUBSET U /\ F[r[B]] = r[B]
<1>0. r[0] \in SUBSET U /\ \A i \in 1 .. B : r[i] = F[r[i - 1]]
  BY DEF Climbs, Iterates
<1> USE DEF Climbs
<1>1. \A i \in 0 .. B : r[i] \in SUBSET U
  <2> DEFINE P == SUBSET U
  <2>1. \A i \in 1 .. B : r[i - 1] \in P => r[i] \in P
    BY <1>0
  <2>2. r[0] \in P
    BY <1>0
  <2> HIDE DEF P
  <2>3. \A i \in 0 .. B : r[i] \in P
    BY <2>1, <2>2, StaysIn
  <2> QED
    BY <2>3 DEF P
<1>2. CASE \E k \in 1 .. B : r[k] = r[k - 1]
  <2>1. PICK k \in 1 .. B : r[k] = r[k - 1]
    BY <1>2
  <2> DEFINE S == {i \in 0 .. B : i >= k => r[i] = r[k]}
  <2>2. 0 \in S
    OBVIOUS
  <2>3. ASSUME NEW n \in S, n < B PROVE n + 1 \in S
    <3>1. n + 1 \in 1 .. B /\ n + 1 \in 0 .. B /\ (n + 1) - 1 = n
      BY <2>3
    <3>2. CASE n >= k
      <4>1. r[n + 1] = F[r[n]] /\ r[n] = r[k - 1] /\ r[k] = F[r[k - 1]]
        BY <1>0, <2>1, <3>1, <3>2
      <4> QED
        BY <3>1, <4>1
    <3>3. CASE ~(n >= k)
      BY <3>1, <3>3
    <3> QED
      BY <3>2, <3>3
  <2>4. S \in SUBSET (0 .. B)
    OBVIOUS
  <2> HIDE DEF S
  <2>5. S = 0 .. B
    BY <2>2, <2>3, <2>4, Induction
  <2>6. r[B] = r[k]
    BY <2>5 DEF S
  <2> QED
    BY <1>0, <1>1, <2>1, <2>6
<1>3. CASE \A k \in 1 .. B : r[k] # r[k - 1]
  <2> DEFINE S == {i \in 0 .. B : Cardinality(r[i]) >= i}
  <2>1. \A i \in 0 .. B : IsFiniteSet(r[i]) /\ Cardinality(r[i]) \in Nat
    BY <1>1, FS_Subset, FS_CardinalityType
  <2>2. 0 \in S
    BY <2>1
  <2>3. ASSUME NEW n \in S, n < B PROVE n + 1 \in S
    <3>1. n + 1 \in 1 .. B /\ n + 1 \in 0 .. B /\ (n + 1) - 1 = n
      BY <2>3
    <3>2. r[n] \in SUBSET r[n + 1] /\ r[n] # r[n + 1]
      <4>1. r[n + 1] = F[r[n]] /\ r[n] \in SUBSET U
        BY <1>0, <1>1, <3>1
      <4> QED
        BY <1>3, <3>1, <4>1
    <3>3. /\ Cardinality(r[n]) <= Cardinality(r[n + 1])
          /\ Cardinality(r[n + 1]) # Cardinality(r[n])
      BY <2>1, <3>1, <3>2, FS_Subset
    <3>4. Cardinality(r[n + 1]) >= n + 1
      BY <2>1, <3>1, <3>3
    <3> QED
      BY <3>1, <3>4
  <2>4. S \in SUBSET (0 .. B)
    OBVIOUS
  <2> HIDE DEF S
  <2>5. S = 0 .. B
    BY <2>2, <2>3, <2>4, Induction
  <2>6. Cardinality(r[B]) >= B /\ r[B] \in SUBSET U
    BY <1>1, <2>5 DEF S
  <2>7. r[B] = U
    <3>1. Cardinality(r[B]) \in Nat /\ Cardinality(U) \in Nat
      BY <2>1, FS_CardinalityType
    <3>2. Cardinality(r[B]) <= Cardinality(U) /\ (Cardinality(U) = Cardinality(r[B]) => U = r[B])
      BY <2>6, FS_Subset
    <3> QED
      BY <2>6, <3>1, <3>2
  <2>8. U \in SUBSET U
    OBVIOUS
  <2>9. F[U] \in SUBSET U /\ U \subseteq F[U]
    BY <2>8
  <2> QED
    BY <2>7, <2>9
<1> QED
  BY <1>2, <1>3
=============================================================================
