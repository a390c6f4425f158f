-------------------------- MODULE PathCond_proofs ---------------------------
(***************************************************************************)
(* What the guard of a value flow promises, for every control-flow graph,  *)
(* every way the branches test and every request: where no loop exit ends  *)
(* the computation early it holds on every run that comes from the         *)
(* definition to the use, and where it holds no run passes the use by.     *)
(* The first follows because a block that does not wait has handed its     *)
(* condition on; the second because a condition is only handed on to a     *)
(* block that the runs under it cannot avoid.                              *)
(***************************************************************************)
EXTENDS PathCondReference, Iteration_proofs, SequenceTheorems
-----------------------------------------------------------------------------
(* Reachability in a graph given by the successors of each block.          *)

\* Left by no step outside of avoid.
Kept(next, avoid, S) == \A d \in S : next[d] \ avoid \subseteq S

LEMMA OnwardIs ==
    ASSUME NEW next, NEW avoid, NEW N
    PROVE  Onward(next, avoid, N) = N \cup ((UNION {next[d] : d \in N}) \ avoid)
BY DEF Onward

\* Reached is the least set that holds b, if b may be entered, and is not
\* left.
LEMMA ReachedLeast ==
    ASSUME NEW next \in [BB -> SUBSET BB], NEW b \in BB, NEW avoid
    PROVE  /\ Reached(next, b, avoid) \in SUBSET BB
           /\ {b} \ avoid \subseteq Reached(next, b, avoid)
           /\ Kept(next, avoid, Reached(next, b, avoid))
           /\ \A S \in SUBSET BB : {b} \ avoid \subseteq S /\ Kept(next, avoid, S)
                                      => Reached(next, b, avoid) \subseteq S
<1> DEFINE U == SUBSET BB
           F == [X \in U |-> Onward(next, avoid, X)]
           A == {b} \ avoid
           N == Cardinality(BB)
           reached[i \in 0 .. N] == IF i = 0 THEN A ELSE Onward(next, avoid, reached[i - 1])
<1>0. Reached(next, b, avoid) = reached[N]
  BY DEF Reached
<1>1. F \in [U -> U]
  <2>1. ASSUME NEW X \in U PROVE Onward(next, avoid, X) \in U
    BY OnwardIs
  <2> QED
    BY <2>1
<1>2. A \in U
  OBVIOUS
<1>3. N \in Nat
  BY BBAssumption, FS_CardinalityType
<1>4. \A X \in U : F[X] = Onward(next, avoid, X)
  OBVIOUS
<1> HIDE DEF F, U, N
<1>5. PICK r \in [0 .. N -> U] : Iterates(r, A, F, N)
  BY <1>1, <1>2, <1>3, Iteration
<1>6. r = [i \in 0 .. N |-> IF i = 0 THEN A ELSE Onward(next, avoid, r[i - 1])]
  <2>1. ASSUME NEW i \in 0 .. N, i # 0 PROVE r[i] = Onward(next, avoid, r[i - 1])
    <3>1. i - 1 \in 0 .. N /\ i \in 1 .. N
      BY <1>3, <2>1
    <3> QED
      BY <1>4, <1>5, <3>1 DEF Iterates
  <2> QED
    BY <1>5, <2>1 DEF Iterates
<1>7. reached = [i \in 0 .. N |-> IF i = 0 THEN A ELSE Onward(next, avoid, reached[i - 1])]
  BY <1>6 DEF reached
<1> HIDE DEF reached
<1>8. reached[0] = A /\ \A i \in 1 .. N : reached[i] = Onward(next, avoid, reached[i - 1])
  <2>1. \A i \in 0 .. N : reached[i] = IF i = 0 THEN A ELSE Onward(next, avoid, reached[i - 1])
    BY <1>7
  <2> QED
    BY <1>3, <2>1
<1>9. ASSUME NEW T \in SUBSET BB, A \subseteq T, Kept(next, avoid, T)
      PROVE  \A i \in 0 .. N : A \subseteq reached[i] /\ reached[i] \subseteq T
  <2> DEFINE P == {X \in SUBSET BB : A \subseteq X /\ X \subseteq T}
  <2>1. reached[0] \in P
    BY <1>8, <1>9
  <2>2. ASSUME NEW i \in 1 .. N, reached[i - 1] \in P PROVE reached[i] \in P
    <3> DEFINE X == reached[i - 1]
    <3>1. X \in SUBSET BB /\ A \subseteq X /\ X \subseteq T
      BY <2>2
    <3>2. reached[i] = Onward(next, avoid, X)
      BY <1>8
    <3> HIDE DEF X
    <3>3. reached[i] = X \cup ((UNION {next[d] : d \in X}) \ avoid)
      BY <3>2, OnwardIs
    <3>4. (UNION {next[d] : d \in X}) \ avoid \subseteq T
      BY <1>9, <3>1 DEF Kept
    <3> QED
      BY <3>1, <3>3, <3>4
  <2> HIDE DEF P
  <2>3. \A i \in 0 .. N : reached[i] \in P
    BY <1>3, <2>1, <2>2, StaysIn
  <2> QED
    BY <2>3 DEF P
<1>10. Kept(next, avoid, BB)
  BY DEF Kept
<1>11. N \in 0 .. N
  BY <1>3
<1>12. \A i \in 0 .. N : reached[i] \in U
  BY <1>9, <1>10 DEF U
<1>13. F[reached[N]] = reached[N]
  <2>1. IsFiniteSet(BB) /\ Cardinality(BB) <= N
    BY <1>3, BBAssumption DEF N
  <2>2. F \in [SUBSET BB -> SUBSET BB] /\ \A X \in SUBSET BB : X \subseteq F[X]
    BY <1>1, <1>4, OnwardIs DEF U
  <2>3. A \in SUBSET BB
    OBVIOUS
  <2>4. ASSUME NEW i \in 1 .. N PROVE reached[i] = F[reached[i - 1]]
    <3>1. i - 1 \in 0 .. N
      BY <1>3
    <3> QED
      BY <1>4, <1>8, <1>12, <3>1
  <2> HIDE DEF A
  <2>5. Climbs(reached, A, F, N, BB)
    BY <1>8, <2>2, <2>3, <2>4 DEF Climbs, Iterates
  <2> QED
    BY <1>3, <2>1, <2>5, Stable
<1>14. Onward(next, avoid, Reached(next, b, avoid)) = Reached(next, b, avoid)
  BY <1>0, <1>4, <1>11, <1>12, <1>13
<1>15. Kept(next, avoid, Reached(next, b, avoid))
  <2> DEFINE X == Reached(next, b, avoid)
  <2> HIDE DEF X
  <2>1. X = X \cup ((UNION {next[d] : d \in X}) \ avoid)
    BY <1>14, OnwardIs DEF X
  <2>2. Kept(next, avoid, X)
    BY <2>1 DEF Kept
  <2> QED
    BY <2>2 DEF X
<1>16. \A S \in SUBSET BB : A \subseteq S /\ Kept(next, avoid, S) => Reached(next, b, avoid) \subseteq S
  BY <1>0, <1>9, <1>11
<1>17. A \subseteq Reached(next, b, avoid) /\ Reached(next, b, avoid) \subseteq BB
  BY <1>0, <1>9, <1>10, <1>11
<1> QED
  BY <1>15, <1>16, <1>17

\* What is to be avoided is not reached.
LEMMA ReachedAvoids ==
    ASSUME NEW next \in [BB -> SUBSET BB], NEW b \in BB, NEW avoid
    PROVE  Reached(next, b, avoid) \cap avoid = {}
<1> DEFINE R == Reached(next, b, avoid)
<1>1. R \in SUBSET BB /\ {b} \ avoid \subseteq R /\ Kept(next, avoid, R)
  BY ReachedLeast
<1>2. Kept(next, avoid, R \ avoid)
  BY <1>1 DEF Kept
<1>3. R \subseteq R \ avoid
  <2>1. R \ avoid \in SUBSET BB /\ {b} \ avoid \subseteq R \ avoid
    BY <1>1
  <2> QED
    BY <1>2, <2>1, ReachedLeast
<1> QED
  BY <1>3

\* More steps, and less to avoid, reach more.
LEMMA ReachedMonotone ==
    ASSUME NEW next \in [BB -> SUBSET BB], NEW more \in [BB -> SUBSET BB],
           \A d \in BB : next[d] \subseteq more[d],
           NEW b \in BB, NEW avoid, NEW less, less \subseteq avoid
    PROVE  Reached(next, b, avoid) \subseteq Reached(more, b, less)
<1> DEFINE R == Reached(more, b, less)
<1>1. R \in SUBSET BB /\ {b} \ less \subseteq R /\ Kept(more, less, R)
  BY ReachedLeast
<1>2. Kept(next, avoid, R) /\ {b} \ avoid \subseteq R
  BY <1>1 DEF Kept
<1> QED
  BY <1>1, <1>2, ReachedLeast

\* What is reached from a block that is reached.
LEMMA ReachedOn ==
    ASSUME NEW next \in [BB -> SUBSET BB], NEW b \in BB, NEW avoid, NEW x \in Reached(next, b, avoid)
    PROVE  x \in BB /\ Reached(next, x, avoid) \subseteq Reached(next, b, avoid)
<1> DEFINE R == Reached(next, b, avoid)
<1>1. R \in SUBSET BB /\ Kept(next, avoid, R)
  BY ReachedLeast
<1>2. x \in BB /\ {x} \ avoid \subseteq R
  BY <1>1
<1> QED
  BY <1>1, <1>2, ReachedLeast

\* What is reached, but not without b, is reached from b.
LEMMA Through ==
    ASSUME NEW next \in [BB -> SUBSET BB], NEW a \in BB, NEW b \in BB, NEW avoid,
           NEW e \in Reached(next, a, avoid), e \notin Reached(next, a, avoid \cup {b})
    PROVE  e \in Reached(next, b, avoid)
<1> DEFINE P == Reached(next, a, avoid \cup {b})
           Q == Reached(next, b, avoid)
<1>1. P \in SUBSET BB /\ {a} \ (avoid \cup {b}) \subseteq P /\ Kept(next, avoid \cup {b}, P)
  BY ReachedLeast
<1>2. Q \in SUBSET BB /\ {b} \ avoid \subseteq Q /\ Kept(next, avoid, Q)
  BY ReachedLeast
<1>3. (P \cup Q) \in SUBSET BB /\ {a} \ avoid \subseteq P \cup Q
  BY <1>1, <1>2
<1>4. Kept(next, avoid, P \cup Q)
  BY <1>1, <1>2 DEF Kept
<1> HIDE DEF P, Q
<1>5. Reached(next, a, avoid) \subseteq P \cup Q
  BY <1>3, <1>4, ReachedLeast
<1> QED
  BY <1>5 DEF P, Q

\* What is reached lies on, unless it is the first block.
LEMMA ReachedFirst ==
    ASSUME NEW next \in [BB -> SUBSET BB], NEW b \in BB, NEW avoid, NEW x \in Reached(next, b, avoid), x # b
    PROVE  next[b] # {}
<1> SUFFICES ASSUME next[b] = {} PROVE FALSE
  OBVIOUS
<1>1. {b} \in SUBSET BB /\ {b} \ avoid \subseteq {b} /\ Kept(next, avoid, {b})
  BY DEF Kept
<1>2. Reached(next, b, avoid) \subseteq {b}
  BY <1>1, ReachedLeast
<1> QED
  BY <1>2
-----------------------------------------------------------------------------
(* The bits of the successors' numbers.                                    *)

\* The recursion of Shifted.
LEMMA ShiftedIs ==
    ASSUME NEW i \in Nat, NEW j \in Nat
    PROVE  /\ Shifted(i, 0) = i
           /\ Shifted(i, j) \in Nat
           /\ Shifted(i, j + 1) = Shifted(i, j) \div 2
<1> DEFINE F == [x \in Nat |-> x \div 2]
           B == j + 1
<1>1. F \in [Nat -> Nat] /\ B \in Nat /\ i \in Nat
  OBVIOUS
<1>2. \A x \in Nat : F[x] = x \div 2
  OBVIOUS
<1> HIDE DEF F, B
<1>3. PICK r \in [0 .. B -> Nat] : Iterates(r, i, F, B)
  BY <1>1, Iteration
<1>4. ASSUME NEW n \in 0 .. B PROVE Shifted(i, n) = r[n]
  <2> DEFINE half[k \in 0 .. n] == IF k = 0 THEN i ELSE half[k - 1] \div 2
             q == [k \in 0 .. n |-> r[k]]
  <2>1. n \in Nat /\ n <= B
    BY <1>1
  <2>2. q = [k \in 0 .. n |-> IF k = 0 THEN i ELSE q[k - 1] \div 2]
    <3>1. ASSUME NEW k \in 0 .. n, k # 0 PROVE r[k] = r[k - 1] \div 2
      <4>1. k \in 1 .. B /\ k - 1 \in 0 .. B
        BY <1>1, <2>1, <3>1
      <4> QED
        BY <1>2, <1>3, <4>1 DEF Iterates
    <3>2. r[0] = i
      BY <1>3 DEF Iterates
    <3>3. \A k \in 0 .. n : k # 0 => k - 1 \in 0 .. n
      BY <2>1
    <3> QED
      BY <3>1, <3>2, <3>3
  <2> HIDE DEF q
  <2>3. half = [k \in 0 .. n |-> IF k = 0 THEN i ELSE half[k - 1] \div 2]
    BY <2>2 DEF half
  <2> HIDE DEF half
  <2>4. half[0] = i /\ \A k \in 1 .. n : half[k] = half[k - 1] \div 2
    <3>1. \A k \in 0 .. n : half[k] = IF k = 0 THEN i ELSE half[k - 1] \div 2
      BY <2>3
    <3> QED
      BY <2>1, <3>1
  <2> DEFINE S == {k \in 0 .. n : half[k] = r[k]}
  <2>5. 0 \in S
    BY <1>3, <2>1, <2>4 DEF Iterates
  <2>6. ASSUME NEW k \in S, k < n PROVE k + 1 \in S
    <3>1. k + 1 \in 1 .. n /\ k + 1 \in 1 .. B /\ (k + 1) - 1 = k /\ k \in 0 .. B
      BY <1>1, <2>1, <2>6
    <3>2. r[k + 1] = r[k] \div 2
      BY <1>2, <1>3, <3>1 DEF Iterates
    <3> QED
      BY <2>4, <3>1, <3>2
  <2>7. S \in SUBSET (0 .. n)
    OBVIOUS
  <2> HIDE DEF S
  <2>8. S = 0 .. n
    BY <2>1, <2>5, <2>6, <2>7, Induction
  <2>9. half[n] = r[n]
    BY <2>1, <2>8 DEF S
  <2> QED
    BY <2>9 DEF Shifted, half
<1>5. 0 \in 0 .. B /\ j \in 0 .. B /\ j + 1 \in 1 .. B /\ (j + 1) - 1 = j /\ j + 1 \in 0 .. B
  BY DEF B
<1>6. r[0] = i /\ r[j + 1] = r[j] \div 2
  BY <1>2, <1>3, <1>5 DEF Iterates
<1> QED
  BY <1>3, <1>4, <1>5, <1>6

\* Shifting goes down to zero, and keeps the order of numbers.
LEMMA ShiftedBelow ==
    ASSUME NEW m \in Nat, NEW i \in 0 .. m, NEW B \in Nat
    PROVE  \A j \in 0 .. B : Shifted(i, j) <= Shifted(m, j) /\ (j >= i => Shifted(i, j) = 0)
<1> DEFINE S == {j \in 0 .. B : Shifted(i, j) <= Shifted(m, j) /\ (Shifted(i, j) = 0 \/ Shifted(i, j) + j <= i)}
<1>0. ASSUME NEW j \in 0 .. B PROVE Shifted(i, j) \in Nat /\ Shifted(m, j) \in Nat
  <2>1. i \in Nat /\ m \in Nat /\ j \in Nat
    OBVIOUS
  <2> QED
    BY <2>1, ShiftedIs
<1>1. 0 \in S
  BY ShiftedIs
<1>2. ASSUME NEW j \in S, j < B PROVE j + 1 \in S
  <2>1. j \in Nat /\ j + 1 \in 0 .. B /\ i \in Nat
    BY <1>2
  <2> DEFINE x == Shifted(i, j)
             y == Shifted(m, j)
  <2>2. Shifted(i, j + 1) = x \div 2 /\ Shifted(m, j + 1) = y \div 2
    BY <2>1, ShiftedIs
  <2>3. x \in Nat /\ y \in Nat /\ x <= y /\ (x = 0 \/ x + j <= i)
    BY <1>0, <1>2
  <2> HIDE DEF x, y
  <2>4. x \div 2 <= y \div 2
    BY <2>3
  <2>5. x \div 2 = 0 \/ (x \div 2) + (j + 1) <= i
    BY <2>1, <2>3
  <2> QED
    BY <2>1, <2>2, <2>4, <2>5
<1>3. S \in SUBSET (0 .. B)
  OBVIOUS
<1> HIDE DEF S
<1>4. S = 0 .. B
  BY <1>1, <1>2, <1>3, Induction
<1>5. ASSUME NEW j \in 0 .. B PROVE Shifted(i, j) <= Shifted(m, j) /\ (j >= i => Shifted(i, j) = 0)
  <2>1. j \in S
    BY <1>4
  <2> QED
    BY <1>0, <2>1 DEF S
<1> QED
  BY <1>5

\* The bits a number below n has tell it from the others.
LEMMA BitsDiffer ==
    ASSUME NEW n \in Nat, NEW i \in 0 .. n - 1, NEW k \in 0 .. n - 1,
           \A j \in 0 .. n : Shifted(n - 1, j) > 0 => (Bit(i, j) <=> Bit(k, j))
    PROVE  i = k
<1>1. n - 1 \in Nat /\ i \in Nat /\ k \in Nat /\ i <= n /\ k <= n
  OBVIOUS
<1> DEFINE S == {t \in 0 .. n : Shifted(i, n - t) = Shifted(k, n - t)}
<1>2. 0 \in S
  <2>1. n \in 0 .. n /\ n - 0 = n
    OBVIOUS
  <2>2. Shifted(i, n) = 0 /\ Shifted(k, n) = 0
    BY <1>1, <2>1, ShiftedBelow
  <2> QED
    BY <2>1, <2>2
<1>3. ASSUME NEW t \in S, t < n PROVE t + 1 \in S
  <2> DEFINE j == n - (t + 1)
             x == Shifted(i, j)
             y == Shifted(k, j)
             m == Shifted(n - 1, j)
  <2>1. j \in Nat /\ j \in 0 .. n /\ j + 1 = n - t /\ t + 1 \in 0 .. n
    BY <1>3
  <2> HIDE DEF j
  <2>2. x \in Nat /\ y \in Nat /\ m \in Nat /\ x <= m /\ y <= m
    BY <1>1, <2>1, ShiftedIs, ShiftedBelow
  <2>3. x \div 2 = y \div 2
    <3>1. Shifted(i, j + 1) = x \div 2 /\ Shifted(k, j + 1) = y \div 2
      BY <1>1, <2>1, ShiftedIs
    <3>2. Shifted(i, j + 1) = Shifted(k, j + 1)
      BY <1>3, <2>1
    <3> QED
      BY <3>1, <3>2
  <2>4. m > 0 => (x % 2 = 1 <=> y % 2 = 1)
    BY <2>1 DEF Bit
  <2> HIDE DEF x, y, m
  <2>5. x = 2 * (x \div 2) + (x % 2) /\ y = 2 * (y \div 2) + (y % 2) /\ x % 2 \in 0 .. 1 /\ y % 2 \in 0 .. 1
    BY <2>2
  <2>6. x = y
    BY <2>2, <2>3, <2>4, <2>5
  <2> QED
    BY <2>1, <2>6 DEF x, y, j
<1>4. S \in SUBSET (0 .. n)
  OBVIOUS
<1> HIDE DEF S
<1>5. S = 0 .. n
  BY <1>2, <1>3, <1>4, Induction
<1>6. n \in S /\ n - n = 0
  BY <1>5
<1>7. Shifted(i, 0) = Shifted(k, 0)
  BY <1>6 DEF S
<1> QED
  BY <1>1, <1>7, ShiftedIs
-----------------------------------------------------------------------------
(* Branches go one way.                                                    *)

LEMMA SuccsType ==
    ASSUME WellFormed(req), NEW b \in BB
    PROVE  req.succs[b] \in Seq(BB) /\ Succ(b) \subseteq BB /\ Succ(b) \subseteq Blocks(b)
<1>1. req \in RequestType
  BY DEF WellFormed
<1>2. req.succs[b] \in Seq(BB)
  BY <1>1 DEF RequestType
<1>3. Succ(b) \subseteq Blocks(b)
  BY DEF WellFormed, Succ, Blocks
<1> QED
  BY <1>2, <1>3 DEF Blocks

\* The conditions of two successors exclude each other.
LEMMA SuccCondsDisjoint ==
    ASSUME WellFormed(req), NEW b \in BB, NEW i \in DOMAIN req.succs[b], NEW k \in DOMAIN req.succs[b],
           NEW as \in SuccCond(b, i), as \in SuccCond(b, k)
    PROVE  i = k
<1> DEFINE n == Len(req.succs[b])
<1>1. n \in Nat /\ i \in 1 .. n /\ k \in 1 .. n
  BY SuccsType
<1>2. ASSUME NEW j \in 0 .. n, Shifted(n - 1, j) > 0 PROVE Bit(i - 1, j) <=> Bit(k - 1, j)
  <2>1. <<b, j>> \in Atoms(b)
    BY <1>2 DEF Atoms
  <2>2. \A x \in Atoms(b) : (Bit(i - 1, x[2]) <=> x \notin as) /\ (Bit(k - 1, x[2]) <=> x \notin as)
    BY DEF SuccCond
  <2>3. <<b, j>>[2] = j
    OBVIOUS
  <2> QED
    BY <2>1, <2>2, <2>3
<1> HIDE DEF n
<1>3. i - 1 \in 0 .. n - 1 /\ k - 1 \in 0 .. n - 1
  BY <1>1
<1>4. i - 1 = k - 1
  BY <1>1, <1>2, <1>3, BitsDiffer
<1> QED
  BY <1>1, <1>4

\* What getBranchCond returns for a successor is the condition of one of its
\* occurrences.
LEMMA BranchCondIs ==
    ASSUME WellFormed(req), NEW b \in BB, NEW s \in Succ(b)
    PROVE  \E i \in DOMAIN req.succs[b] : req.succs[b][i] = s /\ BranchCond(b, s) = SuccCond(b, i)
<1> DEFINE q == req.succs[b]
           IsLast(i) == q[i] = s /\ \A j \in DOMAIN q : j > i => q[j] # s
           S == {Len(q) - i : i \in {j \in DOMAIN q : q[j] = s}}
<1>1. q \in Seq(BB) /\ DOMAIN q = 1 .. Len(q) /\ Len(q) \in Nat
  BY SuccsType
<1>2. \E i \in DOMAIN q : q[i] = s
  BY DEF Succ, ToSet
<1>3. S \in SUBSET Nat /\ S # {}
  <2>1. \A i \in DOMAIN q : Len(q) - i \in Nat
    BY <1>1
  <2> QED
    BY <1>2, <2>1
<1> HIDE DEF S
<1>4. PICK m \in S : \A x \in S : m <= x
  BY <1>3, LeastNumber
<1> HIDE DEF q
<1>5. PICK i \in DOMAIN q : q[i] = s /\ m = Len(q) - i
  BY <1>4 DEF S
<1>6. ASSUME NEW j \in DOMAIN q, j > i PROVE q[j] # s
  <2>1. SUFFICES ASSUME q[j] = s PROVE FALSE
    OBVIOUS
  <2>2. Len(q) - j \in S
    BY <2>1 DEF S
  <2> QED
    BY <1>1, <1>4, <1>5, <1>6, <2>2
<1>7. \E k \in DOMAIN q : IsLast(k)
  BY <1>5, <1>6
<1> DEFINE c == CHOOSE k \in DOMAIN q : IsLast(k)
<1>8. c \in DOMAIN q /\ IsLast(c)
  BY <1>7
<1>9. BranchCond(b, s) = SuccCond(b, c)
  BY DEF BranchCond, q
<1> HIDE DEF c
<1> QED
  BY <1>8, <1>9 DEF q

\* A branch goes one way under an assignment.
LEMMA OneWay ==
    ASSUME WellFormed(req), NEW b \in BB, NEW s \in Succ(b), NEW t \in Succ(b),
           NEW as \in TestedCond(b, s), as \in TestedCond(b, t)
    PROVE  s = t
<1> DEFINE q == req.succs[b]
<1>1. q \in Seq(BB) /\ Len(q) \in Nat /\ Succ(b) = {q[i] : i \in 1 .. Len(q)}
  BY SuccsType DEF Succ, ToSet
<1>2. ASSUME as \in BranchCond(b, s), as \in BranchCond(b, t) PROVE s = t
  <2>1. PICK i \in DOMAIN q : q[i] = s /\ BranchCond(b, s) = SuccCond(b, i)
    BY BranchCondIs
  <2>2. PICK k \in DOMAIN q : q[k] = t /\ BranchCond(b, t) = SuccCond(b, k)
    BY BranchCondIs
  <2>3. i = k
    BY <1>2, <2>1, <2>2, SuccCondsDisjoint
  <2> QED
    BY <2>1, <2>2, <2>3
<1>3. CASE Len(q) = 1
  BY <1>1, <1>3
<1>4. ASSUME IsBranch(b) PROVE Succ(b) = {q[1], q[2]}
  BY <1>1, <1>4 DEF IsBranch
<1>5. CASE Len(q) # 1 /\ ~(req.hasValue /\ IsBranch(b))
  BY <1>2, <1>5 DEF TestedCond
<1>6. CASE Len(q) # 1 /\ req.hasValue /\ IsBranch(b) /\ \E u \in Succ(b) : CallsProgExit(u)
  <2>1. as \in ProgExitCond(b, s) /\ as \in ProgExitCond(b, t)
    BY <1>6 DEF TestedCond
  <2>2. ~CallsProgExit(s) /\ ~CallsProgExit(t)
    BY <2>1 DEF ProgExitCond, FalseCond
  <2> QED
    BY <1>4, <1>6, <2>2
<1>7. CASE /\ Len(q) # 1 /\ req.hasValue /\ IsBranch(b)
           /\ ~(\E u \in Succ(b) : CallsProgExit(u)) /\ req.nullTest[b] # "none"
  <2>1. as \in NullTestCond(b, s) /\ as \in NullTestCond(b, t)
    BY <1>7 DEF TestedCond
  <2>2. ~((s = q[1]) <=> (req.nullTest[b] = "eq")) /\ ~((t = q[1]) <=> (req.nullTest[b] = "eq"))
    BY <2>1 DEF NullTestCond, FalseCond
  <2> QED
    BY <1>4, <1>7, <2>2
<1>8. CASE /\ Len(q) # 1 /\ req.hasValue /\ IsBranch(b)
           /\ ~(\E u \in Succ(b) : CallsProgExit(u)) /\ ~(req.nullTest[b] # "none")
  BY <1>2, <1>8 DEF TestedCond
<1> QED
  BY <1>3, <1>5, <1>6, <1>7, <1>8
-----------------------------------------------------------------------------
(* Runs that cannot pass a block by.                                       *)

\* The control-flow graph.
Flow == [d \in BB |-> Succ(d)]

\* A run takes edges of the control-flow graph.
LEMMA RunInReach ==
    ASSUME WellFormed(req), NEW as
    PROVE  /\ Flow \in [BB -> SUBSET BB] /\ Goes(as) \in [BB -> SUBSET BB]
           /\ \A d \in BB : Goes(as)[d] \subseteq Succ(d)
           /\ \A b \in BB : \A avoid, less : less \subseteq avoid => Run(b, as, avoid) \subseteq Reach(b, less)
<1>1. Flow \in [BB -> SUBSET BB] /\ Goes(as) \in [BB -> SUBSET BB]
  BY SuccsType DEF Flow, Goes
<1>2. \A d \in BB : Goes(as)[d] \subseteq Succ(d) /\ Flow[d] = Succ(d)
  BY DEF Flow, Goes
<1>3. ASSUME NEW b \in BB, NEW avoid, NEW less, less \subseteq avoid
      PROVE  Run(b, as, avoid) \subseteq Reach(b, less)
  <2> DEFINE next == Goes(as)
  <2>0. next \in [BB -> SUBSET BB] /\ \A d \in BB : next[d] \subseteq Flow[d]
    BY <1>1, <1>2
  <2> HIDE DEF next
  <2>1. Reached(next, b, avoid) \subseteq Reached(Flow, b, less)
    BY <1>1, <1>3, <2>0, ReachedMonotone
  <2> QED
    BY <2>1 DEF Run, Reach, Flow, next
<1> QED
  BY <1>1, <1>2, <1>3

\* Control stays in a function.
LEMMA ReachStays ==
    ASSUME WellFormed(req), NEW b \in BB, NEW avoid
    PROVE  Reach(b, avoid) \subseteq Blocks(b)
<1>1. Flow \in [BB -> SUBSET BB]
  BY RunInReach
<1>2. Blocks(b) \in SUBSET BB /\ {b} \ avoid \subseteq Blocks(b)
  BY DEF Blocks
<1>3. \A d \in Blocks(b) : Flow[d] \subseteq Blocks(b)
  BY SuccsType DEF Flow, Blocks
<1>4. Reached(Flow, b, avoid) \subseteq Blocks(b)
  BY <1>1, <1>2, <1>3, ReachedLeast DEF Kept
<1> QED
  BY <1>4 DEF Reach, Flow

\* No run under as from a leaves the function before it comes to x, unless
\* the program exits.
Caught(a, as, x) == \A e \in Run(a, as, {x}) : Succ(e) # {} \/ CallsProgExit(e)

\* What cannot pass b by, nor s from b on, cannot pass s by.
LEMMA CaughtFurther ==
    ASSUME WellFormed(req), NEW as, NEW a \in BB, NEW b \in BB, NEW s, Caught(a, as, b), Caught(b, as, s)
    PROVE  Caught(a, as, s)
<1> SUFFICES ASSUME NEW e \in Run(a, as, {s}) PROVE Succ(e) # {} \/ CallsProgExit(e)
  BY DEF Caught
<1>1. Goes(as) \in [BB -> SUBSET BB]
  BY RunInReach
<1>2. CASE e \in Reached(Goes(as), a, {s} \cup {b})
  <2>1. Reached(Goes(as), a, {s} \cup {b}) \subseteq Reached(Goes(as), a, {b})
    BY <1>1, ReachedMonotone
  <2> QED
    BY <1>2, <2>1 DEF Caught, Run
<1>3. CASE e \notin Reached(Goes(as), a, {s} \cup {b})
  <2>1. e \in Reached(Goes(as), b, {s})
    BY <1>1, <1>3, Through DEF Run
  <2> QED
    BY <2>1 DEF Caught, Run
<1> QED
  BY <1>2, <1>3

LEMMA CaughtByPostDominator ==
    ASSUME WellFormed(req), NEW as, NEW b \in BB, NEW s, PostDominates(s, b)
    PROVE  Caught(b, as, s)
<1>1. Run(b, as, {s}) \subseteq Reach(b, {s})
  BY RunInReach
<1> QED
  BY <1>1 DEF Caught, PostDominates

\* Where the program exits anyway no run leaves the function.
LEMMA CaughtByProgExit ==
    ASSUME WellFormed(req), NEW as, NEW b \in BB, NEW s, CallsProgExit(b)
    PROVE  Caught(b, as, s)
<1>1. PICK p \in req.progExits \cap Blocks(b) : PostDominates(p, b)
  BY DEF CallsProgExit
<1>2. p \in BB /\ p \in Blocks(p)
  BY DEF Blocks
<1>3. Goes(as) \in [BB -> SUBSET BB] /\ Goes(as)[p] = {}
  <2>1. Goes(as)[p] = {}
    BY <1>1, <1>2 DEF Goes
  <2> QED
    BY <2>1, RunInReach
<1> SUFFICES ASSUME NEW e \in Run(b, as, {s}) PROVE Succ(e) # {} \/ CallsProgExit(e)
  BY DEF Caught
<1>4. CASE e \in Reached(Goes(as), b, {s} \cup {p})
  <2>1. Run(b, as, {s} \cup {p}) \subseteq Reach(b, {p})
    BY RunInReach
  <2> QED
    BY <1>1, <1>4, <2>1 DEF PostDominates, Run
<1>5. CASE e \notin Reached(Goes(as), b, {s} \cup {p})
  <2>1. e \in Reached(Goes(as), p, {s})
    BY <1>2, <1>3, <1>5, Through DEF Run
  <2>2. e = p
    BY <1>2, <1>3, <2>1, ReachedFirst
  <2>3. Reach(p, {p}) = {}
    <3>1. Flow \in [BB -> SUBSET BB]
      BY RunInReach
    <3>2. {} \in SUBSET BB /\ {p} \ {p} \subseteq {} /\ Kept(Flow, {p}, {})
      BY DEF Kept
    <3>3. Reached(Flow, p, {p}) \subseteq {}
      BY <1>2, <3>1, <3>2, ReachedLeast
    <3> QED
      BY <3>3 DEF Reach, Flow
  <2> QED
    BY <1>1, <1>2, <2>2, <2>3 DEF CallsProgExit, PostDominates
<1> QED
  BY <1>4, <1>5

\* No block of a loop is left otherwise than by an edge.
LEMMA LoopGoesOn ==
    ASSUME WellFormed(req), NEW h \in BB, Latches(h) # {}
    PROVE  h \in Loop(h) /\ Loop(h) \subseteq BB /\ \A e \in Loop(h) : Succ(e) # {}
<1>1. Flow \in [BB -> SUBSET BB]
  BY RunInReach
<1>2. Loop(h) = {h} \cup {b \in Blocks(h) : Latches(h) \cap Reach(b, {h}) # {}}
  BY DEF Loop
<1>3. PICK t \in Latches(h) : TRUE
  OBVIOUS
<1>4. Entry(h) \in BB /\ Entry(h) \in Blocks(h)
  BY DEF WellFormed, Entry, Blocks
<1>5. t \in Reach(Entry(h), {}) /\ h \in Succ(t) /\ t \notin Reach(Entry(h), {h})
  <2>1. t \in Reach(Entry(h), {}) /\ h \in Succ(t) /\ t \notin Reach(Entry(t), {h})
    BY DEF Latches, Dominates
  <2>2. t \in Blocks(Entry(h))
    BY <1>4, <2>1, ReachStays
  <2>3. Entry(t) = Entry(h)
    BY <1>4, <2>2 DEF Blocks, Entry
  <2> QED
    BY <2>1, <2>3
<1>6. t \in Reach(h, {})
  <2>1. t \in Reached(Flow, Entry(h), {}) /\ t \notin Reached(Flow, Entry(h), {} \cup {h})
    BY <1>5 DEF Reach, Flow
  <2>2. t \in Reached(Flow, h, {})
    BY <1>1, <1>4, <2>1, Through
  <2> QED
    BY <2>2 DEF Reach, Flow
<1>7. ASSUME NEW e \in BB, NEW x \in Reach(e, {h}) \cup Reach(e, {}), h \in Succ(x) PROVE Succ(e) # {}
  <2>1. CASE x = e
    BY <1>7, <2>1
  <2>2. CASE x # e
    <3>1. x \in Reached(Flow, e, {h}) \/ x \in Reached(Flow, e, {})
      BY <1>7 DEF Reach, Flow
    <3>2. Flow[e] # {}
      BY <1>1, <2>2, <3>1, ReachedFirst
    <3> QED
      BY <3>2 DEF Flow
  <2> QED
    BY <2>1, <2>2
<1>8. ASSUME NEW e \in Loop(h), e # h PROVE Succ(e) # {}
  <2>1. e \in BB /\ \E x \in Reach(e, {h}) : x \in Latches(h)
    BY <1>2, <1>8 DEF Blocks
  <2> QED
    BY <1>7, <2>1 DEF Latches
<1>9. Succ(h) # {}
  BY <1>5, <1>6, <1>7
<1> QED
  BY <1>2, <1>8, <1>9 DEF Blocks

\* A loop is left to where evaluateLoopExitBranch says it is.
LEMMA CaughtAfterLoop ==
    ASSUME WellFormed(req), NEW as, NEW h \in BB, NEW d, EligibleLoopExit(h, d)
    PROVE  Caught(h, as, d)
<1> DEFINE next == Goes(as)
           X == ExitBlocks(h)
           R == Loop(h) \cup UNION {Run(x, as, {d}) : x \in X}
<1>1. next \in [BB -> SUBSET BB] /\ \A b \in BB : next[b] \subseteq Succ(b)
  BY RunInReach
<1>2. Latches(h) # {} /\ \A x \in X : CallsProgExit(x) \/ PostDominates(d, x)
  BY DEF EligibleLoopExit
<1>3. h \in Loop(h) /\ Loop(h) \subseteq BB /\ \A e \in Loop(h) : Succ(e) # {}
  BY <1>2, LoopGoesOn
<1>4. X = (UNION {Succ(b) : b \in Loop(h)}) \ Loop(h)
  BY DEF ExitBlocks
<1>5. X \subseteq BB
  BY <1>3, <1>4, SuccsType
<1> HIDE DEF next, X
<1>6. ASSUME NEW x \in X
      PROVE  /\ Run(x, as, {d}) \subseteq BB /\ {x} \ {d} \subseteq Run(x, as, {d})
             /\ Kept(next, {d}, Run(x, as, {d}))
  BY <1>1, <1>5, ReachedLeast DEF Run, next
<1>7. R \in SUBSET BB /\ {h} \ {d} \subseteq R
  <2>1. UNION {Run(x, as, {d}) : x \in X} \subseteq BB
    BY <1>6
  <2> QED
    BY <1>3, <2>1
<1>8. Kept(next, {d}, R)
  <2> SUFFICES ASSUME NEW e \in R, NEW s \in next[e] \ {d} PROVE s \in R
    BY DEF Kept
  <2>1. CASE e \in Loop(h)
    <3>1. s \in Succ(e)
      BY <1>1, <1>3, <2>1
    <3>2. s \in Loop(h) \/ s \in X
      BY <1>4, <2>1, <3>1
    <3> QED
      BY <1>6, <3>2
  <2>2. CASE \E x \in X : e \in Run(x, as, {d})
    BY <1>6, <2>2 DEF Kept
  <2> QED
    BY <2>1, <2>2
<1> HIDE DEF R
<1>9. Run(h, as, {d}) \subseteq R
  BY <1>1, <1>7, <1>8, ReachedLeast DEF Run, next
<1>10. ASSUME NEW x \in X PROVE Caught(x, as, d)
  BY <1>2, <1>5, CaughtByProgExit, CaughtByPostDominator
<1> QED
  BY <1>3, <1>9, <1>10 DEF Caught, R

\* A run under the condition of a branch goes to its successor.
LEMMA CaughtByTest ==
    ASSUME WellFormed(req), NEW b \in BB, NEW s \in Succ(b), NEW as \in TestedCond(b, s)
    PROVE  Caught(b, as, s)
<1>1. Goes(as) \in [BB -> SUBSET BB]
  BY RunInReach
<1>2. Goes(as)[b] \subseteq {s}
  BY OneWay DEF Goes
<1>3. {b} \in SUBSET BB /\ {b} \ {s} \subseteq {b} /\ Kept(Goes(as), {s}, {b})
  BY <1>2 DEF Kept
<1>4. Run(b, as, {s}) \subseteq {b}
  BY <1>1, <1>3, ReachedLeast DEF Run
<1> QED
  BY <1>4 DEF Caught

\* What a block hands on to a successor holds where no run from the block
\* passes the successor by.
LEMMA CaughtOn ==
    ASSUME WellFormed(req), NEW b \in BB, NEW s \in Succ(b), NEW as \in FlowCond(b, s)
    PROVE  Caught(b, as, s)
<1>1. CASE PostDominates(s, b)
  BY <1>1, CaughtByPostDominator
<1>2. CASE EligibleLoopExit(b, s)
  BY <1>2, CaughtAfterLoop
<1>3. CASE as \in TestedCond(b, s)
  BY <1>3, CaughtByTest
<1> QED
  BY <1>1, <1>2, <1>3 DEF FlowCond, EvalBrCond

\* Where the branch lets a run pass, the block's condition is handed on.
LEMMA TestedFlows ==
    ASSUME NEW b, NEW s, NEW as \in Assignments, as \in TestedCond(b, s)
    PROVE  as \in FlowCond(b, s)
BY DEF FlowCond, EvalBrCond, TrueCond
-----------------------------------------------------------------------------
(* What the steps keep.                                                    *)

\* The k-th way within a function the value flow is made of.
Way(k) ==
    IF k = 1
    THEN <<req.src, CASE req.kind = "intra" -> req.dst
                      [] req.kind = "call" -> req.site
                      [] req.kind = "ret" -> req.exit[req.src]>>
    ELSE <<IF req.kind = "call" THEN Entry(req.dst) ELSE req.site, req.dst>>

Ways == IF req.kind = "intra" THEN {1} ELSE {1, 2}

\* The one ComputeIntraVFGGuard is at, or was last.
Current == IF phase = "returned" THEN Len(guards) ELSE Len(guards) + 1

TypeCorrect ==
    /\ req \in Requests /\ phase \in {"begin", "work", "returned"}
    /\ from \in BB /\ to \in BB
    /\ DOMAIN bbToCondMap \subseteq BB
    /\ bbToCondMap \in [DOMAIN bbToCondMap -> SUBSET Assignments]
    /\ worklist \in Seq(BB) /\ guards \in Seq(SUBSET Assignments)

\* Where the computation is on the way, and which blocks it has seen.
Placed ==
    /\ Current \in Ways
    /\ \A k \in Ways : Current = k => from = Way(k)[1] /\ to = Way(k)[2]
    /\ \A k \in Ways : phase = "work" /\ Current = k => ToSet(worklist) \subseteq Blocks(Way(k)[1])
    /\ \A k \in Ways : Current = 1 => DOMAIN bbToCondMap \subseteq Blocks(Way(1)[1])
    /\ phase = "begin" /\ Current = 1 => DOMAIN bbToCondMap = {}

\* What a block handed on.
Flows(b) == \A s \in Succ(b) : getCFCond(bbToCondMap, b) \cap FlowCond(b, s) \subseteq getCFCond(bbToCondMap, s)

\* A block that does not wait has handed its condition on.
HandedOn ==
    /\ phase = "begin" => \A b \in BB : b = from \/ Flows(b)
    /\ phase = "work" => /\ Assignments \subseteq getCFCond(bbToCondMap, from)
                         /\ \A b \in BB \ ToSet(worklist) : Flows(b)
    /\ phase = "returned" /\ Current = 1 => \A b \in BB : Flows(b)

\* A run under as comes the k-th way.
Comes(k, as) == Way(k)[2] \in Run(Way(k)[1], as, {})

GuardsCover == \A k \in DOMAIN guards : \A as \in Assignments : Comes(k, as) => as \in guards[k]

\* No run of the k-th way under as passes x by.
CaughtOnWay(k, as, x) == Caught(Way(k)[1], as, x)

\* x is a block of the k-th way.
OnWay(k, x) == x \in Blocks(Way(k)[1])

\* A block has only conditions under which no run passes it by.
MapCatches ==
    /\ phase = "begin" => \A k \in Ways : Current = k => \A x \in DOMAIN bbToCondMap : OnWay(k, x) => x = from
    /\ phase = "work" =>
          \A k \in Ways : Current = k =>
             \A x \in DOMAIN bbToCondMap : OnWay(k, x) => \A as \in bbToCondMap[x] : CaughtOnWay(k, as, x)

GuardsCatch == \A k \in DOMAIN guards : \A as \in guards[k], x \in BB : x = Way(k)[2] => CaughtOnWay(k, as, x)

Inv ==
    /\ TypeCorrect /\ Placed
    /\ ~AfterLoop => HandedOn /\ GuardsCover
    /\ ~IsRecursive => MapCatches /\ GuardsCatch
-----------------------------------------------------------------------------
(* The request does not change, and with it what is only about it.         *)

LEMMA SameGraph ==
    ASSUME req' = req
    PROVE  /\ \A b : Succ(b)' = Succ(b) /\ Blocks(b)' = Blocks(b) /\ CallsProgExit(b)' = CallsProgExit(b)
           /\ \A b, avoid : Reach(b, avoid)' = Reach(b, avoid)
           /\ \A b, d : Dominates(d, b)' = Dominates(d, b) /\ PostDominates(d, b)' = PostDominates(d, b)
<1>1. \A b : Succ(b)' = Succ(b)
  BY DEF Succ
<1>2. \A b : Blocks(b)' = Blocks(b)
  BY DEF Blocks
<1>3. \A b, avoid : Reach(b, avoid)' = Reach(b, avoid)
  <2>1. [d \in BB |-> Succ(d)]' = [d \in BB |-> Succ(d)]
    BY <1>1
  <2> QED
    BY <2>1 DEF Reach
<1>4. \A b, d : Dominates(d, b)' = Dominates(d, b)
  BY <1>3 DEF Dominates, Entry
<1>5. \A b, d : PostDominates(d, b)' = PostDominates(d, b)
  BY <1>1, <1>3 DEF PostDominates
<1>6. \A b : CallsProgExit(b)' = CallsProgExit(b)
  BY <1>2, <1>5 DEF CallsProgExit
<1> QED
  BY <1>1, <1>2, <1>3, <1>4, <1>5, <1>6

LEMMA SameLoops ==
    ASSUME req' = req
    PROVE  \A h, d : EligibleLoopExit(h, d)' = EligibleLoopExit(h, d)
<1>1. \A h : Latches(h)' = Latches(h)
  <2> SUFFICES ASSUME NEW h PROVE Latches(h)' = Latches(h)
    OBVIOUS
  <2>1. Reach(Entry(h), {})' = Reach(Entry(h), {})
    BY SameGraph DEF Reach, Entry, Succ
  <2> QED
    BY <2>1, SameGraph DEF Latches
<1>2. \A h : Loop(h)' = Loop(h)
  <2> SUFFICES ASSUME NEW h PROVE Loop(h)' = Loop(h)
    OBVIOUS
  <2>1. \A b : Reach(b, {h})' = Reach(b, {h})
    BY SameGraph
  <2>2. Blocks(h)' = Blocks(h) /\ Latches(h)' = Latches(h)
    BY <1>1, SameGraph
  <2> DEFINE body == {b \in Blocks(h) : Latches(h) \cap Reach(b, {h}) # {}}
  <2>3. body' = body
    BY <2>1, <2>2
  <2>4. Loop(h) = IF Latches(h) = {} THEN {} ELSE {h} \cup body
    BY DEF Loop
  <2>5. Loop(h)' = IF Latches(h)' = {} THEN {} ELSE {h} \cup body'
    BY DEF Loop
  <2> HIDE DEF body
  <2> QED
    BY <2>2, <2>3, <2>4, <2>5
<1>3. \A h : ExitBlocks(h)' = ExitBlocks(h)
  <2> SUFFICES ASSUME NEW h PROVE ExitBlocks(h)' = ExitBlocks(h)
    OBVIOUS
  <2>1. Loop(h)' = Loop(h)
    BY <1>2
  <2>2. {Succ(b) : b \in Loop(h)}' = {Succ(b) : b \in Loop(h)}
    BY <2>1, SameGraph
  <2> QED
    BY <2>1, <2>2 DEF ExitBlocks
<1> QED
  BY <1>1, <1>3, SameGraph DEF EligibleLoopExit

LEMMA SameConditions ==
    ASSUME req' = req
    PROVE  /\ Assignments' = Assignments
           /\ \A b, s : TestedCond(b, s)' = TestedCond(b, s) /\ FlowCond(b, s)' = FlowCond(b, s)
<1>1. \A b : Atoms(b)' = Atoms(b)
  BY DEF Atoms
<1>2. Assignments' = Assignments
  BY <1>1 DEF Assignments, Blocks
<1>3. \A b, i : SuccCond(b, i)' = SuccCond(b, i)
  BY <1>1, <1>2 DEF SuccCond
<1>4. \A b, s : BranchCond(b, s)' = BranchCond(b, s)
  <2> SUFFICES ASSUME NEW b, NEW s PROVE BranchCond(b, s)' = BranchCond(b, s)
    OBVIOUS
  <2> DEFINE IsLast(i) == req.succs[b][i] = s /\ \A j \in DOMAIN req.succs[b] : j > i => req.succs[b][j] # s
             c == CHOOSE i \in DOMAIN req.succs[b] : IsLast(i)
  <2>1. c' = c
    OBVIOUS
  <2>2. SuccCond(b, c)' = SuccCond(b, c)
    BY <1>1, <1>2, <2>1 DEF SuccCond
  <2> QED
    BY <2>2 DEF BranchCond
<1>5. \A b, s : TestedCond(b, s)' = TestedCond(b, s)
  <2> SUFFICES ASSUME NEW b, NEW s PROVE TestedCond(b, s)' = TestedCond(b, s)
    OBVIOUS
  <2>1. (\E t \in Succ(b) : CallsProgExit(t))' <=> \E t \in Succ(b) : CallsProgExit(t)
    BY SameGraph
  <2>2. ProgExitCond(b, s)' = ProgExitCond(b, s) /\ NullTestCond(b, s)' = NullTestCond(b, s)
    BY <1>2, SameGraph DEF ProgExitCond, NullTestCond, TrueCond, FalseCond
  <2>3. TrueCond' = TrueCond /\ IsBranch(b)' = IsBranch(b) /\ BranchCond(b, s)' = BranchCond(b, s)
    BY <1>2, <1>4 DEF TrueCond, IsBranch
  <2> QED
    BY <2>1, <2>2, <2>3 DEF TestedCond
<1>6. \A b, s : FlowCond(b, s)' = FlowCond(b, s)
  BY <1>2, <1>5, SameGraph, SameLoops DEF FlowCond, EvalBrCond, TrueCond, IsBranch
<1> QED
  BY <1>2, <1>5, <1>6

LEMMA SameWays ==
    ASSUME req' = req
    PROVE  /\ AfterLoop' = AfterLoop /\ IsRecursive' = IsRecursive /\ Ways' = Ways
           /\ \A k : Way(k)' = Way(k)
           /\ \A k, x : OnWay(k, x)' = OnWay(k, x)
           /\ \A k, as : Comes(k, as)' = Comes(k, as)
           /\ \A k, as, x : CaughtOnWay(k, as, x)' = CaughtOnWay(k, as, x)
<1>1. \A k : Way(k)' = Way(k)
  BY DEF Way, Entry
<1>2. ASSUME NEW as PROVE Goes(as)' = Goes(as)
  <2> DEFINE on(d) == {s \in Succ(d) : d \notin req.progExits /\ as \in TestedCond(d, s)}
  <2>1. \A d : on(d)' = on(d)
    <3>1. \A d : Succ(d)' = Succ(d)
      BY SameGraph
    <3>2. \A d, s : TestedCond(d, s)' = TestedCond(d, s)
      BY SameConditions
    <3> QED
      BY <3>1, <3>2
  <2> HIDE DEF on
  <2>2. [d \in BB |-> on(d)]' = [d \in BB |-> on(d)]
    BY <2>1
  <2> QED
    BY <2>2 DEF Goes, on
<1>3. ASSUME NEW k, NEW as, NEW x PROVE CaughtOnWay(k, as, x)' = CaughtOnWay(k, as, x)
  <2>1. Run(Way(k)[1], as, {x})' = Run(Way(k)[1], as, {x})
    BY <1>1, <1>2 DEF Run
  <2> QED
    BY <2>1, SameGraph DEF CaughtOnWay, Caught
<1>4. ASSUME NEW k, NEW as PROVE Comes(k, as)' = Comes(k, as)
  BY <1>1, <1>2 DEF Comes, Run
<1>5. ASSUME NEW k, NEW x PROVE OnWay(k, x)' = OnWay(k, x)
  BY <1>1 DEF OnWay, Blocks
<1>6. Legs' = Legs
  BY DEF Legs, Entry
<1>7. AfterLoop' = AfterLoop
  <2>1. ASSUME NEW leg
        PROVE  (\E h \in Blocks(leg[2]) : EligibleLoopExit(h, leg[2]))'
                  = \E h \in Blocks(leg[2]) : EligibleLoopExit(h, leg[2])
    BY SameGraph, SameLoops
  <2> QED
    BY <1>6, <2>1 DEF AfterLoop
<1>8. IsRecursive' = IsRecursive /\ Ways' = Ways
  BY DEF IsRecursive, Entry, Ways
<1> QED
  BY <1>1, <1>3, <1>4, <1>5, <1>7, <1>8
-----------------------------------------------------------------------------
(* The worklist.                                                           *)

\* q is a recursion whose step depends on its number: push[l, i] is what the
\* i-th step makes of l.
Pushes(q, A, push, n) == q[0] = A /\ \A i \in 1 .. n : q[i] = push[q[i - 1], i]

LEMMA Recursion ==
    ASSUME NEW n \in Nat, NEW U, NEW A \in U, NEW push \in [U \X (1 .. n) -> U]
    PROVE  \E q \in [0 .. n -> U] : Pushes(q, A, push, n)
<1> DEFINE V == (0 .. n) \X U
           F == [p \in V |-> IF p[1] < n THEN <<p[1] + 1, push[p[2], p[1] + 1]>> ELSE p]
<1>1. F \in [V -> V]
  <2> SUFFICES ASSUME NEW p \in V PROVE (IF p[1] < n THEN <<p[1] + 1, push[p[2], p[1] + 1]>> ELSE p) \in V
    OBVIOUS
  <2>1. p[1] \in 0 .. n /\ p[2] \in U
    OBVIOUS
  <2>2. ASSUME p[1] < n PROVE p[1] + 1 \in 0 .. n /\ push[p[2], p[1] + 1] \in U
    <3>1. p[1] + 1 \in 1 .. n /\ p[1] + 1 \in 0 .. n
      BY <2>1, <2>2
    <3> QED
      BY <2>1, <3>1
  <2> QED
    BY <2>2
<1>2. <<0, A>> \in V
  OBVIOUS
<1>3. \A p \in V : F[p] = IF p[1] < n THEN <<p[1] + 1, push[p[2], p[1] + 1]>> ELSE p
  OBVIOUS
<1> HIDE DEF F
<1> DEFINE W == V
<1>4. F \in [W -> W] /\ <<0, A>> \in W
  BY <1>1, <1>2
<1> HIDE DEF W
<1>5. PICK r \in [0 .. n -> W] : Iterates(r, <<0, A>>, F, n)
  BY <1>4, Iteration
<1>6. \A i \in 0 .. n : r[i] \in V
  BY <1>5 DEF W
<1> DEFINE S == {i \in 0 .. n : r[i][1] = i}
<1>7. 0 \in S
  BY <1>5 DEF Iterates
<1>8. ASSUME NEW i \in 0 .. n, r[i][1] = i, i < n
      PROVE  r[i + 1][1] = i + 1 /\ r[i + 1][2] = push[r[i][2], i + 1]
  <2>1. i + 1 \in 1 .. n /\ (i + 1) - 1 = i
    BY <1>8
  <2>2. r[i + 1] = F[r[i]]
    BY <1>5, <2>1 DEF Iterates
  <2> DEFINE z == push[r[i][2], i + 1]
  <2>3. r[i + 1] = <<i + 1, z>>
    BY <1>3, <1>6, <1>8, <2>2
  <2> HIDE DEF z
  <2>4. r[i + 1][1] = i + 1 /\ r[i + 1][2] = z
    BY <2>3
  <2> QED
    BY <2>4 DEF z
<1>9. ASSUME NEW i \in S, i < n PROVE i + 1 \in S
  <2>1. i \in 0 .. n /\ r[i][1] = i /\ i + 1 \in 0 .. n
    BY <1>9
  <2>2. r[i + 1][1] = i + 1
    BY <1>8, <1>9, <2>1
  <2> QED
    BY <2>1, <2>2
<1>10. S \in SUBSET (0 .. n)
  OBVIOUS
<1> HIDE DEF S
<1>11. S = 0 .. n
  BY <1>7, <1>9, <1>10, Induction
<1> DEFINE q == [i \in 0 .. n |-> r[i][2]]
<1>12. q \in [0 .. n -> U]
  BY <1>6
<1>13. q[0] = A
  BY <1>5 DEF Iterates
<1>14. ASSUME NEW i \in 1 .. n PROVE q[i] = push[q[i - 1], i]
  <2>1. i - 1 \in 0 .. n /\ i - 1 < n /\ (i - 1) + 1 = i /\ i \in 0 .. n
    OBVIOUS
  <2>2. r[i - 1][1] = i - 1
    BY <1>11, <2>1 DEF S
  <2> QED
    BY <1>8, <2>1, <2>2
<1> QED
  BY <1>12, <1>13, <1>14 DEF Pushes

\* Pushing keeps what waits, and adds the blocks that are not to be skipped.
LEMMA PushedIs ==
    ASSUME NEW list \in Seq(BB), NEW succs \in Seq(BB), NEW skip
    PROVE  /\ Pushed(list, succs, skip) \in Seq(BB)
           /\ ToSet(list) \cup (ToSet(succs) \ skip) \subseteq ToSet(Pushed(list, succs, skip))
           /\ ToSet(Pushed(list, succs, skip)) \subseteq ToSet(list) \cup ToSet(succs)
<1> DEFINE n == Len(succs)
           Put(l, s) == IF s \in skip \cup ToSet(l) THEN l ELSE Append(l, s)
           push == [p \in Seq(BB) \X (1 .. n) |-> Put(p[1], succs[p[2]])]
           pushed[i \in 0 .. n] ==
              IF i = 0 THEN list
              ELSE IF succs[i] \in skip \cup ToSet(pushed[i - 1]) THEN pushed[i - 1]
              ELSE Append(pushed[i - 1], succs[i])
<1>1. n \in Nat /\ \A i \in 1 .. n : succs[i] \in BB
  OBVIOUS
<1>2. ASSUME NEW l \in Seq(BB), NEW s \in BB
      PROVE  /\ Put(l, s) \in Seq(BB) /\ ToSet(l) \subseteq ToSet(Put(l, s))
             /\ s \in skip \cup ToSet(Put(l, s)) /\ ToSet(Put(l, s)) \subseteq ToSet(l) \cup {s}
  <2>1. Append(l, s) \in Seq(BB) /\ ToSet(Append(l, s)) = ToSet(l) \cup {s}
    <3>1. /\ Append(l, s) \in Seq(BB) /\ Len(Append(l, s)) = Len(l) + 1
          /\ \A i \in 1 .. Len(l) : Append(l, s)[i] = l[i]
          /\ Append(l, s)[Len(l) + 1] = s
      BY AppendProperties
    <3>2. Len(l) \in Nat /\ DOMAIN l = 1 .. Len(l)
      OBVIOUS
    <3>3. DOMAIN Append(l, s) = 1 .. Len(l) + 1
      BY <3>1
    <3>4. \A i \in 1 .. Len(l) + 1 : i \in 1 .. Len(l) \/ i = Len(l) + 1
      BY <3>2
    <3>5. Len(l) + 1 \in 1 .. Len(l) + 1 /\ \A i \in 1 .. Len(l) : i \in 1 .. Len(l) + 1
      BY <3>2
    <3> QED
      BY <3>1, <3>2, <3>3, <3>4, <3>5 DEF ToSet
  <2> QED
    BY <2>1
<1>3. push \in [Seq(BB) \X (1 .. n) -> Seq(BB)]
  BY <1>1, <1>2
<1>4. \A l \in Seq(BB), i \in 1 .. n : push[l, i] = Put(l, succs[i])
  OBVIOUS
<1> HIDE DEF push
<1> HIDE DEF n
<1>5. PICK q \in [0 .. n -> Seq(BB)] : Pushes(q, list, push, n)
  <2> DEFINE U == Seq(BB)
  <2>1. list \in U /\ push \in [U \X (1 .. n) -> U]
    BY <1>3
  <2> HIDE DEF U
  <2>2. \E q \in [0 .. n -> U] : Pushes(q, list, push, n)
    BY <1>1, <2>1, Recursion
  <2> QED
    BY <2>2 DEF U
<1>6. ASSUME NEW i \in 1 .. n PROVE i - 1 \in 0 .. n /\ q[i - 1] \in Seq(BB) /\ q[i] = Put(q[i - 1], succs[i])
  <2>1. i - 1 \in 0 .. n
    BY <1>1
  <2> QED
    BY <1>4, <1>5, <2>1 DEF Pushes
<1>7. q = [i \in 0 .. n |-> IF i = 0 THEN list
                            ELSE IF succs[i] \in skip \cup ToSet(q[i - 1]) THEN q[i - 1]
                            ELSE Append(q[i - 1], succs[i])]
  <2>1. \A i \in 0 .. n : i # 0 => i \in 1 .. n
    BY <1>1
  <2> QED
    BY <1>5, <1>6, <2>1 DEF Pushes
<1>8. pushed = [i \in 0 .. n |-> IF i = 0 THEN list
                                 ELSE IF succs[i] \in skip \cup ToSet(pushed[i - 1]) THEN pushed[i - 1]
                                 ELSE Append(pushed[i - 1], succs[i])]
  BY <1>7 DEF pushed
<1> HIDE DEF pushed
<1>9. pushed[0] = list /\ \A i \in 1 .. n : pushed[i] = Put(pushed[i - 1], succs[i])
  <2>1. \A i \in 0 .. n : pushed[i] = IF i = 0 THEN list
                                      ELSE IF succs[i] \in skip \cup ToSet(pushed[i - 1]) THEN pushed[i - 1]
                                      ELSE Append(pushed[i - 1], succs[i])
    BY <1>8
  <2>2. \A i \in 1 .. n : i \in 0 .. n /\ i # 0
    BY <1>1
  <2>3. 0 \in 0 .. n
    BY <1>1
  <2> QED
    BY <2>1, <2>2, <2>3
<1> DEFINE Good(i, l) == /\ l \in Seq(BB) /\ ToSet(list) \cup ({succs[j] : j \in 1 .. i} \ skip) \subseteq ToSet(l)
                         /\ ToSet(l) \subseteq ToSet(list) \cup ToSet(succs)
           S == {i \in 0 .. n : Good(i, pushed[i])}
<1>10. 0 \in S
  BY <1>1, <1>9
<1>11. ASSUME NEW i \in S, i < n PROVE i + 1 \in S
  <2> DEFINE l == pushed[i]
             s == succs[i + 1]
  <2>1. i + 1 \in 1 .. n /\ i + 1 \in 0 .. n /\ (i + 1) - 1 = i
    BY <1>1, <1>11
  <2>2. pushed[i + 1] = Put(l, s)
    BY <1>9, <2>1
  <2>3. Good(i, l) /\ s \in BB /\ s \in ToSet(succs)
    <3>1. Good(i, l)
      BY <1>11
    <3>2. s \in BB /\ i + 1 \in DOMAIN succs
      BY <1>1, <2>1 DEF n
    <3> QED
      BY <3>1, <3>2 DEF ToSet
  <2>4. \A j \in 1 .. i + 1 : j \in 1 .. i \/ j = i + 1
    BY <2>1
  <2> HIDE DEF l, s
  <2>5. Good(i + 1, Put(l, s))
    <3> HIDE DEF Put
    <3>1. /\ Put(l, s) \in Seq(BB) /\ ToSet(l) \subseteq ToSet(Put(l, s))
          /\ s \in skip \cup ToSet(Put(l, s)) /\ ToSet(Put(l, s)) \subseteq ToSet(l) \cup {s}
      BY <1>2, <2>3
    <3>2. {succs[j] : j \in 1 .. i + 1} \subseteq {succs[j] : j \in 1 .. i} \cup {s}
      BY <2>4 DEF s
    <3> QED
      BY <2>3, <3>1, <3>2
  <2> QED
    BY <2>1, <2>2, <2>5
<1>12. S \in SUBSET (0 .. n)
  OBVIOUS
<1> HIDE DEF S
<1>13. S = 0 .. n
  BY <1>1, <1>10, <1>11, <1>12, Induction
<1>14. n \in S
  BY <1>1, <1>13
<1>15. Good(n, pushed[n])
  BY <1>14 DEF S
<1>16. Pushed(list, succs, skip) = pushed[n]
  BY DEF Pushed, pushed, n
<1>17. ToSet(succs) = {succs[j] : j \in 1 .. n}
  BY DEF ToSet, n
<1> QED
  BY <1>15, <1>16, <1>17
-----------------------------------------------------------------------------
(* Each step keeps the invariant.                                          *)

\* The ways lie in functions.
LEMMA WaysType ==
    ASSUME WellFormed(req), NEW k \in Ways
    PROVE  /\ Way(k)[1] \in BB /\ Way(k)[2] \in BB
           /\ OnWay(k, Way(k)[1]) /\ OnWay(k, Way(k)[2])
           /\ k = 2 /\ ~IsRecursive => \A x : OnWay(2, x) => ~OnWay(1, x)
<1>1. req \in RequestType
  BY DEF WellFormed
<1>2. req.kind \in {"intra", "call", "ret"} /\ {req.src, req.dst, req.site} \subseteq BB
  BY <1>1 DEF RequestType
<1>3. \A b \in BB : /\ req.fun[b] \in BB /\ req.exit[b] \in BB
                    /\ req.fun[req.fun[b]] = req.fun[b] /\ req.fun[req.exit[b]] = req.fun[b]
  BY DEF WellFormed
<1>4. /\ req.kind = "intra" => req.fun[req.src] = req.fun[req.dst]
      /\ req.kind = "call" => req.fun[req.src] = req.fun[req.site]
      /\ req.kind = "ret" => req.fun[req.site] = req.fun[req.dst]
  BY DEF WellFormed
<1>5. k = 1 \/ (k = 2 /\ req.kind # "intra")
  BY DEF Ways
<1>6. Way(k)[1] \in BB /\ Way(k)[2] \in BB /\ req.fun[Way(k)[1]] = req.fun[Way(k)[2]]
  BY <1>2, <1>3, <1>4, <1>5 DEF Way, Entry
<1>7. ASSUME k = 2, ~IsRecursive, NEW x, OnWay(2, x), OnWay(1, x) PROVE FALSE
  <2>1. req.fun[x] = req.fun[Way(2)[1]] /\ req.fun[x] = req.fun[Way(1)[1]]
    BY <1>7 DEF OnWay, Blocks
  <2>2. req.fun[Way(2)[1]] = req.fun[req.dst] /\ Way(1)[1] = req.src
    BY <1>2, <1>3, <1>4, <1>5, <1>7 DEF Way, Entry
  <2>3. req.fun[req.src] = req.fun[req.dst]
    BY <2>1, <2>2
  <2>4. req.kind # "intra"
    BY <1>5, <1>7
  <2> QED
    BY <1>7, <2>3, <2>4 DEF IsRecursive, Entry
<1> QED
  BY <1>6, <1>7 DEF OnWay, Blocks

\* They are what the reference speaks of.
LEMMA LegsAreWays ==
    ASSUME WellFormed(req)
    PROVE  /\ Legs = {Way(k) : k \in Ways}
           /\ Ways = IF req.kind = "intra" THEN {1} ELSE {1, 2}
<1>1. req.kind \in {"intra", "call", "ret"}
  BY DEF WellFormed, RequestType
<1>2. CASE req.kind = "intra"
  BY <1>2 DEF Legs, Way, Ways
<1>3. CASE req.kind = "call"
  BY <1>3 DEF Legs, Way, Ways
<1>4. CASE req.kind = "ret"
  BY <1>4 DEF Legs, Way, Ways
<1> QED
  BY <1>1, <1>2, <1>3, <1>4 DEF Ways

\* What the way at hand is.
LEMMA AtWay ==
    ASSUME Inv
    PROVE  /\ WellFormed(req) /\ Len(guards) \in Nat /\ Current \in Ways /\ Current \in {1, 2}
           /\ phase # "returned" => Len(guards) + 1 = Current /\ DOMAIN guards = 1 .. Current - 1
           /\ from = Way(Current)[1] /\ to = Way(Current)[2]
           /\ \A b \in BB : getCFCond(bbToCondMap, b) \subseteq Assignments
<1>1. WellFormed(req)
  BY RequestsAssumption DEF Inv, TypeCorrect
<1>2. Len(guards) \in Nat /\ DOMAIN guards = 1 .. Len(guards)
  BY DEF Inv, TypeCorrect
<1>3. Current \in Ways /\ from = Way(Current)[1] /\ to = Way(Current)[2]
  BY DEF Inv, Placed
<1>4. Current \in {1, 2}
  BY <1>3 DEF Ways
<1>5. \A b \in BB : getCFCond(bbToCondMap, b) \subseteq Assignments
  BY DEF Inv, TypeCorrect, getCFCond, FalseCond
<1>6. ASSUME phase # "returned" PROVE Len(guards) + 1 = Current /\ DOMAIN guards = 1 .. Current - 1
  <2>1. Len(guards) + 1 = Current
    BY <1>6 DEF Current
  <2>2. Current - 1 = Len(guards)
    BY <1>2, <2>1
  <2> QED
    BY <1>2, <2>1, <2>2
<1> QED
  BY <1>1, <1>2, <1>3, <1>4, <1>5, <1>6

LEMMA SameFlows ==
    ASSUME req' = req, bbToCondMap' = bbToCondMap
    PROVE  \A b : Flows(b)' = Flows(b)
BY SameGraph, SameConditions DEF Flows, getCFCond, FalseCond

\* No run passes by the block it starts in.
LEMMA CaughtAtOnce ==
    ASSUME WellFormed(req), NEW as, NEW b \in BB
    PROVE  Caught(b, as, b)
<1>1. Goes(as) \in [BB -> SUBSET BB]
  BY RunInReach
<1>2. {} \in SUBSET BB /\ {b} \ {b} \subseteq {} /\ Kept(Goes(as), {b}, {})
  BY DEF Kept
<1>3. Reached(Goes(as), b, {b}) \subseteq {}
  BY <1>1, <1>2, ReachedLeast
<1> QED
  BY <1>3 DEF Caught, Run

\* A return with a condition that covers the way and catches it.
LEMMA ReturnKeeps ==
    ASSUME Inv, NEW cond \in SUBSET Assignments, phase # "returned", Returned(cond),
           UNCHANGED <<req, from, to, bbToCondMap>>,
           ~AfterLoop => \A as \in Assignments : Comes(Current, as) => as \in cond,
           ~AfterLoop /\ Current = 1 => \A b \in BB : Flows(b),
           ~IsRecursive => \A as \in cond : CaughtOnWay(Current, as, Way(Current)[2])
    PROVE  Inv'
<1> USE DEF Inv
<1> DEFINE k == Current
<1>0. req' = req
  OBVIOUS
<1>1. /\ WellFormed(req) /\ k \in Ways /\ k \in {1, 2} /\ Len(guards) + 1 = k
      /\ DOMAIN guards = 1 .. k - 1 /\ from = Way(k)[1] /\ to = Way(k)[2]
  BY AtWay
<1>2. /\ phase' = "returned" /\ worklist' = <<>> /\ guards' = Append(guards, cond)
      /\ DOMAIN guards' = 1 .. k /\ Len(guards') = k /\ guards'[k] = cond
      /\ \A i \in 1 .. k - 1 : guards'[i] = guards[i]
  <2>1. guards \in Seq(SUBSET Assignments) /\ guards' = Append(guards, cond)
    BY DEF Returned, TypeCorrect
  <2>2. /\ Len(guards') = Len(guards) + 1 /\ guards'[Len(guards) + 1] = cond
        /\ \A i \in 1 .. Len(guards) : guards'[i] = guards[i]
        /\ guards' \in Seq(SUBSET Assignments)
    BY <2>1, AppendProperties
  <2> QED
    BY <1>1, <2>1, <2>2 DEF Returned
<1>3. Current' = k
  BY <1>2 DEF Current
<1> HIDE DEF k
<1>4. TypeCorrect'
  <2>1. Assignments' = Assignments
    BY SameConditions
  <2>2. guards' \in Seq(SUBSET Assignments) /\ worklist' \in Seq(BB)
    BY <1>2 DEF TypeCorrect
  <2> QED
    BY <1>2, <2>1, <2>2 DEF TypeCorrect
<1>5. Placed'
  <2>1. Placed
    OBVIOUS
  <2>2. Ways' = Ways /\ \A j : Way(j)' = Way(j)
    BY SameWays
  <2>3. \A j : Blocks(j)' = Blocks(j)
    BY SameGraph
  <2>4. \A j \in Ways : Current = 1 => DOMAIN bbToCondMap \subseteq Blocks(Way(1)[1])
    BY <2>1 DEF Placed
  <2>5. Blocks(Way(1)[1])' = Blocks(Way(1)[1])
    BY <2>2 DEF Blocks
  <2> QED
    BY <1>1, <1>2, <1>3, <2>2, <2>4, <2>5 DEF Placed, k
<1>6. ASSUME ~AfterLoop' PROVE HandedOn' /\ GuardsCover'
  <2>1. ~AfterLoop /\ GuardsCover
    BY <1>6, SameWays
  <2>2. \A b : Flows(b)' = Flows(b)
    BY SameFlows
  <2>3. HandedOn'
    BY <1>2, <1>3, <2>1, <2>2 DEF HandedOn, k
  <2>4. GuardsCover'
    <3> SUFFICES ASSUME NEW i \in 1 .. k, NEW as \in Assignments, Comes(i, as) PROVE as \in guards'[i]
      BY <1>2, SameConditions, SameWays DEF GuardsCover
    <3>1. CASE i = k
      BY <1>2, <2>1, <3>1 DEF k
    <3>2. CASE i # k
      <4>1. i \in 1 .. k - 1
        BY <1>1, <3>2
      <4> QED
        BY <1>1, <1>2, <2>1, <4>1 DEF GuardsCover
    <3> QED
      BY <3>1, <3>2
  <2> QED
    BY <2>3, <2>4
<1>7. ASSUME ~IsRecursive' PROVE MapCatches' /\ GuardsCatch'
  <2>1. ~IsRecursive /\ GuardsCatch
    BY <1>7, SameWays
  <2>2. MapCatches'
    BY <1>2 DEF MapCatches
  <2>3. GuardsCatch'
    <3> SUFFICES ASSUME NEW i \in 1 .. k, NEW as \in guards'[i], NEW x \in BB, x = Way(i)[2]
                 PROVE  CaughtOnWay(i, as, x)
      <4>1. \A i : Way(i)' = Way(i)
        BY SameWays
      <4>2. \A i, as, x : CaughtOnWay(i, as, x)' = CaughtOnWay(i, as, x)
        BY SameWays
      <4> QED
        BY <1>2, <4>1, <4>2 DEF GuardsCatch
    <3>1. CASE i = k
      BY <1>2, <2>1, <3>1 DEF k
    <3>2. CASE i # k
      <4>1. i \in 1 .. k - 1
        BY <1>1, <3>2
      <4> QED
        BY <1>1, <1>2, <2>1, <4>1 DEF GuardsCatch
    <3> QED
      BY <3>1, <3>2
  <2> QED
    BY <2>2, <2>3
<1> QED
  BY <1>4, <1>5, <1>6, <1>7
LEMMA InitKeeps ==
    ASSUME Init
    PROVE  Inv
<1>1. WellFormed(req) /\ req \in Requests
  BY RequestsAssumption DEF Init
<1>2. req.kind \in {"intra", "call", "ret"} /\ 1 \in Ways
  BY <1>1 DEF WellFormed, RequestType, Ways
<1>3. from = Way(1)[1] /\ to = Way(1)[2]
  BY <1>2 DEF Init, Way
<1>4. Current = 1 /\ DOMAIN guards = {} /\ DOMAIN bbToCondMap = {} /\ phase = "begin"
      /\ worklist = <<>> /\ guards = <<>>
  BY DEF Init, Current
<1>5. from \in BB /\ to \in BB
  BY <1>1, <1>2, <1>3, WaysType
<1>6. TypeCorrect
  BY <1>1, <1>4, <1>5 DEF TypeCorrect
<1>7. Placed
  BY <1>2, <1>3, <1>4 DEF Placed
<1>8. HandedOn /\ GuardsCover
  BY <1>4 DEF HandedOn, GuardsCover, Flows, getCFCond, FalseCond
<1>9. MapCatches /\ GuardsCatch
  BY <1>4 DEF MapCatches, GuardsCatch
<1> QED
  BY <1>6, <1>7, <1>8, <1>9 DEF Inv

LEMMA BeginKeeps ==
    ASSUME Inv, BeginIntra
    PROVE  Inv'
<1> DEFINE k == Current
<1>0. phase = "begin" /\ req' = req /\ from' = from /\ to' = to
  BY DEF BeginIntra
<1>1. /\ WellFormed(req) /\ k \in Ways /\ k \in {1, 2} /\ Len(guards) + 1 = k
      /\ from = Way(k)[1] /\ to = Way(k)[2] /\ from \in BB
      /\ \A b \in BB : getCFCond(bbToCondMap, b) \subseteq Assignments
  BY <1>0, AtWay DEF Inv, TypeCorrect
<1>2. k = 1 => DOMAIN bbToCondMap = {}
  BY <1>0 DEF Inv, Placed
<1>3. CASE PostDominates(to, from)
  <2>1. Returned(TrueCond) /\ UNCHANGED <<req, from, to, bbToCondMap>> /\ TrueCond \in SUBSET Assignments
    BY <1>3 DEF BeginIntra, TrueCond
  <2>2. ~AfterLoop => \A as \in Assignments : Comes(Current, as) => as \in TrueCond
    BY DEF TrueCond
  <2>3. Current = 1 => \A b \in BB : Flows(b)
    BY <1>2 DEF Flows, getCFCond, FalseCond
  <2>4. \A as \in TrueCond : CaughtOnWay(Current, as, Way(Current)[2])
    BY <1>1, <1>3, CaughtByPostDominator DEF CaughtOnWay
  <2> QED
    BY <1>0, <2>1, <2>2, <2>3, <2>4, ReturnKeeps
<1>4. CASE ~PostDominates(to, from)
  <2>1. /\ phase' = "work" /\ worklist' = <<from>> /\ guards' = guards
        /\ bbToCondMap' = [d \in DOMAIN bbToCondMap \cup {from} |-> IF d = from THEN Assignments ELSE bbToCondMap[d]]
    BY <1>4 DEF BeginIntra, setCFCond, TrueCond
  <2>2. Current' = k
    BY <1>0, <2>1 DEF Current
  <2>3. DOMAIN bbToCondMap' = DOMAIN bbToCondMap \cup {from}
    BY <2>1
  <2>4. Ways' = Ways /\ (\A j : Way(j)' = Way(j)) /\ Assignments' = Assignments
    BY <1>0, SameWays, SameConditions
  <2>5. ToSet(worklist') = {from}
    BY <2>1 DEF ToSet
  <2> HIDE DEF k
  <2>6. TypeCorrect'
    <3>1. bbToCondMap' \in [DOMAIN bbToCondMap' -> SUBSET Assignments]
      BY <2>1 DEF Inv, TypeCorrect
    <3>2. worklist' \in Seq(BB) /\ DOMAIN bbToCondMap' \subseteq BB
      BY <1>1, <2>1, <2>3 DEF Inv, TypeCorrect
    <3> QED
      BY <1>0, <2>1, <2>4, <3>1, <3>2 DEF Inv, TypeCorrect
  <2>7. Placed'
    <3>1. \A j : Blocks(Way(j)[1])' = Blocks(Way(j)[1])
      BY <1>0, <2>4 DEF Blocks
    <3>2. from \in Blocks(Way(k)[1])
      BY <1>1 DEF Blocks
    <3>3. k = 1 => DOMAIN bbToCondMap' \subseteq Blocks(Way(1)[1])
      BY <1>2, <2>3, <3>2 DEF k
    <3> QED
      BY <1>0, <1>1, <2>1, <2>2, <2>4, <2>5, <3>1, <3>2, <3>3 DEF Placed, k
  <2>8. ASSUME ~AfterLoop' PROVE HandedOn' /\ GuardsCover'
    <3>1. HandedOn /\ GuardsCover
      BY <1>0, <2>8, SameWays DEF Inv
    <3>2. GuardsCover'
      BY <1>0, <2>1, <2>4, <3>1, SameWays DEF GuardsCover
    <3>3. /\ \A b \in BB \ {from} : getCFCond(bbToCondMap', b) = getCFCond(bbToCondMap, b)
          /\ getCFCond(bbToCondMap', from) = Assignments
      BY <2>1, <2>3 DEF getCFCond
    <3>4. \A b \in BB : getCFCond(bbToCondMap, b) \subseteq getCFCond(bbToCondMap', b)
      BY <1>1, <3>3
    <3>5. ASSUME NEW b \in BB, b # from PROVE Flows(b)'
      <4>1. Flows(b)
        BY <1>0, <3>1, <3>5 DEF HandedOn
      <4>2. ASSUME NEW s \in Succ(b)
            PROVE  getCFCond(bbToCondMap', b) \cap FlowCond(b, s) \subseteq getCFCond(bbToCondMap', s)
        <5>1. s \in BB
          BY <1>1, SuccsType
        <5> QED
          BY <3>3, <3>4, <3>5, <4>1, <5>1 DEF Flows
      <4>3. Succ(b)' = Succ(b) /\ \A s : FlowCond(b, s)' = FlowCond(b, s)
        BY <1>0, SameGraph, SameConditions
      <4> QED
        BY <4>2, <4>3 DEF Flows, getCFCond, FalseCond
    <3>6. HandedOn'
      BY <1>0, <2>1, <2>4, <2>5, <3>3, <3>5 DEF HandedOn, getCFCond, FalseCond
    <3> QED
      BY <3>2, <3>6
  <2>9. ASSUME ~IsRecursive' PROVE MapCatches' /\ GuardsCatch'
    <3>1. MapCatches /\ GuardsCatch
      BY <1>0, <2>9, SameWays DEF Inv
    <3>2. GuardsCatch'
      <4>1. \A i, as, x : CaughtOnWay(i, as, x)' = CaughtOnWay(i, as, x)
        BY <1>0, SameWays
      <4> QED
        BY <2>1, <2>4, <3>1, <4>1 DEF GuardsCatch
    <3>3. \A x \in DOMAIN bbToCondMap' : OnWay(k, x) => x = from
      BY <1>0, <1>1, <2>3, <3>1 DEF MapCatches, k
    <3>4. \A as : CaughtOnWay(k, as, from)
      BY <1>1, CaughtAtOnce DEF CaughtOnWay
    <3>5. ASSUME NEW x \in DOMAIN bbToCondMap', OnWay(k, x), NEW as \in bbToCondMap'[x] PROVE CaughtOnWay(k, as, x)
      BY <3>3, <3>4, <3>5
    <3>6. /\ \A j, x : OnWay(j, x)' = OnWay(j, x)
          /\ \A j, as, x : CaughtOnWay(j, as, x)' = CaughtOnWay(j, as, x)
      BY <1>0, SameWays
    <3>7. MapCatches'
      BY <2>1, <2>2, <3>5, <3>6 DEF MapCatches
    <3> QED
      BY <3>2, <3>7
  <2> QED
    BY <2>6, <2>7, <2>8, <2>9 DEF Inv
<1> QED
  BY <1>3, <1>4

LEMMA EndKeeps ==
    ASSUME Inv, EndIntra
    PROVE  Inv'
<1> DEFINE k == Current
           cond == getCFCond(bbToCondMap, to)
<1>1. phase = "work" /\ worklist = <<>> /\ Returned(cond) /\ UNCHANGED <<req, from, to, bbToCondMap>>
  BY DEF EndIntra
<1>2. /\ WellFormed(req) /\ k \in Ways /\ from = Way(k)[1] /\ to = Way(k)[2] /\ from \in BB /\ to \in BB
      /\ cond \in SUBSET Assignments
  BY AtWay DEF Inv, TypeCorrect
<1>3. ASSUME ~AfterLoop PROVE \A b \in BB : Flows(b)
  <2>1. ToSet(worklist) = {}
    BY <1>1 DEF ToSet
  <2> QED
    BY <1>1, <1>3, <2>1 DEF Inv, HandedOn
<1>4. ASSUME ~AfterLoop, NEW as \in Assignments, Comes(k, as) PROVE as \in cond
  <2> DEFINE S == {b \in BB : as \in getCFCond(bbToCondMap, b)}
  <2>1. S \in SUBSET BB /\ {from} \ {} \subseteq S
    BY <1>1, <1>2, <1>4 DEF Inv, HandedOn
  <2>2. Kept(Goes(as), {}, S)
    <3> SUFFICES ASSUME NEW d \in S, NEW s \in Goes(as)[d] PROVE s \in S
      BY DEF Kept
    <3>1. d \in BB /\ s \in Succ(d) /\ as \in TestedCond(d, s)
      BY DEF Goes
    <3>2. s \in BB
      BY <1>2, <3>1, SuccsType
    <3>3. as \in FlowCond(d, s)
      BY <1>4, <3>1, TestedFlows
    <3> QED
      BY <1>3, <1>4, <3>1, <3>2, <3>3 DEF Flows
  <2>3. Goes(as) \in [BB -> SUBSET BB]
    BY <1>2, RunInReach
  <2> DEFINE next == Goes(as)
  <2> HIDE DEF S, next
  <2>4. Reached(next, from, {}) \subseteq S
    <3>1. next \in [BB -> SUBSET BB] /\ Kept(next, {}, S)
      BY <2>2, <2>3 DEF next
    <3>2. from \in BB
      BY <1>2
    <3> QED
      BY <2>1, <3>1, <3>2, ReachedLeast
  <2>5. to \in S
    BY <1>2, <1>4, <2>4 DEF Comes, Run, next
  <2> QED
    BY <2>5 DEF S
<1>5. ASSUME ~IsRecursive, NEW as \in cond PROVE CaughtOnWay(k, as, Way(k)[2])
  <2>1. to \in DOMAIN bbToCondMap /\ as \in bbToCondMap[to]
    BY <1>5 DEF getCFCond, FalseCond
  <2>2. OnWay(k, to)
    BY <1>2, WaysType
  <2> QED
    BY <1>1, <1>2, <1>5, <2>1, <2>2 DEF Inv, MapCatches
<1> QED
  BY <1>1, <1>2, <1>3, <1>4, <1>5, ReturnKeeps

LEMMA HeadAndTail ==
    ASSUME NEW q \in Seq(BB), q # <<>>
    PROVE  Head(q) \in BB /\ Tail(q) \in Seq(BB) /\ ToSet(q) = {Head(q)} \cup ToSet(Tail(q))
<1> DEFINE t == Tail(q)
<1>1. Head(q) \in BB /\ t \in Seq(BB) /\ Len(t) = Len(q) - 1 /\ Head(q) = q[1]
  BY HeadTailProperties
<1>2. Len(q) \in Nat /\ Len(q) >= 1
  BY EmptySeq
<1>3. \A i \in 1 .. Len(t) : t[i] = q[i + 1] /\ i + 1 \in 1 .. Len(q)
  BY <1>1, <1>2, HeadTailProperties
<1>4. DOMAIN q = 1 .. Len(q) /\ DOMAIN t = 1 .. Len(t)
  BY <1>1
<1> HIDE DEF t
<1>5. ASSUME NEW i \in 1 .. Len(q) PROVE q[i] \in {Head(q)} \cup ToSet(t)
  <2>1. CASE i = 1
    BY <1>1, <2>1
  <2>2. CASE i # 1
    <3>1. i - 1 \in 1 .. Len(t) /\ (i - 1) + 1 = i
      BY <1>1, <1>2, <2>2
    <3>2. t[i - 1] = q[i]
      BY <1>3, <3>1
    <3> QED
      BY <1>4, <3>1, <3>2 DEF ToSet
  <2> QED
    BY <2>1, <2>2
<1>6. \A i \in 1 .. Len(t) : t[i] \in ToSet(q)
  BY <1>3, <1>4 DEF ToSet
<1>7. q[1] \in ToSet(q)
  BY <1>2, <1>4 DEF ToSet
<1> QED
  BY <1>1, <1>4, <1>5, <1>6, <1>7 DEF ToSet, t

\* The block the computation is at.
LEMMA AtHead ==
    ASSUME Inv, phase = "work", worklist # <<>>
    PROVE  /\ Head(worklist) \in BB /\ Tail(worklist) \in Seq(BB)
           /\ ToSet(worklist) = {Head(worklist)} \cup ToSet(Tail(worklist))
           /\ OnWay(Current, Head(worklist)) /\ ToSet(worklist) \subseteq Blocks(Way(Current)[1])
<1>1. worklist \in Seq(BB)
  BY DEF Inv, TypeCorrect
<1>2. /\ Head(worklist) \in BB /\ Tail(worklist) \in Seq(BB)
      /\ ToSet(worklist) = {Head(worklist)} \cup ToSet(Tail(worklist))
  BY <1>1, HeadAndTail
<1>5. ToSet(worklist) \subseteq Blocks(Way(Current)[1])
  BY DEF Inv, Placed
<1> QED
  BY <1>2, <1>5 DEF OnWay

LEMMA EarlyKeeps ==
    ASSUME Inv, EarlyTermination
    PROVE  Inv'
<1> DEFINE k == Current
           h == Head(worklist)
           cond == getCFCond(bbToCondMap, h)
<1>1. /\ phase = "work" /\ worklist # <<>> /\ Returned(cond) /\ UNCHANGED <<req, from, to, bbToCondMap>>
      /\ EligibleLoopExit(h, to)
  BY DEF EarlyTermination
<1>2. h \in BB /\ OnWay(k, h)
  BY <1>1, AtHead
<1>3. /\ WellFormed(req) /\ k \in Ways /\ from = Way(k)[1] /\ to = Way(k)[2] /\ from \in BB /\ to \in BB
      /\ cond \in SUBSET Assignments
  BY <1>2, AtWay DEF Inv, TypeCorrect
<1>4. AfterLoop
  <2>1. Way(k) \in Legs
    BY <1>3, LegsAreWays
  <2>2. h \in Blocks(Way(k)[2])
    BY <1>2, <1>3, WaysType DEF OnWay, Blocks
  <2> QED
    BY <1>1, <1>3, <2>1, <2>2 DEF AfterLoop
<1>5. ASSUME ~IsRecursive, NEW as \in cond PROVE CaughtOnWay(k, as, Way(k)[2])
  <2>1. h \in DOMAIN bbToCondMap /\ as \in bbToCondMap[h]
    BY <1>5 DEF getCFCond, FalseCond
  <2>2. CaughtOnWay(k, as, h)
    BY <1>1, <1>2, <1>3, <1>5, <2>1 DEF Inv, MapCatches
  <2>3. Caught(h, as, to)
    BY <1>1, <1>2, <1>3, CaughtAfterLoop
  <2> QED
    BY <1>2, <1>3, <2>2, <2>3, CaughtFurther DEF CaughtOnWay
<1> QED
  BY <1>1, <1>3, <1>4, <1>5, ReturnKeeps
\* What an iteration does to the conditions.
LEMMA Visited ==
    ASSUME Inv, VisitBlock
    PROVE  /\ phase = "work" /\ worklist # <<>> /\ UNCHANGED <<req, phase, from, to, guards>>
           /\ DOMAIN bbToCondMap' = DOMAIN bbToCondMap \cup Succ(Head(worklist))
           /\ \A d \in BB : getCFCond(bbToCondMap', d)
                               = IF d \in Succ(Head(worklist)) THEN NewCond(Head(worklist), d)
                                 ELSE getCFCond(bbToCondMap, d)
           /\ bbToCondMap' \in [DOMAIN bbToCondMap' -> SUBSET Assignments]
           /\ worklist' \in Seq(BB) /\ ToSet(Tail(worklist)) \subseteq ToSet(worklist')
           /\ ToSet(worklist') \subseteq ToSet(worklist) \cup Succ(Head(worklist))
           /\ \A d \in BB \ ToSet(worklist') : getCFCond(bbToCondMap', d) = getCFCond(bbToCondMap, d)
<1> DEFINE b == Head(worklist)
           new == [s \in Succ(b) |-> NewCond(b, s)]
           skip == {s \in Succ(b) : ~Changed(s, new[s])}
<1>1. /\ phase = "work" /\ worklist # <<>> /\ UNCHANGED <<req, phase, from, to, guards>>
      /\ bbToCondMap' = [d \in DOMAIN bbToCondMap \cup Succ(b) |-> IF d \in Succ(b) THEN new[d] ELSE bbToCondMap[d]]
      /\ worklist' = Pushed(Tail(worklist), req.succs[b], skip)
  BY DEF VisitBlock
<1>2. /\ b \in BB /\ Tail(worklist) \in Seq(BB) /\ ToSet(Tail(worklist)) \subseteq ToSet(worklist)
      /\ WellFormed(req) /\ req.succs[b] \in Seq(BB) /\ Succ(b) \subseteq BB
  BY <1>1, AtHead, AtWay, SuccsType
<1>3. \A d \in BB : getCFCond(bbToCondMap, d) \subseteq Assignments
  BY AtWay
<1> HIDE DEF b
<1>4. DOMAIN bbToCondMap' = DOMAIN bbToCondMap \cup Succ(b)
  BY <1>1
<1>5. ASSUME NEW d \in BB
      PROVE  getCFCond(bbToCondMap', d) = IF d \in Succ(b) THEN NewCond(b, d) ELSE getCFCond(bbToCondMap, d)
  BY <1>1, <1>4 DEF getCFCond
<1>6. \A d \in Succ(b) : NewCond(b, d) \subseteq Assignments
  BY <1>2, <1>3 DEF NewCond
<1>7. bbToCondMap' \in [DOMAIN bbToCondMap' -> SUBSET Assignments]
  BY <1>1, <1>6 DEF Inv, TypeCorrect
<1>8. /\ worklist' \in Seq(BB)
      /\ ToSet(Tail(worklist)) \cup (Succ(b) \ skip) \subseteq ToSet(worklist')
      /\ ToSet(worklist') \subseteq ToSet(Tail(worklist)) \cup Succ(b)
  <2> HIDE DEF skip
  <2>1. ToSet(req.succs[b]) = Succ(b)
    BY DEF Succ
  <2> QED
    BY <1>1, <1>2, <2>1, PushedIs
<1>9. ASSUME NEW d \in BB \ ToSet(worklist') PROVE getCFCond(bbToCondMap', d) = getCFCond(bbToCondMap, d)
  <2>1. CASE d \in Succ(b)
    <3>1. ~Changed(d, NewCond(b, d))
      BY <1>8, <2>1
    <3> QED
      BY <1>5, <2>1, <3>1 DEF Changed, getCFCond
  <2>2. CASE d \notin Succ(b)
    BY <1>5, <2>2
  <2> QED
    BY <2>1, <2>2
<1> QED
  BY <1>1, <1>2, <1>4, <1>5, <1>7, <1>8, <1>9 DEF b

LEMMA VisitKeeps ==
    ASSUME Inv, VisitBlock
    PROVE  Inv'
<1> DEFINE k == Current
           b == Head(worklist)
           old(d) == getCFCond(bbToCondMap, d)
           now(d) == getCFCond(bbToCondMap', d)
<1>1. /\ phase = "work" /\ worklist # <<>> /\ UNCHANGED <<req, phase, from, to, guards>>
      /\ DOMAIN bbToCondMap' = DOMAIN bbToCondMap \cup Succ(b)
      /\ bbToCondMap' \in [DOMAIN bbToCondMap' -> SUBSET Assignments]
      /\ worklist' \in Seq(BB) /\ ToSet(Tail(worklist)) \subseteq ToSet(worklist')
      /\ ToSet(worklist') \subseteq ToSet(worklist) \cup Succ(b)
  BY Visited
<1>2. \A d \in BB : now(d) = IF d \in Succ(b) THEN old(d) \cup (old(b) \cap FlowCond(b, d)) ELSE old(d)
  BY Visited DEF NewCond
<1>3. \A d \in BB \ ToSet(worklist') : now(d) = old(d)
  BY Visited
<1>4. /\ WellFormed(req) /\ k \in Ways /\ from = Way(k)[1] /\ from \in BB /\ Way(k)[1] \in BB
      /\ b \in BB /\ OnWay(k, b) /\ Succ(b) \subseteq BB /\ Succ(b) \subseteq Blocks(b)
      /\ ToSet(worklist) = {b} \cup ToSet(Tail(worklist)) /\ ToSet(worklist) \subseteq Blocks(Way(k)[1])
  BY <1>1, AtWay, AtHead, SuccsType DEF Inv, TypeCorrect
<1>5. Current' = k
  BY <1>1 DEF Current
<1>6. Ways' = Ways /\ (\A j : Way(j)' = Way(j)) /\ Assignments' = Assignments
  BY <1>1, SameWays, SameConditions
<1>7. \A s \in Succ(b) : OnWay(k, s)
  BY <1>4 DEF OnWay, Blocks
<1> HIDE DEF k, b
<1>8. TypeCorrect'
  BY <1>1, <1>4, <1>6 DEF Inv, TypeCorrect
<1>9. Placed'
  <2>1. \A j : Blocks(Way(j)[1])' = Blocks(Way(j)[1])
    BY <1>1, <1>6 DEF Blocks
  <2>2. ToSet(worklist') \subseteq Blocks(Way(k)[1])
    BY <1>1, <1>4, <1>7 DEF OnWay
  <2>3. ASSUME k = 1 PROVE DOMAIN bbToCondMap' \subseteq Blocks(Way(1)[1])
    BY <1>1, <1>4, <1>7, <2>3 DEF Inv, Placed, OnWay, k
  <2>4. Placed
    BY DEF Inv
  <2> QED
    BY <1>1, <1>4, <1>5, <1>6, <2>1, <2>2, <2>3, <2>4 DEF Placed, k
<1>10. ASSUME ~AfterLoop' PROVE HandedOn' /\ GuardsCover'
  <2>1. HandedOn /\ GuardsCover
    BY <1>1, <1>10, SameWays DEF Inv
  <2>2. GuardsCover'
    <3>1. \A j, as : Comes(j, as)' = Comes(j, as)
      BY <1>1, SameWays
    <3> QED
      BY <1>1, <1>6, <2>1, <3>1 DEF GuardsCover
  <2>3. \A d \in BB : old(d) \subseteq now(d)
    BY <1>2
  <2> HIDE DEF old, now
  <2>4. ASSUME NEW d \in BB, d \notin ToSet(worklist'), NEW s \in Succ(d)
        PROVE  now(d) \cap FlowCond(d, s) \subseteq now(s)
    <3>1. s \in BB /\ now(d) = old(d)
      BY <1>3, <1>4, <2>4, SuccsType
    <3>2. CASE d = b
      BY <1>2, <2>4, <3>1, <3>2
    <3>3. CASE d # b
      <4>1. d \notin ToSet(worklist)
        BY <1>1, <1>4, <2>4, <3>3
      <4>2. Flows(d)
        BY <1>1, <2>1, <4>1 DEF HandedOn
      <4>3. old(d) \cap FlowCond(d, s) \subseteq old(s)
        BY <4>2 DEF Flows, old
      <4> QED
        BY <2>3, <3>1, <4>3
    <3> QED
      BY <3>2, <3>3
  <2>5. ASSUME NEW d \in BB, d \notin ToSet(worklist') PROVE Flows(d)'
    <3>1. Succ(d)' = Succ(d) /\ \A s : FlowCond(d, s)' = FlowCond(d, s)
      BY <1>1, SameGraph, SameConditions
    <3> QED
      BY <2>4, <2>5, <3>1 DEF Flows, now, getCFCond, FalseCond
  <2>6. Assignments \subseteq now(from)
    BY <1>1, <1>4, <2>1, <2>3 DEF HandedOn, old
  <2>7. HandedOn'
    BY <1>1, <1>6, <2>5, <2>6 DEF HandedOn, now, getCFCond, FalseCond
  <2> QED
    BY <2>2, <2>7
<1>11. ASSUME ~IsRecursive' PROVE MapCatches' /\ GuardsCatch'
  <2>1. MapCatches /\ GuardsCatch
    BY <1>1, <1>11, SameWays DEF Inv
  <2>2. \A j, as, x : CaughtOnWay(j, as, x)' = CaughtOnWay(j, as, x)
    BY <1>1, SameWays
  <2>3. \A j, x : OnWay(j, x)' = OnWay(j, x)
    BY <1>1, SameWays
  <2>4. GuardsCatch'
    BY <1>1, <1>6, <2>1, <2>2 DEF GuardsCatch
  <2>5. ASSUME NEW x \in BB, OnWay(k, x), NEW as \in old(x) PROVE CaughtOnWay(k, as, x)
    <3>1. x \in DOMAIN bbToCondMap /\ as \in bbToCondMap[x]
      BY <2>5 DEF getCFCond, FalseCond
    <3> QED
      BY <1>1, <1>4, <2>1, <2>5, <3>1 DEF MapCatches, k
  <2>6. ASSUME NEW x \in DOMAIN bbToCondMap', OnWay(k, x), NEW as \in bbToCondMap'[x] PROVE CaughtOnWay(k, as, x)
    <3>1. x \in BB /\ as \in now(x)
      BY <1>8, <2>6 DEF TypeCorrect, getCFCond
    <3>2. CASE as \in old(x)
      BY <2>5, <2>6, <3>1, <3>2
    <3>3. CASE as \notin old(x)
      <4>1. x \in Succ(b) /\ as \in old(b) /\ as \in FlowCond(b, x)
        BY <1>2, <3>1, <3>3
      <4>2. CaughtOnWay(k, as, b)
        BY <1>4, <2>5, <4>1
      <4>3. Caught(b, as, x)
        BY <1>4, <4>1, CaughtOn
      <4> QED
        BY <1>4, <4>2, <4>3, CaughtFurther DEF CaughtOnWay
    <3> QED
      BY <3>2, <3>3
  <2>7. MapCatches'
    BY <1>1, <1>5, <2>2, <2>3, <2>6 DEF MapCatches
  <2> QED
    BY <2>4, <2>7
<1> QED
  BY <1>8, <1>9, <1>10, <1>11 DEF Inv

LEMMA CrossKeeps ==
    ASSUME Inv, Cross
    PROVE  Inv'
<1>1. /\ phase = "returned" /\ req.kind # "intra" /\ Len(guards) = 1 /\ phase' = "begin"
      /\ req' = req /\ worklist' = worklist /\ guards' = guards
      /\ from' = Way(2)[1] /\ to' = Way(2)[2]
      /\ bbToCondMap' = setCFCond(bbToCondMap, from', getCFCond(bbToCondMap, from') \cup getCFCond(bbToCondMap, to))
  BY DEF Cross, Way
<1>2. WellFormed(req) /\ 2 \in Ways /\ 1 \in Ways /\ Current = 1
  BY <1>1, AtWay DEF Ways, Current
<1>3. Current' = 2
  <2>1. Len(guards') = 1 /\ phase' # "returned"
    BY <1>1
  <2> QED
    BY <2>1 DEF Current
<1>4. PICK f \in BB : f = from'
  BY <1>1, <1>2, WaysType
<1>5. /\ bbToCondMap' = [d \in DOMAIN bbToCondMap \cup {f} |->
                            IF d = f THEN getCFCond(bbToCondMap, f) \cup getCFCond(bbToCondMap, to) ELSE bbToCondMap[d]]
      /\ DOMAIN bbToCondMap' = DOMAIN bbToCondMap \cup {f}
  BY <1>1, <1>4 DEF setCFCond
<1>6. Ways' = Ways /\ (\A j : Way(j)' = Way(j)) /\ Assignments' = Assignments
  BY <1>1, SameWays, SameConditions
<1>7. getCFCond(bbToCondMap, f) \subseteq Assignments /\ getCFCond(bbToCondMap, to) \subseteq Assignments
  BY AtWay DEF Inv, TypeCorrect
<1>8. TypeCorrect'
  <2>1. to' \in BB
    BY <1>1, <1>2, WaysType
  <2>2. bbToCondMap' \in [DOMAIN bbToCondMap' -> SUBSET Assignments]
    BY <1>5, <1>7 DEF Inv, TypeCorrect
  <2> QED
    BY <1>1, <1>4, <1>5, <1>6, <2>1, <2>2 DEF Inv, TypeCorrect
<1>9. Placed'
  BY <1>1, <1>2, <1>3, <1>6 DEF Placed
<1>10. ASSUME ~AfterLoop' PROVE HandedOn' /\ GuardsCover'
  <2>1. HandedOn /\ GuardsCover
    BY <1>1, <1>10, SameWays DEF Inv
  <2>2. GuardsCover'
    <3>1. \A j, as : Comes(j, as)' = Comes(j, as)
      BY <1>1, SameWays
    <3> QED
      BY <1>1, <1>6, <2>1, <3>1 DEF GuardsCover
  <2>3. /\ \A d \in BB \ {f} : getCFCond(bbToCondMap', d) = getCFCond(bbToCondMap, d)
        /\ \A d \in BB : getCFCond(bbToCondMap, d) \subseteq getCFCond(bbToCondMap', d)
    BY <1>5 DEF getCFCond, FalseCond
  <2>4. ASSUME NEW d \in BB, d # f PROVE Flows(d)'
    <3>1. Flows(d)
      BY <1>1, <1>2, <2>1 DEF HandedOn
    <3>2. ASSUME NEW s \in Succ(d)
          PROVE  getCFCond(bbToCondMap', d) \cap FlowCond(d, s) \subseteq getCFCond(bbToCondMap', s)
      <4>1. s \in BB
        BY <1>2, SuccsType
      <4> QED
        BY <2>3, <2>4, <3>1, <4>1 DEF Flows
    <3>3. Succ(d)' = Succ(d) /\ \A s : FlowCond(d, s)' = FlowCond(d, s)
      BY <1>1, SameGraph, SameConditions
    <3> QED
      BY <3>2, <3>3 DEF Flows, getCFCond, FalseCond
  <2>5. HandedOn'
    BY <1>1, <1>4, <2>4 DEF HandedOn
  <2> QED
    BY <2>2, <2>5
<1>11. ASSUME ~IsRecursive' PROVE MapCatches' /\ GuardsCatch'
  <2>1. ~IsRecursive /\ GuardsCatch
    BY <1>1, <1>11, SameWays DEF Inv
  <2>2. \A j, as, x : CaughtOnWay(j, as, x)' = CaughtOnWay(j, as, x)
    BY <1>1, SameWays
  <2>3. \A j, x : OnWay(j, x)' = OnWay(j, x)
    BY <1>1, SameWays
  <2>4. GuardsCatch'
    BY <1>1, <1>6, <2>1, <2>2 DEF GuardsCatch
  <2>5. ASSUME NEW x \in DOMAIN bbToCondMap', OnWay(2, x) PROVE x = from'
    <3>1. ~OnWay(1, x)
      BY <1>2, <2>1, <2>5, WaysType
    <3>2. x \notin DOMAIN bbToCondMap
      BY <1>2, <3>1 DEF Inv, Placed, OnWay
    <3> QED
      BY <1>4, <1>5, <3>2
  <2>6. MapCatches'
    BY <1>1, <1>3, <2>3, <2>5 DEF MapCatches
  <2> QED
    BY <2>4, <2>6
<1> QED
  BY <1>8, <1>9, <1>10, <1>11 DEF Inv
-----------------------------------------------------------------------------
(* The properties.                                                         *)

\* Whatever the order of the worklist, the computation keeps to the way it is
\* at, and the conditions of the blocks are what they are meant to be.
THEOREM InvHolds == Spec => []Inv
<1>1. ASSUME Inv, [Next]_vars PROVE Inv'
  <2>1. CASE Step
    BY <1>1, <2>1, BeginKeeps, EarlyKeeps, VisitKeeps, EndKeeps, CrossKeeps DEF Step
  <2>2. CASE UNCHANGED vars
    <3>1. req' = req /\ bbToCondMap' = bbToCondMap /\ phase' = phase /\ from' = from /\ to' = to
          /\ worklist' = worklist /\ guards' = guards
      BY <2>2 DEF vars
    <3>2. Assignments' = Assignments /\ Ways' = Ways /\ AfterLoop' = AfterLoop /\ IsRecursive' = IsRecursive
      BY <3>1, SameConditions, SameWays
    <3>3. \A j : Way(j)' = Way(j) /\ Blocks(Way(j)[1])' = Blocks(Way(j)[1])
      BY <3>1, SameWays DEF Blocks
    <3>4. Current' = Current
      BY <3>1 DEF Current
    <3>5. TypeCorrect' <=> TypeCorrect
      BY <3>1, <3>2 DEF TypeCorrect
    <3>6. Placed' <=> Placed
      BY <3>1, <3>2, <3>3, <3>4 DEF Placed
    <3>7. \A b : Flows(b)' = Flows(b)
      BY <3>1, SameFlows
    <3>8. HandedOn' <=> HandedOn
      BY <3>1, <3>2, <3>4, <3>7 DEF HandedOn, getCFCond, FalseCond
    <3>9. GuardsCover' <=> GuardsCover
      BY <3>1, <3>2, SameWays DEF GuardsCover
    <3>10. \A j, as, x : CaughtOnWay(j, as, x)' = CaughtOnWay(j, as, x)
      BY <3>1, SameWays
    <3>11. \A j, x : OnWay(j, x)' = OnWay(j, x)
      BY <3>1, SameWays
    <3>12. MapCatches' <=> MapCatches
      BY <3>1, <3>2, <3>4, <3>10, <3>11 DEF MapCatches
    <3>13. GuardsCatch' <=> GuardsCatch
      BY <3>1, <3>3, <3>10 DEF GuardsCatch
    <3> QED
      BY <1>1, <3>2, <3>5, <3>6, <3>8, <3>9, <3>12, <3>13 DEF Inv
  <2> QED
    BY <1>1, <2>1, <2>2 DEF Next
<1> QED
  BY <1>1, InitKeeps, PTL DEF Spec

\* A finished request has a guard for each of its ways.
LEMMA DoneGuards ==
    ASSUME Inv, Done
    PROVE  /\ WellFormed(req) /\ Legs = {Way(k) : k \in DOMAIN guards} /\ DOMAIN guards = Ways
           /\ Guard \subseteq Assignments
           /\ \A as \in Assignments : as \in Guard <=> \A k \in DOMAIN guards : as \in guards[k]
<1>1. /\ WellFormed(req) /\ Legs = {Way(k) : k \in Ways}
      /\ Ways = IF req.kind = "intra" THEN {1} ELSE {1, 2}
  BY AtWay, LegsAreWays
<1>2. phase = "returned" /\ guards \in Seq(SUBSET Assignments) /\ Len(guards) \in Ways
  BY AtWay DEF Done, Inv, TypeCorrect, Placed, Current
<1>3. CASE req.kind = "intra"
  <2>1. Len(guards) = 1
    BY <1>1, <1>2, <1>3
  <2>2. DOMAIN guards = {1}
    BY <1>2, <2>1
  <2> QED
    BY <1>1, <1>2, <1>3, <2>2 DEF Guard
<1>4. CASE req.kind # "intra"
  <2>1. Len(guards) = 2
    BY <1>4 DEF Done
  <2>2. DOMAIN guards = {1, 2}
    BY <1>2, <2>1
  <2>3. guards[1] \subseteq Assignments
    <3> DEFINE T == SUBSET Assignments
    <3>1. guards \in Seq(T) /\ 1 \in 1 .. Len(guards)
      BY <1>2, <2>1
    <3> HIDE DEF T
    <3>2. guards[1] \in T
      BY <3>1
    <3> QED
      BY <3>2 DEF T
  <2> QED
    BY <1>1, <1>4, <2>2, <2>3 DEF Guard
<1> QED
  BY <1>3, <1>4

\* The guard misses no path from the definition to the use.
THEOREM GuardsCoverPaths == Spec => []PathsCovered
<1>1. ASSUME Inv PROVE PathsCovered
  <2> SUFFICES ASSUME Done, ~AfterLoop, NEW as \in Assignments, Covered(as) PROVE as \in Guard
    BY DEF PathsCovered
  <2>1. ASSUME NEW k \in DOMAIN guards PROVE as \in guards[k]
    <3>1. Comes(k, as)
      BY <1>1, DoneGuards DEF Covered, Comes
    <3> QED
      BY <1>1, <3>1 DEF Inv, GuardsCover
  <2> QED
    BY <1>1, <2>1, DoneGuards
<1> QED
  BY <1>1, InvHolds, PTL

\* Where the guard holds no run passes the use by.
THEOREM NoRunPasses == Spec => []NothingPassedBy
<1>1. ASSUME Inv PROVE NothingPassedBy
  <2> SUFFICES ASSUME Done, ~IsRecursive, NEW as \in Guard, NEW leg \in Legs
               PROVE  \A b \in Run(leg[1], as, {leg[2]}) : Succ(b) # {} \/ CallsProgExit(b)
    BY DEF NothingPassedBy
  <2>1. PICK k \in DOMAIN guards : leg = Way(k)
    BY <1>1, DoneGuards
  <2>2. as \in guards[k] /\ Way(k)[2] \in BB
    BY <1>1, DoneGuards, WaysType
  <2>3. CaughtOnWay(k, as, Way(k)[2])
    BY <1>1, <2>2 DEF Inv, GuardsCatch
  <2> QED
    BY <2>1, <2>3 DEF CaughtOnWay, Caught
<1> QED
  BY <1>1, InvHolds, PTL
=============================================================================
