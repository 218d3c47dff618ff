----------------------------- MODULE Induction -----------------------------
(***************************************************************************)
(* Induction over the natural numbers, stated with sets: a property is the *)
(* set of the numbers that have it.  All of it follows from the library's  *)
(* theorem that the subsets of a set are well-founded on its finite ones.  *)
(***************************************************************************)
EXTENDS Integers, FiniteSetsExt, FiniteSetTheorems, TLAPS

\* Every set of natural numbers that is not empty has a smallest element.
LEMMA SmallestOf ==
  ASSUME NEW T \in SUBSET Nat, T # {}
  PROVE  \E x \in T : \A y \in T : x <= y
<1> DEFINE F == {0 .. k : k \in T}
           R == StrictSubsetOrdering(Nat)
<1>1. F \subseteq FiniteSubsetsOf(Nat) /\ F # {}
  <2>1. ASSUME NEW k \in T PROVE 0 .. k \in FiniteSubsetsOf(Nat)
    BY FS_Interval DEF FiniteSubsetsOf
  <2> QED
    BY <2>1
<1>2. \E x \in F : \A y \in F : ~ (<<y, x>> \in R)
  <2> HIDE DEF F, R
  <2> QED
    BY <1>1, WFMin, FS_StrictSubsetOrderingWellFounded DEF R
<1>3. PICK k \in T : \A j \in T : ~ (<<0 .. j, 0 .. k>> \in R)
  BY <1>2
<1>4. ASSUME NEW j \in T, j < k PROVE FALSE
  <2>1. 0 .. j \subseteq 0 .. k /\ k \in 0 .. k /\ k \notin 0 .. j
    BY <1>4
  <2>2. 0 .. j \in SUBSET Nat /\ 0 .. k \in SUBSET Nat
    OBVIOUS
  <2> QED
    BY <1>3, <2>1, <2>2 DEF StrictSubsetOrdering
<1> QED
  BY <1>4

\* Every such set of integers with a bound above has a largest element.
LEMMA LargestOf ==
  ASSUME NEW n \in Int, NEW T \in SUBSET Int, T # {}, \A y \in T : y <= n
  PROVE  \E x \in T : \A y \in T : y <= x
<1> DEFINE D == {n - y : y \in T}
<1>1. D \in SUBSET Nat /\ D # {}
  <2>1. ASSUME NEW y \in T PROVE n - y \in Nat
    <3>1. y \in Int /\ y <= n
      OBVIOUS
    <3> QED
      BY <3>1
  <2> QED
    BY <2>1
<1>2. PICK d \in D : \A e \in D : d <= e
  <2> HIDE DEF D
  <2> QED
    BY <1>1, SmallestOf
<1>3. PICK x \in T : d = n - x
  OBVIOUS
<1>4. ASSUME NEW y \in T PROVE y <= x
  <2>1. n - x <= n - y
    BY <1>2, <1>3
  <2> QED
    BY <2>1
<1> QED
  BY <1>4

\* Max() is what its name says.
LEMMA MaxOf ==
  ASSUME NEW n \in Int, NEW T \in SUBSET Int, T # {}, \A y \in T : y <= n
  PROVE  Max(T) \in T /\ \A y \in T : y <= Max(T)
<1>1. PICK x \in T : \A y \in T : y <= x
  BY LargestOf
<1>2. x \in T /\ \A y \in T : x >= y
  BY <1>1
<1> QED
  BY <1>2 DEF Max

\* Induction up to n: from 0, and from each number to the next.
LEMMA UpTo ==
  ASSUME NEW n \in Nat, NEW T, 0 \in T,
         \A i \in 0 .. (n - 1) : i \in T => i + 1 \in T
  PROVE  \A i \in 0 .. n : i \in T
<1> DEFINE C == {i \in 0 .. n : i \notin T}
<1>1. SUFFICES ASSUME C # {} PROVE FALSE
  OBVIOUS
<1>2. PICK x \in C : \A y \in C : x <= y
  <2>1. C \in SUBSET Nat
    OBVIOUS
  <2> HIDE DEF C
  <2> QED
    BY <1>1, <2>1, SmallestOf
<1>3. x \in 0 .. n /\ x \notin T /\ x # 0
  OBVIOUS
<1>4. x - 1 \in 0 .. (n - 1) /\ x - 1 \in 0 .. n /\ ~ (x <= x - 1)
  BY <1>3
<1>5. x - 1 \in T
  BY <1>2, <1>4
<1>6. (x - 1) + 1 \in T
  BY <1>4, <1>5
<1> QED
  BY <1>3, <1>6

\* Min() likewise.
LEMMA MinOf ==
  ASSUME NEW T \in SUBSET Nat, T # {}
  PROVE  Min(T) \in T /\ \A y \in T : Min(T) <= y
<1>1. PICK x \in T : \A y \in T : x <= y
  BY SmallestOf
<1> QED
  BY <1>1 DEF Min

\* g is defined from 0 to n, each value from the one before it: Onward[i][v] is
\* the value at i after the value v.
Unfolds(g, V, n, first, Onward) ==
  /\ g \in [0 .. n -> V]
  /\ g[0] = first
  /\ \A i \in 1 .. n : g[i] = Onward[i][g[i - 1]]

\* There is such a function, as far as one likes.
LEMMA Recursion ==
  ASSUME NEW V, NEW first \in V, NEW Onward \in [Nat -> [V -> V]], NEW n \in Nat
  PROVE  \E g : Unfolds(g, V, n, first, Onward)
<1> DEFINE Goes(g, k) == g[0] = first /\ \A i \in 1 .. k : g[i] = Onward[i][g[i - 1]]
           T == {k \in Nat : \E g \in [0 .. k -> V] : Goes(g, k)}
<1>1. 0 \in T
  <2>1. [i \in 0 .. 0 |-> first] \in [0 .. 0 -> V] /\ Goes([i \in 0 .. 0 |-> first], 0)
    OBVIOUS
  <2> QED
    BY <2>1
<1>2. ASSUME NEW k \in 0 .. (n - 1), k \in T PROVE k + 1 \in T
  <2>1. PICK g \in [0 .. k -> V] : Goes(g, k)
    BY <1>2
  <2> DEFINE next == Onward[k + 1][g[k]]
             h == [i \in 0 .. (k + 1) |-> IF i = k + 1 THEN next ELSE g[i]]
  <2>2. k \in Nat /\ k + 1 \in Nat /\ g[k] \in V
    OBVIOUS
  <2>3. next \in V
    BY <2>2
  <2>4. h \in [0 .. (k + 1) -> V]
    <3> HIDE DEF next
    <3> QED
      BY <2>2, <2>3
  <2>5. h[0] = first
    <3> HIDE DEF next
    <3> QED
      BY <2>1, <2>2
  <2>6. ASSUME NEW i \in 1 .. (k + 1) PROVE h[i] = Onward[i][h[i - 1]]
    <3>1. CASE i = k + 1
      <4>1. h[i] = next /\ i - 1 = k
        BY <3>1, <2>2
      <4>2. h[k] = g[k]
        BY <2>2
      <4> HIDE DEF h
      <4> QED
        BY <3>1, <4>1, <4>2
    <3>2. CASE i # k + 1
      <4>1. i \in 1 .. k /\ i - 1 \in 0 .. k
        BY <3>2, <2>2
      <4>2. h[i] = g[i] /\ h[i - 1] = g[i - 1]
        BY <4>1, <2>2
      <4> HIDE DEF h
      <4> QED
        BY <4>1, <4>2, <2>1
    <3> QED
      BY <3>1, <3>2
  <2>7. \E f \in [0 .. (k + 1) -> V] : Goes(f, k + 1)
    <3> HIDE DEF h
    <3> QED
      BY <2>4, <2>5, <2>6
  <2> HIDE DEF Goes
  <2> QED
    BY <2>2, <2>7
<1>3. n \in T
  <2> HIDE DEF T
  <2>1. \A i \in 0 .. n : i \in T
    BY <1>1, <1>2, UpTo
  <2> QED
    BY <2>1
<1>4. PICK g \in [0 .. n -> V] : Goes(g, n)
  BY <1>3
<1> QED
  BY <1>4 DEF Unfolds

\* A function that grows by at least d at each step.
LEMMA Growing ==
  ASSUME NEW n \in Nat, NEW f \in [0 .. n -> Int], NEW d \in Nat,
         \A i \in 1 .. n : f[i - 1] + d <= f[i]
  PROVE  \A i, j \in 0 .. n : i < j => f[i] + d <= f[j]
<1> SUFFICES ASSUME NEW i \in 0 .. n PROVE \A j \in 0 .. n : i < j => f[i] + d <= f[j]
  OBVIOUS
<1> DEFINE T == {j \in Nat : i < j /\ j <= n => f[i] + d <= f[j]}
<1>1. 0 \in T
  OBVIOUS
<1>2. ASSUME NEW j \in 0 .. (n - 1), j \in T PROVE j + 1 \in T
  <2>1. j + 1 \in 1 .. n /\ (j + 1) - 1 = j /\ j \in 0 .. n /\ j \in Nat /\ j + 1 \in Nat
    OBVIOUS
  <2>2. f[j] + d <= f[j + 1] /\ f[j] \in Int /\ f[j + 1] \in Int /\ f[i] \in Int
    BY <2>1
  <2>3. CASE i < j
    BY <1>2, <2>1, <2>2, <2>3
  <2>4. CASE i = j
    BY <2>1, <2>2, <2>4
  <2>5. CASE i > j
    BY <2>1, <2>5
  <2> QED
    BY <2>1, <2>3, <2>4, <2>5
<1> HIDE DEF T
<1>3. \A j \in 0 .. n : j \in T
  BY <1>1, <1>2, UpTo
<1> QED
  BY <1>3 DEF T
=============================================================================
