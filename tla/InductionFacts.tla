--------------------------- MODULE InductionFacts ---------------------------
(***************************************************************************)
(* Induction over the natural numbers as a statement about sets, which the *)
(* provers can use where they cannot instantiate a predicate, and the      *)
(* functions that recursion defines.                                       *)
(***************************************************************************)
EXTENDS Integers, FiniteSetTheorems, TLAPS

\* A set that contains 0 and the successor of each number in it contains all numbers: if t
\* were missing, shifting those in the set up by one would fit 0..t into 1..t.
LEMMA Induction ==
    ASSUME NEW A, 0 \in A, \A n \in A \cap Nat : n + 1 \in A
    PROVE  Nat \subseteq A
<1>1. SUFFICES ASSUME NEW t \in Nat, t \notin A
               PROVE  FALSE
  OBVIOUS
<1> DEFINE f == [n \in 0..t |-> IF n \in A THEN n + 1 ELSE n]
<1>2. \A n \in 0..t : f[n] \in 1..t
  BY <1>1
<1>3. \A m, n \in 0..t : f[m] = f[n] => m = n
  <2>1. SUFFICES ASSUME NEW m \in 0..t, NEW n \in 0..t, f[m] = f[n], m # n
                 PROVE  FALSE
    OBVIOUS
  <2>2. CASE m \in A /\ n \in A
    BY <2>1, <2>2
  <2>3. CASE m \in A /\ n \notin A
    BY <2>1, <2>3
  <2>4. CASE m \notin A /\ n \in A
    BY <2>1, <2>4
  <2> QED
    BY <2>1, <2>2, <2>3, <2>4
<1>4. f \in Injection(0..t, 1..t)
  BY <1>2, <1>3 DEF Injection, IsInjective
<1>5. /\ IsFiniteSet(1..t) /\ Cardinality(1..t) = t
      /\ Cardinality(0..t) = t + 1
  BY FS_Interval
<1>6. Cardinality(0..t) <= Cardinality(1..t)
  BY <1>4, <1>5, FS_Injection
<1> QED
  BY <1>5, <1>6

\* The first n steps of the recursion from a
Unrolls(h, n, S, a, step) ==
    /\ h \in [0..n -> S]
    /\ h[0] = a
    /\ \A i \in 0..(n - 1) : h[i + 1] = step[i][h[i]]

\* Any number of steps can be taken.
LEMMA UnrollingExists ==
    ASSUME NEW S, NEW a \in S, NEW step \in [Nat -> [S -> S]]
    PROVE  \A n \in Nat : \E h : Unrolls(h, n, S, a, step)
<1> DEFINE A == {n \in Nat : \E h : Unrolls(h, n, S, a, step)}
<1>1. 0 \in A
  <2>1. Unrolls([i \in 0..0 |-> a], 0, S, a, step)
    BY DEF Unrolls
  <2> QED
    BY <2>1
<1>2. ASSUME NEW n \in A
      PROVE  n + 1 \in A
  <2>1. PICK h : Unrolls(h, n, S, a, step)
    OBVIOUS
  <2> DEFINE g == [i \in 0..(n + 1) |-> IF i = n + 1 THEN step[n][h[n]] ELSE h[i]]
  <2>2. n \in Nat /\ h[n] \in S /\ step[n][h[n]] \in S
    BY <2>1 DEF Unrolls
  <2>3. \A i \in 0..(n + 1) : g[i] \in S
    BY <2>1, <2>2 DEF Unrolls
  <2>4. ASSUME NEW i \in 0..(n + 1 - 1)
        PROVE  g[i + 1] = step[i][g[i]]
    <3>1. CASE i = n
      BY <2>2, <3>1
    <3>2. CASE i # n
      <4>1. i \in 0..(n - 1) /\ i + 1 \in 0..n
        BY <2>2, <3>2
      <4> QED
        BY <2>1, <2>2, <4>1 DEF Unrolls
    <3> QED
      BY <3>1, <3>2
  <2>5. Unrolls(g, n + 1, S, a, step)
    <3>1. g \in [0..(n + 1) -> S]
      BY <2>3
    <3>2. g[0] = a
      BY <2>1, <2>2 DEF Unrolls
    <3> HIDE DEF g
    <3> QED
      BY <3>1, <3>2, <2>4 DEF Unrolls
  <2> QED
    BY <2>2, <2>5
<1> HIDE DEF A
<1>3. Nat \subseteq A
  BY <1>1, <1>2, Induction
<1> QED
  BY <1>3 DEF A

\* Each step is determined by those before it.
LEMMA UnrollingsAgree ==
    ASSUME NEW S, NEW a \in S, NEW step \in [Nat -> [S -> S]],
           NEW m \in Nat, NEW n \in Nat, m <= n,
           NEW g, Unrolls(g, m, S, a, step), NEW h, Unrolls(h, n, S, a, step)
    PROVE  g[m] = h[m]
<1> DEFINE A == {i \in Nat : i <= m => g[i] = h[i]}
<1>1. 0 \in A
  BY DEF Unrolls
<1>2. ASSUME NEW i \in A
      PROVE  i + 1 \in A
  <2>1. CASE i + 1 <= m
    <3>1. i \in 0..(m - 1) /\ i \in 0..(n - 1) /\ g[i] = h[i]
      BY <2>1
    <3> QED
      BY <3>1 DEF Unrolls
  <2> QED
    BY <2>1
<1> HIDE DEF A
<1>3. Nat \subseteq A
  BY <1>1, <1>2, Induction
<1> QED
  BY <1>3 DEF A

\* A step of a recursion gives a value for the number of the step and the value before.
StepFunctions(S) == [Nat -> [S -> S]]

\* g is what the recursion from a defines.
Recurs(g, S, a, step) ==
    g \in [Nat -> S] /\ g[0] = a /\ \A n \in Nat : g[n + 1] = step[n][g[n]]

\* Recursion over the natural numbers defines a function.
LEMMA Recursion ==
    ASSUME NEW S, NEW a \in S, NEW step \in StepFunctions(S)
    PROVE  \E g : Recurs(g, S, a, step)
<1> DEFINE steps(n) == CHOOSE h : Unrolls(h, n, S, a, step)
           g == [n \in Nat |-> steps(n)[n]]
<1>0. step \in [Nat -> [S -> S]]
  BY DEF StepFunctions
<1>1. \A n \in Nat : Unrolls(steps(n), n, S, a, step)
  BY <1>0, UnrollingExists, Z3
<1> HIDE DEF steps
<1>2. g \in [Nat -> S]
  BY <1>1 DEF Unrolls
<1>3. g[0] = a
  BY <1>1 DEF Unrolls
<1>4. ASSUME NEW n \in Nat
      PROVE  g[n + 1] = step[n][g[n]]
  <2>1. steps(n)[n] = steps(n + 1)[n]
    BY <1>0, <1>1, UnrollingsAgree, Z3
  <2>2. n \in 0..(n + 1 - 1) /\ n + 1 \in Nat
    OBVIOUS
  <2>3. steps(n + 1)[n + 1] = step[n][steps(n + 1)[n]]
    BY <1>1, <2>2 DEF Unrolls
  <2> QED
    BY <2>1, <2>2, <2>3
<1> QED
  BY <1>2, <1>3, <1>4 DEF Recurs

\* A set of natural numbers that is not empty has a least member.
LEMMA LeastMember ==
    ASSUME NEW S, S \subseteq Nat, S # {}
    PROVE  \E x \in S : \A y \in S : x <= y
<1> SUFFICES ASSUME \A x \in S : \E y \in S : ~ (x <= y)
             PROVE  FALSE
  OBVIOUS
<1> DEFINE A == {n \in Nat : \A k \in 0..n : k \notin S}
<1>1. 0 \in A
  OBVIOUS
<1>2. ASSUME NEW n \in A
      PROVE  n + 1 \in A
  <2>1. n + 1 \notin S
    BY <1>2
  <2>2. \A k \in 0..(n + 1) : k \in 0..n \/ k = n + 1
    BY <1>2
  <2> QED
    BY <1>2, <2>1, <2>2
<1>3. Nat \subseteq A
  <2> HIDE DEF A
  <2> QED
    BY <1>1, <1>2, Induction
<1>4. PICK x \in S : TRUE
  OBVIOUS
<1>5. x \in A /\ x \in 0..x
  BY <1>3
<1> QED
  BY <1>4, <1>5
=============================================================================
