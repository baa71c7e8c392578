--------------------------- MODULE DataInduction ---------------------------
(* Induction over data, for the proofs about sequential code.  The theorems  *)
(* of NaturalsInduction have an operator as a parameter; here its place is   *)
(* taken by a set of numbers or by a function, which are values.             *)
EXTENDS Integers, FiniteSetTheorems, TLAPS

(* A set of natural numbers has a least element: finite sets are well        *)
(* founded, and a number is known by the interval below it.                  *)
LEMMA Least ==
  ASSUME NEW S \in SUBSET Nat, NEW n \in S
  PROVE  \E m \in S : \A k \in S : m <= k
<1> DEFINE Upto(k) == 0..k
           T == {U \in SUBSET (0..n) : \E k \in S : k <= n /\ U = Upto(k)}
           R == StrictSubsetOrdering(0..n)
<1>1. T \subseteq FiniteSubsetsOf(0..n)
  <2>1. IsFiniteSet(0..n)
    BY FS_Interval
  <2>2. FiniteSubsetsOf(0..n) = SUBSET (0..n)
    BY <2>1, FS_FiniteSubsetsOfFinite
  <2> QED
    BY <2>2
<1>2. T # {}
  <2>1. Upto(n) \in T
    OBVIOUS
  <2> QED
    BY <2>1
<1>3. PICK U \in T : \A V \in T : ~ (<<V, U>> \in R)
  <2>1. IsWellFoundedOn(R, FiniteSubsetsOf(0..n))
    BY FS_StrictSubsetOrderingWellFounded
  <2> HIDE DEF T, R
  <2> QED
    BY <1>1, <1>2, <2>1, WFMin
<1>4. PICK m \in S : m <= n /\ U = Upto(m)
  OBVIOUS
<1>5. ASSUME NEW k \in S, k < m PROVE FALSE
  <2>1. Upto(k) \in T
    BY <1>4, <1>5
  <2>2. Upto(k) \subseteq Upto(m) /\ Upto(k) # Upto(m)
    <3>1. m \in Upto(m) /\ m \notin Upto(k)
      BY <1>5
    <3>2. Upto(k) \subseteq Upto(m)
      BY <1>5
    <3> QED
      BY <3>1, <3>2
  <2>3. <<Upto(k), U>> \in R
    <3>1. Upto(k) \in SUBSET (0..n) /\ U \in SUBSET (0..n)
      BY <2>1
    <3> QED
      BY <3>1, <2>2, <1>4 DEF StrictSubsetOrdering
  <2> QED
    BY <1>3, <2>1, <2>3
<1> QED
  <2>1. \A k \in S : m <= k
    BY <1>5
  <2> QED
    BY <2>1

(* Induction: a set that has 0 and with each number below N the next one has *)
(* all numbers up to N.                                                      *)
LEMMA UpTo ==
  ASSUME NEW N \in Nat, NEW S, 0 \in S, \A i \in 1..N : i - 1 \in S => i \in S
  PROVE  \A i \in 0..N : i \in S
<1> SUFFICES ASSUME NEW n \in 0..N, n \notin S PROVE FALSE
  OBVIOUS
<1> DEFINE T == {i \in 0..N : i \notin S}
<1>1. T \in SUBSET Nat /\ n \in T
  OBVIOUS
<1>2. PICK m \in T : \A k \in T : m <= k
  <2> HIDE DEF T
  <2> QED
    BY <1>1, Least
<1>3. m \in 1..N /\ m \notin S
  BY <1>2
<1>4. m - 1 \in S
  <2>1. m - 1 \in 0..N /\ m - 1 < m
    BY <1>3
  <2> QED
    BY <1>2, <2>1
<1> QED
  BY <1>3, <1>4

(* The same with all smaller numbers as the hypothesis.                      *)
LEMMA AllBelow ==
  ASSUME NEW N \in Nat, NEW S, \A n \in 0..N : (\A k \in 0..n - 1 : k \in S) => n \in S
  PROVE  \A n \in 0..N : n \in S
<1> SUFFICES ASSUME NEW n \in 0..N, n \notin S PROVE FALSE
  OBVIOUS
<1> DEFINE T == {i \in 0..N : i \notin S}
<1>1. T \in SUBSET Nat /\ n \in T
  OBVIOUS
<1>2. PICK m \in T : \A k \in T : m <= k
  <2> HIDE DEF T
  <2> QED
    BY <1>1, Least
<1>3. m \in 0..N /\ m \notin S
  BY <1>2
<1>4. ASSUME NEW k \in 0..m - 1 PROVE k \in S
  <2>1. k \in 0..N /\ k < m
    BY <1>3
  <2> QED
    BY <1>2, <2>1
<1> QED
  BY <1>3, <1>4

(* Recursion: there is a function whose value at each number is made from    *)
(* its value at a smaller one.  `step` makes it, `back` says from which.     *)
Follows(g, n, init, step, back) ==
    g[0] = init /\ \A i \in 1..n : g[i] = step[<<g[back[i]], i>>]

LEMMA Recursion ==
  ASSUME NEW N \in Nat, NEW V, NEW init \in V, NEW step \in [V \X (1..N) -> V],
         NEW back \in [1..N -> Nat], \A i \in 1..N : back[i] < i
  PROVE  \E g \in [0..N -> V] : Follows(g, N, init, step, back)
<1> DEFINE S == {n \in 0..N : \E g \in [0..n -> V] : Follows(g, n, init, step, back)}
<1>1. 0 \in S
  <2>1. [i \in 0..0 |-> init] \in [0..0 -> V]
    OBVIOUS
  <2>2. Follows([i \in 0..0 |-> init], 0, init, step, back)
    BY DEF Follows
  <2> QED
    BY <2>1, <2>2
<1>2. ASSUME NEW n \in 1..N, n - 1 \in S PROVE n \in S
  <2>1. PICK g \in [0..n - 1 -> V] : Follows(g, n - 1, init, step, back)
    BY <1>2
  <2>2. back[n] \in 0..n - 1 /\ n - 1 \in Nat
    OBVIOUS
  <2> DEFINE next == step[<<g[back[n]], n>>]
             h == [i \in 0..n |-> IF i = n THEN next ELSE g[i]]
  <2>3. next \in V
    <3>1. <<g[back[n]], n>> \in V \X (1..N)
      BY <2>1, <2>2
    <3> QED
      BY <3>1
  <2>4. h \in [0..n -> V]
    <3> HIDE DEF next
    <3>1. ASSUME NEW i \in 0..n PROVE (IF i = n THEN next ELSE g[i]) \in V
      BY <2>1, <2>3
    <3> QED
      BY <3>1
  <2>5. Follows(h, n, init, step, back)
    <3>1. h[0] = init
      BY <2>1 DEF Follows
    <3>2. ASSUME NEW i \in 1..n PROVE h[i] = step[<<h[back[i]], i>>]
      <4>1. back[i] \in 0..i - 1 /\ i \in 0..n
        OBVIOUS
      <4>2. back[i] \in 0..n /\ back[i] # n
        BY <4>1
      <4>3. h[back[i]] = g[back[i]]
        BY <4>2
      <4>4. CASE i = n
        BY <4>1, <4>3, <4>4
      <4>5. CASE i # n
        <5>1. i \in 1..n - 1
          BY <4>5
        <5>2. g[i] = step[<<g[back[i]], i>>]
          BY <2>1, <5>1 DEF Follows
        <5> QED
          BY <4>1, <4>3, <4>5, <5>2
      <4> QED
        BY <4>4, <4>5
    <3> HIDE DEF h
    <3> QED
      BY <3>1, <3>2 DEF Follows
  <2> HIDE DEF h
  <2> QED
    BY <2>4, <2>5
<1>3. \A i \in 0..N : i \in S
  <2> HIDE DEF S
  <2> QED
    BY <1>1, <1>2, UpTo
<1> QED
  BY <1>3

(* A function keeps to a set of values if it starts there and no step leaves *)
(* it.                                                                       *)
LEMMA StaysIn ==
  ASSUME NEW N \in Nat, NEW V, NEW f, f[0] \in V,
         \A i \in 1..N : f[i - 1] \in V => f[i] \in V
  PROVE  \A i \in 0..N : f[i] \in V
<1> DEFINE S == {i \in 0..N : f[i] \in V}
<1>1. 0 \in S
  OBVIOUS
<1>2. ASSUME NEW i \in 1..N, i - 1 \in S PROVE i \in S
  BY <1>2
<1>3. \A i \in 0..N : i \in S
  <2> HIDE DEF S
  <2> QED
    BY <1>1, <1>2, UpTo
<1> QED
  BY <1>3
=============================================================================
