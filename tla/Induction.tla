----------------------------- MODULE Induction -----------------------------
(***************************************************************************)
(* Induction over the naturals for sets and functions: the facts behind    *)
(* what a recursive function computes and behind the last of many indices. *)
(***************************************************************************)
EXTENDS WellFoundedInduction, TLAPS

LEMMA LeastElement ==
  ASSUME NEW T \in SUBSET Nat, T # {}
  PROVE  \E x \in T : \A y \in T : x <= y
<1> DEFINE R == OpToRel(<, Nat)
<1>1. IsWellFoundedOn(R, Nat)
  BY NatLessThanWellFounded
<1>2. \A x, y \in Nat : x < y => <<x, y>> \in R
  BY DEF OpToRel
<1> HIDE DEF R
<1>3. PICK x \in T : \A y \in T : <<y, x>> \notin R
  BY <1>1, WFMin
<1>4. ASSUME NEW y \in T PROVE x <= y
  <2>1. x \in Nat /\ y \in Nat
    OBVIOUS
  <2>2. ~(y < x)
    BY <1>2, <1>3, <2>1
  <2> QED
    BY <2>1, <2>2
<1> QED
  BY <1>4

LEMMA SetInduction ==
  ASSUME NEW S, 0 \in S, \A n \in Nat : n \in S => n + 1 \in S
  PROVE  Nat \subseteq S
<1> SUFFICES ASSUME Nat \ S # {} PROVE FALSE
  OBVIOUS
<1>1. PICK x \in Nat \ S : \A y \in Nat \ S : x <= y
  <2> DEFINE T == Nat \ S
  <2>1. T \in SUBSET Nat /\ T # {}
    OBVIOUS
  <2> HIDE DEF T
  <2>2. \E x \in T : \A y \in T : x <= y
    BY <2>1, LeastElement
  <2> QED
    BY <2>2 DEF T
<1>2. x # 0 /\ x - 1 \in Nat /\ x - 1 \in S
  BY <1>1
<1> QED
  BY <1>1, <1>2

LEMMA GreatestIndex ==
  ASSUME NEW n \in Nat, NEW T \in SUBSET (1..n), T # {}
  PROVE  \E x \in T : \A y \in T : y <= x
<1> DEFINE D == { n - x : x \in T }
<1>1. D \in SUBSET Nat /\ D # {}
  <2>1. \A x \in T : x \in 1..n /\ n - x \in Nat
    OBVIOUS
  <2> QED
    BY <2>1
<1> HIDE DEF D
<1>2. PICK d \in D : \A e \in D : d <= e
  BY <1>1, LeastElement
<1>3. PICK x \in T : d = n - x
  BY DEF D
<1>4. ASSUME NEW y \in T PROVE y <= x
  <2>1. n - y \in D
    BY DEF D
  <2> QED
    BY <1>2, <1>3, <2>1
<1> QED
  BY <1>4

(* The function that begins with first and takes step[n] from n to n + 1.  *)
Iterates(S, first, step, g) ==
  /\ g \in [Nat -> S]
  /\ g[0] = first
  /\ \A n \in Nat : g[n + 1] = step[n][g[n]]

(* A function may be defined by iteration. *)
LEMMA IterationExists ==
  ASSUME NEW S, NEW first \in S, NEW step \in [Nat -> [S -> S]]
  PROVE  \E g : Iterates(S, first, step, g)
<1> DEFINE Chain(h, k) == /\ h \in [0..k -> S]
                          /\ h[0] = first
                          /\ \A n \in 0..(k - 1) : h[n + 1] = step[n][h[n]]
           Reached == { k \in Nat : \E h : Chain(h, k) }
<1>1. Nat \subseteq Reached
  <2>1. 0 \in Reached
    <3>1. Chain([i \in 0..0 |-> first], 0)
      OBVIOUS
    <3> QED
      BY <3>1
  <2>2. ASSUME NEW k \in Nat, k \in Reached
        PROVE  k + 1 \in Reached
    <3>1. PICK h : Chain(h, k)
      BY <2>2
    <3> DEFINE j == [i \in 0..(k + 1) |-> IF i <= k THEN h[i] ELSE step[k][h[k]]]
    <3>2. h[k] \in S /\ step[k] \in [S -> S]
      BY <3>1
    <3>3. j \in [0..(k + 1) -> S] /\ j[0] = first
      BY <3>1, <3>2
    <3>4. ASSUME NEW n \in 0..((k + 1) - 1)
          PROVE  j[n + 1] = step[n][j[n]]
      BY <3>1, <3>4
    <3>5. Chain(j, k + 1)
      BY <3>3, <3>4
    <3> HIDE DEF Chain, j
    <3> QED
      BY <3>5
  <2> HIDE DEF Reached
  <2> QED
    BY <2>1, <2>2, SetInduction
<1>2. ASSUME NEW k \in Nat, NEW h, Chain(h, k), NEW j, Chain(j, k + 1)
      PROVE  h[k] = j[k]
  <2> DEFINE Agree == { i \in Nat : i <= k => h[i] = j[i] }
  <2>1. 0 \in Agree
    BY <1>2
  <2>2. ASSUME NEW i \in Nat, i \in Agree
        PROVE  i + 1 \in Agree
    <3> SUFFICES ASSUME i + 1 <= k PROVE h[i + 1] = j[i + 1]
      OBVIOUS
    <3>1. h[i] = j[i] /\ i \in 0..(k - 1) /\ i \in 0..((k + 1) - 1)
      BY <2>2
    <3>2. h[i + 1] = step[i][h[i]] /\ j[i + 1] = step[i][j[i]]
      BY <1>2, <3>1
    <3> QED
      BY <3>1, <3>2
  <2>3. Nat \subseteq Agree
    <3> HIDE DEF Agree
    <3> QED
      BY <2>1, <2>2, SetInduction
  <2> QED
    BY <2>3
<1> DEFINE H(k) == CHOOSE h : Chain(h, k)
           g == [k \in Nat |-> H(k)[k]]
<1>3. \A k \in Nat : Chain(H(k), k)
  <2> SUFFICES ASSUME NEW k \in Nat PROVE Chain(H(k), k)
    OBVIOUS
  <2>1. \E h : Chain(h, k)
    BY <1>1
  <2> HIDE DEF Chain
  <2> QED
    BY <2>1
<1>4. g \in [Nat -> S] /\ g[0] = first
  <2>1. ASSUME NEW k \in Nat PROVE H(k)[k] \in S
    <3> HIDE DEF H
    <3>1. Chain(H(k), k)
      BY <1>3, Zenon
    <3>2. k \in 0..k
      OBVIOUS
    <3> QED
      BY <3>1, <3>2
  <2>2. H(0)[0] = first
    BY <1>3
  <2> HIDE DEF H
  <2> QED
    BY <2>1, <2>2
<1>5. ASSUME NEW n \in Nat
      PROVE  g[n + 1] = step[n][g[n]]
  <2>1. Chain(H(n), n) /\ Chain(H(n + 1), n + 1)
    <3>1. n + 1 \in Nat
      OBVIOUS
    <3> HIDE DEF Chain, H
    <3> QED
      BY <1>3, <3>1
  <2>2. H(n)[n] = H(n + 1)[n]
    <3> HIDE DEF Chain, H
    <3> QED
      BY <1>2, <2>1
  <2>3. H(n + 1)[n + 1] = step[n][H(n + 1)[n]]
    <3>1. n \in 0..((n + 1) - 1)
      OBVIOUS
    <3> HIDE DEF H
    <3> QED
      BY <2>1, <3>1
  <2> HIDE DEF H, Chain
  <2> QED
    BY <2>2, <2>3
<1>6. Iterates(S, first, step, g)
  <2> HIDE DEF g
  <2> QED
    BY <1>4, <1>5 DEF Iterates
<1> HIDE DEF g
<1> QED
  BY <1>6

============================================================================
