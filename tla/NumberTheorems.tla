---------------------------- MODULE NumberTheorems ----------------------------
(***************************************************************************)
(* Induction over the naturals and the extrema of finite sets of them, in  *)
(* terms of sets, so that every prover can instantiate them: a set stands  *)
(* for the property it collects.                                           *)
(***************************************************************************)
EXTENDS Integers, FiniteSets, FiniteSetTheorems, WellFoundedInduction, TLAPS

(* A set of naturals that is not empty has a least element. *)
LEMMA LeastNat ==
  ASSUME NEW T \in SUBSET Nat, T # {}
  PROVE  \E x \in T : \A y \in T : x <= y
<1> DEFINE R == {ss \in Nat \X Nat : ss[1] < ss[2]}
<1>1. IsWellFoundedOn(R, Nat)
  BY NatLessThanWellFounded DEF OpToRel
<1>2. PICK x \in T : \A y \in T : ~ (<<y, x>> \in R)
  <2> HIDE DEF R
  <2> QED
    BY <1>1, WFMin
<1>3. ASSUME NEW y \in T PROVE x <= y
  <2>1. <<y, x>> \notin R
    BY <1>2
  <2>2. <<y, x>> \in Nat \X Nat
    OBVIOUS
  <2>3. ~ (y < x)
    BY <2>1, <2>2
  <2> QED
    BY <2>3
<1> QED
  BY <1>3

(* Induction: the set holds 0 and with every number the next one. *)
LEMMA NatInd ==
  ASSUME NEW S, 0 \in S, \A n \in Nat : n \in S => n + 1 \in S
  PROVE  Nat \subseteq S
<1> SUFFICES ASSUME ~ (Nat \subseteq S) PROVE FALSE
  OBVIOUS
<1> DEFINE T == {n \in Nat : n \notin S}
<1>1. T # {} /\ T \in SUBSET Nat
  OBVIOUS
<1> HIDE DEF T
<1>2. PICK x \in T : \A y \in T : x <= y
  BY <1>1, LeastNat
<1>3. x \in Nat /\ x \notin S /\ x # 0
  BY <1>2 DEF T
<1>4. x - 1 \in Nat /\ x - 1 \notin T
  BY <1>2, <1>3
<1>5. x - 1 \in S
  BY <1>4 DEF T
<1>6. (x - 1) + 1 = x
  BY <1>3
<1> QED
  BY <1>3, <1>4, <1>5, <1>6

(* Induction over an interval. *)
LEMMA IntervalInd ==
  ASSUME NEW N \in Nat, NEW S, 0 \in S,
         \A n \in 0..N-1 : n \in S => n + 1 \in S
  PROVE  0..N \subseteq S
<1> DEFINE T == {n \in Nat : n <= N => n \in S}
<1>1. 0 \in T
  OBVIOUS
<1>2. ASSUME NEW n \in Nat, n \in T PROVE n + 1 \in T
  BY <1>2
<1>3. Nat \subseteq T
  <2> HIDE DEF T
  <2> QED
    BY <1>1, <1>2, NatInd
<1> QED
  BY <1>3

(* A bounded set of naturals that is not empty has a greatest element. *)
LEMMA GreatestNat ==
  ASSUME NEW N \in Nat, NEW T \in SUBSET (0..N), T # {}
  PROVE  \E x \in T : \A y \in T : y <= x
<1> DEFINE D == {N - y : y \in T}
<1>1. D # {} /\ D \in SUBSET Nat
  <2>1. \A y \in T : N - y \in Nat
    OBVIOUS
  <2> QED
    BY <2>1
<1>2. PICK d \in D : \A e \in D : d <= e
  <2> HIDE DEF D
  <2> QED
    BY <1>1, LeastNat
<1>3. PICK x \in T : d = N - x
  BY <1>2
<1>4. ASSUME NEW y \in T PROVE y <= x
  <2>1. N - y \in D
    OBVIOUS
  <2>2. N - x <= N - y
    BY <1>2, <1>3, <2>1
  <2> QED
    BY <2>2
<1> QED
  BY <1>4
(* A value is given for 0 and a function from each value to the next one: then
   there is a function of all of them, so that a definition by recursion says
   what it seems to say. *)
Follows(g, N, T, first, st) ==
    /\ g \in [0..N -> T] /\ g[0] = first
    /\ \A j \in 1..N : g[j] = st[j][g[j - 1]]

LEMMA RecursionExists ==
  ASSUME NEW N \in Nat, NEW T, NEW first \in T, NEW st,
         \A j \in 1..N : \A t \in T : st[j][t] \in T
  PROVE  \E g : Follows(g, N, T, first, st)
<1> DEFINE Ok(g, m) == Follows(g, m, T, first, st)
           S == {m \in 0..N : \E g : Ok(g, m)}
<1> USE DEF Follows
<1>1. 0 \in S
  <2>1. Ok([j \in 0..0 |-> first], 0)
    OBVIOUS
  <2> HIDE DEF Ok
  <2> QED
    BY <2>1
<1>2. ASSUME NEW m \in 0..N-1, m \in S PROVE m + 1 \in S
  <2>1. PICK g : Ok(g, m)
    BY <1>2
  <2> DEFINE h == [j \in 0..m+1 |-> IF j <= m THEN g[j] ELSE st[m + 1][g[m]]]
  <2>2. h \in [0..m+1 -> T]
    <3>1. g[m] \in T /\ st[m + 1][g[m]] \in T
      BY <2>1
    <3>2. ASSUME NEW j \in 0..m+1, j <= m PROVE g[j] \in T
      BY <2>1, <3>2
    <3> QED
      BY <3>1, <3>2
  <2>3. h[0] = first
    BY <2>1
  <2>4. ASSUME NEW j \in 1..m+1 PROVE h[j] = st[j][h[j - 1]]
    <3>1. CASE j <= m
      BY <2>1, <3>1
    <3>2. CASE j = m + 1
      <4>1. h[j] = st[m + 1][g[m]] /\ h[j - 1] = g[m]
        BY <3>2
      <4> QED
        BY <3>2, <4>1
    <3> QED
      BY <3>1, <3>2
  <2>5. Ok(h, m + 1)
    BY <2>2, <2>3, <2>4
  <2> HIDE DEF Ok, h
  <2> QED
    BY <2>5
<1>3. 0..N \subseteq S
  <2> HIDE DEF S
  <2> QED
    BY <1>1, <1>2, IntervalInd
<1>4. PICK g : Ok(g, N)
  BY <1>3
<1> QED
  BY <1>4
===============================================================================
