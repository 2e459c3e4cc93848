----------------------------- MODULE FoldFacts -----------------------------
(***************************************************************************)
(* Induction over data, for the proofs about sequences: the least element  *)
(* of a set of numbers, induction up to a number, and what FoldLeft        *)
(* computes.  The operator that is folded is a parameter, with a third     *)
(* argument for what it takes from its context.                            *)
(***************************************************************************)
EXTENDS Integers, Sequences, FiniteSetsExt, SequencesExt, WellFoundedInduction, TLAPS

CONSTANT Op(_, _, _)

Fold(e, base, s) == FoldLeft(LAMBDA d, x : Op(e, d, x), base, s)

-----------------------------------------------------------------------------
(* A set of natural numbers has a least one. *)
THEOREM LeastNat ==
  ASSUME NEW T \in SUBSET Nat, T # {}
  PROVE  \E m \in T : \A k \in T : m <= k
<1>1. PICK m \in T : \A k \in T : ~(<<k, m>> \in OpToRel(<, Nat))
  BY NatLessThanWellFounded, WFMin
<1>2. \A k \in T : ~(k < m)
  BY <1>1 DEF OpToRel
<1> QED
  BY <1>2

(* What holds of 0, and of the next number with each, holds up to n. *)
THEOREM UpTo ==
  ASSUME NEW n \in Nat, NEW T, 0 \in T, \A k \in 0..n : k \in T /\ k < n => k + 1 \in T
  PROVE  0..n \subseteq T
<1> SUFFICES ASSUME (0..n) \ T # {} PROVE FALSE
  OBVIOUS
<1> DEFINE Left == (0..n) \ T
<1>0. Left \in SUBSET Nat /\ Left # {}
  OBVIOUS
<1> HIDE DEF Left
<1>1. PICK m \in Left : \A k \in Left : m <= k
  BY <1>0, LeastNat
<1> USE DEF Left
<1>2. m - 1 \in 0..n /\ m - 1 \in T
  BY <1>1
<1> QED
  BY <1>1, <1>2

(* The largest of a set of numbers that has one. *)
THEOREM MaxIs ==
  ASSUME NEW S \in SUBSET Int, NEW m \in S, \A k \in S : k <= m
  PROVE  Max(S) = m
<1>1. \E x \in S : \A y \in S : x >= y
  OBVIOUS
<1>2. Max(S) \in S /\ \A y \in S : Max(S) >= y
  BY <1>1 DEF Max
<1>3. Max(S) \in Int /\ m \in Int /\ Max(S) <= m /\ Max(S) >= m
  BY <1>2
<1> QED
  BY <1>3

-----------------------------------------------------------------------------
(* The function FoldLeft is defined by, on the sets of indices up to m. *)
Folds(e, base, s, m, g) ==
  g = [S \in SUBSET (1..m) |->
         IF S = {} THEN base ELSE Op(e, g[S \ {Max(S)}], s[Max(S)])]

THEOREM FoldExists ==
  ASSUME NEW e, NEW base, NEW s, NEW n \in Nat
  PROVE  \E g : Folds(e, base, s, n, g)
<1> DEFINE T == {m \in 0..n : \E g : Folds(e, base, s, m, g)}
<1>1. 0 \in T
  <2> DEFINE g == [S \in SUBSET (1..0) |-> base]
  <2>1. g = [S \in SUBSET (1..0) |-> IF S = {} THEN base ELSE Op(e, g[S \ {Max(S)}], s[Max(S)])]
    OBVIOUS
  <2> QED
    BY <2>1 DEF Folds
<1>2. ASSUME NEW m \in 0..n, m \in T, m < n PROVE m + 1 \in T
  <2>1. PICK g : Folds(e, base, s, m, g)
    BY <1>2
  <2> DEFINE h == [S \in SUBSET (1..(m + 1)) |->
                     IF m + 1 \in S THEN Op(e, g[S \ {m + 1}], s[m + 1]) ELSE g[S]]
  <2>2. ASSUME NEW S \in SUBSET (1..(m + 1))
        PROVE  h[S] = IF S = {} THEN base ELSE Op(e, h[S \ {Max(S)}], s[Max(S)])
    <3>1. CASE m + 1 \in S
      <4>1. Max(S) = m + 1
        BY <3>1, MaxIs
      <4>2. h[S \ {m + 1}] = g[S \ {m + 1}]
        OBVIOUS
      <4> HIDE DEF h
      <4>3. h[S] = Op(e, g[S \ {m + 1}], s[m + 1])
        BY <3>1 DEF h
      <4> QED
        BY <3>1, <4>1, <4>2, <4>3
    <3>2. CASE m + 1 \notin S
      <4>1. S \in SUBSET (1..m) /\ S \ {Max(S)} \in SUBSET (1..m)
        <5>1. \A k \in S : k \in 1..(m + 1) /\ k # m + 1
          BY <3>2
        <5>2. \A k \in S : k \in 1..m
          BY <5>1
        <5> QED
          BY <5>2
      <4>2. g[S] = IF S = {} THEN base ELSE Op(e, g[S \ {Max(S)}], s[Max(S)])
        BY <4>1, <2>1 DEF Folds
      <4>3. h[S] = g[S]
        BY <3>2
      <4>4. h[S \ {Max(S)}] = g[S \ {Max(S)}]
        <5> DEFINE R == S \ {Max(S)}
        <5>1. R \in SUBSET (1..(m + 1)) /\ m + 1 \notin R
          BY <3>2
        <5> QED
          BY <5>1
      <4> QED
        BY <4>2, <4>3, <4>4
    <3> QED
      BY <3>1, <3>2
  <2>3. h = [S \in SUBSET (1..(m + 1)) |->
               IF S = {} THEN base ELSE Op(e, h[S \ {Max(S)}], s[Max(S)])]
    <3> DEFINE r == [S \in SUBSET (1..(m + 1)) |->
               IF S = {} THEN base ELSE Op(e, h[S \ {Max(S)}], s[Max(S)])]
    <3> HIDE DEF h
    <3>1. \A S \in SUBSET (1..(m + 1)) : h[S] = r[S]
      BY <2>2
    <3>2. h = [S \in SUBSET (1..(m + 1)) |-> h[S]]
      BY DEF h
    <3> QED
      BY <3>1, <3>2
  <2> HIDE DEF h
  <2>4. Folds(e, base, s, m + 1, h)
    BY <2>3 DEF Folds
  <2>5. m + 1 \in 0..n
    BY <1>2
  <2> QED
    BY <2>4, <2>5
<1>3. 0..n \subseteq T
  <2> HIDE DEF T
  <2> QED BY <1>1, <1>2, UpTo
<1> QED
  BY <1>3

(* FoldLeft takes the elements one by one: there are the values after each  *)
(* of them, from the one it starts with to the one it returns.              *)
Runs(e, base, s, f) ==
  /\ f[0] = base
  /\ \A k \in 1..Len(s) : f[k] = Op(e, f[k - 1], s[k])
  /\ f[Len(s)] = Fold(e, base, s)

THEOREM FoldRuns ==
  ASSUME NEW e, NEW base, NEW X, NEW s \in Seq(X)
  PROVE  \E f : Runs(e, base, s, f)
<1> DEFINE n == Len(s)
           g == CHOOSE h : Folds(e, base, s, n, h)
<1>1. n \in Nat /\ DOMAIN s = 1..n
  OBVIOUS
<1>2. Folds(e, base, s, n, g)
  BY <1>1, FoldExists
<1>3. Fold(e, base, s) = g[1..n]
  BY <1>1 DEF Fold, FoldLeft, MapThenFoldSet, Folds
<1> HIDE DEF n, g
<1> DEFINE f == [k \in 0..n |-> g[1..k]]
<1>4. f[0] = base
  BY <1>1, <1>2 DEF Folds
<1>5. ASSUME NEW k \in 1..n PROVE f[k] = Op(e, f[k - 1], s[k])
  <2>1. Max(1..k) = k
    <3>1. 1..k \in SUBSET Int /\ k \in 1..k /\ \A j \in 1..k : j <= k
      BY <1>1
    <3> QED
      BY <3>1, MaxIs
  <2>2. (1..k) \ {k} = 1..(k - 1) /\ 1..k \in SUBSET (1..n) /\ 1..k # {}
    BY <1>1
  <2>3. g[1..k] = Op(e, g[1..(k - 1)], s[k])
    BY <2>1, <2>2, <1>2 DEF Folds
  <2> QED
    BY <2>3, <1>1
<1>6. f[n] = Fold(e, base, s)
  BY <1>1, <1>3
<1> QED
  BY <1>4, <1>5, <1>6 DEF Runs, n

(* What each step keeps, the fold keeps. *)
THEOREM FoldKeeps ==
  ASSUME NEW e, NEW I, NEW base \in I, NEW X, NEW s \in Seq(X),
         \A d \in I, k \in 1..Len(s) : Op(e, d, s[k]) \in I
  PROVE  Fold(e, base, s) \in I
<1>1. PICK f : Runs(e, base, s, f)
  BY FoldRuns
<1> DEFINE T == {k \in 0..Len(s) : f[k] \in I}
<1>2. Len(s) \in Nat
  OBVIOUS
<1>3. 0 \in T
  BY <1>1, <1>2 DEF Runs
<1>4. ASSUME NEW k \in 0..Len(s), k \in T, k < Len(s) PROVE k + 1 \in T
  BY <1>1, <1>2, <1>4 DEF Runs
<1>5. 0..Len(s) \subseteq T
  <2> HIDE DEF T
  <2> QED BY <1>2, <1>3, <1>4, UpTo
<1> QED
  BY <1>1, <1>2, <1>5 DEF Runs
=============================================================================
