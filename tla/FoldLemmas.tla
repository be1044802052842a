----------------------------- MODULE FoldLemmas -----------------------------
(***************************************************************************)
(* Induction over data without an operator parameter.  The library states  *)
(* induction for a predicate P(_), which the provers cannot instantiate;   *)
(* here it is stated for a set of numbers, from which follows what a fold  *)
(* over a sequence computes: it is the last value of the run that begins   *)
(* with the base and takes one step per element.                           *)
(***************************************************************************)
EXTENDS Integers, SequencesExt, WellFoundedInduction, TLAPS

LEMMA LeastNatural ==
  ASSUME NEW S \in SUBSET Nat, S # {}
  PROVE  \E n \in S : \A m \in S : n <= m
<1> DEFINE R == {ss \in Nat \X Nat : ss[1] < ss[2]}
<1>1. IsWellFoundedOn(R, Nat)
  BY NatLessThanWellFounded DEF OpToRel
<1>2. \A n, m \in Nat : n < m => <<n, m>> \in R
  OBVIOUS
<1> HIDE DEF R
<1>3. PICK n \in S : \A m \in S : ~ (<<m, n>> \in R)
  BY <1>1, WFMin, Zenon
<1>4. ASSUME NEW m \in S PROVE n <= m
  <2>1. m \in Nat /\ n \in Nat /\ ~ (<<m, n>> \in R)
    BY <1>3
  <2>2. ~ (m < n)
    BY <1>2, <2>1
  <2> QED
    BY <2>1, <2>2
<1> QED
  BY <1>4

(* Induction over the natural numbers, for a set.                          *)
LEMMA NatInductionOnSet ==
  ASSUME NEW S, 0 \in S, \A n \in Nat : n \in S => n + 1 \in S
  PROVE  \A n \in Nat : n \in S
<1>1. SUFFICES ASSUME Nat \ S # {} PROVE FALSE
  OBVIOUS
<1>2. PICK n \in Nat \ S : \A m \in Nat \ S : n <= m
  BY <1>1, LeastNatural
<1>3. n \in Nat /\ n # 0 /\ n - 1 \in Nat
  BY <1>2
<1>4. n - 1 \in S
  BY <1>2, <1>3
<1>5. (n - 1) + 1 \in S
  BY <1>3, <1>4
<1> QED
  BY <1>2, <1>3, <1>5

(* Two runs that begin alike and step alike are the same.                  *)
LEMMA SameRun ==
  \A n \in Nat : \A r, q :
    /\ r[0] = q[0]
    /\ \A k \in 1..n : r[k - 1] = q[k - 1] => r[k] = q[k]
    => \A k \in 0..n : r[k] = q[k]
<1> SUFFICES ASSUME NEW n \in Nat, NEW r, NEW q, r[0] = q[0],
                    \A k \in 1..n : r[k - 1] = q[k - 1] => r[k] = q[k]
             PROVE  \A k \in 0..n : r[k] = q[k]
  OBVIOUS
<1> DEFINE S == {k \in Nat : k <= n => r[k] = q[k]}
<1>1. 0 \in S
  OBVIOUS
<1>2. ASSUME NEW k \in Nat, k \in S PROVE k + 1 \in S
  <2>1. SUFFICES ASSUME k + 1 <= n PROVE r[k + 1] = q[k + 1]
    OBVIOUS
  <2>2. k + 1 \in 1..n /\ (k + 1) - 1 = k /\ k <= n
    BY <2>1
  <2>3. r[k] = q[k]
    BY <1>2, <2>2
  <2> QED
    BY <2>2, <2>3
<1> HIDE DEF S
<1>3. \A k \in Nat : k \in S
  BY <1>1, <1>2, NatInductionOnSet
<1> QED
  BY <1>3 DEF S

LEMMA MaxOfInitial ==
  ASSUME NEW k \in Nat \ {0}
  PROVE  /\ Max(1..k) = k
         /\ (1..k) \ {k} = 1..k - 1
         /\ 1..k # {}
<1>1. k \in 1..k /\ \A y \in 1..k : k >= y
  OBVIOUS
<1>2. \A x \in 1..k : (\A y \in 1..k : x >= y) => x = k
  BY <1>1
<1>3. Max(1..k) = k
  BY <1>1, <1>2 DEF Max
<1> QED
  BY <1>1, <1>3

LEMMA MaxOfSubset ==
  ASSUME NEW n \in Nat, NEW s \in SUBSET (1..n), s # {}
  PROVE  Max(s) \in s
<1> DEFINE T == {m \in Nat : n - m \in s}
<1>1. \A x \in s : x \in 1..n /\ n - x \in T /\ n - (n - x) = x
  OBVIOUS
<1>2. T \in SUBSET Nat /\ T # {}
  BY <1>1
<1> HIDE DEF T
<1>3. PICK m \in T : \A l \in T : m <= l
  BY <1>2, LeastNatural
<1>4. m \in Nat /\ n - m \in s
  BY <1>3 DEF T
<1>5. \A y \in s : n - m >= y
  <2>1. SUFFICES ASSUME NEW y \in s PROVE n - m >= y
    OBVIOUS
  <2>2. y \in 1..n /\ m <= n - y
    BY <1>1, <1>3
  <2> QED
    BY <1>4, <2>2
<1>6. \E x \in s : \A y \in s : x >= y
  BY <1>4, <1>5
<1> QED
  BY <1>6 DEF Max

(* Among the first k + 1 numbers, the last one is the largest of any set   *)
(* that has it.                                                            *)
LEMMA MaxWithLast ==
  \A k \in Nat : \A s \in SUBSET (1..k + 1) :
    /\ k + 1 \in s => Max(s) = k + 1 /\ s \ {k + 1} \in SUBSET (1..k)
    /\ k + 1 \notin s => s \in SUBSET (1..k)
<1> SUFFICES ASSUME NEW k \in Nat, NEW s \in SUBSET (1..k + 1)
             PROVE  /\ k + 1 \in s => Max(s) = k + 1 /\ s \ {k + 1} \in SUBSET (1..k)
                    /\ k + 1 \notin s => s \in SUBSET (1..k)
  OBVIOUS
<1>1. k + 1 \in s => Max(s) = k + 1
  <2>1. SUFFICES ASSUME k + 1 \in s PROVE Max(s) = k + 1
    OBVIOUS
  <2>2. \A x \in s : x \in 1..k + 1
    OBVIOUS
  <2>3. \A x \in s : (\A y \in s : x >= y) => x = k + 1
    BY <2>1, <2>2
  <2>4. \A y \in s : k + 1 >= y
    BY <2>2
  <2> QED
    BY <2>1, <2>3, <2>4 DEF Max
<1> QED
  BY <1>1

(* FoldLeft is the value at all indices of a function on sets of indices,  *)
(* which takes the largest one last.  It exists.                           *)
IsFold(g, V, base, n, G) ==
  /\ g \in [SUBSET (1..n) -> V]
  /\ \A s \in SUBSET (1..n) :
       g[s] = IF s = {} THEN base ELSE G[<<g[s \ {Max(s)}], Max(s)>>]

LEMMA FoldExists ==
  ASSUME NEW V, NEW base \in V, NEW n \in Nat, NEW G \in [V \X (1..n) -> V]
  PROVE  \E g : IsFold(g, V, base, n, G)
<1> DEFINE Folds(k, g) ==
             \A s \in SUBSET (1..k) :
               g[s] = IF s = {} THEN base ELSE G[<<g[s \ {Max(s)}], Max(s)>>]
           HasFold(k) == \E g \in [SUBSET (1..k) -> V] : Folds(k, g)
           S == {k \in Nat : k <= n => HasFold(k)}
<1> HIDE DEF HasFold
<1>1. 0 \in S
  <2> SUFFICES HasFold(0)
    OBVIOUS
  <2> DEFINE g == [s \in SUBSET (1..0) |-> base]
  <2>1. \A s \in SUBSET (1..0) : s = {}
    OBVIOUS
  <2>2. g \in [SUBSET (1..0) -> V] /\ Folds(0, g)
    BY <2>1
  <2> QED
    BY <2>2 DEF HasFold
<1>2. ASSUME NEW k \in Nat, k \in S PROVE k + 1 \in S
  <2>1. SUFFICES ASSUME k + 1 <= n, HasFold(k) PROVE HasFold(k + 1)
    BY <1>2
  <2>2. PICK g \in [SUBSET (1..k) -> V] : Folds(k, g)
    BY <2>1 DEF HasFold
  <2> DEFINE h == [s \in SUBSET (1..k + 1) |->
                     IF k + 1 \in s THEN G[<<g[s \ {k + 1}], k + 1>>] ELSE g[s]]
  <2>3. ASSUME NEW s \in SUBSET (1..k + 1)
        PROVE  /\ k + 1 \in s => Max(s) = k + 1 /\ s \ {k + 1} \in SUBSET (1..k)
               /\ k + 1 \notin s => s \in SUBSET (1..k)
    <3>1. k + 1 \in s => Max(s) = k + 1
      <4>1. SUFFICES ASSUME k + 1 \in s PROVE Max(s) = k + 1
        OBVIOUS
      <4>2. \A x \in s : x \in 1..k + 1
        OBVIOUS
      <4>3. \A x \in s : (\A y \in s : x >= y) => x = k + 1
        BY <4>1, <4>2
      <4>4. \A y \in s : k + 1 >= y
        BY <4>2
      <4> QED
        BY <4>1, <4>3, <4>4 DEF Max
    <3> QED
      BY <3>1
  <2>4. h \in [SUBSET (1..k + 1) -> V]
    <3>1. ASSUME NEW s \in SUBSET (1..k + 1) PROVE h[s] \in V
      <4>1. CASE k + 1 \in s
        <5>1. g[s \ {k + 1}] \in V /\ k + 1 \in 1..n
          BY <2>1, <2>2, <2>3, <4>1
        <5> QED
          BY <4>1, <5>1
      <4>2. CASE k + 1 \notin s
        BY <2>2, <2>3, <4>2
      <4> QED
        BY <4>1, <4>2
    <3> QED
      BY <3>1
  <2>5. Folds(k + 1, h)
    <3>1. SUFFICES ASSUME NEW s \in SUBSET (1..k + 1)
                   PROVE  h[s] = IF s = {} THEN base
                                 ELSE G[<<h[s \ {Max(s)}], Max(s)>>]
      OBVIOUS
    <3>2. \A t \in SUBSET (1..k) : h[t] = g[t]
      <4>1. \A t \in SUBSET (1..k) : t \in SUBSET (1..k + 1) /\ k + 1 \notin t
        OBVIOUS
      <4> QED
        BY <4>1
    <3>3. CASE k + 1 \in s
      <4>1. h[s] = G[<<g[s \ {k + 1}], k + 1>>]
        BY <3>3
      <4>2. h[s \ {k + 1}] = g[s \ {k + 1}]
        BY <2>3, <3>2, <3>3
      <4> HIDE DEF h
      <4> QED
        BY <2>3, <3>3, <4>1, <4>2
    <3>4. CASE k + 1 \notin s
      <4>1. s \in SUBSET (1..k) /\ h[s] = g[s]
        BY <2>3, <3>2, <3>4
      <4>2. h[s \ {Max(s)}] = g[s \ {Max(s)}]
        BY <3>2, <4>1
      <4> HIDE DEF h
      <4> QED
        BY <2>2, <4>1, <4>2
    <3> QED
      BY <3>3, <3>4
  <2> QED
    BY <2>4, <2>5 DEF HasFold
<1>3. n \in S
  <2> HIDE DEF S
  <2> QED
    BY <1>1, <1>2, NatInductionOnSet
<1>4. HasFold(n)
  BY <1>3
<1> QED
  BY <1>4 DEF HasFold, IsFold
=============================================================================
