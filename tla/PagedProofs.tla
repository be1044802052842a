---------------------------- MODULE PagedProofs ----------------------------
(* What a page of a connection is, and what paging shows, for every table;  *)
(* and what a test finds in its files and hears of its chains.              *)
EXTENDS MCPagedQuery, TestChain, FoldLemmas, FiniteSetTheorems, SequenceTheorems, TLAPS
-----------------------------------------------------------------------------
(* A set of indices that has every smaller one with an index is counted by *)
(* its last one: this is why a bound may be a cardinality.                 *)
LEMMA InitialSegment ==
  ASSUME NEW n \in Nat, NEW S \in SUBSET (1..n),
         \A i, j \in 1..n : i < j /\ j \in S => i \in S
  PROVE  Cardinality(S) \in 0..n /\ S = 1..Cardinality(S)
<1> DEFINE c == Cardinality(S)
<1>1. \A k \in Nat : IsFiniteSet(1..k) /\ Cardinality(1..k) = k
  <2> SUFFICES ASSUME NEW k \in Nat
               PROVE  IsFiniteSet(1..k) /\ Cardinality(1..k) = k
    OBVIOUS
  <2>1. k \in Int /\ 1 \in Int
    OBVIOUS
  <2>2. /\ IsFiniteSet(1..k)
        /\ Cardinality(1..k) = IF 1 > k THEN 0 ELSE k - 1 + 1
    BY <2>1, FS_Interval, Zenon
  <2> QED
    BY <2>2
<1>2. IsFiniteSet(S) /\ c <= n
  <2>1. IsFiniteSet(1..n) /\ Cardinality(1..n) = n
    BY <1>1, Zenon
  <2> QED
    BY <2>1, FS_Subset
<1>3. c \in Nat
  BY <1>2, FS_CardinalityType
<1> HIDE DEF c
<1>4. ASSUME NEW j \in S
      PROVE  j <= c
  <2>1. (1..j) \in SUBSET S
    BY <1>4
  <2>2. j \in Nat /\ Cardinality(1..j) = j
    BY <1>1, <1>4
  <2> QED
    BY <1>2, <2>1, <2>2, FS_Subset DEF c
<1>5. ASSUME NEW j \in 1..c, j \notin S
      PROVE  FALSE
  <2>1. j \in 1..n /\ j - 1 \in Nat
    BY <1>2, <1>3, <1>5
  <2>2. S \in SUBSET (1..(j - 1))
    BY <1>5, <2>1
  <2>3. c <= j - 1
    <3>1. IsFiniteSet(1..(j - 1)) /\ Cardinality(1..(j - 1)) = j - 1
      BY <1>1, <2>1, Zenon
    <3>2. Cardinality(S) <= Cardinality(1..(j - 1))
      BY <2>2, <3>1, FS_Subset, Zenon
    <3> QED
      BY <3>1, <3>2 DEF c
  <2> QED
    BY <1>3, <2>1, <2>3, <1>5
<1>6. c \in 0..n /\ S = 1..c
  <2>1. \A j \in S : j \in 1..c
    BY <1>3, <1>4
  <2>2. \A j \in 1..c : j \in S
    BY <1>5
  <2>3. c \in 0..n
    BY <1>2, <1>3
  <2>4. S = 1..c
    BY <2>1, <2>2, Zenon
  <2> QED
    BY <2>3, <2>4
<1> QED
  BY <1>6 DEF c

(* Where the bounds of a key are, in a container in order.                 *)
Divides(i, keys, k) ==
  i \in 1..Len(keys) + 1 /\ \A m \in 1..Len(keys) : m < i <=> keys[m] < k
DividesPast(i, keys, k) ==
  i \in 1..Len(keys) + 1 /\ \A m \in 1..Len(keys) : m < i <=> keys[m] <= k

LEMMA BoundsDivide ==
  ASSUME NEW keys \in Seq(Int), Ascending(keys), NEW k \in Int
  PROVE  Divides(LowerBound(keys, k), keys, k) /\ DividesPast(UpperBound(keys, k), keys, k)
<1>1. Len(keys) \in Nat /\ DOMAIN keys = 1..Len(keys) /\ \A m \in 1..Len(keys) : keys[m] \in Int
  OBVIOUS
<1>2. Divides(LowerBound(keys, k), keys, k)
  <2> DEFINE S == {i \in 1..Len(keys) : keys[i] < k}
  <2>1. \A i, j \in 1..Len(keys) : i < j /\ j \in S => i \in S
    BY <1>1 DEF Ascending
  <2>2. S \in SUBSET (1..Len(keys)) /\ \A m \in 1..Len(keys) : m \in S <=> keys[m] < k
    OBVIOUS
  <2>3. LowerBound(keys, k) = 1 + Cardinality(S)
    BY <1>1, Zenon DEF LowerBound
  <2> HIDE DEF S
  <2>4. Cardinality(S) \in 0..Len(keys) /\ S = 1..Cardinality(S)
    BY <1>1, <2>1, <2>2, InitialSegment
  <2> QED
    BY <1>1, <2>2, <2>3, <2>4 DEF Divides
<1>3. DividesPast(UpperBound(keys, k), keys, k)
  <2> DEFINE S == {i \in 1..Len(keys) : keys[i] <= k}
  <2>1. \A i, j \in 1..Len(keys) : i < j /\ j \in S => i \in S
    BY <1>1 DEF Ascending
  <2>2. S \in SUBSET (1..Len(keys)) /\ \A m \in 1..Len(keys) : m \in S <=> keys[m] <= k
    OBVIOUS
  <2>3. UpperBound(keys, k) = 1 + Cardinality(S)
    BY <1>1, Zenon DEF UpperBound
  <2> HIDE DEF S
  <2>4. Cardinality(S) \in 0..Len(keys) /\ S = 1..Cardinality(S)
    BY <1>1, <2>1, <2>2, InitialSegment
  <2> QED
    BY <1>1, <2>2, <2>3, <2>4 DEF DividesPast
<1> QED
  BY <1>2, <1>3

(* A part of a part.                                                       *)
LEMMA PartOfPart ==
  ASSUME NEW s \in Seq(Int), NEW i \in 1..Len(s) + 1, NEW j \in 0..Len(s), i <= j + 1,
         NEW m \in Nat \ {0}, NEW n \in 0..j + 1 - i
  PROVE  SubSeq(SubSeq(s, i, j), m, n) = SubSeq(s, i + m - 1, i + n - 1)
<1> DEFINE t == SubSeq(s, i, j)
           u == SubSeq(t, m, n)
           v == SubSeq(s, i + m - 1, i + n - 1)
<1>1. Len(s) \in Nat /\ i \in Int /\ j \in Int /\ m \in Int /\ n \in Int
  OBVIOUS
<1>2. \A x \in i..j : s[x] \in Int
  BY <1>1
<1>3. /\ t \in Seq(Int)
      /\ Len(t) = IF i <= j THEN j - i + 1 ELSE 0
      /\ \A x \in 1..j - i + 1 : t[x] = s[i + x - 1]
  BY <1>1, <1>2, SubSeqProperties
<1> HIDE DEF t
<1>4. \A x \in m..n : t[x] \in Int
  BY <1>1, <1>3
<1>5. /\ u \in Seq(Int)
      /\ Len(u) = IF m <= n THEN n - m + 1 ELSE 0
      /\ \A x \in 1..n - m + 1 : u[x] = t[m + x - 1]
  BY <1>1, <1>4, SubSeqProperties
<1>6. \A x \in i + m - 1..i + n - 1 : s[x] \in Int
  BY <1>1
<1>7. /\ v \in Seq(Int)
      /\ Len(v) = IF i + m - 1 <= i + n - 1 THEN (i + n - 1) - (i + m - 1) + 1 ELSE 0
      /\ \A x \in 1..(i + n - 1) - (i + m - 1) + 1 : v[x] = s[(i + m - 1) + x - 1]
  <2>1. i + m - 1 \in Int /\ i + n - 1 \in Int
    BY <1>1
  <2> QED
    BY <1>6, <2>1, SubSeqProperties
<1> HIDE DEF u, v
<1>8. Len(u) = Len(v)
  BY <1>1, <1>5, <1>7
<1>9. \A x \in 1..Len(u) : u[x] = v[x]
  BY <1>1, <1>3, <1>5, <1>7
<1>10. u = v
  BY <1>5, <1>7, <1>8, <1>9, SeqEqual
<1> QED
  BY <1>10 DEF t, u, v

-----------------------------------------------------------------------------
(* What make_connection is given: nodes in the order of their keys, and    *)
(* the bounds of every key that an argument can be.                        *)
Container(c, K) ==
  /\ K \in SUBSET Int /\ Null \notin K
  /\ c.keys \in Seq(Int) /\ Ascending(c.keys)
  /\ \A k \in K : Divides(c.lower[k], c.keys, k) /\ DividesPast(c.upper[k], c.keys, k)

Bounding(c, x, else) ==
  /\ Lower(c, x, else) \in 1..Len(c.keys) + 1
  /\ Upper(c, x, else) \in 1..Len(c.keys) + 1
  /\ x = Null => Lower(c, x, else) = else /\ Upper(c, x, else) = else
  /\ x # Null =>
       /\ x \in Int
       /\ \A m \in 1..Len(c.keys) : /\ m < Lower(c, x, else) <=> c.keys[m] < x
                                    /\ m < Upper(c, x, else) <=> c.keys[m] <= x

LEMMA BoundOrElse ==
  ASSUME NEW c, NEW K, Container(c, K), NEW x \in K \cup {Null},
         NEW else \in 1..Len(c.keys) + 1
  PROVE  Bounding(c, x, else)
<1>1. CASE x = Null
  BY <1>1 DEF Lower, Upper, Bounding
<1>2. CASE x # Null
  <2>1. x \in K /\ x \in Int
    BY <1>2 DEF Container
  <2>2. Divides(c.lower[x], c.keys, x) /\ DividesPast(c.upper[x], c.keys, x)
    BY <2>1 DEF Container
  <2>3. Lower(c, x, else) = c.lower[x] /\ Upper(c, x, else) = c.upper[x]
    BY <1>2 DEF Lower, Upper
  <2> QED
    BY <1>2, <2>1, <2>2, <2>3 DEF Divides, DividesPast, Bounding
<1> QED
  BY <1>1, <1>2

(* An interval of indices that are those of the keys in a set.             *)
Cuts(r, n) == r.begin \in 1..n + 1 /\ r.end \in 1..n + 1 /\ r.begin <= r.end

LEMMA RangeIsInRange ==
  ASSUME NEW c, NEW K, Container(c, K), NEW a,
         a.gt \in K \cup {Null}, a.ge \in K \cup {Null},
         a.lt \in K \cup {Null}, a.le \in K \cup {Null}
  PROVE  /\ Cuts(RangeOf(a, c), Len(c.keys))
         /\ \A m \in 1..Len(c.keys) :
              InRange(a, c.keys[m]) <=> RangeOf(a, c).begin <= m /\ m < RangeOf(a, c).end
<1> DEFINE n == Len(c.keys)
           ge == Lower(c, a.ge, Begin)
           gt == Upper(c, a.gt, Begin)
           le == Upper(c, a.le, End(c))
           lt == Lower(c, a.lt, End(c))
           r == RangeOf(a, c)
<1>1. n \in Nat /\ \A m \in 1..n : c.keys[m] \in Int
  BY DEF Container
<1>2. Begin \in 1..n + 1 /\ End(c) \in 1..n + 1 /\ Begin = 1 /\ End(c) = n + 1
  BY <1>1 DEF Begin, End
<1>3. /\ ge \in 1..n + 1 /\ gt \in 1..n + 1 /\ le \in 1..n + 1 /\ lt \in 1..n + 1
      /\ \A m \in 1..n : (a.ge # Null => c.keys[m] >= a.ge) <=> ge <= m
      /\ \A m \in 1..n : (a.gt # Null => c.keys[m] > a.gt) <=> gt <= m
      /\ \A m \in 1..n : (a.le # Null => c.keys[m] <= a.le) <=> m < le
      /\ \A m \in 1..n : (a.lt # Null => c.keys[m] < a.lt) <=> m < lt
  <2>1. ge \in 1..n + 1 /\ \A m \in 1..n : (a.ge # Null => c.keys[m] >= a.ge) <=> ge <= m
    <3>1. Bounding(c, a.ge, Begin)
      BY <1>2, BoundOrElse, Zenon
    <3> QED
      BY <1>1, <1>2, <3>1 DEF Bounding
  <2>2. gt \in 1..n + 1 /\ \A m \in 1..n : (a.gt # Null => c.keys[m] > a.gt) <=> gt <= m
    <3>1. Bounding(c, a.gt, Begin)
      BY <1>2, BoundOrElse, Zenon
    <3> QED
      BY <1>1, <1>2, <3>1 DEF Bounding
  <2>3. le \in 1..n + 1 /\ \A m \in 1..n : (a.le # Null => c.keys[m] <= a.le) <=> m < le
    <3>1. Bounding(c, a.le, End(c))
      BY <1>2, BoundOrElse, Zenon
    <3> QED
      BY <1>1, <1>2, <3>1 DEF Bounding
  <2>4. lt \in 1..n + 1 /\ \A m \in 1..n : (a.lt # Null => c.keys[m] < a.lt) <=> m < lt
    <3>1. Bounding(c, a.lt, End(c))
      BY <1>2, BoundOrElse, Zenon
    <3> QED
      BY <1>1, <1>2, <3>1 DEF Bounding
  <2> QED
    BY <2>1, <2>2, <2>3, <2>4
<1>4. r.begin = Larger(ge, gt) /\ r.end = Larger(r.begin, Smaller(le, lt))
  BY DEF RangeOf
<1>5. \A m \in 1..n : InRange(a, c.keys[m]) <=> gt <= m /\ ge <= m /\ m < lt /\ m < le
  BY <1>3 DEF InRange
<1> HIDE DEF n, ge, gt, le, lt, r
<1>6. Cuts(r, n)
  BY <1>1, <1>3, <1>4 DEF Cuts, Larger, Smaller
<1>7. \A m \in 1..n : gt <= m /\ ge <= m /\ m < lt /\ m < le <=> r.begin <= m /\ m < r.end
  BY <1>1, <1>3, <1>4 DEF Larger, Smaller
<1>8. \A m \in 1..n : InRange(a, c.keys[m]) <=> r.begin <= m /\ m < r.end
  BY <1>5, <1>7
<1> QED
  BY <1>6, <1>8 DEF n, r

LEMMA WindowIsInWindow ==
  ASSUME NEW c, NEW K, Container(c, K), NEW a,
         a.after \in K \cup {Null}, a.before \in K \cup {Null},
         NEW r, Cuts(r, Len(c.keys)),
         \A m \in 1..Len(c.keys) : InRange(a, c.keys[m]) <=> r.begin <= m /\ m < r.end
  PROVE  /\ Cuts(Window(a, c, r), Len(c.keys))
         /\ r.begin <= Window(a, c, r).begin /\ Window(a, c, r).end <= r.end
         /\ \A m \in 1..Len(c.keys) :
              InWindow(a, c.keys[m]) <=> Window(a, c, r).begin <= m /\ m < Window(a, c, r).end
<1> DEFINE n == Len(c.keys)
           after == Upper(c, a.after, r.begin)
           before == Lower(c, a.before, r.end)
           w == Window(a, c, r)
<1>1. n \in Nat /\ \A m \in 1..n : c.keys[m] \in Int
  BY DEF Container
<1>2. r.begin \in 1..n + 1 /\ r.end \in 1..n + 1 /\ r.begin <= r.end
  BY DEF Cuts
<1>3. after \in 1..n + 1 /\ \A m \in 1..n : r.begin <= m =>
        ((a.after # Null => c.keys[m] > a.after) <=> after <= m)
  <2>1. Bounding(c, a.after, r.begin)
    BY <1>2, BoundOrElse, Zenon
  <2> QED
    BY <1>1, <1>2, <2>1 DEF Bounding
<1>4. before \in 1..n + 1 /\ \A m \in 1..n : m < r.end =>
        ((a.before # Null => c.keys[m] < a.before) <=> m < before)
  <2>1. Bounding(c, a.before, r.end)
    BY <1>2, BoundOrElse, Zenon
  <2> QED
    BY <1>1, <1>2, <2>1 DEF Bounding
<1>5. /\ w.begin = Clamp(after, r.begin, r.end)
      /\ w.end = Larger(w.begin, Clamp(before, r.begin, r.end))
  BY DEF Window
<1>6. \A m \in 1..n : InWindow(a, c.keys[m]) <=>
        r.begin <= m /\ m < r.end /\ after <= m /\ m < before
  BY <1>3, <1>4 DEF InWindow
<1> HIDE DEF n, after, before, w
<1>7. Cuts(w, n) /\ r.begin <= w.begin /\ w.end <= r.end
  BY <1>1, <1>2, <1>3, <1>4, <1>5 DEF Cuts, Clamp, Larger, Smaller
<1>8. \A m \in 1..n : r.begin <= m /\ m < r.end /\ after <= m /\ m < before <=>
        w.begin <= m /\ m < w.end
  BY <1>1, <1>2, <1>3, <1>4, <1>5 DEF Clamp, Larger, Smaller
<1>9. \A m \in 1..n : InWindow(a, c.keys[m]) <=> w.begin <= m /\ m < w.end
  BY <1>6, <1>8
<1> QED
  BY <1>7, <1>9 DEF n, w

(* What the two counts leave of the window.                                *)
Cutting(s, w, f, l) ==
  /\ FirstEnd(w, f) \in w.begin..w.end
  /\ LastBegin(w, FirstEnd(w, f), l) \in w.begin..FirstEnd(w, f)
  /\ LastOf(FirstOf(SubSeq(s, w.begin, w.end - 1), f), l) =
       SubSeq(s, LastBegin(w, FirstEnd(w, f), l), FirstEnd(w, f) - 1)

LEMMA CountsCut ==
  ASSUME NEW s \in Seq(Int), NEW w, Cuts(w, Len(s)), Null \notin Nat,
         NEW f \in Nat \cup {Null}, NEW l \in Nat \cup {Null}
  PROVE  Cutting(s, w, f, l)
<1> DEFINE b == w.begin
           e == w.end
           fe == FirstEnd(w, f)
           lb == LastBegin(w, fe, l)
           t == SubSeq(s, b, e - 1)
           u == SubSeq(s, b, fe - 1)
<1>1. /\ Len(s) \in Nat /\ b \in 1..Len(s) + 1 /\ e \in 1..Len(s) + 1 /\ b <= e
      /\ \A m \in 1..Len(s) : s[m] \in Int
  BY DEF Cuts
<1>2. fe \in b..e /\ fe = IF f = Null THEN e ELSE IF e < b + f THEN e ELSE b + f
  BY <1>1 DEF FirstEnd, Smaller
<1>3. lb \in b..fe /\ lb = IF l = Null THEN b ELSE IF b < fe - l THEN fe - l ELSE b
  BY <1>1, <1>2 DEF LastBegin, Larger
<1>4. \A n \in b..Len(s) + 1 : /\ SubSeq(s, b, n - 1) \in Seq(Int)
                               /\ Len(SubSeq(s, b, n - 1)) = n - b
  <2> SUFFICES ASSUME NEW n \in b..Len(s) + 1
               PROVE  SubSeq(s, b, n - 1) \in Seq(Int) /\ Len(SubSeq(s, b, n - 1)) = n - b
    OBVIOUS
  <2>1. b \in Int /\ n - 1 \in Int /\ n \in Int /\ b <= n
    BY <1>1
  <2>2. \A i \in b..n - 1 : s[i] \in Int
    BY <1>1
  <2>3. /\ SubSeq(s, b, n - 1) \in Seq(Int)
        /\ Len(SubSeq(s, b, n - 1)) = IF b <= n - 1 THEN n - 1 - b + 1 ELSE 0
    BY <2>1, <2>2, SubSeqProperties
  <2> QED
    BY <2>1, <2>3
<1>5. t \in Seq(Int) /\ Len(t) = e - b /\ u \in Seq(Int) /\ Len(u) = fe - b
  <2> HIDE DEF b, e, fe
  <2>1. e \in b..Len(s) + 1 /\ fe \in b..Len(s) + 1
    BY <1>1, <1>2
  <2> QED
    BY <1>4, <2>1
<1>6. \A m \in Nat \ {0}, n \in 0..Len(s), k \in b..Len(s) + 1 :
        n <= k - b => SubSeq(SubSeq(s, b, k - 1), m, n) = SubSeq(s, b + m - 1, b + n - 1)
  <2> SUFFICES ASSUME NEW m \in Nat \ {0}, NEW n \in 0..Len(s), NEW k \in b..Len(s) + 1,
                      n <= k - b
               PROVE  SubSeq(SubSeq(s, b, k - 1), m, n) = SubSeq(s, b + m - 1, b + n - 1)
    OBVIOUS
  <2> DEFINE j == k - 1
  <2>1. b \in 1..Len(s) + 1 /\ j \in 0..Len(s) /\ b <= j + 1 /\ n \in 0..j + 1 - b
    BY <1>1
  <2> HIDE DEF b, j
  <2>2. SubSeq(SubSeq(s, b, j), m, n) = SubSeq(s, b + m - 1, b + n - 1)
    BY <2>1, PartOfPart
  <2> QED
    BY <2>2 DEF j
<1> HIDE DEF b, e, fe, lb
<1>7. FirstOf(t, f) = u
  <2>1. CASE f = Null
    BY <1>2, <2>1 DEF FirstOf
  <2>2. CASE f # Null
    <3> DEFINE n == Smaller(f, Len(t))
    <3>1. f \in Nat
      BY <2>2
    <3>2. n \in 0..Len(s) /\ n <= e - b /\ b + n - 1 = fe - 1 /\ b + 1 - 1 = b
      BY <1>1, <1>2, <1>5, <2>2, <3>1 DEF Smaller
    <3>3. FirstOf(t, f) = SubSeq(t, 1, n)
      BY <2>2 DEF FirstOf
    <3> HIDE DEF n
    <3>4. SubSeq(SubSeq(s, b, e - 1), 1, n) = SubSeq(s, b + 1 - 1, b + n - 1)
      BY <1>1, <1>6, <3>2
    <3> QED
      BY <3>2, <3>3, <3>4
  <2> QED
    BY <2>1, <2>2
<1>8. LastOf(u, l) = SubSeq(s, lb, fe - 1)
  <2>1. CASE l = Null
    BY <1>3, <2>1 DEF LastOf
  <2>2. CASE l # Null
    <3> DEFINE m == Larger(1, Len(u) + 1 - l)
               n == Len(u)
    <3>1. l \in Nat
      BY <2>2
    <3>2. /\ m \in Nat \ {0} /\ n \in 0..Len(s) /\ n <= fe - b
          /\ b + m - 1 = lb /\ b + n - 1 = fe - 1
      BY <1>1, <1>2, <1>3, <1>5, <2>2, <3>1 DEF Larger
    <3>3. LastOf(u, l) = SubSeq(u, m, n)
      BY <2>2 DEF LastOf
    <3> HIDE DEF m, n
    <3>4. SubSeq(SubSeq(s, b, fe - 1), m, n) = SubSeq(s, b + m - 1, b + n - 1)
      BY <1>1, <1>2, <1>6, <3>2
    <3> QED
      BY <3>2, <3>3, <3>4
  <2> QED
    BY <2>1, <2>2
<1> QED
  BY <1>2, <1>3, <1>7, <1>8 DEF b, e, fe, lb, t, u, Cutting

Asks(a, K) ==
  /\ a.gt \in K \cup {Null} /\ a.ge \in K \cup {Null}
  /\ a.lt \in K \cup {Null} /\ a.le \in K \cup {Null}
  /\ a.after \in K \cup {Null} /\ a.before \in K \cup {Null}
  /\ a.first \in Nat \cup {Null} /\ a.last \in Nat \cup {Null}

(* A page as the arguments define it, whatever they are and whatever the   *)
(* container holds (make_connection).                                      *)
LEMMA ConnectionAsDefined ==
  ASSUME NEW c, NEW K, Container(c, K), NEW a, Asks(a, K)
  PROVE  AsDefined(MakeConnection(a, c), a, c.keys)
<1> DEFINE s == c.keys
           n == Len(s)
           r == RangeOf(a, c)
           w == Window(a, c, r)
           fe == FirstEnd(w, a.first)
           lb == LastBegin(w, fe, a.last)
           p == MakeConnection(a, c)
           edges == SubSeq(s, lb, fe - 1)
<1>1. /\ s \in Seq(Int) /\ n \in Nat /\ DOMAIN s = 1..n /\ Null \notin Nat
      /\ \A i, j \in 1..n : i < j => s[i] < s[j]
      /\ \A i \in 1..n : s[i] \in Int
  BY NullAssumption DEF Container, Ascending
<1>2. /\ Cuts(r, n)
      /\ \A m \in 1..n : InRange(a, s[m]) <=> r.begin <= m /\ m < r.end
  BY RangeIsInRange DEF Asks
<1>3. /\ Cuts(w, n) /\ r.begin <= w.begin /\ w.end <= r.end
      /\ \A m \in 1..n : InWindow(a, s[m]) <=> w.begin <= m /\ m < w.end
  <2> HIDE DEF r
  <2> QED
    BY <1>2, WindowIsInWindow DEF Asks
<1>4. /\ fe \in w.begin..w.end /\ lb \in w.begin..fe
      /\ LastOf(FirstOf(SubSeq(s, w.begin, w.end - 1), a.first), a.last) = edges
  <2> HIDE DEF w
  <2>1. Cuts(w, Len(s)) /\ a.first \in Nat \cup {Null} /\ a.last \in Nat \cup {Null}
    BY <1>3 DEF Asks
  <2>2. Cutting(s, w, a.first, a.last)
    BY <1>1, <2>1, CountsCut, Zenon
  <2> QED
    BY <2>2 DEF Cutting
<1>5. /\ p.edges = edges
      /\ p.hasPreviousPage = (lb # r.begin)
      /\ p.hasNextPage = (fe # r.end)
      /\ edges # <<>> => p.startCursor = Head(edges) /\ p.endCursor = Last(edges)
  <2> DEFINE chosen == IF a.last # Null /\ a.first = Null
                       THEN Backward(r, w, a.last)
                       ELSE Forward(r, w, a.first, a.last)
  <2>1. p = Page(SubSeq(s, chosen.begin, chosen.end - 1),
                 chosen.hasPreviousPage, chosen.hasNextPage)
    BY Zenon DEF MakeConnection
  <2>2. /\ chosen.begin = lb /\ chosen.end = fe
        /\ chosen.hasPreviousPage = (lb # r.begin)
        /\ chosen.hasNextPage = (fe # r.end)
    <3> HIDE DEF r, w, n, s, p
    <3>1. CASE a.last # Null /\ a.first = Null
      BY <3>1 DEF Backward, FirstEnd, LastBegin
    <3>2. CASE ~(a.last # Null /\ a.first = Null)
      <4>1. /\ chosen.begin = lb /\ chosen.end = fe
            /\ chosen.hasPreviousPage = (w.begin # r.begin \/ lb # w.begin)
            /\ chosen.hasNextPage = (fe # r.end)
        BY <3>2 DEF Forward
      <4>2. (w.begin # r.begin \/ lb # w.begin) = (lb # r.begin)
        <5> HIDE DEF fe, lb
        <5> QED
          BY <1>1, <1>2, <1>3, <1>4 DEF Cuts
      <4> QED
        BY <4>1, <4>2
    <3> QED
      BY <3>1, <3>2
  <2> HIDE DEF chosen, p, lb, fe, r, w, s
  <2>3. p = Page(edges, lb # r.begin, fe # r.end)
    BY <2>1, <2>2
  <2> QED
    BY <2>3 DEF Page
<1> HIDE DEF fe, lb, r, w, p, s, n
<1>6. /\ r.begin \in 1..n + 1 /\ r.end \in 1..n + 1 /\ r.begin <= r.end
      /\ w.begin \in 1..n + 1 /\ w.end \in 1..n + 1 /\ w.begin <= w.end
  BY <1>2, <1>3 DEF Cuts
<1>7. ASSUME edges # <<>>
      PROVE  /\ p.hasPreviousPage <=> \E m \in 1..n : InRange(a, s[m]) /\ s[m] < p.startCursor
             /\ p.hasNextPage <=> \E m \in 1..n : InRange(a, s[m]) /\ s[m] > p.endCursor
  <2>1. lb \in Int /\ fe \in Int /\ fe - 1 \in Int /\ \A i \in lb..fe - 1 : s[i] \in Int
    BY <1>1, <1>4, <1>6
  <2>2. /\ edges \in Seq(Int)
        /\ Len(edges) = IF lb <= fe - 1 THEN fe - 1 - lb + 1 ELSE 0
        /\ \A i \in 1..fe - 1 - lb + 1 : edges[i] = s[lb + i - 1]
    BY <2>1, SubSeqProperties
  <2>3. Len(edges) # 0
    BY <1>7, <2>2, EmptySeq
  <2>4. lb < fe /\ Len(edges) = fe - lb
    BY <2>1, <2>2, <2>3
  <2>5. /\ lb \in 1..n /\ fe - 1 \in 1..n /\ fe <= r.end /\ r.begin <= lb
    <3>1. /\ fe \in w.begin..w.end /\ lb \in w.begin..fe
          /\ r.begin <= w.begin /\ w.end <= r.end /\ n \in Nat
      BY <1>1, <1>3, <1>4, Zenon
    <3>2. lb < fe
      BY <2>4
    <3> HIDE DEF edges
    <3> QED
      BY <1>6, <3>1, <3>2
  <2>6. Head(edges) = edges[1] /\ Last(edges) = edges[Len(edges)]
    BY <2>2, <2>3 DEF Last
  <2>7. p.startCursor = s[lb] /\ p.endCursor = s[fe - 1]
    <3> HIDE DEF edges
    <3>1. edges[1] = s[lb + 1 - 1] /\ edges[Len(edges)] = s[lb + Len(edges) - 1]
      BY <2>1, <2>2, <2>4
    <3>2. lb + 1 - 1 = lb /\ lb + Len(edges) - 1 = fe - 1
      BY <2>1, <2>4
    <3> QED
      BY <1>5, <1>7, <2>6, <3>1, <3>2
  <2>8. p.hasPreviousPage <=> \E m \in 1..n : InRange(a, s[m]) /\ s[m] < p.startCursor
    <3>1. ASSUME lb # r.begin
          PROVE  \E m \in 1..n : InRange(a, s[m]) /\ s[m] < s[lb]
      <4>1. r.begin \in 1..n /\ r.begin < lb /\ r.begin < r.end
        BY <1>1, <1>6, <2>1, <2>4, <2>5, <3>1
      <4>2. InRange(a, s[r.begin]) /\ s[r.begin] < s[lb]
        BY <1>1, <1>2, <2>5, <4>1
      <4> QED
        BY <4>1, <4>2
    <3>2. ASSUME NEW m \in 1..n, InRange(a, s[m]), s[m] < s[lb]
          PROVE  lb # r.begin
      <4>1. r.begin <= m
        BY <1>2, <3>2
      <4>2. ~(lb < m) /\ lb # m
        BY <1>1, <2>5, <3>2
      <4> QED
        BY <1>6, <2>5, <4>1, <4>2
    <3> QED
      BY <1>5, <2>7, <3>1, <3>2
  <2>9. p.hasNextPage <=> \E m \in 1..n : InRange(a, s[m]) /\ s[m] > p.endCursor
    <3>1. ASSUME fe # r.end
          PROVE  \E m \in 1..n : InRange(a, s[m]) /\ s[m] > s[fe - 1]
      <4>1. fe \in 1..n /\ r.begin <= fe /\ fe < r.end /\ fe - 1 < fe
        BY <1>1, <1>6, <2>1, <2>4, <2>5, <3>1
      <4>2. InRange(a, s[fe]) /\ s[fe - 1] < s[fe] /\ s[fe - 1] \in Int /\ s[fe] \in Int
        BY <1>1, <1>2, <2>5, <4>1
      <4> QED
        BY <4>1, <4>2
    <3>2. ASSUME NEW m \in 1..n, InRange(a, s[m]), s[m] > s[fe - 1]
          PROVE  fe # r.end
      <4>1. m < r.end
        BY <1>2, <3>2
      <4>2. ~(m < fe - 1) /\ m # fe - 1
        BY <1>1, <2>5, <3>2
      <4> QED
        BY <1>6, <2>5, <4>1, <4>2
    <3> QED
      BY <1>5, <2>7, <3>1, <3>2
  <2> QED
    BY <2>8, <2>9
<1>8. w.begin \in 1..Len(s) + 1 /\ w.end - 1 \in 0..Len(s)
  BY <1>6, <1>1 DEF n
<1>9. \A m \in DOMAIN s : m \in w.begin..w.end - 1 <=> InWindow(a, s[m])
  BY <1>1, <1>3, <1>6
<1>10. AsDefined(p, a, s)
  BY <1>1, <1>4, <1>5, <1>7, <1>8, <1>9 DEF AsDefined
<1> QED
  BY <1>10 DEF p, s

-----------------------------------------------------------------------------
(* The two kinds of containers that have a connection.                     *)
LEMMA TableIsContainer ==
  ASSUME NEW s \in Seq(Key), Ascending(s)
  PROVE  Container(Table(s, Key), Key)
<1> DEFINE c == Table(s, Key)
<1>1. Key \in SUBSET Int /\ Null \notin Key /\ s \in Seq(Int)
  BY KeyAssumption, NullAssumption, SeqMonotonic
<1>2. \A k \in Key : Divides(LowerBound(s, k), s, k) /\ DividesPast(UpperBound(s, k), s, k)
  BY <1>1, BoundsDivide
<1>3. /\ c.keys = s
      /\ \A k \in Key : c.lower[k] = LowerBound(s, k) /\ c.upper[k] = UpperBound(s, k)
  BY DEF Table
<1> HIDE DEF c
<1>4. Container(c, Key)
  BY <1>1, <1>2, <1>3 DEF Container
<1> QED
  BY <1>4 DEF c

LEMMA LogIsContainer ==
  ASSUME NEW from \in AnyKey, NEW to \in AnyKey
  PROVE  /\ Container(LogView(Numbered(from, to)), AnyKey)
         /\ LogView(Numbered(from, to)).keys =
              [i \in DOMAIN Numbered(from, to) |-> Numbered(from, to)[i].num]
<1> DEFINE n == IF to < from THEN 0 ELSE to + 1 - from
           log == Numbered(from, to)
           keys == [i \in DOMAIN log |-> log[i].num]
           c == LogView(log)
<1>1. AnyMaxKey \in Nat /\ AnyKey \in SUBSET Int /\ Null \notin AnyKey
  BY AnyKeyAssumption, NullAssumption DEF AnyKey
<1>2. from \in 1..AnyMaxKey /\ to \in 1..AnyMaxKey /\ n \in Nat
  BY <1>1 DEF AnyKey
<1>3. 1..(to + 1 - from) = 1..n
  BY <1>1, <1>2
<1>4. log = [i \in 1..n |-> [num |-> from + i - 1]]
  BY <1>3 DEF Numbered
<1> HIDE DEF n, log
<1>5. /\ DOMAIN log = 1..n /\ Len(log) = n
      /\ \A i \in 1..n : log[i].num = from + i - 1
      /\ log = <<>> <=> n = 0
  <2>1. log \in Seq([num : Int])
    BY <1>1, <1>2, <1>4
  <2>2. DOMAIN log = 1..n /\ \A i \in 1..n : log[i].num = from + i - 1
    BY <1>2, <1>4
  <2>3. Len(log) = n
    BY <1>2, <1>4, <2>1, <2>2
  <2> QED
    BY <2>1, <2>2, <2>3, EmptySeq
<1>6. keys = [i \in 1..n |-> from + i - 1]
  BY <1>5
<1> HIDE DEF keys
<1>7. /\ keys \in Seq(Int) /\ Len(keys) = n /\ DOMAIN keys = 1..n
      /\ \A i \in 1..n : keys[i] = from + i - 1
  BY <1>1, <1>2, <1>6
<1>8. Ascending(keys)
  BY <1>1, <1>2, <1>7 DEF Ascending
<1>9. \A k \in Int : Divides(Log!LowerBoundByNum(log, k), keys, k)
  <2> SUFFICES ASSUME NEW k \in Int
               PROVE  Divides(Log!LowerBoundByNum(log, k), keys, k)
    OBVIOUS
  <2>1. Log!LowerBoundByNum(log, k) =
          IF n = 0 THEN 1 ELSE IF k <= from THEN 1
          ELSE IF k - from < n THEN 1 + (k - from) ELSE n + 1
    BY <1>1, <1>2, <1>5 DEF Log!LowerBoundByNum
  <2> QED
    BY <1>1, <1>2, <1>7, <2>1 DEF Divides
<1>10. \A k \in AnyKey : DividesPast(Log!UpperBoundByNum(log, k), keys, k)
  <2> SUFFICES ASSUME NEW k \in AnyKey
               PROVE  DividesPast(Log!UpperBoundByNum(log, k), keys, k)
    OBVIOUS
  <2>1. k \in 1..AnyMaxKey
    BY DEF AnyKey
  <2>2. CASE k = AnyMaxKey
    <3>1. Log!UpperBoundByNum(log, k) = n + 1
      BY <1>5, <2>2 DEF Log!UpperBoundByNum
    <3>2. \A m \in 1..n : m < n + 1 /\ from + m - 1 <= AnyMaxKey
      BY <1>1, <1>2, <2>1 DEF n
    <3> QED
      BY <1>1, <1>2, <1>7, <2>2, <3>1, <3>2 DEF DividesPast
  <2>3. CASE k # AnyMaxKey
    <3>1. Log!UpperBoundByNum(log, k) = Log!LowerBoundByNum(log, k + 1)
      BY <2>3 DEF Log!UpperBoundByNum
    <3>2. Divides(Log!LowerBoundByNum(log, k + 1), keys, k + 1)
      BY <1>9, <2>1
    <3> QED
      BY <1>1, <1>2, <1>7, <2>1, <3>1, <3>2 DEF Divides, DividesPast
  <2> QED
    BY <2>2, <2>3
<1>11. /\ c.keys = keys
       /\ \A k \in AnyKey : /\ c.lower[k] = Log!LowerBoundByNum(log, k)
                            /\ c.upper[k] = Log!UpperBoundByNum(log, k)
  BY DEF LogView, keys
<1> HIDE DEF c
<1>12. Container(c, AnyKey)
  BY <1>1, <1>7, <1>8, <1>9, <1>10, <1>11 DEF Container
<1> QED
  BY <1>11, <1>12 DEF c, log, keys

(* The one query that a behaviour asks, and what is asked.                 *)
OneQuery ==
  kind # "paged" =>
    /\ Asks(args, AnyKey)
    /\ \/ kind = "table" /\ table \in Seq(AnyKey) /\ Ascending(table)
       \/ kind = "log" /\ \E from, to \in AnyKey : table = Numbered(from, to)

(* A page holds what its arguments ask for, however many there are, in     *)
(* whatever order they cut and wherever they lie, whether a table or the   *)
(* block log is asked; and it says whether the range goes on at its ends   *)
(* (make_connection).                                                      *)
THEOREM EveryPageIsAsDefined == MCSpec => []PageAsDefined
<1> DEFINE Inv == OneQuery /\ PageAsDefined
<1>1. MCInit => Inv
  <2> SUFFICES ASSUME MCInit
               PROVE  Inv
    OBVIOUS
  <2>1. CASE kind = "paged"
    BY <2>1 DEF OneQuery, PageAsDefined, Fresh
  <2>2. CASE Asked
    <3>1. answered = FALSE /\ args \in Arguments
      BY <2>2, Zenon DEF Asked
    <3>2. Asks(args, AnyKey)
      BY <3>1 DEF Arguments, Asks
    <3>3. ASSUME table \in Tables(AnyKey)
          PROVE  table \in Seq(AnyKey) /\ Ascending(table)
      <4>1. PICK n \in 0..Cardinality(AnyKey) : table \in [1..n -> AnyKey]
        BY <3>3 DEF Tables, SeqOf
      <4>2. n \in Nat
        OBVIOUS
      <4> QED
        BY <3>3, <4>1, <4>2 DEF Tables
    <3>4. \/ kind = "table" /\ table \in Seq(AnyKey) /\ Ascending(table)
          \/ kind = "log" /\ \E from, to \in AnyKey : table = Numbered(from, to)
      BY <2>2, <3>3, Zenon DEF Asked
    <3> QED
      BY <3>1, <3>2, <3>4 DEF OneQuery, PageAsDefined, Fresh
  <2> QED
    BY <2>1, <2>2 DEF MCInit
<1>2. Inv /\ [MCNext]_mcVars => Inv'
  <2> SUFFICES ASSUME Inv, [MCNext]_mcVars
               PROVE  Inv'
    OBVIOUS
  <2>1. CASE kind = "paged" /\ UNCHANGED <<kind, answered>>
    BY <2>1 DEF OneQuery, PageAsDefined, Fresh
  <2>2. CASE Answered
    <3>1. UNCHANGED <<pageSize, table, args, changes, seen, steady, kind>>
      BY <2>2 DEF Answered
    <3>2. OneQuery'
      BY <3>1 DEF OneQuery, Asks
    <3>3. CASE greetings
      <4>1. kind = "table" /\ page' = MakeConnection(args, Table(table, Key))
        BY <3>3 DEF greetings, Query
      <4>2. Asks(args, AnyKey) /\ table \in Seq(AnyKey) /\ Ascending(table)
        BY <4>1 DEF OneQuery
      <4>3. Asks(args, Key) /\ table \in Seq(Key)
        BY <4>2, AnyKeyAssumption, SeqMonotonic DEF Asks
      <4>4. Container(Table(table, Key), Key) /\ Table(table, Key).keys = table
        BY <4>2, <4>3, TableIsContainer DEF Table
      <4>5. AsDefined(page', args, table)
        BY <4>1, <4>3, <4>4, ConnectionAsDefined
      <4>6. AllKeys' = table
        BY <3>1, <4>1 DEF AllKeys
      <4> QED
        BY <3>1, <3>2, <4>5, <4>6 DEF PageAsDefined
    <3>4. CASE blocks
      <4>1. kind = "log" /\ page' = MakeConnection(args, LogView(table))
        BY <3>4 DEF blocks
      <4>2. Asks(args, AnyKey) /\ \E from, to \in AnyKey : table = Numbered(from, to)
        BY <4>1 DEF OneQuery
      <4>3. /\ Container(LogView(table), AnyKey)
            /\ LogView(table).keys = [i \in DOMAIN table |-> table[i].num]
        BY <4>2, LogIsContainer
      <4>4. AsDefined(page', args, LogView(table).keys)
        BY <4>1, <4>2, <4>3, ConnectionAsDefined
      <4>5. AllKeys' = LogView(table).keys
        BY <3>1, <4>1, <4>3 DEF AllKeys
      <4> QED
        BY <3>1, <3>2, <4>4, <4>5 DEF PageAsDefined
    <3> QED
      BY <2>2, <3>3, <3>4 DEF Answered
  <2>3. CASE UNCHANGED mcVars
    BY <2>3 DEF mcVars, vars, OneQuery, Asks, PageAsDefined, Fresh, AllKeys
  <2> QED
    BY <2>1, <2>2, <2>3 DEF MCNext
<1> QED
  BY <1>1, <1>2, PTL DEF MCSpec

-----------------------------------------------------------------------------
(* A page that shows the keys of a table from index b to before index e.   *)
Shows(p, s, b, e) ==
  /\ b \in 1..Len(s) + 1 /\ e \in b..Len(s) + 1
  /\ p.edges = SubSeq(s, b, e - 1)
  /\ p.hasPreviousPage = (b # 1)
  /\ b < e => p.edges # <<>> /\ p.startCursor = s[b] /\ p.endCursor = s[e - 1]
  /\ b = e => p.edges = <<>> /\ p.startCursor = Null /\ p.endCursor = Null
  /\ ToSet(p.edges) = {s[i] : i \in b..e - 1}

LEMMA PageShows ==
  ASSUME NEW s \in Seq(Key), NEW b \in 1..Len(s) + 1, NEW e \in b..Len(s) + 1, NEW more
  PROVE  Shows(Page(SubSeq(s, b, e - 1), b # 1, more), s, b, e)
<1> DEFINE edges == SubSeq(s, b, e - 1)
           p == Page(edges, b # 1, more)
<1>1. /\ Len(s) \in Nat /\ b \in Int /\ e \in Int /\ e - 1 \in Int /\ b <= e
      /\ \A i \in b..e - 1 : s[i] \in Key
  OBVIOUS
<1>2. /\ edges \in Seq(Key)
      /\ Len(edges) = IF b <= e - 1 THEN e - 1 - b + 1 ELSE 0
      /\ \A i \in 1..e - 1 - b + 1 : edges[i] = s[b + i - 1]
  BY <1>1, SubSeqProperties
<1>3. /\ p.edges = edges /\ p.hasPreviousPage = (b # 1)
      /\ p.startCursor = IF edges = <<>> THEN Null ELSE Head(edges)
      /\ p.endCursor = IF edges = <<>> THEN Null ELSE Last(edges)
  BY DEF Page
<1> HIDE DEF edges, p
<1>4. Len(edges) = e - b /\ DOMAIN edges = 1..e - b /\ \A i \in 1..e - b : edges[i] = s[b + i - 1]
  BY <1>1, <1>2
<1>5. ASSUME b < e
      PROVE  p.edges # <<>> /\ p.startCursor = s[b] /\ p.endCursor = s[e - 1]
  <2>1. edges # <<>> /\ Len(edges) # 0
    BY <1>1, <1>4, <1>5, EmptySeq
  <2>2. edges[1] = s[b + 1 - 1] /\ edges[e - b] = s[b + (e - b) - 1]
    BY <1>1, <1>4, <1>5
  <2>3. b + 1 - 1 = b /\ b + (e - b) - 1 = e - 1
    BY <1>1
  <2>4. Head(edges) = edges[1] /\ Last(edges) = edges[e - b]
    BY <1>2, <1>4, <2>1 DEF Last
  <2> QED
    BY <1>3, <2>1, <2>2, <2>3, <2>4
<1>6. ASSUME b = e
      PROVE  p.edges = <<>> /\ p.startCursor = Null /\ p.endCursor = Null
  <2>1. Len(edges) = 0
    BY <1>1, <1>4, <1>6
  <2>2. edges = <<>>
    BY <1>2, <2>1, EmptySeq
  <2> QED
    BY <1>3, <2>2
<1>7. ToSet(edges) = {s[i] : i \in b..e - 1}
  <2>1. ASSUME NEW j \in 1..e - b
        PROVE  edges[j] \in {s[i] : i \in b..e - 1}
    <3>1. b + j - 1 \in b..e - 1
      BY <1>1
    <3> QED
      BY <1>4, <3>1
  <2>2. ASSUME NEW i \in b..e - 1
        PROVE  s[i] \in {edges[j] : j \in 1..e - b}
    <3>1. i - b + 1 \in 1..e - b /\ b + (i - b + 1) - 1 = i
      BY <1>1
    <3> QED
      BY <1>4, <3>1
  <2>3. ToSet(edges) = {edges[j] : j \in 1..e - b}
    BY <1>4 DEF ToSet
  <2> QED
    BY <2>1, <2>2, <2>3, Zenon
<1>8. Shows(p, s, b, e)
  BY <1>2, <1>3, <1>5, <1>6, <1>7 DEF Shows, edges
<1> QED
  BY <1>8 DEF p, edges

(* What the arguments of the buttons ask for.                              *)
ForwardArgs(n, a) == [Everything EXCEPT !.first = n, !.after = a]
BackwardArgs(n, a) == [Everything EXCEPT !.last = n, !.before = a]

ShowsBehind(p, s, a) ==
  \E b \in 1..Len(s) + 1, e \in 1..Len(s) + 1 :
    /\ Shows(p, s, b, e)
    /\ b = e => b = Len(s) + 1
    /\ a = Null => b = 1
    /\ a # Null => DividesPast(b, s, a)
ShowsBefore(p, s, a) ==
  \E b \in 1..Len(s) + 1, e \in 1..Len(s) + 1 :
    /\ Shows(p, s, b, e)
    /\ b = e => b = 1
    /\ a = Null => e = Len(s) + 1
    /\ a # Null => Divides(e, s, a)

LEMMA QueryForward ==
  ASSUME NEW s \in Seq(Key), Ascending(s), NEW n \in Nat \ {0}, NEW a \in Key \cup {Null}
  PROVE  ShowsBehind(Query(ForwardArgs(n, a), s), s, a)
<1> DEFINE c == Table(s, Key)
           args1 == ForwardArgs(n, a)
           after == Upper(c, a, 1)
           b == after
           e == IF b + n > Len(s) + 1 THEN Len(s) + 1 ELSE b + n
<1>1. /\ args1.gt = Null /\ args1.ge = Null /\ args1.lt = Null /\ args1.le = Null
      /\ args1.first = n /\ args1.last = Null /\ args1.before = Null /\ args1.after = a
      /\ n # Null
  BY NullAssumption DEF ForwardArgs, Everything
<1>2. Container(c, Key) /\ c.keys = s /\ Len(s) \in Nat
  BY TableIsContainer DEF Table
<1> HIDE DEF c, args1
<1>3. Bounding(c, a, 1)
  <2>1. 1 \in 1..Len(c.keys) + 1
    BY <1>2
  <2> QED
    BY <1>2, <2>1, BoundOrElse, Zenon
<1>4. /\ b \in 1..Len(s) + 1
      /\ a = Null => b = 1
      /\ a # Null => DividesPast(b, s, a)
  BY <1>2, <1>3 DEF Bounding, DividesPast
<1>5. RangeOf(args1, c) = [begin |-> 1, end |-> Len(s) + 1]
  BY <1>1, <1>2 DEF RangeOf, Lower, Upper, Begin, End, Larger, Smaller
<1>6. Window(args1, c, [begin |-> 1, end |-> Len(s) + 1]) = [begin |-> b, end |-> Len(s) + 1]
  <2>1. Lower(c, Null, Len(s) + 1) = Len(s) + 1
    BY DEF Lower
  <2> HIDE DEF after
  <2>2. Clamp(after, 1, Len(s) + 1) = after /\ Clamp(Len(s) + 1, 1, Len(s) + 1) = Len(s) + 1
    BY <1>2, <1>4 DEF Clamp, Larger, Smaller
  <2>3. Larger(after, Len(s) + 1) = Len(s) + 1
    BY <1>2, <1>4 DEF Larger
  <2> QED
    BY <1>1, <2>1, <2>2, <2>3 DEF Window, after
<1> HIDE DEF b
<1>7. Forward([begin |-> 1, end |-> Len(s) + 1], [begin |-> b, end |-> Len(s) + 1], n, Null) =
        [begin |-> b, end |-> e,
         hasPreviousPage |-> b # 1, hasNextPage |-> e # Len(s) + 1]
  <2>1. Smaller(b + n, Len(s) + 1) = e
    BY <1>2, <1>4 DEF Smaller
  <2> QED
    BY <1>1, <2>1 DEF Forward, FirstEnd, LastBegin
<1>8. Query(args1, s) = Page(SubSeq(s, b, e - 1), b # 1, e # Len(s) + 1)
  <2>1. Query(args1, s) = MakeConnection(args1, c)
    BY DEF Query, c
  <2> HIDE DEF e
  <2> QED
    BY <1>1, <1>2, <1>5, <1>6, <1>7, <2>1 DEF MakeConnection
<1>9. e \in b..Len(s) + 1 /\ (b = e => b = Len(s) + 1)
  BY <1>2, <1>4
<1> HIDE DEF e
<1>10. Shows(Query(args1, s), s, b, e)
  BY <1>4, <1>8, <1>9, PageShows
<1>11. e \in 1..Len(s) + 1
  BY <1>2, <1>4, <1>9
<1> QED
  BY <1>4, <1>9, <1>10, <1>11 DEF ShowsBehind, args1

LEMMA QueryBackward ==
  ASSUME NEW s \in Seq(Key), Ascending(s), NEW n \in Nat \ {0}, NEW a \in Key \cup {Null}
  PROVE  ShowsBefore(Query(BackwardArgs(n, a), s), s, a)
<1> DEFINE c == Table(s, Key)
           args1 == BackwardArgs(n, a)
           e == Lower(c, a, Len(s) + 1)
           b == IF e - n > 1 THEN e - n ELSE 1
<1>1. /\ args1.gt = Null /\ args1.ge = Null /\ args1.lt = Null /\ args1.le = Null
      /\ args1.first = Null /\ args1.last = n /\ args1.before = a /\ args1.after = Null
      /\ n # Null
  BY NullAssumption DEF BackwardArgs, Everything
<1>2. Container(c, Key) /\ c.keys = s /\ Len(s) \in Nat
  BY TableIsContainer DEF Table
<1> HIDE DEF c, args1
<1>3. Bounding(c, a, Len(s) + 1)
  <2>1. Len(s) + 1 \in 1..Len(c.keys) + 1
    BY <1>2
  <2> QED
    BY <1>2, <2>1, BoundOrElse, Zenon
<1>4. /\ e \in 1..Len(s) + 1
      /\ a = Null => e = Len(s) + 1
      /\ a # Null => Divides(e, s, a)
  BY <1>2, <1>3 DEF Bounding, Divides
<1>5. RangeOf(args1, c) = [begin |-> 1, end |-> Len(s) + 1]
  BY <1>1, <1>2 DEF RangeOf, Lower, Upper, Begin, End, Larger, Smaller
<1>6. Window(args1, c, [begin |-> 1, end |-> Len(s) + 1]) = [begin |-> 1, end |-> e]
  <2>1. Upper(c, Null, 1) = 1
    BY DEF Upper
  <2> HIDE DEF e
  <2>2. Clamp(e, 1, Len(s) + 1) = e /\ Clamp(1, 1, Len(s) + 1) = 1
    BY <1>2, <1>4 DEF Clamp, Larger, Smaller
  <2>3. Larger(1, e) = e
    BY <1>2, <1>4 DEF Larger
  <2> QED
    BY <1>1, <2>1, <2>2, <2>3 DEF Window, e
<1> HIDE DEF e
<1>7. Backward([begin |-> 1, end |-> Len(s) + 1], [begin |-> 1, end |-> e], n) =
        [begin |-> b, end |-> e,
         hasPreviousPage |-> b # 1, hasNextPage |-> e # Len(s) + 1]
  <2>1. Larger(1, e - n) = b
    BY <1>2, <1>4 DEF Larger
  <2> QED
    BY <2>1 DEF Backward
<1>8. Query(args1, s) = Page(SubSeq(s, b, e - 1), b # 1, e # Len(s) + 1)
  <2>1. Query(args1, s) = MakeConnection(args1, c)
    BY DEF Query, c
  <2> HIDE DEF b
  <2> QED
    BY <1>1, <1>2, <1>5, <1>6, <1>7, <2>1 DEF MakeConnection
<1>9. b \in 1..Len(s) + 1 /\ e \in b..Len(s) + 1 /\ (b = e => b = 1)
  BY <1>2, <1>4
<1> HIDE DEF b
<1>10. Shows(Query(args1, s), s, b, e)
  BY <1>8, <1>9, PageShows
<1> QED
  BY <1>4, <1>9, <1>10 DEF ShowsBefore, args1

-----------------------------------------------------------------------------
(* Why nothing is missed.  The cursor in the arguments divides what has    *)
(* been shown from what has not: going forward, what was there all the     *)
(* time has been shown up to the cursor, so that the page may be behind    *)
(* it; going back, before the cursor, so that the page may lose rows and   *)
(* gain others.  A page without rows is the end of the table, or there is  *)
(* nothing before it; what previous does there is to show the last page.   *)
Divided(q, n, p, st, sn) ==
  \E a \in Key \cup {Null} :
    \/ /\ q = ForwardArgs(n, a)
       /\ a # Null => \A k \in st : k <= a => k \in sn
       /\ p.edges = <<>> => st \subseteq sn
    \/ /\ q = BackwardArgs(n, a)
       /\ \A k \in st : a = Null \/ k < a => k \in sn
       /\ p.edges = <<>> => p.hasPreviousPage = FALSE

HasCursors(p) ==
  /\ p.edges = <<>> => p.startCursor = Null /\ p.endCursor = Null
  /\ p.edges # <<>> =>
       p.startCursor \in Key /\ p.endCursor \in Key /\ p.startCursor <= p.endCursor

ShownTo(p, st, sn) == p.edges # <<>> => \A k \in st : k <= p.endCursor => k \in sn

Sound(q, n, p, st, sn) == Divided(q, n, p, st, sn) /\ HasCursors(p) /\ ShownTo(p, st, sn)

PagedInv ==
  /\ pageSize \in Nat \ {0}
  /\ table \in Seq(Key) /\ Ascending(table)
  /\ steady \subseteq ToSet(table)
  /\ Sound(args, pageSize, page, steady, seen)

LEMMA KeysInOrder ==
  ASSUME NEW s \in Seq(Key), Ascending(s)
  PROVE  /\ Len(s) \in Nat /\ \A i \in 1..Len(s) : s[i] \in Key /\ s[i] \in Int
         /\ ToSet(s) = {s[i] : i \in 1..Len(s)}
         /\ \A i, j \in 1..Len(s) : i < j => s[i] < s[j]
<1>1. Len(s) \in Nat /\ DOMAIN s = 1..Len(s) /\ \A i \in 1..Len(s) : s[i] \in Key
  OBVIOUS
<1>2. \A i \in 1..Len(s) : s[i] \in Int
  BY <1>1, KeyAssumption
<1>3. ToSet(s) = {s[i] : i \in 1..Len(s)}
  BY <1>1 DEF ToSet
<1>4. \A i, j \in 1..Len(s) : i < j => s[i] < s[j]
  BY <1>1 DEF Ascending
<1> QED
  BY <1>1, <1>2, <1>3, <1>4

LEMMA CursorsOfShown ==
  ASSUME NEW s \in Seq(Key), Ascending(s), NEW p, NEW b, NEW e, Shows(p, s, b, e)
  PROVE  HasCursors(p)
<1>1. b \in 1..Len(s) + 1 /\ e \in b..Len(s) + 1 /\ Len(s) \in Nat
  BY DEF Shows
<1>2. CASE b = e
  BY <1>2 DEF Shows, HasCursors
<1>3. CASE b # e
  <2>1. b < e /\ b \in 1..Len(s) /\ e - 1 \in 1..Len(s) /\ b <= e - 1
    BY <1>1, <1>3
  <2>2. /\ p.edges # <<>> /\ p.startCursor = s[b] /\ p.endCursor = s[e - 1]
    BY <2>1 DEF Shows
  <2>3. s[b] \in Key /\ s[e - 1] \in Key /\ s[b] \in Int /\ s[e - 1] \in Int
    BY <2>1, KeysInOrder
  <2>4. s[b] <= s[e - 1]
    BY <2>1, <2>3, KeysInOrder
  <2> QED
    BY <2>2, <2>3, <2>4 DEF HasCursors
<1> QED
  BY <1>2, <1>3

LEMMA ForwardIsSound ==
  ASSUME NEW s \in Seq(Key), Ascending(s), NEW n \in Nat \ {0}, NEW a \in Key \cup {Null},
         NEW st, st \subseteq ToSet(s), NEW sn,
         a # Null => \A k \in st : k <= a => k \in sn,
         NEW p, p = Query(ForwardArgs(n, a), s)
  PROVE  Sound(ForwardArgs(n, a), n, p, st, sn \cup ToSet(p.edges))
<1> DEFINE sn1 == sn \cup ToSet(p.edges)
<1>1. ShowsBehind(p, s, a)
  BY QueryForward
<1>2. PICK b \in 1..Len(s) + 1, e \in 1..Len(s) + 1 :
        /\ Shows(p, s, b, e)
        /\ b = e => b = Len(s) + 1
        /\ a = Null => b = 1
        /\ a # Null => DividesPast(b, s, a)
  BY <1>1, Zenon DEF ShowsBehind
<1>3. /\ Len(s) \in Nat /\ \A i \in 1..Len(s) : s[i] \in Key /\ s[i] \in Int
      /\ ToSet(s) = {s[i] : i \in 1..Len(s)}
      /\ \A i, j \in 1..Len(s) : i < j => s[i] < s[j]
  BY KeysInOrder
<1>4. e \in b..Len(s) + 1 /\ ToSet(p.edges) = {s[i] : i \in b..e - 1}
  BY <1>2 DEF Shows
<1>5. \A i \in 1..Len(s) : i < b /\ s[i] \in st => s[i] \in sn
  BY <1>2, <1>3 DEF DividesPast
<1>6. \A i \in 1..Len(s) : i < e /\ s[i] \in st => s[i] \in sn1
  BY <1>2, <1>3, <1>4, <1>5
<1>7. HasCursors(p)
  BY <1>2, CursorsOfShown
<1>8. ShownTo(p, st, sn1)
  <2> SUFFICES ASSUME p.edges # <<>>, NEW k \in st, k <= p.endCursor
               PROVE  k \in sn1
    BY DEF ShownTo
  <2>1. b < e /\ p.endCursor = s[e - 1] /\ e - 1 \in 1..Len(s)
    BY <1>2, <1>3, <1>4 DEF Shows
  <2>2. PICK i \in 1..Len(s) : k = s[i]
    BY <1>3
  <2>3. ~(e - 1 < i)
    BY <1>3, <2>1, <2>2
  <2>4. i < e
    BY <1>3, <1>4, <2>3
  <2> QED
    BY <1>6, <2>2, <2>4
<1>9. p.edges = <<>> => st \subseteq sn1
  <2> SUFFICES ASSUME p.edges = <<>>, NEW k \in st
               PROVE  k \in sn1
    OBVIOUS
  <2>1. b = Len(s) + 1 /\ e = Len(s) + 1
    BY <1>2, <1>3, <1>4 DEF Shows
  <2>2. PICK i \in 1..Len(s) : k = s[i]
    BY <1>3
  <2> QED
    BY <1>3, <1>6, <2>1, <2>2
<1>10. a # Null => \A k \in st : k <= a => k \in sn1
  OBVIOUS
<1> HIDE DEF sn1
<1>11. Divided(ForwardArgs(n, a), n, p, st, sn1)
  BY <1>9, <1>10 DEF Divided
<1> QED
  BY <1>7, <1>8, <1>11 DEF Sound, sn1

LEMMA BackwardIsSound ==
  ASSUME NEW s \in Seq(Key), Ascending(s), NEW n \in Nat \ {0}, NEW a \in Key \cup {Null},
         NEW st, st \subseteq ToSet(s), NEW sn,
         \A k \in st : a = Null \/ k < a => k \in sn,
         NEW p, p = Query(BackwardArgs(n, a), s)
  PROVE  Sound(BackwardArgs(n, a), n, p, st, sn \cup ToSet(p.edges))
<1> DEFINE sn1 == sn \cup ToSet(p.edges)
<1>1. ShowsBefore(p, s, a)
  BY QueryBackward
<1>2. PICK b \in 1..Len(s) + 1, e \in 1..Len(s) + 1 :
        /\ Shows(p, s, b, e)
        /\ b = e => b = 1
        /\ a = Null => e = Len(s) + 1
        /\ a # Null => Divides(e, s, a)
  BY <1>1, Zenon DEF ShowsBefore
<1>3. /\ Len(s) \in Nat /\ \A i \in 1..Len(s) : s[i] \in Key /\ s[i] \in Int
      /\ ToSet(s) = {s[i] : i \in 1..Len(s)}
      /\ \A i, j \in 1..Len(s) : i < j => s[i] < s[j]
  BY KeysInOrder
<1>4. e \in b..Len(s) + 1
  BY <1>2 DEF Shows
<1>5. HasCursors(p)
  BY <1>2, CursorsOfShown
<1>6. ShownTo(p, st, sn1)
  <2> SUFFICES ASSUME p.edges # <<>>, NEW k \in st, k <= p.endCursor
               PROVE  k \in sn1
    BY DEF ShownTo
  <2>1. b < e /\ p.endCursor = s[e - 1] /\ e - 1 \in 1..Len(s)
    BY <1>2, <1>3, <1>4 DEF Shows
  <2>2. a # Null => s[e - 1] < a /\ a \in Int
    BY <1>3, <2>1, <1>2, KeyAssumption DEF Divides
  <2>3. k \in Int
    BY <1>3
  <2>4. a = Null \/ k < a
    BY <1>3, <2>1, <2>2, <2>3
  <2> QED
    BY <2>4
<1>7. ASSUME p.edges = <<>>
      PROVE  p.hasPreviousPage = FALSE
  <2>1. ~(b < e) /\ p.hasPreviousPage = (b # 1)
    BY <1>2, <1>7 DEF Shows
  <2>2. b = 1
    BY <1>2, <1>3, <1>4, <2>1
  <2> QED
    BY <2>1, <2>2
<1>8. \A k \in st : a = Null \/ k < a => k \in sn1
  OBVIOUS
<1> HIDE DEF sn1
<1>9. Divided(BackwardArgs(n, a), n, p, st, sn1)
  BY <1>7, <1>8 DEF Divided
<1> QED
  BY <1>5, <1>6, <1>9 DEF Sound, sn1

-----------------------------------------------------------------------------
(* A row comes or goes where the order wants it.                           *)
Joins(r, s1, s2, x, y) ==
  /\ r \in Seq(Key) /\ Len(r) = x + y
  /\ \A m \in 1..x : r[m] = s1[m]
  /\ \A m \in 1..y : r[x + m] = s2[m]

LEMMA Joined ==
  ASSUME NEW s1 \in Seq(Key), NEW s2 \in Seq(Key), NEW x \in Nat, NEW y \in Nat,
         Len(s1) = x, Len(s2) = y
  PROVE  Joins(s1 \o s2, s1, s2, x, y)
<1>1. /\ s1 \o s2 \in Seq(Key) /\ Len(s1 \o s2) = x + y
      /\ \A m \in 1..x + y : (s1 \o s2)[m] = IF m <= x THEN s1[m] ELSE s2[m - x]
  BY ConcatProperties
<1>2. ASSUME NEW m \in 1..y
      PROVE  (s1 \o s2)[x + m] = s2[m]
  <2>1. x + m \in 1..x + y /\ ~(x + m <= x) /\ (x + m) - x = m
    OBVIOUS
  <2> QED
    BY <1>1, <2>1
<1> QED
  BY <1>1, <1>2 DEF Joins

LEMMA InsertKeepsOrder ==
  ASSUME NEW s \in Seq(Key), Ascending(s), NEW k \in Key, k \notin ToSet(s)
  PROVE  /\ InsertAt(s, LowerBound(s, k), k) \in Seq(Key)
         /\ Ascending(InsertAt(s, LowerBound(s, k), k))
         /\ ToSet(s) \subseteq ToSet(InsertAt(s, LowerBound(s, k), k))
<1> DEFINE i == LowerBound(s, k)
           n == Len(s)
           before == SubSeq(s, 1, i - 1)
           behind == SubSeq(s, i, n)
           r == (before \o <<k>>) \o behind
<1>1. /\ n \in Nat /\ (\A m \in 1..n : s[m] \in Key /\ s[m] \in Int)
      /\ ToSet(s) = {s[m] : m \in 1..n}
      /\ \A m, j \in 1..n : m < j => s[m] < s[j]
  BY KeysInOrder
<1>2. s \in Seq(Int) /\ k \in Int
  BY KeyAssumption, SeqMonotonic
<1>3. i \in 1..n + 1 /\ \A m \in 1..n : m < i <=> s[m] < k
  BY <1>2, BoundsDivide DEF Divides
<1> HIDE DEF i, n
<1>4. before \in Seq(Key) /\ Len(before) = i - 1 /\ \A m \in 1..i - 1 : before[m] = s[m]
  <2>1. 1 \in Int /\ i - 1 \in Int /\ \A m \in 1..i - 1 : s[m] \in Key
    BY <1>1, <1>3
  <2> QED
    BY <1>3, <2>1, SubSeqProperties
<1>5. /\ behind \in Seq(Key) /\ Len(behind) = n + 1 - i
      /\ \A m \in 1..n + 1 - i : behind[m] = s[i + m - 1]
  <2>1. i \in Int /\ n \in Int /\ \A m \in i..n : s[m] \in Key
    BY <1>1, <1>3
  <2>2. /\ behind \in Seq(Key) /\ Len(behind) = IF i <= n THEN n - i + 1 ELSE 0
        /\ \A m \in 1..n - i + 1 : behind[m] = s[i + m - 1]
    BY <2>1, SubSeqProperties
  <2> QED
    BY <1>3, <2>1, <2>2
<1> HIDE DEF before, behind
<1>6. /\ before \o <<k>> \in Seq(Key) /\ Len(before \o <<k>>) = i
      /\ \A m \in 1..i : (before \o <<k>>)[m] = IF m < i THEN s[m] ELSE k
  <2>1. <<k>> \in Seq(Key) /\ Len(<<k>>) = 1 /\ <<k>>[1] = k
    OBVIOUS
  <2> QED
    BY <1>3, <1>4, <2>1
<1>7. /\ r \in Seq(Key) /\ Len(r) = n + 1
      /\ \A m \in 1..n + 1 : r[m] = IF m < i THEN s[m] ELSE IF m = i THEN k ELSE s[m - 1]
  <2> DEFINE front == before \o <<k>>
  <2>1. /\ front \in Seq(Key) /\ Len(front) = i
        /\ \A m \in 1..i : front[m] = IF m < i THEN s[m] ELSE k
    BY <1>6
  <2> HIDE DEF front
  <2>2. Joins(front \o behind, front, behind, i, n + 1 - i)
    <3>1. i \in Nat /\ n + 1 - i \in Nat
      BY <1>1, <1>3
    <3> QED
      BY <1>5, <2>1, <3>1, Joined
  <2>3. i + (n + 1 - i) = n + 1
    BY <1>1, <1>3
  <2>4. \A m \in 1..n + 1 :
          (front \o behind)[m] = IF m < i THEN s[m] ELSE IF m = i THEN k ELSE s[m - 1]
    <3> SUFFICES ASSUME NEW m \in 1..n + 1
                 PROVE  (front \o behind)[m] = IF m < i THEN s[m] ELSE IF m = i THEN k ELSE s[m - 1]
      OBVIOUS
    <3>1. CASE m <= i
      <4>1. m \in 1..i /\ (m < i \/ m = i)
        BY <1>1, <1>3, <3>1
      <4> QED
        BY <2>1, <2>2, <4>1 DEF Joins
    <3>2. CASE i < m
      <4>1. m - i \in 1..n + 1 - i /\ i + (m - i) - 1 = m - 1 /\ i + (m - i) = m
        BY <1>1, <1>3, <3>2
      <4>2. behind[m - i] = s[m - 1]
        BY <1>5, <4>1
      <4>3. (front \o behind)[m] = s[m - 1]
        BY <2>2, <4>1, <4>2 DEF Joins
      <4> QED
        BY <1>1, <1>3, <3>2, <4>3
    <3>3. m <= i \/ i < m
      BY <1>1, <1>3
    <3> QED
      BY <3>1, <3>2, <3>3, Zenon
  <2>5. front \o behind \in Seq(Key) /\ Len(front \o behind) = n + 1
    BY <2>2, <2>3 DEF Joins
  <2> QED
    BY <2>4, <2>5 DEF front
<1>8. r = InsertAt(s, i, k)
  BY DEF InsertAt, before, behind, n
<1> HIDE DEF r
<1>9. Ascending(r)
  <2> SUFFICES ASSUME NEW m \in 1..n + 1, NEW j \in 1..n + 1, m < j
               PROVE  r[m] < r[j]
    BY <1>7 DEF Ascending
  <2>1. \A x \in i..n : k < s[x]
    <3> SUFFICES ASSUME NEW x \in i..n
                 PROVE  k < s[x]
      OBVIOUS
    <3>1. x \in 1..n /\ ~(s[x] < k) /\ s[x] # k
      BY <1>1, <1>3
    <3> QED
      BY <1>1, <1>2, <3>1
  <2>2. CASE j < i
    BY <1>1, <1>3, <1>7, <2>2
  <2>3. CASE j = i
    BY <1>1, <1>3, <1>7, <2>3
  <2>4. CASE i < j
    <3>1. j - 1 \in i..n /\ j - 1 \in 1..n /\ r[j] = s[j - 1]
      BY <1>1, <1>3, <1>7, <2>4
    <3>2. CASE m < i
      BY <1>1, <1>3, <1>7, <3>1, <3>2
    <3>3. CASE m = i
      BY <1>1, <1>3, <1>7, <2>1, <3>1, <3>3
    <3>4. CASE i < m
      <4>1. m - 1 \in 1..n /\ m - 1 < j - 1 /\ r[m] = s[m - 1]
        BY <1>1, <1>3, <1>7, <3>4
      <4> QED
        BY <1>1, <3>1, <4>1
    <3> QED
      BY <1>1, <1>3, <3>2, <3>3, <3>4
  <2> QED
    BY <1>1, <1>3, <2>2, <2>3, <2>4
<1>10. ToSet(s) \subseteq ToSet(r)
  <2>0. ToSet(r) = {r[j] : j \in 1..n + 1}
    <3>1. DOMAIN r = 1..n + 1
      BY <1>7
    <3> QED
      BY <3>1 DEF ToSet
  <2> SUFFICES ASSUME NEW m \in 1..n
               PROVE  s[m] \in {r[j] : j \in 1..n + 1}
    BY <1>1, <2>0, Zenon
  <2>1. CASE m < i
    BY <1>1, <1>7, <2>1
  <2>2. CASE ~(m < i)
    <3>1. m + 1 \in 1..n + 1 /\ r[m + 1] = s[m]
      BY <1>1, <1>3, <1>7, <2>2
    <3> QED
      BY <3>1
  <2> QED
    BY <2>1, <2>2
<1> QED
  BY <1>7, <1>8, <1>9, <1>10 DEF i

LEMMA RemoveKeepsOrder ==
  ASSUME NEW s \in Seq(Key), Ascending(s), NEW k \in Key, k \in ToSet(s)
  PROVE  /\ RemoveAt(s, LowerBound(s, k)) \in Seq(Key)
         /\ Ascending(RemoveAt(s, LowerBound(s, k)))
         /\ ToSet(s) \ {k} \subseteq ToSet(RemoveAt(s, LowerBound(s, k)))
<1> DEFINE i == LowerBound(s, k)
           n == Len(s)
           before == SubSeq(s, 1, i - 1)
           behind == SubSeq(s, i + 1, n)
           r == before \o behind
<1>1. /\ n \in Nat /\ (\A m \in 1..n : s[m] \in Key /\ s[m] \in Int)
      /\ ToSet(s) = {s[m] : m \in 1..n}
      /\ \A m, j \in 1..n : m < j => s[m] < s[j]
  BY KeysInOrder
<1>2. s \in Seq(Int) /\ k \in Int
  BY KeyAssumption, SeqMonotonic
<1>3. i \in 1..n + 1 /\ \A m \in 1..n : m < i <=> s[m] < k
  BY <1>2, BoundsDivide DEF Divides
<1>4. i \in 1..n /\ s[i] = k
  <2> HIDE DEF i, n
  <2>1. PICK x \in 1..n : s[x] = k
    BY <1>1
  <2>2. ~(x < i) /\ i \in 1..n
    BY <1>1, <1>2, <1>3, <2>1
  <2>3. ~(i < x)
    <3>1. ~(s[i] < k)
      BY <1>3, <2>2
    <3> QED
      BY <1>1, <2>1, <2>2, <3>1
  <2> QED
    BY <1>1, <2>1, <2>2, <2>3
<1> HIDE DEF i, n
<1>5. before \in Seq(Key) /\ Len(before) = i - 1 /\ \A m \in 1..i - 1 : before[m] = s[m]
  <2>1. 1 \in Int /\ i - 1 \in Int /\ \A m \in 1..i - 1 : s[m] \in Key
    BY <1>1, <1>3
  <2> QED
    BY <1>3, <2>1, SubSeqProperties
<1>6. /\ behind \in Seq(Key) /\ Len(behind) = n - i
      /\ \A m \in 1..n - i : behind[m] = s[i + m]
  <2>1. i + 1 \in Int /\ n \in Int /\ \A m \in i + 1..n : s[m] \in Key
    BY <1>1, <1>3
  <2>2. /\ behind \in Seq(Key) /\ Len(behind) = IF i + 1 <= n THEN n - (i + 1) + 1 ELSE 0
        /\ \A m \in 1..n - (i + 1) + 1 : behind[m] = s[(i + 1) + m - 1]
    BY <2>1, SubSeqProperties
  <2>3. n - (i + 1) + 1 = n - i /\ \A m \in 1..n - i : (i + 1) + m - 1 = i + m
    BY <1>1, <1>4
  <2>4. Len(behind) = n - i
    BY <1>1, <1>4, <2>2
  <2> QED
    BY <2>2, <2>3, <2>4
<1> HIDE DEF before, behind
<1>7. /\ r \in Seq(Key) /\ Len(r) = n - 1
      /\ \A m \in 1..n - 1 : r[m] = IF m < i THEN s[m] ELSE s[m + 1]
  <2>1. Joins(r, before, behind, i - 1, n - i)
    <3>1. i - 1 \in Nat /\ n - i \in Nat
      BY <1>1, <1>4
    <3> QED
      BY <1>5, <1>6, <3>1, Joined
  <2>2. i - 1 + (n - i) = n - 1
    BY <1>1, <1>4
  <2> HIDE DEF r
  <2>3. \A m \in 1..n - 1 : r[m] = IF m < i THEN s[m] ELSE s[m + 1]
    <3> SUFFICES ASSUME NEW m \in 1..n - 1
                 PROVE  r[m] = IF m < i THEN s[m] ELSE s[m + 1]
      OBVIOUS
    <3>1. CASE m < i
      <4>1. m \in 1..i - 1
        BY <1>1, <1>4, <3>1
      <4> QED
        BY <1>5, <2>1, <3>1, <4>1 DEF Joins
    <3>2. CASE ~(m < i)
      <4>1. /\ m - (i - 1) \in 1..n - i /\ i + (m - (i - 1)) = m + 1
            /\ i - 1 + (m - (i - 1)) = m
        BY <1>1, <1>4, <3>2
      <4>2. behind[m - (i - 1)] = s[m + 1]
        BY <1>6, <4>1
      <4>3. r[m] = s[m + 1]
        BY <2>1, <4>1, <4>2 DEF Joins
      <4> QED
        BY <3>2, <4>3
    <3> QED
      BY <3>1, <3>2
  <2>4. r \in Seq(Key) /\ Len(r) = n - 1
    BY <2>1, <2>2 DEF Joins
  <2> QED
    BY <2>3, <2>4
<1>8. r = RemoveAt(s, i)
  BY DEF RemoveAt, before, behind, n
<1> HIDE DEF r
<1>9. Ascending(r)
  <2> SUFFICES ASSUME NEW m \in 1..n - 1, NEW j \in 1..n - 1, m < j
               PROVE  r[m] < r[j]
    BY <1>7 DEF Ascending
  <2>1. /\ m \in 1..n /\ m + 1 \in 1..n /\ j \in 1..n /\ j + 1 \in 1..n
        /\ m < j + 1 /\ m + 1 < j + 1
    BY <1>1
  <2>2. s[m] < s[j] /\ s[m] < s[j + 1] /\ s[m + 1] < s[j + 1]
    BY <1>1, <2>1
  <2>3. m < i \/ ~(j < i)
    BY <1>1, <1>4
  <2> QED
    BY <1>7, <2>2, <2>3
<1>10. ToSet(s) \ {k} \subseteq ToSet(r)
  <2>0. ToSet(r) = {r[j] : j \in 1..n - 1}
    BY <1>1, <1>7 DEF ToSet
  <2> SUFFICES ASSUME NEW m \in 1..n, s[m] # k
               PROVE  s[m] \in {r[j] : j \in 1..n - 1}
    BY <1>1, <2>0, Zenon
  <2>1. CASE m < i
    BY <1>1, <1>4, <1>7, <2>1
  <2>2. CASE ~(m < i)
    <3>1. m - 1 \in 1..n - 1 /\ ~(m - 1 < i) /\ (m - 1) + 1 = m
      BY <1>1, <1>4, <2>2
    <3> QED
      BY <1>7, <3>1
  <2> QED
    BY <2>1, <2>2
<1> QED
  BY <1>7, <1>8, <1>9, <1>10 DEF i

-----------------------------------------------------------------------------
LEMMA FewerSteadyIsSound ==
  ASSUME NEW q, NEW n, NEW p, NEW st, NEW sn, Sound(q, n, p, st, sn), NEW fewer \in SUBSET st
  PROVE  Sound(q, n, p, fewer, sn)
<1>1. Divided(q, n, p, fewer, sn)
  <2>1. PICK a \in Key \cup {Null} :
          \/ /\ q = ForwardArgs(n, a)
             /\ a # Null => \A k \in st : k <= a => k \in sn
             /\ p.edges = <<>> => st \subseteq sn
          \/ /\ q = BackwardArgs(n, a)
             /\ \A k \in st : a = Null \/ k < a => k \in sn
             /\ p.edges = <<>> => p.hasPreviousPage = FALSE
    BY Zenon DEF Sound, Divided
  <2> QED
    BY <2>1, Zenon DEF Divided
<1>2. HasCursors(p) /\ ShownTo(p, fewer, sn)
  BY DEF Sound, ShownTo
<1> QED
  BY <1>1, <1>2 DEF Sound

(* No cursor: from the first key, or back from the last.                   *)
LEMMA NoCursor ==
  ASSUME NEW n
  PROVE  /\ [Everything EXCEPT !.first = n] = ForwardArgs(n, Null)
         /\ [Everything EXCEPT !.last = n] = BackwardArgs(n, Null)
<1> DEFINE f == [gt |-> Null, ge |-> Null, lt |-> Null, le |-> Null, first |-> n,
              last |-> Null, before |-> Null, after |-> Null]
           l == [gt |-> Null, ge |-> Null, lt |-> Null, le |-> Null, first |-> Null,
              last |-> n, before |-> Null, after |-> Null]
<1>1. [Everything EXCEPT !.first = n] = f /\ [Everything EXCEPT !.last = n] = l
  BY DEF Everything
<1>2. [Everything EXCEPT !.first = n, !.after = Null] = [f EXCEPT !.after = Null]
  BY <1>1
<1>3. [Everything EXCEPT !.last = n, !.before = Null] = [l EXCEPT !.before = Null]
  BY <1>1
<1>4. [f EXCEPT !.after = Null] = f /\ [l EXCEPT !.before = Null] = l
  OBVIOUS
<1> QED
  BY <1>1, <1>2, <1>3, <1>4, Zenon DEF ForwardArgs, BackwardArgs

LEMMA TypedCursors ==
  ASSUME PagedInv
  PROVE  /\ page.endCursor \in Key \cup {Null} /\ page.startCursor \in Key \cup {Null}
         /\ page.edges = <<>> <=> page.endCursor = Null
         /\ page.edges = <<>> <=> page.startCursor = Null
<1>1. HasCursors(page) /\ Null \notin Key
  BY NullAssumption DEF PagedInv, Sound
<1>2. CASE page.edges = <<>>
  BY <1>1, <1>2 DEF HasCursors
<1>3. CASE page.edges # <<>>
  BY <1>1, <1>3 DEF HasCursors
<1> QED
  BY <1>2, <1>3

LEMMA InitPaged == Init => PagedInv
<1> SUFFICES ASSUME Init
             PROVE  PagedInv
  OBVIOUS
<1>1. /\ pageSize \in PageSizes /\ table \in Tables(Key)
      /\ args = [Everything EXCEPT !.first = pageSize]
      /\ page = Query(args, table) /\ seen = ToSet(page.edges) /\ steady = ToSet(table)
  BY Zenon DEF Init
<1>2. pageSize \in Nat \ {0}
  BY <1>1, PageSizesAssumption
<1>3. table \in Seq(Key) /\ Ascending(table)
  <2>1. PICK n \in 0..Cardinality(Key) : table \in [1..n -> Key]
    BY <1>1 DEF Tables, SeqOf
  <2>2. n \in Nat
    OBVIOUS
  <2> QED
    BY <1>1, <2>1, <2>2 DEF Tables
<1>4. args = ForwardArgs(pageSize, Null)
  BY <1>1, NoCursor
<1>5. Sound(args, pageSize, page, steady, {} \cup ToSet(page.edges))
  <2>1. page = Query(ForwardArgs(pageSize, Null), table) /\ steady \subseteq ToSet(table)
    BY <1>1, <1>4
  <2>2. Null \in Key \cup {Null}
    OBVIOUS
  <2>3. Sound(ForwardArgs(pageSize, Null), pageSize, page, steady, {} \cup ToSet(page.edges))
    BY <1>2, <1>3, <2>1, <2>2, ForwardIsSound
  <2> QED
    BY <1>4, <2>3
<1>6. {} \cup ToSet(page.edges) = seen
  BY <1>1
<1> QED
  BY <1>1, <1>2, <1>3, <1>5, <1>6 DEF PagedInv

LEMMA NextPaged == PagedInv /\ [Next]_vars => PagedInv'
<1> SUFFICES ASSUME PagedInv, [Next]_vars
             PROVE  PagedInv'
  OBVIOUS
<1> USE DEF PagedInv
<1>1. CASE Change
  <2>1. PICK k \in Key :
          /\ table' = IF k \in ToSet(table) THEN RemoveAt(table, LowerBound(table, k))
                      ELSE InsertAt(table, LowerBound(table, k), k)
          /\ steady' = steady \ {k}
    BY <1>1, Zenon DEF Change
  <2>2. UNCHANGED <<pageSize, args, page, seen>>
    BY <1>1 DEF Change
  <2>3. /\ table' \in Seq(Key) /\ Ascending(table')
        /\ ToSet(table) \ {k} \subseteq ToSet(table')
    <3>1. CASE k \in ToSet(table)
      BY <2>1, <3>1, RemoveKeepsOrder
    <3>2. CASE k \notin ToSet(table)
      <4>1. /\ table' \in Seq(Key) /\ Ascending(table')
            /\ ToSet(table) \subseteq ToSet(table')
        BY <2>1, <3>2, InsertKeepsOrder
      <4> QED
        BY <4>1, Zenon
    <3> QED
      BY <3>1, <3>2
  <2>4. steady' \subseteq ToSet(table') /\ steady' \in SUBSET steady
    <3>1. steady \subseteq ToSet(table)
      OBVIOUS
    <3> QED
      BY <2>1, <2>3, <3>1, Zenon
  <2>5. Sound(args, pageSize, page, steady', seen)
    BY <2>4, FewerSteadyIsSound
  <2> QED
    BY <2>2, <2>3, <2>4, <2>5
<1>2. ASSUME NEW q, Rendered(q), steady' \subseteq ToSet(table),
             Sound(q, pageSize, page', steady', seen')
      PROVE  PagedInv'
  BY <1>2 DEF Rendered
<1>3. CASE Refresh
  <2>1. /\ Rendered(args) /\ page' = Query(args, table)
        /\ seen' = seen \cup ToSet(page'.edges) /\ steady' = steady
    BY <1>3 DEF Refresh, Rendered
  <2>2. PICK a \in Key \cup {Null} :
          \/ /\ args = ForwardArgs(pageSize, a)
             /\ a # Null => \A k \in steady : k <= a => k \in seen
          \/ /\ args = BackwardArgs(pageSize, a)
             /\ \A k \in steady : a = Null \/ k < a => k \in seen
    BY Zenon DEF Sound, Divided
  <2>3. Sound(args, pageSize, page', steady, seen \cup ToSet(page'.edges))
    <3>1. CASE /\ args = ForwardArgs(pageSize, a)
               /\ a # Null => \A k \in steady : k <= a => k \in seen
      <4>1. page' = Query(ForwardArgs(pageSize, a), table)
        BY <2>1, <3>1
      <4>2. Sound(ForwardArgs(pageSize, a), pageSize, page', steady,
                  seen \cup ToSet(page'.edges))
        BY <3>1, <4>1, ForwardIsSound
      <4> QED
        BY <3>1, <4>2
    <3>2. CASE /\ args = BackwardArgs(pageSize, a)
               /\ \A k \in steady : a = Null \/ k < a => k \in seen
      <4>1. page' = Query(BackwardArgs(pageSize, a), table)
        BY <2>1, <3>2
      <4>2. Sound(BackwardArgs(pageSize, a), pageSize, page', steady,
                  seen \cup ToSet(page'.edges))
        BY <3>2, <4>1, BackwardIsSound
      <4> QED
        BY <3>2, <4>2
    <3> QED
      BY <2>2, <3>1, <3>2
  <2> QED
    BY <1>2, <2>1, <2>3
<1>4. CASE next
  <2> DEFINE a == page.endCursor
             q == ForwardArgs(pageSize, a)
  <2>1. /\ Rendered(q) /\ page' = Query(q, table)
        /\ seen' = seen \cup ToSet(page'.edges) /\ steady' = steady
    BY <1>4 DEF next, Rendered, ForwardArgs
  <2>2. a \in Key \cup {Null} /\ (a # Null => page.edges # <<>>)
    BY TypedCursors
  <2>3. a # Null => \A k \in steady : k <= a => k \in seen
    BY <2>2 DEF Sound, ShownTo
  <2> HIDE DEF a
  <2>4. Sound(q, pageSize, page', steady, seen \cup ToSet(page'.edges))
    BY <2>1, <2>2, <2>3, ForwardIsSound
  <2> QED
    BY <1>2, <2>1, <2>4
<1>5. CASE previous
  <2> DEFINE a == page.startCursor
             q == BackwardArgs(pageSize, a)
  <2>1. /\ page.hasPreviousPage
        /\ Rendered(q) /\ page' = Query(q, table)
        /\ seen' = seen \cup ToSet(page'.edges) /\ steady' = steady
    BY <1>5 DEF previous, Rendered, BackwardArgs
  <2>2. /\ a \in Key \cup {Null}
        /\ a = Null => page.edges = <<>>
        /\ a # Null => page.edges # <<>>
    BY TypedCursors
  <2>3. ASSUME a = Null
        PROVE  steady \subseteq seen
    <3>1. page.edges = <<>>
      BY <2>2, <2>3
    <3> QED
      BY <2>1, <3>1, Zenon DEF Sound, Divided
  <2>4. ASSUME a # Null, NEW k \in steady, k < a
        PROVE  k \in seen
    <3>1. page.edges # <<>> /\ page.endCursor \in Int /\ a \in Int /\ a <= page.endCursor
      BY <2>2, <2>4, KeyAssumption DEF Sound, HasCursors
    <3>2. k \in Int
      BY KeysInOrder
    <3>3. k <= page.endCursor
      BY <2>4, <3>1, <3>2
    <3> QED
      BY <3>1, <3>3 DEF Sound, ShownTo
  <2>5. \A k \in steady : a = Null \/ k < a => k \in seen
    BY <2>3, <2>4
  <2> HIDE DEF a
  <2>6. Sound(q, pageSize, page', steady, seen \cup ToSet(page'.edges))
    BY <2>1, <2>2, <2>5, BackwardIsSound
  <2> QED
    BY <1>2, <2>1, <2>6
<1>6. CASE first
  <2> DEFINE q == ForwardArgs(pageSize, Null)
  <2>1. /\ Rendered(q) /\ page' = Query(q, table)
        /\ seen' = {} \cup ToSet(page'.edges) /\ steady' = ToSet(table)
    BY <1>6, NoCursor DEF first, Rendered
  <2>2. Null \in Key \cup {Null}
    OBVIOUS
  <2>3. Sound(q, pageSize, page', steady', {} \cup ToSet(page'.edges))
    BY <2>1, <2>2, ForwardIsSound
  <2> QED
    BY <1>2, <2>1, <2>3
<1>7. CASE last
  <2> DEFINE q == BackwardArgs(pageSize, Null)
  <2>1. /\ Rendered(q) /\ page' = Query(q, table)
        /\ seen' = {} \cup ToSet(page'.edges) /\ steady' = {}
    BY <1>7, NoCursor DEF last, Rendered
  <2>2. Null \in Key \cup {Null} /\ {} \subseteq ToSet(table)
    OBVIOUS
  <2>3. Sound(q, pageSize, page', {}, {} \cup ToSet(page'.edges))
    BY <2>1, <2>2, BackwardIsSound
  <2> QED
    BY <1>2, <2>1, <2>2, <2>3
<1>8. CASE UNCHANGED vars
  BY <1>8 DEF vars
<1> QED
  BY <1>1, <1>3, <1>4, <1>5, <1>6, <1>7, <1>8 DEF Next

(* A reader who starts at first and uses next and previous misses nothing  *)
(* that was there all the time (usePagedQuery), for every table, page size *)
(* and history of changes.                                                 *)
THEOREM NothingIsMissed == Spec => []NothingMissed
<1>1. PagedInv => NothingMissed
  BY DEF PagedInv, Sound, ShownTo, NothingMissed
<1> QED
  BY <1>1, InitPaged, NextPaged, PTL DEF Spec

(* The page of a button begins next to the page that it leaves, whatever   *)
(* became of the table (usePagedQuery), for every table, page size and     *)
(* history of changes.                                                     *)
THEOREM PagesAdjoin == Spec => PagesAreAdjacent
<1> DEFINE Adjacent == (next => AdjacentForward) /\ (previous => AdjacentBackward)
<1>1. PagedInv /\ [Next]_vars => [Adjacent]_vars
  <2> SUFFICES ASSUME PagedInv
               PROVE  Adjacent
    OBVIOUS
  <2>1. /\ pageSize \in Nat \ {0} /\ table \in Seq(Key) /\ Ascending(table)
        /\ Len(table) \in Nat /\ DOMAIN table = 1..Len(table)
        /\ \A m \in 1..Len(table) : table[m] \in Int
    BY KeysInOrder DEF PagedInv
  <2>2. ASSUME next
        PROVE  AdjacentForward
    <3> DEFINE a == page.endCursor
    <3>1. page' = Query(ForwardArgs(pageSize, a), table)
      BY <2>2 DEF next, Rendered, ForwardArgs
    <3>2. a \in Key \cup {Null} /\ (page.edges = <<>> <=> a = Null)
      BY TypedCursors
    <3>3. ShowsBehind(page', table, a)
      <4> HIDE DEF a
      <4> QED
        BY <2>1, <3>1, <3>2, QueryForward
    <3>4. PICK b \in 1..Len(table) + 1, e \in 1..Len(table) + 1 :
            /\ Shows(page', table, b, e)
            /\ a = Null => b = 1
            /\ a # Null => DividesPast(b, table, a)
      BY <3>3, Zenon DEF ShowsBehind
    <3>5. page'.edges = SubSeq(table, b, e - 1) /\ e - 1 \in 0..Len(table)
      BY <2>1, <3>4 DEF Shows
    <3>6. \A m \in DOMAIN table : m >= b <=> Behind(table[m])
      <4>1. CASE a = Null
        BY <2>1, <3>2, <3>4, <4>1 DEF Behind
      <4>2. CASE a # Null
        <5>1. a \in Int /\ page.edges # <<>>
          BY <3>2, <4>2, KeyAssumption
        <5>2. \A m \in 1..Len(table) : m < b <=> table[m] <= a
          BY <3>4, <4>2 DEF DividesPast
        <5> HIDE DEF a
        <5>3. \A m \in 1..Len(table) : m >= b <=> table[m] > a
          BY <2>1, <3>4, <5>1, <5>2
        <5> QED
          BY <2>1, <5>1, <5>3 DEF Behind, a
      <4> QED
        BY <4>1, <4>2
    <3> QED
      BY <3>4, <3>5, <3>6, Zenon DEF AdjacentForward
  <2>3. ASSUME previous
        PROVE  AdjacentBackward
    <3> DEFINE a == page.startCursor
    <3>1. page' = Query(BackwardArgs(pageSize, a), table)
      BY <2>3 DEF previous, Rendered, BackwardArgs
    <3>2. a \in Key \cup {Null} /\ (page.edges = <<>> <=> a = Null)
      BY TypedCursors
    <3>3. ShowsBefore(page', table, a)
      <4> HIDE DEF a
      <4> QED
        BY <2>1, <3>1, <3>2, QueryBackward
    <3>4. PICK b \in 1..Len(table) + 1, e \in 1..Len(table) + 1 :
            /\ Shows(page', table, b, e)
            /\ a = Null => e = Len(table) + 1
            /\ a # Null => Divides(e, table, a)
      BY <3>3, Zenon DEF ShowsBefore
    <3>5. page'.edges = SubSeq(table, b, e - 1) /\ e - 1 \in 0..Len(table)
      BY <2>1, <3>4 DEF Shows
    <3>6. \A m \in DOMAIN table : m <= e - 1 <=> Before(table[m])
      <4>1. CASE a = Null
        BY <2>1, <3>2, <3>4, <4>1 DEF Before
      <4>2. CASE a # Null
        <5>1. a \in Int /\ page.edges # <<>>
          BY <3>2, <4>2, KeyAssumption
        <5>2. \A m \in 1..Len(table) : m < e <=> table[m] < a
          BY <3>4, <4>2 DEF Divides
        <5> HIDE DEF a
        <5>3. \A m \in 1..Len(table) : m <= e - 1 <=> table[m] < a
          BY <2>1, <3>4, <5>1, <5>2
        <5> QED
          BY <2>1, <5>1, <5>3 DEF Before, a
      <4> QED
        BY <4>1, <4>2
    <3> QED
      BY <3>4, <3>5, <3>6, Zenon DEF AdjacentBackward
  <2> QED
    BY <2>2, <2>3
<1>2. Spec => []PagedInv
  BY InitPaged, NextPaged, PTL DEF Spec
<1> QED
  BY <1>1, <1>2, PTL DEF Spec, PagesAreAdjacent
-----------------------------------------------------------------------------
(* What flattening makes of a sequence of sequences: one is appended after *)
(* the other.                                                              *)
Flattens(h, seqs, n) ==
  /\ h[1] = seqs[1]
  /\ \A k \in 2..n : h[k] = h[k - 1] \o seqs[k]
  /\ FlattenSeq(seqs) = h[n]

LEMMA FlattenRun ==
  ASSUME NEW seqs, NEW n \in Nat \ {0}, Len(seqs) = n
  PROVE  \E h : Flattens(h, seqs, n)
<1> DEFINE Turn(f, k) == [i \in 1..k |-> IF i = 1 THEN seqs[i] ELSE f[i - 1] \o seqs[i]]
           Has(k) == \E f : f = Turn(f, k)
           S == {k \in Nat : Has(k)}
           h == CHOOSE f : f = Turn(f, n)
<1>1. FlattenSeq(seqs) = h[n]
  BY DEF FlattenSeq
<1> HIDE DEF Has
<1>2. 0 \in S
  <2> DEFINE e == [i \in 1..0 |-> seqs[i]]
  <2>1. e = Turn(e, 0)
    OBVIOUS
  <2> QED
    BY <2>1 DEF Has
<1>3. ASSUME NEW k \in Nat, k \in S PROVE k + 1 \in S
  <2>1. PICK f : f = Turn(f, k)
    BY <1>3 DEF Has
  <2> DEFINE end == IF k = 0 THEN seqs[1] ELSE f[k] \o seqs[k + 1]
             g == [i \in 1..k + 1 |-> IF i = k + 1 THEN end ELSE f[i]]
  <2>2. \A i \in 1..k : f[i] = IF i = 1 THEN seqs[i] ELSE f[i - 1] \o seqs[i]
    BY <2>1
  <2>3. \A i \in 1..k : g[i] = f[i]
    OBVIOUS
  <2>4. ASSUME NEW i \in 1..k + 1
        PROVE  g[i] = IF i = 1 THEN seqs[i] ELSE g[i - 1] \o seqs[i]
    <3>1. CASE i = k + 1
      <4>1. g[i] = end
        BY <3>1
      <4>2. i # 1 => g[i - 1] = f[k] /\ k # 0
        BY <2>3, <3>1
      <4> HIDE DEF g
      <4> QED
        BY <3>1, <4>1, <4>2
    <3>2. CASE i # k + 1
      <4>1. i \in 1..k /\ (i # 1 => i - 1 \in 1..k)
        BY <3>2
      <4>2. g[i] = f[i] /\ (i # 1 => g[i - 1] = f[i - 1])
        BY <2>3, <4>1
      <4> HIDE DEF g
      <4> QED
        BY <2>2, <4>1, <4>2
    <3> QED
      BY <3>1, <3>2
  <2>5. g = Turn(g, k + 1)
    BY <2>4
  <2> HIDE DEF g, Turn
  <2> QED
    BY <2>5 DEF Has
<1>4. \A k \in Nat : k \in S
  <2> HIDE DEF S
  <2> QED
    BY <1>2, <1>3, NatInductionOnSet
<1>5. Has(n)
  BY <1>4
<1>6. h = Turn(h, n)
  <2> HIDE DEF Turn
  <2> QED
    BY <1>5 DEF Has
<1> HIDE DEF h
<1>7. \A i \in 1..n : h[i] = IF i = 1 THEN seqs[i] ELSE h[i - 1] \o seqs[i]
  BY <1>6
<1>8. h[1] = seqs[1]
  BY <1>7
<1>9. ASSUME NEW k \in 2..n PROVE h[k] = h[k - 1] \o seqs[k]
  <2>1. k \in 1..n /\ k # 1
    OBVIOUS
  <2> QED
    BY <1>7, <2>1
<1> QED
  BY <1>1, <1>8, <1>9 DEF Flattens


(* What is written at a place of a file is there afterwards, and the rest  *)
(* of the file stays.                                                      *)
Overwrites(o, S, content, at, data) ==
  /\ o \in Seq(S) /\ Len(o) \in Nat
  /\ at + Len(data) <= Len(o) /\ Len(content) <= Len(o)
  /\ Len(o) = at + Len(data) \/ Len(o) = Len(content)
  /\ \A i \in 1..Len(o) :
       /\ i <= at => o[i] = content[i]
       /\ at < i /\ i <= at + Len(data) => o[i] = data[i - at]
       /\ at + Len(data) < i => o[i] = content[i]

LEMMA OverwriteIs ==
  ASSUME NEW S, NEW content \in Seq(S), NEW data \in Seq(S), NEW at \in 0..Len(content)
  PROVE  Overwrites(Overwrite(content, at, data), S, content, at, data)
<1> DEFINE o == Overwrite(content, at, data)
           end == at + Len(data)
           a == SubSeq(content, 1, at)
           b == SubSeq(content, end + 1, Len(content))
           c == a \o data
<1>0. /\ Len(data) \in Nat /\ Len(content) \in Nat /\ at \in Nat /\ at <= Len(content)
      /\ end \in Nat /\ end = at + Len(data) /\ at <= end
  OBVIOUS
<1>1. /\ a \in Seq(S) /\ Len(a) = at /\ \A i \in 1..at : a[i] = content[i]
  OBVIOUS
<1>2. b \in Seq(S) /\ Len(b) \in Nat
  OBVIOUS
<1>3. end < Len(content) => Len(b) = Len(content) - end
  OBVIOUS
<1>4. ~(end < Len(content)) => Len(b) = 0
  OBVIOUS
<1>5. \A i \in 1..Len(b) : b[i] = content[end + i]
  OBVIOUS
<1>6. o = c \o b
  BY DEF Overwrite
<1> HIDE DEF a, b, o
<1>7. /\ c \in Seq(S) /\ Len(c) = end
      /\ \A i \in 1..end : c[i] = IF i <= at THEN content[i] ELSE data[i - at]
  BY <1>1
<1> HIDE DEF c
<1>8. /\ o \in Seq(S) /\ Len(o) = end + Len(b)
      /\ \A i \in 1..end + Len(b) : o[i] = IF i <= end THEN c[i] ELSE b[i - end]
  <2>1. /\ c \o b \in Seq(S) /\ Len(c \o b) = Len(c) + Len(b)
        /\ \A i \in 1..Len(c) + Len(b) :
             (c \o b)[i] = IF i <= Len(c) THEN c[i] ELSE b[i - Len(c)]
    BY <1>2, <1>7, ConcatProperties
  <2> QED
    BY <1>6, <1>7, <2>1
<1> HIDE DEF end
<1>9. /\ Len(o) \in Nat /\ end <= Len(o) /\ Len(content) <= Len(o)
      /\ Len(o) = end \/ Len(o) = Len(content)
  <2>1. CASE end < Len(content)
    BY <1>0, <1>3, <1>8, <2>1
  <2>2. CASE ~(end < Len(content))
    BY <1>0, <1>4, <1>8, <2>2
  <2> QED
    BY <2>1, <2>2
<1>10. ASSUME NEW i \in 1..Len(o), i <= end
       PROVE  o[i] = IF i <= at THEN content[i] ELSE data[i - at]
  <2>1. i \in 1..end /\ i \in 1..end + Len(b)
    BY <1>0, <1>2, <1>8, <1>10
  <2>2. o[i] = c[i]
    BY <1>8, <1>10, <2>1
  <2>3. c[i] = IF i <= at THEN content[i] ELSE data[i - at]
    BY <1>7, <2>1
  <2> QED
    BY <2>2, <2>3
<1>11. ASSUME NEW i \in 1..Len(o), end < i PROVE o[i] = content[i]
  <2>1. i \in 1..end + Len(b) /\ i - end \in 1..Len(b) /\ ~(i <= end) /\ end + (i - end) = i
    BY <1>0, <1>2, <1>8, <1>11
  <2>2. o[i] = b[i - end]
    BY <1>8, <2>1
  <2>3. b[i - end] = content[end + (i - end)]
    BY <1>5, <2>1
  <2> QED
    BY <2>1, <2>2, <2>3
<1>12. \A i \in 1..Len(o) :
         /\ i <= at => o[i] = content[i]
         /\ at < i /\ i <= end => o[i] = data[i - at]
         /\ end < i => o[i] = content[i]
  <2> TAKE i \in 1..Len(o)
  <2>1. i <= at => i <= end /\ i <= at
    BY <1>0, <1>9
  <2>2. at < i => ~(i <= at)
    BY <1>0, <1>9
  <2> QED
    BY <1>10, <1>11, <2>1, <2>2
<1> QED
  BY <1>0, <1>8, <1>9, <1>12 DEF o, Overwrites

LEMMA OverwriteNothing ==
  ASSUME NEW S, NEW content \in Seq(S), NEW at \in 0..Len(content)
  PROVE  Overwrite(content, at, <<>>) = content
<1> DEFINE none == <<>>
           o == Overwrite(content, at, none)
<1>1. none \in Seq(S) /\ Len(none) = 0 /\ Len(content) \in Nat /\ at \in Nat /\ at <= Len(content)
  OBVIOUS
<1>2. Overwrite(content, at, <<>>) = o
  OBVIOUS
<1> HIDE DEF none
<1>3. Overwrites(o, S, content, at, none)
  BY <1>1, OverwriteIs
<1> HIDE DEF o
<1>4. o \in Seq(S) /\ Len(o) = Len(content)
  BY <1>1, <1>3 DEF Overwrites
<1>5. ASSUME NEW i \in 1..Len(o) PROVE o[i] = content[i]
  <2>1. i <= at \/ at + Len(none) < i
    BY <1>1, <1>4
  <2> QED
    BY <1>3, <2>1 DEF Overwrites
<1> QED
  BY <1>2, <1>4, <1>5, SeqEqual

LEMMA OverwriteTwice ==
  ASSUME NEW S, NEW content \in Seq(S), NEW at \in 0..Len(content),
         NEW data \in Seq(S), NEW more \in Seq(S)
  PROVE  Overwrite(Overwrite(content, at, data), at + Len(data), more)
           = Overwrite(content, at, data \o more)
<1> DEFINE o == Overwrite(content, at, data)
           end == at + Len(data)
           both == data \o more
           l == Overwrite(o, end, more)
           r == Overwrite(content, at, both)
<1>1. Overwrites(o, S, content, at, data)
  BY OverwriteIs
<1>2. /\ both \in Seq(S) /\ Len(both) = Len(data) + Len(more)
      /\ \A i \in 1..Len(both) : both[i] = IF i <= Len(data) THEN data[i] ELSE more[i - Len(data)]
  OBVIOUS
<1> HIDE DEF o, both
<1>3. /\ o \in Seq(S) /\ Len(o) \in Nat /\ end \in 0..Len(o)
      /\ end \in Nat /\ at \in Nat /\ Len(content) \in Nat /\ at <= end
      /\ Len(data) \in Nat /\ Len(more) \in Nat /\ end = at + Len(data)
      /\ at + Len(both) = end + Len(more)
  BY <1>1, <1>2 DEF Overwrites
<1>4. Overwrites(l, S, o, end, more)
  BY <1>3, OverwriteIs
<1>5. Overwrites(r, S, content, at, both)
  BY <1>2, OverwriteIs
<1> HIDE DEF l, r, end
<1>6. Len(l) = Len(r) /\ Len(l) \in Nat /\ l \in Seq(S) /\ r \in Seq(S)
  <2>1. /\ end <= Len(o) /\ Len(content) <= Len(o)
        /\ Len(o) = end \/ Len(o) = Len(content)
    BY <1>1, <1>3 DEF Overwrites
  <2>2. /\ end + Len(more) <= Len(l) /\ Len(o) <= Len(l) /\ Len(l) \in Nat /\ l \in Seq(S)
        /\ Len(l) = end + Len(more) \/ Len(l) = Len(o)
    BY <1>4 DEF Overwrites
  <2>3. /\ end + Len(more) <= Len(r) /\ Len(content) <= Len(r) /\ Len(r) \in Nat /\ r \in Seq(S)
        /\ Len(r) = end + Len(more) \/ Len(r) = Len(content)
    BY <1>3, <1>5 DEF Overwrites
  <2> QED
    BY <1>3, <2>1, <2>2, <2>3
<1>7. ASSUME NEW i \in 1..Len(l) PROVE l[i] = r[i]
  <2>0. i \in 1..Len(r) /\ i \in Nat
    BY <1>6
  <2>a. ASSUME i <= end PROVE i \in 1..Len(o) /\ l[i] = o[i]
    BY <1>3, <1>4, <2>0, <2>a DEF Overwrites
  <2>1. CASE i <= at
    <3>1. i <= end
      BY <1>3, <2>0, <2>1
    <3>2. o[i] = content[i]
      BY <1>1, <2>a, <2>1, <3>1 DEF Overwrites
    <3>3. r[i] = content[i]
      BY <1>5, <2>0, <2>1 DEF Overwrites
    <3> QED
      BY <2>a, <3>1, <3>2, <3>3
  <2>2. CASE at < i /\ i <= end
    <3>1. o[i] = data[i - at]
      BY <1>1, <1>3, <2>a, <2>2 DEF Overwrites
    <3>2. i - at \in 1..Len(both) /\ i - at <= Len(data) /\ i <= end + Len(more)
      BY <1>2, <1>3, <2>0, <2>2
    <3>3. both[i - at] = data[i - at]
      BY <1>2, <3>2
    <3>4. r[i] = both[i - at]
      BY <1>3, <1>5, <2>0, <2>2, <3>2 DEF Overwrites
    <3> QED
      BY <2>a, <2>2, <3>1, <3>3, <3>4
  <2>3. CASE end < i /\ i <= end + Len(more)
    <3>1. /\ i - at \in 1..Len(both) /\ ~(i - at <= Len(data)) /\ (i - at) - Len(data) = i - end
          /\ at < i
      BY <1>2, <1>3, <2>0, <2>3
    <3>2. both[i - at] = more[i - end]
      BY <1>2, <3>1
    <3>3. l[i] = more[i - end]
      BY <1>4, <2>3 DEF Overwrites
    <3>4. r[i] = both[i - at]
      BY <1>3, <1>5, <2>0, <2>3, <3>1 DEF Overwrites
    <3> QED
      BY <3>2, <3>3, <3>4
  <2>4. CASE end + Len(more) < i
    <3>1. l[i] = o[i] /\ r[i] = content[i]
      BY <1>3, <1>4, <1>5, <2>0, <2>4 DEF Overwrites
    <3>2. Len(l) = end + Len(more) \/ Len(l) = Len(o)
      BY <1>4 DEF Overwrites
    <3>3. i \in 1..Len(o) /\ end < i
      BY <1>3, <1>6, <2>0, <2>4, <3>2
    <3>4. o[i] = content[i]
      BY <1>1, <1>3, <3>3 DEF Overwrites
    <3> QED
      BY <3>1, <3>4
  <2>5. \/ i <= at
        \/ at < i /\ i <= end
        \/ end < i /\ i <= end + Len(more)
        \/ end + Len(more) < i
    BY <1>3, <2>0
  <2> QED
    BY <2>1, <2>2, <2>3, <2>4, <2>5
<1> QED
  BY <1>6, <1>7, SeqEqual DEF l, r, o, both, end


(* Reading one buffer after the other.                                     *)
ReadsTo(h, sizes, base, n) ==
  /\ h[0] = base
  /\ \A k \in 1..n : h[k] = ReadOne(h[k - 1], sizes[k])
  /\ FoldLeft(ReadOne, base, sizes) = h[n]

LEMMA ReadRun ==
  ASSUME NEW sizes, NEW base, NEW n \in Nat, DOMAIN sizes = 1..n
  PROVE  \E h : ReadsTo(h, sizes, base, n)
<1> DEFINE Unfold(f) == [s \in SUBSET (1..n) |->
                          IF s = {} THEN base ELSE ReadOne(f[s \ {Max(s)}], sizes[Max(s)])]
           fold == CHOOSE f : f = Unfold(f)
           Folds(k, g) == g = [s \in SUBSET (1..k) |->
                                 IF s = {} THEN base ELSE ReadOne(g[s \ {Max(s)}], sizes[Max(s)])]
           Has(k) == \E g : Folds(k, g)
           S == {k \in Nat : Has(k)}
<1>1. FoldLeft(ReadOne, base, sizes) = fold[1..n]
  BY DEF FoldLeft, MapThenFoldSet
<1> HIDE DEF Has
<1>2. 0 \in S
  <2> DEFINE g == [s \in SUBSET (1..0) |-> base]
  <2>1. \A s \in SUBSET (1..0) : s = {}
    OBVIOUS
  <2>2. Folds(0, g)
    BY <2>1
  <2> QED
    BY <2>2 DEF Has
<1>3. ASSUME NEW k \in Nat, k \in S PROVE k + 1 \in S
  <2>1. PICK g : Folds(k, g)
    BY <1>3 DEF Has
  <2> DEFINE f == [s \in SUBSET (1..k + 1) |->
                     IF k + 1 \in s THEN ReadOne(g[s \ {k + 1}], sizes[k + 1]) ELSE g[s]]
  <2>2. \A p \in SUBSET (1..k) : p \in SUBSET (1..k + 1) /\ k + 1 \notin p
    OBVIOUS
  <2>3. \A p \in SUBSET (1..k) : f[p] = g[p]
    BY <2>2
  <2>4. ASSUME NEW s \in SUBSET (1..k + 1)
        PROVE  f[s] = IF s = {} THEN base ELSE ReadOne(f[s \ {Max(s)}], sizes[Max(s)])
    <3>1. /\ k + 1 \in s => Max(s) = k + 1 /\ s \ {k + 1} \in SUBSET (1..k)
          /\ k + 1 \notin s => s \in SUBSET (1..k)
      BY MaxWithLast
    <3>2. CASE k + 1 \in s
      <4>1. f[s] = ReadOne(g[s \ {k + 1}], sizes[k + 1])
        BY <3>2
      <4>2. f[s \ {k + 1}] = g[s \ {k + 1}]
        BY <2>3, <3>1, <3>2
      <4> HIDE DEF f
      <4> QED
        BY <3>1, <3>2, <4>1, <4>2
    <3>3. CASE k + 1 \notin s
      <4>1. s \in SUBSET (1..k) /\ f[s] = g[s]
        BY <2>3, <3>1, <3>3
      <4>2. s \ {Max(s)} \in SUBSET (1..k)
        BY <4>1
      <4>3. f[s \ {Max(s)}] = g[s \ {Max(s)}]
        BY <2>3, <4>2
      <4>4. g[s] = IF s = {} THEN base ELSE ReadOne(g[s \ {Max(s)}], sizes[Max(s)])
        BY <2>1, <4>1
      <4> HIDE DEF f
      <4> QED
        BY <4>1, <4>3, <4>4
    <3> QED
      BY <3>2, <3>3
  <2>5. Folds(k + 1, f)
    BY <2>4
  <2>6. Has(k + 1)
    <3> HIDE DEF Folds, f
    <3> QED
      BY <2>5 DEF Has
  <2> QED
    BY <2>6
<1>4. \A k \in Nat : k \in S
  <2> HIDE DEF S
  <2> QED
    BY <1>2, <1>3, NatInductionOnSet
<1>5. Has(n)
  BY <1>4
<1>6. fold = Unfold(fold)
  <2>1. \E f : f = Unfold(f)
    BY <1>5 DEF Has
  <2> HIDE DEF Unfold
  <2> QED
    BY <2>1
<1> HIDE DEF fold
<1> DEFINE h == [k \in 0..n |-> fold[1..k]]
<1>7. h[0] = base
  <2>1. 0 \in 0..n /\ 1..0 = {} /\ 1..0 \in SUBSET (1..n)
    OBVIOUS
  <2>2. fold[1..0] = base
    BY <1>6, <2>1
  <2> QED
    BY <2>1, <2>2
<1>8. ASSUME NEW k \in 1..n PROVE h[k] = ReadOne(h[k - 1], sizes[k])
  <2>1. k \in Nat \ {0} /\ k \in 0..n /\ k - 1 \in 0..n /\ 1..k \in SUBSET (1..n)
    OBVIOUS
  <2>2. Max(1..k) = k /\ (1..k) \ {k} = 1..k - 1 /\ 1..k # {}
    BY <2>1, MaxOfInitial
  <2>3. fold[1..k] = ReadOne(fold[1..k - 1], sizes[k])
    BY <1>6, <2>1, <2>2
  <2> QED
    BY <2>1, <2>3
<1>9. FoldLeft(ReadOne, base, sizes) = h[n]
  BY <1>1
<1> HIDE DEF h
<1> QED
  BY <1>7, <1>8, <1>9 DEF ReadsTo


(* One buffer takes what it asks for, or what there still is.              *)
LEMMA ReadFills ==
  ASSUME NEW got \in Nat, NEW there \in Nat, NEW size \in 0..there
  PROVE  ReadOne([got |-> got, there |-> there, filled |-> TRUE], size)
           = [got |-> got + size, there |-> there - size, filled |-> TRUE]
<1> DEFINE r == [got |-> got, there |-> there, filled |-> TRUE]
           n == IF size < r.there THEN size ELSE r.there
<1>1. ReadOne(r, size) = [got |-> got + n, there |-> there - n, filled |-> n = size]
  <2>1. r.filled /\ r.got = got /\ r.there = there
    BY Zenon
  <2> QED
    BY <2>1, Zenon DEF ReadOne
<1>2. n = size
  OBVIOUS
<1>3. (n = size) = TRUE
  BY <1>2, Zenon
<1> HIDE DEF n
<1> QED
  BY <1>1, <1>2, <1>3, Zenon

LEMMA ReadEnds ==
  ASSUME NEW got \in Nat, NEW there \in Nat, NEW size \in Nat, there < size
  PROVE  ReadOne([got |-> got, there |-> there, filled |-> TRUE], size)
           = [got |-> got + there, there |-> 0, filled |-> FALSE]
<1> DEFINE r == [got |-> got, there |-> there, filled |-> TRUE]
           n == IF size < r.there THEN size ELSE r.there
<1>1. ReadOne(r, size) = [got |-> got + n, there |-> there - n, filled |-> n = size]
  <2>1. r.filled /\ r.got = got /\ r.there = there
    BY Zenon
  <2> QED
    BY <2>1, Zenon DEF ReadOne
<1>2. n = there /\ n # size /\ there - n = 0
  OBVIOUS
<1>3. (n = size) = FALSE
  BY <1>2, Zenon
<1> HIDE DEF n
<1> QED
  BY <1>1, <1>2, <1>3, Zenon

LEMMA ReadStops ==
  ASSUME NEW got, NEW there, NEW size
  PROVE  ReadOne([got |-> got, there |-> there, filled |-> FALSE], size)
           = [got |-> got, there |-> there, filled |-> FALSE]
BY Zenon DEF ReadOne

(* The bytes that a sequence of buffers gets from a file.                  *)
LEMMA ReadGets ==
  ASSUME NEW sizes \in Sizes, NEW there \in Nat
  PROVE  /\ SumFunction(sizes) \in Nat
         /\ FoldLeft(ReadOne, [got |-> 0, there |-> there, filled |-> TRUE], sizes).got
              = IF SumFunction(sizes) < there THEN SumFunction(sizes) ELSE there
<1> DEFINE base == [got |-> 0, there |-> there, filled |-> TRUE]
<1> HIDE DEF base
<1>1. CASE sizes = <<1>>
  <2>1. DOMAIN sizes = 1..1 /\ sizes[1] = 1
    BY <1>1
  <2>2. PICK h : ReadsTo(h, sizes, base, 1)
    BY <2>1, ReadRun
  <2>3. h[0] = base /\ h[1] = ReadOne(base, 1) /\ FoldLeft(ReadOne, base, sizes) = h[1]
    BY <2>1, <2>2 DEF ReadsTo
  <2>4. SumFunction(sizes) = 1
    <3> DEFINE Unfold(f) == [s \in SUBSET DOMAIN sizes |->
                               IF s = {} THEN 0
                               ELSE LET x == CHOOSE x \in s : TRUE IN sizes[x] + f[s \ {x}]]
               fold == CHOOSE f : f = Unfold(f)
               g == [s \in SUBSET {1} |->
                       IF 1 \in s THEN 1 ELSE 0]
    <3>1. SumFunction(sizes) = fold[DOMAIN sizes]
      BY DEF SumFunction, SumFunctionOnSet, FoldFunctionOnSet, MapThenFoldSet
    <3>2. DOMAIN sizes = {1}
      BY <2>1
    <3> DEFINE pick(s) == CHOOSE x \in s : TRUE
    <3>a. \A s \in SUBSET {1} : s # {} => pick(s) \in s
      OBVIOUS
    <3> HIDE DEF pick
    <3>3. g = Unfold(g)
      <4>1. ASSUME NEW s \in SUBSET {1}, s # {}
            PROVE  g[s] = sizes[pick(s)] + g[s \ {pick(s)}]
        <5>1. s \ {pick(s)} \in SUBSET {1} /\ pick(s) = 1 /\ pick(s) \in s
          BY <3>a, <4>1
        <5> QED
          BY <2>1, <5>1
      <4>2. ASSUME NEW s \in SUBSET {1}, s = {} PROVE g[s] = 0
        BY <4>2
      <4>3. g = [s \in SUBSET {1} |-> IF s = {} THEN 0 ELSE sizes[pick(s)] + g[s \ {pick(s)}]]
        <5>1. \A s \in SUBSET {1} :
                g[s] = IF s = {} THEN 0 ELSE sizes[pick(s)] + g[s \ {pick(s)}]
          BY <4>1, <4>2
        <5>2. g = [s \in SUBSET {1} |-> g[s]]
          OBVIOUS
        <5> HIDE DEF g
        <5> QED
          BY <5>1, <5>2
      <4> HIDE DEF g
      <4> QED
        BY <3>2, <4>3 DEF pick
    <3>4. fold = Unfold(fold)
      <4> HIDE DEF Unfold, g
      <4> QED
        BY <3>3
    <3> HIDE DEF fold
    <3>5. \A s \in SUBSET {1} : 
            fold[s] = IF s = {} THEN 0 ELSE sizes[pick(s)] + fold[s \ {pick(s)}]
      BY <3>2, <3>4 DEF pick
    <3>6. fold[{}] = 0
      BY <3>5
    <3>7. fold[{1}] = 1
      <4>1. pick({1}) = 1 /\ {1} \ {1} = {} /\ {1} # {}
        BY <3>a
      <4>2. fold[{1}] = sizes[1] + fold[{}]
        BY <3>5, <4>1
      <4> QED
        BY <2>1, <3>6, <4>2
    <3> QED
      BY <3>1, <3>2, <3>7
  <2>5. h[1].got = IF 1 < there THEN 1 ELSE there
    <3>1. CASE 1 <= there
      <4>1. ReadOne(base, 1) = [got |-> 0 + 1, there |-> there - 1, filled |-> TRUE]
        BY <3>1, ReadFills DEF base
      <4> QED
        BY <2>3, <3>1, <4>1
    <3>2. CASE there < 1
      <4>1. ReadOne(base, 1) = [got |-> 0 + there, there |-> 0, filled |-> FALSE]
        BY <3>2, ReadEnds DEF base
      <4> QED
        BY <2>3, <3>2, <4>1
    <3> QED
      BY <3>1, <3>2
  <2> QED
    BY <2>3, <2>4, <2>5 DEF base
<1>2. CASE sizes = <<1, 2>>
  <2>1. DOMAIN sizes = 1..2 /\ sizes[1] = 1 /\ sizes[2] = 2
    BY <1>2
  <2>2. PICK h : ReadsTo(h, sizes, base, 2)
    BY <2>1, ReadRun
  <2>3. /\ h[0] = base /\ h[1] = ReadOne(base, 1) /\ h[2] = ReadOne(h[1], 2)
        /\ FoldLeft(ReadOne, base, sizes) = h[2]
    BY <2>1, <2>2 DEF ReadsTo
  <2>4. SumFunction(sizes) = 3
    <3> DEFINE Unfold(f) == [s \in SUBSET DOMAIN sizes |->
                               IF s = {} THEN 0
                               ELSE LET x == CHOOSE x \in s : TRUE IN sizes[x] + f[s \ {x}]]
               fold == CHOOSE f : f = Unfold(f)
               g == [s \in SUBSET {1, 2} |->
                       IF 1 \in s THEN IF 2 \in s THEN 3 ELSE 1
                       ELSE IF 2 \in s THEN 2 ELSE 0]
    <3>1. SumFunction(sizes) = fold[DOMAIN sizes]
      BY DEF SumFunction, SumFunctionOnSet, FoldFunctionOnSet, MapThenFoldSet
    <3>2. DOMAIN sizes = {1, 2}
      BY <2>1
    <3> DEFINE pick(s) == CHOOSE x \in s : TRUE
    <3>a. \A s \in SUBSET {1, 2} : s # {} => pick(s) \in s
      OBVIOUS
    <3> HIDE DEF pick
    <3>3. g = Unfold(g)
      <4>1. ASSUME NEW s \in SUBSET {1, 2}, s # {}
            PROVE  g[s] = sizes[pick(s)] + g[s \ {pick(s)}]
        <5>1. s \ {pick(s)} \in SUBSET {1, 2} /\ (pick(s) = 1 \/ pick(s) = 2) /\ pick(s) \in s
          BY <3>a, <4>1
        <5> QED
          BY <2>1, <5>1
      <4>2. ASSUME NEW s \in SUBSET {1, 2}, s = {} PROVE g[s] = 0
        BY <4>2
      <4>3. g = [s \in SUBSET {1, 2} |-> IF s = {} THEN 0 ELSE sizes[pick(s)] + g[s \ {pick(s)}]]
        <5>1. \A s \in SUBSET {1, 2} :
                g[s] = IF s = {} THEN 0 ELSE sizes[pick(s)] + g[s \ {pick(s)}]
          BY <4>1, <4>2
        <5>2. g = [s \in SUBSET {1, 2} |-> g[s]]
          OBVIOUS
        <5> HIDE DEF g
        <5> QED
          BY <5>1, <5>2
      <4> HIDE DEF g
      <4> QED
        BY <3>2, <4>3 DEF pick
    <3>4. fold = Unfold(fold)
      <4> HIDE DEF Unfold, g
      <4> QED
        BY <3>3
    <3> HIDE DEF fold
    <3>5. \A s \in SUBSET {1, 2} : 
            fold[s] = IF s = {} THEN 0 ELSE sizes[pick(s)] + fold[s \ {pick(s)}]
      BY <3>2, <3>4 DEF pick
    <3>6. fold[{}] = 0
      BY <3>5
    <3>7. fold[{1}] = 1 /\ fold[{2}] = 2
      <4>1. pick({1}) = 1 /\ pick({2}) = 2
        BY <3>a
      <4>2. {1} \ {1} = {} /\ {2} \ {2} = {} /\ {1} # {} /\ {2} # {}
        OBVIOUS
      <4>3. fold[{1}] = sizes[1] + fold[{}] /\ fold[{2}] = sizes[2] + fold[{}]
        BY <3>5, <4>1, <4>2
      <4> QED
        BY <2>1, <3>6, <4>3
    <3>8. fold[{1, 2}] = 3
      <4>1. pick({1, 2}) \in {1, 2} /\ {1, 2} # {}
        BY <3>a
      <4>2. fold[{1, 2}] = sizes[pick({1, 2})] + fold[{1, 2} \ {pick({1, 2})}]
        BY <3>5, <4>1
      <4>3. {1, 2} \ {1} = {2} /\ {1, 2} \ {2} = {1}
        OBVIOUS
      <4> QED
        BY <2>1, <3>7, <4>1, <4>2, <4>3
    <3> QED
      BY <3>1, <3>2, <3>8
  <2>5. h[2].got = IF 3 < there THEN 3 ELSE there
    <3>1. CASE there < 1
      <4>1. ReadOne(base, 1) = [got |-> 0 + there, there |-> 0, filled |-> FALSE]
        BY <3>1, ReadEnds DEF base
      <4>2. h[2] = [got |-> 0 + there, there |-> 0, filled |-> FALSE]
        BY <2>3, <4>1, ReadStops, Zenon
      <4> QED
        BY <3>1, <4>2
    <3>2. CASE 1 <= there
      <4> DEFINE left == there - 1
      <4>1. ReadOne(base, 1) = [got |-> 0 + 1, there |-> left, filled |-> TRUE]
        BY <3>2, ReadFills DEF base
      <4>2. left \in Nat /\ there = left + 1 /\ 0 + 1 = 1
        BY <3>2
      <4>3. h[2] = ReadOne([got |-> 1, there |-> left, filled |-> TRUE], 2)
        BY <2>3, <4>1, <4>2, Zenon
      <4> HIDE DEF left
      <4>4. CASE 2 <= left
        <5>1. ReadOne([got |-> 1, there |-> left, filled |-> TRUE], 2)
                = [got |-> 1 + 2, there |-> left - 2, filled |-> TRUE]
          BY <4>2, <4>4, ReadFills
        <5> QED
          BY <4>2, <4>3, <4>4, <5>1
      <4>5. CASE left < 2
        <5>1. ReadOne([got |-> 1, there |-> left, filled |-> TRUE], 2)
                = [got |-> 1 + left, there |-> 0, filled |-> FALSE]
          BY <4>2, <4>5, ReadEnds
        <5> QED
          BY <4>2, <4>3, <4>5, <5>1
      <4> QED
        BY <4>2, <4>4, <4>5
    <3> QED
      BY <3>1, <3>2
  <2> QED
    BY <2>3, <2>4, <2>5 DEF base
<1> QED
  BY <1>1, <1>2 DEF Sizes


(* The flags that fopen asks for name its mode again.                      *)
LEMMA ModeComesBack ==
  ASSUME NEW mode \in Mode
  PROVE  HostMode(Flags(mode)) = mode
<1>1. mode = [base |-> mode.base, plus |-> mode.plus, excl |-> mode.excl]
  BY DEF Mode
<1>2. mode.base \in {"r", "w", "a"} /\ mode.plus \in BOOLEAN /\ mode.excl \in BOOLEAN
      /\ (mode.base = "r" => ~mode.excl)
  BY DEF Mode
<1> DEFINE o == Flags(mode)
<1>3. /\ o.read = CanRead(mode) /\ o.write = CanWrite(mode) /\ o.create = (mode.base # "r")
      /\ o.excl = mode.excl /\ o.trunc = (mode.base = "w") /\ o.append = (mode.base = "a")
      /\ o.directory = FALSE /\ o.nonblock = FALSE
  BY Zenon DEF Flags
<1> HIDE DEF o
<1>4. CASE mode.base = "r"
  <2>1. /\ o.read /\ o.write = mode.plus /\ ~o.create /\ ~o.excl /\ ~o.trunc /\ ~o.append
        /\ ~o.directory /\ ~o.nonblock
    <3>1. CanRead(mode) /\ CanWrite(mode) = mode.plus
      BY <1>2, <1>4 DEF CanRead, CanWrite
    <3> QED
      BY <1>2, <1>3, <1>4, <3>1
  <2>2. HostMode(o) = [base |-> "r", plus |-> o.write, excl |-> FALSE]
    BY <2>1, Zenon DEF HostMode
  <2>3. mode.excl = FALSE
    BY <1>2, <1>4
  <2>4. HostMode(o) = [base |-> mode.base, plus |-> mode.plus, excl |-> mode.excl]
    BY <1>4, <2>1, <2>2, <2>3, Zenon
  <2> QED
    BY <1>1, <2>4, Zenon DEF o
<1>5. CASE mode.base = "w"
  <2>1. o.write /\ o.create /\ o.trunc /\ o.read = mode.plus /\ ~o.directory /\ ~o.nonblock
    <3>1. CanWrite(mode) /\ CanRead(mode) = mode.plus
      BY <1>2, <1>5 DEF CanRead, CanWrite
    <3> QED
      BY <1>2, <1>3, <1>5, <3>1
  <2>2. HostMode(o) = [base |-> "w", plus |-> o.read, excl |-> o.excl]
    BY <2>1, Zenon DEF HostMode
  <2>4. HostMode(o) = [base |-> mode.base, plus |-> mode.plus, excl |-> mode.excl]
    BY <1>3, <1>5, <2>1, <2>2, Zenon
  <2> QED
    BY <1>1, <2>4, Zenon DEF o
<1>6. CASE mode.base = "a"
  <2>1. o.write /\ o.create /\ ~o.trunc /\ o.append /\ o.read = mode.plus /\ ~o.directory /\ ~o.nonblock
    <3>1. CanWrite(mode) /\ CanRead(mode) = mode.plus
      BY <1>2, <1>6 DEF CanRead, CanWrite
    <3> QED
      BY <1>2, <1>3, <1>6, <3>1
  <2>2. HostMode(o) = [base |-> "a", plus |-> o.read, excl |-> o.excl]
    BY <2>1, Zenon DEF HostMode
  <2>4. HostMode(o) = [base |-> mode.base, plus |-> mode.plus, excl |-> mode.excl]
    BY <1>3, <1>6, <2>1, <2>2, Zenon
  <2> QED
    BY <1>1, <2>4, Zenon DEF o
<1> QED
  BY <1>2, <1>4, <1>5, <1>6

(* The buffers of a write are content, and the first of them is not empty. *)
LEMMA BufferData ==
  ASSUME NEW buffers \in Buffers
  PROVE  /\ FlattenSeq(buffers) \in Seq(Chunk)
         /\ \E i \in DOMAIN buffers : buffers[i] # <<>>
<1>1. ASSUME NEW c \in Chunk, buffers = <<<<c>>>>
      PROVE  /\ FlattenSeq(buffers) \in Seq(Chunk)
             /\ \E i \in DOMAIN buffers : buffers[i] # <<>>
  <2>1. Len(buffers) = 1 /\ 1 \in DOMAIN buffers /\ buffers[1] = <<c>>
    BY <1>1
  <2>2. PICK h : Flattens(h, buffers, 1)
    <3>1. 1 \in Nat \ {0} /\ Len(buffers) = 1
      BY <2>1
    <3> QED
      BY <3>1, FlattenRun, Zenon
  <2>3. FlattenSeq(buffers) = <<c>>
    BY <2>1, <2>2 DEF Flattens
  <2> QED
    BY <2>1, <2>3
<1>2. ASSUME NEW c \in Chunk, buffers = <<<<c>>, <<>>, <<c>>>>
      PROVE  /\ FlattenSeq(buffers) \in Seq(Chunk)
             /\ \E i \in DOMAIN buffers : buffers[i] # <<>>
  <2>1. /\ Len(buffers) = 3 /\ 1 \in DOMAIN buffers
        /\ buffers[1] = <<c>> /\ buffers[2] = <<>> /\ buffers[3] = <<c>>
    BY <1>2
  <2>2. PICK h : Flattens(h, buffers, 3)
    <3>1. 3 \in Nat \ {0} /\ Len(buffers) = 3
      BY <2>1
    <3> QED
      BY <3>1, FlattenRun, Zenon
  <2>3. h[1] = <<c>> /\ h[2] = h[1] \o <<>> /\ h[3] = h[2] \o <<c>> /\ FlattenSeq(buffers) = h[3]
    <3>1. 2 \in 2..3 /\ 3 \in 2..3 /\ 2 - 1 = 1 /\ 3 - 1 = 2
      OBVIOUS
    <3>2. \A k \in 2..3 : h[k] = h[k - 1] \o buffers[k]
      BY <2>2, Zenon DEF Flattens
    <3>3. h[2] = h[1] \o buffers[2] /\ h[3] = h[2] \o buffers[3]
      BY <3>1, <3>2
    <3>4. h[1] = buffers[1] /\ FlattenSeq(buffers) = h[3]
      BY <2>2, Zenon DEF Flattens
    <3> QED
      BY <2>1, <3>3, <3>4, Zenon
  <2>4. h[1] \in Seq(Chunk) /\ <<c>> \in Seq(Chunk)
    BY <2>3
  <2>5. h[2] \in Seq(Chunk)
    BY <2>3, <2>4
  <2>6. h[3] \in Seq(Chunk)
    BY <2>3, <2>4, <2>5
  <2>7. \E i \in DOMAIN buffers : buffers[i] # <<>>
    <3>1. <<c>> # <<>>
      OBVIOUS
    <3> QED
      BY <2>1, <3>1, Zenon
  <2>8. FlattenSeq(buffers) \in Seq(Chunk)
    BY <2>3, <2>6, Zenon
  <2> QED
    BY <2>7, <2>8, Zenon
<1> QED
  BY <1>1, <1>2 DEF Buffers

(* What was written and what is still in a buffer come to the same file.   *)
LEMMA WrittenIs ==
  ASSUME NEW content \in Seq(Chunk), NEW mode, NEW at \in 0..Len(content), NEW data \in Seq(Chunk)
  PROVE  /\ Written(content, mode, at, data) \in Seq(Chunk)
         /\ at + Len(data) <= Len(Written(content, mode, at, data))
         /\ Written(content, mode, at, <<>>) = content
<1> DEFINE p == IF mode.base = "a" THEN Len(content) ELSE at
           o == Overwrite(content, p, data)
<1>1. p \in 0..Len(content) /\ at <= p /\ Len(data) \in Nat /\ at \in Nat
  OBVIOUS
<1>2. Written(content, mode, at, data) = o /\ Written(content, mode, at, <<>>) = Overwrite(content, p, <<>>)
  BY DEF Written
<1> HIDE DEF p
<1>3. Overwrites(o, Chunk, content, p, data) /\ Overwrite(content, p, <<>>) = content
  BY <1>1, OverwriteIs, OverwriteNothing
<1> HIDE DEF o
<1> QED
  BY <1>1, <1>2, <1>3 DEF Overwrites

LEMMA WrittenTwice ==
  ASSUME NEW content \in Seq(Chunk), NEW mode, NEW at \in 0..Len(content),
         NEW data \in Seq(Chunk), NEW more \in Seq(Chunk)
  PROVE  Written(Written(content, mode, at, data), mode, at + Len(data), more)
           = Written(content, mode, at, data \o more)
<1> DEFINE p == IF mode.base = "a" THEN Len(content) ELSE at
           o == Overwrite(content, p, data)
<1>1. p \in 0..Len(content) /\ Len(data) \in Nat /\ at \in Nat /\ p \in Nat
  OBVIOUS
<1>2. /\ Written(content, mode, at, data) = o
      /\ Written(content, mode, at, data \o more) = Overwrite(content, p, data \o more)
      /\ Written(o, mode, at + Len(data), more)
           = Overwrite(o, IF mode.base = "a" THEN Len(o) ELSE at + Len(data), more)
  BY DEF Written
<1> HIDE DEF p
<1>3. Overwrites(o, Chunk, content, p, data)
  BY <1>1, OverwriteIs
<1>4. Overwrite(o, p + Len(data), more) = Overwrite(content, p, data \o more)
  BY <1>1, OverwriteTwice
<1>5. (IF mode.base = "a" THEN Len(o) ELSE at + Len(data)) = p + Len(data)
  <2> HIDE DEF o
  <2>1. CASE mode.base = "a"
    <3>1. p = Len(content)
      BY <2>1 DEF p
    <3>2. Len(o) = p + Len(data)
      BY <1>1, <1>3, <3>1 DEF Overwrites
    <3> QED
      BY <2>1, <3>2
  <2>2. CASE mode.base # "a"
    BY <2>2 DEF p
  <2> QED
    BY <2>1, <2>2
<1> HIDE DEF o, p
<1> QED
  BY <1>2, <1>4, <1>5


(* The fields of a file after a write, and of what a test takes it for.    *)
LEMMA FwriteIs ==
  ASSUME NEW f \in File, NEW data \in Seq(Chunk)
  PROVE  /\ fwrite(f, data) \in File
         /\ fwrite(f, data).path = f.path /\ fwrite(f, data).mode = f.mode
         /\ fwrite(f, data).at = f.at + Len(data)
         /\ fwrite(f, data).buffer = f.buffer \o data
         /\ fwrite(f, data).last = "write"
<1>1. f = [path |-> f.path, mode |-> f.mode, at |-> f.at, last |-> f.last, buffer |-> f.buffer]
  BY DEF File
<1>2. /\ f.at + Len(data) \in Nat /\ f.buffer \o data \in Seq(Chunk)
      /\ f.path \in Path \cup {"standard"}
      /\ f.mode \in [base : {"r", "w", "a"}, plus : BOOLEAN, excl : BOOLEAN]
      /\ "write" \in Done
  BY DEF File, Done
<1> DEFINE at == f.at + Len(data)
           buffer == f.buffer \o data
           a == [f EXCEPT !.buffer = buffer]
           b == [a EXCEPT !.at = at]
           g == [path |-> f.path, mode |-> f.mode, at |-> at, last |-> "write", buffer |-> buffer]
<1>3. fwrite(f, data) = [f EXCEPT !.buffer = buffer, !.at = at, !.last = "write"]
  BY Zenon DEF fwrite
<1> HIDE DEF at, buffer
<1>4. a = [path |-> f.path, mode |-> f.mode, at |-> f.at, last |-> f.last, buffer |-> buffer]
  BY <1>1
<1>5. b = [path |-> f.path, mode |-> f.mode, at |-> at, last |-> f.last, buffer |-> buffer]
  <2> HIDE DEF a
  <2> QED
    BY <1>4
<1>6. [b EXCEPT !.last = "write"] = g
  <2> HIDE DEF b
  <2> QED
    BY <1>5
<1>7. [f EXCEPT !.buffer = buffer, !.at = at, !.last = "write"] = [b EXCEPT !.last = "write"]
  BY Zenon
<1>8. fwrite(f, data) = g
  BY <1>3, <1>6, <1>7, Zenon
<1>9. g \in File
  BY <1>2 DEF File, at, buffer
<1> QED
  BY <1>8, <1>9 DEF at, buffer

LEMMA FreadIs ==
  ASSUME NEW f \in File, NEW n \in Nat
  PROVE  /\ fread(f, n) \in File
         /\ fread(f, n).path = f.path /\ fread(f, n).mode = f.mode
         /\ fread(f, n).at = f.at + n
         /\ fread(f, n).buffer = f.buffer
<1>1. f = [path |-> f.path, mode |-> f.mode, at |-> f.at, last |-> f.last, buffer |-> f.buffer]
  BY DEF File
<1> DEFINE at == f.at + n
           a == [f EXCEPT !.at = at]
           g == [path |-> f.path, mode |-> f.mode, at |-> at, last |-> "read", buffer |-> f.buffer]
<1>2. /\ at \in Nat /\ f.buffer \in Seq(Chunk) /\ f.path \in Path \cup {"standard"}
      /\ f.mode \in [base : {"r", "w", "a"}, plus : BOOLEAN, excl : BOOLEAN]
      /\ "read" \in Done
  BY DEF File, Done
<1>3. fread(f, n) = [f EXCEPT !.at = at, !.last = "read"]
  BY Zenon DEF fread
<1> HIDE DEF at
<1>4. a = [path |-> f.path, mode |-> f.mode, at |-> at, last |-> f.last, buffer |-> f.buffer]
  BY <1>1
<1>5. [a EXCEPT !.last = "read"] = g
  <2> HIDE DEF a
  <2> QED
    BY <1>4
<1>6. [f EXCEPT !.at = at, !.last = "read"] = [a EXCEPT !.last = "read"]
  BY Zenon
<1>7. fread(f, n) = g
  BY <1>3, <1>5, <1>6, Zenon
<1>8. g \in File
  BY <1>2 DEF File
<1> QED
  BY <1>7, <1>8 DEF at

LEMMA ViewIs ==
  ASSUME NEW h \in View, NEW at \in Nat, NEW did \in Done
  PROVE  [h EXCEPT !.at = at, !.last = did]
           = [path |-> h.path, mode |-> h.mode, at |-> at, last |-> did]
<1>1. h = [path |-> h.path, mode |-> h.mode, at |-> h.at, last |-> h.last]
  BY DEF View
<1> DEFINE a == [h EXCEPT !.at = at]
<1>2. a = [path |-> h.path, mode |-> h.mode, at |-> at, last |-> h.last]
  BY <1>1
<1>3. [a EXCEPT !.last = did] = [path |-> h.path, mode |-> h.mode, at |-> at, last |-> did]
  <2> HIDE DEF a
  <2> QED
    BY <1>2
<1>4. [h EXCEPT !.at = at, !.last = did] = [a EXCEPT !.last = did]
  BY Zenon
<1> QED
  BY <1>3, <1>4, Zenon


(* A file of cltester is the one that the test takes it for: the same      *)
(* name, mode and place, and what the test expects is what the disk has    *)
(* once the buffer is written.                                             *)
Fits(f, h, d, e) ==
  /\ f \in File /\ h \in View /\ h.mode \in Mode
  /\ f.path = h.path /\ f.mode = h.mode /\ f.at = h.at
  /\ d \in Seq(Chunk)
  /\ Len(f.buffer) <= h.at /\ h.at - Len(f.buffer) <= Len(d)
  /\ e = Written(d, h.mode, h.at - Len(f.buffer), f.buffer)
  /\ h.last # "write" => f.buffer = <<>>

FilesType ==
  /\ disk \in [Path -> Seq(Chunk) \cup {None}] /\ expected \in [Path -> Seq(Chunk) \cup {None}]
  /\ files \in Seq(File \cup {None}) /\ Len(files) >= 4 /\ files[4] = None
  /\ DOMAIN held = 4..Len(files) - 1

DescriptorsFit ==
  \A fd \in DOMAIN held :
    /\ held[fd] # None =>
         Fits(files[fd + 1], held[fd], disk[held[fd].path], expected[held[fd].path])
    /\ held[fd] = None => files[fd + 1] = None

OneForAPath ==
  \A a, b \in DOMAIN held :
    held[a] # None /\ held[b] # None /\ held[a].path = held[b].path => a = b

NoneOpen(path) == \A fd \in DOMAIN held : held[fd] # None => held[fd].path # path

ClosedAreExpected == \A path \in Path : NoneOpen(path) => disk[path] = expected[path]

FilesInv == FilesType /\ DescriptorsFit /\ OneForAPath /\ ClosedAreExpected

LEMMA FilesInitially == FilesInit => FilesInv
<1> SUFFICES ASSUME FilesInit PROVE FilesInv
  OBVIOUS
<1> DEFINE standard == fopen("standard", [base |-> "r", plus |-> TRUE, excl |-> FALSE])
           three == [i \in 1..3 |-> standard]
<1>1. standard \in File
  BY DEF fopen, File, Done
<1>2. files = three \o <<None>> /\ disk \in [Path -> {None, <<>>}] /\ expected = disk /\ held = <<>>
  BY DEF FilesInit
<1> HIDE DEF standard
<1>3. three \in Seq(File \cup {None}) /\ Len(three) = 3
  BY <1>1
<1> HIDE DEF three
<1>4. files \in Seq(File \cup {None}) /\ Len(files) = 4 /\ files[4] = None
  <2> DEFINE one == <<None>>
  <2>1. one \in Seq(File \cup {None}) /\ Len(one) = 1 /\ one[1] = None
    OBVIOUS
  <2> HIDE DEF one
  <2>2. /\ three \o one \in Seq(File \cup {None}) /\ Len(three \o one) = Len(three) + Len(one)
        /\ \A i \in 1..Len(three) + Len(one) :
             (three \o one)[i] = IF i <= Len(three) THEN three[i] ELSE one[i - Len(three)]
    BY <1>3, <2>1, ConcatProperties
  <2>3. (three \o one)[4] = one[1]
    BY <1>3, <2>1, <2>2
  <2> QED
    BY <1>2, <1>3, <2>1, <2>2, <2>3 DEF one
<1>5. DOMAIN held = {} /\ 4..Len(files) - 1 = {}
  BY <1>2, <1>4
<1>6. <<>> \in Seq(Chunk)
  OBVIOUS
<1>7. disk \in [Path -> Seq(Chunk) \cup {None}]
  BY <1>2, <1>6
<1> QED
  BY <1>2, <1>4, <1>5, <1>7
  DEF FilesInv, FilesType, DescriptorsFit, OneForAPath, ClosedAreExpected

(* What is known of a descriptor that the test holds.                      *)
LEMMA HeldIs ==
  ASSUME FilesInv, NEW fd \in DOMAIN held
  PROVE  /\ fd \in 4..Len(files) - 1 /\ fd + 1 \in 5..Len(files) /\ fd + 1 \in DOMAIN files
         /\ get_file(fd) = files[fd + 1] /\ fd \notin Standard /\ fd # polyfill_root_dir_fd
         /\ held[fd] # None =>
              /\ Fits(files[fd + 1], held[fd], disk[held[fd].path], expected[held[fd].path])
              /\ held[fd].path \in Path /\ held[fd] \in View
              /\ files[fd + 1] \in File /\ files[fd + 1] # None
         /\ held[fd] = None => files[fd + 1] = None
<1>1. fd \in 4..Len(files) - 1 /\ files \in Seq(File \cup {None})
  BY DEF FilesInv, FilesType
<1>2. fd + 1 \in 5..Len(files) /\ fd + 1 \in DOMAIN files /\ fd \in 0..Len(files) - 1
      /\ fd \notin Standard /\ fd # polyfill_root_dir_fd
  BY <1>1 DEF Standard, polyfill_root_dir_fd
<1>3. get_file(fd) = files[fd + 1]
  BY <1>2 DEF get_file
<1>4. /\ held[fd] # None =>
           Fits(files[fd + 1], held[fd], disk[held[fd].path], expected[held[fd].path])
      /\ held[fd] = None => files[fd + 1] = None
  BY DEF FilesInv, DescriptorsFit
<1>5. ASSUME held[fd] # None
      PROVE  /\ held[fd].path \in Path /\ held[fd] \in View
             /\ files[fd + 1] \in File /\ files[fd + 1] # None
  <2>1. held[fd] \in View /\ files[fd + 1] \in File
    BY <1>4, <1>5, Zenon DEF Fits
  <2>2. held[fd].path \in Path
    BY <2>1 DEF View
  <2> QED
    BY <2>1, <2>2, NoFileAssumption
<1> QED
  BY <1>1, <1>2, <1>3, <1>4, <1>5

(* The invariant says that the files are the test's.                       *)
LEMMA InvKeepsFiles ==
  ASSUME FilesInv
  PROVE  FilesAreTheTests
<1>1. ASSUME NEW path \in Path, \A fd \in DOMAIN held : IsOpen(fd) => held[fd].path # path
      PROVE  /\ disk[path] = expected[path]
             /\ (expected[path] \notin {None, <<>>}) => read_whole_file(path) = expected[path]
  <2>1. disk[path] = expected[path]
    BY <1>1 DEF IsOpen, NoneOpen, FilesInv, ClosedAreExpected
  <2> QED
    BY <2>1 DEF read_whole_file
<1>2. ASSUME NEW fd \in DOMAIN held
      PROVE  fdstat_get(fd) = (IF IsOpen(fd) THEN "regular_file" ELSE "badf")
  <2>1. fd \notin Standard /\ fd # polyfill_root_dir_fd /\ fd \notin Standard \cup {polyfill_root_dir_fd}
    BY HeldIs
  <2>2. IsOpen(fd) => get_file(fd) # None
    BY HeldIs DEF IsOpen
  <2>3. ~IsOpen(fd) => get_file(fd) = None
    BY HeldIs DEF IsOpen
  <2> QED
    BY <2>1, <2>2, <2>3 DEF fdstat_get
<1>3. ASSUME NEW fd \in DOMAIN held, IsOpen(fd)
      PROVE  /\ get_file(fd).path = held[fd].path
             /\ get_file(fd).at = held[fd].at
             /\ held[fd].last # "write" => disk[held[fd].path] = expected[held[fd].path]
  <2> DEFINE f == files[fd + 1]
             h == held[fd]
             d == disk[held[fd].path]
             e == expected[held[fd].path]
  <2>1. Fits(f, h, d, e) /\ get_file(fd) = f
    BY <1>3, HeldIs DEF IsOpen
  <2> HIDE DEF f, h, d, e
  <2>2. f.path = h.path /\ f.at = h.at
    BY <2>1 DEF Fits
  <2>3. ASSUME h.last # "write" PROVE d = e
    <3>1. f.buffer = <<>> /\ e = Written(d, h.mode, h.at - Len(f.buffer), f.buffer) /\ d \in Seq(Chunk)
      BY <2>1, <2>3 DEF Fits
    <3>2. h.at \in Nat /\ h.at - Len(f.buffer) \in 0..Len(d)
      BY <2>1, <3>1 DEF Fits, View
    <3>3. <<>> \in Seq(Chunk)
      OBVIOUS
    <3>4. Written(d, h.mode, h.at - Len(f.buffer), <<>>) = d
      BY <3>1, <3>2, <3>3, WrittenIs
    <3> QED
      BY <3>1, <3>4
  <2> QED
    BY <2>1, <2>2, <2>3 DEF f, h, d, e
<1> QED
  BY <1>1, <1>2, <1>3 DEF FilesAreTheTests


(* What happens to one file of the test leaves its others alone.           *)
LEMMA OneChanges ==
  ASSUME FilesInv, NEW fd \in DOMAIN held, held[fd] # None,
         NEW g \in File \cup {None}, NEW w, NEW d \in Seq(Chunk), NEW e \in Seq(Chunk),
         files' = [files EXCEPT ![fd + 1] = g],
         held' = [n \in DOMAIN held |-> IF n = fd THEN w ELSE held[n]],
         disk' = [disk EXCEPT ![held[fd].path] = d],
         expected' = [expected EXCEPT ![held[fd].path] = e],
         w # None => w.path = held[fd].path /\ Fits(g, w, d, e),
         w = None => g = None /\ d = e
  PROVE  FilesInv'
<1> DEFINE path == held[fd].path
<1>1. /\ fd \in 4..Len(files) - 1 /\ fd + 1 \in 5..Len(files) /\ path \in Path
  BY HeldIs
<1>2. /\ disk \in [Path -> Seq(Chunk) \cup {None}] /\ expected \in [Path -> Seq(Chunk) \cup {None}]
      /\ files \in Seq(File \cup {None}) /\ Len(files) >= 4 /\ files[4] = None
      /\ DOMAIN held = 4..Len(files) - 1
  BY DEF FilesInv, FilesType
<1>3. DOMAIN held' = DOMAIN held /\ held'[fd] = w
      /\ \A n \in DOMAIN held : n # fd => held'[n] = held[n]
  OBVIOUS
<1>4. /\ disk' \in [Path -> Seq(Chunk) \cup {None}] /\ disk'[path] = d
      /\ \A p \in Path : p # path => disk'[p] = disk[p]
  BY <1>1, <1>2
<1>5. /\ expected' \in [Path -> Seq(Chunk) \cup {None}] /\ expected'[path] = e
      /\ \A p \in Path : p # path => expected'[p] = expected[p]
  BY <1>1, <1>2
<1>6. /\ files' \in Seq(File \cup {None}) /\ Len(files') = Len(files) /\ files'[4] = None
      /\ files'[fd + 1] = g /\ \A n \in DOMAIN held : n # fd => files'[n + 1] = files[n + 1]
  BY <1>1, <1>2
<1>7. FilesType'
  BY <1>2, <1>3, <1>4, <1>5, <1>6 DEF FilesType
<1>8. ASSUME NEW n \in DOMAIN held, n # fd, held[n] # None PROVE held[n].path \in Path /\ held[n].path # path
  BY <1>8, HeldIs DEF FilesInv, OneForAPath
<1> HIDE DEF path
<1>9. DescriptorsFit'
  <2> SUFFICES ASSUME NEW n \in DOMAIN held
               PROVE  /\ held'[n] # None =>
                           Fits(files'[n + 1], held'[n], disk'[held'[n].path], expected'[held'[n].path])
                      /\ held'[n] = None => files'[n + 1] = None
    BY <1>3, Zenon DEF DescriptorsFit
  <2>1. CASE n = fd
    <3>1. w # None => w.path = path
      BY DEF path
    <3> QED
      BY <1>3, <1>4, <1>5, <1>6, <2>1, <3>1, Zenon
  <2>2. CASE n # fd
    <3>1. held'[n] = held[n] /\ files'[n + 1] = files[n + 1]
      BY <1>3, <1>6, <2>2
    <3>2. held[n] # None =>
            disk'[held[n].path] = disk[held[n].path] /\ expected'[held[n].path] = expected[held[n].path]
      BY <1>4, <1>5, <1>8, <2>2
    <3>3. /\ held[n] # None =>
               Fits(files[n + 1], held[n], disk[held[n].path], expected[held[n].path])
          /\ held[n] = None => files[n + 1] = None
      BY HeldIs
    <3> QED
      BY <3>1, <3>2, <3>3, Zenon
  <2> QED
    BY <2>1, <2>2
<1>10. \A n \in DOMAIN held : held'[n] # None => held[n] # None /\ held'[n].path = held[n].path
  BY <1>3
<1>11. OneForAPath'
  <2> SUFFICES ASSUME NEW a \in DOMAIN held, NEW b \in DOMAIN held,
                      held'[a] # None, held'[b] # None, held'[a].path = held'[b].path
               PROVE  a = b
    <3>1. DOMAIN held' = DOMAIN held
      BY <1>3
    <3> QED
      BY <3>1 DEF OneForAPath
  <2>1. held[a] # None /\ held[b] # None /\ held[a].path = held[b].path
    BY <1>10
  <2> QED
    BY <2>1, Zenon DEF FilesInv, OneForAPath
<1>12. ClosedAreExpected'
  <2> SUFFICES ASSUME NEW p \in Path, NoneOpen(p)' PROVE disk'[p] = expected'[p]
    BY DEF ClosedAreExpected
  <2>1. CASE p = path
    <3>1. w = None
      BY <1>3, <1>10, <2>1 DEF NoneOpen, path
    <3> QED
      BY <1>4, <1>5, <2>1, <3>1
  <2>2. CASE p # path
    <3>1. NoneOpen(p)
      BY <1>3, <2>2 DEF NoneOpen, path
    <3>2. disk[p] = expected[p]
      BY <3>1 DEF FilesInv, ClosedAreExpected
    <3> QED
      BY <1>4, <1>5, <2>2, <3>2
  <2> QED
    BY <2>1, <2>2
<1> QED
  BY <1>7, <1>9, <1>11, <1>12 DEF FilesInv

LEMMA WriteKeepsFiles ==
  ASSUME FilesInv, NEW fd \in DOMAIN held, NEW buffers \in Buffers, Write(fd, buffers)
  PROVE  FilesInv'
<1> DEFINE f == files[fd + 1]
           h == held[fd]
           d == disk[h.path]
           e == expected[h.path]
           data == FlattenSeq(buffers)
           content == Written(e, h.mode, h.at, data)
           w == [path |-> h.path, mode |-> h.mode, at |-> h.at + Len(data), last |-> "write"]
<1>1. held[fd] # None /\ h.last # "read"
  BY DEF Write, IsOpen
<1>2. /\ fd + 1 \in DOMAIN files /\ get_file(fd) = f /\ Fits(f, h, d, e) /\ h.path \in Path
      /\ h \in View /\ f \in File /\ f # None
  BY <1>1, HeldIs
<1>3. data \in Seq(Chunk) /\ \E i \in DOMAIN buffers : buffers[i] # <<>>
  BY BufferData
<1>4. CASE ~CanWrite(h.mode)
  <2>1. \E i \in DOMAIN buffers : WriteFails(fd, buffers[i])
    <3>1. ~CanWrite(get_file(fd).mode)
      BY <1>2, <1>4 DEF Fits
    <3> QED
      BY <1>3, <3>1, Zenon DEF WriteFails
  <2>2. UNCHANGED <<files, disk, held, expected>>
    BY <1>4, <2>1 DEF Write, fd_write
  <2> QED
    BY <2>2 DEF FilesInv, FilesType, DescriptorsFit, OneForAPath, ClosedAreExpected, NoneOpen
<1>5. CASE CanWrite(h.mode)
  <2>1. ~\E i \in DOMAIN buffers : WriteFails(fd, buffers[i])
    <3>1. CanWrite(get_file(fd).mode) /\ get_file(fd) # None
      BY <1>2, <1>5 DEF Fits
    <3> QED
      BY <3>1, Zenon DEF WriteFails
  <2> DEFINE g == fwrite(f, data)
  <2>2. files' = [files EXCEPT ![fd + 1] = g]
    BY <2>1 DEF Write, fd_write
  <2>3. /\ expected' = [expected EXCEPT ![h.path] = content]
        /\ Hold(fd, [h EXCEPT !.at = @ + Len(data), !.last = "write"])
        /\ disk' = disk
    BY <1>5, Zenon DEF Write
  <2>4. [h EXCEPT !.at = @ + Len(data), !.last = "write"] = w
    <3>1. h.at + Len(data) \in Nat /\ "write" \in Done /\ h \in View
      BY <1>2, <1>3 DEF View, Done
    <3>2. [h EXCEPT !.at = @ + Len(data), !.last = "write"]
            = [h EXCEPT !.at = h.at + Len(data), !.last = "write"]
      BY Zenon
    <3> QED
      BY <3>1, <3>2, ViewIs, Zenon
  <2>5. held' = [n \in DOMAIN held |-> IF n = fd THEN w ELSE held[n]]
    <3>1. DOMAIN held \cup {fd} = DOMAIN held
      OBVIOUS
    <3> HIDE DEF w, h, data
    <3> QED
      BY <2>3, <2>4, <3>1, Zenon DEF Hold
  <2>6. disk' = [disk EXCEPT ![h.path] = d]
    <3>1. disk \in [Path -> Seq(Chunk) \cup {None}]
      BY DEF FilesInv, FilesType
    <3> QED
      BY <1>2, <2>3, <3>1
  <2>7. w # None /\ w.path = h.path
    <3>1. w \in View
      <4>1. h.at + Len(data) \in Nat /\ "write" \in Done /\ h.path \in Path
            /\ h.mode \in [base : {"r", "w", "a"}, plus : BOOLEAN, excl : BOOLEAN]
        BY <1>2, <1>3 DEF View, Done
      <4> HIDE DEF h, data
      <4> QED
        BY <4>1 DEF View
    <3> QED
      BY <3>1, NoFileAssumption
  <2>8. Fits(g, w, d, content) /\ d \in Seq(Chunk) /\ content \in Seq(Chunk) /\ g \in File
    <3>1. /\ d \in Seq(Chunk) /\ h.mode \in Mode /\ f.path = h.path /\ f.mode = h.mode /\ f.at = h.at
          /\ Len(f.buffer) <= h.at /\ h.at - Len(f.buffer) <= Len(d)
          /\ e = Written(d, h.mode, h.at - Len(f.buffer), f.buffer)
      BY <1>2 DEF Fits
    <3>2. h.at \in Nat /\ f.buffer \in Seq(Chunk) /\ Len(f.buffer) \in Nat /\ Len(data) \in Nat
      BY <1>2, <1>3 DEF View, File
    <3>3. /\ g \in File /\ g.path = f.path /\ g.mode = f.mode /\ g.at = f.at + Len(data)
          /\ g.buffer = f.buffer \o data /\ g.last = "write"
      BY <1>2, <1>3, FwriteIs
    <3>4. /\ w \in View /\ w.path = h.path /\ w.mode = h.mode /\ w.at = h.at + Len(data)
          /\ w.last = "write"
      <4>1. h.at + Len(data) \in Nat /\ "write" \in Done /\ h.path \in Path
            /\ h.mode \in [base : {"r", "w", "a"}, plus : BOOLEAN, excl : BOOLEAN]
        BY <1>2, <3>2 DEF View, Done
      <4> HIDE DEF h, data
      <4> QED
        BY <4>1 DEF View
    <3> DEFINE at == h.at - Len(f.buffer)
    <3>5. at \in 0..Len(d) /\ at + Len(f.buffer) = h.at
      BY <3>1, <3>2
    <3>6. f.buffer \o data \in Seq(Chunk) /\ Len(f.buffer \o data) = Len(f.buffer) + Len(data)
      BY <1>3, <3>2
    <3>7. w.at - Len(g.buffer) = at
      <4>1. Len(g.buffer) = Len(f.buffer) + Len(data)
        BY <3>3, <3>6
      <4> QED
        BY <3>2, <3>4, <4>1
    <3> HIDE DEF at, g, w, content, d, e, data, h, f
    <3>8. content = Written(d, h.mode, at, f.buffer \o data)
      <4>1. e = Written(d, h.mode, at, f.buffer)
        BY <3>1 DEF at
      <4>2. Written(Written(d, h.mode, at, f.buffer), h.mode, at + Len(f.buffer), data)
              = Written(d, h.mode, at, f.buffer \o data)
        BY <1>3, <3>1, <3>2, <3>5, WrittenTwice
      <4> QED
        BY <3>5, <4>1, <4>2, Zenon DEF content
    <3>9. content = Written(d, w.mode, w.at - Len(g.buffer), g.buffer)
      BY <3>3, <3>4, <3>7, <3>8, Zenon
    <3>10. content \in Seq(Chunk)
      BY <3>1, <3>5, <3>6, <3>8, WrittenIs
    <3>11. Len(g.buffer) <= w.at /\ w.at - Len(g.buffer) <= Len(d)
      BY <3>2, <3>3, <3>4, <3>5, <3>6, <3>7 DEF at
    <3>12. w.mode \in Mode /\ g.path = w.path /\ g.mode = w.mode /\ g.at = w.at /\ ~(w.last # "write")
      BY <3>1, <3>3, <3>4, Zenon
    <3> QED
      BY <3>1, <3>3, <3>4, <3>9, <3>10, <3>11, <3>12, Zenon DEF Fits
  <2>9. expected' = [expected EXCEPT ![held[fd].path] = content]
    BY <2>3
  <2> HIDE DEF g, w, content
  <2>10. g \in File \cup {None} /\ disk' = [disk EXCEPT ![held[fd].path] = d]
    BY <2>6, <2>8
  <2>11. w # None => w.path = held[fd].path /\ Fits(g, w, d, content)
    BY <2>7, <2>8
  <2>12. w = None => g = None /\ d = content
    BY <2>7
  <2> HIDE DEF d
  <2> QED
    BY <1>1, <2>2, <2>5, <2>8, <2>9, <2>10, <2>11, <2>12, OneChanges
<1> QED
  BY <1>4, <1>5


LEMMA ReadKeepsFiles ==
  ASSUME FilesInv, NEW fd \in DOMAIN held, NEW sizes \in Sizes, Read(fd, sizes)
  PROVE  FilesInv'
<1> DEFINE f == files[fd + 1]
           h == held[fd]
           d == disk[h.path]
           e == expected[h.path]
           there == Readable(f)
           n == FoldLeft(ReadOne, [got |-> 0, there |-> there, filled |-> TRUE], sizes).got
           w == [path |-> h.path, mode |-> h.mode, at |-> h.at + n, last |-> "read"]
           g == fread(f, n)
<1>1. held[fd] # None /\ h.last # "write"
  BY DEF Read, IsOpen
<1>2. /\ fd + 1 \in DOMAIN files /\ get_file(fd) = f /\ Fits(f, h, d, e) /\ h.path \in Path
      /\ h \in View /\ f \in File /\ f # None
  BY <1>1, HeldIs
<1>3. /\ d \in Seq(Chunk) /\ h.mode \in Mode /\ f.path = h.path /\ f.mode = h.mode /\ f.at = h.at
      /\ f.buffer = <<>> /\ h.at <= Len(d) /\ h.at \in Nat /\ d = e
  <2>1. /\ d \in Seq(Chunk) /\ h.mode \in Mode /\ f.path = h.path /\ f.mode = h.mode /\ f.at = h.at
        /\ f.buffer = <<>> /\ h.at - Len(f.buffer) <= Len(d)
        /\ e = Written(d, h.mode, h.at - Len(f.buffer), f.buffer)
    BY <1>1, <1>2 DEF Fits
  <2>2. h.at \in Nat /\ Len(f.buffer) = 0
    BY <1>2, <2>1 DEF View
  <2>3. h.at - Len(f.buffer) \in 0..Len(d)
    BY <2>1, <2>2
  <2>4. <<>> \in Seq(Chunk)
    OBVIOUS
  <2> HIDE DEF d, h, f, e
  <2>5. Written(d, h.mode, h.at - Len(f.buffer), <<>>) = d
    BY <2>1, <2>3, <2>4, WrittenIs
  <2> QED
    BY <2>1, <2>2, <2>3, <2>5
<1>4. /\ there \in Nat /\ there = (IF CanRead(h.mode) THEN Len(e) - h.at ELSE 0)
      /\ h.at + there <= Len(d)
  BY <1>2, <1>3 DEF Readable
<1>5. /\ SumFunction(sizes) \in Nat
      /\ n = IF SumFunction(sizes) < there THEN SumFunction(sizes) ELSE there
  <2> HIDE DEF there
  <2> QED
    BY <1>4, ReadGets
<1>6. files' = [files EXCEPT ![fd + 1] = g]
  BY <1>2 DEF Read, fd_read
<1>7. Hold(fd, [h EXCEPT !.at = @ + n, !.last = "read"])
  <2>1. Hold(fd, [h EXCEPT !.at = @ + (IF SumFunction(sizes) < (IF CanRead(h.mode) THEN Len(e) - h.at ELSE 0)
                                       THEN SumFunction(sizes)
                                       ELSE IF CanRead(h.mode) THEN Len(e) - h.at ELSE 0),
                           !.last = "read"])
    BY Zenon DEF Read
  <2> HIDE DEF n, there, h, e
  <2> QED
    BY <1>4, <1>5, <2>1, Zenon
<1>8. disk' = disk /\ expected' = expected
  BY DEF Read
<1> HIDE DEF n, there
<1>9. n \in Nat /\ n <= there /\ h.at + n \in Nat /\ h.at + n <= Len(d)
  BY <1>3, <1>4, <1>5
<1>10. [h EXCEPT !.at = @ + n, !.last = "read"] = w
  <2>1. "read" \in Done
    BY DEF Done
  <2>2. [h EXCEPT !.at = @ + n, !.last = "read"] = [h EXCEPT !.at = h.at + n, !.last = "read"]
    BY Zenon
  <2> QED
    BY <1>2, <1>9, <2>1, <2>2, ViewIs, Zenon
<1>11. held' = [k \in DOMAIN held |-> IF k = fd THEN w ELSE held[k]]
  <2>1. DOMAIN held \cup {fd} = DOMAIN held
    OBVIOUS
  <2> HIDE DEF w, h
  <2> QED
    BY <1>7, <1>10, <2>1, Zenon DEF Hold
<1>12. /\ disk' = [disk EXCEPT ![held[fd].path] = d]
       /\ expected' = [expected EXCEPT ![held[fd].path] = d]
  <2>1. /\ disk \in [Path -> Seq(Chunk) \cup {None}] /\ expected \in [Path -> Seq(Chunk) \cup {None}]
    BY DEF FilesInv, FilesType
  <2> QED
    BY <1>2, <1>3, <1>8, <2>1
<1>13. /\ w \in View /\ w.path = h.path /\ w.mode = h.mode /\ w.at = h.at + n /\ w.last = "read"
  <2>1. "read" \in Done /\ h.path \in Path
        /\ h.mode \in [base : {"r", "w", "a"}, plus : BOOLEAN, excl : BOOLEAN]
    BY <1>2 DEF View, Done
  <2> HIDE DEF h
  <2> QED
    BY <1>9, <2>1 DEF View
<1>14. g \in File /\ g.path = f.path /\ g.mode = f.mode /\ g.at = f.at + n /\ g.buffer = f.buffer
  BY <1>2, <1>9, FreadIs
<1>15. w # None
  BY <1>13, NoFileAssumption
<1> HIDE DEF w, g, f, h, d, e
<1>16. Fits(g, w, d, d)
  <2>1. g.buffer = <<>> /\ Len(g.buffer) = 0 /\ <<>> \in Seq(Chunk)
    BY <1>3, <1>14
  <2>2. w.at - Len(g.buffer) = w.at /\ w.at \in 0..Len(d) /\ w.at \in Nat
    BY <1>3, <1>9, <1>13, <2>1
  <2>3. Written(d, w.mode, w.at, <<>>) = d
    BY <1>3, <2>1, <2>2, WrittenIs
  <2>4. Len(g.buffer) <= w.at /\ w.at - Len(g.buffer) <= Len(d)
    BY <2>1, <2>2
  <2> QED
    BY <1>3, <1>13, <1>14, <2>1, <2>2, <2>3, <2>4 DEF Fits
<1>17. w # None => w.path = held[fd].path /\ Fits(g, w, d, d)
  BY <1>13, <1>16 DEF h
<1>18. w = None => g = None /\ d = d
  BY <1>15
<1>19. g \in File \cup {None} /\ d \in Seq(Chunk)
  BY <1>3, <1>14
<1> QED
  BY <1>1, <1>6, <1>11, <1>12, <1>17, <1>18, <1>19, OneChanges

LEMMA CloseKeepsFiles ==
  ASSUME FilesInv, NEW fd \in DOMAIN held, Close(fd)
  PROVE  FilesInv'
<1> DEFINE f == files[fd + 1]
           h == held[fd]
           d == disk[h.path]
           e == expected[h.path]
<1>1. held[fd] # None
  BY DEF Close, IsOpen
<1>2. /\ fd + 1 \in DOMAIN files /\ get_file(fd) = f /\ Fits(f, h, d, e) /\ h.path \in Path
      /\ h \in View /\ f \in File /\ f # None /\ fd \notin Standard
  BY <1>1, HeldIs
<1>3. files' = [files EXCEPT ![fd + 1] = None] /\ expected' = expected /\ Hold(fd, None)
  BY DEF Close, close_file
<1>4. held' = [n \in DOMAIN held |-> IF n = fd THEN None ELSE held[n]]
  <2>1. DOMAIN held \cup {fd} = DOMAIN held
    OBVIOUS
  <2> QED
    BY <1>3, <2>1, Zenon DEF Hold
<1>5. /\ d \in Seq(Chunk) /\ f.path = h.path /\ f.mode = h.mode /\ f.at = h.at
      /\ e = Written(d, h.mode, h.at - Len(f.buffer), f.buffer)
      /\ h.at - Len(f.buffer) \in 0..Len(d) /\ f.buffer \in Seq(Chunk)
  BY <1>2 DEF Fits, View, File
<1>6. disk' = [disk EXCEPT ![h.path] = e]
  <2>1. disk' = Flushed(disk, f)
    BY <1>2 DEF Close, close_file
  <2>2. Flushed(disk, f) = [disk EXCEPT ![f.path] = Written(disk[f.path], f.mode, f.at - Len(f.buffer), f.buffer)]
    BY Zenon DEF Flushed
  <2> QED
    BY <1>5, <2>1, <2>2, Zenon
<1>7. expected' = [expected EXCEPT ![h.path] = e]
  <2>1. expected \in [Path -> Seq(Chunk) \cup {None}]
    BY DEF FilesInv, FilesType
  <2> QED
    BY <1>2, <1>3, <2>1
<1>8. e \in Seq(Chunk)
  <2> HIDE DEF d, e, f, h
  <2> QED
    BY <1>5, WrittenIs
<1>9. disk' = [disk EXCEPT ![held[fd].path] = e] /\ expected' = [expected EXCEPT ![held[fd].path] = e]
  BY <1>6, <1>7
<1> HIDE DEF e
<1> DEFINE w == None
<1>10. /\ w # None => w.path = held[fd].path /\ Fits(None, w, e, e)
       /\ w = None => None = None /\ e = e
       /\ held' = [n \in DOMAIN held |-> IF n = fd THEN w ELSE held[n]]
       /\ None \in File \cup {None}
  BY <1>4
<1> HIDE DEF w
<1> QED
  BY <1>1, <1>3, <1>8, <1>9, <1>10, OneChanges

LEMMA CloseStandardKeepsFiles ==
  ASSUME FilesInv, NEW fd \in Standard, CloseStandard(fd)
  PROVE  FilesInv'
<1>1. /\ files' = [files EXCEPT ![fd + 1] = None] /\ disk' = disk /\ expected' = expected /\ held' = held
  BY DEF CloseStandard, close_file
<1>2. /\ files \in Seq(File \cup {None}) /\ Len(files) >= 4 /\ files[4] = None
      /\ DOMAIN held = 4..Len(files) - 1 /\ fd \in 0..2
  BY DEF FilesInv, FilesType, Standard
<1>3. /\ files' \in Seq(File \cup {None}) /\ Len(files') = Len(files) /\ files'[4] = None
      /\ \A n \in 4..Len(files) - 1 : files'[n + 1] = files[n + 1]
  BY <1>1, <1>2
<1>4. FilesType'
  BY <1>1, <1>2, <1>3 DEF FilesInv, FilesType
<1>5. DescriptorsFit'
  <2> SUFFICES ASSUME NEW n \in DOMAIN held
               PROVE  /\ held[n] # None =>
                           Fits(files'[n + 1], held[n], disk[held[n].path], expected[held[n].path])
                      /\ held[n] = None => files'[n + 1] = None
    BY <1>1, Zenon DEF DescriptorsFit
  <2>1. files'[n + 1] = files[n + 1]
    BY <1>2, <1>3
  <2> QED
    BY <2>1, HeldIs
<1>6. OneForAPath' /\ ClosedAreExpected'
  BY <1>1 DEF FilesInv, OneForAPath, ClosedAreExpected, NoneOpen
<1> QED
  BY <1>4, <1>5, <1>6 DEF FilesInv

LEMMA OpenKeepsFiles ==
  ASSUME FilesInv, NEW path \in Path, NEW mode \in Mode, Open(path, mode)
  PROVE  FilesInv'
<1> DEFINE w == [path |-> path, mode |-> mode, at |-> 0, last |-> "none"]
           g == fopen(path, mode)
           d == IF mode.base = "w" \/ disk[path] = None THEN <<>> ELSE disk[path]
           l == Len(files)
<1>1. /\ disk \in [Path -> Seq(Chunk) \cup {None}] /\ expected \in [Path -> Seq(Chunk) \cup {None}]
      /\ files \in Seq(File \cup {None}) /\ Len(files) >= 4 /\ files[4] = None
      /\ DOMAIN held = 4..Len(files) - 1
  BY DEF FilesInv, FilesType
<1>2. open_file(path, mode) /\ Hold(l, w) /\ expected' = Opened(expected, path, mode)
  <2>1. PICK fd \in 0..Len(files) : path_open(fd, path, Flags(mode))
    BY DEF Open
  <2>2. HostMode(Flags(mode)) = mode
    BY ModeComesBack
  <2>3. open_file(path, mode)
    BY <2>1, <2>2, Zenon DEF path_open
  <2> QED
    BY <2>3, Zenon DEF Open
<1>3. NoneOpen(path)
  BY DEF Open, IsOpen, NoneOpen
<1>4. disk[path] = expected[path]
  BY <1>3 DEF FilesInv, ClosedAreExpected
<1>5. /\ disk' = [disk EXCEPT ![path] = d] /\ expected' = [expected EXCEPT ![path] = d]
      /\ files' = Append(files, g)
  BY <1>2, <1>4, Zenon DEF open_file, Opened
<1>6. d \in Seq(Chunk)
  <2>1. <<>> \in Seq(Chunk) /\ disk[path] \in Seq(Chunk) \cup {None}
    BY <1>1
  <2> QED
    BY <2>1
<1>7. mode \in [base : {"r", "w", "a"}, plus : BOOLEAN, excl : BOOLEAN]
  BY DEF Mode
<1>8. /\ w \in View /\ w.path = path /\ w.mode = mode /\ w.at = 0 /\ w # None
  <2>1. "none" \in Done
    BY DEF Done
  <2>2. w \in View
    BY <1>7, <2>1 DEF View
  <2> QED
    BY <2>2, NoFileAssumption
<1>9. /\ g \in File /\ g.path = path /\ g.mode = mode /\ g.at = 0 /\ g.buffer = <<>>
  <2>1. "none" \in Done
    BY DEF Done
  <2>2. g \in File
    BY <1>7, <2>1 DEF File, fopen
  <2> QED
    BY <2>2 DEF fopen
<1> HIDE DEF d, g, w
<1>10. Fits(g, w, d, d)
  <2>1. Len(g.buffer) = 0 /\ <<>> \in Seq(Chunk) /\ w.at - Len(g.buffer) = 0 /\ 0 \in 0..Len(d)
    <3>1. Len(d) \in Nat
      BY <1>6
    <3>2. Len(g.buffer) = 0 /\ w.at = 0
      BY <1>8, <1>9
    <3> QED
      BY <3>1, <3>2
  <2>2. Written(d, mode, 0, <<>>) = d
    BY <1>6, <2>1, WrittenIs
  <2> QED
    BY <1>6, <1>8, <1>9, <2>1, <2>2 DEF Fits
<1>11. l \in Nat /\ l >= 4 /\ l \notin DOMAIN held /\ DOMAIN held \cup {l} = 4..l
  BY <1>1
<1>12. /\ files' \in Seq(File \cup {None}) /\ Len(files') = l + 1 /\ files'[l + 1] = g
       /\ files'[4] = None /\ \A n \in DOMAIN held : files'[n + 1] = files[n + 1]
  BY <1>1, <1>5, <1>9
<1>13. /\ DOMAIN held' = DOMAIN held \cup {l} /\ held'[l] = w
       /\ \A n \in DOMAIN held : held'[n] = held[n] /\ n # l
  <2>1. held' = [n \in DOMAIN held \cup {l} |-> IF n = l THEN w ELSE held[n]]
    BY <1>2, Zenon DEF Hold
  <2> HIDE DEF l
  <2> QED
    BY <1>11, <2>1
<1>14. /\ disk' \in [Path -> Seq(Chunk) \cup {None}] /\ disk'[path] = d
       /\ expected' \in [Path -> Seq(Chunk) \cup {None}] /\ expected'[path] = d
       /\ \A p \in Path : p # path => disk'[p] = disk[p] /\ expected'[p] = expected[p]
  BY <1>1, <1>5, <1>6
<1>15. FilesType'
  <2>1. DOMAIN held' = 4..Len(files') - 1
    BY <1>11, <1>12, <1>13
  <2> QED
    BY <1>11, <1>12, <1>14, <2>1 DEF FilesType
<1> HIDE DEF l
<1>16. \A n \in DOMAIN held : held[n] # None => held[n].path \in Path /\ held[n].path # path
  BY <1>3, HeldIs DEF NoneOpen
<1>17. DescriptorsFit'
  <2> SUFFICES ASSUME NEW n \in DOMAIN held \cup {l}
               PROVE  /\ held'[n] # None =>
                           Fits(files'[n + 1], held'[n], disk'[held'[n].path], expected'[held'[n].path])
                      /\ held'[n] = None => files'[n + 1] = None
    BY <1>13, Zenon DEF DescriptorsFit
  <2>1. CASE n = l
    BY <1>8, <1>10, <1>12, <1>13, <1>14, <2>1, Zenon
  <2>2. CASE n \in DOMAIN held
    <3>1. held'[n] = held[n] /\ files'[n + 1] = files[n + 1]
      BY <1>12, <1>13, <2>2
    <3>2. held[n] # None =>
            disk'[held[n].path] = disk[held[n].path] /\ expected'[held[n].path] = expected[held[n].path]
      BY <1>14, <1>16, <2>2
    <3>3. /\ held[n] # None =>
               Fits(files[n + 1], held[n], disk[held[n].path], expected[held[n].path])
          /\ held[n] = None => files[n + 1] = None
      BY <2>2, HeldIs
    <3> QED
      BY <3>1, <3>2, <3>3, Zenon
  <2> QED
    BY <2>1, <2>2
<1>18. OneForAPath'
  <2> SUFFICES ASSUME NEW a \in DOMAIN held \cup {l}, NEW b \in DOMAIN held \cup {l},
                      held'[a] # None, held'[b] # None, held'[a].path = held'[b].path
               PROVE  a = b
    BY <1>13, Zenon DEF OneForAPath
  <2>1. ASSUME a \in DOMAIN held, b \in DOMAIN held PROVE a = b
    <3>1. held[a] # None /\ held[b] # None /\ held[a].path = held[b].path
      BY <1>13, <2>1
    <3> QED
      BY <2>1, <3>1, Zenon DEF FilesInv, OneForAPath
  <2>2. ~(a \in DOMAIN held /\ b = l)
    BY <1>8, <1>13, <1>16
  <2>3. ~(b \in DOMAIN held /\ a = l)
    BY <1>8, <1>13, <1>16
  <2> QED
    BY <2>1, <2>2, <2>3
<1>19. ClosedAreExpected'
  <2> SUFFICES ASSUME NEW p \in Path, NoneOpen(p)' PROVE disk'[p] = expected'[p]
    BY DEF ClosedAreExpected
  <2>1. CASE p = path
    BY <1>14, <2>1
  <2>2. CASE p # path
    <3>1. NoneOpen(p)
      BY <1>13 DEF NoneOpen
    <3>2. disk[p] = expected[p]
      BY <3>1 DEF FilesInv, ClosedAreExpected
    <3> QED
      BY <1>14, <2>2, <3>2
  <2> QED
    BY <2>1, <2>2
<1> QED
  BY <1>15, <1>17, <1>18, <1>19 DEF FilesInv

(* Every file of a test has what the modes and writes of the test put into *)
(* it (FilesAreTheTests), for every set of names and contents and however  *)
(* many files are opened: what cltester and the library of the wasm keep   *)
(* of a descriptor, with what is still in its buffer, is what the test     *)
(* takes it for.                                                           *)
THEOREM FilesAgree == FilesSpec => []FilesAreTheTests
<1>1. FilesInit => FilesInv
  BY FilesInitially
<1>2. FilesInv /\ [FilesNext]_fileVars => FilesInv'
  <2> SUFFICES ASSUME FilesInv, [FilesNext]_fileVars PROVE FilesInv'
    OBVIOUS
  <2>1. CASE UNCHANGED fileVars
    BY <2>1 DEF fileVars, FilesInv, FilesType, DescriptorsFit, OneForAPath, ClosedAreExpected, NoneOpen
  <2>2. ASSUME NEW path \in Path, NEW mode \in Mode, Open(path, mode) PROVE FilesInv'
    BY <2>2, OpenKeepsFiles
  <2>3. ASSUME NEW fd \in DOMAIN held, NEW buffers \in Buffers, Write(fd, buffers) PROVE FilesInv'
    BY <2>3, WriteKeepsFiles
  <2>4. ASSUME NEW fd \in DOMAIN held, NEW sizes \in Sizes, Read(fd, sizes) PROVE FilesInv'
    BY <2>4, ReadKeepsFiles
  <2>5. ASSUME NEW fd \in DOMAIN held, Close(fd) PROVE FilesInv'
    BY <2>5, CloseKeepsFiles
  <2>6. ASSUME NEW fd \in Standard, CloseStandard(fd) PROVE FilesInv'
    BY <2>6, CloseStandardKeepsFiles
  <2> QED
    BY <2>1, <2>2, <2>3, <2>4, <2>5, <2>6, Zenon DEF FilesNext
<1>3. FilesInv => FilesAreTheTests
  BY InvKeepsFiles
<1> QED
  BY <1>1, <1>2, <1>3, PTL DEF FilesSpec


-----------------------------------------------------------------------------
(* A time at which a block may be: blocks are at slots.                    *)
Even(time) == time \in Nat /\ Slot(time) = time

(* The tables only gain transactions, block after block.                   *)
Grown(c) ==
  /\ \A i \in 1..Len(c.blocks) : c.blocks[i].rows \subseteq c.rows
  /\ \A i, j \in 1..Len(c.blocks) : i <= j => c.blocks[i].rows \subseteq c.blocks[j].rows

(* What is told of the i-th block of a chain.                              *)
Tells(c, i, m) ==
  /\ m \in Message /\ m.this = c.base + i
  /\ m.prev = (IF i = 2 THEN 0 ELSE c.base + i - 1)
  /\ m.traces = c.blocks[i].txs
  /\ m.deltas = (IF i = 2 THEN c.blocks[i].rows ELSE c.blocks[i].rows \ c.blocks[i - 1].rows)

(* The history of a chain has a message for each block after its first.    *)
Remembered(c) ==
  /\ c.prev = (IF Len(c.blocks) = 1 THEN 0 ELSE HeadNum(c))
  /\ IF Len(c.blocks) = 1 THEN c.history = <<>> ELSE Len(c.history) = HeadNum(c)
  /\ \A n \in 1..Len(c.history) : n <= c.base + 1 => c.history[n] = None
  /\ \A i \in 2..Len(c.blocks) : Tells(c, i, c.history[c.base + i])

(* A chain and its history, as every operation leaves them.                *)
ChainFits(c) ==
  /\ c \in Chain /\ Len(c.blocks) >= 1
  /\ Even(HeadBlock(c).time) /\ (Building(c) => Even(c.pending.time))
  /\ Grown(c) /\ Remembered(c) /\ ContextIsFresh(c)

(* Chains that fit, and objects that name one each and remember what is   *)
(* right of it.                                                            *)
ChainsInv ==
  /\ chains \in Seq(Chain \cup {None}) /\ tests \in [Test -> Object \cup {None}]
  /\ current \in Test \cup {None}
  /\ ObjectsNameChains
  /\ \A i \in DOMAIN chains : chains[i] # None => ChainFits(chains[i]) /\ BlockIsRecent(chains[i])
  /\ \A t \in Test : tests[t] # None => ObjectIsRight(tests[t], Its(t))


(* A chain with another value in one of its fields is the same in all      *)
(* others.                                                                 *)
LEMMA WithBlocks ==
  ASSUME NEW c \in Chain, NEW v \in Seq(Block)
  PROVE  /\ [c EXCEPT !.blocks = v] \in Chain
         /\ [c EXCEPT !.blocks = v].blocks = v
         /\ [c EXCEPT !.blocks = v].base = c.base
         /\ [c EXCEPT !.blocks = v].pending = c.pending
         /\ [c EXCEPT !.blocks = v].rows = c.rows
         /\ [c EXCEPT !.blocks = v].deferred = c.deferred
         /\ [c EXCEPT !.blocks = v].sent = c.sent
         /\ [c EXCEPT !.blocks = v].control = c.control
         /\ [c EXCEPT !.blocks = v].prev = c.prev
         /\ [c EXCEPT !.blocks = v].history = c.history
         /\ [c EXCEPT !.blocks = v].ctx = c.ctx
<1> DEFINE b == c.blocks  e == c.base  p == c.pending  r == c.rows  f == c.deferred
           s == c.sent  o == c.control  q == c.prev  h == c.history  x == c.ctx
           d == [blocks |-> v, base |-> e, pending |-> p, rows |-> r,
                 deferred |-> f, sent |-> s, control |-> o, prev |-> q,
                 history |-> h, ctx |-> x]
<1>1. c = [blocks |-> b, base |-> e, pending |-> p, rows |-> r,
           deferred |-> f, sent |-> s, control |-> o, prev |-> q,
           history |-> h, ctx |-> x]
  BY DEF Chain
<1>2. d \in Chain
  BY DEF Chain
<1> HIDE DEF b, e, p, r, f, s, o, q, h, x
<1>3. [c EXCEPT !.blocks = v] = d
  BY <1>1
<1> QED
  BY <1>2, <1>3 DEF b, e, p, r, f, s, o, q, h, x

LEMMA WithPending ==
  ASSUME NEW c \in Chain, NEW v \in Pending \cup {None}
  PROVE  /\ [c EXCEPT !.pending = v] \in Chain
         /\ [c EXCEPT !.pending = v].blocks = c.blocks
         /\ [c EXCEPT !.pending = v].base = c.base
         /\ [c EXCEPT !.pending = v].pending = v
         /\ [c EXCEPT !.pending = v].rows = c.rows
         /\ [c EXCEPT !.pending = v].deferred = c.deferred
         /\ [c EXCEPT !.pending = v].sent = c.sent
         /\ [c EXCEPT !.pending = v].control = c.control
         /\ [c EXCEPT !.pending = v].prev = c.prev
         /\ [c EXCEPT !.pending = v].history = c.history
         /\ [c EXCEPT !.pending = v].ctx = c.ctx
<1> DEFINE b == c.blocks  e == c.base  p == c.pending  r == c.rows  f == c.deferred
           s == c.sent  o == c.control  q == c.prev  h == c.history  x == c.ctx
           d == [blocks |-> b, base |-> e, pending |-> v, rows |-> r,
                 deferred |-> f, sent |-> s, control |-> o, prev |-> q,
                 history |-> h, ctx |-> x]
<1>1. c = [blocks |-> b, base |-> e, pending |-> p, rows |-> r,
           deferred |-> f, sent |-> s, control |-> o, prev |-> q,
           history |-> h, ctx |-> x]
  BY DEF Chain
<1>2. d \in Chain
  BY DEF Chain
<1> HIDE DEF b, e, p, r, f, s, o, q, h, x
<1>3. [c EXCEPT !.pending = v] = d
  BY <1>1
<1> QED
  BY <1>2, <1>3 DEF b, e, p, r, f, s, o, q, h, x

LEMMA WithRows ==
  ASSUME NEW c \in Chain, NEW v \in SUBSET Nat
  PROVE  /\ [c EXCEPT !.rows = v] \in Chain
         /\ [c EXCEPT !.rows = v].blocks = c.blocks
         /\ [c EXCEPT !.rows = v].base = c.base
         /\ [c EXCEPT !.rows = v].pending = c.pending
         /\ [c EXCEPT !.rows = v].rows = v
         /\ [c EXCEPT !.rows = v].deferred = c.deferred
         /\ [c EXCEPT !.rows = v].sent = c.sent
         /\ [c EXCEPT !.rows = v].control = c.control
         /\ [c EXCEPT !.rows = v].prev = c.prev
         /\ [c EXCEPT !.rows = v].history = c.history
         /\ [c EXCEPT !.rows = v].ctx = c.ctx
<1> DEFINE b == c.blocks  e == c.base  p == c.pending  r == c.rows  f == c.deferred
           s == c.sent  o == c.control  q == c.prev  h == c.history  x == c.ctx
           d == [blocks |-> b, base |-> e, pending |-> p, rows |-> v,
                 deferred |-> f, sent |-> s, control |-> o, prev |-> q,
                 history |-> h, ctx |-> x]
<1>1. c = [blocks |-> b, base |-> e, pending |-> p, rows |-> r,
           deferred |-> f, sent |-> s, control |-> o, prev |-> q,
           history |-> h, ctx |-> x]
  BY DEF Chain
<1>2. d \in Chain
  BY DEF Chain
<1> HIDE DEF b, e, p, r, f, s, o, q, h, x
<1>3. [c EXCEPT !.rows = v] = d
  BY <1>1
<1> QED
  BY <1>2, <1>3 DEF b, e, p, r, f, s, o, q, h, x

LEMMA WithDeferred ==
  ASSUME NEW c \in Chain, NEW v \in Seq(Nat)
  PROVE  /\ [c EXCEPT !.deferred = v] \in Chain
         /\ [c EXCEPT !.deferred = v].blocks = c.blocks
         /\ [c EXCEPT !.deferred = v].base = c.base
         /\ [c EXCEPT !.deferred = v].pending = c.pending
         /\ [c EXCEPT !.deferred = v].rows = c.rows
         /\ [c EXCEPT !.deferred = v].deferred = v
         /\ [c EXCEPT !.deferred = v].sent = c.sent
         /\ [c EXCEPT !.deferred = v].control = c.control
         /\ [c EXCEPT !.deferred = v].prev = c.prev
         /\ [c EXCEPT !.deferred = v].history = c.history
         /\ [c EXCEPT !.deferred = v].ctx = c.ctx
<1> DEFINE b == c.blocks  e == c.base  p == c.pending  r == c.rows  f == c.deferred
           s == c.sent  o == c.control  q == c.prev  h == c.history  x == c.ctx
           d == [blocks |-> b, base |-> e, pending |-> p, rows |-> r,
                 deferred |-> v, sent |-> s, control |-> o, prev |-> q,
                 history |-> h, ctx |-> x]
<1>1. c = [blocks |-> b, base |-> e, pending |-> p, rows |-> r,
           deferred |-> f, sent |-> s, control |-> o, prev |-> q,
           history |-> h, ctx |-> x]
  BY DEF Chain
<1>2. d \in Chain
  BY DEF Chain
<1> HIDE DEF b, e, p, r, f, s, o, q, h, x
<1>3. [c EXCEPT !.deferred = v] = d
  BY <1>1
<1> QED
  BY <1>2, <1>3 DEF b, e, p, r, f, s, o, q, h, x

LEMMA WithSent ==
  ASSUME NEW c \in Chain, NEW v \in Nat
  PROVE  /\ [c EXCEPT !.sent = v] \in Chain
         /\ [c EXCEPT !.sent = v].blocks = c.blocks
         /\ [c EXCEPT !.sent = v].base = c.base
         /\ [c EXCEPT !.sent = v].pending = c.pending
         /\ [c EXCEPT !.sent = v].rows = c.rows
         /\ [c EXCEPT !.sent = v].deferred = c.deferred
         /\ [c EXCEPT !.sent = v].sent = v
         /\ [c EXCEPT !.sent = v].control = c.control
         /\ [c EXCEPT !.sent = v].prev = c.prev
         /\ [c EXCEPT !.sent = v].history = c.history
         /\ [c EXCEPT !.sent = v].ctx = c.ctx
<1> DEFINE b == c.blocks  e == c.base  p == c.pending  r == c.rows  f == c.deferred
           s == c.sent  o == c.control  q == c.prev  h == c.history  x == c.ctx
           d == [blocks |-> b, base |-> e, pending |-> p, rows |-> r,
                 deferred |-> f, sent |-> v, control |-> o, prev |-> q,
                 history |-> h, ctx |-> x]
<1>1. c = [blocks |-> b, base |-> e, pending |-> p, rows |-> r,
           deferred |-> f, sent |-> s, control |-> o, prev |-> q,
           history |-> h, ctx |-> x]
  BY DEF Chain
<1>2. d \in Chain
  BY DEF Chain
<1> HIDE DEF b, e, p, r, f, s, o, q, h, x
<1>3. [c EXCEPT !.sent = v] = d
  BY <1>1
<1> QED
  BY <1>2, <1>3 DEF b, e, p, r, f, s, o, q, h, x

LEMMA WithControl ==
  ASSUME NEW c \in Chain, NEW v \in BOOLEAN
  PROVE  /\ [c EXCEPT !.control = v] \in Chain
         /\ [c EXCEPT !.control = v].blocks = c.blocks
         /\ [c EXCEPT !.control = v].base = c.base
         /\ [c EXCEPT !.control = v].pending = c.pending
         /\ [c EXCEPT !.control = v].rows = c.rows
         /\ [c EXCEPT !.control = v].deferred = c.deferred
         /\ [c EXCEPT !.control = v].sent = c.sent
         /\ [c EXCEPT !.control = v].control = v
         /\ [c EXCEPT !.control = v].prev = c.prev
         /\ [c EXCEPT !.control = v].history = c.history
         /\ [c EXCEPT !.control = v].ctx = c.ctx
<1> DEFINE b == c.blocks  e == c.base  p == c.pending  r == c.rows  f == c.deferred
           s == c.sent  o == c.control  q == c.prev  h == c.history  x == c.ctx
           d == [blocks |-> b, base |-> e, pending |-> p, rows |-> r,
                 deferred |-> f, sent |-> s, control |-> v, prev |-> q,
                 history |-> h, ctx |-> x]
<1>1. c = [blocks |-> b, base |-> e, pending |-> p, rows |-> r,
           deferred |-> f, sent |-> s, control |-> o, prev |-> q,
           history |-> h, ctx |-> x]
  BY DEF Chain
<1>2. d \in Chain
  BY DEF Chain
<1> HIDE DEF b, e, p, r, f, s, o, q, h, x
<1>3. [c EXCEPT !.control = v] = d
  BY <1>1
<1> QED
  BY <1>2, <1>3 DEF b, e, p, r, f, s, o, q, h, x

LEMMA WithPrev ==
  ASSUME NEW c \in Chain, NEW v \in Nat
  PROVE  /\ [c EXCEPT !.prev = v] \in Chain
         /\ [c EXCEPT !.prev = v].blocks = c.blocks
         /\ [c EXCEPT !.prev = v].base = c.base
         /\ [c EXCEPT !.prev = v].pending = c.pending
         /\ [c EXCEPT !.prev = v].rows = c.rows
         /\ [c EXCEPT !.prev = v].deferred = c.deferred
         /\ [c EXCEPT !.prev = v].sent = c.sent
         /\ [c EXCEPT !.prev = v].control = c.control
         /\ [c EXCEPT !.prev = v].prev = v
         /\ [c EXCEPT !.prev = v].history = c.history
         /\ [c EXCEPT !.prev = v].ctx = c.ctx
<1> DEFINE b == c.blocks  e == c.base  p == c.pending  r == c.rows  f == c.deferred
           s == c.sent  o == c.control  q == c.prev  h == c.history  x == c.ctx
           d == [blocks |-> b, base |-> e, pending |-> p, rows |-> r,
                 deferred |-> f, sent |-> s, control |-> o, prev |-> v,
                 history |-> h, ctx |-> x]
<1>1. c = [blocks |-> b, base |-> e, pending |-> p, rows |-> r,
           deferred |-> f, sent |-> s, control |-> o, prev |-> q,
           history |-> h, ctx |-> x]
  BY DEF Chain
<1>2. d \in Chain
  BY DEF Chain
<1> HIDE DEF b, e, p, r, f, s, o, q, h, x
<1>3. [c EXCEPT !.prev = v] = d
  BY <1>1
<1> QED
  BY <1>2, <1>3 DEF b, e, p, r, f, s, o, q, h, x

LEMMA WithHistory ==
  ASSUME NEW c \in Chain, NEW v \in Seq(Message \cup {None})
  PROVE  /\ [c EXCEPT !.history = v] \in Chain
         /\ [c EXCEPT !.history = v].blocks = c.blocks
         /\ [c EXCEPT !.history = v].base = c.base
         /\ [c EXCEPT !.history = v].pending = c.pending
         /\ [c EXCEPT !.history = v].rows = c.rows
         /\ [c EXCEPT !.history = v].deferred = c.deferred
         /\ [c EXCEPT !.history = v].sent = c.sent
         /\ [c EXCEPT !.history = v].control = c.control
         /\ [c EXCEPT !.history = v].prev = c.prev
         /\ [c EXCEPT !.history = v].history = v
         /\ [c EXCEPT !.history = v].ctx = c.ctx
<1> DEFINE b == c.blocks  e == c.base  p == c.pending  r == c.rows  f == c.deferred
           s == c.sent  o == c.control  q == c.prev  h == c.history  x == c.ctx
           d == [blocks |-> b, base |-> e, pending |-> p, rows |-> r,
                 deferred |-> f, sent |-> s, control |-> o, prev |-> q,
                 history |-> v, ctx |-> x]
<1>1. c = [blocks |-> b, base |-> e, pending |-> p, rows |-> r,
           deferred |-> f, sent |-> s, control |-> o, prev |-> q,
           history |-> h, ctx |-> x]
  BY DEF Chain
<1>2. d \in Chain
  BY DEF Chain
<1> HIDE DEF b, e, p, r, f, s, o, q, h, x
<1>3. [c EXCEPT !.history = v] = d
  BY <1>1
<1> QED
  BY <1>2, <1>3 DEF b, e, p, r, f, s, o, q, h, x

LEMMA WithCtx ==
  ASSUME NEW c \in Chain, NEW v \in (SUBSET Nat) \cup {None}
  PROVE  /\ [c EXCEPT !.ctx = v] \in Chain
         /\ [c EXCEPT !.ctx = v].blocks = c.blocks
         /\ [c EXCEPT !.ctx = v].base = c.base
         /\ [c EXCEPT !.ctx = v].pending = c.pending
         /\ [c EXCEPT !.ctx = v].rows = c.rows
         /\ [c EXCEPT !.ctx = v].deferred = c.deferred
         /\ [c EXCEPT !.ctx = v].sent = c.sent
         /\ [c EXCEPT !.ctx = v].control = c.control
         /\ [c EXCEPT !.ctx = v].prev = c.prev
         /\ [c EXCEPT !.ctx = v].history = c.history
         /\ [c EXCEPT !.ctx = v].ctx = v
<1> DEFINE b == c.blocks  e == c.base  p == c.pending  r == c.rows  f == c.deferred
           s == c.sent  o == c.control  q == c.prev  h == c.history  x == c.ctx
           d == [blocks |-> b, base |-> e, pending |-> p, rows |-> r,
                 deferred |-> f, sent |-> s, control |-> o, prev |-> q,
                 history |-> h, ctx |-> v]
<1>1. c = [blocks |-> b, base |-> e, pending |-> p, rows |-> r,
           deferred |-> f, sent |-> s, control |-> o, prev |-> q,
           history |-> h, ctx |-> x]
  BY DEF Chain
<1>2. d \in Chain
  BY DEF Chain
<1> HIDE DEF b, e, p, r, f, s, o, q, h, x
<1>3. [c EXCEPT !.ctx = v] = d
  BY <1>1
<1> QED
  BY <1>2, <1>3 DEF b, e, p, r, f, s, o, q, h, x

LEMMA SlotIs ==
  /\ \A time \in Nat : Slot(time) \in Nat /\ Even(Slot(time))
  /\ \A time \in Nat, more \in Nat : Even(time) => Slot(time + more) = time + Slot(more)
  /\ Slot(block_interval) = block_interval /\ Slot(block_interval + 1) = block_interval
BY DEF Slot, Even, block_interval


SameBlocks(d, c) ==
  d.blocks = c.blocks /\ d.base = c.base /\ d.prev = c.prev /\ d.history = c.history

LEMMA StaysFit ==
  ASSUME NEW c, NEW d \in Chain, ChainFits(c), SameBlocks(d, c), c.rows \subseteq d.rows,
         Building(d) => Even(d.pending.time), ContextIsFresh(d)
  PROVE  ChainFits(d)
<1>1. d.blocks = c.blocks /\ d.base = c.base /\ d.prev = c.prev /\ d.history = c.history
  BY DEF SameBlocks
<1>2. HeadBlock(d) = HeadBlock(c) /\ HeadNum(d) = HeadNum(c)
  BY <1>1, Zenon DEF HeadBlock, HeadNum
<1>3. Grown(d)
  BY <1>1 DEF ChainFits, Grown
<1>4. \A i, m : Tells(d, i, m) = Tells(c, i, m)
  BY <1>1, Zenon DEF Tells
<1>5. Remembered(d)
  BY <1>1, <1>2, <1>4, Zenon DEF ChainFits, Remembered
<1>6. Len(d.blocks) >= 1 /\ Even(HeadBlock(d).time)
  BY <1>1, <1>2, Zenon DEF ChainFits
<1> QED
  BY <1>3, <1>5, <1>6, Zenon DEF ChainFits

LEMMA MutatingFits ==
  ASSUME NEW c, ChainFits(c)
  PROVE  /\ ChainFits(mutating(c)) /\ SameBlocks(mutating(c), c) /\ mutating(c).ctx = None
         /\ mutating(c).pending = c.pending /\ mutating(c).rows = c.rows
         /\ mutating(c).sent = c.sent /\ mutating(c).deferred = c.deferred
         /\ mutating(c).control = c.control
<1> DEFINE m == [c EXCEPT !.ctx = None]
<1>0. c \in Chain /\ None \in (SUBSET Nat) \cup {None}
  <2>1. None \in (SUBSET Nat) \cup {None}
    OBVIOUS
  <2>2. c \in Chain
    BY DEF ChainFits
  <2> QED
    BY <2>1, <2>2
<1>1. /\ m \in Chain /\ m.ctx = None /\ m.blocks = c.blocks /\ m.base = c.base
      /\ m.prev = c.prev /\ m.history = c.history
      /\ m.pending = c.pending /\ m.rows = c.rows
      /\ m.sent = c.sent /\ m.deferred = c.deferred /\ m.control = c.control
  BY <1>0, WithCtx
<1>2. mutating(c) = m
  BY DEF mutating
<1> HIDE DEF m
<1>3. SameBlocks(m, c)
  BY <1>1 DEF SameBlocks
<1>4. Building(m) => Even(m.pending.time)
  BY <1>1 DEF ChainFits, Building
<1>5. ContextIsFresh(m)
  BY <1>1 DEF ContextIsFresh
<1>6. c.rows \subseteq m.rows
  BY <1>1
<1>7. ChainFits(m)
  BY <1>1, <1>3, <1>4, <1>5, <1>6, StaysFit
<1> QED
  BY <1>1, <1>2, <1>3, <1>7

LEMMA ControlStartFits ==
  ASSUME NEW c, ChainFits(c), c.ctx = None, NEW when \in Nat
  PROVE  /\ ChainFits(ControlStart(c, when)) /\ SameBlocks(ControlStart(c, when), c)
         /\ ControlStart(c, when).ctx = None /\ Building(ControlStart(c, when))
         /\ ControlStart(c, when).pending.time = Slot(when)
         /\ ControlStart(c, when).rows = c.rows /\ ControlStart(c, when).sent = c.sent
         /\ ControlStart(c, when).deferred = c.deferred
         /\ ControlStart(c, when).control = c.control
<1> DEFINE p == [time |-> Slot(when), txs |-> <<>>]
           s == [c EXCEPT !.pending = p]
<1>0. p \in Pending /\ p.time = Slot(when) /\ Even(p.time)
  BY SlotIs DEF Pending
<1>1. c \in Chain /\ p # None /\ p \in Pending \cup {None}
  BY <1>0, NoChainAssumption DEF ChainFits
<1>2. ControlStart(c, when) = s
  BY DEF ControlStart
<1> HIDE DEF p
<1>3. /\ s \in Chain /\ s.ctx = c.ctx /\ s.blocks = c.blocks /\ s.base = c.base
      /\ s.prev = c.prev /\ s.history = c.history
      /\ s.pending = p /\ s.rows = c.rows
      /\ s.sent = c.sent /\ s.deferred = c.deferred /\ s.control = c.control
  BY <1>1, WithPending
<1> HIDE DEF s
<1>4. SameBlocks(s, c) /\ Building(s) /\ c.rows \subseteq s.rows
  BY <1>1, <1>3 DEF SameBlocks, Building
<1>5. Even(s.pending.time) /\ s.pending.time = Slot(when)
  BY <1>0, <1>3
<1>6. ContextIsFresh(s)
  BY <1>3 DEF ContextIsFresh
<1>7. ChainFits(s)
  BY <1>3, <1>4, <1>5, <1>6, StaysFit
<1> QED
  BY <1>2, <1>3, <1>4, <1>5, <1>7

LEMMA HeadIs ==
  ASSUME NEW c, ChainFits(c)
  PROVE  /\ HeadBlock(c) = c.blocks[Len(c.blocks)] /\ HeadBlock(c) \in Block
         /\ Len(c.blocks) \in Nat \ {0} /\ HeadNum(c) = c.base + Len(c.blocks)
         /\ HeadNum(c) \in Nat /\ HeadBlock(c).time \in Nat /\ Even(HeadBlock(c).time)
         /\ c \in Chain /\ c.blocks \in Seq(Block) /\ c.base \in Nat
         /\ Building(c) => c.pending \in Pending /\ c.pending.time \in Nat /\ Even(c.pending.time)
<1>1. c \in Chain /\ Len(c.blocks) >= 1
  BY DEF ChainFits
<1>2. c.blocks \in Seq(Block) /\ c.base \in Nat /\ c.pending \in Pending \cup {None}
  BY <1>1 DEF Chain
<1>3. HeadBlock(c) = c.blocks[Len(c.blocks)]
  BY DEF HeadBlock, Last
<1>4. HeadBlock(c) \in Block /\ Len(c.blocks) \in Nat \ {0}
  BY <1>1, <1>2, <1>3
<1>5. HeadBlock(c).time \in Nat
  BY <1>4 DEF Block
<1>6. HeadNum(c) = c.base + Len(c.blocks) /\ HeadNum(c) \in Nat
  BY <1>2, <1>4 DEF HeadNum
<1>7. Even(HeadBlock(c).time)
  BY DEF ChainFits
<1>8. Building(c) => c.pending \in Pending /\ Even(c.pending.time) /\ c.pending.time \in Nat
  BY <1>2 DEF Building, Pending, ChainFits
<1> QED
  BY <1>1, <1>2, <1>3, <1>4, <1>5, <1>6, <1>7, <1>8

LEMMA Starts ==
  ASSUME NEW c, ChainFits(c)
  PROVE  /\ ChainFits(start_if_needed(c)) /\ SameBlocks(start_if_needed(c), c)
         /\ start_if_needed(c).ctx = None /\ Building(start_if_needed(c))
         /\ Building(c) => start_if_needed(c).pending = c.pending
         /\ ~Building(c) => start_if_needed(c).pending.time = HeadBlock(c).time + block_interval
         /\ BlockIsRecent(c) => BlockIsRecent(start_if_needed(c))
         /\ start_if_needed(c).rows = c.rows /\ start_if_needed(c).sent = c.sent
         /\ start_if_needed(c).deferred = c.deferred
         /\ start_if_needed(c).control = c.control
<1> DEFINE m == mutating(c)
           s == start_if_needed(c)
           when == HeadBlock(m).time + block_interval
<1>1. /\ ChainFits(m) /\ SameBlocks(m, c) /\ m.ctx = None
      /\ m.pending = c.pending /\ m.rows = c.rows
      /\ m.sent = c.sent /\ m.deferred = c.deferred /\ m.control = c.control
  BY MutatingFits
<1>2. HeadBlock(m) = HeadBlock(c) /\ (Building(m) <=> Building(c))
  BY <1>1, Zenon DEF SameBlocks, HeadBlock, Building
<1>3. s = IF Building(m) THEN m ELSE ControlStart(m, when)
  BY Zenon DEF start_if_needed
<1>4. when \in Nat /\ Slot(when) = when
  <2>1. HeadBlock(m).time \in Nat /\ Even(HeadBlock(m).time)
    BY <1>1, HeadIs
  <2> DEFINE t == HeadBlock(m).time
  <2> HIDE DEF m
  <2>2. t \in Nat /\ Even(t)
    BY <2>1
  <2> HIDE DEF t
  <2>3. t + block_interval \in Nat /\ block_interval \in Nat
    BY <2>2 DEF block_interval
  <2>4. Slot(t + block_interval) = t + Slot(block_interval) /\ Slot(block_interval) = block_interval
    BY <2>2, <2>3, SlotIs
  <2> QED
    BY <2>3, <2>4 DEF t
<1> HIDE DEF m, s
<1>5. \A d, e : SameBlocks(d, e) /\ SameBlocks(e, c) => SameBlocks(d, c)
  BY Zenon DEF SameBlocks
<1>6. CASE Building(m)
  <2>1. s = m
    BY <1>3, <1>6, Zenon
  <2>2. BlockIsRecent(c) => BlockIsRecent(s)
    BY <1>1, <1>2, <2>1, Zenon DEF BlockIsRecent
  <2> QED
    BY <1>1, <1>2, <1>6, <2>1, <2>2, Zenon DEF s
<1>7. CASE ~Building(m)
  <2>1. s = ControlStart(m, when)
    BY <1>3, <1>7, Zenon
  <2> HIDE DEF when
  <2>2. /\ ChainFits(s) /\ SameBlocks(s, m) /\ s.ctx = None /\ Building(s)
        /\ s.pending.time = when /\ s.rows = m.rows /\ s.sent = m.sent
        /\ s.deferred = m.deferred /\ s.control = m.control
    BY <1>1, <1>4, <2>1, ControlStartFits
  <2>3. SameBlocks(s, c) /\ HeadBlock(s) = HeadBlock(m)
    BY <1>1, <1>5, <2>2, Zenon DEF SameBlocks, HeadBlock
  <2>4. s.pending.time = HeadBlock(c).time + block_interval /\ BlockIsRecent(s)
    BY <1>2, <2>2, <2>3, Zenon DEF when, BlockIsRecent
  <2> QED
    BY <1>1, <1>2, <1>7, <2>2, <2>3, <2>4, Zenon DEF s
<1> QED
  BY <1>6, <1>7, Zenon


(* A block that is committed is told of, after all that were before it.    *)
LEMMA Finishes ==
  ASSUME NEW c, ChainFits(c)
  PROVE  /\ ChainFits(finish_block(c)) /\ ~Building(finish_block(c)) /\ finish_block(c).ctx = None
         /\ HeadBlock(finish_block(c)).time = start_if_needed(c).pending.time
         /\ finish_block(c).rows = c.rows /\ finish_block(c).control = c.control
<1> DEFINE s == start_if_needed(c)
           b == [time |-> s.pending.time, txs |-> s.pending.txs, rows |-> s.rows]
           k == ControlCommit(s)
           k1 == [s EXCEPT !.blocks = Append(s.blocks, b)]
           num == HeadNum(k)
           message == [prev |-> k.prev, this |-> num, head |-> num,
                       traces |-> HeadBlock(k).txs, deltas |-> Deltas(k, k.prev = 0)]
           told == [n \in 1..num |-> IF n = num THEN message
                                     ELSE IF n \in DOMAIN k.history THEN k.history[n] ELSE None]
           f1 == [k EXCEPT !.prev = num]
           f == finish_block(c)
           L == Len(s.blocks)
<1>1. /\ ChainFits(s) /\ s.ctx = None /\ Building(s) /\ s.rows = c.rows /\ s.control = c.control
  BY Starts
<1>2. f = [k EXCEPT !.prev = num, !.history = told]
  BY Zenon DEF finish_block, on_accepted_block
<1>3. k = [s EXCEPT !.blocks = Append(@, b), !.pending = None]
  BY Zenon DEF ControlCommit
<1>4. [s EXCEPT !.blocks = Append(@, b), !.pending = None] = [k1 EXCEPT !.pending = None]
  BY Zenon
<1>5. [k EXCEPT !.prev = num, !.history = told] = [f1 EXCEPT !.history = told]
  BY Zenon
<1> HIDE DEF s
<1>6. /\ s \in Chain /\ s.blocks \in Seq(Block) /\ L \in Nat \ {0} /\ s.base \in Nat
      /\ s.pending \in Pending /\ s.pending.time \in Nat /\ Even(s.pending.time)
      /\ HeadNum(s) = s.base + L /\ s.rows \in SUBSET Nat /\ s.prev \in Nat
      /\ s.history \in Seq(Message \cup {None})
  <2>1. s \in Chain
    BY <1>1, HeadIs
  <2>2. s.rows \in SUBSET Nat /\ s.prev \in Nat /\ s.history \in Seq(Message \cup {None})
    BY <2>1 DEF Chain
  <2>3. /\ s.blocks \in Seq(Block) /\ Len(s.blocks) \in Nat \ {0} /\ s.base \in Nat
        /\ HeadNum(s) = s.base + Len(s.blocks)
    BY <1>1, HeadIs
  <2>4. s.pending \in Pending /\ s.pending.time \in Nat /\ Even(s.pending.time)
    BY <1>1, HeadIs
  <2> QED
    BY <2>1, <2>2, <2>3, <2>4
<1>7. b \in Block /\ b.time = s.pending.time /\ b.txs = s.pending.txs /\ b.rows = s.rows
  BY <1>6 DEF Block, Pending
<1> HIDE DEF b
<1> DEFINE all == Append(s.blocks, b)
<1>8. /\ all \in Seq(Block) /\ Len(all) = L + 1 /\ all[L + 1] = b
      /\ \A i \in 1..L : all[i] = s.blocks[i]
  BY <1>6, <1>7
<1> HIDE DEF all
<1>9. /\ k1 \in Chain /\ k1.blocks = all /\ k1.base = s.base /\ k1.pending = s.pending
      /\ k1.rows = s.rows /\ k1.control = s.control /\ k1.prev = s.prev
      /\ k1.history = s.history /\ k1.ctx = s.ctx
  <2>1. k1 = [s EXCEPT !.blocks = all]
    BY DEF all
  <2> HIDE DEF k1
  <2> QED
    BY <1>6, <1>8, <2>1, WithBlocks
<1> HIDE DEF k1, k
<1>10. /\ k \in Chain /\ k.blocks = all /\ k.base = s.base /\ k.pending = None
       /\ k.rows = s.rows /\ k.control = s.control /\ k.prev = s.prev
       /\ k.history = s.history /\ k.ctx = None
  <2>1. k = [k1 EXCEPT !.pending = None]
    BY <1>3, <1>4, Zenon
  <2>2. None \in Pending \cup {None}
    OBVIOUS
  <2> QED
    BY <1>1, <1>9, <2>1, <2>2, WithPending
<1>11. num = s.base + L + 1 /\ num \in Nat /\ HeadBlock(k) = b
  <2>1. Len(k.blocks) = L + 1 /\ k.blocks[L + 1] = b
    BY <1>8, <1>10
  <2>2. HeadBlock(k) = b
    BY <2>1, Zenon DEF HeadBlock, Last
  <2>3. HeadNum(k) = s.base + (L + 1)
    BY <1>10, <2>1, Zenon DEF HeadNum
  <2>4. s.base \in Nat /\ L \in Nat
    BY <1>6
  <2> HIDE DEF L
  <2>5. s.base + (L + 1) = s.base + L + 1 /\ s.base + L + 1 \in Nat
    BY <2>4
  <2> QED
    BY <2>2, <2>3, <2>5, Zenon
<1>12. /\ message.prev = s.prev /\ message.this = num /\ message.traces = b.txs
       /\ message.deltas = Deltas(k, s.prev = 0)
  BY <1>10, <1>11, Zenon
<1>13. Deltas(k, s.prev = 0) = (IF s.prev = 0 THEN s.rows ELSE s.rows \ all[L].rows)
  <2>1. Len(k.blocks) - 1 = L
    BY <1>6, <1>8, <1>10
  <2> QED
    BY <1>10, <2>1, Zenon DEF Deltas
<1>14. message \in Message
  <2>1. b.txs \in Seq(Nat)
    BY <1>7 DEF Block
  <2>2. Deltas(k, s.prev = 0) \in SUBSET Nat
    BY <1>6, <1>13
  <2>3. message = [prev |-> s.prev, this |-> num, head |-> num, traces |-> b.txs,
                   deltas |-> Deltas(k, s.prev = 0)]
    BY <1>10, <1>11, Zenon
  <2> HIDE DEF message, num
  <2> QED
    BY <1>6, <1>11, <2>1, <2>2, <2>3 DEF Message
<1> HIDE DEF message, num
<1>15. /\ told \in Seq(Message \cup {None}) /\ Len(told) = num /\ told[num] = message
       /\ \A n \in 1..num : n # num /\ n \in DOMAIN s.history => told[n] = s.history[n]
       /\ \A n \in 1..num : n # num /\ n \notin DOMAIN s.history => told[n] = None
  <2>1. \A n \in DOMAIN s.history : s.history[n] \in Message \cup {None}
    BY <1>6
  <2>2. \A n \in 1..num : told[n] \in Message \cup {None}
    BY <1>10, <1>14, <2>1
  <2>3. 1..num # {} /\ num \in 1..num
    BY <1>6, <1>11
  <2> QED
    BY <1>10, <1>11, <2>2, <2>3
<1> HIDE DEF told
<1>16. /\ f1 \in Chain /\ f1.blocks = all /\ f1.base = s.base /\ f1.pending = None
       /\ f1.rows = s.rows /\ f1.control = s.control /\ f1.prev = num /\ f1.ctx = None
  BY <1>10, <1>11, WithPrev
<1> HIDE DEF f1, f
<1>17. /\ f \in Chain /\ f.blocks = all /\ f.base = s.base /\ f.pending = None
       /\ f.rows = s.rows /\ f.control = s.control /\ f.prev = num /\ f.ctx = None
       /\ f.history = told
  <2>1. f = [f1 EXCEPT !.history = told]
    BY <1>2, <1>5, Zenon
  <2> QED
    BY <1>15, <1>16, <2>1, WithHistory
<1>18. HeadBlock(f) = b /\ HeadNum(f) = num
  <2>1. Len(f.blocks) = L + 1 /\ f.blocks[L + 1] = b
    BY <1>8, <1>17
  <2>2. HeadBlock(f) = b
    BY <2>1, Zenon DEF HeadBlock, Last
  <2>3. HeadNum(f) = s.base + (L + 1)
    BY <1>17, <2>1, Zenon DEF HeadNum
  <2> QED
    BY <1>6, <1>11, <2>2, <2>3
<1>19. Grown(f)
  <2>1. /\ \A i \in 1..L : s.blocks[i].rows \subseteq s.rows
        /\ \A i, j \in 1..L : i <= j => s.blocks[i].rows \subseteq s.blocks[j].rows
    BY <1>1 DEF ChainFits, Grown
  <2>2. \A i \in 1..L + 1 : all[i].rows \subseteq s.rows
    <3> HIDE DEF L
    <3> TAKE i \in 1..L + 1
    <3>1. CASE i = L + 1
      BY <1>7, <1>8, <3>1
    <3>2. CASE i # L + 1
      <4>1. i \in 1..L
        BY <1>6, <3>2
      <4> QED
        BY <1>8, <2>1, <4>1
    <3> QED
      BY <3>1, <3>2
  <2>3. ASSUME NEW i \in 1..L + 1, NEW j \in 1..L + 1, i <= j
        PROVE  all[i].rows \subseteq all[j].rows
    <3>1. CASE j = L + 1
      BY <1>7, <1>8, <2>2, <3>1
    <3>2. CASE j # L + 1
      <4>1. i \in 1..L /\ j \in 1..L
        BY <1>6, <2>3, <3>2
      <4> QED
        BY <1>8, <2>1, <2>3, <4>1
    <3> QED
      BY <3>1, <3>2
  <2> QED
    BY <1>8, <1>17, <2>2, <2>3 DEF Grown
<1>20. /\ s.prev = (IF L = 1 THEN 0 ELSE s.base + L)
       /\ L = 1 => s.history = <<>>
       /\ L # 1 => Len(s.history) = s.base + L
       /\ \A n \in 1..Len(s.history) : n <= s.base + 1 => s.history[n] = None
       /\ \A i \in 2..L : Tells(s, i, s.history[s.base + i])
  BY <1>1, <1>6, Zenon DEF ChainFits, Remembered
<1>21. ASSUME NEW n \in 1..num, n <= s.base + 1 PROVE told[n] = None
  <2>1. n # num
    BY <1>6, <1>11, <1>21
  <2>2. n \in DOMAIN s.history => s.history[n] = None
    BY <1>6, <1>20, <1>21
  <2> QED
    BY <1>15, <2>1, <2>2
<1>22. ASSUME NEW i \in 2..L + 1 PROVE Tells(f, i, told[s.base + i])
  <2>1. CASE i = L + 1
    <3>1. told[s.base + i] = message /\ s.base + i = num /\ i - 1 = L
      BY <1>6, <1>11, <1>15, <2>1
    <3>2. all[i] = b
      BY <1>8, <2>1
    <3>3. message.prev = (IF i = 2 THEN 0 ELSE s.base + i - 1)
      <4>1. L = 1 => s.prev = 0 /\ i = 2
        BY <1>20, <2>1
      <4>2. L # 1 => s.prev = s.base + L /\ i # 2
        <5>1. L \in Nat
          BY <1>6
        <5> HIDE DEF L
        <5>2. L # 1 => i # 2
          BY <2>1, <5>1
        <5> QED
          BY <1>20, <5>2, Zenon
      <4>3. s.base + i - 1 = s.base + L
        BY <1>6, <2>1
      <4> QED
        BY <1>12, <4>1, <4>2, <4>3, Zenon
    <3>4. s.prev = 0 <=> i = 2
      <4>1. L = 1 => s.prev = 0 /\ i = 2
        BY <1>20, <2>1
      <4>2. L # 1 => s.prev = s.base + L /\ i # 2
        <5>1. L \in Nat
          BY <1>6
        <5> HIDE DEF L
        <5>2. L # 1 => i # 2
          BY <2>1, <5>1
        <5> QED
          BY <1>20, <5>2, Zenon
      <4>3. s.base + L # 0
        BY <1>6
      <4> QED
        BY <4>1, <4>2, <4>3, Zenon
    <3>5. message.deltas = (IF i = 2 THEN all[i].rows ELSE all[i].rows \ all[i - 1].rows)
      BY <1>7, <1>12, <1>13, <3>1, <3>2, <3>4, Zenon
    <3>6. message.this = s.base + i /\ message.traces = all[i].txs
      BY <1>12, <3>1, <3>2, Zenon
    <3> QED
      BY <1>14, <1>17, <3>1, <3>3, <3>5, <3>6, Zenon DEF Tells
  <2>2. CASE i # L + 1
    <3>1. i \in 2..L /\ i \in 1..L /\ i - 1 \in 1..L /\ s.base + i \in 1..num /\ s.base + i # num
          /\ L # 1
      <4>1. i \in Nat /\ i >= 2 /\ i <= L
        BY <1>6, <2>2
      <4>2. s.base \in Nat /\ L \in Nat /\ num = s.base + L + 1
        BY <1>6, <1>11
      <4> HIDE DEF L
      <4> QED
        BY <4>1, <4>2
    <3>2. s.base + i \in DOMAIN s.history
      BY <1>6, <1>20, <3>1
    <3>3. told[s.base + i] = s.history[s.base + i]
      BY <1>15, <3>1, <3>2
    <3>4. Tells(s, i, told[s.base + i])
      BY <1>20, <3>1, <3>3
    <3>5. all[i] = s.blocks[i] /\ all[i - 1] = s.blocks[i - 1]
      BY <1>8, <3>1
    <3> QED
      BY <1>17, <3>4, <3>5, Zenon DEF Tells
  <2> QED
    BY <2>1, <2>2
<1>23. Remembered(f)
  <2>1. Len(f.blocks) # 1 /\ Len(f.blocks) = L + 1
    BY <1>6, <1>8, <1>17
  <2>2. f.prev = HeadNum(f) /\ Len(f.history) = HeadNum(f) /\ Len(f.history) = num
    BY <1>15, <1>17, <1>18
  <2>3. \A n \in 1..Len(f.history) : n <= f.base + 1 => f.history[n] = None
    BY <1>17, <1>21, <2>2
  <2>4. \A i \in 2..Len(f.blocks) : Tells(f, i, f.history[f.base + i])
    BY <1>17, <1>22, <2>1
  <2> QED
    BY <2>1, <2>2, <2>3, <2>4, Zenon DEF Remembered
<1>24. ~Building(f) /\ ContextIsFresh(f)
  BY <1>17, Zenon DEF Building, ContextIsFresh
<1>25. Len(f.blocks) >= 1 /\ Even(HeadBlock(f).time) /\ HeadBlock(f).time = s.pending.time
  <2>1. Len(f.blocks) >= 1
    BY <1>6, <1>8, <1>17
  <2>2. HeadBlock(f).time = s.pending.time
    BY <1>7, <1>18
  <2> QED
    BY <1>6, <2>1, <2>2
<1>26. ChainFits(f)
  BY <1>17, <1>19, <1>23, <1>24, <1>25, Zenon DEF ChainFits
<1> QED
  BY <1>1, <1>17, <1>24, <1>25, <1>26, Zenon DEF f, s


LEMMA StartsBlock ==
  ASSUME NEW c, ChainFits(c), NEW skip \in Nat
  PROVE  /\ ChainFits(start_block(c, skip)) /\ Building(start_block(c, skip))
         /\ start_block(c, skip).rows = c.rows /\ start_block(c, skip).control = c.control
         /\ HeadBlock(start_block(c, skip)).time
              = (IF Building(c) THEN c.pending.time ELSE HeadBlock(c).time)
         /\ start_block(c, skip).pending.time
              = Slot(HeadBlock(start_block(c, skip)).time + skip + block_interval)
<1> DEFINE m == mutating(c)
           f == IF Building(m) THEN finish_block(m) ELSE m
           when == HeadBlock(f).time + skip + block_interval
           d == ControlStart(f, when)
<1>1. start_block(c, skip) = d
  BY Zenon DEF start_block
<1>2. /\ ChainFits(m) /\ SameBlocks(m, c) /\ m.ctx = None /\ m.pending = c.pending
      /\ m.rows = c.rows /\ m.control = c.control
  BY MutatingFits
<1>3. HeadBlock(m) = HeadBlock(c) /\ (Building(m) <=> Building(c))
  BY <1>2, Zenon DEF SameBlocks, HeadBlock, Building
<1>4. /\ ChainFits(f) /\ f.ctx = None /\ f.rows = c.rows /\ f.control = c.control
      /\ HeadBlock(f).time = (IF Building(c) THEN c.pending.time ELSE HeadBlock(c).time)
  <2> HIDE DEF m
  <2>1. CASE Building(m)
    <3>1. f = finish_block(m)
      BY <2>1, Zenon
    <3>2. start_if_needed(m).pending = m.pending
      BY <1>2, <2>1, Starts
    <3> HIDE DEF f
    <3>3. /\ ChainFits(f) /\ f.ctx = None /\ HeadBlock(f).time = start_if_needed(m).pending.time
          /\ f.rows = m.rows /\ f.control = m.control
      BY <1>2, <3>1, Finishes
    <3> QED
      BY <1>2, <1>3, <2>1, <3>2, <3>3, Zenon
  <2>2. CASE ~Building(m)
    <3>1. f = m
      BY <2>2, Zenon
    <3> HIDE DEF f
    <3> QED
      BY <1>2, <1>3, <2>2, <3>1, Zenon
  <2> QED
    BY <2>1, <2>2
<1> HIDE DEF f
<1>5. when \in Nat
  <2>1. HeadBlock(f).time \in Nat
    BY <1>4, HeadIs
  <2> QED
    BY <2>1 DEF block_interval
<1> HIDE DEF when
<1>6. /\ ChainFits(d) /\ SameBlocks(d, f) /\ Building(d) /\ d.pending.time = Slot(when)
      /\ d.rows = f.rows /\ d.control = f.control
  BY <1>4, <1>5, ControlStartFits
<1> HIDE DEF d
<1>7. HeadBlock(d) = HeadBlock(f)
  BY <1>6, Zenon DEF SameBlocks, HeadBlock
<1> QED
  BY <1>1, <1>4, <1>6, <1>7, Zenon DEF when

LEMMA StartsBlocks ==
  ASSUME NEW c, ChainFits(c), NEW skip \in Nat
  PROVE  /\ ChainFits(StartBlocks(c, skip)) /\ Building(StartBlocks(c, skip))
         /\ BlockIsRecent(StartBlocks(c, skip))
         /\ StartBlocks(c, skip).rows = c.rows /\ StartBlocks(c, skip).control = c.control
         /\ ~Building(c) => StartBlocks(c, skip).pending.time
                              = Slot(HeadBlock(c).time + skip + block_interval)
<1> DEFINE d == StartBlocks(c, skip)
<1>1. CASE skip >= block_interval
  <2> DEFINE less == skip - block_interval
             e == start_block(c, less)
             none == 0
  <2>1. d = start_block(e, none)
    BY <1>1, Zenon DEF StartBlocks
  <2>2. less \in Nat /\ skip = less + block_interval /\ none \in Nat
    BY <1>1 DEF block_interval
  <2> HIDE DEF less, none
  <2>3. /\ ChainFits(e) /\ Building(e) /\ e.rows = c.rows /\ e.control = c.control
        /\ HeadBlock(e).time = (IF Building(c) THEN c.pending.time ELSE HeadBlock(c).time)
        /\ e.pending.time = Slot(HeadBlock(e).time + less + block_interval)
    BY <2>2, StartsBlock
  <2> HIDE DEF e, d
  <2>4. /\ ChainFits(d) /\ Building(d) /\ d.rows = e.rows /\ d.control = e.control
        /\ HeadBlock(d).time = e.pending.time
        /\ d.pending.time = Slot(HeadBlock(d).time + none + block_interval)
    BY <2>1, <2>2, <2>3, StartsBlock
  <2> DEFINE p == e.pending.time
             h == HeadBlock(e).time
  <2>5. p \in Nat /\ Even(p) /\ h \in Nat /\ Even(h)
    BY <2>3, HeadIs
  <2>6. d.pending.time = Slot(p + none + block_interval) /\ p = Slot(h + less + block_interval)
    BY <2>3, <2>4
  <2> HIDE DEF p, h, d
  <2>7. Slot(p + block_interval) = p + block_interval
    <3>1. block_interval \in Nat
      BY DEF block_interval
    <3> QED
      BY <2>5, <3>1, SlotIs
  <2>8. p + none + block_interval = p + block_interval
    BY <2>5 DEF block_interval, none
  <2>9. BlockIsRecent(d)
    BY <2>4, <2>6, <2>7, <2>8 DEF BlockIsRecent, p
  <2>10. Slot(h + skip + block_interval) = p + block_interval
    BY <2>2, <2>5, <2>6 DEF Slot, Even, block_interval
  <2>11. ~Building(c) => d.pending.time = Slot(HeadBlock(c).time + skip + block_interval)
    BY <2>3, <2>6, <2>7, <2>8, <2>10, Zenon DEF h
  <2> QED
    BY <2>3, <2>4, <2>9, <2>11, Zenon DEF d
<1>2. CASE ~(skip >= block_interval)
  <2>1. d = start_block(c, skip)
    BY <1>2, Zenon DEF StartBlocks
  <2> HIDE DEF d
  <2>2. /\ ChainFits(d) /\ Building(d) /\ d.rows = c.rows /\ d.control = c.control
        /\ HeadBlock(d).time = (IF Building(c) THEN c.pending.time ELSE HeadBlock(c).time)
        /\ d.pending.time = Slot(HeadBlock(d).time + skip + block_interval)
    BY <2>1, StartsBlock
  <2> DEFINE h == HeadBlock(d).time
  <2>3. h \in Nat /\ Even(h)
    BY <2>2, HeadIs
  <2>4. d.pending.time = Slot(h + skip + block_interval)
    BY <2>2
  <2> HIDE DEF h
  <2>5. Slot(h + skip + block_interval) = h + block_interval
    BY <1>2, <2>3 DEF Slot, Even, block_interval
  <2>6. BlockIsRecent(d)
    BY <2>4, <2>5, Zenon DEF BlockIsRecent, h
  <2>7. ~Building(c) => d.pending.time = Slot(HeadBlock(c).time + skip + block_interval)
    BY <2>2, Zenon
  <2> QED
    BY <2>2, <2>6, <2>7, Zenon DEF d
<1> QED
  BY <1>1, <1>2, Zenon


(* A transaction leaves the blocks alone, and the tables gain it or stay.  *)
LEMMA Executes ==
  ASSUME NEW c, ChainFits(c), Building(c), c.ctx = None, NEW way
  PROVE  /\ ChainFits(Execute(c, way)) /\ SameBlocks(Execute(c, way), c)
         /\ Building(Execute(c, way)) /\ Execute(c, way).ctx = None
         /\ Execute(c, way).pending.time = c.pending.time
         /\ c.rows \subseteq Execute(c, way).rows /\ Execute(c, way).control = c.control
         /\ c.sent \in Nat /\ Execute(c, way).sent = c.sent + 1
<1> DEFINE x == Execute(c, way)
           sent == c.sent + 1
           a == [c EXCEPT !.sent = sent]
           p == [c.pending EXCEPT !.txs = Append(c.pending.txs, c.sent)]
           b == [a EXCEPT !.pending = p]
           rows == c.rows \cup {c.sent}
           d == [b EXCEPT !.rows = rows]
           deferred == IF way = "defers" THEN Append(c.deferred, c.pending.time + Delay) ELSE c.deferred
<1>1. /\ c \in Chain /\ c.sent \in Nat /\ sent \in Nat /\ c.pending \in Pending
      /\ c.pending.time \in Nat /\ Even(c.pending.time)
      /\ rows \in SUBSET Nat /\ c.deferred \in Seq(Nat) /\ c.rows \subseteq rows
  <2>1. c \in Chain /\ c.pending \in Pending /\ c.pending.time \in Nat /\ Even(c.pending.time)
    BY HeadIs
  <2>2. c.sent \in Nat /\ c.rows \in SUBSET Nat /\ c.deferred \in Seq(Nat)
    BY <2>1 DEF Chain
  <2> QED
    BY <2>1, <2>2
<1>2. p \in Pending /\ p.time = c.pending.time /\ p \in Pending \cup {None} /\ p # None
  <2>1. c.pending.txs \in Seq(Nat)
    BY <1>1 DEF Pending
  <2>2. Append(c.pending.txs, c.sent) \in Seq(Nat)
    BY <1>1, <2>1
  <2> DEFINE txs == Append(c.pending.txs, c.sent)
  <2> HIDE DEF txs
  <2>a. c.pending = [time |-> c.pending.time, txs |-> c.pending.txs]
    BY <1>1 DEF Pending
  <2>b. p = [c.pending EXCEPT !.txs = txs]
    BY DEF txs
  <2>3. p = [time |-> c.pending.time, txs |-> txs]
    <3> HIDE DEF p
    <3> QED
      BY <2>a, <2>b
  <2> HIDE DEF p
  <2>4. p \in Pending /\ p.time = c.pending.time
    BY <1>1, <2>2, <2>3 DEF Pending, txs
  <2> QED
    BY <2>4, NoChainAssumption
<1>3. deferred \in Seq(Nat)
  <2>1. c.pending.time + Delay \in Nat
    BY <1>1 DEF Delay
  <2> QED
    BY <1>1, <2>1
<1>4. CASE way = "throws"
  <2>1. x = a
    BY <1>4, Zenon DEF Execute
  <2> HIDE DEF sent, a
  <2>2. /\ a \in Chain /\ a.blocks = c.blocks /\ a.base = c.base /\ a.prev = c.prev
        /\ a.history = c.history /\ a.pending = c.pending /\ a.rows = c.rows
        /\ a.control = c.control /\ a.ctx = c.ctx /\ a.sent = sent
    BY <1>1, WithSent DEF a
  <2>3. SameBlocks(a, c) /\ Building(a) /\ ContextIsFresh(a) /\ Even(a.pending.time)
        /\ c.rows \subseteq a.rows
    BY <1>1, <2>2 DEF SameBlocks, Building, ContextIsFresh
  <2>4. ChainFits(a)
    BY <2>2, <2>3, StaysFit
  <2> QED
    BY <1>1, <2>1, <2>2, <2>3, <2>4 DEF sent
<1>5. CASE way # "throws"
  <2>1. x = [c EXCEPT !.sent = sent, !.pending.txs = Append(@, c.sent), !.rows = rows,
                      !.deferred = deferred]
    BY <1>5, Zenon DEF Execute
  <2>2. [c EXCEPT !.sent = sent, !.pending.txs = Append(@, c.sent), !.rows = rows,
                  !.deferred = deferred]
          = [[[a EXCEPT !.pending = [a.pending EXCEPT !.txs = Append(@, c.sent)]]
                EXCEPT !.rows = rows] EXCEPT !.deferred = deferred]
    BY Zenon
  <2> HIDE DEF sent, a, rows, deferred
  <2>3. /\ a \in Chain /\ a.blocks = c.blocks /\ a.base = c.base /\ a.prev = c.prev
        /\ a.history = c.history /\ a.pending = c.pending
        /\ a.control = c.control /\ a.ctx = c.ctx /\ a.sent = sent
    BY <1>1, WithSent DEF a
  <2>4. [a.pending EXCEPT !.txs = Append(@, c.sent)] = p
    BY <2>3, Zenon
  <2>5. x = [d EXCEPT !.deferred = deferred]
    BY <2>1, <2>2, <2>4, Zenon
  <2> HIDE DEF p, x
  <2>6. /\ b \in Chain /\ b.blocks = c.blocks /\ b.base = c.base /\ b.prev = c.prev
        /\ b.history = c.history /\ b.pending = p
        /\ b.control = c.control /\ b.ctx = c.ctx /\ b.sent = sent
    BY <1>2, <2>3, WithPending
  <2> HIDE DEF b
  <2>7. /\ d \in Chain /\ d.blocks = c.blocks /\ d.base = c.base /\ d.prev = c.prev
        /\ d.history = c.history /\ d.pending = p /\ d.rows = rows
        /\ d.control = c.control /\ d.ctx = c.ctx /\ d.sent = sent
    BY <1>1, <2>6, WithRows
  <2> HIDE DEF d
  <2>8. /\ x \in Chain /\ x.blocks = c.blocks /\ x.base = c.base /\ x.prev = c.prev
        /\ x.history = c.history /\ x.pending = p /\ x.rows = rows
        /\ x.control = c.control /\ x.ctx = c.ctx /\ x.sent = sent
    BY <1>3, <2>5, <2>7, WithDeferred
  <2>9. SameBlocks(x, c) /\ Building(x) /\ ContextIsFresh(x) /\ Even(x.pending.time)
        /\ c.rows \subseteq x.rows /\ x.pending.time = c.pending.time
    BY <1>1, <1>2, <2>8 DEF SameBlocks, Building, ContextIsFresh
  <2>10. ChainFits(x)
    BY <2>8, <2>9, StaysFit
  <2> QED
    BY <1>1, <2>8, <2>9, <2>10 DEF sent, x
<1> QED
  BY <1>4, <1>5

(* What an operation leaves of a chain: blocks, and transactions.          *)
Continues(d, c) ==
  /\ ChainFits(d) /\ HeadInfo(d) = HeadInfo(c) /\ BlockIsRecent(d)
  /\ Building(c) => Building(d) /\ d.pending.time = c.pending.time
  /\ c.rows \subseteq d.rows /\ d.control = c.control

LEMMA SameHeadInfo ==
  ASSUME NEW c, NEW d, SameBlocks(d, c)
  PROVE  HeadInfo(d) = HeadInfo(c) /\ HeadBlock(d) = HeadBlock(c)
BY Zenon DEF SameBlocks, HeadInfo, HeadNum, HeadBlock

LEMMA ContextContinues ==
  ASSUME NEW c, ChainFits(c), BlockIsRecent(c)
  PROVE  Continues(get_apply_context(c), c)
<1>1. CASE c.ctx # None
  <2>1. get_apply_context(c) = c
    BY <1>1, Zenon DEF get_apply_context
  <2> QED
    BY <2>1 DEF Continues
<1>2. CASE c.ctx = None
  <2> DEFINE s == start_if_needed(c)
             g == [s EXCEPT !.ctx = s.rows]
  <2>1. get_apply_context(c) = g
    BY <1>2, Zenon DEF get_apply_context
  <2>2. /\ ChainFits(s) /\ SameBlocks(s, c) /\ Building(s) /\ BlockIsRecent(s)
        /\ Building(c) => s.pending = c.pending
        /\ s.rows = c.rows /\ s.control = c.control
    BY Starts
  <2> HIDE DEF s
  <2>3. s \in Chain /\ s.rows \in SUBSET Nat /\ s.rows \in (SUBSET Nat) \cup {None}
        /\ Even(s.pending.time)
    <3>1. s \in Chain /\ Even(s.pending.time)
      BY <2>2, HeadIs
    <3>2. s.rows \in SUBSET Nat
      BY <3>1 DEF Chain
    <3> QED
      BY <3>1, <3>2
  <2>4. /\ g \in Chain /\ g.blocks = s.blocks /\ g.base = s.base /\ g.prev = s.prev
        /\ g.history = s.history /\ g.pending = s.pending /\ g.rows = s.rows
        /\ g.control = s.control /\ g.ctx = s.rows
    BY <2>3, WithCtx
  <2> HIDE DEF g
  <2>5. SameBlocks(g, s) /\ Building(g) /\ ContextIsFresh(g) /\ Even(g.pending.time)
        /\ s.rows \subseteq g.rows
    BY <2>2, <2>3, <2>4 DEF SameBlocks, Building, ContextIsFresh
  <2>6. ChainFits(g)
    BY <2>2, <2>4, <2>5, StaysFit
  <2>7. HeadInfo(g) = HeadInfo(c) /\ HeadBlock(g) = HeadBlock(s)
    BY <2>2, <2>5, SameHeadInfo
  <2>8. BlockIsRecent(g)
    BY <2>2, <2>4, <2>5, <2>7, Zenon DEF BlockIsRecent
  <2>9. c.rows \subseteq g.rows
    BY <2>2, <2>4
  <2> QED
    BY <2>1, <2>2, <2>4, <2>5, <2>6, <2>7, <2>8, <2>9, Zenon DEF Continues
<1> QED
  BY <1>1, <1>2

LEMMA ExecutionContinues ==
  ASSUME NEW c, ChainFits(c), BlockIsRecent(c), NEW s, ChainFits(s), BlockIsRecent(s), Building(s),
         s.ctx = None, SameBlocks(s, c), Building(c) => s.pending = c.pending,
         s.rows = c.rows, s.control = c.control, NEW way
  PROVE  Continues(Execute(s, way), c) /\ Continues(s, c)
<1> DEFINE x == Execute(s, way)
<1>1. /\ ChainFits(x) /\ SameBlocks(x, s) /\ Building(x)
      /\ x.pending.time = s.pending.time /\ s.rows \subseteq x.rows /\ x.control = s.control
  BY Executes
<1> HIDE DEF x
<1>2. HeadInfo(x) = HeadInfo(s) /\ HeadInfo(s) = HeadInfo(c) /\ HeadBlock(x) = HeadBlock(s)
  BY <1>1, SameHeadInfo
<1>3. BlockIsRecent(x)
  BY <1>1, <1>2, Zenon DEF BlockIsRecent
<1>4. c.rows \subseteq x.rows /\ c.rows \subseteq s.rows
  BY <1>1
<1>5. Building(c) => x.pending.time = c.pending.time
  BY <1>1
<1> QED
  BY <1>1, <1>2, <1>3, <1>4, <1>5, Zenon DEF Continues, x

LEMMA PushContinues ==
  ASSUME NEW c, ChainFits(c), BlockIsRecent(c), NEW way
  PROVE  /\ Continues(push_transaction(c, way), c)
         /\ push_transaction(c, way).sent - 1 \in Nat
<1> DEFINE s == start_if_needed(c)
<1>1. /\ ChainFits(s) /\ SameBlocks(s, c) /\ Building(s) /\ BlockIsRecent(s) /\ s.ctx = None
      /\ Building(c) => s.pending = c.pending
      /\ s.rows = c.rows /\ s.control = c.control
  BY Starts
<1>2. push_transaction(c, way) = Execute(s, way)
  BY Zenon DEF push_transaction
<1> HIDE DEF s
<1>3. Continues(Execute(s, way), c)
  BY <1>1, ExecutionContinues
<1>4. s.sent \in Nat /\ Execute(s, way).sent = s.sent + 1
  BY <1>1, Executes
<1> QED
  BY <1>2, <1>3, <1>4

LEMMA DeferredContinues ==
  ASSUME NEW c, ChainFits(c), BlockIsRecent(c)
  PROVE  Continues(exec_deferred(c), c)
<1> DEFINE s == start_if_needed(c)
           q == [s EXCEPT !.deferred = Tail(s.deferred)]
<1>1. /\ ChainFits(s) /\ SameBlocks(s, c) /\ Building(s) /\ BlockIsRecent(s) /\ s.ctx = None
      /\ Building(c) => s.pending = c.pending
      /\ s.rows = c.rows /\ s.control = c.control
  BY Starts
<1>2. exec_deferred(c) = IF s.deferred # <<>> /\ s.deferred[1] <= s.pending.time
                         THEN Execute(q, "executes") ELSE s
  BY Zenon DEF exec_deferred
<1> HIDE DEF s
<1>3. Continues(s, c)
  BY <1>1, ExecutionContinues
<1>4. ASSUME s.deferred # <<>> PROVE Continues(Execute(q, "executes"), c)
  <2>1. s \in Chain /\ Even(s.pending.time)
    BY <1>1, HeadIs
  <2>2. Tail(s.deferred) \in Seq(Nat)
    <3>1. s.deferred \in Seq(Nat)
      BY <2>1 DEF Chain
    <3> QED
      BY <1>4, <3>1
  <2>3. /\ q \in Chain /\ q.blocks = s.blocks /\ q.base = s.base /\ q.prev = s.prev
        /\ q.history = s.history /\ q.pending = s.pending /\ q.rows = s.rows
        /\ q.control = s.control /\ q.ctx = s.ctx
    BY <2>1, <2>2, WithDeferred
  <2> HIDE DEF q
  <2>4. SameBlocks(q, s) /\ SameBlocks(q, c) /\ Building(q) /\ ContextIsFresh(q)
        /\ Even(q.pending.time) /\ s.rows \subseteq q.rows
    BY <1>1, <2>1, <2>3 DEF SameBlocks, Building, ContextIsFresh
  <2>5. ChainFits(q)
    BY <1>1, <2>3, <2>4, StaysFit
  <2>6. HeadBlock(q) = HeadBlock(s)
    BY <2>4, SameHeadInfo
  <2>7. BlockIsRecent(q)
    BY <1>1, <2>3, <2>6, Zenon DEF BlockIsRecent, Building
  <2>8. q.ctx = None /\ (Building(c) => q.pending = c.pending) /\ q.rows = c.rows /\ q.control = c.control
    BY <1>1, <2>3
  <2> QED
    BY <2>4, <2>5, <2>7, <2>8, ExecutionContinues
<1> QED
  BY <1>2, <1>3, <1>4


(* What was told of the blocks of a chain that fits is all there was.      *)
LEMMA FitsIsWhole ==
  ASSUME NEW c, ChainFits(c)
  PROVE  HistoryIsWhole(c)
<1> DEFINE L == Len(c.blocks)
           begin == c.base + 2
           H == c.history
<1>1. /\ L \in Nat \ {0} /\ c.base \in Nat /\ HeadNum(c) = c.base + L /\ c \in Chain
  BY HeadIs
<1>2. H \in Seq(Message \cup {None}) /\ Len(H) \in Nat
  BY <1>1 DEF Chain
<1>3. /\ L = 1 => H = <<>> /\ Len(H) = 0
      /\ L # 1 => Len(H) = c.base + L
      /\ \A n \in 1..Len(H) : n <= c.base + 1 => H[n] = None
      /\ \A i \in 2..L : Tells(c, i, H[c.base + i])
  <2>1. /\ L = 1 => H = <<>>
        /\ L # 1 => Len(H) = HeadNum(c)
        /\ \A n \in 1..Len(H) : n <= c.base + 1 => H[n] = None
        /\ \A i \in 2..L : Tells(c, i, H[c.base + i])
    BY Zenon DEF ChainFits, Remembered
  <2>2. L = 1 => Len(H) = 0
    BY <2>1
  <2> QED
    BY <1>1, <2>1, <2>2, Zenon
<1>4. Grown(c)
  BY DEF ChainFits
<1>5. HeadNum(c) = c.base + L
  BY <1>1
<1> HIDE DEF L, H
<1>6. ASSUME NEW i \in 2..L
      PROVE  /\ c.base + i \in 1..Len(H) /\ H[c.base + i] # None /\ Tells(c, i, H[c.base + i])
             /\ L # 1
  <2>1. L # 1 /\ c.base + i \in 1..Len(H)
    BY <1>1, <1>3
  <2>2. Tells(c, i, H[c.base + i])
    BY <1>3
  <2>3. H[c.base + i] \in Message
    BY <2>2 DEF Tells
  <2> QED
    BY <2>1, <2>2, <2>3, NoChainAssumption
<1>7. ASSUME NEW n \in begin..HeadNum(c)
      PROVE  /\ n - c.base \in 2..L /\ c.base + (n - c.base) = n /\ n \in Nat /\ n # LastBlock
             /\ n \in DOMAIN H /\ H[n] # None /\ Tells(c, n - c.base, H[n])
  <2>1. n - c.base \in 2..L /\ c.base + (n - c.base) = n /\ n \in Nat /\ n # LastBlock
    BY <1>1, <1>5 DEF LastBlock
  <2>2. /\ c.base + (n - c.base) \in 1..Len(H) /\ H[c.base + (n - c.base)] # None
        /\ Tells(c, n - c.base, H[c.base + (n - c.base)])
    BY <1>6, <2>1
  <2>3. DOMAIN H = 1..Len(H)
    BY <1>2
  <2> QED
    BY <2>1, <2>2, <2>3, Zenon
<1>8. {n \in DOMAIN H : H[n] # None} = begin..HeadNum(c)
  <2>1. ASSUME NEW n \in DOMAIN H, H[n] # None PROVE n \in begin..HeadNum(c)
    <3>1. n \in 1..Len(H) /\ ~(n <= c.base + 1)
      BY <1>2, <1>3, <2>1
    <3>2. L # 1
      BY <1>3, <3>1
    <3> QED
      BY <1>1, <1>3, <1>5, <3>1, <3>2
  <2> QED
    BY <1>7, <2>1
<1>9. ASSUME NEW n \in begin..HeadNum(c)
      PROVE  /\ get_history(c, n) = H[n]
             /\ H[n].this = n /\ H[n].prev = (IF n = begin THEN 0 ELSE n - 1)
             /\ H[n].traces = c.blocks[n - c.base].txs
             /\ n = begin => H[n].deltas = c.blocks[n - c.base].rows
             /\ n # begin => H[n].deltas = c.blocks[n - c.base].rows \ c.blocks[n - c.base - 1].rows
  <2>1. get_history(c, n) = H[n]
    BY <1>7, Zenon DEF get_history, H
  <2> DEFINE i == n - c.base
  <2>2. c.base + i = n /\ (i = 2 <=> n = begin) /\ i \in 2..L
    BY <1>1, <1>7
  <2>3. Tells(c, i, H[n])
    BY <1>7
  <2> HIDE DEF i
  <2>4. /\ H[n].this = c.base + i
        /\ H[n].prev = (IF i = 2 THEN 0 ELSE c.base + i - 1)
        /\ H[n].traces = c.blocks[i].txs
        /\ H[n].deltas = (IF i = 2 THEN c.blocks[i].rows ELSE c.blocks[i].rows \ c.blocks[i - 1].rows)
    BY <2>3, Zenon DEF Tells
  <2>5. c.base + i - 1 = n - 1
    BY <1>1, <2>2
  <2> QED
    BY <2>1, <2>2, <2>4, <2>5, Zenon DEF i
<1> DEFINE Up(k) == UNION {H[m].deltas : m \in begin..begin + k}
           S == {k \in Nat : k + 2 <= L => Up(k) = c.blocks[k + 2].rows}
<1>10. 0 \in S
  <2> SUFFICES ASSUME 2 <= L PROVE Up(0) = c.blocks[2].rows
    OBVIOUS
  <2>1. begin \in begin..HeadNum(c) /\ begin - c.base = 2 /\ begin..begin + 0 = {begin}
    BY <1>1, <1>5
  <2>2. H[begin].deltas = c.blocks[2].rows
    BY <1>9, <2>1
  <2> HIDE DEF begin
  <2> QED
    BY <2>1, <2>2
<1>11. ASSUME NEW k \in Nat, k \in S PROVE k + 1 \in S
  <2> SUFFICES ASSUME k + 3 <= L PROVE Up(k + 1) = c.blocks[k + 3].rows
    BY <1>1
  <2>1. Up(k) = c.blocks[k + 2].rows
    BY <1>1, <1>11
  <2> DEFINE n == begin + (k + 1)
  <2>2. /\ n \in begin..HeadNum(c) /\ n - c.base = k + 3 /\ n - c.base - 1 = k + 2 /\ n # begin
        /\ begin..n = (begin..begin + k) \cup {n}
    BY <1>1, <1>5
  <2>3. H[n].deltas = c.blocks[k + 3].rows \ c.blocks[k + 2].rows
    BY <1>9, <2>2
  <2>4. Up(k + 1) = Up(k) \cup H[n].deltas
    <3> HIDE DEF n, begin
    <3>1. Up(k + 1) = UNION {H[m].deltas : m \in begin..n}
      BY DEF n
    <3> QED
      BY <2>2, <3>1
  <2>5. c.blocks[k + 2].rows \subseteq c.blocks[k + 3].rows
    <3>1. k + 2 \in 1..L /\ k + 3 \in 1..L /\ k + 2 <= k + 3
      BY <1>1
    <3> QED
      BY <1>4, <3>1 DEF Grown, L
  <2> HIDE DEF Up, n
  <2> QED
    BY <2>1, <2>3, <2>4, <2>5
<1>12. \A k \in Nat : k \in S
  <2> HIDE DEF S
  <2> QED
    BY <1>10, <1>11, NatInductionOnSet
<1>13. ASSUME NEW n \in begin..HeadNum(c)
       PROVE  UNION {H[m].deltas : m \in begin..n} = c.blocks[n - c.base].rows
  <2> DEFINE k == n - begin
  <2>1. k \in Nat /\ k + 2 <= L /\ begin + k = n /\ k + 2 = n - c.base
    BY <1>1, <1>5
  <2> HIDE DEF k, begin
  <2>2. Up(k) = c.blocks[k + 2].rows
    BY <1>12, <2>1
  <2> QED
    BY <2>1, <2>2
<1>14. get_history(c, LastBlock) = get_history(c, HeadNum(c))
  <2>1. HeadNum(c) # LastBlock
    BY <1>1 DEF LastBlock
  <2>2. get_history(c, LastBlock) = IF Len(H) \in DOMAIN H THEN H[Len(H)] ELSE None
    BY Zenon DEF get_history, H
  <2>3. get_history(c, HeadNum(c)) = IF HeadNum(c) \in DOMAIN H THEN H[HeadNum(c)] ELSE None
    BY <2>1, Zenon DEF get_history, H
  <2>4. CASE L = 1
    <3>1. DOMAIN H = {}
      BY <1>3, <2>4
    <3> QED
      BY <2>2, <2>3, <3>1, Zenon
  <2>5. CASE L # 1
    <3>1. Len(H) = HeadNum(c)
      BY <1>3, <1>5, <2>5
    <3> DEFINE num == HeadNum(c)
               x == get_history(c, LastBlock)
               y == get_history(c, HeadNum(c))
    <3>2. /\ x = IF Len(H) \in DOMAIN H THEN H[Len(H)] ELSE None
          /\ y = IF num \in DOMAIN H THEN H[num] ELSE None
          /\ Len(H) = num
      BY <2>2, <2>3, <3>1, Zenon
    <3> HIDE DEF num, x, y
    <3>3. x = y
      BY <3>2
    <3> QED
      BY <3>3 DEF x, y
  <2> QED
    BY <2>4, <2>5
<1> QED
  BY <1>8, <1>9, <1>13, <1>14, Zenon DEF HistoryIsWhole, H


(* A file of blocks up to the latest one, where T has the traces of each: in *)
(* order, every block in a place of its own.                               *)
Entry == [block : Nat, trace : Int]

IsPlaceOf(p, f, T, n) ==
  /\ p \in 0..Len(f) /\ p + Len(T[n]) <= Len(f)
  /\ \A i \in 1..Len(f) : f[i].block = n <=> i \in p + 1..p + Len(T[n])
  /\ \A i \in 1..Len(T[n]) : f[p + i].trace = T[n][i]

Holds(f, T, latest) ==
  /\ f \in Seq(Entry)
  /\ \A i \in 1..Len(f) : f[i].block \in 2..latest
  /\ \A i, j \in 1..Len(f) : i < j => f[i].block <= f[j].block
  /\ \A n \in 2..latest : \E p : IsPlaceOf(p, f, T, n)

EntriesOf(n, traces) == [i \in 1..Len(traces) |-> [block |-> n, trace |-> traces[i]]]

LEMMA HoldsNothing ==
  ASSUME NEW T
  PROVE  Holds(<<>>, T, 1)
BY DEF Holds

LEMMA AddsBlock ==
  ASSUME NEW f, NEW T, NEW latest \in Nat \ {0}, Holds(f, T, latest), T[latest + 1] \in Seq(Int)
  PROVE  Holds(f \o EntriesOf(latest + 1, T[latest + 1]), T, latest + 1)
<1> DEFINE m == latest + 1
           t == T[m]
           e == EntriesOf(m, t)
           g == f \o e
           l == Len(f)
<1>1. t \in Seq(Int) /\ Len(t) \in Nat /\ m \in Nat
  OBVIOUS
<1>2. /\ f \in Seq(Entry) /\ l \in Nat
      /\ \A i \in 1..l : f[i].block \in 2..latest
      /\ \A i, j \in 1..l : i < j => f[i].block <= f[j].block
      /\ \A n \in 2..latest : \E p : IsPlaceOf(p, f, T, n)
  BY DEF Holds
<1>3. /\ e \in Seq(Entry) /\ Len(e) = Len(t)
      /\ \A i \in 1..Len(t) : e[i].block = m /\ e[i].trace = t[i]
  <2>1. \A i \in 1..Len(t) : [block |-> m, trace |-> t[i]] \in Entry
    BY <1>1 DEF Entry
  <2> HIDE DEF m, t
  <2>2. e = [i \in 1..Len(t) |-> [block |-> m, trace |-> t[i]]]
    BY Zenon DEF EntriesOf
  <2> QED
    BY <1>1, <2>1, <2>2
<1> HIDE DEF e, m, t
<1>4. /\ g \in Seq(Entry) /\ Len(g) = l + Len(t)
      /\ \A i \in 1..l + Len(t) : g[i] = IF i <= l THEN f[i] ELSE e[i - l]
  <2>1. /\ f \o e \in Seq(Entry) /\ Len(f \o e) = Len(f) + Len(e)
        /\ \A i \in 1..Len(f) + Len(e) :
             (f \o e)[i] = IF i <= Len(f) THEN f[i] ELSE e[i - Len(f)]
    BY <1>2, <1>3, ConcatProperties
  <2> QED
    BY <1>3, <2>1, Zenon
<1> HIDE DEF g, l
<1>5. \A i \in 1..l : i \in 1..Len(g) /\ g[i] = f[i]
  BY <1>1, <1>2, <1>4
<1>6. \A i \in 1..Len(t) : l + i \in 1..Len(g) /\ g[l + i].block = m /\ g[l + i].trace = t[i]
  <2> TAKE i \in 1..Len(t)
  <2>1. l + i \in 1..l + Len(t) /\ ~(l + i <= l) /\ (l + i) - l = i
    BY <1>1, <1>2
  <2>2. g[l + i] = e[i]
    BY <1>4, <2>1
  <2> QED
    BY <1>3, <1>4, <2>1, <2>2, Zenon
<1>7. ASSUME NEW i \in 1..Len(g)
      PROVE  \/ i \in 1..l /\ g[i] = f[i] /\ g[i].block \in 2..latest
             \/ i > l /\ g[i].block = m
  <2>1. CASE i <= l
    <3>1. i \in 1..l
      BY <1>1, <1>2, <1>4, <2>1
    <3> QED
      BY <1>2, <1>5, <3>1
  <2>2. CASE ~(i <= l)
    <3>1. i - l \in 1..Len(t) /\ l + (i - l) = i /\ i > l
      BY <1>1, <1>2, <1>4, <2>2
    <3> QED
      BY <1>6, <3>1
  <2> QED
    BY <2>1, <2>2
<1>8. m \in 2..m /\ m = latest + 1 /\ \A b \in 2..latest : b <= m /\ b # m /\ b \in 2..m
  BY DEF m
<1>9. \A i \in 1..Len(g) : g[i].block \in 2..m
  BY <1>7, <1>8
<1>10. ASSUME NEW i \in 1..Len(g), NEW j \in 1..Len(g), i < j PROVE g[i].block <= g[j].block
  <2>1. CASE j > l /\ g[j].block = m
    <3>1. g[i].block = m \/ g[i].block \in 2..latest
      BY <1>7
    <3> QED
      BY <1>1, <1>8, <2>1, <3>1
  <2>2. CASE j \in 1..l /\ g[j] = f[j]
    <3>1. i \in 1..l /\ g[i] = f[i]
      BY <1>2, <1>5, <1>10, <2>2
    <3> QED
      BY <1>2, <1>10, <2>2, <3>1
  <2> QED
    BY <1>7, <2>1, <2>2
<1>11. ASSUME NEW n \in 2..m PROVE \E p : IsPlaceOf(p, g, T, n)
  <2>1. CASE n = m
    <3>1. \A i \in 1..Len(g) : g[i].block = m <=> i \in l + 1..l + Len(t)
      <4> TAKE i \in 1..Len(g)
      <4>1. CASE i \in 1..l /\ g[i] = f[i] /\ g[i].block \in 2..latest
        BY <1>1, <1>2, <1>8, <4>1
      <4>2. CASE i > l /\ g[i].block = m
        BY <1>1, <1>2, <1>4, <4>2
      <4> QED
        BY <1>7, <4>1, <4>2
    <3>2. \A i \in 1..Len(t) : g[l + i].trace = t[i]
      BY <1>6
    <3>3. l \in 0..Len(g) /\ l + Len(t) <= Len(g) /\ T[m] = t
      BY <1>1, <1>2, <1>4 DEF t
    <3>4. IsPlaceOf(l, g, T, n)
      BY <2>1, <3>1, <3>2, <3>3, Zenon DEF IsPlaceOf
    <3> QED
      BY <3>4
  <2>2. CASE n # m
    <3>1. n \in 2..latest
      BY <2>2 DEF m
    <3>2. PICK p : IsPlaceOf(p, f, T, n)
      BY <1>2, <3>1
    <3> DEFINE k == Len(T[n])
    <3>3. /\ p \in 0..l /\ p + k <= l
          /\ \A i \in 1..l : f[i].block = n <=> i \in p + 1..p + k
          /\ \A i \in 1..k : f[p + i].trace = T[n][i]
      BY <3>2, Zenon DEF IsPlaceOf, l
    <3>4. p \in 0..Len(g) /\ p + k <= Len(g)
      <4>1. l <= Len(g)
        BY <1>1, <1>2, <1>4
      <4> QED
        BY <1>1, <1>2, <1>4, <3>3, <4>1
    <3>5. ASSUME NEW i \in 1..Len(g) PROVE g[i].block = n <=> i \in p + 1..p + k
      <4>1. CASE i \in 1..l /\ g[i] = f[i] /\ g[i].block \in 2..latest
        BY <3>3, <4>1
      <4>2. CASE i > l /\ g[i].block = m
        <5>1. g[i].block # n
          BY <2>2, <4>2
        <5>2. i \notin p + 1..p + k
          BY <1>2, <3>3, <4>2
        <5> QED
          BY <5>1, <5>2
      <4> QED
        BY <1>7, <4>1, <4>2
    <3>6. ASSUME NEW i \in 1..k PROVE g[p + i].trace = T[n][i]
      <4>1. p + i \in 1..l
        BY <1>2, <3>3
      <4> QED
        BY <1>5, <3>3, <4>1
    <3>7. IsPlaceOf(p, g, T, n)
      BY <3>4, <3>5, <3>6, Zenon DEF IsPlaceOf
    <3> QED
      BY <3>7
  <2> QED
    BY <2>1, <2>2
<1>12. Holds(g, T, m)
  BY <1>4, <1>9, <1>10, <1>11, Zenon DEF Holds
<1> QED
  BY <1>12 DEF g, m, e, t


(* The file of blocks is made of the entries of block after block.         *)
Traces(c, n) == IF c.blocks[n].txs = <<>> THEN <<NoTrace>> ELSE c.blocks[n].txs

LEMMA TracesAre ==
  ASSUME NEW c, ChainFits(c), NEW n \in 1..Len(c.blocks)
  PROVE  Traces(c, n) \in Seq(Int) /\ Len(Traces(c, n)) \in Nat \ {0}
<1>1. c.blocks[n] \in Block
  BY HeadIs
<1>2. c.blocks[n].txs \in Seq(Nat)
  BY <1>1 DEF Block
<1>3. CASE c.blocks[n].txs = <<>>
  BY <1>3 DEF Traces, NoTrace
<1>4. CASE c.blocks[n].txs # <<>>
  <2> DEFINE t == c.blocks[n].txs
  <2>1. Traces(c, n) = t
    BY <1>4, Zenon DEF Traces
  <2>2. t \in Seq(Nat) /\ t # <<>>
    BY <1>2, <1>4
  <2> HIDE DEF t
  <2>3. t \in Seq(Int) /\ Len(t) \in Nat \ {0}
    BY <2>2
  <2> QED
    BY <2>1, <2>3, Zenon
<1> QED
  BY <1>3, <1>4

LEMMA TransactionsAre ==
  ASSUME NEW c, ChainFits(c), c.base = 0, NEW n \in 2..Len(c.blocks)
  PROVE  add_transactions(c.history[n]) = EntriesOf(n, Traces(c, n))
<1> DEFINE m == c.history[n]
           t == c.blocks[n].txs
<1>1. c.base + n = n
  OBVIOUS
<1>2. Tells(c, n, m)
  <2>1. Tells(c, n, c.history[c.base + n])
    BY DEF ChainFits, Remembered
  <2> QED
    BY <1>1, <2>1
<1>3. m.this = n /\ m.traces = t
  BY <1>1, <1>2 DEF Tells
<1>4. t \in Seq(Nat)
  <2>1. c.blocks[n] \in Block
    BY HeadIs
  <2> QED
    BY <2>1 DEF Block
<1>5. add_transactions(m) =
        IF m.traces = <<>> THEN <<[block |-> m.this, trace |-> NoTrace]>>
        ELSE [i \in DOMAIN m.traces |-> [block |-> m.this, trace |-> m.traces[i]]]
  BY Zenon DEF add_transactions
<1>6. CASE t = <<>>
  <2> DEFINE none == <<NoTrace>>
  <2>1. Traces(c, n) = none
    BY <1>6, Zenon DEF Traces
  <2>2. Len(none) = 1 /\ none[1] = NoTrace
    OBVIOUS
  <2> DEFINE e == [i \in 1..Len(none) |-> [block |-> n, trace |-> none[i]]]
  <2>3. e = <<[block |-> n, trace |-> NoTrace]>>
    BY <2>2
  <2>4. EntriesOf(n, Traces(c, n)) = e
    BY <2>1, Zenon DEF EntriesOf
  <2>5. add_transactions(m) = <<[block |-> n, trace |-> NoTrace]>>
    <3> HIDE DEF m, t
    <3> QED
      BY <1>3, <1>5, <1>6
  <2> QED
    BY <2>3, <2>4, <2>5, Zenon DEF m
<1>7. CASE t # <<>>
  <2>1. Traces(c, n) = t
    BY <1>7, Zenon DEF Traces
  <2>2. EntriesOf(n, t) = [i \in 1..Len(t) |-> [block |-> n, trace |-> t[i]]]
    BY Zenon DEF EntriesOf
  <2>3. add_transactions(m) = [i \in 1..Len(t) |-> [block |-> n, trace |-> t[i]]]
    <3> HIDE DEF m, t
    <3>1. DOMAIN t = 1..Len(t)
      BY <1>4
    <3> QED
      BY <1>3, <1>5, <1>7, <3>1
  <2> QED
    BY <2>1, <2>2, <2>3, Zenon DEF m
<1> QED
  BY <1>6, <1>7


(* The numbers of the blocks that are written.                             *)
LEMMA WrittenAre ==
  ASSUME NEW c, ChainFits(c), c.base = 0
  PROVE  Cardinality({n \in 2..Len(c.history) : \A m \in 2..n : c.history[m] # None})
           = Len(c.blocks) - 1
<1> DEFINE L == Len(c.blocks)
           H == c.history
           there == {n \in 2..Len(H) : \A m \in 2..n : H[m] # None}
<1>1. /\ L \in Nat \ {0} /\ c \in Chain /\ HeadNum(c) = c.base + L
  BY HeadIs
<1>2. H \in Seq(Message \cup {None}) /\ Len(H) \in Nat
  BY <1>1 DEF Chain
<1>3. /\ L = 1 => H = <<>>
      /\ L # 1 => Len(H) = HeadNum(c)
      /\ \A i \in 2..L : Tells(c, i, H[c.base + i])
  BY Zenon DEF ChainFits, Remembered
<1>4. /\ L = 1 => Len(H) = 0
      /\ L # 1 => Len(H) = L
      /\ \A i \in 2..L : Tells(c, i, H[i])
  <2>1. L = 1 => Len(H) = 0
    BY <1>3
  <2>2. HeadNum(c) = L
    BY <1>1
  <2>3. ASSUME NEW i \in 2..L PROVE Tells(c, i, H[i])
    <3>1. c.base + i = i
      BY <1>1
    <3>2. Tells(c, i, H[c.base + i])
      BY <1>3
    <3> QED
      BY <3>1, <3>2
  <2> QED
    BY <1>3, <2>1, <2>2, <2>3, Zenon
<1> HIDE DEF L, H
<1>5. ASSUME NEW i \in 2..L PROVE H[i] # None
  <2>1. H[i] \in Message
    BY <1>4 DEF Tells
  <2> QED
    BY <2>1, NoChainAssumption
<1>6. there = 2..L
  BY <1>1, <1>2, <1>4, <1>5
<1>7. Cardinality(2..L) = L - 1
  <2>1. 2 \in Int /\ L \in Int
    BY <1>1
  <2>2. Cardinality(2..L) = IF 2 > L THEN 0 ELSE L - 2 + 1
    BY <2>1, FS_Interval, Zenon
  <2> QED
    BY <1>1, <2>2
<1> QED
  BY <1>6, <1>7 DEF L, H

LEMMA EntriesAre ==
  ASSUME NEW n \in Nat, NEW t \in Seq(Int)
  PROVE  EntriesOf(n, t) \in Seq(Entry)
<1>1. \A i \in 1..Len(t) : [block |-> n, trace |-> t[i]] \in Entry
  BY DEF Entry
<1>2. EntriesOf(n, t) = [i \in 1..Len(t) |-> [block |-> n, trace |-> t[i]]]
  BY Zenon DEF EntriesOf
<1>3. Len(t) \in Nat
  OBVIOUS
<1> QED
  BY <1>1, <1>2, <1>3

(* The file has what the blocks from the second on have.                   *)
LEMMA FileHolds ==
  ASSUME NEW c, ChainFits(c), c.base = 0
  PROVE  Holds(write_history(c), [n \in 1..Len(c.blocks) |-> Traces(c, n)], Len(c.blocks))
<1> DEFINE L == Len(c.blocks)
           T == [n \in 1..L |-> Traces(c, n)]
           count == Cardinality({n \in 2..Len(c.history) : \A m \in 2..n : c.history[m] # None})
           seqs == [i \in 1..count |-> add_transactions(c.history[i + 1])]
           w == write_history(c)
<1>1. L \in Nat \ {0}
  BY HeadIs
<1>2. count = L - 1 /\ count \in Nat
  BY <1>1, WrittenAre
<1>3. w = FlattenSeq(seqs)
  BY Zenon DEF write_history
<1>4. \A n \in 1..L : T[n] = Traces(c, n) /\ T[n] \in Seq(Int) /\ Len(T[n]) \in Nat
  BY TracesAre
<1>5. \A i \in 1..count : i + 1 \in 2..L /\ seqs[i] = EntriesOf(i + 1, T[i + 1])
  <2> TAKE i \in 1..count
  <2> DEFINE n == i + 1
  <2>1. n \in 2..L /\ n \in 1..L
    BY <1>1, <1>2
  <2> HIDE DEF n
  <2>2. add_transactions(c.history[n]) = EntriesOf(n, Traces(c, n))
    BY <2>1, TransactionsAre
  <2>3. T[n] = Traces(c, n)
    BY <1>4, <2>1
  <2> HIDE DEF count, T
  <2>4. seqs[i] = add_transactions(c.history[n])
    BY DEF n
  <2> QED
    BY <2>1, <2>2, <2>3, <2>4 DEF n
<1>6. Len(seqs) = count
  <2> HIDE DEF count
  <2> QED
    BY <1>2
<1> HIDE DEF T, count, seqs, w, L
<1>7. CASE L = 1
  <2>1. count = 0
    BY <1>2, <1>7
  <2>2. w = <<>>
    <3>1. seqs = <<>>
      BY <2>1 DEF seqs
    <3>2. FlattenSeq(<<>>) = <<>>
      BY DEF FlattenSeq
    <3> QED
      BY <1>3, <3>1, <3>2, Zenon
  <2> QED
    BY <1>7, <2>2, HoldsNothing DEF w, T, L
<1>8. CASE L # 1
  <2>1. count \in Nat \ {0}
    BY <1>1, <1>2, <1>8
  <2>2. \E h : Flattens(h, seqs, count)
    BY <1>6, <2>1, FlattenRun, Zenon
  <2>3. PICK h : Flattens(h, seqs, count)
    BY <2>2
  <2>4. /\ h[1] = seqs[1] /\ w = h[count]
        /\ \A k \in 2..count : h[k] = h[k - 1] \o seqs[k]
    BY <1>3, <2>3 DEF Flattens
  <2> DEFINE S == {k \in Nat : k + 1 <= count => Holds(h[k + 1], T, k + 2)}
  <2>5. 0 \in S
    <3> DEFINE one == 1
               none == <<>>
               two == one + 1
    <3>1. Holds(none, T, one)
      BY HoldsNothing
    <3>2. one \in Nat \ {0} /\ T[two] \in Seq(Int) /\ two = 2 /\ two \in Nat
      BY <1>1, <1>4, <1>8
    <3>3. seqs[1] = EntriesOf(two, T[two])
      BY <1>5, <2>1
    <3> HIDE DEF one, none, two
    <3>4. EntriesOf(two, T[two]) \in Seq(Entry)
      BY <3>2, EntriesAre, Zenon
    <3>5. none \o seqs[1] = seqs[1]
      BY <3>3, <3>4, ConcatEmptySeq DEF none
    <3>6. Holds(none \o EntriesOf(two, T[two]), T, two)
      BY <3>1, <3>2, AddsBlock DEF two
    <3>7. Holds(h[1], T, 2)
      BY <2>4, <3>2, <3>3, <3>5, <3>6, Zenon
    <3>8. 0 + 1 = 1 /\ 0 + 2 = 2
      OBVIOUS
    <3> QED
      BY <3>7, <3>8
  <2>6. ASSUME NEW k \in Nat, k \in S PROVE k + 1 \in S
    <3> SUFFICES ASSUME k + 2 <= count PROVE Holds(h[k + 2], T, k + 3)
      BY <1>2
    <3> DEFINE n == k + 2
    <3>1. /\ n \in 2..count /\ n - 1 = k + 1 /\ n + 1 = k + 3 /\ n \in Nat \ {0}
          /\ k + 1 <= count /\ n + 1 \in 1..L
      BY <1>1, <1>2
    <3>2. Holds(h[k + 1], T, n)
      BY <2>6, <3>1
    <3>3. h[n] = h[n - 1] \o seqs[n] /\ seqs[n] = EntriesOf(n + 1, T[n + 1])
      <4> HIDE DEF n
      <4>1. n \in 1..count
        BY <1>2, <3>1
      <4> QED
        BY <1>5, <2>4, <3>1, <4>1, Zenon
    <3>4. T[n + 1] \in Seq(Int)
      BY <1>4, <3>1
    <3> HIDE DEF n
    <3>5. Holds(h[n - 1], T, n)
      BY <3>1, <3>2
    <3>6. Holds(h[n - 1] \o EntriesOf(n + 1, T[n + 1]), T, n + 1)
      BY <3>1, <3>4, <3>5, AddsBlock, Zenon
    <3>7. Holds(h[n], T, n + 1)
      BY <3>3, <3>6
    <3> QED
      BY <3>1, <3>7 DEF n
  <2>7. \A k \in Nat : k \in S
    <3> HIDE DEF S
    <3> QED
      BY <2>5, <2>6, NatInductionOnSet
  <2>8. count - 1 \in Nat /\ count - 1 + 1 = count /\ count - 1 + 2 = L
    BY <1>1, <1>2, <2>1
  <2>9. Holds(h[count], T, L)
    BY <2>7, <2>8
  <2>10. Holds(w, T, L)
    BY <2>4, <2>9
  <2> QED
    BY <2>10 DEF w, T, L
<1> QED
  BY <1>7, <1>8 DEF w, T, L


LEMMA FitsIsWritten ==
  ASSUME NEW c, ChainFits(c)
  PROVE  FileIsWhole(c)
<1> DEFINE L == Len(c.blocks)
           T == [n \in 1..L |-> Traces(c, n)]
           f == write_history(c)
<1> SUFFICES ASSUME c.base = 0
             PROVE  /\ \A i, j \in DOMAIN f : i < j => f[i].block <= f[j].block
                    /\ {f[i].block : i \in DOMAIN f} = 2..HeadNum(c)
                    /\ \A n \in 2..HeadNum(c) : \E k \in 0..Len(f) :
                         /\ {i \in DOMAIN f : f[i].block = n} = k + 1..k + Len(Traces(c, n))
                         /\ \A i \in 1..Len(Traces(c, n)) : f[k + i].trace = Traces(c, n)[i]
  BY Zenon DEF FileIsWhole, Traces
<1>1. L \in Nat \ {0} /\ HeadNum(c) = c.base + L
  BY HeadIs
<1>2. HeadNum(c) = L
  BY <1>1
<1>3. Holds(f, T, L)
  BY FileHolds
<1>4. /\ f \in Seq(Entry) /\ DOMAIN f = 1..Len(f) /\ Len(f) \in Nat
      /\ \A i \in 1..Len(f) : f[i].block \in 2..L
      /\ \A i, j \in 1..Len(f) : i < j => f[i].block <= f[j].block
      /\ \A n \in 2..L : \E p : IsPlaceOf(p, f, T, n)
  <2> HIDE DEF L, T, f
  <2>1. /\ f \in Seq(Entry)
        /\ \A i \in 1..Len(f) : f[i].block \in 2..L
        /\ \A i, j \in 1..Len(f) : i < j => f[i].block <= f[j].block
        /\ \A n \in 2..L : \E p : IsPlaceOf(p, f, T, n)
    BY <1>3, Zenon DEF Holds
  <2>2. DOMAIN f = 1..Len(f) /\ Len(f) \in Nat
    BY <2>1
  <2> QED
    BY <2>1, <2>2, Zenon
<1>5. \A n \in 2..L : T[n] = Traces(c, n) /\ Len(Traces(c, n)) \in Nat \ {0}
  <2> TAKE n \in 2..L
  <2>1. n \in 1..Len(c.blocks)
    BY <1>1
  <2> QED
    BY <2>1, TracesAre
<1> HIDE DEF L, T, f
<1>6. ASSUME NEW n \in 2..L
      PROVE  \E k \in 0..Len(f) :
               /\ {i \in DOMAIN f : f[i].block = n} = k + 1..k + Len(Traces(c, n))
               /\ \A i \in 1..Len(Traces(c, n)) : f[k + i].trace = Traces(c, n)[i]
               /\ n \in {f[i].block : i \in DOMAIN f}
  <2> DEFINE t == Traces(c, n)
             l == Len(t)
  <2>1. T[n] = t /\ l \in Nat \ {0}
    BY <1>5
  <2>2. PICK p : IsPlaceOf(p, f, T, n)
    BY <1>4
  <2> HIDE DEF t
  <2>3. /\ p \in 0..Len(f) /\ p + l <= Len(f)
        /\ \A i \in 1..Len(f) : f[i].block = n <=> i \in p + 1..p + l
        /\ \A i \in 1..l : f[p + i].trace = t[i]
    BY <2>1, <2>2, Zenon DEF IsPlaceOf
  <2> HIDE DEF l
  <2>4. {i \in DOMAIN f : f[i].block = n} = p + 1..p + l
    <3>1. ASSUME NEW i \in p + 1..p + l PROVE i \in 1..Len(f)
      BY <1>4, <2>1, <2>3
    <3> QED
      BY <1>4, <2>3, <3>1
  <2>5. p + 1 \in DOMAIN f /\ f[p + 1].block = n
    <3>1. p + 1 \in p + 1..p + l
      BY <2>1, <2>3
    <3> QED
      BY <2>4, <3>1
  <2> QED
    BY <2>3, <2>4, <2>5 DEF t, l
<1>7. {f[i].block : i \in DOMAIN f} = 2..L
  BY <1>4, <1>6
<1> QED
  BY <1>2, <1>4, <1>6, <1>7 DEF f


(* A chain begins fit, whether on its own or from a snapshot.              *)
LEMMA NewChainFits ==
  ASSUME NEW snapshot \in BOOLEAN
  PROVE  ChainFits(test_chain(snapshot)) /\ BlockIsRecent(test_chain(snapshot))
<1> DEFINE rows == IF snapshot THEN {0} ELSE {}
           base == IF snapshot THEN SnapshotHead - 1 ELSE 0
           b == [time |-> 0, txs |-> <<>>, rows |-> rows]
           c == [blocks |-> <<b>>, base |-> base, pending |-> None, rows |-> rows,
                 deferred |-> <<>>, sent |-> 1, control |-> TRUE, prev |-> 0,
                 history |-> <<>>, ctx |-> None]
           d == ControlStart(c, c.blocks[1].time + block_interval)
<1>1. test_chain(snapshot) = IF snapshot THEN c ELSE d
  BY Zenon DEF test_chain
<1>2. rows \in SUBSET Nat /\ base \in Nat
  BY DEF SnapshotHead
<1> HIDE DEF rows, base
<1>3. b \in Block /\ b.time = 0 /\ b.rows = rows
  BY <1>2 DEF Block
<1> HIDE DEF b
<1>4. /\ c.blocks = <<b>> /\ c.base = base /\ c.pending = None /\ c.rows = rows
      /\ c.deferred = <<>> /\ c.sent = 1 /\ c.control = TRUE /\ c.prev = 0
      /\ c.history = <<>> /\ c.ctx = None
  OBVIOUS
<1>5. c \in Chain
  <2>1. /\ <<b>> \in Seq(Block) /\ <<>> \in Seq(Nat) /\ <<>> \in Seq(Message \cup {None})
        /\ None \in Pending \cup {None} /\ None \in (SUBSET Nat) \cup {None}
        /\ 1 \in Nat /\ 0 \in Nat /\ TRUE \in BOOLEAN
    BY <1>3
  <2> QED
    BY <1>2, <2>1 DEF Chain
<1> HIDE DEF c
<1>6. /\ Len(c.blocks) = 1 /\ HeadBlock(c) = b /\ c.blocks[1] = b /\ ~Building(c)
      /\ Len(c.history) = 0
  BY <1>4 DEF HeadBlock, Last, Building
<1>7. ChainFits(c)
  <2>1. Even(HeadBlock(c).time)
    BY <1>3, <1>6 DEF Even, Slot, block_interval
  <2>2. Grown(c)
    BY <1>3, <1>4, <1>6 DEF Grown
  <2>3. Remembered(c)
    BY <1>4, <1>6 DEF Remembered
  <2>4. ContextIsFresh(c)
    BY <1>4 DEF ContextIsFresh
  <2> QED
    BY <1>5, <1>6, <2>1, <2>2, <2>3, <2>4 DEF ChainFits
<1>8. BlockIsRecent(c)
  BY <1>6 DEF BlockIsRecent
<1>9. ChainFits(d) /\ BlockIsRecent(d)
  <2> DEFINE when == c.blocks[1].time + block_interval
  <2>1. when \in Nat /\ when = 0 + block_interval /\ when = block_interval
    BY <1>3, <1>6 DEF block_interval
  <2> HIDE DEF when
  <2>2. ChainFits(d) /\ SameBlocks(d, c) /\ d.pending.time = Slot(when)
    BY <1>4, <1>7, <2>1, ControlStartFits DEF when
  <2>3. HeadBlock(d) = b
    BY <1>6, <2>2, SameHeadInfo
  <2>4. Slot(when) = 0 + block_interval
    BY <2>1, SlotIs
  <2> QED
    BY <1>3, <2>2, <2>3, <2>4, Zenon DEF BlockIsRecent
<1> QED
  BY <1>1, <1>7, <1>8, <1>9

LEMMA ShutdownFits ==
  ASSUME NEW c, ChainFits(c), BlockIsRecent(c)
  PROVE  /\ ChainFits(shutdown(c)) /\ BlockIsRecent(shutdown(c))
         /\ HeadInfo(shutdown(c)) = HeadInfo(c) /\ shutdown(c).pending = c.pending
         /\ shutdown(c).rows = c.rows
<1> DEFINE d == [c EXCEPT !.control = FALSE]
<1>1. shutdown(c) = d
  BY DEF shutdown
<1>2. c \in Chain
  BY HeadIs
<1>3. /\ d \in Chain /\ d.blocks = c.blocks /\ d.base = c.base /\ d.pending = c.pending
      /\ d.rows = c.rows /\ d.prev = c.prev /\ d.history = c.history /\ d.ctx = c.ctx
  BY <1>2, WithControl
<1> HIDE DEF d
<1>4. SameBlocks(d, c) /\ c.rows \subseteq d.rows
  BY <1>3 DEF SameBlocks
<1>5. (Building(d) <=> Building(c)) /\ (ContextIsFresh(c) => ContextIsFresh(d))
  BY <1>3 DEF Building, ContextIsFresh
<1>6. (Building(d) => Even(d.pending.time)) /\ ContextIsFresh(d)
  BY <1>3, <1>5 DEF ChainFits
<1>7. ChainFits(d)
  BY <1>3, <1>4, <1>6, StaysFit
<1>8. HeadInfo(d) = HeadInfo(c) /\ HeadBlock(d) = HeadBlock(c)
  BY <1>4, SameHeadInfo
<1>9. BlockIsRecent(d)
  BY <1>3, <1>5, <1>8, Zenon DEF BlockIsRecent
<1> QED
  BY <1>1, <1>3, <1>7, <1>8, <1>9


(* What an object remembers of a chain stays right while the chain goes on *)
(* from its head.                                                          *)
LEMMA ObjectStaysRight ==
  ASSUME NEW object, NEW c, NEW d, ObjectIsRight(object, c), ChainFits(d), BlockIsRecent(d),
         HeadInfo(d) = HeadInfo(c), Building(c) => Building(d) /\ d.pending.time = c.pending.time,
         c.rows \subseteq d.rows
  PROVE  ObjectIsRight(object, d)
<1>1. ASSUME object.head_block_info # None
      PROVE  /\ object.head_block_info = HeadInfo(d)
             /\ Building(d) => d.pending.time <= Expires(object)
  <2>1. object.head_block_info = HeadInfo(d)
    BY <1>1 DEF ObjectIsRight
  <2>2. HeadInfo(d).time = HeadBlock(d).time
    BY DEF HeadInfo
  <2>3. HeadBlock(d).time \in Nat
    BY HeadIs
  <2>4. Expires(object) = HeadBlock(d).time + 4
    BY <2>1, <2>2, Zenon DEF Expires
  <2>5. Building(d) => d.pending.time = HeadBlock(d).time + 2
    BY DEF BlockIsRecent, block_interval
  <2> QED
    BY <2>1, <2>3, <2>4, <2>5
<1>2. object.asked # None => Building(d) /\ d.pending.time = Slot(object.asked)
  BY Zenon DEF ObjectIsRight
<1>3. object.told \subseteq d.rows
  BY DEF ObjectIsRight
<1> QED
  BY <1>1, <1>2, <1>3, Zenon DEF ObjectIsRight

LEMMA WithHead ==
  ASSUME NEW o \in Object, NEW v \in [num : Nat, time : Nat] \cup {None}
  PROVE  /\ [o EXCEPT !.head_block_info = v] \in Object
         /\ [o EXCEPT !.head_block_info = v].id = o.id
         /\ [o EXCEPT !.head_block_info = v].head_block_info = v
         /\ [o EXCEPT !.head_block_info = v].asked = o.asked
         /\ [o EXCEPT !.head_block_info = v].told = o.told
BY DEF Object

LEMMA WithAsked ==
  ASSUME NEW o \in Object, NEW v \in Nat \cup {None}
  PROVE  /\ [o EXCEPT !.asked = v] \in Object
         /\ [o EXCEPT !.asked = v].id = o.id
         /\ [o EXCEPT !.asked = v].head_block_info = o.head_block_info
         /\ [o EXCEPT !.asked = v].asked = v
         /\ [o EXCEPT !.asked = v].told = o.told
BY DEF Object

LEMMA WithTold ==
  ASSUME NEW o \in Object, NEW v \in SUBSET Nat
  PROVE  /\ [o EXCEPT !.told = v] \in Object
         /\ [o EXCEPT !.told = v].id = o.id
         /\ [o EXCEPT !.told = v].head_block_info = o.head_block_info
         /\ [o EXCEPT !.told = v].asked = o.asked
         /\ [o EXCEPT !.told = v].told = v
BY DEF Object

LEMMA Forgets ==
  ASSUME NEW o \in Object
  PROVE  /\ Forgetful(o) \in Object /\ Forgetful(o).id = o.id
         /\ Forgetful(o).head_block_info = None /\ Forgetful(o).asked = None
         /\ Forgetful(o).told = o.told
<1> DEFINE a == [o EXCEPT !.head_block_info = None]
           b == [a EXCEPT !.asked = None]
<1>1. Forgetful(o) = b
  BY Zenon DEF Forgetful
<1>2. None \in [num : Nat, time : Nat] \cup {None} /\ None \in Nat \cup {None}
  OBVIOUS
<1>3. /\ a \in Object /\ a.id = o.id /\ a.head_block_info = None /\ a.told = o.told
  BY <1>2, WithHead
<1> HIDE DEF a
<1>4. /\ b \in Object /\ b.id = a.id /\ b.head_block_info = a.head_block_info /\ b.asked = None
      /\ b.told = a.told
  BY <1>2, <1>3, WithAsked
<1> QED
  BY <1>1, <1>3, <1>4, Zenon

LEMMA InformedIsRight ==
  ASSUME NEW o \in Object, NEW c, ChainFits(c), BlockIsRecent(c), ObjectIsRight(o, c)
  PROVE  /\ Informed(o, c) \in Object /\ Informed(o, c).id = o.id
         /\ Informed(o, c).told = o.told /\ ObjectIsRight(Informed(o, c), c)
<1>1. CASE o.head_block_info # None
  <2>1. Informed(o, c) = o
    BY <1>1, Zenon DEF Informed
  <2> QED
    BY <2>1
<1>2. CASE o.head_block_info = None
  <2> DEFINE v == HeadInfo(c)
             i == [o EXCEPT !.head_block_info = v]
  <2>1. Informed(o, c) = i
    BY <1>2, Zenon DEF Informed
  <2>2. HeadNum(c) \in Nat /\ HeadBlock(c).time \in Nat
    BY HeadIs
  <2>3. v.time = HeadBlock(c).time /\ v \in [num : Nat, time : Nat] \cup {None}
    BY <2>2 DEF HeadInfo
  <2> HIDE DEF v
  <2>4. /\ i \in Object /\ i.id = o.id /\ i.head_block_info = v /\ i.asked = o.asked
        /\ i.told = o.told
    BY <2>3, WithHead
  <2> HIDE DEF i
  <2>5. Building(c) => c.pending.time <= Expires(i)
    <3>1. Expires(i) = HeadBlock(c).time + 4
      BY <2>3, <2>4, Zenon DEF Expires
    <3>2. Building(c) => c.pending.time = HeadBlock(c).time + 2
      BY DEF BlockIsRecent, block_interval
    <3> QED
      BY <2>2, <3>1, <3>2
  <2>6. ObjectIsRight(i, c)
    BY <2>4, <2>5 DEF ObjectIsRight, v
  <2> QED
    BY <2>1, <2>4, <2>6
<1> QED
  BY <1>1, <1>2


(* One chain changes, and with it what the objects that name it remember.  *)
LEMMA OneChainChanges ==
  ASSUME ChainsInv, NEW id \in DOMAIN chains, chains[id] # None, NEW c,
         ChainFits(c), BlockIsRecent(c), chains' = [chains EXCEPT ![id] = c],
         tests' \in [Test -> Object \cup {None}],
         \A u \in Test :
           /\ tests'[u] # None <=> tests[u] # None
           /\ tests[u] # None =>
                /\ tests'[u].id = tests[u].id
                /\ IF tests[u].id = id THEN ObjectIsRight(tests'[u], c) ELSE tests'[u] = tests[u],
         selected' = selected, current' = current
  PROVE  ChainsInv'
<1>1. /\ chains \in Seq(Chain \cup {None}) /\ current \in Test \cup {None}
      /\ ObjectsNameChains
      /\ \A i \in DOMAIN chains : chains[i] # None => ChainFits(chains[i]) /\ BlockIsRecent(chains[i])
      /\ \A t \in Test : tests[t] # None => ObjectIsRight(tests[t], Its(t))
  BY Zenon DEF ChainsInv
<1>2. c \in Chain /\ c # None
  <2>1. c \in Chain
    BY DEF ChainFits
  <2> QED
    BY <2>1, NoChainAssumption
<1>3. /\ chains' \in Seq(Chain \cup {None}) /\ DOMAIN chains' = DOMAIN chains
      /\ \A i \in DOMAIN chains : chains'[i] = IF i = id THEN c ELSE chains[i]
  BY <1>1, <1>2
<1>4. ASSUME NEW i, i \in DOMAIN chains, chains[i] # None
      PROVE  i \in DOMAIN chains' /\ chains'[i] # None
  BY <1>2, <1>3, <1>4
<1>5. ObjectsNameChains'
  <2>1. ASSUME NEW u \in Test, tests'[u] # None 
        PROVE tests'[u].id \in DOMAIN chains' /\ chains'[tests'[u].id] # None
    <3>1. tests[u] # None /\ tests'[u].id = tests[u].id
      BY <2>1
    <3>2. tests[u].id \in DOMAIN chains /\ chains[tests[u].id] # None
      BY <1>1, <3>1 DEF ObjectsNameChains, Exists
    <3> QED
      BY <1>4, <3>1, <3>2
  <2>2. ASSUME NEW u \in Test, NEW v \in Test, tests'[u] # None, tests'[v] # None,
               tests'[u].id = tests'[v].id
        PROVE  u = v
    <3>1. /\ tests[u] # None /\ tests'[u].id = tests[u].id
          /\ tests[v] # None /\ tests'[v].id = tests[v].id
      BY <2>2
    <3> QED
      BY <1>1, <2>2, <3>1 DEF ObjectsNameChains
  <2>3. current' # None => tests'[current'] # None
    BY <1>1 DEF ObjectsNameChains
  <2>4. ASSUME selected' # None PROVE selected' \in DOMAIN chains' /\ chains'[selected'] # None
    <3>1. selected \in DOMAIN chains /\ chains[selected] # None
      BY <1>1, <2>4 DEF ObjectsNameChains, Exists
    <3> QED
      BY <1>4, <3>1
  <2> QED
    BY <2>1, <2>2, <2>3, <2>4 DEF ObjectsNameChains, Exists
<1>6. ASSUME NEW i \in DOMAIN chains', chains'[i] # None
      PROVE  ChainFits(chains'[i]) /\ BlockIsRecent(chains'[i])
  BY <1>1, <1>3, <1>6
<1>7. ASSUME NEW u \in Test, tests'[u] # None PROVE ObjectIsRight(tests'[u], Its(u)')
  <2>1. tests[u] # None /\ tests'[u].id = tests[u].id
    BY <1>7
  <2>2. tests[u].id \in DOMAIN chains
    BY <1>1, <2>1 DEF ObjectsNameChains, Exists
  <2>3. Its(u)' = chains'[tests[u].id]
    BY <2>1, Zenon DEF Its
  <2>4. CASE tests[u].id = id
    <3>1. Its(u)' = c
      BY <1>3, <2>2, <2>3, <2>4
    <3>2. ObjectIsRight(tests'[u], c)
      BY <2>1, <2>4
    <3> QED
      BY <3>1, <3>2, Zenon
  <2>5. CASE tests[u].id # id
    <3>1. Its(u)' = Its(u)
      BY <1>3, <2>2, <2>3, <2>5 DEF Its
    <3>2. tests'[u] = tests[u]
      BY <2>1, <2>5
    <3>3. ObjectIsRight(tests[u], Its(u))
      BY <1>1, <2>1
    <3> QED
      BY <3>1, <3>2, <3>3, Zenon
  <2> QED
    BY <2>4, <2>5
<1>8. current' \in Test \cup {None}
  BY <1>1
<1> QED
  BY <1>3, <1>5, <1>6, <1>7, <1>8, Zenon DEF ChainsInv

(* What a test whose chain can be used may rely on.                        *)
LEMMA ReadyIs ==
  ASSUME ChainsInv, NEW t \in Test, tests[t] # None
  PROVE  /\ tests[t] \in Object /\ tests[t].id \in DOMAIN chains /\ Its(t) = chains[tests[t].id]
         /\ Its(t) # None /\ ChainFits(Its(t)) /\ BlockIsRecent(Its(t))
         /\ ObjectIsRight(tests[t], Its(t))
<1>1. tests[t] \in Object /\ ObjectIsRight(tests[t], Its(t))
  BY DEF ChainsInv
<1>2. Exists(tests[t].id)
  BY DEF ChainsInv, ObjectsNameChains
<1>3. Its(t) = chains[tests[t].id]
  BY DEF Its
<1> QED
  BY <1>1, <1>2, <1>3, Zenon DEF ChainsInv, Exists

(* A call of an object changes its chain and what it remembers.            *)
LEMMA CallKeeps ==
  ASSUME ChainsInv, NEW t \in Test, tests[t] # None, NEW c, NEW o, Becomes(t, c, o),
         ChainFits(c), BlockIsRecent(c), o \in Object, o.id = tests[t].id, ObjectIsRight(o, c)
  PROVE  ChainsInv'
<1> DEFINE id == tests[t].id
<1>1. id \in DOMAIN chains /\ chains[id] # None
  BY ReadyIs
<1>2. /\ chains' = [chains EXCEPT ![id] = c] /\ tests' = [tests EXCEPT ![t] = o]
      /\ selected' = selected /\ current' = current
  BY DEF Becomes
<1>3. tests \in [Test -> Object \cup {None}]
  BY DEF ChainsInv
<1>4. /\ tests' \in [Test -> Object \cup {None}]
      /\ \A u \in Test : tests'[u] = IF u = t THEN o ELSE tests[u]
  BY <1>2, <1>3
<1>5. o # None
  BY NoChainAssumption
<1>6. ASSUME NEW u \in Test
      PROVE  /\ tests'[u] # None <=> tests[u] # None
             /\ tests[u] # None =>
                  /\ tests'[u].id = tests[u].id
                  /\ IF tests[u].id = id THEN ObjectIsRight(tests'[u], c) ELSE tests'[u] = tests[u]
  <2>1. CASE u = t
    <3>1. tests'[u] = o
      BY <1>4, <2>1
    <3> QED
      BY <1>5, <2>1, <3>1, Zenon
  <2>2. CASE u # t
    <3>1. tests'[u] = tests[u]
      BY <1>4, <2>2
    <3>2. tests[u] # None => tests[u].id # id
      BY <2>2, Zenon DEF ChainsInv, ObjectsNameChains
    <3> QED
      BY <3>1, <3>2, Zenon
  <2> QED
    BY <2>1, <2>2
<1> HIDE DEF id
<1> QED
  BY <1>1, <1>2, <1>4, <1>6, OneChainChanges


LEMMA ShutdownKeeps ==
  ASSUME ChainsInv, NEW t \in Test, Shutdown(t)
  PROVE  ChainsInv'
<1> DEFINE c == Its(t)
           d == shutdown(c)
           o == tests[t]
<1>1. o # None /\ Becomes(t, d, o)
  BY DEF Shutdown, Ready
<1>2. o \in Object /\ ChainFits(c) /\ BlockIsRecent(c) /\ ObjectIsRight(o, c)
  BY <1>1, ReadyIs
<1> HIDE DEF c, o
<1>3. /\ ChainFits(d) /\ BlockIsRecent(d) /\ HeadInfo(d) = HeadInfo(c) /\ d.pending = c.pending
      /\ d.rows = c.rows
  BY <1>2, ShutdownFits
<1> HIDE DEF d
<1>4. Building(c) => Building(d) /\ d.pending.time = c.pending.time
  BY <1>3 DEF Building
<1>5. ObjectIsRight(o, d)
  <2>1. c.rows \subseteq d.rows
    BY <1>3
  <2> QED
    BY <1>2, <1>3, <1>4, <2>1, ObjectStaysRight
<1> QED
  BY <1>1, <1>2, <1>3, <1>5, CallKeeps DEF o

LEMMA GetHeadInfoKeeps ==
  ASSUME ChainsInv, NEW t \in Test, GetHeadInfo(t)
  PROVE  ChainsInv'
<1> DEFINE c == Its(t)
           o == tests[t]
           i == Informed(o, c)
<1>1. o # None /\ Becomes(t, c, i)
  BY DEF GetHeadInfo, Ready
<1>2. o \in Object /\ ChainFits(c) /\ BlockIsRecent(c) /\ ObjectIsRight(o, c)
  BY <1>1, ReadyIs
<1> HIDE DEF c, o
<1>3. i \in Object /\ i.id = o.id /\ ObjectIsRight(i, c)
  BY <1>2, InformedIsRight
<1> HIDE DEF i
<1> QED
  BY <1>1, <1>2, <1>3, CallKeeps DEF o

(* An object that remembers nothing but what was told of transactions.     *)
LEMMA ForgetsRight ==
  ASSUME NEW o \in Object, NEW c, ObjectIsRight(o, c), NEW d, c.rows \subseteq d.rows
  PROVE  ObjectIsRight(Forgetful(o), d)
<1> DEFINE f == Forgetful(o)
<1>1. f.head_block_info = None /\ f.asked = None /\ f.told = o.told
  BY Forgets
<1> HIDE DEF f
<1>2. o.told \subseteq c.rows
  BY DEF ObjectIsRight
<1>3. ObjectIsRight(f, d)
  BY <1>1, <1>2 DEF ObjectIsRight
<1> QED
  BY <1>3 DEF f

LEMMA StartBlockKeeps ==
  ASSUME ChainsInv, NEW t \in Test, StartBlock(t)
  PROVE  ChainsInv'
<1> DEFINE c == Its(t)
           o == tests[t]
           f == Forgetful(o)
<1>1. PICK skip \in Skip : Becomes(t, StartBlocks(c, skip), f)
  BY DEF StartBlock
<1>2. o # None /\ skip \in Nat
  BY SkipAssumption DEF StartBlock, Ready
<1>3. o \in Object /\ ChainFits(c) /\ BlockIsRecent(c) /\ ObjectIsRight(o, c)
  BY <1>2, ReadyIs
<1> DEFINE d == StartBlocks(c, skip)
<1> HIDE DEF c, o
<1>4. ChainFits(d) /\ BlockIsRecent(d) /\ d.rows = c.rows
  BY <1>2, <1>3, StartsBlocks
<1> HIDE DEF d
<1>5. f \in Object /\ f.id = o.id /\ ObjectIsRight(f, d)
  <2>1. c.rows \subseteq d.rows
    BY <1>4
  <2> QED
    BY <1>3, <2>1, Forgets, ForgetsRight
<1> HIDE DEF f
<1> QED
  BY <1>1, <1>2, <1>4, <1>5, CallKeeps DEF o, d

LEMMA StartBlockAtKeeps ==
  ASSUME ChainsInv, NEW t \in Test, StartBlockAt(t)
  PROVE  ChainsInv'
<1> DEFINE c == Its(t)
           o == tests[t]
           f == finish_block(c)
           When(skip) == HeadBlock(f).time + block_interval + skip
           After(skip) == When(skip) - HeadBlock(f).time - block_interval
<1>1. PICK skip \in Skip :
        Becomes(t, StartBlocks(f, After(skip)), [Forgetful(o) EXCEPT !.asked = When(skip)])
  BY Zenon DEF StartBlockAt
<1>2. o # None /\ skip \in Nat
  BY SkipAssumption DEF StartBlockAt, Ready
<1>3. o \in Object /\ ChainFits(c) /\ BlockIsRecent(c) /\ ObjectIsRight(o, c)
  BY <1>2, ReadyIs
<1> HIDE DEF c, o
<1>4. ChainFits(f) /\ ~Building(f) /\ f.rows = c.rows
  BY <1>3, Finishes
<1>5. HeadBlock(f).time \in Nat
  BY <1>4, HeadIs
<1> HIDE DEF f
<1> DEFINE time == When(skip)
           d == StartBlocks(f, skip)
           e == Forgetful(o)
           a == [e EXCEPT !.asked = time]
<1>6. After(skip) = skip /\ time \in Nat /\ time = HeadBlock(f).time + skip + block_interval
  BY <1>2, <1>5 DEF block_interval
<1>7. Becomes(t, d, a)
  <2> HIDE DEF After, When
  <2> QED
    BY <1>1, <1>6
<1> HIDE DEF When, After, time
<1>8. /\ ChainFits(d) /\ Building(d) /\ BlockIsRecent(d) /\ d.rows = f.rows
      /\ d.pending.time = Slot(HeadBlock(f).time + skip + block_interval)
  BY <1>2, <1>4, StartsBlocks
<1> HIDE DEF d
<1>9. /\ e \in Object /\ e.id = o.id /\ e.head_block_info = None /\ e.told = o.told
  BY <1>3, Forgets
<1> HIDE DEF e
<1>10. /\ a \in Object /\ a.id = e.id /\ a.head_block_info = e.head_block_info /\ a.asked = time
       /\ a.told = e.told
  <2>1. time \in Nat \cup {None}
    BY <1>6
  <2> QED
    BY <1>9, <2>1, WithAsked
<1> HIDE DEF a
<1>11. ObjectIsRight(a, d)
  <2>1. a.told \subseteq d.rows
    <3>1. o.told \subseteq c.rows
      BY <1>3 DEF ObjectIsRight
    <3> QED
      BY <1>4, <1>8, <1>9, <1>10, <3>1
  <2>2. d.pending.time = Slot(a.asked)
    BY <1>6, <1>8, <1>10
  <2> QED
    BY <1>8, <1>9, <1>10, <2>1, <2>2, Zenon DEF ObjectIsRight
<1> QED
  BY <1>2, <1>7, <1>8, <1>9, <1>10, <1>11, CallKeeps DEF o

LEMMA FinishBlockKeeps ==
  ASSUME ChainsInv, NEW t \in Test, FinishBlock(t)
  PROVE  ChainsInv'
<1> DEFINE c == Its(t)
           o == tests[t]
           f == Forgetful(o)
           d == finish_block(c)
<1>1. o # None /\ Becomes(t, d, f)
  BY DEF FinishBlock, Ready
<1>2. o \in Object /\ ChainFits(c) /\ BlockIsRecent(c) /\ ObjectIsRight(o, c)
  BY <1>1, ReadyIs
<1> HIDE DEF c, o
<1>3. ChainFits(d) /\ ~Building(d) /\ d.rows = c.rows
  BY <1>2, Finishes
<1> HIDE DEF d
<1>4. BlockIsRecent(d)
  BY <1>3 DEF BlockIsRecent
<1>5. f \in Object /\ f.id = o.id /\ ObjectIsRight(f, d)
  <2>1. c.rows \subseteq d.rows
    BY <1>3
  <2> QED
    BY <1>2, <2>1, Forgets, ForgetsRight
<1> HIDE DEF f
<1> QED
  BY <1>1, <1>3, <1>4, <1>5, CallKeeps DEF o


(* What a chain goes on to is as right for an object as the chain was.     *)
LEMMA ContinuesRight ==
  ASSUME NEW object, NEW c, NEW d, ObjectIsRight(object, c), Continues(d, c)
  PROVE  ObjectIsRight(object, d) /\ ChainFits(d) /\ BlockIsRecent(d)
BY ObjectStaysRight DEF Continues

LEMMA ExecDeferredKeeps ==
  ASSUME ChainsInv, NEW t \in Test, ExecDeferred(t)
  PROVE  ChainsInv'
<1> DEFINE c == Its(t)
           o == tests[t]
           d == exec_deferred(c)
<1>1. o # None /\ Becomes(t, d, o)
  BY DEF ExecDeferred, Ready
<1>2. o \in Object /\ ChainFits(c) /\ BlockIsRecent(c) /\ ObjectIsRight(o, c)
  BY <1>1, ReadyIs
<1> HIDE DEF c, o
<1>3. Continues(d, c)
  BY <1>2, DeferredContinues
<1> HIDE DEF d
<1>4. ObjectIsRight(o, d) /\ ChainFits(d) /\ BlockIsRecent(d)
  BY <1>2, <1>3, ContinuesRight
<1> QED
  BY <1>1, <1>2, <1>4, CallKeeps DEF o

LEMMA TransactKeeps ==
  ASSUME ChainsInv, NEW t \in Test, Transact(t)
  PROVE  ChainsInv'
<1> DEFINE c == Its(t)
           o == tests[t]
           i == Informed(o, c)
<1>1. PICK way \in {"executes", "throws", "defers"}, failure \in BOOLEAN :
        /\ Expected(Trace(push_transaction(c, way)), failure)
        /\ Becomes(t, push_transaction(c, way),
                   IF failure THEN i ELSE [i EXCEPT !.told = @ \union {push_transaction(c, way).sent - 1}])
  BY Zenon DEF Transact
<1> DEFINE d == push_transaction(c, way)
           n == d.sent - 1
           told == i.told \union {n}
           e == [i EXCEPT !.told = told]
<1>2. Expected(Trace(d), failure) /\ Becomes(t, d, IF failure THEN i ELSE e)
  BY <1>1, Zenon
<1>3. o # None
  BY DEF Transact, Ready
<1>4. o \in Object /\ ChainFits(c) /\ BlockIsRecent(c) /\ ObjectIsRight(o, c)
  BY <1>3, ReadyIs
<1> HIDE DEF c
<1>5. Continues(d, c) /\ n \in Nat
  BY <1>4, PushContinues
<1> HIDE DEF o
<1>6. i \in Object /\ i.id = o.id /\ ObjectIsRight(i, c)
  BY <1>4, InformedIsRight
<1> HIDE DEF i, d
<1>7. ObjectIsRight(i, d) /\ ChainFits(d) /\ BlockIsRecent(d)
  BY <1>5, <1>6, ContinuesRight
<1>8. CASE failure
  <2>1. Becomes(t, d, i)
    BY <1>2, <1>8, Zenon
  <2> QED
    BY <1>3, <1>6, <1>7, <2>1, CallKeeps DEF o
<1>9. CASE ~failure
  <2>1. Becomes(t, d, e)
    BY <1>2, <1>9, Zenon
  <2>2. n \in d.rows
    <3>1. Trace(d).status = "executed"
      BY <1>2, <1>9, Zenon DEF Expected
    <3>2. Trace(d).status = IF n \in d.rows THEN "executed" ELSE "hard_fail"
      BY DEF Trace
    <3> QED
      BY <3>1, <3>2
  <2>3. i.told \in SUBSET Nat
    BY <1>6 DEF Object
  <2>4. told \in SUBSET Nat
    BY <1>5, <2>3
  <2>5. told \subseteq d.rows
    BY <1>7, <2>2 DEF ObjectIsRight
  <2> HIDE DEF told, n
  <2>6. /\ e \in Object /\ e.id = i.id /\ e.head_block_info = i.head_block_info
        /\ e.asked = i.asked /\ e.told = told
    BY <1>6, <2>4, WithTold
  <2> HIDE DEF e
  <2>7. Expires(e) = Expires(i)
    BY <2>6, Zenon DEF Expires
  <2>8. ObjectIsRight(e, d)
    BY <1>7, <2>5, <2>6, <2>7, Zenon DEF ObjectIsRight
  <2> QED
    BY <1>3, <1>6, <1>7, <2>1, <2>6, <2>8, CallKeeps DEF o
<1> QED
  BY <1>8, <1>9

LEMMA ReadTableKeeps ==
  ASSUME ChainsInv, ReadTable
  PROVE  ChainsInv'
<1> DEFINE c == chains[selected]
           d == get_apply_context(c)
<1>1. /\ selected \in DOMAIN chains /\ c # None
      /\ selected' = selected /\ current' = current /\ tests' = tests
  BY DEF ReadTable, Running, Exists
<1>2. chains' = [chains EXCEPT ![selected] = d]
  BY Zenon DEF ReadTable
<1>3. ChainFits(c) /\ BlockIsRecent(c)
  BY <1>1, Zenon DEF ChainsInv
<1> HIDE DEF c
<1>4. Continues(d, c)
  BY <1>3, ContextContinues
<1> HIDE DEF d
<1>5. ChainFits(d) /\ BlockIsRecent(d)
  BY <1>4 DEF Continues
<1>6. tests' \in [Test -> Object \cup {None}]
  BY <1>1 DEF ChainsInv
<1>7. ASSUME NEW u \in Test
      PROVE  /\ tests'[u] # None <=> tests[u] # None
             /\ tests[u] # None =>
                  /\ tests'[u].id = tests[u].id
                  /\ IF tests[u].id = selected THEN ObjectIsRight(tests'[u], d) ELSE tests'[u] = tests[u]
  <2>1. ASSUME tests[u] # None, tests[u].id = selected PROVE ObjectIsRight(tests[u], d)
    <3>1. ObjectIsRight(tests[u], c)
      BY <2>1, ReadyIs DEF c
    <3> QED
      BY <1>4, <3>1, ContinuesRight
  <2> QED
    BY <1>1, <2>1, Zenon
<1> QED
  BY <1>1, <1>2, <1>5, <1>6, <1>7, OneChainChanges DEF c

LEMMA SelectKeeps ==
  ASSUME ChainsInv, NEW t \in Test, SelectForDb(t)
  PROVE  ChainsInv'
<1>1. /\ selected' = tests[t].id /\ chains' = chains /\ tests' = tests /\ current' = current
      /\ Exists(tests[t].id)
  BY DEF SelectForDb, Ready, Running
<1>2. ObjectsNameChains'
  BY <1>1 DEF ChainsInv, ObjectsNameChains, Exists
<1>3. \A u \in Test : Its(u)' = Its(u)
  BY <1>1 DEF Its
<1> QED
  BY <1>1, <1>2, <1>3, Zenon DEF ChainsInv


LEMMA CreateKeeps ==
  ASSUME ChainsInv, NEW t \in Test, Create(t)
  PROVE  ChainsInv'
<1> DEFINE l == Len(chains)
           id == l + 1
           o == NewObject(id)
<1>1. PICK snapshot \in BOOLEAN : chains' = Append(chains, test_chain(snapshot))
  BY DEF Create
<1> DEFINE c == test_chain(snapshot)
<1>2. ChainFits(c) /\ BlockIsRecent(c)
  BY NewChainFits
<1> HIDE DEF c
<1>3. c \in Chain /\ c # None
  <2>1. c \in Chain
    BY <1>2 DEF ChainFits
  <2> QED
    BY <2>1, NoChainAssumption
<1>4. /\ chains \in Seq(Chain \cup {None}) /\ l \in Nat /\ DOMAIN chains = 1..l
      /\ tests \in [Test -> Object \cup {None}] /\ ObjectsNameChains
      /\ \A i \in DOMAIN chains : chains[i] # None => ChainFits(chains[i]) /\ BlockIsRecent(chains[i])
      /\ \A u \in Test : tests[u] # None => ObjectIsRight(tests[u], Its(u))
  <2>1. chains \in Seq(Chain \cup {None})
    BY DEF ChainsInv
  <2> QED
    BY <2>1, Zenon, LenProperties DEF ChainsInv
<1>5. chains' = Append(chains, c)
  BY <1>1 DEF c
<1>6. /\ chains' \in Seq(Chain \cup {None}) /\ Len(chains') = id /\ DOMAIN chains' = 1..id
      /\ \A i \in 1..l : chains'[i] = chains[i]
      /\ chains'[id] = c
  BY <1>3, <1>4, <1>5
<1>7. /\ selected' = (IF id = 1 THEN 1 ELSE selected) /\ tests' = [tests EXCEPT ![t] = o]
      /\ current' = t /\ tests[t] = None
  <2> HIDE DEF o, l
  <2>1. NewObject(Len(chains')) = o
    BY <1>6 DEF o
  <2>2. Len(chains') = 1 <=> id = 1
    BY <1>6
  <2> QED
    BY <2>1, <2>2, Zenon DEF Create
<1>8. /\ o \in Object /\ o # None /\ o.id = id /\ o.head_block_info = None /\ o.asked = None
      /\ o.told = {}
  <2>1. id \in Nat
    BY <1>4
  <2> HIDE DEF id
  <2>2. o \in Object /\ o.id = id /\ o.head_block_info = None /\ o.asked = None /\ o.told = {}
    BY <2>1 DEF NewObject, Object
  <2> QED
    BY <2>2, NoChainAssumption
<1> HIDE DEF o
<1>9. /\ tests' \in [Test -> Object \cup {None}]
      /\ \A u \in Test : tests'[u] = IF u = t THEN o ELSE tests[u]
  BY <1>4, <1>7, <1>8
<1> HIDE DEF l
<1>10. \A u \in Test : tests[u] # None => tests[u].id \in 1..l /\ chains[tests[u].id] # None
  BY <1>4, Zenon DEF ObjectsNameChains, Exists
<1>11. id \in 1..id /\ id \notin 1..l /\ \A i \in 1..l : i \in 1..id
  BY <1>4
<1> HIDE DEF id
<1>12. ASSUME NEW u \in Test, tests'[u] # None
       PROVE  /\ tests'[u].id \in DOMAIN chains' /\ chains'[tests'[u].id] # None
              /\ ObjectIsRight(tests'[u], chains'[tests'[u].id])
              /\ u = t => tests'[u].id = id
              /\ u # t => /\ tests'[u] = tests[u] /\ tests[u] # None /\ tests[u].id \in 1..l
  <2>1. CASE u = t
    <3>1. tests'[u] = o
      BY <1>9, <2>1
    <3>2. ObjectIsRight(o, c)
      BY <1>8, Zenon DEF ObjectIsRight
    <3> QED
      BY <1>3, <1>6, <1>8, <1>11, <2>1, <3>1, <3>2
  <2>2. CASE u # t
    <3>1. tests'[u] = tests[u] /\ tests[u] # None
      BY <1>9, <1>12, <2>2
    <3>2. tests[u].id \in 1..l /\ chains[tests[u].id] # None
      BY <1>10, <3>1
    <3>3. chains'[tests[u].id] = chains[tests[u].id] /\ tests[u].id \in DOMAIN chains'
      BY <1>6, <1>11, <3>2
    <3>4. ObjectIsRight(tests[u], chains[tests[u].id])
      BY <1>4, <3>1 DEF Its
    <3> QED
      BY <2>2, <3>1, <3>2, <3>3, <3>4, Zenon
  <2> QED
    BY <2>1, <2>2
<1>13. ObjectsNameChains'
  <2>1. ASSUME NEW u \in Test, NEW v \in Test, tests'[u] # None, tests'[v] # None,
               tests'[u].id = tests'[v].id
        PROVE  u = v
    <3>1. CASE u = t \/ v = t
      BY <1>11, <1>12, <2>1, <3>1
    <3>2. CASE u # t /\ v # t
      <4>1. tests[u] # None /\ tests[v] # None /\ tests[u].id = tests[v].id
        BY <1>12, <2>1, <3>2
      <4> QED
        BY <1>4, <4>1, Zenon DEF ObjectsNameChains
    <3> QED
      BY <3>1, <3>2
  <2>2. current' # None => tests'[current'] # None
    BY <1>7, <1>8, <1>9
  <2>3. ASSUME selected' # None PROVE selected' \in DOMAIN chains' /\ chains'[selected'] # None
    <3>1. CASE id = 1
      BY <1>3, <1>6, <1>7, <1>11, <3>1
    <3>2. CASE id # 1
      <4>1. selected' = selected
        BY <1>7, <3>2
      <4>2. selected \in 1..l /\ chains[selected] # None
        BY <1>4, <2>3, <4>1 DEF ObjectsNameChains, Exists
      <4> QED
        BY <1>6, <1>11, <4>1, <4>2
    <3> QED
      BY <3>1, <3>2
  <2> QED
    BY <1>12, <2>1, <2>2, <2>3 DEF ObjectsNameChains, Exists
<1>14. ASSUME NEW i \in DOMAIN chains', chains'[i] # None
       PROVE  ChainFits(chains'[i]) /\ BlockIsRecent(chains'[i])
  <2>1. i = id \/ i \in 1..l
    BY <1>4, <1>6 DEF id
  <2>2. CASE i = id
    BY <1>2, <1>6, <2>2, Zenon
  <2>3. CASE i \in 1..l
    <3>1. chains'[i] = chains[i] /\ i \in DOMAIN chains
      BY <1>4, <1>6, <2>3
    <3> QED
      BY <1>4, <1>14, <3>1, Zenon
  <2> QED
    BY <2>1, <2>2, <2>3
<1>15. \A u \in Test : tests'[u] # None => ObjectIsRight(tests'[u], Its(u)')
  BY <1>12, Zenon DEF Its
<1>16. current' \in Test \cup {None}
  BY <1>7
<1> QED
  BY <1>6, <1>9, <1>13, <1>14, <1>15, <1>16, Zenon DEF ChainsInv

(* Giving back the trailing empty slots leaves every chain at its index.   *)
LEMMA TailIs ==
  ASSUME NEW cs \in Seq(Chain \cup {None})
  PROVE  /\ WithoutTail(cs) \in Seq(Chain \cup {None})
         /\ DOMAIN WithoutTail(cs) \in SUBSET DOMAIN cs
         /\ \A i \in DOMAIN WithoutTail(cs) : WithoutTail(cs)[i] = cs[i]
         /\ \A i \in DOMAIN cs : cs[i] # None => i \in DOMAIN WithoutTail(cs)
<1> DEFINE l == Len(cs)
           Ends(n) == (\A i \in n + 1..l : cs[i] = None) /\ (n # 0 => cs[n] # None)
           S == {n \in 0..l : \A i \in n + 1..l : cs[i] = None}
           m == CHOOSE n \in 0..l : Ends(n)
           w == SubSeq(cs, 1, m)
<1>1. l \in Nat /\ DOMAIN cs = 1..l
  OBVIOUS
<1> HIDE DEF l
<1>2. \E n \in 0..l : Ends(n)
  <2>1. S \in SUBSET Nat /\ l \in S
    BY <1>1
  <2>2. PICK n \in S : \A k \in S : n <= k
    <3> HIDE DEF S
    <3> QED
      BY <2>1, LeastNatural
  <2>3. n # 0 => cs[n] # None
    <3> SUFFICES ASSUME n # 0, cs[n] = None PROVE FALSE
      OBVIOUS
    <3>1. n - 1 \in 0..l /\ n \in 1..l
      BY <1>1, <2>2
    <3>2. \A i \in n - 1 + 1..l : i = n \/ i \in n + 1..l
      BY <1>1, <3>1
    <3>3. n - 1 \in S
      BY <2>2, <3>1, <3>2
    <3>4. n <= n - 1
      BY <2>2, <3>3
    <3> QED
      BY <3>1, <3>4
  <2> QED
    BY <2>2, <2>3
<1>3. m \in 0..l /\ Ends(m)
  <2> HIDE DEF Ends
  <2> QED
    BY <1>2
<1>4. WithoutTail(cs) = w
  BY Zenon DEF WithoutTail, l
<1> HIDE DEF m
<1>5. /\ w \in Seq(Chain \cup {None}) /\ DOMAIN w = 1..m
      /\ \A i \in 1..m : w[i] = cs[i]
  BY <1>1, <1>3 DEF l
<1> HIDE DEF w
<1>6. (1..m) \in SUBSET (1..l) /\ \A i \in 1..l : cs[i] # None => i \in 1..m
  BY <1>1, <1>3
<1> QED
  BY <1>1, <1>4, <1>5, <1>6


LEMMA DestroyKeeps ==
  ASSUME ChainsInv, NEW t \in Test, Destroy(t)
  PROVE  ChainsInv'
<1> DEFINE id == tests[t].id
           cs == [chains EXCEPT ![id] = None]
<1>1. /\ chains' = WithoutTail(cs) /\ current' = None /\ tests[t] # None
      /\ selected' = (IF selected = id THEN None ELSE selected)
      /\ tests' = [tests EXCEPT ![t] = None]
  BY Zenon DEF Destroy
<1>2. /\ chains \in Seq(Chain \cup {None})
      /\ tests \in [Test -> Object \cup {None}] /\ ObjectsNameChains
      /\ \A i \in DOMAIN chains : chains[i] # None => ChainFits(chains[i]) /\ BlockIsRecent(chains[i])
      /\ \A u \in Test : tests[u] # None => ObjectIsRight(tests[u], Its(u))
  BY Zenon DEF ChainsInv
<1>3. id \in DOMAIN chains
  BY <1>1, ReadyIs
<1> HIDE DEF id
<1>4. /\ cs \in Seq(Chain \cup {None}) /\ DOMAIN cs = DOMAIN chains
      /\ \A i \in DOMAIN chains : cs[i] = IF i = id THEN None ELSE chains[i]
  BY <1>2, <1>3
<1> HIDE DEF cs
<1>5. /\ chains' \in Seq(Chain \cup {None})
      /\ DOMAIN chains' \in SUBSET DOMAIN cs
      /\ \A i \in DOMAIN chains' : chains'[i] = cs[i]
      /\ \A i \in DOMAIN cs : cs[i] # None => i \in DOMAIN chains'
  BY <1>1, <1>4, TailIs
<1>6. ASSUME NEW i \in DOMAIN chains', chains'[i] # None
      PROVE  i \in DOMAIN chains /\ chains'[i] = chains[i]
  BY <1>4, <1>5, <1>6
<1>7. ASSUME NEW i \in DOMAIN chains, chains[i] # None, i # id
      PROVE  i \in DOMAIN chains' /\ chains'[i] = chains[i] /\ chains'[i] # None
  BY <1>4, <1>5, <1>7
<1>8. /\ tests' \in [Test -> Object \cup {None}]
      /\ \A u \in Test : tests'[u] = IF u = t THEN None ELSE tests[u]
  BY <1>1, <1>2
<1>9. ASSUME NEW u \in Test, tests'[u] # None
      PROVE  /\ tests'[u] = tests[u] /\ tests[u] # None
             /\ tests[u].id \in DOMAIN chains' /\ chains'[tests[u].id] = chains[tests[u].id]
             /\ chains'[tests[u].id] # None
  <2>1. tests'[u] = tests[u] /\ tests[u] # None /\ u # t
    BY <1>8, <1>9
  <2>2. tests[u].id # id
    BY <1>1, <1>2, <2>1, Zenon DEF ObjectsNameChains, id
  <2>3. tests[u].id \in DOMAIN chains /\ chains[tests[u].id] # None
    BY <1>2, <2>1, Zenon DEF ObjectsNameChains, Exists
  <2> QED
    BY <1>7, <2>1, <2>2, <2>3
<1>10. ObjectsNameChains'
  <2>1. ASSUME NEW u \in Test, NEW v \in Test, tests'[u] # None, tests'[v] # None,
               tests'[u].id = tests'[v].id
        PROVE  u = v
    <3>1. tests[u] # None /\ tests[v] # None /\ tests[u].id = tests[v].id
      BY <1>9, <2>1
    <3> QED
      BY <1>2, <3>1, Zenon DEF ObjectsNameChains
  <2>2. ASSUME selected' # None PROVE selected' \in DOMAIN chains' /\ chains'[selected'] # None
    <3>1. selected' = selected /\ selected # id /\ selected # None
      BY <1>1, <2>2
    <3>2. selected \in DOMAIN chains /\ chains[selected] # None
      BY <1>2, <3>1, Zenon DEF ObjectsNameChains, Exists
    <3> QED
      BY <1>7, <3>1, <3>2
  <2>3. \A u \in Test : tests'[u] # None =>
          tests'[u].id \in DOMAIN chains' /\ chains'[tests'[u].id] # None
    BY <1>9
  <2> QED
    BY <1>1, <2>1, <2>2, <2>3 DEF ObjectsNameChains, Exists
<1>11. \A i \in DOMAIN chains' : chains'[i] # None => ChainFits(chains'[i]) /\ BlockIsRecent(chains'[i])
  BY <1>2, <1>6
<1>12. ASSUME NEW u \in Test, tests'[u] # None PROVE ObjectIsRight(tests'[u], Its(u)')
  <2>1. Its(u)' = Its(u) /\ tests'[u] = tests[u]
    BY <1>9, <1>12, Zenon DEF Its
  <2>2. ObjectIsRight(tests[u], Its(u))
    BY <1>2, <1>9, <1>12
  <2> QED
    BY <2>1, <2>2, Zenon
<1>13. current' \in Test \cup {None}
  BY <1>1
<1> QED
  BY <1>5, <1>8, <1>10, <1>11, <1>12, <1>13, Zenon DEF ChainsInv

LEMMA ChainsInitially == ChainInit => ChainsInv
<1> SUFFICES ASSUME ChainInit PROVE ChainsInv
  OBVIOUS
<1>1. /\ chains = <<>> /\ selected = None /\ current = None
      /\ tests = [t \in Test |-> None]
  BY DEF ChainInit
<1>2. \A t \in Test : tests[t] = None
  BY <1>1
<1>3. /\ chains \in Seq(Chain \cup {None}) /\ DOMAIN chains = {}
      /\ tests \in [Test -> Object \cup {None}]
  BY <1>1
<1>4. ObjectsNameChains
  BY <1>1, <1>2 DEF ObjectsNameChains
<1> QED
  BY <1>1, <1>2, <1>3, <1>4 DEF ChainsInv

LEMMA InvAnswers == ChainsInv => AnswersAreTheChains
<1> SUFFICES ASSUME ChainsInv PROVE AnswersAreTheChains
  OBVIOUS
<1>1. ASSUME NEW i \in DOMAIN chains, chains[i] # None
      PROVE  /\ ContextIsFresh(chains[i]) /\ BlockIsRecent(chains[i])
             /\ HistoryIsWhole(chains[i]) /\ FileIsWhole(chains[i])
  <2> DEFINE c == chains[i]
  <2>1. ChainFits(c) /\ BlockIsRecent(c)
    BY <1>1, Zenon DEF ChainsInv
  <2> HIDE DEF c
  <2>2. ContextIsFresh(c)
    BY <2>1 DEF ChainFits
  <2>3. HistoryIsWhole(c) /\ FileIsWhole(c)
    BY <2>1, FitsIsWhole, FitsIsWritten
  <2> QED
    BY <2>1, <2>2, <2>3 DEF c
<1> QED
  BY <1>1, Zenon DEF AnswersAreTheChains, ChainsInv, Exists, Ready

(* What a test reads in tables, asks of a chain object, is told of blocks, *)
(* and writes for the dfuse receiver is what its own chain did             *)
(* (AnswersAreTheChains), for any number of chains, objects, blocks and    *)
(* transactions: no context outlives the block it was opened in, blocks    *)
(* and their history grow together, and a number that a destroyed chain    *)
(* gave back names no other chain of an object that is still held.         *)
THEOREM ChainsAnswer == ChainSpec => []AnswersAreTheChains
<1>1. ChainInit => ChainsInv
  BY ChainsInitially
<1>2. ChainsInv /\ [ChainNext]_chainVars => ChainsInv'
  <2> SUFFICES ASSUME ChainsInv, [ChainNext]_chainVars PROVE ChainsInv'
    OBVIOUS
  <2>1. CASE UNCHANGED chainVars
    <3>1. chains' = chains /\ selected' = selected /\ tests' = tests /\ current' = current
      BY <2>1 DEF chainVars
    <3>2. ObjectsNameChains'
      BY <3>1 DEF ChainsInv, ObjectsNameChains, Exists
    <3>3. \A u \in Test : Its(u)' = Its(u)
      BY <3>1 DEF Its
    <3> QED
      BY <3>1, <3>2, <3>3, Zenon DEF ChainsInv
  <2>2. ASSUME ReadTable PROVE ChainsInv'
    BY <2>2, ReadTableKeeps
  <2>3. ASSUME SendInline PROVE ChainsInv'
    <3>1. current \in Test /\ Transact(current)
      BY <2>3 DEF SendInline, ChainsInv
    <3> QED
      BY <3>1, TransactKeeps
  <2>4. ASSUME NEW t \in Test, Create(t) PROVE ChainsInv'
    BY <2>4, CreateKeeps
  <2>5. ASSUME NEW t \in Test, Destroy(t) PROVE ChainsInv'
    BY <2>5, DestroyKeeps
  <2>6. ASSUME NEW t \in Test, Shutdown(t) PROVE ChainsInv'
    BY <2>6, ShutdownKeeps
  <2>7. ASSUME NEW t \in Test, SelectForDb(t) PROVE ChainsInv'
    BY <2>7, SelectKeeps
  <2>8. ASSUME NEW t \in Test, GetHeadInfo(t) PROVE ChainsInv'
    BY <2>8, GetHeadInfoKeeps
  <2>9. ASSUME NEW t \in Test, StartBlock(t) PROVE ChainsInv'
    BY <2>9, StartBlockKeeps
  <2>10. ASSUME NEW t \in Test, StartBlockAt(t) PROVE ChainsInv'
    BY <2>10, StartBlockAtKeeps
  <2>11. ASSUME NEW t \in Test, FinishBlock(t) PROVE ChainsInv'
    BY <2>11, FinishBlockKeeps
  <2>12. ASSUME NEW t \in Test, Transact(t) PROVE ChainsInv'
    BY <2>12, TransactKeeps
  <2>13. ASSUME NEW t \in Test, ExecDeferred(t) PROVE ChainsInv'
    BY <2>13, ExecDeferredKeeps
  <2> QED
    BY <2>1, <2>2, <2>3, <2>4, <2>5, <2>6, <2>7, <2>8, <2>9, <2>10, <2>11, <2>12, <2>13, Zenon
    DEF ChainNext
<1>3. ChainsInv => AnswersAreTheChains
  BY InvAnswers
<1> QED
  BY <1>1, <1>2, <1>3, PTL DEF ChainSpec
=============================================================================
