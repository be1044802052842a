----------------------------- MODULE UndoProofs -----------------------------
(***************************************************************************)
(* The undo index keeps its promise: whatever is created, modified,        *)
(* removed, squashed, committed or compressed, each open session can still *)
(* restore its rows and ids (UndoDb), and no node is lost or freed twice.  *)
(***************************************************************************)
EXTENDS UndoIndex, FoldLemmas, FiniteSetTheorems, SequenceTheorems, TLAPS

Row == [key : Key, val : Val, mtime : Nat]
Copy == [at : Nat \ {0}, current : Nat, row : Row]
Session == [oldEnd : Nat \cup {NULL}, removedEnd : Nat \cup {NULL},
            oldNextId : Nat, ctime : Nat]

IndexType(u) ==
  /\ u = [node |-> u.node, rows |-> u.rows, oldValues |-> u.oldValues,
          removedValues |-> u.removedValues, undoStack |-> u.undoStack,
          nextId |-> u.nextId, revision |-> u.revision, monotonic |-> u.monotonic]
  /\ DOMAIN u.node \subseteq Nat /\ u.node \in [DOMAIN u.node -> Row]
  /\ u.rows \subseteq DOMAIN u.node
  /\ u.oldValues \in Seq(Copy)
  /\ u.removedValues \in Seq(Nat)
  /\ u.undoStack \in Seq(Session)
  /\ u.nextId \in Nat /\ u.monotonic \in Nat /\ u.revision \in Int
-----------------------------------------------------------------------------
(* The part of a list that a session's mark delimits.                      *)
MarkedOld(u, at, op) ==
  /\ op \in 1..Len(u.oldValues) + 1
  /\ at = NULL => op = Len(u.oldValues) + 1
  /\ at # NULL => op \in 1..Len(u.oldValues) /\ u.oldValues[op].at = at

MarkedRemoved(u, id, rp) ==
  /\ rp \in 1..Len(u.removedValues) + 1
  /\ id = NULL => rp = Len(u.removedValues) + 1
  /\ id # NULL => rp \in 1..Len(u.removedValues) /\ u.removedValues[rp] = id

OldEnd(u, s) == OldPos(u, s.oldEnd)
RemovedEnd(u, s) == RemovedPos(u, s.removedEnd)

Distinct(u) ==
  /\ \A p, q \in 1..Len(u.oldValues) : u.oldValues[p].at = u.oldValues[q].at => p = q
  /\ \A p, q \in 1..Len(u.removedValues) : u.removedValues[p] = u.removedValues[q] => p = q

(* The copies that undoing a session may write back.                       *)
Copies(u, s, i) ==
  {p \in 1..OldEnd(u, s) - 1 : /\ u.oldValues[p].current = i
                               /\ u.oldValues[p].row.mtime < s.ctime}

(* What a session needs from oldValues ...                                 *)
Marked(u, s) == MarkedOld(u, s.oldEnd, OldEnd(u, s)) /\ MarkedRemoved(u, s.removedEnd, RemovedEnd(u, s))
(* a node not written to since is one of the session's,                    *)
OlderNodes(u, s) == \A i \in DOMAIN u.node : u.node[i].mtime < s.ctime => i < s.oldNextId
OlderCopies(u, s) ==
  \A p \in 1..OldEnd(u, s) - 1 :
    u.oldValues[p].row.mtime < s.ctime =>
      u.oldValues[p].current < s.oldNextId /\ u.oldValues[p].current \in DOMAIN u.node
(* one written to since has a copy,                                        *)
HasCopy(u, s) ==
  \A i \in DOMAIN u.node :
    i < s.oldNextId /\ u.node[i].mtime >= s.ctime => Copies(u, s, i) # {}
(* and a copy that is too new is followed by one that is not.              *)
HasOlderCopy(u, s) ==
  \A p \in 1..OldEnd(u, s) - 1 :
    /\ u.oldValues[p].row.mtime >= s.ctime
    /\ u.oldValues[p].current < s.oldNextId
    => \E q \in Copies(u, s, u.oldValues[p].current) : q > p
(* What was modified since was not removed before.                         *)
ModifiedThenRemoved(u, s) ==
  \A p \in 1..OldEnd(u, s) - 1, q \in 1..Len(u.removedValues) :
    u.oldValues[p].current = u.removedValues[q] => q < RemovedEnd(u, s)

(* What was removed before is older than the session.                      *)
RemovedEarlier(u, s) ==
  \A q \in 1..Len(u.removedValues) : q < RemovedEnd(u, s) \/ u.removedValues[q] < s.oldNextId

OldKept(u, s) == OlderNodes(u, s) /\ OlderCopies(u, s) /\ HasCopy(u, s) /\ HasOlderCopy(u, s)
Kept(u, s) ==
  Marked(u, s) /\ OldKept(u, s) /\ ModifiedThenRemoved(u, s) /\ RemovedEarlier(u, s)

Older(u, s, t) ==
  /\ OldEnd(u, t) <= OldEnd(u, s) /\ RemovedEnd(u, t) <= RemovedEnd(u, s)
  /\ s.ctime < t.ctime /\ s.oldNextId <= t.oldNextId

Accounted(u) ==
  /\ u.rows \cup ToSet(u.removedValues) = DOMAIN u.node
  /\ u.rows \cap ToSet(u.removedValues) = {}
  /\ \A i \in DOMAIN u.node : i < u.nextId

Times(u) ==
  /\ \A i \in DOMAIN u.node : u.node[i].mtime <= u.monotonic
  /\ \A p \in 1..Len(u.oldValues) : u.oldValues[p].row.mtime <= u.monotonic
  /\ \A k \in 1..Len(u.undoStack) : /\ u.undoStack[k].ctime <= u.monotonic
                                    /\ u.undoStack[k].oldNextId <= u.nextId

Good(u) ==
  /\ IndexType(u) /\ Distinct(u) /\ Accounted(u) /\ Times(u)
  /\ \A k \in 1..Len(u.undoStack) : Kept(u, u.undoStack[k])
  /\ \A k, j \in 1..Len(u.undoStack) : j < k => Older(u, u.undoStack[j], u.undoStack[k])

Inv == Good(index)

-----------------------------------------------------------------------------
(* Positions and the last of several.                                      *)
LEMMA OldPosIs ==
  ASSUME NEW u, u.oldValues \in Seq(Copy), Distinct(u), NEW at, NEW op, MarkedOld(u, at, op)
  PROVE  OldPos(u, at) = op
<1>1. DOMAIN u.oldValues = 1..Len(u.oldValues) /\ Len(u.oldValues) \in Nat
  OBVIOUS
<1>2. CASE at = NULL
  BY <1>2 DEF MarkedOld, OldPos
<1>3. CASE at # NULL
  <2>1. op \in 1..Len(u.oldValues) /\ u.oldValues[op].at = at
    BY <1>3 DEF MarkedOld
  <2>2. \A i \in DOMAIN u.oldValues : u.oldValues[i].at = at <=> i = op
    BY <1>1, <2>1 DEF Distinct
  <2> QED
    BY <1>1, <1>3, <2>1, <2>2 DEF OldPos
<1> QED
  BY <1>2, <1>3

LEMMA RemovedPosIs ==
  ASSUME NEW u, u.removedValues \in Seq(Nat), Distinct(u), NEW id, NEW rp, MarkedRemoved(u, id, rp)
  PROVE  RemovedPos(u, id) = rp
<1>1. DOMAIN u.removedValues = 1..Len(u.removedValues) /\ Len(u.removedValues) \in Nat
  OBVIOUS
<1>2. CASE id = NULL
  BY <1>2 DEF MarkedRemoved, RemovedPos
<1>3. CASE id # NULL
  <2>1. rp \in 1..Len(u.removedValues) /\ u.removedValues[rp] = id
    BY <1>3 DEF MarkedRemoved
  <2>2. \A i \in DOMAIN u.removedValues : u.removedValues[i] = id <=> i = rp
    BY <1>1, <2>1 DEF Distinct
  <2> QED
    BY <1>1, <1>3, <2>1, <2>2 DEF RemovedPos
<1> QED
  BY <1>2, <1>3

LEMMA LargestOf ==
  ASSUME NEW n \in Nat, NEW S \in SUBSET (1..n), S # {}
  PROVE  /\ Max(S) \in S
         /\ \A x \in S : x <= Max(S)
<1> DEFINE T == {m \in Nat : n - m \in S}
<1>1. \A x \in S : x \in 1..n /\ n - x \in T /\ n - (n - x) = x
  OBVIOUS
<1>2. T \in SUBSET Nat /\ T # {}
  BY <1>1
<1> HIDE DEF T
<1>3. PICK m \in T : \A l \in T : m <= l
  BY <1>2, LeastNatural
<1>4. m \in Nat /\ n - m \in S
  BY <1>3 DEF T
<1>5. \A y \in S : n - m >= y
  BY <1>1, <1>3, <1>4
<1>6. \E x \in S : \A y \in S : x >= y
  BY <1>4, <1>5
<1>7. Max(S) \in S /\ \A y \in S : Max(S) >= y
  BY <1>6 DEF Max
<1> QED
  BY <1>1, <1>7

(* The row that undoing a session restores: the oldest copy that counts.   *)
Restored(u, s, i) ==
  IF Copies(u, s, i) = {} THEN u.node[i] ELSE u.oldValues[Max(Copies(u, s, i))].row

LastCopy(u, s, i, p) == p \in Copies(u, s, i) /\ \A q \in Copies(u, s, i) : q <= p

LEMMA NodesBeforeIs ==
  ASSUME NEW u, NEW s
  PROVE  NodesBefore(u, s) = [i \in DOMAIN u.node |-> Restored(u, s, i)]
BY Zenon DEF NodesBefore, Restored, Copies, OldEnd

LEMMA HasLastCopy ==
  ASSUME NEW u, NEW s, OldEnd(u, s) \in Nat \ {0}, NEW i, Copies(u, s, i) # {}
  PROVE  \E p : LastCopy(u, s, i, p)
<1>1. OldEnd(u, s) - 1 \in Nat
  OBVIOUS
<1>2. Copies(u, s, i) \in SUBSET (1..(OldEnd(u, s) - 1))
  BY Zenon DEF Copies
<1> QED
  BY <1>1, <1>2, LargestOf DEF LastCopy

LEMMA RestoredNode ==
  ASSUME NEW u, NEW s, NEW i, Copies(u, s, i) = {}
  PROVE  Restored(u, s, i) = u.node[i]
BY DEF Restored

LEMMA RestoredCopy ==
  ASSUME NEW u, NEW s, NEW i, NEW p, LastCopy(u, s, i, p)
  PROVE  Restored(u, s, i) = u.oldValues[p].row
<1>1. \A q \in Copies(u, s, i) : q \in Int
  BY DEF Copies
<1>2. p \in Copies(u, s, i) /\ \A q \in Copies(u, s, i) : p >= q
  BY <1>1 DEF LastCopy
<1>3. \A x \in Copies(u, s, i) : (\A q \in Copies(u, s, i) : x >= q) => x = p
  BY <1>1, <1>2
<1>4. Max(Copies(u, s, i)) = p
  BY <1>2, <1>3 DEF Max
<1> QED
  BY <1>2, <1>4, Zenon DEF Restored
-----------------------------------------------------------------------------
(* undo, commit and compression thin the lists out: what is left are the   *)
(* entries at the positions in K, in order; f says where each comes from.  *)
Thinned(s, r, K, f) ==
  /\ Len(r) \in Nat /\ Len(s) \in Nat
  /\ K \in SUBSET (1..Len(s))
  /\ \A j \in 1..Len(r) : f[j] \in K /\ r[j] = s[f[j]]
  /\ \A i, j \in 1..Len(r) : i < j => f[i] < f[j]
  /\ \A p \in K : \E j \in 1..Len(r) : f[j] = p

(* A mark that is left delimits what is left of what it delimited.         *)
Delimits(n, f, before, after) == \A j \in 1..n : j < after <=> f[j] < before

Orders(m, n, f) ==
  /\ \A j \in 1..n : f[j] \in 1..m
  /\ \A i, j \in 1..n : i < j <=> f[i] < f[j]
  /\ \A i, j \in 1..n : f[i] = f[j] => i = j

LEMMA ThinnedOrder ==
  ASSUME NEW s, NEW r, NEW K, NEW f, Thinned(s, r, K, f)
  PROVE  Orders(Len(s), Len(r), f)
<1>1. \A j \in 1..Len(r) : f[j] \in 1..Len(s)
  BY Zenon DEF Thinned
<1>2. \A i, j \in 1..Len(r) : i < j => f[i] < f[j]
  BY Zenon DEF Thinned
<1>3. Len(r) \in Nat /\ Len(s) \in Nat
  BY Zenon DEF Thinned
<1> QED
  BY <1>1, <1>2, <1>3 DEF Orders

LEMMA ThinnedOld ==
  ASSUME NEW u, NEW v, u.oldValues \in Seq(Copy), v.oldValues \in Seq(Copy), Distinct(u),
         NEW K, NEW f, Thinned(u.oldValues, v.oldValues, K, f)
  PROVE  \A p, q \in 1..Len(v.oldValues) : v.oldValues[p].at = v.oldValues[q].at => p = q
<1>1. Orders(Len(u.oldValues), Len(v.oldValues), f)
  BY ThinnedOrder, Zenon
<1> SUFFICES ASSUME NEW p \in 1..Len(v.oldValues), NEW q \in 1..Len(v.oldValues),
                    v.oldValues[p].at = v.oldValues[q].at
             PROVE  p = q
  OBVIOUS
<1>2. /\ f[p] \in 1..Len(u.oldValues) /\ v.oldValues[p] = u.oldValues[f[p]]
      /\ f[q] \in 1..Len(u.oldValues) /\ v.oldValues[q] = u.oldValues[f[q]]
  BY <1>1, Zenon DEF Thinned, Orders
<1>3. f[p] = f[q]
  BY <1>2 DEF Distinct
<1> QED
  BY <1>1, <1>3, Zenon DEF Orders

LEMMA ThinnedRemoved ==
  ASSUME NEW u, NEW v, u.removedValues \in Seq(Nat), v.removedValues \in Seq(Nat), Distinct(u),
         NEW K, NEW f, Thinned(u.removedValues, v.removedValues, K, f)
  PROVE  \A p, q \in 1..Len(v.removedValues) : v.removedValues[p] = v.removedValues[q] => p = q
<1>1. Orders(Len(u.removedValues), Len(v.removedValues), f)
  BY ThinnedOrder, Zenon
<1> SUFFICES ASSUME NEW p \in 1..Len(v.removedValues), NEW q \in 1..Len(v.removedValues),
                    v.removedValues[p] = v.removedValues[q]
             PROVE  p = q
  OBVIOUS
<1>2. /\ f[p] \in 1..Len(u.removedValues) /\ v.removedValues[p] = u.removedValues[f[p]]
      /\ f[q] \in 1..Len(u.removedValues) /\ v.removedValues[q] = u.removedValues[f[q]]
  BY <1>1, Zenon DEF Thinned, Orders
<1>3. f[p] = f[q]
  BY <1>2 DEF Distinct
<1> QED
  BY <1>1, <1>3, Zenon DEF Orders

LEMMA ThinnedOldMark ==
  ASSUME NEW u, NEW v, u.oldValues \in Seq(Copy), v.oldValues \in Seq(Copy),
         Distinct(u), Distinct(v),
         NEW K, NEW f, Thinned(u.oldValues, v.oldValues, K, f),
         NEW s, MarkedOld(u, s.oldEnd, OldEnd(u, s)),
         s.oldEnd = NULL \/ OldEnd(u, s) \in K
  PROVE  /\ MarkedOld(v, s.oldEnd, OldEnd(v, s))
         /\ Delimits(Len(v.oldValues), f, OldEnd(u, s), OldEnd(v, s))
<1>1. Len(u.oldValues) \in Nat /\ Len(v.oldValues) \in Nat
  OBVIOUS
<1>2. \E op : /\ MarkedOld(v, s.oldEnd, op)
              /\ Delimits(Len(v.oldValues), f, OldEnd(u, s), op)
  <2>1. CASE s.oldEnd = NULL
    <3>1. OldEnd(u, s) = Len(u.oldValues) + 1
      BY <2>1 DEF MarkedOld
    <3>2. Orders(Len(u.oldValues), Len(v.oldValues), f)
      BY ThinnedOrder, Zenon
    <3>3. Delimits(Len(v.oldValues), f, OldEnd(u, s), Len(v.oldValues) + 1)
      <4> SUFFICES ASSUME NEW j \in 1..Len(v.oldValues)
                   PROVE  j < Len(v.oldValues) + 1 <=> f[j] < OldEnd(u, s)
        BY Zenon DEF Delimits
      <4>1. f[j] \in 1..Len(u.oldValues)
        BY <3>2, Zenon DEF Orders
      <4> QED
        BY <1>1, <3>1, <4>1
    <3>4. MarkedOld(v, s.oldEnd, Len(v.oldValues) + 1)
      BY <1>1, <2>1 DEF MarkedOld
    <3> QED
      BY <3>3, <3>4, Zenon
  <2>2. CASE s.oldEnd # NULL
    <3>1. OldEnd(u, s) \in K /\ u.oldValues[OldEnd(u, s)].at = s.oldEnd
      BY <2>2 DEF MarkedOld
    <3>2. PICK j \in 1..Len(v.oldValues) : f[j] = OldEnd(u, s)
      BY <3>1, Zenon DEF Thinned
    <3>3. v.oldValues[j].at = s.oldEnd
      BY <3>1, <3>2, Zenon DEF Thinned
    <3>4. MarkedOld(v, s.oldEnd, j)
      BY <1>1, <2>2, <3>3 DEF MarkedOld
    <3>5. Orders(Len(u.oldValues), Len(v.oldValues), f)
      BY ThinnedOrder, Zenon
    <3>6. Delimits(Len(v.oldValues), f, OldEnd(u, s), j)
      <4> SUFFICES ASSUME NEW i \in 1..Len(v.oldValues)
                   PROVE  i < j <=> f[i] < OldEnd(u, s)
        BY Zenon DEF Delimits
      <4>1. i < j <=> f[i] < f[j]
        BY <3>5, Zenon DEF Orders
      <4> QED
        BY <3>2, <4>1
    <3> QED
      BY <3>4, <3>6, Zenon
  <2> QED
    BY <2>1, <2>2
<1>3. PICK op : MarkedOld(v, s.oldEnd, op) /\ Delimits(Len(v.oldValues), f, OldEnd(u, s), op)
  BY <1>2, Zenon
<1>4. OldEnd(v, s) = op
  BY <1>3, OldPosIs, Zenon DEF OldEnd
<1> QED
  BY <1>3, <1>4, Zenon

LEMMA ThinnedRemovedMark ==
  ASSUME NEW u, NEW v, u.removedValues \in Seq(Nat), v.removedValues \in Seq(Nat),
         Distinct(u), Distinct(v),
         NEW K, NEW f, Thinned(u.removedValues, v.removedValues, K, f),
         NEW s, MarkedRemoved(u, s.removedEnd, RemovedEnd(u, s)),
         s.removedEnd = NULL \/ RemovedEnd(u, s) \in K
  PROVE  /\ MarkedRemoved(v, s.removedEnd, RemovedEnd(v, s))
         /\ Delimits(Len(v.removedValues), f, RemovedEnd(u, s), RemovedEnd(v, s))
<1>1. Len(u.removedValues) \in Nat /\ Len(v.removedValues) \in Nat
  OBVIOUS
<1>2. \E rp : /\ MarkedRemoved(v, s.removedEnd, rp)
              /\ Delimits(Len(v.removedValues), f, RemovedEnd(u, s), rp)
  <2>1. CASE s.removedEnd = NULL
    <3>1. RemovedEnd(u, s) = Len(u.removedValues) + 1
      BY <2>1 DEF MarkedRemoved
    <3>2. Orders(Len(u.removedValues), Len(v.removedValues), f)
      BY ThinnedOrder, Zenon
    <3>3. Delimits(Len(v.removedValues), f, RemovedEnd(u, s), Len(v.removedValues) + 1)
      <4> SUFFICES ASSUME NEW j \in 1..Len(v.removedValues)
                   PROVE  j < Len(v.removedValues) + 1 <=> f[j] < RemovedEnd(u, s)
        BY Zenon DEF Delimits
      <4>1. f[j] \in 1..Len(u.removedValues)
        BY <3>2, Zenon DEF Orders
      <4> QED
        BY <1>1, <3>1, <4>1
    <3>4. MarkedRemoved(v, s.removedEnd, Len(v.removedValues) + 1)
      BY <1>1, <2>1 DEF MarkedRemoved
    <3> QED
      BY <3>3, <3>4, Zenon
  <2>2. CASE s.removedEnd # NULL
    <3>1. RemovedEnd(u, s) \in K /\ u.removedValues[RemovedEnd(u, s)] = s.removedEnd
      BY <2>2 DEF MarkedRemoved
    <3>2. PICK j \in 1..Len(v.removedValues) : f[j] = RemovedEnd(u, s)
      BY <3>1, Zenon DEF Thinned
    <3>3. v.removedValues[j] = s.removedEnd
      BY <3>1, <3>2, Zenon DEF Thinned
    <3>4. MarkedRemoved(v, s.removedEnd, j)
      BY <1>1, <2>2, <3>3 DEF MarkedRemoved
    <3>5. Orders(Len(u.removedValues), Len(v.removedValues), f)
      BY ThinnedOrder, Zenon
    <3>6. Delimits(Len(v.removedValues), f, RemovedEnd(u, s), j)
      <4> SUFFICES ASSUME NEW i \in 1..Len(v.removedValues)
                   PROVE  i < j <=> f[i] < RemovedEnd(u, s)
        BY Zenon DEF Delimits
      <4>1. i < j <=> f[i] < f[j]
        BY <3>5, Zenon DEF Orders
      <4> QED
        BY <3>2, <4>1
    <3> QED
      BY <3>4, <3>6, Zenon
  <2> QED
    BY <2>1, <2>2
<1>3. PICK rp : /\ MarkedRemoved(v, s.removedEnd, rp)
                /\ Delimits(Len(v.removedValues), f, RemovedEnd(u, s), rp)
  BY <1>2, Zenon
<1>4. RemovedEnd(v, s) = rp
  BY <1>3, RemovedPosIs, Zenon DEF RemovedEnd
<1> QED
  BY <1>3, <1>4, Zenon

(* A list that is thinned out leaves a session's copies of a node in place *)
(* if none of them goes; or one copy becomes the node and the older ones,  *)
(* which are those of an older session, stay.                              *)
LeftAlone(u, v, s, i, K) == v.node[i] = u.node[i] /\ Copies(u, s, i) \subseteq K

WrittenFrom(u, v, s, i, K, m) ==
  /\ m \in 1..OldEnd(u, s) - 1 /\ u.oldValues[m].current = i
  /\ v.node[i] = u.oldValues[m].row
  /\ \A q \in Copies(u, s, i) : q <= m \/ q \in K
  /\ \A q \in K : u.oldValues[q].current = i => q > m

Listed(u, s) ==
  /\ u.oldValues \in Seq(Copy) /\ s \in Session
  /\ OldEnd(u, s) \in 1..Len(u.oldValues) + 1
  /\ DOMAIN u.node \subseteq Nat /\ u.node \in [DOMAIN u.node -> Row]

NodesThinned(u, v, s, K) ==
  /\ \A i \in DOMAIN v.node :
       /\ i \in DOMAIN u.node
       /\ LeftAlone(u, v, s, i, K) \/ \E m : WrittenFrom(u, v, s, i, K, m)
  /\ \A p \in 1..OldEnd(u, s) - 1 :
       /\ u.oldValues[p].current < s.oldNextId
       /\ u.oldValues[p].current \in DOMAIN u.node
       => u.oldValues[p].current \in DOMAIN v.node

ThinnedOut(u, v, s, K, f) ==
  /\ Listed(u, s) /\ Listed(v, s)
  /\ Thinned(u.oldValues, v.oldValues, K, f)
  /\ Delimits(Len(v.oldValues), f, OldEnd(u, s), OldEnd(v, s))
  /\ NodesThinned(u, v, s, K)

IsCopy(u, s, i, p) ==
  /\ p \in 1..OldEnd(u, s) - 1 /\ p \in 1..Len(u.oldValues)
  /\ u.oldValues[p].current = i /\ u.oldValues[p].row.mtime < s.ctime

LEMMA CopiesAre ==
  ASSUME NEW u, NEW s, Listed(u, s), NEW i
  PROVE  \A p : p \in Copies(u, s, i) <=> IsCopy(u, s, i, p)
<1>1. Len(u.oldValues) \in Nat /\ OldEnd(u, s) \in 1..Len(u.oldValues) + 1
  BY DEF Listed
<1>2. \A p \in 1..OldEnd(u, s) - 1 : p \in 1..Len(u.oldValues)
  BY <1>1
<1> QED
  BY <1>2, Zenon DEF Copies, IsCopy

LEMMA ThinnedCopies ==
  ASSUME NEW u, NEW v, NEW s, NEW K, NEW f, ThinnedOut(u, v, s, K, f),
         NEW i, NEW j \in 1..Len(v.oldValues)
  PROVE  j \in Copies(v, s, i) <=> f[j] \in Copies(u, s, i)
<1>1. Listed(u, s) /\ Listed(v, s)
  BY DEF ThinnedOut
<1>2. f[j] \in 1..Len(u.oldValues) /\ v.oldValues[j] = u.oldValues[f[j]]
  <2>1. Thinned(u.oldValues, v.oldValues, K, f)
    BY Zenon DEF ThinnedOut
  <2>2. Orders(Len(u.oldValues), Len(v.oldValues), f)
    BY <2>1, ThinnedOrder, Zenon
  <2> QED
    BY <2>1, <2>2, Zenon DEF Thinned, Orders
<1>3. j < OldEnd(v, s) <=> f[j] < OldEnd(u, s)
  BY Zenon DEF ThinnedOut, Delimits
<1>4. /\ OldEnd(u, s) \in Int /\ OldEnd(v, s) \in Int
      /\ Len(u.oldValues) \in Nat /\ Len(v.oldValues) \in Nat
  BY <1>1 DEF Listed
<1>5. j \in 1..OldEnd(v, s) - 1 <=> f[j] \in 1..OldEnd(u, s) - 1
  BY <1>2, <1>3, <1>4
<1>6. IsCopy(v, s, i, j) <=> IsCopy(u, s, i, f[j])
  BY <1>2, <1>5, Zenon DEF IsCopy
<1> QED
  BY <1>1, <1>6, CopiesAre, Zenon

EntryFrom(u, v, s, K, f, j) ==
  /\ j \in 1..Len(v.oldValues) /\ f[j] \in K /\ f[j] \in 1..OldEnd(u, s) - 1
  /\ v.oldValues[j] = u.oldValues[f[j]]

LEMMA ThinnedEntry ==
  ASSUME NEW u, NEW v, NEW s, NEW K, NEW f, ThinnedOut(u, v, s, K, f),
         NEW j \in 1..OldEnd(v, s) - 1
  PROVE  EntryFrom(u, v, s, K, f, j)
<1>1. /\ OldEnd(u, s) \in Int /\ OldEnd(v, s) \in 1..Len(v.oldValues) + 1
      /\ Len(u.oldValues) \in Nat /\ Len(v.oldValues) \in Nat
  BY DEF ThinnedOut, Listed
<1>2. j \in 1..Len(v.oldValues) /\ j < OldEnd(v, s)
  BY <1>1
<1>3. Thinned(u.oldValues, v.oldValues, K, f)
  BY Zenon DEF ThinnedOut
<1>4. f[j] \in K /\ f[j] \in 1..Len(u.oldValues) /\ v.oldValues[j] = u.oldValues[f[j]]
  BY <1>2, <1>3, Zenon DEF Thinned
<1>5. f[j] < OldEnd(u, s)
  BY <1>2, Zenon DEF ThinnedOut, Delimits
<1> QED
  BY <1>1, <1>2, <1>4, <1>5 DEF EntryFrom

LEMMA NodeAndCopy ==
  ASSUME NEW u, NEW s, Listed(u, s)
  PROVE  /\ \A i \in DOMAIN u.node : u.node[i].mtime \in Nat /\ i \in Nat
         /\ \A p \in 1..OldEnd(u, s) - 1 : /\ p \in 1..Len(u.oldValues)
                                           /\ u.oldValues[p].row.mtime \in Nat
                                           /\ u.oldValues[p].current \in Nat
         /\ s.ctime \in Nat /\ s.oldNextId \in Nat
<1>1. \A i \in DOMAIN u.node : u.node[i] \in Row /\ i \in Nat
  BY Zenon DEF Listed
<1>2. \A i \in DOMAIN u.node : u.node[i].mtime \in Nat
  BY <1>1 DEF Row
<1>3. Len(u.oldValues) \in Nat /\ OldEnd(u, s) \in 1..Len(u.oldValues) + 1
  BY DEF Listed
<1>4. \A p \in 1..OldEnd(u, s) - 1 : p \in 1..Len(u.oldValues)
  BY <1>3
<1>5. \A p \in 1..Len(u.oldValues) : u.oldValues[p] \in Copy
  BY DEF Listed
<1>6. \A c \in Copy : c.row.mtime \in Nat /\ c.current \in Nat
  BY DEF Copy, Row
<1>7. s.ctime \in Nat /\ s.oldNextId \in Nat
  BY DEF Listed, Session
<1> QED
  BY <1>1, <1>2, <1>4, <1>5, <1>6, <1>7, Zenon

LEMMA ThinnedNode ==
  ASSUME NEW u, NEW v, NEW s, NEW K, NEW f, ThinnedOut(u, v, s, K, f), OldKept(u, s),
         NEW i \in DOMAIN v.node
  PROVE  /\ v.node[i].mtime < s.ctime => i < s.oldNextId
         /\ i < s.oldNextId /\ v.node[i].mtime >= s.ctime => Copies(v, s, i) # {}
<1>1. Listed(u, s) /\ Listed(v, s) /\ i \in DOMAIN u.node
  BY Zenon DEF ThinnedOut, NodesThinned
<1>2. /\ \A p \in 1..OldEnd(u, s) - 1 : /\ p \in 1..Len(u.oldValues)
                                        /\ u.oldValues[p].row.mtime \in Nat
                                        /\ u.oldValues[p].current \in Nat
      /\ s.ctime \in Nat /\ s.oldNextId \in Nat /\ i \in Nat
  BY <1>1, NodeAndCopy
<1>3. ASSUME NEW q \in Copies(u, s, i), q \in K
      PROVE  Copies(v, s, i) # {}
  <2>1. PICK j \in 1..Len(v.oldValues) : f[j] = q
    BY <1>3, Zenon DEF ThinnedOut, Thinned
  <2>2. f[j] \in Copies(u, s, i)
    BY <1>3, <2>1
  <2>3. j \in Copies(v, s, i)
    BY <2>2, ThinnedCopies, Zenon
  <2> QED
    BY <2>3
<1>4. CASE LeftAlone(u, v, s, i, K)
  <2>1. v.node[i] = u.node[i] /\ Copies(u, s, i) \subseteq K
    BY <1>4 DEF LeftAlone
  <2>2. u.node[i].mtime < s.ctime => i < s.oldNextId
    BY <1>1, Zenon DEF OldKept, OlderNodes
  <2>3. i < s.oldNextId /\ u.node[i].mtime >= s.ctime => Copies(u, s, i) # {}
    BY <1>1, Zenon DEF OldKept, HasCopy
  <2>4. Copies(u, s, i) # {} => Copies(v, s, i) # {}
    BY <1>3, <2>1, Zenon
  <2> QED
    BY <2>1, <2>2, <2>3, <2>4, Zenon
<1>5. ASSUME NEW m, WrittenFrom(u, v, s, i, K, m)
      PROVE  /\ v.node[i].mtime < s.ctime => i < s.oldNextId
             /\ i < s.oldNextId /\ v.node[i].mtime >= s.ctime => Copies(v, s, i) # {}
  <2>1. /\ m \in 1..OldEnd(u, s) - 1 /\ u.oldValues[m].current = i
        /\ v.node[i] = u.oldValues[m].row
    BY <1>5, Zenon DEF WrittenFrom
  <2>2. u.oldValues[m].row.mtime < s.ctime => u.oldValues[m].current < s.oldNextId
    BY <2>1, Zenon DEF OldKept, OlderCopies
  <2>3. ASSUME i < s.oldNextId, u.oldValues[m].row.mtime >= s.ctime
        PROVE  Copies(v, s, i) # {}
    <3>1. u.oldValues[m].current < s.oldNextId
      BY <2>1, <2>3
    <3>2. \E q \in Copies(u, s, u.oldValues[m].current) : q > m
      BY <2>1, <2>3, <3>1, Zenon DEF OldKept, HasOlderCopy
    <3>3. PICK q \in Copies(u, s, i) : q > m
      BY <2>1, <3>2
    <3>4. IsCopy(u, s, i, q)
      BY <1>1, CopiesAre, Zenon
    <3>5. q \in Int /\ m \in Int
      BY <2>1, <3>4 DEF IsCopy
    <3>6. q <= m \/ q \in K
      BY <1>5, Zenon DEF WrittenFrom
    <3>7. q \in K
      BY <3>3, <3>5, <3>6
    <3> QED
      BY <1>3, <3>7
  <2> QED
    BY <2>1, <2>2, <2>3, Zenon
<1>6. LeftAlone(u, v, s, i, K) \/ \E m : WrittenFrom(u, v, s, i, K, m)
  BY Zenon DEF ThinnedOut, NodesThinned
<1> QED
  BY <1>4, <1>5, <1>6, Zenon

LEMMA ThinnedKept ==
  ASSUME NEW u, NEW v, NEW s, NEW K, NEW f, ThinnedOut(u, v, s, K, f), OldKept(u, s)
  PROVE  OldKept(v, s)
<1>1. Listed(u, s) /\ Listed(v, s)
  BY Zenon DEF ThinnedOut
<1>2. OlderNodes(v, s)
  BY ThinnedNode, Zenon DEF OlderNodes
<1>3. HasCopy(v, s)
  BY ThinnedNode, Zenon DEF HasCopy
<1>4. OlderCopies(v, s)
  <2> SUFFICES ASSUME NEW j \in 1..OldEnd(v, s) - 1, v.oldValues[j].row.mtime < s.ctime
               PROVE  v.oldValues[j].current < s.oldNextId /\ v.oldValues[j].current \in DOMAIN v.node
    BY Zenon DEF OlderCopies
  <2>0. EntryFrom(u, v, s, K, f, j)
    BY ThinnedEntry, Zenon
  <2>1. f[j] \in 1..OldEnd(u, s) - 1 /\ v.oldValues[j] = u.oldValues[f[j]]
    BY <2>0, Zenon DEF EntryFrom
  <2>2. u.oldValues[f[j]].row.mtime < s.ctime
    BY <2>1, Zenon
  <2>3. /\ u.oldValues[f[j]].current < s.oldNextId
        /\ u.oldValues[f[j]].current \in DOMAIN u.node
    BY <2>1, <2>2, Zenon DEF OldKept, OlderCopies
  <2>4. u.oldValues[f[j]].current \in DOMAIN v.node
    BY <2>1, <2>3, Zenon DEF ThinnedOut, NodesThinned
  <2> QED
    BY <2>1, <2>3, <2>4, Zenon
<1>5. HasOlderCopy(v, s)
  <2> SUFFICES ASSUME NEW j \in 1..OldEnd(v, s) - 1,
                      v.oldValues[j].row.mtime >= s.ctime, v.oldValues[j].current < s.oldNextId
               PROVE  \E k \in Copies(v, s, v.oldValues[j].current) : k > j
    BY Zenon DEF HasOlderCopy
  <2> DEFINE i == v.oldValues[j].current
  <2>0. EntryFrom(u, v, s, K, f, j)
    BY ThinnedEntry, Zenon
  <2>1. /\ j \in 1..Len(v.oldValues) /\ f[j] \in K
        /\ f[j] \in 1..OldEnd(u, s) - 1 /\ v.oldValues[j] = u.oldValues[f[j]]
    BY <2>0, Zenon DEF EntryFrom
  <2>2. u.oldValues[f[j]].row.mtime >= s.ctime /\ u.oldValues[f[j]].current < s.oldNextId
    BY <2>1, Zenon
  <2>3. \E q \in Copies(u, s, u.oldValues[f[j]].current) : q > f[j]
    BY <2>1, <2>2, Zenon DEF OldKept, HasOlderCopy
  <2>4. i = u.oldValues[f[j]].current
    BY <2>1
  <2> HIDE DEF i
  <2>5. PICK q \in Copies(u, s, i) : q > f[j]
    BY <2>3, <2>4
  <2>6. IsCopy(u, s, i, q)
    BY <1>1, CopiesAre, Zenon
  <2>7. i \in DOMAIN u.node
    <3>1. /\ q \in 1..OldEnd(u, s) - 1 /\ u.oldValues[q].current = i
          /\ u.oldValues[q].row.mtime < s.ctime
      BY <2>6, Zenon DEF IsCopy
    <3>2. u.oldValues[q].current \in DOMAIN u.node
      BY <3>1, Zenon DEF OldKept, OlderCopies
    <3> QED
      BY <3>1, <3>2
  <2>8. i \in DOMAIN v.node
    <3>1. u.oldValues[f[j]].current < s.oldNextId /\ u.oldValues[f[j]].current \in DOMAIN u.node
      BY <2>2, <2>4, <2>7
    <3>2. u.oldValues[f[j]].current \in DOMAIN v.node
      BY <2>1, <3>1, Zenon DEF ThinnedOut, NodesThinned
    <3> QED
      BY <2>4, <3>2
  <2>9. q \in K
    <3>1. CASE LeftAlone(u, v, s, i, K)
      BY <3>1 DEF LeftAlone
    <3>2. ASSUME NEW m, WrittenFrom(u, v, s, i, K, m)
          PROVE  q \in K
      <4>1. f[j] > m
        <5>1. u.oldValues[f[j]].current = i /\ f[j] \in K
          BY <2>1, <2>4
        <5> QED
          BY <3>2, <5>1, Zenon DEF WrittenFrom
      <4>2. q <= m \/ q \in K
        BY <3>2, Zenon DEF WrittenFrom
      <4>3. q \in Int /\ f[j] \in Int /\ m \in Int
        <5>1. m \in 1..OldEnd(u, s) - 1
          BY <3>2, Zenon DEF WrittenFrom
        <5>2. q \in 1..OldEnd(u, s) - 1
          BY <2>6 DEF IsCopy
        <5> QED
          BY <2>1, <5>1, <5>2
      <4> QED
        BY <2>5, <4>1, <4>2, <4>3
    <3>3. LeftAlone(u, v, s, i, K) \/ \E m : WrittenFrom(u, v, s, i, K, m)
      BY <2>8, Zenon DEF ThinnedOut, NodesThinned
    <3> QED
      BY <3>1, <3>2, <3>3, Zenon
  <2>10. PICK k \in 1..Len(v.oldValues) : f[k] = q
    BY <2>9, Zenon DEF ThinnedOut, Thinned
  <2>11. k \in Copies(v, s, i)
    <3>1. f[k] \in Copies(u, s, i)
      BY <2>5, <2>10
    <3> QED
      BY <3>1, ThinnedCopies, Zenon
  <2>12. k > j
    <3>1. Orders(Len(u.oldValues), Len(v.oldValues), f)
      BY ThinnedOrder, Zenon DEF ThinnedOut
    <3>2. j < k <=> f[j] < f[k]
      BY <2>1, <3>1, Zenon DEF Orders
    <3>3. f[j] \in Int /\ q \in Int
      BY <2>1, <2>6 DEF IsCopy
    <3>4. f[j] < f[k]
      BY <2>5, <2>10, <3>3
    <3>5. j \in Int /\ k \in Int
      BY <2>1
    <3> QED
      BY <3>2, <3>4, <3>5
  <2> QED
    BY <2>11, <2>12, Zenon DEF i
<1> QED
  BY <1>2, <1>3, <1>4, <1>5, Zenon DEF OldKept

SameRestored(u, v, s, i) == Restored(v, s, i) = Restored(u, s, i)

LEMMA ThinnedRestored ==
  ASSUME NEW u, NEW v, NEW s, NEW K, NEW f, ThinnedOut(u, v, s, K, f), OldKept(u, s),
         NEW i \in DOMAIN v.node, i < s.oldNextId
  PROVE  SameRestored(u, v, s, i)
<1> SUFFICES Restored(v, s, i) = Restored(u, s, i)
  BY DEF SameRestored
<1>1. Listed(u, s) /\ Listed(v, s) /\ i \in DOMAIN u.node
  BY Zenon DEF ThinnedOut, NodesThinned
<1>2. /\ OldEnd(u, s) \in Nat \ {0} /\ OldEnd(v, s) \in Nat \ {0}
      /\ Len(u.oldValues) \in Nat /\ Len(v.oldValues) \in Nat
  BY <1>1 DEF Listed
<1>3. LeftAlone(u, v, s, i, K) \/ \E m : WrittenFrom(u, v, s, i, K, m)
  BY Zenon DEF ThinnedOut, NodesThinned
<1>4. Orders(Len(u.oldValues), Len(v.oldValues), f)
  BY ThinnedOrder, Zenon DEF ThinnedOut, NodesThinned
<1>5. \A q \in Copies(u, s, i) : q \in 1..Len(u.oldValues) /\ q \in 1..OldEnd(u, s) - 1
                                 /\ u.oldValues[q].current = i
  <2>1. \A q \in Copies(u, s, i) : IsCopy(u, s, i, q)
    BY <1>1, CopiesAre, Zenon
  <2> QED
    BY <2>1, Zenon DEF IsCopy
<1>6. \A j \in Copies(v, s, i) : j \in 1..Len(v.oldValues)
  BY <1>1, CopiesAre, Zenon DEF IsCopy
<1>7. ASSUME NEW q \in Copies(u, s, i), q \in K
      PROVE  \E k \in Copies(v, s, i) : f[k] = q
  <2>1. PICK k \in 1..Len(v.oldValues) : f[k] = q
    BY <1>7, Zenon DEF ThinnedOut, Thinned
  <2>2. f[k] \in Copies(u, s, i)
    BY <1>7, <2>1
  <2>3. k \in Copies(v, s, i)
    BY <2>2, ThinnedCopies, Zenon
  <2> QED
    BY <2>1, <2>3, Zenon
<1>8. CASE Copies(v, s, i) # {}
  <2>1. PICK j : LastCopy(v, s, i, j)
    BY <1>2, <1>8, HasLastCopy, Zenon
  <2>2. j \in Copies(v, s, i) /\ j \in 1..Len(v.oldValues)
    BY <1>6, <2>1 DEF LastCopy
  <2>3. f[j] \in Copies(u, s, i)
    BY <2>2, ThinnedCopies, Zenon
  <2>4. f[j] \in K /\ v.oldValues[j] = u.oldValues[f[j]]
    BY <2>2, Zenon DEF ThinnedOut, Thinned
  <2>5. ASSUME NEW q \in Copies(u, s, i)
        PROVE  q <= f[j]
    <3>1. q \in Int /\ f[j] \in Int
      BY <1>5, <2>3
    <3>2. CASE q \in K
      <4>1. PICK k \in Copies(v, s, i) : f[k] = q
        BY <1>7, <3>2
      <4>2. k <= j /\ k \in 1..Len(v.oldValues)
        BY <1>6, <2>1 DEF LastCopy
      <4>3. j < k <=> f[j] < f[k]
        BY <1>4, <2>2, <4>2, Zenon DEF Orders
      <4>4. j \in Int /\ k \in Int
        BY <2>2, <4>2
      <4>5. ~ (f[j] < f[k])
        BY <4>2, <4>3, <4>4
      <4> QED
        BY <3>1, <4>1, <4>5
    <3>3. CASE q \notin K
      <4>1. PICK m : WrittenFrom(u, v, s, i, K, m)
        BY <1>3, <3>3, Zenon DEF LeftAlone
      <4>2. q <= m
        BY <3>3, <4>1, Zenon DEF WrittenFrom
      <4>3. u.oldValues[f[j]].current = i
        BY <1>5, <2>3
      <4>4. f[j] > m
        BY <2>4, <4>1, <4>3, Zenon DEF WrittenFrom
      <4>5. m \in Int
        BY <4>1 DEF WrittenFrom
      <4> QED
        BY <3>1, <4>2, <4>4, <4>5
    <3> QED
      BY <3>2, <3>3
  <2>6. LastCopy(u, s, i, f[j])
    BY <2>3, <2>5, Zenon DEF LastCopy
  <2>7. Restored(v, s, i) = v.oldValues[j].row
    BY <2>1, RestoredCopy, Zenon
  <2>8. Restored(u, s, i) = u.oldValues[f[j]].row
    BY <2>6, RestoredCopy, Zenon
  <2> QED
    BY <2>4, <2>7, <2>8
<1>9. CASE Copies(v, s, i) = {}
  <2>1. \A q \in Copies(u, s, i) : q \notin K
    BY <1>7, <1>9
  <2>2. Restored(v, s, i) = v.node[i]
    BY <1>9, RestoredNode, Zenon
  <2>3. CASE LeftAlone(u, v, s, i, K)
    <3>1. Copies(u, s, i) = {} /\ v.node[i] = u.node[i]
      BY <2>1, <2>3 DEF LeftAlone
    <3>2. Restored(u, s, i) = u.node[i]
      BY <3>1, RestoredNode, Zenon
    <3> QED
      BY <2>2, <3>1, <3>2
  <2>4. ASSUME NEW m, WrittenFrom(u, v, s, i, K, m)
        PROVE  Restored(v, s, i) = Restored(u, s, i)
    <3>1. /\ m \in 1..OldEnd(u, s) - 1 /\ u.oldValues[m].current = i
          /\ v.node[i] = u.oldValues[m].row
      BY <2>4, Zenon DEF WrittenFrom
    <3>2. \A q \in Copies(u, s, i) : q <= m
      BY <2>1, <2>4, Zenon DEF WrittenFrom
    <3>3. u.oldValues[m].row.mtime < s.ctime
      <4>1. SUFFICES ASSUME u.oldValues[m].row.mtime >= s.ctime PROVE FALSE
        BY <1>1, <3>1, NodeAndCopy
      <4>2. u.oldValues[m].current < s.oldNextId
        BY <3>1
      <4>3. \E q \in Copies(u, s, u.oldValues[m].current) : q > m
        BY <3>1, <4>1, <4>2, Zenon DEF OldKept, HasOlderCopy
      <4>4. PICK q \in Copies(u, s, i) : q > m
        BY <3>1, <4>3
      <4>5. q \in Int /\ m \in Int
        BY <1>5, <3>1
      <4> QED
        BY <3>2, <4>4, <4>5
    <3>4. IsCopy(u, s, i, m)
      <4>1. m \in 1..Len(u.oldValues)
        BY <1>1, <3>1, NodeAndCopy
      <4> QED
        BY <3>1, <3>3, <4>1, Zenon DEF IsCopy
    <3>5. LastCopy(u, s, i, m)
      BY <1>1, <3>2, <3>4, CopiesAre, Zenon DEF LastCopy
    <3>6. Restored(u, s, i) = u.oldValues[m].row
      BY <3>5, RestoredCopy, Zenon
    <3> QED
      BY <2>2, <3>1, <3>6
  <2> QED
    BY <1>3, <2>3, <2>4, Zenon
<1> QED
  BY <1>8, <1>9

-----------------------------------------------------------------------------
(* The table that undoing a session leaves.                                *)
Saved(u, s) == Table(NodesBefore(u, s), RowsBefore(u, s), s.oldNextId)

RemovedSince(u, s, i) == \E q \in 1..RemovedEnd(u, s) - 1 : u.removedValues[q] = i
WasRow(u, s, i) == i < s.oldNextId /\ (i \in u.rows \/ RemovedSince(u, s, i))

LEMMA RowsBeforeAre ==
  ASSUME NEW u, IndexType(u), NEW s, MarkedRemoved(u, s.removedEnd, RemovedEnd(u, s))
  PROVE  \A i : i \in RowsBefore(u, s) <=> WasRow(u, s, i)
<1> DEFINE n == RemovedEnd(u, s) - 1
           removed == FirstN(u.removedValues, n)
<1>1. n \in 0..Len(u.removedValues) /\ Len(u.removedValues) \in Nat
  BY DEF MarkedRemoved, IndexType
<1>2. u.removedValues \in Seq(Nat)
  BY DEF IndexType
<1>3. RowsBefore(u, s) = {i \in u.rows \cup ToSet(removed) : i < s.oldNextId}
  BY Zenon DEF RowsBefore, RemovedEnd
<1> HIDE DEF n
<1>4. DOMAIN removed = 1..n /\ \A q \in 1..n : removed[q] = u.removedValues[q]
  <2>1. \A q \in 1..n : u.removedValues[q] \in Nat
    BY <1>1, <1>2
  <2>2. 1 \in Int /\ n \in Int
    BY <1>1
  <2> DEFINE r == SubSeq(u.removedValues, 1, n)
  <2>3. /\ r \in Seq(Nat)
        /\ Len(r) = IF 1 <= n THEN n - 1 + 1 ELSE 0
        /\ \A q \in 1..n - 1 + 1 : r[q] = u.removedValues[1 + q - 1]
    BY <2>1, <2>2, SubSeqProperties
  <2> HIDE DEF r
  <2>4. Len(r) = n /\ \A q \in 1..n : r[q] = u.removedValues[q]
    BY <1>1, <2>3
  <2>5. DOMAIN r = 1..n
    BY <2>3, <2>4
  <2> QED
    BY <2>4, <2>5, Zenon DEF FirstN, r
<1> HIDE DEF removed
<1>5. ASSUME NEW i
      PROVE  i \in ToSet(removed) <=> \E q \in 1..n : u.removedValues[q] = i
  BY <1>4, Zenon DEF ToSet
<1>6. ASSUME NEW i
      PROVE  i \in ToSet(removed) <=> RemovedSince(u, s, i)
  BY <1>5, Zenon DEF RemovedSince, n
<1> QED
  BY <1>3, <1>6, Zenon DEF WasRow

LEMMA RowsAreNodes ==
  ASSUME NEW u, IndexType(u), Accounted(u), NEW s, MarkedRemoved(u, s.removedEnd, RemovedEnd(u, s)),
         NEW i, WasRow(u, s, i)
  PROVE  i \in DOMAIN u.node
<1>1. CASE i \in u.rows
  BY <1>1, Zenon DEF Accounted
<1>2. CASE RemovedSince(u, s, i)
  <2>1. PICK q \in 1..RemovedEnd(u, s) - 1 : u.removedValues[q] = i
    BY <1>2 DEF RemovedSince
  <2>2. q \in DOMAIN u.removedValues
    BY <2>1 DEF MarkedRemoved, IndexType
  <2>3. i \in ToSet(u.removedValues)
    BY <2>1, <2>2, Zenon DEF ToSet
  <2> QED
    BY <2>3, Zenon DEF Accounted
<1> QED
  BY <1>1, <1>2, Zenon DEF WasRow

(* It does not change when its rows and what is restored of them do not.   *)
SameRows(u, v, s) ==
  /\ \A i : WasRow(v, s, i) <=> WasRow(u, s, i)
  /\ \A i \in DOMAIN v.node : WasRow(v, s, i) => Restored(v, s, i) = Restored(u, s, i)

LEMMA SavedSame ==
  ASSUME NEW u, IndexType(u), Accounted(u), NEW v, IndexType(v), Accounted(v),
         NEW s, Marked(u, s), Marked(v, s), SameRows(u, v, s)
  PROVE  Saved(v, s) = Saved(u, s)
<1>1. RowsBefore(v, s) = RowsBefore(u, s)
  <2>1. \A i : i \in RowsBefore(u, s) <=> WasRow(u, s, i)
    BY RowsBeforeAre, Zenon DEF Marked
  <2>2. \A i : i \in RowsBefore(v, s) <=> WasRow(v, s, i)
    BY RowsBeforeAre, Zenon DEF Marked
  <2> QED
    BY <2>1, <2>2 DEF SameRows
<1>2. ASSUME NEW i \in RowsBefore(u, s)
      PROVE  NodesBefore(v, s)[i] = NodesBefore(u, s)[i]
  <2>1. WasRow(u, s, i)
    BY RowsBeforeAre, Zenon DEF Marked
  <2>2. WasRow(v, s, i)
    BY <2>1, Zenon DEF SameRows
  <2>3. i \in DOMAIN u.node /\ i \in DOMAIN v.node
    BY <2>1, <2>2, RowsAreNodes, Zenon DEF Marked
  <2>4. NodesBefore(v, s)[i] = Restored(v, s, i) /\ NodesBefore(u, s)[i] = Restored(u, s, i)
    BY <2>3, NodesBeforeIs
  <2> QED
    BY <2>2, <2>3, <2>4, Zenon DEF SameRows
<1> QED
  BY <1>1, <1>2 DEF Saved, Table

-----------------------------------------------------------------------------
(* Thinning both lists out keeps what a session needs of them.             *)
MarksHit(u, s, K, M) ==
  /\ s.oldEnd = NULL \/ OldEnd(u, s) \in K
  /\ s.removedEnd = NULL \/ RemovedEnd(u, s) \in M

BothThinned(u, v, K, f, M, g) ==
  /\ IndexType(u) /\ IndexType(v) /\ Distinct(u)
  /\ Thinned(u.oldValues, v.oldValues, K, f)
  /\ Thinned(u.removedValues, v.removedValues, M, g)

Delimited(u, v, s, f, g) ==
  /\ Delimits(Len(v.oldValues), f, OldEnd(u, s), OldEnd(v, s))
  /\ Delimits(Len(v.removedValues), g, RemovedEnd(u, s), RemovedEnd(v, s))

LEMMA ThinnedDistinct ==
  ASSUME NEW u, NEW v, NEW K, NEW f, NEW M, NEW g, BothThinned(u, v, K, f, M, g)
  PROVE  Distinct(v)
<1>1. /\ u.oldValues \in Seq(Copy) /\ v.oldValues \in Seq(Copy) /\ Distinct(u)
      /\ u.removedValues \in Seq(Nat) /\ v.removedValues \in Seq(Nat)
      /\ Thinned(u.oldValues, v.oldValues, K, f)
      /\ Thinned(u.removedValues, v.removedValues, M, g)
  BY Zenon DEF BothThinned, IndexType
<1>2. \A p, q \in 1..Len(v.oldValues) : v.oldValues[p].at = v.oldValues[q].at => p = q
  BY <1>1, ThinnedOld, Zenon
<1>3. \A p, q \in 1..Len(v.removedValues) : v.removedValues[p] = v.removedValues[q] => p = q
  BY <1>1, ThinnedRemoved, Zenon
<1> QED
  BY <1>2, <1>3, Zenon DEF Distinct

LEMMA ThinnedMarks ==
  ASSUME NEW u, NEW v, NEW K, NEW f, NEW M, NEW g, BothThinned(u, v, K, f, M, g),
         NEW s, Marked(u, s), MarksHit(u, s, K, M)
  PROVE  Marked(v, s) /\ Delimited(u, v, s, f, g)
<1>1. /\ u.oldValues \in Seq(Copy) /\ v.oldValues \in Seq(Copy) /\ Distinct(u)
      /\ u.removedValues \in Seq(Nat) /\ v.removedValues \in Seq(Nat)
      /\ Thinned(u.oldValues, v.oldValues, K, f)
      /\ Thinned(u.removedValues, v.removedValues, M, g)
  BY Zenon DEF BothThinned, IndexType
<1>2. Distinct(v)
  BY ThinnedDistinct, Zenon
<1>3. /\ MarkedOld(v, s.oldEnd, OldEnd(v, s))
      /\ Delimits(Len(v.oldValues), f, OldEnd(u, s), OldEnd(v, s))
  BY <1>1, <1>2, ThinnedOldMark, Zenon DEF Marked, MarksHit
<1>4. /\ MarkedRemoved(v, s.removedEnd, RemovedEnd(v, s))
      /\ Delimits(Len(v.removedValues), g, RemovedEnd(u, s), RemovedEnd(v, s))
  BY <1>1, <1>2, ThinnedRemovedMark, Zenon DEF Marked, MarksHit
<1> QED
  BY <1>3, <1>4, Zenon DEF Marked, Delimited

LEMMA ThinnedSession ==
  ASSUME NEW u, NEW v, NEW K, NEW f, NEW M, NEW g, BothThinned(u, v, K, f, M, g),
         NEW s \in Session, Kept(u, s), MarksHit(u, s, K, M), NodesThinned(u, v, s, K),
         \A i : WasRow(v, s, i) <=> WasRow(u, s, i)
  PROVE  Kept(v, s) /\ SameRows(u, v, s)
<1>1. Marked(u, s) /\ OldKept(u, s) /\ ModifiedThenRemoved(u, s) /\ RemovedEarlier(u, s)
  BY Zenon DEF Kept
<1>2. Marked(v, s) /\ Delimited(u, v, s, f, g)
  BY <1>1, ThinnedMarks, Zenon
<1>3. Listed(u, s) /\ Listed(v, s)
  BY <1>1, <1>2 DEF BothThinned, IndexType, Listed, Marked, MarkedOld
<1>4. ThinnedOut(u, v, s, K, f)
  BY <1>2, <1>3, Zenon DEF ThinnedOut, BothThinned, Delimited
<1>5. OldKept(v, s)
  BY <1>1, <1>4, ThinnedKept, Zenon
<1>6. SameRows(u, v, s)
  <2> SUFFICES ASSUME NEW i \in DOMAIN v.node, WasRow(v, s, i)
               PROVE  SameRestored(u, v, s, i)
    BY Zenon DEF SameRows, SameRestored
  <2>1. i < s.oldNextId
    BY DEF WasRow
  <2> QED
    BY <1>1, <1>4, <2>1, ThinnedRestored, Zenon
<1>7. ModifiedThenRemoved(v, s)
  <2> SUFFICES ASSUME NEW p \in 1..OldEnd(v, s) - 1, NEW q \in 1..Len(v.removedValues),
                      v.oldValues[p].current = v.removedValues[q]
               PROVE  q < RemovedEnd(v, s)
    BY Zenon DEF ModifiedThenRemoved
  <2>1. EntryFrom(u, v, s, K, f, p)
    BY <1>4, ThinnedEntry, Zenon
  <2>2. f[p] \in 1..OldEnd(u, s) - 1 /\ v.oldValues[p] = u.oldValues[f[p]]
    BY <2>1, Zenon DEF EntryFrom
  <2>3. g[q] \in 1..Len(u.removedValues) /\ v.removedValues[q] = u.removedValues[g[q]]
    <3>1. Thinned(u.removedValues, v.removedValues, M, g)
      BY Zenon DEF BothThinned
    <3>2. Orders(Len(u.removedValues), Len(v.removedValues), g)
      BY <3>1, ThinnedOrder, Zenon
    <3> QED
      BY <3>1, <3>2, Zenon DEF Thinned, Orders
  <2>4. u.oldValues[f[p]].current = u.removedValues[g[q]]
    BY <2>2, <2>3
  <2>5. g[q] < RemovedEnd(u, s)
    BY <1>1, <2>2, <2>3, <2>4, Zenon DEF ModifiedThenRemoved
  <2> QED
    BY <1>2, <2>5, Zenon DEF Delimited, Delimits
<1>8. RemovedEarlier(v, s)
  <2> SUFFICES ASSUME NEW q \in 1..Len(v.removedValues)
               PROVE  q < RemovedEnd(v, s) \/ v.removedValues[q] < s.oldNextId
    BY Zenon DEF RemovedEarlier
  <2>1. Thinned(u.removedValues, v.removedValues, M, g)
    BY Zenon DEF BothThinned
  <2>2. Orders(Len(u.removedValues), Len(v.removedValues), g)
    BY <2>1, ThinnedOrder, Zenon
  <2>3. g[q] \in 1..Len(u.removedValues) /\ v.removedValues[q] = u.removedValues[g[q]]
    BY <2>1, <2>2, Zenon DEF Thinned, Orders
  <2>4. g[q] < RemovedEnd(u, s) \/ u.removedValues[g[q]] < s.oldNextId
    BY <1>1, <2>3, Zenon DEF RemovedEarlier
  <2>5. q < RemovedEnd(v, s) <=> g[q] < RemovedEnd(u, s)
    BY <1>2, Zenon DEF Delimited, Delimits
  <2> QED
    BY <2>3, <2>4, <2>5, Zenon
<1> QED
  BY <1>2, <1>5, <1>6, <1>7, <1>8, Zenon DEF Kept

LEMMA ThinnedOlder ==
  ASSUME NEW u, NEW v, NEW K, NEW f, NEW M, NEW g, BothThinned(u, v, K, f, M, g),
         NEW s, NEW t, Older(u, s, t), Marked(u, s), Marked(u, t), Marked(v, s), Marked(v, t),
         Delimited(u, v, s, f, g), Delimited(u, v, t, f, g)
  PROVE  Older(v, s, t)
<1>1. /\ Len(v.oldValues) \in Nat /\ Len(v.removedValues) \in Nat
      /\ Len(u.oldValues) \in Nat /\ Len(u.removedValues) \in Nat
  BY DEF BothThinned, IndexType
<1>2. OldEnd(v, t) <= OldEnd(v, s)
  <2> DEFINE a == OldEnd(v, s)
             b == OldEnd(v, t)
             x == OldEnd(u, s)
             y == OldEnd(u, t)
  <2>1. a \in 1..Len(v.oldValues) + 1 /\ b \in 1..Len(v.oldValues) + 1
    BY Zenon DEF Marked, MarkedOld
  <2>2. y <= x /\ x \in 1..Len(u.oldValues) + 1 /\ y \in 1..Len(u.oldValues) + 1
    BY Zenon DEF Marked, MarkedOld, Older
  <2>3. \A j \in 1..Len(v.oldValues) : (j < a <=> f[j] < x) /\ (j < b <=> f[j] < y)
    BY Zenon DEF Delimited, Delimits
  <2>4. \A j \in 1..Len(v.oldValues) : f[j] \in 1..Len(u.oldValues)
    BY Zenon DEF BothThinned, Thinned
  <2> HIDE DEF a, b, x, y
  <2>5. SUFFICES ASSUME a < b PROVE FALSE
    BY <1>1, <2>1 DEF a, b
  <2>6. a \in 1..Len(v.oldValues)
    BY <1>1, <2>1, <2>5
  <2>7. f[a] \in Int /\ f[a] < y /\ ~ (f[a] < x)
    BY <2>1, <2>3, <2>4, <2>5, <2>6
  <2> QED
    BY <1>1, <2>2, <2>7
<1>3. RemovedEnd(v, t) <= RemovedEnd(v, s)
  <2> DEFINE a == RemovedEnd(v, s)
             b == RemovedEnd(v, t)
             x == RemovedEnd(u, s)
             y == RemovedEnd(u, t)
  <2>1. a \in 1..Len(v.removedValues) + 1 /\ b \in 1..Len(v.removedValues) + 1
    BY Zenon DEF Marked, MarkedRemoved
  <2>2. y <= x /\ x \in 1..Len(u.removedValues) + 1 /\ y \in 1..Len(u.removedValues) + 1
    BY Zenon DEF Marked, MarkedRemoved, Older
  <2>3. \A j \in 1..Len(v.removedValues) : (j < a <=> g[j] < x) /\ (j < b <=> g[j] < y)
    BY Zenon DEF Delimited, Delimits
  <2>4. \A j \in 1..Len(v.removedValues) : g[j] \in 1..Len(u.removedValues)
    BY Zenon DEF BothThinned, Thinned
  <2> HIDE DEF a, b, x, y
  <2>5. SUFFICES ASSUME a < b PROVE FALSE
    BY <1>1, <2>1 DEF a, b
  <2>6. a \in 1..Len(v.removedValues)
    BY <1>1, <2>1, <2>5
  <2>7. g[a] \in Int /\ g[a] < y /\ ~ (g[a] < x)
    BY <2>1, <2>3, <2>4, <2>5, <2>6
  <2> QED
    BY <1>1, <2>2, <2>7
<1> QED
  BY <1>2, <1>3, Zenon DEF Older

(* So the sessions from a to b are kept by a step that thins out the lists *)
(* and drops the other sessions, and can be undone as before.              *)
SessionsThinned(u, v, K, M, a, b) ==
  /\ a \in Nat \ {0} /\ b \in 0..Len(u.undoStack) /\ a <= b + 1
  /\ v.undoStack = SubSeq(u.undoStack, a, b)
  /\ \A k \in a..b : LET s == u.undoStack[k] IN
       /\ MarksHit(u, s, K, M) /\ NodesThinned(u, v, s, K)
       /\ \A i : WasRow(v, s, i) <=> WasRow(u, s, i)

TimesThinned(u, v) ==
  /\ v.monotonic = u.monotonic
  /\ \A i \in DOMAIN v.node : \/ i \in DOMAIN u.node /\ v.node[i] = u.node[i]
                              \/ \E m \in 1..Len(u.oldValues) : v.node[i] = u.oldValues[m].row
  /\ \A k \in 1..Len(v.undoStack) : v.undoStack[k].oldNextId <= v.nextId

SubStack(u, v, a, b) ==
  /\ Len(v.undoStack) = b - a + 1
  /\ \A k \in 1..b - a + 1 : a + k - 1 \in a..b /\ v.undoStack[k] = u.undoStack[a + k - 1]

SameSaved(u, v, a, b) ==
  \A k \in 1..b - a + 1 : Saved(v, v.undoStack[k]) = Saved(u, u.undoStack[a + k - 1])

LEMMA StackPart ==
  ASSUME NEW u, u.undoStack \in Seq(Session), NEW v,
         NEW a \in Nat \ {0}, NEW b \in 0..Len(u.undoStack), a <= b + 1,
         v.undoStack = SubSeq(u.undoStack, a, b)
  PROVE  SubStack(u, v, a, b)
<1>1. Len(u.undoStack) \in Nat /\ a \in Int /\ b \in Int
  OBVIOUS
<1>2. \A i \in a..b : u.undoStack[i] \in Session
  BY <1>1
<1> DEFINE r == SubSeq(u.undoStack, a, b)
<1>3. /\ r \in Seq(Session)
      /\ Len(r) = IF a <= b THEN b - a + 1 ELSE 0
      /\ \A i \in 1..b - a + 1 : r[i] = u.undoStack[a + i - 1]
  BY <1>1, <1>2, SubSeqProperties
<1>4. v.undoStack = r
  OBVIOUS
<1> HIDE DEF r
<1>5. Len(r) = b - a + 1
  BY <1>1, <1>3
<1>6. \A k \in 1..b - a + 1 : a + k - 1 \in a..b
  BY <1>1
<1> QED
  BY <1>3, <1>4, <1>5, <1>6 DEF SubStack

LEMMA ThinnedGood ==
  ASSUME NEW u, Good(u), NEW v, IndexType(v), Accounted(v),
         NEW K, NEW f, NEW M, NEW g, BothThinned(u, v, K, f, M, g),
         NEW a, NEW b, SessionsThinned(u, v, K, M, a, b), TimesThinned(u, v)
  PROVE  Good(v) /\ SubStack(u, v, a, b) /\ SameSaved(u, v, a, b)
<1>1. IndexType(u) /\ Distinct(u) /\ Accounted(u) /\ Times(u)
  BY Zenon DEF Good
<1>2. /\ a \in Nat \ {0} /\ b \in 0..Len(u.undoStack) /\ a <= b + 1
      /\ v.undoStack = SubSeq(u.undoStack, a, b)
  BY Zenon DEF SessionsThinned
<1>3. u.undoStack \in Seq(Session) /\ Len(u.undoStack) \in Nat
  BY <1>1 DEF IndexType
<1>4. SubStack(u, v, a, b)
  BY <1>2, <1>3, StackPart, Zenon
<1>5. \A k \in a..b : k \in 1..Len(u.undoStack) /\ u.undoStack[k] \in Session
  BY <1>2, <1>3
<1>6. ASSUME NEW k \in a..b
      PROVE  /\ Kept(v, u.undoStack[k]) /\ SameRows(u, v, u.undoStack[k])
             /\ Saved(v, u.undoStack[k]) = Saved(u, u.undoStack[k])
             /\ Marked(u, u.undoStack[k]) /\ Marked(v, u.undoStack[k])
             /\ Delimited(u, v, u.undoStack[k], f, g)
  <2> DEFINE s == u.undoStack[k]
  <2>1. s \in Session /\ Kept(u, s)
    BY <1>5, Zenon DEF Good
  <2>2. /\ MarksHit(u, s, K, M) /\ NodesThinned(u, v, s, K)
        /\ \A i : WasRow(v, s, i) <=> WasRow(u, s, i)
    BY Zenon DEF SessionsThinned
  <2> HIDE DEF s
  <2>3. Kept(v, s) /\ SameRows(u, v, s)
    BY <2>1, <2>2, ThinnedSession, Zenon
  <2>4. Marked(u, s) /\ Marked(v, s)
    BY <2>1, <2>3, Zenon DEF Kept
  <2>5. Delimited(u, v, s, f, g)
    BY <2>2, <2>4, ThinnedMarks, Zenon
  <2>6. Saved(v, s) = Saved(u, s)
    BY <1>1, <2>3, <2>4, SavedSame, Zenon
  <2> QED
    BY <2>3, <2>4, <2>5, <2>6, Zenon DEF s
<1>7. \A k \in 1..Len(v.undoStack) : a + k - 1 \in a..b /\ v.undoStack[k] = u.undoStack[a + k - 1]
  BY <1>4, Zenon DEF SubStack
<1>8. \A k \in 1..Len(v.undoStack) : Kept(v, v.undoStack[k])
  BY <1>6, <1>7
<1>9. ASSUME NEW k \in 1..Len(v.undoStack), NEW j \in 1..Len(v.undoStack), j < k
      PROVE  Older(v, v.undoStack[j], v.undoStack[k])
  <2>1. a + j - 1 < a + k - 1 /\ a + j - 1 \in a..b /\ a + k - 1 \in a..b
    BY <1>2, <1>7, <1>9
  <2>2. Older(u, u.undoStack[a + j - 1], u.undoStack[a + k - 1])
    BY <1>5, <2>1, Zenon DEF Good
  <2>3. Older(v, u.undoStack[a + j - 1], u.undoStack[a + k - 1])
    BY <1>6, <2>1, <2>2, ThinnedOlder, Zenon
  <2> QED
    BY <1>7, <2>3
<1>10. Times(v)
  <2>1. \A i \in DOMAIN v.node : v.node[i].mtime <= v.monotonic
    BY <1>1, Zenon DEF Times, TimesThinned
  <2>2. \A p \in 1..Len(v.oldValues) : v.oldValues[p].row.mtime <= v.monotonic
    <3> SUFFICES ASSUME NEW p \in 1..Len(v.oldValues)
                 PROVE  v.oldValues[p].row.mtime <= v.monotonic
      OBVIOUS
    <3>1. Thinned(u.oldValues, v.oldValues, K, f)
      BY Zenon DEF BothThinned
    <3>2. Orders(Len(u.oldValues), Len(v.oldValues), f)
      BY <3>1, ThinnedOrder, Zenon
    <3>3. f[p] \in 1..Len(u.oldValues) /\ v.oldValues[p] = u.oldValues[f[p]]
      BY <3>1, <3>2, Zenon DEF Thinned, Orders
    <3>4. u.oldValues[f[p]].row.mtime <= u.monotonic
      BY <1>1, <3>3, Zenon DEF Times
    <3> QED
      BY <3>3, <3>4 DEF TimesThinned
  <2>3. ASSUME NEW k \in 1..Len(v.undoStack)
        PROVE  v.undoStack[k].ctime <= v.monotonic /\ v.undoStack[k].oldNextId <= v.nextId
    <3>1. v.undoStack[k] = u.undoStack[a + k - 1] /\ a + k - 1 \in 1..Len(u.undoStack)
      BY <1>5, <1>7
    <3>2. u.undoStack[a + k - 1].ctime <= u.monotonic
      BY <1>1, <3>1, Zenon DEF Times
    <3> QED
      BY <3>1, <3>2 DEF TimesThinned
  <2> QED
    BY <2>1, <2>2, <2>3, Zenon DEF Times
<1>11. Distinct(v)
  BY ThinnedDistinct, Zenon
<1>12. Good(v)
  BY <1>8, <1>9, <1>10, <1>11, Zenon DEF Good
<1>13. SameSaved(u, v, a, b)
  <2> SUFFICES ASSUME NEW k \in 1..b - a + 1
               PROVE  Saved(v, v.undoStack[k]) = Saved(u, u.undoStack[a + k - 1])
    BY DEF SameSaved
  <2>1. a + k - 1 \in a..b /\ v.undoStack[k] = u.undoStack[a + k - 1]
    BY <1>4, Zenon DEF SubStack
  <2> QED
    BY <1>6, <2>1
<1> QED
  BY <1>4, <1>12, <1>13

-----------------------------------------------------------------------------
(* The three ways in which a list is thinned out.                          *)
LEMMA FromNThins ==
  ASSUME NEW S, NEW s \in Seq(S), NEW n \in 1..Len(s) + 1
  PROVE  /\ FromN(s, n) \in Seq(S)
         /\ \E f : Thinned(s, FromN(s, n), n..Len(s), f)
<1> DEFINE r == SubSeq(s, n, Len(s))
           f == [j \in 1..Len(s) - n + 1 |-> n + j - 1]
<1>1. Len(s) \in Nat /\ n \in Int /\ \A i \in n..Len(s) : s[i] \in S
  OBVIOUS
<1>2. /\ r \in Seq(S)
      /\ Len(r) = IF n <= Len(s) THEN Len(s) - n + 1 ELSE 0
      /\ \A j \in 1..Len(s) - n + 1 : r[j] = s[n + j - 1]
  BY <1>1, SubSeqProperties
<1>3. FromN(s, n) = r
  BY DEF FromN
<1> HIDE DEF r
<1>4. Len(r) = Len(s) - n + 1
  BY <1>1, <1>2
<1>5. Thinned(s, r, n..Len(s), f)
  <2>1. Len(r) \in Nat /\ Len(s) \in Nat /\ (n..Len(s)) \in SUBSET (1..Len(s))
    BY <1>1, <1>4
  <2>2. \A j \in 1..Len(r) : f[j] = n + j - 1
    BY <1>4
  <2>3. \A p \in n..Len(s) : p - n + 1 \in 1..Len(s) - n + 1 /\ f[p - n + 1] = p
    BY <1>1
  <2> HIDE DEF f
  <2>4. \A j \in 1..Len(r) : f[j] \in n..Len(s) /\ r[j] = s[f[j]]
    BY <1>1, <1>2, <1>4, <2>2
  <2>5. \A i, j \in 1..Len(r) : i < j => f[i] < f[j]
    BY <1>1, <1>4, <2>2
  <2>6. \A p \in n..Len(s) : \E j \in 1..Len(r) : f[j] = p
    BY <1>4, <2>3
  <2> QED
    BY <2>1, <2>4, <2>5, <2>6, Zenon DEF Thinned
<1> QED
  BY <1>2, <1>3, <1>5

LEMMA FirstNThins ==
  ASSUME NEW S, NEW s \in Seq(S), NEW n \in 0..Len(s)
  PROVE  /\ FirstN(s, n) \in Seq(S)
         /\ \E f : Thinned(s, FirstN(s, n), 1..n, f)
<1> DEFINE r == SubSeq(s, 1, n)
           f == [j \in 1..n |-> j]
<1>1. Len(s) \in Nat /\ n \in Nat /\ 1 \in Int /\ n \in Int /\ \A i \in 1..n : s[i] \in S
  OBVIOUS
<1>2. /\ r \in Seq(S)
      /\ Len(r) = IF 1 <= n THEN n - 1 + 1 ELSE 0
      /\ \A j \in 1..n - 1 + 1 : r[j] = s[1 + j - 1]
  BY <1>1, SubSeqProperties
<1>3. FirstN(s, n) = r
  BY DEF FirstN
<1> HIDE DEF r
<1>4. Len(r) = n
  BY <1>1, <1>2
<1>5. Thinned(s, r, 1..n, f)
  <2>1. Len(r) \in Nat /\ Len(s) \in Nat /\ (1..n) \in SUBSET (1..Len(s))
    BY <1>1, <1>4
  <2>2. \A j \in 1..n : f[j] = j
    OBVIOUS
  <2>3. \A j \in 1..n : r[j] = s[j]
    BY <1>1, <1>2
  <2> HIDE DEF f
  <2>4. \A j \in 1..Len(r) : f[j] \in 1..n /\ r[j] = s[f[j]]
    BY <1>4, <2>2, <2>3
  <2>5. \A i, j \in 1..Len(r) : i < j => f[i] < f[j]
    BY <1>4, <2>2
  <2>6. \A p \in 1..n : \E j \in 1..Len(r) : f[j] = p
    BY <1>4, <2>2
  <2> QED
    BY <2>1, <2>4, <2>5, <2>6, Zenon DEF Thinned
<1> QED
  BY <1>2, <1>3, <1>5

EntriesUpTo(seq, K, n, g) ==
  g = [k \in 0..n |-> IF k = 0 THEN <<>>
                      ELSE IF k \in K THEN Append(g[k - 1], seq[k])
                      ELSE g[k - 1]]

LEMMA EntriesExist ==
  ASSUME NEW seq, NEW K, NEW L \in Nat
  PROVE  \E g : EntriesUpTo(seq, K, L, g)
<1> DEFINE T == {n \in Nat : \E g : EntriesUpTo(seq, K, n, g)}
<1>1. 0 \in T
  <2> DEFINE g == [k \in 0..0 |-> <<>>]
  <2>1. \A k \in 0..0 : k = 0
    OBVIOUS
  <2>2. EntriesUpTo(seq, K, 0, g)
    BY <2>1 DEF EntriesUpTo
  <2> HIDE DEF g
  <2> QED
    BY <2>2
<1>2. ASSUME NEW n \in Nat, n \in T
      PROVE  n + 1 \in T
  <2>1. PICK g : EntriesUpTo(seq, K, n, g)
    BY <1>2
  <2> DEFINE last == IF n + 1 \in K THEN Append(g[n], seq[n + 1]) ELSE g[n]
             h == [k \in 0..n + 1 |-> IF k = n + 1 THEN last ELSE g[k]]
  <2>2. \A k \in 0..n : g[k] = IF k = 0 THEN <<>>
                               ELSE IF k \in K THEN Append(g[k - 1], seq[k])
                               ELSE g[k - 1]
    BY <2>1 DEF EntriesUpTo
  <2> DEFINE e(k) == IF k = 0 THEN <<>>
                     ELSE IF k \in K THEN Append(h[k - 1], seq[k])
                     ELSE h[k - 1]
  <2>3. \A k \in 0..n + 1 : h[k] = IF k = n + 1 THEN last ELSE g[k]
    BY Zenon
  <2>4. h = [k \in 0..n + 1 |-> h[k]]
    BY Zenon
  <2> HIDE DEF h
  <2>5. ASSUME NEW k \in 0..n + 1
        PROVE  h[k] = e(k)
    <3>1. CASE k = n + 1
      <4>1. k # 0 /\ k - 1 = n /\ n \in 0..n + 1 /\ n # n + 1
        BY <3>1
      <4>2. h[k] = last /\ h[k - 1] = g[n]
        BY <2>3, <3>1, <4>1
      <4> QED
        BY <3>1, <4>1, <4>2
    <3>2. CASE k = 0
      <4>1. k \in 0..n /\ k # n + 1
        BY <3>2
      <4>2. h[k] = g[k]
        BY <2>3, <4>1
      <4> QED
        BY <2>2, <3>2, <4>1, <4>2
    <3>3. CASE k # n + 1 /\ k # 0
      <4>1. k \in 0..n /\ k - 1 \in 0..n + 1 /\ k - 1 # n + 1
        BY <3>3
      <4>2. h[k] = g[k] /\ h[k - 1] = g[k - 1]
        BY <2>3, <3>3, <4>1
      <4> QED
        BY <2>2, <3>3, <4>1, <4>2
    <3> QED
      BY <3>1, <3>2, <3>3
  <2>6. [k \in 0..n + 1 |-> h[k]] = [k \in 0..n + 1 |-> e(k)]
    <3> HIDE DEF e
    <3> QED
      BY <2>5
  <2>7. EntriesUpTo(seq, K, n + 1, h)
    BY <2>4, <2>6, Zenon DEF EntriesUpTo
  <2> QED
    BY <2>7
<1> HIDE DEF T
<1>3. \A n \in Nat : n \in T
  BY <1>1, <1>2, NatInductionOnSet
<1> QED
  BY <1>3 DEF T

LEMMA EntriesAtThins ==
  ASSUME NEW S, NEW s \in Seq(S), NEW K \in SUBSET (1..Len(s))
  PROVE  /\ EntriesAt(s, K) \in Seq(S)
         /\ \E f : Thinned(s, EntriesAt(s, K), K, f)
<1>1. Len(s) \in Nat /\ \A i \in 1..Len(s) : s[i] \in S
  OBVIOUS
<1>0. \A p \in K : p \in 1..Len(s) /\ p \in Int /\ p > 0 /\ p <= Len(s)
  BY <1>1
<1> DEFINE upTo == CHOOSE g : EntriesUpTo(s, K, Len(s), g)
<1>2. EntriesAt(s, K) = upTo[Len(s)]
  BY DEF EntriesAt, EntriesUpTo
<1>3. EntriesUpTo(s, K, Len(s), upTo)
  BY <1>1, EntriesExist
<1> HIDE DEF upTo
<1>4. \A k \in 0..Len(s) : upTo[k] = IF k = 0 THEN <<>>
                                     ELSE IF k \in K THEN Append(upTo[k - 1], s[k])
                                     ELSE upTo[k - 1]
  BY <1>3 DEF EntriesUpTo
<1> DEFINE Thins(n) == upTo[n] \in Seq(S) /\ \E f : Thinned(s, upTo[n], {p \in K : p <= n}, f)
           T == {n \in Nat : n <= Len(s) => Thins(n)}
<1> HIDE DEF Thins
<1>5. 0 \in T
  <2>1. upTo[0] = <<>>
    BY <1>1, <1>4
  <2>2. {p \in K : p <= 0} = {}
    <3>1. \A p \in K : ~ (p <= 0)
      BY <1>0
    <3> QED
      BY <3>1, Zenon
  <2> DEFINE r == <<>>
  <2>3. r \in Seq(S) /\ Len(r) = 0
    BY EmptySeq
  <2>4. Thinned(s, r, {}, r)
    BY <1>1, <2>3 DEF Thinned
  <2> QED
    BY <2>1, <2>2, <2>3, <2>4 DEF Thins
<1>6. ASSUME NEW n \in Nat, n \in T
      PROVE  n + 1 \in T
  <2>1. SUFFICES ASSUME n + 1 <= Len(s)
                 PROVE  Thins(n + 1)
    OBVIOUS
  <2>2. Thins(n) /\ n + 1 \in 1..Len(s) /\ n + 1 \in 0..Len(s) /\ n + 1 # 0 /\ (n + 1) - 1 = n
    BY <1>1, <1>6, <2>1
  <2> DEFINE A == {p \in K : p <= n}
             B == {p \in K : p <= n + 1}
             q == upTo[n]
  <2>3. \A p \in K : p \in Int
    BY <1>0
  <2>4. q \in Seq(S) /\ \E f : Thinned(s, q, A, f)
    BY <2>2 DEF Thins
  <2>5. CASE n + 1 \notin K
    <3>1. upTo[n + 1] = q
      BY <1>4, <2>2, <2>5
    <3>2. A = B
      <4>1. \A p \in K : p <= n <=> p <= n + 1
        BY <2>3, <2>5
      <4> QED
        BY <4>1
    <3> HIDE DEF A, B, q
    <3>3. upTo[n + 1] \in Seq(S) /\ \E f : Thinned(s, upTo[n + 1], B, f)
      BY <2>4, <3>1, <3>2
    <3> QED
      BY <3>3 DEF Thins, B
  <2>6. CASE n + 1 \in K
    <3> DEFINE r == Append(q, s[n + 1])
    <3>1. upTo[n + 1] = r
      BY <1>4, <2>2, <2>6
    <3>2. PICK f : Thinned(s, q, A, f)
      BY <2>4
    <3> DEFINE m == Len(q)
               h == [j \in 1..m + 1 |-> IF j = m + 1 THEN n + 1 ELSE f[j]]
    <3> HIDE DEF q
    <3>3. s[n + 1] \in S
      BY <1>1, <2>2
    <3>4. /\ r \in Seq(S) /\ Len(r) = m + 1 /\ m \in Nat
          /\ \A j \in 1..m : r[j] = q[j]
          /\ r[m + 1] = s[n + 1]
      BY <2>4, <3>3, AppendProperties
    <3> HIDE DEF r, m
    <3>5. /\ \A j \in 1..m : f[j] \in A /\ q[j] = s[f[j]]
          /\ \A i, j \in 1..m : i < j => f[i] < f[j]
          /\ \A p \in A : \E j \in 1..m : f[j] = p
      BY <3>2, Zenon DEF Thinned, m
    <3>6. \A j \in 1..m : j \in 1..m + 1 /\ h[j] = f[j]
      BY <3>4
    <3>7. h[m + 1] = n + 1 /\ m + 1 \in 1..m + 1
      BY <3>4
    <3>8. \A j \in 1..m + 1 : j = m + 1 \/ j \in 1..m
      BY <3>4
    <3> HIDE DEF h
    <3>9. \A p \in A : p \in B /\ p < n + 1 /\ p \in Int
      BY <2>3
    <3>10. n + 1 \in B
      BY <2>6
    <3>11. \A p \in B : p = n + 1 \/ p \in A
      BY <2>3
    <3> HIDE DEF A, B
    <3>12. \A j \in 1..m + 1 : h[j] \in B /\ r[j] = s[h[j]]
      BY <3>4, <3>5, <3>6, <3>7, <3>8, <3>9, <3>10
    <3>13. \A i, j \in 1..m + 1 : i < j => h[i] < h[j]
      <4> SUFFICES ASSUME NEW i \in 1..m + 1, NEW j \in 1..m + 1, i < j
                   PROVE  h[i] < h[j]
        OBVIOUS
      <4>1. i \in 1..m
        BY <3>4
      <4>2. h[i] = f[i] /\ f[i] < n + 1
        BY <3>5, <3>6, <3>9, <4>1
      <4>3. CASE j = m + 1
        BY <3>7, <4>2, <4>3
      <4>4. CASE j \in 1..m
        BY <3>5, <3>6, <4>1, <4>4
      <4> QED
        BY <3>8, <4>3, <4>4
    <3>14. \A p \in B : \E j \in 1..m + 1 : h[j] = p
      <4> SUFFICES ASSUME NEW p \in B
                   PROVE  \E j \in 1..m + 1 : h[j] = p
        OBVIOUS
      <4>1. CASE p = n + 1
        BY <3>7, <4>1
      <4>2. CASE p \in A
        <5>1. PICK j \in 1..m : f[j] = p
          BY <3>5, <4>2
        <5> QED
          BY <3>6, <5>1
      <4> QED
        BY <3>11, <4>1, <4>2
    <3>15. Len(r) \in Nat /\ Len(s) \in Nat /\ B \in SUBSET (1..Len(s))
      <4>1. \A p \in B : p \in 1..Len(s)
        BY <1>0, Zenon DEF B
      <4> QED
        BY <1>1, <3>4, <4>1
    <3>16. Thinned(s, r, B, h)
      BY <3>4, <3>12, <3>13, <3>14, <3>15, Zenon DEF Thinned
    <3>17. upTo[n + 1] \in Seq(S) /\ \E x : Thinned(s, upTo[n + 1], B, x)
      BY <3>1, <3>4, <3>16
    <3> QED
      BY <3>17 DEF Thins, B
  <2> QED
    BY <2>5, <2>6
<1> HIDE DEF T
<1>7. \A n \in Nat : n \in T
  BY <1>5, <1>6, NatInductionOnSet
<1>8. Thins(Len(s))
  BY <1>1, <1>7 DEF T
<1>9. {p \in K : p <= Len(s)} = K
  BY <1>0
<1> QED
  BY <1>2, <1>8, <1>9 DEF Thins

-----------------------------------------------------------------------------
(* What each call makes of the fields.                                     *)
FieldsOf(u, node, rows, oldValues, removedValues, undoStack, nextId, revision, monotonic) ==
  u = [node |-> node, rows |-> rows, oldValues |-> oldValues, removedValues |-> removedValues,
       undoStack |-> undoStack, nextId |-> nextId, revision |-> revision,
       monotonic |-> monotonic]

LEMMA FreedFields ==
  ASSUME NEW u, NEW node, NEW rows, NEW oldValues, NEW removedValues, NEW undoStack,
         NEW nextId, NEW revision, NEW monotonic,
         FieldsOf(u, node, rows, oldValues, removedValues, undoStack, nextId, revision, monotonic)
  PROVE  FieldsOf(Freed(u), Restrict(node, rows \cup ToSet(removedValues)), rows, oldValues,
                  removedValues, undoStack, nextId, revision, monotonic)
<1> DEFINE r == Restrict(node, rows \cup ToSet(removedValues))
<1>1. u.node = node /\ u.rows = rows /\ u.removedValues = removedValues
  BY DEF FieldsOf
<1>2. Freed(u) = [u EXCEPT !.node = r]
  BY <1>1, Zenon DEF Freed
<1> HIDE DEF r
<1>3. [u EXCEPT !.node = r] =
        [node |-> r, rows |-> rows, oldValues |-> oldValues, removedValues |-> removedValues,
         undoStack |-> undoStack, nextId |-> nextId, revision |-> revision,
         monotonic |-> monotonic]
  BY DEF FieldsOf
<1> QED
  BY <1>2, <1>3, Zenon DEF FieldsOf, r

LEMMA SevenFields ==
  ASSUME NEW u, NEW node, NEW rows, NEW oldValues, NEW removedValues, NEW undoStack,
         NEW nextId, NEW revision, NEW monotonic,
         FieldsOf(u, node, rows, oldValues, removedValues, undoStack, nextId, revision, monotonic),
         NEW n, NEW r, NEW o, NEW d, NEW s, NEW x, NEW v
  PROVE  FieldsOf([u EXCEPT !.node = n, !.rows = r, !.oldValues = o, !.removedValues = d,
                            !.undoStack = s, !.nextId = x, !.revision = v],
                  n, r, o, d, s, x, v, monotonic)
<1> DEFINE w1 == [u EXCEPT !.node = n]
           w2 == [w1 EXCEPT !.rows = r]
           w3 == [w2 EXCEPT !.oldValues = o]
           w4 == [w3 EXCEPT !.removedValues = d]
           w5 == [w4 EXCEPT !.undoStack = s]
           w6 == [w5 EXCEPT !.nextId = x]
           w7 == [w6 EXCEPT !.revision = v]
<1> HIDE DEF w2, w3, w4, w5, w6, w7
<1>1. FieldsOf(w1, n, rows, oldValues, removedValues, undoStack, nextId, revision, monotonic)
  BY DEF FieldsOf
<1> HIDE DEF w1
<1>2. FieldsOf(w2, n, r, oldValues, removedValues, undoStack, nextId, revision, monotonic)
  BY <1>1 DEF FieldsOf, w2
<1>3. FieldsOf(w3, n, r, o, removedValues, undoStack, nextId, revision, monotonic)
  BY <1>2 DEF FieldsOf, w3
<1>4. FieldsOf(w4, n, r, o, d, undoStack, nextId, revision, monotonic)
  BY <1>3 DEF FieldsOf, w4
<1>5. FieldsOf(w5, n, r, o, d, s, nextId, revision, monotonic)
  BY <1>4 DEF FieldsOf, w5
<1>6. FieldsOf(w6, n, r, o, d, s, x, revision, monotonic)
  BY <1>5 DEF FieldsOf, w6
<1>7. FieldsOf(w7, n, r, o, d, s, x, v, monotonic)
  BY <1>6 DEF FieldsOf, w7
<1> QED
  BY <1>7, Zenon DEF w1, w2, w3, w4, w5, w6, w7

LEMMA UndoneFields ==
  ASSUME NEW u, IndexType(u), u.undoStack # <<>>
  PROVE  LET s == Last(u.undoStack)
             rows == RowsBefore(u, s)
             removed == FromN(u.removedValues, RemovedEnd(u, s))
         IN  FieldsOf(Undone(u), Restrict(NodesBefore(u, s), rows \cup ToSet(removed)),
                      rows, FromN(u.oldValues, OldEnd(u, s)), removed,
                      Front(u.undoStack), s.oldNextId, u.revision - 1, u.monotonic)
<1> DEFINE s == Last(u.undoStack)
           nodes == NodesBefore(u, s)
           rows == RowsBefore(u, s)
           old == FromN(u.oldValues, OldEnd(u, s))
           removed == FromN(u.removedValues, RemovedEnd(u, s))
           stack == Front(u.undoStack)
           next == s.oldNextId
           revision == u.revision - 1
           w == [u EXCEPT !.node = nodes, !.rows = rows, !.oldValues = old,
                          !.removedValues = removed, !.undoStack = stack, !.nextId = next,
                          !.revision = revision]
<1>1. Undone(u) = Freed(w)
  BY Zenon DEF Undone, OldEnd, RemovedEnd
<1> HIDE DEF nodes, rows, old, removed, stack, next, revision
<1>2. FieldsOf(w, nodes, rows, old, removed, stack, next, revision, u.monotonic)
  <2>1. FieldsOf(u, u.node, u.rows, u.oldValues, u.removedValues, u.undoStack,
                 u.nextId, u.revision, u.monotonic)
    BY Zenon DEF IndexType, FieldsOf
  <2> QED
    BY <2>1, SevenFields, Zenon
<1> HIDE DEF w
<1>3. FieldsOf(Freed(w), Restrict(nodes, rows \cup ToSet(removed)), rows, old, removed,
               stack, next, revision, u.monotonic)
  BY <1>2, FreedFields, Zenon
<1> QED
  BY <1>1, <1>3, Zenon DEF nodes, rows, old, removed, stack, next, revision

-----------------------------------------------------------------------------
(* undo.                                                                   *)
RestoredFrom(u, s, i) ==
  \/ Restored(u, s, i) = u.node[i] /\ Copies(u, s, i) = {}
  \/ \E m : LastCopy(u, s, i, m) /\ Restored(u, s, i) = u.oldValues[m].row

LEMMA RestoredIsFrom ==
  ASSUME NEW u, NEW s, Listed(u, s), NEW i \in DOMAIN u.node
  PROVE  RestoredFrom(u, s, i) /\ Restored(u, s, i) \in Row
<1>1. RestoredFrom(u, s, i)
  <2>1. OldEnd(u, s) \in Nat \ {0}
    BY DEF Listed
  <2>2. CASE Copies(u, s, i) = {}
    BY <2>2, RestoredNode, Zenon DEF RestoredFrom
  <2>3. CASE Copies(u, s, i) # {}
    <3>1. PICK m : LastCopy(u, s, i, m)
      BY <2>1, <2>3, HasLastCopy, Zenon
    <3>2. Restored(u, s, i) = u.oldValues[m].row
      BY <3>1, RestoredCopy, Zenon
    <3> QED
      BY <3>1, <3>2, Zenon DEF RestoredFrom
  <2> QED
    BY <2>2, <2>3
<1>2. Restored(u, s, i) = u.node[i] => Restored(u, s, i) \in Row
  <2>1. u.node[i] \in Row
    BY Zenon DEF Listed
  <2> QED
    BY <2>1
<1>3. ASSUME NEW m, LastCopy(u, s, i, m), Restored(u, s, i) = u.oldValues[m].row
      PROVE  Restored(u, s, i) \in Row
  <2>1. IsCopy(u, s, i, m)
    BY <1>3, CopiesAre, Zenon DEF LastCopy
  <2>2. m \in 1..Len(u.oldValues)
    BY <2>1, Zenon DEF IsCopy
  <2>3. u.oldValues[m] \in Copy
    BY <2>2 DEF Listed
  <2>4. u.oldValues[m].row \in Row
    BY <2>3 DEF Copy
  <2> QED
    BY <1>3, <2>4
<1> QED
  BY <1>1, <1>2, <1>3, Zenon DEF RestoredFrom

LEMMA SessionIsListed ==
  ASSUME NEW u, IndexType(u), NEW s \in Session, Marked(u, s)
  PROVE  Listed(u, s)
BY DEF IndexType, Listed, Marked, MarkedOld

RemovedAt(u, s, M, i) == \E q \in M : q < RemovedEnd(u, s) /\ u.removedValues[q] = i

LEMMA ThinnedRemovedSince ==
  ASSUME NEW u, NEW v, NEW K, NEW f, NEW M, NEW g, BothThinned(u, v, K, f, M, g),
         NEW s, Marked(u, s), MarksHit(u, s, K, M), NEW i
  PROVE  RemovedSince(v, s, i) <=> RemovedAt(u, s, M, i)
<1>1. Marked(v, s) /\ Delimited(u, v, s, f, g)
  BY ThinnedMarks, Zenon
<1>2. Thinned(u.removedValues, v.removedValues, M, g)
  BY Zenon DEF BothThinned
<1>3. /\ Len(v.removedValues) \in Nat
      /\ RemovedEnd(v, s) \in 1..Len(v.removedValues) + 1
  BY <1>1 DEF BothThinned, IndexType, Marked, MarkedRemoved
<1>4. \A q : q \in 1..RemovedEnd(v, s) - 1 <=> q \in 1..Len(v.removedValues) /\ q < RemovedEnd(v, s)
  BY <1>3
<1>5. \A q \in 1..Len(v.removedValues) : q < RemovedEnd(v, s) <=> g[q] < RemovedEnd(u, s)
  BY <1>1, Zenon DEF Delimited, Delimits
<1>6. \A q \in 1..Len(v.removedValues) : g[q] \in M /\ v.removedValues[q] = u.removedValues[g[q]]
  BY <1>2, Zenon DEF Thinned
<1>7. \A p \in M : \E q \in 1..Len(v.removedValues) : g[q] = p
  BY <1>2, Zenon DEF Thinned
<1>8. ASSUME RemovedSince(v, s, i)
      PROVE  RemovedAt(u, s, M, i)
  <2>1. PICK q : q \in 1..Len(v.removedValues) /\ q < RemovedEnd(v, s) /\ v.removedValues[q] = i
    BY <1>4, <1>8, Zenon DEF RemovedSince
  <2>2. g[q] \in M /\ g[q] < RemovedEnd(u, s) /\ u.removedValues[g[q]] = i
    BY <1>5, <1>6, <2>1
  <2> QED
    BY <2>2, Zenon DEF RemovedAt
<1>9. ASSUME NEW p \in M, p < RemovedEnd(u, s), u.removedValues[p] = i
      PROVE  RemovedSince(v, s, i)
  <2>1. PICK q \in 1..Len(v.removedValues) : g[q] = p
    BY <1>7
  <2>2. q < RemovedEnd(v, s) /\ v.removedValues[q] = i
    BY <1>5, <1>6, <1>9, <2>1
  <2> QED
    BY <1>4, <2>2, Zenon DEF RemovedSince
<1> QED
  BY <1>8, <1>9, Zenon DEF RemovedAt

LEMMA LastSession ==
  ASSUME NEW u, Good(u), u.undoStack # <<>>
  PROVE  LET n == Len(u.undoStack) IN
         /\ n \in Nat \ {0} /\ Last(u.undoStack) = u.undoStack[n]
         /\ u.undoStack[n] \in Session /\ Kept(u, u.undoStack[n])
         /\ Front(u.undoStack) = SubSeq(u.undoStack, 1, n - 1)
<1>1. u.undoStack \in Seq(Session)
  BY Zenon DEF Good, IndexType
<1>2. Len(u.undoStack) \in Nat \ {0}
  BY <1>1, EmptySeq
<1>3. Len(u.undoStack) \in 1..Len(u.undoStack)
  BY <1>2
<1>4. u.undoStack[Len(u.undoStack)] \in Session
  BY <1>1, <1>3
<1>5. Kept(u, u.undoStack[Len(u.undoStack)])
  BY <1>3, Zenon DEF Good
<1> QED
  BY <1>2, <1>4, <1>5, Zenon DEF Last, Front

LEMMA RestrictedNode ==
  ASSUME NEW node, NEW S, S \subseteq DOMAIN node, NEW V, \A i \in DOMAIN node : node[i] \in V
  PROVE  /\ DOMAIN Restrict(node, S) = S
         /\ \A i \in S : Restrict(node, S)[i] = node[i]
         /\ Restrict(node, S) \in [S -> V]
BY DEF Restrict

HasEntriesAt(s, r, K) == \A x : x \in ToSet(r) <=> \E q \in K : s[q] = x

LEMMA SetOfThinned ==
  ASSUME NEW s, NEW r, DOMAIN s = 1..Len(s), DOMAIN r = 1..Len(r), NEW K, NEW f, Thinned(s, r, K, f)
  PROVE  HasEntriesAt(s, r, K)
<1>1. \A j \in 1..Len(r) : f[j] \in K /\ r[j] = s[f[j]]
  BY Zenon DEF Thinned
<1>2. \A p \in K : \E j \in 1..Len(r) : f[j] = p
  BY Zenon DEF Thinned
<1>3. ASSUME NEW x, x \in ToSet(r) PROVE \E q \in K : s[q] = x
  <2>1. PICK j \in 1..Len(r) : r[j] = x
    BY <1>3, Zenon DEF ToSet
  <2> QED
    BY <1>1, <2>1
<1>4. ASSUME NEW q \in K PROVE s[q] \in ToSet(r)
  <2>1. PICK j \in 1..Len(r) : f[j] = q
    BY <1>2
  <2>2. r[j] = s[q]
    BY <1>1, <2>1
  <2> QED
    BY <2>2, Zenon DEF ToSet
<1> QED
  BY <1>3, <1>4, Zenon DEF HasEntriesAt

Removes(u, q, i) == q \in 1..Len(u.removedValues) /\ u.removedValues[q] = i

LEMMA NodesAre ==
  ASSUME NEW u, Good(u)
  PROVE  /\ \A i : i \in DOMAIN u.node <=> i \in u.rows \/ \E q : Removes(u, q, i)
         /\ \A i \in u.rows : \A q : ~ Removes(u, q, i)
         /\ \A i, p, q : Removes(u, p, i) /\ Removes(u, q, i) => p = q
<1>1. DOMAIN u.removedValues = 1..Len(u.removedValues)
  BY DEF Good, IndexType
<1>2. \A i : i \in ToSet(u.removedValues) <=> \E q : Removes(u, q, i)
  BY <1>1, Zenon DEF ToSet, Removes
<1>3. \A i : i \in DOMAIN u.node <=> i \in u.rows \/ i \in ToSet(u.removedValues)
  <2>1. u.rows \cup ToSet(u.removedValues) = DOMAIN u.node
    BY Zenon DEF Good, Accounted
  <2> QED
    BY <2>1
<1>4. \A i \in u.rows : i \notin ToSet(u.removedValues)
  <2>1. u.rows \cap ToSet(u.removedValues) = {}
    BY Zenon DEF Good, Accounted
  <2> QED
    BY <2>1
<1>5. \A i, p, q : Removes(u, p, i) /\ Removes(u, q, i) => p = q
  <2> SUFFICES ASSUME NEW i, NEW p, NEW q, Removes(u, p, i), Removes(u, q, i)
               PROVE  p = q
    OBVIOUS
  <2>1. /\ p \in 1..Len(u.removedValues) /\ q \in 1..Len(u.removedValues)
        /\ u.removedValues[p] = u.removedValues[q]
    BY Zenon DEF Removes
  <2> QED
    BY <2>1, Zenon DEF Good, Distinct
<1> QED
  BY <1>2, <1>3, <1>4, <1>5, Zenon

(* What undoing the newest session makes of the index.                     *)
UndoneIs(u, v, s) ==
  LET rows == RowsBefore(u, s)
      removed == FromN(u.removedValues, RemovedEnd(u, s))
      left == rows \cup ToSet(removed)
  IN  /\ FieldsOf(v, Restrict(NodesBefore(u, s), left), rows,
                  FromN(u.oldValues, OldEnd(u, s)), removed,
                  SubSeq(u.undoStack, 1, Len(u.undoStack) - 1),
                  s.oldNextId, u.revision - 1, u.monotonic)

UndoneParts(u, v, s) ==
  /\ v.oldValues = FromN(u.oldValues, OldEnd(u, s))
  /\ v.removedValues = FromN(u.removedValues, RemovedEnd(u, s))
  /\ v.undoStack = SubSeq(u.undoStack, 1, Len(u.undoStack) - 1)
  /\ v.nextId = s.oldNextId /\ v.revision = u.revision - 1 /\ v.monotonic = u.monotonic
  /\ \A i : i \in v.rows <=> WasRow(u, s, i)
  /\ \A i : i \in DOMAIN v.node <=> i \in DOMAIN u.node
                                    /\ (WasRow(u, s, i) \/ \E q : q >= RemovedEnd(u, s) /\ Removes(u, q, i))
  /\ \A i \in DOMAIN v.node : v.node[i] = Restored(u, s, i)

LEMMA UndoneTyped ==
  ASSUME NEW u, Good(u), u.undoStack # <<>>, NEW v, NEW s, s = u.undoStack[Len(u.undoStack)],
         UndoneIs(u, v, s)
  PROVE  /\ UndoneParts(u, v, s) /\ IndexType(v) /\ Accounted(v)
         /\ \E f, g : BothThinned(u, v, OldEnd(u, s)..Len(u.oldValues), f,
                                  RemovedEnd(u, s)..Len(u.removedValues), g)
<1> DEFINE n == Len(u.undoStack)
           op == OldEnd(u, s)
           rp == RemovedEnd(u, s)
           K == op..Len(u.oldValues)
           M == rp..Len(u.removedValues)
           R == RowsBefore(u, s)
           removed == FromN(u.removedValues, rp)
           left == R \cup ToSet(removed)
           nodes == NodesBefore(u, s)
<1>1. /\ n \in Nat \ {0} /\ s \in Session /\ Kept(u, s)
  BY LastSession
<1>2. IndexType(u) /\ Accounted(u) /\ Distinct(u) /\ Marked(u, s) /\ Listed(u, s)
  <2>1. IndexType(u) /\ Accounted(u) /\ Distinct(u) /\ Marked(u, s)
    BY <1>1, Zenon DEF Good, Kept
  <2> QED
    BY <1>1, <2>1, SessionIsListed
<1>3. /\ op \in 1..Len(u.oldValues) + 1 /\ rp \in 1..Len(u.removedValues) + 1
      /\ u.oldValues \in Seq(Copy) /\ u.removedValues \in Seq(Nat)
  BY <1>2, Zenon DEF IndexType, Marked, MarkedOld, MarkedRemoved
<1>4. /\ v.oldValues = FromN(u.oldValues, op) /\ v.removedValues = removed
      /\ v.undoStack = SubSeq(u.undoStack, 1, n - 1) /\ v.nextId = s.oldNextId
      /\ v.revision = u.revision - 1 /\ v.monotonic = u.monotonic
      /\ v.rows = R /\ v.node = Restrict(nodes, left)
  BY DEF UndoneIs, FieldsOf
<1>5. PICK f : Thinned(u.oldValues, v.oldValues, K, f)
  BY <1>3, <1>4, FromNThins
<1>6. PICK g : Thinned(u.removedValues, v.removedValues, M, g)
  BY <1>3, <1>4, FromNThins
<1>7. v.oldValues \in Seq(Copy) /\ v.removedValues \in Seq(Nat)
  BY <1>3, <1>4, FromNThins
<1>8. \A i : i \in R <=> WasRow(u, s, i)
  BY <1>2, RowsBeforeAre, Zenon DEF Marked
<1>9. \A i : i \in ToSet(removed) <=> \E q : q >= rp /\ Removes(u, q, i)
  <2>1. DOMAIN u.removedValues = 1..Len(u.removedValues) /\ DOMAIN v.removedValues = 1..Len(v.removedValues)
    BY <1>3, <1>7
  <2>2. HasEntriesAt(u.removedValues, v.removedValues, M)
    BY <1>6, <2>1, SetOfThinned, Zenon
  <2>3. \A q : q \in M <=> q \in 1..Len(u.removedValues) /\ q >= rp
    BY <1>3
  <2> HIDE DEF M, removed
  <2> QED
    BY <1>4, <2>2, <2>3, Zenon DEF Removes, HasEntriesAt
<1>10. DOMAIN nodes = DOMAIN u.node /\ \A i \in DOMAIN u.node : nodes[i] = Restored(u, s, i)
  BY NodesBeforeIs
<1>11. \A i \in DOMAIN u.node : Restored(u, s, i) \in Row
  BY <1>2, RestoredIsFrom, Zenon
<1>12. \A i \in left : i \in DOMAIN u.node
  <2>1. \A i : WasRow(u, s, i) => i \in DOMAIN u.node
    BY <1>2, RowsAreNodes, Zenon DEF Marked
  <2>2. \A i : (\E q : Removes(u, q, i)) => i \in DOMAIN u.node
    BY NodesAre, Zenon
  <2> QED
    BY <1>8, <1>9, <2>1, <2>2, Zenon
<1>13. /\ DOMAIN v.node = left /\ \A i \in left : v.node[i] = Restored(u, s, i)
       /\ v.node \in [left -> Row]
  <2> HIDE DEF nodes, left
  <2>1. left \subseteq DOMAIN nodes /\ \A i \in DOMAIN nodes : nodes[i] \in Row
    BY <1>10, <1>11, <1>12
  <2>2. /\ DOMAIN v.node = left /\ \A i \in left : v.node[i] = nodes[i]
        /\ v.node \in [left -> Row]
    BY <1>4, <2>1, RestrictedNode
  <2> QED
    BY <1>10, <1>12, <2>2
<1>14. v.undoStack \in Seq(Session)
  <2>1. u.undoStack \in Seq(Session)
    BY <1>2, Zenon DEF IndexType
  <2>2. \A k \in 1..n - 1 : u.undoStack[k] \in Session
    BY <1>1, <2>1
  <2>3. 1 \in Int /\ n - 1 \in Int
    BY <1>1
  <2>4. SubSeq(u.undoStack, 1, n - 1) \in Seq(Session)
    BY <2>2, <2>3, SubSeqProperties
  <2> QED
    BY <1>4, <2>4
<1>15. UndoneParts(u, v, s)
  <2>1. \A i : i \in v.rows <=> WasRow(u, s, i)
    BY <1>4, <1>8
  <2>2. \A i : i \in left <=> WasRow(u, s, i) \/ \E q : q >= rp /\ Removes(u, q, i)
    BY <1>8, <1>9
  <2>3. \A i : i \in DOMAIN v.node <=> i \in DOMAIN u.node
                                       /\ (WasRow(u, s, i) \/ \E q : q >= rp /\ Removes(u, q, i))
    BY <1>12, <1>13, <2>2
  <2>4. \A i \in DOMAIN v.node : v.node[i] = Restored(u, s, i)
    BY <1>13
  <2> QED
    BY <1>4, <2>1, <2>3, <2>4, Zenon DEF UndoneParts
<1>16. IndexType(v)
  <2>1. v = [node |-> v.node, rows |-> v.rows, oldValues |-> v.oldValues,
             removedValues |-> v.removedValues, undoStack |-> v.undoStack,
             nextId |-> v.nextId, revision |-> v.revision, monotonic |-> v.monotonic]
    BY Zenon DEF UndoneIs, FieldsOf
  <2>2. DOMAIN v.node \subseteq Nat /\ v.node \in [DOMAIN v.node -> Row]
    <3>1. DOMAIN u.node \subseteq Nat
      BY <1>2, Zenon DEF IndexType
    <3> HIDE DEF left
    <3>2. \A i \in left : i \in Nat
      BY <1>12, <3>1
    <3> QED
      BY <1>13, <3>2
  <2>3. v.rows \subseteq DOMAIN v.node
    BY <1>4, <1>13
  <2>4. v.nextId \in Nat /\ v.monotonic \in Nat /\ v.revision \in Int
    <3>1. u.revision \in Int /\ u.monotonic \in Nat /\ s.oldNextId \in Nat
      BY <1>1, <1>2 DEF IndexType, Session
    <3> QED
      BY <1>4, <3>1
  <2> QED
    BY <1>7, <1>14, <2>1, <2>2, <2>3, <2>4, Zenon DEF IndexType
<1>17. Accounted(v)
  <2>1. v.rows \cup ToSet(v.removedValues) = DOMAIN v.node
    BY <1>4, <1>13
  <2>2. ASSUME NEW i, i \in v.rows, i \in ToSet(v.removedValues)
        PROVE  FALSE
    <3>1. WasRow(u, s, i)
      BY <1>4, <1>8, <2>2
    <3>2. PICK q : q >= rp /\ Removes(u, q, i)
      BY <1>4, <1>9, <2>2
    <3>3. i \notin u.rows
      BY <3>2, NodesAre, Zenon
    <3>4. PICK p \in 1..rp - 1 : u.removedValues[p] = i
      BY <3>1, <3>3, Zenon DEF WasRow, RemovedSince
    <3>5. p \in 1..Len(u.removedValues) /\ p < rp
      BY <1>3
    <3>6. p = q
      BY <3>2, <3>4, <3>5, NodesAre, Zenon DEF Removes
    <3>7. p \in Int /\ rp \in Int
      BY <1>3, <3>5
    <3> HIDE DEF rp
    <3> QED
      BY <3>2, <3>5, <3>6, <3>7
  <2>3. ASSUME NEW i \in DOMAIN v.node
        PROVE  i < v.nextId
    <3>1. i \in R \/ i \in ToSet(removed)
      BY <1>13
    <3>2. CASE i \in R
      BY <1>4, <1>8, <3>2 DEF WasRow
    <3>3. CASE i \in ToSet(removed)
      <4>1. PICK q : q >= rp /\ Removes(u, q, i)
        BY <1>9, <3>3
      <4>2. q < rp \/ i < s.oldNextId
        BY <1>1, <4>1, Zenon DEF Kept, RemovedEarlier, Removes
      <4>3. q \in Int /\ rp \in Int
        BY <1>3, <4>1 DEF Removes
      <4> HIDE DEF rp
      <4> QED
        BY <1>4, <4>1, <4>2, <4>3
    <3> QED
      BY <3>1, <3>2, <3>3
  <2>4. v.rows \cap ToSet(v.removedValues) = {}
    BY <2>2
  <2> QED
    BY <2>1, <2>3, <2>4, Zenon DEF Accounted
<1>18. BothThinned(u, v, K, f, M, g)
  BY <1>2, <1>5, <1>6, <1>16, Zenon DEF BothThinned
<1> QED
  BY <1>15, <1>16, <1>17, <1>18

(* The older sessions lose nothing of what they need.                      *)
LEMMA UndoneSession ==
  ASSUME NEW u, Good(u), NEW v, NEW s \in Session, Kept(u, s), UndoneParts(u, v, s),
         NEW f, NEW g, BothThinned(u, v, OldEnd(u, s)..Len(u.oldValues), f,
                                   RemovedEnd(u, s)..Len(u.removedValues), g),
         NEW t \in Session, Kept(u, t), Older(u, t, s)
  PROVE  /\ MarksHit(u, t, OldEnd(u, s)..Len(u.oldValues), RemovedEnd(u, s)..Len(u.removedValues))
         /\ NodesThinned(u, v, t, OldEnd(u, s)..Len(u.oldValues))
         /\ \A i : WasRow(v, t, i) <=> WasRow(u, t, i)
<1> DEFINE op == OldEnd(u, s)
           rp == RemovedEnd(u, s)
           K == op..Len(u.oldValues)
           M == rp..Len(u.removedValues)
<1>1. IndexType(u) /\ Marked(u, s) /\ Marked(u, t) /\ Listed(u, s) /\ Listed(u, t)
  <2>1. IndexType(u) /\ Marked(u, s) /\ Marked(u, t)
    BY Zenon DEF Good, Kept
  <2> QED
    BY <2>1, SessionIsListed
<1>2. /\ op \in 1..Len(u.oldValues) + 1 /\ rp \in 1..Len(u.removedValues) + 1
      /\ OldEnd(u, t) \in 1..Len(u.oldValues) + 1 /\ RemovedEnd(u, t) \in 1..Len(u.removedValues) + 1
      /\ Len(u.oldValues) \in Nat /\ Len(u.removedValues) \in Nat
      /\ op <= OldEnd(u, t) /\ rp <= RemovedEnd(u, t)
  BY <1>1 DEF IndexType, Marked, MarkedOld, MarkedRemoved, Older
<1>3. /\ t.ctime \in Nat /\ s.ctime \in Nat /\ t.oldNextId \in Nat /\ s.oldNextId \in Nat
      /\ t.ctime < s.ctime /\ t.oldNextId <= s.oldNextId
  BY DEF Session, Older
<1>4. MarksHit(u, t, K, M)
  <2>1. t.oldEnd = NULL \/ OldEnd(u, t) \in 1..Len(u.oldValues)
    BY <1>1, Zenon DEF Marked, MarkedOld
  <2>2. t.removedEnd = NULL \/ RemovedEnd(u, t) \in 1..Len(u.removedValues)
    BY <1>1, Zenon DEF Marked, MarkedRemoved
  <2>3. OldEnd(u, t) \in 1..Len(u.oldValues) => OldEnd(u, t) \in K
    BY <1>2
  <2>4. RemovedEnd(u, t) \in 1..Len(u.removedValues) => RemovedEnd(u, t) \in M
    BY <1>2
  <2> QED
    BY <2>1, <2>2, <2>3, <2>4, Zenon DEF MarksHit
<1>5. \A i \in DOMAIN u.node : i < t.oldNextId => i \in DOMAIN v.node
  <2> SUFFICES ASSUME NEW i \in DOMAIN u.node, i < t.oldNextId
               PROVE  WasRow(u, s, i) \/ \E q : q >= rp /\ Removes(u, q, i)
    BY Zenon DEF UndoneParts
  <2>1. i < s.oldNextId
    BY <1>1, <1>3 DEF IndexType
  <2>2. i \in u.rows \/ \E q : Removes(u, q, i)
    BY NodesAre, Zenon
  <2>3. ASSUME NEW q, Removes(u, q, i)
        PROVE  WasRow(u, s, i) \/ q >= rp
    <3>1. q \in 1..Len(u.removedValues) /\ u.removedValues[q] = i
      BY <2>3 DEF Removes
    <3>2. q >= rp \/ q \in 1..rp - 1
      BY <1>2, <3>1
    <3> QED
      BY <2>1, <3>1, <3>2, Zenon DEF WasRow, RemovedSince
  <2> QED
    BY <2>1, <2>2, <2>3, Zenon DEF WasRow
<1>6. NodesThinned(u, v, t, K)
  <2>1. ASSUME NEW i \in DOMAIN v.node
        PROVE  i \in DOMAIN u.node /\ (LeftAlone(u, v, t, i, K) \/ \E m : WrittenFrom(u, v, t, i, K, m))
    <3>1. i \in DOMAIN u.node /\ v.node[i] = Restored(u, s, i)
      BY Zenon DEF UndoneParts
    <3>2. RestoredFrom(u, s, i)
      BY <1>1, <3>1, RestoredIsFrom, Zenon
    <3>3. \A q : q \in Copies(u, t, i) <=> IsCopy(u, t, i, q)
      BY <1>1, CopiesAre, Zenon
    <3>4. \A q : q \in Copies(u, s, i) <=> IsCopy(u, s, i, q)
      BY <1>1, CopiesAre, Zenon
    <3>5. ASSUME NEW q \in Copies(u, t, i)
          PROVE  q \in K \/ q \in Copies(u, s, i)
      <4>1. /\ q \in 1..Len(u.oldValues) /\ u.oldValues[q].current = i
            /\ u.oldValues[q].row.mtime < t.ctime /\ q \in 1..OldEnd(u, t) - 1
        BY <3>3, Zenon DEF IsCopy
      <4>2. u.oldValues[q].row.mtime \in Nat
        BY <1>1, <4>1, NodeAndCopy
      <4>3. u.oldValues[q].row.mtime < s.ctime
        BY <1>3, <4>1, <4>2
      <4>4. q \in K \/ q \in 1..op - 1
        BY <1>2, <4>1
      <4>5. q \in 1..op - 1 => IsCopy(u, s, i, q)
        BY <4>1, <4>3, Zenon DEF IsCopy
      <4> QED
        BY <3>4, <4>4, <4>5, Zenon
    <3>6. CASE Restored(u, s, i) = u.node[i] /\ Copies(u, s, i) = {}
      <4>1. Copies(u, t, i) \subseteq K
        BY <3>5, <3>6
      <4>2. v.node[i] = u.node[i]
        BY <3>1, <3>6
      <4> QED
        BY <3>1, <4>1, <4>2, Zenon DEF LeftAlone
    <3>7. ASSUME NEW m, LastCopy(u, s, i, m), Restored(u, s, i) = u.oldValues[m].row
          PROVE  WrittenFrom(u, v, t, i, K, m)
      <4>1. m \in 1..op - 1 /\ m \in 1..Len(u.oldValues) /\ u.oldValues[m].current = i
        BY <3>4, <3>7, Zenon DEF LastCopy, IsCopy
      <4>2. m \in 1..OldEnd(u, t) - 1
        BY <1>2, <4>1
      <4>3. v.node[i] = u.oldValues[m].row
        BY <3>1, <3>7
      <4>4. \A q \in Copies(u, t, i) : q <= m \/ q \in K
        BY <3>5, <3>7, Zenon DEF LastCopy
      <4>5. \A q \in K : q > m
        BY <1>2, <4>1
      <4> QED
        BY <4>1, <4>2, <4>3, <4>4, <4>5, Zenon DEF WrittenFrom
    <3> QED
      BY <3>1, <3>2, <3>6, <3>7, Zenon DEF RestoredFrom
  <2> QED
    BY <1>5, <2>1, Zenon DEF NodesThinned
<1>7. ASSUME NEW i
      PROVE  WasRow(v, t, i) <=> WasRow(u, t, i)
  <2> SUFFICES ASSUME i < t.oldNextId
               PROVE  i \in v.rows \/ RemovedSince(v, t, i) <=> i \in u.rows \/ RemovedSince(u, t, i)
    BY Zenon DEF WasRow
  <2>1. RemovedSince(v, t, i) <=> RemovedAt(u, t, M, i)
    BY <1>1, <1>4, ThinnedRemovedSince, Zenon
  <2>2. RemovedSince(u, t, i) <=> RemovedSince(u, s, i) \/ RemovedAt(u, t, M, i)
    <3>1. \A q : q \in 1..RemovedEnd(u, t) - 1 <=> q \in 1..rp - 1 \/ (q \in M /\ q < RemovedEnd(u, t))
      BY <1>2
    <3>2. RemovedSince(u, t, i) => RemovedSince(u, s, i) \/ RemovedAt(u, t, M, i)
      <4> SUFFICES ASSUME NEW q \in 1..RemovedEnd(u, t) - 1, u.removedValues[q] = i
                   PROVE  RemovedSince(u, s, i) \/ RemovedAt(u, t, M, i)
        BY Zenon DEF RemovedSince
      <4> HIDE DEF M
      <4> QED
        BY <3>1, Zenon DEF RemovedSince, RemovedAt
    <3>3. RemovedSince(u, s, i) => RemovedSince(u, t, i)
      <4> SUFFICES ASSUME NEW q \in 1..rp - 1, u.removedValues[q] = i
                   PROVE  RemovedSince(u, t, i)
        BY Zenon DEF RemovedSince
      <4> HIDE DEF M
      <4> QED
        BY <3>1, Zenon DEF RemovedSince
    <3>4. RemovedAt(u, t, M, i) => RemovedSince(u, t, i)
      <4> HIDE DEF M
      <4> QED
        BY <3>1, Zenon DEF RemovedSince, RemovedAt
    <3> QED
      BY <3>2, <3>3, <3>4
  <2>3. i \in v.rows <=> i < s.oldNextId /\ (i \in u.rows \/ RemovedSince(u, s, i))
    BY Zenon DEF UndoneParts, WasRow
  <2>4. i \in u.rows \/ RemovedSince(u, s, i) => i < s.oldNextId
    <3>1. i \in u.rows \/ RemovedSince(u, s, i) => i \in Nat
      <4>1. i \in u.rows => i \in Nat
        BY <1>1 DEF IndexType
      <4>2. RemovedSince(u, s, i) => i \in Nat
        <5> SUFFICES ASSUME NEW q \in 1..rp - 1, u.removedValues[q] = i
                     PROVE  i \in Nat
          BY Zenon DEF RemovedSince
        <5>1. q \in 1..Len(u.removedValues) /\ u.removedValues \in Seq(Nat)
          BY <1>1, <1>2 DEF IndexType
        <5> QED
          BY <5>1
      <4> QED
        BY <4>1, <4>2
    <3> QED
      BY <1>3, <3>1
  <2> QED
    BY <2>1, <2>2, <2>3, <2>4, Zenon
<1> QED
  BY <1>4, <1>6, <1>7, Zenon

-----------------------------------------------------------------------------
(* What is seen of the index.                                              *)
UndoOf(u) == [k \in DOMAIN u.undoStack |-> Saved(u, u.undoStack[k])]
Shows(u, table, lists, revision) == View(u) = [table |-> table, undo |-> lists, revision |-> revision]

LEMMA ViewIs ==
  ASSUME NEW u
  PROVE  Shows(u, Table(u.node, u.rows, u.nextId), UndoOf(u), u.revision)
BY Zenon DEF Shows, View, UndoOf, Saved

LEMMA UndoOfIs ==
  ASSUME NEW u, u.undoStack \in Seq(Session)
  PROVE  /\ UndoOf(u) \in Seq({Saved(u, u.undoStack[k]) : k \in 1..Len(u.undoStack)})
         /\ Len(UndoOf(u)) = Len(u.undoStack)
         /\ \A k \in 1..Len(u.undoStack) : UndoOf(u)[k] = Saved(u, u.undoStack[k])
<1> DEFINE n == Len(u.undoStack)
           S == {Saved(u, u.undoStack[k]) : k \in 1..n}
           e == UndoOf(u)
<1>1. n \in Nat /\ DOMAIN u.undoStack = 1..n
  OBVIOUS
<1>2. e = [k \in 1..n |-> Saved(u, u.undoStack[k])]
  BY <1>1 DEF UndoOf
<1>3. \A k \in 1..n : Saved(u, u.undoStack[k]) \in S
  OBVIOUS
<1>4. e \in [1..n -> S] /\ \A k \in 1..n : e[k] = Saved(u, u.undoStack[k])
  BY <1>2, <1>3
<1> HIDE DEF S, e, n
<1>5. e \in Seq(S) /\ Len(e) = n
  BY <1>1, <1>4
<1> QED
  BY <1>4, <1>5 DEF e, S, n

LEMMA UndoOfPart ==
  ASSUME NEW u, NEW v, u.undoStack \in Seq(Session), v.undoStack \in Seq(Session),
         NEW a \in Nat \ {0}, NEW b \in 0..Len(u.undoStack), a <= b + 1,
         SubStack(u, v, a, b), SameSaved(u, v, a, b)
  PROVE  UndoOf(v) = SubSeq(UndoOf(u), a, b)
<1> DEFINE n == Len(u.undoStack)
           S == {Saved(u, u.undoStack[k]) : k \in 1..n}
           e == UndoOf(u)
           r == SubSeq(e, a, b)
           m == b - a + 1
<1>1. n \in Nat /\ Len(v.undoStack) = m /\ DOMAIN v.undoStack = 1..m /\ m \in Nat
      /\ a \in Int /\ b \in Int
  <2>1. Len(v.undoStack) = m
    BY Zenon DEF SubStack
  <2> QED
    BY <2>1
<1>2. e \in Seq(S) /\ Len(e) = n /\ \A k \in 1..n : e[k] = Saved(u, u.undoStack[k])
  BY UndoOfIs
<1> HIDE DEF e, S
<1>3. \A i \in a..b : i \in 1..n /\ e[i] \in S
  BY <1>1, <1>2
<1>4. /\ r \in Seq(S)
      /\ Len(r) = IF a <= b THEN b - a + 1 ELSE 0
      /\ \A i \in 1..b - a + 1 : r[i] = e[a + i - 1]
  BY <1>1, <1>3, SubSeqProperties
<1> HIDE DEF r
<1>5. Len(r) = m
  BY <1>1, <1>4
<1>6. DOMAIN r = 1..m /\ r = [i \in 1..m |-> r[i]]
  BY <1>4, <1>5
<1>7. ASSUME NEW i \in 1..m
      PROVE  r[i] = Saved(v, v.undoStack[i])
  <2>1. a + i - 1 \in 1..n
    BY <1>1
  <2>2. Saved(v, v.undoStack[i]) = Saved(u, u.undoStack[a + i - 1])
    BY Zenon DEF SameSaved
  <2> QED
    BY <1>2, <1>4, <2>1, <2>2
<1>8. UndoOf(v) = [i \in 1..m |-> Saved(v, v.undoStack[i])]
  BY <1>1, Zenon DEF UndoOf
<1>9. UndoOf(v) = r
  <2> HIDE DEF m
  <2> QED
    BY <1>6, <1>7, <1>8
<1> QED
  BY <1>9 DEF r, e

LEMMA UndoneGood ==
  ASSUME NEW u, Good(u), u.undoStack # <<>>
  PROVE  LET n == Len(u.undoStack)
             v == Undone(u)
         IN  /\ Good(v)
             /\ Shows(v, Saved(u, u.undoStack[n]), SubSeq(UndoOf(u), 1, n - 1), u.revision - 1)
<1> DEFINE n == Len(u.undoStack)
           v == Undone(u)
           s == u.undoStack[n]
           K == OldEnd(u, s)..Len(u.oldValues)
           M == RemovedEnd(u, s)..Len(u.removedValues)
<1>1. /\ n \in Nat \ {0} /\ Last(u.undoStack) = s /\ s \in Session /\ Kept(u, s)
      /\ Front(u.undoStack) = SubSeq(u.undoStack, 1, n - 1)
  BY LastSession
<1>2. IndexType(u) /\ u.undoStack \in Seq(Session) /\ Times(u) /\ Marked(u, s)
  BY <1>1, Zenon DEF Good, IndexType, Kept
<1>3. UndoneIs(u, v, s)
  <2>1. FieldsOf(v, Restrict(NodesBefore(u, s), RowsBefore(u, s)
                               \cup ToSet(FromN(u.removedValues, RemovedEnd(u, s)))),
                 RowsBefore(u, s), FromN(u.oldValues, OldEnd(u, s)),
                 FromN(u.removedValues, RemovedEnd(u, s)),
                 Front(u.undoStack), s.oldNextId, u.revision - 1, u.monotonic)
    BY <1>1, <1>2, UndoneFields
  <2> QED
    BY <1>1, <2>1, Zenon DEF UndoneIs
<1> HIDE DEF v
<1>4. /\ UndoneParts(u, v, s) /\ IndexType(v) /\ Accounted(v)
      /\ \E f, g : BothThinned(u, v, K, f, M, g)
  BY <1>3, UndoneTyped
<1>5. PICK f, g : BothThinned(u, v, K, f, M, g)
  BY <1>4
<1>6. \A k \in 1..n - 1 : /\ u.undoStack[k] \in Session /\ Kept(u, u.undoStack[k])
                          /\ Older(u, u.undoStack[k], s)
  <2> SUFFICES ASSUME NEW k \in 1..n - 1
               PROVE  /\ u.undoStack[k] \in Session /\ Kept(u, u.undoStack[k])
                      /\ Older(u, u.undoStack[k], s)
    OBVIOUS
  <2>1. k \in 1..n /\ n \in 1..n /\ k < n
    BY <1>1
  <2>2. u.undoStack[k] \in Session
    BY <1>2, <2>1
  <2> QED
    BY <2>1, <2>2, Zenon DEF Good
<1>7. SessionsThinned(u, v, K, M, 1, n - 1)
  <2>1. 1 \in Nat \ {0} /\ n - 1 \in 0..n /\ 1 <= (n - 1) + 1
    BY <1>1
  <2>2. v.undoStack = SubSeq(u.undoStack, 1, n - 1)
    BY <1>4, Zenon DEF UndoneParts
  <2>3. ASSUME NEW k \in 1..n - 1
        PROVE  LET t == u.undoStack[k] IN
                 /\ MarksHit(u, t, K, M) /\ NodesThinned(u, v, t, K)
                 /\ \A i : WasRow(v, t, i) <=> WasRow(u, t, i)
    <3> DEFINE t == u.undoStack[k]
    <3>1. t \in Session /\ Kept(u, t) /\ Older(u, t, s)
      BY <1>6
    <3> HIDE DEF t, s
    <3> QED
      BY <1>1, <1>4, <1>5, <3>1, UndoneSession DEF t
  <2> HIDE DEF s, K, M
  <2> QED
    BY <2>1, <2>2, <2>3, Zenon DEF SessionsThinned
<1>8. TimesThinned(u, v)
  <2>1. v.monotonic = u.monotonic /\ v.nextId = s.oldNextId
    BY <1>4, Zenon DEF UndoneParts
  <2>2. ASSUME NEW i \in DOMAIN v.node
        PROVE  \/ i \in DOMAIN u.node /\ v.node[i] = u.node[i]
               \/ \E m \in 1..Len(u.oldValues) : v.node[i] = u.oldValues[m].row
    <3>1. i \in DOMAIN u.node /\ v.node[i] = Restored(u, s, i)
      BY <1>4, Zenon DEF UndoneParts
    <3>2. Listed(u, s)
      BY <1>1, <1>2, SessionIsListed, Zenon
    <3>3. RestoredFrom(u, s, i)
      BY <3>1, <3>2, RestoredIsFrom, Zenon
    <3>4. \A m : LastCopy(u, s, i, m) => m \in 1..Len(u.oldValues)
      BY <3>2, CopiesAre, Zenon DEF LastCopy, IsCopy
    <3> QED
      BY <3>1, <3>3, <3>4, Zenon DEF RestoredFrom
  <2>3. ASSUME NEW k \in 1..Len(v.undoStack)
        PROVE  v.undoStack[k].oldNextId <= v.nextId
    <3>1. v.undoStack = SubSeq(u.undoStack, 1, n - 1)
      BY <1>4, Zenon DEF UndoneParts
    <3>2. 1 \in Nat \ {0} /\ n - 1 \in 0..Len(u.undoStack) /\ 1 <= (n - 1) + 1
      BY <1>1
    <3>3. SubStack(u, v, 1, n - 1)
      BY <1>2, <3>1, <3>2, StackPart
    <3>4. k \in 1..n - 1 /\ v.undoStack[k] = u.undoStack[k]
      BY <1>1, <3>3 DEF SubStack
    <3> QED
      BY <1>6, <2>1, <3>4 DEF Older
  <2> QED
    BY <2>1, <2>2, <2>3, Zenon DEF TimesThinned
<1>9. Good(v) /\ SubStack(u, v, 1, n - 1) /\ SameSaved(u, v, 1, n - 1)
  BY <1>4, <1>5, <1>7, <1>8, ThinnedGood, Zenon
<1>10. UndoOf(v) = SubSeq(UndoOf(u), 1, n - 1)
  <2>1. 1 \in Nat \ {0} /\ n - 1 \in 0..Len(u.undoStack) /\ 1 <= (n - 1) + 1
    BY <1>1
  <2>2. v.undoStack \in Seq(Session)
    BY <1>4, Zenon DEF IndexType
  <2> QED
    BY <1>2, <1>9, <2>1, <2>2, UndoOfPart
<1>11. Table(v.node, v.rows, v.nextId) = Saved(u, s)
  <2>1. v.rows = RowsBefore(u, s)
    BY <1>3 DEF UndoneIs, FieldsOf
  <2>2. ASSUME NEW i \in v.rows
        PROVE  v.node[i] = NodesBefore(u, s)[i]
    <3>1. i \in DOMAIN v.node
      BY <1>4 DEF IndexType
    <3>2. i \in DOMAIN u.node /\ v.node[i] = Restored(u, s, i)
      BY <1>4, <3>1, Zenon DEF UndoneParts
    <3> QED
      BY <3>2, NodesBeforeIs
  <2>3. v.nextId = s.oldNextId
    BY <1>4, Zenon DEF UndoneParts
  <2> QED
    BY <2>1, <2>2, <2>3 DEF Table, Saved
<1>12. v.revision = u.revision - 1
  BY <1>4, Zenon DEF UndoneParts
<1>13. Shows(v, Saved(u, s), SubSeq(UndoOf(u), 1, n - 1), u.revision - 1)
  BY <1>10, <1>11, <1>12, ViewIs
<1> QED
  BY <1>9, <1>13 DEF v

-----------------------------------------------------------------------------
(* Compression: everything since the session s becomes one session; t is   *)
(* the newest session, b the number of those that stay.                    *)
Erased(u, i) == i \in ToSet(u.removedValues)

Moved(u, s, t, i) ==
  {p \in 1..OldEnd(u, t) - 1 : /\ u.oldValues[p].current = i
                               /\ ~ (u.oldValues[p].row.mtime >= s.ctime)
                               /\ Erased(u, u.oldValues[p].current)}

MovedNodes(u, s, t) ==
  [i \in DOMAIN u.node |->
     IF Moved(u, s, t, i) = {} THEN u.node[i] ELSE u.oldValues[Max(Moved(u, s, t, i))].row]

KeptOldAt(u, s, t) ==
  {p \in DOMAIN u.oldValues :
     p < OldEnd(u, t) => /\ ~ (u.oldValues[p].row.mtime >= s.ctime)
                         /\ ~ Erased(u, u.oldValues[p].current)}

KeptRemovedAt(u, s, t) ==
  {p \in DOMAIN u.removedValues : p < RemovedEnd(u, t) => u.removedValues[p] < s.oldNextId}

CompressedIs(u, v, s, t, undoStack, revision) ==
  LET removed == EntriesAt(u.removedValues, KeptRemovedAt(u, s, t)) IN
  FieldsOf(v, Restrict(MovedNodes(u, s, t), u.rows \cup ToSet(removed)), u.rows,
           EntriesAt(u.oldValues, KeptOldAt(u, s, t)), removed,
           undoStack, u.nextId, revision, u.monotonic)

LEMMA ThreeFields ==
  ASSUME NEW u, NEW node, NEW rows, NEW oldValues, NEW removedValues, NEW undoStack,
         NEW nextId, NEW revision, NEW monotonic,
         FieldsOf(u, node, rows, oldValues, removedValues, undoStack, nextId, revision, monotonic),
         NEW n, NEW o, NEW d
  PROVE  FieldsOf([u EXCEPT !.node = n, !.oldValues = o, !.removedValues = d],
                  n, rows, o, d, undoStack, nextId, revision, monotonic)
<1> DEFINE w1 == [u EXCEPT !.node = n]
           w2 == [w1 EXCEPT !.oldValues = o]
           w3 == [w2 EXCEPT !.removedValues = d]
<1> HIDE DEF w2, w3
<1>1. FieldsOf(w1, n, rows, oldValues, removedValues, undoStack, nextId, revision, monotonic)
  BY DEF FieldsOf
<1> HIDE DEF w1
<1>2. FieldsOf(w2, n, rows, o, removedValues, undoStack, nextId, revision, monotonic)
  BY <1>1 DEF FieldsOf, w2
<1>3. FieldsOf(w3, n, rows, o, d, undoStack, nextId, revision, monotonic)
  BY <1>2 DEF FieldsOf, w3
<1> QED
  BY <1>3, Zenon DEF w1, w2, w3

LEMMA OwnFields ==
  ASSUME NEW u, IndexType(u)
  PROVE  FieldsOf(u, u.node, u.rows, u.oldValues, u.removedValues, u.undoStack,
                  u.nextId, u.revision, u.monotonic)
BY Zenon DEF IndexType, FieldsOf

LEMMA CompressedFields ==
  ASSUME NEW u, IndexType(u), NEW s
  PROVE  CompressedIs(u, Compressed(u, s), s, Last(u.undoStack), u.undoStack, u.revision)
<1> DEFINE t == Last(u.undoStack)
           n == MovedNodes(u, s, t)
           o == EntriesAt(u.oldValues, KeptOldAt(u, s, t))
           d == EntriesAt(u.removedValues, KeptRemovedAt(u, s, t))
           w == [u EXCEPT !.node = n, !.oldValues = o, !.removedValues = d]
<1>1. Compressed(u, s) = Freed(w)
  BY Zenon DEF Compressed, MovedNodes, Moved, KeptOldAt, KeptRemovedAt, Erased, OldEnd, RemovedEnd
<1> HIDE DEF n, o, d
<1>2. FieldsOf(w, n, u.rows, o, d, u.undoStack, u.nextId, u.revision, u.monotonic)
  BY OwnFields, ThreeFields, Zenon
<1> HIDE DEF w
<1>3. FieldsOf(Freed(w), Restrict(n, u.rows \cup ToSet(d)), u.rows, o, d,
               u.undoStack, u.nextId, u.revision, u.monotonic)
  BY <1>2, FreedFields, Zenon
<1> QED
  BY <1>1, <1>3, Zenon DEF CompressedIs, n, o, d

(* What compression and commit have in common: the lists are thinned out   *)
(* and the nodes of the entries dropped are freed.                         *)
ListsAre(u, v, node, K, f, M, g) ==
  /\ v.rows = u.rows /\ v.nextId = u.nextId /\ v.monotonic = u.monotonic
  /\ \A i : i \in DOMAIN v.node <=> i \in u.rows \/ \E q \in M : Removes(u, q, i)
  /\ \A i \in DOMAIN v.node : i \in DOMAIN u.node /\ v.node[i] = node[i]

LEMMA ListsThinned ==
  ASSUME NEW u, Good(u), NEW v, NEW node, DOMAIN node = DOMAIN u.node,
         \A i \in DOMAIN u.node : node[i] \in Row,
         NEW o \in Seq(Copy), NEW d \in Seq(Nat), NEW stack \in Seq(Session), NEW revision \in Int,
         NEW K, NEW f, NEW M, NEW g,
         Thinned(u.oldValues, o, K, f), Thinned(u.removedValues, d, M, g),
         FieldsOf(v, Restrict(node, u.rows \cup ToSet(d)), u.rows, o, d, stack,
                  u.nextId, revision, u.monotonic)
  PROVE  /\ IndexType(v) /\ Accounted(v) /\ BothThinned(u, v, K, f, M, g)
         /\ ListsAre(u, v, node, K, f, M, g)
<1> DEFINE left == u.rows \cup ToSet(d)
<1>1. IndexType(u) /\ Accounted(u) /\ Distinct(u)
  BY Zenon DEF Good
<1>2. /\ v.oldValues = o /\ v.removedValues = d /\ v.undoStack = stack /\ v.nextId = u.nextId
      /\ v.revision = revision /\ v.monotonic = u.monotonic /\ v.rows = u.rows
      /\ v.node = Restrict(node, left)
  <2> HIDE DEF left
  <2>1. FieldsOf(v, Restrict(node, left), u.rows, o, d, stack, u.nextId, revision, u.monotonic)
    BY DEF left
  <2> DEFINE nodes == Restrict(node, left)
             rows == u.rows
             next == u.nextId
             mono == u.monotonic
  <2> HIDE DEF nodes, rows, next, mono
  <2>2. FieldsOf(v, nodes, rows, o, d, stack, next, revision, mono)
    BY <2>1 DEF nodes, rows, next, mono
  <2>3. /\ v.oldValues = o /\ v.removedValues = d /\ v.undoStack = stack /\ v.nextId = next
        /\ v.revision = revision /\ v.monotonic = mono /\ v.rows = rows
        /\ v.node = nodes
    BY <2>2 DEF FieldsOf
  <2> QED
    BY <2>3 DEF nodes, rows, next, mono
<1>3. \A i : i \in ToSet(d) <=> \E q \in M : Removes(u, q, i)
  <2>1. DOMAIN u.removedValues = 1..Len(u.removedValues) /\ DOMAIN d = 1..Len(d)
    BY <1>1 DEF IndexType
  <2>2. HasEntriesAt(u.removedValues, d, M)
    BY <2>1, SetOfThinned, Zenon
  <2>3. M \in SUBSET (1..Len(u.removedValues))
    BY Zenon DEF Thinned
  <2>4. \A q \in M : q \in 1..Len(u.removedValues)
    BY <2>3
  <2> QED
    BY <2>2, <2>4, Zenon DEF HasEntriesAt, Removes
<1>4. \A i : i \in left <=> i \in u.rows \/ \E q \in M : Removes(u, q, i)
  BY <1>3
<1>5. \A i \in left : i \in DOMAIN u.node
  BY <1>4, NodesAre, Zenon
<1> HIDE DEF left
<1>6. left \subseteq DOMAIN node /\ \A i \in DOMAIN node : node[i] \in Row
  BY <1>5
<1>7. /\ DOMAIN v.node = left /\ \A i \in left : v.node[i] = node[i]
      /\ v.node \in [left -> Row]
  <2>1. /\ DOMAIN Restrict(node, left) = left
        /\ \A i \in left : Restrict(node, left)[i] = node[i]
        /\ Restrict(node, left) \in [left -> Row]
    BY <1>6, RestrictedNode
  <2>2. v.node = Restrict(node, left)
    BY <1>2
  <2> QED
    BY <2>1, <2>2
<1>8. ListsAre(u, v, node, K, f, M, g)
  BY <1>2, <1>4, <1>5, <1>7, Zenon DEF ListsAre
<1>9. IndexType(v)
  <2>1. v = [node |-> v.node, rows |-> v.rows, oldValues |-> v.oldValues,
             removedValues |-> v.removedValues, undoStack |-> v.undoStack,
             nextId |-> v.nextId, revision |-> v.revision, monotonic |-> v.monotonic]
    BY <1>2, Zenon DEF FieldsOf, left
  <2>2. DOMAIN v.node \subseteq Nat /\ v.node \in [DOMAIN v.node -> Row]
    <3>1. DOMAIN u.node \subseteq Nat
      BY <1>1, Zenon DEF IndexType
    <3>2. \A i \in left : i \in Nat
      BY <1>5, <3>1
    <3> QED
      BY <1>7, <3>2
  <2>3. v.rows \subseteq DOMAIN v.node
    BY <1>2, <1>7 DEF left
  <2>4. v.nextId \in Nat /\ v.monotonic \in Nat /\ v.revision \in Int
    BY <1>1, <1>2 DEF IndexType
  <2> QED
    BY <1>2, <2>1, <2>2, <2>3, <2>4, Zenon DEF IndexType
<1>10. Accounted(v)
  <2>1. v.rows \cup ToSet(v.removedValues) = DOMAIN v.node
    BY <1>2, <1>7 DEF left
  <2>2. \A i : i \in v.rows => i \notin ToSet(v.removedValues)
    BY <1>2, <1>3, NodesAre, Zenon
  <2>3. \A i \in DOMAIN v.node : i < v.nextId
    BY <1>1, <1>2, <1>5, <1>7 DEF Accounted
  <2> QED
    BY <2>1, <2>2, <2>3 DEF Accounted
<1>11. BothThinned(u, v, K, f, M, g)
  BY <1>1, <1>2, <1>9, Zenon DEF BothThinned
<1> QED
  BY <1>8, <1>9, <1>10, <1>11

(* x started no later than s.                                              *)
NotAfter(u, x, s) ==
  /\ OldEnd(u, s) <= OldEnd(u, x) /\ RemovedEnd(u, s) <= RemovedEnd(u, x)
  /\ x.ctime <= s.ctime /\ x.oldNextId <= s.oldNextId

(* Where the node of a row comes from: itself, or the last copy moved.     *)
LastMoved(u, s, t, i, m) == m \in Moved(u, s, t, i) /\ \A q \in Moved(u, s, t, i) : q <= m

MovedFrom(u, s, t, i) ==
  \/ MovedNodes(u, s, t)[i] = u.node[i] /\ Moved(u, s, t, i) = {}
  \/ \E m : LastMoved(u, s, t, i, m) /\ MovedNodes(u, s, t)[i] = u.oldValues[m].row

LEMMA MovedIsFrom ==
  ASSUME NEW u, NEW s, NEW t, OldEnd(u, t) \in Nat \ {0}, NEW i \in DOMAIN u.node
  PROVE  MovedFrom(u, s, t, i)
<1> DEFINE S == Moved(u, s, t, i)
           N == MovedNodes(u, s, t)[i]
<1>1. N = IF S = {} THEN u.node[i] ELSE u.oldValues[Max(S)].row
  BY Zenon DEF MovedNodes
<1>2. CASE S = {}
  BY <1>1, <1>2, Zenon DEF MovedFrom
<1>3. CASE S # {}
  <2>1. OldEnd(u, t) - 1 \in Nat
    OBVIOUS
  <2>2. S \in SUBSET (1..(OldEnd(u, t) - 1))
    BY Zenon DEF Moved
  <2> HIDE DEF S
  <2>3. Max(S) \in S /\ \A q \in S : q <= Max(S)
    BY <1>3, <2>1, <2>2, LargestOf
  <2>4. N = u.oldValues[Max(S)].row
    BY <1>1, <1>3, Zenon
  <2>5. LastMoved(u, s, t, i, Max(S))
    BY <2>3, Zenon DEF S, LastMoved
  <2> QED
    BY <2>4, <2>5, Zenon DEF MovedFrom
<1> QED
  BY <1>2, <1>3

LEMMA CompressedTyped ==
  ASSUME NEW u, Good(u), NEW v, NEW s \in Session, NEW t \in Session, Marked(u, t),
         NEW stack \in Seq(Session), NEW revision \in Int,
         CompressedIs(u, v, s, t, stack, revision)
  PROVE  /\ IndexType(v) /\ Accounted(v) /\ v.undoStack = stack /\ v.revision = revision
         /\ \E f, g : /\ BothThinned(u, v, KeptOldAt(u, s, t), f, KeptRemovedAt(u, s, t), g)
                      /\ ListsAre(u, v, MovedNodes(u, s, t), KeptOldAt(u, s, t), f,
                                  KeptRemovedAt(u, s, t), g)
<1> DEFINE K == KeptOldAt(u, s, t)
           M == KeptRemovedAt(u, s, t)
           o == EntriesAt(u.oldValues, K)
           d == EntriesAt(u.removedValues, M)
           node == MovedNodes(u, s, t)
<1>1. /\ IndexType(u) /\ u.oldValues \in Seq(Copy) /\ u.removedValues \in Seq(Nat)
      /\ DOMAIN u.oldValues = 1..Len(u.oldValues) /\ DOMAIN u.removedValues = 1..Len(u.removedValues)
  <2>1. IndexType(u) /\ u.oldValues \in Seq(Copy) /\ u.removedValues \in Seq(Nat)
    BY Zenon DEF Good, IndexType
  <2> QED
    BY <2>1
<1>2. K \in SUBSET (1..Len(u.oldValues)) /\ M \in SUBSET (1..Len(u.removedValues))
  BY <1>1, Zenon DEF KeptOldAt, KeptRemovedAt
<1>3. OldEnd(u, t) \in Nat \ {0} /\ OldEnd(u, t) \in 1..Len(u.oldValues) + 1
  <2>1. OldEnd(u, t) \in 1..Len(u.oldValues) + 1
    BY Zenon DEF Marked, MarkedOld
  <2> QED
    BY <2>1
<1>4. FieldsOf(v, Restrict(node, u.rows \cup ToSet(d)), u.rows, o, d, stack,
               u.nextId, revision, u.monotonic)
  BY Zenon DEF CompressedIs
<1>5. DOMAIN node = DOMAIN u.node
  BY Zenon DEF MovedNodes
<1> HIDE DEF K, M, o, d, node
<1>6. o \in Seq(Copy) /\ \E f : Thinned(u.oldValues, o, K, f)
  BY <1>1, <1>2, EntriesAtThins DEF o
<1>7. d \in Seq(Nat) /\ \E g : Thinned(u.removedValues, d, M, g)
  BY <1>1, <1>2, EntriesAtThins DEF d
<1>8. ASSUME NEW i \in DOMAIN u.node
      PROVE  node[i] \in Row
  <2>1. MovedFrom(u, s, t, i)
    BY <1>3, MovedIsFrom, Zenon
  <2>2. ASSUME NEW m, LastMoved(u, s, t, i, m)
        PROVE  u.oldValues[m].row \in Row
    <3>1. m \in 1..OldEnd(u, t) - 1
      BY <2>2, Zenon DEF LastMoved, Moved
    <3>2. m \in 1..Len(u.oldValues)
      BY <1>1, <1>3, <3>1
    <3>3. u.oldValues[m] \in Copy
      BY <1>1, <3>2
    <3> QED
      BY <3>3 DEF Copy
  <2>3. u.node[i] \in Row
    <3>1. u.node \in [DOMAIN u.node -> Row]
      BY <1>1, Zenon DEF IndexType
    <3> QED
      BY <3>1
  <2> QED
    BY <2>1, <2>2, <2>3, Zenon DEF MovedFrom, node
<1>9. v.undoStack = stack /\ v.revision = revision
  BY <1>4 DEF FieldsOf
<1>10. PICK f : Thinned(u.oldValues, o, K, f)
  BY <1>6
<1>11. PICK g : Thinned(u.removedValues, d, M, g)
  BY <1>7
<1>12. /\ IndexType(v) /\ Accounted(v) /\ BothThinned(u, v, K, f, M, g)
       /\ ListsAre(u, v, node, K, f, M, g)
  BY <1>4, <1>5, <1>6, <1>7, <1>8, <1>10, <1>11, ListsThinned, Zenon
<1> QED
  BY <1>9, <1>12, Zenon DEF K, M, node

LEMMA CompressedSession ==
  ASSUME NEW u, Good(u), NEW v, NEW s \in Session, NEW t \in Session, Marked(u, t),
         NEW f, NEW g,
         BothThinned(u, v, KeptOldAt(u, s, t), f, KeptRemovedAt(u, s, t), g),
         ListsAre(u, v, MovedNodes(u, s, t), KeptOldAt(u, s, t), f, KeptRemovedAt(u, s, t), g),
         NEW x \in Session, Kept(u, x), NotAfter(u, x, s), NotAfter(u, x, t)
  PROVE  /\ MarksHit(u, x, KeptOldAt(u, s, t), KeptRemovedAt(u, s, t))
         /\ NodesThinned(u, v, x, KeptOldAt(u, s, t))
         /\ \A i : WasRow(v, x, i) <=> WasRow(u, x, i)
<1> DEFINE K == KeptOldAt(u, s, t)
           M == KeptRemovedAt(u, s, t)
           op == OldEnd(u, t)
           rp == RemovedEnd(u, t)
           ox == OldEnd(u, x)
           rx == RemovedEnd(u, x)
<1>1. IndexType(u) /\ Marked(u, x) /\ Listed(u, x)
  <2>1. IndexType(u) /\ Marked(u, x)
    BY Zenon DEF Good, Kept
  <2> QED
    BY <2>1, SessionIsListed
<1>2. /\ op \in 1..Len(u.oldValues) + 1 /\ rp \in 1..Len(u.removedValues) + 1
      /\ ox \in 1..Len(u.oldValues) + 1 /\ rx \in 1..Len(u.removedValues) + 1
      /\ Len(u.oldValues) \in Nat /\ Len(u.removedValues) \in Nat
      /\ op <= ox /\ rp <= rx
  <2>1. Len(u.oldValues) \in Nat /\ Len(u.removedValues) \in Nat
    BY <1>1 DEF IndexType
  <2> QED
    BY <1>1, <2>1, Zenon DEF Marked, MarkedOld, MarkedRemoved, NotAfter
<1>3. /\ x.ctime \in Nat /\ s.ctime \in Nat /\ x.oldNextId \in Nat /\ s.oldNextId \in Nat
      /\ x.ctime <= s.ctime /\ x.oldNextId <= s.oldNextId
  BY DEF Session, NotAfter
<1>4. DOMAIN u.oldValues = 1..Len(u.oldValues) /\ DOMAIN u.removedValues = 1..Len(u.removedValues)
  BY <1>1 DEF IndexType
<1> HIDE DEF op, rp, ox, rx
<1>5. MarksHit(u, x, K, M)
  <2>1. x.oldEnd = NULL \/ ox \in 1..Len(u.oldValues)
    BY <1>1, Zenon DEF Marked, MarkedOld, ox
  <2>2. x.removedEnd = NULL \/ rx \in 1..Len(u.removedValues)
    BY <1>1, Zenon DEF Marked, MarkedRemoved, rx
  <2>3. ~ (ox < op) /\ ~ (rx < rp)
    BY <1>2
  <2>4. ox \in 1..Len(u.oldValues) => ox \in K
    BY <1>4, <2>3, Zenon DEF KeptOldAt, op
  <2>5. rx \in 1..Len(u.removedValues) => rx \in M
    BY <1>4, <2>3, Zenon DEF KeptRemovedAt, rp
  <2> QED
    BY <2>1, <2>2, <2>4, <2>5, Zenon DEF MarksHit, ox, rx
<1>6. ASSUME NEW i, i < x.oldNextId, NEW q, Removes(u, q, i)
      PROVE  q \in M
  <2>1. q \in 1..Len(u.removedValues) /\ u.removedValues[q] = i
    BY <1>6, Zenon DEF Removes
  <2>2. i \in Nat
    BY <1>1, <2>1 DEF IndexType
  <2>3. i < s.oldNextId
    BY <1>3, <1>6, <2>2
  <2> QED
    BY <1>4, <2>1, <2>3, Zenon DEF KeptRemovedAt
<1>7. ASSUME NEW i, NEW q \in Copies(u, x, i)
      PROVE  \/ q \in K
             \/ q \in Moved(u, s, t, i)
  <2>1. IsCopy(u, x, i, q)
    BY <1>1, CopiesAre, Zenon
  <2>2. /\ q \in 1..Len(u.oldValues) /\ u.oldValues[q].current = i
        /\ u.oldValues[q].row.mtime < x.ctime /\ q \in 1..ox - 1
    BY <2>1, Zenon DEF IsCopy, ox
  <2>3. u.oldValues[q].row.mtime \in Nat
    BY <1>1, <2>2, NodeAndCopy DEF ox
  <2>4. ~ (u.oldValues[q].row.mtime >= s.ctime)
    BY <1>3, <2>2, <2>3
  <2>5. CASE q < op /\ Erased(u, i)
    <3>1. q \in 1..op - 1
      BY <1>2, <2>2, <2>5
    <3> QED
      BY <2>2, <2>4, <2>5, <3>1, Zenon DEF Moved, op
  <2>6. CASE ~ (q < op /\ Erased(u, i))
    BY <1>4, <2>2, <2>4, <2>6, Zenon DEF KeptOldAt, op
  <2> QED
    BY <2>5, <2>6
<1>8. NodesThinned(u, v, x, K)
  <2>1. ASSUME NEW i \in DOMAIN v.node
        PROVE  i \in DOMAIN u.node /\ (LeftAlone(u, v, x, i, K) \/ \E m : WrittenFrom(u, v, x, i, K, m))
    <3>1. i \in DOMAIN u.node /\ v.node[i] = MovedNodes(u, s, t)[i]
      BY Zenon DEF ListsAre
    <3>2. OldEnd(u, t) \in Nat \ {0}
      BY <1>2 DEF op
    <3>3. MovedFrom(u, s, t, i)
      BY <3>1, <3>2, MovedIsFrom, Zenon
    <3>4. CASE MovedNodes(u, s, t)[i] = u.node[i] /\ Moved(u, s, t, i) = {}
      <4>1. Copies(u, x, i) \subseteq K
        BY <1>7, <3>4
      <4>2. v.node[i] = u.node[i]
        BY <3>1, <3>4
      <4> QED
        BY <3>1, <4>1, <4>2, Zenon DEF LeftAlone
    <3>5. ASSUME NEW m, LastMoved(u, s, t, i, m), MovedNodes(u, s, t)[i] = u.oldValues[m].row
          PROVE  WrittenFrom(u, v, x, i, K, m)
      <4>1. m \in 1..op - 1 /\ u.oldValues[m].current = i /\ Erased(u, i)
        BY <3>5, Zenon DEF LastMoved, Moved, op
      <4>2. m \in 1..ox - 1
        BY <1>2, <4>1
      <4>3. v.node[i] = u.oldValues[m].row
        BY <3>1, <3>5
      <4>4. \A q \in Copies(u, x, i) : q <= m \/ q \in K
        BY <1>7, <3>5, Zenon DEF LastMoved
      <4>5. ASSUME NEW q \in K, u.oldValues[q].current = i
            PROVE  q > m
        <5>1. q \in 1..Len(u.oldValues) /\ ~ (q < op)
          BY <1>4, <4>1, <4>5, Zenon DEF KeptOldAt, op
        <5> QED
          BY <1>2, <4>1, <5>1
      <4> QED
        BY <4>1, <4>2, <4>3, <4>4, <4>5, Zenon DEF WrittenFrom, ox
    <3> QED
      BY <3>1, <3>3, <3>4, <3>5, Zenon DEF MovedFrom
  <2>2. ASSUME NEW p \in 1..OldEnd(u, x) - 1, u.oldValues[p].current < x.oldNextId,
               u.oldValues[p].current \in DOMAIN u.node
        PROVE  u.oldValues[p].current \in DOMAIN v.node
    <3> DEFINE i == u.oldValues[p].current
    <3>1. i \in u.rows \/ \E q : Removes(u, q, i)
      BY <2>2, NodesAre, Zenon
    <3>2. \A q : Removes(u, q, i) => q \in M
      BY <1>6, <2>2
    <3> HIDE DEF i, M
    <3>3. i \in DOMAIN v.node
      BY <3>1, <3>2, Zenon DEF ListsAre, M
    <3> QED
      BY <3>3 DEF i
  <2> QED
    BY <2>1, <2>2, Zenon DEF NodesThinned
<1>9. ASSUME NEW i
      PROVE  WasRow(v, x, i) <=> WasRow(u, x, i)
  <2> SUFFICES ASSUME i < x.oldNextId
               PROVE  RemovedSince(v, x, i) <=> RemovedSince(u, x, i)
    BY Zenon DEF WasRow, ListsAre
  <2>1. RemovedSince(v, x, i) <=> RemovedAt(u, x, M, i)
    BY <1>1, <1>5, ThinnedRemovedSince, Zenon
  <2>2. \A q : q \in 1..rx - 1 => q \in 1..Len(u.removedValues) /\ q < rx
    BY <1>2
  <2>3. RemovedSince(u, x, i) => RemovedAt(u, x, M, i)
    <3> SUFFICES ASSUME NEW q \in 1..rx - 1, u.removedValues[q] = i
                 PROVE  RemovedAt(u, x, M, i)
      BY Zenon DEF RemovedSince, rx
    <3>1. Removes(u, q, i) /\ q < rx
      BY <2>2, Zenon DEF Removes
    <3>2. q \in M
      BY <1>6, <3>1
    <3> QED
      BY <3>1, <3>2, Zenon DEF RemovedAt, Removes, rx
  <2>4. RemovedAt(u, x, M, i) => RemovedSince(u, x, i)
    <3> SUFFICES ASSUME NEW q \in M, q < rx, u.removedValues[q] = i
                 PROVE  RemovedSince(u, x, i)
      BY Zenon DEF RemovedAt, rx
    <3>1. q \in 1..Len(u.removedValues)
      BY <1>4, Zenon DEF KeptRemovedAt
    <3>2. q \in 1..rx - 1
      BY <1>2, <3>1
    <3> QED
      BY <3>2, Zenon DEF RemovedSince, rx
  <2> QED
    BY <2>1, <2>3, <2>4, Zenon
<1> QED
  BY <1>5, <1>8, <1>9, Zenon

(* The first b sessions of the stack stay.                                 *)
LEMMA FirstSessions ==
  ASSUME NEW u, Good(u), NEW b \in 0..Len(u.undoStack)
  PROVE  SubSeq(u.undoStack, 1, b) \in Seq(Session)
<1>1. u.undoStack \in Seq(Session)
  BY Zenon DEF Good, IndexType
<1>2. \A k \in 1..b : u.undoStack[k] \in Session
  BY <1>1
<1>3. 1 \in Int /\ b \in Int
  BY <1>1
<1> QED
  BY <1>2, <1>3, SubSeqProperties

LEMMA CompressedGood ==
  ASSUME NEW u, Good(u), NEW n, n = Len(u.undoStack), NEW b \in 1..n,
         NEW v, NEW revision \in Int,
         CompressedIs(u, v, u.undoStack[b], u.undoStack[n], SubSeq(u.undoStack, 1, b), revision)
  PROVE  /\ Good(v)
         /\ Shows(v, Table(u.node, u.rows, u.nextId), SubSeq(UndoOf(u), 1, b), revision)
<1> DEFINE s == u.undoStack[b]
           t == u.undoStack[n]
           K == KeptOldAt(u, s, t)
           M == KeptRemovedAt(u, s, t)
           stack == SubSeq(u.undoStack, 1, b)
<1>1. u.undoStack \in Seq(Session) /\ n \in Nat /\ b \in Nat /\ n \in 1..n /\ IndexType(u)
      /\ Times(u) /\ Accounted(u)
  BY DEF Good, IndexType
<1>2. \A k \in 1..n : u.undoStack[k] \in Session /\ Kept(u, u.undoStack[k])
  BY <1>1 DEF Good
<1>3. ASSUME NEW j \in 1..n, NEW k \in 1..n, j <= k
      PROVE  NotAfter(u, u.undoStack[j], u.undoStack[k])
  <2> DEFINE x == u.undoStack[j]
             y == u.undoStack[k]
  <2>1. /\ OldEnd(u, x) \in Int /\ RemovedEnd(u, x) \in Int /\ x.ctime \in Int /\ x.oldNextId \in Int
        /\ y.ctime \in Int
    <3>1. x \in Session /\ y \in Session /\ Marked(u, x)
      BY <1>2, Zenon DEF Kept
    <3>2. OldEnd(u, x) \in Int /\ RemovedEnd(u, x) \in Int
      BY <1>1, <3>1 DEF IndexType, Marked, MarkedOld, MarkedRemoved
    <3> HIDE DEF x, y
    <3> QED
      BY <3>1, <3>2 DEF Session
  <2>2. CASE j = k
    <3>1. x = y
      BY <2>2
    <3> HIDE DEF x, y
    <3> QED
      BY <2>1, <3>1 DEF NotAfter, x, y
  <2>3. CASE j < k
    <3>1. Older(u, x, y)
      BY <1>1, <2>3, Zenon DEF Good
    <3> HIDE DEF x, y
    <3>2. NotAfter(u, x, y)
      BY <2>1, <3>1 DEF NotAfter, Older
    <3> QED
      BY <3>2 DEF x, y
  <2> QED
    BY <1>1, <1>3, <2>2, <2>3
<1>4. stack \in Seq(Session)
  BY <1>1, FirstSessions
<1>5. s \in Session /\ t \in Session /\ Marked(u, t)
  BY <1>1, <1>2, Zenon DEF Kept
<1> HIDE DEF s, t, stack
<1>6. CompressedIs(u, v, s, t, stack, revision)
  BY DEF s, t, stack
<1>7. /\ IndexType(v) /\ Accounted(v) /\ v.undoStack = stack /\ v.revision = revision
      /\ \E f, g : /\ BothThinned(u, v, K, f, M, g)
                   /\ ListsAre(u, v, MovedNodes(u, s, t), K, f, M, g)
  BY <1>4, <1>5, <1>6, CompressedTyped
<1>8. PICK f, g : /\ BothThinned(u, v, K, f, M, g)
                  /\ ListsAre(u, v, MovedNodes(u, s, t), K, f, M, g)
  BY <1>7
<1>9. OldEnd(u, t) \in Nat \ {0} /\ OldEnd(u, t) <= Len(u.oldValues) + 1 /\ Len(u.oldValues) \in Nat
  <2>1. OldEnd(u, t) \in 1..Len(u.oldValues) + 1
    BY <1>5, Zenon DEF Marked, MarkedOld
  <2>2. Len(u.oldValues) \in Nat
    BY <1>1 DEF IndexType
  <2> QED
    BY <2>1, <2>2
<1>10. SessionsThinned(u, v, K, M, 1, b)
  <2>1. 1 \in Nat \ {0} /\ b \in 0..n /\ 1 <= b + 1
    BY <1>1
  <2>2. ASSUME NEW k \in 1..b
        PROVE  LET x == u.undoStack[k] IN
                 /\ MarksHit(u, x, K, M) /\ NodesThinned(u, v, x, K)
                 /\ \A i : WasRow(v, x, i) <=> WasRow(u, x, i)
    <3> DEFINE x == u.undoStack[k]
    <3>1. k \in 1..n /\ k <= b /\ k <= n
      BY <1>1
    <3>2. x \in Session /\ Kept(u, x)
      BY <1>2, <3>1
    <3>3. NotAfter(u, x, s) /\ NotAfter(u, x, t)
      BY <1>1, <1>3, <3>1 DEF s, t
    <3> HIDE DEF x
    <3> QED
      BY <1>5, <1>8, <3>2, <3>3, CompressedSession DEF x
  <2> HIDE DEF K, M
  <2> QED
    BY <1>7, <2>1, <2>2, Zenon DEF SessionsThinned, stack
<1>11. TimesThinned(u, v)
  <2>1. v.monotonic = u.monotonic /\ v.nextId = u.nextId
    BY <1>8, Zenon DEF ListsAre
  <2>2. ASSUME NEW i \in DOMAIN v.node
        PROVE  \/ i \in DOMAIN u.node /\ v.node[i] = u.node[i]
               \/ \E m \in 1..Len(u.oldValues) : v.node[i] = u.oldValues[m].row
    <3>1. i \in DOMAIN u.node /\ v.node[i] = MovedNodes(u, s, t)[i]
      BY <1>8, Zenon DEF ListsAre
    <3>2. MovedFrom(u, s, t, i)
      BY <1>9, <3>1, MovedIsFrom, Zenon
    <3>3. ASSUME NEW m, LastMoved(u, s, t, i, m)
          PROVE  m \in 1..Len(u.oldValues)
      <4>1. m \in 1..OldEnd(u, t) - 1
        BY <3>3, Zenon DEF LastMoved, Moved
      <4> QED
        BY <1>9, <4>1
    <3> QED
      BY <3>1, <3>2, <3>3, Zenon DEF MovedFrom
  <2>3. ASSUME NEW k \in 1..Len(v.undoStack)
        PROVE  v.undoStack[k].oldNextId <= v.nextId
    <3>1. v.undoStack = SubSeq(u.undoStack, 1, b)
      BY <1>7 DEF stack
    <3>2. 1 \in Nat \ {0} /\ b \in 0..Len(u.undoStack) /\ 1 <= b + 1
      BY <1>1
    <3>3. SubStack(u, v, 1, b)
      BY <1>1, <3>1, <3>2, StackPart
    <3>4. k \in 1..n /\ v.undoStack[k] = u.undoStack[k]
      BY <1>1, <3>3 DEF SubStack
    <3> QED
      BY <1>1, <2>1, <3>4 DEF Times
  <2> QED
    BY <2>1, <2>2, <2>3, Zenon DEF TimesThinned
<1>12. Good(v) /\ SubStack(u, v, 1, b) /\ SameSaved(u, v, 1, b)
  BY <1>7, <1>8, <1>10, <1>11, ThinnedGood, Zenon
<1>13. UndoOf(v) = SubSeq(UndoOf(u), 1, b)
  <2>1. 1 \in Nat \ {0} /\ b \in 0..Len(u.undoStack) /\ 1 <= b + 1
    BY <1>1
  <2>2. v.undoStack \in Seq(Session)
    BY <1>7, Zenon DEF IndexType
  <2> QED
    BY <1>1, <1>12, <2>1, <2>2, UndoOfPart
<1>14. Table(v.node, v.rows, v.nextId) = Table(u.node, u.rows, u.nextId)
  <2>1. v.rows = u.rows /\ v.nextId = u.nextId
    BY <1>8, Zenon DEF ListsAre
  <2>2. ASSUME NEW i \in u.rows
        PROVE  v.node[i] = u.node[i]
    <3>1. i \in DOMAIN v.node
      BY <1>7, <2>1 DEF IndexType
    <3>2. i \in DOMAIN u.node /\ v.node[i] = MovedNodes(u, s, t)[i]
      BY <1>8, <3>1, Zenon DEF ListsAre
    <3>3. ~ Erased(u, i)
      <4>1. u.rows \cap ToSet(u.removedValues) = {}
        BY <1>1, Zenon DEF Accounted
      <4> QED
        BY <4>1 DEF Erased
    <3>4. Moved(u, s, t, i) = {}
      BY <3>3, Zenon DEF Moved
    <3>5. MovedNodes(u, s, t)[i] = u.node[i]
      BY <3>2, <3>4, Zenon DEF MovedNodes
    <3> QED
      BY <3>2, <3>5
  <2> QED
    BY <2>1, <2>2 DEF Table
<1>15. Shows(v, Table(u.node, u.rows, u.nextId), SubSeq(UndoOf(u), 1, b), revision)
  BY <1>7, <1>13, <1>14, ViewIs
<1> QED
  BY <1>12, <1>15

LEMMA TwoFields ==
  ASSUME NEW u, NEW node, NEW rows, NEW oldValues, NEW removedValues, NEW undoStack,
         NEW nextId, NEW revision, NEW monotonic,
         FieldsOf(u, node, rows, oldValues, removedValues, undoStack, nextId, revision, monotonic),
         NEW s, NEW r
  PROVE  FieldsOf([u EXCEPT !.undoStack = s, !.revision = r],
                  node, rows, oldValues, removedValues, s, nextId, r, monotonic)
<1> DEFINE w1 == [u EXCEPT !.undoStack = s]
           w2 == [w1 EXCEPT !.revision = r]
<1> HIDE DEF w2
<1>1. FieldsOf(w1, node, rows, oldValues, removedValues, s, nextId, revision, monotonic)
  BY DEF FieldsOf
<1> HIDE DEF w1
<1>2. FieldsOf(w2, node, rows, oldValues, removedValues, s, nextId, r, monotonic)
  BY <1>1 DEF FieldsOf, w2
<1> QED
  BY <1>2, Zenon DEF w1, w2

LEMMA StackAndRevision ==
  ASSUME NEW u, NEW node, NEW rows, NEW oldValues, NEW removedValues, NEW undoStack,
         NEW nextId, NEW revision, NEW monotonic,
         FieldsOf(u, node, rows, oldValues, removedValues, undoStack, nextId, revision, monotonic)
  PROVE  u.undoStack = undoStack /\ u.revision = revision
BY DEF FieldsOf

(* last_undo_session.                                                      *)
LEMMA LastUndoGood ==
  ASSUME NEW u, Good(u), u.undoStack # <<>>
  PROVE  LET v == Compressed(u, Last(u.undoStack))
         IN  Good(v) /\ View(v) = View(u)
<1> DEFINE n == Len(u.undoStack)
           v == Compressed(u, Last(u.undoStack))
<1>1. n \in Nat \ {0} /\ n \in 1..n /\ Last(u.undoStack) = u.undoStack[n] /\ u.revision \in Int
      /\ IndexType(u)
  <2>1. n \in Nat \ {0} /\ Last(u.undoStack) = u.undoStack[n]
    BY LastSession
  <2>2. IndexType(u) /\ u.revision \in Int
    BY Zenon DEF Good, IndexType
  <2> QED
    BY <2>1, <2>2
<1>2. CompressedIs(u, v, u.undoStack[n], u.undoStack[n], u.undoStack, u.revision)
  BY <1>1, CompressedFields
<1>3. SubSeq(u.undoStack, 1, n) = u.undoStack
  BY <1>1, SubSeqFull DEF IndexType
<1> HIDE DEF v
<1>4. CompressedIs(u, v, u.undoStack[n], u.undoStack[n], SubSeq(u.undoStack, 1, n), u.revision)
  BY <1>2, <1>3
<1> HIDE DEF n
<1>5. /\ Good(v)
      /\ Shows(v, Table(u.node, u.rows, u.nextId), SubSeq(UndoOf(u), 1, n), u.revision)
  BY <1>1, <1>4, CompressedGood DEF n
<1>6. SubSeq(UndoOf(u), 1, n) = UndoOf(u)
  BY <1>1, UndoOfIs, SubSeqFull DEF IndexType, n
<1>7. View(v) = View(u)
  BY <1>5, <1>6, ViewIs, Zenon DEF Shows
<1> QED
  BY <1>5, <1>7 DEF v

(* Both lists emptied and no session left.                                 *)
EmptiedIs(u, v, revision) ==
  FieldsOf(v, Restrict(u.node, u.rows \cup ToSet(<<>>)), u.rows, <<>>, <<>>, <<>>,
           u.nextId, revision, u.monotonic)

LEMMA EmptiedGood ==
  ASSUME NEW u, Good(u), NEW v, NEW revision \in Int, EmptiedIs(u, v, revision)
  PROVE  Good(v) /\ Shows(v, Table(u.node, u.rows, u.nextId), <<>>, revision)
<1> DEFINE none == <<>>
           node == u.node
<1>1. /\ none \in Seq(Copy) /\ none \in Seq(Nat) /\ none \in Seq(Session) /\ Len(none) = 0
      /\ IndexType(u)
  BY DEF Good
<1>2. /\ FieldsOf(v, Restrict(node, u.rows \cup ToSet(none)), u.rows, none, none, none,
                  u.nextId, revision, u.monotonic)
  BY Zenon DEF EmptiedIs
<1> HIDE DEF none
<1>3. Thinned(u.oldValues, none, {}, none) /\ Thinned(u.removedValues, none, {}, none)
  BY <1>1 DEF Thinned, IndexType
<1>4. \A i \in DOMAIN u.node : node[i] \in Row
  <2>1. u.node \in [DOMAIN u.node -> Row]
    BY <1>1, Zenon DEF IndexType
  <2> QED
    BY <2>1
<1>5. /\ IndexType(v) /\ Accounted(v) /\ BothThinned(u, v, {}, none, {}, none)
      /\ ListsAre(u, v, node, {}, none, {}, none)
  <2>1. DOMAIN node = DOMAIN u.node
    OBVIOUS
  <2> HIDE DEF node
  <2> QED
    BY <1>1, <1>2, <1>3, <1>4, <2>1, ListsThinned
<1>6. v.undoStack = none /\ v.revision = revision
  BY <1>2, StackAndRevision, Zenon
<1>7. SessionsThinned(u, v, {}, {}, 1, 0)
  <2>1. 1 \in Nat \ {0} /\ 0 \in 0..Len(u.undoStack) /\ 1 <= 0 + 1 /\ 1..0 = {}
    BY <1>1 DEF IndexType
  <2>2. SubSeq(u.undoStack, 1, 0) = none
    BY <1>1 DEF none
  <2> QED
    BY <1>6, <2>1, <2>2, Zenon DEF SessionsThinned
<1>8. TimesThinned(u, v)
  <2>1. v.monotonic = u.monotonic
    BY <1>5, Zenon DEF ListsAre
  <2>2. \A i \in DOMAIN v.node : i \in DOMAIN u.node /\ v.node[i] = u.node[i]
    BY <1>5, Zenon DEF ListsAre
  <2>3. 1..Len(v.undoStack) = {}
    BY <1>1, <1>6
  <2> QED
    BY <2>1, <2>2, <2>3, Zenon DEF TimesThinned
<1>9. Good(v)
  <2>1. IndexType(v) /\ Accounted(v) /\ BothThinned(u, v, {}, none, {}, none)
    BY <1>5
  <2> QED
    BY <1>7, <1>8, <2>1, ThinnedGood, Zenon
<1>10. UndoOf(v) = none
  <2>1. v.undoStack \in Seq(Session)
    BY <1>1, <1>6
  <2> DEFINE e == UndoOf(v)
             S == {Saved(v, v.undoStack[k]) : k \in 1..Len(v.undoStack)}
  <2>2. e \in Seq(S) /\ Len(e) = 0
    BY <1>1, <1>6, <2>1, UndoOfIs
  <2> HIDE DEF e, S
  <2>3. e = <<>>
    BY <2>2, EmptySeq
  <2> QED
    BY <2>3 DEF e, none
<1>11. Table(v.node, v.rows, v.nextId) = Table(u.node, u.rows, u.nextId)
  <2>1. v.rows = u.rows /\ v.nextId = u.nextId
    BY <1>5, Zenon DEF ListsAre
  <2>2. ASSUME NEW i \in u.rows
        PROVE  v.node[i] = u.node[i]
    <3>1. i \in DOMAIN v.node
      BY <1>5, <2>1 DEF IndexType
    <3> QED
      BY <1>5, <3>1, Zenon DEF ListsAre
  <2> QED
    BY <2>1, <2>2 DEF Table
<1>12. Shows(v, Table(u.node, u.rows, u.nextId), <<>>, revision)
  BY <1>6, <1>10, <1>11, ViewIs DEF none
<1> QED
  BY <1>9, <1>12

LEMMA ListFields ==
  ASSUME NEW u, IndexType(u), NEW o, NEW d
  PROVE  FieldsOf(Freed([u EXCEPT !.oldValues = o, !.removedValues = d]),
                  Restrict(u.node, u.rows \cup ToSet(d)), u.rows, o, d, u.undoStack,
                  u.nextId, u.revision, u.monotonic)
<1> DEFINE w1 == [u EXCEPT !.oldValues = o]
           w2 == [w1 EXCEPT !.removedValues = d]
           node == u.node
           rows == u.rows
           stack == u.undoStack
           next == u.nextId
           rev == u.revision
           mono == u.monotonic
<1>1. FieldsOf(u, node, rows, u.oldValues, u.removedValues, stack, next, rev, mono)
  BY OwnFields
<1> HIDE DEF w2, node, rows, stack, next, rev, mono
<1>2. FieldsOf(w1, node, rows, o, u.removedValues, stack, next, rev, mono)
  <2> DEFINE oldValues == u.oldValues
             removedValues == u.removedValues
  <2>1. FieldsOf(u, node, rows, oldValues, removedValues, stack, next, rev, mono)
    BY <1>1
  <2> HIDE DEF oldValues, removedValues
  <2>2. FieldsOf(w1, node, rows, o, removedValues, stack, next, rev, mono)
    BY <2>1 DEF FieldsOf
  <2> QED
    BY <2>2 DEF removedValues
<1> HIDE DEF w1
<1>3. FieldsOf(w2, node, rows, o, d, stack, next, rev, mono)
  <2> DEFINE removedValues == u.removedValues
  <2>1. FieldsOf(w1, node, rows, o, removedValues, stack, next, rev, mono)
    BY <1>2
  <2> HIDE DEF removedValues
  <2> QED
    BY <2>1 DEF FieldsOf, w2
<1>4. FieldsOf(Freed(w2), Restrict(node, rows \cup ToSet(d)), rows, o, d, stack, next, rev, mono)
  BY <1>3, FreedFields, Zenon
<1>5. w2 = [u EXCEPT !.oldValues = o, !.removedValues = d]
  BY DEF w1, w2
<1> QED
  BY <1>4, <1>5, Zenon DEF node, rows, stack, next, rev, mono

(* squash_and_compress.                                                    *)
LEMMA SquashedGood ==
  ASSUME NEW u, Good(u), u.undoStack # <<>>
  PROVE  LET n == Len(u.undoStack)
             v == Squashed(u)
         IN  /\ Good(v)
             /\ Shows(v, Table(u.node, u.rows, u.nextId), SubSeq(UndoOf(u), 1, n - 1),
                      u.revision - 1)
<1> DEFINE n == Len(u.undoStack)
           v == Squashed(u)
<1>1. n \in Nat \ {0} /\ Front(u.undoStack) = SubSeq(u.undoStack, 1, n - 1)
  BY LastSession
<1>2. IndexType(u) /\ u.revision \in Int /\ u.revision - 1 \in Int
  BY DEF Good, IndexType
<1>3. CASE n = 1
  <2> DEFINE w == DisposeUndo(u)
  <2>1. FieldsOf(w, Restrict(u.node, u.rows \cup ToSet(<<>>)), u.rows, <<>>, <<>>, u.undoStack,
                 u.nextId, u.revision, u.monotonic)
    BY <1>2, ListFields, Zenon DEF DisposeUndo
  <2>2. w.undoStack = u.undoStack /\ w.revision = u.revision
    BY <2>1, StackAndRevision, Zenon
  <2>3. v = [w EXCEPT !.undoStack = Front(u.undoStack), !.revision = u.revision - 1]
    <3>1. ~ (n >= 2)
      BY <1>3
    <3>2. v = SquashedFast(u)
      BY <3>1, Zenon DEF Squashed
    <3>3. v = [w EXCEPT !.undoStack = Front(@), !.revision = @ - 1]
      BY <1>3, <3>2, Zenon DEF SquashedFast
    <3> HIDE DEF w, v
    <3> QED
      BY <2>2, <3>3
  <2>4. Front(u.undoStack) = <<>>
    BY <1>1, <1>3
  <2> HIDE DEF w, v
  <2>5. EmptiedIs(u, v, u.revision - 1)
    BY <2>1, <2>3, <2>4, TwoFields, Zenon DEF EmptiedIs
  <2>6. Good(v) /\ Shows(v, Table(u.node, u.rows, u.nextId), <<>>, u.revision - 1)
    BY <1>2, <2>5, EmptiedGood
  <2>7. SubSeq(UndoOf(u), 1, n - 1) = <<>>
    BY <1>3
  <2> QED
    BY <2>6, <2>7 DEF v
<1>4. CASE n >= 2
  <2> DEFINE b == n - 1
             s == u.undoStack[b]
             w == Compressed(u, s)
             t == u.undoStack[n]
  <2>1. b \in 1..n /\ n \in 1..n
    BY <1>1, <1>4
  <2>2. CompressedIs(u, w, s, t, u.undoStack, u.revision)
    <3>1. Last(u.undoStack) = t
      BY LastSession
    <3> QED
      BY <1>2, <3>1, CompressedFields
  <2>3. w.undoStack = u.undoStack /\ w.revision = u.revision
    BY <2>2, StackAndRevision, Zenon DEF CompressedIs
  <2>4. v = [w EXCEPT !.undoStack = Front(u.undoStack), !.revision = u.revision - 1]
    <3>1. v = SquashedFast(w)
      BY <1>4, Zenon DEF Squashed
    <3> HIDE DEF w, v
    <3>2. Len(w.undoStack) # 1 /\ w.undoStack # <<>>
      <4>1. n # 1
        <5> HIDE DEF n
        <5> QED
          BY <1>4
      <4> QED
        BY <2>3, <4>1, Zenon
    <3>3. v = [w EXCEPT !.undoStack = Front(@), !.revision = @ - 1]
      <4> DEFINE kept == IF Len(w.undoStack) = 1 THEN DisposeUndo(w) ELSE w
      <4>1. kept = w
        BY <3>2
      <4>2. v = [kept EXCEPT !.undoStack = Front(@), !.revision = @ - 1]
        BY <3>1, <3>2, Zenon DEF SquashedFast
      <4> HIDE DEF kept
      <4> QED
        BY <4>1, <4>2
    <3> HIDE DEF v
    <3> QED
      BY <2>3, <3>3
  <2> HIDE DEF w, v
  <2>5. CompressedIs(u, v, s, t, SubSeq(u.undoStack, 1, b), u.revision - 1)
    BY <1>1, <2>2, <2>4, TwoFields, Zenon DEF CompressedIs
  <2> QED
    BY <1>2, <2>1, <2>5, CompressedGood DEF v
<1>5. n = 1 \/ n >= 2
  <2>1. n \in Nat \ {0}
    BY <1>1, Zenon
  <2> HIDE DEF n
  <2> QED
    BY <2>1
<1> QED
  BY <1>3, <1>4, <1>5, Zenon

(* commit: what lies behind the marks of the oldest session that stays is  *)
(* dropped.                                                                *)
LEMMA StackField ==
  ASSUME NEW u, NEW node, NEW rows, NEW oldValues, NEW removedValues, NEW undoStack,
         NEW nextId, NEW revision, NEW monotonic,
         FieldsOf(u, node, rows, oldValues, removedValues, undoStack, nextId, revision, monotonic),
         NEW s
  PROVE  FieldsOf([u EXCEPT !.undoStack = s],
                  node, rows, oldValues, removedValues, s, nextId, revision, monotonic)
BY DEF FieldsOf

UpTo(n, p) == 1..(IF p > n THEN n ELSE p)

DisposedIs(u, v, s, stack) ==
  \E o, d, f, g :
    /\ o \in Seq(Copy) /\ Thinned(u.oldValues, o, UpTo(Len(u.oldValues), OldEnd(u, s)), f)
    /\ d \in Seq(Nat) /\ Thinned(u.removedValues, d, UpTo(Len(u.removedValues), RemovedEnd(u, s)), g)
    /\ FieldsOf(v, Restrict(u.node, u.rows \cup ToSet(d)), u.rows, o, d, stack,
                u.nextId, u.revision, u.monotonic)

LEMMA DisposedSession ==
  ASSUME NEW u, Good(u), NEW v, NEW s \in Session, Marked(u, s), NEW f, NEW g,
         BothThinned(u, v, UpTo(Len(u.oldValues), OldEnd(u, s)), f,
                     UpTo(Len(u.removedValues), RemovedEnd(u, s)), g),
         ListsAre(u, v, u.node, UpTo(Len(u.oldValues), OldEnd(u, s)), f,
                  UpTo(Len(u.removedValues), RemovedEnd(u, s)), g),
         NEW x \in Session, Kept(u, x),
         OldEnd(u, x) <= OldEnd(u, s), RemovedEnd(u, x) <= RemovedEnd(u, s)
  PROVE  /\ MarksHit(u, x, UpTo(Len(u.oldValues), OldEnd(u, s)),
                     UpTo(Len(u.removedValues), RemovedEnd(u, s)))
         /\ NodesThinned(u, v, x, UpTo(Len(u.oldValues), OldEnd(u, s)))
         /\ \A i : WasRow(v, x, i) <=> WasRow(u, x, i)
<1> DEFINE op == OldEnd(u, s)
           rp == RemovedEnd(u, s)
           ox == OldEnd(u, x)
           rx == RemovedEnd(u, x)
           L == Len(u.oldValues)
           R == Len(u.removedValues)
           K == UpTo(L, op)
           M == UpTo(R, rp)
<1>1. IndexType(u) /\ Marked(u, x) /\ Listed(u, x)
  <2>1. IndexType(u) /\ Marked(u, x)
    BY Zenon DEF Good, Kept
  <2> QED
    BY <2>1, SessionIsListed
<1>2. /\ op \in 1..L + 1 /\ rp \in 1..R + 1 /\ ox \in 1..L + 1 /\ rx \in 1..R + 1
      /\ L \in Nat /\ R \in Nat /\ ox <= op /\ rx <= rp
  <2>1. Len(u.oldValues) \in Nat /\ Len(u.removedValues) \in Nat
    BY <1>1 DEF IndexType
  <2> QED
    BY <1>1, <2>1, Zenon DEF Marked, MarkedOld, MarkedRemoved
<1>3. BothThinned(u, v, K, f, M, g) /\ ListsAre(u, v, u.node, K, f, M, g)
  OBVIOUS
<1> HIDE DEF op, rp, ox, rx, L, R
<1>4. /\ \A p \in 1..ox - 1 : p \in K
      /\ \A q \in 1..rx - 1 : q \in M
      /\ ox \in 1..L => ox \in K
      /\ rx \in 1..R => rx \in M
      /\ \A q \in M : q \in 1..R
  BY <1>2 DEF UpTo
<1> HIDE DEF K, M
<1>5. MarksHit(u, x, K, M)
  <2>1. x.oldEnd = NULL \/ ox \in 1..L
    BY <1>1, Zenon DEF Marked, MarkedOld, ox, L
  <2>2. x.removedEnd = NULL \/ rx \in 1..R
    BY <1>1, Zenon DEF Marked, MarkedRemoved, rx, R
  <2> QED
    BY <1>4, <2>1, <2>2, Zenon DEF MarksHit, ox, rx
<1>6. NodesThinned(u, v, x, K)
  <2>1. ASSUME NEW i \in DOMAIN v.node
        PROVE  i \in DOMAIN u.node /\ LeftAlone(u, v, x, i, K)
    <3>1. i \in DOMAIN u.node /\ v.node[i] = u.node[i]
      BY <1>3, Zenon DEF ListsAre
    <3>2. \A p \in Copies(u, x, i) : p \in K
      BY <1>4, Zenon DEF Copies, ox
    <3>3. Copies(u, x, i) \subseteq K
      BY <3>2
    <3> QED
      BY <3>1, <3>3, Zenon DEF LeftAlone
  <2>2. ASSUME NEW p \in 1..OldEnd(u, x) - 1, u.oldValues[p].current \in DOMAIN u.node
        PROVE  u.oldValues[p].current \in DOMAIN v.node
    <3> DEFINE i == u.oldValues[p].current
    <3>1. i \in u.rows \/ \E q : Removes(u, q, i)
      BY <2>2, NodesAre, Zenon
    <3>2. ASSUME NEW q, Removes(u, q, i)
          PROVE  q \in M
      <4>1. q \in 1..R /\ u.removedValues[q] = i
        BY <3>2, Zenon DEF Removes, R
      <4>2. ModifiedThenRemoved(u, x)
        BY Zenon DEF Kept
      <4>3. q < rx
        BY <4>1, <4>2, Zenon DEF ModifiedThenRemoved, rx, R
      <4>4. q \in 1..rx - 1
        BY <1>2, <4>1, <4>3
      <4> QED
        BY <1>4, <4>4
    <3> HIDE DEF i
    <3>3. i \in DOMAIN v.node
      BY <1>3, <3>1, <3>2, Zenon DEF ListsAre
    <3> QED
      BY <3>3 DEF i
  <2> QED
    BY <2>1, <2>2, Zenon DEF NodesThinned
<1>7. ASSUME NEW i
      PROVE  WasRow(v, x, i) <=> WasRow(u, x, i)
  <2>1. RemovedSince(v, x, i) <=> RemovedAt(u, x, M, i)
    BY <1>1, <1>3, <1>5, ThinnedRemovedSince, Zenon
  <2>2. RemovedSince(u, x, i) => RemovedAt(u, x, M, i)
    <3>1. \A q \in 1..rx - 1 : q < rx
      BY <1>2
    <3> QED
      BY <1>4, <3>1, Zenon DEF RemovedSince, RemovedAt, rx
  <2>3. RemovedAt(u, x, M, i) => RemovedSince(u, x, i)
    <3>1. \A q \in M : q < rx => q \in 1..rx - 1
      BY <1>2, <1>4
    <3> QED
      BY <3>1, Zenon DEF RemovedSince, RemovedAt, rx
  <2>4. v.rows = u.rows
    BY <1>3, Zenon DEF ListsAre
  <2> QED
    BY <2>1, <2>2, <2>3, <2>4, Zenon DEF WasRow
<1> QED
  BY <1>5, <1>6, <1>7, Zenon DEF K, M, L, R, op, rp

LEMMA DisposedGood ==
  ASSUME NEW u, Good(u), NEW n, n = Len(u.undoStack), NEW a \in 1..n, NEW v,
         DisposedIs(u, v, u.undoStack[a], SubSeq(u.undoStack, a, n))
  PROVE  /\ Good(v)
         /\ Shows(v, Table(u.node, u.rows, u.nextId), SubSeq(UndoOf(u), a, n), u.revision)
<1> DEFINE s == u.undoStack[a]
           K == UpTo(Len(u.oldValues), OldEnd(u, s))
           M == UpTo(Len(u.removedValues), RemovedEnd(u, s))
           stack == SubSeq(u.undoStack, a, n)
           node == u.node
           rev == u.revision
<1>1. /\ u.undoStack \in Seq(Session) /\ n \in Nat /\ a \in Nat \ {0} /\ n \in 0..n /\ a <= n + 1
      /\ rev \in Int
  BY DEF Good, IndexType
<1>2. IndexType(u) /\ Times(u)
  BY Zenon DEF Good
<1>3. \A k \in 1..n : u.undoStack[k] \in Session /\ Kept(u, u.undoStack[k])
  BY <1>1 DEF Good
<1>4. s \in Session /\ Marked(u, s)
  BY <1>1, <1>3, Zenon DEF Kept
<1>5. stack \in Seq(Session)
  <2>1. \A k \in a..n : u.undoStack[k] \in Session
    BY <1>1
  <2>2. a \in Int /\ n \in Int
    BY <1>1
  <2> QED
    BY <2>1, <2>2, SubSeqProperties
<1>6. PICK o, d, f, g :
        /\ o \in Seq(Copy) /\ Thinned(u.oldValues, o, K, f)
        /\ d \in Seq(Nat) /\ Thinned(u.removedValues, d, M, g)
        /\ FieldsOf(v, Restrict(node, u.rows \cup ToSet(d)), u.rows, o, d, stack,
                    u.nextId, rev, u.monotonic)
  BY Zenon DEF DisposedIs
<1>7. DOMAIN node = DOMAIN u.node /\ \A i \in DOMAIN u.node : node[i] \in Row
  <2>1. u.node \in [DOMAIN u.node -> Row]
    BY <1>2, Zenon DEF IndexType
  <2> QED
    BY <2>1
<1> HIDE DEF s, K, M, stack, node, rev
<1>8. /\ IndexType(v) /\ Accounted(v) /\ BothThinned(u, v, K, f, M, g)
      /\ ListsAre(u, v, node, K, f, M, g)
  BY <1>1, <1>5, <1>6, <1>7, ListsThinned
<1>9. v.undoStack = stack /\ v.revision = rev
  BY <1>6, StackAndRevision, Zenon
<1>10. SessionsThinned(u, v, K, M, a, n)
  <2>1. ASSUME NEW k \in a..n
        PROVE  LET x == u.undoStack[k] IN
                 /\ MarksHit(u, x, K, M) /\ NodesThinned(u, v, x, K)
                 /\ \A i : WasRow(v, x, i) <=> WasRow(u, x, i)
    <3> DEFINE x == u.undoStack[k]
    <3>1. k \in 1..n /\ a \in 1..n /\ (k = a \/ a < k)
      BY <1>1
    <3>2. x \in Session /\ Kept(u, x)
      BY <1>3, <3>1
    <3>3. OldEnd(u, x) <= OldEnd(u, s) /\ RemovedEnd(u, x) <= RemovedEnd(u, s)
      <4>1. CASE k = a
        <5>1. x = s
          BY <4>1 DEF s
        <5>2. OldEnd(u, s) \in Int /\ RemovedEnd(u, s) \in Int
          BY <1>2, <1>4 DEF IndexType, Marked, MarkedOld, MarkedRemoved
        <5> HIDE DEF x
        <5> QED
          BY <5>1, <5>2
      <4>2. CASE a < k
        BY <3>1, <4>2, Zenon DEF Good, Older, s
      <4> QED
        BY <3>1, <4>1, <4>2
    <3> HIDE DEF x
    <3> QED
      BY <1>4, <1>8, <3>2, <3>3, DisposedSession DEF x, K, M, node
  <2> QED
    BY <1>1, <1>9, <2>1, Zenon DEF SessionsThinned, stack
<1>11. SubStack(u, v, a, n)
  <2>1. v.undoStack = SubSeq(u.undoStack, a, n)
    BY <1>9 DEF stack
  <2> QED
    BY <1>1, <2>1, StackPart
<1>12. TimesThinned(u, v)
  <2>1. v.monotonic = u.monotonic /\ v.nextId = u.nextId
    BY <1>8, Zenon DEF ListsAre
  <2>2. \A i \in DOMAIN v.node : i \in DOMAIN u.node /\ v.node[i] = u.node[i]
    BY <1>8, Zenon DEF ListsAre, node
  <2>3. ASSUME NEW k \in 1..Len(v.undoStack)
        PROVE  v.undoStack[k].oldNextId <= v.nextId
    <3>1. a + k - 1 \in 1..n /\ v.undoStack[k] = u.undoStack[a + k - 1]
      BY <1>1, <1>11 DEF SubStack
    <3> QED
      BY <1>2, <2>1, <3>1 DEF Times
  <2> QED
    BY <2>1, <2>2, <2>3, Zenon DEF TimesThinned
<1>13. Good(v) /\ SameSaved(u, v, a, n)
  BY <1>8, <1>10, <1>12, ThinnedGood, Zenon
<1>14. UndoOf(v) = SubSeq(UndoOf(u), a, n)
  <2>1. v.undoStack \in Seq(Session)
    BY <1>5, <1>9
  <2> QED
    BY <1>1, <1>11, <1>13, <2>1, UndoOfPart
<1>15. Table(v.node, v.rows, v.nextId) = Table(u.node, u.rows, u.nextId)
  <2>1. v.rows = u.rows /\ v.nextId = u.nextId
    BY <1>8, Zenon DEF ListsAre
  <2>2. ASSUME NEW i \in u.rows
        PROVE  v.node[i] = u.node[i]
    <3>1. i \in DOMAIN v.node
      BY <1>8, <2>1 DEF IndexType
    <3> QED
      BY <1>8, <3>1, Zenon DEF ListsAre, node
  <2> QED
    BY <2>1, <2>2 DEF Table
<1>16. Shows(v, Table(u.node, u.rows, u.nextId), SubSeq(UndoOf(u), a, n), u.revision)
  BY <1>9, <1>14, <1>15, ViewIs DEF rev
<1> QED
  BY <1>13, <1>16

CommitsTo(u, revision) ==
  LET newer == u.revision - revision
      n == Len(u.undoStack)
  IN  IF newer <= 0 THEN <<>>
      ELSE IF newer < n THEN SubSeq(UndoOf(u), n + 1 - newer, n)
      ELSE UndoOf(u)

LEMMA CommittedGood ==
  ASSUME NEW u, Good(u), NEW revision \in Int
  PROVE  LET v == Committed(u, revision)
         IN  /\ Good(v)
             /\ Shows(v, Table(u.node, u.rows, u.nextId), CommitsTo(u, revision), u.revision)
<1> DEFINE n == Len(u.undoStack)
           v == Committed(u, revision)
           newer == u.revision - revision
           a == n - newer + 1
           s == u.undoStack[a]
<1>1. IndexType(u) /\ u.undoStack \in Seq(Session) /\ u.revision \in Int
  BY DEF Good, IndexType
<1>2. n \in Nat /\ newer \in Int
  BY <1>1
<1>3. CASE newer <= 0
  <2> DEFINE w == DisposeUndo(u)
             x == [w EXCEPT !.undoStack = <<>>]
  <2>1. v = x
    BY <1>2, <1>3 DEF Committed
  <2>2. FieldsOf(w, Restrict(u.node, u.rows \cup ToSet(<<>>)), u.rows, <<>>, <<>>, u.undoStack,
                 u.nextId, u.revision, u.monotonic)
    BY <1>1, ListFields, Zenon DEF DisposeUndo
  <2> HIDE DEF w
  <2>3. EmptiedIs(u, x, u.revision)
    BY <2>2, StackField, Zenon DEF EmptiedIs
  <2> HIDE DEF x
  <2>4. Good(x) /\ Shows(x, Table(u.node, u.rows, u.nextId), <<>>, u.revision)
    BY <1>1, <2>3, EmptiedGood
  <2>5. CommitsTo(u, revision) = <<>>
    BY <1>3, Zenon DEF CommitsTo
  <2> QED
    BY <2>1, <2>4, <2>5
<1>4. CASE newer > 0 /\ newer < n
  <2> DEFINE op == OldEnd(u, s)
             rp == RemovedEnd(u, s)
             L == Len(u.oldValues)
             R == Len(u.removedValues)
             o == FirstN(u.oldValues, IF op > L THEN L ELSE op)
             d == FirstN(u.removedValues, IF rp > R THEN R ELSE rp)
             w == Disposed(u, op, rp)
             x == [w EXCEPT !.undoStack = FromN(u.undoStack, a)]
  <2>1. a \in 1..n /\ a = n + 1 - newer
    BY <1>2, <1>4
  <2>2. v = [w EXCEPT !.undoStack = FromN(@, a)]
    <3>1. ~ (newer <= 0)
      BY <1>2, <1>4
    <3>2. v = [Disposed(u, OldPos(u, s.oldEnd), RemovedPos(u, s.removedEnd))
                 EXCEPT !.undoStack = FromN(@, a)]
      <4> DEFINE A == [DisposeUndo(u) EXCEPT !.undoStack = <<>>]
                 B == [Disposed(u, OldPos(u, s.oldEnd), RemovedPos(u, s.removedEnd))
                         EXCEPT !.undoStack = FromN(@, a)]
      <4>1. v = CASE newer <= 0 -> A
                  [] newer > 0 /\ newer < n -> B
                  [] newer > 0 /\ newer >= n -> u
        BY Zenon DEF Committed
      <4> HIDE DEF A, B, v, n, newer
      <4>2. v = B
        BY <1>2, <1>4, <3>1, <4>1
      <4> QED
        BY <4>2 DEF B
    <3> QED
      BY <3>2, Zenon DEF OldEnd, RemovedEnd
  <2>3. FieldsOf(w, Restrict(u.node, u.rows \cup ToSet(d)), u.rows, o, d, u.undoStack,
                 u.nextId, u.revision, u.monotonic)
    <3>1. w = Freed([u EXCEPT !.oldValues = o, !.removedValues = d])
      BY Zenon DEF Disposed
    <3> HIDE DEF o, d, w
    <3> QED
      BY <1>1, <3>1, ListFields, Zenon
  <2>4. /\ L \in Nat /\ R \in Nat /\ op \in 1..L + 1 /\ rp \in 1..R + 1
        /\ u.oldValues \in Seq(Copy) /\ u.removedValues \in Seq(Nat)
    <3>1. Marked(u, s)
      BY <2>1 DEF Good, Kept
    <3> QED
      BY <1>1, <3>1 DEF IndexType, Marked, MarkedOld, MarkedRemoved
  <2>5. o \in Seq(Copy) /\ \E f : Thinned(u.oldValues, o, UpTo(L, op), f)
    <3> DEFINE k == IF op > L THEN L ELSE op
    <3>1. k \in 0..L
      BY <2>4
    <3> HIDE DEF k
    <3>2. /\ FirstN(u.oldValues, k) \in Seq(Copy)
          /\ \E f : Thinned(u.oldValues, FirstN(u.oldValues, k), 1..k, f)
      BY <2>4, <3>1, FirstNThins
    <3> QED
      BY <3>2, Zenon DEF UpTo, k
  <2>6. d \in Seq(Nat) /\ \E g : Thinned(u.removedValues, d, UpTo(R, rp), g)
    <3> DEFINE k == IF rp > R THEN R ELSE rp
    <3>1. k \in 0..R
      BY <2>4
    <3> HIDE DEF k
    <3>2. /\ FirstN(u.removedValues, k) \in Seq(Nat)
          /\ \E f : Thinned(u.removedValues, FirstN(u.removedValues, k), 1..k, f)
      BY <2>4, <3>1, FirstNThins
    <3> QED
      BY <3>2, Zenon DEF UpTo, k
  <2> HIDE DEF o, d, w
  <2>7. v = x
    <3>1. w.undoStack = u.undoStack
      BY <2>3, StackAndRevision, Zenon
    <3> HIDE DEF v, a
    <3> QED
      BY <2>2, <3>1, Zenon
  <2>8. FieldsOf(x, Restrict(u.node, u.rows \cup ToSet(d)), u.rows, o, d, SubSeq(u.undoStack, a, n),
                 u.nextId, u.revision, u.monotonic)
    BY <2>3, StackField, Zenon DEF FromN
  <2> HIDE DEF x
  <2>9. DisposedIs(u, x, s, SubSeq(u.undoStack, a, n))
    BY <2>5, <2>6, <2>8, Zenon DEF DisposedIs
  <2>10. Good(x) /\ Shows(x, Table(u.node, u.rows, u.nextId), SubSeq(UndoOf(u), a, n), u.revision)
    <3> HIDE DEF a, n
    <3> QED
      BY <2>1, <2>9, DisposedGood DEF n
  <2>11. CommitsTo(u, revision) = SubSeq(UndoOf(u), a, n)
    <3>1. ~ (newer <= 0)
      BY <1>2, <1>4
    <3>2. CommitsTo(u, revision) = SubSeq(UndoOf(u), n + 1 - newer, n)
      BY <1>4, <3>1, Zenon DEF CommitsTo
    <3> QED
      BY <2>1, <3>2
  <2> QED
    BY <2>7, <2>10, <2>11
<1>5. CASE newer > 0 /\ newer >= n
  <2>1. ~ (newer <= 0) /\ ~ (newer < n)
    BY <1>2, <1>5
  <2>2. v = u
    BY <1>5, <2>1 DEF Committed
  <2>3. CommitsTo(u, revision) = UndoOf(u)
    BY <2>1, Zenon DEF CommitsTo
  <2> QED
    BY <2>2, <2>3, ViewIs
<1>6. newer <= 0 \/ (newer > 0 /\ newer < n) \/ (newer > 0 /\ newer >= n)
  <2> HIDE DEF n, newer
  <2> QED
    BY <1>2
<1> QED
  BY <1>3, <1>4, <1>5, <1>6, Zenon

-----------------------------------------------------------------------------
(* What create, modify and remove leave of the sessions: an entry may come *)
(* to the front of a list, so that the marks of all sessions shift.        *)
Shifted(u, v, s, c, d) ==
  /\ Kept(v, s) /\ SameRows(u, v, s)
  /\ OldEnd(v, s) = OldEnd(u, s) + c
  /\ RemovedEnd(v, s) = RemovedEnd(u, s) + d

LEMMA SessionsKept ==
  ASSUME NEW u, Good(u), NEW v, IndexType(v), Distinct(v), Accounted(v), Times(v),
         v.undoStack = u.undoStack, NEW c \in Nat, NEW d \in Nat,
         \A k \in 1..Len(u.undoStack) : Shifted(u, v, u.undoStack[k], c, d)
  PROVE  Good(v) /\ UndoOf(v) = UndoOf(u)
<1> DEFINE n == Len(u.undoStack)
           x(k) == u.undoStack[k]
<1>1. n \in Nat /\ DOMAIN u.undoStack = 1..n /\ IndexType(u) /\ Accounted(u)
  BY DEF Good, IndexType
<1>2. \A k \in 1..n : x(k) \in Session /\ Kept(u, x(k))
  BY <1>1 DEF Good, IndexType
<1>3. \A k \in 1..n : Kept(v, x(k)) /\ SameRows(u, v, x(k))
  BY Zenon DEF Shifted
<1>4. ASSUME NEW j \in 1..n, NEW k \in 1..n, j < k
      PROVE  Older(v, x(j), x(k))
  <2> DEFINE s == x(j)
             t == x(k)
  <2>1. Older(u, s, t)
    BY <1>4, Zenon DEF Good
  <2>2. s \in Session /\ t \in Session /\ Marked(u, s) /\ Marked(u, t)
    BY <1>2, Zenon DEF Kept
  <2>3. Shifted(u, v, s, c, d) /\ Shifted(u, v, t, c, d)
    OBVIOUS
  <2> HIDE DEF s, t
  <2>4. /\ OldEnd(u, s) \in Int /\ OldEnd(u, t) \in Int
        /\ RemovedEnd(u, s) \in Int /\ RemovedEnd(u, t) \in Int
    BY <1>1, <2>2 DEF IndexType, Marked, MarkedOld, MarkedRemoved
  <2>5. Older(v, s, t)
    BY <2>1, <2>3, <2>4 DEF Older, Shifted
  <2> QED
    BY <2>5 DEF s, t
<1>5. Good(v)
  BY <1>3, <1>4, Zenon DEF Good
<1>6. ASSUME NEW k \in 1..n
      PROVE  Saved(v, x(k)) = Saved(u, x(k))
  <2> DEFINE s == x(k)
  <2>1. Marked(u, s) /\ Marked(v, s) /\ SameRows(u, v, s)
    BY <1>2, <1>3, Zenon DEF Kept
  <2> HIDE DEF s
  <2>2. Saved(v, s) = Saved(u, s)
    BY <1>1, <2>1, SavedSame, Zenon
  <2> QED
    BY <2>2 DEF s
<1>7. UndoOf(v) = UndoOf(u)
  <2>1. UndoOf(v) = [k \in 1..n |-> Saved(v, x(k))]
    BY <1>1, Zenon DEF UndoOf
  <2>2. UndoOf(u) = [k \in 1..n |-> Saved(u, x(k))]
    BY <1>1, Zenon DEF UndoOf
  <2> QED
    BY <1>6, <2>1, <2>2
<1> QED
  BY <1>5, <1>7

LEMMA OneField ==
  ASSUME NEW u, NEW node, NEW rows, NEW oldValues, NEW removedValues, NEW undoStack,
         NEW nextId, NEW revision, NEW monotonic,
         FieldsOf(u, node, rows, oldValues, removedValues, undoStack, nextId, revision, monotonic),
         NEW x
  PROVE  /\ FieldsOf([u EXCEPT !.node = x], x, rows, oldValues, removedValues,
                     undoStack, nextId, revision, monotonic)
         /\ FieldsOf([u EXCEPT !.rows = x], node, x, oldValues, removedValues,
                     undoStack, nextId, revision, monotonic)
         /\ FieldsOf([u EXCEPT !.oldValues = x], node, rows, x, removedValues,
                     undoStack, nextId, revision, monotonic)
         /\ FieldsOf([u EXCEPT !.removedValues = x], node, rows, oldValues, x,
                     undoStack, nextId, revision, monotonic)
         /\ FieldsOf([u EXCEPT !.nextId = x], node, rows, oldValues, removedValues,
                     undoStack, x, revision, monotonic)
         /\ FieldsOf([u EXCEPT !.revision = x], node, rows, oldValues, removedValues,
                     undoStack, nextId, x, monotonic)
         /\ FieldsOf([u EXCEPT !.monotonic = x], node, rows, oldValues, removedValues,
                     undoStack, nextId, revision, x)
<1>1. FieldsOf([u EXCEPT !.node = x], x, rows, oldValues, removedValues,
               undoStack, nextId, revision, monotonic)
  BY DEF FieldsOf
<1>2. FieldsOf([u EXCEPT !.rows = x], node, x, oldValues, removedValues,
               undoStack, nextId, revision, monotonic)
  BY DEF FieldsOf
<1>3. FieldsOf([u EXCEPT !.oldValues = x], node, rows, x, removedValues,
               undoStack, nextId, revision, monotonic)
  BY DEF FieldsOf
<1>4. FieldsOf([u EXCEPT !.removedValues = x], node, rows, oldValues, x,
               undoStack, nextId, revision, monotonic)
  BY DEF FieldsOf
<1>5. FieldsOf([u EXCEPT !.nextId = x], node, rows, oldValues, removedValues,
               undoStack, x, revision, monotonic)
  BY DEF FieldsOf
<1>6. FieldsOf([u EXCEPT !.revision = x], node, rows, oldValues, removedValues,
               undoStack, nextId, x, monotonic)
  BY DEF FieldsOf
<1>7. FieldsOf([u EXCEPT !.monotonic = x], node, rows, oldValues, removedValues,
               undoStack, nextId, revision, x)
  BY DEF FieldsOf
<1> QED
  BY <1>1, <1>2, <1>3, <1>4, <1>5, <1>6, <1>7

HasFields(u, node, rows, oldValues, removedValues, undoStack, nextId, revision, monotonic) ==
  /\ u.node = node /\ u.rows = rows /\ u.oldValues = oldValues
  /\ u.removedValues = removedValues /\ u.undoStack = undoStack /\ u.nextId = nextId
  /\ u.revision = revision /\ u.monotonic = monotonic
  /\ u = [node |-> u.node, rows |-> u.rows, oldValues |-> u.oldValues,
          removedValues |-> u.removedValues, undoStack |-> u.undoStack,
          nextId |-> u.nextId, revision |-> u.revision, monotonic |-> u.monotonic]

LEMMA FieldsAre ==
  ASSUME NEW u, NEW node, NEW rows, NEW oldValues, NEW removedValues, NEW undoStack,
         NEW nextId, NEW revision, NEW monotonic,
         FieldsOf(u, node, rows, oldValues, removedValues, undoStack, nextId, revision, monotonic)
  PROVE  HasFields(u, node, rows, oldValues, removedValues, undoStack, nextId, revision, monotonic)
<1>1. /\ u.node = node /\ u.rows = rows /\ u.oldValues = oldValues
      /\ u.removedValues = removedValues /\ u.undoStack = undoStack /\ u.nextId = nextId
      /\ u.revision = revision /\ u.monotonic = monotonic
  BY DEF FieldsOf
<1>2. u = [node |-> u.node, rows |-> u.rows, oldValues |-> u.oldValues,
           removedValues |-> u.removedValues, undoStack |-> u.undoStack,
           nextId |-> u.nextId, revision |-> u.revision, monotonic |-> u.monotonic]
  BY <1>1, Zenon DEF FieldsOf
<1> QED
  BY <1>1, <1>2, Zenon DEF HasFields

SameOld(u, v, s) == OldEnd(v, s) = OldEnd(u, s) /\ \A i : Copies(v, s, i) = Copies(u, s, i)
SameRemoved(u, v, s) == RemovedEnd(v, s) = RemovedEnd(u, s)

LEMMA SameOldValues ==
  ASSUME NEW u, NEW v, v.oldValues = u.oldValues, NEW s
  PROVE  SameOld(u, v, s)
<1> DEFINE P(o) == IF s.oldEnd = NULL THEN Len(o) + 1
                   ELSE CHOOSE i \in DOMAIN o : o[i].at = s.oldEnd
<1>1. OldEnd(v, s) = P(v.oldValues) /\ OldEnd(u, s) = P(u.oldValues)
  BY Zenon DEF OldEnd, OldPos
<1> HIDE DEF P
<1>2. OldEnd(v, s) = OldEnd(u, s)
  BY <1>1
<1>3. \A i : Copies(v, s, i) = Copies(u, s, i)
  <2> DEFINE C(o, e, i) == {p \in 1..e - 1 : o[p].current = i /\ o[p].row.mtime < s.ctime}
  <2> SUFFICES ASSUME NEW i
               PROVE  Copies(v, s, i) = Copies(u, s, i)
    OBVIOUS
  <2>1. /\ Copies(v, s, i) = C(v.oldValues, OldEnd(v, s), i)
        /\ Copies(u, s, i) = C(u.oldValues, OldEnd(u, s), i)
    BY Zenon DEF Copies
  <2> HIDE DEF C
  <2> QED
    BY <1>2, <2>1
<1> QED
  BY <1>2, <1>3, Zenon DEF SameOld

LEMMA SameRemovedValues ==
  ASSUME NEW u, NEW v, v.removedValues = u.removedValues, NEW s
  PROVE  SameRemoved(u, v, s)
<1> DEFINE P(r) == IF s.removedEnd = NULL THEN Len(r) + 1
                   ELSE CHOOSE i \in DOMAIN r : r[i] = s.removedEnd
<1>1. RemovedEnd(v, s) = P(v.removedValues) /\ RemovedEnd(u, s) = P(u.removedValues)
  BY Zenon DEF RemovedEnd, RemovedPos
<1> HIDE DEF P
<1>2. RemovedEnd(v, s) = RemovedEnd(u, s)
  BY <1>1
<1> QED
  BY <1>2, Zenon DEF SameRemoved

LEMMA RestoredDepends ==
  ASSUME NEW u, NEW v, NEW s, NEW i, v.oldValues = u.oldValues, SameOld(u, v, s),
         v.node[i] = u.node[i] \/ Copies(u, s, i) # {}
  PROVE  SameRestored(u, v, s, i)
<1> DEFINE R(nodeOf, o, C) == IF C = {} THEN nodeOf ELSE o[Max(C)].row
<1>1. /\ Restored(v, s, i) = R(v.node[i], v.oldValues, Copies(v, s, i))
      /\ Restored(u, s, i) = R(u.node[i], u.oldValues, Copies(u, s, i))
  BY Zenon DEF Restored
<1>2. Copies(v, s, i) = Copies(u, s, i)
  BY Zenon DEF SameOld
<1>3. CASE v.node[i] = u.node[i]
  <2> HIDE DEF R
  <2>1. Restored(v, s, i) = Restored(u, s, i)
    BY <1>1, <1>2, <1>3
  <2> QED
    BY <2>1, Zenon DEF SameRestored
<1>4. CASE Copies(u, s, i) # {}
  <2> DEFINE C == Copies(u, s, i)
  <2>1. R(v.node[i], v.oldValues, C) = v.oldValues[Max(C)].row
        /\ R(u.node[i], u.oldValues, C) = u.oldValues[Max(C)].row
    BY <1>4, Zenon
  <2> HIDE DEF R
  <2>2. Restored(v, s, i) = Restored(u, s, i)
    BY <1>1, <1>2, <2>1
  <2> QED
    BY <2>2, Zenon DEF SameRestored
<1> QED
  BY <1>3, <1>4

(* What Kept is made of, when both lists stay as they are.                 *)
NodesKeep(u, v, s) ==
  /\ \A i \in DOMAIN v.node : v.node[i].mtime < s.ctime => i < s.oldNextId
  /\ \A i \in DOMAIN u.node : i < s.oldNextId => i \in DOMAIN v.node
  /\ \A i \in DOMAIN v.node : i < s.oldNextId /\ v.node[i].mtime >= s.ctime => Copies(u, s, i) # {}

LEMMA SameListsKept ==
  ASSUME NEW u, NEW v, NEW s, Kept(u, s), v.oldValues = u.oldValues,
         v.removedValues = u.removedValues, NodesKeep(u, v, s)
  PROVE  Kept(v, s)
<1>1. OldEnd(v, s) = OldEnd(u, s) /\ (\A i : Copies(v, s, i) = Copies(u, s, i))
      /\ RemovedEnd(v, s) = RemovedEnd(u, s)
  <2>1. SameOld(u, v, s) /\ SameRemoved(u, v, s)
    BY SameOldValues, SameRemovedValues, Zenon
  <2> QED
    BY <2>1, Zenon DEF SameOld, SameRemoved
<1>2. Marked(u, s) /\ OldKept(u, s) /\ ModifiedThenRemoved(u, s) /\ RemovedEarlier(u, s)
  BY Zenon DEF Kept
<1>3. Marked(v, s)
  BY <1>1, <1>2, Zenon DEF Marked, MarkedOld, MarkedRemoved
<1>4. ModifiedThenRemoved(v, s)
  BY <1>1, <1>2, Zenon DEF ModifiedThenRemoved
<1>5. RemovedEarlier(v, s)
  BY <1>1, <1>2, Zenon DEF RemovedEarlier
<1>6. OlderNodes(v, s)
  BY Zenon DEF NodesKeep, OlderNodes
<1>7. OlderCopies(v, s)
  BY <1>1, <1>2, Zenon DEF NodesKeep, OlderCopies, OldKept
<1>8. HasCopy(v, s)
  BY <1>1, Zenon DEF NodesKeep, HasCopy
<1>9. HasOlderCopy(v, s)
  BY <1>1, <1>2, Zenon DEF HasOlderCopy, OldKept
<1> QED
  BY <1>3, <1>4, <1>5, <1>6, <1>7, <1>8, <1>9, Zenon DEF Kept, OldKept

(* emplace                                                                 *)
Born(u, key, val) ==
  [key |-> key, val |-> val, mtime |-> IF u.undoStack = <<>> THEN 0 ELSE u.monotonic]

EmplacedNode(u, key, val) ==
  [i \in DOMAIN u.node \cup {u.nextId} |-> IF i = u.nextId THEN Born(u, key, val) ELSE u.node[i]]

EmplacedIs(u, v, key, val) ==
  FieldsOf(v, EmplacedNode(u, key, val), u.rows \cup {u.nextId}, u.oldValues, u.removedValues,
           u.undoStack, u.nextId + 1, u.revision, u.monotonic)

LEMMA EmplacedFields ==
  ASSUME NEW u, IndexType(u), NEW key, NEW val
  PROVE  EmplacedIs(u, Emplaced(u, key, val), key, val)
<1> DEFINE N == EmplacedNode(u, key, val)
           R == u.rows \cup {u.nextId}
           x == u.nextId + 1
           w1 == [u EXCEPT !.node = N]
           w2 == [w1 EXCEPT !.rows = R]
           w3 == [w2 EXCEPT !.nextId = x]
<1>1. Emplaced(u, key, val) = [u EXCEPT !.node = N, !.rows = R, !.nextId = x]
  BY Zenon DEF Emplaced, EmplacedNode, Born
<1> HIDE DEF N, R, x, w2, w3
<1>2. FieldsOf(w1, N, u.rows, u.oldValues, u.removedValues, u.undoStack, u.nextId, u.revision, u.monotonic)
  BY OwnFields, OneField, Zenon
<1> HIDE DEF w1
<1>3. FieldsOf(w2, N, R, u.oldValues, u.removedValues, u.undoStack, u.nextId, u.revision, u.monotonic)
  BY <1>2, OneField, Zenon DEF w2
<1>4. FieldsOf(w3, N, R, u.oldValues, u.removedValues, u.undoStack, x, u.revision, u.monotonic)
  BY <1>3, OneField, Zenon DEF w3
<1>5. Emplaced(u, key, val) = w3
  BY <1>1, Zenon DEF w1, w2, w3
<1> QED
  BY <1>4, <1>5, Zenon DEF EmplacedIs, N, R, x

LEMMA EmplacedGood ==
  ASSUME NEW u, Good(u), NEW key \in Key, NEW val \in Val
  PROVE  LET v == Emplaced(u, key, val)
         IN  /\ EmplacedIs(u, v, key, val)
             /\ Good(v) /\ UndoOf(v) = UndoOf(u)
<1> DEFINE v == Emplaced(u, key, val)
           N == EmplacedNode(u, key, val)
           id == u.nextId
           n == Len(u.undoStack)
<1>1. IndexType(u) /\ Distinct(u) /\ Accounted(u) /\ Times(u)
  BY Zenon DEF Good
<1>2. EmplacedIs(u, v, key, val)
  BY <1>1, EmplacedFields
<1> HIDE DEF v
<1>3. /\ v.node = N /\ v.rows = u.rows \cup {id} /\ v.oldValues = u.oldValues
      /\ v.removedValues = u.removedValues /\ v.undoStack = u.undoStack /\ v.nextId = id + 1
      /\ v.revision = u.revision /\ v.monotonic = u.monotonic
      /\ v = [node |-> v.node, rows |-> v.rows, oldValues |-> v.oldValues,
              removedValues |-> v.removedValues, undoStack |-> v.undoStack,
              nextId |-> v.nextId, revision |-> v.revision, monotonic |-> v.monotonic]
  <2>1. HasFields(v, N, u.rows \cup {id}, u.oldValues, u.removedValues, u.undoStack, id + 1,
                  u.revision, u.monotonic)
    BY <1>2, FieldsAre, Zenon DEF EmplacedIs
  <2> QED
    BY <2>1, Zenon DEF HasFields
<1>4. /\ DOMAIN u.node \subseteq Nat /\ u.node \in [DOMAIN u.node -> Row] /\ id \in Nat
      /\ u.rows \subseteq DOMAIN u.node /\ u.monotonic \in Nat
      /\ u.oldValues \in Seq(Copy) /\ u.removedValues \in Seq(Nat) /\ u.undoStack \in Seq(Session)
      /\ u.revision \in Int
  BY <1>1, Zenon DEF IndexType
<1>5. id \notin DOMAIN u.node
  BY <1>1, <1>4 DEF Accounted
<1>6. /\ DOMAIN N = DOMAIN u.node \cup {id} /\ N[id] = Born(u, key, val)
      /\ \A i \in DOMAIN u.node : N[i] = u.node[i]
  BY <1>5, Zenon DEF EmplacedNode
<1>7. /\ Born(u, key, val) \in Row /\ Born(u, key, val).mtime <= u.monotonic
      /\ u.undoStack # <<>> => Born(u, key, val).mtime = u.monotonic
  BY <1>4 DEF Born, Row
<1> HIDE DEF N
<1>8. IndexType(v)
  <2>1. \A i \in DOMAIN v.node : v.node[i] \in Row /\ i \in Nat
    BY <1>3, <1>4, <1>6, <1>7
  <2>2. v.node \in [DOMAIN v.node -> Row] /\ DOMAIN v.node \subseteq Nat
    <3>1. v.node = [i \in DOMAIN v.node |-> v.node[i]]
      BY <1>3 DEF EmplacedNode, N
    <3> QED
      BY <2>1, <3>1
  <2>3. v.rows \subseteq DOMAIN v.node
    BY <1>3, <1>4, <1>6
  <2>4. v.nextId \in Nat
    BY <1>3, <1>4
  <2> QED
    BY <1>3, <1>4, <2>2, <2>3, <2>4, Zenon DEF IndexType
<1>9. Distinct(v)
  BY <1>1, <1>3, Zenon DEF Distinct
<1>10. Accounted(v)
  <2>1. id \notin ToSet(u.removedValues)
    BY <1>1, <1>5 DEF Accounted
  <2>2. \A i \in DOMAIN v.node : i < v.nextId
    BY <1>1, <1>3, <1>4, <1>6 DEF Accounted
  <2> QED
    BY <1>1, <1>3, <1>6, <2>1, <2>2 DEF Accounted
<1>11. Times(v)
  <2>1. \A i \in DOMAIN v.node : v.node[i].mtime <= v.monotonic
    BY <1>1, <1>3, <1>6, <1>7 DEF Times
  <2>2. \A k \in 1..Len(u.undoStack) : u.undoStack[k].oldNextId <= id + 1
    <3> SUFFICES ASSUME NEW k \in 1..Len(u.undoStack)
                 PROVE  u.undoStack[k].oldNextId <= id + 1
      OBVIOUS
    <3>1. u.undoStack[k] \in Session
      BY <1>4
    <3>2. u.undoStack[k].oldNextId \in Nat /\ u.undoStack[k].oldNextId <= id
      BY <1>1, <3>1 DEF Times, Session
    <3> QED
      BY <1>4, <3>2
  <2> QED
    BY <1>1, <1>3, <2>1, <2>2, Zenon DEF Times
<1>12. ASSUME NEW k \in 1..n
       PROVE  Shifted(u, v, u.undoStack[k], 0, 0)
  <2> DEFINE s == u.undoStack[k]
  <2>1. Kept(u, s) /\ s.ctime <= u.monotonic /\ s.oldNextId <= id
    BY <1>1, Zenon DEF Good, Times
  <2>2. s \in Session /\ u.undoStack # <<>>
    BY <1>4
  <2> HIDE DEF s
  <2>3. s.ctime \in Nat /\ s.oldNextId \in Nat
    BY <2>2 DEF Session
  <2>4. NodesKeep(u, v, s)
    <3>1. ASSUME NEW i \in DOMAIN v.node, i # id
          PROVE  i \in DOMAIN u.node /\ v.node[i] = u.node[i]
      BY <1>3, <1>6, <3>1
    <3>2. v.node[id].mtime = u.monotonic
      BY <1>3, <1>6, <1>7, <2>2
    <3>3. OlderNodes(u, s) /\ HasCopy(u, s)
      BY <2>1, Zenon DEF Kept, OldKept
    <3>4. \A i \in DOMAIN v.node : v.node[i].mtime < s.ctime => i < s.oldNextId
      <4> SUFFICES ASSUME NEW i \in DOMAIN v.node, v.node[i].mtime < s.ctime
                   PROVE  i < s.oldNextId
        OBVIOUS
      <4>1. i # id
        BY <1>4, <2>1, <2>3, <3>2
      <4> QED
        BY <3>1, <3>3, <4>1, Zenon DEF OlderNodes
    <3>5. \A i \in DOMAIN u.node : i < s.oldNextId => i \in DOMAIN v.node
      BY <1>3, <1>6
    <3>6. \A i \in DOMAIN v.node : i < s.oldNextId /\ v.node[i].mtime >= s.ctime => Copies(u, s, i) # {}
      <4> SUFFICES ASSUME NEW i \in DOMAIN v.node, i < s.oldNextId, v.node[i].mtime >= s.ctime
                   PROVE  Copies(u, s, i) # {}
        OBVIOUS
      <4>1. i # id
        BY <1>4, <2>1, <2>3
      <4> QED
        BY <3>1, <3>3, <4>1, Zenon DEF HasCopy
    <3> QED
      BY <3>4, <3>5, <3>6, Zenon DEF NodesKeep
  <2>5. Kept(v, s)
    BY <1>3, <2>1, <2>4, SameListsKept, Zenon
  <2>6. OldEnd(v, s) = OldEnd(u, s) /\ (\A i : Copies(v, s, i) = Copies(u, s, i))
        /\ RemovedEnd(v, s) = RemovedEnd(u, s) /\ SameOld(u, v, s)
    <3>1. SameOld(u, v, s) /\ SameRemoved(u, v, s)
      BY <1>3, SameOldValues, SameRemovedValues, Zenon
    <3> QED
      BY <3>1, Zenon DEF SameOld, SameRemoved
  <2>7. SameRows(u, v, s)
    <3>1. ~ (id < s.oldNextId)
      BY <1>4, <2>1, <2>3
    <3>2. \A i : RemovedSince(v, s, i) <=> RemovedSince(u, s, i)
      BY <1>3, <2>6, Zenon DEF RemovedSince
    <3>3. \A i : i \in v.rows <=> i \in u.rows \/ i = id
      BY <1>3
    <3>4. \A i : WasRow(v, s, i) <=> WasRow(u, s, i)
      BY <3>1, <3>2, <3>3, Zenon DEF WasRow
    <3>5. \A i \in DOMAIN v.node : WasRow(v, s, i) => v.node[i] = u.node[i]
      BY <1>3, <1>6, <3>1 DEF WasRow
    <3>6. \A i \in DOMAIN v.node : WasRow(v, s, i) => Restored(v, s, i) = Restored(u, s, i)
      <4> SUFFICES ASSUME NEW i \in DOMAIN v.node, WasRow(v, s, i)
                   PROVE  Restored(v, s, i) = Restored(u, s, i)
        OBVIOUS
      <4>1. v.node[i] = u.node[i]
        BY <3>5
      <4>2. SameRestored(u, v, s, i)
        BY <1>3, <2>6, <4>1, RestoredDepends, Zenon
      <4> QED
        BY <4>2, Zenon DEF SameRestored
    <3> QED
      BY <3>4, <3>6, Zenon DEF SameRows
  <2>8. OldEnd(u, s) + 0 = OldEnd(u, s) /\ RemovedEnd(u, s) + 0 = RemovedEnd(u, s)
    BY <1>4, <2>1 DEF Kept, Marked, MarkedOld, MarkedRemoved
  <2>9. Shifted(u, v, s, 0, 0)
    BY <2>5, <2>6, <2>7, <2>8, Zenon DEF Shifted
  <2> QED
    BY <2>9 DEF s
<1>13. Good(v) /\ UndoOf(v) = UndoOf(u)
  BY <1>3, <1>8, <1>9, <1>10, <1>11, <1>12, SessionsKept
<1> QED
  BY <1>2, <1>13 DEF v

(* set_revision                                                            *)
LEMMA RevisionGood ==
  ASSUME NEW u, Good(u), u.undoStack = <<>>, NEW revision \in Int
  PROVE  LET v == [u EXCEPT !.revision = revision]
         IN  Good(v) /\ Shows(v, Table(u.node, u.rows, u.nextId), UndoOf(u), revision)
<1> DEFINE v == [u EXCEPT !.revision = revision]
<1>1. IndexType(u) /\ Distinct(u) /\ Accounted(u) /\ Times(u)
  BY Zenon DEF Good
<1>2. FieldsOf(v, u.node, u.rows, u.oldValues, u.removedValues, u.undoStack, u.nextId,
               revision, u.monotonic)
  BY <1>1, OwnFields, OneField, Zenon
<1> HIDE DEF v
<1>3. /\ v.node = u.node /\ v.rows = u.rows /\ v.oldValues = u.oldValues
      /\ v.removedValues = u.removedValues /\ v.undoStack = u.undoStack /\ v.nextId = u.nextId
      /\ v.revision = revision /\ v.monotonic = u.monotonic
      /\ v = [node |-> v.node, rows |-> v.rows, oldValues |-> v.oldValues,
              removedValues |-> v.removedValues, undoStack |-> v.undoStack,
              nextId |-> v.nextId, revision |-> v.revision, monotonic |-> v.monotonic]
  <2>1. HasFields(v, u.node, u.rows, u.oldValues, u.removedValues, u.undoStack, u.nextId,
                  revision, u.monotonic)
    BY <1>2, FieldsAre, Zenon
  <2> QED
    BY <2>1, Zenon DEF HasFields
<1>4. IndexType(v) /\ Distinct(v) /\ Accounted(v) /\ Times(v)
  BY <1>1, <1>3, Zenon DEF IndexType, Distinct, Accounted, Times
<1>5. \A k \in 1..Len(u.undoStack) : Shifted(u, v, u.undoStack[k], 0, 0)
  <2>1. Len(u.undoStack) = 0
    OBVIOUS
  <2>2. 1..Len(u.undoStack) = {}
    BY <2>1
  <2> QED
    BY <2>2
<1>6. Good(v) /\ UndoOf(v) = UndoOf(u)
  <2>1. 0 \in Nat
    OBVIOUS
  <2> QED
    BY <1>3, <1>4, <1>5, <2>1, SessionsKept, Zenon
<1>7. Shows(v, Table(u.node, u.rows, u.nextId), UndoOf(u), revision)
  BY <1>3, <1>6, ViewIs
<1> QED
  BY <1>6, <1>7 DEF v

(* start_undo_session: the new session has nothing to undo.                *)
NewSession(u) ==
  [oldEnd |-> IF u.oldValues = <<>> THEN NULL ELSE Head(u.oldValues).at,
   removedEnd |-> IF u.removedValues = <<>> THEN NULL ELSE Head(u.removedValues),
   oldNextId |-> u.nextId,
   ctime |-> u.monotonic + 1]

GrownIs(u, v) ==
  FieldsOf(v, u.node, u.rows, u.oldValues, u.removedValues, Append(u.undoStack, NewSession(u)),
           u.nextId, u.revision + 1, u.monotonic + 1)

LEMMA GrownFields ==
  ASSUME NEW u, IndexType(u)
  PROVE  GrownIs(u, SessionAdded(u))
<1> DEFINE S == Append(u.undoStack, NewSession(u))
           r == u.revision + 1
           m == u.monotonic + 1
           w1 == [u EXCEPT !.undoStack = S]
           w2 == [w1 EXCEPT !.revision = r]
           w3 == [w2 EXCEPT !.monotonic = m]
<1>1. SessionAdded(u) = [u EXCEPT !.undoStack = S, !.revision = r, !.monotonic = m]
  BY Zenon DEF SessionAdded, NewSession
<1> HIDE DEF S, r, m, w2, w3
<1>2. FieldsOf(w1, u.node, u.rows, u.oldValues, u.removedValues, S, u.nextId, u.revision, u.monotonic)
  BY OwnFields, StackField, Zenon
<1> HIDE DEF w1
<1>3. FieldsOf(w2, u.node, u.rows, u.oldValues, u.removedValues, S, u.nextId, r, u.monotonic)
  BY <1>2, OneField, Zenon DEF w2
<1>4. FieldsOf(w3, u.node, u.rows, u.oldValues, u.removedValues, S, u.nextId, r, m)
  BY <1>3, OneField, Zenon DEF w3
<1>5. SessionAdded(u) = w3
  BY <1>1, Zenon DEF w1, w2, w3
<1> QED
  BY <1>4, <1>5, Zenon DEF GrownIs, S, r, m

LEMMA NewSessionIs ==
  ASSUME NEW u, IndexType(u)
  PROVE  /\ NewSession(u) \in Session
         /\ MarkedOld(u, NewSession(u).oldEnd, 1) /\ MarkedRemoved(u, NewSession(u).removedEnd, 1)
         /\ NewSession(u).ctime = u.monotonic + 1 /\ NewSession(u).oldNextId = u.nextId
<1> DEFINE s == NewSession(u)
           a == IF u.oldValues = <<>> THEN NULL ELSE Head(u.oldValues).at
           b == IF u.removedValues = <<>> THEN NULL ELSE Head(u.removedValues)
<1>1. /\ u.oldValues \in Seq(Copy) /\ u.removedValues \in Seq(Nat) /\ u.nextId \in Nat
      /\ u.monotonic \in Nat
  BY Zenon DEF IndexType
<1>2. a \in Nat \cup {NULL} /\ MarkedOld(u, a, 1)
  <2>1. CASE u.oldValues = <<>>
    BY <2>1 DEF MarkedOld
  <2>2. CASE u.oldValues # <<>>
    <3>1. 1 \in 1..Len(u.oldValues) /\ Len(u.oldValues) \in Nat /\ a = u.oldValues[1].at
      BY <1>1, <2>2
    <3>2. u.oldValues[1] \in Copy
      BY <1>1, <3>1
    <3>3. a \in Nat \ {0}
      BY <3>1, <3>2 DEF Copy
    <3> HIDE DEF a
    <3> QED
      BY <3>1, <3>3 DEF MarkedOld, NULL
  <2> QED
    BY <2>1, <2>2
<1>3. b \in Nat \cup {NULL} /\ MarkedRemoved(u, b, 1)
  <2>1. CASE u.removedValues = <<>>
    BY <2>1 DEF MarkedRemoved
  <2>2. CASE u.removedValues # <<>>
    <3>1. 1 \in 1..Len(u.removedValues) /\ Len(u.removedValues) \in Nat /\ b = u.removedValues[1]
      BY <1>1, <2>2
    <3>2. b \in Nat
      BY <1>1, <3>1
    <3> HIDE DEF b
    <3> QED
      BY <3>1, <3>2 DEF MarkedRemoved, NULL
  <2> QED
    BY <2>1, <2>2
<1>4. s = [oldEnd |-> a, removedEnd |-> b, oldNextId |-> u.nextId, ctime |-> u.monotonic + 1]
  BY Zenon DEF NewSession
<1> HIDE DEF a, b, s
<1>5. /\ s.oldEnd = a /\ s.removedEnd = b /\ s.oldNextId = u.nextId /\ s.ctime = u.monotonic + 1
      /\ s \in Session
  BY <1>1, <1>2, <1>3, <1>4 DEF Session
<1> QED
  BY <1>2, <1>3, <1>5 DEF s

LEMMA GrownGood ==
  ASSUME NEW u, Good(u)
  PROVE  LET v == SessionAdded(u)
             table == Table(u.node, u.rows, u.nextId)
         IN  Good(v) /\ Shows(v, table, Append(UndoOf(u), table), u.revision + 1)
<1> DEFINE v == SessionAdded(u)
           s0 == NewSession(u)
           n == Len(u.undoStack)
           table == Table(u.node, u.rows, u.nextId)
<1>1. IndexType(u) /\ Distinct(u) /\ Accounted(u) /\ Times(u)
  BY Zenon DEF Good
<1>2. GrownIs(u, v)
  BY <1>1, GrownFields
<1>3. /\ s0 \in Session /\ MarkedOld(u, s0.oldEnd, 1) /\ MarkedRemoved(u, s0.removedEnd, 1)
      /\ s0.ctime = u.monotonic + 1 /\ s0.oldNextId = u.nextId
  BY <1>1, NewSessionIs
<1> HIDE DEF v, s0
<1>4. /\ v.node = u.node /\ v.rows = u.rows /\ v.oldValues = u.oldValues
      /\ v.removedValues = u.removedValues /\ v.undoStack = Append(u.undoStack, s0)
      /\ v.nextId = u.nextId /\ v.revision = u.revision + 1 /\ v.monotonic = u.monotonic + 1
      /\ v = [node |-> v.node, rows |-> v.rows, oldValues |-> v.oldValues,
              removedValues |-> v.removedValues, undoStack |-> v.undoStack,
              nextId |-> v.nextId, revision |-> v.revision, monotonic |-> v.monotonic]
  <2> DEFINE S == Append(u.undoStack, s0)
             r == u.revision + 1
             m == u.monotonic + 1
  <2>1. FieldsOf(v, u.node, u.rows, u.oldValues, u.removedValues, S, u.nextId, r, m)
    BY <1>2, Zenon DEF GrownIs, s0
  <2> HIDE DEF S, r, m
  <2>2. /\ v.node = u.node /\ v.rows = u.rows /\ v.oldValues = u.oldValues
        /\ v.removedValues = u.removedValues /\ v.undoStack = S
        /\ v.nextId = u.nextId /\ v.revision = r /\ v.monotonic = m
        /\ v = [node |-> v.node, rows |-> v.rows, oldValues |-> v.oldValues,
                removedValues |-> v.removedValues, undoStack |-> v.undoStack,
                nextId |-> v.nextId, revision |-> v.revision, monotonic |-> v.monotonic]
    <3>1. HasFields(v, u.node, u.rows, u.oldValues, u.removedValues, S, u.nextId, r, m)
      BY <2>1, FieldsAre, Zenon
    <3> QED
      BY <3>1, Zenon DEF HasFields
  <2> QED
    BY <2>2, Zenon DEF S, r, m
<1>5. /\ DOMAIN u.node \subseteq Nat /\ u.node \in [DOMAIN u.node -> Row]
      /\ u.nextId \in Nat /\ u.monotonic \in Nat /\ u.revision \in Int
      /\ u.oldValues \in Seq(Copy) /\ u.removedValues \in Seq(Nat) /\ u.undoStack \in Seq(Session)
  BY <1>1, Zenon DEF IndexType
<1>6. /\ v.undoStack \in Seq(Session) /\ n \in Nat /\ Len(v.undoStack) = n + 1
      /\ v.undoStack[n + 1] = s0 /\ \A k \in 1..n : v.undoStack[k] = u.undoStack[k]
  BY <1>3, <1>4, <1>5, AppendProperties
<1>7. /\ Len(u.oldValues) \in Nat /\ Len(u.removedValues) \in Nat
      /\ \A i \in DOMAIN u.node : i \in Nat /\ u.node[i].mtime \in Nat
      /\ \A p \in 1..Len(u.oldValues) : u.oldValues[p].row.mtime \in Nat
  <2>1. \A i \in DOMAIN u.node : u.node[i] \in Row /\ i \in Nat
    BY <1>5
  <2>2. \A p \in 1..Len(u.oldValues) : u.oldValues[p] \in Copy
    BY <1>5
  <2>3. Len(u.oldValues) \in Nat /\ Len(u.removedValues) \in Nat
    BY <1>5
  <2> QED
    BY <2>1, <2>2, <2>3 DEF Row, Copy
<1>8. IndexType(v)
  <2>1. v.revision \in Int /\ v.monotonic \in Nat
    BY <1>4, <1>5
  <2> QED
    BY <1>1, <1>4, <1>6, <2>1, Zenon DEF IndexType
<1>9. Distinct(v) /\ Accounted(v)
  BY <1>1, <1>4, Zenon DEF Distinct, Accounted
<1>10. \A k \in 1..n : /\ u.undoStack[k] \in Session /\ Kept(u, u.undoStack[k])
                       /\ u.undoStack[k].ctime <= u.monotonic
                       /\ u.undoStack[k].oldNextId <= u.nextId
  <2>1. \A k \in 1..n : u.undoStack[k] \in Session
    BY <1>5
  <2> QED
    BY <1>1, <2>1, Zenon DEF Good, Times
<1>11. Times(v)
  <2>1. \A i \in DOMAIN u.node : u.node[i].mtime <= u.monotonic + 1
    BY <1>1, <1>5, <1>7 DEF Times
  <2>2. \A p \in 1..Len(u.oldValues) : u.oldValues[p].row.mtime <= u.monotonic + 1
    BY <1>1, <1>5, <1>7 DEF Times
  <2>3. ASSUME NEW k \in 1..Len(v.undoStack)
        PROVE  v.undoStack[k].ctime <= u.monotonic + 1 /\ v.undoStack[k].oldNextId <= u.nextId
    <3>1. CASE k = n + 1
      BY <1>3, <1>5, <1>6, <3>1
    <3>2. CASE k \in 1..n
      <4> DEFINE s == u.undoStack[k]
      <4>1. s \in Session /\ s.ctime <= u.monotonic /\ s.oldNextId <= u.nextId /\ v.undoStack[k] = s
        BY <1>6, <1>10, <3>2
      <4> HIDE DEF s
      <4> QED
        BY <1>5, <4>1 DEF Session
    <3> QED
      BY <1>6, <3>1, <3>2
  <2> QED
    BY <1>4, <2>1, <2>2, <2>3, Zenon DEF Times
<1>12. \A s : OldEnd(v, s) = OldEnd(u, s) /\ RemovedEnd(v, s) = RemovedEnd(u, s) /\ SameOld(u, v, s)
  <2> SUFFICES ASSUME NEW s
               PROVE  OldEnd(v, s) = OldEnd(u, s) /\ RemovedEnd(v, s) = RemovedEnd(u, s) /\ SameOld(u, v, s)
    OBVIOUS
  <2>1. SameOld(u, v, s) /\ SameRemoved(u, v, s)
    BY <1>4, SameOldValues, SameRemovedValues, Zenon
  <2> QED
    BY <2>1, Zenon DEF SameOld, SameRemoved
<1>13. ASSUME NEW k \in 1..n
       PROVE  Kept(v, u.undoStack[k])
  <2> DEFINE s == u.undoStack[k]
  <2>1. Kept(u, s)
    BY <1>10
  <2> HIDE DEF s
  <2>2. NodesKeep(u, v, s)
    BY <1>4, <2>1, Zenon DEF NodesKeep, Kept, OldKept, OlderNodes, HasCopy
  <2>3. Kept(v, s)
    BY <1>4, <2>1, <2>2, SameListsKept, Zenon
  <2> QED
    BY <2>3 DEF s
<1>14. OldEnd(v, s0) = 1 /\ RemovedEnd(v, s0) = 1
  <2>1. OldEnd(u, s0) = 1
    BY <1>1, <1>3, <1>5, OldPosIs, Zenon DEF OldEnd
  <2>2. RemovedEnd(u, s0) = 1
    BY <1>1, <1>3, <1>5, RemovedPosIs, Zenon DEF RemovedEnd
  <2> QED
    BY <1>12, <2>1, <2>2
<1>15. 1..OldEnd(v, s0) - 1 = {} /\ 1..RemovedEnd(v, s0) - 1 = {}
  BY <1>14
<1>16. \A i \in DOMAIN u.node : i < s0.oldNextId /\ u.node[i].mtime < s0.ctime
  <2> SUFFICES ASSUME NEW i \in DOMAIN u.node
               PROVE  i < s0.oldNextId /\ u.node[i].mtime < s0.ctime
    OBVIOUS
  <2>1. i < u.nextId /\ u.node[i].mtime <= u.monotonic
    BY <1>1, Zenon DEF Accounted, Times
  <2> QED
    BY <1>3, <1>5, <1>7, <2>1
<1>17. Kept(v, s0)
  <2>1. Marked(v, s0)
    BY <1>3, <1>4, <1>14, Zenon DEF Marked, MarkedOld, MarkedRemoved
  <2>2. OlderNodes(v, s0)
    BY <1>4, <1>16, Zenon DEF OlderNodes
  <2>3. OlderCopies(v, s0) /\ HasOlderCopy(v, s0) /\ ModifiedThenRemoved(v, s0)
    BY <1>15 DEF OlderCopies, HasOlderCopy, ModifiedThenRemoved
  <2>4. HasCopy(v, s0)
    <3> SUFFICES ASSUME NEW i \in DOMAIN v.node, v.node[i].mtime >= s0.ctime
                 PROVE  FALSE
      BY Zenon DEF HasCopy
    <3>1. v.node[i].mtime < s0.ctime /\ v.node[i].mtime \in Nat
      BY <1>4, <1>7, <1>16
    <3>2. s0.ctime \in Nat
      BY <1>3 DEF Session
    <3> QED
      BY <3>1, <3>2
  <2>5. RemovedEarlier(v, s0)
    <3> SUFFICES ASSUME NEW q \in 1..Len(u.removedValues)
                 PROVE  u.removedValues[q] < s0.oldNextId
      BY <1>4, Zenon DEF RemovedEarlier
    <3>1. u.removedValues[q] \in DOMAIN u.node
      BY NodesAre, Zenon DEF Removes
    <3> QED
      BY <1>16, <3>1
  <2> QED
    BY <2>1, <2>2, <2>3, <2>4, <2>5, Zenon DEF Kept, OldKept
<1>18. ASSUME NEW j \in 1..n, NEW k \in 1..n, j < k
       PROVE  Older(v, u.undoStack[j], u.undoStack[k])
  <2> DEFINE s == u.undoStack[j]
             t == u.undoStack[k]
  <2>1. Older(u, s, t)
    BY <1>18, Zenon DEF Good
  <2> HIDE DEF s, t
  <2>2. /\ OldEnd(v, s) = OldEnd(u, s) /\ OldEnd(v, t) = OldEnd(u, t)
        /\ RemovedEnd(v, s) = RemovedEnd(u, s) /\ RemovedEnd(v, t) = RemovedEnd(u, t)
    BY <1>12
  <2>3. Older(v, s, t)
    BY <2>1, <2>2 DEF Older
  <2> QED
    BY <2>3 DEF s, t
<1>19. ASSUME NEW k \in 1..n
       PROVE  Older(v, u.undoStack[k], s0)
  <2> DEFINE s == u.undoStack[k]
  <2>1. s \in Session /\ Kept(v, s) /\ s.ctime <= u.monotonic /\ s.oldNextId <= u.nextId
    BY <1>10, <1>13
  <2> HIDE DEF s
  <2>2. OldEnd(v, s) \in 1..Len(v.oldValues) + 1 /\ RemovedEnd(v, s) \in 1..Len(v.removedValues) + 1
    BY <2>1, Zenon DEF Kept, Marked, MarkedOld, MarkedRemoved
  <2>3. 1 <= OldEnd(v, s) /\ 1 <= RemovedEnd(v, s)
    BY <1>4, <1>7, <2>2
  <2>4. s.ctime < s0.ctime /\ s.oldNextId <= s0.oldNextId
    BY <1>3, <1>5, <2>1 DEF Session
  <2>5. Older(v, s, s0)
    BY <1>14, <2>3, <2>4 DEF Older
  <2> QED
    BY <2>5 DEF s
<1>20. \A k \in 1..n + 1 : k = n + 1 \/ k \in 1..n
  BY <1>6
<1>21. Good(v)
  <2>1. \A k \in 1..Len(v.undoStack) : Kept(v, v.undoStack[k])
    BY <1>6, <1>13, <1>17, <1>20, Zenon
  <2>2. ASSUME NEW j \in 1..Len(v.undoStack), NEW k \in 1..Len(v.undoStack), j < k
        PROVE  Older(v, v.undoStack[j], v.undoStack[k])
    <3>1. j \in 1..n
      BY <1>6, <2>2
    <3> QED
      BY <1>6, <1>18, <1>19, <1>20, <2>2, <3>1, Zenon
  <2> QED
    BY <1>8, <1>9, <1>11, <2>1, <2>2, Zenon DEF Good
<1>22. ASSUME NEW k \in 1..n
       PROVE  Saved(v, u.undoStack[k]) = Saved(u, u.undoStack[k])
  <2> DEFINE s == u.undoStack[k]
  <2>1. Kept(u, s) /\ Kept(v, s)
    BY <1>10, <1>13
  <2> HIDE DEF s
  <2>2. SameRows(u, v, s)
    <3>1. \A i : WasRow(v, s, i) <=> WasRow(u, s, i)
      BY <1>4, <1>12, Zenon DEF WasRow, RemovedSince
    <3>2. \A i \in DOMAIN v.node : Restored(v, s, i) = Restored(u, s, i)
      <4> SUFFICES ASSUME NEW i \in DOMAIN v.node
                   PROVE  Restored(v, s, i) = Restored(u, s, i)
        OBVIOUS
      <4>1. v.node[i] = u.node[i]
        BY <1>4
      <4>2. SameRestored(u, v, s, i)
        BY <1>4, <1>12, <4>1, RestoredDepends, Zenon
      <4> QED
        BY <4>2, Zenon DEF SameRestored
    <3> QED
      BY <3>1, <3>2, Zenon DEF SameRows
  <2>3. Saved(v, s) = Saved(u, s)
    BY <1>1, <1>8, <1>9, <2>1, <2>2, SavedSame, Zenon DEF Kept
  <2> QED
    BY <2>3 DEF s
<1>23. Saved(v, s0) = table
  <2>1. \A i : WasRow(v, s0, i) <=> i \in u.rows
    <3>1. \A i : ~ RemovedSince(v, s0, i)
      BY <1>15, Zenon DEF RemovedSince
    <3>2. \A i \in u.rows : i \in DOMAIN u.node
      BY <1>1 DEF IndexType
    <3> QED
      BY <1>4, <1>16, <3>1, <3>2, Zenon DEF WasRow
  <2>2. \A i : i \in RowsBefore(v, s0) <=> WasRow(v, s0, i)
    BY <1>8, <1>17, RowsBeforeAre, Zenon DEF Kept, Marked
  <2>3. RowsBefore(v, s0) = u.rows
    BY <2>1, <2>2
  <2>4. ASSUME NEW i \in u.rows
        PROVE  NodesBefore(v, s0)[i] = u.node[i]
    <3>1. i \in DOMAIN v.node
      BY <1>1, <1>4 DEF IndexType
    <3>2. Copies(v, s0, i) = {}
      BY <1>15 DEF Copies
    <3>3. Restored(v, s0, i) = v.node[i]
      BY <3>2, RestoredNode, Zenon
    <3> QED
      BY <1>4, <3>1, <3>3, NodesBeforeIs
  <2> QED
    BY <1>3, <2>3, <2>4 DEF Saved, Table
<1>24. UndoOf(v) = Append(UndoOf(u), table)
  <2> DEFINE e == UndoOf(u)
             r == UndoOf(v)
             S == {Saved(u, u.undoStack[k]) : k \in 1..n} \cup {table}
  <2>1. e \in Seq({Saved(u, u.undoStack[k]) : k \in 1..n}) /\ Len(e) = n
        /\ \A k \in 1..n : e[k] = Saved(u, u.undoStack[k])
    BY <1>5, UndoOfIs
  <2>2. Len(r) = n + 1 /\ (\A k \in 1..n + 1 : r[k] = Saved(v, v.undoStack[k]))
        /\ r = [k \in 1..n + 1 |-> Saved(v, v.undoStack[k])]
    <3>1. DOMAIN v.undoStack = 1..n + 1
      BY <1>6
    <3>2. r = [k \in 1..n + 1 |-> Saved(v, v.undoStack[k])]
      BY <3>1, Zenon DEF UndoOf
    <3>3. Len(r) = n + 1 /\ \A k \in 1..Len(v.undoStack) : r[k] = Saved(v, v.undoStack[k])
      BY <1>6, UndoOfIs
    <3> QED
      BY <1>6, <3>2, <3>3
  <2>3. \A k \in 1..n : r[k] = e[k]
    <3> SUFFICES ASSUME NEW k \in 1..n
                 PROVE  r[k] = e[k]
      OBVIOUS
    <3>1. k \in 1..n + 1
      BY <1>6
    <3> QED
      BY <1>6, <1>22, <2>1, <2>2, <3>1
  <2>4. r[n + 1] = table
    <3>1. n + 1 \in 1..n + 1
      BY <1>6
    <3> QED
      BY <1>6, <1>23, <2>2, <3>1
  <2>5. e \in Seq(S)
    <3> DEFINE T == {Saved(u, u.undoStack[k]) : k \in 1..n}
    <3>1. e \in Seq(T)
      BY <2>1, Zenon
    <3> HIDE DEF e, T
    <3>2. e \in [1..Len(e) -> T] /\ Len(e) \in Nat
      BY <3>1
    <3>3. T \subseteq S
      BY Zenon DEF T
    <3> HIDE DEF S
    <3> QED
      BY <3>2, <3>3
  <2>6. table \in S
    OBVIOUS
  <2> HIDE DEF e, r, S, table
  <2>7. Append(e, table) = [k \in 1..n + 1 |-> IF k \in 1..n THEN e[k] ELSE table]
    <3> DEFINE a == Append(e, table)
    <3>1. /\ a \in Seq(S) /\ Len(a) = n + 1 /\ a[n + 1] = table
          /\ \A k \in 1..n : a[k] = e[k]
      <4>1. Len(e) = n
        BY <2>1
      <4> QED
        BY <2>5, <2>6, <4>1, AppendProperties
    <3> HIDE DEF a
    <3>2. a = [k \in 1..n + 1 |-> a[k]]
      BY <1>6, <3>1
    <3>3. \A k \in 1..n + 1 : a[k] = IF k \in 1..n THEN e[k] ELSE table
      BY <1>6, <3>1
    <3>4. a = [k \in 1..n + 1 |-> IF k \in 1..n THEN e[k] ELSE table]
      BY <3>2, <3>3
    <3> QED
      BY <3>4 DEF a
  <2>8. \A k \in 1..n + 1 : r[k] = IF k \in 1..n THEN e[k] ELSE table
    BY <1>6, <2>3, <2>4
  <2>9. r = [k \in 1..n + 1 |-> r[k]]
    BY <2>2
  <2>10. r = Append(e, table)
    BY <2>7, <2>8, <2>9
  <2> QED
    BY <2>10 DEF e, r
<1>25. Table(v.node, v.rows, v.nextId) = table
  BY <1>4
<1>26. Shows(v, table, Append(UndoOf(u), table), u.revision + 1)
  BY <1>4, <1>24, <1>25, ViewIs
<1> QED
  BY <1>21, <1>26 DEF v

(* remove: of a row of this session, whose node is freed ...               *)
FreedIs(u, v, id) ==
  FieldsOf(v, Restrict(u.node, (u.rows \ {id}) \cup ToSet(u.removedValues)), u.rows \ {id},
           u.oldValues, u.removedValues, u.undoStack, u.nextId, u.revision, u.monotonic)

LEMMA FreedGood ==
  ASSUME NEW u, Good(u), NEW id \in u.rows, NEW v, FreedIs(u, v, id),
         \A k \in 1..Len(u.undoStack) : id >= u.undoStack[k].oldNextId
  PROVE  /\ Good(v) /\ UndoOf(v) = UndoOf(u)
         /\ v.rows = u.rows \ {id} /\ v.nextId = u.nextId /\ v.revision = u.revision
         /\ \A i \in v.rows : v.node[i] = u.node[i]
<1> DEFINE n == Len(u.undoStack)
           left == (u.rows \ {id}) \cup ToSet(u.removedValues)
           N == Restrict(u.node, left)
           R == u.rows \ {id}
<1>1. IndexType(u) /\ Distinct(u) /\ Accounted(u) /\ Times(u)
  BY Zenon DEF Good
<1>2. HasFields(v, N, R, u.oldValues, u.removedValues, u.undoStack, u.nextId, u.revision, u.monotonic)
  BY FieldsAre, Zenon DEF FreedIs
<1> HIDE DEF N, left, R
<1>3. /\ v.node = N /\ v.rows = R /\ v.oldValues = u.oldValues
      /\ v.removedValues = u.removedValues /\ v.undoStack = u.undoStack /\ v.nextId = u.nextId
      /\ v.revision = u.revision /\ v.monotonic = u.monotonic
      /\ v = [node |-> v.node, rows |-> v.rows, oldValues |-> v.oldValues,
              removedValues |-> v.removedValues, undoStack |-> v.undoStack,
              nextId |-> v.nextId, revision |-> v.revision, monotonic |-> v.monotonic]
  BY <1>2, Zenon DEF HasFields
<1>4. /\ DOMAIN u.node \subseteq Nat /\ u.node \in [DOMAIN u.node -> Row]
      /\ u.rows \subseteq DOMAIN u.node
      /\ u.oldValues \in Seq(Copy) /\ u.removedValues \in Seq(Nat) /\ u.undoStack \in Seq(Session)
      /\ u.revision \in Int
  BY <1>1, Zenon DEF IndexType
<1>5. /\ u.rows \cup ToSet(u.removedValues) = DOMAIN u.node
      /\ u.rows \cap ToSet(u.removedValues) = {}
      /\ \A i \in DOMAIN u.node : i < u.nextId
  BY <1>1, Zenon DEF Accounted
<1>6. left = DOMAIN u.node \ {id}
  BY <1>5 DEF left
<1>7. /\ DOMAIN N = DOMAIN u.node \ {id} /\ \A i \in DOMAIN N : N[i] = u.node[i]
      /\ N \in [DOMAIN N -> Row]
  <2> DEFINE node == u.node
  <2>1. left \subseteq DOMAIN node /\ \A i \in DOMAIN node : node[i] \in Row
    BY <1>4, <1>6
  <2> HIDE DEF node
  <2>2. /\ DOMAIN Restrict(node, left) = left
        /\ \A i \in left : Restrict(node, left)[i] = node[i]
        /\ Restrict(node, left) \in [left -> Row]
    BY <2>1, RestrictedNode
  <2>3. N = Restrict(node, left)
    BY DEF N, node
  <2>4. DOMAIN N = left /\ (\A i \in left : N[i] = node[i]) /\ N \in [left -> Row]
    BY <2>2, <2>3, Zenon
  <2> QED
    BY <1>6, <2>4 DEF node
<1>8. IndexType(v)
  <2>1. DOMAIN v.node \subseteq Nat /\ v.node \in [DOMAIN v.node -> Row]
    BY <1>3, <1>4, <1>7
  <2>2. v.rows \subseteq DOMAIN v.node
    BY <1>3, <1>4, <1>7 DEF R
  <2> QED
    BY <1>1, <1>3, <2>1, <2>2, Zenon DEF IndexType
<1>9. Distinct(v)
  BY <1>1, <1>3, Zenon DEF Distinct
<1>10. Accounted(v)
  <2>1. v.rows \cup ToSet(v.removedValues) = DOMAIN v.node
    BY <1>3, <1>6, <1>7 DEF left, R
  <2>2. v.rows \cap ToSet(v.removedValues) = {}
    BY <1>3, <1>5 DEF R
  <2>3. \A i \in DOMAIN v.node : i < v.nextId
    BY <1>3, <1>5, <1>7
  <2> QED
    BY <2>1, <2>2, <2>3, Zenon DEF Accounted
<1>11. Times(v)
  <2>1. \A i \in DOMAIN v.node : v.node[i].mtime <= v.monotonic
    BY <1>1, <1>3, <1>7 DEF Times
  <2> QED
    BY <1>1, <1>3, <2>1, Zenon DEF Times
<1>12. ASSUME NEW k \in 1..n
       PROVE  Shifted(u, v, u.undoStack[k], 0, 0)
  <2> DEFINE s == u.undoStack[k]
  <2>1. Kept(u, s) /\ id >= s.oldNextId /\ s \in Session
    BY <1>4 DEF Good
  <2> HIDE DEF s
  <2>2. id \in Nat /\ s.oldNextId \in Nat
    BY <1>4, <2>1 DEF Session
  <2>3. ~ (id < s.oldNextId)
    BY <2>1, <2>2
  <2>4. NodesKeep(u, v, s)
    <3>1. OlderNodes(u, s) /\ HasCopy(u, s)
      BY <2>1, Zenon DEF Kept, OldKept
    <3>2. \A i \in DOMAIN v.node : i \in DOMAIN u.node /\ v.node[i] = u.node[i]
      BY <1>3, <1>7
    <3>3. \A i \in DOMAIN u.node : i < s.oldNextId => i \in DOMAIN v.node
      BY <1>3, <1>7, <2>3
    <3> QED
      BY <3>1, <3>2, <3>3, Zenon DEF NodesKeep, OlderNodes, HasCopy
  <2>5. Kept(v, s)
    BY <1>3, <2>1, <2>4, SameListsKept, Zenon
  <2>6. OldEnd(v, s) = OldEnd(u, s) /\ RemovedEnd(v, s) = RemovedEnd(u, s) /\ SameOld(u, v, s)
    <3>1. SameOld(u, v, s) /\ SameRemoved(u, v, s)
      BY <1>3, SameOldValues, SameRemovedValues, Zenon
    <3> QED
      BY <3>1, Zenon DEF SameOld, SameRemoved
  <2>7. SameRows(u, v, s)
    <3>1. \A i : RemovedSince(v, s, i) <=> RemovedSince(u, s, i)
      BY <1>3, <2>6, Zenon DEF RemovedSince
    <3>2. \A i : i \in v.rows <=> i \in u.rows /\ i # id
      BY <1>3 DEF R
    <3>3. \A i : WasRow(v, s, i) <=> WasRow(u, s, i)
      BY <2>3, <3>1, <3>2, Zenon DEF WasRow
    <3>4. ASSUME NEW i \in DOMAIN v.node
          PROVE  Restored(v, s, i) = Restored(u, s, i)
      <4>1. v.node[i] = u.node[i]
        BY <1>3, <1>7
      <4>2. SameRestored(u, v, s, i)
        BY <1>3, <2>6, <4>1, RestoredDepends, Zenon
      <4> QED
        BY <4>2, Zenon DEF SameRestored
    <3> QED
      BY <3>3, <3>4, Zenon DEF SameRows
  <2>8. OldEnd(u, s) + 0 = OldEnd(u, s) /\ RemovedEnd(u, s) + 0 = RemovedEnd(u, s)
    BY <1>4, <2>1 DEF Kept, Marked, MarkedOld, MarkedRemoved
  <2>9. Shifted(u, v, s, 0, 0)
    BY <2>5, <2>6, <2>7, <2>8, Zenon DEF Shifted
  <2> QED
    BY <2>9 DEF s
<1>13. Good(v) /\ UndoOf(v) = UndoOf(u)
  BY <1>3, <1>8, <1>9, <1>10, <1>11, <1>12, SessionsKept
<1>14. \A i \in v.rows : v.node[i] = u.node[i]
  BY <1>3, <1>4, <1>7 DEF R
<1> QED
  BY <1>3, <1>13, <1>14 DEF R

(* An entry at the front of a list.                                        *)
Prepended(s, r, x) ==
  /\ Len(s) \in Nat /\ Len(r) = Len(s) + 1 /\ r[1] = x
  /\ \A p \in 1..Len(s) : r[p + 1] = s[p]
  /\ \A p \in 1..Len(s) + 1 : p = 1 \/ (p - 1 \in 1..Len(s) /\ p = (p - 1) + 1 /\ r[p] = s[p - 1])

LEMMA PrependedIs ==
  ASSUME NEW S, NEW s \in Seq(S), NEW x \in S
  PROVE  <<x>> \o s \in Seq(S) /\ Prepended(s, <<x>> \o s, x)
<1> DEFINE h == <<x>>
           r == h \o s
<1>1. h \in Seq(S) /\ Len(h) = 1 /\ h[1] = x /\ Len(s) \in Nat
  OBVIOUS
<1> HIDE DEF h
<1>2. /\ r \in Seq(S) /\ Len(r) = Len(h) + Len(s)
      /\ \A i \in 1..Len(h) + Len(s) : r[i] = IF i <= Len(h) THEN h[i] ELSE s[i - Len(h)]
  BY <1>1, ConcatProperties
<1> HIDE DEF r
<1>3. Len(r) = Len(s) + 1 /\ \A i \in 1..Len(s) + 1 : r[i] = IF i <= 1 THEN h[i] ELSE s[i - 1]
  BY <1>1, <1>2
<1>4. r[1] = x
  BY <1>1, <1>3
<1>5. \A p \in 1..Len(s) : r[p + 1] = s[p]
  <2> SUFFICES ASSUME NEW p \in 1..Len(s)
               PROVE  r[p + 1] = s[p]
    OBVIOUS
  <2>1. p + 1 \in 1..Len(s) + 1 /\ ~ (p + 1 <= 1) /\ (p + 1) - 1 = p
    BY <1>1
  <2> QED
    BY <1>3, <2>1
<1>6. \A p \in 1..Len(s) + 1 : p = 1 \/ (p - 1 \in 1..Len(s) /\ p = (p - 1) + 1 /\ r[p] = s[p - 1])
  BY <1>1, <1>3
<1> QED
  BY <1>1, <1>2, <1>3, <1>4, <1>5, <1>6 DEF Prepended, r, h

(* ... of a row older than the newest session, which is kept in            *)
(* removedValues.                                                          *)
ListedIs(u, v, id) ==
  FieldsOf(v, u.node, u.rows \ {id}, u.oldValues, <<id>> \o u.removedValues, u.undoStack,
           u.nextId, u.revision, u.monotonic)

LEMMA ListedSession ==
  ASSUME NEW u, Good(u), NEW id \in u.rows, NEW v, Distinct(v), v.removedValues \in Seq(Nat),
         v.node = u.node, v.rows = u.rows \ {id}, v.oldValues = u.oldValues,
         Prepended(u.removedValues, v.removedValues, id),
         NEW s \in Session, Kept(u, s)
  PROVE  Shifted(u, v, s, 0, 1)
<1> DEFINE R == Len(u.removedValues)
           rp == RemovedEnd(u, s)
<1>1. IndexType(u) /\ Distinct(u) /\ Accounted(u)
  BY Zenon DEF Good
<1>2. Marked(u, s) /\ OldKept(u, s) /\ ModifiedThenRemoved(u, s) /\ RemovedEarlier(u, s)
  BY Zenon DEF Kept
<1>3. /\ R \in Nat /\ Len(v.removedValues) = R + 1 /\ v.removedValues[1] = id
      /\ \A q \in 1..R : v.removedValues[q + 1] = u.removedValues[q]
      /\ \A q \in 1..R + 1 : q = 1 \/ (q - 1 \in 1..R /\ q = (q - 1) + 1
                                      /\ v.removedValues[q] = u.removedValues[q - 1])
  BY Zenon DEF Prepended
<1>4. /\ rp \in 1..R + 1
      /\ s.removedEnd = NULL => rp = R + 1
      /\ s.removedEnd # NULL => rp \in 1..R /\ u.removedValues[rp] = s.removedEnd
  BY <1>2, Zenon DEF Marked, MarkedRemoved
<1> HIDE DEF R, rp
<1>5. MarkedRemoved(v, s.removedEnd, rp + 1)
  BY <1>3, <1>4 DEF MarkedRemoved
<1>6. RemovedEnd(v, s) = rp + 1
  BY <1>5, RemovedPosIs, Zenon DEF RemovedEnd
<1>7. SameOld(u, v, s) /\ OldEnd(v, s) = OldEnd(u, s)
  <2>1. SameOld(u, v, s)
    BY SameOldValues, Zenon
  <2> QED
    BY <2>1, Zenon DEF SameOld
<1>8. \A i : Copies(v, s, i) = Copies(u, s, i)
  BY <1>7, Zenon DEF SameOld
<1>9. Marked(v, s)
  BY <1>2, <1>5, <1>6, <1>7, Zenon DEF Marked, MarkedOld
<1>10. OldKept(v, s)
  BY <1>2, <1>7, <1>8, Zenon DEF OldKept, OlderNodes, OlderCopies, HasCopy, HasOlderCopy
<1>11. ModifiedThenRemoved(v, s)
  <2> SUFFICES ASSUME NEW p \in 1..OldEnd(v, s) - 1, NEW q \in 1..Len(v.removedValues),
                      v.oldValues[p].current = v.removedValues[q]
               PROVE  q < RemovedEnd(v, s)
    BY Zenon DEF ModifiedThenRemoved
  <2> USE <1>6
  <2>3. /\ p \in 1..OldEnd(u, s) - 1 /\ q \in 1..R + 1
        /\ u.oldValues[p].current = v.removedValues[q]
    BY <1>3, <1>7
  <2>1. CASE q = 1
    BY <1>3, <1>4, <2>1
  <2>2. CASE q - 1 \in 1..R /\ v.removedValues[q] = u.removedValues[q - 1]
    <3>1. q - 1 < rp
      BY <1>2, <2>2, <2>3, Zenon DEF ModifiedThenRemoved, R, rp
    <3> QED
      BY <1>3, <1>4, <2>3, <3>1
  <2> QED
    BY <1>3, <2>1, <2>2, <2>3
<1>12. RemovedEarlier(v, s)
  <2> SUFFICES ASSUME NEW q \in 1..R + 1
               PROVE  q < rp + 1 \/ v.removedValues[q] < s.oldNextId
    BY <1>3, <1>6, Zenon DEF RemovedEarlier
  <2>1. CASE q = 1
    BY <1>3, <1>4, <2>1
  <2>2. CASE q - 1 \in 1..R /\ v.removedValues[q] = u.removedValues[q - 1]
    <3>1. q - 1 < rp \/ u.removedValues[q - 1] < s.oldNextId
      BY <1>2, <2>2, Zenon DEF RemovedEarlier, R, rp
    <3> QED
      BY <1>3, <1>4, <2>2, <3>1
  <2> QED
    BY <1>3, <2>1, <2>2
<1>13. Kept(v, s)
  BY <1>9, <1>10, <1>11, <1>12, Zenon DEF Kept
<1>14. \A i : RemovedSince(v, s, i) <=> RemovedSince(u, s, i) \/ i = id
  <2> SUFFICES ASSUME NEW i
               PROVE  RemovedSince(v, s, i) <=> RemovedSince(u, s, i) \/ i = id
    OBVIOUS
  <2>1. ASSUME NEW q \in 1..RemovedEnd(v, s) - 1, v.removedValues[q] = i
        PROVE  RemovedSince(u, s, i) \/ i = id
    <3>1. q \in 1..rp /\ q \in 1..R + 1
      BY <1>3, <1>4, <1>6, <2>1
    <3>2. CASE q = 1
      BY <1>3, <2>1, <3>2
    <3>3. CASE q - 1 \in 1..R /\ v.removedValues[q] = u.removedValues[q - 1]
      <4>1. q - 1 \in 1..rp - 1 /\ u.removedValues[q - 1] = i
        BY <1>3, <1>4, <2>1, <3>1, <3>3
      <4> QED
        BY <4>1, Zenon DEF RemovedSince, rp
    <3> QED
      BY <1>3, <3>1, <3>2, <3>3
  <2>2. ASSUME NEW q \in 1..rp - 1, u.removedValues[q] = i
        PROVE  RemovedSince(v, s, i)
    <3>1. q \in 1..R /\ q + 1 \in 1..(rp + 1) - 1
      BY <1>3, <1>4
    <3>2. v.removedValues[q + 1] = i
      BY <1>3, <2>2, <3>1
    <3> QED
      BY <1>6, <3>1, <3>2, Zenon DEF RemovedSince
  <2>3. ASSUME i = id
        PROVE  RemovedSince(v, s, i)
    <3>1. 1 \in 1..(rp + 1) - 1
      BY <1>3, <1>4
    <3> QED
      BY <1>3, <1>6, <2>3, <3>1, Zenon DEF RemovedSince
  <2> QED
    BY <2>1, <2>2, <2>3, Zenon DEF RemovedSince, rp
<1>15. SameRows(u, v, s)
  <2>1. \A i : i \in v.rows <=> i \in u.rows /\ i # id
    OBVIOUS
  <2>2. \A i : WasRow(v, s, i) <=> WasRow(u, s, i)
    BY <1>14, <2>1, Zenon DEF WasRow
  <2>3. ASSUME NEW i \in DOMAIN v.node
        PROVE  Restored(v, s, i) = Restored(u, s, i)
    <3>1. v.node[i] = u.node[i]
      OBVIOUS
    <3>2. SameRestored(u, v, s, i)
      BY <1>7, <3>1, RestoredDepends, Zenon
    <3> QED
      BY <3>2, Zenon DEF SameRestored
  <2> QED
    BY <2>2, <2>3, Zenon DEF SameRows
<1>16. OldEnd(u, s) + 0 = OldEnd(u, s)
  BY <1>1, <1>2 DEF IndexType, Marked, MarkedOld
<1> QED
  BY <1>6, <1>7, <1>13, <1>15, <1>16, Zenon DEF Shifted, rp

LEMMA ListedGood ==
  ASSUME NEW u, Good(u), NEW id \in u.rows, NEW v, ListedIs(u, v, id)
  PROVE  /\ Good(v) /\ UndoOf(v) = UndoOf(u)
         /\ v.rows = u.rows \ {id} /\ v.nextId = u.nextId /\ v.revision = u.revision
         /\ \A i \in v.rows : v.node[i] = u.node[i]
<1> DEFINE n == Len(u.undoStack)
           d == <<id>> \o u.removedValues
           R == u.rows \ {id}
<1>1. IndexType(u) /\ Distinct(u) /\ Accounted(u) /\ Times(u)
  BY Zenon DEF Good
<1>2. /\ DOMAIN u.node \subseteq Nat /\ u.rows \subseteq DOMAIN u.node
      /\ u.removedValues \in Seq(Nat) /\ u.undoStack \in Seq(Session)
      /\ u.oldValues \in Seq(Copy)
  BY <1>1, Zenon DEF IndexType
<1>3. id \in Nat /\ id \in DOMAIN u.node
  BY <1>2
<1>4. d \in Seq(Nat) /\ Prepended(u.removedValues, d, id)
  BY <1>2, <1>3, PrependedIs
<1>5. FieldsOf(v, u.node, R, u.oldValues, d, u.undoStack, u.nextId, u.revision, u.monotonic)
  BY Zenon DEF ListedIs
<1> HIDE DEF d, R
<1>6. HasFields(v, u.node, R, u.oldValues, d, u.undoStack, u.nextId, u.revision, u.monotonic)
  BY <1>5, FieldsAre, Zenon
<1>7. /\ v.node = u.node /\ v.rows = R /\ v.oldValues = u.oldValues
      /\ v.removedValues = d /\ v.undoStack = u.undoStack /\ v.nextId = u.nextId
      /\ v.revision = u.revision /\ v.monotonic = u.monotonic
      /\ v = [node |-> v.node, rows |-> v.rows, oldValues |-> v.oldValues,
              removedValues |-> v.removedValues, undoStack |-> v.undoStack,
              nextId |-> v.nextId, revision |-> v.revision, monotonic |-> v.monotonic]
  BY <1>6, Zenon DEF HasFields
<1>8. IndexType(v)
  <2>1. v.rows \subseteq DOMAIN v.node
    BY <1>2, <1>7 DEF R
  <2> QED
    BY <1>1, <1>4, <1>7, <2>1, Zenon DEF IndexType
<1>9. /\ DOMAIN d = 1..Len(d) /\ DOMAIN u.removedValues = 1..Len(u.removedValues)
      /\ Len(u.removedValues) \in Nat /\ Len(d) = Len(u.removedValues) + 1 /\ d[1] = id
      /\ \A p \in 1..Len(u.removedValues) : d[p + 1] = u.removedValues[p]
      /\ \A p \in 1..Len(d) : p = 1 \/ (p - 1 \in 1..Len(u.removedValues) /\ p = (p - 1) + 1
                                       /\ d[p] = u.removedValues[p - 1])
  <2>1. /\ Len(u.removedValues) \in Nat /\ Len(d) = Len(u.removedValues) + 1 /\ d[1] = id
        /\ \A p \in 1..Len(u.removedValues) : d[p + 1] = u.removedValues[p]
        /\ \A p \in 1..Len(u.removedValues) + 1 : p = 1 \/ (p - 1 \in 1..Len(u.removedValues) /\ p = (p - 1) + 1
                                         /\ d[p] = u.removedValues[p - 1])
    BY <1>4, Zenon DEF Prepended
  <2>2. DOMAIN d = 1..Len(d) /\ DOMAIN u.removedValues = 1..Len(u.removedValues)
    BY <1>2, <1>4
  <2> QED
    BY <2>1, <2>2
<1>10. \A q \in 1..Len(u.removedValues) : u.removedValues[q] # id
  BY NodesAre, Zenon DEF Removes
<1>11. Distinct(v)
  <2>1. \A p, q \in 1..Len(u.removedValues) : u.removedValues[p] = u.removedValues[q] => p = q
    BY <1>1, Zenon DEF Distinct
  <2>2. ASSUME NEW p \in 1..Len(d), NEW q \in 1..Len(d), d[p] = d[q]
        PROVE  p = q
    <3>1. CASE p = 1 /\ q = 1
      BY <3>1
    <3>2. CASE p = 1 /\ q # 1
      BY <1>9, <1>10, <2>2, <3>2
    <3>3. CASE p # 1 /\ q = 1
      BY <1>9, <1>10, <2>2, <3>3
    <3>4. CASE p # 1 /\ q # 1
      <4>1. p - 1 = q - 1
        BY <1>9, <2>1, <2>2, <3>4
      <4> QED
        BY <1>9, <4>1
    <3> QED
      BY <3>1, <3>2, <3>3, <3>4
  <2>3. \A p, q \in 1..Len(v.oldValues) : v.oldValues[p].at = v.oldValues[q].at => p = q
    <3>1. \A p, q \in 1..Len(u.oldValues) : u.oldValues[p].at = u.oldValues[q].at => p = q
      BY <1>1, Zenon DEF Distinct
    <3> QED
      BY <1>7, <3>1
  <2> QED
    BY <1>7, <2>2, <2>3 DEF Distinct
<1>12. ToSet(d) = ToSet(u.removedValues) \cup {id}
  <2>1. \A x : x \in ToSet(d) <=> \E p \in 1..Len(d) : d[p] = x
    BY <1>9, Zenon DEF ToSet
  <2>2. \A x : x \in ToSet(u.removedValues) <=> \E p \in 1..Len(u.removedValues) : u.removedValues[p] = x
    BY <1>9, Zenon DEF ToSet
  <2>3. ASSUME NEW x, x \in ToSet(d)
        PROVE  x = id \/ x \in ToSet(u.removedValues)
    <3>1. PICK p \in 1..Len(d) : d[p] = x
      BY <2>1, <2>3
    <3>2. CASE p = 1
      BY <1>9, <3>1, <3>2
    <3>3. CASE p - 1 \in 1..Len(u.removedValues) /\ d[p] = u.removedValues[p - 1]
      BY <2>2, <3>1, <3>3, Zenon
    <3> QED
      BY <1>9, <3>2, <3>3
  <2>4. ASSUME NEW x \in ToSet(u.removedValues)
        PROVE  x \in ToSet(d)
    <3>1. PICK p \in 1..Len(u.removedValues) : u.removedValues[p] = x
      BY <2>2, <2>4
    <3>2. p + 1 \in 1..Len(d) /\ d[p + 1] = x
      BY <1>9, <3>1
    <3> QED
      BY <2>1, <3>2
  <2>5. id \in ToSet(d)
    <3>1. 1 \in 1..Len(d)
      BY <1>9
    <3> QED
      BY <1>9, <2>1, <3>1
  <2> QED
    BY <2>3, <2>4, <2>5
<1>13. Accounted(v)
  BY <1>1, <1>3, <1>7, <1>12 DEF Accounted, R
<1>14. Times(v)
  BY <1>1, <1>7, Zenon DEF Times
<1>15. ASSUME NEW k \in 1..n
       PROVE  Shifted(u, v, u.undoStack[k], 0, 1)
  <2> DEFINE s == u.undoStack[k]
  <2>1. Kept(u, s) /\ s \in Session
    BY <1>2 DEF Good
  <2> HIDE DEF s
  <2>2. v.removedValues \in Seq(Nat) /\ Prepended(u.removedValues, v.removedValues, id)
        /\ v.rows = u.rows \ {id}
    BY <1>4, <1>7 DEF R
  <2>3. Shifted(u, v, s, 0, 1)
    BY <1>7, <1>11, <2>1, <2>2, ListedSession, Zenon
  <2> QED
    BY <2>3 DEF s
<1>16. Good(v) /\ UndoOf(v) = UndoOf(u)
  BY <1>7, <1>8, <1>11, <1>13, <1>14, <1>15, SessionsKept
<1> QED
  BY <1>7, <1>16 DEF R

LEMMA RemovedGood ==
  ASSUME NEW u, Good(u), NEW id \in u.rows
  PROVE  LET v == Removed(u, id)
         IN  /\ Good(v) /\ UndoOf(v) = UndoOf(u)
             /\ v.rows = u.rows \ {id} /\ v.nextId = u.nextId /\ v.revision = u.revision
             /\ \A i \in v.rows : v.node[i] = u.node[i]
<1> DEFINE v == Removed(u, id)
           R == u.rows \ {id}
           gone == [u EXCEPT !.rows = R]
           n == Len(u.undoStack)
<1>1. IndexType(u) /\ u.undoStack \in Seq(Session) /\ n \in Nat
  BY DEF Good, IndexType
<1>2. FieldsOf(gone, u.node, R, u.oldValues, u.removedValues, u.undoStack, u.nextId,
               u.revision, u.monotonic)
  BY <1>1, OwnFields, OneField, Zenon
<1>3. CASE u.undoStack = <<>> \/ id >= Last(u.undoStack).oldNextId
  <2>1. v = Freed(gone)
    BY <1>3, Zenon DEF Removed
  <2> HIDE DEF gone, R, v
  <2>2. FreedIs(u, v, id)
    BY <1>2, <2>1, FreedFields, Zenon DEF FreedIs, R
  <2>3. ASSUME NEW k \in 1..n
        PROVE  id >= u.undoStack[k].oldNextId
    <3> DEFINE s == u.undoStack[k]
               t == u.undoStack[n]
    <3>1. u.undoStack # <<>> /\ n \in 1..n
      BY <1>1
    <3>2. Last(u.undoStack) = t /\ t \in Session /\ s \in Session
      BY <1>1, <3>1, LastSession
    <3>3. id >= t.oldNextId
      BY <1>3, <3>1, <3>2
    <3>4. s = t \/ Older(u, s, t)
      <4>1. k = n \/ k < n
        BY <1>1
      <4>2. k < n => Older(u, s, t)
        BY <3>1, Zenon DEF Good
      <4> QED
        BY <4>1, <4>2
    <3>5. id \in Nat
      BY <1>1 DEF IndexType
    <3> HIDE DEF s, t
    <3>6. id >= s.oldNextId
      BY <3>2, <3>3, <3>4, <3>5 DEF Older, Session
    <3> QED
      BY <3>6 DEF s
  <2> QED
    BY <2>2, <2>3, FreedGood DEF v
<1>4. CASE ~ (u.undoStack = <<>> \/ id >= Last(u.undoStack).oldNextId)
  <2> DEFINE d == <<id>> \o u.removedValues
             w == [gone EXCEPT !.removedValues = d]
  <2>1. v = [gone EXCEPT !.removedValues = <<id>> \o @]
    BY <1>4, Zenon DEF Removed
  <2> HIDE DEF gone, v
  <2>2. gone.removedValues = u.removedValues
    <3>1. HasFields(gone, u.node, R, u.oldValues, u.removedValues, u.undoStack, u.nextId,
                    u.revision, u.monotonic)
      BY <1>2, FieldsAre, Zenon
    <3> QED
      BY <3>1, Zenon DEF HasFields
  <2>3. v = w
    BY <2>1, <2>2, Zenon
  <2> HIDE DEF d, w
  <2>4. FieldsOf(w, u.node, R, u.oldValues, d, u.undoStack, u.nextId, u.revision, u.monotonic)
    BY <1>2, OneField, Zenon DEF w
  <2>5. ListedIs(u, v, id)
    BY <2>3, <2>4, Zenon DEF ListedIs, d
  <2> QED
    BY <2>5, ListedGood DEF v
<1> QED
  BY <1>3, <1>4

(* on_modify: a copy at a free address.                                    *)
FreeAt(u, a) == \A p \in 1..Len(u.oldValues) : u.oldValues[p].at # a

LEMMA AddressIsFree ==
  ASSUME NEW u, u.oldValues \in Seq(Copy)
  PROVE  FreeAddress(u) \in Nat \ {0} /\ FreeAt(u, FreeAddress(u))
<1> DEFINE L == Len(u.oldValues)
           at == [p \in 1..L |-> u.oldValues[p].at]
           used == {at[p] : p \in 1..L}
           free == {a \in Nat : a >= 1 /\ FreeAt(u, a)}
           Fits(a) == FreeAt(u, a) /\ \A c \in 1..a - 1 : ~ FreeAt(u, c)
<1>1. L \in Nat /\ DOMAIN u.oldValues = 1..L
  OBVIOUS
<1>12. IsFiniteSet(1..L + 1) /\ Cardinality(1..L + 1) = L + 1
  <2> DEFINE m == L + 1
  <2>1. 1 \in Int /\ m \in Int /\ ~ (1 > m) /\ m - 1 + 1 = m
    BY <1>1
  <2> HIDE DEF m
  <2>2. IsFiniteSet(1..m) /\ Cardinality(1..m) = m - 1 + 1
    BY <2>1, FS_Interval
  <2> QED
    BY <2>1, <2>2 DEF m
<1>2. \E a \in 1..L + 1 : a \notin used
  <2> SUFFICES ASSUME 1..L + 1 \subseteq used
               PROVE  FALSE
    OBVIOUS
  <2>1. IsFiniteSet(1..L) /\ Cardinality(1..L) = L
    <3>1. 1 \in Int /\ L \in Int
      BY <1>1
    <3> QED
      BY <1>1, <3>1, FS_Interval
  <2>3. IsFiniteSet(used) /\ Cardinality(used) <= L
    <3>1. at \in [1..L -> used]
      OBVIOUS
    <3>2. at \in Surjection(1..L, used)
      BY <3>1, Zenon DEF Surjection
    <3> DEFINE D == 1..L
    <3>3. IsFiniteSet(D) /\ Cardinality(D) = L /\ at \in Surjection(D, used)
      BY <2>1, <3>2
    <3> HIDE DEF at, used, D
    <3>4. IsFiniteSet(used) /\ Cardinality(used) <= Cardinality(D)
      BY <3>3, FS_Surjection
    <3> QED
      BY <3>3, <3>4
  <2>4. Cardinality(1..L + 1) <= Cardinality(used)
    BY <2>3, FS_Subset
  <2>5. Cardinality(used) \in Nat
    BY <2>3, FS_CardinalityType
  <2> QED
    BY <1>1, <1>12, <2>3, <2>4, <2>5
<1>3. \A a : a \notin used => FreeAt(u, a)
  BY Zenon DEF FreeAt
<1>4. PICK b \in 1..L + 1 : FreeAt(u, b)
  BY <1>2, <1>3, Zenon
<1> HIDE DEF used, at
<1>5. free \in SUBSET Nat /\ b \in free
  BY <1>1, <1>4
<1> HIDE DEF free
<1>6. PICK a \in free : \A c \in free : a <= c
  <2>1. free # {}
    BY <1>5
  <2> QED
    BY <1>5, <2>1, LeastNatural
<1>7. a \in Nat /\ a >= 1 /\ FreeAt(u, a)
  BY <1>6 DEF free
<1>8. a \in 1..L + 1
  BY <1>1, <1>4, <1>5, <1>6, <1>7
<1>9. \A c \in 1..a - 1 : ~ FreeAt(u, c)
  <2> SUFFICES ASSUME NEW c \in 1..a - 1, FreeAt(u, c)
               PROVE  FALSE
    OBVIOUS
  <2>1. c \in Nat /\ c >= 1 /\ ~ (a <= c)
    BY <1>7
  <2>2. c \in free
    BY <2>1, Zenon DEF free
  <2> QED
    BY <1>6, <2>1, <2>2
<1>10. FreeAddress(u) = CHOOSE x \in 1..L + 1 : Fits(x)
  <2>1. \A x : (\A i \in DOMAIN u.oldValues : u.oldValues[i].at # x) <=> FreeAt(u, x)
    BY <1>1, Zenon DEF FreeAt
  <2>2. \A x : (\A c \in 1..x - 1 : \E i \in DOMAIN u.oldValues : u.oldValues[i].at = c)
               <=> \A c \in 1..x - 1 : ~ FreeAt(u, c)
    BY <1>1, Zenon DEF FreeAt
  <2> QED
    BY <2>1, <2>2, Zenon DEF FreeAddress
<1>11. Fits(FreeAddress(u)) /\ FreeAddress(u) \in 1..L + 1
  <2>1. \E x \in 1..L + 1 : Fits(x)
    BY <1>7, <1>8, <1>9
  <2> HIDE DEF Fits
  <2> QED
    BY <1>10, <2>1, Zenon
<1> QED
  BY <1>1, <1>11

(* modify: the key and the value are written one after the other.          *)
WrittenNode(node, id, key, val, mtime) ==
  [i \in DOMAIN node |-> IF i = id THEN [key |-> key, val |-> val, mtime |-> mtime] ELSE node[i]]

IsWritten(node, id, key, val, mtime) ==
  [[node EXCEPT ![id].key = key] EXCEPT ![id].val = val] = WrittenNode(node, id, key, val, mtime)

LEMMA RowWritten ==
  ASSUME NEW node, node \in [DOMAIN node -> Row], NEW id \in DOMAIN node, NEW key, NEW val,
         NEW mtime, node[id].mtime = mtime
  PROVE  IsWritten(node, id, key, val, mtime)
<1> DEFINE r == node[id]
           r1 == [r EXCEPT !.key = key]
           r2 == [r1 EXCEPT !.val = val]
           n1 == [node EXCEPT ![id] = r1]
           n2 == [n1 EXCEPT ![id] = r2]
<1>1. r \in Row /\ r.mtime = mtime
  OBVIOUS
<1>2. [node EXCEPT ![id].key = key] = n1
  OBVIOUS
<1> HIDE DEF r, r1
<1>3. n1[id] = r1 /\ DOMAIN n1 = DOMAIN node
  OBVIOUS
<1> HIDE DEF n1
<1>4. [n1 EXCEPT ![id].val = val] = n2
  BY <1>3 DEF r2
<1>5. r1 = [key |-> key, val |-> r.val, mtime |-> r.mtime]
  BY <1>1 DEF r1, Row
<1>6. r2 = [key |-> key, val |-> val, mtime |-> mtime]
  BY <1>1, <1>5 DEF r2
<1> HIDE DEF r2
<1>7. n2 = [i \in DOMAIN node |-> IF i = id THEN r2 ELSE node[i]]
  BY <1>3 DEF n1
<1> QED
  BY <1>2, <1>4, <1>6, <1>7, Zenon DEF IsWritten, WrittenNode

LEMMA NodeWritten ==
  ASSUME NEW u, NEW node, NEW rows, NEW oldValues, NEW removedValues, NEW undoStack,
         NEW nextId, NEW revision, NEW monotonic,
         FieldsOf(u, node, rows, oldValues, removedValues, undoStack, nextId, revision, monotonic),
         node \in [DOMAIN node -> Row], NEW id \in DOMAIN node, NEW key, NEW val, NEW mtime,
         node[id].mtime = mtime
  PROVE  FieldsOf([u EXCEPT !.node[id].key = key, !.node[id].val = val],
                  WrittenNode(node, id, key, val, mtime), rows, oldValues,
                  removedValues, undoStack, nextId, revision, monotonic)
<1> DEFINE n1 == [node EXCEPT ![id].key = key]
           n2 == [n1 EXCEPT ![id].val = val]
           w1 == [u EXCEPT !.node = n1]
           w2 == [w1 EXCEPT !.node = n2]
           N == WrittenNode(node, id, key, val, mtime)
<1>1. u.node = node
  BY DEF FieldsOf
<1>2. [u EXCEPT !.node[id].key = key] = w1
  BY <1>1, Zenon
<1>3. IsWritten(node, id, key, val, mtime)
  BY RowWritten, Zenon
<1>4. n2 = N
  BY <1>3, Zenon DEF IsWritten
<1> HIDE DEF n1
<1>5. FieldsOf(w1, n1, rows, oldValues, removedValues, undoStack, nextId, revision, monotonic)
  BY OneField, Zenon
<1> HIDE DEF w1
<1>6. w1.node = n1
  BY <1>5 DEF FieldsOf
<1>7. [w1 EXCEPT !.node[id].val = val] = w2
  BY <1>6, Zenon
<1>8. [u EXCEPT !.node[id].key = key, !.node[id].val = val] = w2
  BY <1>2, <1>7, Zenon
<1> HIDE DEF n2, N
<1>9. FieldsOf(w2, n2, rows, oldValues, removedValues, undoStack, nextId, revision, monotonic)
  BY <1>5, OneField, Zenon
<1> HIDE DEF w2
<1> QED
  BY <1>4, <1>8, <1>9, Zenon DEF N

ModifiedIs(u, v, id, key, val, mtime, oldValues) ==
  FieldsOf(v, WrittenNode(u.node, id, key, val, mtime), u.rows, oldValues, u.removedValues,
           u.undoStack, u.nextId, u.revision, u.monotonic)

IsModified(u, v, id, key, val) ==
  /\ Good(v) /\ UndoOf(v) = UndoOf(u)
  /\ v.rows = u.rows /\ v.nextId = u.nextId /\ v.revision = u.revision
  /\ v.node[id].key = key /\ v.node[id].val = val
  /\ \A i \in v.rows \ {id} : v.node[i] = u.node[i]

ModifiedFields(u, v, id, key, val, mtime, oldValues) ==
  /\ v.rows = u.rows /\ v.oldValues = oldValues /\ v.removedValues = u.removedValues
  /\ v.undoStack = u.undoStack /\ v.nextId = u.nextId /\ v.revision = u.revision
  /\ v.monotonic = u.monotonic
  /\ DOMAIN v.node = DOMAIN u.node
  /\ v.node[id] = [key |-> key, val |-> val, mtime |-> mtime]
  /\ \A i \in DOMAIN u.node : i = id \/ v.node[i] = u.node[i]
  /\ IndexType(v) /\ Accounted(v)

LEMMA ModifiedTyped ==
  ASSUME NEW u, IndexType(u), Accounted(u), NEW id \in u.rows, NEW key \in Key, NEW val \in Val,
         NEW mtime \in Nat, NEW oldValues \in Seq(Copy), NEW v,
         ModifiedIs(u, v, id, key, val, mtime, oldValues)
  PROVE  ModifiedFields(u, v, id, key, val, mtime, oldValues)
<1> DEFINE N == WrittenNode(u.node, id, key, val, mtime)
<1>1. /\ v.node = N /\ v.rows = u.rows /\ v.oldValues = oldValues
      /\ v.removedValues = u.removedValues /\ v.undoStack = u.undoStack /\ v.nextId = u.nextId
      /\ v.revision = u.revision /\ v.monotonic = u.monotonic
      /\ v = [node |-> v.node, rows |-> v.rows, oldValues |-> v.oldValues,
              removedValues |-> v.removedValues, undoStack |-> v.undoStack,
              nextId |-> v.nextId, revision |-> v.revision, monotonic |-> v.monotonic]
  <2>1. HasFields(v, N, u.rows, oldValues, u.removedValues, u.undoStack, u.nextId,
                  u.revision, u.monotonic)
    BY FieldsAre, Zenon DEF ModifiedIs
  <2> QED
    BY <2>1, Zenon DEF HasFields
<1>2. DOMAIN u.node \subseteq Nat /\ u.node \in [DOMAIN u.node -> Row] /\ id \in DOMAIN u.node
  BY DEF IndexType
<1>3. DOMAIN N = DOMAIN u.node /\ N[id] = [key |-> key, val |-> val, mtime |-> mtime]
  BY <1>2, Zenon DEF WrittenNode
<1>4. \A i \in DOMAIN u.node : i = id \/ N[i] = u.node[i]
  BY <1>2, Zenon DEF WrittenNode
<1>5. N \in [DOMAIN N -> Row]
  <2>1. N[id] \in Row
    BY <1>3 DEF Row
  <2>2. \A i \in DOMAIN N : N[i] \in Row
    BY <1>2, <1>3, <1>4, <2>1
  <2>3. N = [i \in DOMAIN N |-> N[i]]
    BY <1>3 DEF WrittenNode
  <2> HIDE DEF N
  <2> QED
    BY <2>2, <2>3
<1> HIDE DEF N
<1>6. IndexType(v)
  BY <1>1, <1>3, <1>5, Zenon DEF IndexType
<1>7. Accounted(v)
  BY <1>1, <1>3, Zenon DEF Accounted
<1> QED
  BY <1>1, <1>3, <1>4, <1>6, <1>7, Zenon DEF ModifiedFields

(* on_modify without a copy: the newest session made the node or has one.  *)
LEMMA ModifiedInPlace ==
  ASSUME NEW u, Good(u), NEW id \in u.rows, NEW key \in Key, NEW val \in Val, NEW v,
         u.undoStack = <<>> \/ u.node[id].mtime >= Last(u.undoStack).ctime,
         ModifiedIs(u, v, id, key, val, u.node[id].mtime, u.oldValues)
  PROVE  IsModified(u, v, id, key, val)
<1> DEFINE n == Len(u.undoStack)
           mtime == u.node[id].mtime
<1>1. IndexType(u) /\ Distinct(u) /\ Accounted(u) /\ Times(u)
  BY Zenon DEF Good
<1>2. /\ u.node \in [DOMAIN u.node -> Row] /\ id \in DOMAIN u.node /\ u.oldValues \in Seq(Copy)
      /\ u.undoStack \in Seq(Session) /\ n \in Nat
  BY <1>1 DEF IndexType
<1>3. u.node[id] \in Row
  BY <1>2
<1>4. mtime \in Nat
  BY <1>3 DEF Row
<1>5. ModifiedFields(u, v, id, key, val, mtime, u.oldValues)
  BY <1>1, <1>2, <1>4, ModifiedTyped, Zenon
<1>6. /\ v.rows = u.rows /\ v.oldValues = u.oldValues /\ v.removedValues = u.removedValues
      /\ v.undoStack = u.undoStack /\ v.nextId = u.nextId /\ v.revision = u.revision
      /\ v.monotonic = u.monotonic /\ IndexType(v) /\ Accounted(v)
      /\ DOMAIN v.node = DOMAIN u.node
      /\ v.node[id] = [key |-> key, val |-> val, mtime |-> mtime]
      /\ \A i \in DOMAIN u.node : i = id \/ v.node[i] = u.node[i]
  BY <1>5, Zenon DEF ModifiedFields
<1>7. v.node[id].key = key /\ v.node[id].val = val /\ v.node[id].mtime = mtime
  BY <1>6
<1>8. \A i \in DOMAIN v.node : v.node[i].mtime = u.node[i].mtime
  BY <1>6, <1>7, Zenon
<1>9. Distinct(v)
  BY <1>1, <1>6, Zenon DEF Distinct
<1>10. Times(v)
  BY <1>1, <1>6, <1>8, Zenon DEF Times
<1>11. ASSUME NEW k \in 1..n
       PROVE  Shifted(u, v, u.undoStack[k], 0, 0)
  <2> DEFINE s == u.undoStack[k]
             t == u.undoStack[n]
  <2>1. Kept(u, s)
    BY Zenon DEF Good
  <2>2. mtime >= s.ctime
    <3>1. u.undoStack # <<>> /\ n \in 1..n
      BY <1>2
    <3>2. Last(u.undoStack) = t /\ t \in Session /\ s \in Session
      BY <1>2, <3>1, LastSession
    <3>3. mtime >= t.ctime
      BY <3>1, <3>2
    <3>4. s = t \/ Older(u, s, t)
      <4>1. k = n \/ k < n
        BY <1>2
      <4>2. k < n => Older(u, s, t)
        BY <3>1, Zenon DEF Good
      <4> QED
        BY <4>1, <4>2
    <3> HIDE DEF s, t, mtime
    <3> QED
      BY <1>4, <3>2, <3>3, <3>4 DEF Older, Session
  <2> HIDE DEF s
  <2>3. OldKept(u, s) /\ Marked(u, s)
    BY <2>1, Zenon DEF Kept
  <2>4. NodesKeep(u, v, s)
    BY <1>6, <1>8, <2>3, Zenon DEF NodesKeep, OldKept, OlderNodes, HasCopy
  <2>5. Kept(v, s)
    BY <1>6, <2>1, <2>4, SameListsKept, Zenon
  <2>6. OldEnd(v, s) = OldEnd(u, s) /\ (\A i : Copies(v, s, i) = Copies(u, s, i))
        /\ RemovedEnd(v, s) = RemovedEnd(u, s) /\ SameOld(u, v, s)
    <3>1. SameOld(u, v, s) /\ SameRemoved(u, v, s)
      BY <1>6, SameOldValues, SameRemovedValues, Zenon
    <3> QED
      BY <3>1, Zenon DEF SameOld, SameRemoved
  <2>7. \A i : WasRow(v, s, i) <=> WasRow(u, s, i)
    BY <1>6, <2>6, Zenon DEF WasRow, RemovedSince
  <2>8. ASSUME NEW i \in DOMAIN v.node, WasRow(v, s, i)
        PROVE  Restored(v, s, i) = Restored(u, s, i)
    <3>1. v.node[i] = u.node[i] \/ Copies(u, s, i) # {}
      <4>1. i = id => Copies(u, s, i) # {}
        BY <1>2, <2>2, <2>3, <2>8, Zenon DEF OldKept, HasCopy, WasRow
      <4> QED
        BY <1>6, <4>1, Zenon
    <3>2. SameRestored(u, v, s, i)
      BY <1>6, <2>6, <3>1, RestoredDepends, Zenon
    <3> QED
      BY <3>2, Zenon DEF SameRestored
  <2>9. OldEnd(u, s) + 0 = OldEnd(u, s) /\ RemovedEnd(u, s) + 0 = RemovedEnd(u, s)
    BY <1>1, <2>3 DEF Marked, MarkedOld, MarkedRemoved, IndexType
  <2>10. Shifted(u, v, s, 0, 0)
    BY <2>5, <2>6, <2>7, <2>8, <2>9, Zenon DEF Shifted, SameRows
  <2> QED
    BY <2>10 DEF s
<1>12. Good(v) /\ UndoOf(v) = UndoOf(u)
  BY <1>6, <1>9, <1>10, <1>11, SessionsKept
<1>13. \A i \in v.rows \ {id} : v.node[i] = u.node[i]
  BY <1>1, <1>6 DEF IndexType
<1> QED
  BY <1>6, <1>7, <1>12, <1>13, Zenon DEF IsModified

(* ... with a copy of the row before it, which comes first in the list.    *)
CopyOf(u, id) == [at |-> FreeAddress(u), current |-> id, row |-> u.node[id]]

IsCopied(u, v, id) ==
  /\ v.rows = u.rows /\ v.removedValues = u.removedValues
  /\ DOMAIN v.node = DOMAIN u.node /\ v.node[id].mtime = u.monotonic
  /\ \A i \in DOMAIN u.node : i = id \/ v.node[i] = u.node[i]
  /\ Prepended(u.oldValues, v.oldValues, CopyOf(u, id))
  /\ v.oldValues \in Seq(Copy) /\ Distinct(v)

CopiesShift(u, v, s, id) ==
  /\ OldEnd(u, s) \in 1..Len(u.oldValues) + 1
  /\ MarkedOld(v, s.oldEnd, OldEnd(u, s) + 1)
  /\ OldEnd(v, s) = OldEnd(u, s) + 1
  /\ \A i : \A q \in Copies(u, s, i) :
       q \in 1..Len(u.oldValues) /\ q + 1 \in Copies(v, s, i)
  /\ \A i : \A p \in Copies(v, s, i) :
       (p = 1 /\ i = id) \/ p - 1 \in Copies(u, s, i)
  /\ u.node[id].mtime < s.ctime => 1 \in Copies(v, s, id)

LEMMA CopiedMarks ==
  ASSUME NEW u, IndexType(u), NEW id \in u.rows, NEW v, IsCopied(u, v, id), NEW s, Marked(u, s)
  PROVE  CopiesShift(u, v, s, id)
<1> DEFINE L == Len(u.oldValues)
           op == OldEnd(u, s)
           m == u.node[id].mtime
<1>1. /\ L \in Nat /\ Len(v.oldValues) = L + 1 /\ v.oldValues[1] = CopyOf(u, id)
      /\ \A p \in 1..L : v.oldValues[p + 1] = u.oldValues[p]
      /\ \A p \in 1..L + 1 : p = 1 \/ (p - 1 \in 1..L /\ p = (p - 1) + 1
                                      /\ v.oldValues[p] = u.oldValues[p - 1])
  BY Zenon DEF IsCopied, Prepended
<1>2. /\ op \in 1..L + 1
      /\ s.oldEnd = NULL => op = L + 1
      /\ s.oldEnd # NULL => op \in 1..L /\ u.oldValues[op].at = s.oldEnd
  BY Zenon DEF Marked, MarkedOld
<1> HIDE DEF L, op
<1>3. MarkedOld(v, s.oldEnd, op + 1)
  <2>1. op + 1 \in 1..(L + 1) + 1 /\ (op = L + 1 => op + 1 = (L + 1) + 1)
    BY <1>1, <1>2
  <2>2. op \in 1..L => op + 1 \in 1..L + 1
    BY <1>1
  <2>3. op \in 1..L => v.oldValues[op + 1] = u.oldValues[op]
    BY <1>1, Zenon
  <2> QED
    BY <1>1, <1>2, <2>1, <2>2, <2>3, Zenon DEF MarkedOld
<1>4. OldEnd(v, s) = op + 1
  BY <1>3, OldPosIs, Zenon DEF OldEnd, IsCopied
<1>5. v.oldValues[1].current = id /\ v.oldValues[1].row.mtime = m
  BY <1>1 DEF CopyOf
<1> HIDE DEF m
<1>6. ASSUME NEW i, NEW q \in Copies(u, s, i)
      PROVE  q \in 1..L /\ q + 1 \in Copies(v, s, i)
  <2>1. q \in 1..op - 1 /\ u.oldValues[q].current = i /\ u.oldValues[q].row.mtime < s.ctime
    BY Zenon DEF Copies, op
  <2>2. q \in 1..L /\ q + 1 \in 1..(op + 1) - 1
    BY <1>1, <1>2, <2>1
  <2>3. v.oldValues[q + 1] = u.oldValues[q]
    BY <1>1, <2>2
  <2>4. q + 1 \in Copies(v, s, i)
    BY <1>4, <2>1, <2>2, <2>3, Zenon DEF Copies
  <2> QED
    BY <2>2, <2>4
<1>7. ASSUME NEW i, NEW p \in Copies(v, s, i)
      PROVE  (p = 1 /\ i = id) \/ p - 1 \in Copies(u, s, i)
  <2>1. p \in 1..(op + 1) - 1 /\ v.oldValues[p].current = i /\ v.oldValues[p].row.mtime < s.ctime
    BY <1>4, Zenon DEF Copies
  <2>2. p \in 1..L + 1
    BY <1>1, <1>2, <2>1
  <2>3. CASE p = 1
    BY <1>5, <2>1, <2>3
  <2>4. CASE p - 1 \in 1..L /\ v.oldValues[p] = u.oldValues[p - 1]
    <3>1. p - 1 \in 1..op - 1
      BY <1>1, <1>2, <2>1, <2>4
    <3>2. u.oldValues[p - 1].current = i /\ u.oldValues[p - 1].row.mtime < s.ctime
      BY <2>1, <2>4, Zenon
    <3>3. p - 1 \in Copies(u, s, i)
      BY <3>1, <3>2, Zenon DEF Copies, op
    <3> QED
      BY <3>3
  <2> QED
    BY <1>1, <2>2, <2>3, <2>4
<1>8. m < s.ctime => 1 \in Copies(v, s, id)
  <2>1. 1 \in 1..(op + 1) - 1
    BY <1>1, <1>2
  <2> QED
    BY <1>4, <1>5, <2>1, Zenon DEF Copies
<1> QED
  BY <1>2, <1>3, <1>4, <1>6, <1>7, <1>8, Zenon DEF CopiesShift, L, op, m

LEMMA CopiedKept ==
  ASSUME NEW u, Good(u), NEW id \in u.rows, NEW v, IsCopied(u, v, id),
         NEW s \in Session, s.ctime <= u.monotonic, Kept(u, s)
  PROVE  Kept(v, s)
<1> DEFINE L == Len(u.oldValues)
           op == OldEnd(u, s)
           m == u.node[id].mtime
<1>1. IndexType(u) /\ Marked(u, s) /\ OldKept(u, s) /\ ModifiedThenRemoved(u, s) /\ RemovedEarlier(u, s)
  BY Zenon DEF Kept, Good
<1>2. OlderNodes(u, s) /\ OlderCopies(u, s) /\ HasCopy(u, s) /\ HasOlderCopy(u, s)
  BY <1>1, Zenon DEF OldKept
<1>3. /\ op \in 1..L + 1 /\ MarkedOld(v, s.oldEnd, op + 1) /\ OldEnd(v, s) = op + 1
      /\ \A i : \A q \in Copies(u, s, i) : q \in 1..L /\ q + 1 \in Copies(v, s, i)
      /\ m < s.ctime => 1 \in Copies(v, s, id)
  <2>1. CopiesShift(u, v, s, id)
    BY <1>1, CopiedMarks
  <2> QED
    BY <2>1, Zenon DEF CopiesShift
<1>4. /\ L \in Nat /\ Len(v.oldValues) = L + 1 /\ v.oldValues[1] = CopyOf(u, id)
      /\ \A p \in 1..L + 1 : p = 1 \/ (p - 1 \in 1..L /\ p = (p - 1) + 1
                                      /\ v.oldValues[p] = u.oldValues[p - 1])
  BY Zenon DEF IsCopied, Prepended
<1>5. v.oldValues[1].current = id /\ v.oldValues[1].row.mtime = m
  BY <1>4 DEF CopyOf
<1>6. /\ v.removedValues = u.removedValues /\ v.rows = u.rows
      /\ DOMAIN v.node = DOMAIN u.node /\ v.node[id].mtime = u.monotonic
      /\ \A i \in DOMAIN u.node : i = id \/ v.node[i] = u.node[i]
  BY Zenon DEF IsCopied
<1>7. id \in DOMAIN u.node /\ m \in Nat /\ u.monotonic \in Nat /\ s.ctime \in Nat /\ s.oldNextId \in Nat
  <2>1. u.node \in [DOMAIN u.node -> Row] /\ id \in DOMAIN u.node /\ u.monotonic \in Nat
    BY <1>1 DEF IndexType
  <2>2. u.node[id] \in Row
    BY <2>1
  <2> QED
    BY <2>1, <2>2 DEF Row, Session
<1>8. RemovedEnd(v, s) = RemovedEnd(u, s)
  <2>1. SameRemoved(u, v, s)
    BY <1>6, SameRemovedValues, Zenon
  <2> QED
    BY <2>1, Zenon DEF SameRemoved
<1>9. \A p \in 1..OldEnd(v, s) - 1 :
        p = 1 \/ (/\ p - 1 \in 1..op - 1 /\ p - 1 \in 1..L /\ p = (p - 1) + 1
                  /\ v.oldValues[p] = u.oldValues[p - 1])
  <2> SUFFICES ASSUME NEW p \in 1..OldEnd(v, s) - 1, p # 1
               PROVE  /\ p - 1 \in 1..op - 1 /\ p - 1 \in 1..L /\ p = (p - 1) + 1
                      /\ v.oldValues[p] = u.oldValues[p - 1]
    OBVIOUS
  <2> HIDE DEF op, L
  <2>1. p \in 1..op /\ p \in 1..L + 1
    BY <1>3, <1>4
  <2>2. p - 1 \in 1..L /\ p = (p - 1) + 1 /\ v.oldValues[p] = u.oldValues[p - 1]
    BY <1>4, <2>1
  <2>3. p - 1 \in 1..op - 1
    BY <1>3, <1>4, <2>1
  <2> QED
    BY <2>2, <2>3
<1> HIDE DEF L, op, m
<1>10. Marked(v, s)
  BY <1>1, <1>3, <1>6, <1>8, Zenon DEF Marked, MarkedRemoved
<1>11. OlderNodes(v, s)
  <2>1. ~ (v.node[id].mtime < s.ctime)
    BY <1>6, <1>7
  <2> QED
    BY <1>2, <1>6, <2>1, Zenon DEF OlderNodes
<1>12. OlderCopies(v, s)
  <2> SUFFICES ASSUME NEW p \in 1..OldEnd(v, s) - 1, v.oldValues[p].row.mtime < s.ctime
               PROVE  v.oldValues[p].current < s.oldNextId /\ v.oldValues[p].current \in DOMAIN v.node
    BY Zenon DEF OlderCopies
  <2>1. CASE p = 1
    <3>1. m < s.ctime
      BY <1>5, <2>1, Zenon
    <3>2. id < s.oldNextId
      BY <1>2, <1>7, <3>1, Zenon DEF OlderNodes, m
    <3> QED
      BY <1>5, <1>6, <1>7, <2>1, <3>2, Zenon
  <2>2. CASE p - 1 \in 1..op - 1 /\ v.oldValues[p] = u.oldValues[p - 1]
    BY <1>2, <1>6, <2>2, Zenon DEF OlderCopies, op
  <2> QED
    BY <1>9, <2>1, <2>2
<1>13. HasCopy(v, s)
  <2> SUFFICES ASSUME NEW i \in DOMAIN v.node, i < s.oldNextId, v.node[i].mtime >= s.ctime
               PROVE  Copies(v, s, i) # {}
    BY Zenon DEF HasCopy
  <2>1. CASE i = id
    <3>1. m < s.ctime \/ m >= s.ctime
      BY <1>7
    <3>2. CASE m < s.ctime
      BY <1>3, <2>1, <3>2, Zenon
    <3>3. CASE m >= s.ctime
      <4>1. PICK q : q \in Copies(u, s, id)
        BY <1>2, <1>7, <2>1, <3>3, Zenon DEF HasCopy, m
      <4> QED
        BY <1>3, <2>1, <4>1
    <3> QED
      BY <3>1, <3>2, <3>3
  <2>2. CASE i # id
    <3>1. PICK q : q \in Copies(u, s, i)
      BY <1>2, <1>6, <2>2, Zenon DEF HasCopy
    <3> QED
      BY <1>3, <3>1
  <2> QED
    BY <2>1, <2>2
<1>14. HasOlderCopy(v, s)
  <2> SUFFICES ASSUME NEW p \in 1..OldEnd(v, s) - 1, v.oldValues[p].row.mtime >= s.ctime,
                      v.oldValues[p].current < s.oldNextId
               PROVE  \E q \in Copies(v, s, v.oldValues[p].current) : q > p
    BY Zenon DEF HasOlderCopy
  <2>1. CASE p = 1
    <3>1. m >= s.ctime /\ id < s.oldNextId /\ v.oldValues[p].current = id
      BY <1>5, <2>1, Zenon
    <3>2. PICK q : q \in Copies(u, s, id)
      BY <1>2, <1>7, <3>1, Zenon DEF HasCopy, m
    <3>3. q + 1 \in Copies(v, s, id) /\ q \in 1..L
      BY <1>3, <3>2
    <3>4. q + 1 > p
      BY <1>4, <2>1, <3>3
    <3> QED
      BY <3>1, <3>3, <3>4
  <2>2. CASE p - 1 \in 1..op - 1 /\ p - 1 \in 1..L /\ v.oldValues[p] = u.oldValues[p - 1]
    <3> DEFINE i == v.oldValues[p].current
    <3>1. u.oldValues[p - 1].row.mtime >= s.ctime /\ u.oldValues[p - 1].current < s.oldNextId
          /\ i = u.oldValues[p - 1].current
      BY <2>2, Zenon
    <3> HIDE DEF i
    <3>2. PICK q \in Copies(u, s, i) : q > p - 1
      BY <1>2, <2>2, <3>1, Zenon DEF HasOlderCopy, op
    <3>3. q + 1 \in Copies(v, s, i) /\ q \in 1..L
      BY <1>3, <3>2
    <3>4. q + 1 > p
      BY <1>4, <2>2, <3>2, <3>3
    <3> QED
      BY <3>3, <3>4 DEF i
  <2> QED
    BY <1>9, <2>1, <2>2
<1>15. ModifiedThenRemoved(v, s)
  <2> SUFFICES ASSUME NEW p \in 1..OldEnd(v, s) - 1, NEW q \in 1..Len(u.removedValues),
                      v.oldValues[p].current = u.removedValues[q]
               PROVE  q < RemovedEnd(u, s)
    BY <1>6, <1>8, Zenon DEF ModifiedThenRemoved
  <2>1. CASE p = 1
    <3>1. u.removedValues[q] = id
      BY <1>5, <2>1, Zenon
    <3> QED
      BY <3>1, NodesAre, Zenon DEF Removes
  <2>2. CASE p - 1 \in 1..op - 1 /\ v.oldValues[p] = u.oldValues[p - 1]
    BY <1>1, <2>2, Zenon DEF ModifiedThenRemoved, op
  <2> QED
    BY <1>9, <2>1, <2>2
<1>16. RemovedEarlier(v, s)
  BY <1>1, <1>6, <1>8, Zenon DEF RemovedEarlier
<1> QED
  BY <1>10, <1>11, <1>12, <1>13, <1>14, <1>15, <1>16, Zenon DEF Kept, OldKept

LEMMA CopiedRestored ==
  ASSUME NEW u, Good(u), NEW id \in u.rows, NEW v, IsCopied(u, v, id),
         NEW s \in Session, Kept(u, s), NEW i \in DOMAIN u.node, i < s.oldNextId
  PROVE  SameRestored(u, v, s, i)
<1> DEFINE L == Len(u.oldValues)
           m == u.node[id].mtime
<1>1. IndexType(u) /\ Marked(u, s) /\ HasCopy(u, s)
  BY Zenon DEF Kept, Good, OldKept
<1>2. /\ OldEnd(u, s) \in 1..L + 1 /\ OldEnd(v, s) = OldEnd(u, s) + 1
      /\ \A j : \A q \in Copies(u, s, j) : q \in 1..L /\ q + 1 \in Copies(v, s, j)
      /\ \A j : \A p \in Copies(v, s, j) : (p = 1 /\ j = id) \/ p - 1 \in Copies(u, s, j)
      /\ m < s.ctime => 1 \in Copies(v, s, id)
  <2>1. CopiesShift(u, v, s, id)
    BY <1>1, CopiedMarks
  <2> QED
    BY <2>1, Zenon DEF CopiesShift
<1>3. /\ L \in Nat /\ v.oldValues[1] = CopyOf(u, id)
      /\ \A p \in 1..L : v.oldValues[p + 1] = u.oldValues[p]
      /\ \A j \in DOMAIN u.node : j = id \/ v.node[j] = u.node[j]
  BY Zenon DEF IsCopied, Prepended
<1>4. m \in Nat /\ s.ctime \in Nat
  <2>1. u.node \in [DOMAIN u.node -> Row] /\ id \in DOMAIN u.node
    BY <1>1 DEF IndexType
  <2>2. u.node[id] \in Row
    BY <2>1
  <2> QED
    BY <2>2 DEF Row, Session
<1> HIDE DEF L, m
<1>5. CASE Copies(u, s, i) # {}
  <2>1. OldEnd(u, s) \in Nat \ {0}
    BY <1>2, <1>3
  <2>2. PICK q : LastCopy(u, s, i, q)
    BY <1>5, <2>1, HasLastCopy
  <2>3. q \in Copies(u, s, i) /\ q \in 1..L /\ q + 1 \in Copies(v, s, i)
    BY <1>2, <2>2 DEF LastCopy
  <2>4. ASSUME NEW p \in Copies(v, s, i)
        PROVE  p <= q + 1
    <3>1. CASE p = 1
      BY <1>3, <2>3, <3>1
    <3>2. CASE p - 1 \in Copies(u, s, i)
      <4>1. p - 1 <= q /\ p - 1 \in 1..L
        BY <1>2, <2>2, <3>2 DEF LastCopy
      <4>2. p \in Int
        BY DEF Copies
      <4> QED
        BY <1>3, <2>3, <4>1, <4>2
    <3> QED
      BY <1>2, <3>1, <3>2
  <2>5. LastCopy(v, s, i, q + 1)
    BY <2>3, <2>4, Zenon DEF LastCopy
  <2>6. Restored(v, s, i) = v.oldValues[q + 1].row /\ Restored(u, s, i) = u.oldValues[q].row
    BY <2>2, <2>5, RestoredCopy
  <2>7. Restored(v, s, i) = Restored(u, s, i)
    BY <1>3, <2>3, <2>6, Zenon
  <2> QED
    BY <2>7, Zenon DEF SameRestored
<1>6. CASE Copies(u, s, i) = {}
  <2>1. Restored(u, s, i) = u.node[i]
    BY <1>6, RestoredNode
  <2>2. CASE i = id
    <3>1. m < s.ctime
      <4>1. ~ (m >= s.ctime)
        BY <1>1, <1>6, <2>2, Zenon DEF HasCopy, m
      <4> QED
        BY <1>4, <4>1
    <3>2. LastCopy(v, s, i, 1)
      <4>1. \A p \in Copies(v, s, i) : p = 1
        BY <1>2, <1>6, Zenon
      <4>2. \A p \in Copies(v, s, i) : p <= 1
        BY <4>1
      <4> QED
        BY <1>2, <2>2, <3>1, <4>2, Zenon DEF LastCopy
    <3>3. Restored(v, s, i) = v.oldValues[1].row
      BY <3>2, RestoredCopy
    <3>4. v.oldValues[1].row = u.node[id]
      BY <1>3 DEF CopyOf
    <3>5. Restored(v, s, i) = Restored(u, s, i)
      BY <2>1, <2>2, <3>3, <3>4, Zenon
    <3> QED
      BY <3>5, Zenon DEF SameRestored
  <2>3. CASE i # id
    <3>1. Copies(v, s, i) = {}
      BY <1>2, <1>6, <2>3, Zenon
    <3>2. Restored(v, s, i) = v.node[i]
      BY <3>1, RestoredNode
    <3>3. Restored(v, s, i) = Restored(u, s, i)
      BY <1>3, <2>1, <2>3, <3>2, Zenon
    <3> QED
      BY <3>3, Zenon DEF SameRestored
  <2> QED
    BY <2>2, <2>3
<1> QED
  BY <1>5, <1>6

LEMMA CopiedSession ==
  ASSUME NEW u, Good(u), NEW id \in u.rows, NEW v, IsCopied(u, v, id),
         NEW s \in Session, s.ctime <= u.monotonic, Kept(u, s)
  PROVE  Shifted(u, v, s, 1, 0)
<1>1. IndexType(u) /\ Marked(u, s)
  BY Zenon DEF Kept, Good
<1>2. Kept(v, s)
  BY CopiedKept
<1>3. OldEnd(v, s) = OldEnd(u, s) + 1
  <2>1. CopiesShift(u, v, s, id)
    BY <1>1, CopiedMarks
  <2> QED
    BY <2>1, Zenon DEF CopiesShift
<1>4. v.removedValues = u.removedValues /\ v.rows = u.rows /\ DOMAIN v.node = DOMAIN u.node
  BY Zenon DEF IsCopied
<1>5. RemovedEnd(v, s) = RemovedEnd(u, s)
  <2>1. SameRemoved(u, v, s)
    BY <1>4, SameRemovedValues, Zenon
  <2> QED
    BY <2>1, Zenon DEF SameRemoved
<1>6. \A i : WasRow(v, s, i) <=> WasRow(u, s, i)
  BY <1>4, <1>5, Zenon DEF WasRow, RemovedSince
<1>7. ASSUME NEW i \in DOMAIN v.node, WasRow(v, s, i)
      PROVE  Restored(v, s, i) = Restored(u, s, i)
  <2>1. i \in DOMAIN u.node /\ i < s.oldNextId
    BY <1>4, <1>7, Zenon DEF WasRow
  <2>2. SameRestored(u, v, s, i)
    BY <2>1, CopiedRestored
  <2> QED
    BY <2>2, Zenon DEF SameRestored
<1>8. RemovedEnd(u, s) + 0 = RemovedEnd(u, s)
  BY <1>1 DEF IndexType, Marked, MarkedRemoved
<1> QED
  BY <1>2, <1>3, <1>5, <1>6, <1>7, <1>8, Zenon DEF Shifted, SameRows

LEMMA ModifiedWithCopy ==
  ASSUME NEW u, Good(u), NEW id \in u.rows, NEW key \in Key, NEW val \in Val, NEW v,
         ModifiedIs(u, v, id, key, val, u.monotonic, <<CopyOf(u, id)>> \o u.oldValues)
  PROVE  IsModified(u, v, id, key, val)
<1> DEFINE n == Len(u.undoStack)
           c == CopyOf(u, id)
           o == <<c>> \o u.oldValues
           L == Len(u.oldValues)
<1>1. IndexType(u) /\ Distinct(u) /\ Accounted(u) /\ Times(u)
  BY Zenon DEF Good
<1>2. /\ u.node \in [DOMAIN u.node -> Row] /\ id \in DOMAIN u.node /\ id \in Nat
      /\ u.oldValues \in Seq(Copy) /\ u.undoStack \in Seq(Session) /\ n \in Nat
      /\ u.monotonic \in Nat
  BY <1>1 DEF IndexType
<1>3. FreeAddress(u) \in Nat \ {0} /\ FreeAt(u, FreeAddress(u))
  BY <1>1, <1>2, AddressIsFree
<1>4. u.node[id] \in Row
  BY <1>2
<1>5. c \in Copy
  BY <1>2, <1>3, <1>4 DEF CopyOf, Copy
<1>6. c.at = FreeAddress(u) /\ c.row = u.node[id]
  BY DEF CopyOf
<1>7. \A p \in 1..L : u.oldValues[p].at # c.at
  BY <1>3, <1>6, Zenon DEF FreeAt
<1>8. c.row.mtime <= u.monotonic
  BY <1>1, <1>2, <1>6, Zenon DEF Times
<1> HIDE DEF c
<1>9. o \in Seq(Copy) /\ Prepended(u.oldValues, o, c)
  BY <1>2, <1>5, PrependedIs
<1>10. /\ L \in Nat /\ Len(o) = L + 1 /\ o[1] = c
       /\ \A p \in 1..Len(o) : p = 1 \/ (p - 1 \in 1..L /\ p = (p - 1) + 1
                                        /\ o[p] = u.oldValues[p - 1])
  <2>1. /\ L \in Nat /\ Len(o) = L + 1 /\ o[1] = c
        /\ \A p \in 1..L + 1 : p = 1 \/ (p - 1 \in 1..L /\ p = (p - 1) + 1
                                         /\ o[p] = u.oldValues[p - 1])
    BY <1>9, Zenon DEF Prepended
  <2> HIDE DEF o, L
  <2> QED
    BY <2>1
<1>11. ModifiedIs(u, v, id, key, val, u.monotonic, o)
  BY Zenon DEF c
<1> HIDE DEF o
<1>12. ModifiedFields(u, v, id, key, val, u.monotonic, o)
  BY <1>1, <1>2, <1>9, <1>11, ModifiedTyped, Zenon
<1>13. /\ v.rows = u.rows /\ v.oldValues = o /\ v.removedValues = u.removedValues
       /\ v.undoStack = u.undoStack /\ v.nextId = u.nextId /\ v.revision = u.revision
       /\ v.monotonic = u.monotonic /\ IndexType(v) /\ Accounted(v)
       /\ DOMAIN v.node = DOMAIN u.node
       /\ v.node[id] = [key |-> key, val |-> val, mtime |-> u.monotonic]
       /\ \A i \in DOMAIN u.node : i = id \/ v.node[i] = u.node[i]
  BY <1>12, Zenon DEF ModifiedFields
<1>14. v.node[id].key = key /\ v.node[id].val = val /\ v.node[id].mtime = u.monotonic
  BY <1>13
<1>15. Distinct(v)
  <2>1. \A p, q \in 1..Len(u.removedValues) : u.removedValues[p] = u.removedValues[q] => p = q
    BY <1>1, Zenon DEF Distinct
  <2>2. \A p, q \in 1..L : u.oldValues[p].at = u.oldValues[q].at => p = q
    BY <1>1, Zenon DEF Distinct
  <2> HIDE DEF L
  <2>3. ASSUME NEW p \in 1..Len(o), NEW q \in 1..Len(o), o[p].at = o[q].at
        PROVE  p = q
    <3>1. CASE p = 1 /\ q = 1
      BY <3>1
    <3>2. CASE p = 1 /\ q # 1
      BY <1>7, <1>10, <2>3, <3>2
    <3>3. CASE p # 1 /\ q = 1
      BY <1>7, <1>10, <2>3, <3>3
    <3>4. CASE p # 1 /\ q # 1
      <4>1. p - 1 = q - 1
        BY <1>10, <2>2, <2>3, <3>4
      <4> QED
        BY <1>10, <4>1
    <3> QED
      BY <3>1, <3>2, <3>3, <3>4
  <2> QED
    BY <1>13, <2>1, <2>3 DEF Distinct
<1>16. Times(v)
  <2>1. \A i \in DOMAIN v.node : v.node[i].mtime <= v.monotonic
    <3> SUFFICES ASSUME NEW i \in DOMAIN v.node
                 PROVE  v.node[i].mtime <= u.monotonic
      BY <1>13, Zenon
    <3>1. CASE i = id
      BY <1>2, <1>14, <3>1
    <3>2. CASE i # id
      BY <1>1, <1>13, <3>2, Zenon DEF Times
    <3> QED
      BY <3>1, <3>2
  <2>2. \A p \in 1..L : u.oldValues[p].row.mtime <= u.monotonic
    BY <1>1, Zenon DEF Times
  <2>3. \A p \in 1..Len(o) : o[p].row.mtime <= u.monotonic
    BY <1>8, <1>10, <2>2, Zenon
  <2> QED
    BY <1>1, <1>13, <2>1, <2>3, Zenon DEF Times
<1>17. IsCopied(u, v, id)
  BY <1>9, <1>13, <1>14, <1>15, Zenon DEF IsCopied, c
<1>18. ASSUME NEW k \in 1..n
       PROVE  Shifted(u, v, u.undoStack[k], 1, 0)
  <2> DEFINE s == u.undoStack[k]
  <2>1. Kept(u, s) /\ s.ctime <= u.monotonic
    BY <1>1, Zenon DEF Good, Times
  <2>2. s \in Session
    BY <1>2
  <2> HIDE DEF s
  <2>3. Shifted(u, v, s, 1, 0)
    BY <1>17, <2>1, <2>2, CopiedSession
  <2> QED
    BY <2>3 DEF s
<1>19. Good(v) /\ UndoOf(v) = UndoOf(u)
  BY <1>13, <1>15, <1>16, <1>18, SessionsKept
<1>20. \A i \in v.rows \ {id} : v.node[i] = u.node[i]
  BY <1>1, <1>13 DEF IndexType
<1> QED
  BY <1>13, <1>14, <1>19, <1>20, Zenon DEF IsModified

LEMMA ModifiedGood ==
  ASSUME NEW u, Good(u), NEW id \in u.rows, NEW key \in Key, NEW val \in Val
  PROVE  IsModified(u, Modified(u, id, key, val), id, key, val)
<1> DEFINE w == BackedUp(u, id)
           v == Modified(u, id, key, val)
           node == u.node
<1>1. IndexType(u)
  BY Zenon DEF Good
<1>2. /\ node \in [DOMAIN node -> Row] /\ id \in DOMAIN node /\ u.monotonic \in Nat
      /\ u.undoStack \in Seq(Session)
  BY <1>1 DEF IndexType
<1>3. node[id] \in Row
  BY <1>2
<1>4. v = [w EXCEPT !.node[id].key = key, !.node[id].val = val]
  BY Zenon DEF Modified
<1>5. FieldsOf(u, node, u.rows, u.oldValues, u.removedValues, u.undoStack, u.nextId,
               u.revision, u.monotonic)
  BY <1>1, OwnFields, Zenon
<1> HIDE DEF v
<1>6. CASE u.undoStack = <<>> \/ u.node[id].mtime >= Last(u.undoStack).ctime
  <2> DEFINE mtime == node[id].mtime
  <2>1. w = u
    BY <1>6, Zenon DEF BackedUp
  <2>2. mtime = node[id].mtime
    OBVIOUS
  <2> HIDE DEF w, mtime
  <2>3. FieldsOf(w, node, u.rows, u.oldValues, u.removedValues, u.undoStack, u.nextId,
                 u.revision, u.monotonic)
    BY <1>5, <2>1, Zenon
  <2> HIDE DEF node
  <2>4. FieldsOf(v, WrittenNode(node, id, key, val, mtime), u.rows, u.oldValues,
                 u.removedValues, u.undoStack, u.nextId, u.revision, u.monotonic)
    BY <1>2, <1>4, <2>2, <2>3, NodeWritten, Zenon
  <2>5. ModifiedIs(u, v, id, key, val, u.node[id].mtime, u.oldValues)
    BY <2>2, <2>4, Zenon DEF ModifiedIs, node
  <2>6. IsModified(u, v, id, key, val)
    BY <1>6, <2>5, ModifiedInPlace
  <2> QED
    BY <2>6 DEF v
<1>7. CASE ~ (u.undoStack = <<>> \/ u.node[id].mtime >= Last(u.undoStack).ctime)
  <2> DEFINE o == <<CopyOf(u, id)>> \o u.oldValues
             time == u.monotonic
             w1 == [u EXCEPT !.oldValues = o]
             r == [node[id] EXCEPT !.mtime = time]
             n2 == [node EXCEPT ![id] = r]
             w2 == [w1 EXCEPT !.node = n2]
  <2>1. w = [u EXCEPT !.oldValues = <<[at |-> FreeAddress(u), current |-> id,
                                       row |-> u.node[id]]>> \o @,
                      !.node[id].mtime = u.monotonic]
    BY <1>7, Zenon DEF BackedUp
  <2>2. w = [w1 EXCEPT !.node[id].mtime = time]
    BY <2>1, Zenon DEF CopyOf
  <2> HIDE DEF w, o
  <2>3. FieldsOf(w1, node, u.rows, o, u.removedValues, u.undoStack, u.nextId, u.revision, u.monotonic)
    BY <1>5, OneField, Zenon
  <2> HIDE DEF w1
  <2>4. w1.node = node
    BY <2>3 DEF FieldsOf
  <2>5. w = w2
    BY <2>2, <2>4, Zenon
  <2>6. r \in Row /\ r.mtime = time
    BY <1>2, <1>3 DEF Row
  <2> HIDE DEF r
  <2>7. DOMAIN n2 = DOMAIN node /\ n2[id] = r /\ n2 \in [DOMAIN n2 -> Row]
    BY <1>2, <2>6
  <2>8. n2[id].mtime = time /\ id \in DOMAIN n2
    BY <1>2, <2>6, <2>7
  <2>9. WrittenNode(n2, id, key, val, time) = WrittenNode(node, id, key, val, time)
    <3>1. \A i \in DOMAIN node : i # id => n2[i] = node[i]
      OBVIOUS
    <3> HIDE DEF n2
    <3> QED
      BY <2>7, <3>1 DEF WrittenNode
  <2> HIDE DEF n2
  <2>10. FieldsOf(w2, n2, u.rows, o, u.removedValues, u.undoStack, u.nextId, u.revision, u.monotonic)
    BY <2>3, OneField, Zenon
  <2> HIDE DEF w2
  <2>11. FieldsOf(w, n2, u.rows, o, u.removedValues, u.undoStack, u.nextId, u.revision, u.monotonic)
    BY <2>5, <2>10, Zenon
  <2>12. FieldsOf(v, WrittenNode(n2, id, key, val, time), u.rows, o,
                  u.removedValues, u.undoStack, u.nextId, u.revision, u.monotonic)
    <3>1. n2 \in [DOMAIN n2 -> Row] /\ id \in DOMAIN n2 /\ n2[id].mtime = time
      BY <2>7, <2>8
    <3> HIDE DEF time
    <3> QED
      BY <1>4, <2>11, <3>1, NodeWritten, Zenon
  <2>13. ModifiedIs(u, v, id, key, val, u.monotonic, <<CopyOf(u, id)>> \o u.oldValues)
    BY <2>9, <2>12, Zenon DEF ModifiedIs, o
  <2>14. IsModified(u, v, id, key, val)
    BY <2>13, ModifiedWithCopy
  <2> QED
    BY <2>14 DEF v
<1> QED
  BY <1>6, <1>7

(* What the index shows, and what the promise makes of it.                 *)
RowOf(u, i) == [key |-> u.node[i].key, val |-> u.node[i].val]

LEMMA ShownTable ==
  ASSUME NEW u
  PROVE  /\ View(u) = [table |-> View(u).table, undo |-> UndoOf(u), revision |-> u.revision]
         /\ View(u).table = [rows |-> View(u).table.rows, next |-> u.nextId]
         /\ View(u).table = Table(u.node, u.rows, u.nextId)
         /\ View(u).undo = UndoOf(u) /\ View(u).revision = u.revision
         /\ View(u).table.next = u.nextId
         /\ DOMAIN View(u).table.rows = u.rows
         /\ \A i \in u.rows : View(u).table.rows[i] = RowOf(u, i)
         /\ View(u).table.rows = [i \in u.rows |-> RowOf(u, i)]
<1> DEFINE t == Table(u.node, u.rows, u.nextId)
           r == [i \in u.rows |-> RowOf(u, i)]
           e == UndoOf(u)
           rev == u.revision
           next == u.nextId
           d == View(u)
<1>1. d = [table |-> t, undo |-> e, revision |-> rev]
  BY ViewIs, Zenon DEF Shows
<1>2. t = [rows |-> r, next |-> next]
  BY Zenon DEF Table, RowOf
<1>3. DOMAIN r = u.rows /\ \A i \in u.rows : r[i] = RowOf(u, i)
  BY Zenon
<1> HIDE DEF t, r, e, rev, next, d
<1>4. d.table = t /\ d.undo = e /\ d.revision = rev /\ t.rows = r /\ t.next = next
  BY <1>1, <1>2
<1>5. d = [table |-> d.table, undo |-> e, revision |-> rev]
  BY <1>1, <1>4
<1>6. d.table = [rows |-> d.table.rows, next |-> next]
  BY <1>2, <1>4
<1> QED
  BY <1>3, <1>4, <1>5, <1>6, Zenon DEF t, r, e, rev, next, d

(* A row under an id, new or not.                                          *)
IsPut(u, v, id, key, val) ==
  View(v).table.rows = [i \in DOMAIN View(u).table.rows \cup {id} |->
                          IF i = id THEN [key |-> key, val |-> val] ELSE View(u).table.rows[i]]

LEMMA RowPut ==
  ASSUME NEW u, NEW v, NEW id, NEW key, NEW val, v.rows = u.rows \cup {id},
         v.node[id].key = key, v.node[id].val = val,
         \A i \in v.rows \ {id} : v.node[i] = u.node[i]
  PROVE  IsPut(u, v, id, key, val)
<1> DEFINE f == View(u).table.rows
           g == View(v).table.rows
           row == [key |-> key, val |-> val]
<1>1. DOMAIN f = u.rows /\ \A i \in u.rows : f[i] = RowOf(u, i)
  BY ShownTable, Zenon
<1>2. g = [i \in v.rows |-> RowOf(v, i)]
  BY ShownTable, Zenon
<1>3. RowOf(v, id) = row
  BY Zenon DEF RowOf
<1>4. ASSUME NEW i \in v.rows, i # id
      PROVE  RowOf(v, i) = f[i]
  <2>1. v.node[i] = u.node[i] /\ i \in u.rows
    BY <1>4
  <2> QED
    BY <1>1, <2>1, Zenon DEF RowOf
<1> HIDE DEF f, g, row
<1>5. g = [i \in DOMAIN f \cup {id} |-> IF i = id THEN row ELSE f[i]]
  BY <1>1, <1>2, <1>3, <1>4
<1> QED
  BY <1>5, Zenon DEF IsPut, f, g, row

ShowsFree(u, key, id) ==
  \A i \in DOMAIN View(u).table.rows \ {id} : View(u).table.rows[i].key # key

LEMMA FreeKey ==
  ASSUME NEW u, NEW key, NEW id, KeyFree(u, key, id)
  PROVE  ShowsFree(u, key, id)
<1> DEFINE f == View(u).table.rows
<1>1. DOMAIN f = u.rows /\ \A i \in u.rows : f[i] = RowOf(u, i)
  BY ShownTable, Zenon
<1> HIDE DEF f
<1>2. ASSUME NEW i \in u.rows
      PROVE  f[i].key = u.node[i].key
  <2>1. RowOf(u, i).key = u.node[i].key
    BY DEF RowOf
  <2> QED
    BY <1>1, <2>1, Zenon
<1>3. \A i \in u.rows \ {id} : u.node[i].key # key
  BY Zenon DEF KeyFree
<1>4. \A i \in DOMAIN f \ {id} : f[i].key # key
  BY <1>1, <1>2, <1>3
<1> QED
  BY <1>4, Zenon DEF ShowsFree, f

LEMMA EmplaceStep ==
  ASSUME Inv, NEW key \in Key, NEW val \in Val, emplace(key, val)
  PROVE  Inv' /\ Promise!Emplace(key, val)
<1> DEFINE u == index
           v == Emplaced(u, key, val)
           d == View(u)
           e == View(v)
           row == [key |-> key, val |-> val]
           put == [i \in DOMAIN d.table.rows \cup {u.nextId} |->
                     IF i = u.nextId THEN row ELSE d.table.rows[i]]
<1>1. index' = v /\ KeyFree(u, key, u.nextId) /\ Good(u)
  BY Zenon DEF emplace, Inv
<1>2. EmplacedIs(u, v, key, val) /\ Good(v) /\ UndoOf(v) = UndoOf(u)
  BY <1>1, EmplacedGood, Zenon
<1>3. /\ v.node = EmplacedNode(u, key, val) /\ v.rows = u.rows \cup {u.nextId}
      /\ v.nextId = u.nextId + 1 /\ v.revision = u.revision
  <2>1. HasFields(v, EmplacedNode(u, key, val), u.rows \cup {u.nextId}, u.oldValues,
                  u.removedValues, u.undoStack, u.nextId + 1, u.revision, u.monotonic)
    BY <1>2, FieldsAre, Zenon DEF EmplacedIs
  <2> QED
    BY <2>1, Zenon DEF HasFields
<1>4. /\ v.node[u.nextId].key = key /\ v.node[u.nextId].val = val
      /\ \A i \in v.rows \ {u.nextId} : v.node[i] = u.node[i]
  <2>1. v.node[u.nextId] = Born(u, key, val)
    BY <1>3, Zenon DEF EmplacedNode
  <2>2. Born(u, key, val).key = key /\ Born(u, key, val).val = val
    BY DEF Born
  <2>3. \A i \in u.rows : i \in DOMAIN u.node
    BY <1>1 DEF Good, IndexType
  <2> QED
    BY <1>3, <2>1, <2>2, <2>3 DEF EmplacedNode
<1> HIDE DEF v
<1>5. e.table.rows = put
  <2>1. IsPut(u, v, u.nextId, key, val)
    BY <1>3, <1>4, RowPut, Zenon
  <2> QED
    BY <2>1, Zenon DEF IsPut
<1>6. e = [d EXCEPT !.table = [rows |-> put, next |-> u.nextId + 1]]
  <2>1. /\ e = [table |-> e.table, undo |-> UndoOf(v), revision |-> v.revision]
        /\ e.table = [rows |-> e.table.rows, next |-> v.nextId]
    BY ShownTable, Zenon
  <2>2. d = [table |-> d.table, undo |-> UndoOf(u), revision |-> u.revision]
    BY ShownTable, Zenon
  <2> HIDE DEF d, e, put
  <2> QED
    BY <1>2, <1>3, <1>5, <2>1, <2>2
<1>7. Promise!KeyFree(key, u.nextId)
  <2>1. ShowsFree(u, key, u.nextId)
    BY <1>1, FreeKey, Zenon
  <2> QED
    BY <2>1, Zenon DEF ShowsFree, Promise!KeyFree, Promise!rows
<1>8. d.table.next = u.nextId
  BY ShownTable, Zenon
<1>9. View(index)' = e
  BY <1>1
<1>10. Promise!Emplace(key, val)
  BY <1>6, <1>7, <1>8, <1>9, Zenon DEF Promise!Emplace, Promise!With, Promise!next, Promise!rows
<1>11. Inv'
  BY <1>1, <1>2 DEF Inv
<1> QED
  BY <1>10, <1>11

LEMMA ModifyStep ==
  ASSUME Inv, NEW id \in index.rows, NEW key \in Key, NEW val \in Val, modify(id, key, val)
  PROVE  Inv' /\ Promise!Modify(id, key, val)
<1> DEFINE u == index
           v == Modified(u, id, key, val)
           d == View(u)
           e == View(v)
           put == [i \in DOMAIN d.table.rows \cup {id} |->
                     IF i = id THEN [key |-> key, val |-> val] ELSE d.table.rows[i]]
<1>1. index' = v /\ KeyFree(u, key, id) /\ Good(u)
  BY Zenon DEF modify, Inv
<1>2. IsModified(u, v, id, key, val)
  BY <1>1, ModifiedGood, Zenon
<1>3. /\ Good(v) /\ UndoOf(v) = UndoOf(u)
      /\ v.rows = u.rows /\ v.nextId = u.nextId /\ v.revision = u.revision
      /\ v.node[id].key = key /\ v.node[id].val = val
      /\ \A i \in v.rows \ {id} : v.node[i] = u.node[i]
  BY <1>2, Zenon DEF IsModified
<1> HIDE DEF v
<1>4. e.table.rows = put
  <2>1. v.rows = u.rows \cup {id}
    BY <1>3
  <2>2. IsPut(u, v, id, key, val)
    BY <1>3, <2>1, RowPut, Zenon
  <2> QED
    BY <2>2, Zenon DEF IsPut
<1>5. e = [d EXCEPT !.table.rows = put]
  <2>1. /\ e = [table |-> e.table, undo |-> UndoOf(v), revision |-> v.revision]
        /\ e.table = [rows |-> e.table.rows, next |-> v.nextId]
    BY ShownTable, Zenon
  <2>2. /\ d = [table |-> d.table, undo |-> UndoOf(u), revision |-> u.revision]
        /\ d.table = [rows |-> d.table.rows, next |-> u.nextId]
    BY ShownTable, Zenon
  <2> HIDE DEF d, e, put
  <2> DEFINE t == d.table
             r == d.table.rows
             x == [t EXCEPT !.rows = put]
  <2>3. x = [rows |-> put, next |-> u.nextId]
    <3> HIDE DEF t
    <3>1. t = [rows |-> r, next |-> u.nextId]
      BY <2>2, Zenon DEF t
    <3> HIDE DEF r
    <3> QED
      BY <3>1
  <2>4. e.table = x
    BY <1>3, <1>4, <2>1, <2>3, Zenon
  <2> HIDE DEF x
  <2>5. [d EXCEPT !.table = x] = [table |-> x, undo |-> UndoOf(u), revision |-> u.revision]
    BY <2>2
  <2>6. e = [table |-> x, undo |-> UndoOf(u), revision |-> u.revision]
    BY <1>3, <2>1, <2>4, Zenon
  <2> QED
    BY <2>5, <2>6, Zenon DEF x
<1>6. Promise!KeyFree(key, id)
  <2>1. ShowsFree(u, key, id)
    BY <1>1, FreeKey, Zenon
  <2> QED
    BY <2>1, Zenon DEF ShowsFree, Promise!KeyFree, Promise!rows
<1>7. View(index)' = e
  BY <1>1
<1>8. Promise!Modify(id, key, val)
  BY <1>5, <1>6, <1>7, Zenon DEF Promise!Modify, Promise!With, Promise!rows
<1>9. Inv'
  BY <1>1, <1>3 DEF Inv
<1> QED
  BY <1>8, <1>9

LEMMA RemoveStep ==
  ASSUME Inv, NEW id \in index.rows, remove(id)
  PROVE  Inv' /\ Promise!Remove(id)
<1> DEFINE u == index
           v == Removed(u, id)
           d == View(u)
           e == View(v)
           f == d.table.rows
           left == Restrict(f, DOMAIN f \ {id})
<1>1. index' = v /\ Good(u)
  BY Zenon DEF remove, Inv
<1>2. /\ Good(v) /\ UndoOf(v) = UndoOf(u)
      /\ v.rows = u.rows \ {id} /\ v.nextId = u.nextId /\ v.revision = u.revision
      /\ \A i \in v.rows : v.node[i] = u.node[i]
  BY <1>1, RemovedGood, Zenon
<1> HIDE DEF v
<1>3. e.table.rows = left
  <2> DEFINE g == e.table.rows
  <2>1. g = [i \in v.rows |-> RowOf(v, i)]
    BY ShownTable, Zenon
  <2>2. DOMAIN f = u.rows /\ \A i \in u.rows : f[i] = RowOf(u, i)
    BY ShownTable, Zenon
  <2> HIDE DEF d, e, f, g
  <2>3. ASSUME NEW i \in v.rows
        PROVE  RowOf(v, i) = f[i]
    <3>1. v.node[i] = u.node[i] /\ i \in u.rows
      BY <1>2
    <3> QED
      BY <2>2, <3>1, Zenon DEF RowOf
  <2>4. g = [i \in DOMAIN f \ {id} |-> f[i]]
    BY <1>2, <2>1, <2>2, <2>3
  <2>5. g = left
    BY <2>4, Zenon DEF Restrict
  <2> QED
    BY <2>5 DEF g
<1>4. e = [d EXCEPT !.table.rows = left]
  <2>1. /\ e = [table |-> e.table, undo |-> UndoOf(v), revision |-> v.revision]
        /\ e.table = [rows |-> e.table.rows, next |-> v.nextId]
    BY ShownTable, Zenon
  <2>2. /\ d = [table |-> d.table, undo |-> UndoOf(u), revision |-> u.revision]
        /\ d.table = [rows |-> d.table.rows, next |-> u.nextId]
    BY ShownTable, Zenon
  <2> HIDE DEF d, e, f, left
  <2> DEFINE t == d.table
             r == d.table.rows
             x == [t EXCEPT !.rows = left]
  <2>3. x = [rows |-> left, next |-> u.nextId]
    <3> HIDE DEF t
    <3>1. t = [rows |-> r, next |-> u.nextId]
      BY <2>2, Zenon DEF t
    <3> HIDE DEF r
    <3> QED
      BY <3>1
  <2>4. e.table = x
    BY <1>2, <1>3, <2>1, <2>3, Zenon
  <2> HIDE DEF x
  <2>5. [d EXCEPT !.table = x] = [table |-> x, undo |-> UndoOf(u), revision |-> u.revision]
    BY <2>2
  <2>6. e = [table |-> x, undo |-> UndoOf(u), revision |-> u.revision]
    BY <1>2, <2>1, <2>4, Zenon
  <2> QED
    BY <2>5, <2>6, Zenon DEF x
<1>5. View(index)' = e
  BY <1>1
<1>6. Promise!Remove(id)
  BY <1>4, <1>5, Zenon DEF Promise!Remove, Promise!Restrict, Restrict
<1>7. Inv'
  BY <1>1, <1>2 DEF Inv
<1> QED
  BY <1>6, <1>7

(* The other steps change the open sessions, or nothing that shows.        *)
LEMMA StartStep ==
  ASSUME Inv, start_undo_session
  PROVE  Inv' /\ View(index)' = Promise!StartSession(View(index))
<1> DEFINE u == index
           v == SessionAdded(u)
           d == View(u)
           e == View(v)
           table == Table(u.node, u.rows, u.nextId)
<1>1. index' = v /\ Good(u)
  BY Zenon DEF start_undo_session, Inv
<1>2. Good(v) /\ Shows(v, table, Append(UndoOf(u), table), u.revision + 1)
  BY <1>1, GrownGood, Zenon
<1> HIDE DEF v
<1>3. e = [table |-> table, undo |-> Append(UndoOf(u), table), revision |-> u.revision + 1]
  BY <1>2, Zenon DEF Shows
<1>4. d.table = table /\ d.undo = UndoOf(u) /\ d.revision = u.revision
  BY ShownTable, Zenon
<1> HIDE DEF d, e, table
<1>5. e = Promise!StartSession(d)
  BY <1>3, <1>4, Zenon DEF Promise!StartSession
<1>6. View(index)' = e
  BY <1>1 DEF e
<1>7. Inv'
  BY <1>1, <1>2 DEF Inv
<1> QED
  BY <1>5, <1>6, <1>7, Zenon DEF d

LEMMA UndoStep ==
  ASSUME Inv, undo
  PROVE  Inv' /\ View(index)' = Promise!UndoSessions(View(index), 1)
<1> DEFINE u == index
           v == Undone(u)
           d == View(u)
           e == View(v)
           n == Len(u.undoStack)
           before == UndoOf(u)
<1>1. index' = v /\ Good(u)
  BY Zenon DEF undo, Inv
<1>2. u.undoStack \in Seq(Session) /\ n \in Nat /\ u.revision \in Int
  BY <1>1 DEF Good, IndexType
<1>3. Len(before) = n /\ \A k \in 1..n : before[k] = Saved(u, u.undoStack[k])
  BY <1>2, UndoOfIs
<1>4. d.undo = before /\ d.revision = u.revision
  BY ShownTable, Zenon
<1>5. CASE u.undoStack = <<>>
  <2>1. v = u
    BY <1>5, Zenon DEF Undone
  <2>2. n = 0
    BY <1>5
  <2> HIDE DEF v, d, n, before
  <2>3. Promise!UndoSessions(d, 1) = d
    BY <1>3, <1>4, <2>2 DEF Promise!UndoSessions
  <2>4. View(index)' = d
    BY <1>1, <2>1 DEF d
  <2>5. Inv'
    BY <1>1, <2>1 DEF Inv
  <2> QED
    BY <2>3, <2>4, <2>5, Zenon DEF d
<1>6. CASE u.undoStack # <<>>
  <2>1. /\ Good(v)
        /\ Shows(v, Saved(u, u.undoStack[n]), SubSeq(before, 1, n - 1), u.revision - 1)
    BY <1>1, <1>6, UndoneGood, Zenon
  <2>2. n >= 1 /\ n \in 1..n
    BY <1>2, <1>6
  <2> DEFINE rest == SubSeq(before, 1, n - 1)
             last == Saved(u, u.undoStack[n])
  <2> HIDE DEF v
  <2>3. e = [table |-> last, undo |-> rest, revision |-> u.revision - 1]
    BY <2>1, Zenon DEF Shows
  <2>4. before[n] = last
    BY <1>3, <2>2
  <2> HIDE DEF d, e, n, before, last
  <2>5. Promise!UndoSessions(d, 1) =
          [table |-> before[Len(before) + 1 - 1], undo |-> SubSeq(before, 1, Len(before) - 1),
           revision |-> u.revision - 1]
    <3> DEFINE k == IF 1 <= Len(d.undo) THEN 1 ELSE Len(d.undo)
    <3>1. k = 1 /\ k # 0
      BY <1>3, <1>4, <2>2
    <3>2. Promise!UndoSessions(d, 1) =
            IF k = 0 THEN d
            ELSE [table |-> d.undo[Len(d.undo) + 1 - k],
                  undo |-> SubSeq(d.undo, 1, Len(d.undo) - k),
                  revision |-> d.revision - k]
      BY Zenon DEF Promise!UndoSessions
    <3> HIDE DEF k
    <3> QED
      BY <1>4, <3>1, <3>2, Zenon
  <2>6. Len(before) + 1 - 1 = n /\ Len(before) - 1 = n - 1
    BY <1>2, <1>3
  <2>7. e = Promise!UndoSessions(d, 1)
    BY <2>3, <2>4, <2>5, <2>6, Zenon
  <2>8. View(index)' = e
    BY <1>1 DEF e
  <2>9. Inv'
    BY <1>1, <2>1 DEF Inv
  <2> QED
    BY <2>7, <2>8, <2>9, Zenon DEF d
<1> QED
  BY <1>5, <1>6

LEMMA SquashStep ==
  ASSUME Inv, squash
  PROVE  Inv' /\ Promise!Squash
<1> DEFINE u == index
           v == Squashed(u)
           d == View(u)
           e == View(v)
           n == Len(u.undoStack)
           before == UndoOf(u)
<1>1. index' = v /\ Good(u)
  BY Zenon DEF squash, Inv
<1>2. u.undoStack \in Seq(Session) /\ n \in Nat
  BY <1>1 DEF Good, IndexType
<1>3. before \in Seq({Saved(u, u.undoStack[k]) : k \in 1..n}) /\ Len(before) = n
  BY <1>2, UndoOfIs
<1>4. d.undo = before /\ d.revision = u.revision /\ d.table = Table(u.node, u.rows, u.nextId)
      /\ d = [table |-> d.table, undo |-> before, revision |-> u.revision]
  BY ShownTable, Zenon
<1>5. CASE u.undoStack = <<>>
  <2>1. v = u
    <3>1. ~ (n >= 2)
      BY <1>5
    <3> QED
      BY <1>5, <3>1, Zenon DEF Squashed, SquashedFast
  <2>2. before = <<>>
    <3>1. Len(before) = 0
      BY <1>3, <1>5
    <3> HIDE DEF before, n
    <3> QED
      BY <1>3, <3>1
  <2>3. View(index)' = View(index)
    BY <1>1, <2>1
  <2>4. Promise!Squash
    BY <1>4, <2>2, <2>3, Zenon DEF Promise!Squash
  <2> QED
    BY <1>1, <2>1, <2>4 DEF Inv
<1>6. CASE u.undoStack # <<>>
  <2> DEFINE rest == SubSeq(before, 1, n - 1)
             table == Table(u.node, u.rows, u.nextId)
             x == SubSeq(d.undo, 1, Len(d.undo) - 1)
             y == d.revision - 1
             w1 == [d EXCEPT !.undo = x]
             w2 == [w1 EXCEPT !.revision = y]
  <2>1. Good(v) /\ Shows(v, table, rest, u.revision - 1)
    BY <1>1, <1>6, SquashedGood, Zenon
  <2>2. before # <<>>
    <3>1. Len(before) # 0
      BY <1>2, <1>3, <1>6
    <3> HIDE DEF before, n
    <3> QED
      BY <3>1
  <2> HIDE DEF v
  <2>3. e = [table |-> table, undo |-> rest, revision |-> u.revision - 1]
    BY <2>1, Zenon DEF Shows
  <2>4. x = rest /\ y = u.revision - 1
    BY <1>3, <1>4, Zenon
  <2>5. w2 = [table |-> table, undo |-> x, revision |-> y]
    <3> HIDE DEF d, x, y, table, before
    <3>1. w1 = [table |-> table, undo |-> x, revision |-> u.revision]
      BY <1>4 DEF table
    <3> HIDE DEF w1
    <3> QED
      BY <3>1
  <2>6. e = w2
    BY <2>3, <2>4, <2>5, Zenon
  <2>7. View(index)' = e
    BY <1>1
  <2>8. Promise!Squash
    <3>1. e = [d EXCEPT !.undo = SubSeq(@, 1, Len(@) - 1), !.revision = @ - 1]
      <4>1. w1.revision = d.revision
        BY <1>4
      <4> HIDE DEF d, e
      <4> QED
        BY <2>6, <4>1
    <3> QED
      BY <1>4, <2>2, <2>7, <3>1, Zenon DEF Promise!Squash
  <2>9. Inv'
    BY <1>1, <2>1 DEF Inv
  <2> QED
    BY <2>8, <2>9
<1> QED
  BY <1>5, <1>6

LEMMA CommitStep ==
  ASSUME Inv, NEW revision \in 0..index.revision, commit(revision)
  PROVE  /\ Inv'
         /\ revision \in 0..View(index).revision
         /\ View(index)' = Promise!Commit(View(index), revision)
<1> DEFINE u == index
           v == Committed(u, revision)
           d == View(u)
           e == View(v)
           n == Len(u.undoStack)
           before == UndoOf(u)
           table == Table(u.node, u.rows, u.nextId)
           newer == u.revision - revision
           left == CommitsTo(u, revision)
<1>1. index' = v /\ Good(u) /\ revision \in Int
  BY DEF commit, Inv
<1>2. u.undoStack \in Seq(Session) /\ n \in Nat /\ u.revision \in Int
  BY <1>1 DEF Good, IndexType
<1>3. Good(v) /\ Shows(v, table, left, u.revision)
  BY <1>1, CommittedGood, Zenon
<1>4. Len(before) = n
  BY <1>2, UndoOfIs
<1>5. /\ d.undo = before /\ d.revision = u.revision /\ d.table = table
      /\ d = [table |-> d.table, undo |-> before, revision |-> u.revision]
  BY ShownTable, Zenon
<1> HIDE DEF v
<1>6. e = [table |-> table, undo |-> left, revision |-> u.revision]
  BY <1>3, Zenon DEF Shows
<1>7. newer \in Int
  BY <1>1, <1>2
<1>8. left = IF newer <= 0 THEN <<>>
             ELSE IF newer < n THEN SubSeq(before, n + 1 - newer, n) ELSE before
  BY Zenon DEF CommitsTo
<1>9. Promise!Commit(d, revision) =
        IF newer <= 0 THEN [d EXCEPT !.undo = <<>>]
        ELSE IF newer < n THEN [d EXCEPT !.undo = SubSeq(before, n + 1 - newer, n)]
        ELSE d
  BY <1>4, <1>5, Zenon DEF Promise!Commit
<1> HIDE DEF d, e, n, before, table, newer, left
<1>10. \A x : [d EXCEPT !.undo = x] = [table |-> table, undo |-> x, revision |-> u.revision]
  BY <1>5
<1>11. d = [table |-> table, undo |-> before, revision |-> u.revision]
  BY <1>5, Zenon
<1>12. e = Promise!Commit(d, revision)
  <2>1. CASE newer <= 0
    BY <1>6, <1>8, <1>9, <1>10, <2>1, Zenon
  <2>2. CASE ~ (newer <= 0) /\ newer < n
    BY <1>6, <1>8, <1>9, <1>10, <2>2, Zenon
  <2>3. CASE ~ (newer <= 0) /\ ~ (newer < n)
    BY <1>6, <1>8, <1>9, <1>11, <2>3, Zenon
  <2> QED
    BY <2>1, <2>2, <2>3
<1>13. View(index)' = e
  BY <1>1 DEF e
<1>14. Inv'
  BY <1>1, <1>3 DEF Inv
<1>15. revision \in 0..d.revision
  BY <1>5
<1> QED
  BY <1>12, <1>13, <1>14, <1>15, Zenon DEF d

LEMMA RevisionStep ==
  ASSUME Inv, NEW revision \in Nat, set_revision(revision)
  PROVE  /\ Inv'
         /\ View(index)'.revision = revision
         /\ Promise!CanSetRevision(View(index), revision)
         /\ View(index)' = Promise!SetRevision(View(index), revision)
<1> DEFINE u == index
           v == [u EXCEPT !.revision = revision]
           d == View(u)
           e == View(v)
           before == UndoOf(u)
           table == Table(u.node, u.rows, u.nextId)
<1>1. index' = v /\ Good(u) /\ revision \in Int /\ u.undoStack = <<>> /\ revision >= u.revision
  BY DEF set_revision, Inv
<1>2. Good(v) /\ Shows(v, table, before, revision)
  BY <1>1, RevisionGood, Zenon
<1>3. /\ d.undo = before /\ d.revision = u.revision /\ d.table = table
      /\ d = [table |-> d.table, undo |-> before, revision |-> u.revision]
  BY ShownTable, Zenon
<1>4. before = <<>>
  <2>1. u.undoStack \in Seq(Session) /\ Len(u.undoStack) = 0
    BY <1>1
  <2>2. before \in Seq({Saved(u, u.undoStack[k]) : k \in 1..Len(u.undoStack)}) /\ Len(before) = 0
    BY <2>1, UndoOfIs
  <2> HIDE DEF before
  <2> QED
    BY <2>2
<1> HIDE DEF v
<1>5. e = [table |-> table, undo |-> before, revision |-> revision]
  BY <1>2, Zenon DEF Shows
<1> HIDE DEF d, e, before, table
<1>6. [d EXCEPT !.revision = revision] = [table |-> table, undo |-> before, revision |-> revision]
  BY <1>3
<1>7. e = Promise!SetRevision(d, revision) /\ e.revision = revision
  <2>1. e = Promise!SetRevision(d, revision)
    BY <1>5, <1>6, Zenon DEF Promise!SetRevision
  <2>2. e.revision = revision
    BY <1>5
  <2> QED
    BY <2>1, <2>2
<1>8. Promise!CanSetRevision(d, revision)
  BY <1>1, <1>3, <1>4, Zenon DEF Promise!CanSetRevision
<1>9. View(index)' = e
  BY <1>1 DEF e
<1>10. Inv'
  BY <1>1, <1>2 DEF Inv
<1> QED
  BY <1>7, <1>8, <1>9, <1>10, Zenon DEF d

LEMMA LastUndoStep ==
  ASSUME Inv, last_undo_session
  PROVE  Inv' /\ View(index)' = View(index)
<1> DEFINE u == index
           v == Compressed(u, Last(u.undoStack))
<1>1. index' = v /\ Good(u) /\ u.undoStack # <<>>
  BY Zenon DEF last_undo_session, Inv
<1>2. Good(v) /\ View(v) = View(u)
  BY <1>1, LastUndoGood, Zenon
<1> HIDE DEF v
<1>3. View(index)' = View(v)
  BY <1>1
<1> QED
  BY <1>1, <1>2, <1>3 DEF Inv

LEMMA InitialIndex ==
  ASSUME Init
  PROVE  Inv /\ Promise!Init
<1> DEFINE u == index
           none == <<>>
<1>1. /\ u = [node |-> none, rows |-> {}, oldValues |-> none, removedValues |-> none,
              undoStack |-> none, nextId |-> 0, revision |-> 0, monotonic |-> 0]
  BY Zenon DEF Init
<1>2. DOMAIN none = {} /\ Len(none) = 0 /\ 1..0 = {} /\ \A S : none \in Seq(S)
  OBVIOUS
<1>3. none \in [DOMAIN none -> Row] /\ none = [i \in {} |-> 0] /\ ToSet(none) = {}
  BY <1>2 DEF ToSet
<1> HIDE DEF none
<1>4. /\ u.node = none /\ u.rows = {} /\ u.oldValues = none /\ u.removedValues = none
      /\ u.undoStack = none /\ u.nextId = 0 /\ u.revision = 0 /\ u.monotonic = 0
  BY <1>1
<1>5. IndexType(u)
  <2>1. u = [node |-> u.node, rows |-> u.rows, oldValues |-> u.oldValues,
             removedValues |-> u.removedValues, undoStack |-> u.undoStack,
             nextId |-> u.nextId, revision |-> u.revision, monotonic |-> u.monotonic]
    BY <1>1, <1>4, Zenon
  <2>2. /\ DOMAIN none \subseteq Nat /\ {} \subseteq DOMAIN none /\ 0 \in Nat /\ 0 \in Int
    BY <1>2
  <2> QED
    BY <1>2, <1>3, <1>4, <2>1, <2>2, Zenon DEF IndexType
<1>6. Distinct(u)
  BY <1>2, <1>4 DEF Distinct
<1>7. Accounted(u)
  BY <1>2, <1>3, <1>4 DEF Accounted
<1>8. Times(u)
  BY <1>2, <1>4 DEF Times
<1>9. Good(u)
  BY <1>2, <1>4, <1>5, <1>6, <1>7, <1>8 DEF Good
<1>10. View(u) = [table |-> [rows |-> <<>>, next |-> 0], undo |-> <<>>, revision |-> 0]
  <2>1. View(u) = [table |-> [rows |-> [i \in {} |-> RowOf(u, i)], next |-> 0],
                   undo |-> [k \in {} |-> Saved(u, u.undoStack[k])], revision |-> 0]
    BY <1>2, <1>4, Zenon DEF View, Table, RowOf, Saved
  <2>2. [i \in {} |-> RowOf(u, i)] = none /\ [k \in {} |-> Saved(u, u.undoStack[k])] = none
    BY <1>3
  <2> QED
    BY <2>1, <2>2, Zenon DEF none
<1>11. Promise!Init
  BY <1>10, Zenon DEF Promise!Init, Promise!EmptyDb
<1> QED
  BY <1>9, <1>11 DEF Inv

LEMMA StepKeepsPromise ==
  ASSUME Inv, bound \in Bounds, [Next]_vars
  PROVE  Inv' /\ bound' \in Bounds /\ [Promise!Next]_(View(index))
<1>1. bound.keys \subseteq Key /\ bound.revision \in Nat
  BY BoundsAssumption
<1>2. DOMAIN Promise!rows = index.rows
  BY ShownTable, Zenon DEF Promise!rows
<1>3. CASE UNCHANGED vars
  BY <1>3 DEF vars, Inv
<1>4. CASE Next
  <2>1. bound' = bound /\ Call
    BY <1>4, Zenon DEF Next
  <2>2. ASSUME NEW key \in bound.keys, NEW val \in Val, emplace(key, val)
        PROVE  Inv' /\ Promise!Next
    <3>1. Inv' /\ Promise!Emplace(key, val)
      BY <1>1, <2>2, EmplaceStep
    <3> QED
      BY <1>1, <3>1, Zenon DEF Promise!Next
  <2>3. ASSUME NEW key \in bound.keys, NEW val \in Val, NEW id \in index.rows,
               modify(id, key, val)
        PROVE  Inv' /\ Promise!Next
    <3>1. Inv' /\ Promise!Modify(id, key, val)
      BY <1>1, <2>3, ModifyStep
    <3>2. key \in Key /\ id \in DOMAIN Promise!rows
      BY <1>1, <1>2
    <3> QED
      BY <3>1, <3>2, Zenon DEF Promise!Next
  <2>4. ASSUME NEW id \in index.rows, remove(id)
        PROVE  Inv' /\ Promise!Next
    <3>1. Inv' /\ Promise!Remove(id)
      BY <2>4, RemoveStep
    <3>2. id \in DOMAIN Promise!rows
      BY <1>2
    <3> QED
      BY <3>1, <3>2, Zenon DEF Promise!Next
  <2>5. ASSUME start_undo_session
        PROVE  Inv' /\ Promise!Next
    <3>1. Inv' /\ View(index)' = Promise!StartSession(View(index))
      BY <2>5, StartStep
    <3> QED
      BY <3>1, Zenon DEF Promise!Next
  <2>6. ASSUME undo
        PROVE  Inv' /\ Promise!Next
    <3>1. Inv' /\ View(index)' = Promise!UndoSessions(View(index), 1)
      BY <2>6, UndoStep
    <3> QED
      BY <3>1, Zenon DEF Promise!Next
  <2>7. ASSUME squash
        PROVE  Inv' /\ Promise!Next
    <3>1. Inv' /\ Promise!Squash
      BY <2>7, SquashStep
    <3> QED
      BY <3>1, Zenon DEF Promise!Next
  <2>8. ASSUME NEW revision \in 0..index.revision, commit(revision)
        PROVE  Inv' /\ Promise!Next
    <3>1. /\ Inv'
          /\ revision \in 0..View(index).revision
          /\ View(index)' = Promise!Commit(View(index), revision)
      BY <2>8, CommitStep
    <3> QED
      BY <3>1, Zenon DEF Promise!Next
  <2>9. ASSUME NEW revision \in 0..bound.revision, set_revision(revision)
        PROVE  Inv' /\ Promise!Next
    <3>1. revision \in Nat
      BY <1>1
    <3>2. /\ Inv'
          /\ View(index)'.revision = revision
          /\ Promise!CanSetRevision(View(index), revision)
          /\ View(index)' = Promise!SetRevision(View(index), revision)
      BY <2>9, <3>1, RevisionStep
    <3>3. revision \in {View(index)'.revision}
      BY <3>2
    <3> QED
      BY <3>2, <3>3, Zenon DEF Promise!Next
  <2>10. ASSUME last_undo_session
         PROVE  Inv' /\ View(index)' = View(index)
    BY <2>10, LastUndoStep
  <2> QED
    BY <2>1, <2>2, <2>3, <2>4, <2>5, <2>6, <2>7, <2>8, <2>9, <2>10, Zenon DEF Call
<1> QED
  BY <1>3, <1>4 DEF Next

(* What every node is for: it is in the table or, once, in removedValues.  *)
LEMMA NodesAccounted ==
  ASSUME Inv
  PROVE  NodesAccountedFor
<1> DEFINE u == index
<1>1. /\ Good(u) /\ IndexType(u) /\ Distinct(u) /\ Accounted(u)
      /\ u.undoStack \in Seq(Session) /\ u.removedValues \in Seq(Nat) /\ u.oldValues \in Seq(Copy)
  BY DEF Inv, Good, IndexType
<1>2. /\ DOMAIN u.undoStack = 1..Len(u.undoStack) /\ DOMAIN u.oldValues = 1..Len(u.oldValues)
      /\ DOMAIN u.removedValues = 1..Len(u.removedValues)
  BY <1>1
<1>3. IsInjective(u.removedValues)
  BY <1>1, <1>2 DEF Distinct, IsInjective
<1>4. ASSUME NEW k \in DOMAIN u.undoStack
      PROVE  LET session == u.undoStack[k] IN
             /\ session.oldEnd = NULL \/ \E i \in DOMAIN u.oldValues :
                                            u.oldValues[i].at = session.oldEnd
             /\ session.removedEnd \in {NULL} \cup ToSet(u.removedValues)
             /\ \A i \in 1..OldPos(u, session.oldEnd) - 1 :
                  u.oldValues[i].row.mtime < session.ctime =>
                    u.oldValues[i].current \in DOMAIN u.node
  <2> DEFINE s == u.undoStack[k]
  <2>1. Kept(u, s)
    BY <1>1, <1>2, Zenon DEF Good
  <2> HIDE DEF s
  <2>2. Marked(u, s) /\ OlderCopies(u, s)
    BY <2>1, Zenon DEF Kept, OldKept
  <2>3. s.oldEnd = NULL \/ \E i \in DOMAIN u.oldValues : u.oldValues[i].at = s.oldEnd
    BY <1>2, <2>2, Zenon DEF Marked, MarkedOld
  <2>4. s.removedEnd \in {NULL} \cup ToSet(u.removedValues)
    <3>1. s.removedEnd # NULL => \E q \in DOMAIN u.removedValues : u.removedValues[q] = s.removedEnd
      BY <1>2, <2>2, Zenon DEF Marked, MarkedRemoved
    <3>2. s.removedEnd # NULL => s.removedEnd \in ToSet(u.removedValues)
      BY <3>1, Zenon DEF ToSet
    <3> QED
      BY <3>2
  <2>5. \A i \in 1..OldPos(u, s.oldEnd) - 1 :
          u.oldValues[i].row.mtime < s.ctime => u.oldValues[i].current \in DOMAIN u.node
    BY <2>2, Zenon DEF OlderCopies, OldEnd
  <2> QED
    BY <2>3, <2>4, <2>5, Zenon DEF s
<1>5. NoDanglingUndo
  BY <1>4, Zenon DEF NoDanglingUndo
<1> QED
  BY <1>1, <1>3, <1>5, Zenon DEF NodesAccountedFor, Accounted
-----------------------------------------------------------------------------
(* Every node is in the table or once in removedValues and so is neither   *)
(* leaked nor freed twice, and no session's marks or copies point to one   *)
(* that is gone, whatever squash, commit and compression dispose of        *)
(* (chainbase undo_index).                                                 *)
THEOREM NoNodeIsLost == Spec => []NodesAccountedFor
<1>1. Init => Inv /\ bound \in Bounds
  BY InitialIndex DEF Init
<1>2. Inv /\ bound \in Bounds /\ [Next]_vars => Inv' /\ (bound \in Bounds)'
  BY StepKeepsPromise
<1>3. Inv => NodesAccountedFor
  BY NodesAccounted
<1> QED
  BY <1>1, <1>2, <1>3, PTL DEF Spec

(* The undo index implements the promise: seen from outside, every call    *)
(* does to the table and to what each open session would restore exactly   *)
(* what UndoDb says of it, so undo restores the rows and ids there were    *)
(* when the session began (chainbase undo_index).                          *)
THEOREM IndexKeepsPromise == Spec => ImplementsUndoDb
<1>1. Init => Inv /\ bound \in Bounds /\ Promise!Init
  BY InitialIndex DEF Init
<1>2. Inv /\ bound \in Bounds /\ [Next]_vars
        => Inv' /\ (bound \in Bounds)' /\ [Promise!Next]_(View(index))
  BY StepKeepsPromise
<1> QED
  BY <1>1, <1>2, PTL DEF Spec, ImplementsUndoDb, Promise!Spec
=============================================================================
