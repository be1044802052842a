------------------------- MODULE WasmExportsLemmas -------------------------
(***************************************************************************)
(* What each exported function does to the log, the chain and the undo     *)
(* sessions, for all blocks, tables and widths of uint32_t, and what the   *)
(* tables hold then.  The invariant is stated for a memory m and the       *)
(* blocks tr erased from it, so that there is one lemma per function, for  *)
(* every module that calls it.                                             *)
(***************************************************************************)
EXTENDS WasmExports, FiniteSets, FiniteSetTheorems, SequenceTheorems, FoldLemmas
-----------------------------------------------------------------------------
(* What the look-ups of a block log return, when the log is the part of a  *)
(* chain behind its first `base` blocks.                                   *)

NumberedFrom(log, base) == \A i \in 1..Len(log) : log[i].num = base + i

(* lower_bound_by_num computes a position from the first number alone.  In *)
(* a gapless log that is the position of the first block numbered `num` or *)
(* more.                                                                   *)
LEMMA LowerBoundByNumIsLeast ==
  ASSUME NEW log \in Seq(Block), NEW base \in Nat, NEW num \in Nat,
         NumberedFrom(log, base)
  PROVE  /\ LowerBoundByNum(log, num) \in 1..Len(log) + 1
         /\ num <= base => LowerBoundByNum(log, num) = 1
         /\ num > base /\ num <= base + Len(log) =>
              LowerBoundByNum(log, num) = num - base
         /\ num > base + Len(log) => LowerBoundByNum(log, num) = Len(log) + 1
<1>1. Len(log) \in Nat
  OBVIOUS
<1>2. CASE log = <<>>
  BY <1>1, <1>2 DEF LowerBoundByNum
<1>3. CASE log # <<>>
  <2>1. Len(log) >= 1
    BY <1>3, EmptySeq
  <2>2. log[1].num = base + 1
    BY <2>1, <1>1 DEF NumberedFrom
  <2> QED
    BY <1>1, <1>3, <2>1, <2>2 DEF LowerBoundByNum
<1> QED
  BY <1>2, <1>3

(* Inc stays within uint32_t, and is the successor below the largest one.  *)
LEMMA IncWraps ==
  ASSUME NEW n \in UInt
  PROVE  /\ Inc(n) \in UInt
         /\ n < MaxUInt => Inc(n) = n + 1
         /\ n = MaxUInt => Inc(n) = 0
<1>1. CASE n < MaxUInt
  <2>1. n + 1 \in 0..MaxUInt
    BY <1>1, WidthAssumption DEF UInt
  <2>2. (n + 1) % (MaxUInt + 1) = n + 1
    BY <2>1, WidthAssumption DEF UInt
  <2> QED
    BY <1>1, <2>1, <2>2, WidthAssumption DEF UInt, Inc
<1>2. CASE n = MaxUInt
  <2>1. (MaxUInt + 1) % (MaxUInt + 1) = 0
    BY WidthAssumption, SMT
  <2> QED
    BY <1>2, <2>1, WidthAssumption DEF UInt, Inc
<1> QED
  BY <1>1, <1>2, WidthAssumption DEF UInt

LEMMA CountUpTo ==
  ASSUME NEW n \in Nat
  PROVE  IsFiniteSet(1..n) /\ Cardinality(1..n) = n
<1>1. n \in Int /\ 1 \in Int
  OBVIOUS
<1>2. /\ IsFiniteSet(1..n)
      /\ Cardinality(1..n) = IF 1 > n THEN 0 ELSE n - 1 + 1
  BY <1>1, FS_Interval, Zenon
<1> QED
  BY <1>2

(* In a sorted log the binary search by EOSIO number has an answer, and it *)
(* separates the smaller EOSIO numbers from the others.                    *)
LEMMA LowerBoundByEosioNumSeparates ==
  ASSUME NEW log \in Seq(Block), NEW num \in UInt, SortedByEosioNum(log)
  PROVE  /\ LowerBoundByEosioNum(log, num) \in 1..Len(log) + 1
         /\ \A j \in 1..LowerBoundByEosioNum(log, num) - 1 : log[j].eosio.num < num
         /\ \A j \in LowerBoundByEosioNum(log, num)..Len(log) : log[j].eosio.num >= num
<1> DEFINE Smaller == {j \in 1..Len(log) : log[j].eosio.num < num}
           c == Cardinality(Smaller)
<1>1. Len(log) \in Nat
  OBVIOUS
<1>2. \A j \in 1..Len(log) : log[j].eosio.num \in UInt
  BY BlockAssumption, EosioAssumption
<1>3. /\ IsFiniteSet(1..Len(log))
      /\ Cardinality(1..Len(log)) = Len(log)
  BY <1>1, CountUpTo, Zenon
<1>4. /\ IsFiniteSet(Smaller)
      /\ c \in 0..Len(log)
  <2>1. Smaller \in SUBSET (1..Len(log))
    OBVIOUS
  <2>2. /\ IsFiniteSet(Smaller)
        /\ c <= Len(log)
    BY <1>3, <2>1, FS_Subset
  <2>3. c \in Nat
    BY <2>2, FS_CardinalityType
  <2> QED
    BY <1>1, <2>2, <2>3
<1>5. \A i, j \in 1..Len(log) : i <= j /\ j \in Smaller => i \in Smaller
  <2>1. SUFFICES ASSUME NEW i \in 1..Len(log), NEW j \in 1..Len(log),
                        i < j, log[j].eosio.num < num
                 PROVE  log[i].eosio.num < num
    OBVIOUS
  <2>2. log[i].eosio.num \in Nat /\ log[j].eosio.num \in Nat /\ num \in Nat
    BY <1>2, WidthAssumption DEF UInt
  <2>3. log[i].eosio.num < log[j].eosio.num
    BY <2>1 DEF SortedByEosioNum
  <2> QED
    BY <2>1, <2>2, <2>3
<1>6. \A j \in 1..c : j \in Smaller
  <2>1. SUFFICES ASSUME NEW j \in 1..c, j \notin Smaller
                 PROVE  FALSE
    OBVIOUS
  <2>2. j \in 1..Len(log)
    BY <1>1, <1>4
  <2>3. Smaller \in SUBSET (1..j - 1)
    BY <1>1, <1>5, <2>1, <2>2
  <2>4. /\ IsFiniteSet(1..j - 1)
        /\ Cardinality(1..j - 1) = j - 1
    <3>1. j - 1 \in Nat
      BY <1>1, <2>2
    <3> QED
      BY <3>1, CountUpTo, Zenon
  <2>5. c <= j - 1
    BY <2>3, <2>4, FS_Subset
  <2> QED
    BY <2>5, <1>4
<1>7. \A j \in c + 1..Len(log) : j \notin Smaller
  <2>1. SUFFICES ASSUME NEW j \in c + 1..Len(log), j \in Smaller
                 PROVE  FALSE
    OBVIOUS
  <2>2. (1..j) \in SUBSET Smaller
    BY <1>1, <1>4, <1>5, <2>1
  <2>3. j \in Nat /\ 1 <= j
    BY <1>4, <1>1
  <2>4. Cardinality(1..j) = j
    BY <2>3, CountUpTo, Zenon
  <2>5. j <= c
    BY <2>2, <2>4, <1>4, FS_Subset
  <2> QED
    BY <2>5, <1>4
<1>8. \E i \in 1..Len(log) + 1 :
        /\ \A j \in 1..i - 1 : log[j].eosio.num < num
        /\ \A j \in i..Len(log) : log[j].eosio.num >= num
  <2>1. \A j \in 1..(c + 1) - 1 : log[j].eosio.num < num
    BY <1>4, <1>6
  <2>2. \A j \in c + 1..Len(log) : log[j].eosio.num >= num
    BY <1>1, <1>2, <1>4, <1>7 DEF UInt
  <2> QED
    BY <2>1, <2>2, <1>4, <1>1
<1> QED
  BY <1>8 DEF LowerBoundByEosioNum
-----------------------------------------------------------------------------
ChainOf(m, tr) == tr \o m.blocks

DbShape(d) == d \in [table : {d.table}, undo : Seq(Range(d.undo)), revision : Nat]

Shape(m, tr) ==
  /\ m \in [blocks : Seq(Block), irreversible : UInt, db : {m.db}, trapped : BOOLEAN]
  /\ DbShape(m.db)
  /\ tr \in Seq(Block)

Irreversible(m, tr) ==
  /\ m.irreversible <= Len(ChainOf(m, tr))
  /\ tr # <<>> => Len(tr) < m.irreversible

Sessions(m, tr) ==
  ~m.trapped => /\ Len(m.db.undo) = Len(ChainOf(m, tr)) - m.irreversible
                /\ m.db.revision = Len(ChainOf(m, tr))

Inv(m, tr) ==
  /\ Shape(m, tr)
  /\ Linked(ChainOf(m, tr))
  /\ Irreversible(m, tr)
  /\ SortedByEosioNum(ChainOf(m, tr))
  /\ Sessions(m, tr)
-----------------------------------------------------------------------------
(* Chains *)

(* Cutting a linked, sorted chain leaves one. *)
LEMMA CutChain ==
  ASSUME NEW chain \in Seq(Block), NEW k \in 0..Len(chain),
         Linked(chain), SortedByEosioNum(chain)
  PROVE  /\ SubSeq(chain, 1, k) \in Seq(Block)
         /\ Len(SubSeq(chain, 1, k)) = k
         /\ \A i \in 1..k : SubSeq(chain, 1, k)[i] = chain[i]
         /\ Linked(SubSeq(chain, 1, k))
         /\ SortedByEosioNum(SubSeq(chain, 1, k))
<1> DEFINE cut == SubSeq(chain, 1, k)
<1>1. k \in Nat /\ Len(chain) \in Nat /\ k <= Len(chain)
  OBVIOUS
<1>2. \A i \in 1..k : chain[i] \in Block
  BY <1>1, ElementOfSeq
<1>3. /\ cut \in Seq(Block)
      /\ Len(cut) = k
      /\ \A i \in 1..k : cut[i] = chain[i]
  <2>1. /\ cut \in Seq(Block)
        /\ Len(cut) = IF 1 <= k THEN k - 1 + 1 ELSE 0
        /\ \A i \in 1..k - 1 + 1 : cut[i] = chain[1 + i - 1]
    BY <1>1, <1>2, SubSeqProperties
  <2> QED
    BY <1>1, <2>1
<1> HIDE DEF cut
<1>4. Linked(cut)
  BY <1>1, <1>3 DEF Linked
<1>5. SortedByEosioNum(cut)
  BY <1>1, <1>3 DEF SortedByEosioNum
<1> QED
  BY <1>3, <1>4, <1>5 DEF cut

(* A block that follows the first k blocks extends them to such a chain:   *)
(* its EOSIO number is larger because of where its id comes from.          *)
LEMMA ExtendChain ==
  ASSUME NEW chain \in Seq(Block), NEW k \in 0..Len(chain), NEW b \in Block,
         Linked(chain), SortedByEosioNum(chain),
         b.num = k + 1, k > 0 => b.previous = chain[k].id
  PROVE  LET next == Append(SubSeq(chain, 1, k), b) IN
         /\ next \in Seq(Block)
         /\ Len(next) = k + 1
         /\ next[k + 1] = b
         /\ \A i \in 1..k : next[i] = chain[i]
         /\ Linked(next)
         /\ SortedByEosioNum(next)
<1> DEFINE cut == SubSeq(chain, 1, k)
           next == Append(cut, b)
<1>1. /\ cut \in Seq(Block)
      /\ Len(cut) = k
      /\ \A i \in 1..k : cut[i] = chain[i]
      /\ SortedByEosioNum(cut)
      /\ Linked(cut)
  BY CutChain
<1>2. k \in Nat /\ Len(chain) \in Nat /\ k <= Len(chain)
  OBVIOUS
<1>3. /\ next \in Seq(Block)
      /\ Len(next) = k + 1
      /\ next[k + 1] = b
      /\ \A i \in 1..k : next[i] = chain[i]
  BY <1>1, AppendProperties
<1> HIDE DEF next
<1>4. Linked(next)
  <2>1. SUFFICES ASSUME NEW i \in 1..Len(next)
                 PROVE  /\ next[i].num = i
                        /\ i > 1 => next[i].previous = next[i - 1].id
    BY DEF Linked
  <2>2. CASE i = k + 1
    BY <1>2, <1>3, <2>2
  <2>3. CASE i \in 1..k
    <3>1. /\ chain[i].num = i
          /\ i > 1 => chain[i].previous = chain[i - 1].id
      BY <1>2, <2>3 DEF Linked
    <3>2. next[i] = chain[i] /\ (i > 1 => next[i - 1] = chain[i - 1])
      BY <1>2, <1>3, <2>3
    <3> QED
      BY <3>1, <3>2
  <2> QED
    BY <1>2, <1>3, <2>2, <2>3
<1>5. SortedByEosioNum(next)
  <2>1. \A i \in 1..k + 1 : next[i] \in Block /\ next[i].eosio.num \in Nat
    BY <1>2, <1>3, ElementOfSeq, BlockAssumption, EosioAssumption, WidthAssumption DEF UInt
  <2>2. k > 0 => next[k].eosio.num < b.eosio.num
    BY <1>2, <1>3, <2>1, OriginAssumption
  <2>3. \A i, j \in 1..k : i < j => next[i].eosio.num < next[j].eosio.num
    BY <1>2, <1>3 DEF SortedByEosioNum
  <2>4. \A i \in 1..k : next[i].eosio.num < b.eosio.num
    BY <1>2, <1>3, <2>1, <2>2, <2>3
  <2>5. SUFFICES ASSUME NEW i \in 1..k + 1, NEW j \in 1..k + 1, i < j
                 PROVE  next[i].eosio.num < next[j].eosio.num
    BY <1>3 DEF SortedByEosioNum
  <2>6. i \in 1..k
    BY <1>2, <2>5
  <2>7. CASE j = k + 1
    BY <1>3, <2>4, <2>6, <2>7
  <2>8. CASE j \in 1..k
    BY <2>3, <2>5, <2>6, <2>8
  <2> QED
    BY <1>2, <2>7, <2>8
<1> QED
  BY <1>3, <1>4, <1>5 DEF next
-----------------------------------------------------------------------------
(* The log as the end of the chain *)

LEMMA EndOfChain ==
  ASSUME NEW log \in Seq(Block), NEW tr \in Seq(Block),
         Linked(tr \o log), SortedByEosioNum(tr \o log)
  PROVE  /\ tr \o log \in Seq(Block)
         /\ Len(log) \in Nat /\ Len(tr) \in Nat
         /\ Len(tr \o log) = Len(tr) + Len(log)
         /\ \A i \in 1..Len(log) : log[i] = (tr \o log)[Len(tr) + i]
         /\ NumberedFrom(log, Len(tr))
         /\ SortedByEosioNum(log)
<1> DEFINE chain == tr \o log
<1>1. Len(log) \in Nat /\ Len(tr) \in Nat
  OBVIOUS
<1>2. /\ chain \in Seq(Block)
      /\ Len(chain) = Len(tr) + Len(log)
      /\ \A i \in 1..Len(tr) + Len(log) :
           chain[i] = IF i <= Len(tr) THEN tr[i] ELSE log[i - Len(tr)]
  BY ConcatProperties
<1> HIDE DEF chain
<1>3. ASSUME NEW i \in 1..Len(log)
      PROVE  Len(tr) + i \in 1..Len(chain) /\ log[i] = chain[Len(tr) + i]
  <2>1. /\ Len(tr) + i \in 1..Len(tr) + Len(log)
        /\ ~(Len(tr) + i <= Len(tr))
        /\ (Len(tr) + i) - Len(tr) = i
    BY <1>1
  <2> QED
    BY <1>2, <2>1
<1>4. NumberedFrom(log, Len(tr))
  BY <1>3 DEF NumberedFrom, Linked, chain
<1>5. SortedByEosioNum(log)
  <2>1. SUFFICES ASSUME NEW i \in 1..Len(log), NEW j \in 1..Len(log), i < j
                 PROVE  log[i].eosio.num < log[j].eosio.num
    BY DEF SortedByEosioNum
  <2>2. Len(tr) + i < Len(tr) + j
    BY <1>1, <2>1
  <2>3. \A k, l \in 1..Len(chain) : k < l => chain[k].eosio.num < chain[l].eosio.num
    BY DEF chain, SortedByEosioNum
  <2> QED
    BY <1>3, <2>2, <2>3
<1> QED
  BY <1>1, <1>2, <1>3, <1>4, <1>5 DEF chain

LEMMA LogInChain ==
  ASSUME NEW m, NEW tr, Inv(m, tr)
  PROVE  /\ m.blocks \in Seq(Block) /\ tr \in Seq(Block)
         /\ ChainOf(m, tr) \in Seq(Block)
         /\ Len(m.blocks) \in Nat /\ Len(tr) \in Nat
         /\ Len(ChainOf(m, tr)) = Len(tr) + Len(m.blocks)
         /\ \A i \in 1..Len(m.blocks) : m.blocks[i] = ChainOf(m, tr)[Len(tr) + i]
         /\ NumberedFrom(m.blocks, Len(tr))
         /\ SortedByEosioNum(m.blocks)
         /\ m.irreversible \in Nat /\ m.irreversible \in UInt
<1>1. /\ m.blocks \in Seq(Block) /\ tr \in Seq(Block)
      /\ m.irreversible \in Nat /\ m.irreversible \in UInt
  BY WidthAssumption DEF Inv, Shape, UInt
<1> QED
  BY <1>1, EndOfChain DEF Inv, ChainOf

(* Keeping the first p blocks of the log keeps Len(tr) + p of the chain.   *)
LEMMA CutLog ==
  ASSUME NEW log \in Seq(Block), NEW tr \in Seq(Block), NEW p \in 0..Len(log)
  PROVE  /\ SubSeq(log, 1, p) \in Seq(Block)
         /\ tr \o SubSeq(log, 1, p) = SubSeq(tr \o log, 1, Len(tr) + p)
         /\ \A b \in Block : /\ Append(SubSeq(log, 1, p), b) \in Seq(Block)
                             /\ tr \o Append(SubSeq(log, 1, p), b)
                                  = Append(SubSeq(tr \o log, 1, Len(tr) + p), b)
<1> DEFINE cut == SubSeq(log, 1, p)
           chain == tr \o log
           short == SubSeq(chain, 1, Len(tr) + p)
<1>1. p \in Nat /\ Len(log) \in Nat /\ Len(tr) \in Nat /\ p <= Len(log)
  OBVIOUS
<1>2. /\ cut \in Seq(Block)
      /\ Len(cut) = p
      /\ \A i \in 1..p : cut[i] = log[i]
  <2>1. \A i \in 1..p : log[i] \in Block
    BY <1>1, ElementOfSeq
  <2>2. /\ cut \in Seq(Block)
        /\ Len(cut) = IF 1 <= p THEN p - 1 + 1 ELSE 0
        /\ \A i \in 1..p - 1 + 1 : cut[i] = log[1 + i - 1]
    BY <1>1, <2>1, SubSeqProperties
  <2> QED
    BY <1>1, <2>2
<1>3. /\ chain \in Seq(Block)
      /\ Len(chain) = Len(tr) + Len(log)
      /\ \A i \in 1..Len(tr) + Len(log) :
           chain[i] = IF i <= Len(tr) THEN tr[i] ELSE log[i - Len(tr)]
  BY ConcatProperties
<1>4. /\ short \in Seq(Block)
      /\ Len(short) = Len(tr) + p
      /\ \A i \in 1..Len(tr) + p : short[i] = chain[i]
  <2>1. \A i \in 1..Len(tr) + p : chain[i] \in Block
    BY <1>1, <1>3, ElementOfSeq
  <2>2. /\ short \in Seq(Block)
        /\ Len(short) = IF 1 <= Len(tr) + p THEN Len(tr) + p - 1 + 1 ELSE 0
        /\ \A i \in 1..Len(tr) + p - 1 + 1 : short[i] = chain[1 + i - 1]
    BY <1>1, <2>1, SubSeqProperties
  <2> QED
    BY <1>1, <2>2
<1>5. /\ tr \o cut \in Seq(Block)
      /\ Len(tr \o cut) = Len(tr) + p
      /\ \A i \in 1..Len(tr) + p :
           (tr \o cut)[i] = IF i <= Len(tr) THEN tr[i] ELSE cut[i - Len(tr)]
  BY <1>2, ConcatProperties
<1> HIDE DEF cut, chain, short
<1>6. tr \o cut = short
  <2>1. \A i \in 1..Len(tr) + p : (tr \o cut)[i] = short[i]
    BY <1>1, <1>2, <1>3, <1>4, <1>5
  <2> QED
    BY <1>4, <1>5, <2>1, SeqEqual
<1>7. ASSUME NEW b \in Block
      PROVE  /\ Append(cut, b) \in Seq(Block)
             /\ tr \o Append(cut, b) = Append(short, b)
  <2>1. Append(cut, b) \in Seq(Block) /\ Append(cut, b) = cut \o <<b>>
    BY <1>2, AppendProperties, AppendIsConcat
  <2>2. Append(short, b) = short \o <<b>>
    BY <1>4, AppendIsConcat
  <2>3. (tr \o cut) \o <<b>> = tr \o (cut \o <<b>>)
    BY <1>2, ConcatAssociative
  <2> QED
    BY <1>6, <2>1, <2>2, <2>3
<1> QED
  BY <1>2, <1>6, <1>7 DEF cut, chain, short
-----------------------------------------------------------------------------
(* addBlock *)

(* The chain that an accepted block extends, and how much of it.           *)
Kept(m, tr, b) == Len(tr) + LowerBoundByNum(m.blocks, b.num) - 1

(* What block_log.add_block accepts follows a block of the chain that is   *)
(* the irreversible one or comes after it, even in a trimmed log.          *)
LEMMA AcceptedFollows ==
  ASSUME NEW m, NEW tr, Inv(m, tr), NEW b \in Block, Accepts(m, b)
  PROVE  /\ Kept(m, tr, b) \in m.irreversible..Len(ChainOf(m, tr))
         /\ b.num = Kept(m, tr, b) + 1
         /\ Kept(m, tr, b) > 0 => b.previous = ChainOf(m, tr)[Kept(m, tr, b)].id
         /\ LowerBoundByNum(m.blocks, b.num) \in 1..Len(m.blocks) + 1
<1> DEFINE log == m.blocks
           chain == ChainOf(m, tr)
           it == LowerBoundByNum(log, b.num)
           k == Len(tr) + it - 1
<1>1. /\ log \in Seq(Block) /\ Len(log) \in Nat /\ Len(tr) \in Nat
      /\ Len(chain) = Len(tr) + Len(log)
      /\ \A i \in 1..Len(log) : log[i] = chain[Len(tr) + i]
      /\ NumberedFrom(log, Len(tr))
      /\ m.irreversible \in Nat
  BY LogInChain
<1>2. b.num \in UInt /\ b.num \in Nat
  BY BlockAssumption, WidthAssumption DEF UInt
<1>3. /\ it \in 1..Len(log) + 1
      /\ b.num <= Len(tr) => it = 1
      /\ b.num > Len(tr) /\ b.num <= Len(tr) + Len(log) => it = b.num - Len(tr)
      /\ b.num > Len(tr) + Len(log) => it = Len(log) + 1
  BY <1>1, <1>2, LowerBoundByNumIsLeast
<1>4. /\ it = 1 => b.num = 1
      /\ it > 1 => b.previous = log[it - 1].id /\ b.num = Inc(log[it - 1].num)
      /\ it <= Len(log) => log[it].num > m.irreversible
  BY DEF Accepts, IsAppendable, IsLinkable
<1>5. /\ m.irreversible <= Len(chain)
      /\ tr # <<>> => Len(tr) < m.irreversible
  BY DEF Inv, Irreversible
<1>6. \A i \in 1..Len(log) : log[i].num = Len(tr) + i
  BY <1>1 DEF NumberedFrom
<1>7. tr = <<>> \/ Len(tr) >= 1
  BY EmptySeq, LogInChain
<1> HIDE DEF log, chain, it
<1>8. CASE it = 1
  <2>1. tr = <<>>
    <3>1. SUFFICES ASSUME tr # <<>> PROVE FALSE
      OBVIOUS
    <3>2. it <= Len(log)
      BY <1>1, <1>5, <1>8, <3>1
    <3> QED
      BY <1>1, <1>4, <1>5, <1>6, <1>8, <3>1, <3>2
  <2>2. Len(tr) = 0
    BY <2>1
  <2>3. m.irreversible = 0
    <3>1. SUFFICES ASSUME m.irreversible > 0 PROVE FALSE
      BY <1>1
    <3>2. 1 <= Len(log)
      BY <1>1, <1>5, <2>2, <3>1
    <3>3. log[1].num = 1 /\ log[1].num > m.irreversible
      BY <1>1, <1>4, <1>6, <1>8, <2>2, <3>2
    <3> QED
      BY <3>1, <3>3, <1>1
  <2> QED
    BY <1>1, <1>3, <1>4, <1>8, <2>2, <2>3 DEF Kept, log, chain, it
<1>9. CASE it > 1
  <2>1. it - 1 \in 1..Len(log)
    BY <1>1, <1>3, <1>9
  <2>2. log[it - 1].num = k /\ log[it - 1] = chain[k]
    BY <1>1, <1>6, <2>1
  <2>3. k \in UInt
    BY <1>1, <2>1, <2>2, ElementOfSeq, BlockAssumption
  <2>4. b.num = k + 1
    <3>1. k # MaxUInt
      <4>1. SUFFICES ASSUME k = MaxUInt PROVE FALSE
        OBVIOUS
      <4>2. b.num = 0
        BY <1>4, <1>9, <2>2, <2>3, <4>1, IncWraps
      <4> QED
        BY <1>1, <1>3, <1>9, <4>2
    <3>2. k < MaxUInt
      BY <2>3, <3>1, WidthAssumption DEF UInt
    <3> QED
      BY <1>4, <1>9, <2>2, <2>3, <3>2, IncWraps
  <2>5. k >= m.irreversible
    <3>1. CASE it <= Len(log)
      BY <1>1, <1>3, <1>4, <1>6, <3>1
    <3>2. CASE it = Len(log) + 1
      BY <1>1, <1>5, <3>2
    <3> QED
      BY <1>1, <1>3, <3>1, <3>2
  <2>6. k \in m.irreversible..Len(chain)
    BY <1>1, <1>3, <2>5
  <2> QED
    BY <1>3, <1>4, <1>9, <2>2, <2>4, <2>6 DEF Kept, log, chain, it
<1> QED
  BY <1>1, <1>3, <1>8, <1>9
-----------------------------------------------------------------------------
(* The database: every operation keeps its shape, and moves the number of  *)
(* open sessions and the revision together.                                *)

LEMMA DbFields ==
  ASSUME NEW d, DbShape(d)
  PROVE  /\ d.undo \in Seq(Range(d.undo)) /\ Len(d.undo) \in Nat
         /\ d.revision \in Nat
BY DEF DbShape

LEMMA MakeDbShape ==
  ASSUME NEW table, NEW S, NEW undo \in Seq(S), NEW revision \in Nat
  PROVE  DbShape([table |-> table, undo |-> undo, revision |-> revision])
<1>1. undo \in Seq(Range(undo))
  BY SeqOfRange
<1> QED
  BY <1>1 DEF DbShape

(* A slice of a sequence. *)
LEMMA Slice ==
  ASSUME NEW S, NEW s \in Seq(S), NEW i \in 1..Len(s) + 1, NEW j \in i - 1..Len(s)
  PROVE  /\ SubSeq(s, i, j) \in Seq(S)
         /\ Len(SubSeq(s, i, j)) = j - i + 1
<1>1. i \in Int /\ j \in Int /\ Len(s) \in Nat
  OBVIOUS
<1>2. \A l \in i..j : s[l] \in S
  BY <1>1, ElementOfSeq
<1>3. /\ SubSeq(s, i, j) \in Seq(S)
      /\ Len(SubSeq(s, i, j)) = IF i <= j THEN j - i + 1 ELSE 0
  BY <1>1, <1>2, SubSeqProperties
<1> QED
  BY <1>1, <1>3

LEMMA StartSessionKeepsShape ==
  ASSUME NEW d, DbShape(d)
  PROVE  /\ DbShape(StartSession(d))
         /\ Len(StartSession(d).undo) = Len(d.undo) + 1
         /\ StartSession(d).revision = d.revision + 1
<1> DEFINE S == Range(d.undo) \cup {d.table}
<1>2. d.undo \in Seq(S) /\ d.revision \in Nat
  BY DbFields, SeqMonotonic
<1>3. /\ Append(d.undo, d.table) \in Seq(S)
      /\ Len(Append(d.undo, d.table)) = Len(d.undo) + 1
  BY <1>2, AppendProperties
<1> DEFINE e == [table |-> d.table, undo |-> Append(d.undo, d.table),
                 revision |-> d.revision + 1]
<1>4. StartSession(d) = e
  BY DEF StartSession, DbShape
<1>5. d.revision + 1 \in Nat
  BY <1>2
<1> HIDE DEF S
<1>6. DbShape(e)
  BY <1>3, <1>5, MakeDbShape
<1> QED
  BY <1>3, <1>4, <1>6

LEMMA UndoSessionsKeepsShape ==
  ASSUME NEW d, DbShape(d), NEW n \in 0..Len(d.undo), n <= d.revision
  PROVE  /\ DbShape(UndoSessions(d, n))
         /\ Len(UndoSessions(d, n).undo) = Len(d.undo) - n
         /\ UndoSessions(d, n).revision = d.revision - n
<1>1. /\ d.undo \in Seq(Range(d.undo)) /\ Len(d.undo) \in Nat /\ d.revision \in Nat
      /\ n \in Nat /\ n <= Len(d.undo)
  BY DbFields
<1>2. CASE n = 0
  BY <1>1, <1>2 DEF UndoSessions
<1>3. CASE n > 0
  <2> DEFINE e == [table |-> d.undo[Len(d.undo) + 1 - n],
                   undo |-> SubSeq(d.undo, 1, Len(d.undo) - n),
                   revision |-> d.revision - n]
  <2>1. UndoSessions(d, n) = e
    BY <1>1, <1>3 DEF UndoSessions
  <2>2. /\ SubSeq(d.undo, 1, Len(d.undo) - n) \in Seq(Range(d.undo))
        /\ Len(SubSeq(d.undo, 1, Len(d.undo) - n)) = Len(d.undo) - n
    <3>1. Len(d.undo) - n \in 1 - 1..Len(d.undo) /\ 1 \in 1..Len(d.undo) + 1
      BY <1>1
    <3>2. Len(SubSeq(d.undo, 1, Len(d.undo) - n)) = Len(d.undo) - n - 1 + 1
      BY <1>1, <3>1, Slice
    <3> QED
      BY <1>1, <3>1, <3>2, Slice
  <2>3. d.revision - n \in Nat
    BY <1>1
  <2>4. DbShape(e)
    BY <2>2, <2>3, MakeDbShape
  <2> QED
    BY <2>1, <2>2, <2>4
<1> QED
  BY <1>1, <1>2, <1>3

LEMMA CommitKeepsShape ==
  ASSUME NEW d, DbShape(d), NEW r \in Nat
  PROVE  /\ DbShape(Commit(d, r))
         /\ Commit(d, r).revision = d.revision
         /\ Len(Commit(d, r).undo) =
              IF d.revision - r <= 0 THEN 0
              ELSE IF d.revision - r < Len(d.undo) THEN d.revision - r
              ELSE Len(d.undo)
<1> DEFINE newer == d.revision - r
           kept == SubSeq(d.undo, Len(d.undo) + 1 - newer, Len(d.undo))
<1>1. /\ d.undo \in Seq(Range(d.undo)) /\ Len(d.undo) \in Nat /\ d.revision \in Nat
  BY DbFields
<1>2. CASE newer <= 0
  <2> DEFINE e == [table |-> d.table, undo |-> <<>>, revision |-> d.revision]
  <2>1. Commit(d, r) = e
    BY <1>2 DEF Commit, DbShape
  <2>2. <<>> \in Seq({}) /\ Len(<<>>) = 0
    BY EmptySeq
  <2>3. DbShape(e)
    BY <1>1, <2>2, MakeDbShape
  <2> QED
    BY <1>2, <2>1, <2>2, <2>3
<1>3. CASE newer > 0 /\ newer < Len(d.undo)
  <2> DEFINE e == [table |-> d.table, undo |-> kept, revision |-> d.revision]
  <2>1. Commit(d, r) = e
    <3>1. Commit(d, r) = [d EXCEPT !.undo = kept]
      BY <1>1, <1>3 DEF Commit
    <3> HIDE DEF kept
    <3> QED
      BY <3>1 DEF DbShape
  <2>2. /\ Len(d.undo) + 1 - newer \in 1..Len(d.undo) + 1
        /\ Len(d.undo) \in Len(d.undo) + 1 - newer - 1..Len(d.undo)
    BY <1>1, <1>3
  <2>3. /\ kept \in Seq(Range(d.undo))
        /\ Len(kept) = Len(d.undo) - (Len(d.undo) + 1 - newer) + 1
    <3> DEFINE i == Len(d.undo) + 1 - newer
    <3>1. i \in 1..Len(d.undo) + 1 /\ Len(d.undo) \in i - 1..Len(d.undo)
      BY <2>2
    <3> HIDE DEF i
    <3>2. /\ SubSeq(d.undo, i, Len(d.undo)) \in Seq(Range(d.undo))
          /\ Len(SubSeq(d.undo, i, Len(d.undo))) = Len(d.undo) - i + 1
      BY <1>1, <3>1, Slice
    <3> QED
      BY <3>2 DEF i
  <2>4. Len(kept) = newer
    BY <1>1, <2>3
  <2> HIDE DEF kept
  <2>5. DbShape(e)
    BY <1>1, <2>3, MakeDbShape
  <2> QED
    BY <1>1, <1>3, <2>1, <2>4, <2>5
<1>4. CASE newer > 0 /\ newer >= Len(d.undo)
  <2>1. Commit(d, r) = d
    BY <1>1, <1>4 DEF Commit
  <2> QED
    BY <1>1, <1>4, <2>1
<1> QED
  BY <1>1, <1>2, <1>3, <1>4
-----------------------------------------------------------------------------
(* What every exported function does to the chain: extend a part of it     *)
(* that includes the final blocks, cut it behind them, or make more of it  *)
(* final.                                                                  *)
ChainStep(chain, irr, chain2, irr2) ==
  \/ \E k \in irr..Len(chain), b \in Block :
       /\ b.num = k + 1 /\ (k > 0 => b.previous = chain[k].id)
       /\ chain2 = Append(SubSeq(chain, 1, k), b)
       /\ irr2 \in irr..k + 1
  \/ \E k \in irr..Len(chain) : chain2 = SubSeq(chain, 1, k) /\ irr2 = irr
  \/ chain2 = chain /\ irr2 \in irr..Len(chain)

Correct(m, tr, m2, tr2) ==
  /\ Inv(m2, tr2)
  /\ ChainStep(ChainOf(m, tr), m.irreversible, ChainOf(m2, tr2), m2.irreversible)

(* A step never touches the final part of the chain.                       *)
LEMMA ChainStepKeepsFinal ==
  ASSUME NEW chain \in Seq(Block), NEW irr \in Nat, irr <= Len(chain),
         NEW chain2, NEW irr2, ChainStep(chain, irr, chain2, irr2)
  PROVE  /\ irr2 >= irr
         /\ \A i \in 1..irr : i <= Len(chain2) /\ chain2[i] = chain[i]
<1> DEFINE cut(k) == SubSeq(chain, 1, k)
<1>1. ASSUME NEW k \in irr..Len(chain)
      PROVE  /\ k \in Nat
             /\ cut(k) \in Seq(Block) /\ Len(cut(k)) = k
             /\ \A i \in 1..k : cut(k)[i] = chain[i]
  <2>1. k \in Nat /\ \A i \in 1..k : chain[i] \in Block
    BY ElementOfSeq
  <2>2. /\ cut(k) \in Seq(Block)
        /\ Len(cut(k)) = IF 1 <= k THEN k - 1 + 1 ELSE 0
        /\ \A i \in 1..k - 1 + 1 : cut(k)[i] = chain[1 + i - 1]
    BY <2>1, SubSeqProperties
  <2> QED
    BY <2>1, <2>2
<1>2. ASSUME NEW k \in irr..Len(chain), NEW b \in Block,
             chain2 = Append(cut(k), b), irr2 \in irr..k + 1
      PROVE  /\ irr2 >= irr
             /\ \A i \in 1..irr : i <= Len(chain2) /\ chain2[i] = chain[i]
  <2>1. /\ Len(chain2) = Len(cut(k)) + 1
        /\ \A i \in 1..Len(cut(k)) : chain2[i] = cut(k)[i]
    BY <1>1, <1>2, AppendProperties
  <2> HIDE DEF cut
  <2>2. /\ k \in Nat /\ irr <= k
        /\ Len(chain2) = k + 1
        /\ \A i \in 1..k : chain2[i] = chain[i]
    <3>1. /\ k \in Nat /\ Len(cut(k)) = k
          /\ \A i \in 1..k : cut(k)[i] = chain[i]
      BY <1>1, <1>2, Zenon
    <3>2. irr <= k
      BY <3>1
    <3>3. Len(chain2) = k + 1
      BY <2>1, <3>1, Zenon
    <3>4. \A i \in 1..k : chain2[i] = cut(k)[i]
      BY <2>1, <3>1, Zenon
    <3>5. \A i \in 1..k : chain2[i] = chain[i]
      BY <3>1, <3>4, Zenon
    <3> QED
      BY <3>1, <3>2, <3>3, <3>5
  <2>3. irr2 >= irr
    BY <1>2, <2>2
  <2>4. \A i \in 1..irr : i <= Len(chain2) /\ chain2[i] = chain[i]
    BY <2>2
  <2> QED
    BY <2>3, <2>4
<1>3. ASSUME NEW k \in irr..Len(chain), chain2 = cut(k), irr2 = irr
      PROVE  /\ irr2 >= irr
             /\ \A i \in 1..irr : i <= Len(chain2) /\ chain2[i] = chain[i]
  <2>1. \A i \in 1..irr : i <= Len(chain2) /\ chain2[i] = chain[i]
    <3> HIDE DEF cut
    <3>1. k \in Nat /\ irr <= k
      OBVIOUS
    <3> QED
      BY <1>1, <1>3, <3>1
  <2> QED
    BY <1>3, <2>1
<1>4. ASSUME chain2 = chain, irr2 \in irr..Len(chain)
      PROVE  /\ irr2 >= irr
             /\ \A i \in 1..irr : i <= Len(chain2) /\ chain2[i] = chain[i]
  BY <1>4
<1> QED
  BY <1>2, <1>3, <1>4 DEF ChainStep

LEMMA AdvancedInRange ==
  ASSUME NEW log \in Seq(Block), NEW base \in Nat, NumberedFrom(log, base),
         NEW irr \in UInt, irr <= base + Len(log), NEW it \in 0..Len(log)
  PROVE  /\ Advanced(log, irr, it) \in UInt
         /\ Advanced(log, irr, it) \in irr..base + Len(log)
<1>1. Len(log) \in Nat /\ irr \in Nat
  BY WidthAssumption DEF UInt
<1>2. CASE it # 0
  <2>1. it \in 1..Len(log)
    BY <1>1, <1>2
  <2>2. log[it].num \in UInt /\ log[it].num = base + it
    BY <2>1, ElementOfSeq, BlockAssumption DEF NumberedFrom
  <2> QED
    BY <1>1, <1>2, <2>1, <2>2 DEF Advanced
<1>3. CASE it = 0
  BY <1>1, <1>3 DEF Advanced
<1> QED
  BY <1>2, <1>3

(* add_block rolls back the forked blocks, commits and opens a session,    *)
(* after which there is a session for each reversible block, the new one   *)
(* included, and none for a final one, so that set_revision can be called. *)
LEMMA SessionsForBlock ==
  ASSUME NEW m, NEW tr, Inv(m, tr), ~m.trapped, NEW b \in Block, Accepts(m, b),
         NEW irr \in m.irreversible..Kept(m, tr, b) + 1
  PROVE  /\ DbShape(DbForBlock(m, b, irr))
         /\ Len(DbForBlock(m, b, irr).undo) = b.num - irr
         /\ DbForBlock(m, b, irr).revision = IF b.num > irr THEN b.num ELSE b.num - 1
<1> DEFINE k == Kept(m, tr, b)
           len == Len(ChainOf(m, tr))
           n == NumForked(m.blocks, b)
           d1 == UndoSessions(m.db, n)
           d2 == Commit(d1, irr)
<1>1. /\ k \in m.irreversible..len
      /\ b.num = k + 1
      /\ LowerBoundByNum(m.blocks, b.num) \in 1..Len(m.blocks) + 1
  BY AcceptedFollows
<1>2. /\ len = Len(tr) + Len(m.blocks) /\ len \in Nat
      /\ Len(tr) \in Nat /\ Len(m.blocks) \in Nat /\ m.irreversible \in Nat
  BY LogInChain
<1>3. k \in Nat /\ m.irreversible <= k /\ k <= len
      /\ irr \in Nat /\ m.irreversible <= irr /\ irr <= k + 1
  BY <1>1, <1>2
<1>4. /\ DbShape(m.db)
      /\ Len(m.db.undo) = len - m.irreversible
      /\ m.db.revision = len
  BY DEF Inv, Shape, Sessions
<1>5. n = len - k
  BY <1>1, <1>2 DEF NumForked, Kept
<1> HIDE DEF k, len, n
<1>6. /\ DbShape(d1)
      /\ Len(d1.undo) = k - m.irreversible
      /\ d1.revision = k
  <2>1. n \in 0..Len(m.db.undo) /\ n <= m.db.revision
    BY <1>2, <1>3, <1>4, <1>5
  <2>2. /\ DbShape(d1)
        /\ Len(d1.undo) = Len(m.db.undo) - n
        /\ d1.revision = m.db.revision - n
    BY <1>4, <2>1, UndoSessionsKeepsShape
  <2> QED
    BY <2>2, <1>2, <1>3, <1>4, <1>5
<1> HIDE DEF d1
<1>7. /\ DbShape(d2)
      /\ Len(d2.undo) = IF irr > k THEN 0 ELSE k - irr
      /\ d2.revision = k
  <2>1. /\ DbShape(d2)
        /\ d2.revision = k
        /\ Len(d2.undo) = IF k - irr <= 0 THEN 0
                          ELSE IF k - irr < k - m.irreversible THEN k - irr
                          ELSE k - m.irreversible
    BY <1>3, <1>6, CommitKeepsShape
  <2> QED
    BY <2>1, <1>2, <1>3
<1> HIDE DEF d2
<1>8. DbForBlock(m, b, irr) = IF b.num > irr THEN StartSession(d2) ELSE d2
  BY DEF DbForBlock, d2, d1, n
<1>9. CASE b.num > irr
  <2>1. DbForBlock(m, b, irr) = StartSession(d2)
    BY <1>8, <1>9
  <2>2. /\ DbShape(StartSession(d2))
        /\ Len(StartSession(d2).undo) = Len(d2.undo) + 1
        /\ StartSession(d2).revision = k + 1
    BY <1>7, StartSessionKeepsShape
  <2>3. Len(d2.undo) = k - irr /\ irr <= k
    BY <1>1, <1>3, <1>7, <1>9
  <2> QED
    BY <1>1, <1>3, <1>9, <2>1, <2>2, <2>3
<1>10. CASE ~(b.num > irr)
  BY <1>1, <1>2, <1>3, <1>7, <1>8, <1>10
<1> QED
  BY <1>9, <1>10
-----------------------------------------------------------------------------
(* One lemma per exported function *)

LEMMA NoChangeCorrect ==
  ASSUME NEW m, NEW tr, Inv(m, tr)
  PROVE  Correct(m, tr, m, tr)
<1>1. m.irreversible \in m.irreversible..Len(ChainOf(m, tr))
  BY LogInChain DEF Inv, Irreversible
<1> QED
  BY <1>1 DEF Correct, ChainStep

(* The log after add_block ends the chain made of its first blocks and the *)
(* new one, and `irreversible` moves within that chain.                    *)
LEMMA AddedEndsChain ==
  ASSUME NEW m, NEW tr, Inv(m, tr), NEW b \in Block, NEW num \in UInt, Accepts(m, b)
  PROVE  LET chain == ChainOf(m, tr)
             k == Kept(m, tr, b)
             log2 == Added(m.blocks, b)
             chain2 == tr \o log2
             irr2 == AdvancedByEosioNum(log2, m.irreversible, num)
         IN  /\ k \in m.irreversible..Len(chain) /\ k \in 0..Len(chain) /\ k \in Nat
             /\ chain \in Seq(Block)
             /\ b.num = k + 1
             /\ k > 0 => b.previous = chain[k].id
             /\ log2 \in Seq(Block)
             /\ Len(tr) + Len(log2) = k + 1
             /\ chain2 = Append(SubSeq(chain, 1, k), b)
             /\ chain2 \in Seq(Block) /\ Len(chain2) = k + 1
             /\ Linked(chain2) /\ SortedByEosioNum(chain2)
             /\ irr2 \in UInt /\ irr2 \in m.irreversible..k + 1
<1> DEFINE chain == ChainOf(m, tr)
           k == Kept(m, tr, b)
           log2 == Added(m.blocks, b)
           chain2 == tr \o log2
           irr2 == AdvancedByEosioNum(log2, m.irreversible, num)
<1>1. /\ k \in m.irreversible..Len(chain)
      /\ b.num = k + 1
      /\ k > 0 => b.previous = chain[k].id
      /\ LowerBoundByNum(m.blocks, b.num) \in 1..Len(m.blocks) + 1
  BY AcceptedFollows
<1>2. /\ m.blocks \in Seq(Block) /\ tr \in Seq(Block) /\ chain \in Seq(Block)
      /\ Len(m.blocks) \in Nat /\ Len(tr) \in Nat
      /\ Len(chain) = Len(tr) + Len(m.blocks)
      /\ m.irreversible \in Nat /\ m.irreversible \in UInt
  BY LogInChain
<1>3. k \in 0..Len(chain) /\ k \in Nat /\ m.irreversible <= k
  BY <1>1, <1>2
<1>4. /\ log2 \in Seq(Block)
      /\ chain2 = Append(SubSeq(chain, 1, k), b)
  <2> DEFINE p == LowerBoundByNum(m.blocks, b.num) - 1
  <2>1. p \in 0..Len(m.blocks) /\ Len(tr) + p = k
    BY <1>1, <1>2 DEF Kept
  <2> HIDE DEF p
  <2>2. /\ Append(SubSeq(m.blocks, 1, p), b) \in Seq(Block)
        /\ tr \o Append(SubSeq(m.blocks, 1, p), b)
             = Append(SubSeq(tr \o m.blocks, 1, Len(tr) + p), b)
    <3>1. p \in 0..Len(m.blocks)
      BY <2>1
    <3>2. \A b1 \in Block :
            /\ Append(SubSeq(m.blocks, 1, p), b1) \in Seq(Block)
            /\ tr \o Append(SubSeq(m.blocks, 1, p), b1)
                 = Append(SubSeq(tr \o m.blocks, 1, Len(tr) + p), b1)
      BY <1>2, <3>1, CutLog, Zenon
    <3> QED
      BY <3>2, Zenon
  <2>3. log2 = Append(SubSeq(m.blocks, 1, p), b)
    BY DEF Added, p
  <2> HIDE DEF log2, k
  <2> QED
    BY <2>1, <2>2, <2>3 DEF ChainOf
<1> HIDE DEF k, log2
<1>5. /\ chain2 \in Seq(Block)
      /\ Len(chain2) = k + 1
      /\ Linked(chain2)
      /\ SortedByEosioNum(chain2)
  <2>1. Linked(chain) /\ SortedByEosioNum(chain)
    BY DEF Inv
  <2> HIDE DEF chain, chain2
  <2> QED
    BY <1>1, <1>2, <1>3, <1>4, <2>1, ExtendChain
<1>6. /\ NumberedFrom(log2, Len(tr))
      /\ SortedByEosioNum(log2)
      /\ Len(log2) \in Nat
      /\ Len(tr) + Len(log2) = k + 1
  BY <1>2, <1>4, <1>5, EndOfChain
<1> HIDE DEF chain, chain2
<1>7. irr2 \in UInt /\ irr2 \in m.irreversible..k + 1
  <2> DEFINE it == BlockBeforeEosioNum(log2, Inc(num))
  <2>1. it \in 0..Len(log2)
    <3>1. LowerBoundByEosioNum(log2, Inc(num)) \in 1..Len(log2) + 1
      BY <1>4, <1>6, IncWraps, LowerBoundByEosioNumSeparates
    <3> QED
      BY <3>1, <1>6 DEF BlockBeforeEosioNum
  <2>2. irr2 = Advanced(log2, m.irreversible, it)
    BY DEF AdvancedByEosioNum
  <2> HIDE DEF it, irr2
  <2>3. m.irreversible <= Len(tr) + Len(log2)
    BY <1>2, <1>3, <1>6
  <2>4. /\ Advanced(log2, m.irreversible, it) \in UInt
        /\ Advanced(log2, m.irreversible, it) \in m.irreversible..Len(tr) + Len(log2)
    BY <1>2, <1>4, <1>6, <2>1, <2>3, AdvancedInRange
  <2> QED
    BY <1>6, <2>2, <2>4
<1> QED
  BY <1>1, <1>2, <1>3, <1>4, <1>5, <1>6, <1>7 DEF k, log2, chain, chain2

LEMMA AddBlockCorrect ==
  ASSUME NEW m, NEW tr, Inv(m, tr), ~m.trapped, NEW b \in Block, NEW num \in UInt
  PROVE  Correct(m, tr, addBlock(m, b, num), tr)
<1> DEFINE chain == ChainOf(m, tr)
           k == Kept(m, tr, b)
           log2 == Added(m.blocks, b)
           chain2 == tr \o log2
           irr2 == AdvancedByEosioNum(log2, m.irreversible, num)
           d == DbForBlock(m, b, irr2)
           m2 == ApplyBlock(log2, irr2, d, b)
<1>1. CASE ~Accepts(m, b)
  <2>1. addBlock(m, b, num) = m
    BY <1>1 DEF addBlock
  <2> QED
    BY <2>1, NoChangeCorrect
<1>2. CASE Accepts(m, b)
  <2>1. /\ k \in m.irreversible..Len(chain) /\ k \in 0..Len(chain) /\ k \in Nat
        /\ b.num = k + 1
        /\ k > 0 => b.previous = chain[k].id
        /\ log2 \in Seq(Block)
        /\ chain2 = Append(SubSeq(chain, 1, k), b)
        /\ chain2 \in Seq(Block) /\ Len(chain2) = k + 1
        /\ Linked(chain2) /\ SortedByEosioNum(chain2)
        /\ irr2 \in UInt /\ irr2 \in m.irreversible..k + 1
    BY <1>2, AddedEndsChain
  <2>2. /\ tr \in Seq(Block)
        /\ Len(m.blocks) \in Nat /\ Len(tr) \in Nat
        /\ Len(chain) = Len(tr) + Len(m.blocks)
        /\ m.irreversible \in Nat /\ m.irreversible \in UInt
    BY LogInChain
  <2>3. m.irreversible <= k
    BY <2>1, <2>2
  <2> HIDE DEF k, log2, chain, chain2, irr2
  <2>8. irr2 \in Nat /\ m.irreversible <= irr2 /\ irr2 <= k + 1
    BY <2>1, <2>2, <2>3
  <2>9. /\ DbShape(d)
        /\ Len(d.undo) = b.num - irr2
        /\ d.revision = IF b.num > irr2 THEN b.num ELSE b.num - 1
    BY <1>2, <2>1, SessionsForBlock DEF k
  <2> HIDE DEF d
  <2>10. addBlock(m, b, num) = m2
    BY <1>2 DEF addBlock, d, irr2, log2
  <2>11. /\ m2.blocks = log2 /\ m2.irreversible = irr2
         /\ m2 \in [blocks : Seq(Block), irreversible : UInt, db : {m2.db},
                    trapped : BOOLEAN]
         /\ DbShape(m2.db)
         /\ ~m2.trapped => /\ Len(m2.db.undo) = k + 1 - irr2
                           /\ m2.db.revision = k + 1
    <3> DEFINE run == FilterBlock(d.table, b.eosio)
               after == [d EXCEPT !.table = run.table]
               done == b.num > irr2 \/ CanSetRevision(after, b.num)
               db2 == IF run.ok /\ done /\ b.num <= irr2 THEN SetRevision(after, b.num)
                      ELSE after
    <3>1. m2 = [blocks |-> log2, irreversible |-> irr2, db |-> db2,
                trapped |-> ~(run.ok /\ done)]
      BY DEF ApplyBlock
    <3> HIDE DEF run, m2
    <3>2. /\ after = [table |-> run.table, undo |-> d.undo, revision |-> d.revision]
          /\ d.undo \in Seq(Range(d.undo)) /\ d.revision \in Nat
      BY <2>9 DEF DbShape
    <3>3. /\ DbShape(after)
          /\ after.undo = d.undo /\ after.revision = d.revision
      <4>1. DbShape([table |-> run.table, undo |-> d.undo, revision |-> d.revision])
        BY <3>2, MakeDbShape
      <4> HIDE DEF after
      <4> QED
        BY <3>2, <4>1
    <3> HIDE DEF after, done
    <3>4. SetRevision(after, b.num)
            = [table |-> run.table, undo |-> d.undo, revision |-> b.num]
      BY <3>2 DEF SetRevision
    <3>5. /\ DbShape(SetRevision(after, b.num))
          /\ SetRevision(after, b.num).undo = d.undo
          /\ SetRevision(after, b.num).revision = b.num
      <4>1. b.num \in Nat
        BY <2>1, <2>3
      <4>2. DbShape([table |-> run.table, undo |-> d.undo, revision |-> b.num])
        BY <3>2, <4>1, MakeDbShape
      <4> QED
        BY <3>4, <4>2
    <3>6. /\ DbShape(db2)
          /\ db2.undo = d.undo
          /\ run.ok /\ done => db2.revision = b.num
      <4>1. CASE run.ok /\ done /\ b.num <= irr2
        BY <3>5, <4>1
      <4>2. CASE ~(run.ok /\ done /\ b.num <= irr2)
        <5>1. db2 = after
          BY <4>2
        <5>2. run.ok /\ done => b.num > irr2
          BY <4>2, <2>1, <2>3, <2>8
        <5> HIDE DEF db2
        <5> QED
          BY <2>9, <3>3, <5>1, <5>2
      <4> QED
        BY <4>1, <4>2
    <3> HIDE DEF db2
    <3>7. ~m2.trapped => run.ok /\ done
      BY <3>1
    <3>8. /\ m2.blocks = log2 /\ m2.irreversible = irr2 /\ m2.db = db2
          /\ m2.trapped \in BOOLEAN
      BY <3>1
    <3>9. m2 \in [blocks : Seq(Block), irreversible : UInt, db : {m2.db}, trapped : BOOLEAN]
      BY <2>1, <3>1, <3>8
    <3>10. ~m2.trapped => /\ Len(m2.db.undo) = k + 1 - irr2
                          /\ m2.db.revision = k + 1
      <4>1. SUFFICES ASSUME ~m2.trapped
                     PROVE  /\ Len(m2.db.undo) = k + 1 - irr2
                            /\ m2.db.revision = k + 1
        OBVIOUS
      <4>2. run.ok /\ done
        BY <3>7, <4>1
      <4>3. m2.db.undo = d.undo /\ m2.db.revision = b.num
        BY <3>6, <3>8, <4>2
      <4> QED
        BY <2>1, <2>3, <2>8, <2>9, <4>3
    <3> QED
      BY <3>6, <3>8, <3>9, <3>10
  <2> HIDE DEF m2
  <2>12. ChainOf(m2, tr) = chain2
    BY <2>11 DEF ChainOf, chain2
  <2>13. Inv(m2, tr)
    <3>1. Shape(m2, tr)
      BY <2>2, <2>11 DEF Shape
    <3>2. Irreversible(m2, tr)
      <4>1. irr2 <= Len(chain2)
        BY <2>1, <2>8
      <4>2. tr # <<>> => Len(tr) < irr2
        BY <2>2, <2>8 DEF Inv, Irreversible
      <4> QED
        BY <2>11, <2>12, <4>1, <4>2 DEF Irreversible
    <3>3. Sessions(m2, tr)
      <4>1. SUFFICES ASSUME ~m2.trapped
                     PROVE  /\ Len(m2.db.undo) = Len(ChainOf(m2, tr)) - m2.irreversible
                            /\ m2.db.revision = Len(ChainOf(m2, tr))
        BY DEF Sessions
      <4>2. /\ m2.irreversible = irr2
            /\ Len(m2.db.undo) = k + 1 - irr2
            /\ m2.db.revision = k + 1
        BY <2>11, <4>1
      <4> QED
        BY <2>3, <2>1, <2>8, <2>12, <4>2
    <3> QED
      BY <2>1, <2>12, <3>1, <3>2, <3>3 DEF Inv
  <2>14. ChainStep(chain, m.irreversible, chain2, irr2)
    BY <2>1 DEF ChainStep
  <2> QED
    BY <2>10, <2>11, <2>12, <2>13, <2>14 DEF Correct, chain
<1> QED
  BY <1>1, <1>2

(* The box builds a block it may add, or one numbered 0 once the numbers   *)
(* are used up, which add_block refuses.                                   *)
LEMMA BlockForIsBlock ==
  ASSUME NEW m, NEW tr, Inv(m, tr), NEW e \in EosioBlock, NEW num \in UInt
  PROVE  BlockFor(m, e) \in Block \/ addEosioBlock(m, e, num) = m
<1> DEFINE log == m.blocks
           prev == BlockBeforeEosioNum(log, e.num)
           b == BlockFor(m, e)
<1>1. /\ log \in Seq(Block) /\ Len(log) \in Nat
      /\ SortedByEosioNum(log)
  BY LogInChain
<1>2. e.num \in UInt
  BY EosioAssumption
<1>3. /\ prev \in 0..Len(log)
      /\ prev > 0 => log[prev].eosio.num < e.num
  <2>1. /\ LowerBoundByEosioNum(log, e.num) \in 1..Len(log) + 1
        /\ \A j \in 1..LowerBoundByEosioNum(log, e.num) - 1 : log[j].eosio.num < e.num
    BY <1>1, <1>2, LowerBoundByEosioNumSeparates
  <2> QED
    BY <1>1, <2>1 DEF BlockBeforeEosioNum
<1> HIDE DEF prev
<1>4. CASE prev = 0
  <2>1. b \in Block
    BY <1>4, ClosureAssumption DEF BlockFor, prev
  <2> QED
    BY <2>1
<1>5. CASE prev # 0
  <2>1. prev \in 1..Len(log)
    BY <1>1, <1>3, <1>5
  <2>2. log[prev] \in Block /\ log[prev].num \in UInt
    BY <1>1, <2>1, ElementOfSeq, BlockAssumption
  <2>3. b = MakeBlock(Inc(log[prev].num), log[prev].id, e)
    BY <1>5 DEF BlockFor, prev
  <2>4. CASE log[prev].num < MaxUInt
    <3>1. b \in Block
      BY <1>3, <2>1, <2>2, <2>3, <2>4, IncWraps, ClosureAssumption
    <3> QED
      BY <3>1
  <2>5. CASE log[prev].num = MaxUInt
    <3>1. b.num = 0
      BY <2>2, <2>3, <2>5, IncWraps DEF MakeBlock
    <3>2. LowerBoundByNum(log, 0) = 1
      <4>1. log = <<>> \/ log[1].num \in UInt
        BY <1>1, EmptySeq, ElementOfSeq, BlockAssumption
      <4> QED
        BY <4>1, WidthAssumption DEF LowerBoundByNum, UInt
    <3>3. ~Accepts(m, b)
      BY <3>1, <3>2 DEF Accepts, IsAppendable, IsLinkable
    <3>4. addEosioBlock(m, e, num) = m
      BY <3>3 DEF addEosioBlock, addBlock
    <3> QED
      BY <3>4
  <2> QED
    BY <2>2, <2>4, <2>5, WidthAssumption DEF UInt
<1> QED
  BY <1>4, <1>5

LEMMA AddEosioBlockCorrect ==
  ASSUME NEW m, NEW tr, Inv(m, tr), ~m.trapped, NEW e \in EosioBlock, NEW num \in UInt
  PROVE  Correct(m, tr, addEosioBlock(m, e, num), tr)
<1>1. BlockFor(m, e) \in Block \/ addEosioBlock(m, e, num) = m
  BY BlockForIsBlock
<1> QED
  BY <1>1, AddBlockCorrect, NoChangeCorrect DEF addEosioBlock

LEMMA SetIrreversibleCorrect ==
  ASSUME NEW m, NEW tr, Inv(m, tr), ~m.trapped, NEW num \in UInt
  PROVE  Correct(m, tr, setIrreversible(m, num), tr)
<1> DEFINE log == m.blocks
           chain == ChainOf(m, tr)
           it == BlockBeforeNum(log, Inc(num))
           irr2 == Advanced(log, m.irreversible, it)
           db2 == Commit(m.db, irr2)
           m2 == [blocks |-> log, irreversible |-> irr2, db |-> db2, trapped |-> m.trapped]
<1>1. /\ log \in Seq(Block) /\ tr \in Seq(Block)
      /\ Len(log) \in Nat /\ Len(tr) \in Nat
      /\ Len(chain) = Len(tr) + Len(log)
      /\ NumberedFrom(log, Len(tr))
      /\ m.irreversible \in Nat /\ m.irreversible \in UInt
  BY LogInChain
<1>2. m.irreversible <= Len(chain)
  BY DEF Inv, Irreversible
<1> HIDE DEF chain
<1>3. it \in 0..Len(log)
  <2>1. Inc(num) \in Nat
    BY IncWraps, WidthAssumption DEF UInt
  <2>2. LowerBoundByNum(log, Inc(num)) \in 1..Len(log) + 1
    BY <1>1, <2>1, LowerBoundByNumIsLeast
  <2> QED
    BY <1>1, <2>2 DEF BlockBeforeNum
<1> HIDE DEF it
<1>4. irr2 \in UInt /\ irr2 \in m.irreversible..Len(chain)
  BY <1>1, <1>2, <1>3, AdvancedInRange
<1>5. setIrreversible(m, num) = m2
  <2>1. setIrreversible(m, num) = [m EXCEPT !.irreversible = irr2, !.db = db2]
    BY DEF setIrreversible, it
  <2>2. m = [blocks |-> log, irreversible |-> m.irreversible, db |-> m.db,
             trapped |-> m.trapped]
    BY DEF Inv, Shape
  <2> HIDE DEF irr2, db2
  <2> QED
    BY <2>1, <2>2
<1> HIDE DEF irr2
<1>6. irr2 \in Nat /\ m.irreversible <= irr2 /\ irr2 <= Len(chain)
  BY <1>1, <1>4
<1>7. /\ DbShape(m.db)
      /\ Len(m.db.undo) = Len(chain) - m.irreversible
      /\ m.db.revision = Len(chain)
      /\ m.trapped \in BOOLEAN
  BY DEF Inv, Shape, Sessions, chain
<1>8. /\ DbShape(db2)
      /\ Len(db2.undo) = Len(chain) - irr2
      /\ db2.revision = Len(chain)
  <2>1. /\ DbShape(db2)
        /\ db2.revision = Len(chain)
        /\ Len(db2.undo) = IF Len(chain) - irr2 <= 0 THEN 0
                           ELSE IF Len(chain) - irr2 < Len(chain) - m.irreversible
                           THEN Len(chain) - irr2
                           ELSE Len(chain) - m.irreversible
    BY <1>6, <1>7, CommitKeepsShape
  <2>2. Len(chain) \in Nat /\ m.irreversible \in Nat
    BY <1>1
  <2>3. Len(db2.undo) = Len(chain) - irr2
    <3>1. CASE irr2 = Len(chain)
      BY <2>1, <2>2, <3>1
    <3>2. CASE irr2 < Len(chain)
      BY <1>6, <2>1, <2>2, <3>2
    <3> QED
      BY <1>6, <2>2, <3>1, <3>2
  <2> QED
    BY <2>1, <2>3
<1> HIDE DEF db2
<1>9. ChainOf(m2, tr) = chain
  BY DEF ChainOf, chain
<1>10. Inv(m2, tr)
  <2>1. Shape(m2, tr)
    BY <1>1, <1>4, <1>7, <1>8 DEF Shape
  <2>2. Irreversible(m2, tr)
    <3>1. tr # <<>> => Len(tr) < irr2
      BY <1>1, <1>6 DEF Inv, Irreversible
    <3> QED
      BY <1>6, <1>9, <3>1 DEF Irreversible
  <2>3. Sessions(m2, tr)
    BY <1>8, <1>9 DEF Sessions
  <2>4. Linked(chain) /\ SortedByEosioNum(chain)
    BY DEF Inv, chain
  <2> HIDE DEF m2
  <2> QED
    BY <1>9, <2>1, <2>2, <2>3, <2>4 DEF Inv
<1>11. ChainStep(chain, m.irreversible, ChainOf(m2, tr), m2.irreversible)
  BY <1>4, <1>9 DEF ChainStep
<1> HIDE DEF m2
<1> QED
  BY <1>5, <1>10, <1>11 DEF Correct, chain

(* undo removes only blocks behind the irreversible one.                   *)
LEMMA NumUndoneInRange ==
  ASSUME NEW m, NEW tr, Inv(m, tr), NEW num \in Nat
  PROVE  LET n == NumUndone(m.blocks, m.irreversible, num)
         IN  n \in 0..Len(ChainOf(m, tr)) - m.irreversible /\ n <= Len(m.blocks)
<1> DEFINE log == m.blocks
           chain == ChainOf(m, tr)
           n == NumUndone(log, m.irreversible, num)
           it == LowerBoundByNum(log, num)
<1>1. /\ log \in Seq(Block) /\ chain \in Seq(Block)
      /\ Len(log) \in Nat /\ Len(tr) \in Nat
      /\ Len(chain) = Len(tr) + Len(log)
      /\ NumberedFrom(log, Len(tr))
      /\ m.irreversible \in Nat
  BY LogInChain
<1>2. m.irreversible <= Len(chain)
  BY DEF Inv, Irreversible
<1>3. num \in Nat
  OBVIOUS
<1>4. n \in 0..Len(chain) - m.irreversible /\ n <= Len(log)
  <2>1. /\ it \in 1..Len(log) + 1
        /\ num > Len(tr) /\ num <= Len(tr) + Len(log) => it = num - Len(tr)
    BY <1>1, <1>3, LowerBoundByNumIsLeast
  <2> HIDE DEF it, log, chain
  <2>2. n = 0 \/ (/\ num > m.irreversible /\ it <= Len(log) /\ log[it].num = num
                 /\ n = Len(log) + 1 - it)
    <3>1. BlockByNum(log, num) = IF it <= Len(log) /\ log[it].num = num THEN it ELSE 0
      BY DEF BlockByNum, it
    <3>2. n = IF num <= m.irreversible \/ BlockByNum(log, num) = 0 THEN 0
              ELSE Len(log) + 1 - BlockByNum(log, num)
      BY DEF NumUndone
    <3> HIDE DEF n
    <3> QED
      BY <1>1, <1>3, <2>1, <3>1, <3>2
  <2> HIDE DEF n
  <2>3. CASE n = 0
    BY <1>1, <1>2, <2>3
  <2>4. CASE n # 0
    <3>1. num = Len(tr) + it
      BY <1>1, <2>1, <2>2, <2>4 DEF NumberedFrom
    <3> QED
      BY <1>1, <1>3, <2>1, <2>2, <2>4, <3>1
  <2> QED
    BY <2>3, <2>4
<1> QED
  BY <1>4

LEMMA UndoBlockNumCorrect ==
  ASSUME NEW m, NEW tr, Inv(m, tr), ~m.trapped, NEW num \in Nat
  PROVE  Correct(m, tr, undoBlockNum(m, num), tr)
<1> DEFINE log == m.blocks
           chain == ChainOf(m, tr)
           n == NumUndone(log, m.irreversible, num)
           p == Len(log) - n
           cut == SubSeq(log, 1, p)
           db2 == UndoSessions(m.db, n)
           m2 == [blocks |-> cut, irreversible |-> m.irreversible, db |-> db2,
                  trapped |-> m.trapped]
<1>1. /\ log \in Seq(Block) /\ tr \in Seq(Block) /\ chain \in Seq(Block)
      /\ Len(log) \in Nat /\ Len(tr) \in Nat
      /\ Len(chain) = Len(tr) + Len(log)
      /\ NumberedFrom(log, Len(tr))
      /\ m.irreversible \in Nat /\ m.irreversible \in UInt
  BY LogInChain
<1>2. /\ m.irreversible <= Len(chain)
      /\ tr # <<>> => Len(tr) < m.irreversible
      /\ Linked(chain) /\ SortedByEosioNum(chain)
  BY DEF Inv, Irreversible
<1>4. n \in 0..Len(chain) - m.irreversible /\ n <= Len(log)
  BY NumUndoneInRange
<1>5. undoBlockNum(m, num) = m2
  <2>1. undoBlockNum(m, num) = [m EXCEPT !.blocks = cut, !.db = db2]
    <3>1. undoBlockNum(m, num) = [m EXCEPT !.blocks = DropLast(m.blocks, n),
                                           !.db = UndoSessions(m.db, n)]
      <4>1. m = [blocks |-> log, irreversible |-> m.irreversible, db |-> m.db,
                 trapped |-> m.trapped]
        BY DEF Inv, Shape
      <4> HIDE DEF n
      <4> QED
        BY <4>1 DEF undoBlockNum, n
    <3> HIDE DEF n
    <3> QED
      BY <3>1 DEF DropLast
  <2>2. m = [blocks |-> log, irreversible |-> m.irreversible, db |-> m.db,
             trapped |-> m.trapped]
    BY DEF Inv, Shape
  <2> HIDE DEF cut, db2
  <2> QED
    BY <2>1, <2>2
<1> HIDE DEF chain, n
<1>6. /\ DbShape(m.db)
      /\ Len(m.db.undo) = Len(chain) - m.irreversible
      /\ m.db.revision = Len(chain)
      /\ m.trapped \in BOOLEAN
  BY DEF Inv, Shape, Sessions, chain
<1>7. /\ DbShape(db2)
      /\ Len(db2.undo) = Len(chain) - m.irreversible - n
      /\ db2.revision = Len(chain) - n
  <2>1. n \in 0..Len(m.db.undo) /\ n <= m.db.revision
    BY <1>1, <1>2, <1>4, <1>6
  <2>2. /\ DbShape(db2)
        /\ Len(db2.undo) = Len(m.db.undo) - n
        /\ db2.revision = m.db.revision - n
    BY <1>6, <2>1, UndoSessionsKeepsShape
  <2> QED
    BY <1>6, <2>2
<1> HIDE DEF db2
<1> DEFINE k == Len(chain) - n
<1>8. /\ k \in m.irreversible..Len(chain) /\ k \in 0..Len(chain) /\ k \in Nat
      /\ n \in Nat
      /\ p \in 0..Len(log)
      /\ Len(tr) + p = k
  BY <1>1, <1>2, <1>4
<1>9. /\ cut \in Seq(Block)
      /\ tr \o cut = SubSeq(chain, 1, k)
  <2> HIDE DEF p, k
  <2>1. /\ SubSeq(log, 1, p) \in Seq(Block)
        /\ tr \o SubSeq(log, 1, p) = SubSeq(tr \o log, 1, Len(tr) + p)
    BY <1>1, <1>8, CutLog
  <2> QED
    BY <1>8, <2>1 DEF chain, ChainOf
<1> HIDE DEF cut, k, p
<1>10. /\ ChainOf(m2, tr) = SubSeq(chain, 1, k)
       /\ Len(SubSeq(chain, 1, k)) = k
       /\ Linked(SubSeq(chain, 1, k))
       /\ SortedByEosioNum(SubSeq(chain, 1, k))
  BY <1>1, <1>2, <1>8, <1>9, CutChain DEF ChainOf
<1>11. Inv(m2, tr)
  <2>1. Shape(m2, tr)
    BY <1>1, <1>6, <1>7, <1>9 DEF Shape
  <2>2. Irreversible(m2, tr)
    BY <1>2, <1>8, <1>10 DEF Irreversible
  <2>3. Sessions(m2, tr)
    <3>1. Len(db2.undo) = k - m.irreversible /\ db2.revision = k
      BY <1>1, <1>7, <1>8 DEF k
    <3> QED
      BY <1>10, <3>1 DEF Sessions
  <2> HIDE DEF m2
  <2> QED
    BY <1>10, <2>1, <2>2, <2>3 DEF Inv
<1>12. ChainStep(chain, m.irreversible, ChainOf(m2, tr), m2.irreversible)
  BY <1>8, <1>10 DEF ChainStep
<1> HIDE DEF m2
<1> QED
  BY <1>5, <1>11, <1>12 DEF Correct, chain

LEMMA FoundByEosioNum ==
  ASSUME NEW m, NEW tr, Inv(m, tr), NEW num \in UInt,
         BlockByEosioNum(m.blocks, num) # 0
  PROVE  m.blocks[BlockByEosioNum(m.blocks, num)].num \in UInt
<1> DEFINE it == BlockByEosioNum(m.blocks, num)
<1>1. /\ m.blocks \in Seq(Block) /\ Len(m.blocks) \in Nat
      /\ SortedByEosioNum(m.blocks)
  BY LogInChain
<1>2. it \in 1..Len(m.blocks)
  <2>1. LowerBoundByEosioNum(m.blocks, num) \in 1..Len(m.blocks) + 1
    BY <1>1, LowerBoundByEosioNumSeparates
  <2> QED
    BY <1>1, <2>1 DEF BlockByEosioNum
<1> HIDE DEF it
<1>3. m.blocks[it].num \in UInt
  BY <1>1, <1>2, ElementOfSeq, BlockAssumption
<1> QED
  BY <1>3 DEF it

LEMMA UndoEosioNumCorrect ==
  ASSUME NEW m, NEW tr, Inv(m, tr), ~m.trapped, NEW num \in UInt
  PROVE  Correct(m, tr, undoEosioNum(m, num), tr)
<1> DEFINE it == BlockByEosioNum(m.blocks, num)
<1>1. CASE it = 0
  BY <1>1, NoChangeCorrect DEF undoEosioNum
<1>2. CASE it # 0
  <2>1. m.blocks[it].num \in UInt
    BY <1>2, FoundByEosioNum
  <2>2. m.blocks[it].num \in Nat
    BY <2>1, WidthAssumption DEF UInt
  <2> QED
    BY <1>2, <2>2, UndoBlockNumCorrect DEF undoEosioNum
<1> QED
  BY <1>1, <1>2

(* trim moves blocks before the irreversible one out of the log. *)
LEMMA TrimBlocksCorrect ==
  ASSUME NEW m, NEW tr, Inv(m, tr)
  PROVE  LET tr2 == tr \o SubSeq(m.blocks, 1, NumTrimmed(m.blocks, m.irreversible))
         IN  /\ Correct(m, tr, trimBlocks(m), tr2)
             /\ ChainOf(trimBlocks(m), tr2) = ChainOf(m, tr)
<1> DEFINE log == m.blocks
           irr == m.irreversible
           n == NumTrimmed(log, irr)
           front == SubSeq(log, 1, n)
           rest == SubSeq(log, n + 1, Len(log))
           tr2 == tr \o front
           m2 == [blocks |-> rest, irreversible |-> irr, db |-> m.db,
                  trapped |-> m.trapped]
<1>1. /\ log \in Seq(Block) /\ tr \in Seq(Block)
      /\ Len(log) \in Nat /\ Len(tr) \in Nat
      /\ Len(ChainOf(m, tr)) = Len(tr) + Len(log)
      /\ NumberedFrom(log, Len(tr))
      /\ irr \in Nat /\ irr \in UInt
  BY LogInChain
<1>2. /\ irr <= Len(tr) + Len(log)
      /\ tr # <<>> => Len(tr) < irr
  BY <1>1 DEF Inv, Irreversible
<1>3. n \in 0..Len(log) /\ (n > 0 => Len(tr) + n < irr)
  <2>1. /\ LowerBoundByNum(log, irr) \in 1..Len(log) + 1
        /\ irr <= Len(tr) => LowerBoundByNum(log, irr) = 1
        /\ irr > Len(tr) /\ irr <= Len(tr) + Len(log) =>
             LowerBoundByNum(log, irr) = irr - Len(tr)
    BY <1>1, LowerBoundByNumIsLeast
  <2> HIDE DEF log, irr
  <2> QED
    BY <1>1, <1>2, <2>1 DEF NumTrimmed
<1>4. trimBlocks(m) = m2
  <2>1. m = [blocks |-> log, irreversible |-> irr, db |-> m.db, trapped |-> m.trapped]
    BY DEF Inv, Shape
  <2>2. trimBlocks(m) = [m EXCEPT !.blocks = DropFirst(log, n)]
    BY <2>1 DEF trimBlocks
  <2> HIDE DEF n
  <2> QED
    BY <2>1, <2>2 DEF DropFirst
<1> HIDE DEF n
<1>5. /\ front \in Seq(Block) /\ Len(front) = n
      /\ rest \in Seq(Block)
  <2>1. /\ 1 \in 1..Len(log) + 1 /\ n \in 1 - 1..Len(log)
        /\ n + 1 \in 1..Len(log) + 1 /\ Len(log) \in (n + 1) - 1..Len(log)
    BY <1>1, <1>3
  <2>2. /\ front \in Seq(Block) /\ Len(front) = n - 1 + 1
    BY <1>1, <2>1, Slice
  <2>3. rest \in Seq(Block)
    BY <1>1, <2>1, Slice
  <2> QED
    BY <1>1, <1>3, <2>2, <2>3
<1>6. front \o rest = log
  <2>1. 1 \in 1..Len(log) + 1 /\ n \in 1 - 1..Len(log) /\ Len(log) \in n..Len(log)
    BY <1>1, <1>3
  <2>2. front \o rest = SubSeq(log, 1, Len(log))
    BY <1>1, <2>1, ConcatAdjacentSubSeq
  <2> QED
    BY <1>1, <2>2, SubSeqFull
<1> HIDE DEF front, rest
<1>7. /\ tr2 \in Seq(Block)
      /\ Len(tr2) = Len(tr) + n
      /\ tr2 \o rest = tr \o log
  <2>1. tr2 \in Seq(Block) /\ Len(tr2) = Len(tr) + Len(front)
    BY <1>1, <1>5, ConcatProperties
  <2>2. tr2 \o rest = tr \o (front \o rest)
    <3>1. tr \in Seq(Block) /\ front \in Seq(Block) /\ rest \in Seq(Block)
      BY <1>1, <1>5
    <3>2. (tr \o front) \o rest = tr \o (front \o rest)
      BY <3>1, ConcatAssociative, SMTT(30)
    <3> QED
      BY <3>2
  <2> HIDE DEF tr2
  <2> QED
    BY <1>5, <1>6, <2>1, <2>2
<1> HIDE DEF tr2
<1>8. ChainOf(m2, tr2) = ChainOf(m, tr)
  BY <1>7 DEF ChainOf
<1>9. Inv(m2, tr2)
  <2>1. Shape(m2, tr2)
    BY <1>1, <1>5, <1>7 DEF Inv, Shape
  <2>2. Irreversible(m2, tr2)
    <3>1. tr2 # <<>> => Len(tr2) < irr
      <4>1. CASE n > 0
        BY <1>3, <1>7, <4>1
      <4>2. CASE n = 0
        <5>1. Len(tr2) = Len(tr)
          BY <1>1, <1>7, <4>2
        <5>2. tr2 # <<>> => Len(tr2) # 0
          BY <1>7, EmptySeq
        <5>3. tr # <<>> \/ Len(tr) = 0
          BY EmptySeq
        <5> QED
          BY <1>2, <5>1, <5>2, <5>3
      <4> QED
        BY <1>1, <1>3, <4>1, <4>2
    <3> QED
      BY <1>8, <3>1 DEF Inv, Irreversible
  <2>3. Sessions(m2, tr2)
    BY <1>8 DEF Inv, Sessions
  <2> HIDE DEF m2
  <2> QED
    BY <1>8, <2>1, <2>2, <2>3 DEF Inv
<1>10. m2.irreversible = m.irreversible
  OBVIOUS
<1>11. irr \in irr..Len(ChainOf(m, tr))
  BY <1>1, <1>2
<1> HIDE DEF m2
<1> QED
  BY <1>4, <1>8, <1>9, <1>10, <1>11 DEF Correct, ChainStep, tr2, front, n
-----------------------------------------------------------------------------
(* What the tables of a micro-chain hold: they are the replay of its       *)
(* chain, and only a block that does not decode traps.                     *)

Tables == [Account -> Message \cup {NoMessage}]

Runs == [table : Tables, ok : BOOLEAN]

(* An action keeps the table one, and aborts only when it does not decode. *)
LEMMA DispatchRuns ==
  ASSUME NEW run \in Runs, NEW action \in Action
  PROVE  /\ Dispatch(run, action) \in Runs
         /\ Dispatch(run, action).ok <=> run.ok /\ action.kind # "undecodable"
<1>1. run = [table |-> run.table, ok |-> run.ok] /\ run.table \in Tables
  BY DEF Runs
<1>2. CASE ~run.ok
  BY <1>2 DEF Dispatch
<1>3. CASE run.ok /\ action.kind = "hi"
  <2>1. action.account \in Account /\ action.message \in Message
    BY <1>3 DEF Action
  <2>2. Dispatch(run, action)
          = [run EXCEPT !.table = hi(@, action.account, action.message)]
    BY <1>3 DEF Dispatch
  <2>3. hi(run.table, action.account, action.message) \in Tables
    BY <1>1, <2>1 DEF hi, Tables
  <2> QED
    BY <1>1, <1>3, <2>2, <2>3 DEF Runs
<1>4. CASE run.ok /\ action.kind = "clearall"
  BY <1>1, <1>4 DEF Dispatch, clearall, EmptyTable, Tables, Runs
<1>5. CASE run.ok /\ action.kind = "ignored"
  BY <1>5 DEF Dispatch
<1>6. CASE run.ok /\ action.kind = "undecodable"
  BY <1>1, <1>6 DEF Dispatch, Runs
<1> QED
  BY <1>1, <1>2, <1>3, <1>4, <1>5, <1>6 DEF Action, Runs

(* So does a whole block: what the fold over its actions leaves.           *)
LEMMA FilterBlockRuns ==
  ASSUME NEW table \in Tables, NEW e \in EosioBlock
  PROVE  /\ FilterBlock(table, e) \in Runs
         /\ FilterBlock(table, e).ok <=>
              \A i \in 1..Len(e.actions) : e.actions[i].kind # "undecodable"
<1> DEFINE seq == e.actions
           n == Len(seq)
           base == [table |-> table, ok |-> TRUE]
           G == [p \in Runs \X (1..n) |-> Dispatch(p[1], seq[p[2]])]
           Step(f) == [s \in SUBSET (1..n) |->
                         IF s = {} THEN base
                         ELSE Dispatch(f[s \ {Max(s)}], seq[Max(s)])]
           fold == CHOOSE f : f = Step(f)
<1>1. seq \in Seq(Action) /\ n \in Nat /\ DOMAIN seq = 1..n
  BY ActionAssumption
<1>2. base \in Runs
  BY DEF Runs
<1>3. FilterBlock(table, e) = fold[1..n]
  BY <1>1 DEF FilterBlock, FoldLeft, MapThenFoldSet
<1>4. \A i \in 1..n : seq[i] \in Action
  BY <1>1, ElementOfSeq
<1>5. G \in [Runs \X (1..n) -> Runs]
  BY <1>4, DispatchRuns
<1> HIDE DEF base, n
<1>6. PICK g : IsFold(g, Runs, base, n, G)
  <2> HIDE DEF G
  <2> QED
    BY <1>1, <1>2, <1>5, FoldExists
<1>7. g = Step(g)
  <2>1. ASSUME NEW s \in SUBSET (1..n), s # {}
        PROVE  g[s] = Dispatch(g[s \ {Max(s)}], seq[Max(s)])
    <3>1. Max(s) \in 1..n /\ g[s \ {Max(s)}] \in Runs
      BY <1>1, <1>6, <2>1, MaxOfSubset DEF IsFold
    <3> QED
      BY <1>6, <2>1, <3>1 DEF IsFold
  <2> QED
    BY <1>6, <2>1 DEF IsFold
<1> HIDE DEF Step
<1>8. fold = Step(fold)
  BY <1>7
<1> HIDE DEF fold
<1> DEFINE r(k) == fold[1..k]
           Good(k) == /\ r(k) \in Runs
                      /\ r(k).ok <=> \A i \in 1..k : seq[i].kind # "undecodable"
           S == {k \in Nat : k <= n => Good(k)}
<1>9. r(0) = base
  <2>1. 1..0 = {}
    OBVIOUS
  <2> QED
    BY <1>8, <2>1 DEF Step
<1>10. ASSUME NEW k \in 1..n
       PROVE  r(k) = Dispatch(r(k - 1), seq[k])
  <2>1. k \in Nat \ {0} /\ 1..k \in SUBSET (1..n)
    BY <1>1
  <2>2. Max(1..k) = k /\ (1..k) \ {k} = 1..k - 1 /\ 1..k # {}
    BY <2>1, MaxOfInitial
  <2> QED
    BY <1>8, <2>1, <2>2 DEF Step
<1> HIDE DEF r
<1>11. 0 \in S
  <2>1. r(0).ok /\ 1..0 = {}
    BY <1>9 DEF base
  <2> QED
    BY <1>2, <1>9, <2>1
<1>12. ASSUME NEW k \in Nat, k \in S PROVE k + 1 \in S
  <2>1. SUFFICES ASSUME k + 1 <= n, Good(k) PROVE Good(k + 1)
    BY <1>1, <1>12
  <2>2. k + 1 \in 1..n /\ (k + 1) - 1 = k
    BY <1>1, <2>1
  <2>3. r(k + 1) = Dispatch(r(k), seq[k + 1]) /\ seq[k + 1] \in Action
    BY <1>4, <1>10, <2>2
  <2>4. /\ r(k + 1) \in Runs
        /\ r(k + 1).ok <=> r(k).ok /\ seq[k + 1].kind # "undecodable"
    BY <2>1, <2>3, DispatchRuns
  <2>5. 1..k + 1 = (1..k) \cup {k + 1}
    BY <1>12
  <2> QED
    BY <2>1, <2>4, <2>5
<1>13. n \in S
  <2> HIDE DEF S
  <2> QED
    BY <1>1, <1>11, <1>12, NatInductionOnSet
<1> QED
  BY <1>1, <1>3, <1>13 DEF r, n

(* Replaying a chain runs through one table per block.                     *)
IsReplay(r, chain) ==
  /\ r[0] = EmptyTable
  /\ Replay(chain) = r[Len(chain)]
  /\ \A k \in 0..Len(chain) : r[k] \in Tables
  /\ \A k \in 1..Len(chain) : r[k] = FilterBlock(r[k - 1], chain[k].eosio).table

LEMMA ReplayRun ==
  ASSUME NEW chain \in Seq(Block)
  PROVE  \E r : IsReplay(r, chain)
<1> DEFINE n == Len(chain)
           Step(f) == [s \in SUBSET (1..n) |->
                         IF s = {} THEN EmptyTable
                         ELSE FilterBlock(f[s \ {Max(s)}], chain[Max(s)].eosio).table]
           G == [p \in Tables \X (1..n) |-> FilterBlock(p[1], chain[p[2]].eosio).table]
           fold == CHOOSE f : f = Step(f)
           r == [k \in 0..n |-> fold[1..k]]
<1>1. n \in Nat /\ DOMAIN chain = 1..n
  OBVIOUS
<1>2. EmptyTable \in Tables
  BY DEF EmptyTable, Tables
<1>3. Replay(chain) = fold[1..n]
  BY <1>1 DEF Replay, FoldLeft, MapThenFoldSet
<1>4. \A i \in 1..n : chain[i].eosio \in EosioBlock
  BY <1>1, ElementOfSeq, BlockAssumption
<1>5. \A table \in Tables, i \in 1..n :
        FilterBlock(table, chain[i].eosio).table \in Tables
  BY <1>4, FilterBlockRuns DEF Runs
<1>6. G \in [Tables \X (1..n) -> Tables]
  BY <1>5
<1> HIDE DEF n
<1>7. PICK g : IsFold(g, Tables, EmptyTable, n, G)
  <2> HIDE DEF G
  <2> QED
    BY <1>1, <1>2, <1>6, FoldExists
<1>8. g = Step(g)
  <2>1. ASSUME NEW s \in SUBSET (1..n), s # {}
        PROVE  g[s] = FilterBlock(g[s \ {Max(s)}], chain[Max(s)].eosio).table
    <3>1. Max(s) \in 1..n /\ g[s \ {Max(s)}] \in Tables
      BY <1>1, <1>7, <2>1, MaxOfSubset DEF IsFold
    <3> QED
      BY <1>7, <2>1, <3>1 DEF IsFold
  <2> QED
    BY <1>7, <2>1 DEF IsFold
<1> HIDE DEF Step
<1>9. fold = Step(fold)
  BY <1>8
<1> HIDE DEF fold
<1>10. r[0] = EmptyTable
  <2>1. 1..0 = {} /\ 0 \in 0..n
    BY <1>1
  <2> QED
    BY <1>9, <2>1 DEF Step
<1>11. ASSUME NEW k \in 1..n
       PROVE  r[k] = FilterBlock(r[k - 1], chain[k].eosio).table
  <2>1. k \in Nat \ {0} /\ 1..k \in SUBSET (1..n) /\ k \in 0..n /\ k - 1 \in 0..n
    BY <1>1
  <2>2. Max(1..k) = k /\ (1..k) \ {k} = 1..k - 1 /\ 1..k # {}
    BY <2>1, MaxOfInitial
  <2>3. r[k] = fold[1..k] /\ r[k - 1] = fold[1..k - 1]
    BY <2>1
  <2> HIDE DEF r
  <2>4. fold[1..k] = FilterBlock(fold[(1..k) \ {Max(1..k)}], chain[Max(1..k)].eosio).table
    BY <1>9, <2>1, <2>2, Zenon DEF Step
  <2> QED
    BY <2>2, <2>3, <2>4
<1>12. Replay(chain) = r[n]
  BY <1>1, <1>3
<1> HIDE DEF r
<1>13. \A k \in 0..n : r[k] \in Tables
  <2> DEFINE S == {k \in Nat : k <= n => r[k] \in Tables}
  <2>1. 0 \in S
    BY <1>2, <1>10
  <2>2. ASSUME NEW k \in Nat, k \in S PROVE k + 1 \in S
    <3>1. SUFFICES ASSUME k + 1 <= n, r[k] \in Tables PROVE r[k + 1] \in Tables
      BY <1>1, <2>2
    <3>2. k + 1 \in 1..n /\ (k + 1) - 1 = k
      BY <1>1, <3>1
    <3> QED
      BY <1>5, <1>11, <3>1, <3>2
  <2>3. \A k \in Nat : k \in S
    <3> HIDE DEF S
    <3> QED
      BY <2>1, <2>2, NatInductionOnSet
  <2> QED
    BY <1>1, <2>3
<1> QED
  BY <1>10, <1>11, <1>12, <1>13 DEF n, IsReplay

(* One more block: the table that it makes of the replay without it.       *)
LEMMA ReplayExtends ==
  ASSUME NEW chain \in Seq(Block), NEW next \in Seq(Block),
         Len(next) = Len(chain) + 1,
         \A i \in 1..Len(chain) : next[i] = chain[i]
  PROVE  /\ Replay(chain) \in Tables
         /\ Replay(next) = FilterBlock(Replay(chain), next[Len(next)].eosio).table
<1> DEFINE n == Len(chain)
<1>1. n \in Nat
  OBVIOUS
<1> HIDE DEF n
<1>2. PICK r : IsReplay(r, chain)
  BY ReplayRun
<1>3. PICK q : IsReplay(q, next)
  BY ReplayRun
<1>4. \A k \in 1..n : next[k] = chain[k] /\ k \in 1..n + 1
  BY <1>1 DEF n
<1>20. /\ r[0] = EmptyTable
       /\ Replay(chain) = r[n]
       /\ \A k \in 0..n : r[k] \in Tables
       /\ \A k \in 1..n : r[k] = FilterBlock(r[k - 1], chain[k].eosio).table
  BY <1>2 DEF IsReplay, n
<1>21. /\ q[0] = EmptyTable
       /\ Replay(next) = q[n + 1]
       /\ \A k \in 1..n + 1 : q[k] = FilterBlock(q[k - 1], next[k].eosio).table
  BY <1>3 DEF IsReplay, n
<1>5. \A k \in 1..n : r[k - 1] = q[k - 1] => r[k] = q[k]
  BY <1>20, <1>21, <1>4
<1>6. \A k \in 0..n : r[k] = q[k]
  <2>1. r[0] = q[0]
    BY <1>20, <1>21
  <2>2. \A r1, r2 :
          r1[0] = r2[0] /\ (\A k \in 1..n : r1[k - 1] = r2[k - 1] => r1[k] = r2[k])
            => \A k \in 0..n : r1[k] = r2[k]
    BY <1>1, SameRun, Zenon
  <2> QED
    BY <1>5, <2>1, <2>2
<1>7. n \in 0..n /\ n + 1 \in 1..n + 1 /\ (n + 1) - 1 = n
  BY <1>1
<1>8. q[n + 1] = FilterBlock(q[n], next[n + 1].eosio).table
  BY <1>21, <1>7
<1> QED
  BY <1>20, <1>21, <1>6, <1>7, <1>8 DEF n

LEMMA ReplayEmpty == Replay(<<>>) = EmptyTable
<1>1. <<>> \in Seq(Block) /\ Len(<<>>) = 0
  BY EmptySeq
<1> QED
  BY <1>1, ReplayRun DEF IsReplay
-----------------------------------------------------------------------------
(* The database holds a chain: its table replays it, and each open session *)
(* replays the part of it before the session's block.                      *)
Holds(d, chain, irr) ==
  /\ d.table = Replay(chain)
  /\ \A i \in 1..Len(d.undo) : d.undo[i] = Replay(SubSeq(chain, 1, irr + i - 1))

LEMMA CutOfCut ==
  ASSUME NEW chain \in Seq(Block), NEW k \in 0..Len(chain), NEW j \in 0..k
  PROVE  /\ SubSeq(chain, 1, k) \in Seq(Block)
         /\ Len(SubSeq(chain, 1, k)) = k
         /\ \A i \in 1..k : SubSeq(chain, 1, k)[i] = chain[i]
         /\ SubSeq(SubSeq(chain, 1, k), 1, j) = SubSeq(chain, 1, j)
<1>1. ASSUME NEW s \in Seq(Block), NEW l \in 0..Len(s)
      PROVE  /\ SubSeq(s, 1, l) \in Seq(Block)
             /\ Len(SubSeq(s, 1, l)) = l
             /\ \A i \in 1..l : SubSeq(s, 1, l)[i] = s[i]
  <2>1. l \in Nat /\ \A i \in 1..l : s[i] \in Block
    BY ElementOfSeq
  <2>2. /\ SubSeq(s, 1, l) \in Seq(Block)
        /\ Len(SubSeq(s, 1, l)) = IF 1 <= l THEN l - 1 + 1 ELSE 0
        /\ \A i \in 1..l - 1 + 1 : SubSeq(s, 1, l)[i] = s[1 + i - 1]
    BY <2>1, SubSeqProperties
  <2> QED
    BY <2>1, <2>2
<1> DEFINE cut == SubSeq(chain, 1, k)
<1>2. cut \in Seq(Block) /\ Len(cut) = k /\ \A i \in 1..k : cut[i] = chain[i]
  BY <1>1
<1>3. j \in 0..Len(chain) /\ j \in 0..Len(cut) /\ j \in Nat /\ k \in Nat /\ j <= k
  BY <1>2
<1> HIDE DEF cut
<1>4. /\ SubSeq(cut, 1, j) \in Seq(Block) /\ SubSeq(chain, 1, j) \in Seq(Block)
      /\ Len(SubSeq(cut, 1, j)) = j /\ Len(SubSeq(chain, 1, j)) = j
      /\ \A i \in 1..j : SubSeq(cut, 1, j)[i] = cut[i]
      /\ \A i \in 1..j : SubSeq(chain, 1, j)[i] = chain[i]
  BY <1>1, <1>2, <1>3
<1>5. \A i \in 1..j : SubSeq(cut, 1, j)[i] = SubSeq(chain, 1, j)[i]
  BY <1>2, <1>3, <1>4
<1>6. SubSeq(cut, 1, j) = SubSeq(chain, 1, j)
  BY <1>4, <1>5, SeqEqual
<1> QED
  BY <1>2, <1>6 DEF cut

LEMMA UndoHolds ==
  ASSUME NEW chain \in Seq(Block), NEW irr \in Nat, NEW d, DbShape(d),
         irr <= Len(chain), Len(d.undo) = Len(chain) - irr, Holds(d, chain, irr),
         NEW n \in 0..Len(d.undo)
  PROVE  Holds(UndoSessions(d, n), SubSeq(chain, 1, Len(chain) - n), irr)
<1> DEFINE k == Len(chain) - n
           cut == SubSeq(chain, 1, k)
           left == Len(d.undo) - n
<1>1. /\ Len(chain) \in Nat /\ n \in Nat /\ Len(d.undo) \in Nat
      /\ k \in 0..Len(chain) /\ left \in Nat /\ left <= Len(d.undo)
      /\ k = irr + left
      /\ d.undo \in Seq(Range(d.undo))
  BY DbFields
<1>2. \A i \in 1..Len(d.undo) : d.undo[i] = Replay(SubSeq(chain, 1, irr + i - 1))
  BY DEF Holds
<1> HIDE DEF k, left
<1>3. \A i \in 1..left + 1 : irr + i - 1 \in 0..k
  BY <1>1
<1>4. \A i \in 1..left + 1 : SubSeq(cut, 1, irr + i - 1) = SubSeq(chain, 1, irr + i - 1)
  BY <1>1, <1>3, CutOfCut
<1> HIDE DEF cut
<1>5. CASE n = 0
  <2>1. UndoSessions(d, n) = d
    BY <1>1, <1>5 DEF UndoSessions
  <2>2. cut = chain
    BY <1>5, SubSeqFull DEF cut, k
  <2> QED
    BY <2>1, <2>2 DEF cut, k
<1>6. CASE n > 0
  <2> DEFINE undo2 == SubSeq(d.undo, 1, left)
  <2>1. UndoSessions(d, n)
          = [table |-> d.undo[Len(d.undo) + 1 - n], undo |-> undo2,
             revision |-> d.revision - n]
    BY <1>1, <1>6 DEF UndoSessions, left
  <2>2. Len(undo2) = left /\ \A i \in 1..left : undo2[i] = d.undo[i]
    <3>1. \A i \in 1..left : d.undo[i] \in Range(d.undo)
      BY <1>1, ElementOfSeq
    <3>2. /\ Len(undo2) = IF 1 <= left THEN left - 1 + 1 ELSE 0
          /\ \A i \in 1..left - 1 + 1 : undo2[i] = d.undo[1 + i - 1]
      BY <1>1, <3>1, SubSeqProperties
    <3> QED
      BY <1>1, <3>2
  <2>3. d.undo[Len(d.undo) + 1 - n] = Replay(cut)
    <3>1. Len(d.undo) + 1 - n \in 1..Len(d.undo) /\ irr + (Len(d.undo) + 1 - n) - 1 = k
      BY <1>1, <1>6 DEF left
    <3> QED
      BY <1>2, <3>1 DEF cut
  <2>4. \A i \in 1..left : undo2[i] = Replay(SubSeq(cut, 1, irr + i - 1))
    <3>1. \A i \in 1..left : i \in 1..Len(d.undo) /\ i \in 1..left + 1
      BY <1>1
    <3> QED
      BY <1>2, <1>4, <2>2, <3>1
  <2> HIDE DEF undo2
  <2> QED
    BY <2>1, <2>2, <2>3, <2>4 DEF Holds, cut, k
<1> QED
  BY <1>1, <1>5, <1>6

LEMMA CommitHolds ==
  ASSUME NEW chain \in Seq(Block), NEW irr \in Nat, NEW d, DbShape(d),
         irr <= Len(chain), Len(d.undo) = Len(chain) - irr, Holds(d, chain, irr),
         d.revision = Len(chain), NEW r \in irr..Len(chain) + 1
  PROVE  Holds(Commit(d, r), chain, r)
<1> DEFINE n == Len(chain)
           newer == d.revision - r
           kept == SubSeq(d.undo, Len(d.undo) + 1 - newer, Len(d.undo))
<1>1. /\ n \in Nat /\ Len(d.undo) \in Nat /\ r \in Nat /\ irr <= r /\ r <= n + 1
      /\ Len(d.undo) = n - irr
      /\ d.undo \in Seq(Range(d.undo))
  BY DbFields
<1>2. /\ d.table = Replay(chain)
      /\ \A i \in 1..Len(d.undo) : d.undo[i] = Replay(SubSeq(chain, 1, irr + i - 1))
  BY DEF Holds
<1>6. newer = n - r /\ newer \in Int
  BY <1>1
<1>7. d = [table |-> d.table, undo |-> d.undo, revision |-> n]
  BY DEF DbShape
<1> HIDE DEF n
<1>3. CASE newer <= 0
  <2>1. Commit(d, r) = [table |-> d.table, undo |-> <<>>, revision |-> n]
    <3>1. Commit(d, r) = [d EXCEPT !.undo = <<>>]
      BY <1>3 DEF Commit
    <3> QED
      BY <1>7, <3>1
  <2>2. Len(<<>>) = 0
    BY EmptySeq
  <2> QED
    BY <1>2, <2>1, <2>2 DEF Holds
<1>4. CASE newer > 0 /\ newer < Len(d.undo)
  <2>1. Commit(d, r) = [table |-> d.table, undo |-> kept, revision |-> n]
    <3>1. Commit(d, r) = [d EXCEPT !.undo = kept]
      BY <1>4 DEF Commit
    <3> HIDE DEF kept
    <3> QED
      BY <1>7, <3>1
  <2>2. Len(kept) = newer /\ \A i \in 1..newer : kept[i] = d.undo[r - irr + i]
    <3> HIDE DEF newer
    <3> DEFINE lo == Len(d.undo) + 1 - newer
    <3>1. lo \in Int /\ lo >= 1 /\ lo <= Len(d.undo) /\ lo = r - irr + 1
      BY <1>1, <1>4, <1>6
    <3>2. \A i \in lo..Len(d.undo) : d.undo[i] \in Range(d.undo)
      BY <1>1, <3>1, ElementOfSeq
    <3> HIDE DEF lo
    <3>3. /\ Len(SubSeq(d.undo, lo, Len(d.undo))) = Len(d.undo) - lo + 1
          /\ \A i \in 1..Len(d.undo) - lo + 1 :
               SubSeq(d.undo, lo, Len(d.undo))[i] = d.undo[lo + i - 1]
      <4>1. Len(d.undo) \in Int /\ lo <= Len(d.undo) /\ lo \in Int
        BY <1>1, <3>1
      <4>2. /\ Len(SubSeq(d.undo, lo, Len(d.undo)))
                 = IF lo <= Len(d.undo) THEN Len(d.undo) - lo + 1 ELSE 0
            /\ \A i \in 1..Len(d.undo) - lo + 1 :
                 SubSeq(d.undo, lo, Len(d.undo))[i] = d.undo[lo + i - 1]
        BY <3>2, <4>1, SubSeqProperties
      <4> QED
        BY <4>1, <4>2
    <3>4. Len(d.undo) - lo + 1 = newer /\ \A i \in 1..newer : lo + i - 1 = r - irr + i
      BY <1>1, <1>4, <1>6, <3>1 DEF lo
    <3> QED
      BY <3>3, <3>4 DEF lo
  <2>3. \A i \in 1..newer : /\ r - irr + i \in 1..Len(d.undo)
                            /\ irr + (r - irr + i) - 1 = r + i - 1
    BY <1>1, <1>4, <1>6
  <2> HIDE DEF kept, newer
  <2>4. \A i \in 1..newer : kept[i] = Replay(SubSeq(chain, 1, r + i - 1))
    BY <1>2, <2>2, <2>3
  <2> QED
    BY <1>2, <2>1, <2>2, <2>4 DEF Holds
<1>5. CASE newer > 0 /\ newer >= Len(d.undo)
  <2>1. Commit(d, r) = d /\ r = irr
    <3>1. Commit(d, r) = d
      BY <1>1, <1>5 DEF Commit
    <3> QED
      BY <1>1, <1>5, <1>6, <3>1
  <2> QED
    BY <2>1
<1> QED
  BY <1>1, <1>3, <1>4, <1>5

LEMMA StartHolds ==
  ASSUME NEW chain \in Seq(Block), NEW irr \in Nat, NEW d, DbShape(d),
         irr <= Len(chain), Len(d.undo) = Len(chain) - irr, Holds(d, chain, irr)
  PROVE  Holds(StartSession(d), chain, irr)
<1>1. /\ Len(chain) \in Nat /\ Len(d.undo) \in Nat
      /\ d.undo \in Seq(Range(d.undo) \cup {d.table})
  BY DbFields, SeqMonotonic
<1>2. /\ d.table = Replay(chain)
      /\ \A i \in 1..Len(d.undo) : d.undo[i] = Replay(SubSeq(chain, 1, irr + i - 1))
  BY DEF Holds
<1> DEFINE undo2 == Append(d.undo, d.table)
           n == Len(d.undo)
<1>3. /\ Len(undo2) = n + 1
      /\ undo2[n + 1] = d.table
      /\ \A i \in 1..n : undo2[i] = d.undo[i]
  <2>1. d.table \in Range(d.undo) \cup {d.table}
    OBVIOUS
  <2> QED
    BY <1>1, <2>1, AppendProperties
<1>4. StartSession(d) = [table |-> d.table, undo |-> undo2, revision |-> d.revision + 1]
  BY DEF StartSession
<1>5. irr + (n + 1) - 1 = Len(chain)
  BY <1>1
<1> HIDE DEF undo2, n
<1>6. undo2[n + 1] = Replay(SubSeq(chain, 1, irr + (n + 1) - 1))
  BY <1>2, <1>3, <1>5, SubSeqFull
<1>7. ASSUME NEW i \in 1..n + 1
      PROVE  undo2[i] = Replay(SubSeq(chain, 1, irr + i - 1))
  <2>1. CASE i = n + 1
    BY <1>6, <2>1
  <2>2. CASE i \in 1..n
    BY <1>2, <1>3, <2>2 DEF n
  <2> QED
    BY <1>1, <2>1, <2>2 DEF n
<1>8. StartSession(d).table = d.table /\ StartSession(d).undo = undo2
  BY <1>4
<1> QED
  BY <1>2, <1>3, <1>7, <1>8, Zenon DEF Holds
-----------------------------------------------------------------------------
(* What an instance holds: the replay of its chain, or a bad block.        *)
Undecodable(b) ==
  \E i \in 1..Len(b.eosio.actions) : b.eosio.actions[i].kind = "undecodable"

Replayed(m, tr) ==
  /\ ~m.trapped => Holds(m.db, ChainOf(m, tr), m.irreversible)
  /\ m.trapped => Undecodable(Last(m.blocks))

(* The database as filter_block finds it: that of the chain the new block  *)
(* extends.                                                                *)
LEMMA DbForBlockHolds ==
  ASSUME NEW m, NEW tr, Inv(m, tr), ~m.trapped, Replayed(m, tr),
         NEW b \in Block, Accepts(m, b),
         NEW irr \in m.irreversible..Kept(m, tr, b) + 1
  PROVE  Holds(DbForBlock(m, b, irr),
               SubSeq(ChainOf(m, tr), 1, Kept(m, tr, b)), irr)
<1> DEFINE chain == ChainOf(m, tr)
           k == Kept(m, tr, b)
           n == NumForked(m.blocks, b)
           cut == SubSeq(chain, 1, k)
           d1 == UndoSessions(m.db, n)
           d2 == Commit(d1, irr)
<1>1. /\ k \in m.irreversible..Len(chain)
      /\ b.num = k + 1
      /\ LowerBoundByNum(m.blocks, b.num) \in 1..Len(m.blocks) + 1
  BY AcceptedFollows
<1>2. /\ chain \in Seq(Block)
      /\ Len(chain) = Len(tr) + Len(m.blocks) /\ Len(chain) \in Nat
      /\ Len(tr) \in Nat /\ Len(m.blocks) \in Nat /\ m.irreversible \in Nat
  BY LogInChain
<1>3. k \in Nat /\ m.irreversible <= k /\ k <= Len(chain)
      /\ irr \in Nat /\ m.irreversible <= irr /\ irr <= k + 1
  BY <1>1, <1>2
<1>4. /\ DbShape(m.db)
      /\ Len(m.db.undo) = Len(chain) - m.irreversible
      /\ m.db.revision = Len(chain)
      /\ Holds(m.db, chain, m.irreversible)
  BY DEF Inv, Shape, Sessions, Replayed
<1>5. n = Len(chain) - k
  BY <1>1, <1>2 DEF NumForked, Kept
<1>6. cut \in Seq(Block) /\ Len(cut) = k
  BY <1>2, <1>3, CutOfCut
<1> HIDE DEF chain, k, n
<1>7. /\ DbShape(d1)
      /\ Len(d1.undo) = k - m.irreversible
      /\ d1.revision = k
      /\ Holds(d1, cut, m.irreversible)
  <2>1. n \in 0..Len(m.db.undo) /\ n <= m.db.revision
    BY <1>2, <1>3, <1>4, <1>5
  <2>2. /\ DbShape(d1)
        /\ Len(d1.undo) = Len(m.db.undo) - n
        /\ d1.revision = m.db.revision - n
    BY <1>4, <2>1, UndoSessionsKeepsShape
  <2>3. Holds(d1, SubSeq(chain, 1, Len(chain) - n), m.irreversible)
    <3>1. m.irreversible \in Nat /\ m.irreversible <= Len(chain)
      BY <1>2, <1>3
    <3>2. Holds(UndoSessions(m.db, n), SubSeq(chain, 1, Len(chain) - n), m.irreversible)
      BY <1>2, <1>4, <2>1, <3>1, UndoHolds
    <3> QED
      BY <3>2
  <2>4. Len(chain) - n = k
    BY <1>2, <1>3, <1>5
  <2> QED
    BY <1>2, <1>3, <1>4, <1>5, <2>2, <2>3, <2>4
<1> HIDE DEF d1, cut
<1>8. /\ DbShape(d2)
      /\ Len(d2.undo) = IF irr > k THEN 0 ELSE k - irr
      /\ Holds(d2, cut, irr)
  <2>1. /\ DbShape(d2)
        /\ Len(d2.undo) = IF k - irr <= 0 THEN 0
                          ELSE IF k - irr < k - m.irreversible THEN k - irr
                          ELSE k - m.irreversible
    BY <1>3, <1>7, CommitKeepsShape
  <2>2. irr \in m.irreversible..Len(cut) + 1
    BY <1>3, <1>6
  <2>3. Holds(d2, cut, irr)
    BY <1>2, <1>3, <1>6, <1>7, <2>2, CommitHolds
  <2> QED
    BY <1>2, <1>3, <2>1, <2>3
<1> HIDE DEF d2
<1>9. DbForBlock(m, b, irr) = IF b.num > irr THEN StartSession(d2) ELSE d2
  BY DEF DbForBlock, d2, d1, n
<1>10. CASE b.num > irr
  <2>1. DbForBlock(m, b, irr) = StartSession(d2)
    BY <1>9, <1>10
  <2>2. irr <= Len(cut) /\ Len(d2.undo) = Len(cut) - irr
    BY <1>1, <1>3, <1>6, <1>8, <1>10
  <2>3. Holds(StartSession(d2), cut, irr)
    BY <1>3, <1>6, <1>8, <2>2, StartHolds
  <2> QED
    BY <2>1, <2>3 DEF cut, chain, k
<1>11. CASE ~(b.num > irr)
  BY <1>8, <1>9, <1>11 DEF cut, chain, k
<1> QED
  BY <1>10, <1>11

LEMMA AddBlockReplays ==
  ASSUME NEW m, NEW tr, Inv(m, tr), ~m.trapped, Replayed(m, tr),
         NEW b \in Block, NEW num \in UInt
  PROVE  Replayed(addBlock(m, b, num), tr)
<1> DEFINE chain == ChainOf(m, tr)
           k == Kept(m, tr, b)
           cut == SubSeq(chain, 1, k)
           log2 == Added(m.blocks, b)
           chain2 == tr \o log2
           irr2 == AdvancedByEosioNum(log2, m.irreversible, num)
           d == DbForBlock(m, b, irr2)
           m2 == ApplyBlock(log2, irr2, d, b)
<1>1. CASE ~Accepts(m, b)
  BY <1>1 DEF addBlock
<1>2. CASE Accepts(m, b)
  <2>1. /\ k \in m.irreversible..Len(chain) /\ k \in 0..Len(chain) /\ k \in Nat
        /\ chain \in Seq(Block)
        /\ b.num = k + 1
        /\ log2 \in Seq(Block)
        /\ Len(tr) + Len(log2) = k + 1
        /\ chain2 = Append(SubSeq(chain, 1, k), b)
        /\ chain2 \in Seq(Block) /\ Len(chain2) = k + 1
        /\ irr2 \in UInt /\ irr2 \in m.irreversible..k + 1
    BY <1>2, AddedEndsChain
  <2>2. /\ DbShape(d)
        /\ Len(d.undo) = b.num - irr2
        /\ d.revision = IF b.num > irr2 THEN b.num ELSE b.num - 1
    BY <1>2, <2>1, SessionsForBlock
  <2>3. Holds(d, cut, irr2)
    BY <1>2, <2>1, DbForBlockHolds
  <2>4. /\ cut \in Seq(Block) /\ Len(cut) = k
        /\ \A j \in 0..k : SubSeq(chain2, 1, j) = SubSeq(cut, 1, j)
    <3>1. cut \in Seq(Block) /\ Len(cut) = k
      BY <2>1, CutOfCut
    <3> HIDE DEF cut, chain2, k
    <3>2. /\ chain2 = Append(cut, b)
          /\ \A i \in 1..k : chain2[i] = cut[i]
      BY <2>1, <3>1, AppendProperties DEF cut
    <3>3. k \in 0..Len(chain2)
      BY <2>1
    <3>4. SubSeq(chain2, 1, k) = cut
      <4>1. /\ SubSeq(chain2, 1, k) \in Seq(Block)
            /\ Len(SubSeq(chain2, 1, k)) = k
            /\ \A i \in 1..k : SubSeq(chain2, 1, k)[i] = chain2[i]
        BY <2>1, <3>3, CutOfCut
      <4>2. \A i \in 1..k : SubSeq(chain2, 1, k)[i] = cut[i]
        BY <3>2, <4>1
      <4> QED
        BY <3>1, <4>1, <4>2, SeqEqual
    <3>5. \A j \in 0..k : SubSeq(SubSeq(chain2, 1, k), 1, j) = SubSeq(chain2, 1, j)
      BY <2>1, <3>3, CutOfCut
    <3> QED
      BY <3>1, <3>4, <3>5
  <2>5. m.irreversible \in Nat
    BY LogInChain
  <2>6. addBlock(m, b, num) = m2
    BY <1>2 DEF addBlock
  <2>7. b.eosio \in EosioBlock
    BY BlockAssumption
  <2>8. chain2[k + 1] = b /\ \A i \in 1..k : chain2[i] = cut[i]
    <3> HIDE DEF cut, chain2, k
    <3>1. chain2 = Append(cut, b)
      BY <2>1 DEF cut
    <3> QED
      BY <2>4, <3>1, AppendProperties
  <2> HIDE DEF k, cut, chain2, irr2, d
  <2>9. /\ Replay(cut) \in Tables
        /\ Replay(chain2) = FilterBlock(Replay(cut), b.eosio).table
    <3>1. Len(chain2) = Len(cut) + 1 /\ \A i \in 1..Len(cut) : chain2[i] = cut[i]
      BY <2>1, <2>4, <2>8
    <3>2. /\ Replay(cut) \in Tables
          /\ Replay(chain2) = FilterBlock(Replay(cut), chain2[Len(chain2)].eosio).table
      BY <2>1, <2>4, <3>1, ReplayExtends
    <3> QED
      BY <2>1, <2>8, <3>2
  <2>10. /\ d.table = Replay(cut)
         /\ \A i \in 1..Len(d.undo) : d.undo[i] = Replay(SubSeq(cut, 1, irr2 + i - 1))
    BY <2>3 DEF Holds
  <2> DEFINE run == FilterBlock(d.table, b.eosio)
             after == [d EXCEPT !.table = run.table]
             done == b.num > irr2 \/ CanSetRevision(after, b.num)
             db2 == IF run.ok /\ done /\ b.num <= irr2 THEN SetRevision(after, b.num)
                    ELSE after
  <2>11. m2 = [blocks |-> log2, irreversible |-> irr2, db |-> db2,
               trapped |-> ~(run.ok /\ done)]
    BY DEF ApplyBlock
  <2>12. /\ run \in Runs
         /\ ~run.ok => Undecodable(b)
    BY <2>7, <2>9, <2>10, FilterBlockRuns DEF Undecodable
  <2> HIDE DEF run, log2, m2
  <2>13. /\ after = [table |-> run.table, undo |-> d.undo, revision |-> d.revision]
    BY <2>2 DEF DbShape
  <2>14. done
    <3>1. irr2 \in Nat
      BY <2>1, <2>5
    <3>2. CASE ~(b.num > irr2)
      <4>1. b.num <= irr2 /\ Len(d.undo) = 0 /\ d.revision = b.num - 1
        BY <2>1, <2>2, <3>1, <3>2, DbFields
      <4>2. d.undo = <<>>
        BY <2>2, <4>1, DbFields, EmptySeq
      <4> QED
        BY <2>1, <2>13, <4>1, <4>2 DEF CanSetRevision
    <3> QED
      BY <3>2
  <2>15. db2.undo = d.undo /\ db2.table = run.table
    BY <2>13 DEF SetRevision
  <2> HIDE DEF done, after, db2
  <2>16. Holds(db2, chain2, irr2)
    <3>1. db2.table = Replay(chain2)
      BY <2>9, <2>10, <2>15 DEF run
    <3>2. ASSUME NEW i \in 1..Len(db2.undo)
          PROVE  db2.undo[i] = Replay(SubSeq(chain2, 1, irr2 + i - 1))
      <4>1. irr2 + i - 1 \in 0..k
        BY <2>1, <2>2, <2>5, <2>15, <3>2
      <4> QED
        BY <2>4, <2>10, <2>15, <4>1
    <3> QED
      BY <3>1, <3>2 DEF Holds
  <2>17. Last(log2) = b
    <3>1. log2 = Append(SubSeq(m.blocks, 1, LowerBoundByNum(m.blocks, b.num) - 1), b)
      BY DEF log2, Added
    <3>2. SubSeq(m.blocks, 1, LowerBoundByNum(m.blocks, b.num) - 1) \in Seq(Block)
      <4>1. /\ m.blocks \in Seq(Block) /\ Len(m.blocks) \in Nat
            /\ LowerBoundByNum(m.blocks, b.num) \in 1..Len(m.blocks) + 1
        BY <1>2, LogInChain, AcceptedFollows
      <4>2. LowerBoundByNum(m.blocks, b.num) - 1 \in 0..Len(m.blocks)
        BY <4>1
      <4> QED
        BY <4>1, <4>2, CutOfCut
    <3> QED
      BY <3>1, <3>2, AppendProperties DEF Last
  <2>18. ChainOf(m2, tr) = chain2 /\ m2.db = db2 /\ m2.irreversible = irr2
         /\ m2.blocks = log2 /\ (m2.trapped => ~run.ok)
    BY <2>11, <2>14 DEF ChainOf, chain2
  <2> QED
    BY <2>6, <2>12, <2>16, <2>17, <2>18 DEF Replayed
<1> QED
  BY <1>1, <1>2
-----------------------------------------------------------------------------
LEMMA AddEosioBlockReplays ==
  ASSUME NEW m, NEW tr, Inv(m, tr), ~m.trapped, Replayed(m, tr),
         NEW e \in EosioBlock, NEW num \in UInt
  PROVE  Replayed(addEosioBlock(m, e, num), tr)
<1>1. BlockFor(m, e) \in Block \/ addEosioBlock(m, e, num) = m
  BY BlockForIsBlock
<1> QED
  BY <1>1, AddBlockReplays DEF addEosioBlock

LEMMA SetIrreversibleReplays ==
  ASSUME NEW m, NEW tr, Inv(m, tr), ~m.trapped, Replayed(m, tr), NEW num \in UInt
  PROVE  Replayed(setIrreversible(m, num), tr)
<1> DEFINE chain == ChainOf(m, tr)
           m2 == setIrreversible(m, num)
           irr2 == Advanced(m.blocks, m.irreversible,
                            BlockBeforeNum(m.blocks, Inc(num)))
<1>1. /\ m = [blocks |-> m.blocks, irreversible |-> m.irreversible, db |-> m.db,
              trapped |-> m.trapped]
      /\ DbShape(m.db)
      /\ Len(m.db.undo) = Len(chain) - m.irreversible
      /\ m.db.revision = Len(chain)
      /\ m.irreversible <= Len(chain)
      /\ Holds(m.db, chain, m.irreversible)
  BY DEF Inv, Shape, Sessions, Irreversible, Replayed
<1>2. /\ chain \in Seq(Block) /\ Len(chain) \in Nat /\ m.irreversible \in Nat
  BY LogInChain
<1>3. /\ m2.blocks = m.blocks /\ m2.irreversible = irr2
      /\ m2.db = Commit(m.db, irr2) /\ m2.trapped = m.trapped
  BY <1>1 DEF setIrreversible
<1>4. Correct(m, tr, m2, tr)
  BY SetIrreversibleCorrect
<1>5. ChainOf(m2, tr) = chain
  BY <1>3 DEF ChainOf
<1> HIDE DEF m2, irr2, chain
<1>6. irr2 >= m.irreversible
  BY <1>1, <1>2, <1>3, <1>4, <1>5, ChainStepKeepsFinal DEF Correct, chain
<1>7. irr2 <= Len(chain) /\ irr2 \in Nat
  BY <1>3, <1>4, <1>5, LogInChain DEF Correct, Inv, Irreversible
<1>8. irr2 \in m.irreversible..Len(chain) + 1
  BY <1>2, <1>6, <1>7
<1>9. Holds(Commit(m.db, irr2), chain, irr2)
  BY <1>1, <1>2, <1>8, CommitHolds
<1> QED
  BY <1>3, <1>5, <1>9 DEF Replayed, m2

LEMMA UndoBlockNumReplays ==
  ASSUME NEW m, NEW tr, Inv(m, tr), ~m.trapped, Replayed(m, tr), NEW num \in Nat
  PROVE  Replayed(undoBlockNum(m, num), tr)
<1> DEFINE chain == ChainOf(m, tr)
           n == NumUndone(m.blocks, m.irreversible, num)
           p == Len(m.blocks) - n
           m2 == undoBlockNum(m, num)
<1>1. /\ m = [blocks |-> m.blocks, irreversible |-> m.irreversible, db |-> m.db,
              trapped |-> m.trapped]
      /\ DbShape(m.db)
      /\ Len(m.db.undo) = Len(chain) - m.irreversible
      /\ m.irreversible <= Len(chain)
      /\ Holds(m.db, chain, m.irreversible)
  BY DEF Inv, Shape, Sessions, Irreversible, Replayed
<1>2. /\ m.blocks \in Seq(Block) /\ tr \in Seq(Block)
      /\ chain \in Seq(Block) /\ Len(chain) \in Nat /\ m.irreversible \in Nat
      /\ Len(m.blocks) \in Nat /\ Len(tr) \in Nat
      /\ Len(chain) = Len(tr) + Len(m.blocks)
  BY LogInChain
<1>3. n \in 0..Len(chain) - m.irreversible /\ n <= Len(m.blocks)
  BY NumUndoneInRange
<1> HIDE DEF n, chain
<1>4. /\ m2.blocks = SubSeq(m.blocks, 1, p) /\ m2.irreversible = m.irreversible
      /\ m2.db = UndoSessions(m.db, n) /\ m2.trapped = m.trapped
  BY <1>1 DEF undoBlockNum, DropLast, n
<1>5. p \in 0..Len(m.blocks) /\ Len(tr) + p = Len(chain) - n
  BY <1>2, <1>3
<1> HIDE DEF m2, p
<1>6. ChainOf(m2, tr) = SubSeq(chain, 1, Len(chain) - n)
  <2>1. tr \o SubSeq(m.blocks, 1, p) = SubSeq(tr \o m.blocks, 1, Len(tr) + p)
    BY <1>2, <1>5, CutLog
  <2> QED
    BY <1>4, <1>5, <2>1 DEF ChainOf, chain
<1>7. Holds(UndoSessions(m.db, n), SubSeq(chain, 1, Len(chain) - n), m.irreversible)
  BY <1>1, <1>2, <1>3, UndoHolds
<1> QED
  BY <1>4, <1>6, <1>7 DEF Replayed, m2

LEMMA UndoEosioNumReplays ==
  ASSUME NEW m, NEW tr, Inv(m, tr), ~m.trapped, Replayed(m, tr), NEW num \in UInt
  PROVE  Replayed(undoEosioNum(m, num), tr)
<1> DEFINE it == BlockByEosioNum(m.blocks, num)
<1>1. CASE it = 0
  BY <1>1 DEF undoEosioNum
<1>2. CASE it # 0
  <2>1. m.blocks[it].num \in UInt
    BY <1>2, FoundByEosioNum
  <2>2. m.blocks[it].num \in Nat
    BY <2>1, WidthAssumption DEF UInt
  <2> QED
    BY <1>2, <2>2, UndoBlockNumReplays DEF undoEosioNum
<1> QED
  BY <1>1, <1>2
-----------------------------------------------------------------------------
(* What the exported functions do, seen from the chain alone: how much of  *)
(* it has been erased from the log makes no difference, and a trimmed      *)
(* memory stays the trimmed form of the whole one.                         *)

(* The blocks that an instance takes: those that follow a block of the     *)
(* chain at or behind the irreversible one, and are not in the chain.      *)
Takes(chain, irr, b) ==
  /\ b.num \in irr + 1..Len(chain) + 1
  /\ b.num > 1 => b.previous = chain[b.num - 1].id
  /\ b.num <= Len(chain) => b # chain[b.num]

LEMMA AcceptsByChain ==
  ASSUME NEW m, NEW tr, Inv(m, tr), NEW b \in Block
  PROVE  Accepts(m, b) <=> Takes(ChainOf(m, tr), m.irreversible, b)
<1> DEFINE log == m.blocks
           chain == ChainOf(m, tr)
           irr == m.irreversible
           it == LowerBoundByNum(log, b.num)
<1>1. /\ log \in Seq(Block) /\ chain \in Seq(Block)
      /\ Len(log) \in Nat /\ Len(tr) \in Nat
      /\ Len(chain) = Len(tr) + Len(log)
      /\ \A i \in 1..Len(log) : log[i] = chain[Len(tr) + i]
      /\ NumberedFrom(log, Len(tr))
      /\ irr \in Nat
  BY LogInChain
<1>2. /\ irr <= Len(chain)
      /\ Len(tr) = 0 \/ Len(tr) < irr
  BY EmptySeq DEF Inv, Irreversible
<1>3. b.num \in Nat /\ b.num \in UInt /\ MaxUInt \in Nat
  BY BlockAssumption, WidthAssumption DEF UInt
<1>4. /\ it \in 1..Len(log) + 1
      /\ b.num > Len(tr) /\ b.num <= Len(tr) + Len(log) => it = b.num - Len(tr)
      /\ b.num > Len(tr) + Len(log) => it = Len(log) + 1
  BY <1>1, <1>3, LowerBoundByNumIsLeast
<1>5. Accepts(m, b) <=>
        /\ ~(it <= Len(log) /\ b.id = log[it].id)
        /\ it = 1 => b.num = 1
        /\ it > 1 => b.previous = log[it - 1].id /\ b.num = Inc(log[it - 1].num)
        /\ it <= Len(log) => log[it].num > irr
  BY DEF Accepts, IsAppendable, IsDuplicate, IsLinkable
<1>6. ASSUME Accepts(m, b)
      PROVE  Takes(chain, irr, b)
  <2>1. /\ Kept(m, tr, b) \in irr..Len(chain)
        /\ b.num = Kept(m, tr, b) + 1
        /\ Kept(m, tr, b) > 0 => b.previous = chain[Kept(m, tr, b)].id
    BY <1>6, AcceptedFollows
  <2> HIDE DEF log, chain, irr, it
  <2>2. b.num \in irr + 1..Len(chain) + 1
    BY <1>1, <2>1
  <2>3. Kept(m, tr, b) = b.num - 1
    BY <1>1, <2>1
  <2>4. b.num > 1 => b.previous = chain[b.num - 1].id
    BY <1>3, <2>1, <2>3
  <2>5. ASSUME b.num <= Len(chain)
        PROVE  b # chain[b.num]
    <3>1. it = b.num - Len(tr) /\ it \in 1..Len(log)
      BY <1>1, <1>2, <1>3, <1>4, <2>2, <2>5
    <3>2. log[it] = chain[b.num]
      BY <1>1, <1>3, <3>1
    <3> QED
      BY <1>5, <1>6, <3>1, <3>2
  <2> QED
    BY <2>2, <2>4, <2>5 DEF Takes
<1>7. ASSUME Takes(chain, irr, b)
      PROVE  Accepts(m, b)
  <2> HIDE DEF log, chain, irr, it
  <2>1. /\ b.num \in irr + 1..Len(chain) + 1
        /\ b.num > 1 => b.previous = chain[b.num - 1].id
        /\ b.num <= Len(chain) => b # chain[b.num]
    BY <1>7 DEF Takes
  <2>2. it = b.num - Len(tr)
    BY <1>1, <1>2, <1>3, <1>4, <2>1
  <2>3. ASSUME it <= Len(log)
        PROVE  b.id # log[it].id /\ log[it].num > irr
    <3>1. log[it] = chain[b.num] /\ b.num <= Len(chain) /\ log[it] \in Block
      BY <1>1, <1>3, <1>4, <2>2, <2>3, ElementOfSeq
    <3>2. log[it].num = b.num
      BY <1>1, <1>3, <1>4, <2>2, <2>3 DEF NumberedFrom
    <3> QED
      BY <1>1, <1>3, <2>1, <3>1, <3>2, HashAssumption
  <2>4. it = 1 => b.num = 1
    BY <1>1, <1>2, <1>3, <2>1, <2>2
  <2>5. ASSUME it > 1
        PROVE  b.previous = log[it - 1].id /\ b.num = Inc(log[it - 1].num)
    <3>1. it - 1 \in 1..Len(log) /\ it - 1 = b.num - 1 - Len(tr)
      BY <1>1, <1>3, <1>4, <2>2, <2>5
    <3>2. log[it - 1] = chain[b.num - 1] /\ b.num > 1
      BY <1>1, <1>3, <2>2, <2>5, <3>1
    <3>3. log[it - 1].num = b.num - 1
      BY <1>1, <1>3, <3>1 DEF NumberedFrom
    <3>4. b.num - 1 \in UInt /\ b.num - 1 < MaxUInt
      BY <1>3, <3>2 DEF UInt
    <3>5. Inc(b.num - 1) = b.num - 1 + 1
      BY <3>4, IncWraps
    <3> QED
      BY <1>3, <2>1, <3>2, <3>3, <3>5
  <2> QED
    BY <1>5, <2>3, <2>4, <2>5
<1> QED
  BY <1>6, <1>7

(* The look-ups by EOSIO number find in the log what they would find in    *)
(* the whole chain, unless that has been erased.                           *)
LEMMA BeforeEosioNumByChain ==
  ASSUME NEW log \in Seq(Block), NEW tr \in Seq(Block), NEW num \in UInt,
         Linked(tr \o log), SortedByEosioNum(tr \o log)
  PROVE  LET j == BlockBeforeEosioNum(tr \o log, num)
             it == BlockBeforeEosioNum(log, num)
         IN  /\ j \in 0..Len(tr \o log)
             /\ it = IF j > Len(tr) THEN j - Len(tr) ELSE 0
<1> DEFINE chain == tr \o log
           p == LowerBoundByEosioNum(chain, num)
           q == LowerBoundByEosioNum(log, num)
<1>1. /\ chain \in Seq(Block)
      /\ Len(log) \in Nat /\ Len(tr) \in Nat
      /\ Len(chain) = Len(tr) + Len(log)
      /\ \A i \in 1..Len(log) : log[i] = chain[Len(tr) + i]
      /\ SortedByEosioNum(log)
  BY EndOfChain
<1>2. /\ p \in 1..Len(chain) + 1
      /\ \A i \in 1..p - 1 : chain[i].eosio.num < num
      /\ \A i \in p..Len(chain) : chain[i].eosio.num >= num
  BY <1>1, LowerBoundByEosioNumSeparates
<1>3. /\ q \in 1..Len(log) + 1
      /\ \A i \in 1..q - 1 : log[i].eosio.num < num
      /\ \A i \in q..Len(log) : log[i].eosio.num >= num
  BY <1>1, LowerBoundByEosioNumSeparates
<1>4. num \in Nat
  BY WidthAssumption DEF UInt
<1>5. \A i \in 1..Len(chain) : chain[i].eosio.num \in Nat
  BY <1>1, ElementOfSeq, BlockAssumption, EosioAssumption, WidthAssumption DEF UInt
<1> HIDE DEF chain, p, q
<1>6. CASE p - 1 > Len(tr)
  <2>1. p - 1 - Len(tr) \in 1..Len(log)
    BY <1>1, <1>2, <1>6
  <2>2. log[p - 1 - Len(tr)].eosio.num < num
    BY <1>1, <1>2, <2>1
  <2>3. ~(p - 1 - Len(tr) >= q)
    <3>1. SUFFICES ASSUME p - 1 - Len(tr) >= q PROVE FALSE
      OBVIOUS
    <3>2. log[p - 1 - Len(tr)].eosio.num \in Nat
      BY <1>1, <1>2, <1>5, <2>1
    <3>3. p - 1 - Len(tr) \in q..Len(log)
      BY <1>1, <1>2, <1>3, <2>1, <3>1
    <3>4. log[p - 1 - Len(tr)].eosio.num >= num
      BY <1>3, <3>3
    <3> QED
      BY <1>4, <2>2, <3>2, <3>4
  <2>4. ~(q - 1 >= p - Len(tr))
    <3>1. SUFFICES ASSUME q - 1 >= p - Len(tr) PROVE FALSE
      OBVIOUS
    <3>2. q - 1 \in 1..q - 1 /\ q - 1 \in 1..Len(log) /\ Len(tr) + (q - 1) \in p..Len(chain)
      BY <1>1, <1>2, <1>3, <1>6, <3>1
    <3>3. log[q - 1].eosio.num < num /\ log[q - 1] = chain[Len(tr) + (q - 1)]
      BY <1>1, <1>3, <3>2
    <3>4. chain[Len(tr) + (q - 1)].eosio.num >= num
          /\ chain[Len(tr) + (q - 1)].eosio.num \in Nat
      <4>1. Len(tr) + (q - 1) \in 1..Len(chain)
        BY <1>2, <3>2
      <4> QED
        BY <1>2, <1>5, <3>2, <4>1
    <3> QED
      BY <1>4, <3>3, <3>4
  <2>5. q - 1 = p - 1 - Len(tr)
    BY <1>1, <1>2, <1>3, <2>3, <2>4
  <2> QED
    BY <1>1, <1>2, <1>6, <2>5 DEF BlockBeforeEosioNum, p, q, chain
<1>7. CASE ~(p - 1 > Len(tr))
  <2>1. q - 1 = 0
    <3>1. SUFFICES ASSUME q - 1 # 0 PROVE FALSE
      OBVIOUS
    <3>2. 1 \in 1..q - 1 /\ 1 \in 1..Len(log) /\ Len(tr) + 1 \in p..Len(chain)
      BY <1>1, <1>2, <1>3, <1>7, <3>1
    <3>3. log[1].eosio.num < num /\ log[1] = chain[Len(tr) + 1]
      BY <1>1, <1>3, <3>2
    <3>4. chain[Len(tr) + 1].eosio.num >= num /\ chain[Len(tr) + 1].eosio.num \in Nat
      <4>1. Len(tr) + 1 \in 1..Len(chain)
        BY <1>2, <3>2
      <4> QED
        BY <1>2, <1>5, <3>2, <4>1
    <3> QED
      BY <1>4, <3>3, <3>4
  <2> QED
    BY <1>1, <1>2, <1>7, <2>1 DEF BlockBeforeEosioNum, p, q, chain
<1> QED
  BY <1>6, <1>7

(* What add_block(b, eosio_irreversible) makes final, in a chain.          *)
FinalAfterNum(chain, irr, num) ==
  LET j == BlockBeforeEosioNum(chain, Inc(num)) IN IF j > irr THEN j ELSE irr

LEMMA AdvancedByChain ==
  ASSUME NEW log \in Seq(Block), NEW tr \in Seq(Block), NEW num \in UInt,
         Linked(tr \o log), SortedByEosioNum(tr \o log),
         NEW irr \in Nat, tr # <<>> => Len(tr) < irr
  PROVE  AdvancedByEosioNum(log, irr, num) = FinalAfterNum(tr \o log, irr, num)
<1> DEFINE chain == tr \o log
           j == BlockBeforeEosioNum(chain, Inc(num))
           it == BlockBeforeEosioNum(log, Inc(num))
<1>1. /\ Len(log) \in Nat /\ Len(tr) \in Nat
      /\ Len(chain) = Len(tr) + Len(log)
      /\ NumberedFrom(log, Len(tr))
  BY EndOfChain
<1>2. /\ j \in 0..Len(chain)
      /\ it = IF j > Len(tr) THEN j - Len(tr) ELSE 0
  BY IncWraps, BeforeEosioNumByChain
<1>3. Len(tr) = 0 \/ Len(tr) < irr
  BY EmptySeq
<1> HIDE DEF chain, j, it
<1>4. CASE it = 0
  BY <1>1, <1>2, <1>3, <1>4 DEF AdvancedByEosioNum, FinalAfterNum, Advanced, j, it, chain
<1>5. CASE it # 0
  <2>1. it \in 1..Len(log) /\ Len(tr) + it = j /\ j > Len(tr)
    BY <1>1, <1>2, <1>5
  <2>2. log[it].num = j
    BY <1>1, <2>1 DEF NumberedFrom
  <2> QED
    BY <1>5, <2>2 DEF AdvancedByEosioNum, FinalAfterNum, Advanced, j, it, chain
<1> QED
  BY <1>4, <1>5

(* An instance as every call finds it. *)
Good(m, tr) == Inv(m, tr) /\ Replayed(m, tr) /\ ~m.trapped

(* m2 is m after a call with block b: unchanged, or its chain cut where b  *)
(* follows and extended by b.                                              *)
Extended(m, tr, b, num, m2) ==
  LET chain == ChainOf(m, tr)
      cut == SubSeq(chain, 1, b.num - 1)
  IN  /\ Inv(m2, tr) /\ Replayed(m2, tr)
      /\ Takes(chain, m.irreversible, b) =>
           /\ ChainOf(m2, tr) = Append(cut, b)
           /\ m2.irreversible = FinalAfterNum(Append(cut, b), m.irreversible, num)
           /\ m2.trapped <=> ~FilterBlock(Replay(cut), b.eosio).ok
      /\ ~Takes(chain, m.irreversible, b) => m2 = m

LEMMA AddBlockByChain ==
  ASSUME NEW m, NEW tr, Good(m, tr), NEW b \in Block, NEW num \in UInt
  PROVE  Extended(m, tr, b, num, addBlock(m, b, num))
<1> DEFINE chain == ChainOf(m, tr)
           k == Kept(m, tr, b)
           cut == SubSeq(chain, 1, k)
           log2 == Added(m.blocks, b)
           chain2 == tr \o log2
           irr2 == AdvancedByEosioNum(log2, m.irreversible, num)
           d == DbForBlock(m, b, irr2)
           m2 == ApplyBlock(log2, irr2, d, b)
<1>1. Inv(m, tr) /\ Replayed(m, tr) /\ ~m.trapped
  BY DEF Good
<1>2. Inv(addBlock(m, b, num), tr) /\ Replayed(addBlock(m, b, num), tr)
  BY <1>1, AddBlockCorrect, AddBlockReplays DEF Correct
<1>3. Accepts(m, b) <=> Takes(chain, m.irreversible, b)
  BY <1>1, AcceptsByChain
<1>4. ASSUME ~Takes(chain, m.irreversible, b)
      PROVE  addBlock(m, b, num) = m
  BY <1>3, <1>4 DEF addBlock
<1>5. ASSUME Takes(chain, m.irreversible, b)
      PROVE  /\ ChainOf(addBlock(m, b, num), tr) = Append(SubSeq(chain, 1, b.num - 1), b)
             /\ addBlock(m, b, num).irreversible =
                  FinalAfterNum(Append(SubSeq(chain, 1, b.num - 1), b), m.irreversible, num)
             /\ addBlock(m, b, num).trapped <=>
                  ~FilterBlock(Replay(SubSeq(chain, 1, b.num - 1)), b.eosio).ok
  <2>1. Accepts(m, b) /\ addBlock(m, b, num) = m2
    BY <1>3, <1>5 DEF addBlock
  <2>2. /\ k \in m.irreversible..Len(chain) /\ k \in Nat
        /\ b.num = k + 1
        /\ log2 \in Seq(Block)
        /\ chain2 = Append(SubSeq(chain, 1, k), b)
        /\ Linked(chain2) /\ SortedByEosioNum(chain2)
        /\ irr2 \in m.irreversible..k + 1
    BY <1>1, <2>1, AddedEndsChain
  <2>3. m.irreversible \in Nat /\ tr \in Seq(Block)
    BY <1>1, LogInChain
  <2>4. tr # <<>> => Len(tr) < m.irreversible
    BY <1>1 DEF Inv, Irreversible
  <2> HIDE DEF log2
  <2>5. irr2 = FinalAfterNum(chain2, m.irreversible, num)
    BY <2>2, <2>3, <2>4, AdvancedByChain
  <2>6. Holds(d, cut, irr2)
    BY <1>1, <2>1, <2>2, DbForBlockHolds
  <2>7. DbShape(d) /\ Len(d.undo) = b.num - irr2
        /\ d.revision = IF b.num > irr2 THEN b.num ELSE b.num - 1
    BY <1>1, <2>1, <2>2, SessionsForBlock
  <2> DEFINE run == FilterBlock(d.table, b.eosio)
             after == [d EXCEPT !.table = run.table]
             done == b.num > irr2 \/ CanSetRevision(after, b.num)
  <2> HIDE DEF irr2, d, chain2, k
  <2>8. done
    <3>1. CASE ~(b.num > irr2)
      <4>1. b.num <= irr2 /\ Len(d.undo) = 0 /\ d.revision = b.num - 1
        BY <2>2, <2>3, <2>7, <3>1, DbFields
      <4>2. d.undo = <<>>
        BY <2>7, <4>1, DbFields, EmptySeq
      <4>3. after.undo = d.undo /\ after.revision = d.revision
        BY <2>7 DEF DbShape
      <4> QED
        BY <2>2, <4>1, <4>2, <4>3 DEF CanSetRevision
    <3> QED
      BY <3>1
  <2>9. /\ m2.blocks = log2 /\ m2.irreversible = irr2
        /\ m2.trapped = ~(run.ok /\ done)
    BY DEF ApplyBlock
  <2>10. d.table = Replay(cut)
    BY <2>6 DEF Holds
  <2> HIDE DEF done, m2
  <2>11. /\ ChainOf(m2, tr) = chain2 /\ m2.irreversible = irr2
         /\ m2.trapped <=> ~FilterBlock(Replay(cut), b.eosio).ok
    BY <2>8, <2>9, <2>10 DEF ChainOf, chain2
  <2>12. b.num - 1 = k
    BY <2>2
  <2> QED
    BY <2>1, <2>2, <2>5, <2>11, <2>12
<1> QED
  BY <1>2, <1>4, <1>5 DEF Extended

(* The chain and its final part determine the database.                    *)
LEMMA SameDb ==
  ASSUME NEW m, NEW tr, Good(m, tr), NEW n, NEW ts, Good(n, ts),
         ChainOf(m, tr) = ChainOf(n, ts), m.irreversible = n.irreversible
  PROVE  m.db = n.db
<1> DEFINE S == Range(m.db.undo) \cup Range(n.db.undo)
<1>1. /\ DbShape(m.db) /\ DbShape(n.db)
      /\ Len(m.db.undo) = Len(ChainOf(m, tr)) - m.irreversible
      /\ Len(n.db.undo) = Len(m.db.undo)
      /\ m.db.revision = n.db.revision
      /\ Holds(m.db, ChainOf(m, tr), m.irreversible)
      /\ Holds(n.db, ChainOf(m, tr), m.irreversible)
  BY DEF Good, Inv, Shape, Sessions, Replayed
<1>2. m.db.table = n.db.table
  BY <1>1 DEF Holds
<1>3. m.db.undo \in Seq(S) /\ n.db.undo \in Seq(S)
  <2>1. /\ m.db.undo \in Seq(Range(m.db.undo)) /\ n.db.undo \in Seq(Range(n.db.undo))
        /\ Range(m.db.undo) \subseteq S /\ Range(n.db.undo) \subseteq S
    BY <1>1, DbFields
  <2> HIDE DEF S
  <2> QED
    BY <2>1, SeqMonotonic
<1>4. \A i \in 1..Len(m.db.undo) : m.db.undo[i] = n.db.undo[i]
  BY <1>1 DEF Holds
<1> HIDE DEF S
<1>5. m.db.undo = n.db.undo
  BY <1>1, <1>3, <1>4, SeqEqual
<1> QED
  BY <1>1, <1>2, <1>5 DEF DbShape

(* Trimming leaves the chain from its irreversible block on.               *)
Tip(chain, irr) == SubSeq(chain, IF irr = 0 THEN 1 ELSE irr, Len(chain))
LEMMA TrimmedLog ==
  ASSUME NEW m, NEW tr, Inv(m, tr)
  PROVE  trimBlocks(m) = [m EXCEPT !.blocks = Tip(ChainOf(m, tr), m.irreversible)]
<1> DEFINE log == m.blocks
           chain == ChainOf(m, tr)
           irr == m.irreversible
           n == NumTrimmed(log, irr)
           first == IF irr = 0 THEN 1 ELSE irr
<1>1. /\ log \in Seq(Block) /\ chain \in Seq(Block)
      /\ Len(log) \in Nat /\ Len(tr) \in Nat
      /\ Len(chain) = Len(tr) + Len(log)
      /\ \A i \in 1..Len(log) : log[i] = chain[Len(tr) + i]
      /\ NumberedFrom(log, Len(tr))
      /\ irr \in Nat
  BY LogInChain
<1>2. irr <= Len(chain) /\ (Len(tr) = 0 \/ Len(tr) < irr)
  BY EmptySeq DEF Inv, Irreversible
<1>3. n \in 0..Len(log) /\ first = Len(tr) + n + 1 /\ first \in 1..Len(chain) + 1
  <2>1. /\ LowerBoundByNum(log, irr) \in 1..Len(log) + 1
        /\ irr <= Len(tr) => LowerBoundByNum(log, irr) = 1
        /\ irr > Len(tr) /\ irr <= Len(tr) + Len(log) =>
             LowerBoundByNum(log, irr) = irr - Len(tr)
    BY <1>1, LowerBoundByNumIsLeast
  <2>2. n = LowerBoundByNum(log, irr) - 1
    BY DEF NumTrimmed
  <2> HIDE DEF log, chain, irr, n
  <2> QED
    BY <1>1, <1>2, <2>1, <2>2
<1> HIDE DEF log, chain, irr, n, first
<1>4. SubSeq(log, n + 1, Len(log)) = SubSeq(chain, first, Len(chain))
  <2>1. \A i \in n + 1..Len(log) : log[i] \in Block
    BY <1>1, <1>3, ElementOfSeq
  <2>2. \A i \in first..Len(chain) : chain[i] \in Block
    BY <1>1, <1>3, ElementOfSeq
  <2>3. /\ SubSeq(log, n + 1, Len(log)) \in Seq(Block)
        /\ Len(SubSeq(log, n + 1, Len(log))) = Len(log) - n
        /\ \A i \in 1..Len(log) - n :
             SubSeq(log, n + 1, Len(log))[i] = log[n + i]
    <3>1. n + 1 \in Int /\ Len(log) \in Int
      BY <1>1, <1>3
    <3>2. /\ SubSeq(log, n + 1, Len(log)) \in Seq(Block)
          /\ Len(SubSeq(log, n + 1, Len(log))) =
               IF n + 1 <= Len(log) THEN Len(log) - (n + 1) + 1 ELSE 0
          /\ \A i \in 1..Len(log) - (n + 1) + 1 :
               SubSeq(log, n + 1, Len(log))[i] = log[n + 1 + i - 1]
      BY <2>1, <3>1, SubSeqProperties
    <3> QED
      BY <1>1, <1>3, <3>2
  <2>4. /\ SubSeq(chain, first, Len(chain)) \in Seq(Block)
        /\ Len(SubSeq(chain, first, Len(chain))) = Len(log) - n
        /\ \A i \in 1..Len(log) - n :
             SubSeq(chain, first, Len(chain))[i] = chain[Len(tr) + (n + i)]
    <3>1. first \in Int /\ Len(chain) \in Int
      BY <1>1, <1>3
    <3>2. /\ SubSeq(chain, first, Len(chain)) \in Seq(Block)
          /\ Len(SubSeq(chain, first, Len(chain))) =
               IF first <= Len(chain) THEN Len(chain) - first + 1 ELSE 0
          /\ \A i \in 1..Len(chain) - first + 1 :
               SubSeq(chain, first, Len(chain))[i] = chain[first + i - 1]
      BY <2>2, <3>1, SubSeqProperties
    <3>3. Len(chain) - first + 1 = Len(log) - n
      BY <1>1, <1>3
    <3>4. Len(SubSeq(chain, first, Len(chain))) = Len(log) - n
      <4>1. Len(log) - n \in Nat /\ (~(first <= Len(chain)) => Len(log) - n = 0)
        BY <1>1, <1>3
      <4>2. CASE first <= Len(chain)
        BY <3>2, <3>3, <4>2
      <4>3. CASE ~(first <= Len(chain))
        BY <3>2, <4>1, <4>3
      <4> QED
        BY <4>2, <4>3
    <3>5. ASSUME NEW i \in 1..Len(log) - n
          PROVE  SubSeq(chain, first, Len(chain))[i] = chain[Len(tr) + (n + i)]
      <4>1. first + i - 1 = Len(tr) + (n + i) /\ i \in 1..Len(chain) - first + 1
        BY <1>1, <1>3, <3>3
      <4>2. SubSeq(chain, first, Len(chain))[i] = chain[first + i - 1]
        BY <3>2, <4>1
      <4> QED
        BY <4>1, <4>2
    <3> QED
      BY <3>2, <3>4, <3>5
  <2>5. ASSUME NEW i \in 1..Len(log) - n
        PROVE  log[n + i] = chain[Len(tr) + (n + i)]
    <3>1. n + i \in 1..Len(log)
      BY <1>1, <1>3
    <3> QED
      BY <1>1, <3>1
  <2>6. \A i \in 1..Len(SubSeq(log, n + 1, Len(log))) :
          SubSeq(log, n + 1, Len(log))[i] = SubSeq(chain, first, Len(chain))[i]
    BY <2>3, <2>4, <2>5
  <2> QED
    BY <2>3, <2>4, <2>6, SeqEqual
<1>5. m = [blocks |-> log, irreversible |-> irr, db |-> m.db, trapped |-> m.trapped]
  BY DEF Inv, Shape, log, irr
<1>6. trimBlocks(m) = [m EXCEPT !.blocks = SubSeq(log, n + 1, Len(log))]
  <2>1. trimBlocks(m) = [m EXCEPT !.blocks = DropFirst(log, n)]
    BY <1>5 DEF trimBlocks, log, n, irr
  <2> QED
    BY <2>1 DEF DropFirst
<1>7. SubSeq(chain, first, Len(chain)) = Tip(chain, irr)
  BY DEF Tip, first
<1> QED
  BY <1>4, <1>6, <1>7 DEF chain, irr

LEMMA ReplaceBlocks ==
  ASSUME NEW m, NEW tr, Inv(m, tr), NEW log
  PROVE  [m EXCEPT !.blocks = log] =
           [blocks |-> log, irreversible |-> m.irreversible, db |-> m.db,
            trapped |-> m.trapped]
<1>1. m \in [blocks : Seq(Block), irreversible : UInt, db : {m.db}, trapped : BOOLEAN]
  BY DEF Inv, Shape
<1> QED
  BY <1>1

(* So two instances of the same chain are the same once trimmed.           *)
LEMMA SameTrimmed ==
  ASSUME NEW m, NEW tr, Good(m, tr), NEW n, NEW ts, Good(n, ts),
         ChainOf(m, tr) = ChainOf(n, ts), m.irreversible = n.irreversible
  PROVE  trimBlocks(m) = trimBlocks(n)
<1> DEFINE tip == Tip(ChainOf(m, tr), m.irreversible)
<1>1. m.db = n.db
  BY SameDb
<1>2. /\ trimBlocks(m) = [m EXCEPT !.blocks = tip]
      /\ trimBlocks(n) = [n EXCEPT !.blocks = tip]
  BY TrimmedLog DEF Good
<1> HIDE DEF tip
<1>3. /\ trimBlocks(m) = [blocks |-> tip, irreversible |-> m.irreversible,
                          db |-> m.db, trapped |-> m.trapped]
      /\ trimBlocks(n) = [blocks |-> tip, irreversible |-> n.irreversible,
                          db |-> n.db, trapped |-> n.trapped]
  BY <1>2, ReplaceBlocks DEF Good
<1>4. m.trapped = FALSE /\ n.trapped = FALSE
  BY DEF Good, Inv, Shape
<1> QED
  BY <1>1, <1>3, <1>4

(* A trimmed log begins with its irreversible block.                       *)
Trimmed(m, tr) == Len(tr) = IF m.irreversible = 0 THEN 0 ELSE m.irreversible - 1

LEMMA TrimTwice ==
  ASSUME NEW m, NEW tr, Inv(m, tr), Trimmed(m, tr)
  PROVE  trimBlocks(m) = m
<1> DEFINE log == m.blocks
           irr == m.irreversible
           n == NumTrimmed(log, irr)
<1>1. /\ log \in Seq(Block) /\ Len(log) \in Nat /\ Len(tr) \in Nat
      /\ Len(ChainOf(m, tr)) = Len(tr) + Len(log)
      /\ NumberedFrom(log, Len(tr))
      /\ irr \in Nat
  BY LogInChain
<1>2. irr <= Len(ChainOf(m, tr))
  BY DEF Inv, Irreversible
<1>3. n = 0
  <2>1. /\ irr <= Len(tr) => LowerBoundByNum(log, irr) = 1
        /\ irr > Len(tr) /\ irr <= Len(tr) + Len(log) =>
             LowerBoundByNum(log, irr) = irr - Len(tr)
    BY <1>1, LowerBoundByNumIsLeast
  <2>2. n = LowerBoundByNum(log, irr) - 1
    BY DEF NumTrimmed
  <2>3. Len(tr) = IF irr = 0 THEN 0 ELSE irr - 1
    BY DEF Trimmed
  <2> HIDE DEF log, irr, n
  <2> QED
    BY <1>1, <1>2, <2>1, <2>2, <2>3
<1>4. SubSeq(log, n + 1, Len(log)) = log
  <2>1. n + 1 = 1
    BY <1>3
  <2> HIDE DEF n, log
  <2> QED
    BY <1>1, <2>1, SubSeqFull
<1>5. trimBlocks(m) = [m EXCEPT !.blocks = SubSeq(log, n + 1, Len(log))]
  <2>1. m = [blocks |-> log, irreversible |-> irr, db |-> m.db, trapped |-> m.trapped]
    BY DEF Inv, Shape
  <2>2. trimBlocks(m) = [m EXCEPT !.blocks = DropFirst(log, n)]
    BY <2>1 DEF trimBlocks
  <2> QED
    BY <2>2 DEF DropFirst
<1>6. m = [blocks |-> log, irreversible |-> irr, db |-> m.db, trapped |-> m.trapped]
  BY DEF Inv, Shape
<1> HIDE DEF n, log, irr
<1>7. [m EXCEPT !.blocks = log] = m
  BY <1>6
<1> QED
  BY <1>4, <1>5, <1>7

(* Trimming leaves a trimmed log of the same chain.                        *)
LEMMA TrimGood ==
  ASSUME NEW m, NEW tr, Good(m, tr)
  PROVE  \E ts : /\ Good(trimBlocks(m), ts) /\ Trimmed(trimBlocks(m), ts)
                 /\ ChainOf(trimBlocks(m), ts) = ChainOf(m, tr)
                 /\ trimBlocks(m).irreversible = m.irreversible
<1> DEFINE n == NumTrimmed(m.blocks, m.irreversible)
           ts == tr \o SubSeq(m.blocks, 1, n)
           m2 == trimBlocks(m)
<1>1. /\ Inv(m2, ts) /\ ChainOf(m2, ts) = ChainOf(m, tr)
  BY TrimBlocksCorrect DEF Good, Correct
<1>2. m = [blocks |-> m.blocks, irreversible |-> m.irreversible, db |-> m.db,
           trapped |-> FALSE]
  BY DEF Good, Inv, Shape
<1>3. m2.db = m.db /\ m2.irreversible = m.irreversible /\ m2.trapped = FALSE
  BY <1>2 DEF trimBlocks
<1>4. Replayed(m2, ts)
  BY <1>1, <1>3 DEF Good, Replayed
<1>5. Trimmed(m2, ts)
  <2>1. /\ m.blocks \in Seq(Block) /\ tr \in Seq(Block)
        /\ Len(m.blocks) \in Nat /\ Len(tr) \in Nat
        /\ Len(ChainOf(m, tr)) = Len(tr) + Len(m.blocks)
        /\ NumberedFrom(m.blocks, Len(tr))
        /\ m.irreversible \in Nat
    BY LogInChain DEF Good
  <2>2. m.irreversible <= Len(ChainOf(m, tr)) /\ (Len(tr) = 0 \/ Len(tr) < m.irreversible)
    BY EmptySeq DEF Good, Inv, Irreversible
  <2>3. /\ n \in 0..Len(m.blocks)
        /\ Len(tr) + n = IF m.irreversible = 0 THEN 0 ELSE m.irreversible - 1
    <3>1. /\ LowerBoundByNum(m.blocks, m.irreversible) \in 1..Len(m.blocks) + 1
          /\ m.irreversible <= Len(tr) => LowerBoundByNum(m.blocks, m.irreversible) = 1
          /\ m.irreversible > Len(tr) /\ m.irreversible <= Len(tr) + Len(m.blocks) =>
               LowerBoundByNum(m.blocks, m.irreversible) = m.irreversible - Len(tr)
      BY <2>1, LowerBoundByNumIsLeast
    <3> QED
      BY <2>1, <2>2, <3>1 DEF NumTrimmed
  <2> HIDE DEF n, m2
  <2>4. SubSeq(m.blocks, 1, n) \in Seq(Block) /\ Len(SubSeq(m.blocks, 1, n)) = n
    BY <2>1, <2>3, CutOfCut
  <2>5. Len(ts) = Len(tr) + n
    BY <2>1, <2>4, ConcatProperties
  <2> HIDE DEF ts
  <2> QED
    BY <1>3, <2>3, <2>5 DEF Trimmed
<1> HIDE DEF m2, ts
<1> QED
  BY <1>1, <1>3, <1>4, <1>5 DEF Good, m2

(* In a sorted chain the EOSIO numbers keep up with the positions.         *)
LEMMA PositionAtMostEosioNum ==
  ASSUME NEW chain \in Seq(Block), SortedByEosioNum(chain),
         \A e \in EosioBlock : e.num > 0
  PROVE  \A i \in 1..Len(chain) : /\ i <= chain[i].eosio.num
                                  /\ chain[i].eosio.num \in Nat
                                  /\ chain[i].eosio.num <= MaxUInt
<1> DEFINE S == {k \in Nat : k \in 1..Len(chain) => k <= chain[k].eosio.num}
<1>1. \A i \in 1..Len(chain) : /\ chain[i].eosio.num \in Nat
                               /\ chain[i].eosio.num <= MaxUInt
                               /\ chain[i].eosio.num > 0
  BY ElementOfSeq, BlockAssumption, EosioAssumption, WidthAssumption DEF UInt
<1>2. 0 \in S
  OBVIOUS
<1>3. ASSUME NEW n \in Nat, n \in S
      PROVE  n + 1 \in S
  <2>1. SUFFICES ASSUME n + 1 \in 1..Len(chain)
                 PROVE  n + 1 <= chain[n + 1].eosio.num
    OBVIOUS
  <2>2. CASE n = 0
    BY <1>1, <2>1, <2>2
  <2>3. CASE n # 0
    <3>1. n \in 1..Len(chain) /\ n < n + 1
      BY <2>1, <2>3
    <3>2. n <= chain[n].eosio.num
      BY <1>3, <3>1
    <3>3. chain[n].eosio.num < chain[n + 1].eosio.num
      BY <2>1, <3>1 DEF SortedByEosioNum
    <3> QED
      BY <1>1, <2>1, <3>1, <3>2, <3>3
  <2> QED
    BY <2>2, <2>3
<1> HIDE DEF S
<1>4. \A n \in Nat : n \in S
  BY <1>2, <1>3, NatInductionOnSet
<1>5. ASSUME NEW i \in 1..Len(chain) PROVE i <= chain[i].eosio.num
  BY <1>4 DEF S
<1> QED
  BY <1>1, <1>5

(* The block that the box builds for an EOSIO block. *)
NextFor(chain, e) ==
  LET j == BlockBeforeEosioNum(chain, e.num)
  IN  MakeBlock(j + 1, IF j = 0 THEN NoId ELSE chain[j].id, e)

LEMMA NextForIsBlock ==
  ASSUME NEW chain \in Seq(Block), Linked(chain), SortedByEosioNum(chain),
         NEW e \in EosioBlock, \A f \in EosioBlock : f.num > 0
  PROVE  /\ NextFor(chain, e) \in Block
         /\ NextFor(chain, e).num = BlockBeforeEosioNum(chain, e.num) + 1
         /\ NextFor(chain, e).eosio = e
         /\ BlockBeforeEosioNum(chain, e.num) \in 0..Len(chain)
         /\ BlockBeforeEosioNum(chain, e.num) < e.num
<1> DEFINE j == BlockBeforeEosioNum(chain, e.num)
<1>1. e.num \in UInt /\ e.num \in Nat /\ e.num <= MaxUInt /\ MaxUInt \in Nat
  BY EosioAssumption, WidthAssumption DEF UInt
<1>2. /\ j \in 0..Len(chain)
      /\ \A i \in 1..j : chain[i].eosio.num < e.num
  BY <1>1, LowerBoundByEosioNumSeparates DEF BlockBeforeEosioNum
<1> HIDE DEF j
<1>3. CASE j = 0
  BY <1>1, <1>2, <1>3, ClosureAssumption DEF NextFor, MakeBlock, j
<1>4. CASE j # 0
  <2>1. j \in 1..Len(chain) /\ j \in 1..j
    BY <1>2, <1>4
  <2>2. chain[j] \in Block /\ chain[j].eosio.num < e.num
    BY <1>2, <2>1, ElementOfSeq
  <2>3. j < e.num
    BY <1>1, <1>2, <2>1, <2>2, PositionAtMostEosioNum
  <2>4. chain[j].num = j
    BY <2>1 DEF Linked
  <2>5. MakeBlock(j + 1, chain[j].id, e) \in Block
    BY <1>1, <1>2, <2>2, <2>3, <2>4, ClosureAssumption
  <2>6. NextFor(chain, e) = MakeBlock(j + 1, chain[j].id, e)
    BY <1>4 DEF NextFor, j
  <2> QED
    BY <1>2, <2>3, <2>5, <2>6 DEF MakeBlock, j
<1> QED
  BY <1>3, <1>4

LEMMA AddEosioBlockByChain ==
  ASSUME NEW m, NEW tr, Good(m, tr), NEW e \in EosioBlock, NEW num \in UInt,
         \A f \in EosioBlock : f.num > 0
  PROVE  Extended(m, tr, NextFor(ChainOf(m, tr), e), num, addEosioBlock(m, e, num))
<1> DEFINE chain == ChainOf(m, tr)
           log == m.blocks
           irr == m.irreversible
           m2 == addEosioBlock(m, e, num)
           b == NextFor(chain, e)
           j == BlockBeforeEosioNum(chain, e.num)
           it == BlockBeforeEosioNum(log, e.num)
<1>1. /\ log \in Seq(Block) /\ tr \in Seq(Block) /\ chain \in Seq(Block)
      /\ Len(log) \in Nat /\ Len(tr) \in Nat
      /\ Len(chain) = Len(tr) + Len(log)
      /\ \A i \in 1..Len(log) : log[i] = chain[Len(tr) + i]
      /\ NumberedFrom(log, Len(tr))
      /\ irr \in Nat
  BY LogInChain DEF Good
<1>2. /\ Linked(chain) /\ SortedByEosioNum(chain)
      /\ irr <= Len(chain) /\ (tr = <<>> \/ Len(tr) < irr)
      /\ tr = <<>> => Len(tr) = 0
  BY EmptySeq DEF Good, Inv, Irreversible
<1>3. e.num \in UInt /\ e.num \in Nat /\ e.num <= MaxUInt /\ MaxUInt \in Nat
  BY EosioAssumption, WidthAssumption DEF UInt
<1>4. /\ j \in 0..Len(chain)
      /\ it = IF j > Len(tr) THEN j - Len(tr) ELSE 0
  BY <1>1, <1>2, <1>3, BeforeEosioNumByChain DEF ChainOf
<1>5. b \in Block /\ b.num = j + 1 /\ b.eosio = e /\ j < e.num
  BY <1>1, <1>2, NextForIsBlock
<1>6. Inv(m2, tr) /\ Replayed(m2, tr)
  BY AddEosioBlockCorrect, AddEosioBlockReplays DEF Good, Correct
<1> HIDE DEF chain, log, irr, j, it
<1>7. CASE it # 0 \/ tr = <<>>
  <2>1. BlockFor(m, e) = b
    <3>1. CASE it = 0
      <4>1. j = 0
        BY <1>1, <1>2, <1>4, <1>7, <3>1
      <4> QED
        BY <3>1, <4>1 DEF BlockFor, NextFor, it, j, log
    <3>2. CASE it # 0
      <4>1. it \in 1..Len(log) /\ Len(tr) + it = j
        BY <1>1, <1>4, <3>2
      <4>2. log[it] = chain[j] /\ log[it].num = j
        BY <1>1, <4>1 DEF NumberedFrom
      <4>3. j \in UInt /\ j < MaxUInt
        BY <1>3, <1>4, <1>5 DEF UInt
      <4>4. Inc(j) = j + 1
        BY <4>3, IncWraps
      <4>5. BlockFor(m, e) = MakeBlock(Inc(log[it].num), log[it].id, e)
        BY <3>2 DEF BlockFor, it, log
      <4>6. b = MakeBlock(j + 1, chain[j].id, e)
        BY <1>1, <1>4, <4>1 DEF NextFor, j
      <4> QED
        BY <4>2, <4>4, <4>5, <4>6
    <3> QED
      BY <3>1, <3>2
  <2>2. m2 = addBlock(m, b, num)
    BY <2>1 DEF addEosioBlock
  <2> HIDE DEF b, m2
  <2>3. Extended(m, tr, b, num, m2)
    BY <1>5, <2>2, AddBlockByChain
  <2> QED
    BY <2>3 DEF m2, b, chain
<1>8. CASE ~(it # 0 \/ tr = <<>>)
  <2>1. j + 1 <= irr /\ 1 <= irr
    BY <1>1, <1>2, <1>4, <1>8
  <2>2. ~Takes(chain, irr, b)
    BY <1>1, <1>4, <1>5, <2>1 DEF Takes
  <2>3. BlockFor(m, e) = MakeBlock(1, NoId, e)
    BY <1>8 DEF BlockFor, it, log
  <2>4. MakeBlock(1, NoId, e) \in Block /\ MakeBlock(1, NoId, e).num = 1
    BY ClosureAssumption DEF MakeBlock
  <2>5. ~Takes(chain, irr, MakeBlock(1, NoId, e))
    BY <1>1, <2>1, <2>4 DEF Takes
  <2>6. m2 = addBlock(m, MakeBlock(1, NoId, e), num)
    BY <2>3 DEF addEosioBlock
  <2>7. Extended(m, tr, MakeBlock(1, NoId, e), num, m2)
    BY <2>4, <2>6, AddBlockByChain
  <2>8. m2 = m
    BY <2>5, <2>7 DEF Extended, chain, irr
  <2> QED
    BY <1>6, <2>2, <2>8 DEF Extended, chain, irr
<1> QED
  BY <1>7, <1>8

(* What undo takes back, seen from the chain. *)
UndoneByNum(chain, irr, num) ==
  IF num > irr /\ num <= Len(chain) THEN SubSeq(chain, 1, num - 1) ELSE chain

LEMMA UndoBlockNumByChain ==
  ASSUME NEW m, NEW tr, Good(m, tr), NEW num \in Nat
  PROVE  /\ Good(undoBlockNum(m, num), tr)
         /\ undoBlockNum(m, num).irreversible = m.irreversible
         /\ ChainOf(undoBlockNum(m, num), tr) =
              UndoneByNum(ChainOf(m, tr), m.irreversible, num)
<1> DEFINE chain == ChainOf(m, tr)
           log == m.blocks
           irr == m.irreversible
           m2 == undoBlockNum(m, num)
           n == NumUndone(log, irr, num)
           it == LowerBoundByNum(log, num)
<1>1. /\ log \in Seq(Block) /\ tr \in Seq(Block) /\ chain \in Seq(Block)
      /\ Len(log) \in Nat /\ Len(tr) \in Nat
      /\ Len(chain) = Len(tr) + Len(log)
      /\ NumberedFrom(log, Len(tr))
      /\ irr \in Nat
  BY LogInChain DEF Good
<1>2. irr <= Len(chain) /\ (Len(tr) = 0 \/ Len(tr) < irr)
  BY EmptySeq DEF Good, Inv, Irreversible
<1>3. Inv(m2, tr) /\ Replayed(m2, tr)
  BY UndoBlockNumCorrect, UndoBlockNumReplays DEF Good, Correct
<1>4. m = [blocks |-> log, irreversible |-> irr, db |-> m.db, trapped |-> m.trapped]
      /\ m.trapped = FALSE
  BY DEF Good, Inv, Shape
<1>5. m2 = [blocks |-> SubSeq(log, 1, Len(log) - n), irreversible |-> irr,
            db |-> UndoSessions(m.db, n), trapped |-> FALSE]
  <2> HIDE DEF log, irr
  <2>1. m2 = [m EXCEPT !.blocks = SubSeq(log, 1, Len(log) - n), !.db = UndoSessions(@, n)]
    BY <1>4 DEF undoBlockNum, DropLast, log, irr
  <2>2. m \in [blocks : Seq(Block), irreversible : UInt, db : {m.db}, trapped : BOOLEAN]
    BY DEF Good, Inv, Shape
  <2>3. m.blocks = log /\ m.irreversible = irr /\ m.trapped = FALSE
    BY <1>4 DEF log, irr
  <2> HIDE DEF n, m2
  <2> QED
    BY <2>1, <2>2, <2>3
<1>6. /\ it \in 1..Len(log) + 1
      /\ num > Len(tr) /\ num <= Len(tr) + Len(log) => it = num - Len(tr)
      /\ num > Len(tr) + Len(log) => it = Len(log) + 1
  BY <1>1, LowerBoundByNumIsLeast
<1>7. /\ n = IF num <= irr \/ BlockByNum(log, num) = 0 THEN 0
             ELSE Len(log) + 1 - BlockByNum(log, num)
      /\ BlockByNum(log, num) = IF it <= Len(log) /\ log[it].num = num THEN it ELSE 0
  BY DEF NumUndone, BlockByNum
<1> HIDE DEF n, it, log, chain, irr, m2
<1>8. ASSUME num > irr, num <= Len(chain)
      PROVE  ChainOf(m2, tr) = SubSeq(chain, 1, num - 1)
  <2>1. it = num - Len(tr) /\ it \in 1..Len(log)
    BY <1>1, <1>2, <1>6, <1>8
  <2>2. log[it].num = num
    BY <1>1, <2>1 DEF NumberedFrom
  <2>3. n = Len(log) + 1 - it
    BY <1>1, <1>7, <1>8, <2>1, <2>2
  <2>4. Len(log) - n \in 0..Len(log) /\ Len(tr) + (Len(log) - n) = num - 1
    BY <1>1, <2>1, <2>3
  <2>5. tr \o SubSeq(log, 1, Len(log) - n) = SubSeq(tr \o log, 1, Len(tr) + (Len(log) - n))
    BY <1>1, <2>4, CutLog
  <2>6. m2.blocks = SubSeq(log, 1, Len(log) - n)
    BY <1>5
  <2> QED
    BY <2>4, <2>5, <2>6 DEF ChainOf, chain, log
<1>9. ASSUME ~(num > irr /\ num <= Len(chain))
      PROVE  m2 = m
  <2>1. n = 0
    <3>1. CASE num <= irr
      BY <1>7, <3>1
    <3>2. CASE ~(num <= irr)
      <4>1. it = Len(log) + 1
        BY <1>1, <1>6, <1>9, <3>2
      <4> QED
        BY <1>1, <1>7, <4>1
    <3> QED
      BY <3>1, <3>2
  <2>2. SubSeq(log, 1, Len(log) - n) = log
    <3>1. Len(log) - n = Len(log)
      BY <1>1, <2>1
    <3> QED
      BY <1>1, <3>1, SubSeqFull
  <2>3. UndoSessions(m.db, n) = m.db
    <3>1. Len(m.db.undo) \in Nat
      BY DbFields DEF Good, Inv, Shape
    <3> QED
      BY <2>1, <3>1 DEF UndoSessions
  <2> QED
    BY <1>4, <1>5, <2>2, <2>3
<1>10. m2.irreversible = irr /\ ~m2.trapped
  BY <1>5
<1> QED
  BY <1>3, <1>8, <1>9, <1>10 DEF Good, m2, chain, irr, UndoneByNum

(* What undo by EOSIO number takes back, seen from the chain.              *)
UndoneByEosioNum(chain, irr, num) ==
  LET j == BlockBeforeEosioNum(chain, num)
  IN  IF j >= irr /\ j < Len(chain) /\ chain[j + 1].eosio.num = num
      THEN SubSeq(chain, 1, j) ELSE chain

LEMMA UndoEosioNumByChain ==
  ASSUME NEW m, NEW tr, Good(m, tr), NEW num \in UInt
  PROVE  /\ Good(undoEosioNum(m, num), tr)
         /\ undoEosioNum(m, num).irreversible = m.irreversible
         /\ ChainOf(undoEosioNum(m, num), tr) =
              UndoneByEosioNum(ChainOf(m, tr), m.irreversible, num)
<1> DEFINE chain == ChainOf(m, tr)
           log == m.blocks
           irr == m.irreversible
           m2 == undoEosioNum(m, num)
           j == BlockBeforeEosioNum(chain, num)
           q == LowerBoundByEosioNum(log, num)
           it == BlockByEosioNum(log, num)
<1>1. /\ log \in Seq(Block) /\ tr \in Seq(Block) /\ chain \in Seq(Block)
      /\ Len(log) \in Nat /\ Len(tr) \in Nat
      /\ Len(chain) = Len(tr) + Len(log)
      /\ \A i \in 1..Len(log) : log[i] = chain[Len(tr) + i]
      /\ NumberedFrom(log, Len(tr))
      /\ irr \in Nat
  BY LogInChain DEF Good
<1>2. /\ Linked(chain) /\ SortedByEosioNum(chain)
      /\ irr <= Len(chain) /\ (Len(tr) = 0 \/ Len(tr) < irr)
  BY EmptySeq DEF Good, Inv, Irreversible
<1>3. num \in Nat
  BY WidthAssumption DEF UInt
<1>4. /\ j \in 0..Len(chain)
      /\ q - 1 = IF j > Len(tr) THEN j - Len(tr) ELSE 0
  BY <1>1, <1>2, BeforeEosioNumByChain DEF BlockBeforeEosioNum, ChainOf
<1>5. q \in 1..Len(log) + 1
  <2>1. SortedByEosioNum(log)
    BY LogInChain DEF Good
  <2> QED
    BY <1>1, <2>1, LowerBoundByEosioNumSeparates
<1>6. it = IF q <= Len(log) /\ log[q].eosio.num = num THEN q ELSE 0
  BY DEF BlockByEosioNum
<1>7. m2 = IF it = 0 THEN m ELSE undoBlockNum(m, log[it].num)
  BY DEF undoEosioNum
<1>8. \A i \in 1..Len(chain) : chain[i].eosio.num \in Nat
  BY <1>1, ElementOfSeq, BlockAssumption, EosioAssumption, WidthAssumption DEF UInt
<1>9. UndoneByEosioNum(chain, irr, num) =
        IF j >= irr /\ j < Len(chain) /\ chain[j + 1].eosio.num = num
        THEN SubSeq(chain, 1, j) ELSE chain
  BY DEF UndoneByEosioNum
<1>10. j < Len(chain) => chain[j + 1].eosio.num >= num
  <2>1. \A i \in j + 1..Len(chain) : chain[i].eosio.num >= num
    BY <1>1, <1>2, LowerBoundByEosioNumSeparates DEF BlockBeforeEosioNum
  <2> HIDE DEF j, chain
  <2>2. j < Len(chain) => j + 1 \in j + 1..Len(chain)
    BY <1>1, <1>4
  <2> QED
    BY <2>1, <2>2
<1> HIDE DEF chain, log, irr, j, q, it, m2
<1>11. CASE j >= Len(tr)
  <2>1. Len(tr) + q = j + 1
    BY <1>1, <1>4, <1>5, <1>11
  <2>2. q <= Len(log) => j < Len(chain) /\ log[q] = chain[j + 1] /\ log[q].num = j + 1
    <3>1. SUFFICES ASSUME q <= Len(log)
                   PROVE  j < Len(chain) /\ log[q] = chain[j + 1] /\ log[q].num = j + 1
      OBVIOUS
    <3>2. q \in 1..Len(log) /\ j < Len(chain)
      BY <1>1, <1>4, <1>5, <2>1, <3>1
    <3> QED
      BY <1>1, <2>1, <3>2 DEF NumberedFrom
  <2>3. j < Len(chain) => q <= Len(log)
    BY <1>1, <1>4, <1>5, <2>1
  <2>4. CASE it = 0
    <3>1. ~(j < Len(chain) /\ chain[j + 1].eosio.num = num)
      BY <1>5, <1>6, <2>2, <2>3, <2>4
    <3> QED
      BY <1>7, <1>9, <2>4, <3>1 DEF m2, chain, irr
  <2>5. CASE it # 0
    <3>1. it = q /\ q <= Len(log) /\ chain[j + 1].eosio.num = num
      BY <1>6, <2>2, <2>5
    <3>2. m2 = undoBlockNum(m, j + 1) /\ j + 1 \in Nat /\ j + 1 <= Len(chain)
      BY <1>1, <1>4, <1>7, <2>2, <2>5, <3>1
    <3>3. /\ Good(m2, tr) /\ m2.irreversible = irr
          /\ ChainOf(m2, tr) = UndoneByNum(chain, irr, j + 1)
      BY <3>2, UndoBlockNumByChain DEF chain, irr
    <3>4. CASE j >= irr
      <4>1. j + 1 - 1 = j /\ j + 1 > irr /\ j < Len(chain)
        BY <1>1, <1>4, <3>2, <3>4
      <4>2. UndoneByNum(chain, irr, j + 1) = SubSeq(chain, 1, j)
        BY <1>1, <1>4, <3>2, <4>1 DEF UndoneByNum
      <4> QED
        BY <1>9, <3>1, <3>3, <3>4, <4>1, <4>2 DEF m2, chain, irr
    <3>5. CASE ~(j >= irr)
      <4>1. ~(j + 1 > irr)
        BY <1>1, <1>4, <3>5
      <4>2. UndoneByNum(chain, irr, j + 1) = chain
        BY <4>1 DEF UndoneByNum
      <4> QED
        BY <1>9, <3>3, <3>5, <4>2 DEF m2, chain, irr
    <3> QED
      BY <3>4, <3>5
  <2> QED
    BY <2>4, <2>5
<1>12. CASE ~(j >= Len(tr))
  <2>1. q = 1 /\ ~(j >= irr) /\ j + 1 \in 1..Len(chain)
    BY <1>1, <1>2, <1>4, <1>5, <1>12
  <2>2. it = 0
    <3>1. CASE q <= Len(log)
      <4>1. 1 \in 1..Len(log) /\ Len(tr) + 1 \in 1..Len(chain) /\ j + 1 < Len(tr) + 1
            /\ j < Len(chain)
        BY <1>1, <1>4, <1>12, <2>1, <3>1
      <4>2. log[q] = chain[Len(tr) + 1]
        BY <1>1, <2>1, <4>1
      <4>3. chain[j + 1].eosio.num < chain[Len(tr) + 1].eosio.num
        BY <1>2, <2>1, <4>1 DEF SortedByEosioNum
      <4>4. chain[j + 1].eosio.num >= num
        BY <1>10, <4>1
      <4> QED
        BY <1>3, <1>6, <1>8, <2>1, <4>1, <4>2, <4>3, <4>4
    <3> QED
      BY <1>6, <3>1
  <2> QED
    BY <1>7, <1>9, <2>1, <2>2 DEF m2, chain, irr
<1> QED
  BY <1>11, <1>12

(* Told of a final block of its chain, an instance makes that one final.   *)
LEMMA SetIrreversibleByChain ==
  ASSUME NEW m, NEW tr, Good(m, tr), NEW num \in UInt, num < MaxUInt,
         num \in m.irreversible..Len(ChainOf(m, tr))
  PROVE  /\ Good(setIrreversible(m, num), tr)
         /\ setIrreversible(m, num).irreversible = num
         /\ ChainOf(setIrreversible(m, num), tr) = ChainOf(m, tr)
<1> DEFINE log == m.blocks
           irr == m.irreversible
           it == BlockBeforeNum(log, Inc(num))
           irr2 == Advanced(log, irr, it)
           m2 == setIrreversible(m, num)
<1>1. /\ log \in Seq(Block) /\ tr \in Seq(Block)
      /\ Len(log) \in Nat /\ Len(tr) \in Nat
      /\ Len(ChainOf(m, tr)) = Len(tr) + Len(log)
      /\ NumberedFrom(log, Len(tr))
      /\ irr \in Nat
  BY LogInChain DEF Good
<1>2. Len(tr) = 0 \/ Len(tr) < irr
  BY EmptySeq DEF Good, Inv, Irreversible
<1>3. Inc(num) = num + 1 /\ num \in Nat
  BY IncWraps, WidthAssumption DEF UInt
<1>4. m = [blocks |-> log, irreversible |-> irr, db |-> m.db, trapped |-> m.trapped]
      /\ m.trapped = FALSE
  BY DEF Good, Inv, Shape
<1>5. Inv(m2, tr) /\ Replayed(m2, tr)
  BY SetIrreversibleCorrect, SetIrreversibleReplays DEF Good, Correct
<1>6. /\ LowerBoundByNum(log, num + 1) \in 1..Len(log) + 1
      /\ num + 1 > Len(tr) /\ num + 1 <= Len(tr) + Len(log) =>
           LowerBoundByNum(log, num + 1) = num + 1 - Len(tr)
      /\ num + 1 > Len(tr) + Len(log) => LowerBoundByNum(log, num + 1) = Len(log) + 1
  <2> DEFINE k == num + 1
  <2>1. k \in Nat
    BY <1>3
  <2> HIDE DEF log, k
  <2>2. /\ LowerBoundByNum(log, k) \in 1..Len(log) + 1
        /\ k > Len(tr) /\ k <= Len(tr) + Len(log) => LowerBoundByNum(log, k) = k - Len(tr)
        /\ k > Len(tr) + Len(log) => LowerBoundByNum(log, k) = Len(log) + 1
    BY <1>1, <2>1, LowerBoundByNumIsLeast
  <2> QED
    BY <2>2 DEF k
<1>7. it = LowerBoundByNum(log, num + 1) - 1
  BY <1>3 DEF BlockBeforeNum
<1> HIDE DEF log, irr, it
<1>8. it = num - Len(tr) /\ it \in 0..Len(log)
  BY <1>1, <1>2, <1>3, <1>6, <1>7 DEF irr
<1>9. irr2 = num
  <2>1. CASE it = 0
    BY <1>1, <1>2, <1>3, <1>8, <2>1 DEF Advanced, irr
  <2>2. CASE it # 0
    <3>1. log[it].num = num
      BY <1>1, <1>3, <1>8, <2>2 DEF NumberedFrom
    <3> QED
      BY <1>1, <1>3, <2>2, <3>1 DEF Advanced, irr
  <2> QED
    BY <2>1, <2>2
<1>10. m2.irreversible = irr2 /\ m2.blocks = log /\ m2.trapped = FALSE
  BY <1>4 DEF setIrreversible, irr, log, it
<1> HIDE DEF irr2, m2
<1> QED
  BY <1>5, <1>9, <1>10 DEF Good, ChainOf, m2, log

(* Finality by EOSIO number never reaches the largest number.              *)
LEMMA FinalAfterNumInRange ==
  ASSUME NEW chain \in Seq(Block), SortedByEosioNum(chain), NEW num \in UInt,
         NEW irr \in 0..Len(chain), irr < MaxUInt,
         \A e \in EosioBlock : e.num > 0
  PROVE  /\ FinalAfterNum(chain, irr, num) \in irr..Len(chain)
         /\ FinalAfterNum(chain, irr, num) < MaxUInt
         /\ num = 0 => FinalAfterNum(chain, irr, num) = irr
<1> DEFINE j == BlockBeforeEosioNum(chain, Inc(num))
<1>1. Inc(num) \in UInt /\ Inc(num) <= MaxUInt /\ Inc(num) \in Nat /\ MaxUInt \in Nat \ {0}
      /\ (num = 0 => Inc(num) = 1)
  BY IncWraps, WidthAssumption DEF UInt
<1>2. j \in 0..Len(chain) /\ \A i \in 1..j : chain[i].eosio.num < Inc(num)
  BY <1>1, LowerBoundByEosioNumSeparates DEF BlockBeforeEosioNum
<1> HIDE DEF j
<1>3. FinalAfterNum(chain, irr, num) = IF j > irr THEN j ELSE irr
  BY DEF FinalAfterNum, j
<1>4. j < Inc(num) \/ j = 0
  <2>1. SUFFICES ASSUME j # 0 PROVE j < Inc(num)
    OBVIOUS
  <2>2. j \in 1..j /\ j \in 1..Len(chain)
    BY <1>2, <2>1
  <2>3. /\ j <= chain[j].eosio.num /\ chain[j].eosio.num \in Nat
        /\ chain[j].eosio.num < Inc(num)
    BY <1>2, <2>2, PositionAtMostEosioNum
  <2> QED
    BY <1>1, <2>2, <2>3
<1> QED
  BY <1>1, <1>2, <1>3, <1>4
=============================================================================
