-------------------------- MODULE BoxStorageProofs --------------------------
(***************************************************************************)
(* Proofs about BoxStorage, for all blocks, tables and widths of uint32_t. *)
(***************************************************************************)
EXTENDS BoxStorage, WasmExportsLemmas
-----------------------------------------------------------------------------
(* The blocks of a box are the ones it built, each on the one before, and  *)
(* each was applied to what the blocks before it left.                     *)
Made(chain) ==
  \A i \in 1..Len(chain) :
    chain[i] = MakeBlock(i, IF i = 1 THEN NoId ELSE chain[i - 1].id, chain[i].eosio)

Applied(chain) ==
  \A i \in 1..Len(chain) : FilterBlock(Replay(SubSeq(chain, 1, i - 1)), chain[i].eosio).ok

LEMMA CutMade ==
  ASSUME NEW chain \in Seq(Block), Made(chain), Applied(chain), NEW k \in 0..Len(chain)
  PROVE  Made(SubSeq(chain, 1, k)) /\ Applied(SubSeq(chain, 1, k))
<1> DEFINE cut == SubSeq(chain, 1, k)
<1>1. /\ cut \in Seq(Block) /\ Len(cut) = k
      /\ \A i \in 1..k : cut[i] = chain[i]
  BY CutOfCut
<1>2. \A i \in 1..k : SubSeq(cut, 1, i - 1) = SubSeq(chain, 1, i - 1)
  <2>1. \A j \in 0..k : SubSeq(cut, 1, j) = SubSeq(chain, 1, j)
    BY CutOfCut
  <2> HIDE DEF cut
  <2>2. \A i \in 1..k : i - 1 \in 0..k
    OBVIOUS
  <2> QED
    BY <2>1, <2>2
<1> HIDE DEF cut
<1>3. Made(cut)
  <2>1. SUFFICES ASSUME NEW i \in 1..k
                 PROVE  cut[i] = MakeBlock(i, IF i = 1 THEN NoId ELSE cut[i - 1].id, cut[i].eosio)
    BY <1>1 DEF Made
  <2>2. i \in 1..Len(chain) /\ (i # 1 => i - 1 \in 1..k)
    OBVIOUS
  <2> QED
    BY <1>1, <2>2 DEF Made
<1>4. Applied(cut)
  <2>1. SUFFICES ASSUME NEW i \in 1..k
                 PROVE  FilterBlock(Replay(SubSeq(cut, 1, i - 1)), cut[i].eosio).ok
    BY <1>1 DEF Applied
  <2>2. i \in 1..Len(chain)
    OBVIOUS
  <2> QED
    BY <1>1, <1>2, <2>2 DEF Applied
<1> QED
  BY <1>3, <1>4 DEF cut

LEMMA ExtendMade ==
  ASSUME NEW chain \in Seq(Block), Made(chain), Applied(chain), NEW b \in Block,
         b = MakeBlock(Len(chain) + 1,
                       IF Len(chain) = 0 THEN NoId ELSE chain[Len(chain)].id, b.eosio),
         FilterBlock(Replay(chain), b.eosio).ok
  PROVE  Made(Append(chain, b)) /\ Applied(Append(chain, b))
<1> DEFINE next == Append(chain, b)
           n == Len(chain)
<1>1. /\ next \in Seq(Block) /\ Len(next) = n + 1 /\ n \in Nat
      /\ \A i \in 1..n : next[i] = chain[i]
      /\ next[n + 1] = b
  BY AppendProperties
<1>2. \A i \in 1..n + 1 : SubSeq(next, 1, i - 1) = SubSeq(chain, 1, i - 1)
  <2>1. SUFFICES ASSUME NEW j \in 0..n
                 PROVE  SubSeq(next, 1, j) = SubSeq(chain, 1, j)
    BY <1>1
  <2>2. /\ SubSeq(chain, 1, j) \in Seq(Block) /\ Len(SubSeq(chain, 1, j)) = j
        /\ \A i \in 1..j : SubSeq(chain, 1, j)[i] = chain[i]
    BY CutOfCut
  <2>3. /\ SubSeq(next, 1, j) \in Seq(Block) /\ Len(SubSeq(next, 1, j)) = j
        /\ \A i \in 1..j : SubSeq(next, 1, j)[i] = next[i]
    <3>1. j \in 0..Len(next)
      BY <1>1
    <3> QED
      BY <1>1, <3>1, CutOfCut
  <2>4. \A i \in 1..j : SubSeq(next, 1, j)[i] = SubSeq(chain, 1, j)[i]
    BY <1>1, <2>2, <2>3
  <2> QED
    BY <2>2, <2>3, <2>4, SeqEqual
<1> HIDE DEF next
<1>3. Made(next)
  <2>1. SUFFICES ASSUME NEW i \in 1..n + 1
                 PROVE  next[i] = MakeBlock(i, IF i = 1 THEN NoId ELSE next[i - 1].id, next[i].eosio)
    BY <1>1 DEF Made
  <2>2. CASE i = n + 1
    <3>1. n # 0 => n \in 1..n /\ i - 1 = n
      BY <1>1, <2>2
    <3> QED
      BY <1>1, <2>2, <3>1
  <2>3. CASE i # n + 1
    <3>1. i \in 1..n /\ (i # 1 => i - 1 \in 1..n)
      BY <1>1, <2>3
    <3> QED
      BY <1>1, <3>1 DEF Made
  <2> QED
    BY <2>2, <2>3
<1>4. Applied(next)
  <2>1. SUFFICES ASSUME NEW i \in 1..n + 1
                 PROVE  FilterBlock(Replay(SubSeq(next, 1, i - 1)), next[i].eosio).ok
    BY <1>1 DEF Applied
  <2>2. CASE i = n + 1
    <3>1. i - 1 = n /\ SubSeq(chain, 1, n) = chain
      BY <1>1, <2>2, SubSeqFull
    <3> QED
      BY <1>1, <1>2, <2>2, <3>1
  <2>3. CASE i # n + 1
    <3>1. i \in 1..n
      BY <1>1, <2>3
    <3> QED
      BY <1>1, <1>2, <3>1 DEF Applied
  <2> QED
    BY <2>2, <2>3
<1> QED
  BY <1>3, <1>4 DEF next
-----------------------------------------------------------------------------
(* The whole log, as a box keeps it.                                       *)
BoxMemory(m) ==
  /\ Good(m, <<>>)
  /\ Made(m.blocks) /\ Applied(m.blocks)
  /\ m.irreversible < MaxUInt

LEMMA WholeLog ==
  ASSUME NEW m, Inv(m, <<>>)
  PROVE  /\ ChainOf(m, <<>>) = m.blocks
         /\ m.blocks \in Seq(Block) /\ Len(m.blocks) \in Nat
         /\ Linked(m.blocks) /\ SortedByEosioNum(m.blocks)
         /\ m.irreversible \in 0..Len(m.blocks)
<1>1. m.blocks \in Seq(Block) /\ Len(m.blocks) \in Nat /\ m.irreversible \in Nat
  BY LogInChain
<1>2. ChainOf(m, <<>>) = m.blocks
  BY <1>1, ConcatEmptySeq DEF ChainOf
<1> QED
  BY <1>1, <1>2 DEF Inv, Irreversible

(* A block the box is sent leaves it a box, or traps it, and the trimmed   *)
(* instance fares the same.                                                *)
LEMMA PushStep ==
  ASSUME NEW m, BoxMemory(m), NEW e \in EosioBlock, NEW num \in UInt
  PROVE  LET m2 == addEosioBlock(m, e, num)
             s2 == addEosioBlock(trimBlocks(m), e, num)
         IN  /\ s2.trapped <=> m2.trapped
             /\ ~m2.trapped => /\ BoxMemory(m2)
                               /\ trimBlocks(s2) = trimBlocks(m2)
<1> DEFINE log == m.blocks
           irr == m.irreversible
           s == trimBlocks(m)
           m2 == addEosioBlock(m, e, num)
           s2 == addEosioBlock(s, e, num)
           b == NextFor(log, e)
           k == b.num - 1
           cut == SubSeq(log, 1, k)
           next == Append(cut, b)
<1>1. /\ ChainOf(m, <<>>) = log
      /\ log \in Seq(Block) /\ Len(log) \in Nat
      /\ Linked(log) /\ SortedByEosioNum(log)
      /\ irr \in 0..Len(log) /\ irr < MaxUInt
      /\ Made(log) /\ Applied(log) /\ Good(m, <<>>)
  BY WholeLog DEF BoxMemory, Good
<1>2. PICK ts : /\ Good(s, ts) /\ Trimmed(s, ts)
                /\ ChainOf(s, ts) = log
                /\ s.irreversible = irr
  BY <1>1, TrimGood
<1>3. Extended(m, <<>>, b, num, m2)
  BY <1>1, NumberAssumption, AddEosioBlockByChain
<1>4. Extended(s, ts, b, num, s2)
  BY <1>2, NumberAssumption, AddEosioBlockByChain
<1>5. /\ b \in Block /\ b.eosio = e
      /\ b.num = BlockBeforeEosioNum(log, e.num) + 1
      /\ BlockBeforeEosioNum(log, e.num) \in 0..Len(log)
  BY <1>1, NumberAssumption, NextForIsBlock
<1> HIDE DEF log, irr, s, m2, s2, b
<1>6. CASE ~Takes(log, irr, b)
  <2>1. m2 = m /\ s2 = s
    BY <1>1, <1>2, <1>3, <1>4, <1>6 DEF Extended, irr
  <2>2. ~m.trapped /\ ~s.trapped
    BY <1>1, <1>2 DEF Good
  <2>3. trimBlocks(s) = s
    BY <1>2, TrimTwice DEF Good
  <2> QED
    BY <2>1, <2>2, <2>3 DEF m2, s2, s
<1>7. CASE Takes(log, irr, b)
  <2>1. /\ Inv(m2, <<>>) /\ Replayed(m2, <<>>)
        /\ ChainOf(m2, <<>>) = next
        /\ m2.irreversible = FinalAfterNum(next, irr, num)
        /\ m2.trapped <=> ~FilterBlock(Replay(cut), e).ok
    BY <1>1, <1>3, <1>5, <1>7 DEF Extended, irr
  <2>2. /\ Inv(s2, ts) /\ Replayed(s2, ts)
        /\ ChainOf(s2, ts) = next
        /\ s2.irreversible = FinalAfterNum(next, irr, num)
        /\ s2.trapped <=> ~FilterBlock(Replay(cut), e).ok
    BY <1>2, <1>4, <1>5, <1>7 DEF Extended
  <2>3. s2.trapped <=> m2.trapped
    BY <2>1, <2>2
  <2>4. ASSUME ~m2.trapped
        PROVE  BoxMemory(m2) /\ trimBlocks(s2) = trimBlocks(m2)
    <3>1. Good(m2, <<>>) /\ Good(s2, ts)
      BY <2>1, <2>2, <2>4 DEF Good
    <3>2. trimBlocks(s2) = trimBlocks(m2)
      BY <2>1, <2>2, <3>1, SameTrimmed
    <3>3. m2.blocks = next /\ next \in Seq(Block) /\ SortedByEosioNum(next)
      BY <2>1, WholeLog
    <3>4. k \in 0..Len(log) /\ k = BlockBeforeEosioNum(log, e.num) /\ irr <= k
      BY <1>1, <1>5, <1>7 DEF Takes
    <3>5. cut \in Seq(Block) /\ Len(cut) = k /\ \A i \in 1..k : cut[i] = log[i]
      BY <1>1, <3>4, CutOfCut
    <3>6. Made(cut) /\ Applied(cut)
      BY <1>1, <3>4, CutMade
    <3>7. b = MakeBlock(k + 1, IF k = 0 THEN NoId ELSE log[k].id, b.eosio)
      BY <1>5, <3>4 DEF b, NextFor, MakeBlock
    <3> HIDE DEF k, cut, next
    <3>8. k # 0 => k \in 1..k
      BY <3>4
    <3>9. b = MakeBlock(Len(cut) + 1, IF Len(cut) = 0 THEN NoId ELSE cut[Len(cut)].id, b.eosio)
      BY <3>5, <3>7, <3>8
    <3>10. FilterBlock(Replay(cut), b.eosio).ok
      BY <1>5, <2>1, <2>4
    <3>11. Made(next) /\ Applied(next)
      BY <1>5, <3>5, <3>6, <3>9, <3>10, ExtendMade DEF next
    <3>12. m2.irreversible < MaxUInt
      <4>1. Len(next) = k + 1
        BY <1>5, <3>5, AppendProperties DEF next
      <4>2. irr \in 0..Len(next)
        BY <1>1, <3>4, <4>1
      <4> QED
        BY <1>1, <2>1, <3>3, <4>2, NumberAssumption, FinalAfterNumInRange
    <3> QED
      BY <3>1, <3>2, <3>3, <3>11, <3>12 DEF BoxMemory
  <2> QED
    BY <2>3, <2>4 DEF m2, s2, s
<1> QED
  BY <1>6, <1>7

(* So do both fare when blocks are taken back.                             *)
LEMMA UndoStep ==
  ASSUME NEW m, BoxMemory(m), NEW num \in UInt
  PROVE  /\ BoxMemory(undoEosioNum(m, num))
         /\ undoEosioNum(trimBlocks(m), num) = trimBlocks(undoEosioNum(m, num))
<1> DEFINE log == m.blocks
           irr == m.irreversible
           s == trimBlocks(m)
           m2 == undoEosioNum(m, num)
           s2 == undoEosioNum(s, num)
           next == UndoneByEosioNum(log, irr, num)
<1>1. /\ ChainOf(m, <<>>) = log
      /\ log \in Seq(Block) /\ Len(log) \in Nat
      /\ SortedByEosioNum(log)
      /\ irr \in 0..Len(log) /\ irr < MaxUInt
      /\ Made(log) /\ Applied(log) /\ Good(m, <<>>)
  BY WholeLog DEF BoxMemory, Good
<1>2. PICK ts : /\ Good(s, ts) /\ Trimmed(s, ts)
                /\ ChainOf(s, ts) = log
                /\ s.irreversible = irr
  BY <1>1, TrimGood
<1>3. /\ Good(m2, <<>>) /\ m2.irreversible = irr /\ ChainOf(m2, <<>>) = next
  BY <1>1, UndoEosioNumByChain
<1>4. /\ Good(s2, ts) /\ s2.irreversible = irr /\ ChainOf(s2, ts) = next
  BY <1>2, UndoEosioNumByChain
<1> HIDE DEF log, irr, s, m2, s2
<1>5. trimBlocks(s2) = trimBlocks(m2)
  BY <1>3, <1>4, SameTrimmed
<1>6. trimBlocks(s2) = s2
  <2>1. Trimmed(s2, ts)
    BY <1>2, <1>4 DEF Trimmed
  <2> QED
    BY <1>4, <2>1, TrimTwice DEF Good
<1>7. Made(next) /\ Applied(next)
  <2>1. BlockBeforeEosioNum(log, num) \in 0..Len(log)
    BY <1>1, LowerBoundByEosioNumSeparates DEF BlockBeforeEosioNum
  <2>2. /\ Made(SubSeq(log, 1, BlockBeforeEosioNum(log, num)))
        /\ Applied(SubSeq(log, 1, BlockBeforeEosioNum(log, num)))
    BY <1>1, <2>1, CutMade
  <2> QED
    BY <1>1, <2>2 DEF UndoneByEosioNum
<1> HIDE DEF next
<1>8. m2.blocks = next
  BY <1>3, WholeLog DEF Good
<1> QED
  BY <1>1, <1>3, <1>5, <1>6, <1>7, <1>8 DEF BoxMemory, m2, s2, s

(* What a box has, or what is at or below the height of a final block, it  *)
(* does not take.                                                          *)
LEMMA HistoryNotTaken ==
  ASSUME NEW m, BoxMemory(m), NEW e \in EosioBlock, NEW i \in 1..Len(m.blocks),
         \/ e = m.blocks[i].eosio
         \/ m.blocks[i].num <= m.irreversible /\ e.num <= m.blocks[i].eosio.num
  PROVE  ~Takes(m.blocks, m.irreversible, NextFor(m.blocks, e))
<1> DEFINE log == m.blocks
           irr == m.irreversible
           j == BlockBeforeEosioNum(log, e.num)
           b == NextFor(log, e)
<1>1. /\ log \in Seq(Block) /\ Len(log) \in Nat
      /\ Linked(log) /\ SortedByEosioNum(log)
      /\ irr \in 0..Len(log) /\ Made(log)
  BY WholeLog DEF BoxMemory, Good
<1>2. /\ b \in Block /\ b.eosio = e /\ b.num = j + 1 /\ j \in 0..Len(log)
  BY <1>1, NumberAssumption, NextForIsBlock
<1>3. e.num \in UInt /\ e.num \in Nat
  BY EosioAssumption, WidthAssumption DEF UInt
<1>4. /\ \A l \in 1..j : log[l].eosio.num < e.num
      /\ \A l \in j + 1..Len(log) : log[l].eosio.num >= e.num
  <2>1. LowerBoundByEosioNum(log, e.num) = j + 1
    <3>1. LowerBoundByEosioNum(log, e.num) \in 1..Len(log) + 1
      BY <1>1, <1>3, LowerBoundByEosioNumSeparates
    <3> QED
      BY <3>1 DEF BlockBeforeEosioNum
  <2>2. j = LowerBoundByEosioNum(log, e.num) - 1
    BY DEF BlockBeforeEosioNum
  <2> HIDE DEF log, j
  <2>3. /\ \A l \in 1..LowerBoundByEosioNum(log, e.num) - 1 : log[l].eosio.num < e.num
        /\ \A l \in LowerBoundByEosioNum(log, e.num)..Len(log) : log[l].eosio.num >= e.num
    BY <1>1, <1>3, LowerBoundByEosioNumSeparates
  <2> QED
    BY <2>1, <2>2, <2>3
<1>5. /\ log[i].eosio.num \in Nat /\ log[i].num = i
  BY <1>1, ElementOfSeq, BlockAssumption, EosioAssumption, WidthAssumption DEF UInt, Linked
<1>6. b = MakeBlock(j + 1, IF j = 0 THEN NoId ELSE log[j].id, e)
  BY DEF NextFor
<1> HIDE DEF log, irr, j, b
<1>7. ASSUME e.num <= log[i].eosio.num
      PROVE  j < i
  <2>1. SUFFICES ASSUME i <= j PROVE FALSE
    BY <1>2
  <2>2. i \in 1..j
    BY <1>2, <2>1
  <2>3. log[i].eosio.num < e.num
    BY <1>4, <2>2
  <2> QED
    BY <1>3, <1>5, <1>7, <2>3
<1>8. CASE e = log[i].eosio
  <2>1. j < i
    BY <1>3, <1>7, <1>8
  <2>2. ~(j + 1 < i)
    <3>1. SUFFICES ASSUME j + 1 < i PROVE FALSE
      OBVIOUS
    <3>2. j + 1 \in j + 1..Len(log) /\ j + 1 \in 1..Len(log) /\ i \in 1..Len(log)
      BY <1>1, <1>2, <3>1 DEF log
    <3>3. log[j + 1].eosio.num >= e.num
      BY <1>4, <3>2
    <3>4. log[j + 1].eosio.num < log[i].eosio.num
      BY <1>1, <3>1, <3>2 DEF SortedByEosioNum
    <3>5. log[j + 1].eosio.num \in Nat
      BY <1>1, <3>2, ElementOfSeq, BlockAssumption, EosioAssumption, WidthAssumption DEF UInt
    <3> QED
      BY <1>3, <1>5, <1>8, <3>3, <3>4, <3>5
  <2>3. i = j + 1 /\ i \in 1..Len(log) /\ i - 1 = j /\ (i = 1 <=> j = 0)
    BY <1>1, <1>2, <2>1, <2>2 DEF log
  <2>4. log[i] = MakeBlock(i, IF i = 1 THEN NoId ELSE log[i - 1].id, log[i].eosio)
    BY <1>1, <2>3 DEF Made
  <2>5. b = log[i]
    BY <1>6, <1>8, <2>3, <2>4
  <2>6. b.num = i /\ b.num <= Len(log)
    BY <1>1, <1>2, <2>3
  <2> QED
    BY <2>5, <2>6 DEF Takes, log, irr, b
<1>9. CASE log[i].num <= irr /\ e.num <= log[i].eosio.num
  <2>1. b.num <= irr
    BY <1>1, <1>2, <1>5, <1>7, <1>9
  <2>2. ~(b.num \in irr + 1..Len(log) + 1)
    BY <1>1, <1>2, <2>1
  <2> QED
    BY <2>2 DEF Takes, log, irr, b
<1> QED
  BY <1>8, <1>9 DEF log, irr

LEMMA HistoryUnchanged ==
  ASSUME NEW m, BoxMemory(m), NEW e \in EosioBlock, NEW num \in UInt,
         ~Takes(m.blocks, m.irreversible, NextFor(m.blocks, e))
  PROVE  /\ addEosioBlock(m, e, num) = m
         /\ addEosioBlock(trimBlocks(m), e, num) = trimBlocks(m)
<1> DEFINE b == NextFor(m.blocks, e)
<1>1. ChainOf(m, <<>>) = m.blocks /\ Good(m, <<>>)
  BY WholeLog DEF BoxMemory, Good
<1>2. PICK ts : /\ Good(trimBlocks(m), ts)
                /\ ChainOf(trimBlocks(m), ts) = m.blocks
                /\ trimBlocks(m).irreversible = m.irreversible
  BY <1>1, TrimGood
<1>3. Extended(m, <<>>, b, num, addEosioBlock(m, e, num))
  BY <1>1, NumberAssumption, AddEosioBlockByChain
<1>4. Extended(trimBlocks(m), ts, b, num, addEosioBlock(trimBlocks(m), e, num))
  BY <1>2, NumberAssumption, AddEosioBlockByChain
<1> HIDE DEF b
<1>5. ~Takes(m.blocks, m.irreversible, b)
  BY DEF b
<1> QED
  BY <1>1, <1>2, <1>3, <1>4, <1>5 DEF Extended
-----------------------------------------------------------------------------
(* The inductive invariant *)
BoxInv ==
  Up => /\ BoxMemory(blocksWasm)
        /\ stateWasm = trimBlocks(blocksWasm)
        /\ head = LastNum(blocksWasm.blocks)

LEMMA InitializedIsBox ==
  /\ BoxMemory(Initialized)
  /\ Initialized = trimBlocks(Initialized)
  /\ LastNum(Initialized.blocks) = 0
<1> DEFINE m == Initialized
<1>1. /\ m.blocks = <<>> /\ m.irreversible = 0 /\ m.trapped = FALSE
      /\ m.db = EmptyDb(EmptyTable)
      /\ m = [blocks |-> <<>>, irreversible |-> 0, db |-> m.db, trapped |-> FALSE]
  BY DEF Initialized
<1>2. <<>> \in Seq(Block) /\ Len(<<>>) = 0
  BY EmptySeq
<1>3. ChainOf(m, <<>>) = <<>>
  BY <1>1, <1>2, ConcatEmptySeq DEF ChainOf
<1>4. DbShape(m.db) /\ m.db.undo = <<>> /\ m.db.revision = 0 /\ m.db.table = EmptyTable
  <2>1. <<>> \in Seq({})
    BY EmptySeq
  <2>2. DbShape([table |-> EmptyTable, undo |-> <<>>, revision |-> 0])
    BY <2>1, MakeDbShape
  <2> QED
    BY <1>1, <2>2 DEF EmptyDb
<1> HIDE DEF m
<1>5. Inv(m, <<>>)
  <2>1. Shape(m, <<>>)
    <3>1. 0 \in UInt
      BY WidthAssumption DEF UInt
    <3> QED
      BY <1>2, <1>4, <3>1 DEF Shape, m, Initialized
  <2>2. Irreversible(m, <<>>) /\ Sessions(m, <<>>)
    BY <1>1, <1>2, <1>3, <1>4 DEF Irreversible, Sessions
  <2>3. Linked(<<>>) /\ SortedByEosioNum(<<>>)
    BY <1>2 DEF Linked, SortedByEosioNum
  <2> QED
    BY <1>3, <2>1, <2>2, <2>3 DEF Inv
<1>6. Replayed(m, <<>>)
  BY <1>1, <1>2, <1>3, <1>4, ReplayEmpty DEF Replayed, Holds
<1>7. Made(<<>>) /\ Applied(<<>>)
  BY <1>2 DEF Made, Applied
<1>8. Trimmed(m, <<>>)
  BY <1>1, <1>2 DEF Trimmed
<1> QED
  BY <1>1, <1>5, <1>6, <1>7, <1>8, TrimTwice, WidthAssumption
     DEF BoxMemory, Good, LastNum, m

LEMMA BoxStep == BoxInv /\ [Next]_vars => BoxInv'
<1> SUFFICES ASSUME BoxInv, [Next]_vars, Up'
             PROVE  /\ BoxMemory(blocksWasm')
                    /\ stateWasm' = trimBlocks(blocksWasm')
                    /\ head' = LastNum(blocksWasm'.blocks)
  BY DEF BoxInv
<1> USE DEF BoxInv
<1>1. CASE instantiate
  BY <1>1, InitializedIsBox DEF instantiate
<1>2. ASSUME NEW e \in EosioBlock, NEW n \in UInt, pushBlock(e, n)
      PROVE  /\ BoxMemory(blocksWasm')
             /\ stateWasm' = trimBlocks(blocksWasm')
             /\ head' = LastNum(blocksWasm'.blocks)
  <2> DEFINE m2 == addEosioBlock(blocksWasm, e, n)
             s2 == addEosioBlock(stateWasm, e, n)
  <2>1. /\ Up /\ BoxMemory(blocksWasm) /\ stateWasm = trimBlocks(blocksWasm)
        /\ Protected(m2, trimBlocks(s2))
    BY <1>2 DEF pushBlock, Idle
  <2>2. /\ s2.trapped <=> m2.trapped
        /\ ~m2.trapped => BoxMemory(m2) /\ trimBlocks(s2) = trimBlocks(m2)
    BY <2>1, PushStep
  <2> HIDE DEF m2, s2
  <2>3. ~(m2.trapped \/ trimBlocks(s2).trapped)
    BY <2>1 DEF Protected, Up
  <2>4. blocksWasm' = m2 /\ stateWasm' = trimBlocks(s2) /\ head' = LastNum(m2.blocks)
    BY <2>1, <2>3 DEF Protected
  <2> QED
    BY <2>2, <2>3, <2>4
<1>3. ASSUME NEW n \in UInt, undoEosioNumInBoth(n)
      PROVE  /\ BoxMemory(blocksWasm')
             /\ stateWasm' = trimBlocks(blocksWasm')
             /\ head' = LastNum(blocksWasm'.blocks)
  <2> DEFINE m2 == undoEosioNum(blocksWasm, n)
             s2 == undoEosioNum(stateWasm, n)
  <2>1. /\ Up /\ BoxMemory(blocksWasm) /\ stateWasm = trimBlocks(blocksWasm)
        /\ Protected(m2, s2)
    BY <1>3 DEF undoEosioNumInBoth, Idle
  <2>2. BoxMemory(m2) /\ s2 = trimBlocks(m2)
    BY <2>1, UndoStep
  <2> HIDE DEF m2, s2
  <2>3. ~(m2.trapped \/ s2.trapped)
    BY <2>1 DEF Protected, Up
  <2>4. blocksWasm' = m2 /\ stateWasm' = s2 /\ head' = LastNum(m2.blocks)
    BY <2>1, <2>3 DEF Protected
  <2> QED
    BY <2>2, <2>4
<1>4. CASE StartSave \/ FinishWrite \/ Rename \/ UNCHANGED vars
  BY <1>4 DEF StartSave, FinishWrite, Rename, vars, Up
<1>5. CASE Fail
  BY <1>5 DEF Fail, Up
<1> QED
  BY <1>1, <1>2, <1>3, <1>4, <1>5 DEF Next

THEOREM BoxInvariance == Spec => []BoxInv
<1>1. Init => BoxInv
  BY DEF Init, BoxInv, Up
<1> QED
  BY <1>1, BoxStep, PTL DEF Spec

(* The trimmed instance is always the trimmed whole one, and `head` the    *)
(* number of its last block.                                               *)
THEOREM InstancesStayTogether == Spec => []InstancesAgree
<1>1. BoxInv => InstancesAgree
  BY DEF BoxInv, InstancesAgree
<1> QED
  BY <1>1, BoxInvariance, PTL

(* Repeated or superseded history changes neither instance.                *)
THEOREM HistoryHarmless == Spec => []HistoryIsInert
<1>1. BoxInv => HistoryIsInert
  <2>1. SUFFICES ASSUME BoxInv, Up, NEW e \in EosioBlock, NEW n \in UInt, IsHistory(e)
                 PROVE  /\ addEosioBlock(blocksWasm, e, n) = blocksWasm
                        /\ addEosioBlock(stateWasm, e, n) = stateWasm
    BY DEF HistoryIsInert
  <2>2. BoxMemory(blocksWasm) /\ stateWasm = trimBlocks(blocksWasm)
    BY <2>1 DEF BoxInv
  <2>3. PICK i \in 1..Len(blocksWasm.blocks) :
          \/ e = blocksWasm.blocks[i].eosio
          \/ /\ blocksWasm.blocks[i].num <= blocksWasm.irreversible
             /\ e.num <= blocksWasm.blocks[i].eosio.num
    BY <2>1 DEF IsHistory
  <2>4. ~Takes(blocksWasm.blocks, blocksWasm.irreversible, NextFor(blocksWasm.blocks, e))
    BY <2>2, <2>3, HistoryNotTaken
  <2> QED
    BY <2>2, <2>4, HistoryUnchanged
<1> QED
  BY <1>1, BoxInvariance, PTL
-----------------------------------------------------------------------------
(* The storage as a chain of EOSIO blocks                                  *)
EosioOf(log) == [i \in 1..Len(log) |-> log[i].eosio]

LEMMA EosioOfIsSeq ==
  ASSUME NEW log \in Seq(Block)
  PROVE  /\ EosioOf(log) \in Seq(EosioBlock)
         /\ Len(EosioOf(log)) = Len(log)
         /\ \A i \in 1..Len(log) : EosioOf(log)[i] = log[i].eosio
<1>1. Len(log) \in Nat /\ \A i \in 1..Len(log) : log[i].eosio \in EosioBlock
  BY ElementOfSeq, BlockAssumption
<1>2. EosioOf(log) \in [1..Len(log) -> EosioBlock]
  BY <1>1 DEF EosioOf
<1>3. EosioOf(log) \in Seq(EosioBlock)
  BY <1>1, <1>2, SeqDef
<1>4. DOMAIN EosioOf(log) = 1..Len(EosioOf(log)) /\ Len(EosioOf(log)) \in Nat
  BY <1>3, LenProperties
<1>5. DOMAIN EosioOf(log) = 1..Len(log)
  BY DEF EosioOf
<1>6. Len(EosioOf(log)) = Len(log)
  BY <1>1, <1>4, <1>5
<1> QED
  BY <1>3, <1>6 DEF EosioOf

LEMMA EosioOfCut ==
  ASSUME NEW log \in Seq(Block), NEW k \in 0..Len(log)
  PROVE  EosioOf(SubSeq(log, 1, k)) = SubSeq(EosioOf(log), 1, k)
<1> DEFINE cut == SubSeq(log, 1, k)
           blocks == EosioOf(log)
<1>1. cut \in Seq(Block) /\ Len(cut) = k /\ \A i \in 1..k : cut[i] = log[i]
  BY CutOfCut
<1>2. blocks \in Seq(EosioBlock) /\ Len(blocks) = Len(log)
      /\ \A i \in 1..Len(log) : blocks[i] = log[i].eosio
  BY EosioOfIsSeq
<1> HIDE DEF cut, blocks
<1>3. /\ EosioOf(cut) \in Seq(EosioBlock) /\ Len(EosioOf(cut)) = k
      /\ \A i \in 1..k : EosioOf(cut)[i] = log[i].eosio
  BY <1>1, EosioOfIsSeq
<1>4. /\ SubSeq(blocks, 1, k) \in Seq(EosioBlock) /\ Len(SubSeq(blocks, 1, k)) = k
      /\ \A i \in 1..k : SubSeq(blocks, 1, k)[i] = blocks[i]
  <2>1. \A i \in 1..k : blocks[i] \in EosioBlock
    <3>1. \A i \in 1..k : i \in 1..Len(blocks)
      BY <1>2
    <3> QED
      BY <1>2, <3>1, ElementOfSeq
  <2>2. /\ SubSeq(blocks, 1, k) \in Seq(EosioBlock)
        /\ Len(SubSeq(blocks, 1, k)) = IF 1 <= k THEN k - 1 + 1 ELSE 0
        /\ \A i \in 1..k - 1 + 1 : SubSeq(blocks, 1, k)[i] = blocks[1 + i - 1]
    BY <2>1, SubSeqProperties
  <2>3. Len(SubSeq(blocks, 1, k)) = k
    BY <2>2
  <2>4. ASSUME NEW i \in 1..k PROVE SubSeq(blocks, 1, k)[i] = blocks[i]
    <3>1. i \in 1..k - 1 + 1 /\ 1 + i - 1 = i
      OBVIOUS
    <3> QED
      BY <2>2, <3>1
  <2> QED
    BY <2>2, <2>3, <2>4
<1>5. \A i \in 1..k : EosioOf(cut)[i] = SubSeq(blocks, 1, k)[i]
  BY <1>2, <1>3, <1>4
<1>6. EosioOf(cut) = SubSeq(blocks, 1, k)
  BY <1>3, <1>4, <1>5, SeqEqual
<1> QED
  BY <1>6 DEF cut, blocks

LEMMA EosioOfAppend ==
  ASSUME NEW log \in Seq(Block), NEW b \in Block
  PROVE  EosioOf(Append(log, b)) = Append(EosioOf(log), b.eosio)
<1> DEFINE next == Append(log, b)
           longer == Append(EosioOf(log), b.eosio)
           n == Len(log)
<1>1. /\ next \in Seq(Block) /\ Len(next) = n + 1 /\ n \in Nat
      /\ \A i \in 1..n : next[i] = log[i]
      /\ next[n + 1] = b
  BY AppendProperties
<1>2. /\ EosioOf(log) \in Seq(EosioBlock) /\ Len(EosioOf(log)) = n
      /\ \A i \in 1..n : EosioOf(log)[i] = log[i].eosio
  BY EosioOfIsSeq
<1>3. b.eosio \in EosioBlock
  BY BlockAssumption
<1>4. /\ longer \in Seq(EosioBlock) /\ Len(longer) = n + 1
      /\ \A i \in 1..n : longer[i] = EosioOf(log)[i]
      /\ longer[n + 1] = b.eosio
  BY <1>2, <1>3, AppendProperties
<1> HIDE DEF next, longer, n
<1>5. /\ EosioOf(next) \in Seq(EosioBlock) /\ Len(EosioOf(next)) = n + 1
      /\ \A i \in 1..n + 1 : EosioOf(next)[i] = next[i].eosio
  BY <1>1, EosioOfIsSeq
<1>6. ASSUME NEW i \in 1..n + 1 PROVE EosioOf(next)[i] = longer[i]
  <2>1. i \in 1..n \/ i = n + 1
    BY <1>1
  <2> QED
    BY <1>1, <1>2, <1>4, <1>5, <2>1
<1>7. EosioOf(next) = longer
  BY <1>4, <1>5, <1>6, SeqEqual
<1> QED
  BY <1>7 DEF next, longer

(* In a sorted chain the blocks below a number come before it.             *)
LEMMA NumBelowIsBefore ==
  ASSUME NEW log \in Seq(Block), SortedByEosioNum(log), NEW num \in UInt
  PROVE  Eosio!NumBelow(EosioOf(log), num) = BlockBeforeEosioNum(log, num)
<1> DEFINE j == BlockBeforeEosioNum(log, num)
           blocks == EosioOf(log)
           below == {i \in DOMAIN blocks : blocks[i].num < num}
<1>1. /\ j \in 0..Len(log) /\ Len(log) \in Nat
      /\ \A i \in 1..j : log[i].eosio.num < num
      /\ \A i \in j + 1..Len(log) : log[i].eosio.num >= num
  <2> DEFINE p == LowerBoundByEosioNum(log, num)
  <2>1. /\ p \in 1..Len(log) + 1
        /\ \A i \in 1..p - 1 : log[i].eosio.num < num
        /\ \A i \in p..Len(log) : log[i].eosio.num >= num
    BY LowerBoundByEosioNumSeparates
  <2>2. j = p - 1 /\ Len(log) \in Nat
    BY DEF BlockBeforeEosioNum
  <2> HIDE DEF p, j
  <2>3. p = j + 1
    BY <2>1, <2>2
  <2> QED
    BY <2>1, <2>2, <2>3
<1>2. /\ DOMAIN blocks = 1..Len(log)
      /\ \A i \in 1..Len(log) : blocks[i] = log[i].eosio
  BY DEF EosioOf
<1>3. \A i \in 1..Len(log) : log[i].eosio.num \in Nat
  BY ElementOfSeq, BlockAssumption, EosioAssumption, WidthAssumption DEF UInt
<1>4. num \in Nat
  BY WidthAssumption DEF UInt
<1> HIDE DEF j, blocks
<1>5. below = 1..j
  <2>1. ASSUME NEW i \in 1..j PROVE i \in below
    <3>1. i \in 1..Len(log)
      BY <1>1
    <3> QED
      BY <1>1, <1>2, <3>1
  <2>2. ASSUME NEW i \in below PROVE i \in 1..j
    <3>1. i \in 1..Len(log) /\ log[i].eosio.num < num
      BY <1>2
    <3>2. ~(i \in j + 1..Len(log))
      <4>1. SUFFICES ASSUME i \in j + 1..Len(log) PROVE FALSE
        OBVIOUS
      <4>2. log[i].eosio.num >= num
        BY <1>1, <4>1
      <4> QED
        BY <1>3, <1>4, <3>1, <4>2
    <3> QED
      BY <1>1, <3>1, <3>2
  <2> QED
    BY <2>1, <2>2
<1>6. Cardinality(1..j) = j
  BY <1>1, CountUpTo
<1>7. Eosio!NumBelow(blocks, num) = Eosio!Cardinality(below)
  BY DEF Eosio!NumBelow
<1>8. Eosio!Cardinality(1..j) = Cardinality(1..j)
  BY DEF Eosio!Cardinality, Cardinality
<1> HIDE DEF below
<1> QED
  BY <1>5, <1>6, <1>7, <1>8 DEF j, blocks

LEMMA PushIsPushed ==
  ASSUME NEW m, BoxMemory(m), NEW e \in EosioBlock, NEW num \in UInt,
         ~addEosioBlock(m, e, num).trapped
  PROVE  AsEosioChain(addEosioBlock(m, e, num)) = Eosio!Pushed(AsEosioChain(m), e, num)
<1> DEFINE log == m.blocks
           irr == m.irreversible
           m2 == addEosioBlock(m, e, num)
           b == NextFor(log, e)
           k == BlockBeforeEosioNum(log, e.num)
           cut == SubSeq(log, 1, k)
           next == Append(cut, b)
           blocks == EosioOf(log)
           c == [blocks |-> blocks, final |-> irr]
           longer == [blocks |-> EosioOf(next), final |-> irr]
<1>1. /\ ChainOf(m, <<>>) = log
      /\ log \in Seq(Block) /\ Len(log) \in Nat
      /\ Linked(log) /\ SortedByEosioNum(log)
      /\ irr \in 0..Len(log) /\ irr \in Nat
      /\ Made(log) /\ Good(m, <<>>)
  BY WholeLog DEF BoxMemory, Good
<1>2. Extended(m, <<>>, b, num, m2)
  BY <1>1, NumberAssumption, AddEosioBlockByChain
<1>3. /\ b \in Block /\ b.eosio = e /\ b.num = k + 1
      /\ k \in 0..Len(log) /\ k \in Nat
  BY <1>1, NumberAssumption, NextForIsBlock
<1>4. e.num \in UInt
  BY EosioAssumption
<1>5. /\ Eosio!NumBelow(blocks, e.num) = k
      /\ blocks \in Seq(EosioBlock) /\ Len(blocks) = Len(log)
      /\ \A i \in 1..Len(log) : blocks[i] = log[i].eosio
  BY <1>1, <1>4, NumBelowIsBefore, EosioOfIsSeq
<1>6. AsEosioChain(m) = c /\ AsEosioChain(m2) = [blocks |-> EosioOf(m2.blocks),
                                               final |-> m2.irreversible]
  BY DEF AsEosioChain, EosioOf
<1>7. b = MakeBlock(k + 1, IF k = 0 THEN NoId ELSE log[k].id, e)
  BY DEF NextFor
<1> HIDE DEF log, irr, m2, b, k, cut, next, blocks
<1>8. Eosio!IsNew(c, e) <=> Takes(log, irr, b)
  <2>1. Eosio!IsNew(c, e) <=> k >= irr /\ (k < Len(log) => log[k + 1].eosio # e)
    <3>1. k < Len(log) => blocks[k + 1] = log[k + 1].eosio
      BY <1>1, <1>3, <1>5
    <3> QED
      BY <1>5, <3>1 DEF Eosio!IsNew
  <2>2. b.num \in irr + 1..Len(log) + 1 <=> k >= irr
    BY <1>1, <1>3
  <2>3. b.num > 1 => b.previous = log[b.num - 1].id
    <3>1. SUFFICES ASSUME b.num > 1 PROVE b.previous = log[b.num - 1].id
      OBVIOUS
    <3>2. k # 0 /\ b.num - 1 = k
      BY <1>3, <3>1
    <3> QED
      BY <1>7, <3>2 DEF MakeBlock
  <2>4. ASSUME k < Len(log)
        PROVE  b # log[b.num] <=> log[k + 1].eosio # e
    <3>1. k + 1 \in 1..Len(log) /\ (k + 1 = 1 <=> k = 0) /\ k + 1 - 1 = k
      BY <1>1, <1>3, <2>4
    <3>2. \A i \in 1..Len(log) :
            log[i] = MakeBlock(i, IF i = 1 THEN NoId ELSE log[i - 1].id, log[i].eosio)
      BY <1>1 DEF Made
    <3>3. PICK i \in 1..Len(log) : i = k + 1
      BY <3>1
    <3>4. log[k + 1] = MakeBlock(k + 1, IF k = 0 THEN NoId ELSE log[k].id,
                                 log[k + 1].eosio)
      <4>1. log[i] = MakeBlock(i, IF i = 1 THEN NoId ELSE log[i - 1].id, log[i].eosio)
        BY <3>2, <3>3
      <4>2. (i = 1 <=> k = 0) /\ i - 1 = k
        BY <1>3, <3>3
      <4> QED
        BY <3>3, <4>1, <4>2
    <3>5. log[b.num] = log[k + 1]
      BY <1>3
    <3>6. log[k + 1].eosio = e => log[k + 1] = b
      BY <1>7, <3>4
    <3>7. log[k + 1] = b => log[k + 1].eosio = e
      BY <1>3
    <3> QED
      BY <3>5, <3>6, <3>7
  <2>5. b.num <= Len(log) <=> k < Len(log)
    BY <1>1, <1>3
  <2> QED
    BY <2>1, <2>2, <2>3, <2>4, <2>5 DEF Takes
<1>9. CASE ~Takes(log, irr, b)
  <2>1. m2 = m
    BY <1>1, <1>2, <1>9 DEF Extended, irr
  <2>2. Eosio!Pushed(c, e, num) = c
    BY <1>8, <1>9 DEF Eosio!Pushed
  <2> QED
    BY <1>6, <2>1, <2>2 DEF m2
<1>10. CASE Takes(log, irr, b)
  <2>1. b.num - 1 = k /\ k >= irr
    BY <1>1, <1>3, <1>10 DEF Takes
  <2>2. /\ Inv(m2, <<>>) /\ ChainOf(m2, <<>>) = next
        /\ m2.irreversible = FinalAfterNum(next, irr, num)
    BY <1>1, <1>2, <1>10, <2>1 DEF Extended, irr, next, cut
  <2>3. m2.blocks = next /\ next \in Seq(Block) /\ SortedByEosioNum(next)
    BY <2>2, WholeLog
  <2>4. cut \in Seq(Block) /\ EosioOf(cut) = SubSeq(blocks, 1, k)
    BY <1>1, <1>3, CutOfCut, EosioOfCut DEF cut, blocks
  <2>5. EosioOf(next) = Append(SubSeq(blocks, 1, k), e)
    BY <1>3, <2>4, EosioOfAppend DEF next
  <2>6. Eosio!FinalAfter(longer, num) = FinalAfterNum(next, irr, num)
    <3> DEFINE j == BlockBeforeEosioNum(next, Inc(num))
    <3>1. FinalAfterNum(next, irr, num) = IF j > irr THEN j ELSE irr
      BY DEF FinalAfterNum
    <3>2. num \in Nat /\ MaxUInt \in Nat /\ num <= MaxUInt
      BY WidthAssumption DEF UInt
    <3>3. Inc(num) \in UInt /\ (num < MaxUInt => Inc(num) = num + 1)
          /\ (num = MaxUInt => Inc(num) = 0)
      BY IncWraps
    <3>4. j \in 0..Len(next) /\ \A i \in 1..j : next[i].eosio.num < Inc(num)
      BY <2>3, <3>3, LowerBoundByEosioNumSeparates DEF BlockBeforeEosioNum
    <3>5. Eosio!NumBelow(EosioOf(next), Inc(num)) = j
      BY <2>3, <3>3, NumBelowIsBefore
    <3> HIDE DEF j
    <3>6. CASE num = MaxUInt
      <4>1. ~(j > irr)
        <5>1. SUFFICES ASSUME j > irr PROVE FALSE
          OBVIOUS
        <5>2. 1 \in 1..j /\ 1 \in 1..Len(next)
          BY <1>1, <2>3, <3>4, <5>1
        <5>3. next[1].eosio.num < 0
          BY <3>3, <3>4, <3>6, <5>2
        <5>4. next[1].eosio.num \in Nat
          BY <2>3, <5>2, ElementOfSeq, BlockAssumption, EosioAssumption,
             WidthAssumption DEF UInt
        <5> QED
          BY <5>3, <5>4
      <4> QED
        BY <3>1, <3>6, <4>1 DEF Eosio!FinalAfter
    <3>7. CASE num # MaxUInt
      <4>1. Eosio!NumBelow(EosioOf(next), num + 1) = j
        BY <3>2, <3>3, <3>5, <3>7
      <4>2. Eosio!FinalAfter(longer, num) = IF j < irr THEN irr ELSE j
        BY <3>7, <4>1 DEF Eosio!FinalAfter
      <4>3. j \in Nat /\ irr \in Nat
        BY <1>1, <2>3, <3>4
      <4> QED
        BY <3>1, <4>2, <4>3
    <3> QED
      BY <3>6, <3>7
  <2>7. [c EXCEPT !.blocks = Append(SubSeq(@, 1, Eosio!NumBelow(@, e.num)), e)] = longer
    <3>1. [c EXCEPT !.blocks = Append(SubSeq(@, 1, Eosio!NumBelow(@, e.num)), e)]
            = [c EXCEPT !.blocks = Append(SubSeq(blocks, 1, Eosio!NumBelow(blocks, e.num)), e)]
      OBVIOUS
    <3>2. Append(SubSeq(blocks, 1, Eosio!NumBelow(blocks, e.num)), e) = EosioOf(next)
      BY <1>5, <2>5
    <3> DEFINE fork == Append(SubSeq(blocks, 1, Eosio!NumBelow(blocks, e.num)), e)
    <3>3. fork = EosioOf(next)
      BY <3>2
    <3>4. [c EXCEPT !.blocks = Append(SubSeq(@, 1, Eosio!NumBelow(@, e.num)), e)]
            = [c EXCEPT !.blocks = fork]
      BY <3>1
    <3> HIDE DEF fork
    <3>5. [c EXCEPT !.blocks = fork] = longer
      BY <3>3
    <3> QED
      BY <3>4, <3>5
  <2>8. Eosio!Pushed(c, e, num) =
          [[c EXCEPT !.blocks = Append(SubSeq(@, 1, Eosio!NumBelow(@, e.num)), e)]
             EXCEPT !.final = Eosio!FinalAfter(
               [c EXCEPT !.blocks = Append(SubSeq(@, 1, Eosio!NumBelow(@, e.num)), e)], num)]
    BY <1>8, <1>10 DEF Eosio!Pushed
  <2>9. Eosio!Pushed(c, e, num) = [longer EXCEPT !.final = Eosio!FinalAfter(longer, num)]
    BY <2>7, <2>8
  <2>10. Eosio!Pushed(c, e, num) = [blocks |-> EosioOf(next),
                                    final |-> FinalAfterNum(next, irr, num)]
    BY <2>6, <2>9
  <2> QED
    BY <1>6, <2>2, <2>3, <2>10 DEF m2
<1> QED
  BY <1>9, <1>10

LEMMA UndoIsUndone ==
  ASSUME NEW m, BoxMemory(m), NEW num \in UInt
  PROVE  AsEosioChain(undoEosioNum(m, num)) = Eosio!Undone(AsEosioChain(m), num)
<1> DEFINE log == m.blocks
           irr == m.irreversible
           m2 == undoEosioNum(m, num)
           k == BlockBeforeEosioNum(log, num)
           blocks == EosioOf(log)
           c == [blocks |-> blocks, final |-> irr]
<1>1. /\ ChainOf(m, <<>>) = log
      /\ log \in Seq(Block) /\ Len(log) \in Nat
      /\ SortedByEosioNum(log) /\ irr \in Nat /\ Good(m, <<>>)
  BY WholeLog DEF BoxMemory, Good
<1>2. /\ Good(m2, <<>>) /\ m2.irreversible = irr
      /\ ChainOf(m2, <<>>) = UndoneByEosioNum(log, irr, num)
  BY <1>1, UndoEosioNumByChain
<1>3. /\ Eosio!NumBelow(blocks, num) = k
      /\ Len(blocks) = Len(log)
      /\ \A i \in 1..Len(log) : blocks[i] = log[i].eosio
  BY <1>1, NumBelowIsBefore, EosioOfIsSeq
<1>4. k \in 0..Len(log)
  BY <1>1, LowerBoundByEosioNumSeparates DEF BlockBeforeEosioNum
<1>5. AsEosioChain(m) = c /\ AsEosioChain(m2) = [blocks |-> EosioOf(m2.blocks),
                                               final |-> m2.irreversible]
  BY DEF AsEosioChain, EosioOf
<1>6. EosioOf(SubSeq(log, 1, k)) = SubSeq(blocks, 1, k)
  BY <1>1, <1>4, EosioOfCut
<1>7. UndoneByEosioNum(log, irr, num) =
        IF k >= irr /\ k < Len(log) /\ log[k + 1].eosio.num = num
        THEN SubSeq(log, 1, k) ELSE log
  BY DEF UndoneByEosioNum
<1> HIDE DEF log, irr, m2, k, blocks
<1>8. m2.blocks = UndoneByEosioNum(log, irr, num)
  BY <1>2, WholeLog DEF Good
<1>9. k < Len(log) => blocks[k + 1] = log[k + 1].eosio
  BY <1>1, <1>3, <1>4
<1>10. Eosio!Undone(c, num) =
         IF k >= irr /\ k < Len(log) /\ blocks[k + 1].num = num
         THEN [c EXCEPT !.blocks = SubSeq(blocks, 1, k)] ELSE c
  BY <1>3 DEF Eosio!Undone
<1>11. CASE k >= irr /\ k < Len(log) /\ log[k + 1].eosio.num = num
  BY <1>2, <1>5, <1>6, <1>7, <1>8, <1>9, <1>10, <1>11 DEF m2
<1>12. CASE ~(k >= irr /\ k < Len(log) /\ log[k + 1].eosio.num = num)
  BY <1>2, <1>5, <1>7, <1>8, <1>9, <1>10, <1>12 DEF m2, blocks, c
<1> QED
  BY <1>11, <1>12

(* Whatever the instances do, the storage is a chain of EOSIO blocks.      *)
THEOREM StorageIsEosioChain == Spec => ImplementsEosioChain
<1> DEFINE chain == IF Up THEN AsEosioChain(blocksWasm) ELSE AsEosioChain(Initialized)
<1>1. AsEosioChain(Initialized) = Eosio!Empty
  <2>1. Len(<<>>) = 0
    BY EmptySeq
  <2>2. [i \in 1..0 |-> <<>>[i].eosio] = <<>>
    OBVIOUS
  <2>3. [i \in 1..Len(<<>>) |-> <<>>[i].eosio] = <<>>
    BY <2>1, <2>2
  <2> QED
    BY <2>3 DEF AsEosioChain, Initialized, Eosio!Empty
<1>2. Init => Eosio!Init
  BY <1>1 DEF Init, Up, Eosio!Init
<1>3. BoxInv /\ [Next]_vars => [Eosio!Next]_chain
  <2>1. SUFFICES ASSUME BoxInv, [Next]_vars
                 PROVE  Eosio!Next \/ UNCHANGED chain
    OBVIOUS
  <2>2. ~Up' => Eosio!Next
    BY <1>1 DEF Eosio!Next, Eosio!Lost
  <2>3. CASE instantiate
    BY <1>1, <2>3 DEF instantiate
  <2>4. ASSUME NEW e \in EosioBlock, NEW n \in UInt, pushBlock(e, n), Up'
        PROVE  Eosio!Next
    <3> DEFINE m2 == addEosioBlock(blocksWasm, e, n)
               s2 == trimBlocks(addEosioBlock(stateWasm, e, n))
    <3>1. Up /\ BoxMemory(blocksWasm) /\ Protected(m2, s2)
      BY <2>1, <2>4 DEF pushBlock, Idle, BoxInv
    <3> HIDE DEF s2
    <3>2. ~m2.trapped /\ blocksWasm' = m2
      BY <2>4, <3>1 DEF Protected, Up
    <3>3. AsEosioChain(m2) = Eosio!Pushed(AsEosioChain(blocksWasm), e, n)
      BY <3>1, <3>2, PushIsPushed
    <3> HIDE DEF m2
    <3>4. chain' = Eosio!Pushed(chain, e, n)
      BY <2>4, <3>1, <3>2, <3>3
    <3> QED
      BY <3>4 DEF Eosio!Next, UInt
  <2>5. ASSUME NEW n \in UInt, undoEosioNumInBoth(n), Up'
        PROVE  Eosio!Next
    <3> DEFINE m2 == undoEosioNum(blocksWasm, n)
               s2 == undoEosioNum(stateWasm, n)
    <3>1. Up /\ BoxMemory(blocksWasm) /\ Protected(m2, s2)
      BY <2>1, <2>5 DEF undoEosioNumInBoth, Idle, BoxInv
    <3> HIDE DEF s2
    <3>2. blocksWasm' = m2
      BY <2>5, <3>1 DEF Protected, Up
    <3>3. AsEosioChain(m2) = Eosio!Undone(AsEosioChain(blocksWasm), n)
      BY <3>1, UndoIsUndone
    <3> HIDE DEF m2
    <3>4. chain' = Eosio!Undone(chain, n)
      BY <2>5, <3>1, <3>2, <3>3
    <3> QED
      BY <3>4 DEF Eosio!Next, UInt
  <2>6. CASE StartSave \/ FinishWrite \/ Rename \/ UNCHANGED vars
    BY <2>6 DEF StartSave, FinishWrite, Rename, vars, Up
  <2>7. CASE Fail
    BY <2>2, <2>7 DEF Fail, Up
  <2> QED
    BY <2>1, <2>2, <2>3, <2>4, <2>5, <2>6, <2>7 DEF Next
<1> QED
  BY <1>2, <1>3, BoxInvariance, PTL DEF Spec, ImplementsEosioChain, Eosio!Spec
-----------------------------------------------------------------------------
(* What a client that catches up computes.                                 *)

(* Adding blocks one after another runs through one memory per block.      *)
IsRun(r, m, blocks) ==
  /\ r[0] = m
  /\ AddAll(m, blocks) = r[Len(blocks)]
  /\ \A k \in 1..Len(blocks) : r[k] = addBlock(r[k - 1], blocks[k], 0)

LEMMA AddAllRun ==
  ASSUME NEW m, NEW blocks \in Seq(Block)
  PROVE  \E r : IsRun(r, m, blocks)
<1> DEFINE n == Len(blocks)
           Step(k, f) == [s \in SUBSET (1..k) |->
                            IF s = {} THEN m
                            ELSE addBlock(f[s \ {Max(s)}], blocks[Max(s)], 0)]
           HasFold(k) == \E f : f = Step(k, f)
           S == {k \in Nat : HasFold(k)}
           fold == CHOOSE f : f = Step(n, f)
           r == [k \in 0..n |-> fold[1..k]]
<1>1. n \in Nat /\ DOMAIN blocks = 1..n
  OBVIOUS
<1>2. AddAll(m, blocks) = fold[1..n]
  BY <1>1 DEF AddAll, FoldLeft, MapThenFoldSet
<1> HIDE DEF n, HasFold
<1>3. HasFold(0)
  <2> DEFINE g == [s \in SUBSET (1..0) |-> m]
  <2>1. \A s \in SUBSET (1..0) : s = {}
    OBVIOUS
  <2>2. g = Step(0, g)
    BY <2>1
  <2> QED
    BY <2>2 DEF HasFold
<1>4. ASSUME NEW k \in Nat, HasFold(k) PROVE HasFold(k + 1)
  <2>1. PICK g : g = Step(k, g)
    BY <1>4 DEF HasFold
  <2> DEFINE h == [s \in SUBSET (1..k + 1) |->
                     IF k + 1 \in s THEN addBlock(g[s \ {k + 1}], blocks[k + 1], 0) ELSE g[s]]
  <2>2. \A s \in SUBSET (1..k) :
          g[s] = IF s = {} THEN m ELSE addBlock(g[s \ {Max(s)}], blocks[Max(s)], 0)
    BY <2>1
  <2>3. ASSUME NEW s \in SUBSET (1..k + 1)
        PROVE  /\ k + 1 \in s => Max(s) = k + 1 /\ s \ {k + 1} \in SUBSET (1..k)
               /\ k + 1 \notin s => s \in SUBSET (1..k)
    <3>1. k + 1 \in s => Max(s) = k + 1
      <4>1. SUFFICES ASSUME k + 1 \in s PROVE Max(s) = k + 1
        OBVIOUS
      <4>2. \A x \in s : x \in 1..k + 1
        OBVIOUS
      <4>3. \A x \in s : (\A y \in s : x >= y) => x = k + 1
        BY <4>1, <4>2
      <4>4. \A y \in s : k + 1 >= y
        BY <4>2
      <4> QED
        BY <4>1, <4>3, <4>4 DEF Max
    <3> QED
      BY <3>1
  <2>4. ASSUME NEW s \in SUBSET (1..k + 1)
        PROVE  h[s] = IF s = {} THEN m
                      ELSE addBlock(h[s \ {Max(s)}], blocks[Max(s)], 0)
    <3>1. \A t \in SUBSET (1..k) : h[t] = g[t]
      <4>1. \A t \in SUBSET (1..k) : t \in SUBSET (1..k + 1) /\ k + 1 \notin t
        OBVIOUS
      <4> QED
        BY <4>1
    <3>2. CASE k + 1 \in s
      <4>1. h[s] = addBlock(g[s \ {k + 1}], blocks[k + 1], 0)
        BY <3>2
      <4>2. h[s \ {k + 1}] = g[s \ {k + 1}]
        BY <2>3, <3>1, <3>2
      <4> HIDE DEF h
      <4> QED
        BY <2>3, <3>2, <4>1, <4>2
    <3>3. CASE k + 1 \notin s
      <4>1. s \in SUBSET (1..k) /\ h[s] = g[s]
        BY <2>3, <3>1, <3>3
      <4>2. h[s \ {Max(s)}] = g[s \ {Max(s)}]
        BY <3>1, <4>1
      <4> HIDE DEF h
      <4> QED
        BY <2>2, <4>1, <4>2
    <3> QED
      BY <3>2, <3>3
  <2>5. h = Step(k + 1, h)
    <3>1. h = [s \in SUBSET (1..k + 1) |-> h[s]]
      OBVIOUS
    <3> HIDE DEF h
    <3> QED
      BY <2>4, <3>1
  <2> QED
    BY <2>5 DEF HasFold
<1>5. HasFold(n)
  <2>1. 0 \in S /\ \A k \in Nat : k \in S => k + 1 \in S
    BY <1>3, <1>4
  <2> HIDE DEF S
  <2>2. n \in S
    BY <1>1, <2>1, NatInductionOnSet
  <2> QED
    BY <2>2 DEF S
<1> HIDE DEF Step
<1>6. fold = Step(n, fold)
  BY <1>5 DEF HasFold
<1> HIDE DEF fold
<1>7. r[0] = m
  <2>1. 1..0 = {} /\ 0 \in 0..n
    BY <1>1
  <2> QED
    BY <1>6, <2>1 DEF Step
<1>8. ASSUME NEW k \in 1..n
      PROVE  r[k] = addBlock(r[k - 1], blocks[k], 0)
  <2>1. k \in Nat \ {0} /\ 1..k \in SUBSET (1..n) /\ k \in 0..n /\ k - 1 \in 0..n
    BY <1>1
  <2>2. Max(1..k) = k /\ (1..k) \ {k} = 1..k - 1 /\ 1..k # {}
    BY <2>1, MaxOfInitial
  <2>3. r[k] = fold[1..k] /\ r[k - 1] = fold[1..k - 1]
    BY <2>1
  <2> HIDE DEF r
  <2>4. fold[1..k] = addBlock(fold[(1..k) \ {Max(1..k)}], blocks[Max(1..k)], 0)
    BY <1>6, <2>1, <2>2, Zenon DEF Step
  <2> QED
    BY <2>2, <2>3, <2>4
<1>9. AddAll(m, blocks) = r[n]
  BY <1>1, <1>2
<1> HIDE DEF r
<1> QED
  BY <1>7, <1>8, <1>9 DEF n, IsRun

(* Chains that agree in one place agree in all places before it.           *)
LEMMA SamePast ==
  ASSUME NEW c \in Seq(Block), Linked(c), NEW d \in Seq(Block), Linked(d),
         NEW k \in Nat, k <= Len(c), k <= Len(d), k > 0 => c[k].id = d[k].id
  PROVE  SubSeq(c, 1, k) = SubSeq(d, 1, k)
<1>1. \A i \in 1..k : /\ c[i] \in Block /\ d[i] \in Block
                      /\ c[i].id = d[i].id => c[i] = d[i]
  <2>1. \A i \in 1..k : i \in 1..Len(c) /\ i \in 1..Len(d)
    OBVIOUS
  <2>2. \A i \in 1..k : c[i] \in Block /\ d[i] \in Block
    BY <2>1, ElementOfSeq
  <2> QED
    BY <2>2, HashAssumption
<1> DEFINE S == {j \in Nat : j < k => c[k - j] = d[k - j]}
<1>2. 0 \in S
  <2>1. SUFFICES ASSUME 0 < k PROVE c[k] = d[k]
    OBVIOUS
  <2>2. k \in 1..k /\ c[k].id = d[k].id
    BY <2>1
  <2> QED
    BY <1>1, <2>2
<1>3. ASSUME NEW j \in Nat, j \in S PROVE j + 1 \in S
  <2>1. SUFFICES ASSUME j + 1 < k PROVE c[k - (j + 1)] = d[k - (j + 1)]
    OBVIOUS
  <2> DEFINE i == k - j
             l == k - (j + 1)
  <2>2. /\ i \in 1..Len(c) /\ i \in 1..Len(d) /\ i > 1 /\ i - 1 = l
        /\ l \in 1..k
    BY <2>1
  <2>3. c[i] = d[i]
    BY <1>3, <2>1
  <2> HIDE DEF i, l
  <2>4. c[i].previous = c[i - 1].id /\ d[i].previous = d[i - 1].id
    BY <2>2 DEF Linked
  <2>5. c[l].id = d[l].id
    BY <2>2, <2>3, <2>4
  <2>6. c[l] = d[l]
    BY <1>1, <2>2, <2>5
  <2> QED
    BY <2>6 DEF l
<1> HIDE DEF S
<1>4. \A j \in Nat : j \in S
  BY <1>2, <1>3, NatInductionOnSet
<1>5. \A i \in 1..k : c[i] = d[i]
  <2>1. SUFFICES ASSUME NEW i \in 1..k PROVE c[i] = d[i]
    OBVIOUS
  <2>2. k - i \in Nat /\ k - i < k /\ k - (k - i) = i
    OBVIOUS
  <2>3. k - i \in S
    BY <1>4, <2>2
  <2> QED
    BY <2>2, <2>3 DEF S
<1>6. /\ SubSeq(c, 1, k) \in Seq(Block) /\ Len(SubSeq(c, 1, k)) = k
      /\ \A i \in 1..k : SubSeq(c, 1, k)[i] = c[i]
      /\ SubSeq(d, 1, k) \in Seq(Block) /\ Len(SubSeq(d, 1, k)) = k
      /\ \A i \in 1..k : SubSeq(d, 1, k)[i] = d[i]
  <2>1. k \in 0..Len(c) /\ k \in 0..Len(d)
    OBVIOUS
  <2> QED
    BY <2>1, CutOfCut
<1> QED
  BY <1>5, <1>6, SeqEqual

(* Adding the rest of a chain block by block gives a memory of that chain. *)
LEMMA AddAllByChain ==
  ASSUME NEW m, NEW tr, Good(m, tr), m.irreversible < MaxUInt,
         NEW d \in Seq(Block), Linked(d), SortedByEosioNum(d), Applied(d),
         NEW k \in 0..Len(d), m.irreversible <= k, ChainOf(m, tr) = SubSeq(d, 1, k)
  PROVE  LET all == AddAll(m, SubSeq(d, k + 1, Len(d)))
         IN  /\ Good(all, tr)
             /\ all.irreversible = m.irreversible
             /\ ChainOf(all, tr) = d
<1> DEFINE n == Len(d) - k
           rest == SubSeq(d, k + 1, Len(d))
           irr == m.irreversible
<1>1. /\ Len(d) \in Nat /\ k \in Nat /\ n \in Nat /\ irr \in Nat /\ irr < MaxUInt
      /\ irr <= k /\ k <= Len(d) /\ k + n = Len(d)
      /\ MaxUInt \in Nat /\ 0 \in UInt
  BY LogInChain, WidthAssumption DEF Good, UInt
<1> HIDE DEF n, irr
<1>2. /\ rest \in Seq(Block) /\ Len(rest) = n
      /\ \A i \in 1..n : rest[i] = d[k + i]
  <2>1. k + 1 \in Int /\ Len(d) \in Int /\ \A i \in k + 1..Len(d) : d[i] \in Block
    <3>1. \A i \in k + 1..Len(d) : i \in 1..Len(d)
      BY <1>1
    <3> QED
      BY <1>1, <3>1, ElementOfSeq
  <2>2. /\ rest \in Seq(Block)
        /\ Len(rest) = IF k + 1 <= Len(d) THEN Len(d) - (k + 1) + 1 ELSE 0
        /\ \A i \in 1..Len(d) - (k + 1) + 1 : rest[i] = d[k + 1 + i - 1]
    BY <2>1, SubSeqProperties
  <2> HIDE DEF rest
  <2>3. Len(d) - (k + 1) + 1 = n /\ (~(k + 1 <= Len(d)) => n = 0)
    BY <1>1
  <2>4. \A i \in 1..n : k + 1 + i - 1 = k + i
    BY <1>1
  <2> QED
    BY <2>2, <2>3, <2>4
<1>3. PICK r : IsRun(r, m, rest)
  BY <1>2, AddAllRun
<1> HIDE DEF rest
<1>4. /\ r[0] = m /\ AddAll(m, rest) = r[n]
      /\ \A j \in 1..n : r[j] = addBlock(r[j - 1], rest[j], 0)
  BY <1>2, <1>3 DEF IsRun
<1>5. \A l \in 0..Len(d) :
        /\ SubSeq(d, 1, l) \in Seq(Block) /\ Len(SubSeq(d, 1, l)) = l
        /\ \A i \in 1..l : SubSeq(d, 1, l)[i] = d[i]
  BY CutOfCut
<1> DEFINE Holding(j) == /\ Good(r[j], tr)
                         /\ r[j].irreversible = irr
                         /\ ChainOf(r[j], tr) = SubSeq(d, 1, k + j)
           S == {j \in Nat : j <= n => Holding(j)}
<1>6. 0 \in S
  BY <1>1, <1>4 DEF irr
<1>7. ASSUME NEW j \in Nat, j \in S PROVE j + 1 \in S
  <2>1. SUFFICES ASSUME j + 1 <= n, Holding(j) PROVE Holding(j + 1)
    BY <1>1, <1>7
  <2> DEFINE l == k + j
             i == k + (j + 1)
             b == d[i]
             chain == SubSeq(d, 1, l)
             next == SubSeq(d, 1, i)
  <2>2. /\ j + 1 \in 1..n /\ (j + 1) - 1 = j
        /\ l \in 0..Len(d) /\ i \in 1..Len(d) /\ i \in 0..Len(d)
        /\ i = l + 1 /\ i - 1 = l /\ irr <= l /\ l \in Nat /\ i \in Nat
    <3>0. n \in Nat /\ j + 1 <= n
      BY <1>1, <2>1
    <3>1. j + 1 \in 1..n /\ (j + 1) - 1 = j /\ j + 1 <= n /\ n \in Nat /\ j \in Nat
      BY <3>0
    <3>2. l \in Nat /\ i \in Nat /\ i = l + 1 /\ i - 1 = l /\ i <= k + n
      BY <1>1, <3>1
    <3> HIDE DEF l, i
    <3>3. irr <= l
      BY <1>1, <3>1 DEF l
    <3> QED
      BY <1>1, <3>1, <3>2, <3>3
  <2>3. r[j + 1] = addBlock(r[j], b, 0)
    BY <1>2, <1>4, <2>2
  <2>4. b \in Block /\ b.num = i /\ (i > 1 => b.previous = d[i - 1].id)
    BY <2>2, ElementOfSeq DEF Linked
  <2> HIDE DEF l, i, b, chain, next
  <2>5. /\ chain \in Seq(Block) /\ Len(chain) = l /\ \A x \in 1..l : chain[x] = d[x]
        /\ next \in Seq(Block) /\ Len(next) = i /\ \A x \in 1..i : next[x] = d[x]
    BY <1>5, <2>2 DEF chain, next
  <2>6. next = Append(chain, b)
    <3>1. /\ Append(chain, b) \in Seq(Block) /\ Len(Append(chain, b)) = l + 1
          /\ \A x \in 1..l : Append(chain, b)[x] = chain[x]
          /\ Append(chain, b)[l + 1] = b
      BY <2>4, <2>5, AppendProperties
    <3>2. ASSUME NEW x \in 1..i PROVE next[x] = Append(chain, b)[x]
      <4>1. CASE x = i
        BY <2>2, <2>5, <3>1, <4>1 DEF b
      <4>2. CASE x # i
        <5>1. x \in 1..l
          BY <2>2, <4>2
        <5> QED
          BY <2>5, <3>1, <5>1
      <4> QED
        BY <4>1, <4>2
    <3> QED
      BY <2>2, <2>5, <3>1, <3>2, SeqEqual
  <2>7. SubSeq(chain, 1, l) = chain
    BY <2>5, SubSeqFull
  <2>8. Good(r[j], tr) /\ r[j].irreversible = irr /\ ChainOf(r[j], tr) = chain
    BY <2>1 DEF chain, l
  <2>9. Takes(chain, irr, b)
    <3>1. b.num \in irr + 1..l + 1
      BY <1>1, <2>2, <2>4
    <3>2. b.num > 1 => b.previous = chain[b.num - 1].id
      <4>1. SUFFICES ASSUME i > 1 PROVE b.previous = chain[l].id
        BY <2>2, <2>4
      <4>2. l \in 1..l
        BY <2>2, <4>1
      <4> QED
        BY <2>2, <2>4, <2>5, <4>1, <4>2
    <3>3. ~(b.num <= l)
      BY <2>2, <2>4
    <3> QED
      BY <2>5, <3>1, <3>2, <3>3 DEF Takes
  <2>10. Extended(r[j], tr, b, 0, r[j + 1])
    BY <1>1, <2>3, <2>4, <2>8, AddBlockByChain
  <2>11. SubSeq(chain, 1, b.num - 1) = chain
    BY <2>2, <2>4, <2>7
  <2>12. /\ Inv(r[j + 1], tr) /\ Replayed(r[j + 1], tr)
         /\ ChainOf(r[j + 1], tr) = next
         /\ r[j + 1].irreversible = FinalAfterNum(next, irr, 0)
         /\ r[j + 1].trapped <=> ~FilterBlock(Replay(chain), b.eosio).ok
    BY <2>6, <2>8, <2>9, <2>10, <2>11 DEF Extended
  <2>13. FilterBlock(Replay(chain), b.eosio).ok
    <3>1. FilterBlock(Replay(SubSeq(d, 1, i - 1)), d[i].eosio).ok
      BY <2>2 DEF Applied
    <3> QED
      BY <2>2, <3>1 DEF chain, b
  <2>14. ~r[j + 1].trapped
    BY <2>12, <2>13
  <2>15. FinalAfterNum(next, irr, 0) = irr
    <3>1. SortedByEosioNum(next)
      <4>1. \A x \in 1..i : x \in 1..Len(d)
        BY <2>2
      <4> QED
        BY <2>5, <4>1 DEF SortedByEosioNum
    <3>2. irr \in 0..Len(next)
      BY <1>1, <2>2, <2>5
    <3> QED
      BY <1>1, <2>5, <3>1, <3>2, NumberAssumption, FinalAfterNumInRange
  <2> QED
    BY <2>12, <2>14, <2>15 DEF Good, next, i
<1> HIDE DEF S
<1>8. n \in S
  BY <1>1, <1>6, <1>7, NatInductionOnSet
<1>9. Holding(n)
  BY <1>1, <1>8 DEF S
<1>10. k + n = Len(d) /\ SubSeq(d, 1, Len(d)) = d
  BY <1>1, SubSeqFull DEF n
<1> QED
  BY <1>4, <1>9, <1>10 DEF irr, rest

(* What a memory shares with the box is a number of blocks.                *)
SharedWith(c, first, d) ==
  {0} \cup {k \in first..Len(c) : k <= Len(d) /\ c[k].id = d[k].id}

LEMMA SharedByChain ==
  ASSUME NEW m, NEW tr, Good(m, tr), BoxMemory(blocksWasm)
  PROVE  Shared(m) = SharedWith(ChainOf(m, tr), Len(tr) + 1, blocksWasm.blocks)
<1> DEFINE log == m.blocks
           d == blocksWasm.blocks
           c == ChainOf(m, tr)
           t == Len(tr)
           At(j) == log[j].num <= Len(d) /\ log[j].id = d[log[j].num].id
<1>1. /\ Len(log) \in Nat /\ t \in Nat /\ Len(c) = t + Len(log)
      /\ \A i \in 1..Len(log) : log[i] = c[t + i]
      /\ \A i \in 1..Len(log) : log[i].num = t + i
  BY LogInChain DEF Good, NumberedFrom
<1>2. Shared(m) = {0} \cup {log[i].num : i \in {j \in 1..Len(log) : At(j)}}
  BY DEF Shared
<1> HIDE DEF log, d, c, t
<1>3. \A i \in 1..Len(log) :
        /\ t + i \in t + 1..Len(c)
        /\ log[i].num = t + i
        /\ At(i) <=> t + i <= Len(d) /\ c[t + i].id = d[t + i].id
  BY <1>1
<1>4. \A k \in t + 1..Len(c) : k - t \in 1..Len(log) /\ t + (k - t) = k
  BY <1>1
<1> HIDE DEF At
<1>5. ASSUME NEW k, k \in Shared(m) PROVE k \in SharedWith(c, t + 1, d)
  <2>1. CASE k = 0
    BY <2>1 DEF SharedWith
  <2>2. CASE \E i \in 1..Len(log) : At(i) /\ k = log[i].num
    <3>1. PICK i \in 1..Len(log) : At(i) /\ k = log[i].num
      BY <2>2
    <3> QED
      BY <1>3, <3>1 DEF SharedWith
  <2> QED
    BY <1>2, <1>5, <2>1, <2>2
<1>6. ASSUME NEW k, k \in SharedWith(c, t + 1, d) PROVE k \in Shared(m)
  <2>1. CASE k = 0
    BY <1>2, <2>1
  <2>2. CASE k \in t + 1..Len(c) /\ k <= Len(d) /\ c[k].id = d[k].id
    <3>1. PICK i \in 1..Len(log) : t + i = k
      BY <1>4, <2>2
    <3>2. At(i) /\ log[i].num = k
      BY <1>3, <2>2, <3>1
    <3> QED
      BY <1>2, <3>2
  <2> QED
    BY <1>6, <2>1, <2>2 DEF SharedWith
<1> QED
  BY <1>5, <1>6 DEF c, t, d

LEMMA MostShared ==
  ASSUME NEW n \in Nat, NEW shared \in SUBSET (0..n), shared # {}
  PROVE  LET most == CHOOSE k \in shared : \A j \in shared : j <= k
         IN  most \in shared /\ \A j \in shared : j <= most
<1> DEFINE T == {x \in Nat : n - x \in shared}
<1>1. \A k \in shared : k \in 0..n /\ n - k \in T /\ n - (n - k) = k
  OBVIOUS
<1>2. T \in SUBSET Nat /\ T # {}
  BY <1>1
<1> HIDE DEF T
<1>3. PICK x \in T : \A y \in T : x <= y
  BY <1>2, LeastNatural
<1>4. x \in Nat /\ n - x \in shared
  BY <1>3 DEF T
<1>5. \A j \in shared : j <= n - x
  <2>1. SUFFICES ASSUME NEW j \in shared PROVE j <= n - x
    OBVIOUS
  <2>2. j \in 0..n /\ x <= n - j
    BY <1>1, <1>3
  <2> QED
    BY <1>4, <2>2
<1>6. \E k \in shared : \A j \in shared : j <= k
  BY <1>4, <1>5
<1> QED
  BY <1>6

(* Whatever an old memory has of the box's chain, as long as its final     *)
(* blocks are on it, catching up makes it the box's trimmed memory.        *)
LEMMA CatchesUp ==
  ASSUME NEW m, NEW tr, Good(m, tr), Trimmed(m, tr), m.irreversible < MaxUInt,
         BoxMemory(blocksWasm), OnChain(m)
  PROVE  CaughtUp(m) = trimBlocks(blocksWasm)
<1> DEFINE c == ChainOf(m, tr)
           d == blocksWasm.blocks
           f == m.irreversible
           g == blocksWasm.irreversible
           shared == SharedWith(c, Len(tr) + 1, d)
           common == CHOOSE k \in shared : \A j \in shared : j <= k
           undone == undoBlockNum(m, common + 1)
           all == AddAll(undone, SubSeq(d, common + 1, Len(d)))
<1>1. /\ ChainOf(blocksWasm, <<>>) = d
      /\ d \in Seq(Block) /\ Len(d) \in Nat
      /\ Linked(d) /\ SortedByEosioNum(d) /\ Applied(d)
      /\ g \in 0..Len(d) /\ g < MaxUInt /\ Good(blocksWasm, <<>>)
  BY WholeLog DEF BoxMemory, Good
<1>2. /\ c \in Seq(Block) /\ Len(c) \in Nat /\ Linked(c)
      /\ f \in Nat /\ f <= Len(c) /\ f < MaxUInt
      /\ Len(tr) \in Nat /\ Len(tr) = (IF f = 0 THEN 0 ELSE f - 1)
      /\ Len(c) = Len(tr) + Len(m.blocks)
      /\ \A i \in 1..Len(m.blocks) : m.blocks[i] = c[Len(tr) + i]
  <2>1. Inv(m, tr)
    BY DEF Good
  <2>2. /\ c \in Seq(Block) /\ Len(c) \in Nat /\ f \in Nat
        /\ Len(tr) \in Nat /\ Len(c) = Len(tr) + Len(m.blocks)
        /\ \A i \in 1..Len(m.blocks) : m.blocks[i] = c[Len(tr) + i]
    BY <2>1, LogInChain
  <2>3. Linked(c) /\ f <= Len(c)
    BY <2>1 DEF Inv, Irreversible
  <2>4. Len(tr) = (IF f = 0 THEN 0 ELSE f - 1)
    BY DEF Trimmed
  <2> QED
    BY <2>2, <2>3, <2>4
<1>3. CaughtUp(m) = trimBlocks(setIrreversible(all, g))
  <2>1. Shared(m) = shared
    BY <1>1, SharedByChain
  <2> HIDE DEF shared
  <2> QED
    BY <2>1 DEF CaughtUp
<1>4. OnChain(m) => f = 0 \/ (f <= g /\ m.blocks[1] = d[f])
  BY DEF OnChain
<1> HIDE DEF c, d, f, g
<1>5. common \in shared /\ \A j \in shared : j <= common
  <2>1. shared \in SUBSET (0..Len(d)) /\ shared # {}
    <3>1. Len(d) \in Nat /\ Len(tr) \in Nat /\ Len(c) \in Nat
      BY <1>1, <1>2
    <3>2. \A k \in Len(tr) + 1..Len(c) : k \in Nat
      BY <3>1
    <3>3. \A k \in shared : k = 0 \/ (k \in Len(tr) + 1..Len(c) /\ k <= Len(d))
      BY DEF SharedWith
    <3>4. 0 \in shared
      BY DEF SharedWith
    <3> HIDE DEF shared
    <3>5. \A k \in shared : k \in 0..Len(d)
      BY <3>1, <3>2, <3>3
    <3> QED
      BY <3>4, <3>5
  <2> HIDE DEF shared
  <2> QED
    BY <1>1, <2>1, MostShared
<1> HIDE DEF common
<1>6. /\ common \in Nat /\ common <= Len(d) /\ common <= Len(c)
      /\ common > 0 => c[common].id = d[common].id
  <2>1. \/ common = 0
        \/ /\ common \in Len(tr) + 1..Len(c) /\ common <= Len(d)
           /\ c[common].id = d[common].id
    BY <1>5 DEF SharedWith
  <2>2. Len(d) \in Nat /\ Len(tr) \in Nat /\ Len(c) \in Nat
    BY <1>1, <1>2
  <2> HIDE DEF shared
  <2> QED
    BY <2>1, <2>2
<1>7. f <= common
  <2>1. CASE f = 0
    BY <1>6, <2>1
  <2>2. CASE f # 0
    <3>1. f <= g /\ m.blocks[1] = d[f]
      BY <1>4, <2>2
    <3>2. 1 \in 1..Len(m.blocks) /\ Len(tr) + 1 = f
      BY <1>2, <2>2
    <3>3. m.blocks[1] = c[f]
      BY <1>2, <3>2
    <3>4. f \in f..Len(c) /\ f <= Len(d)
      <4>1. f \in Nat /\ f <= Len(c) /\ Len(c) \in Nat /\ Len(d) \in Nat /\ g \in 0..Len(d)
        BY <1>1, <1>2
      <4> QED
        BY <3>1, <4>1
    <3>5. c[f].id = d[f].id
      BY <3>1, <3>3
    <3>6. f \in shared
      BY <3>2, <3>4, <3>5 DEF SharedWith
    <3> QED
      BY <1>5, <3>6
  <2> QED
    BY <2>1, <2>2
<1>8. SubSeq(c, 1, common) = SubSeq(d, 1, common)
  BY <1>1, <1>2, <1>6, SamePast
<1> HIDE DEF shared
<1>9. /\ Good(undone, tr) /\ undone.irreversible = f
      /\ ChainOf(undone, tr) = SubSeq(d, 1, common)
  <2> DEFINE num == common + 1
  <2>1. num \in Nat /\ num > f /\ num - 1 = common
        /\ (~(num <= Len(c)) => common = Len(c))
    <3>1. /\ common \in Nat /\ common <= Len(c) /\ Len(c) \in Nat
          /\ f \in Nat /\ f <= common
      BY <1>2, <1>6, <1>7
    <3> QED
      BY <3>1
  <2> HIDE DEF num
  <2>2. /\ Good(undoBlockNum(m, num), tr)
        /\ undoBlockNum(m, num).irreversible = f
        /\ ChainOf(undoBlockNum(m, num), tr) = UndoneByNum(c, f, num)
    BY <2>1, UndoBlockNumByChain DEF c, f
  <2>3. UndoneByNum(c, f, num) = SubSeq(c, 1, common)
    <3>1. CASE num <= Len(c)
      BY <2>1, <3>1 DEF UndoneByNum
    <3>2. CASE ~(num <= Len(c))
      <4>1. SubSeq(c, 1, Len(c)) = c
        BY <1>2, SubSeqFull
      <4> QED
        BY <2>1, <3>2, <4>1 DEF UndoneByNum
    <3> QED
      BY <3>1, <3>2
  <2> QED
    BY <1>8, <2>2, <2>3 DEF num
<1> HIDE DEF undone
<1>10. /\ Good(all, tr) /\ all.irreversible = f /\ ChainOf(all, tr) = d
  <2>1. common \in 0..Len(d)
    BY <1>1, <1>6
  <2>2. undone.irreversible < MaxUInt /\ undone.irreversible <= common
    BY <1>2, <1>7, <1>9
  <2>3. /\ Good(AddAll(undone, SubSeq(d, common + 1, Len(d))), tr)
        /\ AddAll(undone, SubSeq(d, common + 1, Len(d))).irreversible = undone.irreversible
        /\ ChainOf(AddAll(undone, SubSeq(d, common + 1, Len(d))), tr) = d
    BY <1>1, <1>9, <2>1, <2>2, AddAllByChain
  <2> QED
    BY <1>9, <2>3
<1> HIDE DEF all
<1>11. f <= g
  BY <1>1, <1>2, <1>4
<1>12. /\ Good(setIrreversible(all, g), tr)
       /\ setIrreversible(all, g).irreversible = g
       /\ ChainOf(setIrreversible(all, g), tr) = d
  <2>1. g \in UInt /\ g \in f..Len(d)
    BY <1>1, <1>2, <1>11, WidthAssumption DEF UInt
  <2> QED
    BY <1>1, <1>10, <2>1, SetIrreversibleByChain
<1>13. trimBlocks(setIrreversible(all, g)) = trimBlocks(blocksWasm)
  BY <1>1, <1>12, SameTrimmed DEF g
<1> QED
  BY <1>3, <1>13
-----------------------------------------------------------------------------
(* The state file holds the trimmed memory that some box had, and it is    *)
(* saved by a process that still has its instances.                        *)
FileInv ==
  /\ saving # "no" => Up
  /\ stateFile # Null => \E m : BoxMemory(m) /\ stateFile = trimBlocks(m)

LEMMA FileStep == BoxInv /\ FileInv /\ [Next]_vars => FileInv'
<1> SUFFICES ASSUME BoxInv, FileInv, [Next]_vars PROVE FileInv'
  OBVIOUS
<1>1. CASE instantiate
  BY <1>1 DEF instantiate, FileInv, Up
<1>2. ASSUME NEW e \in EosioBlock, NEW n \in UInt, pushBlock(e, n) PROVE FileInv'
  BY <1>2 DEF pushBlock, Idle, FileInv
<1>3. ASSUME NEW n \in UInt, undoEosioNumInBoth(n) PROVE FileInv'
  BY <1>3 DEF undoEosioNumInBoth, Idle, FileInv
<1>4. CASE StartSave
  BY <1>4 DEF StartSave, Idle, FileInv, Up
<1>5. CASE FinishWrite
  BY <1>5 DEF FinishWrite, FileInv, Up
<1>6. CASE Rename
  <2>1. Up /\ stateFile' = stateWasm /\ saving' = "no"
    BY <1>6 DEF Rename, FileInv
  <2>2. BoxMemory(blocksWasm) /\ stateWasm = trimBlocks(blocksWasm)
    BY <2>1 DEF BoxInv
  <2> QED
    BY <2>1, <2>2 DEF FileInv
<1>7. CASE Fail
  BY <1>7 DEF Fail, FileInv
<1>8. CASE UNCHANGED vars
  BY <1>8 DEF vars, FileInv, Up
<1> QED
  BY <1>1, <1>2, <1>3, <1>4, <1>5, <1>6, <1>7, <1>8 DEF Next

LEMMA FileServes == BoxInv /\ FileInv => StateFileServes
<1> SUFFICES ASSUME BoxInv, FileInv, stateFile # Null
             PROVE  /\ ~stateFile.trapped
                    /\ (Up /\ OnChain(stateFile)) => CaughtUp(stateFile) = stateWasm
  BY DEF StateFileServes
<1>1. PICK m : BoxMemory(m) /\ stateFile = trimBlocks(m)
  BY DEF FileInv
<1>2. Good(m, <<>>) /\ m.irreversible < MaxUInt
  BY <1>1 DEF BoxMemory
<1>3. PICK tr : /\ Good(stateFile, tr) /\ Trimmed(stateFile, tr)
                /\ stateFile.irreversible = m.irreversible
  BY <1>1, <1>2, TrimGood
<1>4. ~stateFile.trapped
  BY <1>3 DEF Good
<1>5. ASSUME Up, OnChain(stateFile) PROVE CaughtUp(stateFile) = stateWasm
  <2>1. BoxMemory(blocksWasm) /\ stateWasm = trimBlocks(blocksWasm)
    BY <1>5 DEF BoxInv
  <2>2. CaughtUp(stateFile) = trimBlocks(blocksWasm)
    BY <1>2, <1>3, <1>5, <2>1, CatchesUp
  <2> QED
    BY <2>1, <2>2
<1> QED
  BY <1>4, <1>5

(* However old the state file is, a client that starts from it and catches *)
(* up has exactly the memory of the box.                                   *)
THEOREM StateFileIsEnough == Spec => []StateFileServes
<1>1. Init => FileInv
  BY DEF Init, FileInv
<1>2. Spec => []BoxInv
  BY BoxInvariance
<1> QED
  BY <1>1, <1>2, FileStep, FileServes, PTL DEF Spec
=============================================================================
