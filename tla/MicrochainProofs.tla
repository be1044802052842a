-------------------------- MODULE MicrochainProofs --------------------------
(***************************************************************************)
(* Proofs about one instance of the micro-chain (Microchain) and about the *)
(* client and the box that each have one (SyncProtocol), for all blocks,   *)
(* tables and widths of uint32_t, and for every bound on changes, closed   *)
(* connections and restarts.                                               *)
(***************************************************************************)
EXTENDS Microchain, SyncProtocol, WasmExportsLemmas
-----------------------------------------------------------------------------
(* One instance: the inductive invariant *)
MicroInv == Inv(mc, trimmed)

LEMMA InitCorrect == MicroInit => MicroInv
<1> SUFFICES ASSUME MicroInit PROVE MicroInv
  OBVIOUS
<1>1. /\ mc = Initialized /\ trimmed = <<>>
      /\ <<>> \in Seq(Block) /\ Len(<<>>) = 0
  BY EmptySeq DEF MicroInit
<1>2. trimmed \o mc.blocks = <<>>
  BY <1>1, ConcatEmptySeq DEF Initialized
<1>3. DbShape(EmptyDb(EmptyTable))
  <2>1. <<>> \in Seq({})
    BY EmptySeq
  <2>2. DbShape([table |-> EmptyTable, undo |-> <<>>, revision |-> 0])
    BY <2>1, MakeDbShape
  <2> QED
    BY <2>2 DEF EmptyDb
<1>4. Shape(mc, trimmed)
  BY <1>1, <1>3, WidthAssumption DEF Shape, Initialized, UInt
<1>5. Irreversible(mc, trimmed)
  BY <1>1, <1>2 DEF Irreversible, ChainOf, Initialized
<1>6. Sessions(mc, trimmed)
  BY <1>1, <1>2 DEF Sessions, ChainOf, Initialized, EmptyDb
<1>7. Linked(ChainOf(mc, trimmed)) /\ SortedByEosioNum(ChainOf(mc, trimmed))
  BY <1>1, <1>2 DEF Linked, SortedByEosioNum, ChainOf
<1> QED
  BY <1>4, <1>5, <1>6, <1>7 DEF MicroInv, Inv

LEMMA NextCorrect == MicroInv /\ [MicroNext]_microVars => Correct(mc, trimmed, mc', trimmed')
<1> SUFFICES ASSUME MicroInv, [MicroNext]_microVars
             PROVE  Correct(mc, trimmed, mc', trimmed')
  OBVIOUS
<1> USE DEF MicroInv
<1>1. ASSUME NEW b \in Block, NEW n \in UInt, AddBlock(b, n)
      PROVE  Correct(mc, trimmed, mc', trimmed')
  BY <1>1, AddBlockCorrect DEF AddBlock
<1>2. ASSUME NEW e \in EosioBlock, NEW n \in UInt, AddEosioBlock(e, n)
      PROVE  Correct(mc, trimmed, mc', trimmed')
  BY <1>2, AddEosioBlockCorrect DEF AddEosioBlock
<1>3. ASSUME NEW n \in UInt, SetIrreversible(n)
      PROVE  Correct(mc, trimmed, mc', trimmed')
  BY <1>3, SetIrreversibleCorrect DEF SetIrreversible
<1>4. ASSUME TrimBlocks
      PROVE  Correct(mc, trimmed, mc', trimmed')
  BY <1>4, TrimBlocksCorrect DEF TrimBlocks
<1>5. ASSUME NEW n \in UInt, UndoBlockNum(n)
      PROVE  Correct(mc, trimmed, mc', trimmed')
  <2>1. n \in Nat
    BY <1>5, WidthAssumption DEF UInt
  <2> QED
    BY <1>5, <2>1, UndoBlockNumCorrect DEF UndoBlockNum
<1>6. ASSUME NEW n \in UInt, UndoEosioNum(n)
      PROVE  Correct(mc, trimmed, mc', trimmed')
  BY <1>6, UndoEosioNumCorrect DEF UndoEosioNum
<1>7. ASSUME UNCHANGED microVars
      PROVE  Correct(mc, trimmed, mc', trimmed')
  BY <1>7, NoChangeCorrect DEF microVars
<1> QED
  BY <1>1, <1>2, <1>3, <1>4, <1>5, <1>6, <1>7 DEF MicroNext

(* All of the invariant's parts hold in every reachable state.             *)
THEOREM Invariance == MicroSpec => []MicroInv
<1>1. MicroInit => MicroInv
  BY InitCorrect
<1>2. MicroInv /\ [MicroNext]_microVars => MicroInv'
  BY NextCorrect DEF Correct, MicroInv
<1> QED
  BY <1>1, <1>2, PTL DEF MicroSpec

(* The exports keep the memory in the shape that they expect.              *)
THEOREM TypeCorrect == MicroSpec => []TypeOK
<1>1. MicroInv => TypeOK
  BY DEF MicroInv, Inv, Shape, DbShape, TypeOK
<1> QED
  BY <1>1, Invariance, PTL

(* Whatever the calls, the blocks erased and the blocks in the log are one *)
(* gapless chain, in which EOSIO numbers increase.                         *)
THEOREM ChainCorrect == MicroSpec => [](ChainLinked /\ ChainSorted)
<1>1. MicroInv => ChainLinked /\ ChainSorted
  BY DEF MicroInv, Inv, ChainOf, Chain, ChainLinked, ChainSorted
<1> QED
  BY <1>1, Invariance, PTL

(* No undo and no trim ever drops the irreversible block from the log.     *)
THEOREM IrreversibleKept == MicroSpec => []IrreversibleInLog
<1>1. MicroInv => IrreversibleInLog
  BY DEF MicroInv, Inv, Irreversible, ChainOf, Chain, IrreversibleInLog
<1> QED
  BY <1>1, Invariance, PTL

(* Rolling back n blocks always rolls back their n sessions.               *)
THEOREM SessionsCorrect == MicroSpec => []SessionsMatchLog
<1>1. MicroInv => SessionsMatchLog
  BY DEF MicroInv, Inv, Sessions, ChainOf, Chain, SessionsMatchLog
<1> QED
  BY <1>1, Invariance, PTL

(* A final block is never replaced, taken back or made reversible.         *)
THEOREM Finality == MicroSpec => FinalityIsForever
<1> DEFINE Kept1 == /\ mc'.irreversible >= mc.irreversible
                    /\ \A i \in 1..mc.irreversible :
                         i <= Len(Chain') /\ Chain'[i] = Chain[i]
<1>1. MicroInv /\ [MicroNext]_microVars => [Kept1]_microVars
  <2>1. SUFFICES ASSUME MicroInv, [MicroNext]_microVars PROVE Kept1
    OBVIOUS
  <2>2. ChainStep(Chain, mc.irreversible, Chain', mc'.irreversible)
    BY <2>1, NextCorrect DEF Correct, ChainOf, Chain
  <2>3. /\ Chain \in Seq(Block)
        /\ mc.irreversible \in Nat /\ mc.irreversible <= Len(Chain)
    BY <2>1, LogInChain DEF MicroInv, ChainOf, Chain, Inv, Irreversible
  <2> QED
    BY <2>2, <2>3, ChainStepKeepsFinal
<1> QED
  BY <1>1, Invariance, PTL DEF MicroSpec, FinalityIsForever

(* The log, the sessions and trimming together implement a chain whose     *)
(* final part only grows.                                                  *)
THEOREM Refinement == MicroSpec => ImplementsForkChain
<1>1. MicroInit => Abstract!Init
  BY EmptySeq, ConcatEmptySeq DEF MicroInit, Initialized, Abstract!Init, Chain
<1>2. MicroInv /\ [MicroNext]_microVars => [Abstract!Next]_(Abstract!vars)
  <2>1. SUFFICES ASSUME MicroInv, [MicroNext]_microVars PROVE Abstract!Next
    OBVIOUS
  <2>2. ChainStep(Chain, mc.irreversible, Chain', mc'.irreversible)
    BY <2>1, NextCorrect DEF Correct, ChainOf, Chain
  <2>3. /\ Len(Chain) \in Nat
        /\ mc.irreversible \in Nat
    BY <2>1, LogInChain DEF MicroInv, ChainOf, Chain
  <2>4. \A k \in mc.irreversible..Len(Chain) : k \in 0..Len(Chain)
    BY <2>3
  <2>5. ASSUME NEW k \in mc.irreversible..Len(Chain), NEW b \in Block,
               b.num = k + 1, k > 0 => b.previous = Chain[k].id,
               Chain' = Append(SubSeq(Chain, 1, k), b),
               mc'.irreversible \in mc.irreversible..k + 1
        PROVE  Abstract!Next
    BY <2>4, <2>5 DEF Abstract!Next, Abstract!Extend, Abstract!Follows
  <2>6. ASSUME NEW k \in mc.irreversible..Len(Chain),
               Chain' = SubSeq(Chain, 1, k), mc'.irreversible = mc.irreversible
        PROVE  Abstract!Next
    BY <2>4, <2>6 DEF Abstract!Next, Abstract!Retract
  <2>7. ASSUME Chain' = Chain, mc'.irreversible \in mc.irreversible..Len(Chain)
        PROVE  Abstract!Next
    BY <2>7 DEF Abstract!Next, Abstract!Finalize
  <2> QED
    BY <2>2, <2>5, <2>6, <2>7 DEF ChainStep
<1> QED
  BY <1>1, <1>2, Invariance, PTL DEF MicroSpec, ImplementsForkChain, Abstract!Spec
-----------------------------------------------------------------------------
(* The tables: the same invariant, and the tables hold the replay of the   *)
(* chain.                                                                  *)
ReplayInv == MicroInv /\ Replayed(mc, trimmed)

LEMMA ReplayInit == MicroInit => ReplayInv
<1> SUFFICES ASSUME MicroInit PROVE ReplayInv
  OBVIOUS
<1>1. /\ mc = Initialized /\ trimmed = <<>> /\ Len(<<>>) = 0
  BY EmptySeq DEF MicroInit
<1>2. ChainOf(mc, trimmed) = <<>>
  BY <1>1, ConcatEmptySeq DEF Initialized, ChainOf
<1>3. ~mc.trapped /\ mc.db.table = EmptyTable /\ mc.db.undo = <<>>
  BY <1>1 DEF Initialized, EmptyDb
<1>4. Holds(mc.db, ChainOf(mc, trimmed), mc.irreversible)
  BY <1>1, <1>2, <1>3, ReplayEmpty DEF Holds
<1> QED
  BY <1>3, <1>4, InitCorrect DEF ReplayInv, Replayed

LEMMA ReplayNext == ReplayInv /\ [MicroNext]_microVars => ReplayInv'
<1> SUFFICES ASSUME ReplayInv, [MicroNext]_microVars PROVE Replayed(mc', trimmed')
  BY NextCorrect DEF Correct, ReplayInv, MicroInv
<1> USE DEF ReplayInv, MicroInv
<1>1. ASSUME NEW b \in Block, NEW n \in UInt, AddBlock(b, n)
      PROVE  Replayed(mc', trimmed')
  BY <1>1, AddBlockReplays DEF AddBlock
<1>2. ASSUME NEW e \in EosioBlock, NEW n \in UInt, AddEosioBlock(e, n)
      PROVE  Replayed(mc', trimmed')
  BY <1>2, AddEosioBlockReplays DEF AddEosioBlock
<1>3. ASSUME NEW n \in UInt, SetIrreversible(n)
      PROVE  Replayed(mc', trimmed')
  BY <1>3, SetIrreversibleReplays DEF SetIrreversible
<1>4. ASSUME TrimBlocks
      PROVE  Replayed(mc', trimmed')
  <2>1. ChainOf(mc', trimmed') = ChainOf(mc, trimmed)
    BY <1>4, TrimBlocksCorrect DEF TrimBlocks
  <2>2. mc'.db = mc.db /\ mc'.irreversible = mc.irreversible /\ mc'.trapped = mc.trapped
    BY <1>4 DEF TrimBlocks, trimBlocks, Inv, Shape
  <2> QED
    BY <1>4, <2>1, <2>2 DEF Replayed, TrimBlocks
<1>5. ASSUME NEW n \in UInt, UndoBlockNum(n)
      PROVE  Replayed(mc', trimmed')
  <2>1. n \in Nat
    BY <1>5, WidthAssumption DEF UInt
  <2> QED
    BY <1>5, <2>1, UndoBlockNumReplays DEF UndoBlockNum
<1>6. ASSUME NEW n \in UInt, UndoEosioNum(n)
      PROVE  Replayed(mc', trimmed')
  BY <1>6, UndoEosioNumReplays DEF UndoEosioNum
<1>7. ASSUME UNCHANGED microVars
      PROVE  Replayed(mc', trimmed')
  BY <1>7 DEF microVars
<1> QED
  BY <1>1, <1>2, <1>3, <1>4, <1>5, <1>6, <1>7 DEF MicroNext

THEOREM ReplayInvariance == MicroSpec => []ReplayInv
<1> QED
  BY ReplayInit, ReplayNext, PTL DEF MicroSpec

(* Whatever the forks, undos, commits and trims, the table is the replay   *)
(* of the chain, and each session that of a part of it.                    *)
THEOREM TableIsReplay == MicroSpec => []StateIsReplay
<1>1. ReplayInv => StateIsReplay
  BY DEF ReplayInv, Replayed, Holds, ChainOf, Chain, StateIsReplay
<1> QED
  BY <1>1, ReplayInvariance, PTL

(* The checks in set_revision never fail: what traps is a bad block.       *)
THEOREM OnlyBadBlocksTrap == MicroSpec => []TrapsOnlyOnBadBlock
<1>1. ReplayInv => TrapsOnlyOnBadBlock
  BY DEF ReplayInv, Replayed, Undecodable, TrapsOnlyOnBadBlock
<1> QED
  BY <1>1, ReplayInvariance, PTL
(* Each fold is the last value of a run that takes one step per element.   *)
HandledAll(m, q) == FoldValues(Handled, m, q)
HandleAll(s, q) == FoldValues(Handle, s, q)
SendAll(memory, s, log) == FoldValues(LAMBDA t, b : SendNext(memory, t, b), s, log)

HandledTo(h, base, n, seq) ==
  /\ h[0] = base
  /\ \A k \in 1..n : h[k] = Handled(h[k - 1], seq[k])
  /\ HandledAll(base, seq) = h[n]

LEMMA HandledRun ==
  ASSUME NEW base, NEW n \in Nat, NEW seq, DOMAIN seq = 1..n
  PROVE  \E h : HandledTo(h, base, n, seq)
<1> DEFINE Step(f) == [s \in SUBSET (1..n) |->
                         IF s = {} THEN base
                         ELSE CHOOSE r \in {Handled(t, seq[Max(s)]) : t \in {f[s \ {Max(s)}]}} : TRUE]
           fold == CHOOSE f : f = Step(f)
           Folds(k, g) == g = [s \in SUBSET (1..k) |->
                                 IF s = {} THEN base ELSE Handled(g[s \ {Max(s)}], seq[Max(s)])]
           Has(k) == \E g : Folds(k, g)
           S == {k \in Nat : Has(k)}
<1>1. HandledAll(base, seq) = fold[1..n]
  BY DEF HandledAll, FoldValues, FoldLeft, MapThenFoldSet
<1> HIDE DEF Has
<1>2. 0 \in S
  <2> DEFINE g == [s \in SUBSET (1..0) |-> base]
  <2>1. \A s \in SUBSET (1..0) : s = {}
    OBVIOUS
  <2>2. Folds(0, g)
    BY <2>1
  <2> QED
    BY <2>2 DEF Has
<1>3. ASSUME NEW k \in Nat, k \in S PROVE k + 1 \in S
  <2>1. PICK g : Folds(k, g)
    BY <1>3 DEF Has
  <2> DEFINE f == [s \in SUBSET (1..k + 1) |->
                     IF k + 1 \in s THEN Handled(g[s \ {k + 1}], seq[k + 1]) ELSE g[s]]
  <2>2. \A t \in SUBSET (1..k) : t \in SUBSET (1..k + 1) /\ k + 1 \notin t
    OBVIOUS
  <2>3. \A t \in SUBSET (1..k) : f[t] = g[t]
    BY <2>2
  <2>4. ASSUME NEW s \in SUBSET (1..k + 1)
        PROVE  f[s] = IF s = {} THEN base ELSE Handled(f[s \ {Max(s)}], seq[Max(s)])
    <3>1. /\ k + 1 \in s => Max(s) = k + 1 /\ s \ {k + 1} \in SUBSET (1..k)
          /\ k + 1 \notin s => s \in SUBSET (1..k)
      BY MaxWithLast
    <3>2. CASE k + 1 \in s
      <4>1. f[s] = Handled(g[s \ {k + 1}], seq[k + 1])
        BY <3>2
      <4>2. f[s \ {k + 1}] = g[s \ {k + 1}]
        BY <2>3, <3>1, <3>2
      <4> HIDE DEF f
      <4> QED
        BY <3>1, <3>2, <4>1, <4>2
    <3>3. CASE k + 1 \notin s
      <4>1. s \in SUBSET (1..k) /\ f[s] = g[s]
        BY <2>3, <3>1, <3>3
      <4>2. s \ {Max(s)} \in SUBSET (1..k)
        BY <4>1
      <4>3. f[s \ {Max(s)}] = g[s \ {Max(s)}]
        BY <2>3, <4>2
      <4>4. g[s] = IF s = {} THEN base ELSE Handled(g[s \ {Max(s)}], seq[Max(s)])
        BY <2>1, <4>1
      <4> HIDE DEF f
      <4> QED
        BY <4>1, <4>3, <4>4
    <3> QED
      BY <3>2, <3>3
  <2>5. Folds(k + 1, f)
    BY <2>4
  <2>6. Has(k + 1)
    <3> HIDE DEF Folds, f
    <3> QED
      BY <2>5 DEF Has
  <2> QED
    BY <2>6
<1>4. \A k \in Nat : k \in S
  <2> HIDE DEF S
  <2> QED
    BY <1>2, <1>3, NatInductionOnSet
<1>5. PICK g : Folds(n, g)
  BY <1>4 DEF Has
<1>6. g = Step(g)
  <2>1. \A a, b : (CHOOSE r \in {Handled(t, a) : t \in {b}} : TRUE) = Handled(b, a)
    <3> SUFFICES ASSUME NEW a, NEW b
                 PROVE  (CHOOSE r \in {Handled(t, a) : t \in {b}} : TRUE) = Handled(b, a)
      OBVIOUS
    <3>1. {Handled(t, a) : t \in {b}} = {Handled(b, a)}
      OBVIOUS
    <3> QED
      BY <3>1
  <2> QED
    BY <1>5, <2>1
<1> HIDE DEF Step
<1>7. fold = Step(fold)
  BY <1>6
<1> HIDE DEF fold
<1> DEFINE h == [k \in 0..n |-> fold[1..k]]
<1>8. h[0] = base /\ h[n] = fold[1..n]
  <2>1. 1..0 = {} /\ 0 \in 0..n /\ n \in 0..n
    OBVIOUS
  <2> QED
    BY <1>7, <2>1 DEF Step
<1>9. ASSUME NEW k \in 1..n
      PROVE  h[k] = Handled(h[k - 1], seq[k])
  <2>1. k \in Nat \ {0} /\ 1..k \in SUBSET (1..n) /\ k \in 0..n /\ k - 1 \in 0..n
    OBVIOUS
  <2>2. Max(1..k) = k /\ (1..k) \ {k} = 1..k - 1 /\ 1..k # {}
    BY <2>1, MaxOfInitial
  <2>3. h[k] = fold[1..k] /\ h[k - 1] = fold[1..k - 1]
    BY <2>1
  <2> HIDE DEF h
  <2>4. fold[1..k] = CHOOSE r \in {Handled(t, seq[Max(1..k)]) : t \in {fold[(1..k) \ {Max(1..k)}]}} : TRUE
    BY <1>7, <2>1, <2>2, Zenon DEF Step
  <2>5. {Handled(t, seq[k]) : t \in {fold[1..k - 1]}} = {Handled(fold[1..k - 1], seq[k])}
    OBVIOUS
  <2> QED
    BY <2>2, <2>3, <2>4, <2>5
<1> HIDE DEF h
<1> QED
  BY <1>1, <1>8, <1>9 DEF HandledTo

LEMMA HandleRun ==
  ASSUME NEW base, NEW n \in Nat, NEW seq, DOMAIN seq = 1..n
  PROVE  \E h : /\ h[0] = base
                /\ \A k \in 1..n : h[k] = Handle(h[k - 1], seq[k])
                /\ HandleAll(base, seq) = h[n]
<1> DEFINE Step(f) == [s \in SUBSET (1..n) |->
                         IF s = {} THEN base
                         ELSE CHOOSE r \in {Handle(t, seq[Max(s)]) : t \in {f[s \ {Max(s)}]}} : TRUE]
           fold == CHOOSE f : f = Step(f)
           Folds(k, g) == g = [s \in SUBSET (1..k) |->
                                 IF s = {} THEN base ELSE Handle(g[s \ {Max(s)}], seq[Max(s)])]
           Has(k) == \E g : Folds(k, g)
           S == {k \in Nat : Has(k)}
<1>1. HandleAll(base, seq) = fold[1..n]
  BY DEF HandleAll, FoldValues, FoldLeft, MapThenFoldSet
<1> HIDE DEF Has
<1>2. 0 \in S
  <2> DEFINE g == [s \in SUBSET (1..0) |-> base]
  <2>1. \A s \in SUBSET (1..0) : s = {}
    OBVIOUS
  <2>2. Folds(0, g)
    BY <2>1
  <2> QED
    BY <2>2 DEF Has
<1>3. ASSUME NEW k \in Nat, k \in S PROVE k + 1 \in S
  <2>1. PICK g : Folds(k, g)
    BY <1>3 DEF Has
  <2> DEFINE f == [s \in SUBSET (1..k + 1) |->
                     IF k + 1 \in s THEN Handle(g[s \ {k + 1}], seq[k + 1]) ELSE g[s]]
  <2>2. \A t \in SUBSET (1..k) : t \in SUBSET (1..k + 1) /\ k + 1 \notin t
    OBVIOUS
  <2>3. \A t \in SUBSET (1..k) : f[t] = g[t]
    BY <2>2
  <2>4. ASSUME NEW s \in SUBSET (1..k + 1)
        PROVE  f[s] = IF s = {} THEN base ELSE Handle(f[s \ {Max(s)}], seq[Max(s)])
    <3>1. /\ k + 1 \in s => Max(s) = k + 1 /\ s \ {k + 1} \in SUBSET (1..k)
          /\ k + 1 \notin s => s \in SUBSET (1..k)
      BY MaxWithLast
    <3>2. CASE k + 1 \in s
      <4>1. f[s] = Handle(g[s \ {k + 1}], seq[k + 1])
        BY <3>2
      <4>2. f[s \ {k + 1}] = g[s \ {k + 1}]
        BY <2>3, <3>1, <3>2
      <4> HIDE DEF f
      <4> QED
        BY <3>1, <3>2, <4>1, <4>2
    <3>3. CASE k + 1 \notin s
      <4>1. s \in SUBSET (1..k) /\ f[s] = g[s]
        BY <2>3, <3>1, <3>3
      <4>2. s \ {Max(s)} \in SUBSET (1..k)
        BY <4>1
      <4>3. f[s \ {Max(s)}] = g[s \ {Max(s)}]
        BY <2>3, <4>2
      <4>4. g[s] = IF s = {} THEN base ELSE Handle(g[s \ {Max(s)}], seq[Max(s)])
        BY <2>1, <4>1
      <4> HIDE DEF f
      <4> QED
        BY <4>1, <4>3, <4>4
    <3> QED
      BY <3>2, <3>3
  <2>5. Folds(k + 1, f)
    BY <2>4
  <2>6. Has(k + 1)
    <3> HIDE DEF Folds, f
    <3> QED
      BY <2>5 DEF Has
  <2> QED
    BY <2>6
<1>4. \A k \in Nat : k \in S
  <2> HIDE DEF S
  <2> QED
    BY <1>2, <1>3, NatInductionOnSet
<1>5. PICK g : Folds(n, g)
  BY <1>4 DEF Has
<1>6. g = Step(g)
  <2>1. \A a, b : (CHOOSE r \in {Handle(t, a) : t \in {b}} : TRUE) = Handle(b, a)
    <3> SUFFICES ASSUME NEW a, NEW b
                 PROVE  (CHOOSE r \in {Handle(t, a) : t \in {b}} : TRUE) = Handle(b, a)
      OBVIOUS
    <3>1. {Handle(t, a) : t \in {b}} = {Handle(b, a)}
      OBVIOUS
    <3> QED
      BY <3>1
  <2> QED
    BY <1>5, <2>1
<1> HIDE DEF Step
<1>7. fold = Step(fold)
  BY <1>6
<1> HIDE DEF fold
<1> DEFINE h == [k \in 0..n |-> fold[1..k]]
<1>8. h[0] = base /\ h[n] = fold[1..n]
  <2>1. 1..0 = {} /\ 0 \in 0..n /\ n \in 0..n
    OBVIOUS
  <2> QED
    BY <1>7, <2>1 DEF Step
<1>9. ASSUME NEW k \in 1..n
      PROVE  h[k] = Handle(h[k - 1], seq[k])
  <2>1. k \in Nat \ {0} /\ 1..k \in SUBSET (1..n) /\ k \in 0..n /\ k - 1 \in 0..n
    OBVIOUS
  <2>2. Max(1..k) = k /\ (1..k) \ {k} = 1..k - 1 /\ 1..k # {}
    BY <2>1, MaxOfInitial
  <2>3. h[k] = fold[1..k] /\ h[k - 1] = fold[1..k - 1]
    BY <2>1
  <2> HIDE DEF h
  <2>4. fold[1..k] = CHOOSE r \in {Handle(t, seq[Max(1..k)]) : t \in {fold[(1..k) \ {Max(1..k)}]}} : TRUE
    BY <1>7, <2>1, <2>2, Zenon DEF Step
  <2>5. {Handle(t, seq[k]) : t \in {fold[1..k - 1]}} = {Handle(fold[1..k - 1], seq[k])}
    OBVIOUS
  <2> QED
    BY <2>2, <2>3, <2>4, <2>5
<1> HIDE DEF h
<1> QED
  BY <1>1, <1>8, <1>9

LEMMA SendRun ==
  ASSUME NEW memory, NEW base, NEW n \in Nat, NEW seq, DOMAIN seq = 1..n
  PROVE  \E h : /\ h[0] = base
                /\ \A k \in 1..n : h[k] = SendNext(memory, h[k - 1], seq[k])
                /\ SendAll(memory, base, seq) = h[n]
<1> DEFINE Step(f) == [s \in SUBSET (1..n) |->
                         IF s = {} THEN base
                         ELSE CHOOSE r \in {SendNext(memory, t, seq[Max(s)]) : t \in {f[s \ {Max(s)}]}} : TRUE]
           fold == CHOOSE f : f = Step(f)
           Folds(k, g) == g = [s \in SUBSET (1..k) |->
                                 IF s = {} THEN base ELSE SendNext(memory, g[s \ {Max(s)}], seq[Max(s)])]
           Has(k) == \E g : Folds(k, g)
           S == {k \in Nat : Has(k)}
<1>1. SendAll(memory, base, seq) = fold[1..n]
  BY DEF SendAll, FoldValues, FoldLeft, MapThenFoldSet
<1> HIDE DEF Has
<1>2. 0 \in S
  <2> DEFINE g == [s \in SUBSET (1..0) |-> base]
  <2>1. \A s \in SUBSET (1..0) : s = {}
    OBVIOUS
  <2>2. Folds(0, g)
    BY <2>1
  <2> QED
    BY <2>2 DEF Has
<1>3. ASSUME NEW k \in Nat, k \in S PROVE k + 1 \in S
  <2>1. PICK g : Folds(k, g)
    BY <1>3 DEF Has
  <2> DEFINE f == [s \in SUBSET (1..k + 1) |->
                     IF k + 1 \in s THEN SendNext(memory, g[s \ {k + 1}], seq[k + 1]) ELSE g[s]]
  <2>2. \A t \in SUBSET (1..k) : t \in SUBSET (1..k + 1) /\ k + 1 \notin t
    OBVIOUS
  <2>3. \A t \in SUBSET (1..k) : f[t] = g[t]
    BY <2>2
  <2>4. ASSUME NEW s \in SUBSET (1..k + 1)
        PROVE  f[s] = IF s = {} THEN base ELSE SendNext(memory, f[s \ {Max(s)}], seq[Max(s)])
    <3>1. /\ k + 1 \in s => Max(s) = k + 1 /\ s \ {k + 1} \in SUBSET (1..k)
          /\ k + 1 \notin s => s \in SUBSET (1..k)
      BY MaxWithLast
    <3>2. CASE k + 1 \in s
      <4>1. f[s] = SendNext(memory, g[s \ {k + 1}], seq[k + 1])
        BY <3>2
      <4>2. f[s \ {k + 1}] = g[s \ {k + 1}]
        BY <2>3, <3>1, <3>2
      <4> HIDE DEF f
      <4> QED
        BY <3>1, <3>2, <4>1, <4>2
    <3>3. CASE k + 1 \notin s
      <4>1. s \in SUBSET (1..k) /\ f[s] = g[s]
        BY <2>3, <3>1, <3>3
      <4>2. s \ {Max(s)} \in SUBSET (1..k)
        BY <4>1
      <4>3. f[s \ {Max(s)}] = g[s \ {Max(s)}]
        BY <2>3, <4>2
      <4>4. g[s] = IF s = {} THEN base ELSE SendNext(memory, g[s \ {Max(s)}], seq[Max(s)])
        BY <2>1, <4>1
      <4> HIDE DEF f
      <4> QED
        BY <4>1, <4>3, <4>4
    <3> QED
      BY <3>2, <3>3
  <2>5. Folds(k + 1, f)
    BY <2>4
  <2>6. Has(k + 1)
    <3> HIDE DEF Folds, f
    <3> QED
      BY <2>5 DEF Has
  <2> QED
    BY <2>6
<1>4. \A k \in Nat : k \in S
  <2> HIDE DEF S
  <2> QED
    BY <1>2, <1>3, NatInductionOnSet
<1>5. PICK g : Folds(n, g)
  BY <1>4 DEF Has
<1>6. g = Step(g)
  <2>1. \A a, b : (CHOOSE r \in {SendNext(memory, t, a) : t \in {b}} : TRUE) = SendNext(memory, b, a)
    <3> SUFFICES ASSUME NEW a, NEW b
                 PROVE  (CHOOSE r \in {SendNext(memory, t, a) : t \in {b}} : TRUE) = SendNext(memory, b, a)
      OBVIOUS
    <3>1. {SendNext(memory, t, a) : t \in {b}} = {SendNext(memory, b, a)}
      OBVIOUS
    <3> QED
      BY <3>1
  <2> QED
    BY <1>5, <2>1
<1> HIDE DEF Step
<1>7. fold = Step(fold)
  BY <1>6
<1> HIDE DEF fold
<1> DEFINE h == [k \in 0..n |-> fold[1..k]]
<1>8. h[0] = base /\ h[n] = fold[1..n]
  <2>1. 1..0 = {} /\ 0 \in 0..n /\ n \in 0..n
    OBVIOUS
  <2> QED
    BY <1>7, <2>1 DEF Step
<1>9. ASSUME NEW k \in 1..n
      PROVE  h[k] = SendNext(memory, h[k - 1], seq[k])
  <2>1. k \in Nat \ {0} /\ 1..k \in SUBSET (1..n) /\ k \in 0..n /\ k - 1 \in 0..n
    OBVIOUS
  <2>2. Max(1..k) = k /\ (1..k) \ {k} = 1..k - 1 /\ 1..k # {}
    BY <2>1, MaxOfInitial
  <2>3. h[k] = fold[1..k] /\ h[k - 1] = fold[1..k - 1]
    BY <2>1
  <2> HIDE DEF h
  <2>4. fold[1..k] = CHOOSE r \in {SendNext(memory, t, seq[Max(1..k)]) : t \in {fold[(1..k) \ {Max(1..k)}]}} : TRUE
    BY <1>7, <2>1, <2>2, Zenon DEF Step
  <2>5. {SendNext(memory, t, seq[k]) : t \in {fold[1..k - 1]}} = {SendNext(memory, fold[1..k - 1], seq[k])}
    OBVIOUS
  <2> QED
    BY <2>2, <2>3, <2>4, <2>5
<1> HIDE DEF h
<1> QED
  BY <1>1, <1>8, <1>9

-----------------------------------------------------------------------------
(* What the client holds, without the layout of its memory: its chain, the *)
(* part that trim has erased included, and how much of it is final.        *)
View(m, tr) == [chain |-> ChainOf(m, tr), irr |-> m.irreversible]

FinalTo(chain, irr, num) ==
  IF num <= irr THEN irr ELSE IF num <= Len(chain) THEN num ELSE Len(chain)

Heard(v, msg) ==
  CASE msg.type = "block" ->
         IF Takes(v.chain, v.irr, msg.block)
         THEN [chain |-> Append(SubSeq(v.chain, 1, msg.block.num - 1), msg.block),
               irr |-> v.irr]
         ELSE v
    [] msg.type = "setHead" ->
         [chain |-> UndoneByNum(v.chain, v.irr, msg.head + 1), irr |-> v.irr]
    [] msg.type = "setIrreversible" ->
         [chain |-> v.chain, irr |-> FinalTo(v.chain, v.irr, msg.irreversible)]
    [] msg.type = "sendStatus" -> v

(* The messages that a box whose blocks decode can send. *)
Decodable == {b \in Block : ~Undecodable(b)}
Msgs ==
  [type : {"block"}, block : Decodable]
    \cup [type : {"setHead"}, head : Nat]
    \cup [type : {"setIrreversible"}, irreversible : {n \in UInt : n < MaxUInt}]
    \cup [type : {"sendStatus"}]

LEMMA ReplayInTables ==
  ASSUME NEW chain \in Seq(Block)
  PROVE  Replay(chain) \in Tables
<1>1. PICK r : IsReplay(r, chain)
  BY ReplayRun
<1>2. Len(chain) \in Nat /\ Len(chain) \in 0..Len(chain)
  OBVIOUS
<1> QED
  BY <1>1, <1>2 DEF IsReplay

(* setIrreversible makes final what it names and the client has.           *)
LEMMA SetIrreversibleToAny ==
  ASSUME NEW m, NEW tr, Good(m, tr), NEW num \in UInt, num < MaxUInt
  PROVE  /\ Good(setIrreversible(m, num), tr)
         /\ setIrreversible(m, num).irreversible =
              FinalTo(ChainOf(m, tr), m.irreversible, num)
         /\ ChainOf(setIrreversible(m, num), tr) = ChainOf(m, tr)
<1> DEFINE log == m.blocks
           base == Len(tr)
           irr == m.irreversible
           it == LowerBoundByNum(log, num + 1) - 1
           irr2 == Advanced(log, irr, it)
           db2 == Commit(m.db, irr2)
           m2 == [blocks |-> log, irreversible |-> irr2, db |-> db2, trapped |-> m.trapped]
<1>1. /\ log \in Seq(Block) /\ Len(log) \in Nat /\ base \in Nat
      /\ Len(ChainOf(m, tr)) = base + Len(log)
      /\ NumberedFrom(log, base)
      /\ irr \in Nat
  BY LogInChain DEF Good
<1>2. irr <= Len(ChainOf(m, tr)) /\ (base = 0 \/ base < irr)
  BY EmptySeq DEF Good, Inv, Irreversible
<1>3. num \in Nat /\ Inc(num) = num + 1
  BY IncWraps, WidthAssumption DEF UInt
<1>4. setIrreversible(m, num) = m2
  <2>1. setIrreversible(m, num) = [m EXCEPT !.irreversible = irr2, !.db = db2]
    BY <1>3 DEF setIrreversible, BlockBeforeNum
  <2>2. m = [blocks |-> log, irreversible |-> m.irreversible, db |-> m.db,
             trapped |-> m.trapped]
    BY DEF Good, Inv, Shape
  <2> HIDE DEF irr2, db2
  <2> QED
    BY <2>1, <2>2
<1>7. /\ it \in 0..Len(log)
      /\ num + 1 <= base => it = 0
      /\ num + 1 > base /\ num + 1 <= base + Len(log) => it = num - base
      /\ num + 1 > base + Len(log) => it = Len(log)
  <2> DEFINE q == num + 1
  <2>1. q \in Nat /\ q = num + 1
    BY <1>3
  <2> HIDE DEF log, base, q
  <2>2. /\ LowerBoundByNum(log, q) \in 1..Len(log) + 1
        /\ q <= base => LowerBoundByNum(log, q) = 1
        /\ q > base /\ q <= base + Len(log) => LowerBoundByNum(log, q) = q - base
        /\ q > base + Len(log) => LowerBoundByNum(log, q) = Len(log) + 1
    BY <1>1, <2>1, LowerBoundByNumIsLeast
  <2> QED
    BY <1>1, <1>3, <2>1, <2>2
<1>8. irr2 = FinalTo(ChainOf(m, tr), irr, num)
  <2> HIDE DEF log, base, irr, it
  <2>1. it # 0 => log[it].num = base + it
    <3>1. it # 0 => it \in 1..Len(log)
      BY <1>1, <1>7
    <3> QED
      BY <1>1, <3>1 DEF NumberedFrom
  <2>2. CASE it = 0
    <3>1. irr2 = irr
      BY <2>2 DEF Advanced
    <3>2. num <= irr \/ (Len(ChainOf(m, tr)) = irr)
      BY <1>1, <1>2, <1>3, <1>7, <2>2
    <3> QED
      BY <1>1, <1>3, <3>1, <3>2 DEF FinalTo
  <2>3. CASE it # 0
    <3>1. irr2 = IF base + it > irr THEN base + it ELSE irr
      BY <2>1, <2>3 DEF Advanced
    <3> HIDE DEF irr2
    <3> QED
      BY <1>1, <1>2, <1>3, <1>7, <2>3, <3>1 DEF FinalTo
  <2> QED
    BY <2>2, <2>3
<1>9. Good(setIrreversible(m, num), tr)
  <2>1. ~setIrreversible(m, num).trapped
    BY <1>4 DEF Good
  <2> QED
    BY <2>1, SetIrreversibleCorrect, SetIrreversibleReplays DEF Good, Correct
<1> HIDE DEF irr2
<1> QED
  BY <1>4, <1>8, <1>9 DEF ChainOf

(* Each message changes the client's memory as it changes the view.        *)
LEMMA HandledByChain ==
  ASSUME NEW m, NEW tr, Good(m, tr), NEW msg \in Msgs
  PROVE  \E ts : /\ Good(Handled(m, msg), ts)
                 /\ View(Handled(m, msg), ts) = Heard(View(m, tr), msg)
<1> DEFINE chain == ChainOf(m, tr)
           irr == m.irreversible
<1>1. /\ chain \in Seq(Block) /\ irr \in Nat
      /\ irr <= Len(chain)
      /\ Linked(chain) /\ SortedByEosioNum(chain)
      /\ Len(chain) \in Nat
  BY LogInChain DEF Good, Inv, Irreversible
<1>2. View(m, tr).chain = chain /\ View(m, tr).irr = irr
  BY DEF View
<1> HIDE DEF chain, irr
<1>3. CASE msg \in [type : {"block"}, block : Decodable]
  <2> DEFINE b == msg.block
             m2 == addBlock(m, b, 0)
             cut == SubSeq(chain, 1, b.num - 1)
  <2>1. msg.type = "block" /\ b \in Block /\ ~Undecodable(b) /\ 0 \in UInt
    BY <1>3, WidthAssumption DEF Decodable, UInt
  <2>2. Handled(m, msg) = m2
    BY <2>1 DEF Handled
  <2>3. Extended(m, tr, b, 0, m2)
    BY <2>1, AddBlockByChain
  <2> HIDE DEF m2
  <2>4. CASE Takes(chain, irr, b)
    <3>1. /\ ChainOf(m2, tr) = Append(cut, b)
          /\ m2.irreversible = FinalAfterNum(Append(cut, b), irr, 0)
          /\ m2.trapped <=> ~FilterBlock(Replay(cut), b.eosio).ok
      BY <2>3, <2>4 DEF Extended, chain, irr
    <3>2. /\ b.num \in irr + 1..Len(chain) + 1 /\ b.num - 1 \in 0..Len(chain)
          /\ b.num \in Nat /\ b.num <= MaxUInt /\ b.eosio \in EosioBlock
          /\ b.num = (b.num - 1) + 1
          /\ b.num - 1 > 0 => b.previous = chain[b.num - 1].id
      BY <1>1, <2>1, <2>4, BlockAssumption, WidthAssumption DEF Takes, UInt
    <3>3. /\ Append(cut, b) \in Seq(Block) /\ Len(Append(cut, b)) = b.num
          /\ SortedByEosioNum(Append(cut, b))
      BY <1>1, <2>1, <3>2, ExtendChain
    <3>4. irr \in 0..Len(Append(cut, b)) /\ irr < MaxUInt
      BY <1>1, <3>2, <3>3, WidthAssumption
    <3>5. m2.irreversible = irr
      BY <2>1, <3>1, <3>3, <3>4, FinalAfterNumInRange, NumberAssumption
    <3>6. cut \in Seq(Block)
      BY <1>1, <3>2, CutChain
    <3>7. FilterBlock(Replay(cut), b.eosio).ok
      BY <2>1, <3>2, <3>6, ReplayInTables, FilterBlockRuns DEF Undecodable
    <3>8. Good(m2, tr)
      BY <2>3, <3>1, <3>7 DEF Good, Extended
    <3>9. Heard(View(m, tr), msg) = [chain |-> Append(cut, b), irr |-> irr]
      BY <1>2, <2>1, <2>4 DEF Heard
    <3> QED
      BY <2>2, <3>1, <3>5, <3>8, <3>9 DEF View
  <2>5. CASE ~Takes(chain, irr, b)
    <3>1. m2 = m
      BY <2>3, <2>5 DEF Extended, chain, irr
    <3>2. Heard(View(m, tr), msg) = View(m, tr)
      BY <1>2, <2>1, <2>5 DEF Heard
    <3> QED
      BY <2>2, <3>1, <3>2
  <2> QED
    BY <2>4, <2>5
<1>4. CASE msg \in [type : {"setHead"}, head : Nat]
  <2>1. msg.type = "setHead" /\ msg.head + 1 \in Nat
    BY <1>4
  <2>2. Handled(m, msg) = undoBlockNum(m, msg.head + 1)
    BY <2>1 DEF Handled, SetHead
  <2>3. /\ Good(undoBlockNum(m, msg.head + 1), tr)
        /\ undoBlockNum(m, msg.head + 1).irreversible = irr
        /\ ChainOf(undoBlockNum(m, msg.head + 1), tr) = UndoneByNum(chain, irr, msg.head + 1)
    BY <2>1, UndoBlockNumByChain DEF chain, irr
  <2>4. Heard(View(m, tr), msg) = [chain |-> UndoneByNum(chain, irr, msg.head + 1), irr |-> irr]
    BY <1>2, <2>1 DEF Heard
  <2> QED
    BY <2>2, <2>3, <2>4 DEF View
<1>5. CASE msg \in [type : {"setIrreversible"}, irreversible : {n \in UInt : n < MaxUInt}]
  <2> DEFINE num == msg.irreversible
             m2 == setIrreversible(m, num)
  <2>1. msg.type = "setIrreversible" /\ num \in UInt /\ num < MaxUInt
    BY <1>5
  <2>2. Handled(m, msg) = trimBlocks(m2)
    BY <2>1 DEF Handled, SetClientIrreversible
  <2>3. /\ Good(m2, tr) /\ m2.irreversible = FinalTo(chain, irr, num)
        /\ ChainOf(m2, tr) = chain
    BY <2>1, SetIrreversibleToAny DEF chain, irr
  <2>4. Heard(View(m, tr), msg) = [chain |-> chain, irr |-> FinalTo(chain, irr, num)]
    BY <1>2, <2>1 DEF Heard
  <2> HIDE DEF m2
  <2>5. PICK ts : /\ Good(trimBlocks(m2), ts)
                  /\ ChainOf(trimBlocks(m2), ts) = ChainOf(m2, tr)
                  /\ trimBlocks(m2).irreversible = m2.irreversible
    BY <2>3, TrimGood
  <2> QED
    BY <2>2, <2>3, <2>4, <2>5 DEF View
<1>6. CASE msg \in [type : {"sendStatus"}]
  <2>1. Handled(m, msg) = m /\ Heard(View(m, tr), msg) = View(m, tr)
    BY <1>6 DEF Handled, Heard
  <2> QED
    BY <2>1
<1> QED
  BY <1>3, <1>4, <1>5, <1>6 DEF Msgs
-----------------------------------------------------------------------------
(* What a client comes to hold as it handles the messages under way to it. *)

(* Its chain is one that it could have, and what it takes for final is     *)
(* what the history providers declared final.                              *)
Sound(v, final) ==
  /\ v.chain \in Seq(Block)
  /\ Linked(v.chain) /\ SortedByEosioNum(v.chain)
  /\ v.irr \in Nat /\ v.irr <= Len(v.chain) /\ v.irr <= Len(final)
  /\ \A i \in 1..v.irr : v.chain[i] = final[i]

IsPath(w, v, q) == w[0] = v /\ \A k \in 1..Len(q) : w[k] = Heard(w[k - 1], q[k])

SoundPath(w, v, q, final) == IsPath(w, v, q) /\ \A k \in 0..Len(q) : Sound(w[k], final)

(* From v the messages q lead to v2, and nothing on the way is unsound.    *)
Leads(v, q, v2, final) == \E w : SoundPath(w, v, q, final) /\ w[Len(q)] = v2

LEMMA LeadsNowhere ==
  ASSUME NEW v, NEW final, Sound(v, final)
  PROVE  Leads(v, <<>>, v, final)
<1> DEFINE w == [k \in {0} |-> v]
<1>1. Len(<<>>) = 0 /\ 0..0 = {0} /\ 1..0 = {} /\ w[0] = v
  OBVIOUS
<1> HIDE DEF w
<1>2. SoundPath(w, v, <<>>, final)
  BY <1>1 DEF SoundPath, IsPath
<1> QED
  BY <1>1, <1>2 DEF Leads

LEMMA LeadsFurther ==
  ASSUME NEW v, NEW q \in Seq(Msgs), NEW v2, NEW final, Leads(v, q, v2, final),
         NEW r \in Seq(Msgs), NEW v3, Leads(v2, r, v3, final)
  PROVE  Leads(v, q \o r, v3, final)
<1> DEFINE n == Len(q)
           p == Len(r)
<1>1. PICK w : SoundPath(w, v, q, final) /\ w[n] = v2
  BY DEF Leads
<1>2. PICK x : SoundPath(x, v2, r, final) /\ x[p] = v3
  BY DEF Leads
<1>3. n \in Nat /\ p \in Nat
  OBVIOUS
<1>4. /\ Len(q \o r) = n + p
      /\ \A k \in 1..n : (q \o r)[k] = q[k]
      /\ \A k \in n + 1..n + p : (q \o r)[k] = r[k - n]
  BY ConcatProperties
<1> DEFINE y == [k \in 0..n + p |-> IF k <= n THEN w[k] ELSE x[k - n]]
<1>5. /\ w[0] = v
      /\ \A k \in 1..n : w[k] = Heard(w[k - 1], q[k])
      /\ \A k \in 0..n : Sound(w[k], final)
      /\ x[0] = v2
      /\ \A k \in 1..p : x[k] = Heard(x[k - 1], r[k])
      /\ \A k \in 0..p : Sound(x[k], final)
  BY <1>1, <1>2 DEF SoundPath, IsPath
<1> HIDE DEF n, p
<1>6. /\ \A k \in 0..n : y[k] = w[k]
      /\ \A k \in n..n + p : y[k] = x[k - n]
  <2>1. ASSUME NEW k \in 0..n PROVE y[k] = w[k]
    BY <1>3
  <2>2. ASSUME NEW k \in n..n + p PROVE y[k] = x[k - n]
    <3>1. CASE k = n
      BY <1>1, <1>3, <1>5, <3>1
    <3>2. CASE k # n
      BY <1>3, <3>2
    <3> QED
      BY <3>1, <3>2
  <2> QED
    BY <2>1, <2>2
<1> HIDE DEF y
<1>7. y[0] = v /\ y[n + p] = v3
  <2>1. 0 \in 0..n /\ n + p \in n..n + p /\ (n + p) - n = p
    BY <1>3
  <2> QED
    BY <1>2, <1>5, <1>6, <2>1 DEF p
<1>8. ASSUME NEW k \in 1..n + p
      PROVE  y[k] = Heard(y[k - 1], (q \o r)[k])
  <2>1. CASE k <= n
    <3>1. k \in 1..n /\ k \in 0..n /\ k - 1 \in 0..n
      BY <1>3, <2>1
    <3> QED
      BY <1>4, <1>5, <1>6, <3>1
  <2>2. CASE ~(k <= n)
    <3>1. /\ k \in n + 1..n + p /\ k \in n..n + p /\ k - 1 \in n..n + p
          /\ k - n \in 1..p /\ (k - 1) - n = (k - n) - 1
      BY <1>3, <2>2
    <3> QED
      BY <1>4, <1>5, <1>6, <3>1
  <2> QED
    BY <2>1, <2>2
<1>9. ASSUME NEW k \in 0..n + p PROVE Sound(y[k], final)
  <2>1. CASE k <= n
    BY <1>3, <1>5, <1>6, <2>1
  <2>2. CASE ~(k <= n)
    <3>1. k \in n..n + p /\ k - n \in 0..p
      BY <1>3, <2>2
    <3> QED
      BY <1>5, <1>6, <3>1
  <2> QED
    BY <2>1, <2>2
<1> QED
  BY <1>4, <1>7, <1>8, <1>9 DEF Leads, SoundPath, IsPath

LEMMA LeadsByOne ==
  ASSUME NEW v, NEW final, Sound(v, final), NEW msg \in Msgs,
         Sound(Heard(v, msg), final)
  PROVE  Leads(v, <<msg>>, Heard(v, msg), final)
<1> DEFINE w == [k \in 0..1 |-> IF k = 0 THEN v ELSE Heard(v, msg)]
<1>1. /\ Len(<<msg>>) = 1 /\ <<msg>>[1] = msg /\ 0..1 = {0, 1} /\ 1..1 = {1}
      /\ w[0] = v /\ w[1] = Heard(v, msg) /\ 1 - 1 = 0
  OBVIOUS
<1> HIDE DEF w
<1>2. SoundPath(w, v, <<msg>>, final)
  BY <1>1 DEF SoundPath, IsPath
<1> QED
  BY <1>1, <1>2 DEF Leads

(* A path may be left and joined anywhere.                                 *)
LEMMA PathCut ==
  ASSUME NEW v, NEW q \in Seq(Msgs), NEW final, NEW w, SoundPath(w, v, q, final),
         NEW k \in 0..Len(q)
  PROVE  /\ Leads(v, SubSeq(q, 1, k), w[k], final)
         /\ Leads(w[k], SubSeq(q, k + 1, Len(q)), w[Len(q)], final)
<1> DEFINE n == Len(q)
           x == [i \in 0..n - k |-> w[i + k]]
<1>1. n \in Nat /\ k \in Nat /\ k <= n
  OBVIOUS
<1>2. /\ w[0] = v
      /\ \A i \in 1..n : w[i] = Heard(w[i - 1], q[i])
      /\ \A i \in 0..n : Sound(w[i], final)
  BY DEF SoundPath, IsPath
<1>3. Leads(v, SubSeq(q, 1, k), w[k], final)
  <2>1. Len(SubSeq(q, 1, k)) = k /\ \A i \in 1..k : SubSeq(q, 1, k)[i] = q[i]
    BY <1>1
  <2>2. SoundPath(w, v, SubSeq(q, 1, k), final)
    BY <1>1, <1>2, <2>1 DEF SoundPath, IsPath
  <2> QED
    BY <2>1, <2>2 DEF Leads
<1>4. Leads(w[k], SubSeq(q, k + 1, n), w[n], final)
  <2>1. /\ Len(SubSeq(q, k + 1, n)) = n - k
        /\ \A i \in 1..n - k : SubSeq(q, k + 1, n)[i] = q[i + k]
    BY <1>1
  <2>2. x[0] = w[k] /\ x[n - k] = w[n] /\ \A i \in 0..n - k : x[i] = w[i + k]
    <3>1. 0 \in 0..n - k /\ n - k \in 0..n - k /\ 0 + k = k /\ (n - k) + k = n
      BY <1>1
    <3> QED
      BY <3>1
  <2> HIDE DEF x, n
  <2>3. \A i \in 1..n - k : x[i] = Heard(x[i - 1], SubSeq(q, k + 1, n)[i])
    <3> SUFFICES ASSUME NEW i \in 1..n - k
                 PROVE  x[i] = Heard(x[i - 1], SubSeq(q, k + 1, n)[i])
      OBVIOUS
    <3>1. /\ i + k \in 1..n /\ i \in 0..n - k /\ i - 1 \in 0..n - k
          /\ (i - 1) + k = (i + k) - 1
      BY <1>1
    <3> QED
      BY <1>2, <2>1, <2>2, <3>1
  <2>4. \A i \in 0..n - k : Sound(x[i], final)
    <3> SUFFICES ASSUME NEW i \in 0..n - k PROVE Sound(x[i], final)
      OBVIOUS
    <3>1. i + k \in 0..n
      BY <1>1
    <3> QED
      BY <1>2, <2>2, <3>1
  <2> QED
    BY <2>1, <2>2, <2>3, <2>4 DEF Leads, SoundPath, IsPath
<1> QED
  BY <1>3, <1>4

(* What is final stays so.                                                 *)
LEMMA LeadsStill ==
  ASSUME NEW v, NEW q, NEW v2, NEW final \in Seq(Block), Leads(v, q, v2, final),
         NEW more \in Seq(Block), Len(final) <= Len(more),
         \A i \in 1..Len(final) : more[i] = final[i]
  PROVE  Leads(v, q, v2, more)
<1>1. Len(final) \in Nat /\ Len(more) \in Nat
  OBVIOUS
<1>2. \A u : Sound(u, final) => Sound(u, more)
  BY <1>1 DEF Sound
<1>3. PICK w : SoundPath(w, v, q, final) /\ w[Len(q)] = v2
  BY DEF Leads
<1> QED
  BY <1>2, <1>3 DEF Leads, SoundPath

(* The memories that a client goes through are those of the views.         *)
IsRun(ms, m, q) == ms[0] = m /\ \A k \in 1..Len(q) : ms[k] = Handled(ms[k - 1], q[k])

LEMMA RunStaysGood ==
  ASSUME NEW m, NEW tr, Good(m, tr), NEW q \in Seq(Msgs), NEW ms, IsRun(ms, m, q)
  PROVE  \A k \in 0..Len(q) : \E ts : Good(ms[k], ts)
<1> DEFINE S == {k \in Nat : k <= Len(q) => \E ts : Good(ms[k], ts)}
<1>1. 0 \in S
  BY DEF IsRun
<1>2. ASSUME NEW k \in Nat, k \in S PROVE k + 1 \in S
  <2>1. SUFFICES ASSUME k + 1 <= Len(q) PROVE \E ts : Good(ms[k + 1], ts)
    OBVIOUS
  <2>2. k + 1 \in 1..Len(q) /\ (k + 1) - 1 = k /\ k <= Len(q)
    BY <2>1
  <2>3. ms[k + 1] = Handled(ms[k], q[k + 1]) /\ q[k + 1] \in Msgs
    BY <2>2, ElementOfSeq DEF IsRun
  <2>4. PICK ts : Good(ms[k], ts)
    BY <1>2, <2>2
  <2> QED
    BY <2>3, <2>4, HandledByChain
<1>3. \A k \in Nat : k \in S
  <2> HIDE DEF S
  <2> QED
    BY <1>1, <1>2, NatInductionOnSet
<1> QED
  BY <1>3

LEMMA RunFollowsPath ==
  ASSUME NEW m, NEW tr, Good(m, tr), NEW q \in Seq(Msgs), NEW ms, IsRun(ms, m, q),
         NEW w, IsPath(w, View(m, tr), q)
  PROVE  \A k \in 0..Len(q) : \E ts : Good(ms[k], ts) /\ View(ms[k], ts) = w[k]
<1> DEFINE S == {k \in Nat : k <= Len(q) =>
                   \E ts : Good(ms[k], ts) /\ View(ms[k], ts) = w[k]}
<1>1. 0 \in S
  BY DEF IsRun, IsPath
<1>2. ASSUME NEW k \in Nat, k \in S PROVE k + 1 \in S
  <2>1. SUFFICES ASSUME k + 1 <= Len(q)
                 PROVE  \E ts : Good(ms[k + 1], ts) /\ View(ms[k + 1], ts) = w[k + 1]
    OBVIOUS
  <2>2. k + 1 \in 1..Len(q) /\ (k + 1) - 1 = k /\ k <= Len(q)
    BY <2>1
  <2>3. /\ ms[k + 1] = Handled(ms[k], q[k + 1]) /\ q[k + 1] \in Msgs
        /\ w[k + 1] = Heard(w[k], q[k + 1])
    BY <2>2, ElementOfSeq DEF IsRun, IsPath
  <2>4. PICK ts : Good(ms[k], ts) /\ View(ms[k], ts) = w[k]
    BY <1>2, <2>2
  <2> QED
    BY <2>3, <2>4, HandledByChain
<1>3. \A k \in Nat : k \in S
  <2> HIDE DEF S
  <2> QED
    BY <1>1, <1>2, NatInductionOnSet
<1> QED
  BY <1>3
-----------------------------------------------------------------------------
(* Statuses: the blocks that they name, and what the client says of itself *)
Infos == {Info(b) : b \in Block}

Asking == {s \in Status : s.maxBlocksToSend > 0}

LEMMA IrreversibleIsNamed ==
  ASSUME NEW m, NEW tr, Good(m, tr)
  PROVE  getIrreversible(m) = m.irreversible
<1> DEFINE log == m.blocks
           base == Len(tr)
           irr == m.irreversible
<1>1. /\ log \in Seq(Block) /\ Len(log) \in Nat /\ base \in Nat
      /\ Len(ChainOf(m, tr)) = base + Len(log)
      /\ NumberedFrom(log, base)
      /\ irr \in Nat
  BY LogInChain DEF Good
<1>2. irr <= Len(ChainOf(m, tr)) /\ (base = 0 \/ base < irr)
  BY EmptySeq DEF Good, Inv, Irreversible
<1>3. irr > 0 => BlockByNum(log, irr) # 0
  <2> HIDE DEF log, base, irr
  <2>1. SUFFICES ASSUME irr > 0 PROVE BlockByNum(log, irr) # 0
    OBVIOUS
  <2>2. irr > base /\ irr <= base + Len(log)
    BY <1>1, <1>2, <2>1
  <2>3. LowerBoundByNum(log, irr) = irr - base
    BY <1>1, <2>2, LowerBoundByNumIsLeast
  <2>4. irr - base \in 1..Len(log) /\ base + (irr - base) = irr
    BY <1>1, <2>2
  <2>5. log[irr - base].num = irr
    BY <2>4, <1>1 DEF NumberedFrom
  <2> QED
    BY <2>3, <2>4, <2>5 DEF BlockByNum
<1> HIDE DEF log, irr
<1>4. irr = 0 \/ irr > 0
  BY <1>1
<1> QED
  BY <1>3, <1>4 DEF getIrreversible, log, irr

(* Blocks in a row, up to the one the box takes for the client's head, and *)
(* the first is not behind those that are not final.                       *)
TrackedFrom(f, sb, v) ==
  /\ f \in Nat \ {0}
  /\ f - 1 + Len(sb) <= Len(v.chain)
  /\ f = 1 \/ f <= v.irr
  /\ sb = <<>> => f = 1
  /\ \A i \in 1..Len(sb) : sb[i] = Info(v.chain[f - 1 + i])

Tracked(sb, v) == \E f : TrackedFrom(f, sb, v)

LEMMA TrackedLast ==
  ASSUME NEW v, v.chain \in Seq(Block), Linked(v.chain), NEW sb \in Seq(Infos),
         NEW f, TrackedFrom(f, sb, v)
  PROVE  /\ LastNum(sb) = f - 1 + Len(sb)
         /\ LastNum(sb) \in 0..Len(v.chain)
         /\ sb # <<>> => Last(sb) = Info(v.chain[LastNum(sb)])
<1> DEFINE n == Len(sb)
<1>1. n \in Nat /\ f \in Nat \ {0} /\ Len(v.chain) \in Nat
  BY DEF TrackedFrom
<1>2. CASE sb = <<>>
  <2>1. n = 0 /\ f = 1
    BY <1>2, EmptySeq DEF TrackedFrom
  <2> QED
    BY <1>1, <1>2, <2>1 DEF LastNum, TrackedFrom
<1>3. CASE sb # <<>>
  <2>1. n # 0 /\ n \in 1..n
    BY <1>1, <1>3, EmptySeq
  <2>2. Last(sb) = Info(v.chain[f - 1 + n]) /\ f - 1 + n <= Len(v.chain)
    BY <2>1 DEF TrackedFrom, Last
  <2>3. f - 1 + n \in 1..Len(v.chain) /\ f - 1 + n \in 0..Len(v.chain)
    BY <1>1, <2>1, <2>2
  <2>4. v.chain[f - 1 + n].num = f - 1 + n
    BY <2>3 DEF Linked
  <2>5. LastNum(sb) = f - 1 + n
    BY <1>3, <2>2, <2>4 DEF LastNum, Info
  <2> QED
    BY <2>2, <2>3, <2>5
<1> QED
  BY <1>2, <1>3

LEMMA StatusOfClient ==
  ASSUME NEW m, NEW tr, Good(m, tr)
  PROVE  /\ ClientStatus(m) \in Asking
         /\ Tracked(ClientStatus(m).blocks, View(m, tr))
         /\ LastNum(ClientStatus(m).blocks) = Len(ChainOf(m, tr))
<1> DEFINE log == m.blocks
           base == Len(tr)
           irr == m.irreversible
           chain == ChainOf(m, tr)
           from == LowerBoundByNum(log, irr)
           first == IF irr = 0 THEN 1 ELSE irr
           sb == [i \in 1..Len(log) + 1 - from |-> Info(log[from + i - 1])]
<1>1. /\ log \in Seq(Block) /\ Len(log) \in Nat /\ base \in Nat
      /\ chain \in Seq(Block)
      /\ Len(chain) = base + Len(log)
      /\ \A i \in 1..Len(log) : log[i] = chain[base + i]
      /\ NumberedFrom(log, base)
      /\ irr \in Nat
  BY LogInChain DEF Good
<1>2. irr <= Len(chain) /\ (base = 0 \/ base < irr) /\ Linked(chain)
  BY EmptySeq DEF Good, Inv, Irreversible
<1>3. from = first - base /\ from \in 1..Len(log) + 1
  <2> HIDE DEF log, base, irr, chain
  <2>1. /\ LowerBoundByNum(log, irr) \in 1..Len(log) + 1
        /\ irr <= base => LowerBoundByNum(log, irr) = 1
        /\ irr > base /\ irr <= base + Len(log) => LowerBoundByNum(log, irr) = irr - base
    BY <1>1, LowerBoundByNumIsLeast
  <2> QED
    BY <1>1, <1>2, <2>1
<1>4. ClientStatus(m) = [maxBlocksToSend |-> MaxBlocksToSend, irreversible |-> irr,
                         blocks |-> sb]
  <2>1. getIrreversible(m) = irr
    BY IrreversibleIsNamed
  <2>2. ClientStatus(m) =
          [maxBlocksToSend |-> MaxBlocksToSend, irreversible |-> getIrreversible(m),
           blocks |-> [i \in 1..Len(log) + 1 - LowerBoundByNum(log, getIrreversible(m)) |->
                         Info(log[LowerBoundByNum(log, getIrreversible(m)) + i - 1])]]
    BY DEF ClientStatus
  <2> HIDE DEF irr, log
  <2> QED
    BY <2>1, <2>2
<1> DEFINE n == Len(chain) + 1 - first
<1>5. n \in Nat /\ Len(log) + 1 - from = n
  <2> HIDE DEF log, base, irr, chain, from
  <2> QED
    BY <1>1, <1>2, <1>3
<1>6. \A i \in 1..n : sb[i] = Info(chain[first - 1 + i])
  <2> SUFFICES ASSUME NEW i \in 1..n PROVE sb[i] = Info(chain[first - 1 + i])
    OBVIOUS
  <2>1. sb[i] = Info(log[from + i - 1])
    BY <1>5
  <2> HIDE DEF log, base, irr, chain, from, sb
  <2>2. from + i - 1 \in 1..Len(log) /\ base + (from + i - 1) = first - 1 + i
    BY <1>1, <1>2, <1>3, <1>5
  <2> QED
    BY <1>1, <2>1, <2>2
<1>7. sb = [i \in 1..n |-> sb[i]]
  BY <1>5
<1> HIDE DEF sb, log, base, irr, from
<1>8. \A i \in 1..n : sb[i] \in Infos
  <2> SUFFICES ASSUME NEW i \in 1..n PROVE sb[i] \in Infos
    OBVIOUS
  <2>1. first - 1 + i \in 1..Len(chain) /\ first - 1 + i > 0
    BY <1>1, <1>2, <1>5
  <2> HIDE DEF chain, first, n
  <2>2. chain[first - 1 + i] \in Block /\ chain[first - 1 + i].num = first - 1 + i
    BY <1>1, <1>2, <2>1, ElementOfSeq DEF Linked
  <2> QED
    BY <1>6, <2>1, <2>2 DEF Infos
<1> HIDE DEF chain
<1>9. sb \in Seq(Infos) /\ Len(sb) = n
  <2> HIDE DEF n
  <2> QED
    BY <1>5, <1>7, <1>8
<1>10. TrackedFrom(first, sb, View(m, tr))
  <2>1. View(m, tr).chain = chain /\ View(m, tr).irr = irr
    BY DEF View, chain, irr
  <2>2. first \in Nat \ {0} /\ (first = 1 \/ first <= irr)
    BY <1>1
  <2>3. first - 1 + Len(sb) <= Len(chain)
    BY <1>1, <1>5, <1>9, <2>2
  <2>4. sb = <<>> => first = 1
    <3>1. SUFFICES ASSUME Len(sb) = 0 PROVE first = 1
      BY EmptySeq
    <3> QED
      BY <1>1, <1>2, <1>9, <3>1
  <2> HIDE DEF first, n
  <2> QED
    BY <1>6, <1>9, <2>1, <2>2, <2>3, <2>4 DEF TrackedFrom
<1>11. LastNum(sb) = Len(chain)
  <2>1. View(m, tr).chain = chain
    BY DEF View, chain
  <2>2. LastNum(sb) = first - 1 + Len(sb)
    BY <1>1, <1>2, <1>9, <1>10, <2>1, TrackedLast
  <2> QED
    BY <1>1, <1>5, <1>9, <2>2
<1>12. [maxBlocksToSend |-> MaxBlocksToSend, irreversible |-> irr, blocks |-> sb] \in Asking
  BY <1>1, <1>9, BatchAssumption DEF Asking, Status, Infos
<1> QED
  BY <1>4, <1>10, <1>11, <1>12 DEF Tracked, chain
-----------------------------------------------------------------------------
(* processQueue: how far it comes, what it leaves in the queue, and what it *)
(* says of the client on the way.                                          *)
Asks(msg) == msg.type = "sendStatus"

UpAfter(u, ms, q, k) ==
  /\ u \in Seq(Asking)
  /\ (\A i \in 1..k : ~Asks(q[i])) => u = up
  /\ (k > 0 /\ Asks(q[k]) /\ ws = "open" /\ \A i \in 1..k - 1 : ~Asks(q[i])) =>
       u = Append(up, ClientStatus(ms[k]))

(* Of j messages of q, the first k have been handled.                      *)
Stage(s, ms, q, j, k) ==
  /\ s = [mem |-> ms[k], up |-> s.up, queue |-> s.queue, reading |-> s.reading,
          stopped |-> s.stopped]
  /\ UpAfter(s.up, ms, q, k)
  /\ \/ k = j /\ s.stopped = FALSE /\ s.queue = <<>> /\ s.reading = Null
     \/ /\ k < j /\ s.stopped = TRUE /\ s.queue = SubSeq(q, k + 2, j)
        /\ \/ q[k + 1].type = "block" /\ s.reading = q[k + 1].block
           \/ Asks(q[k + 1]) /\ ws = "connecting" /\ s.reading = Null

LEMMA HandleStage ==
  ASSUME NEW m, NEW tr, Good(m, tr), NEW q \in Seq(Msgs), NEW ms, IsRun(ms, m, q),
         up \in Seq(Asking), ws \in {"null", "connecting", "open"},
         NEW j \in Nat, j + 1 <= Len(q), NEW k \in 0..j, NEW s, Stage(s, ms, q, j, k)
  PROVE  \E k2 \in 0..j + 1 : Stage(Handle(s, q[j + 1]), ms, q, j + 1, k2)
<1> DEFINE msg == q[j + 1]
           u == s.up
<1>1. s = [mem |-> ms[k], up |-> u, queue |-> s.queue, reading |-> s.reading,
           stopped |-> s.stopped]
  BY DEF Stage
<1>2. msg \in Msgs /\ j + 1 \in 1..Len(q)
  BY ElementOfSeq
<1>3. k \in 0..j + 1 /\ j + 1 \in 0..j + 1 /\ (j + 1) - 1 = j /\ j \in 0..Len(q) /\ k \in Nat
  OBVIOUS
<1>4. ms[j + 1] = Handled(ms[j], msg)
  BY <1>2, <1>3 DEF IsRun
<1>5. UpAfter(u, ms, q, k)
  BY DEF Stage
<1> HIDE DEF u
<1>6. CASE s.stopped = TRUE
  <2>1. /\ k < j /\ s.queue = SubSeq(q, k + 2, j)
        /\ \/ q[k + 1].type = "block" /\ s.reading = q[k + 1].block
           \/ Asks(q[k + 1]) /\ ws = "connecting" /\ s.reading = Null
    BY <1>6 DEF Stage
  <2>2. Handle(s, msg) = [s EXCEPT !.queue = Append(@, msg)]
    BY <1>6 DEF Handle
  <2>3. Append(s.queue, msg) = SubSeq(q, k + 2, j + 1)
    <3> DEFINE a == Append(SubSeq(q, k + 2, j), msg)
               e == j + 1
               b == SubSeq(q, k + 2, e)
    <3>0. e \in Nat /\ e = j + 1 /\ e <= Len(q)
      BY <1>2
    <3> HIDE DEF e
    <3>1. k + 2 \in 1..Len(q) + 1 /\ j \in (k + 2) - 1..Len(q) /\ e \in (k + 2) - 1..Len(q)
      BY <1>2, <1>3, <2>1, <3>0
    <3>2. /\ SubSeq(q, k + 2, j) \in Seq(Msgs) /\ Len(SubSeq(q, k + 2, j)) = j - k - 1
          /\ \A i \in 1..j - k - 1 : SubSeq(q, k + 2, j)[i] = q[k + 1 + i]
      BY <1>2, <1>3, <2>1
    <3>3. /\ b \in Seq(Msgs) /\ Len(b) = j - k
          /\ \A i \in 1..j - k : b[i] = q[k + 1 + i]
      <4>1. /\ b \in Seq(Msgs) /\ Len(b) = e - (k + 2) + 1
            /\ \A i \in 1..e - (k + 2) + 1 : b[i] = q[(k + 2) + i - 1]
        BY <1>2, <1>3, <2>1, <3>0, <3>1
      <4>2. e - (k + 2) + 1 = j - k
        BY <1>3, <3>0
      <4>3. \A i \in 1..j - k : (k + 2) + i - 1 = k + 1 + i
        BY <1>3
      <4> HIDE DEF b
      <4> QED
        BY <4>1, <4>2, <4>3
    <3> HIDE DEF b, msg
    <3>4. /\ a \in Seq(Msgs) /\ Len(a) = j - k
          /\ \A i \in 1..j - k - 1 : a[i] = SubSeq(q, k + 2, j)[i]
          /\ a[j - k] = msg
      BY <1>2, <1>3, <2>1, <3>2, AppendProperties
    <3> HIDE DEF a
    <3>5. \A i \in 1..Len(a) : a[i] = b[i]
      <4> SUFFICES ASSUME NEW i \in 1..j - k PROVE a[i] = b[i]
        BY <3>4
      <4>1. CASE i = j - k
        <5>1. k + 1 + i = j + 1
          BY <1>3, <4>1
        <5> QED
          BY <3>3, <3>4, <4>1, <5>1 DEF msg
      <4>2. CASE i # j - k
        <5>1. i \in 1..j - k - 1
          BY <1>3, <2>1, <4>2
        <5> QED
          BY <3>2, <3>3, <3>4, <5>1
      <4> QED
        BY <4>1, <4>2
    <3>6. a = b
      BY <3>3, <3>4, <3>5, SeqEqual
    <3> QED
      BY <2>1, <3>6 DEF a, b, e
  <2>4. Handle(s, msg) = [mem |-> ms[k], up |-> u, queue |-> SubSeq(q, k + 2, j + 1),
                          reading |-> s.reading, stopped |-> TRUE]
    <3> DEFINE d == SubSeq(q, k + 2, j + 1)
    <3> HIDE DEF msg, d
    <3> DEFINE mk == ms[k]
               sq == s.queue
               sr == s.reading
    <3>1. s = [mem |-> mk, up |-> u, queue |-> sq, reading |-> sr, stopped |-> TRUE]
      BY <1>1, <1>6
    <3>2. Handle(s, msg) = [s EXCEPT !.queue = d]
      BY <2>2, <2>3 DEF d
    <3> HIDE DEF mk, sq, sr
    <3>3. Handle(s, msg) = [mem |-> mk, up |-> u, queue |-> d, reading |-> sr,
                            stopped |-> TRUE]
      BY <3>1, <3>2
    <3> QED
      BY <3>3 DEF d, mk, sr
  <2>5. k < j + 1
    BY <1>3, <2>1
  <2>6. Stage(Handle(s, msg), ms, q, j + 1, k)
    <3> DEFINE hs == Handle(s, msg)
    <3>1. /\ hs.mem = ms[k] /\ hs.up = u /\ hs.queue = SubSeq(q, k + 2, j + 1)
          /\ hs.reading = s.reading /\ hs.stopped = TRUE
      BY <2>4
    <3>2. hs = [mem |-> ms[k], up |-> hs.up, queue |-> hs.queue, reading |-> hs.reading,
                stopped |-> hs.stopped]
      BY <2>4
    <3> HIDE DEF hs
    <3>3. Stage(hs, ms, q, j + 1, k)
      BY <1>5, <2>1, <2>5, <3>1, <3>2 DEF Stage
    <3> QED
      BY <3>3 DEF hs
  <2> QED
    BY <1>3, <2>6
<1>7. CASE s.stopped = FALSE
  <2>1. k = j /\ s.queue = <<>> /\ s.reading = Null
    BY <1>7 DEF Stage
  <2>2. s = [mem |-> ms[j], up |-> u, queue |-> <<>>, reading |-> Null, stopped |-> FALSE]
    BY <1>1, <1>7, <2>1
  <2>3. UpAfter(u, ms, q, j)
    BY <1>5, <2>1
  <2>4. SubSeq(q, j + 2, j + 1) = <<>>
    BY <1>3
  <2> HIDE DEF msg
  <2>5. CASE msg \in [type : {"block"}, block : Decodable]
    <3>1. msg.type = "block"
      BY <2>5
    <3>2. Handle(s, msg) = [mem |-> ms[j], up |-> u, queue |-> <<>>, reading |-> msg.block,
                            stopped |-> TRUE]
      BY <2>2, <3>1 DEF Handle
    <3>3. Stage(Handle(s, msg), ms, q, j + 1, j)
      BY <1>3, <2>3, <2>4, <3>1, <3>2 DEF Stage, msg
    <3> QED
      BY <2>1, <3>3, <1>3 DEF msg
  <2>6. CASE \/ msg \in [type : {"setHead"}, head : Nat]
             \/ msg \in [type : {"setIrreversible"}, irreversible : {n \in UInt : n < MaxUInt}]
    <3>1. msg.type = "setHead" \/ msg.type = "setIrreversible"
      BY <2>6
    <3>2. Handle(s, msg) = [mem |-> Handled(ms[j], msg), up |-> u, queue |-> <<>>,
                            reading |-> Null, stopped |-> FALSE]
      BY <2>2, <3>1 DEF Handle, Handled
    <3>3. ~Asks(q[j + 1])
      BY <3>1 DEF Asks, msg
    <3>4. UpAfter(u, ms, q, j + 1)
      BY <1>3, <2>3, <3>3 DEF UpAfter
    <3>5. Stage(Handle(s, msg), ms, q, j + 1, j + 1)
      BY <1>4, <3>2, <3>4 DEF Stage
    <3> QED
      BY <1>3, <3>5 DEF msg
  <2>7. CASE msg \in [type : {"sendStatus"}]
    <3>1. msg.type = "sendStatus" /\ Asks(q[j + 1])
      BY <2>7 DEF Asks, msg
    <3>2. ms[j + 1] = ms[j]
      BY <1>4, <3>1 DEF Handled
    <3>3. CASE ws = "null"
      <4>1. Handle(s, msg) = s
        BY <2>2, <3>1, <3>3 DEF Handle
      <4>2. UpAfter(u, ms, q, j + 1)
        BY <1>3, <2>3, <3>1, <3>3 DEF UpAfter
      <4>3. Stage(Handle(s, msg), ms, q, j + 1, j + 1)
        BY <2>2, <3>2, <4>1, <4>2 DEF Stage
      <4> QED
        BY <1>3, <4>3 DEF msg
    <3>4. CASE ws = "open"
      <4>1. Handle(s, msg) = [mem |-> ms[j], up |-> Append(u, ClientStatus(ms[j])),
                              queue |-> <<>>, reading |-> Null, stopped |-> FALSE]
        BY <2>2, <3>1, <3>4 DEF Handle
      <4>2. ClientStatus(ms[j]) \in Asking
        <5>1. PICK ts : Good(ms[j], ts)
          BY <1>3, RunStaysGood
        <5> QED
          BY <5>1, StatusOfClient
      <4>3. Append(u, ClientStatus(ms[j])) \in Seq(Asking)
        BY <2>3, <4>2 DEF UpAfter
      <4>4. (\A i \in 1..j : ~Asks(q[i])) => u = up
        BY <2>3 DEF UpAfter
      <4>5. UpAfter(Append(u, ClientStatus(ms[j])), ms, q, j + 1)
        BY <1>3, <3>1, <3>2, <4>3, <4>4 DEF UpAfter
      <4>6. Stage(Handle(s, msg), ms, q, j + 1, j + 1)
        BY <3>2, <4>1, <4>5 DEF Stage
      <4> QED
        BY <1>3, <4>6 DEF msg
    <3>5. CASE ws = "connecting"
      <4>1. Handle(s, msg) = [mem |-> ms[j], up |-> u, queue |-> <<>>, reading |-> Null,
                              stopped |-> TRUE]
        BY <2>2, <3>1, <3>5 DEF Handle
      <4>2. Stage(Handle(s, msg), ms, q, j + 1, j)
        BY <1>3, <2>3, <2>4, <3>1, <3>5, <4>1 DEF Stage
      <4> QED
        BY <2>1, <4>2, <1>3 DEF msg
    <3> QED
      BY <3>3, <3>4, <3>5
  <2> QED
    BY <1>2, <2>5, <2>6, <2>7 DEF Msgs
<1> QED
  BY <1>6, <1>7 DEF Stage

Fresh(m) == [mem |-> m, up |-> up, queue |-> <<>>, reading |-> Null, stopped |-> FALSE]

LEMMA QueueStage ==
  ASSUME NEW m, NEW tr, Good(m, tr), NEW q \in Seq(Msgs), NEW ms, IsRun(ms, m, q),
         up \in Seq(Asking), ws \in {"null", "connecting", "open"}
  PROVE  \E k \in 0..Len(q) : Stage(HandleAll(Fresh(m), q), ms, q, Len(q), k)
<1> DEFINE n == Len(q)
<1>1. n \in Nat /\ DOMAIN q = 1..n
  OBVIOUS
<1>2. PICK h : /\ h[0] = Fresh(m)
               /\ \A k \in 1..n : h[k] = Handle(h[k - 1], q[k])
               /\ HandleAll(Fresh(m), q) = h[n]
  <2> DEFINE r == HandleAll(Fresh(m), q)
             base == Fresh(m)
  <2>1. r = HandleAll(base, q)
    OBVIOUS
  <2> HIDE DEF n, base, r
  <2>2. \E h : /\ h[0] = base
               /\ \A k \in 1..n : h[k] = Handle(h[k - 1], q[k])
               /\ r = h[n]
    BY <1>1, <2>1, HandleRun
  <2> QED
    BY <2>2 DEF base, r
<1> DEFINE S == {j \in Nat : j <= n => \E k \in 0..j : Stage(h[j], ms, q, j, k)}
<1>3. 0 \in S
  <2>1. ms[0] = m
    BY DEF IsRun
  <2>2. UpAfter(up, ms, q, 0)
    BY DEF UpAfter
  <2>3. Stage(h[0], ms, q, 0, 0)
    BY <1>2, <2>1, <2>2 DEF Stage, Fresh
  <2> QED
    BY <2>3
<1>4. ASSUME NEW j \in Nat, j \in S PROVE j + 1 \in S
  <2>1. SUFFICES ASSUME j + 1 <= n
                 PROVE  \E k \in 0..j + 1 : Stage(h[j + 1], ms, q, j + 1, k)
    OBVIOUS
  <2>2. j + 1 \in 1..n /\ (j + 1) - 1 = j /\ j <= n
    BY <2>1
  <2>3. PICK k \in 0..j : Stage(h[j], ms, q, j, k)
    BY <1>4, <2>2
  <2>4. h[j + 1] = Handle(h[j], q[j + 1])
    BY <1>2, <2>2
  <2> QED
    BY <2>1, <2>3, <2>4, HandleStage
<1>5. \A j \in Nat : j \in S
  <2> HIDE DEF S
  <2> QED
    BY <1>3, <1>4, NatInductionOnSet
<1> QED
  BY <1>1, <1>2, <1>5
-----------------------------------------------------------------------------
(* What the box finds in a status *)

(* An id tells all that comes before a block.                              *)
LEMMA SameBehind ==
  ASSUME NEW a \in Seq(Block), NEW b \in Seq(Block), Linked(a), Linked(b),
         NEW k \in Nat, k <= Len(a), k <= Len(b), k > 0 => a[k].id = b[k].id
  PROVE  \A i \in 1..k : a[i] = b[i]
<1> DEFINE S == {d \in Nat : d < k => a[k - d] = b[k - d]}
<1>1. \A i \in 1..k : a[i] \in Block /\ b[i] \in Block
  BY ElementOfSeq
<1>2. \A i \in 1..k : a[i].id = b[i].id => a[i] = b[i]
  BY <1>1, HashAssumption
<1>3. 0 \in S
  <2>1. k > 0 => k \in 1..k
    OBVIOUS
  <2> QED
    BY <1>2, <2>1
<1>4. ASSUME NEW d \in Nat, d \in S PROVE d + 1 \in S
  <2>1. SUFFICES ASSUME d + 1 < k PROVE a[k - (d + 1)] = b[k - (d + 1)]
    OBVIOUS
  <2> DEFINE j == k - d
  <2>2. /\ j \in 1..Len(a) /\ j \in 1..Len(b) /\ j > 1 /\ j - 1 \in 1..k
        /\ k - (d + 1) = j - 1
    BY <2>1
  <2>3. a[j] = b[j]
    BY <1>4, <2>1
  <2> HIDE DEF j
  <2>4. a[j].previous = a[j - 1].id /\ b[j].previous = b[j - 1].id
    BY <2>2 DEF Linked
  <2> QED
    BY <1>2, <2>2, <2>3, <2>4
<1>5. \A d \in Nat : d \in S
  <2> HIDE DEF S
  <2> QED
    BY <1>3, <1>4, NatInductionOnSet
<1> SUFFICES ASSUME NEW i \in 1..k PROVE a[i] = b[i]
  OBVIOUS
<1>6. k - i \in Nat /\ k - i < k /\ k - (k - i) = i
  OBVIOUS
<1> QED
  BY <1>5, <1>6

LEMMA MaxOrZero ==
  ASSUME NEW n \in Nat, NEW s \in SUBSET (1..n)
  PROVE  /\ Max({0} \cup s) \in 0..n
         /\ Max({0} \cup s) > 0 => Max({0} \cup s) \in s
         /\ \A y \in s : y <= Max({0} \cup s)
<1> DEFINE z == {0} \cup s
           T == {m \in Nat : n - m \in z}
<1>1. \A x \in z : x \in 0..n /\ n - x \in T /\ n - (n - x) = x
  OBVIOUS
<1>2. T \in SUBSET Nat /\ T # {}
  BY <1>1
<1> HIDE DEF T
<1>3. PICK m \in T : \A l \in T : m <= l
  BY <1>2, LeastNatural
<1>4. m \in Nat /\ n - m \in z
  BY <1>3 DEF T
<1>5. \A y \in z : n - m >= y
  <2>1. SUFFICES ASSUME NEW y \in z PROVE n - m >= y
    OBVIOUS
  <2>2. y \in 0..n /\ m <= n - y
    BY <1>1, <1>3
  <2> QED
    BY <1>4, <2>2
<1>6. \E x \in z : \A y \in z : x >= y
  BY <1>4, <1>5
<1>7. Max(z) \in z /\ \A y \in z : Max(z) >= y
  <2> HIDE DEF z
  <2> QED
    BY <1>6 DEF Max
<1> DEFINE x == Max(z)
<1> HIDE DEF x
<1>8. x \in z /\ \A y \in z : x >= y
  BY <1>7 DEF x
<1>9. x \in 0..n /\ (x > 0 => x \in s) /\ \A y \in s : y <= x
  BY <1>1, <1>8
<1> QED
  BY <1>9 DEF x

LEMMA MinOfTwo ==
  ASSUME NEW a \in Nat, NEW b \in Nat
  PROVE  Min({a, b}) = IF a <= b THEN a ELSE b
<1>1. \E x \in {a, b} : \A y \in {a, b} : x <= y
  OBVIOUS
<1> QED
  BY <1>1 DEF Min

LEMMA MaxOfTwo ==
  ASSUME NEW a \in Int, NEW b \in Int
  PROVE  Max({a, b}) = IF a <= b THEN b ELSE a
<1>1. \E x \in {a, b} : \A y \in {a, b} : x >= y
  OBVIOUS
<1> QED
  BY <1>1 DEF Max

OnBox(sb, log, i) == sb[i].num <= Len(log) /\ sb[i].id = log[sb[i].num].id

(* The box keeps of a status what comes up to its last block that it has.  *)
IsShared(kept, sb, log) ==
  /\ kept \in 0..Len(sb)
  /\ Shared(sb, log) = SubSeq(sb, 1, kept)
  /\ kept > 0 => OnBox(sb, log, kept)
  /\ \A i \in kept + 1..Len(sb) : ~OnBox(sb, log, i)

LEMMA SharedKeeps ==
  ASSUME NEW sb \in Seq(Infos), NEW log
  PROVE  \E kept : IsShared(kept, sb, log)
<1> DEFINE n == Len(sb)
           s == {i \in 1..n : OnBox(sb, log, i)}
           kept == Max({0} \cup s)
<1>1. n \in Nat /\ s \in SUBSET (1..n)
  OBVIOUS
<1>2. Shared(sb, log) = SubSeq(sb, 1, kept)
  BY DEF Shared, OnBox
<1>3. /\ kept \in 0..n
      /\ kept > 0 => kept \in s
      /\ \A y \in s : y <= kept
  <2> HIDE DEF s, n
  <2> QED
    BY <1>1, MaxOrZero
<1>4. kept > 0 => OnBox(sb, log, kept)
  <2> HIDE DEF kept
  <2> QED
    BY <1>3
<1>5. \A i \in kept + 1..n : ~OnBox(sb, log, i)
  <2> HIDE DEF kept
  <2> SUFFICES ASSUME NEW i \in kept + 1..n, OnBox(sb, log, i) PROVE FALSE
    OBVIOUS
  <2>1. i \in s
    BY <1>1, <1>3
  <2> QED
    BY <1>1, <1>3, <2>1
<1> HIDE DEF kept
<1> QED
  BY <1>2, <1>3, <1>4, <1>5 DEF IsShared

LEMMA SharedEnds ==
  ASSUME NEW sb \in Seq(Infos), NEW log \in Seq(Block), NEW kept, IsShared(kept, sb, log)
  PROVE  /\ Shared(sb, log) \in Seq(Infos) /\ Len(Shared(sb, log)) = kept
         /\ \A i \in 1..kept : Shared(sb, log)[i] = sb[i]
         /\ kept \in Nat
         /\ LastNum(Shared(sb, log)) = IF kept = 0 THEN 0 ELSE sb[kept].num
         /\ LastNum(Shared(sb, log)) \in 0..Len(log)
<1> DEFINE sh == Shared(sb, log)
<1>1. kept \in Nat /\ kept <= Len(sb) /\ Len(sb) \in Nat
  BY DEF IsShared
<1>2. sh = SubSeq(sb, 1, kept)
  BY DEF IsShared
<1>3. sh \in Seq(Infos) /\ Len(sh) = kept /\ \A i \in 1..kept : sh[i] = sb[i]
  <2> HIDE DEF sh
  <2> QED
    BY <1>1, <1>2
<1> HIDE DEF sh
<1>4. LastNum(sh) = IF kept = 0 THEN 0 ELSE sb[kept].num
  <2>1. CASE kept = 0
    BY <1>3, <2>1, EmptySeq DEF LastNum
  <2>2. CASE kept # 0
    <3>1. sh # <<>> /\ kept \in 1..kept
      BY <1>1, <1>3, <2>2, EmptySeq
    <3> QED
      BY <1>3, <2>2, <3>1 DEF LastNum, Last
  <2> QED
    BY <2>1, <2>2
<1>5. LastNum(sh) \in 0..Len(log)
  <2>1. CASE kept = 0
    BY <1>4, <2>1
  <2>2. CASE kept # 0
    <3>1. sb[kept].num <= Len(log)
      BY <1>1, <2>2 DEF IsShared, OnBox
    <3>2. sb[kept] \in Infos
      BY <1>1, <2>2, ElementOfSeq
    <3>3. sb[kept].num \in Nat
      BY <3>2, BlockAssumption, WidthAssumption DEF Infos, Info, UInt
    <3> QED
      BY <1>4, <2>2, <3>1, <3>3
  <2> QED
    BY <2>1, <2>2
<1> QED
  BY <1>1, <1>3, <1>4, <1>5 DEF sh

LEMMA SharedInLog ==
  ASSUME NEW sb \in Seq(Infos), NEW log \in Seq(Block)
  PROVE  Shared(sb, log) \in Seq(Infos) /\ LastNum(Shared(sb, log)) \in Nat
<1>1. PICK kept : IsShared(kept, sb, log)
  BY SharedKeeps
<1>2. Shared(sb, log) \in Seq(Infos) /\ LastNum(Shared(sb, log)) \in 0..Len(log)
  BY <1>1, SharedEnds
<1> QED
  BY <1>2
-----------------------------------------------------------------------------
(* What the client makes of the messages of the box *)

(* The box's log decodes and agrees with what is final.                    *)
BoxSound(memory, final) ==
  /\ Good(memory, <<>>)
  /\ \A i \in 1..Len(memory.blocks) : ~Undecodable(memory.blocks[i])
  /\ memory.irreversible < MaxUInt
  /\ final \in Seq(Block)
  /\ memory.irreversible <= Len(final)
  /\ \A i \in 1..Len(final) : i <= Len(memory.blocks) => memory.blocks[i] = final[i]

LEMMA BoxLog ==
  ASSUME NEW memory, NEW final, BoxSound(memory, final)
  PROVE  /\ memory.blocks \in Seq(Block) /\ Len(memory.blocks) \in Nat
         /\ Linked(memory.blocks) /\ SortedByEosioNum(memory.blocks)
         /\ memory.irreversible \in Nat /\ memory.irreversible <= Len(memory.blocks)
         /\ getIrreversible(memory) = memory.irreversible
         /\ \A i \in 1..Len(memory.blocks) :
              memory.blocks[i] \in Decodable /\ memory.blocks[i].num = i
<1>1. Good(memory, <<>>) /\ Inv(memory, <<>>)
  BY DEF BoxSound, Good
<1>2. memory.blocks \in Seq(Block) /\ Len(memory.blocks) \in Nat
      /\ memory.irreversible \in Nat
  BY <1>1, LogInChain
<1>3. ChainOf(memory, <<>>) = memory.blocks
  BY <1>2, ConcatEmptySeq DEF ChainOf
<1>4. Linked(memory.blocks) /\ SortedByEosioNum(memory.blocks)
      /\ memory.irreversible <= Len(memory.blocks)
  BY <1>1, <1>3 DEF Inv, Irreversible
<1>5. getIrreversible(memory) = memory.irreversible
  BY <1>1, IrreversibleIsNamed
<1>6. \A i \in 1..Len(memory.blocks) : memory.blocks[i] \in Block
  BY <1>2, ElementOfSeq
<1>7. \A i \in 1..Len(memory.blocks) : memory.blocks[i] \in Decodable
  BY <1>6 DEF Decodable, BoxSound
<1>8. \A i \in 1..Len(memory.blocks) : memory.blocks[i].num = i
  BY <1>4 DEF Linked
<1> QED
  BY <1>2, <1>4, <1>5, <1>7, <1>8

(* Up to k, the client's chain is the box's log.                           *)
Follows(v, log, k, final) ==
  /\ Sound(v, final)
  /\ k \in Nat /\ k <= Len(v.chain) /\ k <= Len(log)
  /\ \A i \in 1..k : v.chain[i] = log[i]

BlockMsg(b) == [type |-> "block", block |-> b]

LEMMA BlockFollows ==
  ASSUME NEW memory, NEW final, BoxSound(memory, final),
         NEW v, NEW k, Follows(v, memory.blocks, k, final), k + 1 <= Len(memory.blocks)
  PROVE  LET v2 == Heard(v, BlockMsg(memory.blocks[k + 1])) IN
         /\ Follows(v2, memory.blocks, k + 1, final)
         /\ v2.irr = v.irr
         /\ v.irr <= k /\ (k < Len(v.chain) => v.chain[k + 1] # memory.blocks[k + 1]) =>
              Len(v2.chain) = k + 1
<1> DEFINE log == memory.blocks
           b == log[k + 1]
           c == v.chain
           v2 == Heard(v, BlockMsg(b))
<1>1. /\ log \in Seq(Block) /\ Len(log) \in Nat /\ Linked(log)
      /\ \A i \in 1..Len(log) : log[i] \in Decodable /\ log[i].num = i
  BY BoxLog
<1>2. /\ c \in Seq(Block) /\ Len(c) \in Nat /\ Linked(c) /\ SortedByEosioNum(c)
      /\ v.irr \in Nat /\ v.irr <= Len(c) /\ v.irr <= Len(final)
      /\ \A i \in 1..v.irr : c[i] = final[i]
      /\ k \in Nat /\ k <= Len(c)
      /\ \A i \in 1..k : c[i] = log[i]
  BY DEF Follows, Sound
<1>3. /\ final \in Seq(Block) /\ Len(final) \in Nat
      /\ \A i \in 1..Len(final) : i <= Len(log) => log[i] = final[i]
  BY DEF BoxSound
<1> HIDE DEF log, c
<1>4. k + 1 \in 1..Len(log) /\ k + 1 <= Len(log)
  BY <1>1, <1>2 DEF log
<1>5. b \in Block /\ b.num = k + 1 /\ b.num \in Nat /\ b.num - 1 = k
  BY <1>1, <1>2, <1>4 DEF Decodable
<1>6. k > 0 => b.previous = c[k].id
  <2>1. SUFFICES ASSUME k > 0 PROVE b.previous = c[k].id
    OBVIOUS
  <2>2. (k + 1) - 1 = k /\ k \in 1..k /\ k + 1 > 1
    BY <1>2, <2>1
  <2>3. b.previous = log[k].id
    BY <1>1, <1>4, <2>2 DEF Linked
  <2> QED
    BY <1>2, <2>2, <2>3
<1>7. BlockMsg(b).type = "block" /\ BlockMsg(b).block = b
  BY DEF BlockMsg
<1> HIDE DEF b
<1>8. CASE Takes(c, v.irr, b)
  <2> DEFINE c2 == Append(SubSeq(c, 1, k), b)
  <2>1. v2 = [chain |-> c2, irr |-> v.irr]
    BY <1>5, <1>7, <1>8 DEF Heard, c
  <2>2. v.irr <= k
    BY <1>2, <1>5, <1>8 DEF Takes
  <2>3. /\ c2 \in Seq(Block) /\ Len(c2) = k + 1 /\ c2[k + 1] = b
        /\ \A i \in 1..k : c2[i] = c[i]
        /\ Linked(c2) /\ SortedByEosioNum(c2)
    <3>1. k \in 0..Len(c)
      BY <1>2
    <3> QED
      BY <1>2, <1>5, <1>6, <3>1, ExtendChain
  <2> HIDE DEF c2, v2
  <2>4. v2.chain = c2 /\ v2.irr = v.irr
    BY <2>1
  <2>5. Sound(v2, final)
    BY <1>2, <2>2, <2>3, <2>4 DEF Sound
  <2>6. \A i \in 1..k + 1 : c2[i] = log[i]
    <3> SUFFICES ASSUME NEW i \in 1..k + 1 PROVE c2[i] = log[i]
      OBVIOUS
    <3>1. CASE i = k + 1
      BY <2>3, <3>1 DEF b
    <3>2. CASE i # k + 1
      <4>1. i \in 1..k
        BY <1>2, <3>2
      <4> QED
        BY <1>2, <2>3, <4>1
    <3> QED
      BY <3>1, <3>2
  <2>7. Follows(v2, log, k + 1, final)
    BY <1>2, <1>4, <2>3, <2>4, <2>5, <2>6 DEF Follows
  <2> QED
    BY <2>3, <2>4, <2>7 DEF v2, log, b
<1>9. CASE ~Takes(c, v.irr, b)
  <2>1. v2 = v
    BY <1>7, <1>9 DEF Heard, c
  <2>2. k + 1 <= v.irr \/ (k + 1 <= Len(c) /\ b = c[k + 1])
    BY <1>2, <1>5, <1>6, <1>9 DEF Takes
  <2>3. k + 1 <= v.irr => b = c[k + 1]
    <3>1. SUFFICES ASSUME k + 1 <= v.irr PROVE b = c[k + 1]
      OBVIOUS
    <3>2. k + 1 \in 1..v.irr /\ k + 1 \in 1..Len(final)
      BY <1>2, <1>3, <3>1
    <3> QED
      BY <1>2, <1>3, <1>4, <3>2 DEF b
  <2>4. k + 1 <= Len(c) /\ b = c[k + 1]
    BY <1>2, <2>2, <2>3
  <2>5. \A i \in 1..k + 1 : c[i] = log[i]
    <3> SUFFICES ASSUME NEW i \in 1..k + 1 PROVE c[i] = log[i]
      OBVIOUS
    <3>1. CASE i = k + 1
      BY <2>4, <3>1 DEF b
    <3>2. CASE i # k + 1
      <4>1. i \in 1..k
        BY <1>2, <3>2
      <4> QED
        BY <1>2, <4>1
    <3> QED
      BY <3>1, <3>2
  <2>6. Follows(v, log, k + 1, final)
    BY <1>2, <1>4, <2>4, <2>5 DEF Follows, c
  <2>7. (v.irr <= k /\ (k < Len(c) => c[k + 1] # b)) => FALSE
    BY <1>2, <2>2, <2>4
  <2> HIDE DEF v2
  <2>8. /\ Follows(v2, log, k + 1, final) /\ v2.irr = v.irr
        /\ v.irr <= k /\ (k < Len(c) => c[k + 1] # b) => Len(v2.chain) = k + 1
    BY <2>1, <2>6, <2>7
  <2> QED
    BY <2>8 DEF v2, log, b, c
<1> QED
  BY <1>8, <1>9

LEMMA FinalFollows ==
  ASSUME NEW memory, NEW final, BoxSound(memory, final),
         NEW v, NEW k, Follows(v, memory.blocks, k, final),
         NEW j \in Nat, j <= k, j <= memory.irreversible
  PROVE  LET v2 == Heard(v, [type |-> "setIrreversible", irreversible |-> j]) IN
         /\ Follows(v2, memory.blocks, k, final)
         /\ v2.irr = v.irr \/ v2.irr = j
         /\ v2.chain = v.chain
<1> DEFINE log == memory.blocks
           c == v.chain
           msg == [type |-> "setIrreversible", irreversible |-> j]
           v2 == Heard(v, msg)
<1>1. log \in Seq(Block) /\ Len(log) \in Nat /\ memory.irreversible \in Nat
  BY BoxLog
<1>2. /\ c \in Seq(Block) /\ Len(c) \in Nat /\ Linked(c) /\ SortedByEosioNum(c)
      /\ v.irr \in Nat /\ v.irr <= Len(c) /\ v.irr <= Len(final)
      /\ \A i \in 1..v.irr : c[i] = final[i]
      /\ k \in Nat /\ k <= Len(c) /\ k <= Len(log)
      /\ \A i \in 1..k : c[i] = log[i]
  BY DEF Follows, Sound
<1>3. /\ final \in Seq(Block) /\ Len(final) \in Nat
      /\ \A i \in 1..Len(final) : i <= Len(log) => log[i] = final[i]
      /\ memory.irreversible <= Len(final)
  BY DEF BoxSound
<1>4. v2 = [chain |-> c, irr |-> FinalTo(c, v.irr, j)]
  BY DEF Heard
<1> HIDE DEF log, c
<1>5. FinalTo(c, v.irr, j) = IF j <= v.irr THEN v.irr ELSE j
  BY <1>2 DEF FinalTo
<1>6. \A i \in 1..j : c[i] = final[i]
  <2> SUFFICES ASSUME NEW i \in 1..j PROVE c[i] = final[i]
    OBVIOUS
  <2>1. i \in 1..k /\ i \in 1..Len(final) /\ i <= Len(log)
    BY <1>1, <1>2, <1>3
  <2> QED
    BY <1>2, <1>3, <2>1
<1> HIDE DEF v2
<1>7. v2.chain = c /\ v2.irr = IF j <= v.irr THEN v.irr ELSE j
  BY <1>4, <1>5
<1>8. j <= Len(final) /\ j <= Len(c)
  BY <1>1, <1>2, <1>3
<1>9. Sound(v2, final)
  BY <1>2, <1>6, <1>7, <1>8 DEF Sound
<1>10. Follows(v2, log, k, final)
  BY <1>2, <1>7, <1>9 DEF Follows
<1> QED
  BY <1>7, <1>10 DEF v2, log, c

LEMMA HeadFollows ==
  ASSUME NEW log, NEW final, NEW v, NEW k, Follows(v, log, k, final)
  PROVE  LET v2 == Heard(v, [type |-> "setHead", head |-> k]) IN
         /\ Follows(v2, log, k, final)
         /\ v2.irr = v.irr
         /\ v.irr <= k => Len(v2.chain) = k
<1> DEFINE c == v.chain
           msg == [type |-> "setHead", head |-> k]
           v2 == Heard(v, msg)
<1>1. /\ c \in Seq(Block) /\ Len(c) \in Nat /\ Linked(c) /\ SortedByEosioNum(c)
      /\ v.irr \in Nat /\ v.irr <= Len(c) /\ v.irr <= Len(final)
      /\ \A i \in 1..v.irr : c[i] = final[i]
      /\ k \in Nat /\ k <= Len(c) /\ k <= Len(log)
      /\ \A i \in 1..k : c[i] = log[i]
  BY DEF Follows, Sound
<1>2. v2 = [chain |-> UndoneByNum(c, v.irr, k + 1), irr |-> v.irr]
  BY DEF Heard
<1> HIDE DEF c, v2
<1>3. CASE k + 1 > v.irr /\ k + 1 <= Len(c)
  <2> DEFINE cut == SubSeq(c, 1, k)
  <2>1. UndoneByNum(c, v.irr, k + 1) = cut
    <3>1. (k + 1) - 1 = k
      BY <1>1
    <3> QED
      BY <1>3, <3>1 DEF UndoneByNum
  <2>2. /\ cut \in Seq(Block) /\ Len(cut) = k /\ \A i \in 1..k : cut[i] = c[i]
        /\ Linked(cut) /\ SortedByEosioNum(cut)
    <3>1. k \in 0..Len(c)
      BY <1>1
    <3> QED
      BY <1>1, <3>1, CutChain
  <2> HIDE DEF cut
  <2>3. v2.chain = cut /\ v2.irr = v.irr
    BY <1>2, <2>1
  <2>4. Sound(v2, final)
    BY <1>1, <1>3, <2>2, <2>3 DEF Sound
  <2>5. Follows(v2, log, k, final)
    BY <1>1, <2>2, <2>3, <2>4 DEF Follows
  <2> QED
    BY <2>2, <2>3, <2>5 DEF v2
<1>4. CASE ~(k + 1 > v.irr /\ k + 1 <= Len(c))
  <2>1. v2.chain = c /\ v2.irr = v.irr
    BY <1>2, <1>4 DEF UndoneByNum
  <2>2. Follows(v2, log, k, final)
    BY <1>1, <2>1 DEF Follows, Sound
  <2>3. v.irr <= k => Len(c) = k
    BY <1>1, <1>4
  <2> QED
    BY <2>1, <2>2, <2>3 DEF v2
<1> QED
  BY <1>3, <1>4
-----------------------------------------------------------------------------
(* The loop in which the box sends blocks *)

Quiet(q) == q \in Seq(Msgs) /\ \A i \in 1..Len(q) : ~Asks(q[i])

LEMMA QuietConcat ==
  ASSUME NEW q, NEW r, Quiet(q), Quiet(r)
  PROVE  Quiet(q \o r)
<1>1. /\ q \in Seq(Msgs) /\ r \in Seq(Msgs) /\ Len(q) \in Nat /\ Len(r) \in Nat
      /\ \A i \in 1..Len(q) : ~Asks(q[i])
      /\ \A i \in 1..Len(r) : ~Asks(r[i])
  BY DEF Quiet
<1>2. /\ q \o r \in Seq(Msgs) /\ Len(q \o r) = Len(q) + Len(r)
      /\ \A i \in 1..Len(q) + Len(r) :
           (q \o r)[i] = IF i <= Len(q) THEN q[i] ELSE r[i - Len(q)]
  BY <1>1, ConcatProperties
<1> SUFFICES ASSUME NEW i \in 1..Len(q) + Len(r) PROVE ~Asks((q \o r)[i])
  BY <1>2 DEF Quiet
<1>3. CASE i <= Len(q)
  <2>1. i \in 1..Len(q)
    BY <1>1, <1>3
  <2> QED
    BY <1>1, <1>2, <1>3, <2>1
<1>4. CASE ~(i <= Len(q))
  <2>1. i - Len(q) \in 1..Len(r)
    BY <1>1, <1>4
  <2> QED
    BY <1>1, <1>2, <1>4, <2>1
<1> QED
  BY <1>3, <1>4

FinalMsg(j) == [type |-> "setIrreversible", irreversible |-> j]

NewMsgs(memory, irreversible, b) ==
  LET j == Min({getIrreversible(memory), b.num})
  IN  IF j > irreversible THEN <<BlockMsg(b), FinalMsg(j)>> ELSE <<BlockMsg(b)>>

LEMMA MsgsQuiet ==
  /\ \A b \in Decodable : BlockMsg(b) \in Msgs /\ ~Asks(BlockMsg(b))
  /\ \A j \in UInt : j < MaxUInt => FinalMsg(j) \in Msgs /\ ~Asks(FinalMsg(j))
<1>1. ASSUME NEW b \in Decodable PROVE BlockMsg(b) \in Msgs /\ ~Asks(BlockMsg(b))
  BY DEF BlockMsg, Msgs, Asks
<1>2. ASSUME NEW j \in UInt, j < MaxUInt PROVE FinalMsg(j) \in Msgs /\ ~Asks(FinalMsg(j))
  BY <1>2 DEF FinalMsg, Msgs, Asks
<1> QED
  BY <1>1, <1>2

LEMMA BoxNumber ==
  ASSUME NEW memory, NEW final, BoxSound(memory, final),
         NEW k \in Nat, k + 1 <= Len(memory.blocks)
  PROVE  LET b == memory.blocks[k + 1]
             j == Min({getIrreversible(memory), b.num})
         IN  /\ b \in Decodable /\ b \in Block /\ b.num = k + 1
             /\ j = IF memory.irreversible <= k + 1 THEN memory.irreversible ELSE k + 1
             /\ j \in Nat /\ j \in UInt /\ j < MaxUInt
<1> DEFINE b == memory.blocks[k + 1]
           j == Min({getIrreversible(memory), b.num})
<1>1. /\ memory.blocks \in Seq(Block) /\ Len(memory.blocks) \in Nat
      /\ memory.irreversible \in Nat
      /\ getIrreversible(memory) = memory.irreversible
      /\ \A i \in 1..Len(memory.blocks) :
           memory.blocks[i] \in Decodable /\ memory.blocks[i].num = i
  BY BoxLog
<1>2. k + 1 \in 1..Len(memory.blocks) /\ k + 1 \in Nat
  BY <1>1
<1>3. b \in Decodable /\ b \in Block /\ b.num = k + 1
  BY <1>1, <1>2 DEF Decodable
<1> HIDE DEF b
<1>4. j = IF memory.irreversible <= k + 1 THEN memory.irreversible ELSE k + 1
  BY <1>1, <1>2, <1>3, MinOfTwo
<1>5. memory.irreversible < MaxUInt
  BY DEF BoxSound
<1> HIDE DEF j
<1>6. j \in Nat /\ j \in UInt /\ j < MaxUInt
  BY <1>1, <1>2, <1>4, <1>5, WidthAssumption DEF UInt
<1> QED
  BY <1>3, <1>4, <1>6 DEF b, j

LEMMA NewMsgsQuiet ==
  ASSUME NEW memory, NEW final, BoxSound(memory, final), NEW irreversible,
         NEW k \in Nat, k + 1 <= Len(memory.blocks)
  PROVE  Quiet(NewMsgs(memory, irreversible, memory.blocks[k + 1]))
<1> DEFINE b == memory.blocks[k + 1]
           j == Min({getIrreversible(memory), b.num})
<1>1. b \in Decodable /\ j \in UInt /\ j < MaxUInt
  BY BoxNumber
<1>2. NewMsgs(memory, irreversible, b) =
        IF j > irreversible THEN <<BlockMsg(b), FinalMsg(j)>> ELSE <<BlockMsg(b)>>
  BY DEF NewMsgs
<1> HIDE DEF b, j
<1> DEFINE x == BlockMsg(b)
           y == FinalMsg(j)
<1>3. x \in Msgs /\ ~Asks(x) /\ y \in Msgs /\ ~Asks(y)
  BY <1>1, MsgsQuiet
<1> HIDE DEF x, y
<1>4. Quiet(<<x>>) /\ Quiet(<<x, y>>)
  BY <1>3 DEF Quiet
<1> QED
  BY <1>2, <1>4 DEF x, y, b

(* Above k, the client's chain is not final and not the box's.             *)
Parts(v, log, k) ==
  v.irr <= k /\ (k < Len(v.chain) /\ k < Len(log) => v.chain[k + 1] # log[k + 1])

RoundTo(memory, irreversible, v, k, v2, final) ==
  /\ Leads(v, NewMsgs(memory, irreversible, memory.blocks[k + 1]), v2, final)
  /\ Follows(v2, memory.blocks, k + 1, final)
  /\ Parts(v, memory.blocks, k) =>
       Parts(v2, memory.blocks, k + 1) /\ Len(v2.chain) = k + 1

LEMMA RoundLeads ==
  ASSUME NEW memory, NEW final, BoxSound(memory, final), NEW irreversible,
         NEW v, NEW k, Follows(v, memory.blocks, k, final), k + 1 <= Len(memory.blocks)
  PROVE  \E v2 : RoundTo(memory, irreversible, v, k, v2, final)
<1> DEFINE log == memory.blocks
           b == log[k + 1]
           j == Min({getIrreversible(memory), b.num})
           x == BlockMsg(b)
           y == FinalMsg(j)
           v2 == Heard(v, x)
           v3 == Heard(v2, y)
<1>1. k \in Nat /\ Sound(v, final)
  BY DEF Follows
<1>2. /\ b \in Decodable /\ j \in Nat /\ j \in UInt /\ j < MaxUInt
      /\ j = IF memory.irreversible <= k + 1 THEN memory.irreversible ELSE k + 1
  BY <1>1, BoxNumber
<1>3. /\ Follows(v2, log, k + 1, final)
      /\ v2.irr = v.irr
      /\ v.irr <= k /\ (k < Len(v.chain) => v.chain[k + 1] # log[k + 1]) =>
           Len(v2.chain) = k + 1
  BY BlockFollows
<1>4. memory.irreversible \in Nat /\ Len(log) \in Nat /\ v.irr \in Nat
  BY BoxLog, <1>1 DEF Sound
<1>5. NewMsgs(memory, irreversible, b) = IF j > irreversible THEN <<x, y>> ELSE <<x>>
  BY DEF NewMsgs
<1> HIDE DEF v2, b, j
<1>6. /\ Follows(v3, log, k + 1, final)
      /\ v3.irr = v2.irr \/ v3.irr = j
      /\ v3.chain = v2.chain
  <2>1. j <= k + 1 /\ j <= memory.irreversible
    BY <1>1, <1>2, <1>4
  <2> QED
    BY <1>2, <1>3, <2>1, FinalFollows DEF FinalMsg
<1>7. x \in Msgs /\ y \in Msgs
  BY <1>2, MsgsQuiet
<1>8. Sound(v2, final) /\ Sound(v3, final)
  BY <1>3, <1>6 DEF Follows
<1>9. Leads(v, <<x>>, v2, final) /\ Leads(v2, <<y>>, v3, final)
  <2>1. Sound(Heard(v, x), final)
    BY <1>8 DEF v2
  <2>2. Leads(v, <<x>>, Heard(v, x), final)
    BY <1>1, <1>7, <2>1, LeadsByOne
  <2>3. Leads(v2, <<y>>, Heard(v2, y), final)
    BY <1>7, <1>8, LeadsByOne
  <2> QED
    BY <2>2, <2>3 DEF v2
<1> HIDE DEF log, v3, x, y
<1>10. Leads(v, <<x, y>>, v3, final)
  <2>1. <<x>> \o <<y>> = <<x, y>> /\ <<x>> \in Seq(Msgs) /\ <<y>> \in Seq(Msgs)
    <3>1. <<x>> \in Seq(Msgs) /\ <<y>> \in Seq(Msgs)
      BY <1>7
    <3>2. Append(<<x>>, y) = <<x>> \o <<y>>
      BY <1>7, <3>1, AppendIsConcat
    <3>3. Append(<<x>>, y) = <<x, y>>
      <4> DEFINE s == Append(<<x>>, y)
                 t == <<x, y>>
      <4>1. Len(<<x>>) = 1 /\ <<x>>[1] = x
        OBVIOUS
      <4>2. s \in Seq(Msgs) /\ Len(s) = 2 /\ s[1] = x /\ s[2] = y
        BY <1>7, <3>1, <4>1, AppendProperties
      <4>3. t \in Seq(Msgs) /\ Len(t) = 2 /\ t[1] = x /\ t[2] = y
        BY <1>7
      <4> HIDE DEF s, t
      <4>4. \A i \in 1..Len(s) : s[i] = t[i]
        <5>1. 1..2 = {1, 2}
          OBVIOUS
        <5> QED
          BY <4>2, <4>3, <5>1
      <4>5. s = t
        BY <4>2, <4>3, <4>4, SeqEqual
      <4> QED
        BY <4>5 DEF s, t
    <3> QED
      BY <3>1, <3>2, <3>3
  <2>2. Leads(v, <<x>> \o <<y>>, v3, final)
    BY <1>9, <2>1, LeadsFurther
  <2> QED
    BY <2>1, <2>2
<1>11. Parts(v, log, k) =>
         /\ Len(v2.chain) = k + 1 /\ v2.irr <= k + 1
         /\ Len(v3.chain) = k + 1 /\ v3.irr <= k + 1
  <2>1. k < Len(log)
    BY <1>1, <1>4 DEF log
  <2> QED
    BY <1>1, <1>2, <1>3, <1>4, <1>6, <2>1 DEF Parts
<1>12. Parts(v, log, k) =>
         /\ Parts(v2, log, k + 1) /\ Len(v2.chain) = k + 1
         /\ Parts(v3, log, k + 1) /\ Len(v3.chain) = k + 1
  BY <1>1, <1>11 DEF Parts
<1>13. CASE j > irreversible
  BY <1>5, <1>6, <1>10, <1>12, <1>13 DEF log, b, RoundTo
<1>14. CASE ~(j > irreversible)
  BY <1>3, <1>5, <1>9, <1>12, <1>14 DEF log, b, RoundTo
<1> QED
  BY <1>13, <1>14

(* After k rounds of the loop: what the status names, and what was sent.   *)
SentTo(t, memory, sb, head, max, k) ==
  /\ t.status = [maxBlocksToSend |-> max - k, irreversible |-> t.status.irreversible,
                 blocks |-> t.status.blocks]
  /\ t.status.irreversible \in Nat
  /\ t.status.blocks \in Seq(Infos) /\ Len(t.status.blocks) = Len(sb) + k
  /\ \A i \in 1..Len(sb) : t.status.blocks[i] = sb[i]
  /\ \A i \in 1..k : t.status.blocks[Len(sb) + i] = Info(memory.blocks[head + i])
  /\ Quiet(t.sent)

SentAfter(memory, t, b, t2) == t2.sent = t.sent \o NewMsgs(memory, t.status.irreversible, b)

LEMMA SendStep ==
  ASSUME NEW memory, NEW final, BoxSound(memory, final),
         NEW sb \in Seq(Infos), NEW head \in Nat, NEW max \in Nat, NEW k \in Nat,
         head + k + 1 <= Len(memory.blocks), NEW t, SentTo(t, memory, sb, head, max, k)
  PROVE  LET b == memory.blocks[head + k + 1]
             t2 == SendNext(memory, t, b)
         IN  SentTo(t2, memory, sb, head, max, k + 1) /\ SentAfter(memory, t, b, t2)
<1> DEFINE b == memory.blocks[head + k + 1]
           j == Min({getIrreversible(memory), b.num})
           irr == t.status.irreversible
           irr2 == Max({irr, j})
           bl == t.status.blocks
           bl2 == Append(bl, Info(b))
           new == NewMsgs(memory, irr, b)
           t2 == SendNext(memory, t, b)
<1>1. head + k \in Nat /\ (head + k) + 1 <= Len(memory.blocks)
  OBVIOUS
<1>2. b \in Block /\ b \in Decodable /\ j \in Nat /\ j \in UInt /\ j < MaxUInt
  BY <1>1, BoxNumber
<1>3. Quiet(new)
  BY <1>1, NewMsgsQuiet
<1>4. /\ irr \in Nat /\ bl \in Seq(Infos) /\ Len(bl) = Len(sb) + k
      /\ t.status.maxBlocksToSend = max - k
      /\ \A i \in 1..Len(sb) : bl[i] = sb[i]
      /\ \A i \in 1..k : bl[Len(sb) + i] = Info(memory.blocks[head + i])
      /\ Quiet(t.sent) /\ t.sent \in Seq(Msgs)
  BY DEF SentTo, Quiet
<1>5. SendBlock(b, memory, irr, t.sent) = t.sent \o new
  <2>1. new = IF j > irr THEN <<BlockMsg(b), FinalMsg(j)>> ELSE <<BlockMsg(b)>>
    BY DEF NewMsgs
  <2>2. SendBlock(b, memory, irr, t.sent) =
          IF j > irr THEN t.sent \o <<BlockMsg(b), FinalMsg(j)>>
          ELSE Append(t.sent, BlockMsg(b))
    BY DEF SendBlock, BlockMsg, FinalMsg
  <2>3. BlockMsg(b) \in Msgs
    BY <1>2, MsgsQuiet
  <2> HIDE DEF b, j, irr, new
  <2>4. Append(t.sent, BlockMsg(b)) = t.sent \o <<BlockMsg(b)>>
    BY <1>4, <2>3, AppendIsConcat
  <2> QED
    BY <2>1, <2>2, <2>4
<1>6. t2 = [status |-> [maxBlocksToSend |-> (max - k) - 1, irreversible |-> irr2,
                        blocks |-> bl2],
            sent |-> t.sent \o new]
  BY <1>4, <1>5 DEF SendNext
<1>7. irr2 \in Nat
  <2> HIDE DEF irr, j
  <2>1. irr \in Int /\ j \in Int
    BY <1>2, <1>4
  <2>2. irr2 = IF irr <= j THEN j ELSE irr
    BY <2>1, MaxOfTwo
  <2> QED
    BY <1>2, <1>4, <2>2
<1>8. Info(b) \in Infos
  BY <1>2 DEF Infos
<1> HIDE DEF irr2, bl, new, irr, j
<1>9. /\ bl2 \in Seq(Infos) /\ Len(bl2) = (Len(sb) + k) + 1
      /\ \A i \in 1..Len(bl) : bl2[i] = bl[i]
      /\ bl2[Len(bl) + 1] = Info(b)
  BY <1>4, <1>8, AppendProperties
<1>10. \A i \in 1..Len(sb) : bl2[i] = sb[i]
  <2> HIDE DEF bl2
  <2>1. \A i \in 1..Len(sb) : i \in 1..Len(bl)
    BY <1>4
  <2> QED
    BY <1>4, <1>9, <2>1
<1>11. \A i \in 1..k + 1 : bl2[Len(sb) + i] = Info(memory.blocks[head + i])
  <2> SUFFICES ASSUME NEW i \in 1..k + 1
               PROVE  bl2[Len(sb) + i] = Info(memory.blocks[head + i])
    OBVIOUS
  <2>1. CASE i = k + 1
    <3>1. Len(sb) + i = Len(bl) + 1 /\ head + i = head + k + 1
      BY <1>4, <2>1
    <3> QED
      BY <1>9, <3>1 DEF b
  <2>2. CASE i # k + 1
    <3>1. i \in 1..k /\ Len(sb) + i \in 1..Len(bl)
      BY <1>4, <2>2
    <3> HIDE DEF bl2
    <3> QED
      BY <1>4, <1>9, <3>1
  <2> QED
    BY <2>1, <2>2
<1>12. Quiet(t.sent \o new)
  BY <1>3, <1>4, QuietConcat
<1> HIDE DEF bl2, t2
<1>13. (max - k) - 1 = max - (k + 1) /\ (Len(sb) + k) + 1 = Len(sb) + (k + 1)
  OBVIOUS
<1>14. /\ t2.status.blocks = bl2 /\ t2.status.irreversible = irr2
       /\ t2.sent = t.sent \o new
       /\ t2.status = [maxBlocksToSend |-> max - (k + 1),
                       irreversible |-> t2.status.irreversible,
                       blocks |-> t2.status.blocks]
  BY <1>6, <1>13
<1>15. SentTo(t2, memory, sb, head, max, k + 1)
  BY <1>7, <1>9, <1>10, <1>11, <1>12, <1>13, <1>14 DEF SentTo
<1> QED
  BY <1>14, <1>15 DEF t2, new, b, irr, SentAfter

SendBase(sb, max, irreversible) ==
  [status |-> [maxBlocksToSend |-> max, irreversible |-> irreversible, blocks |-> sb],
   sent |-> <<>>]

IsSending(h, memory, sb, head, max, n) ==
  /\ \E irreversible \in Nat : h[0] = SendBase(sb, max, irreversible)
  /\ \A k \in 1..n : h[k] = SendNext(memory, h[k - 1], memory.blocks[head + k])

LEMMA SendingStages ==
  ASSUME NEW memory, NEW final, BoxSound(memory, final),
         NEW sb \in Seq(Infos), NEW head \in Nat, NEW max \in Nat, NEW n \in Nat,
         head + n <= Len(memory.blocks), NEW h, IsSending(h, memory, sb, head, max, n)
  PROVE  \A k \in 0..n : SentTo(h[k], memory, sb, head, max, k)
<1> DEFINE S == {k \in Nat : k <= n => SentTo(h[k], memory, sb, head, max, k)}
<1>1. 0 \in S
  <2>1. PICK irreversible \in Nat : h[0] = SendBase(sb, max, irreversible)
    BY DEF IsSending
  <2>2. /\ h[0].status = [maxBlocksToSend |-> max, irreversible |-> irreversible, blocks |-> sb]
        /\ h[0].sent = <<>>
    BY <2>1 DEF SendBase
  <2>3. Quiet(<<>>)
    BY DEF Quiet
  <2>4. max - 0 = max /\ Len(sb) + 0 = Len(sb)
    OBVIOUS
  <2>5. SentTo(h[0], memory, sb, head, max, 0)
    BY <2>2, <2>3, <2>4 DEF SentTo
  <2> QED
    BY <2>5
<1>2. ASSUME NEW k \in Nat, k \in S PROVE k + 1 \in S
  <2>1. SUFFICES ASSUME k + 1 <= n PROVE SentTo(h[k + 1], memory, sb, head, max, k + 1)
    OBVIOUS
  <2>2. /\ k + 1 \in 1..n /\ (k + 1) - 1 = k /\ k <= n
        /\ head + (k + 1) = head + k + 1 /\ head + k + 1 <= Len(memory.blocks)
    <3>1. memory.blocks \in Seq(Block) /\ Len(memory.blocks) \in Nat
      BY BoxLog
    <3> QED
      BY <2>1, <3>1
  <2>3. SentTo(h[k], memory, sb, head, max, k)
    BY <1>2, <2>2
  <2>4. h[k + 1] = SendNext(memory, h[k], memory.blocks[head + k + 1])
    BY <2>2 DEF IsSending
  <2>5. head + k + 1 <= Len(memory.blocks)
    BY <2>2
  <2>6. SentTo(SendNext(memory, h[k], memory.blocks[head + k + 1]), memory, sb, head, max,
               k + 1)
    BY <2>3, <2>5, SendStep, Zenon
  <2> QED
    BY <2>4, <2>6
<1>3. \A k \in Nat : k \in S
  <2> HIDE DEF S
  <2> QED
    BY <1>1, <1>2, NatInductionOnSet
<1> QED
  BY <1>3

LoopTo(memory, q, v, head, n, v2, final) ==
  /\ Leads(v, q, v2, final)
  /\ Follows(v2, memory.blocks, head + n, final)
  /\ n = 0 => v2 = v
  /\ Parts(v, memory.blocks, head) => Parts(v2, memory.blocks, head + n)
  /\ Parts(v, memory.blocks, head) /\ n > 0 => Len(v2.chain) = head + n

LEMMA SendingLeads ==
  ASSUME NEW memory, NEW final, BoxSound(memory, final),
         NEW sb \in Seq(Infos), NEW head \in Nat, NEW max \in Nat, NEW n \in Nat,
         head + n <= Len(memory.blocks), NEW h, IsSending(h, memory, sb, head, max, n),
         NEW v, Follows(v, memory.blocks, head, final)
  PROVE  \E v2 : LoopTo(memory, h[n].sent, v, head, n, v2, final)
<1> DEFINE log == memory.blocks
           To(k) == \E v2 : LoopTo(memory, h[k].sent, v, head, k, v2, final)
           S == {k \in Nat : k <= n => To(k)}
<1>1. \A k \in 0..n : SentTo(h[k], memory, sb, head, max, k)
  BY SendingStages
<1>2. Len(log) \in Nat
  BY BoxLog
<1> HIDE DEF To
<1>3. 0 \in S
  <2>1. h[0].sent = <<>>
    BY DEF IsSending, SendBase
  <2>2. Leads(v, <<>>, v, final)
    BY LeadsNowhere DEF Follows
  <2>3. head + 0 = head
    OBVIOUS
  <2>4. To(0)
    BY <2>1, <2>2, <2>3 DEF To, LoopTo
  <2> QED
    BY <2>4
<1>4. ASSUME NEW k \in Nat, k \in S PROVE k + 1 \in S
  <2>1. SUFFICES ASSUME k + 1 <= n PROVE To(k + 1)
    OBVIOUS
  <2>2. /\ k + 1 \in 1..n /\ (k + 1) - 1 = k /\ k <= n /\ k \in 0..n
        /\ head + (k + 1) = head + k + 1 /\ head + k + 1 <= Len(log)
        /\ (head + k) + 1 = head + k + 1 /\ head + k \in Nat
    BY <1>2, <2>1
  <2> DEFINE irr == h[k].status.irreversible
             b == log[head + k + 1]
             new == NewMsgs(memory, irr, b)
  <2>3. PICK v2 : LoopTo(memory, h[k].sent, v, head, k, v2, final)
    BY <1>4, <2>2 DEF To
  <2>4. h[k + 1] = SendNext(memory, h[k], b)
    BY <2>2 DEF IsSending
  <2>5. h[k + 1].sent = h[k].sent \o new
    <3>1. head + k + 1 <= Len(memory.blocks) /\ SentTo(h[k], memory, sb, head, max, k)
      BY <1>1, <2>2
    <3> DEFINE t == h[k]
    <3> HIDE DEF t
    <3>2. SentTo(t, memory, sb, head, max, k)
      BY <3>1 DEF t
    <3>3. SentAfter(memory, t, memory.blocks[head + k + 1],
                    SendNext(memory, t, memory.blocks[head + k + 1]))
      BY <3>1, <3>2, SendStep, Zenon
    <3> QED
      BY <2>4, <3>3 DEF t, SentAfter
  <2>6. PICK v3 : RoundTo(memory, irr, v2, head + k, v3, final)
    <3>1. head + k + 1 <= Len(memory.blocks) /\ Follows(v2, memory.blocks, head + k, final)
      BY <2>2, <2>3 DEF LoopTo
    <3> QED
      BY <3>1, RoundLeads
  <2>7. Leads(v2, new, v3, final)
    BY <2>2, <2>6 DEF RoundTo
  <2>8. h[k].sent \in Seq(Msgs) /\ new \in Seq(Msgs)
    <3>1. h[k].sent \in Seq(Msgs)
      BY <1>1, <2>2 DEF SentTo, Quiet
    <3>2. Quiet(NewMsgs(memory, irr, log[(head + k) + 1]))
      BY <2>2, NewMsgsQuiet
    <3> QED
      BY <2>2, <3>1, <3>2 DEF Quiet
  <2> HIDE DEF new, log
  <2>9. Leads(v, h[k].sent \o new, v3, final)
    BY <2>3, <2>7, <2>8, LeadsFurther DEF LoopTo
  <2>10. Leads(v, h[k + 1].sent, v3, final)
    BY <2>5, <2>9
  <2>11. k + 1 # 0
    OBVIOUS
  <2> DEFINE m == head + k
             j == k + 1
             r == h[j].sent
  <2>12. /\ m + 1 = head + j /\ j \in Nat /\ j # 0
         /\ Leads(v, r, v3, final)
    BY <2>2, <2>10, <2>11
  <2>13. /\ Follows(v3, log, head + j, final)
         /\ Parts(v2, log, m) => Parts(v3, log, head + j)
         /\ Parts(v2, log, m) => Len(v3.chain) = head + j
    <3>1. /\ Follows(v3, log, m + 1, final)
          /\ Parts(v2, log, m) => Parts(v3, log, m + 1)
          /\ Parts(v2, log, m) => Len(v3.chain) = m + 1
      BY <2>6 DEF RoundTo, log
    <3> HIDE DEF m, j
    <3> QED
      BY <2>12, <3>1
  <2>14. Parts(v, log, head) => Parts(v2, log, m)
    BY <2>3 DEF LoopTo, log
  <2> HIDE DEF m, j, r
  <2>15. LoopTo(memory, r, v, head, j, v3, final)
    BY <2>12, <2>13, <2>14 DEF LoopTo, log
  <2>16. To(j)
    BY <2>15 DEF To, r
  <2> QED
    BY <2>16 DEF j
<1>5. \A k \in Nat : k \in S
  <2> HIDE DEF S
  <2> QED
    BY <1>3, <1>4, NatInductionOnSet
<1> QED
  BY <1>5 DEF To
-----------------------------------------------------------------------------
(* An update: the box sends from where the client's chain leaves its own   *)

LEMMA LeadsUp ==
  ASSUME NEW v, NEW q \in Seq(Msgs), NEW v2, NEW final, Leads(v, q, v2, final)
  PROVE  v.irr <= v2.irr /\ v.irr \in Nat /\ v2.irr \in Nat
<1> DEFINE n == Len(q)
<1>1. PICK w : SoundPath(w, v, q, final) /\ w[n] = v2
  BY DEF Leads
<1>2. /\ n \in Nat /\ w[0] = v
      /\ \A k \in 1..n : w[k] = Heard(w[k - 1], q[k])
      /\ \A k \in 0..n : w[k].irr \in Nat /\ w[k].irr <= Len(w[k].chain)
                         /\ Len(w[k].chain) \in Nat
  BY <1>1 DEF SoundPath, IsPath, Sound
<1> DEFINE S == {k \in Nat : k <= n => v.irr <= w[k].irr}
<1>3. 0 \in S
  BY <1>2
<1>4. ASSUME NEW k \in Nat, k \in S PROVE k + 1 \in S
  <2>1. SUFFICES ASSUME k + 1 <= n PROVE v.irr <= w[k + 1].irr
    OBVIOUS
  <2>2. k + 1 \in 1..n /\ (k + 1) - 1 = k /\ k <= n /\ k \in 0..n /\ k + 1 \in 0..n
        /\ 0 \in 0..n
    BY <1>2, <2>1
  <2> DEFINE msg == q[k + 1]
             u == w[k]
  <2>3. msg \in Msgs
    BY <2>2, ElementOfSeq
  <2>4. w[k + 1] = Heard(u, msg)
    BY <1>2, <2>2
  <2>5. u.irr \in Nat /\ u.irr <= Len(u.chain) /\ Len(u.chain) \in Nat /\ v.irr <= u.irr
        /\ v.irr \in Nat
    BY <1>2, <1>4, <2>2
  <2> HIDE DEF msg, u
  <2>6. u.irr <= Heard(u, msg).irr /\ Heard(u, msg).irr \in Nat
    <3>1. CASE msg.type = "setIrreversible"
      <4>1. msg.irreversible \in Nat
        BY <2>3, <3>1, WidthAssumption DEF Msgs, UInt
      <4>2. Heard(u, msg).irr = FinalTo(u.chain, u.irr, msg.irreversible)
        BY <3>1 DEF Heard
      <4> QED
        BY <2>5, <4>1, <4>2 DEF FinalTo
    <3>2. CASE msg.type # "setIrreversible"
      <4>1. msg.type \in {"block", "setHead", "sendStatus"}
        BY <2>3, <3>2 DEF Msgs
      <4>2. Heard(u, msg).irr = u.irr
        BY <4>1 DEF Heard
      <4> QED
        BY <2>5, <4>2
    <3> QED
      BY <3>1, <3>2
  <2> QED
    BY <2>4, <2>5, <2>6
<1>5. \A k \in Nat : k \in S
  <2> HIDE DEF S
  <2> QED
    BY <1>3, <1>4, NatInductionOnSet
<1>6. n \in 0..n /\ 0 \in 0..n
  BY <1>2
<1> QED
  BY <1>1, <1>2, <1>5, <1>6

(* The status names blocks in a row of the box's log, up to its head.      *)
StatusAt(g, sb, log, head) ==
  /\ g \in Nat \ {0} /\ head \in Nat
  /\ g - 1 + Len(sb) = head
  /\ sb = <<>> => g = 1
  /\ \A i \in 1..Len(sb) : sb[i] = Info(log[g - 1 + i])

(* The box knows the client's head, and has not lost a final block.        *)
Exact(sb, v, memory, final) ==
  LastNum(sb) = Len(v.chain) /\ Len(final) = memory.irreversible

LEMMA SharedFollows ==
  ASSUME NEW memory, NEW final, BoxSound(memory, final), NEW v, Sound(v, final),
         NEW sb \in Seq(Infos), Tracked(sb, v),
         NEW kept, IsShared(kept, sb, memory.blocks)
  PROVE  LET sh == Shared(sb, memory.blocks)
             head == LastNum(sh)
         IN  /\ Follows(v, memory.blocks, head, final)
             /\ \E g : StatusAt(g, sh, memory.blocks, head) /\ (g = 1 \/ g <= v.irr)
             /\ Exact(sb, v, memory, final) => /\ Parts(v, memory.blocks, head)
                                               /\ kept = Len(sb) => head = Len(v.chain)
<1> DEFINE log == memory.blocks
           c == v.chain
           sh == Shared(sb, log)
           head == LastNum(sh)
<1>1. /\ log \in Seq(Block) /\ Len(log) \in Nat /\ Linked(log)
      /\ memory.irreversible \in Nat /\ memory.irreversible <= Len(log)
      /\ \A i \in 1..Len(log) : log[i].num = i
  BY BoxLog
<1>2. /\ c \in Seq(Block) /\ Len(c) \in Nat /\ Linked(c)
      /\ v.irr \in Nat /\ v.irr <= Len(c) /\ v.irr <= Len(final)
      /\ \A i \in 1..v.irr : c[i] = final[i]
  BY DEF Sound
<1>3. /\ final \in Seq(Block) /\ Len(final) \in Nat
      /\ \A i \in 1..Len(final) : i <= Len(log) => log[i] = final[i]
  BY DEF BoxSound
<1>4. /\ sh \in Seq(Infos) /\ Len(sh) = kept
      /\ \A i \in 1..kept : sh[i] = sb[i]
      /\ kept \in Nat
      /\ head = IF kept = 0 THEN 0 ELSE sb[kept].num
      /\ head \in 0..Len(log)
  BY <1>1, SharedEnds
<1>5. PICK f : TrackedFrom(f, sb, v)
  BY DEF Tracked
<1>6. /\ f \in Nat \ {0} /\ Len(sb) \in Nat
      /\ f - 1 + Len(sb) <= Len(c)
      /\ f = 1 \/ f <= v.irr
      /\ sb = <<>> => f = 1
      /\ \A i \in 1..Len(sb) : sb[i] = Info(c[f - 1 + i])
  BY <1>5 DEF TrackedFrom
<1>7. /\ kept <= Len(sb)
      /\ kept > 0 => OnBox(sb, log, kept)
      /\ \A i \in kept + 1..Len(sb) : ~OnBox(sb, log, i)
  BY DEF IsShared
<1>8. LastNum(sb) = f - 1 + Len(sb)
  BY <1>2, <1>5, TrackedLast
<1> HIDE DEF log, c, sh, head
<1>9. \A i \in 1..Len(c) : c[i].num = i
  BY <1>2 DEF Linked
<1>10. \A i \in 1..Len(sb) : /\ f - 1 + i \in 1..Len(c)
                             /\ sb[i].num = f - 1 + i /\ sb[i].id = c[f - 1 + i].id
  <2> SUFFICES ASSUME NEW i \in 1..Len(sb)
               PROVE  /\ f - 1 + i \in 1..Len(c)
                      /\ sb[i].num = f - 1 + i /\ sb[i].id = c[f - 1 + i].id
    OBVIOUS
  <2>1. f - 1 + i \in 1..Len(c)
    BY <1>2, <1>6
  <2> DEFINE j == f - 1 + i
  <2>2. sb[i] = Info(c[j])
    BY <1>6
  <2> HIDE DEF j
  <2>3. j \in 1..Len(c)
    BY <2>1 DEF j
  <2>4. c[j].num = j
    BY <1>9, <2>3
  <2>5. sb[i].num = j /\ sb[i].id = c[j].id
    BY <2>2, <2>4 DEF Info
  <2> QED
    BY <2>3, <2>5 DEF j
<1>11. kept > 0 => head = f - 1 + kept /\ kept \in 1..Len(sb)
  BY <1>4, <1>6, <1>7, <1>10
<1>12. Follows(v, log, head, final)
  <2>1. head > 0 => kept > 0
    BY <1>4
  <2>2. head \in Nat /\ head <= Len(log)
    BY <1>1, <1>4
  <2>3. head <= Len(c)
    BY <1>2, <1>4, <1>10, <1>11, <2>2
  <2>4. head > 0 => c[head].id = log[head].id
    <3>1. SUFFICES ASSUME head > 0 PROVE c[head].id = log[head].id
      OBVIOUS
    <3>2. kept > 0 /\ head = f - 1 + kept /\ kept \in 1..Len(sb)
      BY <1>11, <2>1, <3>1
    <3>3. sb[kept].num = head /\ sb[kept].id = c[head].id
      BY <1>10, <3>2
    <3> QED
      BY <1>7, <3>2, <3>3 DEF OnBox
  <2>5. \A i \in 1..head : c[i] = log[i]
    BY <1>1, <1>2, <2>2, <2>3, <2>4, SameBehind
  <2> QED
    BY <2>2, <2>3, <2>5 DEF Follows, c
<1>13. \E g : StatusAt(g, sh, log, head) /\ (g = 1 \/ g <= v.irr)
  <2> DEFINE g == IF kept = 0 THEN 1 ELSE f
  <2>1. g \in Nat \ {0} /\ head \in Nat /\ (g = 1 \/ g <= v.irr)
    BY <1>1, <1>4, <1>6
  <2>2. g - 1 + Len(sh) = head
    BY <1>4, <1>6, <1>11
  <2>3. sh = <<>> => g = 1
    <3>1. sh = <<>> => kept = 0
      BY <1>4, EmptySeq
    <3> QED
      BY <3>1
  <2>4. \A i \in 1..Len(sh) : sh[i] = Info(log[g - 1 + i])
    <3> SUFFICES ASSUME NEW i \in 1..kept PROVE sh[i] = Info(log[g - 1 + i])
      BY <1>4
    <3>1. kept # 0 /\ kept > 0 /\ g = f /\ i \in 1..Len(sb) /\ f - 1 + i \in 1..head
      BY <1>4, <1>6, <1>7, <1>11
    <3>2. c[f - 1 + i] = log[f - 1 + i]
      BY <1>12, <3>1 DEF Follows, c
    <3>3. sh[i] = Info(c[f - 1 + i])
      BY <1>4, <1>6, <3>1
    <3> QED
      BY <3>1, <3>2, <3>3
  <2> HIDE DEF g
  <2> QED
    BY <2>1, <2>2, <2>3, <2>4 DEF StatusAt
<1>14. ASSUME Exact(sb, v, memory, final)
       PROVE  Parts(v, log, head) /\ (kept = Len(sb) => head = Len(c))
  <2>1. f - 1 + Len(sb) = Len(c) /\ Len(final) = memory.irreversible
    BY <1>8, <1>14 DEF Exact, c
  <2>2. ASSUME NEW i \in 1..Len(sb), f - 1 + i <= Len(log), c[f - 1 + i] = log[f - 1 + i]
        PROVE  i <= kept
    <3>1. sb[i].num = f - 1 + i /\ sb[i].id = log[f - 1 + i].id
      BY <1>10, <2>2
    <3>2. OnBox(sb, log, i)
      BY <2>2, <3>1 DEF OnBox
    <3>3. ~(i \in kept + 1..Len(sb))
      BY <1>7, <3>2
    <3> QED
      BY <1>4, <1>6, <3>3
  <2>3. v.irr > 0 => kept > 0 /\ v.irr <= head
    <3>1. SUFFICES ASSUME v.irr > 0 PROVE kept > 0 /\ v.irr <= head
      OBVIOUS
    <3> DEFINE i == v.irr - f + 1
    <3>2. i \in 1..Len(sb) /\ f - 1 + i = v.irr
      <4> DEFINE r == v.irr
                 m == Len(sb)
                 l == Len(c)
      <4>1. r \in Nat /\ m \in Nat /\ l \in Nat /\ f \in Nat /\ f > 0 /\ r > 0 /\ r <= l
            /\ (f = 1 \/ f <= r) /\ f - 1 + m = l
        BY <1>2, <1>6, <2>1, <3>1
      <4> HIDE DEF r, m, l
      <4>2. r - f + 1 \in 1..m /\ f - 1 + (r - f + 1) = r
        BY <4>1
      <4> QED
        BY <4>2 DEF r, m
    <3>3. v.irr \in 1..v.irr /\ v.irr \in 1..Len(final) /\ v.irr <= Len(log)
      BY <1>1, <1>2, <1>3, <2>1, <3>1
    <3>4. c[v.irr] = log[v.irr]
      BY <1>2, <1>3, <3>3
    <3> HIDE DEF i
    <3>5. i <= kept
      BY <2>2, <3>2, <3>3, <3>4
    <3> QED
      BY <1>4, <1>6, <1>11, <3>2, <3>5
  <2>4. v.irr <= head
    BY <1>1, <1>2, <1>4, <2>3
  <2>5. f - 1 + kept = head
    <3>1. CASE kept > 0
      BY <1>11, <3>1
    <3>2. CASE kept = 0
      <4>1. v.irr = 0 /\ head = 0
        BY <1>2, <1>4, <2>3, <3>2
      <4> QED
        BY <1>6, <3>2, <4>1
    <3> QED
      BY <1>4, <3>1, <3>2
  <2>6. ASSUME head < Len(c), head < Len(log), c[head + 1] = log[head + 1]
        PROVE  FALSE
    <3> DEFINE i == kept + 1
    <3>1. i \in 1..Len(sb) /\ f - 1 + i = head + 1 /\ head + 1 <= Len(log)
      BY <1>1, <1>4, <1>6, <2>1, <2>5, <2>6
    <3> HIDE DEF i
    <3>2. i <= kept
      BY <2>2, <2>6, <3>1
    <3> QED
      BY <1>4, <3>2 DEF i
  <2>7. Parts(v, log, head)
    BY <2>4, <2>6 DEF Parts, c
  <2>8. kept = Len(sb) => head = Len(c)
    BY <2>1, <2>5
  <2> QED
    BY <2>7, <2>8
<1> QED
  BY <1>12, <1>13, <1>14 DEF log, c, sh, head

HeadMsg(head) == [type |-> "setHead", head |-> head]
AskMsg == [type |-> "sendStatus"]

HeadMsgs(c, memory, n) ==
  LET sh == Shared(c.status.blocks, memory.blocks) IN
  IF Len(sh) < Len(c.status.blocks) /\ n = 0 THEN <<HeadMsg(LastNum(sh))>> ELSE <<>>

(* How an update computes its answer: h is the run of the loop.            *)
IsUpdate(h, n, c, memory) ==
  LET log == memory.blocks
      sh == Shared(c.status.blocks, log)
      max == c.status.maxBlocksToSend
      q == h[n].sent \o HeadMsgs(c, memory, n)
  IN  /\ n \in Nat /\ n <= max /\ LastNum(sh) + n <= Len(log)
      /\ n = 0 => LastNum(sh) = Len(log)
      /\ IsSending(h, memory, sh, LastNum(sh), max, n)
      /\ update(c, memory) =
           IF h[n].status.maxBlocksToSend = 0
           THEN [conn |-> [c EXCEPT !.status = Null], sent |-> q \o <<AskMsg>>]
           ELSE [conn |-> addCallback([c EXCEPT !.status = h[n].status]), sent |-> q]

ConnShape(c) ==
  /\ c = [open |-> TRUE, status |-> c.status, haveCallback |-> c.haveCallback]
  /\ c.haveCallback \in BOOLEAN

LEMMA UpdateRuns ==
  ASSUME NEW memory, NEW final, BoxSound(memory, final),
         NEW c, ConnShape(c), c.status \in Asking
  PROVE  \E h, n : IsUpdate(h, n, c, memory)
<1> DEFINE log == memory.blocks
           st == c.status
           sb == st.blocks
           sh == Shared(sb, log)
           head == LastNum(sh)
           max == st.maxBlocksToSend
           d == Len(log) - head
           n == Min({max, Max({0, d})})
           st0 == [maxBlocksToSend |-> max, irreversible |-> st.irreversible, blocks |-> sh]
           base == [status |-> st0, sent |-> <<>>]
           seq == SubSeq(log, head + 1, head + n)
<1>1. /\ log \in Seq(Block) /\ Len(log) \in Nat
  BY BoxLog
<1>2. /\ st = [maxBlocksToSend |-> max, irreversible |-> st.irreversible, blocks |-> sb]
      /\ max \in Nat /\ max > 0 /\ st.irreversible \in Nat /\ sb \in Seq(Infos)
      /\ st # Null /\ c.open
  BY NullAssumption DEF Asking, Status, Infos, ConnShape
<1>3. PICK kept : IsShared(kept, sb, log)
  BY <1>2, SharedKeeps
<1>4. sh \in Seq(Infos) /\ head \in 0..Len(log) /\ head \in Nat
  BY <1>1, <1>2, <1>3, SharedEnds
<1>5. [st EXCEPT !.blocks = sh] = st0
  <2> DEFINE irr == st.irreversible
  <2>1. st = [maxBlocksToSend |-> max, irreversible |-> irr, blocks |-> sb]
    BY <1>2
  <2> HIDE DEF sh, max, irr, sb, st
  <2> QED
    BY <2>1 DEF irr
<1>6. n = (IF max <= d THEN max ELSE d) /\ n \in Nat
  <2> HIDE DEF head, max, log
  <2>1. d \in Nat /\ 0 \in Int /\ d \in Int
    BY <1>1, <1>4
  <2> HIDE DEF d
  <2>2. Max({0, d}) = d
    <3>1. Max({0, d}) = IF 0 <= d THEN d ELSE 0
      BY <2>1, MaxOfTwo
    <3> QED
      BY <2>1, <3>1
  <2>3. n = IF max <= d THEN max ELSE d
    BY <1>2, <2>1, <2>2, MinOfTwo
  <2> QED
    BY <1>2, <2>1, <2>3
<1>7. n <= max /\ head + n <= Len(log) /\ (n = 0 => head = Len(log))
  <2> HIDE DEF n, head, max, log
  <2> QED
    BY <1>1, <1>2, <1>4, <1>6
<1>8. SendBlocks(memory, st0, n) = SendAll(memory, base, seq)
  BY DEF SendBlocks, SendAll
<1>9. update(c, memory) =
        LET s == SendAll(memory, base, seq)
            q == s.sent \o HeadMsgs(c, memory, n)
        IN  IF s.status.maxBlocksToSend = 0
            THEN [conn |-> [c EXCEPT !.status = Null], sent |-> q \o <<AskMsg>>]
            ELSE [conn |-> addCallback([c EXCEPT !.status = s.status]), sent |-> q]
  <2> DEFINE z == SendAll(memory, base, seq)
             hd == HeadMsgs(c, memory, n)
  <2>1. update(c, memory) =
          LET s == SendBlocks(memory, [st EXCEPT !.blocks = sh],
                     Min({[st EXCEPT !.blocks = sh].maxBlocksToSend, Max({0, d})}))
              setHead == IF Len(sh) < Len(sb)
                            /\ Min({[st EXCEPT !.blocks = sh].maxBlocksToSend, Max({0, d})}) = 0
                         THEN <<HeadMsg(head)>> ELSE <<>>
          IN  IF ~c.open \/ st = Null THEN [conn |-> c, sent |-> <<>>]
              ELSE IF s.status.maxBlocksToSend = 0
              THEN [conn |-> [c EXCEPT !.status = Null],
                    sent |-> s.sent \o setHead \o <<AskMsg>>]
              ELSE [conn |-> addCallback([c EXCEPT !.status = s.status]),
                    sent |-> s.sent \o setHead]
    BY DEF update, HeadMsg, AskMsg
  <2>2. st0.maxBlocksToSend = max
    OBVIOUS
  <2>3. hd = IF Len(sh) < Len(sb) /\ n = 0 THEN <<HeadMsg(head)>> ELSE <<>>
    BY DEF HeadMsgs
  <2> HIDE DEF z, hd, st0, sh, sb, d, base, seq
  <2>4. update(c, memory) =
          LET s == SendBlocks(memory, st0, n)
              setHead == IF Len(sh) < Len(sb) /\ n = 0 THEN <<HeadMsg(head)>> ELSE <<>>
          IN  IF ~c.open \/ st = Null THEN [conn |-> c, sent |-> <<>>]
              ELSE IF s.status.maxBlocksToSend = 0
              THEN [conn |-> [c EXCEPT !.status = Null],
                    sent |-> s.sent \o setHead \o <<AskMsg>>]
              ELSE [conn |-> addCallback([c EXCEPT !.status = s.status]),
                    sent |-> s.sent \o setHead]
    BY <1>5, <2>1, <2>2, Zenon
  <2> QED
    BY <1>2, <1>8, <2>3, <2>4 DEF z, hd
<1> HIDE DEF sh, n, head, log, max
<1>10. /\ Len(seq) = n /\ DOMAIN seq = 1..n
       /\ \A i \in 1..n : seq[i] = log[head + i]
  <2>1. /\ head + 1 \in Nat /\ head + n \in Nat /\ (head + n) - (head + 1) + 1 = n
        /\ \A i \in 1..n : (head + 1) + i - 1 = head + i
    BY <1>1, <1>4, <1>6, <1>7
  <2>2. /\ seq \in Seq(Block)
        /\ Len(seq) = (head + n) - (head + 1) + 1
        /\ \A i \in 1..(head + n) - (head + 1) + 1 : seq[i] = log[(head + 1) + i - 1]
    BY <1>1, <1>4, <1>6, <1>7
  <2> HIDE DEF seq
  <2>3. Len(seq) = n /\ \A i \in 1..n : seq[i] = log[head + i]
    BY <2>1, <2>2
  <2>4. DOMAIN seq = 1..n
    BY <2>2, <2>3
  <2> QED
    BY <2>3, <2>4
<1> DEFINE z == SendAll(memory, base, seq)
           sd == base
<1>11. z = SendAll(memory, sd, seq)
  OBVIOUS
<1> HIDE DEF z, seq, base, sd, st0
<1>12. PICK h : /\ h[0] = sd
                /\ \A k \in 1..n : h[k] = SendNext(memory, h[k - 1], seq[k])
                /\ z = h[n]
  <2> DEFINE sq == seq
  <2>1. n \in Nat /\ DOMAIN sq = 1..n /\ z = SendAll(memory, sd, sq)
    BY <1>6, <1>10, <1>11
  <2> HIDE DEF sq
  <2>2. \E h : /\ h[0] = sd
               /\ \A k \in 1..n : h[k] = SendNext(memory, h[k - 1], sq[k])
               /\ z = h[n]
    BY <2>1, SendRun
  <2> QED
    BY <2>2 DEF sq
<1>13. sd = SendBase(sh, max, st.irreversible)
  BY DEF sd, base, st0, SendBase
<1>14. IsSending(h, memory, sh, head, max, n)
  BY <1>2, <1>10, <1>12, <1>13 DEF IsSending, log
<1>15. update(c, memory) =
        LET q == h[n].sent \o HeadMsgs(c, memory, n)
        IN  IF h[n].status.maxBlocksToSend = 0
            THEN [conn |-> [c EXCEPT !.status = Null], sent |-> q \o <<AskMsg>>]
            ELSE [conn |-> addCallback([c EXCEPT !.status = h[n].status]), sent |-> q]
  BY <1>9, <1>12, Zenon DEF z
<1>16. IsUpdate(h, n, c, memory)
  <2>1. /\ n \in Nat /\ n <= max /\ LastNum(sh) + n <= Len(log)
        /\ n = 0 => LastNum(sh) = Len(log)
    BY <1>6, <1>7 DEF head
  <2>2. IsSending(h, memory, sh, LastNum(sh), max, n)
    BY <1>14 DEF head
  <2> HIDE DEF sb, st
  <2> QED
    BY <2>1, <2>2, <1>15, Zenon DEF IsUpdate, sh, log, max, sb, st
<1> QED
  BY <1>16

(* The answer: blocks, and a request for a status if there may be more.    *)
Told(u, q) ==
  /\ Quiet(q)
  /\ ConnShape(u.conn)
  /\ \/ u.conn.status = Null /\ u.sent = q \o <<AskMsg>>
     \/ u.conn.status \in Asking /\ u.conn.haveCallback = TRUE /\ u.sent = q

LEMMA AskQuiet == AskMsg \in Msgs /\ Asks(AskMsg) /\ <<AskMsg>> \in Seq(Msgs)
<1>1. AskMsg \in Msgs /\ Asks(AskMsg)
  BY DEF AskMsg, Msgs, Asks
<1> QED
  BY <1>1

LEMMA HeadMsgsQuiet ==
  ASSUME NEW memory, NEW final, BoxSound(memory, final),
         NEW c, c.status \in Asking, NEW n
  PROVE  Quiet(HeadMsgs(c, memory, n))
<1> DEFINE sh == Shared(c.status.blocks, memory.blocks)
           x == HeadMsg(LastNum(sh))
<1>1. memory.blocks \in Seq(Block)
  BY BoxLog
<1>2. c.status.blocks \in Seq(Infos)
  BY DEF Asking, Status, Infos
<1>3. LastNum(sh) \in Nat
  BY <1>1, <1>2, SharedInLog
<1>4. x \in Msgs /\ ~Asks(x)
  BY <1>3 DEF Msgs, Asks, HeadMsg
<1>5. HeadMsgs(c, memory, n) = <<x>> \/ HeadMsgs(c, memory, n) = <<>>
  BY DEF HeadMsgs
<1> HIDE DEF x
<1>6. Quiet(<<x>>) /\ Quiet(<<>>)
  BY <1>4 DEF Quiet
<1> QED
  BY <1>5, <1>6

LEMMA UpdateTells ==
  ASSUME NEW memory, NEW final, BoxSound(memory, final),
         NEW c, ConnShape(c), c.status \in Asking, NEW h, NEW n, IsUpdate(h, n, c, memory)
  PROVE  LET u == update(c, memory) IN
         /\ Told(u, h[n].sent \o HeadMsgs(c, memory, n))
         /\ u.conn.status # Null => u.conn.status = h[n].status
<1> DEFINE sh == Shared(c.status.blocks, memory.blocks)
           max == c.status.maxBlocksToSend
           head == LastNum(sh)
           t == h[n]
           q == t.sent \o HeadMsgs(c, memory, n)
           u == update(c, memory)
           back == c.haveCallback
           st == t.status
           cs == c.status
<1>1. /\ n \in Nat /\ n <= max /\ head + n <= Len(memory.blocks)
      /\ IsSending(h, memory, sh, head, max, n)
      /\ u = IF st.maxBlocksToSend = 0
             THEN [conn |-> [c EXCEPT !.status = Null], sent |-> q \o <<AskMsg>>]
             ELSE [conn |-> addCallback([c EXCEPT !.status = st]), sent |-> q]
  BY DEF IsUpdate
<1>2. memory.blocks \in Seq(Block)
  BY BoxLog
<1>3. c.status.blocks \in Seq(Infos) /\ max \in Nat
  BY DEF Asking, Status, Infos
<1>4. sh \in Seq(Infos) /\ head \in Nat
  BY <1>2, <1>3, SharedInLog
<1>5. SentTo(t, memory, sh, head, max, n)
  <2>1. n \in 0..n
    BY <1>1
  <2> HIDE DEF sh, head, max
  <2> QED
    BY <1>1, <1>3, <1>4, <2>1, SendingStages
<1>6. Quiet(q)
  BY <1>5, HeadMsgsQuiet, QuietConcat DEF SentTo
<1>7. c = [open |-> TRUE, status |-> cs, haveCallback |-> back] /\ back \in BOOLEAN
  BY DEF ConnShape
<1>8. /\ st.maxBlocksToSend = max - n
      /\ max # n => st \in Asking
  <2>1. st = [maxBlocksToSend |-> max - n, irreversible |-> st.irreversible,
              blocks |-> st.blocks]
        /\ st.irreversible \in Nat /\ st.blocks \in Seq(Infos)
    BY <1>5 DEF SentTo
  <2> DEFINE irr == st.irreversible
             bl == st.blocks
             left == max - n
  <2> HIDE DEF irr, bl, left, max, t, st
  <2>2. st = [maxBlocksToSend |-> left, irreversible |-> irr, blocks |-> bl]
        /\ irr \in Nat /\ bl \in Seq(Infos)
    BY <2>1 DEF irr, bl, left
  <2>3. left \in Nat /\ left = max - n /\ (max # n => left > 0)
    BY <1>1, <1>3 DEF left
  <2>4. st.maxBlocksToSend = left /\ st \in Status
    BY <2>2, <2>3 DEF Status, Infos
  <2> QED
    BY <2>3, <2>4 DEF Asking
<1> HIDE DEF q, cs, back, t, st, max, u
<1>9. CASE max = n
  <2>1. st.maxBlocksToSend = 0
    BY <1>1, <1>3, <1>8, <1>9
  <2>2. u = [conn |-> [open |-> TRUE, status |-> Null, haveCallback |-> back],
             sent |-> q \o <<AskMsg>>]
    BY <1>1, <1>7, <2>1
  <2>3. Told(u, q) /\ u.conn.status = Null
    BY <1>6, <1>7, <2>2 DEF Told, ConnShape
  <2> QED
    BY <2>3 DEF u, q, t
<1>10. CASE max # n
  <2>1. st.maxBlocksToSend # 0
    BY <1>1, <1>3, <1>8, <1>10
  <2>2. u = [conn |-> addCallback([c EXCEPT !.status = st]), sent |-> q]
    BY <1>1, <2>1
  <2>3. u = [conn |-> [open |-> TRUE, status |-> st, haveCallback |-> TRUE], sent |-> q]
    BY <1>7, <2>2 DEF addCallback
  <2>4. Told(u, q) /\ u.conn.status = st
    BY <1>6, <1>8, <1>10, <2>3 DEF Told, ConnShape
  <2> QED
    BY <2>4 DEF u, q, t, st
<1> QED
  BY <1>9, <1>10

LEMMA UpdateAnswers ==
  ASSUME NEW memory, NEW final, BoxSound(memory, final),
         NEW c, ConnShape(c), c.status \in Asking
  PROVE  \E q : Told(update(c, memory), q)
<1>1. PICK h, n : IsUpdate(h, n, c, memory)
  BY UpdateRuns
<1> QED
  BY <1>1, UpdateTells

(* Wherever the client's chain has parted from the box's, the answer leads *)
(* it to the blocks that the new status names.                             *)
Answered(c, memory, v, v2, final) ==
  LET u == update(c, memory) IN
  /\ Leads(v, u.sent, v2, final)
  /\ u.conn.status # Null =>
       /\ Tracked(u.conn.status.blocks, v2)
       /\ Exact(c.status.blocks, v, memory, final) =>
            LastNum(u.conn.status.blocks) = Len(v2.chain)

LEMMA UpdateLeads ==
  ASSUME NEW memory, NEW final, BoxSound(memory, final),
         NEW c, ConnShape(c), c.status \in Asking,
         NEW v, Sound(v, final), Tracked(c.status.blocks, v)
  PROVE  \E v2 : Answered(c, memory, v, v2, final)
<1> DEFINE log == memory.blocks
           sb == c.status.blocks
           sh == Shared(sb, log)
           head == LastNum(sh)
           max == c.status.maxBlocksToSend
           u == update(c, memory)
           Ex == Exact(sb, v, memory, final)
<1>1. PICK h, n : IsUpdate(h, n, c, memory)
  BY UpdateRuns
<1> DEFINE t == h[n]
           q == t.sent
           hd == HeadMsgs(c, memory, n)
           bl == t.status.blocks
<1>2. /\ n \in Nat /\ n <= max /\ head + n <= Len(log)
      /\ n = 0 => head = Len(log)
      /\ IsSending(h, memory, sh, head, max, n)
  BY <1>1 DEF IsUpdate
<1>3. Told(u, q \o hd) /\ (u.conn.status # Null => u.conn.status = t.status)
  BY <1>1, UpdateTells
<1>4. log \in Seq(Block) /\ Len(log) \in Nat
  BY BoxLog
<1>5. sb \in Seq(Infos) /\ max \in Nat
  BY DEF Asking, Status, Infos
<1>6. PICK kept : IsShared(kept, sb, log)
  BY <1>5, SharedKeeps
<1>7. /\ sh \in Seq(Infos) /\ Len(sh) = kept /\ head \in Nat /\ kept \in Nat
      /\ Len(sb) \in Nat /\ kept <= Len(sb)
  <2>1. /\ sh \in Seq(Infos) /\ Len(sh) = kept /\ kept \in Nat
        /\ head \in 0..Len(log)
    BY <1>4, <1>5, <1>6, SharedEnds
  <2>2. kept <= Len(sb) /\ Len(sb) \in Nat
    BY <1>5, <1>6 DEF IsShared
  <2> QED
    BY <1>4, <2>1, <2>2
<1>8. /\ Follows(v, log, head, final)
      /\ \E g : StatusAt(g, sh, log, head) /\ (g = 1 \/ g <= v.irr)
      /\ Ex => Parts(v, log, head) /\ (kept = Len(sb) => head = Len(v.chain))
  BY <1>5, <1>6, SharedFollows
<1>9. hd = IF kept < Len(sb) /\ n = 0 THEN <<HeadMsg(head)>> ELSE <<>>
  BY <1>7 DEF HeadMsgs
<1>10. SentTo(t, memory, sh, head, max, n)
  <2>1. n \in 0..n
    BY <1>2
  <2> HIDE DEF sh, head, max
  <2> QED
    BY <1>2, <1>5, <1>7, <2>1, SendingStages DEF log
<1> HIDE DEF sh, head, max, u, t, hd, sb, Ex
<1>11. \E v2 : LoopTo(memory, q, v, head, n, v2, final)
  <2>1. head + n <= Len(memory.blocks) /\ Follows(v, memory.blocks, head, final)
    BY <1>2, <1>8
  <2> HIDE DEF log
  <2> QED
    BY <1>2, <1>5, <1>7, <2>1, SendingLeads DEF t
<1>11p. PICK v2 : LoopTo(memory, q, v, head, n, v2, final)
  BY <1>11
<1>11q. /\ Leads(v, q, v2, final)
        /\ Follows(v2, log, head + n, final)
        /\ n = 0 => v2 = v
        /\ Parts(v, log, head) => Parts(v2, log, head + n)
        /\ Parts(v, log, head) /\ n > 0 => Len(v2.chain) = head + n
  BY <1>11p DEF LoopTo, log
<1>12. Quiet(q) /\ q \in Seq(Msgs) /\ Sound(v2, final) /\ Len(v2.chain) \in Nat
  BY <1>10, <1>11q DEF SentTo, Quiet, Follows, Sound
<1>13. \E v3 : /\ Leads(v, q \o hd, v3, final)
               /\ Follows(v3, log, head + n, final)
               /\ Ex => Len(v3.chain) = head + n
  <2>1. CASE kept < Len(sb) /\ n = 0
    <3> DEFINE x == HeadMsg(head)
               v3 == Heard(v2, x)
    <3>1. hd = <<x>> /\ head + n = head
      BY <1>7, <1>9, <2>1
    <3>2. /\ Follows(v3, log, head, final)
          /\ v2.irr <= head => Len(v3.chain) = head
      BY <1>11q, <3>1, HeadFollows DEF HeadMsg
    <3>3. x \in Msgs
      BY <1>7 DEF Msgs, HeadMsg
    <3>4. Leads(v2, <<x>>, v3, final)
      BY <1>12, <3>2, <3>3, LeadsByOne DEF Follows
    <3> HIDE DEF x, v3
    <3>5. <<x>> \in Seq(Msgs)
      BY <3>3
    <3>6. Leads(v, q \o <<x>>, v3, final)
      BY <1>11q, <1>12, <3>4, <3>5, LeadsFurther
    <3>7. Ex => v2.irr <= head
      BY <1>8, <1>11q, <3>1 DEF Parts
    <3> QED
      BY <3>1, <3>2, <3>6, <3>7
  <2>2. CASE ~(kept < Len(sb) /\ n = 0)
    <3>1. hd = <<>> /\ q \o hd = q
      BY <1>9, <1>12, <2>2, ConcatEmptySeq
    <3>2. Ex => Len(v2.chain) = head + n
      <4>1. CASE n > 0
        BY <1>8, <1>11q, <4>1
      <4>2. CASE n = 0
        <5>1. kept = Len(sb)
          BY <1>7, <2>2, <4>2
        <5>2. v2 = v /\ head + n = head
          BY <1>7, <1>11q, <4>2
        <5> QED
          BY <1>8, <5>1, <5>2
      <4> QED
        BY <1>2, <4>1, <4>2
    <3> QED
      BY <1>11q, <3>1, <3>2
  <2> QED
    BY <2>1, <2>2
<1>14. PICK v3 : /\ Leads(v, q \o hd, v3, final)
                 /\ Follows(v3, log, head + n, final)
                 /\ Ex => Len(v3.chain) = head + n
  BY <1>13
<1>15. q \o hd \in Seq(Msgs) /\ Sound(v3, final)
  BY <1>3, <1>14 DEF Told, Quiet, Follows
<1>16. Leads(v, u.sent, v3, final)
  <2>1. Leads(v3, <<AskMsg>>, v3, final)
    <3>1. Heard(v3, AskMsg) = v3
      BY DEF Heard, AskMsg
    <3> QED
      BY <1>15, <3>1, AskQuiet, LeadsByOne
  <2> DEFINE r == q \o hd
  <2>2. r \in Seq(Msgs) /\ Leads(v, r, v3, final)
        /\ (u.sent = r \o <<AskMsg>> \/ u.sent = r)
    BY <1>3, <1>14, <1>15 DEF Told
  <2> HIDE DEF r
  <2>3. Leads(v, r \o <<AskMsg>>, v3, final)
    BY <2>1, <2>2, AskQuiet, LeadsFurther
  <2> QED
    BY <2>2, <2>3
<1>17. PICK g : StatusAt(g, sh, log, head) /\ (g = 1 \/ g <= v.irr)
  BY <1>8
<1>18. v.irr <= v3.irr /\ v.irr \in Nat /\ v3.irr \in Nat
  BY <1>14, <1>15, LeadsUp
<1>19. /\ bl \in Seq(Infos) /\ Len(bl) = kept + n
       /\ \A i \in 1..kept : bl[i] = sh[i]
       /\ \A i \in 1..n : bl[kept + i] = Info(log[head + i])
  BY <1>7, <1>10 DEF SentTo
<1>20. /\ g \in Nat \ {0} /\ g - 1 + kept = head
       /\ sh = <<>> => g = 1
       /\ \A i \in 1..kept : sh[i] = Info(log[g - 1 + i])
  BY <1>7, <1>17 DEF StatusAt
<1>21. /\ head + n <= Len(v3.chain)
       /\ \A i \in 1..head + n : v3.chain[i] = log[i]
       /\ v3.chain \in Seq(Block) /\ Linked(v3.chain)
  BY <1>14 DEF Follows, Sound
<1> HIDE DEF log, bl
<1>22. TrackedFrom(g, bl, v3)
  <2>1. g - 1 + Len(bl) = head + n
    BY <1>2, <1>7, <1>19, <1>20
  <2>2. g = 1 \/ g <= v3.irr
    BY <1>17, <1>18, <1>20
  <2>3. bl = <<>> => g = 1
    <3>1. bl = <<>> => kept = 0
      BY <1>2, <1>7, <1>19, EmptySeq
    <3>2. kept = 0 => sh = <<>>
      BY <1>7, EmptySeq
    <3> QED
      BY <1>20, <3>1, <3>2
  <2>4. \A i \in 1..Len(bl) : bl[i] = Info(v3.chain[g - 1 + i])
    <3> SUFFICES ASSUME NEW i \in 1..kept + n PROVE bl[i] = Info(v3.chain[g - 1 + i])
      BY <1>19
    <3>1. g - 1 + i \in 1..head + n
      BY <1>2, <1>7, <1>20
    <3>2. v3.chain[g - 1 + i] = log[g - 1 + i]
      BY <1>21, <3>1
    <3>3. CASE i <= kept
      <4>1. i \in 1..kept
        BY <1>7, <3>3
      <4> QED
        BY <1>19, <1>20, <3>2, <4>1
    <3>4. CASE ~(i <= kept)
      <4> DEFINE j == i - kept
      <4>1. j \in 1..n /\ kept + j = i /\ head + j = g - 1 + i
        BY <1>2, <1>7, <1>20, <3>4
      <4> HIDE DEF j
      <4>2. bl[kept + j] = Info(log[head + j])
        BY <1>19, <4>1
      <4> QED
        BY <3>2, <4>1, <4>2
    <3> QED
      BY <3>3, <3>4
  <2> QED
    BY <1>20, <1>21, <2>1, <2>2, <2>3, <2>4 DEF TrackedFrom
<1>23. LastNum(bl) = head + n
  <2>1. LastNum(bl) = g - 1 + Len(bl)
    BY <1>19, <1>21, <1>22, TrackedLast
  <2> QED
    BY <1>2, <1>7, <1>19, <1>20, <2>1
<1>24. u.conn.status # Null =>
         /\ Tracked(u.conn.status.blocks, v3)
         /\ Ex => LastNum(u.conn.status.blocks) = Len(v3.chain)
  <2>1. SUFFICES ASSUME u.conn.status # Null
                 PROVE  /\ Tracked(u.conn.status.blocks, v3)
                        /\ Ex => LastNum(u.conn.status.blocks) = Len(v3.chain)
    OBVIOUS
  <2>2. u.conn.status.blocks = bl
    BY <1>3, <2>1 DEF bl
  <2> QED
    BY <1>14, <1>22, <1>23, <2>2 DEF Tracked
<1> QED
  BY <1>16, <1>24 DEF Answered, u, Ex, sb

-----------------------------------------------------------------------------
(* The box: what its own steps keep *)

LEMMA GoodIsMemory ==
  ASSUME NEW m, NEW tr, Good(m, tr)
  PROVE  m \in Memory /\ m # Null
<1> DEFINE chain == ChainOf(m, tr)
           irr == m.irreversible
           d == m.db
           un == d.undo
<1>1. Inv(m, tr) /\ Replayed(m, tr) /\ ~m.trapped
  BY DEF Good
<1>2. chain \in Seq(Block) /\ Len(chain) \in Nat /\ irr \in Nat
  BY <1>1, LogInChain
<1>3. /\ m = [blocks |-> m.blocks, irreversible |-> irr, trapped |-> m.trapped, db |-> d]
      /\ m.blocks \in Seq(Block) /\ irr \in UInt /\ m.trapped \in BOOLEAN
      /\ d = [table |-> d.table, undo |-> un, revision |-> d.revision]
      /\ un \in Seq(Range(un)) /\ d.revision \in Nat
  BY <1>1 DEF Inv, Shape, DbShape
<1>4. /\ d.table = Replay(chain)
      /\ \A i \in 1..Len(un) : un[i] = Replay(SubSeq(chain, 1, irr + i - 1))
      /\ Len(un) = Len(chain) - irr
  BY <1>1, <1>3 DEF Replayed, Holds, Inv, Sessions
<1>5. d.table \in Tables
  BY <1>2, <1>4, ReplayInTables
<1>6. ASSUME NEW i \in 1..Len(un) PROVE un[i] \in Tables
  <2>1. irr + i - 1 \in 0..Len(chain)
    BY <1>2, <1>4
  <2> DEFINE j == irr + i - 1
  <2> HIDE DEF j
  <2>2. SubSeq(chain, 1, j) \in Seq(Block)
    BY <1>2, <2>1, SubSeqProperties DEF j
  <2>3. Replay(SubSeq(chain, 1, j)) \in Tables
    BY <2>2, ReplayInTables
  <2> QED
    BY <1>4, <2>3 DEF j
<1>7. un \in Seq(Tables)
  BY <1>3, <1>6, ElementOfSeq
<1> HIDE DEF d, irr, un
<1>8. d \in [table : Tables, undo : Seq(Tables), revision : Nat]
  BY <1>3, <1>5, <1>7
<1>9. m \in Memory
  BY <1>3, <1>8 DEF Memory, Tables
<1> QED
  BY <1>9, NullAssumption

LEMMA InitializedGood == Good(Initialized, <<>>) /\ Initialized.blocks = <<>>
                          /\ Initialized.irreversible = 0
<1> DEFINE m == Initialized
<1>1. <<>> \in Seq(Block) /\ Len(<<>>) = 0 /\ m.blocks = <<>> /\ m.irreversible = 0
      /\ m.trapped = FALSE /\ m.db = EmptyDb(EmptyTable)
  BY EmptySeq DEF Initialized
<1>2. ChainOf(m, <<>>) = <<>>
  BY <1>1, ConcatEmptySeq DEF ChainOf
<1>3. DbShape(EmptyDb(EmptyTable))
  <2>1. <<>> \in Seq({})
    BY EmptySeq
  <2>2. DbShape([table |-> EmptyTable, undo |-> <<>>, revision |-> 0])
    BY <2>1, MakeDbShape
  <2> QED
    BY <2>2 DEF EmptyDb
<1>4. Shape(m, <<>>)
  BY <1>1, <1>3, WidthAssumption DEF Shape, Initialized, UInt
<1>5. Irreversible(m, <<>>)
  BY <1>1, <1>2 DEF Irreversible
<1>6. Sessions(m, <<>>)
  BY <1>1, <1>2 DEF Sessions, EmptyDb
<1>7. Linked(ChainOf(m, <<>>)) /\ SortedByEosioNum(ChainOf(m, <<>>))
  BY <1>1, <1>2 DEF Linked, SortedByEosioNum
<1>8. Holds(m.db, ChainOf(m, <<>>), m.irreversible)
  BY <1>1, <1>2, ReplayEmpty DEF Holds, EmptyDb
<1> QED
  BY <1>1, <1>4, <1>5, <1>6, <1>7, <1>8 DEF Good, Inv, Replayed

(* What is declared final is added to.                                     *)
Grown(final, more) ==
  /\ more \in Seq(Block) /\ Len(final) <= Len(more)
  /\ \A i \in 1..Len(final) : more[i] = final[i]

(* A block from the history provider, and what it then has declared final. *)
Declared(memory, final) ==
  IF Len(final) < memory.irreversible THEN FinalBlocks(memory) ELSE final

LEMMA PushKeeps ==
  ASSUME NEW m, NEW final, BoxSound(m, final), NEW e \in EosioBlock, NEW num \in UInt,
         ~addEosioBlock(m, e, num).trapped,
         \A i \in 1..Len(final) : i <= Len(addEosioBlock(m, e, num).blocks) =>
           addEosioBlock(m, e, num).blocks[i] = final[i]
  PROVE  LET m2 == addEosioBlock(m, e, num)
             final2 == Declared(m2, final)
         IN  /\ BoxSound(m2, final2) /\ Grown(final, final2)
             /\ Len(final) = m.irreversible => Len(final2) = m2.irreversible
<1> DEFINE m2 == addEosioBlock(m, e, num)
           final2 == Declared(m2, final)
           log == m.blocks
           log2 == m2.blocks
           irr == m.irreversible
           irr2 == m2.irreversible
           b == NextFor(log, e)
           j == BlockBeforeEosioNum(log, e.num)
           cut == SubSeq(log, 1, b.num - 1)
<1>1. /\ log \in Seq(Block) /\ Len(log) \in Nat /\ Linked(log) /\ SortedByEosioNum(log)
      /\ irr \in Nat /\ irr <= Len(log)
      /\ \A i \in 1..Len(log) : ~Undecodable(log[i])
      /\ irr < MaxUInt /\ final \in Seq(Block) /\ irr <= Len(final)
      /\ Good(m, <<>>)
  BY BoxLog DEF BoxSound
<1>2. ChainOf(m, <<>>) = log
  BY <1>1, ConcatEmptySeq DEF ChainOf
<1>3. Extended(m, <<>>, b, num, m2)
  <2>1. Extended(m, <<>>, NextFor(ChainOf(m, <<>>), e), num, addEosioBlock(m, e, num))
    BY <1>1, NumberAssumption, AddEosioBlockByChain
  <2> QED
    BY <1>2, <2>1
<1>4. /\ b \in Block /\ b.num = j + 1 /\ b.eosio = e /\ j \in 0..Len(log)
  BY <1>1, NumberAssumption, NextForIsBlock
<1>5. Inv(m2, <<>>) /\ Replayed(m2, <<>>)
  BY <1>3 DEF Extended
<1>6. Good(m2, <<>>)
  BY <1>5 DEF Good
<1>7. /\ log2 \in Seq(Block) /\ Len(log2) \in Nat /\ irr2 \in Nat /\ ChainOf(m2, <<>>) = log2
      /\ SortedByEosioNum(log2) /\ irr2 <= Len(log2)
  BY <1>5, LogInChain, ConcatEmptySeq DEF ChainOf, Inv, Irreversible
<1> HIDE DEF m2, log, log2, irr, irr2, b, j
<1>8. /\ irr <= irr2 /\ irr2 < MaxUInt
      /\ \A i \in 1..Len(log2) : ~Undecodable(log2[i])
  <2>1. CASE ~Takes(log, irr, b)
    <3>1. m2 = m
      BY <1>2, <1>3, <2>1 DEF Extended, irr
    <3> QED
      BY <1>1, <3>1 DEF log, log2, irr, irr2
  <2>2. CASE Takes(log, irr, b)
    <3>1. /\ log2 = Append(cut, b)
          /\ irr2 = FinalAfterNum(Append(cut, b), irr, num)
          /\ FilterBlock(Replay(cut), b.eosio).ok
      BY <1>2, <1>3, <1>7, <2>2 DEF Extended, irr, irr2, m2
    <3>2. /\ cut \in Seq(Block) /\ Len(cut) = j
          /\ \A i \in 1..j : cut[i] = log[i]
      <4>1. b.num - 1 = j
        BY <1>4
      <4> QED
        BY <1>1, <1>4, <4>1, SubSeqProperties
    <3>3. irr <= j
      BY <1>1, <1>4, <2>2 DEF Takes
    <3> HIDE DEF cut
    <3>4. /\ Len(log2) = j + 1 /\ \A i \in 1..j : log2[i] = log[i]
          /\ log2[j + 1] = b
      BY <1>4, <3>1, <3>2, AppendProperties
    <3>5. irr \in 0..Len(log2)
      BY <1>1, <1>4, <3>3, <3>4
    <3>6. irr2 \in irr..Len(log2) /\ irr2 < MaxUInt
      BY <1>1, <1>7, <3>1, <3>5, NumberAssumption, FinalAfterNumInRange
    <3>7. ~Undecodable(b)
      <4>1. Replay(cut) \in Tables
        BY <3>2, ReplayInTables
      <4>2. \A i \in 1..Len(e.actions) : e.actions[i].kind # "undecodable"
        BY <1>4, <3>1, <4>1, FilterBlockRuns
      <4> QED
        BY <1>4, <4>2 DEF Undecodable
    <3>8. \A i \in 1..Len(log2) : ~Undecodable(log2[i])
      <4> SUFFICES ASSUME NEW i \in 1..Len(log2) PROVE ~Undecodable(log2[i])
        OBVIOUS
      <4>1. CASE i = j + 1
        BY <3>4, <3>7, <4>1
      <4>2. CASE i # j + 1
        <5>1. i \in 1..j /\ i \in 1..Len(log)
          BY <1>1, <1>4, <3>4, <4>2
        <5> QED
          BY <1>1, <3>4, <5>1
      <4> QED
        BY <4>1, <4>2
    <3> QED
      BY <1>1, <3>6, <3>8
  <2> QED
    BY <2>1, <2>2
<1>9. \A i \in 1..Len(final) : i <= Len(log2) => log2[i] = final[i]
  BY DEF log2, m2
<1>10. CASE Len(final) < irr2
  <2>1. final2 = SubSeq(log2, 1, irr2)
    BY <1>10 DEF Declared, FinalBlocks, irr2, log2
  <2>2. /\ final2 \in Seq(Block) /\ Len(final2) = irr2
        /\ \A i \in 1..irr2 : final2[i] = log2[i]
    BY <1>7, <2>1, SubSeqProperties
  <2> HIDE DEF final2
  <2>3. Grown(final, final2)
    <3>1. Len(final) \in Nat
      BY <1>1
    <3>2. \A i \in 1..Len(final) : i \in 1..irr2 /\ i <= Len(log2)
      BY <1>7, <1>10, <3>1
    <3> QED
      BY <1>9, <1>10, <2>2, <3>1, <3>2 DEF Grown
  <2>4. BoxSound(m2, final2)
    BY <1>6, <1>7, <1>8, <2>2 DEF BoxSound, log2, irr2
  <2> QED
    BY <2>2, <2>3, <2>4 DEF final2, m2, irr2
<1>11. CASE ~(Len(final) < irr2)
  <2>1. final2 = final
    BY <1>11 DEF Declared, irr2
  <2>2. Len(final) \in Nat /\ irr2 <= Len(final)
    BY <1>1, <1>7, <1>11
  <2>3. BoxSound(m2, final)
    BY <1>1, <1>6, <1>8, <1>9, <2>2 DEF BoxSound, log2, irr2
  <2>4. Len(final) = irr => Len(final) = irr2
    BY <1>1, <1>7, <1>8, <2>2
  <2>5. Grown(final, final)
    BY <1>1, <2>2 DEF Grown
  <2> QED
    BY <2>1, <2>3, <2>4, <2>5 DEF m2, irr, irr2
<1> QED
  BY <1>10, <1>11

LEMMA UndoKeeps ==
  ASSUME NEW m, NEW final, BoxSound(m, final), NEW num \in UInt
  PROVE  LET m2 == undoEosioNum(m, num)
         IN  BoxSound(m2, final) /\ m2.irreversible = m.irreversible
<1> DEFINE m2 == undoEosioNum(m, num)
           log == m.blocks
           log2 == m2.blocks
           j == BlockBeforeEosioNum(log, num)
<1>1. /\ log \in Seq(Block) /\ Len(log) \in Nat /\ Linked(log) /\ SortedByEosioNum(log)
      /\ \A i \in 1..Len(log) : ~Undecodable(log[i])
      /\ Good(m, <<>>)
      /\ \A i \in 1..Len(final) : i <= Len(log) => log[i] = final[i]
  BY BoxLog DEF BoxSound
<1>2. ChainOf(m, <<>>) = log
  BY <1>1, ConcatEmptySeq DEF ChainOf
<1>3. /\ Good(m2, <<>>) /\ m2.irreversible = m.irreversible
      /\ ChainOf(m2, <<>>) = UndoneByEosioNum(log, m.irreversible, num)
  BY <1>1, <1>2, UndoEosioNumByChain
<1>4. log2 \in Seq(Block) /\ ChainOf(m2, <<>>) = log2
  BY <1>3, LogInChain, ConcatEmptySeq DEF ChainOf, Good
<1>5. j \in 0..Len(log)
  BY <1>1, LowerBoundByEosioNumSeparates DEF BlockBeforeEosioNum
<1>6. log2 = SubSeq(log, 1, j) \/ log2 = log
  BY <1>3, <1>4 DEF UndoneByEosioNum
<1> HIDE DEF log, log2, m2, j
<1>7. Len(log2) \in 0..Len(log) /\ \A i \in 1..Len(log2) : log2[i] = log[i]
  BY <1>1, <1>5, <1>6, SubSeqProperties
<1>8. \A i \in 1..Len(log2) : i \in 1..Len(log)
  BY <1>1, <1>7
<1>9. \A i \in 1..Len(log2) : ~Undecodable(log2[i])
  BY <1>1, <1>7, <1>8
<1>10. \A i \in 1..Len(final) : i <= Len(log2) => log2[i] = final[i]
  <2> SUFFICES ASSUME NEW i \in 1..Len(final), i <= Len(log2) PROVE log2[i] = final[i]
    OBVIOUS
  <2>1. i \in 1..Len(log2) /\ i <= Len(log)
    BY <1>1, <1>7
  <2> QED
    BY <1>1, <1>7, <2>1
<1>11. BoxSound(m2, final)
  BY <1>3, <1>9, <1>10 DEF BoxSound, log2
<1> QED
  BY <1>3, <1>11 DEF m2

(* A client that starts has the box's chain, or nothing.                   *)
LEMMA StartSound ==
  ASSUME NEW memory, NEW final, BoxSound(memory, final),
         NEW state \in {Null, trimBlocks(memory)}
  PROVE  \E ts : /\ Good(NewMemory(state), ts)
                 /\ Sound(View(NewMemory(state), ts), final)
<1>1. CASE state = Null
  <2>1. NewMemory(state) = Initialized
    BY <1>1 DEF NewMemory
  <2>2. View(Initialized, <<>>) = [chain |-> <<>>, irr |-> 0]
    BY InitializedGood, ConcatEmptySeq, EmptySeq DEF View, ChainOf
  <2>3. <<>> \in Seq(Block) /\ Len(<<>>) = 0 /\ final \in Seq(Block) /\ Len(final) \in Nat
    BY EmptySeq DEF BoxSound
  <2> DEFINE empty == <<>>
             v == View(Initialized, <<>>)
  <2>4. v.chain = empty /\ v.irr = 0
    BY <2>2
  <2>5. Linked(empty) /\ SortedByEosioNum(empty)
    BY <2>3 DEF Linked, SortedByEosioNum
  <2>6. empty \in Seq(Block) /\ Len(empty) = 0 /\ Len(final) \in Nat
    BY <2>3
  <2> HIDE DEF empty, v
  <2>7. Sound(v, final)
    BY <2>4, <2>5, <2>6 DEF Sound
  <2> QED
    BY <2>1, <2>7, InitializedGood DEF v
<1>2. CASE state # Null
  <2>1. NewMemory(state) = trimBlocks(memory)
    BY <1>2 DEF NewMemory
  <2>2. Good(memory, <<>>) /\ ChainOf(memory, <<>>) = memory.blocks
    BY BoxLog, ConcatEmptySeq DEF BoxSound, ChainOf
  <2>3. PICK ts : /\ Good(trimBlocks(memory), ts)
                  /\ ChainOf(trimBlocks(memory), ts) = memory.blocks
                  /\ trimBlocks(memory).irreversible = memory.irreversible
    BY <2>2, TrimGood
  <2>4. View(trimBlocks(memory), ts) = [chain |-> memory.blocks, irr |-> memory.irreversible]
    BY <2>3 DEF View
  <2> DEFINE log == memory.blocks
             irr == memory.irreversible
  <2>5. /\ log \in Seq(Block) /\ Len(log) \in Nat /\ Linked(log) /\ SortedByEosioNum(log)
        /\ irr \in Nat /\ irr <= Len(log) /\ irr <= Len(final) /\ Len(final) \in Nat
        /\ \A i \in 1..Len(final) : i <= Len(log) => log[i] = final[i]
    BY BoxLog DEF BoxSound
  <2> HIDE DEF log, irr
  <2>6. \A i \in 1..irr : log[i] = final[i]
    BY <2>5
  <2>7. Sound([chain |-> log, irr |-> irr], final)
    BY <2>5, <2>6 DEF Sound
  <2> QED
    BY <2>1, <2>3, <2>4, <2>7 DEF log, irr
<1> QED
  BY <1>1, <1>2

-----------------------------------------------------------------------------
(* What the box knows of its client, while messages are under way          *)

(* The one request for a status ends what is under way.                    *)
EndsAsking(q) ==
  /\ q \in Seq(Msgs) /\ q # <<>>
  /\ Asks(q[Len(q)]) /\ \A i \in 1..Len(q) - 1 : ~Asks(q[i])

(* A status is asked for once, is on its way once, or is with the box.     *)
Asked(m, q, c, u) ==
  \/ c.status = Null /\ u = <<ClientStatus(m)>> /\ q = <<>>
  \/ c.status = Null /\ u = <<>> /\ EndsAsking(q)
  \/ c.status # Null /\ u = <<>> /\ Quiet(q)

(* The status of the connection, against what the client will come to.     *)
Knows(c, v, kept) ==
  c.status # Null =>
    Tracked(c.status.blocks, v) /\ (kept => LastNum(c.status.blocks) = Len(v.chain))

Comes(m, tr, q, v, c, final, kept) ==
  Good(m, tr) /\ Leads(View(m, tr), q, v, final) /\ Knows(c, v, kept)

Aware(m, q, c, u, final, kept) ==
  /\ \E tr, v : Comes(m, tr, q, v, c, final, kept)
  /\ c.open => Asked(m, q, c, u)

LEMMA CutConcat ==
  ASSUME NEW q \in Seq(Msgs), NEW r \in Seq(Msgs), NEW k \in 0..Len(q)
  PROVE  /\ SubSeq(q \o r, k + 1, Len(q \o r)) = SubSeq(q, k + 1, Len(q)) \o r
         /\ SubSeq(q \o r, 1, Len(q)) = q
         /\ SubSeq(q, k + 1, Len(q)) \in Seq(Msgs)
<1> DEFINE n == Len(q)
           l == Len(r)
           a == SubSeq(q \o r, k + 1, Len(q \o r))
           b == SubSeq(q, k + 1, n)
<1>1. n \in Nat /\ l \in Nat /\ k \in Nat /\ k <= n
  OBVIOUS
<1>2. /\ q \o r \in Seq(Msgs) /\ Len(q \o r) = n + l
      /\ \A i \in 1..n + l : (q \o r)[i] = IF i <= n THEN q[i] ELSE r[i - n]
  BY ConcatProperties
<1>3. b \in Seq(Msgs) /\ Len(b) = n - k /\ \A i \in 1..n - k : b[i] = q[k + i]
  BY <1>1, SubSeqProperties
<1>4. a \in Seq(Msgs) /\ Len(a) = n + l - k /\ \A i \in 1..n + l - k : a[i] = (q \o r)[k + i]
  BY <1>1, <1>2, SubSeqProperties
<1>5. /\ b \o r \in Seq(Msgs) /\ Len(b \o r) = n - k + l
      /\ \A i \in 1..n - k + l : (b \o r)[i] = IF i <= n - k THEN b[i] ELSE r[i - (n - k)]
  <2> DEFINE c == b \o r
  <2> HIDE DEF b
  <2>1. /\ c \in Seq(Msgs) /\ Len(c) = Len(b) + Len(r)
        /\ \A i \in 1..Len(b) + Len(r) : c[i] = IF i <= Len(b) THEN b[i] ELSE r[i - Len(b)]
    BY <1>3, ConcatProperties
  <2> HIDE DEF c
  <2> QED
    BY <1>3, <2>1 DEF c
<1>6. a = b \o r
  <2> DEFINE c == b \o r
             d == q \o r
  <2> HIDE DEF a, b, n, l, c, d
  <2>1. Len(a) = Len(c)
    BY <1>1, <1>4, <1>5 DEF c
  <2>2. ASSUME NEW i \in 1..Len(a) PROVE a[i] = c[i]
    <3>1. k + i \in 1..n + l /\ i \in 1..n + l - k /\ i \in 1..n - k + l
          /\ (i <= n - k <=> k + i <= n) /\ i - (n - k) = (k + i) - n
      BY <1>1, <1>4
    <3>2. a[i] = IF k + i <= n THEN q[k + i] ELSE r[(k + i) - n]
      BY <1>2, <1>4, <3>1
    <3>3. c[i] = IF i <= n - k THEN b[i] ELSE r[i - (n - k)]
      BY <1>5, <3>1 DEF c
    <3>4. i <= n - k => b[i] = q[k + i]
      BY <1>1, <1>3, <3>1
    <3> QED
      BY <3>1, <3>2, <3>3, <3>4
  <2>3. a \in Seq(Msgs) /\ c \in Seq(Msgs)
    BY <1>4, <1>5 DEF c
  <2> QED
    BY <2>1, <2>2, <2>3, SeqEqual DEF c
<1>7. SubSeq(q \o r, 1, n) = q
  <2>1. /\ SubSeq(q \o r, 1, n) \in Seq(Msgs) /\ Len(SubSeq(q \o r, 1, n)) = n
        /\ \A i \in 1..n : SubSeq(q \o r, 1, n)[i] = (q \o r)[i]
    BY <1>1, <1>2, SubSeqProperties
  <2>2. \A i \in 1..n : (q \o r)[i] = q[i]
    BY <1>1, <1>2
  <2> QED
    BY <2>1, <2>2, SeqEqual
<1> QED
  BY <1>3, <1>6, <1>7

LEMMA LeadsThrough ==
  ASSUME NEW v, NEW q \in Seq(Msgs), NEW r \in Seq(Msgs), NEW v2, NEW final,
         Leads(v, q \o r, v2, final)
  PROVE  \E v1 : Leads(v, q, v1, final)
<1>1. PICK w : SoundPath(w, v, q \o r, final)
  BY DEF Leads
<1>2. q \o r \in Seq(Msgs) /\ Len(q) \in 0..Len(q \o r)
  BY ConcatProperties
<1>3. Leads(v, SubSeq(q \o r, 1, Len(q)), w[Len(q)], final)
  BY <1>1, <1>2, PathCut
<1>4. SubSeq(q \o r, 1, Len(q)) = q
  <2>1. 0 \in 0..Len(q)
    OBVIOUS
  <2> QED
    BY <2>1, CutConcat
<1> QED
  BY <1>3, <1>4

(* A connection that breaks, or a box that loses it.                       *)
LEMMA AwareClosed ==
  ASSUME NEW m, NEW q \in Seq(Msgs), NEW r \in Seq(Msgs), NEW c, NEW u, NEW final,
         NEW kept, Aware(m, q \o r, c, u, final, kept), NEW u2, NEW kept2
  PROVE  Aware(m, q, Closed, u2, final, kept2)
<1>1. PICK tr, v : Good(m, tr) /\ Leads(View(m, tr), q \o r, v, final)
  BY DEF Aware, Comes
<1>2. PICK v1 : Leads(View(m, tr), q, v1, final)
  BY <1>1, LeadsThrough
<1>3. Closed.open = FALSE /\ Closed.status = Null
  BY DEF Closed
<1> QED
  BY <1>1, <1>2, <1>3 DEF Aware, Comes, Knows

(* More is final.                                                          *)
LEMMA AwareStill ==
  ASSUME NEW m, NEW q, NEW c, NEW u, NEW final \in Seq(Block), NEW kept,
         Aware(m, q, c, u, final, kept), NEW more, Grown(final, more)
  PROVE  Aware(m, q, c, u, more, kept)
<1>1. PICK tr, v : Comes(m, tr, q, v, c, final, kept)
  BY DEF Aware
<1>2. Leads(View(m, tr), q, v, more)
  BY <1>1, LeadsStill DEF Comes, Grown
<1> QED
  BY <1>1, <1>2 DEF Aware, Comes

(* The box answers a status.                                               *)
LEMMA AwareAnswer ==
  ASSUME NEW m, NEW q, Quiet(q), NEW memory, NEW final, BoxSound(memory, final),
         NEW c, ConnShape(c), c.status \in Asking, NEW kept,
         kept => Len(final) = memory.irreversible,
         NEW tr, NEW v, Comes(m, tr, q, v, c, final, kept)
  PROVE  Aware(m, q \o update(c, memory).sent, update(c, memory).conn, <<>>, final, kept)
<1> DEFINE u == update(c, memory)
           st == u.conn.status
<1>1. c.status # Null
  BY NullAssumption DEF Asking
<1>2. PICK r : Told(u, r)
  BY UpdateAnswers
<1>3. /\ Good(m, tr) /\ Leads(View(m, tr), q, v, final)
      /\ Tracked(c.status.blocks, v)
      /\ kept => Exact(c.status.blocks, v, memory, final)
  BY <1>1 DEF Comes, Knows, Exact
<1>4. Sound(v, final)
  BY <1>3 DEF Leads, SoundPath
<1>5. PICK v2 : Answered(c, memory, v, v2, final)
  BY <1>3, <1>4, UpdateLeads
<1> HIDE DEF u
<1>6. /\ Leads(v, u.sent, v2, final)
      /\ st # Null => /\ Tracked(st.blocks, v2)
                      /\ kept => LastNum(st.blocks) = Len(v2.chain)
  BY <1>3, <1>5 DEF Answered, u
<1>7. r \in Seq(Msgs) /\ q \in Seq(Msgs) /\ Quiet(r)
      /\ (\/ st = Null /\ u.sent = r \o <<AskMsg>>
          \/ st \in Asking /\ u.sent = r)
  BY <1>2 DEF Told, Quiet
<1>8. u.sent \in Seq(Msgs)
  BY <1>7, AskQuiet, ConcatProperties
<1>9. Leads(View(m, tr), q \o u.sent, v2, final)
  BY <1>3, <1>6, <1>7, <1>8, LeadsFurther
<1>10. Comes(m, tr, q \o u.sent, v2, u.conn, final, kept)
  BY <1>3, <1>6, <1>9 DEF Comes, Knows
<1>11. CASE st = Null /\ u.sent = r \o <<AskMsg>>
  <2> DEFINE s == q \o r
             ask == <<AskMsg>>
             all == s \o ask
  <2>1. Quiet(s)
    BY <1>7, QuietConcat
  <2>2. q \o u.sent = all
    BY <1>7, <1>11, AskQuiet, ConcatAssociative
  <2>3. s \in Seq(Msgs) /\ Len(s) \in Nat /\ ask \in Seq(Msgs) /\ Len(ask) = 1
        /\ ask[1] = AskMsg
    BY <2>1, AskQuiet DEF Quiet
  <2> HIDE DEF s, ask
  <2>4. /\ all \in Seq(Msgs) /\ Len(all) = Len(s) + 1
        /\ \A i \in 1..Len(s) + 1 : all[i] = IF i <= Len(s) THEN s[i] ELSE ask[i - Len(s)]
    <3>1. /\ all \in Seq(Msgs) /\ Len(all) = Len(s) + Len(ask)
          /\ \A i \in 1..Len(s) + Len(ask) :
               all[i] = IF i <= Len(s) THEN s[i] ELSE ask[i - Len(s)]
      BY <2>3, ConcatProperties
    <3> HIDE DEF all
    <3> QED
      BY <2>3, <3>1
  <2> HIDE DEF all
  <2>5. EndsAsking(all)
    <3>1. all[Len(all)] = AskMsg
      <4>1. Len(s) + 1 \in 1..Len(s) + 1 /\ ~(Len(s) + 1 <= Len(s)) /\ (Len(s) + 1) - Len(s) = 1
        BY <2>3
      <4> QED
        BY <2>3, <2>4, <4>1
    <3>2. \A i \in 1..Len(all) - 1 : ~Asks(all[i])
      <4> SUFFICES ASSUME NEW i \in 1..Len(all) - 1 PROVE ~Asks(all[i])
        OBVIOUS
      <4>1. i \in 1..Len(s) /\ i \in 1..Len(s) + 1 /\ i <= Len(s)
        BY <2>3, <2>4
      <4> QED
        BY <2>1, <2>4, <4>1 DEF Quiet
    <3>3. all # <<>>
      BY <2>3, <2>4, EmptySeq
    <3> QED
      BY <2>4, <3>1, <3>2, <3>3, AskQuiet DEF EndsAsking
  <2> QED
    BY <1>10, <1>11, <2>2, <2>5 DEF Aware, Asked, u
<1>12. CASE st \in Asking /\ u.sent = r
  <2>1. st # Null
    BY <1>12, NullAssumption DEF Asking
  <2>2. Quiet(q \o u.sent)
    BY <1>7, <1>12, QuietConcat
  <2> QED
    BY <1>10, <2>1, <2>2 DEF Aware, Asked, u
<1> QED
  BY <1>7, <1>11, <1>12

-----------------------------------------------------------------------------
(* What processQueue keeps *)

Reading(r) == IF r = Null THEN <<>> ELSE <<BlockMsg(r)>>

LEMMA RunExists ==
  ASSUME NEW m, NEW q \in Seq(Msgs)
  PROVE  \E ms : IsRun(ms, m, q) /\ HandledAll(m, q) = ms[Len(q)]
<1>1. Len(q) \in Nat /\ DOMAIN q = 1..Len(q)
  OBVIOUS
<1>2. PICK ms : HandledTo(ms, m, Len(q), q)
  BY <1>1, HandledRun
<1> QED
  BY <1>2 DEF HandledTo, IsRun

LEMMA QueueTypes ==
  ASSUME NEW m, NEW tr, Good(m, tr), NEW q \in Seq(Msgs),
         up \in Seq(Asking), ws \in {"null", "connecting", "open"}
  PROVE  LET s == HandleAll(Fresh(m), q) IN
         /\ \E ts : Good(s.mem, ts)
         /\ s.up \in Seq(Asking) /\ s.queue \in Seq(Msgs)
         /\ s.reading # Null => s.reading \in Decodable
<1> DEFINE s == HandleAll(Fresh(m), q)
<1>1. PICK ms : IsRun(ms, m, q)
  BY RunExists
<1>2. PICK k \in 0..Len(q) : Stage(s, ms, q, Len(q), k)
  BY <1>1, QueueStage
<1> HIDE DEF s
<1>3. PICK ts : Good(ms[k], ts)
  BY <1>1, RunStaysGood
<1>4. s.mem = ms[k]
  BY <1>2 DEF Stage
<1>5. s.up \in Seq(Asking)
  BY <1>2 DEF Stage, UpAfter
<1>6. s.queue \in Seq(Msgs)
  <2>1. SubSeq(q, k + 2, Len(q)) \in Seq(Msgs)
    <3> DEFINE from == k + 2
               n == Len(q)
    <3>1. from \in Int /\ n \in Int /\ \A i \in from..n : q[i] \in Msgs
      OBVIOUS
    <3> HIDE DEF from, n
    <3> QED
      BY <3>1, SubSeqProperties DEF from, n
  <2>2. s.queue = <<>> \/ s.queue = SubSeq(q, k + 2, Len(q))
    BY <1>2 DEF Stage
  <2>3. <<>> \in Seq(Msgs)
    BY EmptySeq
  <2> QED
    BY <2>1, <2>2, <2>3, Zenon
<1>7. s.reading # Null => s.reading \in Decodable
  <2>1. SUFFICES ASSUME s.reading # Null PROVE s.reading \in Decodable
    OBVIOUS
  <2>2. k < Len(q) /\ q[k + 1].type = "block" /\ s.reading = q[k + 1].block
    BY <1>2, <2>1 DEF Stage
  <2>3. q[k + 1] \in Msgs
    BY <2>2
  <2> QED
    BY <2>2, <2>3 DEF Msgs
<1> QED
  BY <1>3, <1>4, <1>5, <1>6, <1>7 DEF s

(* The block that is being read and the queue behind it are what is left.  *)
LEMMA QueueLeft ==
  ASSUME NEW q \in Seq(Msgs), NEW ms, NEW k \in 0..Len(q), NEW s,
         Stage(s, ms, q, Len(q), k), ws # "connecting"
  PROVE  /\ s.reading = Null => s.queue = <<>>
         /\ Reading(s.reading) \o s.queue = SubSeq(q, k + 1, Len(q))
<1> DEFINE n == Len(q)
<1>1. n \in Nat /\ k \in Nat /\ k <= n
  OBVIOUS
<1>2. CASE k = n
  <2>1. s.queue = <<>> /\ s.reading = Null
    BY <1>1, <1>2 DEF Stage
  <2>2. SubSeq(q, k + 1, n) = <<>>
    BY <1>1, <1>2, SubSeqEmpty
  <2>3. <<>> \o <<>> = <<>>
    BY EmptySeq, ConcatEmptySeq
  <2> QED
    BY <2>1, <2>2, <2>3 DEF Reading
<1>3. CASE k # n
  <2>1. /\ q[k + 1].type = "block" /\ s.reading = q[k + 1].block
        /\ s.queue = SubSeq(q, k + 2, n)
    BY <1>3 DEF Stage
  <2>2. q[k + 1] \in Msgs /\ k + 1 \in 1..n /\ n \in k + 1..n /\ (k + 1) + 1 = k + 2
    BY <1>1, <1>3
  <2>3. q[k + 1] = BlockMsg(s.reading) /\ s.reading \in Block
    BY <2>1, <2>2 DEF Msgs, BlockMsg, Decodable
  <2>4. s.reading # Null
    BY <2>3, NullAssumption
  <2>5. SubSeq(q, k + 1, n) = <<q[k + 1]>> \o SubSeq(q, k + 2, n)
    BY <2>2, SubSeqRecursiveFirst
  <2> QED
    BY <2>1, <2>3, <2>4, <2>5 DEF Reading
<1> QED
  BY <1>2, <1>3

LEMMA QueueAware ==
  ASSUME NEW m, NEW q \in Seq(Msgs), NEW rest \in Seq(Msgs), NEW c, NEW final, NEW kept,
         Aware(m, q \o rest, c, up, final, kept),
         up \in Seq(Asking), ws \in {"null", "open"}, c.open => ws = "open"
  PROVE  LET s == HandleAll(Fresh(m), q) IN
         /\ s.reading = Null => s.queue = <<>>
         /\ Aware(s.mem, (Reading(s.reading) \o s.queue) \o rest, c,
                  IF c.open THEN s.up ELSE <<>>, final, kept)
<1> DEFINE s == HandleAll(Fresh(m), q)
           all == q \o rest
           n == Len(q)
           l == Len(all)
<1>1. PICK tr, v : Comes(m, tr, all, v, c, final, kept)
  BY DEF Aware
<1>2. PICK ms : IsRun(ms, m, q)
  BY RunExists
<1>3. Good(m, tr) /\ Leads(View(m, tr), all, v, final) /\ Knows(c, v, kept)
  BY <1>1 DEF Comes
<1>4. PICK k \in 0..n : Stage(s, ms, q, n, k)
  BY <1>2, <1>3, QueueStage
<1> HIDE DEF s
<1>5. n \in Nat /\ k \in Nat /\ k <= n /\ l \in Nat /\ n <= l
      /\ all \in Seq(Msgs) /\ l = n + Len(rest) /\ Len(rest) \in Nat
      /\ \A i \in 1..n : all[i] = q[i]
  <2>1. /\ all \in Seq(Msgs) /\ l = n + Len(rest)
        /\ \A i \in 1..n + Len(rest) : all[i] = IF i <= n THEN q[i] ELSE rest[i - n]
    BY ConcatProperties
  <2>2. n \in Nat /\ Len(rest) \in Nat
    OBVIOUS
  <2>3. \A i \in 1..n : i \in 1..n + Len(rest) /\ i <= n
    BY <2>2
  <2> HIDE DEF all, n, l
  <2> QED
    BY <2>1, <2>2, <2>3
<1>6. /\ s.reading = Null => s.queue = <<>>
      /\ (Reading(s.reading) \o s.queue) \o rest = SubSeq(all, k + 1, l)
  <2>1. /\ s.reading = Null => s.queue = <<>>
        /\ Reading(s.reading) \o s.queue = SubSeq(q, k + 1, n)
    BY <1>4, QueueLeft
  <2>2. SubSeq(all, k + 1, l) = SubSeq(q, k + 1, n) \o rest
    BY CutConcat
  <2> QED
    BY <2>1, <2>2
<1> DEFINE left == SubSeq(all, k + 1, l)
           u == IF c.open THEN s.up ELSE <<>>
<1>7. s.mem = ms[k] /\ UpAfter(s.up, ms, q, k)
  BY <1>4 DEF Stage
<1>8. PICK w : SoundPath(w, View(m, tr), all, final) /\ w[l] = v
  BY <1>3 DEF Leads
<1>9. PICK ts : Good(ms[k], ts) /\ View(ms[k], ts) = w[k]
  <2>1. IsPath(w, View(m, tr), q)
    <3>1. \A i \in 1..n : i \in 1..l
      BY <1>5
    <3> QED
      BY <1>5, <1>8, <3>1 DEF SoundPath, IsPath
  <2> QED
    BY <1>2, <1>3, <2>1, RunFollowsPath
<1>10. Leads(View(ms[k], ts), left, v, final)
  <2>1. k \in 0..l
    BY <1>5
  <2> QED
    BY <1>5, <1>8, <1>9, <2>1, PathCut
<1>11. Comes(s.mem, ts, left, v, c, final, kept)
  BY <1>3, <1>7, <1>9, <1>10 DEF Comes
<1>12. c.open => Asked(s.mem, left, c, u)
  <2>1. SUFFICES ASSUME c.open PROVE Asked(s.mem, left, c, s.up)
    OBVIOUS
  <2>2. Asked(m, all, c, up) /\ ws = "open"
    BY <2>1 DEF Aware
  <2>3. left \in Seq(Msgs) /\ Len(left) = l - k /\ \A i \in 1..l - k : left[i] = all[k + i]
    BY <1>5, SubSeqProperties
  <2> HIDE DEF left, all, n, l
  <2>4. CASE c.status = Null /\ up = <<ClientStatus(m)>> /\ all = <<>>
    <3>1. l = 0 /\ k = 0
      BY <1>5, <2>4, EmptySeq DEF l
    <3>2. ms[0] = m /\ s.up = up
      BY <1>2, <1>7, <3>1 DEF IsRun, UpAfter
    <3>3. left = <<>>
      BY <2>3, <3>1, EmptySeq
    <3> QED
      BY <1>7, <2>4, <3>1, <3>2, <3>3 DEF Asked
  <2>5. CASE c.status = Null /\ up = <<>> /\ EndsAsking(all)
    <3>1. Asks(all[l]) /\ l > 0 /\ \A i \in 1..l - 1 : ~Asks(all[i])
      BY <1>5, <2>5, EmptySeq DEF EndsAsking, l
    <3>2. CASE k = l
      <4>1. n = l /\ k > 0 /\ k = n
        BY <1>5, <3>1, <3>2
      <4>2. \A i \in 1..k - 1 : ~Asks(q[i])
        <5> SUFFICES ASSUME NEW i \in 1..k - 1 PROVE ~Asks(q[i])
          OBVIOUS
        <5>1. i \in 1..n /\ i \in 1..l - 1
          BY <1>5, <3>2, <4>1
        <5> QED
          BY <1>5, <3>1, <5>1
      <4>3. q[k] = all[l] /\ Asks(q[k])
        <5>1. k \in 1..n
          BY <1>5, <4>1
        <5> QED
          BY <1>5, <3>1, <3>2, <5>1
      <4>4. s.up = Append(up, ClientStatus(ms[k]))
        BY <1>7, <2>2, <4>1, <4>2, <4>3 DEF UpAfter
      <4>5. s.up = <<ClientStatus(s.mem)>>
        BY <1>7, <2>5, <4>4
      <4>6. left = <<>>
        BY <1>5, <2>3, <3>2, EmptySeq
      <4> QED
        BY <2>5, <4>5, <4>6 DEF Asked
    <3>3. CASE k # l
      <4>1. k < l
        BY <1>5, <3>3
      <4>2. \A i \in 1..k : ~Asks(q[i])
        <5> SUFFICES ASSUME NEW i \in 1..k PROVE ~Asks(q[i])
          OBVIOUS
        <5>1. i \in 1..n /\ i \in 1..l - 1
          BY <1>5, <4>1
        <5> QED
          BY <1>5, <3>1, <5>1
      <4>3. s.up = up
        BY <1>7, <4>2 DEF UpAfter
      <4>4. left # <<>>
        BY <1>5, <2>3, <4>1, EmptySeq
      <4>5. Asks(left[Len(left)])
        <5>1. l - k \in 1..l - k /\ k + (l - k) = l
          BY <1>5, <4>1
        <5> QED
          BY <2>3, <3>1, <5>1
      <4>6. \A i \in 1..Len(left) - 1 : ~Asks(left[i])
        <5> SUFFICES ASSUME NEW i \in 1..Len(left) - 1 PROVE ~Asks(left[i])
          OBVIOUS
        <5>1. i \in 1..l - k /\ k + i \in 1..l - 1
          BY <1>5, <2>3
        <5> QED
          BY <2>3, <3>1, <5>1
      <4>7. EndsAsking(left)
        BY <2>3, <4>4, <4>5, <4>6 DEF EndsAsking
      <4> QED
        BY <2>5, <4>3, <4>7 DEF Asked
    <3> QED
      BY <3>2, <3>3
  <2>6. CASE c.status # Null /\ up = <<>> /\ Quiet(all)
    <3>1. \A i \in 1..l : ~Asks(all[i])
      BY <2>6 DEF Quiet, l
    <3>2. \A i \in 1..k : ~Asks(q[i])
      <4> SUFFICES ASSUME NEW i \in 1..k PROVE ~Asks(q[i])
        OBVIOUS
      <4>1. i \in 1..n /\ i \in 1..l
        BY <1>5
      <4> QED
        BY <1>5, <3>1, <4>1
    <3>3. s.up = up
      BY <1>7, <3>2 DEF UpAfter
    <3>4. Quiet(left)
      <4> SUFFICES ASSUME NEW i \in 1..Len(left) PROVE ~Asks(left[i])
        BY <2>3 DEF Quiet
      <4>1. i \in 1..l - k /\ k + i \in 1..l
        BY <1>5, <2>3
      <4> QED
        BY <2>3, <3>1, <4>1
    <3> QED
      BY <2>6, <3>3, <3>4 DEF Asked
  <2> QED
    BY <2>2, <2>4, <2>5, <2>6 DEF Asked
<1>13. Aware(s.mem, left, c, u, final, kept)
  BY <1>11, <1>12 DEF Aware
<1> HIDE DEF left, all, l
<1> QED
  BY <1>6, <1>13 DEF s, left

(* The block that has been read is pushed, whether or not it is taken.     *)
LEMMA BlockAware ==
  ASSUME NEW m, NEW b \in Decodable, NEW q \in Seq(Msgs), NEW c, NEW u, NEW final, NEW kept,
         Aware(m, <<BlockMsg(b)>> \o q, c, u, final, kept)
  PROVE  Aware(addBlock(m, b, 0), q, c, u, final, kept)
<1> DEFINE x == BlockMsg(b)
           one == <<x>>
           all == one \o q
           m2 == addBlock(m, b, 0)
<1>1. PICK tr, v : Comes(m, tr, all, v, c, final, kept)
  BY DEF Aware
<1>2. Good(m, tr) /\ Leads(View(m, tr), all, v, final) /\ Knows(c, v, kept)
  BY <1>1 DEF Comes
<1>3. x \in Msgs /\ ~Asks(x) /\ one \in Seq(Msgs) /\ Len(one) = 1 /\ one[1] = x
  <2>1. x \in Msgs /\ ~Asks(x)
    BY MsgsQuiet
  <2> HIDE DEF x
  <2> QED
    BY <2>1
<1>4. Handled(m, x) = m2
  BY DEF Handled, BlockMsg
<1> HIDE DEF x, one, m2
<1>5. /\ all \in Seq(Msgs) /\ Len(all) = 1 + Len(q) /\ Len(q) \in Nat
      /\ \A i \in 1..1 + Len(q) : all[i] = IF i <= 1 THEN one[i] ELSE q[i - 1]
  <2>1. /\ all \in Seq(Msgs) /\ Len(all) = Len(one) + Len(q)
        /\ \A i \in 1..Len(one) + Len(q) :
             all[i] = IF i <= Len(one) THEN one[i] ELSE q[i - Len(one)]
    BY <1>3, ConcatProperties
  <2> HIDE DEF all
  <2> QED
    BY <1>3, <2>1
<1> HIDE DEF all
<1>6. PICK ts : Good(m2, ts) /\ View(m2, ts) = Heard(View(m, tr), x)
  BY <1>2, <1>3, <1>4, HandledByChain
<1>7. PICK w : SoundPath(w, View(m, tr), all, final) /\ w[Len(all)] = v
  BY <1>2 DEF Leads
<1>8. w[1] = View(m2, ts)
  <2>1. 1 \in 1..Len(all) /\ 1 \in 1..1 + Len(q) /\ 1 <= 1 /\ 1 - 1 = 0
    BY <1>5
  <2>2. w[1] = Heard(w[1 - 1], all[1]) /\ w[0] = View(m, tr)
    BY <1>7, <2>1 DEF SoundPath, IsPath
  <2>3. all[1] = x
    BY <1>3, <1>5, <2>1
  <2> QED
    BY <1>6, <2>1, <2>2, <2>3
<1>9. Leads(View(m2, ts), q, v, final)
  <2>1. 1 \in 0..Len(all)
    BY <1>5
  <2>2. Leads(w[1], SubSeq(all, 1 + 1, Len(all)), w[Len(all)], final)
    BY <1>5, <1>7, <2>1, PathCut
  <2>3. SubSeq(all, 1 + 1, Len(all)) = q
    <3> DEFINE r == SubSeq(all, 2, Len(all))
    <3>1. /\ r \in Seq(Msgs) /\ Len(r) = Len(q)
          /\ \A i \in 1..Len(q) : r[i] = all[i + 1]
      BY <1>5, SubSeqProperties
    <3> HIDE DEF r
    <3>2. \A i \in 1..Len(r) : r[i] = q[i]
      BY <1>5, <3>1
    <3> QED
      BY <3>1, <3>2, SeqEqual DEF r
  <2> QED
    BY <1>7, <1>8, <2>2, <2>3
<1>10. Comes(m2, ts, q, v, c, final, kept)
  BY <1>2, <1>6, <1>9 DEF Comes
<1>11. c.open => Asked(m2, q, c, u)
  <2>1. SUFFICES ASSUME c.open PROVE Asked(m2, q, c, u)
    OBVIOUS
  <2>2. Asked(m, all, c, u)
    BY <2>1 DEF Aware, all, one, x
  <2>3. all # <<>>
    BY <1>5, EmptySeq
  <2>4. ASSUME NEW i \in 1..Len(q) PROVE q[i] = all[i + 1] /\ i + 1 \in 1..Len(all)
    BY <1>5
  <2>5. CASE EndsAsking(all)
    <3>1. /\ Asks(all[Len(all)]) /\ \A i \in 1..Len(all) - 1 : ~Asks(all[i])
      BY <2>5 DEF EndsAsking
    <3>2. Len(q) > 0
      <4>1. SUFFICES ASSUME Len(q) = 0 PROVE FALSE
        BY <1>5
      <4>2. Len(all) = 1 /\ all[1] = x
        <5>1. 1 \in 1..1 + Len(q)
          BY <1>5
        <5> QED
          BY <1>3, <1>5, <4>1, <5>1
      <4> QED
        BY <1>3, <3>1, <4>2
    <3>3. Len(q) \in 1..Len(q) /\ Len(all) = Len(q) + 1
      BY <1>5, <3>2
    <3>4. Asks(q[Len(q)]) /\ q # <<>>
      BY <2>4, <3>1, <3>2, <3>3, EmptySeq
    <3>5. \A i \in 1..Len(q) - 1 : ~Asks(q[i])
      <4> SUFFICES ASSUME NEW i \in 1..Len(q) - 1 PROVE ~Asks(q[i])
        OBVIOUS
      <4>1. i \in 1..Len(q) /\ i + 1 \in 1..Len(all) - 1
        BY <1>5, <3>3
      <4> QED
        BY <2>4, <3>1, <4>1
    <3> QED
      BY <2>2, <2>3, <2>5, <3>4, <3>5 DEF Asked, EndsAsking, Quiet
  <2>6. CASE Quiet(all)
    <3>1. Quiet(q)
      BY <2>4, <2>6 DEF Quiet
    <3>2. ~EndsAsking(all)
      <4>1. Len(all) \in 1..Len(all)
        BY <1>5
      <4> QED
        BY <2>6, <4>1 DEF Quiet, EndsAsking
    <3> QED
      BY <2>2, <2>3, <3>1, <3>2 DEF Asked
  <2> QED
    BY <2>2, <2>3, <2>5, <2>6 DEF Asked
<1> QED
  BY <1>10, <1>11 DEF Aware, m2

-----------------------------------------------------------------------------
(* The inductive invariant *)

BoxInv ==
  /\ BoxSound(box, settled)
  /\ restarts \in Nat
  /\ restarts = 0 => Len(settled) = box.irreversible

WireInv ==
  /\ ws \in {"null", "connecting", "open"}
  /\ \/ conn = Closed /\ up = <<>>
     \/ ConnShape(conn) /\ ws = "open"
  /\ conn.status = Null \/ conn.status \in Asking
  /\ up \in Seq(Asking) /\ down \in Seq(Msgs)
  /\ ws # "open" => down = <<>>

ClientInv ==
  /\ mem = Null => ws = "null" /\ queue = <<>> /\ reading = Null
  /\ mem # Null => \E tr : Good(mem, tr)
  /\ queue \in Seq(Msgs)
  /\ reading # Null => reading \in Decodable

(* A client that reads its blobs in time reads those of one connection.    *)
OneConnection ==
  /\ reading = Null => queue = <<>>
  /\ ws = "connecting" => reading = Null
  /\ Aware(mem, Inbox, conn, up, settled, restarts = 0)

Patient == BlobMessages /\ scenario.patient /\ mem # Null

SyncInv == BoxInv /\ WireInv /\ ClientInv /\ (Patient => OneConnection)

LEMMA InboxOf ==
  ASSUME NEW r, NEW q \in Seq(Msgs), NEW d \in Seq(Msgs), r # Null => r \in Decodable
  PROVE  /\ Reading(r) \in Seq(Msgs) /\ Reading(r) \o q \in Seq(Msgs)
         /\ (Reading(r) \o q) \o d \in Seq(Msgs)
         /\ (Reading(r) \o q) \o <<>> = Reading(r) \o q
<1>1. Reading(r) \in Seq(Msgs)
  <2>1. CASE r = Null
    BY <2>1, EmptySeq DEF Reading
  <2>2. CASE r # Null
    <3> DEFINE x == BlockMsg(r)
    <3>1. x \in Msgs
      BY <2>2, MsgsQuiet
    <3> HIDE DEF x
    <3>2. <<x>> \in Seq(Msgs)
      BY <3>1
    <3> QED
      BY <2>2, <3>2 DEF Reading, x
  <2> QED
    BY <2>1, <2>2
<1>2. Reading(r) \o q \in Seq(Msgs)
  BY <1>1, ConcatProperties
<1> DEFINE s == Reading(r) \o q
<1> HIDE DEF s
<1>3. s \o d \in Seq(Msgs) /\ s \o <<>> = s
  BY <1>2, ConcatProperties, ConcatEmptySeq DEF s
<1> QED
  BY <1>1, <1>2, <1>3 DEF s

LEMMA InboxIs == Inbox = (Reading(reading) \o queue) \o down
BY DEF Inbox, Reading, BlockMsg

LEMMA SyncInit == Init => SyncInv
<1> SUFFICES ASSUME Init PROVE SyncInv
  OBVIOUS
<1>1. BoxInv
  <2>1. box = Initialized /\ settled = <<>> /\ restarts = 0
    BY DEF Init
  <2>2. <<>> \in Seq(Block) /\ Len(<<>>) = 0
    BY EmptySeq
  <2> DEFINE empty == <<>>
  <2>3. empty \in Seq(Block) /\ Len(empty) = 0 /\ Initialized.blocks = empty
        /\ Initialized.irreversible = 0 /\ Good(Initialized, <<>>) /\ 0 < MaxUInt
    BY <2>2, InitializedGood, WidthAssumption
  <2> HIDE DEF empty
  <2>4. BoxSound(Initialized, empty)
    BY <2>3 DEF BoxSound
  <2> QED
    BY <2>1, <2>3, <2>4 DEF BoxInv, empty
<1>2. WireInv
  <2>1. <<>> \in Seq(Asking) /\ <<>> \in Seq(Msgs) /\ Closed.status = Null
    BY EmptySeq DEF Closed
  <2> QED
    BY <2>1 DEF Init, WireInv
<1>3. ClientInv /\ ~Patient
  <2>1. <<>> \in Seq(Msgs)
    BY EmptySeq
  <2> QED
    BY <2>1 DEF Init, ClientInv, Patient
<1> QED
  BY <1>1, <1>2, <1>3 DEF SyncInv

(* The box's log has changed: the callback answers, if there is one.       *)
LEMMA ChangedKeeps ==
  ASSUME SyncInv, NEW memory, Changed(memory), BoxSound(memory, settled'),
         Grown(settled, settled'), restarts = 0 => Len(settled') = memory.irreversible
  PROVE  SyncInv'
<1> DEFINE lossless == restarts = 0
<1>1. /\ box' = memory /\ up' = up /\ ws' = ws /\ mem' = mem /\ queue' = queue
      /\ reading' = reading /\ restarts' = restarts /\ scenario' = scenario
  BY DEF Changed, clientVars
<1>2. BoxInv'
  BY <1>1 DEF SyncInv, BoxInv
<1>3. ClientInv' /\ (Patient' <=> Patient)
  BY <1>1 DEF SyncInv, ClientInv, Patient
<1>4. BoxInv /\ WireInv /\ ClientInv /\ (Patient => OneConnection)
  BY DEF SyncInv
<1> DEFINE rq == Reading(reading) \o queue
           in == rq \o down
<1>5. rq \in Seq(Msgs) /\ in \in Seq(Msgs) /\ down \in Seq(Msgs)
  BY <1>4, InboxOf DEF WireInv, ClientInv
<1>6. Inbox = in /\ Inbox' = rq \o down'
  BY <1>1 DEF Inbox, Reading, BlockMsg
<1>7. ASSUME Patient
      PROVE  /\ reading = Null => queue = <<>>
             /\ ws = "connecting" => reading = Null
             /\ Aware(mem, in, conn, up, settled', lossless)
  <2>1. Aware(mem, in, conn, up, settled, lossless)
    BY <1>4, <1>6, <1>7 DEF OneConnection
  <2>2. settled \in Seq(Block)
    BY <1>4 DEF BoxInv, BoxSound
  <2>3. Aware(mem, in, conn, up, settled', lossless)
    BY <2>1, <2>2, AwareStill
  <2> QED
    BY <1>4, <1>7, <2>3 DEF OneConnection
<1> HIDE DEF lossless
<1>8. CASE UNCHANGED <<conn, down>>
  <2>1. WireInv'
    BY <1>1, <1>4, <1>8 DEF WireInv, ConnShape
  <2>2. Patient => OneConnection'
    BY <1>1, <1>6, <1>7, <1>8 DEF OneConnection, lossless
  <2> QED
    BY <1>2, <1>3, <2>1, <2>2 DEF SyncInv
<1>9. CASE conn.haveCallback /\ Updated([conn EXCEPT !.haveCallback = FALSE], memory)
  <2> DEFINE c == [conn EXCEPT !.haveCallback = FALSE]
             u == update(c, memory)
  <2>1. conn' = u.conn /\ down' = down \o u.sent
    BY <1>9 DEF Updated
  <2>2. ConnShape(conn) /\ ws = "open"
    BY <1>4, <1>9 DEF WireInv, Closed
  <2>3. /\ ConnShape(c) /\ c.status = conn.status /\ c.open = TRUE /\ conn.open = TRUE
    <3> DEFINE st == conn.status
               back == conn.haveCallback
               yes == TRUE
               no == FALSE
    <3>1. conn = [open |-> yes, status |-> st, haveCallback |-> back]
      BY <2>2 DEF ConnShape
    <3>2. c = [conn EXCEPT !.haveCallback = no]
      OBVIOUS
    <3>3. no \in BOOLEAN
      OBVIOUS
    <3> HIDE DEF st, back, yes, no, c
    <3>4. c = [open |-> yes, status |-> st, haveCallback |-> no]
      BY <3>1, <3>2
    <3>5. /\ c = [open |-> yes, status |-> c.status, haveCallback |-> c.haveCallback]
          /\ c.haveCallback \in BOOLEAN
          /\ c.open = yes /\ c.status = st /\ conn.open = yes /\ conn.status = st
      BY <3>1, <3>3, <3>4
    <3>6. c = [open |-> TRUE, status |-> c.status, haveCallback |-> c.haveCallback]
      BY <3>5 DEF yes
    <3> QED
      BY <3>5, <3>6 DEF ConnShape, yes
  <2> HIDE DEF c
  <2>4. CASE conn.status = Null
    <3>1. u.conn = c /\ u.sent = <<>>
      BY <2>3, <2>4 DEF update
    <3>2. conn' = c /\ down' = down
      BY <1>5, <2>1, <3>1, ConcatEmptySeq
    <3>3. WireInv'
      BY <1>1, <1>4, <2>2, <2>3, <2>4, <3>2 DEF WireInv
    <3>4. ASSUME Patient PROVE OneConnection'
      <4>1. Aware(mem, in, conn, up, settled', lossless)
        BY <1>7, <3>4
      <4>2. Aware(mem, in, c, up, settled', lossless)
        BY <2>3, <4>1 DEF Aware, Comes, Knows, Asked
      <4> QED
        BY <1>1, <1>6, <1>7, <3>2, <3>4, <4>2 DEF OneConnection, lossless
    <3> QED
      BY <1>2, <1>3, <3>3, <3>4 DEF SyncInv
  <2>5. CASE conn.status # Null
    <3>1. c.status \in Asking
      BY <1>4, <2>3, <2>5 DEF WireInv
    <3>2. PICK r : Told(u, r)
      BY <2>3, <3>1, UpdateAnswers
    <3> HIDE DEF u
    <3>3. /\ u.sent \in Seq(Msgs) /\ ConnShape(u.conn)
          /\ u.conn.status = Null \/ u.conn.status \in Asking
      <4>1. r \in Seq(Msgs)
        BY <3>2 DEF Told, Quiet
      <4>2. r \o <<AskMsg>> \in Seq(Msgs)
        BY <4>1, AskQuiet, ConcatProperties
      <4> QED
        BY <3>2, <4>1, <4>2 DEF Told
    <3>4. down' \in Seq(Msgs)
      BY <1>5, <2>1, <3>3, ConcatProperties
    <3>5. WireInv'
      BY <1>1, <1>4, <2>1, <2>2, <3>3, <3>4 DEF WireInv
    <3>6. ASSUME Patient PROVE OneConnection'
      <4>1. Aware(mem, in, conn, up, settled', lossless)
        BY <1>7, <3>6
      <4>2. PICK tr, v : Comes(mem, tr, in, v, conn, settled', lossless)
        BY <4>1 DEF Aware
      <4>3. Comes(mem, tr, in, v, c, settled', lossless)
        BY <2>3, <4>2 DEF Comes, Knows
      <4>4. Asked(mem, in, conn, up)
        BY <2>3, <4>1 DEF Aware
      <4>5. up = <<>> /\ Quiet(in)
        BY <2>5, <4>4 DEF Asked
      <4>6. lossless => Len(settled') = memory.irreversible
        BY DEF lossless
      <4>7. Aware(mem, in \o u.sent, u.conn, <<>>, settled', lossless)
        BY <2>3, <3>1, <4>3, <4>5, <4>6, AwareAnswer DEF u
      <4>8. in \o u.sent = rq \o down'
        <5> DEFINE sent == u.sent
        <5>1. rq \in Seq(Msgs) /\ down \in Seq(Msgs) /\ sent \in Seq(Msgs)
              /\ down' = down \o sent
          BY <1>5, <2>1, <3>3
        <5> HIDE DEF rq, sent
        <5>2. (rq \o down) \o sent = rq \o (down \o sent)
          BY <5>1, ConcatAssociative
        <5> QED
          BY <5>1, <5>2 DEF sent
      <4> QED
        BY <1>1, <1>6, <1>7, <2>1, <3>6, <4>5, <4>7, <4>8 DEF OneConnection, lossless
    <3> QED
      BY <1>2, <1>3, <3>5, <3>6 DEF SyncInv
  <2> QED
    BY <2>4, <2>5
<1> QED
  BY <1>8, <1>9 DEF Changed

-----------------------------------------------------------------------------
(* Each action keeps the invariant *)

LEMMA PushKeepsSync ==
  ASSUME SyncInv, NEW e \in EosioBlock, NEW n \in UInt, pushBlock(e, n)
  PROVE  SyncInv'
<1>1. PICK memory \in {addEosioBlock(box, e, n)} :
        /\ \A i \in 1..Len(settled) : i <= Len(memory.blocks) => memory.blocks[i] = settled[i]
        /\ settled' = Declared(memory, settled)
        /\ Changed(memory)
  BY DEF pushBlock, Declared
<1>2. memory = addEosioBlock(box, e, n) /\ ~memory.trapped
  BY <1>1 DEF Changed
<1>3. BoxSound(box, settled) /\ (restarts = 0 => Len(settled) = box.irreversible)
  BY DEF SyncInv, BoxInv
<1>4. /\ BoxSound(memory, settled') /\ Grown(settled, settled')
      /\ restarts = 0 => Len(settled') = memory.irreversible
  BY <1>1, <1>2, <1>3, PushKeeps
<1> QED
  BY <1>1, <1>4, ChangedKeeps

LEMMA UndoKeepsSync ==
  ASSUME SyncInv, NEW n \in UInt, undoneEosioNum(n)
  PROVE  SyncInv'
<1>1. PICK memory \in {undoEosioNum(box, n)} : Changed(memory) /\ UNCHANGED settled
  BY DEF undoneEosioNum
<1>2. BoxSound(box, settled) /\ (restarts = 0 => Len(settled) = box.irreversible)
  BY DEF SyncInv, BoxInv
<1>3. /\ BoxSound(memory, settled) /\ memory.irreversible = box.irreversible
  BY <1>1, <1>2, UndoKeeps
<1>4. Grown(settled, settled)
  BY <1>2 DEF Grown, BoxSound
<1> QED
  BY <1>1, <1>2, <1>3, <1>4, ChangedKeeps

(* The connection is gone as the box sees it, and with a restart its log.  *)
LEMMA BoxLeavesKeeps ==
  ASSUME SyncInv, BoxRestarts \/ BoxCloses
  PROVE  SyncInv'
<1>1. /\ conn' = Closed /\ up' = <<>>
      /\ ws' = ws /\ mem' = mem /\ queue' = queue /\ reading' = reading /\ down' = down
      /\ settled' = settled /\ scenario' = scenario
  BY DEF BoxRestarts, BoxCloses, clientVars, boxVars
<1>2. BoxInv /\ WireInv /\ ClientInv /\ (Patient => OneConnection)
  BY DEF SyncInv
<1>3. BoxInv'
  <2>1. CASE BoxCloses
    BY <1>2, <2>1 DEF BoxInv, BoxCloses, boxVars
  <2>2. CASE BoxRestarts
    <3>1. box' = Initialized /\ restarts' = restarts + 1
      BY <2>2 DEF BoxRestarts
    <3>2. /\ settled \in Seq(Block) /\ restarts \in Nat /\ Len(settled) \in Nat
          /\ \A i \in 1..Len(settled) : ~(i <= 0)
      BY <1>2 DEF BoxInv, BoxSound
    <3>3. /\ Good(Initialized, <<>>) /\ Len(Initialized.blocks) = 0
          /\ Initialized.irreversible = 0 /\ 0 < MaxUInt /\ 1..0 = {}
      BY InitializedGood, EmptySeq, WidthAssumption
    <3>4. BoxSound(Initialized, settled)
      BY <3>2, <3>3 DEF BoxSound
    <3> QED
      BY <1>1, <3>1, <3>2, <3>4 DEF BoxInv
  <2> QED
    BY <2>1, <2>2
<1>4. WireInv'
  <2>1. <<>> \in Seq(Asking) /\ Closed.status = Null
    BY EmptySeq DEF Closed
  <2> QED
    BY <1>1, <1>2, <2>1 DEF WireInv
<1>5. ClientInv' /\ (Patient' <=> Patient)
  BY <1>1, <1>2 DEF ClientInv, Patient
<1>6. ASSUME Patient PROVE OneConnection'
  <2> DEFINE rq == Reading(reading) \o queue
             in == rq \o down
             lossless == restarts = 0
             lossless2 == restarts' = 0
  <2>1. in \in Seq(Msgs) /\ Inbox = in /\ Inbox' = in
    BY <1>1, <1>2, InboxOf DEF WireInv, ClientInv, Inbox, Reading, BlockMsg
  <2>2. Aware(mem, in, conn, up, settled, lossless)
    BY <1>2, <1>6, <2>1 DEF OneConnection
  <2> HIDE DEF in, lossless, lossless2
  <2>3. <<>> \in Seq(Msgs) /\ in \o <<>> = in
    BY <2>1, EmptySeq, ConcatEmptySeq
  <2> DEFINE empty == <<>>
  <2>4. empty \in Seq(Msgs) /\ Aware(mem, in \o empty, conn, up, settled, lossless)
    BY <2>2, <2>3
  <2> HIDE DEF empty
  <2>5. Aware(mem, in, Closed, empty, settled, lossless2)
    BY <2>1, <2>4, AwareClosed
  <2>6. Aware(mem, in, Closed, <<>>, settled, lossless2)
    BY <2>5 DEF empty
  <2> QED
    BY <1>1, <1>2, <1>6, <2>1, <2>6 DEF OneConnection, lossless2
<1> QED
  BY <1>3, <1>4, <1>5, <1>6 DEF SyncInv

LEMMA StartKeeps ==
  ASSUME SyncInv, Start
  PROVE  SyncInv'
<1>1. /\ mem = Null /\ UNCHANGED <<boxVars, wire, ws, queue, reading, closes, restarts>>
      /\ box' = box /\ settled' = settled /\ restarts' = restarts /\ scenario' = scenario
      /\ conn' = conn /\ up' = up /\ down' = down /\ ws' = ws
      /\ queue' = queue /\ reading' = reading
  BY DEF Start, boxVars, wire
<1>2. PICK state \in {Null, trimBlocks(box)} : mem' = NewMemory(state)
  BY DEF Start
<1>3. BoxInv /\ WireInv /\ ClientInv
  BY DEF SyncInv
<1>4. BoxInv' /\ WireInv'
  BY <1>1, <1>3 DEF BoxInv, WireInv, ConnShape
<1>5. PICK ts : Good(mem', ts) /\ Sound(View(mem', ts), settled)
  BY <1>2, <1>3, StartSound DEF BoxInv
<1>6. mem' # Null
  BY <1>5, GoodIsMemory
<1>7. ClientInv'
  BY <1>1, <1>3, <1>5, <1>6 DEF ClientInv
<1>8. /\ ws = "null" /\ queue = <<>> /\ reading = Null /\ down = <<>>
      /\ conn = Closed
  BY <1>1, <1>3 DEF ClientInv, WireInv
<1>9. OneConnection'
  <2>1. Inbox' = <<>>
    <3>1. (<<>> \o <<>>) \o <<>> = <<>>
      BY EmptySeq, ConcatEmptySeq
    <3> QED
      BY <1>1, <1>8, <3>1 DEF Inbox
  <2>2. Leads(View(mem', ts), <<>>, View(mem', ts), settled)
    BY <1>5, LeadsNowhere
  <2>3. Closed.status = Null /\ Closed.open = FALSE
    BY DEF Closed
  <2>4. Aware(mem', <<>>, Closed, up, settled, restarts = 0)
    BY <1>5, <2>2, <2>3 DEF Aware, Comes, Knows
  <2> QED
    BY <1>1, <1>8, <2>1, <2>4 DEF OneConnection
<1> QED
  BY <1>4, <1>7, <1>9 DEF SyncInv

LEMMA ConnectKeeps ==
  ASSUME SyncInv, connect
  PROVE  SyncInv'
<1>1. /\ mem # Null /\ ws = "null" /\ (scenario.patient => reading = Null)
      /\ ws' = "connecting" /\ conn' = Closed /\ up' = <<>> /\ down' = <<>>
      /\ box' = box /\ settled' = settled /\ restarts' = restarts /\ scenario' = scenario
      /\ mem' = mem /\ queue' = queue /\ reading' = reading
  BY DEF connect, boxVars, clientVars
<1>2. BoxInv /\ WireInv /\ ClientInv /\ (Patient => OneConnection)
  BY DEF SyncInv
<1>3. BoxInv'
  BY <1>1, <1>2 DEF BoxInv
<1>4. WireInv'
  <2>1. <<>> \in Seq(Asking) /\ <<>> \in Seq(Msgs) /\ Closed.status = Null
    BY EmptySeq DEF Closed
  <2> QED
    BY <1>1, <2>1 DEF WireInv
<1>5. ClientInv'
  BY <1>1, <1>2 DEF ClientInv
<1>6. ASSUME Patient' PROVE OneConnection'
  <2>1. Patient
    BY <1>1, <1>6 DEF Patient
  <2>2. conn = Closed /\ up = <<>> /\ down = <<>>
    BY <1>1, <1>2 DEF WireInv
  <2>3. Inbox' = Inbox
    BY <1>1, <2>2 DEF Inbox
  <2>4. scenario.patient
    BY <2>1 DEF Patient
  <2> QED
    BY <1>1, <1>2, <2>1, <2>2, <2>3, <2>4 DEF OneConnection
<1> QED
  BY <1>3, <1>4, <1>5, <1>6 DEF SyncInv

LEMMA OpenKeeps ==
  ASSUME SyncInv, onopen
  PROVE  SyncInv'
<1>1. /\ ws = "connecting" /\ ws' = "open"
      /\ conn' = [Closed EXCEPT !.open = TRUE] /\ up' = <<ClientStatus(mem)>> /\ down' = down
      /\ box' = box /\ settled' = settled /\ restarts' = restarts /\ scenario' = scenario
      /\ mem' = mem /\ queue' = queue /\ reading' = reading
  BY DEF onopen, boxVars, clientVars
<1>2. BoxInv /\ WireInv /\ ClientInv /\ (Patient => OneConnection)
  BY DEF SyncInv
<1>3. PICK tr : Good(mem, tr)
  BY <1>1, <1>2 DEF ClientInv
<1>4. conn' = [open |-> TRUE, status |-> Null, haveCallback |-> FALSE]
  BY <1>1 DEF Closed
<1>5. BoxInv' /\ ClientInv'
  BY <1>1, <1>2 DEF BoxInv, ClientInv
<1>6. WireInv'
  <2> DEFINE st == ClientStatus(mem)
  <2>1. st \in Asking
    BY <1>3, StatusOfClient
  <2> HIDE DEF st
  <2>2. <<st>> \in Seq(Asking)
    BY <2>1
  <2>3. ConnShape(conn') /\ conn'.status = Null
    BY <1>4 DEF ConnShape
  <2> QED
    BY <1>1, <1>2, <2>2, <2>3 DEF WireInv, st
<1>7. ASSUME Patient' PROVE OneConnection'
  <2>1. Patient
    BY <1>1, <1>7 DEF Patient
  <2>2. reading = Null /\ queue = <<>> /\ down = <<>>
    BY <1>1, <1>2, <2>1 DEF OneConnection, WireInv
  <2>3. Inbox = <<>> /\ Inbox' = <<>>
    <3>1. (<<>> \o <<>>) \o <<>> = <<>>
      BY EmptySeq, ConcatEmptySeq
    <3> QED
      BY <1>1, <2>2, <3>1 DEF Inbox
  <2>4. PICK ts, v : Comes(mem, ts, <<>>, v, conn, settled, restarts = 0)
    BY <1>2, <2>1, <2>3 DEF OneConnection, Aware
  <2>5. conn'.status = Null
    BY <1>4
  <2>6. Comes(mem, ts, <<>>, v, conn', settled, restarts = 0)
    BY <2>4, <2>5 DEF Comes, Knows
  <2>7. Asked(mem, <<>>, conn', up')
    BY <1>1, <2>5 DEF Asked
  <2>8. Aware(mem, <<>>, conn', up', settled, restarts = 0)
    BY <2>6, <2>7 DEF Aware
  <2> QED
    BY <1>1, <2>2, <2>3, <2>8 DEF OneConnection
<1> QED
  BY <1>5, <1>6, <1>7 DEF SyncInv

LEMMA CloseKeeps ==
  ASSUME SyncInv, onclose
  PROVE  SyncInv'
<1>1. /\ ws # "null" /\ ws' = "null" /\ conn' = Closed /\ up' = <<>> /\ down' = <<>>
      /\ box' = box /\ settled' = settled /\ restarts' = restarts /\ scenario' = scenario
      /\ mem' = mem /\ queue' = queue /\ reading' = reading
  BY DEF onclose, boxVars, clientVars
<1>2. BoxInv /\ WireInv /\ ClientInv /\ (Patient => OneConnection)
  BY DEF SyncInv
<1>3. BoxInv' /\ ClientInv'
  BY <1>1, <1>2 DEF BoxInv, ClientInv
<1>4. WireInv'
  <2>1. <<>> \in Seq(Asking) /\ <<>> \in Seq(Msgs) /\ Closed.status = Null
    BY EmptySeq DEF Closed
  <2> QED
    BY <1>1, <2>1 DEF WireInv
<1>5. ASSUME Patient' PROVE OneConnection'
  <2> DEFINE rq == Reading(reading) \o queue
             lossless == restarts = 0
  <2>1. Patient
    BY <1>1, <1>5 DEF Patient
  <2>2. rq \in Seq(Msgs) /\ down \in Seq(Msgs) /\ rq \o <<>> = rq
    BY <1>2, InboxOf DEF WireInv, ClientInv
  <2>3. Inbox = rq \o down /\ Inbox' = rq
    BY <1>1, <2>2 DEF Inbox, Reading, BlockMsg
  <2>4. Aware(mem, rq \o down, conn, up, settled, lossless)
    BY <1>2, <2>1, <2>3 DEF OneConnection
  <2> HIDE DEF rq, lossless
  <2>5. Aware(mem, rq, Closed, <<>>, settled, lossless)
    BY <2>2, <2>4, AwareClosed
  <2>6. reading = Null => queue = <<>>
    BY <1>2, <2>1 DEF OneConnection
  <2> QED
    BY <1>1, <2>3, <2>5, <2>6 DEF OneConnection, lossless
<1> QED
  BY <1>3, <1>4, <1>5 DEF SyncInv

-----------------------------------------------------------------------------
(* The client's steps *)

(* processQueue takes messages from the front of what is under way.        *)
LEMMA ProcessKeeps ==
  ASSUME SyncInv, NEW m, NEW tr, Good(m, tr), NEW q \in Seq(Msgs), processQueue(m, q),
         mem # Null, down' \in Seq(Msgs), ws # "open" => down' = <<>>,
         UNCHANGED <<boxVars, conn, ws, closes, restarts>>,
         Patient => /\ ws # "connecting"
                    /\ Aware(m, q \o down', conn, up, settled, restarts = 0)
  PROVE  SyncInv'
<1> DEFINE s == HandleAll(Fresh(m), q)
           lossless == restarts = 0
           up2 == IF conn.open THEN s.up ELSE <<>>
<1>1. /\ mem' = s.mem /\ queue' = s.queue /\ reading' = s.reading /\ up' = up2
  BY DEF processQueue, HandleAll, Fresh
<1>2. /\ box' = box /\ settled' = settled /\ restarts' = restarts /\ scenario' = scenario
      /\ conn' = conn /\ ws' = ws
  BY DEF boxVars
<1>3. BoxInv /\ WireInv /\ ClientInv /\ (Patient => OneConnection)
  BY DEF SyncInv
<1>4. /\ \E ts : Good(s.mem, ts)
      /\ s.up \in Seq(Asking) /\ s.queue \in Seq(Msgs)
      /\ s.reading # Null => s.reading \in Decodable
  BY <1>3, QueueTypes DEF WireInv
<1>5. s.mem # Null
  BY <1>4, GoodIsMemory
<1> HIDE DEF s, lossless
<1>6. BoxInv'
  BY <1>2, <1>3 DEF BoxInv
<1>7. up2 \in Seq(Asking) /\ (conn.open = FALSE => up2 = <<>>)
  <2>1. <<>> \in Seq(Asking)
    BY EmptySeq
  <2> QED
    BY <1>4, <2>1
<1> HIDE DEF up2
<1>8. WireInv'
  <2>1. Closed.open = FALSE
    BY DEF Closed
  <2>2. ConnShape(conn)' <=> ConnShape(conn)
    BY <1>2 DEF ConnShape
  <2>3. \/ conn' = Closed /\ up' = <<>>
        \/ ConnShape(conn)' /\ ws' = "open"
    BY <1>1, <1>2, <1>3, <1>7, <2>1, <2>2 DEF WireInv
  <2> QED
    BY <1>1, <1>2, <1>3, <1>7, <2>3 DEF WireInv
<1>9. ClientInv'
  BY <1>1, <1>4, <1>5 DEF ClientInv
<1>10. ASSUME Patient' PROVE OneConnection'
  <2>1. Patient /\ ws # "connecting"
    BY <1>2, <1>10 DEF Patient
  <2>2. Aware(m, q \o down', conn, up, settled, lossless)
    BY <2>1 DEF lossless
  <2>3. conn.open => ws = "open"
    BY <1>3 DEF WireInv, Closed
  <2>4. up \in Seq(Asking) /\ ws \in {"null", "open"}
    BY <1>3, <2>1 DEF WireInv
  <2> DEFINE d == down'
  <2>5. d \in Seq(Msgs) /\ Aware(m, q \o d, conn, up, settled, lossless)
    BY <2>2
  <2> HIDE DEF d
  <2>6. /\ s.reading = Null => s.queue = <<>>
        /\ Aware(s.mem, (Reading(s.reading) \o s.queue) \o d, conn, up2, settled, lossless)
    <3>1. LET x == HandleAll(Fresh(m), q) IN
          /\ x.reading = Null => x.queue = <<>>
          /\ Aware(x.mem, (Reading(x.reading) \o x.queue) \o d, conn,
                   IF conn.open THEN x.up ELSE <<>>, settled, lossless)
      BY <2>3, <2>4, <2>5, QueueAware, Zenon
    <3> QED
      BY <3>1 DEF s, up2
  <2>7. Inbox' = (Reading(s.reading) \o s.queue) \o d
    BY <1>1 DEF Inbox, Reading, BlockMsg, d
  <2>8. Aware(mem', Inbox', conn', up', settled', restarts' = 0)
    BY <1>1, <1>2, <2>6, <2>7 DEF lossless
  <2> QED
    BY <1>1, <1>2, <2>1, <2>6, <2>8 DEF OneConnection
<1> QED
  BY <1>6, <1>8, <1>9, <1>10 DEF SyncInv

LEMMA ReadKeeps ==
  ASSUME SyncInv, BlobRead
  PROVE  SyncInv'
<1> DEFINE b == reading
           m == addBlock(mem, b, 0)
           x == BlockMsg(b)
           lossless == restarts = 0
<1>1. /\ reading # Null /\ processQueue(m, queue)
      /\ UNCHANGED <<boxVars, conn, down, ws, closes, restarts>> /\ down' = down
  BY DEF BlobRead
<1>2. BoxInv /\ WireInv /\ ClientInv /\ (Patient => OneConnection)
  BY DEF SyncInv
<1>3. /\ b \in Decodable /\ queue \in Seq(Msgs) /\ down \in Seq(Msgs)
      /\ mem # Null /\ (ws # "open" => down = <<>>)
  BY <1>1, <1>2 DEF ClientInv, WireInv
<1>4. PICK tr : Good(mem, tr)
  BY <1>2, <1>3 DEF ClientInv
<1>5. x \in Msgs /\ Handled(mem, x) = m
  BY <1>3, MsgsQuiet DEF Handled, BlockMsg
<1>6. PICK ts : Good(m, ts)
  <2> HIDE DEF m, x
  <2>1. \E ts : /\ Good(Handled(mem, x), ts)
                /\ View(Handled(mem, x), ts) = Heard(View(mem, tr), x)
    BY <1>4, <1>5, HandledByChain
  <2> QED
    BY <1>5, <2>1
<1>7. ASSUME Patient
      PROVE  ws # "connecting" /\ Aware(m, queue \o down, conn, up, settled, lossless)
  <2>1. ws # "connecting" /\ Aware(mem, Inbox, conn, up, settled, lossless)
    BY <1>1, <1>2, <1>7 DEF OneConnection
  <2> DEFINE one == <<x>>
             q == queue \o down
  <2>2. one \in Seq(Msgs) /\ Inbox = (one \o queue) \o down
    <3>1. Reading(reading) = one
      BY <1>1 DEF Reading
    <3> HIDE DEF x
    <3>2. one \in Seq(Msgs)
      BY <1>5
    <3> QED
      BY <3>1, <3>2, InboxIs
  <2> HIDE DEF one
  <2>3. (one \o queue) \o down = one \o q /\ q \in Seq(Msgs)
    BY <1>3, <2>2, ConcatAssociative, ConcatProperties
  <2>4. Aware(mem, one \o q, conn, up, settled, lossless)
    BY <2>1, <2>2, <2>3
  <2> HIDE DEF q, lossless
  <2>5. Aware(mem, <<BlockMsg(b)>> \o q, conn, up, settled, lossless)
    BY <2>4 DEF one
  <2> HIDE DEF b
  <2>6. Aware(addBlock(mem, b, 0), q, conn, up, settled, lossless)
    BY <1>3, <2>3, <2>5, BlockAware, Zenon
  <2> QED
    BY <2>1, <2>6 DEF q
<1> HIDE DEF m, b
<1> QED
  BY <1>1, <1>3, <1>6, <1>7, ProcessKeeps

LEMMA MsgsConcat ==
  \A s, t, u \in Seq(Msgs) : (s \o t) \o u = s \o (t \o u)
BY ConcatAssociative

LEMMA SeqHeadTail ==
  ASSUME NEW s \in Seq(Msgs), s # <<>>
  PROVE  s = <<Head(s)>> \o Tail(s)
<1> DEFINE x == Head(s)
           t == Tail(s)
           one == <<x>>
           c == one \o t
<1>1. /\ x \in Msgs /\ t \in Seq(Msgs) /\ Len(t) = Len(s) - 1 /\ Len(s) \in Nat \ {0}
      /\ x = s[1] /\ \A i \in 1..Len(s) - 1 : t[i] = s[i + 1]
  BY HeadTailProperties
<1> HIDE DEF x, t
<1>2. one \in Seq(Msgs) /\ Len(one) = 1 /\ one[1] = x
  BY <1>1
<1> HIDE DEF one
<1>3. /\ c \in Seq(Msgs) /\ Len(c) = Len(one) + Len(t)
      /\ \A i \in 1..Len(one) + Len(t) : c[i] = IF i <= Len(one) THEN one[i] ELSE t[i - Len(one)]
  BY <1>1, <1>2, ConcatProperties
<1> HIDE DEF c
<1>4. Len(c) = Len(s)
  BY <1>1, <1>2, <1>3
<1>5. ASSUME NEW i \in 1..Len(s) PROVE s[i] = c[i]
  <2>1. c[i] = IF i <= 1 THEN one[i] ELSE t[i - 1]
    BY <1>1, <1>2, <1>3, <1>4
  <2>2. CASE i = 1
    BY <1>1, <1>2, <2>1, <2>2
  <2>3. CASE i # 1
    <3>1. i - 1 \in 1..Len(s) - 1 /\ (i - 1) + 1 = i /\ ~(i <= 1)
      BY <1>1, <2>3
    <3> QED
      BY <1>1, <2>1, <3>1
  <2> QED
    BY <2>2, <2>3
<1>6. s = c
  BY <1>3, <1>4, <1>5, SeqEqual
<1> QED
  BY <1>6 DEF c, one, x, t

LEMMA MessageKeeps ==
  ASSUME SyncInv, onmessage
  PROVE  SyncInv'
<1> DEFINE x == Head(down)
           rest == Tail(down)
           one == <<x>>
           rq == Reading(reading) \o queue
           lossless == restarts = 0
<1>1. /\ ws = "open" /\ down # <<>> /\ down' = rest
      /\ UNCHANGED <<boxVars, conn, ws, closes, restarts>>
      /\ box' = box /\ settled' = settled /\ restarts' = restarts /\ scenario' = scenario
      /\ conn' = conn /\ ws' = ws
  BY DEF onmessage, boxVars
<1>2. BoxInv /\ WireInv /\ ClientInv /\ (Patient => OneConnection)
  BY DEF SyncInv
<1>3. /\ queue \in Seq(Msgs) /\ down \in Seq(Msgs) /\ mem # Null /\ rq \in Seq(Msgs)
      /\ Reading(reading) \in Seq(Msgs)
  BY <1>1, <1>2, InboxOf DEF ClientInv, WireInv
<1>4. x \in Msgs /\ rest \in Seq(Msgs) /\ down = one \o rest
  BY <1>1, <1>3, HeadTailProperties, SeqHeadTail
<1> HIDE DEF x, rest
<1>5. one \in Seq(Msgs) /\ Append(queue, x) = queue \o one /\ Append(queue, x) \in Seq(Msgs)
  BY <1>3, <1>4, AppendIsConcat
<1> HIDE DEF one
<1>6. BoxInv'
  BY <1>1, <1>2 DEF BoxInv
<1>7. ASSUME UNCHANGED <<mem, reading, up>>, queue' \in Seq(Msgs)
      PROVE  WireInv' /\ ClientInv'
  <2>1. ConnShape(conn)' <=> ConnShape(conn)
    BY <1>1 DEF ConnShape
  <2>2. WireInv'
    BY <1>1, <1>2, <1>4, <1>7, <2>1 DEF WireInv
  <2> QED
    BY <1>2, <1>3, <1>7, <2>2 DEF ClientInv
<1>8. CASE Ignored(x)
  <2>1. UNCHANGED <<mem, queue, reading, up>> /\ ~BlobMessages
    BY <1>8 DEF onmessage, clientVars, Ignored, x
  <2>2. ~Patient'
    BY <2>1 DEF Patient
  <2> QED
    BY <1>3, <1>6, <1>7, <2>1, <2>2 DEF SyncInv
<1>9. CASE ~Ignored(x) /\ reading = Null
  <2> DEFINE q == Append(queue, x)
  <2>1. processQueue(mem, q)
    BY <1>9 DEF onmessage, x
  <2>2. PICK tr : Good(mem, tr)
    BY <1>2, <1>3 DEF ClientInv
  <2>3. ASSUME Patient
        PROVE  ws # "connecting" /\ Aware(mem, q \o rest, conn, up, settled, lossless)
    <3>1. Aware(mem, Inbox, conn, up, settled, lossless) /\ queue = <<>>
      BY <1>2, <1>9, <2>3 DEF OneConnection
    <3>2. Inbox = down
      <4>1. (<<>> \o <<>>) \o down = down
        BY <1>3, EmptySeq, ConcatEmptySeq
      <4> QED
        BY <1>9, <3>1, <4>1 DEF Inbox
    <3>3. q = one
      <4>1. <<>> \o one = one
        BY <1>5, ConcatEmptySeq
      <4> QED
        BY <1>5, <3>1, <4>1
    <3> QED
      BY <1>1, <1>4, <3>1, <3>2, <3>3
  <2> HIDE DEF q
  <2>4. q \in Seq(Msgs)
    BY <1>5 DEF q
  <2> QED
    BY <1>1, <1>3, <1>4, <2>1, <2>2, <2>3, <2>4, ProcessKeeps
<1>10. CASE ~Ignored(x) /\ reading # Null
  <2>1. queue' = queue \o one /\ UNCHANGED <<mem, reading, up>>
    BY <1>5, <1>10 DEF onmessage, x
  <2>2. queue' \in Seq(Msgs)
    BY <1>5, <2>1
  <2>3. ASSUME Patient' PROVE OneConnection'
    <3>1. Patient /\ OneConnection
      BY <1>1, <1>2, <1>3, <2>3 DEF Patient
    <3> DEFINE r == Reading(reading)
    <3>2. Inbox' = (r \o (queue \o one)) \o rest /\ Inbox = (r \o queue) \o down
      BY <1>1, <2>1 DEF Inbox, Reading, BlockMsg
    <3>3. r \in Seq(Msgs) /\ rq = r \o queue
      BY <1>3
    <3> DEFINE mid == queue
    <3>7. r \in Seq(Msgs) /\ rq \in Seq(Msgs) /\ mid \in Seq(Msgs) /\ one \in Seq(Msgs)
          /\ rest \in Seq(Msgs)
      BY <1>3, <1>4, <1>5
    <3> HIDE DEF r, rq, mid
    <3>8. (r \o mid) \o one = r \o (mid \o one)
      BY <3>7, MsgsConcat, Zenon
    <3>9. (rq \o one) \o rest = rq \o (one \o rest)
      BY <3>7, ConcatAssociative
    <3>4. r \o (queue \o one) = rq \o one
      BY <3>3, <3>8 DEF mid
    <3>5. (rq \o one) \o rest = rq \o (one \o rest)
      BY <3>9
    <3>6. Inbox' = Inbox
      BY <1>4, <3>2, <3>3, <3>4, <3>5
    <3> QED
      BY <1>1, <1>10, <2>1, <3>1, <3>6 DEF OneConnection
  <2> QED
    BY <1>6, <1>7, <2>1, <2>2, <2>3 DEF SyncInv
<1> QED
  BY <1>8, <1>9, <1>10

(* The box takes a status, and answers it.                                 *)
LEMMA BoxMessageKeeps ==
  ASSUME SyncInv, BoxMessage
  PROVE  SyncInv'
<1> DEFINE st == Head(up)
           c == [conn EXCEPT !.status = st]
           u == update(c, box)
           rest == Tail(up)
           lossless == restarts = 0
<1>1. /\ conn.open /\ up # <<>> /\ up' = rest /\ conn' = u.conn /\ down' = down \o u.sent
      /\ box' = box /\ settled' = settled /\ restarts' = restarts /\ scenario' = scenario
      /\ mem' = mem /\ queue' = queue /\ reading' = reading /\ ws' = ws
  BY DEF BoxMessage, Updated, boxVars, clientVars
<1>2. BoxInv /\ WireInv /\ ClientInv /\ (Patient => OneConnection)
  BY DEF SyncInv
<1>3. ConnShape(conn) /\ ws = "open"
  BY <1>1, <1>2 DEF WireInv, Closed
<1>4. /\ BoxSound(box, settled) /\ down \in Seq(Msgs) /\ up \in Seq(Asking)
  BY <1>2 DEF WireInv, BoxInv
<1>5. st \in Asking /\ rest \in Seq(Asking)
  BY <1>1, <1>4, HeadTailProperties
<1>6. /\ ConnShape(c) /\ c.status = st /\ c.open = TRUE
  <2> DEFINE back == conn.haveCallback
             old == conn.status
             yes == TRUE
  <2>1. conn = [open |-> yes, status |-> old, haveCallback |-> back] /\ back \in BOOLEAN
    BY <1>3 DEF ConnShape
  <2>2. c = [conn EXCEPT !.status = st]
    OBVIOUS
  <2> HIDE DEF back, old, yes, st, c
  <2>3. c = [open |-> yes, status |-> st, haveCallback |-> back]
    BY <2>1, <2>2
  <2>4. /\ c = [open |-> yes, status |-> c.status, haveCallback |-> c.haveCallback]
        /\ c.haveCallback \in BOOLEAN /\ c.status = st /\ c.open = yes
    BY <2>1, <2>3
  <2>5. c = [open |-> TRUE, status |-> c.status, haveCallback |-> c.haveCallback]
    BY <2>4 DEF yes
  <2> QED
    BY <2>4, <2>5 DEF ConnShape, yes
<1> HIDE DEF c, rest
<1>7. PICK r : Told(u, r)
  BY <1>4, <1>5, <1>6, UpdateAnswers
<1> HIDE DEF u
<1>8. /\ u.sent \in Seq(Msgs) /\ ConnShape(u.conn)
      /\ u.conn.status = Null \/ u.conn.status \in Asking
  <2>1. r \in Seq(Msgs)
    BY <1>7 DEF Told, Quiet
  <2>2. r \o <<AskMsg>> \in Seq(Msgs)
    BY <2>1, AskQuiet, ConcatProperties
  <2> QED
    BY <1>7, <2>1, <2>2 DEF Told
<1>9. down' \in Seq(Msgs)
  BY <1>1, <1>4, <1>8, ConcatProperties
<1>10. BoxInv' /\ ClientInv'
  BY <1>1, <1>2 DEF BoxInv, ClientInv
<1>11. WireInv'
  <2>1. ConnShape(conn')
    BY <1>1, <1>8
  <2> QED
    BY <1>1, <1>3, <1>5, <1>8, <1>9, <2>1 DEF WireInv
<1>12. ASSUME Patient' PROVE OneConnection'
  <2>1. Patient /\ OneConnection
    BY <1>1, <1>2, <1>12 DEF Patient
  <2>2. Aware(mem, Inbox, conn, up, settled, lossless)
    BY <2>1 DEF OneConnection
  <2>3. up = <<ClientStatus(mem)>> /\ Inbox = <<>>
    BY <1>1, <2>2 DEF Aware, Asked
  <2>4. PICK tr : Good(mem, tr) /\ Sound(View(mem, tr), settled)
    <3>1. PICK tr, v : Good(mem, tr) /\ Leads(View(mem, tr), <<>>, v, settled)
      BY <2>2, <2>3 DEF Aware, Comes
    <3>2. Sound(View(mem, tr), settled)
      <4>1. PICK w : SoundPath(w, View(mem, tr), <<>>, settled)
        BY <3>1 DEF Leads
      <4>2. 0 \in 0..Len(<<>>)
        OBVIOUS
      <4> QED
        BY <4>1, <4>2 DEF SoundPath, IsPath
    <3> QED
      BY <3>1, <3>2
  <2> DEFINE v == View(mem, tr)
             empty == <<>>
  <2>5. st = ClientStatus(mem) /\ rest = <<>>
    <3> DEFINE x == ClientStatus(mem)
    <3>1. up = <<x>>
      BY <2>3
    <3> HIDE DEF x
    <3> QED
      BY <3>1 DEF rest, x
  <2>6. Tracked(st.blocks, v) /\ LastNum(st.blocks) = Len(v.chain)
    BY <2>4, <2>5, StatusOfClient DEF View
  <2>7. Leads(v, empty, v, settled) /\ Quiet(empty)
    BY <2>4, LeadsNowhere, EmptySeq DEF Quiet
  <2> HIDE DEF st, empty, v, lossless
  <2>8. Comes(mem, tr, empty, v, c, settled, lossless)
    BY <1>6, <2>4, <2>6, <2>7 DEF Comes, Knows, v
  <2>9. lossless => Len(settled) = box.irreversible
    BY <1>2 DEF BoxInv, lossless
  <2>10. c.status \in Asking
    BY <1>5, <1>6
  <2>11. Aware(mem, empty \o u.sent, u.conn, <<>>, settled, lossless)
    BY <1>4, <1>6, <2>7, <2>8, <2>9, <2>10, AwareAnswer DEF u
  <2>12. Inbox' = empty \o u.sent
    <3> DEFINE rq == Reading(reading) \o queue
    <3>1. Inbox = rq \o down /\ Inbox' = rq \o down'
      BY <1>1 DEF Inbox, Reading, BlockMsg
    <3>2. rq \in Seq(Msgs)
      BY <1>2, InboxOf DEF WireInv, ClientInv
    <3> DEFINE sent == u.sent
    <3>3. sent \in Seq(Msgs) /\ down' = down \o sent
      BY <1>1, <1>8
    <3> HIDE DEF rq, sent
    <3>4. (rq \o down) \o sent = rq \o (down \o sent)
      BY <1>4, <3>2, <3>3, MsgsConcat, Zenon
    <3> QED
      BY <2>3, <3>1, <3>3, <3>4 DEF sent, empty
  <2>13. up' = <<>>
    BY <1>1, <2>5
  <2>14. reading' = Null => queue' = <<>>
    BY <1>1, <2>1 DEF OneConnection
  <2> QED
    BY <1>1, <1>3, <2>11, <2>12, <2>13, <2>14 DEF OneConnection, lossless
<1> QED
  BY <1>10, <1>11, <1>12 DEF SyncInv

LEMMA SyncNext == SyncInv /\ [Next]_vars => SyncInv'
<1> SUFFICES ASSUME SyncInv, [Next]_vars PROVE SyncInv'
  OBVIOUS
<1>1. CASE \E e \in EosioBlock, n \in UInt : pushBlock(e, n)
  BY <1>1, PushKeepsSync
<1>2. CASE \E n \in UInt : undoneEosioNum(n)
  BY <1>2, UndoKeepsSync
<1>3. CASE BoxRestarts \/ BoxCloses
  BY <1>3, BoxLeavesKeeps
<1>4. CASE Start
  BY <1>4, StartKeeps
<1>5. CASE connect
  BY <1>5, ConnectKeeps
<1>6. CASE onopen
  BY <1>6, OpenKeeps
<1>7. CASE ClientCloses \/ ClientNotices
  BY <1>7, CloseKeeps DEF ClientCloses, ClientNotices
<1>8. CASE onmessage
  BY <1>8, MessageKeeps
<1>9. CASE BlobRead
  BY <1>9, ReadKeeps
<1>10. CASE BoxMessage
  BY <1>10, BoxMessageKeeps
<1>11. CASE UNCHANGED vars
  <2>1. /\ box' = box /\ settled' = settled /\ restarts' = restarts /\ scenario' = scenario
        /\ mem' = mem /\ queue' = queue /\ reading' = reading /\ ws' = ws
        /\ conn' = conn /\ up' = up /\ down' = down
    BY <1>11 DEF vars
  <2>2. Inbox' = Inbox
    BY <2>1 DEF Inbox
  <2>3. OneConnection' <=> OneConnection
    BY <2>1, <2>2 DEF OneConnection
  <2>4. WireInv' <=> WireInv
    BY <2>1 DEF WireInv, ConnShape
  <2> QED
    BY <2>1, <2>3, <2>4 DEF SyncInv, BoxInv, ClientInv, Patient
<1> QED
  BY <1>1, <1>2, <1>3, <1>4, <1>5, <1>6, <1>7, <1>8, <1>9, <1>10, <1>11 DEF Next

LEMMA SyncInvariance == Spec => []SyncInv
<1>1. Init => SyncInv
  BY SyncInit
<1>2. SyncInv /\ [Next]_vars => SyncInv'
  BY SyncNext
<1> QED
  BY <1>1, <1>2, PTL DEF Spec

-----------------------------------------------------------------------------
(* The invariants *)

LEMMA IrreversibleAt ==
  ASSUME NEW m, NEW tr, Good(m, tr), m.irreversible > 0
  PROVE  /\ m.blocks[BlockByNum(m.blocks, m.irreversible)] = ChainOf(m, tr)[m.irreversible]
<1> DEFINE log == m.blocks
           base == Len(tr)
           irr == m.irreversible
           chain == ChainOf(m, tr)
<1>1. /\ log \in Seq(Block) /\ Len(log) \in Nat /\ base \in Nat
      /\ Len(chain) = base + Len(log)
      /\ \A i \in 1..Len(log) : log[i] = chain[base + i]
      /\ NumberedFrom(log, base)
      /\ irr \in Nat /\ irr > 0
  BY LogInChain DEF Good
<1>2. irr <= Len(chain) /\ (base = 0 \/ base < irr)
  BY EmptySeq DEF Good, Inv, Irreversible
<1> HIDE DEF log, base, irr, chain
<1>3. irr > base /\ irr <= base + Len(log)
  BY <1>1, <1>2
<1>4. LowerBoundByNum(log, irr) = irr - base
  BY <1>1, <1>3, LowerBoundByNumIsLeast
<1>5. irr - base \in 1..Len(log) /\ base + (irr - base) = irr
  BY <1>1, <1>3
<1>6. log[irr - base].num = irr
  BY <1>1, <1>5 DEF NumberedFrom
<1>7. BlockByNum(log, irr) = irr - base
  BY <1>4, <1>5, <1>6 DEF BlockByNum
<1>8. log[irr - base] = chain[irr]
  BY <1>1, <1>5
<1> QED
  BY <1>7, <1>8 DEF log, irr, chain

(* A log ends as its chain does.                                           *)
LEMMA LogEnd ==
  ASSUME NEW m, NEW tr, Good(m, tr)
  PROVE  /\ LastNum(m.blocks) = Len(ChainOf(m, tr))
         /\ m.blocks # <<>> => Last(m.blocks) = ChainOf(m, tr)[Len(ChainOf(m, tr))]
<1> DEFINE log == m.blocks
           base == Len(tr)
           chain == ChainOf(m, tr)
           n == Len(log)
<1>1. /\ log \in Seq(Block) /\ n \in Nat /\ base \in Nat
      /\ Len(chain) = base + n
      /\ \A i \in 1..n : log[i] = chain[base + i]
      /\ NumberedFrom(log, base)
      /\ m.irreversible \in Nat
  BY LogInChain DEF Good
<1>2. m.irreversible <= Len(chain) /\ (base = 0 \/ base < m.irreversible)
  BY EmptySeq DEF Good, Inv, Irreversible
<1>3. n = 0 => log = <<>>
  BY <1>1, EmptySeq
<1>4. log = <<>> => n = 0
  BY EmptySeq
<1> HIDE DEF log, base, chain
<1>5. CASE n = 0
  <2>1. base = 0 /\ Len(chain) = 0
    BY <1>1, <1>2, <1>5
  <2> QED
    BY <1>3, <1>5, <2>1 DEF LastNum, log, chain
<1>6. CASE n # 0
  <2>1. n \in 1..n /\ base + n = Len(chain)
    BY <1>1, <1>6
  <2>2. log[n] = chain[Len(chain)] /\ log[n].num = Len(chain)
    BY <1>1, <2>1 DEF NumberedFrom
  <2>3. Last(log) = log[n] /\ log # <<>>
    BY <1>4, <1>6 DEF Last
  <2> QED
    BY <2>2, <2>3 DEF LastNum, log, chain
<1> QED
  BY <1>5, <1>6

(* The client has once all is read what the messages under way lead to.    *)
LEMMA FutureIs ==
  ASSUME NEW tr, Good(mem, tr), Inbox \in Seq(Msgs), NEW v, NEW final,
         Leads(View(mem, tr), Inbox, v, final)
  PROVE  \E ts : Good(Future, ts) /\ View(Future, ts) = v /\ Sound(v, final)
<1> DEFINE q == Inbox
<1>1. q \in Seq(Msgs) /\ Len(q) \in Nat /\ Future = HandledAll(mem, q)
  BY DEF Future, HandledAll
<1> HIDE DEF q
<1>2. PICK ms : IsRun(ms, mem, q) /\ HandledAll(mem, q) = ms[Len(q)]
  BY <1>1, RunExists
<1>3. PICK w : SoundPath(w, View(mem, tr), q, final) /\ w[Len(q)] = v
  BY DEF Leads, q
<1>4. \A k \in 0..Len(q) : \E ts : Good(ms[k], ts) /\ View(ms[k], ts) = w[k]
  BY <1>1, <1>2, <1>3, RunFollowsPath DEF SoundPath
<1>5. Len(q) \in 0..Len(q)
  BY <1>1
<1>6. Sound(w[Len(q)], final)
  BY <1>3, <1>5 DEF SoundPath
<1>7. \E ts : Good(ms[Len(q)], ts) /\ View(ms[Len(q)], ts) = w[Len(q)]
  BY <1>4, <1>5
<1> QED
  BY <1>1, <1>2, <1>3, <1>6, <1>7

LEMMA KnowsClient ==
  ASSUME BlobMessages, SyncInv
  PROVE  BoxKnowsClient
<1> SUFFICES ASSUME scenario.patient, restarts = 0, conn.status # Null
             PROVE  /\ LastNum(Future.blocks) = LastNum(conn.status.blocks)
                    /\ Future.blocks # <<>> =>
                         Last(Future.blocks).id = Last(conn.status.blocks).id
  BY DEF BoxKnowsClient
<1> DEFINE sb == conn.status.blocks
<1>1. WireInv /\ ClientInv /\ (Patient => OneConnection)
  BY DEF SyncInv
<1>2. ws = "open" /\ mem # Null /\ Patient
  <2>1. Closed.status = Null
    BY DEF Closed
  <2>2. ws = "open"
    BY <1>1, <2>1 DEF WireInv
  <2>3. mem # Null
    BY <1>1, <2>2 DEF ClientInv
  <2> QED
    BY <2>2, <2>3 DEF Patient
<1>3. Inbox \in Seq(Msgs)
  BY <1>1, InboxIs, InboxOf DEF WireInv, ClientInv
<1>4. PICK tr, v : Comes(mem, tr, Inbox, v, conn, settled, restarts = 0)
  BY <1>1, <1>2 DEF OneConnection, Aware
<1>5. /\ Good(mem, tr) /\ Leads(View(mem, tr), Inbox, v, settled)
      /\ Tracked(sb, v) /\ LastNum(sb) = Len(v.chain)
  BY <1>4 DEF Comes, Knows
<1>6. PICK ts : Good(Future, ts) /\ View(Future, ts) = v /\ Sound(v, settled)
  BY <1>3, <1>5, FutureIs
<1>7. ChainOf(Future, ts) = v.chain
  BY <1>6 DEF View
<1>8. /\ LastNum(Future.blocks) = Len(v.chain)
      /\ Future.blocks # <<>> => Last(Future.blocks) = v.chain[Len(v.chain)]
  BY <1>6, <1>7, LogEnd
<1>9. PICK f : TrackedFrom(f, sb, v)
  BY <1>5 DEF Tracked
<1>10. sb \in Seq(Infos)
  BY <1>1 DEF WireInv, Asking, Status, Infos
<1>11. v.chain \in Seq(Block) /\ Linked(v.chain)
  BY <1>6 DEF Sound
<1> HIDE DEF sb
<1>12. sb # <<>> => Last(sb) = Info(v.chain[LastNum(sb)])
  BY <1>9, <1>10, <1>11, TrackedLast
<1>13. ASSUME Future.blocks # <<>> PROVE Last(Future.blocks).id = Last(sb).id
  <2>1. Len(Future.blocks) \in Nat \ {0} /\ Len(ts) \in Nat
        /\ Len(v.chain) = Len(ts) + Len(Future.blocks)
    <3>1. Future.blocks \in Seq(Block) /\ Len(ts) \in Nat
          /\ Len(ChainOf(Future, ts)) = Len(ts) + Len(Future.blocks)
      BY <1>6, LogInChain DEF Good
    <3> DEFINE log == Future.blocks
    <3>2. log \in Seq(Block) /\ log # <<>>
      BY <1>13, <3>1
    <3> HIDE DEF log
    <3>3. Len(log) \in Nat \ {0}
      BY <3>2, EmptySeq
    <3> QED
      BY <1>7, <3>1, <3>3 DEF log
  <2>2. LastNum(sb) # 0
    BY <1>5, <2>1
  <2>3. sb # <<>>
    BY <2>2 DEF LastNum
  <2>4. Last(sb) = Info(v.chain[Len(v.chain)])
    BY <1>5, <1>12, <2>3
  <2> QED
    BY <1>8, <1>13, <2>4 DEF Info
<1> QED
  BY <1>5, <1>8, <1>13 DEF sb

(* A client with one connection's messages at a time is never surprised by *)
(* what the box takes it to have: see BoxKnowsClient.  This is for every   *)
(* set of blocks, every limit of a status and every number of changes,     *)
(* lost connections and starts, wherever messages are sent as Blobs.       *)
THEOREM Knowledge ==
  ASSUME BlobMessages
  PROVE  Spec => []BoxKnowsClient
<1>1. SyncInv => BoxKnowsClient
  BY KnowsClient
<1> QED
  BY <1>1, SyncInvariance, PTL

LEMMA StaysSound ==
  ASSUME BlobMessages, SyncInv
  PROVE  ClientStaysSound
<1> SUFFICES ASSUME mem # Null
             PROVE  /\ ~mem.trapped
                    /\ scenario.patient /\ mem.irreversible > 0 =>
                         /\ mem.irreversible <= Len(settled)
                         /\ mem.blocks[BlockByNum(mem.blocks, mem.irreversible)] =
                              settled[mem.irreversible]
  BY DEF ClientStaysSound
<1>1. WireInv /\ ClientInv /\ (Patient => OneConnection)
  BY DEF SyncInv
<1>2. ~mem.trapped
  BY <1>1 DEF ClientInv, Good
<1>3. ASSUME scenario.patient, mem.irreversible > 0
      PROVE  /\ mem.irreversible <= Len(settled)
             /\ mem.blocks[BlockByNum(mem.blocks, mem.irreversible)] =
                  settled[mem.irreversible]
  <2>1. PICK tr, v : Comes(mem, tr, Inbox, v, conn, settled, restarts = 0)
    BY <1>1, <1>3 DEF Patient, OneConnection, Aware
  <2>2. PICK w : SoundPath(w, View(mem, tr), Inbox, settled)
    BY <2>1 DEF Comes, Leads
  <2>3. Inbox \in Seq(Msgs)
    BY <1>1, InboxIs, InboxOf DEF WireInv, ClientInv
  <2>4. 0 \in 0..Len(Inbox)
    BY <2>3
  <2>5. Sound(View(mem, tr), settled) /\ Good(mem, tr)
    BY <2>1, <2>2, <2>4 DEF SoundPath, IsPath, Comes
  <2> DEFINE irr == mem.irreversible
             chain == ChainOf(mem, tr)
  <2>6. irr \in Nat /\ irr <= Len(settled) /\ \A i \in 1..irr : chain[i] = settled[i]
    BY <2>5 DEF Sound, View
  <2>7. mem.blocks[BlockByNum(mem.blocks, irr)] = chain[irr]
    BY <1>3, <2>5, IrreversibleAt
  <2>8. irr \in 1..irr
    BY <1>3, <2>6
  <2> QED
    BY <2>6, <2>7, <2>8
<1> QED
  BY <1>2, <1>3

(* No client comes to abort, and what a client with one connection's       *)
(* messages at a time takes for final is what the history providers have   *)
(* declared final, whatever forks, answers and restarts it went through.   *)
THEOREM Soundness ==
  ASSUME BlobMessages
  PROVE  Spec => []ClientStaysSound
<1>1. SyncInv => ClientStaysSound
  BY StaysSound
<1> QED
  BY <1>1, SyncInvariance, PTL

(* Where messages are no Blobs, the client misses the blocks and takes the *)
(* rest: even then it does not abort.                                      *)
THEOREM NoTrap == Spec => [](mem # Null => ~mem.trapped)
<1>1. SyncInv => (mem # Null => ~mem.trapped)
  BY DEF SyncInv, ClientInv, Good
<1> QED
  BY <1>1, SyncInvariance, PTL
=============================================================================
