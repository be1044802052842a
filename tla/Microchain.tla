----------------------------- MODULE Microchain -----------------------------
(***************************************************************************)
(* One instance of the micro-chain under every sequence of calls that the  *)
(* box (EOSIO blocks, undo by EOSIO number, trim) and the client (blocks,  *)
(* undo by number, irreversible, trim) make.  Subchain.ts lets no call     *)
(* through after a trap.                                                   *)
(*                                                                         *)
(* Init, Next and Spec have names of their own, so that MicrochainProofs   *)
(* can speak of one instance and of SyncProtocol, where there are several. *)
(***************************************************************************)
EXTENDS WasmExports

VARIABLES
  mc,        \* the memory of the instance
  trimmed    \* history variable: the blocks trimBlocks has erased

microVars == <<mc, trimmed>>

(* Every block applied and not undone, erased from the log or not. *)
Chain == trimmed \o mc.blocks

MicroInit == mc = Initialized /\ trimmed = <<>>

AddBlock(b, eosioIrreversible) ==
  /\ ~mc.trapped
  /\ mc' = addBlock(mc, b, eosioIrreversible)
  /\ UNCHANGED trimmed

AddEosioBlock(e, eosioIrreversible) ==
  /\ ~mc.trapped
  /\ mc' = addEosioBlock(mc, e, eosioIrreversible)
  /\ UNCHANGED trimmed

SetIrreversible(num) ==
  /\ ~mc.trapped
  /\ mc' = setIrreversible(mc, num)
  /\ UNCHANGED trimmed

TrimBlocks ==
  /\ ~mc.trapped
  /\ mc' = trimBlocks(mc)
  /\ trimmed' = trimmed \o SubSeq(mc.blocks, 1, NumTrimmed(mc.blocks, mc.irreversible))

UndoBlockNum(num) ==
  /\ ~mc.trapped
  /\ mc' = undoBlockNum(mc, num)
  /\ UNCHANGED trimmed

UndoEosioNum(eosioNum) ==
  /\ ~mc.trapped
  /\ mc' = undoEosioNum(mc, eosioNum)
  /\ UNCHANGED trimmed

MicroNext ==
  \/ \E b \in Block, n \in UInt : AddBlock(b, n)
  \/ \E e \in EosioBlock, n \in UInt : AddEosioBlock(e, n)
  \/ \E n \in UInt : SetIrreversible(n)
  \/ TrimBlocks
  \/ \E n \in UInt : UndoBlockNum(n)
  \/ \E n \in UInt : UndoEosioNum(n)

MicroSpec == MicroInit /\ [][MicroNext]_microVars
-----------------------------------------------------------------------------
(* The memory is laid out as the exports expect.  What the tables hold is  *)
(* the business of StateIsReplay.                                          *)
TypeOK ==
  /\ mc \in [blocks : Seq(Block), irreversible : UInt, db : {mc.db}, trapped : BOOLEAN]
  /\ mc.db \in [table : {mc.db.table}, undo : Seq(Range(mc.db.undo)), revision : Nat]
  /\ trimmed \in Seq(Block)

(* However forks, undos, finality and trimming interleave, what trim erased *)
(* and the log form one gapless linked chain from block 1 on.              *)
ChainLinked == Linked(Chain)

(* The block that `irreversible` names exists and is still in the log: the *)
(* GraphQL query for it, by which a box tells its clients what is final,   *)
(* finds it, and trim has erased only blocks before it.                    *)
IrreversibleInLog ==
  /\ mc.irreversible <= Len(Chain)
  /\ trimmed # <<>> => Len(trimmed) < mc.irreversible

(* EOSIO numbers increase along the chain, which the binary searches by    *)
(* EOSIO number need, although add_block compares no EOSIO numbers.        *)
ChainSorted == SortedByEosioNum(Chain)

(* A reversible block has exactly one undo session and a final one has     *)
(* none, so that forked_n_blocks rolls back as many sessions as blocks.    *)
SessionsMatchLog ==
  ~mc.trapped => /\ Len(mc.db.undo) = Len(Chain) - mc.irreversible
                 /\ mc.db.revision = Len(Chain)

(* The table is what replaying the chain from block 1 gives: no fork, undo *)
(* or commit leaves a trace of a block that is no longer in it, and each   *)
(* open session can restore the table as it was before its block.          *)
StateIsReplay ==
  ~mc.trapped =>
    /\ mc.db.table = Replay(Chain)
    /\ \A i \in 1..Len(mc.db.undo) :
         mc.db.undo[i] = Replay(SubSeq(Chain, 1, mc.irreversible + i - 1))

(* Only a block that does not decode traps the instance: the checks in     *)
(* set_revision (no open session, never backwards) always hold.            *)
TrapsOnlyOnBadBlock ==
  mc.trapped => \E i \in 1..Len(Last(mc.blocks).eosio.actions) :
                   Last(mc.blocks).eosio.actions[i].kind = "undecodable"

(* A final block is never replaced, taken back or made reversible again.   *)
FinalityIsForever ==
  [][ /\ mc'.irreversible >= mc.irreversible
      /\ \A i \in 1..mc.irreversible : i <= Len(Chain') /\ Chain'[i] = Chain[i] ]_microVars

(* The instance implements the abstract chain. *)
Abstract == INSTANCE ForkChain WITH chain <- Chain, final <- mc.irreversible
ImplementsForkChain == Abstract!Spec
=============================================================================
