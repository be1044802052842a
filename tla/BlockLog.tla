------------------------------ MODULE BlockLog ------------------------------
(***************************************************************************)
(* subchain::block_log (clchain/subchain.hpp): the log of blocks that the  *)
(* box and every client keep in wasm memory.  This module holds the data   *)
(* structure: what each member function computes from a log and the number *)
(* `irreversible`.  Microchain.tla gives the log its state and its callers.*)
(*                                                                         *)
(* A log is a sequence of blocks; an iterator is an index into it, with    *)
(* Len(log) + 1 for end().  A member that returns a pointer is an operator *)
(* that returns an index, 0 for nullptr.                                   *)
(***************************************************************************)
EXTENDS Integers, Sequences

CONSTANTS
  MaxUInt,        \* the largest uint32_t
  EosioBlock,     \* the EOSIO blocks the history providers can deliver
  Block,          \* the subchain blocks a box can build out of them
  NoId,           \* the all-zero checksum of a block without predecessor
  Hash(_, _, _)   \* sha256 of a serialised block: number, previous, content

UInt == 0..MaxUInt

(* uint32_t addition of one wraps. *)
Inc(n) == (n + 1) % (MaxUInt + 1)

(* A block_with_id as add_block(block&&) completes it with its id. *)
MakeBlock(num, previous, eosio) ==
  [num |-> num, previous |-> previous, eosio |-> eosio,
   id |-> Hash(num, previous, eosio)]

ASSUME WidthAssumption == MaxUInt \in Nat \ {0}

ASSUME EosioAssumption == \A e \in EosioBlock : e.num \in UInt

ASSUME BlockAssumption == \A b \in Block : b.num \in UInt /\ b.eosio \in EosioBlock

(* sha256 has no collisions, and is never all zero. *)
ASSUME HashAssumption ==
  \A a, b \in Block : /\ a.id # NoId
                      /\ a.id = b.id => a = b

(* Every block is one that add_block(eosio_block&&) built on some log, so  *)
(* its EOSIO number is above that of the block it extends; and Block holds *)
(* all blocks that can be built so.                                        *)
ASSUME OriginAssumption ==
  \A a, b \in Block : b.previous = a.id => a.eosio.num < b.eosio.num
ASSUME ClosureAssumption ==
  \A e \in EosioBlock :
    /\ MakeBlock(1, NoId, e) \in Block
    /\ \A b \in Block : b.eosio.num < e.num /\ b.num < MaxUInt =>
                          MakeBlock(b.num + 1, b.id, e) \in Block
-----------------------------------------------------------------------------
(* Look-ups *)

LowerBoundByNum(log, num) ==
  IF log = <<>> \/ num <= log[1].num THEN 1
  ELSE IF num - log[1].num < Len(log) THEN 1 + (num - log[1].num)
  ELSE Len(log) + 1

UpperBoundByNum(log, num) ==
  IF num = MaxUInt THEN Len(log) + 1 ELSE LowerBoundByNum(log, num + 1)

(* std::lower_bound over the EOSIO numbers: the point that separates the   *)
(* smaller ones from the others, which exists only in a sorted log.        *)
LowerBoundByEosioNum(log, num) ==
  CHOOSE i \in 1..Len(log) + 1 :
    /\ \A j \in 1..i - 1 : log[j].eosio.num < num
    /\ \A j \in i..Len(log) : log[j].eosio.num >= num

BlockByNum(log, num) ==
  LET it == LowerBoundByNum(log, num) IN
  IF it <= Len(log) /\ log[it].num = num THEN it ELSE 0

BlockByEosioNum(log, num) ==
  LET it == LowerBoundByEosioNum(log, num) IN
  IF it <= Len(log) /\ log[it].eosio.num = num THEN it ELSE 0

BlockBeforeNum(log, num) == LowerBoundByNum(log, num) - 1

BlockBeforeEosioNum(log, num) == LowerBoundByEosioNum(log, num) - 1

-----------------------------------------------------------------------------
(* add_block: what it refuses, and what it makes of the log otherwise *)

IsDuplicate(log, b) ==
  LET it == LowerBoundByNum(log, b.num) IN it <= Len(log) /\ b.id = log[it].id

(* Mutant: only the number is compared with that of the predecessor. *)
IsLinkableByNumber(log, irr, b) ==
  LET it == LowerBoundByNum(log, b.num) IN
  /\ it = 1 => b.num = 1
  /\ it > 1 => b.num = Inc(log[it - 1].num)
  /\ it <= Len(log) => log[it].num > irr

(* Mutant: a new block may fork out an irreversible one. *)
IsLinkableAnywhere(log, irr, b) ==
  LET it == LowerBoundByNum(log, b.num) IN
  /\ it = 1 => b.num = 1
  /\ it > 1 => b.previous = log[it - 1].id /\ b.num = Inc(log[it - 1].num)

IsLinkable(log, irr, b) ==
  LET it == LowerBoundByNum(log, b.num) IN
  /\ it = 1 => b.num = 1
  /\ it > 1 => b.previous = log[it - 1].id /\ b.num = Inc(log[it - 1].num)
  /\ it <= Len(log) => log[it].num > irr

IsAppendable(log, irr, b) == ~IsDuplicate(log, b) /\ IsLinkable(log, irr, b)

(* The blocks that the new block forks out, and the log after it. *)
NumForked(log, b) == Len(log) + 1 - LowerBoundByNum(log, b.num)

Added(log, b) == Append(SubSeq(log, 1, LowerBoundByNum(log, b.num) - 1), b)
-----------------------------------------------------------------------------
(* undo: how many blocks it removes, and the log after removing n blocks *)

(* Mutant: undo does not look at `irreversible`. *)
NumUndoneAnywhere(log, irr, num) ==
  LET it == BlockByNum(log, num) IN IF it = 0 THEN 0 ELSE Len(log) + 1 - it

NumUndone(log, irr, num) ==
  LET it == BlockByNum(log, num) IN
  IF num <= irr \/ it = 0 THEN 0 ELSE Len(log) + 1 - it

DropLast(log, n) == SubSeq(log, 1, Len(log) - n)

(* Mutant: trim erases the irreversible block too. *)
NumTrimmedThrough(log, irr) == LowerBoundByNum(log, irr + 1) - 1

(* trim erases what comes before the irreversible block. *)
NumTrimmed(log, irr) == LowerBoundByNum(log, irr) - 1

DropFirst(log, n) == SubSeq(log, n + 1, Len(log))
-----------------------------------------------------------------------------
(* What every chain of blocks looks like *)

(* Numbers run from 1 without a gap and each block names its predecessor. *)
Linked(chain) ==
  \A i \in 1..Len(chain) : /\ chain[i].num = i
                           /\ i > 1 => chain[i].previous = chain[i - 1].id

(* The precondition of std::lower_bound in the EOSIO look-ups. *)
SortedByEosioNum(chain) ==
  \A i, j \in 1..Len(chain) : i < j => chain[i].eosio.num < chain[j].eosio.num
=============================================================================
