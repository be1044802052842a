----------------------------- MODULE BoxStorage -----------------------------
(***************************************************************************)
(* The Storage of the box (subchain-storage.ts): two instances that get    *)
(* the same blocks.  `blocksWasm` keeps the whole log, for the clients'    *)
(* sake; `stateWasm` is trimmed, and its memory is what saveState writes   *)
(* to the file that new clients start from.                                *)
(*                                                                         *)
(* A method runs to its end without a turn of the event loop, so only the  *)
(* end of the process can interrupt it: that is seen in the files alone,   *)
(* which is why saveState takes several steps.                             *)
(***************************************************************************)
EXTENDS WasmExports

CONSTANT Null    \* an instance that is null; a file that does not exist

(* nodeos numbers its blocks from 1. *)
ASSUME NumberAssumption == \A e \in EosioBlock : e.num > 0

VARIABLES
  blocksWasm, stateWasm,
  head,         \* the number of the last block, for the connections
  saving,       \* how far saveState has come: "no", "writing", "written"
  stateFile     \* the memory in the state file

vars == <<blocksWasm, stateWasm, head, saving, stateFile>>

Up == blocksWasm # Null /\ stateWasm # Null
Idle == Up /\ saving = "no"

LastNum(log) == IF log = <<>> THEN 0 ELSE Last(log).num

Init ==
  /\ blocksWasm = Null /\ stateWasm = Null
  /\ head = 0
  /\ saving = "no"
  /\ stateFile = Null

(* A new process: two fresh instances, the state file as it was found. *)
instantiate ==
  /\ ~Up
  /\ blocksWasm' = Initialized /\ stateWasm' = Initialized
  /\ head' = 0
  /\ UNCHANGED <<saving, stateFile>>

(* protect drops both instances when a call into either one throws. *)
Protected(blocks, state) ==
  IF blocks.trapped \/ state.trapped
  THEN /\ blocksWasm' = Null /\ stateWasm' = Null
       /\ UNCHANGED head
  ELSE /\ blocksWasm' = blocks /\ stateWasm' = state
       /\ head' = LastNum(blocks.blocks)

(* pushJsonBlock, and pushShipMessage *)
pushBlock(e, eosioIrreversible) ==
  LET blocks == addEosioBlock(blocksWasm, e, eosioIrreversible)
      state == trimBlocks(addEosioBlock(stateWasm, e, eosioIrreversible))
  IN /\ Idle
     /\ Protected(blocks, state)
     /\ UNCHANGED <<saving, stateFile>>

(* Mutant: the trimmed instance is not told. *)
undoEosioNumInOne(eosioNum) ==
  /\ Idle
  /\ Protected(undoEosioNum(blocksWasm, eosioNum), stateWasm)
  /\ UNCHANGED <<saving, stateFile>>

undoEosioNumInBoth(eosioNum) ==
  /\ Idle
  /\ Protected(undoEosioNum(blocksWasm, eosioNum), undoEosioNum(stateWasm, eosioNum))
  /\ UNCHANGED <<saving, stateFile>>

(* saveState writes a temporary file, which nothing reads, and renames it. *)
StartSave ==
  /\ Idle
  /\ saving' = "writing"
  /\ UNCHANGED <<blocksWasm, stateWasm, head, stateFile>>

FinishWrite ==
  /\ saving = "writing"
  /\ saving' = "written"
  /\ UNCHANGED <<blocksWasm, stateWasm, head, stateFile>>

Rename ==
  /\ saving = "written"
  /\ saving' = "no"
  /\ stateFile' = stateWasm
  /\ UNCHANGED <<blocksWasm, stateWasm, head>>

(* Writing or renaming throws inside protect, or the process ends: either  *)
(* way the instances are gone and a new process has to start.              *)
Fail ==
  /\ Up
  /\ blocksWasm' = Null /\ stateWasm' = Null
  /\ saving' = "no"
  /\ UNCHANGED <<head, stateFile>>

Next ==
  \/ instantiate
  \/ \E e \in EosioBlock, n \in UInt : pushBlock(e, n)
  \/ \E n \in UInt : undoEosioNumInBoth(n)
  \/ StartSave
  \/ FinishWrite
  \/ Rename
  \/ Fail

Spec == Init /\ [][Next]_vars
-----------------------------------------------------------------------------
(* The instances never drift apart: the one that is trimmed after every    *)
(* block is what trimming the other would give, down to the undo sessions, *)
(* although its look-ups by EOSIO number see less of the chain.            *)
InstancesAgree == Up => /\ stateWasm = trimBlocks(blocksWasm)
                        /\ head = LastNum(blocksWasm.blocks)

(* A provider that repeats its history disturbs nothing: neither a block   *)
(* the box has, nor any block at the height of a final block or below it,  *)
(* changes either instance or traps it, whatever finality comes with it.   *)
IsHistory(e) ==
  \E i \in 1..Len(blocksWasm.blocks) :
    \/ e = blocksWasm.blocks[i].eosio
    \/ /\ blocksWasm.blocks[i].num <= blocksWasm.irreversible
       /\ e.num <= blocksWasm.blocks[i].eosio.num
HistoryIsInert ==
  Up => \A e \in EosioBlock, n \in UInt :
          IsHistory(e) => /\ addEosioBlock(blocksWasm, e, n) = blocksWasm
                          /\ addEosioBlock(stateWasm, e, n) = stateWasm

(* To the receivers the storage is a chain of EOSIO blocks: numbers, ids,  *)
(* sessions and the second instance make no difference to what a push or   *)
(* an undo does to it.                                                     *)
AsEosioChain(memory) ==
  [blocks |-> [i \in 1..Len(memory.blocks) |-> memory.blocks[i].eosio],
   final |-> memory.irreversible]
Eosio == INSTANCE EosioChain WITH
  chain <- IF Up THEN AsEosioChain(blocksWasm) ELSE AsEosioChain(Initialized)
ImplementsEosioChain == Eosio!Spec

(* What a client does with a saved memory: undo what is not on the box's   *)
(* chain, add the rest of that chain, learn what is final, trim.           *)
Shared(memory) ==
  LET log == blocksWasm.blocks
  IN  {0} \cup {memory.blocks[i].num :
                  i \in {j \in 1..Len(memory.blocks) :
                           /\ memory.blocks[j].num <= Len(log)
                           /\ memory.blocks[j].id = log[memory.blocks[j].num].id}}

AddAll(memory, blocks) ==
  FoldLeft(LAMBDA m, b : addBlock(m, b, 0), memory, blocks)

CaughtUp(memory) ==
  LET log == blocksWasm.blocks
      common == CHOOSE k \in Shared(memory) : \A j \in Shared(memory) : j <= k
      all == AddAll(undoBlockNum(memory, common + 1), SubSeq(log, common + 1, Len(log)))
  IN trimBlocks(setIrreversible(all, blocksWasm.irreversible))

(* The state file is never half written nor the memory of an aborted       *)
(* instance, and it serves however old it is: as long as its final blocks  *)
(* are on the box's chain, a client that starts from it and catches up has *)
(* exactly the box's memory.                                               *)
OnChain(memory) ==
  \/ memory.irreversible = 0
  \/ /\ memory.irreversible <= blocksWasm.irreversible
     /\ memory.blocks[1] = blocksWasm.blocks[memory.irreversible]
StateFileServes ==
  stateFile # Null =>
    /\ ~stateFile.trapped
    /\ (Up /\ OnChain(stateFile)) => CaughtUp(stateFile) = stateWasm
=============================================================================
