---------------------------- MODULE WasmExports ----------------------------
(***************************************************************************)
(* The functions the micro-chain exports from wasm                         *)
(* (starter-micro-chain.cpp), as operators on the instance's memory        *)
(*   blocks, irreversible   the block log                                  *)
(*   db                     the greetings table with its undo sessions     *)
(*   trapped                an eosio::check or a decoder aborted the wasm  *)
(* Microchain.tla drives one instance; the box keeps two, each client one. *)
(***************************************************************************)
EXTENDS BlockLog, ChainDb, SequencesExt

CONSTANTS
  Account, Message,
  NoMessage        \* an account without a greeting

ASSUME MessageAssumption == NoMessage \notin Message

(* The contract actions of a block, as filter_block tells them apart: `hi` *)
(* and `clearall` of the starter contract, an action it decodes and then   *)
(* ignores or does not look at, and one whose data does not decode.        *)
Action ==
  [kind : {"hi"}, account : Account, message : Message]
    \cup [kind : {"clearall", "ignored", "undecodable"}]

ASSUME ActionAssumption == \A e \in EosioBlock : e.actions \in Seq(Action)

EmptyTable == [a \in Account |-> NoMessage]

hi(table, account, message) == [table EXCEPT ![account] = message]

clearall(table) == EmptyTable

(* dispatch of one action; nothing runs after an abort. *)
Dispatch(run, action) ==
  CASE ~run.ok -> run
    [] run.ok /\ action.kind = "hi" ->
         [run EXCEPT !.table = hi(@, action.account, action.message)]
    [] run.ok /\ action.kind = "clearall" -> [run EXCEPT !.table = clearall(@)]
    [] run.ok /\ action.kind = "ignored" -> run
    [] run.ok /\ action.kind = "undecodable" -> [run EXCEPT !.ok = FALSE]

FilterBlock(table, eosio) ==
  FoldLeft(Dispatch, [table |-> table, ok |-> TRUE], eosio.actions)

(* What the table holds after filter_block has run on every block of a     *)
(* chain: the reference that properties compare the database with.         *)
Replay(chain) ==
  FoldLeft(LAMBDA table, b : FilterBlock(table, b.eosio).table, EmptyTable, chain)
-----------------------------------------------------------------------------
Initialized ==
  [blocks |-> <<>>, irreversible |-> 0, db |-> EmptyDb(EmptyTable), trapped |-> FALSE]

(* std::max(irreversible, b->num), for the block at an index of the log *)
Advanced(log, irr, it) ==
  IF it # 0 /\ log[it].num > irr THEN log[it].num ELSE irr

AdvancedByEosioNum(log, irr, eosioIrreversible) ==
  Advanced(log, irr, BlockBeforeEosioNum(log, Inc(eosioIrreversible)))

Accepts(m, b) == IsAppendable(m.blocks, m.irreversible, b)

(* Mutant: whether to open a session is decided on the old irreversible. *)
DbForBlockStale(m, b, irr) ==
  LET d == Commit(UndoSessions(m.db, NumForked(m.blocks, b)), irr)
  IN  IF b.num > m.irreversible THEN StartSession(d) ELSE d

(* The database when filter_block starts on block b. *)
DbForBlock(m, b, irr) ==
  LET d == Commit(UndoSessions(m.db, NumForked(m.blocks, b)), irr)
  IN  IF b.num > irr THEN StartSession(d) ELSE d

(* What is left after applying block b to d: an abort leaves the changes   *)
(* of the actions before it, with the session open.                        *)
ApplyBlock(log, irr, d, b) ==
  LET run == FilterBlock(d.table, b.eosio)
      after == [d EXCEPT !.table = run.table]
      done == b.num > irr \/ CanSetRevision(after, b.num)
  IN [blocks |-> log, irreversible |-> irr,
      db |-> IF run.ok /\ done /\ b.num <= irr THEN SetRevision(after, b.num) ELSE after,
      trapped |-> ~(run.ok /\ done)]

addBlock(m, b, eosioIrreversible) ==
  LET log == Added(m.blocks, b)
      irr == AdvancedByEosioNum(log, m.irreversible, eosioIrreversible)
  IN  IF Accepts(m, b) THEN ApplyBlock(log, irr, DbForBlock(m, b, irr), b) ELSE m

(* The subchain block for an EOSIO block: it goes right after the last     *)
(* block with a smaller EOSIO number.                                      *)
BlockFor(m, e) ==
  LET prev == BlockBeforeEosioNum(m.blocks, e.num) IN
  IF prev = 0 THEN MakeBlock(1, NoId, e)
  ELSE MakeBlock(Inc(m.blocks[prev].num), m.blocks[prev].id, e)

(* addEosioBlockJson, and pushShipMessage once it has converted the traces *)
addEosioBlock(m, e, eosioIrreversible) == addBlock(m, BlockFor(m, e), eosioIrreversible)

(* Mutant: the database is not told of the new irreversible block. *)
setIrreversibleUncommitted(m, num) ==
  [m EXCEPT !.irreversible =
     Advanced(m.blocks, @, BlockBeforeNum(m.blocks, Inc(num)))]

setIrreversible(m, num) ==
  LET irr == Advanced(m.blocks, m.irreversible, BlockBeforeNum(m.blocks, Inc(num)))
  IN  [m EXCEPT !.irreversible = irr, !.db = Commit(@, irr)]

trimBlocks(m) == [m EXCEPT !.blocks = DropFirst(@, NumTrimmed(@, m.irreversible))]

(* block_log.undo and forked_n_blocks *)
undoBlockNum(m, num) ==
  LET n == NumUndone(m.blocks, m.irreversible, num)
  IN  [m EXCEPT !.blocks = DropLast(@, n), !.db = UndoSessions(@, n)]

undoEosioNum(m, eosioNum) ==
  LET it == BlockByEosioNum(m.blocks, eosioNum)
  IN  IF it = 0 THEN m ELSE undoBlockNum(m, m.blocks[it].num)
=============================================================================
