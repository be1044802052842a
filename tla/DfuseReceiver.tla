--------------------------- MODULE DfuseReceiver ---------------------------
(***************************************************************************)
(* DfuseReceiver (dfuse-receiver.ts): turns the stream of transactions and *)
(* undos of a dfuse search into calls of the box storage.  The box keeps   *)
(* all of the stream in `jsonTransactions` and in a file, from which a new *)
(* process rebuilds its log; the last cursor in there says where the       *)
(* stream goes on.                                                         *)
(*                                                                         *)
(* The storage is the chain that EosioChain.tla describes and BoxStorage   *)
(* implements.                                                             *)
(*                                                                         *)
(* Every action of a block is a transaction of its own here.  What dfuse   *)
(* does is not part of this repository: the provider below is what the     *)
(* receiver relies on.                                                     *)
(***************************************************************************)
EXTENDS Integers, SequencesExt

CONSTANTS
  EosioBlock,    \* number, fork and actions
  MaxUInt,
  Null,
  SaveAfter,     \* unsaved transactions that make the receiver save: 10 in the code
  MaxNumber,     \* bound: the highest block number
  MaxMessages,   \* bound: blocks and undone blocks of the stream
  MaxStops,      \* bound: ends of the process
  MaxCompletes   \* bound: streams that the provider completes

VARIABLES
  final,              \* the blocks the provider will never undo
  at,                 \* how far it has delivered, as its cursors say
  jsonTransactions, unpushedTransactions, numSaved,
  box,                \* the chain of the storage, Null without wasm instances
  stream, retry,      \* is there a stream, is there a timer to connect again
  up,                 \* is the process running
  jsonFile, stateFile,
  messages, stops, completes

ASSUME EosioBlockAssumption ==
  \A b \in EosioBlock :
    /\ b = [num |-> b.num, fork |-> b.fork, actions |-> b.actions]
    /\ b.num \in Nat /\ b.actions \in Seq(Range(b.actions))

ASSUME MaxNumberAssumption == MaxNumber \in Nat

Storage == INSTANCE EosioChain WITH chain <- box

provider == <<final, at, messages>>
process == <<jsonTransactions, unpushedTransactions, numSaved, box>>
files == <<jsonFile, stateFile>>
counts == <<stops, completes>>
vars == <<provider, process, files, stream, retry, up, counts>>

(* A cursor: the blocks delivered, how many transactions of the last one,  *)
(* and whether that one is being undone.                                   *)
Start == [blocks |-> <<>>, trx |-> 0, undoing |-> FALSE]

Init ==
  /\ final = <<>> /\ at = Start /\ messages = 0
  /\ jsonTransactions = <<>> /\ unpushedTransactions = <<>> /\ numSaved = 0
  /\ box = Null
  /\ stream = FALSE /\ retry = FALSE /\ up = FALSE
  /\ jsonFile = <<>> /\ stateFile = Null
  /\ stops = 0 /\ completes = 0
-----------------------------------------------------------------------------
(* The provider: all transactions of a block in a row, its undos in the    *)
(* reverse order, and now and then a live marker, a block without trace.   *)

AllTrx(blocks) == IF blocks = <<>> THEN 0 ELSE Len(Last(blocks).actions)

Complete(p) == ~p.undoing /\ p.trx = AllTrx(p.blocks)

LastNumber(p) == IF p.blocks = <<>> THEN 0 ELSE Last(p.blocks).num
FinalNumber == IF final = <<>> THEN 0 ELSE Last(final).num

JsonTrx(undo, block, trx, cursor) ==
  [undo |-> undo, block |-> block, trx |-> trx, cursor |-> cursor,
   irreversibleBlockNum |-> FinalNumber]

FirstTrx(b) ==
  JsonTrx(FALSE, b, 1, [blocks |-> Append(at.blocks, b), trx |-> 1, undoing |-> FALSE])

NextTrx == JsonTrx(FALSE, Last(at.blocks), at.trx + 1, [at EXCEPT !.trx = @ + 1])

UndoTrx ==
  JsonTrx(TRUE, Last(at.blocks), at.trx,
          IF at.trx > 1 THEN [at EXCEPT !.trx = @ - 1, !.undoing = TRUE]
          ELSE LET blocks == Front(at.blocks) IN
               [blocks |-> blocks, undoing |-> FALSE, trx |-> AllTrx(blocks)])

Marker(num) == JsonTrx(FALSE, [num |-> num, fork |-> 0, actions |-> <<>>], 0, at)

Markers ==
  IF Complete(at) THEN {Marker(n) : n \in {LastNumber(at) + 1, MaxNumber + 1}} ELSE {}

HasTrace(trx) == trx.trx # 0

NewBlocks ==
  {b \in EosioBlock : /\ b.num > LastNumber(at) /\ b.actions # <<>>
                      /\ Len(at.blocks) < Len(final) => b = final[Len(at.blocks) + 1]}

(* The cursor of a stream that goes on after a restart may be on a fork    *)
(* that the final blocks have left behind, even in the middle of a block.  *)
Forked == ~IsPrefix(at.blocks, final) /\ ~IsPrefix(final, at.blocks)

Undoable == at.undoing \/ Forked \/ (Complete(at) /\ Len(at.blocks) > Len(final))

Deliverable ==
  (IF Complete(at) /\ ~Forked THEN {FirstTrx(b) : b \in NewBlocks} ELSE {})
    \cup (IF ~Complete(at) /\ ~at.undoing /\ ~Forked THEN {NextTrx} ELSE {})
    \cup (IF Undoable THEN {UndoTrx} ELSE {})

(* Final is what has been delivered, and cannot be undone any more. *)
Finalize ==
  \E k \in Len(final) + 1..Len(at.blocks) :
    /\ Complete(at)
    /\ IsPrefix(final, at.blocks)
    /\ final' = SubSeq(at.blocks, 1, k)
    /\ UNCHANGED <<at, messages, process, files, stream, retry, up, counts>>
-----------------------------------------------------------------------------
(* pushTrx *)

(* The block that JSON.stringify puts together from its transactions. *)
Assembled(trxs) ==
  [Last(trxs).block EXCEPT !.actions = [i \in 1..Len(trxs) |-> @[trxs[i].trx]]]

(* Mutant: only the block is compared, not whether it is an undo. *)
SameBlock(trx, prev) == trx.block.num = prev.block.num /\ trx.block.fork = prev.block.fork

SameGroup(trx, prev) ==
  /\ trx.undo = prev.undo
  /\ trx.block.num = prev.block.num /\ trx.block.fork = prev.block.fork

(* An action that does not decode aborts the wasm. *)
Decodes(e) == \A i \in 1..Len(e.actions) : e.actions[i] # "undecodable"

(* pushJsonBlock, whose result is Null when the wasm aborts *)
Push(c, e, irreversible) ==
  IF Decodes(e) \/ ~Storage!IsNew(c, e) THEN Storage!Pushed(c, e, irreversible) ELSE Null

(* What the storage makes of a group that is complete. *)
Flush(c, trxs) ==
  LET prev == Last(trxs) IN
  IF prev.undo THEN Storage!Undone(c, prev.block.num)
  ELSE Push(c, Assembled(trxs), prev.irreversibleBlockNum)

pushTrx(s, trx) ==
  IF s.unpushed = <<>> \/ SameGroup(trx, Last(s.unpushed))
  THEN [s EXCEPT !.unpushed = IF HasTrace(trx) THEN Append(@, trx) ELSE @]
  ELSE [chain |-> Flush(s.chain, s.unpushed),
        unpushed |-> IF HasTrace(trx) THEN <<trx>> ELSE <<>>]

Current == [chain |-> box, unpushed |-> unpushedTransactions]
-----------------------------------------------------------------------------
(* onMessage *)

(* Mutant: a message without trace is of no use. *)
IsKeptWithTrace(trx) == HasTrace(trx)

IsKept(trx) ==
  \/ HasTrace(trx)
  \/ /\ jsonTransactions # <<>>
     /\ LET prev == Last(jsonTransactions)
        IN  HasTrace(prev) /\ prev.block.num < trx.block.num

MustSave(trx) == Len(jsonTransactions) + 1 - numSaved > SaveAfter \/ ~HasTrace(trx)

(* What is saved: first the transactions, then the state. *)
SaveTransactions(trxs) == jsonFile' = trxs
SaveState(c) == stateFile' = c

Read(trx) ==
  /\ up /\ stream
  /\ at' = trx.cursor
  /\ UNCHANGED <<final, counts>>

Skip(trx) ==
  /\ Read(trx) /\ ~IsKept(trx)
  /\ UNCHANGED <<process, files, stream, retry, up>>

(* A throw closes the stream, for good; the storage has dropped its wasm. *)
Thrown ==
  /\ box' = Null
  /\ stream' = FALSE
  /\ UNCHANGED <<unpushedTransactions, numSaved, files>>

Handled(s, save) ==
  /\ box' = s.chain /\ unpushedTransactions' = s.unpushed
  /\ IF save THEN /\ SaveTransactions(jsonTransactions') /\ SaveState(s.chain)
                  /\ numSaved' = Len(jsonTransactions')
     ELSE UNCHANGED <<files, numSaved>>
  /\ UNCHANGED stream

Keep(trx) ==
  /\ Read(trx) /\ IsKept(trx)
  /\ jsonTransactions' = Append(jsonTransactions, trx)
  /\ \E s \in {pushTrx(Current, trx)} :
       IF s.chain = Null THEN Thrown ELSE Handled(s, MustSave(trx))
  /\ UNCHANGED <<retry, up>>

onMessage(trx) == Skip(trx) \/ Keep(trx)

DeliverTrx ==
  /\ Complete(at) /\ messages < MaxMessages /\ messages' = messages + 1
  /\ \E trx \in Deliverable : onMessage(trx)

DeliverRest ==
  /\ ~Complete(at)
  /\ \E trx \in Deliverable : onMessage(trx)
  /\ UNCHANGED messages

DeliverMarker ==
  /\ \E trx \in Markers : onMessage(trx)
  /\ UNCHANGED messages

(* Memory does not survive the process. *)
Ended ==
  /\ up /\ up' = FALSE
  /\ stops < MaxStops /\ stops' = stops + 1
  /\ jsonTransactions' = <<>> /\ unpushedTransactions' = <<>> /\ numSaved' = 0
  /\ box' = Null /\ stream' = FALSE /\ retry' = FALSE
  /\ UNCHANGED <<final, messages, completes>>

Stop == Ended /\ UNCHANGED <<at, files>>

(* Mutant: the state is saved before the transactions. *)
SavedFirstState(trxs, c) == SaveState(c) /\ UNCHANGED jsonFile

SavedFirst(trxs, c) == SaveTransactions(trxs) /\ UNCHANGED stateFile

(* The process ends between the two files. *)
StopBetweenSaves ==
  /\ \E trx \in Deliverable \cup Markers :
       /\ stream /\ IsKept(trx) /\ MustSave(trx)
       /\ \E s \in {pushTrx(Current, trx)} :
            s.chain # Null /\ SavedFirst(Append(jsonTransactions, trx), s.chain)
  /\ Ended /\ UNCHANGED at

(* "complete": another stream in a second. *)
complete ==
  /\ up /\ stream
  /\ completes < MaxCompletes /\ completes' = completes + 1
  /\ stream' = FALSE /\ retry' = TRUE
  /\ UNCHANGED <<provider, process, files, up, stops>>
-----------------------------------------------------------------------------
(* Storage.instantiate and start: replay the file, save the state, connect.*)
(* A replay that throws ends the process.  (The fold binds each result to  *)
(* a value: TLC evaluates ENABLED by name.)                                *)
Replayed(trxs) ==
  FoldLeft(LAMBDA s, trx : CHOOSE r \in {pushTrx(t, trx) : t \in {s}} : TRUE,
           [chain |-> Storage!Empty, unpushed |-> <<>>], trxs)

start ==
  /\ ~up
  /\ \E s \in {Replayed(jsonFile)} :
       /\ s.chain # Null
       /\ box' = s.chain /\ unpushedTransactions' = s.unpushed
       /\ SaveState(s.chain)
  /\ jsonTransactions' = jsonFile /\ numSaved' = Len(jsonFile)
  /\ up' = TRUE /\ retry' = TRUE
  /\ UNCHANGED <<provider, stream, jsonFile, counts>>

ResumeAt(trxs) == IF trxs = <<>> THEN Start ELSE Last(trxs).cursor

(* connect: at once after start, by a timer after "complete".  A connect   *)
(* that fails sets another timer, which changes nothing.                   *)
connect ==
  /\ up /\ retry /\ retry' = FALSE
  /\ stream' = TRUE
  /\ at' = ResumeAt(jsonTransactions)
  /\ UNCHANGED <<final, messages, process, files, up, counts>>

Next ==
  \/ Finalize
  \/ DeliverTrx
  \/ DeliverRest
  \/ DeliverMarker
  \/ complete
  \/ Stop
  \/ StopBetweenSaves
  \/ start
  \/ connect

(* The process is started again, connecting succeeds in the end, a block   *)
(* that was begun is delivered to its end, and live markers keep coming as *)
(* long as there is a stream.                                              *)
Fairness ==
  /\ WF_vars(start) /\ WF_vars(connect)
  /\ WF_vars(DeliverRest) /\ WF_vars(DeliverMarker)

Spec == Init /\ [][Next]_vars /\ Fairness
-----------------------------------------------------------------------------
(* Undos and blocks lag one group behind the stream, and a process may end *)
(* in the middle of a group; still the box has exactly the provider's      *)
(* chain: without the block whose transactions are still being gathered,   *)
(* with the one whose undo is.  (That one may be cut short, where a stream *)
(* goes on after a restart with undoing what it has begun.)                *)
BoxFollowsProvider ==
  stream =>
    IF unpushedTransactions = <<>> THEN box.blocks = at.blocks
    ELSE LET last == Last(unpushedTransactions) IN
         IF ~last.undo THEN box.blocks = Front(at.blocks)
         ELSE /\ box.blocks # <<>>
              /\ Front(box.blocks) = IF at.undoing THEN Front(at.blocks) ELSE at.blocks
              /\ Last(box.blocks).num = last.block.num
              /\ Last(box.blocks).fork = last.block.fork

(* Wherever the process ends, the transactions in the one file rebuild a   *)
(* chain that the state in the other is not ahead of: no final block that  *)
(* a client has taken from it is missing in the next process.              *)
StateFileNotAhead ==
  stateFile # Null =>
    \E c \in {Replayed(jsonFile).chain} :
      c # Null => /\ stateFile.final <= c.final
                  /\ IsPrefix(SubSeq(stateFile.blocks, 1, stateFile.final), c.blocks)

(* In the end the box has every block the provider has delivered, unless   *)
(* one of them aborts the wasm: a live marker flushes the last one, and    *)
(* the stream always comes back.                                           *)
EventuallyFlushed ==
  <>[]((\A i \in 1..Len(at.blocks) : Decodes(at.blocks[i]))
         => stream /\ box.blocks = at.blocks)
=============================================================================
