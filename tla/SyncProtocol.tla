---------------------------- MODULE SyncProtocol ----------------------------
(***************************************************************************)
(* How a client follows the box: ConnectionState (handlers/subchain.ts) on *)
(* the box's side, SubchainClient.ts on the other, and the sockets between *)
(* them.  A block travels as a Blob that the client has to read, which     *)
(* takes time; all other messages are text and are handled at once.  The   *)
(* client therefore queues what it receives, and the queue outlives the    *)
(* connection it came through.                                             *)
(*                                                                         *)
(* Connections share nothing but the storage, so one client is modelled.   *)
(* Its earlier connections no longer matter: whatever the box still sends  *)
(* there is lost.                                                          *)
(***************************************************************************)
EXTENDS WasmExports

CONSTANTS
  Null,
  MaxBlocksToSend,  \* blocks the box may send for one status: 1000 in the code
  BlobMessages,     \* the WebSocket delivers binary messages as Blobs
  Scenarios         \* [patient, changes, closes, restarts]: are blobs read before the
                    \* reconnect timer of 500 ms fires; bounds: changes of the box's
                    \* log, closed connections, restarts of the box

ASSUME BatchAssumption == MaxBlocksToSend \in Nat \ {0}

(* nodeos numbers its blocks from 1. *)
ASSUME NumberAssumption == \A e \in EosioBlock : e.num > 0

VARIABLES
  box,        \* the memory of blocksWasm
  settled,    \* what the history providers have declared irreversible so far
  conn,       \* the box's ConnectionState: its status, and whether it has a callback
  up, down,   \* messages in flight to the box and to the client
  ws,         \* the client's socket: null, or its readyState
  mem,        \* the client's memory; Null until the state has been fetched
  queue,      \* messageQueue
  reading,    \* the block processQueue awaits, Null if it does not run
  changes, closes, restarts,
  scenario    \* one of Scenarios

boxVars == <<box, settled, changes, scenario>>
clientVars == <<mem, queue, reading>>
wire == <<conn, up, down>>
vars == <<box, settled, conn, up, down, ws, mem, queue, reading,
          changes, closes, restarts, scenario>>

Closed == [open |-> FALSE, status |-> Null, haveCallback |-> FALSE]

Init ==
  /\ scenario \in Scenarios
  /\ box = Initialized /\ settled = <<>>
  /\ conn = Closed /\ up = <<>> /\ down = <<>>
  /\ ws = "null"
  /\ mem = Null /\ queue = <<>> /\ reading = Null
  /\ changes = 0 /\ closes = 0 /\ restarts = 0
-----------------------------------------------------------------------------
(* A fold for actions that appear in fairness conditions.  TLC evaluates   *)
(* ENABLED by name: an accumulator that a step mentions several times is   *)
(* computed anew for each mention, exponentially often in the length of    *)
(* the sequence.  Here it is a bound variable, which has a value.          *)
FoldValues(op(_, _), base, seq) ==
  FoldLeft(LAMBDA s, x : CHOOSE r \in {op(t, x) : t \in {s}} : TRUE, base, seq)

(* Both sides describe a block by its number and id (BlockInfo). *)
Info(b) == [num |-> b.num, id |-> b.id]

Status == [maxBlocksToSend : Nat, irreversible : Nat, blocks : Seq({Info(b) : b \in Block})]

Memory ==
  LET tables == [Account -> Message \cup {NoMessage}]
  IN  [blocks : Seq(Block), irreversible : UInt, trapped : BOOLEAN,
       db : [table : tables, undo : Seq(tables), revision : Nat]]

ASSUME NullAssumption == Null \notin Block /\ Null \notin Status /\ Null \notin Memory

LastNum(blocks) == IF blocks = <<>> THEN 0 ELSE Last(blocks).num

(* Subchain.getIrreversible *)
getIrreversible(m) ==
  IF BlockByNum(m.blocks, m.irreversible) = 0 THEN 0 ELSE m.irreversible

(* What sendStatus reports: the log from the irreversible block on. *)
ClientStatus(m) ==
  LET from == LowerBoundByNum(m.blocks, getIrreversible(m)) IN
  [maxBlocksToSend |-> MaxBlocksToSend,
   irreversible |-> getIrreversible(m),
   blocks |-> [i \in 1..Len(m.blocks) + 1 - from |-> Info(m.blocks[from + i - 1])]]

(* The reported blocks that remain after popping those the box lacks. *)
Shared(blocks, log) ==
  LET onBox(i) == /\ blocks[i].num <= Len(log)
                  /\ blocks[i].id = log[blocks[i].num].id
      kept == Max({0} \cup {i \in 1..Len(blocks) : onBox(i)})
  IN  SubSeq(blocks, 1, kept)

(* Mutant: the box announces its own irreversible block at once. *)
SendBlockEager(b, memory, irreversible, sent) ==
  IF getIrreversible(memory) > irreversible
  THEN <<[type |-> "setIrreversible", irreversible |-> getIrreversible(memory)]>>
         \o Append(sent, [type |-> "block", block |-> b])
  ELSE Append(sent, [type |-> "block", block |-> b])

(* One round of the loop that sends blocks, for a block of the box's log. *)
SendBlock(b, memory, irreversible, sent) ==
  LET irr == Min({getIrreversible(memory), b.num}) IN
  IF irr > irreversible
  THEN sent \o <<[type |-> "block", block |-> b],
                 [type |-> "setIrreversible", irreversible |-> irr]>>
  ELSE Append(sent, [type |-> "block", block |-> b])

SendNext(memory, s, b) ==
  [status |-> [maxBlocksToSend |-> s.status.maxBlocksToSend - 1,
               irreversible |-> Max({s.status.irreversible,
                                     Min({getIrreversible(memory), b.num})}),
               blocks |-> Append(s.status.blocks, Info(b))],
   sent |-> SendBlock(b, memory, s.status.irreversible, s.sent)]

SendBlocks(memory, status, n) ==
  LET head == LastNum(status.blocks)
  IN  FoldValues(LAMBDA s, b : SendNext(memory, s, b), [status |-> status, sent |-> <<>>],
                 SubSeq(memory.blocks, head + 1, head + n))

(* Mutant: the connection does not ask to be called again. *)
NoCallback(c) == c

addCallback(c) == [c EXCEPT !.haveCallback = TRUE]

(* ConnectionState.update: the connection afterwards, and what it sent. *)
update(c, memory) ==
  LET blocks == Shared(c.status.blocks, memory.blocks)
      status == [c.status EXCEPT !.blocks = blocks]
      n == Min({status.maxBlocksToSend,
                Max({0, Len(memory.blocks) - LastNum(blocks)})})
      s == SendBlocks(memory, status, n)
      setHead == IF Len(blocks) < Len(c.status.blocks) /\ n = 0
                 THEN <<[type |-> "setHead", head |-> LastNum(blocks)]>> ELSE <<>>
  IN  IF ~c.open \/ c.status = Null THEN [conn |-> c, sent |-> <<>>]
      ELSE IF s.status.maxBlocksToSend = 0
      THEN [conn |-> [c EXCEPT !.status = Null],
            sent |-> s.sent \o setHead \o <<[type |-> "sendStatus"]>>]
      ELSE [conn |-> addCallback([c EXCEPT !.status = s.status]),
            sent |-> s.sent \o setHead]
-----------------------------------------------------------------------------
(* The box *)

Updated(c, memory) ==
  \E u \in {update(c, memory)} :
    /\ conn' = u.conn
    /\ down' = down \o u.sent

(* ws.on("message"): the first one creates the ConnectionState. *)
BoxMessage ==
  /\ conn.open /\ up # <<>>
  /\ up' = Tail(up)
  /\ Updated([conn EXCEPT !.status = Head(up)], box)
  /\ UNCHANGED <<boxVars, clientVars, ws, closes, restarts>>

(* Storage.changed runs the callbacks after each change of the log.  An    *)
(* abort drops the instances and throws before that: see BoxStorage.       *)
Changed(memory) ==
  /\ ~memory.trapped
  /\ changes < scenario.changes
  /\ changes' = changes + 1
  /\ memory # box /\ box' = memory
  /\ IF conn.haveCallback
     THEN Updated([conn EXCEPT !.haveCallback = FALSE], memory)
     ELSE UNCHANGED <<conn, down>>
  /\ UNCHANGED <<up, clientVars, ws, closes, restarts, scenario>>

FinalBlocks(memory) == SubSeq(memory.blocks, 1, memory.irreversible)

(* A history provider never takes back what it declared irreversible, and  *)
(* it gives that to a box that has restarted before anything else.         *)
pushBlock(e, eosioIrreversible) ==
  \E memory \in {addEosioBlock(box, e, eosioIrreversible)} :
    /\ \A i \in 1..Len(settled) : i <= Len(memory.blocks) => memory.blocks[i] = settled[i]
    /\ settled' = IF Len(settled) < memory.irreversible
                  THEN FinalBlocks(memory) ELSE settled
    /\ Changed(memory)

undoneEosioNum(eosioNum) ==
  \E memory \in {undoEosioNum(box, eosioNum)} :
    Changed(memory) /\ UNCHANGED settled

(* A new process: empty instances, no connections. *)
BoxRestarts ==
  /\ restarts < scenario.restarts
  /\ restarts' = restarts + 1
  /\ box' = Initialized
  /\ conn' = Closed /\ up' = <<>>
  /\ UNCHANGED <<settled, changes, scenario, down, clientVars, ws, closes>>

(* The connection breaks as the box sees it. *)
BoxCloses ==
  /\ conn.open
  /\ closes < scenario.closes
  /\ closes' = closes + 1
  /\ conn' = Closed /\ up' = <<>>
  /\ UNCHANGED <<boxVars, down, clientVars, ws, restarts>>
-----------------------------------------------------------------------------
(* The client *)

(* The memory of a new instance: setMemory, or without a file              *)
(* initializeMemory.                                                       *)
NewMemory(state) == IF state = Null THEN Initialized ELSE state

(* instantiateStreaming: it starts from the state file or from nothing.    *)
(* An older state file is the same as a client that takes long to connect. *)
Start ==
  /\ mem = Null
  /\ \E state \in {Null, trimBlocks(box)} : mem' = NewMemory(state)
  /\ UNCHANGED <<boxVars, wire, ws, queue, reading, closes, restarts>>

(* The reconnect timer; at first, the end of instantiateStreaming. *)
connect ==
  /\ mem # Null /\ ws = "null"
  /\ scenario.patient => reading = Null
  /\ ws' = "connecting"
  /\ conn' = Closed /\ up' = <<>> /\ down' = <<>>
  /\ UNCHANGED <<boxVars, clientVars, closes, restarts>>

onopen ==
  /\ ws = "connecting"
  /\ ws' = "open"
  /\ conn' = [Closed EXCEPT !.open = TRUE]
  /\ up' = <<ClientStatus(mem)>>
  /\ UNCHANGED <<boxVars, down, clientVars, closes, restarts>>

(* onclose, after onerror or by itself: what is in flight is lost. *)
onclose ==
  /\ ws # "null"
  /\ ws' = "null"
  /\ conn' = Closed /\ up' = <<>> /\ down' = <<>>
  /\ UNCHANGED <<boxVars, clientVars, restarts>>

ClientCloses ==
  /\ closes < scenario.closes
  /\ closes' = closes + 1
  /\ onclose

(* The client gets what the box had sent before it closed the connection. *)
ClientNotices ==
  /\ ws = "open" /\ ~conn.open /\ down = <<>>
  /\ onclose
  /\ UNCHANGED closes

(* Mutant: a setHead that undoes the head itself. *)
SetHeadBelow(m, head) == undoBlockNum(m, head)

SetHead(m, head) == undoBlockNum(m, head + 1)

SetClientIrreversible(m, num) == trimBlocks(setIrreversible(m, num))

(* processQueue takes one message.  It stops at a block, which it has to   *)
(* read first, and when sendStatus throws because the socket is still      *)
(* connecting; the messages behind stay in the queue.                      *)
Handle(s, msg) ==
  CASE s.stopped -> [s EXCEPT !.queue = Append(@, msg)]
    [] ~s.stopped /\ msg.type = "block" ->
         [s EXCEPT !.stopped = TRUE, !.reading = msg.block]
    [] ~s.stopped /\ msg.type = "setHead" ->
         [s EXCEPT !.mem = SetHead(@, msg.head)]
    [] ~s.stopped /\ msg.type = "setIrreversible" ->
         [s EXCEPT !.mem = SetClientIrreversible(@, msg.irreversible)]
    [] ~s.stopped /\ msg.type = "sendStatus" ->
         CASE ws = "null" -> s
           [] ws = "open" -> [s EXCEPT !.up = Append(@, ClientStatus(s.mem))]
           [] ws = "connecting" -> [s EXCEPT !.stopped = TRUE]

processQueue(m, messages) ==
  \E s \in {FoldValues(Handle, [mem |-> m, up |-> up, queue |-> <<>>,
                                reading |-> Null, stopped |-> FALSE], messages)} :
    /\ mem' = s.mem /\ queue' = s.queue /\ reading' = s.reading
    /\ up' = IF conn.open THEN s.up ELSE <<>>

(* Neither a string nor a Blob: a message that onmessage passes over. *)
Ignored(msg) == msg.type = "block" /\ ~BlobMessages

onmessage ==
  /\ ws = "open" /\ down # <<>>
  /\ down' = Tail(down)
  /\ IF Ignored(Head(down)) THEN UNCHANGED <<clientVars, up>>
     ELSE IF reading = Null THEN processQueue(mem, Append(queue, Head(down)))
     ELSE queue' = Append(queue, Head(down)) /\ UNCHANGED <<mem, reading, up>>
  /\ UNCHANGED <<boxVars, conn, ws, closes, restarts>>

(* The blob has been read; the result of pushBlock is ignored. *)
BlobRead ==
  /\ reading # Null
  /\ \E m \in {addBlock(mem, reading, 0)} : processQueue(m, queue)
  /\ UNCHANGED <<boxVars, conn, down, ws, closes, restarts>>
-----------------------------------------------------------------------------
Next ==
  \/ \E e \in EosioBlock, n \in UInt : pushBlock(e, n)
  \/ \E n \in UInt : undoneEosioNum(n)
  \/ BoxRestarts
  \/ BoxCloses
  \/ Start
  \/ connect
  \/ onopen
  \/ ClientCloses
  \/ ClientNotices
  \/ onmessage
  \/ BlobRead
  \/ BoxMessage

(* Timers fire, messages arrive, blobs are read and a broken connection is *)
(* noticed in the end (the states of the socket exclude each other); nothing*)
(* obliges the box to change or to stop, nor a connection to break.        *)
Fairness ==
  /\ WF_vars(Start \/ connect \/ onopen \/ ClientNotices)
  /\ WF_vars(onmessage) /\ WF_vars(BlobRead) /\ WF_vars(BoxMessage)

Spec == Init /\ [][Next]_vars /\ Fairness
-----------------------------------------------------------------------------
(* The client's memory once it has handled all that is under way to it. *)
Inbox == (IF reading = Null THEN <<>> ELSE <<[type |-> "block", block |-> reading]>>)
           \o queue \o down

Handled(m, msg) ==
  CASE msg.type = "block" -> addBlock(m, msg.block, 0)
    [] msg.type = "setHead" -> SetHead(m, msg.head)
    [] msg.type = "setIrreversible" -> SetClientIrreversible(m, msg.irreversible)
    [] msg.type = "sendStatus" -> m

Future == FoldValues(Handled, mem, Inbox)

(* The box never loses track of its client: whatever it has sent and the   *)
(* client has still to read, the client will end with exactly the head     *)
(* that the status of the connection says, although add_block's verdicts   *)
(* are never reported back.  Blobs of two connections must not mix, and    *)
(* the box must not have lost blocks the client holds for final.           *)
BoxKnowsClient ==
  scenario.patient /\ restarts = 0 /\ conn.status # Null =>
    /\ LastNum(Future.blocks) = LastNum(conn.status.blocks)
    /\ Future.blocks # <<>> => Last(Future.blocks).id = Last(conn.status.blocks).id

(* No order of messages makes a client's instance abort, not even when     *)
(* blobs of two connections mix.  And if they do not mix, it takes no      *)
(* block for final that a history provider did not declare final,          *)
(* whichever fork it was on when it heard of finality.                     *)
ClientStaysSound ==
  mem # Null =>
    /\ ~mem.trapped
    /\ scenario.patient /\ mem.irreversible > 0 =>
         /\ mem.irreversible <= Len(settled)
         /\ mem.blocks[BlockByNum(mem.blocks, mem.irreversible)] = settled[mem.irreversible]

(* The client has the box's head, and behind it the box's blocks. *)
HasBoxLog ==
  LET k == LastNum(box.blocks)
  IN  \A i \in 1..Len(mem.blocks) : mem.blocks[i].num <= k =>
        mem.blocks[i] = box.blocks[mem.blocks[i].num]

(* Once the box stops changing and connections stop breaking, the client   *)
(* comes to the box's head and stays there.  A box that restarted may stay *)
(* behind what its clients hold for final, since setHead cannot take them  *)
(* back so far: they still come to hold every block of the box.            *)
Converges ==
  <>[](scenario.patient =>
         /\ mem # Null /\ HasBoxLog
         /\ IF restarts = 0 THEN LastNum(mem.blocks) = LastNum(box.blocks)
            ELSE LastNum(mem.blocks) >= LastNum(box.blocks))
=============================================================================
