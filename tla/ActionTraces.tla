---------------------------- MODULE ActionTraces ----------------------------
(***************************************************************************)
(* How the actions of a contract come to the micro-chain: as the traces of *)
(* a state-history node, which pushShipMessage converts, or as dfuse tells *)
(* of them, which write_history of a test imitates and DfuseReceiver puts  *)
(* together; and what filter_block then takes for events of the contract.  *)
(*                                                                         *)
(* Actions of a trace have ordinals in the order they were asked for, and  *)
(* sequence numbers in the order they ran.  An optional value is a         *)
(* sequence of at most one.  Traces of what failed are left out: those     *)
(* have no receipts, and the code expects one.                             *)
(***************************************************************************)
EXTENDS Integers, SequencesExt

NoId == 0

(*---------------------------- nodeos (external) ---------------------------*)

(* An action, the inline actions of the contract that ran it, and whom that *)
(* contract told of it, each of which may have sent inline actions too.     *)
Root(act, inline, notified) == [act |-> act, inline |-> inline, notified |-> notified]

Asked(creator, receiver, act) == [creator |-> creator, receiver |-> receiver, act |-> act]
Inline(creator, acts) == [k \in DOMAIN acts |-> Asked(creator, acts[k].account, acts[k])]

Ran(t, i) ==
  LET root == t.roots[i]
      notes == root.notified
      next == [j \in DOMAIN notes |-> Asked(i, notes[j].receiver, root.act)]
                \o Inline(i, root.inline)
                \o FlattenSeq([j \in DOMAIN notes |-> Inline(Len(t.asked) + j, notes[j].inline)])
  IN  [t EXCEPT !.asked = @ \o next,
                !.order = @ \o <<i>> \o [k \in DOMAIN next |-> Len(t.asked) + k]]

transaction_trace(id, roots) ==
  LET all == FoldLeft(Ran, [roots |-> roots, order |-> <<>>,
                            asked |-> [i \in DOMAIN roots |-> Asked(0, roots[i].act.account, roots[i].act)]],
                      [i \in DOMAIN roots |-> i])
  IN  [id |-> id,
       action_traces |->
         [i \in DOMAIN all.asked |->
            [creator_action_ordinal |-> all.asked[i].creator, receiver |-> all.asked[i].receiver,
             act |-> all.asked[i].act, global_sequence |-> SelectInSeq(all.order, LAMBDA o : o = i)]]]

(* What the node sends, or the tester keeps, of a block: the first has none *)
(* before it.                                                               *)
get_blocks_result(block, final) ==
  [last_irreversible |-> final,
   this_block |-> [num |-> block.num, id |-> block.id],
   prev_block |-> IF block.num = 1 THEN <<>> ELSE <<[num |-> block.num - 1, id |-> block.previous]>>,
   block |-> <<[timestamp |-> block.timestamp, previous |-> block.previous]>>,
   traces |-> <<block.traces>>]

(*----------------------------- through SHiP -------------------------------*)

ShipCreator(traces, trace) ==
  IF trace.creator_action_ordinal = 0 THEN <<>>
  ELSE LET creator == traces[trace.creator_action_ordinal]
       IN  <<[seq |-> creator.global_sequence, receiver |-> creator.receiver]>>

ShipAction(traces, trace) ==
  [seq |-> trace.global_sequence, firstReceiver |-> trace.act.account,
   receiver |-> trace.receiver, name |-> trace.act.name,
   creatorAction |-> ShipCreator(traces, trace), hexData |-> trace.act.data]

ship_to_transactions(traces) ==
  [i \in DOMAIN traces |->
     [id |-> traces[i].id,
      actions |-> [k \in DOMAIN traces[i].action_traces |->
                     ShipAction(traces[i].action_traces, traces[i].action_traces[k])]]]

(* The block that is added, and the number that is final with it. *)
pushShipMessage(result) ==
  [num |-> result.this_block.num, id |-> result.this_block.id,
   previous |-> IF result.prev_block = <<>> THEN NoId ELSE result.prev_block[1].id,
   timestamp |-> IF result.block = <<>> THEN 0 ELSE result.block[1].timestamp,
   transactions |-> IF result.traces = <<>> THEN <<>> ELSE ship_to_transactions(result.traces[1]),
   final |-> result.last_irreversible]

(*----------------------------- through dfuse ------------------------------*)

MatchingAction(traces, trace) ==
  [seq |-> trace.global_sequence, receiver |-> trace.receiver,
   account |-> trace.act.account, name |-> trace.act.name, hexData |-> trace.act.data,
   creatorAction |->
     IF trace.creator_action_ordinal = 0 THEN <<>>
     ELSE LET creator == traces[trace.creator_action_ordinal]
          IN  <<[seq |-> creator.global_sequence, receiver |-> creator.receiver]>>]

add_transactions(result) ==
  LET block == [num |-> result.this_block.num, id |-> result.this_block.id,
                timestamp |-> result.block[1].timestamp, previous |-> result.block[1].previous]
      traces == result.traces[1]
      Transaction(id, actions, final) ==
        [block |-> block, irreversibleBlockNum |-> final,
         trace |-> [id |-> id, matchingActions |-> actions]]
  IN  IF traces = <<>> THEN <<Transaction(NoId, <<>>, 0)>>
      ELSE [i \in DOMAIN traces |->
              Transaction(traces[i].id,
                          [k \in DOMAIN traces[i].action_traces |->
                             MatchingAction(traces[i].action_traces, traces[i].action_traces[k])],
                          result.last_irreversible)]

(* The transactions of one block, when those of another one arrive. *)
pushTrx(unpushedTransactions) ==
  LET prev == Last(unpushedTransactions)
      Action(a) == [seq |-> a.seq, firstReceiver |-> a.account, receiver |-> a.receiver,
                    name |-> a.name, creatorAction |-> a.creatorAction, hexData |-> a.hexData]
      Actions(t) == [k \in DOMAIN t.trace.matchingActions |-> Action(t.trace.matchingActions[k])]
  IN  [num |-> prev.block.num, id |-> prev.block.id, previous |-> prev.block.previous,
       timestamp |-> prev.block.timestamp,
       transactions |-> [i \in DOMAIN unpushedTransactions |->
                           [id |-> unpushedTransactions[i].trace.id,
                            actions |-> Actions(unpushedTransactions[i])]],
       final |-> prev.irreversibleBlockNum]

(*------------------------------ the filter --------------------------------*)

starter_account == "self"

HasEvents(action) ==
  /\ action.firstReceiver = "eosio.null" /\ action.name = "chain.events"
  /\ action.creatorAction # <<>> /\ action.creatorAction[1].receiver = starter_account

(* A sequence announces its length, and is read no further. *)
Decoded(data) == SubSeq(data.events, 1, data.count)

(* The events that filter_block hands to handle_event. *)
Heard(block) ==
  LET actions == FlattenSeq([i \in DOMAIN block.transactions |-> block.transactions[i].actions])
      of == SelectSeq(actions, HasEvents)
  IN  FlattenSeq([i \in DOMAIN of |-> Decoded(of[i].hexData)])
=============================================================================
