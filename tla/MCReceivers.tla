---------------------------- MODULE MCReceivers ----------------------------
(* The history receiver of the box is the one its configuration names: the *)
(* dfuse receiver over three heights, two of which have competing blocks,  *)
(* some of two transactions and one with an action that does not decode,   *)
(* or the SHiP receiver with enough sockets for every loss.                *)
EXTENDS DfuseReceiver

CONSTANTS Socket, Prompt, MaxLost

VARIABLES
  historyReceiver,
  wsClient, requestedBlocks, timers, state, greeted, asked, ended, lost

Ship == INSTANCE ShipReceiver

shipVars == <<wsClient, requestedBlocks, timers, state, greeted, asked, ended, lost>>
mcVars == <<vars, historyReceiver, shipVars>>

ASSUME EnoughSockets == Cardinality(Socket) > MaxLost

ASSUME NoneIsNoSocket == Ship!None \notin Socket

Of(num, fork, actions) == [num |-> num, fork |-> fork, actions |-> actions]

MCEosioBlock == {Of(1, 1, <<"a", "b">>), Of(1, 2, <<"b">>),
                 Of(2, 1, <<"a", "b">>), Of(2, 2, <<"b">>),
                 Of(3, 1, <<"a", "undecodable">>)}

UsesDfuse(action) == historyReceiver = "dfuse" /\ action
UsesShip(action) == historyReceiver = "ship" /\ action

MCInit == historyReceiver \in {"dfuse", "ship"} /\ Init /\ Ship!Init

MCNext ==
  /\ UNCHANGED historyReceiver
  /\ \/ UsesDfuse(Next) /\ UNCHANGED shipVars
     \/ UsesShip(Ship!Next) /\ UNCHANGED vars

MCSpec ==
  /\ MCInit /\ [][MCNext]_mcVars
  /\ WF_vars(UsesDfuse(start)) /\ WF_vars(UsesDfuse(connect))
  /\ WF_vars(UsesDfuse(DeliverRest)) /\ WF_vars(UsesDfuse(DeliverMarker))
  /\ WF_shipVars(UsesShip(Ship!connect))
  /\ \A s \in Socket : /\ WF_shipVars(UsesShip(Ship!open(s)))
                       /\ WF_shipVars(UsesShip(Ship!closeAfterError(s)))
                       /\ WF_shipVars(UsesShip(Ship!onMessage(s)))
-----------------------------------------------------------------------------
(* The properties of the one receiver say nothing about the other.         *)

(* One SHiP connection at a time, whatever timers and late events do.      *)
OneConnection == Ship!OneConnection

(* Every SHiP connection is asked for blocks exactly when it greets.       *)
AskedWhenGreeted == Ship!AskedWhenGreeted

(* In the end the box of a dfuse receiver has all delivered blocks, and a  *)
(* SHiP receiver has a connection that delivers.                           *)
DeliversInTheEnd ==
  /\ historyReceiver = "dfuse" => EventuallyFlushed
  /\ historyReceiver = "ship" => Ship!Connects
=============================================================================
