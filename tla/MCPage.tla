------------------------------- MODULE MCPage -------------------------------
(* What a page runs: two hooks over the data of a client, or the life of   *)
(* the client itself, with enough sockets for every loss.                  *)
EXTENDS ReactQuery

CONSTANTS Socket, None, MaxLost

VARIABLES
  part,    \* "hooks" or "client"
  awaiting, shuttingDown, provided, ws, timers, state, lost

Client == INSTANCE ClientLife

clientVars == <<awaiting, shuttingDown, provided, ws, timers, state, lost>>
mcVars == <<vars, part, clientVars>>

ASSUME EnoughSockets == Cardinality(Socket) > MaxLost

MCHook == {"greetings", "members"}
MCQuery == {"page1", "page2"}

InHooks(action) == part = "hooks" /\ action
InClient(action) == part = "client" /\ action

MCInit == part \in {"hooks", "client"} /\ Init /\ Client!Init

MCNext ==
  /\ UNCHANGED part
  /\ \/ InHooks(Next) /\ UNCHANGED clientVars
     \/ InClient(Client!Next) /\ UNCHANGED vars

MCSpec ==
  /\ MCInit /\ [][MCNext]_mcVars
  /\ WF_clientVars(InClient(Client!Instantiated \/ Client!InstantiateFails))
  /\ WF_clientVars(InClient(Client!Timeout))
  /\ \A s \in Socket :
       /\ WF_clientVars(InClient(Client!Opens(s)))
       /\ WF_clientVars(InClient(state[s] \in {"failed", "closing"} /\ Client!onclose(s)))
-----------------------------------------------------------------------------
(* Nothing brings a client back that was shut down.                        *)
StaysDown == Client!StaysDown

(* A client ends connected, or shut down with nothing left.                *)
SettlesDown == part = "client" => Client!SettlesDown
=============================================================================
