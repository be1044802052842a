---------------------------- MODULE ShipReceiver ----------------------------
(***************************************************************************)
(* ShipReceiver (ship-receiver.ts): one WebSocket to a state-history node, *)
(* opened again a second after it is lost.  The node greets with its ABI,  *)
(* is then asked for all blocks from the first one on, and sends them.     *)
(* The handlers know no socket: they share `wsClient` and `requestedBlocks`*)
(* whichever socket they belong to.                                        *)
(*                                                                         *)
(* Both "error" and "close" lead to disconnect, so that one lost socket    *)
(* sets two timers.  A connection that fails emits both events in one turn *)
(* (emitErrorAndClose); a socket that was open emits them one after the    *)
(* other.                                                                  *)
(***************************************************************************)
EXTENDS Integers, FiniteSets

CONSTANTS
  Socket,       \* the sockets opened over the life of the process
  Prompt,       \* no timer fires between the error and the close of a socket
  MaxLost       \* bound: connections that fail or break

VARIABLES
  wsClient,         \* a socket or "none"
  requestedBlocks,
  timers,           \* pending calls of connect
  state,            \* of each socket: "unused", "connecting", "open", "failed", "closed"
  greeted, asked,   \* the sockets that have sent their ABI, and got the request
  ended,            \* an exception that nobody catches ends the process
  lost

vars == <<wsClient, requestedBlocks, timers, state, greeted, asked, ended, lost>>

None == "none"

(* start connects. *)
Init ==
  /\ wsClient = None /\ requestedBlocks = FALSE
  /\ timers = 1
  /\ state = [s \in Socket |-> "unused"]
  /\ greeted = {} /\ asked = {}
  /\ ended = FALSE /\ lost = 0

Live == {s \in Socket : state[s] \in {"connecting", "open"}}

(* Mutant: a connection that is there already is overlooked. *)
connectAgain ==
  /\ ~ended /\ timers > 0 /\ timers' = timers - 1
  /\ \E s \in Socket : /\ state[s] = "unused"
                       /\ wsClient' = s /\ state' = [state EXCEPT ![s] = "connecting"]
  /\ UNCHANGED <<requestedBlocks, greeted, asked, ended, lost>>

connect ==
  /\ ~ended /\ timers > 0
  /\ Prompt => \A s \in Socket : state[s] # "failed"
  /\ timers' = timers - 1
  /\ IF wsClient # None THEN UNCHANGED <<wsClient, state>>
     ELSE \E s \in Socket :
            /\ state[s] = "unused"
            /\ wsClient' = s /\ state' = [state EXCEPT ![s] = "connecting"]
  /\ UNCHANGED <<requestedBlocks, greeted, asked, ended, lost>>

(* Mutant: the next connection does not ask for blocks again. *)
disconnectOnly(times) ==
  /\ wsClient' = None /\ UNCHANGED requestedBlocks
  /\ timers' = timers + times

disconnect(times) ==
  /\ wsClient' = None
  /\ requestedBlocks' = IF wsClient = None THEN requestedBlocks ELSE FALSE
  /\ timers' = timers + times

open(s) ==
  /\ ~ended /\ state[s] = "connecting"
  /\ state' = [state EXCEPT ![s] = "open"]
  /\ UNCHANGED <<wsClient, requestedBlocks, timers, greeted, asked, ended, lost>>

Lost(s, how) ==
  /\ ~ended /\ lost < MaxLost /\ lost' = lost + 1
  /\ state' = [state EXCEPT ![s] = how]
  /\ UNCHANGED <<greeted, asked, ended>>

ConnectFails(s) == state[s] = "connecting" /\ Lost(s, "closed") /\ disconnect(2)

error(s) == state[s] = "open" /\ Lost(s, "failed") /\ disconnect(1)

close(s) == state[s] = "open" /\ Lost(s, "closed") /\ disconnect(1)

closeAfterError(s) ==
  /\ ~ended /\ state[s] = "failed"
  /\ state' = [state EXCEPT ![s] = "closed"]
  /\ disconnect(1)
  /\ UNCHANGED <<greeted, asked, ended, lost>>

(* send throws unless the socket it is called on is there and open; the    *)
(* wasm aborts on a message that is not a SHiP result.                     *)
Request ==
  /\ requestedBlocks' = TRUE
  /\ IF wsClient # None /\ state[wsClient] = "open"
     THEN asked' = asked \cup {wsClient} /\ UNCHANGED ended
     ELSE ended' = TRUE /\ UNCHANGED asked

Push(isBlock) == ended' = ~isBlock /\ UNCHANGED <<requestedBlocks, asked>>

(* onMessage of socket s: its ABI, then blocks once it has been asked. *)
onMessage(s) ==
  /\ ~ended /\ state[s] = "open"
  /\ s \in greeted => s \in asked
  /\ greeted' = greeted \cup {s}
  /\ IF requestedBlocks THEN Push(s \in greeted) ELSE Request
  /\ UNCHANGED <<wsClient, timers, state, lost>>

Next ==
  \/ connect
  \/ \E s \in Socket :
       \/ open(s)
       \/ ConnectFails(s)
       \/ error(s)
       \/ close(s)
       \/ closeAfterError(s)
       \/ onMessage(s)

(* Timers fire, a node that can be reached accepts and greets. *)
Fairness ==
  /\ WF_vars(connect)
  /\ \A s \in Socket : WF_vars(open(s)) /\ WF_vars(closeAfterError(s)) /\ WF_vars(onMessage(s))

Spec == Init /\ [][Next]_vars /\ Fairness
-----------------------------------------------------------------------------
(* The two timers of a lost socket never lead to two connections, and the  *)
(* late close of one never forgets another.                                *)
OneConnection == Live \subseteq {wsClient}

(* Every connection is asked for blocks when it sends its ABI, and         *)
(* no ABI is taken for blocks: the process survives every loss.            *)
AskedWhenGreeted == ~ended /\ \A s \in Live : s \in greeted <=> s \in asked

(* In the end there is a connection that delivers blocks. *)
Connects == <>[](wsClient # None /\ wsClient \in asked /\ state[wsClient] = "open")
=============================================================================
