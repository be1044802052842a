----------------------------- MODULE ClientLife -----------------------------
(***************************************************************************)
(* The life of a SubchainClient in a page: useCreateChain makes it when    *)
(* the top component appears and shuts it down when that disappears, be it *)
(* in the middle of instantiateStreaming, of a connection attempt or while *)
(* a timer waits.  Every socket has handlers that act on `ws`, whichever   *)
(* socket that is by then.                                                 *)
(***************************************************************************)
EXTENDS Integers

CONSTANTS
  Socket,     \* the sockets of a client's life
  None,
  MaxLost     \* bound: sockets that fail

VARIABLES
  awaiting,       \* instantiateStreaming has not come to its end
  shuttingDown,
  provided,       \* setSubchain was called with the client
  ws,             \* the client's socket, or None
  timers,         \* pending calls of connect
  state,          \* of each socket: "unused", "connecting", "open", "failed", "closing", "closed"
  lost

vars == <<awaiting, shuttingDown, provided, ws, timers, state, lost>>

Init ==
  /\ awaiting = TRUE /\ shuttingDown = FALSE /\ provided = FALSE
  /\ ws = None /\ timers = 0
  /\ state = [s \in Socket |-> "unused"]
  /\ lost = 0

Live == {s \in Socket : state[s] \in {"connecting", "open"}}

(* On a socket that fails already, close has no effect. *)
shutdown ==
  /\ shuttingDown' = TRUE
  /\ state' = [s \in Socket |-> IF s = ws /\ s \in Live THEN "closing" ELSE state[s]]
  /\ ws' = None

(* Mutant: connect trusts that nobody calls it after shutdown. *)
connectAnyway ==
  /\ UNCHANGED shuttingDown
  /\ \E s \in Socket : /\ state[s] = "unused"
                       /\ ws' = s /\ state' = [state EXCEPT ![s] = "connecting"]

connect ==
  IF shuttingDown THEN shutdown
  ELSE /\ \E s \in Socket : /\ state[s] = "unused"
                            /\ ws' = s /\ state' = [state EXCEPT ![s] = "connecting"]
       /\ UNCHANGED shuttingDown

(* The end of instantiateStreaming; useCreateChain then provides the       *)
(* client, a shut down one too.                                            *)
Instantiated ==
  /\ awaiting /\ awaiting' = FALSE
  /\ connect
  /\ provided' = TRUE
  /\ UNCHANGED <<timers, lost>>

(* A fetch fails; nobody tries again. *)
InstantiateFails ==
  /\ awaiting /\ awaiting' = FALSE
  /\ UNCHANGED <<shuttingDown, provided, ws, timers, state, lost>>

Timeout ==
  /\ timers > 0 /\ timers' = timers - 1
  /\ connect
  /\ UNCHANGED <<awaiting, provided, lost>>

(* The component disappears. *)
Unmount ==
  /\ ~shuttingDown
  /\ shutdown
  /\ UNCHANGED <<awaiting, provided, timers, lost>>

Opens(s) ==
  /\ state[s] = "connecting"
  /\ state' = [state EXCEPT ![s] = "open"]
  /\ UNCHANGED <<awaiting, shuttingDown, provided, ws, timers, lost>>

onerror(s) ==
  /\ s \in Live /\ lost < MaxLost /\ lost' = lost + 1
  /\ state' = [state EXCEPT ![s] = "failed"]
  /\ ws' = None
  /\ UNCHANGED <<awaiting, shuttingDown, provided, timers>>

(* Mutant: an error is the end of it. *)
onclosedForGood(s) == UNCHANGED timers

reconnect(s) == timers' = IF shuttingDown THEN timers ELSE timers + 1

(* After an error or a close of the client's, or because the server closed.*)
onclose(s) ==
  /\ \/ state[s] \in {"failed", "closing"} /\ UNCHANGED lost
     \/ state[s] = "open" /\ lost < MaxLost /\ lost' = lost + 1
  /\ state' = [state EXCEPT ![s] = "closed"]
  /\ ws' = None
  /\ reconnect(s)
  /\ UNCHANGED <<awaiting, shuttingDown, provided>>

Next ==
  \/ Instantiated
  \/ InstantiateFails
  \/ Timeout
  \/ Unmount
  \/ \E s \in Socket : Opens(s) \/ onerror(s) \/ onclose(s)

(* Promises settle, timers fire and sockets get on. *)
Fairness ==
  /\ WF_vars(Instantiated \/ InstantiateFails) /\ WF_vars(Timeout)
  /\ \A s \in Socket : /\ WF_vars(Opens(s))
                       /\ WF_vars(state[s] \in {"failed", "closing"} /\ onclose(s))

Spec == Init /\ [][Next]_vars /\ Fairness
-----------------------------------------------------------------------------
(* There is one connection at most, and never a second timer: errors set   *)
(* none, and the close that follows an error sets one.                     *)
OneConnection ==
  /\ Live \subseteq {ws}
  /\ timers + (IF Live # {} THEN 1 ELSE 0) <= 1

(* Nothing brings a client back that was shut down, whatever it was doing. *)
StaysDown == shuttingDown => Live = {} /\ ws = None

(* In the end a client that was instantiated is connected, or shut down    *)
(* for good with no timer left.                                            *)
SettlesDown ==
  <>[](IF shuttingDown THEN timers = 0 /\ \A s \in Socket : state[s] \in {"unused", "closed"}
       ELSE ~provided \/ \E s \in Socket : s = ws /\ state[s] = "open")
=============================================================================
