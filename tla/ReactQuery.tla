----------------------------- MODULE ReactQuery -----------------------------
(***************************************************************************)
(* useQuery (ReactSubchain.tsx) against processQueue (SubchainClient.ts):  *)
(* a hook queries the client's data while it renders, and subscribes to    *)
(* the next notification in an effect, which React runs some time after.   *)
(*                                                                         *)
(* React 17 is not part of this repository.  What the code relies on: a    *)
(* state change outside of React's own handlers renders at once; effects   *)
(* and their clean-ups run in a task of their own, or right before the     *)
(* next render, whichever comes first.                                     *)
(***************************************************************************)
EXTENDS Integers, SequencesExt

CONSTANTS
  Hook,         \* the components that call useQuery
  Query,
  Null,
  Hastiness,    \* may messages arrive between a render and its effects
  MaxVersion,   \* bound: messages that change the data
  MaxRenders    \* bound: queries that components change

ASSUME NullAssumption == Null \notin Query
ASSUME HastinessAssumption == Hastiness \subseteq BOOLEAN

VARIABLES
  client,          \* has ChainContext a client yet
  version,         \* how many messages the data reflects; Trapped if it aborted
  processingQueue, \* processQueue awaits its next message
  notifications,   \* whose callbacks the client holds
  tree,            \* the hooks in React's tree
  effects,         \* those that have rendered since their effects ran
  hook,            \* what each hook keeps
  unmounted, renders,
  hasty            \* one of Hastiness

vars == <<client, version, processingQueue, notifications, tree, effects, hook,
          unmounted, renders, hasty>>

Trapped == 0 - 1
Loading == [query |-> Null, version |-> 0]

Fresh == [mounted |-> TRUE, cachedClient |-> FALSE, subscribed |-> FALSE,
          query |-> Null, cachedQuery |-> Null, shown |-> Loading]

Init ==
  /\ hasty \in Hastiness
  /\ client = FALSE /\ version = 0 /\ processingQueue = FALSE
  /\ notifications = <<>>
  /\ tree = {} /\ effects = {} /\ hook = [h \in Hook |-> Fresh]
  /\ unmounted = {} /\ renders = 0

(* What React and the client work on. *)
State == [hook |-> hook, effects |-> effects, notifications |-> notifications]
Becomes(s) ==
  /\ hook' = s.hook /\ effects' = s.effects /\ notifications' = s.notifications
-----------------------------------------------------------------------------
(* Mutant: an effect that does not see its earlier subscription. *)
RunEffectAgain(s, h) ==
  [s EXCEPT !.hook[h].subscribed = client,
            !.notifications = IF client THEN Append(@, h) ELSE @]

RunEffect(s, h) ==
  LET subscribes == client /\ ~s.hook[h].subscribed IN
  [s EXCEPT !.hook[h].subscribed = @ \/ subscribes,
            !.notifications = IF subscribes THEN Append(@, h) ELSE @]

CleanUp(s) ==
  [s EXCEPT !.hook = [h \in Hook |-> [s.hook[h] EXCEPT !.mounted = @ /\ h \notin unmounted]]]

(* React runs the effects of all hooks. *)
Flushed(s) ==
  [FoldLeft(RunEffect, CleanUp(s), SetToSeq(s.effects)) EXCEPT !.effects = {}]

Answer(q, hasClient, v) == IF hasClient THEN [query |-> q, version |-> v] ELSE Loading

IsCached(k, hasClient) == k.cachedClient = hasClient /\ k.query = k.cachedQuery

(* The body of useQuery. *)
Render(s, h, hasClient, v) ==
  [s EXCEPT
    !.hook[h] = IF IsCached(@, hasClient) THEN @
                ELSE [@ EXCEPT !.cachedClient = hasClient, !.cachedQuery = s.hook[h].query,
                               !.shown = Answer(s.hook[h].query, hasClient, v)],
    !.effects = @ \cup {h}]

(* A component appears with some query, or gets another one. *)
Mount(h, q) ==
  /\ h \notin tree \cup unmounted
  /\ tree' = tree \cup {h}
  /\ Becomes(Render([Flushed(State) EXCEPT !.hook[h].query = q], h, client, version))
  /\ UNCHANGED <<client, version, processingQueue, unmounted, renders, hasty>>

ChangeQuery(h, q) ==
  /\ h \in tree /\ q # hook[h].query
  /\ renders < MaxRenders /\ renders' = renders + 1
  /\ Becomes(Render([Flushed(State) EXCEPT !.hook[h].query = q], h, client, version))
  /\ UNCHANGED <<client, version, processingQueue, tree, unmounted, hasty>>

Unmount(h) ==
  /\ h \in tree
  /\ tree' = tree \ {h} /\ unmounted' = unmounted \cup {h}
  /\ Becomes(Flushed(State))
  /\ UNCHANGED <<client, version, processingQueue, renders, hasty>>

(* useCreateChain: the provider and all below it render with the client. *)
ClientReady ==
  /\ ~client /\ client' = TRUE
  /\ Becomes(FoldLeft(LAMBDA s, h : Render(s, h, TRUE, version), Flushed(State),
                      SetToSeq(tree)))
  /\ UNCHANGED <<version, processingQueue, tree, unmounted, renders, hasty>>

(* The task in which React runs effects. *)
Effects ==
  /\ State # Flushed(State)
  /\ Becomes(Flushed(State))
  /\ UNCHANGED <<client, version, processingQueue, tree, unmounted, renders, hasty>>
-----------------------------------------------------------------------------
(* setCachedQuery(null), which renders at once what is in the tree. *)
SetCachedQuery(s, h, v) ==
  IF h \in tree THEN Render([Flushed(s) EXCEPT !.hook[h].cachedQuery = Null], h, TRUE, v)
  ELSE s

(* Mutant: the callback forgets that it is used up. *)
NotifyKeeping(s, h, v) ==
  IF s.hook[h].mounted /\ s.hook[h].subscribed THEN SetCachedQuery(s, h, v) ELSE s

(* The callback that the effect has left in the client. *)
Notify(s, h, v) ==
  IF s.hook[h].mounted /\ s.hook[h].subscribed
  THEN [SetCachedQuery(s, h, v) EXCEPT !.hook[h].subscribed = FALSE] ELSE s

Notified(v) ==
  FoldLeft(LAMBDA s, h : Notify(s, h, v), [State EXCEPT !.notifications = <<>>],
           notifications)

MayArrive == client /\ (~hasty => effects = {})

(* A message is handled, and another one has to be awaited. *)
HandleAndWait ==
  /\ MayArrive /\ version # Trapped /\ version + 1 < MaxVersion
  /\ version' = version + 1
  /\ processingQueue' = TRUE
  /\ UNCHANGED <<client, notifications, tree, effects, hook, unmounted, renders, hasty>>

(* The last one is handled, or one aborts the wasm: all are notified. *)
HandleLast ==
  /\ MayArrive /\ version # Trapped /\ version < MaxVersion
  /\ version' \in {version + 1, Trapped}
  /\ processingQueue' = FALSE
  /\ Becomes(Notified(version'))
  /\ UNCHANGED <<client, tree, unmounted, renders, hasty>>

Next ==
  \/ \E h \in Hook, q \in Query : Mount(h, q) \/ ChangeQuery(h, q)
  \/ \E h \in Hook : Unmount(h)
  \/ ClientReady
  \/ Effects
  \/ HandleAndWait
  \/ HandleLast

Spec == Init /\ [][Next]_vars
-----------------------------------------------------------------------------
Result(h) == Answer(hook[h].query, client, version)

(* A hook never has two callbacks in the client, nor waits for one that is *)
(* not there: across renders, notifications in the middle of which other   *)
(* hooks run their effects, and unmounting; and once its effects have run, *)
(* it hears of the next message (useQuery).                                *)
HearsOnce ==
  /\ \A i, j \in DOMAIN notifications :
       notifications[i] = notifications[j] /\ notifications[i] \notin unmounted => i = j
  /\ \A h \in Hook \ unmounted : hook[h].subscribed <=> h \in ToSet(notifications)
  /\ \A h \in tree \ effects : client => h \in ToSet(notifications)

(* If effects run before the next message arrives, then nothing on the     *)
(* screen is older than the last notification, abort included.             *)
AllShown == \A h \in tree : hook[h].shown = Result(h)
UpToDate == ~hasty /\ ~processingQueue => AllShown
=============================================================================
