----------------------------- MODULE PageProofs -----------------------------
EXTENDS MCPage, FoldLemmas, FiniteSetTheorems
(***************************************************************************)
(* Proofs about what a page runs, for every set of sockets, hooks and      *)
(* queries, every number of losses, renders and messages.                  *)
(***************************************************************************)
-----------------------------------------------------------------------------
(* The life of a client                                                    *)

(* A socket that has not come to its end, or a timer, will call connect.   *)
Active == {s \in Socket : state[s] \in {"connecting", "open", "failed", "closing"}}

LifeType ==
  /\ awaiting \in BOOLEAN /\ shuttingDown \in BOOLEAN
  /\ timers \in Nat
  /\ state \in [Socket -> {"unused", "connecting", "open", "failed", "closing", "closed"}]

(* There is never more than one of them, so a connect finds the last       *)
(* connection at its end, and a shutdown finds the one that there is.      *)
OneAtATime ==
  /\ timers <= 1
  /\ \A s, t \in Active : s = t
  /\ Active # {} => timers = 0
  /\ awaiting = TRUE => timers = 0 /\ Active = {}

ItsSocket == Client!Live \subseteq {ws}

LifeInv == LifeType /\ OneAtATime /\ ItsSocket /\ Client!StaysDown

LEMMA LifeInitCorrect == Client!Init => LifeInv
<1> SUFFICES ASSUME Client!Init PROVE LifeInv
  OBVIOUS
<1>1. \A s \in Socket : state[s] = "unused"
  BY DEF Client!Init
<1>2. Active = {} /\ Client!Live = {}
  BY <1>1 DEF Active, Client!Live
<1>3. LifeType
  BY DEF Client!Init, LifeType
<1> QED
  BY <1>2, <1>3
  DEF Client!Init, LifeInv, LifeType, OneAtATime, ItsSocket, Client!StaysDown

LEMMA ConnectStep ==
  ASSUME LifeInv, Client!connect, Active = {},
         awaiting' = FALSE, timers' = 0
  PROVE  LifeInv'
<1> USE DEF LifeInv, LifeType
<1>1. \A s \in Socket : state[s] \in {"unused", "closed"}
  BY DEF Active
<1>2. Client!Live = {}
  BY <1>1 DEF Client!Live
<1>3. CASE shuttingDown = TRUE
  <2>1. /\ shuttingDown' = TRUE /\ ws' = None
        /\ state' = [s \in Socket |-> state[s]]
    BY <1>2, <1>3 DEF Client!connect, Client!shutdown
  <2>2. state' = state
    BY <2>1
  <2>3. Active' = {} /\ Client!Live' = {}
    BY <1>2, <2>2 DEF Active, Client!Live
  <2>4. LifeType'
    BY <2>1, <2>2
  <2>5. OneAtATime'
    BY <2>3 DEF OneAtATime
  <2> QED
    BY <2>1, <2>3, <2>4, <2>5 DEF ItsSocket, Client!StaysDown
<1>4. CASE shuttingDown = FALSE
  <2>1. PICK s \in Socket : /\ state[s] = "unused"
                            /\ ws' = s /\ state' = [state EXCEPT ![s] = "connecting"]
    BY <1>4 DEF Client!connect
  <2>2. shuttingDown' = FALSE
    BY <1>4 DEF Client!connect
  <2>3. \A t \in Socket : state'[t] = IF t = s THEN "connecting" ELSE state[t]
    BY <2>1
  <2>4. Active' = {s}
    BY <1>1, <2>3 DEF Active
  <2>5. Client!Live' = {s}
    BY <1>1, <2>3 DEF Client!Live
  <2>6. LifeType'
    BY <2>1, <2>2
  <2>7. OneAtATime'
    BY <2>4 DEF OneAtATime
  <2> QED
    BY <2>1, <2>2, <2>5, <2>6, <2>7 DEF ItsSocket, Client!StaysDown
<1> QED
  BY <1>3, <1>4

LEMMA LifeStep ==
  ASSUME LifeInv, [Client!Next]_clientVars
  PROVE  LifeInv'
<1> USE DEF LifeInv, LifeType, OneAtATime, ItsSocket, Client!Live, Client!StaysDown, Active
<1>1. CASE Client!Instantiated
  BY <1>1, ConnectStep DEF Client!Instantiated
<1>2. CASE Client!InstantiateFails
  BY <1>2 DEF Client!InstantiateFails
<1>3. CASE Client!Timeout
  <2>1. timers = 1 /\ timers' = 0 /\ Active = {} /\ awaiting' = FALSE /\ Client!connect
    BY <1>3 DEF Client!Timeout
  <2> QED
    BY <2>1, ConnectStep
<1>4. CASE Client!Unmount
  BY <1>4 DEF Client!Unmount, Client!shutdown
<1>5. ASSUME NEW s \in Socket, Client!Opens(s) PROVE LifeInv'
  BY <1>5 DEF Client!Opens
<1>6. ASSUME NEW s \in Socket, Client!onerror(s) PROVE LifeInv'
  BY <1>6 DEF Client!onerror
<1>7. ASSUME NEW s \in Socket, Client!onclose(s) PROVE LifeInv'
  BY <1>7 DEF Client!onclose, Client!reconnect
<1>8. CASE UNCHANGED clientVars
  BY <1>8 DEF clientVars
<1> QED
  BY <1>1, <1>2, <1>3, <1>4, <1>5, <1>6, <1>7, <1>8 DEF Client!Next

(* What the page runs keeps the client's invariant: its steps are those of *)
(* the client, or of the hooks.                                            *)
LEMMA LifeKept == MCSpec => []LifeInv
<1>1. MCInit => LifeInv
  BY LifeInitCorrect DEF MCInit
<1>2. LifeInv /\ [MCNext]_mcVars => LifeInv'
  <2> SUFFICES ASSUME LifeInv, [MCNext]_mcVars PROVE LifeInv'
    OBVIOUS
  <2>1. [Client!Next]_clientVars
    BY DEF MCNext, InHooks, InClient, mcVars
  <2> QED
    BY <2>1, LifeStep
<1> QED
  BY <1>1, <1>2, PTL DEF MCSpec

(* Whatever a client is doing when it is shut down (fetching its wasm,     *)
(* connecting, waiting for a timer), it has no connection afterwards.      *)
THEOREM ShutdownIsFinal == MCSpec => []StaysDown
<1>1. LifeInv => StaysDown
  BY DEF LifeInv, StaysDown
<1> QED
  BY <1>1, LifeKept, PTL

-----------------------------------------------------------------------------
(* The hooks                                                               *)

HookRecord ==
  [mounted : BOOLEAN, cachedClient : BOOLEAN, subscribed : BOOLEAN,
   query : Query \cup {Null}, cachedQuery : Query \cup {Null},
   shown : [query : Query \cup {Null}, version : Int]]

States == [hook : [Hook -> HookRecord], effects : SUBSET Hook, notifications : Seq(Hook)]

(* What holds while callbacks are called, of which some are still due: a   *)
(* hook of the page has one callback, in the client or among those that    *)
(* are due, exactly if it is subscribed; and it is, or its effects have    *)
(* still to run.                                                           *)
Held(s) == ToSet(s.notifications)

Subscriptions(s, due) ==
  /\ \A i, j \in 1..Len(s.notifications) :
       /\ s.notifications[i] = s.notifications[j]
       /\ s.notifications[i] \notin unmounted
       => i = j
  /\ \A h \in Hook \ unmounted :
       /\ s.hook[h].mounted = TRUE
       /\ s.hook[h].subscribed = TRUE <=> h \in Held(s) \cup due
       /\ h \notin Held(s) \cap due
       /\ s.hook[h].subscribed = TRUE => h \in tree /\ client = TRUE
  /\ s.effects \subseteq tree
  /\ \A h \in tree \ s.effects : client = TRUE => s.hook[h].subscribed = TRUE

(* What a hook shows was asked for with its query and the client; one that *)
(* has not appeared has asked for nothing.                                 *)
Cached(s) ==
  /\ \A h \in tree : /\ s.hook[h].query \in Query
                     /\ s.hook[h].cachedQuery = s.hook[h].query
                     /\ s.hook[h].cachedClient = client
  /\ \A h \in Hook \ (tree \cup unmounted) : s.hook[h].cachedQuery = Null

PageType ==
  /\ State \in States
  /\ client \in BOOLEAN /\ processingQueue \in BOOLEAN /\ hasty \in BOOLEAN
  /\ version \in Int
  /\ tree \subseteq Hook /\ unmounted \subseteq Hook /\ tree \cap unmounted = {}
  /\ IsFiniteSet(tree)

HookInv == PageType /\ Subscriptions(State, {}) /\ Cached(State) /\ UpToDate
-----------------------------------------------------------------------------
(* A set as a sequence.                                                    *)
LEMMA SeqOfSet ==
  ASSUME NEW S, IsFiniteSet(S)
  PROVE  /\ Cardinality(S) \in Nat
         /\ SetToSeq(S) \in [1..Cardinality(S) -> S]
         /\ SetToSeq(S) \in Seq(S) /\ Len(SetToSeq(S)) = Cardinality(S)
         /\ \A x \in S : \E i \in 1..Cardinality(S) : SetToSeq(S)[i] = x
         /\ \A i, j \in 1..Cardinality(S) : SetToSeq(S)[i] = SetToSeq(S)[j] => i = j
<1> DEFINE n == Cardinality(S)
           f == SetToSeq(S)
<1>1. n \in Nat /\ ExistsBijection(1..n, S)
  BY FS_CardinalityType
<1>2. \E g \in [1..n -> S] : IsInjective(g)
  BY <1>1 DEF ExistsBijection, Bijection, Injection
<1>3. f \in [1..n -> S] /\ IsInjective(f)
  BY <1>2 DEF SetToSeq
<1> HIDE DEF f
<1>4. f \in Injection(1..n, S)
  BY <1>3 DEF Injection
<1>5. IsFiniteSet(1..n) /\ Cardinality(1..n) = n
  BY <1>1, FS_Interval
<1>6. f \in Surjection(1..n, S)
  BY <1>4, <1>5, FS_Injection
<1>7. \A x \in S : \E i \in 1..n : f[i] = x
  BY <1>6 DEF Surjection
<1>8. f \in Seq(S) /\ Len(f) = n
  BY <1>1, <1>3
<1>9. \A i, j \in 1..n : f[i] = f[j] => i = j
  BY <1>3 DEF IsInjective
<1> QED
  BY <1>1, <1>3, <1>7, <1>8, <1>9 DEF f

(* What an effect leaves alone.                                            *)
SameLook(s, r) ==
  \A h \in Hook :
    /\ r.hook[h].query = s.hook[h].query
    /\ r.hook[h].cachedQuery = s.hook[h].cachedQuery
    /\ r.hook[h].cachedClient = s.hook[h].cachedClient
    /\ r.hook[h].shown = s.hook[h].shown
    /\ s.hook[h].subscribed = TRUE => r.hook[h].subscribed = TRUE

LEMMA Appended ==
  ASSUME NEW S, NEW q \in Seq(S), NEW x \in S
  PROVE  /\ Append(q, x) \in Seq(S)
         /\ ToSet(Append(q, x)) = ToSet(q) \cup {x}
         /\ Len(q) \in Nat /\ Len(Append(q, x)) = Len(q) + 1
         /\ Append(q, x)[Len(q) + 1] = x
         /\ \A i \in 1..Len(q) : Append(q, x)[i] = q[i]
<1> DEFINE a == Append(q, x)
           n == Len(q)
<1>1. /\ a \in Seq(S) /\ n \in Nat /\ Len(a) = n + 1 /\ a[n + 1] = x
      /\ \A i \in 1..n : a[i] = q[i]
      /\ DOMAIN a = 1..n + 1 /\ DOMAIN q = 1..n
  OBVIOUS
<1> HIDE DEF a, n
<1>2. 1..n + 1 = (1..n) \cup {n + 1}
  BY <1>1
<1>3. ToSet(a) = ToSet(q) \cup {x}
  BY <1>1, <1>2 DEF ToSet
<1> QED
  BY <1>1, <1>3 DEF a, n

LEMMA SubscribedHook ==
  ASSUME NEW k \in HookRecord, NEW b \in BOOLEAN
  PROVE  LET r == [k EXCEPT !.subscribed = b] IN
         /\ r \in HookRecord /\ r.subscribed = b
         /\ r.mounted = k.mounted /\ r.cachedClient = k.cachedClient
         /\ r.query = k.query /\ r.cachedQuery = k.cachedQuery /\ r.shown = k.shown
         /\ b = k.subscribed => r = k
BY DEF HookRecord

LEMMA RunEffectStep ==
  ASSUME NEW s \in States, NEW due \in SUBSET Hook, NEW h \in tree,
         client \in BOOLEAN, tree \subseteq Hook, tree \cap unmounted = {},
         Subscriptions(s, due)
  PROVE  LET r == RunEffect(s, h) IN
         /\ r \in States
         /\ Subscriptions(r, due)
         /\ SameLook(s, r)
         /\ r.effects = s.effects
         /\ client = TRUE => r.hook[h].subscribed = TRUE
<1> DEFINE r == RunEffect(s, h)
<1>1. CASE client = TRUE /\ s.hook[h].subscribed = FALSE
  <2> DEFINE k1 == [s.hook[h] EXCEPT !.subscribed = TRUE]
  <2>10. s.hook[h] \in HookRecord
    BY DEF States
  <2>11. /\ k1 \in HookRecord /\ k1.subscribed = TRUE
         /\ k1.mounted = s.hook[h].mounted /\ k1.cachedClient = s.hook[h].cachedClient
         /\ k1.query = s.hook[h].query /\ k1.cachedQuery = s.hook[h].cachedQuery
         /\ k1.shown = s.hook[h].shown
    BY <2>10, SubscribedHook
  <2>1. r = [[s EXCEPT !.hook = [s.hook EXCEPT ![h] = k1]]
                EXCEPT !.notifications = Append(s.notifications, h)]
    BY <1>1 DEF RunEffect
  <2> HIDE DEF k1
  <2>2. /\ r.effects = s.effects
        /\ r.notifications = Append(s.notifications, h)
        /\ r.hook \in [Hook -> HookRecord]
        /\ \A k \in Hook : k # h => r.hook[k] = s.hook[k]
        /\ r.hook[h] = k1
        /\ r = [hook |-> r.hook, effects |-> r.effects, notifications |-> r.notifications]
    BY <2>1, <2>11 DEF States
  <2> HIDE DEF r
  <2>12. s.notifications \in Seq(Hook) /\ s.effects \in SUBSET Hook /\ h \in Hook
    BY DEF States
  <2>3. r \in States
    <3>1. r.notifications \in Seq(Hook)
      BY <2>2, <2>12, Appended
    <3> QED
      BY <2>2, <2>12, <3>1 DEF States
  <2>4. Held(r) = Held(s) \cup {h}
    BY <2>2, <2>12, Appended DEF Held
  <2>5. h \notin Held(s) /\ h \notin due
    BY <1>1 DEF Subscriptions
  <2>6. \A i, j \in 1..Len(r.notifications) :
          /\ r.notifications[i] = r.notifications[j]
          /\ r.notifications[i] \notin unmounted
          => i = j
    <3> SUFFICES ASSUME NEW i \in 1..Len(r.notifications), NEW j \in 1..Len(r.notifications),
                        r.notifications[i] = r.notifications[j],
                        r.notifications[i] \notin unmounted
                 PROVE  i = j
      OBVIOUS
    <3> DEFINE n == Len(s.notifications)
    <3>1. n \in Nat /\ Len(r.notifications) = n + 1 /\ r.notifications[n + 1] = h
      BY <2>2 DEF States
    <3>2. \A k \in 1..n : r.notifications[k] = s.notifications[k] /\ s.notifications[k] # h
      BY <2>2, <2>5 DEF States, Held, ToSet
    <3>3. i \in 1..n \/ i = n + 1
      BY <3>1
    <3>4. j \in 1..n \/ j = n + 1
      BY <3>1
    <3> HIDE DEF n
    <3> QED
      BY <3>1, <3>2, <3>3, <3>4 DEF Subscriptions, n
  <2>7. Subscriptions(r, due)
    <3>1. \A k \in Hook \ unmounted :
            /\ r.hook[k].mounted = TRUE
            /\ r.hook[k].subscribed = TRUE <=> k \in Held(r) \cup due
            /\ k \notin Held(r) \cap due
            /\ r.hook[k].subscribed = TRUE => k \in tree /\ client = TRUE
      <4>1. SUFFICES ASSUME NEW k \in Hook \ unmounted
                     PROVE  /\ r.hook[k].mounted = TRUE
                            /\ r.hook[k].subscribed = TRUE <=> k \in Held(r) \cup due
                            /\ k \notin Held(r) \cap due
                            /\ r.hook[k].subscribed = TRUE => k \in tree /\ client = TRUE
        OBVIOUS
      <4>2. CASE k = h
        BY <1>1, <2>2, <2>11, <2>4, <2>5, <4>2 DEF Subscriptions
      <4>3. CASE k # h
        BY <2>2, <2>4, <4>3 DEF Subscriptions
      <4> QED
        BY <4>2, <4>3
    <3>2. \A k \in tree \ r.effects : client = TRUE => r.hook[k].subscribed = TRUE
      BY <2>2, <2>11 DEF Subscriptions
    <3> QED
      BY <2>2, <2>6, <3>1, <3>2 DEF Subscriptions
  <2>8. SameLook(s, r) /\ r.hook[h].subscribed = TRUE
    BY <2>2, <2>11 DEF SameLook
  <2> QED
    BY <2>2, <2>3, <2>7, <2>8 DEF r
<1>2. CASE ~ (client = TRUE /\ s.hook[h].subscribed = FALSE)
  <2> DEFINE b == s.hook[h].subscribed \/ (client /\ ~s.hook[h].subscribed)
  <2>1. s.hook[h] \in HookRecord /\ s.hook[h].subscribed \in BOOLEAN
    BY DEF States, HookRecord
  <2>3. b = s.hook[h].subscribed /\ ~ (client /\ ~s.hook[h].subscribed)
    BY <1>2, <2>1
  <2>4. [s.hook[h] EXCEPT !.subscribed = b] = s.hook[h]
    BY <2>1, <2>3, SubscribedHook
  <2>5. r = [[s EXCEPT !.hook = [s.hook EXCEPT ![h] = [s.hook[h] EXCEPT !.subscribed = b]]]
                EXCEPT !.notifications = s.notifications]
    BY <2>3 DEF RunEffect
  <2> HIDE DEF b, r
  <2>6. [s.hook EXCEPT ![h] = s.hook[h]] = s.hook
    BY DEF States
  <2>7. [[s EXCEPT !.hook = s.hook] EXCEPT !.notifications = s.notifications] = s
    BY DEF States
  <2>2. r = s
    BY <2>4, <2>5, <2>6, <2>7
  <2> QED
    BY <1>2, <2>1, <2>2 DEF SameLook, r
<1> QED
  BY <1>1, <1>2

LEMMA CleanUpStep ==
  ASSUME NEW s \in States, NEW due \in SUBSET Hook,
         tree \subseteq Hook, Subscriptions(s, due)
  PROVE  LET r == CleanUp(s) IN
         /\ r \in States
         /\ Subscriptions(r, due)
         /\ SameLook(s, r)
         /\ r.effects = s.effects
<1> DEFINE r == CleanUp(s)
<1>1. ASSUME NEW h \in Hook
      PROVE  /\ r.hook[h] = [s.hook[h] EXCEPT !.mounted = s.hook[h].mounted /\ h \notin unmounted]
             /\ r.hook[h] \in HookRecord
             /\ h \notin unmounted => r.hook[h].mounted = s.hook[h].mounted
             /\ r.hook[h].query = s.hook[h].query
             /\ r.hook[h].cachedQuery = s.hook[h].cachedQuery
             /\ r.hook[h].cachedClient = s.hook[h].cachedClient
             /\ r.hook[h].shown = s.hook[h].shown
             /\ r.hook[h].subscribed = s.hook[h].subscribed
  <2> DEFINE b == s.hook[h].mounted /\ h \notin unmounted
  <2>1. s.hook[h] \in HookRecord
    BY DEF States
  <2>2. b \in BOOLEAN /\ (h \notin unmounted => b = s.hook[h].mounted)
    BY <2>1 DEF HookRecord
  <2>3. r.hook[h] = [s.hook[h] EXCEPT !.mounted = b]
    BY DEF CleanUp, States
  <2> HIDE DEF b, r
  <2> QED
    BY <2>1, <2>2, <2>3 DEF HookRecord, b
<1>2. /\ r.effects = s.effects /\ r.notifications = s.notifications
      /\ r = [hook |-> r.hook, effects |-> s.effects, notifications |-> s.notifications]
      /\ r.hook = [h \in Hook |-> r.hook[h]]
  BY DEF CleanUp, States
<1> HIDE DEF r
<1>3. r.hook \in [Hook -> HookRecord]
  BY <1>1, <1>2
<1>4. r \in States
  BY <1>2, <1>3 DEF States
<1>5. Held(r) = Held(s)
  BY <1>2 DEF Held
<1>6. \A h \in tree \ s.effects : client = TRUE => r.hook[h].subscribed = TRUE
  BY <1>1 DEF Subscriptions
<1>7. SameLook(s, r)
  BY <1>1 DEF SameLook
<1>8. Subscriptions(r, due)
  BY <1>1, <1>2, <1>5, <1>6 DEF Subscriptions
<1> QED
  BY <1>2, <1>4, <1>7, <1>8 DEF r

LEMMA SameLookTransitive ==
  ASSUME NEW s, NEW r, NEW q, SameLook(s, r), SameLook(r, q)
  PROVE  SameLook(s, q)
BY DEF SameLook

(* React runs the effects of all hooks: all that may be are subscribed.    *)
LEMMA FlushedStep ==
  ASSUME NEW s \in States, NEW due \in SUBSET Hook,
         client \in BOOLEAN, tree \subseteq Hook, tree \cap unmounted = {},
         IsFiniteSet(tree), Subscriptions(s, due)
  PROVE  LET r == Flushed(s) IN
         /\ r \in States
         /\ Subscriptions(r, due)
         /\ SameLook(s, r)
         /\ r.effects = {}
<1> DEFINE base == CleanUp(s)
           seq == SetToSeq(s.effects)
           n == Cardinality(s.effects)
           V == {t \in States : /\ Subscriptions(t, due) /\ SameLook(s, t)
                                /\ t.effects = s.effects}
           G == [p \in V \X (1..n) |-> RunEffect(p[1], seq[p[2]])]
           Step(f) == [t \in SUBSET (1..n) |->
                         IF t = {} THEN base
                         ELSE RunEffect(f[t \ {Max(t)}], seq[Max(t)])]
           fold == CHOOSE f : f = Step(f)
<1>1. s.effects \subseteq tree /\ IsFiniteSet(s.effects)
  BY FS_Subset DEF Subscriptions
<1>2. /\ n \in Nat /\ DOMAIN seq = 1..n
      /\ \A i \in 1..n : seq[i] \in s.effects
      /\ \A h \in s.effects : \E i \in 1..n : seq[i] = h
  BY <1>1, SeqOfSet
<1>3. base \in V
  BY CleanUpStep
<1>4. Flushed(s) = [fold[1..n] EXCEPT !.effects = {}]
  BY <1>2, <1>3 DEF Flushed, FoldLeft, MapThenFoldSet
<1> HIDE DEF base, n, seq
<1>5. ASSUME NEW t \in V, NEW i \in 1..n
      PROVE  /\ RunEffect(t, seq[i]) \in V
             /\ client = TRUE => RunEffect(t, seq[i]).hook[seq[i]].subscribed = TRUE
             /\ SameLook(t, RunEffect(t, seq[i]))
  <2>1. t \in States /\ Subscriptions(t, due) /\ SameLook(s, t) /\ t.effects = s.effects
    OBVIOUS
  <2>2. seq[i] \in tree
    BY <1>1, <1>2
  <2>3. /\ RunEffect(t, seq[i]) \in States /\ Subscriptions(RunEffect(t, seq[i]), due)
        /\ SameLook(t, RunEffect(t, seq[i]))
        /\ RunEffect(t, seq[i]).effects = t.effects
        /\ client = TRUE => RunEffect(t, seq[i]).hook[seq[i]].subscribed = TRUE
    BY <2>1, <2>2, RunEffectStep
  <2>4. SameLook(s, RunEffect(t, seq[i]))
    BY <2>1, <2>3, SameLookTransitive
  <2> QED
    BY <2>1, <2>3, <2>4
<1> HIDE DEF V
<1>6. G \in [V \X (1..n) -> V]
  BY <1>5
<1>7. PICK g : IsFold(g, V, base, n, G)
  <2> HIDE DEF G
  <2> QED
    BY <1>2, <1>3, <1>6, FoldExists
<1>8. g = Step(g)
  <2>1. ASSUME NEW t \in SUBSET (1..n), t # {}
        PROVE  g[t] = RunEffect(g[t \ {Max(t)}], seq[Max(t)])
    <3>1. Max(t) \in 1..n /\ g[t \ {Max(t)}] \in V
      BY <1>2, <1>7, <2>1, MaxOfSubset DEF IsFold
    <3> QED
      BY <1>7, <2>1, <3>1 DEF IsFold
  <2> QED
    BY <1>7, <2>1 DEF IsFold
<1> HIDE DEF Step
<1>9. fold = Step(fold)
  BY <1>8
<1> HIDE DEF fold
<1> DEFINE r(k) == fold[1..k]
           Good(k) == /\ r(k) \in V
                      /\ \A i \in 1..k : client = TRUE => r(k).hook[seq[i]].subscribed = TRUE
           S == {k \in Nat : k <= n => Good(k)}
<1>10. r(0) = base
  <2>1. 1..0 = {}
    OBVIOUS
  <2> QED
    BY <1>9, <2>1 DEF Step
<1>11. ASSUME NEW k \in 1..n
       PROVE  r(k) = RunEffect(r(k - 1), seq[k])
  <2>1. k \in Nat \ {0} /\ 1..k \in SUBSET (1..n)
    BY <1>2
  <2>2. Max(1..k) = k /\ (1..k) \ {k} = 1..k - 1 /\ 1..k # {}
    BY <2>1, MaxOfInitial
  <2> QED
    BY <1>9, <2>1, <2>2 DEF Step
<1> HIDE DEF r
<1>12. 0 \in S
  BY <1>3, <1>10
<1>13. ASSUME NEW k \in Nat, k \in S PROVE k + 1 \in S
  <2> HIDE DEF Good
  <2>1. SUFFICES ASSUME k + 1 <= n PROVE Good(k + 1)
    OBVIOUS
  <2> USE DEF Good
  <2>2. k + 1 \in 1..n /\ (k + 1) - 1 = k /\ k <= n
    BY <1>2, <2>1
  <2>3. r(k + 1) = RunEffect(r(k), seq[k + 1])
    BY <1>11, <2>2
  <2>4. r(k) \in V /\ \A i \in 1..k : client = TRUE => r(k).hook[seq[i]].subscribed = TRUE
    BY <1>13, <2>2
  <2>5. /\ r(k + 1) \in V
        /\ client = TRUE => r(k + 1).hook[seq[k + 1]].subscribed = TRUE
        /\ SameLook(r(k), r(k + 1))
    BY <1>5, <2>2, <2>3, <2>4
  <2>6. ASSUME NEW i \in 1..k + 1, client = TRUE
        PROVE  r(k + 1).hook[seq[i]].subscribed = TRUE
    <3>1. i \in 1..n /\ seq[i] \in Hook
      BY <1>1, <1>2, <2>1
    <3>2. i = k + 1 \/ i \in 1..k
      BY <1>2
    <3> QED
      BY <2>4, <2>5, <2>6, <3>1, <3>2 DEF SameLook
  <2> QED
    BY <2>5, <2>6
<1>14. n \in S
  <2> HIDE DEF S
  <2> QED
    BY <1>2, <1>12, <1>13, NatInductionOnSet
<1> DEFINE last == r(n)
<1>15. /\ last \in V
       /\ client = TRUE => \A h \in s.effects : last.hook[h].subscribed = TRUE
  BY <1>2, <1>14
<1>16. Flushed(s) = [last EXCEPT !.effects = {}]
  BY <1>4 DEF r
<1> HIDE DEF last
<1>17. last \in States /\ Subscriptions(last, due) /\ SameLook(s, last) /\ last.effects = s.effects
  BY <1>15 DEF V
<1> DEFINE q == Flushed(s)
<1>18. /\ q.effects = {} /\ q.hook = last.hook /\ q.notifications = last.notifications
       /\ q \in States
  BY <1>16, <1>17 DEF States
<1> HIDE DEF q
<1>19. \A h \in tree : client = TRUE => last.hook[h].subscribed = TRUE
  BY <1>15, <1>17 DEF Subscriptions
<1>20. Subscriptions(q, due)
  <2>1. Held(q) = Held(last)
    BY <1>18 DEF Held
  <2> QED
    BY <1>17, <1>18, <1>19, <2>1 DEF Subscriptions
<1>21. SameLook(s, q)
  BY <1>17, <1>18 DEF SameLook
<1> QED
  BY <1>18, <1>20, <1>21 DEF q

-----------------------------------------------------------------------------
(* Rendering                                                               *)

(* What rendering h with its query does to a state s.                      *)
Rendered(s, h, C, v, r) ==
  /\ r \in States
  /\ r.effects = s.effects \cup {h}
  /\ r.notifications = s.notifications
  /\ \A k \in Hook : k # h => r.hook[k] = s.hook[k]
  /\ r.hook[h].mounted = s.hook[h].mounted
  /\ r.hook[h].subscribed = s.hook[h].subscribed
  /\ r.hook[h].query = s.hook[h].query
  /\ r.hook[h].cachedQuery = s.hook[h].query
  /\ r.hook[h].cachedClient = C
  /\ ~IsCached(s.hook[h], C) => r.hook[h].shown = Answer(s.hook[h].query, C, v)

LEMMA RenderStep ==
  ASSUME NEW s \in States, NEW h \in Hook, NEW C \in BOOLEAN, NEW v \in Int
  PROVE  Rendered(s, h, C, v, Render(s, h, C, v))
<1> DEFINE k1 == IF IsCached(s.hook[h], C) THEN s.hook[h]
                 ELSE [s.hook[h] EXCEPT !.cachedClient = C,
                                        !.cachedQuery = s.hook[h].query,
                                        !.shown = Answer(s.hook[h].query, C, v)]
           r == Render(s, h, C, v)
<1>1. s.hook[h] \in HookRecord
  BY DEF States
<1>2. Answer(s.hook[h].query, C, v) \in [query : Query \cup {Null}, version : Int]
  BY <1>1 DEF Answer, Loading, HookRecord
<1>3. /\ k1 \in HookRecord
      /\ k1.mounted = s.hook[h].mounted
      /\ k1.subscribed = s.hook[h].subscribed
      /\ k1.query = s.hook[h].query
      /\ k1.cachedQuery = s.hook[h].query
      /\ k1.cachedClient = C
      /\ ~IsCached(s.hook[h], C) => k1.shown = Answer(s.hook[h].query, C, v)
  <2> DEFINE k == s.hook[h]
             a == Answer(k.query, C, v)
  <2>1. k \in HookRecord /\ a \in [query : Query \cup {Null}, version : Int]
    BY <1>1, <1>2
  <2> HIDE DEF k, a
  <2>2. CASE IsCached(k, C)
    BY <2>1, <2>2 DEF IsCached, k, a
  <2>3. CASE ~IsCached(k, C)
    <3>1. k1 = [k EXCEPT !.cachedClient = C, !.cachedQuery = k.query, !.shown = a]
      BY <2>3 DEF k, a
    <3> HIDE DEF k1
    <3>2. /\ k1 \in HookRecord /\ k1.mounted = k.mounted /\ k1.subscribed = k.subscribed
          /\ k1.query = k.query /\ k1.cachedQuery = k.query /\ k1.cachedClient = C
          /\ k1.shown = a
      BY <2>1, <3>1 DEF HookRecord
    <3> QED
      BY <3>2 DEF k, a
  <2> QED
    BY <2>2, <2>3
<1>4. r = [s EXCEPT !.hook = [s.hook EXCEPT ![h] = k1], !.effects = s.effects \cup {h}]
  BY DEF Render
<1> HIDE DEF k1
<1>5. /\ r.effects = s.effects \cup {h} /\ r.notifications = s.notifications
      /\ r.hook = [s.hook EXCEPT ![h] = k1]
      /\ r = [hook |-> r.hook, effects |-> r.effects, notifications |-> r.notifications]
  BY <1>4 DEF States
<1> HIDE DEF r
<1>6. /\ r.hook \in [Hook -> HookRecord] /\ r.hook[h] = k1
      /\ \A k \in Hook : k # h => r.hook[k] = s.hook[k]
  BY <1>3, <1>5 DEF States
<1>7. r \in States
  BY <1>5, <1>6 DEF States
<1> QED
  BY <1>3, <1>5, <1>6, <1>7 DEF Rendered, r

(* The hook gets a query first.                                            *)
Asked(s, h, q, r) ==
  /\ r \in States
  /\ r.effects = s.effects
  /\ r.notifications = s.notifications
  /\ \A k \in Hook : k # h => r.hook[k] = s.hook[k]
  /\ r.hook[h].mounted = s.hook[h].mounted
  /\ r.hook[h].subscribed = s.hook[h].subscribed
  /\ r.hook[h].cachedQuery = s.hook[h].cachedQuery
  /\ r.hook[h].query = q

LEMMA AskedStep ==
  ASSUME NEW s \in States, NEW h \in Hook, NEW q \in Query
  PROVE  Asked(s, h, q, [s EXCEPT !.hook[h].query = q])
<1> DEFINE k1 == [s.hook[h] EXCEPT !.query = q]
           r == [s EXCEPT !.hook[h].query = q]
<1>1. s.hook[h] \in HookRecord
  BY DEF States
<1>2. /\ k1 \in HookRecord /\ k1.mounted = s.hook[h].mounted
      /\ k1.subscribed = s.hook[h].subscribed
      /\ k1.cachedQuery = s.hook[h].cachedQuery /\ k1.query = q
  BY <1>1 DEF HookRecord
<1>3. r = [s EXCEPT !.hook = [s.hook EXCEPT ![h] = k1]]
  OBVIOUS
<1> HIDE DEF k1, r
<1>4. /\ r.effects = s.effects /\ r.notifications = s.notifications
      /\ r.hook = [s.hook EXCEPT ![h] = k1]
      /\ r = [hook |-> r.hook, effects |-> r.effects, notifications |-> r.notifications]
  BY <1>3 DEF States
<1>5. /\ r.hook \in [Hook -> HookRecord] /\ r.hook[h] = k1
      /\ \A k \in Hook : k # h => r.hook[k] = s.hook[k]
  BY <1>2, <1>4 DEF States
<1>6. r \in States
  BY <1>4, <1>5 DEF States
<1> QED
  BY <1>2, <1>4, <1>5, <1>6 DEF Asked, r

-----------------------------------------------------------------------------
(* The steps                                                               *)

LEMMA BecomesState ==
  ASSUME NEW r \in States, Becomes(r)
  PROVE  State' = r
<1>1. r = [hook |-> r.hook, effects |-> r.effects, notifications |-> r.notifications]
  BY DEF States
<1> QED
  BY <1>1 DEF Becomes, State

(* Two states that differ in no subscription.                              *)
LEMMA FlushedState ==
  ASSUME HookInv
  PROVE  LET f == Flushed(State) IN
         /\ f \in States /\ f.effects = {}
         /\ Subscriptions(f, {}) /\ Cached(f) /\ SameLook(State, f)
<1> DEFINE f == Flushed(State)
<1>1. f \in States /\ Subscriptions(f, {}) /\ SameLook(State, f) /\ f.effects = {}
  BY FlushedStep DEF HookInv, PageType
<1> HIDE DEF f
<1>2. Cached(f)
  BY <1>1 DEF HookInv, PageType, Cached, SameLook
<1> QED
  BY <1>1, <1>2 DEF f

LEMMA RequeryStep ==
  ASSUME HookInv, NEW h \in Hook \ unmounted, NEW q \in Query,
         Becomes(Render([Flushed(State) EXCEPT !.hook[h].query = q], h, client, version)),
         tree' = tree \cup {h}, h \in tree => q # hook[h].query,
         UNCHANGED <<client, version, processingQueue, unmounted, hasty>>
  PROVE  HookInv'
<1> DEFINE f == Flushed(State)
           a == [f EXCEPT !.hook[h].query = q]
           r == Render(a, h, client, version)
<1>1. /\ f \in States /\ f.effects = {}
      /\ Subscriptions(f, {}) /\ Cached(f) /\ SameLook(State, f)
  BY FlushedState
<1>2. /\ client \in BOOLEAN /\ version \in Int /\ tree \subseteq Hook /\ unmounted \subseteq Hook
      /\ tree \cap unmounted = {} /\ IsFiniteSet(tree) /\ PageType
  BY DEF HookInv, PageType
<1> HIDE DEF f
<1>3. Asked(f, h, q, a)
  BY <1>1, AskedStep
<1> HIDE DEF a
<1>4. Rendered(a, h, client, version, r)
  BY <1>2, <1>3, RenderStep DEF Asked
<1>5. State' = r
  BY <1>4, BecomesState DEF Rendered, a, f
<1> HIDE DEF r
<1>6. /\ r \in States /\ r.effects = {h} /\ r.notifications = f.notifications
      /\ \A k \in Hook : k # h => r.hook[k] = f.hook[k]
      /\ r.hook[h].mounted = f.hook[h].mounted
      /\ r.hook[h].subscribed = f.hook[h].subscribed
      /\ r.hook[h].query = q /\ r.hook[h].cachedQuery = q
      /\ r.hook[h].cachedClient = client
  BY <1>1, <1>3, <1>4 DEF Asked, Rendered
<1>7. r.hook[h].shown = Answer(q, client, version)
  <2>1. f.hook[h].cachedQuery # q
    <3>1. CASE h \in tree
      <4>1. f.hook[h].cachedQuery = f.hook[h].query /\ f.hook[h].query = hook[h].query
        BY <1>1, <3>1 DEF Cached, SameLook, State
      <4> QED
        BY <3>1, <4>1
    <3>2. CASE h \notin tree
      <4>1. f.hook[h].cachedQuery = Null
        BY <1>1, <3>2 DEF Cached
      <4> QED
        BY <4>1, NullAssumption
    <3> QED
      BY <3>1, <3>2
  <2>2. ~IsCached(a.hook[h], client)
    BY <1>3, <2>1 DEF IsCached, Asked
  <2> QED
    BY <1>3, <1>4, <2>2 DEF Asked, Rendered
<1>8. PageType'
  <2>1. IsFiniteSet(tree \cup {h})
    BY <1>2, FS_AddElement
  <2> QED
    BY <1>2, <1>5, <1>6, <2>1 DEF PageType
<1>9. Subscriptions(State, {})'
  <2>1. Held(r) = Held(f)
    BY <1>6 DEF Held
  <2>2. \A i, j \in 1..Len(r.notifications) :
          r.notifications[i] = r.notifications[j] /\ r.notifications[i] \notin unmounted => i = j
    BY <1>1, <1>6 DEF Subscriptions
  <2>3. \A k \in Hook \ unmounted :
          /\ r.hook[k].mounted = TRUE
          /\ r.hook[k].subscribed = TRUE <=> k \in Held(r)
          /\ r.hook[k].subscribed = TRUE => k \in tree /\ client = TRUE
    <3>1. \A k \in Hook : /\ r.hook[k].mounted = f.hook[k].mounted
                          /\ r.hook[k].subscribed = f.hook[k].subscribed
      BY <1>6
    <3> QED
      BY <1>1, <2>1, <3>1 DEF Subscriptions
  <2>4. \A k \in tree \ {h} : client = TRUE => r.hook[k].subscribed = TRUE
    BY <1>1, <1>2, <1>6 DEF Subscriptions
  <2>5. Held(State)' = Held(r)
    BY <1>5 DEF Held
  <2> QED
    BY <1>5, <1>6, <2>2, <2>3, <2>4, <2>5 DEF Subscriptions
<1>10. Cached(State)'
  BY <1>1, <1>2, <1>5, <1>6 DEF Cached
<1>11. UpToDate'
  <2>1. SUFFICES ASSUME ~hasty, ~processingQueue, NEW k \in tree'
                 PROVE  hook'[k].shown = Answer(hook'[k].query, client, version)
    BY DEF UpToDate, AllShown, Result
  <2>2. hook' = r.hook
    BY <1>5 DEF State
  <2>3. CASE k = h
    BY <1>6, <1>7, <2>2, <2>3
  <2>4. CASE k # h
    <3>1. k \in tree /\ k \in Hook
      BY <1>2, <2>1, <2>4
    <3>2. hook[k].shown = Answer(hook[k].query, client, version)
      BY <2>1, <3>1 DEF HookInv, UpToDate, AllShown, Result
    <3>3. f.hook[k].shown = hook[k].shown /\ f.hook[k].query = hook[k].query
      BY <1>1, <3>1 DEF SameLook, State
    <3> QED
      BY <1>6, <2>2, <2>4, <3>1, <3>2, <3>3
  <2> QED
    BY <2>3, <2>4
<1> QED
  BY <1>8, <1>9, <1>10, <1>11 DEF HookInv

(* An unmounted hook keeps its callbacks, which do nothing any more.       *)
LEMMA UnmountStep ==
  ASSUME HookInv, NEW h \in Hook, Unmount(h)
  PROVE  HookInv'
<1> DEFINE f == Flushed(State)
<1>1. /\ f \in States /\ f.effects = {}
      /\ Subscriptions(f, {}) /\ Cached(f) /\ SameLook(State, f)
  BY FlushedState
<1>2. /\ client \in BOOLEAN /\ version \in Int /\ tree \subseteq Hook /\ unmounted \subseteq Hook
      /\ tree \cap unmounted = {} /\ IsFiniteSet(tree) /\ PageType
  BY DEF HookInv, PageType
<1>3. State' = f
  BY <1>1, BecomesState DEF Unmount
<1> HIDE DEF f
<1>4. /\ tree' = tree \ {h} /\ unmounted' = unmounted \cup {h} /\ h \in tree
      /\ UNCHANGED <<client, version, processingQueue, hasty>>
  BY DEF Unmount
<1>5. PageType'
  <2>1. IsFiniteSet(tree \ {h})
    BY <1>2, FS_RemoveElement
  <2> QED
    BY <1>1, <1>2, <1>3, <1>4, <2>1 DEF PageType
<1>6. Held(State)' = Held(f)
  BY <1>3 DEF Held
<1>7. Subscriptions(State, {})'
  BY <1>1, <1>3, <1>4, <1>6 DEF Subscriptions
<1>8. Cached(State)'
  BY <1>1, <1>3, <1>4 DEF Cached
<1>9. UpToDate'
  <2>1. \A k \in tree' : k \in tree /\ k \in Hook
    BY <1>2, <1>4
  <2>2. hook' = f.hook
    BY <1>3 DEF State
  <2>3. \A k \in Hook : hook'[k].shown = hook[k].shown /\ hook'[k].query = hook[k].query
    BY <1>1, <2>2 DEF SameLook, State
  <2> QED
    BY <1>4, <2>1, <2>3 DEF HookInv, UpToDate, AllShown, Result
<1> QED
  BY <1>5, <1>7, <1>8, <1>9 DEF HookInv

LEMMA EffectsStep ==
  ASSUME HookInv, Effects
  PROVE  HookInv'
<1> DEFINE f == Flushed(State)
<1>1. /\ f \in States /\ f.effects = {}
      /\ Subscriptions(f, {}) /\ Cached(f) /\ SameLook(State, f)
  BY FlushedState
<1>2. State' = f
  BY <1>1, BecomesState DEF Effects
<1> HIDE DEF f
<1>3. UNCHANGED <<client, version, processingQueue, tree, unmounted, hasty>>
  BY DEF Effects
<1>4. PageType'
  BY <1>1, <1>2, <1>3 DEF PageType, HookInv
<1>5. Held(State)' = Held(f)
  BY <1>2 DEF Held
<1>6. Subscriptions(State, {})'
  BY <1>1, <1>2, <1>3, <1>5 DEF Subscriptions
<1>7. Cached(State)'
  BY <1>1, <1>2, <1>3 DEF Cached
<1>8. UpToDate'
  <2>1. hook' = f.hook /\ tree \subseteq Hook
    BY <1>2 DEF State, HookInv, PageType
  <2>2. \A k \in Hook : hook'[k].shown = hook[k].shown /\ hook'[k].query = hook[k].query
    BY <1>1, <2>1 DEF SameLook, State
  <2> QED
    BY <1>3, <2>1, <2>2 DEF HookInv, UpToDate, AllShown, Result
<1> QED
  BY <1>4, <1>6, <1>7, <1>8 DEF HookInv

(* The provider and all below it render with the client.                   *)
LEMMA ClientReadyStep ==
  ASSUME HookInv, ClientReady
  PROVE  HookInv'
<1> DEFINE f == Flushed(State)
           seq == SetToSeq(tree)
           n == Cardinality(tree)
           G == [p \in States \X (1..n) |-> Render(p[1], seq[p[2]], TRUE, version)]
           Step(g) == [t \in SUBSET (1..n) |->
                         IF t = {} THEN f
                         ELSE Render(g[t \ {Max(t)}], seq[Max(t)], TRUE, version)]
           fold == CHOOSE g : g = Step(g)
<1>1. /\ f \in States /\ f.effects = {}
      /\ Subscriptions(f, {}) /\ Cached(f) /\ SameLook(State, f)
  BY FlushedState
<1>2. /\ client = FALSE /\ version \in Int /\ tree \subseteq Hook /\ unmounted \subseteq Hook
      /\ tree \cap unmounted = {} /\ IsFiniteSet(tree) /\ PageType
  BY DEF HookInv, PageType, ClientReady
<1>3. /\ n \in Nat /\ DOMAIN seq = 1..n
      /\ \A i \in 1..n : seq[i] \in tree
      /\ \A h \in tree : \E i \in 1..n : seq[i] = h
      /\ \A i, j \in 1..n : seq[i] = seq[j] => i = j
  BY <1>2, SeqOfSet
<1>4. Becomes(fold[1..n])
  BY <1>3 DEF ClientReady, FoldLeft, MapThenFoldSet
<1>5. /\ client' = TRUE
      /\ UNCHANGED <<version, processingQueue, tree, unmounted, hasty>>
  BY DEF ClientReady
<1> HIDE DEF f, n, seq
<1>6. G \in [States \X (1..n) -> States]
  <2>1. ASSUME NEW t \in States, NEW i \in 1..n
        PROVE  Render(t, seq[i], TRUE, version) \in States
    <3>1. seq[i] \in Hook
      BY <1>2, <1>3
    <3> QED
      BY <1>2, <3>1, RenderStep DEF Rendered
  <2> QED
    BY <2>1
<1>7. PICK g : IsFold(g, States, f, n, G)
  <2> HIDE DEF G
  <2> QED
    BY <1>1, <1>3, <1>6, FoldExists
<1>8. g = Step(g)
  <2>1. ASSUME NEW t \in SUBSET (1..n), t # {}
        PROVE  g[t] = Render(g[t \ {Max(t)}], seq[Max(t)], TRUE, version)
    <3>1. Max(t) \in 1..n /\ g[t \ {Max(t)}] \in States
      BY <1>3, <1>7, <2>1, MaxOfSubset DEF IsFold
    <3> QED
      BY <1>7, <2>1, <3>1 DEF IsFold
  <2> QED
    BY <1>7, <2>1 DEF IsFold
<1> HIDE DEF Step
<1>9. fold = Step(fold)
  BY <1>8
<1> HIDE DEF fold
<1> DEFINE r(k) == fold[1..k]
           New(s, h) == /\ s.hook[h].query = f.hook[h].query
                        /\ s.hook[h].cachedQuery = f.hook[h].query
                        /\ s.hook[h].cachedClient = TRUE
                        /\ s.hook[h].shown = Answer(f.hook[h].query, TRUE, version)
           Good(k) ==
             /\ r(k) \in States
             /\ r(k).effects \subseteq tree
             /\ r(k).notifications = f.notifications
             /\ \A h \in Hook : /\ r(k).hook[h].mounted = f.hook[h].mounted
                                /\ r(k).hook[h].subscribed = f.hook[h].subscribed
             /\ \A h \in Hook : (\A i \in 1..k : seq[i] # h) => r(k).hook[h] = f.hook[h]
             /\ \A i \in 1..k : seq[i] \in r(k).effects /\ New(r(k), seq[i])
           S == {k \in Nat : k <= n => Good(k)}
<1>10. r(0) = f
  <2>1. 1..0 = {}
    OBVIOUS
  <2> QED
    BY <1>9, <2>1 DEF Step
<1>11. ASSUME NEW k \in 1..n
       PROVE  r(k) = Render(r(k - 1), seq[k], TRUE, version)
  <2>1. k \in Nat \ {0} /\ 1..k \in SUBSET (1..n)
    BY <1>3
  <2>2. Max(1..k) = k /\ (1..k) \ {k} = 1..k - 1 /\ 1..k # {}
    BY <2>1, MaxOfInitial
  <2> QED
    BY <1>9, <2>1, <2>2 DEF Step
<1> HIDE DEF r
<1> HIDE DEF Good
<1>12. 0 \in S
  <2> HIDE DEF New
  <2> QED
    BY <1>1, <1>10 DEF Good
<1>13. ASSUME NEW k \in Nat, k \in S PROVE k + 1 \in S
  <2>1. SUFFICES ASSUME k + 1 <= n PROVE Good(k + 1)
    OBVIOUS
  <2>2. k + 1 \in 1..n /\ (k + 1) - 1 = k /\ k <= n
    BY <1>3, <2>1
  <2> DEFINE h == seq[k + 1]
  <2>3. r(k + 1) = Render(r(k), h, TRUE, version)
    BY <1>11, <2>2
  <2>4. Good(k)
    BY <1>13, <2>2
  <2>5. r(k) \in States /\ h \in tree /\ h \in Hook
    BY <1>2, <1>3, <2>2, <2>4 DEF Good
  <2>6. Rendered(r(k), h, TRUE, version, r(k + 1))
    BY <1>2, <2>3, <2>5, RenderStep
  <2>7. \A i \in 1..k : seq[i] # h /\ seq[i] \in Hook
    BY <1>2, <1>3, <2>2
  <2>8. r(k).hook[h] = f.hook[h]
    BY <2>4, <2>5, <2>7 DEF Good
  <2>9. ~IsCached(r(k).hook[h], TRUE)
    BY <1>1, <1>2, <2>5, <2>8 DEF IsCached, Cached
  <2>10. New(r(k + 1), h)
    BY <2>6, <2>8, <2>9 DEF Rendered
  <2>11. \A i \in 1..k + 1 : i \in 1..k \/ i = k + 1
    BY <1>13
  <2>12. \A i \in 1..k + 1 : seq[i] \in r(k + 1).effects /\ New(r(k + 1), seq[i])
    <3>1. ASSUME NEW i \in 1..k
          PROVE  seq[i] \in r(k + 1).effects /\ New(r(k + 1), seq[i])
      <4>1. seq[i] \in r(k).effects /\ New(r(k), seq[i])
        BY <2>4 DEF Good
      <4>2. r(k + 1).hook[seq[i]] = r(k).hook[seq[i]]
        BY <2>6, <2>7 DEF Rendered
      <4> QED
        BY <2>6, <4>1, <4>2 DEF Rendered
    <3>2. h \in r(k + 1).effects
      BY <2>6 DEF Rendered
    <3> HIDE DEF New
    <3> QED
      BY <2>10, <2>11, <3>1, <3>2
  <2>13. ASSUME NEW x \in Hook, \A i \in 1..k + 1 : seq[i] # x
         PROVE  r(k + 1).hook[x] = f.hook[x]
    <3>1. x # h /\ \A i \in 1..k : seq[i] # x
      BY <1>13, <2>13
    <3> QED
      BY <2>4, <2>6, <3>1 DEF Good, Rendered
  <2>14. \A x \in Hook : /\ r(k + 1).hook[x].mounted = f.hook[x].mounted
                         /\ r(k + 1).hook[x].subscribed = f.hook[x].subscribed
    <3>1. \A x \in Hook : /\ r(k + 1).hook[x].mounted = r(k).hook[x].mounted
                          /\ r(k + 1).hook[x].subscribed = r(k).hook[x].subscribed
      BY <2>6 DEF Rendered
    <3> QED
      BY <2>4, <3>1 DEF Good
  <2>15. /\ r(k + 1) \in States /\ r(k + 1).effects \subseteq tree
         /\ r(k + 1).notifications = f.notifications
    BY <2>4, <2>5, <2>6 DEF Good, Rendered
  <2> HIDE DEF New, h
  <2> QED
    BY <2>12, <2>13, <2>14, <2>15 DEF Good
<1>14. n \in S
  <2> HIDE DEF S
  <2> QED
    BY <1>3, <1>12, <1>13, NatInductionOnSet
<1> DEFINE q == r(n)
<1>15. Good(n)
  BY <1>3, <1>14
<1>16. /\ q \in States /\ q.effects = tree /\ q.notifications = f.notifications
       /\ \A h \in Hook : /\ q.hook[h].mounted = f.hook[h].mounted
                          /\ q.hook[h].subscribed = f.hook[h].subscribed
       /\ \A h \in tree : New(q, h)
       /\ \A h \in Hook \ tree : q.hook[h] = f.hook[h]
  <2> HIDE DEF New
  <2>1. \A h \in tree : h \in q.effects /\ New(q, h)
    <3>1. \A i \in 1..n : seq[i] \in q.effects /\ New(q, seq[i])
      BY <1>15 DEF Good
    <3> QED
      BY <1>3, <3>1
  <2>2. \A h \in Hook \ tree : q.hook[h] = f.hook[h]
    BY <1>3, <1>15 DEF Good
  <2>3. /\ q \in States /\ q.effects \subseteq tree /\ q.notifications = f.notifications
        /\ \A h \in Hook : /\ q.hook[h].mounted = f.hook[h].mounted
                           /\ q.hook[h].subscribed = f.hook[h].subscribed
    BY <1>15 DEF Good
  <2> QED
    BY <2>1, <2>2, <2>3
<1>17. State' = q
  BY <1>4, <1>16, BecomesState DEF r
<1> HIDE DEF q
<1>18. PageType'
  BY <1>2, <1>5, <1>16, <1>17 DEF PageType
<1>19. Held(State)' = Held(f)
  BY <1>16, <1>17 DEF Held
<1>20. Subscriptions(State, {})'
  <2>1. \A h \in Hook \ unmounted : f.hook[h].subscribed # TRUE
    BY <1>1, <1>2 DEF Subscriptions
  <2> QED
    BY <1>1, <1>5, <1>16, <1>17, <1>19, <2>1 DEF Subscriptions
<1>21. Cached(State)'
  <2>1. \A h \in tree : /\ q.hook[h].query \in Query
                        /\ q.hook[h].cachedQuery = q.hook[h].query
                        /\ q.hook[h].cachedClient = TRUE
    BY <1>1, <1>16 DEF Cached
  <2>2. \A h \in Hook \ (tree \cup unmounted) : q.hook[h].cachedQuery = Null
    BY <1>1, <1>16 DEF Cached
  <2> QED
    BY <1>5, <1>17, <2>1, <2>2 DEF Cached
<1>22. UpToDate'
  <2>1. hook' = q.hook
    BY <1>17 DEF State
  <2> QED
    BY <1>5, <1>16, <2>1 DEF UpToDate, AllShown, Result
<1> QED
  BY <1>18, <1>20, <1>21, <1>22 DEF HookInv

-----------------------------------------------------------------------------
(* A notification                                                          *)

(* One callback is called: s becomes r, what was due becomes `rest`.       *)
Shows(s, h, v) == s.hook[h].shown = Answer(s.hook[h].query, TRUE, v)

Called(s, h, v, rest, r) ==
  /\ r \in States
  /\ Subscriptions(r, rest)
  /\ Cached(r)
  /\ \A k \in Hook : Shows(s, k, v) => Shows(r, k, v)
  /\ h \in tree => Shows(r, h, v)

LEMMA NotifyStep ==
  ASSUME NEW s \in States, NEW h \in Hook, NEW v \in Int,
         NEW due \in SUBSET Hook, NEW rest \in SUBSET Hook,
         PageType, client = TRUE, Subscriptions(s, due), Cached(s),
         due = rest \cup {h}, h \notin unmounted => h \notin rest
  PROVE  Called(s, h, v, rest, Notify(s, h, v))
<1> DEFINE r == Notify(s, h, v)
<1>1. /\ tree \subseteq Hook /\ unmounted \subseteq Hook
      /\ tree \cap unmounted = {} /\ IsFiniteSet(tree)
  BY DEF PageType
<1>2. CASE h \in tree
  <2> DEFINE f == Flushed(s)
             c == [f EXCEPT !.hook[h].cachedQuery = Null]
             g == Render(c, h, TRUE, v)
             k1 == [g.hook[h] EXCEPT !.subscribed = FALSE]
  <2>1. s.hook[h].mounted = TRUE /\ s.hook[h].subscribed = TRUE
    BY <1>1, <1>2 DEF Subscriptions
  <2>2. r = [g EXCEPT !.hook = [g.hook EXCEPT ![h] = k1]]
    BY <1>2, <2>1 DEF Notify, SetCachedQuery
  <2>3. /\ f \in States /\ f.effects = {}
        /\ Subscriptions(f, due) /\ SameLook(s, f)
    BY <1>1, FlushedStep
  <2> HIDE DEF f
  <2>4. /\ c \in States /\ c.effects = {} /\ c.notifications = f.notifications
        /\ \A k \in Hook : k # h => c.hook[k] = f.hook[k]
        /\ c.hook[h].mounted = f.hook[h].mounted
        /\ c.hook[h].subscribed = f.hook[h].subscribed
        /\ c.hook[h].query = f.hook[h].query
        /\ c.hook[h].cachedQuery = Null
    <3> DEFINE k2 == [f.hook[h] EXCEPT !.cachedQuery = Null]
    <3>1. f.hook[h] \in HookRecord
      BY <2>3 DEF States
    <3>2. /\ k2 \in HookRecord /\ k2.mounted = f.hook[h].mounted
          /\ k2.subscribed = f.hook[h].subscribed /\ k2.query = f.hook[h].query
          /\ k2.cachedQuery = Null
      BY <3>1 DEF HookRecord
    <3>3. c = [f EXCEPT !.hook = [f.hook EXCEPT ![h] = k2]]
      OBVIOUS
    <3> HIDE DEF k2, c
    <3>4. /\ c.effects = f.effects /\ c.notifications = f.notifications
          /\ c.hook = [f.hook EXCEPT ![h] = k2]
          /\ c = [hook |-> c.hook, effects |-> c.effects, notifications |-> c.notifications]
      BY <2>3, <3>3 DEF States
    <3>5. /\ c.hook \in [Hook -> HookRecord] /\ c.hook[h] = k2
          /\ \A k \in Hook : k # h => c.hook[k] = f.hook[k]
      BY <2>3, <3>2, <3>4 DEF States
    <3>6. c \in States
      BY <2>3, <3>4, <3>5 DEF States
    <3> QED
      BY <2>3, <3>2, <3>4, <3>5, <3>6
  <2> HIDE DEF c
  <2>5. Rendered(c, h, TRUE, v, g)
    BY <2>4, RenderStep
  <2> HIDE DEF g
  <2>6. g \in States /\ g.hook[h] \in HookRecord
    BY <2>5 DEF Rendered, States
  <2>7. /\ k1 \in HookRecord /\ k1.subscribed = FALSE
        /\ k1.mounted = g.hook[h].mounted /\ k1.cachedClient = g.hook[h].cachedClient
        /\ k1.query = g.hook[h].query /\ k1.cachedQuery = g.hook[h].cachedQuery
        /\ k1.shown = g.hook[h].shown
    BY <2>6, SubscribedHook
  <2> HIDE DEF k1, r
  <2>8. /\ r.effects = g.effects /\ r.notifications = g.notifications
        /\ r.hook = [g.hook EXCEPT ![h] = k1]
        /\ r = [hook |-> r.hook, effects |-> r.effects, notifications |-> r.notifications]
    BY <2>2, <2>6 DEF States
  <2>9. /\ r.hook \in [Hook -> HookRecord] /\ r.hook[h] = k1
        /\ \A k \in Hook : k # h => r.hook[k] = g.hook[k]
    BY <2>6, <2>7, <2>8 DEF States
  <2>10. r \in States
    BY <2>6, <2>8, <2>9 DEF States
  <2>11. s.hook[h].query \in Query /\ f.hook[h].query = s.hook[h].query
    BY <1>2, <2>3 DEF Cached, SameLook
  <2>12. ~IsCached(c.hook[h], TRUE)
    BY <2>4, <2>11, NullAssumption DEF IsCached
  <2>13. /\ r.effects = {h} /\ r.notifications = f.notifications
         /\ \A k \in Hook : k # h => r.hook[k] = f.hook[k]
         /\ r.hook[h].mounted = f.hook[h].mounted
         /\ r.hook[h].subscribed = FALSE
         /\ r.hook[h].query = f.hook[h].query /\ r.hook[h].cachedQuery = f.hook[h].query
         /\ r.hook[h].cachedClient = TRUE
         /\ r.hook[h].shown = Answer(f.hook[h].query, TRUE, v)
    <3>1. /\ g.effects = {h} /\ g.notifications = f.notifications
          /\ \A k \in Hook : k # h => g.hook[k] = f.hook[k]
          /\ g.hook[h].mounted = f.hook[h].mounted
          /\ g.hook[h].query = f.hook[h].query /\ g.hook[h].cachedQuery = f.hook[h].query
          /\ g.hook[h].cachedClient = TRUE
          /\ g.hook[h].shown = Answer(f.hook[h].query, TRUE, v)
      BY <2>4, <2>5, <2>12 DEF Rendered
    <3> QED
      BY <2>7, <2>8, <2>9, <3>1
  <2>14. Held(r) = Held(f) /\ h \notin Held(f) /\ h \notin rest
    BY <1>1, <1>2, <2>3, <2>13 DEF Held, Subscriptions
  <2>15. \A k \in Hook \ unmounted :
           /\ r.hook[k].mounted = TRUE
           /\ r.hook[k].subscribed = TRUE <=> k \in Held(r) \cup rest
           /\ k \notin Held(r) \cap rest
           /\ r.hook[k].subscribed = TRUE => k \in tree /\ client = TRUE
    <3>1. ASSUME NEW k \in Hook \ unmounted, k # h
          PROVE  /\ r.hook[k].mounted = TRUE
                 /\ r.hook[k].subscribed = TRUE <=> k \in Held(r) \cup rest
                 /\ k \notin Held(r) \cap rest
                 /\ r.hook[k].subscribed = TRUE => k \in tree /\ client = TRUE
      BY <2>3, <2>13, <2>14, <3>1 DEF Subscriptions
    <3>2. r.hook[h].mounted = TRUE
      BY <1>1, <1>2, <2>3, <2>13 DEF Subscriptions
    <3> QED
      BY <2>13, <2>14, <3>1, <3>2
  <2>16. Subscriptions(r, rest)
    BY <1>2, <2>3, <2>13, <2>15, <1>1 DEF Subscriptions
  <2>17. Cached(r)
    <3>1. \A k \in Hook : /\ f.hook[k].query = s.hook[k].query
                          /\ f.hook[k].cachedQuery = s.hook[k].cachedQuery
                          /\ f.hook[k].cachedClient = s.hook[k].cachedClient
      BY <2>3 DEF SameLook
    <3>2. ASSUME NEW k \in tree
          PROVE  /\ r.hook[k].query \in Query
                 /\ r.hook[k].cachedQuery = r.hook[k].query
                 /\ r.hook[k].cachedClient = client
      <4>1. CASE k = h
        BY <2>11, <2>13, <4>1
      <4>2. CASE k # h
        <5>1. k \in Hook
          BY <1>1
        <5>2. /\ s.hook[k].query \in Query /\ s.hook[k].cachedQuery = s.hook[k].query
              /\ s.hook[k].cachedClient = client
          BY DEF Cached
        <5> QED
          BY <2>13, <3>1, <4>2, <5>1, <5>2
      <4> QED
        BY <4>1, <4>2
    <3>3. ASSUME NEW k \in Hook \ (tree \cup unmounted)
          PROVE  r.hook[k].cachedQuery = Null
      BY <1>2, <2>13, <3>1 DEF Cached
    <3> QED
      BY <3>2, <3>3 DEF Cached
  <2>18. \A k \in Hook : Shows(s, k, v) => Shows(r, k, v)
    BY <2>3, <2>13 DEF SameLook, Shows
  <2>19. Shows(r, h, v)
    BY <2>13 DEF Shows
  <2> QED
    BY <2>10, <2>16, <2>17, <2>18, <2>19 DEF Called, r
<1>3. CASE h \notin tree
  <2>1. h \in unmounted
    BY <1>3 DEF Subscriptions
  <2> DEFINE k1 == [s.hook[h] EXCEPT !.subscribed = FALSE]
  <2>2. s.hook[h] \in HookRecord
    BY DEF States
  <2>3. /\ k1 \in HookRecord /\ k1.query = s.hook[h].query
        /\ k1.cachedQuery = s.hook[h].cachedQuery /\ k1.cachedClient = s.hook[h].cachedClient
        /\ k1.shown = s.hook[h].shown
    BY <2>2, SubscribedHook
  <2>4. \/ r = s
        \/ r = [s EXCEPT !.hook = [s.hook EXCEPT ![h] = k1]]
    BY <1>3 DEF Notify, SetCachedQuery
  <2> HIDE DEF k1, r
  <2>5. /\ r \in States /\ r.effects = s.effects /\ r.notifications = s.notifications
        /\ \A k \in Hook : k # h => r.hook[k] = s.hook[k]
        /\ r.hook[h].query = s.hook[h].query /\ r.hook[h].shown = s.hook[h].shown
    <3>1. CASE r = s
      BY <3>1
    <3>2. CASE r = [s EXCEPT !.hook = [s.hook EXCEPT ![h] = k1]]
      <4>1. /\ r.effects = s.effects /\ r.notifications = s.notifications
            /\ r.hook = [s.hook EXCEPT ![h] = k1]
            /\ r = [hook |-> r.hook, effects |-> r.effects, notifications |-> r.notifications]
        BY <3>2 DEF States
      <4>2. /\ r.hook \in [Hook -> HookRecord] /\ r.hook[h] = k1
            /\ \A k \in Hook : k # h => r.hook[k] = s.hook[k]
        BY <2>3, <4>1 DEF States
      <4>3. r \in States
        BY <4>1, <4>2 DEF States
      <4> QED
        BY <2>3, <4>1, <4>2, <4>3
    <3> QED
      BY <2>4, <3>1, <3>2
  <2>6. Held(r) = Held(s) /\ \A k \in Hook \ unmounted : k # h
    BY <2>1, <2>5 DEF Held
  <2>7. Subscriptions(r, rest)
    BY <1>1, <1>3, <2>5, <2>6 DEF Subscriptions
  <2>8. Cached(r)
    BY <1>1, <1>3, <2>1, <2>5 DEF Cached
  <2>9. \A k \in Hook : Shows(s, k, v) => Shows(r, k, v)
    BY <2>5 DEF Shows
  <2> QED
    BY <1>3, <2>5, <2>7, <2>8, <2>9 DEF Called, r
<1> QED
  BY <1>2, <1>3

(* The callbacks are called one after the other.                           *)
Unheard == [State EXCEPT !.notifications = <<>>]

IsRound(r, v) ==
  /\ r[0] = Unheard
  /\ Notified(v) = r[Len(notifications)]
  /\ \A k \in 1..Len(notifications) : r[k] = Notify(r[k - 1], notifications[k], v)

LEMMA NotifiedRun ==
  ASSUME NEW v, notifications \in Seq(Hook)
  PROVE  \E r : IsRound(r, v)
<1> DEFINE n == Len(notifications)
           Step(k, f) == [s \in SUBSET (1..k) |->
                            IF s = {} THEN Unheard
                            ELSE Notify(f[s \ {Max(s)}], notifications[Max(s)], v)]
           HasFold(k) == \E f : f = Step(k, f)
           S == {k \in Nat : HasFold(k)}
           fold == CHOOSE f : f = Step(n, f)
           r == [k \in 0..n |-> fold[1..k]]
<1>1. n \in Nat /\ DOMAIN notifications = 1..n
  OBVIOUS
<1>2. Notified(v) = fold[1..n]
  BY <1>1 DEF Notified, FoldLeft, MapThenFoldSet, Unheard
<1> HIDE DEF n, HasFold
<1>3. HasFold(0)
  <2> DEFINE g == [s \in SUBSET (1..0) |-> Unheard]
  <2>1. \A s \in SUBSET (1..0) : s = {}
    OBVIOUS
  <2>2. g = Step(0, g)
    BY <2>1
  <2> QED
    BY <2>2 DEF HasFold
<1>4. ASSUME NEW k \in Nat, HasFold(k) PROVE HasFold(k + 1)
  <2>1. PICK g : g = Step(k, g)
    BY <1>4 DEF HasFold
  <2> DEFINE h == [s \in SUBSET (1..k + 1) |->
                     IF k + 1 \in s THEN Notify(g[s \ {k + 1}], notifications[k + 1], v)
                     ELSE g[s]]
  <2>2. \A s \in SUBSET (1..k) :
          g[s] = IF s = {} THEN Unheard
                 ELSE Notify(g[s \ {Max(s)}], notifications[Max(s)], v)
    BY <2>1
  <2>3. ASSUME NEW s \in SUBSET (1..k + 1)
        PROVE  /\ k + 1 \in s => Max(s) = k + 1 /\ s \ {k + 1} \in SUBSET (1..k)
               /\ k + 1 \notin s => s \in SUBSET (1..k)
    BY <1>4, MaxWithLast
  <2>4. ASSUME NEW s \in SUBSET (1..k + 1)
        PROVE  h[s] = IF s = {} THEN Unheard
                      ELSE Notify(h[s \ {Max(s)}], notifications[Max(s)], v)
    <3>1. \A t \in SUBSET (1..k) : h[t] = g[t]
      <4>1. \A t \in SUBSET (1..k) : t \in SUBSET (1..k + 1) /\ k + 1 \notin t
        OBVIOUS
      <4> QED
        BY <4>1
    <3>2. CASE k + 1 \in s
      <4>1. h[s] = Notify(g[s \ {k + 1}], notifications[k + 1], v)
        BY <3>2
      <4>2. h[s \ {k + 1}] = g[s \ {k + 1}]
        BY <2>3, <3>1, <3>2
      <4> HIDE DEF h
      <4> QED
        BY <2>3, <3>2, <4>1, <4>2
    <3>3. CASE k + 1 \notin s
      <4>1. s \in SUBSET (1..k) /\ h[s] = g[s]
        BY <2>3, <3>1, <3>3
      <4>2. h[s \ {Max(s)}] = g[s \ {Max(s)}]
        BY <3>1, <4>1
      <4> HIDE DEF h
      <4> QED
        BY <2>2, <4>1, <4>2
    <3> QED
      BY <3>2, <3>3
  <2>5. h = Step(k + 1, h)
    <3>1. h = [s \in SUBSET (1..k + 1) |-> h[s]]
      OBVIOUS
    <3> HIDE DEF h
    <3> QED
      BY <2>4, <3>1
  <2> QED
    BY <2>5 DEF HasFold
<1>5. HasFold(n)
  <2>1. 0 \in S /\ \A k \in Nat : k \in S => k + 1 \in S
    BY <1>3, <1>4
  <2> HIDE DEF S
  <2>2. n \in S
    BY <1>1, <2>1, NatInductionOnSet
  <2> QED
    BY <2>2 DEF S
<1> HIDE DEF Step
<1>6. fold = Step(n, fold)
  BY <1>5 DEF HasFold
<1> HIDE DEF fold
<1>7. r[0] = Unheard
  <2>1. 1..0 = {} /\ 0 \in 0..n
    BY <1>1
  <2> QED
    BY <1>6, <2>1 DEF Step
<1>8. ASSUME NEW k \in 1..n
      PROVE  r[k] = Notify(r[k - 1], notifications[k], v)
  <2>1. k \in Nat \ {0} /\ 1..k \in SUBSET (1..n) /\ k \in 0..n /\ k - 1 \in 0..n
    BY <1>1
  <2>2. Max(1..k) = k /\ (1..k) \ {k} = 1..k - 1 /\ 1..k # {}
    BY <2>1, MaxOfInitial
  <2>3. r[k] = fold[1..k] /\ r[k - 1] = fold[1..k - 1]
    BY <2>1
  <2> HIDE DEF r
  <2>4. fold[1..k] = Notify(fold[(1..k) \ {Max(1..k)}], notifications[Max(1..k)], v)
    BY <1>6, <2>1, <2>2, Zenon DEF Step
  <2> QED
    BY <2>2, <2>3, <2>4
<1>10. Notified(v) = r[n]
  BY <1>1, <1>2
<1> HIDE DEF r
<1> QED
  BY <1>7, <1>8, <1>10 DEF n, IsRound

(* The hooks whose callbacks are due once k have been called.              *)
Due(k) == {notifications[j] : j \in k + 1..Len(notifications)}

(* After a notification, whoever was subscribed shows the new version.     *)
LEMMA NotifiedAll ==
  ASSUME HookInv, client = TRUE, NEW v \in Int
  PROVE  LET r == Notified(v) IN
         /\ r \in States /\ Subscriptions(r, {}) /\ Cached(r)
         /\ \A h \in tree \cap Held(State) : Shows(r, h, v)
<1> DEFINE n == Len(notifications)
<1>1. /\ PageType /\ State \in States /\ Subscriptions(State, {}) /\ Cached(State)
      /\ tree \subseteq Hook
  BY DEF HookInv, PageType
<1>2. /\ notifications \in Seq(Hook) /\ n \in Nat
      /\ \A i \in 1..n : notifications[i] \in Hook
      /\ State.notifications = notifications
  BY <1>1 DEF State, States
<1>3. PICK r : IsRound(r, v)
  BY <1>2, NotifiedRun
<1> HIDE DEF n
<1>4. Due(n) = {} /\ Due(0) = Held(State)
  <2>1. DOMAIN notifications = 1..n /\ 0 + 1 = 1 /\ n + 1..n = {}
    BY <1>2 DEF n
  <2> QED
    BY <1>2, <2>1 DEF Due, Held, ToSet, n
<1>5. ASSUME NEW k \in 0..n - 1
      PROVE  /\ Due(k) \in SUBSET Hook /\ Due(k + 1) \in SUBSET Hook
             /\ Due(k) = Due(k + 1) \cup {notifications[k + 1]}
             /\ notifications[k + 1] \notin unmounted =>
                  notifications[k + 1] \notin Due(k + 1)
  <2>1. k + 1..n = {k + 1} \cup ((k + 1) + 1..n) /\ k + 1 \in 1..n
    BY <1>2
  <2>2. \A j \in (k + 1) + 1..n : j \in 1..n /\ j # k + 1
    BY <1>2
  <2>3. notifications[k + 1] \notin unmounted => notifications[k + 1] \notin Due(k + 1)
    BY <1>1, <1>2, <2>1, <2>2 DEF Due, Subscriptions, n
  <2>4. Due(k) = Due(k + 1) \cup {notifications[k + 1]}
    BY <2>1 DEF Due, n
  <2>5. Due(k + 1) \in SUBSET Hook
    BY <1>2, <2>2 DEF Due, n
  <2> QED
    BY <1>2, <2>1, <2>3, <2>4, <2>5
<1> DEFINE Good(k) == /\ r[k] \in States /\ Subscriptions(r[k], Due(k)) /\ Cached(r[k])
                      /\ \A i \in 1..k : notifications[i] \in tree => Shows(r[k], notifications[i], v)
           S == {k \in Nat : k <= n => Good(k)}
<1> HIDE DEF Good
<1>6. 0 \in S
  <2> SUFFICES Good(0)
    OBVIOUS
  <2>1. /\ Unheard.hook = State.hook /\ Unheard.effects = State.effects
        /\ Unheard.notifications = <<>> /\ Unheard \in States
    <3>1. <<>> \in Seq(Hook)
      OBVIOUS
    <3>2. Unheard = [hook |-> State.hook, effects |-> State.effects, notifications |-> <<>>]
      BY <1>1 DEF Unheard, States
    <3> HIDE DEF Unheard
    <3> QED
      BY <1>1, <3>1, <3>2 DEF States
  <2>2. Held(Unheard) = {} /\ Len(<<>>) = 0
    BY <2>1 DEF Held, ToSet
  <2>3. Subscriptions(Unheard, Due(0))
    BY <1>1, <1>4, <2>1, <2>2 DEF Subscriptions
  <2>4. Cached(Unheard)
    BY <1>1, <2>1 DEF Cached
  <2> QED
    BY <1>3, <2>1, <2>3, <2>4 DEF Good, IsRound
<1>7. ASSUME NEW k \in Nat, k \in S PROVE k + 1 \in S
  <2>1. SUFFICES ASSUME k + 1 <= n PROVE Good(k + 1)
    OBVIOUS
  <2>2. k \in 0..n - 1 /\ k + 1 \in 1..n /\ (k + 1) - 1 = k /\ k <= n
    BY <1>2, <2>1
  <2>3. Good(k)
    BY <1>7, <2>2
  <2> DEFINE h == notifications[k + 1]
  <2>4. r[k + 1] = Notify(r[k], h, v)
    BY <1>3, <2>2 DEF IsRound, n
  <2>5. h \in Hook
    BY <1>2, <2>2
  <2>6. /\ Due(k) \in SUBSET Hook /\ Due(k + 1) \in SUBSET Hook
        /\ Due(k) = Due(k + 1) \cup {h} /\ (h \notin unmounted => h \notin Due(k + 1))
    BY <1>5, <2>2
  <2>7. r[k] \in States /\ Subscriptions(r[k], Due(k)) /\ Cached(r[k])
    BY <2>3 DEF Good
  <2> HIDE DEF h
  <2>8. Called(r[k], h, v, Due(k + 1), r[k + 1])
    BY <1>1, <2>4, <2>5, <2>6, <2>7, NotifyStep
  <2>9. ASSUME NEW i \in 1..k + 1, notifications[i] \in tree
        PROVE  Shows(r[k + 1], notifications[i], v)
    <3>1. i \in 1..k \/ i = k + 1
      BY <1>7
    <3>2. CASE i \in 1..k
      BY <1>1, <2>3, <2>8, <2>9, <3>2 DEF Good, Called
    <3>3. CASE i = k + 1
      BY <2>8, <2>9, <3>3 DEF Called, h
    <3> QED
      BY <3>1, <3>2, <3>3
  <2> QED
    BY <2>8, <2>9 DEF Called, Good
<1>8. Good(n)
  <2> HIDE DEF S
  <2>1. n \in S
    BY <1>2, <1>6, <1>7, NatInductionOnSet
  <2> QED
    BY <1>2, <2>1 DEF S
<1>9. Notified(v) = r[n]
  BY <1>3 DEF IsRound, n
<1>10. \A h \in tree \cap Held(State) : Shows(r[n], h, v)
  <2>1. \A h \in Held(State) : \E i \in 1..n : notifications[i] = h
    BY <1>2 DEF Held, ToSet, n
  <2> QED
    BY <1>8, <2>1 DEF Good
<1> QED
  BY <1>4, <1>8, <1>9, <1>10 DEF Good

LEMMA HandleLastStep ==
  ASSUME HookInv, HandleLast
  PROVE  HookInv'
<1> DEFINE v == version'
           r == Notified(v)
<1>1. /\ client \in BOOLEAN /\ version \in Int /\ tree \subseteq Hook /\ PageType
      /\ hasty \in BOOLEAN
  BY DEF HookInv, PageType
<1>2. /\ client = TRUE /\ (hasty = FALSE => effects = {})
      /\ version' \in Int /\ processingQueue' = FALSE /\ Becomes(Notified(version'))
      /\ UNCHANGED <<client, tree, unmounted, hasty>>
  BY <1>1 DEF HandleLast, MayArrive, Trapped
<1>3. /\ r \in States /\ Subscriptions(r, {}) /\ Cached(r)
      /\ \A h \in tree \cap Held(State) : Shows(r, h, v)
  BY <1>2, NotifiedAll
<1>4. State' = r
  BY <1>2, <1>3, BecomesState
<1> HIDE DEF r
<1>5. PageType'
  BY <1>1, <1>2, <1>3, <1>4 DEF PageType
<1>6. Held(State)' = Held(r)
  BY <1>4 DEF Held
<1>7. Subscriptions(State, {})'
  BY <1>2, <1>3, <1>4, <1>6 DEF Subscriptions
<1>8. Cached(State)'
  BY <1>2, <1>3, <1>4 DEF Cached
<1>9. UpToDate'
  <2>1. SUFFICES ASSUME hasty = FALSE, NEW h \in tree
                 PROVE  hook'[h].shown = Answer(hook'[h].query, client, version')
    BY <1>1, <1>2 DEF UpToDate, AllShown, Result
  <2>2. hook' = r.hook
    BY <1>4 DEF State
  <2>3. h \in tree \ State.effects /\ h \in Hook
    BY <1>1, <1>2, <2>1 DEF State
  <2>4. h \in Held(State)
    BY <1>1, <1>2, <2>3 DEF HookInv, PageType, Subscriptions
  <2> QED
    BY <1>2, <1>3, <2>2, <2>4 DEF Shows
<1> QED
  BY <1>5, <1>7, <1>8, <1>9 DEF HookInv

LEMMA HandleAndWaitStep ==
  ASSUME HookInv, HandleAndWait
  PROVE  HookInv'
<1>1. /\ State' = State /\ version' = version + 1 /\ processingQueue' = TRUE
      /\ UNCHANGED <<client, tree, unmounted, hasty>>
  BY DEF HandleAndWait, State
<1>2. PageType'
  BY <1>1 DEF HookInv, PageType
<1>3. Held(State)' = Held(State)
  BY <1>1 DEF Held
<1>4. Subscriptions(State, {})'
  BY <1>1, <1>3 DEF HookInv, Subscriptions
<1>5. Cached(State)'
  BY <1>1 DEF HookInv, Cached
<1> QED
  BY <1>1, <1>2, <1>4, <1>5 DEF HookInv, UpToDate
-----------------------------------------------------------------------------
LEMMA HookInitCorrect == Init => HookInv
<1> SUFFICES ASSUME Init PROVE HookInv
  OBVIOUS
<1>1. Fresh \in HookRecord /\ Fresh.mounted = TRUE /\ Fresh.subscribed = FALSE
      /\ Fresh.cachedQuery = Null
  BY DEF Fresh, HookRecord, Loading
<1>2. /\ State.hook = [h \in Hook |-> Fresh] /\ State.effects = {} /\ State.notifications = <<>>
      /\ State = [hook |-> [h \in Hook |-> Fresh], effects |-> {}, notifications |-> <<>>]
      /\ tree = {} /\ unmounted = {} /\ client = FALSE /\ processingQueue = FALSE /\ version = 0
  BY DEF Init, State
<1>3. State \in States
  BY <1>1, <1>2 DEF States
<1>4. PageType
  <2>1. IsFiniteSet({})
    BY FS_EmptySet
  <2> QED
    <3>1. hasty \in BOOLEAN
      BY HastinessAssumption DEF Init
    <3>2. tree \subseteq Hook /\ unmounted \subseteq Hook /\ tree \cap unmounted = {}
      BY <1>2
    <3>3. client \in BOOLEAN /\ processingQueue \in BOOLEAN /\ version \in Int
      <4>1. client = FALSE /\ processingQueue = FALSE /\ version = 0
        BY Zenon DEF Init
      <4>2. 0 \in Int /\ FALSE \in BOOLEAN
        OBVIOUS
      <4> QED
        BY <4>1, <4>2, Zenon
    <3>4. IsFiniteSet(tree)
      BY <2>1, Zenon DEF Init
    <3> QED
      BY <1>3, <3>1, <3>2, <3>3, <3>4 DEF PageType
<1>5. Held(State) = {}
  BY <1>2 DEF Held, ToSet
<1>6. Subscriptions(State, {})
  <2>1. \A h \in Hook : State.hook[h].mounted = TRUE /\ State.hook[h].subscribed # TRUE
    BY <1>1, <1>2
  <2>2. State.notifications = <<>> /\ 1..Len(<<>>) = {}
    BY <1>2
  <2>3. tree = {} /\ State.effects = {}
    BY <1>2
  <2> QED
    BY <1>5, <2>1, <2>2, <2>3 DEF Subscriptions
<1>7. Cached(State) /\ UpToDate
  BY <1>1, <1>2 DEF Cached, UpToDate, AllShown
<1> QED
  BY <1>4, <1>6, <1>7 DEF HookInv

LEMMA HookStep ==
  ASSUME HookInv, [Next]_vars
  PROVE  HookInv'
<1>1. ASSUME NEW h \in Hook, NEW q \in Query, Mount(h, q) PROVE HookInv'
  BY <1>1, RequeryStep DEF Mount
<1>2. ASSUME NEW h \in Hook, NEW q \in Query, ChangeQuery(h, q) PROVE HookInv'
  <2>1. h \in Hook \ unmounted /\ tree' = tree \cup {h}
    BY <1>2 DEF ChangeQuery, HookInv, PageType
  <2> QED
    BY <1>2, <2>1, RequeryStep DEF ChangeQuery
<1>3. ASSUME NEW h \in Hook, Unmount(h) PROVE HookInv'
  BY <1>3, UnmountStep
<1>4. CASE UNCHANGED vars
  <2>1. /\ State' = State
        /\ UNCHANGED <<client, version, processingQueue, tree, unmounted, hasty, hook>>
    BY <1>4 DEF vars, State
  <2>2. Held(State)' = Held(State)
    BY <2>1 DEF Held
  <2> QED
    BY <2>1, <2>2
    DEF HookInv, PageType, Subscriptions, Cached, UpToDate, AllShown, Result
<1> QED
  BY <1>1, <1>2, <1>3, <1>4, ClientReadyStep, EffectsStep, HandleLastStep, HandleAndWaitStep
  DEF Next

LEMMA HooksKept == MCSpec => []HookInv
<1>1. MCInit => HookInv
  BY HookInitCorrect DEF MCInit
<1>2. HookInv /\ [MCNext]_mcVars => HookInv'
  <2> SUFFICES ASSUME HookInv, [MCNext]_mcVars PROVE HookInv'
    OBVIOUS
  <2>1. [Next]_vars
    BY DEF MCNext, InHooks, InClient, mcVars
  <2> QED
    BY <2>1, HookStep
<1> QED
  BY <1>1, <1>2, PTL DEF MCSpec

(* A hook has one callback in the client exactly if it waits for one, and  *)
(* once its effects have run it waits for the next message (useQuery).     *)
THEOREM EveryHookIsHeard == MCSpec => []HearsOnce
<1>1. HookInv => HearsOnce
  <2> SUFFICES ASSUME HookInv PROVE HearsOnce
    OBVIOUS
  <2>1. /\ DOMAIN notifications = 1..Len(notifications)
        /\ State.notifications = notifications /\ State.hook = hook /\ State.effects = effects
        /\ Held(State) = ToSet(notifications) /\ tree \cap unmounted = {} /\ tree \subseteq Hook
        /\ \A h \in Hook : hook[h].subscribed \in BOOLEAN
        /\ client \in BOOLEAN
    BY DEF HookInv, PageType, State, States, Held, HookRecord
  <2>2. Subscriptions(State, {})
    BY DEF HookInv
  <2>3. \A i, j \in DOMAIN notifications :
          notifications[i] = notifications[j] /\ notifications[i] \notin unmounted => i = j
    BY <2>1, <2>2 DEF Subscriptions
  <2>4. \A h \in Hook \ unmounted : hook[h].subscribed <=> h \in ToSet(notifications)
    BY <2>1, <2>2 DEF Subscriptions
  <2>5. \A h \in tree \ effects : client => h \in ToSet(notifications)
    BY <2>1, <2>2 DEF Subscriptions
  <2> QED
    BY <2>3, <2>4, <2>5 DEF HearsOnce
<1> QED
  BY <1>1, HooksKept, PTL

(* If effects run before the next message arrives, then no hook shows      *)
(* anything older than the last notification, abort included.              *)
THEOREM ScreenIsCurrent == MCSpec => []UpToDate
<1>1. HookInv => UpToDate
  BY DEF HookInv
<1> QED
  BY <1>1, HooksKept, PTL
=============================================================================
