-------------------------- MODULE ReceiverProofs --------------------------
EXTENDS MCReceivers, StarterContract, FoldLemmas, FiniteSetTheorems
(***************************************************************************)
(* Proofs about the two receivers of the box, for every number of sockets, *)
(* every set of blocks of the provider and every bound of MCReceivers, and *)
(* about the tables of the contract whose actions they receive.            *)
(***************************************************************************)
-----------------------------------------------------------------------------
(* The SHiP receiver                                                       *)

(* The inductive invariant: `wsClient` is the one socket that is not lost, *)
(* which has been asked for blocks exactly if `requestedBlocks` says so.   *)
ShipType ==
  /\ wsClient \in Socket \cup {Ship!None}
  /\ state \in [Socket -> {"unused", "connecting", "open", "failed", "closed"}]
  /\ timers \in Nat

OnlyClient ==
  /\ \A s \in Socket : state[s] \in {"connecting", "open"} <=> s = wsClient
  /\ (\E s \in Socket : state[s] = "failed") => wsClient = Ship!None

OnlyGreeted ==
  /\ greeted = asked /\ greeted \subseteq Socket
  /\ \A s \in greeted : state[s] \notin {"unused", "connecting"}
  /\ requestedBlocks \in BOOLEAN /\ (requestedBlocks <=> wsClient \in greeted)
  /\ ended = FALSE

ShipInv == ShipType /\ OnlyClient /\ OnlyGreeted

LEMMA ShipInitCorrect == Ship!Init => ShipInv
<1> SUFFICES ASSUME Ship!Init PROVE ShipInv
  OBVIOUS
<1>1. ShipType
  BY DEF Ship!Init, ShipType
<1>2. OnlyClient
  BY NoneIsNoSocket DEF Ship!Init, OnlyClient
<1>3. OnlyGreeted
  BY DEF Ship!Init, OnlyGreeted
<1> QED
  BY <1>1, <1>2, <1>3 DEF ShipInv

(* What the loss of a socket does.                                         *)
LEMMA LossStep ==
  ASSUME ShipInv, NEW s \in Socket, NEW how \in {"failed", "closed"}, NEW times \in Nat,
         state[s] \in {"connecting", "open"} \/ (state[s] = "failed" /\ how = "closed"),
         state' = [state EXCEPT ![s] = how],
         Ship!disconnect(times), UNCHANGED <<greeted, asked, ended>>
  PROVE  ShipInv'
<1>1. /\ wsClient' = Ship!None /\ timers' = timers + times
      /\ requestedBlocks' = IF wsClient = Ship!None THEN requestedBlocks ELSE FALSE
  BY DEF Ship!disconnect
<1>2. ShipType'
  BY <1>1 DEF ShipInv, ShipType
<1>3. \A v \in Socket : state'[v] = IF v = s THEN how ELSE state[v]
  BY DEF ShipInv, ShipType
<1>4. OnlyClient'
  BY <1>1, <1>3, NoneIsNoSocket DEF ShipInv, OnlyClient
<1>5. OnlyGreeted'
  <2>2. greeted \subseteq Socket /\ Ship!None \notin greeted
    BY NoneIsNoSocket DEF ShipInv, OnlyGreeted
  <2>1. requestedBlocks' = FALSE
    <3>1. CASE wsClient = Ship!None
      BY <1>1, <3>1, <2>2 DEF ShipInv, OnlyGreeted
    <3>2. CASE wsClient # Ship!None
      BY <1>1, <3>2
    <3> QED
      BY <3>1, <3>2
  <2> QED
    BY <1>1, <1>3, <2>1, <2>2 DEF ShipInv, OnlyGreeted
<1> QED
  BY <1>2, <1>4, <1>5 DEF ShipInv

LEMMA ShipStep ==
  ASSUME Prompt, ShipInv, [Ship!Next]_shipVars
  PROVE  ShipInv'
<1>1. CASE Ship!connect
  <2>1. CASE wsClient # Ship!None
    BY <1>1, <2>1 DEF Ship!connect, ShipInv, ShipType, OnlyClient, OnlyGreeted
  <2>2. CASE wsClient = Ship!None
    <3>1. PICK s \in Socket : /\ state[s] = "unused"
                              /\ wsClient' = s
                              /\ state' = [state EXCEPT ![s] = "connecting"]
      BY <1>1, <2>2 DEF Ship!connect
    <3>2. /\ timers' = timers - 1 /\ timers > 0
          /\ UNCHANGED <<requestedBlocks, greeted, asked, ended>>
          /\ \A v \in Socket : state[v] # "failed"
      BY <1>1 DEF Ship!connect
    <3>3. \A v \in Socket : state'[v] = IF v = s THEN "connecting" ELSE state[v]
      BY <3>1 DEF ShipInv, ShipType
    <3>4. ShipType'
      BY <3>1, <3>2 DEF ShipInv, ShipType
    <3>5. OnlyClient'
      BY <2>2, <3>1, <3>2, <3>3, NoneIsNoSocket DEF ShipInv, OnlyClient
    <3>6. s \notin greeted /\ Ship!None \notin greeted
      BY <3>1, NoneIsNoSocket DEF ShipInv, OnlyGreeted
    <3>7. OnlyGreeted'
      BY <2>2, <3>1, <3>2, <3>3, <3>6 DEF ShipInv, OnlyGreeted
    <3> QED
      BY <3>4, <3>5, <3>7 DEF ShipInv
  <2> QED
    BY <2>1, <2>2
<1>2. ASSUME NEW s \in Socket, Ship!open(s) PROVE ShipInv'
  <2>1. /\ state[s] = "connecting" /\ state' = [state EXCEPT ![s] = "open"]
        /\ UNCHANGED <<wsClient, requestedBlocks, timers, greeted, asked, ended>>
    BY <1>2 DEF Ship!open
  <2>2. \A v \in Socket : state'[v] = IF v = s THEN "open" ELSE state[v]
    BY <2>1 DEF ShipInv, ShipType
  <2>3. ShipType'
    BY <2>1 DEF ShipInv, ShipType
  <2>4. OnlyClient'
    BY <2>1, <2>2 DEF ShipInv, OnlyClient
  <2>5. OnlyGreeted'
    BY <2>1, <2>2 DEF ShipInv, OnlyGreeted
  <2> QED
    BY <2>3, <2>4, <2>5 DEF ShipInv
<1>3. ASSUME NEW s \in Socket, Ship!ConnectFails(s) PROVE ShipInv'
  BY <1>3, LossStep DEF Ship!ConnectFails, Ship!Lost
<1>4. ASSUME NEW s \in Socket, Ship!error(s) PROVE ShipInv'
  BY <1>4, LossStep DEF Ship!error, Ship!Lost
<1>5. ASSUME NEW s \in Socket, Ship!close(s) PROVE ShipInv'
  BY <1>5, LossStep DEF Ship!close, Ship!Lost
<1>6. ASSUME NEW s \in Socket, Ship!closeAfterError(s) PROVE ShipInv'
  BY <1>6, LossStep DEF Ship!closeAfterError
<1>7. ASSUME NEW s \in Socket, Ship!onMessage(s) PROVE ShipInv'
  <2>1. /\ state[s] = "open" /\ greeted' = greeted \cup {s}
        /\ s \in greeted => s \in asked
        /\ UNCHANGED <<wsClient, timers, state>>
    BY <1>7 DEF Ship!onMessage
  <2>2. wsClient = s /\ s # Ship!None
    BY <2>1, NoneIsNoSocket DEF ShipInv, OnlyClient
  <2>3. ShipType' /\ OnlyClient'
    BY <2>1 DEF ShipInv, ShipType, OnlyClient
  <2>4. CASE s \in greeted
    <3>1. requestedBlocks
      BY <2>2, <2>4 DEF ShipInv, OnlyGreeted
    <3>2. Ship!Push(s \in greeted)
      BY <1>7, <3>1 DEF Ship!onMessage
    <3>3. ended' = FALSE /\ UNCHANGED <<requestedBlocks, asked>> /\ greeted' = greeted
      BY <2>1, <2>4, <3>2 DEF Ship!Push
    <3> QED
      BY <2>1, <2>3, <3>3 DEF ShipInv, OnlyGreeted
  <2>5. CASE s \notin greeted
    <3>1. ~requestedBlocks
      BY <2>2, <2>5 DEF ShipInv, OnlyGreeted
    <3>2. Ship!Request
      BY <1>7, <3>1 DEF Ship!onMessage
    <3>3. requestedBlocks' = TRUE /\ asked' = asked \cup {s} /\ UNCHANGED ended
      BY <2>1, <2>2, <3>2 DEF Ship!Request
    <3> QED
      BY <2>1, <2>2, <2>3, <3>3 DEF ShipInv, OnlyGreeted
  <2> QED
    BY <2>4, <2>5
<1>8. CASE UNCHANGED shipVars
  BY <1>8 DEF shipVars, ShipInv, ShipType, OnlyClient, OnlyGreeted
<1> QED
  BY <1>1, <1>2, <1>3, <1>4, <1>5, <1>6, <1>7, <1>8 DEF Ship!Next

LEMMA ShipKept == ASSUME Prompt PROVE MCSpec => []ShipInv
<1>1. MCInit => ShipInv
  BY ShipInitCorrect DEF MCInit
<1>2. ShipInv /\ [MCNext]_mcVars => ShipInv'
  <2>1. SUFFICES ASSUME ShipInv, [MCNext]_mcVars PROVE ShipInv'
    OBVIOUS
  <2>2. [Ship!Next]_shipVars
    BY <2>1 DEF MCNext, UsesDfuse, UsesShip, mcVars
  <2> QED
    BY <2>1, <2>2, ShipStep
<1> QED
  BY <1>1, <1>2, PTL DEF MCSpec

(* One connection at a time, whatever timers and late events do.           *)
THEOREM OneConnectionAtATime == ASSUME Prompt PROVE MCSpec => []OneConnection
<1>1. ShipInv => OneConnection
  BY DEF ShipInv, OnlyClient, OneConnection, Ship!OneConnection, Ship!Live
<1> QED
  BY <1>1, ShipKept, PTL

(* Every connection is asked for blocks when it greets.                    *)
THEOREM AskedAfterGreeting == ASSUME Prompt PROVE MCSpec => []AskedWhenGreeted
<1>1. ShipInv => AskedWhenGreeted
  BY DEF ShipInv, OnlyGreeted, AskedWhenGreeted, Ship!AskedWhenGreeted, Ship!Live
<1> QED
  BY <1>1, ShipKept, PTL
-----------------------------------------------------------------------------
(* The dfuse receiver                                                      *)

Fork == {b.fork : b \in EosioBlock}
Action == UNION {Range(b.actions) : b \in EosioBlock}

(* A block of the storage may be cut short, a marker has no actions.       *)
AnyBlock == [num : Nat, fork : Fork, actions : Seq(Action)]
MarkerBlock == [num : Nat, fork : {0}, actions : {<<>>}]

Chain == [blocks : Seq(AnyBlock), final : Nat]
Cursor == [blocks : Seq(EosioBlock), trx : Nat, undoing : BOOLEAN]
Trx == [undo : BOOLEAN, block : EosioBlock \cup MarkerBlock, trx : Nat,
        cursor : Cursor, irreversibleBlockNum : Nat]
Log == [chain : Chain, unpushed : Seq(Trx)]

Sorted(blocks) ==
  \A i, j \in 1..Len(blocks) : i < j => blocks[i].num < blocks[j].num

(* A cursor is before the first block, or in a block.                      *)
CursorOk(p) ==
  /\ p \in Cursor
  /\ Sorted(p.blocks)
  /\ \A i \in 1..Len(p.blocks) : p.blocks[i].num > 0 /\ p.blocks[i].actions # <<>>
  /\ p.blocks = <<>> => p.trx = 0 /\ p.undoing = FALSE
  /\ p.blocks # <<>> => p.trx \in 1..AllTrx(p.blocks)

ProviderInv == final \in Seq(EosioBlock) /\ Sorted(final) /\ CursorOk(at)

(* The final blocks of c are the provider's.                               *)
FinalIn(c, fin) ==
  /\ c.final <= Len(c.blocks) /\ c.final <= Len(fin)
  /\ \A i \in 1..c.final : c.blocks[i] = fin[i]

(* The blocks up to number n are the provider's final ones.                *)
Covers(blocks, n, fin) ==
  \A i \in 1..Len(blocks) :
    blocks[i].num <= n => i <= Len(fin) /\ blocks[i] = fin[i]

Flushed(s, p) ==
  s.unpushed = <<>> /\ s.chain.blocks = p.blocks /\ Complete(p)

(* The last block of p is being gathered,                                  *)
Gathering(s, p, fin) ==
  /\ s.unpushed # <<>> /\ p.blocks # <<>> /\ p.undoing = FALSE
  /\ Len(s.unpushed) = p.trx
  /\ \A i \in 1..p.trx : /\ s.unpushed[i].undo = FALSE
                         /\ s.unpushed[i].block = Last(p.blocks)
                         /\ s.unpushed[i].trx = i
  /\ s.chain.blocks = Front(p.blocks)
  /\ Covers(p.blocks, Last(s.unpushed).irreversibleBlockNum, fin)

(* or its undo is, which leaves `rest`.                                    *)
Undoing(s, rest) ==
  /\ s.unpushed # <<>> /\ Last(s.unpushed).undo = TRUE
  /\ s.chain.final <= Len(rest)
  /\ \E b \in {Last(s.chain.blocks)} :
       /\ s.chain.blocks = Append(rest, b)
       /\ b.num = Last(s.unpushed).block.num
       /\ b.fork = Last(s.unpushed).block.fork
       /\ \A i \in 1..Len(rest) : rest[i].num < b.num

(* What a log that has taken everything up to the cursor p looks like.     *)
Follows(s, p, fin) ==
  /\ s \in Log /\ CursorOk(p) /\ FinalIn(s.chain, fin)
  /\ \/ Flushed(s, p)
     \/ Gathering(s, p, fin)
     \/ /\ p.undoing = TRUE /\ Undoing(s, Front(p.blocks))
        /\ Last(s.unpushed).block = Last(p.blocks)
     \/ Complete(p) /\ Undoing(s, p.blocks)

(* The log that gathers a group has its last transaction.                  *)
Joined(s, trxs) ==
  IF trxs # <<>> /\ HasTrace(Last(trxs))
  THEN s.unpushed # <<>> /\ Last(s.unpushed) = Last(trxs)
  ELSE s.unpushed = <<>>

Logged(s, trxs, fin) ==
  /\ trxs \in Seq(Trx)
  /\ s = Replayed(trxs)
  /\ Follows(s, ResumeAt(trxs), fin)
  /\ Joined(s, trxs)

Running == stream = TRUE \/ retry = TRUE

(* d has all final blocks of c.                                            *)
NotAhead(c, d) ==
  /\ c.final <= d.final
  /\ \A i \in 1..c.final : i <= Len(d.blocks) /\ c.blocks[i] = d.blocks[i]

ProcessInv ==
  /\ stream \in BOOLEAN /\ retry \in BOOLEAN /\ ~(stream /\ retry)
  /\ Running => up /\ Logged(Current, jsonTransactions, final)
  /\ stream => at = ResumeAt(jsonTransactions)

FileInv ==
  /\ Logged(Replayed(jsonFile), jsonFile, final)
  /\ Running => NotAhead(Replayed(jsonFile).chain, box)
  /\ stateFile # Null =>
       /\ stateFile \in Chain /\ stateFile.final <= Len(stateFile.blocks)
       /\ NotAhead(stateFile, Replayed(jsonFile).chain)

DfuseInv == ProviderInv /\ ProcessInv /\ FileInv
-----------------------------------------------------------------------------
(* What a new process makes of the file.                                   *)

Fresh == [chain |-> Storage!Empty, unpushed |-> <<>>]

(* The replay runs through one log per transaction.                        *)
IsReplay(r, trxs) ==
  /\ r[0] = Fresh
  /\ Replayed(trxs) = r[Len(trxs)]
  /\ \A k \in 1..Len(trxs) : r[k] = pushTrx(r[k - 1], trxs[k])

LEMMA ReplayedRun ==
  ASSUME NEW trxs, Len(trxs) \in Nat, DOMAIN trxs = 1..Len(trxs)
  PROVE  \E r : IsReplay(r, trxs)
<1> DEFINE n == Len(trxs)
           One(s, trx) == CHOOSE q \in {pushTrx(v, trx) : v \in {s}} : TRUE
           Unfold(k, f) == [s \in SUBSET (1..k) |->
                              IF s = {} THEN Fresh
                              ELSE One(f[s \ {Max(s)}], trxs[Max(s)])]
           HasFold(k) == \E f : f = Unfold(k, f)
           S == {k \in Nat : HasFold(k)}
           fold == CHOOSE f : f = Unfold(n, f)
           r == [k \in 0..n |-> fold[1..k]]
<1>1. n \in Nat /\ DOMAIN trxs = 1..n
  OBVIOUS
<1>2. Replayed(trxs) = fold[1..n]
  BY <1>1 DEF Replayed, FoldLeft, MapThenFoldSet, Fresh
<1>9. \A s, trx : One(s, trx) = pushTrx(s, trx)
  OBVIOUS
<1> HIDE DEF n, HasFold, One
<1>3. HasFold(0)
  <2> DEFINE g == [s \in SUBSET (1..0) |-> Fresh]
  <2>1. \A s \in SUBSET (1..0) : s = {}
    OBVIOUS
  <2>2. g = Unfold(0, g)
    BY <2>1
  <2> QED
    BY <2>2 DEF HasFold
<1>4. ASSUME NEW k \in Nat, HasFold(k) PROVE HasFold(k + 1)
  <2>1. PICK g : g = Unfold(k, g)
    BY <1>4 DEF HasFold
  <2> DEFINE h == [s \in SUBSET (1..k + 1) |->
                     IF k + 1 \in s THEN One(g[s \ {k + 1}], trxs[k + 1]) ELSE g[s]]
  <2>2. \A s \in SUBSET (1..k) :
          g[s] = IF s = {} THEN Fresh ELSE One(g[s \ {Max(s)}], trxs[Max(s)])
    BY <2>1
  <2>3. ASSUME NEW s \in SUBSET (1..k + 1)
        PROVE  /\ k + 1 \in s => Max(s) = k + 1 /\ s \ {k + 1} \in SUBSET (1..k)
               /\ k + 1 \notin s => s \in SUBSET (1..k)
    <3>1. k + 1 \in s => Max(s) = k + 1
      <4>1. SUFFICES ASSUME k + 1 \in s PROVE Max(s) = k + 1
        OBVIOUS
      <4>2. \A x \in s : x \in 1..k + 1
        OBVIOUS
      <4>3. \A x \in s : (\A y \in s : x >= y) => x = k + 1
        BY <4>1, <4>2
      <4>4. \A y \in s : k + 1 >= y
        BY <4>2
      <4> QED
        BY <4>1, <4>3, <4>4 DEF Max
    <3> QED
      BY <3>1
  <2>4. ASSUME NEW s \in SUBSET (1..k + 1)
        PROVE  h[s] = IF s = {} THEN Fresh
                      ELSE One(h[s \ {Max(s)}], trxs[Max(s)])
    <3>1. \A v \in SUBSET (1..k) : h[v] = g[v]
      <4>1. \A v \in SUBSET (1..k) : v \in SUBSET (1..k + 1) /\ k + 1 \notin v
        OBVIOUS
      <4> QED
        BY <4>1
    <3>2. CASE k + 1 \in s
      <4>1. h[s] = One(g[s \ {k + 1}], trxs[k + 1])
        BY <3>2
      <4>2. h[s \ {k + 1}] = g[s \ {k + 1}]
        BY <2>3, <3>1, <3>2
      <4> HIDE DEF h
      <4> QED
        BY <2>3, <3>2, <4>1, <4>2
    <3>3. CASE k + 1 \notin s
      <4>1. s \in SUBSET (1..k) /\ h[s] = g[s]
        BY <2>3, <3>1, <3>3
      <4>2. h[s \ {Max(s)}] = g[s \ {Max(s)}]
        BY <3>1, <4>1
      <4> HIDE DEF h
      <4> QED
        BY <2>2, <4>1, <4>2
    <3> QED
      BY <3>2, <3>3
  <2>5. h = Unfold(k + 1, h)
    <3>1. h = [s \in SUBSET (1..k + 1) |-> h[s]]
      OBVIOUS
    <3> HIDE DEF h
    <3> QED
      BY <2>4, <3>1
  <2> QED
    BY <2>5 DEF HasFold
<1>5. HasFold(n)
  <2>1. 0 \in S /\ \A k \in Nat : k \in S => k + 1 \in S
    BY <1>3, <1>4
  <2> HIDE DEF S
  <2>2. n \in S
    BY <1>1, <2>1, NatInductionOnSet
  <2> QED
    BY <2>2 DEF S
<1> HIDE DEF Unfold
<1>6. fold = Unfold(n, fold)
  BY <1>5 DEF HasFold
<1> HIDE DEF fold
<1>7. r[0] = Fresh
  <2>1. 1..0 = {} /\ 0 \in 0..n
    BY <1>1
  <2> QED
    BY <1>6, <2>1 DEF Unfold
<1>8. ASSUME NEW k \in 1..n
      PROVE  r[k] = pushTrx(r[k - 1], trxs[k])
  <2>1. k \in Nat \ {0} /\ 1..k \in SUBSET (1..n) /\ k \in 0..n /\ k - 1 \in 0..n
    BY <1>1
  <2>2. Max(1..k) = k /\ (1..k) \ {k} = 1..k - 1 /\ 1..k # {}
    BY <2>1, MaxOfInitial
  <2>3. r[k] = fold[1..k] /\ r[k - 1] = fold[1..k - 1]
    BY <2>1
  <2> HIDE DEF r
  <2>4. fold[1..k] = One(fold[(1..k) \ {Max(1..k)}], trxs[Max(1..k)])
    BY <1>6, <2>1, <2>2, Zenon DEF Unfold
  <2>5. r[k] = One(r[k - 1], trxs[k])
    BY <2>2, <2>3, <2>4
  <2> QED
    BY <1>9, <2>5
<1>10. Replayed(trxs) = r[n]
  BY <1>1, <1>2
<1> HIDE DEF r
<1> QED
  BY <1>7, <1>8, <1>10 DEF n, IsReplay

LEMMA ReplayedEmpty == Replayed(<<>>) = Fresh
<1>1. Len(<<>>) = 0 /\ DOMAIN <<>> = 1..0
  OBVIOUS
<1>2. PICK r : IsReplay(r, <<>>)
  BY <1>1, ReplayedRun
<1> QED
  BY <1>1, <1>2 DEF IsReplay

LEMMA ReplayedAppend ==
  ASSUME NEW trxs \in Seq(Trx), NEW trx \in Trx
  PROVE  Replayed(Append(trxs, trx)) = pushTrx(Replayed(trxs), trx)
<1> DEFINE n == Len(trxs)
           longer == Append(trxs, trx)
<1>1. /\ n \in Nat /\ DOMAIN trxs = 1..n
      /\ longer \in Seq(Trx) /\ Len(longer) = n + 1 /\ DOMAIN longer = 1..n + 1
      /\ longer[n + 1] = trx
      /\ \A k \in 1..n : longer[k] = trxs[k]
  OBVIOUS
<1>2. PICK r : IsReplay(r, trxs)
  BY <1>1, ReplayedRun
<1>3. PICK q : IsReplay(q, longer)
  <2> HIDE DEF longer
  <2> QED
    BY <1>1, ReplayedRun
<1> HIDE DEF n, longer
<1>4. r[0] = q[0]
  BY <1>2, <1>3 DEF IsReplay
<1>5. \A k \in 1..n : r[k - 1] = q[k - 1] => r[k] = q[k]
  <2>1. \A k \in 1..n : k \in 1..n + 1
    BY <1>1
  <2> QED
    BY <1>1, <1>2, <1>3, <2>1 DEF IsReplay, n
<1>6. r[n] = q[n]
  <2>1. \A k \in 0..n : r[k] = q[k]
    <3>1. n \in Nat
      BY <1>1
    <3>2. \A r1, r2 :
            r1[0] = r2[0] /\ (\A k \in 1..n : r1[k - 1] = r2[k - 1] => r1[k] = r2[k])
              => \A k \in 0..n : r1[k] = r2[k]
      BY <3>1, SameRun, Zenon
    <3> QED
      BY <1>4, <1>5, <3>2
  <2> QED
    BY <1>1, <2>1
<1>7. q[n + 1] = pushTrx(q[n], trx)
  <2>1. n + 1 \in 1..Len(longer) /\ (n + 1) - 1 = n
    BY <1>1
  <2> QED
    BY <1>1, <1>3, <2>1 DEF IsReplay
<1>8. Replayed(longer) = q[n + 1] /\ Replayed(trxs) = r[n]
  BY <1>1, <1>2, <1>3 DEF IsReplay, n
<1> QED
  BY <1>6, <1>7, <1>8 DEF longer
-----------------------------------------------------------------------------
(* The storage.                                                            *)

LEMMA BlockFacts ==
  /\ \A b \in EosioBlock : /\ b \in AnyBlock /\ b.num \in Nat
                           /\ b.actions \in Seq(Action) /\ Len(b.actions) \in Nat
                           /\ b = [num |-> b.num, fork |-> b.fork, actions |-> b.actions]
  /\ \A blocks \in Seq(EosioBlock) : blocks \in Seq(AnyBlock)
<1>1. ASSUME NEW b \in EosioBlock
      PROVE  /\ b \in AnyBlock /\ b.num \in Nat
             /\ b.actions \in Seq(Action) /\ Len(b.actions) \in Nat
             /\ b = [num |-> b.num, fork |-> b.fork, actions |-> b.actions]
  <2>1. /\ b = [num |-> b.num, fork |-> b.fork, actions |-> b.actions]
        /\ b.num \in Nat /\ b.actions \in Seq(Range(b.actions))
    BY EosioBlockAssumption
  <2>2. b.fork \in Fork
    BY DEF Fork
  <2>3. Range(b.actions) \subseteq Action
    BY DEF Action
  <2>4. b.actions \in Seq(Action)
    BY <2>1, <2>3
  <2> QED
    BY <2>1, <2>2, <2>4 DEF AnyBlock
<1>2. EosioBlock \subseteq AnyBlock
  BY <1>1
<1> QED
  BY <1>1, <1>2

LEMMA ElementInSet ==
  ASSUME NEW S, NEW q \in Seq(S), NEW i \in 1..Len(q)
  PROVE  q[i] \in S
OBVIOUS

LEMMA NumsOfBlocks ==
  ASSUME NEW blocks \in Seq(AnyBlock)
  PROVE  Len(blocks) \in Nat /\ \A i \in 1..Len(blocks) : blocks[i].num \in Nat
<1>1. ASSUME NEW i \in 1..Len(blocks) PROVE blocks[i].num \in Nat
  <2>1. blocks[i] \in AnyBlock
    BY ElementInSet
  <2> QED
    BY <2>1 DEF AnyBlock
<1> QED
  BY <1>1

LEMMA FrontAndLast ==
  ASSUME NEW S, NEW q \in Seq(S), q # <<>>
  PROVE  /\ Front(q) \in Seq(S) /\ Len(Front(q)) = Len(q) - 1
         /\ \A i \in 1..Len(q) - 1 : Front(q)[i] = q[i]
         /\ Last(q) \in S /\ Last(q) = q[Len(q)]
         /\ Len(q) \in Nat \ {0}
         /\ q = Append(Front(q), Last(q))
<1>1. Len(q) \in Nat \ {0}
  OBVIOUS
<1>2. /\ Front(q) \in Seq(S) /\ Len(Front(q)) = Len(q) - 1
      /\ \A i \in 1..Len(q) - 1 : Front(q)[i] = q[i]
  <2>1. Len(q) - 1 \in Nat /\ \A i \in 1..Len(q) - 1 : i \in 1..Len(q)
    BY <1>1
  <2>2. Front(q) = [i \in 1..Len(q) - 1 |-> q[i]]
    BY <2>1 DEF Front
  <2>3. \A i \in 1..Len(q) - 1 : q[i] \in S
    BY <2>1, ElementInSet
  <2> QED
    BY <2>1, <2>2, <2>3
<1>3. Last(q) \in S /\ Last(q) = q[Len(q)]
  BY <1>1 DEF Last
<1>4. q = Append(Front(q), Last(q))
  <2> DEFINE a == Append(Front(q), Last(q))
  <2>1. /\ a \in Seq(S) /\ Len(a) = Len(q)
        /\ \A i \in 1..Len(q) : a[i] = q[i]
    BY <1>1, <1>2, <1>3
  <2> HIDE DEF a
  <2> QED
    BY <2>1 DEF a
<1> QED
  BY <1>1, <1>2, <1>3, <1>4

LEMMA AppendFacts ==
  ASSUME NEW S, NEW q \in Seq(S), NEW e \in S
  PROVE  /\ Append(q, e) \in Seq(S) /\ Len(Append(q, e)) = Len(q) + 1
         /\ \A i \in 1..Len(q) : Append(q, e)[i] = q[i]
         /\ Append(q, e)[Len(q) + 1] = e
         /\ Append(q, e) # <<>> /\ Last(Append(q, e)) = e /\ Front(Append(q, e)) = q
<1>1. /\ Append(q, e) \in Seq(S) /\ Len(Append(q, e)) = Len(q) + 1
      /\ \A i \in 1..Len(q) : Append(q, e)[i] = q[i]
      /\ Append(q, e)[Len(q) + 1] = e
      /\ Append(q, e) # <<>> /\ Len(q) \in Nat
  OBVIOUS
<1>2. Last(Append(q, e)) = e
  BY <1>1 DEF Last
<1>3. Front(Append(q, e)) = q
  BY <1>1 DEF Front
<1> QED
  BY <1>1, <1>2, <1>3

LEMMA GatheredLast ==
  ASSUME NEW s \in Log, NEW p, NEW fin, Gathering(s, p, fin)
  PROVE  Last(s.unpushed).undo = FALSE /\ Last(s.unpushed).block = Last(p.blocks)
<1> DEFINE u == s.unpushed
<1>1. /\ u \in Seq(Trx) /\ u # <<>> /\ Len(u) = p.trx
      /\ \A i \in 1..p.trx : u[i].undo = FALSE /\ u[i].block = Last(p.blocks)
  BY DEF Log, Gathering
<1> HIDE DEF u
<1>2. Last(u) = u[Len(u)] /\ Len(u) \in Nat \ {0}
  BY <1>1, FrontAndLast
<1>3. Len(u) \in 1..p.trx
  BY <1>1, <1>2
<1> QED
  BY <1>1, <1>2, <1>3 DEF u

LEMMA NumBelowSplits ==
  ASSUME NEW blocks \in Seq(AnyBlock), NEW num \in Int, NEW k \in 0..Len(blocks),
         \A i \in 1..k : blocks[i].num < num,
         \A i \in k + 1..Len(blocks) : blocks[i].num >= num
  PROVE  Storage!NumBelow(blocks, num) = k
<1> DEFINE below == {i \in DOMAIN blocks : blocks[i].num < num}
<1>1. Len(blocks) \in Nat /\ DOMAIN blocks = 1..Len(blocks)
  OBVIOUS
<1>2. \A i \in 1..Len(blocks) : blocks[i].num \in Nat
  BY NumsOfBlocks
<1>3. below = 1..k
  <2>1. \A i \in 1..k : i \in below
    BY <1>1
  <2>2. ASSUME NEW i \in below PROVE i \in 1..k
    <3>1. i \in 1..Len(blocks) /\ blocks[i].num < num
      BY <1>1
    <3>2. ~(i \in k + 1..Len(blocks))
      <4>1. SUFFICES ASSUME i \in k + 1..Len(blocks) PROVE FALSE
        OBVIOUS
      <4>2. blocks[i].num >= num
        BY <4>1
      <4> QED
        BY <1>2, <3>1, <4>2
    <3> QED
      BY <1>1, <3>1, <3>2
  <2> QED
    BY <2>1, <2>2
<1>4. Cardinality(1..k) = k
  <2>1. k \in Nat /\ 1 \in Int /\ k \in Int
    BY <1>1
  <2>2. Cardinality(1..k) = IF 1 > k THEN 0 ELSE k - 1 + 1
    BY <2>1, FS_Interval
  <2> QED
    BY <2>1, <2>2
<1>5. Storage!NumBelow(blocks, num) = Storage!Cardinality(below)
  BY DEF Storage!NumBelow
<1>6. Storage!Cardinality(1..k) = Cardinality(1..k)
  BY DEF Storage!Cardinality, Cardinality
<1> HIDE DEF below
<1> QED
  BY <1>3, <1>4, <1>5, <1>6

LEMMA NumBelowSorted ==
  ASSUME NEW blocks \in Seq(AnyBlock), Sorted(blocks), NEW num \in Int
  PROVE  /\ Storage!NumBelow(blocks, num) \in 0..Len(blocks)
         /\ \A i \in 1..Storage!NumBelow(blocks, num) : blocks[i].num < num
<1> DEFINE n == Len(blocks)
           below == {i \in 1..n : blocks[i].num < num}
<1>1. n \in Nat /\ \A i \in 1..n : blocks[i].num \in Nat
  BY NumsOfBlocks
<1>2. \A i, j \in 1..n : i < j => blocks[i].num < blocks[j].num
  BY DEF Sorted
<1>3. \E k \in 0..n : /\ \A i \in 1..k : blocks[i].num < num
                      /\ \A i \in k + 1..n : blocks[i].num >= num
  <2>1. CASE below = {}
    <3>1. \A i \in 0 + 1..n : blocks[i].num >= num
      BY <1>1, <2>1
    <3> QED
      BY <1>1, <3>1
  <2>2. CASE below # {}
    <3> DEFINE k == Max(below)
    <3>1. below \in SUBSET (1..n)
      OBVIOUS
    <3> HIDE DEF n
    <3>2. k \in below
      BY <1>1, <2>2, <3>1, MaxOfSubset
    <3>3. \A i \in below : k >= i
      <4>1. \E x \in below : \A y \in below : x >= y
        <5> DEFINE T == {m \in Nat : n - m \in below}
        <5>1. \A x \in below : x \in 1..n /\ n - x \in T
          BY <1>1
        <5>2. T \in SUBSET Nat /\ T # {}
          BY <2>2, <5>1
        <5> HIDE DEF T
        <5>3. PICK m \in T : \A l \in T : m <= l
          BY <5>2, LeastNatural
        <5>4. m \in Nat /\ n - m \in below
          BY <5>3 DEF T
        <5>5. \A y \in below : n - m >= y
          BY <1>1, <5>1, <5>3, <5>4
        <5> QED
          BY <5>4, <5>5
      <4> QED
        BY <4>1 DEF Max
    <3> HIDE DEF k
    <3>4. k \in 0..n /\ k \in 1..n /\ blocks[k].num < num
      BY <1>1, <3>2
    <3>5. ASSUME NEW i \in 1..k PROVE blocks[i].num < num
      <4>1. i \in 1..n /\ (i = k \/ i < k)
        BY <1>1, <3>4
      <4>2. CASE i < k
        <5>1. blocks[i].num < blocks[k].num
          BY <1>2, <3>4, <4>1, <4>2
        <5> QED
          BY <1>1, <3>4, <4>1, <5>1
      <4> QED
        BY <3>4, <4>1, <4>2
    <3>6. ASSUME NEW i \in k + 1..n PROVE blocks[i].num >= num
      <4>1. i \in 1..n /\ ~(k >= i)
        BY <1>1, <3>4
      <4>2. i \notin below
        BY <3>3, <4>1
      <4> QED
        BY <1>1, <4>1, <4>2
    <3> QED
      BY <3>4, <3>5, <3>6
  <2> QED
    BY <2>1, <2>2
<1>4. PICK k \in 0..n : /\ \A i \in 1..k : blocks[i].num < num
                        /\ \A i \in k + 1..n : blocks[i].num >= num
  BY <1>3
<1>5. Storage!NumBelow(blocks, num) = k
  BY <1>4, NumBelowSplits
<1> QED
  BY <1>4, <1>5

(* A block that is pushed to the end makes final what lies below n.        *)
LEMMA PushedAtEnd ==
  ASSUME NEW c \in Chain, c.final <= Len(c.blocks), Sorted(c.blocks),
         NEW e \in AnyBlock, \A i \in 1..Len(c.blocks) : c.blocks[i].num < e.num,
         NEW n \in Nat
  PROVE  \E k \in c.final..Len(c.blocks) + 1 :
           /\ Storage!Pushed(c, e, n) = [blocks |-> Append(c.blocks, e), final |-> k]
           /\ \A i \in 1..k : i <= c.final \/ Append(c.blocks, e)[i].num <= n
<1> DEFINE blocks == c.blocks
           long == Append(blocks, e)
           longer == [blocks |-> long, final |-> c.final]
           k == Storage!NumBelow(long, n + 1)
<1>1. /\ blocks \in Seq(AnyBlock) /\ c.final \in Nat
      /\ c = [blocks |-> blocks, final |-> c.final] /\ e.num \in Nat
  BY DEF Chain, AnyBlock
<1>2. Len(blocks) \in Nat /\ \A i \in 1..Len(blocks) : blocks[i].num \in Nat
  BY <1>1, NumsOfBlocks
<1>3. /\ long \in Seq(AnyBlock) /\ Len(long) = Len(blocks) + 1
      /\ \A i \in 1..Len(blocks) : long[i] = blocks[i]
      /\ long[Len(blocks) + 1] = e
  BY <1>1, AppendFacts
<1> HIDE DEF long
<1>4. Sorted(long)
  <2>1. SUFFICES ASSUME NEW i \in 1..Len(long), NEW j \in 1..Len(long), i < j
                 PROVE  long[i].num < long[j].num
    BY DEF Sorted
  <2>2. i \in 1..Len(blocks) /\ (j \in 1..Len(blocks) \/ j = Len(blocks) + 1)
    BY <1>2, <1>3, <2>1
  <2>3. CASE j \in 1..Len(blocks)
    BY <1>3, <2>1, <2>2, <2>3 DEF Sorted
  <2>4. CASE j = Len(blocks) + 1
    BY <1>3, <2>2, <2>4
  <2> QED
    BY <2>2, <2>3, <2>4
<1>5. k \in 0..Len(long) /\ \A i \in 1..k : long[i].num < n + 1
  BY <1>3, <1>4, NumBelowSorted
<1>6. Storage!NumBelow(blocks, e.num) = Len(blocks)
  <2>1. Len(blocks) \in 0..Len(blocks) /\ e.num \in Int
        /\ \A i \in Len(blocks) + 1..Len(blocks) : blocks[i].num >= e.num
    BY <1>1, <1>2
  <2> QED
    BY <1>1, <2>1, NumBelowSplits
<1>7. SubSeq(blocks, 1, Len(blocks)) = blocks
  BY <1>1
<1>8. Storage!IsNew(c, e)
  BY <1>2, <1>6 DEF Storage!IsNew
<1>9. Storage!Pushed(c, e, n) = [blocks |-> long, final |-> Storage!FinalAfter(longer, n)]
  <2>1. Append(SubSeq(c.blocks, 1, Storage!NumBelow(c.blocks, e.num)), e) = long
    BY <1>6, <1>7 DEF long
  <2>2. [c EXCEPT !.blocks = long] = longer
    BY <1>1
  <2>3. [c EXCEPT !.blocks = Append(SubSeq(@, 1, Storage!NumBelow(@, e.num)), e)] = longer
    BY <2>1, <2>2
  <2>4. Storage!Pushed(c, e, n) = [longer EXCEPT !.final = Storage!FinalAfter(longer, n)]
    BY <1>8, <2>3 DEF Storage!Pushed
  <2> DEFINE f == Storage!FinalAfter(longer, n)
  <2> HIDE DEF f
  <2>5. [longer EXCEPT !.final = f] = [blocks |-> long, final |-> f]
    OBVIOUS
  <2> QED
    BY <2>4, <2>5 DEF f
<1> HIDE DEF k, blocks
<1>10. Storage!FinalAfter(longer, n) = IF n = MaxUInt \/ k < c.final THEN c.final ELSE k
  BY DEF Storage!FinalAfter, k
<1>11. CASE n = MaxUInt \/ k < c.final
  <2>1. Storage!FinalAfter(longer, n) = c.final /\ c.final \in c.final..Len(blocks) + 1
    BY <1>1, <1>2, <1>10, <1>11 DEF blocks
  <2>2. \A i \in 1..c.final : i <= c.final
    BY <1>1
  <2> QED
    BY <1>9, <2>1, <2>2 DEF blocks, long
<1>12. CASE ~(n = MaxUInt \/ k < c.final)
  <2>1. Storage!FinalAfter(longer, n) = k /\ k \in c.final..Len(blocks) + 1
    BY <1>1, <1>2, <1>3, <1>5, <1>10, <1>12
  <2>2. \A i \in 1..k : long[i].num <= n
    <3>1. ASSUME NEW i \in 1..k PROVE long[i].num <= n
      <4>1. i \in 1..Len(long) /\ long[i].num < n + 1
        BY <1>2, <1>3, <1>5
      <4>2. long[i].num \in Nat
        BY <1>3, <4>1, NumsOfBlocks
      <4> QED
        BY <4>1, <4>2
    <3> QED
      BY <3>1
  <2> QED
    BY <1>9, <2>1, <2>2 DEF blocks, long
<1> QED
  BY <1>11, <1>12

LEMMA UndoneAtEnd ==
  ASSUME NEW c \in Chain, NEW rest \in Seq(AnyBlock), NEW b \in AnyBlock,
         c.blocks = Append(rest, b), c.final <= Len(rest),
         \A i \in 1..Len(rest) : rest[i].num < b.num
  PROVE  Storage!Undone(c, b.num) = [blocks |-> rest, final |-> c.final]
<1> DEFINE blocks == c.blocks
<1>1. /\ blocks \in Seq(AnyBlock) /\ c.final \in Nat /\ b.num \in Nat
      /\ c = [blocks |-> blocks, final |-> c.final]
  BY DEF Chain, AnyBlock
<1>2. /\ Len(rest) \in Nat /\ Len(blocks) = Len(rest) + 1
      /\ \A i \in 1..Len(rest) : blocks[i] = rest[i]
      /\ blocks[Len(rest) + 1] = b
  BY AppendFacts
<1>3. Storage!NumBelow(blocks, b.num) = Len(rest)
  <2>1. /\ Len(rest) \in 0..Len(blocks) /\ b.num \in Int
        /\ \A i \in 1..Len(rest) : blocks[i].num < b.num
        /\ \A i \in Len(rest) + 1..Len(blocks) : blocks[i].num >= b.num
    BY <1>1, <1>2
  <2> QED
    BY <1>1, <2>1, NumBelowSplits
<1>4. SubSeq(blocks, 1, Len(rest)) = rest
  <2>1. SubSeq(blocks, 1, Len(rest)) = Front(blocks)
    BY <1>2 DEF Front
  <2> QED
    BY <2>1, AppendFacts
<1> HIDE DEF blocks
<1>5. Storage!Undone(c, b.num) = [c EXCEPT !.blocks = SubSeq(@, 1, Len(rest))]
  BY <1>2, <1>3 DEF Storage!Undone, blocks
<1>6. [c EXCEPT !.blocks = SubSeq(@, 1, Len(rest))] = [c EXCEPT !.blocks = rest]
  BY <1>4 DEF blocks
<1>7. [c EXCEPT !.blocks = rest] = [blocks |-> rest, final |-> c.final]
  BY <1>1
<1> QED
  BY <1>5, <1>6, <1>7

(* The block that a group becomes is the one whose transactions it has.    *)
LEMMA AssembledBlock ==
  ASSUME NEW s \in Log, NEW p, CursorOk(p), NEW fin, Gathering(s, p, fin)
  PROVE  /\ Assembled(s.unpushed) \in AnyBlock
         /\ Assembled(s.unpushed).num = Last(p.blocks).num
         /\ Assembled(s.unpushed).fork = Last(p.blocks).fork
         /\ Complete(p) => Assembled(s.unpushed) = Last(p.blocks)
<1> DEFINE u == s.unpushed
           b == Last(p.blocks)
           actions == [i \in 1..Len(u) |-> b.actions[u[i].trx]]
<1>1. /\ u \in Seq(Trx) /\ u # <<>> /\ Len(u) = p.trx
      /\ \A i \in 1..p.trx : u[i].block = b /\ u[i].trx = i
      /\ p.blocks \in Seq(EosioBlock) /\ p.blocks # <<>>
      /\ p.trx \in 1..AllTrx(p.blocks)
  BY DEF Log, Gathering, CursorOk, Cursor
<1>2. b \in EosioBlock
  BY <1>1, FrontAndLast
<1> HIDE DEF b, u
<1>3. /\ b = [num |-> b.num, fork |-> b.fork, actions |-> b.actions]
      /\ b.num \in Nat /\ b.fork \in Fork
      /\ b.actions \in Seq(Action) /\ Len(b.actions) \in Nat
  BY <1>2, BlockFacts DEF Fork
<1>4. AllTrx(p.blocks) = Len(b.actions)
  BY <1>1 DEF AllTrx, b
<1>5. Last(u).block = b
  <2>1. Len(u) \in 1..p.trx
    BY <1>1, <1>3, <1>4
  <2> QED
    BY <1>1, <2>1 DEF Last
<1>6. actions = SubSeq(b.actions, 1, p.trx)
  <2>1. \A i \in 1..p.trx : u[i].trx = i
    BY <1>1
  <2>2. actions = [i \in 1..p.trx |-> b.actions[i]]
    BY <1>1, <2>1
  <2>3. SubSeq(b.actions, 1, p.trx) = [i \in 1..p.trx |-> b.actions[i]]
    BY <1>1, <1>3, <1>4
  <2> QED
    BY <2>2, <2>3
<1>7. actions \in Seq(Action) /\ (p.trx = Len(b.actions) => actions = b.actions)
  <2>1. p.trx \in 1..Len(b.actions)
    BY <1>1, <1>4
  <2>2. SubSeq(b.actions, 1, p.trx) \in Seq(Action)
    BY <1>3, <2>1
  <2>3. SubSeq(b.actions, 1, Len(b.actions)) = b.actions
    BY <1>3
  <2> QED
    BY <1>6, <2>2, <2>3
<1>8. Assembled(u) = [b EXCEPT !.actions = actions]
  BY <1>5 DEF Assembled
<1> HIDE DEF actions
<1>9. [b EXCEPT !.actions = actions] = [num |-> b.num, fork |-> b.fork, actions |-> actions]
  BY <1>3
<1>10. Assembled(u) \in AnyBlock
  BY <1>3, <1>7, <1>8, <1>9 DEF AnyBlock
<1>11. ASSUME Complete(p) PROVE Assembled(u) = b
  <2>1. p.trx = Len(b.actions)
    BY <1>4, <1>11 DEF Complete
  <2> QED
    BY <1>3, <1>7, <1>8, <1>9, <2>1
<1> QED
  BY <1>8, <1>9, <1>10, <1>11 DEF b, u

(* What a flush makes of a gathered block.                                 *)
FlushedBlock(c, s, p, fin) ==
  /\ c \in Chain /\ s.chain.final <= c.final /\ c.final <= Len(p.blocks)
  /\ \A i \in 1..c.final : i <= Len(fin) /\ p.blocks[i] = fin[i]
  /\ \E e \in AnyBlock :
       /\ c.blocks = Append(Front(p.blocks), e)
       /\ e.num = Last(p.blocks).num /\ e.fork = Last(p.blocks).fork
       /\ Complete(p) => e = Last(p.blocks)

LEMMA GatheringFlushed ==
  ASSUME NEW s \in Log, NEW p, CursorOk(p), NEW fin \in Seq(EosioBlock),
         Gathering(s, p, fin), FinalIn(s.chain, fin),
         Flush(s.chain, s.unpushed) # Null
  PROVE  FlushedBlock(Flush(s.chain, s.unpushed), s, p, fin)
<1> DEFINE u == s.unpushed
           c == s.chain
           e == Assembled(u)
           n == Last(u).irreversibleBlockNum
           front == Front(p.blocks)
           d == Flush(c, u)
<1>1. /\ u \in Seq(Trx) /\ u # <<>> /\ Len(u) = p.trx /\ c \in Chain
      /\ \A i \in 1..p.trx : u[i].undo = FALSE
      /\ p.blocks \in Seq(EosioBlock) /\ p.blocks # <<>> /\ Sorted(p.blocks)
      /\ c.blocks = front
      /\ Covers(p.blocks, n, fin)
  BY DEF Log, Gathering, CursorOk, Cursor
<1>2. /\ e \in AnyBlock /\ e.num = Last(p.blocks).num /\ e.fork = Last(p.blocks).fork
      /\ Complete(p) => e = Last(p.blocks)
  BY AssembledBlock
<1>3. Last(u) \in Trx /\ Last(u) = u[Len(u)] /\ Len(u) \in Nat \ {0}
  BY <1>1, FrontAndLast
<1>4. Last(u).undo = FALSE /\ n \in Nat
  BY <1>1, <1>3 DEF Trx
<1>5. /\ front \in Seq(EosioBlock) /\ Len(front) = Len(p.blocks) - 1
      /\ \A i \in 1..Len(p.blocks) - 1 : front[i] = p.blocks[i]
      /\ Last(p.blocks) = p.blocks[Len(p.blocks)]
      /\ Len(p.blocks) \in Nat \ {0}
      /\ Last(p.blocks) \in EosioBlock
  BY <1>1, FrontAndLast
<1> HIDE DEF u, c, e, n, front, d
<1>6. d = Push(c, e, n)
  BY <1>4 DEF Flush, d, e, n
<1>7. d = Storage!Pushed(c, e, n)
  BY <1>6 DEF Push, d, c, u
<1>8. Sorted(front) /\ \A i \in 1..Len(front) : front[i].num < e.num
  <2>1. \A i, j \in 1..Len(front) : i < j => front[i].num < front[j].num
    <3>1. SUFFICES ASSUME NEW i \in 1..Len(front), NEW j \in 1..Len(front), i < j
                   PROVE  front[i].num < front[j].num
      OBVIOUS
    <3>2. i \in 1..Len(p.blocks) - 1 /\ j \in 1..Len(p.blocks) - 1
          /\ i \in 1..Len(p.blocks) /\ j \in 1..Len(p.blocks)
      BY <1>5
    <3> QED
      BY <1>1, <1>5, <3>1, <3>2 DEF Sorted
  <2>2. ASSUME NEW i \in 1..Len(front) PROVE front[i].num < e.num
    <3>1. /\ i \in 1..Len(p.blocks) - 1 /\ i \in 1..Len(p.blocks)
          /\ Len(p.blocks) \in 1..Len(p.blocks) /\ i < Len(p.blocks)
      BY <1>5
    <3> QED
      BY <1>1, <1>2, <1>5, <3>1 DEF Sorted
  <2> QED
    BY <2>1, <2>2 DEF Sorted
<1>9. /\ c.final \in Nat /\ c.final <= Len(c.blocks) /\ c.final <= Len(fin)
      /\ \A i \in 1..c.final : c.blocks[i] = fin[i]
  BY <1>1 DEF FinalIn, c, Chain
<1>10. PICK k \in c.final..Len(front) + 1 :
         /\ d = [blocks |-> Append(front, e), final |-> k]
         /\ \A i \in 1..k : i <= c.final \/ Append(front, e)[i].num <= n
  <2>1. Sorted(c.blocks) /\ \A i \in 1..Len(c.blocks) : c.blocks[i].num < e.num
    BY <1>1, <1>8
  <2> QED
    BY <1>1, <1>2, <1>4, <1>7, <1>9, <2>1, PushedAtEnd
<1>11. front \in Seq(AnyBlock)
  BY <1>5, BlockFacts
<1>12. /\ Append(front, e) \in Seq(AnyBlock)
       /\ \A i \in 1..Len(front) : Append(front, e)[i] = front[i]
       /\ Append(front, e)[Len(front) + 1] = e
  BY <1>2, <1>11, AppendFacts
<1>13. k \in Nat /\ k <= Len(p.blocks) /\ c.final <= k
  BY <1>5, <1>9, <1>10
<1>14. d \in Chain
  BY <1>10, <1>12, <1>13 DEF Chain
<1>15. ASSUME NEW i \in 1..k
       PROVE  i <= Len(fin) /\ p.blocks[i] = fin[i]
  <2>1. CASE i <= c.final
    <3>1. i \in 1..c.final /\ i \in 1..Len(p.blocks) - 1
      BY <1>1, <1>5, <1>9, <2>1
    <3>2. Len(fin) \in Nat
      OBVIOUS
    <3> QED
      BY <1>1, <1>5, <1>9, <3>1, <3>2
  <2>2. CASE ~(i <= c.final)
    <3>1. Append(front, e)[i].num <= n
      BY <1>10, <2>2
    <3>2. i \in 1..Len(p.blocks) /\ (i \in 1..Len(front) \/ i = Len(front) + 1)
      BY <1>5, <1>13
    <3>3. Append(front, e)[i].num = p.blocks[i].num
      BY <1>2, <1>5, <1>12, <3>2
    <3> QED
      BY <1>1, <3>1, <3>2, <3>3 DEF Covers
  <2> QED
    BY <2>1, <2>2
<1> QED
  BY <1>2, <1>10, <1>13, <1>14, <1>15 DEF FlushedBlock, c, d, u, front

(* A flush of an undo removes its block.                                   *)
LEMMA UndoingFlushed ==
  ASSUME NEW s \in Log, NEW rest \in Seq(EosioBlock), Undoing(s, rest)
  PROVE  Flush(s.chain, s.unpushed) = [blocks |-> rest, final |-> s.chain.final]
<1> DEFINE c == s.chain
           b == Last(c.blocks)
           num == Last(s.unpushed).block.num
<1>1. /\ c \in Chain /\ Last(s.unpushed).undo = TRUE
      /\ c.final <= Len(rest) /\ c.blocks = Append(rest, b) /\ b.num = num
      /\ \A i \in 1..Len(rest) : rest[i].num < b.num
  BY DEF Log, Undoing
<1>2. rest \in Seq(AnyBlock)
  BY BlockFacts
<1>3. b \in AnyBlock
  <2>1. c.blocks \in Seq(AnyBlock)
    BY <1>1 DEF Chain
  <2>2. c.blocks # <<>>
    <3> HIDE DEF b, c
    <3> QED
      BY <1>1, <1>2
  <2> HIDE DEF c
  <2> QED
    BY <2>1, <2>2, FrontAndLast
<1> HIDE DEF b, c, num
<1>4. Storage!Undone(c, b.num) = [blocks |-> rest, final |-> c.final]
  BY <1>1, <1>2, <1>3, UndoneAtEnd
<1> QED
  BY <1>1, <1>4 DEF Flush, c, num

-----------------------------------------------------------------------------
(* The messages.                                                           *)

LEMMA FinalNumberIsNat ==
  ASSUME ProviderInv
  PROVE  FinalNumber \in Nat /\ LastNumber(at) \in Nat
<1>1. final \in Seq(EosioBlock) /\ at.blocks \in Seq(EosioBlock)
  BY DEF ProviderInv, CursorOk, Cursor
<1>2. ASSUME final # <<>> PROVE Last(final).num \in Nat
  BY <1>1, <1>2, FrontAndLast, BlockFacts
<1>3. ASSUME at.blocks # <<>> PROVE Last(at.blocks).num \in Nat
  BY <1>1, <1>3, FrontAndLast, BlockFacts
<1> QED
  BY <1>2, <1>3 DEF FinalNumber, LastNumber

(* What has been delivered agrees with what is final.                      *)
Agree(blocks) == \A i \in 1..Len(blocks) : i <= Len(final) => blocks[i] = final[i]

LEMMA AgreeUnlessForked ==
  ASSUME ProviderInv, ~Forked
  PROVE  Agree(at.blocks)
<1>1. final \in Seq(EosioBlock) /\ at.blocks \in Seq(EosioBlock)
  BY DEF ProviderInv, CursorOk, Cursor
<1>2. Len(final) \in Nat /\ Len(at.blocks) \in Nat
  BY <1>1
<1>3. CASE IsPrefix(at.blocks, final)
  <2>1. Len(at.blocks) <= Len(final)
        /\ SubSeq(at.blocks, 1, Len(at.blocks)) = SubSeq(final, 1, Len(at.blocks))
    BY <1>3 DEF IsPrefix
  <2>2. ASSUME NEW i \in 1..Len(at.blocks) PROVE at.blocks[i] = final[i]
    <3>1. SubSeq(at.blocks, 1, Len(at.blocks))[i] = at.blocks[i]
          /\ SubSeq(final, 1, Len(at.blocks))[i] = final[i]
      BY <1>1, <1>2, <2>1
    <3> QED
      BY <2>1, <3>1
  <2> QED
    BY <2>2 DEF Agree
<1>4. CASE IsPrefix(final, at.blocks)
  <2>1. Len(final) <= Len(at.blocks)
        /\ SubSeq(final, 1, Len(final)) = SubSeq(at.blocks, 1, Len(final))
    BY <1>4 DEF IsPrefix
  <2>2. ASSUME NEW i \in 1..Len(final) PROVE at.blocks[i] = final[i]
    <3>1. SubSeq(final, 1, Len(final))[i] = final[i]
          /\ SubSeq(at.blocks, 1, Len(final))[i] = at.blocks[i]
      BY <1>1, <1>2, <2>1
    <3> QED
      BY <2>1, <3>1
  <2> QED
    BY <1>2, <2>2 DEF Agree
<1> QED
  BY <1>3, <1>4 DEF Forked

LEMMA FinalIsCovered ==
  ASSUME ProviderInv, NEW blocks \in Seq(EosioBlock), Sorted(blocks), Agree(blocks),
         \A i \in 1..Len(blocks) : blocks[i].num > 0
  PROVE  Covers(blocks, FinalNumber, final)
<1>1. SUFFICES ASSUME NEW i \in 1..Len(blocks), blocks[i].num <= FinalNumber
               PROVE  i <= Len(final) /\ blocks[i] = final[i]
  BY DEF Covers
<1>2. final \in Seq(EosioBlock) /\ Len(final) \in Nat /\ Len(blocks) \in Nat
  BY DEF ProviderInv
<1>3. blocks[i].num \in Nat
  BY ElementInSet, BlockFacts
<1>4. i <= Len(final)
  <2>1. SUFFICES ASSUME i > Len(final) PROVE FALSE
    BY <1>2
  <2>2. CASE final = <<>>
    BY <1>1, <1>3, <2>2 DEF FinalNumber
  <2>3. CASE final # <<>>
    <3>1. Len(final) \in 1..Len(blocks) /\ Len(final) < i
      BY <1>2, <2>1, <2>3
    <3>2. blocks[Len(final)] = final[Len(final)]
      BY <1>2, <3>1 DEF Agree
    <3>3. blocks[Len(final)].num < blocks[i].num
      BY <3>1 DEF Sorted
    <3>4. FinalNumber = blocks[Len(final)].num
      BY <2>3, <3>2 DEF FinalNumber, Last
    <3>5. blocks[Len(final)].num \in Nat
      BY <3>1, ElementInSet, BlockFacts
    <3> QED
      BY <1>1, <1>3, <3>3, <3>4, <3>5
  <2> QED
    BY <2>2, <2>3
<1> QED
  BY <1>4 DEF Agree

(* What can be undone is not final.                                        *)
LEMMA UndoableIsNotFinal ==
  ASSUME ProviderInv, Undoable, at.undoing = FALSE
  PROVE  ~\A i \in 1..Len(at.blocks) : i <= Len(final) /\ at.blocks[i] = final[i]
<1>1. SUFFICES ASSUME \A i \in 1..Len(at.blocks) : i <= Len(final) /\ at.blocks[i] = final[i]
               PROVE  FALSE
  OBVIOUS
<1>2. final \in Seq(EosioBlock) /\ at.blocks \in Seq(EosioBlock)
  BY DEF ProviderInv, CursorOk, Cursor
<1>3. Len(final) \in Nat /\ Len(at.blocks) \in Nat
  BY <1>2
<1>4. Len(at.blocks) <= Len(final)
  <2>1. CASE Len(at.blocks) = 0
    BY <1>3, <2>1
  <2>2. CASE Len(at.blocks) # 0
    <3>1. Len(at.blocks) \in 1..Len(at.blocks)
      BY <1>3, <2>2
    <3> QED
      BY <1>1, <3>1
  <2> QED
    BY <2>1, <2>2
<1>5. SubSeq(at.blocks, 1, Len(at.blocks)) = SubSeq(final, 1, Len(at.blocks))
  BY <1>1, <1>2, <1>3, <1>4
<1>6. IsPrefix(at.blocks, final)
  BY <1>4, <1>5 DEF IsPrefix
<1> QED
  BY <1>3, <1>4, <1>6 DEF Undoable, Forked

LEMMA UndoableHasBlock ==
  ASSUME ProviderInv, Undoable
  PROVE  at.blocks # <<>>
<1>1. SUFFICES ASSUME at.blocks = <<>> PROVE FALSE
  OBVIOUS
<1>2. at.undoing = FALSE
  BY <1>1 DEF ProviderInv, CursorOk
<1>3. \A i \in 1..Len(at.blocks) : i <= Len(final) /\ at.blocks[i] = final[i]
  BY <1>1
<1> QED
  BY <1>2, <1>3, UndoableIsNotFinal

(* The log without the group that is complete.                             *)
Settled(s) == IF s.unpushed = <<>> THEN s.chain ELSE Flush(s.chain, s.unpushed)

LEMMA NotAheadOfAppended ==
  ASSUME NEW c \in Chain, NEW d \in Chain, NEW e \in AnyBlock,
         c.final <= d.final, c.final <= Len(c.blocks), d.blocks = Append(c.blocks, e)
  PROVE  NotAhead(c, d)
<1>1. c.blocks \in Seq(AnyBlock) /\ c.final \in Nat
  BY DEF Chain
<1>2. /\ Len(c.blocks) \in Nat /\ Len(d.blocks) = Len(c.blocks) + 1
      /\ \A i \in 1..Len(c.blocks) : d.blocks[i] = c.blocks[i]
  BY <1>1, AppendFacts
<1> QED
  BY <1>1, <1>2 DEF NotAhead

LEMMA NotAheadOfCut ==
  ASSUME NEW c \in Chain, NEW d \in Chain, NEW e \in AnyBlock,
         c.final <= d.final, c.final <= Len(d.blocks), c.blocks = Append(d.blocks, e)
  PROVE  NotAhead(c, d)
<1>1. d.blocks \in Seq(AnyBlock) /\ c.final \in Nat
  BY DEF Chain
<1>2. /\ Len(d.blocks) \in Nat
      /\ \A i \in 1..Len(d.blocks) : c.blocks[i] = d.blocks[i]
  BY <1>1, AppendFacts
<1> QED
  BY <1>1, <1>2 DEF NotAhead

LEMMA SettledComplete ==
  ASSUME NEW s, NEW p, NEW fin \in Seq(EosioBlock), Follows(s, p, fin), Complete(p),
         Settled(s) # Null
  PROVE  /\ Settled(s) \in Chain /\ Settled(s).blocks = p.blocks
         /\ FinalIn(Settled(s), fin) /\ NotAhead(s.chain, Settled(s))
<1> DEFINE c == Settled(s)
<1>1. /\ s \in Log /\ CursorOk(p) /\ FinalIn(s.chain, fin)
      /\ s.chain \in Chain /\ p.blocks \in Seq(EosioBlock)
  BY DEF Follows, CursorOk, Cursor, Log
<1>2. CASE Flushed(s, p)
  <2>1. c = s.chain /\ c.blocks = p.blocks
    BY <1>2 DEF Flushed, Settled
  <2>2. NotAhead(s.chain, s.chain)
    <3>1. /\ s.chain.final \in Nat /\ s.chain.blocks \in Seq(AnyBlock)
          /\ s.chain.final <= Len(s.chain.blocks)
      BY <1>1 DEF FinalIn, Chain
    <3> QED
      BY <3>1 DEF NotAhead
  <2> QED
    BY <1>1, <2>1, <2>2
<1>3. CASE Gathering(s, p, fin)
  <2>1. c = Flush(s.chain, s.unpushed) /\ s.chain.blocks = Front(p.blocks) /\ p.blocks # <<>>
    BY <1>3 DEF Settled, Gathering
  <2>2. FlushedBlock(c, s, p, fin)
    BY <1>1, <1>3, <2>1, GatheringFlushed
  <2> HIDE DEF c
  <2>3. PICK e \in AnyBlock : c.blocks = Append(Front(p.blocks), e) /\ e = Last(p.blocks)
    BY <2>2 DEF FlushedBlock
  <2>4. c.blocks = p.blocks
    BY <1>1, <2>1, <2>3, FrontAndLast
  <2>5. c \in Chain /\ s.chain.final <= c.final
    BY <2>2 DEF FlushedBlock
  <2>6. FinalIn(c, fin)
    <3>1. /\ c.final <= Len(c.blocks)
          /\ \A i \in 1..c.final : i <= Len(fin) /\ c.blocks[i] = fin[i]
      BY <2>2, <2>4 DEF FlushedBlock
    <3>2. c.final \in Nat /\ Len(fin) \in Nat
      BY <2>5 DEF Chain
    <3>3. c.final <= Len(fin)
      <4>1. CASE c.final = 0
        BY <3>2, <4>1
      <4>2. CASE c.final # 0
        <5>1. c.final \in 1..c.final
          BY <3>2, <4>2
        <5> QED
          BY <3>1, <5>1
      <4> QED
        BY <4>1, <4>2
    <3> QED
      BY <3>1, <3>3 DEF FinalIn
  <2>7. NotAhead(s.chain, c)
    <3>1. s.chain.final <= Len(s.chain.blocks)
      BY <1>1 DEF FinalIn
    <3> QED
      BY <1>1, <2>1, <2>3, <2>5, <3>1, NotAheadOfAppended
  <2> QED
    BY <2>4, <2>5, <2>6, <2>7 DEF c
<1>4. CASE Undoing(s, p.blocks)
  <2>1. c = Flush(s.chain, s.unpushed)
    BY <1>4 DEF Settled, Undoing
  <2>2. c = [blocks |-> p.blocks, final |-> s.chain.final]
    BY <1>1, <1>4, <2>1, UndoingFlushed
  <2> HIDE DEF c
  <2>3. c \in Chain
    BY <1>1, <2>2, BlockFacts DEF Chain
  <2>4. s.chain.final <= Len(p.blocks) /\ s.chain.blocks = Append(p.blocks, Last(s.chain.blocks))
    BY <1>4 DEF Undoing
  <2>5. /\ s.chain.final \in Nat /\ s.chain.blocks \in Seq(AnyBlock)
        /\ p.blocks \in Seq(AnyBlock) /\ Len(p.blocks) \in Nat
    BY <1>1, BlockFacts DEF Chain
  <2>6. Last(s.chain.blocks) \in AnyBlock
    <3> DEFINE e == Last(s.chain.blocks)
    <3>1. s.chain.blocks # <<>>
      <4> HIDE DEF e
      <4> QED
        BY <2>4, <2>5
    <3> QED
      BY <2>5, <3>1, FrontAndLast
  <2>7. \A i \in 1..Len(p.blocks) : s.chain.blocks[i] = p.blocks[i]
    BY <2>4, <2>5, <2>6, AppendFacts
  <2>8. FinalIn(c, fin)
    <3>1. \A i \in 1..s.chain.final : i \in 1..Len(p.blocks)
      BY <2>4, <2>5
    <3> QED
      BY <1>1, <2>2, <2>4, <2>7, <3>1 DEF FinalIn
  <2>9. NotAhead(s.chain, c)
    <3>1. c.blocks = p.blocks /\ c.final = s.chain.final
      BY <2>2
    <3>2. s.chain.final <= c.final
      BY <2>5, <3>1
    <3> QED
      BY <1>1, <2>3, <2>4, <2>6, <3>1, <3>2, NotAheadOfCut
  <2> QED
    BY <2>2, <2>3, <2>8, <2>9 DEF c
<1>5. ~(p.undoing = TRUE)
  BY <1>1 DEF Complete, CursorOk, Cursor
<1> QED
  BY <1>2, <1>3, <1>4, <1>5 DEF Follows

(* What taking a transaction gives, unless the wasm aborts.                *)
Takes(s, trx) ==
  /\ CursorOk(trx.cursor)
  /\ pushTrx(s, trx).chain # Null =>
       /\ Follows(pushTrx(s, trx), trx.cursor, final)
       /\ NotAhead(s.chain, pushTrx(s, trx).chain)
       /\ IF HasTrace(trx) THEN /\ pushTrx(s, trx).unpushed # <<>>
                                /\ Last(pushTrx(s, trx).unpushed) = trx
          ELSE pushTrx(s, trx).unpushed = <<>>

LEMMA NewGroup ==
  ASSUME NEW s \in Log, NEW trx \in Trx,
         s.unpushed # <<>> => ~SameGroup(trx, Last(s.unpushed))
  PROVE  /\ HasTrace(trx) => pushTrx(s, trx) = [chain |-> Settled(s), unpushed |-> <<trx>>]
         /\ s.unpushed # <<>> /\ ~HasTrace(trx) =>
              pushTrx(s, trx) = [chain |-> Settled(s), unpushed |-> <<>>]
<1>1. s = [chain |-> s.chain, unpushed |-> s.unpushed] /\ s.unpushed \in Seq(Trx)
  BY DEF Log
<1>2. CASE s.unpushed = <<>>
  <2>1. Append(s.unpushed, trx) = <<trx>>
    BY <1>2
  <2>2. ASSUME HasTrace(trx)
        PROVE  pushTrx(s, trx) = [chain |-> s.chain, unpushed |-> <<trx>>]
    <3>1. pushTrx(s, trx) = [s EXCEPT !.unpushed = Append(@, trx)]
      BY <1>2, <2>2 DEF pushTrx
    <3>2. [s EXCEPT !.unpushed = Append(@, trx)] = [s EXCEPT !.unpushed = <<trx>>]
      BY <2>1
    <3> QED
      BY <1>1, <3>1, <3>2
  <2> QED
    BY <1>2, <2>2 DEF Settled
<1>3. CASE s.unpushed # <<>>
  BY <1>3 DEF pushTrx, Settled
<1> QED
  BY <1>2, <1>3

LEMMA SameGroupTaken ==
  ASSUME NEW s \in Log, NEW trx \in Trx, HasTrace(trx),
         s.unpushed # <<>>, SameGroup(trx, Last(s.unpushed))
  PROVE  pushTrx(s, trx) = [chain |-> s.chain, unpushed |-> Append(s.unpushed, trx)]
<1>1. s = [chain |-> s.chain, unpushed |-> s.unpushed]
  BY DEF Log
<1>2. pushTrx(s, trx) = [s EXCEPT !.unpushed = Append(@, trx)]
  BY DEF pushTrx
<1> QED
  BY <1>1, <1>2

LEMMA NotAheadSame ==
  ASSUME NEW s \in Log, NEW fin, FinalIn(s.chain, fin)
  PROVE  NotAhead(s.chain, s.chain)
<1>1. /\ s.chain.final \in Nat /\ s.chain.blocks \in Seq(AnyBlock)
      /\ s.chain.final <= Len(s.chain.blocks)
  BY DEF FinalIn, Chain, Log
<1> QED
  BY <1>1 DEF NotAhead

LEMMA TakesFirst ==
  ASSUME ProviderInv, NEW s, Follows(s, at, final), Complete(at), ~Forked,
         NEW b \in NewBlocks
  PROVE  FirstTrx(b) \in Trx /\ Takes(s, FirstTrx(b))
<1> DEFINE blocks == at.blocks
           longer == Append(blocks, b)
           p == [blocks |-> longer, trx |-> 1, undoing |-> FALSE]
           trx == FirstTrx(b)
           c == Settled(s)
           r == pushTrx(s, trx)
<1>1. /\ final \in Seq(EosioBlock) /\ blocks \in Seq(EosioBlock)
      /\ Len(final) \in Nat /\ Len(blocks) \in Nat
      /\ b \in EosioBlock /\ b.num > LastNumber(at) /\ b.actions # <<>>
      /\ Len(blocks) < Len(final) => b = final[Len(blocks) + 1]
      /\ CursorOk(at) /\ s \in Log
  BY DEF ProviderInv, CursorOk, Cursor, NewBlocks, Follows
<1>2. /\ longer \in Seq(EosioBlock) /\ Len(longer) = Len(blocks) + 1
      /\ \A i \in 1..Len(blocks) : longer[i] = blocks[i]
      /\ longer[Len(blocks) + 1] = b
      /\ longer # <<>> /\ Last(longer) = b /\ Front(longer) = blocks
  BY <1>1, AppendFacts
<1>3. /\ b.num \in Nat /\ b.actions \in Seq(Action) /\ Len(b.actions) \in Nat \ {0}
      /\ LastNumber(at) \in Nat /\ FinalNumber \in Nat
  BY <1>1, BlockFacts, FinalNumberIsNat
<1> HIDE DEF longer
<1>4. \A i \in 1..Len(blocks) : blocks[i].num < b.num /\ blocks[i].num \in Nat
  <2>1. SUFFICES ASSUME NEW i \in 1..Len(blocks)
                 PROVE  blocks[i].num < b.num /\ blocks[i].num \in Nat
    OBVIOUS
  <2>2. blocks # <<>> /\ Len(blocks) \in 1..Len(blocks)
    BY <1>1
  <2>3. LastNumber(at) = blocks[Len(blocks)].num
    BY <2>2 DEF LastNumber, Last
  <2>4. i = Len(blocks) \/ blocks[i].num < blocks[Len(blocks)].num
    BY <1>1, <2>2 DEF CursorOk, Sorted
  <2>5. blocks[i] \in EosioBlock
    BY <1>1, ElementInSet
  <2>6. blocks[i].num \in Nat
    BY <2>5, BlockFacts
  <2> QED
    BY <1>1, <1>3, <2>3, <2>4, <2>6
<1>5. /\ Sorted(longer)
      /\ \A i \in 1..Len(longer) : longer[i].num > 0 /\ longer[i].actions # <<>>
  <2>1. \A i \in 1..Len(longer) : i \in 1..Len(blocks) \/ i = Len(blocks) + 1
    BY <1>1, <1>2
  <2>2. ASSUME NEW i \in 1..Len(longer), NEW j \in 1..Len(longer), i < j
        PROVE  longer[i].num < longer[j].num
    <3>1. i \in 1..Len(blocks)
      BY <1>1, <1>2, <2>2
    <3>2. CASE j \in 1..Len(blocks)
      BY <1>1, <1>2, <2>2, <3>1, <3>2 DEF CursorOk, Sorted
    <3>3. CASE j = Len(blocks) + 1
      BY <1>2, <1>4, <3>1, <3>3
    <3> QED
      BY <2>1, <3>2, <3>3
  <2>3. ASSUME NEW i \in 1..Len(longer)
        PROVE  longer[i].num > 0 /\ longer[i].actions # <<>>
    <3>1. CASE i \in 1..Len(blocks)
      BY <1>1, <1>2, <3>1 DEF CursorOk
    <3>2. CASE i = Len(blocks) + 1
      BY <1>1, <1>2, <1>3, <3>2
    <3> QED
      BY <2>1, <3>1, <3>2
  <2> QED
    BY <2>2, <2>3 DEF Sorted
<1>6. CursorOk(p)
  <2>1. AllTrx(longer) = Len(b.actions)
    BY <1>2 DEF AllTrx
  <2> QED
    BY <1>2, <1>3, <1>5, <2>1 DEF CursorOk, Cursor
<1>7. Agree(longer)
  <2>1. Agree(blocks)
    BY AgreeUnlessForked
  <2>2. ASSUME NEW i \in 1..Len(longer), i <= Len(final)
        PROVE  longer[i] = final[i]
    <3>1. CASE i \in 1..Len(blocks)
      BY <1>2, <2>1, <2>2, <3>1 DEF Agree
    <3>2. CASE i = Len(blocks) + 1
      BY <1>1, <1>2, <2>2, <3>2
    <3> QED
      BY <1>1, <1>2, <3>1, <3>2
  <2> QED
    BY <2>2 DEF Agree
<1>8. Covers(longer, FinalNumber, final)
  BY <1>2, <1>5, <1>7, FinalIsCovered
<1>9. trx = [undo |-> FALSE, block |-> b, trx |-> 1, cursor |-> p,
             irreversibleBlockNum |-> FinalNumber]
  BY DEF FirstTrx, JsonTrx, longer
<1>10. trx \in Trx
  <2>1. p \in Cursor
    BY <1>6 DEF CursorOk
  <2> HIDE DEF p, trx
  <2> QED
    BY <1>1, <1>3, <1>9, <2>1 DEF Trx
<1> HIDE DEF p, trx
<1>11. HasTrace(trx)
  BY <1>9 DEF HasTrace
<1>12. s.unpushed # <<>> => ~SameGroup(trx, Last(s.unpushed))
  <2>1. SUFFICES ASSUME s.unpushed # <<>>, SameGroup(trx, Last(s.unpushed)) PROVE FALSE
    OBVIOUS
  <2>2. Last(s.unpushed).undo = FALSE /\ Last(s.unpushed).block.num = b.num
    BY <1>9, <2>1 DEF SameGroup
  <2>3. Gathering(s, at, final)
    <3>1. ~Undoing(s, at.blocks) /\ ~Undoing(s, Front(at.blocks)) /\ ~Flushed(s, at)
      BY <2>1, <2>2 DEF Undoing, Flushed
    <3> QED
      BY <3>1 DEF Follows
  <2>4. /\ blocks # <<>> /\ s.unpushed \in Seq(Trx) /\ Len(s.unpushed) = at.trx
        /\ \A i \in 1..at.trx : s.unpushed[i].block = Last(blocks)
    BY <1>1, <2>3 DEF Gathering, Log
  <2>5. Last(s.unpushed).block = Last(blocks)
    BY <1>1, <2>3, GatheredLast
  <2>6. LastNumber(at) = b.num
    BY <2>2, <2>4, <2>5 DEF LastNumber
  <2> QED
    BY <1>1, <1>3, <2>6
<1>13. r = [chain |-> c, unpushed |-> <<trx>>]
  BY <1>1, <1>10, <1>11, <1>12, NewGroup
<1>14. ASSUME c # Null
       PROVE  /\ Follows(r, p, final) /\ NotAhead(s.chain, c)
              /\ r.unpushed # <<>> /\ Last(r.unpushed) = trx
  <2>1. c \in Chain /\ c.blocks = blocks /\ FinalIn(c, final) /\ NotAhead(s.chain, c)
    BY <1>1, <1>14, SettledComplete
  <2>2. /\ <<trx>> \in Seq(Trx) /\ Len(<<trx>>) = 1 /\ <<trx>> # <<>>
        /\ <<trx>>[1] = trx /\ Last(<<trx>>) = trx
    BY <1>10 DEF Last
  <2> HIDE DEF c, r
  <2>3. r \in Log
    BY <1>13, <2>1, <2>2 DEF Log
  <2>4. /\ p.blocks = longer /\ p.trx = 1 /\ p.undoing = FALSE
        /\ trx.undo = FALSE /\ trx.block = b /\ trx.trx = 1
        /\ trx.irreversibleBlockNum = FinalNumber
    BY <1>9 DEF p
  <2>5. r.unpushed = <<trx>> /\ r.chain = c
    BY <1>13
  <2>6. Gathering(r, p, final)
    <3>1. \A i \in 1..p.trx : i = 1
      BY <2>4
    <3> QED
      BY <1>2, <1>8, <2>1, <2>2, <2>4, <2>5, <3>1 DEF Gathering
  <2> QED
    BY <1>6, <2>1, <2>2, <2>3, <2>5, <2>6 DEF Follows
<1>15. trx.cursor = p /\ r.chain = c
  BY <1>9, <1>13
<1> QED
  BY <1>6, <1>10, <1>11, <1>14, <1>15 DEF Takes, trx, c, r

LEMMA TakesNext ==
  ASSUME ProviderInv, NEW s, Follows(s, at, final), ~Complete(at), ~at.undoing, ~Forked
  PROVE  NextTrx \in Trx /\ Takes(s, NextTrx)
<1> DEFINE blocks == at.blocks
           p == [at EXCEPT !.trx = @ + 1]
           trx == NextTrx
           u == s.unpushed
           r == pushTrx(s, trx)
<1>1. /\ CursorOk(at) /\ s \in Log /\ blocks \in Seq(EosioBlock) /\ Sorted(blocks)
      /\ \A i \in 1..Len(blocks) : blocks[i].num > 0
      /\ at.trx \in Nat /\ at.undoing = FALSE
      /\ at = [blocks |-> blocks, trx |-> at.trx, undoing |-> FALSE]
      /\ FinalIn(s.chain, final)
  BY DEF ProviderInv, CursorOk, Cursor, Follows
<1>2. blocks # <<>> /\ at.trx \in 1..AllTrx(blocks) /\ at.trx # AllTrx(blocks)
  BY <1>1 DEF CursorOk, Complete, AllTrx
<1>3. Last(blocks) \in EosioBlock
  BY <1>1, <1>2, FrontAndLast
<1>4. AllTrx(blocks) \in Nat
  BY <1>2, <1>3, BlockFacts DEF AllTrx
<1>5. p = [blocks |-> blocks, trx |-> at.trx + 1, undoing |-> FALSE]
  <2>1. at \in Cursor
    BY <1>1 DEF CursorOk
  <2>2. p = [blocks |-> blocks, trx |-> at.trx + 1, undoing |-> at.undoing]
    BY <2>1 DEF Cursor
  <2> QED
    BY <1>1, <2>2
<1> HIDE DEF p
<1>6. CursorOk(p)
  BY <1>1, <1>2, <1>4, <1>5 DEF CursorOk, Cursor
<1>7. trx = [undo |-> FALSE, block |-> Last(blocks), trx |-> at.trx + 1, cursor |-> p,
             irreversibleBlockNum |-> FinalNumber]
  BY DEF NextTrx, JsonTrx, p
<1> HIDE DEF trx
<1>8. FinalNumber \in Nat
  BY FinalNumberIsNat
<1>9. trx \in Trx
  <2>1. p \in Cursor /\ at.trx + 1 \in Nat
    BY <1>1, <1>6 DEF CursorOk
  <2> QED
    BY <1>3, <1>7, <1>8, <2>1 DEF Trx
<1>10. HasTrace(trx)
  BY <1>1, <1>7 DEF HasTrace
<1>11. Gathering(s, at, final)
  BY <1>1 DEF Follows, Flushed
<1>12. /\ u \in Seq(Trx) /\ u # <<>> /\ Len(u) = at.trx
       /\ \A i \in 1..at.trx : u[i].undo = FALSE /\ u[i].block = Last(blocks) /\ u[i].trx = i
       /\ s.chain.blocks = Front(blocks)
       /\ s.chain \in Chain
  BY <1>1, <1>11 DEF Gathering, Log
<1>13. Last(u).undo = FALSE /\ Last(u).block = Last(blocks)
  BY <1>1, <1>11, GatheredLast
<1>14. SameGroup(trx, Last(u))
  BY <1>7, <1>13 DEF SameGroup
<1>15. r = [chain |-> s.chain, unpushed |-> Append(u, trx)]
  BY <1>1, <1>9, <1>10, <1>12, <1>14, SameGroupTaken
<1>16. /\ Append(u, trx) \in Seq(Trx) /\ Len(Append(u, trx)) = at.trx + 1
       /\ \A i \in 1..at.trx : Append(u, trx)[i] = u[i]
       /\ Append(u, trx)[at.trx + 1] = trx
       /\ Append(u, trx) # <<>> /\ Last(Append(u, trx)) = trx
  BY <1>9, <1>12, AppendFacts
<1>17. Covers(blocks, FinalNumber, final)
  BY <1>1, AgreeUnlessForked, FinalIsCovered
<1> DEFINE v == Append(u, trx)
<1> HIDE DEF r, u, v
<1>18. r.chain = s.chain /\ r.unpushed = v /\ r \in Log
  BY <1>12, <1>15, <1>16 DEF Log, v
<1>19. Gathering(r, p, final)
  <2>1. /\ p.blocks = blocks /\ p.trx = at.trx + 1 /\ p.undoing = FALSE
        /\ trx.undo = FALSE /\ trx.block = Last(blocks) /\ trx.trx = at.trx + 1
        /\ trx.irreversibleBlockNum = FinalNumber
    BY <1>5, <1>7
  <2>2. ASSUME NEW i \in 1..p.trx
        PROVE  v[i].undo = FALSE /\ v[i].block = Last(blocks) /\ v[i].trx = i
    <3>1. i \in 1..at.trx \/ i = at.trx + 1
      BY <1>1, <2>1
    <3> QED
      BY <1>12, <1>16, <2>1, <3>1 DEF v
  <2> QED
    BY <1>2, <1>12, <1>16, <1>17, <1>18, <2>1, <2>2 DEF Gathering, v
<1>20. Follows(r, p, final)
  BY <1>1, <1>6, <1>18, <1>19 DEF Follows
<1>21. NotAhead(s.chain, r.chain)
  BY <1>1, <1>18, NotAheadSame
<1>22. trx.cursor = p
  BY <1>7
<1> QED
  BY <1>6, <1>9, <1>10, <1>16, <1>18, <1>20, <1>21, <1>22 DEF Takes, trx, r, v

(* The log in which the last block that was delivered is the last one,     *)
(* possibly cut short, and not final.                                      *)
EndsWithLast(c, s) ==
  /\ c \in Chain /\ FinalIn(c, final) /\ NotAhead(s.chain, c)
  /\ c.final <= Len(Front(at.blocks))
  /\ \E e \in AnyBlock :
       /\ c.blocks = Append(Front(at.blocks), e)
       /\ e.num = Last(at.blocks).num /\ e.fork = Last(at.blocks).fork

LEMMA SettledForUndo ==
  ASSUME ProviderInv, NEW s, Follows(s, at, final), Undoable, at.undoing = FALSE,
         at.blocks # <<>>, Settled(s) # Null
  PROVE  EndsWithLast(Settled(s), s)
<1> DEFINE blocks == at.blocks
           c == Settled(s)
<1>1. /\ blocks \in Seq(EosioBlock) /\ s \in Log /\ CursorOk(at) /\ FinalIn(s.chain, final)
      /\ final \in Seq(EosioBlock) /\ s.chain \in Chain
  BY DEF ProviderInv, CursorOk, Cursor, Follows, Log
<1>2. /\ Front(blocks) \in Seq(EosioBlock) /\ Len(Front(blocks)) = Len(blocks) - 1
      /\ \A i \in 1..Len(blocks) - 1 : Front(blocks)[i] = blocks[i]
      /\ Last(blocks) \in EosioBlock /\ Len(blocks) \in Nat \ {0}
      /\ blocks = Append(Front(blocks), Last(blocks))
  BY <1>1, FrontAndLast
<1>3. ASSUME NEW k \in Nat, k <= Len(blocks),
             \A i \in 1..k : i <= Len(final) /\ blocks[i] = final[i]
      PROVE  k <= Len(Front(blocks))
  <2>1. k # Len(blocks)
    BY <1>3, UndoableIsNotFinal
  <2> QED
    BY <1>2, <1>3, <2>1
<1>4. CASE Complete(at)
  <2>1. c \in Chain /\ c.blocks = blocks /\ FinalIn(c, final) /\ NotAhead(s.chain, c)
    BY <1>1, <1>4, SettledComplete
  <2> HIDE DEF c
  <2>2. c.final \in Nat /\ c.final <= Len(blocks) /\ Len(final) \in Nat
    BY <1>1, <2>1 DEF FinalIn, Chain
  <2>3. \A i \in 1..c.final : i <= Len(final) /\ blocks[i] = final[i]
    BY <2>1, <2>2 DEF FinalIn
  <2>4. c.final <= Len(Front(blocks))
    BY <1>3, <2>2, <2>3
  <2>5. Last(blocks) \in AnyBlock
    BY <1>2, BlockFacts
  <2> QED
    BY <1>2, <2>1, <2>4, <2>5 DEF EndsWithLast, c
<1>5. CASE ~Complete(at)
  <2>1. Gathering(s, at, final)
    BY <1>5 DEF Follows, Flushed
  <2>2. c = Flush(s.chain, s.unpushed) /\ s.chain.blocks = Front(blocks)
    BY <2>1 DEF Settled, Gathering
  <2>3. FlushedBlock(c, s, at, final)
    BY <1>1, <2>1, <2>2, GatheringFlushed
  <2> HIDE DEF c
  <2>4. c \in Chain /\ s.chain.final <= c.final /\ c.final \in Nat /\ c.final <= Len(blocks)
        /\ \A i \in 1..c.final : i <= Len(final) /\ blocks[i] = final[i]
    BY <2>3 DEF FlushedBlock, Chain
  <2>5. c.final <= Len(Front(blocks))
    BY <1>3, <2>4
  <2>6. PICK e \in AnyBlock : /\ c.blocks = Append(Front(blocks), e)
                              /\ e.num = Last(blocks).num /\ e.fork = Last(blocks).fork
    BY <2>3 DEF FlushedBlock
  <2>7. Front(blocks) \in Seq(AnyBlock)
    BY <1>2, BlockFacts
  <2>8. /\ Len(c.blocks) = Len(Front(blocks)) + 1
        /\ \A i \in 1..Len(Front(blocks)) : c.blocks[i] = Front(blocks)[i]
    BY <2>6, <2>7, AppendFacts
  <2>9. FinalIn(c, final)
    <3>1. Len(final) \in Nat
      BY <1>1
    <3>2. c.final <= Len(c.blocks)
      BY <1>2, <2>4, <2>5, <2>8
    <3>3. c.final <= Len(final)
      <4>1. CASE c.final = 0
        BY <3>1, <4>1
      <4>2. CASE c.final # 0
        <5>1. c.final \in 1..c.final
          BY <2>4, <4>2
        <5> QED
          BY <2>4, <5>1
      <4> QED
        BY <4>1, <4>2
    <3>4. ASSUME NEW i \in 1..c.final PROVE c.blocks[i] = final[i]
      <4>1. i \in 1..Len(Front(blocks)) /\ i \in 1..Len(blocks) - 1
        BY <1>2, <2>4, <2>5
      <4> QED
        BY <1>2, <2>4, <2>8, <4>1
    <3> QED
      BY <3>2, <3>3, <3>4 DEF FinalIn
  <2>10. NotAhead(s.chain, c)
    <3>1. s.chain.final <= Len(s.chain.blocks)
      BY <1>1 DEF FinalIn
    <3> QED
      BY <1>1, <2>2, <2>4, <2>6, <3>1, NotAheadOfAppended
  <2> QED
    BY <2>4, <2>5, <2>6, <2>9, <2>10 DEF EndsWithLast, c
<1> QED
  BY <1>4, <1>5

LEMMA UndoneCursor ==
  ASSUME ProviderInv, at.blocks # <<>>
  PROVE  /\ CursorOk(UndoTrx.cursor) /\ UndoTrx \in Trx /\ HasTrace(UndoTrx)
         /\ UndoTrx.undo = TRUE /\ UndoTrx.block = Last(at.blocks)
         /\ \/ UndoTrx.cursor.undoing = TRUE /\ UndoTrx.cursor.blocks = at.blocks
            \/ Complete(UndoTrx.cursor) /\ UndoTrx.cursor.blocks = Front(at.blocks)
<1> DEFINE blocks == at.blocks
           front == Front(blocks)
           q == UndoTrx.cursor
<1>1. /\ CursorOk(at) /\ at \in Cursor /\ blocks \in Seq(EosioBlock) /\ Sorted(blocks)
      /\ \A i \in 1..Len(blocks) : blocks[i].num > 0 /\ blocks[i].actions # <<>>
      /\ at.trx \in Nat /\ at.trx \in 1..AllTrx(blocks)
  BY DEF ProviderInv, CursorOk, Cursor
<1>2. /\ front \in Seq(EosioBlock) /\ Len(front) = Len(blocks) - 1
      /\ \A i \in 1..Len(blocks) - 1 : front[i] = blocks[i]
      /\ Last(blocks) \in EosioBlock /\ Len(blocks) \in Nat \ {0}
  BY <1>1, FrontAndLast
<1>3. FinalNumber \in Nat
  BY FinalNumberIsNat
<1>4. AllTrx(blocks) \in Nat
  BY <1>2, BlockFacts DEF AllTrx
<1> HIDE DEF front
<1>5. CASE at.trx > 1
  <2>1. q = [at EXCEPT !.trx = @ - 1, !.undoing = TRUE]
    BY <1>5 DEF UndoTrx, JsonTrx
  <2>2. q = [blocks |-> blocks, trx |-> at.trx - 1, undoing |-> TRUE]
    BY <1>1, <2>1 DEF Cursor
  <2> HIDE DEF q
  <2>3. at.trx - 1 \in Nat /\ at.trx - 1 \in 1..AllTrx(blocks)
    BY <1>1, <1>4, <1>5
  <2>4. q.blocks = blocks /\ q.trx = at.trx - 1 /\ q.undoing = TRUE /\ q \in Cursor
    BY <1>1, <2>2, <2>3 DEF Cursor
  <2>5. CursorOk(q)
    BY <1>1, <2>3, <2>4 DEF CursorOk
  <2> QED
    <3>1. UndoTrx = [undo |-> TRUE, block |-> Last(blocks), trx |-> at.trx, cursor |-> q,
                     irreversibleBlockNum |-> FinalNumber]
      BY DEF UndoTrx, JsonTrx, q
    <3>2. UndoTrx \in Trx
      BY <1>1, <1>2, <1>3, <2>4, <3>1 DEF Trx
    <3>3. HasTrace(UndoTrx)
      BY <1>5, <3>1 DEF HasTrace
    <3> QED
      BY <2>4, <2>5, <3>1, <3>2, <3>3
<1>6. CASE ~(at.trx > 1)
  <2>1. q = [blocks |-> front, undoing |-> FALSE, trx |-> AllTrx(front)]
    BY <1>6 DEF UndoTrx, JsonTrx, front
  <2> HIDE DEF q
  <2>2. ASSUME front # <<>> PROVE AllTrx(front) \in Nat \ {0}
    <3>1. Last(front) \in EosioBlock /\ Last(front) = front[Len(front)] /\ Len(front) \in Nat \ {0}
      BY <1>2, <2>2, FrontAndLast
    <3>2. Last(front) = blocks[Len(front)] /\ Len(front) \in 1..Len(blocks)
      <4> DEFINE m == Len(front)
                 n == Len(blocks)
      <4>1. m \in Nat \ {0} /\ n \in Nat /\ m = n - 1
        BY <1>2, <3>1
      <4> HIDE DEF m, n
      <4>2. m \in 1..n - 1 /\ m \in 1..n
        BY <4>1
      <4> QED
        BY <1>2, <3>1, <4>2 DEF m, n
    <3>3. Last(front).actions # <<>> /\ Last(front).actions \in Seq(Action)
      BY <1>1, <3>1, <3>2, BlockFacts
    <3> QED
      BY <2>2, <3>3 DEF AllTrx
  <2>3. front = <<>> => AllTrx(front) = 0
    BY DEF AllTrx
  <2>4. AllTrx(front) \in Nat
    BY <2>2, <2>3
  <2>5. q.blocks = front /\ q.trx = AllTrx(front) /\ q.undoing = FALSE /\ q \in Cursor
    BY <1>2, <2>1, <2>4 DEF Cursor
  <2>6. Sorted(front) /\ \A i \in 1..Len(front) : front[i].num > 0 /\ front[i].actions # <<>>
    <3>1. \A i \in 1..Len(front) : i \in 1..Len(blocks) /\ i \in 1..Len(blocks) - 1
      BY <1>2
    <3> QED
      BY <1>1, <1>2, <3>1 DEF Sorted
  <2>7. CursorOk(q)
    <3>1. front # <<>> => AllTrx(front) \in 1..AllTrx(front)
      BY <2>2
    <3> QED
      BY <2>3, <2>5, <2>6, <3>1 DEF CursorOk
  <2>8. UndoTrx = [undo |-> TRUE, block |-> Last(blocks), trx |-> at.trx, cursor |-> q,
                   irreversibleBlockNum |-> FinalNumber]
    BY DEF UndoTrx, JsonTrx, q
  <2>9. UndoTrx \in Trx
    BY <1>1, <1>2, <1>3, <2>5, <2>8 DEF Trx
  <2>10. HasTrace(UndoTrx)
    BY <1>1, <2>8 DEF HasTrace
  <2>11. Complete(q)
    BY <2>5 DEF Complete
  <2>12. UndoTrx.undo = TRUE /\ UndoTrx.block = Last(blocks) /\ UndoTrx.cursor = q
    BY <2>8
  <2> QED
    BY <2>5, <2>7, <2>9, <2>10, <2>11, <2>12 DEF front
<1> QED
  BY <1>4, <1>1, <1>5, <1>6

LEMMA TakesUndo ==
  ASSUME ProviderInv, NEW s, Follows(s, at, final), Undoable
  PROVE  UndoTrx \in Trx /\ Takes(s, UndoTrx)
<1> DEFINE blocks == at.blocks
           front == Front(blocks)
           trx == UndoTrx
           q == trx.cursor
           u == s.unpushed
           r == pushTrx(s, trx)
<1>1. /\ CursorOk(at) /\ blocks \in Seq(EosioBlock) /\ Sorted(blocks) /\ at.undoing \in BOOLEAN
      /\ s \in Log /\ s.chain \in Chain /\ u \in Seq(Trx) /\ FinalIn(s.chain, final)
  BY DEF ProviderInv, CursorOk, Cursor, Follows, Log
<1>2. blocks # <<>>
  BY UndoableHasBlock
<1>3. /\ CursorOk(q) /\ trx \in Trx /\ HasTrace(trx)
      /\ trx.undo = TRUE /\ trx.block = Last(blocks)
      /\ \/ q.undoing = TRUE /\ q.blocks = blocks
         \/ Complete(q) /\ q.blocks = front
  BY <1>2, UndoneCursor
<1> HIDE DEF trx, q
<1>4. /\ front \in Seq(EosioBlock) /\ Len(front) = Len(blocks) - 1
      /\ \A i \in 1..Len(blocks) - 1 : front[i] = blocks[i]
      /\ Last(blocks) \in EosioBlock /\ Len(blocks) \in Nat \ {0}
      /\ Last(blocks) = blocks[Len(blocks)]
  BY <1>1, <1>2, FrontAndLast
<1>5. \A i \in 1..Len(front) : front[i].num < Last(blocks).num
  <2>1. \A i \in 1..Len(front) : /\ i \in 1..Len(blocks) - 1 /\ i \in 1..Len(blocks)
                                 /\ Len(blocks) \in 1..Len(blocks) /\ i < Len(blocks)
    BY <1>4
  <2> QED
    BY <1>1, <1>4, <2>1 DEF Sorted
(* It is enough that its undo is what the log gathers.                     *)
<1>6. ASSUME r \in Log, FinalIn(r.chain, final), NotAhead(s.chain, r.chain),
             Undoing(r, front), Last(r.unpushed) = trx
      PROVE  Takes(s, trx)
  <2>1. \/ q.undoing = TRUE /\ Undoing(r, Front(q.blocks)) /\ Last(r.unpushed).block = Last(q.blocks)
        \/ Complete(q) /\ Undoing(r, q.blocks)
    BY <1>3, <1>6
  <2>2. Follows(r, q, final)
    BY <1>3, <1>6, <2>1 DEF Follows
  <2>3. r.unpushed # <<>>
    BY <1>6 DEF Undoing
  <2> QED
    BY <1>3, <1>6, <2>2, <2>3 DEF Takes, q
<1>7. CASE at.undoing = TRUE
  <2>1. Undoing(s, front) /\ Last(u).block = Last(blocks)
    BY <1>7 DEF Follows, Flushed, Gathering, Complete
  <2>2. u # <<>> /\ Last(u).undo = TRUE
    BY <2>1 DEF Undoing
  <2>3. SameGroup(trx, Last(u))
    BY <1>3, <2>1, <2>2 DEF SameGroup
  <2>4. r = [chain |-> s.chain, unpushed |-> Append(u, trx)]
    BY <1>1, <1>3, <2>2, <2>3, SameGroupTaken
  <2>5. Append(u, trx) \in Seq(Trx) /\ Append(u, trx) # <<>> /\ Last(Append(u, trx)) = trx
    BY <1>1, <1>3, AppendFacts
  <2> DEFINE v == Append(u, trx)
  <2> HIDE DEF r, v
  <2>6. r \in Log /\ r.chain = s.chain /\ r.unpushed = v /\ v # <<>> /\ Last(v) = trx
    BY <1>1, <2>4, <2>5 DEF Log, v
  <2>7. Undoing(r, front)
    BY <1>3, <2>1, <2>6 DEF Undoing
  <2>8. NotAhead(s.chain, s.chain)
    BY <1>1, NotAheadSame
  <2> QED
    BY <1>1, <1>3, <1>6, <2>6, <2>7, <2>8 DEF r, trx
<1>8. CASE at.undoing = FALSE
  <2> DEFINE c == Settled(s)
  <2>1. u # <<>> => ~SameGroup(trx, Last(u))
    <3>1. SUFFICES ASSUME u # <<>>, SameGroup(trx, Last(u)) PROVE FALSE
      OBVIOUS
    <3>2. Last(u).undo = TRUE /\ Last(u).block.num = Last(blocks).num
      BY <1>3, <3>1 DEF SameGroup
    <3>3. ~Gathering(s, at, final)
      BY <1>1, <3>2, GatheredLast
    <3>4. Undoing(s, blocks)
      BY <1>8, <3>1, <3>3 DEF Follows, Flushed
    <3>5. \A i \in 1..Len(blocks) : blocks[i].num < Last(blocks).num
      BY <3>2, <3>4 DEF Undoing
    <3>6. Last(blocks).num \in Nat
      BY <1>4, BlockFacts
    <3> QED
      BY <1>4, <3>5, <3>6
  <2>2. r = [chain |-> c, unpushed |-> <<trx>>]
    BY <1>1, <1>3, <2>1, NewGroup
  <2>3. CASE c = Null
    BY <1>3, <2>2, <2>3 DEF Takes, trx, q
  <2>4. CASE c # Null
    <3>1. EndsWithLast(c, s)
      BY <1>2, <1>8, <2>4, SettledForUndo
    <3> HIDE DEF c, r
    <3>2. /\ c \in Chain /\ FinalIn(c, final) /\ NotAhead(s.chain, c)
          /\ c.final <= Len(front)
      BY <3>1 DEF EndsWithLast
    <3>3. PICK e \in AnyBlock : /\ c.blocks = Append(front, e)
                                /\ e.num = Last(blocks).num /\ e.fork = Last(blocks).fork
      BY <3>1 DEF EndsWithLast
    <3>4. /\ <<trx>> \in Seq(Trx) /\ <<trx>> # <<>> /\ Last(<<trx>>) = trx
      BY <1>3 DEF Last
    <3>5. r \in Log /\ r.chain = c /\ r.unpushed = <<trx>>
      BY <2>2, <3>2, <3>4 DEF Log
    <3>6. Last(c.blocks) = e
      <4>1. front \in Seq(AnyBlock)
        BY <1>4, BlockFacts
      <4> QED
        BY <3>3, <4>1, AppendFacts
    <3>7. Undoing(r, front)
      BY <1>3, <1>5, <3>2, <3>3, <3>4, <3>5, <3>6 DEF Undoing
    <3> QED
      BY <1>3, <1>6, <3>2, <3>4, <3>5, <3>7 DEF r, trx
  <2> QED
    BY <2>3, <2>4
<1> QED
  BY <1>1, <1>3, <1>7, <1>8 DEF trx

LEMMA TakesMarker ==
  ASSUME ProviderInv, NEW s, Follows(s, at, final), Complete(at), NEW num \in Nat,
         s.unpushed # <<>>, Last(s.unpushed).block.num < num
  PROVE  Marker(num) \in Trx /\ Takes(s, Marker(num))
<1> DEFINE b == [num |-> num, fork |-> 0, actions |-> <<>>]
           trx == Marker(num)
           c == Settled(s)
           r == pushTrx(s, trx)
           u == s.unpushed
<1>1. /\ CursorOk(at) /\ at \in Cursor /\ s \in Log /\ u \in Seq(Trx)
      /\ final \in Seq(EosioBlock)
  BY DEF ProviderInv, CursorOk, Follows, Log
<1>2. trx = [undo |-> FALSE, block |-> b, trx |-> 0, cursor |-> at,
             irreversibleBlockNum |-> FinalNumber]
  BY DEF Marker, JsonTrx
<1>3. b \in MarkerBlock /\ b.num = num
  BY DEF MarkerBlock
<1> HIDE DEF b, trx
<1>4. trx \in Trx
  BY <1>1, <1>2, <1>3, FinalNumberIsNat DEF Trx
<1>5. ~HasTrace(trx)
  BY <1>2 DEF HasTrace
<1>6. Last(u).block.num \in Nat
  <2>1. Last(u) \in Trx
    BY <1>1, FrontAndLast
  <2>2. Last(u).block \in EosioBlock \cup MarkerBlock
    BY <2>1 DEF Trx
  <2> QED
    BY <2>2, BlockFacts DEF MarkerBlock
<1>7. ~SameGroup(trx, Last(u))
  <2>1. trx.block.num = num
    BY <1>2, <1>3
  <2>2. Last(u).block.num # num
    BY <1>6
  <2> QED
    BY <2>1, <2>2 DEF SameGroup
<1>8. r = [chain |-> c, unpushed |-> <<>>]
  BY <1>1, <1>4, <1>5, <1>7, NewGroup
<1>9. ASSUME c # Null
      PROVE  Follows(r, at, final) /\ NotAhead(s.chain, c)
  <2>1. c \in Chain /\ c.blocks = at.blocks /\ FinalIn(c, final) /\ NotAhead(s.chain, c)
    BY <1>1, <1>9, SettledComplete
  <2> HIDE DEF c, r
  <2>2. r \in Log /\ r.chain = c /\ r.unpushed = <<>>
    BY <1>8, <2>1 DEF Log
  <2>3. Flushed(r, at)
    BY <2>1, <2>2 DEF Flushed
  <2> QED
    BY <1>1, <2>1, <2>2, <2>3 DEF Follows
<1>10. trx.cursor = at /\ r.chain = c /\ r.unpushed = <<>>
  BY <1>2, <1>8
<1> QED
  BY <1>1, <1>4, <1>5, <1>9, <1>10 DEF Takes, trx, r, c

(* A message that is kept for the transactions.                            *)
KeptAfter(trxs, trx) ==
  HasTrace(trx) \/ (/\ trxs # <<>> /\ HasTrace(Last(trxs))
                    /\ Last(trxs).block.num < trx.block.num)

LEMMA ResumeAtAppended ==
  ASSUME NEW trxs \in Seq(Trx), NEW trx \in Trx
  PROVE  ResumeAt(Append(trxs, trx)) = trx.cursor
<1>1. Append(trxs, trx) # <<>> /\ Last(Append(trxs, trx)) = trx
  BY AppendFacts
<1> QED
  BY <1>1 DEF ResumeAt

LEMMA MessageTaken ==
  ASSUME ProviderInv, NEW s, NEW trxs, Logged(s, trxs, final), at = ResumeAt(trxs),
         NEW trx \in Deliverable \cup Markers, KeptAfter(trxs, trx)
  PROVE  /\ trx \in Trx /\ CursorOk(trx.cursor)
         /\ pushTrx(s, trx).chain # Null =>
              /\ Logged(pushTrx(s, trx), Append(trxs, trx), final)
              /\ NotAhead(s.chain, pushTrx(s, trx).chain)
<1>1. Follows(s, at, final) /\ trxs \in Seq(Trx) /\ s = Replayed(trxs) /\ Joined(s, trxs)
  BY DEF Logged
<1>2. at.undoing \in BOOLEAN
  BY DEF ProviderInv, CursorOk, Cursor
<1>3. trx \in Trx /\ Takes(s, trx)
  <2>1. CASE Complete(at) /\ ~Forked /\ \E b \in NewBlocks : trx = FirstTrx(b)
    BY <1>1, <2>1, TakesFirst
  <2>2. CASE ~Complete(at) /\ ~at.undoing /\ ~Forked /\ trx = NextTrx
    BY <1>1, <2>2, TakesNext
  <2>3. CASE Undoable /\ trx = UndoTrx
    BY <1>1, <2>3, TakesUndo
  <2>4. CASE trx \in Markers
    <3>1. PICK num \in {LastNumber(at) + 1, MaxNumber + 1} : Complete(at) /\ trx = Marker(num)
      BY <2>4 DEF Markers
    <3>2. num \in Nat
      BY FinalNumberIsNat, MaxNumberAssumption
    <3>3. ~HasTrace(trx) /\ trx.block.num = num
      BY <3>1 DEF HasTrace, Marker, JsonTrx
    <3>4. trxs # <<>> /\ HasTrace(Last(trxs)) /\ Last(trxs).block.num < num
      BY <3>3 DEF KeptAfter
    <3>5. s.unpushed # <<>> /\ Last(s.unpushed).block.num < num
      BY <1>1, <3>4 DEF Joined
    <3> QED
      BY <1>1, <3>1, <3>2, <3>5, TakesMarker
  <2> QED
    BY <2>1, <2>2, <2>3, <2>4 DEF Deliverable
<1>4. ASSUME pushTrx(s, trx).chain # Null
      PROVE  Logged(pushTrx(s, trx), Append(trxs, trx), final)
  <2> DEFINE r == pushTrx(s, trx)
             longer == Append(trxs, trx)
  <2>1. r = Replayed(longer)
    BY <1>1, <1>3, ReplayedAppend
  <2>2. ResumeAt(longer) = trx.cursor
    BY <1>1, <1>3, ResumeAtAppended
  <2>3. longer \in Seq(Trx) /\ longer # <<>> /\ Last(longer) = trx
    BY <1>1, <1>3, AppendFacts
  <2>4. /\ Follows(r, trx.cursor, final)
        /\ IF HasTrace(trx) THEN r.unpushed # <<>> /\ Last(r.unpushed) = trx
           ELSE r.unpushed = <<>>
    BY <1>3, <1>4 DEF Takes
  <2> HIDE DEF r, longer
  <2>5. Joined(r, longer)
    BY <2>3, <2>4 DEF Joined
  <2> QED
    BY <2>1, <2>2, <2>3, <2>4, <2>5 DEF Logged, r, longer
<1> QED
  BY <1>3, <1>4 DEF Takes

LEMMA SkippedIsMarker ==
  ASSUME ProviderInv, NEW trx \in Deliverable \cup Markers, ~HasTrace(trx)
  PROVE  trx.cursor = at
<1>1. at.trx \in Nat
  BY DEF ProviderInv, CursorOk, Cursor
<1>2. ASSUME NEW b \in NewBlocks, trx = FirstTrx(b) PROVE FALSE
  BY <1>2 DEF FirstTrx, JsonTrx, HasTrace
<1>3. trx # NextTrx
  BY <1>1 DEF NextTrx, JsonTrx, HasTrace
<1>4. ASSUME Undoable, trx = UndoTrx PROVE FALSE
  <2>1. HasTrace(UndoTrx)
    BY <1>4, UndoableHasBlock, UndoneCursor
  <2> QED
    BY <1>4, <2>1
<1>5. trx \in Markers
  BY <1>2, <1>3, <1>4 DEF Deliverable
<1> QED
  BY <1>5 DEF Markers, Marker, JsonTrx
-----------------------------------------------------------------------------
(* The steps.                                                              *)

LEMMA NotAheadTransitive ==
  ASSUME NEW c \in Chain, NEW d \in Chain, NEW e \in Chain,
         NotAhead(c, d), NotAhead(d, e)
  PROVE  NotAhead(c, e)
<1>1. c.final \in Nat /\ d.final \in Nat /\ e.final \in Nat
  BY DEF Chain
<1>2. c.final <= e.final
  BY <1>1 DEF NotAhead
<1>3. ASSUME NEW i \in 1..c.final
      PROVE  i <= Len(e.blocks) /\ c.blocks[i] = e.blocks[i]
  <2>1. i \in 1..d.final
    BY <1>1 DEF NotAhead
  <2> QED
    BY <2>1 DEF NotAhead
<1> QED
  BY <1>2, <1>3 DEF NotAhead

(* What is known about a log.                                              *)
LEMMA LoggedFacts ==
  ASSUME NEW s, NEW trxs, NEW fin, Logged(s, trxs, fin)
  PROVE  /\ s \in Log /\ s.chain \in Chain /\ s.chain.final <= Len(s.chain.blocks)
         /\ s = [chain |-> s.chain, unpushed |-> s.unpushed]
         /\ CursorOk(ResumeAt(trxs)) /\ trxs \in Seq(Trx)
         /\ NotAhead(s.chain, s.chain)
<1>1. s \in Log /\ FinalIn(s.chain, fin) /\ CursorOk(ResumeAt(trxs)) /\ trxs \in Seq(Trx)
  BY DEF Logged, Follows
<1>2. NotAhead(s.chain, s.chain)
  BY <1>1, NotAheadSame
<1> QED
  BY <1>1, <1>2 DEF Log, FinalIn

LEMMA DfuseInitCorrect == Init => DfuseInv
<1> SUFFICES ASSUME Init PROVE DfuseInv
  OBVIOUS
<1>1. CursorOk(Start) /\ Complete(Start) /\ Start.blocks = <<>>
  BY DEF CursorOk, Cursor, Start, Sorted, Complete, AllTrx
<1>2. ProviderInv
  BY <1>1 DEF Init, ProviderInv, Sorted
<1>3. ~Running /\ ProcessInv
  BY DEF Init, ProcessInv, Running
<1>4. Logged(Replayed(<<>>), <<>>, <<>>)
  <2>1. Fresh = [chain |-> [blocks |-> <<>>, final |-> 0], unpushed |-> <<>>]
    BY DEF Fresh, Storage!Empty
  <2>2. Fresh \in Log /\ Fresh.unpushed = <<>> /\ Fresh.chain.blocks = <<>> /\ Fresh.chain.final = 0
    BY <2>1 DEF Log, Chain
  <2>3. FinalIn(Fresh.chain, <<>>)
    BY <2>2 DEF FinalIn
  <2>4. ResumeAt(<<>>) = Start
    BY DEF ResumeAt
  <2>5. Flushed(Fresh, Start)
    BY <1>1, <2>2 DEF Flushed
  <2>6. Follows(Fresh, Start, <<>>)
    BY <1>1, <2>2, <2>3, <2>5 DEF Follows
  <2>7. Joined(Fresh, <<>>)
    BY <2>2 DEF Joined
  <2> QED
    BY <2>4, <2>6, <2>7, ReplayedEmpty DEF Logged
<1>5. FileInv
  BY <1>3, <1>4 DEF Init, FileInv
<1> QED
  BY <1>2, <1>3, <1>5 DEF DfuseInv

(* More blocks that are final change nothing.                              *)
LEMMA LoggedWhenFinal ==
  ASSUME NEW s, NEW trxs, NEW fin \in Seq(EosioBlock), NEW more \in Seq(EosioBlock),
         Logged(s, trxs, fin), Len(fin) <= Len(more),
         \A i \in 1..Len(fin) : more[i] = fin[i]
  PROVE  Logged(s, trxs, more)
<1> DEFINE p == ResumeAt(trxs)
<1>1. Follows(s, p, fin)
  BY DEF Logged
<1>2. Len(fin) \in Nat /\ Len(more) \in Nat
  OBVIOUS
<1>3. s.chain.final \in Nat /\ p.blocks \in Seq(EosioBlock)
  BY <1>1 DEF Follows, Log, Chain, CursorOk, Cursor
<1>4. FinalIn(s.chain, more)
  <2>1. FinalIn(s.chain, fin)
    BY <1>1 DEF Follows
  <2>2. \A i \in 1..s.chain.final : i \in 1..Len(fin)
    BY <1>2, <1>3, <2>1 DEF FinalIn
  <2> QED
    BY <1>2, <1>3, <2>1, <2>2 DEF FinalIn
<1>5. Gathering(s, p, fin) => Gathering(s, p, more)
  <2>1. ASSUME NEW n, Covers(p.blocks, n, fin) PROVE Covers(p.blocks, n, more)
    <3>1. SUFFICES ASSUME NEW i \in 1..Len(p.blocks), p.blocks[i].num <= n
                   PROVE  i <= Len(more) /\ p.blocks[i] = more[i]
      BY DEF Covers
    <3>2. i <= Len(fin) /\ p.blocks[i] = fin[i]
      BY <2>1, <3>1 DEF Covers
    <3>3. i \in 1..Len(fin)
      BY <1>2, <3>2
    <3> QED
      BY <1>2, <3>2, <3>3
  <2> HIDE DEF p
  <2> QED
    BY <2>1 DEF Gathering
<1> HIDE DEF p
<1>6. Follows(s, p, more)
  BY <1>1, <1>4, <1>5 DEF Follows
<1> QED
  BY <1>6 DEF Logged, p

LEMMA FinalizeStep ==
  ASSUME DfuseInv, Finalize
  PROVE  DfuseInv'
<1>1. PICK k \in Len(final) + 1..Len(at.blocks) :
        IsPrefix(final, at.blocks) /\ final' = SubSeq(at.blocks, 1, k)
  BY DEF Finalize
<1>2. /\ at' = at /\ jsonTransactions' = jsonTransactions
      /\ unpushedTransactions' = unpushedTransactions /\ box' = box
      /\ stream' = stream /\ retry' = retry /\ up' = up
      /\ jsonFile' = jsonFile /\ stateFile' = stateFile
  BY DEF Finalize, process, files
<1>3. /\ final \in Seq(EosioBlock) /\ at.blocks \in Seq(EosioBlock)
      /\ Sorted(at.blocks) /\ CursorOk(at)
  BY DEF DfuseInv, ProviderInv, CursorOk, Cursor
<1>4. Len(final) \in Nat /\ Len(at.blocks) \in Nat
  BY <1>3
<1>5. /\ final' \in Seq(EosioBlock) /\ Len(final') = k
      /\ \A i \in 1..k : final'[i] = at.blocks[i] /\ i \in 1..Len(at.blocks)
  BY <1>1, <1>3, <1>4
<1>6. Len(final) <= Len(final') /\ \A i \in 1..Len(final) : final'[i] = final[i]
  <2>1. SubSeq(final, 1, Len(final)) = SubSeq(at.blocks, 1, Len(final))
    BY <1>1 DEF IsPrefix
  <2>2. ASSUME NEW i \in 1..Len(final) PROVE at.blocks[i] = final[i] /\ i \in 1..k
    <3>1. /\ SubSeq(final, 1, Len(final))[i] = final[i]
          /\ SubSeq(at.blocks, 1, Len(final))[i] = at.blocks[i]
      BY <1>1, <1>3, <1>4
    <3> QED
      BY <1>1, <1>4, <2>1, <3>1
  <2> QED
    BY <1>1, <1>4, <1>5, <2>2
<1>7. Sorted(final')
  BY <1>3, <1>5 DEF Sorted
<1>8. ProviderInv'
  BY <1>2, <1>3, <1>5, <1>7 DEF ProviderInv
<1>9. ASSUME NEW s, NEW trxs, Logged(s, trxs, final) PROVE Logged(s, trxs, final')
  BY <1>3, <1>5, <1>6, <1>9, LoggedWhenFinal
<1>10. ProcessInv'
  <2>1. Current' = Current /\ Running' = Running
    BY <1>2 DEF Current, Running
  <2> QED
    BY <1>2, <1>9, <2>1 DEF DfuseInv, ProcessInv
<1>11. FileInv'
  <2>1. Running' = Running
    BY <1>2 DEF Running
  <2> QED
    BY <1>2, <1>9, <2>1 DEF DfuseInv, FileInv
<1> QED
  BY <1>8, <1>10, <1>11 DEF DfuseInv

LEMMA MessageStep ==
  ASSUME DfuseInv, NEW trx \in Deliverable \cup Markers, onMessage(trx)
  PROVE  DfuseInv'
<1> DEFINE J == jsonTransactions
           r == pushTrx(Current, trx)
           F == Replayed(jsonFile)
<1>1. /\ up /\ stream = TRUE /\ retry = FALSE /\ Running
      /\ at' = trx.cursor /\ final' = final /\ retry' = FALSE /\ up' = up
  BY DEF onMessage, Skip, Keep, Read, DfuseInv, ProcessInv, Running
<1>2. /\ ProviderInv /\ Logged(Current, J, final) /\ at = ResumeAt(J)
      /\ Logged(F, jsonFile, final) /\ NotAhead(F.chain, box)
      /\ stateFile # Null =>
           /\ stateFile \in Chain /\ stateFile.final <= Len(stateFile.blocks)
           /\ NotAhead(stateFile, F.chain)
  BY <1>1 DEF DfuseInv, ProcessInv, FileInv
<1>3. IsKept(trx) <=> KeptAfter(J, trx)
  BY DEF IsKept, KeptAfter
<1>4. CASE Skip(trx)
  <2>1. /\ jsonTransactions' = J /\ unpushedTransactions' = unpushedTransactions
        /\ box' = box /\ stream' = stream /\ jsonFile' = jsonFile /\ stateFile' = stateFile
    BY <1>4 DEF Skip, process, files
  <2>2. ~HasTrace(trx)
    BY <1>4 DEF Skip, IsKept
  <2>3. at' = at
    BY <1>1, <1>2, <2>2, SkippedIsMarker
  <2>4. Current' = Current /\ Running' = Running
    BY <1>1, <2>1 DEF Current, Running
  <2>5. ProviderInv'
    BY <1>1, <1>2, <2>3 DEF ProviderInv
  <2>6. ProcessInv'
    BY <1>1, <1>2, <2>1, <2>3, <2>4 DEF ProcessInv
  <2>7. FileInv'
    BY <1>1, <1>2, <2>1, <2>4 DEF FileInv
  <2> QED
    BY <2>5, <2>6, <2>7 DEF DfuseInv
<1>5. CASE Keep(trx)
  <2>1. /\ KeptAfter(J, trx)
        /\ jsonTransactions' = Append(J, trx)
        /\ IF r.chain = Null THEN Thrown ELSE Handled(r, MustSave(trx))
    BY <1>3, <1>5 DEF Keep
  <2>2. /\ trx \in Trx /\ CursorOk(trx.cursor)
        /\ r.chain # Null => /\ Logged(r, Append(J, trx), final)
                             /\ NotAhead(Current.chain, r.chain)
    BY <1>2, <2>1, MessageTaken
  <2>3. ProviderInv'
    BY <1>1, <1>2, <2>2 DEF ProviderInv
  <2> HIDE DEF r
  <2>4. CASE r.chain = Null
    <3>1. /\ stream' = FALSE /\ jsonFile' = jsonFile /\ stateFile' = stateFile
      BY <2>1, <2>4 DEF Thrown, files
    <3>2. ~Running'
      BY <1>1, <3>1 DEF Running
    <3>3. ProcessInv'
      BY <1>1, <3>1, <3>2 DEF ProcessInv
    <3>4. FileInv'
      BY <1>1, <1>2, <3>1, <3>2 DEF FileInv
    <3> QED
      BY <2>3, <3>3, <3>4 DEF DfuseInv
  <2>5. CASE r.chain # Null
    <3>1. /\ Logged(r, Append(J, trx), final) /\ NotAhead(box, r.chain)
      BY <2>2, <2>5 DEF Current
    <3>2. /\ box' = r.chain /\ unpushedTransactions' = r.unpushed /\ stream' = stream
          /\ \/ jsonFile' = jsonTransactions' /\ stateFile' = r.chain
             \/ jsonFile' = jsonFile /\ stateFile' = stateFile
      BY <2>1, <2>5 DEF Handled, SaveTransactions, SaveState, files
    <3>3. /\ r.chain \in Chain /\ r.chain.final <= Len(r.chain.blocks)
          /\ r = [chain |-> r.chain, unpushed |-> r.unpushed]
          /\ NotAhead(r.chain, r.chain)
          /\ F.chain \in Chain
          /\ r = Replayed(Append(J, trx))
      BY <1>2, <3>1, LoggedFacts DEF Logged
    <3>4. box \in Chain
      <4>1. Current.chain \in Chain
        BY <1>2, LoggedFacts
      <4> QED
        BY <4>1 DEF Current
    <3>5. Current' = r
      BY <3>2, <3>3 DEF Current
    <3>6. Running'
      BY <1>1, <3>2 DEF Running
    <3>7. at' = ResumeAt(Append(J, trx))
      <4>1. J \in Seq(Trx)
        BY <1>2, LoggedFacts
      <4> QED
        BY <1>1, <2>2, <4>1, ResumeAtAppended
    <3>8. ProcessInv'
      BY <1>1, <2>1, <3>1, <3>2, <3>5, <3>7 DEF ProcessInv
    <3>9. CASE jsonFile' = jsonTransactions' /\ stateFile' = r.chain
      <4>1. Replayed(jsonFile)' = r
        BY <2>1, <3>3, <3>9
      <4> QED
        BY <1>1, <2>1, <2>3, <3>1, <3>2, <3>3, <3>8, <3>9, <4>1 DEF DfuseInv, FileInv
    <3>10. CASE jsonFile' = jsonFile /\ stateFile' = stateFile
      <4>1. NotAhead(F.chain, r.chain)
        BY <1>2, <3>1, <3>3, <3>4, NotAheadTransitive
      <4>2. Replayed(jsonFile)' = F
        BY <3>10
      <4> HIDE DEF F
      <4>3. FileInv'
        BY <1>1, <1>2, <3>2, <3>10, <4>1, <4>2 DEF FileInv
      <4> QED
        BY <2>3, <3>8, <4>3 DEF DfuseInv
    <3> QED
      BY <3>2, <3>9, <3>10
  <2> QED
    BY <2>4, <2>5
<1> QED
  BY <1>4, <1>5 DEF onMessage

LEMMA StopBetweenSavesStep ==
  ASSUME DfuseInv, StopBetweenSaves
  PROVE  DfuseInv'
<1> DEFINE J == jsonTransactions
           F == Replayed(jsonFile)
<1>1. PICK trx \in Deliverable \cup Markers :
        /\ stream /\ IsKept(trx)
        /\ pushTrx(Current, trx).chain # Null
        /\ jsonFile' = Append(J, trx) /\ stateFile' = stateFile
  BY DEF StopBetweenSaves, SavedFirst, SaveTransactions
<1>2. /\ final' = final /\ at' = at /\ stream' = FALSE /\ retry' = FALSE
  BY DEF StopBetweenSaves, Ended
<1>3. ~Running'
  BY <1>2 DEF Running
<1> DEFINE r == pushTrx(Current, trx)
<1>4. /\ ProviderInv /\ Logged(Current, J, final) /\ at = ResumeAt(J)
      /\ Logged(F, jsonFile, final) /\ NotAhead(F.chain, box)
      /\ stateFile # Null =>
           /\ stateFile \in Chain /\ stateFile.final <= Len(stateFile.blocks)
           /\ NotAhead(stateFile, F.chain)
  BY <1>1 DEF DfuseInv, ProcessInv, FileInv, Running
<1>5. KeptAfter(J, trx)
  BY <1>1 DEF IsKept, KeptAfter
<1>6. /\ Logged(r, Append(J, trx), final) /\ NotAhead(Current.chain, r.chain)
  BY <1>1, <1>4, <1>5, MessageTaken
<1>7. /\ F.chain \in Chain /\ r.chain \in Chain /\ Current.chain \in Chain
      /\ r = Replayed(Append(J, trx))
  BY <1>4, <1>6, LoggedFacts DEF Logged
<1>8. Current.chain = box
  BY DEF Current
<1> HIDE DEF F, r
<1>9. NotAhead(F.chain, r.chain)
  BY <1>4, <1>6, <1>7, <1>8, NotAheadTransitive
<1>10. stateFile # Null => NotAhead(stateFile, r.chain)
  BY <1>4, <1>7, <1>9, NotAheadTransitive
<1>11. Replayed(jsonFile)' = r
  BY <1>1, <1>7
<1>12. FileInv'
  BY <1>1, <1>2, <1>3, <1>4, <1>6, <1>7, <1>10, <1>11 DEF FileInv
<1>13. ProviderInv'
  BY <1>2, <1>4 DEF ProviderInv
<1>14. ProcessInv'
  BY <1>2, <1>3 DEF ProcessInv
<1> QED
  BY <1>12, <1>13, <1>14 DEF DfuseInv

LEMMA StartStep ==
  ASSUME DfuseInv, start
  PROVE  DfuseInv'
<1> DEFINE F == Replayed(jsonFile)
<1>1. /\ ~up /\ box' = F.chain /\ unpushedTransactions' = F.unpushed
      /\ stateFile' = F.chain /\ jsonTransactions' = jsonFile
      /\ up' = TRUE /\ retry' = TRUE /\ stream' = stream
      /\ jsonFile' = jsonFile /\ final' = final /\ at' = at
  BY DEF start, SaveState, provider
<1>2. stream = FALSE /\ retry = FALSE
  BY <1>1 DEF DfuseInv, ProcessInv, Running
<1>3. Logged(F, jsonFile, final) /\ ProviderInv
  BY DEF DfuseInv, FileInv
<1>4. /\ F.chain \in Chain /\ F.chain.final <= Len(F.chain.blocks)
      /\ F = [chain |-> F.chain, unpushed |-> F.unpushed] /\ NotAhead(F.chain, F.chain)
  BY <1>3, LoggedFacts
<1>5. Replayed(jsonFile)' = F
  BY <1>1
<1> HIDE DEF F
<1>6. Current' = F
  BY <1>1, <1>4 DEF Current
<1>7. ProviderInv'
  BY <1>1, <1>3 DEF ProviderInv
<1>8. ProcessInv'
  BY <1>1, <1>2, <1>3, <1>6 DEF ProcessInv
<1>9. FileInv'
  BY <1>1, <1>3, <1>4, <1>5 DEF FileInv
<1> QED
  BY <1>7, <1>8, <1>9 DEF DfuseInv

LEMMA DfuseStep ==
  ASSUME DfuseInv, [Next]_vars
  PROVE  DfuseInv'
<1>1. CASE Finalize
  BY <1>1, FinalizeStep
<1>2. CASE DeliverTrx \/ DeliverRest \/ DeliverMarker
  <2>1. PICK trx \in Deliverable \cup Markers : onMessage(trx)
    BY <1>2 DEF DeliverTrx, DeliverRest, DeliverMarker
  <2> QED
    BY <2>1, MessageStep
<1>3. CASE complete
  <2>1. /\ final' = final /\ at' = at /\ jsonTransactions' = jsonTransactions
        /\ unpushedTransactions' = unpushedTransactions /\ box' = box
        /\ jsonFile' = jsonFile /\ stateFile' = stateFile /\ up' = up
        /\ up /\ stream = TRUE /\ stream' = FALSE /\ retry' = TRUE
    BY <1>3 DEF complete, provider, process, files, DfuseInv, ProcessInv
  <2>2. Current' = Current /\ Running /\ Running'
    BY <2>1 DEF Current, Running
  <2> QED
    BY <2>1, <2>2 DEF DfuseInv, ProviderInv, ProcessInv, FileInv
<1>4. CASE Stop
  <2>1. /\ final' = final /\ at' = at /\ stream' = FALSE /\ retry' = FALSE
        /\ jsonFile' = jsonFile /\ stateFile' = stateFile
    BY <1>4 DEF Stop, Ended, files
  <2>2. ~Running'
    BY <2>1 DEF Running
  <2> QED
    BY <2>1, <2>2 DEF DfuseInv, ProviderInv, ProcessInv, FileInv
<1>5. CASE StopBetweenSaves
  BY <1>5, StopBetweenSavesStep
<1>6. CASE start
  BY <1>6, StartStep
<1>7. CASE connect
  <2>1. /\ final' = final /\ at' = ResumeAt(jsonTransactions)
        /\ jsonTransactions' = jsonTransactions
        /\ unpushedTransactions' = unpushedTransactions /\ box' = box
        /\ jsonFile' = jsonFile /\ stateFile' = stateFile /\ up' = up
        /\ up /\ retry = TRUE /\ retry' = FALSE /\ stream' = TRUE
    BY <1>7 DEF connect, process, files, DfuseInv, ProcessInv
  <2>2. Current' = Current /\ Running /\ Running'
    BY <2>1 DEF Current, Running
  <2>3. CursorOk(ResumeAt(jsonTransactions))
    BY <2>2, LoggedFacts DEF DfuseInv, ProcessInv
  <2> QED
    BY <2>1, <2>2, <2>3 DEF DfuseInv, ProviderInv, ProcessInv, FileInv
<1>8. CASE UNCHANGED vars
  <2>1. /\ final' = final /\ at' = at /\ jsonTransactions' = jsonTransactions
        /\ unpushedTransactions' = unpushedTransactions /\ box' = box
        /\ stream' = stream /\ retry' = retry /\ up' = up
        /\ jsonFile' = jsonFile /\ stateFile' = stateFile
    BY <1>8 DEF vars, provider, process, files
  <2>2. Current' = Current /\ Running' = Running
    BY <2>1 DEF Current, Running
  <2> QED
    BY <2>1, <2>2 DEF DfuseInv, ProviderInv, ProcessInv, FileInv
<1> QED
  BY <1>1, <1>2, <1>3, <1>4, <1>5, <1>6, <1>7, <1>8 DEF Next

THEOREM DfuseInvariance == MCSpec => []DfuseInv
<1>1. MCInit => DfuseInv
  BY DfuseInitCorrect DEF MCInit
<1>2. DfuseInv /\ [MCNext]_mcVars => DfuseInv'
  <2>1. SUFFICES ASSUME DfuseInv, [MCNext]_mcVars PROVE DfuseInv'
    OBVIOUS
  <2>2. [Next]_vars
    BY <2>1 DEF MCNext, UsesDfuse, UsesShip, mcVars
  <2> QED
    BY <2>1, <2>2, DfuseStep
<1> QED
  BY <1>1, <1>2, PTL DEF MCSpec

(* The box has exactly the chain that the provider has delivered.          *)
THEOREM BoxHasProvidersChain == MCSpec => []BoxFollowsProvider
<1>1. DfuseInv => BoxFollowsProvider
  <2>1. SUFFICES ASSUME DfuseInv, stream = TRUE
                 PROVE  IF unpushedTransactions = <<>> THEN box.blocks = at.blocks
                        ELSE LET last == Last(unpushedTransactions) IN
                             IF ~last.undo THEN box.blocks = Front(at.blocks)
                             ELSE /\ box.blocks # <<>>
                                  /\ Front(box.blocks) =
                                       IF at.undoing THEN Front(at.blocks) ELSE at.blocks
                                  /\ Last(box.blocks).num = last.block.num
                                  /\ Last(box.blocks).fork = last.block.fork
    BY DEF BoxFollowsProvider, DfuseInv, ProcessInv
  <2>2. Follows(Current, at, final)
    BY <2>1 DEF DfuseInv, ProcessInv, Running, Logged
  <2>3. Current.unpushed = unpushedTransactions /\ Current.chain = box
    BY DEF Current
  <2>4. /\ Current \in Log /\ at.blocks \in Seq(EosioBlock) /\ at.undoing \in BOOLEAN
        /\ box.blocks \in Seq(AnyBlock)
    BY <2>2, <2>3 DEF Follows, CursorOk, Cursor, Log, Chain
  <2>5. CASE Flushed(Current, at)
    BY <2>3, <2>5 DEF Flushed
  <2>6. CASE Gathering(Current, at, final)
    <3>1. Last(unpushedTransactions).undo = FALSE
      BY <2>3, <2>4, <2>6, GatheredLast
    <3> QED
      BY <2>3, <2>6, <3>1 DEF Gathering
  <2>7. ASSUME NEW rest \in Seq(EosioBlock), Undoing(Current, rest)
        PROVE  /\ unpushedTransactions # <<>> /\ Last(unpushedTransactions).undo = TRUE
               /\ box.blocks # <<>> /\ Front(box.blocks) = rest
               /\ Last(box.blocks).num = Last(unpushedTransactions).block.num
               /\ Last(box.blocks).fork = Last(unpushedTransactions).block.fork
    <3> DEFINE b == Last(box.blocks)
    <3>1. /\ unpushedTransactions # <<>> /\ Last(unpushedTransactions).undo = TRUE
          /\ box.blocks = Append(rest, b)
          /\ b.num = Last(unpushedTransactions).block.num
          /\ b.fork = Last(unpushedTransactions).block.fork
      BY <2>3, <2>7 DEF Undoing
    <3>2. rest \in Seq(AnyBlock)
      BY BlockFacts
    <3> HIDE DEF b
    <3>3. box.blocks # <<>> /\ Front(box.blocks) = rest
      BY <3>1, <3>2 DEF Front
    <3> QED
      BY <3>1, <3>3 DEF b
  <2>8. CASE at.undoing = TRUE /\ Undoing(Current, Front(at.blocks))
    <3>1. at.blocks # <<>>
      BY <2>2, <2>8 DEF Follows, CursorOk
    <3>2. Front(at.blocks) \in Seq(EosioBlock)
      BY <2>4, <3>1, FrontAndLast
    <3> QED
      BY <2>7, <2>8, <3>2
  <2>9. CASE Complete(at) /\ Undoing(Current, at.blocks)
    BY <2>4, <2>7, <2>9 DEF Complete
  <2> QED
    BY <2>2, <2>5, <2>6, <2>8, <2>9 DEF Follows
<1> QED
  BY <1>1, DfuseInvariance, PTL

(* What the state file makes final, the transactions of the other rebuild. *)
THEOREM FilesServeRestart == MCSpec => []StateFileNotAhead
<1>1. DfuseInv => StateFileNotAhead
  <2>1. SUFFICES ASSUME DfuseInv, stateFile # Null,
                        NEW c, c = Replayed(jsonFile).chain
                 PROVE  /\ stateFile.final <= c.final
                        /\ IsPrefix(SubSeq(stateFile.blocks, 1, stateFile.final), c.blocks)
    BY DEF StateFileNotAhead
  <2>2. /\ stateFile \in Chain /\ stateFile.final <= Len(stateFile.blocks)
        /\ NotAhead(stateFile, c) /\ Logged(Replayed(jsonFile), jsonFile, final)
    BY <2>1 DEF DfuseInv, FileInv
  <2>3. c \in Chain
    BY <2>1, <2>2, LoggedFacts
  <2> DEFINE n == stateFile.final
             a == stateFile.blocks
             b == c.blocks
  <2>4. /\ n \in Nat /\ a \in Seq(AnyBlock) /\ b \in Seq(AnyBlock)
        /\ n <= Len(a) /\ n <= c.final
        /\ \A i \in 1..n : i <= Len(b) /\ a[i] = b[i]
    BY <2>2, <2>3 DEF Chain, NotAhead
  <2> HIDE DEF n, a, b
  <2>5. n <= Len(b)
    <3>1. CASE n = 0
      BY <2>4, <3>1
    <3>2. CASE n # 0
      <4>1. n \in 1..n
        BY <2>4, <3>2
      <4> QED
        BY <2>4, <4>1
    <3> QED
      BY <3>1, <3>2
  <2>6. SubSeq(a, 1, n) = SubSeq(b, 1, n) /\ Len(SubSeq(a, 1, n)) = n
        /\ SubSeq(SubSeq(a, 1, n), 1, n) = SubSeq(a, 1, n)
    BY <2>4, <2>5
  <2>7. IsPrefix(SubSeq(a, 1, n), b)
    BY <2>5, <2>6 DEF IsPrefix
  <2> QED
    BY <2>4, <2>7 DEF n, a, b
<1> QED
  BY <1>1, DfuseInvariance, PTL
-----------------------------------------------------------------------------
(* The contract whose actions and events come to the receivers: its table, *)
(* for every set of keys and values that it uses.                          *)

(* The state of a program that uses a table.                               *)
Shape(s) ==
  s = [db |-> s.db, items |-> s.items, next |-> s.next, own |-> s.own,
       indexed |-> s.indexed, at |-> s.at, ok |-> s.ok]

DbOk(db) ==
  /\ db = [rows |-> db.rows, entries |-> db.entries, gen |-> db.gen, igen |-> db.igen]
  /\ db.gen \in [Keys -> {0, 1}] /\ db.igen \in [Keys -> {0, 1}]
  /\ DOMAIN db.rows \subseteq Keys /\ DOMAIN db.entries \subseteq DOMAIN db.rows
  /\ \A pk \in DOMAIN db.rows : db.rows[pk] \in Nat
  /\ \A pk \in DOMAIN db.entries : db.entries[pk] = db.rows[pk]

(* An object that was loaded is that of its row.                           *)
Loaded(db, i) ==
  /\ i = [pk |-> i.pk, value |-> i.value, pitr |-> i.pitr, sitr |-> i.sitr]
  /\ i.pk \in DOMAIN db.rows /\ i.value = db.rows[i.pk]
  /\ i.pitr = RowItr(db, i.pk)
  /\ i.sitr # End => i.sitr = EntryItr(db, i.pk)

(* A key that is said to be free is larger than those of all rows.         *)
NextIsFree(db, next) ==
  next < no_available_primary_key => \A pk \in DOMAIN db.rows : pk < next

TableOk(s) ==
  /\ Shape(s) /\ DbOk(s.db)
  /\ \A i \in s.items : Loaded(s.db, i)
  /\ \A i, j \in s.items : i.pk = j.pk => i = j
  /\ s.next \in Keys /\ NextIsFree(s.db, s.next)
  /\ s.own \in BOOLEAN /\ s.indexed \in BOOLEAN /\ s.ok \in BOOLEAN
  /\ s.at # End => \E i \in s.items : i.pk = s.at
  /\ ~s.indexed => DOMAIN s.db.entries = {}

LEMMA Sets ==
  ASSUME NEW s, Shape(s), NEW x
  PROVE  /\ [s EXCEPT !.at = x] =
              [db |-> s.db, items |-> s.items, next |-> s.next, own |-> s.own,
               indexed |-> s.indexed, at |-> x, ok |-> s.ok]
         /\ [s EXCEPT !.ok = x] =
              [db |-> s.db, items |-> s.items, next |-> s.next, own |-> s.own,
               indexed |-> s.indexed, at |-> s.at, ok |-> x]
         /\ [s EXCEPT !.next = x] =
              [db |-> s.db, items |-> s.items, next |-> x, own |-> s.own,
               indexed |-> s.indexed, at |-> s.at, ok |-> s.ok]
         /\ [s EXCEPT !.items = x] =
              [db |-> s.db, items |-> x, next |-> s.next, own |-> s.own,
               indexed |-> s.indexed, at |-> s.at, ok |-> s.ok]
         /\ [s EXCEPT !.db = x] =
              [db |-> x, items |-> s.items, next |-> s.next, own |-> s.own,
               indexed |-> s.indexed, at |-> s.at, ok |-> s.ok]
  BY DEF Shape

LEMMA Iterators ==
  ASSUME NEW db, DbOk(db), NEW pk \in DOMAIN db.rows
  PROVE  /\ RowItr(db, pk) \in Nat /\ Primary(RowItr(db, pk)) = pk
         /\ IsRow(db, RowItr(db, pk))
         /\ pk \in DOMAIN db.entries =>
              /\ EntryItr(db, pk) \in Nat /\ Primary(EntryItr(db, pk)) = pk
              /\ IsEntry(db, EntryItr(db, pk))
         /\ pk \notin DOMAIN db.entries => EntryItr(db, pk) = End
<1>1. pk \in Nat /\ pk \in Keys
  BY KeyAssumption DEF DbOk, Keys
<1>2. \A g \in {0, 1} : 2 * pk + g \in Nat /\ (2 * pk + g) \div 2 = pk
  BY <1>1
<1>3. db.gen[pk] \in {0, 1} /\ db.igen[pk] \in {0, 1}
  BY <1>1 DEF DbOk
<1>4. RowItr(db, pk) = 2 * pk + db.gen[pk]
  BY DEF RowItr
<1>5. pk \in DOMAIN db.entries => EntryItr(db, pk) = 2 * pk + db.igen[pk]
  BY DEF EntryItr
<1>6. RowItr(db, pk) \in Nat /\ Primary(RowItr(db, pk)) = pk
  BY <1>2, <1>3, <1>4 DEF Primary
<1>7. pk \in DOMAIN db.entries =>
        EntryItr(db, pk) \in Nat /\ Primary(EntryItr(db, pk)) = pk
  BY <1>2, <1>3, <1>5 DEF Primary
<1> QED
  BY <1>6, <1>7 DEF IsRow, IsEntry, EntryItr

(* Nothing else is loaded for a key.                                       *)
LEMMA ItemIsIt ==
  ASSUME NEW s, TableOk(s), NEW i \in s.items
  PROVE  Cached(s, i.pk) = {i} /\ Item(s, i.pk) = i
<1>1. Cached(s, i.pk) = {i}
  BY DEF TableOk, Cached
<1> QED
  BY <1>1 DEF Item

LEMMA ObjectIsAt ==
  ASSUME NEW s, TableOk(s), s.at # End
  PROVE  /\ Object(s) \in s.items /\ Object(s).pk = s.at
         /\ Loaded(s.db, Object(s))
         /\ s.at \in DOMAIN s.db.rows
<1>1. PICK i \in s.items : i.pk = s.at
  BY DEF TableOk
<1>2. Object(s) = i
  BY <1>1, ItemIsIt DEF Object
<1> QED
  BY <1>1, <1>2 DEF TableOk, Loaded

(* What every way to read gives: the same table, at this object.           *)
Leads(s, u, pk) ==
  /\ TableOk(u)
  /\ u.db = s.db /\ u.next = s.next /\ u.own = s.own
  /\ u.indexed = s.indexed /\ u.ok = s.ok /\ u.at = pk
  /\ \A i \in s.items : \E j \in u.items : j.pk = i.pk

LEMMA LeadsOn ==
  ASSUME NEW s, NEW u, NEW v, NEW pk, NEW k, Leads(s, u, pk), Leads(u, v, k)
  PROVE  Leads(s, v, k)
  BY DEF Leads

LEMMA AtEndLeads ==
  ASSUME NEW s, TableOk(s)
  PROVE  Leads(s, AtEnd(s), End)
  BY Sets DEF TableOk, AtEnd, Shape, Leads

LEMMA LoadLeads ==
  ASSUME NEW s, TableOk(s), NEW pk \in DOMAIN s.db.rows
  PROVE  Leads(s, load_object_by_primary_iterator(s, RowItr(s.db, pk)), pk)
<1> DEFINE itr == RowItr(s.db, pk)
           loaded == {i \in s.items : i.pitr = itr}
           u == load_object_by_primary_iterator(s, itr)
           item == [pk |-> pk, value |-> s.db.rows[pk], pitr |-> itr, sitr |-> End]
<1>1. /\ Shape(s) /\ DbOk(s.db)
      /\ \A i \in s.items : Loaded(s.db, i)
      /\ \A i, j \in s.items : i.pk = j.pk => i = j
  BY DEF TableOk
<1>2. \A i \in s.items : i.pitr = itr <=> i.pk = pk
  <2>1. ASSUME NEW i \in s.items, i.pitr = itr PROVE i.pk = pk
    BY <1>1, <2>1, Iterators DEF Loaded
  <2>2. ASSUME NEW i \in s.items, i.pk = pk PROVE i.pitr = itr
    BY <1>1, <2>2 DEF Loaded
  <2> QED
    BY <2>1, <2>2
<1>3. Primary(itr) = pk
  BY <1>1, Iterators
<1>4. ASSUME loaded # {} PROVE Leads(s, u, pk)
  <2> DEFINE i == CHOOSE i \in loaded : TRUE
  <2>1. i \in s.items /\ i.pk = pk
    BY <1>2, <1>4
  <2>2. u = [s EXCEPT !.at = pk]
    BY <1>4, <2>1 DEF load_object_by_primary_iterator
  <2>3. u = [db |-> s.db, items |-> s.items, next |-> s.next, own |-> s.own,
             indexed |-> s.indexed, at |-> pk, ok |-> s.ok]
    BY <1>1, <2>2, Sets
  <2> HIDE DEF u, i
  <2> QED
    BY <2>1, <2>3 DEF TableOk, Leads, Shape
<1>5. ASSUME loaded = {} PROVE Leads(s, u, pk)
  <2>1. u = [s EXCEPT !.at = pk, !.items = s.items \cup {item}]
    BY <1>3, <1>5 DEF load_object_by_primary_iterator
  <2>2. u = [db |-> s.db, items |-> s.items \cup {item}, next |-> s.next, own |-> s.own,
             indexed |-> s.indexed, at |-> pk, ok |-> s.ok]
    BY <1>1, <2>1 DEF Shape
  <2>3. Loaded(s.db, item) /\ item.pk = pk
    BY DEF Loaded
  <2>4. \A i \in s.items : i.pk # pk
    BY <1>2, <1>5
  <2> HIDE DEF u, item, loaded
  <2>5. u.items = s.items \cup {item} /\ u.at = pk /\ u.db = s.db
    BY <2>2
  <2>6. \A i, j \in u.items : i.pk = j.pk => i = j
    BY <1>1, <2>3, <2>4, <2>5
  <2>7. \A i \in u.items : Loaded(s.db, i)
    BY <1>1, <2>3, <2>5
  <2>8. \E i \in u.items : i.pk = u.at
    BY <2>3, <2>5
  <2> QED
    BY <2>2, <2>5, <2>6, <2>7, <2>8 DEF TableOk, Leads, Shape
<1> QED
  BY <1>4, <1>5

LEMMA MoveLeads ==
  ASSUME NEW s, TableOk(s), NEW pk \in DOMAIN s.db.rows \cup {End}
  PROVE  Leads(s, MoveTo(s, RowItrOf(s.db, pk)), pk)
<1>1. CASE pk = End
  BY <1>1, AtEndLeads DEF MoveTo, RowItrOf, End
<1>2. CASE pk # End
  <2>1. pk \in DOMAIN s.db.rows /\ DbOk(s.db)
    BY <1>2 DEF TableOk
  <2>2. RowItr(s.db, pk) \in Nat
    BY <2>1, Iterators
  <2>3. MoveTo(s, RowItrOf(s.db, pk)) = load_object_by_primary_iterator(s, RowItr(s.db, pk))
    BY <1>2, <2>2 DEF MoveTo, RowItrOf
  <2> QED
    BY <2>1, <2>3, LoadLeads
<1> QED
  BY <1>1, <1>2

LEMMA LeastOf ==
  ASSUME NEW S \in SUBSET Nat
  PROVE  /\ S = {} => Least(S) = End
         /\ S # {} => Least(S) \in S /\ \A k \in S : Least(S) <= k
<1>1. CASE S # {}
  <2>1. \E n \in S : \A m \in S : n =< m
    BY <1>1, LeastNatural
  <2>2. Min(S) \in S /\ \A m \in S : Min(S) =< m
    BY <2>1 DEF Min
  <2> QED
    BY <1>1, <2>2 DEF Least
<1> QED
  BY <1>1 DEF Least

LEMMA GreatestOf ==
  ASSUME NEW S \in SUBSET Keys
  PROVE  /\ S = {} => Greatest(S) = End
         /\ S # {} => Greatest(S) \in S /\ \A k \in S : k <= Greatest(S)
<1>1. CASE S # {}
  <2> DEFINE T == {m \in Nat : MaxKey - m \in S}
  <2>1. \A x \in S : x \in Int /\ MaxKey - x \in T /\ MaxKey - (MaxKey - x) = x
    BY KeyAssumption DEF Keys
  <2>2. T \in SUBSET Nat /\ T # {}
    BY <1>1, <2>1
  <2> HIDE DEF T
  <2>3. PICK m \in T : \A l \in T : m <= l
    BY <2>2, LeastNatural
  <2>4. m \in Nat /\ MaxKey - m \in S
    BY <2>3 DEF T
  <2>5. \A y \in S : MaxKey - m >= y
    BY <2>1, <2>3, <2>4, KeyAssumption
  <2>6. Max(S) \in S /\ \A y \in S : Max(S) >= y
    BY <2>4, <2>5 DEF Max
  <2>7. \A y \in S : y \in Int
    BY <2>1
  <2> QED
    BY <1>1, <2>6, <2>7 DEF Greatest
<1> QED
  BY <1>1 DEF Greatest

RowsFrom(db, pk) == {k \in DOMAIN db.rows : k >= pk}
RowsPast(db, pk) == {k \in DOMAIN db.rows : k > pk}
RowsBefore(db, pk) == {k \in DOMAIN db.rows : k < pk}

LEMMA BoundsLead ==
  ASSUME NEW s, TableOk(s), NEW pk
  PROVE  /\ Leads(s, lower_bound(s, pk), Least(RowsFrom(s.db, pk)))
         /\ Leads(s, upper_bound(s, pk), Least(RowsPast(s.db, pk)))
<1>1. DOMAIN s.db.rows \in SUBSET Nat
  BY KeyAssumption DEF TableOk, DbOk, Keys
<1>2. RowsFrom(s.db, pk) \in SUBSET Nat /\ RowsPast(s.db, pk) \in SUBSET Nat
  BY <1>1 DEF RowsFrom, RowsPast
<1>3. /\ Least(RowsFrom(s.db, pk)) \in DOMAIN s.db.rows \cup {End}
      /\ Least(RowsPast(s.db, pk)) \in DOMAIN s.db.rows \cup {End}
  <2>1. /\ RowsFrom(s.db, pk) \subseteq DOMAIN s.db.rows
        /\ RowsPast(s.db, pk) \subseteq DOMAIN s.db.rows
    BY DEF RowsFrom, RowsPast
  <2> QED
    BY <1>2, <2>1, LeastOf
<1>4. /\ lower_bound(s, pk) = MoveTo(s, RowItrOf(s.db, Least(RowsFrom(s.db, pk))))
      /\ upper_bound(s, pk) = MoveTo(s, RowItrOf(s.db, Least(RowsPast(s.db, pk))))
  BY DEF lower_bound, upper_bound, db_lowerbound, db_upperbound, RowsFrom, RowsPast
<1> QED
  BY <1>3, <1>4, MoveLeads

LEMMA FindLeads ==
  ASSUME NEW s, TableOk(s), NEW pk
  PROVE  Leads(s, find(s, pk), IF pk \in DOMAIN s.db.rows THEN pk ELSE End)
<1>1. CASE Cached(s, pk) # {}
  <2>1. PICK i \in s.items : i.pk = pk
    BY <1>1 DEF Cached
  <2>2. pk \in DOMAIN s.db.rows
    BY <2>1 DEF TableOk, Loaded
  <2>3. find(s, pk) = [s EXCEPT !.at = pk]
    BY <1>1 DEF find
  <2>4. find(s, pk) = [db |-> s.db, items |-> s.items, next |-> s.next, own |-> s.own,
                       indexed |-> s.indexed, at |-> pk, ok |-> s.ok]
    BY <2>3, Sets DEF TableOk
  <2> HIDE DEF find
  <2> QED
    BY <2>1, <2>2, <2>4 DEF TableOk, Leads, Shape
<1>2. CASE Cached(s, pk) = {}
  <2>1. find(s, pk) = MoveTo(s, RowItr(s.db, pk))
    BY <1>2 DEF find, db_find
  <2>2. CASE pk \in DOMAIN s.db.rows
    <3>1. pk # End
      BY <2>2, KeyAssumption DEF TableOk, DbOk, Keys, End
    <3>2. RowItr(s.db, pk) = RowItrOf(s.db, pk)
      BY <3>1 DEF RowItrOf
    <3> QED
      BY <2>1, <2>2, <3>2, MoveLeads
  <2>3. CASE pk \notin DOMAIN s.db.rows
    <3>1. RowItr(s.db, pk) = RowItrOf(s.db, End)
      BY <2>3 DEF RowItrOf, RowItr
    <3> QED
      BY <2>1, <2>3, <3>1, MoveLeads
  <2> QED
    BY <2>2, <2>3
<1> QED
  BY <1>1, <1>2

(* A check that fails leaves a state in which ok says so.                  *)
Aborted(s, u) == u = Abort(s) /\ u.ok = FALSE /\ TableOk(u)

LEMMA AbortIsFailure ==
  ASSUME NEW s, TableOk(s)
  PROVE  Aborted(s, Abort(s))
  BY Sets DEF TableOk, Abort, Shape, Aborted

LEMMA IncrementLeads ==
  ASSUME NEW s, TableOk(s)
  PROVE  /\ s.at # End => Leads(s, increment(s), Least(RowsPast(s.db, s.at)))
         /\ s.at = End => increment(s) = Abort(s)
<1>1. ASSUME s.at # End
      PROVE  Leads(s, increment(s), Least(RowsPast(s.db, s.at)))
  <2>1. /\ Loaded(s.db, Object(s)) /\ Object(s).pk = s.at /\ s.at \in DOMAIN s.db.rows
    BY <1>1, ObjectIsAt
  <2>2. /\ Object(s).pitr = RowItr(s.db, s.at)
        /\ IsRow(s.db, Object(s).pitr) /\ Primary(Object(s).pitr) = s.at
    BY <2>1, Iterators DEF Loaded, TableOk
  <2>3. increment(s) = upper_bound(s, s.at)
    BY <1>1, <2>2 DEF increment, upper_bound, db_next
  <2> QED
    BY <2>3, BoundsLead
<1> QED
  BY <1>1 DEF increment

LEMMA DecrementLeads ==
  ASSUME NEW s, TableOk(s)
  PROVE  LET smaller == IF s.at = End THEN DOMAIN s.db.rows ELSE RowsBefore(s.db, s.at)
         IN  /\ smaller # {} => /\ Leads(s, decrement(s), Greatest(smaller))
                                /\ Greatest(smaller) \in smaller
             /\ smaller = {} => decrement(s) = Abort(s)
<1> DEFINE smaller == IF s.at = End THEN DOMAIN s.db.rows ELSE RowsBefore(s.db, s.at)
           itr == IF s.at = End THEN End ELSE Object(s).pitr
           prev == db_previous(s.db, itr)
<1>1. DbOk(s.db) /\ DOMAIN s.db.rows \in SUBSET Keys
  BY DEF TableOk, DbOk
<1>2. s.at # End => /\ itr \in Nat /\ IsRow(s.db, itr) /\ Primary(itr) = s.at
  <2>1. SUFFICES ASSUME s.at # End
                 PROVE  itr \in Nat /\ IsRow(s.db, itr) /\ Primary(itr) = s.at
    OBVIOUS
  <2>2. /\ Loaded(s.db, Object(s)) /\ Object(s).pk = s.at /\ s.at \in DOMAIN s.db.rows
    BY <2>1, ObjectIsAt
  <2>3. Object(s).pitr = RowItr(s.db, s.at)
    BY <2>2 DEF Loaded
  <2> QED
    BY <1>1, <2>1, <2>2, <2>3, Iterators
<1>3. {k \in DOMAIN s.db.rows : itr = End \/ k < Primary(itr)} = smaller
  BY <1>2 DEF RowsBefore, End
<1>4. prev = RowItrOf(s.db, Greatest(smaller))
  BY <1>3 DEF db_previous
<1>5. smaller \in SUBSET DOMAIN s.db.rows /\ smaller \in SUBSET Keys
  BY <1>1 DEF RowsBefore
<1>6. decrement(s) = IF (s.at # End /\ ~IsRow(s.db, itr)) \/ prev < 0 THEN Abort(s)
                     ELSE load_object_by_primary_iterator(s, prev)
  BY DEF decrement
<1> HIDE DEF itr, prev
<1>7. ASSUME smaller # {}
      PROVE  /\ Leads(s, decrement(s), Greatest(smaller))
             /\ Greatest(smaller) \in smaller
  <2>1. Greatest(smaller) \in smaller
    BY <1>5, <1>7, GreatestOf
  <2>2. Greatest(smaller) \in DOMAIN s.db.rows /\ Greatest(smaller) # End
    BY <1>5, <2>1, KeyAssumption DEF Keys, End
  <2>3. prev = RowItr(s.db, Greatest(smaller)) /\ prev \in Nat
    BY <1>1, <1>4, <2>2, Iterators DEF RowItrOf
  <2>4. decrement(s) = load_object_by_primary_iterator(s, prev)
    BY <1>2, <1>6, <2>3
  <2> QED
    BY <2>1, <2>2, <2>3, <2>4, LoadLeads
<1>8. ASSUME smaller = {} PROVE decrement(s) = Abort(s)
  <2>1. Greatest(smaller) = End
    BY <1>5, <1>8, GreatestOf
  <2>2. prev = -1
    BY <1>4, <2>1 DEF RowItrOf, End
  <2> QED
    BY <1>6, <2>2
<1> QED
  BY <1>7, <1>8

(* The order of the index is total, so a set of entries has a first and a  *)
(* last one.                                                               *)
IsFirst(db, S, p) == p \in S /\ \A q \in S \ {p} : Before(db, p, q)
IsLast(db, S, p) == p \in S /\ \A q \in S \ {p} : Before(db, q, p)

LEMMA IndexOrder ==
  ASSUME NEW db, DbOk(db)
  PROVE  /\ \A p, q \in DOMAIN db.entries : p = q \/ Before(db, p, q) \/ Before(db, q, p)
         /\ \A p, q \in DOMAIN db.entries : ~ (Before(db, p, q) /\ Before(db, q, p))
         /\ \A p, q, r \in DOMAIN db.entries :
              Before(db, p, q) /\ Before(db, q, r) => Before(db, p, r)
         /\ \A p \in DOMAIN db.entries : p \in Nat /\ db.entries[p] \in Nat
<1>1. \A p \in DOMAIN db.entries : p \in Nat /\ db.entries[p] \in Nat
  BY KeyAssumption DEF DbOk, Keys
<1> QED
  BY <1>1 DEF Before

HasEnds(db, S) ==
  (\E p : IsFirst(db, S, p)) /\ (\E p : IsLast(db, S, p))

LEMMA EndsExist ==
  ASSUME NEW db, DbOk(db), NEW S \in SUBSET DOMAIN db.entries, S # {}
  PROVE  HasEnds(db, S)
<1> DEFINE E(n) == {k \in DOMAIN db.entries : k <= n}
           Good(n) == \A T \in SUBSET E(n) : T # {} => HasEnds(db, T)
           N == {n \in Nat : Good(n)}
<1>1. \A p \in DOMAIN db.entries : p \in Nat /\ p <= MaxKey
  BY KeyAssumption DEF DbOk, Keys
<1>2. ASSUME NEW p \in DOMAIN db.entries PROVE HasEnds(db, {p})
  BY DEF HasEnds, IsFirst, IsLast
<1>3. 0 \in N
  <2>1. SUFFICES ASSUME NEW T \in SUBSET E(0), T # {} PROVE HasEnds(db, T)
    OBVIOUS
  <2>2. PICK p \in T : TRUE
    BY <2>1
  <2>3. T = {p} /\ p \in DOMAIN db.entries
    BY <1>1
  <2> QED
    BY <1>2, <2>3
<1>4. ASSUME NEW n \in Nat, n \in N PROVE n + 1 \in N
  <2>1. SUFFICES ASSUME NEW T \in SUBSET E(n + 1), T # {} PROVE HasEnds(db, T)
    OBVIOUS
  <2> DEFINE U == T \ {n + 1}
  <2>2. U \in SUBSET E(n)
    BY <1>1
  <2>3. CASE n + 1 \notin T
    <3>1. U = T
      BY <2>3
    <3> QED
      BY <1>4, <2>1, <2>2, <3>1
  <2>4. CASE n + 1 \in T /\ U = {}
    <3>1. T = {n + 1} /\ n + 1 \in DOMAIN db.entries
      BY <2>4
    <3> QED
      BY <1>2, <3>1
  <2>5. CASE n + 1 \in T /\ U # {}
    <3>1. HasEnds(db, U)
      BY <1>4, <2>2, <2>5
    <3>2. PICK p : IsFirst(db, U, p)
      BY <3>1 DEF HasEnds
    <3>3. PICK r : IsLast(db, U, r)
      BY <3>1 DEF HasEnds
    <3>4. T = U \cup {n + 1} /\ n + 1 \notin U /\ T \subseteq DOMAIN db.entries
      BY <2>5
    <3> HIDE DEF U
    <3>5. p \in T /\ r \in T
      BY <3>2, <3>3, <3>4 DEF IsFirst, IsLast
    <3>6. Before(db, n + 1, p) => IsFirst(db, T, n + 1)
      BY <3>2, <3>4, <3>5, IndexOrder DEF IsFirst
    <3>7. Before(db, p, n + 1) => IsFirst(db, T, p)
      BY <3>2, <3>4, <3>5, IndexOrder DEF IsFirst
    <3>8. Before(db, r, n + 1) => IsLast(db, T, n + 1)
      BY <3>3, <3>4, <3>5, IndexOrder DEF IsLast
    <3>9. Before(db, n + 1, r) => IsLast(db, T, r)
      BY <3>3, <3>4, <3>5, IndexOrder DEF IsLast
    <3>10. p # n + 1 /\ r # n + 1
      BY <3>2, <3>3, <3>4 DEF IsFirst, IsLast
    <3>11. \E q : IsFirst(db, T, q)
      BY <3>4, <3>5, <3>6, <3>7, <3>10, IndexOrder
    <3>12. \E q : IsLast(db, T, q)
      BY <3>4, <3>5, <3>8, <3>9, <3>10, IndexOrder
    <3> QED
      BY <3>11, <3>12 DEF HasEnds
  <2> QED
    BY <2>3, <2>4, <2>5
<1>5. MaxKey \in N
  <2> HIDE DEF N
  <2> QED
    BY <1>3, <1>4, NatInductionOnSet, KeyAssumption
<1>6. S \in SUBSET E(MaxKey)
  BY <1>1
<1> QED
  BY <1>5, <1>6

FirstIn(db, S) == IF S = {} THEN End ELSE CHOOSE p \in S : \A q \in S \ {p} : Before(db, p, q)
LastIn(db, S) == IF S = {} THEN End ELSE CHOOSE p \in S : \A q \in S \ {p} : Before(db, q, p)

LEMMA FirstIs ==
  ASSUME NEW db, DbOk(db), NEW S \in SUBSET DOMAIN db.entries
  PROVE  /\ S # {} => IsFirst(db, S, FirstIn(db, S)) /\ IsLast(db, S, LastIn(db, S))
         /\ S = {} => FirstIn(db, S) = End /\ LastIn(db, S) = End
         /\ \A p : IsFirst(db, S, p) => FirstIn(db, S) = p
         /\ \A p : IsLast(db, S, p) => LastIn(db, S) = p
<1>1. S # {} => IsFirst(db, S, FirstIn(db, S)) /\ IsLast(db, S, LastIn(db, S))
  <2>1. SUFFICES ASSUME S # {}
                 PROVE  IsFirst(db, S, FirstIn(db, S)) /\ IsLast(db, S, LastIn(db, S))
    OBVIOUS
  <2>2. HasEnds(db, S)
    BY <2>1, EndsExist
  <2>3. /\ \E p \in S : \A q \in S \ {p} : Before(db, p, q)
        /\ \E p \in S : \A q \in S \ {p} : Before(db, q, p)
    BY <2>2 DEF HasEnds, IsFirst, IsLast
  <2> QED
    BY <2>1, <2>3 DEF IsFirst, IsLast, FirstIn, LastIn
<1>2. \A p, q : IsFirst(db, S, p) /\ IsFirst(db, S, q) => p = q
  BY IndexOrder DEF IsFirst
<1>3. \A p, q : IsLast(db, S, p) /\ IsLast(db, S, q) => p = q
  BY IndexOrder DEF IsLast
<1>4. \A p : IsFirst(db, S, p) \/ IsLast(db, S, p) => S # {}
  BY DEF IsFirst, IsLast
<1>5. S = {} => FirstIn(db, S) = End /\ LastIn(db, S) = End
  BY DEF FirstIn, LastIn
<1> HIDE DEF FirstIn, LastIn, IsFirst, IsLast
<1> QED
  BY <1>1, <1>2, <1>3, <1>4, <1>5

LEMMA WithEntryLeads ==
  ASSUME NEW s, TableOk(s), s.at # End,
         NEW itr \in {End, EntryItr(s.db, s.at)}
  PROVE  /\ Leads(s, WithEntry(s, itr), s.at)
         /\ Object(WithEntry(s, itr)).sitr = itr
<1> DEFINE u == WithEntry(s, itr)
           old == Object(s)
           new == [old EXCEPT !.sitr = itr]
<1>1. /\ Shape(s) /\ DbOk(s.db)
      /\ \A i \in s.items : Loaded(s.db, i)
      /\ \A i, j \in s.items : i.pk = j.pk => i = j
  BY DEF TableOk
<1>2. old \in s.items /\ old.pk = s.at /\ Loaded(s.db, old)
  BY ObjectIsAt
<1>3. new = [pk |-> old.pk, value |-> old.value, pitr |-> old.pitr, sitr |-> itr]
  BY <1>2 DEF Loaded
<1>4. Loaded(s.db, new) /\ new.pk = s.at /\ new.sitr = itr
  <2> HIDE DEF old, new
  <2> QED
    BY <1>2, <1>3 DEF Loaded
<1>5. u = [s EXCEPT !.items = (s.items \ {old}) \cup {new}]
  BY <1>1 DEF WithEntry, Replace, Shape
<1>6. u = [db |-> s.db, items |-> (s.items \ {old}) \cup {new}, next |-> s.next, own |-> s.own,
           indexed |-> s.indexed, at |-> s.at, ok |-> s.ok]
  BY <1>1, <1>5, Sets
<1> HIDE DEF u, old, new
<1>7. u.items = (s.items \ {old}) \cup {new} /\ u.at = s.at /\ u.db = s.db
  BY <1>6
<1>8. \A i, j \in u.items : i.pk = j.pk => i = j
  BY <1>1, <1>2, <1>4, <1>7
<1>9. \A i \in u.items : Loaded(s.db, i)
  BY <1>1, <1>4, <1>7
<1>10. \E i \in u.items : i.pk = u.at
  BY <1>4, <1>7
<1>11. Leads(s, u, s.at)
  <2>1. \A i \in s.items : \E j \in u.items : j.pk = i.pk
    BY <1>2, <1>4, <1>7
  <2> QED
    BY <1>6, <1>7, <1>8, <1>9, <1>10, <2>1 DEF TableOk, Leads, Shape
<1>12. Object(u) = new
  <2>1. TableOk(u) /\ new \in u.items
    BY <1>7, <1>11 DEF Leads
  <2> QED
    BY <1>4, <1>7, <2>1, ItemIsIt DEF Object
<1> QED
  BY <1>4, <1>11, <1>12 DEF u

LEMMA EntryLeads ==
  ASSUME NEW s, TableOk(s)
  PROVE  /\ Leads(s, MoveToEntry(s, End), End)
         /\ \A pk \in DOMAIN s.db.entries :
              /\ Leads(s, MoveToEntry(s, EntryItr(s.db, pk)), pk)
              /\ pk # End
<1>1. Leads(s, MoveToEntry(s, End), End)
  BY AtEndLeads DEF MoveToEntry, End
<1>2. ASSUME NEW pk \in DOMAIN s.db.entries
      PROVE  /\ Leads(s, MoveToEntry(s, EntryItr(s.db, pk)), pk)
             /\ pk # End
  <2>1. DbOk(s.db) /\ pk \in DOMAIN s.db.rows /\ pk # End
    BY KeyAssumption DEF TableOk, DbOk, Keys, End
  <2>2. EntryItr(s.db, pk) \in Nat /\ Primary(EntryItr(s.db, pk)) = pk
    BY <2>1, Iterators
  <2> DEFINE f == find(s, pk)
  <2>3. Leads(s, f, pk)
    BY <2>1, FindLeads
  <2>4. MoveToEntry(s, EntryItr(s.db, pk)) = WithEntry(f, EntryItr(s.db, pk))
    BY <2>2 DEF MoveToEntry
  <2> HIDE DEF f
  <2>5. TableOk(f) /\ f.at = pk /\ f.db = s.db
    BY <2>3 DEF Leads
  <2>6. Leads(f, WithEntry(f, EntryItr(s.db, pk)), pk)
    BY <2>1, <2>5, WithEntryLeads
  <2> QED
    BY <2>1, <2>3, <2>4, <2>6, LeadsOn
<1> QED
  BY <1>1, <1>2

LEMMA FirstLeads ==
  ASSUME NEW s, TableOk(s), NEW S \in SUBSET DOMAIN s.db.entries
  PROVE  /\ Leads(s, MoveToEntry(s, FirstEntry(s.db, S)), FirstIn(s.db, S))
         /\ Leads(s, MoveToEntry(s, LastEntry(s.db, S)), LastIn(s.db, S))
<1>1. DbOk(s.db)
  BY DEF TableOk
<1>2. CASE S = {}
  <2>1. FirstEntry(s.db, S) = End /\ LastEntry(s.db, S) = End
    BY <1>2 DEF FirstEntry, LastEntry
  <2>2. FirstIn(s.db, S) = End /\ LastIn(s.db, S) = End
    BY <1>2 DEF FirstIn, LastIn
  <2> QED
    BY <2>1, <2>2, EntryLeads
<1>3. CASE S # {}
  <2>1. /\ FirstEntry(s.db, S) = EntryItr(s.db, FirstIn(s.db, S))
        /\ LastEntry(s.db, S) = EntryItr(s.db, LastIn(s.db, S))
    BY <1>3 DEF FirstEntry, LastEntry, FirstIn, LastIn
  <2>2. FirstIn(s.db, S) \in DOMAIN s.db.entries /\ LastIn(s.db, S) \in DOMAIN s.db.entries
    BY <1>1, <1>3, FirstIs DEF IsFirst, IsLast
  <2> QED
    BY <2>1, <2>2, EntryLeads
<1> QED
  BY <1>2, <1>3

EntriesFrom(db, key) == {k \in DOMAIN db.entries : db.entries[k] >= key}
EntriesPast(db, key) == {k \in DOMAIN db.entries : db.entries[k] > key}
EntriesOf(db, key) == {k \in DOMAIN db.entries : db.entries[k] = key}
EntriesAfter(db, pk) == {k \in DOMAIN db.entries : Before(db, pk, k)}
EntriesBefore(db, pk) == {k \in DOMAIN db.entries : Before(db, k, pk)}

LEMMA IndexBoundsLead ==
  ASSUME NEW s, TableOk(s), NEW key
  PROVE  /\ Leads(s, index_lower_bound(s, key), FirstIn(s.db, EntriesFrom(s.db, key)))
         /\ Leads(s, index_upper_bound(s, key), FirstIn(s.db, EntriesPast(s.db, key)))
<1>1. /\ EntriesFrom(s.db, key) \in SUBSET DOMAIN s.db.entries
      /\ EntriesPast(s.db, key) \in SUBSET DOMAIN s.db.entries
  BY DEF EntriesFrom, EntriesPast
<1>2. /\ index_lower_bound(s, key) =
           MoveToEntry(s, FirstEntry(s.db, EntriesFrom(s.db, key)))
      /\ index_upper_bound(s, key) =
           MoveToEntry(s, FirstEntry(s.db, EntriesPast(s.db, key)))
  BY DEF index_lower_bound, index_upper_bound, db_idx_lowerbound, db_idx_upperbound,
         EntriesFrom, EntriesPast
<1> QED
  BY <1>1, <1>2, FirstLeads

LEMMA IndexBeginLeads ==
  ASSUME NEW s, TableOk(s)
  PROVE  Leads(s, index_begin(s), FirstIn(s.db, DOMAIN s.db.entries))
<1>1. EntriesFrom(s.db, 0) = DOMAIN s.db.entries
  BY IndexOrder DEF EntriesFrom, TableOk
<1>2. index_begin(s) = index_lower_bound(s, 0)
  BY DEF index_begin, index_lower_bound
<1> QED
  BY <1>1, <1>2, IndexBoundsLead

LEMMA IndexFindLeads ==
  ASSUME NEW s, TableOk(s), NEW key \in Nat
  PROVE  Leads(s, index_find(s, key), FirstIn(s.db, EntriesOf(s.db, key)))
<1> DEFINE lb == index_lower_bound(s, key)
           from == EntriesFrom(s.db, key)
           of == EntriesOf(s.db, key)
           p == FirstIn(s.db, from)
<1>1. Leads(s, lb, p)
  BY IndexBoundsLead
<1>2. index_find(s, key) = IF lb.at # End /\ Object(lb).value = key THEN lb ELSE AtEnd(lb)
  BY DEF index_find
<1>3. /\ from \in SUBSET DOMAIN s.db.entries /\ of \in SUBSET DOMAIN s.db.entries
      /\ of \subseteq from
  <2>1. \A k \in of : s.db.entries[k] = key /\ s.db.entries[k] >= key
    BY IndexOrder DEF TableOk, EntriesOf
  <2> QED
    BY <2>1 DEF EntriesFrom, EntriesOf
<1>4. DbOk(s.db)
  BY DEF TableOk
<1>5. from # {} => IsFirst(s.db, from, p) /\ p # End
  <2>1. \A k \in DOMAIN s.db.entries : k # End
    BY <1>4, IndexOrder DEF End
  <2> QED
    BY <1>3, <1>4, <2>1, FirstIs DEF IsFirst
<1>6. from = {} => p = End
  BY DEF FirstIn
<1> HIDE DEF lb
<1>7. lb.at = p /\ TableOk(lb) /\ lb.db = s.db
  BY <1>1 DEF Leads
<1>8. CASE lb.at # End /\ Object(lb).value = key
  <2>1. IsFirst(s.db, from, p) /\ p \in DOMAIN s.db.entries
    BY <1>3, <1>5, <1>6, <1>7, <1>8 DEF IsFirst
  <2>2. s.db.entries[p] = key
    <3>1. Loaded(s.db, Object(lb)) /\ Object(lb).pk = p
      BY <1>7, <1>8, ObjectIsAt
    <3>2. s.db.rows[p] = key
      BY <1>8, <3>1 DEF Loaded
    <3> QED
      BY <1>4, <2>1, <3>2 DEF DbOk
  <2>3. IsFirst(s.db, of, p)
    BY <1>3, <2>1, <2>2 DEF IsFirst, EntriesOf
  <2>4. FirstIn(s.db, of) = p
    BY <1>3, <1>4, <2>3, FirstIs
  <2> QED
    BY <1>1, <1>2, <1>8, <2>4
<1>9. CASE ~ (lb.at # End /\ Object(lb).value = key)
  <2>1. of = {}
    <3>1. SUFFICES ASSUME NEW q \in of PROVE FALSE
      OBVIOUS
    <3>2. IsFirst(s.db, from, p) /\ p # End /\ q \in from /\ p \in DOMAIN s.db.entries
      BY <1>3, <1>5 DEF IsFirst
    <3>3. s.db.entries[p] # key
      <4>1. Loaded(s.db, Object(lb)) /\ Object(lb).pk = p
        BY <1>7, <3>2, ObjectIsAt
      <4>2. s.db.rows[p] # key
        BY <1>7, <1>9, <3>2, <4>1 DEF Loaded
      <4> QED
        BY <1>4, <3>2, <4>2 DEF DbOk
    <3>4. s.db.entries[p] >= key /\ s.db.entries[q] = key /\ q \in DOMAIN s.db.entries
      BY <3>2 DEF IsFirst, EntriesFrom, EntriesOf
    <3>5. Before(s.db, p, q)
      BY <3>2, <3>3, <3>4 DEF IsFirst
    <3>6. s.db.entries[p] \in Nat
      BY <1>4, <3>2, IndexOrder
    <3> QED
      BY <3>3, <3>4, <3>5, <3>6 DEF Before
  <2>2. FirstIn(s.db, of) = End
    BY <2>1 DEF FirstIn
  <2>3. Leads(lb, AtEnd(lb), End)
    BY <1>7, AtEndLeads
  <2>4. Leads(s, AtEnd(lb), End)
    BY <1>1, <2>3, LeadsOn
  <2> QED
    BY <1>2, <1>9, <2>2, <2>4
<1> QED
  BY <1>8, <1>9

LEMMA EntryOfIs ==
  ASSUME NEW s, TableOk(s), s.at # End
  PROVE  /\ EntryOf(s, Object(s)) = EntryItr(s.db, s.at)
         /\ s.at \in DOMAIN s.db.entries => EntryItr(s.db, s.at) \in Nat
         /\ s.at \notin DOMAIN s.db.entries => EntryItr(s.db, s.at) = End
<1>1. /\ Object(s) \in s.items /\ Object(s).pk = s.at /\ Loaded(s.db, Object(s))
      /\ s.at \in DOMAIN s.db.rows
  BY ObjectIsAt
<1>2. /\ s.at \in DOMAIN s.db.entries => EntryItr(s.db, s.at) \in Nat
      /\ s.at \notin DOMAIN s.db.entries => EntryItr(s.db, s.at) = End
  BY <1>1, Iterators DEF TableOk
<1> QED
  BY <1>1, <1>2 DEF EntryOf, Loaded, db_idx_find_primary, End

LEMMA IteratorToLeads ==
  ASSUME NEW s, TableOk(s), s.at # End
  PROVE  /\ Leads(s, index_iterator_to(s), s.at)
         /\ Object(index_iterator_to(s)).sitr = EntryItr(s.db, s.at)
<1>1. index_iterator_to(s) = WithEntry(s, EntryItr(s.db, s.at))
  BY EntryOfIs DEF index_iterator_to
<1> QED
  BY <1>1, WithEntryLeads

LEMMA IndexIncrementLeads ==
  ASSUME NEW s, TableOk(s)
  PROVE  /\ s.at # End /\ s.at \in DOMAIN s.db.entries =>
              Leads(s, index_increment(s), FirstIn(s.db, EntriesAfter(s.db, s.at)))
         /\ s.at = End \/ s.at \notin DOMAIN s.db.entries => index_increment(s) = Abort(s)
<1> DEFINE known == index_iterator_to(s)
           itr == EntryItr(s.db, s.at)
<1>1. index_increment(s) =
        IF s.at = End \/ ~IsEntry(s.db, Object(known).sitr) THEN Abort(s)
        ELSE MoveToEntry(known, db_idx_next(s.db, Object(known).sitr))
  BY DEF index_increment
<1>2. ASSUME s.at # End
      PROVE  /\ Leads(s, known, s.at) /\ Object(known).sitr = itr
             /\ TableOk(known) /\ known.db = s.db
             /\ s.at \in DOMAIN s.db.rows
  BY <1>2, IteratorToLeads, ObjectIsAt DEF Leads
<1> HIDE DEF known
<1>3. ASSUME s.at # End, s.at \in DOMAIN s.db.entries
      PROVE  Leads(s, index_increment(s), FirstIn(s.db, EntriesAfter(s.db, s.at)))
  <2>1. itr \in Nat /\ Primary(itr) = s.at /\ IsEntry(s.db, itr)
    BY <1>2, <1>3, Iterators DEF TableOk
  <2>2. db_idx_next(s.db, itr) = FirstEntry(s.db, EntriesAfter(s.db, s.at))
    BY <2>1 DEF db_idx_next, EntriesAfter
  <2>3. index_increment(s) = MoveToEntry(known, FirstEntry(s.db, EntriesAfter(s.db, s.at)))
    BY <1>1, <1>2, <1>3, <2>1, <2>2
  <2>4. EntriesAfter(s.db, s.at) \in SUBSET DOMAIN known.db.entries
    BY <1>2, <1>3 DEF EntriesAfter
  <2>5. Leads(known, index_increment(s), FirstIn(s.db, EntriesAfter(s.db, s.at)))
    BY <1>2, <1>3, <2>3, <2>4, FirstLeads
  <2> QED
    BY <1>2, <1>3, <2>5, LeadsOn
<1>4. ASSUME s.at # End, s.at \notin DOMAIN s.db.entries
      PROVE  index_increment(s) = Abort(s)
  <2>1. itr = End
    BY <1>4, EntryOfIs
  <2> QED
    BY <1>1, <1>2, <1>4, <2>1 DEF IsEntry, End
<1> QED
  BY <1>1, <1>3, <1>4

LEMMA IndexDecrementLeads ==
  ASSUME NEW s, TableOk(s)
  PROVE  LET before == IF s.at = End THEN DOMAIN s.db.entries ELSE EntriesBefore(s.db, s.at)
         IN  /\ (s.at = End \/ s.at \in DOMAIN s.db.entries) /\ before # {} =>
                  Leads(s, index_decrement(s), LastIn(s.db, before))
             /\ ~ ((s.at = End \/ s.at \in DOMAIN s.db.entries) /\ before # {}) =>
                  index_decrement(s) = Abort(s)
<1> DEFINE before == IF s.at = End THEN DOMAIN s.db.entries ELSE EntriesBefore(s.db, s.at)
           known == index_iterator_to(s)
           itr == IF s.at = End THEN End ELSE Object(known).sitr
           prev == db_idx_previous(s.db, itr)
<1>1. index_decrement(s) =
        IF (s.at # End /\ ~IsEntry(s.db, itr)) \/ prev < 0 THEN Abort(s)
        ELSE MoveToEntry(known, prev)
  BY DEF index_decrement
<1>2. /\ Leads(s, known, s.at) /\ TableOk(known) /\ known.db = s.db
  <2>1. CASE s.at = End
    BY <2>1 DEF index_iterator_to, Leads
  <2>2. CASE s.at # End
    BY <2>2, IteratorToLeads DEF Leads
  <2> QED
    BY <2>1, <2>2
<1>3. s.at # End => itr = EntryItr(s.db, s.at) /\ s.at \in DOMAIN s.db.rows
  BY IteratorToLeads, ObjectIsAt
<1>4. s.at = End => itr = End
  OBVIOUS
<1> HIDE DEF known, itr
<1>5. DbOk(s.db)
  BY DEF TableOk
<1>6. before \in SUBSET DOMAIN s.db.entries
  BY DEF EntriesBefore
<1>7. ASSUME s.at = End \/ s.at \in DOMAIN s.db.entries
      PROVE  /\ prev = LastEntry(s.db, before)
             /\ s.at # End => IsEntry(s.db, itr)
  <2>1. s.at # End => itr \in Nat /\ Primary(itr) = s.at /\ IsEntry(s.db, itr)
    BY <1>3, <1>5, <1>7, Iterators
  <2>2. {k \in DOMAIN s.db.entries : itr = End \/ Before(s.db, k, Primary(itr))} = before
    BY <1>4, <2>1 DEF EntriesBefore, End
  <2> QED
    BY <2>1, <2>2 DEF db_idx_previous
<1> HIDE DEF prev
<1>8. ASSUME s.at = End \/ s.at \in DOMAIN s.db.entries, before # {}
      PROVE  Leads(s, index_decrement(s), LastIn(s.db, before))
  <2> DEFINE p == LastIn(s.db, before)
  <2>1. p \in DOMAIN s.db.entries /\ p \in DOMAIN s.db.rows
    BY <1>5, <1>6, <1>8, FirstIs DEF IsLast, DbOk
  <2>2. LastEntry(s.db, before) = EntryItr(s.db, p)
    BY <1>8 DEF LastEntry, LastIn
  <2>3. prev \in Nat
    BY <1>5, <1>7, <1>8, <2>1, <2>2, Iterators
  <2>4. index_decrement(s) = MoveToEntry(known, LastEntry(s.db, before))
    BY <1>1, <1>7, <1>8, <2>3
  <2>5. Leads(known, index_decrement(s), LastIn(s.db, before))
    BY <1>2, <1>6, <2>4, FirstLeads
  <2> QED
    BY <1>2, <2>5, LeadsOn
<1>9. ASSUME s.at = End \/ s.at \in DOMAIN s.db.entries, before = {}
      PROVE  index_decrement(s) = Abort(s)
  <2>1. prev = -1
    BY <1>7, <1>9 DEF LastEntry, End
  <2> QED
    BY <1>1, <2>1
<1>10. ASSUME s.at # End, s.at \notin DOMAIN s.db.entries
       PROVE  index_decrement(s) = Abort(s)
  <2>1. itr = -1
    BY <1>3, <1>10, EntryOfIs DEF End
  <2> QED
    BY <1>1, <1>10, <2>1 DEF IsEntry
<1> QED
  BY <1>8, <1>9, <1>10

(* The rows that the index says nothing of.                                *)
Unindexed(db) == DOMAIN db.rows \ DOMAIN db.entries

(* What every change gives: no row of a table with an index is left out    *)
(* that was not left out before.                                           *)
Changes(s, u) ==
  /\ TableOk(u) /\ u.own = s.own /\ u.indexed = s.indexed /\ u.ok = s.ok
  /\ s.indexed => Unindexed(u.db) \subseteq Unindexed(s.db)

LEMMA ChangesOn ==
  ASSUME NEW s, NEW u, NEW v, Changes(s, u), Changes(u, v)
  PROVE  Changes(s, v)
  BY DEF Changes

LEMMA LeadsChanges ==
  ASSUME NEW s, NEW u, NEW pk, Leads(s, u, pk)
  PROVE  Changes(s, u)
  BY DEF Leads, Changes

LEMMA AfterIsFree ==
  ASSUME NEW pk \in Keys
  PROVE  /\ After(pk) \in Keys
         /\ After(pk) < no_available_primary_key => After(pk) = pk + 1
  BY KeyAssumption DEF After, Keys, no_available_primary_key

(* The next key after an object was stored or changed.                     *)
LEMMA NotedIsFree ==
  ASSUME NEW s, Shape(s), s.next \in Keys, NEW pk \in Keys,
         \A k \in DOMAIN s.db.rows : k \in Keys,
         s.next < no_available_primary_key =>
           \A k \in DOMAIN s.db.rows \ {pk} : k < s.next
  PROVE  LET n == IF pk >= s.next THEN After(pk) ELSE s.next
         IN  /\ Noted(s, pk) = [db |-> s.db, items |-> s.items, next |-> n, own |-> s.own,
                                indexed |-> s.indexed, at |-> s.at, ok |-> s.ok]
             /\ n \in Keys /\ NextIsFree(s.db, n)
<1> DEFINE n == IF pk >= s.next THEN After(pk) ELSE s.next
<1>1. Noted(s, pk) = [db |-> s.db, items |-> s.items, next |-> n, own |-> s.own,
                      indexed |-> s.indexed, at |-> s.at, ok |-> s.ok]
  <2>1. CASE pk >= s.next
    BY <2>1, Sets DEF Noted
  <2>2. CASE ~ (pk >= s.next)
    BY <2>2 DEF Noted, Shape
  <2> QED
    BY <2>1, <2>2
<1>2. n \in Keys
  BY AfterIsFree
<1>3. NextIsFree(s.db, n)
  <2>1. SUFFICES ASSUME n < no_available_primary_key, NEW k \in DOMAIN s.db.rows
                 PROVE  k < n
    BY DEF NextIsFree
  <2>2. k \in Int /\ pk \in Int /\ s.next \in Int /\ MaxKey \in Int
    BY KeyAssumption DEF Keys
  <2>3. CASE pk >= s.next
    <3>1. n = pk + 1
      BY <2>1, <2>3, AfterIsFree
    <3>2. s.next < no_available_primary_key
      BY <2>1, <2>2, <2>3, <3>1 DEF no_available_primary_key
    <3> QED
      BY <2>2, <2>3, <3>1, <3>2
  <2>4. CASE ~ (pk >= s.next)
    BY <2>1, <2>2, <2>4
  <2> QED
    BY <2>3, <2>4
<1> HIDE DEF n
<1> QED
  BY <1>1, <1>2, <1>3 DEF n

(* The database with a row and, in a table that has an index, its entry.   *)
WithRow(db, pk, value, indexed) ==
  IF indexed THEN db_idx_store(db_store(db, pk, value), pk, value)
  ELSE db_store(db, pk, value)

RowStored(db, pk, value, indexed, both) ==
  /\ DbOk(both)
  /\ DOMAIN both.rows = DOMAIN db.rows \cup {pk} /\ both.rows[pk] = value
  /\ \A k \in DOMAIN db.rows : both.rows[k] = db.rows[k]
  /\ DOMAIN both.entries = IF indexed THEN DOMAIN db.entries \cup {pk}
                           ELSE DOMAIN db.entries
  /\ both.gen = db.gen /\ both.igen = db.igen

LEMMA StoreOk ==
  ASSUME NEW db, DbOk(db), NEW pk \in Keys, NEW value \in Nat, pk \notin DOMAIN db.rows,
         NEW indexed \in BOOLEAN
  PROVE  RowStored(db, pk, value, indexed, WithRow(db, pk, value, indexed))
<1> DEFINE rows == Stored(db.rows, pk, value)
           entries == IF indexed THEN Stored(db.entries, pk, value) ELSE db.entries
           stored == db_store(db, pk, value)
           both == WithRow(db, pk, value, indexed)
<1>1. both = [rows |-> rows, entries |-> entries, gen |-> db.gen, igen |-> db.igen]
  <2>1. stored = [rows |-> rows, entries |-> db.entries, gen |-> db.gen, igen |-> db.igen]
    BY DEF DbOk, db_store
  <2> HIDE DEF stored, rows
  <2> QED
    BY <2>1 DEF db_idx_store, WithRow, stored
<1>2. /\ DOMAIN rows = DOMAIN db.rows \cup {pk} /\ rows[pk] = value
      /\ \A k \in DOMAIN db.rows \ {pk} : rows[k] = db.rows[k]
  BY DEF Stored
<1>3. pk \notin DOMAIN db.entries
  BY DEF DbOk
<1>4. /\ DOMAIN entries = IF indexed THEN DOMAIN db.entries \cup {pk} ELSE DOMAIN db.entries
      /\ indexed => entries[pk] = value
      /\ \A k \in DOMAIN db.entries : entries[k] = db.entries[k]
  <2>1. CASE indexed
    BY <1>3, <2>1 DEF Stored
  <2>2. CASE ~indexed
    BY <2>2
  <2> QED
    BY <2>1, <2>2
<1> HIDE DEF rows, entries, both
<1>5. /\ both.rows = rows /\ both.entries = entries
      /\ both.gen = db.gen /\ both.igen = db.igen
  BY <1>1
<1>6. DbOk(both)
  BY <1>1, <1>2, <1>3, <1>4, <1>5 DEF DbOk
<1> QED
  BY <1>2, <1>4, <1>5, <1>6 DEF RowStored, both

LEMMA LoadedStays ==
  ASSUME NEW db, NEW new, NEW i, Loaded(db, i), DbOk(db), DbOk(new),
         i.pk \in DOMAIN new.rows, new.rows[i.pk] = db.rows[i.pk],
         new.gen[i.pk] = db.gen[i.pk], new.igen[i.pk] = db.igen[i.pk],
         i.pk \in DOMAIN db.entries => i.pk \in DOMAIN new.entries
  PROVE  Loaded(new, i)
<1>1. RowItr(new, i.pk) = RowItr(db, i.pk)
  BY DEF Loaded, RowItr
<1>2. i.sitr # End => EntryItr(new, i.pk) = i.sitr
  BY DEF Loaded, EntryItr
<1> QED
  BY <1>1, <1>2 DEF Loaded

(* A row is stored with its entry, or nothing is done.                     *)
LEMMA EmplaceChanges ==
  ASSUME NEW s, TableOk(s), NEW pk \in Keys, NEW value \in Nat
  PROVE  LET u == emplace(s, pk, value)
         IN  /\ s.own /\ pk \notin DOMAIN s.db.rows =>
                  /\ Changes(s, u) /\ u.at = pk
                  /\ DOMAIN u.db.rows = DOMAIN s.db.rows \cup {pk} /\ u.db.rows[pk] = value
             /\ ~ (s.own /\ pk \notin DOMAIN s.db.rows) => u = Abort(s)
<1> DEFINE u == emplace(s, pk, value)
           both == WithRow(s.db, pk, value, s.indexed)
           item == [pk |-> pk, value |-> value, pitr |-> RowItr(both, pk),
                    sitr |-> EntryItr(both, pk)]
           v == [s EXCEPT !.db = both, !.items = s.items \cup {item}, !.at = pk]
<1>1. /\ Shape(s) /\ DbOk(s.db) /\ s.indexed \in BOOLEAN /\ s.own \in BOOLEAN
      /\ \A i \in s.items : Loaded(s.db, i)
      /\ \A i, j \in s.items : i.pk = j.pk => i = j
      /\ s.next \in Keys /\ NextIsFree(s.db, s.next)
      /\ ~s.indexed => DOMAIN s.db.entries = {}
      /\ DOMAIN s.db.entries \subseteq DOMAIN s.db.rows /\ DOMAIN s.db.rows \subseteq Keys
  BY DEF TableOk, DbOk
<1>2. ~ (s.own /\ pk \notin DOMAIN s.db.rows) => u = Abort(s)
  BY DEF emplace, CanStore
<1>3. ASSUME s.own, pk \notin DOMAIN s.db.rows
      PROVE  /\ Changes(s, u) /\ u.at = pk
             /\ DOMAIN u.db.rows = DOMAIN s.db.rows \cup {pk} /\ u.db.rows[pk] = value
  <2>1. u = Noted(v, pk)
    BY <1>1, <1>3 DEF emplace, CanStore, CanIndex, WithRow
  <2>2. /\ DbOk(both)
        /\ DOMAIN both.rows = DOMAIN s.db.rows \cup {pk} /\ both.rows[pk] = value
        /\ \A k \in DOMAIN s.db.rows : both.rows[k] = s.db.rows[k]
        /\ DOMAIN both.entries = IF s.indexed THEN DOMAIN s.db.entries \cup {pk}
                                 ELSE DOMAIN s.db.entries
        /\ both.gen = s.db.gen /\ both.igen = s.db.igen
    BY <1>1, <1>3, StoreOk DEF RowStored
  <2> HIDE DEF both, u, item
  <2>3. v = [db |-> both, items |-> s.items \cup {item}, next |-> s.next, own |-> s.own,
             indexed |-> s.indexed, at |-> pk, ok |-> s.ok]
    <3> DEFINE items == s.items \cup {item}
               q == [s EXCEPT !.db = both]
               r == [q EXCEPT !.items = items]
    <3>1. v = [r EXCEPT !.at = pk]
      OBVIOUS
    <3> HIDE DEF v, items
    <3>2. q = [db |-> both, items |-> s.items, next |-> s.next, own |-> s.own,
               indexed |-> s.indexed, at |-> s.at, ok |-> s.ok]
      BY <1>1, Sets
    <3> HIDE DEF q
    <3>3. Shape(q)
      BY <3>2 DEF Shape
    <3>4. r = [db |-> q.db, items |-> items, next |-> q.next, own |-> q.own,
               indexed |-> q.indexed, at |-> q.at, ok |-> q.ok]
      BY <3>3, Sets
    <3> HIDE DEF r
    <3>5. Shape(r)
      BY <3>4 DEF Shape
    <3>6. v = [db |-> r.db, items |-> r.items, next |-> r.next, own |-> r.own,
               indexed |-> r.indexed, at |-> pk, ok |-> r.ok]
      BY <3>1, <3>5, Sets
    <3> QED
      BY <3>2, <3>4, <3>6 DEF items
  <2>4. item.pk = pk /\ Loaded(both, item)
    BY <2>2 DEF Loaded, item
  <2>5. \A i \in s.items : Loaded(both, i) /\ i.pk # pk
    <3>1. SUFFICES ASSUME NEW i \in s.items PROVE Loaded(both, i) /\ i.pk # pk
      OBVIOUS
    <3>2. Loaded(s.db, i) /\ i.pk \in DOMAIN s.db.rows
      BY <1>1 DEF Loaded
    <3> QED
      BY <1>1, <1>3, <2>2, <3>2, LoadedStays
  <2> HIDE DEF item, v
  <2>6. /\ Shape(v) /\ v.next = s.next /\ v.db = both /\ v.items = s.items \cup {item}
        /\ v.own = s.own /\ v.indexed = s.indexed /\ v.at = pk /\ v.ok = s.ok
    BY <2>3 DEF Shape
  <2>7. \A k \in DOMAIN v.db.rows : k \in Keys
    BY <1>1, <2>2, <2>6
  <2>8. v.next < no_available_primary_key => \A k \in DOMAIN v.db.rows \ {pk} : k < v.next
    BY <1>1, <2>2, <2>6 DEF NextIsFree
  <2> DEFINE n == IF pk >= v.next THEN After(pk) ELSE v.next
  <2>9. /\ u = [db |-> v.db, items |-> v.items, next |-> n, own |-> v.own,
                indexed |-> v.indexed, at |-> v.at, ok |-> v.ok]
        /\ n \in Keys /\ NextIsFree(v.db, n)
    BY <1>1, <2>1, <2>6, <2>7, <2>8, NotedIsFree
  <2> HIDE DEF n
  <2>10. /\ u.db = both /\ u.items = s.items \cup {item} /\ u.next = n
         /\ u.own = s.own /\ u.indexed = s.indexed /\ u.at = pk /\ u.ok = s.ok
    BY <2>6, <2>9
  <2>11. \A i, j \in u.items : i.pk = j.pk => i = j
    BY <1>1, <2>4, <2>5, <2>10
  <2>12. \A i \in u.items : Loaded(u.db, i)
    BY <2>4, <2>5, <2>10
  <2>13. \E i \in u.items : i.pk = u.at
    BY <2>4, <2>10
  <2>14. ~u.indexed => DOMAIN u.db.entries = {}
    BY <1>1, <2>2, <2>10
  <2>15. TableOk(u)
    BY <2>2, <2>6, <2>9, <2>10, <2>11, <2>12, <2>13, <2>14 DEF TableOk, Shape
  <2>16. s.indexed => Unindexed(u.db) \subseteq Unindexed(s.db)
    BY <2>2, <2>10 DEF Unindexed
  <2> QED
    BY <2>2, <2>10, <2>15, <2>16 DEF Changes
<1> QED
  BY <1>2, <1>3

(* The row of an object, and perhaps its entry, are those of a new value.  *)
RowChanged(s, new, value) ==
  /\ DbOk(new)
  /\ DOMAIN new.rows = DOMAIN s.db.rows /\ new.rows[s.at] = value
  /\ \A k \in DOMAIN s.db.rows \ {s.at} : new.rows[k] = s.db.rows[k]
  /\ new.gen = s.db.gen /\ new.igen = s.db.igen
  /\ DOMAIN s.db.entries \subseteq DOMAIN new.entries
  /\ DOMAIN new.entries \subseteq DOMAIN s.db.entries \cup {s.at}
  /\ ~s.indexed => DOMAIN new.entries = {}

Changed(s, value) ==
  (s.items \ {Object(s)}) \cup {[Object(s) EXCEPT !.value = value]}

LEMMA ChangedOk ==
  ASSUME NEW s, TableOk(s), s.at # End, NEW value \in Nat, NEW new,
         RowChanged(s, new, value), NEW n \in Keys, NextIsFree(new, n),
         NEW u, u = [db |-> new, items |-> Changed(s, value), next |-> n, own |-> s.own,
                     indexed |-> s.indexed, at |-> s.at, ok |-> s.ok]
  PROVE  Changes(s, u)
<1> DEFINE old == Object(s)
           changed == [old EXCEPT !.value = value]
<1>1. /\ Shape(s) /\ DbOk(s.db)
      /\ \A i \in s.items : Loaded(s.db, i)
      /\ \A i, j \in s.items : i.pk = j.pk => i = j
      /\ s.own \in BOOLEAN /\ s.indexed \in BOOLEAN /\ s.ok \in BOOLEAN
  BY DEF TableOk
<1>2. old \in s.items /\ old.pk = s.at /\ Loaded(s.db, old)
  BY ObjectIsAt
<1>3. changed = [pk |-> old.pk, value |-> value, pitr |-> old.pitr, sitr |-> old.sitr]
  BY <1>2 DEF Loaded
<1>4. u.items = (s.items \ {old}) \cup {changed}
  BY DEF Changed
<1> HIDE DEF old, changed
<1>5. changed.pk = s.at /\ Loaded(new, changed)
  <2>1. RowItr(new, s.at) = RowItr(s.db, s.at)
    BY DEF RowChanged, RowItr
  <2>2. old.sitr # End => EntryItr(new, s.at) = old.sitr
    BY <1>2 DEF RowChanged, EntryItr, Loaded
  <2>3. s.at \in DOMAIN new.rows /\ new.rows[s.at] = value
    BY <1>2 DEF RowChanged, Loaded
  <2> QED
    BY <1>2, <1>3, <2>1, <2>2, <2>3 DEF Loaded
<1>6. \A i \in s.items \ {old} : i.pk # s.at /\ Loaded(new, i)
  <2>1. SUFFICES ASSUME NEW i \in s.items \ {old} PROVE i.pk # s.at /\ Loaded(new, i)
    OBVIOUS
  <2>2. i.pk # s.at /\ Loaded(s.db, i) /\ i.pk \in DOMAIN s.db.rows
    BY <1>1, <1>2 DEF Loaded
  <2>3. /\ i.pk \in DOMAIN new.rows /\ new.rows[i.pk] = s.db.rows[i.pk]
        /\ new.gen[i.pk] = s.db.gen[i.pk] /\ new.igen[i.pk] = s.db.igen[i.pk]
        /\ i.pk \in DOMAIN s.db.entries => i.pk \in DOMAIN new.entries
        /\ DbOk(new)
    BY <2>2 DEF RowChanged
  <2> QED
    BY <1>1, <2>2, <2>3, LoadedStays
<1>7. /\ u.db = new /\ u.next = n /\ u.own = s.own /\ u.indexed = s.indexed
      /\ u.at = s.at /\ u.ok = s.ok
  OBVIOUS
<1>8. Shape(u)
  BY <1>7 DEF Shape
<1>9. \A i, j \in u.items : i.pk = j.pk => i = j
  BY <1>1, <1>4, <1>5, <1>6
<1>10. \A i \in u.items : Loaded(u.db, i)
  BY <1>4, <1>5, <1>6, <1>7
<1>11. \E i \in u.items : i.pk = u.at
  BY <1>4, <1>5, <1>7
<1>12. DbOk(u.db) /\ (~u.indexed => DOMAIN u.db.entries = {})
  BY <1>7 DEF RowChanged
<1>13. TableOk(u)
  BY <1>1, <1>7, <1>8, <1>9, <1>10, <1>11, <1>12 DEF TableOk
<1>14. s.indexed => Unindexed(u.db) \subseteq Unindexed(s.db)
  BY <1>7 DEF RowChanged, Unindexed
<1> QED
  BY <1>7, <1>13, <1>14 DEF Changes

(* The row is changed, with its entry in a table that has an index.        *)
IsModified(s, u, value) ==
  /\ Changes(s, u) /\ u.at = s.at
  /\ DOMAIN u.db.rows = DOMAIN s.db.rows /\ u.db.rows[s.at] = value

LEMMA ModifyChanges ==
  ASSUME NEW s, TableOk(s), NEW value \in Nat
  PROVE  /\ s.own /\ s.at # End => IsModified(s, modify(s, value), value)
         /\ ~ (s.own /\ s.at # End) => modify(s, value) = Abort(s)
<1> DEFINE u == modify(s, value)
           item == Object(s)
           changed == [item EXCEPT !.value = value]
           dbu == db_update(s.db, item.pitr, value)
           w == [Replace(s, item, changed) EXCEPT !.db = dbu]
           updated == Noted(w, item.pk)
<1>1. /\ Shape(s) /\ DbOk(s.db) /\ s.indexed \in BOOLEAN /\ s.own \in BOOLEAN
      /\ s.next \in Keys /\ NextIsFree(s.db, s.next)
      /\ ~s.indexed => DOMAIN s.db.entries = {}
      /\ DOMAIN s.db.entries \subseteq DOMAIN s.db.rows /\ DOMAIN s.db.rows \subseteq Keys
  BY DEF TableOk, DbOk
<1>2. ~ (s.own /\ s.at # End) => u = Abort(s)
  BY DEF modify
<1>3. ASSUME s.own, s.at # End
      PROVE  IsModified(s, u, value)
  <2>1. /\ item \in s.items /\ item.pk = s.at /\ Loaded(s.db, item)
        /\ s.at \in DOMAIN s.db.rows
    BY <1>3, ObjectIsAt
  <2>2. /\ item.pitr = RowItr(s.db, s.at) /\ IsRow(s.db, item.pitr)
        /\ Primary(item.pitr) = s.at /\ item.value = s.db.rows[s.at]
        /\ s.at \in Keys
    BY <1>1, <2>1, Iterators DEF Loaded
  <2>3. u = IF s.indexed /\ item.value # value THEN Reindexed(updated, changed, value)
            ELSE updated
    BY <1>3, <2>2 DEF modify
  <2> DEFINE rows == [s.db.rows EXCEPT ![s.at] = value]
  <2>4. dbu = [rows |-> rows, entries |-> s.db.entries, gen |-> s.db.gen, igen |-> s.db.igen]
    BY <1>1, <2>2 DEF db_update, DbOk
  <2>5. /\ DOMAIN rows = DOMAIN s.db.rows /\ rows[s.at] = value
        /\ \A k \in DOMAIN s.db.rows \ {s.at} : rows[k] = s.db.rows[k]
    BY <2>1
  <2> HIDE DEF rows, dbu
  <2>6. /\ dbu.rows = rows /\ dbu.entries = s.db.entries
        /\ dbu.gen = s.db.gen /\ dbu.igen = s.db.igen
    BY <2>4
  <2> DEFINE items == (s.items \ {item}) \cup {changed}
             r == [s EXCEPT !.items = items]
  <2>7. items = Changed(s, value)
    BY DEF Changed
  <2>8. w = [r EXCEPT !.db = dbu]
    BY <1>1 DEF Replace, Shape
  <2> HIDE DEF items, w, changed
  <2>9. r = [db |-> s.db, items |-> items, next |-> s.next, own |-> s.own,
             indexed |-> s.indexed, at |-> s.at, ok |-> s.ok]
    BY <1>1, Sets
  <2> HIDE DEF r
  <2>10. Shape(r)
    BY <2>9 DEF Shape
  <2>11. w = [db |-> dbu, items |-> r.items, next |-> r.next, own |-> r.own,
              indexed |-> r.indexed, at |-> r.at, ok |-> r.ok]
    BY <2>8, <2>10, Sets
  <2>12. /\ Shape(w) /\ w.db = dbu /\ w.items = items /\ w.next = s.next /\ w.own = s.own
         /\ w.indexed = s.indexed /\ w.at = s.at /\ w.ok = s.ok
    BY <2>9, <2>11 DEF Shape
  <2> DEFINE n == IF s.at >= w.next THEN After(s.at) ELSE w.next
  <2>13. \A k \in DOMAIN w.db.rows : k \in Keys
    BY <1>1, <2>5, <2>6, <2>12
  <2>14. w.next < no_available_primary_key => \A k \in DOMAIN w.db.rows \ {s.at} : k < w.next
    BY <1>1, <2>5, <2>6, <2>12 DEF NextIsFree
  <2>15. /\ Noted(w, s.at) = [db |-> w.db, items |-> w.items, next |-> n, own |-> w.own,
                              indexed |-> w.indexed, at |-> w.at, ok |-> w.ok]
         /\ n \in Keys /\ NextIsFree(w.db, n)
    BY <1>1, <2>2, <2>12, <2>13, <2>14, NotedIsFree
  <2>16. updated = Noted(w, s.at)
    BY <2>1
  <2> HIDE DEF n, updated
  <2>17. /\ updated = [db |-> dbu, items |-> items, next |-> n, own |-> s.own,
                       indexed |-> s.indexed, at |-> s.at, ok |-> s.ok]
         /\ NextIsFree(dbu, n)
    BY <2>12, <2>15, <2>16
  <2>18. CASE ~ (s.indexed /\ item.value # value)
    <3>1. u = updated
      BY <2>3, <2>18
    <3>2. \A k \in DOMAIN s.db.entries : rows[k] = s.db.rows[k]
      BY <1>1, <2>2, <2>5, <2>18
    <3>3. DbOk(dbu)
      BY <1>1, <2>4, <2>5, <2>6, <3>2 DEF DbOk
    <3>4. RowChanged(s, dbu, value)
      BY <1>1, <2>5, <2>6, <3>3 DEF RowChanged
    <3> HIDE DEF u
    <3>5. Changes(s, u)
      BY <1>3, <2>7, <2>15, <2>17, <3>1, <3>4, ChangedOk
    <3>6. u.db = dbu /\ u.at = s.at
      BY <2>17, <3>1
    <3> QED
      BY <2>5, <2>6, <3>5, <3>6 DEF IsModified
  <2>19. CASE s.indexed /\ item.value # value
    <3> DEFINE itr == EntryItr(s.db, s.at)
               db == IF itr >= 0 THEN db_idx_update(dbu, itr, value)
                     ELSE db_idx_store(dbu, s.at, value)
               v == [updated EXCEPT !.db = db]
               entries == IF itr >= 0 THEN [s.db.entries EXCEPT ![s.at] = value]
                          ELSE Stored(s.db.entries, s.at, value)
    <3>1. /\ s.at \in DOMAIN s.db.entries => itr \in Nat /\ Primary(itr) = s.at
          /\ s.at \notin DOMAIN s.db.entries => itr = -1
      BY <1>1, <2>1, Iterators DEF End
    <3>2. changed.pk = s.at /\ changed.sitr = item.sitr
      BY <2>1 DEF Loaded, changed
    <3>3. EntryItr(dbu, s.at) = itr
      BY <2>6 DEF EntryItr
    <3>4. EntryOf(updated, changed) = itr
      <4>1. item.sitr # End => item.sitr = itr
        BY <2>1 DEF Loaded
      <4>2. item.sitr < 0 => itr = EntryItr(dbu, s.at)
        BY <3>3
      <4>3. item.sitr >= 0 => item.sitr = itr
        BY <4>1 DEF End
      <4>4. updated.db = dbu
        BY <2>17
      <4>5. item.sitr \in Int
        BY <3>1, <4>1 DEF End
      <4> QED
        BY <3>2, <4>2, <4>3, <4>4, <4>5 DEF EntryOf, db_idx_find_primary
    <3>5. /\ itr >= 0 => IsEntry(dbu, itr)
          /\ itr < 0 => CanIndex(dbu, s.at)
      <4>1. itr >= 0 => s.at \in DOMAIN s.db.entries
        BY <3>1
      <4> QED
        BY <2>6, <3>1, <3>3, <4>1 DEF IsEntry, CanIndex
    <3>6. updated.db = dbu
      BY <2>17
    <3>7. u = WithEntry(v, EntryItr(db, s.at))
      BY <2>3, <2>19, <3>2, <3>4, <3>5, <3>6 DEF Reindexed
    <3>8. db = [rows |-> rows, entries |-> entries, gen |-> s.db.gen, igen |-> s.db.igen]
      <4>1. CASE itr >= 0
        <5>1. Primary(itr) = s.at
          BY <3>1, <4>1
        <5>2. db = [dbu EXCEPT !.entries[s.at] = value]
          BY <4>1, <5>1 DEF db_idx_update
        <5> QED
          BY <2>4, <4>1, <5>2
      <4>2. CASE ~ (itr >= 0)
        BY <2>4, <4>2 DEF db_idx_store
      <4> QED
        BY <4>1, <4>2
    <3>9. /\ DOMAIN entries = DOMAIN s.db.entries \cup {s.at} /\ entries[s.at] = value
          /\ \A k \in DOMAIN s.db.entries \ {s.at} : entries[k] = s.db.entries[k]
      <4>1. CASE itr >= 0
        BY <3>1, <4>1
      <4>2. CASE ~ (itr >= 0)
        BY <3>1, <4>2 DEF Stored
      <4> QED
        BY <4>1, <4>2
    <3> HIDE DEF entries, db
    <3>10. /\ db.rows = rows /\ db.entries = entries
           /\ db.gen = s.db.gen /\ db.igen = s.db.igen
      BY <3>8
    <3>11. DbOk(db)
      BY <1>1, <2>1, <2>5, <3>8, <3>9, <3>10 DEF DbOk
    <3>12. RowChanged(s, db, value)
      BY <2>1, <2>5, <2>19, <3>9, <3>10, <3>11 DEF RowChanged
    <3>13. NextIsFree(db, n)
      BY <2>6, <2>17, <3>10 DEF NextIsFree
    <3>14. Shape(updated)
      BY <2>17 DEF Shape
    <3>15. v = [db |-> db, items |-> items, next |-> n, own |-> s.own,
                indexed |-> s.indexed, at |-> s.at, ok |-> s.ok]
      <4>1. v = [db |-> db, items |-> updated.items, next |-> updated.next,
                 own |-> updated.own, indexed |-> updated.indexed, at |-> updated.at,
                 ok |-> updated.ok]
        BY <3>14, Sets
      <4> HIDE DEF v
      <4> QED
        BY <2>17, <4>1
    <3> HIDE DEF v, u
    <3>16. Changes(s, v)
      BY <1>3, <2>7, <2>15, <3>12, <3>13, <3>15, ChangedOk
    <3>17. v.db = db /\ v.at = s.at /\ TableOk(v)
      BY <3>15, <3>16 DEF Changes
    <3>18. Leads(v, u, s.at)
      BY <1>3, <3>7, <3>17, WithEntryLeads
    <3>19. Changes(s, u)
      BY <3>16, <3>18, LeadsChanges, ChangesOn
    <3>20. u.db = db /\ u.at = s.at
      BY <3>17, <3>18 DEF Leads
    <3> QED
      BY <2>5, <3>10, <3>19, <3>20 DEF IsModified
  <2> QED
    BY <2>18, <2>19
<1> QED
  BY <1>2, <1>3

(* An object goes with its row and its entry.                              *)
IsErased(s, u, pk) ==
  /\ Changes(s, u) /\ u.at = s.at
  /\ DOMAIN u.db.rows = DOMAIN s.db.rows \ {pk}
  /\ u.items = {i \in s.items : i.pk # pk}

LEMMA EraseObjectChanges ==
  ASSUME NEW s, TableOk(s), NEW pk, pk # s.at, \E i \in s.items : i.pk = pk
  PROVE  /\ s.own => IsErased(s, erase_object(s, pk), pk)
         /\ ~s.own => erase_object(s, pk) = Abort(s)
<1> DEFINE u == erase_object(s, pk)
<1>1. /\ Shape(s) /\ DbOk(s.db) /\ s.indexed \in BOOLEAN /\ s.own \in BOOLEAN
      /\ s.ok \in BOOLEAN
      /\ \A i \in s.items : Loaded(s.db, i)
      /\ \A i, j \in s.items : i.pk = j.pk => i = j
      /\ s.next \in Keys /\ NextIsFree(s.db, s.next)
      /\ s.at # End => \E i \in s.items : i.pk = s.at
      /\ ~s.indexed => DOMAIN s.db.entries = {}
      /\ DOMAIN s.db.entries \subseteq DOMAIN s.db.rows /\ DOMAIN s.db.rows \subseteq Keys
  BY DEF TableOk, DbOk
<1>2. PICK item \in s.items : item.pk = pk
  OBVIOUS
<1>3. Item(s, pk) = item /\ Cached(s, pk) # {}
  BY <1>2, ItemIsIt
<1>4. Loaded(s.db, item) /\ pk \in DOMAIN s.db.rows
  BY <1>1, <1>2 DEF Loaded
<1>5. /\ item.pitr = RowItr(s.db, pk) /\ IsRow(s.db, item.pitr) /\ Primary(item.pitr) = pk
  BY <1>1, <1>2, <1>4, Iterators DEF Loaded
<1> DEFINE itr == EntryItr(s.db, pk)
           removed == db_remove(s.db, item.pitr)
           db == IF s.indexed /\ itr >= 0 THEN db_idx_remove(removed, itr) ELSE removed
<1>6. /\ pk \in DOMAIN s.db.entries => /\ itr \in Nat /\ Primary(itr) = pk /\ IsEntry(s.db, itr)
      /\ pk \notin DOMAIN s.db.entries => itr = -1
  BY <1>1, <1>4, Iterators DEF End
<1>7. EntryOf(s, item) = itr
  BY <1>2, <1>4, <1>6 DEF EntryOf, Loaded, db_idx_find_primary, End
<1>8. u = IF ~s.own THEN Abort(s) ELSE [s EXCEPT !.items = @ \ {item}, !.db = db]
  <2>1. ~ (s.indexed /\ itr >= 0 /\ ~IsEntry(s.db, itr))
    BY <1>6
  <2> QED
    BY <1>3, <1>5, <1>7, <2>1 DEF erase_object
<1>9. ASSUME s.own PROVE IsErased(s, u, pk)
  <2> DEFINE rows == Restrict(s.db.rows, DOMAIN s.db.rows \ {pk})
             gen == [s.db.gen EXCEPT ![pk] = 1 - @]
             gone == s.indexed /\ itr >= 0
             entries == IF gone THEN Restrict(s.db.entries, DOMAIN s.db.entries \ {pk})
                        ELSE s.db.entries
             igen == IF gone THEN [s.db.igen EXCEPT ![pk] = 1 - @] ELSE s.db.igen
  <2>1. removed = [rows |-> rows, entries |-> s.db.entries, gen |-> gen, igen |-> s.db.igen]
    <3> DEFINE q == [s.db EXCEPT !.rows = rows]
    <3>1. removed = [q EXCEPT !.gen[pk] = 1 - @]
      BY <1>5 DEF db_remove
    <3> HIDE DEF removed, rows
    <3>2. q = [rows |-> rows, entries |-> s.db.entries, gen |-> s.db.gen, igen |-> s.db.igen]
      BY <1>1 DEF DbOk
    <3> HIDE DEF q
    <3> QED
      BY <3>1, <3>2
  <2>2. db = [rows |-> rows, entries |-> entries, gen |-> gen, igen |-> igen]
    <3>1. CASE gone
      <4>1. Primary(itr) = pk
        BY <1>6, <3>1
      <4> HIDE DEF removed, rows, gen
      <4>2. db = [removed EXCEPT !.entries = Restrict(@, DOMAIN @ \ {pk}), !.igen[pk] = 1 - @]
        BY <3>1, <4>1 DEF db_idx_remove
      <4> QED
        BY <2>1, <3>1, <4>2
    <3>2. CASE ~gone
      BY <2>1, <3>2
    <3> QED
      BY <3>1, <3>2
  <2>3. /\ DOMAIN rows = DOMAIN s.db.rows \ {pk}
        /\ \A k \in DOMAIN rows : rows[k] = s.db.rows[k]
    BY DEF Restrict
  <2>4. /\ DOMAIN entries = DOMAIN s.db.entries \ {pk}
        /\ \A k \in DOMAIN entries : entries[k] = s.db.entries[k]
    <3>1. CASE gone
      BY <3>1 DEF Restrict
    <3>2. CASE ~gone
      <4>1. pk \notin DOMAIN s.db.entries
        BY <1>1, <1>6, <3>2
      <4> QED
        BY <3>2, <4>1
    <3> QED
      BY <3>1, <3>2
  <2>5. /\ gen \in [Keys -> {0, 1}] /\ igen \in [Keys -> {0, 1}]
        /\ \A k \in Keys \ {pk} : gen[k] = s.db.gen[k] /\ igen[k] = s.db.igen[k]
    <3>1. s.db.gen \in [Keys -> {0, 1}] /\ s.db.igen \in [Keys -> {0, 1}]
      BY <1>1 DEF DbOk
    <3>2. \A x \in {0, 1} : 1 - x \in {0, 1}
      OBVIOUS
    <3> QED
      BY <3>1, <3>2
  <2> HIDE DEF rows, gen, entries, igen, db
  <2>6. /\ db.rows = rows /\ db.entries = entries /\ db.gen = gen /\ db.igen = igen
    BY <2>2
  <2>7. DbOk(db)
    BY <1>1, <2>2, <2>3, <2>4, <2>5, <2>6 DEF DbOk
  <2> DEFINE items == s.items \ {item}
             r == [s EXCEPT !.items = items]
  <2>8. u = [r EXCEPT !.db = db]
    BY <1>8, <1>9
  <2> HIDE DEF items, u
  <2>9. r = [db |-> s.db, items |-> items, next |-> s.next, own |-> s.own,
             indexed |-> s.indexed, at |-> s.at, ok |-> s.ok]
    BY <1>1, Sets
  <2> HIDE DEF r
  <2>10. Shape(r)
    BY <2>9 DEF Shape
  <2>11. u = [db |-> db, items |-> r.items, next |-> r.next, own |-> r.own,
              indexed |-> r.indexed, at |-> r.at, ok |-> r.ok]
    BY <2>8, <2>10, Sets
  <2>12. /\ Shape(u) /\ u.db = db /\ u.items = items /\ u.next = s.next /\ u.own = s.own
         /\ u.indexed = s.indexed /\ u.at = s.at /\ u.ok = s.ok
    BY <2>9, <2>11 DEF Shape
  <2>13. \A i \in items : i \in s.items /\ i.pk # pk
    BY <1>1, <1>2 DEF items
  <2>14. \A i \in items : Loaded(db, i)
    <3>1. SUFFICES ASSUME NEW i \in items PROVE Loaded(db, i)
      OBVIOUS
    <3>2. i.pk # pk /\ Loaded(s.db, i) /\ i.pk \in DOMAIN s.db.rows /\ i.pk \in Keys
      BY <1>1, <2>13 DEF Loaded
    <3>3. /\ i.pk \in DOMAIN db.rows /\ db.rows[i.pk] = s.db.rows[i.pk]
          /\ db.gen[i.pk] = s.db.gen[i.pk] /\ db.igen[i.pk] = s.db.igen[i.pk]
          /\ i.pk \in DOMAIN s.db.entries => i.pk \in DOMAIN db.entries
      BY <2>3, <2>4, <2>5, <2>6, <3>2
    <3> QED
      BY <1>1, <2>7, <3>2, <3>3, LoadedStays
  <2>15. \A i, j \in items : i.pk = j.pk => i = j
    BY <1>1, <2>13
  <2>16. s.at # End => \E i \in items : i.pk = s.at
    BY <1>1, <1>2 DEF items
  <2>17. NextIsFree(db, s.next)
    BY <1>1, <2>3, <2>6 DEF NextIsFree
  <2>18. ~s.indexed => DOMAIN db.entries = {}
    BY <1>1, <2>4, <2>6
  <2>19. TableOk(u)
    BY <1>1, <2>7, <2>12, <2>14, <2>15, <2>16, <2>17, <2>18 DEF TableOk
  <2>20. Unindexed(db) \subseteq Unindexed(s.db)
    BY <2>3, <2>4, <2>6 DEF Unindexed
  <2>21. items = {i \in s.items : i.pk # pk}
    BY <1>1, <1>2 DEF items
  <2> QED
    BY <2>3, <2>6, <2>12, <2>19, <2>20, <2>21 DEF IsErased, Changes
<1> QED
  BY <1>8, <1>9

(* An erase moves on first, and never stays where it was.                  *)
LEMMA EraseAfterMove ==
  ASSUME NEW s, TableOk(s), s.at # End, NEW moved, NEW pk, Leads(s, moved, pk), pk # s.at
  PROVE  /\ s.own => /\ Changes(s, erase_object(moved, s.at))
                     /\ IsErased(moved, erase_object(moved, s.at), s.at)
         /\ ~s.own => erase_object(moved, s.at) = Abort(moved)
<1>1. /\ TableOk(moved) /\ moved.own = s.own /\ moved.at # s.at
      /\ \E i \in moved.items : i.pk = s.at
  BY DEF Leads, TableOk
<1>2. /\ s.own => IsErased(moved, erase_object(moved, s.at), s.at)
      /\ ~s.own => erase_object(moved, s.at) = Abort(moved)
  BY <1>1, EraseObjectChanges
<1> QED
  BY <1>2, LeadsChanges, ChangesOn DEF IsErased

LEMMA EraseChanges ==
  ASSUME NEW s, TableOk(s), s.ok
  PROVE  /\ s.own /\ s.at # End =>
              /\ Changes(s, erase(s))
              /\ DOMAIN erase(s).db.rows = DOMAIN s.db.rows \ {s.at}
         /\ ~ (s.own /\ s.at # End) => erase(s).ok = FALSE
<1> DEFINE moved == increment(s)
           next == Least(RowsPast(s.db, s.at))
<1>1. CASE s.at = End
  BY <1>1, AbortIsFailure DEF erase, Aborted
<1>2. CASE s.at # End
  <2>1. Leads(s, moved, next)
    BY <1>2, IncrementLeads
  <2>2. next # s.at
    <3>1. DOMAIN s.db.rows \in SUBSET Nat
      BY KeyAssumption DEF TableOk, DbOk, Keys
    <3>2. RowsPast(s.db, s.at) \in SUBSET Nat /\ s.at \notin RowsPast(s.db, s.at)
      BY <3>1 DEF RowsPast
    <3> QED
      BY <1>2, <3>2, LeastOf
  <2>3. moved.ok = TRUE /\ moved.db = s.db /\ TableOk(moved)
    BY <2>1 DEF Leads, TableOk
  <2>4. erase(s) = erase_object(moved, s.at)
    BY <1>2, <2>3 DEF erase
  <2> HIDE DEF moved, next
  <2>5. ~s.own => erase(s).ok = FALSE
    BY <1>2, <2>1, <2>2, <2>3, <2>4, EraseAfterMove, AbortIsFailure DEF Aborted
  <2>6. s.own => /\ Changes(s, erase(s))
                 /\ DOMAIN erase(s).db.rows = DOMAIN s.db.rows \ {s.at}
    BY <1>2, <2>1, <2>2, <2>3, <2>4, EraseAfterMove DEF IsErased
  <2> QED
    BY <1>2, <2>5, <2>6
<1> QED
  BY <1>1, <1>2

LEMMA IndexEraseChanges ==
  ASSUME NEW s, TableOk(s), index_erase(s).ok = TRUE, s.ok = TRUE
  PROVE  Changes(s, index_erase(s))
<1> DEFINE moved == index_increment(s)
           after == EntriesAfter(s.db, s.at)
           next == FirstIn(s.db, after)
<1>1. CASE s.at = End \/ s.at \notin DOMAIN s.db.entries
  <2>1. moved = Abort(s) /\ Abort(s).ok = FALSE
    BY <1>1, IndexIncrementLeads, AbortIsFailure DEF Aborted
  <2> QED
    BY <2>1 DEF index_erase
<1>2. CASE s.at # End /\ s.at \in DOMAIN s.db.entries
  <2>1. Leads(s, moved, next)
    BY <1>2, IndexIncrementLeads
  <2>2. next # s.at
    <3>1. DbOk(s.db)
      BY DEF TableOk
    <3>2. after \in SUBSET DOMAIN s.db.entries /\ s.at \notin after
      BY <1>2, <3>1, IndexOrder DEF EntriesAfter
    <3> QED
      BY <1>2, <3>1, <3>2, FirstIs DEF IsFirst
  <2>3. moved.ok = TRUE /\ moved.db = s.db /\ TableOk(moved)
    BY <2>1 DEF Leads
  <2>4. index_erase(s) = erase_object(moved, s.at)
    BY <1>2, <2>3 DEF index_erase
  <2> HIDE DEF moved, next
  <2>5. ~s.own => index_erase(s).ok = FALSE
    BY <1>2, <2>1, <2>2, <2>3, <2>4, EraseAfterMove, AbortIsFailure DEF Aborted
  <2>6. s.own => Changes(s, index_erase(s))
    BY <1>2, <2>1, <2>2, <2>4, EraseAfterMove
  <2> QED
    BY <2>5, <2>6 DEF TableOk
<1> QED
  BY <1>1, <1>2

(* The next key is looked up from the last row.                            *)
LEMMA KnowsNextKeeps ==
  ASSUME NEW s, TableOk(s)
  PROVE  /\ TableOk(KnowsNext(s))
         /\ KnowsNext(s).db = s.db /\ KnowsNext(s).own = s.own
         /\ KnowsNext(s).indexed = s.indexed /\ KnowsNext(s).ok = s.ok
         /\ \A i \in s.items : \E j \in KnowsNext(s).items : j.pk = i.pk
<1> DEFINE n == KnowsNext(s)
           Kept(u) == /\ TableOk(u) /\ u.db = s.db /\ u.own = s.own
                      /\ u.indexed = s.indexed /\ u.ok = s.ok
                      /\ \A i \in s.items : \E j \in u.items : j.pk = i.pk
           b == begin(s)
<1>1. DbOk(s.db) /\ DOMAIN s.db.rows \in SUBSET Keys /\ DOMAIN s.db.rows \in SUBSET Nat
  BY KeyAssumption DEF TableOk, DbOk, Keys
<1>2. ASSUME NEW u, Kept(u), NEW k \in Keys, NextIsFree(s.db, k)
      PROVE  Kept([u EXCEPT !.next = k])
  <2>1. [u EXCEPT !.next = k] =
          [db |-> u.db, items |-> u.items, next |-> k, own |-> u.own,
           indexed |-> u.indexed, at |-> u.at, ok |-> u.ok]
    BY <1>2, Sets DEF TableOk
  <2> QED
    BY <1>2, <2>1 DEF TableOk, Shape
<1>3. Leads(s, b, Least(DOMAIN s.db.rows))
  <2>1. RowsFrom(s.db, 0) = DOMAIN s.db.rows
    BY <1>1 DEF RowsFrom
  <2> QED
    BY <2>1, BoundsLead DEF begin
<1>4. Kept(b)
  BY <1>3 DEF Leads
<1>5. CASE s.next # unset_next_primary_key
  BY <1>5 DEF KnowsNext
<1>6. CASE s.next = unset_next_primary_key /\ b.at = End
  <2>1. n = [s EXCEPT !.next = 0]
    BY <1>6 DEF KnowsNext
  <2>2. DOMAIN s.db.rows = {}
    <3>1. Least(DOMAIN s.db.rows) = End
      BY <1>3, <1>6 DEF Leads
    <3>2. \A k \in Nat : k # End
      BY DEF End
    <3> QED
      BY <1>1, <3>1, <3>2, LeastOf
  <2>3. 0 \in Keys /\ NextIsFree(s.db, 0)
    BY <2>2, KeyAssumption DEF Keys, NextIsFree
  <2>4. Kept(s)
    OBVIOUS
  <2>5. Kept(n)
    <3> HIDE DEF Kept, n
    <3> QED
      BY <1>2, <2>1, <2>3, <2>4
  <2> QED
    BY <2>5
<1>7. CASE s.next = unset_next_primary_key /\ b.at # End
  <2> DEFINE e == AtEnd(b)
             last == decrement(e)
             max == Greatest(DOMAIN s.db.rows)
  <2>1. n = [last EXCEPT !.next = After(last.at)]
    BY <1>7 DEF KnowsNext
  <2>2. TableOk(b) /\ Leads(b, e, End) /\ e.at = End /\ e.db = s.db /\ TableOk(e)
    BY <1>3, AtEndLeads DEF Leads
  <2>3. DOMAIN s.db.rows # {}
    <3>1. b.at \in DOMAIN b.db.rows /\ b.db = s.db
      BY <1>3, <1>7, <2>2, ObjectIsAt DEF Leads
    <3> QED
      BY <3>1
  <2> HIDE DEF e
  <2>4. Leads(e, last, max) /\ max \in DOMAIN s.db.rows
    BY <2>2, <2>3, DecrementLeads
  <2>5. Leads(s, last, max)
    BY <1>3, <2>2, <2>4, LeadsOn
  <2>6. Kept(last) /\ last.at = max
    BY <2>5 DEF Leads
  <2>7. After(max) \in Keys /\ NextIsFree(s.db, After(max))
    <3>1. max \in Keys
      BY <1>1, <2>4
    <3>2. \A k \in DOMAIN s.db.rows : k <= max
      BY <1>1, <2>3, GreatestOf
    <3>3. max \in Nat /\ \A k \in DOMAIN s.db.rows : k \in Nat
      BY <1>1, <2>4
    <3> HIDE DEF max
    <3>4. /\ After(max) \in Keys
          /\ After(max) < no_available_primary_key => After(max) = max + 1
      BY <3>1, AfterIsFree
    <3> QED
      BY <3>2, <3>3, <3>4 DEF NextIsFree
  <2>8. Kept(n)
    <3> HIDE DEF Kept, n, last, max
    <3> QED
      BY <1>2, <2>1, <2>6, <2>7
  <2> QED
    BY <2>8
<1> QED
  BY <1>5, <1>6, <1>7

LEMMA AvailableKey ==
  ASSUME NEW s, TableOk(s), s.ok = TRUE
  PROVE  available_primary_key(s).ok = TRUE =>
           /\ Changes(s, available_primary_key(s))
           /\ \A pk \in DOMAIN s.db.rows : pk < available_primary_key(s).next
<1> DEFINE a == available_primary_key(s)
           n == KnowsNext(s)
<1>1. /\ TableOk(n) /\ n.db = s.db /\ n.own = s.own
      /\ n.indexed = s.indexed /\ n.ok = s.ok
      /\ \A i \in s.items : \E j \in n.items : j.pk = i.pk
  BY KnowsNextKeeps
<1>2. a = IF n.next < no_available_primary_key THEN [n EXCEPT !.at = s.at] ELSE Abort(s)
  BY DEF available_primary_key
<1> HIDE DEF a, n
<1>3. Abort(s).ok = FALSE
  BY AbortIsFailure DEF Aborted
<1>4. ASSUME n.next < no_available_primary_key
      PROVE  Changes(s, a) /\ \A pk \in DOMAIN s.db.rows : pk < a.next
  <2>6. Shape(n)
    BY <1>1 DEF TableOk
  <2>1. a = [db |-> n.db, items |-> n.items, next |-> n.next, own |-> n.own,
             indexed |-> n.indexed, at |-> s.at, ok |-> n.ok]
    BY <1>2, <1>4, <2>6, Sets
  <2>2. s.at # End => \E j \in n.items : j.pk = s.at
    BY <1>1 DEF TableOk
  <2>3. TableOk(a)
    BY <1>1, <2>1, <2>2 DEF TableOk, Shape
  <2>4. a.db = s.db /\ a.next = n.next /\ a.own = s.own /\ a.indexed = s.indexed /\ a.ok = s.ok
    BY <1>1, <2>1
  <2>5. \A pk \in DOMAIN s.db.rows : pk < n.next
    BY <1>1, <1>4 DEF TableOk, NextIsFree
  <2> QED
    BY <2>3, <2>4, <2>5 DEF Changes
<1>5. ASSUME ~ (n.next < no_available_primary_key) PROVE a.ok = FALSE
  BY <1>2, <1>3, <1>5
<1> QED
  BY <1>4, <1>5 DEF a

(* update_index goes from row to row.                                      *)
FillNext(u) == IF u.s.at = End THEN u ELSE Fill(u)
Filled(begun, n) ==
  FoldLeft(LAMBDA u, i : IF u.s.at = End THEN u ELSE Fill(u), begun, [i \in 1..n |-> i])

FillsTo(h, base, n) ==
  /\ h[0] = base
  /\ \A k \in 1..n : h[k] = FillNext(h[k - 1])
  /\ Filled(base, n) = h[n]

LEMMA FillRun ==
  ASSUME NEW base, NEW n \in Nat
  PROVE  \E h : FillsTo(h, base, n)
<1> DEFINE Unfold(f) == [s \in SUBSET (1..n) |->
                          IF s = {} THEN base ELSE FillNext(f[s \ {Max(s)}])]
           fold == CHOOSE f : f = Unfold(f)
           Folds(k, g) == g = [s \in SUBSET (1..k) |->
                                 IF s = {} THEN base ELSE FillNext(g[s \ {Max(s)}])]
           Has(k) == \E g : Folds(k, g)
           S == {k \in Nat : Has(k)}
<1>1. Filled(base, n) = fold[1..n]
  BY DEF Filled, FillNext, FoldLeft, MapThenFoldSet
<1> HIDE DEF Has
<1>2. 0 \in S
  <2> DEFINE g == [s \in SUBSET (1..0) |-> base]
  <2>1. \A s \in SUBSET (1..0) : s = {}
    OBVIOUS
  <2>2. Folds(0, g)
    BY <2>1
  <2> QED
    BY <2>2 DEF Has
<1>3. ASSUME NEW k \in Nat, k \in S PROVE k + 1 \in S
  <2>1. PICK g : Folds(k, g)
    BY <1>3 DEF Has
  <2> DEFINE f == [s \in SUBSET (1..k + 1) |->
                     IF k + 1 \in s THEN FillNext(g[s \ {k + 1}]) ELSE g[s]]
  <2>2. \A p \in SUBSET (1..k) : p \in SUBSET (1..k + 1) /\ k + 1 \notin p
    OBVIOUS
  <2>3. \A p \in SUBSET (1..k) : f[p] = g[p]
    BY <2>2
  <2>4. ASSUME NEW s \in SUBSET (1..k + 1)
        PROVE  f[s] = IF s = {} THEN base ELSE FillNext(f[s \ {Max(s)}])
    <3>1. /\ k + 1 \in s => Max(s) = k + 1 /\ s \ {k + 1} \in SUBSET (1..k)
          /\ k + 1 \notin s => s \in SUBSET (1..k)
      BY MaxWithLast
    <3>2. CASE k + 1 \in s
      <4>1. f[s] = FillNext(g[s \ {k + 1}])
        BY <3>2
      <4>2. f[s \ {k + 1}] = g[s \ {k + 1}]
        BY <2>3, <3>1, <3>2
      <4> HIDE DEF f
      <4> QED
        BY <3>1, <3>2, <4>1, <4>2
    <3>3. CASE k + 1 \notin s
      <4>1. s \in SUBSET (1..k) /\ f[s] = g[s]
        BY <2>3, <3>1, <3>3
      <4>2. s \ {Max(s)} \in SUBSET (1..k)
        BY <4>1
      <4>3. f[s \ {Max(s)}] = g[s \ {Max(s)}]
        BY <2>3, <4>2
      <4>4. g[s] = IF s = {} THEN base ELSE FillNext(g[s \ {Max(s)}])
        BY <2>1, <4>1
      <4> HIDE DEF f
      <4> QED
        BY <4>1, <4>3, <4>4
    <3> QED
      BY <3>2, <3>3
  <2>5. Folds(k + 1, f)
    BY <2>4
  <2>6. Has(k + 1)
    <3> HIDE DEF Folds, f
    <3> QED
      BY <2>5 DEF Has
  <2> QED
    BY <2>6
<1>4. \A k \in Nat : k \in S
  <2> HIDE DEF S
  <2> QED
    BY <1>2, <1>3, NatInductionOnSet
<1>5. PICK g : Folds(n, g)
  BY <1>4 DEF Has
<1>6. g = Unfold(g)
  BY <1>5
<1> HIDE DEF Unfold
<1>7. fold = Unfold(fold)
  BY <1>6
<1> HIDE DEF fold
<1> DEFINE h == [k \in 0..n |-> fold[1..k]]
<1>8. h[0] = base /\ h[n] = fold[1..n]
  <2>1. 1..0 = {} /\ 0 \in 0..n /\ n \in 0..n
    OBVIOUS
  <2> QED
    BY <1>7, <2>1 DEF Unfold
<1>9. ASSUME NEW k \in 1..n
      PROVE  h[k] = FillNext(h[k - 1])
  <2>1. k \in Nat \ {0} /\ 1..k \in SUBSET (1..n) /\ k \in 0..n /\ k - 1 \in 0..n
    OBVIOUS
  <2>2. Max(1..k) = k /\ (1..k) \ {k} = 1..k - 1 /\ 1..k # {}
    BY <2>1, MaxOfInitial
  <2>3. h[k] = fold[1..k] /\ h[k - 1] = fold[1..k - 1]
    BY <2>1
  <2> HIDE DEF h
  <2>4. fold[1..k] = FillNext(fold[(1..k) \ {Max(1..k)}])
    BY <1>7, <2>1, <2>2, Zenon DEF Unfold
  <2> QED
    BY <2>2, <2>3, <2>4
<1> HIDE DEF h
<1> QED
  BY <1>1, <1>8, <1>9 DEF FillsTo

(* What is left to do begins at the object and at the key it has come to.  *)
Filling(s, n, u, k) ==
  /\ u = [s |-> u.s, next |-> u.next, steps |-> u.steps]
  /\ Changes(s, u.s) /\ u.next \in Keys /\ u.steps \in Int
  /\ \A i \in s.items : \E j \in u.s.items : j.pk = i.pk
  /\ \A pk \in Unindexed(u.s.db) : u.s.at # End /\ u.s.at <= pk /\ u.next <= pk
  /\ u.s.at # End => u.steps = n - k
  /\ k > 0 /\ u.next = 0 => u.s.at = End

LEMMA FillStep ==
  ASSUME NEW s, s.indexed, NEW n \in Nat, NEW k \in Nat, NEW u, Filling(s, n, u, k)
  PROVE  Filling(s, n, FillNext(u), k + 1)
<1>1. CASE u.s.at = End
  <2>1. FillNext(u) = u
    BY <1>1 DEF FillNext
  <2> QED
    BY <1>1, <2>1 DEF Filling
<1>2. CASE u.s.at # End
  <2> DEFINE pk == u.s.at
             db == IF db_idx_find_primary(u.s.db, pk) < 0
                   THEN db_idx_store(u.s.db, pk, Object(u.s).value) ELSE u.s.db
             w == [u.s EXCEPT !.db = db]
             f == FillNext(u)
  <2>1. /\ u = [s |-> u.s, next |-> u.next, steps |-> u.steps]
        /\ Changes(s, u.s) /\ u.next \in Keys /\ u.steps \in Int
        /\ TableOk(u.s) /\ u.s.indexed = s.indexed /\ Shape(u.s) /\ DbOk(u.s.db)
        /\ \A i \in u.s.items : Loaded(u.s.db, i)
    BY DEF Filling, Changes, TableOk
  <2>2. f = [s |-> increment(w), next |-> (pk + 1) % (MaxKey + 1), steps |-> u.steps - 1]
    BY <1>2 DEF FillNext, Fill
  <2>3. /\ Object(u.s) \in u.s.items /\ Object(u.s).pk = pk /\ Loaded(u.s.db, Object(u.s))
        /\ pk \in DOMAIN u.s.db.rows
    BY <1>2, <2>1, ObjectIsAt
  <2>4. /\ db.rows = u.s.db.rows /\ db.gen = u.s.db.gen /\ db.igen = u.s.db.igen
        /\ DOMAIN db.entries = DOMAIN u.s.db.entries \cup {pk}
        /\ DbOk(db)
    <3>1. CASE pk \in DOMAIN u.s.db.entries
      <4>1. EntryItr(u.s.db, pk) \in Nat
        BY <2>1, <2>3, <3>1, Iterators
      <4>2. db = u.s.db
        BY <4>1 DEF db_idx_find_primary
      <4> QED
        BY <2>1, <3>1, <4>2
    <3>2. CASE pk \notin DOMAIN u.s.db.entries
      <4>1. EntryItr(u.s.db, pk) = -1
        BY <2>1, <2>3, <3>2, Iterators DEF End
      <4>2. db = db_idx_store(u.s.db, pk, Object(u.s).value)
        BY <4>1 DEF db_idx_find_primary
      <4> DEFINE entries == Stored(u.s.db.entries, pk, Object(u.s).value)
      <4>3. db = [rows |-> u.s.db.rows, entries |-> entries, gen |-> u.s.db.gen,
                  igen |-> u.s.db.igen]
        BY <2>1, <4>2 DEF db_idx_store, DbOk
      <4>4. /\ DOMAIN entries = DOMAIN u.s.db.entries \cup {pk}
            /\ entries[pk] = u.s.db.rows[pk]
            /\ \A q \in DOMAIN u.s.db.entries : entries[q] = u.s.db.entries[q]
        BY <2>3, <3>2 DEF Stored, Loaded
      <4> HIDE DEF entries, db
      <4>5. /\ db.rows = u.s.db.rows /\ db.entries = entries
            /\ db.gen = u.s.db.gen /\ db.igen = u.s.db.igen
        BY <4>3
      <4>6. DbOk(db)
        BY <2>1, <2>3, <4>3, <4>4, <4>5 DEF DbOk
      <4> QED
        BY <4>4, <4>5, <4>6
    <3> QED
      BY <3>1, <3>2
  <2> HIDE DEF db, f
  <2>5. w = [db |-> db, items |-> u.s.items, next |-> u.s.next, own |-> u.s.own,
             indexed |-> u.s.indexed, at |-> pk, ok |-> u.s.ok]
    BY <2>1, Sets
  <2> HIDE DEF w
  <2>6. \A i \in u.s.items : Loaded(db, i)
    <3>1. SUFFICES ASSUME NEW i \in u.s.items PROVE Loaded(db, i)
      OBVIOUS
    <3>2. Loaded(u.s.db, i) /\ i.pk \in DOMAIN u.s.db.rows
      BY <2>1 DEF Loaded
    <3>3. /\ i.pk \in DOMAIN db.rows /\ db.rows[i.pk] = u.s.db.rows[i.pk]
          /\ db.gen[i.pk] = u.s.db.gen[i.pk] /\ db.igen[i.pk] = u.s.db.igen[i.pk]
          /\ i.pk \in DOMAIN u.s.db.entries => i.pk \in DOMAIN db.entries
      BY <2>4, <3>2
    <3> QED
      BY <2>1, <2>4, <3>2, <3>3, LoadedStays
  <2>7. NextIsFree(db, u.s.next)
    BY <2>1, <2>4 DEF TableOk, NextIsFree
  <2>8. /\ w.db = db /\ w.items = u.s.items /\ w.next = u.s.next /\ w.own = u.s.own
        /\ w.indexed = u.s.indexed /\ w.at = pk /\ w.ok = u.s.ok /\ Shape(w)
    BY <2>5 DEF Shape
  <2>9. TableOk(w)
    BY <2>1, <2>4, <2>6, <2>7, <2>8 DEF TableOk
  <2>10. Changes(u.s, w)
    BY <2>4, <2>8, <2>9 DEF Changes, Unindexed
  <2> DEFINE next == Least(RowsPast(db, pk))
             v == increment(w)
  <2>11. Leads(w, v, next)
    BY <1>2, <2>8, <2>9, IncrementLeads
  <2>12. Changes(s, v)
    BY <2>1, <2>10, <2>11, LeadsChanges, ChangesOn
  <2>13. v.db = db /\ v.at = next /\ \A i \in w.items : \E j \in v.items : j.pk = i.pk
    BY <2>8, <2>11 DEF Leads
  <2>14. /\ RowsPast(db, pk) \in SUBSET Nat /\ DOMAIN db.rows \subseteq Keys
         /\ pk \in Keys
         /\ \A q \in Keys : q \in Nat /\ q <= MaxKey
    BY <2>3, <2>4, KeyAssumption DEF DbOk, Keys, RowsPast
  <2> HIDE DEF v
  <2>15. f.s = v /\ f.next = (pk + 1) % (MaxKey + 1) /\ f.steps = u.steps - 1
    BY <2>2 DEF v
  <2>16. f.next = IF pk = MaxKey THEN 0 ELSE pk + 1
    <3>1. \A m \in Nat : /\ (m + 1) % (m + 1) = 0
                         /\ \A q \in 0..m : q # m => (q + 1) % (m + 1) = q + 1
      OBVIOUS
    <3>2. pk \in 0..MaxKey /\ MaxKey \in Nat
      BY <2>14, KeyAssumption
    <3> QED
      BY <2>15, <3>1, <3>2
  <2>17. f.next \in Keys
    BY <2>14, <2>16, KeyAssumption DEF Keys
  <2>18. ASSUME NEW q \in Unindexed(f.s.db)
         PROVE  f.s.at # End /\ f.s.at <= q /\ f.next <= q
    <3>1. q \in DOMAIN db.rows /\ q # pk /\ q \in Unindexed(u.s.db)
      BY <2>4, <2>13, <2>15 DEF Unindexed
    <3>2. pk <= q
      BY <3>1 DEF Filling
    <3>3. q \in RowsPast(db, pk) /\ q \in Nat /\ q > pk
      BY <2>14, <3>1, <3>2 DEF RowsPast
    <3>4. next \in Nat /\ next <= q
      BY <2>14, <3>3, LeastOf
    <3>5. next # End
      BY <3>4 DEF End
    <3> QED
      BY <2>13, <2>14, <2>15, <2>16, <3>3, <3>4, <3>5
  <2>19. ASSUME f.next = 0 PROVE f.s.at = End
    <3>1. pk = MaxKey
      BY <2>14, <2>16, <2>19
    <3>2. RowsPast(db, pk) = {}
      BY <2>14, <3>1 DEF RowsPast
    <3> QED
      BY <2>13, <2>14, <2>15, <3>2, LeastOf
  <2>20. f.steps = n - (k + 1) /\ f.steps \in Int
    BY <1>2, <2>15 DEF Filling
  <2>21. \A i \in s.items : \E j \in f.s.items : j.pk = i.pk
    BY <2>8, <2>13, <2>15 DEF Filling
  <2>22. f = [s |-> f.s, next |-> f.next, steps |-> f.steps]
    BY <2>2
  <2> QED
    BY <2>12, <2>15, <2>17, <2>18, <2>19, <2>20, <2>21, <2>22 DEF Filling, f
<1> QED
  BY <1>1, <1>2

(* Whatever it has come to, no row before it is left out; and when it says *)
(* that it is done, none is.                                               *)
LEMMA UpdateIndexChanges ==
  ASSUME NEW s, TableOk(s), s.indexed, NEW from \in Keys, NEW max_steps \in Nat,
         \A pk \in Unindexed(s.db) : pk >= from
  PROVE  LET u == update_index(s, from, max_steps)
         IN  /\ Changes(s, u.s) /\ u.next \in Keys /\ u.complete \in BOOLEAN
             /\ \A pk \in Unindexed(u.s.db) : pk >= u.next
             /\ u.complete => Unindexed(u.s.db) = {}
<1> DEFINE u == update_index(s, from, max_steps)
           first == lower_bound(s, from)
           begun == [s |-> first, next |-> from, steps |-> max_steps]
           filled1 == Filled(begun, max_steps)
           least == Least(RowsFrom(s.db, from))
<1>1. u = [s |-> [filled1.s EXCEPT !.at = s.at], next |-> filled1.next,
           complete |-> max_steps > 0 /\ (filled1.steps > 0 \/ filled1.next = 0)]
  BY DEF update_index, Filled
<1>2. Leads(s, first, least)
  BY BoundsLead
<1>3. DOMAIN s.db.rows \subseteq Keys /\ \A k \in Keys : k \in Nat
  BY KeyAssumption DEF TableOk, DbOk, Keys
<1>4. Filling(s, max_steps, begun, 0)
  <2>1. begun.s = first /\ begun.next = from /\ begun.steps = max_steps
    OBVIOUS
  <2> HIDE DEF begun, first
  <2>2. first.db = s.db /\ first.at = least /\ \A i \in s.items : \E j \in first.items : j.pk = i.pk
    BY <1>2 DEF Leads
  <2>3. ASSUME NEW pk \in Unindexed(s.db)
        PROVE  least # End /\ least <= pk /\ from <= pk
    <3>1. pk \in DOMAIN s.db.rows /\ pk >= from /\ pk \in Nat /\ from \in Nat
      BY <1>3 DEF Unindexed
    <3>2. pk \in RowsFrom(s.db, from) /\ RowsFrom(s.db, from) \in SUBSET Nat
      BY <1>3, <3>1 DEF RowsFrom
    <3>3. least \in Nat /\ least <= pk
      BY <3>2, LeastOf
    <3> QED
      BY <3>1, <3>3 DEF End
  <2>4. Changes(s, first)
    BY <1>2, LeadsChanges
  <2>5. begun = [s |-> begun.s, next |-> begun.next, steps |-> begun.steps]
    BY DEF begun
  <2> HIDE DEF least
  <2> QED
    BY <2>1, <2>2, <2>3, <2>4, <2>5 DEF Filling
<1> HIDE DEF begun
<1>5. PICK h : FillsTo(h, begun, max_steps)
  BY FillRun
<1> DEFINE S == {k \in Nat : k <= max_steps => Filling(s, max_steps, h[k], k)}
<1>6. 0 \in S
  BY <1>4, <1>5 DEF FillsTo
<1>7. ASSUME NEW k \in Nat, k \in S PROVE k + 1 \in S
  <2>1. SUFFICES ASSUME k + 1 <= max_steps PROVE Filling(s, max_steps, h[k + 1], k + 1)
    OBVIOUS
  <2>2. Filling(s, max_steps, h[k], k)
    BY <1>7, <2>1
  <2>3. k + 1 \in 1..max_steps /\ (k + 1) - 1 = k
    BY <2>1
  <2>4. h[k + 1] = FillNext(h[k])
    BY <1>5, <2>3 DEF FillsTo
  <2> QED
    BY <2>2, <2>4, FillStep
<1>8. max_steps \in S
  <2> HIDE DEF S
  <2> QED
    BY <1>6, <1>7, NatInductionOnSet
<1>9. Filling(s, max_steps, filled1, max_steps)
  BY <1>5, <1>8 DEF FillsTo
<1> HIDE DEF filled1, u
<1>10. /\ Changes(s, filled1.s) /\ TableOk(filled1.s) /\ Shape(filled1.s)
  BY <1>9 DEF Filling, Changes, TableOk
<1> DEFINE v == [filled1.s EXCEPT !.at = s.at]
<1>11. v = [db |-> filled1.s.db, items |-> filled1.s.items, next |-> filled1.s.next,
            own |-> filled1.s.own, indexed |-> filled1.s.indexed, at |-> s.at,
            ok |-> filled1.s.ok]
  BY <1>10, Sets
<1>12. u.s = v /\ u.next = filled1.next
       /\ u.complete = (max_steps > 0 /\ (filled1.steps > 0 \/ filled1.next = 0))
  BY <1>1
<1> HIDE DEF v
<1>13. s.at # End => \E j \in filled1.s.items : j.pk = s.at
  BY <1>9 DEF Filling, TableOk
<1>14. /\ v.db = filled1.s.db /\ v.items = filled1.s.items /\ v.next = filled1.s.next
       /\ v.own = filled1.s.own /\ v.indexed = filled1.s.indexed /\ v.at = s.at
       /\ v.ok = filled1.s.ok /\ Shape(v)
  BY <1>11 DEF Shape
<1>15. TableOk(v)
  BY <1>10, <1>13, <1>14 DEF TableOk
<1>16. Changes(s, v)
  BY <1>10, <1>14, <1>15 DEF Changes
<1>17. \A pk \in Unindexed(v.db) : pk >= u.next
  <2>1. SUFFICES ASSUME NEW pk \in Unindexed(v.db) PROVE pk >= u.next
    OBVIOUS
  <2>2. u.next <= pk /\ u.next \in Keys /\ pk \in DOMAIN v.db.rows
    BY <1>9, <1>12, <1>14 DEF Filling, Unindexed
  <2>3. pk \in Keys
    BY <1>15, <2>2 DEF TableOk, DbOk
  <2> QED
    BY <1>3, <2>2, <2>3
<1>18. u.complete => Unindexed(v.db) = {}
  <2>1. SUFFICES ASSUME u.complete PROVE filled1.s.at = End
    BY <1>9, <1>14 DEF Filling
  <2>2. filled1.s.at # End => filled1.steps = max_steps - max_steps
    BY <1>9 DEF Filling
  <2>3. filled1.next = 0 /\ max_steps > 0 => filled1.s.at = End
    BY <1>9 DEF Filling
  <2>4. max_steps > 0 /\ (filled1.steps > 0 \/ filled1.next = 0)
    BY <1>12, <2>1, Zenon
  <2> QED
    BY <2>2, <2>3, <2>4
<1>19. u.next \in Keys /\ u.complete \in BOOLEAN
  BY <1>9, <1>12 DEF Filling
<1> QED
  BY <1>12, <1>16, <1>17, <1>18, <1>19 DEF u

(* The table is as the program sees it, and update_index has left no row   *)
(* out before the key that it has come to.                                 *)
Covered ==
  /\ filled \in Keys
  /\ caughtUp => Unindexed(t.db) = {}
  /\ upgraded => \A pk \in Unindexed(t.db) : pk >= filled
  /\ ~upgraded => filled = 0 /\ caughtUp = FALSE

IndexInv ==
  /\ TableOk(t) /\ t.ok = TRUE /\ t.indexed = upgraded
  /\ upgraded \in BOOLEAN /\ caughtUp \in BOOLEAN /\ (upgraded => part = "table")
  /\ Covered

(* An operation fails, or changes the table as it should.                  *)
Keeps(s, u) == u.ok = TRUE => Changes(s, u)

LEMMA AbortKeeps ==
  ASSUME NEW s, TableOk(s), NEW r
  PROVE  Abort(s).ok = FALSE /\ Keeps(r, Abort(s))
<1>1. Abort(s).ok = FALSE
  BY AbortIsFailure DEF Aborted
<1> QED
  BY <1>1 DEF Keeps

LEMMA LeadsKeeps ==
  ASSUME NEW s, NEW u, NEW pk, Leads(s, u, pk)
  PROVE  Keeps(s, u)
  BY LeadsChanges DEF Keeps

LEMMA LookKeeps ==
  ASSUME NEW s, TableOk(s), s.ok = TRUE, NEW pk
  PROVE  /\ Keeps(s, find(s, pk)) /\ Keeps(s, require_find(s, pk))
         /\ Keeps(s, lower_bound(s, pk)) /\ Keeps(s, upper_bound(s, pk))
         /\ Keeps(s, begin(s)) /\ Keeps(s, increment(s)) /\ Keeps(s, decrement(s))
         /\ Keeps(s, available_primary_key(s))
<1>1. Keeps(s, find(s, pk))
  BY FindLeads, LeadsKeeps
<1>2. Keeps(s, require_find(s, pk))
  BY <1>1, AbortKeeps DEF require_find
<1>3. \A k : Keeps(s, lower_bound(s, k)) /\ Keeps(s, upper_bound(s, k))
  BY BoundsLead, LeadsKeeps
<1>4. Keeps(s, begin(s))
  BY <1>3 DEF begin
<1>5. Keeps(s, increment(s))
  BY IncrementLeads, LeadsKeeps, AbortKeeps
<1>6. Keeps(s, decrement(s))
  <2> DEFINE smaller == IF s.at = End THEN DOMAIN s.db.rows ELSE RowsBefore(s.db, s.at)
  <2>1. /\ smaller # {} => Leads(s, decrement(s), Greatest(smaller))
        /\ smaller = {} => decrement(s) = Abort(s)
    BY DecrementLeads
  <2> HIDE DEF smaller
  <2> QED
    BY <2>1, LeadsKeeps, AbortKeeps
<1>7. Keeps(s, available_primary_key(s))
  BY AvailableKey DEF Keeps
<1> QED
  BY <1>1, <1>2, <1>3, <1>4, <1>5, <1>6, <1>7

LEMMA LookByIndexKeeps ==
  ASSUME NEW s, TableOk(s), s.ok = TRUE, NEW key \in Nat
  PROVE  /\ Keeps(s, index_find(s, key)) /\ Keeps(s, index_require_find(s, key))
         /\ Keeps(s, index_lower_bound(s, key)) /\ Keeps(s, index_upper_bound(s, key))
         /\ Keeps(s, index_begin(s)) /\ Keeps(s, index_iterator_to(s))
         /\ Keeps(s, index_increment(s)) /\ Keeps(s, index_decrement(s))
<1>1. Keeps(s, index_find(s, key))
  BY IndexFindLeads, LeadsKeeps
<1>2. Keeps(s, index_require_find(s, key))
  BY <1>1, AbortKeeps DEF index_require_find
<1>3. Keeps(s, index_lower_bound(s, key)) /\ Keeps(s, index_upper_bound(s, key))
  BY IndexBoundsLead, LeadsKeeps
<1>4. Keeps(s, index_begin(s))
  BY IndexBeginLeads, LeadsKeeps
<1>5. Keeps(s, index_iterator_to(s))
  <2>1. CASE s.at = End
    <3>1. index_iterator_to(s) = s
      BY <2>1 DEF index_iterator_to
    <3> QED
      BY <3>1 DEF Keeps, Changes
  <2>2. CASE s.at # End
    BY <2>2, IteratorToLeads, LeadsKeeps
  <2> QED
    BY <2>1, <2>2
<1>6. Keeps(s, index_increment(s))
  BY IndexIncrementLeads, LeadsKeeps, AbortKeeps
<1>7. Keeps(s, index_decrement(s))
  <2> DEFINE before == IF s.at = End THEN DOMAIN s.db.entries ELSE EntriesBefore(s.db, s.at)
             possible == (s.at = End \/ s.at \in DOMAIN s.db.entries) /\ before # {}
  <2>1. /\ possible => Leads(s, index_decrement(s), LastIn(s.db, before))
        /\ ~possible => index_decrement(s) = Abort(s)
    BY IndexDecrementLeads
  <2> HIDE DEF before, possible
  <2> QED
    BY <2>1, LeadsKeeps, AbortKeeps
<1> QED
  BY <1>1, <1>2, <1>3, <1>4, <1>5, <1>6, <1>7

(* What a change does, said without the operation that does it.            *)
IsEmplaced(s, u, pk, value) ==
  /\ Changes(s, u) /\ u.at = pk
  /\ DOMAIN u.db.rows = DOMAIN s.db.rows \cup {pk} /\ u.db.rows[pk] = value

LEMMA EmplaceIs ==
  ASSUME NEW s, TableOk(s), NEW pk \in Keys, NEW value \in Nat
  PROVE  /\ s.own /\ pk \notin DOMAIN s.db.rows => IsEmplaced(s, emplace(s, pk, value), pk, value)
         /\ ~ (s.own /\ pk \notin DOMAIN s.db.rows) => emplace(s, pk, value) = Abort(s)
  BY EmplaceChanges DEF IsEmplaced

LEMMA ChangeKeeps ==
  ASSUME NEW s, TableOk(s), s.ok = TRUE, NEW pk \in Keys, NEW value \in Nat
  PROVE  /\ Keeps(s, emplace(s, pk, value)) /\ Keeps(s, modify(s, value))
         /\ Keeps(s, erase(s)) /\ Keeps(s, index_erase(s))
<1>1. Keeps(s, emplace(s, pk, value))
  <2>1. ASSUME IsEmplaced(s, emplace(s, pk, value), pk, value)
        PROVE  Keeps(s, emplace(s, pk, value))
    BY <2>1 DEF Keeps, IsEmplaced
  <2>2. ASSUME emplace(s, pk, value) = Abort(s) PROVE Keeps(s, emplace(s, pk, value))
    BY <2>2, AbortKeeps
  <2> QED
    BY <2>1, <2>2, EmplaceIs
<1>2. Keeps(s, modify(s, value))
  BY ModifyChanges, AbortKeeps DEF Keeps, IsModified
<1>3. Keeps(s, erase(s))
  BY EraseChanges DEF Keeps
<1>4. Keeps(s, index_erase(s))
  BY IndexEraseChanges DEF Keeps
<1> QED
  BY <1>1, <1>2, <1>3, <1>4

(* The operations that look first and change then.                         *)
LEMMA KeepsOn ==
  ASSUME NEW s, NEW u, NEW v, Changes(s, u), Keeps(u, v)
  PROVE  Keeps(s, v)
  BY ChangesOn DEF Keeps

LEMMA FoundKeeps ==
  ASSUME NEW s, TableOk(s), s.ok = TRUE, NEW pk \in Keys, NEW value \in Nat
  PROVE  LET found == find(s, pk)
         IN  /\ Keeps(s, found) /\ Keeps(s, emplace(found, pk, value))
             /\ Keeps(s, modify(found, value)) /\ Keeps(s, erase(found))
<1> DEFINE found == find(s, pk)
<1>1. Changes(s, found)
  BY FindLeads, LeadsChanges
<1> HIDE DEF found
<1>2. TableOk(found) /\ found.ok = TRUE
  BY <1>1 DEF Changes
<1>3. /\ Keeps(found, emplace(found, pk, value)) /\ Keeps(found, modify(found, value))
      /\ Keeps(found, erase(found))
  BY <1>2, ChangeKeeps
<1>4. /\ Keeps(s, found) /\ Keeps(s, emplace(found, pk, value))
      /\ Keeps(s, modify(found, value)) /\ Keeps(s, erase(found))
  BY <1>1, <1>3, KeepsOn DEF Keeps
<1> QED
  BY <1>4 DEF found

LEMMA SingletonKeeps ==
  ASSUME NEW s, TableOk(s), s.ok = TRUE, NEW value \in Nat, NEW account \in Keys
  PROVE  /\ Keeps(s, get(s)) /\ Keeps(s, remove(s))
         /\ Keeps(s, set(s, value)) /\ Keeps(s, get_or_create(s, value))
         /\ Keeps(s, Greet(s, account, value))
<1>1. Keeps(s, get(s))
  BY LookKeeps DEF get
<1>2. pk_value \in Keys
  BY UsedAssumption
<1>3. Keeps(s, remove(s))
  BY <1>2, FoundKeeps DEF remove
<1>4. Keeps(s, set(s, value))
  BY <1>2, FoundKeeps DEF set
<1>5. Keeps(s, get_or_create(s, value))
  BY <1>2, FoundKeeps DEF get_or_create
<1>6. Keeps(s, Greet(s, account, value))
  BY FoundKeeps DEF Greet
<1> QED
  BY <1>1, <1>3, <1>4, <1>5, <1>6

LEMMA StepKeeps ==
  ASSUME IndexInv, NEW u, Keeps(t, u), Step(u)
  PROVE  IndexInv'
<1>1. /\ t' = u /\ u.ok /\ part' = part /\ upgraded' = upgraded /\ filled' = filled
      /\ caughtUp' = caughtUp
  BY DEF Step
<1>2. u.ok = TRUE => Changes(t, u)
  BY DEF Keeps
<1>3. Changes(t, u)
  <2>1. CASE u.ok = TRUE
    BY <1>2, <2>1
  <2>2. CASE u.ok # TRUE
    BY <1>1, <2>2
  <2> QED
    BY <2>1, <2>2
<1>4. TableOk(u) /\ u.ok = TRUE /\ u.indexed = upgraded
      /\ (upgraded => Unindexed(u.db) \subseteq Unindexed(t.db))
  BY <1>3 DEF IndexInv, Changes
<1> QED
  BY <1>1, <1>4 DEF IndexInv, Covered

(* The objects of an action that starts.                                   *)
LEMMA FreshOk ==
  ASSUME NEW db, DbOk(db), NEW own \in BOOLEAN, NEW indexed \in BOOLEAN,
         ~indexed => DOMAIN db.entries = {}
  PROVE  LET u == multi_index(Reopened(db), own, indexed)
         IN  /\ TableOk(u) /\ u.ok = TRUE /\ u.indexed = indexed
             /\ Unindexed(u.db) = Unindexed(db)
<1> DEFINE new == Reopened(db)
           zero == [k \in Keys |-> 0]
           u == multi_index(new, own, indexed)
<1>1. new = [rows |-> db.rows, entries |-> db.entries, gen |-> zero, igen |-> zero]
  <2> DEFINE none == << >>
             half == [rows |-> db.rows, entries |-> none, gen |-> zero, igen |-> zero]
  <2>1. EmptyDb = [rows |-> none, entries |-> none, gen |-> zero, igen |-> zero]
    BY DEF EmptyDb
  <2> HIDE DEF none, zero
  <2>2. [EmptyDb EXCEPT !.rows = db.rows] = half
    BY <2>1
  <2>3. [half EXCEPT !.entries = db.entries]
          = [rows |-> db.rows, entries |-> db.entries, gen |-> zero, igen |-> zero]
    OBVIOUS
  <2>4. new = [[EmptyDb EXCEPT !.rows = db.rows] EXCEPT !.entries = db.entries]
    BY <2>1 DEF Reopened
  <2> QED
    BY <2>2, <2>3, <2>4, Zenon
<1>2. zero \in [Keys -> {0, 1}]
  OBVIOUS
<1> HIDE DEF new, zero
<1>3. /\ new.rows = db.rows /\ new.entries = db.entries
      /\ new.gen = zero /\ new.igen = zero
  BY <1>1
<1>4. DbOk(new)
  BY <1>1, <1>2, <1>3 DEF DbOk
<1>5. /\ u = [db |-> new, items |-> {}, next |-> MaxKey, own |-> own, indexed |-> indexed,
              at |-> End, ok |-> TRUE]
  BY DEF multi_index, unset_next_primary_key
<1> HIDE DEF u
<1>6. /\ u.db = new /\ u.items = {} /\ u.next = MaxKey /\ u.own = own /\ u.indexed = indexed
      /\ u.at = End /\ u.ok = TRUE /\ Shape(u)
  BY <1>5 DEF Shape
<1>7. MaxKey \in Keys /\ ~(MaxKey < no_available_primary_key)
  BY KeyAssumption DEF Keys, no_available_primary_key
<1>8. TableOk(u)
  BY <1>3, <1>4, <1>6, <1>7 DEF TableOk, NextIsFree
<1>9. Unindexed(u.db) = Unindexed(db)
  BY <1>3, <1>6 DEF Unindexed
<1> QED
  BY <1>6, <1>8, <1>9 DEF u, new

LEMMA IndexInvStarts ==
  ASSUME TableInit
  PROVE  IndexInv
<1>1. DOMAIN EmptyDb.rows = {} /\ DOMAIN EmptyDb.entries = {}
  BY DEF EmptyDb
<1> DEFINE zero == [k \in Keys |-> 0]
<1>2. zero \in [Keys -> {0, 1}]
  OBVIOUS
<1>3. /\ EmptyDb = [rows |-> EmptyDb.rows, entries |-> EmptyDb.entries, gen |-> zero, igen |-> zero]
      /\ EmptyDb.gen = zero /\ EmptyDb.igen = zero
  BY DEF EmptyDb
<1> HIDE DEF zero
<1>4. DbOk(EmptyDb)
  BY <1>1, <1>2, <1>3 DEF DbOk
<1>5. t = [db |-> EmptyDb, items |-> {}, next |-> MaxKey, own |-> TRUE, indexed |-> FALSE,
           at |-> End, ok |-> TRUE]
  BY DEF TableInit, multi_index, unset_next_primary_key
<1>6. /\ t.db = EmptyDb /\ t.items = {} /\ t.next = MaxKey /\ t.own = TRUE
      /\ t.indexed = FALSE /\ t.at = End /\ t.ok = TRUE /\ Shape(t)
  BY <1>5 DEF Shape
<1>7. MaxKey \in Keys /\ 0 \in Keys /\ ~(MaxKey < no_available_primary_key)
  BY KeyAssumption DEF Keys, no_available_primary_key
<1>8. TableOk(t)
  BY <1>1, <1>4, <1>6, <1>7 DEF TableOk, NextIsFree
<1>9. upgraded = FALSE /\ filled = 0 /\ caughtUp = FALSE
  BY DEF TableInit
<1>10. Covered
  BY <1>7, <1>9 DEF Covered
<1> QED
  BY <1>6, <1>8, <1>9, <1>10 DEF IndexInv

LEMMA ObjectsAreFresh ==
  ASSUME IndexInv, NewAction \/ Upgrade
  PROVE  IndexInv'
<1>1. DbOk(t.db) /\ upgraded \in BOOLEAN /\ (~upgraded => DOMAIN t.db.entries = {})
  BY DEF IndexInv, TableOk
<1>2. ASSUME NEW own \in BOOLEAN, t' = multi_index(Reopened(t.db), own, upgraded),
             UNCHANGED <<part, upgraded, filled, caughtUp>>
      PROVE  IndexInv'
  <2>1. /\ TableOk(t') /\ t'.ok = TRUE /\ t'.indexed = upgraded
        /\ Unindexed(t'.db) = Unindexed(t.db)
    BY <1>1, <1>2, FreshOk
  <2> QED
    BY <1>2, <2>1 DEF IndexInv, Covered
<1>3. CASE NewAction
  BY <1>2, <1>3 DEF NewAction
<1>4. CASE Upgrade
  <2>1. /\ part = "table" /\ ~upgraded /\ upgraded' = TRUE
        /\ t' = multi_index(Reopened(t.db), TRUE, TRUE)
        /\ UNCHANGED <<part, filled, caughtUp>>
    BY <1>4 DEF Upgrade
  <2>2. /\ TableOk(t') /\ t'.ok = TRUE /\ t'.indexed = TRUE
        /\ Unindexed(t'.db) = Unindexed(t.db)
    BY <1>1, <2>1, FreshOk
  <2>3. filled = 0 /\ caughtUp = FALSE
    BY <2>1 DEF IndexInv, Covered
  <2>4. \A pk \in Unindexed(t'.db) : pk >= 0
    BY <1>1, <2>2, KeyAssumption DEF Unindexed, DbOk, Keys
  <2> QED
    BY <2>1, <2>2, <2>3, <2>4 DEF IndexInv, Covered
<1> QED
  BY <1>3, <1>4

LEMMA FillIndexKeeps ==
  ASSUME IndexInv, FillIndex(t)
  PROVE  IndexInv'
<1>1. PICK max_steps \in 0..2 :
        LET u == update_index(t, filled, max_steps)
        IN  t' = u.s /\ filled' = u.next /\ caughtUp' = u.complete
  BY DEF FillIndex
<1>2. t.indexed /\ upgraded' = upgraded /\ part' = part
  BY DEF FillIndex
<1>3. /\ TableOk(t) /\ filled \in Keys /\ t.indexed = upgraded
      /\ \A pk \in Unindexed(t.db) : pk >= filled
  BY <1>2 DEF IndexInv, Covered
<1> DEFINE u == update_index(t, filled, max_steps)
<1>4. /\ Changes(t, u.s) /\ u.next \in Keys /\ u.complete \in BOOLEAN
      /\ \A pk \in Unindexed(u.s.db) : pk >= u.next
      /\ u.complete => Unindexed(u.s.db) = {}
  BY <1>2, <1>3, UpdateIndexChanges
<1>5. t' = u.s /\ filled' = u.next /\ caughtUp' = u.complete
  BY <1>1
<1> HIDE DEF u
<1>6. TableOk(u.s) /\ u.s.ok = TRUE /\ u.s.indexed = upgraded
  BY <1>3, <1>4 DEF Changes, IndexInv
<1>7. /\ filled' \in Keys /\ caughtUp' \in BOOLEAN
      /\ caughtUp' => Unindexed(t'.db) = {}
      /\ \A pk \in Unindexed(t'.db) : pk >= filled'
  BY <1>4, <1>5
<1>8. upgraded
  BY <1>2, <1>3
<1> QED
  BY <1>2, <1>5, <1>6, <1>7, <1>8 DEF IndexInv, Covered

LEMMA UseTableKeeps ==
  ASSUME IndexInv, UseTable
  PROVE  IndexInv'
<1>1. TableOk(t) /\ t.ok = TRUE
  BY DEF IndexInv
<1>2. UsedKey \subseteq Keys /\ UsedValue \subseteq Nat
  BY UsedAssumption
<1>3. 0 \in Keys /\ 0 \in Nat
  BY KeyAssumption DEF Keys
<1>4. CASE Look(t)
  BY <1>1, <1>4, LookKeeps, StepKeeps DEF Look
<1>5. CASE LookByIndex(t)
  BY <1>1, <1>2, <1>3, <1>5, LookByIndexKeeps, StepKeeps DEF LookByIndex
<1>6. CASE Change(t)
  BY <1>1, <1>2, <1>3, <1>6, ChangeKeeps, StepKeeps DEF Change
<1>7. CASE FillIndex(t)
  BY <1>7, FillIndexKeeps
<1> QED
  BY <1>4, <1>5, <1>6, <1>7 DEF UseTable

(* IndexInv is inductive.                                                  *)
LEMMA IndexInvStep ==
  ASSUME IndexInv, [ContractNext]_<<tableVars, eventVars>>
  PROVE  IndexInv'
<1>1. TableOk(t) /\ t.ok = TRUE
  BY DEF IndexInv
<1>2. UsedKey \subseteq Keys /\ UsedValue \subseteq Nat
  BY UsedAssumption
<1>3. 0 \in Keys /\ 0 \in Nat
  BY KeyAssumption DEF Keys
<1>4. CASE UNCHANGED tableVars
  BY <1>4 DEF IndexInv, Covered, tableVars
<1>5. CASE hi
  BY <1>1, <1>2, <1>5, SingletonKeeps, StepKeeps DEF hi
<1>6. CASE NewAction \/ Upgrade
  BY <1>6, ObjectsAreFresh
<1>7. CASE UseTable
  BY <1>7, UseTableKeeps
<1>8. CASE UseSingleton
  BY <1>1, <1>2, <1>3, <1>8, SingletonKeeps, StepKeeps DEF UseSingleton
<1> QED
  BY <1>4, <1>5, <1>6, <1>7, <1>8 DEF ContractNext, TableNext

(* What is invariant of the table of a contract (t and the tableVars).      *)
THEOREM TableInvariance == ContractSpec => []IndexInv
<1>1. ContractInit => IndexInv
  BY IndexInvStarts DEF ContractInit
<1>2. IndexInv /\ [ContractNext]_<<tableVars, eventVars>> => IndexInv'
  BY IndexInvStep
<1> QED
  BY <1>1, <1>2, PTL DEF ContractSpec

LEMMA InvAgrees ==
  ASSUME IndexInv
  PROVE  IndexAgrees
<1>1. /\ TableOk(t) /\ DbOk(t.db) /\ Covered
      /\ \A i \in t.items : Loaded(t.db, i)
      /\ \A i, j \in t.items : i.pk = j.pk => i = j
  BY DEF IndexInv, TableOk
<1>2. \A i \in t.items :
        /\ i.pk \in DOMAIN Rows /\ i.value = Rows[i.pk] /\ i.pitr = RowItr(t.db, i.pk)
        /\ i.sitr # End => i.sitr = EntryItr(t.db, i.pk)
        /\ \A j \in t.items : i.pk = j.pk => i = j
  BY <1>1 DEF Loaded, Rows
<1>3. t.at # End => Cached(t, t.at) # {}
  BY <1>1 DEF TableOk, Cached
<1>4. DOMAIN Entries \subseteq DOMAIN Rows /\ \A pk \in DOMAIN Entries : Entries[pk] = Rows[pk]
  BY <1>1 DEF DbOk, Rows, Entries
<1>5. ASSUME upgraded, NEW pk \in DOMAIN Rows, caughtUp \/ pk < filled
      PROVE  pk \in DOMAIN Entries
  <2>1. pk \in Nat /\ filled \in Nat
    BY <1>1, KeyAssumption DEF DbOk, Rows, Keys, Covered
  <2>2. pk \notin DOMAIN Entries => pk \in Unindexed(t.db)
    BY DEF Unindexed, Rows, Entries
  <2> QED
    BY <1>1, <1>5, <2>1, <2>2 DEF Covered
<1> QED
  BY <1>2, <1>3, <1>4, <1>5 DEF IndexAgrees

(* However the contract reads, emplaces, modifies and erases, in actions    *)
(* before and after it got its index, and however often it calls            *)
(* update_index meanwhile: what it has loaded is what the rows hold, and    *)
(* the index agrees with the rows (multi_index.hpp).                        *)
THEOREM IndexAndRowsAgree == ContractSpec => []IndexAgrees
<1>1. IndexInv => IndexAgrees
  BY InvAgrees
<1> QED
  BY <1>1, TableInvariance, PTL

(* Whoever reads comes to the row.                                         *)
LEMMA LeadsThere ==
  ASSUME IndexInv, NEW u, NEW pk, Leads(t, u, pk)
  PROVE  LeadsTo(u, pk)
<1>1. TableOk(u) /\ u.db = t.db /\ u.ok = TRUE /\ u.at = pk
  BY DEF Leads, IndexInv
<1>2. ASSUME pk # End PROVE Object(u).value = Rows[pk]
  <2>1. Loaded(u.db, Object(u)) /\ Object(u).pk = pk
    BY <1>1, <1>2, ObjectIsAt
  <2> QED
    BY <1>1, <2>1 DEF Loaded, Rows
<1> QED
  BY <1>1, <1>2 DEF LeadsTo

LEMMA RequireFindLeads ==
  ASSUME NEW s, TableOk(s), s.ok = TRUE, NEW pk \in Keys
  PROVE  /\ pk \in DOMAIN s.db.rows => Leads(s, require_find(s, pk), pk)
         /\ require_find(s, pk).ok = (pk \in DOMAIN s.db.rows)
<1> DEFINE found == find(s, pk)
<1>1. Leads(s, found, IF pk \in DOMAIN s.db.rows THEN pk ELSE End)
  BY FindLeads
<1>2. pk # End
  BY KeyAssumption DEF Keys, End
<1>3. require_find(s, pk) = IF found.at = End THEN Abort(s) ELSE found
  BY DEF require_find
<1> HIDE DEF found
<1>4. CASE pk \in DOMAIN s.db.rows
  <2>1. Leads(s, found, pk) /\ found.at = pk /\ found.ok = TRUE
    BY <1>1, <1>4 DEF Leads
  <2>2. require_find(s, pk) = found
    BY <1>2, <1>3, <2>1
  <2> QED
    BY <1>4, <2>1, <2>2
<1>5. CASE pk \notin DOMAIN s.db.rows
  <2>1. found.at = End
    BY <1>1, <1>5 DEF Leads
  <2>2. require_find(s, pk).ok = FALSE
    BY <1>3, <2>1, AbortKeeps
  <2>3. (pk \in DOMAIN s.db.rows) = FALSE
    BY <1>5
  <2> QED
    BY <1>5, <2>2, <2>3, Zenon
<1> QED
  BY <1>4, <1>5

LEMMA InvReadsByKey ==
  ASSUME IndexInv
  PROVE  ReadsByKey
<1>1. TableOk(t) /\ t.ok = TRUE /\ Rows = t.db.rows
  BY DEF IndexInv, Rows
<1>2. SUFFICES ASSUME NEW pk \in Keys
      PROVE /\ LeadsTo(find(t, pk), IF pk \in DOMAIN Rows THEN pk ELSE End)
            /\ require_find(t, pk).ok = (pk \in DOMAIN Rows)
            /\ LeadsTo(lower_bound(t, pk), Least({k \in DOMAIN Rows : k >= pk}))
            /\ LeadsTo(upper_bound(t, pk), Least({k \in DOMAIN Rows : k > pk}))
            /\ pk \in DOMAIN Rows =>
                 /\ LeadsTo(increment(find(t, pk)), Least({k \in DOMAIN Rows : k > pk}))
                 /\ LET smaller == {k \in DOMAIN Rows : k < pk}
                    IN  IF smaller = {} THEN ~decrement(find(t, pk)).ok
                        ELSE LeadsTo(decrement(find(t, pk)), Greatest(smaller))
  BY DEF ReadsByKey
<1>3. LeadsTo(find(t, pk), IF pk \in DOMAIN Rows THEN pk ELSE End)
  BY <1>1, FindLeads, LeadsThere
<1>4. require_find(t, pk).ok = (pk \in DOMAIN Rows)
  BY <1>1, RequireFindLeads
<1>5. /\ LeadsTo(lower_bound(t, pk), Least({k \in DOMAIN Rows : k >= pk}))
      /\ LeadsTo(upper_bound(t, pk), Least({k \in DOMAIN Rows : k > pk}))
  <2>1. /\ {k \in DOMAIN Rows : k >= pk} = RowsFrom(t.db, pk)
        /\ {k \in DOMAIN Rows : k > pk} = RowsPast(t.db, pk)
    BY <1>1 DEF RowsFrom, RowsPast
  <2> QED
    BY <1>1, <2>1, BoundsLead, LeadsThere
<1>6. ASSUME pk \in DOMAIN Rows
      PROVE  /\ LeadsTo(increment(find(t, pk)), Least({k \in DOMAIN Rows : k > pk}))
             /\ LET smaller == {k \in DOMAIN Rows : k < pk}
                IN  IF smaller = {} THEN ~decrement(find(t, pk)).ok
                    ELSE LeadsTo(decrement(find(t, pk)), Greatest(smaller))
  <2> DEFINE found == find(t, pk)
             smaller == RowsBefore(t.db, pk)
  <2>1. Leads(t, found, pk) /\ pk # End
    <3>1. Leads(t, found, IF pk \in DOMAIN t.db.rows THEN pk ELSE End)
      BY <1>1, FindLeads
    <3> QED
      BY <1>1, <1>6, <3>1, KeyAssumption DEF Keys, End
  <2> HIDE DEF found
  <2>2. TableOk(found) /\ found.at = pk /\ found.db = t.db
    BY <2>1 DEF Leads
  <2>3. LeadsTo(increment(found), Least(RowsPast(t.db, pk)))
    <3>1. Leads(found, increment(found), Least(RowsPast(t.db, pk)))
      BY <2>1, <2>2, IncrementLeads
    <3> QED
      BY <2>1, <3>1, LeadsOn, LeadsThere
  <2>4. /\ smaller # {} => Leads(found, decrement(found), Greatest(smaller))
        /\ smaller = {} => decrement(found) = Abort(found)
    <3> DEFINE all == IF found.at = End THEN DOMAIN found.db.rows
                      ELSE RowsBefore(found.db, found.at)
    <3>1. /\ all # {} => Leads(found, decrement(found), Greatest(all))
          /\ all = {} => decrement(found) = Abort(found)
      BY <2>2, DecrementLeads
    <3>2. all = smaller
      BY <2>1, <2>2
    <3> HIDE DEF all, smaller
    <3> QED
      BY <3>1, <3>2
  <2>5. IF smaller = {} THEN ~decrement(found).ok ELSE LeadsTo(decrement(found), Greatest(smaller))
    <3> HIDE DEF smaller
    <3>1. CASE smaller = {}
      BY <2>2, <2>4, <3>1, AbortKeeps
    <3>2. CASE smaller # {}
      BY <2>1, <2>4, <3>2, LeadsOn, LeadsThere
    <3> QED
      BY <3>1, <3>2
  <2>6. {k \in DOMAIN Rows : k > pk} = RowsPast(t.db, pk) /\ {k \in DOMAIN Rows : k < pk} = smaller
    BY <1>1 DEF RowsPast, RowsBefore
  <2> HIDE DEF smaller
  <2> QED
    BY <2>3, <2>5, <2>6, Zenon DEF found
<1> QED
  BY <1>3, <1>4, <1>5, <1>6

(* The order in which ReadsByIndex reads is that of the database.          *)
LEMMA FirstOfIs ==
  ASSUME IndexInv, NEW S \in SUBSET DOMAIN Entries
  PROVE  FirstOf(S) = FirstIn(t.db, S)
<1>1. /\ DbOk(t.db) /\ Entries = t.db.entries /\ S \in SUBSET DOMAIN t.db.entries
      /\ \A p, q : ByIndex(p, q) <=> Before(t.db, p, q)
  BY DEF IndexInv, TableOk, Entries, ByIndex, Before
<1>2. CASE S = {}
  BY <1>2 DEF FirstOf, FirstIn
<1>3. CASE S # {}
  <2> DEFINE p == FirstIn(t.db, S)
  <2>1. p \in S /\ \A q \in S \ {p} : Before(t.db, p, q)
    BY <1>1, <1>3, FirstIs DEF IsFirst
  <2> HIDE DEF p
  <2>2. \A x, y \in S : ~ (Before(t.db, x, y) /\ Before(t.db, y, x))
    BY <1>1, IndexOrder
  <2>3. \A q \in S : ~ByIndex(q, p)
    BY <1>1, <2>1, <2>2
  <2>4. \A x \in S : (\A q \in S : ~ByIndex(q, x)) => x = p
    BY <1>1, <2>1
  <2>5. FirstOf(S) = CHOOSE x \in S : \A q \in S : ~ByIndex(q, x)
    BY <1>3 DEF FirstOf
  <2>6. FirstOf(S) \in S /\ \A q \in S : ~ByIndex(q, FirstOf(S))
    BY <2>1, <2>3, <2>5
  <2> QED
    BY <2>4, <2>6 DEF p
<1> QED
  BY <1>2, <1>3

(* From an entry to the next one and back.                                 *)
LEMMA ForthAndBack ==
  ASSUME IndexInv, NEW pk \in DOMAIN Entries
  PROVE  LET next == index_increment(find(t, pk))
         IN  /\ LeadsTo(next, FirstIn(t.db, EntriesAfter(t.db, pk)))
             /\ next.at # End => LeadsTo(index_decrement(next), pk)
             /\ next.at = End => LeadsTo(index_decrement(AtEnd(t)), pk)
<1> DEFINE found == find(t, pk)
           next == index_increment(found)
           after == EntriesAfter(t.db, pk)
           all == DOMAIN t.db.entries
           before == EntriesBefore(t.db, next.at)
<1>1. /\ TableOk(t) /\ DbOk(t.db) /\ pk \in all /\ pk \in DOMAIN t.db.rows
      /\ pk # End /\ End \notin all
      /\ after \in SUBSET all /\ before \in SUBSET all /\ all \in SUBSET all
  <2>1. TableOk(t) /\ DbOk(t.db)
    BY DEF IndexInv, TableOk
  <2> QED
    BY <2>1, KeyAssumption DEF DbOk, Keys, End, Entries, EntriesAfter, EntriesBefore
<1>2. Leads(t, found, pk)
  <2>1. Leads(t, found, IF pk \in DOMAIN t.db.rows THEN pk ELSE End)
    BY <1>1, FindLeads
  <2> QED
    BY <1>1, <2>1
<1> HIDE DEF found
<1>3. Leads(t, next, FirstIn(t.db, after))
  <2>1. TableOk(found) /\ found.at = pk /\ found.db = t.db
    BY <1>2 DEF Leads
  <2>2. Leads(found, next, FirstIn(t.db, after))
    BY <1>1, <2>1, IndexIncrementLeads
  <2> QED
    BY <1>2, <2>2, LeadsOn
<1> HIDE DEF next
<1>4. TableOk(next) /\ next.db = t.db /\ next.at = FirstIn(t.db, after)
  BY <1>3 DEF Leads
<1>5. \A p \in all : p = pk \/ Before(t.db, p, pk) \/ p \in after
  BY <1>1, IndexOrder DEF EntriesAfter
<1>6. ASSUME next.at # End PROVE LeadsTo(index_decrement(next), pk)
  <2>1. next.at \in after /\ \A q \in after \ {next.at} : Before(t.db, next.at, q)
    <3>1. after # {}
      BY <1>1, <1>4, <1>6, FirstIs
    <3> QED
      BY <1>1, <1>4, <3>1, FirstIs DEF IsFirst
  <2>2. next.at \in all /\ Before(t.db, pk, next.at)
    BY <1>1, <2>1 DEF EntriesAfter
  <2>3. pk \in before
    BY <1>1, <2>2 DEF EntriesBefore
  <2>4. ASSUME NEW r \in before \ {pk} PROVE Before(t.db, r, pk)
    <3>1. r \in all /\ Before(t.db, r, next.at)
      BY <1>1, <2>4 DEF EntriesBefore
    <3>2. r \notin after
      <4>1. SUFFICES ASSUME r \in after PROVE FALSE
        OBVIOUS
      <4>2. ~Before(t.db, next.at, next.at) /\ ~Before(t.db, next.at, r)
        BY <1>1, <2>2, <3>1, IndexOrder
      <4> QED
        BY <2>1, <3>1, <4>1, <4>2
    <3> QED
      BY <1>5, <2>4, <3>1, <3>2
  <2>5. IsLast(t.db, before, pk)
    BY <2>3, <2>4 DEF IsLast
  <2>6. LastIn(t.db, before) = pk
    BY <1>1, <2>5, FirstIs
  <2> HIDE DEF before
  <2>7. Leads(next, index_decrement(next), pk)
    <3> DEFINE those == IF next.at = End THEN DOMAIN next.db.entries
                        ELSE EntriesBefore(next.db, next.at)
               possible == (next.at = End \/ next.at \in DOMAIN next.db.entries) /\ those # {}
    <3>1. possible => Leads(next, index_decrement(next), LastIn(next.db, those))
      BY <1>4, IndexDecrementLeads
    <3>2. those = before
      BY <1>4, <1>6 DEF before
    <3>3. possible
      BY <1>4, <2>2, <2>3, <3>2
    <3> HIDE DEF possible, those
    <3> QED
      BY <1>4, <2>6, <3>1, <3>2, <3>3
  <2> QED
    BY <1>3, <2>7, LeadsOn, LeadsThere
<1>7. ASSUME next.at = End PROVE LeadsTo(index_decrement(AtEnd(t)), pk)
  <2> DEFINE end == AtEnd(t)
  <2>1. after = {}
    <3>1. after # {} => FirstIn(t.db, after) \in after
      BY <1>1, FirstIs DEF IsFirst
    <3> QED
      BY <1>1, <1>4, <1>7, <3>1
  <2>2. IsLast(t.db, all, pk)
    BY <1>1, <1>5, <2>1 DEF IsLast
  <2>3. LastIn(t.db, all) = pk
    BY <1>1, <2>2, FirstIs
  <2>4. Leads(t, end, End)
    BY <1>1, AtEndLeads
  <2> HIDE DEF end
  <2>5. TableOk(end) /\ end.db = t.db /\ end.at = End
    BY <2>4 DEF Leads
  <2>6. Leads(end, index_decrement(end), pk)
    <3> DEFINE those == IF end.at = End THEN DOMAIN end.db.entries
                        ELSE EntriesBefore(end.db, end.at)
               possible == (end.at = End \/ end.at \in DOMAIN end.db.entries) /\ those # {}
    <3>1. possible => Leads(end, index_decrement(end), LastIn(end.db, those))
      BY <2>5, IndexDecrementLeads
    <3>2. those = all
      BY <2>5
    <3>3. possible
      BY <1>1, <2>5, <3>2
    <3> HIDE DEF possible, those
    <3> QED
      BY <2>3, <2>5, <3>1, <3>2, <3>3
  <2> QED
    BY <2>4, <2>6, LeadsOn, LeadsThere DEF end
<1>8. LeadsTo(next, FirstIn(t.db, after))
  BY <1>3, LeadsThere
<1> QED
  BY <1>6, <1>7, <1>8 DEF next, found

LEMMA InvReadsByIndex ==
  ASSUME IndexInv
  PROVE  ReadsByIndex
<1>1. TableOk(t) /\ Entries = t.db.entries /\ UsedValue \subseteq Nat
  BY UsedAssumption DEF IndexInv, Entries
<1>2. ASSUME NEW key \in UsedValue
      PROVE  /\ LeadsTo(index_lower_bound(t, key), FirstOf({k \in DOMAIN Entries : Entries[k] >= key}))
             /\ LeadsTo(index_upper_bound(t, key), FirstOf({k \in DOMAIN Entries : Entries[k] > key}))
             /\ LeadsTo(index_find(t, key), FirstOf({k \in DOMAIN Entries : Entries[k] = key}))
  <2>1. /\ {k \in DOMAIN Entries : Entries[k] >= key} = EntriesFrom(t.db, key)
        /\ {k \in DOMAIN Entries : Entries[k] > key} = EntriesPast(t.db, key)
        /\ {k \in DOMAIN Entries : Entries[k] = key} = EntriesOf(t.db, key)
    BY <1>1 DEF EntriesFrom, EntriesPast, EntriesOf
  <2>2. /\ FirstOf(EntriesFrom(t.db, key)) = FirstIn(t.db, EntriesFrom(t.db, key))
        /\ FirstOf(EntriesPast(t.db, key)) = FirstIn(t.db, EntriesPast(t.db, key))
        /\ FirstOf(EntriesOf(t.db, key)) = FirstIn(t.db, EntriesOf(t.db, key))
    <3>1. /\ EntriesFrom(t.db, key) \in SUBSET DOMAIN Entries
          /\ EntriesPast(t.db, key) \in SUBSET DOMAIN Entries
          /\ EntriesOf(t.db, key) \in SUBSET DOMAIN Entries
      BY <1>1 DEF EntriesFrom, EntriesPast, EntriesOf
    <3> QED
      BY <3>1, FirstOfIs
  <2>3. /\ LeadsTo(index_lower_bound(t, key), FirstIn(t.db, EntriesFrom(t.db, key)))
        /\ LeadsTo(index_upper_bound(t, key), FirstIn(t.db, EntriesPast(t.db, key)))
    BY <1>1, IndexBoundsLead, LeadsThere
  <2>4. LeadsTo(index_find(t, key), FirstIn(t.db, EntriesOf(t.db, key)))
    BY <1>1, IndexFindLeads, LeadsThere
  <2> QED
    BY <2>1, <2>2, <2>3, <2>4
<1>3. LeadsTo(index_begin(t), FirstOf(DOMAIN Entries))
  <2>1. FirstOf(DOMAIN Entries) = FirstIn(t.db, DOMAIN t.db.entries)
    BY <1>1, FirstOfIs
  <2> QED
    BY <1>1, <2>1, IndexBeginLeads, LeadsThere
<1>4. ASSUME NEW pk \in DOMAIN Entries
      PROVE  LET next == index_increment(find(t, pk))
             IN  /\ LeadsTo(next, FirstOf({k \in DOMAIN Entries : ByIndex(pk, k)}))
                 /\ next.at # End => LeadsTo(index_decrement(next), pk)
                 /\ next.at = End => LeadsTo(index_decrement(AtEnd(t)), pk)
  <2>1. /\ {k \in DOMAIN Entries : ByIndex(pk, k)} = EntriesAfter(t.db, pk)
        /\ EntriesAfter(t.db, pk) \in SUBSET DOMAIN Entries
    BY <1>1 DEF EntriesAfter, ByIndex, Before
  <2>2. FirstOf(EntriesAfter(t.db, pk)) = FirstIn(t.db, EntriesAfter(t.db, pk))
    BY <2>1, FirstOfIs
  <2> QED
    BY <2>1, <2>2, ForthAndBack
<1> QED
  BY <1>2, <1>3, <1>4 DEF ReadsByIndex

LEMMA InvKeyIsFree ==
  ASSUME IndexInv
  PROVE  KeyIsFree
<1> DEFINE a == available_primary_key(t)
<1>1. a.ok = TRUE => \A pk \in DOMAIN t.db.rows : pk < a.next
  BY AvailableKey DEF IndexInv
<1> HIDE DEF a
<1>2. a.ok => \A pk \in DOMAIN t.db.rows : pk < a.next
  BY <1>1
<1> QED
  BY <1>2 DEF KeyIsFree, Rows, a

(* A singleton has the value of its row.                                   *)
LEMMA ValueIs ==
  ASSUME NEW s, TableOk(s), s.ok = TRUE
  PROVE  /\ exists(s) = (pk_value \in DOMAIN s.db.rows)
         /\ get(s).ok = exists(s)
         /\ pk_value \in DOMAIN s.db.rows => Value(s) = s.db.rows[pk_value]
<1>1. pk_value \in Keys /\ pk_value # End
  BY UsedAssumption, KeyAssumption DEF Keys, End
<1>2. exists(s) = (pk_value \in DOMAIN s.db.rows)
  <2>1. Leads(s, find(s, pk_value), IF pk_value \in DOMAIN s.db.rows THEN pk_value ELSE End)
    BY FindLeads
  <2>2. (find(s, pk_value).at # End) = (pk_value \in DOMAIN s.db.rows)
    BY <1>1, <2>1 DEF Leads
  <2> QED
    BY <2>2, Zenon DEF exists
<1>3. get(s).ok = (pk_value \in DOMAIN s.db.rows)
  BY <1>1, RequireFindLeads DEF get
<1>4. ASSUME pk_value \in DOMAIN s.db.rows PROVE Value(s) = s.db.rows[pk_value]
  <2>1. Leads(s, get(s), pk_value)
    BY <1>1, <1>4, RequireFindLeads DEF get
  <2>2. TableOk(get(s)) /\ get(s).at = pk_value /\ get(s).db = s.db
    BY <2>1 DEF Leads
  <2>3. Loaded(s.db, Object(get(s))) /\ Object(get(s)).pk = pk_value
    BY <1>1, <2>2, ObjectIsAt
  <2> QED
    BY <2>3 DEF Loaded, Value
<1> QED
  BY <1>2, <1>3, <1>4

(* Storing under the name of a singleton gives it that value.              *)
Holds(u, value) ==
  TableOk(u) /\ u.ok = TRUE /\ pk_value \in DOMAIN u.db.rows /\ u.db.rows[pk_value] = value

LEMMA InvSingletonHolds ==
  ASSUME IndexInv
  PROVE  SingletonHolds
<1> DEFINE found == find(t, pk_value)
           there == pk_value \in DOMAIN t.db.rows
<1>1. TableOk(t) /\ t.ok = TRUE /\ Rows = t.db.rows
  BY DEF IndexInv, Rows
<1>2. pk_value \in Keys /\ pk_value # End /\ UsedValue \subseteq Nat
  BY UsedAssumption, KeyAssumption DEF Keys, End
<1>3. /\ exists(t) = there /\ get(t).ok = exists(t)
      /\ there => Value(t) = t.db.rows[pk_value]
  BY <1>1, ValueIs
<1>4. Leads(t, found, IF there THEN pk_value ELSE End)
  BY <1>1, FindLeads
<1> HIDE DEF found
<1>5. /\ TableOk(found) /\ found.ok = TRUE /\ found.own = t.own /\ found.db = t.db
      /\ there => found.at = pk_value
      /\ ~there => found.at = End
  BY <1>1, <1>4 DEF Leads
<1>6. ASSUME NEW value \in UsedValue
      PROVE  get_or_default(t, value) = IF exists(t) THEN Rows[pk_value] ELSE value
  BY <1>1, <1>3 DEF get_or_default
<1>7. ASSUME NEW u, NEW value, Holds(u, value)
      PROVE  Value(u) = value
  BY <1>7, ValueIs DEF Holds
<1>8. ASSUME t.own, NEW value \in UsedValue, ~there
      PROVE  Holds(emplace(found, pk_value, value), value)
  <2>1. IsEmplaced(found, emplace(found, pk_value, value), pk_value, value)
    BY <1>2, <1>5, <1>8, EmplaceIs
  <2> QED
    BY <1>5, <2>1 DEF IsEmplaced, Changes, Holds
<1>9. ASSUME t.own, NEW value \in UsedValue
      PROVE  Value(set(t, value)) = value
  <2>1. CASE there
    <3>1. IsModified(found, modify(found, value), value)
      BY <1>2, <1>5, <1>9, <2>1, ModifyChanges
    <3>2. Holds(modify(found, value), value)
      BY <1>5, <2>1, <3>1 DEF IsModified, Changes, Holds
    <3>3. set(t, value) = modify(found, value)
      BY <1>2, <1>5, <2>1 DEF set, found
    <3> QED
      BY <1>7, <3>2, <3>3
  <2>2. CASE ~there
    <3>1. set(t, value) = emplace(found, pk_value, value)
      BY <1>5, <2>2 DEF set, found
    <3> QED
      BY <1>7, <1>8, <1>9, <2>2, <3>1
  <2> QED
    BY <2>1, <2>2
<1>10. ASSUME t.own, NEW value \in UsedValue
       PROVE  Value(get_or_create(t, value)) = get_or_default(t, value)
  <2>1. CASE there
    <3>1. get_or_create(t, value) = found
      BY <1>2, <1>5, <2>1 DEF get_or_create, found
    <3>2. Holds(found, t.db.rows[pk_value])
      BY <1>5, <2>1 DEF Holds
    <3>3. Value(found) = t.db.rows[pk_value]
      BY <1>7, <3>2
    <3> QED
      BY <1>1, <1>3, <1>6, <1>10, <2>1, <3>1, <3>3
  <2>2. CASE ~there
    <3>1. get_or_create(t, value) = emplace(found, pk_value, value)
      BY <1>5, <2>2 DEF get_or_create, found
    <3>2. get_or_default(t, value) = value
      BY <1>3, <1>6, <1>10, <2>2
    <3> QED
      BY <1>7, <1>8, <1>10, <2>2, <3>1, <3>2
  <2> QED
    BY <2>1, <2>2
<1>11. ASSUME t.own PROVE ~exists(remove(t))
  <2>1. CASE there
    <3>1. remove(t) = erase(found)
      BY <1>2, <1>5, <2>1 DEF remove, found
    <3>2. /\ Changes(found, erase(found))
          /\ DOMAIN erase(found).db.rows = DOMAIN found.db.rows \ {pk_value}
      BY <1>2, <1>5, <1>11, <2>1, EraseChanges
    <3>3. TableOk(remove(t)) /\ remove(t).ok = TRUE /\ pk_value \notin DOMAIN remove(t).db.rows
      BY <1>5, <3>1, <3>2 DEF Changes
    <3> QED
      BY <3>3, ValueIs
  <2>2. CASE ~there
    <3>1. remove(t) = found
      BY <1>5, <2>2 DEF remove, found
    <3>2. TableOk(remove(t)) /\ remove(t).ok = TRUE /\ pk_value \notin DOMAIN remove(t).db.rows
      BY <1>5, <2>2, <3>1
    <3> QED
      BY <3>2, ValueIs
  <2> QED
    BY <2>1, <2>2
<1>12. exists(t) = (pk_value \in DOMAIN Rows)
  BY <1>1, <1>3
<1> QED
  BY <1>3, <1>6, <1>9, <1>10, <1>11, <1>12 DEF SingletonHolds

(* Whatever was done before, find, the bounds and the iterators of the      *)
(* table and of its index come to the row that an ordered table would give, *)
(* available_primary_key is larger than all keys, and a singleton has what  *)
(* was set last (multi_index.hpp, singleton.hpp).                           *)
THEOREM TableReadsInOrder == ContractSpec => []ReadsAsTable
<1>1. IndexInv => ReadsAsTable
  BY InvReadsByKey, InvKeyIsFree, InvReadsByIndex, InvSingletonHolds DEF ReadsAsTable
<1> QED
  BY <1>1, TableInvariance, PTL
=============================================================================
