--------------------------- MODULE MCSyncProtocol ---------------------------
(* SyncProtocol over blocks without actions: three heights, the middle one *)
(* with two competing blocks.                                              *)
EXTENDS SyncProtocol

MCHash(num, previous, eosio) == Append(previous, <<eosio.num, eosio.fork>>)
MCNoId == <<>>

Bare(num, fork) == [num |-> num, fork |-> fork, actions |-> <<>>]
BareBlocks == {Bare(1, 1), Bare(2, 1), Bare(2, 2), Bare(3, 1)}

First == {MakeBlock(1, NoId, e) : e \in EosioBlock}
After(S) ==
  {MakeBlock(p[1].num + 1, p[1].id, p[2]) :
     p \in {q \in S \X EosioBlock : q[1].eosio.num < q[2].num}}
MCBlock == First \cup After(First) \cup After(After(First))

Of(p, n, c, r) == [patient |-> p, changes |-> n, closes |-> c, restarts |-> r]
MCScenarios == {Of(TRUE, 4, 1, 0), Of(TRUE, 3, 0, 1), Of(FALSE, 2, 1, 0)}
NodeScenarios == {Of(TRUE, 2, 0, 0)}
=============================================================================
