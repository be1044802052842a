------------------------------ MODULE MCChain ------------------------------
(* Blocks for TLC: up to four EOSIO heights, each with two competing       *)
(* blocks.  An id is the list of EOSIO blocks behind it: a hash without    *)
(* collisions.                                                             *)
EXTENDS WasmExports

MCHash(num, previous, eosio) == Append(previous, <<eosio.num, eosio.fork>>)

MCNoId == <<>>

Hi(a, m) == [kind |-> "hi", account |-> a, message |-> m]
Of(kind) == [kind |-> kind]

FourHeights == {
  [num |-> 1, fork |-> 1, actions |-> <<Hi("x", "m")>>],
  [num |-> 1, fork |-> 2, actions |-> <<Hi("y", "m"), Of("ignored")>>],
  [num |-> 2, fork |-> 1, actions |-> <<Of("clearall"), Hi("y", "n")>>],
  [num |-> 2, fork |-> 2, actions |-> <<Hi("x", "n")>>],
  [num |-> 3, fork |-> 1, actions |-> <<Of("clearall")>>],
  [num |-> 3, fork |-> 2, actions |-> <<Hi("x", "m"), Of("undecodable"), Hi("x", "n")>>],
  [num |-> 4, fork |-> 1, actions |-> <<Hi("y", "m")>>],
  [num |-> 4, fork |-> 2, actions |-> <<>>] }

ThreeHeights == {e \in FourHeights : e.num <= 3}

(* All blocks a box can build out of them. *)
First == {MakeBlock(1, NoId, e) : e \in EosioBlock}
After(S) ==
  {MakeBlock(p[1].num + 1, p[1].id, p[2]) :
     p \in {q \in S \X EosioBlock : q[1].eosio.num < q[2].num}}
MCBlock ==
  First \cup After(First) \cup After(After(First)) \cup After(After(After(First)))
=============================================================================
