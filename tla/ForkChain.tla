----------------------------- MODULE ForkChain -----------------------------
(***************************************************************************)
(* What a micro-chain promises, without its memory layout: one chain of    *)
(* linked blocks from block 1 on, of which the first `final` never change. *)
(* Only the blocks behind them can be replaced or taken back.              *)
(***************************************************************************)
EXTENDS Integers, Sequences

CONSTANT Block

VARIABLES chain, final

vars == <<chain, final>>

Init == chain = <<>> /\ final = 0

Follows(b, k) == b.num = k + 1 /\ (k > 0 => b.previous = chain[k].id)

(* A new block replaces what follows the first k blocks. *)
Extend(b, k) ==
  /\ k \in final..Len(chain)
  /\ Follows(b, k)
  /\ chain' = Append(SubSeq(chain, 1, k), b)
  /\ final' \in final..k + 1

Retract(k) ==
  /\ k \in final..Len(chain)
  /\ chain' = SubSeq(chain, 1, k)
  /\ UNCHANGED final

Finalize ==
  /\ final' \in final..Len(chain)
  /\ UNCHANGED chain

Next ==
  \/ \E b \in Block, k \in 0..Len(chain) : Extend(b, k)
  \/ \E k \in 0..Len(chain) : Retract(k)
  \/ Finalize

Spec == Init /\ [][Next]_vars
=============================================================================
