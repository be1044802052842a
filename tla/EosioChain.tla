----------------------------- MODULE EosioChain -----------------------------
(***************************************************************************)
(* What the box storage promises to the history receivers: a chain of the  *)
(* EOSIO blocks they pushed, sorted by number.  A block replaces those of  *)
(* its number and above, unless that would touch a final one.  BoxStorage  *)
(* implements it; DfuseReceiver is built on it.                            *)
(***************************************************************************)
EXTENDS Integers, SequencesExt

CONSTANTS EosioBlock, MaxUInt

VARIABLE chain    \* its blocks, and how many of them are final

Empty == [blocks |-> <<>>, final |-> 0]

NumBelow(blocks, num) == Cardinality({i \in DOMAIN blocks : blocks[i].num < num})

(* The largest number is no block number: finality ignores it. *)
FinalAfter(c, irreversible) ==
  LET k == NumBelow(c.blocks, irreversible + 1)
  IN  IF irreversible = MaxUInt \/ k < c.final THEN c.final ELSE k

IsNew(c, e) ==
  LET k == NumBelow(c.blocks, e.num)
  IN  k >= c.final /\ (k < Len(c.blocks) => c.blocks[k + 1] # e)

Pushed(c, e, irreversible) ==
  LET longer == [c EXCEPT !.blocks = Append(SubSeq(@, 1, NumBelow(@, e.num)), e)]
  IN  IF IsNew(c, e) THEN [longer EXCEPT !.final = FinalAfter(longer, irreversible)]
      ELSE c

Undone(c, num) ==
  LET k == NumBelow(c.blocks, num)
  IN  IF k >= c.final /\ k < Len(c.blocks) /\ c.blocks[k + 1].num = num
      THEN [c EXCEPT !.blocks = SubSeq(@, 1, k)] ELSE c

Init == chain = Empty

(* Lost is the end of a process, or of its instances. *)
Lost == chain' = Empty

Next ==
  \/ \E e \in EosioBlock, n \in 0..MaxUInt : chain' = Pushed(chain, e, n)
  \/ \E n \in 0..MaxUInt : chain' = Undone(chain, n)
  \/ Lost

Spec == Init /\ [][Next]_chain
=============================================================================
