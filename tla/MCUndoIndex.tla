---------------------------- MODULE MCUndoIndex ----------------------------
(* undo_index: two keys in two sessions, and one key in four, deep enough  *)
(* for commit to dispose of entries under open sessions and for squash to  *)
(* merge sessions that both copied a row.  Values are interchangeable.     *)
EXTENDS UndoIndex, TLC

CONSTANTS k1, k2
MCKey == {k1, k2}
MCBounds == {[keys |-> {k1, k2}, sessions |-> 2, revision |-> 1],
             [keys |-> {k1}, sessions |-> 4, revision |-> 0]}
Symmetry == Permutations(Val)
=============================================================================
