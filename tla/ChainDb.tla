------------------------------- MODULE ChainDb -------------------------------
(***************************************************************************)
(* What chainbase::database promises to the micro-chain: a table that can  *)
(* be rolled back session by session.  A database is a record of           *)
(*   table     the contents                                                *)
(*   undo      for each open undo session, the contents when it began      *)
(*   revision  the number of the newest revision                           *)
(* UndoIndex.tla models how chainbase::undo_index implements this.         *)
(***************************************************************************)
EXTENDS Integers, Sequences

EmptyDb(table) == [table |-> table, undo |-> <<>>, revision |-> 0]

(* start_undo_session(true), and push() at the end of its life *)
StartSession(d) ==
  [table |-> d.table, undo |-> Append(d.undo, d.table), revision |-> d.revision + 1]

(* Mutant: however many sessions go, only the newest one is restored. *)
UndoSessionsNewest(d, n) ==
  LET k == IF n <= Len(d.undo) THEN n ELSE Len(d.undo) IN
  IF k = 0 THEN d
  ELSE [table |-> d.undo[Len(d.undo)],
        undo |-> SubSeq(d.undo, 1, Len(d.undo) - k),
        revision |-> d.revision - k]

(* Mutant: the revision goes down once more than there were sessions. *)
UndoSessionsBeyond(d, n) ==
  LET k == IF n <= Len(d.undo) THEN n ELSE Len(d.undo) IN
  IF k = 0 THEN d
  ELSE [table |-> d.undo[Len(d.undo) + 1 - k],
        undo |-> SubSeq(d.undo, 1, Len(d.undo) - k),
        revision |-> d.revision - k - 1]

(* n calls of undo(); a call without an open session does nothing. *)
UndoSessions(d, n) ==
  LET k == IF n <= Len(d.undo) THEN n ELSE Len(d.undo) IN
  IF k = 0 THEN d
  ELSE [table |-> d.undo[Len(d.undo) + 1 - k],
        undo |-> SubSeq(d.undo, 1, Len(d.undo) - k),
        revision |-> d.revision - k]

(* The sessions up to a revision can no longer be undone. *)
Commit(d, revision) ==
  LET newer == d.revision - revision IN
  IF newer <= 0 THEN [d EXCEPT !.undo = <<>>]
  ELSE IF newer < Len(d.undo)
       THEN [d EXCEPT !.undo = SubSeq(d.undo, Len(d.undo) + 1 - newer, Len(d.undo))]
  ELSE d

(* set_revision fails a check with open sessions, or when going back. *)
CanSetRevision(d, revision) == d.undo = <<>> /\ revision >= d.revision

SetRevision(d, revision) == [d EXCEPT !.revision = revision]
=============================================================================
