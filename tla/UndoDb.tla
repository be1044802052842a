------------------------------- MODULE UndoDb -------------------------------
(***************************************************************************)
(* The promise of a chainbase table with one unique key: rows under ids    *)
(* that grow, and undo sessions that restore rows and ids exactly, whatever*)
(* was created, modified or removed since (the database of ChainDb.tla).   *)
(***************************************************************************)
EXTENDS ChainDb, Functions

CONSTANTS Key, Val

VARIABLE db

rows == db.table.rows
next == db.table.next

(* The rows, with one put under a new id or in place of another. *)
With(id, row) == [i \in DOMAIN rows \cup {id} |-> IF i = id THEN row ELSE rows[i]]

KeyFree(key, id) == \A i \in DOMAIN rows \ {id} : rows[i].key # key

Init == db = EmptyDb([rows |-> <<>>, next |-> 0])

Emplace(key, val) ==
  /\ KeyFree(key, next)
  /\ db' = [db EXCEPT !.table = [rows |-> With(next, [key |-> key, val |-> val]),
                                 next |-> next + 1]]

Modify(id, key, val) ==
  /\ KeyFree(key, id)
  /\ db' = [db EXCEPT !.table.rows = With(id, [key |-> key, val |-> val])]

Remove(id) == db' = [db EXCEPT !.table.rows = Restrict(@, DOMAIN @ \ {id})]

(* The changes of the newest session become part of the one before. *)
Squash ==
  db' = IF db.undo = <<>> THEN db
        ELSE [db EXCEPT !.undo = SubSeq(@, 1, Len(@) - 1), !.revision = @ - 1]

Next ==
  \/ \E key \in Key, val \in Val :
        \/ Emplace(key, val)
        \/ \E id \in DOMAIN rows : Modify(id, key, val)
  \/ \E id \in DOMAIN rows : Remove(id)
  \/ db' = StartSession(db)
  \/ db' = UndoSessions(db, 1)
  \/ Squash
  \/ \E revision \in 0..db.revision : db' = Commit(db, revision)
  \/ \E revision \in {db'.revision} :
        CanSetRevision(db, revision) /\ db' = SetRevision(db, revision)

Spec == Init /\ [][Next]_db
=============================================================================
