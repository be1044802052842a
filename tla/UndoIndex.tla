------------------------------ MODULE UndoIndex ------------------------------
(***************************************************************************)
(* chainbase::undo_index: how a table keeps its undo sessions.  The stack  *)
(* holds no rows.  Copies of modified rows go to the front of `oldValues`  *)
(* and removed nodes to the front of `removedValues`; each session         *)
(* remembers the first entry of both lists at the time it started, so that *)
(* what lies before that entry is what happened since.                     *)
(*                                                                         *)
(* A node is identified by its row id and an entry of oldValues by its     *)
(* address, the lowest free one: freed memory is used again.  The state is *)
(* one record, so that "the table after an undo" is an operator.           *)
(***************************************************************************)
EXTENDS Integers, Sequences, SequencesExt, Functions, FiniteSets

CONSTANTS
  Key, Val,
  MaxId,          \* bound: row ids given out
  Bounds          \* [keys, sessions, revision]: the keys of a behaviour, how many
                  \* sessions it starts, the revision set_revision can choose

NULL == -1

ASSUME BoundsAssumption ==
  Bounds \subseteq [keys : SUBSET Key, sessions : Nat, revision : Nat]

VARIABLES
  index,
  bound     \* one of Bounds

vars == <<index, bound>>

(* node           id -> the row and its _mtime, for every node not freed   *)
(* rows           the ids in the table                                     *)
(* oldValues      [at, current, row]: address, _current, the copied node   *)
(* removedValues  ids of removed nodes                                     *)
(* undoStack      [oldEnd, removedEnd, oldNextId, ctime], oldest first     *)
Init ==
  /\ bound \in Bounds
  /\ index = [node |-> <<>>, rows |-> {}, oldValues |-> <<>>, removedValues |-> <<>>,
              undoStack |-> <<>>, nextId |-> 0, revision |-> 0, monotonic |-> 0]
-----------------------------------------------------------------------------
(* Lists: the position of an entry, one past the end for a null pointer.   *)

OldPos(u, at) ==
  IF at = NULL THEN Len(u.oldValues) + 1
  ELSE CHOOSE i \in DOMAIN u.oldValues : u.oldValues[i].at = at

RemovedPos(u, id) ==
  IF id = NULL THEN Len(u.removedValues) + 1
  ELSE CHOOSE i \in DOMAIN u.removedValues : u.removedValues[i] = id

FreeAddress(u) ==
  CHOOSE a \in 1..Len(u.oldValues) + 1 :
    /\ \A i \in DOMAIN u.oldValues : u.oldValues[i].at # a
    /\ \A c \in 1..a - 1 : \E i \in DOMAIN u.oldValues : u.oldValues[i].at = c

FirstN(seq, n) == SubSeq(seq, 1, n)
FromN(seq, n) == SubSeq(seq, n, Len(seq))

(* The entries at the given positions, in order. *)
EntriesAt(seq, positions) ==
  LET upTo[n \in 0..Len(seq)] ==
        IF n = 0 THEN <<>>
        ELSE IF n \in positions THEN Append(upTo[n - 1], seq[n])
        ELSE upTo[n - 1]
  IN  upTo[Len(seq)]

(* Frees the nodes that are neither in the table nor in removedValues. *)
Freed(u) == [u EXCEPT !.node = Restrict(@, u.rows \cup ToSet(u.removedValues))]

(* dispose_undo *)
DisposeUndo(u) == Freed([u EXCEPT !.oldValues = <<>>, !.removedValues = <<>>])

KeyFree(u, key, id) == \A i \in u.rows \ {id} : u.node[i].key # key
-----------------------------------------------------------------------------
(* What each member function makes of the index *)

(* emplace and on_create; _mtime of a node born outside a session is 0. *)
Emplaced(u, key, val) ==
  LET mtime == IF u.undoStack = <<>> THEN 0 ELSE u.monotonic
      born == [key |-> key, val |-> val, mtime |-> mtime]
  IN [u EXCEPT !.node = [i \in DOMAIN @ \cup {u.nextId} |->
                           IF i = u.nextId THEN born ELSE @[i]],
               !.rows = @ \cup {u.nextId},
               !.nextId = @ + 1]

(* Mutant: a node that any session has modified is not copied again. *)
BackedUpOnce(u, id) ==
  IF u.undoStack = <<>> \/ u.node[id].mtime > 0 THEN u
  ELSE [u EXCEPT !.oldValues = <<[at |-> FreeAddress(u), current |-> id,
                                  row |-> u.node[id]]>> \o @,
                 !.node[id].mtime = u.monotonic]

(* on_modify: keep a copy, unless this session made the node or has one. *)
BackedUp(u, id) ==
  IF u.undoStack = <<>> \/ u.node[id].mtime >= Last(u.undoStack).ctime THEN u
  ELSE [u EXCEPT !.oldValues = <<[at |-> FreeAddress(u), current |-> id,
                                  row |-> u.node[id]]>> \o @,
                 !.node[id].mtime = u.monotonic]

Modified(u, id, key, val) ==
  [BackedUp(u, id) EXCEPT !.node[id].key = key, !.node[id].val = val]

(* remove and on_remove: a row of this session leaves nothing behind. *)
Removed(u, id) ==
  LET gone == [u EXCEPT !.rows = @ \ {id}] IN
  IF u.undoStack = <<>> \/ id >= Last(u.undoStack).oldNextId THEN Freed(gone)
  ELSE [gone EXCEPT !.removedValues = <<id>> \o @]

(* add_session *)
SessionAdded(u) ==
  LET session ==
        [oldEnd |-> IF u.oldValues = <<>> THEN NULL ELSE Head(u.oldValues).at,
         removedEnd |-> IF u.removedValues = <<>> THEN NULL ELSE Head(u.removedValues),
         oldNextId |-> u.nextId,
         ctime |-> u.monotonic + 1]
  IN [u EXCEPT !.undoStack = Append(@, session), !.revision = @ + 1, !.monotonic = @ + 1]

(* The rows there were when a session began: those older than it that are  *)
(* in the table or were removed since ...                                  *)
RowsBefore(u, session) ==
  LET removed == FirstN(u.removedValues, RemovedPos(u, session.removedEnd) - 1)
  IN  {i \in u.rows \cup ToSet(removed) : i < session.oldNextId}

(* ... and the nodes, with the oldest copy made since that is not newer    *)
(* than the session (squash can leave newer ones) written back.            *)
NodesBefore(u, session) ==
  LET copies(i) == {p \in 1..OldPos(u, session.oldEnd) - 1 :
                      /\ u.oldValues[p].current = i
                      /\ u.oldValues[p].row.mtime < session.ctime}
  IN  [i \in DOMAIN u.node |->
         IF copies(i) = {} THEN u.node[i] ELSE u.oldValues[Max(copies(i))].row]

Undone(u) ==
  LET session == Last(u.undoStack) IN
  IF u.undoStack = <<>> THEN u
  ELSE Freed([u EXCEPT
         !.node = NodesBefore(u, session),
         !.rows = RowsBefore(u, session),
         !.oldValues = FromN(@, OldPos(u, session.oldEnd)),
         !.removedValues = FromN(@, RemovedPos(u, session.removedEnd)),
         !.undoStack = Front(@),
         !.nextId = session.oldNextId,
         !.revision = @ - 1])

(* compress_impl: drop what is redundant if everything since `session` is  *)
(* one session: copies newer than it, and copies of removed nodes, which   *)
(* move into the node.                                                     *)
Compressed(u, session) ==
  LET oldPos == OldPos(u, Last(u.undoStack).oldEnd)
      removedPos == RemovedPos(u, Last(u.undoStack).removedEnd)
      newer(old) == old.row.mtime >= session.ctime
      erased(old) == old.current \in ToSet(u.removedValues)
      moved(i) == {p \in 1..oldPos - 1 : /\ u.oldValues[p].current = i
                                         /\ ~newer(u.oldValues[p])
                                         /\ erased(u.oldValues[p])}
  IN Freed([u EXCEPT
       !.node = [i \in DOMAIN @ |->
                   IF moved(i) = {} THEN @[i] ELSE u.oldValues[Max(moved(i))].row],
       !.oldValues = EntriesAt(@, {p \in DOMAIN @ : p < oldPos => ~newer(@[p]) /\ ~erased(@[p])}),
       !.removedValues = EntriesAt(@, {p \in DOMAIN @ :
                                        p < removedPos => @[p] < session.oldNextId})])

SquashedFast(u) ==
  LET kept == IF Len(u.undoStack) = 1 THEN DisposeUndo(u) ELSE u
  IN  IF u.undoStack = <<>> THEN u
      ELSE [kept EXCEPT !.undoStack = Front(@), !.revision = @ - 1]

(* squash_and_compress *)
Squashed(u) ==
  SquashedFast(IF Len(u.undoStack) >= 2
               THEN Compressed(u, u.undoStack[Len(u.undoStack) - 1]) ELSE u)

(* Mutant: the entry that the session marks goes too. *)
DisposedThrough(u, oldPos, removedPos) ==
  Freed([u EXCEPT !.oldValues = FirstN(@, oldPos - 1),
                  !.removedValues = FirstN(@, removedPos - 1)])

(* dispose: erase_after keeps the entry it starts from. *)
Disposed(u, oldPos, removedPos) ==
  Freed([u EXCEPT !.oldValues = FirstN(@, IF oldPos > Len(@) THEN Len(@) ELSE oldPos),
                  !.removedValues = FirstN(@, IF removedPos > Len(@) THEN Len(@)
                                              ELSE removedPos)])

Committed(u, revision) ==
  LET newer == u.revision - revision
      iter == Len(u.undoStack) - newer + 1
      oldest == u.undoStack[iter]
  IN CASE newer <= 0 -> [DisposeUndo(u) EXCEPT !.undoStack = <<>>]
       [] newer > 0 /\ newer < Len(u.undoStack) ->
            [Disposed(u, OldPos(u, oldest.oldEnd), RemovedPos(u, oldest.removedEnd))
               EXCEPT !.undoStack = FromN(@, iter)]
       [] newer > 0 /\ newer >= Len(u.undoStack) -> u
-----------------------------------------------------------------------------
(* A violated uniqueness check aborts the wasm: those calls are no steps.  *)

emplace(key, val) ==
  /\ index.nextId < MaxId
  /\ KeyFree(index, key, index.nextId)
  /\ index' = Emplaced(index, key, val)

modify(id, key, val) ==
  /\ KeyFree(index, key, id)
  /\ index' = Modified(index, id, key, val)

remove(id) == index' = Removed(index, id)

start_undo_session ==
  /\ index.monotonic < bound.sessions
  /\ index' = SessionAdded(index)

undo == index' = Undone(index)

squash == index' = Squashed(index)

commit(revision) == index' = Committed(index, revision)

set_revision(revision) ==
  /\ index.undoStack = <<>>
  /\ revision >= index.revision
  /\ index' = [index EXCEPT !.revision = revision]

(* last_undo_session compresses the newest session to report it. *)
last_undo_session ==
  /\ index.undoStack # <<>>
  /\ index' = Compressed(index, Last(index.undoStack))

Call ==
  \/ \E key \in bound.keys, val \in Val :
        \/ emplace(key, val)
        \/ \E id \in index.rows : modify(id, key, val)
  \/ \E id \in index.rows : remove(id)
  \/ start_undo_session
  \/ undo
  \/ squash
  \/ \E revision \in 0..index.revision : commit(revision)
  \/ \E revision \in 0..bound.revision : set_revision(revision)
  \/ last_undo_session

Next == Call /\ UNCHANGED bound

Spec == Init /\ [][Next]_vars
-----------------------------------------------------------------------------
(* What a user can tell of the index: the table and the next id, now and   *)
(* as undoing each session would leave them.                               *)
Table(nodes, ids, next) ==
  [rows |-> [i \in ids |-> [key |-> nodes[i].key, val |-> nodes[i].val]], next |-> next]

View(u) ==
  [table |-> Table(u.node, u.rows, u.nextId),
   undo |-> [k \in DOMAIN u.undoStack |->
               LET session == u.undoStack[k]
               IN  Table(NodesBefore(u, session), RowsBefore(u, session), session.oldNextId)],
   revision |-> u.revision]

(* The lists and marks add up to full copies of the table per session:     *)
(* create, modify, remove, squash, commit and compression in any order     *)
(* leave each open session able to restore exactly its rows and ids.       *)
Promise == INSTANCE UndoDb WITH db <- View(index)
ImplementsUndoDb == Promise!Spec

\* Marks point to entries that exist, and undo writes to nodes that do.
NoDanglingUndo ==
  \A k \in DOMAIN index.undoStack :
    LET session == index.undoStack[k] IN
    /\ session.oldEnd = NULL \/ \E i \in DOMAIN index.oldValues :
                                   index.oldValues[i].at = session.oldEnd
    /\ session.removedEnd \in {NULL} \cup ToSet(index.removedValues)
    /\ \A i \in 1..OldPos(index, session.oldEnd) - 1 :
         index.oldValues[i].row.mtime < session.ctime =>
           index.oldValues[i].current \in DOMAIN index.node

(* Nodes are freed by hand: each is in the table or once in removedValues, *)
(* never in both ("A primary key exists at most once in either the main    *)
(* table or removed values") and never in neither, which would leak it.    *)
(* A session's list marks point to entries that still exist, and a copy    *)
(* that undo would write back belongs to a node that has not been freed,   *)
(* although commit and squash dispose of entries under the open sessions.  *)
NodesAccountedFor ==
  /\ index.rows \cup ToSet(index.removedValues) = DOMAIN index.node
  /\ index.rows \cap ToSet(index.removedValues) = {}
  /\ IsInjective(index.removedValues)
  /\ NoDanglingUndo
=============================================================================
