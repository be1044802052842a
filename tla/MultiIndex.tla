----------------------------- MODULE MultiIndex -----------------------------
(***************************************************************************)
(* multi_index.hpp: the table a contract sees through a multi_index with   *)
(* one secondary index, over the database of the host.  An operation takes *)
(* the state of the program and gives the next one:                        *)
(*   db       the database                                                 *)
(*   items    _items_vector: the objects loaded so far, with the iterators *)
(*            of their row and of their index entry (End: not looked up)   *)
(*   next     _next_primary_key                                            *)
(*   own      is the table one of the running contract                     *)
(*   indexed  has the table this index (an older contract had none)        *)
(*   at       the object that the iterator in the program's hand is at     *)
(*   ok       FALSE: a check failed, and the host undoes the transaction   *)
(*                                                                         *)
(* A row is its primary key and one value, which is also its secondary     *)
(* key.                                                                    *)
(***************************************************************************)
EXTENDS Integers, SequencesExt, FiniteSetsExt, Functions
-----------------------------------------------------------------------------
(* External: the database that nodeos gives to a contract, as              *)
(* multi_index.hpp uses it.  One table and one index of it:                *)
(*   db.rows     the rows, by primary key                                  *)
(*   db.entries  the entries of the index: primary key to secondary key    *)
(*   db.gen, db.igen  tell a row or entry that was removed from one that   *)
(*       was stored again under its key: an iterator names the former only *)
(*                                                                         *)
(* An iterator is a number; a negative one is no row.  Iterators live as   *)
(* long as an action.                                                      *)

CONSTANT MaxKey        \* the largest 64-bit number

ASSUME KeyAssumption == MaxKey \in Nat /\ MaxKey > 1

Keys == 0..MaxKey
End == -1

EmptyDb ==
  [rows |-> << >>, entries |-> << >>,
   gen |-> [k \in Keys |-> 0], igen |-> [k \in Keys |-> 0]]

(* What an action that starts finds. *)
Reopened(db) == [EmptyDb EXCEPT !.rows = db.rows, !.entries = db.entries]

Primary(itr) == itr \div 2

RowItr(db, pk) == IF pk \in DOMAIN db.rows THEN 2 * pk + db.gen[pk] ELSE End
EntryItr(db, pk) == IF pk \in DOMAIN db.entries THEN 2 * pk + db.igen[pk] ELSE End

IsRow(db, itr) == itr >= 0 /\ itr = RowItr(db, Primary(itr))
IsEntry(db, itr) == itr >= 0 /\ itr = EntryItr(db, Primary(itr))

(* A key is stored once. *)
CanStore(db, pk) == pk \notin DOMAIN db.rows
CanIndex(db, pk) == pk \notin DOMAIN db.entries

Stored(f, pk, value) == [k \in DOMAIN f \cup {pk} |-> IF k = pk THEN value ELSE f[k]]

db_store(db, pk, value) == [db EXCEPT !.rows = Stored(@, pk, value)]
db_update(db, itr, value) == [db EXCEPT !.rows[Primary(itr)] = value]
db_remove(db, itr) ==
  [db EXCEPT !.rows = Restrict(@, DOMAIN @ \ {Primary(itr)}), !.gen[Primary(itr)] = 1 - @]

db_idx_store(db, pk, key) == [db EXCEPT !.entries = Stored(@, pk, key)]
db_idx_update(db, itr, key) == [db EXCEPT !.entries[Primary(itr)] = key]
db_idx_remove(db, itr) ==
  [db EXCEPT !.entries = Restrict(@, DOMAIN @ \ {Primary(itr)}), !.igen[Primary(itr)] = 1 - @]

Least(S) == IF S = {} THEN End ELSE Min(S)
Greatest(S) == IF S = {} THEN End ELSE Max(S)

RowItrOf(db, pk) == IF pk = End THEN End ELSE RowItr(db, pk)
db_find(db, pk) == RowItr(db, pk)
db_lowerbound(db, pk) == RowItrOf(db, Least({k \in DOMAIN db.rows : k >= pk}))
db_upperbound(db, pk) == RowItrOf(db, Least({k \in DOMAIN db.rows : k > pk}))
db_next(db, itr) == db_upperbound(db, Primary(itr))
db_previous(db, itr) ==
  RowItrOf(db, Greatest({k \in DOMAIN db.rows : itr = End \/ k < Primary(itr)}))

(* The index is sorted by secondary key, and by primary key among equals. *)
Before(db, p, q) ==
  \/ db.entries[p] < db.entries[q]
  \/ db.entries[p] = db.entries[q] /\ p < q

FirstEntry(db, S) ==
  IF S = {} THEN End ELSE EntryItr(db, CHOOSE p \in S : \A q \in S \ {p} : Before(db, p, q))
LastEntry(db, S) ==
  IF S = {} THEN End ELSE EntryItr(db, CHOOSE p \in S : \A q \in S \ {p} : Before(db, q, p))

db_idx_find_primary(db, pk) == EntryItr(db, pk)
db_idx_lowerbound(db, key) == FirstEntry(db, {k \in DOMAIN db.entries : db.entries[k] >= key})
db_idx_upperbound(db, key) == FirstEntry(db, {k \in DOMAIN db.entries : db.entries[k] > key})
db_idx_next(db, itr) ==
  FirstEntry(db, {k \in DOMAIN db.entries : Before(db, Primary(itr), k)})
db_idx_previous(db, itr) ==
  LastEntry(db, {k \in DOMAIN db.entries : itr = End \/ Before(db, k, Primary(itr))})
-----------------------------------------------------------------------------
CONSTANT pk_value    \* the name of a singleton

(* The two tags of _next_primary_key. *)
no_available_primary_key == MaxKey - 1
unset_next_primary_key == MaxKey

multi_index(db, own, indexed) ==
  [db |-> db, items |-> {}, next |-> unset_next_primary_key,
   own |-> own, indexed |-> indexed, at |-> End, ok |-> TRUE]

Abort(s) == [s EXCEPT !.ok = FALSE]
AtEnd(s) == [s EXCEPT !.at = End]

Cached(s, pk) == {i \in s.items : i.pk = pk}
Item(s, pk) == CHOOSE i \in Cached(s, pk) : TRUE
Object(s) == Item(s, s.at)
Replace(s, old, new) == [s EXCEPT !.items = (@ \ {old}) \cup {new}]
WithEntry(s, itr) == Replace(s, Object(s), [Object(s) EXCEPT !.sitr = itr])

load_object_by_primary_iterator(s, itr) ==
  LET loaded == {i \in s.items : i.pitr = itr}
      pk == Primary(itr)
  IN  IF loaded # {} THEN [s EXCEPT !.at = (CHOOSE i \in loaded : TRUE).pk]
      ELSE [s EXCEPT !.at = pk,
                     !.items = @ \cup {[pk |-> pk, value |-> s.db.rows[pk],
                                        pitr |-> itr, sitr |-> End]}]

MoveTo(s, itr) == IF itr < 0 THEN AtEnd(s) ELSE load_object_by_primary_iterator(s, itr)

lower_bound(s, pk) == MoveTo(s, db_lowerbound(s.db, pk))
upper_bound(s, pk) == MoveTo(s, db_upperbound(s.db, pk))
begin(s) == lower_bound(s, 0)

find(s, pk) ==
  IF Cached(s, pk) # {} THEN [s EXCEPT !.at = pk] ELSE MoveTo(s, db_find(s.db, pk))

require_find(s, pk) == LET found == find(s, pk) IN IF found.at = End THEN Abort(s) ELSE found

increment(s) ==
  IF s.at = End \/ ~IsRow(s.db, Object(s).pitr) THEN Abort(s)
  ELSE MoveTo(s, db_next(s.db, Object(s).pitr))

decrement(s) ==
  LET itr == IF s.at = End THEN End ELSE Object(s).pitr
      prev == db_previous(s.db, itr)
  IN  IF (s.at # End /\ ~IsRow(s.db, itr)) \/ prev < 0 THEN Abort(s)
      ELSE load_object_by_primary_iterator(s, prev)

After(pk) == IF pk >= no_available_primary_key THEN no_available_primary_key ELSE pk + 1

(* Mutant: the key after the first row. *)
next_after_first(s) ==
  IF s.next # unset_next_primary_key THEN s
  ELSE [s EXCEPT !.next = IF begin(s).at = End THEN 0 ELSE After(begin(s).at)]

KnowsNext(s) ==
  IF s.next # unset_next_primary_key THEN s
  ELSE IF begin(s).at = End THEN [s EXCEPT !.next = 0]
  ELSE LET last == decrement(AtEnd(begin(s))) IN [last EXCEPT !.next = After(last.at)]

available_primary_key(s) ==
  LET n == KnowsNext(s)
  IN  IF n.next < no_available_primary_key THEN [n EXCEPT !.at = s.at] ELSE Abort(s)

Noted(s, pk) == IF pk >= s.next THEN [s EXCEPT !.next = After(pk)] ELSE s

emplace(s, pk, value) ==
  IF ~s.own \/ ~CanStore(s.db, pk) \/ (s.indexed /\ ~CanIndex(s.db, pk)) THEN Abort(s)
  ELSE LET stored == db_store(s.db, pk, value)
           both == IF s.indexed THEN db_idx_store(stored, pk, value) ELSE stored
           item == [pk |-> pk, value |-> value, pitr |-> RowItr(both, pk),
                    sitr |-> EntryItr(both, pk)]
       IN  Noted([s EXCEPT !.db = both, !.items = @ \cup {item}, !.at = pk], pk)

(* Mutant: an entry that was not looked up counts as none. *)
entry_if_known(s, item) == item.sitr

EntryOf(s, item) == IF item.sitr < 0 THEN db_idx_find_primary(s.db, item.pk) ELSE item.sitr

(* The entry of the changed object: updated, or stored if it had none. *)
Reindexed(s, item, value) ==
  LET itr == EntryOf(s, item)
      db == IF itr >= 0 THEN db_idx_update(s.db, itr, value) ELSE db_idx_store(s.db, item.pk, value)
  IN  IF (itr >= 0 /\ ~IsEntry(s.db, itr)) \/ (itr < 0 /\ ~CanIndex(s.db, item.pk)) THEN Abort(s)
      ELSE WithEntry([s EXCEPT !.db = db], EntryItr(db, item.pk))

modify(s, value) ==
  IF s.at = End \/ ~s.own \/ ~IsRow(s.db, Object(s).pitr) THEN Abort(s)
  ELSE LET item == Object(s)
           changed == [item EXCEPT !.value = value]
           updated == Noted([Replace(s, item, changed)
                               EXCEPT !.db = db_update(s.db, item.pitr, value)], item.pk)
       IN  IF s.indexed /\ item.value # value THEN Reindexed(updated, changed, value)
           ELSE updated

erase_object(s, pk) ==
  LET item == Item(s, pk)
      itr == EntryOf(s, item)
      removed == db_remove(s.db, item.pitr)
  IN  IF Cached(s, pk) = {} \/ ~s.own \/ ~IsRow(s.db, item.pitr) THEN Abort(s)
      ELSE IF s.indexed /\ itr >= 0 /\ ~IsEntry(s.db, itr) THEN Abort(s)
      ELSE [s EXCEPT !.items = @ \ {item},
                     !.db = IF s.indexed /\ itr >= 0 THEN db_idx_remove(removed, itr)
                            ELSE removed]

(* The object goes, and the iterator moves on. *)
erase(s) ==
  IF s.at = End THEN Abort(s)
  ELSE LET moved == increment(s) IN IF moved.ok THEN erase_object(moved, s.at) ELSE moved
-----------------------------------------------------------------------------
(* The iterators of the index.                                             *)

MoveToEntry(s, itr) ==
  IF itr < 0 THEN AtEnd(s) ELSE WithEntry(find(s, Primary(itr)), itr)

index_lower_bound(s, key) == MoveToEntry(s, db_idx_lowerbound(s.db, key))
index_upper_bound(s, key) == MoveToEntry(s, db_idx_upperbound(s.db, key))
index_begin(s) == MoveToEntry(s, db_idx_lowerbound(s.db, 0))

index_find(s, key) ==
  LET lb == index_lower_bound(s, key)
  IN  IF lb.at # End /\ Object(lb).value = key THEN lb ELSE AtEnd(lb)

index_require_find(s, key) ==
  IF index_find(s, key).at = End THEN Abort(s) ELSE index_find(s, key)

index_iterator_to(s) ==
  IF s.at = End THEN s ELSE WithEntry(s, EntryOf(s, Object(s)))

index_increment(s) ==
  LET known == index_iterator_to(s)
  IN  IF s.at = End \/ ~IsEntry(s.db, Object(known).sitr) THEN Abort(s)
      ELSE MoveToEntry(known, db_idx_next(s.db, Object(known).sitr))

index_decrement(s) ==
  LET known == index_iterator_to(s)
      itr == IF s.at = End THEN End ELSE Object(known).sitr
      prev == db_idx_previous(s.db, itr)
  IN  IF (s.at # End /\ ~IsEntry(s.db, itr)) \/ prev < 0 THEN Abort(s)
      ELSE MoveToEntry(known, prev)

index_erase(s) ==
  IF s.at = End THEN Abort(s)
  ELSE LET moved == index_increment(s) IN IF moved.ok THEN erase_object(moved, s.at) ELSE moved
-----------------------------------------------------------------------------
(* update_index fills in the entries of rows that an older contract stored, *)
(* a few at a time.                                                         *)

Fill(u) ==
  LET pk == u.s.at
      db == IF db_idx_find_primary(u.s.db, pk) < 0
            THEN db_idx_store(u.s.db, pk, Object(u.s).value) ELSE u.s.db
  IN  [s |-> increment([u.s EXCEPT !.db = db]), next |-> (pk + 1) % (MaxKey + 1),
       steps |-> u.steps - 1]

update_index(s, next_primary_key, max_steps) ==
  LET start == [s |-> lower_bound(s, next_primary_key), next |-> next_primary_key,
                steps |-> max_steps]
      filled == FoldLeft(LAMBDA u, i : IF u.s.at = End THEN u ELSE Fill(u),
                         start, [i \in 1..max_steps |-> i])
  IN  [s |-> [filled.s EXCEPT !.at = s.at], next |-> filled.next,
       complete |-> max_steps > 0 /\ (filled.steps > 0 \/ filled.next = 0)]

(*----------------------------- singleton.hpp ------------------------------*)

(* One value kept in a table of one row, whose primary key is the name of   *)
(* the singleton, and which has no index.                                   *)
singleton(db, own) == multi_index(db, own, FALSE)

exists(s) == find(s, pk_value).at # End

get(s) == require_find(s, pk_value)

Value(s) == Object(get(s)).value
get_or_default(s, def) == IF exists(s) THEN Value(s) ELSE def

get_or_create(s, def) ==
  LET found == find(s, pk_value)
  IN  IF found.at # End THEN found ELSE emplace(found, pk_value, def)

set(s, value) ==
  LET found == find(s, pk_value)
  IN  IF found.at # End THEN modify(found, value) ELSE emplace(found, pk_value, value)

remove(s) ==
  LET found == find(s, pk_value) IN IF found.at # End THEN erase(found) ELSE found
=============================================================================
