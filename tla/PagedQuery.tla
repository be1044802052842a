----------------------------- MODULE PagedQuery -----------------------------
(***************************************************************************)
(* usePagedQuery (ReactSubchain.tsx): a reader pages through a table that  *)
(* changes under the pages.  What is on the screen was queried earlier,    *)
(* and a button takes its cursor from there; the query then sees the table *)
(* as it has become.                                                       *)
(***************************************************************************)
EXTENDS Integers, SequencesExt
-----------------------------------------------------------------------------
(* clchain::make_connection (graphql_connection.hpp): one page of a sorted *)
(* container without duplicate keys.  Up to four bounds cut a range out of *)
(* it, two cursors cut a window out of the range, and two counts choose    *)
(* the edges of the page from an end of the window.                        *)
(*                                                                         *)
(* A container is a sequence and an iterator an index into it, with        *)
(* Len(container) + 1 for end(): compare_it then is the order of indices.  *)
(* An edge is its node's key, and a cursor a key as well: the hexadecimal  *)
(* form is a bijection.  The empty cursor counts as none.                  *)

CONSTANT Null    \* std::nullopt; the empty cursor

(* A container in the order of its keys, which are without duplicates. *)
Ascending(keys) == \A i, j \in DOMAIN keys : i < j => keys[i] < keys[j]

(* The bounds of a std::multimap, of a chainbase index and of their like. *)
LowerBound(keys, k) == 1 + Cardinality({i \in DOMAIN keys : keys[i] < k})

(* Mutant: one too many. *)
UpperBoundPast(keys, k) == 2 + Cardinality({i \in DOMAIN keys : keys[i] <= k})

UpperBound(keys, k) == 1 + Cardinality({i \in DOMAIN keys : keys[i] <= k})

Larger(a, b) == IF a < b THEN b ELSE a
Smaller(a, b) == IF b < a THEN b ELSE a
Clamp(i, low, high) == Smaller(Larger(i, low), high)

(* A container as make_connection sees it: the keys of its nodes, and the  *)
(* bounds of every key.                                                    *)
Table(keys, Key) ==
  [keys |-> keys, lower |-> [k \in Key |-> LowerBound(keys, k)],
                  upper |-> [k \in Key |-> UpperBound(keys, k)]]

Begin == 1
End(c) == Len(c.keys) + 1

(* An absent argument changes nothing. *)
Lower(c, k, else) == IF k = Null THEN else ELSE c.lower[k]
Upper(c, k, else) == IF k = Null THEN else ELSE c.upper[k]

RangeOf(args, c) ==
  LET begin == Larger(Lower(c, args.ge, Begin), Upper(c, args.gt, Begin))
      end == Smaller(Upper(c, args.le, End(c)), Lower(c, args.lt, End(c)))
  IN  [begin |-> begin, end |-> Larger(begin, end)]

(* Mutant: the page next to a cursor begins with the cursor's own node. *)
WindowFrom(args, c, range) ==
  LET it == Clamp(Lower(c, args.after, range.begin), range.begin, range.end)
      end == Clamp(Upper(c, args.before, range.end), range.begin, range.end)
  IN  [begin |-> it, end |-> Larger(it, end)]

Window(args, c, range) ==
  LET it == Clamp(Upper(c, args.after, range.begin), range.begin, range.end)
      end == Clamp(Lower(c, args.before, range.end), range.begin, range.end)
  IN  [begin |-> it, end |-> Larger(it, end)]

(* last alone: from the end of the window backwards. *)
Backward(range, window, last) ==
  LET begin == Larger(window.begin, window.end - last) IN
  [begin |-> begin, end |-> window.end,
   hasPreviousPage |-> begin # range.begin, hasNextPage |-> window.end # range.end]

FirstEnd(window, first) ==
  IF first = Null THEN window.end ELSE Smaller(window.begin + first, window.end)
LastBegin(window, end, last) ==
  IF last = Null THEN window.begin ELSE Larger(window.begin, end - last)

(* Mutant: what last drops does not count as a previous page. *)
ForwardDropping(range, window, first, last) ==
  LET end == FirstEnd(window, first)
      begin == LastBegin(window, end, last)
  IN  [begin |-> begin, end |-> end,
       hasPreviousPage |-> window.begin # range.begin, hasNextPage |-> end # range.end]

(* Otherwise: first nodes forward, of which last keeps the last ones. *)
Forward(range, window, first, last) ==
  LET end == FirstEnd(window, first)
      begin == LastBegin(window, end, last)
  IN  [begin |-> begin, end |-> end,
       hasPreviousPage |-> window.begin # range.begin \/ begin # window.begin,
       hasNextPage |-> end # range.end]

Page(edges, hasPreviousPage, hasNextPage) ==
  [edges |-> edges,
   hasPreviousPage |-> hasPreviousPage, hasNextPage |-> hasNextPage,
   startCursor |-> IF edges = <<>> THEN Null ELSE Head(edges),
   endCursor |-> IF edges = <<>> THEN Null ELSE Last(edges)]

MakeConnection(args, c) ==
  LET range == RangeOf(args, c)
      window == Window(args, c, range)
      chosen == IF args.last # Null /\ args.first = Null
                THEN Backward(range, window, args.last)
                ELSE Forward(range, window, args.first, args.last)
  IN  Page(SubSeq(c.keys, chosen.begin, chosen.end - 1),
           chosen.hasPreviousPage, chosen.hasNextPage)
-----------------------------------------------------------------------------
CONSTANTS
  Key,
  PageSizes,
  MaxChanges    \* bound: changes of the table

(* Keys are numbers (uint32_t), a page has room, and an absent argument is *)
(* neither a key nor a count.                                              *)
ASSUME KeyAssumption == Key \subseteq Int /\ IsFiniteSet(Key)
ASSUME PageSizesAssumption == PageSizes \subseteq Nat \ {0}
ASSUME NullAssumption == Null \notin Key /\ Null \notin Nat

VARIABLES
  pageSize,     \* chosen once for each hook
  table,        \* the keys of the table, sorted
  args, page,   \* the arguments in the query; the page on the screen
  changes,
  seen, steady  \* since first: the keys shown, the keys that were never gone

vars == <<pageSize, table, args, page, changes, seen, steady>>

Everything == [gt |-> Null, ge |-> Null, lt |-> Null, le |-> Null, first |-> Null,
               last |-> Null, before |-> Null, after |-> Null]
Query(a, keys) == MakeConnection(a, Table(keys, Key))

Tables(keys) == {s \in SeqOf(keys, Cardinality(keys)) : Ascending(s)}

Init ==
  /\ pageSize \in PageSizes
  /\ table \in Tables(Key)
  /\ args = [Everything EXCEPT !.first = pageSize]
  /\ page = Query(args, table)
  /\ changes = 0
  /\ seen = ToSet(page.edges) /\ steady = ToSet(table)

(* A row comes or goes. *)
Change ==
  /\ changes < MaxChanges /\ changes' = changes + 1
  /\ \E k \in Key :
       /\ table' = IF k \in ToSet(table) THEN RemoveAt(table, LowerBound(table, k))
                   ELSE InsertAt(table, LowerBound(table, k), k)
       /\ steady' = steady \ {k}
  /\ UNCHANGED <<pageSize, args, page, seen>>

Rendered(a) ==
  /\ args' = a
  /\ page' = Query(a, table)
  /\ UNCHANGED <<pageSize, table, changes>>

(* useQuery repeats the query after an update. *)
Refresh ==
  /\ page # Query(args, table)
  /\ Rendered(args)
  /\ seen' = seen \cup ToSet(page'.edges)
  /\ UNCHANGED steady

(* The buttons; next and previous are disabled where the page says so. *)
next ==
  /\ page.hasNextPage
  /\ Rendered([Everything EXCEPT !.first = pageSize, !.after = page.endCursor])
  /\ seen' = seen \cup ToSet(page'.edges)
  /\ UNCHANGED steady

previous ==
  /\ page.hasPreviousPage
  /\ Rendered([Everything EXCEPT !.last = pageSize, !.before = page.startCursor])
  /\ seen' = seen \cup ToSet(page'.edges)
  /\ UNCHANGED steady

first ==
  /\ Rendered([Everything EXCEPT !.first = pageSize])
  /\ seen' = ToSet(page'.edges)
  /\ steady' = ToSet(table)

(* A jump: what lies before the page has not been shown. *)
last ==
  /\ Rendered([Everything EXCEPT !.last = pageSize])
  /\ seen' = ToSet(page'.edges)
  /\ steady' = {}

Next == Change \/ Refresh \/ next \/ previous \/ first \/ last

Spec == Init /\ [][Next]_vars
-----------------------------------------------------------------------------
(* Going forward or back never skips or repeats: the new page begins with  *)
(* the key next to the old page, whatever became of the table since the    *)
(* old page was rendered; from a page that has lost all of its rows, with  *)
(* the first or the last key of the table.                                 *)
Behind(k) == page.edges # <<>> => k > page.endCursor
Before(k) == page.edges # <<>> => k < page.startCursor
AdjacentForward ==
  \E i \in 1..Len(table) + 1, n \in 0..Len(table) :
    /\ \A m \in DOMAIN table : m >= i <=> Behind(table[m])
    /\ page'.edges = SubSeq(table, i, n)
AdjacentBackward ==
  \E i \in 0..Len(table), n \in 1..Len(table) + 1 :
    /\ \A m \in DOMAIN table : m <= i <=> Before(table[m])
    /\ page'.edges = SubSeq(table, n, i)
PagesAreAdjacent ==
  [][(next => AdjacentForward) /\ (previous => AdjacentBackward)]_vars

(* A reader who starts at first and uses next and previous misses nothing  *)
(* that was there all the time, although the cursors name rows that may be *)
(* gone and pages shift as rows come and go.                               *)
NothingMissed ==
  \A k \in steady : page.edges # <<>> /\ k <= page.endCursor => k \in seen
=============================================================================
