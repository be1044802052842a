---------------------------- MODULE MCPagedQuery ----------------------------
(* Either a reader who pages through a table, or one query with any        *)
(* arguments at all, of a table or of the block log.                       *)
EXTENDS PagedQuery

CONSTANTS
  MaxKey,      \* bound: the keys of a table that is paged through
  AnyMaxKey    \* bound: the keys when all combinations of arguments are tried

VARIABLES
  kind,       \* "paged", "table" or "log"
  answered    \* is there an answer to the one query
mcVars == <<vars, kind, answered>>

MCKey == 1..MaxKey
AnyKey == 1..AnyMaxKey
MCPageSizes == {1, 2}

(* The tables that are asked once are among those that are paged through.  *)
ASSUME AnyKeyAssumption == AnyMaxKey \in Nat /\ AnyKey \subseteq Key

NoHash(n, p, e) == 0
Log == INSTANCE BlockLog WITH
  MaxUInt <- AnyMaxKey, EosioBlock <- {}, Block <- {}, NoId <- 0, Hash <- NoHash
Numbered(from, to) == [i \in 1..to + 1 - from |-> [num |-> from + i - 1]]
LogView(blocks) ==
  [keys |-> [i \in DOMAIN blocks |-> blocks[i].num],
   lower |-> [k \in AnyKey |-> Log!LowerBoundByNum(blocks, k)],
   upper |-> [k \in AnyKey |-> Log!UpperBoundByNum(blocks, k)]]

Arguments ==
  [gt : AnyKey \cup {Null}, ge : AnyKey \cup {Null}, lt : AnyKey \cup {Null},
   le : AnyKey \cup {Null}, first : {Null, 0, 1, 2}, last : {Null, 0, 1, 2},
   before : (AnyKey \ {1}) \cup {Null}, after : (AnyKey \ {AnyMaxKey}) \cup {Null}]

Asked ==
  /\ args \in Arguments
  /\ \/ kind = "table" /\ table \in Tables(AnyKey)
     \/ /\ kind = "log"
        /\ \E from, to \in AnyKey : table = Numbered(from, to)
  /\ page = Page(<<>>, FALSE, FALSE) /\ answered = FALSE
  /\ pageSize = 0 /\ changes = 0 /\ seen = {} /\ steady = {}

greetings == kind = "table" /\ page' = Query(args, table)

blocks ==
  /\ kind = "log"
  /\ page' = MakeConnection(args, LogView(table))

Answered ==
  /\ ~answered /\ answered' = TRUE
  /\ greetings \/ blocks
  /\ UNCHANGED <<pageSize, table, args, changes, seen, steady, kind>>

MCInit == (kind = "paged" /\ answered = TRUE /\ Init) \/ Asked
MCNext == (kind = "paged" /\ Next /\ UNCHANGED <<kind, answered>>) \/ Answered
MCSpec == MCInit /\ [][MCNext]_mcVars
-----------------------------------------------------------------------------
AllKeys == IF kind = "log" THEN [i \in DOMAIN table |-> table[i].num] ELSE table
InRange(a, k) == /\ a.gt # Null => k > a.gt
                 /\ a.ge # Null => k >= a.ge
                 /\ a.lt # Null => k < a.lt
                 /\ a.le # Null => k <= a.le
InWindow(a, k) == /\ InRange(a, k)
                  /\ a.after # Null => k > a.after
                  /\ a.before # Null => k < a.before
FirstOf(s, n) == IF n = Null THEN s ELSE SubSeq(s, 1, Smaller(n, Len(s)))
LastOf(s, n) == IF n = Null THEN s ELSE SubSeq(s, Larger(1, Len(s) + 1 - n), Len(s))

AsDefined(p, a, keys) ==
  \E i \in 1..Len(keys) + 1, j \in 0..Len(keys) :
    /\ \A m \in DOMAIN keys : m \in i..j <=> InWindow(a, keys[m])
    /\ p.edges = LastOf(FirstOf(SubSeq(keys, i, j), a.first), a.last)
    /\ p.edges # <<>> =>
         /\ p.hasPreviousPage <=>
              \E m \in DOMAIN keys : InRange(a, keys[m]) /\ keys[m] < p.startCursor
         /\ p.hasNextPage <=>
              \E m \in DOMAIN keys : InRange(a, keys[m]) /\ keys[m] > p.endCursor

Fresh == kind # "paged" /\ answered

(* The edges are the last `last` of the first `first` of the keys between  *)
(* the bounds and the cursors, however many arguments there are, in        *)
(* whatever order they cut, and wherever they lie; and a page says that    *)
(* there is a page before or behind it exactly when the range has a key    *)
(* before its first or behind its last edge (make_connection): cursors     *)
(* move within the range and never narrow it.                              *)
PageAsDefined == Fresh => AsDefined(page, args, AllKeys)
=============================================================================
