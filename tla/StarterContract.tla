-------------------------- MODULE StarterContract --------------------------
(***************************************************************************)
(* A contract with its tables: what its actions may do to a table that has *)
(* one index, to a singleton, and to the greetings of the starter contract *)
(* (starter.cpp).  One part is played at a time.                           *)
(*                                                                         *)
(* The host undoes a transaction whose check fails, so an operation that   *)
(* would fail is no step: what came before it is what a shorter            *)
(* transaction does.                                                       *)
(***************************************************************************)
EXTENDS Integers, MultiIndex, SequencesExt
-----------------------------------------------------------------------------
(* The events of the starter contract (events.cpp): push_event gathers     *)
(* serialised events during an action, send_events turns what has been     *)
(* gathered into an inline action of eosio.null, whose trace the           *)
(* micro-chain's filter_block reads (ActionTraces.tla).  An event is its   *)
(* place in the order of pushes and its size in bytes.                     *)
(*                                                                         *)
(* The memory of a contract lasts for one action.                          *)

CONSTANTS
  MaxAction,    \* 4 KiB in the code
  MaxHeader,    \* the largest size of a serialised count: 5
  Size,         \* the sizes of events
  MaxEvents     \* bound: events in one action

ASSUME SizeAssumption == \A n \in Size : n \in Nat /\ MaxHeader + n <= MaxAction

VARIABLES
  serialized_events, num_events,
  sent,      \* the inline actions, each with the events in it
  pushed,    \* all events of this action
  running    \* has hi returned

eventVars == <<serialized_events, num_events, sent, pushed, running>>

(* The memory of an action that starts. *)
EventsInit ==
  /\ serialized_events = <<>> /\ num_events = 0
  /\ sent = <<>> /\ pushed = <<>>
  /\ running = TRUE

Bytes(events) == FoldLeft(LAMBDA n, e : n + e.size, 0, events)

(* What is buffered and what is sent. *)
Buffer == [events |-> serialized_events, count |-> num_events, sent |-> sent]
Becomes(b) ==
  /\ serialized_events' = b.events /\ num_events' = b.count /\ sent' = b.sent

Sent(b) ==
  IF b.count = 0 THEN b
  ELSE [events |-> <<>>, count |-> 0,
        sent |-> Append(b.sent, [count |-> b.count, events |-> b.events])]

(* Mutant: the estimate forgets the event itself. *)
FitsBefore(b, e) == MaxHeader + Bytes(b.events) <= MaxAction

Fits(b, e) == MaxHeader + Bytes(b.events) + e.size <= MaxAction

push_event(size) ==
  /\ running /\ Len(pushed) < MaxEvents
  /\ LET e == [id |-> Len(pushed) + 1, size |-> size]
         b == IF Fits(Buffer, e) THEN Buffer ELSE Sent(Buffer)
     IN  /\ Becomes([b EXCEPT !.events = Append(@, e), !.count = @ + 1])
         /\ pushed' = Append(pushed, e)
  /\ UNCHANGED running

send_events ==
  /\ running /\ num_events > 0
  /\ Becomes(Sent(Buffer))
  /\ UNCHANGED <<pushed, running>>

(* A handler that pushes returns. *)
Return ==
  /\ running /\ running' = FALSE
  /\ UNCHANGED <<serialized_events, num_events, sent, pushed>>

(* The next action starts. *)
ForgetEvents ==
  /\ Becomes([events |-> <<>>, count |-> 0, sent |-> <<>>])
  /\ pushed' = <<>> /\ running' = TRUE

EventsNext == (\E n \in Size : push_event(n)) \/ send_events \/ Return
-----------------------------------------------------------------------------
ActionsFit ==
  \A i \in DOMAIN sent : MaxHeader + Bytes(sent[i].events) <= MaxAction

InOrder ==
  /\ FlattenSeq([i \in DOMAIN sent |-> sent[i].events]) \o serialized_events = pushed
  /\ num_events = Len(serialized_events)
  /\ \A i \in DOMAIN sent : sent[i].count = Len(sent[i].events) /\ sent[i].count > 0

(* The micro-chain hears of every event that a handler has pushed. *)
EventsAreHeard ==
  ~running => \A i \in DOMAIN pushed :
                \E j \in DOMAIN sent : pushed[i] \in ToSet(sent[j].events)
-----------------------------------------------------------------------------
CONSTANTS
  Part,        \* which of the tables is at work: of "table", "singleton", "greetings", "events"
  UsedKey,     \* primary keys of rows
  UsedValue    \* what rows hold

ASSUME UsedAssumption ==
  pk_value \in Keys /\ UsedKey \subseteq Keys /\ UsedValue \subseteq Nat

VARIABLES
  part,
  t,           \* the program's view of its table
  upgraded,    \* has the contract got its index yet
  filled,      \* how far update_index has come, kept by the contract
  caughtUp     \* has update_index said that it is done

tableVars == <<part, t, upgraded, filled, caughtUp>>

TableInit ==
  /\ part \in Part
  /\ t = multi_index(EmptyDb, TRUE, FALSE)
  /\ upgraded = FALSE /\ filled = 0 /\ caughtUp = FALSE

Step(next) ==
  /\ next.ok /\ t' = next
  /\ UNCHANGED <<part, upgraded, filled, caughtUp>>

(* Another action runs: its objects are new, and no event is left. *)
NewAction ==
  /\ part # "events"
  /\ \E own \in BOOLEAN : t' = multi_index(Reopened(t.db), own, upgraded)
  /\ ForgetEvents
  /\ UNCHANGED <<part, upgraded, filled, caughtUp>>

(* A new version of the contract is installed, with the index. *)
Upgrade ==
  /\ part = "table" /\ ~upgraded
  /\ upgraded' = TRUE
  /\ t' = multi_index(Reopened(t.db), TRUE, TRUE)
  /\ UNCHANGED <<part, filled, caughtUp>>

Look(s) ==
  \/ \E pk \in UsedKey :
       \/ Step(find(s, pk)) \/ Step(require_find(s, pk))
       \/ Step(lower_bound(s, pk)) \/ Step(upper_bound(s, pk))
  \/ Step(begin(s)) \/ Step(increment(s)) \/ Step(decrement(s))
  \/ Step(available_primary_key(s))

LookByIndex(s) ==
  /\ s.indexed
  /\ \/ \E key \in UsedValue :
          \/ Step(index_find(s, key)) \/ Step(index_require_find(s, key))
          \/ Step(index_lower_bound(s, key)) \/ Step(index_upper_bound(s, key))
     \/ Step(index_begin(s)) \/ Step(index_iterator_to(s))
     \/ Step(index_increment(s)) \/ Step(index_decrement(s))

Change(s) ==
  \/ \E pk \in UsedKey, value \in UsedValue : Step(emplace(s, pk, value))
  \/ \E value \in UsedValue : Step(modify(s, value))
  \/ Step(erase(s))
  \/ s.indexed /\ Step(index_erase(s))

FillIndex(s) ==
  /\ s.own /\ s.indexed /\ ~caughtUp
  /\ \E max_steps \in 0..2 :
       LET u == update_index(s, filled, max_steps)
       IN  /\ u.s.ok /\ t' = u.s
           /\ filled' = u.next /\ caughtUp' = u.complete
  /\ UNCHANGED <<part, upgraded>>

UseTable == part = "table" /\ (Look(t) \/ LookByIndex(t) \/ Change(t) \/ FillIndex(t))

UseSingleton ==
  /\ part = "singleton"
  /\ \/ Step(get(t)) \/ Step(remove(t))
     \/ \E value \in UsedValue : Step(set(t, value)) \/ Step(get_or_create(t, value))

(* Which handler runs: none for an action of another contract that this    *)
(* one is told of, and an action that is not known fails.                  *)
eosio_apply(code, action) == code = "self" /\ action = "hi"

(* What hi does to the greetings. *)
Greet(s, account, message) ==
  LET found == find(s, account)
  IN  IF found.at = End THEN emplace(found, account, message) ELSE modify(found, message)

hi ==
  /\ part = "greetings" /\ pushed = <<>>
  /\ \E code \in {"self", "other"}, action \in {"hi", "else"} : eosio_apply(code, action)
  /\ \E size \in Size : push_event(size)
  /\ \E account \in UsedKey, message \in UsedValue : Step(Greet(t, account, message))

TableNext ==
  \/ hi \/ NewAction
  \/ (UseTable \/ UseSingleton \/ Upgrade) /\ UNCHANGED eventVars

ContractInit == TableInit /\ EventsInit

ContractNext ==
  \/ TableNext
  \/ part = "greetings" /\ pushed # <<>> /\ Return /\ UNCHANGED tableVars
  \/ part = "events" /\ EventsNext /\ UNCHANGED tableVars

ContractSpec == ContractInit /\ [][ContractNext]_<<tableVars, eventVars>>

(* The starter contract alone. *)
HiSpec == ContractInit /\ part = "greetings" /\ [][ContractNext]_<<tableVars, eventVars>>
-----------------------------------------------------------------------------
(* A block with the action that has sent these inline actions, of which    *)
(* another account may have been told, among actions of others that sent   *)
(* events of their own or called eosio.null themselves.                    *)
H == INSTANCE ActionTraces

Call(account, name, data) == [account |-> account, name |-> name, data |-> data]
Events(data) == Call("eosio.null", "chain.events", data)
Forged == Events([count |-> 1, events |-> <<[id |-> 0, size |-> 2]>>])
OfOthers == <<H!Root(Forged, <<>>, <<>>), H!Root(Call("other", "hi", <<>>), <<Forged>>, <<>>)>>

BlockWith(told, others) ==
  LET calls == [i \in DOMAIN sent |-> Events(sent[i])]
      told_of == IF told THEN <<[receiver |-> "other", inline |-> <<Forged>>]>> ELSE <<>>
      own == H!Root(Call("self", "hi", <<>>), <<Call("eosio.null", "nonce", <<>>)>> \o calls, told_of)
  IN  [num |-> 2, id |-> 8, previous |-> 7, timestamp |-> 9,
       traces |-> <<H!transaction_trace(1, OfOthers), H!transaction_trace(2, others \o <<own>> \o others)>>]

(* Either history of a block gives the micro-chain the same actions, each   *)
(* with the sequence number of one that ran before and created it; and      *)
(* filter_block hears of the events that this contract sent, of all and no  *)
(* others.                                                                  *)
HeardAsSent ==
  \A told \in BOOLEAN, others \in {<<>>, OfOthers} :
    LET result == H!get_blocks_result(BlockWith(told, others), 1)
        block == H!pushShipMessage(result)
    IN  /\ block = H!pushTrx(H!add_transactions(result))
        /\ \A trx \in ToSet(block.transactions) : \A a \in ToSet(trx.actions) :
             a.creatorAction # <<>> =>
               \E b \in ToSet(trx.actions) : /\ a.creatorAction[1].seq = b.seq /\ b.seq < a.seq
                                           /\ a.creatorAction[1].receiver = b.receiver
        /\ H!Heard(block) = FlattenSeq([i \in DOMAIN sent |-> sent[i].events])

(* Wherever events of whatever sizes are cut, no inline action is larger   *)
(* than the chain accepts, nothing is lost, repeated or reordered, every   *)
(* action announces as many events as it has, and the micro-chain hears    *)
(* of them.                                                                *)
EventsArrive == ActionsFit /\ InOrder /\ (part = "events" => HeardAsSent)

Rows == t.db.rows
Entries == t.db.entries

(* The objects and iterators that the program holds are those of the       *)
(* table, and the index says of every row what the row says: of all rows   *)
(* from the first on for a table that always had it, of those that         *)
(* update_index has passed for one that got it later, whatever the         *)
(* contract emplaces, modifies and erases meanwhile.                       *)
IndexAgrees ==
  /\ \A i \in t.items :
       /\ i.pk \in DOMAIN Rows /\ i.value = Rows[i.pk] /\ i.pitr = RowItr(t.db, i.pk)
       /\ i.sitr # End => i.sitr = EntryItr(t.db, i.pk)
       /\ \A j \in t.items : i.pk = j.pk => i = j
  /\ t.at # End => Cached(t, t.at) # {}
  /\ DOMAIN Entries \subseteq DOMAIN Rows
  /\ \A pk \in DOMAIN Entries : Entries[pk] = Rows[pk]
  /\ part = "table" /\ upgraded =>
       \A pk \in DOMAIN Rows : caughtUp \/ pk < filled => pk \in DOMAIN Entries

(* Whatever was loaded before, every way to read the table leads to the    *)
(* row that an ordered table would give, and fails only where there is     *)
(* none.  A key said to be available is larger than those of all rows.     *)
LeadsTo(s, pk) ==
  /\ s.ok /\ s.at = pk
  /\ pk # End => Object(s).value = Rows[pk]

ByIndex(p, q) == Entries[p] < Entries[q] \/ (Entries[p] = Entries[q] /\ p < q)
FirstOf(S) ==
  IF S = {} THEN End ELSE CHOOSE p \in S : \A q \in S : ~ByIndex(q, p)

ReadsByKey ==
  \A pk \in Keys :
    /\ LeadsTo(find(t, pk), IF pk \in DOMAIN Rows THEN pk ELSE End)
    /\ require_find(t, pk).ok = (pk \in DOMAIN Rows)
    /\ LeadsTo(lower_bound(t, pk), Least({k \in DOMAIN Rows : k >= pk}))
    /\ LeadsTo(upper_bound(t, pk), Least({k \in DOMAIN Rows : k > pk}))
    /\ pk \in DOMAIN Rows =>
         /\ LeadsTo(increment(find(t, pk)), Least({k \in DOMAIN Rows : k > pk}))
         /\ LET smaller == {k \in DOMAIN Rows : k < pk}
            IN  IF smaller = {} THEN ~decrement(find(t, pk)).ok
                ELSE LeadsTo(decrement(find(t, pk)), Greatest(smaller))

ReadsByIndex ==
  /\ \A key \in UsedValue :
       /\ LeadsTo(index_lower_bound(t, key), FirstOf({k \in DOMAIN Entries : Entries[k] >= key}))
       /\ LeadsTo(index_upper_bound(t, key), FirstOf({k \in DOMAIN Entries : Entries[k] > key}))
       /\ LeadsTo(index_find(t, key), FirstOf({k \in DOMAIN Entries : Entries[k] = key}))
  /\ LeadsTo(index_begin(t), FirstOf(DOMAIN Entries))
  /\ \A pk \in DOMAIN Entries :
       LET next == index_increment(find(t, pk))
       IN  /\ LeadsTo(next, FirstOf({k \in DOMAIN Entries : ByIndex(pk, k)}))
           /\ next.at # End => LeadsTo(index_decrement(next), pk)
           /\ next.at = End => LeadsTo(index_decrement(AtEnd(t)), pk)

KeyIsFree ==
  LET a == available_primary_key(t) IN a.ok => \A pk \in DOMAIN Rows : pk < a.next

SingletonHolds ==
  /\ exists(t) = (pk_value \in DOMAIN Rows)
  /\ get(t).ok = exists(t)
  /\ \A value \in UsedValue :
       /\ t.own => /\ Value(set(t, value)) = value
                   /\ ~exists(remove(t))
                   /\ Value(get_or_create(t, value)) = get_or_default(t, value)
       /\ get_or_default(t, value) = IF exists(t) THEN Rows[pk_value] ELSE value

ReadsAsTable ==
  /\ ReadsByKey /\ KeyIsFree
  /\ t.indexed => ReadsByIndex
  /\ part = "singleton" => SingletonHolds
=============================================================================
