----------------------------- MODULE TestChain -----------------------------
(***************************************************************************)
(* What cltester keeps for a test: chains and files.  The chains are the   *)
(* objects eosio::test_chain that the test holds (tester.cpp) and, behind  *)
(* the imports of cltester (main.cpp), the chains                          *)
(* they name by index.  A test may read tables of one chain at a time: the *)
(* selected one.                                                           *)
(***************************************************************************)
EXTENDS Integers, Sequences, FiniteSets, FiniteSetsExt, SequencesExt
-----------------------------------------------------------------------------
(* The chain that cltester keeps for a test (struct test_chain of          *)
(* main.cpp): a nodeos controller, the history of the blocks it accepted,  *)
(* and the context in which a test reads its tables.                       *)
(*                                                                         *)
(* The controller is external.  The tables are abstracted to the set of    *)
(* transactions that were executed over them, and time is counted in       *)
(* quarters of a second, two to a block interval.  An exception ends the   *)
(* tester, so a call that throws is no step.                               *)

CONSTANT None    \* an empty pointer or optional

block_interval == 2
Slot(time) == time - (time % block_interval)
Delay == 2                     \* how long a deferred transaction waits
SnapshotHead == 3              \* the head of the snapshot that a chain may start from

(*-------------------------- controller (external) -------------------------*)

HeadBlock(c) == Last(c.blocks)
HeadNum(c)  == c.base + Len(c.blocks)
Building(c) == c.pending # None

ControlStart(c, when) == [c EXCEPT !.pending = [time |-> Slot(when), txs |-> <<>>]]

ControlCommit(c) ==
  [c EXCEPT !.blocks = Append(@, [time |-> c.pending.time, txs |-> c.pending.txs, rows |-> c.rows]),
            !.pending = None]

(* A transaction goes into the pending block and changes the tables, unless *)
(* it throws: then nothing of it stays.                                     *)
Execute(c, kind) ==
  IF kind = "throws" THEN [c EXCEPT !.sent = @ + 1]
  ELSE [c EXCEPT !.sent = @ + 1,
                 !.pending.txs = Append(@, c.sent),
                 !.rows = @ \union {c.sent},
                 !.deferred = IF kind = "defers" THEN Append(@, c.pending.time + Delay) ELSE @]

(* The rows a block changed, or with full every row there is. *)
Deltas(c, full) ==
  IF full THEN c.rows ELSE c.rows \ c.blocks[Len(c.blocks) - 1].rows

(*------------------------------ test_chain --------------------------------*)

(* A chain of its own starts a block at once; one from a snapshot does not. *)
test_chain(snapshot) ==
  LET c == [blocks   |-> <<[time |-> 0, txs |-> <<>>, rows |-> IF snapshot THEN {0} ELSE {}]>>,
            base     |-> IF snapshot THEN SnapshotHead - 1 ELSE 0,
            pending  |-> None,
            rows     |-> IF snapshot THEN {0} ELSE {},
            deferred |-> <<>>,
            sent     |-> 1,
            control  |-> TRUE,
            prev     |-> 0,
            history  |-> <<>>,
            ctx      |-> None]
  IN  IF snapshot THEN c ELSE ControlStart(c, c.blocks[1].time + block_interval)

on_accepted_block(c) ==
  LET num == HeadNum(c)
      message == [prev |-> c.prev, this |-> num, head |-> num,
                  traces |-> HeadBlock(c).txs, deltas |-> Deltas(c, c.prev = 0)]
  IN  [c EXCEPT !.prev = num,
                !.history = [n \in 1..num |->
                               IF n = num THEN message
                               ELSE IF n \in DOMAIN c.history THEN c.history[n] ELSE None]]

\* Mutant: the context stays open.
mutating_nothing(c) == c

(* The session of an open context is undone with it; it changed nothing. *)
mutating(c) == [c EXCEPT !.ctx = None]

start_if_needed(c) ==
  LET m == mutating(c)
  IN  IF Building(m) THEN m ELSE ControlStart(m, HeadBlock(m).time + block_interval)

(* Nothing is committed under an open context: its session would be undone *)
(* out of order.                                                           *)
finish_block(c) == on_accepted_block(ControlCommit(start_if_needed(c)))

start_block(c, skip) ==
  LET m == mutating(c)
      f == IF Building(m) THEN finish_block(m) ELSE m
  IN  ControlStart(f, HeadBlock(f).time + skip + block_interval)

(* The controller refuses a block that is not later than its predecessor. *)
MayStart(c, skip) ==
  LET head == IF Building(c) THEN c.pending.time ELSE HeadBlock(c).time
  IN  Slot(head + skip + block_interval) > head

get_apply_context(c) ==
  IF c.ctx # None THEN c
  ELSE LET s == start_if_needed(c)
       IN  [s EXCEPT !.ctx = s.rows]

push_transaction(c, kind) == Execute(start_if_needed(c), kind)

(* The deferred transaction with the earliest time, which is the oldest, if *)
(* it is due.                                                               *)
exec_deferred(c) ==
  LET s == start_if_needed(c)
  IN  IF s.deferred # <<>> /\ s.deferred[1] <= s.pending.time
      THEN Execute([s EXCEPT !.deferred = Tail(@)], "executes")
      ELSE s

shutdown(c) == [c EXCEPT !.control = FALSE]

(* The last block for 0xffffffff, or the block of that number: the history  *)
(* has None for a number without a message.                                 *)
LastBlock == -1
get_history(c, num) ==
  LET n == IF num = LastBlock THEN Len(c.history) ELSE num
  IN  IF n \in DOMAIN c.history THEN c.history[n] ELSE None

(*------------------------ subchain_tester_dfuse.hpp -----------------------*)

(* A block as transactions of the dfuse stream; a block without any becomes *)
(* an entry that carries no transaction.                                    *)
NoTrace == -1
add_transactions(result) ==
  IF result.traces = <<>> THEN <<[block |-> result.this, trace |-> NoTrace]>>
  ELSE [i \in DOMAIN result.traces |-> [block |-> result.this, trace |-> result.traces[i]]]

(* From block 2 on, up to the first one there is no history of. *)
write_history(c) ==
  LET there == {n \in 2..Len(c.history) : \A m \in 2..n : c.history[m] # None}
  IN  FlattenSeq([i \in 1..Cardinality(there) |-> add_transactions(c.history[i + 1])])
-----------------------------------------------------------------------------
CONSTANTS
  Test,        \* the objects a test may hold
  Skip,        \* the times that start_block may be told to skip
  MaxChains,   \* bound on the chains there are at a time
  MaxWork      \* bound on the blocks and transactions of all of them

(* What there is of a chain, and what an object remembers.                  *)
Block   == [time : Nat, txs : Seq(Nat), rows : SUBSET Nat]
Pending == [time : Nat, txs : Seq(Nat)]
Message == [prev : Nat, this : Nat, head : Nat, traces : Seq(Nat), deltas : SUBSET Nat]
Chain   == [blocks : Seq(Block), base : Nat, pending : Pending \cup {None}, rows : SUBSET Nat,
            deferred : Seq(Nat), sent : Nat, control : BOOLEAN, prev : Nat,
            history : Seq(Message \cup {None}), ctx : (SUBSET Nat) \cup {None}]
Object  == [id : Nat, head_block_info : [num : Nat, time : Nat] \cup {None},
            asked : Nat \cup {None}, told : SUBSET Nat]

ASSUME SkipAssumption == Skip \subseteq Nat
ASSUME NoChainAssumption ==
  None \notin Pending /\ None \notin Message /\ None \notin Chain /\ None \notin Object

VARIABLES
  chains,      \* state.chains of cltester, destroyed ones are None
  selected,    \* state.selected_chain_index
  tests,       \* each object: None, or its id and what it remembers
  current      \* current_chain of tester.cpp

chainVars == <<chains, selected, tests, current>>

Exists(i)  == i \in DOMAIN chains /\ chains[i] # None
Running(i) == Exists(i) /\ chains[i].control

(* Objects whose chain a call may use; Room keeps the model finite. *)
Ready(t) == tests[t] # None /\ Running(tests[t].id)
Its(t)   == chains[tests[t].id]
Work(c)  == Len(c.blocks) + c.sent
Room     == MapThenSumSet(LAMBDA i : Work(chains[i]), {i \in DOMAIN chains : Exists(i)}) < MaxWork

(* A call changes the chain of t, and what t remembers. *)
Becomes(t, c, object) ==
  /\ chains' = [chains EXCEPT ![tests[t].id] = c]
  /\ tests' = [tests EXCEPT ![t] = object]
  /\ UNCHANGED <<selected, current>>

NewObject(id) == [id |-> id, head_block_info |-> None, asked |-> None, told |-> {}]

Create(t) ==
  /\ tests[t] = None /\ Len(chains) < MaxChains
  /\ \E snapshot \in BOOLEAN : chains' = Append(chains, test_chain(snapshot))
  /\ selected' = IF Len(chains') = 1 THEN 1 ELSE selected
  /\ tests' = [tests EXCEPT ![t] = NewObject(Len(chains'))]
  /\ current' = t

(* Trailing empty slots are given back, so that an index may come again. *)
WithoutTail(cs) ==
  SubSeq(cs, 1, CHOOSE n \in 0..Len(cs) : /\ \A i \in n + 1..Len(cs) : cs[i] = None
                                          /\ n # 0 => cs[n] # None)

Destroy(t) ==
  /\ tests[t] # None
  /\ current' = None
  /\ selected' = IF selected = tests[t].id THEN None ELSE selected
  /\ chains' = WithoutTail([chains EXCEPT ![tests[t].id] = None])
  /\ tests' = [tests EXCEPT ![t] = None]

Shutdown(t) == Ready(t) /\ Becomes(t, shutdown(Its(t)), tests[t])

SelectForDb(t) ==
  /\ Ready(t) /\ selected' = tests[t].id
  /\ UNCHANGED <<chains, tests, current>>

(* Any of the db_ intrinsics: the context is made if there is none. *)
ReadTable ==
  /\ selected # None /\ Running(selected)
  /\ chains' = [chains EXCEPT ![selected] = get_apply_context(@)]
  /\ UNCHANGED <<selected, tests, current>>

(*------------------------------- tester.cpp -------------------------------*)

HeadInfo(c) == [num |-> HeadNum(c), time |-> HeadBlock(c).time]

(* The answer is kept until the object starts or finishes a block. *)
Informed(object, c) ==
  IF object.head_block_info # None THEN object
  ELSE [object EXCEPT !.head_block_info = HeadInfo(c)]

GetHeadInfo(t) == Ready(t) /\ Becomes(t, Its(t), Informed(tests[t], Its(t)))

(* A long pause is two blocks, so that the last one is recent. *)
StartBlocks(c, skip) ==
  IF skip >= block_interval THEN start_block(start_block(c, skip - block_interval), 0)
  ELSE start_block(c, skip)

MayStartBlocks(c, skip) ==
  MayStart(c, IF skip >= block_interval THEN skip - block_interval ELSE skip)

Forgetful(object) == [object EXCEPT !.head_block_info = None, !.asked = None]

StartBlock(t) ==
  /\ Ready(t) /\ Room
  /\ \E skip \in Skip :
       /\ MayStartBlocks(Its(t), skip)
       /\ Becomes(t, StartBlocks(Its(t), skip), Forgetful(tests[t]))

(* The time is reached from the end of the pending block. *)
StartBlockAt(t) ==
  /\ Ready(t) /\ Room
  /\ LET f == finish_block(Its(t))
     IN  \E skip \in Skip :
           LET time == HeadBlock(f).time + block_interval + skip
               after == time - HeadBlock(f).time - block_interval
           IN  /\ MayStartBlocks(f, after)
               /\ Becomes(t, StartBlocks(f, after), [Forgetful(tests[t]) EXCEPT !.asked = time])

FinishBlock(t) ==
  /\ Ready(t) /\ Room
  /\ Becomes(t, finish_block(Its(t)), Forgetful(tests[t]))

(* What convert() makes of the trace of the last transaction of c. *)
Trace(c) == LET ok == c.sent - 1 \in c.rows
            IN  [status |-> IF ok THEN "executed" ELSE "hard_fail", except |-> ~ok]

(* expect() lets the test go on only with the outcome it expected. *)
Expected(trace, failure) ==
  IF failure THEN trace.status # "executed" /\ trace.except ELSE trace.status = "executed"

(* transact(): the transaction refers to the head block and expires a        *)
(* second after it.                                                          *)
Expires(object) == object.head_block_info.time + 4

Transact(t) ==
  /\ Ready(t) /\ Room
  /\ \E kind \in {"executes", "throws", "defers"}, failure \in BOOLEAN :
       LET object == Informed(tests[t], Its(t))
           c == push_transaction(Its(t), kind)
       IN  /\ Expected(Trace(c), failure)
           /\ Becomes(t, c, IF failure THEN object ELSE [object EXCEPT !.told = @ \union {c.sent - 1}])

ExecDeferred(t) ==
  /\ Ready(t) /\ Room
  /\ Becomes(t, exec_deferred(Its(t)), tests[t])

(* A contract function that the test calls itself sends its actions there. *)
SendInline == current # None /\ Transact(current)

ChainInit ==
  /\ chains = <<>> /\ selected = None
  /\ tests = [t \in Test |-> None] /\ current = None

ChainNext ==
  \/ ReadTable \/ SendInline
  \/ \E t \in Test :
       \/ Create(t) \/ Destroy(t) \/ Shutdown(t) \/ SelectForDb(t) \/ GetHeadInfo(t)
       \/ StartBlock(t) \/ StartBlockAt(t) \/ FinishBlock(t)
       \/ Transact(t) \/ ExecDeferred(t)

ChainSpec == ChainInit /\ [][ChainNext]_chainVars

(*------------------------------- properties -------------------------------*)

ObjectsNameChains ==
  /\ \A t \in Test : tests[t] # None => Exists(tests[t].id)
  /\ \A t, u \in Test : tests[t] # None /\ tests[u] # None /\ tests[t].id = tests[u].id => t = u
  /\ current # None => tests[current] # None
  /\ selected # None => Exists(selected)

ContextIsFresh(c) == c.ctx # None => Building(c) /\ c.ctx = c.rows

(* A pending block directly follows its predecessor in time: a transaction  *)
(* that refers to the head has not expired in it.                           *)
BlockIsRecent(c) == Building(c) => c.pending.time = HeadBlock(c).time + block_interval

HistoryIsWhole(c) ==
  LET first == c.base + 2
  IN  /\ {n \in DOMAIN c.history : c.history[n] # None} = first..HeadNum(c)
      /\ \A n \in first..HeadNum(c) :
           LET h == get_history(c, n)
           IN  /\ h.this = n /\ h.prev = (IF n = first THEN 0 ELSE n - 1)
               /\ h.traces = c.blocks[n - c.base].txs
               /\ UNION {c.history[m].deltas : m \in first..n} = c.blocks[n - c.base].rows
      /\ get_history(c, LastBlock) = get_history(c, HeadNum(c))

(* The file for the dfuse receiver has every block and every transaction,   *)
(* in their order, of a chain that did not start from a snapshot: the       *)
(* entries of a block follow each other, and no other entry is of it.       *)
FileIsWhole(c) ==
  (c.base = 0) =>
    LET file == write_history(c)
        Traces(n) == IF c.blocks[n].txs = <<>> THEN <<NoTrace>> ELSE c.blocks[n].txs
    IN  /\ \A i, j \in DOMAIN file : i < j => file[i].block <= file[j].block
        /\ {file[i].block : i \in DOMAIN file} = 2..HeadNum(c)
        /\ \A n \in 2..HeadNum(c) : \E k \in 0..Len(file) :
             /\ {i \in DOMAIN file : file[i].block = n} = k + 1..k + Len(Traces(n))
             /\ \A i \in 1..Len(Traces(n)) : file[k + i].trace = Traces(n)[i]

ObjectIsRight(object, c) ==
  /\ object.head_block_info # None =>
       /\ object.head_block_info = HeadInfo(c)
       /\ Building(c) => c.pending.time <= Expires(object)
  /\ object.asked # None => Building(c) /\ c.pending.time = Slot(object.asked)
  /\ object.told \subseteq c.rows

(* What a test reads through multi_index, asks of its chain object, or      *)
(* writes into a file of blocks is what its own chain did, whatever it does *)
(* in between and however many chains it holds.                             *)
AnswersAreTheChains ==
  /\ ObjectsNameChains
  /\ \A i \in DOMAIN chains :
       Exists(i) => /\ chains[i].control => ContextIsFresh(chains[i])
                    /\ BlockIsRecent(chains[i])
                    /\ HistoryIsWhole(chains[i])
                    /\ FileIsWhole(chains[i])
  /\ \A t \in Test : Ready(t) => ObjectIsRight(tests[t], Its(t))
-----------------------------------------------------------------------------
(* The files of a test: its C library calls WASI, the functions of         *)
(* wasi_polyfill/ turn that into calls of the tester, and the callbacks of *)
(* cltester (main.cpp) keep a FILE of the host for every descriptor.  Two  *)
(* libraries, that of the wasm and that of the host, have a say in what a  *)
(* mode means and when bytes reach the disk.                               *)
(*                                                                         *)
(* There is no seek: a test that turns from reading to writing, or back,   *)
(* has no defined behaviour in C, and does not do it here; nor does it     *)
(* open a file twice at a time.                                            *)

CONSTANTS
  Path, Chunk,     \* file names, and pieces of content
  MaxFiles,        \* bound: files opened over the life of the test
  MaxLength        \* bound: chunks in a file

(* What cltester keeps of an open file, and what a test takes it for.       *)
Done == {"none", "read", "write"}
File == [path : Path \cup {"standard"}, mode : [base : {"r", "w", "a"}, plus : BOOLEAN, excl : BOOLEAN],
         at : Nat, last : Done, buffer : Seq(Chunk)]
View == [path : Path, mode : [base : {"r", "w", "a"}, plus : BOOLEAN, excl : BOOLEAN],
         at : Nat, last : Done]

ASSUME NoFileAssumption ==
  None \notin File /\ None \notin View /\ None \notin Seq(Chunk)

VARIABLES
  files,           \* state.files; descriptor fd is files[fd + 1]
  disk,            \* what the host's disk has under a name
  held,            \* descriptors the test has got: what it takes each for
  expected         \* the files as the test understands them

fileVars == <<files, disk, held, expected>>

(*--------------------- the C libraries (external) -------------------------*)

Mode == {m \in [base : {"r", "w", "a"}, plus : BOOLEAN, excl : BOOLEAN] :
           m.excl => m.base # "r"}

CanRead(mode)  == mode.base = "r" \/ mode.plus
CanWrite(mode) == mode.base # "r" \/ mode.plus

(* What fopen of the wasm asks of path_open. *)
Flags(mode) ==
  [read |-> CanRead(mode), write |-> CanWrite(mode), create |-> mode.base # "r",
   excl |-> mode.excl, trunc |-> mode.base = "w", append |-> mode.base = "a",
   directory |-> FALSE, nonblock |-> FALSE]

CanOpen(d, path, mode) ==
  IF mode.base = "r" THEN d[path] # None ELSE mode.excl => d[path] = None

Opened(d, path, mode) ==
  [d EXCEPT ![path] = IF mode.base = "w" \/ @ = None THEN <<>> ELSE @]

Overwrite(content, at, data) ==
  SubSeq(content, 1, at) \o data \o SubSeq(content, at + Len(data) + 1, Len(content))

Written(content, mode, at, data) ==
  Overwrite(content, IF mode.base = "a" THEN Len(content) ELSE at, data)

fopen(path, mode) == [path |-> path, mode |-> mode, at |-> 0, last |-> "none", buffer |-> <<>>]

Flushed(d, f) ==
  [d EXCEPT ![f.path] = Written(@, f.mode, f.at - Len(f.buffer), f.buffer)]

fwrite(f, data) == [f EXCEPT !.buffer = @ \o data, !.at = @ + Len(data), !.last = "write"]

fread(f, n) == [f EXCEPT !.at = @ + n, !.last = "read"]

(*------------------------------- main.cpp ---------------------------------*)

polyfill_root_dir_fd == 3
Standard == 0..2

get_file(fd) ==
  IF fd \in 0..Len(files) - 1 THEN files[fd + 1] ELSE None

(* The three standard files, which it does not own, and a reserved place. *)
FilesInit ==
  /\ files = [i \in 1..3 |-> fopen("standard", [base |-> "r", plus |-> TRUE, excl |-> FALSE])]
               \o <<None>>
  /\ disk \in [Path -> {None, <<>>}] /\ expected = disk
  /\ held = <<>>

fdstat_get(fd) ==
  CASE fd \in Standard -> "character_device"
    [] fd = polyfill_root_dir_fd -> "directory"
    [] fd \notin Standard \cup {polyfill_root_dir_fd} /\ get_file(fd) # None -> "regular_file"
    [] OTHER -> "badf"

(* Mutant: whoever creates a file wants it empty. *)
HostModeCreates(o) ==
  IF o.directory \/ o.nonblock THEN None
  ELSE IF o.read /\ ~(o.create \/ o.excl \/ o.trunc \/ o.append)
  THEN [base |-> "r", plus |-> o.write, excl |-> FALSE]
  ELSE IF o.write /\ o.create THEN [base |-> "w", plus |-> o.read, excl |-> o.excl]
  ELSE None

(* The mode for the fopen of the host, if there is one for the flags. *)
HostMode(o) ==
  IF o.directory \/ o.nonblock THEN None
  ELSE IF o.read /\ ~(o.create \/ o.excl \/ o.trunc \/ o.append)
  THEN [base |-> "r", plus |-> o.write, excl |-> FALSE]
  ELSE IF o.write /\ o.create /\ o.trunc
  THEN [base |-> "w", plus |-> o.read, excl |-> o.excl]
  ELSE IF o.write /\ o.create /\ o.append
  THEN [base |-> "a", plus |-> o.read, excl |-> o.excl]
  ELSE None

(* A closed descriptor keeps its place: its number does not come again.     *)
open_file(path, mode) ==
  /\ CanOpen(disk, path, mode)
  /\ disk' = Opened(disk, path, mode)
  /\ files' = Append(files, fopen(path, mode))

close_file(fd) ==
  /\ disk' = IF fd \in Standard THEN disk ELSE Flushed(disk, get_file(fd))
  /\ files' = [files EXCEPT ![fd + 1] = None]

WriteFails(fd, content) ==
  get_file(fd) = None \/ (content # <<>> /\ ~CanWrite(get_file(fd).mode))

(* Reading what cannot be read looks like the end of the file. *)
Readable(f) == IF CanRead(f.mode) THEN Len(disk[f.path]) - f.at ELSE 0

(* An empty file cannot be read whole: fread is asked for one piece of      *)
(* size 0, and returns none.                                                *)
read_whole_file(path) ==
  IF disk[path] = None \/ disk[path] = <<>> THEN None ELSE disk[path]

(*----------------------------- wasi_polyfill ------------------------------*)

(* The C library looks for directories it may open files in, from 3 on. *)
prestat(fd) == IF fd = polyfill_root_dir_fd THEN "/" ELSE "badf"
Preopened(fd) == \A n \in polyfill_root_dir_fd..fd : prestat(n) # "badf"

path_open(fd, path, flags) ==
  /\ fd = polyfill_root_dir_fd
  /\ HostMode(flags) # None
  /\ open_file(path, HostMode(flags))

(* A sequence of buffers is written one by one, until one fails, and read   *)
(* one by one until one is not filled.                                      *)
fd_write(fd, buffers) ==
  IF \E i \in DOMAIN buffers : WriteFails(fd, buffers[i]) THEN UNCHANGED files
  ELSE files' = [files EXCEPT ![fd + 1] = fwrite(@, FlattenSeq(buffers))]

ReadOne(r, size) ==
  LET n == IF size < r.there THEN size ELSE r.there
  IN  IF ~r.filled THEN r
      ELSE [got |-> r.got + n, there |-> r.there - n, filled |-> n = size]

fd_read(fd, sizes) ==
  LET r == FoldLeft(ReadOne, [got |-> 0, there |-> Readable(get_file(fd)), filled |-> TRUE], sizes)
  IN  files' = [files EXCEPT ![fd + 1] = fread(@, r.got)]

(*------------------------------- the test ---------------------------------*)

IsOpen(fd) == fd \in DOMAIN held /\ held[fd] # None

Hold(fd, what) ==
  held' = [n \in DOMAIN held \cup {fd} |-> IF n = fd THEN what ELSE held[n]]

Open(path, mode) ==
  /\ Cardinality(DOMAIN held) < MaxFiles
  /\ \A fd \in DOMAIN held : IsOpen(fd) => held[fd].path # path
  /\ \E fd \in 0..Len(files) : Preopened(fd) /\ path_open(fd, path, Flags(mode))
  /\ Hold(Len(files), [path |-> path, mode |-> mode, at |-> 0, last |-> "none"])
  /\ expected' = Opened(expected, path, mode)

Write(fd, buffers) ==
  /\ IsOpen(fd) /\ held[fd].last # "read"
  /\ fd_write(fd, buffers)
  /\ IF CanWrite(held[fd].mode)
     THEN LET data == FlattenSeq(buffers)
              content == Written(expected[held[fd].path], held[fd].mode, held[fd].at, data)
          IN  /\ Len(content) <= MaxLength
              /\ expected' = [expected EXCEPT ![held[fd].path] = content]
              /\ Hold(fd, [held[fd] EXCEPT !.at = @ + Len(data), !.last = "write"])
     ELSE UNCHANGED <<held, expected>>
  /\ UNCHANGED disk

Read(fd, sizes) ==
  /\ IsOpen(fd) /\ held[fd].last # "write"
  /\ fd_read(fd, sizes)
  /\ LET wanted == SumFunction(sizes)
         there == IF CanRead(held[fd].mode)
                  THEN Len(expected[held[fd].path]) - held[fd].at ELSE 0
     IN  Hold(fd, [held[fd] EXCEPT !.at = @ + (IF wanted < there THEN wanted ELSE there),
                                   !.last = "read"])
  /\ UNCHANGED <<disk, expected>>

Close(fd) ==
  /\ IsOpen(fd)
  /\ close_file(fd)
  /\ Hold(fd, None)
  /\ UNCHANGED expected

(* A program may close its standard files. *)
CloseStandard(fd) ==
  /\ fd \in Standard /\ get_file(fd) # None
  /\ close_file(fd)
  /\ UNCHANGED <<held, expected>>

Buffers == {<<<<c>>>> : c \in Chunk} \cup {<<<<c>>, <<>>, <<c>>>> : c \in Chunk}
Sizes == {<<1>>, <<1, 2>>}

FilesNext ==
  \/ \E path \in Path, mode \in Mode : Open(path, mode)
  \/ \E fd \in DOMAIN held :
       \/ \E buffers \in Buffers : Write(fd, buffers)
       \/ \E sizes \in Sizes : Read(fd, sizes)
       \/ Close(fd)
  \/ \E fd \in Standard : CloseStandard(fd)

FilesSpec == FilesInit /\ [][FilesNext]_fileVars

(*------------------------------ properties --------------------------------*)

(* Every file has what the modes and the writes of the test put into it     *)
(* once it is closed, and can then be read whole; an open one yields the    *)
(* bytes the test is at; and a descriptor is the test's file, or none after *)
(* it was closed, however many files come and go.                           *)
FilesAreTheTests ==
  /\ \A path \in Path :
       (\A fd \in DOMAIN held : IsOpen(fd) => held[fd].path # path) =>
         /\ disk[path] = expected[path]
         /\ (expected[path] \notin {None, <<>>}) => read_whole_file(path) = expected[path]
  /\ \A fd \in DOMAIN held :
       /\ fdstat_get(fd) = (IF IsOpen(fd) THEN "regular_file" ELSE "badf")
       /\ IsOpen(fd) => /\ get_file(fd).path = held[fd].path
                        /\ get_file(fd).at = held[fd].at
                        /\ held[fd].last # "write" => disk[held[fd].path] = expected[held[fd].path]
=============================================================================
