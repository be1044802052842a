------------------------------ MODULE MCDwarf ------------------------------
(***************************************************************************)
(* Small wasm files with debugging information as clang writes it, and     *)
(* what is to be found in them.  Two functions, the second one larger.     *)
(***************************************************************************)
EXTENDS Dwarf, FiniteSets, Functions

-----------------------------------------------------------------------------
(* Lines. *)

File(name, dir) == [name |-> <<name>>, dir |-> dir]
FirstHeader == [line_header EXCEPT !.directories = <<<<"lib">>>>, !.files = <<File("a", 0), File("b", 1)>>]
SecondHeader == [line_header EXCEPT !.line_base = -3, !.line_range = 12, !.opcode_base = 10,
                                    !.directories = <<<<"lib">>>>, !.files = <<File("b", 1), File("c", 0)>>]

Letters ==
  {Op("copy", 0), Op("special", 13 + 14 + 6), Op("advance_pc", 2), Op("advance_line", -1), Op("set_file", 2)}

\* A sequence at an address of the first function, or of one that was dropped; and one in
\* the second function.
FirstUnit(begin, word) ==
  [header |-> FirstHeader,
   ops |-> <<Op("set_address", begin), Op("negate_stmt", 0)>> \o word \o <<Op("fixed_advance_pc", 1), Op("end_sequence", 0)>>]
SecondUnit ==
  [header |-> SecondHeader,
   ops |-> <<Op("set_address", 12), Op("copy", 0), Op("special", 10 + 12 * 2 + 5), Op("const_add_pc", 0), Op("advance_line", 5),
             Op("set_file", 2), Op("copy", 0), Op("advance_pc", 5), Op("end_sequence", 0)>>]
Lines(begin, word) == <<FirstUnit(begin, word), SecondUnit>>

\* The rows of a unit as the standard defines them, each with the begin of its sequence.
Row(unit, acc, op) ==
  LET state == Moved(unit.header, acc.state, op)
      begin == IF state.begin = None THEN state.address ELSE state.begin
      names == ReadNames(unit.header)
  IN IF op.op \in {"copy", "special", "end_sequence"}
     THEN [state |-> IF op.op = "end_sequence" THEN line_state ELSE [state EXCEPT !.begin = begin],
           rows |-> Append(acc.rows, [begin |-> begin, address |-> state.address, line |-> state.line,
                                      file |-> names[state.file], ends |-> op.op = "end_sequence"])]
     ELSE [acc EXCEPT !.state = state]
Rows(unit) == FoldLeft(LAMBDA acc, op : Row(unit, acc, op), [state |-> line_state, rows |-> <<>>], unit.ops).rows

\* The file and line at an address.
LinesAt(units, address) ==
  UNION {LET rows == Rows(units[u]) IN
         {[file |-> rows[i].file, line |-> rows[i].line] :
            i \in {i \in 1..Len(rows) - 1 : /\ ~rows[i].ends /\ IsKept(rows[i].begin) /\ rows[i].line # 0
                                            /\ rows[i].address <= address /\ address < rows[i + 1].address}} :
         u \in DOMAIN units}

-----------------------------------------------------------------------------
(* Entries.  A node is an entry with those within it. *)

TokenAttr(name, form, tokens) == [name |-> name, form |-> form, tokens |-> tokens]
Name(n) == TokenAttr(dw_at_name, dw_form_string, <<n>>)
NameAt(offset) == TokenAttr(dw_at_name, dw_form_strp, <<offset>>)
LinkageAt(offset) == TokenAttr(dw_at_linkage_name, dw_form_strp, <<offset>>)
LowPc(a) == TokenAttr(dw_at_low_pc, dw_form_addr, <<a>>)
HighPc(a) == TokenAttr(dw_at_high_pc, dw_form_addr, <<a>>)
Size(n) == TokenAttr(dw_at_high_pc, 6, <<n>>)
External == TokenAttr(63, dw_form_flag_present, <<>>)
FrameBase == TokenAttr(64, 24, <<2, 9, 0>>)
Specification(pos) == TokenAttr(dw_at_specification, 19, <<pos>>)
IndirectName(n) == TokenAttr(dw_at_name, dw_form_indirect, <<dw_form_string, n>>)

Node(tag, attrs, children) == [tag |-> tag, attrs |-> attrs, children |-> children]
Function(attrs, children) == Node(dw_tag_subprogram, attrs, children)
Scope(children) == Node(57, <<Name(30)>>, children)
Parameter == Node(5, <<Name(31)>>, <<>>)

\* The ways to describe a function that has the number n and takes up [begin, end).
\* Declared is where the entry of a declaration is.
Strings == <<1, 2, 11, 12>>
Kinds == {"plain", "linked", "framed", "scoped", "method", "nested", "with body", "nameless", "dropped"}
Described(kind, n, begin, end, declared) ==
  CASE kind = "plain" -> <<Function(<<Name(n), LowPc(begin), Size(end - begin)>>, <<>>)>>
    [] kind = "linked" -> <<Function(<<LowPc(begin), HighPc(end), LinkageAt(n + 1), NameAt(n - 1)>>, <<Parameter>>)>>
    [] kind = "framed" -> <<Function(<<External, LowPc(begin), Size(end - begin), FrameBase, IndirectName(n)>>, <<>>)>>
    [] kind = "scoped" -> <<Scope(<<Parameter, Function(<<LowPc(begin), HighPc(end), Name(n)>>, <<>>)>>), Parameter>>
    [] kind = "method" -> <<Function(<<LowPc(begin), Size(end - begin), Specification(declared)>>, <<Parameter>>)>>
    [] kind = "nested" -> <<Function(<<Name(n), LowPc(begin), HighPc(end)>>,
                                     <<Function(<<Name(n + 20), LowPc(begin + 3), Size(2)>>, <<>>)>>)>>
    [] kind = "with body" -> <<Function(<<Name(n), LowPc(begin), HighPc(end)>>, <<Node(11, <<LowPc(begin + 1)>>, <<Parameter>>)>>)>>
    [] kind = "nameless" -> <<Function(<<LowPc(begin), HighPc(end)>>, <<Function(<<Name(n), LowPc(begin + 1), Size(1)>>, <<Parameter>>)>>)>>
    [] kind = "dropped" -> <<Function(<<Name(n), LowPc(IF n = 1 THEN 0 ELSE Top), Size(4)>>, <<Parameter>>), Parameter>>

\* What is to be found of it.
Expected(kind, n, begin, end) ==
  LET sub(name, linkage, b, e) == {[begin |-> b, end |-> e, name |-> name, linkage_name |-> linkage]}
  IN CASE kind \in {"nameless", "dropped"} -> {}
       [] kind = "linked" -> sub(n, n + 10, begin, end)
       [] kind = "method" -> sub(33, 34, begin, end)
       [] kind = "nested" -> sub(n, None, begin, end) \cup sub(n + 20, None, begin + 3, begin + 5)
       [] OTHER -> sub(n, None, begin, end)

Declaration == Node(2, <<Name(32)>>, <<Function(<<Name(33), TokenAttr(dw_at_linkage_name, dw_form_string, <<34>>)>>, <<>>)>>)

RECURSIVE Encoded(_, _)
Encoded(out, nodes) ==
  LET node == nodes[1]
      entry == write_die(out, [tag |-> node.tag, has_children |-> node.children # <<>>, attrs |-> node.attrs])
      inner == IF node.children = <<>> THEN entry
               ELSE LET e == Encoded(entry, node.children) IN [e EXCEPT !.unit = Append(@, 0)]
  IN IF nodes = <<>> THEN out ELSE Encoded(inner, Tail(nodes))

\* The declaration follows the unit's head (4), its root (2) and the class (2).
DeclaredAt == 8
Tree(kinds) ==
  <<Node(dw_tag_compile_unit, <<Name(35)>>,
         <<Declaration>> \o Described(kinds[1], 1, 2, 11, DeclaredAt) \o Described(kinds[2], 2, 12, 42, DeclaredAt))>>
Entries(kinds) == Encoded([abbrevs |-> <<>>, unit |-> <<0, 4, 1, 4>>, symbols |-> <<>>], Tree(kinds))

ExpectedIn(kinds) == Expected(kinds[1], 1, 2, 11) \cup Expected(kinds[2], 2, 12, 42)

-----------------------------------------------------------------------------
(* Files. *)

Sizes == <<9, 30>>
Custom(name, size, data) == [id |-> "custom", name |-> name, size |-> size, data |-> data]
Code == [id |-> "code", name |-> "", size |-> 42, data |-> Sizes]
Type == [id |-> "other", name |-> "", size |-> 3, data |-> <<>>]

DebugSections(lines, kinds) ==
  <<Custom(".debug_info", 20, <<Entries(kinds).unit>>), Custom(".debug_line", 20, lines),
    Custom(".debug_abbrev", 20, <<abbrev_data(Entries(<<"plain", "plain">>)), abbrev_data(Entries(kinds))>>),
    Custom(".debug_str", 5, Strings)>>
Orders == {<<1, 2, 3, 4>>, <<4, 3, 2, 1>>, <<2, 4, 1, 3>>}

WasmFile(lines, kinds, order) ==
  <<Type, Code>> \o [i \in 1..4 |-> DebugSections(lines, kinds)[order[i]]]

\* The jit's code for it: instructions at these addresses, in code of these sizes.
Addresses == <<<<3, 4, 6, 8>>, <<13, 14, 16, 18, 30, 36, 38>>>>
Compiled(info, sizes) ==
  debug_instr_map([f \in 1..2 |->
    [prologue |-> 2, epilogue |-> 1, locals_pos |-> info.wasm_fns[f].locals_pos, end_pos |-> info.wasm_fns[f].end_pos,
     instrs |-> [i \in DOMAIN Addresses[f] |->
                   [pos |-> info.wasm_code_offset + Addresses[f][i], size |-> sizes[((i + f) % Len(sizes)) + 1]]]]])
CodeSizes == {<<1>>, <<2, 0, 1>>}
CodeStart == 5

\* The offsets into the code of each instruction; an empty one has none.
CodeOf(map, i) ==
  LET end == IF i < Len(map.instr_locs) THEN map.instr_locs[i + 1].code_offset ELSE map.code_size
      fn == CHOOSE f \in DOMAIN map.fn_locs : map.instr_locs[i].code_offset \in map.fn_locs[f].code_body..map.fn_locs[f].code_epilogue
                                              /\ map.instr_locs[i].wasm_addr \in map.fn_locs[f].wasm_begin..map.fn_locs[f].wasm_end
  IN {o \in map.instr_locs[i].code_offset..(end - 1) : o < map.fn_locs[fn].code_epilogue}

-----------------------------------------------------------------------------
(* Properties. *)

LocationAgrees(info, lines, address, found) ==
  IF found = <<>>
  THEN \/ LinesAt(lines, address) = {}
       \/ \E a, b \in Range(info.locations) : a # b /\ a.begin = b.begin /\ address \in a.begin..a.end
  ELSE LinesAt(lines, address) = {[file |-> At(info.files, found[1].file), line |-> found[1].line]}

\* The innermost one; but past a function that is within another there is none.
SubprogramAgrees(expected, address, found) ==
  LET around == {e \in expected : e.begin <= address /\ address < e.end}
      nested == \E e \in around, f \in expected : e.begin < f.begin /\ f.end <= address
  IN IF found = <<>> THEN around = {} \/ nested
     ELSE LET s == [begin |-> found[1].begin, end |-> found[1].end, name |-> found[1].name, linkage_name |-> found[1].linkage_name]
          IN s \in around /\ \A e \in around : e.begin <= s.begin

FramesAgree(info, map, lines, kinds) ==
  \A i \in DOMAIN map.instr_locs : \A offset \in CodeOf(map, i) :
    LET address == map.instr_locs[i].wasm_addr - info.wasm_code_offset
    IN \A frame \in Frame(info, map, offset) :
         /\ LocationAgrees(info, lines, address, frame[1])
         /\ SubprogramAgrees(ExpectedIn(kinds), address, frame[2])

\* A debugger that reads the generated line program sees the line of each instruction,
\* unless its range was cut off.
DebuggerSeesLines(info, map, lines) ==
  \A i \in DOMAIN map.instr_locs :
    LET address == map.instr_locs[i].wasm_addr - info.wasm_code_offset
        cut == \E l \in Range(info.locations) : l.begin <= address /\ address < l.end
                                                /\ \A j \in DOMAIN map.instr_locs :
                                                     map.instr_locs[j].wasm_addr - info.wasm_code_offset < l.end
    IN LinesAt(lines, address) # {} /\ ~cut =>
         \A offset \in CodeOf(map, i) :
           LinesAt(<<generate_debug_line(info, map, CodeStart)>>, CodeStart + offset) = LinesAt(lines, address)

\* One that reads the generated entries sees the outer functions, at their code.
DebuggerSeesFunctions(info, map, kinds) ==
  LET out == write_subprograms(info, map, CodeStart)
      read == [parse_debug_abbrev([info EXCEPT !.abbrev_decls = <<>>], <<abbrev_data(out)>>) EXCEPT !.subprograms = <<>>]
      root == get_die_abbrev(read, 0, out.unit, 0)
      subs == parse_die_children(read, 0, out.unit, parse_die_attrs(read, 0, root.attrs, out.unit, 1).next)
      outer == {e \in ExpectedIn(kinds) : \A f \in ExpectedIn(kinds) : f # e => ~(f.begin <= e.begin /\ e.end <= f.end)}
      Seen(e) == LET fn == map.fn_locs[IF e.begin < 11 THEN 1 ELSE 2]
                 IN [begin |-> CodeStart + fn.code_prologue, end |-> CodeStart + fn.code_end, linkage_name |-> e.linkage_name]
  IN /\ ~subs.bad /\ subs.next = Len(out.unit) - 1
     /\ {[begin |-> s.begin, end |-> s.end, linkage_name |-> s.linkage_name] : s \in Range(subs.subs)} = {Seen(e) : e \in outer}
     /\ Len(subs.subs) = Cardinality(outer) /\ Len(out.symbols) = Cardinality(outer)
     /\ \A i \in DOMAIN subs.subs : out.symbols[i].value = subs.subs[i].begin

FileIsRead(lines, kinds, order, sizes) ==
  LET file == WasmFile(lines, kinds, order)
      info == get_info_from_wasm(file)
      map == Compiled(info, sizes)
  IN /\ ~info.bad /\ MapInOrder(map)
     /\ wasm_exclude_custom(file) = FileHead + 2 * SectionHead + Type.size + Code.size
     /\ FramesAgree(info, map, lines, kinds)
     /\ DebuggerSeesLines(info, map, lines)
     /\ DebuggerSeesFunctions(info, map, kinds)

\* Registering what is not in the list and removing what is, in any order: it has all
\* that is registered, once, in both directions.
Toggle(acc, entry) ==
  IF entry \in acc.there THEN [list |-> unregister(acc.list, entry), there |-> acc.there \ {entry}]
  ELSE [list |-> reg(acc.list, entry), there |-> acc.there \cup {entry}]

RECURSIVE Walk(_, _)
Walk(links, entry) == IF entry = None THEN <<>> ELSE <<entry>> \o Walk(links, links[entry])

ListIsWhole(word) ==
  LET acc == FoldLeft(Toggle, [list |-> NoEntries, there |-> {}], word)
      walked == Walk(acc.list.next, acc.list.first)
  IN /\ Range(walked) = acc.there /\ Len(walked) = Cardinality(acc.there)
     /\ walked # <<>> => Walk(acc.list.prev, Last(walked)) = Reverse(walked)

-----------------------------------------------------------------------------
(* Samples. *)

Words == {w \in SeqOf(Letters, 4) : \A i \in DOMAIN w : w[i].op = "advance_line" => \A j \in 1..(i - 1) : w[j] # w[i]}
=============================================================================
