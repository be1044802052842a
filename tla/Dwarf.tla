------------------------------- MODULE Dwarf -------------------------------
(***************************************************************************)
(* What the tester makes of the debugging information in a wasm file       *)
(* (dwarf.cpp): the source line and the function at an address; and what   *)
(* it tells a native debugger of the code the jit made of the file.        *)
(*                                                                         *)
(* A stream is a sequence of tokens, one for each number or string that    *)
(* the code reads, and strings are numbers.  Positions and addresses count *)
(* from 0.  A failed check ends the tester; `bad` says that one failed.    *)
(***************************************************************************)
EXTENDS Integers, Sequences, SequencesExt, TLC

None == -1         \* an empty optional
Top == 63          \* stands for 0xffff'ffff: the address of what the linker dropped
FileHead == 8      \* size of the header of a wasm file
SectionHead == 2   \* size of the id and the length of a section

At(seq, n) == seq[n + 1]
IsKept(address) == address # 0 /\ address < Top

-----------------------------------------------------------------------------
(* Lines.  A file name is a sequence: its directory, if any, and the name.  *)

line_header == [line_base |-> -5, line_range |-> 14, opcode_base |-> 13, directories |-> <<>>, files |-> <<>>]

ReadNames(header) ==
  [i \in DOMAIN header.files |->
     LET f == header.files[i] IN IF f.dir = 0 THEN f.name ELSE header.directories[f.dir] \o f.name]

\* What is written names no directories.
WriteNames(names) ==
  [line_header EXCEPT !.files = [i \in DOMAIN names |-> [name |-> names[i], dir |-> 0]]]

line_state == [begin |-> None, address |-> 0, file |-> 1, line |-> 1]

Advance(address, n) == (address + n) % (Top + 1)

\* An opcode without operands moves both address and line.
Special(header, state, n) ==
  [state EXCEPT !.address = Advance(@, n \div header.line_range),
                !.line = @ + header.line_base + (n % header.line_range)]

\* Columns, statements, blocks and discriminators go nowhere.
Moved(header, state, op) ==
  CASE op.op = "set_address" -> [state EXCEPT !.address = op.n]
    [] op.op \in {"advance_pc", "fixed_advance_pc"} -> [state EXCEPT !.address = Advance(@, op.n)]
    [] op.op = "const_add_pc" -> [state EXCEPT !.address = Special(header, state, 255 - header.opcode_base).address]
    [] op.op = "advance_line" -> [state EXCEPT !.line = @ + op.n]
    [] op.op = "set_file" -> [state EXCEPT !.file = op.n]
    [] op.op = "special" -> Special(header, state, op.n - header.opcode_base)
    [] OTHER -> state

\* The number of a file in the list for all units, which it may join.
WithFile(files, name) == IF name \in Range(files) THEN files ELSE Append(files, name)
FileNumber(files, name) == SelectInSeq(files, LAMBDA f : f = name) - 1

\* The open location ends here; nothing is kept of a dropped sequence or of line 0.
Close(names, acc) ==
  LET row == acc.current[1]
      files == WithFile(acc.info.files, IF row.file = 0 THEN <<>> ELSE names[row.file])
      location == [row EXCEPT !.end = acc.state.address,
                              !.file = FileNumber(files, IF row.file = 0 THEN <<>> ELSE names[row.file])]
  IN IF row.file > Len(names) THEN [acc EXCEPT !.current = <<>>, !.info.bad = TRUE]
     ELSE [acc EXCEPT !.current = <<>>, !.info.files = files,
                      !.info.locations = IF IsKept(acc.state.begin) /\ row.line # 0 THEN Append(@, location) ELSE @]

\* Mutant: a row of another file on the same line does not end the location.
EndsLocationByLine(current, state, ends) ==
  current # <<>> /\ (ends \/ state.line # current[1].line)

EndsLocation(current, state, ends) ==
  current # <<>> /\ (ends \/ state.file # current[1].file \/ state.line # current[1].line)

add_row(names, acc, ends) ==
  LET begun == [acc EXCEPT !.state.begin = IF @ = None THEN acc.state.address ELSE @]
      closed == IF EndsLocation(acc.current, acc.state, ends) THEN Close(names, begun) ELSE begun
  IN IF ends \/ closed.current # <<>> THEN closed
     ELSE [closed EXCEPT !.current = <<[begin |-> acc.state.address, end |-> acc.state.address,
                                        file |-> acc.state.file, line |-> acc.state.line]>>]

LineStep(header, acc, op) ==
  LET moved == [acc EXCEPT !.state = Moved(header, @, op)]
  IN CASE op.op = "end_sequence" -> [add_row(ReadNames(header), moved, TRUE) EXCEPT !.state = line_state]
       [] op.op \in {"copy", "special"} -> add_row(ReadNames(header), moved, FALSE)
       [] OTHER -> moved

parse_debug_line_unit(info, unit) ==
  FoldLeft(LAMBDA acc, op : LineStep(unit.header, acc, op),
           [info |-> info, state |-> line_state, current |-> <<>>], unit.ops).info

parse_debug_line(info, units) == FoldLeft(parse_debug_line_unit, info, units)

-----------------------------------------------------------------------------
(* Abbreviations and the entries (DIEs) written with them.                  *)

dw_at_name == 3
dw_at_low_pc == 17
dw_at_high_pc == 18
dw_at_specification == 71
dw_at_linkage_name == 110

dw_tag_compile_unit == 17
dw_tag_subprogram == 46

\* The forms of a value, by what parse_attr_value makes of them.
dw_form_addr == 1
dw_form_string == 8
dw_form_strp == 14
dw_form_indirect == 22
dw_form_flag_present == 25
BlockForms == {3, 4, 9, 10, 24}
DataForms == {5, 6, 7, 11, 13, 15}
RefForms == {17, 18, 19, 20, 21}
OtherForms == {12, 16, 23, 32}

abbrev_key(decl) == <<decl.table_offset, decl.code>>
IsBefore(a, b) == a[1] < b[1] \/ (a[1] = b[1] /\ a[2] < b[2])

parse_debug_abbrev(info, tables) ==
  [info EXCEPT !.abbrev_decls = @ \o FlattenSeq(
     [t \in DOMAIN tables |->
        [i \in DOMAIN tables[t] |-> [table_offset |-> t - 1] @@ tables[t][i]]])]

\* std::lower_bound: entries are read before the declarations are sorted.
RECURSIVE LowerBound(_, _, _, _)
LowerBound(decls, key, first, len) ==
  LET half == len \div 2
  IN IF len = 0 THEN first
     ELSE IF IsBefore(abbrev_key(At(decls, first + half)), key)
          THEN LowerBound(decls, key, first + half + 1, len - half - 1)
          ELSE LowerBound(decls, key, first, half)

NullDecl == [code |-> 0]

get_abbrev_decl(info, table, code) ==
  LET n == LowerBound(info.abbrev_decls, <<table, code>>, 0, Len(info.abbrev_decls))
  IN IF n < Len(info.abbrev_decls) /\ abbrev_key(At(info.abbrev_decls, n)) = <<table, code>>
     THEN At(info.abbrev_decls, n) ELSE [code |-> None]

\* The declaration of the entry at pos: NullDecl ends a list, None is bad.
get_die_abbrev(info, table, unit, pos) ==
  IF At(unit, pos) = 0 THEN NullDecl ELSE get_abbrev_decl(info, table, At(unit, pos))

get_str(info, offset) == At(info.strings, offset)

RECURSIVE parse_attr_value(_, _, _, _)
parse_attr_value(info, form, unit, pos) ==
  LET value(kind, v) == [kind |-> kind, value |-> v, next |-> pos + 1]
  IN CASE form = dw_form_addr -> value("address", At(unit, pos))
       [] form \in DataForms -> value("data", At(unit, pos))
       [] form \in RefForms -> value("ref", At(unit, pos))
       [] form = dw_form_string -> value("string", At(unit, pos))
       [] form = dw_form_strp -> value("string", get_str(info, At(unit, pos)))
       [] form \in BlockForms -> [value("block", None) EXCEPT !.next = @ + At(unit, pos)]
       [] form = dw_form_flag_present -> [value("flag", 1) EXCEPT !.next = pos]
       [] form = dw_form_indirect -> parse_attr_value(info, At(unit, pos), unit, pos + 1)
       [] form \in OtherForms -> value("other", At(unit, pos))

\* The attributes of an entry, those of the entry it specifies among them.
RECURSIVE parse_die_attrs(_, _, _, _, _)
parse_die_attrs(info, table, attrs, unit, pos) ==
  IF attrs = <<>> THEN [attrs |-> <<>>, next |-> pos]
  ELSE LET v == parse_attr_value(info, attrs[1].form, unit, pos)
           rest == parse_die_attrs(info, table, Tail(attrs), unit, v.next)
           these == IF attrs[1].name # dw_at_specification
                    THEN <<[name |-> attrs[1].name, kind |-> v.kind, value |-> v.value]>>
                    ELSE IF v.kind # "ref" THEN <<>>
                    ELSE parse_die_attrs(info, table, get_die_abbrev(info, table, unit, v.value).attrs,
                                         unit, v.value + 1).attrs
       IN [attrs |-> these \o rest.attrs, next |-> rest.next]

demangle(name) == 100 + name   \* external

Optional(attr, kind) == IF attr.kind = kind THEN attr.value ELSE None

\* A size comes after the address it starts at, or is lost.
common_attr(c, attr) ==
  CASE attr.name = dw_at_low_pc -> [c EXCEPT !.begin = Optional(attr, "address")]
    [] attr.name = dw_at_high_pc ->
         [c EXCEPT !.end = IF attr.kind = "data" /\ c.begin # None THEN c.begin + attr.value
                           ELSE Optional(attr, "address")]
    [] attr.name = dw_at_linkage_name -> [c EXCEPT !.linkage_name = Optional(attr, "string")]
    [] attr.name = dw_at_name -> [c EXCEPT !.name = Optional(attr, "string")]
    [] OTHER -> c

common_attrs(attrs) ==
  FoldLeft(common_attr,
           [begin |-> None, end |-> None, linkage_name |-> None, name |-> None, parent |-> None, children |-> <<>>],
           attrs)

get_demangled_name(sub) == IF sub.linkage_name # None THEN demangle(sub.linkage_name) ELSE sub.name

IsSubprogram(tag, sub) ==
  /\ tag = dw_tag_subprogram
  /\ get_demangled_name(sub) # None
  /\ sub.begin # None /\ IsKept(sub.begin) /\ sub.end # None

\* Both go through the entries from pos to the one that ends the list.
RECURSIVE skip_die_children(_, _, _, _)
skip_die_children(info, table, unit, pos) ==
  LET decl == get_die_abbrev(info, table, unit, pos)
      next == parse_die_attrs(info, table, decl.attrs, unit, pos + 1).next
  IN IF decl = NullDecl THEN pos + 1
     ELSE skip_die_children(info, table, unit,
            IF decl.has_children THEN skip_die_children(info, table, unit, next) ELSE next)

RECURSIVE parse_die_children(_, _, _, _)
parse_die_children(info, table, unit, pos) ==
  LET decl == get_die_abbrev(info, table, unit, pos)
      attrs == parse_die_attrs(info, table, decl.attrs, unit, pos + 1)
      sub == common_attrs(attrs.attrs)
      found == IF IsSubprogram(decl.tag, sub) THEN <<sub>> ELSE <<>>
      inner == IF ~decl.has_children THEN [next |-> attrs.next, subs |-> <<>>, bad |-> FALSE]
               ELSE IF decl.tag = dw_tag_subprogram /\ found = <<>>
                    THEN [next |-> skip_die_children(info, table, unit, attrs.next), subs |-> <<>>, bad |-> FALSE]
               ELSE parse_die_children(info, table, unit, attrs.next)
      rest == parse_die_children(info, table, unit, inner.next)
  IN IF decl.code = None THEN [next |-> Len(unit), subs |-> <<>>, bad |-> TRUE]
     ELSE IF decl = NullDecl THEN [next |-> pos + 1, subs |-> <<>>, bad |-> FALSE]
     ELSE [next |-> rest.next, subs |-> found \o inner.subs \o rest.subs, bad |-> inner.bad \/ rest.bad]

\* A unit: its length, version, abbreviations and address size, and its root.
UnitHead == 4
parse_debug_info_unit(info, unit) ==
  LET table == At(unit, 2)
      root == get_die_abbrev(info, table, unit, UnitHead)
      attrs == parse_die_attrs(info, table, root.attrs, unit, UnitHead + 1)
      parsed == parse_die_children(info, table, unit, attrs.next)
  IN IF At(unit, 1) # 4 \/ At(unit, 3) # 4 \/ root.code \in {0, None} \/ root.tag # dw_tag_compile_unit
     THEN [info EXCEPT !.bad = TRUE]
     ELSE IF ~root.has_children THEN info
     ELSE [info EXCEPT !.subprograms = @ \o parsed.subs, !.bad = @ \/ parsed.bad]

\* Each subprogram within another becomes a child of it; positions count from 0.
RECURSIVE fill_parents(_, _, _)
fill_parents(info, parent, pos) ==
  LET par == At(info.subprograms, parent)
      sub == At(info.subprograms, pos)
      adopted == [info EXCEPT !.subprograms[parent + 1].children = Append(@, pos),
                              !.subprograms[pos + 1].parent = parent,
                              !.bad = @ \/ sub.end > par.end]
      below == fill_parents(adopted, pos, pos + 1)
  IN IF pos >= Len(info.subprograms) \/ sub.begin >= par.end THEN [info |-> info, pos |-> pos]
     ELSE fill_parents(below.info, parent, below.pos)

RECURSIVE FillFrom(_, _)
FillFrom(info, pos) ==
  LET filled == fill_parents(info, pos, pos + 1)
  IN IF pos >= Len(info.subprograms) THEN info ELSE FillFrom(filled.info, filled.pos)

\* Outer ones come before those within them.
SubprogramBefore(a, b) == a.begin < b.begin \/ (a.begin = b.begin /\ a.end > b.end)

parse_debug_info(info, units) ==
  LET parsed == FoldLeft(parse_debug_info_unit, info, units)
  IN FillFrom([parsed EXCEPT !.subprograms = SortSeq(@, SubprogramBefore)], 0)

-----------------------------------------------------------------------------
(* A wasm file: a sequence of sections, each with its id, its size and what *)
(* is in it; a custom section has a name too.                               *)

SectionBegin(file, i) ==
  FoldLeft(LAMBDA pos, section : pos + SectionHead + section.size, FileHead, SubSeq(file, 1, i - 1))

\* The end of the file without the custom sections, which have to be its last; or None.
wasm_exclude_custom(file) ==
  LET first == SelectInSeq(file, LAMBDA s : s.id = "custom")
  IN IF first = 0 THEN SectionBegin(file, Len(file) + 1)
     ELSE IF \E i \in first..Len(file) : file[i].id # "custom" THEN None
     ELSE SectionBegin(file, first)

\* A function starts with its size.
WithFunction(fns, begin, size) ==
  LET pos == IF fns = <<>> THEN begin ELSE Last(fns).end_pos
  IN Append(fns, [size_pos |-> pos, locals_pos |-> pos + 1, end_pos |-> pos + 1 + size])

\* The code section starts with the number of its functions.
ReadCode(info, pos, sizes) ==
  [info EXCEPT !.wasm_code_offset = pos,
               !.wasm_fns = FoldLeft(LAMBDA fns, size : WithFunction(fns, pos + 1, size), <<>>, sizes)]

ReadFirst(info, section) ==
  CASE section.id = "code" -> ReadCode(info, section.begin + SectionHead, section.data)
    [] section.id = "custom" /\ section.name = ".debug_line" -> parse_debug_line(info, section.data)
    [] section.id = "custom" /\ section.name = ".debug_abbrev" -> parse_debug_abbrev(info, section.data)
    [] section.id = "custom" /\ section.name = ".debug_str" -> [info EXCEPT !.strings = section.data]
    [] OTHER -> info

ReadSecond(info, section) ==
  IF section.id = "custom" /\ section.name = ".debug_info" THEN parse_debug_info(info, section.data) ELSE info

\* The entries need the abbreviations and strings of any section, so they are read last.
get_info_from_wasm(file) ==
  LET sections == [i \in DOMAIN file |-> [begin |-> SectionBegin(file, i)] @@ file[i]]
      empty == [wasm_code_offset |-> 0, wasm_fns |-> <<>>, strings |-> <<>>, files |-> <<>>,
                locations |-> <<>>, abbrev_decls |-> <<>>, subprograms |-> <<>>, bad |-> FALSE]
      read == FoldLeft(ReadSecond, FoldLeft(ReadFirst, empty, sections), sections)
  IN [read EXCEPT !.locations = SortSeq(@, LAMBDA a, b : a.begin < b.begin \/ (a.begin = b.begin /\ a.end < b.end)),
                  !.abbrev_decls = SortSeq(@, LAMBDA a, b : IsBefore(abbrev_key(a), abbrev_key(b)))]

\* What upper_bound may find last before address, as the order of ranges that begin
\* together is not defined: the range, or <<>> if it has ended.
Found(ranges, address) ==
  LET before == {r \in Range(ranges) : r.begin <= address}
      last == {r \in before : \A s \in before : s.begin <= r.begin}
  IN IF last = {} THEN {<<>>} ELSE {IF address < r.end THEN <<r>> ELSE <<>> : r \in last}

get_location(info, address) == Found(info.locations, address)
get_subprogram(info, address) == Found(info.subprograms, address)

\* The function whose body has the position, counted from 1, or None.
get_wasm_fn(info, pos) ==
  LET fn == SelectLastInSeq(info.wasm_fns, LAMBDA f : f.size_pos <= pos)
  IN IF fn # 0 /\ pos < info.wasm_fns[fn].end_pos THEN fn ELSE None

-----------------------------------------------------------------------------
(* Where the jit put the code of each function and instruction              *)
(* (debug_eos_vm.hpp), offsets counted from the beginning of all of it.     *)

\* A function as it is compiled: the sizes of its prologue and epilogue, and each
\* instruction, the size of its code and its position in the file.
on_function_start(map, fn) ==
  [map EXCEPT !.fn_locs = Append(@, [code_prologue |-> map.code_size, code_body |-> map.code_size + fn.prologue,
                                     wasm_begin |-> fn.locals_pos, wasm_end |-> fn.end_pos]),
              !.code_size = @ + fn.prologue]

on_instr_start(map, instr) ==
  [map EXCEPT !.instr_locs = Append(@, [code_offset |-> map.code_size, wasm_addr |-> instr.pos]),
              !.code_size = @ + instr.size]

on_function_end(map, fn) ==
  LET n == Len(map.fn_locs)
  IN [map EXCEPT !.fn_locs[n] = @ @@ [code_epilogue |-> map.code_size, code_end |-> map.code_size + fn.epilogue],
                 !.code_size = @ + fn.epilogue]

debug_instr_map(fns) ==
  FoldLeft(LAMBDA map, fn : on_function_end(FoldLeft(on_instr_start, on_function_start(map, fn), fn.instrs), fn),
           [fn_locs |-> <<>>, instr_locs |-> <<>>, code_size |-> 0], fns)

\* The asserts of set().
MapInOrder(map) ==
  /\ \A i \in DOMAIN map.fn_locs :
       LET fn == map.fn_locs[i]
           before == IF i = 1 THEN [code_end |-> 0, wasm_end |-> 0] ELSE map.fn_locs[i - 1]
       IN /\ before.code_end <= fn.code_prologue /\ fn.code_prologue <= fn.code_body
          /\ fn.code_body <= fn.code_epilogue /\ fn.code_epilogue <= fn.code_end
          /\ before.wasm_end <= fn.wasm_begin /\ fn.wasm_begin <= fn.wasm_end
  /\ \A i \in 2..Len(map.instr_locs) :
       /\ map.instr_locs[i - 1].code_offset <= map.instr_locs[i].code_offset
       /\ map.instr_locs[i - 1].wasm_addr <= map.instr_locs[i].wasm_addr

\* The position in the file of what runs at an offset in the code.
translate(map, offset) ==
  LET n == SelectLastInSeq(map.instr_locs, LAMBDA i : i.code_offset <= offset)
  IN IF offset \notin 0..(map.code_size - 1) \/ n = 0 THEN None ELSE map.instr_locs[n].wasm_addr

\* What a backtrace may say of a frame: the location and the subprogram, each if any.
Frame(info, map, offset) ==
  LET address == translate(map, offset) - info.wasm_code_offset
  IN IF translate(map, offset) = None THEN {}
     ELSE get_location(info, address) \X get_subprogram(info, address)

-----------------------------------------------------------------------------
(* What a native debugger is told, of code that starts at an address.       *)

FirstFrom(instr_locs, pos) == SelectInSeq(instr_locs, LAMBDA i : i.wasm_addr >= pos)

\* A range that ends after the last instruction is cut off.
get_addr_range(info, map, code_start, range) ==
  LET first == FirstFrom(map.instr_locs, info.wasm_code_offset + range.begin)
      end == FirstFrom(map.instr_locs, info.wasm_code_offset + range.end)
      Address(n) == code_start + map.instr_locs[n].code_offset
  IN IF end # 0 /\ first < end THEN <<Address(first), Address(end)>> ELSE <<>>

Op(op, n) == [op |-> op, n |-> n]
OpIf(condition, op, n) == IF condition THEN <<Op(op, n)>> ELSE <<>>

\* The operations for one range, after those of program.
WriteRange(program, location, range) ==
  LET back == range[1] < program.address
      before == IF back THEN [program EXCEPT !.file = 1, !.line = 1] ELSE program
      file == location.file + 1
  IN [ops |-> program.ops
              \o OpIf(back, "end_sequence", 0)
              \o OpIf(range[1] # program.address, "set_address", range[1])
              \o OpIf(file # before.file, "set_file", file)
              \o OpIf(location.line # before.line, "advance_line", location.line - before.line)
              \o <<Op("copy", 0)>>
              \o OpIf(range[2] # range[1], "set_address", range[2]),
      address |-> range[2], file |-> file, line |-> location.line]

write_line_program(info, map, code_start) ==
  LET Write(program, location) ==
        LET range == get_addr_range(info, map, code_start, location)
        IN IF range = <<>> THEN program ELSE WriteRange(program, location, range)
  IN Append(FoldLeft(Write, [ops |-> <<>>, address |-> 0, file |-> 1, line |-> 1], info.locations).ops,
            Op("end_sequence", 0))

generate_debug_line(info, map, code_start) ==
  [header |-> WriteNames(info.files), ops |-> write_line_program(info, map, code_start)]

\* An entry has a tag and attributes, each with its name, its form and its tokens.
die_pattern(die) ==
  [tag |-> die.tag, has_children |-> die.has_children,
   attrs |-> [i \in DOMAIN die.attrs |-> [name |-> die.attrs[i].name, form |-> die.attrs[i].form]]]

\* Entries of one pattern share its code; codes count from 1.
write_die(out, die) ==
  LET known == SelectInSeq(out.abbrevs, LAMBDA a : a.pattern = die_pattern(die))
      code == IF known = 0 THEN Len(out.abbrevs) + 1 ELSE known
      abbrev == [code |-> code, pattern |-> die_pattern(die)]
  IN [out EXCEPT !.abbrevs = IF known = 0 THEN Append(@, abbrev) ELSE @,
                 !.unit = @ \o <<code>> \o FlattenSeq([i \in DOMAIN die.attrs |-> die.attrs[i].tokens])]

abbrev_data(out) == [i \in DOMAIN out.abbrevs |-> [code |-> out.abbrevs[i].code] @@ out.abbrevs[i].pattern]

Attr(name, form, token) == <<[name |-> name, form |-> form, tokens |-> <<token>>]>>

subprogram_die(sub, begin, end) ==
  [tag |-> dw_tag_subprogram, has_children |-> FALSE,
   attrs |-> Attr(dw_at_low_pc, dw_form_addr, begin)
             \o Attr(dw_at_high_pc, dw_form_addr, end)
             \o (IF sub.linkage_name # None THEN Attr(dw_at_linkage_name, dw_form_string, sub.linkage_name) ELSE <<>>)
             \o (IF sub.name # None THEN Attr(dw_at_name, dw_form_string, sub.name)
                 ELSE IF sub.linkage_name # None THEN Attr(dw_at_name, dw_form_string, get_demangled_name(sub))
                 ELSE <<>>)]

\* A subprogram that is within none and within a function of the file gets an entry and
\* a symbol, both for all the code of the function.
WriteSubprogram(info, map, code_start, out, sub) ==
  LET fn == get_wasm_fn(info, info.wasm_code_offset + sub.begin)
      begin == code_start + map.fn_locs[fn].code_prologue
      end == code_start + map.fn_locs[fn].code_end
  IN IF fn = None \/ sub.parent # None THEN out
     ELSE IF info.wasm_code_offset + sub.end > info.wasm_fns[fn].end_pos THEN out
     ELSE [write_die(out, subprogram_die(sub, begin, end)) EXCEPT
             !.symbols = Append(@, [value |-> begin, size |-> end - begin,
                                    name |-> IF sub.linkage_name # None THEN sub.linkage_name ELSE sub.name])]

compile_unit_die(code_start, code_size) ==
  [tag |-> dw_tag_compile_unit, has_children |-> TRUE,
   attrs |-> Attr(dw_at_low_pc, dw_form_addr, code_start) \o Attr(dw_at_high_pc, dw_form_addr, code_start + code_size)]

write_subprograms(info, map, code_start) ==
  LET empty == [abbrevs |-> <<>>, unit |-> <<>>, symbols |-> <<>>]
      written == FoldLeft(LAMBDA out, sub : WriteSubprogram(info, map, code_start, out, sub),
                          write_die(empty, compile_unit_die(code_start, map.code_size)), info.subprograms)
  IN [written EXCEPT !.unit = @ \o <<0, 0>>]

-----------------------------------------------------------------------------
(* The list of what is registered with the debugger, which walks it from    *)
(* `first`: entries are added in front and leave in any order.              *)

NoEntries == [first |-> None, next |-> <<>>, prev |-> <<>>]

reg(list, entry) ==
  [first |-> entry,
   next |-> (entry :> list.first) @@ list.next,
   prev |-> (entry :> None) @@ (IF list.first = None THEN list.prev ELSE [list.prev EXCEPT ![list.first] = entry])]

unregister(list, entry) ==
  LET next == list.next[entry]
      prev == list.prev[entry]
      Without(links) == [e \in DOMAIN links \ {entry} |-> links[e]]
  IN [first |-> IF list.first = entry THEN next ELSE list.first,
      next |-> Without(IF prev = None THEN list.next ELSE [list.next EXCEPT ![prev] = next]),
      prev |-> Without(IF next = None THEN list.prev ELSE [list.prev EXCEPT ![next] = prev])]
=============================================================================
