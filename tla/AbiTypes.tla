------------------------------ MODULE AbiTypes ------------------------------
(***************************************************************************)
(* How abieos turns an ABI definition, where types are named by strings,    *)
(* into a map of types that point to each other: abi.cpp, convert, get_type,*)
(* resolve and fill, and convert back to a definition.                      *)
(*                                                                         *)
(* A type name is a sequence: a base name and its suffixes, <<"A", "[]">>.  *)
(* The map gives each name its data, a record with a kind as in             *)
(* abi_type::_data; a pointer to a type is the name of its entry.  Every    *)
(* operator that may throw returns [error |-> ...] instead of a result.     *)
(***************************************************************************)
EXTENDS Naturals, Sequences, SequencesExt, FiniteSetsExt

CONSTANT MaxDepth   \* the depth at which recursion is given up: 32

ASSUME MaxDepthAssumption == MaxDepth \in Nat \ {0}

Builtins == {"bool", "uint8", "asset", "name"}
TypeSuffixes == {"?", "[]", "$"}

Failed(why) == [error |-> why]
Got(types, type) == [types |-> types, type |-> type]
IsError(r) == "error" \in DOMAIN r

Put(types, name, data) == [n \in DOMAIN types \cup {name} |-> IF n = name THEN data ELSE types[n]]

KindOfSuffix == [s \in TypeSuffixes |-> CASE s = "?" -> "optional" [] s = "[]" -> "array" [] s = "$" -> "extension"]

\* What a suffix may not be added to.
MayNotNest == [s \in TypeSuffixes |-> IF s = "$" THEN {"extension"} ELSE {"optional", "array", "extension"}]

-----------------------------------------------------------------------------
RECURSIVE GetType(_, _, _), ResolveStruct(_, _, _)

\* A name that is not in the map yet gets an entry when it ends with a suffix.
AddSuffixed(types, name, depth) ==
  IF Len(name) = 1
  THEN Failed("unknown_type")
  ELSE LET r == GetType(types, Front(name), depth + 1)
       IN IF IsError(r) THEN r
          ELSE IF r.types[r.type].kind \in MayNotNest[Last(name)]
          THEN Failed("invalid_nesting")
          ELSE Got(Put(r.types, name, [kind |-> KindOfSuffix[Last(name)], of |-> r.type]), name)

\* resolve of an alias_def: what it names, which is not an extension.
ResolveAlias(types, name, depth) ==
  LET r == GetType(types, types[name].def, depth + 1)
  IN IF IsError(r) THEN r
     ELSE IF r.types[r.type].kind = "extension" THEN Failed("extension_typedef")
     ELSE Got([r.types EXCEPT ![name] = [kind |-> "alias", of |-> r.type]], r.type)

GetType(types, name, depth) ==
  IF depth >= MaxDepth THEN Failed("recursion_limit_reached")
  ELSE IF name \notin DOMAIN types THEN AddSuffixed(types, name, depth)
  ELSE CASE types[name].kind = "alias" -> Got(types, types[name].of)
         [] types[name].kind = "alias_def" -> ResolveAlias(types, name, depth)
         [] OTHER -> Got(types, name)

\* Looks up the names of a sequence of [name, type] one after another; the result
\* has the fields with the entries they point to.
ResolveFields(types, fields, start, depth) ==
  FoldLeft(LAMBDA acc, f:
             IF IsError(acc) THEN acc
             ELSE LET r == GetType(acc.types, f.type, depth + 1)
                  IN IF IsError(r) THEN r
                     ELSE [types |-> r.types, fields |-> Append(acc.fields, [name |-> f.name, type |-> r.type])],
           [types |-> types, fields |-> start], fields)

\* Mutant: a base that is still a definition gives only the fields it lists itself.
ResolveBaseUnresolved(types, def, depth) ==
  IF def.base = <<>>
  THEN [types |-> types, fields |-> <<>>]
  ELSE LET r == GetType(types, def.base, depth + 1)
           data == r.types[r.type]
       IN IF IsError(r) THEN r
          ELSE CASE data.kind = "struct_def" -> ResolveFields(r.types, data.def.fields, <<>>, depth)
                 [] data.kind = "struct" -> [types |-> r.types, fields |-> data.fields]
                 [] OTHER -> Failed("base_not_a_struct")

\* The fields of a base come first; the base is resolved on the way.
ResolveBase(types, def, depth) ==
  IF def.base = <<>>
  THEN [types |-> types, fields |-> <<>>]
  ELSE LET r == GetType(types, def.base, depth + 1)
           data == r.types[r.type]
       IN IF IsError(r) THEN r
          ELSE CASE data.kind = "struct_def" -> ResolveStruct(r.types, r.type, depth + 1)
                 [] data.kind = "struct" -> [types |-> r.types, fields |-> data.fields]
                 [] OTHER -> Failed("base_not_a_struct")

ResolveStruct(types, name, depth) ==
  IF depth >= MaxDepth THEN Failed("recursion_limit_reached")
  ELSE LET def == types[name].def
           b == ResolveBase(types, def, depth)
           r == ResolveFields(b.types, def.fields, b.fields, depth)
       IN IF IsError(b) THEN b
          ELSE IF IsError(r) THEN r
          ELSE [types |-> [r.types EXCEPT ![name] = [kind |-> "struct", fields |-> r.fields]],
                fields |-> r.fields]

ResolveVariant(types, name) ==
  LET r == ResolveFields(types, types[name].def.fields, <<>>, 0)
  IN IF IsError(r) THEN r
     ELSE [types |-> [r.types EXCEPT ![name] = [kind |-> "variant", fields |-> r.fields]]]

\* fill: what is still a definition is replaced by what it stands for.
Fill(r, name) ==
  IF IsError(r) THEN r
  ELSE CASE r.types[name].kind = "alias_def" -> ResolveAlias(r.types, name, 0)
         [] r.types[name].kind = "struct_def" -> ResolveStruct(r.types, name, 0)
         [] r.types[name].kind = "variant_def" -> ResolveVariant(r.types, name)
         [] OTHER -> r

-----------------------------------------------------------------------------
\* The types every map begins with; extended_asset is a struct made by hand.
BuiltinTypes ==
  [n \in {<<b>> : b \in Builtins} \cup {<<"extended_asset">>} |->
     IF n[1] \in Builtins THEN [kind |-> "builtin"]
     ELSE [kind |-> "struct",
           fields |-> <<[name |-> "quantity", type |-> <<"asset">>], [name |-> "contract", type |-> <<"name">>]>>]]

\* A definition of one of the three lists is added under its name.
Declare(r, name, data) ==
  IF IsError(r) THEN r
  ELSE IF name = "" THEN Failed("missing_name")
  ELSE IF <<name>> \in DOMAIN r.types THEN Failed("redefined_type")
  ELSE [types |-> Put(r.types, <<name>>, data)]

Declared(def) ==
  LET types == FoldLeft(LAMBDA r, t: Declare(r, t.name, [kind |-> "alias_def", def |-> t.type]),
                        [types |-> BuiltinTypes], def.types)
      structs == FoldLeft(LAMBDA r, s: Declare(r, s.name, [kind |-> "struct_def", def |-> s]), types, def.structs)
  IN FoldLeft(LAMBDA r, v: Declare(r, v.name, [kind |-> "variant_def", def |-> v]), structs, def.variants)

\* std::map: filled in the order of the names, which order decides nothing but which
\* error is met first.  Entries that fill itself adds have nothing to fill.
Convert(def) ==
  LET declared == Declared(def)
  IN IF IsError(declared) THEN declared
     ELSE FoldSet(LAMBDA name, r: Fill(r, name), declared, DOMAIN declared.types)

\* convert in the other direction.  The base of a struct is never recorded, so all its
\* fields, inherited ones too, are listed.
ToDef(types) ==
  LET Listed(kind, Def(_)) ==
        FoldSet(LAMBDA n, defs: IF types[n].kind = kind THEN Append(defs, Def(n)) ELSE defs,
                <<>>, DOMAIN types \ {<<"extended_asset">>})
      Pointees(fields) == [j \in DOMAIN fields |-> [name |-> fields[j].type, type |-> fields[j].type]]
  IN [types |-> Listed("alias", LAMBDA n: [name |-> n[1], type |-> types[n].of]),
      structs |-> Listed("struct", LAMBDA n: [name |-> n[1], base |-> <<>>, fields |-> types[n].fields]),
      variants |-> Listed("variant", LAMBDA n: [name |-> n[1], fields |-> Pointees(types[n].fields)])]
=============================================================================
