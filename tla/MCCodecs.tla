------------------------------ MODULE MCCodecs ------------------------------
(***************************************************************************)
(* The conversions of abieos on small inputs.  The part that goes a step at *)
(* a time is AbiJson; the others are functions, and a step takes a `sample` *)
(* of their inputs, with `phase` at "sample".                               *)
(***************************************************************************)
EXTENDS AbiTypes, Integers, FiniteSetsExt, TLC

CONSTANTS
  MaxStackSize, NameLength, CodeLength, AmountBits, Interval, Epoch, TimeBits, UsPerMs, MsPerSecond,
  ByteValues, Types, Documents, Inputs

VARIABLES sample, root, doc, phase, state, bin, reordered, text, again

vars == <<sample, root, doc, phase, state, bin, reordered, text, again>>

J == INSTANCE JsonTokens

-----------------------------------------------------------------------------
(* An ABI for AbiJson: inheritance, optionals, extensions, arrays, a        *)
(* variant, an alias and a struct that may contain itself.                  *)

F(name, type) == [name |-> name, type |-> type]
U8 == <<"uint8">>

AbiDef ==
  [types |-> <<[name |-> "maybe", type |-> <<"uint8", "?">>]>>,
   structs |-> <<[name |-> "P", base |-> <<>>, fields |-> <<F("a", U8), F("b", <<"bool", "$">>)>>],
                 [name |-> "R", base |-> <<>>, fields |-> <<F("a", U8)>>],
                 [name |-> "L", base |-> <<>>, fields |-> <<F("next", <<"L", "?">>)>>],
                 [name |-> "S", base |-> <<"R">>,
                  fields |-> <<F("m", <<"maybe">>), F("e", <<"P", "$">>), F("f", <<"V", "$">>)>>]>>,
   variants |-> <<[name |-> "V", fields |-> <<F("uint8", U8), F("R", <<"R">>), F("P", <<"P">>)>>]>>]

Roots == {<<"P", "[]">>, <<"S">>, <<"V">>, <<"L">>, <<"L", "[]">>}
\* What convert makes of it (see AbiConverts), with the entries get_type adds for the roots.
SuffixedTypes ==
  [t \in {<<"P", "[]">>, <<"L", "[]">>, <<"uint8", "?">>, <<"L", "?">>, <<"P", "$">>, <<"V", "$">>, <<"bool", "$">>} |->
     [kind |-> KindOfSuffix[t[2]], of |-> <<t[1]>>]]
AbiMap ==
  BuiltinTypes @@ SuffixedTypes @@
  <<"maybe">> :> [kind |-> "alias", of |-> <<"uint8", "?">>] @@
  <<"P">> :> [kind |-> "struct", fields |-> AbiDef.structs[1].fields] @@
  <<"R">> :> [kind |-> "struct", fields |-> <<F("a", U8)>>] @@
  <<"L">> :> [kind |-> "struct", fields |-> <<F("next", <<"L", "?">>)>>] @@
  <<"S">> :> [kind |-> "struct", fields |-> <<F("a", U8), F("m", <<"uint8", "?">>), F("e", <<"P", "$">>), F("f", <<"V", "$">>)>>] @@
  <<"V">> :> [kind |-> "variant", fields |-> AbiDef.variants[1].fields]

\* Documents of a type, or nearly.
Arrangements(fs) ==
  {SubSeq(fs, 1, k) : k \in 0..Len(fs)} \cup {Reverse(fs)} \cup {RemoveAt(fs, i) : i \in DOMAIN fs}

\* A document of the type.
RECURSIVE Good(_)
Good(type) ==
  LET t == Types[type]
  IN CASE t.kind = "builtin" -> IF type = U8 THEN J!Text("1") ELSE J!Bool(TRUE)
       [] t.kind = "optional" -> IF type = <<"L", "?">> THEN J!Null ELSE Good(t.of)
       [] t.kind \in {"alias", "extension"} -> Good(t.of)
       [] t.kind = "array" -> J!Array(<<Good(t.of)>>)
       [] t.kind = "struct" -> J!Object([i \in DOMAIN t.fields |-> J!Member(t.fields[i].name, Good(t.fields[i].type))])
       [] t.kind = "variant" -> J!Array(<<J!Text(t.fields[2].name), Good(t.fields[2].type)>>)

\* Objects with these fields, one of which is only nearly of its type.
RECURSIVE Near(_, _)
Objects(fs, d) ==
  {<<>>} \cup
  UNION {{[j \in DOMAIN fs |-> J!Member(fs[j].name, IF j = i THEN v ELSE Good(fs[j].type))] : v \in Near(fs[i].type, d - 1)}
           : i \in DOMAIN fs}

Near(type, d) ==
  LET t == Types[type]
  IN IF d = 0 THEN {J!Null}
     ELSE CASE t.kind = "builtin" -> IF type = U8 THEN {J!Text("0"), J!Null} ELSE {J!Bool(TRUE), J!Text("0")}
            [] t.kind \in {"optional", "alias"} -> Near(t.of, d) \cup {J!Null}
            [] t.kind = "extension" -> Near(t.of, d)
            [] t.kind = "array" -> LET near == Near(t.of, d - 1)
                                   IN {J!Array(<<>>)} \cup {J!Array(<<x>>) : x \in near}
                                      \cup {J!Array(<<x, y>>) : x, y \in near}
            [] t.kind = "struct" -> LET fs == UNION {Objects(a, d) : a \in Arrangements(t.fields)}
                                    IN {J!Object(o) : o \in fs}
                                       \cup {J!Object(Append(o, J!Member("z", J!Null))) : o \in Objects(t.fields, d)}
            [] t.kind = "variant" -> UNION {{J!Array(<<J!Text(f.name), v>>) : v \in Near(f.type, d - 1)}
                                              : f \in Range(t.fields)}
                                     \cup {J!Array(<<>>), J!Array(<<J!Text("R")>>), J!Text("R"),
                                           J!Array(<<J!Text("z"), J!Null>>), J!Array(<<J!Null, J!Null>>),
                                           J!Array(<<J!Text("uint8"), J!Text("0"), J!Null>>)}

DepthFor == [type \in Roots |-> IF type = <<"L">> THEN 5 ELSE IF type = <<"S">> THEN 4 ELSE 3]
MCDocuments == UNION {{[type |-> type, doc |-> v] : v \in Near(type, DepthFor[type])} : type \in Roots}
MCInputs == {[type |-> type, bytes |-> b] : type \in Roots, b \in UNION {[1..n -> {0, 1}] : n \in 0..5}}

A == INSTANCE AbiJson

-----------------------------------------------------------------------------
(* Definitions for AbiTypes, good and bad, and what makes one good. *)

Named(base) == {<<base>>, <<base, "?">>, <<base, "[]">>, <<base, "$">>, <<base, "?", "$">>, <<base, "[]", "?">>}
AliasTypes == UNION {Named(b) : b \in {"uint8", "A", "V", "T", "X"}}

AbiDefs ==
  {[types |-> <<[name |-> "T", type |-> t]>>,
    structs |-> <<[name |-> "A", base |-> a, fields |-> <<F("f", U8), F("g", g)>>],
                  [name |-> "B", base |-> b, fields |-> h]>>,
    variants |-> <<[name |-> "V", fields |-> <<F("v", v), F("A", <<"A">>)>>]>>] :
     t \in AliasTypes, a \in {<<>>, <<"B">>, <<"T">>}, b \in {<<>>, <<"A">>, <<"T">>, <<"V">>},
     g \in {<<"T", "[]">>, <<"B", "$">>, <<"A", "?", "$">>}, h \in {<<>>, <<F("h", <<"T">>)>>},
     v \in {<<"T">>, <<"T", "?">>}}
  \cup {[types |-> <<[name |-> n, type |-> U8]>>,
         structs |-> <<[name |-> m, base |-> <<>>, fields |-> <<>>]>>,
         variants |-> <<[name |-> v, fields |-> <<>>]>>] :
          n \in {"T", "", "uint8"}, m \in {"A", "T", "extended_asset"}, v \in {"V", "T", "A", ""}}

AliasesOf(def) == [n \in {def.types[i].name : i \in DOMAIN def.types} |->
                     (CHOOSE t \in Range(def.types) : t.name = n).type]
StructsOf(def) == [n \in {def.structs[i].name : i \in DOMAIN def.structs} |->
                     CHOOSE t \in Range(def.structs) : t.name = n]
DeclaredNames(def) ==
  [i \in DOMAIN def.types |-> def.types[i].name] \o [i \in DOMAIN def.structs |-> def.structs[i].name]
  \o [i \in DOMAIN def.variants |-> def.variants[i].name]
Known(def) == Range(DeclaredNames(def)) \cup Builtins \cup {"extended_asset"}

\* A name with its aliases expanded, at most n times; a cycle is never expanded.
RECURSIVE Expanded(_, _, _)
Expanded(def, name, n) ==
  IF n > 0 /\ name[1] \in DOMAIN AliasesOf(def)
  THEN Expanded(def, AliasesOf(def)[name[1]] \o Tail(name), n - 1)
  ELSE name
FullName(def, name) == Expanded(def, name, Cardinality(DOMAIN AliasesOf(def)))

\* The entry a name leads to: only a bare alias leads elsewhere.
RECURSIVE EntryOf(_, _)
EntryOf(def, name) ==
  IF Len(name) = 1 /\ name[1] \in DOMAIN AliasesOf(def) THEN EntryOf(def, AliasesOf(def)[name[1]]) ELSE name

Allowed(def, name) ==
  LET full == FullName(def, name)
  IN /\ full[1] \in Known(def) \ DOMAIN AliasesOf(def)
     /\ Tail(full) \in {<<>>, <<"?">>, <<"[]">>, <<"$">>, <<"?", "$">>, <<"[]", "$">>}

Bases(def, s) == IF s.base = <<>> THEN {} ELSE {FullName(def, s.base)[1]}
RECURSIVE Ancestors(_, _, _)
Ancestors(def, names, n) ==
  IF n = 0 THEN names
  ELSE Ancestors(def, UNION {Bases(def, StructsOf(def)[m]) : m \in names \cap DOMAIN StructsOf(def)}, n - 1)

IsDistinct(q) == Cardinality(Range(q)) = Len(q)

WellFormed(def) ==
  /\ "" \notin Range(DeclaredNames(def))
  /\ IsDistinct(DeclaredNames(def))
  /\ Range(DeclaredNames(def)) \cap (Builtins \cup {"extended_asset"}) = {}
  /\ \A t \in Range(def.types) : Allowed(def, t.type) /\ Last(FullName(def, t.type)) # "$"
  /\ \A s \in Range(def.structs) :
       /\ \A f \in Range(s.fields) : Allowed(def, f.type)
       /\ s.base # <<>> => /\ Allowed(def, s.base)
                           /\ FullName(def, s.base) \in {<<n>> : n \in DOMAIN StructsOf(def)}
  /\ \A v \in Range(def.variants) : \A f \in Range(v.fields) : Allowed(def, f.type)
  /\ \A n \in DOMAIN StructsOf(def) : Ancestors(def, {n}, Cardinality(DOMAIN StructsOf(def))) = {}

RECURSIVE FieldsOf(_, _)
FieldsOf(def, name) ==
  LET s == StructsOf(def)[name]
  IN (IF s.base = <<>> THEN <<>> ELSE FieldsOf(def, FullName(def, s.base)[1]))
     \o [i \in DOMAIN s.fields |-> F(s.fields[i].name, EntryOf(def, s.fields[i].type))]

ConvertsWell(def, r, back) ==
  /\ IsError(r) <=> ~WellFormed(def)
  /\ ~IsError(r) =>
       /\ \A n \in DOMAIN StructsOf(def) : r.types[<<n>>].fields = FieldsOf(def, n)
       /\ ~IsError(back)
       /\ \A n \in DOMAIN StructsOf(def) : back.types[<<n>>] = r.types[<<n>>]
       /\ \A v \in Range(def.variants) : \A i \in DOMAIN v.fields :
            back.types[<<v.name>>].fields[i].type = r.types[<<v.name>>].fields[i].type
  /\ def = AbiDef => FoldSet(LAMBDA name, acc: GetType(acc.types, name, 0), r, Roots).types = AbiMap
ConvertedBack(r) == IF IsError(r) THEN r ELSE Convert(ToDef(r.types))

\* convert of abi.cpp accepts exactly the well-formed definitions: names declared once
\* and known, no cycle of aliases or of bases, suffixes nested as allowed.  A struct gets
\* the fields of its bases and then its own; and the definition made of the result
\* converts to the same structs and variants.
AbiConverts ==
  [][sample'.of = "abi" =>
       LET r == Convert(sample'.def) IN ConvertsWell(sample'.def, r, ConvertedBack(r))]_vars

-----------------------------------------------------------------------------
(* Values for Reflected. *)

\* Stands for the first bytes of ripemd160: a sum in which places and suffixes count.
Digest(bytes, suffix) ==
  LET seed == CASE suffix = "" -> 1 [] suffix = "K1" -> 2 [] suffix = "R1" -> 3 [] suffix = "WA" -> 4
      h == FoldLeft(LAMBDA n, b: (31 * n + b + 1) % 65521, seed, bytes)
  IN <<h % 256, h \div 256, (h * 5) % 256, (h * 3) % 251>>

B == INSTANCE Reflected

Uint(w) == [kind |-> "uint", width |-> w]
Sint(w) == [kind |-> "int", width |-> w]
OfKind(k) == [kind |-> k]
Of(k, t) == [kind |-> k, of |-> t]
Pair(s, t) == [kind |-> "struct", fields |-> <<[name |-> "first", type |-> s], [name |-> "second", type |-> t]>>]
Either(s, t) == [kind |-> "variant", names |-> <<"l", "r">>, alts |-> <<s, t>>]
Flag == OfKind("bool")
Bytes == OfKind("string")

KeyTypes ==
  {Flag, Uint(1), Sint(1), Uint(2), Sint(2), OfKind("varuint32"), Bytes,
   Of("vector", Uint(1)), Of("vector", Flag), Of("vector", Sint(2)), Of("vector", Bytes),
   Of("vector", Of("optional", Uint(1))), Of("optional", Sint(1)), Of("optional", Bytes),
   [kind |-> "array", of |-> Of("optional", Flag), size |-> 2],
   Pair(Of("vector", Uint(1)), Sint(1)), Pair(Bytes, Bytes), Either(Bytes, Of("vector", Flag))}
MoreTypes == {OfKind("varint32"), OfKind("bytes"), Of("vector", OfKind("varint32")), Pair(Either(Uint(1), Flag), Of("optional", Flag))}

Numbers(t) ==
  CASE t = Uint(1) -> {0, 1, 255}
    [] t = Sint(1) -> {-128, -1, 0, 127}
    [] t = Uint(2) -> {0, 1, 255, 256, 65535}
    [] t = Sint(2) -> {-32768, -256, -1, 0, 300}
    [] t = OfKind("varuint32") -> {0, 127, 128, 255, 256, 16383, 16384, 65536, 2097151}
    [] t = OfKind("varint32") -> {-65, -64, -1, 0, 63, 64, 8191, 8192, -8193}

RECURSIVE Values(_, _)
Values(t, size) ==
  CASE t = Flag -> {0, 1}
    [] t.kind \in {"string", "bytes"} -> SeqOf({0, 1, 7}, size)
    [] t.kind = "vector" -> SeqOf(Values(t.of, 1), size)
    [] t.kind = "optional" -> {<<>>} \cup {<<v>> : v \in Values(t.of, size)}
    [] t.kind = "array" -> [1..t.size -> Values(t.of, size)]
    [] t.kind = "variant" -> UNION {{[index |-> i - 1, v |-> v] : v \in Values(t.alts[i], size)} : i \in {1, 2}}
    [] t.kind = "struct" -> {<<v, w>> : v \in Values(t.fields[1].type, size), w \in Values(t.fields[2].type, size)}
    [] OTHER -> Numbers(t)

\* Which of two values is less, as C++ compares them.
RECURSIVE Less(_, _, _)
Lexicographic(ts, a, b) ==
  \E i \in DOMAIN b :
    /\ \A j \in 1..(i - 1) : j <= Len(a) /\ a[j] = b[j]
    /\ i > Len(a) \/ Less(ts[i], a[i], b[i])
Less(t, a, b) ==
  CASE t.kind = "string" -> Lexicographic([i \in DOMAIN b |-> Uint(1)], a, b)
    [] t.kind \in {"vector", "array", "optional"} -> Lexicographic([i \in DOMAIN b |-> t.of], a, b)
    [] t.kind = "variant" -> a.index < b.index \/ (a.index = b.index /\ Less(t.alts[a.index + 1], a.v, b.v))
    [] t.kind = "struct" -> Lexicographic([i \in DOMAIN b |-> t.fields[i].type], a, b)
    [] OTHER -> a < b

\* The keys of two values are ordered as the values are, and neither is a prefix of the
\* other: to_key.hpp:19-25, on which keys of several members depend.
KeyKeepsOrder(t, v) ==
  \A b \in Values(t, 2) :
    LET x == B!ToKey(t, v)
        y == B!ToKey(t, b)
    IN /\ Less(t, v, b) <=> Lexicographic([i \in DOMAIN y |-> Uint(1)], x, y)
       /\ IsPrefix(x, y) => v = b

\* A document of an object in which members of no field are mixed, and the order is another.
Scrambled(json) ==
  IF json.k # "object" THEN json
  ELSE J!Object(<<J!Member("x", J!Object(<<J!Member("first", J!Null)>>))>> \o Reverse(json.fs)
                \o <<J!Member("y", J!Array(<<J!Array(<<>>), J!Null>>))>>)

\* What is written as binary or as JSON reads back as it was, whatever follows it, in
\* objects whatever the order of the members and whatever other members there are; and
\* binary data that ends early is refused.
ValueReadsBack(t, v) ==
    LET out == B!ToBin(t, v)
        json == B!ToJson(t, v)
    IN /\ B!FromBin(t, out \o <<1>>) = B!Result(v, <<1>>)
       /\ \A n \in 0..(Len(out) - 1) : B!FromBin(t, SubSeq(out, 1, n)) = B!Error("overrun")
       /\ t.kind # "array" =>  \* arrays have no JSON
            \A d \in {json, Scrambled(json)} : B!FromJson(t, J!Tokens(d), B!Fresh(t)) = B!Result(v, <<>>)

\* The number a text stands for, if it is one.
NumeralOf(chars) == FoldLeft(LAMBDA n, c: 10 * n + B!DigitValue[c], 0, chars)
IsNumeral(chars) == chars # <<>> /\ Range(chars) \subseteq Range(B!Digits)

\* A text is read as an integer exactly if it is a numeral, with a sign where the type has
\* one, and within the limits of the type: from_json_int keeps each step within the type.
IntegerInRange(t, numeral) ==
    LET minus == t.kind = "int" /\ numeral # <<>> /\ numeral[1] = "-"
        digits == IF minus THEN Tail(numeral) ELSE numeral
        n == IF minus THEN -NumeralOf(digits) ELSE NumeralOf(digits)
        r == B!from_json_int(t, numeral)
    IN /\ ~B!IsError(r) <=> IsNumeral(digits) /\ B!Limits(t).min <= n /\ n <= B!Limits(t).max
       /\ ~B!IsError(r) => r.v = n

\* A value of a type of the state history, and those that deviate from it in one place.
RECURSIVE Plain(_)
Plain(t) ==
  CASE t.kind \in {"bool", "uint", "varuint32"} -> 1
    [] t.kind \in {"string", "bytes"} -> <<1>>
    [] t.kind \in {"vector", "optional"} -> <<Plain(t.of)>>
    [] t.kind = "array" -> B!Times(t.size, Plain(t.of))
    [] t.kind = "might_not_exist" -> Plain(t.of)
    [] t.kind = "variant" -> [index |-> 0, v |-> Plain(t.alts[1])]
    [] t.kind = "struct" -> [i \in DOMAIN t.fields |-> Plain(t.fields[i].type)]

RECURSIVE Deviations(_)
Deviations(t) ==
  CASE t.kind \in {"bool", "uint"} -> {0} \cup (IF t.kind = "uint" THEN {256^t.width - 1} ELSE {})
    [] t.kind = "varuint32" -> {0, 127, 128, 16384}
    [] t.kind \in {"string", "bytes"} -> {<<>>, <<0, 255>>}
    [] t.kind = "vector" -> {<<>>, <<Plain(t.of), Plain(t.of)>>} \cup {<<v>> : v \in Deviations(t.of)}
    [] t.kind = "optional" -> {<<>>} \cup {<<v>> : v \in Deviations(t.of)}
    [] t.kind = "array" -> {[Plain(t) EXCEPT ![1] = 0], [Plain(t) EXCEPT ![t.size] = 255]}
    [] t.kind = "might_not_exist" -> Deviations(t.of)
    [] t.kind = "variant" -> UNION {{[index |-> i - 1, v |-> v] : v \in {Plain(t.alts[i])} \cup Deviations(t.alts[i])}
                                      : i \in DOMAIN t.alts}
    [] t.kind = "struct" -> UNION {{[Plain(t) EXCEPT ![i] = v] : v \in Deviations(t.fields[i].type)} : i \in DOMAIN t.fields}

Plains(t) == IF t.kind = "variant" THEN {[index |-> i - 1, v |-> Plain(t.alts[i])] : i \in DOMAIN t.alts} ELSE {Plain(t)}

\* The struct of a variant's alternative whose last member may be missing, and where in the
\* data of a value it would begin.
LastMember(t, v) ==
  LET s == IF t.kind = "variant" THEN t.alts[v.index + 1] ELSE t
      m == IF t.kind = "variant" THEN v.v ELSE v
  IN IF s.kind = "struct" /\ s.fields # <<>> /\ Last(s.fields).type.kind = "might_not_exist"
     THEN [is |-> TRUE, begin |-> Len(B!ToBin(t, v)) - Len(B!ToBin(Last(s.fields).type, Last(m))),
           without |-> LET old == [m EXCEPT ![Len(m)] = B!Fresh(Last(s.fields).type)]
                       IN IF t.kind = "variant" THEN [v EXCEPT !.v = old] ELSE old]
     ELSE [is |-> FALSE]

\* A message of the state history reads back, whatever follows it; one that ends early is
\* refused, but that an older node's may end before a member that might not exist.
ShipReadsBack(t, v) ==
  LET out == B!ToBin(t, v)
      last == LastMember(t, v)
  IN /\ B!FromBin(t, out \o <<1>>) = B!Result(v, <<1>>)
     /\ v \in Plains(t) =>
          \A n \in 0..(Len(out) - 1) :
            B!FromBin(t, SubSeq(out, 1, n)) =
              IF last.is /\ n = last.begin THEN B!Result(last.without, <<>>) ELSE B!Error("overrun")

Statuses == 0..5
StatusReadsBack(status) ==
  IF status < 5 THEN B!get_transaction_status(B!to_string(status).v) = [v |-> status] ELSE B!IsError(B!to_string(status))

\* A key has one text, which reads back as the key; under the prefix of another kind of key
\* it is refused; and the texts from before prefixes are read too.
KeyReadsBack(kind, key) ==
  LET shown == B!key_to_string(kind, key)
      bytes == B!ToBin(B!KeyKinds[kind].type, key)
  IN /\ B!key_from_string(kind, shown) = [v |-> key]
     /\ \A p \in Range(B!KeyKinds[kind].prefixes) \ {shown.prefix} :
          B!IsError(B!key_from_string(kind, [shown EXCEPT !.prefix = p]))
     /\ \A other \in DOMAIN B!KeyKinds \ {kind} : B!IsError(B!key_from_string(other, shown))
     /\ key.index = 0 =>
          /\ kind = "public" =>
               B!key_from_string(kind, [prefix |-> "EOS", digits |-> B!binary_to_base58(Tail(bytes) \o Digest(Tail(bytes), ""))])
                 = [v |-> key]
          /\ kind = "private" =>
               B!key_from_string(kind, [prefix |-> "", digits |-> B!binary_to_base58(<<128>> \o Tail(bytes) \o <<0, 0, 0, 0>>)])
                 = [v |-> key]

\* Bytes and base58 digits stand for each other, zeros in front included.
Base58ReadsBack(s) ==
  /\ B!base58_to_binary(B!binary_to_base58(s)) = [v |-> s]
  /\ Range(s) \subseteq 0..(B!Base58 - 1) => B!binary_to_base58(B!base58_to_binary(s).v) = s

\* What to_bin and to_json write, from_bin and from_json read back; from_json takes for an
\* integer exactly what is one of its type; and keys sort as their values do.  So do the
\* messages and the table rows of the state history, and the texts of keys.
ReflectedReadsBack ==
  [][/\ sample'.of = "value" => ValueReadsBack(sample'.type, sample'.v)
     /\ sample'.of = "int" => IntegerInRange(sample'.type, sample'.text)
     /\ sample'.of = "key" => KeyKeepsOrder(sample'.type, sample'.v)
     /\ sample'.of = "ship" => ShipReadsBack(sample'.type, sample'.v)
     /\ sample'.of = "status" => StatusReadsBack(sample'.v)
     /\ sample'.of = "key text" => KeyReadsBack(sample'.kind, sample'.v)
     /\ sample'.of = "base58" => Base58ReadsBack(sample'.v)]_vars

-----------------------------------------------------------------------------
(* Values for ChainTypes. *)

C == INSTANCE ChainTypes

Digits == {0, 1, 15, 16, 31}
Names == {n \in [1..NameLength -> Digits] : n[NameLength] < 16}
NameTexts == SeqOf({".", "5", "a", "j", "k", "A"}, NameLength + 1)

CodeBytes == [1..(CodeLength + 1) -> {"", "A", "Z", "a"}]
Codes == {c \in CodeBytes : C!CodeIsValid(c) /\ c[CodeLength + 1] = ""}
AmountLimit == 2^(AmountBits - 1)
Amounts == {x \in (-AmountLimit)..(AmountLimit - 1) : x % 7 = 0 \/ x \in {-AmountLimit, AmountLimit - 1}
                                                     \/ (x + AmountLimit \div 2) \in -2..2
                                                     \/ (x - AmountLimit \div 2) \in -2..2}
Assets == {[amount |-> x, symbol |-> [precision |-> p, code |-> c]] : x \in Amounts, p \in {0, 1, 3}, c \in Codes}
Symbols == {[precision |-> p, code |-> c] : p \in {0, 9, 10, 255}, c \in Codes}

Days == 0..49710  \* until 32 bits of seconds end
Times == {[day |-> d, sec |-> s, usec |-> u] :
            d \in {0, 59, 10956, 11016, 19723, 49709}, s \in {0, 59, 3599, 43200, 86399}, u \in {0, 999, 1000, 500000, 999999}}

IsLeapYear(y) == y % 4 = 0 /\ (y % 100 # 0 \/ y % 400 = 0)
MonthDays(y, m) == IF m = 2 THEN (IF IsLeapYear(y) THEN 29 ELSE 28) ELSE IF m \in {4, 6, 9, 11} THEN 30 ELSE 31
NextDate(date) ==
  IF date.d < MonthDays(date.y, date.m) THEN [date EXCEPT !.d = @ + 1]
  ELSE IF date.m < 12 THEN [date EXCEPT !.m = @ + 1, !.d = 1]
  ELSE [y |-> date.y + 1, m |-> 1, d |-> 1]

\* The parts of a text between dots, the dots at its end left out.
LastDot(chars) == SelectLastInSeq(chars, LAMBDA c: c = ".")
NameParts(name) ==
  LET chars == C!name_to_string(name)
  IN [before |-> IF LastDot(chars) = 0 THEN chars ELSE C!DropTrailing(SubSeq(chars, 1, LastDot(chars) - 1), "."),
      after |-> SubSeq(chars, LastDot(chars) + 1, Len(chars))]

NameSampled(name) ==
  /\ C!try_string_to_name_strict(C!name_to_string(name)) = C!Value(name)
  /\ C!name_to_string(C!NameSuffix(name)) = NameParts(name).after
  /\ C!name_to_string(C!NamePrefix(name)) = NameParts(name).before

NameTextSampled(chars) ==
  LET r == C!try_string_to_name_strict(chars)
  IN /\ ~C!IsError(r) <=> /\ Len(chars) <= NameLength
                          /\ "A" \notin Range(chars)
                          /\ Len(chars) = NameLength => Last(chars) # "k"
     /\ ~C!IsError(r) => /\ r.v = C!string_to_name(chars)
                         /\ C!name_to_string(r.v) = C!DropTrailing(chars, ".")
                         /\ C!NameSize(r.v) = Len(C!DropTrailing(chars, "."))

\* What has a text reads back from it: names, symbols, assets of any amount, and times,
\* but for what is less than a millisecond, or a second where those are read; a strict name is refused if it is too long or
\* has a character its place cannot hold; prefix and suffix are the parts of a name before
\* and after its last dot; and the code of a symbol is valid if it has a text.
TextReadsBack(of, v) ==
  CASE of = "name" -> NameSampled(v)
    [] of = "name text" -> NameTextSampled(v)
    [] of = "code" ->
         LET chars == C!symbol_code_to_string(v)
         IN v[CodeLength + 1] = "" =>
              /\ C!CodeIsValid(v) <=> C!symbol_code(chars) = C!Value(v) /\ chars # <<>>
              /\ C!CodeIsValid(v) => C!CodeSize(v) = Len(chars)
    [] of = "symbol" -> C!string_to_symbol(C!symbol_to_string(v)) = C!Value(v)
    [] of = "asset" -> C!string_to_asset(C!asset_to_string(v)) = C!Value(v)
    [] of = "time" ->
         \A z \in BOOLEAN :
           LET chars == C!time_point_to_json(v, z)
               seconds == C!time_point_sec_from_json(chars)
           IN /\ C!time_point_from_string(chars) = C!Value([v EXCEPT !.usec = @ - (@ % 1000)])
              /\ IF z THEN C!IsError(seconds)
                 ELSE /\ seconds = C!Value([v EXCEPT !.usec = 0])
                      /\ C!time_point_sec_from_json(C!time_point_sec_to_json(v)) = seconds
    [] OTHER -> TRUE

AssetSampled(a) ==
  \A x \in Amounts :
    LET b == [a EXCEPT !.amount = x]
        Exact(r, n) == IF C!is_amount_within_range(n) THEN r = C!Value([a EXCEPT !.amount = n]) ELSE C!IsError(r)
    IN /\ C!MakeAsset(x, a.symbol) = (IF C!AssetIsValid(b) THEN C!Value(b) ELSE C!Error("magnitude"))
       /\ C!AssetIsValid(a) /\ C!AssetIsValid(b) =>
         /\ Exact(C!AddAsset(a, b), a.amount + x) /\ Exact(C!SubtractAsset(a, b), a.amount - x)
         /\ Exact(C!MultiplyAsset(a, x), a.amount * x)
         /\ \A r \in {C!DivideAsset(a, x), C!NegateAsset(a)} : ~C!IsError(r) => C!AssetIsValid(r.v)
         /\ C!SubtractAsset(a, b) = C!AddAsset(a, C!NegateAsset(b).v)
         /\ \A r \in {C!MultiplyAsset(a, x)} : ~C!IsError(r) /\ a.amount # 0 => C!RatioOf(r.v, a) = C!Value(x)

\* Of one symbol and contract, assets compare as their differences say; otherwise they do
\* not at all.
Sign(n) == IF n < 0 THEN -1 ELSE IF n > 0 THEN 1 ELSE 0
Tokens(a) == {[quantity |-> b, contract |-> c] :
                b \in {[a EXCEPT !.amount = x] : x \in {-1, 0, a.amount}} \cup {[a EXCEPT !.symbol.precision = @ + 1]},
                c \in {"here", "there"}}
TokensCompare(a) ==
  \A s, t \in Tokens(a) :
    LET same == s.contract = t.contract /\ s.quantity.symbol = t.quantity.symbol
        less == C!CompareExtended(s, t, {"less"})
        d == C!SubtractExtended(s, t)
    IN /\ ~same => C!IsError(less) /\ C!IsError(d) /\ C!IsError(C!AddExtended(s, t))
       /\ same => /\ C!EqualExtended(s, t) = C!Value(s = t)
                  /\ less.v = (s # t /\ ~C!CompareExtended(s, t, {"greater"}).v)
                  /\ ~C!IsError(d) => /\ less = C!Value(Sign(d.v.quantity.amount) = -1)
                                      /\ C!AssetIsValid(t.quantity) /\ C!AssetIsValid(s.quantity) =>
                                           C!AddExtended(d.v, t) = C!Value(s)

\* A point of time, and as many microseconds more or less: a second is the last one that
\* has begun, and a slot too while there are slots, whichever way they are computed.  To
\* add a negative number of microseconds in place may come out a second later.
MomentSampled(us) ==
  LET sec == C!SecondsOf(us)
      Moments == 0..(C!Second * 2^TimeBits - 1)
  IN /\ C!TimeOfSeconds(sec) <= us /\ us < C!TimeOfSeconds(sec) + C!Second
     /\ C!SlotOfSeconds(sec) = C!SlotOfTimePoint(C!TimeOfSeconds(sec))
     /\ \A more \in (-2 * C!Second)..(2 * C!Second) :
          LET later == C!SecondsLater(sec, more)
          IN later \in Moments =>
               /\ more >= 0 => C!AdvanceSeconds(sec, more) = C!SecondsOf(later)
               /\ C!AdvanceSeconds(sec, more) - C!SecondsOf(later) \in {0, 1}
     /\ Epoch * UsPerMs <= us /\ us < C!TimeOfSlot(2^TimeBits) * UsPerMs =>
          LET slot == C!SlotOfTimePoint(us)
          IN /\ C!TimeOfSlot(slot) * UsPerMs <= us
             /\ \A next \in {C!NextSlot(slot)} : ~C!IsError(next) => us < C!TimeOfSlot(next.v) * UsPerMs

\* Bytes come back from words of any size, are refused if they are too few or too many,
\* and are in the order of their words.
Words == {1, 2, 3}
FixedSampled(bytes) ==
  \A word \in Words :
    LET size == Len(bytes)
        value == C!FixedBytes(bytes, size, 1, word)
    IN /\ Len(value) = C!CountWords(size, word)
       /\ C!extract_as_byte_array(value, size, word) = bytes
       /\ \A n \in 0..(size + 1) : C!IsError(C!FixedFromHex(bytes, n, word)) <=> n # size
       /\ \A t \in {w \in Words : w % word = 0 \/ word % w = 0} :
            C!FixedBytes(C!convert_array(bytes, size, 1, t), size, t, word) = value
       /\ \A other \in [1..size -> 0..(ByteValues - 1)] :
            C!LessFixed(value, C!FixedBytes(other, size, 1, word)) <=> C!LessFixed(bytes, other)

\* The result of adding, subtracting and multiplying valid assets is exact or an error, and
\* never an asset out of range; the days follow each other through leap years and
\* centuries; and a slot is the slot of its own time and of no later one than the next's.
ArithmeticHolds(of, v) ==
  CASE of = "asset" -> AssetSampled(v) /\ TokensCompare(v)
    [] of = "moment" -> MomentSampled(v)
    [] of = "bytes" -> FixedSampled(v)
    [] of = "symbol" ->
         \A raw \in {C!RawSymbol(v.code, v.precision)} :
           C!CodeOfSymbol(raw) = v.code /\ C!PrecisionOf(raw) = v.precision
    [] of = "day" ->
         /\ C!to_days(C!from_days(v)) = v
         /\ C!from_days(v + 1) = NextDate(C!from_days(v))
    [] of = "slot" ->
         /\ C!SlotOfTime(C!TimeOfSlot(v)) = v
         /\ \A ms \in C!TimeOfSlot(v)..(C!TimeOfSlot(v + 1) - 1) : C!SlotOfTime(ms) = v
    [] OTHER -> TRUE

\* The texts of chain_conversions.hpp read back, asset.hpp and time.hpp calculate without
\* leaving their ranges, and the bytes of fixed_bytes.hpp come back in their order.
ChainTypesHold ==
  [][/\ sample'.of \in {"name", "name text", "code", "symbol", "asset", "time"} => TextReadsBack(sample'.of, sample'.v)
     /\ sample'.of \in {"asset", "symbol", "day", "slot", "moment", "bytes"} => ArithmeticHolds(sample'.of, sample'.v)]_vars

-----------------------------------------------------------------------------
Q == INSTANCE MCGraphql

\* Queries to the executor of graphql.hpp get what they ask for, or an error.
GraphqlAnswers ==
  [][sample'.of = "query" => Q!AnswersFor(sample'.data, sample'.query) /\ Q!SchemaIsComplete]_vars

-----------------------------------------------------------------------------
D == INSTANCE MCDwarf

\* Of a wasm file with debugging information, a backtrace names the line and the function
\* of each instruction, and a native debugger is told the same; what is registered with
\* it is in its list, whatever was added and left before.
BacktraceIsRight ==
  [][/\ sample'.of = "wasm" => D!FileIsRead(sample'.lines, sample'.kinds, sample'.order, sample'.sizes)
     /\ sample'.of = "registrations" => D!ListIsWhole(sample'.word)]_vars

-----------------------------------------------------------------------------
NoSample == [of |-> "none"]

\* A step takes one sample; the properties say what the functions make of it.
Sample ==
  /\ phase = "sample"
  /\ sample = NoSample
  /\ \/ sample' \in {[of |-> "abi", def |-> d] : d \in AbiDefs \cup {AbiDef}}
     \/ \E t \in KeyTypes : sample' \in {[of |-> "key", type |-> t, v |-> v] : v \in Values(t, 2)}
     \/ \E t \in KeyTypes \cup MoreTypes : sample' \in {[of |-> "value", type |-> t, v |-> v] : v \in Values(t, 2)}
     \/ \E t \in B!ShipTypes : sample' \in {[of |-> "ship", type |-> t, v |-> v] : v \in {Plain(t)} \cup Deviations(t)}
     \/ sample' \in {[of |-> "status", v |-> n] : n \in Statuses}
     \/ \E kind \in DOMAIN B!KeyKinds :
          sample' \in {[of |-> "key text", kind |-> kind, v |-> key] : key \in Deviations(B!KeyKinds[kind].type)}
     \/ sample' \in {[of |-> "base58", v |-> s] : s \in SeqOf({0, 1, 57, 58, 255}, 3)}
     \/ sample' \in {[of |-> "int", type |-> t, text |-> s] :
                    t \in {Uint(1), Sint(1)}, s \in SeqOf({"0", "1", "2", "5", "7", "8", "9", "-"}, 4)}
     \/ sample' \in {[of |-> "name", v |-> n] : n \in Names} \/ sample' \in {[of |-> "name text", v |-> n] : n \in NameTexts}
     \/ sample' \in {[of |-> "code", v |-> c] : c \in CodeBytes} \/ sample' \in {[of |-> "symbol", v |-> c] : c \in Symbols}
     \/ sample' \in {[of |-> "asset", v |-> a] : a \in Assets} \/ sample' \in {[of |-> "time", v |-> t] : t \in Times}
     \/ sample' \in {[of |-> "moment", v |-> us] : us \in 0..(C!Second * 2^TimeBits - 1)}
     \/ \E n \in 1..4 : sample' \in {[of |-> "bytes", v |-> b] : b \in [1..n -> 0..(ByteValues - 1)]}
     \/ sample' \in {[of |-> "day", v |-> d] : d \in Days} \/ sample' \in {[of |-> "slot", v |-> n] : n \in 0..20}
     \/ \E begin \in {0, 2, D!Top}, word \in D!Words, sizes \in D!CodeSizes :
          sample' = [of |-> "wasm", lines |-> D!Lines(begin, word), kinds |-> <<"plain", "linked">>,
                     order |-> <<1, 2, 3, 4>>, sizes |-> sizes]
     \/ \E first, second \in D!Kinds, order \in D!Orders, sizes \in D!CodeSizes :
          sample' = [of |-> "wasm", lines |-> D!Lines(2, <<D!Op("copy", 0)>>), kinds |-> <<first, second>>,
                     order |-> order, sizes |-> sizes]
     \/ \E word \in SeqOf(1..3, 6) : sample' = [of |-> "registrations", word |-> word]
     \/ sample' \in {[of |-> "query", data |-> d, query |-> q] : d \in Q!Data, q \in Q!Queries}
  /\ UNCHANGED <<root, doc, phase, state, bin, reordered, text, again>>

SampleInit ==
  /\ root = <<>> /\ doc = "none" /\ phase = "sample" /\ state = [stack |-> <<>>]
  /\ bin = A!None /\ reordered = A!None /\ text = A!None /\ again = A!None

Init == sample = NoSample /\ (SampleInit \/ A!Init)

Turn == A!Next /\ UNCHANGED sample

Next == Sample \/ Turn

Spec == Init /\ [][Next]_vars

(* What abieos reads from JSON comes back: both encoders write the same bytes,  *)
(* and the decoder makes of them a document that stands for the same value.      *)
AbiRoundTrips == A!EncodersAgree /\ A!DecodesBack
=============================================================================
