----------------------------- MODULE MCGraphql ------------------------------
(***************************************************************************)
(* A schema, data and queries for Graphql: an object that may contain       *)
(* itself, a list, an optional and a method with arguments.                 *)
(***************************************************************************)
EXTENDS Integers, Sequences, FiniteSets, TLC

Scalar == [kind |-> "scalar", name |-> "String"]
Item == [kind |-> "object", name |-> "Item"]
Root == [kind |-> "object", name |-> "Root"]
Optional(t) == [kind |-> "optional", of |-> t]
List(t) == [kind |-> "list", of |-> t]

Arg(name, type, optional) == [name |-> <<name>>, type |-> type, optional |-> optional]
Mem(name, type) == [name |-> <<name>>, method |-> FALSE, args |-> <<>>, type |-> type]
Meth(name, args, type) == [name |-> <<name>>, method |-> TRUE, args |-> args, type |-> type]

MCFields ==
  [Item |-> <<Mem("n", Scalar), Mem("o", Optional(Item))>>,
   Root |-> <<Meth("m", <<Arg("a", "number", FALSE), Arg("b", "string", TRUE)>>, Optional(Item)),
              Mem("i", List(Item)), Meth("f", <<Arg("c", "bool", FALSE)>>, Scalar)>>]

G == INSTANCE Graphql WITH Fields <- MCFields, MaxNumber <- 12

-----------------------------------------------------------------------------
\* Data.
I1 == <<G!Text("x"), <<>>>>
I2 == <<G!Text("y"), <<I1>>>>

ArgValues(a) == (IF a.optional THEN {G!Null} ELSE {})
                \cup (CASE a.type = "number" -> {[k |-> "number", n |-> n] : n \in 0..12}
                        [] a.type = "string" -> {G!Text(<<>>), G!Text(<<"z">>)}
                        [] OTHER -> {G!Bool(b) : b \in BOOLEAN})
\* The method m finds an item if its first argument is large, f answers its argument.
MethodM == [args \in ArgValues(MCFields.Root[1].args[1]) \X ArgValues(MCFields.Root[1].args[2]) |->
              IF args[1].n < 2 THEN <<>> ELSE IF args[2] = G!Null THEN <<I1>> ELSE <<I2>>]
MethodF == [args \in {<<G!Bool(b)>> : b \in BOOLEAN} |-> args[1]]
Data == {<<MethodM, items, MethodF>> : items \in {<<>>, <<I2>>, <<I1, I2, I1>>}}

-----------------------------------------------------------------------------
\* Queries: selections of a field, with another name or not, arguments and a set.
Sel(alias, i, args, set) == [alias |-> alias, i |-> i, args |-> args, set |-> set]
Leaf == {Sel(a, 1, <<>>, <<>>) : a \in {<<>>, <<"q">>}}
RECURSIVE ItemSets(_)
ItemSets(depth) ==
  LET one == Leaf \cup (IF depth = 0 THEN {} ELSE {Sel(<<>>, 2, <<>>, s) : s \in ItemSets(depth - 1)})
  IN {<<>>} \cup {<<x>> : x \in one} \cup {<<x, y>> : x \in one, y \in Leaf}

\* An argument as it is written, and what it means there.
Given(name, chars, means) == [name |-> <<name>>, chars |-> chars, means |-> means]
Quoted(chars) == <<"\"">> \o chars \o <<"\"">>
Bad == [k |-> "bad"]
A(n) == Given("a", <<ToString(n)>>, [k |-> "number", n |-> n])
B(chars) == Given("b", Quoted(chars), G!Text(chars))
NullText == <<"n", "u", "l", "l">>
TrueText == <<"t", "r", "u", "e">>
FalseText == <<"f", "a", "l", "s", "e">>

ArgLists ==
  {<<A(1)>>, <<Given("a", <<"1", "2">>, [k |-> "number", n |-> 12]), B(<<>>)>>,
   <<B(<<"z">>), Given("a", Quoted(<<"2">>), [k |-> "number", n |-> 2])>>, <<A(0), Given("b", NullText, G!Null)>>,
   <<B(<<"z">>)>>, <<>>, <<A(1), A(2)>>, <<Given("a", <<"1", "3">>, Bad)>>, <<Given("a", NullText, Bad)>>,
   <<Given("a", <<"1", ".", "0">>, Bad)>>, <<A(1), Given("b", <<"2">>, Bad)>>, <<A(1), Given("c", <<"2">>, Bad)>>}
Flags == {Given("c", TrueText, G!Bool(TRUE)), Given("c", FalseText, G!Bool(FALSE)), Given("c", <<"t">>, Bad),
          Given("c", <<"1">>, Bad), Given("c", Quoted(<<"t">>), Bad)}

Queries ==
  {<<Sel(<<>>, 1, <<A(2)>>, s), Sel(<<"i">>, 2, <<>>, s)>> : s \in ItemSets(2)}
  \cup {<<Sel(<<>>, 1, args, s)>> : args \in ArgLists, s \in {<<>>, <<Sel(<<>>, 1, <<>>, <<>>)>>}}
  \cup {<<Sel(<<>>, 3, <<c>>, <<>>), Sel(<<"g">>, 3, <<d>>, <<>>)>> : c, d \in Flags}

\* The text of a query; `space` is between the selections of a set.
RECURSIVE TextOf(_, _, _)
TextOf(t, set, space) ==
  LET Of(type) == IF type.kind \in {"optional", "list"} THEN type.of ELSE type
      One(s) == LET f == MCFields[t.name][s.i]
                IN (IF s.alias = <<>> THEN <<>> ELSE s.alias \o <<":">>) \o f.name
                   \o (IF s.args = <<>> THEN <<>>
                       ELSE <<"(">> \o G!FlattenSeq([j \in DOMAIN s.args |-> s.args[j].name \o <<":", " ">> \o s.args[j].chars \o <<" ">>])
                            \o <<")">>)
                   \o (IF Of(f.type).kind = "object" THEN TextOf(Of(f.type), s.set, space) ELSE <<>>)
  IN <<"{">> \o G!FlattenSeq([j \in DOMAIN set |-> One(set[j]) \o space]) \o <<"}">>

-----------------------------------------------------------------------------
\* What a query asks for, told from the query and not from its text.
ArgsAreGood(f, args) ==
  /\ \A j \in DOMAIN args : args[j].means # Bad /\ \E i \in DOMAIN f.args : f.args[i].name = args[j].name
  /\ \A i, j \in DOMAIN args : args[i].name = args[j].name => i = j
  /\ \A i \in DOMAIN f.args : f.args[i].optional \/ \E j \in DOMAIN args : args[j].name = f.args[i].name

ArgsOf(f, args) ==
  [i \in DOMAIN f.args |-> LET js == {j \in DOMAIN args : args[j].name = f.args[i].name}
                           IN IF js = {} THEN G!Null ELSE args[CHOOSE j \in js : TRUE].means]

RECURSIVE Asked(_, _, _)
Asked(t, v, set) ==
  CASE t.kind = "scalar" -> v
    [] t.kind = "optional" -> IF v = <<>> THEN G!Null ELSE Asked(t.of, v[1], set)
    [] t.kind = "list" -> G!Array([j \in DOMAIN v |-> Asked(t.of, v[j], set)])
    [] OTHER ->
         G!Object([j \in DOMAIN set |->
           LET s == set[j]
               f == MCFields[t.name][s.i]
           IN G!Member(IF s.alias = <<>> THEN f.name ELSE s.alias,
                       Asked(f.type, IF f.method THEN v[s.i][ArgsOf(f, s.args)] ELSE v[s.i], s.set))])

IsGood(query) == \A j \in DOMAIN query : LET f == MCFields.Root[query[j].i] IN f.method => ArgsAreGood(f, query[j].args)

Without(s, i) == SubSeq(s, 1, i - 1) \o SubSeq(s, i + 1, Len(s))
Answers(data, chars) == G!gql_query_root(Root, data, chars)

\* A good query gets what it asks for, however it is laid out and named; one whose
\* arguments are not those of the method is refused, and so is a query without one of its
\* braces, whatever the data.
AnswersFor(data, query) ==
  LET chars == TextOf(Root, query, <<" ">>)
      other == <<"q", "u", "e", "r", "y", " ", "a", "#", "{", "\n">> \o TextOf(Root, query, <<",", "\n">>)
      answer == [out |-> Asked(Root, data, query)]
  IN IF IsGood(query)
     THEN /\ Answers(data, chars) = answer
          /\ Answers(data, other) = answer
          /\ \A i \in DOMAIN chars : chars[i] \in {"{", "}"} => G!IsError(Answers(data, Without(chars, i)))
     ELSE G!IsError(Answers(data, chars))

\* Every object type there is to ask for is defined once, also one that contains itself.
SchemaIsComplete ==
  LET schema == G!get_gql_schema(Root)
  IN /\ {schema[i].name : i \in DOMAIN schema} = DOMAIN MCFields
     /\ Len(schema) = Cardinality(DOMAIN MCFields)
=============================================================================
