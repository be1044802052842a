------------------------------ MODULE Graphql -------------------------------
(***************************************************************************)
(* graphql.hpp: the lexer, the executor of a query over C++ values and the  *)
(* schema made of their types.  A type is a record:                         *)
(*   [kind |-> "scalar", name]      values are JSON                         *)
(*   [kind |-> "optional", of]      values are sequences of 0 or 1: pointers*)
(*                                  and optionals                           *)
(*   [kind |-> "list", of]          sequences                               *)
(*   [kind |-> "object", name]      records; Fields says what they have     *)
(* A field is a member (args = <<>> and no parentheses) or a const method,  *)
(* whose value is a function of its arguments.                              *)
(***************************************************************************)
EXTENDS Integers, JsonTokens, FiniteSets

CONSTANTS Fields,   \* for the name of each object type, a sequence of [name, args, type]
          MaxNumber \* largest number of an argument

Punctuators == {"$", "!", "&", "(", ")", ":", "=", "@", "[", "]", "{", "|", "}"}
Digit == {"0", "1", "2", "3", "4", "5", "6", "7", "8", "9"}
Letters == {"_", "a", "b", "c", "d", "e", "f", "g", "h", "i", "j", "k", "l", "m", "n", "o", "p", "q", "r", "s",
            "t", "u", "v", "w", "x", "y", "z"}
Ignored == {"\n", "\r", " ", "\t", ",", "BOM"}

\* The number of characters at the start of s that are in `set`, or are not.
Leading(s, set) == SelectInSeq(Append(s, "end"), LAMBDA c: c \notin set) - 1
Until(s, set) == SelectInSeq(Append(s, "end"), LAMBDA c: c \in set \cup {"end"}) - 1
Rest(s, n) == SubSeq(s, n + 1, Len(s))
StartsWith(s, set) == s # <<>> /\ s[1] \in set

-----------------------------------------------------------------------------
(* gql_stream: the token it is at and the text after it.  A name or a number*)
(* is the sequence of its characters.                                       *)

At(type, value, rest) == [type |-> type, value |-> value, punct |-> "", in |-> rest]
LexicalError(rest) == At("error", <<>>, rest)

\* Fraction and exponent of a number: their size, 0 if there is none, -1 for an error.
FractionSize(s) ==
  IF ~StartsWith(s, {"."}) THEN 0 ELSE IF ~StartsWith(Tail(s), Digit) THEN -1 ELSE 1 + Leading(Tail(s), Digit)
ExponentSize(s) ==
  LET n == IF StartsWith(Tail(s), {"-"}) THEN 2 ELSE 1
  IN IF ~StartsWith(s, {"e", "E"}) THEN 0
     ELSE IF ~StartsWith(Rest(s, n), Digit) THEN -1 ELSE n + Leading(Rest(s, n), Digit)

LexNumber(s) ==
  LET sign == IF s[1] = "-" THEN 1 ELSE 0
      whole == IF StartsWith(Rest(s, sign), {"0"}) THEN 1 ELSE Leading(Rest(s, sign), Digit)
      fraction == FractionSize(Rest(s, sign + whole))
      exponent == ExponentSize(Rest(s, sign + whole + fraction))
      size == sign + whole + fraction + exponent
  IN IF whole = 0 \/ fraction < 0 \/ exponent < 0 \/ StartsWith(Rest(s, size), Letters \cup Digit)
     THEN LexicalError(s)
     ELSE At(IF fraction + exponent = 0 THEN "integer" ELSE "floating", SubSeq(s, 1, size), Rest(s, size))

\* Where the string that starts s ends; past its end if it does not.
RECURSIVE StringEnd(_, _)
StringEnd(s, i) ==
  IF i > Len(s) THEN i ELSE IF s[i] = "\"" THEN i ELSE StringEnd(s, IF s[i] = "\\" THEN i + 2 ELSE i + 1)

\* gql_stream::skip.  After an error it stays where it is; a string that does not end
\* leaves the type of the token before.
RECURSIVE Lex(_, _)
Lex(s, type) ==
  IF s = <<>> THEN At("eof", <<>>, s)
  ELSE IF s[1] \in Ignored THEN Lex(Tail(s), type)
  ELSE IF s[1] = "#" THEN Lex(Rest(s, Until(s, {"\n", "\r"})), type)
  ELSE IF s[1] \in Punctuators THEN [At("punctuator", <<s[1]>>, Tail(s)) EXCEPT !.punct = s[1]]
  ELSE IF IsPrefix(<<".", ".", ".">>, s) THEN [At("punctuator", SubSeq(s, 1, 3), Rest(s, 3)) EXCEPT !.punct = "."]
  ELSE IF IsPrefix(<<"\"", "\"", "\"">>, s) THEN LexicalError(s)
  ELSE IF s[1] = "\""
       THEN LET end == StringEnd(s, 2)
            IN IF end > Len(s) THEN At(type, <<>>, <<>>) ELSE At("string", SubSeq(s, 2, end - 1), Rest(s, end))
  ELSE IF s[1] \in Letters
       THEN LET n == Leading(s, Letters \cup Digit) IN At("name", SubSeq(s, 1, n), Rest(s, n))
  ELSE IF s[1] = "-" \/ s[1] \in Digit THEN LexNumber(s)
  ELSE LexicalError(s)

Skip(st) == IF st.type = "error" THEN st ELSE Lex(st.in, st.type)

IsName(st, value) == st.type = "name" /\ st.value = value

-----------------------------------------------------------------------------
(* The executor.  It returns what it wrote and the stream after it, or the  *)
(* error it reported.                                                       *)

Error(why) == [error |-> why]
IsError(r) == "error" \in DOMAIN r
Ok(out, st) == [out |-> out, st |-> st]

\* The loop of gql_skip_selection_set is at a lexical error that skip does not leave.
NeverEnds == Error("gql_skip_selection_set loops")

\* Mutant: a set ends at the first brace.
gql_skip_to_brace(st) ==
  LET n == Until(st.in, {"}"})
  IN IF st.punct # "{" THEN Ok(Null, st)
     ELSE IF n = Len(st.in) THEN Error("expected }") ELSE Ok(Null, Skip(Skip([st EXCEPT !.in = Rest(@, n)])))

RECURSIVE SkipInside(_)
gql_skip_selection_set(st) == IF st.punct # "{" THEN Ok(Null, st) ELSE SkipInside(Skip(st))
SkipInside(st) ==
  LET inner == gql_skip_selection_set(st)
  IN CASE st.type = "eof" -> Error("expected }")
       [] st.type = "error" -> NeverEnds
       [] st.punct = "{" -> IF IsError(inner) THEN inner ELSE SkipInside(inner.st)
       [] st.punct = "}" -> Ok(Null, Skip(st))
       [] OTHER -> SkipInside(Skip(st))

NumberOf(digits) == FoldLeft(LAMBDA n, c: 10 * n + (CHOOSE i \in 0..9 : ToString(i) = c), 0, digits)

\* gql_parse_arg of a string, a bool or an unsigned number; a number may be in quotes.
gql_parse_arg(type, st) ==
  CASE type = "string" -> IF st.type = "string" THEN Ok(Text(st.value), Skip(st)) ELSE Error("expected String")
    [] type = "bool" ->
         IF IsName(st, <<"t", "r", "u", "e">>) THEN Ok(Bool(TRUE), Skip(st))
         ELSE IF IsName(st, <<"f", "a", "l", "s", "e">>) THEN Ok(Bool(FALSE), Skip(st))
         ELSE Error("expected Boolean")
    [] type = "number" ->
         IF st.type \notin {"integer", "floating", "string"} \/ st.value = <<>> \/ ~(Range(st.value) \subseteq Digit)
         THEN Error("expected number or stringified number")
         ELSE IF NumberOf(st.value) > MaxNumber THEN Error("number is out of range")
         ELSE Ok([k |-> "number", n |-> NumberOf(st.value)], Skip(st))

\* An argument is null until it is given; `filled` has those that were.
Arguments(f) == [i \in DOMAIN f.args |-> Null]

ParsedArgument(arg, value) ==
  IF arg.optional /\ IsName(value, <<"n", "u", "l", "l">>) THEN Ok(Null, Skip(value)) ELSE gql_parse_arg(arg.type, value)

WithArgument(r, i, parsed) ==
  IF IsError(parsed) THEN parsed
  ELSE [args |-> [r.args EXCEPT ![i] = parsed.out], filled |-> r.filled \cup {i}, st |-> parsed.st]

\* gql_parse_args: one argument, at its name; the i-th of f.
ArgumentAt(f, r, i, colon) ==
  IF i = 0 THEN Error("unknown arg")
  ELSE IF colon.punct # ":" THEN Error("expected :")
  ELSE IF i \in r.filled THEN Error("duplicate arg")
  ELSE WithArgument(r, i, ParsedArgument(f.args[i], Skip(colon)))
gql_parse_args(f, r) == ArgumentAt(f, r, SelectInSeq(f.args, LAMBDA a: a.name = r.st.value), Skip(r.st))

RECURSIVE ArgumentList(_, _)
ArgumentList(f, r) ==
  IF IsError(r) THEN r
  ELSE IF r.st.type = "name" THEN ArgumentList(f, gql_parse_args(f, r))
  ELSE IF r.st.punct = ")" THEN [r EXCEPT !.st = Skip(@)]
  ELSE Error("expected )")

\* The arguments of a method: those not optional must be given.
WithRequired(f, r) ==
  IF IsError(r) THEN r
  ELSE IF \E i \in DOMAIN f.args : i \notin r.filled /\ ~f.args[i].optional
  THEN Error("function missing required arg")
  ELSE r
NoneGiven(f, st) == [args |-> Arguments(f), filled |-> {}, st |-> st]
MethodArguments(f, st) ==
  WithRequired(f, IF st.punct # "(" THEN NoneGiven(f, st)
                  ELSE IF Skip(st).punct = ")" THEN Error("empty arg list")
                  ELSE ArgumentList(f, NoneGiven(f, Skip(st))))

RECURSIVE gql_query(_, _, _), Selections(_, _, _, _), Elements(_, _, _, _)
\* Every element of a list starts from the same place.
Elements(t, vs, st, out) ==
  LET r == gql_query(t, Head(vs), st)
  IN IF vs = <<>> THEN Ok(out, st) ELSE IF IsError(r) THEN r ELSE Elements(t, Tail(vs), st, Append(out, r.out))

\* The i-th of these fields, after its name.
MethodAnswer(f, method, given) == IF IsError(given) THEN given ELSE gql_query(f.type, method[given.args], given.st)
FieldAt(fields, v, i, after) ==
  IF i = 0 THEN Error("not found")
  ELSE IF ~fields[i].method THEN gql_query(fields[i].type, v[i], after)
  ELSE MethodAnswer(fields[i], v[i], MethodArguments(fields[i], after))

FieldNamed(t, v, st) ==
  IF st.type # "name" THEN Error("expected name after :")
  ELSE FieldAt(Fields[t.name], v, SelectInSeq(Fields[t.name], LAMBDA f: f.name = st.value), Skip(st))

\* A field, perhaps with another name for the answer.
OneField(t, v, st) == FieldNamed(t, v, IF Skip(st).punct = ":" THEN Skip(Skip(st)) ELSE st)

Selections(t, v, st, out) ==
  LET r == OneField(t, v, st)
  IN IF st.type # "name"
     THEN IF st.punct # "}" THEN Error("expected }") ELSE Ok(Object(out), Skip(st))
     ELSE IF IsError(r) THEN r
     ELSE Selections(t, v, r.st, Append(out, Member(st.value, r.out)))

gql_query(t, v, st) ==
  CASE t.kind = "scalar" -> Ok(v, st)
    [] t.kind = "optional" ->
         IF v # <<>> THEN gql_query(t.of, v[1], st)
         ELSE LET r == gql_skip_selection_set(st) IN IF IsError(r) THEN r ELSE Ok(Null, r.st)
    [] t.kind = "list" ->
         LET es == Elements(t.of, v, st, <<>>)
             r == gql_skip_selection_set(st)
         IN IF IsError(es) THEN es ELSE IF IsError(r) THEN r ELSE Ok(Array(es.out), r.st)
    [] t.kind = "object" ->
         IF st.punct # "{" THEN Error("expected {") ELSE Selections(t, v, Skip(st), <<>>)

\* gql_query_root.  Errors other than those named there are told apart by nothing.
gql_query_root(t, v, text) ==
  LET st == Skip([At("unstarted", <<>>, text) EXCEPT !.in = text])
      named == Skip(st)
      start == IF st.type # "name" THEN st ELSE IF named.type = "name" THEN Skip(named) ELSE named
      r == gql_query(t, v, start)
  IN IF st.type = "name" /\ st.value # <<"q", "u", "e", "r", "y">> THEN Error("expected query")
     ELSE IF st.type = "name" /\ start.punct \in {"(", "@"} THEN Error("not supported")
     ELSE IF IsError(r) THEN r
     ELSE IF r.st.type # "eof" THEN Error("expected end of input")
     ELSE [out |-> r.out]

-----------------------------------------------------------------------------
(* The schema: the object types with their fields.  The names of types are  *)
(* sequences of words here.                                                 *)

RECURSIVE generate_gql_whole_name(_, _)
generate_gql_whole_name(t, is_optional) ==
  CASE t.kind = "optional" -> generate_gql_whole_name(t.of, TRUE)
    [] t.kind = "list" -> <<"[">> \o generate_gql_whole_name(t.of, FALSE) \o <<"]">> \o (IF is_optional THEN <<>> ELSE <<"!">>)
    [] OTHER -> IF is_optional THEN <<t.name>> ELSE <<t.name, "!">>

\* A type is noted as defined before the types of its fields are, and written after them.
RECURSIVE fill_gql_schema(_, _)
fill_gql_schema(t, acc) ==
  CASE t.kind = "scalar" -> acc
    [] t.kind \in {"optional", "list"} -> fill_gql_schema(t.of, acc)
    [] t.kind = "object" /\ t.name \in acc.defined -> acc
    [] OTHER ->
         LET fields == SelectSeq(Fields[t.name], LAMBDA f: ~f.method) \o SelectSeq(Fields[t.name], LAMBDA f: f.method)
             inner == FoldLeft(LAMBDA a, f: fill_gql_schema(f.type, a),
                               [acc EXCEPT !.defined = @ \cup {t.name}], fields)
         IN [inner EXCEPT !.types = Append(@, [name |-> t.name,
                                               fields |-> [i \in DOMAIN fields |->
                                                             [name |-> fields[i].name, args |-> fields[i].args,
                                                              type |-> generate_gql_whole_name(fields[i].type, FALSE)]]])]

get_gql_schema(t) == fill_gql_schema(t, [defined |-> {}, types |-> <<>>]).types
=============================================================================
