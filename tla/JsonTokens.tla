----------------------------- MODULE JsonTokens -----------------------------
(***************************************************************************)
(* JSON documents, and the tokens rapidjson makes of them for the readers   *)
(* of abieos (from_json.hpp, json_token_stream).  A number is a string, as  *)
(* kParseNumbersAsStringsFlag has it.  The order of the fields of an object *)
(* is part of the document.                                                 *)
(***************************************************************************)
EXTENDS Naturals, Sequences, SequencesExt

Null == [k |-> "null"]
Bool(b) == [k |-> "bool", b |-> b]
Text(s) == [k |-> "string", s |-> s]
Array(xs) == [k |-> "array", xs |-> xs]
Object(fs) == [k |-> "object", fs |-> fs]
Member(name, v) == [name |-> name, v |-> v]

Token(t) == [t |-> t]
Key(name) == [t |-> "key", s |-> name]

\* The events of Null, Bool, String, StartObject, Key, EndObject, StartArray, EndArray.
RECURSIVE Tokens(_)
Tokens(v) ==
  CASE v.k = "null" -> <<Token("null")>>
    [] v.k = "bool" -> <<[t |-> "bool", b |-> v.b]>>
    [] v.k = "string" -> <<[t |-> "string", s |-> v.s]>>
    [] v.k = "array" -> <<Token("start_array")>> \o FlattenSeq([i \in DOMAIN v.xs |-> Tokens(v.xs[i])])
                          \o <<Token("end_array")>>
    [] v.k = "object" -> <<Token("start_object")>>
                          \o FlattenSeq([i \in DOMAIN v.fs |-> <<Key(v.fs[i].name)>> \o Tokens(v.fs[i].v)])
                          \o <<Token("end_object")>>

RECURSIVE Depth(_)
Deepest(vs) == FoldLeft(LAMBDA d, v: IF Depth(v) > d THEN Depth(v) ELSE d, 0, vs)
\* The number of values inside each other, the innermost counted.
Depth(v) ==
  CASE v.k = "array" -> 1 + Deepest(v.xs)
    [] v.k = "object" -> 1 + Deepest([i \in DOMAIN v.fs |-> v.fs[i].v])
    [] OTHER -> 1

-----------------------------------------------------------------------------
\* A reader has the tokens it has not eaten in `in` and the error that ended it.
Throw(s, why) == [s EXCEPT !.error = why]
peek_token(s) == Head(s.in)
eat_token(s) == [s EXCEPT !.in = Tail(@)]

\* The get_..._pred functions and maybe_get_key: is the next token one of these?
IsNext(s, t) == peek_token(s).t = t

\* get_start_object, get_start_array, get_string and the like: the token or an error.
Expect(s, t, why) == IF IsNext(s, t) THEN eat_token(s) ELSE Throw(s, why)

\* What get_bool and get_string return.
ValueOf(token) == IF token.t = "bool" THEN token.b ELSE token.s
=============================================================================
