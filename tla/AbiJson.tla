------------------------------ MODULE AbiJson -------------------------------
(***************************************************************************)
(* abieos.hpp: JSON to binary and back, guided by the types of an ABI.      *)
(* There are two encoders, one that reads tokens as they come and wants the *)
(* fields in order (json_to_bin), and one that first builds a tree and      *)
(* finds the fields by name (json_to_bin_reorderable), and one decoder.     *)
(* Each keeps a stack of the structs, arrays and variants it is inside of,  *)
(* and is run one turn of its loop at a time.                               *)
(*                                                                         *)
(* Binary data is a sequence of bytes; sizes, variant indexes and values    *)
(* take one byte each.  `position` of a stack entry starts at -1 as in the  *)
(* code.                                                                    *)
(***************************************************************************)
EXTENDS Integers, JsonTokens

CONSTANTS
  Types,        \* the map of types of a converted ABI
  Documents,    \* [type, doc]: the documents to encode as values of a type
  Inputs,       \* [type, bytes]: the binary data to decode
  MaxStackSize  \* max_stack_size: 128

VARIABLES
  root,      \* the type of the document
  doc,       \* the document to encode, or none when data is to be decoded
  phase,     \* which conversion runs
  state,     \* its state
  bin,       \* what json_to_bin made of doc, or its error
  reordered, \* what json_to_bin_reorderable made of it
  text,      \* the tokens bin_to_json made of that
  again      \* what json_to_bin made of those

vars == <<root, doc, phase, state, bin, reordered, text, again>>

TypeData(type) == Types[type]
Fields(type) == TypeData(type).fields
IsExtension(type) == TypeData(type).kind = "extension"
IsOptional(type) == TypeData(type).kind = "optional"
Bare(type) == IF IsExtension(type) THEN TypeData(type).of ELSE type

Front1(s) == [s EXCEPT !.stack = Front(@)]
Top(s) == Last(s.stack)
Write(s, byte) == [s EXCEPT !.out = Append(@, byte)]
AtPosition(s, p) == [s EXCEPT !.stack[Len(s.stack)].position = p]
\* A field may be left out, with all after it, if it is an extension and nothing of
\* another value follows it.
IsLastField(type, p) == p + 1 = Len(Fields(type))

\* from_json and to_bin of the built-in types.
Numerals == [n \in {"0", "1", "2"} |-> CASE n = "0" -> 0 [] n = "1" -> 1 [] n = "2" -> 2]
NumeralOf(byte) == CHOOSE n \in DOMAIN Numerals : Numerals[n] = byte
FromBuiltin(type, token) ==
  IF type = <<"bool">>
  THEN IF token.t = "bool" THEN [byte |-> IF token.b THEN 1 ELSE 0] ELSE [error |-> "expected_bool"]
  ELSE IF token.t # "string" THEN [error |-> "expected_string"]
       ELSE IF token.s \in DOMAIN Numerals THEN [byte |-> Numerals[token.s]] ELSE [error |-> "expected_int"]
BuiltinToken(type, byte) ==
  IF type = <<"bool">> THEN [t |-> "bool", b |-> byte = 1] ELSE [t |-> "string", s |-> NumeralOf(byte)]

IndexOf(fields, name) ==
  SelectInSeq(fields, LAMBDA f: f.name = name) - 1

-----------------------------------------------------------------------------
(* json_to_bin: tokens to bytes, fields in order *)

StreamState(tokens) ==
  [in |-> tokens, out |-> <<>>, insertions |-> <<>>, stack |-> <<>>, skipped |-> FALSE, error |-> ""]

PushStream(s, type, allow) ==
  [s EXCEPT !.stack = Append(@, [type |-> type, allow |-> allow, position |-> -1, insertion |-> 0, variant |-> 0])]

\* The object ends: only extensions may be missing, and nothing may come after them.
StreamEndObject(s, allow) ==
  LET missing == Top(s).position + 1
      all == missing = Len(Fields(Top(s).type))
  IN IF all THEN Front1(eat_token(s))
     ELSE IF ~IsExtension(Fields(Top(s).type)[missing + 1].type) \/ ~allow
     THEN Throw(s, "expected_field")
     ELSE [Front1(eat_token(s)) EXCEPT !.skipped = TRUE]

StreamKey(s) ==
  LET p == Top(s).position + 1
      name == ValueOf(peek_token(s))
  IN IF p >= Len(Fields(Top(s).type)) \/ s.skipped THEN Throw(s, "unexpected_field")
     ELSE IF Fields(Top(s).type)[p + 1].name # name THEN Throw(s, "expected_field")
     ELSE eat_token(AtPosition(s, p))

StreamKeyOrEnd(s, allow) == IF IsNext(s, "end_object") THEN StreamEndObject(s, allow) ELSE StreamKey(s)

StreamPlain(s, type, allow) ==
  CASE TypeData(type).kind = "builtin" ->
         LET r == FromBuiltin(type, peek_token(s))
         IN IF "error" \in DOMAIN r THEN Throw(s, r.error) ELSE Write(eat_token(s), r.byte)
    [] TypeData(type).kind = "struct" ->
         LET r == Expect(s, "start_object", "expected_start_object")
         IN IF r.error # "" THEN r ELSE StreamKeyOrEnd(PushStream(r, type, allow), allow)
    [] TypeData(type).kind = "array" ->
         LET r == Expect(s, "start_array", "expected_start_array")
         IN IF r.error # "" THEN r
            ELSE [PushStream(r, type, FALSE) EXCEPT
                    !.stack[Len(s.stack) + 1].insertion = Len(s.insertions) + 1,
                    !.insertions = Append(@, [position |-> Len(s.out), size |-> 0])]
    [] TypeData(type).kind = "variant" ->
         LET r == Expect(s, "start_array", "expected_start_array")
         IN IF r.error # "" THEN r ELSE PushStream(r, type, allow)

\* The serializer of a type with start = true.
StreamStart(s, type, allow) ==
  LET bare == Bare(type)
  IN IF ~IsOptional(bare) THEN StreamPlain(s, bare, allow)
     ELSE IF IsNext(s, "null") THEN Write(eat_token(s), 0)
     ELSE StreamPlain(Write(s, 1), TypeData(bare).of, allow)

StreamObject(s) ==
  LET e == Top(s)
  IN IF IsNext(s, "end_object") \/ IsNext(s, "key") THEN StreamKeyOrEnd(s, e.allow)
     ELSE StreamStart(s, Fields(e.type)[e.position + 1].type, e.allow /\ IsLastField(e.type, e.position))

\* Mutant: the size of an array is its last position.
StreamArrayShort(s) ==
  LET e == Top(s)
  IN IF IsNext(s, "end_array")
     THEN Front1([eat_token(s) EXCEPT !.insertions[e.insertion].size = e.position])
     ELSE StreamStart(AtPosition(s, e.position + 1), TypeData(e.type).of, FALSE)

StreamArray(s) ==
  LET e == Top(s)
  IN IF IsNext(s, "end_array")
     THEN Front1([eat_token(s) EXCEPT !.insertions[e.insertion].size = e.position + 1])
     ELSE StreamStart(AtPosition(s, e.position + 1), TypeData(e.type).of, FALSE)

StreamVariantType(s) ==
  LET index == IndexOf(Fields(Top(s).type), ValueOf(peek_token(s)))
  IN IF ~IsNext(s, "string") THEN Throw(s, "expected_string")
     ELSE IF index < 0 THEN Throw(s, "invalid_type_for_variant")
     ELSE Write(eat_token([s EXCEPT !.stack[Len(s.stack)].variant = index]), index)

StreamVariant(s) ==
  LET e == Top(s)
      p == e.position + 1
      at == AtPosition(s, p)
  IN CASE IsNext(s, "end_array") -> IF p = 2 THEN Front1(eat_token(at)) ELSE Throw(s, "expected_variant")
       [] ~IsNext(s, "end_array") /\ p = 0 -> StreamVariantType(at)
       [] ~IsNext(s, "end_array") /\ p = 1 -> StreamStart(at, Fields(e.type)[e.variant + 1].type, e.allow)
       [] OTHER -> Throw(s, "expected_variant")

\* The sizes of the arrays, known only at their ends, are put in front of them.
WithSizes(s) ==
  FoldLeft(LAMBDA acc, i: [bytes |-> acc.bytes \o SubSeq(s.out, acc.pos + 1, i.position) \o <<i.size>>,
                           pos |-> i.position],
           [bytes |-> <<>>, pos |-> 0], s.insertions)
Assembled(s) == WithSizes(s).bytes \o SubSeq(s.out, WithSizes(s).pos + 1, Len(s.out))

-----------------------------------------------------------------------------
(* json_to_bin_reorderable: tokens to a tree, the tree to bytes *)

\* The tree under construction is kept as the containers that are open, innermost last.
JvalueState == [tree |-> Null, open |-> <<>>, error |-> ""]

IntoContainer(c, v) ==
  IF c.v.k = "array" THEN [c EXCEPT !.v.xs = Append(@, v)]
  ELSE [c EXCEPT !.v.fs = Append(SelectSeq(@, LAMBDA m: m.name # c.key), Member(c.key, v))]

AddValue(s, v) ==
  IF s.open = <<>> THEN [s EXCEPT !.tree = v]
  ELSE [s EXCEPT !.open[Len(s.open)] = IntoContainer(@, v)]

OpenContainer(s, v) == [s EXCEPT !.open = Append(@, [v |-> v, key |-> ""])]
CloseContainer(s) == AddValue([s EXCEPT !.open = Front(@)], Last(s.open).v)

\* receive_event with json_to_jobject and json_to_jarray.  A value is on the stack of
\* the code beside the containers around it while it is received.
ReceiveEvent(s, token) ==
  IF s.error # "" THEN s
  ELSE IF token.t \in {"end_object", "end_array"} THEN CloseContainer(s)
  ELSE IF token.t = "key" THEN [s EXCEPT !.open[Len(s.open)].key = token.s]
  ELSE IF Len(s.open) + 1 > MaxStackSize THEN Throw(s, "recursion limit reached")
  ELSE CASE token.t = "null" -> AddValue(s, Null)
         [] token.t = "bool" -> AddValue(s, Bool(token.b))
         [] token.t = "string" -> AddValue(s, Text(token.s))
         [] token.t = "start_object" -> OpenContainer(s, Object(<<>>))
         [] token.t = "start_array" -> OpenContainer(s, Array(<<>>))

json_to_jvalue(tokens) == FoldLeft(ReceiveEvent, JvalueState, tokens)

TreeState == [out |-> <<>>, stack |-> <<>>, skipped |-> FALSE, error |-> ""]

PushTree(s, type, allow, v, p) ==
  [s EXCEPT !.stack = Append(@, [type |-> type, allow |-> allow, value |-> v, position |-> p])]

RECURSIVE TreeStart(_, _, _, _)

\* The next field of the object on top of the stack; fields in any order, others ignored.
TreeObject(s) ==
  LET e == Top(s)
      p == e.position + 1
      field == Fields(e.type)[p + 1]
      at == AtPosition(s, p)
      found == SelectInSeq(e.value.fs, LAMBDA m: m.name = field.name)
  IN IF p = Len(Fields(e.type)) THEN Front1(s)
     ELSE IF found = 0
     THEN IF IsExtension(field.type) /\ e.allow THEN [at EXCEPT !.skipped = TRUE]
          ELSE Throw(s, "expected_field")
     ELSE IF s.skipped THEN Throw(s, "unexpected_field")
     ELSE TreeStart(at, field.type, e.allow /\ IsLastField(e.type, p), e.value.fs[found].v)

TreeArray(s) ==
  LET e == Top(s)
      p == e.position + 1
  IN IF p = Len(e.value.xs) THEN Front1(s)
     ELSE TreeStart(AtPosition(s, p), TypeData(e.type).of, FALSE, e.value.xs[p + 1])

TreeVariant(s) ==
  LET e == Top(s)
      index == IndexOf(Fields(e.type), e.value.xs[1].s)
  IN IF e.position # 0 THEN Front1(s)
     ELSE IF index < 0 THEN Throw(s, "invalid_type_for_variant")
     ELSE TreeStart(Write(AtPosition(s, 1), index), Fields(e.type)[index + 1].type, e.allow, e.value.xs[2])

IsVariantDoc(v) == v.k = "array" /\ Len(v.xs) = 2 /\ v.xs[1].k = "string"

TreePlain(s, type, allow, v) ==
  CASE TypeData(type).kind = "builtin" ->
         LET r == FromBuiltin(type, Head(Tokens(v)))
         IN IF "error" \in DOMAIN r THEN Throw(s, r.error) ELSE Write(s, r.byte)
    [] TypeData(type).kind = "struct" ->
         IF v.k # "object" THEN Throw(s, "expected_start_object")
         ELSE TreeObject(PushTree(s, type, allow, v, -1))
    [] TypeData(type).kind = "array" ->
         IF v.k # "array" THEN Throw(s, "expected_start_array")
         ELSE TreeArray(PushTree(Write(s, Len(v.xs)), type, FALSE, v, -1))
    [] TypeData(type).kind = "variant" ->
         IF ~IsVariantDoc(v) THEN Throw(s, "expected_variant") ELSE PushTree(s, type, allow, v, 0)

TreeStart(s, type, allow, v) ==
  LET bare == Bare(type)
  IN IF ~IsOptional(bare) THEN TreePlain(s, bare, allow, v)
     ELSE IF v.k = "null" THEN Write(s, 0)
     ELSE TreePlain(Write(s, 1), TypeData(bare).of, allow, v)

-----------------------------------------------------------------------------
(* bin_to_json *)

DecodeState(bytes) == [in |-> bytes, out |-> <<>>, stack |-> <<>>, skipped |-> FALSE, error |-> ""]

PushDecode(s, type, allow, size) ==
  [s EXCEPT !.stack = Append(@, [type |-> type, allow |-> allow, position |-> -1, size |-> size])]

\* check of the stream: nothing is read past its end.
Overrun(s) == s.in = <<>>
EatByte(s) == [s EXCEPT !.in = Tail(@)]

DecodePlain(s, type, allow) ==
  CASE TypeData(type).kind = "builtin" ->
         IF Overrun(s) THEN Throw(s, "overrun") ELSE Write(EatByte(s), BuiltinToken(type, Head(s.in)))
    [] TypeData(type).kind = "struct" -> Write(PushDecode(s, type, allow, 0), Token("start_object"))
    [] TypeData(type).kind = "array" ->
         IF Overrun(s) THEN Throw(s, "overrun")
         ELSE Write(PushDecode(EatByte(s), type, FALSE, Head(s.in)), Token("start_array"))
    [] TypeData(type).kind = "variant" -> Write(PushDecode(s, type, allow, 0), Token("start_array"))

DecodeStart(s, type, allow) ==
  LET bare == Bare(type)
  IN IF ~IsOptional(bare) THEN DecodePlain(s, bare, allow)
     ELSE IF Overrun(s) THEN Throw(s, "overrun")
     ELSE IF Head(s.in) = 0 THEN Write(EatByte(s), Token("null"))
     ELSE DecodePlain(EatByte(s), TypeData(bare).of, allow)

\* At the end of the data the rest of the fields are taken for extensions left out.
DecodeObject(s) ==
  LET e == Top(s)
      p == e.position + 1
      field == Fields(e.type)[p + 1]
      at == AtPosition(s, p)
  IN IF p = Len(Fields(e.type)) THEN Write(Front1(s), Token("end_object"))
     ELSE IF s.in = <<>> /\ IsExtension(field.type) /\ e.allow THEN [at EXCEPT !.skipped = TRUE]
     ELSE DecodeStart(Write(at, Key(field.name)), field.type, e.allow /\ IsLastField(e.type, p))

DecodeArray(s) ==
  LET e == Top(s)
      p == e.position + 1
  IN IF p < e.size THEN DecodeStart(AtPosition(s, p), TypeData(e.type).of, FALSE)
     ELSE Write(Front1(s), Token("end_array"))

DecodeVariant(s) ==
  LET e == Top(s)
      f == Fields(e.type)[Head(s.in) + 1]
  IN IF e.position # -1 THEN Write(Front1(s), Token("end_array"))
     ELSE IF Overrun(s) THEN Throw(s, "overrun")
     ELSE IF Head(s.in) >= Len(Fields(e.type)) THEN Throw(s, "bad_variant_index")
     ELSE DecodeStart(Write(EatByte(AtPosition(s, 0)), [t |-> "string", s |-> f.name]), f.type, e.allow)

LimitStack(s) ==
  IF s.error = "" /\ Len(s.stack) > MaxStackSize THEN Throw(s, "recursion_limit_reached") ELSE s

-----------------------------------------------------------------------------
Failure(s) == [error |-> s.error]
IsFailure(r) == DOMAIN r = {"error"}
None == [error |-> "none"]
NoDoc == [k |-> "none"]

\* The kinds of the entry on top of a stack, each with its serializer.
TopKind == TypeData(Top(state).type).kind
Running == state.error = "" /\ state.stack # <<>>

InitEncode ==
  \E d \in Documents :
    /\ root = d.type
    /\ doc = d.doc
    /\ phase = "stream"
    /\ state = StreamStart(StreamState(Tokens(doc)), root, TRUE)
    /\ reordered = None

InitDecode ==
  \E d \in Inputs :
    /\ root = d.type
    /\ doc = NoDoc
    /\ phase = "decode"
    /\ state = DecodeStart(DecodeState(d.bytes), root, TRUE)
    /\ reordered = [bytes |-> d.bytes]

Init == (InitEncode \/ InitDecode) /\ bin = None /\ text = None /\ again = None

Turn(p, s) ==
  /\ phase = p
  /\ Running
  /\ state' = s
  /\ UNCHANGED <<root, doc, phase, bin, reordered, text, again>>

\* One turn of the loop of json_to_bin, on a document or on what bin_to_json wrote.
StreamTurn ==
  /\ phase \in {"stream", "again"}
  /\ Running
  /\ state' = IF Len(state.stack) > MaxStackSize THEN Throw(state, "recursion_limit_reached")
              ELSE CASE TopKind = "struct" -> StreamObject(state)
                     [] TopKind = "array" -> StreamArray(state)
                     [] TopKind = "variant" -> StreamVariant(state)
  /\ UNCHANGED <<root, doc, phase, bin, reordered, text, again>>

TreeTurn ==
  Turn("tree", CASE TopKind = "struct" -> TreeObject(state)
                 [] TopKind = "array" -> TreeArray(state)
                 [] TopKind = "variant" -> TreeVariant(state))

DecodeTurn ==
  Turn("decode", LimitStack(CASE TopKind = "struct" -> DecodeObject(state)
                              [] TopKind = "array" -> DecodeArray(state)
                              [] TopKind = "variant" -> DecodeVariant(state)))

Ended(p) == phase = p /\ ~Running
Result(r) == IF state.error # "" THEN Failure(state) ELSE r

\* json_to_bin returns, and the same document goes to json_to_bin_reorderable.
StreamEnds ==
  /\ Ended("stream")
  /\ bin' = Result([bytes |-> Assembled(state)])
  /\ LET tree == json_to_jvalue(Tokens(doc))
     IN state' = IF tree.error # "" THEN Throw(TreeState, tree.error)
                 ELSE TreeStart(TreeState, root, TRUE, tree.tree)
  /\ phase' = "tree"
  /\ UNCHANGED <<root, doc, reordered, text, again>>

\* What an encoder made is decoded.
TreeEnds ==
  /\ Ended("tree")
  /\ reordered' = Result([bytes |-> state.out])
  /\ IF state.error # "" /\ IsFailure(bin)
     THEN phase' = "done" /\ UNCHANGED state
     ELSE /\ phase' = "decode"
          /\ state' = DecodeStart(DecodeState(IF state.error = "" THEN state.out ELSE bin.bytes), root, TRUE)
  /\ UNCHANGED <<root, doc, bin, text, again>>

\* And encoded again.
DecodeEnds ==
  /\ Ended("decode")
  /\ text' = Result([tokens |-> state.out, rest |-> state.in])
  /\ IF state.error # "" THEN phase' = "done" /\ UNCHANGED state
     ELSE phase' = "again" /\ state' = StreamStart(StreamState(state.out), root, TRUE)
  /\ UNCHANGED <<root, doc, bin, reordered, again>>

AgainEnds ==
  /\ Ended("again")
  /\ again' = Result([bytes |-> Assembled(state)])
  /\ phase' = "done"
  /\ UNCHANGED <<root, doc, state, bin, reordered, text>>

Next == StreamTurn \/ TreeTurn \/ DecodeTurn \/ StreamEnds \/ TreeEnds \/ DecodeEnds \/ AgainEnds

Spec == Init /\ [][Next]_vars

-----------------------------------------------------------------------------
\* The two encoders agree (abieos.hpp, the json_to_bin functions): a document that the
\* one that reads in order accepts is encoded to the same bytes by the other, unless it
\* is nested too deep for the tree.
EncodersAgree ==
  phase \in {"decode", "again", "done"} /\ ~IsFailure(bin) =>
    reordered = bin \/ Depth(doc) > MaxStackSize

\* What was encoded can be decoded, to a document that is encoded to the same bytes; and
\* so can data from elsewhere, if it is what some document stands for (json_to_bin and
\* bin_to_json of abieos.hpp).
DecodesBack ==
  phase = "done" /\ ~IsFailure(reordered) /\ (doc # NoDoc => Depth(doc) <= MaxStackSize) =>
    /\ doc # NoDoc => ~IsFailure(text) /\ text.rest = <<>>
    /\ ~IsFailure(text) => ~IsFailure(again) /\ again.bytes \o text.rest = reordered.bytes
=============================================================================
