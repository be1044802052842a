----------------------------- MODULE Reflected ------------------------------
(***************************************************************************)
(* The conversions abieos derives from the C++ type of a value: to_bin and  *)
(* from_bin, to_key, to_json and from_json.  A type is a record with a kind;*)
(* its values are                                                          *)
(*   bool      0 or 1           uint, int   numbers of `width` bytes        *)
(*   varuint32, varint32        numbers     string, bytes  byte sequences *)
(*   vector, array, struct      sequences   optional  sequences of 0 or 1   *)
(*   variant   [index, v]      might_not_exist   a value that is read only  *)
(*                             if there is data left                        *)
(* Binary data and keys are sequences of bytes.                             *)
(***************************************************************************)
EXTENDS Integers, JsonTokens, FiniteSetsExt

CONSTANT Digest(_, _)   \* the first 4 bytes of ripemd160 of data and a suffix

Byte == 0..255

BytesLE(n, width) == [i \in 1..width |-> (n \div 256^(i - 1)) % 256]
BytesBE(n, width) == Reverse(BytesLE(n, width))
NumberLE(bytes) == FoldRight(LAMBDA b, n: n * 256 + b, bytes, 0)

\* Two's complement of `width` bytes.
Unsigned(n, width) == n % 256^width
Signed(n, width) == IF n >= 256^width \div 2 THEN n - 256^width ELSE n

-----------------------------------------------------------------------------
(* to_bin *)

RECURSIVE varuint32_to_bin(_)
varuint32_to_bin(n) == IF n < 128 THEN <<n>> ELSE <<128 + (n % 128)>> \o varuint32_to_bin(n \div 128)

ZigZag(n) == IF n < 0 THEN -2 * n - 1 ELSE 2 * n

RECURSIVE ToBin(_, _)
ToBin(t, v) ==
  LET Elems == FlattenSeq([i \in DOMAIN v |-> ToBin(t.of, v[i])])
  IN CASE t.kind = "bool" -> <<v>>
       [] t.kind = "uint" -> BytesLE(v, t.width)
       [] t.kind = "int" -> BytesLE(Unsigned(v, t.width), t.width)
       [] t.kind = "varuint32" -> varuint32_to_bin(v)
       [] t.kind = "varint32" -> varuint32_to_bin(ZigZag(v))
       [] t.kind \in {"string", "bytes"} -> varuint32_to_bin(Len(v)) \o v
       [] t.kind = "vector" -> varuint32_to_bin(Len(v)) \o Elems
       [] t.kind = "optional" -> <<Len(v)>> \o Elems
       [] t.kind = "array" -> Elems
       [] t.kind = "might_not_exist" -> ToBin(t.of, v)
       [] t.kind = "variant" -> varuint32_to_bin(v.index) \o ToBin(t.alts[v.index + 1], v.v)
       [] t.kind = "struct" -> FlattenSeq([i \in DOMAIN t.fields |-> ToBin(t.fields[i].type, v[i])])

-----------------------------------------------------------------------------
(* from_bin: the value and the data after it, or an error *)

Error(why) == [error |-> why]
IsError(r) == "error" \in DOMAIN r
Result(v, rest) == [v |-> v, rest |-> rest]

Take(s, n) == IF n > Len(s) THEN Error("overrun") ELSE Result(SubSeq(s, 1, n), SubSeq(s, n + 1, Len(s)))

RECURSIVE varuint32_from_bin(_, _)
varuint32_from_bin(s, shift) ==
  LET rest == varuint32_from_bin(Tail(s), shift + 7)
  IN IF shift >= 35 THEN Error("invalid_varuint_encoding")
     ELSE IF s = <<>> THEN Error("overrun")
     ELSE IF Head(s) < 128 THEN Result(Head(s), Tail(s))
     ELSE IF IsError(rest) THEN rest
     ELSE Result(Head(s) - 128 + 128 * rest.v, rest.rest)

UnZigZag(n) == IF n % 2 = 1 THEN -((n + 1) \div 2) ELSE n \div 2

Times(n, t) == [i \in 1..n |-> t]

\* What a value is before anything is read into it.
RECURSIVE Fresh(_)
Fresh(t) ==
  CASE t.kind \in {"bool", "uint", "int", "varuint32", "varint32"} -> 0
    [] t.kind \in {"string", "bytes", "vector", "optional"} -> <<>>
    [] t.kind = "array" -> Times(t.size, Fresh(t.of))
    [] t.kind = "might_not_exist" -> Fresh(t.of)
    [] t.kind = "variant" -> [index |-> 0, v |-> Fresh(t.alts[1])]
    [] t.kind = "struct" -> [i \in DOMAIN t.fields |-> Fresh(t.fields[i].type)]

RECURSIVE FromBin(_, _), ElemsFromBin(_, _, _)
\* n values one after another, of types[1], types[2] and so on.
ElemsFromBin(types, s, acc) ==
  IF types = <<>> THEN Result(acc, s)
  ELSE LET r == FromBin(Head(types), s)
       IN IF IsError(r) THEN r ELSE ElemsFromBin(Tail(types), r.rest, Append(acc, r.v))

\* A value whose size, index or presence is read first.
Sized(t, s, n) ==
  CASE t.kind \in {"string", "bytes"} -> Take(s, n)
    [] t.kind = "vector" -> ElemsFromBin(Times(n, t.of), s, <<>>)
    [] t.kind = "variant" ->
         IF n >= Len(t.alts) THEN Error("bad_variant_index")
         ELSE LET r == FromBin(t.alts[n + 1], s)
              IN IF IsError(r) THEN r ELSE Result([index |-> n, v |-> r.v], r.rest)

FromBin(t, s) ==
  CASE t.kind = "bool" -> LET r == Take(s, 1) IN IF IsError(r) THEN r ELSE Result(IF r.v = <<0>> THEN 0 ELSE 1, r.rest)
    [] t.kind = "uint" -> LET r == Take(s, t.width) IN IF IsError(r) THEN r ELSE Result(NumberLE(r.v), r.rest)
    [] t.kind = "int" ->
         LET r == Take(s, t.width) IN IF IsError(r) THEN r ELSE Result(Signed(NumberLE(r.v), t.width), r.rest)
    [] t.kind = "varuint32" -> varuint32_from_bin(s, 0)
    [] t.kind = "varint32" ->
         LET r == varuint32_from_bin(s, 0) IN IF IsError(r) THEN r ELSE Result(UnZigZag(r.v), r.rest)
    [] t.kind = "optional" ->
         LET r == Take(s, 1)
         IN IF IsError(r) THEN r ELSE ElemsFromBin(IF r.v = <<0>> THEN <<>> ELSE <<t.of>>, r.rest, <<>>)
    [] t.kind = "array" -> ElemsFromBin(Times(t.size, t.of), s, <<>>)
    [] t.kind = "might_not_exist" -> IF s = <<>> THEN Result(Fresh(t.of), s) ELSE FromBin(t.of, s)
    [] t.kind = "struct" -> ElemsFromBin([i \in DOMAIN t.fields |-> t.fields[i].type], s, <<>>)
    [] OTHER ->
         LET r == varuint32_from_bin(s, 0) IN IF IsError(r) THEN r ELSE Sized(t, r.rest, r.v)

-----------------------------------------------------------------------------
(* to_key *)

\* The number of bytes is told by the leading 1s of the first.
to_key_varuint32(n) ==
  IF n < 128 THEN <<n>>
  ELSE IF n < 16384 THEN <<128 + n \div 256, (n % 256)>>
  ELSE <<192 + n \div 65536>> \o BytesBE(n % 65536, 2)

IsOneByte(t) == t.kind = "bool" \/ (t.kind \in {"uint", "int"} /\ t.width = 1)

RECURSIVE ToKey(_, _)
\* to_key_optional: a value that may not be there; one of a byte has no byte in front.
KeyOfOptional(t, present, v) ==
  IF IsOneByte(t)
  THEN IF ~present THEN <<0, 0>> ELSE IF ToKey(t, v) = <<0>> THEN <<0, 1>> ELSE ToKey(t, v)
  ELSE IF present THEN <<1>> \o ToKey(t, v) ELSE <<0>>

\* to_key_range: the elements as if each were optional, and one that is not there.
KeyOfRange(of, v) ==
  FlattenSeq([i \in DOMAIN v |-> KeyOfOptional(of, TRUE, v[i])]) \o KeyOfOptional(of, FALSE, 0)

\* to_key_tuple
KeyOfTuple(types, v) == FlattenSeq([i \in DOMAIN v |-> ToKey(types[i], v[i])])

ToKey(t, v) ==
  CASE t.kind = "bool" -> <<v>>
    [] t.kind = "uint" -> BytesBE(v, t.width)
    [] t.kind = "int" -> BytesBE(v + 256^t.width \div 2, t.width)
    [] t.kind = "varuint32" -> to_key_varuint32(v)
    [] t.kind = "string" -> FlattenSeq([i \in DOMAIN v |-> IF v[i] = 0 THEN <<0, 1>> ELSE <<v[i]>>]) \o <<0, 0>>
    [] t.kind = "vector" -> KeyOfRange(t.of, v)
    [] t.kind = "optional" -> KeyOfOptional(t.of, v # <<>>, IF v = <<>> THEN 0 ELSE v[1])
    [] t.kind = "array" -> KeyOfTuple(Times(t.size, t.of), v)
    [] t.kind = "variant" -> to_key_varuint32(v.index) \o ToKey(t.alts[v.index + 1], v.v)
    [] t.kind = "struct" -> KeyOfTuple([i \in DOMAIN t.fields |-> t.fields[i].type], v)

-----------------------------------------------------------------------------
(* to_json; the text of a number is its characters *)

Digits == <<"0", "1", "2", "3", "4", "5", "6", "7", "8", "9">>
DigitValue == [d \in Range(Digits) |-> (CHOOSE i \in DOMAIN Digits : Digits[i] = d) - 1]

RECURSIVE Decimal(_)
Decimal(n) == IF n < 10 THEN <<Digits[n + 1]>> ELSE Append(Decimal(n \div 10), Digits[(n % 10) + 1])
int_to_json(n) == IF n < 0 THEN <<"-">> \o Decimal(-n) ELSE Decimal(n)

HexDigits == Digits \o <<"A", "B", "C", "D", "E", "F">>
\* to_json_hex
Hex(bytes) == FlattenSeq([i \in DOMAIN bytes |-> <<HexDigits[bytes[i] \div 16 + 1], HexDigits[(bytes[i] % 16) + 1]>>])

RECURSIVE ToJson(_, _)
ToJson(t, v) ==
  CASE t.kind = "bool" -> Bool(v = 1)
    [] t.kind \in {"uint", "int", "varuint32", "varint32"} -> Text(int_to_json(v))
    [] t.kind = "string" -> Text(v)
    [] t.kind = "bytes" -> Text(Hex(v))
    [] t.kind = "vector" -> Array([i \in DOMAIN v |-> ToJson(t.of, v[i])])
    [] t.kind = "optional" -> IF v = <<>> THEN Null ELSE ToJson(t.of, v[1])
    [] t.kind = "variant" -> Array(<<Text(t.names[v.index + 1]), ToJson(t.alts[v.index + 1], v.v)>>)
    [] t.kind = "struct" ->
         Object([i \in DOMAIN t.fields |-> Member(t.fields[i].name, ToJson(t.fields[i].type, v[i]))])

-----------------------------------------------------------------------------
(* from_json: the value and the tokens after it, or an error *)

\* C++ divides towards zero.
Quotient(a, b) == IF a < 0 THEN -((-a) \div b) ELSE a \div b

Limits(t) ==
  CASE t.kind = "uint" -> [min |-> 0, max |-> 256^t.width - 1]
    [] t.kind = "int" -> [min |-> -(256^t.width \div 2), max |-> 256^t.width \div 2 - 1]
    [] t.kind = "varuint32" -> [min |-> 0, max |-> 2^30]         \* 2^32 - 1, too large for the checker
    [] t.kind = "varint32" -> [min |-> -2^30, max |-> 2^30 - 1]  \* 2^31 of each sign

\* May this digit be added without leaving the type?
FitsDigit(signed, sign, limit, n, d) ==
  IF signed THEN Quotient(-sign * limit + d, 10) <= -sign * n ELSE (limit - d) \div 10 >= n

from_json_int(t, text) ==
  LET signed == t.kind \in {"int", "varint32"}
      minus == signed /\ text # <<>> /\ Head(text) = "-"
      sign == IF minus THEN -1 ELSE 1
      limit == IF minus THEN Limits(t).min ELSE Limits(t).max
      digits == IF minus THEN Tail(text) ELSE text
      Add(acc, c) ==
        IF IsError(acc) THEN acc
        ELSE IF c \notin Range(Digits) THEN Error("expected_int")
        ELSE IF ~FitsDigit(signed, sign, limit, acc.v, DigitValue[c]) THEN Error("number_out_of_range")
        ELSE [v |-> acc.v * 10 + sign * DigitValue[c]]
  IN IF digits = <<>> THEN Error("expected_int") ELSE FoldLeft(Add, [v |-> 0], digits)

Nibble(digits) == [d \in Range(digits) |-> (CHOOSE i \in DOMAIN digits : digits[i] = d) - 1]
NibbleOf == Nibble(HexDigits) @@ Nibble(Digits \o <<"a", "b", "c", "d", "e", "f">>)

\* unhex, in from_json_hex
FromHex(text) ==
  IF Len(text) % 2 = 1 \/ ~(Range(text) \subseteq DOMAIN NibbleOf) THEN Error("expected_hex_string")
  ELSE [v |-> [i \in 1..(Len(text) \div 2) |-> 16 * NibbleOf[text[2 * i - 1]] + NibbleOf[text[2 * i]]]]

\* Mutant: only the next token is skipped.
SkipOneToken(in, depth) == Tail(in)

\* from_json_skip_value
RECURSIVE SkipValue(_, _)
SkipValue(in, depth) ==
  LET d == depth + (CASE Head(in).t \in {"start_object", "start_array"} -> 1
                      [] Head(in).t \in {"end_object", "end_array"} -> -1
                      [] OTHER -> 0)
  IN IF d = 0 THEN Tail(in) ELSE SkipValue(Tail(in), d)

RECURSIVE FromJson(_, _, _), ElemsFromJson(_, _, _), MembersFromJson(_, _, _)
\* Elements are added to those the vector holds already.
ElemsFromJson(t, in, acc) ==
  IF Head(in).t = "end_array" THEN Result(acc, Tail(in))
  ELSE LET r == FromJson(t, in, Fresh(t))
       IN IF IsError(r) THEN r ELSE ElemsFromJson(t, r.rest, Append(acc, r.v))

\* Members are found by name, and those of no field are skipped.
MembersFromJson(t, in, obj) ==
  LET i == SelectInSeq(t.fields, LAMBDA f: f.name = Head(in).s)
      r == FromJson(t.fields[i].type, Tail(in), obj[i])
  IN IF Head(in).t = "end_object" THEN Result(obj, Tail(in))
     ELSE IF i = 0 THEN MembersFromJson(t, SkipValue(Tail(in), 0), obj)
     ELSE IF IsError(r) THEN r
     ELSE MembersFromJson(t, r.rest, [obj EXCEPT ![i] = r.v])

VariantFromJson(t, in) ==
  LET i == SelectInSeq(t.names, LAMBDA n: n = in[1].s)
      r == FromJson(t.alts[i], Tail(in), Fresh(t.alts[i]))
  IN IF in[1].t # "string" THEN Error("expected_string")
     ELSE IF i = 0 THEN Error("invalid_type_for_variant")
     ELSE IF IsError(r) THEN r
     ELSE IF Head(r.rest).t # "end_array" THEN Error("expected_end_array")
     ELSE Result([index |-> i - 1, v |-> r.v], Tail(r.rest))

\* Reads into `obj`, which may hold a value already.
FromJson(t, in, obj) ==
  CASE t.kind = "bool" ->
         IF Head(in).t = "bool" THEN Result(IF Head(in).b THEN 1 ELSE 0, Tail(in)) ELSE Error("expected_bool")
    [] t.kind \in {"uint", "int", "varuint32", "varint32"} ->
         LET r == from_json_int(t, Head(in).s)
         IN IF Head(in).t # "string" THEN Error("expected_string")
            ELSE IF IsError(r) THEN r ELSE Result(r.v, Tail(in))
    [] t.kind = "string" ->
         IF Head(in).t = "string" THEN Result(Head(in).s, Tail(in)) ELSE Error("expected_string")
    [] t.kind = "bytes" ->
         LET r == FromHex(Head(in).s)
         IN IF Head(in).t # "string" THEN Error("expected_string") ELSE IF IsError(r) THEN r ELSE Result(r.v, Tail(in))
    [] t.kind = "vector" ->
         IF Head(in).t = "start_array" THEN ElemsFromJson(t.of, Tail(in), obj) ELSE Error("expected_start_array")
    [] t.kind = "optional" ->
         LET r == FromJson(t.of, in, Fresh(t.of))
         IN IF Head(in).t = "null" THEN Result(<<>>, Tail(in))
            ELSE IF IsError(r) THEN r ELSE Result(<<r.v>>, r.rest)
    [] t.kind = "variant" ->
         IF Head(in).t = "start_array" THEN VariantFromJson(t, Tail(in)) ELSE Error("expected_start_array")
    [] t.kind = "struct" ->
         IF Head(in).t = "start_object" THEN MembersFromJson(t, Tail(in), obj) ELSE Error("expected_start_object")
-----------------------------------------------------------------------------
(* The types of the state history, as reflection lists their members (JSON   *)
(* names of variants left out).  Numbers of more than 16 bits, names, hashes *)
(* and floats are kept as their bytes.                                       *)

uint8_t == [kind |-> "uint", width |-> 1]
uint16_t == [kind |-> "uint", width |-> 2]
FixedSize(n) == [kind |-> "array", of |-> uint8_t, size |-> n]
uint32_t == FixedSize(4)
uint64_t == FixedSize(8)
uint128_t == FixedSize(16)
name == uint64_t
checksum256 == FixedSize(32)
varuint32 == [kind |-> "varuint32"]
bool == [kind |-> "bool"]
string == [kind |-> "string"]
input_stream == [kind |-> "bytes"]

Vector(t) == [kind |-> "vector", of |-> t]
Optional(t) == [kind |-> "optional", of |-> t]
Variant(alts) == [kind |-> "variant", alts |-> alts]
MightNotExist(t) == [kind |-> "might_not_exist", of |-> t]

\* Members, each a name and its type in turn; and several of one type.
Struct(q) == [kind |-> "struct",
              fields |-> [i \in 1..(Len(q) \div 2) |-> [name |-> q[2 * i - 1], type |-> q[2 * i]]]]
All(names, t) == FlattenSeq([i \in DOMAIN names |-> <<names[i], t>>])
\* A struct with a base has the members of the base first.
Derived(base, q) == [base EXCEPT !.fields = @ \o Struct(q).fields]

ecc_public_key == FixedSize(33)
webauthn_public_key == Struct(<<"key", ecc_public_key, "user_presence", uint8_t, "rpid", string>>)
public_key == Variant(<<ecc_public_key, ecc_public_key, webauthn_public_key>>)
private_key == Variant(<<FixedSize(32), FixedSize(32)>>)
ecc_signature == FixedSize(65)
webauthn_signature == Struct(<<"compact_signature", ecc_signature, "auth_data", Vector(uint8_t), "client_json", string>>)
signature == Variant(<<ecc_signature, ecc_signature, webauthn_signature>>)

extension == Struct(<<"type", uint16_t, "data", input_stream>>)

transaction_status == uint8_t
StatusNames == <<"executed", "soft_fail", "hard_fail", "delayed", "expired">>
to_string(status) == IF status < Len(StatusNames) THEN [v |-> StatusNames[status + 1]] ELSE Error("unknown status")
get_transaction_status(s) ==
  LET i == SelectInSeq(StatusNames, LAMBDA n: n = s) IN IF i = 0 THEN Error("unknown status") ELSE [v |-> i - 1]

\* Requests and results
get_status_request_v0 == Struct(<<>>)
block_position == Struct(<<"block_num", uint32_t, "block_id", checksum256>>)
get_status_result_v0 ==
  Struct(All(<<"head", "last_irreversible">>, block_position)
         \o All(<<"trace_begin_block", "trace_end_block", "chain_state_begin_block", "chain_state_end_block">>, uint32_t)
         \o <<"chain_id", MightNotExist(checksum256)>>)
get_blocks_request_v0 ==
  Struct(All(<<"start_block_num", "end_block_num", "max_messages_in_flight">>, uint32_t)
         \o <<"have_positions", Vector(block_position)>>
         \o All(<<"irreversible_only", "fetch_block", "fetch_traces", "fetch_deltas">>, bool))
get_blocks_ack_request_v0 == Struct(<<"num_messages", uint32_t>>)
request == Variant(<<get_status_request_v0, get_blocks_request_v0, get_blocks_ack_request_v0>>)
get_blocks_result_v0 ==
  Struct(All(<<"head", "last_irreversible">>, block_position)
         \o All(<<"this_block", "prev_block">>, Optional(block_position))
         \o All(<<"block", "traces", "deltas">>, Optional(input_stream)))
result == Variant(<<get_status_result_v0, get_blocks_result_v0>>)

row == Struct(<<"present", bool, "data", input_stream>>)
table_delta == Variant(<<Struct(<<"name", string, "rows", Vector(row)>>)>>)

\* Traces
permission_level == Struct(All(<<"actor", "permission">>, name))
action == Struct(<<"account", name, "name", name, "authorization", Vector(permission_level), "data", input_stream>>)
account_auth_sequence == Struct(<<"account", name, "sequence", uint64_t>>)
action_receipt ==
  Variant(<<Struct(<<"receiver", name, "act_digest", checksum256>> \o All(<<"global_sequence", "recv_sequence">>, uint64_t)
                   \o <<"auth_sequence", Vector(account_auth_sequence)>>
                   \o All(<<"code_sequence", "abi_sequence">>, varuint32))>>)
account_delta == Struct(<<"account", name, "delta", uint64_t>>)
action_trace_v0 ==
  Struct(All(<<"action_ordinal", "creator_action_ordinal">>, varuint32)
         \o <<"receipt", Optional(action_receipt), "receiver", name, "act", action, "context_free", bool,
              "elapsed", uint64_t, "console", string, "account_ram_deltas", Vector(account_delta),
              "except", Optional(string), "error_code", Optional(uint64_t)>>)
action_trace_v1 == Derived(action_trace_v0, <<"return_value", input_stream>>)
action_trace == Variant(<<action_trace_v0, action_trace_v1>>)

transaction_header ==
  Struct(<<"expiration", uint32_t, "ref_block_num", uint16_t, "ref_block_prefix", uint32_t,
           "max_net_usage_words", varuint32, "max_cpu_usage_ms", uint8_t, "delay_sec", varuint32>>)
partial_transaction ==
  Variant(<<Derived(transaction_header, <<"transaction_extensions", Vector(extension), "signatures", Vector(signature),
                                          "context_free_data", Vector(input_stream)>>)>>)

\* recurse_transaction_trace: a trace may hold that of a failed deferred transaction, to any
\* depth in the code and to this one here.
RECURSIVE transaction_trace(_)
transaction_trace(depth) ==
  Variant(<<Struct(<<"id", checksum256, "status", transaction_status, "cpu_usage_us", uint32_t,
                     "net_usage_words", varuint32, "elapsed", uint64_t, "net_usage", uint64_t, "scheduled", bool,
                     "action_traces", Vector(action_trace), "account_ram_delta", Optional(account_delta),
                     "except", Optional(string), "error_code", Optional(uint64_t),
                     "failed_dtrx_trace", Vector(IF depth = 0 THEN Struct(<<>>) ELSE transaction_trace(depth - 1)),
                     "partial", Optional(partial_transaction)>>)>>)

\* Blocks
producer_key == Struct(<<"producer_name", name, "block_signing_key", public_key>>)
producer_schedule == Struct(<<"version", uint32_t, "producers", Vector(producer_key)>>)
transaction_receipt_header ==
  Struct(<<"status", transaction_status, "cpu_usage_us", uint32_t, "net_usage_words", varuint32>>)
packed_transaction ==
  Struct(<<"signatures", Vector(signature), "compression", uint8_t>>
         \o All(<<"packed_context_free_data", "packed_trx">>, input_stream))
transaction_receipt == Derived(transaction_receipt_header, <<"trx", Variant(<<checksum256, packed_transaction>>)>>)
block_header ==
  Struct(<<"timestamp", uint32_t, "producer", name, "confirmed", uint16_t>>
         \o All(<<"previous", "transaction_mroot", "action_mroot">>, checksum256)
         \o <<"schedule_version", uint32_t, "new_producers", Optional(producer_schedule),
              "header_extensions", Vector(extension)>>)
signed_block_header == Derived(block_header, <<"producer_signature", signature>>)
signed_block ==
  Derived(signed_block_header, <<"transactions", Vector(transaction_receipt), "block_extensions", Vector(extension)>>)
transaction ==
  Derived(transaction_header, All(<<"context_free_actions", "actions">>, Vector(action))
                              \o <<"transaction_extensions", Vector(extension)>>)

\* Rows of the tables of a chain
code_id == Struct(<<"vm_type", uint8_t, "vm_version", uint8_t, "code_hash", checksum256>>)
account == Variant(<<Struct(<<"name", name, "creation_date", uint32_t, "abi", input_stream>>)>>)
account_metadata ==
  Variant(<<Struct(<<"name", name, "privileged", bool, "last_code_update", uint64_t, "code", Optional(code_id)>>)>>)
code == Variant(<<Derived(code_id, <<"code", input_stream>>)>>)
contract_table == Variant(<<Struct(All(<<"code", "scope", "table", "payer">>, name))>>)
contract_row ==
  Variant(<<Struct(All(<<"code", "scope", "table">>, name)
                   \o <<"primary_key", uint64_t, "payer", name, "value", input_stream>>)>>)
\* contract_index64, 128, 256, double, long_double: the types of the secondary key.
ContractIndex(key) ==
  Variant(<<Struct(All(<<"code", "scope", "table">>, name)
                   \o <<"primary_key", uint64_t, "payer", name, "secondary_key", key>>)>>)

key_weight == Struct(<<"key", public_key, "weight", uint16_t>>)
block_signing_authority == Variant(<<Struct(<<"threshold", uint32_t, "keys", Vector(key_weight)>>)>>)
producer_authority_schedule ==
  Struct(<<"version", uint32_t,
           "producers", Vector(Struct(<<"producer_name", name, "authority", block_signing_authority>>))>>)
chain_config_v0 ==
  Struct(<<"max_block_net_usage", uint64_t>>
         \o All(<<"target_block_net_usage_pct", "max_transaction_net_usage", "base_per_transaction_net_usage",
                  "net_usage_leeway", "context_free_discount_net_usage_num", "context_free_discount_net_usage_den",
                  "max_block_cpu_usage", "target_block_cpu_usage_pct", "max_transaction_cpu_usage",
                  "min_transaction_cpu_usage", "max_transaction_lifetime", "deferred_trx_expiration_window",
                  "max_transaction_delay", "max_inline_action_size">>, uint32_t)
         \o All(<<"max_inline_action_depth", "max_authority_depth">>, uint16_t))
chain_config_v1 == Derived(chain_config_v0, <<"max_action_return_value_size", uint32_t>>)
wasm_config ==
  Variant(<<Struct(All(<<"max_mutable_global_bytes", "max_table_elements", "max_section_elements",
                         "max_linear_memory_init", "max_func_local_bytes", "max_nested_structures",
                         "max_symbol_bytes", "max_module_bytes", "max_code_bytes", "max_pages",
                         "max_call_depth">>, uint32_t))>>)
\* global_property_v0 and v1: the type of the schedule, and what the later one adds.
GlobalProperty(schedule) ==
  Struct(<<"proposed_schedule_block_num", Optional(uint32_t), "proposed_schedule", schedule,
           "configuration", Variant(<<chain_config_v0, chain_config_v1>>)>>)
global_property ==
  Variant(<<GlobalProperty(producer_schedule),
            Derived(GlobalProperty(producer_authority_schedule),
                    <<"chain_id", checksum256, "wasm_configuration", MightNotExist(wasm_config)>>)>>)

generated_transaction ==
  Variant(<<Struct(<<"sender", name, "sender_id", uint128_t, "payer", name, "trx_id", checksum256,
                     "packed_trx", input_stream>>)>>)
protocol_state ==
  LET feature == Variant(<<Struct(<<"feature_digest", checksum256, "activation_block_num", uint32_t>>)>>)
  IN Variant(<<Struct(<<"activated_protocol_features", Vector(feature)>>)>>)

Weighted(what, t) == Struct(<<what, t, "weight", uint16_t>>)
authority ==
  Struct(<<"threshold", uint32_t, "keys", Vector(key_weight),
           "accounts", Vector(Weighted("permission", permission_level)), "waits", Vector(Weighted("wait_sec", uint32_t))>>)
permission ==
  Variant(<<Struct(All(<<"owner", "name", "parent">>, name) \o <<"last_updated", uint64_t, "auth", authority>>)>>)
permission_link == Variant(<<Struct(All(<<"account", "code", "message_type", "required_permission">>, name))>>)

resource_limits ==
  Variant(<<Struct(<<"owner", name>> \o All(<<"net_weight", "cpu_weight", "ram_bytes">>, uint64_t))>>)
usage_accumulator == Variant(<<Struct(<<"last_ordinal", uint32_t>> \o All(<<"value_ex", "consumed">>, uint64_t))>>)
resource_usage ==
  Variant(<<Struct(<<"owner", name>> \o All(<<"net_usage", "cpu_usage">>, usage_accumulator) \o <<"ram_usage", uint64_t>>)>>)
resource_limits_state ==
  Variant(<<Struct(All(<<"average_block_net_usage", "average_block_cpu_usage">>, usage_accumulator)
                   \o All(<<"total_net_weight", "total_cpu_weight", "total_ram_bytes", "virtual_net_limit",
                            "virtual_cpu_limit">>, uint64_t))>>)
resource_limits_ratio == Variant(<<Struct(All(<<"numerator", "denominator">>, uint64_t))>>)
elastic_limit_parameters ==
  Variant(<<Struct(All(<<"target", "max">>, uint64_t) \o All(<<"periods", "max_multiplier">>, uint32_t)
                   \o All(<<"contract_rate", "expand_rate">>, resource_limits_ratio))>>)
resource_limits_config ==
  Variant(<<Struct(All(<<"cpu_limit_parameters", "net_limit_parameters">>, elastic_limit_parameters)
                   \o All(<<"account_cpu_usage_average_window", "account_net_usage_average_window">>, uint32_t))>>)

\* What a message of the state history, or a row of a delta, may be.
ShipTypes ==
  {request, result, table_delta, transaction_trace(1), signed_block, transaction, account, account_metadata, code,
   contract_table, contract_row, global_property, generated_transaction, protocol_state, permission, permission_link,
   resource_limits, resource_usage, resource_limits_state, resource_limits_config}
  \cup {ContractIndex(key) : key \in {uint64_t, uint128_t, checksum256}}
-----------------------------------------------------------------------------
(* Texts of keys: a prefix and base58 digits, which are 0 to 57.  The map of *)
(* characters also has the 0 byte that ends base58_chars, as digit 58.       *)

Base58 == 58

\* The digits of a number, lowest first.
RECURSIVE DigitsOf(_, _)
DigitsOf(n, base) == IF n = 0 THEN <<>> ELSE <<n % base>> \o DigitsOf(n \div base, base)

\* Digits of `to`, lowest first, times `from` and plus a digit more.
Shifted(digits, from, to, digit) ==
  LET Add(acc, d) == [digits |-> Append(acc.digits, (d * from + acc.carry) % to), carry |-> (d * from + acc.carry) \div to]
      r == FoldLeft(Add, [digits |-> <<>>, carry |-> digit], digits)
  IN r.digits \o DigitsOf(r.carry, to)

\* Zeros in front stand for themselves.
LeadingZeros(s) == SelectInSeq(Append(s, 1), LAMBDA d: d # 0) - 1
Rebased(s, from, to) ==
  Reverse(FoldLeft(LAMBDA digits, d: Shifted(digits, from, to, d), <<>>, s) \o Times(LeadingZeros(s), 0))

binary_to_base58(bin) == Rebased(bin, 256, Base58)
base58_to_binary(s) == IF Range(s) \subseteq 0..Base58 THEN [v |-> Rebased(s, Base58, 256)] ELSE Error("expected_key")

\* The kinds of keys: what is serialised, the prefix for each alternative, and the error for others.
KeyKinds ==
  [public |-> [type |-> public_key, prefixes |-> <<"PUB_K1_", "PUB_R1_", "PUB_WA_">>, error |-> "expected_public_key"],
   private |-> [type |-> private_key, prefixes |-> <<"PVT_K1_", "PVT_R1_">>, error |-> "expected_private_key"],
   signature |-> [type |-> signature, prefixes |-> <<"SIG_K1_", "SIG_R1_", "SIG_WA_">>, error |-> "expected_signature"]]
KeySuffixes == <<"K1", "R1", "WA">>

\* public_key_to_string and the like
key_to_string(kind, key) ==
  LET bytes == Tail(ToBin(KeyKinds[kind].type, key))
  IN [prefix |-> KeyKinds[kind].prefixes[key.index + 1],
      digits |-> binary_to_base58(bytes \o Digest(bytes, KeySuffixes[key.index + 1]))]

\* What is read is the value; bytes after it are passed over.
OnlyValue(r) == IF IsError(r) THEN r ELSE [v |-> r.v]

string_to_key(type, digits, index, suffix) ==
  LET r == base58_to_binary(digits)
      n == Len(r.v) - 4
  IN IF IsError(r) THEN r
     ELSE IF n <= 0 \/ Digest(SubSeq(r.v, 1, n), suffix) # SubSeq(r.v, n + 1, n + 4) THEN Error("expected_key")
     ELSE OnlyValue(FromBin(type, <<index>> \o SubSeq(r.v, 1, n)))

\* A private key without a prefix: a byte of its own in front, and the digest is not looked at.
wif_to_key(digits) ==
  LET r == base58_to_binary(digits)
  IN IF IsError(r) THEN r
     ELSE IF Len(r.v) < 5 THEN Error("expected_private_key")
     ELSE OnlyValue(FromBin(private_key, [SubSeq(r.v, 1, Len(r.v) - 4) EXCEPT ![1] = 0]))

\* public_key_from_string and the like
key_from_string(kind, text) ==
  LET type == KeyKinds[kind].type
      i == SelectInSeq(KeyKinds[kind].prefixes, LAMBDA p: p = text.prefix)
  IN IF i # 0 THEN string_to_key(type, text.digits, i - 1, KeySuffixes[i])
     ELSE IF kind = "public" /\ text.prefix = "EOS" THEN string_to_key(type, text.digits, 0, "")
     ELSE IF kind = "private" /\ text.prefix = "" THEN wif_to_key(text.digits)
     ELSE Error(KeyKinds[kind].error)
=============================================================================
