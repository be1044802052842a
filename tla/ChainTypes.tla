----------------------------- MODULE ChainTypes -----------------------------
(***************************************************************************)
(* The types of a chain that have a text of their own: names, symbol codes, *)
(* assets, times.  Numbers too wide for the checker are kept as the parts   *)
(* the code takes them apart into: a name is its characters' digits, a      *)
(* symbol code its bytes, a time its day and the rest of it.  A text is a   *)
(* sequence of characters.                                                  *)
(***************************************************************************)
EXTENDS Integers, SequencesExt, FiniteSets

CONSTANTS
  NameLength,   \* 13: characters of a name, the last of 4 bits and the others of 5
  CodeLength,   \* 7: letters of a symbol code; its number has one byte more
  AmountBits,   \* 64
  Interval,     \* 500 ms: block_interval_ms
  Epoch,        \* block_timestamp_epoch, in ms
  TimeBits,     \* 32: bits of a time_point_sec and of a slot
  UsPerMs,      \* 1000
  MsPerSecond,  \* 1000
  ByteValues    \* 256

Error(why) == [error |-> why]
IsError(r) == "error" \in DOMAIN r
Value(v) == [v |-> v]

\* find_last_not_of: the text without the characters c at its end.
DropTrailing(s, c) == SubSeq(s, 1, SelectLastInSeq(s, LAMBDA x: x # c))

-----------------------------------------------------------------------------
(* Names.  A digit is the place of the character in charmap. *)

charmap == <<".", "1", "2", "3", "4", "5", "a", "b", "c", "d", "e", "f", "g", "h", "i", "j", "k", "l", "m",
             "n", "o", "p", "q", "r", "s", "t", "u", "v", "w", "x", "y", "z">>
NameDigit == [c \in Range(charmap) |-> (CHOOSE i \in DOMAIN charmap : charmap[i] = c) - 1]

\* char_to_name_digit, cut to the bits of its place
DigitAt(i, digit) == IF i = NameLength THEN digit % 16 ELSE digit
Padded(digits) == digits \o [i \in 1..(NameLength - Len(digits)) |-> 0]

string_to_name(s) ==
  Padded([i \in 1..(IF Len(s) < NameLength THEN Len(s) ELSE NameLength) |->
            DigitAt(i, IF s[i] \in Range(charmap) THEN NameDigit[s[i]] ELSE 0)])

try_string_to_name_strict(s) ==
  LET last == s[NameLength]
  IN IF \E i \in DOMAIN s : i <= NameLength /\ s[i] \notin Range(charmap) THEN Error("invalid_name_char")
     ELSE IF Len(s) >= NameLength /\ NameDigit[last] > 15 THEN Error("invalid_name_char13")
     ELSE IF Len(s) > NameLength THEN Error("name_too_long")
     ELSE Value(string_to_name(s))

name_to_string(name) == DropTrailing([i \in DOMAIN name |-> charmap[name[i] + 1]], ".")

\* name::length: the place of the last character that is not a dot.
NameSize(name) == SelectLastInSeq(name, LAMBDA d: d # 0)

\* Dots with a character that is not one somewhere after them.
InnerDots(name) == {i \in DOMAIN name : name[i] = 0 /\ i < NameSize(name)}
LastInnerDot(name) == CHOOSE i \in InnerDots(name) : \A j \in InnerDots(name) : j <= i

\* name::suffix moves what follows the last dot to the front, the last character with it.
NameSuffix(name) ==
  IF InnerDots(name) = {} THEN name ELSE Padded(SubSeq(name, LastInnerDot(name) + 1, NameLength))

\* name::prefix clears the last dot and what follows it.
NamePrefix(name) ==
  IF InnerDots(name) = {} THEN name ELSE Padded(SubSeq(name, 1, LastInnerDot(name) - 1))

-----------------------------------------------------------------------------
(* Symbol codes: bytes, lowest first; "" is a byte of 0. *)

Letters == {"A", "B", "C", "D", "E", "F", "G", "H", "I", "J", "K", "L", "M", "N", "O", "P", "Q", "R", "S",
            "T", "U", "V", "W", "X", "Y", "Z"}
NumberChars == <<"0", "1", "2", "3", "4", "5", "6", "7", "8", "9">>
CharValue == [c \in Range(NumberChars) |-> (CHOOSE i \in DOMAIN NumberChars : NumberChars[i] = c) - 1]

\* The number of characters at the start of s that are in `set`.
Leading(s, set) == SelectInSeq(Append(s, "end"), LAMBDA c: c \notin set) - 1
Rest(s, n) == SubSeq(s, n + 1, Len(s))

CodeOf(s) == s \o [i \in 1..(CodeLength + 1 - Len(s)) |-> ""]

\* symbol_code(std::string_view)
symbol_code(s) ==
  IF Len(s) > CodeLength THEN Error("too_long")
  ELSE IF ~(Range(s) \subseteq Letters) THEN Error("not_uppercase")
  ELSE Value(CodeOf(s))

\* symbol_code::is_valid: one letter at least, and none after the first byte of 0.  What is
\* above CodeLength letters is not looked at.
CodeIsValid(code) ==
  \E n \in 1..CodeLength :
    /\ \A i \in 1..n : code[i] \in Letters
    /\ n = CodeLength \/ \A i \in (n + 1)..Len(code) : code[i] = ""

\* symbol_code::length, symbol_code_to_string (of a code without a byte of 0 inside)
CodeSize(code) == SelectInSeq(Append(code, ""), LAMBDA b: b = "") - 1
symbol_code_to_string(code) == DropTrailing(code, "")

\* The code, and the text after it.
string_to_symbol_code(text, require_end) ==
  LET s == Rest(text, Leading(text, {" "}))
      n == Leading(s, Letters)
  IN IF n > CodeLength \/ n = 0 \/ (require_end /\ n < Len(s)) THEN Error("symbol_code")
     ELSE [v |-> CodeOf(SubSeq(s, 1, n)), rest |-> Rest(s, n)]

Decimal[n \in Nat] == IF n < 10 THEN <<NumberChars[n + 1]>> ELSE Append(Decimal[n \div 10], NumberChars[(n % 10) + 1])

\* A number of `bits` bits read digit by digit: it wraps.
ReadNumber(digits, bits) == FoldLeft(LAMBDA n, c: (n * 10 + CharValue[c]) % 2^bits, 0, digits)

\* The precision is a byte.
string_to_symbol(text) ==
  LET n == Leading(text, Range(NumberChars))
      code == string_to_symbol_code(Rest(text, n + 1), TRUE)
  IN IF n = 0 \/ n = Len(text) \/ text[n + 1] # "," \/ IsError(code) THEN Error("symbol")
     ELSE Value([precision |-> ReadNumber(SubSeq(text, 1, n), 8), code |-> code.v])

\* symbol(symbol_code, precision): the precision takes the place of a byte, and the highest
\* byte of the code, which a valid one has not, is lost.
RawSymbol(code, precision) == <<precision>> \o SubSeq(code, 1, CodeLength)
PrecisionOf(raw) == Head(raw)
CodeOfSymbol(raw) == Append(Tail(raw), "")

symbol_to_string(symbol) == Decimal[symbol.precision] \o <<",">> \o symbol_code_to_string(symbol.code)

-----------------------------------------------------------------------------
(* Assets: amounts of AmountBits bits with a sign. *)

Half == 2^(AmountBits - 1)
Signed(u) == IF u >= Half THEN u - 2 * Half ELSE u
max_amount == Half \div 2 - 1

is_amount_within_range(amount) == -max_amount <= amount /\ amount <= max_amount
AssetIsValid(a) == is_amount_within_range(a.amount) /\ CodeIsValid(a.symbol.code)

\* asset(amount, symbol)
MakeAsset(amount, symbol) ==
  IF ~is_amount_within_range(amount) THEN Error("magnitude")
  ELSE IF ~CodeIsValid(symbol.code) THEN Error("invalid symbol")
  ELSE Value([amount |-> amount, symbol |-> symbol])

InRange(a, amount) == IF is_amount_within_range(amount) THEN Value([a EXCEPT !.amount = amount]) ELSE Error("overflow")
\* C++ divides towards zero.
Truncated(n, d) == LET q == (IF n < 0 THEN -n ELSE n) \div (IF d < 0 THEN -d ELSE d)
                   IN IF (n < 0) = (d < 0) THEN q ELSE -q

AddAsset(a, b) == IF a.symbol # b.symbol THEN Error("symbol") ELSE InRange(a, a.amount + b.amount)
SubtractAsset(a, b) == IF a.symbol # b.symbol THEN Error("symbol") ELSE InRange(a, a.amount - b.amount)
NegateAsset(a) == Value([a EXCEPT !.amount = -@])
\* Mutant: the result is in the type but not in the range.
MultiplyAssetLoose(a, n) == IF a.amount * n < Half THEN Value([a EXCEPT !.amount = @ * n]) ELSE Error("overflow")
MultiplyAsset(a, n) == InRange(a, a.amount * n)
DivideAsset(a, n) ==
  IF n = 0 \/ (a.amount = -Half /\ n = -1) THEN Error("divide") ELSE Value([a EXCEPT !.amount = Truncated(@, n)])
RatioOf(a, b) ==
  IF b.amount = 0 \/ a.symbol # b.symbol THEN Error("divide") ELSE Value(Truncated(a.amount, b.amount))

\* The six comparisons, each the set of the orders it accepts: all of them refuse assets of
\* different symbols.
Order(x, y) == IF x < y THEN "less" ELSE IF x > y THEN "greater" ELSE "same"
CompareAsset(a, b, accepts) ==
  IF a.symbol # b.symbol THEN Error("symbol") ELSE Value(Order(a.amount, b.amount) \in accepts)

\* Assets of a token contract: of another contract they are no match, but to be equal is
\* asked of the assets first.
OfContract(a, b, result) == IF a.contract # b.contract THEN Error("type mismatch") ELSE result
WithQuantity(a, r) == IF IsError(r) THEN r ELSE Value([a EXCEPT !.quantity = r.v])
AddExtended(a, b) == OfContract(a, b, WithQuantity(a, AddAsset(a.quantity, b.quantity)))
SubtractExtended(a, b) == OfContract(a, b, WithQuantity(a, SubtractAsset(a.quantity, b.quantity)))
CompareExtended(a, b, accepts) == OfContract(a, b, CompareAsset(a.quantity, b.quantity, accepts))
EqualExtended(a, b) ==
  LET r == CompareAsset(a.quantity, b.quantity, {"same"})
  IN IF IsError(r) THEN r ELSE Value(r.v /\ a.contract = b.contract)

\* The digits after the point are the precision; the amount has all of them.
string_to_asset(text) ==
  LET s == Rest(text, Leading(text, {" "}))
      negative == s # <<>> /\ s[1] = "-"
      whole == IF negative THEN Tail(s) ELSE s
      n == Leading(whole, Range(NumberChars))
      point == Rest(whole, n)
      hasPoint == point # <<>> /\ point[1] = "."
      m == IF hasPoint THEN Leading(Tail(point), Range(NumberChars)) ELSE 0
      digits == SubSeq(whole, 1, n) \o (IF hasPoint THEN SubSeq(point, 2, m + 1) ELSE <<>>)
      uamount == ReadNumber(digits, AmountBits)
      code == string_to_symbol_code(IF hasPoint THEN Rest(point, m + 1) ELSE point, TRUE)
  IN IF IsError(code) THEN Error("asset")
     ELSE Value([amount |-> Signed((IF negative THEN -uamount ELSE uamount) % (2 * Half)),
                 symbol |-> [precision |-> m % 256, code |-> code.v]])

\* At least one digit before the point.
asset_to_string(a) ==
  LET digits == Decimal[IF a.amount < 0 THEN -a.amount ELSE a.amount]
      p == a.symbol.precision
      all == [i \in 1..(p + 1 - Len(digits)) |-> "0"] \o digits
      n == Len(all) - p
  IN (IF a.amount < 0 THEN <<"-">> ELSE <<>>) \o SubSeq(all, 1, n)
     \o (IF p > 0 THEN <<".">> \o Rest(all, n) ELSE <<>>) \o <<" ">> \o symbol_code_to_string(a.symbol.code)

-----------------------------------------------------------------------------
(* The calendar of year_month_day, and times. *)

Toward0(n, d) == Truncated(n, d)

from_days(days) ==
  LET z == days + 719468
      era == Toward0(IF z >= 0 THEN z ELSE z - 146096, 146097)
      doe == z - era * 146097
      yoe == (doe - doe \div 1460 + doe \div 36524 - doe \div 146096) \div 365
      doy == doe - (365 * yoe + yoe \div 4 - yoe \div 100)
      mp == (5 * doy + 2) \div 153
      m == IF mp < 10 THEN mp + 3 ELSE mp - 9
  IN [y |-> yoe + era * 400 + (IF m <= 2 THEN 1 ELSE 0), m |-> m, d |-> doy - (153 * mp + 2) \div 5 + 1]

to_days(date) ==
  LET y == date.y - (IF date.m <= 2 THEN 1 ELSE 0)
      era == Toward0(IF y >= 0 THEN y ELSE y - 399, 400)
      yoe == y - era * 400
      doy == (153 * (IF date.m > 2 THEN date.m - 3 ELSE date.m + 9) + 2) \div 5 + date.d - 1
  IN era * 146097 + yoe * 365 + yoe \div 4 - yoe \div 100 + doy - 719468

\* append_uint, parse_uint
AppendUint(n, digits) == [i \in 1..digits |-> NumberChars[((n \div 10^(digits - i)) % 10) + 1]]
ParseUint(s, digits) ==
  IF Len(s) < digits \/ ~(Range(SubSeq(s, 1, digits)) \subseteq Range(NumberChars)) THEN Error("digits")
  ELSE [v |-> ReadNumber(SubSeq(s, 1, digits), 30), rest |-> Rest(s, digits)]

\* A time: the day, the second of the day and the microsecond of the second.
microseconds_to_str(t) ==
  LET date == from_days(t.day)
  IN AppendUint(date.y, 4) \o <<"-">> \o AppendUint(date.m, 2) \o <<"-">> \o AppendUint(date.d, 2) \o <<"T">>
     \o AppendUint((t.sec \div 3600) % 60, 2) \o <<":">> \o AppendUint((t.sec \div 60) % 60, 2) \o <<":">>
     \o AppendUint(t.sec % 60, 2) \o <<".">> \o AppendUint(t.usec \div 1000, 3)

\* The numbers of a time, each of so many digits and followed by this character.
TimeParts == <<<<4, "-">>, <<2, "-">>, <<2, "T">>, <<2, ":">>, <<2, ":">>, <<2, "">>>>
AddPart(acc, part) ==
  LET r == ParseUint(acc.rest, part[1])
      separated == part[2] = "" \/ (r.rest # <<>> /\ r.rest[1] = part[2])
  IN IF IsError(acc) THEN acc
     ELSE IF IsError(r) THEN r
     ELSE IF ~separated THEN Error("separator")
     ELSE [v |-> Append(acc.v, r.v), rest |-> IF part[2] = "" THEN r.rest ELSE Tail(r.rest)]

\* Neither a month nor an hour is limited to those there are.
string_to_utc_seconds(s, eat_fractional, require_end) ==
  LET r == FoldLeft(AddPart, [v |-> <<>>, rest |-> s], TimeParts)
      fractional == eat_fractional /\ r.rest # <<>> /\ r.rest[1] = "."
      rest == IF fractional THEN Rest(r.rest, 1 + Leading(Tail(r.rest), Range(NumberChars))) ELSE r.rest
  IN IF IsError(r) THEN r
     ELSE IF require_end /\ rest # <<>> THEN Error("end")
     ELSE [v |-> [day |-> to_days([y |-> r.v[1], m |-> r.v[2], d |-> r.v[3]]),
                  sec |-> r.v[4] * 3600 + r.v[5] * 60 + r.v[6], usec |-> 0],
           rest |-> rest]

\* Six digits of a fraction at most.
string_to_utc_microseconds(s, require_end) ==
  LET r == string_to_utc_seconds(s, FALSE, FALSE)
      digits == Leading(Tail(r.rest), Range(NumberChars))
      n == IF digits < 6 THEN digits ELSE 6
      rest == Rest(r.rest, n + 1)
  IN IF IsError(r) \/ r.rest = <<>> THEN r
     ELSE IF r.rest[1] # "." THEN (IF require_end THEN Error("end") ELSE r)
     ELSE IF require_end /\ rest # <<>> THEN Error("end")
     ELSE [v |-> [r.v EXCEPT !.usec = ReadNumber(SubSeq(r.rest, 2, n + 1), 30) * 10^(6 - n)], rest |-> rest]

\* from_string(time_point): a Z may follow.
time_point_from_string(s) ==
  LET r == string_to_utc_microseconds(s, FALSE)
  IN IF IsError(r) \/ r.rest \notin {<<>>, <<"Z">>} THEN Error("expected_time_point") ELSE Value(r.v)

\* to_json of a time_point, and of a time_point_sec.
time_point_to_json(t, include_z) == microseconds_to_str(t) \o (IF include_z THEN <<"Z">> ELSE <<>>)
time_point_sec_to_json(t) == microseconds_to_str([t EXCEPT !.usec = 0])

\* from_json(time_point_sec): a fraction is passed over, a Z may not follow.
time_point_sec_from_json(s) ==
  LET r == string_to_utc_seconds(s, TRUE, TRUE)
  IN IF IsError(r) THEN Error("expected_time_point") ELSE Value(r.v)

-----------------------------------------------------------------------------
(* Points of time in microseconds, in seconds and in slots; the last two have *)
(* TimeBits bits and wrap, but for the next slot.                             *)

Second == UsPerMs * MsPerSecond
Wrapped(n) == n % 2^TimeBits

\* time_point_sec: what a time_point has below a second is cut off.
SecondsOf(us) == Wrapped(Truncated(us, Second))
TimeOfSeconds(sec) == sec * Second
\* operator+= of a time_point_sec takes whole seconds only, operator+ makes a time_point.
AdvanceSeconds(sec, us) == Wrapped(sec + Truncated(us, Second))
SecondsLater(sec, us) == TimeOfSeconds(sec) + us

TimeOfSlot(slot) == slot * Interval + Epoch
SlotOfTime(ms) == Truncated(ms - Epoch, Interval)
SlotOfTimePoint(us) == Wrapped(SlotOfTime(Truncated(us, UsPerMs)))
SlotOfSeconds(sec) == Wrapped(SlotOfTime(sec * MsPerSecond))
NextSlot(slot) == IF slot = 2^TimeBits - 1 THEN Error("block timestamp overflow") ELSE Value(slot + 1)

-----------------------------------------------------------------------------
(* fixed_bytes: `size` bytes kept in words, the highest byte of a word first. *)

CountWords(size, word) == (size + word - 1) \div word

\* write_be, read_be: a number of `t` bytes as numbers of `u` bytes and back, where those
\* that are missing at the end count as 0.
WriteBe(n, t, u) == [i \in 1..(t \div u) |-> (n \div ByteValues^(t - u * i)) % ByteValues^u]
ReadBe(parts, t, u) == FoldLeft(LAMBDA n, i: n + parts[i] * ByteValues^(t - u * i), 0, [i \in DOMAIN parts |-> i])

convert_array(words, size, t, u) ==
  LET n == CountWords(size, u)
      per == u \div t
      Upto(i) == IF i < Len(words) THEN i ELSE Len(words)
  IN IF t > u THEN SubSeq(FlattenSeq([i \in DOMAIN words |-> WriteBe(words[i], t, u)]), 1, n)
     ELSE [i \in 1..n |-> ReadBe(SubSeq(words, per * (i - 1) + 1, Upto(per * i)), u, t)]

\* fixed_bytes(array): too short an array is filled up with zeros.
FixedBytes(array, size, t, word) ==
  convert_array(array \o [i \in 1..(CountWords(size, t) - Len(array)) |-> 0], size, t, word)
extract_as_byte_array(value, size, word) == convert_array(value, size, word, 1)

\* from_json, of what the hexadecimal digits stand for
FixedFromHex(bytes, size, word) ==
  IF Len(bytes) # size THEN Error("hex_string_incorrect_length") ELSE Value(FixedBytes(bytes, size, 1, word))

\* EOSIO_COMPARE: by the words, from the first on.
LessFixed(a, b) ==
  LET differ == {i \in DOMAIN a : a[i] # b[i]}
  IN \E i \in differ : a[i] < b[i] /\ \A j \in differ : i <= j
=============================================================================
