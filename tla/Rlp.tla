-------------------------------- MODULE Rlp ---------------------------------
(***************************************************************************)
(* RLP (core/silkworm/rlp): encoding, the length of an encoding, which the *)
(* code computes separately and writes in front of it, and decoding.       *)
(* Bytes are numbers below 256 and strings of bytes are sequences.  A type *)
(* is a record that says how a value is laid out; a struct is a record of  *)
(* values, laid out as a list of its fields.  Decoding returns what is     *)
(* left of the input with the value or the error.                          *)
(***************************************************************************)
EXTENDS Integers, TLC, SequencesExt

CONSTANTS None,
          kUint64Bytes, kUint256Bytes,   \* widths of the integers, 8 and 32 in the code
          kHashLength, kAddressLength, kBloomByteLength

kEmptyStringCode == 128
kEmptyListCode == 192

Uint64 == [kind |-> "uint", width |-> kUint64Bytes]
Uint256 == [kind |-> "uint", width |-> kUint256Bytes]
Bool == [kind |-> "bool"]
Bytes == [kind |-> "bytes"]
Fixed(n) == [kind |-> "fixed", n |-> n]
Array(n) == [kind |-> "array", n |-> n]         \* the same, written as any string
Optional(n) == [kind |-> "optional", n |-> n]   \* a string of n bytes or nothing
ListOf(type) == [kind |-> "list", of |-> type]
Struct(fields) == [kind |-> "struct", fields |-> fields]   \* a sequence of name and type
Hash == Fixed(kHashLength)
Bloom == Array(kBloomByteLength)

Drop(from, n) == SubSeq(from, n + 1, Len(from))
SumOf(seq) == FoldLeft(+, 0, seq)

(* ------------------------------ Encoding ------------------------------ *)

RECURSIVE BigEndian(_)
BigEndian(n) == IF n = 0 THEN <<>> ELSE Append(BigEndian(n \div 256), n % 256)

Number(be) == FoldLeft(LAMBDA n, b : (n * 256) + b, 0, be)

EncodeHeader(list, payload_length) ==
    LET len_be == BigEndian(payload_length) IN
    IF payload_length < 56
    THEN <<(IF list THEN kEmptyListCode ELSE kEmptyStringCode) + payload_length>>
    ELSE <<(IF list THEN 247 ELSE 183) + Len(len_be)>> \o len_be

\* Mutant: the bound of the short form is off by one.
LengthOfLengthOff(payload_length) ==
    IF payload_length <= 56 THEN 1 ELSE 1 + Len(BigEndian(payload_length))
LengthOfLength(payload_length) ==
    IF payload_length < 56 THEN 1 ELSE 1 + Len(BigEndian(payload_length))

EncodeUint(n) ==
    IF n = 0 THEN <<kEmptyStringCode>>
    ELSE IF n < kEmptyStringCode THEN <<n>>
    ELSE <<kEmptyStringCode + Len(BigEndian(n))>> \o BigEndian(n)
LengthOfUint(n) == IF n < kEmptyStringCode THEN 1 ELSE 1 + Len(BigEndian(n))

IsSingleByte(s) == Len(s) = 1 /\ s[1] < kEmptyStringCode
EncodeBytes(s) == (IF IsSingleByte(s) THEN <<>> ELSE EncodeHeader(FALSE, Len(s))) \o s
LengthOfBytes(s) == Len(s) + (IF IsSingleByte(s) THEN 0 ELSE LengthOfLength(Len(s)))

\* Arrays of a fixed size are always written with their length.
EncodeFixed(s) == <<kEmptyStringCode + Len(s)>> \o s

RECURSIVE Length(_, _)
RECURSIVE Encode(_, _)

\* The length of the payload of a struct, and the payload.
FieldLengths(fields, value) ==
    SumOf([i \in DOMAIN fields |-> Length(fields[i][2], value[fields[i][1]])])
EncodeFields(fields, value) ==
    FlattenSeq([i \in DOMAIN fields |-> Encode(fields[i][2], value[fields[i][1]])])
ElementLengths(type, value) == SumOf([i \in DOMAIN value |-> Length(type, value[i])])

WithHeader(payload_length) == LengthOfLength(payload_length) + payload_length

Length(type, value) ==
    CASE type.kind = "uint" -> LengthOfUint(value)
      [] type.kind = "bool" -> 1
      [] type.kind \in {"bytes", "array"} -> LengthOfBytes(value)
      [] type.kind = "fixed" -> type.n + 1
      [] type.kind = "optional" -> IF value = None THEN 1 ELSE type.n + 1
      [] type.kind = "list" -> WithHeader(ElementLengths(type.of, value))
      [] type.kind = "struct" -> WithHeader(FieldLengths(type.fields, value))

Encode(type, value) ==
    CASE type.kind = "uint" -> EncodeUint(value)
      [] type.kind = "bool" -> EncodeUint(IF value THEN 1 ELSE 0)
      [] type.kind \in {"bytes", "array"} -> EncodeBytes(value)
      [] type.kind = "fixed" -> EncodeFixed(value)
      [] type.kind = "optional" -> IF value = None THEN <<kEmptyStringCode>> ELSE EncodeFixed(value)
      [] type.kind = "list" ->
           EncodeHeader(TRUE, ElementLengths(type.of, value))
             \o FlattenSeq([i \in DOMAIN value |-> Encode(type.of, value[i])])
      [] type.kind = "struct" ->
           EncodeHeader(TRUE, FieldLengths(type.fields, value)) \o EncodeFields(type.fields, value)

(* ------------------------------ Decoding ------------------------------ *)

Decoded(value, rest) == [err |-> "kOk", value |-> value, rest |-> rest]
Refused(err) == [err |-> err, value |-> None, rest |-> <<>>]
\* A read past the end of the input, whose outcome the language leaves open.
Undefined == Refused("undefined")

\* Mutant: leading zeros are let through.
ReadUintLenient(be, width) ==
    IF Len(be) > width THEN Refused("kOverflow")
    ELSE Decoded(Number(be), <<>>)
\* read_uint64 and read_uint256.
ReadUint(be, width) ==
    IF Len(be) > width THEN Refused("kOverflow")
    ELSE IF be # <<>> /\ be[1] = 0 THEN Refused("kLeadingZero")
    ELSE Decoded(Number(be), <<>>)

Then(x, y) == IF x.err = "kOk" THEN y ELSE x
FollowedBy(x, rest) == Then(x, [x EXCEPT !.rest = rest])
Check(condition, err, x) == IF condition THEN x ELSE Refused(err)

HeaderOf(list, payload_length, from) ==
    Check(Len(from) >= payload_length, "kInputTooShort",
          Decoded([list |-> list, payload_length |-> payload_length], from))

LongHeaderOf(list, len, from) ==
    Then(len, Check(len.value >= 56, "kNonCanonicalSize", HeaderOf(list, len.value, from)))
LongHeader(list, len_of_len, from) ==
    Check(Len(from) >= len_of_len, "kInputTooShort",
          LongHeaderOf(list, ReadUint(SubSeq(from, 1, len_of_len), kUint64Bytes), Drop(from, len_of_len)))

\* The header is consumed unless it is the value itself, a byte below 128.
DecodeHeader(from) ==
    IF from = <<>> THEN Refused("kInputTooShort")
    ELSE IF from[1] < 128 THEN HeaderOf(FALSE, 1, from)
    ELSE IF from[1] < 184 THEN
         IF from[1] = 129 /\ Len(from) = 1 THEN Refused("kInputTooShort")
         ELSE IF from[1] = 129 /\ from[2] < 128 THEN Refused("kNonCanonicalSingleByte")
         ELSE HeaderOf(FALSE, from[1] - kEmptyStringCode, Tail(from))
    ELSE IF from[1] < 192 THEN LongHeader(FALSE, from[1] - 183, Tail(from))
    ELSE IF from[1] < 248 THEN HeaderOf(TRUE, from[1] - kEmptyListCode, Tail(from))
    ELSE LongHeader(TRUE, from[1] - 247, Tail(from))

\* A header of the kind expected, and its payload.
OfKind(h, list, x) ==
    Then(h, Check(h.value.list = list, IF list THEN "kUnexpectedString" ELSE "kUnexpectedList", x))
PayloadOf(h, list) ==
    OfKind(h, list, Decoded(SubSeq(h.rest, 1, h.value.payload_length), Drop(h.rest, h.value.payload_length)))
DecodePayload(from, list) == PayloadOf(DecodeHeader(from), list)

UintOf(p, width) == Then(p, FollowedBy(ReadUint(p.value, width), p.rest))
DecodeUint(from, width) == UintOf(DecodePayload(from, FALSE), width)
BoolOf(n) == Then(n, Check(n.value <= 1, "kOverflow", [n EXCEPT !.value = (n.value = 1)]))
DecodeBool(from) == BoolOf(DecodeUint(from, kUint64Bytes))
FixedOf(p, length) == Then(p, Check(Len(p.value) = length, "kUnexpectedLength", p))
DecodeFixed(from, length) == FixedOf(DecodePayload(from, FALSE), length)
DecodeOptional(from, length) ==
    IF from = <<>> THEN Undefined
    ELSE IF from[1] = kEmptyStringCode THEN Decoded(None, Tail(from))
    ELSE DecodeFixed(from, length)

RECURSIVE Decode(_, _)
RECURSIVE ElementsAfter(_, _, _)
RECURSIVE FieldsAfter(_, _, _)

\* The elements of a payload, x being the next one.
ElementsAfter(type, x, to) ==
    Then(x, IF x.rest = <<>> THEN Decoded(Append(to, x.value), <<>>)
            ELSE ElementsAfter(type, Decode(type, x.rest), Append(to, x.value)))
DecodeElements(type, payload) ==
    IF payload = <<>> THEN Decoded(<<>>, <<>>) ELSE ElementsAfter(type, Decode(type, payload), <<>>)

\* One field after the other, off the input and not off the payload of the list; x is the first.
FieldsAfter(fields, x, to) ==
    LET now == (Head(fields)[1] :> x.value) @@ to IN
    Then(x, IF Len(fields) = 1 THEN Decoded(now, x.rest)
            ELSE FieldsAfter(Tail(fields), Decode(fields[2][2], x.rest), now))
DecodeFields(fields, from) == FieldsAfter(fields, Decode(fields[1][2], from), <<>>)

\* x, read off the input from the header h on, takes exactly the payload that h announces.
Exactly(h, x) ==
    Then(x, Check(Len(x.rest) = Len(h.rest) - h.value.payload_length, "kListLengthMismatch", x))
StructOf(h, fields) == OfKind(h, TRUE, Exactly(h, DecodeFields(fields, h.rest)))
DecodeStruct(fields, from) == StructOf(DecodeHeader(from), fields)

VectorOf(p, type) == Then(p, FollowedBy(DecodeElements(type, p.value), p.rest))
DecodeVector(type, from) == VectorOf(DecodePayload(from, TRUE), type)

Decode(type, from) ==
    CASE type.kind = "uint" -> DecodeUint(from, type.width)
      [] type.kind = "bool" -> DecodeBool(from)
      [] type.kind = "bytes" -> DecodePayload(from, FALSE)
      [] type.kind \in {"fixed", "array"} -> DecodeFixed(from, type.n)
      [] type.kind = "optional" -> DecodeOptional(from, type.n)
      [] type.kind = "list" -> DecodeVector(type.of, from)
      [] type.kind = "struct" -> DecodeStruct(type.fields, from)
=============================================================================
