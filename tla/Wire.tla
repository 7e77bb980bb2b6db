-------------------------------- MODULE Wire --------------------------------
(***************************************************************************)
(* Bytes, numbers and text as the codecs of crates/protocol write and read *)
(* them.  Numbers are little-endian.  A u16 has two bytes as in the code;  *)
(* the widths of u32 and u64 are constants (four and eight in the code),   *)
(* so that their values stay within the integers of TLC, and every bound   *)
(* that follows from a width is stated as a formula of it.                 *)
(***************************************************************************)
EXTENDS Integers, SequencesExt

CONSTANTS
  U32Bytes,   \* the bytes of a u32
  U64Bytes,   \* the bytes of a u64
  Bad         \* what an encoder or a decoder returns for an error

ASSUME WireAssumption ==
  /\ U32Bytes \in Nat \ {0, 1}
  /\ U64Bytes \in Nat \ {0, 1}

Byte == 0..255

\* An error is neither a boolean nor bytes.
ASSUME BadAssumption == Bad \notin BOOLEAN /\ Bad \notin Seq(Byte)

\* What is left of n when i of its bytes are written, as a function of i.
Shifts(n, width) ==
  LET shift[i \in 0..width] == IF i = 0 THEN n ELSE shift[i - 1] \div 256
  IN  shift

\* to_le_bytes and from_le_bytes
LE(n, width) == [i \in 1..width |-> Shifts(n, width)[i - 1] % 256]

\* The number in the last i bytes, as a function of i.
Numbers(bytes) ==
  LET number[i \in 0..Len(bytes)] ==
        IF i = 0 THEN 0 ELSE bytes[Len(bytes) - i + 1] + 256 * number[i - 1]
  IN  number
Num(bytes) == Numbers(bytes)[Len(bytes)]

MaxU16 == 65535
MaxU32 == Num([i \in 1..U32Bytes |-> 255])
MaxU64 == Num([i \in 1..U64Bytes |-> 255])

U16 == 0..MaxU16
U32 == 0..MaxU32
U64 == 0..MaxU64
SignedU16 == -32768..32767

Bit(n, k) == (n \div 2^k) % 2 = 1

Put16(n) == LE(n, 2)
Put32(n) == LE(n, U32Bytes)
Put64(n) == LE(n, U64Bytes)
PutBool(b) == <<IF b THEN 1 ELSE 0>>
PutBytes(s) == Put32(Len(s)) \o s

\* An i16 is its two's complement.
PutI16(n) == Put16(n % 65536)
I16(bytes) == LET n == Num(bytes) IN IF n < 32768 THEN n ELSE n - 65536

\* What is made of a value, unless it is an error.
With(value, Made(_)) == IF value = Bad THEN Bad ELSE Made(value)

\* A boolean, or an error for any other byte.
Bool(bytes) == IF bytes = <<0>> THEN FALSE ELSE IF bytes = <<1>> THEN TRUE ELSE Bad

\* An enumeration is the sequence of its members in the order of their tags.
Tag(members, m) == <<(CHOOSE i \in 1..Len(members) : members[i] = m) - 1>>
Member(members, tag) == IF tag[1] < Len(members) THEN members[tag[1] + 1] ELSE Bad

(***************************************************************************)
(* Text: ASCII, and one character of three bytes that stands for the       *)
(* private-use range.  Any other byte from 128 on is not UTF-8.            *)
(***************************************************************************)
PrivateUse == <<239, 156, 128>>

PrivateUseAt(s, i) == i \in 1..(Len(s) - 2) /\ SubSeq(s, i, i + 2) = PrivateUse

Utf8(s) == \A i \in 1..Len(s) :
             s[i] < 128 \/ \E k \in 0..2 : PrivateUseAt(s, i - k)

Utf8Text == {s \in Seq(Byte) : Utf8(s)}

\* An optional value is a sequence of at most one element.
Option(S) == {s \in Seq(S) : Len(s) <= 1}

-----------------------------------------------------------------------------
(***************************************************************************)
(* A reader has the bytes that are left and the fields it has taken, each  *)
(* as its bytes; it is Bad once a field was not there.  A field is given   *)
(* by its width, or it is Prefixed: a u32 length and as many bytes of      *)
(* text, or it is all that Remains.                                        *)
(***************************************************************************)
Prefixed == 0
Remains == -1

\* A part is a field, or the fields of an optional value.
Parts == Seq(Byte) \union Seq(Seq(Byte))
Readers(S) == [rest : Seq(Byte), got : Seq(S)]

\* An error is neither a number nor a reader nor the parts one has taken.
ASSUME ErrorAssumption ==
  Bad \notin Int /\ Bad \notin Seq(Parts) /\ Bad \notin Readers(Parts)

Reader(bytes) == [rest |-> bytes, got |-> <<>>]

\* Reader.take and Decoder.take
TakeBytes(reader, n) ==
  IF n > Len(reader.rest) THEN Bad
  ELSE [rest |-> SubSeq(reader.rest, n + 1, Len(reader.rest)),
        got |-> Append(reader.got, SubSeq(reader.rest, 1, n))]

\* bounded_text and Decoder.string: the length is read and not kept.
TakeText(reader) ==
  IF Len(reader.rest) < U32Bytes THEN Bad
  ELSE LET length == Num(SubSeq(reader.rest, 1, U32Bytes))
           body == [reader EXCEPT !.rest = SubSeq(@, U32Bytes + 1, Len(@))]
           taken == TakeBytes(body, length)
       IN  IF taken = Bad THEN Bad ELSE IF Utf8(Last(taken.got)) THEN taken ELSE Bad

Take(reader, field) ==
  CASE reader = Bad -> Bad
    [] reader # Bad /\ field = Prefixed -> TakeText(reader)
    [] reader # Bad /\ field = Remains -> TakeBytes(reader, Len(reader.rest))
    [] reader # Bad /\ field > 0 -> TakeBytes(reader, field)

\* The reader that has taken the first i fields, as a function of i.
Readings(reader, fields) ==
  LET reading[i \in 0..Len(fields)] == IF i = 0 THEN reader ELSE Take(reading[i - 1], fields[i])
  IN  reading
Read(reader, fields) == Readings(reader, fields)[Len(fields)]

\* What a presence flag announces: no field, or the given fields as one.
ReadOptional(reader, fields) ==
  With(Take(reader, 1), LAMBDA flag :
    CASE Bool(Last(flag.got)) = Bad -> Bad
      [] Bool(Last(flag.got)) = FALSE -> [flag EXCEPT !.got[Len(flag.got)] = <<>>]
      [] Bool(Last(flag.got)) = TRUE ->
           With(Read(Reader(flag.rest), fields), LAMBDA value :
             [rest |-> value.rest, got |-> Append(reader.got, value.got)]))

\* No part of a value is an error.
Sound(parts) == \A i \in 1..Len(parts) : parts[i] # Bad

\* A value that was decoded, if it is valid.
Checked(value, valid) == IF valid THEN value ELSE Bad

\* All fields of a payload, which leave nothing over (finish).
Fields(bytes, fields) ==
  With(Read(Reader(bytes), fields), LAMBDA reader : Checked(reader.got, reader.rest = <<>>))
=============================================================================
