-------------------------------- MODULE CBOR --------------------------------
(***************************************************************************)
(* The CBOR codec a username's payment request is sent with: the encoder,  *)
(* the decoder, and a program that encodes a value, may lose the end of    *)
(* the bytes, and decodes what is left.                                    *)
(*                                                                         *)
(* Bytes are chunks: one byte of a head, or the bytes of one string, which *)
(* are told apart by a number only.  Integers are below 2^31; fractions    *)
(* and negative numbers are never encoded, and floats, which the encoder   *)
(* does not write, are read without their value.                           *)
(***************************************************************************)
EXTENDS Integers, Sequences, Bitwise

CONSTANT Values  \* the values to encode

VARIABLES
  value,  \* the value given to encodeCBOR
  at,     \* what was done with it
  buffer, \* the bytes
  result  \* what decodeCBOR returns, or Failure

vars == <<value, at, buffer, result>>

-----------------------------------------------------------------------------
(* Values: integers, texts, byte strings, lists, maps and simple values.   *)
Int32(n) == [type |-> "integer", n |-> n]
Text(len, id) == [type |-> "text", len |-> len, id |-> IF len = 0 THEN 0 ELSE id]
Octets(len, id) == [type |-> "octets", len |-> len, id |-> IF len = 0 THEN 0 ELSE id]
List(items) == [type |-> "list", items |-> items]
Map(entries) == [type |-> "map", entries |-> entries]
Simple(name) == [type |-> name]

Byte(b) == [bytes |-> 1, content |-> b % 256]
Heads(bs) == [i \in DOMAIN bs |-> Byte(bs[i])]
Content(v) == IF v.len = 0 THEN <<>> ELSE <<[bytes |-> v.len, content |-> v.id]>>

(* A failed read: decoding throws.                                         *)
Failure == [type |-> "failure", rest |-> <<>>]

-----------------------------------------------------------------------------
(* encodeItem *)

(* Fault: the one-byte form is used up to 24.                              *)
EncodeLengthTo24(major, n) ==
  IF n <= 24 THEN <<32 * major + n>>
  ELSE IF n < 256 THEN <<32 * major + 24, n>>
  ELSE IF n < 65536 THEN <<32 * major + 25, n \div 256, n % 256>>
  ELSE <<32 * major + 26, n \div 16777216, (n \div 65536) % 256, (n \div 256) % 256, n % 256>>

(* The major type with the shortest of the forms for the number; the other *)
(* encoders repeat encodeUnsigned's forms with their own major type.       *)
EncodeLength(major, n) ==
  IF n < 24 THEN <<32 * major + n>>
  ELSE IF n < 256 THEN <<32 * major + 24, n>>
  ELSE IF n < 65536 THEN <<32 * major + 25, n \div 256, n % 256>>
  ELSE <<32 * major + 26, n \div 16777216, (n \div 65536) % 256, (n \div 256) % 256, n % 256>>

EncodeUnsigned(n) == Heads(EncodeLength(0, n))
EncodeByteString(v) == Heads(EncodeLength(2, v.len)) \o Content(v)
EncodeString(v) == Heads(EncodeLength(3, v.len)) \o Content(v)

(* The number of entries as an integer, of which the last byte is marked:  *)
(* right while that is its only byte.                                      *)
MapHead(n) ==
  LET bs == EncodeLength(0, n) IN
  Heads([bs EXCEPT ![Len(bs)] = @ | 160])

SimpleCode == [false |-> 244, true |-> 245, null |-> 246, undefined |-> 247]

RECURSIVE EncodeItem(_), EncodeItems(_), EncodeEntries(_)

EncodeItem(v) ==
  CASE v.type = "integer" -> EncodeUnsigned(v.n)
    [] v.type = "octets" -> EncodeByteString(v)
    [] v.type = "text" -> EncodeString(v)
    [] v.type = "list" -> Heads(EncodeLength(4, Len(v.items))) \o EncodeItems(v.items)
    [] v.type = "map" -> MapHead(Len(v.entries)) \o EncodeEntries(v.entries)
    [] OTHER -> <<Byte(SimpleCode[v.type])>>

EncodeItems(items) ==
  IF items = <<>> THEN <<>> ELSE EncodeItem(Head(items)) \o EncodeItems(Tail(items))

EncodeEntries(entries) ==
  IF entries = <<>> THEN <<>>
  ELSE EncodeString(Head(entries)[1]) \o EncodeItem(Head(entries)[2])
         \o EncodeEntries(Tail(entries))

-----------------------------------------------------------------------------
(* decodeItem: what was read, and the bytes after it. *)

Read(v, rest) == [type |-> "read", value |-> v, rest |-> rest]

Failed(r) == r.type = "failure"

(* The view has n more single bytes.                                       *)
Readable(buf, n) == Len(buf) >= n /\ \A i \in 1..n : buf[i].bytes = 1

RECURSIVE BigEndian(_)
BigEndian(bs) ==
  IF bs = <<>> THEN 0
  ELSE 256 * BigEndian(SubSeq(bs, 1, Len(bs) - 1)) + bs[Len(bs)].content

(* getUint8, getUint16 and getUint32, which throw at the end of the view.  *)
Uint(buf, n) ==
  IF Readable(buf, n) THEN Read(BigEndian(SubSeq(buf, 1, n)), SubSeq(buf, n + 1, Len(buf)))
                      ELSE Failure

(* The eight-byte form is not followed: its numbers are out of range here. *)
DecodeLength(buf, info) ==
  CASE info < 24 -> Read(info, buf)
    [] info = 24 -> Uint(buf, 1)
    [] info = 25 -> Uint(buf, 2)
    [] info = 26 -> Uint(buf, 4)
    [] OTHER -> Failure

(* The view has the n bytes of a string.                                   *)
Available(n, buf) == buf # <<>> /\ Head(buf).bytes = n

DecodeString(n, buf) ==
  CASE n = 0 -> Read(Text(0, 0), buf)
    [] n > 0 /\ Available(n, buf) -> Read(Text(n, Head(buf).content), Tail(buf))
    [] OTHER -> Failure

DecodeByteString(n, buf) ==
  CASE n = 0 -> Read(Octets(0, 0), buf)
    [] n > 0 /\ Available(n, buf) -> Read(Octets(n, Head(buf).content), Tail(buf))
    [] OTHER -> Failure

DecodeSimpleAndFloat(info, buf) ==
  LET Float(n) == IF Readable(buf, n) THEN Read(Simple("float"), SubSeq(buf, n + 1, Len(buf)))
                                      ELSE Failure
      named == { s \in DOMAIN SimpleCode : SimpleCode[s] = 224 + info }
  IN CASE named # {} -> Read(Simple(CHOOSE s \in named : TRUE), buf)
       [] info = 24 -> LET r == Uint(buf, 1) IN
                       IF Failed(r) THEN Failure ELSE Read(Int32(r.value), r.rest)
       [] info = 25 -> Float(2)
       [] info = 26 -> Float(4)
       [] info = 27 -> Float(8)
       [] OTHER -> Failure

RECURSIVE DecodeItem(_), DecodeArray(_, _, _), DecodeMap(_, _, _)

DecodeItem(buf) ==
  IF ~Readable(buf, 1) THEN Failure
  ELSE
  LET major == Head(buf).content \div 32
      info == Head(buf).content % 32
      length == DecodeLength(Tail(buf), info)
  IN CASE major = 7 -> DecodeSimpleAndFloat(info, Tail(buf))
       [] major = 6 \/ Failed(length) -> Failure
       [] major = 0 -> Read(Int32(length.value), length.rest)
       [] major = 1 -> Read(Int32(-1 - length.value), length.rest)
       [] major = 2 -> DecodeByteString(length.value, length.rest)
       [] major = 3 -> DecodeString(length.value, length.rest)
       [] major = 4 -> DecodeArray(length.value, length.rest, <<>>)
       [] major = 5 -> DecodeMap(length.value, length.rest, <<>>)

DecodeArray(n, buf, items) ==
  IF n = 0 THEN Read(List(items), buf)
  ELSE LET item == DecodeItem(buf) IN
       IF Failed(item) THEN Failure
       ELSE DecodeArray(n - 1, item.rest, Append(items, item.value))

DecodeMap(n, buf, entries) ==
  IF n = 0 THEN Read(Map(entries), buf)
  ELSE LET key == DecodeItem(buf) IN
       IF Failed(key) \/ key.value.type \notin {"integer", "text"} THEN Failure
       ELSE LET item == DecodeItem(key.rest) IN
            IF Failed(item) THEN Failure
            ELSE DecodeMap(n - 1, item.rest, Append(entries, <<key.value, item.value>>))

-----------------------------------------------------------------------------
Init ==
  /\ value \in Values
  /\ at = "given"
  /\ buffer = <<>>
  /\ result = Failure

Encode ==
  /\ at = "given"
  /\ at' = "encoded"
  /\ buffer' = EncodeItem(value)
  /\ UNCHANGED <<value, result>>

(* The end of the bytes is lost, in a string or between two chunks.        *)
Truncate ==
  /\ at = "encoded"
  /\ at' = "truncated"
  /\ \E i \in DOMAIN buffer :
       LET before == SubSeq(buffer, 1, i - 1) IN
       \/ buffer' = before
       \/ /\ buffer[i].bytes > 1
          /\ buffer' = Append(before, [buffer[i] EXCEPT !.bytes = @ - 1])
  /\ UNCHANGED <<value, result>>

Decode ==
  /\ at \in {"encoded", "truncated"}
  /\ at' = IF at = "encoded" THEN "decoded" ELSE "misread"
  /\ result' = DecodeItem(buffer)
  /\ UNCHANGED <<value, buffer>>

Next == Encode \/ Truncate \/ Decode

Spec == Init /\ [][Next]_vars

-----------------------------------------------------------------------------
(* Decoding gives back what was encoded, up to the last byte.              *)
RoundTrip == at = "decoded" => result = Read(value, <<>>)

(* Bytes whose end is missing are refused, never read as another value.    *)
TruncationIsNoticed == at = "misread" => Failed(result)

(* What is decoded is what was encoded, or nothing.                        *)
DecodesWhatWasEncoded == RoundTrip /\ TruncationIsNoticed
=============================================================================
