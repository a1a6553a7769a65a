------------------------------ MODULE BufferTexts ------------------------------
(***************************************************************************)
(* Texts in and out of a Buffer: what a text is in each encoding, how long *)
(* Buffer.byteLength says it is, what write() puts into the bytes there    *)
(* are, and what toString() makes of a range of bytes.                     *)
(* enhance_modules/buffer_enhancement.go.                                  *)
(*                                                                         *)
(* A character is one of five kinds, told apart by their lengths and by    *)
(* what the encodings accept; the astral one is a pair of UTF-16 units.    *)
(* Bytes are numbered by what they are part of, not by their value.        *)
(***************************************************************************)
EXTENDS Integers, Sequences, FiniteSets, SequencesExt

CONSTANTS MaxText,      \* characters of a text: bound
          Length        \* of the buffer that is written

VARIABLES call,      \* the call that was made: [op, ...]
          buffer     \* the bytes it left in the buffer, 0 where none was written

vars == <<call, buffer>>

\* "digit" is one of the alphabets of hex and base64, "pad" the =.
Characters == {"digit", "space", "pad", "wide", "astral"}
Encodings  == {"utf8", "latin1", "utf16le", "hex", "base64"}
Texts      == UNION {[1..n -> Characters] : n \in 0..MaxText}

LowOf(x, y)  == IF x < y THEN x ELSE y
HighOf(x, y) == IF x < y THEN y ELSE x
Count(text, kinds) == Len(SelectSeq(text, LAMBDA c : c \in kinds))

-----------------------------------------------------------------------------
\* The units of UTF-16, and the lengths of a text in units and in bytes of UTF-8.

UnitsOf(c) == IF c = "astral" THEN <<"high", "low">> ELSE <<c>>
Units(text) == FlattenSeq([i \in DOMAIN text |-> UnitsOf(text[i])])
RuneCount(text) == Len(text)   \* utf16CodeUnitCount if it counted characters
UnitCount(text) == Len(text) + Count(text, {"astral"})
Utf8Length(text) == Len(text) + 2 * Count(text, {"wide"}) + 3 * Count(text, {"astral"})

\* decodeBase64Lenient and its twin: spaces go, then the padding is strict or none at all; [ok, bytes].
Refusal == [ok |-> FALSE, bytes |-> 0]
Result(n) == [ok |-> TRUE, bytes |-> n]
RawBase64(text) ==
  IF Count(text, {"digit"}) < Len(text) \/ Len(text) % 4 = 1 THEN Refusal ELSE Result((Len(text) * 3) \div 4)
PadsAtEnd(text) == IF text = <<>> THEN 0
                   ELSE Len(text) - (CHOOSE n \in 0..Len(text) : /\ \A i \in (n + 1)..Len(text) : text[i] = "pad"
                                                                 /\ n > 0 => text[n] # "pad")
Base64(text) ==
  LET tight == SelectSeq(text, LAMBDA c : c # "space")
      cut   == SubSeq(tight, 1, Len(tight) - PadsAtEnd(tight))
  IN RawBase64(cut)

\* From a text to bytes: Buffer.from, write, fill and the searches have one switch each, with the same cases.
Encode(text, encoding) ==
  CASE encoding = "utf8"    -> Result(Utf8Length(text))
    [] encoding = "latin1"  -> Result(Len(Units(text)))
    [] encoding = "utf16le" -> Result(2 * Len(Units(text)))
    [] encoding = "hex"     -> IF Count(text, {"digit"}) = Len(text) /\ Len(text) % 2 = 0 THEN Result(Len(text) \div 2) ELSE Refusal
    [] encoding = "base64"  -> Base64(text)

\* byteLength computes and decodes nothing.
ByteLength(text, encoding) ==
  CASE encoding = "utf8"    -> Utf8Length(text)
    [] encoding = "latin1"  -> UnitCount(text)
    [] encoding = "utf16le" -> UnitCount(text) * 2
    [] encoding = "hex"     -> Utf8Length(text) \div 2
    [] encoding = "base64"  -> ((Utf8Length(text) - Count(text, {"pad"})) * 3) \div 4

-----------------------------------------------------------------------------
\* toString of UTF-16: a pair is one character, half of a pair the replacement U+FFFD, half of a unit nothing.

Decode(units) ==
  LET n == Len(units)
      Pair(i) == i < n /\ units[i] = "high" /\ units[i + 1] = "low"
      from[i \in 1..(n + 2)] ==
        IF i > n THEN <<>>
        ELSE IF Pair(i) THEN <<"astral">> \o from[i + 2]
        ELSE <<IF units[i] \in {"high", "low"} THEN "replacement" ELSE units[i]>> \o from[i + 1]
  IN from[1]

\* The bytes start..end - 1 of a Buffer of UTF-16, from an even start.
TextOf(units, start, end) ==
  LET last == LowOf(end, 2 * Len(units))
      first == HighOf(start, 0)
  IN IF first >= last THEN <<>> ELSE Decode(SubSeq(units, first \div 2 + 1, last \div 2))

\* write(text, offset, length, encoding) of n bytes into Length of them: how many it says it wrote, and those
\* that are there. A negative offset is not refused; bytes in front of the buffer are counted and dropped.
FullRoom(offset, length, n) == HighOf(0, LowOf(n, length))   \* were it not cut at the end
Room(offset, length, n) == HighOf(0, LowOf(n, LowOf(length, Length - offset)))
Written(offset, room) == [i \in 0..(Length - 1) |-> IF i - offset \in 0..(room - 1) THEN i - offset + 1 ELSE 0]

-----------------------------------------------------------------------------
Blank == [i \in 0..(Length - 1) |-> 0]

Init == buffer = Blank /\ call = [op |-> "none"]

\* Buffer.from and Buffer.byteLength of one text.
From(text, encoding) ==
  /\ call' = [op |-> "from", text |-> text, encoding |-> encoding, got |-> Encode(text, encoding), told |-> ByteLength(text, encoding)]
  /\ UNCHANGED buffer

Write(text, encoding, offset, length) ==
  /\ LET data == IF offset >= Length THEN Result(0) ELSE Encode(text, encoding)
         room == Room(offset, length, data.bytes)
     IN /\ call' = [op |-> "write", offset |-> offset, length |-> length, data |-> data, told |-> IF data.ok THEN room ELSE 0]
        /\ buffer' = IF data.ok THEN Written(offset, room) ELSE Blank

\* Buffer.from(text, "utf16le").toString("utf16le", 2 * from, end).
Return(text, from, end) ==
  /\ call' = [op |-> "return", text |-> text, from |-> from, end |-> end, got |-> TextOf(Units(text), 2 * from, end)]
  /\ UNCHANGED buffer

Next == call.op = "none" /\ \E text \in Texts :
  \/ \E encoding \in Encodings : From(text, encoding)
  \/ \E encoding \in {"utf8", "base64"}, offset, length \in {-1, 0, 1, Length} : Write(text, encoding, offset, length)
  \/ \E from \in 0..Len(Units(text)), end \in 0..(2 * Len(Units(text)) + 1) : Return(text, from, end)

Spec == Init /\ [][Next]_vars

-----------------------------------------------------------------------------
\* byteLength is the length of the Buffer in the encodings it can compute, and room enough in those of which it
\* decodes nothing: who allocates what it says loses no byte.
LengthEnough ==
  call.op = "from" /\ call.got.ok =>
    /\ call.got.bytes <= call.told
    /\ call.encoding \in {"utf8", "latin1", "utf16le"} => call.got.bytes = call.told

\* A text comes back from UTF-16 as it was; from a part of its bytes come the characters that lie in it, and a
\* pair that is cut leaves a replacement and never another character.
TextReturns ==
  call.op = "return" =>
    LET units  == Units(call.text)
        last   == LowOf(call.end \div 2, Len(units))
        before(k) == UnitCount(SubSeq(call.text, 1, k))
        whole  == SelectSeq([k \in DOMAIN call.text |-> <<before(k - 1) >= call.from /\ before(k) <= last, call.text[k]>>], LAMBDA x : x[1])
        mark(cut) == IF cut THEN <<"replacement">> ELSE <<>>
    IN call.got = (IF call.from >= last THEN <<>>
                   ELSE mark(units[call.from + 1] = "low") \o [k \in DOMAIN whole |-> whole[k][2]] \o mark(units[last] = "high"))

\* write puts the first bytes of the text from the offset on, as many as it tells and none outside, and a text
\* it refuses leaves the buffer alone; in front of the buffer it tells more than it writes.
WritesAPrefix ==
  call.op = "write" =>
    LET there == {i \in DOMAIN buffer : buffer[i] # 0}
    IN /\ \A i \in there : buffer[i] = i - call.offset + 1
       /\ call.offset >= 0 => Cardinality(there) = call.told
       /\ call.told <= HighOf(0, LowOf(call.length, call.data.bytes))

TextsKept == LengthEnough /\ TextReturns /\ WritesAPrefix

=============================================================================
