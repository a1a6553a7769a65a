------------------------------ MODULE BufferViews ------------------------------
(***************************************************************************)
(* The Buffer of a user's code: views of the bytes of ArrayBuffers, which  *)
(* slices of slices share, and the operations that read, move, search and  *)
(* write through them. enhance_modules/buffer_enhancement.go.              *)
(*                                                                         *)
(* A byte is a digit of base Base and an ArrayBuffer has Size of them; an  *)
(* integer of 8, 16, 32 or 64 bits has the digits Digits names. A call is  *)
(* recorded with its arguments, what it told and the bytes before it.      *)
(***************************************************************************)
EXTENDS Integers, Sequences, FiniteSets, FiniteSetsExt, SequencesExt, TLC

CONSTANTS Size,        \* bytes of an ArrayBuffer
          Base,        \* values of a byte, even
          Contents     \* the bytes an ArrayBuffer may have: bound

VARIABLES memory,    \* memory[a][i]: byte i of the ArrayBuffer a
          this,      \* the view the calls are made on
          target,    \* the view they are given
          call       \* the last call: [op, ...]

vars == <<memory, this, target, call>>

Byte    == 0..(Base - 1)
Indexes == 0..(Size - 1)
Args    == -1..(Size + 1)
Needles == {<<>>, <<0>>, <<1, 0>>}
View(a, start, length) == [of |-> a, start |-> start, length |-> length]

LowOf(x, y)  == IF x < y THEN x ELSE y
HighOf(x, y) == IF x < y THEN y ELSE x

-----------------------------------------------------------------------------
\* An element of a typed array: one that is out of range reads as undefined, and writing it does nothing.

Get(m, v, i)    == m[v.of][v.start + i]
Put(m, v, i, b) == IF i \in 0..(v.length - 1) THEN [m EXCEPT ![v.of][v.start + i] = b] ELSE m
Bytes(m, v)     == [i \in 1..v.length |-> Get(m, v, i - 1)]

\* The loops that set one element after another, from offset on.
PutAll(m, v, offset, data) ==
  LET after[n \in 0..Len(data)] == IF n = 0 THEN m ELSE Put(after[n - 1], v, offset + n - 1, data[n])
  IN after[Len(data)]

\* The bytes before the call and after it, seen through a view.
Before(v) == Bytes(call.was, v)
After(v)  == Bytes(memory, v)

-----------------------------------------------------------------------------
\* slice and subarray: negative ends count from the length, and only the end is brought down to the length.

Sliced(v, from, to) ==
  LET start == HighOf(0, IF from < 0 THEN v.length + from ELSE from)
      end   == LowOf(v.length, IF to < 0 THEN v.length + to ELSE to)
  IN View(v.of, v.start + start, HighOf(0, end - start))

\* Buffer.from(arrayBuffer, byteOffset, length) refuses an offset behind the bytes.
Exists(v) == v.start <= Size

-----------------------------------------------------------------------------
\* copy: what is copied is clamped, and goes through a copy of its own when the ranges meet in one ArrayBuffer.

CopyLength(src, dst, at, from, to) ==
  LET start == LowOf(from, src.length)
      end   == HighOf(start, LowOf(to, src.length))
  IN LowOf(end - start, dst.length - LowOf(at, dst.length))

\* The ranges that meet; the end of the source is the one asked for, whatever is copied.
Meet(src, dst, at, from, to) ==
  LET start == LowOf(from, src.length)
      end   == HighOf(start, LowOf(to, src.length))
      into  == dst.start + LowOf(at, dst.length)
  IN /\ src.of = dst.of
     /\ into < src.start + end
     /\ into + CopyLength(src, dst, at, from, to) > src.start + start

Forward(m, src, dst, at, from, n) ==
  LET after[k \in 0..n] == IF k = 0 THEN m ELSE Put(after[k - 1], dst, at + k - 1, Get(after[k - 1], src, from + k - 1))
  IN after[n]

Through(m, src, dst, at, from, n) == PutAll(m, dst, at, [i \in 1..n |-> Get(m, src, from + i - 1)])

AlwaysForward(m, src, dst, at, from, to) ==
  Forward(m, src, dst, LowOf(at, dst.length), LowOf(from, src.length), CopyLength(src, dst, at, from, to))

Copied(m, src, dst, at, from, to) ==
  LET n     == CopyLength(src, dst, at, from, to)
      start == LowOf(from, src.length)
      into  == LowOf(at, dst.length)
  IN IF n > 0 /\ Meet(src, dst, at, from, to) THEN Through(m, src, dst, into, start, n) ELSE Forward(m, src, dst, into, start, n)

\* set: all of the source or nothing, through a copy when the ArrayBuffer is one.
SetAll(m, src, dst, at) ==
  IF src.of = dst.of THEN Through(m, src, dst, at, 0, src.length) ELSE Forward(m, src, dst, at, 0, src.length)

-----------------------------------------------------------------------------
\* fill, swap16 and its like, reverse, concat.

Filled(m, v, from, end, data) ==
  LET pattern == IF data = <<>> THEN <<0>> ELSE data
      offset  == HighOf(0, from)
  IN PutAll(m, v, offset, [i \in 1..HighOf(0, end - offset) |-> pattern[((i - 1) % Len(pattern)) + 1]])

\* Groups of w bytes are turned around one after the other.
Swapped(m, v, w) ==
  LET turn(x, g)  == PutAll(x, v, g * w, [j \in 1..w |-> Get(x, v, g * w + w - j)])
      after[g \in 0..(v.length \div w)] == IF g = 0 THEN m ELSE turn(after[g - 1], g - 1)
  IN after[v.length \div w]

Reversed(m, v) ==
  LET exchange(x, i) == Put(Put(x, v, i, Get(x, v, v.length - 1 - i)), v, v.length - 1 - i, Get(x, v, i))
      after[n \in 0..(v.length \div 2)] == IF n = 0 THEN m ELSE exchange(after[n - 1], n - 1)
  IN after[v.length \div 2]

\* A total of 0 is one that was not given.
Concatenated(parts, total) ==
  LET all   == FlattenSeq(parts)
      bytes == IF total = 0 THEN Len(all) ELSE total
  IN [i \in 1..bytes |-> IF i <= Len(all) THEN all[i] ELSE 0]

-----------------------------------------------------------------------------
\* indexOf, includes, lastIndexOf, compare, equals.

Occurs(m, v, needle, i) == \A j \in 1..Len(needle) : Get(m, v, i + j - 1) = needle[j]

IndexOf(m, v, needle, from) ==
  LET offset == HighOf(0, IF from < 0 THEN v.length + from ELSE from)
      found  == {i \in offset..(v.length - Len(needle)) : Occurs(m, v, needle, i)}
  IN IF needle = <<>> THEN LowOf(offset, v.length) ELSE IF found = {} THEN -1 ELSE Min(found)

Includes(m, v, needle, from) == IndexOf(m, v, needle, from) # -1

\* The offset is where the last byte of the occurrence may be.
LastIndexOf(m, v, needle, from) ==
  LET asked == IF from < 0 THEN v.length + from ELSE from
      last  == LowOf(asked, v.length - 1)
      ends  == {i \in (Len(needle) - 1)..last : Occurs(m, v, needle, i - Len(needle) + 1)}
  IN IF last < 0 THEN -1
     ELSE IF needle = <<>> THEN last
     ELSE IF ends = {} THEN -1
     ELSE Max(ends) - Len(needle) + 1

\* Of the bytes from..end - 1 of each, cut at the lengths.
Part(m, v, from, end) ==
  LET start == HighOf(0, from)
  IN [i \in 1..HighOf(0, LowOf(end, v.length) - start) |-> Get(m, v, start + i - 1)]

Order(s, t) ==
  LET differ == {i \in 1..LowOf(Len(s), Len(t)) : s[i] # t[i]}
  IN IF differ # {} THEN (IF s[Min(differ)] < t[Min(differ)] THEN -1 ELSE 1)
     ELSE IF Len(s) < Len(t) THEN -1 ELSE IF Len(s) > Len(t) THEN 1 ELSE 0

Compare(m, v, w, wFrom, wEnd, vFrom, vEnd) == Order(Part(m, v, vFrom, vEnd), Part(m, w, wFrom, wEnd))

Equals(m, v, w) == v.length = w.length /\ \A i \in 0..(v.length - 1) : Get(m, v, i) = Get(m, w, i)

\* entries(), keys() and values() give one of these at each next(), toJSON all the bytes.
Entries(m, v) == [i \in 1..v.length |-> <<i - 1, Get(m, v, i - 1)>>]

-----------------------------------------------------------------------------
\* Numbers. The digits of a value, the most significant first; a negative one has the digits of its complement.

Low(w, signed)  == IF signed THEN -((Base ^ w) \div 2) ELSE 0
High(w, signed) == IF signed THEN (Base ^ w) \div 2 - 1 ELSE Base ^ w - 1
DigitsOf(x, w)  == [i \in 1..w |-> ((x % (Base ^ w)) \div (Base ^ (w - i))) % Base]
Unsigned(digits) == FoldLeft(LAMBDA x, b : x * Base + b, 0, digits)
NumberOf(digits, signed) ==
  LET x == Unsigned(digits) IN IF signed /\ x > High(Len(digits), TRUE) THEN x - Base ^ Len(digits) ELSE x
InOrder(digits, big) == IF big THEN digits ELSE Reverse(digits)

\* checkReadBounds and checkIntRange.
Within(v, at, w)         == at >= 0 /\ at + w <= v.length
InRange(value, w, signed) == value \in Low(w, signed)..High(w, signed)

\* What the families of methods check, and how many digits theirs have: 3 stand for 4 and 8 bytes.
Family(widths, ranged, bounded) == [widths |-> widths, ranged |-> ranged, bounded |-> bounded]
Bytes8         == Family({1}, TRUE, FALSE)       \* writeInt8 takes a negative offset
Integers16     == Family({2}, TRUE, TRUE)
Integers32     == Family({3}, TRUE, TRUE)
Floats         == Family({3}, FALSE, TRUE)
VariableLength == Family({1, 2, 3}, TRUE, TRUE)
VariableLittle == Family({1, 2, 3}, FALSE, FALSE)  \* writeUIntLE, which checks neither
FamilyOf(kind, signed, big) ==
  CASE kind = "8" -> Bytes8
    [] kind = "16" -> Integers16
    [] kind = "32" -> Integers32
    [] kind = "float" -> Floats
    [] kind = "variable" -> IF signed \/ big THEN VariableLength ELSE VariableLittle

ReadNumber(m, v, at, w, signed, big) == NumberOf(InOrder([i \in 1..w |-> Get(m, v, at + i - 1)], big), signed)

Refused(v, value, at, w, signed, family) ==
  \/ family.ranged /\ ~InRange(value, w, signed)
  \/ family.bounded /\ ~Within(v, at, w)
  \/ family = Bytes8 /\ at >= v.length

Written(m, v, value, at, w, big) == PutAll(m, v, at, InOrder(DigitsOf(value, w), big))

\* writeBigInt64 and writeBigUInt64: only the offset is checked; the digits are those of the absolute value,
\* and a value with too many of them ends the execution with a panic of Go.
BigWidth == 3
AbsOf(x) == IF x < 0 THEN -x ELSE x
Magnitude(value, signed) == AbsOf(IF signed /\ value < 0 THEN value + Base ^ BigWidth ELSE value)
BigFits(value, signed)   == Magnitude(value, signed) < Base ^ BigWidth

-----------------------------------------------------------------------------
\* The calls.

\* The views that slices of slices of whole ArrayBuffers are; every behaviour is one call on some of them.
Views(a) == UNION {{View(a, start, length) : length \in 0..(Size - start)} : start \in Indexes}

Record(op, fails, args) == args @@ [op |-> op, fails |-> fails, was |-> memory]
Idle == [op |-> "none", fails |-> FALSE, was |-> memory]

Init ==
  /\ \E bytes \in Contents : memory = [a \in {"x", "y"} |-> bytes]
  /\ this \in Views("x")
  /\ target \in Views("x") \cup Views("y")
  /\ call = Idle

Ready == call.op = "none"
\* A call without a target is made where the target is one of all: nothing depends on it.
Alone == Ready /\ target = View("x", 0, Size)
Looks == UNCHANGED <<memory, this, target>>
Writes(m) == memory' = m /\ UNCHANGED <<this, target>>
WritesOr(fails, m) == Writes(IF fails THEN memory ELSE m)

Slice(from, to) ==
  /\ Alone
  /\ LET part == Sliced(this, from, to)
     IN /\ this' = IF Exists(part) THEN part ELSE this
        /\ call' = Record("slice", ~Exists(part), [parent |-> this, from |-> from])
  /\ UNCHANGED <<memory, target>>

\* this.copy(target, at, from, to).
Copy(at, from, to) ==
  /\ Ready
  /\ LET fails == at < 0 \/ from < 0 \/ to < 0
     IN /\ WritesOr(fails, Copied(memory, this, target, at, from, to))
        /\ call' = Record("copy", fails, [at |-> at, from |-> from, to |-> to, result |-> IF fails THEN 0 ELSE CopyLength(this, target, at, from, to)])

\* target.set(this, at).
SetBytes(at) ==
  /\ Ready
  /\ LET fails == at < 0 \/ at + this.length > target.length
     IN /\ WritesOr(fails, SetAll(memory, this, target, at))
        /\ call' = Record("set", fails, [at |-> at])

Fill(data, from, end) ==
  /\ Alone
  /\ LET fails == end < 0 \/ end > this.length
     IN /\ WritesOr(fails, Filled(memory, this, from, end, data))
        /\ call' = Record("fill", fails, [data |-> data, from |-> from, end |-> end])

Swap(w) ==
  /\ Alone
  /\ LET fails == this.length % w # 0
     IN /\ WritesOr(fails, Swapped(memory, this, w))
        /\ call' = Record("swap", fails, [w |-> w])

ReverseBytes ==
  /\ Alone
  /\ Writes(Reversed(memory, this))
  /\ call' = Record("reverse", FALSE, <<>>)

Concat(total) ==
  /\ Ready
  /\ Looks
  /\ call' = Record("concat", total < 0, [total |-> total,
       result |-> IF total < 0 THEN <<>> ELSE Concatenated(<<Bytes(memory, this), Bytes(memory, target)>>, total)])

Search(needle, from) ==
  /\ Alone
  /\ Looks
  /\ call' = Record("search", FALSE, [needle |-> needle, from |-> from, first |-> IndexOf(memory, this, needle, from),
       found |-> Includes(memory, this, needle, from), last |-> LastIndexOf(memory, this, needle, from)])

CompareRanges(wFrom, wEnd, vFrom, vEnd) ==
  /\ Ready
  /\ Looks
  /\ call' = Record("compare", FALSE, [ranges |-> <<wFrom, wEnd, vFrom, vEnd>>,
       order |-> Compare(memory, this, target, wFrom, wEnd, vFrom, vEnd), equal |-> Equals(memory, this, target)])

\* TextDecoder.decode of the view, or of its ArrayBuffer. The types the bytes of a whole ArrayBuffer are looked
\* for in are not those goja exports, so that what has a length is read element by element and the rest is
\* empty. A mutant takes the ArrayBuffer behind a view.
DecodedWhole(m, v, form) == Bytes(m, View(v.of, 0, Size))
Decoded(m, v, form) == IF form = "view" THEN Bytes(m, v) ELSE <<>>
DecodeText(form) ==
  /\ Alone
  /\ Looks
  /\ call' = Record("decode", FALSE, [form |-> form, text |-> Decoded(memory, this, form)])

Iterate ==
  /\ Alone
  /\ Looks
  /\ call' = Record("iterate", FALSE, [entries |-> Entries(memory, this)])

Edges(w, signed) == {Low(w, signed) - 1, Low(w, signed), 1, High(w, signed), High(w, signed) + 1}

Write(kind, signed, big, at) ==
  /\ Alone
  /\ \E w \in FamilyOf(kind, signed, big).widths : \E value \in Edges(w, signed) :
       LET fails == Refused(this, value, at, w, signed, FamilyOf(kind, signed, big))
       IN /\ kind = "float" => ~signed /\ InRange(value, w, FALSE)   \* the number of its bits
          /\ WritesOr(fails, Written(memory, this, value, at, w, big))
          /\ call' = Record("write", fails, [w |-> w, signed |-> signed, big |-> big, value |-> value, at |-> at, result |-> at + w])

WriteBig(signed, big, value, at) ==
  /\ Alone
  /\ LET fails == ~Within(this, at, BigWidth) \/ ~BigFits(value, signed)
     IN /\ WritesOr(fails, Written(memory, this, Magnitude(value, signed), at, BigWidth, big))
        /\ call' = Record("write", fails, [w |-> BigWidth, signed |-> signed, big |-> big, value |-> value, at |-> at, result |-> at + BigWidth])

Read(widths, signed, big, at) ==
  /\ Alone
  /\ Looks
  /\ \E w \in widths :
       call' = Record("read", ~Within(this, at, w), [w |-> w, at |-> at,
         number |-> IF Within(this, at, w) THEN ReadNumber(memory, this, at, w, signed, big) ELSE 0])
Read8(signed, at)             == Read({1}, signed, TRUE, at)
Read16(signed, big, at)       == Read({2}, signed, big, at)
Read32(signed, big, at)       == Read({3}, signed, big, at)
ReadFloat(big, at)            == Read({3}, FALSE, big, at)
ReadVariable(signed, big, at) == Read({1, 2, 3}, signed, big, at)
ReadBig(signed, big, at)      == Read({BigWidth}, signed, big, at)

Next ==
  \/ \E from, to \in Args : Slice(from, to)
  \/ \E at, from \in {-1, 0, 1, Size + 1}, to \in {-1, 1, Size + 1} : Copy(at, from, to)
  \/ \E at \in Args : SetBytes(at)
  \/ \E data \in Needles, from, end \in Args : Fill(data, from, end)
  \/ \E w \in {2, 3} : Swap(w)
  \/ ReverseBytes
  \/ \E total \in -1..(2 * Size + 1) : Concat(total)
  \/ \E needle \in Needles, from \in Args : Search(needle, from)
  \/ \E wFrom, vFrom \in {0, 1}, wEnd, vEnd \in {1, Size} : CompareRanges(wFrom, wEnd, vFrom, vEnd)
  \/ Iterate
  \/ \E form \in {"view", "ArrayBuffer"} : DecodeText(form)
  \/ \E signed, big \in BOOLEAN, at \in Args :
       \/ \E value \in Edges(BigWidth, signed) \cup {Base ^ BigWidth, -Base ^ BigWidth - 1} : WriteBig(signed, big, value, at)
       \/ \E kind \in {"8", "16", "32", "float", "variable"} : Write(kind, signed, big, at)
       \/ Read8(signed, at) \/ Read16(signed, big, at) \/ Read32(signed, big, at) \/ ReadFloat(big, at)
       \/ ReadVariable(signed, big, at) \/ ReadBig(signed, big, at)

Spec == Init /\ [][Next]_vars

-----------------------------------------------------------------------------
\* Properties.

\* Whatever is called, bytes outside the view that is written stay as they are, and a call that fails writes nothing.
InsideOnly ==
  LET written == IF call.op \in {"copy", "set"} THEN target ELSE this
  IN \A a \in {"x", "y"}, i \in Indexes :
       memory[a][i] # call.was[a][i] => ~call.fails /\ written.of = a /\ i - written.start \in 0..(written.length - 1)

\* A slice lies in its parent and shows the bytes between the ends; only one that begins behind its parent does
\* not, and it is empty or refused.
SliceInside ==
  call.op = "slice" =>
    \/ /\ this.start >= call.parent.start
       /\ this.start + this.length <= call.parent.start + call.parent.length
    \/ call.from > call.parent.length /\ this.length = 0

\* copy and set move the bytes as they were before the call, however the two views overlap.
MovesAtOnce ==
  call.op \in {"copy", "set"} /\ ~call.fails =>
    LET from  == IF call.op = "copy" THEN call.from ELSE 0
        moved == IF call.op = "copy" THEN call.result ELSE this.length
    IN /\ \A i \in 1..target.length :
            After(target)[i] = IF i - call.at \in 1..moved THEN Before(this)[from + i - call.at] ELSE Before(target)[i]
       /\ call.op = "copy" /\ call.from <= call.to => moved = HighOf(0, LowOf(LowOf(call.to, this.length) - call.from, target.length - call.at))

\* An integer that fits is read back from where it was written by the method of its own width and order, and
\* read by the other order it has its bytes turned around. What does not fit is refused, but for three methods:
\* 8 bits at a negative offset, writeUIntLE, and a BigInt.
WrittenIsRead ==
  call.op = "write" /\ ~call.fails /\ Within(this, call.at, call.w) /\ InRange(call.value, call.w, call.signed) =>
    /\ ReadNumber(memory, this, call.at, call.w, call.signed, call.big) = call.value
    /\ DigitsOf(ReadNumber(memory, this, call.at, call.w, FALSE, ~call.big), call.w) = Reverse(DigitsOf(call.value, call.w))

\* What turns bytes around undoes itself, and what is filled repeats its data.
TurnsBack ==
  /\ call.op = "swap" /\ ~call.fails => Swapped(memory, this, call.w) = call.was
  /\ call.op = "reverse" => After(this) = Reverse(Before(this))
  /\ call.op = "fill" /\ call.data # <<>> /\ ~call.fails =>
       \A i \in HighOf(call.from, 0)..(call.end - Len(call.data) - 1) : After(this)[i + 1 + Len(call.data)] = After(this)[i + 1]

\* Searching from either end finds one of the occurrences, the one the other finds in the bytes turned around;
\* without an offset both find one or neither does.
SearchesMirror ==
  call.op = "search" /\ call.needle # <<>> =>
    LET v == View("x", this.start, this.length)
        turned == Reversed([memory EXCEPT !["x"] = memory[this.of]], v)
        first == IndexOf(turned, v, Reverse(call.needle), this.length - 1 - LowOf(IF call.from < 0 THEN this.length + call.from ELSE call.from, this.length - 1))
    IN /\ call.last = (IF this.length + call.from < 0 \/ first = -1 THEN -1 ELSE this.length - Len(call.needle) - first)
       /\ call.found <=> call.first >= 0
       /\ call.from = 0 => (call.found <=> LastIndexOf(memory, this, call.needle, this.length) >= 0)

\* Comparing ranges is comparing slices, either way round, and 0 is for equal bytes alone.
ComparesSlices ==
  call.op = "compare" =>
    LET r == call.ranges
        v == Sliced(this, LowOf(r[3], this.length), HighOf(r[3], r[4]))
        w == Sliced(target, LowOf(r[1], target.length), HighOf(r[1], r[2]))
    IN /\ call.order = Compare(memory, v, w, 0, Size, 0, Size)
       /\ call.order = -Compare(memory, w, v, 0, Size, 0, Size)
       /\ (call.order = 0) <=> Equals(memory, v, w)
       /\ call.equal => (r[1] = r[3] /\ r[2] = r[4] => call.order = 0)

\* What concat gives is the bytes of the parts, cut or padded to the total that was asked for.
JoinsAll ==
  call.op = "concat" /\ ~call.fails =>
    /\ \A i \in DOMAIN call.result : call.result[i] = IF i <= this.length THEN Before(this)[i]
                                                     ELSE IF i <= this.length + target.length THEN Before(target)[i - this.length] ELSE 0
    /\ Len(call.result) = IF call.total = 0 THEN this.length + target.length ELSE call.total

\* The text of a slice, wherever it lies in its ArrayBuffer, is that of the bytes it compares equal with, and
\* so the part of the text of the whole; an ArrayBuffer itself has an empty text.
TextOfSlice ==
  call.op = "decode" => IF call.form = "view" THEN call.text = SubSeq(Bytes(memory, View(this.of, 0, Size)), this.start + 1, this.start + this.length)
                        ELSE call.text = <<>>

BufferKept == TextOfSlice /\ InsideOnly /\ SliceInside /\ MovesAtOnce /\ WrittenIsRead /\ TurnsBack /\ SearchesMirror /\ ComparesSlices /\ JoinsAll

=============================================================================
