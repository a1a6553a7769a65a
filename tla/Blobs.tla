--------------------------------- MODULE Blobs ---------------------------------
(***************************************************************************)
(* Blobs and Files, and what fetch sends of the bytes it is given: the     *)
(* memory that ArrayBuffers, their views, Blobs and slices of Blobs share, *)
(* and a request in flight while the code goes on.                         *)
(* enhance_modules/blob_file_api.go, and body_types.go with its use in     *)
(* fetch_enhancement.go.                                                   *)
(*                                                                         *)
(* A byte is a number; Byte has some that are text by themselves and some  *)
(* that are not. Types, names and dates are left out: no operation reads   *)
(* them.                                                                   *)
(***************************************************************************)
EXTENDS Integers, Sequences, FiniteSets, SequencesExt

CONSTANTS Byte,      \* what the code writes
          Limits,    \* values of maxBlobFileSize
          Texts,     \* strings, as their bytes
          First,     \* what is in the first ArrayBuffer
          MaxBlobs, MaxStores, MaxPut \* how many there are in all, and how many bytes are of Byte: bounds

VARIABLES mode,     \* "loop": the code goes on while fetch sends; "pool": it waits, and the limiter of
                    \* allocations has wrapped ArrayBuffer
          maxSize,  \* maxBlobFileSize
          stores,   \* Seq: the pieces of memory, each a sequence of bytes
          writable, \* those that are the memory of an ArrayBuffer
          blobs,    \* Seq: [store, start, length, made], made: the bytes when it was made
          request   \* what fetch sends, or NoRequest

vars == <<mode, maxSize, stores, writable, blobs, request>>

CR == 13
LF == 10
NoStore == 0        \* a nil slice
NoRequest == [state |-> "none"]

Init == /\ maxSize \in Limits /\ mode \in {"loop", "pool"}
        /\ stores = <<First>> /\ writable = {1} /\ blobs = <<>> /\ request = NoRequest

Span(s, start, length) == IF s = NoStore THEN <<>> ELSE SubSeq(stores[s], start + 1, start + length)
BytesOf(b) == Span(b.store, b.start, b.length)
Sending == request # NoRequest /\ request.state = "sending"
Busy == mode = "pool" /\ Sending
Idle == request = NoRequest    \* a bound: nothing is made once there is a request, though it is written to

-----------------------------------------------------------------------------
\* The parts of a Blob: a string, an ArrayBuffer, a view of one, a Buffer, a Blob.

Views(kind) == [kind : {kind}, store : writable, start : 0..1, length : {1}]
Parts == {[kind |-> "text", text |-> t] : t \in Texts}
         \cup {[kind |-> "array buffer", store |-> s] : s \in writable}
         \cup {v \in Views("view") \cup Views("buffer") : v.start + v.length <= Len(stores[v.store])}
         \cup {[kind |-> "blob", blob |-> i] : i \in DOMAIN blobs}

\* Newlines of native form, on systems that write a line feed.
Native(t) ==
  LET paired(i) == t[i] = CR /\ i < Len(t) /\ t[i + 1] = LF
  IN FlattenSeq([i \in DOMAIN t |-> IF paired(i) THEN <<>> ELSE <<IF t[i] = CR THEN LF ELSE t[i]>>])

\* The text of a Buffer: a byte that is no UTF-8 by itself becomes the three of the replacement character.
Utf8(bytes) == FlattenSeq([i \in DOMAIN bytes |-> IF bytes[i] < 128 THEN <<bytes[i]>> ELSE <<239, 191, 189>>])
\* The text of an object without one, "[object Blob]".
ObjectText == <<91, 111, 98, 106, 101, 99, 116, 32, 66, 108, 111, 98, 93>>

\* A Blob without any data has a nil slice, as has what is no BufferSource: it is converted to a string.
PartBytes(p, native) ==
  LET string(t) == IF native THEN Native(t) ELSE t
  IN CASE p.kind = "text" -> string(p.text)
       [] p.kind = "array buffer" -> stores[p.store]
       [] p.kind = "view" -> Span(p.store, p.start, p.length)
       [] p.kind = "buffer" -> string(Utf8(Span(p.store, p.start, p.length)))
       [] OTHER -> IF blobs[p.blob].store = NoStore THEN string(ObjectText) ELSE BytesOf(blobs[p.blob])

\* The constructors of Blob and File copy; File does not know endings. The sum is compared part by part.
Construct(parts, native) ==
  LET bytes == FlattenSeq([i \in DOMAIN parts |-> PartBytes(parts[i], native)])
  IN /\ Idle /\ Len(blobs) < MaxBlobs /\ Len(stores) < MaxStores /\ Len(bytes) <= maxSize
     /\ stores' = IF bytes = <<>> THEN stores ELSE Append(stores, bytes)
     /\ blobs' = Append(blobs, [store |-> IF bytes = <<>> THEN NoStore ELSE Len(stores) + 1, start |-> 0,
                                length |-> Len(bytes), made |-> bytes])
     /\ UNCHANGED <<mode, maxSize, writable, request>>
NewBlob(parts) == \E native \in BOOLEAN : Construct(parts, native)
NewFile(parts) == Construct(parts, FALSE)

\* slice shares the data.
Clamp(v, n) == IF v < 0 THEN (IF n + v < 0 THEN 0 ELSE n + v) ELSE IF v > n THEN n ELSE v
Slice(i, from, to) ==
  LET b == blobs[i]  end == Clamp(to, b.length)
      start == IF Clamp(from, b.length) > end THEN end ELSE Clamp(from, b.length)
      part == [b EXCEPT !.start = @ + start, !.length = end - start]
  IN /\ Idle /\ Len(blobs) < MaxBlobs
     /\ blobs' = Append(blobs, [part EXCEPT !.made = BytesOf(part)])
     /\ UNCHANGED <<mode, maxSize, stores, writable, request>>

\* arrayBuffer and bytes copy; a mutant hands the data out.
HandOut(i) == /\ Idle /\ blobs[i].store # NoStore /\ writable' = writable \cup {blobs[i].store}
              /\ UNCHANGED <<mode, maxSize, stores, blobs, request>>
ArrayBuffer(i) == /\ Idle /\ Len(stores) < MaxStores /\ stores' = Append(stores, BytesOf(blobs[i]))
                  /\ writable' = writable \cup {Len(stores) + 1}
                  /\ UNCHANGED <<mode, maxSize, blobs, request>>

PutSoFar == Len(SelectSeq(FlattenSeq(stores), LAMBDA c : c \in Byte))

\* The code writes into an ArrayBuffer through a view of it. What the byte was while a request is sent
\* from there is remembered in had.
Put(s, i, b) ==
  /\ ~Busy /\ i \in DOMAIN stores[s] /\ stores[s][i] # b
  /\ PutSoFar < MaxPut
  /\ stores' = [stores EXCEPT ![s][i] = b]
  /\ request' = IF Sending /\ request.store = s /\ i \in request.start + 1..request.start + request.length
                THEN [request EXCEPT !.had[i - request.start] = @ \cup {b}] ELSE request
  /\ UNCHANGED <<mode, maxSize, writable, blobs>>

-----------------------------------------------------------------------------
\* The body of a request. A typed array is read element by element into bytes of its own, and only it is
\* compared with the limit; an ArrayBuffer and a Buffer are sent from where they lie. What has no data and
\* no reader is sent as JSON: an empty Blob, and an ArrayBuffer whose constructor has another name.
Json == <<123, 125>>
Body(p) ==
  CASE p.kind = "text" -> [live |-> FALSE, bytes |-> p.text]
    [] p.kind = "view" -> [live |-> FALSE, bytes |-> Span(p.store, p.start, p.length)]
    [] p.kind = "buffer" -> [live |-> TRUE, store |-> p.store, start |-> p.start, length |-> p.length]
    [] p.kind = "array buffer" -> IF mode = "pool" THEN [live |-> FALSE, bytes |-> Json]
                                  ELSE [live |-> TRUE, store |-> p.store, start |-> 0, length |-> Len(stores[p.store])]
    [] OTHER -> LET b == blobs[p.blob] IN IF b.store = NoStore THEN [live |-> FALSE, bytes |-> Json]
                                          ELSE [live |-> TRUE, store |-> b.store, start |-> b.start, length |-> b.length]

\* What the code means to send.
Meant(p) == CASE p.kind = "text" -> p.text
              [] p.kind = "array buffer" -> stores[p.store]
              [] p.kind = "blob" -> blobs[p.blob].made
              [] OTHER -> Span(p.store, p.start, p.length)
Lost(p) == \/ p.kind = "array buffer" /\ mode = "pool"
           \/ p.kind = "blob" /\ blobs[p.blob].store = NoStore

Fetch(p) ==
  /\ request = NoRequest /\ ~(p.kind = "view" /\ p.length > maxSize)
  /\ LET body == Body(p)
         source == IF body.live THEN body ELSE [store |-> Len(stores) + 1, start |-> 0, length |-> Len(body.bytes)]
     IN /\ stores' = IF body.live THEN stores ELSE Append(stores, body.bytes)
        /\ request' = [state |-> "sending", kind |-> p.kind, lost |-> Lost(p), meant |-> Meant(p), sent |-> <<>>,
                       store |-> source.store, start |-> source.start, length |-> source.length,
                       had |-> [i \in 1..source.length |-> {stores'[source.store][source.start + i]}]]
  /\ UNCHANGED <<mode, maxSize, writable, blobs>>

\* The goroutines of the transport read the body while the code of an event loop runs.
Send ==
  /\ Sending
  /\ LET n == Len(request.sent)
     IN request' = IF n = request.length THEN [request EXCEPT !.state = "sent"]
                   ELSE [request EXCEPT !.sent = Append(@, stores[request.store][request.start + n + 1])]
  /\ UNCHANGED <<mode, maxSize, stores, writable, blobs>>

Next == \/ \E p \in Parts : \/ NewFile(<<p>>) \/ NewBlob(<<p>>) \/ Fetch(p)
                            \/ \E q \in Parts : {p.kind, q.kind} = {"blob", "text"} /\ NewBlob(<<p, q>>)
        \/ NewBlob(<<>>)
        \/ \E i \in DOMAIN blobs : ArrayBuffer(i) \/ \E from \in {0, -1}, to \in {1, 3} : Slice(i, from, to)
        \/ \E s \in writable, i \in 1..2, b \in Byte : Put(s, i, b)
        \/ Send
Spec == Init /\ [][Next]_vars

-----------------------------------------------------------------------------
\* Nothing that the code does afterwards changes a Blob: not a write into an ArrayBuffer that it was made of
\* or that it gave, nor one through a slice or a Blob it was put in; and none is larger than the limit.
BlobsKeep == \A i \in DOMAIN blobs : BytesOf(blobs[i]) = blobs[i].made /\ blobs[i].length <= maxSize

\* A request sends as many bytes as it was given: those it was given, unless it sends them from an ArrayBuffer
\* that the code writes meanwhile, where each is one that stood there since; an empty Blob, and any
\* ArrayBuffer where the limiter is, is not sent but is said to be an object.
SentAsGiven ==
  request # NoRequest =>
    LET sent == request.sent
    IN /\ IF request.lost THEN sent \in {SubSeq(Json, 1, n) : n \in 0..2}
          ELSE IF request.kind \in {"array buffer", "buffer"} THEN \A i \in DOMAIN sent : sent[i] \in request.had[i]
          ELSE sent = SubSeq(request.meant, 1, Len(sent))
       /\ request.state = "sent" /\ ~request.lost => Len(sent) = Len(request.meant)
       /\ mode = "pool" /\ ~request.lost => sent = SubSeq(request.meant, 1, Len(sent))

BlobsHold == BlobsKeep /\ SentAsGiven
================================================================================
