----------------------------- MODULE FormUpload -----------------------------
(***************************************************************************)
(* require('form-data'): a form with streams is written into a pipe by two *)
(* goroutines while the request's transport reads it; one without streams  *)
(* is written into memory. enhance_modules/formdata_streaming.go,          *)
(* formdata_nodejs.go, and the part of fetch that takes the form's reader. *)
(*                                                                         *)
(* Sizes are in units; the header of an entry has none.                    *)
(***************************************************************************)
EXTENDS Integers, Sequences, Functions

CONSTANTS Sizes,         \* of the values a script appends
          MaxBuffered, MaxStreaming, MaxFile, \* limits of the configuration
          StreamGuess,   \* the size appendStreamFile assumes (1 MB)
          MaxEntries, MaxUploads \* bounds

VARIABLES entries,       \* Seq of [kind, size]
          totalSize,     \* the estimate
          mode,          \* isStreamingMode: "unknown", "buffered" or "streaming"
          context,       \* config.Context: "none", "live" or "over"
          upload,        \* "none", "refused", "bytes" or "pipe": the reader of the present upload
          todo, copied,  \* the writer's entries, and what it has copied of the first
          inner,         \* the goroutine that writes: "none", "write", "done"
          outcome,       \* doneCh: "none", "ok" or "failed"
          outer,         \* the goroutine that waits: "none", "select", "done"
          pipe,          \* the write side: "open", "eof" or "error"
          reading,       \* the transport has not closed the read side
          got, seen,     \* units the transport has read; the end it has seen: "no", "eof", "error"
          whole, uploads \* ghosts: units of the form; uploads so far

form   == <<entries, totalSize, mode, context>>
writer == <<todo, copied, inner, outcome, outer>>
vars   == <<form, upload, writer, pipe, reading, got, seen, whole, uploads>>

Init ==
  /\ entries = <<>> /\ totalSize = 0 /\ mode = "unknown" /\ context = "none"
  /\ upload = "none" /\ todo = <<>> /\ copied = 0 /\ inner = "none" /\ outcome = "none" /\ outer = "none"
  /\ pipe = "open" /\ reading = FALSE /\ got = 0 /\ seen = "no" /\ whole = 0 /\ uploads = 0

Units(list) == SumFunction([i \in DOMAIN list |-> list[i].size])

-----------------------------------------------------------------------------
\* The form. handleAppend: a stream of a response; a file, a blob, a buffer that is not empty or a
\* string with a file name; everything else, an empty buffer too, becomes text.
Entry(value, size, named) ==
  [size |-> size,
   kind |-> CASE value = "stream" -> "stream"
              [] value \in {"file", "blob"} \/ (value = "buffer" /\ size > 0) \/ (value = "string" /\ named) -> "file"
              [] OTHER -> "text"]

\* appendField, appendFile, appendStreamFile: an estimate of 0 units of header, or the guess.
Guess(e) == IF e.kind = "stream" THEN StreamGuess ELSE e.size

Append1 ==
  /\ Len(entries) < MaxEntries /\ uploads < MaxUploads
  /\ \E e \in {Entry(value, size, named) : value \in {"null", "string", "buffer", "blob", "file", "stream"},
                                        size \in Sizes, named \in BOOLEAN} :
       entries' = Append(entries, e) /\ totalSize' = totalSize + Guess(e)
  /\ UNCHANGED <<mode, context, upload, writer, pipe, reading, got, seen, whole, uploads>>

\* detectStreamingMode: the first detection stays.
Detected == IF mode # "unknown" THEN mode
            ELSE IF \E i \in DOMAIN entries : entries[i].kind = "stream" THEN "streaming" ELSE "buffered"
Limit(m) == IF m = "streaming" THEN MaxStreaming ELSE MaxBuffered

\* CreateReader, called by getBuffer and by fetch. The entries leave the form unless it fails.
Idle == inner # "write" /\ outer # "select"
CreateReader ==
  LET m == Detected
      tooLarge == Limit(m) > 0 /\ totalSize > Limit(m)
      badFile  == m = "buffered" /\ \E i \in DOMAIN entries : entries[i].kind # "text" /\ entries[i].size > MaxFile
  IN /\ Idle /\ uploads < MaxUploads /\ uploads' = uploads + 1
     /\ mode' = m /\ got' = 0 /\ seen' = "no" /\ copied' = 0 /\ pipe' = "open" /\ outcome' = "none"
     /\ whole' = Units(entries) /\ UNCHANGED <<totalSize, context>>
     /\ IF tooLarge \/ badFile
        THEN /\ upload' = "refused" /\ reading' = FALSE /\ todo' = <<>>
             /\ inner' = "none" /\ outer' = "none" /\ UNCHANGED entries
        ELSE /\ upload' = (IF m = "streaming" THEN "pipe" ELSE "bytes") /\ reading' = TRUE /\ entries' = <<>>
             /\ todo' = entries
             /\ inner' = (IF m = "streaming" THEN "write" ELSE "none")
             /\ outer' = (IF m = "streaming" THEN "select" ELSE "none")

\* The bytes of a form in memory.
ReadBytes ==
  /\ upload = "bytes" /\ reading /\ seen = "no"
  /\ got' = Units(todo) /\ seen' = "eof"
  /\ UNCHANGED <<form, upload, writer, pipe, reading, whole, uploads>>

-----------------------------------------------------------------------------
\* executeRequestAsync gives the form the context of its upload after the reader was made: the
\* writer has the context of the form's previous upload, or none.
SetContext == /\ upload = "pipe" /\ context # "live" /\ reading /\ context' = "live"
              /\ UNCHANGED <<entries, totalSize, mode, upload, writer, pipe, reading, got, seen, whole, uploads>>
CancelContext == /\ context = "live" /\ context' = "over"
                 /\ UNCHANGED <<entries, totalSize, mode, upload, writer, pipe, reading, got, seen, whole, uploads>>
Cancelled == context = "over"

-----------------------------------------------------------------------------
\* The goroutine that writes.
Leaves(result) == inner' = "done" /\ outcome' = result
                  /\ UNCHANGED <<form, upload, todo, copied, outer, pipe, reading, whole, uploads>>

\* Before each entry it looks at the context.
SeesContext == /\ inner = "write" /\ copied = 0 /\ todo # <<>> /\ Cancelled
               /\ Leaves("failed") /\ UNCHANGED <<got, seen>>

\* copyStreaming: the next units of a file or a stream go to the reader who waits for them, unless
\* they exceed the limit. A pipe closed at either end refuses them, which is not an error.
Blocked == pipe # "open" \/ ~reading
TooMuch(e) == e.kind # "text" /\ \/ e.kind = "file" /\ e.size > MaxFile
                                 \/ Limit(mode) > 0 /\ copied + 1 > Limit(mode)
Write ==
  /\ inner = "write" /\ todo # <<>> /\ copied < Head(todo).size /\ ~TooMuch(Head(todo)) /\ ~Blocked
  /\ copied' = copied + 1 /\ got' = got + 1
  /\ UNCHANGED <<form, upload, todo, inner, outcome, outer, pipe, reading, seen, whole, uploads>>
WriteRefused ==
  /\ inner = "write" /\ todo # <<>> /\ Blocked /\ Leaves("ok") /\ UNCHANGED <<got, seen>>
WriteFails ==
  /\ inner = "write" /\ todo # <<>>
  /\ (copied < Head(todo).size /\ TooMuch(Head(todo))) \/ Head(todo).kind = "stream" \* its source fails
  /\ Leaves("failed") /\ UNCHANGED <<got, seen>>
NextEntry ==
  /\ inner = "write" /\ todo # <<>> /\ copied = Head(todo).size
  /\ todo' = Tail(todo) /\ copied' = 0
  /\ UNCHANGED <<form, upload, inner, outcome, outer, pipe, reading, got, seen, whole, uploads>>
\* The last boundary, whose failure is one.
WriterCloses == /\ inner = "write" /\ todo = <<>>
                /\ Leaves(IF Blocked THEN "failed" ELSE "ok") /\ UNCHANGED <<got, seen>>

-----------------------------------------------------------------------------
\* The goroutine that waits: for the result, the timer or the context. Its deferred Close comes
\* after CloseWithError and changes nothing then.
Close(how) == /\ outer = "select" /\ outer' = "done" /\ pipe' = how
              /\ UNCHANGED <<form, upload, todo, copied, inner, outcome, reading, got, seen, whole, uploads>>
Finished == outcome # "none" /\ Close(IF outcome = "ok" THEN "eof" ELSE "error")
\* Mutant: the deferred Close alone ends the pipe when the time is over.
TimeoutQuietly == Close("eof")
Timeout  == Close("error")
Cancel   == Cancelled /\ Close("error")

-----------------------------------------------------------------------------
\* The transport reads to the end, or closes the reader before; when the request is never sent it
\* does neither, and the timer ends the writer.
ReadEnd   == /\ upload = "pipe" /\ reading /\ pipe # "open" /\ seen = "no" /\ seen' = pipe
             /\ UNCHANGED <<form, upload, writer, pipe, reading, got, whole, uploads>>
StopReading == /\ upload = "pipe" /\ reading /\ reading' = FALSE
               /\ UNCHANGED <<form, upload, writer, pipe, got, seen, whole, uploads>>

Next == \/ Append1 \/ CreateReader \/ ReadBytes \/ SetContext \/ CancelContext
        \/ SeesContext \/ Write \/ WriteRefused \/ WriteFails \/ NextEntry \/ WriterCloses
        \/ Finished \/ Timeout \/ Cancel \/ ReadEnd \/ StopReading

-----------------------------------------------------------------------------
\* A server never takes a part of a form for the whole: whatever ends the writer (a timer, a
\* context, a limit, its source), the transport sees the end only after every unit, and an error
\* otherwise. A form without streams is within the limit of what is read into memory.
UploadIsWhole ==
  /\ seen = "eof" => got = whole
  /\ upload = "bytes" /\ (\A i \in DOMAIN todo : todo[i].kind # "stream")
       => MaxBuffered = 0 \/ whole <= MaxBuffered

\* What is read into memory is within its limit (formdata_streaming.go:157). It is not: the mode is
\* that of the form's first reader, and a stream that is appended later is read as a whole.
BufferedWithinLimit == upload = "bytes" => MaxBuffered = 0 \/ whole <= MaxBuffered
=============================================================================
