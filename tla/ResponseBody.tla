---------------------------- MODULE ResponseBody ----------------------------
(***************************************************************************)
(* The body of a response as a script sees it: Node events (on, pause,     *)
(* resume, destroy), a Web reader (getReader, read, cancel), the methods   *)
(* that read the whole body (text, json, arrayBuffer, blob) and clone, all *)
(* over one StreamReader, in tasks of the event loop.                      *)
(* enhance_modules/fetch_enhancement.go.                                   *)
(*                                                                         *)
(* Of the data only the number of bytes is kept.                           *)
(***************************************************************************)
EXTENDS Integers, Sequences, FiniteSets, FiniteSetsExt

CONSTANTS Lengths,     \* numbers of bytes the server may send
          ChunkSize,   \* 64 KB
          Sizes,       \* what a script may pass to read
          MaxSize,     \* maxStreamSize, 0: none
          MaxBuffered, \* maxRespSize
          MaxCalls     \* bound: calls of the script

VARIABLES length, left, broken, \* the source: all its bytes, those not read yet; it fails from now on
          closed, reachedEOF, totalRead, \* StreamReader
          handlers, isPaused, isDestroyed, \* listeners of "data"; the Node stream
          tasks,               \* setImmediate: the queue of the loop
          buffering,           \* who reads the whole body now: "nobody", "text" or "clone"
          allData,             \* the bytes it has
          cache,               \* "none", "failed", or "whole"
          bodyUsed, copyUsed,  \* of the response; of its clone: "none", "fresh", "used"
          calls,               \* ghost: calls so far
          delivered,           \* ghost: bytes handed over in pieces
          kept, discarded,     \* ghosts: bytes of the cache; bytes a failed read of all has lost
          ended, extra         \* ghosts: ends the script has seen; data after the end

source == <<length, left, broken>>
reader == <<closed, reachedEOF, totalRead>>
node   == <<handlers, isPaused, isDestroyed>>
whole  == <<buffering, allData, cache, bodyUsed, copyUsed>>
seenByScript == <<delivered, kept, discarded, ended, extra>>
vars == <<source, reader, node, tasks, whole, calls, seenByScript>>

Init ==
  /\ length \in Lengths /\ left = length /\ broken = FALSE /\ closed = FALSE /\ reachedEOF = FALSE /\ totalRead = 0
  /\ handlers = 0 /\ isPaused = FALSE /\ isDestroyed = FALSE /\ tasks = <<>>
  /\ buffering = "nobody" /\ allData = 0 /\ cache = "none" /\ bodyUsed = FALSE /\ copyUsed = "none"
  /\ calls = 0 /\ delivered = 0 /\ kept = 0 /\ discarded = 0 /\ ended = 0 /\ extra = FALSE

-----------------------------------------------------------------------------
\* StreamReader.Read: data, the end or an error, never two of them.

\* Mutant: a read is not cut to what the limit leaves.
WantAll(size) == size
Want(size) == IF MaxSize > 0 THEN Min({size, MaxSize - totalRead}) ELSE size
AtLimit == MaxSize > 0 /\ totalRead >= MaxSize

\* Mutant: data that comes with the end is the end.
EndWithData(n) == [kind |-> "end", n |-> n]
\* The source may tell the end with the last bytes or after them.
LastData(n) == [kind |-> "data", n |-> n]

\* ReadStep(size, Use(_)): one Read, whose result is handed to Use.
ReadStep(size, Use(_)) ==
  \/ /\ closed
     /\ Use([kind |-> "error", n |-> 0]) /\ UNCHANGED <<source, reader>>
  \/ /\ ~closed /\ reachedEOF
     /\ closed' = TRUE /\ Use([kind |-> "end", n |-> 0]) /\ UNCHANGED <<source, reachedEOF, totalRead>>
  \/ /\ ~closed /\ ~reachedEOF /\ AtLimit
     /\ closed' = TRUE /\ Use([kind |-> "error", n |-> 0]) /\ UNCHANGED <<source, reachedEOF, totalRead>>
  \/ /\ ~closed /\ ~reachedEOF /\ ~AtLimit /\ ~broken
     /\ \E n \in 1 .. Min({Want(size), left}), eof \in BOOLEAN :
          /\ eof => n = left
          /\ left' = left - n /\ totalRead' = totalRead + n /\ reachedEOF' = eof
          /\ Use(IF eof THEN LastData(n) ELSE [kind |-> "data", n |-> n])
     /\ UNCHANGED <<length, broken, closed>>
  \/ /\ ~closed /\ ~reachedEOF /\ ~AtLimit /\ ~broken /\ left = 0
     /\ reachedEOF' = TRUE /\ closed' = TRUE /\ Use([kind |-> "end", n |-> 0])
     /\ UNCHANGED <<source, totalRead>>
  \/ /\ ~closed /\ ~reachedEOF /\ ~AtLimit /\ broken
     /\ closed' = TRUE /\ Use([kind |-> "error", n |-> 0]) /\ UNCHANGED <<source, reachedEOF, totalRead>>

\* A timer of the body closes the source, or the connection fails.
Break == /\ ~broken /\ broken' = TRUE
         /\ UNCHANGED <<length, left, reader, node, tasks, whole, calls, seenByScript>>

-----------------------------------------------------------------------------
\* Calls of the script, between two tasks.

Call == buffering = "nobody" /\ calls < MaxCalls /\ calls' = calls + 1
Schedule(task) == tasks' = Append(tasks, task)

\* on, for "data": the first listener starts the reading.
On ==
  /\ Call /\ handlers < 2 /\ handlers' = handlers + 1
  /\ IF handlers = 0 THEN Schedule([do |-> "start"]) ELSE UNCHANGED tasks
  /\ UNCHANGED <<source, reader, isPaused, isDestroyed, whole, seenByScript>>
Pause ==
  /\ Call /\ isPaused' = TRUE
  /\ UNCHANGED <<source, reader, handlers, isDestroyed, tasks, whole, seenByScript>>
\* Resuming starts a chain of reads, also when one is on its way.
Resume ==
  /\ Call /\ isPaused /\ isPaused' = FALSE /\ Schedule([do |-> "start"])
  /\ UNCHANGED <<source, reader, handlers, isDestroyed, whole, seenByScript>>
\* destroy, and cancel of the body; cancel of a reader closes only the StreamReader.
Destroy ==
  /\ Call /\ closed' = TRUE /\ isDestroyed' \in {isDestroyed, TRUE}
  /\ UNCHANGED <<source, reachedEOF, totalRead, handlers, isPaused, tasks, whole, seenByScript>>
\* read of a reader.
Read ==
  /\ Call /\ \E size \in Sizes : Schedule([do |-> "read", size |-> size])
  /\ UNCHANGED <<source, reader, node, whole, seenByScript>>
\* text, json, arrayBuffer and blob: checkAndMarkBodyUsed, then a task.
Text ==
  /\ Call /\ bodyUsed' = TRUE
  /\ IF bodyUsed THEN UNCHANGED tasks ELSE Schedule([do |-> "text"])
  /\ UNCHANGED <<source, reader, node, buffering, allData, cache, copyUsed, seenByScript>>
\* clone reads the whole body at once and panics when that fails.
Clone ==
  /\ Call
  /\ IF cache = "none" THEN buffering' = "clone" /\ UNCHANGED copyUsed
     ELSE UNCHANGED buffering /\ copyUsed' = IF cache = "whole" THEN "fresh" ELSE copyUsed
  /\ UNCHANGED <<source, reader, node, tasks, allData, cache, bodyUsed, seenByScript>>
\* The methods of the clone, which has the bytes; json marks it used only if it is JSON.
CopyText ==
  /\ Call /\ copyUsed = "fresh" /\ copyUsed' \in {"fresh", "used"}
  /\ UNCHANGED <<source, reader, node, tasks, buffering, allData, cache, bodyUsed, seenByScript>>

-----------------------------------------------------------------------------
\* Tasks, one at a time.

Task(do) == /\ buffering = "nobody" /\ tasks # <<>> /\ Head(tasks).do = do
Reading  == ~isPaused /\ ~isDestroyed /\ handlers > 0

\* startNodeStreamReading: readNext.
Start ==
  /\ Task("start")
  /\ tasks' = IF Reading THEN Append(Tail(tasks), [do |-> "chunk"]) ELSE Tail(tasks)
  /\ UNCHANGED <<source, reader, node, whole, calls, seenByScript>>

Deliver(r) ==
  /\ delivered' = delivered + (IF r.kind = "data" THEN r.n ELSE 0)
  /\ ended' = ended + (IF r.kind = "end" THEN 1 ELSE 0)
  /\ extra' = (extra \/ (r.kind = "data" /\ ended > 0))
  /\ UNCHANGED <<kept, discarded>>

\* The task of readNext: events, and the next read unless a listener has paused the stream. A
\* pause or a destroy since it was scheduled does not keep it from reading.
Chunk ==
  /\ Task("chunk")
  /\ isPaused' \in {isPaused, TRUE}
  /\ LET Use(r) == /\ Deliver(r)
                   /\ tasks' = IF r.kind = "data" /\ ~isPaused' /\ ~isDestroyed
                               THEN Append(Tail(tasks), [do |-> "chunk"]) ELSE Tail(tasks)
     IN ReadStep(ChunkSize, Use)
  /\ UNCHANGED <<handlers, isDestroyed, whole, calls>>

ReaderRead ==
  /\ Task("read") /\ tasks' = Tail(tasks)
  /\ ReadStep(Head(tasks).size, Deliver)
  /\ UNCHANGED <<node, whole, calls>>

\* getResponseData: the first one reads, the others have what it got.
GetResponseData ==
  /\ Task("text") /\ tasks' = Tail(tasks)
  /\ buffering' = IF cache = "none" THEN "text" ELSE buffering
  /\ UNCHANGED <<source, reader, node, allData, cache, bodyUsed, copyUsed, calls, seenByScript>>

Finish(outcome) ==
  /\ buffering' = "nobody" /\ cache' = outcome
  /\ copyUsed' = IF buffering = "clone" /\ outcome = "whole" THEN "fresh" ELSE copyUsed
  /\ allData' = 0 /\ UNCHANGED bodyUsed

\* readAllDataWithLimit: one read of its loop. A refused read leaves the stream as it is.
ReadAll ==
  /\ buffering # "nobody"
  /\ LET Use(r) ==
           \/ /\ r.kind = "data" /\ allData + r.n > MaxBuffered
              /\ Finish("failed") /\ discarded' = discarded + allData + r.n /\ UNCHANGED kept
           \/ /\ r.kind = "data" /\ allData + r.n <= MaxBuffered
              /\ allData' = allData + r.n
              /\ UNCHANGED <<buffering, cache, bodyUsed, copyUsed, kept, discarded>>
           \/ r.kind = "end" /\ Finish("whole") /\ kept' = allData /\ UNCHANGED discarded
           \/ /\ r.kind = "error"
              /\ Finish("failed") /\ discarded' = discarded + allData /\ UNCHANGED kept
     IN ReadStep(ChunkSize, Use)
  /\ UNCHANGED <<node, tasks, calls, delivered, ended, extra>>

Next == \/ Break
        \/ On \/ Pause \/ Resume \/ Destroy \/ Read \/ Text \/ Clone \/ CopyText
        \/ Start \/ Chunk \/ ReaderRead \/ GetResponseData \/ ReadAll

-----------------------------------------------------------------------------
\* However a script mixes the ways to read, an end is never told before every byte the server sent
\* has reached the script, in pieces or as a whole, unless a read of the whole body failed and the
\* script was told so; and no data follows an end.
EndMeansAll ==
  /\ ended > 0 /\ discarded = 0 => delivered + kept = length
  /\ cache = "whole" => delivered + kept = length
  /\ ~extra

\* What a script receives stays within the two limits, across all the ways it reads.
WithinLimits ==
  /\ MaxSize > 0 => delivered + kept + allData <= MaxSize
  /\ kept <= MaxBuffered /\ allData <= MaxBuffered
=============================================================================
