--------------------------- MODULE RequestsTheorems ---------------------------
(***************************************************************************)
(* What the checks of Requests show on small instances, for every value of *)
(* the constants: the invariants of the bodies, the forms, the uploads, the *)
(* limiter and the codes, and the theorems from these.                     *)
(***************************************************************************)
EXTENDS Requests, SumTheorems, SequenceTheorems

-----------------------------------------------------------------------------
(***************************************************************************)
(* ResponseBody. Every byte is in one place: not read yet, handed over, in *)
(* the buffer, in the cache, or lost by a read of all that failed; and an  *)
(* end is told when nothing is left.                                       *)
(***************************************************************************)

BodyTasks == [do : {"start", "chunk", "text"}] \cup [do : {"read"}, size : ReadSizes]

BodyTyped ==
  /\ body_length \in Nat /\ body_left \in Nat /\ body_totalRead \in Nat
  /\ body_delivered \in Nat /\ body_kept \in Nat /\ body_allData \in Nat /\ body_discarded \in Nat
  /\ body_ended \in Nat /\ body_closed \in BOOLEAN /\ body_reachedEOF \in BOOLEAN /\ body_extra = FALSE
  /\ body_tasks \in Seq(BodyTasks)

BodyAccounted ==
  /\ body_left + body_delivered + body_kept + body_allData + body_discarded = body_length
  /\ body_totalRead + body_left = body_length
  /\ MaxSize > 0 => body_totalRead <= MaxSize
  /\ body_kept <= MaxBody /\ body_allData <= MaxBody

BodyEnds ==
  /\ body_reachedEOF = TRUE => body_left = 0
  /\ body_ended > 0 => body_closed = TRUE /\ body_left = 0 /\ body_allData = 0
  /\ body_cache # "whole" => body_kept = 0
  /\ body_cache # "failed" => body_discarded = 0
  /\ body_cache = "whole" => body_left = 0
  /\ body_buffering # "nobody" => body_cache = "none"
  /\ body_buffering = "nobody" => body_allData = 0

BodyInv == BodyTyped /\ BodyAccounted /\ BodyEnds

(* The lesser of two numbers.                                                *)
LEMMA BodyLesser ==
  ASSUME NEW a \in Int, NEW b \in Int
  PROVE  Body!Min({a, b}) = IF a <= b THEN a ELSE b
BY DEF Body!Min

(* What a read of the stream may be: an error, the end, or data.             *)
ReadError == /\ UNCHANGED <<body_length, body_left, body_broken, body_reachedEOF, body_totalRead>>
             /\ body_closed' = TRUE
ReadEnds  == /\ UNCHANGED <<body_length, body_left, body_broken, body_totalRead>>
             /\ body_reachedEOF' \in BOOLEAN
             /\ body_closed = FALSE /\ body_closed' = TRUE
             /\ body_reachedEOF = TRUE \/ body_left = 0
ReadData(size, n) ==
  /\ UNCHANGED <<body_length, body_broken, body_closed>>
  /\ body_closed = FALSE /\ body_reachedEOF = FALSE /\ ~Body!AtLimit
  /\ n \in 1 .. Body!Min({Body!Want(size), body_left})
  /\ body_left' = body_left - n /\ body_totalRead' = body_totalRead + n
  /\ body_reachedEOF' \in BOOLEAN /\ (body_reachedEOF' = TRUE => n = body_left)

(* Data comes within what is left and within the limit.                      *)
LEMMA DataFits ==
  ASSUME BodyInv, NEW size \in Nat, NEW n, ReadData(size, n)
  PROVE  /\ n \in Nat /\ n >= 1 /\ body_left' \in Nat /\ body_left' = body_left - n
         /\ body_totalRead' \in Nat /\ body_totalRead' = body_totalRead + n
         /\ MaxSize > 0 => body_totalRead' <= MaxSize
         /\ body_reachedEOF' \in BOOLEAN /\ (body_reachedEOF' = TRUE => body_left' = 0)
<1>1. body_left \in Nat /\ body_totalRead \in Nat /\ MaxSize \in Nat /\ (MaxSize > 0 => body_totalRead <= MaxSize)
  BY BodyAssumption DEF BodyInv, BodyTyped, BodyAccounted
<1>2. Body!Want(size) \in Int /\ (MaxSize > 0 => Body!Want(size) <= MaxSize - body_totalRead)
  <2>1. MaxSize - body_totalRead \in Int
    BY <1>1
  <2>2. Body!Min({size, MaxSize - body_totalRead}) = IF size <= MaxSize - body_totalRead THEN size ELSE MaxSize - body_totalRead
    BY <2>1, BodyLesser
  <2> QED
    BY <1>1, <2>1, <2>2 DEF Body!Want
<1>3. n \in Int /\ n >= 1 /\ n <= body_left /\ n <= Body!Want(size)
  <2>1. Body!Min({Body!Want(size), body_left}) = IF Body!Want(size) <= body_left THEN Body!Want(size) ELSE body_left
    BY <1>1, <1>2, BodyLesser
  <2> QED
    BY <1>1, <1>2, <2>1 DEF ReadData
<1>4. /\ body_left' = body_left - n /\ body_totalRead' = body_totalRead + n
      /\ body_reachedEOF' \in BOOLEAN /\ (body_reachedEOF' = TRUE => n = body_left)
  BY DEF ReadData
<1> QED
  BY <1>1, <1>2, <1>3, <1>4

(* Nothing is read at first.                                                 *)
LEMMA BodyInit == Body!Init => BodyInv
<1> SUFFICES ASSUME Body!Init PROVE BodyInv
  OBVIOUS
<1>1. <<>> \in Seq(BodyTasks)
  BY EmptySeq
<1>2. BodyTyped
  BY <1>1, BodyAssumption DEF Body!Init, BodyTyped
<1>3. BodyAccounted
  BY BodyAssumption DEF Body!Init, BodyAccounted
<1>4. BodyEnds
  BY DEF Body!Init, BodyEnds
<1> QED
  BY <1>2, <1>3, <1>4 DEF BodyInv

(* Tasks that are added and taken.                                           *)
LEMMA TasksChange ==
  ASSUME BodyInv
  PROVE  /\ \A do \in {"start", "chunk", "text"} : Append(body_tasks, [do |-> do]) \in Seq(BodyTasks)
         /\ \A size \in ReadSizes : Append(body_tasks, [do |-> "read", size |-> size]) \in Seq(BodyTasks)
         /\ body_tasks # <<>> =>
              /\ Tail(body_tasks) \in Seq(BodyTasks)
              /\ Append(Tail(body_tasks), [do |-> "chunk"]) \in Seq(BodyTasks)
              /\ Head(body_tasks).do = "read" => Head(body_tasks).size \in ReadSizes
<1>1. body_tasks \in Seq(BodyTasks)
  BY DEF BodyInv, BodyTyped
<1>2. /\ \A do \in {"start", "chunk", "text"} : [do |-> do] \in BodyTasks
      /\ \A size \in ReadSizes : [do |-> "read", size |-> size] \in BodyTasks
  BY DEF BodyTasks
<1>3. ASSUME body_tasks # <<>>
      PROVE  Tail(body_tasks) \in Seq(BodyTasks) /\ Head(body_tasks) \in BodyTasks
  BY <1>1, <1>3, HeadTailProperties
<1>4. \A task \in BodyTasks : task.do = "read" => task.size \in ReadSizes
  BY DEF BodyTasks
<1> QED
  BY <1>1, <1>2, <1>3, <1>4, AppendProperties

(* A step in which nothing is read and nobody reads all.                     *)
LEMMA BodyAside ==
  ASSUME BodyInv, body_tasks' \in Seq(BodyTasks), body_buffering = "nobody",
         body_closed' \in {body_closed, TRUE},
         UNCHANGED <<body_length, body_left, body_reachedEOF, body_totalRead, body_allData, body_cache,
                     body_delivered, body_kept, body_discarded, body_ended, body_extra>>,
         body_buffering' = "nobody" \/ body_cache = "none"
  PROVE  BodyInv'
<1>1. BodyTyped'
  BY DEF BodyInv, BodyTyped
<1>2. BodyAccounted'
  BY DEF BodyInv, BodyAccounted
<1>3. BodyEnds'
  BY DEF BodyInv, BodyTyped, BodyEnds
<1> QED
  BY <1>1, <1>2, <1>3 DEF BodyInv

(* The calls of a script schedule tasks, or close the stream.                *)
LEMMA BodyCalled ==
  ASSUME BodyInv, Body!On \/ Body!Pause \/ Body!Resume \/ Body!Destroy \/ Body!Read \/ Body!Text \/ Body!Clone \/ Body!CopyText
  PROVE  BodyInv'
<1>1. body_buffering = "nobody"
  BY DEF Body!On, Body!Pause, Body!Resume, Body!Destroy, Body!Read, Body!Text, Body!Clone, Body!CopyText, Body!Call
<1>2. /\ body_closed' \in {body_closed, TRUE}
      /\ UNCHANGED <<body_length, body_left, body_reachedEOF, body_totalRead, body_allData, body_cache,
                     body_delivered, body_kept, body_discarded, body_ended, body_extra>>
  BY DEF Body!On, Body!Pause, Body!Resume, Body!Destroy, Body!Read, Body!Text, Body!Clone, Body!CopyText,
         Body!source, Body!reader, Body!node, Body!whole, Body!seenByScript
<1>3. body_buffering' = "nobody" \/ body_cache = "none"
  BY <1>1 DEF Body!On, Body!Pause, Body!Resume, Body!Destroy, Body!Read, Body!Text, Body!Clone, Body!CopyText, Body!whole
<1>4. body_tasks' \in Seq(BodyTasks)
  <2>1. \/ body_tasks' = body_tasks
        \/ \E do \in {"start", "chunk", "text"} : body_tasks' = Append(body_tasks, [do |-> do])
        \/ \E size \in ReadSizes : body_tasks' = Append(body_tasks, [do |-> "read", size |-> size])
    BY DEF Body!On, Body!Pause, Body!Resume, Body!Destroy, Body!Read, Body!Text, Body!Clone, Body!CopyText, Body!Schedule
  <2>2. body_tasks \in Seq(BodyTasks)
    BY DEF BodyInv, BodyTyped
  <2> QED
    BY <2>1, <2>2, TasksChange
<1> QED
  BY <1>1, <1>2, <1>3, <1>4, BodyAside

(* A piece that is read and handed to the script.                            *)
LEMMA BodyDelivers ==
  ASSUME BodyInv, body_buffering = "nobody", body_tasks' \in Seq(BodyTasks), NEW size \in Nat,
         UNCHANGED <<body_allData, body_cache, body_buffering, body_kept, body_discarded>>,
         \/ ReadError /\ UNCHANGED <<body_delivered, body_ended, body_extra>>
         \/ ReadEnds /\ body_ended' = body_ended + 1 /\ UNCHANGED <<body_delivered, body_extra>>
         \/ \E n : /\ ReadData(size, n) /\ body_delivered' = body_delivered + n
                   /\ body_ended' = body_ended /\ body_extra' = (body_extra \/ body_ended > 0)
  PROVE  BodyInv'
<1>1. CASE ReadError /\ UNCHANGED <<body_delivered, body_ended, body_extra>>
  <2>1. UNCHANGED <<body_length, body_left, body_reachedEOF, body_totalRead>> /\ body_closed' = TRUE
    BY <1>1 DEF ReadError
  <2> QED
    BY <1>1, <2>1, BodyAside
<1>2. CASE ReadEnds /\ body_ended' = body_ended + 1 /\ UNCHANGED <<body_delivered, body_extra>>
  <2>1. /\ UNCHANGED <<body_length, body_left, body_totalRead>> /\ body_closed' = TRUE
        /\ body_reachedEOF = TRUE \/ body_left = 0
        /\ body_reachedEOF' \in BOOLEAN
    BY <1>2 DEF ReadEnds
  <2>2. body_left = 0
    BY <2>1 DEF BodyInv, BodyEnds
  <2>3. BodyTyped'
    BY <1>2, <2>1 DEF BodyInv, BodyTyped
  <2>4. BodyAccounted'
    BY <1>2, <2>1 DEF BodyInv, BodyAccounted
  <2>5. BodyEnds'
    BY <1>2, <2>1, <2>2 DEF BodyInv, BodyEnds
  <2> QED
    BY <2>3, <2>4, <2>5 DEF BodyInv
<1>3. CASE \E n : /\ ReadData(size, n) /\ body_delivered' = body_delivered + n
                  /\ body_ended' = body_ended /\ body_extra' = (body_extra \/ body_ended > 0)
  <2>1. PICK n : /\ ReadData(size, n) /\ body_delivered' = body_delivered + n
                 /\ body_ended' = body_ended /\ body_extra' = (body_extra \/ body_ended > 0)
    BY <1>3
  <2>2. /\ n \in Nat /\ n >= 1 /\ body_left' \in Nat /\ body_left' = body_left - n
        /\ body_totalRead' \in Nat /\ body_totalRead' = body_totalRead + n
        /\ MaxSize > 0 => body_totalRead' <= MaxSize
        /\ body_reachedEOF' \in BOOLEAN /\ (body_reachedEOF' = TRUE => body_left' = 0)
    BY <2>1, DataFits
  <2>3. body_closed = FALSE /\ UNCHANGED <<body_length, body_closed>>
    BY <2>1 DEF ReadData
  <2>4. body_ended \in Nat /\ ~(body_ended > 0) /\ body_extra = FALSE
    BY <2>3 DEF BodyInv, BodyTyped, BodyEnds
  <2>5. body_extra' = FALSE
    BY <2>1, <2>4
  <2>6. BodyTyped'
    BY <2>1, <2>2, <2>3, <2>5 DEF BodyInv, BodyTyped
  <2>7. BodyAccounted'
    BY <2>1, <2>2, <2>3 DEF BodyInv, BodyTyped, BodyAccounted
  <2>8. body_cache = "whole" => body_left' = 0
    BY <2>2 DEF BodyInv, BodyTyped, BodyEnds
  <2>9. BodyEnds'
    BY <2>1, <2>2, <2>4, <2>8 DEF BodyInv, BodyEnds
  <2> QED
    BY <2>6, <2>7, <2>9 DEF BodyInv
<1> QED
  BY <1>1, <1>2, <1>3

(* A read whose result is delivered.                                         *)
Delivered(size) ==
  \/ body_closed /\ Body!Deliver([kind |-> "error", n |-> 0]) /\ UNCHANGED <<Body!source, Body!reader>>
  \/ /\ ~body_closed /\ body_reachedEOF /\ body_closed' = TRUE
     /\ Body!Deliver([kind |-> "end", n |-> 0]) /\ UNCHANGED <<Body!source, body_reachedEOF, body_totalRead>>
  \/ /\ ~body_closed /\ body_closed' = TRUE
     /\ Body!Deliver([kind |-> "error", n |-> 0]) /\ UNCHANGED <<Body!source, body_reachedEOF, body_totalRead>>
  \/ /\ ~body_closed /\ ~body_reachedEOF /\ ~Body!AtLimit
     /\ \E n \in 1 .. Body!Min({Body!Want(size), body_left}), eof \in BOOLEAN :
          /\ eof => n = body_left
          /\ body_left' = body_left - n /\ body_totalRead' = body_totalRead + n /\ body_reachedEOF' = eof
          /\ Body!Deliver([kind |-> "data", n |-> n])
     /\ UNCHANGED <<body_length, body_broken, body_closed>>
  \/ /\ ~body_closed /\ body_left = 0 /\ body_reachedEOF' = TRUE /\ body_closed' = TRUE
     /\ Body!Deliver([kind |-> "end", n |-> 0]) /\ UNCHANGED <<Body!source, body_totalRead>>

(* What a delivery does to the counts of what was handed over.               *)
LEMMA DeliveredIs ==
  ASSUME BodyInv, NEW size \in Nat, Delivered(size)
  PROVE  \/ ReadError /\ UNCHANGED <<body_delivered, body_ended, body_extra>>
         \/ ReadEnds /\ body_ended' = body_ended + 1 /\ UNCHANGED <<body_delivered, body_extra>>
         \/ \E n : /\ ReadData(size, n) /\ body_delivered' = body_delivered + n
                   /\ body_ended' = body_ended /\ body_extra' = (body_extra \/ body_ended > 0)
<1>1. /\ body_closed \in BOOLEAN /\ body_reachedEOF \in BOOLEAN /\ body_extra = FALSE
      /\ body_ended \in Nat /\ body_delivered \in Nat
  BY DEF BodyInv, BodyTyped
<1>2. Body!Deliver([kind |-> "error", n |-> 0]) => UNCHANGED <<body_delivered, body_ended, body_extra>>
  <2> SUFFICES ASSUME Body!Deliver([kind |-> "error", n |-> 0]) PROVE UNCHANGED <<body_delivered, body_ended, body_extra>>
    OBVIOUS
  <2>1. body_extra' = (body_extra \/ ("error" = "data" /\ body_ended > 0))
    BY DEF Body!Deliver
  <2>2. (body_extra \/ ("error" = "data" /\ body_ended > 0)) = FALSE
    BY <1>1
  <2>3. body_extra' = FALSE
    BY <2>1, <2>2
  <2>4. /\ body_delivered' = body_delivered + (IF "error" = "data" THEN 0 ELSE 0)
        /\ body_ended' = body_ended + (IF "error" = "end" THEN 1 ELSE 0)
    BY DEF Body!Deliver
  <2>5. body_extra' = body_extra
    BY <1>1, <2>3
  <2>6. body_ended \in Nat /\ body_delivered \in Nat
    BY <1>1
  <2> QED
    BY <2>4, <2>5, <2>6
<1>3. Body!Deliver([kind |-> "end", n |-> 0]) => body_ended' = body_ended + 1 /\ UNCHANGED <<body_delivered, body_extra>>
  <2> SUFFICES ASSUME Body!Deliver([kind |-> "end", n |-> 0]) PROVE body_ended' = body_ended + 1 /\ UNCHANGED <<body_delivered, body_extra>>
    OBVIOUS
  <2>1. body_extra' = (body_extra \/ ("end" = "data" /\ body_ended > 0))
    BY DEF Body!Deliver
  <2>2. (body_extra \/ ("end" = "data" /\ body_ended > 0)) = FALSE
    BY <1>1
  <2>3. body_extra' = FALSE
    BY <2>1, <2>2
  <2>4. /\ body_delivered' = body_delivered + (IF "end" = "data" THEN 0 ELSE 0)
        /\ body_ended' = body_ended + (IF "end" = "end" THEN 1 ELSE 0)
    BY DEF Body!Deliver
  <2>5. body_extra' = body_extra
    BY <1>1, <2>3
  <2>6. body_ended \in Nat /\ body_delivered \in Nat
    BY <1>1
  <2> QED
    BY <2>4, <2>5, <2>6
<1>4. \A n : Body!Deliver([kind |-> "data", n |-> n]) =>
        /\ body_delivered' = body_delivered + n /\ body_ended' = body_ended
        /\ body_extra' = (body_extra \/ body_ended > 0)
  BY <1>1 DEF Body!Deliver
<1>5. CASE body_closed /\ Body!Deliver([kind |-> "error", n |-> 0]) /\ UNCHANGED <<Body!source, Body!reader>>
  BY <1>1, <1>2, <1>5 DEF ReadError, Body!source, Body!reader
<1>6. CASE /\ ~body_closed /\ body_reachedEOF /\ body_closed' = TRUE
           /\ Body!Deliver([kind |-> "end", n |-> 0]) /\ UNCHANGED <<Body!source, body_reachedEOF, body_totalRead>>
  BY <1>1, <1>3, <1>6 DEF ReadEnds, Body!source
<1>7. CASE /\ ~body_closed /\ body_closed' = TRUE
           /\ Body!Deliver([kind |-> "error", n |-> 0]) /\ UNCHANGED <<Body!source, body_reachedEOF, body_totalRead>>
  BY <1>2, <1>7 DEF ReadError, Body!source
<1>8. CASE /\ ~body_closed /\ ~body_reachedEOF /\ ~Body!AtLimit
           /\ \E n \in 1 .. Body!Min({Body!Want(size), body_left}), eof \in BOOLEAN :
                /\ eof => n = body_left
                /\ body_left' = body_left - n /\ body_totalRead' = body_totalRead + n /\ body_reachedEOF' = eof
                /\ Body!Deliver([kind |-> "data", n |-> n])
           /\ UNCHANGED <<body_length, body_broken, body_closed>>
  <2>1. PICK n \in 1 .. Body!Min({Body!Want(size), body_left}), eof \in BOOLEAN :
                /\ eof => n = body_left
                /\ body_left' = body_left - n /\ body_totalRead' = body_totalRead + n /\ body_reachedEOF' = eof
                /\ Body!Deliver([kind |-> "data", n |-> n])
    BY <1>8
  <2>2. ReadData(size, n)
    BY <1>1, <1>8, <2>1 DEF ReadData
  <2> QED
    BY <1>4, <2>1, <2>2
<1>9. CASE /\ ~body_closed /\ body_left = 0 /\ body_reachedEOF' = TRUE /\ body_closed' = TRUE
           /\ Body!Deliver([kind |-> "end", n |-> 0]) /\ UNCHANGED <<Body!source, body_totalRead>>
  BY <1>1, <1>3, <1>9 DEF ReadEnds, Body!source
<1> QED
  BY <1>5, <1>6, <1>7, <1>8, <1>9 DEF Delivered

(* The tasks of the Node stream and of a reader.                             *)
LEMMA BodyChunk ==
  ASSUME BodyInv, Body!Chunk \/ Body!ReaderRead
  PROVE  BodyInv'
<1>1. CASE Body!Chunk
  <2>1. /\ body_buffering = "nobody" /\ body_tasks # <<>>
        /\ UNCHANGED <<body_allData, body_cache, body_buffering>>
    BY <1>1 DEF Body!Chunk, Body!Task, Body!whole
  <2>2. Delivered(ChunkSize)
    BY <1>1 DEF Body!Chunk, Body!ReadStep, Body!LastData, Delivered
  <2>3. UNCHANGED <<body_kept, body_discarded>>
    BY <2>2 DEF Delivered, Body!Deliver
  <2>4. body_tasks' \in {Tail(body_tasks), Append(Tail(body_tasks), [do |-> "chunk"])}
    BY <1>1 DEF Body!Chunk, Body!ReadStep
  <2>5. body_tasks' \in Seq(BodyTasks)
    BY <2>1, <2>4, TasksChange
  <2>6. ChunkSize \in Nat
    BY BodyAssumption
  <2> QED
    BY <2>1, <2>2, <2>3, <2>5, <2>6, DeliveredIs, BodyDelivers
<1>2. CASE Body!ReaderRead
  <2>1. /\ body_buffering = "nobody" /\ body_tasks # <<>> /\ Head(body_tasks).do = "read"
        /\ body_tasks' = Tail(body_tasks)
        /\ UNCHANGED <<body_allData, body_cache, body_buffering>>
    BY <1>2 DEF Body!ReaderRead, Body!Task, Body!whole
  <2>2. PICK size : size = Head(body_tasks).size
    OBVIOUS
  <2>3. Delivered(size)
    BY <1>2, <2>2 DEF Body!ReaderRead, Body!ReadStep, Body!LastData, Delivered
  <2>4. UNCHANGED <<body_kept, body_discarded>>
    BY <2>3 DEF Delivered, Body!Deliver
  <2>5. body_tasks' \in Seq(BodyTasks) /\ size \in Nat
    BY <2>1, <2>2, TasksChange, BodyAssumption
  <2> QED
    BY <2>1, <2>3, <2>4, <2>5, DeliveredIs, BodyDelivers
<1> QED
  BY <1>1, <1>2

(* What reading all does with a read.                                        *)
AllUse(r) ==
  \/ /\ r.kind = "data" /\ body_allData + r.n > MaxBody
     /\ Body!Finish("failed") /\ body_discarded' = body_discarded + body_allData + r.n /\ UNCHANGED body_kept
  \/ /\ r.kind = "data" /\ body_allData + r.n <= MaxBody
     /\ body_allData' = body_allData + r.n
     /\ UNCHANGED <<body_buffering, body_cache, body_bodyUsed, body_copyUsed, body_kept, body_discarded>>
  \/ r.kind = "end" /\ Body!Finish("whole") /\ body_kept' = body_allData /\ UNCHANGED body_discarded
  \/ /\ r.kind = "error"
     /\ Body!Finish("failed") /\ body_discarded' = body_discarded + body_allData /\ UNCHANGED body_kept

(* Reading all: what a read adds to the buffer, and how it ends.             *)
LEMMA BodyReadsAll ==
  ASSUME BodyInv, Body!ReadAll
  PROVE  BodyInv'
<1>1. /\ body_buffering # "nobody" /\ UNCHANGED <<body_tasks, body_delivered, body_ended, body_extra>>
  BY DEF Body!ReadAll
<1>2. /\ body_closed \in BOOLEAN /\ body_reachedEOF \in BOOLEAN /\ body_allData \in Nat /\ body_left \in Nat
      /\ body_kept = 0 /\ body_discarded = 0 /\ body_cache = "none" /\ body_ended \in Nat
  BY <1>1 DEF BodyInv, BodyTyped, BodyEnds
<1>3. CASE /\ ReadError /\ body_buffering' = "nobody" /\ body_cache' = "failed" /\ body_allData' = 0
           /\ body_discarded' = body_discarded + body_allData /\ body_kept' = body_kept
  <2>1. UNCHANGED <<body_length, body_left, body_reachedEOF, body_totalRead>> /\ body_closed' = TRUE
    BY <1>3 DEF ReadError
  <2>2. BodyTyped'
    BY <1>1, <1>2, <1>3, <2>1 DEF BodyInv, BodyTyped
  <2>3. BodyAccounted'
    BY <1>1, <1>2, <1>3, <2>1, BodyAssumption DEF BodyInv, BodyAccounted, BodyTyped
  <2>4. BodyEnds'
    BY <1>1, <1>2, <1>3, <2>1 DEF BodyInv, BodyEnds
  <2> QED
    BY <2>2, <2>3, <2>4 DEF BodyInv
<1>4. CASE /\ ReadEnds /\ body_buffering' = "nobody" /\ body_cache' = "whole" /\ body_allData' = 0
           /\ body_kept' = body_allData /\ body_discarded' = body_discarded
  <2>1. /\ UNCHANGED <<body_length, body_left, body_totalRead>> /\ body_closed' = TRUE
        /\ body_reachedEOF' \in BOOLEAN /\ (body_reachedEOF = TRUE \/ body_left = 0)
    BY <1>4 DEF ReadEnds
  <2>2. body_left = 0
    BY <2>1 DEF BodyInv, BodyEnds
  <2>3. BodyTyped'
    BY <1>1, <1>2, <1>4, <2>1 DEF BodyInv, BodyTyped
  <2>4. BodyAccounted'
    BY <1>1, <1>2, <1>4, <2>1, BodyAssumption DEF BodyInv, BodyAccounted, BodyTyped
  <2>5. BodyEnds'
    BY <1>1, <1>2, <1>4, <2>1, <2>2 DEF BodyInv, BodyEnds
  <2> QED
    BY <2>3, <2>4, <2>5 DEF BodyInv
<1>5. ASSUME NEW n, ReadData(ChunkSize, n),
             \/ /\ body_allData + n > MaxBody /\ body_buffering' = "nobody" /\ body_cache' = "failed"
                /\ body_allData' = 0 /\ body_discarded' = body_discarded + body_allData + n /\ body_kept' = body_kept
             \/ /\ body_allData + n <= MaxBody /\ body_allData' = body_allData + n
                /\ UNCHANGED <<body_buffering, body_cache, body_kept, body_discarded>>
      PROVE  BodyInv'
  <2>1. /\ n \in Nat /\ n >= 1 /\ body_left' \in Nat /\ body_left' = body_left - n
        /\ body_totalRead' \in Nat /\ body_totalRead' = body_totalRead + n
        /\ MaxSize > 0 => body_totalRead' <= MaxSize
        /\ body_reachedEOF' \in BOOLEAN /\ (body_reachedEOF' = TRUE => body_left' = 0)
    BY <1>5, DataFits, BodyAssumption
  <2>2. body_closed = FALSE /\ UNCHANGED <<body_length, body_closed>>
    BY <1>5 DEF ReadData
  <2>3. ~(body_ended > 0)
    BY <2>2 DEF BodyInv, BodyEnds
  <2>4. MaxBody \in Nat
    BY BodyAssumption
  <2>5. BodyTyped'
    BY <1>1, <1>2, <1>5, <2>1, <2>2 DEF BodyInv, BodyTyped
  <2>6. BodyAccounted'
    BY <1>1, <1>2, <1>5, <2>1, <2>2, <2>4 DEF BodyInv, BodyAccounted, BodyTyped
  <2>7. BodyEnds'
    BY <1>1, <1>2, <1>5, <2>1, <2>2, <2>3 DEF BodyInv, BodyEnds
  <2> QED
    BY <2>5, <2>6, <2>7 DEF BodyInv
<1> DEFINE Fails(lost) == /\ body_buffering' = "nobody" /\ body_cache' = "failed" /\ body_allData' = 0
                          /\ body_discarded' = lost /\ body_kept' = body_kept
           Ends == /\ body_buffering' = "nobody" /\ body_cache' = "whole" /\ body_allData' = 0
                   /\ body_kept' = body_allData /\ body_discarded' = body_discarded
<1>6. \/ body_closed /\ Fails(body_discarded + body_allData) /\ UNCHANGED <<Body!source, Body!reader>>
      \/ /\ ~body_closed /\ body_reachedEOF /\ body_closed' = TRUE
         /\ Ends /\ UNCHANGED <<Body!source, body_reachedEOF, body_totalRead>>
      \/ /\ ~body_closed /\ body_closed' = TRUE
         /\ Fails(body_discarded + body_allData) /\ UNCHANGED <<Body!source, body_reachedEOF, body_totalRead>>
      \/ /\ ~body_closed /\ ~body_reachedEOF /\ ~Body!AtLimit
         /\ \E n \in 1 .. Body!Min({Body!Want(ChunkSize), body_left}), eof \in BOOLEAN :
              /\ eof => n = body_left
              /\ body_left' = body_left - n /\ body_totalRead' = body_totalRead + n /\ body_reachedEOF' = eof
              /\ \/ body_allData + n > MaxBody /\ Fails(body_discarded + body_allData + n)
                 \/ /\ body_allData + n <= MaxBody /\ body_allData' = body_allData + n
                    /\ UNCHANGED <<body_buffering, body_cache, body_kept, body_discarded>>
         /\ UNCHANGED <<body_length, body_broken, body_closed>>
      \/ /\ ~body_closed /\ body_left = 0 /\ body_reachedEOF' = TRUE /\ body_closed' = TRUE
         /\ Ends /\ UNCHANGED <<Body!source, body_totalRead>>
  <2>1. \/ body_closed /\ AllUse([kind |-> "error", n |-> 0]) /\ UNCHANGED <<Body!source, Body!reader>>
        \/ /\ ~body_closed /\ body_reachedEOF /\ body_closed' = TRUE
           /\ AllUse([kind |-> "end", n |-> 0]) /\ UNCHANGED <<Body!source, body_reachedEOF, body_totalRead>>
        \/ /\ ~body_closed /\ body_closed' = TRUE
           /\ AllUse([kind |-> "error", n |-> 0]) /\ UNCHANGED <<Body!source, body_reachedEOF, body_totalRead>>
        \/ /\ ~body_closed /\ ~body_reachedEOF /\ ~Body!AtLimit
           /\ \E n \in 1 .. Body!Min({Body!Want(ChunkSize), body_left}), eof \in BOOLEAN :
                /\ eof => n = body_left
                /\ body_left' = body_left - n /\ body_totalRead' = body_totalRead + n /\ body_reachedEOF' = eof
                /\ AllUse([kind |-> "data", n |-> n])
           /\ UNCHANGED <<body_length, body_broken, body_closed>>
        \/ /\ ~body_closed /\ body_left = 0 /\ body_reachedEOF' = TRUE /\ body_closed' = TRUE
           /\ AllUse([kind |-> "end", n |-> 0]) /\ UNCHANGED <<Body!source, body_totalRead>>
    BY DEF Body!ReadAll, Body!ReadStep, Body!LastData, AllUse
  <2>2. AllUse([kind |-> "error", n |-> 0]) => Fails(body_discarded + body_allData)
    BY DEF AllUse, Body!Finish
  <2>3. AllUse([kind |-> "end", n |-> 0]) => Ends
    BY DEF AllUse, Body!Finish
  <2>4. ASSUME NEW n \in Int, AllUse([kind |-> "data", n |-> n])
        PROVE  \/ body_allData + n > MaxBody /\ Fails(body_discarded + body_allData + n)
               \/ /\ body_allData + n <= MaxBody /\ body_allData' = body_allData + n
                  /\ UNCHANGED <<body_buffering, body_cache, body_kept, body_discarded>>
    <3>1. MaxBody \in Nat
      BY BodyAssumption
    <3>2. CASE body_allData + n > MaxBody
      BY <1>2, <2>4, <3>1, <3>2 DEF AllUse, Body!Finish
    <3>3. CASE body_allData + n <= MaxBody
      BY <1>2, <2>4, <3>1, <3>3 DEF AllUse, Body!Finish
    <3> QED
      BY <1>2, <3>1, <3>2, <3>3
  <2>5. ASSUME NEW n, AllUse([kind |-> "data", n |-> n]), n \in 1 .. Body!Min({Body!Want(ChunkSize), body_left})
        PROVE  \/ body_allData + n > MaxBody /\ Fails(body_discarded + body_allData + n)
               \/ /\ body_allData + n <= MaxBody /\ body_allData' = body_allData + n
                  /\ UNCHANGED <<body_buffering, body_cache, body_kept, body_discarded>>
    BY <2>4, <2>5
  <2> HIDE DEF Fails, Ends
  <2>6. CASE /\ ~body_closed /\ ~body_reachedEOF /\ ~Body!AtLimit
             /\ \E n \in 1 .. Body!Min({Body!Want(ChunkSize), body_left}), eof \in BOOLEAN :
                  /\ eof => n = body_left
                  /\ body_left' = body_left - n /\ body_totalRead' = body_totalRead + n /\ body_reachedEOF' = eof
                  /\ AllUse([kind |-> "data", n |-> n])
             /\ UNCHANGED <<body_length, body_broken, body_closed>>
    <3>1. PICK n \in 1 .. Body!Min({Body!Want(ChunkSize), body_left}), eof \in BOOLEAN :
                  /\ eof => n = body_left
                  /\ body_left' = body_left - n /\ body_totalRead' = body_totalRead + n /\ body_reachedEOF' = eof
                  /\ AllUse([kind |-> "data", n |-> n])
      BY <2>6
    <3>2. \/ body_allData + n > MaxBody /\ Fails(body_discarded + body_allData + n)
          \/ /\ body_allData + n <= MaxBody /\ body_allData' = body_allData + n
             /\ UNCHANGED <<body_buffering, body_cache, body_kept, body_discarded>>
      BY <2>5, <3>1
    <3> QED
      BY <2>6, <3>1, <3>2
  <2> QED
    BY <2>1, <2>2, <2>3, <2>6
<1>7. CASE \/ body_closed /\ Fails(body_discarded + body_allData) /\ UNCHANGED <<Body!source, Body!reader>>
           \/ /\ ~body_closed /\ body_closed' = TRUE
              /\ Fails(body_discarded + body_allData) /\ UNCHANGED <<Body!source, body_reachedEOF, body_totalRead>>
  BY <1>2, <1>3, <1>7 DEF ReadError, Body!source, Body!reader
<1>8. CASE \/ /\ ~body_closed /\ body_reachedEOF /\ body_closed' = TRUE
              /\ Ends /\ UNCHANGED <<Body!source, body_reachedEOF, body_totalRead>>
           \/ /\ ~body_closed /\ body_left = 0 /\ body_reachedEOF' = TRUE /\ body_closed' = TRUE
              /\ Ends /\ UNCHANGED <<Body!source, body_totalRead>>
  BY <1>2, <1>4, <1>8 DEF ReadEnds, Body!source
<1>9. CASE /\ ~body_closed /\ ~body_reachedEOF /\ ~Body!AtLimit
           /\ \E n \in 1 .. Body!Min({Body!Want(ChunkSize), body_left}), eof \in BOOLEAN :
                /\ eof => n = body_left
                /\ body_left' = body_left - n /\ body_totalRead' = body_totalRead + n /\ body_reachedEOF' = eof
                /\ \/ body_allData + n > MaxBody /\ Fails(body_discarded + body_allData + n)
                   \/ /\ body_allData + n <= MaxBody /\ body_allData' = body_allData + n
                      /\ UNCHANGED <<body_buffering, body_cache, body_kept, body_discarded>>
           /\ UNCHANGED <<body_length, body_broken, body_closed>>
  <2>1. PICK n \in 1 .. Body!Min({Body!Want(ChunkSize), body_left}), eof \in BOOLEAN :
                /\ eof => n = body_left
                /\ body_left' = body_left - n /\ body_totalRead' = body_totalRead + n /\ body_reachedEOF' = eof
                /\ \/ body_allData + n > MaxBody /\ Fails(body_discarded + body_allData + n)
                   \/ /\ body_allData + n <= MaxBody /\ body_allData' = body_allData + n
                      /\ UNCHANGED <<body_buffering, body_cache, body_kept, body_discarded>>
    BY <1>9
  <2>2. ReadData(ChunkSize, n)
    BY <1>2, <1>9, <2>1 DEF ReadData
  <2> QED
    BY <1>5, <2>1, <2>2
<1> HIDE DEF Fails, Ends
<1> QED
  BY <1>6, <1>7, <1>8, <1>9

(* The bytes stay in one place each.                                         *)
LEMMA BodyNext == BodyInv /\ [Body!Next]_body_vars => BodyInv'
<1> SUFFICES ASSUME BodyInv, [Body!Next]_body_vars PROVE BodyInv'
  OBVIOUS
<1>1. CASE \/ Body!On \/ Body!Pause \/ Body!Resume \/ Body!Destroy \/ Body!Read \/ Body!Text \/ Body!Clone \/ Body!CopyText
  BY <1>1, BodyCalled
<1>2. CASE Body!Break \/ UNCHANGED body_vars
  <2>1. UNCHANGED <<body_length, body_left, body_closed, body_reachedEOF, body_totalRead, body_tasks, body_buffering,
                    body_allData, body_cache, body_delivered, body_kept, body_discarded, body_ended, body_extra>>
    BY <1>2 DEF Body!Break, Body!reader, Body!node, Body!whole, Body!seenByScript, body_vars
  <2> QED
    BY <2>1 DEF BodyInv, BodyTyped, BodyAccounted, BodyEnds
<1>3. CASE Body!Start \/ Body!GetResponseData
  <2>1. body_buffering = "nobody" /\ body_tasks # <<>>
    BY <1>3 DEF Body!Start, Body!GetResponseData, Body!Task
  <2>2. body_tasks' \in {Tail(body_tasks), Append(Tail(body_tasks), [do |-> "chunk"])}
    BY <1>3 DEF Body!Start, Body!GetResponseData
  <2>3. body_tasks' \in Seq(BodyTasks)
    BY <2>1, <2>2, TasksChange
  <2>4. /\ UNCHANGED <<body_length, body_left, body_closed, body_reachedEOF, body_totalRead, body_allData, body_cache,
                       body_delivered, body_kept, body_discarded, body_ended, body_extra>>
        /\ body_buffering' = "nobody" \/ body_cache = "none"
    BY <1>3, <2>1 DEF Body!Start, Body!GetResponseData, Body!source, Body!reader, Body!whole, Body!seenByScript
  <2> QED
    BY <2>1, <2>3, <2>4, BodyAside
<1>4. CASE Body!Chunk \/ Body!ReaderRead
  BY <1>4, BodyChunk
<1>5. CASE Body!ReadAll
  BY <1>5, BodyReadsAll
<1> QED
  BY <1>1, <1>2, <1>3, <1>4, <1>5 DEF Body!Next

(* The property of the body, from its invariant.                             *)
LEMMA BodySafe == BodyInv => Body!EndMeansAll /\ Body!WithinLimits
<1> SUFFICES ASSUME BodyInv PROVE Body!EndMeansAll /\ Body!WithinLimits
  OBVIOUS
<1>1. Body!EndMeansAll
  BY DEF BodyInv, BodyTyped, BodyAccounted, BodyEnds, Body!EndMeansAll
<1>2. Body!WithinLimits
  BY BodyAssumption DEF BodyInv, BodyTyped, BodyAccounted, Body!WithinLimits
<1> QED
  BY <1>1, <1>2

-----------------------------------------------------------------------------
(***************************************************************************)
(* FormUpload. What the transport has read and what the writer has still   *)
(* to write are the form; the writer's result is good when nothing is left *)
(* or nobody reads; an end is seen after a good result only.               *)
(***************************************************************************)

Part == [size : Nat, kind : {"text", "file", "stream"}]
\* What the estimate is never below: everything but the streams.
Plain(list) == [i \in DOMAIN list |-> IF list[i].kind = "stream" THEN 0 ELSE list[i].size]

UploadTyped ==
  /\ upload_entries \in Seq(Part) /\ upload_todo \in Seq(Part)
  /\ upload_totalSize \in Nat /\ upload_copied \in Nat /\ upload_got \in Nat /\ upload_whole \in Nat
  /\ upload_reading \in BOOLEAN /\ upload_pipe \in {"open", "eof", "error"}

UploadWriter ==
  /\ upload_inner = "write" =>
       /\ upload_upload = "pipe" /\ upload_outcome = "none"
       /\ upload_got + Upload!Units(upload_todo) = upload_whole + upload_copied
       /\ upload_todo = <<>> => upload_copied = 0
       /\ upload_todo # <<>> => upload_copied <= Head(upload_todo).size
  /\ upload_outer = "select" => upload_upload = "pipe" /\ upload_pipe = "open"
  /\ upload_outcome = "ok" => \/ upload_got = upload_whole
                              \/ upload_reading = FALSE \/ upload_pipe = "error"

UploadSeen ==
  /\ upload_pipe = "eof" => upload_outcome = "ok"
  /\ upload_seen # "no" => \/ upload_upload = "bytes"
                           \/ upload_upload = "pipe" /\ upload_pipe # "open" /\ upload_seen = upload_pipe
  /\ upload_seen = "eof" => upload_got = upload_whole
  /\ upload_upload = "bytes" => upload_whole = Upload!Units(upload_todo) /\ upload_pipe = "open"

UploadBuffered ==
  /\ SumFunctionOnSet(Plain(upload_entries), DOMAIN upload_entries) <= upload_totalSize
  /\ upload_upload = "bytes" /\ (\A i \in DOMAIN upload_todo : upload_todo[i].kind # "stream")
       => MaxBuffered = 0 \/ upload_whole <= MaxBuffered

UploadInv == UploadTyped /\ UploadWriter /\ UploadSeen /\ UploadBuffered

(* The component's fold is the library's.                                    *)
LEMMA UploadUnits ==
  \A list : Upload!Units(list) = SumFunctionOnSet([i \in DOMAIN list |-> list[i].size], DOMAIN list)
<1>1. \A f : Upload!SumFunction(f) = SumFunctionOnSet(f, DOMAIN f)
  BY DEF Upload!SumFunction, Upload!SumFunctionOnSet, Upload!FoldFunctionOnSet, Upload!MapThenFoldSet,
     SumFunctionOnSet, FoldFunctionOnSet, MapThenFoldSet
<1> SUFFICES ASSUME NEW list
             PROVE  Upload!Units(list) = SumFunctionOnSet([i \in DOMAIN list |-> list[i].size], DOMAIN list)
  OBVIOUS
<1>2. PICK f : f = [i \in DOMAIN list |-> list[i].size]
  OBVIOUS
<1>3. Upload!Units(list) = Upload!SumFunction(f)
  BY <1>2 DEF Upload!Units
<1>4. DOMAIN f = DOMAIN list
  BY <1>2
<1> QED
  BY <1>1, <1>2, <1>3, <1>4

(* A form's numbers can be added.                                            *)
LEMMA PartsAdd ==
  ASSUME NEW list \in Seq(Part)
  PROVE  /\ DOMAIN list = 1 .. Len(list) /\ Len(list) \in Nat /\ IsFiniteSet(DOMAIN list)
         /\ \A i \in DOMAIN list : list[i] \in Part /\ list[i].size \in Nat
         /\ Numbers([i \in DOMAIN list |-> list[i].size], DOMAIN list)
         /\ Numbers(Plain(list), DOMAIN list)
<1>1. DOMAIN list = 1 .. Len(list) /\ Len(list) \in Nat
  OBVIOUS
<1>2. IsFiniteSet(1 .. Len(list))
  BY <1>1, FS_Interval
<1>3. ASSUME NEW i \in DOMAIN list PROVE list[i] \in Part /\ list[i].size \in Nat
  <2>1. list[i] \in Part
    BY <1>1
  <2> QED
    BY <2>1 DEF Part
<1> QED
  BY <1>1, <1>2, <1>3 DEF Numbers, Plain

(* No parts have no units, and the first is in front of the others.          *)
LEMMA UnitsOfParts ==
  ASSUME NEW list \in Seq(Part)
  PROVE  /\ Upload!Units(list) \in Nat
         /\ list = <<>> => Upload!Units(list) = 0
         /\ list # <<>> => /\ Head(list) \in Part /\ Tail(list) \in Seq(Part)
                           /\ Upload!Units(list) = Head(list).size + Upload!Units(Tail(list))
<1>1. PICK f : f = [i \in DOMAIN list |-> list[i].size]
  OBVIOUS
<1>2. Upload!Units(list) = SumFunctionOnSet(f, DOMAIN list) /\ Numbers(f, DOMAIN list)
  BY <1>1, UploadUnits, PartsAdd
<1>3. SumFunctionOnSet(f, DOMAIN list) \in Nat
  BY <1>2, SumIsUnits
<1>4. ASSUME list = <<>> PROVE SumFunctionOnSet(f, DOMAIN list) = 0
  <2>1. DOMAIN list = {}
    BY <1>4
  <2> QED
    BY <2>1, SumNothing, FS_EmptySet
<1>5. ASSUME list # <<>>
      PROVE  /\ Head(list) \in Part /\ Tail(list) \in Seq(Part)
             /\ Upload!Units(list) = Head(list).size + Upload!Units(Tail(list))
  <2>1. /\ Head(list) \in Part /\ Tail(list) \in Seq(Part) /\ Head(list) = list[1]
        /\ Len(list) \in Nat /\ Len(list) >= 1 /\ Len(Tail(list)) = Len(list) - 1
        /\ DOMAIN Tail(list) = 1 .. (Len(list) - 1)
        /\ \A i \in 1 .. (Len(list) - 1) : Tail(list)[i] = list[i + 1]
    BY <1>5, HeadTailProperties
  <2>2. PICK n : n = Len(list) - 1
    OBVIOUS
  <2>11. n \in Nat /\ Len(list) = n + 1
    BY <2>1, <2>2
  <2>3. DOMAIN list = 1 .. (n + 1) /\ 1 \in DOMAIN list /\ DOMAIN list \ {1} = 2 .. (n + 1)
    BY <2>11
  <2>4. SumFunctionOnSet(f, DOMAIN list) = f[1] + SumFunctionOnSet(f, DOMAIN list \ {1})
    <3>1. Numbers(f, 1 .. (n + 1))
      BY <1>2, <2>3
    <3>2. SumFunctionOnSet(f, 1 .. (n + 1)) = f[1] + SumFunctionOnSet(f, 2 .. (n + 1))
      BY <2>11, <3>1, SumOfList
    <3> QED
      BY <2>3, <3>2
  <2>5. PICK g : g = [i \in DOMAIN Tail(list) |-> Tail(list)[i].size]
    OBVIOUS
  <2>6. Upload!Units(Tail(list)) = SumFunctionOnSet(g, 1 .. n)
    BY <2>1, <2>2, <2>5, UploadUnits
  <2>7. \A i \in 1 .. n : g[i] = f[i + 1]
    BY <1>1, <2>1, <2>2, <2>3, <2>5
  <2>8. \A i \in 2 .. (n + 1) : f[i] \in Nat
    BY <1>2, <2>3 DEF Numbers
  <2>9. SumFunctionOnSet(g, 1 .. n) = SumFunctionOnSet(f, 2 .. (n + 1))
    BY <2>7, <2>8, <2>11, SumShift
  <2>10. f[1] = Head(list).size
    BY <1>1, <2>1, <2>3
  <2> QED
    BY <1>2, <2>1, <2>3, <2>4, <2>6, <2>9, <2>10
<1> QED
  BY <1>2, <1>3, <1>4, <1>5

(* The estimate grows with every part.                                       *)
LEMMA PlainAppends ==
  ASSUME NEW list \in Seq(Part), NEW e \in Part
  PROVE  /\ Append(list, e) \in Seq(Part)
         /\ SumFunctionOnSet(Plain(list), DOMAIN list) \in Nat
         /\ SumFunctionOnSet(Plain(Append(list, e)), DOMAIN Append(list, e))
              = SumFunctionOnSet(Plain(list), DOMAIN list) + (IF e.kind = "stream" THEN 0 ELSE e.size)
<1>1. PICK more : more = Append(list, e)
  OBVIOUS
<1>2. PICK n : n = Len(list)
  OBVIOUS
<1>3. /\ more \in Seq(Part) /\ n \in Nat /\ DOMAIN more = 1 .. (n + 1) /\ DOMAIN list = 1 .. n
      /\ more[n + 1] = e /\ \A i \in 1 .. n : more[i] = list[i]
  BY <1>1, <1>2
<1>4. PICK f : f = Plain(more)
  OBVIOUS
<1>5. Numbers(f, 1 .. (n + 1)) /\ Numbers(Plain(list), DOMAIN list)
  BY <1>3, <1>4, PartsAdd
<1>6. SumFunctionOnSet(f, 1 .. (n + 1)) = SumFunctionOnSet(f, 1 .. n) + f[n + 1]
  BY <1>3, <1>5, SumOfList
<1>7. SumFunctionOnSet(Plain(list), DOMAIN list) = SumFunctionOnSet(f, DOMAIN list)
  <2>1. \A i \in DOMAIN list : Plain(list)[i] = f[i]
    BY <1>3, <1>4 DEF Plain
  <2> QED
    BY <1>5, <2>1, SumSame
<1>8. f[n + 1] = IF e.kind = "stream" THEN 0 ELSE e.size
  BY <1>3, <1>4 DEF Plain
<1>9. SumFunctionOnSet(Plain(list), DOMAIN list) \in Nat
  BY <1>5, SumIsUnits
<1> QED
  BY <1>1, <1>3, <1>4, <1>6, <1>7, <1>8, <1>9

(* Without streams the estimate is the size.                                 *)
LEMMA PlainIsWhole ==
  ASSUME NEW list \in Seq(Part), \A i \in DOMAIN list : list[i].kind # "stream"
  PROVE  SumFunctionOnSet(Plain(list), DOMAIN list) = Upload!Units(list)
<1>1. PICK f : f = [i \in DOMAIN list |-> list[i].size]
  OBVIOUS
<1>2. Upload!Units(list) = SumFunctionOnSet(f, DOMAIN list)
  BY <1>1, UploadUnits
<1>3. Numbers(Plain(list), DOMAIN list) /\ \A i \in DOMAIN list : Plain(list)[i] = f[i]
  BY <1>1, PartsAdd DEF Plain
<1> QED
  BY <1>2, <1>3, SumSame

(* Nothing is written at first.                                              *)
LEMMA UploadInit == Upload!Init => UploadInv
<1> SUFFICES ASSUME Upload!Init PROVE UploadInv
  OBVIOUS
<1>4. <<>> \in Seq(Part)
  OBVIOUS
<1>5. UploadTyped
  BY <1>4 DEF Upload!Init, UploadTyped
<1>6. UploadWriter
  BY DEF Upload!Init, UploadWriter
<1>7. UploadSeen
  BY DEF Upload!Init, UploadSeen
<1>2. SumFunctionOnSet(Plain(upload_entries), DOMAIN upload_entries) <= upload_totalSize
  <2>1. upload_entries = <<>> /\ upload_totalSize = 0
    BY DEF Upload!Init
  <2>2. DOMAIN upload_entries = {}
    BY <2>1
  <2>3. SumFunctionOnSet(Plain(upload_entries), DOMAIN upload_entries) = 0
    BY <2>2, SumNothing, FS_EmptySet
  <2> QED
    BY <2>1, <2>3
<1>3. upload_upload # "bytes"
  BY DEF Upload!Init
<1> QED
  BY <1>2, <1>3, <1>5, <1>6, <1>7 DEF UploadInv, UploadBuffered

(* A part is appended.                                                       *)
LEMMA AppendKeeps == UploadInv /\ Upload!Append1 => UploadInv'
<1> SUFFICES ASSUME UploadInv, Upload!Append1 PROVE UploadInv'
  OBVIOUS
<1>1. UNCHANGED <<upload_mode, upload_context, upload_upload, upload_todo, upload_copied, upload_inner, upload_outcome,
                  upload_outer, upload_pipe, upload_reading, upload_got, upload_seen, upload_whole, upload_uploads>>
  BY DEF Upload!Append1, Upload!writer
<1>2. PICK value \in {"null", "string", "buffer", "blob", "file", "stream"}, size \in UploadSizes, named \in BOOLEAN :
        /\ upload_entries' = Append(upload_entries, Upload!Entry(value, size, named))
        /\ upload_totalSize' = upload_totalSize + Upload!Guess(Upload!Entry(value, size, named))
  BY DEF Upload!Append1
<1>3. PICK e : e = Upload!Entry(value, size, named)
  OBVIOUS
<1>4. e \in Part
  BY <1>3, UploadAssumption DEF Upload!Entry, Part
<1>5. Upload!Guess(e) \in Nat /\ Upload!Guess(e) >= (IF e.kind = "stream" THEN 0 ELSE e.size)
  BY <1>4, UploadAssumption DEF Upload!Guess, Part
<1>6. upload_entries \in Seq(Part) /\ upload_totalSize \in Nat
  BY DEF UploadInv, UploadTyped
<1>7. UploadTyped'
  BY <1>1, <1>2, <1>3, <1>4, <1>5, <1>6 DEF UploadInv, UploadTyped
<1>8. UploadWriter' /\ UploadSeen'
  BY <1>1 DEF UploadInv, UploadWriter, UploadSeen
<1>9. SumFunctionOnSet(Plain(upload_entries'), DOMAIN upload_entries') <= upload_totalSize'
  <2>1. SumFunctionOnSet(Plain(upload_entries), DOMAIN upload_entries) <= upload_totalSize
    BY DEF UploadInv, UploadBuffered
  <2>2. PICK n \in Nat : n = SumFunctionOnSet(Plain(upload_entries), DOMAIN upload_entries)
    BY <1>4, <1>6, PlainAppends
  <2>3. SumFunctionOnSet(Plain(upload_entries'), DOMAIN upload_entries') = n + (IF e.kind = "stream" THEN 0 ELSE e.size)
    BY <1>2, <1>3, <1>4, <1>6, <2>2, PlainAppends
  <2>4. (IF e.kind = "stream" THEN 0 ELSE e.size) \in Nat
    BY <1>4 DEF Part
  <2> QED
    BY <1>2, <1>3, <1>5, <1>6, <2>1, <2>2, <2>3, <2>4
<1>10. UploadBuffered'
  BY <1>1, <1>9 DEF UploadInv, UploadBuffered, Plain
<1> QED
  BY <1>7, <1>8, <1>10 DEF UploadInv

(* A reader is made, or refused.                                             *)
LEMMA CreateKeeps == UploadInv /\ Upload!CreateReader => UploadInv'
<1> SUFFICES ASSUME UploadInv, Upload!CreateReader PROVE UploadInv'
  OBVIOUS
<1>1. PICK m : m = Upload!Detected
  OBVIOUS
<1>2. /\ upload_mode' = m /\ upload_got' = 0 /\ upload_seen' = "no" /\ upload_copied' = 0 /\ upload_pipe' = "open"
      /\ upload_outcome' = "none" /\ upload_whole' = Upload!Units(upload_entries) /\ upload_totalSize' = upload_totalSize
  BY <1>1 DEF Upload!CreateReader
<1>3. PICK refuses \in BOOLEAN :
        /\ refuses = TRUE => /\ upload_upload' = "refused" /\ upload_reading' = FALSE /\ upload_todo' = <<>>
                      /\ upload_inner' = "none" /\ upload_outer' = "none" /\ upload_entries' = upload_entries
        /\ refuses = FALSE =>
             /\ ~(Upload!Limit(m) > 0 /\ upload_totalSize > Upload!Limit(m))
             /\ upload_upload' = (IF m = "streaming" THEN "pipe" ELSE "bytes") /\ upload_reading' = TRUE
             /\ upload_entries' = <<>> /\ upload_todo' = upload_entries
             /\ upload_inner' = (IF m = "streaming" THEN "write" ELSE "none")
             /\ upload_outer' = (IF m = "streaming" THEN "select" ELSE "none")
  BY <1>1 DEF Upload!CreateReader
<1>4. /\ upload_entries \in Seq(Part) /\ upload_totalSize \in Nat /\ Upload!Units(upload_entries) \in Nat
      /\ upload_entries # <<>> => Head(upload_entries) \in Part
      /\ SumFunctionOnSet(Plain(upload_entries), DOMAIN upload_entries) <= upload_totalSize
  BY UnitsOfParts DEF UploadInv, UploadTyped, UploadBuffered
<1>5. <<>> \in Seq(Part) /\ SumFunctionOnSet(Plain(<<>>), DOMAIN <<>>) = 0
  <2>1. DOMAIN <<>> = {}
    OBVIOUS
  <2> QED
    BY <2>1, SumNothing, FS_EmptySet
<1>6. CASE refuses = TRUE
  <2>1. UploadTyped' /\ UploadWriter' /\ UploadSeen'
    BY <1>2, <1>3, <1>4, <1>5, <1>6 DEF UploadTyped, UploadWriter, UploadSeen
  <2>2. UploadBuffered'
    BY <1>2, <1>3, <1>4, <1>6 DEF UploadBuffered, Plain
  <2> QED
    BY <2>1, <2>2 DEF UploadInv
<1>7. CASE refuses = FALSE
  <2>1. UploadTyped'
    BY <1>2, <1>3, <1>4, <1>5, <1>7 DEF UploadTyped
  <2>2. UploadWriter'
    <3>1. upload_entries # <<>> => 0 <= Head(upload_entries).size
      BY <1>4 DEF Part
    <3> QED
      BY <1>2, <1>3, <1>4, <1>7, <3>1 DEF UploadWriter
  <2>3. UploadSeen'
    BY <1>2, <1>3, <1>7 DEF UploadSeen
  <2>4. UploadBuffered'
    <3>1. SumFunctionOnSet(Plain(upload_entries'), DOMAIN upload_entries') <= upload_totalSize'
      BY <1>2, <1>3, <1>4, <1>5, <1>7
    <3>2. ASSUME upload_upload' = "bytes", \A i \in DOMAIN upload_entries : upload_entries[i].kind # "stream"
          PROVE  MaxBuffered = 0 \/ Upload!Units(upload_entries) <= MaxBuffered
      <4>1. m # "streaming"
        BY <1>3, <1>7, <3>2
      <4>2. MaxBuffered = 0 \/ upload_totalSize <= MaxBuffered
        BY <1>3, <1>4, <1>7, <4>1, UploadAssumption DEF Upload!Limit
      <4>3. SumFunctionOnSet(Plain(upload_entries), DOMAIN upload_entries) = Upload!Units(upload_entries)
        BY <1>4, <3>2, PlainIsWhole
      <4> QED
        BY <1>4, <4>2, <4>3, UploadAssumption
    <3> QED
      BY <1>2, <1>3, <1>7, <3>1, <3>2 DEF UploadBuffered, Plain
  <2> QED
    BY <2>1, <2>2, <2>3, <2>4 DEF UploadInv
<1> QED
  BY <1>3, <1>6, <1>7

(* What a step does that makes no form and no reader: the entries and the    *)
(* size of the form stay.                                                    *)
UploadGoesOn ==
  UNCHANGED <<upload_entries, upload_totalSize, upload_mode, upload_upload, upload_whole, upload_uploads>>

(* The two ways to read: a form in memory, and the end of a pipe.            *)
LEMMA ReadersKeep ==
  UploadInv /\ (Upload!ReadBytes \/ Upload!ReadEnd \/ Upload!StopReading \/ Upload!SetContext \/ Upload!CancelContext)
    => UploadInv'
<1> SUFFICES ASSUME UploadInv,
                    Upload!ReadBytes \/ Upload!ReadEnd \/ Upload!StopReading \/ Upload!SetContext \/ Upload!CancelContext
             PROVE  UploadInv'
  OBVIOUS
<1>1. /\ UploadGoesOn
      /\ UNCHANGED <<upload_todo, upload_copied, upload_inner, upload_outcome, upload_outer, upload_pipe>>
  BY DEF Upload!ReadBytes, Upload!ReadEnd, Upload!StopReading, Upload!SetContext, Upload!CancelContext, UploadGoesOn,
     Upload!form, Upload!writer
<1>2. \/ upload_upload = "bytes" /\ upload_got' = Upload!Units(upload_todo) /\ upload_seen' = "eof" /\ UNCHANGED upload_reading
      \/ /\ upload_upload = "pipe" /\ upload_reading = TRUE /\ upload_pipe # "open" /\ upload_seen' = upload_pipe
         /\ UNCHANGED <<upload_got, upload_reading>>
      \/ upload_reading' = FALSE /\ UNCHANGED <<upload_got, upload_seen>>
      \/ UNCHANGED <<upload_got, upload_seen, upload_reading>>
  BY DEF Upload!ReadBytes, Upload!ReadEnd, Upload!StopReading, Upload!SetContext, Upload!CancelContext
<1>3. Upload!Units(upload_todo) \in Nat
  BY UnitsOfParts DEF UploadInv, UploadTyped
<1>4. UploadTyped'
  BY <1>1, <1>2, <1>3 DEF UploadInv, UploadTyped, UploadGoesOn
<1>5. UploadWriter'
  BY <1>1, <1>2 DEF UploadInv, UploadTyped, UploadWriter, UploadSeen, UploadGoesOn
<1>6. UploadSeen'
  BY <1>1, <1>2 DEF UploadInv, UploadTyped, UploadWriter, UploadSeen, UploadGoesOn
<1>7. UploadBuffered'
  BY <1>1 DEF UploadInv, UploadBuffered, UploadGoesOn, Plain
<1> QED
  BY <1>4, <1>5, <1>6, <1>7 DEF UploadInv

(* The goroutine that writes.                                                *)
LEMMA WriterKeeps ==
  UploadInv /\ (Upload!SeesContext \/ Upload!Write \/ Upload!WriteRefused \/ Upload!WriteFails \/ Upload!NextEntry
                  \/ Upload!WriterCloses)
    => UploadInv'
<1> SUFFICES ASSUME UploadInv,
                    Upload!SeesContext \/ Upload!Write \/ Upload!WriteRefused \/ Upload!WriteFails \/ Upload!NextEntry
                      \/ Upload!WriterCloses
             PROVE  UploadInv'
  OBVIOUS
<1>1. /\ UploadGoesOn /\ upload_inner = "write"
      /\ UNCHANGED <<upload_outer, upload_pipe, upload_reading, upload_seen>>
  BY DEF Upload!SeesContext, Upload!Write, Upload!WriteRefused, Upload!WriteFails, Upload!NextEntry, Upload!WriterCloses,
     Upload!Leaves, UploadGoesOn, Upload!form
<1>2. \/ /\ upload_inner' = "done" /\ UNCHANGED <<upload_todo, upload_copied, upload_got>>
         /\ \/ upload_outcome' = "failed"
            \/ upload_outcome' = "ok" /\ (upload_pipe # "open" \/ upload_reading = FALSE \/ upload_todo = <<>>)
      \/ /\ upload_todo # <<>> /\ upload_copied < Head(upload_todo).size /\ upload_pipe = "open"
         /\ upload_copied' = upload_copied + 1 /\ upload_got' = upload_got + 1
         /\ UNCHANGED <<upload_todo, upload_inner, upload_outcome>>
      \/ /\ upload_todo # <<>> /\ upload_copied = Head(upload_todo).size
         /\ upload_todo' = Tail(upload_todo) /\ upload_copied' = 0
         /\ UNCHANGED <<upload_got, upload_inner, upload_outcome>>
  <2>1. CASE Upload!SeesContext
    BY <2>1 DEF Upload!SeesContext, Upload!Leaves
  <2>2. CASE Upload!Write
    BY <2>2 DEF Upload!Write, Upload!Blocked
  <2>3. CASE Upload!WriteRefused
    BY <2>3 DEF Upload!WriteRefused, Upload!Leaves, Upload!Blocked, UploadInv, UploadTyped
  <2>4. CASE Upload!WriteFails
    BY <2>4 DEF Upload!WriteFails, Upload!Leaves
  <2>5. CASE Upload!NextEntry
    BY <2>5 DEF Upload!NextEntry
  <2>6. CASE Upload!WriterCloses
    BY <2>6 DEF Upload!WriterCloses, Upload!Leaves
  <2> QED
    BY <2>1, <2>2, <2>3, <2>4, <2>5, <2>6
<1>3. /\ upload_todo \in Seq(Part) /\ Upload!Units(upload_todo) \in Nat
      /\ upload_todo = <<>> => Upload!Units(upload_todo) = 0
      /\ upload_todo # <<>> => /\ Head(upload_todo).size \in Nat /\ Tail(upload_todo) \in Seq(Part)
                               /\ Upload!Units(upload_todo) = Head(upload_todo).size + Upload!Units(Tail(upload_todo))
                               /\ Upload!Units(Tail(upload_todo)) \in Nat
                               /\ Tail(upload_todo) # <<>> => Head(Tail(upload_todo)).size \in Nat
  BY UnitsOfParts DEF UploadInv, UploadTyped, Part
<1>4. /\ upload_upload = "pipe" /\ upload_outcome = "none" /\ upload_pipe # "eof"
      /\ upload_got + Upload!Units(upload_todo) = upload_whole + upload_copied
      /\ upload_todo = <<>> => upload_copied = 0
      /\ upload_todo # <<>> => upload_copied <= Head(upload_todo).size
      /\ upload_copied \in Nat /\ upload_got \in Nat /\ upload_whole \in Nat
  BY <1>1 DEF UploadInv, UploadTyped, UploadWriter, UploadSeen
<1>5. upload_seen # "eof"
  BY <1>1, <1>4 DEF UploadInv, UploadSeen
<1>6. UploadTyped'
  <2>1. upload_todo' \in Seq(Part)
    BY <1>2, <1>3
  <2>2. upload_copied' \in Nat /\ upload_got' \in Nat
    BY <1>2, <1>4
  <2> QED
    BY <1>1, <2>1, <2>2 DEF UploadInv, UploadTyped, UploadGoesOn
<1>7. UploadWriter'
  <2>1. upload_outer' = "select" => upload_upload' = "pipe" /\ upload_pipe' = "open"
    BY <1>1 DEF UploadInv, UploadWriter, UploadGoesOn
  <2>2. upload_outcome' = "ok" => upload_got' = upload_whole' \/ upload_reading' = FALSE \/ upload_pipe' = "error"
    <3>1. upload_todo = <<>> => upload_got = upload_whole
      BY <1>3, <1>4
    <3>2. upload_pipe \in {"open", "error"}
      BY <1>4 DEF UploadInv, UploadTyped
    <3> QED
      BY <1>1, <1>2, <1>4, <3>1, <3>2 DEF UploadGoesOn
  <2>3. upload_inner' = "write" =>
          /\ upload_upload' = "pipe" /\ upload_outcome' = "none"
          /\ upload_got' + Upload!Units(upload_todo)' = upload_whole' + upload_copied'
          /\ upload_todo' = <<>> => upload_copied' = 0
          /\ upload_todo' # <<>> => upload_copied' <= Head(upload_todo').size
    <3> SUFFICES ASSUME upload_inner' = "write"
                 PROVE  /\ upload_upload' = "pipe" /\ upload_outcome' = "none"
                        /\ upload_got' + Upload!Units(upload_todo)' = upload_whole' + upload_copied'
                        /\ upload_todo' = <<>> => upload_copied' = 0
                        /\ upload_todo' # <<>> => upload_copied' <= Head(upload_todo').size
      OBVIOUS
    <3>1. upload_upload' = "pipe" /\ upload_outcome' = "none" /\ upload_whole' = upload_whole
      BY <1>1, <1>2, <1>4 DEF UploadGoesOn
    <3>2. CASE upload_todo # <<>> /\ upload_copied < Head(upload_todo).size /\ upload_todo' = upload_todo
               /\ upload_copied' = upload_copied + 1 /\ upload_got' = upload_got + 1
      <4>1. Upload!Units(upload_todo)' = Upload!Units(upload_todo)
        BY <3>2 DEF Upload!Units
      <4>2. upload_copied + 1 <= Head(upload_todo).size
        BY <1>3, <1>4, <3>2
      <4> QED
        <5>1. upload_got' + Upload!Units(upload_todo)' = upload_whole' + upload_copied'
          <6>1. PICK u : u = Upload!Units(upload_todo)
            OBVIOUS
          <6>2. u \in Nat /\ upload_got + u = upload_whole + upload_copied
            BY <1>3, <1>4, <6>1
          <6>3. upload_copied \in Nat /\ upload_got \in Nat /\ upload_whole \in Nat
            BY <1>4
          <6>4. (upload_got + 1) + u = upload_whole + (upload_copied + 1)
            BY <6>2, <6>3
          <6> QED
            BY <3>1, <3>2, <4>1, <6>1, <6>4
        <5> QED
          BY <3>1, <3>2, <4>2, <5>1
    <3>3. CASE upload_todo # <<>> /\ upload_copied = Head(upload_todo).size
               /\ upload_todo' = Tail(upload_todo) /\ upload_copied' = 0 /\ upload_got' = upload_got
      <4>1. Upload!Units(upload_todo)' = Upload!Units(Tail(upload_todo))
        BY <3>3 DEF Upload!Units
      <4>2. upload_got' + Upload!Units(upload_todo)' = upload_whole' + upload_copied'
        BY <1>3, <1>4, <3>1, <3>3, <4>1
      <4>3. upload_todo' # <<>> => 0 <= Head(upload_todo').size
        BY <1>3, <3>3
      <4> QED
        BY <3>1, <3>3, <4>2, <4>3
    <3> QED
      BY <1>2, <3>2, <3>3
  <2> QED
    BY <2>1, <2>2, <2>3 DEF UploadWriter
<1>8. UploadSeen'
  BY <1>1, <1>4, <1>5 DEF UploadInv, UploadSeen, UploadGoesOn
<1>9. UploadBuffered'
  BY <1>1, <1>4 DEF UploadInv, UploadBuffered, UploadGoesOn, Plain
<1> QED
  BY <1>6, <1>7, <1>8, <1>9 DEF UploadInv

(* The goroutine that waits ends the pipe.                                   *)
LEMMA WaiterKeeps == UploadInv /\ (Upload!Finished \/ Upload!Timeout \/ Upload!Cancel) => UploadInv'
<1> SUFFICES ASSUME UploadInv, Upload!Finished \/ Upload!Timeout \/ Upload!Cancel PROVE UploadInv'
  OBVIOUS
<1>1. /\ UploadGoesOn /\ upload_outer = "select" /\ upload_outer' = "done"
      /\ UNCHANGED <<upload_todo, upload_copied, upload_inner, upload_outcome, upload_reading, upload_got, upload_seen>>
      /\ upload_pipe' = "error" \/ (upload_pipe' = "eof" /\ upload_outcome = "ok")
  <2>1. ASSUME NEW how, Upload!Close(how)
        PROVE  /\ UploadGoesOn /\ upload_outer = "select" /\ upload_outer' = "done" /\ upload_pipe' = how
               /\ UNCHANGED <<upload_todo, upload_copied, upload_inner, upload_outcome, upload_reading, upload_got, upload_seen>>
    BY <2>1 DEF Upload!Close, UploadGoesOn, Upload!form
  <2>2. CASE Upload!Timeout \/ Upload!Cancel
    BY <2>1, <2>2 DEF Upload!Timeout, Upload!Cancel
  <2>3. CASE Upload!Finished
    BY <2>1, <2>3 DEF Upload!Finished
  <2> QED
    BY <2>2, <2>3
<1>2. upload_upload = "pipe" /\ upload_pipe = "open"
  BY <1>1 DEF UploadInv, UploadWriter
<1>3. upload_seen = "no"
  BY <1>2 DEF UploadInv, UploadSeen
<1>4. UploadTyped'
  BY <1>1 DEF UploadInv, UploadTyped, UploadGoesOn
<1>5. UploadWriter'
  BY <1>1, <1>2 DEF UploadInv, UploadWriter, UploadGoesOn
<1>6. UploadSeen'
  BY <1>1, <1>2, <1>3 DEF UploadInv, UploadSeen, UploadGoesOn
<1>7. UploadBuffered'
  BY <1>1, <1>2 DEF UploadInv, UploadBuffered, UploadGoesOn, Plain
<1> QED
  BY <1>4, <1>5, <1>6, <1>7 DEF UploadInv

(* No step ends an upload in silence.                                        *)
LEMMA UploadNext == UploadInv /\ [Upload!Next]_upload_vars => UploadInv'
<1> SUFFICES ASSUME UploadInv, [Upload!Next]_upload_vars PROVE UploadInv'
  OBVIOUS
<1>1. CASE UNCHANGED upload_vars
  <2>1. UploadTyped' /\ UploadWriter' /\ UploadSeen'
    BY <1>1 DEF UploadInv, UploadTyped, UploadWriter, UploadSeen, upload_vars, Upload!Units
  <2>2. UploadBuffered'
    BY <1>1 DEF UploadInv, UploadBuffered, upload_vars, Plain
  <2> QED
    BY <2>1, <2>2 DEF UploadInv
<1> QED
  BY <1>1, AppendKeeps, CreateKeeps, ReadersKeep, WriterKeeps, WaiterKeeps DEF Upload!Next

(* The invariant is what the server relies on.                               *)
LEMMA UploadSafe == UploadInv => Upload!UploadIsWhole
BY DEF UploadInv, UploadSeen, UploadBuffered, Upload!UploadIsWhole

-----------------------------------------------------------------------------
(***************************************************************************)
(* RateLimiter. For a token whose calls do not overlap and whose history   *)
(* was never lost: the history that its next call will read, wherever it   *)
(* is, counts at least what was admitted within the window.                *)
(***************************************************************************)

Seconds   == 0 .. LimiterTime
Histories == [Seconds -> Nat]
Recently(h, now, n) == [x \in Seconds |-> IF now - x < n THEN h[x] ELSE 0]
Covers(h, t) == \A x \in Seconds : limiter_clock - x < WindowSeconds => h[x] >= limiter_admitted[t][x]

LimiterOf(c, t) == limiter_where[c] # "away" /\ limiter_whose[c] = t
Submitting(t)   == \E c \in Caller : LimiterOf(c, t) /\ limiter_where[c] = "submit"
Queued(t)       == \E w \in limiter_writes : w.token = t

LimiterTyped ==
  /\ limiter_clock \in Seconds /\ limiter_enabled \in BOOLEAN
  /\ limiter_data \in [Token -> Histories \cup {None}] /\ limiter_stored \in [Token -> Histories \cup {None}]
  /\ limiter_accessOrder \in [Token -> Seconds \cup {None}]
  /\ \A w \in limiter_writes : w.token \in Token /\ w.requests \in Histories
  /\ limiter_where \in [Caller -> {"away", "hot", "touch", "warm", "promote", "decide", "submit"}]
  /\ limiter_whose \in [Caller -> Token \cup {None}] /\ limiter_since \in [Caller -> Seconds]
  /\ limiter_seen \in [Caller -> Histories] /\ limiter_admitted \in [Token -> Histories]
  /\ \A c \in Caller : limiter_where[c] # "away" => limiter_whose[c] \in Token /\ limiter_since[c] = limiter_clock

\* What is in memory covers, and so does Redis when it must take over.
StoresKept(t) ==
  /\ limiter_data[t] # None => Covers(limiter_data[t], t)
  /\ limiter_data[t] = None =>
       /\ limiter_enabled = TRUE /\ ~Queued(t) /\ ~Submitting(t)
       /\ limiter_stored[t] = None => Covers(Limiter!Nothing, t)
       /\ limiter_stored[t] # None => Covers(limiter_stored[t], t)
  /\ limiter_data[t] # None /\ limiter_enabled = TRUE /\ ~Queued(t) /\ ~Submitting(t)
       => limiter_stored[t] # None /\ Covers(limiter_stored[t], t)
  /\ ~Submitting(t) => \A w \in limiter_writes : w.token = t => Covers(w.requests, t)
  /\ \A v, w \in limiter_writes : v.token = t /\ w.token = t => v = w

\* So does what its call has read.
CallKept(c, t) ==
  /\ limiter_where[c] \in {"touch", "promote", "decide", "submit"} => Covers(limiter_seen[c], t)
  /\ limiter_where[c] \in {"warm", "promote"} => limiter_data[t] = None
  /\ limiter_where[c] = "warm" => limiter_seen[c] = Limiter!Nothing
  /\ limiter_where[c] = "promote" => limiter_stored[t] # None
  /\ limiter_where[c] = "submit" => limiter_data[t] # None
CallsKept(t) ==
  /\ \A c, d \in Caller : LimiterOf(c, t) /\ LimiterOf(d, t) => c = d
  /\ \A c \in Caller : LimiterOf(c, t) => CallKept(c, t)

WindowKept(t) ==
  /\ Limiter!Total(Limiter!Lately(limiter_admitted[t], WindowSeconds)) <= PerMinute
  /\ Burst > 0 => Limiter!Total(Limiter!Lately(limiter_admitted[t], 1)) <= Burst

TokenKept(t) == StoresKept(t) /\ CallsKept(t) /\ WindowKept(t)

LimiterInv == /\ LimiterTyped /\ Limiter!EveryHistoryEvictable
              /\ \A t \in Token \ limiter_disturbed : TokenKept(t)

(* The words of the code: within the window, and the number of requests.     *)
LEMMA LimiterWords ==
  ASSUME NEW h \in Histories, NEW now \in Seconds, NEW n \in Nat
  PROVE  /\ Limiter!Valid(h, now, n) = Recently(h, now, n)
         /\ now = limiter_clock => Limiter!Lately(h, n) = Recently(h, now, n)
         /\ Recently(h, now, n) \in Histories
         /\ Limiter!Plus(h, now) \in Histories
         /\ Limiter!Nothing \in Histories /\ Limiter!Nothing = [x \in Seconds |-> 0]
         /\ Limiter!Time = Seconds
<1>1. Limiter!Time = Seconds /\ \A x \in Seconds : x \in Int
  BY LimiterAssumption DEF Limiter!Time, Seconds
<1>2. \A x \in Seconds : (x > now - n) <=> (now - x < n)
  BY <1>1, LimiterAssumption DEF Seconds
<1>3. Limiter!Valid(h, now, n) = Recently(h, now, n)
  BY <1>1, <1>2 DEF Limiter!Valid, Recently
<1>4. now = limiter_clock => Limiter!Lately(h, n) = Recently(h, now, n)
  BY <1>1 DEF Limiter!Lately, Recently
<1>5. Recently(h, now, n) \in Histories
  BY DEF Recently, Histories
<1>6. Limiter!Plus(h, now) \in Histories
  BY DEF Limiter!Plus, Histories
<1>7. Limiter!Nothing \in Histories /\ Limiter!Nothing = [x \in Seconds |-> 0]
  BY <1>1 DEF Limiter!Nothing, Histories
<1> QED
  BY <1>1, <1>3, <1>4, <1>5, <1>6, <1>7

(* More requests are more in all, and one more is one more.                  *)
LEMMA LimiterTotals ==
  ASSUME NEW f \in Histories
  PROVE  /\ Limiter!Total(f) \in Nat
         /\ \A g \in Histories : (\A x \in Seconds : f[x] <= g[x]) => Limiter!Total(f) <= Limiter!Total(g)
         /\ \A now \in Seconds : Limiter!Total(Limiter!Plus(f, now)) = Limiter!Total(f) + 1
<1>1. \A h : Limiter!Total(h) = SumFunctionOnSet(h, DOMAIN h)
  BY DEF Limiter!Total, Limiter!SumFunction, Limiter!SumFunctionOnSet, Limiter!FoldFunctionOnSet, Limiter!MapThenFoldSet,
     SumFunctionOnSet, FoldFunctionOnSet, MapThenFoldSet
<1>2. \A h \in Histories : Numbers(h, Seconds) /\ DOMAIN h = Seconds
  <2>1. IsFiniteSet(Seconds)
    BY FS_Interval, LimiterAssumption DEF Seconds
  <2> QED
    BY <2>1 DEF Numbers, Histories
<1>3. \A h \in Histories : Limiter!Total(h) = SumFunctionOnSet(h, Seconds)
  BY <1>1, <1>2
<1>4. Limiter!Total(f) \in Nat
  BY <1>2, <1>3, SumIsUnits
<1>5. ASSUME NEW g \in Histories, \A x \in Seconds : f[x] <= g[x] PROVE Limiter!Total(f) <= Limiter!Total(g)
  BY <1>2, <1>3, <1>5, SumGrows
<1>6. ASSUME NEW now \in Seconds PROVE Limiter!Total(Limiter!Plus(f, now)) = Limiter!Total(f) + 1
  <2>1. PICK g : g = Limiter!Plus(f, now)
    OBVIOUS
  <2>2. f[now] \in Nat
    BY DEF Histories
  <2>3. g \in Histories /\ g[now] = f[now] + 1 /\ g[now] \in Nat /\ \A x \in Seconds : x # now => f[x] = g[x]
    BY <2>1, <2>2 DEF Limiter!Plus, Histories
  <2>4. SumFunctionOnSet(g, Seconds) = SumFunctionOnSet(f, Seconds) - f[now] + g[now]
    BY <1>2, <2>3, SumChanges
  <2> QED
    BY <1>3, <1>4, <2>1, <2>2, <2>3, <2>4
<1> QED
  BY <1>4, <1>5, <1>6

(* What is covered is less, and one more request of both stays so.           *)
LEMMA Covered ==
  ASSUME NEW a \in Histories, NEW h \in Histories, NEW now \in Seconds,
         \A x \in Seconds : now - x < WindowSeconds => h[x] >= a[x]
  PROVE  /\ \A x \in Seconds : Recently(a, now, WindowSeconds)[x] <= Recently(h, now, WindowSeconds)[x]
         /\ \A x \in Seconds : Limiter!Plus(Recently(a, now, WindowSeconds), now)[x]
                                 <= Limiter!Plus(Recently(h, now, WindowSeconds), now)[x]
         /\ Recently(a, now, WindowSeconds) \in Histories /\ Recently(h, now, WindowSeconds) \in Histories
<1>1. Recently(a, now, WindowSeconds) \in Histories /\ Recently(h, now, WindowSeconds) \in Histories
  BY LimiterWords, LimiterAssumption
<1>2. ASSUME NEW x \in Seconds PROVE Recently(a, now, WindowSeconds)[x] <= Recently(h, now, WindowSeconds)[x]
  <2>1. a[x] \in Nat /\ h[x] \in Nat
    BY DEF Histories
  <2> QED
    BY <2>1 DEF Recently
<1>3. ASSUME NEW f \in Histories, NEW g \in Histories, \A x \in Seconds : f[x] <= g[x], NEW x \in Seconds
      PROVE  Limiter!Plus(f, now)[x] <= Limiter!Plus(g, now)[x]
  <2>1. /\ Limiter!Plus(f, now)[x] = (IF x = now THEN f[x] + 1 ELSE f[x])
        /\ Limiter!Plus(g, now)[x] = (IF x = now THEN g[x] + 1 ELSE g[x])
    BY DEF Limiter!Plus, Histories
  <2>2. f[x] \in Nat /\ g[x] \in Nat /\ f[x] <= g[x]
    BY <1>3 DEF Histories
  <2> QED
    BY <2>1, <2>2
<1> QED
  BY <1>1, <1>2, <1>3

(* A call that is not refused leaves its token within the limits.            *)
LEMMA AdmissionFits ==
  ASSUME NEW a \in Histories, NEW h \in Histories, NEW now \in Seconds, now = limiter_clock,
         \A x \in Seconds : now - x < WindowSeconds => h[x] >= a[x],
         Limiter!Total(Limiter!Valid(h, now, WindowSeconds)) < PerMinute,
         Burst > 0 => Limiter!Total(Limiter!Valid(Limiter!Valid(h, now, WindowSeconds), now, 1)) < Burst,
         NEW b, b = Limiter!Plus(Limiter!Lately(a, WindowSeconds), now)
  PROVE  /\ b \in Histories
         /\ Limiter!Total(Limiter!Lately(b, WindowSeconds)) <= PerMinute
         /\ Burst > 0 => Limiter!Total(Limiter!Lately(b, 1)) <= Burst
<1>1. PICK ra : ra = Recently(a, now, WindowSeconds)
  OBVIOUS
<1>2. PICK rh : rh = Recently(h, now, WindowSeconds)
  OBVIOUS
<1>3. /\ ra \in Histories /\ rh \in Histories /\ \A x \in Seconds : ra[x] <= rh[x]
      /\ b = Limiter!Plus(ra, now) /\ b \in Histories
      /\ Limiter!Valid(h, now, WindowSeconds) = rh
  <2>1. WindowSeconds \in Nat
    BY LimiterAssumption
  <2>2. ra \in Histories /\ rh \in Histories /\ \A x \in Seconds : ra[x] <= rh[x]
    BY <1>1, <1>2, Covered
  <2>3. Limiter!Lately(a, WindowSeconds) = ra
    BY <1>1, <2>1, LimiterWords
  <2>4. b = Limiter!Plus(ra, now)
    BY <2>3
  <2>5. Limiter!Plus(ra, now) \in Histories
    BY <2>1, <2>2, LimiterWords
  <2>6. Limiter!Valid(h, now, WindowSeconds) = rh
    BY <1>2, <2>1, LimiterWords
  <2> QED
    BY <2>2, <2>4, <2>5, <2>6
<1>4. Limiter!Total(ra) <= Limiter!Total(rh) /\ Limiter!Total(b) = Limiter!Total(ra) + 1
  BY <1>3, LimiterTotals
<1>5. Limiter!Total(Limiter!Lately(b, WindowSeconds)) <= PerMinute
  <2>1. PICK lb : lb = Recently(b, now, WindowSeconds)
    OBVIOUS
  <2>2. lb \in Histories /\ Limiter!Lately(b, WindowSeconds) = lb
    BY <1>3, <2>1, LimiterWords, LimiterAssumption
  <2>3. \A x \in Seconds : lb[x] <= b[x]
    <3>1. \A x \in Seconds : b[x] \in Nat
      BY <1>3 DEF Histories
    <3> QED
      BY <2>1, <3>1 DEF Recently
  <2>4. Limiter!Total(lb) <= Limiter!Total(b)
    BY <1>3, <2>2, <2>3, LimiterTotals
  <2>5. /\ Limiter!Total(lb) \in Nat /\ Limiter!Total(b) \in Nat /\ Limiter!Total(ra) \in Nat
        /\ Limiter!Total(rh) \in Nat /\ Limiter!Total(rh) < PerMinute
    BY <1>3, <2>2, LimiterTotals
  <2> QED
    BY <1>4, <2>2, <2>4, <2>5, LimiterAssumption
<1>6. ASSUME Burst > 0 PROVE Limiter!Total(Limiter!Lately(b, 1)) <= Burst
  <2>1. PICK lb : lb = Recently(b, now, 1)
    OBVIOUS
  <2>2. PICK la : la = Recently(ra, now, 1)
    OBVIOUS
  <2>3. PICK lh : lh = Recently(rh, now, 1)
    OBVIOUS
  <2>4. /\ lb \in Histories /\ la \in Histories /\ lh \in Histories
        /\ Limiter!Lately(b, 1) = lb /\ Limiter!Valid(rh, now, 1) = lh
    BY <1>3, <2>1, <2>2, <2>3, LimiterWords
  <2>5. \A x \in Seconds : la[x] <= lh[x]
    BY <1>3, <2>2, <2>3 DEF Recently, Histories
  <2>6. PICK pa : pa = Limiter!Plus(la, now)
    OBVIOUS
  <2>7. pa \in Histories
    BY <2>4, <2>6, LimiterWords
  <2>8. ASSUME NEW x \in Seconds PROVE lb[x] <= pa[x]
    <3>1. ra[x] \in Nat /\ la[x] \in Nat
      BY <1>3, <2>4 DEF Histories
    <3>2. /\ b[x] = (IF x = now THEN ra[x] + 1 ELSE ra[x])
          /\ pa[x] = (IF x = now THEN la[x] + 1 ELSE la[x])
      BY <1>3, <2>4, <2>6 DEF Limiter!Plus, Histories
    <3>3. /\ lb[x] = (IF now - x < 1 THEN b[x] ELSE 0)
          /\ la[x] = (IF now - x < 1 THEN ra[x] ELSE 0)
      BY <2>1, <2>2 DEF Recently
    <3> QED
      BY <3>1, <3>2, <3>3
  <2>9. Limiter!Total(la) <= Limiter!Total(lh) /\ Limiter!Total(lb) <= Limiter!Total(pa)
        /\ Limiter!Total(pa) = Limiter!Total(la) + 1
    BY <2>4, <2>5, <2>6, <2>7, <2>8, LimiterTotals
  <2>10. /\ Limiter!Total(lb) \in Nat /\ Limiter!Total(pa) \in Nat /\ Limiter!Total(la) \in Nat
         /\ Limiter!Total(lh) \in Nat /\ Limiter!Total(lh) < Burst
    BY <1>3, <1>6, <2>4, <2>7, LimiterTotals
  <2> QED
    BY <2>4, <2>9, <2>10, LimiterAssumption
<1> QED
  BY <1>3, <1>5, <1>6

(* At first there is no history, no call and no admission.                   *)
LEMMA LimiterInit == Limiter!Init => LimiterInv
<1> SUFFICES ASSUME Limiter!Init PROVE LimiterInv
  OBVIOUS
<1>1. 0 \in Seconds /\ WindowSeconds \in Nat /\ \A x \in Seconds : x \in Nat
  BY LimiterAssumption DEF Seconds
<1>2. PICK h : h = [x \in Seconds |-> 0]
  OBVIOUS
<1>3. h \in Histories /\ \A x \in Seconds : h[x] = 0
  BY <1>2 DEF Histories
<1>4. Limiter!Nothing = h
  BY <1>1, <1>2, <1>3, LimiterWords
<1>5. LimiterTyped
  BY <1>1, <1>3, <1>4 DEF Limiter!Init, LimiterTyped
<1>6. Limiter!EveryHistoryEvictable
  BY DEF Limiter!Init, Limiter!EveryHistoryEvictable
<1>7. ASSUME NEW t \in Token PROVE TokenKept(t)
  <2>1. limiter_admitted[t] = h /\ limiter_clock = 0
    BY <1>4 DEF Limiter!Init
  <2>2. Covers(h, t)
    BY <1>3, <2>1 DEF Covers
  <2>3. StoresKept(t)
    BY <1>4, <2>2 DEF Limiter!Init, StoresKept, Queued, Submitting, LimiterOf
  <2>4. CallsKept(t)
    BY DEF Limiter!Init, CallsKept, LimiterOf
  <2>5. WindowKept(t)
    <3>1. ASSUME NEW n \in Nat PROVE Limiter!Lately(h, n) = h
      <4>1. Recently(h, 0, n) = h
        BY <1>2, <1>3 DEF Recently
      <4> QED
        BY <1>1, <1>3, <2>1, <4>1, LimiterWords
    <3>2. Limiter!Total(h) = 0
      <4>1. Limiter!Total(h) = SumFunctionOnSet(h, DOMAIN h)
        BY DEF Limiter!Total, Limiter!SumFunction, Limiter!SumFunctionOnSet, Limiter!FoldFunctionOnSet,
           Limiter!MapThenFoldSet, SumFunctionOnSet, FoldFunctionOnSet, MapThenFoldSet
      <4>2. DOMAIN h = Seconds
        BY <1>2
      <4>3. IsFiniteSet(Seconds)
        BY FS_Interval, LimiterAssumption DEF Seconds
      <4>4. SumFunctionOnSet(h, Seconds) = 0
        BY <1>3, <4>3, SumNothing
      <4> QED
        BY <4>1, <4>2, <4>4
    <3> QED
      BY <1>1, <2>1, <3>1, <3>2, LimiterAssumption DEF WindowKept
  <2> QED
    BY <2>3, <2>4, <2>5 DEF TokenKept
<1> QED
  BY <1>5, <1>6, <1>7 DEF LimiterInv

(* A token keeps what it has while others call, are written and evicted, the *)
(* warm tier is disabled and its own history leaves memory without a loss.   *)
LEMMA LimiterOthers ==
  ASSUME LimiterTyped, NEW t \in Token, TokenKept(t), limiter_clock' = limiter_clock,
         limiter_admitted'[t] = limiter_admitted[t], limiter_stored'[t] = limiter_stored[t],
         \A w : w \in limiter_writes' /\ w.token = t <=> w \in limiter_writes /\ w.token = t,
         \A c \in Caller : limiter_where'[c] # "away" /\ limiter_whose'[c] = t <=> LimiterOf(c, t),
         \A c \in Caller : LimiterOf(c, t) => limiter_where'[c] = limiter_where[c] /\ limiter_seen'[c] = limiter_seen[c],
         \/ /\ limiter_data'[t] = limiter_data[t]
            /\ limiter_enabled' = limiter_enabled \/ (limiter_enabled' = FALSE /\ limiter_data[t] # None)
         \/ limiter_data'[t] = None /\ limiter_enabled' = limiter_enabled /\ ~Limiter!Forgets(t)
  PROVE  TokenKept(t)'
<1>1. \A h : Covers(h, t)' <=> Covers(h, t)
  BY DEF Covers
<1>2. \A c \in Caller : LimiterOf(c, t)' <=> LimiterOf(c, t)
  BY DEF LimiterOf
<1>3. Queued(t)' <=> Queued(t)
  BY DEF Queued
<1>4. Submitting(t)' <=> Submitting(t)
  BY <1>2 DEF Submitting
<1>5. Limiter!Nothing' = Limiter!Nothing
  BY DEF Limiter!Nothing, Limiter!Time
<1>6. ASSUME ~Limiter!Forgets(t), limiter_data[t] # None
      PROVE  limiter_enabled = TRUE /\ ~Queued(t) /\ ~Submitting(t)
  BY <1>6 DEF LimiterTyped, Limiter!Forgets, Limiter!Unwritten, Limiter!Pending, Limiter!Calling, Queued, Submitting,
     LimiterOf
<1>7. StoresKept(t)'
  <2>1. limiter_data'[t] # None => limiter_data'[t] = limiter_data[t]
    OBVIOUS
  <2>2. limiter_data'[t] # None => Covers(limiter_data'[t], t)
    BY <2>1 DEF TokenKept, StoresKept
  <2>3. ASSUME limiter_data'[t] = None
        PROVE  /\ limiter_enabled' = TRUE /\ ~Queued(t) /\ ~Submitting(t)
               /\ limiter_stored[t] = None => Covers(Limiter!Nothing, t)
               /\ limiter_stored[t] # None => Covers(limiter_stored[t], t)
    <3>1. CASE limiter_data[t] = None
      BY <2>3, <3>1 DEF TokenKept, StoresKept
    <3>2. CASE limiter_data[t] # None
      <4>1. ~Limiter!Forgets(t) /\ limiter_enabled' = limiter_enabled
        BY <2>3, <3>2
      <4> QED
        BY <1>6, <3>2, <4>1 DEF TokenKept, StoresKept
    <3> QED
      BY <3>1, <3>2
  <2>4. limiter_data'[t] # None /\ limiter_enabled' = TRUE /\ ~Queued(t) /\ ~Submitting(t)
          => limiter_stored[t] # None /\ Covers(limiter_stored[t], t)
    BY <2>1 DEF TokenKept, StoresKept
  <2>5. ~Submitting(t) => \A w \in limiter_writes' : w.token = t => Covers(w.requests, t)
    BY DEF TokenKept, StoresKept
  <2>6. \A v, w \in limiter_writes' : v.token = t /\ w.token = t => v = w
    BY DEF TokenKept, StoresKept
  <2> QED
    BY <1>1, <1>3, <1>4, <1>5, <2>2, <2>3, <2>4, <2>5, <2>6 DEF StoresKept
<1>8. CallsKept(t)'
  <2>1. \A c, d \in Caller : LimiterOf(c, t)' /\ LimiterOf(d, t)' => c = d
    BY <1>2 DEF TokenKept, CallsKept
  <2>2. ASSUME NEW c \in Caller, LimiterOf(c, t) PROVE CallKept(c, t)'
    <3>1. CallKept(c, t) /\ limiter_where'[c] = limiter_where[c] /\ limiter_seen'[c] = limiter_seen[c]
      BY <2>2 DEF TokenKept, CallsKept
    <3>2. limiter_data[t] = None => limiter_data'[t] = None
      OBVIOUS
    <3>3. ASSUME limiter_where[c] = "submit", limiter_data[t] # None PROVE limiter_data'[t] # None
      <4>1. Submitting(t)
        BY <2>2, <3>3 DEF Submitting
      <4> QED
        BY <1>6, <3>3, <4>1
    <3> QED
      BY <1>1, <1>5, <3>1, <3>2, <3>3 DEF CallKept
  <2> QED
    BY <1>2, <2>1, <2>2 DEF CallsKept
<1>9. WindowKept(t)'
  <2>1. \A h, n : Limiter!Lately(h, n)' = Limiter!Lately(h, n)
    BY DEF Limiter!Lately, Limiter!Time
  <2> QED
    BY <2>1 DEF TokenKept, WindowKept
<1> QED
  BY <1>7, <1>8, <1>9 DEF TokenKept

(* What a history in memory pushes out is lost only with the token disturbed.*)
LEMMA HotSetKeeps ==
  ASSUME LimiterTyped, Limiter!EveryHistoryEvictable, NEW t \in Token, NEW h \in Histories, Limiter!HotSet(t, h)
  PROVE  /\ limiter_data' \in [Token -> Histories \cup {None}] /\ limiter_data'[t] = h
         /\ limiter_accessOrder' \in [Token -> Seconds \cup {None}]
         /\ \A u \in Token : limiter_data'[u] # None => limiter_accessOrder'[u] # None
         /\ limiter_disturbed \subseteq limiter_disturbed'
         /\ \A u \in Token \ {t} : \/ limiter_data'[u] = limiter_data[u]
                                   \/ limiter_data'[u] = None /\ (Limiter!Forgets(u) => u \in limiter_disturbed')
<1>1. None \notin Seconds /\ limiter_clock \in Seconds
  BY LimiterAssumption DEF Seconds, LimiterTyped
<1>2. CASE \E old \in Token :
             /\ limiter_data' = [limiter_data EXCEPT ![old] = None, ![t] = h]
             /\ limiter_accessOrder' = [limiter_accessOrder EXCEPT ![old] = None, ![t] = limiter_clock]
             /\ limiter_disturbed' = limiter_disturbed \cup {x \in {old} : Limiter!Forgets(x)}
  <2>1. PICK old \in Token :
             /\ limiter_data' = [limiter_data EXCEPT ![old] = None, ![t] = h]
             /\ limiter_accessOrder' = [limiter_accessOrder EXCEPT ![old] = None, ![t] = limiter_clock]
             /\ limiter_disturbed' = limiter_disturbed \cup {x \in {old} : Limiter!Forgets(x)}
    BY <1>2
  <2>2. \A u \in Token : limiter_data'[u] = IF u = t THEN h ELSE IF u = old THEN None ELSE limiter_data[u]
    BY <2>1 DEF LimiterTyped
  <2>3. \A u \in Token : limiter_accessOrder'[u]
                           = IF u = t THEN limiter_clock ELSE IF u = old THEN None ELSE limiter_accessOrder[u]
    BY <2>1 DEF LimiterTyped
  <2>4. limiter_data' \in [Token -> Histories \cup {None}] /\ limiter_accessOrder' \in [Token -> Seconds \cup {None}]
    BY <1>1, <2>1 DEF LimiterTyped
  <2>5. \A u \in Token : limiter_data'[u] # None => limiter_accessOrder'[u] # None
    BY <1>1, <2>2, <2>3 DEF Limiter!EveryHistoryEvictable
  <2>6. limiter_disturbed \subseteq limiter_disturbed' /\ (Limiter!Forgets(old) => old \in limiter_disturbed')
    BY <2>1
  <2> QED
    BY <2>2, <2>4, <2>5, <2>6
<1>3. CASE /\ limiter_data' = [limiter_data EXCEPT ![t] = h]
           /\ limiter_accessOrder' = [limiter_accessOrder EXCEPT ![t] = limiter_clock]
           /\ limiter_disturbed' = limiter_disturbed
  <2>1. limiter_data' \in [Token -> Histories \cup {None}] /\ limiter_accessOrder' \in [Token -> Seconds \cup {None}]
    BY <1>1, <1>3 DEF LimiterTyped
  <2>2. \A u \in Token : limiter_data'[u] # None => limiter_accessOrder'[u] # None
    BY <1>1, <1>3 DEF Limiter!EveryHistoryEvictable, LimiterTyped
  <2> QED
    BY <1>3, <2>1, <2>2 DEF LimiterTyped
<1> QED
  BY <1>2, <1>3 DEF Limiter!HotSet, Limiter!Oldest

(* What every step of a call leaves to the other tokens, and what is left to *)
(* show of its own.                                                          *)
LEMMA LimiterCaller ==
  ASSUME LimiterInv, NEW c \in Caller, NEW t \in Token, limiter_clock' = limiter_clock,
         limiter_where[c] = "away" \/ limiter_whose[c] = t,
         limiter_where'[c] = "away" \/ limiter_whose'[c] = t,
         \A d \in Caller \ {c} : /\ limiter_where'[d] = limiter_where[d] /\ limiter_whose'[d] = limiter_whose[d]
                                 /\ limiter_seen'[d] = limiter_seen[d],
         \A u \in Token \ {t} : limiter_admitted'[u] = limiter_admitted[u],
         \A w : w.token # t => (w \in limiter_writes' <=> w \in limiter_writes),
         limiter_stored' = limiter_stored, limiter_disturbed \subseteq limiter_disturbed',
         \A u \in Token \ ({t} \cup limiter_disturbed') :
           \/ /\ limiter_data'[u] = limiter_data[u]
              /\ limiter_enabled' = limiter_enabled \/ (limiter_enabled' = FALSE /\ limiter_data[u] # None)
           \/ limiter_data'[u] = None /\ limiter_enabled' = limiter_enabled /\ ~Limiter!Forgets(u),
         LimiterTyped', Limiter!EveryHistoryEvictable',
         t \notin limiter_disturbed' => TokenKept(t)'
  PROVE  LimiterInv'
<1>1. ASSUME NEW u \in Token, u # t, u \notin limiter_disturbed' PROVE TokenKept(u)'
  <2>1. TokenKept(u) /\ LimiterTyped
    BY <1>1 DEF LimiterInv
  <2>2. \A w : w \in limiter_writes' /\ w.token = u <=> w \in limiter_writes /\ w.token = u
    BY <1>1
  <2>3. \A d \in Caller : limiter_where'[d] # "away" /\ limiter_whose'[d] = u <=> LimiterOf(d, u)
    BY <1>1 DEF LimiterOf
  <2>4. \A d \in Caller : LimiterOf(d, u) => limiter_where'[d] = limiter_where[d] /\ limiter_seen'[d] = limiter_seen[d]
    BY <1>1 DEF LimiterOf
  <2>5. limiter_admitted'[u] = limiter_admitted[u] /\ limiter_stored'[u] = limiter_stored[u]
    BY <1>1
  <2>6. \/ /\ limiter_data'[u] = limiter_data[u]
           /\ limiter_enabled' = limiter_enabled \/ (limiter_enabled' = FALSE /\ limiter_data[u] # None)
        \/ limiter_data'[u] = None /\ limiter_enabled' = limiter_enabled /\ ~Limiter!Forgets(u)
    BY <1>1
  <2> QED
    BY <2>1, <2>2, <2>3, <2>4, <2>5, <2>6, LimiterOthers
<1>2. \A u \in Token \ limiter_disturbed' : TokenKept(u)'
  BY <1>1
<1> QED
  BY <1>2 DEF LimiterInv

(* The only call of a token is the only one after its step.                  *)
LEMMA LimiterAlone ==
  ASSUME NEW t \in Token, NEW c \in Caller, CallsKept(t),
         LimiterOf(c, t) \/ \A d \in Caller : ~LimiterOf(d, t),
         \A d \in Caller \ {c} : limiter_where'[d] = limiter_where[d] /\ limiter_whose'[d] = limiter_whose[d],
         LimiterOf(c, t)' => CallKept(c, t)'
  PROVE  /\ CallsKept(t)'
         /\ Submitting(t)' <=> (LimiterOf(c, t)' /\ limiter_where'[c] = "submit")
         /\ Submitting(t) <=> (LimiterOf(c, t) /\ limiter_where[c] = "submit")
<1>1. \A d \in Caller : LimiterOf(d, t) => d = c
  BY DEF CallsKept
<1>2. \A d \in Caller : LimiterOf(d, t)' => d = c
  BY <1>1 DEF LimiterOf
<1>3. CallsKept(t)'
  BY <1>2 DEF CallsKept
<1> QED
  BY <1>1, <1>2, <1>3 DEF Submitting

(* A step that only reads leaves what is stored and what was admitted.       *)
LEMMA LimiterReads ==
  ASSUME NEW t \in Token, StoresKept(t), WindowKept(t), Submitting(t)' <=> Submitting(t),
         UNCHANGED <<limiter_clock, limiter_data, limiter_stored, limiter_enabled, limiter_writes, limiter_admitted>>
  PROVE  StoresKept(t)' /\ WindowKept(t)'
<1>1. \A h : Covers(h, t)' <=> Covers(h, t)
  BY DEF Covers
<1>2. Queued(t)' <=> Queued(t)
  BY DEF Queued
<1>3. Limiter!Nothing' = Limiter!Nothing
  BY DEF Limiter!Nothing, Limiter!Time
<1>4. \A h, n : Limiter!Lately(h, n)' = Limiter!Lately(h, n)
  BY DEF Limiter!Lately, Limiter!Time
<1>5. StoresKept(t)'
  BY <1>1, <1>2, <1>3 DEF StoresKept
<1>6. WindowKept(t)'
  BY <1>4 DEF WindowKept
<1> QED
  BY <1>5, <1>6

(* CheckLimit begins.                                                        *)
LEMMA CheckLimitKeeps ==
  ASSUME LimiterInv, NEW c \in Caller, NEW t \in Token, Limiter!CheckLimit(c, t)
  PROVE  LimiterInv'
<1> USE DEF Limiter!CheckLimit, Limiter!Goto, Limiter!hotTier, Limiter!warmTier
<1>1. LimiterTyped
  BY DEF LimiterInv
<1>2. LimiterTyped'
  BY <1>1 DEF LimiterTyped
<1>3. Limiter!EveryHistoryEvictable'
  BY DEF LimiterInv, Limiter!EveryHistoryEvictable
<1>4. ASSUME t \notin limiter_disturbed' PROVE TokenKept(t)'
  <2>1. TokenKept(t)
    BY <1>4 DEF LimiterInv
  <2>2. \A d \in Caller : ~LimiterOf(d, t)
    BY <1>4 DEF Limiter!Calling, LimiterOf
  <2>3. limiter_where'[c] = "hot"
    BY <1>1 DEF LimiterTyped
  <2>4. CallKept(c, t)'
    BY <2>3 DEF CallKept
  <2>5. \A d \in Caller \ {c} : limiter_where'[d] = limiter_where[d] /\ limiter_whose'[d] = limiter_whose[d]
    BY <1>1 DEF LimiterTyped
  <2>6. CallsKept(t)' /\ (Submitting(t)' <=> Submitting(t))
    BY <2>1, <2>2, <2>3, <2>4, <2>5, LimiterAlone DEF TokenKept
  <2>7. StoresKept(t)' /\ WindowKept(t)'
    BY <2>1, <2>6, LimiterReads DEF TokenKept
  <2> QED
    BY <2>6, <2>7 DEF TokenKept
<1>5. \A d \in Caller \ {c} : /\ limiter_where'[d] = limiter_where[d] /\ limiter_whose'[d] = limiter_whose[d]
                              /\ limiter_seen'[d] = limiter_seen[d]
  BY <1>1 DEF LimiterTyped
<1>6. limiter_where[c] = "away" /\ limiter_whose'[c] = t
  BY <1>1 DEF LimiterTyped
<1>7. /\ \A u \in Token \ {t} : limiter_admitted'[u] = limiter_admitted[u]
      /\ \A w : w.token # t => (w \in limiter_writes' <=> w \in limiter_writes)
      /\ limiter_clock' = limiter_clock /\ limiter_stored' = limiter_stored
      /\ limiter_disturbed \subseteq limiter_disturbed'
      /\ limiter_data' = limiter_data /\ limiter_enabled' = limiter_enabled
  OBVIOUS
<1> HIDE DEF Limiter!CheckLimit
<1> QED
  BY <1>2, <1>3, <1>4, <1>5, <1>6, <1>7, LimiterCaller

(* A step of a call that only reads, and possibly ends it.                   *)
LEMMA ReadingKeeps ==
  ASSUME LimiterInv, NEW c \in Caller, NEW t \in Token, LimiterOf(c, t), limiter_where[c] # "submit",
         limiter_where'[c] # "submit", limiter_where'[c] = "away" \/ limiter_whose'[c] = t,
         \A d \in Caller \ {c} : /\ limiter_where'[d] = limiter_where[d] /\ limiter_whose'[d] = limiter_whose[d]
                                 /\ limiter_seen'[d] = limiter_seen[d],
         UNCHANGED <<limiter_clock, limiter_data, limiter_stored, limiter_enabled, limiter_writes, limiter_admitted,
                     limiter_disturbed>>,
         LimiterTyped', Limiter!EveryHistoryEvictable',
         limiter_where'[c] # "away" /\ TokenKept(t) => CallKept(c, t)'
  PROVE  LimiterInv'
<1>1. ASSUME t \notin limiter_disturbed' PROVE TokenKept(t)'
  <2>1. TokenKept(t)
    BY <1>1 DEF LimiterInv
  <2>2. LimiterOf(c, t)' => CallKept(c, t)'
    BY <2>1 DEF LimiterOf
  <2>3. CallsKept(t)' /\ (Submitting(t)' <=> Submitting(t))
    BY <2>1, <2>2, LimiterAlone DEF TokenKept
  <2>4. StoresKept(t)' /\ WindowKept(t)'
    BY <2>1, <2>3, LimiterReads DEF TokenKept
  <2> QED
    BY <2>3, <2>4 DEF TokenKept
<1>2. limiter_whose[c] = t
  BY DEF LimiterOf
<1> QED
  BY <1>1, <1>2, LimiterCaller

(* HotGet reads memory.                                                      *)
LEMMA HotGetKeeps ==
  ASSUME LimiterInv, NEW c \in Caller, Limiter!HotGet(c)
  PROVE  LimiterInv'
<1> USE DEF Limiter!HotGet, Limiter!Goto, Limiter!hotTier, Limiter!warmTier
<1>1. LimiterTyped
  BY DEF LimiterInv
<1>2. PICK t \in Token : t = limiter_whose[c] /\ LimiterOf(c, t)
  BY <1>1 DEF LimiterTyped, LimiterOf
<1>3. PICK found \in BOOLEAN : found <=> limiter_data[t] # None
  OBVIOUS
<1>4. /\ limiter_where' = [limiter_where EXCEPT ![c] = IF found THEN "touch" ELSE "warm"]
      /\ limiter_seen' = [limiter_seen EXCEPT ![c] = IF found THEN limiter_data[t] ELSE Limiter!Nothing]
  BY <1>2, <1>3
<1>5. (IF found THEN limiter_data[t] ELSE Limiter!Nothing) \in Histories
  <2>1. Limiter!Nothing \in Histories
    BY <1>1, LimiterWords, LimiterAssumption DEF LimiterTyped
  <2> QED
    BY <1>1, <1>3, <2>1 DEF LimiterTyped
<1>6. LimiterTyped'
  BY <1>1, <1>4, <1>5 DEF LimiterTyped
<1>7. Limiter!EveryHistoryEvictable'
  BY DEF LimiterInv, Limiter!EveryHistoryEvictable
<1>8. /\ limiter_where'[c] = (IF found THEN "touch" ELSE "warm")
      /\ limiter_seen'[c] = (IF found THEN limiter_data[t] ELSE Limiter!Nothing)
  BY <1>1, <1>4 DEF LimiterTyped
<1>9. ASSUME TokenKept(t) PROVE CallKept(c, t)'
  <2>1. found => Covers(limiter_data[t], t)
    BY <1>3, <1>9 DEF TokenKept, StoresKept
  <2>2. \A h : Covers(h, t)' <=> Covers(h, t)
    BY DEF Covers
  <2>3. Limiter!Nothing' = Limiter!Nothing
    BY DEF Limiter!Nothing, Limiter!Time
  <2> QED
    BY <1>3, <1>8, <2>1, <2>2, <2>3 DEF CallKept
<1>10. \A d \in Caller \ {c} : /\ limiter_where'[d] = limiter_where[d] /\ limiter_whose'[d] = limiter_whose[d]
                               /\ limiter_seen'[d] = limiter_seen[d]
  BY <1>1, <1>4 DEF LimiterTyped
<1> QED
  BY <1>2, <1>6, <1>7, <1>8, <1>9, <1>10, ReadingKeeps

(* Touch notes the access.                                                   *)
LEMMA TouchKeeps ==
  ASSUME LimiterInv, NEW c \in Caller, Limiter!Touch(c)
  PROVE  LimiterInv'
<1> USE DEF Limiter!Touch, Limiter!Goto, Limiter!warmTier
<1>1. LimiterTyped
  BY DEF LimiterInv
<1>2. PICK t \in Token : t = limiter_whose[c] /\ LimiterOf(c, t)
  BY <1>1 DEF LimiterTyped, LimiterOf
<1>3. LimiterTyped'
  BY <1>1, <1>2 DEF LimiterTyped
<1>4. Limiter!EveryHistoryEvictable'
  <2>1. limiter_clock # None
    BY <1>1, LimiterAssumption DEF LimiterTyped, Seconds
  <2> QED
    BY <1>1, <1>2, <2>1 DEF LimiterInv, LimiterTyped, Limiter!EveryHistoryEvictable
<1>5. limiter_where'[c] = "decide" /\ limiter_seen'[c] = limiter_seen[c]
  BY <1>1 DEF LimiterTyped
<1>6. ASSUME TokenKept(t) PROVE CallKept(c, t)'
  <2>1. Covers(limiter_seen[c], t)
    BY <1>2, <1>6 DEF TokenKept, CallsKept, CallKept
  <2>2. \A h : Covers(h, t)' <=> Covers(h, t)
    BY DEF Covers
  <2> QED
    BY <1>5, <2>1, <2>2 DEF CallKept
<1>7. \A d \in Caller \ {c} : /\ limiter_where'[d] = limiter_where[d] /\ limiter_whose'[d] = limiter_whose[d]
                              /\ limiter_seen'[d] = limiter_seen[d]
  BY <1>1 DEF LimiterTyped
<1> QED
  BY <1>2, <1>3, <1>4, <1>5, <1>6, <1>7, ReadingKeeps

(* Refuse ends the call.                                                     *)
LEMMA RefuseKeeps ==
  ASSUME LimiterInv, NEW c \in Caller, Limiter!Refuse(c)
  PROVE  LimiterInv'
<1> USE DEF Limiter!Refuse, Limiter!Return, Limiter!Goto, Limiter!hotTier, Limiter!warmTier
<1>1. LimiterTyped
  BY DEF LimiterInv
<1>2. PICK t \in Token : t = limiter_whose[c] /\ LimiterOf(c, t)
  BY <1>1 DEF LimiterTyped, LimiterOf
<1>3. LimiterTyped'
  <2>1. 0 \in Seconds
    BY LimiterAssumption DEF Seconds
  <2>2. Limiter!Nothing \in Histories
    BY DEF Limiter!Nothing, Limiter!Time, Histories, Seconds
  <2> QED
    BY <1>1, <2>1, <2>2 DEF LimiterTyped
<1>4. Limiter!EveryHistoryEvictable'
  BY DEF LimiterInv, Limiter!EveryHistoryEvictable
<1>5. limiter_where'[c] = "away"
  BY <1>1 DEF LimiterTyped
<1>6. \A d \in Caller \ {c} : /\ limiter_where'[d] = limiter_where[d] /\ limiter_whose'[d] = limiter_whose[d]
                              /\ limiter_seen'[d] = limiter_seen[d]
  BY <1>1 DEF LimiterTyped
<1> QED
  BY <1>2, <1>3, <1>4, <1>5, <1>6, ReadingKeeps

(* An error of the warm tier: what only Redis has is disturbed.              *)
LEMMA ErrorKeeps ==
  ASSUME LimiterTyped, NEW t \in Token, Limiter!HandleError(t)
  PROVE  /\ limiter_enabled' \in BOOLEAN /\ limiter_disturbed \subseteq limiter_disturbed' /\ t \in limiter_disturbed'
         /\ \A u \in Token \ limiter_disturbed' :
              limiter_enabled' = limiter_enabled \/ (limiter_enabled' = FALSE /\ limiter_data[u] # None)
<1>1. limiter_enabled \in BOOLEAN
  BY DEF LimiterTyped
<1>2. limiter_enabled' = (limiter_enabled /\ limiter_errorCount + 1 < MaxErrors)
  BY DEF Limiter!HandleError
<1>3. limiter_enabled' = limiter_enabled \/ limiter_enabled' = FALSE
  <2>1. CASE limiter_errorCount + 1 < MaxErrors
    BY <1>1, <1>2, <2>1, Zenon
  <2>2. CASE ~(limiter_errorCount + 1 < MaxErrors)
    BY <1>1, <1>2, <2>2, Zenon
  <2> QED
    BY <2>1, <2>2
<1>4. limiter_disturbed' = limiter_disturbed \cup {t} \cup {u \in Token : ~limiter_enabled' /\ limiter_data[u] = None}
  BY DEF Limiter!HandleError
<1> QED
  BY <1>1, <1>3, <1>4

(* WarmGet reads Redis, or fails.                                            *)
LEMMA WarmGetKeeps ==
  ASSUME LimiterInv, NEW c \in Caller, Limiter!WarmGet(c)
  PROVE  LimiterInv'
<1>1. LimiterTyped
  BY DEF LimiterInv
<1>2. PICK t \in Token : t = limiter_whose[c] /\ LimiterOf(c, t)
  BY <1>1 DEF LimiterTyped, LimiterOf, Limiter!WarmGet
<1>3. /\ limiter_where[c] = "warm"
      /\ UNCHANGED <<limiter_clock, limiter_begun, limiter_data, limiter_accessOrder, limiter_stored, limiter_writes,
                     limiter_whose, limiter_since, limiter_admitted>>
  BY DEF Limiter!WarmGet, Limiter!hotTier
<1>4. Limiter!EveryHistoryEvictable'
  BY <1>3 DEF LimiterInv, Limiter!EveryHistoryEvictable
<1>5. CASE /\ limiter_enabled = FALSE \/ limiter_stored[t] = None
           /\ limiter_where' = [limiter_where EXCEPT ![c] = "decide"]
           /\ UNCHANGED <<limiter_seen, limiter_enabled, limiter_disturbed>>
  <2>1. LimiterTyped'
    BY <1>1, <1>3, <1>5 DEF LimiterTyped
  <2>2. limiter_where'[c] = "decide"
    BY <1>1, <1>5 DEF LimiterTyped
  <2>3. ASSUME TokenKept(t) PROVE CallKept(c, t)'
    <3>1. limiter_seen[c] = Limiter!Nothing /\ limiter_data[t] = None
      BY <1>2, <1>3, <2>3 DEF TokenKept, CallsKept, CallKept
    <3>2. Covers(limiter_seen[c], t)
      BY <1>5, <2>3, <3>1 DEF TokenKept, StoresKept
    <3>3. \A h : Covers(h, t)' <=> Covers(h, t)
      BY <1>3 DEF Covers
    <3> QED
      BY <1>5, <2>2, <3>2, <3>3 DEF CallKept
  <2>4. \A d \in Caller \ {c} : /\ limiter_where'[d] = limiter_where[d] /\ limiter_whose'[d] = limiter_whose[d]
                                /\ limiter_seen'[d] = limiter_seen[d]
    BY <1>1, <1>3, <1>5 DEF LimiterTyped
  <2> QED
    BY <1>2, <1>3, <1>4, <1>5, <2>1, <2>2, <2>3, <2>4, ReadingKeeps
<1>6. CASE /\ limiter_enabled /\ limiter_stored[t] # None
           /\ limiter_seen' = [limiter_seen EXCEPT ![c] = limiter_stored[t]]
           /\ limiter_where' = [limiter_where EXCEPT ![c] = "promote"]
           /\ UNCHANGED <<limiter_enabled, limiter_disturbed>>
  <2>1. LimiterTyped'
    <3>1. limiter_stored[t] \in Histories
      BY <1>1, <1>6 DEF LimiterTyped
    <3> QED
      BY <1>1, <1>3, <1>6, <3>1 DEF LimiterTyped
  <2>2. limiter_where'[c] = "promote" /\ limiter_seen'[c] = limiter_stored[t]
    BY <1>1, <1>6 DEF LimiterTyped
  <2>3. ASSUME TokenKept(t) PROVE CallKept(c, t)'
    <3>1. limiter_data[t] = None
      BY <1>2, <1>3, <2>3 DEF TokenKept, CallsKept, CallKept
    <3>2. Covers(limiter_stored[t], t)
      BY <1>6, <2>3, <3>1 DEF TokenKept, StoresKept
    <3>3. \A h : Covers(h, t)' <=> Covers(h, t)
      BY <1>3 DEF Covers
    <3> QED
      BY <1>3, <1>6, <2>2, <3>1, <3>2, <3>3 DEF CallKept
  <2>4. \A d \in Caller \ {c} : /\ limiter_where'[d] = limiter_where[d] /\ limiter_whose'[d] = limiter_whose[d]
                                /\ limiter_seen'[d] = limiter_seen[d]
    BY <1>1, <1>3, <1>6 DEF LimiterTyped
  <2> QED
    BY <1>2, <1>3, <1>4, <1>6, <2>1, <2>2, <2>3, <2>4, ReadingKeeps
<1>7. CASE /\ Limiter!HandleError(t) /\ limiter_where' = [limiter_where EXCEPT ![c] = "decide"]
           /\ UNCHANGED limiter_seen
  <2>1. /\ limiter_enabled' \in BOOLEAN /\ limiter_disturbed \subseteq limiter_disturbed' /\ t \in limiter_disturbed'
        /\ \A u \in Token \ limiter_disturbed' :
             limiter_enabled' = limiter_enabled \/ (limiter_enabled' = FALSE /\ limiter_data[u] # None)
    BY <1>1, <1>7, ErrorKeeps
  <2>2. LimiterTyped'
    BY <1>1, <1>3, <1>7, <2>1 DEF LimiterTyped
  <2>3. \A d \in Caller \ {c} : /\ limiter_where'[d] = limiter_where[d] /\ limiter_whose'[d] = limiter_whose[d]
                                /\ limiter_seen'[d] = limiter_seen[d]
    BY <1>1, <1>3, <1>7 DEF LimiterTyped
  <2>4. limiter_whose[c] = t /\ limiter_whose'[c] = t
    BY <1>2, <1>3
  <2> QED
    BY <1>3, <1>4, <2>1, <2>2, <2>3, <2>4, LimiterCaller
<1> QED
  BY <1>1, <1>2, <1>5, <1>6, <1>7 DEF Limiter!WarmGet, Limiter!Goto, Limiter!ResetErrorCount, LimiterTyped

(* Promote brings into memory what Redis has.                                *)
LEMMA PromoteKeeps ==
  ASSUME LimiterInv, NEW c \in Caller, Limiter!Promote(c)
  PROVE  LimiterInv'
<1>1. LimiterTyped /\ Limiter!EveryHistoryEvictable
  BY DEF LimiterInv
<1>2. PICK t \in Token : t = limiter_whose[c] /\ LimiterOf(c, t)
  BY <1>1 DEF LimiterTyped, LimiterOf, Limiter!Promote
<1>3. /\ limiter_where[c] = "promote" /\ limiter_where' = [limiter_where EXCEPT ![c] = "decide"]
      /\ UNCHANGED <<limiter_clock, limiter_stored, limiter_enabled, limiter_writes, limiter_whose, limiter_since,
                     limiter_seen, limiter_admitted>>
  BY DEF Limiter!Promote, Limiter!Goto, Limiter!warmTier
<1>4. limiter_seen[c] \in Histories /\ Limiter!HotSet(t, limiter_seen[c])
  BY <1>1, <1>2 DEF Limiter!Promote, LimiterTyped
<1>5. /\ limiter_data' \in [Token -> Histories \cup {None}] /\ limiter_data'[t] = limiter_seen[c]
      /\ limiter_accessOrder' \in [Token -> Seconds \cup {None}]
      /\ \A u \in Token : limiter_data'[u] # None => limiter_accessOrder'[u] # None
      /\ limiter_disturbed \subseteq limiter_disturbed'
      /\ \A u \in Token \ {t} : \/ limiter_data'[u] = limiter_data[u]
                                \/ limiter_data'[u] = None /\ (Limiter!Forgets(u) => u \in limiter_disturbed')
  BY <1>1, <1>4, HotSetKeeps
<1>6. LimiterTyped' /\ Limiter!EveryHistoryEvictable'
  BY <1>1, <1>3, <1>5 DEF LimiterTyped, Limiter!EveryHistoryEvictable
<1>7. ASSUME t \notin limiter_disturbed' PROVE TokenKept(t)'
  <2>1. TokenKept(t)
    BY <1>5, <1>7 DEF LimiterInv
  <2>2. /\ Covers(limiter_seen[c], t) /\ limiter_data[t] = None /\ limiter_stored[t] # None
    BY <1>2, <1>3, <2>1 DEF TokenKept, CallsKept, CallKept
  <2>3. \A h : Covers(h, t)' <=> Covers(h, t)
    BY <1>3 DEF Covers
  <2>4. limiter_where'[c] = "decide"
    BY <1>1, <1>3 DEF LimiterTyped
  <2>5. CallKept(c, t)'
    BY <1>3, <2>2, <2>3, <2>4 DEF CallKept
  <2>6. \A d \in Caller \ {c} : limiter_where'[d] = limiter_where[d] /\ limiter_whose'[d] = limiter_whose[d]
    BY <1>1, <1>3 DEF LimiterTyped
  <2>7. CallsKept(t)' /\ (Submitting(t)' <=> Submitting(t))
    BY <1>2, <1>3, <2>1, <2>4, <2>5, <2>6, LimiterAlone DEF TokenKept
  <2>8. limiter_data'[t] # None
    BY <1>4, <1>5, LimiterAssumption DEF Histories, Seconds
  <2>9. StoresKept(t)'
    BY <1>3, <1>5, <2>1, <2>2, <2>3, <2>7, <2>8 DEF TokenKept, StoresKept, Queued
  <2>10. WindowKept(t)'
    <3>1. \A h, n : Limiter!Lately(h, n)' = Limiter!Lately(h, n)
      BY <1>3 DEF Limiter!Lately, Limiter!Time
    <3> QED
      BY <1>3, <2>1, <3>1 DEF TokenKept, WindowKept
  <2> QED
    BY <2>7, <2>9, <2>10 DEF TokenKept
<1>8. \A d \in Caller \ {c} : /\ limiter_where'[d] = limiter_where[d] /\ limiter_whose'[d] = limiter_whose[d]
                              /\ limiter_seen'[d] = limiter_seen[d]
  BY <1>1, <1>3 DEF LimiterTyped
<1>9. limiter_whose[c] = t /\ limiter_whose'[c] = t
  BY <1>2, <1>3
<1> QED
  BY <1>3, <1>5, <1>6, <1>7, <1>8, <1>9, LimiterCaller

(* Admit counts the request in memory: what it decided on covers what was    *)
(* admitted, hence what it writes covers that with the request.              *)
LEMMA AdmitKeeps ==
  ASSUME LimiterInv, NEW c \in Caller, Limiter!Admit(c)
  PROVE  LimiterInv'
<1>1. LimiterTyped /\ Limiter!EveryHistoryEvictable
  BY DEF LimiterInv
<1>2. PICK t \in Token : t = limiter_whose[c] /\ LimiterOf(c, t)
  BY <1>1 DEF LimiterTyped, LimiterOf, Limiter!Admit
<1>3. PICK h \in Histories : h = limiter_seen[c]
  BY <1>1 DEF LimiterTyped
<1>4. PICK now \in Seconds : now = limiter_clock /\ now = limiter_since[c]
  BY <1>1, <1>2 DEF LimiterTyped, LimiterOf
<1>5. WindowSeconds \in Nat
  BY LimiterAssumption
<1>6. PICK r : r = Limiter!Plus(Limiter!Valid(h, now, WindowSeconds), now)
  OBVIOUS
<1>7. r \in Histories
  <2>1. Limiter!Valid(h, now, WindowSeconds) \in Histories
    BY <1>5, LimiterWords
  <2> QED
    BY <1>5, <1>6, <2>1, LimiterWords
<1>8. PICK b : b = Limiter!Plus(Limiter!Lately(limiter_admitted[t], WindowSeconds), now)
  OBVIOUS
<1>9. /\ limiter_where[c] = "decide" /\ limiter_where' = [limiter_where EXCEPT ![c] = "submit"]
      /\ Limiter!HotSet(t, r) /\ limiter_seen' = [limiter_seen EXCEPT ![c] = r]
      /\ limiter_admitted' = [limiter_admitted EXCEPT ![t] = IF t \in limiter_disturbed' THEN Limiter!Nothing ELSE b]
      /\ UNCHANGED <<limiter_clock, limiter_stored, limiter_enabled, limiter_writes, limiter_whose, limiter_since>>
  BY <1>2, <1>3, <1>4, <1>6, <1>8 DEF Limiter!Admit, Limiter!History, Limiter!Goto, Limiter!warmTier
<1>10. /\ limiter_data' \in [Token -> Histories \cup {None}] /\ limiter_data'[t] = r
       /\ limiter_accessOrder' \in [Token -> Seconds \cup {None}]
       /\ \A u \in Token : limiter_data'[u] # None => limiter_accessOrder'[u] # None
       /\ limiter_disturbed \subseteq limiter_disturbed'
       /\ \A u \in Token \ {t} : \/ limiter_data'[u] = limiter_data[u]
                                 \/ limiter_data'[u] = None /\ (Limiter!Forgets(u) => u \in limiter_disturbed')
  BY <1>1, <1>7, <1>9, HotSetKeeps
<1>11. PICK a \in Histories : a = limiter_admitted[t]
  BY <1>1 DEF LimiterTyped
<1>12. b \in Histories
  <2>1. Limiter!Lately(a, WindowSeconds) \in Histories
    BY <1>4, <1>5, LimiterWords
  <2> QED
    BY <1>5, <1>8, <1>11, <2>1, LimiterWords
<1>13. LimiterTyped' /\ Limiter!EveryHistoryEvictable'
  <2>1. Limiter!Nothing \in Histories
    BY DEF Limiter!Nothing, Limiter!Time, Histories, Seconds
  <2>2. limiter_admitted' \in [Token -> Histories]
    BY <1>1, <1>9, <1>12, <2>1 DEF LimiterTyped
  <2>3. limiter_seen' \in [Caller -> Histories]
    BY <1>1, <1>7, <1>9 DEF LimiterTyped
  <2> QED
    BY <1>1, <1>9, <1>10, <2>2, <2>3 DEF LimiterTyped, Limiter!EveryHistoryEvictable
<1>14. ASSUME t \notin limiter_disturbed' PROVE TokenKept(t)'
  <2>1. TokenKept(t)
    BY <1>10, <1>14 DEF LimiterInv
  <2>2. Covers(h, t)
    BY <1>2, <1>3, <1>9, <2>1 DEF TokenKept, CallsKept, CallKept
  <2>3. \A x \in Seconds : now - x < WindowSeconds => h[x] >= a[x]
    BY <1>4, <1>11, <2>2 DEF Covers
  <2>4. limiter_admitted'[t] = b
    BY <1>1, <1>9, <1>14 DEF LimiterTyped
  <2>5. b = Limiter!Plus(Recently(a, now, WindowSeconds), now) /\ r = Limiter!Plus(Recently(h, now, WindowSeconds), now)
    <3>1. Limiter!Lately(a, WindowSeconds) = Recently(a, now, WindowSeconds)
      BY <1>4, <1>5, LimiterWords
    <3>2. Limiter!Valid(h, now, WindowSeconds) = Recently(h, now, WindowSeconds)
      BY <1>5, LimiterWords
    <3> QED
      BY <1>6, <1>8, <1>11, <3>1, <3>2
  <2>6. \A x \in Seconds : b[x] <= r[x]
    BY <2>3, <2>5, Covered
  <2>7. Covers(r, t)'
    <3>1. \A x \in Seconds : b[x] \in Nat /\ r[x] \in Nat /\ r[x] >= b[x]
      BY <1>7, <1>12, <2>6 DEF Histories
    <3> QED
      BY <2>4, <3>1 DEF Covers
  <2>8. limiter_where'[c] = "submit" /\ limiter_seen'[c] = r
    BY <1>1, <1>9 DEF LimiterTyped
  <2>9. limiter_data'[t] # None
    BY <1>7, <1>10, LimiterAssumption DEF Histories, Seconds
  <2>10. CallKept(c, t)'
    BY <2>7, <2>8, <2>9 DEF CallKept
  <2>11. \A d \in Caller \ {c} : limiter_where'[d] = limiter_where[d] /\ limiter_whose'[d] = limiter_whose[d]
    BY <1>1, <1>9 DEF LimiterTyped
  <2>12. LimiterOf(c, t)'
    BY <1>2, <1>9, <2>8 DEF LimiterOf
  <2>13. CallsKept(t)' /\ Submitting(t)'
    BY <1>2, <2>1, <2>8, <2>10, <2>11, <2>12, LimiterAlone DEF TokenKept
  <2>14. StoresKept(t)'
    BY <1>9, <1>10, <2>1, <2>7, <2>9, <2>13 DEF TokenKept, StoresKept
  <2>15. WindowKept(t)'
    <3>1. /\ Limiter!Total(Limiter!Valid(h, now, WindowSeconds)) < PerMinute
          /\ Burst > 0 => Limiter!Total(Limiter!Valid(Limiter!Valid(h, now, WindowSeconds), now, 1)) < Burst
      <4>1. ~(Limiter!Total(Limiter!Valid(h, now, WindowSeconds)) >= PerMinute)
        BY <1>3, <1>4 DEF Limiter!Admit, Limiter!Refused, Limiter!History
      <4>2. Burst > 0 => ~(Limiter!Total(Limiter!Valid(Limiter!Valid(h, now, WindowSeconds), now, 1)) >= Burst)
        BY <1>3, <1>4 DEF Limiter!Admit, Limiter!Refused, Limiter!History, Limiter!Recent
      <4>3. Limiter!Valid(h, now, WindowSeconds) \in Histories
        BY <1>5, LimiterWords
      <4>4. Limiter!Valid(Limiter!Valid(h, now, WindowSeconds), now, 1) \in Histories
        BY <4>3, LimiterWords
      <4>5. /\ Limiter!Total(Limiter!Valid(h, now, WindowSeconds)) \in Nat
            /\ Limiter!Total(Limiter!Valid(Limiter!Valid(h, now, WindowSeconds), now, 1)) \in Nat
        BY <4>3, <4>4, LimiterTotals
      <4> QED
        BY <4>1, <4>2, <4>5, LimiterAssumption
    <3>2. b = Limiter!Plus(Limiter!Lately(a, WindowSeconds), now)
      BY <1>8, <1>11
    <3>3. /\ Limiter!Total(Limiter!Lately(b, WindowSeconds)) <= PerMinute
          /\ Burst > 0 => Limiter!Total(Limiter!Lately(b, 1)) <= Burst
      BY <1>4, <2>3, <3>1, <3>2, AdmissionFits
    <3>4. \A f, n : Limiter!Lately(f, n)' = Limiter!Lately(f, n)
      BY <1>9 DEF Limiter!Lately, Limiter!Time
    <3> QED
      BY <2>4, <3>3, <3>4 DEF WindowKept
  <2> QED
    BY <2>13, <2>14, <2>15 DEF TokenKept
<1>15. \A d \in Caller \ {c} : /\ limiter_where'[d] = limiter_where[d] /\ limiter_whose'[d] = limiter_whose[d]
                               /\ limiter_seen'[d] = limiter_seen[d]
  BY <1>1, <1>9 DEF LimiterTyped
<1>16. /\ limiter_whose[c] = t /\ limiter_whose'[c] = t
       /\ \A u \in Token \ {t} : limiter_admitted'[u] = limiter_admitted[u]
  BY <1>1, <1>2, <1>9 DEF LimiterTyped
<1> QED
  BY <1>9, <1>10, <1>13, <1>14, <1>15, <1>16, LimiterCaller

(* Submit leaves the write to the pool, which takes one of a token at a time.*)
LEMMA SubmitKeeps ==
  ASSUME LimiterInv, NEW c \in Caller, Limiter!Submit(c)
  PROVE  LimiterInv'
<1>1. LimiterTyped
  BY DEF LimiterInv
<1>2. PICK t \in Token : t = limiter_whose[c] /\ LimiterOf(c, t)
  BY <1>1 DEF LimiterTyped, LimiterOf, Limiter!Submit
<1>3. PICK h \in Histories : h = limiter_seen[c]
  BY <1>1 DEF LimiterTyped
<1>4. /\ limiter_where[c] = "submit" /\ limiter_where' = [limiter_where EXCEPT ![c] = "away"]
      /\ limiter_whose' = [limiter_whose EXCEPT ![c] = None]
      /\ limiter_since' = [limiter_since EXCEPT ![c] = 0]
      /\ limiter_seen' = [limiter_seen EXCEPT ![c] = Limiter!Nothing]
      /\ UNCHANGED <<limiter_clock, limiter_data, limiter_accessOrder, limiter_stored, limiter_enabled, limiter_admitted>>
  BY DEF Limiter!Submit, Limiter!Return, Limiter!Goto, Limiter!hotTier, Limiter!warmTier
<1>5. \/ /\ limiter_writes' = limiter_writes \cup {[token |-> t, requests |-> h]}
         /\ limiter_disturbed' = limiter_disturbed \cup {x \in {t} : Limiter!Pending(t) # {}}
      \/ limiter_writes' = limiter_writes /\ limiter_disturbed' = limiter_disturbed \cup {t}
  BY <1>2, <1>3 DEF Limiter!Submit
<1>6. LimiterTyped'
  <2>1. 0 \in Seconds
    BY LimiterAssumption DEF Seconds
  <2>2. Limiter!Nothing \in Histories
    BY DEF Limiter!Nothing, Limiter!Time, Histories, Seconds
  <2>3. \A w \in limiter_writes' : w.token \in Token /\ w.requests \in Histories
    BY <1>1, <1>5 DEF LimiterTyped
  <2>4. \A d \in Caller : limiter_where'[d] # "away" => d # c
    BY <1>1, <1>4 DEF LimiterTyped
  <2>5. \A d \in Caller : limiter_where'[d] # "away" => limiter_whose'[d] \in Token /\ limiter_since'[d] = limiter_clock
    BY <1>1, <1>4, <2>4 DEF LimiterTyped
  <2> QED
    BY <1>1, <1>4, <2>1, <2>2, <2>3, <2>5 DEF LimiterTyped
<1>7. Limiter!EveryHistoryEvictable'
  BY <1>4 DEF LimiterInv, Limiter!EveryHistoryEvictable
<1>8. \A d \in Caller \ {c} : /\ limiter_where'[d] = limiter_where[d] /\ limiter_whose'[d] = limiter_whose[d]
                              /\ limiter_seen'[d] = limiter_seen[d]
  BY <1>1, <1>4 DEF LimiterTyped
<1>9. limiter_where'[c] = "away" /\ limiter_whose[c] = t
  BY <1>1, <1>2, <1>4 DEF LimiterTyped
<1>10. ASSUME t \notin limiter_disturbed' PROVE TokenKept(t)'
  <2>1. /\ limiter_writes' = limiter_writes \cup {[token |-> t, requests |-> h]}
        /\ \A w \in limiter_writes : w.token # t
    BY <1>5, <1>10 DEF Limiter!Pending
  <2>2. TokenKept(t)
    BY <1>5, <1>10 DEF LimiterInv
  <2>3. Covers(h, t) /\ limiter_data[t] # None
    BY <1>2, <1>3, <1>4, <2>2 DEF TokenKept, CallsKept, CallKept
  <2>4. ~LimiterOf(c, t)'
    BY <1>9 DEF LimiterOf
  <2>5. CallsKept(t)'
    BY <1>2, <1>8, <2>2, <2>4, LimiterAlone DEF TokenKept
  <2>6. \A f : Covers(f, t)' <=> Covers(f, t)
    BY <1>4 DEF Covers
  <2>7. [token |-> t, requests |-> h].token = t /\ [token |-> t, requests |-> h].requests = h
    OBVIOUS
  <2>8. Queued(t)'
    BY <2>1, <2>7 DEF Queued
  <2>9. /\ \A w \in limiter_writes' : w.token = t => w.requests = h
        /\ \A v, w \in limiter_writes' : v.token = t /\ w.token = t => v = w
    BY <2>1
  <2>10. StoresKept(t)'
    BY <1>4, <2>2, <2>3, <2>6, <2>8, <2>9 DEF TokenKept, StoresKept
  <2>11. WindowKept(t)'
    <3>1. \A f, n : Limiter!Lately(f, n)' = Limiter!Lately(f, n)
      BY <1>4 DEF Limiter!Lately, Limiter!Time
    <3> QED
      BY <1>4, <2>2, <3>1 DEF TokenKept, WindowKept
  <2> QED
    BY <2>5, <2>10, <2>11 DEF TokenKept
<1>11. limiter_disturbed \subseteq limiter_disturbed'
  BY <1>5
<1>12. \A w : w.token # t => (w \in limiter_writes' <=> w \in limiter_writes)
  BY <1>5
<1> QED
  BY <1>4, <1>6, <1>7, <1>8, <1>9, <1>10, <1>11, <1>12, LimiterCaller

(* WarmSet carries a history to Redis, the last one if its token is kept.    *)
LEMMA WarmSetKeeps ==
  ASSUME LimiterInv, NEW w \in limiter_writes, Limiter!WarmSet(w)
  PROVE  LimiterInv'
<1>1. LimiterTyped
  BY DEF LimiterInv
<1>2. PICK t \in Token : t = w.token
  BY <1>1 DEF LimiterTyped
<1>3. PICK h \in Histories : h = w.requests
  BY <1>1 DEF LimiterTyped
<1>4. /\ limiter_writes' = limiter_writes \ {w}
      /\ UNCHANGED <<limiter_clock, limiter_data, limiter_accessOrder, limiter_where, limiter_whose, limiter_since,
                     limiter_seen, limiter_admitted>>
  BY DEF Limiter!WarmSet, Limiter!hotTier, Limiter!callers
<1>5. Limiter!EveryHistoryEvictable'
  BY <1>4 DEF LimiterInv, Limiter!EveryHistoryEvictable
<1>6. \A u \in Token \ {t} :
        /\ limiter_admitted'[u] = limiter_admitted[u] /\ limiter_data'[u] = limiter_data[u]
        /\ \A v : v \in limiter_writes' /\ v.token = u <=> v \in limiter_writes /\ v.token = u
        /\ \A c \in Caller : limiter_where'[c] # "away" /\ limiter_whose'[c] = u <=> LimiterOf(c, u)
        /\ \A c \in Caller : LimiterOf(c, u) => limiter_where'[c] = limiter_where[c] /\ limiter_seen'[c] = limiter_seen[c]
  BY <1>2, <1>4 DEF LimiterOf
<1>7. CASE limiter_enabled = TRUE /\ limiter_stored' = [limiter_stored EXCEPT ![t] = h]
           /\ limiter_enabled' = limiter_enabled /\ limiter_disturbed' = limiter_disturbed
  <2>1. LimiterTyped'
    BY <1>1, <1>4, <1>7 DEF LimiterTyped
  <2>2. ASSUME NEW u \in Token, u # t, u \notin limiter_disturbed' PROVE TokenKept(u)'
    <3>1. TokenKept(u)
      BY <1>7, <2>2 DEF LimiterInv
    <3>2. limiter_stored'[u] = limiter_stored[u]
      BY <1>1, <1>7, <2>2 DEF LimiterTyped
    <3> QED
      BY <1>1, <1>4, <1>6, <1>7, <2>2, <3>1, <3>2, LimiterOthers
  <2>3. ASSUME t \notin limiter_disturbed' PROVE TokenKept(t)'
    <3>1. TokenKept(t)
      BY <1>7, <2>3 DEF LimiterInv
    <3>2. Queued(t) /\ ~Queued(t)'
      BY <1>2, <1>4, <3>1 DEF TokenKept, StoresKept, Queued
    <3>3. limiter_data[t] # None
      BY <3>1, <3>2 DEF TokenKept, StoresKept
    <3>4. ~Submitting(t) => Covers(h, t)
      BY <1>2, <1>3, <3>1 DEF TokenKept, StoresKept
    <3>5. limiter_stored'[t] = h /\ h # None
      BY <1>1, <1>7, LimiterAssumption DEF LimiterTyped, Histories, Seconds
    <3>6. \A f : Covers(f, t)' <=> Covers(f, t)
      BY <1>4 DEF Covers
    <3>7. (\A c \in Caller : LimiterOf(c, t)' <=> LimiterOf(c, t)) /\ (Submitting(t)' <=> Submitting(t))
      BY <1>4 DEF LimiterOf, Submitting
    <3>8. StoresKept(t)'
      BY <1>4, <3>1, <3>2, <3>3, <3>4, <3>5, <3>6, <3>7 DEF TokenKept, StoresKept
    <3>9. CallsKept(t)'
      <4>1. ASSUME NEW c \in Caller, LimiterOf(c, t) PROVE CallKept(c, t)'
        <5>1. CallKept(c, t)
          BY <3>1, <4>1 DEF TokenKept, CallsKept
        <5> QED
          BY <1>4, <3>3, <3>6, <5>1 DEF CallKept
      <4> QED
        BY <3>1, <3>7, <4>1 DEF TokenKept, CallsKept
    <3>10. WindowKept(t)'
      <4>1. \A f, n : Limiter!Lately(f, n)' = Limiter!Lately(f, n)
        BY <1>4 DEF Limiter!Lately, Limiter!Time
      <4> QED
        BY <1>4, <3>1, <4>1 DEF TokenKept, WindowKept
    <3> QED
      BY <3>8, <3>9, <3>10 DEF TokenKept
  <2> QED
    BY <1>5, <2>1, <2>2, <2>3 DEF LimiterInv
<1>8. CASE /\ Limiter!HandleError(t) \/ (limiter_disturbed' = limiter_disturbed \cup {t} /\ limiter_enabled' = limiter_enabled)
           /\ limiter_stored' = limiter_stored
  <2>1. /\ limiter_enabled' \in BOOLEAN /\ limiter_disturbed \subseteq limiter_disturbed' /\ t \in limiter_disturbed'
        /\ \A u \in Token \ limiter_disturbed' :
             limiter_enabled' = limiter_enabled \/ (limiter_enabled' = FALSE /\ limiter_data[u] # None)
    <3>1. CASE Limiter!HandleError(t)
      BY <1>1, <3>1, ErrorKeeps
    <3>2. CASE limiter_disturbed' = limiter_disturbed \cup {t} /\ limiter_enabled' = limiter_enabled
      BY <1>1, <3>2 DEF LimiterTyped
    <3> QED
      BY <1>8, <3>1, <3>2
  <2>2. LimiterTyped'
    BY <1>1, <1>4, <1>8, <2>1 DEF LimiterTyped
  <2>3. ASSUME NEW u \in Token, u \notin limiter_disturbed' PROVE TokenKept(u)'
    <3>1. TokenKept(u) /\ u # t
      BY <2>1, <2>3 DEF LimiterInv
    <3>2. limiter_enabled' = limiter_enabled \/ (limiter_enabled' = FALSE /\ limiter_data[u] # None)
      BY <2>1, <2>3
    <3> QED
      BY <1>1, <1>4, <1>6, <1>8, <3>1, <3>2, LimiterOthers
  <2> QED
    BY <1>5, <2>2, <2>3 DEF LimiterInv
<1> QED
  BY <1>1, <1>2, <1>3, <1>7, <1>8 DEF Limiter!WarmSet, Limiter!ResetErrorCount, Limiter!warmTier, LimiterTyped

(* ClearTokenCache disturbs its token only.                                  *)
LEMMA ClearTokenCacheKeeps ==
  ASSUME LimiterInv, NEW t \in Token, Limiter!ClearTokenCache(t)
  PROVE  LimiterInv'
<1>1. LimiterTyped
  BY DEF LimiterInv
<1>2. /\ limiter_data' = [limiter_data EXCEPT ![t] = None]
      /\ limiter_accessOrder' = [limiter_accessOrder EXCEPT ![t] = None]
      /\ limiter_stored' = [limiter_stored EXCEPT ![t] = None] \/ limiter_stored' = limiter_stored
      /\ limiter_disturbed' = limiter_disturbed \cup {t}
      /\ UNCHANGED <<limiter_clock, limiter_enabled, limiter_writes, limiter_where, limiter_whose, limiter_since,
                     limiter_seen, limiter_admitted>>
  BY DEF Limiter!ClearTokenCache, Limiter!callers
<1>3. LimiterTyped'
  BY <1>1, <1>2 DEF LimiterTyped
<1>4. Limiter!EveryHistoryEvictable'
  BY <1>1, <1>2 DEF LimiterInv, Limiter!EveryHistoryEvictable, LimiterTyped
<1>5. ASSUME NEW u \in Token, u \notin limiter_disturbed' PROVE TokenKept(u)'
  <2>1. TokenKept(u) /\ u # t
    BY <1>2, <1>5 DEF LimiterInv
  <2>2. limiter_data'[u] = limiter_data[u] /\ limiter_stored'[u] = limiter_stored[u]
    BY <1>1, <1>2, <2>1 DEF LimiterTyped
  <2>3. \A c \in Caller : limiter_where'[c] # "away" /\ limiter_whose'[c] = u <=> LimiterOf(c, u)
    BY <1>2 DEF LimiterOf
  <2> QED
    BY <1>1, <1>2, <2>1, <2>2, <2>3, LimiterOthers
<1> QED
  BY <1>3, <1>4, <1>5 DEF LimiterInv

(* Cleanup removes what is idle; what it loses is disturbed.                 *)
LEMMA CleanupKeeps ==
  ASSUME LimiterInv, Limiter!Cleanup
  PROVE  LimiterInv'
<1>1. LimiterTyped
  BY DEF LimiterInv
<1>2. PICK idle \in SUBSET Token :
        /\ limiter_data' = [t \in Token |-> IF t \in idle THEN None ELSE limiter_data[t]]
        /\ limiter_accessOrder' = [t \in Token |-> IF t \in idle THEN None ELSE limiter_accessOrder[t]]
        /\ limiter_disturbed' = limiter_disturbed \cup {t \in idle : Limiter!Forgets(t)}
        /\ UNCHANGED <<limiter_clock, limiter_stored, limiter_enabled, limiter_writes, limiter_where, limiter_whose,
                       limiter_since, limiter_seen, limiter_admitted>>
  BY DEF Limiter!Cleanup, Limiter!callers, Limiter!warmTier
<1>3. LimiterTyped'
  BY <1>1, <1>2 DEF LimiterTyped
<1>4. Limiter!EveryHistoryEvictable'
  BY <1>1, <1>2 DEF LimiterInv, Limiter!EveryHistoryEvictable, LimiterTyped
<1>5. ASSUME NEW u \in Token, u \notin limiter_disturbed' PROVE TokenKept(u)'
  <2>1. TokenKept(u)
    BY <1>2, <1>5 DEF LimiterInv
  <2>2. \/ limiter_data'[u] = limiter_data[u]
        \/ limiter_data'[u] = None /\ ~Limiter!Forgets(u)
    BY <1>2, <1>5
  <2>3. \A c \in Caller : limiter_where'[c] # "away" /\ limiter_whose'[c] = u <=> LimiterOf(c, u)
    BY <1>2 DEF LimiterOf
  <2> QED
    BY <1>1, <1>2, <2>1, <2>2, <2>3, LimiterOthers
<1> QED
  BY <1>3, <1>4, <1>5 DEF LimiterInv

(* Time passes between the calls: the window only loses requests.            *)
LEMMA TickKeeps ==
  ASSUME LimiterInv, Limiter!Tick
  PROVE  LimiterInv'
<1>1. LimiterTyped
  BY DEF LimiterInv
<1>2. /\ limiter_clock < LimiterTime /\ limiter_clock' = limiter_clock + 1 /\ limiter_writes = {}
      /\ \A c \in Caller : limiter_where[c] = "away"
      /\ UNCHANGED <<limiter_data, limiter_accessOrder, limiter_stored, limiter_enabled, limiter_writes, limiter_where,
                     limiter_whose, limiter_since, limiter_seen, limiter_admitted, limiter_disturbed>>
  BY DEF Limiter!Tick, Limiter!hotTier, Limiter!warmTier, Limiter!callers
<1>3. limiter_clock' \in Seconds /\ limiter_clock \in Seconds /\ \A x \in Seconds : x \in Nat
  BY <1>1, <1>2, LimiterAssumption DEF LimiterTyped, Seconds
<1>4. LimiterTyped'
  BY <1>1, <1>2, <1>3 DEF LimiterTyped
<1>5. Limiter!EveryHistoryEvictable'
  BY <1>2 DEF LimiterInv, Limiter!EveryHistoryEvictable
<1>6. ASSUME NEW u \in Token, u \notin limiter_disturbed' PROVE TokenKept(u)'
  <2>1. TokenKept(u)
    BY <1>2, <1>6 DEF LimiterInv
  <2>2. \A n \in Nat, x \in Seconds : limiter_clock' - x < n => limiter_clock - x < n
    BY <1>2, <1>3
  <2>3. \A h : Covers(h, u) => Covers(h, u)'
    <3>1. WindowSeconds \in Nat
      BY LimiterAssumption
    <3> QED
      BY <1>2, <2>2, <3>1 DEF Covers
  <2>4. ~Submitting(u) /\ ~Submitting(u)' /\ ~Queued(u) /\ ~Queued(u)'
    BY <1>2 DEF Submitting, LimiterOf, Queued
  <2>5. Limiter!Nothing' = Limiter!Nothing
    BY DEF Limiter!Nothing, Limiter!Time
  <2>6. StoresKept(u)'
    BY <1>2, <2>1, <2>3, <2>4, <2>5 DEF TokenKept, StoresKept
  <2>7. CallsKept(u)'
    BY <1>2 DEF CallsKept, LimiterOf
  <2>8. ASSUME NEW n \in Nat
        PROVE  /\ Limiter!Total(Limiter!Lately(limiter_admitted[u], n)') <= Limiter!Total(Limiter!Lately(limiter_admitted[u], n))
               /\ Limiter!Total(Limiter!Lately(limiter_admitted[u], n)') \in Nat
               /\ Limiter!Total(Limiter!Lately(limiter_admitted[u], n)) \in Nat
    <3>1. PICK a \in Histories : a = limiter_admitted[u]
      BY <1>1 DEF LimiterTyped
    <3>2. PICK now \in Seconds : now = limiter_clock
      BY <1>3
    <3>3. PICK later \in Seconds : later = limiter_clock'
      BY <1>3
    <3>4. PICK f : f = Recently(a, now, n)
      OBVIOUS
    <3>5. PICK g : g = Recently(a, later, n)
      OBVIOUS
    <3>6. f \in Histories /\ Limiter!Lately(limiter_admitted[u], n) = f
      BY <3>1, <3>2, <3>4, LimiterWords
    <3>7. g \in Histories
      BY <3>5, LimiterWords
    <3>8. Limiter!Lately(limiter_admitted[u], n)' = g
      BY <1>2, <3>1, <3>3, <3>5 DEF Limiter!Lately, Limiter!Time, Recently, Seconds
    <3>9. \A x \in Seconds : g[x] <= f[x]
      <4>1. \A x \in Seconds : a[x] \in Nat
        BY DEF Histories
      <4> QED
        BY <2>2, <3>2, <3>3, <3>4, <3>5, <4>1 DEF Recently
    <3> QED
      BY <3>6, <3>7, <3>8, <3>9, LimiterTotals
  <2>9. WindowKept(u)'
    <3>1. limiter_admitted'[u] = limiter_admitted[u]
      BY <1>2
    <3>2. \A n \in Nat : /\ Limiter!Total(Limiter!Lately(limiter_admitted[u], n))' <= Limiter!Total(Limiter!Lately(limiter_admitted[u], n))
                         /\ Limiter!Total(Limiter!Lately(limiter_admitted[u], n))' \in Nat
                         /\ Limiter!Total(Limiter!Lately(limiter_admitted[u], n)) \in Nat
      BY <2>8, <3>1
    <3>3. WindowSeconds \in Nat /\ 1 \in Nat /\ PerMinute \in Nat /\ Burst \in Nat
      BY LimiterAssumption
    <3>4. Limiter!Total(Limiter!Lately(limiter_admitted[u], WindowSeconds))' <= PerMinute
      BY <2>1, <3>2, <3>3 DEF TokenKept, WindowKept
    <3>5. Burst > 0 => Limiter!Total(Limiter!Lately(limiter_admitted[u], 1))' <= Burst
      BY <2>1, <3>2, <3>3 DEF TokenKept, WindowKept
    <3> QED
      BY <3>1, <3>4, <3>5 DEF WindowKept
  <2> QED
    BY <2>6, <2>7, <2>9 DEF TokenKept
<1> QED
  BY <1>4, <1>5, <1>6 DEF LimiterInv

(* Every step keeps it.                                                      *)
LEMMA LimiterNext == LimiterInv /\ [Limiter!Next]_limiter_vars => LimiterInv'
<1> SUFFICES ASSUME LimiterInv, [Limiter!Next]_limiter_vars PROVE LimiterInv'
  OBVIOUS
<1>1. CASE Limiter!Next
  BY <1>1, CheckLimitKeeps, HotGetKeeps, TouchKeeps, WarmGetKeeps, PromoteKeeps, RefuseKeeps, AdmitKeeps, SubmitKeeps,
     WarmSetKeeps, ClearTokenCacheKeeps, CleanupKeeps, TickKeeps DEF Limiter!Next
<1>2. CASE UNCHANGED limiter_vars
  <2>1. UNCHANGED <<limiter_clock, limiter_data, limiter_accessOrder, limiter_stored, limiter_enabled, limiter_writes,
                    limiter_where, limiter_whose, limiter_since, limiter_seen, limiter_admitted, limiter_disturbed>>
    BY <1>2 DEF limiter_vars
  <2>2. LimiterTyped /\ LimiterTyped'
    BY <2>1 DEF LimiterInv, LimiterTyped
  <2>3. Limiter!EveryHistoryEvictable'
    BY <2>1 DEF LimiterInv, Limiter!EveryHistoryEvictable
  <2>4. ASSUME NEW t \in Token, t \notin limiter_disturbed' PROVE TokenKept(t)'
    <3>1. TokenKept(t)
      BY <2>1, <2>4 DEF LimiterInv
    <3>2. \A c \in Caller : limiter_where'[c] # "away" /\ limiter_whose'[c] = t <=> LimiterOf(c, t)
      BY <2>1 DEF LimiterOf
    <3> QED
      BY <2>1, <2>2, <3>1, <3>2, LimiterOthers
  <2> QED
    BY <2>2, <2>3, <2>4 DEF LimiterInv
<1> QED
  BY <1>1, <1>2

(* It says what the window promises, and that what is in memory can leave it.*)
LEMMA LimiterSafe == LimiterInv => WindowRespected
BY DEF LimiterInv, TokenKept, WindowKept, WindowRespected, Limiter!WindowRespected

-----------------------------------------------------------------------------
(***************************************************************************)
(* The caches of codes: whose program a caller runs, how often it is       *)
(* compiled, and what a shard keeps.                                       *)
(***************************************************************************)

CodeSteps == {"look again", "goja", "put", "deliver"}
Approved == {"validated", "compile", "waits", "answered"} \cup CodeSteps
Ran(c) == IF c \in Compiles THEN c ELSE "syntax error"
Entry(V) == [code : Code, value : V]
Verdict == Entry({"ok", "error"})
Program == Entry(Code)

CodesTyped ==
  /\ codes_at \in [Caller -> {"idle", "validate", "refused"} \cup Approved]
  /\ codes_held \in [Caller -> Code \cup {None}] /\ codes_got = [k \in Caller |-> codes_got[k]]
  /\ codes_flight \in [Code -> Caller \cup {None}]
  /\ codes_compiled \in [Code -> Nat] /\ codes_dropped \in [Code -> Nat]
  /\ codes_verdicts \in [Codes!Shards -> Seq(Verdict)]
  /\ \A s \in Codes!Shards : Len(codes_verdicts[s]) <= ShardSize
  /\ codes_programs \in [Codes!Shards -> Seq(Program)]
  /\ codes_since \in [Code -> {None} \cup SUBSET Code]
  /\ \A k \in Caller : codes_at[k] # "idle" => codes_held[k] \in Code

(* What is stored and what is given is about the code it is given for.       *)
CodesOwn ==
  /\ \A s \in Codes!Shards :
       /\ \A i \in DOMAIN codes_verdicts[s] :
            codes_verdicts[s][i].value = "ok" => codes_verdicts[s][i].code \in ValidCodes
       /\ \A i \in DOMAIN codes_programs[s] : /\ codes_programs[s][i].code \in Compiles
                                              /\ codes_programs[s][i].value = codes_programs[s][i].code
  /\ \A k \in Caller :
       /\ codes_at[k] \in Approved => Normal[codes_held[k]] \in ValidCodes
       /\ codes_at[k] = "put" => codes_held[k] \in Compiles
       /\ codes_at[k] \in {"put", "deliver", "answered"} => codes_got[k] = Ran(codes_held[k])

(* Who works on a code is who has its flight, and who waits finds one.       *)
CodesShared ==
  \A k \in Caller :
    /\ \A c \in Code : codes_flight[c] = k <=> codes_held[k] = c /\ codes_at[k] \in CodeSteps
    /\ codes_at[k] = "waits" => codes_flight[codes_held[k]] # None

(* A compilation is in the cache, evicted, or on its way into the cache.     *)
Putting(c) == \E k \in Caller : codes_held[k] = c /\ codes_at[k] = "put"
CodesCounted ==
  /\ \A k \in Caller : codes_at[k] \in {"goja", "put"} => ~Codes!Found(codes_programs, codes_held[k])
  /\ \A c \in Code : c \in Compiles =>
       codes_compiled[c] = codes_dropped[c] + (IF Codes!Found(codes_programs, c) THEN 1 ELSE 0)
                                            + (IF Putting(c) THEN 1 ELSE 0)

(* The codes before an entry are those used since its code was; a code that  *)
(* was used and is no longer there has seen all that are there.              *)
Stacked(list, use, s) ==
  /\ Len(list) <= ShardSize
  /\ \A i \in 1 .. Len(list) :
       /\ Shard[list[i].code] = s
       /\ use[list[i].code] = {list[j].code : j \in 1 .. i - 1}
       /\ \A j \in 1 .. Len(list) : list[i].code = list[j].code => i = j
  /\ \A c \in Code : Shard[c] = s /\ c \notin Codes!Codes(list) /\ use[c] # None
                       => Len(list) = ShardSize /\ Codes!Codes(list) \subseteq use[c]
CodesRecent == \A s \in Codes!Shards : Stacked(codes_programs[s], codes_since, s)
CodesFinite == \A c \in Code : codes_since[c] # None => IsFiniteSet(codes_since[c])

CodesInv == CodesTyped /\ CodesOwn /\ CodesShared /\ CodesCounted /\ CodesRecent /\ CodesFinite

(* What a list is after an entry of it has moved to the front.               *)
LEMMA MovedList ==
  ASSUME NEW E, NEW list \in Seq(E), NEW c, c \in Codes!Codes(list), NEW v, [code |-> c, value |-> v] \in E
  PROVE  LET p == Codes!Place(list, c) new == Codes!Moved(list, c, v)
         IN /\ p \in 1 .. Len(list) /\ list[p].code = c
            /\ new \in Seq(E) /\ Len(new) = Len(list) /\ new[1] = [code |-> c, value |-> v]
            /\ \A j \in 2 .. p : new[j] = list[j - 1]
            /\ \A j \in p + 1 .. Len(list) : new[j] = list[j]
<1> DEFINE e == [code |-> c, value |-> v]
<1>0. PICK p : p = Codes!Place(list, c)
  OBVIOUS
<1>1. DOMAIN list = 1 .. Len(list) /\ Len(list) \in Nat
  BY LenProperties
<1>2. p \in 1 .. Len(list) /\ list[p].code = c
  <2>1. \E i \in DOMAIN list : list[i].code = c
    BY DEF Codes!Codes
  <2> QED
    BY <1>0, <1>1, <2>1 DEF Codes!Place
<1>3. PICK a : a = SubSeq(list, 1, p - 1)
  OBVIOUS
<1>4. PICK b : b = SubSeq(list, p + 1, Len(list))
  OBVIOUS
<1>5. a \in Seq(E) /\ Len(a) = p - 1 /\ \A j \in 1 .. p - 1 : a[j] = list[j]
  <2>1. \A i \in 1 .. p - 1 : list[i] \in E
    BY <1>1, <1>2, ElementOfSeq
  <2>2. 1 \in Int /\ p - 1 \in Int
    BY <1>1, <1>2
  <2>3. /\ SubSeq(list, 1, p - 1) \in Seq(E)
        /\ Len(SubSeq(list, 1, p - 1)) = IF 1 <= p - 1 THEN (p - 1) - 1 + 1 ELSE 0
        /\ \A i \in 1 .. (p - 1) - 1 + 1 : SubSeq(list, 1, p - 1)[i] = list[1 + i - 1]
    BY <2>1, <2>2, SubSeqProperties
  <2> QED
    BY <1>1, <1>2, <1>3, <2>3
<1>6. b \in Seq(E) /\ Len(b) = Len(list) - p /\ \A j \in 1 .. Len(list) - p : b[j] = list[j + p]
  <2>1. \A i \in p + 1 .. Len(list) : list[i] \in E
    BY <1>1, <1>2, ElementOfSeq
  <2>2. p + 1 \in Int /\ Len(list) \in Int
    BY <1>1, <1>2
  <2>3. /\ SubSeq(list, p + 1, Len(list)) \in Seq(E)
        /\ Len(SubSeq(list, p + 1, Len(list))) = IF p + 1 <= Len(list) THEN Len(list) - (p + 1) + 1 ELSE 0
        /\ \A i \in 1 .. Len(list) - (p + 1) + 1 : SubSeq(list, p + 1, Len(list))[i] = list[(p + 1) + i - 1]
    BY <2>1, <2>2, SubSeqProperties
  <2> QED
    BY <1>1, <1>2, <1>4, <2>3
<1>7. PICK rest : rest = a \o b
  OBVIOUS
<1>8. /\ rest \in Seq(E) /\ Len(rest) = Len(list) - 1
      /\ \A j \in 1 .. p - 1 : rest[j] = list[j]
      /\ \A j \in p .. Len(list) - 1 : rest[j] = list[j + 1]
  <2>1. /\ rest \in Seq(E) /\ Len(rest) = Len(a) + Len(b)
        /\ \A i \in 1 .. Len(a) + Len(b) : rest[i] = IF i <= Len(a) THEN a[i] ELSE b[i - Len(a)]
    BY <1>5, <1>6, <1>7, ConcatProperties
  <2>2. Len(rest) = Len(list) - 1
    BY <1>1, <1>2, <1>5, <1>6, <2>1
  <2>3. ASSUME NEW j \in 1 .. p - 1 PROVE rest[j] = list[j]
    <3>1. j \in 1 .. Len(a) + Len(b) /\ j <= Len(a)
      BY <1>1, <1>2, <1>5, <1>6
    <3> QED
      BY <1>5, <2>1, <3>1
  <2>4. ASSUME NEW j \in p .. Len(list) - 1 PROVE rest[j] = list[j + 1]
    <3>1. j \in 1 .. Len(a) + Len(b) /\ ~(j <= Len(a)) /\ j - Len(a) \in 1 .. Len(list) - p /\ (j - Len(a)) + p = j + 1
      BY <1>1, <1>2, <1>5, <1>6
    <3> QED
      BY <1>6, <2>1, <3>1
  <2> QED
    BY <2>1, <2>2, <2>3, <2>4
<1>9. PICK new : new = <<e>> \o rest
  OBVIOUS
<1>10. Codes!Moved(list, c, v) = new
  BY <1>0, <1>3, <1>4, <1>7, <1>9 DEF Codes!Moved, Codes!RemoveAt
<1>11. /\ new \in Seq(E) /\ Len(new) = Len(list) /\ new[1] = e
       /\ \A j \in 2 .. Len(list) : new[j] = rest[j - 1]
  <2>1. <<e>> \in Seq(E) /\ Len(<<e>>) = 1 /\ <<e>>[1] = e
    OBVIOUS
  <2>2. /\ new \in Seq(E) /\ Len(new) = 1 + Len(rest)
        /\ \A i \in 1 .. 1 + Len(rest) : new[i] = IF i <= 1 THEN <<e>>[i] ELSE rest[i - 1]
    BY <1>8, <1>9, <2>1, ConcatProperties
  <2> QED
    BY <1>1, <1>2, <1>8, <2>1, <2>2
<1>12. ASSUME NEW j \in 2 .. p PROVE new[j] = list[j - 1]
  BY <1>1, <1>2, <1>8, <1>11
<1>13. ASSUME NEW j \in p + 1 .. Len(list) PROVE new[j] = list[j]
  <2>1. j \in 2 .. Len(list) /\ j - 1 \in p .. Len(list) - 1 /\ (j - 1) + 1 = j
    BY <1>1, <1>2
  <2> QED
    BY <1>8, <1>11, <2>1
<1> QED
  BY <1>0, <1>2, <1>10, <1>11, <1>12, <1>13

(* What a list is after an entry was put in front of it, and after its last  *)
(* one was taken away.                                                       *)
LEMMA PushedList ==
  ASSUME NEW E, NEW list \in Seq(E), NEW e \in E
  PROVE  /\ <<e>> \o list \in Seq(E) /\ Len(<<e>> \o list) = Len(list) + 1
         /\ (<<e>> \o list)[1] = e
         /\ \A j \in 2 .. Len(list) + 1 : (<<e>> \o list)[j] = list[j - 1]
<1>1. <<e>> \in Seq(E) /\ Len(<<e>>) = 1 /\ <<e>>[1] = e /\ Len(list) \in Nat
  BY LenProperties
<1>2. /\ <<e>> \o list \in Seq(E) /\ Len(<<e>> \o list) = 1 + Len(list)
      /\ \A i \in 1 .. 1 + Len(list) : (<<e>> \o list)[i] = IF i <= 1 THEN <<e>>[i] ELSE list[i - 1]
  BY <1>1, ConcatProperties
<1> QED
  BY <1>1, <1>2

(* Front of a list that is not empty.                                        *)
LEMMA FrontList ==
  ASSUME NEW E, NEW list \in Seq(E), Len(list) > 0
  PROVE  /\ Codes!Front(list) \in Seq(E) /\ Len(Codes!Front(list)) = Len(list) - 1
         /\ \A j \in 1 .. Len(list) - 1 : Codes!Front(list)[j] = list[j]
<1>1. Len(list) \in Nat
  BY LenProperties
<1>2. \A i \in 1 .. Len(list) - 1 : list[i] \in E
  BY <1>1, ElementOfSeq
<1>3. 1 \in Int /\ Len(list) - 1 \in Int
  BY <1>1
<1>4. /\ SubSeq(list, 1, Len(list) - 1) \in Seq(E)
      /\ Len(SubSeq(list, 1, Len(list) - 1)) = IF 1 <= Len(list) - 1 THEN (Len(list) - 1) - 1 + 1 ELSE 0
      /\ \A i \in 1 .. (Len(list) - 1) - 1 + 1 : SubSeq(list, 1, Len(list) - 1)[i] = list[1 + i - 1]
  BY <1>2, <1>3, SubSeqProperties
<1>5. PICK f : f = SubSeq(list, 1, Len(list) - 1)
  OBVIOUS
<1>6. f \in Seq(E)
  BY <1>4, <1>5
<1>8. Len(f) = Len(list) - 1
  <2>1. CASE 1 <= Len(list) - 1
    BY <1>1, <1>4, <1>5, <2>1
  <2>2. CASE ~(1 <= Len(list) - 1)
    <3>1. Len(f) = IF 1 <= Len(list) - 1 THEN (Len(list) - 1) - 1 + 1 ELSE 0
      BY <1>4, <1>5
    <3>2. Len(list) = 1
      <4>1. PICK n \in Nat : n = Len(list)
        BY <1>1
      <4>2. n > 0 /\ ~(1 <= n - 1)
        BY <2>2, <4>1
      <4>3. n = 1
        BY <4>2
      <4> QED
        BY <4>1, <4>3
    <3> QED
      BY <2>2, <3>1, <3>2
  <2> QED
    BY <2>1, <2>2
<1>9. ASSUME NEW j \in 1 .. Len(list) - 1 PROVE f[j] = list[j]
  <2>1. j \in 1 .. (Len(list) - 1) - 1 + 1 /\ 1 + j - 1 = j
    BY <1>1
  <2> QED
    BY <1>4, <1>5, <2>1
<1>7. Codes!Front(list) = f
  BY <1>5 DEF Codes!Front
<1> QED
  BY <1>6, <1>7, <1>8, <1>9

(* What a use of c does to since.                                            *)
Touched(use, c) == [d \in Code |-> IF d = c THEN {}
                                   ELSE IF Shard[d] = Shard[c] /\ use[d] # None THEN use[d] \cup {c}
                                   ELSE use[d]]

(* What Stacked says of a sequence of entries, by their places.              *)
LEMMA Entries ==
  ASSUME NEW list \in Seq(Program)
  PROVE  /\ Len(list) \in Nat /\ \A i \in 1 .. Len(list) : list[i] \in Program /\ list[i].code \in Code
         /\ \A c : c \in Codes!Codes(list) <=> \E i \in 1 .. Len(list) : list[i].code = c
<1>1. Len(list) \in Nat /\ DOMAIN list = 1 .. Len(list)
  BY LenProperties
<1>2. \A i \in 1 .. Len(list) : list[i] \in Program
  BY ElementOfSeq
<1> QED
  BY <1>1, <1>2 DEF Codes!Codes, Program, Entry

(* The order after an entry has moved to the front.                          *)
LEMMA StackMoves ==
  ASSUME NEW list \in Seq(Program), NEW use \in [Code -> {None} \cup SUBSET Code], NEW s, Stacked(list, use, s),
         NEW c \in Code, c \in Codes!Codes(list), Shard[c] = s, NEW v \in Code
  PROVE  /\ Stacked(Codes!Moved(list, c, v), Touched(use, c), s)
         /\ Codes!Codes(Codes!Moved(list, c, v)) = Codes!Codes(list)
<1>1. PICK new : new = Codes!Moved(list, c, v)
  OBVIOUS
<1>2. PICK p : p = Codes!Place(list, c)
  OBVIOUS
<1>3. [code |-> c, value |-> v] \in Program
  BY DEF Program, Entry
<1>4. /\ p \in 1 .. Len(list) /\ list[p].code = c
      /\ new \in Seq(Program) /\ Len(new) = Len(list) /\ new[1] = [code |-> c, value |-> v]
      /\ \A j \in 2 .. p : new[j] = list[j - 1]
      /\ \A j \in p + 1 .. Len(list) : new[j] = list[j]
  BY <1>1, <1>2, <1>3, MovedList
<1>5. Len(list) \in Nat /\ \A i \in 1 .. Len(list) : list[i].code \in Code
  BY Entries
<1>6. PICK use2 : use2 = Touched(use, c)
  OBVIOUS
<1>7. use2[c] = {} /\ \A d \in Code : d # c => use2[d] = IF Shard[d] = s /\ use[d] # None THEN use[d] \cup {c} ELSE use[d]
  BY <1>6 DEF Touched
<1> DEFINE Old(j) == IF j = 1 THEN p ELSE IF j <= p THEN j - 1 ELSE j
<1>8. \A j \in 1 .. Len(list) : Old(j) \in 1 .. Len(list) /\ new[j].code = list[Old(j)].code
  <2> SUFFICES ASSUME NEW j \in 1 .. Len(list) PROVE Old(j) \in 1 .. Len(list) /\ new[j].code = list[Old(j)].code
    OBVIOUS
  <2>1. CASE j = 1
    BY <1>4, <2>1
  <2>2. CASE j \in 2 .. p
    BY <1>4, <1>5, <2>2
  <2>3. CASE j \in p + 1 .. Len(list)
    BY <1>4, <1>5, <2>3
  <2> QED
    BY <1>4, <1>5, <2>1, <2>2, <2>3
<1>9. \A i, j \in 1 .. Len(list) : Old(i) = Old(j) => i = j
  BY <1>4, <1>5
<1>10. \A i \in 1 .. Len(list) : \E j \in 1 .. Len(list) : new[j].code = list[i].code
  <2> SUFFICES ASSUME NEW i \in 1 .. Len(list) PROVE \E j \in 1 .. Len(list) : new[j].code = list[i].code
    OBVIOUS
  <2>1. CASE i = p
    <3>1. 1 \in 1 .. Len(list) /\ new[1].code = list[i].code
      BY <1>4, <1>5, <2>1
    <3> QED
      BY <3>1
  <2>2. CASE i \in 1 .. p - 1
    <3>1. i + 1 \in 1 .. Len(list) /\ i + 1 \in 2 .. p /\ (i + 1) - 1 = i
      BY <1>4, <1>5, <2>2
    <3>2. new[i + 1] = list[i]
      BY <1>4, <3>1
    <3> QED
      BY <3>1, <3>2
  <2>3. CASE i \in p + 1 .. Len(list)
    BY <1>4, <1>5, <2>3
  <2> QED
    BY <1>4, <1>5, <2>1, <2>2, <2>3
<1>11. Codes!Codes(new) = Codes!Codes(list)
  <2>1. \A d : d \in Codes!Codes(list) <=> \E i \in 1 .. Len(list) : list[i].code = d
    BY Entries
  <2>2. \A d : d \in Codes!Codes(new) <=> \E i \in 1 .. Len(list) : new[i].code = d
    BY <1>4, Entries
  <2>3. ASSUME NEW d \in Codes!Codes(new) PROVE d \in Codes!Codes(list)
    <3>1. PICK j \in 1 .. Len(list) : new[j].code = d
      BY <2>2, <2>3
    <3>2. PICK i \in 1 .. Len(list) : list[i].code = d
      BY <1>8, <3>1
    <3> QED
      BY <2>1, <3>2
  <2>4. ASSUME NEW d \in Codes!Codes(list) PROVE d \in Codes!Codes(new)
    <3>1. PICK i \in 1 .. Len(list) : list[i].code = d
      BY <2>1, <2>4
    <3>2. PICK j \in 1 .. Len(list) : new[j].code = d
      BY <1>10, <3>1
    <3> QED
      BY <2>2, <3>2
  <2> QED
    BY <2>3, <2>4
<1>12. ASSUME NEW i \in 1 .. Len(list)
       PROVE  /\ Shard[new[i].code] = s
              /\ \A j \in 1 .. Len(list) : new[i].code = new[j].code => i = j
  <2>1. Shard[list[Old(i)].code] = s
    BY <1>8 DEF Stacked
  <2>2. ASSUME NEW j \in 1 .. Len(list), new[i].code = new[j].code PROVE i = j
    <3>1. list[Old(i)].code = list[Old(j)].code
      BY <1>8, <2>2
    <3>2. Old(i) = Old(j)
      BY <1>8, <3>1 DEF Stacked
    <3> QED
      BY <1>9, <3>2
  <2> QED
    BY <1>8, <2>1, <2>2
<1>13. ASSUME NEW i \in 1 .. Len(list) PROVE use2[new[i].code] = {new[j].code : j \in 1 .. i - 1}
  <2>1. CASE i = 1
    BY <1>4, <1>7, <2>1
  <2>2. CASE i \in 2 .. p
    <3>1. i - 1 \in 1 .. Len(list) /\ i - 1 # p /\ p \in 1 .. Len(list)
      BY <1>4, <1>5, <2>2
    <3>2. PICK d : d = list[i - 1].code
      OBVIOUS
    <3>3. new[i].code = d /\ d \in Code /\ d # c /\ Shard[d] = s
      BY <1>4, <1>5, <2>2, <3>1, <3>2 DEF Stacked
    <3>4. use[d] = {list[j].code : j \in 1 .. (i - 1) - 1}
      BY <3>1, <3>2 DEF Stacked
    <3>5. use[d] # None
      <4>1. use[d] \in SUBSET Code
        BY <1>5, <2>2, <3>4
      <4> QED
        BY <4>1, CodesAssumption
    <3>6. use2[d] = use[d] \cup {c}
      BY <1>7, <3>3, <3>5
    <3>7. \A j \in 1 .. i - 1 : new[j].code \in use2[d]
      <4> SUFFICES ASSUME NEW j \in 1 .. i - 1 PROVE new[j].code \in use2[d]
        OBVIOUS
      <4>1. CASE j = 1
        BY <1>4, <3>6, <4>1
      <4>2. CASE j \in 2 .. i - 1
        <5>1. j \in 2 .. p /\ j - 1 \in 1 .. (i - 1) - 1
          BY <1>4, <1>5, <2>2, <4>2
        <5>2. new[j] = list[j - 1]
          BY <1>4, <5>1
        <5>3. list[j - 1].code \in use[d]
          BY <3>4, <5>1
        <5> QED
          BY <3>6, <5>2, <5>3
      <4> QED
        BY <4>1, <4>2, <2>2
    <3>8. \A x \in use2[d] : \E j \in 1 .. i - 1 : x = new[j].code
      <4> SUFFICES ASSUME NEW x \in use2[d] PROVE \E j \in 1 .. i - 1 : x = new[j].code
        OBVIOUS
      <4>1. CASE x = c
        <5>1. 1 \in 1 .. i - 1 /\ new[1].code = x
          BY <1>4, <2>2, <4>1
        <5> QED
          BY <5>1
      <4>2. CASE x \in use[d]
        <5>1. PICK m \in 1 .. (i - 1) - 1 : x = list[m].code
          BY <3>4, <4>2
        <5>2. m + 1 \in 2 .. p /\ m + 1 \in 1 .. i - 1 /\ (m + 1) - 1 = m
          BY <1>4, <1>5, <2>2
        <5>3. new[m + 1] = list[m]
          BY <1>4, <5>2
        <5> QED
          BY <5>1, <5>2, <5>3
      <4> QED
        BY <3>6, <4>1, <4>2
    <3> QED
      BY <3>3, <3>7, <3>8
  <2>3. CASE i \in p + 1 .. Len(list)
    <3>1. PICK d : d = list[i].code
      OBVIOUS
    <3>2. new[i].code = d /\ d \in Code /\ Shard[d] = s /\ d # c
      BY <1>4, <1>5, <2>3, <3>1 DEF Stacked
    <3>3. use[d] = {list[j].code : j \in 1 .. i - 1}
      BY <3>1 DEF Stacked
    <3>4. p \in 1 .. i - 1 /\ c \in use[d]
      BY <1>4, <1>5, <2>3, <3>3
    <3>5. use2[d] = use[d]
      BY <1>7, <3>2, <3>4
    <3>6. \A j \in 1 .. i - 1 : Old(j) \in 1 .. i - 1 /\ new[j].code = list[Old(j)].code
      <4> SUFFICES ASSUME NEW j \in 1 .. i - 1 PROVE Old(j) \in 1 .. i - 1 /\ new[j].code = list[Old(j)].code
        OBVIOUS
      <4>1. j \in 1 .. Len(list)
        BY <1>5, <2>3
      <4>2. Old(j) \in 1 .. i - 1
        BY <1>4, <1>5, <2>3
      <4> QED
        BY <1>8, <4>1, <4>2
    <3>7. \A m \in 1 .. i - 1 : \E j \in 1 .. i - 1 : new[j].code = list[m].code
      <4> SUFFICES ASSUME NEW m \in 1 .. i - 1 PROVE \E j \in 1 .. i - 1 : new[j].code = list[m].code
        OBVIOUS
      <4>1. CASE m = p
        <5>1. 1 \in 1 .. i - 1 /\ new[1].code = list[m].code
          BY <1>4, <1>5, <2>3, <4>1
        <5> QED
          BY <5>1
      <4>2. CASE m \in 1 .. p - 1
        <5>1. m + 1 \in 2 .. p /\ m + 1 \in 1 .. i - 1 /\ (m + 1) - 1 = m
          BY <1>4, <1>5, <2>3, <4>2
        <5>2. new[m + 1] = list[m]
          BY <1>4, <5>1
        <5> QED
          BY <5>1, <5>2
      <4>3. CASE m \in p + 1 .. i - 1
        <5>1. m \in p + 1 .. Len(list)
          BY <1>5, <2>3, <4>3
        <5> QED
          BY <1>4, <5>1
      <4> QED
        BY <1>4, <1>5, <4>1, <4>2, <4>3
    <3>8. ASSUME NEW j \in 1 .. i - 1 PROVE new[j].code \in use[d]
      <4>1. Old(j) \in 1 .. i - 1 /\ new[j].code = list[Old(j)].code
        BY <3>6
      <4> HIDE DEF Old
      <4> QED
        BY <3>3, <4>1
    <3>9. ASSUME NEW x \in use[d] PROVE \E j \in 1 .. i - 1 : x = new[j].code
      <4>1. PICK m \in 1 .. i - 1 : x = list[m].code
        BY <3>3, <3>9
      <4> QED
        BY <3>7, <4>1
    <3> QED
      BY <3>2, <3>5, <3>8, <3>9
  <2>4. i = 1 \/ i \in 2 .. p \/ i \in p + 1 .. Len(list)
    BY <1>4, <1>5
  <2> QED
    BY <2>1, <2>2, <2>3, <2>4
<1>14. ASSUME NEW d \in Code, Shard[d] = s, d \notin Codes!Codes(new), use2[d] # None
       PROVE  Len(new) = ShardSize /\ Codes!Codes(new) \subseteq use2[d]
  <2>1. d # c /\ d \notin Codes!Codes(list)
    BY <1>11, <1>14
  <2>2. use[d] # None /\ use2[d] = use[d] \cup {c}
    BY <1>7, <1>14, <2>1
  <2>3. Len(list) = ShardSize /\ Codes!Codes(list) \subseteq use[d]
    BY <1>14, <2>1, <2>2 DEF Stacked
  <2> QED
    BY <1>4, <1>11, <2>2, <2>3
<1>15. Len(new) <= ShardSize
  BY <1>4 DEF Stacked
<1>16. Stacked(new, use2, s)
  BY <1>4, <1>12, <1>13, <1>14, <1>15 DEF Stacked
<1> QED
  BY <1>1, <1>6, <1>11, <1>16

(* What Put leaves of a list in which it does not find what it stores.       *)
Pushed(list, e) == IF Len(<<e>> \o list) > ShardSize THEN Codes!Front(<<e>> \o list) ELSE <<e>> \o list

(* What a list is after c, which was not in it, was put in front of it, and  *)
(* what no longer fits left it.                                              *)
LEMMA PutList ==
  ASSUME NEW E, NEW list \in Seq(E), NEW e \in E, Len(list) <= ShardSize
  PROVE  /\ Pushed(list, e) \in Seq(E) /\ Len(Pushed(list, e)) \in 1 .. ShardSize /\ Pushed(list, e)[1] = e
         /\ Len(Pushed(list, e)) <= Len(list) + 1
         /\ Len(Pushed(list, e)) = Len(list) + 1 \/ (Len(Pushed(list, e)) = Len(list) /\ Len(Pushed(list, e)) = ShardSize)
         /\ \A j \in 2 .. Len(Pushed(list, e)) : Pushed(list, e)[j] = list[j - 1]
<1>0. PICK more : more = <<e>> \o list
  OBVIOUS
<1>5. PICK new : new = Pushed(list, e)
  OBVIOUS
<1>1. /\ more \in Seq(E) /\ Len(more) = Len(list) + 1 /\ more[1] = e
      /\ \A j \in 2 .. Len(list) + 1 : more[j] = list[j - 1]
  BY <1>0, PushedList
<1>2. Len(list) \in Nat /\ ShardSize \in Nat /\ ShardSize >= 1
  BY LenProperties, CodesAssumption
<1>3. CASE Len(more) > ShardSize
  <2>1. new \in Seq(E) /\ Len(new) = Len(more) - 1 /\ \A j \in 1 .. Len(more) - 1 : new[j] = more[j]
    <3>1. Len(more) > 0
      BY <1>1, <1>2
    <3>2. /\ Codes!Front(more) \in Seq(E) /\ Len(Codes!Front(more)) = Len(more) - 1
          /\ \A j \in 1 .. Len(more) - 1 : Codes!Front(more)[j] = more[j]
      BY <1>1, <3>1, FrontList
    <3>3. new = Codes!Front(more)
      BY <1>0, <1>3, <1>5 DEF Pushed
    <3> QED
      BY <3>2, <3>3
  <2>2. Len(new) = Len(list) /\ Len(new) = ShardSize /\ Len(new) \in 1 .. ShardSize
    BY <1>1, <1>2, <1>3, <2>1
  <2>3. new[1] = e
    BY <1>1, <1>2, <2>1, <2>2
  <2>4. ASSUME NEW j \in 2 .. Len(new) PROVE new[j] = list[j - 1]
    <3>1. j \in 1 .. Len(more) - 1 /\ j \in 2 .. Len(list) + 1
      BY <1>1, <1>2, <2>2
    <3> QED
      BY <1>1, <2>1, <3>1
  <2> QED
    BY <1>5, <2>1, <2>2, <2>3, <2>4
<1>4. CASE ~(Len(more) > ShardSize)
  <2>1. new = more
    BY <1>0, <1>4, <1>5 DEF Pushed
  <2>2. Len(more) \in 1 .. ShardSize
    BY <1>1, <1>2, <1>4
  <2> QED
    BY <1>1, <1>5, <2>1, <2>2
<1> QED
  BY <1>3, <1>4

(* The order after an entry was put in front.                                *)
LEMMA StackPushed ==
  ASSUME NEW list \in Seq(Program), NEW use \in [Code -> {None} \cup SUBSET Code], NEW s, Stacked(list, use, s),
         NEW c \in Code, c \notin Codes!Codes(list), Shard[c] = s, NEW v \in Code
  PROVE  /\ Stacked(Pushed(list, [code |-> c, value |-> v]), Touched(use, c), s)
         /\ c \in Codes!Codes(Pushed(list, [code |-> c, value |-> v]))
         /\ Codes!Codes(Pushed(list, [code |-> c, value |-> v])) \subseteq {c} \cup Codes!Codes(list)
<1>1. PICK e : e = [code |-> c, value |-> v]
  OBVIOUS
<1>20. PICK new : new = Pushed(list, e)
  OBVIOUS
<1>2. e.code = c
  BY <1>1
<1>3. e \in Program /\ Len(list) <= ShardSize
  BY <1>1 DEF Program, Entry, Stacked
<1>4. /\ new \in Seq(Program) /\ Len(new) \in 1 .. ShardSize /\ new[1] = e
      /\ Len(new) = Len(list) + 1 \/ (Len(new) = Len(list) /\ Len(new) = ShardSize)
      /\ \A j \in 2 .. Len(new) : new[j] = list[j - 1]
  <2>1. /\ Pushed(list, e) \in Seq(Program) /\ Len(Pushed(list, e)) \in 1 .. ShardSize /\ Pushed(list, e)[1] = e
        /\ Len(Pushed(list, e)) = Len(list) + 1 \/ (Len(Pushed(list, e)) = Len(list) /\ Len(Pushed(list, e)) = ShardSize)
        /\ \A j \in 2 .. Len(Pushed(list, e)) : Pushed(list, e)[j] = list[j - 1]
    BY <1>3, PutList
  <2> QED
    BY <1>20, <2>1
<1>5. /\ Len(list) \in Nat /\ \A i \in 1 .. Len(list) : list[i].code \in Code
      /\ \A d : d \in Codes!Codes(list) <=> \E i \in 1 .. Len(list) : list[i].code = d
  BY Entries
<1>6. \A d : d \in Codes!Codes(new) <=> \E i \in 1 .. Len(new) : new[i].code = d
  BY <1>4, Entries
<1>7. ShardSize \in Nat /\ Len(new) \in Nat /\ 1 <= Len(new) /\ Len(new) <= ShardSize /\ Len(new) <= Len(list) + 1
  BY <1>4, <1>5, CodesAssumption
<1>8. PICK use2 : use2 = Touched(use, c)
  OBVIOUS
<1>9. use2[c] = {} /\ \A d \in Code : d # c => use2[d] = IF Shard[d] = s /\ use[d] # None THEN use[d] \cup {c} ELSE use[d]
  BY <1>8 DEF Touched
<1>10. new[1].code = c
  BY <1>2, <1>4
<1>11. \A i \in 2 .. Len(new) : i - 1 \in 1 .. Len(list) /\ new[i].code = list[i - 1].code /\ new[i].code # c
  <2> SUFFICES ASSUME NEW i \in 2 .. Len(new)
               PROVE  i - 1 \in 1 .. Len(list) /\ new[i].code = list[i - 1].code /\ new[i].code # c
    OBVIOUS
  <2>1. i - 1 \in 1 .. Len(list)
    BY <1>5, <1>7
  <2>2. new[i].code = list[i - 1].code
    BY <1>4
  <2> QED
    BY <1>5, <2>1, <2>2
<1>12. c \in Codes!Codes(new)
  <2>1. 1 \in 1 .. Len(new)
    BY <1>7
  <2> QED
    BY <1>6, <1>10, <2>1
<1>13. ASSUME NEW d \in Codes!Codes(new), d # c PROVE \E i \in 1 .. Len(new) - 1 : i \in 1 .. Len(list) /\ list[i].code = d
  <2>1. PICK i \in 1 .. Len(new) : new[i].code = d
    BY <1>6, <1>13
  <2>2. i \in 2 .. Len(new)
    BY <1>7, <1>10, <1>13, <2>1
  <2>3. i - 1 \in 1 .. Len(new) - 1
    BY <1>7, <2>2
  <2> QED
    BY <1>11, <2>1, <2>2, <2>3
<1>14. Codes!Codes(new) \subseteq {c} \cup Codes!Codes(list)
  BY <1>5, <1>13
<1>15. ASSUME NEW i \in 1 .. Len(new) PROVE Shard[new[i].code] = s
  <2>1. CASE i = 1
    BY <1>10, <2>1
  <2>2. CASE i \in 2 .. Len(new)
    BY <1>11, <2>2 DEF Stacked
  <2> QED
    BY <1>7, <2>1, <2>2
<1>16. ASSUME NEW i \in 1 .. Len(new), NEW j \in 1 .. Len(new), new[i].code = new[j].code PROVE i = j
  <2>1. CASE i \in 2 .. Len(new) /\ j \in 2 .. Len(new)
    <3>1. list[i - 1].code = list[j - 1].code
      BY <1>11, <1>16, <2>1
    <3>2. i - 1 = j - 1
      BY <1>11, <2>1, <3>1 DEF Stacked
    <3> QED
      BY <3>2
  <2>2. CASE i = 1 /\ j \in 2 .. Len(new)
    BY <1>10, <1>11, <1>16, <2>2
  <2>3. CASE j = 1 /\ i \in 2 .. Len(new)
    BY <1>10, <1>11, <1>16, <2>3
  <2> QED
    BY <1>7, <2>1, <2>2, <2>3
<1>17. ASSUME NEW i \in 1 .. Len(new) PROVE use2[new[i].code] = {new[j].code : j \in 1 .. i - 1}
  <2>1. CASE i = 1
    BY <1>9, <1>10, <2>1
  <2>2. CASE i \in 2 .. Len(new)
    <3>1. PICK d : d = new[i].code
      OBVIOUS
    <3>2. d \in Code /\ d # c /\ Shard[d] = s /\ i - 1 \in 1 .. Len(list) /\ d = list[i - 1].code
      BY <1>5, <1>11, <1>15, <2>2, <3>1
    <3>3. use[d] = {list[j].code : j \in 1 .. (i - 1) - 1}
      BY <3>2 DEF Stacked
    <3>4. use[d] \in SUBSET Code
      <4>1. \A j \in 1 .. (i - 1) - 1 : j \in 1 .. Len(list)
        BY <1>5, <3>2
      <4> QED
        BY <1>5, <3>3, <4>1
    <3>5. use2[d] = use[d] \cup {c}
      BY <1>9, <3>2, <3>4, CodesAssumption
    <3>6. ASSUME NEW j \in 1 .. i - 1 PROVE new[j].code \in use2[d]
      <4>1. CASE j = 1
        BY <1>10, <3>5, <4>1
      <4>2. CASE j \in 2 .. i - 1
        <5>1. j \in 2 .. Len(new) /\ j - 1 \in 1 .. (i - 1) - 1
          BY <1>7, <4>2
        <5>2. new[j].code = list[j - 1].code
          BY <1>11, <5>1
        <5>3. list[j - 1].code \in use[d]
          BY <3>3, <5>1
        <5> QED
          BY <3>5, <5>2, <5>3
      <4> QED
        BY <4>1, <4>2
    <3>7. ASSUME NEW x \in use2[d] PROVE \E j \in 1 .. i - 1 : x = new[j].code
      <4>1. CASE x = c
        <5>1. 1 \in 1 .. i - 1
          BY <2>2
        <5> QED
          BY <1>10, <4>1, <5>1
      <4>2. CASE x \in use[d]
        <5>1. PICK m \in 1 .. (i - 1) - 1 : x = list[m].code
          BY <3>3, <4>2
        <5>2. m + 1 \in 2 .. Len(new) /\ m + 1 \in 1 .. i - 1 /\ (m + 1) - 1 = m
          BY <1>7, <2>2
        <5> QED
          BY <1>11, <5>1, <5>2
      <4> QED
        BY <3>5, <3>7, <4>1, <4>2
    <3> QED
      BY <3>1, <3>6, <3>7
  <2> QED
    BY <1>7, <2>1, <2>2
<1>18. ASSUME NEW d \in Code, Shard[d] = s, d \notin Codes!Codes(new), use2[d] # None
       PROVE  Len(new) = ShardSize /\ Codes!Codes(new) \subseteq use2[d]
  <2>1. d # c
    BY <1>12, <1>18
  <2>2. use[d] # None /\ use2[d] = use[d] \cup {c}
    BY <1>9, <1>18, <2>1
  <2>3. CASE d \notin Codes!Codes(list)
    <3>1. Len(list) = ShardSize /\ Codes!Codes(list) \subseteq use[d]
      BY <1>18, <2>2, <2>3 DEF Stacked
    <3>2. Len(new) = ShardSize
      BY <1>4, <1>5, <1>7, <3>1
    <3> QED
      BY <1>14, <2>2, <3>1, <3>2
  <2>4. CASE d \in Codes!Codes(list)
    <3>1. PICK m \in 1 .. Len(list) : list[m].code = d
      BY <1>5, <2>4
    <3>2. ~(m + 1 \in 2 .. Len(new))
      <4> SUFFICES ASSUME m + 1 \in 2 .. Len(new) PROVE FALSE
        OBVIOUS
      <4>1. new[m + 1].code = d
        <5>1. (m + 1) - 1 = m
          BY <1>5
        <5> QED
          BY <1>4, <3>1, <5>1
      <4>2. m + 1 \in 1 .. Len(new)
        BY <1>5
      <4> QED
        BY <1>6, <1>18, <4>1, <4>2
    <3>3. m = Len(list) /\ Len(new) = Len(list) /\ Len(new) = ShardSize
      BY <1>4, <1>5, <1>7, <3>2
    <3>4. use[d] = {list[j].code : j \in 1 .. m - 1}
      BY <3>1 DEF Stacked
    <3>5. ASSUME NEW x \in Codes!Codes(new), x # c PROVE x \in use[d]
      <4>1. PICK i \in 1 .. Len(new) - 1 : list[i].code = x
        BY <1>13, <3>5
      <4>2. i \in 1 .. m - 1
        BY <3>3, <4>1
      <4> QED
        BY <3>4, <4>1, <4>2
    <3> QED
      BY <2>2, <3>3, <3>5
  <2> QED
    BY <2>3, <2>4
<1>19. Stacked(new, use2, s)
  BY <1>7, <1>15, <1>16, <1>17, <1>18 DEF Stacked
<1> QED
  BY <1>1, <1>8, <1>12, <1>14, <1>19, <1>20

(* The order in the other shards.                                            *)
LEMMA StackElsewhere ==
  ASSUME NEW list \in Seq(Program), NEW use \in [Code -> {None} \cup SUBSET Code], NEW s, Stacked(list, use, s),
         NEW c \in Code, Shard[c] # s
  PROVE  Stacked(list, Touched(use, c), s)
<1>1. PICK use2 : use2 = Touched(use, c)
  OBVIOUS
<1>2. \A d \in Code : Shard[d] = s => use2[d] = use[d]
  BY <1>1 DEF Touched
<1>3. \A i \in 1 .. Len(list) : list[i].code \in Code
  BY Entries
<1>4. Len(list) <= ShardSize
  BY DEF Stacked
<1>5. ASSUME NEW i \in 1 .. Len(list)
      PROVE  /\ Shard[list[i].code] = s /\ use2[list[i].code] = {list[j].code : j \in 1 .. i - 1}
             /\ \A j \in 1 .. Len(list) : list[i].code = list[j].code => i = j
  BY <1>2, <1>3 DEF Stacked
<1>6. ASSUME NEW d \in Code, Shard[d] = s, d \notin Codes!Codes(list), use2[d] # None
      PROVE  Len(list) = ShardSize /\ Codes!Codes(list) \subseteq use2[d]
  BY <1>2, <1>6 DEF Stacked
<1>7. Stacked(list, use2, s)
  BY <1>4, <1>5, <1>6 DEF Stacked
<1> QED
  BY <1>1, <1>7

(* The sets of codes used since stay finite.                                 *)
LEMMA TouchedFinite ==
  ASSUME NEW use \in [Code -> {None} \cup SUBSET Code], NEW c \in Code,
         \A d \in Code : use[d] # None => IsFiniteSet(use[d])
  PROVE  /\ Touched(use, c) \in [Code -> {None} \cup SUBSET Code]
         /\ \A d \in Code : Touched(use, c)[d] # None => IsFiniteSet(Touched(use, c)[d])
<1>1. PICK use2 : use2 = Touched(use, c)
  OBVIOUS
<1>2. \A d \in Code : use2[d] = IF d = c THEN {} ELSE IF Shard[d] = Shard[c] /\ use[d] # None THEN use[d] \cup {c} ELSE use[d]
  BY <1>1 DEF Touched
<1>3. \A d \in Code : use[d] \in {None} \cup SUBSET Code
  OBVIOUS
<1>4. use2 \in [Code -> {None} \cup SUBSET Code]
  <2>1. \A d \in Code : use2[d] \in {None} \cup SUBSET Code
    <3> SUFFICES ASSUME NEW d \in Code PROVE use2[d] \in {None} \cup SUBSET Code
      OBVIOUS
    <3>1. use[d] \in SUBSET Code \/ use[d] = None
      BY <1>3
    <3> QED
      BY <1>2, <3>1
  <2> QED
    BY <1>1, <2>1 DEF Touched
<1>5. ASSUME NEW d \in Code, use2[d] # None PROVE IsFiniteSet(use2[d])
  <2>1. CASE d = c
    BY <1>2, <2>1, FS_EmptySet
  <2>2. CASE d # c /\ Shard[d] = Shard[c] /\ use[d] # None
    <3>1. IsFiniteSet(use[d])
      BY <2>2
    <3>2. IsFiniteSet(use[d] \cup {c})
      BY <3>1, FS_AddElement
    <3> QED
      BY <1>2, <2>2, <3>2
  <2>3. CASE d # c /\ ~(Shard[d] = Shard[c] /\ use[d] # None)
    BY <1>2, <1>5, <2>3
  <2> QED
    BY <2>1, <2>2, <2>3
<1> QED
  BY <1>1, <1>4, <1>5

(* Being in a shard is being among its ShardSize last codes.                 *)
LEMMA StackCounts ==
  ASSUME NEW list \in Seq(Program), NEW use \in [Code -> {None} \cup SUBSET Code], NEW s, Stacked(list, use, s),
         NEW c \in Code, Shard[c] = s, use[c] # None => IsFiniteSet(use[c])
  PROVE  c \in Codes!Codes(list) <=> use[c] # None /\ Cardinality(use[c]) < ShardSize
<1>1. /\ Len(list) \in Nat /\ \A i \in 1 .. Len(list) : list[i].code \in Code
      /\ \A d : d \in Codes!Codes(list) <=> \E i \in 1 .. Len(list) : list[i].code = d
  BY Entries
<1>2. Len(list) <= ShardSize /\ ShardSize \in Nat
  BY CodesAssumption DEF Stacked
<1>3. ASSUME c \in Codes!Codes(list) PROVE use[c] # None /\ Cardinality(use[c]) < ShardSize
  <2>1. PICK i \in 1 .. Len(list) : list[i].code = c
    BY <1>1, <1>3
  <2>2. use[c] = {list[j].code : j \in 1 .. i - 1}
    BY <2>1 DEF Stacked
  <2>3. use[c] \in SUBSET Code
    <3>1. \A j \in 1 .. i - 1 : j \in 1 .. Len(list)
      BY <1>1
    <3> QED
      BY <1>1, <2>2, <3>1
  <2>4. PICK f : f = [j \in 1 .. i - 1 |-> list[j].code]
    OBVIOUS
  <2>5. f \in Surjection(1 .. i - 1, use[c])
    BY <2>2, <2>4 DEF Surjection
  <2>6. IsFiniteSet(1 .. i - 1) /\ Cardinality(1 .. i - 1) = IF 1 > i - 1 THEN 0 ELSE (i - 1) - 1 + 1
    <3>1. 1 \in Int /\ i - 1 \in Int
      BY <1>1
    <3> QED
      BY <3>1, FS_Interval
  <2>7. IsFiniteSet(use[c]) /\ Cardinality(use[c]) <= Cardinality(1 .. i - 1)
    BY <2>5, <2>6, FS_Surjection
  <2>8. Cardinality(use[c]) \in Nat
    BY <2>7, FS_CardinalityType
  <2>9. Cardinality(1 .. i - 1) = i - 1
    BY <1>1, <2>6
  <2> QED
    BY <1>1, <1>2, <2>3, <2>7, <2>8, <2>9, CodesAssumption
<1>4. ASSUME use[c] # None, Cardinality(use[c]) < ShardSize, c \notin Codes!Codes(list) PROVE FALSE
  <2>1. Len(list) = ShardSize /\ Codes!Codes(list) \subseteq use[c]
    BY <1>4 DEF Stacked
  <2>2. PICK f : f = [j \in 1 .. Len(list) |-> list[j].code]
    OBVIOUS
  <2>3. f \in [1 .. Len(list) -> use[c]]
    <3>1. \A j \in 1 .. Len(list) : list[j].code \in use[c]
      BY <1>1, <2>1
    <3> QED
      BY <2>2, <3>1
  <2>4. \A i, j \in 1 .. Len(list) : f[i] = f[j] => i = j
    BY <2>2 DEF Stacked
  <2>5. f \in Injection(1 .. Len(list), use[c])
    BY <2>3, <2>4 DEF Injection, IsInjective
  <2>6. IsFiniteSet(use[c])
    BY <1>4
  <2>7. Cardinality(1 .. Len(list)) <= Cardinality(use[c])
    BY <2>5, <2>6, FS_Injection
  <2>8. Cardinality(1 .. Len(list)) = IF 1 > Len(list) THEN 0 ELSE Len(list) - 1 + 1
    BY <1>1, FS_Interval
  <2>9. Cardinality(1 .. Len(list)) = ShardSize /\ Cardinality(use[c]) \in Nat
    BY <1>1, <2>1, <2>6, <2>8, FS_CardinalityType
  <2> QED
    BY <1>2, <1>4, <2>7, <2>9
<1> QED
  BY <1>3, <1>4

CacheOf(cache, V) == cache \in [Codes!Shards -> Seq(Entry(V))]
Within(new, old) == \A i \in DOMAIN new : \E j \in DOMAIN old : new[i] = old[j]

(* What a cache gives and holds was stored in it under that code.            *)
LEMMA GetKeeps ==
  ASSUME NEW V, NEW cache, CacheOf(cache, V), NEW c \in Code
  PROVE  /\ Codes!Found(cache, c) =>
              /\ Codes!Stored(cache, c) \in V
              /\ \E j \in DOMAIN cache[Shard[c]] : cache[Shard[c]][j] = [code |-> c, value |-> Codes!Stored(cache, c)]
         /\ CacheOf(Codes!Get(cache, c), V)
         /\ \A s \in Codes!Shards :
              /\ Len(Codes!Get(cache, c)[s]) = Len(cache[s])
              /\ Within(Codes!Get(cache, c)[s], cache[s])
<1> USE DEF CacheOf, Within
<1>7. PICK after : after = Codes!Get(cache, c)
  OBVIOUS
<1>1. PICK s : s = Shard[c]
  OBVIOUS
<1>2. s \in Codes!Shards
  BY <1>1 DEF Codes!Shards
<1>3. PICK list : list = cache[s]
  OBVIOUS
<1>4. list \in Seq(Entry(V)) /\ Len(list) \in Nat /\ DOMAIN list = 1 .. Len(list)
  BY <1>2, <1>3, LenProperties
<1>5. CASE ~Codes!Found(cache, c)
  BY <1>5, <1>7 DEF Codes!Get
<1>6. CASE Codes!Found(cache, c)
  <2>1. c \in Codes!Codes(list)
    BY <1>1, <1>3, <1>6 DEF Codes!Found
  <2>2. PICK p : p = Codes!Place(list, c)
    OBVIOUS
  <2>3. p \in DOMAIN list /\ list[p].code = c
    BY <2>1, <2>2 DEF Codes!Codes, Codes!Place
  <2>4. PICK v : v = Codes!Stored(cache, c)
    OBVIOUS
  <2>5. v = list[p].value
    BY <1>1, <1>3, <2>2, <2>4 DEF Codes!Stored
  <2>6. list[p] \in Entry(V)
    BY <1>4, <2>3, ElementOfSeq
  <2>7. v \in V /\ list[p] = [code |-> c, value |-> v]
    BY <2>3, <2>5, <2>6 DEF Entry
  <2>8. [code |-> c, value |-> v] \in Entry(V)
    BY <2>6, <2>7
  <2>9. PICK new : new = Codes!Moved(list, c, v)
    OBVIOUS
  <2>10. /\ new \in Seq(Entry(V)) /\ Len(new) = Len(list) /\ new[1] = [code |-> c, value |-> v]
         /\ \A j \in 2 .. p : new[j] = list[j - 1]
         /\ \A j \in p + 1 .. Len(list) : new[j] = list[j]
    BY <1>4, <2>1, <2>2, <2>8, <2>9, MovedList
  <2>11. after = [cache EXCEPT ![s] = new]
    BY <1>1, <1>3, <1>6, <1>7, <2>4, <2>9 DEF Codes!Get
  <2>12. ASSUME NEW i \in DOMAIN new PROVE \E j \in DOMAIN list : new[i] = list[j]
    <3>1. i \in 1 .. Len(list)
      BY <2>10, LenProperties
    <3>2. CASE i = 1
      BY <2>3, <2>7, <2>10, <3>2
    <3>3. CASE i \in 2 .. p
      <4>1. i - 1 \in DOMAIN list
        BY <1>4, <3>1, <3>3
      <4> QED
        BY <2>10, <3>3, <4>1
    <3>4. CASE i \in p + 1 .. Len(list)
      BY <1>4, <2>10, <3>1, <3>4
    <3>5. i = 1 \/ i \in 2 .. p \/ i \in p + 1 .. Len(list)
      BY <1>4, <2>3, <3>1
    <3> QED
      BY <3>2, <3>3, <3>4, <3>5
  <2>13. after \in [Codes!Shards -> Seq(Entry(V))]
    BY <1>2, <2>10, <2>11
  <2>14. ASSUME NEW t \in Codes!Shards
         PROVE  /\ Len(after[t]) = Len(cache[t])
                /\ \A i \in DOMAIN after[t] : \E j \in DOMAIN cache[t] : after[t][i] = cache[t][j]
    <3>1. CASE t = s
      <4>1. after[t] = new
        BY <1>2, <2>11, <3>1
      <4> QED
        BY <1>3, <2>10, <2>12, <3>1, <4>1
    <3>2. CASE t # s
      <4>1. after[t] = cache[t]
        BY <2>11, <3>2
      <4> QED
        BY <4>1
    <3> QED
      BY <3>1, <3>2
  <2> QED
    BY <1>1, <1>3, <1>7, <2>3, <2>4, <2>7, <2>13, <2>14
<1> QED
  BY <1>5, <1>6

(* What Put leaves of it.                                                    *)
LEMMA PutKeeps ==
  ASSUME NEW V, NEW cache, CacheOf(cache, V), NEW c \in Code, NEW v \in V,
         \A s \in Codes!Shards : Len(cache[s]) <= ShardSize
  PROVE  /\ CacheOf(Codes!Put(cache, c, v), V)
         /\ \A s \in Codes!Shards :
              /\ Len(Codes!Put(cache, c, v)[s]) <= ShardSize
              /\ \A i \in DOMAIN Codes!Put(cache, c, v)[s] :
                   \/ Codes!Put(cache, c, v)[s][i] = [code |-> c, value |-> v]
                   \/ \E j \in DOMAIN cache[s] : Codes!Put(cache, c, v)[s][i] = cache[s][j]
<1> USE DEF CacheOf
<1>11. PICK after : after = Codes!Put(cache, c, v)
  OBVIOUS
<1>1. PICK s : s = Shard[c]
  OBVIOUS
<1>2. s \in Codes!Shards
  BY <1>1 DEF Codes!Shards
<1>3. PICK list : list = cache[s]
  OBVIOUS
<1>4. list \in Seq(Entry(V)) /\ Len(list) \in Nat /\ DOMAIN list = 1 .. Len(list) /\ Len(list) <= ShardSize
  BY <1>2, <1>3, LenProperties
<1>5. PICK e : e = [code |-> c, value |-> v]
  OBVIOUS
<1>6. e \in Entry(V)
  BY <1>5 DEF Entry
<1>7. PICK new : after = [cache EXCEPT ![s] = new]
                 /\ new = IF Codes!Found(cache, c) THEN Codes!Moved(list, c, v)
                          ELSE Pushed(list, e)
  BY <1>1, <1>3, <1>5, <1>11 DEF Codes!Put, Pushed
<1>8. new \in Seq(Entry(V)) /\ Len(new) <= ShardSize /\ \A i \in DOMAIN new : new[i] = e \/ \E j \in DOMAIN list : new[i] = list[j]
  <2>1. CASE Codes!Found(cache, c)
    <3>1. c \in Codes!Codes(list)
      BY <1>1, <1>3, <2>1 DEF Codes!Found
    <3>2. PICK p : p = Codes!Place(list, c)
      OBVIOUS
    <3>3. /\ p \in 1 .. Len(list)
          /\ new \in Seq(Entry(V)) /\ Len(new) = Len(list) /\ new[1] = e
          /\ \A j \in 2 .. p : new[j] = list[j - 1]
          /\ \A j \in p + 1 .. Len(list) : new[j] = list[j]
      BY <1>4, <1>5, <1>6, <1>7, <2>1, <3>1, <3>2, MovedList
    <3>4. ASSUME NEW i \in DOMAIN new PROVE new[i] = e \/ \E j \in DOMAIN list : new[i] = list[j]
      <4>1. i \in 1 .. Len(list)
        BY <3>3, LenProperties
      <4>2. CASE i \in 2 .. p
        <5>1. i - 1 \in DOMAIN list
          BY <1>4, <4>1, <4>2
        <5> QED
          BY <3>3, <4>2, <5>1
      <4>3. CASE i \in p + 1 .. Len(list)
        BY <1>4, <3>3, <4>1, <4>3
      <4>4. i = 1 \/ i \in 2 .. p \/ i \in p + 1 .. Len(list)
        BY <1>4, <3>3, <4>1
      <4> QED
        BY <3>3, <4>2, <4>3, <4>4
    <3> QED
      BY <1>4, <3>3, <3>4
  <2>2. CASE ~Codes!Found(cache, c)
    <3>0. new = Pushed(list, e)
      BY <1>7, <2>2
    <3>1. /\ new \in Seq(Entry(V)) /\ Len(new) \in 1 .. ShardSize /\ new[1] = e
          /\ Len(new) <= Len(list) + 1
          /\ \A j \in 2 .. Len(new) : new[j] = list[j - 1]
      <4>1. /\ Pushed(list, e) \in Seq(Entry(V)) /\ Len(Pushed(list, e)) \in 1 .. ShardSize /\ Pushed(list, e)[1] = e
            /\ Len(Pushed(list, e)) <= Len(list) + 1
            /\ \A j \in 2 .. Len(Pushed(list, e)) : Pushed(list, e)[j] = list[j - 1]
        <5>1. PICK S : S = Entry(V)
          OBVIOUS
        <5>2. list \in Seq(S) /\ e \in S /\ Len(list) <= ShardSize
          BY <1>4, <1>6, <5>1
        <5>3. Pushed(list, e) \in Seq(S) /\ Len(Pushed(list, e)) \in 1 .. ShardSize /\ Pushed(list, e)[1] = e
          BY <5>2, PutList
        <5>4. Len(Pushed(list, e)) <= Len(list) + 1
          BY <5>2, PutList
        <5>5. \A j \in 2 .. Len(Pushed(list, e)) : Pushed(list, e)[j] = list[j - 1]
          BY <5>2, PutList
        <5> QED
          BY <5>1, <5>3, <5>4, <5>5
      <4> QED
        BY <3>0, <4>1
    <3>2. ASSUME NEW i \in DOMAIN new PROVE new[i] = e \/ \E j \in DOMAIN list : new[i] = list[j]
      <4>1. i \in 1 .. Len(new) /\ Len(new) \in Nat /\ Len(new) <= Len(list) + 1
        BY <1>4, <3>1, LenProperties
      <4>2. CASE i \in 2 .. Len(new)
        <5>1. i - 1 \in DOMAIN list
          BY <1>4, <4>1, <4>2
        <5> QED
          BY <3>1, <4>2, <5>1
      <4> QED
        BY <3>1, <4>1, <4>2
    <3> QED
      BY <3>1, <3>2, CodesAssumption
  <2> QED
    BY <2>1, <2>2
<1>9. after \in [Codes!Shards -> Seq(Entry(V))]
  BY <1>2, <1>7, <1>8
<1>10. ASSUME NEW t \in Codes!Shards
       PROVE  /\ Len(after[t]) <= ShardSize
              /\ \A i \in DOMAIN after[t] :
                   after[t][i] = e \/ \E j \in DOMAIN cache[t] : after[t][i] = cache[t][j]
  <2>1. CASE t = s
    <3>1. after[t] = new
      BY <1>2, <1>7, <2>1
    <3> QED
      BY <1>3, <1>8, <2>1, <3>1
  <2>2. CASE t # s
    <3>1. after[t] = cache[t]
      BY <1>7, <2>2
    <3> QED
      BY <3>1
  <2> QED
    BY <2>1, <2>2
<1> QED
  BY <1>5, <1>9, <1>10, <1>11

(* A caller moves while nothing of the flights and the programs does.        *)
LEMMA MovesAside ==
  ASSUME CodesInv, NEW k \in Caller, NEW step, NEW h,
         codes_at' = [codes_at EXCEPT ![k] = step], codes_held' = [codes_held EXCEPT ![k] = h],
         UNCHANGED <<codes_programs, codes_flight, codes_compiled, codes_dropped, codes_since>>,
         codes_at[k] \notin CodeSteps, step \notin CodeSteps \cup {"waits"}
  PROVE  CodesShared' /\ CodesCounted' /\ CodesRecent' /\ CodesFinite'
<1>1. DOMAIN codes_at = Caller /\ DOMAIN codes_held = Caller
  BY DEF CodesInv, CodesTyped
<1>2. codes_at'[k] = step /\ \A j \in Caller : j # k => codes_at'[j] = codes_at[j] /\ codes_held'[j] = codes_held[j]
  BY <1>1
<1>3. CodesShared'
  <2> SUFFICES ASSUME NEW j \in Caller
               PROVE  /\ \A c \in Code : codes_flight'[c] = j <=> codes_held'[j] = c /\ codes_at'[j] \in CodeSteps
                      /\ codes_at'[j] = "waits" => codes_flight'[codes_held'[j]] # None
    BY DEF CodesShared
  <2>1. CASE j = k
    BY <1>2, <2>1 DEF CodesInv, CodesShared
  <2>2. CASE j # k
    BY <1>2, <2>2 DEF CodesInv, CodesShared
  <2> QED
    BY <2>1, <2>2
<1>4. \A c : Putting(c)' <=> Putting(c)
  <2>1. codes_at[k] # "put" /\ step # "put"
    BY DEF CodeSteps
  <2> QED
    BY <1>2, <2>1 DEF Putting
<1>5. CodesCounted'
  <2>1. ASSUME NEW j \in Caller, codes_at'[j] \in {"goja", "put"} PROVE ~Codes!Found(codes_programs', codes_held'[j])
    <3>1. j # k
      BY <1>2, <2>1 DEF CodeSteps
    <3> QED
      BY <1>2, <2>1, <3>1 DEF CodesInv, CodesCounted
  <2> QED
    BY <1>4, <2>1 DEF CodesInv, CodesCounted
<1>6. CodesRecent' /\ CodesFinite'
  BY DEF CodesInv, CodesRecent, CodesFinite
<1> QED
  BY <1>3, <1>5, <1>6

(* validateCodeWithCache looks for a verdict.                                *)
LEMMA CallOfCodes ==
  ASSUME CodesInv, NEW k \in Caller, Codes!Call(k)
  PROVE  CodesInv'
<1>1. PICK c \in Code :
        /\ codes_held' = [codes_held EXCEPT ![k] = c] /\ codes_verdicts' = Codes!Get(codes_verdicts, Normal[c])
        /\ LET verdict == IF Codes!Found(codes_verdicts, Normal[c]) THEN Codes!Stored(codes_verdicts, Normal[c])
                          ELSE "unknown"
           IN codes_at' = [codes_at EXCEPT ![k] = CASE verdict = "ok" -> "validated"
                                                    [] verdict = "unknown" -> "validate" [] OTHER -> "refused"]
  BY DEF Codes!Call, Codes!Goto
<1>2. codes_at[k] = "idle" /\ UNCHANGED <<codes_programs, codes_flight, codes_got, codes_compiled, codes_dropped, codes_since>>
  BY DEF Codes!Call
<1>3. PICK n : n = Normal[c]
  OBVIOUS
<1>4. n \in Code
  BY <1>3, CodesAssumption
<1>5. codes_verdicts \in [Codes!Shards -> Seq(Entry({"ok", "error"}))]
  BY DEF CodesInv, CodesTyped, Verdict
<1>6. /\ Codes!Found(codes_verdicts, n) =>
           /\ Codes!Stored(codes_verdicts, n) \in {"ok", "error"}
           /\ \E j \in DOMAIN codes_verdicts[Shard[n]] :
                codes_verdicts[Shard[n]][j] = [code |-> n, value |-> Codes!Stored(codes_verdicts, n)]
      /\ codes_verdicts' \in [Codes!Shards -> Seq(Entry({"ok", "error"}))]
      /\ \A s \in Codes!Shards :
           /\ Len(codes_verdicts'[s]) = Len(codes_verdicts[s])
           /\ \A i \in DOMAIN codes_verdicts'[s] : \E j \in DOMAIN codes_verdicts[s] : codes_verdicts'[s][i] = codes_verdicts[s][j]
  <2>1. CacheOf(codes_verdicts, {"ok", "error"})
    BY <1>5 DEF CacheOf
  <2>2. PICK after : after = Codes!Get(codes_verdicts, n)
    OBVIOUS
  <2>3. /\ Codes!Found(codes_verdicts, n) =>
              /\ Codes!Stored(codes_verdicts, n) \in {"ok", "error"}
              /\ \E j \in DOMAIN codes_verdicts[Shard[n]] :
                   codes_verdicts[Shard[n]][j] = [code |-> n, value |-> Codes!Stored(codes_verdicts, n)]
        /\ CacheOf(after, {"ok", "error"})
        /\ \A s \in Codes!Shards :
             /\ Len(after[s]) = Len(codes_verdicts[s])
             /\ Within(after[s], codes_verdicts[s])
    BY <1>4, <2>1, <2>2, GetKeeps
  <2>4. codes_verdicts' = after
    BY <1>1, <1>3, <2>2
  <2> QED
    BY <2>3, <2>4 DEF CacheOf, Within
<1>7. PICK step : /\ codes_at' = [codes_at EXCEPT ![k] = step] /\ step \in {"validated", "validate", "refused"}
                  /\ step = "validated" => Codes!Found(codes_verdicts, n) /\ Codes!Stored(codes_verdicts, n) = "ok"
  <2>1. PICK verdict : verdict = IF Codes!Found(codes_verdicts, n) THEN Codes!Stored(codes_verdicts, n) ELSE "unknown"
    OBVIOUS
  <2>2. PICK step : step = CASE verdict = "ok" -> "validated" [] verdict = "unknown" -> "validate" [] OTHER -> "refused"
    OBVIOUS
  <2>3. codes_at' = [codes_at EXCEPT ![k] = step]
    BY <1>1, <1>3, <2>1, <2>2
  <2>4. verdict \in {"ok", "error", "unknown"}
    BY <1>6, <2>1
  <2>5. step \in {"validated", "validate", "refused"} /\ (step = "validated" => verdict = "ok")
    BY <2>2, <2>4
  <2>6. verdict = "ok" => Codes!Found(codes_verdicts, n) /\ Codes!Stored(codes_verdicts, n) = "ok"
    BY <2>1
  <2> QED
    BY <2>3, <2>5, <2>6
<1>8. step = "validated" => n \in ValidCodes
  <2> SUFFICES ASSUME step = "validated" PROVE n \in ValidCodes
    OBVIOUS
  <2>1. PICK j \in DOMAIN codes_verdicts[Shard[n]] : codes_verdicts[Shard[n]][j] = [code |-> n, value |-> "ok"]
    BY <1>6, <1>7
  <2>2. Shard[n] \in Codes!Shards
    BY <1>4 DEF Codes!Shards
  <2> QED
    BY <2>1, <2>2 DEF CodesInv, CodesOwn
<1>9. CodesShared' /\ CodesCounted' /\ CodesRecent' /\ CodesFinite'
  BY <1>1, <1>2, <1>7, MovesAside DEF CodeSteps
<1>10. codes_at \in [Caller -> {"idle", "validate", "refused"} \cup Approved] /\ codes_held \in [Caller -> Code \cup {None}]
  BY DEF CodesInv, CodesTyped
<1>11. codes_at'[k] = step /\ codes_held'[k] = c
       /\ \A j \in Caller : j # k => codes_at'[j] = codes_at[j] /\ codes_held'[j] = codes_held[j]
  BY <1>1, <1>7, <1>10
<1>12. CodesTyped'
  <2>1. codes_at' \in [Caller -> {"idle", "validate", "refused"} \cup Approved] /\ codes_held' \in [Caller -> Code \cup {None}]
    BY <1>1, <1>7, <1>10 DEF Approved
  <2>2. ASSUME NEW j \in Caller, codes_at'[j] # "idle" PROVE codes_held'[j] \in Code
    BY <1>11, <2>2 DEF CodesInv, CodesTyped
  <2>3. \A s \in Codes!Shards : Len(codes_verdicts'[s]) <= ShardSize
    BY <1>6 DEF CodesInv, CodesTyped
  <2> QED
    BY <1>2, <1>6, <2>1, <2>2, <2>3 DEF CodesInv, CodesTyped, Verdict
<1>13. CodesOwn'
  <2>1. ASSUME NEW s \in Codes!Shards, NEW i \in DOMAIN codes_verdicts'[s], codes_verdicts'[s][i].value = "ok"
        PROVE  codes_verdicts'[s][i].code \in ValidCodes
    <3>1. PICK j \in DOMAIN codes_verdicts[s] : codes_verdicts'[s][i] = codes_verdicts[s][j]
      BY <1>6
    <3> QED
      BY <2>1, <3>1 DEF CodesInv, CodesOwn
  <2>2. ASSUME NEW j \in Caller
        PROVE  /\ codes_at'[j] \in Approved => Normal[codes_held'[j]] \in ValidCodes
               /\ codes_at'[j] = "put" => codes_held'[j] \in Compiles
               /\ codes_at'[j] \in {"put", "deliver", "answered"} => codes_got'[j] = Ran(codes_held'[j])
    <3>1. CASE j = k
      BY <1>3, <1>7, <1>8, <1>11, <3>1 DEF Approved, CodeSteps
    <3>2. CASE j # k
      BY <1>2, <1>11, <3>2 DEF CodesInv, CodesOwn
    <3> QED
      BY <3>1, <3>2
  <2>3. codes_programs' = codes_programs
    BY <1>2
  <2> QED
    BY <2>1, <2>2, <2>3 DEF CodesInv, CodesOwn
<1> QED
  BY <1>9, <1>12, <1>13 DEF CodesInv

(* validateCode, whose verdict is stored.                                    *)
LEMMA ValidateOfCodes ==
  ASSUME CodesInv, NEW k \in Caller, Codes!Validate(k)
  PROVE  CodesInv'
<1>1. PICK n : n = Normal[codes_held[k]]
  OBVIOUS
<1>2. PICK verdict : verdict = IF n \in ValidCodes THEN "ok" ELSE "error"
  OBVIOUS
<1>3. PICK step : step = IF n \in ValidCodes THEN "validated" ELSE "refused"
  OBVIOUS
<1>4. /\ codes_at[k] = "validate" /\ codes_at' = [codes_at EXCEPT ![k] = step]
      /\ codes_verdicts' = Codes!Put(codes_verdicts, n, verdict)
      /\ UNCHANGED <<codes_held, codes_programs, codes_flight, codes_got, codes_compiled, codes_dropped, codes_since>>
  BY <1>1, <1>2, <1>3 DEF Codes!Validate, Codes!Goto
<1>5. /\ codes_at \in [Caller -> {"idle", "validate", "refused"} \cup Approved] /\ codes_held \in [Caller -> Code \cup {None}]
      /\ codes_held[k] \in Code
      /\ codes_verdicts \in [Codes!Shards -> Seq(Entry({"ok", "error"}))]
      /\ \A s \in Codes!Shards : Len(codes_verdicts[s]) <= ShardSize
  BY <1>4 DEF CodesInv, CodesTyped, Verdict
<1>6. n \in Code /\ verdict \in {"ok", "error"}
  BY <1>1, <1>2, <1>5, CodesAssumption
<1>7. /\ codes_verdicts' \in [Codes!Shards -> Seq(Entry({"ok", "error"}))]
      /\ \A s \in Codes!Shards :
           /\ Len(codes_verdicts'[s]) <= ShardSize
           /\ \A i \in DOMAIN codes_verdicts'[s] :
                \/ codes_verdicts'[s][i] = [code |-> n, value |-> verdict]
                \/ \E j \in DOMAIN codes_verdicts[s] : codes_verdicts'[s][i] = codes_verdicts[s][j]
  <2>1. CacheOf(codes_verdicts, {"ok", "error"})
    BY <1>5 DEF CacheOf
  <2>2. PICK after : after = Codes!Put(codes_verdicts, n, verdict)
    OBVIOUS
  <2>3. /\ CacheOf(after, {"ok", "error"})
        /\ \A s \in Codes!Shards :
             /\ Len(after[s]) <= ShardSize
             /\ \A i \in DOMAIN after[s] :
                  \/ after[s][i] = [code |-> n, value |-> verdict]
                  \/ \E j \in DOMAIN codes_verdicts[s] : after[s][i] = codes_verdicts[s][j]
    BY <1>5, <1>6, <2>1, <2>2, PutKeeps
  <2>4. codes_verdicts' = after
    BY <1>4, <2>2
  <2> QED
    BY <2>3, <2>4 DEF CacheOf
<1>8. codes_held' = [codes_held EXCEPT ![k] = codes_held[k]]
  BY <1>4, <1>5
<1>9. CodesShared' /\ CodesCounted' /\ CodesRecent' /\ CodesFinite'
  <2>1. step \notin CodeSteps \cup {"waits"} /\ codes_at[k] \notin CodeSteps
    BY <1>3, <1>4 DEF CodeSteps
  <2> QED
    BY <1>4, <1>8, <2>1, MovesAside
<1>10. codes_at'[k] = step /\ \A j \in Caller : j # k => codes_at'[j] = codes_at[j]
  BY <1>4, <1>5
<1>11. CodesTyped'
  <2>1. codes_at' \in [Caller -> {"idle", "validate", "refused"} \cup Approved]
    BY <1>3, <1>4, <1>5 DEF Approved
  <2>2. ASSUME NEW j \in Caller, codes_at'[j] # "idle" PROVE codes_held'[j] \in Code
    BY <1>4, <1>5, <1>10, <2>2 DEF CodesInv, CodesTyped
  <2> QED
    BY <1>4, <1>7, <2>1, <2>2 DEF CodesInv, CodesTyped, Verdict
<1>12. CodesOwn'
  <2>1. ASSUME NEW s \in Codes!Shards, NEW i \in DOMAIN codes_verdicts'[s], codes_verdicts'[s][i].value = "ok"
        PROVE  codes_verdicts'[s][i].code \in ValidCodes
    <3>1. CASE codes_verdicts'[s][i] = [code |-> n, value |-> verdict]
      BY <1>2, <2>1, <3>1
    <3>2. CASE \E j \in DOMAIN codes_verdicts[s] : codes_verdicts'[s][i] = codes_verdicts[s][j]
      BY <2>1, <3>2 DEF CodesInv, CodesOwn
    <3> QED
      BY <1>7, <3>1, <3>2
  <2>2. ASSUME NEW j \in Caller
        PROVE  /\ codes_at'[j] \in Approved => Normal[codes_held'[j]] \in ValidCodes
               /\ codes_at'[j] = "put" => codes_held'[j] \in Compiles
               /\ codes_at'[j] \in {"put", "deliver", "answered"} => codes_got'[j] = Ran(codes_held'[j])
    <3>1. CASE j = k
      <4>1. codes_at'[j] = step /\ codes_held'[j] = codes_held[k]
        BY <1>4, <1>10, <3>1
      <4>2. step \in Approved => Normal[codes_held[k]] \in ValidCodes
        BY <1>1, <1>3 DEF Approved, CodeSteps
      <4>3. step \notin {"put", "deliver", "answered"}
        BY <1>3
      <4> QED
        BY <4>1, <4>2, <4>3
    <3>2. CASE j # k
      BY <1>4, <1>10, <3>2 DEF CodesInv, CodesOwn
    <3> QED
      BY <3>1, <3>2
  <2>3. codes_programs' = codes_programs
    BY <1>4
  <2> QED
    BY <2>1, <2>2, <2>3 DEF CodesInv, CodesOwn
<1> QED
  BY <1>9, <1>11, <1>12 DEF CodesInv

(* The input is looked at.                                                   *)
LEMMA InputOfCodes ==
  ASSUME CodesInv, NEW k \in Caller, Codes!CheckInput(k)
  PROVE  CodesInv'
<1>1. PICK step \in {"compile", "refused"} : codes_at' = [codes_at EXCEPT ![k] = step]
  BY DEF Codes!CheckInput, Codes!Goto
<1>2. /\ codes_at[k] = "validated"
      /\ UNCHANGED <<codes_held, codes_verdicts, codes_programs, codes_flight, codes_got, codes_compiled, codes_dropped, codes_since>>
  BY DEF Codes!CheckInput, Codes!caches
<1>3. codes_at \in [Caller -> {"idle", "validate", "refused"} \cup Approved] /\ codes_held \in [Caller -> Code \cup {None}]
  BY DEF CodesInv, CodesTyped
<1>4. codes_held' = [codes_held EXCEPT ![k] = codes_held[k]]
  BY <1>2, <1>3
<1>5. CodesShared' /\ CodesCounted' /\ CodesRecent' /\ CodesFinite'
  <2>1. step \notin CodeSteps \cup {"waits"} /\ codes_at[k] \notin CodeSteps
    BY <1>2 DEF CodeSteps
  <2> QED
    BY <1>1, <1>2, <1>4, <2>1, MovesAside
<1>6. codes_at'[k] = step /\ \A j \in Caller : j # k => codes_at'[j] = codes_at[j]
  BY <1>1, <1>3
<1>7. CodesTyped'
  <2>1. codes_at' \in [Caller -> {"idle", "validate", "refused"} \cup Approved]
    BY <1>1, <1>3 DEF Approved
  <2>2. ASSUME NEW j \in Caller, codes_at'[j] # "idle" PROVE codes_held'[j] \in Code
    BY <1>2, <1>6, <2>2 DEF CodesInv, CodesTyped
  <2> QED
    BY <1>2, <2>1, <2>2 DEF CodesInv, CodesTyped
<1>8. CodesOwn'
  <2>1. ASSUME NEW j \in Caller
        PROVE  /\ codes_at'[j] \in Approved => Normal[codes_held'[j]] \in ValidCodes
               /\ codes_at'[j] = "put" => codes_held'[j] \in Compiles
               /\ codes_at'[j] \in {"put", "deliver", "answered"} => codes_got'[j] = Ran(codes_held'[j])
    <3>1. CASE j = k
      BY <1>2, <1>6, <3>1 DEF CodesInv, CodesOwn, Approved, CodeSteps
    <3>2. CASE j # k
      BY <1>2, <1>6, <3>2 DEF CodesInv, CodesOwn
    <3> QED
      BY <3>1, <3>2
  <2> QED
    BY <1>2, <2>1 DEF CodesInv, CodesOwn
<1> QED
  BY <1>5, <1>7, <1>8 DEF CodesInv

(* A call ends.                                                              *)
LEMMA ReturnOfCodes ==
  ASSUME CodesInv, NEW k \in Caller, Codes!Return(k)
  PROVE  CodesInv'
<1>1. /\ codes_at[k] \in {"answered", "refused"} /\ codes_at' = [codes_at EXCEPT ![k] = "idle"]
      /\ codes_held' = [codes_held EXCEPT ![k] = None] /\ codes_got' = [codes_got EXCEPT ![k] = None]
      /\ UNCHANGED <<codes_verdicts, codes_programs, codes_flight, codes_compiled, codes_dropped, codes_since>>
  BY DEF Codes!Return, Codes!Goto, Codes!caches
<1>2. /\ codes_at \in [Caller -> {"idle", "validate", "refused"} \cup Approved] /\ codes_held \in [Caller -> Code \cup {None}]
      /\ codes_got = [j \in Caller |-> codes_got[j]]
  BY DEF CodesInv, CodesTyped
<1>3. CodesShared' /\ CodesCounted' /\ CodesRecent' /\ CodesFinite'
  <2>1. "idle" \notin CodeSteps \cup {"waits"} /\ codes_at[k] \notin CodeSteps
    BY <1>1 DEF CodeSteps
  <2> QED
    BY <1>1, <2>1, MovesAside
<1>4. /\ codes_at'[k] = "idle"
      /\ \A j \in Caller : j # k => codes_at'[j] = codes_at[j] /\ codes_held'[j] = codes_held[j] /\ codes_got'[j] = codes_got[j]
  BY <1>1, <1>2
<1>5. CodesTyped'
  <2>1. /\ codes_at' \in [Caller -> {"idle", "validate", "refused"} \cup Approved] /\ codes_held' \in [Caller -> Code \cup {None}]
        /\ codes_got' = [j \in Caller |-> codes_got'[j]]
    BY <1>1, <1>2
  <2>2. ASSUME NEW j \in Caller, codes_at'[j] # "idle" PROVE codes_held'[j] \in Code
    BY <1>4, <2>2 DEF CodesInv, CodesTyped
  <2> QED
    BY <1>1, <2>1, <2>2 DEF CodesInv, CodesTyped
<1>6. CodesOwn'
  <2>1. ASSUME NEW j \in Caller
        PROVE  /\ codes_at'[j] \in Approved => Normal[codes_held'[j]] \in ValidCodes
               /\ codes_at'[j] = "put" => codes_held'[j] \in Compiles
               /\ codes_at'[j] \in {"put", "deliver", "answered"} => codes_got'[j] = Ran(codes_held'[j])
    <3>1. CASE j = k
      BY <1>4, <3>1 DEF Approved, CodeSteps
    <3>2. CASE j # k
      BY <1>4, <3>2 DEF CodesInv, CodesOwn
    <3> QED
      BY <3>1, <3>2
  <2> QED
    BY <1>1, <2>1 DEF CodesInv, CodesOwn
<1> QED
  BY <1>3, <1>5, <1>6 DEF CodesInv

(* One caller at a time works on a code.                                     *)
LEMMA WorksAlone ==
  ASSUME CodesInv, NEW k \in Caller, NEW j \in Caller, codes_at[k] \in CodeSteps, codes_at[j] \in CodeSteps,
         codes_held[j] = codes_held[k]
  PROVE  j = k
<1>1. codes_held[k] \in Code
  BY DEF CodesInv, CodesTyped, CodeSteps
<1>2. codes_flight[codes_held[k]] = k /\ codes_flight[codes_held[k]] = j
  BY <1>1 DEF CodesInv, CodesShared
<1> QED
  BY <1>2

(* The first caller gets the flight, another one waits.                      *)
LEMMA JoinOfCodes ==
  ASSUME CodesInv, NEW k \in Caller, Codes!Join(k)
  PROVE  CodesInv'
<1>1. PICK c : c = codes_held[k]
  OBVIOUS
<1>2. PICK step : /\ codes_at[k] = "compile" /\ codes_at' = [codes_at EXCEPT ![k] = step]
                  /\ \/ /\ codes_flight[c] = None /\ codes_flight' = [codes_flight EXCEPT ![c] = k] /\ step = "look again"
                     \/ codes_flight[c] # None /\ codes_flight' = codes_flight /\ step = "waits"
                  /\ UNCHANGED <<codes_held, codes_verdicts, codes_programs, codes_got, codes_compiled, codes_dropped, codes_since>>
  BY <1>1 DEF Codes!Join, Codes!Goto, Codes!caches
<1>3. /\ codes_at \in [Caller -> {"idle", "validate", "refused"} \cup Approved] /\ codes_flight \in [Code -> Caller \cup {None}]
      /\ c \in Code /\ None \notin Caller
  BY <1>1, <1>2, CodesAssumption DEF CodesInv, CodesTyped
<1>4. codes_at'[k] = step /\ \A j \in Caller : j # k => codes_at'[j] = codes_at[j]
  BY <1>2, <1>3
<1>5. CodesTyped'
  <2>1. codes_at' \in [Caller -> {"idle", "validate", "refused"} \cup Approved] /\ codes_flight' \in [Code -> Caller \cup {None}]
    BY <1>2, <1>3 DEF Approved, CodeSteps
  <2>2. ASSUME NEW j \in Caller, codes_at'[j] # "idle" PROVE codes_held'[j] \in Code
    BY <1>1, <1>2, <1>3, <1>4, <2>2 DEF CodesInv, CodesTyped
  <2> QED
    BY <1>2, <2>1, <2>2 DEF CodesInv, CodesTyped
<1>6. CodesOwn'
  <2>1. ASSUME NEW j \in Caller
        PROVE  /\ codes_at'[j] \in Approved => Normal[codes_held'[j]] \in ValidCodes
               /\ codes_at'[j] = "put" => codes_held'[j] \in Compiles
               /\ codes_at'[j] \in {"put", "deliver", "answered"} => codes_got'[j] = Ran(codes_held'[j])
    <3>1. CASE j = k
      BY <1>2, <1>4, <3>1 DEF CodesInv, CodesOwn, Approved
    <3>2. CASE j # k
      BY <1>2, <1>4, <3>2 DEF CodesInv, CodesOwn
    <3> QED
      BY <3>1, <3>2
  <2> QED
    BY <1>2, <2>1 DEF CodesInv, CodesOwn
<1>7. CodesShared'
  <2>1. CASE codes_flight[c] = None
    <3>1. step = "look again" /\ codes_flight'[c] = k /\ \A d \in Code : d # c => codes_flight'[d] = codes_flight[d]
      BY <1>2, <1>3, <2>1
    <3>2. ASSUME NEW j \in Caller, NEW d \in Code PROVE codes_flight'[d] = j <=> codes_held'[j] = d /\ codes_at'[j] \in CodeSteps
      <4>1. CASE j = k
        <5>1. codes_flight[d] # k
          BY <1>2 DEF CodesInv, CodesShared, CodeSteps
        <5>2. codes_flight'[d] = k <=> d = c
          BY <3>1, <5>1
        <5> QED
          BY <1>1, <1>2, <1>4, <3>1, <4>1, <5>2 DEF CodeSteps
      <4>2. CASE j # k
        <5>1. codes_flight[d] = j <=> codes_held[j] = d /\ codes_at[j] \in CodeSteps
          BY DEF CodesInv, CodesShared
        <5>2. codes_flight'[d] = j <=> codes_flight[d] = j
          BY <1>3, <2>1, <3>1, <4>2
        <5> QED
          BY <1>2, <1>4, <4>2, <5>1, <5>2
      <4> QED
        BY <4>1, <4>2
    <3>3. ASSUME NEW j \in Caller, codes_at'[j] = "waits" PROVE codes_flight'[codes_held'[j]] # None
      <4>1. j # k /\ codes_at[j] = "waits"
        BY <1>4, <3>1, <3>3
      <4>2. codes_flight[codes_held[j]] # None /\ codes_held[j] \in Code
        BY <4>1 DEF CodesInv, CodesShared, CodesTyped
      <4> QED
        BY <1>2, <1>3, <3>1, <4>2
    <3> QED
      BY <3>2, <3>3 DEF CodesShared
  <2>2. CASE codes_flight[c] # None
    <3>1. step = "waits" /\ codes_flight' = codes_flight
      BY <1>2, <2>2
    <3>2. ASSUME NEW j \in Caller
          PROVE  /\ \A d \in Code : codes_flight'[d] = j <=> codes_held'[j] = d /\ codes_at'[j] \in CodeSteps
                 /\ codes_at'[j] = "waits" => codes_flight'[codes_held'[j]] # None
      <4>1. CASE j = k
        BY <1>1, <1>2, <1>4, <2>2, <3>1, <4>1 DEF CodesInv, CodesShared, CodeSteps
      <4>2. CASE j # k
        BY <1>2, <1>4, <3>1, <4>2 DEF CodesInv, CodesShared
      <4> QED
        BY <4>1, <4>2
    <3> QED
      BY <3>2 DEF CodesShared
  <2> QED
    BY <2>1, <2>2
<1>8. CodesCounted'
  <2>1. step \notin {"goja", "put"} /\ codes_at[k] # "put"
    BY <1>2
  <2>2. \A d : Putting(d)' <=> Putting(d)
    BY <1>2, <1>4, <2>1 DEF Putting
  <2>3. ASSUME NEW j \in Caller, codes_at'[j] \in {"goja", "put"} PROVE ~Codes!Found(codes_programs', codes_held'[j])
    <3>1. codes_at[j] \in {"goja", "put"}
      BY <1>4, <2>1, <2>3
    <3> QED
      BY <1>2, <3>1 DEF CodesInv, CodesCounted
  <2> QED
    BY <1>2, <2>2, <2>3 DEF CodesInv, CodesCounted
<1>9. CodesRecent' /\ CodesFinite'
  BY <1>2 DEF CodesInv, CodesRecent, CodesFinite
<1> QED
  BY <1>5, <1>6, <1>7, <1>8, <1>9 DEF CodesInv

(* A caller goes on working on its code, and what it has is its program.     *)
LEMMA WorksOn ==
  ASSUME CodesInv, NEW k \in Caller, NEW step \in CodeSteps, codes_at[k] \in CodeSteps,
         codes_at' = [codes_at EXCEPT ![k] = step], codes_held' = codes_held, codes_flight' = codes_flight,
         codes_verdicts' = codes_verdicts, codes_got' = [j \in Caller |-> codes_got'[j]],
         \A j \in Caller : j # k => codes_got'[j] = codes_got[j],
         step = "put" => codes_held[k] \in Compiles,
         step \in {"put", "deliver"} => codes_got'[k] = Ran(codes_held[k])
  PROVE  /\ codes_at' \in [Caller -> {"idle", "validate", "refused"} \cup Approved]
         /\ \A j \in Caller : codes_at'[j] # "idle" => codes_held'[j] \in Code
         /\ \A j \in Caller :
              /\ codes_at'[j] \in Approved => Normal[codes_held'[j]] \in ValidCodes
              /\ codes_at'[j] = "put" => codes_held'[j] \in Compiles
              /\ codes_at'[j] \in {"put", "deliver", "answered"} => codes_got'[j] = Ran(codes_held'[j])
         /\ CodesShared'
<1>1. codes_at \in [Caller -> {"idle", "validate", "refused"} \cup Approved]
  BY DEF CodesInv, CodesTyped
<1>2. codes_at'[k] = step /\ \A j \in Caller : j # k => codes_at'[j] = codes_at[j]
  BY <1>1
<1>3. codes_at' \in [Caller -> {"idle", "validate", "refused"} \cup Approved]
  BY <1>1 DEF Approved
<1>4. codes_at[k] # "idle" /\ step \notin {"idle", "waits", "answered"} /\ codes_at[k] \in Approved
  BY DEF CodeSteps, Approved
<1>5. ASSUME NEW j \in Caller, codes_at'[j] # "idle" PROVE codes_held'[j] \in Code
  <2>1. codes_at[j] # "idle"
    BY <1>2, <1>4, <1>5
  <2> QED
    BY <2>1 DEF CodesInv, CodesTyped
<1>6. ASSUME NEW j \in Caller
      PROVE  /\ codes_at'[j] \in Approved => Normal[codes_held'[j]] \in ValidCodes
             /\ codes_at'[j] = "put" => codes_held'[j] \in Compiles
             /\ codes_at'[j] \in {"put", "deliver", "answered"} => codes_got'[j] = Ran(codes_held'[j])
  <2>1. CASE j = k
    BY <1>2, <1>4, <2>1 DEF CodesInv, CodesOwn
  <2>2. CASE j # k
    BY <1>2, <2>2 DEF CodesInv, CodesOwn
  <2> QED
    BY <2>1, <2>2
<1>7. CodesShared'
  <2> SUFFICES ASSUME NEW j \in Caller
               PROVE  /\ \A c \in Code : codes_flight'[c] = j <=> codes_held'[j] = c /\ codes_at'[j] \in CodeSteps
                      /\ codes_at'[j] = "waits" => codes_flight'[codes_held'[j]] # None
    BY DEF CodesShared
  <2>1. CASE j = k
    BY <1>2, <1>4, <2>1 DEF CodesInv, CodesShared
  <2>2. CASE j # k
    BY <1>2, <2>2 DEF CodesInv, CodesShared
  <2> QED
    BY <2>1, <2>2
<1> QED
  BY <1>3, <1>5, <1>6, <1>7

(* A use of a code in its shard is seen by the others.                       *)
LEMMA RecentAfterUse ==
  ASSUME CodesInv, NEW c \in Code, NEW new,
         codes_programs' = [codes_programs EXCEPT ![Shard[c]] = new], Stacked(new, Touched(codes_since, c), Shard[c]),
         codes_since' = Touched(codes_since, c)
  PROVE  CodesRecent' /\ CodesFinite' /\ codes_since' \in [Code -> {None} \cup SUBSET Code]
<1>1. codes_programs \in [Codes!Shards -> Seq(Program)] /\ codes_since \in [Code -> {None} \cup SUBSET Code]
  BY DEF CodesInv, CodesTyped
<1>2. /\ codes_since' \in [Code -> {None} \cup SUBSET Code]
      /\ \A d \in Code : codes_since'[d] # None => IsFiniteSet(codes_since'[d])
  BY <1>1, TouchedFinite DEF CodesInv, CodesFinite
<1>3. ASSUME NEW s \in Codes!Shards PROVE Stacked(codes_programs'[s], codes_since', s)
  <2>1. CASE s = Shard[c]
    <3>1. codes_programs'[s] = new
      BY <1>1, <1>3, <2>1
    <3> QED
      BY <2>1, <3>1
  <2>2. CASE s # Shard[c]
    <3>1. codes_programs'[s] = codes_programs[s] /\ codes_programs[s] \in Seq(Program)
      BY <1>1, <2>2
    <3>2. Stacked(codes_programs[s], codes_since, s)
      BY DEF CodesInv, CodesRecent
    <3>3. Stacked(codes_programs[s], Touched(codes_since, c), s)
      BY <1>1, <2>2, <3>1, <3>2, StackElsewhere
    <3> QED
      BY <3>1, <3>3
  <2> QED
    BY <2>1, <2>2
<1>4. CodesRecent'
  BY <1>3 DEF CodesRecent, Codes!Shards
<1> QED
  BY <1>2, <1>4 DEF CodesFinite

(* The flight looks for the program once more.                               *)
LEMMA LookOfCodes ==
  ASSUME CodesInv, NEW k \in Caller, Codes!LookAgain(k)
  PROVE  CodesInv'
<1>1. PICK c : c = codes_held[k]
  OBVIOUS
<1>2. /\ codes_at[k] = "look again" /\ codes_programs' = Codes!Get(codes_programs, c)
      /\ UNCHANGED <<codes_held, codes_verdicts, codes_flight, codes_compiled, codes_dropped>>
  BY <1>1 DEF Codes!LookAgain
<1>3. /\ c \in Code /\ Shard[c] \in Codes!Shards /\ codes_got = [j \in Caller |-> codes_got[j]]
      /\ codes_at \in [Caller -> {"idle", "validate", "refused"} \cup Approved]
      /\ codes_programs \in [Codes!Shards -> Seq(Entry(Code))] /\ codes_since \in [Code -> {None} \cup SUBSET Code]
  BY <1>1, <1>2 DEF CodesInv, CodesTyped, Codes!Shards, Program
<1>4. CASE ~Codes!Found(codes_programs, c)
  <2>1. codes_at' = [codes_at EXCEPT ![k] = "goja"] /\ codes_got' = codes_got /\ codes_since' = codes_since
    BY <1>1, <1>4 DEF Codes!LookAgain, Codes!Goto
  <2>2. codes_programs' = codes_programs
    BY <1>2, <1>4 DEF Codes!Get
  <2>3. "goja" \in CodeSteps /\ codes_at[k] \in CodeSteps
    BY <1>2 DEF CodeSteps
  <2>4. /\ codes_at' \in [Caller -> {"idle", "validate", "refused"} \cup Approved]
        /\ \A j \in Caller : codes_at'[j] # "idle" => codes_held'[j] \in Code
        /\ \A j \in Caller :
             /\ codes_at'[j] \in Approved => Normal[codes_held'[j]] \in ValidCodes
             /\ codes_at'[j] = "put" => codes_held'[j] \in Compiles
             /\ codes_at'[j] \in {"put", "deliver", "answered"} => codes_got'[j] = Ran(codes_held'[j])
        /\ CodesShared'
    BY <1>2, <1>3, <2>1, <2>3, WorksOn
  <2>5. CodesTyped'
    BY <1>2, <2>1, <2>2, <2>4 DEF CodesInv, CodesTyped
  <2>6. CodesOwn'
    BY <1>2, <2>2, <2>4 DEF CodesInv, CodesOwn
  <2>7. codes_at'[k] = "goja" /\ \A j \in Caller : j # k => codes_at'[j] = codes_at[j]
    BY <1>3, <2>1
  <2>8. CodesCounted'
    <3>1. \A d : Putting(d)' <=> Putting(d)
      BY <1>2, <2>7 DEF Putting
    <3>2. ASSUME NEW j \in Caller, codes_at'[j] \in {"goja", "put"} PROVE ~Codes!Found(codes_programs', codes_held'[j])
      BY <1>1, <1>2, <1>4, <2>2, <2>7, <3>2 DEF CodesInv, CodesCounted
    <3> QED
      BY <1>2, <2>2, <3>1, <3>2 DEF CodesInv, CodesCounted
  <2>9. CodesRecent' /\ CodesFinite'
    BY <2>1, <2>2 DEF CodesInv, CodesRecent, CodesFinite
  <2> QED
    BY <2>4, <2>5, <2>6, <2>8, <2>9 DEF CodesInv
<1>5. CASE Codes!Found(codes_programs, c)
  <2>1. PICK v : v = Codes!Stored(codes_programs, c)
    OBVIOUS
  <2>2. /\ codes_at' = [codes_at EXCEPT ![k] = "deliver"] /\ codes_got' = [codes_got EXCEPT ![k] = v]
        /\ codes_since' = Touched(codes_since, c)
    BY <1>1, <1>5, <2>1 DEF Codes!LookAgain, Codes!Goto, Codes!Touch, Touched
  <2>3. /\ v \in Code
        /\ \E j \in DOMAIN codes_programs[Shard[c]] : codes_programs[Shard[c]][j] = [code |-> c, value |-> v]
        /\ codes_programs' \in [Codes!Shards -> Seq(Entry(Code))]
        /\ \A s \in Codes!Shards : \A i \in DOMAIN codes_programs'[s] :
             \E j \in DOMAIN codes_programs[s] : codes_programs'[s][i] = codes_programs[s][j]
    <3>1. CacheOf(codes_programs, Code)
      BY <1>3 DEF CacheOf
    <3>2. PICK after : after = Codes!Get(codes_programs, c)
      OBVIOUS
    <3>3. /\ v \in Code
          /\ \E j \in DOMAIN codes_programs[Shard[c]] : codes_programs[Shard[c]][j] = [code |-> c, value |-> v]
      BY <1>3, <1>5, <2>1, <3>1, GetKeeps
    <3>4. /\ CacheOf(after, Code)
          /\ \A s \in Codes!Shards : Within(after[s], codes_programs[s])
      <4>1. /\ CacheOf(Codes!Get(codes_programs, c), Code)
            /\ \A s \in Codes!Shards : Within(Codes!Get(codes_programs, c)[s], codes_programs[s])
        <5>1. c \in Code
          BY <1>3
        <5>2. CacheOf(Codes!Get(codes_programs, c), Code)
          BY <3>1, <5>1, GetKeeps
        <5>3. ASSUME NEW s \in Codes!Shards
              PROVE  Within(Codes!Get(codes_programs, c)[s], codes_programs[s])
          BY <3>1, <5>1, GetKeeps
        <5> QED
          BY <5>2, <5>3
      <4> QED
        BY <3>2, <4>1
    <3>5. codes_programs' = after
      BY <1>2, <3>2
    <3> QED
      BY <3>3, <3>4, <3>5 DEF CacheOf, Within
  <2>4. v = Ran(c)
    <3>1. c \in Compiles /\ v = c
      BY <1>3, <2>3 DEF CodesInv, CodesOwn
    <3> QED
      BY <3>1 DEF Ran
  <2>5. "deliver" \in CodeSteps /\ codes_at[k] \in CodeSteps
    BY <1>2 DEF CodeSteps
  <2>6. codes_got' = [j \in Caller |-> codes_got'[j]] /\ codes_got'[k] = v /\ \A j \in Caller : j # k => codes_got'[j] = codes_got[j]
    BY <1>3, <2>2
  <2>7. /\ codes_at' \in [Caller -> {"idle", "validate", "refused"} \cup Approved]
        /\ \A j \in Caller : codes_at'[j] # "idle" => codes_held'[j] \in Code
        /\ \A j \in Caller :
             /\ codes_at'[j] \in Approved => Normal[codes_held'[j]] \in ValidCodes
             /\ codes_at'[j] = "put" => codes_held'[j] \in Compiles
             /\ codes_at'[j] \in {"put", "deliver", "answered"} => codes_got'[j] = Ran(codes_held'[j])
        /\ CodesShared'
    BY <1>1, <1>2, <2>2, <2>4, <2>5, <2>6, WorksOn
  <2>8. PICK new : new = Codes!Moved(codes_programs[Shard[c]], c, v)
    OBVIOUS
  <2>9. codes_programs' = [codes_programs EXCEPT ![Shard[c]] = new]
    BY <1>2, <1>5, <2>1, <2>8 DEF Codes!Get
  <2>10. /\ Stacked(new, Touched(codes_since, c), Shard[c])
         /\ Codes!Codes(new) = Codes!Codes(codes_programs[Shard[c]])
    <3>1. c \in Codes!Codes(codes_programs[Shard[c]])
      BY <1>5 DEF Codes!Found
    <3>2. Stacked(codes_programs[Shard[c]], codes_since, Shard[c]) /\ codes_programs[Shard[c]] \in Seq(Program)
      BY <1>3 DEF CodesInv, CodesRecent, Program
    <3> QED
      <4>1. PICK old : old = codes_programs[Shard[c]]
        OBVIOUS
      <4>2. old \in Seq(Program) /\ Stacked(old, codes_since, Shard[c]) /\ c \in Codes!Codes(old)
        BY <3>1, <3>2, <4>1
      <4>3. c \in Code /\ v \in Code /\ codes_since \in [Code -> {None} \cup SUBSET Code]
        BY <1>3, <2>3
      <4>4. /\ Stacked(Codes!Moved(old, c, v), Touched(codes_since, c), Shard[c])
            /\ Codes!Codes(Codes!Moved(old, c, v)) = Codes!Codes(old)
        BY <4>2, <4>3, StackMoves
      <4> QED
        BY <2>8, <4>1, <4>4
  <2>11. CodesRecent' /\ CodesFinite' /\ codes_since' \in [Code -> {None} \cup SUBSET Code]
    BY <1>3, <2>2, <2>9, <2>10, RecentAfterUse
  <2>12. \A d \in Code : Codes!Found(codes_programs', d) <=> Codes!Found(codes_programs, d)
    <3> SUFFICES ASSUME NEW d \in Code PROVE Codes!Found(codes_programs', d) <=> Codes!Found(codes_programs, d)
      OBVIOUS
    <3>1. CASE Shard[d] = Shard[c]
      <4>1. codes_programs'[Shard[d]] = new
        BY <1>3, <2>9, <3>1
      <4> QED
        BY <2>10, <3>1, <4>1 DEF Codes!Found
    <3>2. CASE Shard[d] # Shard[c]
      BY <2>9, <3>2 DEF Codes!Found
    <3> QED
      BY <3>1, <3>2
  <2>13. CodesTyped'
    BY <1>2, <2>3, <2>6, <2>7, <2>11 DEF CodesInv, CodesTyped, Program
  <2>14. CodesOwn'
    <3>1. ASSUME NEW s \in Codes!Shards, NEW i \in DOMAIN codes_programs'[s]
          PROVE  codes_programs'[s][i].code \in Compiles /\ codes_programs'[s][i].value = codes_programs'[s][i].code
      BY <2>3 DEF CodesInv, CodesOwn
    <3> QED
      BY <1>2, <2>7, <3>1 DEF CodesInv, CodesOwn
  <2>15. codes_at'[k] = "deliver" /\ \A j \in Caller : j # k => codes_at'[j] = codes_at[j]
    BY <1>3, <2>2
  <2>16. CodesCounted'
    <3>1. \A d : Putting(d)' <=> Putting(d)
      BY <1>2, <2>15 DEF Putting
    <3>2. ASSUME NEW j \in Caller, codes_at'[j] \in {"goja", "put"} PROVE ~Codes!Found(codes_programs', codes_held'[j])
      <4>1. codes_at[j] \in {"goja", "put"} /\ codes_held[j] \in Code
        BY <2>15, <3>2 DEF CodesInv, CodesTyped
      <4> QED
        BY <1>2, <2>12, <4>1 DEF CodesInv, CodesCounted
    <3>3. ASSUME NEW d \in Code, d \in Compiles
          PROVE  codes_compiled'[d] = codes_dropped'[d] + (IF Codes!Found(codes_programs', d) THEN 1 ELSE 0)
                                                        + (IF Putting(d)' THEN 1 ELSE 0)
      BY <1>2, <2>12, <3>1, <3>3 DEF CodesInv, CodesCounted
    <3> QED
      BY <3>2, <3>3 DEF CodesCounted
  <2> QED
    BY <2>7, <2>11, <2>13, <2>14, <2>16 DEF CodesInv
<1> QED
  BY <1>4, <1>5

(* goja compiles; a program is on its way into the cache.                    *)
LEMMA CompileOfCodes ==
  ASSUME CodesInv, NEW k \in Caller, Codes!Compile(k)
  PROVE  CodesInv'
<1>1. PICK c : c = codes_held[k]
  OBVIOUS
<1>2. PICK step : step = IF c \in Compiles THEN "put" ELSE "deliver"
  OBVIOUS
<1>3. /\ codes_at[k] = "goja" /\ codes_at' = [codes_at EXCEPT ![k] = step]
      /\ codes_compiled' = [codes_compiled EXCEPT ![c] = @ + 1]
      /\ codes_got' = [codes_got EXCEPT ![k] = Ran(c)]
      /\ UNCHANGED <<codes_held, codes_verdicts, codes_programs, codes_flight, codes_dropped, codes_since>>
  BY <1>1, <1>2 DEF Codes!Compile, Codes!Goto, Codes!caches, Ran
<1>4. /\ c \in Code /\ codes_got = [j \in Caller |-> codes_got[j]]
      /\ codes_at \in [Caller -> {"idle", "validate", "refused"} \cup Approved]
      /\ codes_compiled \in [Code -> Nat] /\ codes_dropped \in [Code -> Nat]
  BY <1>1, <1>3 DEF CodesInv, CodesTyped
<1>5. step \in CodeSteps /\ codes_at[k] \in CodeSteps
  BY <1>2, <1>3 DEF CodeSteps
<1>6. codes_got' = [j \in Caller |-> codes_got'[j]] /\ codes_got'[k] = Ran(c) /\ \A j \in Caller : j # k => codes_got'[j] = codes_got[j]
  BY <1>3, <1>4
<1>7. /\ codes_at' \in [Caller -> {"idle", "validate", "refused"} \cup Approved]
      /\ \A j \in Caller : codes_at'[j] # "idle" => codes_held'[j] \in Code
      /\ \A j \in Caller :
           /\ codes_at'[j] \in Approved => Normal[codes_held'[j]] \in ValidCodes
           /\ codes_at'[j] = "put" => codes_held'[j] \in Compiles
           /\ codes_at'[j] \in {"put", "deliver", "answered"} => codes_got'[j] = Ran(codes_held'[j])
      /\ CodesShared'
  <2>1. (step = "put" => codes_held[k] \in Compiles) /\ codes_got'[k] = Ran(codes_held[k])
    BY <1>1, <1>2, <1>6
  <2> QED
    BY <1>3, <1>5, <1>6, <2>1, WorksOn
<1>8. codes_at'[k] = step /\ \A j \in Caller : j # k => codes_at'[j] = codes_at[j]
  BY <1>3, <1>4
<1>9. CodesTyped'
  <2>1. codes_compiled' \in [Code -> Nat]
    BY <1>3, <1>4
  <2> QED
    BY <1>3, <1>6, <1>7, <2>1 DEF CodesInv, CodesTyped
<1>10. CodesOwn'
  BY <1>3, <1>7 DEF CodesInv, CodesOwn
<1>11. ~Codes!Found(codes_programs, c) /\ ~Putting(c)
  <2>1. ~Codes!Found(codes_programs, c)
    BY <1>1, <1>3 DEF CodesInv, CodesCounted
  <2>2. ASSUME NEW j \in Caller, codes_held[j] = c, codes_at[j] = "put" PROVE FALSE
    <3>1. j = k
      BY <1>1, <1>5, <2>2, WorksAlone DEF CodeSteps
    <3> QED
      BY <1>3, <2>2, <3>1
  <2> QED
    BY <2>1, <2>2 DEF Putting
<1>12. CodesCounted'
  <2>1. ASSUME NEW j \in Caller, codes_at'[j] \in {"goja", "put"} PROVE ~Codes!Found(codes_programs', codes_held'[j])
    <3>1. CASE j = k
      BY <1>1, <1>3, <1>11, <3>1
    <3>2. CASE j # k
      BY <1>3, <1>8, <2>1, <3>2 DEF CodesInv, CodesCounted
    <3> QED
      BY <3>1, <3>2
  <2>2. ASSUME NEW d \in Code, d \in Compiles
        PROVE  codes_compiled'[d] = codes_dropped'[d] + (IF Codes!Found(codes_programs', d) THEN 1 ELSE 0)
                                                      + (IF Putting(d)' THEN 1 ELSE 0)
    <3>1. codes_compiled[d] = codes_dropped[d] + (IF Codes!Found(codes_programs, d) THEN 1 ELSE 0)
                                               + (IF Putting(d) THEN 1 ELSE 0)
      BY <2>2 DEF CodesInv, CodesCounted
    <3>2. CASE d = c
      <4>1. Putting(d)'
        <5>1. codes_held'[k] = d /\ codes_at'[k] = "put"
          BY <1>1, <1>2, <1>3, <1>8, <2>2, <3>2
        <5> QED
          BY <5>1 DEF Putting
      <4>2. codes_compiled[d] = codes_dropped[d] /\ codes_dropped[d] \in Nat
        BY <1>4, <1>11, <3>1, <3>2
      <4>3. codes_compiled'[d] = codes_compiled[d] + 1 /\ codes_dropped'[d] = codes_dropped[d]
        BY <1>3, <1>4, <3>2
      <4>4. ~Codes!Found(codes_programs', d)
        BY <1>3, <1>11, <3>2
      <4> QED
        BY <4>1, <4>2, <4>3, <4>4
    <3>3. CASE d # c
      <4>1. Putting(d)' <=> Putting(d)
        BY <1>1, <1>3, <1>8, <3>3 DEF Putting
      <4>2. codes_compiled'[d] = codes_compiled[d] /\ codes_dropped' = codes_dropped /\ codes_programs' = codes_programs
        BY <1>3, <1>4, <3>3
      <4> QED
        BY <3>1, <4>1, <4>2
    <3> QED
      BY <3>2, <3>3
  <2> QED
    BY <2>1, <2>2 DEF CodesCounted
<1>13. CodesRecent' /\ CodesFinite'
  BY <1>3 DEF CodesInv, CodesRecent, CodesFinite
<1> QED
  BY <1>7, <1>9, <1>10, <1>12, <1>13 DEF CodesInv

(* The program is put into the cache, where another one may have to leave.   *)
LEMMA PutOfCodes ==
  ASSUME CodesInv, NEW k \in Caller, Codes!PutProgram(k)
  PROVE  CodesInv'
<1>1. PICK c : c = codes_held[k]
  OBVIOUS
<1>2. /\ codes_at[k] = "put" /\ codes_at' = [codes_at EXCEPT ![k] = "deliver"]
      /\ codes_programs' = Codes!Put(codes_programs, c, codes_got[k]) /\ codes_since' = Touched(codes_since, c)
      /\ codes_dropped' = [d \in Code |-> codes_dropped[d]
                             + (IF d \in Codes!Evicted(codes_programs, c, codes_got[k]) THEN 1 ELSE 0)]
      /\ UNCHANGED <<codes_held, codes_verdicts, codes_flight, codes_got, codes_compiled>>
  BY <1>1 DEF Codes!PutProgram, Codes!Goto, Codes!Touch, Touched
<1>3. /\ c \in Code /\ Shard[c] \in Codes!Shards /\ codes_got = [j \in Caller |-> codes_got[j]]
      /\ codes_at \in [Caller -> {"idle", "validate", "refused"} \cup Approved]
      /\ codes_programs \in [Codes!Shards -> Seq(Entry(Code))] /\ codes_since \in [Code -> {None} \cup SUBSET Code]
      /\ codes_compiled \in [Code -> Nat] /\ codes_dropped \in [Code -> Nat]
  BY <1>1, <1>2 DEF CodesInv, CodesTyped, Codes!Shards, Program
<1>4. c \in Compiles /\ codes_got[k] = c
  <2>1. c \in Compiles /\ codes_got[k] = Ran(c)
    BY <1>1, <1>2 DEF CodesInv, CodesOwn
  <2> QED
    BY <2>1 DEF Ran
<1>5. ~Codes!Found(codes_programs, c)
  BY <1>1, <1>2 DEF CodesInv, CodesCounted
<1>6. "deliver" \in CodeSteps /\ codes_at[k] \in CodeSteps
  BY <1>2 DEF CodeSteps
<1>7. /\ codes_at' \in [Caller -> {"idle", "validate", "refused"} \cup Approved]
      /\ \A j \in Caller : codes_at'[j] # "idle" => codes_held'[j] \in Code
      /\ \A j \in Caller :
           /\ codes_at'[j] \in Approved => Normal[codes_held'[j]] \in ValidCodes
           /\ codes_at'[j] = "put" => codes_held'[j] \in Compiles
           /\ codes_at'[j] \in {"put", "deliver", "answered"} => codes_got'[j] = Ran(codes_held'[j])
      /\ CodesShared'
  <2>1. codes_got'[k] = Ran(codes_held[k])
    BY <1>1, <1>2, <1>4 DEF Ran
  <2> QED
    BY <1>2, <1>3, <1>6, <2>1, WorksOn
<1>8. PICK list : list = codes_programs[Shard[c]]
  OBVIOUS
<1>10. PICK new : new = Pushed(list, [code |-> c, value |-> c])
  OBVIOUS
<1>11. codes_programs' = [codes_programs EXCEPT ![Shard[c]] = new]
  BY <1>2, <1>4, <1>5, <1>8, <1>10 DEF Codes!Put, Pushed
<1>12. /\ Stacked(new, Touched(codes_since, c), Shard[c])
       /\ c \in Codes!Codes(new) /\ Codes!Codes(new) \subseteq {c} \cup Codes!Codes(list)
  <2>1. c \notin Codes!Codes(list)
    BY <1>5, <1>8 DEF Codes!Found
  <2>2. Stacked(list, codes_since, Shard[c]) /\ list \in Seq(Program)
    BY <1>3, <1>8 DEF CodesInv, CodesRecent, Program
  <2> QED
    BY <1>3, <1>10, <2>1, <2>2, StackPushed
<1>13. CodesRecent' /\ CodesFinite' /\ codes_since' \in [Code -> {None} \cup SUBSET Code]
  BY <1>2, <1>3, <1>11, <1>12, RecentAfterUse
<1>14. Codes!Found(codes_programs', c)
  <2>1. codes_programs'[Shard[c]] = new
    BY <1>3, <1>11
  <2> QED
    BY <1>12, <2>1 DEF Codes!Found
<1>15. ASSUME NEW d \in Code, d # c PROVE Codes!Found(codes_programs', d) => Codes!Found(codes_programs, d)
  <2>1. CASE Shard[d] = Shard[c]
    <3>1. codes_programs'[Shard[d]] = new /\ codes_programs[Shard[d]] = list
      BY <1>3, <1>8, <1>11, <2>1
    <3> QED
      BY <1>12, <1>15, <3>1 DEF Codes!Found
  <2>2. CASE Shard[d] # Shard[c]
    BY <1>11, <2>2 DEF Codes!Found
  <2> QED
    BY <2>1, <2>2
<1>16. /\ codes_programs' \in [Codes!Shards -> Seq(Entry(Code))]
       /\ \A s \in Codes!Shards : \A i \in DOMAIN codes_programs'[s] :
            \/ codes_programs'[s][i] = [code |-> c, value |-> c]
            \/ \E j \in DOMAIN codes_programs[s] : codes_programs'[s][i] = codes_programs[s][j]
  <2>1. \A s \in Codes!Shards : Len(codes_programs[s]) <= ShardSize
    BY DEF CodesInv, CodesRecent, Stacked
  <2> QED
    <3>1. CacheOf(codes_programs, Code)
      BY <1>3 DEF CacheOf
    <3>2. PICK after : after = Codes!Put(codes_programs, c, c)
      OBVIOUS
    <3>3. /\ CacheOf(after, Code)
          /\ \A s \in Codes!Shards : \A i \in DOMAIN after[s] :
               \/ after[s][i] = [code |-> c, value |-> c]
               \/ \E j \in DOMAIN codes_programs[s] : after[s][i] = codes_programs[s][j]
      BY <1>3, <2>1, <3>1, <3>2, PutKeeps
    <3>4. codes_programs' = after
      BY <1>2, <1>4, <3>2
    <3> QED
      BY <3>3, <3>4 DEF CacheOf
<1>17. codes_dropped' \in [Code -> Nat]
  BY <1>2, <1>3
<1>18. CodesTyped'
  BY <1>2, <1>3, <1>7, <1>13, <1>16, <1>17 DEF CodesInv, CodesTyped, Program
<1>19. CodesOwn'
  <2>1. ASSUME NEW s \in Codes!Shards, NEW i \in DOMAIN codes_programs'[s]
        PROVE  codes_programs'[s][i].code \in Compiles /\ codes_programs'[s][i].value = codes_programs'[s][i].code
    <3>1. CASE codes_programs'[s][i] = [code |-> c, value |-> c]
      BY <1>4, <3>1
    <3>2. CASE \E j \in DOMAIN codes_programs[s] : codes_programs'[s][i] = codes_programs[s][j]
      BY <3>2 DEF CodesInv, CodesOwn
    <3> QED
      BY <1>16, <3>1, <3>2
  <2> QED
    BY <1>2, <1>7, <2>1 DEF CodesInv, CodesOwn
<1>20. codes_at'[k] = "deliver" /\ \A j \in Caller : j # k => codes_at'[j] = codes_at[j]
  BY <1>2, <1>3
<1>21. ASSUME NEW j \in Caller, j # k, codes_at[j] \in CodeSteps PROVE codes_held[j] # c
  BY <1>1, <1>6, <1>21, WorksAlone
<1>22. CodesCounted'
  <2>1. ASSUME NEW j \in Caller, codes_at'[j] \in {"goja", "put"} PROVE ~Codes!Found(codes_programs', codes_held'[j])
    <3>1. j # k /\ codes_at[j] \in {"goja", "put"}
      BY <1>20, <2>1
    <3>2. codes_held[j] # c /\ codes_held[j] \in Code /\ ~Codes!Found(codes_programs, codes_held[j])
      BY <1>21, <3>1 DEF CodesInv, CodesTyped, CodesCounted, CodeSteps
    <3> QED
      BY <1>2, <1>15, <3>2
  <2>2. ASSUME NEW d \in Code, d \in Compiles
        PROVE  codes_compiled'[d] = codes_dropped'[d] + (IF Codes!Found(codes_programs', d) THEN 1 ELSE 0)
                                                      + (IF Putting(d)' THEN 1 ELSE 0)
    <3>1. codes_compiled[d] = codes_dropped[d] + (IF Codes!Found(codes_programs, d) THEN 1 ELSE 0)
                                               + (IF Putting(d) THEN 1 ELSE 0)
      BY <2>2 DEF CodesInv, CodesCounted
    <3>2. codes_dropped'[d] = codes_dropped[d]
            + (IF Codes!Found(codes_programs, d) /\ ~Codes!Found(codes_programs', d) THEN 1 ELSE 0)
      BY <1>2 DEF Codes!Evicted
    <3>3. codes_dropped[d] \in Nat /\ codes_compiled'[d] = codes_compiled[d]
      BY <1>2, <1>3
    <3>4. CASE d = c
      <4>1. Putting(d)
        BY <1>1, <1>2, <3>4 DEF Putting
      <4>2. ~Putting(d)'
        <5> SUFFICES ASSUME NEW j \in Caller, codes_held'[j] = d, codes_at'[j] = "put" PROVE FALSE
          BY DEF Putting
        <5>1. j # k /\ codes_at[j] = "put" /\ codes_held[j] = c
          BY <1>2, <1>20, <3>4
        <5> QED
          BY <1>21, <5>1 DEF CodeSteps
      <4> QED
        BY <1>5, <1>14, <3>1, <3>2, <3>3, <3>4, <4>1, <4>2
    <3>5. CASE d # c
      <4>1. Putting(d)' <=> Putting(d)
        BY <1>1, <1>2, <1>20, <3>5 DEF Putting
      <4>2. Codes!Found(codes_programs', d) => Codes!Found(codes_programs, d)
        BY <1>15, <3>5
      <4>3. CASE Codes!Found(codes_programs', d)
        BY <3>1, <3>2, <3>3, <4>1, <4>2, <4>3
      <4>4. CASE Codes!Found(codes_programs, d) /\ ~Codes!Found(codes_programs', d)
        BY <3>1, <3>2, <3>3, <4>1, <4>4
      <4>5. CASE ~Codes!Found(codes_programs, d) /\ ~Codes!Found(codes_programs', d)
        BY <3>1, <3>2, <3>3, <4>1, <4>5
      <4> QED
        BY <4>3, <4>4, <4>5
    <3> QED
      BY <3>4, <3>5
  <2> QED
    BY <2>1, <2>2 DEF CodesCounted
<1> QED
  BY <1>7, <1>13, <1>18, <1>19, <1>22 DEF CodesInv

(* The flight ends for all that share it.                                    *)
LEMMA DeliverOfCodes ==
  ASSUME CodesInv, NEW k \in Caller, Codes!Deliver(k)
  PROVE  CodesInv'
<1>1. PICK c : c = codes_held[k]
  OBVIOUS
<1>2. PICK answered : answered = {k} \cup {j \in Caller : codes_at[j] = "waits" /\ codes_held[j] = c}
  OBVIOUS
<1>3. /\ codes_at[k] = "deliver" /\ codes_flight' = [codes_flight EXCEPT ![c] = None]
      /\ codes_got' = [j \in Caller |-> IF j \in answered THEN codes_got[k] ELSE codes_got[j]]
      /\ codes_at' = [j \in Caller |-> IF j \in answered THEN "answered" ELSE codes_at[j]]
      /\ UNCHANGED <<codes_held, codes_verdicts, codes_programs, codes_compiled, codes_dropped, codes_since>>
  BY <1>1, <1>2 DEF Codes!Deliver, Codes!Waits, Codes!caches
<1>4. /\ c \in Code /\ None \notin Caller
      /\ codes_at \in [Caller -> {"idle", "validate", "refused"} \cup Approved] /\ codes_flight \in [Code -> Caller \cup {None}]
  BY <1>1, <1>3, CodesAssumption DEF CodesInv, CodesTyped
<1>5. codes_got[k] = Ran(c)
  BY <1>1, <1>3 DEF CodesInv, CodesOwn
<1>6. \A j \in Caller : /\ j \in answered => codes_held[j] = c /\ codes_at[j] \in {"deliver", "waits"}
                        /\ j \in answered => codes_at'[j] = "answered" /\ codes_got'[j] = Ran(c)
                        /\ j \notin answered => codes_at'[j] = codes_at[j] /\ codes_got'[j] = codes_got[j]
  BY <1>1, <1>2, <1>3, <1>5
<1>7. CodesTyped'
  <2>1. codes_at' \in [Caller -> {"idle", "validate", "refused"} \cup Approved]
    <3>1. "answered" \in Approved
      BY DEF Approved
    <3> QED
      BY <1>3, <1>4, <3>1
  <2>2. codes_flight' \in [Code -> Caller \cup {None}] /\ codes_got' = [j \in Caller |-> codes_got'[j]]
    BY <1>3, <1>4
  <2>3. ASSUME NEW j \in Caller, codes_at'[j] # "idle" PROVE codes_held'[j] \in Code
    BY <1>3, <1>4, <1>6, <2>3 DEF CodesInv, CodesTyped
  <2> QED
    BY <1>3, <2>1, <2>2, <2>3 DEF CodesInv, CodesTyped
<1>8. CodesOwn'
  <2>1. ASSUME NEW j \in Caller
        PROVE  /\ codes_at'[j] \in Approved => Normal[codes_held'[j]] \in ValidCodes
               /\ codes_at'[j] = "put" => codes_held'[j] \in Compiles
               /\ codes_at'[j] \in {"put", "deliver", "answered"} => codes_got'[j] = Ran(codes_held'[j])
    <3>1. CASE j \in answered
      <4>1. codes_at[j] \in Approved
        BY <1>6, <3>1 DEF Approved, CodeSteps
      <4> QED
        BY <1>3, <1>6, <3>1, <4>1 DEF CodesInv, CodesOwn
    <3>2. CASE j \notin answered
      BY <1>3, <1>6, <3>2 DEF CodesInv, CodesOwn
    <3> QED
      BY <3>1, <3>2
  <2> QED
    BY <1>3, <2>1 DEF CodesInv, CodesOwn
<1>9. CodesShared'
  <2>1. codes_flight'[c] = None /\ \A d \in Code : d # c => codes_flight'[d] = codes_flight[d]
    BY <1>3, <1>4
  <2>2. codes_at[k] \in CodeSteps
    BY <1>3 DEF CodeSteps
  <2>3. ASSUME NEW j \in Caller, NEW d \in Code
        PROVE  codes_flight'[d] = j <=> codes_held'[j] = d /\ codes_at'[j] \in CodeSteps
    <3>1. codes_flight[d] = j <=> codes_held[j] = d /\ codes_at[j] \in CodeSteps
      BY DEF CodesInv, CodesShared
    <3>2. CASE j \in answered
      <4>1. codes_at'[j] \notin CodeSteps
        BY <1>6, <3>2 DEF CodeSteps
      <4>2. codes_flight'[d] # j
        BY <1>4, <1>6, <2>1, <3>1, <3>2
      <4> QED
        BY <4>1, <4>2
    <3>3. CASE j \notin answered
      <4>1. CASE d = c
        <5>1. j # k
          BY <1>2, <3>3
        <5>2. ~(codes_held[j] = c /\ codes_at[j] \in CodeSteps)
          BY <1>1, <2>2, <5>1, WorksAlone
        <5> QED
          BY <1>3, <1>4, <1>6, <2>1, <3>3, <4>1, <5>2
      <4>2. CASE d # c
        BY <1>3, <1>6, <2>1, <3>1, <3>3, <4>2
      <4> QED
        BY <4>1, <4>2
    <3> QED
      BY <3>2, <3>3
  <2>4. ASSUME NEW j \in Caller, codes_at'[j] = "waits" PROVE codes_flight'[codes_held'[j]] # None
    <3>1. j \notin answered /\ codes_at[j] = "waits"
      BY <1>6, <2>4
    <3>2. codes_held[j] # c /\ codes_held[j] \in Code /\ codes_flight[codes_held[j]] # None
      BY <1>2, <3>1 DEF CodesInv, CodesTyped, CodesShared
    <3> QED
      BY <1>3, <2>1, <3>2
  <2> QED
    BY <2>3, <2>4 DEF CodesShared
<1>10. CodesCounted'
  <2>1. \A d : Putting(d)' <=> Putting(d)
    BY <1>3, <1>6 DEF Putting
  <2>2. ASSUME NEW j \in Caller, codes_at'[j] \in {"goja", "put"} PROVE ~Codes!Found(codes_programs', codes_held'[j])
    BY <1>3, <1>6, <2>2 DEF CodesInv, CodesCounted
  <2> QED
    BY <1>3, <2>1, <2>2 DEF CodesInv, CodesCounted
<1>11. CodesRecent' /\ CodesFinite'
  BY <1>3 DEF CodesInv, CodesRecent, CodesFinite
<1> QED
  BY <1>7, <1>8, <1>9, <1>10, <1>11 DEF CodesInv

(* The caches begin empty.                                                   *)
LEMMA CodesBegin == Codes!Init => CodesInv
<1> SUFFICES ASSUME Codes!Init PROVE CodesInv
  OBVIOUS
<1>1. CodesTyped
  <2>1. \A s \in Codes!Shards : codes_verdicts[s] = <<>> /\ Len(codes_verdicts[s]) <= ShardSize
    BY CodesAssumption DEF Codes!Init
  <2>2. codes_verdicts \in [Codes!Shards -> Seq(Verdict)] /\ codes_programs \in [Codes!Shards -> Seq(Program)]
    <3>1. <<>> \in Seq(Verdict) /\ <<>> \in Seq(Program)
      OBVIOUS
    <3> QED
      BY <3>1 DEF Codes!Init
  <2>3. codes_at \in [Caller -> {"idle", "validate", "refused"} \cup Approved] /\ codes_held \in [Caller -> Code \cup {None}]
    BY DEF Codes!Init
  <2>4. codes_flight \in [Code -> Caller \cup {None}] /\ codes_since \in [Code -> {None} \cup SUBSET Code]
    BY DEF Codes!Init
  <2>5. codes_compiled \in [Code -> Nat] /\ codes_dropped \in [Code -> Nat] /\ codes_got = [k \in Caller |-> codes_got[k]]
    BY DEF Codes!Init
  <2>6. \A k \in Caller : codes_at[k] = "idle"
    BY DEF Codes!Init
  <2> QED
    BY <2>1, <2>2, <2>3, <2>4, <2>5, <2>6 DEF CodesTyped
<1>2. CodesOwn
  BY DEF Codes!Init, CodesOwn, Approved, CodeSteps
<1>3. CodesShared
  BY CodesAssumption DEF Codes!Init, CodesShared, CodeSteps
<1>4. CodesCounted
  <2>1. \A c \in Code : ~Codes!Found(codes_programs, c)
    <3>1. \A c \in Code : codes_programs[Shard[c]] = <<>>
      BY DEF Codes!Init, Codes!Shards
    <3> QED
      BY <3>1 DEF Codes!Found, Codes!Codes
  <2>2. \A c : ~Putting(c)
    BY DEF Codes!Init, Putting
  <2>3. \A k \in Caller : codes_at[k] \notin {"goja", "put"}
    BY DEF Codes!Init
  <2> QED
    BY <2>1, <2>2, <2>3 DEF Codes!Init, CodesCounted
<1>5. CodesRecent
  BY CodesAssumption DEF Codes!Init, CodesRecent, Stacked
<1>6. CodesFinite
  BY DEF Codes!Init, CodesFinite
<1> QED
  BY <1>1, <1>2, <1>3, <1>4, <1>5, <1>6 DEF CodesInv

(* The inductive invariant is kept by every step.                            *)
LEMMA CodesKeep == CodesInv /\ [Codes!Next]_codes_vars => CodesInv'
<1> SUFFICES ASSUME CodesInv, [Codes!Next]_codes_vars PROVE CodesInv'
  OBVIOUS
<1>1. CASE UNCHANGED codes_vars
  BY <1>1 DEF codes_vars, CodesInv, CodesTyped, CodesOwn, CodesShared, CodesCounted, CodesRecent, CodesFinite, Putting
<1>2. CASE Codes!Next
  <2>1. PICK k \in Caller : Codes!Step(k)
    BY <1>2 DEF Codes!Next
  <2> QED
    BY <2>1, CallOfCodes, ValidateOfCodes, InputOfCodes, JoinOfCodes, LookOfCodes, CompileOfCodes, PutOfCodes,
       DeliverOfCodes, ReturnOfCodes DEF Codes!Step
<1> QED
  BY <1>1, <1>2

(* and says what is promised of the caches.                                  *)
LEMMA CodesSafe == CodesInv => Codes!CodeServed
<1> SUFFICES ASSUME CodesInv PROVE Codes!CodeServed
  OBVIOUS
<1>1. Codes!RunsItsOwn
  BY DEF CodesInv, CodesOwn, Codes!RunsItsOwn, Approved, Ran
<1>2. Codes!CompiledOnce
  <2>1. ASSUME NEW c \in Code, c \in Compiles PROVE codes_compiled[c] <= 1 + codes_dropped[c]
    <3>1. codes_compiled[c] = codes_dropped[c] + (IF Codes!Found(codes_programs, c) THEN 1 ELSE 0)
                                               + (IF Putting(c) THEN 1 ELSE 0)
      BY <2>1 DEF CodesInv, CodesCounted
    <3>2. Putting(c) => ~Codes!Found(codes_programs, c)
      BY DEF CodesInv, CodesCounted, Putting
    <3>3. codes_dropped[c] \in Nat
      BY DEF CodesInv, CodesTyped
    <3> QED
      BY <3>1, <3>2, <3>3
  <2>2. ASSUME NEW c \in Code
        PROVE  Cardinality({k \in Caller : codes_held[k] = c /\ codes_at[k] \in {"look again", "goja", "put", "deliver"}}) <= 1
    <3>1. PICK works : works = {k \in Caller : codes_held[k] = c /\ codes_at[k] \in {"look again", "goja", "put", "deliver"}}
      OBVIOUS
    <3>2. \A k \in works : k = codes_flight[c]
      BY <3>1 DEF CodesInv, CodesShared, CodeSteps
    <3>3. works \in SUBSET {codes_flight[c]}
      BY <3>2
    <3>4. IsFiniteSet({codes_flight[c]}) /\ Cardinality({codes_flight[c]}) = 1
      BY FS_Singleton
    <3>5. Cardinality(works) <= 1
      BY <3>3, <3>4, FS_Subset
    <3> QED
      BY <3>1, <3>5
  <2> QED
    BY <2>1, <2>2 DEF Codes!CompiledOnce, Cardinality, Codes!Cardinality
<1>3. Codes!NobodyForgotten
  BY DEF CodesInv, CodesShared, Codes!NobodyForgotten
<1>4. Codes!KeepsRecent
  <2>1. ASSUME NEW c \in Code
        PROVE  Codes!Found(codes_programs, c) <=> codes_since[c] # None /\ Cardinality(codes_since[c]) < ShardSize
    <3>1. PICK list : list = codes_programs[Shard[c]]
      OBVIOUS
    <3>2. Shard[c] \in Codes!Shards
      BY DEF Codes!Shards
    <3>3. list \in Seq(Program) /\ codes_since \in [Code -> {None} \cup SUBSET Code]
      BY <3>1, <3>2 DEF CodesInv, CodesTyped
    <3>4. Stacked(list, codes_since, Shard[c]) /\ (codes_since[c] # None => IsFiniteSet(codes_since[c]))
      BY <3>1, <3>2 DEF CodesInv, CodesRecent, CodesFinite
    <3>5. c \in Codes!Codes(list) <=> codes_since[c] # None /\ Cardinality(codes_since[c]) < ShardSize
      BY <3>3, <3>4, StackCounts
    <3> QED
      BY <3>1, <3>5 DEF Codes!Found
  <2>2. \A s \in Codes!Shards : Len(codes_programs[s]) <= ShardSize
    BY DEF CodesInv, CodesRecent, Stacked
  <2> QED
    BY <2>1, <2>2 DEF Codes!KeepsRecent, Cardinality, Codes!Cardinality
<1> QED
  BY <1>1, <1>2, <1>3, <1>4 DEF Codes!CodeServed

-----------------------------------------------------------------------------
(***************************************************************************)
(* WebFormData: the entries at some places of a list, in their order.      *)
(***************************************************************************)
(* The places of a list have an order, and its entries are taken in it.      *)
LEMMA OnlyIs ==
  ASSUME NEW list, NEW S \in SUBSET Int, IsFiniteSet(S)
  PROVE  /\ \E k : \E n : Orders(k, n, S)
         /\ \A k : \A n : Orders(k, n, S) => Form!Only(list, S) = [j \in 1 .. n |-> list[k[j]]]
<1>1. PICK n \in Nat : n = Cardinality(S)
  BY FS_CardinalityType
<1>2. \E p \in [1 .. n -> S] : \A i, j \in DOMAIN p : i < j => p[i] < p[j]
  <2>1. \E p \in [1 .. Cardinality(S) -> S] : Increasing(p)
    BY Sorted
  <2> QED
    BY <1>1, <2>1 DEF Increasing
<1>3. PICK p : p = Form!InOrder(S)
  OBVIOUS
<1>4. Form!Cardinality(S) = n
  BY <1>1 DEF Cardinality, Form!Cardinality
<1>5. p \in [1 .. n -> S] /\ \A i, j \in DOMAIN p : i < j => p[i] < p[j]
  BY <1>2, <1>3, <1>4 DEF Form!InOrder
<1>6. Orders(p, n, S)
  <2>1. Increasing(p)
    BY <1>5 DEF Increasing
  <2>2. p \in [1 .. Cardinality(S) -> S]
    BY <1>1, <1>5
  <2> QED
    BY <1>1, <2>1, <2>2, IncreasingOrders
<1>7. DOMAIN p = 1 .. n
  BY <1>5
<1>8. Form!Only(list, S) = [j \in DOMAIN p |-> list[p[j]]]
  BY <1>3 DEF Form!Only
<1>9. ASSUME NEW k, NEW m, Orders(k, m, S) PROVE Form!Only(list, S) = [j \in 1 .. m |-> list[k[j]]]
  <2>1. m = n /\ k = p
    BY <1>6, <1>9, OneOrder
  <2> QED
    BY <1>7, <1>8, <2>1
<1> QED
  BY <1>6, <1>9

(* The places of the entries of a name.                                      *)
LEMMA PlacesAre ==
  ASSUME NEW T, NEW list \in Seq(T), NEW n
  PROVE  /\ DOMAIN list = 1 .. Len(list) /\ Len(list) \in Nat
         /\ Form!Places(list, n) = {i \in 1 .. Len(list) : list[i].name = n}
         /\ Form!Places(list, n) \in SUBSET Int /\ IsFiniteSet(Form!Places(list, n))
         /\ \A S \in SUBSET (1 .. Len(list)) : S \in SUBSET Int /\ IsFiniteSet(S)
<1>1. DOMAIN list = 1 .. Len(list) /\ Len(list) \in Nat
  OBVIOUS
<1>2. Form!Places(list, n) = {i \in 1 .. Len(list) : list[i].name = n}
  BY <1>1 DEF Form!Places
<1>3. IsFiniteSet(1 .. Len(list))
  BY <1>1, FS_Interval
<1>4. ASSUME NEW S \in SUBSET (1 .. Len(list)) PROVE S \in SUBSET Int /\ IsFiniteSet(S)
  <2>1. IsFiniteSet(S)
    BY <1>3, FS_Subset
  <2>2. S \subseteq Int
    BY <1>1
  <2> QED
    BY <2>1, <2>2
<1>5. Form!Places(list, n) \in SUBSET (1 .. Len(list))
  BY <1>2
<1> QED
  BY <1>1, <1>2, <1>4, <1>5

(* The entries that are taken are entries.                                   *)
LEMMA OnlyTyped ==
  ASSUME NEW T, NEW list \in Seq(T), NEW S \in SUBSET (1 .. Len(list))
  PROVE  Form!Only(list, S) \in Seq(T)
<1>1. S \in SUBSET Int /\ IsFiniteSet(S) /\ DOMAIN list = 1 .. Len(list)
  BY PlacesAre
<1>2. PICK k : \E n : Orders(k, n, S)
  BY <1>1, OnlyIs
<1>3. PICK n : Orders(k, n, S)
  BY <1>2
<1>4. Form!Only(list, S) = [j \in 1 .. n |-> list[k[j]]]
  BY <1>1, <1>3, OnlyIs
<1>5. \A j \in 1 .. n : list[k[j]] \in T
  <2> SUFFICES ASSUME NEW j \in 1 .. n PROVE list[k[j]] \in T
    OBVIOUS
  <2>1. k[j] \in 1 .. Len(list)
    BY <1>3 DEF Orders
  <2> QED
    BY <2>1
<1> QED
  BY <1>3, <1>4, <1>5 DEF Orders

(* Lists that are the same at these places.                                  *)
LEMMA OnlySame ==
  ASSUME NEW list, NEW other, NEW S \in SUBSET Int, IsFiniteSet(S), \A i \in S : list[i] = other[i]
  PROVE  Form!Only(list, S) = Form!Only(other, S)
<1>1. PICK k : \E n : Orders(k, n, S)
  BY OnlyIs
<1>2. PICK n : Orders(k, n, S)
  BY <1>1
<1>3. /\ Form!Only(list, S) = [j \in 1 .. n |-> list[k[j]]]
      /\ Form!Only(other, S) = [j \in 1 .. n |-> other[k[j]]]
  BY <1>2, OnlyIs
<1>4. \A j \in 1 .. n : k[j] \in S
  BY <1>2 DEF Orders
<1> QED
  BY <1>3, <1>4

(* No place gives an empty list, one place its entry.                        *)
LEMMA OnlyFew ==
  ASSUME NEW list
  PROVE  /\ Form!Only(list, {}) = <<>>
         /\ \A i \in Int : Form!Only(list, {i}) = <<list[i]>>
<1>1. Form!Only(list, {}) = <<>>
  <2>1. {} \in SUBSET Int /\ IsFiniteSet({})
    BY FS_EmptySet
  <2>2. PICK none : none = [j \in 1 .. 0 |-> 0]
    OBVIOUS
  <2>3. Orders(none, 0, {})
    BY <2>2 DEF Orders, Increasing
  <2>4. Form!Only(list, {}) = [j \in 1 .. 0 |-> list[none[j]]]
    BY <2>1, <2>3, OnlyIs
  <2> QED
    BY <2>4
<1>2. ASSUME NEW i \in Int PROVE Form!Only(list, {i}) = <<list[i]>>
  <2>1. {i} \in SUBSET Int /\ IsFiniteSet({i})
    BY FS_Singleton
  <2>2. PICK one : one = [j \in 1 .. 1 |-> i]
    OBVIOUS
  <2>3. Orders(one, 1, {i})
    BY <2>2 DEF Orders, Increasing
  <2>4. Form!Only(list, {i}) = [j \in 1 .. 1 |-> list[one[j]]]
    BY <2>1, <2>3, OnlyIs
  <2> QED
    BY <2>2, <2>4
<1> QED
  BY <1>1, <1>2

(* A later place gives an entry at the end.                                  *)
LEMMA OnlyLast ==
  ASSUME NEW list, NEW S \in SUBSET Int, IsFiniteSet(S), NEW i \in Int, \A x \in S : x < i
  PROVE  Form!Only(list, S \cup {i}) = Append(Form!Only(list, S), list[i])
<1>1. PICK k : \E n : Orders(k, n, S)
  BY OnlyIs
<1>2. PICK n : Orders(k, n, S)
  BY <1>1
<1>3. n \in Nat /\ k \in [1 .. n -> S] /\ (\A x \in S : \E j \in 1 .. n : k[j] = x)
  BY <1>2 DEF Orders
<1>4. PICK l : l = [j \in 1 .. n + 1 |-> IF j = n + 1 THEN i ELSE k[j]]
  OBVIOUS
<1>5. \A j \in 1 .. n + 1 : j # n + 1 => j \in 1 .. n /\ l[j] = k[j] /\ k[j] \in S
  BY <1>3, <1>4
<1>6. n + 1 \in 1 .. n + 1 /\ l[n + 1] = i
  BY <1>3, <1>4
<1>7. Orders(l, n + 1, S \cup {i})
  <2>1. l \in [1 .. n + 1 -> S \cup {i}]
    BY <1>4, <1>5
  <2>2. Increasing(l)
    <3> SUFFICES ASSUME NEW a \in 1 .. n + 1, NEW b \in 1 .. n + 1, a < b PROVE l[a] < l[b]
      BY <1>4 DEF Increasing
    <3>1. a # n + 1
      BY <1>3
    <3>2. CASE b = n + 1
      BY <1>5, <1>6, <3>1, <3>2
    <3>3. CASE b # n + 1
      BY <1>2, <1>3, <1>5, <3>1, <3>3 DEF Orders, Increasing
    <3> QED
      BY <3>2, <3>3
  <2>3. \A x \in S \cup {i} : \E j \in 1 .. n + 1 : l[j] = x
    <3> SUFFICES ASSUME NEW x \in S \cup {i} PROVE \E j \in 1 .. n + 1 : l[j] = x
      OBVIOUS
    <3>1. CASE x = i
      BY <1>6, <3>1
    <3>2. CASE x \in S
      <4>1. PICK j \in 1 .. n : k[j] = x
        BY <1>3, <3>2
      <4>2. j \in 1 .. n + 1 /\ j # n + 1
        BY <1>3
      <4> QED
        BY <1>5, <4>1, <4>2
    <3> QED
      BY <3>1, <3>2
  <2> QED
    BY <1>3, <2>1, <2>2, <2>3 DEF Orders
<1>8. S \cup {i} \in SUBSET Int /\ IsFiniteSet(S \cup {i})
  BY FS_AddElement
<1>9. Form!Only(list, S \cup {i}) = [j \in 1 .. n + 1 |-> list[l[j]]]
  <2>1. PICK R : R = S \cup {i}
    OBVIOUS
  <2>2. PICK more : more = n + 1
    OBVIOUS
  <2>3. R \in SUBSET Int /\ IsFiniteSet(R) /\ Orders(l, more, R)
    BY <1>7, <1>8, <2>1, <2>2
  <2>4. Form!Only(list, R) = [j \in 1 .. more |-> list[l[j]]]
    BY <2>3, OnlyIs
  <2> QED
    BY <2>1, <2>2, <2>4
<1>10. Form!Only(list, S) = [j \in 1 .. n |-> list[k[j]]]
  <2>1. \A x : \A y : Orders(x, y, S) => Form!Only(list, S) = [j \in 1 .. y |-> list[x[j]]]
    BY OnlyIs
  <2> QED
    BY <1>2, <2>1
<1>11. Append([j \in 1 .. n |-> list[k[j]]], list[i])
         = [j \in 1 .. n + 1 |-> IF j = n + 1 THEN list[i] ELSE list[k[j]]]
  BY <1>3
<1>12. [j \in 1 .. n + 1 |-> list[l[j]]] = [j \in 1 .. n + 1 |-> IF j = n + 1 THEN list[i] ELSE list[k[j]]]
  BY <1>5, <1>6
<1> QED
  BY <1>9, <1>10, <1>11, <1>12

(* Of the entries that were taken, those of a name.                          *)
LEMMA NamedOnly ==
  ASSUME NEW T, NEW list \in Seq(T), NEW S \in SUBSET (1 .. Len(list)), NEW n
  PROVE  Form!Named(Form!Only(list, S), n) = Form!Only(list, {i \in S : list[i].name = n})
<1>1. S \in SUBSET Int /\ IsFiniteSet(S)
  BY PlacesAre
<1>2. PICK k : \E m : Orders(k, m, S)
  BY <1>1, OnlyIs
<1>3. PICK m : Orders(k, m, S)
  BY <1>2
<1>4. PICK short : short = Form!Only(list, S)
  OBVIOUS
<1>5. short = [j \in 1 .. m |-> list[k[j]]]
  BY <1>1, <1>3, <1>4, OnlyIs
<1>6. m \in Nat /\ k \in [1 .. m -> S] /\ (\A x \in S : \E j \in 1 .. m : k[j] = x) /\ DOMAIN k = 1 .. m
  BY <1>3 DEF Orders
<1>7. PICK P : P = {j \in 1 .. m : list[k[j]].name = n}
  OBVIOUS
<1>8. Form!Places(short, n) = P
  BY <1>5, <1>7 DEF Form!Places
<1>9. P \in SUBSET Int /\ IsFiniteSet(P)
  <2>1. IsFiniteSet(1 .. m)
    BY <1>6, FS_Interval
  <2>2. P \in SUBSET (1 .. m) /\ P \subseteq Int
    BY <1>6, <1>7
  <2>3. IsFiniteSet(P)
    BY <2>1, <2>2, FS_Subset
  <2> QED
    BY <2>2, <2>3
<1>10. PICK p : \E q : Orders(p, q, P)
  BY <1>9, OnlyIs
<1>11. PICK q : Orders(p, q, P)
  BY <1>10
<1>12. Form!Named(short, n) = [j \in 1 .. q |-> short[p[j]]]
  BY <1>8, <1>9, <1>11, OnlyIs DEF Form!Named
<1>13. PICK R : R = {i \in S : list[i].name = n}
  OBVIOUS
<1>14. q \in Nat /\ p \in [1 .. q -> P] /\ (\A x \in P : \E j \in 1 .. q : p[j] = x) /\ DOMAIN p = 1 .. q
  BY <1>11 DEF Orders
<1>15. PICK l : l = [j \in 1 .. q |-> k[p[j]]]
  OBVIOUS
<1>16. \A j \in 1 .. q : p[j] \in 1 .. m /\ list[k[p[j]]].name = n /\ k[p[j]] \in S /\ l[j] = k[p[j]]
  BY <1>6, <1>7, <1>14, <1>15
<1>17. Orders(l, q, R)
  <2>1. l \in [1 .. q -> R]
    BY <1>13, <1>15, <1>16
  <2>2. Increasing(l)
    <3> SUFFICES ASSUME NEW a \in 1 .. q, NEW b \in 1 .. q, a < b PROVE l[a] < l[b]
      BY <1>15 DEF Increasing
    <3>1. p[a] < p[b]
      BY <1>11, <1>14 DEF Orders, Increasing
    <3>2. k[p[a]] < k[p[b]]
      BY <1>3, <1>6, <1>16, <3>1 DEF Orders, Increasing
    <3> QED
      BY <1>16, <3>2
  <2>3. \A x \in R : \E j \in 1 .. q : l[j] = x
    <3> SUFFICES ASSUME NEW x \in R PROVE \E j \in 1 .. q : l[j] = x
      OBVIOUS
    <3>1. PICK a \in 1 .. m : k[a] = x
      BY <1>6, <1>13
    <3>2. a \in P
      BY <1>7, <1>13, <3>1
    <3>3. PICK j \in 1 .. q : p[j] = a
      BY <1>14, <3>2
    <3> QED
      BY <1>16, <3>1, <3>3
  <2> QED
    BY <1>14, <2>1, <2>2, <2>3 DEF Orders
<1>18. R \in SUBSET Int /\ IsFiniteSet(R)
  BY <1>1, <1>13, FS_Subset
<1>19. Form!Only(list, R) = [j \in 1 .. q |-> list[l[j]]]
  BY <1>17, <1>18, OnlyIs
<1>20. \A j \in 1 .. q : short[p[j]] = list[l[j]]
  BY <1>5, <1>16
<1>21. [j \in 1 .. q |-> short[p[j]]] = [j \in 1 .. q |-> list[l[j]]]
  BY <1>20
<1> QED
  BY <1>4, <1>12, <1>13, <1>19, <1>21

-----------------------------------------------------------------------------
(***************************************************************************)
(* WebFormData: the map is read off the list.                              *)
(***************************************************************************)
FormTyped  == form_formDataEntries \in Seq(Form!Entry)
FormAgrees == form_formData = [n \in Name |-> Form!Named(form_formDataEntries, n)]
FormSent   == form_body.as = "bytes" =>
                /\ form_body.sent \in {Form!GetTotalSize(form_formDataEntries), Form!WholeSize(form_formDataEntries)}
                /\ form_body.whole = Form!WholeSize(form_formDataEntries)

FormInv == FormTyped /\ FormAgrees /\ FormSent

LEMMA FormInit == Form!Init => FormInv
<1> SUFFICES ASSUME Form!Init PROVE FormInv
  OBVIOUS
<1>1. form_formDataEntries = <<>> /\ form_formData = [n \in Name |-> <<>>] /\ form_body.as = "none"
  BY DEF Form!Init, Form!Nothing
<1>2. \A n : Form!Named(<<>>, n) = <<>>
  <2> SUFFICES ASSUME NEW n PROVE Form!Named(<<>>, n) = <<>>
    OBVIOUS
  <2>1. Form!Places(<<>>, n) = {}
    BY DEF Form!Places
  <2>2. Form!Only(<<>>, {}) = <<>>
    BY OnlyFew
  <2> QED
    BY <2>1, <2>2 DEF Form!Named
<1> QED
  BY <1>1, <1>2 DEF FormInv, FormTyped, FormAgrees, FormSent

(* A new entry is the last of its name.                                      *)
LEMMA NamedAppend ==
  ASSUME NEW list \in Seq(Form!Entry), NEW e \in Form!Entry, NEW n
  PROVE  Form!Named(Append(list, e), n)
           = IF n = e.name THEN Append(Form!Named(list, n), e) ELSE Form!Named(list, n)
<1>1. PICK longer : longer = Append(list, e)
  OBVIOUS
<1>2. PICK m : m = Len(list)
  OBVIOUS
<1>3. m \in Nat /\ DOMAIN list = 1 .. m /\ longer \in Seq(Form!Entry) /\ Len(longer) = m + 1
  BY <1>1, <1>2
<1>4. (\A i \in 1 .. m : longer[i] = list[i]) /\ longer[m + 1] = e
  BY <1>1, <1>2
<1>5. PICK P : P = Form!Places(list, n)
  OBVIOUS
<1>6. P = {i \in 1 .. m : list[i].name = n} /\ P \in SUBSET Int /\ IsFiniteSet(P)
  BY <1>2, <1>5, PlacesAre
<1>7. Form!Places(longer, n) = {i \in 1 .. (m + 1) : longer[i].name = n}
  <2>1. Form!Places(longer, n) = {i \in 1 .. Len(longer) : longer[i].name = n}
    BY <1>3, PlacesAre
  <2> QED
    BY <1>3, <2>1
<1>8. Form!Only(longer, P) = Form!Only(list, P)
  <2>1. \A i \in P : list[i] = longer[i]
    BY <1>4, <1>6
  <2>2. Form!Only(list, P) = Form!Only(longer, P)
    BY <1>6, <2>1, OnlySame
  <2> QED
    BY <2>2
<1>9. CASE n = e.name
  <2>1. Form!Places(longer, n) = P \cup {m + 1}
    BY <1>3, <1>4, <1>6, <1>7, <1>9
  <2>2. PICK last : last = m + 1
    OBVIOUS
  <2>3. last \in Int /\ \A x \in P : x < last
    BY <1>3, <1>6, <2>2
  <2>4. Form!Only(longer, P \cup {last}) = Append(Form!Only(longer, P), longer[last])
    BY <1>6, <2>3, OnlyLast
  <2> QED
    BY <1>1, <1>4, <1>5, <1>8, <1>9, <2>1, <2>2, <2>4 DEF Form!Named
<1>10. CASE n # e.name
  <2>1. Form!Places(longer, n) = P
    BY <1>3, <1>4, <1>6, <1>7, <1>10
  <2> QED
    BY <1>1, <1>5, <1>8, <1>10, <2>1 DEF Form!Named
<1> QED
  BY <1>9, <1>10

(* Without the entries of a name, those of the others are left.              *)
LEMMA NamedDelete ==
  ASSUME NEW list \in Seq(Form!Entry), NEW n, NEW m
  PROVE  /\ m = n => Form!Named(Form!Only(list, Form!Others(list, n)), m) = <<>>
         /\ m # n => Form!Named(Form!Only(list, Form!Others(list, n)), m) = Form!Named(list, m)
<1>1. PICK S : S = DOMAIN list \ Form!Places(list, n)
  OBVIOUS
<1>2. DOMAIN list = 1 .. Len(list) /\ Form!Places(list, n) = {i \in 1 .. Len(list) : list[i].name = n}
  BY PlacesAre
<1>3. Form!Places(list, m) = {i \in 1 .. Len(list) : list[i].name = m}
  BY PlacesAre
<1>4. S \in SUBSET (1 .. Len(list))
  BY <1>1, <1>2
<1>5. Form!Named(Form!Only(list, S), m) = Form!Only(list, {i \in S : list[i].name = m})
  BY <1>4, NamedOnly
<1>6. CASE m = n
  <2>1. {i \in S : list[i].name = m} = {}
    BY <1>1, <1>2, <1>6
  <2>2. Form!Only(list, {}) = <<>>
    BY OnlyFew
  <2> QED
    BY <1>1, <1>5, <1>6, <2>1, <2>2 DEF Form!Others
<1>7. CASE m # n
  <2>1. {i \in S : list[i].name = m} = Form!Places(list, m)
    BY <1>1, <1>2, <1>3, <1>7
  <2> QED
    BY <1>1, <1>5, <1>7, <2>1 DEF Form!Named, Form!Others
<1> QED
  BY <1>6, <1>7

(* An entry in the place of the first of its name is the only one of it.     *)
LEMMA NamedSet ==
  ASSUME NEW list \in Seq(Form!Entry), NEW e \in Form!Entry, NEW first \in Form!Places(list, e.name), NEW m
  PROVE  /\ Form!Others(list, e.name) \cup {first} \in SUBSET (1 .. Len(list))
         /\ [list EXCEPT ![first] = e] \in Seq(Form!Entry) /\ Len([list EXCEPT ![first] = e]) = Len(list)
         /\ Form!Named(Form!Only([list EXCEPT ![first] = e],
                                 Form!Others(list, e.name) \cup {first}), m)
              = IF m = e.name THEN <<e>> ELSE Form!Named(list, m)
<1>1. PICK S : S = Form!Others(list, e.name) \cup {first}
  OBVIOUS
<1>2. PICK new : new = [list EXCEPT ![first] = e]
  OBVIOUS
<1>3. /\ DOMAIN list = 1 .. Len(list) /\ Len(list) \in Nat
      /\ Form!Places(list, e.name) = {i \in 1 .. Len(list) : list[i].name = e.name}
  BY PlacesAre
<1>4. Form!Places(list, m) = {i \in 1 .. Len(list) : list[i].name = m}
  BY PlacesAre
<1>5. S \in SUBSET (1 .. Len(list)) /\ first \in 1 .. Len(list) /\ first \in Int
  BY <1>1, <1>3 DEF Form!Others
<1>6. new \in Seq(Form!Entry) /\ Len(new) = Len(list)
  BY <1>2, <1>3, <1>5
<1>7. new[first] = e /\ \A i \in 1 .. Len(list) : i # first => new[i] = list[i]
  BY <1>2, <1>3, <1>5
<1>8. Form!Named(Form!Only(new, S), m) = Form!Only(new, {i \in S : new[i].name = m})
  <2>1. S \in SUBSET (1 .. Len(new))
    BY <1>5, <1>6
  <2> QED
    BY <1>6, <2>1, NamedOnly
<1>9. CASE m = e.name
  <2>1. {i \in S : new[i].name = m} = {first}
    BY <1>1, <1>3, <1>7, <1>9 DEF Form!Others
  <2>2. Form!Only(new, {first}) = <<new[first]>>
    BY <1>5, OnlyFew
  <2>3. Form!Named(Form!Only(new, S), m) = <<e>>
    BY <1>7, <1>8, <2>1, <2>2
  <2> QED
    BY <1>1, <1>2, <1>5, <1>6, <1>9, <2>3
<1>10. CASE m # e.name
  <2>1. {i \in S : new[i].name = m} = Form!Places(list, m)
    BY <1>1, <1>3, <1>4, <1>5, <1>7, <1>10 DEF Form!Others
  <2>2. PICK P : P = Form!Places(list, m)
    OBVIOUS
  <2>3. P \in SUBSET Int /\ IsFiniteSet(P)
    BY <2>2, PlacesAre
  <2>4. \A i \in P : new[i] = list[i]
    BY <1>3, <1>4, <1>7, <1>10, <2>2
  <2>5. Form!Only(new, P) = Form!Only(list, P)
    BY <2>3, <2>4, OnlySame
  <2>6. Form!Named(Form!Only(new, S), m) = Form!Named(list, m)
    BY <1>8, <2>1, <2>2, <2>5 DEF Form!Named
  <2> QED
    BY <1>1, <1>2, <1>5, <1>6, <1>10, <2>6
<1> QED
  BY <1>9, <1>10

(* A form is sent as it was counted or as it is written.                     *)
LEMMA ExtractKeeps == FormInv /\ Form!Extract => FormInv'
<1> SUFFICES ASSUME FormInv, Form!Extract PROVE FormInv'
  OBVIOUS
<1>1. UNCHANGED <<form_formDataEntries, form_formData>>
  BY DEF Form!Extract
<1>2. PICK total : total = Form!GetTotalSize(form_formDataEntries)
  OBVIOUS
<1>3. PICK whole : whole = Form!WholeSize(form_formDataEntries)
  OBVIOUS
<1>4. \/ form_body' = [as |-> "reader", sent |-> whole, whole |-> whole]
      \/ form_body' = [as |-> "refused", sent |-> 0, whole |-> whole]
      \/ form_body' = [as |-> "bytes", sent |-> total, whole |-> whole]
      \/ form_body' = [as |-> "bytes", sent |-> whole, whole |-> whole]
  BY <1>2, <1>3 DEF Form!Extract
<1>5. FormSent'
  <2>1. form_body'.as = "bytes" => form_body'.sent \in {total, whole} /\ form_body'.whole = whole
    BY <1>4
  <2> QED
    BY <1>1, <1>2, <1>3, <2>1 DEF FormSent
<1> QED
  BY <1>1, <1>5 DEF FormInv, FormTyped, FormAgrees

(* While the form changes, nothing is sent.                                  *)
LEMMA FormAside ==
  ASSUME form_body = Form!Nothing, UNCHANGED form_body
  PROVE  FormSent'
BY DEF FormSent, Form!Nothing

LEMMA AppendKeepsForm == FormInv /\ Form!Append1 => FormInv'
<1> SUFFICES ASSUME FormInv, Form!Append1 PROVE FormInv'
  OBVIOUS
<1>1. FormSent'
  BY FormAside DEF Form!Append1
<1>2. PICK e \in Form!Entries(Form!Converted) :
        /\ form_formDataEntries' = Append(form_formDataEntries, e)
        /\ form_formData' = [form_formData EXCEPT ![e.name] = Append(@, e)]
  BY DEF Form!Append1
<1>3. e \in Form!Entry /\ form_formDataEntries \in Seq(Form!Entry)
  BY DEF FormInv, FormTyped, Form!Entries
<1>4. FormTyped'
  BY <1>2, <1>3 DEF FormTyped
<1>5. \A n : Form!Named(form_formDataEntries', n)
               = IF n = e.name THEN Append(Form!Named(form_formDataEntries, n), e)
                               ELSE Form!Named(form_formDataEntries, n)
  BY <1>2, <1>3, NamedAppend
<1>6. form_formData' = [n \in Name |-> Form!Named(form_formDataEntries', n)]
  BY <1>2, <1>5 DEF FormInv, FormAgrees
<1> QED
  BY <1>1, <1>4, <1>6 DEF FormInv, FormAgrees

LEMMA DeleteKeepsForm == FormInv /\ (\E n \in Name : Form!Delete(n)) => FormInv'
<1> SUFFICES ASSUME FormInv, NEW n \in Name, Form!Delete(n) PROVE FormInv'
  OBVIOUS
<1>1. FormSent'
  BY FormAside DEF Form!Delete
<1>2. PICK list \in Seq(Form!Entry) : list = form_formDataEntries
  BY DEF FormInv, FormTyped
<1>3. PICK S : S = Form!Others(list, n)
  OBVIOUS
<1>4. PICK short : short = Form!Only(list, S)
  OBVIOUS
<1>5. form_formDataEntries' = short /\ form_formData' = [form_formData EXCEPT ![n] = <<>>]
  BY <1>2, <1>3, <1>4 DEF Form!Delete
<1>6. short \in Seq(Form!Entry)
  <2>1. S \in SUBSET (1 .. Len(list))
    BY <1>3 DEF Form!Others
  <2> QED
    BY <1>4, <2>1, OnlyTyped
<1>7. ASSUME NEW m PROVE Form!Named(short, m) = IF m = n THEN <<>> ELSE Form!Named(list, m)
  <2>1. /\ m = n => Form!Named(Form!Only(list, S), m) = <<>>
        /\ m # n => Form!Named(Form!Only(list, S), m) = Form!Named(list, m)
    BY <1>3, NamedDelete
  <2> QED
    BY <1>4, <2>1
<1>8. form_formData' = [m \in Name |-> Form!Named(short, m)]
  BY <1>2, <1>5, <1>7 DEF FormInv, FormAgrees
<1> QED
  BY <1>1, <1>5, <1>6, <1>8 DEF FormInv, FormTyped, FormAgrees

LEMMA SetKeepsForm == FormInv /\ Form!Set => FormInv'
<1> SUFFICES ASSUME FormInv, Form!Set PROVE FormInv'
  OBVIOUS
<1>1. FormSent'
  BY FormAside DEF Form!Set
<1>2. PICK list \in Seq(Form!Entry) : list = form_formDataEntries
  BY DEF FormInv, FormTyped
<1>3. PICK e \in Form!Entries(Form!SetConverted) :
        /\ IF Form!Places(list, e.name) = {}
           THEN form_formDataEntries' = Append(list, e)
           ELSE form_formDataEntries' =
                  Form!Only([list EXCEPT ![Form!Min(Form!Places(list, e.name))] = e],
                            Form!Others(list, e.name) \cup {Form!Min(Form!Places(list, e.name))})
        /\ form_formData' = [form_formData EXCEPT ![e.name] = <<e>>]
  BY <1>2 DEF Form!Set
<1>4. e \in Form!Entry
  BY DEF Form!Entries
<1>5. PICK P : P = Form!Places(list, e.name)
  OBVIOUS
<1>6. P \in SUBSET Int /\ IsFiniteSet(P)
  BY <1>5, PlacesAre
<1>7. /\ form_formDataEntries' \in Seq(Form!Entry)
      /\ \A m : Form!Named(form_formDataEntries', m)
                  = IF m = e.name THEN <<e>> ELSE Form!Named(list, m)
  <2>1. CASE P = {}
    <3>1. form_formDataEntries' = Append(list, e)
      BY <1>3, <1>5, <2>1
    <3>2. \A m : Form!Named(Append(list, e), m)
                   = IF m = e.name THEN Append(Form!Named(list, m), e) ELSE Form!Named(list, m)
      BY <1>4, NamedAppend
    <3>3. Form!Named(list, e.name) = <<>>
      <4>1. Form!Only(list, {}) = <<>>
        BY OnlyFew
      <4> QED
        BY <1>5, <2>1, <4>1 DEF Form!Named
    <3>4. Append(<<>>, e) = <<e>>
      OBVIOUS
    <3>5. form_formDataEntries' \in Seq(Form!Entry)
      BY <1>4, <3>1
    <3> QED
      BY <3>1, <3>2, <3>3, <3>4, <3>5
  <2>2. CASE P # {}
    <3>1. PICK first : first = Form!Min(P)
      OBVIOUS
    <3>2. first \in P
      <4>1. Min(P) \in P
        BY <1>6, <2>2, Extremes
      <4> QED
        BY <3>1, <4>1 DEF Min, Form!Min
    <3>3. PICK S : S = Form!Others(list, e.name) \cup {first}
      OBVIOUS
    <3>4. PICK new : new = [list EXCEPT ![first] = e]
      OBVIOUS
    <3>5. form_formDataEntries' = Form!Only(new, S)
      BY <1>3, <1>5, <2>2, <3>1, <3>3, <3>4
    <3>6. first \in Form!Places(list, e.name)
      BY <1>5, <3>2
    <3>7. S \in SUBSET (1 .. Len(new)) /\ new \in Seq(Form!Entry)
      BY <1>4, <3>3, <3>4, <3>6, NamedSet
    <3>8. Form!Only(new, S) \in Seq(Form!Entry)
      BY <3>7, OnlyTyped
    <3>9. ASSUME NEW m
          PROVE  Form!Named(Form!Only(new, S), m) = IF m = e.name THEN <<e>> ELSE Form!Named(list, m)
      <4>1. Form!Named(Form!Only([list EXCEPT ![first] = e],
                                 Form!Others(list, e.name) \cup {first}), m)
              = IF m = e.name THEN <<e>> ELSE Form!Named(list, m)
        BY <1>4, <3>6, NamedSet
      <4> QED
        BY <3>3, <3>4, <4>1
    <3> QED
      BY <3>5, <3>8, <3>9
  <2> QED
    BY <2>1, <2>2
<1>8. form_formData' = [m \in Name |-> Form!Named(form_formDataEntries', m)]
  BY <1>2, <1>3, <1>7 DEF FormInv, FormAgrees
<1> QED
  BY <1>1, <1>7, <1>8 DEF FormInv, FormTyped, FormAgrees

LEMMA FormNext == FormInv /\ [Form!Next]_form_vars => FormInv'
<1> SUFFICES ASSUME FormInv, [Form!Next]_form_vars PROVE FormInv'
  OBVIOUS
<1>1. CASE UNCHANGED form_vars
  BY <1>1 DEF form_vars, FormInv, FormTyped, FormAgrees, FormSent
<1>2. CASE Form!Append1
  BY <1>2, AppendKeepsForm
<1>3. CASE Form!Set
  BY <1>3, SetKeepsForm
<1>4. CASE \E n \in Name : Form!Delete(n)
  BY <1>4, DeleteKeepsForm
<1>5. CASE Form!Extract
  BY <1>5, ExtractKeeps
<1>6. CASE Form!Sent
  <2>1. form_body'.as = "none" /\ UNCHANGED <<form_formDataEntries, form_formData>>
    BY <1>6 DEF Form!Sent, Form!Nothing
  <2> QED
    BY <2>1 DEF FormInv, FormTyped, FormAgrees, FormSent
<1> QED
  BY <1>1, <1>2, <1>3, <1>4, <1>5, <1>6 DEF Form!Next

(* The entries of a name as the map has them: as many as it has places, the  *)
(* first of the list first.                                                  *)
LEMMA NamedIs ==
  ASSUME NEW T, NEW list \in Seq(T), NEW n
  PROVE  \E k, m : /\ m = Cardinality(Form!Places(list, n)) /\ m \in Nat
                   /\ Form!Named(list, n) = [j \in 1 .. m |-> list[k[j]]]
                   /\ (m = 0 <=> Form!Places(list, n) = {})
                   /\ (Form!Places(list, n) # {} => k[1] = Form!Min(Form!Places(list, n)))
<1>1. PICK P : P = Form!Places(list, n)
  OBVIOUS
<1>2. P \in SUBSET Int /\ IsFiniteSet(P)
  BY <1>1, PlacesAre
<1>3. PICK k : \E m : Orders(k, m, P)
  BY <1>2, OnlyIs
<1>4. PICK m : Orders(k, m, P)
  BY <1>3
<1>5. m \in Nat /\ k \in [1 .. m -> P] /\ (\A x \in P : \E j \in 1 .. m : k[j] = x) /\ DOMAIN k = 1 .. m
  BY <1>4 DEF Orders
<1>6. m = Cardinality(P)
  BY <1>2, <1>4, OrderCounts
<1>7. Form!Named(list, n) = [j \in 1 .. m |-> list[k[j]]]
  BY <1>1, <1>2, <1>4, OnlyIs DEF Form!Named
<1>8. m = 0 <=> P = {}
  <2>1. ASSUME m = 0 PROVE P = {}
    BY <1>5, <2>1
  <2>2. ASSUME P = {} PROVE m = 0
    <3>1. m # 0 => 1 \in 1 .. m
      BY <1>5
    <3> QED
      BY <1>5, <2>2, <3>1
  <2> QED
    BY <2>1, <2>2
<1>9. ASSUME P # {} PROVE k[1] = Form!Min(P)
  <2>1. m # 0 /\ 1 \in 1 .. m /\ k[1] \in P
    BY <1>5, <1>8, <1>9
  <2>2. Min(P) \in P /\ \A x \in P : Min(P) <= x
    BY <1>2, <1>9, Extremes
  <2>3. PICK j \in 1 .. m : k[j] = Min(P)
    BY <1>5, <2>2
  <2>4. k[1] <= k[j]
    <3>0. k[1] \in Int /\ k[j] \in Int
      <4>1. P \subseteq Int /\ k[j] \in P
        BY <1>2, <1>5
      <4> QED
        BY <2>1, <4>1
    <3>1. CASE j = 1
      BY <3>0, <3>1
    <3>2. CASE j # 1
      <4>1. 1 < j
        BY <1>5, <3>2
      <4>2. k[1] < k[j]
        BY <1>4, <1>5, <2>1, <4>1 DEF Orders, Increasing
      <4> QED
        BY <3>0, <4>2
    <3> QED
      BY <3>1, <3>2
  <2>5. Min(P) <= k[1]
    BY <2>1, <2>2
  <2>6. k[1] \in Int /\ Min(P) \in Int
    BY <1>2, <2>1, <2>2
  <2>7. k[1] = Min(P)
    BY <2>3, <2>4, <2>5, <2>6
  <2> QED
    BY <2>7 DEF Min, Form!Min
<1> QED
  BY <1>1, <1>5, <1>6, <1>7, <1>8, <1>9

(* What a script reads is what is sent.                                      *)
LEMMA FormStores == FormInv => Form!StoresAgree
<1> SUFFICES ASSUME FormInv, NEW n \in Name
             PROVE  /\ form_formData[n] = Form!Named(form_formDataEntries, n)
                    /\ (Form!Has(n) <=> \E i \in DOMAIN Form!Keys : Form!Keys[i] = n)
                    /\ Len(Form!GetAll(n)) = Form!Cardinality({i \in DOMAIN Form!Pairs : Form!Pairs[i][1] = n})
                    /\ (Form!Has(n) => Form!Get(n) = Form!Values[Form!Min(Form!Places(form_formDataEntries, n))])
  BY DEF Form!StoresAgree
<1>1. PICK list \in Seq(Form!Entry) : list = form_formDataEntries
  BY DEF FormInv, FormTyped
<1>2. PICK P : P = Form!Places(list, n)
  OBVIOUS
<1>3. PICK k : \E m : /\ m = Cardinality(Form!Places(list, n)) /\ m \in Nat
                      /\ Form!Named(list, n) = [j \in 1 .. m |-> list[k[j]]]
                      /\ (m = 0 <=> Form!Places(list, n) = {})
                      /\ (Form!Places(list, n) # {} => k[1] = Form!Min(Form!Places(list, n)))
  BY NamedIs
<1>4. PICK m : /\ m = Cardinality(P) /\ m \in Nat
               /\ Form!Named(list, n) = [j \in 1 .. m |-> list[k[j]]]
               /\ (m = 0 <=> P = {})
               /\ (P # {} => k[1] = Form!Min(P))
  BY <1>2, <1>3
<1>5. P = {i \in 1 .. Len(list) : list[i].name = n} /\ DOMAIN list = 1 .. Len(list)
  BY <1>2, PlacesAre
<1>6. form_formData[n] = Form!Named(list, n)
  BY <1>1 DEF FormInv, FormAgrees
<1>7. PICK seen : seen = [j \in 1 .. m |-> list[k[j]]]
  OBVIOUS
<1>8. form_formData[n] = seen /\ DOMAIN seen = 1 .. m
  BY <1>4, <1>6, <1>7
<1>9. seen = <<>> <=> m = 0
  <2>1. ASSUME m = 0 PROVE seen = <<>>
    BY <1>7, <2>1
  <2>2. ASSUME seen = <<>> PROVE m = 0
    <3>1. DOMAIN seen = {}
      BY <2>2
    <3>2. m # 0 => 1 \in 1 .. m
      BY <1>4
    <3> QED
      BY <1>8, <3>1, <3>2
  <2> QED
    BY <2>1, <2>2
<1>10. Form!Has(n) <=> P # {}
  BY <1>4, <1>8, <1>9 DEF Form!Has
<1>11. Form!Has(n) <=> \E i \in DOMAIN Form!Keys : Form!Keys[i] = n
  <2>1. Form!Keys = [i \in DOMAIN list |-> list[i].name]
    BY <1>1 DEF Form!Keys
  <2>2. (\E i \in DOMAIN Form!Keys : Form!Keys[i] = n) <=> P # {}
    BY <1>5, <2>1
  <2> QED
    BY <1>10, <2>2
<1>12. Len(Form!GetAll(n)) = Form!Cardinality({i \in DOMAIN Form!Pairs : Form!Pairs[i][1] = n})
  <2>1. Form!GetAll(n) = [i \in 1 .. m |-> seen[i].value]
    BY <1>8 DEF Form!GetAll
  <2>2. Len([i \in 1 .. m |-> seen[i].value]) = m
    BY <1>4
  <2>3. Form!Pairs = [i \in DOMAIN list |-> <<list[i].name, list[i].value>>]
    BY <1>1 DEF Form!Pairs, Form!Keys, Form!Values
  <2>4. {i \in DOMAIN Form!Pairs : Form!Pairs[i][1] = n} = P
    BY <1>5, <2>3
  <2>5. Form!Cardinality(P) = Cardinality(P)
    BY DEF Form!Cardinality, Cardinality
  <2> QED
    BY <1>4, <2>1, <2>2, <2>4, <2>5
<1>13. Form!Has(n) => Form!Get(n) = Form!Values[Form!Min(Form!Places(form_formDataEntries, n))]
  <2> SUFFICES ASSUME Form!Has(n)
               PROVE  Form!Get(n) = Form!Values[Form!Min(Form!Places(form_formDataEntries, n))]
    OBVIOUS
  <2>1. P # {} /\ m # 0 /\ 1 \in 1 .. m /\ seen # <<>>
    BY <1>4, <1>9, <1>10
  <2>2. Form!Get(n) = Head(seen).value
    BY <1>8, <2>1 DEF Form!Get
  <2>3. Head(seen) = seen[1]
    BY <1>7, <2>1
  <2>4. seen[1] = list[Form!Min(P)]
    BY <1>4, <1>7, <2>1
  <2>5. Form!Min(P) \in P
    <3>1. P \in SUBSET Int /\ IsFiniteSet(P)
      BY <1>2, PlacesAre
    <3>2. Min(P) \in P
      BY <2>1, <3>1, Extremes
    <3> QED
      BY <3>2 DEF Min, Form!Min
  <2>6. Form!Values[Form!Min(P)] = list[Form!Min(P)].value
    BY <1>1, <1>5, <2>5 DEF Form!Values
  <2> QED
    BY <1>1, <1>2, <2>2, <2>3, <2>4, <2>6
<1> QED
  BY <1>1, <1>6, <1>11, <1>12, <1>13

(* What the count of an entry leaves out.                                    *)
LEMMA EntrySizes ==
  ASSUME NEW e \in Form!Entry
  PROVE  /\ Form!Counted(e) \in Nat /\ Form!Written(e) \in Nat
         /\ (e.name \notin Awkward /\ (e.value = "bytes" => e.filename = "plain")
               => Form!Written(e) <= Form!Counted(e))
<1>1. e.size \in Nat
  BY FormAssumption DEF Form!Entry
<1>2. PICK s \in Nat : s = e.size
  BY <1>1
<1>3. PICK f \in {0, 1} : f = IF e.filename # "" THEN 1 ELSE 0
  OBVIOUS
<1>4. PICK b \in {0, 1} : b = IF e.value = "bytes" THEN 1 ELSE 0
  OBVIOUS
<1>5. PICK a \in {0, 1} : a = IF e.name \in Awkward THEN 1 ELSE 0
  OBVIOUS
<1>6. PICK q \in {0, 1} : q = IF e.value = "bytes" /\ e.filename = "quoted" THEN 1 ELSE 0
  OBVIOUS
<1>7. Form!Counted(e) = 1 + f + s
  BY <1>2, <1>3 DEF Form!Counted
<1>8. Form!Written(e) = 1 + b + (a + q) + s
  BY <1>2, <1>4, <1>5, <1>6 DEF Form!Written, Form!Escaped
<1>9. ASSUME e.name \notin Awkward, e.value = "bytes" => e.filename = "plain"
      PROVE  a = 0 /\ q = 0 /\ b <= f
  <2>1. a = 0
    BY <1>5, <1>9
  <2>2. CASE e.value = "bytes"
    <3>1. e.filename = "plain"
      BY <1>9, <2>2
    <3>2. q = 0 /\ f = 1
      BY <1>3, <1>6, <3>1
    <3> QED
      BY <2>1, <3>2
  <2>3. CASE e.value # "bytes"
    <3>1. q = 0 /\ b = 0
      BY <1>4, <1>6, <2>3
    <3> QED
      BY <2>1, <3>1
  <2> QED
    BY <2>2, <2>3
<1>10. Form!Counted(e) \in Nat /\ Form!Written(e) \in Nat
  BY <1>7, <1>8
<1>11. ASSUME a = 0 /\ q = 0 /\ b <= f PROVE Form!Written(e) <= Form!Counted(e)
  BY <1>7, <1>8, <1>11
<1> QED
  BY <1>9, <1>10, <1>11

(* The component's sums are the library's.                                   *)
LEMMA FormSums ==
  ASSUME NEW list \in Seq(Form!Entry)
  PROVE  /\ Form!GetTotalSize(list) = SumFunctionOnSet([i \in DOMAIN list |-> Form!Counted(list[i])], DOMAIN list) + 1
         /\ Form!WholeSize(list) = SumFunctionOnSet([i \in DOMAIN list |-> Form!Written(list[i])], DOMAIN list) + 1
         /\ Numbers([i \in DOMAIN list |-> Form!Counted(list[i])], DOMAIN list)
         /\ Numbers([i \in DOMAIN list |-> Form!Written(list[i])], DOMAIN list)
<1>1. \A f : Form!SumFunction(f) = SumFunctionOnSet(f, DOMAIN f)
  BY DEF Form!SumFunction, Form!SumFunctionOnSet, Form!FoldFunctionOnSet, Form!MapThenFoldSet,
     SumFunctionOnSet, FoldFunctionOnSet, MapThenFoldSet
<1>2. PICK counted : counted = [i \in DOMAIN list |-> Form!Counted(list[i])]
  OBVIOUS
<1>3. PICK written : written = [i \in DOMAIN list |-> Form!Written(list[i])]
  OBVIOUS
<1>4. DOMAIN counted = DOMAIN list /\ DOMAIN written = DOMAIN list
  BY <1>2, <1>3
<1>5. Form!GetTotalSize(list) = Form!SumFunction(counted) + 1
  BY <1>2 DEF Form!GetTotalSize
<1>6. Form!WholeSize(list) = Form!SumFunction(written) + 1
  BY <1>3 DEF Form!WholeSize
<1>7. Form!SumFunction(counted) = SumFunctionOnSet(counted, DOMAIN list)
  BY <1>1, <1>4
<1>8. Form!SumFunction(written) = SumFunctionOnSet(written, DOMAIN list)
  BY <1>1, <1>4
<1>9. IsFiniteSet(DOMAIN list)
  <2>1. DOMAIN list = 1 .. Len(list) /\ Len(list) \in Nat
    OBVIOUS
  <2> QED
    BY <2>1, FS_Interval
<1>10. ASSUME NEW i \in DOMAIN list PROVE Form!Counted(list[i]) \in Nat /\ Form!Written(list[i]) \in Nat
  <2>1. list[i] \in Form!Entry
    OBVIOUS
  <2> QED
    BY <2>1, EntrySizes
<1>11. Numbers(counted, DOMAIN list) /\ Numbers(written, DOMAIN list)
  BY <1>2, <1>3, <1>9, <1>10 DEF Numbers
<1> QED
  BY <1>2, <1>3, <1>5, <1>6, <1>7, <1>8, <1>11

(* Where every name is plain and every file has one, nothing is left out.    *)
LEMMA FormWhole == FormInv => Form!SentWhole
<1> SUFFICES ASSUME FormInv, form_body.as = "bytes", form_body.sent < form_body.whole,
                    \A i \in DOMAIN form_formDataEntries :
                      /\ form_formDataEntries[i].name \notin Awkward
                      /\ (form_formDataEntries[i].value = "bytes" => form_formDataEntries[i].filename = "plain")
             PROVE  FALSE
  BY DEF Form!SentWhole
<1>1. PICK list \in Seq(Form!Entry) : list = form_formDataEntries
  BY DEF FormInv, FormTyped
<1>2. PICK counted : counted = [i \in DOMAIN list |-> Form!Counted(list[i])]
  OBVIOUS
<1>3. PICK written : written = [i \in DOMAIN list |-> Form!Written(list[i])]
  OBVIOUS
<1>4. /\ Form!GetTotalSize(list) = SumFunctionOnSet(counted, DOMAIN list) + 1
      /\ Form!WholeSize(list) = SumFunctionOnSet(written, DOMAIN list) + 1
      /\ Numbers(counted, DOMAIN list) /\ Numbers(written, DOMAIN list)
  BY <1>2, <1>3, FormSums
<1>5. \A i \in DOMAIN list : written[i] <= counted[i]
  <2> SUFFICES ASSUME NEW i \in DOMAIN list PROVE Form!Written(list[i]) <= Form!Counted(list[i])
    BY <1>2, <1>3
  <2>1. list[i] \in Form!Entry
    OBVIOUS
  <2>2. list[i].name \notin Awkward /\ (list[i].value = "bytes" => list[i].filename = "plain")
    BY <1>1
  <2> QED
    BY <2>1, <2>2, EntrySizes
<1>6. SumFunctionOnSet(written, DOMAIN list) <= SumFunctionOnSet(counted, DOMAIN list)
  BY <1>4, <1>5, SumGrows
<1>7. SumFunctionOnSet(written, DOMAIN list) \in Nat /\ SumFunctionOnSet(counted, DOMAIN list) \in Nat
  BY <1>4, SumIsUnits
<1>8. /\ form_body.sent \in {Form!GetTotalSize(list), Form!WholeSize(list)}
      /\ form_body.whole = Form!WholeSize(list)
  BY <1>1 DEF FormInv, FormSent
<1> QED
  BY <1>4, <1>6, <1>7, <1>8

LEMMA FormSafe == FormInv => Form!FormKept
BY FormStores, FormWhole DEF Form!FormKept

-----------------------------------------------------------------------------
(***************************************************************************)
(* The theorems.                                                           *)
(***************************************************************************)

(* One component takes one of its steps, and the others none.                *)
LEMMA Together ==
  ASSUME [Next]_vars
  PROVE  /\ [Body!Next]_body_vars /\ [Upload!Next]_upload_vars
         /\ [Limiter!Next]_limiter_vars /\ [Codes!Next]_codes_vars
         /\ [Form!Next]_form_vars
BY DEF Next, Rest, vars

(* The bodies: an end of a response is told after every byte, whether it is  *)
(* read by chunks, as a whole, as a stream or by several of them, and no way *)
(* to read goes beyond its limit; what a script reads of the map of a form   *)
(* is what is sent from its list, after every order of append, set and       *)
(* delete, and nothing is cut off a form whose names need no escapes and     *)
(* whose files have names; of an upload the server sees the end after every  *)
(* unit only, whatever ends the goroutine that writes.                       *)
THEOREM BodiesAreWhole == Spec => []BodiesWhole
<1> DEFINE Inv == BodyInv /\ FormInv /\ UploadInv
<1>1. Init => Inv
  BY BodyInit, FormInit, UploadInit DEF Init
<1>2. Inv /\ [Next]_vars => Inv'
  BY BodyNext, FormNext, UploadNext, Together
<1>3. Inv => BodiesWhole
  BY BodySafe, FormSafe, UploadSafe DEF BodiesWhole
<1> QED
  BY <1>1, <1>2, <1>3, PTL DEF Spec

(* The window of a token: while its calls do not overlap and no history of   *)
(* it is lost, it is admitted at most PerMinute times in any window and Burst*)
(* times in any second, through evictions, promotions, cleanups and errors   *)
(* of Redis, and what is in memory can always be evicted.                    *)
THEOREM WindowsAreRespected == Spec => []WindowRespected
<1>1. Init => LimiterInv
  BY LimiterInit DEF Init
<1>2. LimiterInv /\ [Next]_vars => LimiterInv'
  BY LimiterNext, Together
<1>3. LimiterInv => WindowRespected
  BY LimiterSafe
<1> QED
  BY <1>1, <1>2, <1>3, PTL DEF Spec

(* The codes: a caller runs the program of its own code, which passed the     *)
(* check under its normal form, whoever compiled it; a code is compiled again *)
(* only after its program was evicted; who waits for a compilation finds one; *)
(* and a shard keeps the codes that were used last.                          *)
THEOREM CodesAreServed == Spec => []CodeServed
<1>1. Init => CodesInv
  BY CodesBegin DEF Init
<1>2. CodesInv /\ [Next]_vars => CodesInv'
  BY CodesKeep, Together
<1>3. CodesInv => CodeServed
  BY CodesSafe DEF CodeServed
<1> QED
  BY <1>1, <1>2, <1>3, PTL DEF Spec
=============================================================================
