------------------------------ MODULE ColdTier ------------------------------
(***************************************************************************)
(* The history of admitted requests in the database: Set merges the times  *)
(* of a token into a buffer by hour, a timer, a full buffer and Close flush*)
(* it. service/rate_limiter_tiers.go, ColdDataTier.                        *)
(***************************************************************************)
EXTENDS Integers, FiniteSets, FiniteSetsExt, Functions

CONSTANTS Key,       \* a token and an hour
          Batches,   \* the times a call may hand over: functions from Key to sets of times
          BatchSize,
          Extra,     \* bound: flushes of full buffers that run at a time
          MaxSets,   \* bound: requests handed to Set
          DBFails,
          None

VARIABLES batchBuffer, \* [Key -> item or None]
          flushing,    \* [Flusher -> items not written yet, or None]
          timer,       \* the timer goroutine: "waiting", "flush", "last" or "gone"
          spawned,     \* goroutines of full buffers
          closing,     \* Close: "open", "closing" or "closed"
          table,       \* [Key -> item or None]: the rows
          handed, lost, \* ghosts: [Key -> item or None], what was given to Set and what the database refused
          late         \* ghost: a Set came after Close had begun

vars == <<batchBuffer, flushing, timer, spawned, closing, table, handed, lost, late>>

Flusher == Extra \cup {"timer"}

Item(count, first, last) == [count |-> count, first |-> first, last |-> last]

\* aggregateByHour, for one hour.
Aggregate(times) == IF times = {} THEN None ELSE Item(Cardinality(times), Min(times), Max(times))

\* Mutant: the newer first time is kept.
MergeLate(a, b) == IF a = None THEN b ELSE IF b = None THEN a
                   ELSE Item(a.count + b.count, b.first, Max({a.last, b.last}))
\* Set for an existing item, and ON DUPLICATE KEY UPDATE.
Merge(a, b) == IF a = None THEN b ELSE IF b = None THEN a
               ELSE Item(a.count + b.count, Min({a.first, b.first}), Max({a.last, b.last}))

Nothing == [k \in Key |-> None]
Empty   == batchBuffer = Nothing
Filled(buffer) == Cardinality({k \in Key : buffer[k] # None})
Count(i) == IF i = None THEN 0 ELSE i.count

Init ==
  /\ batchBuffer = Nothing /\ flushing = [f \in Flusher |-> None]
  /\ timer = "waiting" /\ spawned = 0 /\ closing = "open"
  /\ table = Nothing /\ handed = Nothing /\ lost = Nothing /\ late = FALSE

Handed == SumFunction([k \in Key |-> Count(handed[k])])

-----------------------------------------------------------------------------
\* Set: one critical section; a full buffer starts a goroutine of the wait group.
Set ==
  /\ Handed < MaxSets
  /\ \E batch \in Batches :
       LET merged == [k \in Key |-> Merge(batchBuffer[k], Aggregate(batch[k]))]
       IN /\ batchBuffer' = merged
          /\ handed' = [k \in Key |-> Merge(handed[k], Aggregate(batch[k]))]
          /\ spawned' = IF Filled(merged) >= BatchSize THEN spawned + 1 ELSE spawned
  /\ late' = (late \/ closing # "open")
  /\ UNCHANGED <<flushing, timer, closing, table, lost>>

\* flushBatch: the buffer changes hands under the lock, the rows are written without it.
\* Mutant: the buffer is emptied when its rows have been written.
SwapLater(f) ==
  /\ flushing[f] = None
  /\ flushing' = [flushing EXCEPT ![f] = batchBuffer]
  /\ UNCHANGED <<batchBuffer, closing, table, handed, lost, late>>

Swap(f) ==
  /\ flushing[f] = None
  /\ flushing' = [flushing EXCEPT ![f] = batchBuffer]
  /\ batchBuffer' = Nothing
  /\ UNCHANGED <<closing, table, handed, lost, late>>

Insert(f) ==
  /\ flushing[f] # None
  /\ \E k \in Key :
       /\ flushing[f][k] # None
       /\ flushing' = [flushing EXCEPT ![f][k] = None]
       /\ \/ table' = [table EXCEPT ![k] = Merge(@, flushing[f][k])] /\ UNCHANGED lost
          \/ DBFails /\ lost' = [lost EXCEPT ![k] = Merge(@, flushing[f][k])] /\ UNCHANGED table
  /\ UNCHANGED <<batchBuffer, timer, spawned, closing, handed, late>>

Flushed(f) == flushing[f] = Nothing /\ flushing' = [flushing EXCEPT ![f] = None]

\* The goroutine of a full buffer.
Running == {e \in Extra : flushing[e] # None}
ExtraFlush(e) == spawned > Cardinality(Running) /\ Swap(e) /\ UNCHANGED <<timer, spawned>>
\* Mutant: the goroutine leaves without wg.Done.
ExtraForgets(e) == Flushed(e) /\ UNCHANGED <<spawned, batchBuffer, timer, closing, table, handed, lost, late>>
ExtraDone(e)  == Flushed(e) /\ spawned' = spawned - 1
                 /\ UNCHANGED <<batchBuffer, timer, closing, table, handed, lost, late>>

\* startBatchTimer.
TimerFires == timer = "waiting" /\ timer' = "flush" /\ Swap("timer") /\ UNCHANGED spawned
\* Mutant: Close ends the timer without a last flush.
TimerJustLeaves ==
  /\ timer = "waiting" /\ closing # "open" /\ timer' = "gone"
  /\ UNCHANGED <<batchBuffer, flushing, spawned, closing, table, handed, lost, late>>
TimerSeesClose ==
  /\ timer = "waiting" /\ closing # "open"
  /\ timer' = "last" /\ Swap("timer") /\ UNCHANGED spawned
TimerFlushed ==
  /\ Flushed("timer") /\ timer' = IF timer = "flush" THEN "waiting" ELSE "gone"
  /\ UNCHANGED <<batchBuffer, spawned, closing, table, handed, lost, late>>

\* Close closes the channel and waits for the group. main.go closes it after the write pool, so
\* that no Set follows unless the pool timed out.
Close ==
  /\ closing = "open" /\ closing' = "closing"
  /\ UNCHANGED <<batchBuffer, flushing, timer, spawned, table, handed, lost, late>>
Closed ==
  /\ closing = "closing" /\ timer = "gone" /\ spawned = 0 /\ closing' = "closed"
  /\ UNCHANGED <<batchBuffer, flushing, timer, spawned, table, handed, lost, late>>

Next ==
  \/ Set
  \/ \E f \in Flusher : Insert(f)
  \/ \E e \in Extra : ExtraFlush(e) \/ ExtraDone(e)
  \/ TimerFires \/ TimerSeesClose \/ TimerFlushed
  \/ Close \/ Closed

\* The goroutines run; a select with both channels ready takes either, so that the timer may fire
\* again and again but not for ever: it fires once a minute.
Fairness ==
  /\ SF_vars(TimerSeesClose) /\ WF_vars(TimerFlushed) /\ WF_vars(Closed)
  /\ \A e \in Extra : WF_vars(ExtraFlush(e)) /\ WF_vars(ExtraDone(e))
  /\ \A f \in Flusher : WF_vars(Insert(f))
Spec == Init /\ [][Next]_vars /\ Fairness

-----------------------------------------------------------------------------
Flushing(k) == [f \in Flusher |-> IF flushing[f] = None THEN None ELSE flushing[f][k]]

\* Every admitted request that was handed to the tier is counted exactly once in the buffer, in a
\* flush, in the table or among the failed writes, and the first and the last time survive every
\* merge, in whatever order the flushes of one hour reach the row.
EachCountedOnce ==
  \A k \in Key :
    LET pieces == {batchBuffer[k], table[k], lost[k]} \cup {Flushing(k)[f] : f \in Flusher}
        items  == pieces \ {None}
    IN /\ handed[k] = None <=> items = {}
       /\ Count(handed[k]) = Count(batchBuffer[k]) + Count(table[k]) + Count(lost[k])
                              + SumFunction([f \in Flusher |-> Count(Flushing(k)[f])])
       /\ items # {} => /\ handed[k].first = Min({i.first : i \in items})
                        /\ handed[k].last  = Max({i.last : i \in items})

\* When Close returns, everything is in the table or was reported, unless a Set came after Close (the
\* write pool had given up waiting for its workers): the last flush and those of full
\* buffers are waited for.
ClosedMeansWritten ==
  closing = "closed" /\ ~late => \A k \in Key : handed[k] = Merge(table[k], lost[k])

\* Close returns.
CloseReturns == closing = "closing" ~> closing = "closed"
=============================================================================
