---------------------------- MODULE QuotaCleanup ----------------------------
(***************************************************************************)
(* Deletion of old quota logs: a worker on a timer and cleanups triggered  *)
(* by hand, in batches with a pause. service/quota_cleanup_service.go.     *)
(***************************************************************************)
EXTENDS Integers, FiniteSets, FiniteSetsExt, Functions

CONSTANTS Trigger,    \* goroutines of TriggerCleanup, outside the wait group
          BatchSize, MaxOld \* rows per batch; bound: old rows that ever exist

Cleaner == {"worker"} \cup Trigger

VARIABLES old,      \* rows past their retention
          aged,     \* ghost: how many have been old so far
          at,       \* a cleanup: "idle", "count", "delete", "pause", "report"; the worker also "gone"
          deleted,  \* totalDeleted of a cleanup
          totalCleanedCount, \* and lastCleanupCount:
          lastCleanupCount,
          stop      \* Stop: "no", "closed" (stopChan), "returned"

vars == <<old, aged, at, deleted, totalCleanedCount, lastCleanupCount, stop>>

Init ==
  /\ old = 0 /\ aged = 0 /\ at = [c \in Cleaner |-> "idle"] /\ deleted = [c \in Cleaner |-> 0]
  /\ totalCleanedCount = 0 /\ lastCleanupCount = 0 /\ stop = "no"

Goto(c, step) == at' = [at EXCEPT ![c] = step]
counts == <<totalCleanedCount, lastCleanupCount>>

-----------------------------------------------------------------------------
\* Rows pass their retention.
Age == /\ aged < MaxOld /\ aged' = aged + 1 /\ old' = old + 1
       /\ UNCHANGED <<at, deleted, counts, stop>>

\* The first timer or the ticker fires, or TriggerCleanup starts a goroutine, also after Stop. The
\* worker's select may still take the timer when the stop channel is closed.
Start(c) == /\ at[c] = "idle" /\ Goto(c, "count")
            /\ UNCHANGED <<old, aged, deleted, counts, stop>>

\* The worker sees the stop.
WorkerStops == /\ stop # "no" /\ at["worker"] = "idle" /\ Goto("worker", "gone")
               /\ UNCHANGED <<old, aged, deleted, counts, stop>>

\* countOldLogs: an error leaves the statistics alone.
CountFails(c) == /\ at[c] = "count" /\ Goto(c, "idle")
                 /\ UNCHANGED <<old, aged, deleted, counts, stop>>
Count(c) == /\ at[c] = "count" /\ Goto(c, IF old = 0 THEN "report" ELSE "delete")
            /\ UNCHANGED <<old, aged, deleted, counts, stop>>

\* deleteBatch: two cleanups at once take different rows.
DeleteBatch(c) ==
  LET n == Min({BatchSize, old})
  IN /\ at[c] = "delete"
     /\ old' = old - n /\ deleted' = [deleted EXCEPT ![c] = @ + n]
     /\ Goto(c, IF n = 0 THEN "report" ELSE "pause")
     /\ UNCHANGED <<aged, counts, stop>>
DeleteFails(c) == /\ at[c] = "delete" /\ Goto(c, "report")
                  /\ UNCHANGED <<old, aged, deleted, counts, stop>>

\* The delay passes.
Resume(c) == /\ at[c] = "pause" /\ Goto(c, "delete")
             /\ UNCHANGED <<old, aged, deleted, counts, stop>>

Report(c) == /\ lastCleanupCount' = deleted[c] /\ totalCleanedCount' = totalCleanedCount + deleted[c]
             /\ deleted' = [deleted EXCEPT ![c] = 0] /\ Goto(c, "idle")

\* Mutant: a stop in the pause leaves without the statistics.
StoppedUnreported(c) == /\ stop # "no" /\ at[c] = "pause"
                        /\ Goto(c, "idle") /\ deleted' = [deleted EXCEPT ![c] = 0]
                        /\ UNCHANGED <<old, aged, counts, stop>>
\* The stop comes in the pause.
Stopped(c) == /\ stop # "no" /\ at[c] = "pause" /\ Report(c)
              /\ UNCHANGED <<old, aged, stop>>

\* updateStats at the end; optimizeTable, before it, changes no row.
UpdateStats(c) == /\ at[c] = "report" /\ Report(c) /\ UNCHANGED <<old, aged, stop>>

Stop == /\ stop = "no" /\ stop' = "closed"
        /\ UNCHANGED <<old, aged, at, deleted, counts>>
StopReturns == /\ stop = "closed" /\ at["worker"] = "gone" /\ stop' = "returned"
               /\ UNCHANGED <<old, aged, at, deleted, counts>>

Cleanup(c) == Start(c) \/ CountFails(c) \/ Count(c) \/ DeleteBatch(c) \/ DeleteFails(c) \/ Resume(c)
              \/ Stopped(c) \/ UpdateStats(c)
Next == Age \/ WorkerStops \/ Stop \/ StopReturns \/ \E c \in Cleaner : Cleanup(c)

\* Goroutines run and select is fair between channels that stay ready.
Works(c) == Count(c) \/ DeleteBatch(c) \/ Resume(c) \/ UpdateStats(c)
Fairness == /\ \A c \in Cleaner : WF_vars(Works(c))
            /\ SF_vars(WorkerStops) /\ WF_vars(StopReturns)
Spec == Init /\ [][Next]_vars /\ Fairness
-----------------------------------------------------------------------------
\* The statistics lose no row and count none twice, whatever two cleanups at a time, errors and a
\* stop in the middle do: what was deleted is in the total or in a cleanup that is still at work.
CleanedAccounted == aged - old = totalCleanedCount + SumFunction(deleted)
\* Stop, which waits for the worker only, returns: a cleanup notices the stop in a pause or ends.
StopEnds == stop = "closed" ~> stop = "returned"
=============================================================================
