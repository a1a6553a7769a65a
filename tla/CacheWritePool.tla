--------------------------- MODULE CacheWritePool ---------------------------
(***************************************************************************)
(* The pool whose workers write the warm cache: service/cache_write_pool.go*)
(* Submit waits for room, a timer or the stop channel; TrySubmit does not  *)
(* wait; workers leave after they have seen the stop channel and an empty  *)
(* queue; Shutdown waits for them or for its timer. The task channel is    *)
(* never closed.                                                           *)
(***************************************************************************)
EXTENDS Integers, Sequences, FiniteSets, SequencesExt

CONSTANTS Submitter, Worker,
          QueueSize,   \* capacity of the task channel
          MaxTasks,    \* bound: submissions
          None

VARIABLES tasks,       \* the channel
          serving,     \* [Worker -> the task it runs, or None]
          mode,        \* [Worker -> "serving", "draining" or "gone"]
          stop,        \* the stop channel is closed
          shutdown,    \* Shutdown: "open", "waiting", "drained" or "timedout"
          at,          \* [Submitter -> where its Submit is]
          submitted, processed, succeeded, failed, timedOut, submitBlocked, \* stats
          refused      \* ghost: submissions that were counted and ended with an error

stats == <<submitted, processed, succeeded, failed, timedOut, submitBlocked>>
vars == <<tasks, serving, mode, stop, shutdown, at, stats, refused>>

\* A task remembers whether it was accepted before the pool was stopped.
Task    == [early |-> ~stop]
Busy    == {w \in Worker : serving[w] # None}
Gone    == \A w \in Worker : mode[w] = "gone"
Sending == {s \in Submitter : at[s] \in {"check", "select"}}

Init ==
  /\ tasks = <<>> /\ serving = [w \in Worker |-> None] /\ mode = [w \in Worker |-> "serving"]
  /\ stop = FALSE /\ shutdown = "open" /\ at = [s \in Submitter |-> "away"]
  /\ submitted = 0 /\ processed = 0 /\ succeeded = 0 /\ failed = 0 /\ timedOut = 0
  /\ submitBlocked = 0 /\ refused = 0

-----------------------------------------------------------------------------
\* Submit: the count comes first, then the look at the stop channel, then the select.

Submit(s) ==
  /\ at[s] = "away" /\ submitted < MaxTasks
  /\ submitted' = submitted + 1 /\ at' = [at EXCEPT ![s] = "check"]
  /\ UNCHANGED <<tasks, serving, mode, stop, shutdown, processed, succeeded, failed, timedOut,
                 submitBlocked, refused>>

CheckStop(s) ==
  /\ at[s] = "check"
  /\ at' = [at EXCEPT ![s] = IF stop THEN "away" ELSE "select"]
  /\ refused' = IF stop THEN refused + 1 ELSE refused
  /\ UNCHANGED <<tasks, serving, mode, stop, shutdown, stats>>

\* A worker that waits takes the task at once; a channel of QueueSize holds it otherwise.
Send(s) ==
  /\ at[s] = "select" /\ Len(tasks) < QueueSize
  /\ tasks' = Append(tasks, Task)
  /\ at' = [at EXCEPT ![s] = "away"]
  /\ UNCHANGED <<serving, mode, stop, shutdown, stats, refused>>

SubmitTimeout(s) ==
  /\ at[s] = "select" /\ Len(tasks) = QueueSize
  /\ at' = [at EXCEPT ![s] = "away"]
  /\ submitBlocked' = submitBlocked + 1 /\ refused' = refused + 1
  /\ UNCHANGED <<tasks, serving, mode, stop, shutdown, submitted, processed, succeeded, failed,
                 timedOut>>

SubmitClosed(s) ==
  /\ at[s] = "select" /\ stop
  /\ at' = [at EXCEPT ![s] = "away"] /\ refused' = refused + 1
  /\ UNCHANGED <<tasks, serving, mode, stop, shutdown, stats>>

\* TrySubmit counts what it could send and does not look at the stop channel.
TrySubmit(s) ==
  /\ at[s] = "away" /\ submitted < MaxTasks
  /\ IF Len(tasks) < QueueSize
     THEN submitted' = submitted + 1 /\ tasks' = Append(tasks, Task) /\ UNCHANGED submitBlocked
     ELSE submitBlocked < MaxTasks /\ submitBlocked' = submitBlocked + 1 /\ UNCHANGED <<submitted, tasks>>
  /\ UNCHANGED <<serving, mode, stop, shutdown, at, processed, succeeded, failed, timedOut, refused>>

-----------------------------------------------------------------------------
\* Workers. A select with both channels ready takes either.

Receive(w) ==
  /\ mode[w] # "gone" /\ serving[w] = None /\ tasks # <<>>
  /\ serving' = [serving EXCEPT ![w] = Head(tasks)] /\ tasks' = Tail(tasks)
  /\ processed' = processed + 1
  /\ UNCHANGED <<mode, stop, shutdown, at, submitted, succeeded, failed, timedOut, submitBlocked, refused>>

ProcessTask(w) ==
  /\ serving[w] # None
  /\ serving' = [serving EXCEPT ![w] = None]
  /\ \/ succeeded' = succeeded + 1 /\ UNCHANGED <<failed, timedOut>>
     \/ failed' = failed + 1 /\ UNCHANGED <<succeeded, timedOut>>
     \/ timedOut' = timedOut + 1 /\ UNCHANGED <<succeeded, failed>>
  /\ UNCHANGED <<tasks, mode, stop, shutdown, at, submitted, processed, submitBlocked, refused>>

SeeStop(w) ==
  /\ mode[w] = "serving" /\ serving[w] = None /\ stop
  /\ mode' = [mode EXCEPT ![w] = "draining"]
  /\ UNCHANGED <<tasks, serving, stop, shutdown, at, stats, refused>>

\* Mutant: a worker leaves as soon as it sees the stop channel.
LeaveAtOnce(w) ==
  /\ mode[w] = "draining" /\ serving[w] = None
  /\ mode' = [mode EXCEPT ![w] = "gone"]
  /\ UNCHANGED <<tasks, serving, stop, shutdown, at, stats, refused>>

Leave(w) ==
  /\ mode[w] = "draining" /\ serving[w] = None /\ tasks = <<>>
  /\ mode' = [mode EXCEPT ![w] = "gone"]
  /\ UNCHANGED <<tasks, serving, stop, shutdown, at, stats, refused>>

Shutdown ==
  /\ shutdown = "open"
  /\ stop' = TRUE /\ shutdown' = "waiting"
  /\ UNCHANGED <<tasks, serving, mode, at, stats, refused>>

ShutdownReturns ==
  /\ shutdown = "waiting"
  /\ shutdown' = IF Gone THEN "drained" ELSE "timedout"
  /\ UNCHANGED <<tasks, serving, mode, stop, at, stats, refused>>

\* Mutant: a plain send instead of the select.
PlainSend(s)  == CheckStop(s) \/ Send(s)
SubmitStep(s) == CheckStop(s) \/ Send(s) \/ SubmitTimeout(s) \/ SubmitClosed(s)
WorkerStep(w) == Receive(w) \/ ProcessTask(w) \/ SeeStop(w) \/ Leave(w)

Next ==
  \/ \E s \in Submitter : Submit(s) \/ TrySubmit(s) \/ SubmitStep(s)
  \/ \E w \in Worker : WorkerStep(w)
  \/ Shutdown \/ ShutdownReturns

\* Submits have a timer, workers and Shutdown run on their own.
Fairness ==
  /\ \A s \in Submitter : WF_vars(SubmitStep(s))
  /\ \A w \in Worker : WF_vars(WorkerStep(w))
  /\ WF_vars(ShutdownReturns)

Spec == Init /\ [][Next]_vars /\ Fairness

-----------------------------------------------------------------------------
\* Every task accepted before Shutdown began has been executed when Shutdown reports that the
\* workers are done (the "zero loss" of cache_write_pool.go:22, which holds for those tasks only:
\* a Submit that passed its look at the stop channel may still send after the last worker left).
DrainedMeansRun ==
  shutdown = "drained" => \A i \in 1 .. Len(tasks) : ~tasks[i].early

\* The counters tell what became of every submission at any moment, with submitters and workers
\* counting without a common lock: submissions are queued, on their way, refused or processed, and
\* a processed one is being served or has exactly one outcome.
Accounted ==
  /\ submitted = processed + Len(tasks) + Cardinality(Sending) + refused
  /\ processed = succeeded + failed + timedOut + Cardinality(Busy)

\* Every Submit returns, whether the queue is full, draining or abandoned.
SubmitsReturn(s) == at[s] # "away" ~> at[s] = "away"

\* After Shutdown began every worker leaves, although others go on submitting for a while.
WorkersLeave == stop ~> Gone
=============================================================================
