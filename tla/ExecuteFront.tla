---------------------------- MODULE ExecuteFront ----------------------------
(***************************************************************************)
(* What surrounds the runtime pool: Execute with its circuit breaker,      *)
(* executeInternal, and executeWithEventLoop, where asynchronous code runs *)
(* on a loop and a goroutine of its own. The synchronous path is an        *)
(* outcome here; RuntimePool has its detail, and Shutdown's wait group.    *)
(* The counters of updateStats are left out.                               *)
(* service/executor_service.go, service/executor_helpers.go; gobreaker and *)
(* the event loop of goja_nodejs as src/ uses them.                        *)
(***************************************************************************)
EXTENDS Integers, FiniteSets

CONSTANTS Call,
          MaxConcurrent,            \* capacity of the semaphore
          MinRequests, FailPercent, \* CircuitBreakerMinRequests, ...FailureRatio
          Probes,                   \* CircuitBreakerMaxRequests, of the half-open state
          MaxCalls                  \* bound

Kind == {"sync", "async", "endless", "interval"} \* the code; the last two never end by themselves

VARIABLES breaker,    \* [state, requests, failures, successes, generation]: gobreaker's counts
          at,         \* a call: "away", "check", "validate", "acquire", "sync", "wait", "stop", "after"
          kind, entry, \* its code; the generation it was counted in
          result,     \* what it will return: "none", "ok", "user" or "overload"
          loop,       \* its goroutine: "none", "new", "running", "code", "jobs", "collect", "done"
          vm,         \* the variable the goroutine sets and the deadline reads
          interrupted, canRun, \* the runtime's flag; the loop's flag
          orphan,     \* ghost: the call left before its loop had begun
          semaphore,
          shutdown, started, \* the channel is closed; ghost: calls so far
          overloads   \* ghost: ConcurrencyErrors so far

call == <<at, kind, entry, result>>
loops == <<loop, vm, interrupted, canRun, orphan>>
vars == <<breaker, call, loops, semaphore, shutdown, started, overloads>>

Counts(state, generation) == [state |-> state, requests |-> 0, failures |-> 0, successes |-> 0,
                              generation |-> generation]
All(value) == [c \in Call |-> value]

Init ==
  /\ breaker = Counts("closed", 0)
  /\ at = All("away") /\ kind = All("sync") /\ entry = All(0) /\ result = All("none")
  /\ loop = All("none") /\ vm = All(FALSE) /\ interrupted = All(FALSE) /\ canRun = All(FALSE)
  /\ orphan = All(FALSE) /\ semaphore = 0
  /\ shutdown = FALSE /\ started = 0 /\ overloads = 0

Set(f, c, value) == [f EXCEPT ![c] = value]
Leave(c, res) == at' = Set(at, c, "after") /\ result' = Set(result, c, res)

-----------------------------------------------------------------------------
\* The breaker's beforeRequest. Interval is 0: the counts of the closed state are never cleared.
Admitted(c) == /\ breaker' = [breaker EXCEPT !.requests = @ + 1]
               /\ entry' = Set(entry, c, breaker.generation)
Execute(c) ==
  /\ at[c] = "away" /\ loop[c] \in {"none", "done"} /\ started < MaxCalls
  /\ breaker.state = "closed" \/ (breaker.state = "half-open" /\ breaker.requests < Probes)
  /\ started' = started + 1 /\ Admitted(c) /\ at' = Set(at, c, "check")
  /\ \E k \in Kind : kind' = Set(kind, c, k)
  /\ loop' = Set(loop, c, "none") /\ vm' = Set(vm, c, FALSE) /\ interrupted' = Set(interrupted, c, FALSE)
  /\ orphan' = Set(orphan, c, FALSE) /\ canRun' = Set(canRun, c, FALSE)
  /\ UNCHANGED <<result, semaphore, shutdown, overloads>>
\* The timeout of the open state is over: the next call finds it half-open.
HalfOpen == /\ breaker.state = "open" /\ breaker' = Counts("half-open", breaker.generation + 1)
            /\ UNCHANGED <<call, loops, semaphore, shutdown, started, overloads>>

\* ReadyToTrip
ReadyToTrip(counts) == /\ counts.requests >= MinRequests
                       /\ counts.failures * 100 >= FailPercent * counts.requests
\* The breaker's afterRequest: any error is a failure, and a call of an older generation is ignored.
AfterRequest(c) ==
  LET b == breaker
      ok == [b EXCEPT !.successes = @ + 1]
      failed == [b EXCEPT !.failures = @ + 1, !.successes = 0]
  IN breaker' =
       IF entry[c] # b.generation THEN b
       ELSE IF result[c] = "ok"
            THEN IF b.state = "half-open" /\ ok.successes >= Probes THEN Counts("closed", b.generation + 1) ELSE ok
            ELSE IF b.state = "half-open" \/ ReadyToTrip(failed) THEN Counts("open", b.generation + 1) ELSE failed
Return(c) == /\ at[c] = "after" /\ AfterRequest(c)
             /\ at' = Set(at, c, "away") /\ result' = Set(result, c, "none")
             /\ UNCHANGED <<kind, entry, loops, semaphore, shutdown, started, overloads>>

-----------------------------------------------------------------------------
\* executeInternal: the shutdown and the cancellation are looked at first.
Refuse(c) == /\ at[c] = "check" /\ Leave(c, "user")
             /\ UNCHANGED <<breaker, kind, entry, loops, semaphore, shutdown, started, overloads>>
Check(c) == /\ at[c] = "check" /\ ~shutdown /\ at' = Set(at, c, "validate")
            /\ UNCHANGED <<breaker, kind, entry, result, loops, semaphore, shutdown, started, overloads>>
\* validateInputWithContext
Invalid(c) == /\ at[c] = "validate" /\ Leave(c, "user")
              /\ UNCHANGED <<breaker, kind, entry, loops, semaphore, shutdown, started, overloads>>
Validate(c) == /\ at[c] = "validate" /\ at' = Set(at, c, "acquire")
               /\ UNCHANGED <<breaker, kind, entry, result, loops, semaphore, shutdown, started, overloads>>
\* The semaphore: no slot within concurrencyWaitTimeout, or the request is cancelled.
Overload(c) == /\ at[c] = "acquire" /\ semaphore = MaxConcurrent /\ Leave(c, "overload")
               /\ overloads' = overloads + 1
               /\ UNCHANGED <<breaker, kind, entry, loops, semaphore, shutdown, started>>
CancelWait(c) == /\ at[c] = "acquire" /\ Leave(c, "user")
                 /\ UNCHANGED <<breaker, kind, entry, loops, semaphore, shutdown, started, overloads>>
\* A slot, and ShouldUseRuntimePool picks the path; the loop's goroutine is started.
Acquire(c) ==
  LET async == kind[c] # "sync"
  IN /\ at[c] = "acquire" /\ semaphore < MaxConcurrent /\ semaphore' = semaphore + 1
     /\ at' = Set(at, c, IF async THEN "wait" ELSE "sync")
     /\ loop' = Set(loop, c, IF async THEN "new" ELSE "none")
     /\ UNCHANGED <<breaker, kind, entry, result, vm, interrupted, canRun, orphan, shutdown, started, overloads>>

\* The deferred release of the slot.
Finish(c, res) ==
  /\ Leave(c, res) /\ semaphore' = semaphore - 1
  /\ UNCHANGED <<breaker, kind, entry, shutdown, started, overloads>>
Sync(c) == at[c] = "sync" /\ UNCHANGED loops /\ \E res \in {"ok", "user"} : Finish(c, res)

-----------------------------------------------------------------------------
Running(c) == loop[c] \in {"running", "code", "jobs"}
LoopStep(c, from, to) == /\ loop[c] = from /\ loop' = Set(loop, c, to)
                         /\ UNCHANGED <<breaker, call, orphan, semaphore, shutdown, started, overloads>>

\* loop.Run: it is running, whether or not somebody has stopped it before.
RunLoop(c) == /\ LoopStep(c, "new", "running") /\ canRun' = Set(canRun, c, TRUE) /\ UNCHANGED <<vm, interrupted>>
\* Its function gets the runtime, sets up the modules and runs the code.
SetVm(c)   == /\ LoopStep(c, "running", "code") /\ vm' = Set(vm, c, TRUE) /\ UNCHANGED <<interrupted, canRun>>
\* The code, a setup error, a panic or an interrupt ends the function; jobs that wait go on.
CodeEnds(c) == /\ kind[c] # "endless" \/ interrupted[c]
               /\ LoopStep(c, "code", "jobs") /\ UNCHANGED <<vm, interrupted, canRun>>
\* The loop ends with its last job or when it is stopped.
JobsEnd(c) == /\ kind[c] # "interval" \/ ~canRun[c]
              /\ LoopStep(c, "jobs", "collect") /\ UNCHANGED <<vm, interrupted, canRun>>
\* The result is taken from the runtime and validated; done is closed.
Collect(c) == LoopStep(c, "collect", "done") /\ UNCHANGED <<vm, interrupted, canRun>>

\* The select of executeWithEventLoop: done.
Done(c) == /\ at[c] = "wait" /\ loop[c] = "done" /\ UNCHANGED loops
           /\ \E res \in {"ok", "user"} : Finish(c, res)
\* Mutant: the jobs of the loop go on.
DeadlineOfCode(c) ==
  /\ at[c] = "wait" /\ at' = Set(at, c, "stop")
  /\ interrupted' = Set(interrupted, c, vm[c])
  /\ UNCHANGED <<breaker, kind, entry, result, loop, vm, canRun, orphan, semaphore, shutdown, started, overloads>>
\* The deadline or a cancellation: Interrupt if the runtime is known, and StopNoWait.
Deadline(c) ==
  /\ at[c] = "wait" /\ at' = Set(at, c, "stop")
  /\ interrupted' = Set(interrupted, c, vm[c])
  /\ canRun' = Set(canRun, c, canRun[c] /\ ~Running(c))
  /\ UNCHANGED <<breaker, kind, entry, result, loop, vm, orphan, semaphore, shutdown, started, overloads>>
\* Mutant: the call does not wait for its loop.
StopNoWait(c) == /\ at[c] = "stop"
                 /\ orphan' = Set(orphan, c, loop[c] = "new") /\ UNCHANGED <<loop, vm, interrupted, canRun>>
                 /\ Finish(c, "user")
\* The deferred Stop waits while the loop is running; a loop that has not begun does not hold it.
Stop(c) == /\ at[c] = "stop" /\ ~Running(c)
           /\ orphan' = Set(orphan, c, loop[c] = "new") /\ UNCHANGED <<loop, vm, interrupted, canRun>>
           /\ Finish(c, "user")

Shutdown == /\ ~shutdown /\ shutdown' = TRUE
            /\ UNCHANGED <<breaker, call, loops, semaphore, started, overloads>>

Step(c) == Check(c) \/ Validate(c) \/ Acquire(c) \/ Sync(c) \/ Done(c) \/ Deadline(c) \/ Stop(c) \/ Return(c)
Loop(c) == RunLoop(c) \/ SetVm(c) \/ CodeEnds(c) \/ JobsEnd(c) \/ Collect(c)
Next == \/ HalfOpen \/ Shutdown
        \/ \E c \in Call : Execute(c) \/ Refuse(c) \/ Invalid(c) \/ Overload(c) \/ CancelWait(c) \/ Step(c) \/ Loop(c)

\* Goroutines are scheduled, and a deadline fires; a caller may stay away.
Fairness == \A c \in Call : WF_vars(Step(c)) /\ WF_vars(Loop(c))
Spec == Init /\ [][Next]_vars /\ Fairness

-----------------------------------------------------------------------------
\* No loop runs code for a call that has returned its slot, so the semaphore bounds the loops, but
\* for one: a deadline that fires before the goroutine has begun leaves a loop nobody stops.
LoopsBounded == \A c \in Call : Running(c) => at[c] \in {"wait", "stop"} \/ orphan[c]

\* Code that never ends does not keep its call, unless the deadline came before the goroutine had
\* set vm: then nothing interrupts the code and Stop waits for it.
AsyncReturns(c) ==
  at[c] = "wait" ~> at[c] \notin {"wait", "stop"} \/ (at[c] = "stop" /\ ~interrupted[c])

\* What the comments say of the breaker: it opens for overload only.
OnlyOverloadTrips == breaker.state = "open" => overloads > 0
=============================================================================
