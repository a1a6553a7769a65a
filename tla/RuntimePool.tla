----------------------------- MODULE RuntimePool -----------------------------
(***************************************************************************)
(* The synchronous execution path of JSExecutor: admission (shutdown check,*)
(* wait group, semaphore), checkout of a goja runtime from the channel     *)
(* runtimePool, the goroutine that runs the program, the deferred return,  *)
(* the replenishing goroutines, the health checker and Shutdown.           *)
(*                                                                         *)
(* A runtime is an object on the heap: an identity that nothing refers to  *)
(* any more stands for one the program has not allocated yet (Fresh).      *)
(* Ghost variables, which no guard of the code reads: uses, early, drift.  *)
(***************************************************************************)
EXTENDS Integers, Sequences, FiniteSets

CONSTANTS
  Request,        \* calls of Execute
  Runtime,        \* identities for runtimes
  NoRuntime,
  PoolSize,       \* runtimes made by initRuntimePool
  MinPoolSize,
  MaxPoolSize,    \* capacity of the channel
  MaxConcurrent,  \* capacity of the semaphore
  MaxReuse,       \* maxRuntimeReuseCount
  MinErrorCount,  \* minErrorCountForCheck
  ErrorPercent,   \* maxErrorRateThreshold, in percent
  ExpandPercent,  \* poolExpansionThresholdPercent, in percent
  IdleFloor,      \* 5 in shouldShrink
  ShrinkStep,     \* 10 in calculateShrink
  ExpandFloor,    \* 5 in calculateExpansion
  MaxTicks        \* bound on the health checker's rounds

ASSUME PoolAssumption ==
  /\ NoRuntime \notin Runtime
  /\ {PoolSize, MinPoolSize, MaxPoolSize, MaxConcurrent, MaxReuse} \subseteq Nat \ {0}
  /\ {MinErrorCount, ErrorPercent, ExpandPercent, IdleFloor} \subseteq Nat
  /\ {ShrinkStep, ExpandFloor, MaxTicks} \subseteq Nat
  /\ MinPoolSize <= PoolSize /\ PoolSize <= MaxPoolSize
  /\ IsFiniteSet(Request) /\ IsFiniteSet(Runtime)

VARIABLES
  pc,               \* where each call of executeInternal is
  held,             \* the runtime a call has checked out
  temporary,        \* calls whose runtime is temporary (isTemporary)
  runsOn,           \* the runtime the goroutine of a call is running on
  answer,           \* what that goroutine has put on resultChan or errorChan
  runtimePool,      \* the channel
  currentPoolSize,
  tracked,          \* keys of the map runtimeHealth
  execCount,        \* executionCount of an entry, 0 without one
  errCount,         \* errorCount of an entry, 0 without one
  interrupted,      \* runtimes whose interrupt flag is set
  semaphore,        \* slots taken
  wg,               \* the wait group's counter
  stage,            \* how far Shutdown has come
  replenishPending, \* goroutines of replenishOneRuntime before their checks
  replenishing,     \* runtimes such goroutines have registered, not pushed
  checker,          \* the health checker and the analysis it works from
  ticks,
  crashed,          \* a goroutine without recover has panicked
  uses,             \* ghost: checkouts of a runtime since it was made
  early,            \* ghost: calls registered before Shutdown began
  drift             \* ghost: pool changes that currentPoolSize has missed

reqVars    == <<pc, held, temporary, runsOn, answer>>
poolVars   == <<runtimePool, currentPoolSize, drift>>
healthVars == <<tracked, execCount, errCount>>
limitVars  == <<semaphore, wg, stage, early>>
supplyVars == <<replenishPending, replenishing>>
checkVars  == <<checker, ticks>>
vars == <<reqVars, poolVars, healthVars, interrupted, limitVars, supplyVars,
          checkVars, crashed, uses>>

PC == {"new", "entered", "validating", "acquiring", "ready", "running",
       "returning", "looping", "leaving", "done"}
Holding == {"ready", "running", "returning"}
Slotted == Holding \cup {"acquiring", "looping", "leaving"}
InFlight == Slotted \cup {"validating"}

InPool == {runtimePool[i] : i \in DOMAIN runtimePool}
HasRoom == Len(runtimePool) < MaxPoolSize

\* Runtimes that no goroutine, channel or map refers to.
Fresh ==
  {x \in Runtime :
     /\ x \notin InPool \cup tracked \cup replenishing
     /\ x \notin checker.problems \cup checker.idle \cup checker.made
     /\ \A r \in Request : held[r] # x /\ runsOn[r] # x}

\* delete(runtimeHealth, x) for every x in X, then new entries for Y.
Retrack(X, Y) ==
  /\ tracked' = (tracked \ X) \cup Y
  /\ execCount' = [x \in Runtime |-> IF x \in X \cup Y THEN 0 ELSE execCount[x]]
  /\ errCount' = [x \in Runtime |-> IF x \in X \cup Y THEN 0 ELSE errCount[x]]

\* The objects in X are new: no interrupt, never used.
Make(X) ==
  /\ interrupted' = interrupted \ X
  /\ uses' = [x \in Runtime |-> IF x \in X THEN 0 ELSE uses[x]]

Resting == [at |-> "idle", problems |-> {}, idle |-> {}, size |-> 0, avail |-> 0,
            made |-> {}]

Init ==
  /\ pc = [r \in Request |-> "new"]
  /\ held = [r \in Request |-> NoRuntime]
  /\ temporary = {}
  /\ runsOn = [r \in Request |-> NoRuntime]
  /\ answer = [r \in Request |-> "none"]
  /\ runtimePool \in [1..PoolSize -> Runtime]
  /\ \A i, j \in 1..PoolSize : i # j => runtimePool[i] # runtimePool[j]
  /\ currentPoolSize = PoolSize
  /\ drift = 0
  /\ tracked = InPool
  /\ execCount = [x \in Runtime |-> 0]
  /\ errCount = [x \in Runtime |-> 0]
  /\ interrupted = {}
  /\ semaphore = 0
  /\ wg = 1                          \* startHealthChecker has added itself
  /\ stage = "open"
  /\ early = {}
  /\ replenishPending = 0
  /\ replenishing = {}
  /\ checker = Resting
  /\ ticks = 0
  /\ crashed = FALSE
  /\ uses = [x \in Runtime |-> 0]

Goto(r, from, to) == ~crashed /\ pc[r] = from /\ pc' = [pc EXCEPT ![r] = to]
-----------------------------------------------------------------------------
(* Admission: steps 1 to 5 of executeInternal.                             *)

\* Neither the shutdown channel is closed nor the context cancelled.
Enter(r) ==
  /\ stage = "open"
  /\ Goto(r, "new", "entered")
  /\ UNCHANGED <<held, temporary, runsOn, answer, poolVars, healthVars, interrupted,
                 limitVars, supplyVars, checkVars, crashed, uses>>

\* ServiceUnavailableError, or CancelledError: a context can be cancelled at any time.
Refuse(r) ==
  /\ Goto(r, "new", "done")
  /\ UNCHANGED <<held, temporary, runsOn, answer, poolVars, healthVars, interrupted,
                 limitVars, supplyVars, checkVars, crashed, uses>>

\* wg.Add(1), some time after the shutdown channel was read.
Register(r) ==
  /\ Goto(r, "entered", "validating")
  /\ wg' = wg + 1
  /\ early' = IF stage = "open" THEN early \cup {r} ELSE early
  /\ UNCHANGED <<held, temporary, runsOn, answer, poolVars, healthVars, interrupted,
                 semaphore, stage, supplyVars, checkVars, crashed, uses>>

\* Mutant of GiveUp: the slot's release is deferred before the wait for a slot.
GiveUpReleases(r) ==
  /\ Goto(r, "validating", "done")
  /\ wg' = wg - 1
  /\ semaphore' = semaphore - 1
  /\ UNCHANGED <<held, temporary, runsOn, answer, poolVars, healthVars, interrupted,
                 stage, early, supplyVars, checkVars, crashed, uses>>

\* Validation error, cancellation, or ConcurrencyError after the wait for a slot.
GiveUp(r) ==
  /\ Goto(r, "validating", "done")
  /\ wg' = wg - 1
  /\ UNCHANGED <<held, temporary, runsOn, answer, poolVars, healthVars, interrupted,
                 semaphore, stage, early, supplyVars, checkVars, crashed, uses>>

\* A slot of the semaphore, then the route the code's text asks for.
AcquireSlot(r) ==
  /\ semaphore < MaxConcurrent
  /\ semaphore' = semaphore + 1
  /\ \E route \in {"acquiring", "looping"} : Goto(r, "validating", route)
  /\ UNCHANGED <<held, temporary, runsOn, answer, poolVars, healthVars, interrupted,
                 wg, stage, early, supplyVars, checkVars, crashed, uses>>

\* executeWithEventLoop uses a loop and a runtime of its own.
EndLoop(r) ==
  /\ Goto(r, "looping", "leaving")
  /\ UNCHANGED <<held, temporary, runsOn, answer, poolVars, healthVars, interrupted,
                 limitVars, supplyVars, checkVars, crashed, uses>>

\* Mutant of Leave: the slot is not released.
LeaveLeaks(r) ==
  /\ Goto(r, "leaving", "done")
  /\ wg' = wg - 1
  /\ UNCHANGED <<held, temporary, runsOn, answer, poolVars, healthVars, interrupted,
                 semaphore, stage, early, supplyVars, checkVars, crashed, uses>>

\* The deferred functions of executeInternal: the slot, then the wait group.
Leave(r) ==
  /\ Goto(r, "leaving", "done")
  /\ semaphore' = semaphore - 1
  /\ wg' = wg - 1
  /\ UNCHANGED <<held, temporary, runsOn, answer, poolVars, healthVars, interrupted,
                 stage, early, supplyVars, checkVars, crashed, uses>>
-----------------------------------------------------------------------------
(* Checkout: the first select of executeWithRuntimePool.                   *)

Checkout(r) ==
  /\ runtimePool # <<>>
  /\ Goto(r, "acquiring", "ready")
  /\ LET x == Head(runtimePool) IN
       /\ held' = [held EXCEPT ![r] = x]
       /\ execCount' = IF x \in tracked THEN [execCount EXCEPT ![x] = @ + 1] ELSE execCount
       /\ uses' = [uses EXCEPT ![x] = @ + 1]
  /\ runtimePool' = Tail(runtimePool)
  /\ UNCHANGED <<temporary, runsOn, answer, currentPoolSize, drift, tracked, errCount,
                 interrupted, limitVars, supplyVars, checkVars, crashed>>

\* runtimePoolAcquireTimeout has passed: a runtime outside the pool's accounts.
CheckoutTemporary(r) ==
  /\ runtimePool = <<>> /\ stage # "closed"
  /\ Goto(r, "acquiring", "ready")
  /\ \E x \in Fresh :
       /\ held' = [held EXCEPT ![r] = x]
       /\ interrupted' = interrupted \ {x}
       /\ uses' = [uses EXCEPT ![x] = 1]
  /\ temporary' = temporary \cup {r}
  /\ UNCHANGED <<runsOn, answer, poolVars, healthVars, limitVars, supplyVars,
                 checkVars, crashed>>

\* CancelledError, or setupRuntime failed for the temporary runtime, or a nil
\* runtime came out of the closed channel and the handler recovers the panic.
CheckoutFail(r) ==
  /\ Goto(r, "acquiring", "leaving")
  /\ UNCHANGED <<held, temporary, runsOn, answer, poolVars, healthVars, interrupted,
                 limitVars, supplyVars, checkVars, crashed, uses>>
-----------------------------------------------------------------------------
(* The run: a goroutine of its own, and the second select.                 *)

CompileFail(r) ==
  /\ Goto(r, "ready", "returning")
  /\ UNCHANGED <<held, temporary, runsOn, answer, poolVars, healthVars, interrupted,
                 limitVars, supplyVars, checkVars, crashed, uses>>

StartRun(r) ==
  /\ Goto(r, "ready", "running")
  /\ runsOn' = [runsOn EXCEPT ![r] = held[r]]
  /\ UNCHANGED <<held, temporary, answer, poolVars, healthVars, interrupted,
                 limitVars, supplyVars, checkVars, crashed, uses>>

\* The goroutine leaves RunProgram; its channels are buffered, so it never blocks.
GoroutineEnds(r, a) ==
  /\ ~crashed /\ runsOn[r] # NoRuntime
  /\ runsOn' = [runsOn EXCEPT ![r] = NoRuntime]
  /\ answer' = [answer EXCEPT ![r] = a]
  /\ UNCHANGED <<pc, held, temporary, poolVars, healthVars, interrupted,
                 limitVars, supplyVars, checkVars, crashed, uses>>

CodeEnds(r) == \E a \in {"result", "error"} : GoroutineEnds(r, a)

\* The virtual machine sees the interrupt flag: InterruptedError.
CodeInterrupted(r) == runsOn[r] \in interrupted /\ GoroutineEnds(r, "error")

CountError(r) ==
  errCount' = IF r \notin temporary /\ held[r] \in tracked
                THEN [errCount EXCEPT ![held[r]] = @ + 1] ELSE errCount

Answered(r) ==
  /\ answer[r] # "none"
  /\ Goto(r, "running", "returning")
  /\ IF answer[r] = "error" THEN CountError(r) ELSE UNCHANGED errCount
  /\ UNCHANGED <<held, temporary, runsOn, answer, poolVars, tracked, execCount,
                 interrupted, limitVars, supplyVars, checkVars, crashed, uses>>

\* Mutant of TimedOut: the handler first waits for the goroutine to end.
TimedOutJoins(r) ==
  /\ runsOn[r] = NoRuntime
  /\ Goto(r, "running", "returning")
  /\ interrupted' = interrupted \cup {held[r]}
  /\ CountError(r)
  /\ UNCHANGED <<held, temporary, runsOn, answer, poolVars, tracked, execCount,
                 limitVars, supplyVars, checkVars, crashed, uses>>

\* execCtx.Done: deadline or cancellation. Nothing waits for the goroutine.
TimedOut(r) ==
  /\ Goto(r, "running", "returning")
  /\ interrupted' = interrupted \cup {held[r]}
  /\ CountError(r)
  /\ UNCHANGED <<held, temporary, runsOn, answer, poolVars, tracked, execCount,
                 limitVars, supplyVars, checkVars, crashed, uses>>
-----------------------------------------------------------------------------
(* The deferred return of the runtime.                                     *)

\* Mutant of WornOut: one use too many.
WornOutLate(r) ==
  /\ r \notin temporary
  /\ held[r] \in tracked
  /\ execCount[held[r]] > MaxReuse

WornOut(r) ==
  /\ r \notin temporary
  /\ held[r] \in tracked
  /\ execCount[held[r]] >= MaxReuse

\* The reuse limit is reached: forget the runtime and start a replenisher.
ReturnDestroy(r) ==
  /\ Goto(r, "returning", "leaving")
  /\ WornOut(r)
  /\ Retrack({held[r]}, {})
  /\ held' = [held EXCEPT ![r] = NoRuntime]
  /\ currentPoolSize' = currentPoolSize - 1
  /\ replenishPending' = replenishPending + 1
  /\ UNCHANGED <<temporary, runsOn, answer, runtimePool, drift, interrupted, limitVars,
                 replenishing, checkVars, crashed, uses>>

\* Mutant of ReturnPush: the interrupt stays.
ReturnInterrupted(r) ==
  /\ Goto(r, "returning", "leaving")
  /\ ~WornOut(r) /\ stage # "closed" /\ HasRoom
  /\ runtimePool' = Append(runtimePool, held[r])
  /\ currentPoolSize' = IF r \in temporary THEN currentPoolSize + 1 ELSE currentPoolSize
  /\ held' = [held EXCEPT ![r] = NoRuntime]
  /\ temporary' = temporary \ {r}
  /\ UNCHANGED <<runsOn, answer, drift, healthVars, interrupted, limitVars, supplyVars,
                 checkVars, crashed, uses>>

\* cleanupRuntime clears the interrupt; there is room in the channel.
ReturnPush(r) ==
  /\ Goto(r, "returning", "leaving")
  /\ ~WornOut(r) /\ stage # "closed" /\ HasRoom
  /\ interrupted' = interrupted \ {held[r]}
  /\ runtimePool' = Append(runtimePool, held[r])
  /\ currentPoolSize' = IF r \in temporary THEN currentPoolSize + 1 ELSE currentPoolSize
  /\ held' = [held EXCEPT ![r] = NoRuntime]
  /\ temporary' = temporary \ {r}
  /\ UNCHANGED <<runsOn, answer, drift, healthVars, limitVars, supplyVars, checkVars,
                 crashed, uses>>

\* Mutant of ReturnDrop: a temporary runtime, never counted, is taken off the count.
ReturnDropCounts(r) ==
  /\ Goto(r, "returning", "leaving")
  /\ ~WornOut(r) /\ stage # "closed" /\ ~HasRoom
  /\ interrupted' = interrupted \ {held[r]}
  /\ currentPoolSize' = currentPoolSize - 1
  /\ Retrack({held[r]}, {})
  /\ held' = [held EXCEPT ![r] = NoRuntime]
  /\ temporary' = temporary \ {r}
  /\ UNCHANGED <<runsOn, answer, runtimePool, drift, limitVars, supplyVars, checkVars,
                 crashed, uses>>

\* The channel is full: the runtime is dropped.
ReturnDrop(r) ==
  /\ Goto(r, "returning", "leaving")
  /\ ~WornOut(r) /\ stage # "closed" /\ ~HasRoom
  /\ interrupted' = interrupted \ {held[r]}
  /\ IF r \in temporary
       THEN UNCHANGED <<currentPoolSize, healthVars>>
       ELSE /\ currentPoolSize' = currentPoolSize - 1
            /\ Retrack({held[r]}, {})
  /\ held' = [held EXCEPT ![r] = NoRuntime]
  /\ temporary' = temporary \ {r}
  /\ UNCHANGED <<runsOn, answer, runtimePool, drift, limitVars, supplyVars, checkVars,
                 crashed, uses>>

\* Sending on the closed channel panics in the deferred function; the handler
\* recovers and the runtime is garbage.
ReturnClosed(r) ==
  /\ Goto(r, "returning", "leaving")
  /\ ~WornOut(r) /\ stage = "closed"
  /\ interrupted' = interrupted \ {held[r]}
  /\ held' = [held EXCEPT ![r] = NoRuntime]
  /\ temporary' = temporary \ {r}
  /\ UNCHANGED <<runsOn, answer, poolVars, healthVars, limitVars, supplyVars, checkVars,
                 crashed, uses>>
-----------------------------------------------------------------------------
(* replenishOneRuntime: a goroutine outside the wait group.                *)

\* Shutting down, pool already at its maximum, or setupRuntime failed.
ReplenishSkip ==
  /\ ~crashed /\ replenishPending > 0
  /\ replenishPending' = replenishPending - 1
  /\ UNCHANGED <<reqVars, poolVars, healthVars, interrupted, limitVars, replenishing,
                 checkVars, crashed, uses>>

ReplenishMake ==
  /\ ~crashed /\ replenishPending > 0 /\ stage = "open" /\ currentPoolSize < MaxPoolSize
  /\ replenishPending' = replenishPending - 1
  /\ \E x \in Fresh :
       /\ replenishing' = replenishing \cup {x}
       /\ Retrack({}, {x}) /\ Make({x})
  /\ UNCHANGED <<reqVars, poolVars, limitVars, checkVars, crashed>>

ReplenishPush ==
  \E x \in replenishing :
    /\ ~crashed
    /\ replenishing' = replenishing \ {x}
    /\ IF stage = "closed"
         THEN /\ crashed' = TRUE
              /\ UNCHANGED <<runtimePool, currentPoolSize, healthVars>>
         ELSE /\ UNCHANGED crashed
              /\ IF HasRoom
                   THEN /\ runtimePool' = Append(runtimePool, x)
                        /\ currentPoolSize' = currentPoolSize + 1
                        /\ UNCHANGED healthVars
                   ELSE /\ Retrack({x}, {})
                        /\ UNCHANGED <<runtimePool, currentPoolSize>>
    /\ UNCHANGED <<reqVars, drift, interrupted, limitVars, replenishPending, checkVars, uses>>
-----------------------------------------------------------------------------
(* checkAndFixRuntimes: snapshot and analysis, then fixes made from them.  *)

IsProblem(x) ==
  /\ errCount[x] > MinErrorCount /\ execCount[x] > 0
  /\ errCount[x] * 100 > ErrorPercent * execCount[x]

ShouldShrink == checker.size > MinPoolSize /\ Cardinality(checker.idle) > IdleFloor

ShouldExpand ==
  /\ checker.avail < (checker.size * ExpandPercent) \div 100
  /\ checker.size < MaxPoolSize

Least(a, b) == IF a < b THEN a ELSE b

CalculateExpansion ==
  LET fifth == checker.size \div 5
  IN  Least(IF fifth < ExpandFloor THEN ExpandFloor ELSE fifth, MaxPoolSize - checker.size)

CalculateShrink ==
  Least(Least(checker.size - MinPoolSize, Cardinality(checker.idle) \div 2), ShrinkStep)

\* captureHealthSnapshot and analyzeRuntimeHealth. An entry can have been idle
\* for idleTimeout unless its runtime is checked out or just being made.
CheckerTick ==
  /\ ~crashed /\ checker.at = "idle" /\ ticks < MaxTicks
  /\ ticks' = ticks + 1
  /\ \E idle \in SUBSET ((tracked \ replenishing) \ {held[r] : r \in Request}) :
       checker' = [at |-> "fix", problems |-> {x \in tracked : IsProblem(x)}, idle |-> idle,
                   size |-> currentPoolSize, avail |-> Len(runtimePool), made |-> {}]
  /\ UNCHANGED <<reqVars, poolVars, healthVars, interrupted, limitVars, supplyVars,
                 crashed, uses>>

\* Mutant of CheckerRebuild: the old runtime is the one put back.
CheckerRebuildOld ==
  /\ ~crashed /\ checker.at = "fix"
  /\ \E x \in checker.problems :
       /\ Retrack({x}, {x}) /\ Make({})
       /\ checker' = [checker EXCEPT !.at = "rebuilt", !.problems = @ \ {x}, !.made = {x}]
  /\ UNCHANGED <<reqVars, poolVars, limitVars, supplyVars, ticks, crashed>>

\* rebuildRuntimeSafe up to its Unlock: the old runtime stays where it is.
CheckerRebuild ==
  /\ ~crashed /\ checker.at = "fix"
  /\ \E x \in checker.problems, y \in Fresh :
       /\ Retrack({x}, {y}) /\ Make({y})
       /\ checker' = [checker EXCEPT !.at = "rebuilt", !.problems = @ \ {x}, !.made = {y}]
  /\ UNCHANGED <<reqVars, poolVars, limitVars, supplyVars, ticks, crashed>>

\* setupRuntime failed: the old runtime is kept.
CheckerRebuildFail ==
  /\ ~crashed /\ checker.at = "fix"
  /\ \E x \in checker.problems : checker' = [checker EXCEPT !.problems = @ \ {x}]
  /\ UNCHANGED <<reqVars, poolVars, healthVars, interrupted, limitVars, supplyVars,
                 ticks, crashed, uses>>

\* The end of rebuildRuntimeSafe: pushed without counting it, or dropped with its
\* health entry left behind.
CheckerRebuildPush ==
  /\ ~crashed /\ checker.at = "rebuilt"
  /\ \E y \in checker.made :
       IF HasRoom
         THEN runtimePool' = Append(runtimePool, y) /\ drift' = drift + 1
         ELSE UNCHANGED <<runtimePool, drift>>
  /\ checker' = [checker EXCEPT !.at = "fix", !.made = {}]
  /\ UNCHANGED <<reqVars, currentPoolSize, healthVars, interrupted, limitVars, supplyVars,
                 ticks, crashed, uses>>

\* shrinkPool: health entries and the counter, not the channel.
CheckerShrink ==
  /\ ~crashed /\ checker.at = "fix" /\ checker.problems = {} /\ ShouldShrink
  /\ \E X \in SUBSET checker.idle :
       /\ Cardinality(X) = Least(Cardinality(checker.idle), CalculateShrink)
       /\ Retrack(X, {})
       /\ currentPoolSize' = currentPoolSize - Cardinality(X)
       /\ drift' = drift + Cardinality(X)
  /\ checker' = [checker EXCEPT !.at = "adjust", !.idle = {}]
  /\ UNCHANGED <<reqVars, runtimePool, interrupted, limitVars, supplyVars, ticks,
                 crashed, uses>>

\* Nothing to shrink, or the adaptive cooldown has not passed: it depends on the
\* times of the last half hour's adjustments, so it may apply in any round.
CheckerNoShrink ==
  /\ ~crashed /\ checker.at = "fix" /\ checker.problems = {}
  /\ checker' = [checker EXCEPT !.at = "adjust", !.idle = {}]
  /\ UNCHANGED <<reqVars, poolVars, healthVars, interrupted, limitVars, supplyVars,
                 ticks, crashed, uses>>

\* adjustPoolSize: all the new runtimes are registered before the first is pushed.
CheckerExpand ==
  /\ ~crashed /\ checker.at = "adjust" /\ ShouldExpand
  /\ \E Y \in SUBSET Fresh :
       /\ Cardinality(Y) <= CalculateExpansion    \* fewer: setupRuntime failed for some
       /\ Retrack({}, Y) /\ Make(Y)
       /\ checker' = [checker EXCEPT !.at = "expanding", !.made = Y]
  /\ UNCHANGED <<reqVars, poolVars, limitVars, supplyVars, ticks, crashed>>

CheckerExpandPush ==
  /\ ~crashed /\ checker.at = "expanding" /\ HasRoom
  /\ \E y \in checker.made :
       /\ runtimePool' = Append(runtimePool, y)
       /\ currentPoolSize' = currentPoolSize + 1
       /\ checker' = [checker EXCEPT !.made = @ \ {y}]
  /\ UNCHANGED <<reqVars, drift, healthVars, interrupted, limitVars, supplyVars, ticks,
                 crashed, uses>>

\* The round is over: nothing to expand, all pushed, or the channel is full.
CheckerRest ==
  /\ ~crashed
  /\ \/ checker.at = "adjust" /\ ~ShouldExpand
     \/ checker.at = "expanding" /\ (checker.made = {} \/ ~HasRoom)
  /\ checker' = Resting
  /\ UNCHANGED <<reqVars, poolVars, healthVars, interrupted, limitVars, supplyVars,
                 ticks, crashed, uses>>

\* Mutant of CheckerStop: no deferred wg.Done.
CheckerStopSilent ==
  /\ ~crashed /\ checker.at = "idle" /\ stage # "open"
  /\ checker' = [checker EXCEPT !.at = "stopped"]
  /\ UNCHANGED <<reqVars, poolVars, healthVars, interrupted, limitVars,
                 supplyVars, ticks, crashed, uses>>

\* The checker sees the closed shutdown channel between two rounds.
CheckerStop ==
  /\ ~crashed /\ checker.at = "idle" /\ stage # "open"
  /\ checker' = [checker EXCEPT !.at = "stopped"]
  /\ wg' = wg - 1
  /\ UNCHANGED <<reqVars, poolVars, healthVars, interrupted, semaphore, stage, early,
                 supplyVars, ticks, crashed, uses>>
-----------------------------------------------------------------------------
(* Shutdown.                                                               *)

CloseShutdown ==
  /\ ~crashed /\ stage = "open"
  /\ stage' = "draining"
  /\ UNCHANGED <<reqVars, poolVars, healthVars, interrupted, semaphore, wg, early,
                 supplyVars, checkVars, crashed, uses>>

\* Mutant of WaitReturns: Shutdown waits for the slots, not for the wait group.
WaitForSlots ==
  /\ ~crashed /\ stage = "draining" /\ semaphore = 0
  /\ stage' = "drained"
  /\ UNCHANGED <<reqVars, poolVars, healthVars, interrupted, semaphore, wg, early,
                 supplyVars, checkVars, crashed, uses>>

WaitReturns ==
  /\ ~crashed /\ stage = "draining" /\ wg = 0
  /\ stage' = "drained"
  /\ UNCHANGED <<reqVars, poolVars, healthVars, interrupted, semaphore, wg, early,
                 supplyVars, checkVars, crashed, uses>>

\* After CloseAll of the module registry: close the channel and drain it.
ClosePool ==
  /\ ~crashed /\ stage = "drained"
  /\ stage' = "closed"
  /\ runtimePool' = <<>>
  /\ UNCHANGED <<reqVars, currentPoolSize, drift, healthVars, interrupted, semaphore, wg,
                 early, supplyVars, checkVars, crashed, uses>>
-----------------------------------------------------------------------------
Advance(r) ==
  \/ Register(r) \/ GiveUp(r) \/ AcquireSlot(r) \/ EndLoop(r) \/ Leave(r)
  \/ Checkout(r) \/ CheckoutTemporary(r) \/ CheckoutFail(r)
  \/ CompileFail(r) \/ StartRun(r) \/ Answered(r) \/ TimedOut(r)
  \/ ReturnDestroy(r) \/ ReturnPush(r) \/ ReturnDrop(r) \/ ReturnClosed(r)

Replenish == ReplenishSkip \/ ReplenishMake \/ ReplenishPush

Check ==
  \/ CheckerTick \/ CheckerRebuild \/ CheckerRebuildFail \/ CheckerRebuildPush
  \/ CheckerShrink \/ CheckerNoShrink \/ CheckerExpand \/ CheckerExpandPush
  \/ CheckerRest \/ CheckerStop

Shutdown == CloseShutdown \/ WaitReturns \/ ClosePool

\* The process has crashed, or Shutdown is over and every call has returned.
Ended ==
  /\ crashed \/ (stage = "closed" /\ \A r \in Request : pc[r] = "done")
  /\ UNCHANGED vars

Next ==
  \/ \E r \in Request : Enter(r) \/ Refuse(r) \/ Advance(r) \/ CodeEnds(r) \/ CodeInterrupted(r)
  \/ Replenish
  \/ Check
  \/ Shutdown
  \/ Ended

\* The Go scheduler runs every goroutine; each wait of Advance has a timer; the
\* virtual machine polls its interrupt flag. User code need not end by itself,
\* and no caller need arrive or shut the service down.
Fairness ==
  /\ \A r \in Request : WF_vars(Advance(r)) /\ WF_vars(CodeInterrupted(r))
  /\ WF_vars(Replenish) /\ WF_vars(Check) /\ WF_vars(WaitReturns \/ ClosePool)

Spec == Init /\ [][Next]_vars /\ Fairness
-----------------------------------------------------------------------------
(* Properties.                                                             *)

Record ==
  [at : {"idle", "fix", "rebuilt", "adjust", "expanding", "stopped"},
   problems : SUBSET Runtime, idle : SUBSET Runtime, size : Int, avail : Nat,
   made : SUBSET Runtime]

TypeRange ==
  /\ pc \in [Request -> PC]
  /\ held \in [Request -> Runtime \cup {NoRuntime}]
  /\ temporary \in SUBSET Request
  /\ runsOn \in [Request -> Runtime \cup {NoRuntime}]
  /\ answer \in [Request -> {"none", "result", "error"}]
  /\ runtimePool \in Seq(Runtime)
  /\ currentPoolSize \in Int /\ drift \in Int
  /\ tracked \in SUBSET Runtime
  /\ execCount \in [Runtime -> Nat] /\ errCount \in [Runtime -> Nat]
  /\ interrupted \in SUBSET Runtime
  /\ semaphore \in Int /\ wg \in Int
  /\ stage \in {"open", "draining", "drained", "closed"}
  /\ early \in SUBSET Request
  /\ replenishPending \in Nat /\ replenishing \in SUBSET Runtime
  /\ checker \in Record /\ ticks \in Nat
  /\ crashed \in BOOLEAN
  /\ uses \in [Runtime -> Nat]

(* Every variable keeps its type; in particular the semaphore and the wait *)
(* group never go below zero (a second release or a second Done would).    *)
TypeOK == TypeRange /\ semaphore \in Nat /\ wg \in Nat

(* A runtime has one owner: it is in the channel once, or checked out by   *)
(* one call, or with one goroutine that is about to push it, although the  *)
(* checker, the replenishers and the calls push and drop concurrently.     *)
OneOwner ==
  /\ \A i, j \in DOMAIN runtimePool : runtimePool[i] = runtimePool[j] => i = j
  /\ \A r, s \in Request : held[r] = held[s] /\ held[r] # NoRuntime => r = s
  /\ \A r \in Request : held[r] \notin InPool \cup replenishing \cup checker.made
  /\ InPool \cap (replenishing \cup checker.made) = {}
  /\ replenishing \cap checker.made = {}

Count(S) == Cardinality({r \in Request : pc[r] \in S})

\* Calls whose runtime is one of the pool's.
Borrowers == {r \in Request : pc[r] \in Holding /\ r \notin temporary}

(* Slots and wait group agree with the calls in flight on every path out   *)
(* of executeInternal: no path leaks a slot, none releases it twice.       *)
Accounted ==
  /\ semaphore = Count(Slotted)
  /\ semaphore <= MaxConcurrent
  /\ wg = Count(InFlight) + IF checker.at = "stopped" THEN 0 ELSE 1

(* currentPoolSize is the channel plus the checked-out runtimes of the     *)
(* pool, up to what rebuilds and shrinks of the health checker miss: every *)
(* other path (destroy, replenish, temporary, expand, drop) keeps it exact.*)
SizeAccounted ==
  stage # "closed" =>
    currentPoolSize + drift = Len(runtimePool) + Cardinality(Borrowers)

(* A runtime with a health entry is never handed out again once it has     *)
(* been used MaxReuse times.                                               *)
WornOutLeaves == \A x \in InPool \cap tracked : execCount[x] < MaxReuse

(* The timeout of one call never reaches the next call on that runtime: a  *)
(* runtime in the channel carries no pending interrupt.                    *)
PooledClean == InPool \cap interrupted = {}

(* Shutdown closes the channel only after every call that was registered   *)
(* before it began has returned, and after the health checker has stopped. *)
DrainsEarlyCalls ==
  stage \in {"drained", "closed"} =>
    (\A r \in early : pc[r] = "done") /\ checker.at = "stopped"

(* Every call that was admitted is answered: the waits for a slot, for a   *)
(* runtime and for the code are all bounded, even when code never ends.    *)
CallsAnswered == \A r \in Request : pc[r] = "entered" ~> (pc[r] = "done" \/ crashed)

(* Shutdown comes to an end whatever the calls and their code do.          *)
ShutdownCompletes == stage = "draining" ~> stage = "closed"

(* executor_helpers.go:557-567: an interrupt on timeout keeps the code from *)
(* touching the runtime's state afterwards: no two goroutines on a runtime. *)
OneGoroutine ==
  \A r, s \in Request : runsOn[r] = runsOn[s] /\ runsOn[r] # NoRuntime => r = s

(* executor_helpers.go:298: a runtime is checked out at most MaxReuse times *)
(* and destroyed when it reaches the limit.                                 *)
ReuseBounded == \A x \in Runtime : uses[x] <= MaxReuse

(* executor_helpers.go:2520-2545: a graceful Shutdown: no goroutine of the  *)
(* executor sends on the channel after it is closed and so ends the process.*)
NoCrash == ~crashed
=============================================================================
