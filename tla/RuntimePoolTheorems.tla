------------------------- MODULE RuntimePoolTheorems -------------------------
(* Ownership, counting, shutdown and the theorems about RuntimePool, for  *)
(* every number of calls, runtimes and limits.                             *)
EXTENDS RuntimePool, FiniteSetTheorems, SequenceTheorems, TLAPS

(* What pc says of a call: it holds a runtime exactly from checkout to     *)
(* return, and a call registered before Shutdown stays registered.         *)
Calls ==
  \A r \in Request :
    /\ held[r] # NoRuntime <=> pc[r] \in Holding
    /\ r \in temporary => pc[r] \in Holding
    /\ r \in early => pc[r] \in InFlight \cup {"done"}

(* The state NewJSExecutor leaves behind is well typed.                     *)
LEMMA InitTyped == Init => TypeRange
<1> SUFFICES ASSUME Init PROVE TypeRange
  OBVIOUS
<1>1. runtimePool \in Seq(Runtime) /\ currentPoolSize \in Int
  BY PoolAssumption, SMTT(30) DEF Init
<1>2. tracked \subseteq Runtime
  BY PoolAssumption DEF Init, InPool
<1>3. checker \in Record
  BY DEF Init, Resting, Record
<1>4. pc \in [Request -> PC] /\ answer \in [Request -> {"none", "result", "error"}]
  BY DEF Init, PC
<1>5. /\ held \in [Request -> Runtime \cup {NoRuntime}]
      /\ runsOn \in [Request -> Runtime \cup {NoRuntime}]
  BY DEF Init
<1>6. /\ execCount \in [Runtime -> Nat] /\ errCount \in [Runtime -> Nat]
      /\ uses \in [Runtime -> Nat]
  BY DEF Init
<1>7. /\ temporary \in SUBSET Request /\ early \in SUBSET Request
      /\ interrupted \in SUBSET Runtime /\ replenishing \in SUBSET Runtime
  BY DEF Init
<1>8. /\ semaphore \in Int /\ wg \in Int /\ drift \in Int
      /\ ticks \in Nat /\ replenishPending \in Nat
  BY DEF Init
<1>9. crashed \in BOOLEAN /\ stage \in {"open", "draining", "drained", "closed"}
  BY DEF Init
<1> QED
  BY <1>1, <1>2, <1>3, <1>4, <1>5, <1>6, <1>7, <1>8, <1>9 DEF TypeRange

(* Replacing health entries keeps the map and its counters typed.           *)
LEMMA RetrackTyped ==
  ASSUME TypeRange, NEW X \in SUBSET Runtime, NEW Y \in SUBSET Runtime, Retrack(X, Y)
  PROVE  tracked' \in SUBSET Runtime /\ execCount' \in [Runtime -> Nat]
         /\ errCount' \in [Runtime -> Nat]
BY DEF TypeRange, Retrack

(* New runtimes keep the flags and the ghost uses typed.                    *)
LEMMA MakeTyped ==
  ASSUME TypeRange, NEW X \in SUBSET Runtime, Make(X)
  PROVE  interrupted' \in SUBSET Runtime /\ uses' \in [Runtime -> Nat]
BY DEF TypeRange, Make

(* A push keeps the channel a sequence of runtimes.                         *)
LEMMA PushTyped ==
  ASSUME TypeRange, NEW x \in Runtime, runtimePool' = Append(runtimePool, x)
  PROVE  runtimePool' \in Seq(Runtime)
BY DEF TypeRange

(* A call past its checkout does hold a runtime.                            *)
LEMMA HeldTyped ==
  ASSUME TypeRange, Calls, NEW r \in Request, pc[r] \in Holding
  PROVE  held[r] \in Runtime
BY DEF TypeRange, Calls

(* Every step of the executor keeps the types.                              *)
LEMMA NextTyped == TypeRange /\ Calls /\ [Next]_vars => TypeRange'
<1> SUFFICES ASSUME TypeRange, Calls, [Next]_vars PROVE TypeRange'
  OBVIOUS
<1> USE DEF Goto, PC
<1> USE DEF reqVars, poolVars, healthVars, limitVars, supplyVars, checkVars
<1>1. ASSUME NEW r \in Request, Enter(r) PROVE TypeRange'
  BY <1>1 DEF Enter, TypeRange
<1>2. ASSUME NEW r \in Request, Refuse(r) PROVE TypeRange'
  BY <1>2 DEF Refuse, TypeRange
<1>3. ASSUME NEW r \in Request, Register(r) PROVE TypeRange'
  BY <1>3 DEF Register, TypeRange
<1>4. ASSUME NEW r \in Request, GiveUp(r) PROVE TypeRange'
  BY <1>4 DEF GiveUp, TypeRange
<1>5. ASSUME NEW r \in Request, AcquireSlot(r) PROVE TypeRange'
  BY <1>5 DEF AcquireSlot, TypeRange
<1>6. ASSUME NEW r \in Request, EndLoop(r) PROVE TypeRange'
  BY <1>6 DEF EndLoop, TypeRange
<1>7. ASSUME NEW r \in Request, Leave(r) PROVE TypeRange'
  BY <1>7 DEF Leave, TypeRange
<1>8. ASSUME NEW r \in Request, Checkout(r) PROVE TypeRange'
  <2>1. Head(runtimePool) \in Runtime /\ Tail(runtimePool) \in Seq(Runtime)
    BY <1>8 DEF Checkout, TypeRange
  <2>2. execCount' \in [Runtime -> Nat] /\ uses' \in [Runtime -> Nat]
    BY <1>8, <2>1, SMTT(30) DEF Checkout, TypeRange
  <2> QED
    BY <1>8, <2>1, <2>2 DEF Checkout, TypeRange
<1>9. ASSUME NEW r \in Request, CheckoutTemporary(r) PROVE TypeRange'
  BY <1>9 DEF CheckoutTemporary, Fresh, TypeRange
<1>10. ASSUME NEW r \in Request, CheckoutFail(r) PROVE TypeRange'
  BY <1>10 DEF CheckoutFail, TypeRange
<1>11. ASSUME NEW r \in Request, CompileFail(r) PROVE TypeRange'
  BY <1>11 DEF CompileFail, TypeRange
<1>12. ASSUME NEW r \in Request, StartRun(r) PROVE TypeRange'
  BY <1>12 DEF StartRun, TypeRange
<1>13. ASSUME NEW r \in Request, CodeEnds(r) PROVE TypeRange'
  BY <1>13 DEF CodeEnds, GoroutineEnds, TypeRange
<1>14. ASSUME NEW r \in Request, CodeInterrupted(r) PROVE TypeRange'
  BY <1>14 DEF CodeInterrupted, GoroutineEnds, TypeRange
<1>15. ASSUME NEW r \in Request, Answered(r) PROVE TypeRange'
  <2>1. pc[r] \in Holding
    BY <1>15 DEF Answered, Holding
  <2>2. held[r] \in Runtime
    BY <2>1, HeldTyped
  <2>3. errCount' \in [Runtime -> Nat]
    BY <1>15, <2>2, SMTT(30) DEF Answered, CountError, TypeRange
  <2> QED
    BY <1>15, <2>3 DEF Answered, TypeRange
<1>16. ASSUME NEW r \in Request, TimedOut(r) PROVE TypeRange'
  <2>1. pc[r] \in Holding
    BY <1>16 DEF TimedOut, Holding
  <2>2. held[r] \in Runtime
    BY <2>1, HeldTyped
  <2>3. errCount' \in [Runtime -> Nat] /\ interrupted' \in SUBSET Runtime
    BY <1>16, <2>2 DEF TimedOut, CountError, TypeRange
  <2> QED
    BY <1>16, <2>3 DEF TimedOut, TypeRange
<1>17. ASSUME NEW r \in Request, ReturnDestroy(r) PROVE TypeRange'
  <2>1. pc[r] \in Holding
    BY <1>17 DEF ReturnDestroy, Holding
  <2>2. held[r] \in Runtime
    BY <2>1, HeldTyped
  <2>3. tracked' \in SUBSET Runtime /\ execCount' \in [Runtime -> Nat]
        /\ errCount' \in [Runtime -> Nat]
    BY <1>17, <2>2, RetrackTyped DEF ReturnDestroy
  <2> QED
    BY <1>17, <2>3 DEF ReturnDestroy, TypeRange
<1>18. ASSUME NEW r \in Request, ReturnPush(r) PROVE TypeRange'
  <2>1. pc[r] \in Holding
    BY <1>18 DEF ReturnPush, Holding
  <2>2. held[r] \in Runtime
    BY <2>1, HeldTyped
  <2>3. runtimePool' \in Seq(Runtime)
    BY <1>18, <2>2, PushTyped DEF ReturnPush
  <2> QED
    BY <1>18, <2>3 DEF ReturnPush, TypeRange
<1>19. ASSUME NEW r \in Request, ReturnDrop(r) PROVE TypeRange'
  <2>1. pc[r] \in Holding
    BY <1>19 DEF ReturnDrop, Holding
  <2>2. held[r] \in Runtime
    BY <2>1, HeldTyped
  <2>3. CASE r \in temporary
    BY <1>19, <2>3 DEF ReturnDrop, TypeRange
  <2>4. CASE r \notin temporary
    <3>1. tracked' \in SUBSET Runtime /\ execCount' \in [Runtime -> Nat]
        /\ errCount' \in [Runtime -> Nat]
      BY <1>19, <2>2, <2>4, RetrackTyped DEF ReturnDrop
    <3> QED
      BY <1>19, <2>4, <3>1 DEF ReturnDrop, TypeRange
  <2> QED
    BY <2>3, <2>4
<1>20. ASSUME NEW r \in Request, ReturnClosed(r) PROVE TypeRange'
  BY <1>20 DEF ReturnClosed, TypeRange
<1>21. ASSUME ReplenishSkip PROVE TypeRange'
  BY <1>21 DEF ReplenishSkip, TypeRange
<1>22. ASSUME ReplenishMake PROVE TypeRange'
  <2>1. PICK x \in Fresh : replenishing' = replenishing \cup {x} /\ Retrack({}, {x}) /\ Make({x})
    BY <1>22 DEF ReplenishMake
  <2>2. x \in Runtime
    BY DEF Fresh
  <2>3. tracked' \in SUBSET Runtime /\ execCount' \in [Runtime -> Nat]
        /\ errCount' \in [Runtime -> Nat]
        /\ interrupted' \in SUBSET Runtime /\ uses' \in [Runtime -> Nat]
    BY <2>1, <2>2, RetrackTyped, MakeTyped
  <2> QED
    BY <1>22, <2>1, <2>2, <2>3 DEF ReplenishMake, TypeRange
<1>23. ASSUME ReplenishPush PROVE TypeRange'
  <2>1. PICK x \in replenishing :
          /\ replenishing' = replenishing \ {x}
          /\ \/ UNCHANGED <<runtimePool, healthVars>>
             \/ runtimePool' = Append(runtimePool, x) /\ UNCHANGED healthVars
             \/ Retrack({x}, {}) /\ UNCHANGED runtimePool
    BY <1>23 DEF ReplenishPush
  <2>2. x \in Runtime
    BY <2>1 DEF TypeRange
  <2>3. currentPoolSize' \in Int
    BY <1>23 DEF ReplenishPush, TypeRange
  <2>4. crashed' \in BOOLEAN
    BY <1>23 DEF ReplenishPush, TypeRange
  <2>5. CASE UNCHANGED <<runtimePool, healthVars>>
    BY <1>23, <2>1, <2>3, <2>4, <2>5 DEF ReplenishPush, TypeRange
  <2>6. CASE runtimePool' = Append(runtimePool, x) /\ UNCHANGED healthVars
    <3>1. runtimePool' \in Seq(Runtime)
      BY <2>2, <2>6, PushTyped
    <3> QED
      BY <1>23, <2>1, <2>3, <2>4, <2>6, <3>1 DEF ReplenishPush, TypeRange
  <2>7. CASE Retrack({x}, {}) /\ UNCHANGED runtimePool
    <3>1. tracked' \in SUBSET Runtime /\ execCount' \in [Runtime -> Nat]
        /\ errCount' \in [Runtime -> Nat]
      BY <2>2, <2>7, RetrackTyped
    <3> QED
      BY <1>23, <2>1, <2>3, <2>4, <2>7, <3>1 DEF ReplenishPush, TypeRange
  <2> QED
    BY <2>1, <2>5, <2>6, <2>7
<1>24. ASSUME CheckerTick PROVE TypeRange'
  <2>1. PICK idle \in SUBSET Runtime :
          checker' = [at |-> "fix", problems |-> {x \in tracked : IsProblem(x)}, idle |-> idle,
                      size |-> currentPoolSize, avail |-> Len(runtimePool), made |-> {}]
    BY <1>24 DEF CheckerTick, TypeRange
  <2>2. currentPoolSize \in Int /\ Len(runtimePool) \in Nat /\ tracked \subseteq Runtime
    BY DEF TypeRange
  <2>3. checker' \in Record
    BY <2>1, <2>2 DEF Record
  <2> QED
    BY <1>24, <2>3 DEF CheckerTick, TypeRange
<1>25. ASSUME CheckerRebuild PROVE TypeRange'
  <2>1. PICK x \in checker.problems, y \in Fresh :
          /\ Retrack({x}, {y}) /\ Make({y})
          /\ checker' = [checker EXCEPT !.at = "rebuilt", !.problems = @ \ {x}, !.made = {y}]
    BY <1>25 DEF CheckerRebuild
  <2>2. x \in Runtime /\ y \in Runtime
    BY DEF Fresh, Record, TypeRange
  <2>3. checker' \in Record
    BY <2>1, <2>2 DEF Record, TypeRange
  <2>4. tracked' \in SUBSET Runtime /\ execCount' \in [Runtime -> Nat]
        /\ errCount' \in [Runtime -> Nat]
        /\ interrupted' \in SUBSET Runtime /\ uses' \in [Runtime -> Nat]
    BY <2>1, <2>2, RetrackTyped, MakeTyped
  <2> QED
    BY <1>25, <2>3, <2>4 DEF CheckerRebuild, TypeRange
<1>26. ASSUME CheckerRebuildFail PROVE TypeRange'
  <2>1. checker' \in Record
    <3>1. PICK x \in checker.problems : checker' = [checker EXCEPT !.problems = @ \ {x}]
      BY <1>26 DEF CheckerRebuildFail
    <3>2. checker \in Record
      BY DEF TypeRange
    <3> QED
      BY <3>1, <3>2 DEF Record
  <2> QED
    BY <1>26, <2>1 DEF CheckerRebuildFail, TypeRange
<1>27. ASSUME CheckerRebuildPush PROVE TypeRange'
  <2>1. checker' \in Record
    BY <1>27 DEF CheckerRebuildPush, Record, TypeRange
  <2>2. PICK y \in checker.made : \/ runtimePool' = Append(runtimePool, y) /\ drift' = drift + 1
                                  \/ UNCHANGED <<runtimePool, drift>>
    BY <1>27 DEF CheckerRebuildPush
  <2>3. y \in Runtime
    BY DEF Record, TypeRange
  <2>4. runtimePool' \in Seq(Runtime)
    <3>1. CASE runtimePool' = Append(runtimePool, y)
      BY <2>3, <3>1, PushTyped
    <3> QED
      BY <2>2, <3>1 DEF TypeRange
  <2> QED
    BY <1>27, <2>1, <2>2, <2>4, SMTT(30) DEF CheckerRebuildPush, TypeRange
<1>28. ASSUME CheckerShrink PROVE TypeRange'
  <2>1. PICK X \in SUBSET checker.idle :
          /\ Retrack(X, {})
          /\ currentPoolSize' = currentPoolSize - Cardinality(X)
          /\ drift' = drift + Cardinality(X)
    BY <1>28 DEF CheckerShrink
  <2>2. X \in SUBSET Runtime
    BY DEF Record, TypeRange
  <2>3. Cardinality(X) \in Nat
    BY <2>2, PoolAssumption, FS_Subset, FS_CardinalityType
  <2>4. checker' \in Record
    BY <1>28 DEF CheckerShrink, Record, TypeRange
  <2>5. tracked' \in SUBSET Runtime /\ execCount' \in [Runtime -> Nat]
        /\ errCount' \in [Runtime -> Nat]
    BY <2>1, <2>2, RetrackTyped
  <2>6. currentPoolSize' \in Int /\ drift' \in Int
    BY <2>1, <2>3 DEF TypeRange
  <2> QED
    BY <1>28, <2>4, <2>5, <2>6 DEF CheckerShrink, TypeRange
<1>29. ASSUME CheckerNoShrink PROVE TypeRange'
  <2>1. checker' \in Record
    BY <1>29 DEF CheckerNoShrink, Record, Resting, TypeRange
  <2> QED
    BY <1>29, <2>1 DEF CheckerNoShrink, TypeRange
<1>30. ASSUME CheckerExpand PROVE TypeRange'
  <2>1. PICK Y \in SUBSET Fresh :
          /\ Retrack({}, Y) /\ Make(Y)
          /\ checker' = [checker EXCEPT !.at = "expanding", !.made = Y]
    BY <1>30 DEF CheckerExpand
  <2>2. Y \in SUBSET Runtime
    BY DEF Fresh
  <2>3. checker' \in Record
    BY <2>1, <2>2 DEF Record, TypeRange
  <2>4. tracked' \in SUBSET Runtime /\ execCount' \in [Runtime -> Nat]
        /\ errCount' \in [Runtime -> Nat]
        /\ interrupted' \in SUBSET Runtime /\ uses' \in [Runtime -> Nat]
    BY <2>1, <2>2, RetrackTyped, MakeTyped
  <2> QED
    BY <1>30, <2>3, <2>4 DEF CheckerExpand, TypeRange
<1>31. ASSUME CheckerExpandPush PROVE TypeRange'
  <2>1. PICK y \in checker.made : /\ runtimePool' = Append(runtimePool, y)
                                  /\ checker' = [checker EXCEPT !.made = @ \ {y}]
    BY <1>31 DEF CheckerExpandPush
  <2>2. y \in Runtime
    BY DEF Record, TypeRange
  <2>3. checker' \in Record
    BY <2>1 DEF Record, TypeRange
  <2>4. runtimePool' \in Seq(Runtime)
    BY <2>1, <2>2, PushTyped
  <2> QED
    BY <1>31, <2>3, <2>4, SMTT(30) DEF CheckerExpandPush, TypeRange
<1>32. ASSUME CheckerRest PROVE TypeRange'
  <2>1. checker' \in Record
    BY <1>32 DEF CheckerRest, Record, Resting, TypeRange
  <2> QED
    BY <1>32, <2>1 DEF CheckerRest, TypeRange
<1>33. ASSUME CheckerStop PROVE TypeRange'
  <2>1. checker' \in Record
    BY <1>33 DEF CheckerStop, Record, Resting, TypeRange
  <2> QED
    BY <1>33, <2>1 DEF CheckerStop, TypeRange
<1>34. ASSUME CloseShutdown PROVE TypeRange'
  BY <1>34 DEF CloseShutdown, TypeRange
<1>35. ASSUME WaitReturns PROVE TypeRange'
  BY <1>35 DEF WaitReturns, TypeRange
<1>36. ASSUME ClosePool PROVE TypeRange'
  BY <1>36 DEF ClosePool, TypeRange
<1>37. ASSUME Ended PROVE TypeRange'
  BY <1>37 DEF Ended, vars, TypeRange
<1>38. CASE UNCHANGED vars
  BY <1>38 DEF vars, TypeRange
<1> QED
  BY <1>1, <1>2, <1>3, <1>4, <1>5, <1>6, <1>7, <1>8, <1>9, <1>10, <1>11, <1>12, <1>13,
     <1>14, <1>15, <1>16, <1>17, <1>18, <1>19, <1>20, <1>21, <1>22, <1>23, <1>24, <1>25,
     <1>26, <1>27, <1>28, <1>29, <1>30, <1>31, <1>32, <1>33, <1>34, <1>35, <1>36, <1>37,
     <1>38 DEF Next, Advance, Replenish, Check, Shutdown
(* The channel holds no runtime twice: the first part of OneOwner. *)
NoRepeat == \A i, j \in DOMAIN runtimePool : runtimePool[i] = runtimePool[j] => i = j

(* Pushing a runtime that is not in the channel keeps it free of repeats.   *)
LEMMA PushOwned ==
  ASSUME TypeRange, NoRepeat, NEW x \in Runtime, x \notin InPool,
         runtimePool' = Append(runtimePool, x)
  PROVE  InPool' = InPool \cup {x} /\ NoRepeat'
<1>1. runtimePool \in Seq(Runtime)
  BY DEF TypeRange
<1> DEFINE n == Len(runtimePool)
<1>2. /\ n \in Nat /\ DOMAIN runtimePool = 1..n /\ DOMAIN runtimePool' = 1..(n + 1)
      /\ \A i \in 1..n : runtimePool'[i] = runtimePool[i]
      /\ runtimePool'[n + 1] = x
  BY <1>1
<1> HIDE DEF n
<1>3. \A i \in 1..n : runtimePool[i] \in InPool
  BY <1>2 DEF InPool
<1>4. InPool' = InPool \cup {x}
  BY <1>2 DEF InPool
<1>5. NoRepeat'
  BY <1>2, <1>3 DEF NoRepeat
<1> QED
  BY <1>4, <1>5

(* The runtime at the head leaves the channel when it is taken.             *)
LEMMA PopOwned ==
  ASSUME TypeRange, NoRepeat, runtimePool # <<>>, runtimePool' = Tail(runtimePool)
  PROVE  /\ Head(runtimePool) \in InPool
         /\ InPool' = InPool \ {Head(runtimePool)}
         /\ NoRepeat'
<1>1. runtimePool \in Seq(Runtime)
  BY DEF TypeRange
<1> DEFINE n == Len(runtimePool)
<1>2. /\ n \in Nat \ {0} /\ DOMAIN runtimePool = 1..n /\ DOMAIN runtimePool' = 1..(n - 1)
      /\ \A i \in 1..(n - 1) : runtimePool'[i] = runtimePool[i + 1]
      /\ Head(runtimePool) = runtimePool[1]
  BY <1>1
<1> HIDE DEF n
<1>3. Head(runtimePool) \in InPool
  BY <1>2 DEF InPool
<1>4. ASSUME NEW y \in InPool' PROVE y \in InPool \ {Head(runtimePool)}
  <2>1. PICK i \in 1..(n - 1) : y = runtimePool[i + 1]
    BY <1>2, <1>4 DEF InPool
  <2>2. i + 1 \in 1..n /\ i + 1 # 1
    BY <1>2
  <2> QED
    BY <1>2, <2>1, <2>2 DEF InPool, NoRepeat
<1>5. ASSUME NEW y \in InPool \ {Head(runtimePool)} PROVE y \in InPool'
  <2>1. PICK i \in 1..n : y = runtimePool[i]
    BY <1>2, <1>5 DEF InPool
  <2>2. i - 1 \in 1..(n - 1) /\ (i - 1) + 1 = i
    BY <1>2, <1>5, <2>1
  <2> QED
    BY <1>2, <2>1, <2>2 DEF InPool
<1>6. NoRepeat'
  <2>1. SUFFICES ASSUME NEW i \in 1..(n - 1), NEW j \in 1..(n - 1), runtimePool'[i] = runtimePool'[j]
                 PROVE  i = j
    BY <1>2 DEF NoRepeat
  <2>2. i + 1 \in 1..n /\ j + 1 \in 1..n /\ runtimePool[i + 1] = runtimePool[j + 1]
    BY <1>2, <2>1
  <2>3. i + 1 = j + 1
    BY <1>2, <2>2 DEF NoRepeat
  <2> QED
    BY <2>3
<1> QED
  BY <1>3, <1>4, <1>5, <1>6

(* A new runtime is in nobody's hands.                                      *)
LEMMA FreshFree ==
  ASSUME NEW x \in Fresh
  PROVE  /\ x \in Runtime
         /\ x \notin InPool \cup tracked \cup replenishing \cup checker.made
         /\ \A r \in Request : held[r] # x
BY DEF Fresh

(***************************************************************************)
(* Calls.                                                                  *)
(***************************************************************************)

(* No call has begun.                                                       *)
LEMMA InitCalls == Init => Calls
BY PoolAssumption DEF Init, Calls, Holding

(* Every step keeps Calls: checkout takes a runtime, the return gives it up. *)
LEMMA NextCalls == TypeRange /\ Calls /\ [Next]_vars => Calls'
<1> SUFFICES ASSUME TypeRange, Calls, [Next]_vars PROVE Calls'
  OBVIOUS
<1> USE DEF Goto, Holding, Slotted, InFlight
<1> USE DEF reqVars, poolVars, healthVars, limitVars, supplyVars, checkVars
<1>1. ASSUME NEW r \in Request, Enter(r) PROVE Calls'
  BY <1>1 DEF Enter, Calls, TypeRange
<1>2. ASSUME NEW r \in Request, Refuse(r) PROVE Calls'
  BY <1>2 DEF Refuse, Calls, TypeRange
<1>3. ASSUME NEW r \in Request, Register(r) PROVE Calls'
  BY <1>3 DEF Register, Calls, TypeRange
<1>4. ASSUME NEW r \in Request, GiveUp(r) PROVE Calls'
  BY <1>4 DEF GiveUp, Calls, TypeRange
<1>5. ASSUME NEW r \in Request, AcquireSlot(r) PROVE Calls'
  BY <1>5 DEF AcquireSlot, Calls, TypeRange
<1>6. ASSUME NEW r \in Request, EndLoop(r) PROVE Calls'
  BY <1>6 DEF EndLoop, Calls, TypeRange
<1>7. ASSUME NEW r \in Request, Leave(r) PROVE Calls'
  BY <1>7 DEF Leave, Calls, TypeRange
<1>8. ASSUME NEW r \in Request, Checkout(r) PROVE Calls'
  <2>1. Head(runtimePool) \in Runtime
    BY <1>8 DEF Checkout, TypeRange
  <2> QED
    BY <1>8, <2>1, PoolAssumption DEF Checkout, Calls, TypeRange
<1>9. ASSUME NEW r \in Request, CheckoutTemporary(r) PROVE Calls'
  <2>1. PICK x \in Fresh : held' = [held EXCEPT ![r] = x]
    BY <1>9 DEF CheckoutTemporary
  <2>2. x # NoRuntime
    BY <2>1, FreshFree, PoolAssumption
  <2> QED
    BY <1>9, <2>1, <2>2 DEF CheckoutTemporary, Calls, TypeRange
<1>10. ASSUME NEW r \in Request, CheckoutFail(r) PROVE Calls'
  BY <1>10 DEF CheckoutFail, Calls, TypeRange
<1>11. ASSUME NEW r \in Request, CompileFail(r) PROVE Calls'
  BY <1>11 DEF CompileFail, Calls, TypeRange
<1>12. ASSUME NEW r \in Request, StartRun(r) PROVE Calls'
  BY <1>12 DEF StartRun, Calls, TypeRange
<1>13. ASSUME NEW r \in Request, CodeEnds(r) PROVE Calls'
  BY <1>13 DEF CodeEnds, Calls, TypeRange, GoroutineEnds
<1>14. ASSUME NEW r \in Request, CodeInterrupted(r) PROVE Calls'
  BY <1>14 DEF CodeInterrupted, Calls, TypeRange, GoroutineEnds
<1>15. ASSUME NEW r \in Request, Answered(r) PROVE Calls'
  BY <1>15 DEF Answered, Calls, TypeRange
<1>16. ASSUME NEW r \in Request, TimedOut(r) PROVE Calls'
  BY <1>16 DEF TimedOut, Calls, TypeRange
<1>17. ASSUME NEW r \in Request, ReturnDestroy(r) PROVE Calls'
  BY <1>17 DEF ReturnDestroy, Calls, TypeRange, WornOut
<1>18. ASSUME NEW r \in Request, ReturnPush(r) PROVE Calls'
  BY <1>18 DEF ReturnPush, Calls, TypeRange
<1>19. ASSUME NEW r \in Request, ReturnDrop(r) PROVE Calls'
  BY <1>19 DEF ReturnDrop, Calls, TypeRange
<1>20. ASSUME NEW r \in Request, ReturnClosed(r) PROVE Calls'
  BY <1>20 DEF ReturnClosed, Calls, TypeRange
<1>21. ASSUME ReplenishSkip PROVE Calls'
  BY <1>21 DEF ReplenishSkip, Calls, TypeRange
<1>22. ASSUME ReplenishMake PROVE Calls'
  BY <1>22 DEF ReplenishMake, Calls, TypeRange
<1>23. ASSUME ReplenishPush PROVE Calls'
  BY <1>23 DEF ReplenishPush, Calls, TypeRange
<1>24. ASSUME CheckerTick PROVE Calls'
  BY <1>24 DEF CheckerTick, Calls, TypeRange
<1>25. ASSUME CheckerRebuild PROVE Calls'
  BY <1>25 DEF CheckerRebuild, Calls, TypeRange
<1>26. ASSUME CheckerRebuildFail PROVE Calls'
  BY <1>26 DEF CheckerRebuildFail, Calls, TypeRange
<1>27. ASSUME CheckerRebuildPush PROVE Calls'
  BY <1>27 DEF CheckerRebuildPush, Calls, TypeRange
<1>28. ASSUME CheckerShrink PROVE Calls'
  BY <1>28 DEF CheckerShrink, Calls, TypeRange
<1>29. ASSUME CheckerNoShrink PROVE Calls'
  BY <1>29 DEF CheckerNoShrink, Calls, TypeRange
<1>30. ASSUME CheckerExpand PROVE Calls'
  BY <1>30 DEF CheckerExpand, Calls, TypeRange
<1>31. ASSUME CheckerExpandPush PROVE Calls'
  BY <1>31 DEF CheckerExpandPush, Calls, TypeRange
<1>32. ASSUME CheckerRest PROVE Calls'
  BY <1>32 DEF CheckerRest, Calls, TypeRange
<1>33. ASSUME CheckerStop PROVE Calls'
  BY <1>33 DEF CheckerStop, Calls, TypeRange
<1>34. ASSUME CloseShutdown PROVE Calls'
  BY <1>34 DEF CloseShutdown, Calls, TypeRange
<1>35. ASSUME WaitReturns PROVE Calls'
  BY <1>35 DEF WaitReturns, Calls, TypeRange
<1>36. ASSUME ClosePool PROVE Calls'
  BY <1>36 DEF ClosePool, Calls, TypeRange
<1>37. ASSUME Ended PROVE Calls'
  BY <1>37 DEF Ended, Calls, TypeRange, vars
<1>38. CASE UNCHANGED vars
  BY <1>38 DEF vars, Calls
<1> QED
  BY <1>1, <1>2, <1>3, <1>4, <1>5, <1>6, <1>7, <1>8, <1>9, <1>10, <1>11, <1>12, <1>13,
     <1>14, <1>15, <1>16, <1>17, <1>18, <1>19, <1>20, <1>21, <1>22, <1>23, <1>24, <1>25,
     <1>26, <1>27, <1>28, <1>29, <1>30, <1>31, <1>32, <1>33, <1>34, <1>35, <1>36, <1>37,
     <1>38 DEF Next, Advance, Replenish, Check, Shutdown

(***************************************************************************)
(* OneOwner.                                                               *)
(***************************************************************************)

(* initRuntimePool makes distinct runtimes.                                 *)
LEMMA InitOneOwner == Init => OneOwner
<1> SUFFICES ASSUME Init PROVE OneOwner
  OBVIOUS
<1>1. DOMAIN runtimePool = 1..PoolSize /\ InPool \subseteq Runtime
  BY DEF Init, InPool
<1>2. checker.made = {} /\ replenishing = {}
  BY DEF Init, Resting
<1> QED
  BY <1>1, <1>2, PoolAssumption DEF Init, OneOwner

(* What the channel holds are runtimes.                                     *)
LEMMA PoolTyped == TypeRange => /\ InPool \subseteq Runtime
                               /\ replenishing \subseteq Runtime
                               /\ checker.made \subseteq Runtime
BY DEF TypeRange, InPool, Record

(* Every push, pop, drop and creation keeps OneOwner.                       *)
LEMMA NextOneOwner == TypeRange /\ Calls /\ OneOwner /\ [Next]_vars => OneOwner'
<1> SUFFICES ASSUME TypeRange, Calls, OneOwner, [Next]_vars PROVE OneOwner'
  OBVIOUS
<1>0. /\ NoRepeat
      /\ InPool \subseteq Runtime /\ replenishing \subseteq Runtime /\ checker.made \subseteq Runtime
      /\ NoRuntime \notin Runtime
      /\ held \in [Request -> Runtime \cup {NoRuntime}] /\ checker \in Record
  BY PoolTyped, PoolAssumption DEF OneOwner, NoRepeat, TypeRange
<1> USE DEF reqVars, poolVars, healthVars, limitVars, supplyVars, checkVars
<1>1. ASSUME NEW r \in Request, Enter(r) PROVE OneOwner'
  BY <1>1 DEF Enter, OneOwner, InPool
<1>2. ASSUME NEW r \in Request, Refuse(r) PROVE OneOwner'
  BY <1>2 DEF Refuse, OneOwner, InPool
<1>3. ASSUME NEW r \in Request, Register(r) PROVE OneOwner'
  BY <1>3 DEF Register, OneOwner, InPool
<1>4. ASSUME NEW r \in Request, GiveUp(r) PROVE OneOwner'
  BY <1>4 DEF GiveUp, OneOwner, InPool
<1>5. ASSUME NEW r \in Request, AcquireSlot(r) PROVE OneOwner'
  BY <1>5 DEF AcquireSlot, OneOwner, InPool
<1>6. ASSUME NEW r \in Request, EndLoop(r) PROVE OneOwner'
  BY <1>6 DEF EndLoop, OneOwner, InPool
<1>7. ASSUME NEW r \in Request, Leave(r) PROVE OneOwner'
  BY <1>7 DEF Leave, OneOwner, InPool
<1>8. ASSUME NEW r \in Request, Checkout(r) PROVE OneOwner'
  <2>1. /\ Head(runtimePool) \in InPool
        /\ InPool' = InPool \ {Head(runtimePool)}
        /\ NoRepeat'
    BY <1>8, <1>0, PopOwned DEF Checkout
  <2> QED
    BY <1>8, <1>0, <2>1 DEF Checkout, OneOwner, NoRepeat
<1>9. ASSUME NEW r \in Request, CheckoutTemporary(r) PROVE OneOwner'
  <2>1. PICK x \in Fresh : held' = [held EXCEPT ![r] = x]
    BY <1>9 DEF CheckoutTemporary
  <2>2. /\ x \notin InPool \cup replenishing \cup checker.made
        /\ \A s \in Request : held[s] # x
    BY FreshFree
  <2>3. InPool' = InPool /\ UNCHANGED <<runtimePool, replenishing, checker>>
    BY <1>9 DEF CheckoutTemporary, InPool
  <2> QED
    BY <1>0, <2>1, <2>2, <2>3 DEF OneOwner
<1>10. ASSUME NEW r \in Request, CheckoutFail(r) PROVE OneOwner'
  BY <1>10 DEF CheckoutFail, OneOwner, InPool
<1>11. ASSUME NEW r \in Request, CompileFail(r) PROVE OneOwner'
  BY <1>11 DEF CompileFail, OneOwner, InPool
<1>12. ASSUME NEW r \in Request, StartRun(r) PROVE OneOwner'
  BY <1>12 DEF StartRun, OneOwner, InPool
<1>13. ASSUME NEW r \in Request, CodeEnds(r) PROVE OneOwner'
  BY <1>13 DEF CodeEnds, OneOwner, InPool, GoroutineEnds
<1>14. ASSUME NEW r \in Request, CodeInterrupted(r) PROVE OneOwner'
  BY <1>14 DEF CodeInterrupted, OneOwner, InPool, GoroutineEnds
<1>15. ASSUME NEW r \in Request, Answered(r) PROVE OneOwner'
  BY <1>15 DEF Answered, OneOwner, InPool
<1>16. ASSUME NEW r \in Request, TimedOut(r) PROVE OneOwner'
  BY <1>16 DEF TimedOut, OneOwner, InPool
<1>17. ASSUME NEW r \in Request, ReturnDestroy(r) PROVE OneOwner'
  <2>1. InPool' = InPool /\ UNCHANGED <<runtimePool, replenishing, checker>>
    BY <1>17 DEF ReturnDestroy, InPool
  <2>2. held' = [held EXCEPT ![r] = NoRuntime]
    BY <1>17 DEF ReturnDestroy
  <2> QED
    BY <1>0, <2>1, <2>2 DEF OneOwner
<1>18. ASSUME NEW r \in Request, ReturnPush(r) PROVE OneOwner'
  <2>1. pc[r] \in Holding
    BY <1>18 DEF ReturnPush, Goto, Holding
  <2>2. held[r] \in Runtime
    BY <2>1, HeldTyped
  <2>3. held[r] \notin InPool \cup replenishing \cup checker.made
    BY DEF OneOwner
  <2>4. InPool' = InPool \cup {held[r]} /\ NoRepeat'
    BY <1>18, <1>0, <2>2, <2>3, PushOwned DEF ReturnPush
  <2>5. UNCHANGED <<replenishing, checker>> /\ held' = [held EXCEPT ![r] = NoRuntime]
    BY <1>18 DEF ReturnPush
  <2> QED
    BY <1>0, <2>2, <2>3, <2>4, <2>5 DEF OneOwner, NoRepeat
<1>19. ASSUME NEW r \in Request, ReturnDrop(r) PROVE OneOwner'
  <2>1. InPool' = InPool /\ UNCHANGED <<runtimePool, replenishing, checker>>
    BY <1>19 DEF ReturnDrop, InPool
  <2>2. held' = [held EXCEPT ![r] = NoRuntime]
    BY <1>19 DEF ReturnDrop
  <2> QED
    BY <1>0, <2>1, <2>2 DEF OneOwner
<1>20. ASSUME NEW r \in Request, ReturnClosed(r) PROVE OneOwner'
  <2>1. InPool' = InPool /\ UNCHANGED <<runtimePool, replenishing, checker>>
    BY <1>20 DEF ReturnClosed, InPool
  <2>2. held' = [held EXCEPT ![r] = NoRuntime]
    BY <1>20 DEF ReturnClosed
  <2> QED
    BY <1>0, <2>1, <2>2 DEF OneOwner
<1>21. ASSUME ReplenishSkip PROVE OneOwner'
  BY <1>21 DEF ReplenishSkip, OneOwner, InPool
<1>22. ASSUME ReplenishMake PROVE OneOwner'
  <2>1. PICK x \in Fresh : replenishing' = replenishing \cup {x}
    BY <1>22 DEF ReplenishMake
  <2>2. /\ x \in Runtime
        /\ x \notin InPool \cup replenishing \cup checker.made
        /\ \A s \in Request : held[s] # x
    BY FreshFree
  <2>3. InPool' = InPool /\ UNCHANGED <<runtimePool, held, checker>>
    BY <1>22 DEF ReplenishMake, InPool
  <2> QED
    BY <1>0, <2>1, <2>2, <2>3 DEF OneOwner
<1>23. ASSUME ReplenishPush PROVE OneOwner'
  <2>1. PICK x \in replenishing :
          /\ replenishing' = replenishing \ {x}
          /\ \/ UNCHANGED runtimePool
             \/ runtimePool' = Append(runtimePool, x)
    BY <1>23 DEF ReplenishPush
  <2>2. UNCHANGED <<held, checker>>
    BY <1>23 DEF ReplenishPush
  <2>3. x \in Runtime /\ x \notin InPool \cup checker.made /\ \A s \in Request : held[s] # x
    BY <1>0, <2>1 DEF OneOwner
  <2>4. CASE UNCHANGED runtimePool
    BY <1>0, <2>1, <2>2, <2>4 DEF OneOwner, InPool
  <2>5. CASE runtimePool' = Append(runtimePool, x)
    <3>1. InPool' = InPool \cup {x} /\ NoRepeat'
      BY <1>0, <2>3, <2>5, PushOwned
    <3> QED
      BY <1>0, <2>1, <2>2, <2>3, <3>1 DEF OneOwner, NoRepeat
  <2> QED
    BY <2>1, <2>4, <2>5
<1>24. ASSUME CheckerTick PROVE OneOwner'
  <2>1. checker'.made = {} \/ checker'.made = checker.made
    BY <1>24, <1>0 DEF CheckerTick, Record, Resting
  <2>2. UNCHANGED <<runtimePool, held, replenishing>>
    BY <1>24 DEF CheckerTick
  <2> QED
    BY <1>0, <2>1, <2>2 DEF OneOwner, InPool
<1>25. ASSUME CheckerRebuild PROVE OneOwner'
  <2>1. PICK y \in Fresh : checker'.made = {y}
    BY <1>25, <1>0 DEF CheckerRebuild, Record
  <2>2. /\ y \in Runtime
        /\ y \notin InPool \cup replenishing
        /\ \A s \in Request : held[s] # y
    BY FreshFree
  <2>3. InPool' = InPool /\ UNCHANGED <<runtimePool, held, replenishing>>
    BY <1>25 DEF CheckerRebuild, InPool
  <2> QED
    BY <1>0, <2>1, <2>2, <2>3 DEF OneOwner
<1>26. ASSUME CheckerRebuildFail PROVE OneOwner'
  <2>1. checker'.made = {} \/ checker'.made = checker.made
    BY <1>26, <1>0 DEF CheckerRebuildFail, Record, Resting
  <2>2. UNCHANGED <<runtimePool, held, replenishing>>
    BY <1>26 DEF CheckerRebuildFail
  <2> QED
    BY <1>0, <2>1, <2>2 DEF OneOwner, InPool
<1>27. ASSUME CheckerRebuildPush PROVE OneOwner'
  <2>1. PICK y \in checker.made :
          /\ checker'.made = {}
          /\ \/ UNCHANGED runtimePool
             \/ runtimePool' = Append(runtimePool, y)
    BY <1>27, <1>0 DEF CheckerRebuildPush, Record
  <2>2. UNCHANGED <<held, replenishing>>
    BY <1>27 DEF CheckerRebuildPush
  <2>3. y \in Runtime /\ y \notin InPool \cup replenishing /\ \A s \in Request : held[s] # y
    BY <1>0, <2>1 DEF OneOwner
  <2>4. CASE UNCHANGED runtimePool
    BY <1>0, <2>1, <2>2, <2>4 DEF OneOwner, InPool
  <2>5. CASE runtimePool' = Append(runtimePool, y)
    <3>1. InPool' = InPool \cup {y} /\ NoRepeat'
      BY <1>0, <2>3, <2>5, PushOwned
    <3> QED
      BY <1>0, <2>1, <2>2, <2>3, <3>1 DEF OneOwner, NoRepeat
  <2> QED
    BY <2>1, <2>4, <2>5
<1>28. ASSUME CheckerShrink PROVE OneOwner'
  <2>1. checker'.made = {} \/ checker'.made = checker.made
    BY <1>28, <1>0 DEF CheckerShrink, Record, Resting
  <2>2. UNCHANGED <<runtimePool, held, replenishing>>
    BY <1>28 DEF CheckerShrink
  <2> QED
    BY <1>0, <2>1, <2>2 DEF OneOwner, InPool
<1>29. ASSUME CheckerNoShrink PROVE OneOwner'
  <2>1. checker'.made = {} \/ checker'.made = checker.made
    BY <1>29, <1>0 DEF CheckerNoShrink, Record, Resting
  <2>2. UNCHANGED <<runtimePool, held, replenishing>>
    BY <1>29 DEF CheckerNoShrink
  <2> QED
    BY <1>0, <2>1, <2>2 DEF OneOwner, InPool
<1>30. ASSUME CheckerExpand PROVE OneOwner'
  <2>1. PICK Y \in SUBSET Fresh : checker'.made = Y
    BY <1>30, <1>0 DEF CheckerExpand, Record
  <2>2. \A y \in Y : /\ y \notin InPool \cup replenishing
                     /\ \A s \in Request : held[s] # y
    BY FreshFree
  <2>3. InPool' = InPool /\ UNCHANGED <<runtimePool, held, replenishing>>
    BY <1>30 DEF CheckerExpand, InPool
  <2> QED
    BY <1>0, <2>1, <2>2, <2>3 DEF OneOwner
<1>31. ASSUME CheckerExpandPush PROVE OneOwner'
  <2>1. PICK y \in checker.made :
          /\ checker'.made = checker.made \ {y}
          /\ runtimePool' = Append(runtimePool, y)
    BY <1>31, <1>0 DEF CheckerExpandPush, Record
  <2>2. UNCHANGED <<held, replenishing>>
    BY <1>31 DEF CheckerExpandPush
  <2>3. y \in Runtime /\ y \notin InPool \cup replenishing /\ \A s \in Request : held[s] # y
    BY <1>0, <2>1 DEF OneOwner
  <2>4. CASE UNCHANGED runtimePool
    BY <1>0, <2>1, <2>2, <2>4 DEF OneOwner, InPool
  <2>5. CASE runtimePool' = Append(runtimePool, y)
    <3>1. InPool' = InPool \cup {y} /\ NoRepeat'
      BY <1>0, <2>3, <2>5, PushOwned
    <3> QED
      BY <1>0, <2>1, <2>2, <2>3, <3>1 DEF OneOwner, NoRepeat
  <2> QED
    BY <2>1, <2>4, <2>5
<1>32. ASSUME CheckerRest PROVE OneOwner'
  <2>1. checker'.made = {} \/ checker'.made = checker.made
    BY <1>32, <1>0 DEF CheckerRest, Record, Resting
  <2>2. UNCHANGED <<runtimePool, held, replenishing>>
    BY <1>32 DEF CheckerRest
  <2> QED
    BY <1>0, <2>1, <2>2 DEF OneOwner, InPool
<1>33. ASSUME CheckerStop PROVE OneOwner'
  <2>1. checker'.made = {} \/ checker'.made = checker.made
    BY <1>33, <1>0 DEF CheckerStop, Record, Resting
  <2>2. UNCHANGED <<runtimePool, held, replenishing>>
    BY <1>33 DEF CheckerStop
  <2> QED
    BY <1>0, <2>1, <2>2 DEF OneOwner, InPool
<1>34. ASSUME CloseShutdown PROVE OneOwner'
  BY <1>34 DEF CloseShutdown, OneOwner, InPool
<1>35. ASSUME WaitReturns PROVE OneOwner'
  BY <1>35 DEF WaitReturns, OneOwner, InPool
<1>36. ASSUME ClosePool PROVE OneOwner'
  <2>1. runtimePool' = <<>> /\ InPool' = {} /\ UNCHANGED <<held, replenishing, checker>>
    BY <1>36 DEF ClosePool, InPool
  <2> QED
    BY <1>0, <2>1 DEF OneOwner
<1>37. ASSUME Ended PROVE OneOwner'
  BY <1>37 DEF Ended, OneOwner, InPool, vars
<1>38. CASE UNCHANGED vars
  BY <1>38 DEF vars, OneOwner, InPool
<1> QED
  BY <1>1, <1>2, <1>3, <1>4, <1>5, <1>6, <1>7, <1>8, <1>9, <1>10, <1>11, <1>12, <1>13,
     <1>14, <1>15, <1>16, <1>17, <1>18, <1>19, <1>20, <1>21, <1>22, <1>23, <1>24, <1>25,
     <1>26, <1>27, <1>28, <1>29, <1>30, <1>31, <1>32, <1>33, <1>34, <1>35, <1>36, <1>37,
     <1>38 DEF Next, Advance, Replenish, Check, Shutdown

(***************************************************************************)
(* PooledClean: neither the channel nor anyone about to push to it has a   *)
(* runtime with a pending interrupt.                                       *)
(***************************************************************************)
Clean == (InPool \cup replenishing \cup checker.made) \cap interrupted = {}

(* No runtime of the first pool is interrupted.                             *)
LEMMA InitClean == Init => Clean
BY DEF Init, Clean

(* Every step keeps Clean: only a held runtime is interrupted.              *)
LEMMA NextClean == TypeRange /\ Calls /\ OneOwner /\ Clean /\ [Next]_vars => Clean'
<1> SUFFICES ASSUME TypeRange, Calls, OneOwner, Clean, [Next]_vars PROVE Clean'
  OBVIOUS
<1>0. NoRepeat /\ checker \in Record
  BY DEF OneOwner, NoRepeat, TypeRange
<1> USE DEF reqVars, poolVars, healthVars, limitVars, supplyVars, checkVars
<1>1. ASSUME NEW r \in Request, Enter(r) PROVE Clean'
  BY <1>1 DEF Enter, Clean, InPool
<1>2. ASSUME NEW r \in Request, Refuse(r) PROVE Clean'
  BY <1>2 DEF Refuse, Clean, InPool
<1>3. ASSUME NEW r \in Request, Register(r) PROVE Clean'
  BY <1>3 DEF Register, Clean, InPool
<1>4. ASSUME NEW r \in Request, GiveUp(r) PROVE Clean'
  BY <1>4 DEF GiveUp, Clean, InPool
<1>5. ASSUME NEW r \in Request, AcquireSlot(r) PROVE Clean'
  BY <1>5 DEF AcquireSlot, Clean, InPool
<1>6. ASSUME NEW r \in Request, EndLoop(r) PROVE Clean'
  BY <1>6 DEF EndLoop, Clean, InPool
<1>7. ASSUME NEW r \in Request, Leave(r) PROVE Clean'
  BY <1>7 DEF Leave, Clean, InPool
<1>8. ASSUME NEW r \in Request, Checkout(r) PROVE Clean'
  <2>1. InPool' \subseteq InPool
    BY <1>8, <1>0, PopOwned DEF Checkout
  <2> QED
    BY <1>8, <2>1 DEF Checkout, Clean
<1>9. ASSUME NEW r \in Request, CheckoutTemporary(r) PROVE Clean'
  BY <1>9 DEF CheckoutTemporary, Clean, InPool
<1>10. ASSUME NEW r \in Request, CheckoutFail(r) PROVE Clean'
  BY <1>10 DEF CheckoutFail, Clean, InPool
<1>11. ASSUME NEW r \in Request, CompileFail(r) PROVE Clean'
  BY <1>11 DEF CompileFail, Clean, InPool
<1>12. ASSUME NEW r \in Request, StartRun(r) PROVE Clean'
  BY <1>12 DEF StartRun, Clean, InPool
<1>13. ASSUME NEW r \in Request, CodeEnds(r) PROVE Clean'
  BY <1>13 DEF CodeEnds, Clean, InPool, GoroutineEnds
<1>14. ASSUME NEW r \in Request, CodeInterrupted(r) PROVE Clean'
  BY <1>14 DEF CodeInterrupted, Clean, InPool, GoroutineEnds
<1>15. ASSUME NEW r \in Request, Answered(r) PROVE Clean'
  BY <1>15 DEF Answered, Clean, InPool
<1>16. ASSUME NEW r \in Request, TimedOut(r) PROVE Clean'
  <2>1. held[r] \notin InPool \cup replenishing \cup checker.made
    BY DEF OneOwner
  <2>2. interrupted' = interrupted \cup {held[r]}
    BY <1>16 DEF TimedOut
  <2>3. InPool' = InPool /\ UNCHANGED <<replenishing, checker>>
    BY <1>16 DEF TimedOut, InPool
  <2> QED
    BY <2>1, <2>2, <2>3 DEF Clean
<1>17. ASSUME NEW r \in Request, ReturnDestroy(r) PROVE Clean'
  BY <1>17 DEF ReturnDestroy, Clean, InPool
<1>18. ASSUME NEW r \in Request, ReturnPush(r) PROVE Clean'
  <2>1. pc[r] \in Holding
    BY <1>18 DEF ReturnPush, Goto, Holding
  <2>2. held[r] \in Runtime
    BY <2>1, HeldTyped
  <2>3. held[r] \notin InPool
    BY DEF OneOwner
  <2>4. InPool' = InPool \cup {held[r]}
    BY <1>18, <1>0, <2>2, <2>3, PushOwned DEF ReturnPush
  <2>5. UNCHANGED <<replenishing, checker>> /\ interrupted' = interrupted \ {held[r]}
    BY <1>18 DEF ReturnPush
  <2> QED
    BY <2>4, <2>5 DEF Clean
<1>19. ASSUME NEW r \in Request, ReturnDrop(r) PROVE Clean'
  BY <1>19 DEF ReturnDrop, Clean, InPool
<1>20. ASSUME NEW r \in Request, ReturnClosed(r) PROVE Clean'
  BY <1>20 DEF ReturnClosed, Clean, InPool
<1>21. ASSUME ReplenishSkip PROVE Clean'
  BY <1>21 DEF ReplenishSkip, Clean, InPool
<1>22. ASSUME ReplenishMake PROVE Clean'
  <2>1. PICK x \in Fresh : replenishing' = replenishing \cup {x} /\ Make({x})
    BY <1>22 DEF ReplenishMake
  <2>2. InPool' = InPool /\ UNCHANGED checker
    BY <1>22 DEF ReplenishMake, InPool
  <2> QED
    BY <2>1, <2>2 DEF Clean, Make
<1>23. ASSUME ReplenishPush PROVE Clean'
  <2>1. PICK x \in replenishing :
          /\ replenishing' = replenishing \ {x}
          /\ \/ UNCHANGED runtimePool
             \/ runtimePool' = Append(runtimePool, x)
    BY <1>23 DEF ReplenishPush
  <2>2. UNCHANGED <<interrupted, checker>>
    BY <1>23 DEF ReplenishPush
  <2>3. x \in Runtime /\ x \notin InPool
    BY <2>1 DEF OneOwner, TypeRange
  <2>4. InPool' \subseteq InPool \cup {x}
    BY <1>0, <2>1, <2>3, PushOwned DEF InPool
  <2> QED
    BY <2>1, <2>2, <2>4 DEF Clean
<1>24. ASSUME CheckerTick PROVE Clean'
  <2>1. checker'.made = {} \/ checker'.made = checker.made
    BY <1>24, <1>0 DEF CheckerTick, Record, Resting
  <2>2. UNCHANGED <<runtimePool, interrupted, replenishing>>
    BY <1>24 DEF CheckerTick
  <2> QED
    BY <2>1, <2>2 DEF Clean, InPool
<1>25. ASSUME CheckerRebuild PROVE Clean'
  <2>1. PICK y \in Fresh : checker'.made = {y} /\ Make({y})
    BY <1>25, <1>0 DEF CheckerRebuild, Record
  <2>2. InPool' = InPool /\ UNCHANGED replenishing
    BY <1>25 DEF CheckerRebuild, InPool
  <2> QED
    BY <2>1, <2>2 DEF Clean, Make
<1>26. ASSUME CheckerRebuildFail PROVE Clean'
  <2>1. checker'.made = {} \/ checker'.made = checker.made
    BY <1>26, <1>0 DEF CheckerRebuildFail, Record, Resting
  <2>2. UNCHANGED <<runtimePool, interrupted, replenishing>>
    BY <1>26 DEF CheckerRebuildFail
  <2> QED
    BY <2>1, <2>2 DEF Clean, InPool
<1>27. ASSUME CheckerRebuildPush PROVE Clean'
  <2>1. PICK y \in checker.made :
          /\ checker'.made = {}
          /\ \/ UNCHANGED runtimePool
             \/ runtimePool' = Append(runtimePool, y)
    BY <1>27, <1>0 DEF CheckerRebuildPush, Record
  <2>2. UNCHANGED <<interrupted, replenishing>>
    BY <1>27 DEF CheckerRebuildPush
  <2>3. y \in Runtime /\ y \notin InPool
    BY <1>0, <2>1 DEF OneOwner, Record
  <2>4. InPool' \subseteq InPool \cup {y}
    BY <1>0, <2>1, <2>3, PushOwned DEF InPool
  <2> QED
    BY <2>1, <2>2, <2>4 DEF Clean
<1>28. ASSUME CheckerShrink PROVE Clean'
  <2>1. checker'.made = {} \/ checker'.made = checker.made
    BY <1>28, <1>0 DEF CheckerShrink, Record, Resting
  <2>2. UNCHANGED <<runtimePool, interrupted, replenishing>>
    BY <1>28 DEF CheckerShrink
  <2> QED
    BY <2>1, <2>2 DEF Clean, InPool
<1>29. ASSUME CheckerNoShrink PROVE Clean'
  <2>1. checker'.made = {} \/ checker'.made = checker.made
    BY <1>29, <1>0 DEF CheckerNoShrink, Record, Resting
  <2>2. UNCHANGED <<runtimePool, interrupted, replenishing>>
    BY <1>29 DEF CheckerNoShrink
  <2> QED
    BY <2>1, <2>2 DEF Clean, InPool
<1>30. ASSUME CheckerExpand PROVE Clean'
  <2>1. PICK Y \in SUBSET Fresh : checker'.made = Y /\ Make(Y)
    BY <1>30, <1>0 DEF CheckerExpand, Record
  <2>2. InPool' = InPool /\ UNCHANGED replenishing
    BY <1>30 DEF CheckerExpand, InPool
  <2> QED
    BY <2>1, <2>2 DEF Clean, Make
<1>31. ASSUME CheckerExpandPush PROVE Clean'
  <2>1. PICK y \in checker.made :
          /\ checker'.made = checker.made \ {y}
          /\ runtimePool' = Append(runtimePool, y)
    BY <1>31, <1>0 DEF CheckerExpandPush, Record
  <2>2. UNCHANGED <<interrupted, replenishing>>
    BY <1>31 DEF CheckerExpandPush
  <2>3. y \in Runtime /\ y \notin InPool
    BY <1>0, <2>1 DEF OneOwner, Record
  <2>4. InPool' \subseteq InPool \cup {y}
    BY <1>0, <2>1, <2>3, PushOwned DEF InPool
  <2> QED
    BY <2>1, <2>2, <2>4 DEF Clean
<1>32. ASSUME CheckerRest PROVE Clean'
  <2>1. checker'.made = {} \/ checker'.made = checker.made
    BY <1>32, <1>0 DEF CheckerRest, Record, Resting
  <2>2. UNCHANGED <<runtimePool, interrupted, replenishing>>
    BY <1>32 DEF CheckerRest
  <2> QED
    BY <2>1, <2>2 DEF Clean, InPool
<1>33. ASSUME CheckerStop PROVE Clean'
  <2>1. checker'.made = {} \/ checker'.made = checker.made
    BY <1>33, <1>0 DEF CheckerStop, Record, Resting
  <2>2. UNCHANGED <<runtimePool, interrupted, replenishing>>
    BY <1>33 DEF CheckerStop
  <2> QED
    BY <2>1, <2>2 DEF Clean, InPool
<1>34. ASSUME CloseShutdown PROVE Clean'
  BY <1>34 DEF CloseShutdown, Clean, InPool
<1>35. ASSUME WaitReturns PROVE Clean'
  BY <1>35 DEF WaitReturns, Clean, InPool
<1>36. ASSUME ClosePool PROVE Clean'
  <2>1. InPool' = {} /\ UNCHANGED <<interrupted, replenishing, checker>>
    BY <1>36 DEF ClosePool, InPool
  <2> QED
    BY <2>1 DEF Clean
<1>37. ASSUME Ended PROVE Clean'
  BY <1>37 DEF Ended, Clean, InPool, vars
<1>38. CASE UNCHANGED vars
  BY <1>38 DEF vars, Clean, InPool
<1> QED
  BY <1>1, <1>2, <1>3, <1>4, <1>5, <1>6, <1>7, <1>8, <1>9, <1>10, <1>11, <1>12, <1>13,
     <1>14, <1>15, <1>16, <1>17, <1>18, <1>19, <1>20, <1>21, <1>22, <1>23, <1>24, <1>25,
     <1>26, <1>27, <1>28, <1>29, <1>30, <1>31, <1>32, <1>33, <1>34, <1>35, <1>36, <1>37,
     <1>38 DEF Next, Advance, Replenish, Check, Shutdown

(***************************************************************************)
(* WornOutLeaves: so far as the health entries go, everything in the       *)
(* channel or on its way there is below the limit, and a temporary runtime *)
(* has no entry.                                                           *)
(***************************************************************************)
Fit ==
  /\ \A x \in (InPool \cap tracked) \cup replenishing \cup checker.made : execCount[x] < MaxReuse
  /\ \A r \in temporary : held[r] \notin tracked

(* Entries start from zero checkouts.                                       *)
LEMMA InitFit == Init => Fit
<1> SUFFICES ASSUME Init PROVE Fit
  OBVIOUS
<1>1. InPool \subseteq Runtime /\ MaxReuse \in Nat \ {0}
  BY PoolAssumption DEF Init, InPool
<1>2. replenishing = {} /\ checker.made = {} /\ temporary = {}
  BY DEF Init, Resting
<1> QED
  BY <1>1, <1>2 DEF Init, Fit

(* Entries that are made anew count from zero, entries that go lose nothing. *)
LEMMA RetrackFit ==
  ASSUME TypeRange, NEW X, NEW Y, Retrack(X, Y)
  PROVE  /\ tracked' = (tracked \ X) \cup Y
         /\ \A x \in Runtime : execCount'[x] <= execCount[x]
         /\ \A y \in Y \cap Runtime : execCount'[y] < MaxReuse
<1>1. MaxReuse \in Nat \ {0}
  BY PoolAssumption
<1> QED
  BY <1>1 DEF TypeRange, Retrack

(* Every step keeps Fit: ReturnPush is refused to a worn-out runtime.       *)
LEMMA NextFit == TypeRange /\ Calls /\ OneOwner /\ Fit /\ [Next]_vars => Fit'
<1> SUFFICES ASSUME TypeRange, Calls, OneOwner, Fit, [Next]_vars PROVE Fit'
  OBVIOUS
<1>0. /\ NoRepeat /\ checker \in Record /\ MaxReuse \in Nat \ {0}
      /\ InPool \subseteq Runtime /\ replenishing \subseteq Runtime /\ checker.made \subseteq Runtime
      /\ execCount \in [Runtime -> Nat]
      /\ held \in [Request -> Runtime \cup {NoRuntime}] /\ temporary \subseteq Request
  BY PoolTyped, PoolAssumption DEF OneOwner, NoRepeat, TypeRange
<1> USE DEF reqVars, poolVars, healthVars, limitVars, supplyVars, checkVars
<1>1. ASSUME NEW r \in Request, Enter(r) PROVE Fit'
  BY <1>1 DEF Enter, Fit, InPool
<1>2. ASSUME NEW r \in Request, Refuse(r) PROVE Fit'
  BY <1>2 DEF Refuse, Fit, InPool
<1>3. ASSUME NEW r \in Request, Register(r) PROVE Fit'
  BY <1>3 DEF Register, Fit, InPool
<1>4. ASSUME NEW r \in Request, GiveUp(r) PROVE Fit'
  BY <1>4 DEF GiveUp, Fit, InPool
<1>5. ASSUME NEW r \in Request, AcquireSlot(r) PROVE Fit'
  BY <1>5 DEF AcquireSlot, Fit, InPool
<1>6. ASSUME NEW r \in Request, EndLoop(r) PROVE Fit'
  BY <1>6 DEF EndLoop, Fit, InPool
<1>7. ASSUME NEW r \in Request, Leave(r) PROVE Fit'
  BY <1>7 DEF Leave, Fit, InPool
<1>8. ASSUME NEW r \in Request, Checkout(r) PROVE Fit'
  <2> DEFINE x == Head(runtimePool)
  <2>1. x \in InPool /\ InPool' = InPool \ {x}
    BY <1>8, <1>0, PopOwned DEF Checkout
  <2>2. \A y \in Runtime \ {x} : execCount'[y] = execCount[y]
    BY <1>8, <1>0 DEF Checkout
  <2>3. x \notin replenishing \cup checker.made
    BY <2>1 DEF OneOwner
  <2>4. held' = [held EXCEPT ![r] = x] /\ r \notin temporary
    BY <1>8 DEF Checkout, Calls, Goto, Holding
  <2>5. UNCHANGED <<tracked, replenishing, checker, temporary>>
    BY <1>8 DEF Checkout
  <2> HIDE DEF x
  <2> QED
    BY <1>0, <2>1, <2>2, <2>3, <2>4, <2>5 DEF Fit
<1>9. ASSUME NEW r \in Request, CheckoutTemporary(r) PROVE Fit'
  <2>1. PICK x \in Fresh : held' = [held EXCEPT ![r] = x]
    BY <1>9 DEF CheckoutTemporary
  <2>2. x \notin tracked
    BY FreshFree
  <2>3. temporary' = temporary \cup {r} /\ InPool' = InPool
        /\ UNCHANGED <<tracked, execCount, replenishing, checker>>
    BY <1>9 DEF CheckoutTemporary, InPool
  <2> QED
    BY <1>0, <2>1, <2>2, <2>3 DEF Fit
<1>10. ASSUME NEW r \in Request, CheckoutFail(r) PROVE Fit'
  BY <1>10 DEF CheckoutFail, Fit, InPool
<1>11. ASSUME NEW r \in Request, CompileFail(r) PROVE Fit'
  BY <1>11 DEF CompileFail, Fit, InPool
<1>12. ASSUME NEW r \in Request, StartRun(r) PROVE Fit'
  BY <1>12 DEF StartRun, Fit, InPool
<1>13. ASSUME NEW r \in Request, CodeEnds(r) PROVE Fit'
  BY <1>13 DEF CodeEnds, Fit, InPool, GoroutineEnds
<1>14. ASSUME NEW r \in Request, CodeInterrupted(r) PROVE Fit'
  BY <1>14 DEF CodeInterrupted, Fit, InPool, GoroutineEnds
<1>15. ASSUME NEW r \in Request, Answered(r) PROVE Fit'
  BY <1>15 DEF Answered, Fit, InPool
<1>16. ASSUME NEW r \in Request, TimedOut(r) PROVE Fit'
  BY <1>16 DEF TimedOut, Fit, InPool
<1>17. ASSUME NEW r \in Request, ReturnDestroy(r) PROVE Fit'
  <2>1. Retrack({held[r]}, {}) /\ r \notin temporary
    BY <1>17 DEF ReturnDestroy, WornOut
  <2>2. tracked' \subseteq tracked /\ \A x \in Runtime : execCount'[x] <= execCount[x]
    BY <2>1, RetrackFit
  <2>3. execCount' \in [Runtime -> Nat]
    BY <2>1, <1>0 DEF Retrack
  <2>4. held' = [held EXCEPT ![r] = NoRuntime] /\ InPool' = InPool
        /\ UNCHANGED <<temporary, replenishing, checker>>
    BY <1>17 DEF ReturnDestroy, InPool
  <2> QED
    BY <1>0, <2>1, <2>2, <2>3, <2>4 DEF Fit
<1>18. ASSUME NEW r \in Request, ReturnPush(r) PROVE Fit'
  <2>1. pc[r] \in Holding
    BY <1>18 DEF ReturnPush, Goto, Holding
  <2>2. held[r] \in Runtime
    BY <2>1, HeldTyped
  <2>3. held[r] \notin InPool
    BY DEF OneOwner
  <2>4. InPool' = InPool \cup {held[r]}
    BY <1>18, <1>0, <2>2, <2>3, PushOwned DEF ReturnPush
  <2>5. held[r] \in tracked => execCount[held[r]] < MaxReuse
    BY <1>18, <1>0, <2>2 DEF ReturnPush, WornOut, Fit
  <2>6. /\ held' = [held EXCEPT ![r] = NoRuntime] /\ temporary' = temporary \ {r}
        /\ UNCHANGED <<tracked, execCount, replenishing, checker>>
    BY <1>18 DEF ReturnPush
  <2> QED
    BY <1>0, <2>4, <2>5, <2>6 DEF Fit
<1>19. ASSUME NEW r \in Request, ReturnDrop(r) PROVE Fit'
  <2>1. tracked' \subseteq tracked /\ \A x \in Runtime : execCount'[x] <= execCount[x]
    BY <1>19, <1>0, RetrackFit DEF ReturnDrop
  <2>2. execCount' \in [Runtime -> Nat]
    BY <1>19, <1>0 DEF ReturnDrop, Retrack
  <2>3. held' = [held EXCEPT ![r] = NoRuntime] /\ InPool' = InPool
        /\ temporary' = temporary \ {r} /\ UNCHANGED <<replenishing, checker>>
    BY <1>19 DEF ReturnDrop, InPool
  <2> QED
    BY <1>0, <2>1, <2>2, <2>3 DEF Fit
<1>20. ASSUME NEW r \in Request, ReturnClosed(r) PROVE Fit'
  <2>1. held' = [held EXCEPT ![r] = NoRuntime] /\ InPool' = InPool
        /\ temporary' = temporary \ {r} /\ UNCHANGED <<replenishing, checker, tracked, execCount>>
    BY <1>20 DEF ReturnClosed, InPool
  <2> QED
    BY <1>0, <2>1 DEF Fit
<1>21. ASSUME ReplenishSkip PROVE Fit'
  BY <1>21 DEF ReplenishSkip, Fit, InPool
<1>22. ASSUME ReplenishMake PROVE Fit'
  <2>1. PICK x \in Fresh : replenishing' = replenishing \cup {x} /\ Retrack({}, {x})
    BY <1>22 DEF ReplenishMake
  <2>2. x \in Runtime /\ x \notin InPool /\ \A s \in Request : held[s] # x
    BY FreshFree
  <2>3. /\ tracked' \subseteq tracked \cup {x} /\ \A y \in Runtime : execCount'[y] <= execCount[y]
        /\ \A y \in {x} \cap Runtime : execCount'[y] < MaxReuse
    BY <2>1, RetrackFit
  <2>4. execCount' \in [Runtime -> Nat]
    BY <2>1, <1>0 DEF Retrack
  <2>5. InPool' = InPool /\ UNCHANGED <<held, temporary, checker>>
    BY <1>22 DEF ReplenishMake, InPool
  <2> QED
    BY <1>0, <2>1, <2>2, <2>3, <2>4, <2>5 DEF Fit
<1>23. ASSUME ReplenishPush PROVE Fit'
  <2>1. PICK x \in replenishing :
          /\ replenishing' = replenishing \ {x}
          /\ \/ UNCHANGED <<runtimePool, healthVars>>
             \/ runtimePool' = Append(runtimePool, x) /\ UNCHANGED healthVars
             \/ UNCHANGED runtimePool /\ Retrack({x}, {})
    BY <1>23 DEF ReplenishPush
  <2>2. x \in Runtime /\ x \notin InPool
    BY <2>1 DEF OneOwner, TypeRange
  <2>3. InPool' \subseteq InPool \cup {x}
    BY <1>0, <2>1, <2>2, PushOwned DEF InPool
  <2>4. tracked' \subseteq tracked /\ \A y \in Runtime : execCount'[y] <= execCount[y]
    BY <1>0, <2>1, RetrackFit
  <2>5. execCount' \in [Runtime -> Nat]
    BY <1>0, <2>1 DEF Retrack
  <2>6. UNCHANGED <<held, temporary, checker>>
    BY <1>23 DEF ReplenishPush
  <2> QED
    BY <1>0, <2>1, <2>3, <2>4, <2>5, <2>6 DEF Fit
<1>24. ASSUME CheckerTick PROVE Fit'
  <2>1. checker'.made = {} \/ checker'.made = checker.made
    BY <1>24, <1>0 DEF CheckerTick, Record, Resting
  <2>2. UNCHANGED <<runtimePool, tracked, execCount, replenishing, held, temporary>>
    BY <1>24 DEF CheckerTick
  <2> QED
    BY <2>1, <2>2 DEF Fit, InPool
<1>25. ASSUME CheckerRebuild PROVE Fit'
  <2>1. PICK x \in checker.problems, y \in Fresh : checker'.made = {y} /\ Retrack({x}, {y})
    BY <1>25, <1>0 DEF CheckerRebuild, Record
  <2>2. y \in Runtime /\ y \notin InPool /\ \A s \in Request : held[s] # y
    BY FreshFree
  <2>3. /\ tracked' \subseteq tracked \cup {y} /\ \A z \in Runtime : execCount'[z] <= execCount[z]
        /\ \A z \in {y} \cap Runtime : execCount'[z] < MaxReuse
    BY <2>1, RetrackFit
  <2>4. execCount' \in [Runtime -> Nat]
    BY <2>1, <1>0 DEF Retrack
  <2>5. InPool' = InPool /\ UNCHANGED <<held, temporary, replenishing>>
    BY <1>25 DEF CheckerRebuild, InPool
  <2> QED
    BY <1>0, <2>1, <2>2, <2>3, <2>4, <2>5 DEF Fit
<1>26. ASSUME CheckerRebuildFail PROVE Fit'
  <2>1. checker'.made = {} \/ checker'.made = checker.made
    BY <1>26, <1>0 DEF CheckerRebuildFail, Record, Resting
  <2>2. UNCHANGED <<runtimePool, tracked, execCount, replenishing, held, temporary>>
    BY <1>26 DEF CheckerRebuildFail
  <2> QED
    BY <2>1, <2>2 DEF Fit, InPool
<1>27. ASSUME CheckerRebuildPush PROVE Fit'
  <2>1. PICK y \in checker.made :
          /\ checker'.made = {}
          /\ \/ UNCHANGED runtimePool
             \/ runtimePool' = Append(runtimePool, y)
    BY <1>27, <1>0 DEF CheckerRebuildPush, Record
  <2>2. UNCHANGED <<tracked, execCount, replenishing, held, temporary>>
    BY <1>27 DEF CheckerRebuildPush
  <2>3. y \in Runtime /\ y \notin InPool
    BY <1>0, <2>1 DEF OneOwner, Record
  <2>4. InPool' \subseteq InPool \cup {y}
    BY <1>0, <2>1, <2>3, PushOwned DEF InPool
  <2> QED
    BY <2>1, <2>2, <2>4 DEF Fit
<1>28. ASSUME CheckerShrink PROVE Fit'
  <2>1. PICK X \in SUBSET checker.idle : Retrack(X, {})
    BY <1>28 DEF CheckerShrink
  <2>2. tracked' \subseteq tracked /\ \A y \in Runtime : execCount'[y] <= execCount[y]
    BY <2>1, RetrackFit
  <2>3. execCount' \in [Runtime -> Nat]
    BY <1>0, <2>1 DEF Retrack
  <2>4. checker'.made = checker.made
    BY <1>28, <1>0 DEF CheckerShrink, Record
  <2>5. InPool' = InPool /\ UNCHANGED <<replenishing, held, temporary>>
    BY <1>28 DEF CheckerShrink, InPool
  <2> QED
    BY <1>0, <2>2, <2>3, <2>4, <2>5 DEF Fit
<1>29. ASSUME CheckerNoShrink PROVE Fit'
  <2>1. checker'.made = {} \/ checker'.made = checker.made
    BY <1>29, <1>0 DEF CheckerNoShrink, Record, Resting
  <2>2. UNCHANGED <<runtimePool, tracked, execCount, replenishing, held, temporary>>
    BY <1>29 DEF CheckerNoShrink
  <2> QED
    BY <2>1, <2>2 DEF Fit, InPool
<1>30. ASSUME CheckerExpand PROVE Fit'
  <2>1. PICK Y \in SUBSET Fresh : checker'.made = Y /\ Retrack({}, Y)
    BY <1>30, <1>0 DEF CheckerExpand, Record
  <2>2. \A y \in Y : y \in Runtime /\ y \notin InPool /\ \A s \in Request : held[s] # y
    BY FreshFree
  <2>3. /\ tracked' \subseteq tracked \cup Y /\ \A y \in Runtime : execCount'[y] <= execCount[y]
        /\ \A y \in Y \cap Runtime : execCount'[y] < MaxReuse
    BY <2>1, RetrackFit
  <2>4. execCount' \in [Runtime -> Nat]
    BY <2>1, <1>0 DEF Retrack
  <2>5. InPool' = InPool /\ UNCHANGED <<held, temporary, replenishing>>
    BY <1>30 DEF CheckerExpand, InPool
  <2> QED
    BY <1>0, <2>1, <2>2, <2>3, <2>4, <2>5 DEF Fit
<1>31. ASSUME CheckerExpandPush PROVE Fit'
  <2>1. PICK y \in checker.made :
          /\ checker'.made = checker.made \ {y}
          /\ runtimePool' = Append(runtimePool, y)
    BY <1>31, <1>0 DEF CheckerExpandPush, Record
  <2>2. UNCHANGED <<tracked, execCount, replenishing, held, temporary>>
    BY <1>31 DEF CheckerExpandPush
  <2>3. y \in Runtime /\ y \notin InPool
    BY <1>0, <2>1 DEF OneOwner, Record
  <2>4. InPool' \subseteq InPool \cup {y}
    BY <1>0, <2>1, <2>3, PushOwned DEF InPool
  <2> QED
    BY <2>1, <2>2, <2>4 DEF Fit
<1>32. ASSUME CheckerRest PROVE Fit'
  <2>1. checker'.made = {} \/ checker'.made = checker.made
    BY <1>32, <1>0 DEF CheckerRest, Record, Resting
  <2>2. UNCHANGED <<runtimePool, tracked, execCount, replenishing, held, temporary>>
    BY <1>32 DEF CheckerRest
  <2> QED
    BY <2>1, <2>2 DEF Fit, InPool
<1>33. ASSUME CheckerStop PROVE Fit'
  <2>1. checker'.made = {} \/ checker'.made = checker.made
    BY <1>33, <1>0 DEF CheckerStop, Record, Resting
  <2>2. UNCHANGED <<runtimePool, tracked, execCount, replenishing, held, temporary>>
    BY <1>33 DEF CheckerStop
  <2> QED
    BY <2>1, <2>2 DEF Fit, InPool
<1>34. ASSUME CloseShutdown PROVE Fit'
  BY <1>34 DEF CloseShutdown, Fit, InPool
<1>35. ASSUME WaitReturns PROVE Fit'
  BY <1>35 DEF WaitReturns, Fit, InPool
<1>36. ASSUME ClosePool PROVE Fit'
  <2>1. InPool' = {} /\ UNCHANGED <<tracked, execCount, replenishing, checker, held, temporary>>
    BY <1>36 DEF ClosePool, InPool
  <2> QED
    BY <2>1 DEF Fit
<1>37. ASSUME Ended PROVE Fit'
  BY <1>37 DEF Ended, Fit, InPool, vars
<1>38. CASE UNCHANGED vars
  BY <1>38 DEF vars, Fit, InPool
<1> QED
  BY <1>1, <1>2, <1>3, <1>4, <1>5, <1>6, <1>7, <1>8, <1>9, <1>10, <1>11, <1>12, <1>13,
     <1>14, <1>15, <1>16, <1>17, <1>18, <1>19, <1>20, <1>21, <1>22, <1>23, <1>24, <1>25,
     <1>26, <1>27, <1>28, <1>29, <1>30, <1>31, <1>32, <1>33, <1>34, <1>35, <1>36, <1>37,
     <1>38 DEF Next, Advance, Replenish, Check, Shutdown


(***************************************************************************)
(* How a step of a call moves the counts.                                  *)
(***************************************************************************)

(* A count of calls is a number: Request is finite.                         *)
LEMMA CountNat == ASSUME NEW S PROVE Count(S) \in Nat
<1> DEFINE A == {r \in Request : pc[r] \in S}
<1>1. IsFiniteSet(A)
  BY PoolAssumption, FS_Subset
<1> QED
  BY <1>1, FS_CardinalityType DEF Count

(* A step that moves no call into or out of S keeps its count.              *)
LEMMA CountKept ==
  ASSUME NEW S, \A r \in Request : pc[r] \in S <=> pc'[r] \in S
  PROVE  Count(S)' = Count(S)
BY DEF Count

(* The same for the two counts that matter together.                        *)
LEMMA CountsKept ==
  ASSUME \A q \in Request :
           /\ pc[q] \in Slotted <=> pc'[q] \in Slotted
           /\ pc[q] \in InFlight <=> pc'[q] \in InFlight
  PROVE  Count(Slotted)' = Count(Slotted) /\ Count(InFlight)' = Count(InFlight)
BY DEF Count

(* A call that enters S adds one.                                           *)
LEMMA CountJoins ==
  ASSUME TypeRange, NEW S, NEW r \in Request, NEW a, NEW b, Goto(r, a, b), a \notin S, b \in S
  PROVE  Count(S)' = Count(S) + 1
<1> DEFINE A == {q \in Request : pc[q] \in S}
<1>1. IsFiniteSet(A) /\ r \notin A
  BY PoolAssumption, FS_Subset DEF Goto
<1>2. {q \in Request : pc'[q] \in S} = A \cup {r}
  BY DEF Goto, TypeRange
<1>3. Cardinality(A \cup {r}) = Cardinality(A) + 1
  BY <1>1, FS_AddElement
<1> QED
  BY <1>2, <1>3 DEF Count

(* A call that leaves S takes one away.                                     *)
LEMMA CountParts ==
  ASSUME TypeRange, NEW S, NEW r \in Request, NEW a, NEW b, Goto(r, a, b), a \in S, b \notin S
  PROVE  Count(S)' = Count(S) - 1
<1> DEFINE A == {q \in Request : pc[q] \in S}
<1>1. IsFiniteSet(A) /\ r \in A
  BY PoolAssumption, FS_Subset DEF Goto
<1>2. {q \in Request : pc'[q] \in S} = A \ {r}
  BY DEF Goto, TypeRange
<1>3. Cardinality(A \ {r}) = Cardinality(A) - 1
  BY <1>1, FS_RemoveElement
<1> QED
  BY <1>2, <1>3 DEF Count

(***************************************************************************)
(* Accounted: semaphore and wait group agree with the calls in flight.     *)
(***************************************************************************)

(* Only the health checker is registered at first.                          *)
LEMMA InitAccounted == Init => Accounted
<1> SUFFICES ASSUME Init PROVE Accounted
  OBVIOUS
<1>1. /\ {r \in Request : pc[r] \in Slotted} = {}
      /\ {r \in Request : pc[r] \in InFlight} = {}
  BY DEF Init, InFlight, Slotted, Holding
<1>2. Count(Slotted) = 0 /\ Count(InFlight) = 0
  BY <1>1, FS_EmptySet DEF Count
<1> QED
  BY <1>2, PoolAssumption DEF Init, Resting, Accounted

(* Every path through executeInternal moves counters and calls together.    *)
LEMMA NextAccounted == TypeRange /\ Accounted /\ [Next]_vars => Accounted'
<1> SUFFICES ASSUME TypeRange, Accounted, [Next]_vars PROVE Accounted'
  OBVIOUS
<1> USE DEF reqVars, poolVars, healthVars, limitVars, supplyVars, checkVars
<1>0. /\ pc \in [Request -> PC] /\ checker \in Record
      /\ semaphore \in Int /\ wg \in Int /\ TypeRange /\ Accounted
  BY DEF TypeRange
<1>1. ASSUME NEW r \in Request, Enter(r) PROVE Accounted'
  <2>1. \A q \in Request :
          /\ pc[q] \in Slotted <=> pc'[q] \in Slotted
          /\ pc[q] \in InFlight <=> pc'[q] \in InFlight
    BY <1>1, <1>0 DEF Enter, Goto, Slotted, InFlight, Holding
  <2>2. Count(Slotted)' = Count(Slotted) /\ Count(InFlight)' = Count(InFlight)
    BY <2>1, CountsKept
  <2>3. UNCHANGED <<semaphore, wg>> /\ (checker'.at = "stopped" <=> checker.at = "stopped")
    BY <1>1, <1>0 DEF Enter, Record
  <2> QED
    BY <2>2, <2>3 DEF Accounted
<1>2. ASSUME NEW r \in Request, Refuse(r) PROVE Accounted'
  <2>1. \A q \in Request :
          /\ pc[q] \in Slotted <=> pc'[q] \in Slotted
          /\ pc[q] \in InFlight <=> pc'[q] \in InFlight
    BY <1>2, <1>0 DEF Refuse, Goto, Slotted, InFlight, Holding
  <2>2. Count(Slotted)' = Count(Slotted) /\ Count(InFlight)' = Count(InFlight)
    BY <2>1, CountsKept
  <2>3. UNCHANGED <<semaphore, wg>> /\ (checker'.at = "stopped" <=> checker.at = "stopped")
    BY <1>2, <1>0 DEF Refuse, Record
  <2> QED
    BY <2>2, <2>3 DEF Accounted
<1>3. ASSUME NEW r \in Request, Register(r) PROVE Accounted'
  <2>1. Goto(r, "entered", "validating")
    BY <1>3 DEF Register
  <2>2. Count(InFlight)' = Count(InFlight) + 1
    BY <2>1, <1>0, CountJoins DEF InFlight, Slotted, Holding
  <2>3. Count(Slotted)' = Count(Slotted)
    BY <2>1, <1>0, CountKept DEF Goto, Slotted, Holding
  <2> QED
    BY <1>3, <2>2, <2>3, <1>0, CountNat DEF Register, Accounted
<1>4. ASSUME NEW r \in Request, GiveUp(r) PROVE Accounted'
  <2>1. Goto(r, "validating", "done")
    BY <1>4 DEF GiveUp
  <2>2. Count(InFlight)' = Count(InFlight) - 1
    BY <2>1, <1>0, CountParts DEF InFlight, Slotted, Holding
  <2>3. Count(Slotted)' = Count(Slotted)
    BY <2>1, <1>0, CountKept DEF Goto, Slotted, Holding
  <2> QED
    BY <1>4, <2>2, <2>3, <1>0, CountNat DEF GiveUp, Accounted
<1>5. ASSUME NEW r \in Request, AcquireSlot(r) PROVE Accounted'
  <2>1. PICK route \in {"acquiring", "looping"} : Goto(r, "validating", route)
    BY <1>5 DEF AcquireSlot
  <2>2. Count(Slotted)' = Count(Slotted) + 1
    BY <2>1, <1>0, CountJoins DEF Slotted, Holding
  <2>3. Count(InFlight)' = Count(InFlight)
    BY <2>1, <1>0, CountKept DEF Goto, InFlight, Slotted, Holding
  <2>4. semaphore' = semaphore + 1 /\ semaphore < MaxConcurrent /\ UNCHANGED <<wg, checker>>
    BY <1>5 DEF AcquireSlot
  <2> QED
    BY <2>2, <2>3, <2>4, <1>0, CountNat, PoolAssumption DEF Accounted
<1>6. ASSUME NEW r \in Request, EndLoop(r) PROVE Accounted'
  <2>1. \A q \in Request :
          /\ pc[q] \in Slotted <=> pc'[q] \in Slotted
          /\ pc[q] \in InFlight <=> pc'[q] \in InFlight
    BY <1>6, <1>0 DEF EndLoop, Goto, Slotted, InFlight, Holding
  <2>2. Count(Slotted)' = Count(Slotted) /\ Count(InFlight)' = Count(InFlight)
    BY <2>1, CountsKept
  <2>3. UNCHANGED <<semaphore, wg>> /\ (checker'.at = "stopped" <=> checker.at = "stopped")
    BY <1>6, <1>0 DEF EndLoop, Record
  <2> QED
    BY <2>2, <2>3 DEF Accounted
<1>7. ASSUME NEW r \in Request, Leave(r) PROVE Accounted'
  <2>1. Goto(r, "leaving", "done")
    BY <1>7 DEF Leave
  <2>2. Count(InFlight)' = Count(InFlight) - 1
    BY <2>1, <1>0, CountParts DEF InFlight, Slotted, Holding
  <2>3. Count(Slotted)' = Count(Slotted) - 1
    BY <2>1, <1>0, CountParts DEF Slotted, Holding
  <2>4. semaphore' = semaphore - 1 /\ wg' = wg - 1 /\ UNCHANGED checker
    BY <1>7 DEF Leave
  <2> QED
    BY <2>2, <2>3, <2>4, <1>0, CountNat, PoolAssumption DEF Accounted
<1>8. ASSUME NEW r \in Request, Checkout(r) PROVE Accounted'
  <2>1. \A q \in Request :
          /\ pc[q] \in Slotted <=> pc'[q] \in Slotted
          /\ pc[q] \in InFlight <=> pc'[q] \in InFlight
    BY <1>8, <1>0 DEF Checkout, Goto, Slotted, InFlight, Holding
  <2>2. Count(Slotted)' = Count(Slotted) /\ Count(InFlight)' = Count(InFlight)
    BY <2>1, CountsKept
  <2>3. UNCHANGED <<semaphore, wg>> /\ (checker'.at = "stopped" <=> checker.at = "stopped")
    BY <1>8, <1>0 DEF Checkout, Record
  <2> QED
    BY <2>2, <2>3 DEF Accounted
<1>9. ASSUME NEW r \in Request, CheckoutTemporary(r) PROVE Accounted'
  <2>1. \A q \in Request :
          /\ pc[q] \in Slotted <=> pc'[q] \in Slotted
          /\ pc[q] \in InFlight <=> pc'[q] \in InFlight
    BY <1>9, <1>0 DEF CheckoutTemporary, Goto, Slotted, InFlight, Holding
  <2>2. Count(Slotted)' = Count(Slotted) /\ Count(InFlight)' = Count(InFlight)
    BY <2>1, CountsKept
  <2>3. UNCHANGED <<semaphore, wg>> /\ (checker'.at = "stopped" <=> checker.at = "stopped")
    BY <1>9, <1>0 DEF CheckoutTemporary, Record
  <2> QED
    BY <2>2, <2>3 DEF Accounted
<1>10. ASSUME NEW r \in Request, CheckoutFail(r) PROVE Accounted'
  <2>1. \A q \in Request :
          /\ pc[q] \in Slotted <=> pc'[q] \in Slotted
          /\ pc[q] \in InFlight <=> pc'[q] \in InFlight
    BY <1>10, <1>0 DEF CheckoutFail, Goto, Slotted, InFlight, Holding
  <2>2. Count(Slotted)' = Count(Slotted) /\ Count(InFlight)' = Count(InFlight)
    BY <2>1, CountsKept
  <2>3. UNCHANGED <<semaphore, wg>> /\ (checker'.at = "stopped" <=> checker.at = "stopped")
    BY <1>10, <1>0 DEF CheckoutFail, Record
  <2> QED
    BY <2>2, <2>3 DEF Accounted
<1>11. ASSUME NEW r \in Request, CompileFail(r) PROVE Accounted'
  <2>1. \A q \in Request :
          /\ pc[q] \in Slotted <=> pc'[q] \in Slotted
          /\ pc[q] \in InFlight <=> pc'[q] \in InFlight
    BY <1>11, <1>0 DEF CompileFail, Goto, Slotted, InFlight, Holding
  <2>2. Count(Slotted)' = Count(Slotted) /\ Count(InFlight)' = Count(InFlight)
    BY <2>1, CountsKept
  <2>3. UNCHANGED <<semaphore, wg>> /\ (checker'.at = "stopped" <=> checker.at = "stopped")
    BY <1>11, <1>0 DEF CompileFail, Record
  <2> QED
    BY <2>2, <2>3 DEF Accounted
<1>12. ASSUME NEW r \in Request, StartRun(r) PROVE Accounted'
  <2>1. \A q \in Request :
          /\ pc[q] \in Slotted <=> pc'[q] \in Slotted
          /\ pc[q] \in InFlight <=> pc'[q] \in InFlight
    BY <1>12, <1>0 DEF StartRun, Goto, Slotted, InFlight, Holding
  <2>2. Count(Slotted)' = Count(Slotted) /\ Count(InFlight)' = Count(InFlight)
    BY <2>1, CountsKept
  <2>3. UNCHANGED <<semaphore, wg>> /\ (checker'.at = "stopped" <=> checker.at = "stopped")
    BY <1>12, <1>0 DEF StartRun, Record
  <2> QED
    BY <2>2, <2>3 DEF Accounted
<1>13. ASSUME NEW r \in Request, CodeEnds(r) PROVE Accounted'
  <2>1. \A q \in Request :
          /\ pc[q] \in Slotted <=> pc'[q] \in Slotted
          /\ pc[q] \in InFlight <=> pc'[q] \in InFlight
    BY <1>13, <1>0 DEF CodeEnds, GoroutineEnds, Goto, Slotted, InFlight, Holding
  <2>2. Count(Slotted)' = Count(Slotted) /\ Count(InFlight)' = Count(InFlight)
    BY <2>1, CountsKept
  <2>3. UNCHANGED <<semaphore, wg>> /\ (checker'.at = "stopped" <=> checker.at = "stopped")
    BY <1>13, <1>0 DEF CodeEnds, GoroutineEnds, Record
  <2> QED
    BY <2>2, <2>3 DEF Accounted
<1>14. ASSUME NEW r \in Request, CodeInterrupted(r) PROVE Accounted'
  <2>1. \A q \in Request :
          /\ pc[q] \in Slotted <=> pc'[q] \in Slotted
          /\ pc[q] \in InFlight <=> pc'[q] \in InFlight
    BY <1>14, <1>0 DEF CodeInterrupted, GoroutineEnds, Goto, Slotted, InFlight, Holding
  <2>2. Count(Slotted)' = Count(Slotted) /\ Count(InFlight)' = Count(InFlight)
    BY <2>1, CountsKept
  <2>3. UNCHANGED <<semaphore, wg>> /\ (checker'.at = "stopped" <=> checker.at = "stopped")
    BY <1>14, <1>0 DEF CodeInterrupted, GoroutineEnds, Record
  <2> QED
    BY <2>2, <2>3 DEF Accounted
<1>15. ASSUME NEW r \in Request, Answered(r) PROVE Accounted'
  <2>1. \A q \in Request :
          /\ pc[q] \in Slotted <=> pc'[q] \in Slotted
          /\ pc[q] \in InFlight <=> pc'[q] \in InFlight
    BY <1>15, <1>0 DEF Answered, Goto, Slotted, InFlight, Holding
  <2>2. Count(Slotted)' = Count(Slotted) /\ Count(InFlight)' = Count(InFlight)
    BY <2>1, CountsKept
  <2>3. UNCHANGED <<semaphore, wg>> /\ (checker'.at = "stopped" <=> checker.at = "stopped")
    BY <1>15, <1>0 DEF Answered, Record
  <2> QED
    BY <2>2, <2>3 DEF Accounted
<1>16. ASSUME NEW r \in Request, TimedOut(r) PROVE Accounted'
  <2>1. \A q \in Request :
          /\ pc[q] \in Slotted <=> pc'[q] \in Slotted
          /\ pc[q] \in InFlight <=> pc'[q] \in InFlight
    BY <1>16, <1>0 DEF TimedOut, Goto, Slotted, InFlight, Holding
  <2>2. Count(Slotted)' = Count(Slotted) /\ Count(InFlight)' = Count(InFlight)
    BY <2>1, CountsKept
  <2>3. UNCHANGED <<semaphore, wg>> /\ (checker'.at = "stopped" <=> checker.at = "stopped")
    BY <1>16, <1>0 DEF TimedOut, Record
  <2> QED
    BY <2>2, <2>3 DEF Accounted
<1>17. ASSUME NEW r \in Request, ReturnDestroy(r) PROVE Accounted'
  <2>1. \A q \in Request :
          /\ pc[q] \in Slotted <=> pc'[q] \in Slotted
          /\ pc[q] \in InFlight <=> pc'[q] \in InFlight
    BY <1>17, <1>0 DEF ReturnDestroy, Goto, Slotted, InFlight, Holding
  <2>2. Count(Slotted)' = Count(Slotted) /\ Count(InFlight)' = Count(InFlight)
    BY <2>1, CountsKept
  <2>3. UNCHANGED <<semaphore, wg>> /\ (checker'.at = "stopped" <=> checker.at = "stopped")
    BY <1>17, <1>0 DEF ReturnDestroy, Record
  <2> QED
    BY <2>2, <2>3 DEF Accounted
<1>18. ASSUME NEW r \in Request, ReturnPush(r) PROVE Accounted'
  <2>1. \A q \in Request :
          /\ pc[q] \in Slotted <=> pc'[q] \in Slotted
          /\ pc[q] \in InFlight <=> pc'[q] \in InFlight
    BY <1>18, <1>0 DEF ReturnPush, Goto, Slotted, InFlight, Holding
  <2>2. Count(Slotted)' = Count(Slotted) /\ Count(InFlight)' = Count(InFlight)
    BY <2>1, CountsKept
  <2>3. UNCHANGED <<semaphore, wg>> /\ (checker'.at = "stopped" <=> checker.at = "stopped")
    BY <1>18, <1>0 DEF ReturnPush, Record
  <2> QED
    BY <2>2, <2>3 DEF Accounted
<1>19. ASSUME NEW r \in Request, ReturnDrop(r) PROVE Accounted'
  <2>1. \A q \in Request :
          /\ pc[q] \in Slotted <=> pc'[q] \in Slotted
          /\ pc[q] \in InFlight <=> pc'[q] \in InFlight
    BY <1>19, <1>0 DEF ReturnDrop, Goto, Slotted, InFlight, Holding
  <2>2. Count(Slotted)' = Count(Slotted) /\ Count(InFlight)' = Count(InFlight)
    BY <2>1, CountsKept
  <2>3. UNCHANGED <<semaphore, wg>> /\ (checker'.at = "stopped" <=> checker.at = "stopped")
    BY <1>19, <1>0 DEF ReturnDrop, Record
  <2> QED
    BY <2>2, <2>3 DEF Accounted
<1>20. ASSUME NEW r \in Request, ReturnClosed(r) PROVE Accounted'
  <2>1. \A q \in Request :
          /\ pc[q] \in Slotted <=> pc'[q] \in Slotted
          /\ pc[q] \in InFlight <=> pc'[q] \in InFlight
    BY <1>20, <1>0 DEF ReturnClosed, Goto, Slotted, InFlight, Holding
  <2>2. Count(Slotted)' = Count(Slotted) /\ Count(InFlight)' = Count(InFlight)
    BY <2>1, CountsKept
  <2>3. UNCHANGED <<semaphore, wg>> /\ (checker'.at = "stopped" <=> checker.at = "stopped")
    BY <1>20, <1>0 DEF ReturnClosed, Record
  <2> QED
    BY <2>2, <2>3 DEF Accounted
<1>21. ASSUME ReplenishSkip PROVE Accounted'
  <2>1. \A q \in Request :
          /\ pc[q] \in Slotted <=> pc'[q] \in Slotted
          /\ pc[q] \in InFlight <=> pc'[q] \in InFlight
    BY <1>21, <1>0 DEF ReplenishSkip, Goto, Slotted, InFlight, Holding
  <2>2. Count(Slotted)' = Count(Slotted) /\ Count(InFlight)' = Count(InFlight)
    BY <2>1, CountsKept
  <2>3. UNCHANGED <<semaphore, wg>> /\ (checker'.at = "stopped" <=> checker.at = "stopped")
    BY <1>21, <1>0 DEF ReplenishSkip, Record
  <2> QED
    BY <2>2, <2>3 DEF Accounted
<1>22. ASSUME ReplenishMake PROVE Accounted'
  <2>1. \A q \in Request :
          /\ pc[q] \in Slotted <=> pc'[q] \in Slotted
          /\ pc[q] \in InFlight <=> pc'[q] \in InFlight
    BY <1>22, <1>0 DEF ReplenishMake, Goto, Slotted, InFlight, Holding
  <2>2. Count(Slotted)' = Count(Slotted) /\ Count(InFlight)' = Count(InFlight)
    BY <2>1, CountsKept
  <2>3. UNCHANGED <<semaphore, wg>> /\ (checker'.at = "stopped" <=> checker.at = "stopped")
    BY <1>22, <1>0 DEF ReplenishMake, Record
  <2> QED
    BY <2>2, <2>3 DEF Accounted
<1>23. ASSUME ReplenishPush PROVE Accounted'
  <2>1. \A q \in Request :
          /\ pc[q] \in Slotted <=> pc'[q] \in Slotted
          /\ pc[q] \in InFlight <=> pc'[q] \in InFlight
    BY <1>23, <1>0 DEF ReplenishPush, Goto, Slotted, InFlight, Holding
  <2>2. Count(Slotted)' = Count(Slotted) /\ Count(InFlight)' = Count(InFlight)
    BY <2>1, CountsKept
  <2>3. UNCHANGED <<semaphore, wg>> /\ (checker'.at = "stopped" <=> checker.at = "stopped")
    BY <1>23, <1>0 DEF ReplenishPush, Record
  <2> QED
    BY <2>2, <2>3 DEF Accounted
<1>24. ASSUME CheckerTick PROVE Accounted'
  <2>1. \A q \in Request :
          /\ pc[q] \in Slotted <=> pc'[q] \in Slotted
          /\ pc[q] \in InFlight <=> pc'[q] \in InFlight
    BY <1>24, <1>0 DEF CheckerTick, Goto, Slotted, InFlight, Holding
  <2>2. Count(Slotted)' = Count(Slotted) /\ Count(InFlight)' = Count(InFlight)
    BY <2>1, CountsKept
  <2>3. UNCHANGED <<semaphore, wg>> /\ (checker'.at = "stopped" <=> checker.at = "stopped")
    BY <1>24, <1>0 DEF CheckerTick, Record
  <2> QED
    BY <2>2, <2>3 DEF Accounted
<1>25. ASSUME CheckerRebuild PROVE Accounted'
  <2>1. \A q \in Request :
          /\ pc[q] \in Slotted <=> pc'[q] \in Slotted
          /\ pc[q] \in InFlight <=> pc'[q] \in InFlight
    BY <1>25, <1>0 DEF CheckerRebuild, Goto, Slotted, InFlight, Holding
  <2>2. Count(Slotted)' = Count(Slotted) /\ Count(InFlight)' = Count(InFlight)
    BY <2>1, CountsKept
  <2>3. UNCHANGED <<semaphore, wg>> /\ (checker'.at = "stopped" <=> checker.at = "stopped")
    BY <1>25, <1>0 DEF CheckerRebuild, Record
  <2> QED
    BY <2>2, <2>3 DEF Accounted
<1>26. ASSUME CheckerRebuildFail PROVE Accounted'
  <2>1. \A q \in Request :
          /\ pc[q] \in Slotted <=> pc'[q] \in Slotted
          /\ pc[q] \in InFlight <=> pc'[q] \in InFlight
    BY <1>26, <1>0 DEF CheckerRebuildFail, Goto, Slotted, InFlight, Holding
  <2>2. Count(Slotted)' = Count(Slotted) /\ Count(InFlight)' = Count(InFlight)
    BY <2>1, CountsKept
  <2>3. UNCHANGED <<semaphore, wg>> /\ (checker'.at = "stopped" <=> checker.at = "stopped")
    BY <1>26, <1>0 DEF CheckerRebuildFail, Record
  <2> QED
    BY <2>2, <2>3 DEF Accounted
<1>27. ASSUME CheckerRebuildPush PROVE Accounted'
  <2>1. \A q \in Request :
          /\ pc[q] \in Slotted <=> pc'[q] \in Slotted
          /\ pc[q] \in InFlight <=> pc'[q] \in InFlight
    BY <1>27, <1>0 DEF CheckerRebuildPush, Goto, Slotted, InFlight, Holding
  <2>2. Count(Slotted)' = Count(Slotted) /\ Count(InFlight)' = Count(InFlight)
    BY <2>1, CountsKept
  <2>3. UNCHANGED <<semaphore, wg>> /\ (checker'.at = "stopped" <=> checker.at = "stopped")
    BY <1>27, <1>0 DEF CheckerRebuildPush, Record
  <2> QED
    BY <2>2, <2>3 DEF Accounted
<1>28. ASSUME CheckerShrink PROVE Accounted'
  <2>1. \A q \in Request :
          /\ pc[q] \in Slotted <=> pc'[q] \in Slotted
          /\ pc[q] \in InFlight <=> pc'[q] \in InFlight
    BY <1>28, <1>0 DEF CheckerShrink, Goto, Slotted, InFlight, Holding
  <2>2. Count(Slotted)' = Count(Slotted) /\ Count(InFlight)' = Count(InFlight)
    BY <2>1, CountsKept
  <2>3. UNCHANGED <<semaphore, wg>> /\ (checker'.at = "stopped" <=> checker.at = "stopped")
    BY <1>28, <1>0 DEF CheckerShrink, Record
  <2> QED
    BY <2>2, <2>3 DEF Accounted
<1>29. ASSUME CheckerNoShrink PROVE Accounted'
  <2>1. \A q \in Request :
          /\ pc[q] \in Slotted <=> pc'[q] \in Slotted
          /\ pc[q] \in InFlight <=> pc'[q] \in InFlight
    BY <1>29, <1>0 DEF CheckerNoShrink, Goto, Slotted, InFlight, Holding
  <2>2. Count(Slotted)' = Count(Slotted) /\ Count(InFlight)' = Count(InFlight)
    BY <2>1, CountsKept
  <2>3. UNCHANGED <<semaphore, wg>> /\ (checker'.at = "stopped" <=> checker.at = "stopped")
    BY <1>29, <1>0 DEF CheckerNoShrink, Record
  <2> QED
    BY <2>2, <2>3 DEF Accounted
<1>30. ASSUME CheckerExpand PROVE Accounted'
  <2>1. \A q \in Request :
          /\ pc[q] \in Slotted <=> pc'[q] \in Slotted
          /\ pc[q] \in InFlight <=> pc'[q] \in InFlight
    BY <1>30, <1>0 DEF CheckerExpand, Goto, Slotted, InFlight, Holding
  <2>2. Count(Slotted)' = Count(Slotted) /\ Count(InFlight)' = Count(InFlight)
    BY <2>1, CountsKept
  <2>3. UNCHANGED <<semaphore, wg>> /\ (checker'.at = "stopped" <=> checker.at = "stopped")
    BY <1>30, <1>0 DEF CheckerExpand, Record
  <2> QED
    BY <2>2, <2>3 DEF Accounted
<1>31. ASSUME CheckerExpandPush PROVE Accounted'
  <2>1. \A q \in Request :
          /\ pc[q] \in Slotted <=> pc'[q] \in Slotted
          /\ pc[q] \in InFlight <=> pc'[q] \in InFlight
    BY <1>31, <1>0 DEF CheckerExpandPush, Goto, Slotted, InFlight, Holding
  <2>2. Count(Slotted)' = Count(Slotted) /\ Count(InFlight)' = Count(InFlight)
    BY <2>1, CountsKept
  <2>3. UNCHANGED <<semaphore, wg>> /\ (checker'.at = "stopped" <=> checker.at = "stopped")
    BY <1>31, <1>0 DEF CheckerExpandPush, Record
  <2> QED
    BY <2>2, <2>3 DEF Accounted
<1>32. ASSUME CheckerRest PROVE Accounted'
  <2>1. \A q \in Request :
          /\ pc[q] \in Slotted <=> pc'[q] \in Slotted
          /\ pc[q] \in InFlight <=> pc'[q] \in InFlight
    BY <1>32, <1>0 DEF CheckerRest, Resting, Goto, Slotted, InFlight, Holding
  <2>2. Count(Slotted)' = Count(Slotted) /\ Count(InFlight)' = Count(InFlight)
    BY <2>1, CountsKept
  <2>3. UNCHANGED <<semaphore, wg>> /\ (checker'.at = "stopped" <=> checker.at = "stopped")
    BY <1>32, <1>0 DEF CheckerRest, Resting, Record
  <2> QED
    BY <2>2, <2>3 DEF Accounted
<1>33. ASSUME CheckerStop PROVE Accounted'
  <2>1. Count(Slotted)' = Count(Slotted) /\ Count(InFlight)' = Count(InFlight)
    BY <1>33, CountsKept DEF CheckerStop
  <2>2. checker.at = "idle" /\ checker'.at = "stopped"
    BY <1>33, <1>0 DEF CheckerStop, Record
  <2> QED
    BY <1>33, <2>1, <2>2, <1>0, CountNat DEF CheckerStop, Accounted
<1>34. ASSUME CloseShutdown PROVE Accounted'
  <2>1. \A q \in Request :
          /\ pc[q] \in Slotted <=> pc'[q] \in Slotted
          /\ pc[q] \in InFlight <=> pc'[q] \in InFlight
    BY <1>34, <1>0 DEF CloseShutdown, Goto, Slotted, InFlight, Holding
  <2>2. Count(Slotted)' = Count(Slotted) /\ Count(InFlight)' = Count(InFlight)
    BY <2>1, CountsKept
  <2>3. UNCHANGED <<semaphore, wg>> /\ (checker'.at = "stopped" <=> checker.at = "stopped")
    BY <1>34, <1>0 DEF CloseShutdown, Record
  <2> QED
    BY <2>2, <2>3 DEF Accounted
<1>35. ASSUME WaitReturns PROVE Accounted'
  <2>1. \A q \in Request :
          /\ pc[q] \in Slotted <=> pc'[q] \in Slotted
          /\ pc[q] \in InFlight <=> pc'[q] \in InFlight
    BY <1>35, <1>0 DEF WaitReturns, Goto, Slotted, InFlight, Holding
  <2>2. Count(Slotted)' = Count(Slotted) /\ Count(InFlight)' = Count(InFlight)
    BY <2>1, CountsKept
  <2>3. UNCHANGED <<semaphore, wg>> /\ (checker'.at = "stopped" <=> checker.at = "stopped")
    BY <1>35, <1>0 DEF WaitReturns, Record
  <2> QED
    BY <2>2, <2>3 DEF Accounted
<1>36. ASSUME ClosePool PROVE Accounted'
  <2>1. \A q \in Request :
          /\ pc[q] \in Slotted <=> pc'[q] \in Slotted
          /\ pc[q] \in InFlight <=> pc'[q] \in InFlight
    BY <1>36, <1>0 DEF ClosePool, Goto, Slotted, InFlight, Holding
  <2>2. Count(Slotted)' = Count(Slotted) /\ Count(InFlight)' = Count(InFlight)
    BY <2>1, CountsKept
  <2>3. UNCHANGED <<semaphore, wg>> /\ (checker'.at = "stopped" <=> checker.at = "stopped")
    BY <1>36, <1>0 DEF ClosePool, Record
  <2> QED
    BY <2>2, <2>3 DEF Accounted
<1>37. ASSUME Ended PROVE Accounted'
  <2>1. \A q \in Request :
          /\ pc[q] \in Slotted <=> pc'[q] \in Slotted
          /\ pc[q] \in InFlight <=> pc'[q] \in InFlight
    BY <1>37, <1>0 DEF Ended, vars, Goto, Slotted, InFlight, Holding
  <2>2. Count(Slotted)' = Count(Slotted) /\ Count(InFlight)' = Count(InFlight)
    BY <2>1, CountsKept
  <2>3. UNCHANGED <<semaphore, wg>> /\ (checker'.at = "stopped" <=> checker.at = "stopped")
    BY <1>37, <1>0 DEF Ended, vars, Record
  <2> QED
    BY <2>2, <2>3 DEF Accounted
<1>38. CASE UNCHANGED vars
  BY <1>38 DEF vars, Accounted, Count
<1> QED
  BY <1>1, <1>2, <1>3, <1>4, <1>5, <1>6, <1>7, <1>8, <1>9, <1>10, <1>11, <1>12, <1>13,
     <1>14, <1>15, <1>16, <1>17, <1>18, <1>19, <1>20, <1>21, <1>22, <1>23, <1>24, <1>25,
     <1>26, <1>27, <1>28, <1>29, <1>30, <1>31, <1>32, <1>33, <1>34, <1>35, <1>36, <1>37,
     <1>38 DEF Next, Advance, Replenish, Check, Shutdown

(***************************************************************************)
(* DrainsEarlyCalls: the wait group stands for every registered call.      *)
(***************************************************************************)

(* Nobody is in S when its count is zero.                                   *)
LEMMA CountZero ==
  ASSUME NEW S, Count(S) = 0
  PROVE  \A r \in Request : pc[r] \notin S
<1> DEFINE A == {r \in Request : pc[r] \in S}
<1>1. IsFiniteSet(A)
  BY PoolAssumption, FS_Subset
<1>2. A = {}
  BY <1>1, FS_EmptySet DEF Count
<1> QED
  BY <1>2

(* Shutdown has not begun.                                                  *)
LEMMA InitDrains == Init => DrainsEarlyCalls
BY DEF Init, DrainsEarlyCalls

(* wg.Wait returns only when nobody is in flight, and stays so for early calls. *)
LEMMA NextDrains ==
  TypeRange /\ Calls /\ Accounted /\ DrainsEarlyCalls /\ [Next]_vars => DrainsEarlyCalls'
<1> SUFFICES ASSUME TypeRange, Calls, Accounted, DrainsEarlyCalls, [Next]_vars
             PROVE  DrainsEarlyCalls'
  OBVIOUS
<1> USE DEF reqVars, poolVars, healthVars, limitVars, supplyVars, checkVars
<1>0. /\ pc \in [Request -> PC] /\ checker \in Record /\ early \in SUBSET Request
      /\ Calls /\ Accounted /\ DrainsEarlyCalls
  BY DEF TypeRange
<1>1. ASSUME NEW r \in Request, Enter(r) PROVE DrainsEarlyCalls'
  BY <1>1, <1>0 DEF Enter, Goto, Record, DrainsEarlyCalls
<1>2. ASSUME NEW r \in Request, Refuse(r) PROVE DrainsEarlyCalls'
  BY <1>2, <1>0 DEF Refuse, Goto, Record, DrainsEarlyCalls
<1>3. ASSUME NEW r \in Request, Register(r) PROVE DrainsEarlyCalls'
  BY <1>3, <1>0 DEF Register, Goto, Record, DrainsEarlyCalls
<1>4. ASSUME NEW r \in Request, GiveUp(r) PROVE DrainsEarlyCalls'
  BY <1>4, <1>0 DEF GiveUp, Goto, Record, DrainsEarlyCalls
<1>5. ASSUME NEW r \in Request, AcquireSlot(r) PROVE DrainsEarlyCalls'
  BY <1>5, <1>0 DEF AcquireSlot, Goto, Record, DrainsEarlyCalls
<1>6. ASSUME NEW r \in Request, EndLoop(r) PROVE DrainsEarlyCalls'
  BY <1>6, <1>0 DEF EndLoop, Goto, Record, DrainsEarlyCalls
<1>7. ASSUME NEW r \in Request, Leave(r) PROVE DrainsEarlyCalls'
  BY <1>7, <1>0 DEF Leave, Goto, Record, DrainsEarlyCalls
<1>8. ASSUME NEW r \in Request, Checkout(r) PROVE DrainsEarlyCalls'
  BY <1>8, <1>0 DEF Checkout, Goto, Record, DrainsEarlyCalls
<1>9. ASSUME NEW r \in Request, CheckoutTemporary(r) PROVE DrainsEarlyCalls'
  BY <1>9, <1>0 DEF CheckoutTemporary, Goto, Record, DrainsEarlyCalls
<1>10. ASSUME NEW r \in Request, CheckoutFail(r) PROVE DrainsEarlyCalls'
  BY <1>10, <1>0 DEF CheckoutFail, Goto, Record, DrainsEarlyCalls
<1>11. ASSUME NEW r \in Request, CompileFail(r) PROVE DrainsEarlyCalls'
  BY <1>11, <1>0 DEF CompileFail, Goto, Record, DrainsEarlyCalls
<1>12. ASSUME NEW r \in Request, StartRun(r) PROVE DrainsEarlyCalls'
  BY <1>12, <1>0 DEF StartRun, Goto, Record, DrainsEarlyCalls
<1>13. ASSUME NEW r \in Request, CodeEnds(r) PROVE DrainsEarlyCalls'
  BY <1>13, <1>0 DEF CodeEnds, Goto, Record, DrainsEarlyCalls, GoroutineEnds
<1>14. ASSUME NEW r \in Request, CodeInterrupted(r) PROVE DrainsEarlyCalls'
  BY <1>14, <1>0 DEF CodeInterrupted, Goto, Record, DrainsEarlyCalls, GoroutineEnds
<1>15. ASSUME NEW r \in Request, Answered(r) PROVE DrainsEarlyCalls'
  BY <1>15, <1>0 DEF Answered, Goto, Record, DrainsEarlyCalls
<1>16. ASSUME NEW r \in Request, TimedOut(r) PROVE DrainsEarlyCalls'
  BY <1>16, <1>0 DEF TimedOut, Goto, Record, DrainsEarlyCalls
<1>17. ASSUME NEW r \in Request, ReturnDestroy(r) PROVE DrainsEarlyCalls'
  BY <1>17, <1>0 DEF ReturnDestroy, Goto, Record, DrainsEarlyCalls
<1>18. ASSUME NEW r \in Request, ReturnPush(r) PROVE DrainsEarlyCalls'
  BY <1>18, <1>0 DEF ReturnPush, Goto, Record, DrainsEarlyCalls
<1>19. ASSUME NEW r \in Request, ReturnDrop(r) PROVE DrainsEarlyCalls'
  BY <1>19, <1>0 DEF ReturnDrop, Goto, Record, DrainsEarlyCalls
<1>20. ASSUME NEW r \in Request, ReturnClosed(r) PROVE DrainsEarlyCalls'
  BY <1>20, <1>0 DEF ReturnClosed, Goto, Record, DrainsEarlyCalls
<1>21. ASSUME ReplenishSkip PROVE DrainsEarlyCalls'
  BY <1>21, <1>0 DEF ReplenishSkip, Goto, Record, DrainsEarlyCalls
<1>22. ASSUME ReplenishMake PROVE DrainsEarlyCalls'
  BY <1>22, <1>0 DEF ReplenishMake, Goto, Record, DrainsEarlyCalls
<1>23. ASSUME ReplenishPush PROVE DrainsEarlyCalls'
  BY <1>23, <1>0 DEF ReplenishPush, Goto, Record, DrainsEarlyCalls
<1>24. ASSUME CheckerTick PROVE DrainsEarlyCalls'
  BY <1>24, <1>0 DEF CheckerTick, Goto, Record, DrainsEarlyCalls
<1>25. ASSUME CheckerRebuild PROVE DrainsEarlyCalls'
  BY <1>25, <1>0 DEF CheckerRebuild, Goto, Record, DrainsEarlyCalls
<1>26. ASSUME CheckerRebuildFail PROVE DrainsEarlyCalls'
  BY <1>26, <1>0 DEF CheckerRebuildFail, Goto, Record, DrainsEarlyCalls
<1>27. ASSUME CheckerRebuildPush PROVE DrainsEarlyCalls'
  BY <1>27, <1>0 DEF CheckerRebuildPush, Goto, Record, DrainsEarlyCalls
<1>28. ASSUME CheckerShrink PROVE DrainsEarlyCalls'
  BY <1>28, <1>0 DEF CheckerShrink, Goto, Record, DrainsEarlyCalls
<1>29. ASSUME CheckerNoShrink PROVE DrainsEarlyCalls'
  BY <1>29, <1>0 DEF CheckerNoShrink, Goto, Record, DrainsEarlyCalls
<1>30. ASSUME CheckerExpand PROVE DrainsEarlyCalls'
  BY <1>30, <1>0 DEF CheckerExpand, Goto, Record, DrainsEarlyCalls
<1>31. ASSUME CheckerExpandPush PROVE DrainsEarlyCalls'
  BY <1>31, <1>0 DEF CheckerExpandPush, Goto, Record, DrainsEarlyCalls
<1>32. ASSUME CheckerRest PROVE DrainsEarlyCalls'
  BY <1>32, <1>0 DEF CheckerRest, Goto, Record, DrainsEarlyCalls, Resting
<1>33. ASSUME CheckerStop PROVE DrainsEarlyCalls'
  BY <1>33, <1>0 DEF CheckerStop, Goto, Record, DrainsEarlyCalls
<1>34. ASSUME CloseShutdown PROVE DrainsEarlyCalls'
  BY <1>34, <1>0 DEF CloseShutdown, Goto, Record, DrainsEarlyCalls
<1>35. ASSUME WaitReturns PROVE DrainsEarlyCalls'
  <2>1. stage = "draining" /\ wg = 0 /\ UNCHANGED <<pc, early, checker>>
    BY <1>35 DEF WaitReturns
  <2>2. checker.at = "stopped" /\ Count(InFlight) = 0
    BY <2>1, <1>0, CountNat DEF Accounted
  <2>3. \A r \in Request : pc[r] \notin InFlight
    BY <2>2, CountZero
  <2>4. \A r \in early : pc[r] = "done"
    BY <2>3, <1>0 DEF Calls
  <2> QED
    BY <2>1, <2>2, <2>4 DEF DrainsEarlyCalls
<1>36. ASSUME ClosePool PROVE DrainsEarlyCalls'
  BY <1>36, <1>0 DEF ClosePool, Goto, Record, DrainsEarlyCalls
<1>37. ASSUME Ended PROVE DrainsEarlyCalls'
  BY <1>37, <1>0 DEF Ended, Goto, Record, DrainsEarlyCalls, vars
<1>38. CASE UNCHANGED vars
  BY <1>38 DEF vars, DrainsEarlyCalls
<1> QED
  BY <1>1, <1>2, <1>3, <1>4, <1>5, <1>6, <1>7, <1>8, <1>9, <1>10, <1>11, <1>12, <1>13,
     <1>14, <1>15, <1>16, <1>17, <1>18, <1>19, <1>20, <1>21, <1>22, <1>23, <1>24, <1>25,
     <1>26, <1>27, <1>28, <1>29, <1>30, <1>31, <1>32, <1>33, <1>34, <1>35, <1>36, <1>37,
     <1>38 DEF Next, Advance, Replenish, Check, Shutdown

(***************************************************************************)
(* SizeAccounted: the pool's counter against channel and borrowers.        *)
(***************************************************************************)

(* The calls that hold a runtime of the pool are finitely many.             *)
LEMMA BorrowersFinite == IsFiniteSet(Borrowers)
BY PoolAssumption, FS_Subset DEF Borrowers

(* Steps that neither take nor give back such a runtime keep them.          *)
LEMMA BorrowersKept ==
  ASSUME \A q \in Request :
           pc[q] \in Holding /\ q \notin temporary <=> pc'[q] \in Holding /\ q \notin temporary'
  PROVE  Borrowers' = Borrowers
BY DEF Borrowers

(* A push adds one to the length of the channel.                            *)
LEMMA LenAppend ==
  ASSUME NEW s \in Seq(Runtime), NEW x
  PROVE  Len(Append(s, x)) = Len(s) + 1
OBVIOUS

(* The counter starts at the length of the channel.                         *)
LEMMA InitSize == Init => SizeAccounted
<1> SUFFICES ASSUME Init PROVE SizeAccounted
  OBVIOUS
<1>1. Borrowers = {}
  BY DEF Init, Borrowers, Holding
<1>2. Len(runtimePool) = PoolSize
  BY PoolAssumption DEF Init
<1> QED
  BY <1>1, <1>2, FS_EmptySet, PoolAssumption DEF Init, SizeAccounted

(* Every step moves counter, drift, channel and borrowers together.         *)
LEMMA NextSize ==
  TypeRange /\ Calls /\ SizeAccounted /\ [Next]_vars => SizeAccounted'
<1> SUFFICES ASSUME TypeRange, Calls, SizeAccounted, [Next]_vars PROVE SizeAccounted'
  OBVIOUS
<1> USE DEF reqVars, poolVars, healthVars, limitVars, supplyVars, checkVars
<1>0. /\ pc \in [Request -> PC] /\ checker \in Record /\ temporary \in SUBSET Request
      /\ runtimePool \in Seq(Runtime) /\ replenishing \in SUBSET Runtime
      /\ currentPoolSize \in Int /\ drift \in Int /\ Calls /\ SizeAccounted
  BY DEF TypeRange
<1>1. ASSUME NEW r \in Request, Enter(r) PROVE SizeAccounted'
  <2>1. \A q \in Request :
          pc[q] \in Holding /\ q \notin temporary <=> pc'[q] \in Holding /\ q \notin temporary'
    BY <1>1, <1>0 DEF Enter, Goto, Holding, Calls
  <2>2. UNCHANGED <<runtimePool, currentPoolSize, drift, stage>>
    BY <1>1 DEF Enter
  <2> QED
    BY <2>1, <2>2, BorrowersKept DEF SizeAccounted
<1>2. ASSUME NEW r \in Request, Refuse(r) PROVE SizeAccounted'
  <2>1. \A q \in Request :
          pc[q] \in Holding /\ q \notin temporary <=> pc'[q] \in Holding /\ q \notin temporary'
    BY <1>2, <1>0 DEF Refuse, Goto, Holding, Calls
  <2>2. UNCHANGED <<runtimePool, currentPoolSize, drift, stage>>
    BY <1>2 DEF Refuse
  <2> QED
    BY <2>1, <2>2, BorrowersKept DEF SizeAccounted
<1>3. ASSUME NEW r \in Request, Register(r) PROVE SizeAccounted'
  <2>1. \A q \in Request :
          pc[q] \in Holding /\ q \notin temporary <=> pc'[q] \in Holding /\ q \notin temporary'
    BY <1>3, <1>0 DEF Register, Goto, Holding, Calls
  <2>2. UNCHANGED <<runtimePool, currentPoolSize, drift, stage>>
    BY <1>3 DEF Register
  <2> QED
    BY <2>1, <2>2, BorrowersKept DEF SizeAccounted
<1>4. ASSUME NEW r \in Request, GiveUp(r) PROVE SizeAccounted'
  <2>1. \A q \in Request :
          pc[q] \in Holding /\ q \notin temporary <=> pc'[q] \in Holding /\ q \notin temporary'
    BY <1>4, <1>0 DEF GiveUp, Goto, Holding, Calls
  <2>2. UNCHANGED <<runtimePool, currentPoolSize, drift, stage>>
    BY <1>4 DEF GiveUp
  <2> QED
    BY <2>1, <2>2, BorrowersKept DEF SizeAccounted
<1>5. ASSUME NEW r \in Request, AcquireSlot(r) PROVE SizeAccounted'
  <2>1. \A q \in Request :
          pc[q] \in Holding /\ q \notin temporary <=> pc'[q] \in Holding /\ q \notin temporary'
    BY <1>5, <1>0 DEF AcquireSlot, Goto, Holding, Calls
  <2>2. UNCHANGED <<runtimePool, currentPoolSize, drift, stage>>
    BY <1>5 DEF AcquireSlot
  <2> QED
    BY <2>1, <2>2, BorrowersKept DEF SizeAccounted
<1>6. ASSUME NEW r \in Request, EndLoop(r) PROVE SizeAccounted'
  <2>1. \A q \in Request :
          pc[q] \in Holding /\ q \notin temporary <=> pc'[q] \in Holding /\ q \notin temporary'
    BY <1>6, <1>0 DEF EndLoop, Goto, Holding, Calls
  <2>2. UNCHANGED <<runtimePool, currentPoolSize, drift, stage>>
    BY <1>6 DEF EndLoop
  <2> QED
    BY <2>1, <2>2, BorrowersKept DEF SizeAccounted
<1>7. ASSUME NEW r \in Request, Leave(r) PROVE SizeAccounted'
  <2>1. \A q \in Request :
          pc[q] \in Holding /\ q \notin temporary <=> pc'[q] \in Holding /\ q \notin temporary'
    BY <1>7, <1>0 DEF Leave, Goto, Holding, Calls
  <2>2. UNCHANGED <<runtimePool, currentPoolSize, drift, stage>>
    BY <1>7 DEF Leave
  <2> QED
    BY <2>1, <2>2, BorrowersKept DEF SizeAccounted
<1>8. ASSUME NEW r \in Request, Checkout(r) PROVE SizeAccounted'
  <2>1. Borrowers' = Borrowers \cup {r} /\ r \notin Borrowers
    BY <1>8, <1>0 DEF Checkout, Goto, Borrowers, Holding, Calls
  <2>2. Cardinality(Borrowers') = Cardinality(Borrowers) + 1
    BY <2>1, BorrowersFinite, FS_AddElement
  <2>3. Len(runtimePool') = Len(runtimePool) - 1
    BY <1>8, <1>0 DEF Checkout
  <2>4. UNCHANGED <<currentPoolSize, drift, stage>>
    BY <1>8 DEF Checkout
  <2> QED
    BY <2>2, <2>3, <2>4, <1>0, BorrowersFinite, FS_CardinalityType DEF SizeAccounted
<1>9. ASSUME NEW r \in Request, CheckoutTemporary(r) PROVE SizeAccounted'
  <2>1. \A q \in Request :
          pc[q] \in Holding /\ q \notin temporary <=> pc'[q] \in Holding /\ q \notin temporary'
    BY <1>9, <1>0 DEF CheckoutTemporary, Goto, Holding, Calls
  <2>2. UNCHANGED <<runtimePool, currentPoolSize, drift, stage>>
    BY <1>9 DEF CheckoutTemporary
  <2> QED
    BY <2>1, <2>2, BorrowersKept DEF SizeAccounted
<1>10. ASSUME NEW r \in Request, CheckoutFail(r) PROVE SizeAccounted'
  <2>1. \A q \in Request :
          pc[q] \in Holding /\ q \notin temporary <=> pc'[q] \in Holding /\ q \notin temporary'
    BY <1>10, <1>0 DEF CheckoutFail, Goto, Holding, Calls
  <2>2. UNCHANGED <<runtimePool, currentPoolSize, drift, stage>>
    BY <1>10 DEF CheckoutFail
  <2> QED
    BY <2>1, <2>2, BorrowersKept DEF SizeAccounted
<1>11. ASSUME NEW r \in Request, CompileFail(r) PROVE SizeAccounted'
  <2>1. \A q \in Request :
          pc[q] \in Holding /\ q \notin temporary <=> pc'[q] \in Holding /\ q \notin temporary'
    BY <1>11, <1>0 DEF CompileFail, Goto, Holding, Calls
  <2>2. UNCHANGED <<runtimePool, currentPoolSize, drift, stage>>
    BY <1>11 DEF CompileFail
  <2> QED
    BY <2>1, <2>2, BorrowersKept DEF SizeAccounted
<1>12. ASSUME NEW r \in Request, StartRun(r) PROVE SizeAccounted'
  <2>1. \A q \in Request :
          pc[q] \in Holding /\ q \notin temporary <=> pc'[q] \in Holding /\ q \notin temporary'
    BY <1>12, <1>0 DEF StartRun, Goto, Holding, Calls
  <2>2. UNCHANGED <<runtimePool, currentPoolSize, drift, stage>>
    BY <1>12 DEF StartRun
  <2> QED
    BY <2>1, <2>2, BorrowersKept DEF SizeAccounted
<1>13. ASSUME NEW r \in Request, CodeEnds(r) PROVE SizeAccounted'
  <2>1. \A q \in Request :
          pc[q] \in Holding /\ q \notin temporary <=> pc'[q] \in Holding /\ q \notin temporary'
    BY <1>13, <1>0 DEF CodeEnds, GoroutineEnds, Goto, Holding, Calls
  <2>2. UNCHANGED <<runtimePool, currentPoolSize, drift, stage>>
    BY <1>13 DEF CodeEnds, GoroutineEnds
  <2> QED
    BY <2>1, <2>2, BorrowersKept DEF SizeAccounted
<1>14. ASSUME NEW r \in Request, CodeInterrupted(r) PROVE SizeAccounted'
  <2>1. \A q \in Request :
          pc[q] \in Holding /\ q \notin temporary <=> pc'[q] \in Holding /\ q \notin temporary'
    BY <1>14, <1>0 DEF CodeInterrupted, GoroutineEnds, Goto, Holding, Calls
  <2>2. UNCHANGED <<runtimePool, currentPoolSize, drift, stage>>
    BY <1>14 DEF CodeInterrupted, GoroutineEnds
  <2> QED
    BY <2>1, <2>2, BorrowersKept DEF SizeAccounted
<1>15. ASSUME NEW r \in Request, Answered(r) PROVE SizeAccounted'
  <2>1. \A q \in Request :
          pc[q] \in Holding /\ q \notin temporary <=> pc'[q] \in Holding /\ q \notin temporary'
    BY <1>15, <1>0 DEF Answered, Goto, Holding, Calls
  <2>2. UNCHANGED <<runtimePool, currentPoolSize, drift, stage>>
    BY <1>15 DEF Answered
  <2> QED
    BY <2>1, <2>2, BorrowersKept DEF SizeAccounted
<1>16. ASSUME NEW r \in Request, TimedOut(r) PROVE SizeAccounted'
  <2>1. \A q \in Request :
          pc[q] \in Holding /\ q \notin temporary <=> pc'[q] \in Holding /\ q \notin temporary'
    BY <1>16, <1>0 DEF TimedOut, Goto, Holding, Calls
  <2>2. UNCHANGED <<runtimePool, currentPoolSize, drift, stage>>
    BY <1>16 DEF TimedOut
  <2> QED
    BY <2>1, <2>2, BorrowersKept DEF SizeAccounted
<1>17. ASSUME NEW r \in Request, ReturnDestroy(r) PROVE SizeAccounted'
  <2>1. Borrowers' = Borrowers \ {r} /\ r \in Borrowers
    BY <1>17, <1>0 DEF ReturnDestroy, WornOut, Goto, Borrowers, Holding
  <2>2. Cardinality(Borrowers') = Cardinality(Borrowers) - 1
    BY <2>1, BorrowersFinite, FS_RemoveElement
  <2>3. currentPoolSize' = currentPoolSize - 1 /\ UNCHANGED <<runtimePool, drift, stage>>
    BY <1>17 DEF ReturnDestroy
  <2> QED
    BY <2>2, <2>3, <1>0, BorrowersFinite, FS_CardinalityType DEF SizeAccounted
<1>18. ASSUME NEW r \in Request, ReturnPush(r) PROVE SizeAccounted'
  <2>1. Borrowers' = Borrowers \ {r} /\ (r \in Borrowers <=> r \notin temporary)
    BY <1>18, <1>0 DEF ReturnPush, Goto, Borrowers, Holding
  <2>2. Cardinality(Borrowers') = Cardinality(Borrowers) - IF r \in temporary THEN 0 ELSE 1
    BY <2>1, BorrowersFinite, FS_RemoveElement, FS_CardinalityType
  <2>3. Len(runtimePool') = Len(runtimePool) + 1
    BY <1>18, <1>0, LenAppend DEF ReturnPush
  <2>4. /\ currentPoolSize' = currentPoolSize + IF r \in temporary THEN 1 ELSE 0
        /\ UNCHANGED <<drift, stage>>
    BY <1>18, <1>0 DEF ReturnPush
  <2> QED
    BY <2>2, <2>3, <2>4, <1>0, BorrowersFinite, FS_CardinalityType DEF SizeAccounted
<1>19. ASSUME NEW r \in Request, ReturnDrop(r) PROVE SizeAccounted'
  <2>1. Borrowers' = Borrowers \ {r} /\ (r \in Borrowers <=> r \notin temporary)
    BY <1>19, <1>0 DEF ReturnDrop, Goto, Borrowers, Holding
  <2>2. Cardinality(Borrowers') = Cardinality(Borrowers) - IF r \in temporary THEN 0 ELSE 1
    BY <2>1, BorrowersFinite, FS_RemoveElement, FS_CardinalityType
  <2>3. /\ currentPoolSize' = currentPoolSize - IF r \in temporary THEN 0 ELSE 1
        /\ UNCHANGED <<runtimePool, drift, stage>>
    BY <1>19, <1>0 DEF ReturnDrop
  <2> QED
    BY <2>2, <2>3, <1>0, BorrowersFinite, FS_CardinalityType DEF SizeAccounted
<1>20. ASSUME NEW r \in Request, ReturnClosed(r) PROVE SizeAccounted'
  <2> QED
    BY <1>20 DEF ReturnClosed, SizeAccounted
<1>21. ASSUME ReplenishSkip PROVE SizeAccounted'
  <2>1. \A q \in Request :
          pc[q] \in Holding /\ q \notin temporary <=> pc'[q] \in Holding /\ q \notin temporary'
    BY <1>21, <1>0 DEF ReplenishSkip, Goto, Holding, Calls
  <2>2. UNCHANGED <<runtimePool, currentPoolSize, drift, stage>>
    BY <1>21 DEF ReplenishSkip
  <2> QED
    BY <2>1, <2>2, BorrowersKept DEF SizeAccounted
<1>22. ASSUME ReplenishMake PROVE SizeAccounted'
  <2>1. \A q \in Request :
          pc[q] \in Holding /\ q \notin temporary <=> pc'[q] \in Holding /\ q \notin temporary'
    BY <1>22, <1>0 DEF ReplenishMake, Goto, Holding, Calls
  <2>2. UNCHANGED <<runtimePool, currentPoolSize, drift, stage>>
    BY <1>22 DEF ReplenishMake
  <2> QED
    BY <2>1, <2>2, BorrowersKept DEF SizeAccounted
<1>23. ASSUME ReplenishPush PROVE SizeAccounted'
  <2>1. Borrowers' = Borrowers /\ UNCHANGED <<drift, stage>>
    BY <1>23 DEF ReplenishPush, Borrowers
  <2>2. CASE UNCHANGED <<runtimePool, currentPoolSize>>
    BY <2>1, <2>2 DEF SizeAccounted
  <2>3. CASE \E x \in replenishing :
               /\ runtimePool' = Append(runtimePool, x)
               /\ currentPoolSize' = currentPoolSize + 1
    <3>1. Len(runtimePool') = Len(runtimePool) + 1
      BY <2>3, <1>0, LenAppend
    <3> QED
      BY <2>1, <2>3, <3>1, <1>0, BorrowersFinite, FS_CardinalityType DEF SizeAccounted
  <2> QED
    BY <1>23, <2>2, <2>3 DEF ReplenishPush
<1>24. ASSUME CheckerTick PROVE SizeAccounted'
  <2>1. \A q \in Request :
          pc[q] \in Holding /\ q \notin temporary <=> pc'[q] \in Holding /\ q \notin temporary'
    BY <1>24, <1>0 DEF CheckerTick, Goto, Holding, Calls
  <2>2. UNCHANGED <<runtimePool, currentPoolSize, drift, stage>>
    BY <1>24 DEF CheckerTick
  <2> QED
    BY <2>1, <2>2, BorrowersKept DEF SizeAccounted
<1>25. ASSUME CheckerRebuild PROVE SizeAccounted'
  <2>1. \A q \in Request :
          pc[q] \in Holding /\ q \notin temporary <=> pc'[q] \in Holding /\ q \notin temporary'
    BY <1>25, <1>0 DEF CheckerRebuild, Goto, Holding, Calls
  <2>2. UNCHANGED <<runtimePool, currentPoolSize, drift, stage>>
    BY <1>25 DEF CheckerRebuild
  <2> QED
    BY <2>1, <2>2, BorrowersKept DEF SizeAccounted
<1>26. ASSUME CheckerRebuildFail PROVE SizeAccounted'
  <2>1. \A q \in Request :
          pc[q] \in Holding /\ q \notin temporary <=> pc'[q] \in Holding /\ q \notin temporary'
    BY <1>26, <1>0 DEF CheckerRebuildFail, Goto, Holding, Calls
  <2>2. UNCHANGED <<runtimePool, currentPoolSize, drift, stage>>
    BY <1>26 DEF CheckerRebuildFail
  <2> QED
    BY <2>1, <2>2, BorrowersKept DEF SizeAccounted
<1>27. ASSUME CheckerRebuildPush PROVE SizeAccounted'
  <2>1. Borrowers' = Borrowers /\ UNCHANGED <<currentPoolSize, stage>>
    BY <1>27 DEF CheckerRebuildPush, Borrowers
  <2>2. CASE UNCHANGED <<runtimePool, drift>>
    BY <2>1, <2>2 DEF SizeAccounted
  <2>3. CASE \E y \in checker.made :
               /\ runtimePool' = Append(runtimePool, y)
               /\ drift' = drift + 1
    <3>1. Len(runtimePool') = Len(runtimePool) + 1
      BY <2>3, <1>0, LenAppend DEF Record
    <3>2. Cardinality(Borrowers) \in Nat
      BY BorrowersFinite, FS_CardinalityType
    <3>3. currentPoolSize + drift' = (currentPoolSize + drift) + 1
      BY <2>3, <1>0
    <3> QED
      BY <2>1, <2>3, <3>1, <3>2, <3>3, <1>0 DEF SizeAccounted
  <2> QED
    BY <1>27, <2>2, <2>3 DEF CheckerRebuildPush
<1>28. ASSUME CheckerShrink PROVE SizeAccounted'
  <2>1. Borrowers' = Borrowers /\ UNCHANGED <<runtimePool, stage>>
    BY <1>28 DEF CheckerShrink, Borrowers
  <2>2. PICK X \in SUBSET checker.idle :
          /\ currentPoolSize' = currentPoolSize - Cardinality(X)
          /\ drift' = drift + Cardinality(X)
    BY <1>28 DEF CheckerShrink
  <2>3. Cardinality(X) \in Nat
    BY <2>2, <1>0, PoolAssumption, FS_Subset, FS_CardinalityType DEF Record
  <2> QED
    BY <2>1, <2>2, <2>3, <1>0, BorrowersFinite, FS_CardinalityType DEF SizeAccounted
<1>29. ASSUME CheckerNoShrink PROVE SizeAccounted'
  <2>1. \A q \in Request :
          pc[q] \in Holding /\ q \notin temporary <=> pc'[q] \in Holding /\ q \notin temporary'
    BY <1>29, <1>0 DEF CheckerNoShrink, Goto, Holding, Calls
  <2>2. UNCHANGED <<runtimePool, currentPoolSize, drift, stage>>
    BY <1>29 DEF CheckerNoShrink
  <2> QED
    BY <2>1, <2>2, BorrowersKept DEF SizeAccounted
<1>30. ASSUME CheckerExpand PROVE SizeAccounted'
  <2>1. \A q \in Request :
          pc[q] \in Holding /\ q \notin temporary <=> pc'[q] \in Holding /\ q \notin temporary'
    BY <1>30, <1>0 DEF CheckerExpand, Goto, Holding, Calls
  <2>2. UNCHANGED <<runtimePool, currentPoolSize, drift, stage>>
    BY <1>30 DEF CheckerExpand
  <2> QED
    BY <2>1, <2>2, BorrowersKept DEF SizeAccounted
<1>31. ASSUME CheckerExpandPush PROVE SizeAccounted'
  <2>1. Borrowers' = Borrowers /\ UNCHANGED <<drift, stage>>
    BY <1>31 DEF CheckerExpandPush, Borrowers
  <2>2. currentPoolSize' = currentPoolSize + 1 /\ Len(runtimePool') = Len(runtimePool) + 1
    BY <1>31, <1>0, LenAppend DEF CheckerExpandPush, Record
  <2> QED
    BY <2>1, <2>2, <1>0, BorrowersFinite, FS_CardinalityType DEF SizeAccounted
<1>32. ASSUME CheckerRest PROVE SizeAccounted'
  <2>1. \A q \in Request :
          pc[q] \in Holding /\ q \notin temporary <=> pc'[q] \in Holding /\ q \notin temporary'
    BY <1>32, <1>0 DEF CheckerRest, Resting, Goto, Holding, Calls
  <2>2. UNCHANGED <<runtimePool, currentPoolSize, drift, stage>>
    BY <1>32 DEF CheckerRest, Resting
  <2> QED
    BY <2>1, <2>2, BorrowersKept DEF SizeAccounted
<1>33. ASSUME CheckerStop PROVE SizeAccounted'
  <2>1. \A q \in Request :
          pc[q] \in Holding /\ q \notin temporary <=> pc'[q] \in Holding /\ q \notin temporary'
    BY <1>33, <1>0 DEF CheckerStop, Goto, Holding, Calls
  <2>2. UNCHANGED <<runtimePool, currentPoolSize, drift, stage>>
    BY <1>33 DEF CheckerStop
  <2> QED
    BY <2>1, <2>2, BorrowersKept DEF SizeAccounted
<1>34. ASSUME CloseShutdown PROVE SizeAccounted'
  <2>1. Borrowers' = Borrowers
    BY <1>34 DEF CloseShutdown, Borrowers
  <2> QED
    BY <1>34, <2>1 DEF CloseShutdown, SizeAccounted
<1>35. ASSUME WaitReturns PROVE SizeAccounted'
  <2>1. Borrowers' = Borrowers
    BY <1>35 DEF WaitReturns, Borrowers
  <2> QED
    BY <1>35, <2>1 DEF WaitReturns, SizeAccounted
<1>36. ASSUME ClosePool PROVE SizeAccounted'
  <2> QED
    BY <1>36 DEF ClosePool, SizeAccounted
<1>37. ASSUME Ended PROVE SizeAccounted'
  <2>1. \A q \in Request :
          pc[q] \in Holding /\ q \notin temporary <=> pc'[q] \in Holding /\ q \notin temporary'
    BY <1>37, <1>0 DEF Ended, vars, Goto, Holding, Calls
  <2>2. UNCHANGED <<runtimePool, currentPoolSize, drift, stage>>
    BY <1>37 DEF Ended, vars
  <2> QED
    BY <2>1, <2>2, BorrowersKept DEF SizeAccounted
<1>38. CASE UNCHANGED vars
  BY <1>38 DEF vars, SizeAccounted, Borrowers
<1> QED
  BY <1>1, <1>2, <1>3, <1>4, <1>5, <1>6, <1>7, <1>8, <1>9, <1>10, <1>11, <1>12, <1>13,
     <1>14, <1>15, <1>16, <1>17, <1>18, <1>19, <1>20, <1>21, <1>22, <1>23, <1>24, <1>25,
     <1>26, <1>27, <1>28, <1>29, <1>30, <1>31, <1>32, <1>33, <1>34, <1>35, <1>36, <1>37,
     <1>38 DEF Next, Advance, Replenish, Check, Shutdown

(***************************************************************************)
(* The inductive invariant and the theorems.                               *)
(***************************************************************************)
IInv == TypeRange /\ Calls /\ OneOwner /\ Clean /\ Fit /\ Accounted
        /\ DrainsEarlyCalls /\ SizeAccounted

(* The invariant from which everything below follows holds in every        *)
(* reachable state of executor, replenishers, checker and Shutdown.        *)
THEOREM Inductive == Spec => []IInv
<1>1. Init => IInv
  BY InitTyped, InitCalls, InitOneOwner, InitClean, InitFit, InitAccounted, InitDrains,
     InitSize DEF IInv
<1>2. IInv /\ [Next]_vars => IInv'
  BY NextTyped, NextCalls, NextOneOwner, NextClean, NextFit, NextAccounted, NextDrains,
     NextSize DEF IInv
<1> QED
  BY <1>1, <1>2, PTL DEF Spec

(* Types, and a semaphore and wait group that are never released twice.    *)
THEOREM Typed == Spec => []TypeOK
<1>1. IInv => TypeOK
  <2> SUFFICES ASSUME IInv PROVE TypeOK
    OBVIOUS
  <2>1. Count(Slotted) \in Nat /\ Count(InFlight) \in Nat
    BY CountNat
  <2> QED
    BY <2>1 DEF IInv, TypeOK, Accounted
<1> QED
  BY <1>1, Inductive, PTL

(* No runtime is handed to two calls, however calls, replenishers and      *)
(* checker interleave their pushes and drops.                              *)
THEOREM Owned == Spec => []OneOwner
<1>1. IInv => OneOwner
  BY DEF IInv
<1> QED
  BY <1>1, Inductive, PTL

(* A timed-out call's interrupt is gone before its runtime is pooled.      *)
THEOREM CleanPool == Spec => []PooledClean
<1>1. IInv => PooledClean
  BY DEF IInv, Clean, PooledClean
<1> QED
  BY <1>1, Inductive, PTL

(* A tracked runtime leaves the pool at its reuse limit.                   *)
THEOREM LimitKept == Spec => []WornOutLeaves
<1>1. IInv => WornOutLeaves
  BY DEF IInv, Fit, WornOutLeaves
<1> QED
  BY <1>1, Inductive, PTL

(* Slots and wait group agree with the calls in flight.                    *)
THEOREM SlotsAccounted == Spec => []Accounted
<1>1. IInv => Accounted
  BY DEF IInv
<1> QED
  BY <1>1, Inductive, PTL

(* Shutdown waits for every call registered before it began.               *)
THEOREM ShutdownDrains == Spec => []DrainsEarlyCalls
<1>1. IInv => DrainsEarlyCalls
  BY DEF IInv
<1> QED
  BY <1>1, Inductive, PTL

(* The pool's counter is exact up to what the checker's rebuilds and       *)
(* shrinks miss.                                                           *)
THEOREM CounterAccounted == Spec => []SizeAccounted
<1>1. IInv => SizeAccounted
  BY DEF IInv
<1> QED
  BY <1>1, Inductive, PTL
=============================================================================
