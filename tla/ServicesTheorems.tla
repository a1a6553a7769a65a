--------------------------- MODULE ServicesTheorems ---------------------------
(***************************************************************************)
(* Proofs about the services that run beside the requests, for every value *)
(* of the constants that Services assumes. Each component has an inductive *)
(* invariant of its own; Together makes a step of the composition one of   *)
(* every component or none.                                                *)
(***************************************************************************)
EXTENDS Services, SumTheorems, SequenceTheorems

(***************************************************************************)
(* The components take their operators from the same library.              *)
(***************************************************************************)

(* The sum and the least number of the cleanup.                              *)
LEMMA CleanupLibrary ==
  /\ \A f : Cleanup!SumFunction(f) = SumFunctionOnSet(f, DOMAIN f)
  /\ \A S : Cleanup!Min(S) = Min(S)
BY DEF Cleanup!SumFunction, Cleanup!SumFunctionOnSet, Cleanup!FoldFunctionOnSet, Cleanup!MapThenFoldSet, Cleanup!Min,
   SumFunctionOnSet, FoldFunctionOnSet, MapThenFoldSet, Min

(* The sum and the extremes of the cold tier.                                *)
LEMMA ColdLibrary ==
  /\ \A f : Cold!SumFunction(f) = SumFunctionOnSet(f, DOMAIN f)
  /\ \A S : Cold!Min(S) = Min(S) /\ Cold!Max(S) = Max(S)
BY DEF Cold!SumFunction, Cold!SumFunctionOnSet, Cold!FoldFunctionOnSet, Cold!MapThenFoldSet, Cold!Min, Cold!Max,
   SumFunctionOnSet, FoldFunctionOnSet, MapThenFoldSet, Min, Max

(* The sums of the statistics.                                               *)
LEMMA StatsLibrary ==
  /\ \A f : Stats!SumFunction(f) = SumFunctionOnSet(f, DOMAIN f)
  /\ \A f, S : Stats!SumFunctionOnSet(f, S) = SumFunctionOnSet(f, S)
BY DEF Stats!SumFunction, Stats!SumFunctionOnSet, Stats!FoldFunctionOnSet, Stats!MapThenFoldSet,
   SumFunctionOnSet, FoldFunctionOnSet, MapThenFoldSet

-----------------------------------------------------------------------------
(***************************************************************************)
(* QuotaCleanup. A row that is deleted is counted by its cleanup until the *)
(* cleanup reports.                                                        *)
(***************************************************************************)

DeletedSum == SumFunctionOnSet(cleanup_deleted, Cleanup!Cleaner)

CleanupInv ==
  /\ cleanup_old \in Nat /\ cleanup_aged \in Nat /\ cleanup_totalCleanedCount \in Nat
  /\ cleanup_deleted \in [Cleanup!Cleaner -> Nat]
  /\ cleanup_aged - cleanup_old = cleanup_totalCleanedCount + DeletedSum

(* The cleaners are finitely many.                                           *)
LEMMA Cleaners == IsFiniteSet(Cleanup!Cleaner)
BY CleanupAssumption, FS_Singleton, FS_Union DEF CleanupAssumption, Cleanup!Cleaner

(* Nothing is cleaned at first.                                              *)
LEMMA CleanupInit == Cleanup!Init => CleanupInv
<1> SUFFICES ASSUME Cleanup!Init PROVE CleanupInv
  OBVIOUS
<1>1. cleanup_deleted = [c \in Cleanup!Cleaner |-> 0]
  BY DEF Cleanup!Init
<1>2. SumFunctionOnSet(cleanup_deleted, Cleanup!Cleaner) = 0
  BY <1>1, Cleaners, SumNothing
<1> QED
  BY <1>1, <1>2 DEF Cleanup!Init, CleanupInv, DeletedSum

(* What one cleaner has deleted changes the sum by as much.                  *)
LEMMA DeletedChanges ==
  ASSUME CleanupInv, NEW c \in Cleanup!Cleaner, NEW n \in Nat, cleanup_deleted' = [cleanup_deleted EXCEPT ![c] = n]
  PROVE  /\ cleanup_deleted' \in [Cleanup!Cleaner -> Nat]
         /\ DeletedSum' = DeletedSum - cleanup_deleted[c] + n
<1> DEFINE f == cleanup_deleted
           g == cleanup_deleted'
<1>1. g \in [Cleanup!Cleaner -> Nat] /\ Numbers(f, Cleanup!Cleaner)
  BY Cleaners DEF CleanupInv, Numbers
<1>2. g[c] = n /\ g[c] \in Nat /\ \A x \in Cleanup!Cleaner : x # c => f[x] = g[x]
  BY DEF CleanupInv
<1> HIDE DEF f, g
<1>3. SumFunctionOnSet(g, Cleanup!Cleaner) = SumFunctionOnSet(f, Cleanup!Cleaner) - f[c] + g[c]
  BY <1>1, <1>2, SumChanges
<1>4. Cleanup!Cleaner' = Cleanup!Cleaner
  BY DEF Cleanup!Cleaner
<1> QED
  BY <1>1, <1>2, <1>3, <1>4 DEF f, g, DeletedSum

(* Every step of a cleaner moves the sums together.                          *)
LEMMA CleanupNext == CleanupInv /\ [Cleanup!Next]_cleanup_vars => CleanupInv'
<1> SUFFICES ASSUME CleanupInv, [Cleanup!Next]_cleanup_vars PROVE CleanupInv'
  OBVIOUS
<1>0. /\ cleanup_old \in Nat /\ cleanup_aged \in Nat /\ cleanup_totalCleanedCount \in Nat
      /\ cleanup_aged - cleanup_old = cleanup_totalCleanedCount + DeletedSum
      /\ \A c \in Cleanup!Cleaner : cleanup_deleted[c] \in Nat
  BY DEF CleanupInv
<1>7. DeletedSum \in Nat
  BY Cleaners, SumIsUnits DEF CleanupInv, Numbers, DeletedSum
<1> USE DEF Cleanup!counts, Cleanup!Goto
<1>1. CASE UNCHANGED <<cleanup_old, cleanup_aged, cleanup_totalCleanedCount, cleanup_deleted>>
  BY <1>1 DEF CleanupInv, DeletedSum
<1>2. CASE Cleanup!Age
  <2>1. DeletedSum' = DeletedSum /\ cleanup_deleted' = cleanup_deleted
    BY <1>2 DEF Cleanup!Age, DeletedSum
  <2> QED
    BY <1>0, <1>2, <1>7, <2>1 DEF Cleanup!Age, CleanupInv
<1>3. ASSUME NEW c \in Cleanup!Cleaner, Cleanup!DeleteBatch(c) PROVE CleanupInv'
  <2> DEFINE n == Min({DeleteSize, cleanup_old})
  <2>1. n \in Nat /\ n <= cleanup_old
    <3>1. {DeleteSize, cleanup_old} \in SUBSET Int /\ IsFiniteSet({DeleteSize, cleanup_old})
      <4>1. IsFiniteSet({DeleteSize} \cup {cleanup_old})
        BY FS_Singleton, FS_AddElement
      <4>2. {DeleteSize, cleanup_old} = {DeleteSize} \cup {cleanup_old}
        OBVIOUS
      <4> QED
        BY <1>0, <4>1, <4>2, CleanupAssumption DEF CleanupAssumption
    <3>2. n \in {DeleteSize, cleanup_old} /\ n <= cleanup_old
      BY <3>1, Extremes
    <3> QED
      BY <1>0, <3>2, CleanupAssumption DEF CleanupAssumption
  <2> HIDE DEF n
  <2>2. /\ cleanup_old' = cleanup_old - n /\ cleanup_deleted' = [cleanup_deleted EXCEPT ![c] = cleanup_deleted[c] + n]
        /\ UNCHANGED <<cleanup_aged, cleanup_totalCleanedCount>>
    BY <1>3, CleanupLibrary DEF Cleanup!DeleteBatch, n
  <2>3. cleanup_deleted[c] + n \in Nat /\ cleanup_deleted[c] \in Nat
    BY <1>0, <2>1
  <2>4. /\ cleanup_deleted' \in [Cleanup!Cleaner -> Nat]
        /\ DeletedSum' = DeletedSum - cleanup_deleted[c] + (cleanup_deleted[c] + n)
    BY <2>2, <2>3, DeletedChanges
  <2> QED
    BY <1>0, <1>7, <2>1, <2>2, <2>3, <2>4 DEF CleanupInv
<1>4. ASSUME NEW c \in Cleanup!Cleaner, Cleanup!Stopped(c) \/ Cleanup!UpdateStats(c) PROVE CleanupInv'
  <2>1. /\ cleanup_deleted' = [cleanup_deleted EXCEPT ![c] = 0]
        /\ cleanup_totalCleanedCount' = cleanup_totalCleanedCount + cleanup_deleted[c]
        /\ UNCHANGED <<cleanup_old, cleanup_aged>>
    BY <1>4 DEF Cleanup!Stopped, Cleanup!UpdateStats, Cleanup!Report
  <2>2. /\ cleanup_deleted' \in [Cleanup!Cleaner -> Nat]
        /\ DeletedSum' = DeletedSum - cleanup_deleted[c] + 0
    BY <2>1, DeletedChanges
  <2> QED
    BY <1>0, <1>7, <2>1, <2>2 DEF CleanupInv
<1>5. ASSUME NEW c \in Cleanup!Cleaner, Cleanup!Cleanup(c) PROVE CleanupInv'
  <2>1. CASE Cleanup!DeleteBatch(c) \/ Cleanup!Stopped(c) \/ Cleanup!UpdateStats(c)
    BY <1>3, <1>4, <2>1
  <2>2. CASE \/ Cleanup!Start(c) \/ Cleanup!CountFails(c) \/ Cleanup!Count(c) \/ Cleanup!DeleteFails(c) \/ Cleanup!Resume(c)
    BY <1>1, <2>2 DEF Cleanup!Start, Cleanup!CountFails, Cleanup!Count, Cleanup!DeleteFails, Cleanup!Resume
  <2> QED
    BY <1>5, <2>1, <2>2 DEF Cleanup!Cleanup
<1>6. CASE Cleanup!WorkerStops \/ Cleanup!Stop \/ Cleanup!StopReturns \/ UNCHANGED cleanup_vars
  BY <1>1, <1>6 DEF Cleanup!WorkerStops, Cleanup!Stop, Cleanup!StopReturns, cleanup_vars
<1> QED
  BY <1>2, <1>5, <1>6 DEF Cleanup!Next

(* The property of the cleanup, from its invariant.                          *)
LEMMA CleanupSafe == CleanupInv => CleanedAccounted
BY CleanupLibrary DEF CleanupInv, DeletedSum, CleanedAccounted, Cleanup!CleanedAccounted

-----------------------------------------------------------------------------
(***************************************************************************)
(* MainProcess. The shutdown passes the executor only when no code runs,   *)
(* and from then on no request starts any.                                 *)
(***************************************************************************)

ProcessInv ==
  /\ main_turn \in 0 .. 10
  /\ main_at \in [Handler -> {"out", "charge", "run", "record"}]
  /\ main_turn > 4 => Process!Executing = {}
  /\ main_life = "exited" => main_turn = 10

(* The pool is the fifth step of the shutdown, after the executor.           *)
LEMMA ProcessOrder ==
  ASSUME main_turn \in 0 .. 10
  PROVE  /\ Process!Reached("executor") <=> main_turn >= 4
         /\ Process!Reached("pool") <=> main_turn >= 5
         /\ Process!Now = "exit" <=> main_turn = 10
         /\ Process!Now = "executor" <=> main_turn = 4
<1>1. /\ Process!Order[1] = "server" /\ Process!Order[2] = "grace" /\ Process!Order[3] = "quota"
      /\ Process!Order[4] = "executor" /\ Process!Order[5] = "pool" /\ Process!Order[6] = "limiter"
      /\ Process!Order[7] = "cache" /\ Process!Order[8] = "addresses" /\ Process!Order[9] = "cleanup"
      /\ Process!Order[10] = "exit"
  BY DEF Process!Order
<1>2. \A i \in 1 .. 10 : /\ Process!Order[i] = "executor" <=> i = 4
                         /\ Process!Order[i] = "pool" <=> i = 5
                         /\ Process!Order[i] = "exit" <=> i = 10
  BY <1>1
<1>3. \A i \in 1 .. main_turn : i \in 1 .. 10
  OBVIOUS
<1>4. Process!Reached("executor") <=> 4 \in 1 .. main_turn
  BY <1>2, <1>3 DEF Process!Reached
<1>5. Process!Reached("pool") <=> 5 \in 1 .. main_turn
  BY <1>2, <1>3 DEF Process!Reached
<1>6. main_turn # 0 => main_turn \in 1 .. 10
  OBVIOUS
<1>7. /\ Process!Now = "exit" <=> main_turn = 10
      /\ Process!Now = "executor" <=> main_turn = 4
  BY <1>2, <1>6 DEF Process!Now
<1> QED
  BY <1>4, <1>5, <1>7

(* A process starts without requests.                                        *)
LEMMA ProcessInit == Process!Init => ProcessInv
BY DEF Process!Init, ProcessInv, Process!Executing

(* Every step of main, of its workers and of the requests keeps it.          *)
LEMMA ProcessNext == ProcessInv /\ [Process!Next]_main_vars => ProcessInv'
<1> SUFFICES ASSUME ProcessInv, [Process!Next]_main_vars PROVE ProcessInv'
  OBVIOUS
<1> USE DEF ProcessInv, Process!Executing, Process!parts
<1>1. CASE Process!StartFails \/ Process!Start \/ Process!Sync \/ Process!WorkerStops \/ Process!CleanerStops
  BY <1>1 DEF Process!StartFails, Process!Start, Process!Sync, Process!WorkerStops, Process!CleanerStops
<1>2. CASE Process!Signal
  BY <1>2 DEF Process!Signal
<1>3. CASE Process!Proceed
  <2>1. main_turn # 10 /\ (main_turn = 4 => Process!Executing = {})
    BY <1>3, ProcessOrder DEF Process!Proceed, Process!Returns
  <2>2. main_turn' = main_turn + 1 /\ main_at' = main_at /\ main_life' # "exited"
    BY <1>3 DEF Process!Proceed
  <2> QED
    BY <2>1, <2>2
<1>4. CASE Process!Exit
  BY <1>4, ProcessOrder DEF Process!Exit
<1>5. ASSUME NEW h \in Handler, Process!Charge(h) PROVE ProcessInv'
  <2>1. main_at' = [main_at EXCEPT ![h] = IF main_turn >= 4 THEN "record" ELSE "run"]
    BY <1>5, ProcessOrder DEF Process!Charge
  <2>2. UNCHANGED <<main_turn, main_life>>
    BY <1>5 DEF Process!Charge
  <2> QED
    BY <2>1, <2>2
<1>6. ASSUME NEW h \in Handler, Process!Accept(h) \/ Process!Run(h) \/ Process!Reply(h) PROVE ProcessInv'
  BY <1>6 DEF Process!Accept, Process!Run, Process!Reply
<1>7. CASE UNCHANGED main_vars
  BY <1>7 DEF main_vars
<1> QED
  BY <1>1, <1>2, <1>3, <1>4, <1>5, <1>6, <1>7 DEF Process!Next

(* The property of main, from its invariant.                                 *)
LEMMA ProcessSafe == ProcessInv => ExecutionsEndFirst
BY ProcessOrder DEF ProcessInv, ExecutionsEndFirst, Process!ExecutionsEndFirst

-----------------------------------------------------------------------------
(***************************************************************************)
(* ExecuteFront. A loop belongs to a call that waits for it, unless the    *)
(* call left before the loop had begun.                                    *)
(***************************************************************************)

FrontInv ==
  /\ front_at \in [Call -> {"away", "check", "validate", "acquire", "sync", "wait", "stop", "after"}]
  /\ front_loop \in [Call -> {"none", "new", "running", "code", "jobs", "collect", "done"}]
  /\ front_orphan \in [Call -> BOOLEAN]
  /\ \A c \in Call : /\ front_loop[c] = "new" \/ Front!Running(c) => front_at[c] \in {"wait", "stop"} \/ front_orphan[c]
                     /\ front_at[c] \in {"check", "validate", "acquire", "sync"} => front_loop[c] \in {"none", "done"}

(* No call is under way at first.                                            *)
LEMMA FrontInit == Front!Init => FrontInv
BY DEF Front!Init, Front!All, FrontInv, Front!Running

(* Every step of a call, of its loop and of the breaker keeps it.            *)
LEMMA FrontNext == FrontInv /\ [Front!Next]_front_vars => FrontInv'
<1> SUFFICES ASSUME FrontInv, [Front!Next]_front_vars PROVE FrontInv'
  OBVIOUS
<1> USE DEF FrontInv, Front!Running, Front!Set, Front!Leave, Front!Finish, Front!LoopStep, Front!call, Front!loops
<1>1. CASE Front!HalfOpen \/ Front!Shutdown \/ UNCHANGED front_vars
  BY <1>1 DEF Front!HalfOpen, Front!Shutdown, front_vars
<1>2. ASSUME NEW c \in Call, Front!Execute(c) PROVE FrontInv'
  BY <1>2 DEF Front!Execute
<1>3. ASSUME NEW c \in Call, Front!Refuse(c) \/ Front!Invalid(c) \/ Front!Overload(c) \/ Front!CancelWait(c)
      PROVE  FrontInv'
  BY <1>3 DEF Front!Refuse, Front!Invalid, Front!Overload, Front!CancelWait
<1>4. ASSUME NEW c \in Call, Front!Check(c) \/ Front!Validate(c) \/ Front!Sync(c) \/ Front!Return(c) PROVE FrontInv'
  BY <1>4 DEF Front!Check, Front!Validate, Front!Sync, Front!Return
<1>5. ASSUME NEW c \in Call, Front!Acquire(c) PROVE FrontInv'
  BY <1>5 DEF Front!Acquire
<1>6. ASSUME NEW c \in Call, Front!Done(c) \/ Front!Deadline(c) \/ Front!Stop(c) PROVE FrontInv'
  BY <1>6 DEF Front!Done, Front!Deadline, Front!Stop
<1>7. ASSUME NEW c \in Call, Front!Loop(c) PROVE FrontInv'
  BY <1>7 DEF Front!Loop, Front!RunLoop, Front!SetVm, Front!CodeEnds, Front!JobsEnd, Front!Collect
<1> QED
  BY <1>1, <1>2, <1>3, <1>4, <1>5, <1>6, <1>7 DEF Front!Next, Front!Step

(* The property of the front, from its invariant.                            *)
LEMMA FrontSafe == FrontInv => LoopsBounded
BY DEF FrontInv, LoopsBounded, Front!LoopsBounded, Front!Running

-----------------------------------------------------------------------------
(***************************************************************************)
(* FetchRequest. The request that handed its response over has left the    *)
(* context to the body, and who closes the body closes the wrapper first.  *)
(***************************************************************************)

FetchInv ==
  /\ fetch_promise = "none" => fetch_execute = "none"
  /\ fetch_wrapper # "none" => fetch_execute = "gone"
  /\ fetch_wrapper = "none" /\ fetch_reqCtx = "canceled" => Fetch!Aborted \/ fetch_execute = "gone"
  /\ fetch_wrapper = "open" /\ fetch_reqCtx = "canceled" => Fetch!Aborted

(* No request is under way at first.                                         *)
LEMMA FetchInit == Fetch!Init => FetchInv
BY DEF Fetch!Init, FetchInv

(* Every step of the script, of the request and of the body keeps it.        *)
LEMMA FetchNext == FetchInv /\ [Fetch!Next]_fetch_vars => FetchInv'
<1> SUFFICES ASSUME FetchInv, [Fetch!Next]_fetch_vars PROVE FetchInv'
  OBVIOUS
<1> USE DEF FetchInv, Fetch!Aborted, Fetch!script, Fetch!request, Fetch!body, Fetch!Cancelled, Fetch!Reply
<1>1. CASE Fetch!Script
  BY <1>1 DEF Fetch!Script, Fetch!RejectBody, Fetch!Fetch, Fetch!Abort, Fetch!Read, Fetch!Close, Fetch!CloseWrapper
<1>2. CASE Fetch!Execute
  <2>1. CASE Fetch!ParseFails \/ Fetch!SendRequest
    BY <2>1 DEF Fetch!ParseFails, Fetch!SendRequest
  <2>2. CASE Fetch!RequestFailed
    BY <2>2 DEF Fetch!RequestFailed
  <2>3. CASE Fetch!Respond
    BY <2>3 DEF Fetch!Respond
  <2>4. CASE Fetch!TooLarge \/ Fetch!SelectAbort \/ Fetch!SelectExpired \/ Fetch!Answer
    BY <2>4 DEF Fetch!TooLarge, Fetch!SelectAbort, Fetch!SelectExpired, Fetch!Answer
  <2>5. CASE Fetch!CancelUpload \/ Fetch!Drain \/ Fetch!CancelContext
    BY <2>5 DEF Fetch!CancelUpload, Fetch!Drain, Fetch!CancelContext
  <2> QED
    BY <1>2, <2>1, <2>2, <2>3, <2>4, <2>5 DEF Fetch!Execute
<1>3. CASE Fetch!Poll \/ Fetch!Transport \/ Fetch!Listener \/ Fetch!Expire \/ Fetch!ExpireUpload
  BY <1>3 DEF Fetch!Poll, Fetch!Transport, Fetch!DoFails, Fetch!DoSucceeds, Fetch!Listener, Fetch!ListenerCancels,
     Fetch!ListenerLeaves, Fetch!Expire, Fetch!ExpireUpload
<1>4. CASE Fetch!IdleFires \/ Fetch!TotalFires
  BY <1>4 DEF Fetch!IdleFires, Fetch!TotalFires
<1>5. CASE Fetch!IdleCloses \/ Fetch!TotalCloses
  BY <1>5 DEF Fetch!IdleCloses, Fetch!TotalCloses, Fetch!CloseWrapper
<1>6. CASE UNCHANGED fetch_vars
  BY <1>6 DEF fetch_vars
<1> QED
  BY <1>1, <1>2, <1>3, <1>4, <1>5, <1>6 DEF Fetch!Next

(* The property of fetch, from its invariant.                                *)
LEMMA FetchSafe == FetchInv => BodyReadable
BY DEF FetchInv, BodyReadable, Fetch!BodyReadable

-----------------------------------------------------------------------------
(***************************************************************************)
(* CacheWritePool, whose proofs are in a module of their own.              *)
(***************************************************************************)

PoolProofs == INSTANCE CacheWritePoolTheorems WITH
  tasks <- pool_tasks, serving <- pool_serving, mode <- pool_mode, stop <- pool_stop,
  shutdown <- pool_shutdown, at <- pool_at, submitted <- pool_submitted,
  processed <- pool_processed, succeeded <- pool_succeeded, failed <- pool_failed,
  timedOut <- pool_timedOut, submitBlocked <- pool_submitBlocked, refused <- pool_refused

PoolInv == PoolProofs!Shape /\ PoolProofs!Left /\ PoolProofs!Accounted

(* Finite sets and their sizes are the same in the instances.                *)
LEMMA PoolLibrary ==
  /\ \A S : PoolProofs!IsFiniteSet(S) = IsFiniteSet(S)
  /\ \A S : PoolProofs!Cardinality(S) = Cardinality(S) /\ Pool!Cardinality(S) = Cardinality(S)
BY DEF PoolProofs!IsFiniteSet, IsFiniteSet, PoolProofs!Cardinality, Pool!Cardinality, Cardinality,
   Pool!IsFiniteSet

(* The assumption on the pool is what its proofs need.                       *)
LEMMA PoolSizes == PoolProofs!Sizes
BY PoolAssumption, PoolLibrary DEF PoolAssumption, PoolProofs!Sizes, PoolProofs!Entry

(* The pool starts in its invariant.                                         *)
LEMMA PoolInit == Pool!Init => PoolInv
<1> SUFFICES ASSUME Pool!Init PROVE PoolInv
  OBVIOUS
<1>1. PoolProofs!Init
  BY DEF Pool!Init, PoolProofs!Init
<1> QED
  BY <1>1, PoolSizes, PoolProofs!InitShape, PoolProofs!InitAccounted DEF PoolInv

(* Every step of the pool keeps it.                                          *)
LEMMA PoolNext == PoolInv /\ [Pool!Next]_pool_vars => PoolInv'
<1> SUFFICES ASSUME PoolInv, [Pool!Next]_pool_vars PROVE PoolInv'
  OBVIOUS
<1>1. [PoolProofs!Next]_(PoolProofs!vars)
  <2>1. Pool!Next => PoolProofs!Next
    BY DEF Pool!Next, PoolProofs!Next, Pool!Submit, PoolProofs!Submit, Pool!TrySubmit, PoolProofs!TrySubmit,
       Pool!SubmitStep, PoolProofs!SubmitStep, Pool!CheckStop, PoolProofs!CheckStop, Pool!Send, PoolProofs!Send,
       Pool!SubmitTimeout, PoolProofs!SubmitTimeout, Pool!SubmitClosed, PoolProofs!SubmitClosed,
       Pool!WorkerStep, PoolProofs!WorkerStep, Pool!Receive, PoolProofs!Receive, Pool!ProcessTask,
       PoolProofs!ProcessTask, Pool!SeeStop, PoolProofs!SeeStop, Pool!Leave, PoolProofs!Leave, Pool!Shutdown,
       PoolProofs!Shutdown, Pool!ShutdownReturns, PoolProofs!ShutdownReturns, Pool!Task, PoolProofs!Task,
       Pool!Gone, PoolProofs!Gone, Pool!stats, PoolProofs!stats
  <2>2. UNCHANGED pool_vars => UNCHANGED PoolProofs!vars
    BY DEF pool_vars, PoolProofs!vars, PoolProofs!stats
  <2> QED
    BY <2>1, <2>2
<1>2. PoolProofs!Shape' /\ PoolProofs!Left'
  BY <1>1, PoolProofs!NextShape, PoolProofs!NextLeft DEF PoolInv
<1>3. PoolProofs!Accounted'
  BY <1>1, PoolSizes, PoolProofs!NextAccounted DEF PoolInv
<1> QED
  BY <1>2, <1>3 DEF PoolInv

(* The properties of the pool, from its invariant.                           *)
LEMMA PoolSafe == PoolInv => DrainedMeansRun /\ Pool!Accounted
<1>1. PoolInv => DrainedMeansRun
  BY PoolSizes DEF PoolInv, PoolProofs!Sizes, PoolProofs!Left, PoolProofs!Gone, DrainedMeansRun, Pool!DrainedMeansRun
<1>2. PoolInv => Pool!Accounted
  BY PoolLibrary DEF PoolInv, Pool!Accounted, PoolProofs!Accounted, Pool!Sending, Pool!Busy, PoolProofs!Sending, PoolProofs!Busy
<1> QED
  BY <1>1, <1>2

-----------------------------------------------------------------------------
(***************************************************************************)
(* ColdTier. What was handed over spans the pieces it is in now, and has   *)
(* their number; nothing is left to write when Close returns.              *)
(***************************************************************************)

ColdPiece == ColdItem \cup {None}
ColdItems(k) == ({cold_batchBuffer[k], cold_table[k], cold_lost[k]} \cup {Cold!Flushing(k)[f] : f \in Cold!Flusher}) \ {None}
ColdCounts(k) == [f \in Cold!Flusher |-> Cold!Count(Cold!Flushing(k)[f])]
ColdFlushed(k) == SumFunctionOnSet(ColdCounts(k), Cold!Flusher)

(* An item and the pieces it has come from: nothing, or their first and last.*)
Spans(h, P) ==
  /\ h = None <=> P = {}
  /\ h # None => /\ \E i \in P : i.first = h.first
                 /\ \A i \in P : h.first <= i.first
                 /\ \E i \in P : i.last = h.last
                 /\ \A i \in P : h.last >= i.last

ColdTypes ==
  /\ cold_batchBuffer \in [Key -> ColdPiece] /\ cold_table \in [Key -> ColdPiece]
  /\ cold_handed \in [Key -> ColdPiece] /\ cold_lost \in [Key -> ColdPiece]
  /\ cold_flushing \in [Cold!Flusher -> [Key -> ColdPiece] \cup {None}]
  /\ cold_timer \in {"waiting", "flush", "last", "gone"} /\ cold_spawned \in Nat
  /\ cold_closing \in {"open", "closing", "closed"} /\ cold_late \in BOOLEAN

ColdCountedAt(k) ==
  /\ Spans(cold_handed[k], ColdItems(k))
  /\ Cold!Count(cold_handed[k]) = Cold!Count(cold_batchBuffer[k]) + Cold!Count(cold_table[k])
                                    + Cold!Count(cold_lost[k]) + ColdFlushed(k)
ColdCounted == \A k \in Key : ColdCountedAt(k)

(* Goroutines of full buffers are in the wait group, the timer flushes once  *)
(* more after Close, and what comes later is late.                           *)
ColdWaited ==
  /\ Cardinality(Cold!Running) <= cold_spawned
  /\ cold_flushing["timer"] # None <=> cold_timer \in {"flush", "last"}
  /\ cold_timer \in {"last", "gone"} => cold_closing # "open" /\ (cold_late \/ cold_batchBuffer = Cold!Nothing)
  /\ cold_closing = "closed" => cold_timer = "gone" /\ (cold_late \/ cold_spawned = 0)

ColdInv == ColdTypes /\ ColdCounted /\ ColdWaited

(* Merging two pieces keeps their number, the earlier first and the later    *)
(* last time.                                                                *)
LEMMA MergeIs ==
  ASSUME NEW a \in ColdPiece, NEW b \in ColdPiece
  PROVE  /\ Cold!Merge(a, b) \in ColdPiece
         /\ a = None => Cold!Merge(a, b) = b
         /\ b = None => Cold!Merge(a, b) = a
         /\ a # None /\ b # None =>
              /\ Cold!Merge(a, b) # None
              /\ Cold!Merge(a, b).count = a.count + b.count
              /\ Cold!Merge(a, b).first = IF a.first <= b.first THEN a.first ELSE b.first
              /\ Cold!Merge(a, b).last = IF a.last >= b.last THEN a.last ELSE b.last
         /\ Cold!Count(Cold!Merge(a, b)) = Cold!Count(a) + Cold!Count(b)
         /\ Cold!Count(a) \in Nat /\ Cold!Count(b) \in Nat
<1>1. CASE a = None \/ b = None
  BY <1>1, ColdAssumption DEF ColdAssumption, ColdPiece, ColdItem, Cold!Merge, Cold!Count
<1>2. CASE a # None /\ b # None
  <2>1. a \in ColdItem /\ b \in ColdItem
    BY <1>2 DEF ColdPiece
  <2>2. ASSUME NEW m \in Int, NEW n \in Int
        PROVE  /\ Min({m, n}) = IF m <= n THEN m ELSE n
               /\ Max({m, n}) = IF m >= n THEN m ELSE n
    <3>1. IsFiniteSet({m, n}) /\ {m, n} \in SUBSET Int /\ {m, n} # {}
      <4>1. IsFiniteSet({m} \cup {n})
        BY FS_Singleton, FS_AddElement
      <4>2. {m, n} = {m} \cup {n}
        OBVIOUS
      <4> QED
        BY <4>1, <4>2
    <3>2. /\ Min({m, n}) \in {m, n} /\ \A x \in {m, n} : Min({m, n}) <= x
          /\ Max({m, n}) \in {m, n} /\ \A x \in {m, n} : Max({m, n}) >= x
      BY <3>1, Extremes
    <3> QED
      BY <3>2
  <2>3. Cold!Merge(a, b) = [count |-> a.count + b.count, first |-> IF a.first <= b.first THEN a.first ELSE b.first,
                            last |-> IF a.last >= b.last THEN a.last ELSE b.last]
    <3>1. Cold!Merge(a, b) = [count |-> a.count + b.count, first |-> Min({a.first, b.first}), last |-> Max({a.last, b.last})]
      BY <1>2, ColdLibrary DEF Cold!Merge, Cold!Item
    <3> QED
      BY <2>1, <2>2, <3>1 DEF ColdItem
  <2>4. Cold!Merge(a, b) \in ColdItem
    BY <2>1, <2>3 DEF ColdItem
  <2> QED
    BY <1>2, <2>1, <2>3, <2>4, ColdAssumption DEF ColdAssumption, ColdPiece, ColdItem, Cold!Count
<1> QED
  BY <1>1, <1>2

(* Times become an item, or nothing.                                         *)
LEMMA AggregateIs ==
  ASSUME NEW times \in SUBSET Int, IsFiniteSet(times)
  PROVE  Cold!Aggregate(times) \in ColdPiece
<1>1. CASE times = {}
  BY <1>1 DEF Cold!Aggregate, ColdPiece
<1>2. CASE times # {}
  <2>1. Cardinality(times) \in Nat /\ Min(times) \in Int /\ Max(times) \in Int
    BY <1>2, Extremes, FS_CardinalityType
  <2>2. Cold!Cardinality(times) = Cardinality(times)
    BY DEF Cold!Cardinality, Cardinality
  <2>3. Cold!Aggregate(times) = [count |-> Cardinality(times), first |-> Min(times), last |-> Max(times)]
    BY <1>2, <2>2, ColdLibrary DEF Cold!Aggregate, Cold!Item
  <2> QED
    BY <2>1, <2>3 DEF ColdPiece, ColdItem
<1> QED
  BY <1>1, <1>2

(* One more piece is merged into the whole and into one of its pieces.       *)
LEMMA SpansMore ==
  ASSUME NEW P \in SUBSET ColdItem, NEW Q \in SUBSET ColdItem, NEW h \in ColdPiece, Spans(h, P),
         NEW b \in ColdPiece, b = None \/ b \in P, NEW g \in ColdPiece,
         \A i \in Q : i = Cold!Merge(b, g) \/ i \in P,
         \A i \in P : i = b \/ i \in Q,
         Cold!Merge(b, g) = None \/ Cold!Merge(b, g) \in Q
  PROVE  Spans(Cold!Merge(h, g), Q)
<1> DEFINE m == Cold!Merge(b, g)
           n == Cold!Merge(h, g)
<1>1. None \notin ColdItem
  BY ColdAssumption DEF ColdAssumption
<1>2. /\ m \in ColdPiece /\ (b = None => m = g) /\ (g = None => m = b)
      /\ b # None /\ g # None => /\ m # None
                                 /\ m.first = IF b.first <= g.first THEN b.first ELSE g.first
                                 /\ m.last = IF b.last >= g.last THEN b.last ELSE g.last
  BY MergeIs
<1>3. /\ n \in ColdPiece /\ (h = None => n = g) /\ (g = None => n = h)
      /\ h # None /\ g # None => /\ n # None
                                 /\ n.first = IF h.first <= g.first THEN h.first ELSE g.first
                                 /\ n.last = IF h.last >= g.last THEN h.last ELSE g.last
  BY MergeIs
<1>4. /\ m = None \/ m \in Q
      /\ \A i \in Q : i = m \/ i \in P
  OBVIOUS
<1>5. \A i \in ColdItem : i.first \in Int /\ i.last \in Int
  BY DEF ColdItem
<1>6. /\ h = None <=> P = {}
      /\ h # None => /\ \E i \in P : i.first = h.first
                     /\ \A i \in P : h.first <= i.first
                     /\ \E i \in P : i.last = h.last
                     /\ \A i \in P : h.last >= i.last
  BY DEF Spans
<1> HIDE DEF m, n
<1>7. CASE g = None
  <2>1. m = b /\ n = h
    BY <1>2, <1>3, <1>7
  <2>2. P = Q
    BY <1>1, <1>4, <2>1
  <2> QED
    BY <2>1, <2>2 DEF n
<1>8. CASE g # None
  <2>1. m \in Q /\ m # None /\ n # None /\ g \in ColdItem /\ n \in ColdItem /\ m \in ColdItem
    BY <1>2, <1>3, <1>4, <1>8 DEF ColdPiece
  <2>2. CASE h = None
    <3>1. P = {} /\ b = None
      BY <1>6, <2>2
    <3>2. n = g /\ m = g /\ Q = {g}
      BY <1>2, <1>3, <1>4, <2>1, <2>2, <3>1
    <3> QED
      BY <1>5, <2>1, <3>2 DEF Spans, n
  <2>3. CASE h # None
    <3>1. h \in ColdItem /\ P # {}
      BY <1>6, <2>3 DEF ColdPiece
    <3>2. \A i \in Q : n.first <= i.first /\ n.last >= i.last
      <4> SUFFICES ASSUME NEW i \in Q PROVE n.first <= i.first /\ n.last >= i.last
        OBVIOUS
      <4>1. CASE i \in P
        BY <1>3, <1>5, <1>6, <1>8, <2>1, <2>3, <3>1, <4>1
      <4>2. CASE i = m
        BY <1>2, <1>3, <1>5, <1>6, <1>8, <2>1, <2>3, <3>1, <4>2
      <4> QED
        BY <1>4, <4>1, <4>2
    <3>3. \E i \in Q : i.first = n.first
      <4>1. PICK j \in P : j.first = h.first
        BY <1>6, <2>3
      <4>2. CASE n.first = g.first
        <5>1. m.first = n.first
          BY <1>2, <1>3, <1>5, <1>6, <1>8, <2>1, <2>3, <3>1, <3>2, <4>2
        <5> QED
          BY <2>1, <5>1
      <4>3. CASE n.first = h.first /\ h.first <= g.first
        <5>1. CASE j \in Q
          BY <4>1, <4>3, <5>1
        <5>2. CASE j = b
          <6>1. m.first = n.first
            BY <1>1, <1>2, <1>5, <1>8, <2>1, <3>1, <4>1, <4>3, <5>2
          <6> QED
            BY <2>1, <6>1
        <5> QED
          BY <5>1, <5>2
      <4> QED
        BY <1>3, <1>5, <1>8, <2>1, <2>3, <3>1, <4>2, <4>3
    <3>4. \E i \in Q : i.last = n.last
      <4>1. PICK j \in P : j.last = h.last
        BY <1>6, <2>3
      <4>2. CASE n.last = g.last
        <5>1. m.last = n.last
          BY <1>2, <1>3, <1>5, <1>6, <1>8, <2>1, <2>3, <3>1, <3>2, <4>2
        <5> QED
          BY <2>1, <5>1
      <4>3. CASE n.last = h.last /\ h.last >= g.last
        <5>1. CASE j \in Q
          BY <4>1, <4>3, <5>1
        <5>2. CASE j = b
          <6>1. m.last = n.last
            BY <1>1, <1>2, <1>5, <1>8, <2>1, <3>1, <4>1, <4>3, <5>2
          <6> QED
            BY <2>1, <6>1
        <5> QED
          BY <5>1, <5>2
      <4> QED
        BY <1>3, <1>5, <1>8, <2>1, <2>3, <3>1, <4>2, <4>3
    <3> QED
      BY <2>1, <3>2, <3>3, <3>4 DEF Spans, n
  <2> QED
    BY <2>2, <2>3
<1> QED
  BY <1>7, <1>8

(* Two of the pieces are merged.                                             *)
LEMMA SpansMerged ==
  ASSUME NEW P \in SUBSET ColdItem, NEW Q \in SUBSET ColdItem, NEW h \in ColdPiece, Spans(h, P),
         NEW t \in ColdPiece, t = None \/ t \in P, NEW x \in P,
         \A i \in Q : i = Cold!Merge(t, x) \/ i \in P,
         \A i \in P : i = t \/ i = x \/ i \in Q,
         Cold!Merge(t, x) \in Q
  PROVE  Spans(h, Q)
<1> DEFINE m == Cold!Merge(t, x)
<1>1. None \notin ColdItem /\ x \in ColdItem /\ x # None /\ x \in ColdPiece
  BY ColdAssumption DEF ColdAssumption, ColdPiece
<1>2. /\ m \in ColdPiece /\ (t = None => m = x)
      /\ t # None => /\ m # None
                     /\ m.first = IF t.first <= x.first THEN t.first ELSE x.first
                     /\ m.last = IF t.last >= x.last THEN t.last ELSE x.last
  BY <1>1, MergeIs
<1>3. m \in Q /\ m \in ColdItem /\ \A i \in Q : i = m \/ i \in P
  OBVIOUS
<1>4. \A i \in ColdItem : i.first \in Int /\ i.last \in Int
  BY DEF ColdItem
<1>5. /\ h # None /\ h \in ColdItem
      /\ \E i \in P : i.first = h.first
      /\ \A i \in P : h.first <= i.first
      /\ \E i \in P : i.last = h.last
      /\ \A i \in P : h.last >= i.last
  BY DEF Spans, ColdPiece
<1> HIDE DEF m
<1>6. t # None => t \in P /\ t \in ColdItem
  OBVIOUS
<1>7. \A i \in Q : h.first <= i.first /\ h.last >= i.last
  <2>1. h.first <= m.first /\ h.last >= m.last
    BY <1>1, <1>2, <1>3, <1>4, <1>5, <1>6
  <2> QED
    BY <1>3, <1>5, <2>1
<1>8. \E i \in Q : i.first = h.first
  <2>1. PICK j \in P : j.first = h.first
    BY <1>5
  <2>2. CASE j = t \/ j = x
    <3>1. m.first = h.first
      BY <1>1, <1>2, <1>3, <1>4, <1>5, <1>6, <1>7, <2>1, <2>2
    <3> QED
      BY <1>3, <3>1
  <2> QED
    BY <2>1, <2>2
<1>9. \E i \in Q : i.last = h.last
  <2>1. PICK j \in P : j.last = h.last
    BY <1>5
  <2>2. CASE j = t \/ j = x
    <3>1. m.last = h.last
      BY <1>1, <1>2, <1>3, <1>4, <1>5, <1>6, <1>7, <2>1, <2>2
    <3> QED
      BY <1>3, <3>1
  <2> QED
    BY <2>1, <2>2
<1> QED
  BY <1>3, <1>5, <1>7, <1>8, <1>9 DEF Spans

(* The flushers are finitely many, and so is what they hold.                 *)
LEMMA Flushers == IsFiniteSet(Cold!Flusher) /\ "timer" \in Cold!Flusher /\ \A e \in Extra : e \in Cold!Flusher /\ e # "timer"
BY ColdAssumption, FS_Singleton, FS_Union DEF ColdAssumption, Cold!Flusher

(* What is a piece and how many are counted, in a typed state.               *)
ColdTyped(k) ==
  /\ cold_batchBuffer[k] \in ColdPiece /\ cold_table[k] \in ColdPiece /\ cold_lost[k] \in ColdPiece
  /\ cold_handed[k] \in ColdPiece
  /\ \A f \in Cold!Flusher :
       /\ Cold!Flushing(k)[f] = (IF cold_flushing[f] = None THEN None ELSE cold_flushing[f][k])
       /\ Cold!Flushing(k)[f] \in ColdPiece
       /\ ColdCounts(k)[f] = Cold!Count(Cold!Flushing(k)[f]) /\ ColdCounts(k)[f] \in Nat
  /\ ColdItems(k) \in SUBSET ColdItem
  /\ \A i : i \in ColdItems(k) <=>
              /\ i # None
              /\ i \in {cold_batchBuffer[k], cold_table[k], cold_lost[k]} \/ \E f \in Cold!Flusher : i = Cold!Flushing(k)[f]
  /\ Numbers(ColdCounts(k), Cold!Flusher) /\ ColdFlushed(k) \in Nat

(* So is every hour of a typed state.                                        *)
LEMMA ColdPieces == ColdTypes => \A k \in Key : ColdTyped(k)
<1> SUFFICES ASSUME ColdTypes, NEW k \in Key PROVE ColdTyped(k)
  OBVIOUS
<1>1. /\ cold_batchBuffer[k] \in ColdPiece /\ cold_table[k] \in ColdPiece /\ cold_lost[k] \in ColdPiece
      /\ cold_handed[k] \in ColdPiece
  BY DEF ColdTypes
<1>2. ASSUME NEW f \in Cold!Flusher
      PROVE  /\ Cold!Flushing(k)[f] = (IF cold_flushing[f] = None THEN None ELSE cold_flushing[f][k])
             /\ Cold!Flushing(k)[f] \in ColdPiece
             /\ ColdCounts(k)[f] = Cold!Count(Cold!Flushing(k)[f])
  BY DEF ColdTypes, ColdPiece, Cold!Flushing, ColdCounts
<1>3. \A p \in ColdPiece : Cold!Count(p) \in Nat
  BY MergeIs
<1>4. Numbers(ColdCounts(k), Cold!Flusher)
  BY <1>2, <1>3, Flushers DEF Numbers
<1>5. ColdItems(k) \in SUBSET ColdItem
  BY <1>1, <1>2 DEF ColdItems, ColdPiece
<1>6. \A i : i \in ColdItems(k) <=>
              /\ i # None
              /\ i \in {cold_batchBuffer[k], cold_table[k], cold_lost[k]} \/ \E f \in Cold!Flusher : i = Cold!Flushing(k)[f]
  BY DEF ColdItems
<1> QED
  BY <1>1, <1>2, <1>3, <1>4, <1>5, <1>6, SumIsUnits DEF ColdFlushed, ColdTyped

(* And of its successor.                                                     *)
LEMMA ColdPiecesNext == ColdTypes' => (\A k \in Key : ColdTyped(k))'
BY ColdPieces, PTL

(* Where one flusher's piece changes, the sum does by as much.               *)
LEMMA FlushingChanges ==
  ASSUME ColdTypes, ColdTypes', NEW k \in Key, NEW f \in Cold!Flusher,
         \A g \in Cold!Flusher : g # f => Cold!Flushing(k)'[g] = Cold!Flushing(k)[g]
  PROVE  ColdFlushed(k)' = ColdFlushed(k) - Cold!Count(Cold!Flushing(k)[f]) + Cold!Count(Cold!Flushing(k)'[f])
<1> DEFINE a == ColdCounts(k)
           b == ColdCounts(k)'
<1>0. ColdTyped(k) /\ ColdTyped(k)' /\ Cold!Flusher' = Cold!Flusher
  BY ColdPieces, ColdPiecesNext DEF Cold!Flusher
<1>1. /\ Numbers(a, Cold!Flusher)
      /\ \A g \in Cold!Flusher : /\ a[g] = Cold!Count(Cold!Flushing(k)[g])
                                /\ b[g] = Cold!Count(Cold!Flushing(k)'[g]) /\ b[g] \in Nat
  BY <1>0 DEF ColdTyped, Cold!Count
<1>2. \A g \in Cold!Flusher : g # f => a[g] = b[g]
  BY <1>1
<1>3. ColdFlushed(k)' = SumFunctionOnSet(b, Cold!Flusher)
  BY <1>0 DEF ColdFlushed
<1> HIDE DEF a, b
<1>4. SumFunctionOnSet(b, Cold!Flusher) = SumFunctionOnSet(a, Cold!Flusher) - a[f] + b[f]
  BY <1>1, <1>2, SumChanges
<1>5. ColdFlushed(k) = SumFunctionOnSet(a, Cold!Flusher)
  BY DEF a, ColdFlushed
<1> QED
  BY <1>1, <1>3, <1>4, <1>5

(* The tier starts empty.                                                    *)
LEMMA ColdInit == Cold!Init => ColdInv
<1> SUFFICES ASSUME Cold!Init PROVE ColdInv
  OBVIOUS
<1>1. ColdTypes
  BY ColdAssumption DEF Cold!Init, Cold!Nothing, ColdTypes, ColdPiece
<1>2. ASSUME NEW k \in Key
      PROVE  /\ cold_handed[k] = None /\ cold_batchBuffer[k] = None /\ cold_table[k] = None /\ cold_lost[k] = None
             /\ ColdItems(k) = {} /\ ColdFlushed(k) = 0
  <2>1. /\ cold_handed[k] = None /\ cold_batchBuffer[k] = None /\ cold_table[k] = None /\ cold_lost[k] = None
        /\ \A f \in Cold!Flusher : Cold!Flushing(k)[f] = None /\ ColdCounts(k)[f] = 0
    BY DEF Cold!Init, Cold!Nothing, Cold!Flushing, ColdCounts, Cold!Count
  <2>2. ColdItems(k) = {}
    BY <2>1 DEF ColdItems
  <2> QED
    BY <2>1, <2>2, Flushers, SumNothing DEF ColdFlushed
<1>3. ColdCounted
  BY <1>2 DEF ColdCounted, ColdCountedAt, Spans, Cold!Count
<1>4. ColdWaited
  <2>1. Cold!Running = {}
    BY Flushers DEF Cold!Init, Cold!Running
  <2> QED
    BY <2>1, Flushers, FS_EmptySet DEF Cold!Init, ColdWaited
<1> QED
  BY <1>1, <1>3, <1>4 DEF ColdInv

(* Types survive every step.                                                 *)
LEMMA ColdTypesNext == ColdTypes /\ ColdWaited /\ [Cold!Next]_cold_vars => ColdTypes'
<1> SUFFICES ASSUME ColdTypes, ColdWaited, [Cold!Next]_cold_vars PROVE ColdTypes'
  OBVIOUS
<1>0. Cold!Flusher' = Cold!Flusher
  BY DEF Cold!Flusher
<1>1. CASE Cold!Set
  <2>1. PICK batch \in Batches :
          /\ cold_batchBuffer' = [k \in Key |-> Cold!Merge(cold_batchBuffer[k], Cold!Aggregate(batch[k]))]
          /\ cold_handed' = [k \in Key |-> Cold!Merge(cold_handed[k], Cold!Aggregate(batch[k]))]
          /\ cold_spawned' = cold_spawned + 1 \/ cold_spawned' = cold_spawned
    BY <1>1 DEF Cold!Set
  <2>2. UNCHANGED <<cold_flushing, cold_timer, cold_closing, cold_table, cold_lost>> /\ cold_late' \in BOOLEAN
    BY <1>1 DEF Cold!Set, ColdTypes
  <2>3. ASSUME NEW k \in Key
        PROVE  /\ Cold!Merge(cold_batchBuffer[k], Cold!Aggregate(batch[k])) \in ColdPiece
               /\ Cold!Merge(cold_handed[k], Cold!Aggregate(batch[k])) \in ColdPiece
    <3>1. Cold!Aggregate(batch[k]) \in ColdPiece
      BY AggregateIs, ColdAssumption DEF ColdAssumption
    <3> QED
      BY <3>1, ColdPieces, MergeIs DEF ColdTyped
  <2> QED
    BY <1>0, <2>1, <2>2, <2>3 DEF ColdTypes
<1>2. ASSUME NEW f \in Cold!Flusher, Cold!Insert(f) PROVE ColdTypes'
  <2>1. PICK k \in Key :
          /\ cold_flushing[f][k] # None /\ cold_flushing' = [cold_flushing EXCEPT ![f][k] = None]
          /\ \/ cold_table' = [cold_table EXCEPT ![k] = Cold!Merge(cold_table[k], cold_flushing[f][k])] /\ UNCHANGED cold_lost
             \/ cold_lost' = [cold_lost EXCEPT ![k] = Cold!Merge(cold_lost[k], cold_flushing[f][k])] /\ UNCHANGED cold_table
    BY <1>2 DEF Cold!Insert
  <2>2. cold_flushing[f] \in [Key -> ColdPiece] /\ cold_flushing[f][k] \in ColdPiece
    BY <1>2 DEF ColdTypes, Cold!Insert
  <2>3. /\ Cold!Merge(cold_table[k], cold_flushing[f][k]) \in ColdPiece
        /\ Cold!Merge(cold_lost[k], cold_flushing[f][k]) \in ColdPiece
    BY <2>2, ColdPieces, MergeIs DEF ColdTyped
  <2>4. cold_flushing' \in [Cold!Flusher -> [Key -> ColdPiece] \cup {None}]
    <3>1. [cold_flushing[f] EXCEPT ![k] = None] \in [Key -> ColdPiece]
      BY <2>2 DEF ColdPiece
    <3> QED
      BY <2>1, <3>1 DEF ColdTypes
  <2>5. cold_table' \in [Key -> ColdPiece] /\ cold_lost' \in [Key -> ColdPiece]
    BY <2>1, <2>3 DEF ColdTypes
  <2> QED
    BY <1>0, <1>2, <2>4, <2>5 DEF ColdTypes, Cold!Insert
<1>3. ASSUME NEW f \in Cold!Flusher, Cold!Swap(f)
      PROVE  /\ cold_flushing' \in [Cold!Flusher -> [Key -> ColdPiece] \cup {None}]
             /\ cold_batchBuffer' \in [Key -> ColdPiece]
             /\ UNCHANGED <<cold_closing, cold_table, cold_handed, cold_lost, cold_late>>
  BY <1>3 DEF Cold!Swap, Cold!Nothing, ColdTypes, ColdPiece
<1>4. ASSUME NEW f \in Cold!Flusher, Cold!Flushed(f)
      PROVE  cold_flushing' \in [Cold!Flusher -> [Key -> ColdPiece] \cup {None}]
  BY <1>4 DEF Cold!Flushed, ColdTypes
<1>5. ASSUME NEW e \in Extra, Cold!ExtraFlush(e) PROVE ColdTypes'
  <2>1. Cold!Swap(e) /\ UNCHANGED <<cold_timer, cold_spawned>>
    BY <1>5 DEF Cold!ExtraFlush
  <2> QED
    BY <1>0, <1>3, <2>1, Flushers DEF ColdTypes
<1>6. ASSUME NEW e \in Extra, Cold!ExtraDone(e) PROVE ColdTypes'
  <2>1. /\ Cold!Flushed(e) /\ cold_spawned' = cold_spawned - 1
        /\ UNCHANGED <<cold_batchBuffer, cold_timer, cold_closing, cold_table, cold_handed, cold_lost, cold_late>>
    BY <1>6 DEF Cold!ExtraDone
  <2>2. cold_spawned >= 1
    <3>1. e \in Cold!Running /\ IsFiniteSet(Cold!Running)
      <4>1. IsFiniteSet(Extra) /\ Cold!Running \in SUBSET Extra
        BY ColdAssumption DEF ColdAssumption, Cold!Running
      <4>2. IsFiniteSet(Cold!Running)
        BY <4>1, FS_Subset
      <4>3. cold_flushing[e] # None
        BY <2>1, ColdAssumption DEF Cold!Flushed, Cold!Nothing, ColdAssumption, ColdItem
      <4> QED
        BY <4>2, <4>3 DEF Cold!Running
    <3>2. Cardinality(Cold!Running) \in Nat /\ Cardinality(Cold!Running) # 0
      BY <3>1, FS_EmptySet, FS_CardinalityType
    <3> QED
      BY <3>2 DEF ColdWaited, ColdTypes
  <2> QED
    BY <1>0, <1>4, <2>1, <2>2, Flushers DEF ColdTypes
<1>7. CASE Cold!TimerFires \/ Cold!TimerSeesClose
  <2>1. Cold!Swap("timer") /\ cold_timer' \in {"flush", "last"} /\ UNCHANGED cold_spawned
    BY <1>7 DEF Cold!TimerFires, Cold!TimerSeesClose
  <2> QED
    BY <1>0, <1>3, <2>1, Flushers DEF ColdTypes
<1>8. CASE Cold!TimerFlushed
  <2>1. /\ Cold!Flushed("timer") /\ cold_timer' \in {"waiting", "gone"}
        /\ UNCHANGED <<cold_batchBuffer, cold_spawned, cold_closing, cold_table, cold_handed, cold_lost, cold_late>>
    BY <1>8 DEF Cold!TimerFlushed
  <2> QED
    BY <1>0, <1>4, <2>1, Flushers DEF ColdTypes
<1>9. CASE Cold!Close \/ Cold!Closed \/ UNCHANGED cold_vars
  BY <1>0, <1>9 DEF Cold!Close, Cold!Closed, cold_vars, ColdTypes
<1> QED
  BY <1>1, <1>2, <1>5, <1>6, <1>7, <1>8, <1>9 DEF Cold!Next

(* What does not change its pieces of an hour does not change their number.  *)
LEMMA ColdStays ==
  ASSUME ColdTypes, ColdTypes', NEW k \in Key, ColdCountedAt(k),
         cold_handed'[k] = cold_handed[k], cold_batchBuffer'[k] = cold_batchBuffer[k],
         cold_table'[k] = cold_table[k], cold_lost'[k] = cold_lost[k],
         \A g \in Cold!Flusher : Cold!Flushing(k)'[g] = Cold!Flushing(k)[g]
  PROVE  ColdCountedAt(k)'
<1>1. ColdTyped(k) /\ ColdTyped(k)' /\ Cold!Flusher' = Cold!Flusher
  BY ColdPieces, ColdPiecesNext DEF Cold!Flusher
<1>2. ColdItems(k)' = ColdItems(k)
  <2>1. \A i : i \in ColdItems(k)' <=> i \in ColdItems(k)
    BY <1>1 DEF ColdTyped
  <2> QED
    BY <2>1
<1>3. ColdFlushed(k)' = ColdFlushed(k)
  <2>1. ColdFlushed(k)' = ColdFlushed(k) - Cold!Count(Cold!Flushing(k)["timer"]) + Cold!Count(Cold!Flushing(k)'["timer"])
    BY Flushers, FlushingChanges
  <2>2. Cold!Flushing(k)'["timer"] = Cold!Flushing(k)["timer"] /\ ColdFlushed(k) \in Nat
        /\ Cold!Count(Cold!Flushing(k)["timer"]) \in Nat
    BY <1>1, Flushers DEF ColdTyped
  <2> QED
    BY <2>1, <2>2
<1> QED
  BY <1>2, <1>3 DEF ColdCountedAt, Spans, Cold!Count

(* Set: the times of the call join the buffer and what was handed over.      *)
LEMMA ColdSet ==
  ASSUME ColdTypes, ColdTypes', NEW k \in Key, ColdCountedAt(k), Cold!Set
  PROVE  ColdCountedAt(k)'
<1>1. ColdTyped(k) /\ ColdTyped(k)' /\ Cold!Flusher' = Cold!Flusher
  BY ColdPieces, ColdPiecesNext DEF Cold!Flusher
<1>2. PICK batch \in Batches :
        /\ cold_batchBuffer'[k] = Cold!Merge(cold_batchBuffer[k], Cold!Aggregate(batch[k]))
        /\ cold_handed'[k] = Cold!Merge(cold_handed[k], Cold!Aggregate(batch[k]))
  BY DEF Cold!Set
<1> DEFINE g == Cold!Aggregate(batch[k])
           b == cold_batchBuffer[k]
           h == cold_handed[k]
<1>3. g \in ColdPiece
  BY AggregateIs, ColdAssumption DEF ColdAssumption
<1>4. cold_table'[k] = cold_table[k] /\ cold_lost'[k] = cold_lost[k] /\ cold_flushing' = cold_flushing
  BY DEF Cold!Set
<1>5. \A f \in Cold!Flusher : Cold!Flushing(k)'[f] = Cold!Flushing(k)[f]
  BY <1>1, <1>4 DEF ColdTyped
<1> HIDE DEF g
<1>6. /\ ColdItems(k) \in SUBSET ColdItem /\ ColdItems(k)' \in SUBSET ColdItem
      /\ b \in ColdPiece /\ h \in ColdPiece /\ Cold!Merge(b, g) \in ColdPiece
      /\ b = None \/ b \in ColdItems(k)
      /\ \A i \in ColdItems(k)' : i = Cold!Merge(b, g) \/ i \in ColdItems(k)
      /\ \A i \in ColdItems(k) : i = b \/ i \in ColdItems(k)'
      /\ Cold!Merge(b, g) = None \/ Cold!Merge(b, g) \in ColdItems(k)'
  <2>1. Cold!Merge(b, g) \in ColdPiece /\ Cold!Merge(b, g) = cold_batchBuffer'[k]
    BY <1>1, <1>2 DEF ColdTyped, g
  <2>2. ColdItems(k) \in SUBSET ColdItem /\ ColdItems(k)' \in SUBSET ColdItem /\ b \in ColdPiece /\ h \in ColdPiece
    BY <1>1 DEF ColdTyped
  <2>3. b = None \/ b \in ColdItems(k)
    BY <1>1 DEF ColdTyped
  <2>4. Cold!Merge(b, g) = None \/ Cold!Merge(b, g) \in ColdItems(k)'
    BY <1>1, <2>1 DEF ColdTyped
  <2>5. \A i \in ColdItems(k)' : i = Cold!Merge(b, g) \/ i \in ColdItems(k)
    BY <1>1, <1>4, <1>5, <2>1 DEF ColdTyped
  <2>6. \A i \in ColdItems(k) : i = b \/ i \in ColdItems(k)'
    BY <1>1, <1>4, <1>5, <2>1 DEF ColdTyped
  <2> QED
    BY <2>1, <2>2, <2>3, <2>4, <2>5, <2>6
<1>7. Spans(Cold!Merge(h, g), ColdItems(k)')
  <2>1. Spans(h, ColdItems(k))
    BY DEF ColdCountedAt
  <2> DEFINE P == ColdItems(k)
             Q == ColdItems(k)'
  <2> HIDE DEF P, Q, b, h
  <2>2. /\ P \in SUBSET ColdItem /\ Q \in SUBSET ColdItem
        /\ b = None \/ b \in P
        /\ \A i \in Q : i = Cold!Merge(b, g) \/ i \in P
        /\ \A i \in P : i = b \/ i \in Q
        /\ Cold!Merge(b, g) = None \/ Cold!Merge(b, g) \in Q
        /\ Spans(h, P) /\ b \in ColdPiece /\ h \in ColdPiece
    BY <1>6, <2>1 DEF P, Q, b, h
  <2>3. Spans(Cold!Merge(h, g), Q)
    BY <1>3, <2>2, SpansMore
  <2> QED
    BY <2>3 DEF Q
<1>8. ColdFlushed(k)' = ColdFlushed(k)
  <2>1. ColdFlushed(k)' = ColdFlushed(k) - Cold!Count(Cold!Flushing(k)["timer"]) + Cold!Count(Cold!Flushing(k)'["timer"])
    BY <1>5, Flushers, FlushingChanges
  <2>2. Cold!Flushing(k)'["timer"] = Cold!Flushing(k)["timer"] /\ ColdFlushed(k) \in Nat
        /\ Cold!Count(Cold!Flushing(k)["timer"]) \in Nat
    BY <1>1, <1>5, Flushers DEF ColdTyped
  <2> QED
    BY <2>1, <2>2
<1>9. /\ Cold!Count(Cold!Merge(b, g)) = Cold!Count(b) + Cold!Count(g)
      /\ Cold!Count(Cold!Merge(h, g)) = Cold!Count(h) + Cold!Count(g)
      /\ Cold!Count(b) \in Nat /\ Cold!Count(h) \in Nat /\ Cold!Count(g) \in Nat
      /\ Cold!Count(cold_table[k]) \in Nat /\ Cold!Count(cold_lost[k]) \in Nat /\ ColdFlushed(k) \in Nat
  BY <1>1, <1>3, MergeIs DEF ColdTyped
<1>10. Cold!Count(h) = Cold!Count(b) + Cold!Count(cold_table[k]) + Cold!Count(cold_lost[k]) + ColdFlushed(k)
  BY DEF ColdCountedAt
<1>11. /\ Cold!Count(cold_handed[k])' = Cold!Count(Cold!Merge(h, g))
       /\ Cold!Count(cold_batchBuffer[k])' = Cold!Count(Cold!Merge(b, g))
       /\ Cold!Count(cold_table[k])' = Cold!Count(cold_table[k]) /\ Cold!Count(cold_lost[k])' = Cold!Count(cold_lost[k])
  BY <1>2, <1>4 DEF Cold!Count, g
<1>12. Spans(cold_handed[k], ColdItems(k))'
  BY <1>2, <1>7 DEF Spans, g
<1> HIDE DEF b, h
<1> QED
  BY <1>8, <1>9, <1>10, <1>11, <1>12 DEF ColdCountedAt

(* flushBatch: the piece of the buffer becomes the flusher's.                *)
LEMMA ColdSwap ==
  ASSUME ColdTypes, ColdTypes', NEW k \in Key, ColdCountedAt(k), NEW f \in Cold!Flusher, Cold!Swap(f)
  PROVE  ColdCountedAt(k)'
<1>1. ColdTyped(k) /\ ColdTyped(k)' /\ Cold!Flusher' = Cold!Flusher
  BY ColdPieces, ColdPiecesNext DEF Cold!Flusher
<1>2. /\ cold_flushing[f] = None /\ cold_flushing' = [cold_flushing EXCEPT ![f] = cold_batchBuffer]
      /\ cold_batchBuffer'[k] = None
      /\ cold_handed'[k] = cold_handed[k] /\ cold_table'[k] = cold_table[k] /\ cold_lost'[k] = cold_lost[k]
  BY DEF Cold!Swap, Cold!Nothing
<1>3. cold_batchBuffer # None
  BY ColdAssumption DEF ColdAssumption, ColdTypes, ColdPiece
<1>4. /\ Cold!Flushing(k)[f] = None /\ Cold!Flushing(k)'[f] = cold_batchBuffer[k]
      /\ \A g \in Cold!Flusher : g # f => Cold!Flushing(k)'[g] = Cold!Flushing(k)[g]
  BY <1>1, <1>2, <1>3 DEF ColdTyped, ColdTypes
<1>5. ColdItems(k)' = ColdItems(k)
  <2>1. \A i : i \in ColdItems(k)' <=> i \in ColdItems(k)
    BY <1>1, <1>2, <1>4 DEF ColdTyped
  <2> QED
    BY <2>1
<1>6. ColdFlushed(k)' = ColdFlushed(k) - Cold!Count(None) + Cold!Count(cold_batchBuffer[k])
  BY <1>4, FlushingChanges
<1>7. Cold!Count(None) = 0 /\ Cold!Count(cold_batchBuffer[k]) \in Nat /\ ColdFlushed(k) \in Nat
      /\ Cold!Count(cold_table[k]) \in Nat /\ Cold!Count(cold_lost[k]) \in Nat
  BY <1>1, MergeIs DEF ColdTyped, Cold!Count
<1>8. /\ Cold!Count(cold_handed[k])' = Cold!Count(cold_handed[k])
      /\ Cold!Count(cold_batchBuffer[k])' = 0
      /\ Cold!Count(cold_table[k])' = Cold!Count(cold_table[k]) /\ Cold!Count(cold_lost[k])' = Cold!Count(cold_lost[k])
  BY <1>2 DEF Cold!Count
<1>9. Spans(cold_handed[k], ColdItems(k))'
  BY <1>2, <1>5 DEF Spans, ColdCountedAt
<1> QED
  BY <1>6, <1>7, <1>8, <1>9 DEF ColdCountedAt

(* insertBatch: the flusher's piece is merged into the row, or lost.         *)
LEMMA ColdInsert ==
  ASSUME ColdTypes, ColdTypes', NEW k \in Key, ColdCountedAt(k), NEW f \in Cold!Flusher, Cold!Insert(f)
  PROVE  ColdCountedAt(k)'
<1>1. ColdTyped(k) /\ ColdTyped(k)' /\ Cold!Flusher' = Cold!Flusher
  BY ColdPieces, ColdPiecesNext DEF Cold!Flusher
<1>2. PICK j \in Key :
        /\ cold_flushing[f] # None /\ cold_flushing[f][j] # None
        /\ cold_flushing' = [cold_flushing EXCEPT ![f][j] = None]
        /\ \/ cold_table' = [cold_table EXCEPT ![j] = Cold!Merge(cold_table[j], cold_flushing[f][j])] /\ UNCHANGED cold_lost
           \/ cold_lost' = [cold_lost EXCEPT ![j] = Cold!Merge(cold_lost[j], cold_flushing[f][j])] /\ UNCHANGED cold_table
  BY DEF Cold!Insert
<1>3. cold_handed' = cold_handed /\ cold_batchBuffer' = cold_batchBuffer
  BY DEF Cold!Insert
<1>4. cold_flushing'[f] # None /\ cold_flushing'[f] = [cold_flushing[f] EXCEPT ![j] = None]
      /\ cold_flushing[f] \in [Key -> ColdPiece]
      /\ \A g \in Cold!Flusher : g # f => cold_flushing'[g] = cold_flushing[g]
  <2>1. cold_flushing[f] \in [Key -> ColdPiece]
    BY <1>2 DEF ColdTypes
  <2>2. /\ cold_flushing'[f] = [cold_flushing[f] EXCEPT ![j] = None]
        /\ \A g \in Cold!Flusher : g # f => cold_flushing'[g] = cold_flushing[g]
    BY <1>2 DEF ColdTypes
  <2>3. cold_flushing'[f] \in [Key -> ColdPiece]
    BY <2>1, <2>2 DEF ColdPiece
  <2> QED
    BY <2>1, <2>2, <2>3, ColdAssumption DEF ColdAssumption, ColdPiece
<1>5. CASE k # j
  <2>1. cold_table'[k] = cold_table[k] /\ cold_lost'[k] = cold_lost[k]
    BY <1>2, <1>5 DEF ColdTypes
  <2>2. \A g \in Cold!Flusher : Cold!Flushing(k)'[g] = Cold!Flushing(k)[g]
    <3>1. \A g \in Cold!Flusher : g # f => Cold!Flushing(k)'[g] = Cold!Flushing(k)[g]
      BY <1>1, <1>4 DEF ColdTyped
    <3>2. Cold!Flushing(k)'[f] = cold_flushing'[f][k] /\ Cold!Flushing(k)[f] = cold_flushing[f][k]
      BY <1>1, <1>2, <1>4 DEF ColdTyped
    <3>3. cold_flushing'[f][k] = cold_flushing[f][k]
      BY <1>4, <1>5
    <3> QED
      BY <3>1, <3>2, <3>3
  <2> QED
    BY <1>3, <2>1, <2>2, ColdStays
<1>6. CASE k = j
  <2> DEFINE x == cold_flushing[f][k]
  <2>1. /\ x # None /\ x \in ColdPiece /\ Cold!Flushing(k)[f] = x /\ Cold!Flushing(k)'[f] = None
        /\ \A g \in Cold!Flusher : g # f => Cold!Flushing(k)'[g] = Cold!Flushing(k)[g]
    BY <1>1, <1>2, <1>4, <1>6 DEF ColdTyped
  <2>2. PICK t \in ColdPiece :
          \/ /\ t = cold_table[k] /\ cold_table'[k] = Cold!Merge(t, x) /\ cold_lost'[k] = cold_lost[k]
          \/ /\ t = cold_lost[k] /\ cold_lost'[k] = Cold!Merge(t, x) /\ cold_table'[k] = cold_table[k]
    <3>1. cold_table[k] \in ColdPiece /\ cold_lost[k] \in ColdPiece
      BY <1>1 DEF ColdTyped
    <3> QED
      BY <1>2, <1>6, <3>1 DEF ColdTypes
  <2> HIDE DEF x
  <2>3. /\ Cold!Merge(t, x) \in ColdPiece /\ Cold!Merge(t, x) # None
        /\ Cold!Count(Cold!Merge(t, x)) = Cold!Count(t) + Cold!Count(x)
        /\ Cold!Count(t) \in Nat /\ Cold!Count(x) \in Nat
    <3>1. x \in ColdPiece /\ x # None
      BY <2>1
    <3> QED
      BY <3>1, MergeIs
  <2>4. /\ ColdItems(k) \in SUBSET ColdItem /\ ColdItems(k)' \in SUBSET ColdItem
        /\ t = None \/ t \in ColdItems(k)
        /\ x \in ColdItems(k)
        /\ \A i \in ColdItems(k)' : i = Cold!Merge(t, x) \/ i \in ColdItems(k)
        /\ \A i \in ColdItems(k) : i = t \/ i = x \/ i \in ColdItems(k)'
        /\ Cold!Merge(t, x) \in ColdItems(k)'
    BY <1>1, <1>3, <2>1, <2>2, <2>3 DEF ColdTyped
  <2>5. Spans(cold_handed[k], ColdItems(k)')
    <3> DEFINE P == ColdItems(k)
               Q == ColdItems(k)'
               h == cold_handed[k]
    <3>1. h \in ColdPiece /\ Spans(h, P)
      BY <1>1 DEF ColdCountedAt, ColdTyped
    <3>2. P \in SUBSET ColdItem /\ Q \in SUBSET ColdItem
      BY <2>4
    <3> HIDE DEF P, Q, h
    <3>3. /\ t = None \/ t \in P
          /\ x \in P
          /\ \A i \in Q : i = Cold!Merge(t, x) \/ i \in P
          /\ \A i \in P : i = t \/ i = x \/ i \in Q
          /\ Cold!Merge(t, x) \in Q
      BY <2>4 DEF P, Q
    <3>4. Spans(h, Q)
      BY <3>1, <3>2, <3>3, SpansMerged
    <3> QED
      BY <3>4 DEF Q, h
  <2>6. ColdFlushed(k)' = ColdFlushed(k) - Cold!Count(x)
    <3>1. ColdFlushed(k)' = ColdFlushed(k) - Cold!Count(x) + Cold!Count(None)
      BY <2>1, FlushingChanges
    <3> QED
      BY <1>1, <2>3, <3>1 DEF Cold!Count, ColdTyped
  <2>7. /\ Cold!Count(cold_handed[k])' = Cold!Count(cold_handed[k])
        /\ Cold!Count(cold_batchBuffer[k])' = Cold!Count(cold_batchBuffer[k])
        /\ Cold!Count(cold_table[k])' + Cold!Count(cold_lost[k])' = Cold!Count(cold_table[k]) + Cold!Count(cold_lost[k]) + Cold!Count(x)
        /\ Cold!Count(cold_table[k])' \in Nat /\ Cold!Count(cold_lost[k])' \in Nat
    <3>1. /\ Cold!Count(cold_handed[k])' = Cold!Count(cold_handed[k])
          /\ Cold!Count(cold_batchBuffer[k])' = Cold!Count(cold_batchBuffer[k])
          /\ Cold!Count(cold_table[k])' = Cold!Count(cold_table'[k]) /\ Cold!Count(cold_lost[k])' = Cold!Count(cold_lost'[k])
      BY <1>3 DEF Cold!Count
    <3>2. Cold!Count(cold_table[k]) \in Nat /\ Cold!Count(cold_lost[k]) \in Nat
      BY <1>1, MergeIs DEF ColdTyped
    <3> QED
      BY <2>2, <2>3, <3>1, <3>2
  <2>8. Cold!Count(cold_batchBuffer[k]) \in Nat /\ Cold!Count(cold_table[k]) \in Nat /\ Cold!Count(cold_lost[k]) \in Nat
        /\ ColdFlushed(k) \in Nat /\ Cold!Count(x) \in Nat
    BY <1>1, <2>3, MergeIs DEF ColdTyped
  <2>9. Spans(cold_handed[k], ColdItems(k))'
    BY <1>3, <2>5 DEF Spans
  <2> QED
    BY <2>6, <2>7, <2>8, <2>9 DEF ColdCountedAt
<1> QED
  BY <1>5, <1>6

(* A flusher that has written everything leaves with nothing.                *)
LEMMA ColdLeaves ==
  ASSUME ColdTypes, ColdTypes', NEW k \in Key, ColdCountedAt(k), NEW f \in Cold!Flusher, Cold!Flushed(f),
         UNCHANGED <<cold_batchBuffer, cold_table, cold_handed, cold_lost>>
  PROVE  ColdCountedAt(k)'
<1>1. ColdTyped(k) /\ ColdTyped(k)' /\ Cold!Flusher' = Cold!Flusher
  BY ColdPieces, ColdPiecesNext DEF Cold!Flusher
<1>2. \A g \in Cold!Flusher : Cold!Flushing(k)'[g] = Cold!Flushing(k)[g]
  BY <1>1 DEF ColdTyped, ColdTypes, Cold!Flushed, Cold!Nothing
<1> QED
  BY <1>2, ColdStays

(* Every step counts each piece once more or moves it.                       *)
LEMMA ColdCountedNext == ColdTypes /\ ColdTypes' /\ ColdCounted /\ [Cold!Next]_cold_vars => ColdCounted'
<1> SUFFICES ASSUME ColdTypes, ColdTypes', [Cold!Next]_cold_vars, NEW k \in Key, ColdCountedAt(k) PROVE ColdCountedAt(k)'
  BY DEF ColdCounted
<1>1. CASE Cold!Set
  BY <1>1, ColdSet
<1>2. ASSUME NEW f \in Cold!Flusher, Cold!Insert(f) PROVE ColdCountedAt(k)'
  BY <1>2, ColdInsert
<1>3. ASSUME NEW e \in Extra, Cold!ExtraFlush(e) PROVE ColdCountedAt(k)'
  BY <1>3, ColdSwap, Flushers DEF Cold!ExtraFlush
<1>4. ASSUME NEW e \in Extra, Cold!ExtraDone(e) PROVE ColdCountedAt(k)'
  BY <1>4, ColdLeaves, Flushers DEF Cold!ExtraDone
<1>5. CASE Cold!TimerFires \/ Cold!TimerSeesClose
  BY <1>5, ColdSwap, Flushers DEF Cold!TimerFires, Cold!TimerSeesClose
<1>6. CASE Cold!TimerFlushed
  BY <1>6, ColdLeaves, Flushers DEF Cold!TimerFlushed
<1>7. CASE Cold!Close \/ Cold!Closed \/ UNCHANGED cold_vars
  <2>1. UNCHANGED <<cold_batchBuffer, cold_flushing, cold_table, cold_handed, cold_lost>>
    BY <1>7 DEF Cold!Close, Cold!Closed, cold_vars
  <2>2. ColdTyped(k) /\ ColdTyped(k)' /\ Cold!Flusher' = Cold!Flusher
    BY ColdPieces, ColdPiecesNext DEF Cold!Flusher
  <2>3. \A g \in Cold!Flusher : Cold!Flushing(k)'[g] = Cold!Flushing(k)[g]
    BY <2>1, <2>2 DEF ColdTyped
  <2> QED
    BY <2>1, <2>3, ColdStays
<1> QED
  BY <1>1, <1>2, <1>3, <1>4, <1>5, <1>6, <1>7 DEF Cold!Next

(* The flushes of full buffers are finitely many.                            *)
LEMMA RunningFinite ==
  /\ IsFiniteSet(Cold!Running) /\ Cardinality(Cold!Running) \in Nat
  /\ Cold!Cardinality(Cold!Running) = Cardinality(Cold!Running)
<1>1. IsFiniteSet(Extra) /\ Cold!Running \in SUBSET Extra
  BY ColdAssumption DEF ColdAssumption, Cold!Running
<1>2. IsFiniteSet(Cold!Running)
  BY <1>1, FS_Subset
<1> QED
  BY <1>2, FS_CardinalityType DEF Cold!Cardinality, Cardinality

(* Who is waited for stays waited for.                                       *)
LEMMA ColdWaitedNext == ColdTypes /\ ColdTypes' /\ ColdWaited /\ [Cold!Next]_cold_vars => ColdWaited'
<1> SUFFICES ASSUME ColdTypes, ColdTypes', ColdWaited, [Cold!Next]_cold_vars PROVE ColdWaited'
  OBVIOUS
<1> USE DEF ColdWaited
<1>0. /\ cold_batchBuffer # None /\ Cold!Nothing # None
      /\ \A f \in Cold!Flusher : cold_flushing[f] # None => cold_flushing[f] \in [Key -> ColdPiece]
      /\ cold_spawned \in Nat
  BY ColdAssumption DEF ColdAssumption, ColdTypes, ColdPiece, Cold!Nothing
<1>1. ASSUME \A e \in Extra : cold_flushing'[e] = None <=> cold_flushing[e] = None
      PROVE  Cold!Running' = Cold!Running
  BY <1>1 DEF Cold!Running
<1>2. CASE Cold!Set
  <2>1. /\ UNCHANGED <<cold_flushing, cold_timer, cold_closing>>
        /\ cold_late' = (cold_late \/ cold_closing # "open")
        /\ cold_spawned' = cold_spawned \/ cold_spawned' = cold_spawned + 1
    BY <1>2 DEF Cold!Set
  <2>2. Cold!Running' = Cold!Running
    BY <1>1, <2>1
  <2>3. (Cardinality(Cold!Running) <= cold_spawned)'
    BY <1>0, <2>1, <2>2, RunningFinite
  <2> QED
    BY <2>1, <2>3 DEF Cold!Nothing
<1>3. ASSUME NEW f \in Cold!Flusher, Cold!Insert(f) PROVE ColdWaited'
  <2>1. PICK k \in Key : /\ cold_flushing[f] # None
                         /\ cold_flushing' = [cold_flushing EXCEPT ![f][k] = None]
    BY <1>3 DEF Cold!Insert
  <2>2. UNCHANGED <<cold_batchBuffer, cold_timer, cold_spawned, cold_closing, cold_late>>
    BY <1>3 DEF Cold!Insert
  <2>3. cold_flushing'[f] # None
    <3>1. cold_flushing[f] \in [Key -> ColdPiece]
      BY <1>0, <2>1
    <3>2. cold_flushing'[f] = [cold_flushing[f] EXCEPT ![k] = None]
      BY <2>1 DEF ColdTypes
    <3>3. cold_flushing'[f] \in [Key -> ColdPiece]
      BY <3>1, <3>2 DEF ColdPiece
    <3> QED
      BY <3>3, ColdAssumption DEF ColdAssumption, ColdPiece
  <2>4. \A g \in Cold!Flusher : cold_flushing'[g] = None <=> cold_flushing[g] = None
    BY <2>1, <2>3 DEF ColdTypes
  <2>5. Cold!Running' = Cold!Running
    BY <1>1, <2>4, Flushers
  <2> QED
    BY <2>2, <2>4, <2>5, Flushers DEF Cold!Nothing
<1>4. ASSUME NEW e \in Extra, Cold!ExtraFlush(e) PROVE ColdWaited'
  <2>1. /\ cold_spawned > Cold!Cardinality(Cold!Running)
        /\ cold_flushing[e] = None /\ cold_flushing' = [cold_flushing EXCEPT ![e] = cold_batchBuffer]
        /\ cold_batchBuffer' = Cold!Nothing
        /\ UNCHANGED <<cold_timer, cold_spawned, cold_closing, cold_late>>
    BY <1>4 DEF Cold!ExtraFlush, Cold!Swap
  <2>2. \A g \in Cold!Flusher : g # e => cold_flushing'[g] = cold_flushing[g]
    BY <2>1 DEF ColdTypes
  <2>3. cold_flushing'[e] # None
    BY <1>0, <2>1, Flushers DEF ColdTypes
  <2>4. e \notin Cold!Running /\ Cold!Running' = Cold!Running \cup {e}
    BY <2>1, <2>2, <2>3, Flushers DEF Cold!Running
  <2>5. Cardinality(Cold!Running)' = Cardinality(Cold!Running) + 1
    <3>1. Cardinality(Cold!Running \cup {e}) = Cardinality(Cold!Running) + 1
      BY <2>4, RunningFinite, FS_AddElement
    <3> QED
      BY <2>4, <3>1
  <2> QED
    BY <1>0, <2>1, <2>2, <2>5, RunningFinite, Flushers DEF Cold!Nothing
<1>5. ASSUME NEW e \in Extra, Cold!ExtraDone(e) PROVE ColdWaited'
  <2>1. /\ cold_flushing[e] = Cold!Nothing /\ cold_flushing' = [cold_flushing EXCEPT ![e] = None]
        /\ cold_spawned' = cold_spawned - 1
        /\ UNCHANGED <<cold_batchBuffer, cold_timer, cold_closing, cold_late>>
    BY <1>5 DEF Cold!ExtraDone, Cold!Flushed
  <2>2. \A g \in Cold!Flusher : g # e => cold_flushing'[g] = cold_flushing[g]
    BY <2>1 DEF ColdTypes
  <2>3. cold_flushing'[e] = None
    BY <2>1, Flushers DEF ColdTypes
  <2>4. e \in Cold!Running /\ Cold!Running' = Cold!Running \ {e}
    BY <1>0, <2>1, <2>2, <2>3, Flushers DEF Cold!Running
  <2>5. Cardinality(Cold!Running)' = Cardinality(Cold!Running) - 1 /\ Cardinality(Cold!Running) # 0
    <3>1. Cardinality(Cold!Running \ {e}) = Cardinality(Cold!Running) - 1
      BY <2>4, RunningFinite, FS_RemoveElement
    <3> QED
      BY <2>4, <3>1, RunningFinite, FS_EmptySet
  <2> QED
    BY <1>0, <2>1, <2>2, <2>5, RunningFinite, Flushers DEF Cold!Nothing
<1>6. CASE Cold!TimerFires \/ Cold!TimerSeesClose
  <2>1. /\ cold_timer = "waiting" /\ cold_flushing["timer"] = None
        /\ cold_flushing' = [cold_flushing EXCEPT !["timer"] = cold_batchBuffer]
        /\ cold_batchBuffer' = Cold!Nothing
        /\ (cold_timer' = "flush" \/ (cold_timer' = "last" /\ cold_closing # "open"))
        /\ UNCHANGED <<cold_spawned, cold_closing, cold_late>>
    BY <1>6 DEF Cold!TimerFires, Cold!TimerSeesClose, Cold!Swap
  <2>2. cold_flushing'["timer"] # None /\ \A e \in Extra : cold_flushing'[e] = cold_flushing[e]
    BY <1>0, <2>1, Flushers DEF ColdTypes
  <2>3. Cold!Running' = Cold!Running
    BY <1>1, <2>2
  <2> QED
    BY <2>1, <2>2, <2>3 DEF Cold!Nothing
<1>7. CASE Cold!TimerFlushed
  <2>1. /\ cold_flushing["timer"] = Cold!Nothing /\ cold_flushing' = [cold_flushing EXCEPT !["timer"] = None]
        /\ cold_timer' = IF cold_timer = "flush" THEN "waiting" ELSE "gone"
        /\ UNCHANGED <<cold_batchBuffer, cold_spawned, cold_closing, cold_late>>
    BY <1>7 DEF Cold!TimerFlushed, Cold!Flushed
  <2>2. cold_flushing'["timer"] = None /\ \A e \in Extra : cold_flushing'[e] = cold_flushing[e]
    BY <2>1, Flushers DEF ColdTypes
  <2>3. Cold!Running' = Cold!Running
    BY <1>1, <2>2
  <2> QED
    BY <1>0, <2>1, <2>2, <2>3 DEF Cold!Nothing
<1>8. CASE Cold!Close \/ Cold!Closed \/ UNCHANGED cold_vars
  <2>1. /\ UNCHANGED <<cold_batchBuffer, cold_flushing, cold_timer, cold_spawned, cold_late>>
        /\ \/ cold_closing' = cold_closing
           \/ cold_closing = "open" /\ cold_closing' = "closing"
           \/ cold_timer = "gone" /\ cold_spawned = 0 /\ cold_closing' = "closed"
    BY <1>8 DEF Cold!Close, Cold!Closed, cold_vars
  <2>2. Cold!Running' = Cold!Running
    BY <1>1, <2>1
  <2> QED
    BY <2>1, <2>2 DEF Cold!Nothing
<1> QED
  BY <1>2, <1>3, <1>4, <1>5, <1>6, <1>7, <1>8 DEF Cold!Next

(* The invariant survives every step of the tier.                            *)
LEMMA ColdNext == ColdInv /\ [Cold!Next]_cold_vars => ColdInv'
BY ColdTypesNext, ColdCountedNext, ColdWaitedNext DEF ColdInv

(* What spans a set has its smallest first and its greatest last time.       *)
LEMMA SpansExtremes ==
  ASSUME NEW P \in SUBSET ColdItem, NEW h \in ColdPiece, Spans(h, P), P # {}
  PROVE  h.first = Cold!Min({i.first : i \in P}) /\ h.last = Cold!Max({i.last : i \in P})
<1> DEFINE F == {i.first : i \in P}
           L == {i.last : i \in P}
<1>1. \A i \in ColdItem : i.first \in Int /\ i.last \in Int
  BY DEF ColdItem
<1>2. /\ h.first \in F /\ \A x \in F : x \in Int /\ h.first <= x
      /\ h.last \in L /\ \A x \in L : x \in Int /\ h.last >= x
  BY <1>1 DEF Spans
<1> HIDE DEF F, L
<1>3. h.first = Min(F)
  <2>1. \A x \in F : (\A y \in F : x <= y) => x = h.first
    BY <1>2
  <2>2. Min(F) = CHOOSE x \in F : \A y \in F : x <= y
    BY DEF Min
  <2> QED
    BY <1>2, <2>1, <2>2
<1>4. h.last = Max(L)
  <2>1. \A x \in L : (\A y \in L : x >= y) => x = h.last
    BY <1>2
  <2>2. Max(L) = CHOOSE x \in L : \A y \in L : x >= y
    BY DEF Max
  <2> QED
    BY <1>2, <2>1, <2>2
<1> QED
  BY <1>3, <1>4, ColdLibrary DEF F, L

(* What the counting says of the tier, and that nothing is left at the end.  *)
LEMMA ColdSafe == ColdInv => Cold!EachCountedOnce /\ Cold!ClosedMeansWritten
<1> SUFFICES ASSUME ColdInv PROVE Cold!EachCountedOnce /\ Cold!ClosedMeansWritten
  OBVIOUS
<1>1. \A k \in Key : ColdTyped(k) /\ ColdCountedAt(k)
  BY ColdPieces DEF ColdInv, ColdCounted
<1>2. Cold!EachCountedOnce
  <2> SUFFICES ASSUME NEW k \in Key
               PROVE  LET pieces == {cold_batchBuffer[k], cold_table[k], cold_lost[k]} \cup {Cold!Flushing(k)[f] : f \in Cold!Flusher}
                          items  == pieces \ {None}
                      IN /\ cold_handed[k] = None <=> items = {}
                         /\ Cold!Count(cold_handed[k]) = Cold!Count(cold_batchBuffer[k]) + Cold!Count(cold_table[k]) + Cold!Count(cold_lost[k])
                              + Cold!SumFunction([f \in Cold!Flusher |-> Cold!Count(Cold!Flushing(k)[f])])
                         /\ items # {} => /\ cold_handed[k].first = Cold!Min({i.first : i \in items})
                                          /\ cold_handed[k].last  = Cold!Max({i.last : i \in items})
    BY DEF Cold!EachCountedOnce
  <2>1. Spans(cold_handed[k], ColdItems(k)) /\ ColdItems(k) \in SUBSET ColdItem /\ cold_handed[k] \in ColdPiece
    BY <1>1 DEF ColdTyped, ColdCountedAt
  <2>2. ColdItems(k) # {} => /\ cold_handed[k].first = Cold!Min({i.first : i \in ColdItems(k)})
                             /\ cold_handed[k].last  = Cold!Max({i.last : i \in ColdItems(k)})
    BY <2>1, SpansExtremes
  <2>3. Cold!SumFunction([f \in Cold!Flusher |-> Cold!Count(Cold!Flushing(k)[f])]) = ColdFlushed(k)
    <3>1. Cold!SumFunction(ColdCounts(k)) = SumFunctionOnSet(ColdCounts(k), DOMAIN ColdCounts(k))
      BY ColdLibrary
    <3>2. DOMAIN ColdCounts(k) = Cold!Flusher
      BY DEF ColdCounts
    <3> QED
      BY <3>1, <3>2 DEF ColdCounts, ColdFlushed
  <2>4. /\ cold_handed[k] = None <=> ColdItems(k) = {}
        /\ Cold!Count(cold_handed[k]) = Cold!Count(cold_batchBuffer[k]) + Cold!Count(cold_table[k]) + Cold!Count(cold_lost[k]) + ColdFlushed(k)
    BY <1>1, <2>1 DEF Spans, ColdCountedAt
  <2> QED
    BY <2>2, <2>3, <2>4 DEF ColdItems
<1>3. Cold!ClosedMeansWritten
  <2> SUFFICES ASSUME cold_closing = "closed", ~cold_late, NEW k \in Key
               PROVE  cold_handed[k] = Cold!Merge(cold_table[k], cold_lost[k])
    BY DEF Cold!ClosedMeansWritten
  <2>1. /\ ColdTyped(k) /\ ColdCountedAt(k) /\ ColdWaited
    BY <1>1 DEF ColdInv
  <2>2. \A f \in Cold!Flusher : cold_flushing[f] = None
    <3>1. cold_flushing["timer"] = None /\ Cardinality(Cold!Running) = 0
      BY <2>1, RunningFinite DEF ColdWaited
    <3>2. Cold!Running = {}
      BY <3>1, RunningFinite, FS_EmptySet
    <3>3. \A e \in Extra : cold_flushing[e] = None
      BY <3>2 DEF Cold!Running
    <3> QED
      BY <3>1, <3>3 DEF Cold!Flusher
  <2>3. cold_batchBuffer[k] = None /\ \A f \in Cold!Flusher : Cold!Flushing(k)[f] = None /\ ColdCounts(k)[f] = 0
    BY <2>1, <2>2 DEF ColdWaited, Cold!Nothing, ColdTyped, Cold!Count
  <2>4. ColdFlushed(k) = 0
    BY <2>3, Flushers, SumNothing DEF ColdFlushed
  <2> DEFINE t == cold_table[k]
             x == cold_lost[k]
             h == cold_handed[k]
             P == ColdItems(k)
             m == Cold!Merge(t, x)
  <2>5. /\ t \in ColdPiece /\ x \in ColdPiece /\ h \in ColdPiece
        /\ \A i : i \in P <=> i # None /\ (i = t \/ i = x)
        /\ Spans(h, P) /\ P \in SUBSET ColdItem
        /\ Cold!Count(h) = Cold!Count(t) + Cold!Count(x)
    <3>1. Cold!Count(None) = 0 /\ Cold!Count(t) \in Nat /\ Cold!Count(x) \in Nat
      BY <2>1, MergeIs DEF Cold!Count, ColdTyped
    <3>2. Cold!Count(h) = Cold!Count(None) + Cold!Count(t) + Cold!Count(x) + 0
      BY <2>1, <2>3, <2>4 DEF ColdCountedAt
    <3>3. Cold!Count(h) = Cold!Count(t) + Cold!Count(x)
      <4> HIDE DEF t, x, h
      <4> QED
        BY <3>1, <3>2
    <3> QED
      BY <2>1, <2>3, <3>3 DEF ColdTyped, ColdCountedAt
  <2> HIDE DEF t, x, h, P
  <2>6. /\ m \in ColdPiece /\ (t = None => m = x) /\ (x = None => m = t)
        /\ t # None /\ x # None => /\ m # None
                                   /\ m.first = IF t.first <= x.first THEN t.first ELSE x.first
                                   /\ m.last = IF t.last >= x.last THEN t.last ELSE x.last
        /\ Cold!Count(m) = Cold!Count(t) + Cold!Count(x)
    BY <2>5, MergeIs
  <2> HIDE DEF m
  <2>7. h = None <=> t = None /\ x = None
    BY <2>5 DEF Spans
  <2>8. CASE h # None
    <3>1. /\ \E i \in P : i.first = h.first
          /\ \A i \in P : h.first <= i.first
          /\ \E i \in P : i.last = h.last
          /\ \A i \in P : h.last >= i.last
      BY <2>5, <2>8 DEF Spans
    <3>2. m \in ColdItem /\ h \in ColdItem /\ \A i \in ColdItem : i.first \in Int /\ i.last \in Int /\ i.count \in Nat
      BY <2>5, <2>6, <2>7, <2>8 DEF ColdPiece, ColdItem
    <3>3. m.first = h.first /\ m.last = h.last
      <4>1. CASE t = None \/ x = None
        BY <2>5, <2>6, <2>7, <2>8, <3>1, <4>1
      <4>2. CASE t # None /\ x # None
        <5>1. t \in P /\ x \in P /\ t \in ColdItem /\ x \in ColdItem
          BY <2>5, <4>2
        <5>2. /\ h.first <= t.first /\ h.first <= x.first /\ (h.first = t.first \/ h.first = x.first)
              /\ h.last >= t.last /\ h.last >= x.last /\ (h.last = t.last \/ h.last = x.last)
          BY <2>5, <3>1, <5>1
        <5> QED
          BY <2>6, <3>2, <4>2, <5>1, <5>2
      <4> QED
        BY <4>1, <4>2
    <3>4. m.count = h.count
      BY <2>5, <2>6, <2>8, <3>2, ColdAssumption DEF Cold!Count, ColdAssumption
    <3>5. m = h
      BY <3>2, <3>3, <3>4 DEF ColdItem
    <3> QED
      BY <3>5 DEF m, h, t, x
  <2>9. CASE h = None
    <3>1. m = h
      BY <2>6, <2>7, <2>9
    <3> QED
      BY <3>1 DEF m, h, t, x
  <2> QED
    BY <2>8, <2>9
<1> QED
  BY <1>2, <1>3

-----------------------------------------------------------------------------
(***************************************************************************)
(* StatsService. A transaction takes its rows in the order of their keys,  *)
(* so that no circle of waiting recorders can close; what a commit adds to *)
(* one report it adds to the others.                                       *)
(***************************************************************************)

StatsRecord == [id : Id, token : Token, modules : Seq(Nat), require : BOOLEAN, ok : BOOLEAN, time : Nat]

(* What is written: modules in their order; code without require has none.   *)
StatsGood(rec) == /\ rec \in StatsRecord /\ Increasing(rec.modules)
                  /\ ~rec.require => rec.modules = <<>>

Used(rec) == IF rec.modules = <<>> THEN <<0>> ELSE rec.modules

(* The place of a row in the order of all transactions; users come last.     *)
Place(row) == IF row[1] = "module" THEN row[2] ELSE -1

(* ParseModuleUsage: the modules of the code in their order.                 *)
LEMMA ParseSorts ==
  ASSUME NEW code \in Seq(Nat)
  PROVE  /\ Stats!ParseModuleUsage(code) \in Seq(Nat) /\ Increasing(Stats!ParseModuleUsage(code))
         /\ code = <<>> => Stats!ParseModuleUsage(code) = <<>>
<1> DEFINE all == {code[i] : i \in DOMAIN code}
           used == all \ {0}
           p == Stats!ParseModuleUsage(code)
<1>1. IsFiniteSet(all) /\ all \subseteq Nat
  <2>1. DOMAIN code = 1 .. Len(code) /\ Len(code) \in Nat /\ code \in [1 .. Len(code) -> Nat]
    OBVIOUS
  <2>2. IsFiniteSet(1 .. Len(code))
    BY <2>1, FS_Interval
  <2>3. code \in Surjection(1 .. Len(code), all)
    BY <2>1 DEF Surjection
  <2> QED
    BY <2>1, <2>2, <2>3, FS_Surjection
<1>2. IsFiniteSet(used) /\ used \subseteq Nat /\ used \in SUBSET Int
  BY <1>1, FS_Subset
<1>3. Cardinality(used) \in Nat /\ Stats!Cardinality(used) = Cardinality(used)
  BY <1>2, FS_CardinalityType DEF Stats!Cardinality, Cardinality
<1>4. p = CHOOSE list \in [1 .. Cardinality(used) -> used] : Increasing(list)
  BY <1>3 DEF Stats!ParseModuleUsage, Increasing
<1>5. p \in [1 .. Cardinality(used) -> used] /\ Increasing(p)
  <2> HIDE DEF used, p
  <2> QED
    BY <1>2, <1>4, Sorted
<1>6. ASSUME code = <<>> PROVE p = <<>>
  <2>1. used = {} /\ Cardinality(used) = 0
    BY <1>6, FS_EmptySet
  <2> QED
    BY <1>5, <2>1
<1>7. p \in Seq(Nat)
  <2> HIDE DEF used, p
  <2>1. p \in [1 .. Cardinality(used) -> Nat]
    BY <1>2, <1>5
  <2> QED
    BY <1>3, <2>1, SeqDef
<1> QED
  BY <1>5, <1>6, <1>7

(* The rows of a record: the execution, its modules in their order, the user.*)
LEMMA RowsAre ==
  ASSUME NEW rec, StatsGood(rec)
  PROVE  /\ Used(rec) \in Seq(Nat) /\ Len(Used(rec)) \in Nat \ {0} /\ Increasing(Used(rec))
         /\ ~rec.require => Used(rec)[1] = 0
         /\ Len(Stats!Rows(rec)) = Len(Used(rec)) + 2 /\ DOMAIN Stats!Rows(rec) = 1 .. Len(Used(rec)) + 2
         /\ Stats!Rows(rec)[1] = <<"execution", rec.id>>
         /\ \A i \in 2 .. Len(Used(rec)) + 1 : Stats!Rows(rec)[i] = <<"module", Used(rec)[i - 1]>>
         /\ Stats!Rows(rec)[Len(Used(rec)) + 2] = <<"user", rec.token>>
<1> DEFINE u == Used(rec)
           mods == [i \in 1 .. Len(u) |-> <<"module", u[i]>>]
<1>1. rec.modules \in Seq(Nat) /\ Increasing(rec.modules)
  BY DEF StatsGood, StatsRecord
<1>2. u \in Seq(Nat) /\ Len(u) \in Nat \ {0} /\ Increasing(u)
  <2>1. CASE rec.modules = <<>>
    <3>1. u = <<0>>
      BY <2>1 DEF Used
    <3> QED
      BY <3>1 DEF Increasing
  <2>2. CASE rec.modules # <<>>
    <3>1. u = rec.modules
      BY <2>2 DEF Used
    <3> QED
      BY <1>1, <2>2, <3>1, EmptySeq
  <2> QED
    BY <2>1, <2>2
<1>3. ~rec.require => u[1] = 0
  BY DEF StatsGood, Used
<1>4. Stats!Rows(rec) = <<<<"execution", rec.id>>>> \o mods \o <<<<"user", rec.token>>>>
  BY DEF Stats!Rows, Used
<1> HIDE DEF u
<1> DEFINE Row == {"execution", "module", "user"} \X (Id \cup Nat \cup Token)
<1>5. mods \in Seq(Row) /\ Len(mods) = Len(u) /\ <<"execution", rec.id>> \in Row /\ <<"user", rec.token>> \in Row
  <2>1. rec.id \in Id /\ rec.token \in Token
    BY DEF StatsGood, StatsRecord
  <2>2. \A i \in 1 .. Len(u) : <<"module", u[i]>> \in Row
    BY <1>2
  <2>3. mods \in [1 .. Len(u) -> Row]
    BY <2>2
  <2> QED
    BY <1>2, <2>1, <2>3
<1> HIDE DEF mods, Row
<1>6. /\ Len(Stats!Rows(rec)) = Len(u) + 2
      /\ Stats!Rows(rec)[1] = <<"execution", rec.id>>
      /\ \A i \in 2 .. Len(u) + 1 : Stats!Rows(rec)[i] = mods[i - 1]
      /\ Stats!Rows(rec)[Len(u) + 2] = <<"user", rec.token>>
      /\ DOMAIN Stats!Rows(rec) = 1 .. Len(u) + 2
  BY <1>2, <1>4, <1>5
<1>7. \A i \in 2 .. Len(u) + 1 : mods[i - 1] = <<"module", u[i - 1]>>
  BY <1>2 DEF mods
<1> QED
  BY <1>2, <1>3, <1>6, <1>7 DEF u

(* The rows before the last are in the order of their places.                *)
LEMMA PlacesRise ==
  ASSUME NEW rec, StatsGood(rec), NEW i \in 1 .. Len(Stats!Rows(rec)), NEW j \in 1 .. Len(Stats!Rows(rec)),
         i < j, j < Len(Stats!Rows(rec))
  PROVE  /\ Place(Stats!Rows(rec)[i]) \in Int /\ Place(Stats!Rows(rec)[j]) \in Int
         /\ Place(Stats!Rows(rec)[i]) < Place(Stats!Rows(rec)[j])
<1> DEFINE u == Used(rec)
           n == Len(u)
<1>1. /\ u \in Seq(Nat) /\ n \in Nat \ {0} /\ Increasing(u)
      /\ Len(Stats!Rows(rec)) = n + 2
      /\ Stats!Rows(rec)[1] = <<"execution", rec.id>>
      /\ \A x \in 2 .. n + 1 : Stats!Rows(rec)[x] = <<"module", u[x - 1]>>
  BY RowsAre
<1>2. j \in 2 .. n + 1 /\ j - 1 \in 1 .. n /\ u[j - 1] \in Nat
  BY <1>1
<1>3. Place(Stats!Rows(rec)[j]) = u[j - 1]
  BY <1>1, <1>2 DEF Place
<1>4. CASE i = 1
  <2>1. Place(Stats!Rows(rec)[i]) = -1
    BY <1>1, <1>4 DEF Place
  <2> QED
    BY <1>2, <1>3, <2>1
<1>5. CASE i # 1
  <2>1. i \in 2 .. n + 1 /\ i - 1 \in 1 .. n /\ u[i - 1] \in Nat /\ i - 1 < j - 1
    BY <1>1, <1>2, <1>5
  <2>2. Place(Stats!Rows(rec)[i]) = u[i - 1]
    BY <1>1, <2>1 DEF Place
  <2>3. u[i - 1] < u[j - 1]
    BY <1>1, <1>2, <2>1 DEF Increasing
  <2> QED
    BY <1>2, <1>3, <2>1, <2>2, <2>3
<1> QED
  BY <1>4, <1>5

StatsTypes ==
  /\ stats_record \in [Recorder -> {rec \in StatsRecord : StatsGood(rec)} \cup {None}]
  /\ stats_step \in [Recorder -> Nat]
  /\ \A r \in Recorder : stats_record[r] # None => stats_step[r] \in 1 .. Len(Stats!Rows(stats_record[r])) + 1

(* A locked row is one that its recorder, at work, has passed.               *)
StatsLocked ==
  \A row \in DOMAIN stats_locks :
    /\ stats_locks[row] \in Recorder /\ stats_record[stats_locks[row]] # None
    /\ \E i \in 1 .. stats_step[stats_locks[row]] - 1 : row = Stats!Rows(stats_record[stats_locks[row]])[i]

(* What the library's operators are in this component.                       *)
LEMMA StatsOperators ==
  /\ \A f, S : Stats!Restrict(f, S) = [x \in S |-> f[x]]
  /\ \A f : Stats!Range(f) = {f[x] : x \in DOMAIN f}
BY DEF Stats!Restrict, Stats!Range

(* No row is locked at first.                                                *)
LEMMA StatsLockedInit == Stats!Init => StatsTypes /\ StatsLocked
<1> SUFFICES ASSUME Stats!Init PROVE StatsTypes /\ StatsLocked
  OBVIOUS
<1>1. StatsTypes
  BY DEF Stats!Init, StatsTypes
<1>2. DOMAIN stats_locks = {}
  BY DEF Stats!Init
<1> QED
  BY <1>1, <1>2 DEF StatsLocked

(* The end of a transaction unlocks its rows.                                *)
LEMMA StatsEnds ==
  ASSUME StatsTypes, StatsLocked, NEW r \in Recorder, Stats!Ended(r)
  PROVE  StatsTypes' /\ StatsLocked'
<1>1. /\ stats_record' = [stats_record EXCEPT ![r] = None] /\ stats_step' = [stats_step EXCEPT ![r] = 0]
      /\ stats_locks' = [row \in {x \in DOMAIN stats_locks : stats_locks[x] # r} |-> stats_locks[row]]
  BY StatsOperators DEF Stats!Ended
<1>2. StatsTypes'
  BY <1>1 DEF StatsTypes
<1>3. ASSUME NEW row \in DOMAIN stats_locks'
      PROVE  /\ row \in DOMAIN stats_locks /\ stats_locks'[row] = stats_locks[row] /\ stats_locks[row] # r
             /\ stats_locks[row] \in Recorder
             /\ stats_record'[stats_locks[row]] = stats_record[stats_locks[row]]
             /\ stats_step'[stats_locks[row]] = stats_step[stats_locks[row]]
  BY <1>1, <1>3 DEF StatsTypes, StatsLocked
<1>4. StatsLocked'
  <2> SUFFICES ASSUME NEW row \in DOMAIN stats_locks'
               PROVE  /\ stats_locks'[row] \in Recorder /\ stats_record'[stats_locks'[row]] # None
                      /\ \E i \in 1 .. stats_step'[stats_locks'[row]] - 1 : row = Stats!Rows(stats_record'[stats_locks'[row]])[i]
    BY DEF StatsLocked, Stats!Rows
  <2> QED
    BY <1>3 DEF StatsLocked
<1> QED
  BY <1>2, <1>4

(* Rows are locked by who passes them, until the transaction ends.           *)
LEMMA StatsLockedNext == StatsTypes /\ StatsLocked /\ [Stats!Next]_stats_vars => StatsTypes' /\ StatsLocked'
<1> SUFFICES ASSUME StatsTypes, StatsLocked, [Stats!Next]_stats_vars PROVE StatsTypes' /\ StatsLocked'
  OBVIOUS
<1>0. ASSUME NEW q \in Recorder, stats_record[q] # None
      PROVE  StatsGood(stats_record[q]) /\ Len(Stats!Rows(stats_record[q])) \in Nat /\ stats_step[q] \in Nat
             /\ stats_step[q] <= Len(Stats!Rows(stats_record[q])) + 1 /\ stats_step[q] >= 1
  <2>1. StatsGood(stats_record[q])
    BY <1>0 DEF StatsTypes
  <2> QED
    BY <1>0, <2>1, RowsAre DEF StatsTypes
<1>1. ASSUME NEW r \in Recorder, Stats!RecordExecutionStats(r) PROVE StatsTypes' /\ StatsLocked'
  <2>1. PICK id \in Id, t \in Token, code \in Codes, ok \in Stats!Ok, time \in {1, 3} :
          stats_record' = [stats_record EXCEPT ![r] = [id |-> id, token |-> t, modules |-> Stats!ParseModuleUsage(code),
                                                       require |-> code # <<>>, ok |-> ok, time |-> time]]
    BY <1>1 DEF Stats!RecordExecutionStats
  <2> DEFINE rec == [id |-> id, token |-> t, modules |-> Stats!ParseModuleUsage(code),
                     require |-> code # <<>>, ok |-> ok, time |-> time]
  <2>2. /\ stats_record[r] = None /\ stats_step' = [stats_step EXCEPT ![r] = 1] /\ stats_locks' = stats_locks
    BY <1>1 DEF Stats!RecordExecutionStats
  <2>3. rec \in StatsRecord /\ StatsGood(rec)
    <3>1. code \in Seq(Nat)
      BY StatsAssumption DEF StatsAssumption
    <3>2. rec \in StatsRecord
      <4> DEFINE used == Stats!ParseModuleUsage(code)
      <4>1. used \in Seq(Nat)
        BY <3>1, ParseSorts
      <4> DEFINE require == code # <<>>
      <4>2. require = TRUE \/ require = FALSE
        BY Zenon
      <4>3. ok \in BOOLEAN
        BY DEF Stats!Ok
      <4>4. time \in Nat
        OBVIOUS
      <4> HIDE DEF used, require
      <4>5. [id |-> id, token |-> t, modules |-> used, require |-> require, ok |-> ok, time |-> time] \in StatsRecord
        BY <4>1, <4>2, <4>3, <4>4 DEF StatsRecord
      <4> QED
        BY <4>5 DEF used, require
    <3> QED
      BY <3>1, <3>2, ParseSorts DEF StatsGood
  <2> HIDE DEF rec
  <2>4. stats_record' = [stats_record EXCEPT ![r] = rec]
    BY <2>1 DEF rec
  <2>5. StatsTypes'
    <3>1. Len(Stats!Rows(rec)) \in Nat
      BY <2>3, RowsAre
    <3>2. ASSUME NEW q \in Recorder, stats_record'[q] # None
          PROVE  stats_step'[q] \in 1 .. Len(Stats!Rows(stats_record'[q])) + 1
      <4>1. CASE q = r
        BY <2>2, <2>4, <3>1, <4>1 DEF StatsTypes
      <4>2. CASE q # r
        <5>1. stats_record'[q] = stats_record[q] /\ stats_step'[q] = stats_step[q]
          BY <2>2, <2>4, <4>2 DEF StatsTypes
        <5> QED
          BY <3>2, <5>1 DEF StatsTypes
      <4> QED
        BY <4>1, <4>2
    <3>3. stats_record' \in [Recorder -> {x \in StatsRecord : StatsGood(x)} \cup {None}] /\ stats_step' \in [Recorder -> Nat]
      BY <2>2, <2>3, <2>4 DEF StatsTypes
    <3> QED
      BY <3>2, <3>3 DEF StatsTypes, Stats!Rows
  <2>6. StatsLocked'
    <3> SUFFICES ASSUME NEW row \in DOMAIN stats_locks'
                 PROVE  /\ stats_locks'[row] \in Recorder /\ stats_record'[stats_locks'[row]] # None
                        /\ \E i \in 1 .. stats_step'[stats_locks'[row]] - 1 : row = Stats!Rows(stats_record'[stats_locks'[row]])[i]
      BY DEF StatsLocked, Stats!Rows
    <3>1. /\ stats_locks'[row] = stats_locks[row] /\ stats_locks[row] \in Recorder /\ stats_locks[row] # r
          /\ stats_record'[stats_locks[row]] = stats_record[stats_locks[row]]
          /\ stats_step'[stats_locks[row]] = stats_step[stats_locks[row]]
      BY <2>2, <2>4 DEF StatsTypes, StatsLocked
    <3> QED
      BY <2>2, <3>1 DEF StatsLocked
  <2> QED
    BY <2>5, <2>6
<1>2. ASSUME NEW r \in Recorder, Stats!Statement(r) PROVE StatsTypes' /\ StatsLocked'
  <2> DEFINE w == Stats!Wants(r)
  <2>1. /\ stats_record[r] # None /\ stats_step[r] <= Len(Stats!Rows(stats_record[r]))
        /\ stats_locks' = [row \in DOMAIN stats_locks \cup {w} |-> IF row = w THEN r ELSE stats_locks[row]]
        /\ stats_step' = [stats_step EXCEPT ![r] = stats_step[r] + 1] /\ stats_record' = stats_record
        /\ w = Stats!Rows(stats_record[r])[stats_step[r]]
    BY <1>2 DEF Stats!Statement, Stats!Writing, Stats!Wants
  <2> HIDE DEF w
  <2>2. /\ stats_step'[r] = stats_step[r] + 1 /\ \A q \in Recorder : q # r => stats_step'[q] = stats_step[q]
        /\ stats_step[r] \in Nat /\ stats_step[r] >= 1
    BY <1>0, <2>1 DEF StatsTypes
  <2>3. StatsTypes'
    <3>1. ASSUME NEW q \in Recorder, stats_record[q] # None
          PROVE  stats_step'[q] \in 1 .. Len(Stats!Rows(stats_record[q])) + 1
      BY <1>0, <2>1, <2>2, <3>1
    <3>2. stats_step' \in [Recorder -> Nat]
      BY <2>1, <2>2 DEF StatsTypes
    <3> QED
      BY <2>1, <3>1, <3>2 DEF StatsTypes
  <2>4. StatsLocked'
    <3> SUFFICES ASSUME NEW row \in DOMAIN stats_locks'
                 PROVE  /\ stats_locks'[row] \in Recorder /\ stats_record[stats_locks'[row]] # None
                        /\ \E i \in 1 .. stats_step'[stats_locks'[row]] - 1 : row = Stats!Rows(stats_record[stats_locks'[row]])[i]
      BY <2>1 DEF StatsLocked
    <3>1. CASE row = w
      <4>1. stats_locks'[row] = r /\ stats_step[r] \in 1 .. stats_step'[r] - 1
        BY <2>1, <2>2, <3>1
      <4> QED
        BY <2>1, <3>1, <4>1
    <3>2. CASE row # w
      <4>1. row \in DOMAIN stats_locks /\ stats_locks'[row] = stats_locks[row]
        BY <2>1, <3>2
      <4>2. PICK i \in 1 .. stats_step[stats_locks[row]] - 1 : row = Stats!Rows(stats_record[stats_locks[row]])[i]
        BY <4>1 DEF StatsLocked
      <4>3. stats_locks[row] \in Recorder /\ stats_record[stats_locks[row]] # None
        BY <4>1 DEF StatsLocked
      <4>4. i \in 1 .. stats_step'[stats_locks[row]] - 1
        BY <1>0, <2>2, <4>2, <4>3
      <4> QED
        BY <4>1, <4>2, <4>3, <4>4
    <3> QED
      BY <3>1, <3>2
  <2> QED
    BY <2>3, <2>4
<1>3. ASSUME NEW r \in Recorder, Stats!Commit(r) \/ Stats!Rollback(r) PROVE StatsTypes' /\ StatsLocked'
  BY <1>3, StatsEnds DEF Stats!Commit, Stats!Rollback
<1>4. CASE UNCHANGED stats_vars
  BY <1>4 DEF stats_vars, StatsTypes, StatsLocked
<1> QED
  BY <1>1, <1>2, <1>3, <1>4 DEF Stats!Next

(* Of recorders that wait, the one at the last place waits for none of them. *)
LEMMA StatsSafe == StatsTypes /\ StatsLocked => Stats!NoWaitCycle
<1> SUFFICES ASSUME StatsTypes, StatsLocked, NEW set \in SUBSET Recorder, set # {},
                    \A r \in set : \E q \in set : Stats!WaitsFor(r, q)
             PROVE  FALSE
  BY DEF Stats!NoWaitCycle
<1> DEFINE place == [r \in set |-> Place(Stats!Wants(r))]
<1>1. ASSUME NEW r \in set
      PROVE  /\ stats_record[r] # None /\ StatsGood(stats_record[r])
             /\ stats_step[r] \in 1 .. Len(Stats!Rows(stats_record[r])) /\ Len(Stats!Rows(stats_record[r])) \in Nat
             /\ Stats!Wants(r) = Stats!Rows(stats_record[r])[stats_step[r]]
             /\ \E q \in set : /\ Stats!Wants(r) \in DOMAIN stats_locks /\ stats_locks[Stats!Wants(r)] = q
  <2>1. stats_record[r] # None /\ stats_step[r] <= Len(Stats!Rows(stats_record[r]))
    BY DEF Stats!WaitsFor, Stats!Writing
  <2>2. StatsGood(stats_record[r]) /\ stats_step[r] \in 1 .. Len(Stats!Rows(stats_record[r])) + 1
    BY <2>1 DEF StatsTypes
  <2>3. Len(Stats!Rows(stats_record[r])) \in Nat
    BY <2>2, RowsAre
  <2> QED
    BY <2>1, <2>2, <2>3 DEF Stats!WaitsFor, Stats!Wants
<1>2. ASSUME NEW r \in set
      PROVE  \E q \in set : /\ Place(Stats!Wants(r)) \in Int /\ Place(Stats!Wants(q)) \in Int
                            /\ Place(Stats!Wants(r)) < Place(Stats!Wants(q))
  <2>1. PICK q \in set : Stats!Wants(r) \in DOMAIN stats_locks /\ stats_locks[Stats!Wants(r)] = q
    BY <1>1
  <2>2. PICK i \in 1 .. stats_step[q] - 1 : Stats!Wants(r) = Stats!Rows(stats_record[q])[i]
    BY <2>1 DEF StatsLocked
  <2> DEFINE n == Len(Stats!Rows(stats_record[q]))
             j == stats_step[q]
             rec == stats_record[q]
  <2>3. /\ StatsGood(rec) /\ j \in 1 .. n /\ n \in Nat /\ Stats!Wants(q) = Stats!Rows(rec)[j]
    BY <1>1
  <2>4. j < n
    <3> SUFFICES ASSUME j = n PROVE FALSE
      BY <2>3
    <3>1. Stats!Wants(q)[1] = "user"
      BY <2>3, RowsAre
    <3>2. PICK p \in set : Stats!Wants(q) \in DOMAIN stats_locks /\ stats_locks[Stats!Wants(q)] = p
      BY <1>1
    <3>3. PICK k \in 1 .. stats_step[p] - 1 : Stats!Wants(q) = Stats!Rows(stats_record[p])[k]
      BY <3>2 DEF StatsLocked
    <3>4. StatsGood(stats_record[p]) /\ k < Len(Stats!Rows(stats_record[p])) /\ k >= 1 /\ k \in Nat
      <4>1. StatsGood(stats_record[p]) /\ stats_step[p] \in 1 .. Len(Stats!Rows(stats_record[p])) /\ Len(Stats!Rows(stats_record[p])) \in Nat
        BY <1>1
      <4> QED
        BY <4>1
    <3>5. Stats!Rows(stats_record[p])[k][1] \in {"execution", "module"}
      <4> DEFINE m == Len(Used(stats_record[p]))
      <4>1. /\ m \in Nat /\ Len(Stats!Rows(stats_record[p])) = m + 2
            /\ Stats!Rows(stats_record[p])[1] = <<"execution", stats_record[p].id>>
            /\ \A x \in 2 .. m + 1 : Stats!Rows(stats_record[p])[x] = <<"module", Used(stats_record[p])[x - 1]>>
        BY <3>4, RowsAre
      <4>2. k = 1 \/ k \in 2 .. m + 1
        BY <3>4, <4>1
      <4> QED
        BY <4>1, <4>2
    <3> QED
      BY <3>1, <3>3, <3>5
  <2> HIDE DEF n, j, rec
  <2>5. i \in 1 .. n /\ i < j /\ Stats!Wants(r) = Stats!Rows(rec)[i]
    BY <2>2, <2>3 DEF n, j, rec
  <2>6. /\ Place(Stats!Rows(rec)[i]) \in Int /\ Place(Stats!Rows(rec)[j]) \in Int
        /\ Place(Stats!Rows(rec)[i]) < Place(Stats!Rows(rec)[j])
    <3>1. j \in 1 .. Len(Stats!Rows(rec)) /\ i \in 1 .. Len(Stats!Rows(rec)) /\ j < Len(Stats!Rows(rec))
      BY <2>3, <2>4, <2>5 DEF n, rec
    <3> QED
      BY <2>3, <2>5, <3>1, PlacesRise
  <2> QED
    BY <2>3, <2>5, <2>6
<1> DEFINE all == {place[r] : r \in set}
<1>3. all \in SUBSET Int /\ all # {} /\ IsFiniteSet(all)
  <2>1. IsFiniteSet(set)
    BY StatsAssumption, FS_Subset DEF StatsAssumption
  <2>2. place \in Surjection(set, all)
    BY DEF Surjection
  <2>3. IsFiniteSet(all)
    <3> HIDE DEF all, place
    <3> QED
      BY <2>1, <2>2, FS_Surjection
  <2> QED
    BY <1>2, <2>3
<1>4. Max(all) \in all /\ \A x \in all : Max(all) >= x
  <2> HIDE DEF all
  <2> QED
    BY <1>3, Extremes
<1>5. PICK r \in set : Max(all) = Place(Stats!Wants(r))
  BY <1>4
<1>6. PICK q \in set : Place(Stats!Wants(r)) \in Int /\ Place(Stats!Wants(q)) \in Int /\ Place(Stats!Wants(r)) < Place(Stats!Wants(q))
  BY <1>2
<1>7. Place(Stats!Wants(q)) \in all
  OBVIOUS
<1> HIDE DEF all
<1> QED
  BY <1>4, <1>5, <1>6, <1>7

(* The executions of a module that succeeded, and that failed.               *)
Wins(tally)  == tally[TRUE]
Fails(tally) == tally[FALSE]

StatsColumn(c) == SumFunctionOnSet(Stats!Column(c), Token)
Counted == {"calls", "ok", "require"}
Basic == IF 0 \in DOMAIN stats_modules THEN Wins(stats_modules[0]) + Fails(stats_modules[0]) ELSE 0
StatsUsage == SumFunctionOnSet(Stats!Usage, DOMAIN stats_modules)
StatsSuccesses == SumFunctionOnSet(Stats!Successes, DOMAIN stats_modules)

StatsTables ==
  /\ DOMAIN stats_users = Token
  /\ \A t \in Token : /\ \A c \in Counted : stats_users[t][c] \in Nat
                      /\ stats_users[t].calls = 0 => stats_users[t].ok = 0 /\ stats_users[t].require = 0
  /\ IsFiniteSet(DOMAIN stats_modules)
  /\ \A k \in DOMAIN stats_modules : stats_modules[k] \in [Stats!Ok -> Nat]
  /\ IsFiniteSet(DOMAIN stats_execs)

(* Calls are in the reports of the users and of the modules, and the         *)
(* executions are no more than the calls.                                    *)
StatsCounted ==
  /\ StatsColumn("calls") <= Basic + StatsColumn("require")
  /\ StatsColumn("calls") <= StatsUsage
  /\ Cardinality(DOMAIN stats_execs) <= StatsColumn("calls")
  /\ StatsColumn("ok") <= StatsSuccesses

(* Both are numbers, and nothing at first.                                   *)
LEMMA TallyIs ==
  /\ TRUE \in Stats!Ok /\ FALSE \in Stats!Ok
  /\ \A o \in [Stats!Ok -> Nat] : Wins(o) \in Nat /\ Fails(o) \in Nat
  /\ [o \in Stats!Ok |-> 0] \in [Stats!Ok -> Nat]
  /\ Wins([o \in Stats!Ok |-> 0]) = 0 /\ Fails([o \in Stats!Ok |-> 0]) = 0
<1>1. TRUE \in Stats!Ok /\ FALSE \in Stats!Ok
  BY DEF Stats!Ok
<1> QED
  BY <1>1 DEF Wins, Fails

(* What is summed are numbers.                                               *)
StatsFacts ==
  /\ \A c \in Counted : /\ Numbers(Stats!Column(c), Token) /\ StatsColumn(c) \in Nat
                        /\ \A t \in Token : Stats!Column(c)[t] = stats_users[t][c]
  /\ Numbers(Stats!Usage, DOMAIN stats_modules) /\ StatsUsage \in Nat
  /\ Numbers(Stats!Successes, DOMAIN stats_modules) /\ StatsSuccesses \in Nat
  /\ Basic \in Nat
  /\ \A k \in DOMAIN stats_modules : /\ Stats!Usage[k] = Wins(stats_modules[k]) + Fails(stats_modules[k])
                                     /\ Stats!Successes[k] = Wins(stats_modules[k])

(* So it is where the tables are typed.                                      *)
LEMMA StatsNumbers == StatsTables => StatsFacts
<1> SUFFICES ASSUME StatsTables PROVE StatsFacts
  OBVIOUS
<1>1. ASSUME NEW c \in Counted
      PROVE  /\ Numbers(Stats!Column(c), Token) /\ StatsColumn(c) \in Nat
             /\ \A t \in Token : Stats!Column(c)[t] = stats_users[t][c]
  <2>1. \A t \in Token : Stats!Column(c)[t] = stats_users[t][c] /\ stats_users[t][c] \in Nat
    BY DEF Stats!Column, StatsTables
  <2>2. Numbers(Stats!Column(c), Token)
    BY <2>1, StatsAssumption DEF Numbers, StatsAssumption
  <2> QED
    BY <2>1, <2>2, SumIsUnits DEF StatsColumn
<1>2. \A k \in DOMAIN stats_modules : /\ Stats!Usage[k] = Wins(stats_modules[k]) + Fails(stats_modules[k])
                                      /\ Stats!Successes[k] = Wins(stats_modules[k])
                                      /\ Wins(stats_modules[k]) \in Nat /\ Fails(stats_modules[k]) \in Nat
  <2> SUFFICES ASSUME NEW k \in DOMAIN stats_modules
               PROVE  /\ Stats!Usage[k] = Wins(stats_modules[k]) + Fails(stats_modules[k])
                      /\ Stats!Successes[k] = Wins(stats_modules[k])
                      /\ Wins(stats_modules[k]) \in Nat /\ Fails(stats_modules[k]) \in Nat
    OBVIOUS
  <2>1. Stats!Usage[k] = Wins(stats_modules[k]) + Fails(stats_modules[k]) /\ Stats!Successes[k] = Wins(stats_modules[k])
    BY DEF Stats!Usage, Stats!Successes, Wins, Fails
  <2>2. Wins(stats_modules[k]) \in Nat /\ Fails(stats_modules[k]) \in Nat
    BY TallyIs DEF StatsTables
  <2> QED
    BY <2>1, <2>2
<1>3. Numbers(Stats!Usage, DOMAIN stats_modules) /\ Numbers(Stats!Successes, DOMAIN stats_modules) /\ Basic \in Nat
  BY <1>2 DEF Numbers, StatsTables, Basic
<1> QED
  BY <1>1, <1>2, <1>3, SumIsUnits DEF StatsFacts, StatsUsage, StatsSuccesses

(* And after a step that keeps them so.                                      *)
LEMMA StatsNumbersNext == StatsTables' => StatsFacts'
BY StatsNumbers, PTL

(* Empty tables agree.                                                       *)
LEMMA StatsCountedInit == Stats!Init => StatsTables /\ StatsCounted
<1> SUFFICES ASSUME Stats!Init PROVE StatsTables /\ StatsCounted
  OBVIOUS
<1>1. /\ DOMAIN stats_modules = {} /\ DOMAIN stats_execs = {} /\ DOMAIN stats_users = Token
      /\ \A t \in Token : \A c \in Counted : stats_users[t][c] = 0
      /\ \A t \in Token : stats_users[t].ok = 0 /\ stats_users[t].require = 0
  BY DEF Stats!Init, Stats!NoUser, Counted
<1>2. StatsTables
  BY <1>1, FS_EmptySet DEF StatsTables
<1>3. \A c \in Counted : StatsColumn(c) = 0
  <2> SUFFICES ASSUME NEW c \in Counted PROVE StatsColumn(c) = 0
    OBVIOUS
  <2>1. \A t \in Token : Stats!Column(c)[t] = 0
    BY <1>1, <1>2, StatsNumbers DEF StatsFacts
  <2> QED
    BY <2>1, StatsAssumption, SumNothing DEF StatsColumn, StatsAssumption
<1>4. Cardinality(DOMAIN stats_execs) = 0
  BY <1>1, FS_EmptySet
<1> QED
  BY <1>2, <1>3, <1>4, StatsNumbers DEF StatsCounted, StatsFacts, Counted

(* updateModuleStats: the rows of a record that are changed.                 *)
Hit(rec) == {row[2] : row \in {x \in Stats!Range(Stats!Rows(rec)) : x[1] = "module"}}

(* They are finitely many, at least one, and basic_feature without require.  *)
LEMMA HitIs ==
  ASSUME NEW rec, StatsGood(rec)
  PROVE  IsFiniteSet(Hit(rec)) /\ (\E k : k \in Hit(rec)) /\ (~rec.require => 0 \in Hit(rec))
<1> DEFINE u == Used(rec)
           n == Len(u)
           rows == Stats!Rows(rec)
<1>1. /\ u \in Seq(Nat) /\ n \in Nat \ {0}
      /\ ~rec.require => u[1] = 0
      /\ DOMAIN rows = 1 .. n + 2
      /\ rows[1] = <<"execution", rec.id>>
      /\ \A x \in 2 .. n + 1 : rows[x] = <<"module", u[x - 1]>>
      /\ rows[n + 2] = <<"user", rec.token>>
  BY RowsAre
<1> HIDE DEF u, n, rows
<1>2. IsFiniteSet(Hit(rec))
  <2> DEFINE all == {x \in Stats!Range(rows) : x[1] = "module"}
             second == [x \in all |-> x[2]]
  <2>1. IsFiniteSet(Stats!Range(rows))
    <3>1. Stats!Range(rows) = {rows[i] : i \in DOMAIN rows}
      BY StatsOperators
    <3>2. [i \in DOMAIN rows |-> rows[i]] \in Surjection(DOMAIN rows, Stats!Range(rows))
      BY <3>1 DEF Surjection
    <3>3. IsFiniteSet(DOMAIN rows)
      BY <1>1, FS_Interval
    <3> QED
      BY <3>2, <3>3, FS_Surjection
  <2>2. IsFiniteSet(all)
    BY <2>1, FS_Subset
  <2>3. Hit(rec) = {x[2] : x \in all}
    BY DEF Hit, rows
  <2>4. second \in Surjection(all, Hit(rec))
    BY <2>3 DEF Surjection
  <2> HIDE DEF all, second
  <2> QED
    BY <2>2, <2>4, FS_Surjection
<1>3. u[1] \in Hit(rec)
  <2>1. rows[2] = <<"module", u[1]>> /\ 2 \in DOMAIN rows
    BY <1>1
  <2>2. rows[2] \in Stats!Range(rows) /\ rows[2][1] = "module" /\ rows[2][2] = u[1]
    BY <2>1, StatsOperators
  <2> QED
    BY <2>2 DEF Hit, rows
<1> QED
  BY <1>1, <1>2, <1>3

(* An execution raises one of the two.                                       *)
LEMMA TallyRaised ==
  ASSUME NEW o \in [Stats!Ok -> Nat], NEW ok \in BOOLEAN, NEW m, m = [o EXCEPT ![ok] = @ + 1]
  PROVE  /\ m \in [Stats!Ok -> Nat]
         /\ Wins(o) <= Wins(m) /\ Fails(o) <= Fails(m)
         /\ Wins(m) + Fails(m) = Wins(o) + Fails(o) + 1
         /\ ok => Wins(m) = Wins(o) + 1
<1>1. ok \in Stats!Ok
  BY DEF Stats!Ok
<1>2. m \in [Stats!Ok -> Nat]
  <2>1. o[ok] + 1 \in Nat
    BY <1>1
  <2> QED
    BY <1>1, <2>1
<1>3. Wins(o) \in Nat /\ Fails(o) \in Nat
  BY TallyIs
<1>4. CASE ok = TRUE
  <2>1. m[TRUE] = o[TRUE] + 1 /\ m[FALSE] = o[FALSE]
    BY <1>4, TallyIs
  <2>2. Wins(m) = Wins(o) + 1 /\ Fails(m) = Fails(o)
    BY <2>1 DEF Wins, Fails
  <2>3. Wins(o) <= Wins(m) /\ Fails(o) <= Fails(m) /\ Wins(m) + Fails(m) = Wins(o) + Fails(o) + 1
    BY <1>3, <2>2
  <2> QED
    BY <1>2, <2>2, <2>3
<1>5. CASE ok = FALSE
  <2>1. m[FALSE] = o[FALSE] + 1 /\ m[TRUE] = o[TRUE]
    BY <1>5, TallyIs
  <2>2. Fails(m) = Fails(o) + 1 /\ Wins(m) = Wins(o)
    BY <2>1 DEF Wins, Fails
  <2> QED
    BY <1>2, <1>3, <1>5, <2>2
<1> QED
  BY <1>4, <1>5

(* A committed execution is in the rows of its modules.                      *)
LEMMA ModulesUpdated ==
  ASSUME StatsTables, NEW rec, StatsGood(rec), stats_modules' = Stats!UpdatedModules(rec)
  PROVE  /\ DOMAIN stats_modules' = DOMAIN stats_modules \cup Hit(rec)
         /\ IsFiniteSet(DOMAIN stats_modules')
         /\ \A k \in DOMAIN stats_modules' :
              /\ stats_modules'[k] \in [Stats!Ok -> Nat]
              /\ k \in DOMAIN stats_modules =>
                   /\ Wins(stats_modules[k]) <= Wins(stats_modules'[k])
                   /\ Fails(stats_modules[k]) <= Fails(stats_modules'[k])
              /\ k \in Hit(rec) =>
                   LET old == IF k \in DOMAIN stats_modules THEN stats_modules[k] ELSE [o \in Stats!Ok |-> 0]
                   IN /\ Wins(stats_modules'[k]) + Fails(stats_modules'[k]) = Wins(old) + Fails(old) + 1
                      /\ rec.ok => Wins(stats_modules'[k]) = Wins(old) + 1
<1> DEFINE old(k) == IF k \in DOMAIN stats_modules THEN stats_modules[k] ELSE [o \in Stats!Ok |-> 0]
<1>0. rec.ok \in BOOLEAN
  BY DEF StatsGood, StatsRecord
<1>1. stats_modules' = [k \in DOMAIN stats_modules \cup Hit(rec) |->
                          IF k \in Hit(rec) THEN [old(k) EXCEPT ![rec.ok] = @ + 1] ELSE stats_modules[k]]
  BY DEF Stats!UpdatedModules, Hit
<1>2. DOMAIN stats_modules' = DOMAIN stats_modules \cup Hit(rec) /\ IsFiniteSet(DOMAIN stats_modules')
  BY <1>1, HitIs, FS_Union DEF StatsTables
<1>3. ASSUME NEW k PROVE k \in DOMAIN stats_modules \cup Hit(rec) => old(k) \in [Stats!Ok -> Nat]
  BY DEF StatsTables
<1>4. ASSUME NEW k \in DOMAIN stats_modules'
      PROVE  /\ k \in Hit(rec) => stats_modules'[k] = [old(k) EXCEPT ![rec.ok] = @ + 1]
             /\ k \notin Hit(rec) => stats_modules'[k] = old(k)
             /\ old(k) \in [Stats!Ok -> Nat]
  BY <1>1, <1>2, <1>3
<1>5. ASSUME NEW k \in DOMAIN stats_modules'
      PROVE  /\ stats_modules'[k] \in [Stats!Ok -> Nat]
             /\ Wins(old(k)) <= Wins(stats_modules'[k]) /\ Fails(old(k)) <= Fails(stats_modules'[k])
             /\ k \in Hit(rec) => /\ Wins(stats_modules'[k]) + Fails(stats_modules'[k]) = Wins(old(k)) + Fails(old(k)) + 1
                                  /\ rec.ok => Wins(stats_modules'[k]) = Wins(old(k)) + 1
  <2> DEFINE o == old(k)
             m == stats_modules'[k]
  <2>1. /\ k \in Hit(rec) => m = [o EXCEPT ![rec.ok] = @ + 1]
        /\ k \notin Hit(rec) => m = o
        /\ o \in [Stats!Ok -> Nat]
    BY <1>4
  <2> HIDE DEF o, m
  <2>2. Wins(o) \in Nat /\ Fails(o) \in Nat
    BY <2>1, TallyIs
  <2>3. CASE k \notin Hit(rec)
    BY <2>1, <2>2, <2>3 DEF o, m
  <2>4. CASE k \in Hit(rec)
    <3>1. /\ m \in [Stats!Ok -> Nat] /\ Wins(o) <= Wins(m) /\ Fails(o) <= Fails(m)
          /\ Wins(m) + Fails(m) = Wins(o) + Fails(o) + 1
          /\ rec.ok => Wins(m) = Wins(o) + 1
      BY <1>0, <2>1, <2>4, TallyRaised
    <3> QED
      BY <3>1 DEF o, m
  <2> QED
    BY <2>3, <2>4
<1> QED
  BY <1>2, <1>5

(* Commit: one call more for the user and for each module.                   *)
LEMMA StatsCommits ==
  ASSUME StatsTypes, StatsTables, StatsCounted, NEW r \in Recorder, Stats!Commit(r)
  PROVE  StatsTables' /\ StatsCounted'
<1> DEFINE rec == stats_record[r]
<1>1. /\ StatsGood(rec) /\ rec.token \in Token /\ rec.ok \in BOOLEAN /\ rec.require \in BOOLEAN
      /\ DOMAIN stats_execs' = DOMAIN stats_execs \cup {rec.id}
      /\ stats_modules' = Stats!UpdatedModules(rec)
      /\ stats_users' = [stats_users EXCEPT ![rec.token] = Stats!UpdatedUser(stats_users[rec.token], rec)]
  <2>1. rec # None
    BY DEF Stats!Commit
  <2>2. StatsGood(rec) /\ rec \in StatsRecord
    BY <2>1 DEF StatsTypes
  <2> QED
    BY <2>2 DEF Stats!Commit, StatsRecord
<1> HIDE DEF rec
<1> DEFINE D == DOMAIN stats_modules
           E == DOMAIN stats_modules'
           a == rec.token
<1>2. /\ E = D \cup Hit(rec) /\ IsFiniteSet(E)
      /\ \A k \in E :
           /\ stats_modules'[k] \in [Stats!Ok -> Nat]
           /\ k \in D => /\ Wins(stats_modules[k]) <= Wins(stats_modules'[k])
                         /\ Fails(stats_modules[k]) <= Fails(stats_modules'[k])
           /\ k \in Hit(rec) =>
                LET old == IF k \in D THEN stats_modules[k] ELSE [o \in Stats!Ok |-> 0]
                IN /\ Wins(stats_modules'[k]) + Fails(stats_modules'[k]) = Wins(old) + Fails(old) + 1
                   /\ rec.ok => Wins(stats_modules'[k]) = Wins(old) + 1
  BY <1>1, ModulesUpdated
<1>3. /\ DOMAIN stats_users' = Token
      /\ \A t \in Token : t # a => stats_users'[t] = stats_users[t]
      /\ stats_users'[a].calls = stats_users[a].calls + 1
      /\ stats_users'[a].ok = stats_users[a].ok + (IF rec.ok THEN 1 ELSE 0)
      /\ stats_users'[a].require = stats_users[a].require + (IF rec.require THEN 1 ELSE 0)
  <2>1. stats_users'[a] = Stats!UpdatedUser(stats_users[a], rec) /\ DOMAIN stats_users' = Token
        /\ \A t \in Token : t # a => stats_users'[t] = stats_users[t]
    BY <1>1 DEF StatsTables
  <2> QED
    BY <2>1 DEF Stats!UpdatedUser
<1>4. \A t \in Token : stats_users[t].calls \in Nat /\ stats_users[t].ok \in Nat /\ stats_users[t].require \in Nat
  BY DEF StatsTables, Counted
<1>5. StatsTables'
  <2>1. \A t \in Token : \A c \in Counted : stats_users'[t][c] \in Nat
    BY <1>1, <1>3, <1>4 DEF Counted
  <2>2. \A t \in Token : stats_users'[t].calls = 0 => stats_users'[t].ok = 0 /\ stats_users'[t].require = 0
    BY <1>3, <1>4 DEF StatsTables
  <2>3. IsFiniteSet(DOMAIN stats_execs')
    <3>1. IsFiniteSet(DOMAIN stats_execs \cup {rec.id})
      BY FS_AddElement DEF StatsTables
    <3> QED
      BY <1>1, <3>1
  <2> QED
    BY <1>2, <1>3, <2>1, <2>2, <2>3 DEF StatsTables
<1>6. StatsFacts /\ StatsFacts'
  BY <1>5, StatsNumbers, StatsNumbersNext
<1>7. ASSUME NEW c \in Counted
      PROVE  StatsColumn(c)' = StatsColumn(c) - stats_users[a][c] + stats_users'[a][c]
  <2> DEFINE f == Stats!Column(c)
             g == Stats!Column(c)'
  <2>1. /\ Numbers(f, Token) /\ a \in Token
        /\ \A t \in Token : f[t] = stats_users[t][c] /\ g[t] = stats_users'[t][c] /\ g[t] \in Nat
        /\ StatsColumn(c) = SumFunctionOnSet(f, Token) /\ StatsColumn(c)' = SumFunctionOnSet(g, Token)
    BY <1>1, <1>6 DEF StatsFacts, StatsColumn, Numbers
  <2>2. \A t \in Token : t # a => f[t] = g[t]
    BY <1>3, <2>1
  <2> HIDE DEF f, g, a
  <2>3. SumFunctionOnSet(g, Token) = SumFunctionOnSet(f, Token) - f[a] + g[a]
    BY <2>1, <2>2, SumChanges
  <2> QED
    BY <2>1, <2>3
<1>8. /\ StatsColumn("calls")' = StatsColumn("calls") + 1
      /\ StatsColumn("ok")' = StatsColumn("ok") + (IF rec.ok THEN 1 ELSE 0)
      /\ StatsColumn("require")' = StatsColumn("require") + (IF rec.require THEN 1 ELSE 0)
      /\ StatsColumn("calls") \in Nat /\ StatsColumn("ok") \in Nat /\ StatsColumn("require") \in Nat
  <2>1. StatsColumn("calls") \in Nat /\ StatsColumn("ok") \in Nat /\ StatsColumn("require") \in Nat
    BY <1>6 DEF StatsFacts, Counted
  <2>2. /\ StatsColumn("calls")' = StatsColumn("calls") - stats_users[a].calls + stats_users'[a].calls
        /\ StatsColumn("ok")' = StatsColumn("ok") - stats_users[a].ok + stats_users'[a].ok
        /\ StatsColumn("require")' = StatsColumn("require") - stats_users[a].require + stats_users'[a].require
    BY <1>7 DEF Counted
  <2> QED
    BY <1>1, <1>3, <1>4, <2>1, <2>2
<1>9. /\ \A k \in D : Wins(stats_modules[k]) \in Nat /\ Fails(stats_modules[k]) \in Nat
      /\ \A k \in E : Wins(stats_modules'[k]) \in Nat /\ Fails(stats_modules'[k]) \in Nat
  BY <1>2, TallyIs DEF StatsTables
<1>10. PICK h : h \in Hit(rec)
  BY <1>1, HitIs
<1>11. StatsUsage + 1 <= StatsUsage' /\ StatsUsage \in Nat /\ StatsUsage' \in Nat
  <2> DEFINE f == Stats!Usage
             g == Stats!Usage'
  <2>1. /\ Numbers(f, D) /\ Numbers(g, E) /\ D \subseteq E
        /\ \A k \in D : f[k] = Wins(stats_modules[k]) + Fails(stats_modules[k])
        /\ \A k \in E : g[k] = Wins(stats_modules'[k]) + Fails(stats_modules'[k])
        /\ StatsUsage = SumFunctionOnSet(f, D) /\ StatsUsage' = SumFunctionOnSet(g, E)
        /\ StatsUsage \in Nat /\ StatsUsage' \in Nat
    BY <1>2, <1>6 DEF StatsFacts, StatsUsage
  <2>2. \A k \in D : f[k] <= g[k]
    <3> SUFFICES ASSUME NEW k \in D PROVE f[k] <= g[k]
      OBVIOUS
    <3>1. Wins(stats_modules[k]) \in Nat /\ Fails(stats_modules[k]) \in Nat /\ Wins(stats_modules'[k]) \in Nat /\ Fails(stats_modules'[k]) \in Nat
      BY <1>2, <1>9
    <3>2. k \in E /\ Wins(stats_modules[k]) <= Wins(stats_modules'[k]) /\ Fails(stats_modules[k]) <= Fails(stats_modules'[k])
      BY <1>2
    <3>3. f[k] = Wins(stats_modules[k]) + Fails(stats_modules[k]) /\ g[k] = Wins(stats_modules'[k]) + Fails(stats_modules'[k])
      BY <2>1, <3>2
    <3> HIDE DEF f, g
    <3> QED
      BY <3>1, <3>2, <3>3
  <2>3. h \in E /\ g[h] > 0 /\ (h \notin D \/ f[h] < g[h])
    <3>1. CASE h \in D
      <4>1. Wins(stats_modules[h]) \in Nat /\ Fails(stats_modules[h]) \in Nat
        BY <1>9, <3>1
      <4>2. h \in E /\ g[h] = Wins(stats_modules[h]) + Fails(stats_modules[h]) + 1 /\ f[h] = Wins(stats_modules[h]) + Fails(stats_modules[h])
        BY <1>2, <1>10, <2>1, <3>1
      <4> HIDE DEF f, g, D, E
      <4> QED
        BY <4>1, <4>2
    <3>2. CASE h \notin D
      <4>1. h \in E /\ g[h] = 0 + 0 + 1
        BY <1>2, <1>10, <2>1, <3>2, TallyIs
      <4> HIDE DEF f, g, D, E
      <4> QED
        BY <3>2, <4>1
    <3> QED
      BY <3>1, <3>2
  <2> HIDE DEF f, g, D, E
  <2> QED
    BY <2>1, <2>2, <2>3, SumGrows
<1>12. StatsSuccesses + (IF rec.ok THEN 1 ELSE 0) <= StatsSuccesses' /\ StatsSuccesses \in Nat /\ StatsSuccesses' \in Nat
  <2> DEFINE f == Stats!Successes
             g == Stats!Successes'
  <2>1. /\ Numbers(f, D) /\ Numbers(g, E) /\ D \subseteq E
        /\ \A k \in D : f[k] = Wins(stats_modules[k])
        /\ \A k \in E : g[k] = Wins(stats_modules'[k])
        /\ StatsSuccesses = SumFunctionOnSet(f, D) /\ StatsSuccesses' = SumFunctionOnSet(g, E)
        /\ StatsSuccesses \in Nat /\ StatsSuccesses' \in Nat
    BY <1>2, <1>6 DEF StatsFacts, StatsSuccesses
  <2>2. \A k \in D : f[k] <= g[k]
    BY <1>2, <2>1
  <2>3. rec.ok => h \in E /\ g[h] > 0 /\ (h \notin D \/ f[h] < g[h])
    <3> SUFFICES ASSUME rec.ok PROVE h \in E /\ g[h] > 0 /\ (h \notin D \/ f[h] < g[h])
      OBVIOUS
    <3>1. CASE h \in D
      <4>1. Wins(stats_modules[h]) \in Nat
        BY <1>9, <3>1
      <4>2. h \in E /\ g[h] = Wins(stats_modules[h]) + 1 /\ f[h] = Wins(stats_modules[h])
        BY <1>2, <1>10, <2>1, <3>1
      <4> HIDE DEF f, g, D, E
      <4> QED
        BY <4>1, <4>2
    <3>2. CASE h \notin D
      <4>1. h \in E /\ g[h] = 0 + 1
        BY <1>2, <1>10, <2>1, <3>2, TallyIs
      <4> HIDE DEF f, g, D, E
      <4> QED
        BY <3>2, <4>1
    <3> QED
      BY <3>1, <3>2
  <2> HIDE DEF f, g, D, E
  <2>4. StatsSuccesses <= StatsSuccesses'
    BY <2>1, <2>2, SumGrows
  <2>5. rec.ok => StatsSuccesses + 1 <= StatsSuccesses'
    BY <2>1, <2>2, <2>3, SumGrows
  <2> QED
    BY <2>1, <2>4, <2>5
<1>13. Cardinality(DOMAIN stats_execs') <= Cardinality(DOMAIN stats_execs) + 1
       /\ Cardinality(DOMAIN stats_execs) \in Nat /\ Cardinality(DOMAIN stats_execs') \in Nat
  <2>1. IsFiniteSet(DOMAIN stats_execs) /\ IsFiniteSet(DOMAIN stats_execs')
    BY <1>5 DEF StatsTables
  <2>2. Cardinality(DOMAIN stats_execs) \in Nat /\ Cardinality(DOMAIN stats_execs') \in Nat
    BY <2>1, FS_CardinalityType
  <2> QED
    BY <1>1, <2>1, <2>2, FS_AddElement
<1>14. Basic + (IF rec.require THEN 0 ELSE 1) <= Basic' /\ Basic \in Nat /\ Basic' \in Nat
  <2>1. Basic \in Nat /\ Basic' \in Nat
    BY <1>6 DEF StatsFacts
  <2>2. CASE 0 \in D
    <3>1. 0 \in E /\ Basic = Wins(stats_modules[0]) + Fails(stats_modules[0])
          /\ Basic' = Wins(stats_modules'[0]) + Fails(stats_modules'[0])
          /\ Wins(stats_modules[0]) \in Nat /\ Fails(stats_modules[0]) \in Nat
          /\ Wins(stats_modules'[0]) \in Nat /\ Fails(stats_modules'[0]) \in Nat
      BY <1>2, <1>9, <2>2 DEF Basic
    <3>2. Basic <= Basic'
      <4>1. Wins(stats_modules[0]) <= Wins(stats_modules'[0]) /\ Fails(stats_modules[0]) <= Fails(stats_modules'[0])
        BY <1>2, <2>2
      <4> QED
        BY <3>1, <4>1
    <3>3. ~rec.require => Basic' = Basic + 1
      BY <1>1, <1>2, <2>2, <3>1, HitIs
    <3> QED
      BY <2>1, <3>2, <3>3
  <2>3. CASE 0 \notin D
    <3>1. Basic = 0
      BY <2>3 DEF Basic
    <3>2. ~rec.require => Basic' = 1
      <4> SUFFICES ASSUME ~rec.require PROVE Basic' = 1
        OBVIOUS
      <4>1. 0 \in Hit(rec) /\ 0 \in E
        BY <1>1, <1>2, HitIs
      <4>2. Wins(stats_modules'[0]) + Fails(stats_modules'[0]) = 0 + 0 + 1
        BY <1>2, <2>3, <4>1, TallyIs
      <4>3. Basic' = Wins(stats_modules'[0]) + Fails(stats_modules'[0])
        BY <4>1 DEF Basic
      <4> QED
        BY <4>2, <4>3
    <3> QED
      BY <2>1, <3>1, <3>2
  <2> QED
    BY <2>2, <2>3
<1>15. /\ StatsColumn("calls") <= Basic + StatsColumn("require") /\ StatsColumn("calls") <= StatsUsage
       /\ Cardinality(DOMAIN stats_execs) <= StatsColumn("calls") /\ StatsColumn("ok") <= StatsSuccesses
  BY DEF StatsCounted
<1>16. StatsCounted'
  <2>1. StatsColumn("calls")' <= Basic' + StatsColumn("require")'
    BY <1>1, <1>8, <1>14, <1>15
  <2>2. StatsColumn("calls")' <= StatsUsage' /\ Cardinality(DOMAIN stats_execs') <= StatsColumn("calls")'
    BY <1>8, <1>11, <1>13, <1>15
  <2>3. StatsColumn("ok")' <= StatsSuccesses'
    BY <1>1, <1>8, <1>12, <1>15
  <2> QED
    BY <2>1, <2>2, <2>3 DEF StatsCounted
<1> QED
  BY <1>5, <1>16

(* Only a commit changes the tables.                                         *)
LEMMA StatsCountedNext ==
  StatsTypes /\ StatsTables /\ StatsCounted /\ [Stats!Next]_stats_vars => StatsTables' /\ StatsCounted'
<1> SUFFICES ASSUME StatsTypes, StatsTables, StatsCounted, [Stats!Next]_stats_vars PROVE StatsTables' /\ StatsCounted'
  OBVIOUS
<1>1. ASSUME NEW r \in Recorder, Stats!Commit(r) PROVE StatsTables' /\ StatsCounted'
  BY <1>1, StatsCommits
<1>2. CASE UNCHANGED <<stats_execs, stats_modules, stats_users>>
  BY <1>2 DEF StatsTables, StatsCounted, StatsColumn, StatsUsage, StatsSuccesses, Basic, Stats!Column, Stats!Usage, Stats!Successes
<1>3. ASSUME NEW r \in Recorder, Stats!RecordExecutionStats(r) \/ Stats!Statement(r) \/ Stats!Rollback(r)
      PROVE  UNCHANGED <<stats_execs, stats_modules, stats_users>>
  BY <1>3 DEF Stats!RecordExecutionStats, Stats!Statement, Stats!Rollback
<1>4. UNCHANGED stats_vars => UNCHANGED <<stats_execs, stats_modules, stats_users>>
  BY DEF stats_vars
<1> QED
  BY <1>1, <1>2, <1>3, <1>4 DEF Stats!Next

(* The reports sum what the tables hold.                                     *)
LEMMA StatsAgree == StatsTables /\ StatsCounted => Stats!ReportsAgree
<1> SUFFICES ASSUME StatsTables, StatsCounted PROVE Stats!ReportsAgree
  OBVIOUS
<1> DEFINE rows == {t \in Token : stats_users[t].calls > 0}
<1>1. StatsFacts
  BY StatsNumbers
<1>2. ASSUME NEW c \in Counted PROVE Stats!SumFunctionOnSet(Stats!Column(c), rows) = StatsColumn(c)
  <2> DEFINE f == Stats!Column(c)
  <2>1. Numbers(f, Token) /\ \A t \in Token : t \notin rows => f[t] = 0
    BY <1>1 DEF StatsFacts, StatsTables, Counted
  <2> HIDE DEF f, rows
  <2>2. rows \in SUBSET Token
    BY DEF rows
  <2>3. Numbers(f, rows) /\ Units(f, rows) = Units(f, Token)
    <3>1. Numbers(f, rows)
      BY <2>1, <2>2, FS_Subset DEF Numbers
    <3>2. \A t \in Token : t \notin rows => {t} \X (1 .. f[t]) = {}
      BY <2>1
    <3> QED
      BY <2>2, <3>1, <3>2 DEF Units
  <2> QED
    BY <2>1, <2>3, SumIsUnits, StatsLibrary DEF f, StatsColumn
<1>3. /\ Stats!UserSummary.calls = StatsColumn("calls") /\ Stats!UserSummary.ok = StatsColumn("ok")
      /\ Stats!UserSummary.require = StatsColumn("require")
  BY <1>2 DEF Stats!UserSummary, Counted
<1>4. Stats!SumFunction(Stats!Usage) = StatsUsage /\ Stats!SumFunction(Stats!Successes) = StatsSuccesses
  <2>1. DOMAIN Stats!Usage = DOMAIN stats_modules /\ DOMAIN Stats!Successes = DOMAIN stats_modules
    BY DEF Stats!Usage, Stats!Successes
  <2> QED
    BY <2>1, StatsLibrary DEF StatsUsage, StatsSuccesses
<1>5. Stats!ModuleSummary.total = StatsUsage /\ Stats!ModuleSummary.basic = Basic
  <2>1. Stats!ModuleSummary.basic = IF 0 \in DOMAIN stats_modules THEN Stats!Usage[0] ELSE 0
    BY DEF Stats!ModuleSummary
  <2>2. Stats!ModuleSummary.total = Stats!SumFunction(Stats!Usage)
    BY DEF Stats!ModuleSummary
  <2> QED
    BY <1>1, <1>4, <2>1, <2>2 DEF StatsFacts, Basic
<1>6. Stats!Cardinality(DOMAIN stats_execs) = Cardinality(DOMAIN stats_execs)
  BY DEF Stats!Cardinality, Cardinality
<1>7. /\ StatsColumn("calls") \in Nat /\ StatsColumn("require") \in Nat /\ StatsColumn("ok") \in Nat
      /\ Basic \in Nat /\ StatsUsage \in Nat /\ StatsSuccesses \in Nat
  BY <1>1 DEF StatsFacts, Counted
<1> QED
  BY <1>3, <1>4, <1>5, <1>6, <1>7 DEF StatsCounted, Stats!ReportsAgree

StatsInv == StatsTypes /\ StatsLocked /\ StatsTables /\ StatsCounted

(* The statistics start in their invariant.                                  *)
LEMMA StatsInit == Stats!Init => StatsInv
BY StatsLockedInit, StatsCountedInit DEF StatsInv

(* Every step of a recorder keeps it.                                        *)
LEMMA StatsNext == StatsInv /\ [Stats!Next]_stats_vars => StatsInv'
BY StatsLockedNext, StatsCountedNext DEF StatsInv

-----------------------------------------------------------------------------
(***************************************************************************)
(* The composition: a step is one of the component at work and leaves the  *)
(* others as they are.                                                     *)
(***************************************************************************)

(* Every component takes one of its steps, or none.                          *)
LEMMA Together ==
  [Next]_vars => /\ [Pool!Next]_pool_vars /\ [Cold!Next]_cold_vars /\ [Cleanup!Next]_cleanup_vars
                 /\ [Stats!Next]_stats_vars /\ [Front!Next]_front_vars /\ [Process!Next]_main_vars
                 /\ [Fetch!Next]_fetch_vars
BY DEF Next, Rest, vars

(* Shutdown of the write pool: tasks that were accepted before have run when *)
(* it says that its workers are done, however the submitters race with it.   *)
THEOREM WritePoolDrains == Spec => []DrainedMeansRun
<1>1. Init => PoolInv
  BY PoolInit DEF Init
<1>2. PoolInv /\ [Next]_vars => PoolInv'
  BY PoolNext, Together
<1>3. PoolInv => DrainedMeansRun
  BY PoolSafe
<1> QED
  BY <1>1, <1>2, <1>3, PTL DEF Spec

(* Close of the cold tier: when it returns, everything that was handed over  *)
(* is in the table or was reported, unless it came after Close.              *)
THEOREM ColdTierWrites == Spec => []ClosedMeansWritten
<1>1. Init => ColdInv
  BY ColdInit DEF Init
<1>2. ColdInv /\ [Next]_vars => ColdInv'
  BY ColdNext, Together
<1>3. ColdInv => ClosedMeansWritten
  BY ColdSafe DEF ClosedMeansWritten
<1> QED
  BY <1>1, <1>2, <1>3, PTL DEF Spec

(* The cleanup: a deleted row is in the statistics or still counted by one   *)
(* running cleanup, whatever triggers overlap.                               *)
THEOREM CleanupCounts == Spec => []CleanedAccounted
<1>1. Init => CleanupInv
  BY CleanupInit DEF Init
<1>2. CleanupInv /\ [Next]_vars => CleanupInv'
  BY CleanupNext, Together
<1>3. CleanupInv => CleanedAccounted
  BY CleanupSafe
<1> QED
  BY <1>1, <1>2, <1>3, PTL DEF Spec

(* The statistics: no circle of transactions waits for itself, because every *)
(* one takes the modules in the same order, between execution and user.      *)
THEOREM RecordersNeverCircle == Spec => []NoWaitCycle
<1>1. Init => StatsInv
  BY StatsInit DEF Init
<1>2. StatsInv /\ [Next]_vars => StatsInv'
  BY StatsNext, Together
<1>3. StatsInv => NoWaitCycle
  BY StatsSafe DEF StatsInv, NoWaitCycle
<1> QED
  BY <1>1, <1>2, <1>3, PTL DEF Spec

(* Event loops: those that run are bounded by the semaphore, but for the     *)
(* loops of calls that left before the loop had begun.                       *)
THEOREM SemaphoreBoundsLoops == Spec => []LoopsBounded
<1>1. Init => FrontInv
  BY FrontInit DEF Init
<1>2. FrontInv /\ [Next]_vars => FrontInv'
  BY FrontNext, Together
<1>3. FrontInv => LoopsBounded
  BY FrontSafe
<1> QED
  BY <1>1, <1>2, <1>3, PTL DEF Spec

(* The shutdown of main: no code runs once the pool and the connections are  *)
(* closed.                                                                   *)
THEOREM ShutdownWaitsForCode == Spec => []ExecutionsEndFirst
<1>1. Init => ProcessInv
  BY ProcessInit DEF Init
<1>2. ProcessInv /\ [Next]_vars => ProcessInv'
  BY ProcessNext, Together
<1>3. ProcessInv => ExecutionsEndFirst
  BY ProcessSafe
<1> QED
  BY <1>1, <1>2, <1>3, PTL DEF Spec

(* fetch: the context of an open body is canceled by an abort only, though   *)
(* the request that made it has returned.                                    *)
THEOREM BodiesStayOpen == Spec => []BodyReadable
<1>1. Init => FetchInv
  BY FetchInit DEF Init
<1>2. FetchInv /\ [Next]_vars => FetchInv'
  BY FetchNext, Together
<1>3. FetchInv => BodyReadable
  BY FetchSafe
<1> QED
  BY <1>1, <1>2, <1>3, PTL DEF Spec

(* Requests in the cold tier, tasks of the write pool and executions in the  *)
(* statistics are counted once: buffers, flushes, rows and failures add up   *)
(* to what was handed over, and the reports of the statistics agree.         *)
THEOREM CountedOnce == Spec => []EachCountedOnce
<1> DEFINE Inv == PoolInv /\ ColdInv /\ StatsInv
<1>1. Init => Inv
  BY PoolInit, ColdInit, StatsInit DEF Init
<1>2. Inv /\ [Next]_vars => Inv'
  BY PoolNext, ColdNext, StatsNext, Together
<1>3. Inv => EachCountedOnce
  BY PoolSafe, ColdSafe, StatsAgree DEF StatsInv, EachCountedOnce
<1> QED
  BY <1>1, <1>2, <1>3, PTL DEF Spec
===============================================================================
