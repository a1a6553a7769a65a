------------------------------ MODULE Services ------------------------------
(***************************************************************************)
(* The services that run beside the requests, one of them at work in a     *)
(* behaviour: they share no state, so that their steps need no             *)
(* interleaving with one another. cmd/main.go, which makes all of them.    *)
(***************************************************************************)
EXTENDS Integers, Sequences, FiniteSets

CONSTANTS None,
          Submitter, Worker, QueueSize, MaxTasks,                  \* CacheWritePool
          Key, Batches, FlushSize, Extra, MaxSets, DBFails,        \* ColdTier
          Trigger, DeleteSize, MaxOld,                             \* QuotaCleanup
          Recorder, Id, Token, Codes, MaxRecords,                  \* StatsService
          Call, MaxConcurrent, MinRequests, FailPercent, Probes, MaxCalls, \* ExecuteFront
          Handler, MaxRequests                                     \* MainProcess

\* What the components need of the constants; nil is neither a task, a batch nor a record.
ASSUME PoolAssumption == /\ IsFiniteSet(Submitter) /\ IsFiniteSet(Worker) /\ Worker # {}
                         /\ None \notin [early : BOOLEAN]

ColdItem == [count : Nat, first : Int, last : Int]
ASSUME ColdAssumption ==
  /\ IsFiniteSet(Extra) /\ "timer" \notin Extra
  /\ Batches \subseteq [Key -> SUBSET Int] /\ \A batch \in Batches : \A k \in Key : IsFiniteSet(batch[k])
  /\ None \notin ColdItem /\ None \notin [Key -> ColdItem \cup {None}]

ASSUME CleanupAssumption == IsFiniteSet(Trigger) /\ DeleteSize \in Nat \ {0}

ASSUME StatsAssumption ==
  /\ IsFiniteSet(Recorder) /\ IsFiniteSet(Token) /\ Codes \subseteq Seq(Nat)
  /\ None \notin [id : Id, token : Token, modules : Seq(Nat), require : BOOLEAN, ok : BOOLEAN, time : Nat]

\* The component that is at work in a behaviour, and the variables of each.
VARIABLE focus
VARIABLES pool_tasks, pool_serving, pool_mode, pool_stop, pool_shutdown, pool_at,
          pool_submitted, pool_processed, pool_succeeded, pool_failed, pool_timedOut,
          pool_submitBlocked, pool_refused
VARIABLES cold_batchBuffer, cold_flushing, cold_timer, cold_spawned, cold_closing, cold_table,
          cold_handed, cold_lost, cold_late
VARIABLES cleanup_old, cleanup_aged, cleanup_at, cleanup_deleted, cleanup_totalCleanedCount,
          cleanup_lastCleanupCount, cleanup_stop
VARIABLES stats_record, stats_step, stats_locks, stats_execs, stats_modules, stats_users,
          stats_started
VARIABLES front_breaker, front_at, front_kind, front_entry, front_result, front_loop, front_vm,
          front_interrupted, front_canRun, front_orphan, front_semaphore, front_shutdown,
          front_started, front_overloads
VARIABLES main_life, main_redis, main_turn, main_at, main_served, main_syncChan, main_worker,
          main_cleaner, main_lost
VARIABLES fetch_mode, fetch_form, fetch_promise, fetch_execute, fetch_transport, fetch_endless,
          fetch_listener, fetch_reqCtx, fetch_uploadCtx, fetch_resultCh, fetch_signal,
          fetch_wrapper, fetch_hasRead, fetch_idleTimer, fetch_totalTimer, fetch_conn

pool_vars == <<pool_tasks, pool_serving, pool_mode, pool_stop, pool_shutdown, pool_at,
               pool_submitted, pool_processed, pool_succeeded, pool_failed, pool_timedOut,
               pool_submitBlocked, pool_refused>>
cold_vars == <<cold_batchBuffer, cold_flushing, cold_timer, cold_spawned, cold_closing,
               cold_table, cold_handed, cold_lost, cold_late>>
cleanup_vars == <<cleanup_old, cleanup_aged, cleanup_at, cleanup_deleted,
                  cleanup_totalCleanedCount, cleanup_lastCleanupCount, cleanup_stop>>
stats_vars == <<stats_record, stats_step, stats_locks, stats_execs, stats_modules, stats_users,
                stats_started>>
front_vars == <<front_breaker, front_at, front_kind, front_entry, front_result, front_loop,
                front_vm, front_interrupted, front_canRun, front_orphan, front_semaphore,
                front_shutdown, front_started, front_overloads>>
main_vars == <<main_life, main_redis, main_turn, main_at, main_served, main_syncChan,
               main_worker, main_cleaner, main_lost>>
fetch_vars == <<fetch_mode, fetch_form, fetch_promise, fetch_execute, fetch_transport,
                fetch_endless, fetch_listener, fetch_reqCtx, fetch_uploadCtx, fetch_resultCh,
                fetch_signal, fetch_wrapper, fetch_hasRead, fetch_idleTimer, fetch_totalTimer,
                fetch_conn>>

Pool == INSTANCE CacheWritePool WITH
  tasks <- pool_tasks, serving <- pool_serving, mode <- pool_mode, stop <- pool_stop,
  shutdown <- pool_shutdown, at <- pool_at, submitted <- pool_submitted,
  processed <- pool_processed, succeeded <- pool_succeeded, failed <- pool_failed,
  timedOut <- pool_timedOut, submitBlocked <- pool_submitBlocked, refused <- pool_refused

Cold == INSTANCE ColdTier WITH
  BatchSize <- FlushSize, batchBuffer <- cold_batchBuffer, flushing <- cold_flushing, timer <- cold_timer,
  spawned <- cold_spawned, closing <- cold_closing, table <- cold_table, handed <- cold_handed,
  lost <- cold_lost, late <- cold_late

Cleanup == INSTANCE QuotaCleanup WITH
  BatchSize <- DeleteSize, old <- cleanup_old, aged <- cleanup_aged,
  at <- cleanup_at, deleted <- cleanup_deleted, totalCleanedCount <- cleanup_totalCleanedCount,
  lastCleanupCount <- cleanup_lastCleanupCount, stop <- cleanup_stop

Stats == INSTANCE StatsService WITH
  record <- stats_record, step <- stats_step,
  locks <- stats_locks, execs <- stats_execs, modules <- stats_modules, users <- stats_users,
  started <- stats_started

Front == INSTANCE ExecuteFront WITH
  breaker <- front_breaker, at <- front_at, kind <- front_kind,
  entry <- front_entry, result <- front_result, loop <- front_loop, vm <- front_vm,
  interrupted <- front_interrupted, canRun <- front_canRun, orphan <- front_orphan,
  semaphore <- front_semaphore, shutdown <- front_shutdown, started <- front_started,
  overloads <- front_overloads

Process == INSTANCE MainProcess WITH
  life <- main_life, redis <- main_redis,
  turn <- main_turn, at <- main_at, served <- main_served, syncChan <- main_syncChan,
  worker <- main_worker, cleaner <- main_cleaner, lost <- main_lost

Fetch == INSTANCE FetchRequest WITH
  mode <- fetch_mode, form <- fetch_form, promise <- fetch_promise, execute <- fetch_execute,
  transport <- fetch_transport, endless <- fetch_endless, listener <- fetch_listener,
  reqCtx <- fetch_reqCtx, uploadCtx <- fetch_uploadCtx, resultCh <- fetch_resultCh,
  signal <- fetch_signal, wrapper <- fetch_wrapper, hasRead <- fetch_hasRead,
  idleTimer <- fetch_idleTimer, totalTimer <- fetch_totalTimer, conn <- fetch_conn

\* The others do nothing.
Rest(f) == /\ focus = f /\ UNCHANGED focus
           /\ IF f = "pool" THEN TRUE ELSE UNCHANGED pool_vars
           /\ IF f = "cold" THEN TRUE ELSE UNCHANGED cold_vars
           /\ IF f = "cleanup" THEN TRUE ELSE UNCHANGED cleanup_vars
           /\ IF f = "stats" THEN TRUE ELSE UNCHANGED stats_vars
           /\ IF f = "front" THEN TRUE ELSE UNCHANGED front_vars
           /\ IF f = "process" THEN TRUE ELSE UNCHANGED main_vars
           /\ IF f = "fetch" THEN TRUE ELSE UNCHANGED fetch_vars

Init == /\ focus \in {"pool", "cold", "cleanup", "stats", "front", "process", "fetch"}
        /\ Pool!Init
        /\ Cold!Init
        /\ Cleanup!Init
        /\ Stats!Init
        /\ Front!Init
        /\ IF focus = "process" THEN TRUE ELSE main_redis = "up"
        /\ Process!Init
        /\ IF focus = "fetch" THEN TRUE ELSE fetch_mode = "loop" /\ fetch_form = TRUE /\ fetch_signal = "none"
        /\ Fetch!Init

Next == \/ focus = "pool" /\ Pool!Next /\ Rest("pool")
        \/ focus = "cold" /\ Cold!Next /\ Rest("cold")
        \/ focus = "cleanup" /\ Cleanup!Next /\ Rest("cleanup")
        \/ focus = "stats" /\ Stats!Next /\ Rest("stats")
        \/ focus = "front" /\ Front!Next /\ Rest("front")
        \/ focus = "process" /\ Process!Next /\ Rest("process")
        \/ focus = "fetch" /\ Fetch!Next /\ Rest("fetch")

vars == <<focus, pool_vars, cold_vars, cleanup_vars, stats_vars, front_vars, main_vars,
          fetch_vars>>

Spec == Init /\ [][Next]_vars

-----------------------------------------------------------------------------
\* Tasks accepted before Shutdown began have run when it reports its workers done.
DrainedMeansRun == Pool!DrainedMeansRun
\* Close returns when everything handed over before is written or reported.
ClosedMeansWritten == Cold!ClosedMeansWritten
\* The cleanup statistics neither lose a deleted row nor count one twice.
CleanedAccounted == Cleanup!CleanedAccounted
\* Transactions of recorders never wait for one another in a circle.
NoWaitCycle == Stats!NoWaitCycle
\* The semaphore bounds the event loops, but for those nobody stops.
LoopsBounded == Front!LoopsBounded
\* No code runs when the write pool and the connections are closed.
ExecutionsEndFirst == Process!ExecutionsEndFirst
\* An open body is cut off by an abort only.
BodyReadable == Fetch!BodyReadable
\* What is handed over is counted once: a request by the cold tier, a task by the write pool, an
\* execution by the statistics, whose reports agree.
EachCountedOnce ==
  /\ focus = "cold" => Cold!EachCountedOnce
  /\ focus = "pool" => Pool!Accounted
  /\ focus = "stats" => Stats!ReportsAgree
=============================================================================
