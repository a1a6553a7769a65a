---------------------------- MODULE QuotaService ----------------------------
(***************************************************************************)
(* QuotaService: the quota of a token lives in a Redis counter, which      *)
(* calls decrement with a script, and in a database row, which a worker    *)
(* overwrites from a queue of values that the calls have seen. Redis keys  *)
(* expire; Redis and the database can fail; administrators change quotas.  *)
(* Tokens are of a type with a quota, and are not deleted while in use.    *)
(* Each call of the service is a process that makes one request at a time. *)
(* Ghosts, which no guard of the code reads: limit, spent, charge, blind,  *)
(* lost, changes.                                                          *)
(***************************************************************************)
EXTENDS Integers, Sequences, FiniteSets

CONSTANTS
  Call,            \* calls of the service's operations
  Token,
  NoKey,           \* Redis has no key for the token
  Quota,           \* what a token is created with
  Amount,          \* amounts of an administrator
  Operation,       \* what calls do: a subset of "consume", "query", "update"
  Failure,         \* what can go wrong: a subset of "redis", "db", "expiry"
  SyncQueueSize,   \* capacity of syncChan
  LogQueueSize,    \* capacity of logChan
  SyncBatch,
  MaxRecursionDepth

ASSUME QuotaAssumption ==
  /\ NoKey \notin Int
  /\ Quota \in Nat /\ Amount \subseteq Nat
  /\ Operation \subseteq {"consume", "query", "update"}
  /\ Failure \subseteq {"redis", "db", "expiry"}
  /\ {SyncQueueSize, LogQueueSize, SyncBatch} \subseteq Nat \ {0}
  /\ MaxRecursionDepth \in Nat

VARIABLES
  pc,           \* where each call is
  token,        \* the token it is about
  depth,        \* of the recursion in consumeQuotaWithDepth
  val,          \* the quota it has read or computed
  sum,          \* the new total an update is about to write
  redis,        \* the counters, or NoKey
  remaining,    \* the column remaining_quota
  total,        \* the column total_quota
  syncChan,
  direct,       \* calls whose goroutine of syncToDBDirectly is running
  worker,       \* the sync worker
  batch,        \* its map from tokens to values, NoKey for absent
  logChan,      \* entries in the audit log's queue
  logBatch,     \* entries in the log worker's batch
  logWorker,
  logRows,      \* entries in the log table
  droppedLog,   \* droppedLogCount
  stopping,     \* stopChan is closed
  limit,        \* ghost: the largest quota or total ever granted
  spent,        \* ghost: decrements of a token, wherever they were made
  charge,       \* ghost: decrements made for a call
  blind,        \* ghost: calls whose script ran although its reply was lost
  lost,         \* ghost: tokens that a failure, an expiry or an update has touched
  changes,      \* ghost: calls of logQuotaChange
  lostLogs      \* ghost: entries of batches whose insert failed

callVars  == <<pc, token, depth, val, sum>>
storeVars == <<redis, remaining, total>>
syncVars  == <<syncChan, direct, worker, batch>>
logVars   == <<logChan, logBatch, logWorker, logRows, droppedLog, changes, lostLogs>>
paidVars  == <<spent, charge, blind>>
vars == <<callVars, storeVars, syncVars, logVars, paidVars, stopping, limit, lost>>

Finished == {"granted", "refused", "failed", "answered"}
PC == {"script", "load", "seed", "fallback", "confirm", "submit",
       "peek", "fetch", "refill", "read", "write", "reread", "publish"} \cup Finished

First == [op \in {"consume", "query", "update"} |->
            CASE op = "consume" -> "script" [] op = "query" -> "peek" [] op = "update" -> "read"]

\* Every token has just been created; InitQuota has set its key or failed to.
Init ==
  /\ pc \in [Call -> {First[op] : op \in Operation}]
  /\ token \in [Call -> Token]
  /\ depth = [c \in Call |-> 0]
  /\ val = [c \in Call |-> 0]
  /\ sum = [c \in Call |-> 0]
  /\ redis \in [Token -> {Quota} \cup (IF "redis" \in Failure THEN {NoKey} ELSE {})]
  /\ remaining = [t \in Token |-> Quota]
  /\ total = [t \in Token |-> Quota]
  /\ syncChan = <<>>
  /\ direct = {}
  /\ worker = "collect"
  /\ batch = [t \in Token |-> NoKey]
  /\ logChan = 0 /\ logBatch = 0 /\ logWorker = "collect"
  /\ logRows = 0 /\ droppedLog = 0 /\ changes = 0 /\ lostLogs = 0
  /\ stopping = FALSE
  /\ limit = [t \in Token |-> Quota]
  /\ spent = [t \in Token |-> 0]
  /\ charge = [c \in Call |-> 0]
  /\ blind = {}
  /\ lost = {t \in Token : redis[t] = NoKey}

Goto(c, from, to) == pc[c] = from /\ pc' = [pc EXCEPT ![c] = to]

\* A failure that concerns the token of the call.
Fails(c, what) == what \in Failure /\ lost' = lost \cup {token[c]}

Spend(c) ==
  /\ spent' = [spent EXCEPT ![token[c]] = @ + 1]
  /\ charge' = [charge EXCEPT ![c] = @ + 1]

\* logQuotaChange: never blocks, counts what it drops.
LogQuotaChange ==
  /\ changes' = changes + 1
  /\ IF logChan < LogQueueSize
       THEN logChan' = logChan + 1 /\ UNCHANGED droppedLog
       ELSE droppedLog' = droppedLog + 1 /\ UNCHANGED logChan
  /\ UNCHANGED <<logBatch, logWorker, logRows, lostLogs>>
-----------------------------------------------------------------------------
(* ConsumeQuota.                                                           *)

TooDeep(c) == depth[c] > MaxRecursionDepth

\* The recursion is cut off before the script.
DepthExceeded(c) ==
  /\ TooDeep(c)
  /\ Goto(c, "script", "failed")
  /\ UNCHANGED <<token, depth, val, sum, storeVars, syncVars, logVars, paidVars, stopping,
                 limit, lost>>

\* The script finds a positive counter and decrements it, in one step of Redis.
ScriptGrants(c) ==
  /\ ~TooDeep(c)
  /\ redis[token[c]] # NoKey /\ redis[token[c]] > 0
  /\ Goto(c, "script", "submit")
  /\ redis' = [redis EXCEPT ![token[c]] = @ - 1]
  /\ val' = [val EXCEPT ![c] = redis[token[c]] - 1]
  /\ Spend(c)
  /\ UNCHANGED <<token, depth, sum, remaining, total, syncVars, logVars, blind, stopping,
                 limit, lost>>

ScriptRefuses(c) ==
  /\ ~TooDeep(c)
  /\ redis[token[c]] # NoKey /\ redis[token[c]] <= 0
  /\ Goto(c, "script", "refused")
  /\ UNCHANGED <<token, depth, val, sum, storeVars, syncVars, logVars, paidVars, stopping,
                 limit, lost>>

ScriptMisses(c) ==
  /\ ~TooDeep(c)
  /\ redis[token[c]] = NoKey
  /\ Goto(c, "script", "load")
  /\ UNCHANGED <<token, depth, val, sum, storeVars, syncVars, logVars, paidVars, stopping,
                 limit, lost>>

\* The script ran, its reply was lost, and the Redis client tries again (MaxRetries).
ScriptRepeats(c) ==
  /\ pc[c] = "script" /\ ~TooDeep(c)
  /\ redis[token[c]] # NoKey /\ redis[token[c]] > 0
  /\ Fails(c, "redis")
  /\ redis' = [redis EXCEPT ![token[c]] = @ - 1]
  /\ Spend(c)
  /\ blind' = blind \cup {c}
  /\ UNCHANGED <<callVars, remaining, total, syncVars, logVars, stopping, limit>>

ScriptFails(c) ==
  /\ ~TooDeep(c)
  /\ Goto(c, "script", "fallback")
  /\ Fails(c, "redis")
  /\ UNCHANGED <<token, depth, val, sum, storeVars, syncVars, logVars, paidVars, stopping,
                 limit>>

\* Mutant of LoadFromDB: the database is charged for the call as well.
LoadAndCharge(c) ==
  /\ remaining[token[c]] > 0
  /\ Goto(c, "load", "seed")
  /\ val' = [val EXCEPT ![c] = remaining[token[c]]]
  /\ remaining' = [remaining EXCEPT ![token[c]] = @ - 1]
  /\ Spend(c)
  /\ UNCHANGED <<token, depth, sum, redis, total, syncVars, logVars, blind, stopping,
                 limit, lost>>

\* loadQuotaFromDBAndConsume reads the row ...
LoadFromDB(c) ==
  /\ remaining[token[c]] > 0
  /\ Goto(c, "load", "seed")
  /\ val' = [val EXCEPT ![c] = remaining[token[c]]]
  /\ UNCHANGED <<token, depth, sum, storeVars, syncVars, logVars, paidVars, stopping,
                 limit, lost>>

LoadRefuses(c) ==
  /\ remaining[token[c]] <= 0
  /\ Goto(c, "load", "refused")
  /\ UNCHANGED <<token, depth, val, sum, storeVars, syncVars, logVars, paidVars, stopping,
                 limit, lost>>

\* Mutant of Seed: the depth is passed on as it is.
SeedShallow(c) ==
  /\ Goto(c, "seed", "script")
  /\ UNCHANGED depth
  /\ \/ redis' = [redis EXCEPT ![token[c]] = val[c]] /\ UNCHANGED lost
     \/ Fails(c, "redis") /\ UNCHANGED redis
  /\ UNCHANGED <<token, val, sum, remaining, total, syncVars, logVars, paidVars, stopping,
                 limit>>

\* ... sets the key, whatever has happened to it since, and starts again. A
\* failed SET is only logged.
Seed(c) ==
  /\ Goto(c, "seed", "script")
  /\ depth' = [depth EXCEPT ![c] = @ + 1]
  /\ \/ redis' = [redis EXCEPT ![token[c]] = val[c]] /\ UNCHANGED lost
     \/ Fails(c, "redis") /\ UNCHANGED redis
  /\ UNCHANGED <<token, val, sum, remaining, total, syncVars, logVars, paidVars, stopping,
                 limit>>

\* Mutant of DecrementQuotaAtomic: the row is not required to be positive.
DecrementBlindly(c) ==
  /\ Goto(c, "fallback", "confirm")
  /\ remaining' = [remaining EXCEPT ![token[c]] = @ - 1]
  /\ Spend(c)
  /\ UNCHANGED <<token, depth, val, sum, redis, total, syncVars, logVars, blind, stopping,
                 limit, lost>>

\* consumeQuotaFromDB: a conditional UPDATE ...
DecrementQuotaAtomic(c) ==
  /\ remaining[token[c]] > 0
  /\ Goto(c, "fallback", "confirm")
  /\ remaining' = [remaining EXCEPT ![token[c]] = @ - 1]
  /\ Spend(c)
  /\ UNCHANGED <<token, depth, val, sum, redis, total, syncVars, logVars, blind, stopping,
                 limit, lost>>

\* ... that changes no row, or fails ...
DecrementFails(c) ==
  /\ Goto(c, "fallback", "failed")
  /\ \/ remaining[token[c]] <= 0 /\ UNCHANGED lost
     \/ Fails(c, "db")
  /\ UNCHANGED <<token, depth, val, sum, storeVars, syncVars, logVars, paidVars, stopping,
                 limit>>

\* ... and a SELECT of its own for the answer.
Confirm(c) ==
  /\ Goto(c, "confirm", "granted")
  /\ val' = [val EXCEPT ![c] = remaining[token[c]]]
  /\ LogQuotaChange
  /\ UNCHANGED <<token, depth, sum, storeVars, syncVars, paidVars, stopping, limit, lost>>

\* A database error during the load or during that SELECT.
DBFails(c) ==
  /\ pc[c] \in {"load", "confirm"}
  /\ Goto(c, pc[c], "failed")
  /\ Fails(c, "db")
  /\ UNCHANGED <<token, depth, val, sum, storeVars, syncVars, logVars, paidVars, stopping,
                 limit>>

\* Mutant of Task: the value is one too low.
TaskLow(c) == [token |-> token[c], remaining |-> val[c] - 1]

Task(c) == [token |-> token[c], remaining |-> val[c]]

Submit(c) ==
  /\ Len(syncChan) < SyncQueueSize
  /\ Goto(c, "submit", "granted")
  /\ syncChan' = Append(syncChan, Task(c))
  /\ LogQuotaChange
  /\ UNCHANGED <<token, depth, val, sum, storeVars, direct, worker, batch, paidVars,
                 stopping, limit, lost>>

\* The queue has been full for SyncQueueTimeout: a goroutine writes the value.
SubmitTimeout(c) ==
  /\ Len(syncChan) >= SyncQueueSize
  /\ Goto(c, "submit", "granted")
  /\ direct' = direct \cup {c}
  /\ LogQuotaChange
  /\ UNCHANGED <<token, depth, val, sum, storeVars, syncChan, worker, batch, paidVars,
                 stopping, limit, lost>>
-----------------------------------------------------------------------------
(* GetRemainingQuota.                                                      *)

PeekHits(c) ==
  /\ redis[token[c]] # NoKey
  /\ Goto(c, "peek", "answered")
  /\ UNCHANGED <<token, depth, val, sum, storeVars, syncVars, logVars, paidVars, stopping,
                 limit, lost>>

\* Redis fails: the row is read instead, if the database answers.
PeekFails(c) ==
  /\ \E end \in {"answered"} \cup (IF "db" \in Failure THEN {"failed"} ELSE {}) :
       Goto(c, "peek", end)
  /\ Fails(c, "redis")
  /\ UNCHANGED <<token, depth, val, sum, storeVars, syncVars, logVars, paidVars, stopping,
                 limit>>

\* Mutant of PeekMisses: the key is refreshed from the row on every query.
PeekRefreshes(c) ==
  /\ Goto(c, "peek", "fetch")
  /\ UNCHANGED <<token, depth, val, sum, storeVars, syncVars, logVars, paidVars, stopping,
                 limit, lost>>

PeekMisses(c) ==
  /\ redis[token[c]] = NoKey
  /\ Goto(c, "peek", "fetch")
  /\ UNCHANGED <<token, depth, val, sum, storeVars, syncVars, logVars, paidVars, stopping,
                 limit, lost>>

Fetch(c) ==
  /\ Goto(c, "fetch", "refill")
  /\ val' = [val EXCEPT ![c] = remaining[token[c]]]
  /\ UNCHANGED <<token, depth, sum, storeVars, syncVars, logVars, paidVars, stopping,
                 limit, lost>>

FetchFails(c) ==
  /\ Goto(c, "fetch", "failed")
  /\ Fails(c, "db")
  /\ UNCHANGED <<token, depth, val, sum, storeVars, syncVars, logVars, paidVars, stopping,
                 limit>>

\* The SET's error is ignored.
Refill(c) ==
  /\ Goto(c, "refill", "answered")
  /\ \/ redis' = [redis EXCEPT ![token[c]] = val[c]] /\ UNCHANGED lost
     \/ Fails(c, "redis") /\ UNCHANGED redis
  /\ UNCHANGED <<token, depth, val, sum, remaining, total, syncVars, logVars, paidVars,
                 stopping, limit>>
-----------------------------------------------------------------------------
(* UpdateQuota: repository first, then Redis.                              *)

\* New remaining and total quota for "add", "set", "reset" with and without amount.
Revisions(t) ==
  {<<remaining[t] + a, total[t] + a>> : a \in Amount \ {0}}
    \cup {<<a, total[t]>> : a \in Amount}
    \cup {<<a, a>> : a \in Amount}
    \cup {<<total[t], total[t]>>}

\* The row is read and the new values are computed from what was read.
Read(c) ==
  /\ Goto(c, "read", "write")
  /\ \E new \in Revisions(token[c]) :
       /\ val' = [val EXCEPT ![c] = new[1]]
       /\ sum' = [sum EXCEPT ![c] = new[2]]
  /\ lost' = lost \cup {token[c]}
  /\ UNCHANGED <<token, depth, storeVars, syncVars, logVars, paidVars, stopping, limit>>

Most(a, b) == IF a < b THEN b ELSE a

Write(c) ==
  /\ Goto(c, "write", "reread")
  /\ remaining' = [remaining EXCEPT ![token[c]] = val[c]]
  /\ total' = [total EXCEPT ![token[c]] = sum[c]]
  /\ limit' = [limit EXCEPT ![token[c]] = Most(@, Most(val[c], sum[c]))]
  /\ UNCHANGED <<token, depth, val, sum, redis, syncVars, logVars, paidVars, stopping, lost>>

Reread(c) ==
  /\ Goto(c, "reread", "publish")
  /\ val' = [val EXCEPT ![c] = remaining[token[c]]]
  /\ UNCHANGED <<token, depth, sum, storeVars, syncVars, logVars, paidVars, stopping,
                 limit, lost>>

\* The arguments are invalid; or the read, the write or the second read fails.
UpdateFails(c) ==
  /\ pc[c] \in {"read", "write", "reread"}
  /\ Goto(c, pc[c], "failed")
  /\ \/ pc[c] = "read" /\ UNCHANGED lost
     \/ Fails(c, "db")
  /\ UNCHANGED <<token, depth, val, sum, storeVars, syncVars, logVars, paidVars, stopping,
                 limit>>

\* Mutant of Publish: the new value is added to the counter.
PublishAdds(c) ==
  /\ Goto(c, "publish", "answered")
  /\ redis' = [redis EXCEPT ![token[c]] = IF @ = NoKey THEN val[c] ELSE @ + val[c]]
  /\ LogQuotaChange
  /\ UNCHANGED <<token, depth, val, sum, remaining, total, syncVars, paidVars, stopping,
                 limit, lost>>

\* A failed SET is only logged.
Publish(c) ==
  /\ Goto(c, "publish", "answered")
  /\ \/ redis' = [redis EXCEPT ![token[c]] = val[c]] /\ UNCHANGED lost
     \/ Fails(c, "redis") /\ UNCHANGED redis
  /\ LogQuotaChange
  /\ UNCHANGED <<token, depth, val, sum, remaining, total, syncVars, paidVars, stopping,
                 limit>>
-----------------------------------------------------------------------------
(* The sync worker and the goroutines of syncToDBDirectly.                 *)

Batched == {t \in Token : batch[t] # NoKey}

\* Mutant of TakeTask: the first value of a token stays in the batch.
TakeFirst ==
  /\ worker = "collect" /\ syncChan # <<>>
  /\ LET task == Head(syncChan) IN
       batch' = [batch EXCEPT ![task.token] = IF @ = NoKey THEN task.remaining ELSE @]
  /\ syncChan' = Tail(syncChan)
  /\ worker' = IF Cardinality({t \in Token : batch'[t] # NoKey}) >= SyncBatch
                 THEN "flush" ELSE "collect"
  /\ UNCHANGED <<callVars, storeVars, direct, logVars, paidVars, stopping, limit, lost>>

\* The latest value received for a token replaces the one in the batch.
TakeTask ==
  /\ worker = "collect" /\ syncChan # <<>>
  /\ batch' = [batch EXCEPT ![Head(syncChan).token] = Head(syncChan).remaining]
  /\ syncChan' = Tail(syncChan)
  /\ worker' = IF Cardinality(Batched \cup {Head(syncChan).token}) >= SyncBatch
                 THEN "flush" ELSE "collect"
  /\ UNCHANGED <<callVars, storeVars, direct, logVars, paidVars, stopping, limit, lost>>

SyncTick ==
  /\ worker = "collect" /\ Batched # {}
  /\ worker' = "flush"
  /\ UNCHANGED <<callVars, storeVars, syncChan, direct, batch, logVars, paidVars, stopping,
                 limit, lost>>

\* Only the batch is written before the worker stops, not what is still queued.
SyncStop ==
  /\ worker = "collect" /\ stopping
  /\ worker' = IF Batched = {} THEN "stopped" ELSE "final"
  /\ UNCHANGED <<callVars, storeVars, syncChan, direct, batch, logVars, paidVars, stopping,
                 limit, lost>>

\* SyncQuotaFromRedis for one token of the batch, in any order; an error loses it.
BatchSyncToDB ==
  /\ worker \in {"flush", "final"}
  /\ \E t \in Batched :
       /\ batch' = [batch EXCEPT ![t] = NoKey]
       /\ \/ remaining' = [remaining EXCEPT ![t] = batch[t]] /\ UNCHANGED lost
          \/ "db" \in Failure /\ lost' = lost \cup {t} /\ UNCHANGED remaining
       /\ worker' = IF Batched # {t} THEN worker
                    ELSE IF worker = "final" THEN "stopped" ELSE "collect"
  /\ UNCHANGED <<callVars, redis, total, syncChan, direct, logVars, paidVars, stopping, limit>>

SyncToDBDirectly(c) ==
  /\ c \in direct
  /\ direct' = direct \ {c}
  /\ \/ remaining' = [remaining EXCEPT ![token[c]] = val[c]] /\ UNCHANGED lost
     \/ Fails(c, "db") /\ UNCHANGED remaining
  /\ UNCHANGED <<callVars, redis, total, syncChan, worker, batch, logVars, paidVars,
                 stopping, limit>>
-----------------------------------------------------------------------------
(* The log worker.                                                         *)

\* batchInsertLogs: one statement for n entries, all or nothing.
BatchInsertLogs(n) ==
  \/ logRows' = logRows + n /\ UNCHANGED lostLogs
  \/ "db" \in Failure /\ lostLogs' = lostLogs + n /\ UNCHANGED logRows

\* Mutant of TakeLog: the entry that fills the batch is not inserted with it.
TakeLogShort ==
  /\ logWorker = "collect" /\ logChan > 0
  /\ logChan' = logChan - 1
  /\ IF logBatch + 1 >= SyncBatch
       THEN logBatch' = 0 /\ BatchInsertLogs(logBatch)
       ELSE logBatch' = logBatch + 1 /\ UNCHANGED <<logRows, lostLogs>>
  /\ UNCHANGED <<callVars, storeVars, syncVars, logWorker, droppedLog, changes, paidVars,
                 stopping, limit, lost>>

TakeLog ==
  /\ logWorker = "collect" /\ logChan > 0
  /\ logChan' = logChan - 1
  /\ IF logBatch + 1 >= SyncBatch
       THEN logBatch' = 0 /\ BatchInsertLogs(logBatch + 1)
       ELSE logBatch' = logBatch + 1 /\ UNCHANGED <<logRows, lostLogs>>
  /\ UNCHANGED <<callVars, storeVars, syncVars, logWorker, droppedLog, changes, paidVars,
                 stopping, limit, lost>>

LogTick ==
  /\ logWorker = "collect" /\ logBatch > 0
  /\ logBatch' = 0 /\ BatchInsertLogs(logBatch)
  /\ UNCHANGED <<callVars, storeVars, syncVars, logChan, logWorker, droppedLog, changes,
                 paidVars, stopping, limit, lost>>

LogStop ==
  /\ logWorker = "collect" /\ stopping
  /\ logWorker' = "stopped"
  /\ logBatch' = 0 /\ BatchInsertLogs(logBatch)
  /\ UNCHANGED <<callVars, storeVars, syncVars, logChan, droppedLog, changes, paidVars,
                 stopping, limit, lost>>
-----------------------------------------------------------------------------
\* Stop closes stopChan and waits for both workers.
Stop ==
  /\ ~stopping
  /\ stopping' = TRUE
  /\ UNCHANGED <<callVars, storeVars, syncVars, logVars, paidVars, limit, lost>>

\* The TTL of a key is set when the key is, never renewed; Redis may also evict it.
Expire(t) ==
  /\ "expiry" \in Failure /\ redis[t] # NoKey
  /\ redis' = [redis EXCEPT ![t] = NoKey]
  /\ lost' = lost \cup {t}
  /\ UNCHANGED <<callVars, remaining, total, syncVars, logVars, paidVars, stopping, limit>>

\* Every call has returned and the service has stopped.
Ended ==
  /\ worker = "stopped" /\ logWorker = "stopped" /\ direct = {}
  /\ \A c \in Call : pc[c] \in Finished
  /\ UNCHANGED vars

ConsumeQuota(c) ==
  \/ DepthExceeded(c) \/ ScriptGrants(c) \/ ScriptRefuses(c) \/ ScriptMisses(c)
  \/ ScriptFails(c) \/ LoadFromDB(c) \/ LoadRefuses(c) \/ Seed(c)
  \/ DecrementQuotaAtomic(c) \/ DecrementFails(c) \/ Confirm(c) \/ DBFails(c)
  \/ Submit(c) \/ SubmitTimeout(c)

GetRemainingQuota(c) ==
  PeekHits(c) \/ PeekFails(c) \/ PeekMisses(c) \/ Fetch(c) \/ FetchFails(c) \/ Refill(c)

UpdateQuota(c) == Read(c) \/ Write(c) \/ Reread(c) \/ UpdateFails(c) \/ Publish(c)

SyncWorker == TakeTask \/ SyncTick \/ SyncStop \/ BatchSyncToDB

LogWorker == TakeLog \/ LogTick \/ LogStop

Next ==
  \/ \E c \in Call : \/ ConsumeQuota(c) \/ ScriptRepeats(c)
                     \/ GetRemainingQuota(c) \/ UpdateQuota(c) \/ SyncToDBDirectly(c)
  \/ SyncWorker
  \/ LogWorker
  \/ Stop
  \/ \E t \in Token : Expire(t)
  \/ Ended

\* Every goroutine is scheduled, Redis and the database answer or fail within
\* their timeouts, and the timer of a full queue fires.
Fairness ==
  /\ \A c \in Call : /\ WF_vars(ConsumeQuota(c)) /\ WF_vars(GetRemainingQuota(c))
                     /\ WF_vars(UpdateQuota(c)) /\ WF_vars(SyncToDBDirectly(c))
  /\ WF_vars(SyncWorker) /\ WF_vars(LogWorker)

Spec == Init /\ [][Next]_vars /\ Fairness
-----------------------------------------------------------------------------
(* Properties.                                                             *)

CallsTyped ==
  /\ pc \in [Call -> PC] /\ token \in [Call -> Token]
  /\ depth \in [Call -> 0..(MaxRecursionDepth + 1)]
  /\ val \in [Call -> Nat] /\ sum \in [Call -> Nat]

StoresTyped ==
  /\ redis \in [Token -> Nat \cup {NoKey}]
  /\ remaining \in [Token -> Nat] /\ total \in [Token -> Nat]

SyncTyped ==
  /\ syncChan \in Seq([token : Token, remaining : Nat])
  /\ direct \in SUBSET Call
  /\ worker \in {"collect", "flush", "final", "stopped"}
  /\ batch \in [Token -> Nat \cup {NoKey}]
  /\ stopping \in BOOLEAN

LogsTyped ==
  /\ logChan \in Nat /\ logBatch \in Nat /\ logRows \in Nat
  /\ logWorker \in {"collect", "stopped"}
  /\ droppedLog \in Nat /\ changes \in Nat /\ lostLogs \in Nat

GhostsTyped ==
  /\ limit \in [Token -> Nat] /\ spent \in [Token -> Nat] /\ charge \in [Call -> Nat]
  /\ blind \in SUBSET Call /\ lost \in SUBSET Token

(* Quotas, counters and queue lengths are natural numbers: no decrement,   *)
(* on Redis or on the row, takes a quota below zero, and the recursion     *)
(* never goes further than one level beyond its limit.                     *)
TypeOK == CallsTyped /\ StoresTyped /\ SyncTyped /\ LogsTyped /\ GhostsTyped

Queued(t) == {syncChan[i].remaining : i \in {j \in DOMAIN syncChan : syncChan[j].token = t}}

\* Values a call has read or been given that may still be written somewhere.
Carried(t) ==
  {val[c] : c \in {d \in Call : /\ token[d] = t
                                /\ pc[d] \in {"seed", "submit", "refill", "publish"}}}
    \cup {val[c] : c \in {d \in direct : token[d] = t}}

\* Every copy of the quota of t, wherever it is.
Copies(t) ==
  ({redis[t], batch[t]} \ {NoKey}) \cup {remaining[t]} \cup Queued(t) \cup Carried(t)

(* Whatever is lost, delayed or reordered, no copy of a token's quota ever *)
(* exceeds the largest quota that was granted: nothing adds up twice.      *)
NeverInflated == \A t \in Token : \A n \in Copies(t) : n <= limit[t]

(* As long as its key has not expired, nothing has failed for it and no    *)
(* administrator has changed it, a token's counter and the calls it has    *)
(* paid for add up to its quota, however calls and queries interleave.     *)
Conserved == \A t \in Token \ lost : redis[t] # NoKey /\ redis[t] + spent[t] = Quota

(* For such a token the row, and every value on its way to it, is one that *)
(* the counter has had: the row lags, it never runs ahead.                 *)
RowLags ==
  \A t \in Token \ lost :
    \A n \in Copies(t) : redis[t] <= n /\ n <= Quota

(* A granted call has been charged exactly once, a refused one not at all, *)
(* through reloads, recursion and the fallback to the database; only the   *)
(* calls for which the Redis client repeated a script are charged again.   *)
PaidOnce ==
  \A c \in Call \ blind :
    /\ charge[c] <= 1
    /\ pc[c] = "granted" => charge[c] = 1
    /\ pc[c] = "refused" => charge[c] = 0

(* Every change of a quota that was logged is in the queue, in the batch,  *)
(* in the table, or counted as dropped, or in an insert that failed.       *)
LogsAccounted == changes = logChan + logBatch + logRows + droppedLog + lostLogs

(* Every call returns, even when the key expires again and again between   *)
(* its load and its script, the queue is full, or the service has stopped. *)
CallsReturn == \A c \in Call : pc[c] \notin Finished ~> pc[c] \in Finished

(* .env.example:76: atomic Redis operations keep quotas exact: without an  *)
(* administrator's change a token pays for at most its quota.              *)
NoOverspend == "update" \notin Operation => \A t \in Token : spent[t] <= Quota

Quiet(t) ==
  /\ \A c \in Call : token[c] = t => pc[c] \in Finished /\ c \notin direct
  /\ Queued(t) = {} /\ batch[t] = NoKey

(* quota_service.go:517: of the values of a token only the latest is kept: *)
(* when nothing is on its way any more, the row shows the counter.         *)
LatestKept == \A t \in Token \ lost : Quiet(t) => remaining[t] = redis[t]
=============================================================================
