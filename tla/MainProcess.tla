---------------------------- MODULE MainProcess ----------------------------
(***************************************************************************)
(* The life of the process: what main starts, how requests use it, and the *)
(* order in which a signal stops it. Each part is as coarse as the order   *)
(* needs; its own module has the detail. cmd/main.go.                      *)
(***************************************************************************)
EXTENDS Integers, Sequences, FiniteSets

CONSTANTS Handler, MaxRequests \* handlers at work at a time; bound: requests

VARIABLES life,     \* "starting", "up", "stopping", "exited" (main returns), "crashed"
          redis,    \* "up", "down" or "disabled" at the start
          turn,     \* the step of the shutdown, 0 before the signal
          at,       \* a handler: "out", "charge", "run", "record"
          served,   \* ghost: requests so far
          syncChan, \* charges in the quota service's queue
          worker,   \* its worker, and the cleanup's: "work", "gone"
          cleaner,
          lost      \* ghost: charges that will never be written

vars == <<life, redis, turn, at, served, syncChan, worker, cleaner, lost>>
parts == <<syncChan, worker, cleaner, lost>>

\* Mutant: the write pool is closed before the executor.
OrderPoolFirst == <<"server", "grace", "quota", "pool", "executor", "limiter", "cache", "addresses", "cleanup", "exit">>
\* The steps of the signal handler; "exit" lets main return, which closes Redis and the database.
Order == <<"server", "grace", "quota", "executor", "pool", "limiter", "cache", "addresses", "cleanup", "exit">>
Now == IF turn = 0 THEN "none" ELSE Order[turn]
Reached(step) == \E i \in 1..turn : Order[i] = step

Init ==
  /\ life = "starting" /\ redis \in {"up", "down", "disabled"}
  /\ turn = 0 /\ at = [h \in Handler |-> "out"] /\ served = 0
  /\ syncChan = 0 /\ worker = "work" /\ cleaner = "work" /\ lost = 0

-----------------------------------------------------------------------------
\* The start. Without a database main ends; without Redis the client is nil, and the check of its
\* configuration calls it: the process panics.
StartFails == /\ life = "starting" /\ life' = "crashed"
              /\ UNCHANGED <<redis, turn, at, served, parts>>
Start == /\ life = "starting" /\ redis = "up" /\ life' = "up"
         /\ UNCHANGED <<redis, turn, at, served, parts>>

\* A request, until the server no longer accepts any.
Accept(h) == /\ life = "up" /\ ~Reached("server") /\ at[h] = "out" /\ served < MaxRequests
             /\ served' = served + 1 /\ at' = [at EXCEPT ![h] = "charge"]
             /\ UNCHANGED <<life, redis, turn, parts>>
\* Its charge goes to the queue, whether or not a worker is left to take it; then the executor
\* takes the call, or refuses it once its shutdown has begun.
Charge(h) == /\ at[h] = "charge" /\ syncChan' = syncChan + 1
             /\ at' = [at EXCEPT ![h] = IF Reached("executor") THEN "record" ELSE "run"]
             /\ UNCHANGED <<life, redis, turn, served, worker, cleaner, lost>>
Run(h) == /\ at[h] = "run" /\ at' = [at EXCEPT ![h] = "record"]
          /\ UNCHANGED <<life, redis, turn, served, parts>>
Reply(h) == /\ at[h] = "record" /\ at' = [at EXCEPT ![h] = "out"]
            /\ UNCHANGED <<life, redis, turn, served, parts>>

\* The quota worker writes what it takes from the queue.
Sync == /\ worker = "work" /\ syncChan > 0 /\ syncChan' = syncChan - 1
        /\ UNCHANGED <<life, redis, turn, at, served, worker, cleaner, lost>>
\* It sees the stop, also when charges are still in the queue.
WorkerStops == /\ worker = "work" /\ Reached("quota") /\ worker' = "gone" /\ lost' = lost + syncChan
               /\ UNCHANGED <<life, redis, turn, at, served, syncChan, cleaner>>
CleanerStops == /\ cleaner = "work" /\ Reached("cleanup") /\ cleaner' = "gone"
                /\ UNCHANGED <<life, redis, turn, at, served, syncChan, worker, lost>>

-----------------------------------------------------------------------------
\* Calls in the executor's wait group.
Executing == {h \in Handler : at[h] = "run"}

Signal == /\ life = "up" /\ life' = "stopping" /\ turn' = 1
          /\ UNCHANGED <<redis, at, served, parts>>
\* A step returns when what it waits for has happened. The server waits ten seconds and the write
\* pool five at most; the executor waits for its calls without a limit.
Returns(step) ==
  CASE step = "quota"    -> worker = "gone"
    [] step = "executor" -> Executing = {}
    [] step = "cleanup"  -> cleaner = "gone"
    [] OTHER -> TRUE
Proceed == /\ life = "stopping" /\ Now # "exit" /\ Returns(Now) /\ turn' = turn + 1
           /\ UNCHANGED <<life, redis, at, served, parts>>
Exit == /\ life = "stopping" /\ Now = "exit" /\ life' = "exited"
        /\ UNCHANGED <<redis, turn, at, served, parts>>

Next == \/ StartFails \/ Start \/ Signal \/ Proceed \/ Exit \/ Sync \/ WorkerStops \/ CleanerStops
        \/ \E h \in Handler : Accept(h) \/ Charge(h) \/ Run(h) \/ Reply(h)

\* Goroutines run, and the executor's deadline ends every call.
Fairness == /\ WF_vars(Proceed) /\ WF_vars(Exit) /\ WF_vars(CleanerStops) /\ WF_vars(WorkerStops)
            /\ \A h \in Handler : WF_vars(Run(h))
Spec == Init /\ [][Next]_vars /\ Fairness

-----------------------------------------------------------------------------
\* No code is running when the write pool, the limiter and the connections are closed, although
\* the server gives up waiting for its handlers after ten seconds.
ExecutionsEndFirst == Reached("pool") \/ life = "exited" => Executing = {}
\* A signal ends the process, whatever the requests are doing.
StopsOnSignal == life = "stopping" ~> life = "exited"
=============================================================================
