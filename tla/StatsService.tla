---------------------------- MODULE StatsService ----------------------------
(***************************************************************************)
(* Statistics of executions: a goroutine per execution writes one          *)
(* transaction over three tables; the reports read the tables.             *)
(* service/stats_service.go, utils/module_parser.go, model/stats.go.       *)
(*                                                                         *)
(* The database locks a row from its first change to the end of the        *)
(* transaction, so the changes are applied at the commit. Modules are      *)
(* numbers in their alphabetical order; 0 is "basic_feature".              *)
(***************************************************************************)
EXTENDS Integers, Sequences, FiniteSets, Functions

CONSTANTS Recorder,       \* the goroutines
          Id, Token,      \* request identifiers, which a client may repeat; tokens
          Codes,          \* the modules an execution's code requires, in the order of the code
          MaxRecords,     \* bound
          None

Ok == {TRUE, FALSE}

VARIABLES record, step,  \* a recorder: what it writes, and the row it is at
          locks,         \* rows -> the recorder that has changed it, for the rows that are locked
          execs,         \* code_execution_stats: Id -> the status, for the rows that exist
          modules,       \* module_usage_stats: module -> [Ok -> count]
          users,         \* user_activity_stats: Token -> [calls, ok, require, sum, avg]
          started        \* ghost: records so far

vars == <<record, step, locks, execs, modules, users, started>>

\* Mutant: the modules in the order of the code.
UnsortedModules(code) == code
\* ParseModuleUsage: without repetitions and blank names, which are 0, and sorted.
ParseModuleUsage(code) ==
  LET used == {code[i] : i \in DOMAIN code} \ {0}
  IN CHOOSE list \in [1 .. Cardinality(used) -> used] : \A i, j \in DOMAIN list : i < j => list[i] < list[j]

NoUser == [calls |-> 0, ok |-> 0, require |-> 0, sum |-> 0, avg |-> 0]

Init ==
  /\ record = [r \in Recorder |-> None] /\ step = [r \in Recorder |-> 0]
  /\ locks = <<>> /\ execs = <<>>
  /\ modules = <<>> /\ users = [t \in Token |-> NoUser] /\ started = 0

-----------------------------------------------------------------------------
\* Mutant: code without modules has no row.
RowsWithoutBasic(rec) == <<<<"execution", rec.id>>>> \o
                         [i \in 1..Len(rec.modules) |-> <<"module", rec.modules[i]>>] \o <<<<"user", rec.token>>>>
\* The rows of a record in the order of the statements: the execution, its modules, the user.
\* updateModuleStats takes "basic_feature" for code without modules.
Rows(rec) == LET used == IF rec.modules = <<>> THEN <<0>> ELSE rec.modules
             IN <<<<"execution", rec.id>>>> \o [i \in 1..Len(used) |-> <<"module", used[i]>>]
                  \o <<<<"user", rec.token>>>>

\* RecordExecutionStats, called by the controller after an execution.
RecordExecutionStats(r) ==
  /\ record[r] = None /\ started < MaxRecords
  /\ started' = started + 1
  /\ \E id \in Id, t \in Token, code \in Codes, ok \in Ok, time \in {1, 3} :
       record' = [record EXCEPT ![r] = [id |-> id, token |-> t, modules |-> ParseModuleUsage(code),
                                        require |-> code # <<>>, ok |-> ok, time |-> time]]
  /\ step' = [step EXCEPT ![r] = 1]
  /\ UNCHANGED <<locks, execs, modules, users>>

Wants(r) == Rows(record[r])[step[r]]
Writing(r) == record[r] # None /\ step[r] <= Len(Rows(record[r]))
\* A recorder waits for the one that holds the row it is at.
WaitsFor(r, q) == Writing(r) /\ Wants(r) \in DOMAIN locks /\ locks[Wants(r)] = q /\ q # r

\* A statement of the transaction.
Statement(r) ==
  /\ Writing(r) /\ \A q \in Recorder : ~WaitsFor(r, q)
  /\ locks' = [row \in DOMAIN locks \cup {Wants(r)} |-> IF row = Wants(r) THEN r ELSE locks[row]]
  /\ step' = [step EXCEPT ![r] = @ + 1]
  /\ UNCHANGED <<record, execs, modules, users, started>>

Ended(r) == /\ locks' = Restrict(locks, {row \in DOMAIN locks : locks[row] # r})
            /\ record' = [record EXCEPT ![r] = None] /\ step' = [step EXCEPT ![r] = 0]

\* updateModuleStats
UpdatedModules(rec) ==
  LET hit    == {row[2] : row \in {r \in Range(Rows(rec)) : r[1] = "module"}}
      old(k) == IF k \in DOMAIN modules THEN modules[k] ELSE [o \in Ok |-> 0]
  IN [k \in DOMAIN modules \cup hit |-> IF k \in hit THEN [old(k) EXCEPT ![rec.ok] = @ + 1] ELSE modules[k]]

\* updateUserActivityStats. The assignments of the update are made from left to right, so the
\* average is computed from the sum and the count that already hold this call.
UpdatedUser(u, rec) ==
  LET sum == u.sum + rec.time calls == u.calls + 1
  IN [calls |-> calls, ok |-> u.ok + (IF rec.ok THEN 1 ELSE 0),
      require |-> u.require + (IF rec.require THEN 1 ELSE 0), sum |-> sum,
      avg |-> IF u.calls = 0 THEN 0 ELSE (sum + rec.time) \div (calls + 1)]

\* An execution that is known keeps its row; only its status changes.
Commit(r) ==
  LET rec == record[r]
  IN /\ rec # None /\ ~Writing(r)
     /\ execs' = [i \in DOMAIN execs \cup {rec.id} |-> IF i = rec.id THEN rec.ok ELSE execs[i]]
     /\ modules' = UpdatedModules(rec)
     /\ users' = [users EXCEPT ![rec.token] = UpdatedUser(@, rec)]
     /\ Ended(r) /\ UNCHANGED started

\* A statement fails, or the five seconds are over: the transaction is rolled back.
Rollback(r) == /\ record[r] # None /\ Ended(r) /\ UNCHANGED <<execs, modules, users, started>>

Next == \E r \in Recorder : RecordExecutionStats(r) \/ Statement(r) \/ Commit(r) \/ Rollback(r)

-----------------------------------------------------------------------------
Usage     == [k \in DOMAIN modules |-> modules[k][TRUE] + modules[k][FALSE]]
Successes == [k \in DOMAIN modules |-> modules[k][TRUE]]
Column(c) == [t \in Token |-> users[t][c]]

\* GetModuleStats: an execution counts once for each of its modules.
ModuleSummary ==
  LET total == SumFunction(Usage)
      basic == IF 0 \in DOMAIN modules THEN Usage[0] ELSE 0
  IN [total |-> total, basic |-> basic,
      requireRate |-> IF total > 0 THEN ((total - basic) * 100) \div total ELSE 0]

\* The summary of GetUserActivityStats; rows exist for the tokens that have called.
UserSummary ==
  LET rows == {t \in Token : users[t].calls > 0}
  IN [users   |-> Cardinality(rows),
      calls   |-> SumFunctionOnSet(Column("calls"), rows),
      ok      |-> SumFunctionOnSet(Column("ok"), rows),
      require |-> SumFunctionOnSet(Column("require"), rows)]

\* Recorders never wait for one another in a circle: every transaction locks its modules in the
\* same order, between the execution and the user.
NoWaitCycle ==
  \A set \in (SUBSET Recorder) \ {{}} : \E r \in set : \A q \in set : ~WaitsFor(r, q)

\* The reports tell the same story although clients repeat identifiers and transactions fail:
\* every call of a user is in the modules' report, a call without require (or with a blank name)
\* as basic_feature, every success too, and no execution has a row but no call.
ReportsAgree ==
  /\ ModuleSummary.basic >= UserSummary.calls - UserSummary.require
  /\ ModuleSummary.total >= UserSummary.calls
  /\ Cardinality(DOMAIN execs) <= UserSummary.calls
  /\ UserSummary.ok <= SumFunction(Successes)
=============================================================================
