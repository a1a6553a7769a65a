----------------------------- MODULE HttpGateway -----------------------------
(***************************************************************************)
(* A request on its way through the router: its middleware, the handlers   *)
(* of the controllers and back. router/router.go, middleware/*.go,         *)
(* controller/executor_controller.go, token_controller.go.                 *)
(*                                                                         *)
(* What the limiters, the token service and the quota service decide is    *)
(* any of their answers here; the modules of their own say which.          *)
(***************************************************************************)
EXTENDS Integers, FiniteSets

CONSTANTS Request, Token, None,
          Metered,      \* the tokens that pay with quota: NeedsQuotaCheck
          Quota,        \* of each at the start
          MaxConcurrent, \* executions
          MaxAccepted   \* requests of one slot: bound

VARIABLES at,           \* [Request -> where a request is; "free" before and after]
          token,        \* [Request -> the token in its context]
          status,       \* [Request -> the code its handler gave, or Panicked]
          sent,         \* [Request -> the code the client got]
          writer,       \* [Request -> its gzip writer]
          pool,         \* gzipWriterPool
          valid,        \* tokens that authenticate
          quota,        \* [Token -> left]
          charged, executed, recorded, \* ghosts: [Request -> BOOLEAN]
          spent, accepted              \* ghosts: [Token -> charges]; requests of each slot

context == <<token, writer, pool, valid, quota>>
ghosts  == <<charged, executed, recorded, spent, accepted>>
vars    == <<at, status, sent, context, ghosts>>

Panicked == -1
Writers  == 1..Cardinality(Request)

Init ==
  /\ at = [r \in Request |-> "free"] /\ token = [r \in Request |-> None]
  /\ status = [r \in Request |-> 0] /\ sent = [r \in Request |-> 0]
  /\ writer = [r \in Request |-> None] /\ pool = {}
  /\ valid = Token /\ quota = [t \in Token |-> Quota]
  /\ charged = [r \in Request |-> FALSE] /\ executed = charged /\ recorded = charged
  /\ spent = [t \in Token |-> 0] /\ accepted = [r \in Request |-> 0]

-----------------------------------------------------------------------------
\* A stage passes its request on, answers it (c.JSON with c.Abort), or panics.
Pass(r, from, to)  == at[r] = from /\ at' = [at EXCEPT ![r] = to] /\ UNCHANGED <<status, sent>>
Answer(r, from, code) == /\ at[r] = from /\ at' = [at EXCEPT ![r] = "back"]
                         /\ status' = [status EXCEPT ![r] = code] /\ sent' = [sent EXCEPT ![r] = code]

\* A request gets its id, its own or a new one, and a body that ends with an error beyond the limit.
Accept(r) == /\ accepted[r] < MaxAccepted /\ Pass(r, "free", "cors")
             /\ accepted' = [accepted EXCEPT ![r] = @ + 1]
             /\ UNCHANGED <<context, charged, executed, recorded, spent>>

\* corsMiddleware: no origin, the same or a listed one, or another; OPTIONS of an allowed one ends.
Cors(r) == /\ Pass(r, "cors", "gzip") \/ Answer(r, "cors", 204) \/ Answer(r, "cors", 403)
           /\ UNCHANGED <<context, ghosts>>

\* GzipMiddleware, when the client accepts it and the path is not of a compressed format: a writer
\* of the pool or a new one.
Plain(r) == Pass(r, "gzip", "route") /\ UNCHANGED <<context, ghosts>>
Gzip(r) ==
  /\ Pass(r, "gzip", "route")
  /\ \E w \in Writers \ {writer[x] : x \in Request} :
       writer' = [writer EXCEPT ![r] = w] /\ pool' = pool \ {w}
  /\ UNCHANGED <<token, valid, quota, ghosts>>

\* The groups of routes: execution, administration, public pages and queries.
Route(r) == (\E to \in {"address", "admin", "global"} : Pass(r, "route", to)) /\ UNCHANGED <<context, ghosts>>

-----------------------------------------------------------------------------
\* Execution: the limiter of addresses, the token, the limiter of tokens, which lets pass on errors.
Address(r) == (Pass(r, "address", "auth") \/ Answer(r, "address", 429)) /\ UNCHANGED <<context, ghosts>>

TokenAuth(r) ==
  /\ \/ Answer(r, "auth", 401) /\ UNCHANGED token
     \/ Pass(r, "auth", "limit") /\ \E t \in valid : token' = [token EXCEPT ![r] = t]
  /\ UNCHANGED <<writer, pool, valid, quota, ghosts>>

LimitRate(r) == (Pass(r, "limit", "bind") \/ Answer(r, "limit", 429)) /\ UNCHANGED <<context, ghosts>>

\* Execute: a body that is too large, is no JSON, holds too much or no base64 is answered with 400.
Bind(r) == (Pass(r, "bind", "charge") \/ Answer(r, "bind", 400)) /\ UNCHANGED <<context, ghosts>>

\* Mutant: the code is checked after the charge.
ChargeFirst(r) ==
  /\ \/ Pass(r, "charge", "run") /\ executed' = [executed EXCEPT ![r] = TRUE]
     \/ Answer(r, "charge", 400) /\ UNCHANGED executed
  /\ token[r] \in Metered /\ quota[token[r]] > 0
  /\ quota' = [quota EXCEPT ![token[r]] = @ - 1] /\ spent' = [spent EXCEPT ![token[r]] = @ + 1]
  /\ charged' = [charged EXCEPT ![r] = TRUE]
  /\ UNCHANGED <<token, writer, pool, valid, recorded, accepted>>
\* ConsumeQuota for the tokens that pay, then Execute.
Charge(r) ==
  LET t == token[r]
  IN \/ /\ t \notin Metered /\ Pass(r, "charge", "run")
        /\ executed' = [executed EXCEPT ![r] = TRUE]
        /\ UNCHANGED <<context, charged, recorded, spent, accepted>>
     \/ /\ t \in Metered /\ Answer(r, "charge", 429) /\ UNCHANGED <<context, ghosts>>
     \/ /\ t \in Metered /\ quota[t] > 0 /\ Pass(r, "charge", "run")
        /\ quota' = [quota EXCEPT ![t] = @ - 1] /\ spent' = [spent EXCEPT ![t] = @ + 1]
        /\ charged' = [charged EXCEPT ![r] = TRUE] /\ executed' = [executed EXCEPT ![r] = TRUE]
        /\ UNCHANGED <<token, writer, pool, valid, recorded, accepted>>

\* The executor returns a result or an error, refusals of the breaker and of a full queue too;
\* both are recorded, then answered.
RecordStats(r) == recorded' = [recorded EXCEPT ![r] = TRUE]
Return(r) ==
  /\ (\E code \in {200, 400} : Answer(r, "run", code)) /\ RecordStats(r)
  /\ UNCHANGED <<context, charged, executed, spent, accepted>>

-----------------------------------------------------------------------------
\* Administration: no token, another token, the administrator's; then an operation.
AdminAuth(r) == /\ Pass(r, "admin", "operate") \/ Answer(r, "admin", 401) \/ Answer(r, "admin", 403)
                /\ UNCHANGED <<context, ghosts>>

CreateToken(r, t) == valid' = valid \cup {t} /\ Answer(r, "operate", 200)
DeleteToken(r, t) == valid' = valid \ {t} /\ Answer(r, "operate", 200)
GetQuota(r, t)    == Answer(r, "operate", IF t \in valid THEN 200 ELSE 404) /\ UNCHANGED valid
\* Health asks the database and Redis beside one another; Redis may fail.
Health(r) ==
  /\ \E db \in BOOLEAN :
       Answer(r, "operate", IF db /\ Cardinality({x \in Request : at[x] = "run"}) < MaxConcurrent THEN 200 ELSE 503)
  /\ UNCHANGED valid
\* Stats, Limits, the reports, clearing a cache or a history: an answer, or what their query met.
Report(r) == (\E code \in {200, 400, 500, 503} : Answer(r, "operate", code)) /\ UNCHANGED valid
Operate(r) ==
  /\ \/ \E t \in Token : CreateToken(r, t) \/ DeleteToken(r, t) \/ GetQuota(r, t)
     \/ Health(r) \/ Report(r)
  /\ UNCHANGED <<token, writer, pool, quota, ghosts>>

\* Public routes: a global limiter, then the page with a session or without one, or a query.
Global(r)   == (Pass(r, "global", "serve") \/ Answer(r, "global", 429)) /\ UNCHANGED <<context, ghosts>>
TestTool(r) == Answer(r, "serve", 200) /\ UNCHANGED <<context, ghosts>>
QueryTokenPublic(r) == (\E code \in {400, 401, 500} : Answer(r, "serve", code)) /\ UNCHANGED <<context, ghosts>>
\* A handler that panics: what Recovery is there for.
Panic(r) == /\ at[r] \in {"serve", "operate"} /\ at' = [at EXCEPT ![r] = "back"] /\ status' = [status EXCEPT ![r] = Panicked]
             /\ UNCHANGED <<sent, context, ghosts>>

-----------------------------------------------------------------------------
\* The way back. Closing a gzip writer ends its stream: where nothing is written yet that sends
\* the head with status 200. Recovery answers a panic with 500 when nothing is sent.
First(r, code) == [sent EXCEPT ![r] = IF @ = 0 THEN code ELSE @]
\* Mutant: the writer goes back to the pool before it is closed.
PutBack(r) == /\ at[r] = "back" /\ writer[r] # None /\ writer[r] \notin pool /\ pool' = pool \cup {writer[r]}
              /\ UNCHANGED <<at, token, status, sent, writer, valid, quota, ghosts>>
CloseWriter(r) ==
  /\ at[r] = "back" /\ writer[r] # None /\ at' = [at EXCEPT ![r] = "closed"] /\ sent' = First(r, 200)
  /\ UNCHANGED <<status, context, ghosts>>
Put(r) ==
  /\ at[r] = "closed" /\ at' = [at EXCEPT ![r] = "back"]
  /\ pool' = pool \cup {writer[r]} /\ writer' = [writer EXCEPT ![r] = None]
  /\ UNCHANGED <<status, sent, token, valid, quota, ghosts>>
Recovery(r) ==
  /\ at[r] = "back" /\ writer[r] = None /\ at' = [at EXCEPT ![r] = "done"]
  /\ sent' = IF status[r] = Panicked THEN First(r, 500) ELSE sent
  /\ UNCHANGED <<status, context, ghosts>>
\* The next request of the connection.
Again(r) ==
  /\ at[r] = "done" /\ at' = [at EXCEPT ![r] = "free"]
  /\ status' = [status EXCEPT ![r] = 0] /\ sent' = [sent EXCEPT ![r] = 0] /\ token' = [token EXCEPT ![r] = None]
  /\ charged' = [charged EXCEPT ![r] = FALSE] /\ executed' = [executed EXCEPT ![r] = FALSE]
  /\ recorded' = [recorded EXCEPT ![r] = FALSE]
  /\ UNCHANGED <<writer, pool, valid, quota, spent, accepted>>

Next == \E r \in Request :
          \/ Accept(r) \/ Cors(r) \/ Plain(r) \/ Gzip(r) \/ Route(r)
          \/ Address(r) \/ TokenAuth(r) \/ LimitRate(r) \/ Bind(r) \/ Charge(r) \/ Return(r)
          \/ AdminAuth(r) \/ Operate(r) \/ Global(r) \/ TestTool(r) \/ QueryTokenPublic(r) \/ Panic(r)
          \/ CloseWriter(r) \/ Put(r) \/ Recovery(r) \/ Again(r)

-----------------------------------------------------------------------------
\* Whatever order the requests of a token run in, it pays for what is executed and for nothing
\* that is refused, and what was executed is recorded once it is answered.
ChargedMeansExecuted ==
  /\ \A r \in Request : /\ charged[r] => executed[r]
                        /\ executed[r] /\ token[r] \in Metered => charged[r]
                        /\ at[r] = "done" => (executed[r] <=> recorded[r])
  /\ \A t \in Token : spent[t] + quota[t] = Quota

\* A gzip writer serves one response at a time, also while it is closed.
WriterAlone == /\ \A r, x \in Request : r # x /\ writer[r] # None => writer[r] # writer[x]
               /\ \A r \in Request : writer[r] \notin pool

\* A client that is told 200 was served, unless the handler panicked behind the gzip writer.
SuccessIsServed == \A r \in Request : sent[r] = 200 => status[r] \in {200, Panicked}

GatewayHolds == ChargedMeansExecuted /\ WriterAlone /\ SuccessIsServed
=============================================================================
