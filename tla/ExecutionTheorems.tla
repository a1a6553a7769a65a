--------------------------- MODULE ExecutionTheorems ---------------------------
(***************************************************************************)
(* What stands before an execution, and what the execution is given, for   *)
(* every value of the constants: the invariants of the gateway, the pages, *)
(* the codes and the addresses, those of the setting up of runtimes and of *)
(* Blobs, and the theorems from these, about the composition Requests.     *)
(***************************************************************************)
EXTENDS Requests, SumTheorems, SequenceTheorems

-----------------------------------------------------------------------------
(***************************************************************************)
(* HttpGateway. What is executed, charged, recorded and sent is fixed by   *)
(* where a request is; the writers in use and the pooled ones are disjoint.*)
(***************************************************************************)

Ahead == {"free", "cors", "gzip", "route", "address", "auth", "limit", "bind", "charge", "admin",
          "operate", "global", "serve"}
Behind == {"back", "closed", "done"}

GatewayTyped ==
  /\ gateway_at \in [Request -> Ahead \cup Behind \cup {"run"}]
  /\ gateway_token \in [Request -> Bearer \cup {None}] /\ gateway_valid \subseteq Bearer
  /\ gateway_status \in [Request -> Int] /\ gateway_sent \in [Request -> Int]
  /\ gateway_quota \in [Bearer -> Int] /\ gateway_spent \in [Bearer -> Int]
  /\ gateway_charged \in [Request -> BOOLEAN] /\ gateway_executed \in [Request -> BOOLEAN]
  /\ gateway_recorded \in [Request -> BOOLEAN]

GatewayPaid ==
  /\ \A r \in Request :
       /\ gateway_at[r] \in Ahead => ~gateway_charged[r] /\ ~gateway_executed[r] /\ ~gateway_recorded[r]
       /\ gateway_at[r] = "run" => gateway_executed[r] /\ ~gateway_recorded[r]
       /\ gateway_at[r] \in Behind => (gateway_executed[r] <=> gateway_recorded[r])
       /\ gateway_charged[r] => gateway_executed[r]
       /\ gateway_executed[r] /\ gateway_token[r] \in Metered => gateway_charged[r]
  /\ \A t \in Bearer : gateway_spent[t] + gateway_quota[t] = Quota

GatewayAnswered ==
  \A r \in Request :
    /\ gateway_at[r] \notin Behind => gateway_sent[r] = 0
    /\ gateway_at[r] \in Behind => /\ gateway_sent[r] = 0 => gateway_status[r] = Gateway!Panicked
                                   /\ gateway_sent[r] \in {0, gateway_status[r]} \/ gateway_status[r] = Gateway!Panicked

GatewayWriters ==
  /\ gateway_writer \in [Request -> Gateway!Writers \cup {None}] /\ gateway_pool \subseteq Gateway!Writers
  /\ Gateway!WriterAlone
  /\ \A r \in Request : gateway_at[r] = "closed" => gateway_writer[r] # None

GatewayInv == GatewayTyped /\ GatewayPaid /\ GatewayAnswered /\ GatewayWriters

(* nil is no writer.                                                         *)
LEMMA NilWritesNothing == None \notin Gateway!Writers
<1>1. Gateway!Cardinality(Request) = Cardinality(Request)
  BY DEF Gateway!Cardinality, Cardinality
<1>2. Cardinality(Request) \in Nat
  BY GatewayAssumption, FS_CardinalityType
<1> QED
  BY <1>1, <1>2, GatewayAssumption DEF Gateway!Writers

(* Nobody has arrived and nothing is pooled at first.                        *)
LEMMA GatewayInit == Gateway!Init => GatewayInv
BY NilWritesNothing, GatewayAssumption
   DEF Gateway!Init, GatewayInv, GatewayTyped, GatewayPaid, GatewayAnswered, GatewayWriters, Gateway!WriterAlone,
       Ahead, Behind

(* A request that is passed on or answered before it is charged.             *)
LEMMA GatewayForward ==
  ASSUME GatewayInv, NEW r \in Request, NEW from \in Ahead, NEW to \in Ahead, NEW code \in Int \ {0},
         Gateway!Pass(r, from, to) \/ Gateway!Answer(r, from, code),
         gateway_token' = gateway_token \/ (\E t \in Bearer : gateway_token' = [gateway_token EXCEPT ![r] = t]),
         gateway_valid' \subseteq Bearer,
         UNCHANGED <<gateway_writer, gateway_pool, gateway_quota, Gateway!ghosts>>
  PROVE  GatewayInv'
<1> USE DEF GatewayInv, Gateway!Pass, Gateway!Answer, Gateway!ghosts
<1>1. GatewayTyped'
  BY DEF GatewayTyped, Ahead, Behind
<1>2. GatewayPaid'
  BY DEF GatewayTyped, GatewayPaid, Ahead, Behind
<1>3. GatewayAnswered'
  BY DEF GatewayTyped, GatewayAnswered, Ahead, Behind
<1>4. GatewayWriters'
  BY DEF GatewayTyped, GatewayWriters, Gateway!WriterAlone, Ahead, Behind
<1> QED
  BY <1>1, <1>2, <1>3, <1>4

(* Every step of a request keeps it.                                         *)
LEMMA GatewayNext == GatewayInv /\ [Gateway!Next]_gateway_vars => GatewayInv'
<1> SUFFICES ASSUME GatewayInv, [Gateway!Next]_gateway_vars PROVE GatewayInv'
  OBVIOUS
<1> USE DEF GatewayInv
<1>1. ASSUME NEW r \in Request,
             \/ Gateway!Cors(r) \/ Gateway!Plain(r) \/ Gateway!Route(r) \/ Gateway!Address(r) \/ Gateway!TokenAuth(r)
             \/ Gateway!LimitRate(r) \/ Gateway!Bind(r) \/ Gateway!AdminAuth(r) \/ Gateway!Global(r)
             \/ Gateway!TestTool(r) \/ Gateway!QueryTokenPublic(r)
      PROVE  GatewayInv'
  <2>1. gateway_valid' = gateway_valid /\ gateway_valid \subseteq Bearer
    BY <1>1 DEF GatewayTyped, Gateway!Cors, Gateway!Plain, Gateway!Route, Gateway!Address, Gateway!TokenAuth, Gateway!LimitRate,
       Gateway!Bind, Gateway!AdminAuth, Gateway!Global, Gateway!TestTool, Gateway!QueryTokenPublic, Gateway!context
  <2>2. UNCHANGED <<gateway_writer, gateway_pool, gateway_quota, Gateway!ghosts>>
    BY <1>1 DEF Gateway!Cors, Gateway!Plain, Gateway!Route, Gateway!Address, Gateway!TokenAuth, Gateway!LimitRate,
       Gateway!Bind, Gateway!AdminAuth, Gateway!Global, Gateway!TestTool, Gateway!QueryTokenPublic, Gateway!context
  <2>3. gateway_token' = gateway_token \/ \E t \in Bearer : gateway_token' = [gateway_token EXCEPT ![r] = t]
    BY <1>1, <2>1 DEF Gateway!Cors, Gateway!Plain, Gateway!Route, Gateway!Address, Gateway!TokenAuth, Gateway!LimitRate,
       Gateway!Bind, Gateway!AdminAuth, Gateway!Global, Gateway!TestTool, Gateway!QueryTokenPublic, Gateway!context
  <2>4. \E from \in Ahead, to \in Ahead, code \in Int \ {0} : Gateway!Pass(r, from, to) \/ Gateway!Answer(r, from, code)
    BY <1>1 DEF Ahead, Gateway!Cors, Gateway!Plain, Gateway!Route, Gateway!Address, Gateway!TokenAuth, Gateway!LimitRate,
       Gateway!Bind, Gateway!AdminAuth, Gateway!Global, Gateway!TestTool, Gateway!QueryTokenPublic
  <2> HIDE DEF GatewayInv
  <2> QED
    BY <2>1, <2>2, <2>3, <2>4, GatewayForward
<1>2. ASSUME NEW r \in Request, Gateway!Operate(r) PROVE GatewayInv'
  <2>1. gateway_valid' \subseteq Bearer
    BY <1>2 DEF GatewayTyped, Gateway!Operate, Gateway!CreateToken, Gateway!DeleteToken, Gateway!GetQuota, Gateway!Health,
       Gateway!Report
  <2>2. UNCHANGED <<gateway_token, gateway_writer, gateway_pool, gateway_quota, Gateway!ghosts>>
    BY <1>2 DEF Gateway!Operate
  <2>3. \E code \in Int \ {0} : Gateway!Answer(r, "operate", code)
    <3>2. CASE \E t \in Bearer : Gateway!CreateToken(r, t) \/ Gateway!DeleteToken(r, t) \/ Gateway!GetQuota(r, t)
      BY <3>2 DEF Gateway!CreateToken, Gateway!DeleteToken, Gateway!GetQuota
    <3>3. CASE Gateway!Health(r)
      BY <3>3 DEF Gateway!Health
    <3>4. CASE Gateway!Report(r)
      BY <3>4 DEF Gateway!Report
    <3> QED
      BY <1>2, <3>2, <3>3, <3>4 DEF Gateway!Operate
  <2>4. "operate" \in Ahead
    BY DEF Ahead
  <2> HIDE DEF GatewayInv
  <2> QED
    BY <2>1, <2>2, <2>3, <2>4, GatewayForward
<1>3. ASSUME NEW r \in Request, Gateway!Accept(r) PROVE GatewayInv'
  <2> USE <1>3 DEF Gateway!Accept, Gateway!Pass, Gateway!context, Ahead, Behind
  <2>1. GatewayTyped'
    BY DEF GatewayTyped
  <2>2. GatewayPaid'
    BY DEF GatewayTyped, GatewayPaid
  <2>3. GatewayAnswered'
    BY DEF GatewayTyped, GatewayAnswered
  <2>4. GatewayWriters'
    BY DEF GatewayTyped, GatewayWriters, Gateway!WriterAlone
  <2> QED
    BY <2>1, <2>2, <2>3, <2>4
<1>4. ASSUME NEW r \in Request, Gateway!Gzip(r) PROVE GatewayInv'
  <2> USE <1>4 DEF Gateway!Gzip, Gateway!Pass, Gateway!ghosts, Ahead, Behind
  <2>1. GatewayTyped'
    BY DEF GatewayTyped
  <2>2. GatewayPaid'
    BY DEF GatewayTyped, GatewayPaid
  <2>3. GatewayAnswered'
    BY DEF GatewayTyped, GatewayAnswered
  <2>4. GatewayWriters'
    BY NilWritesNothing DEF GatewayTyped, GatewayWriters, Gateway!WriterAlone
  <2> QED
    BY <2>1, <2>2, <2>3, <2>4
<1>5. ASSUME NEW r \in Request, Gateway!Charge(r) PROVE GatewayInv'
  <2> USE <1>5, GatewayAssumption DEF Gateway!Charge, Gateway!Pass, Gateway!Answer, Gateway!ghosts, Gateway!context, Ahead, Behind
  <2>1. GatewayTyped'
    <3>1. gateway_charged' \in [Request -> BOOLEAN] /\ gateway_executed' \in [Request -> BOOLEAN]
      BY DEF GatewayTyped
    <3>2. gateway_quota' \in [Bearer -> Int] /\ gateway_spent' \in [Bearer -> Int]
      BY DEF GatewayTyped
    <3>3. gateway_at' \in [Request -> Ahead \cup Behind \cup {"run"}]
      BY DEF GatewayTyped
    <3>4. gateway_status' \in [Request -> Int] /\ gateway_sent' \in [Request -> Int]
      BY DEF GatewayTyped
    <3> QED
      BY <3>1, <3>2, <3>3, <3>4 DEF GatewayTyped
  <2>2. GatewayPaid'
    BY DEF GatewayTyped, GatewayPaid
  <2>3. GatewayAnswered'
    BY DEF GatewayTyped, GatewayAnswered
  <2>4. GatewayWriters'
    BY DEF GatewayTyped, GatewayWriters, Gateway!WriterAlone
  <2> QED
    BY <2>1, <2>2, <2>3, <2>4
<1>6. ASSUME NEW r \in Request, Gateway!Return(r) \/ Gateway!Panic(r) PROVE GatewayInv'
  <2> USE <1>6 DEF Gateway!Return, Gateway!RecordStats, Gateway!Panic, Gateway!Answer, Gateway!ghosts, Gateway!context, Ahead, Behind
  <2>1. GatewayTyped'
    <3>1. gateway_recorded' \in [Request -> BOOLEAN]
      <4>1. gateway_recorded' = gateway_recorded \/ gateway_recorded' = [gateway_recorded EXCEPT ![r] = TRUE]
        OBVIOUS
      <4>2. gateway_recorded \in [Request -> BOOLEAN]
        BY DEF GatewayTyped
      <4>3. CASE gateway_recorded' = gateway_recorded
        BY <4>2, <4>3
      <4>4. CASE gateway_recorded' = [gateway_recorded EXCEPT ![r] = TRUE]
        BY <4>2, <4>4
      <4> QED
        BY <4>1, <4>3, <4>4
    <3>2. gateway_at' \in [Request -> Ahead \cup Behind \cup {"run"}]
      BY DEF GatewayTyped
    <3>3. gateway_status' \in [Request -> Int] /\ gateway_sent' \in [Request -> Int]
      BY DEF GatewayTyped, Gateway!Panicked
    <3> QED
      BY <3>1, <3>2, <3>3 DEF GatewayTyped
  <2>2. GatewayPaid'
    BY DEF GatewayTyped, GatewayPaid
  <2>3. GatewayAnswered'
    BY DEF GatewayTyped, GatewayAnswered
  <2>4. GatewayWriters'
    BY DEF GatewayTyped, GatewayWriters, Gateway!WriterAlone
  <2> QED
    BY <2>1, <2>2, <2>3, <2>4
<1>7. ASSUME NEW r \in Request, Gateway!CloseWriter(r) \/ Gateway!Put(r) \/ Gateway!Recovery(r) PROVE GatewayInv'
  <2> USE <1>7 DEF Gateway!CloseWriter, Gateway!Put, Gateway!Recovery, Gateway!First, Gateway!ghosts, Gateway!context, Ahead, Behind
  <2>1. GatewayTyped'
    BY DEF GatewayTyped
  <2>2. GatewayPaid'
    BY DEF GatewayTyped, GatewayPaid
  <2>3. GatewayAnswered'
    BY DEF GatewayTyped, GatewayAnswered
  <2>4. GatewayWriters'
    BY NilWritesNothing DEF GatewayTyped, GatewayWriters, Gateway!WriterAlone
  <2> QED
    BY <2>1, <2>2, <2>3, <2>4
<1>8. ASSUME NEW r \in Request, Gateway!Again(r) PROVE GatewayInv'
  <2> USE <1>8 DEF Gateway!Again, Ahead, Behind
  <2>1. GatewayTyped'
    BY DEF GatewayTyped
  <2>2. GatewayPaid'
    BY DEF GatewayTyped, GatewayPaid
  <2>3. GatewayAnswered'
    BY DEF GatewayTyped, GatewayAnswered
  <2>4. GatewayWriters'
    BY DEF GatewayTyped, GatewayWriters, Gateway!WriterAlone
  <2> QED
    BY <2>1, <2>2, <2>3, <2>4
<1>9. CASE UNCHANGED gateway_vars
  BY <1>9 DEF gateway_vars, GatewayTyped, GatewayPaid, GatewayAnswered, GatewayWriters, Gateway!WriterAlone
<1> HIDE DEF GatewayInv
<1> QED
  BY <1>1, <1>2, <1>3, <1>4, <1>5, <1>6, <1>7, <1>8, <1>9 DEF Gateway!Next

(* The property of the gateway, from its invariant.                          *)
LEMMA GatewaySafe == GatewayInv => GatewayHolds
BY DEF GatewayInv, GatewayTyped, GatewayPaid, GatewayAnswered, GatewayWriters, GatewayHolds, Gateway!GatewayHolds,
   Gateway!ChargedMeansExecuted, Gateway!SuccessIsServed, Gateway!WriterAlone, Ahead, Behind

-----------------------------------------------------------------------------
(***************************************************************************)
(* PageSession. Time stands still while a request is under way, so that a  *)
(* counter outlives the requests it has counted; those and the sessions    *)
(* that were stored are together at most what it has counted.              *)
(***************************************************************************)

Counting(c) == {r \in Request : page_at[r] \in {"expire", "store"} /\ page_who[r] = c}

PageTyped ==
  /\ page_clock \in 0 .. PageTime
  /\ page_rate \in [Caller -> [count : Nat, until : Nat] \cup {None}]
  /\ page_at \in [Request -> {"away", "expire", "store", "renew"}]
  /\ page_who \in [Request -> Caller \cup {None}]
  /\ page_held \in [Request -> Nat \cup {None}]
  /\ page_madeInWindow \in [Caller -> Nat]

PageSessions ==
  /\ page_session \in Seq([client : Caller, until : Int])
  /\ page_created \in Seq([time : Int, lastUsed : Int])
  /\ Len(page_session) = Len(page_created)
  /\ \A s \in 1 .. Len(page_session) : page_session[s].until = page_created[s].lastUsed + SessionTTL
  /\ \A r \in Request :
       page_at[r] = "renew" => /\ page_held[r] \in 1 .. Len(page_session)
                               /\ page_clock < page_session[page_held[r]].until
                               /\ page_clock - page_created[page_held[r]].time <= CookieAge
  /\ page_accepted # None => page_accepted.age <= CookieAge /\ page_accepted.idle < SessionTTL

PageCounted ==
  /\ \A r \in Request : page_at[r] \in {"expire", "store"} => page_who[r] \in Caller /\ Page!Live(page_rate[page_who[r]])
  /\ \A c \in Caller :
       Page!Live(page_rate[c]) => LET n == page_madeInWindow[c] + Cardinality(Counting(c))
                                  IN n <= MaxPerWindow /\ n <= page_rate[c].count

PageInv == PageTyped /\ PageSessions /\ PageCounted

(* No page was asked for at first.                                           *)
LEMMA PageInit == Page!Init => PageInv
<1> SUFFICES ASSUME Page!Init PROVE PageInv
  OBVIOUS
<1> USE PageAssumption DEF Page!Init
<1>1. PageTyped
  BY DEF PageTyped
<1>2. PageSessions
  BY DEF PageSessions
<1>3. PageCounted
  BY DEF PageCounted, Page!Live
<1> QED
  BY <1>1, <1>2, <1>3 DEF PageInv

(* Requests that are counted are finitely many.                              *)
LEMMA CountingFinite ==
  ASSUME NEW c
  PROVE  IsFiniteSet(Counting(c)) /\ Cardinality(Counting(c)) \in Nat
<1>1. Counting(c) \in SUBSET Request
  BY DEF Counting
<1> QED
  BY <1>1, PageAssumption, FS_Subset, FS_CardinalityType

(* The lesser of two numbers.                                                *)
LEMMA PageLesser ==
  ASSUME NEW a \in Int, NEW b \in Int
  PROVE  Page!Min({a, b}) = IF a <= b THEN a ELSE b
BY DEF Page!Min

(* A page that is asked for.                                                 *)
LEMMA CountPageKeeps ==
  ASSUME PageInv, NEW r \in Request, NEW c \in Caller, Page!CountPage(r, c)
  PROVE  PageInv'
<1> DEFINE fresh == ~Page!Live(page_rate[c])
           count == IF fresh THEN 1 ELSE Page!Min({page_rate[c].count, MaxPerWindow}) + 1
           until == IF fresh THEN Page!Never ELSE page_rate[c].until
<1>1. /\ page_at[r] = "away"
      /\ page_rate' = [page_rate EXCEPT ![c] = [count |-> count, until |-> until]]
      /\ page_madeInWindow' = IF fresh THEN [page_madeInWindow EXCEPT ![c] = 0] ELSE page_madeInWindow
      /\ IF count > MaxPerWindow THEN Page!Return(r)
         ELSE /\ Page!Goto(r, IF count = 1 THEN "expire" ELSE "store")
              /\ page_who' = [page_who EXCEPT ![r] = c] /\ page_held' = page_held
      /\ UNCHANGED <<page_clock, page_session, page_created, page_accepted>>
  BY DEF Page!CountPage, PageInv, PageTyped
<1>2. fresh \/ (page_rate[c] \in [count : Nat, until : Nat] /\ page_clock < page_rate[c].until)
  BY DEF PageInv, PageTyped, Page!Live
<1>3. count \in Nat /\ until \in Nat /\ page_clock < until
  BY <1>2, PageLesser, PageAssumption DEF PageInv, PageTyped, Page!Never
<1>4. ~fresh => count <= page_rate[c].count + 1 /\ count <= MaxPerWindow + 1
                /\ (count = MaxPerWindow + 1 \/ count = page_rate[c].count + 1)
  BY <1>2, PageLesser, PageAssumption
<1> HIDE DEF fresh, count, until
<1> USE <1>1, <1>3 DEF Page!Goto, Page!Return
<1>5. PageTyped'
  BY DEF PageInv, PageTyped
<1>6. PageSessions'
  BY DEF PageInv, PageTyped, PageSessions
<1>7. page_at'[r] \in {"expire", "store"} => count <= MaxPerWindow
  BY PageAssumption DEF PageInv, PageTyped
<1>8. ASSUME NEW x \in Request, page_at'[x] \in {"expire", "store"}
      PROVE  page_who'[x] \in Caller /\ Page!Live(page_rate[page_who[x]])'
  <2>1. \A d \in Caller : d # c => page_rate'[d] = page_rate[d]
    BY DEF PageInv, PageTyped
  <2>2. page_rate'[c] = [count |-> count, until |-> until]
    BY DEF PageInv, PageTyped
  <2>3. Page!Live(page_rate[c])'
    BY <2>2, PageAssumption DEF Page!Live
  <2>4. x # r => page_at[x] \in {"expire", "store"} /\ page_who'[x] = page_who[x]
    BY <1>8 DEF PageInv, PageTyped
  <2>5. x = r => page_who'[x] = c
    BY <1>8 DEF PageInv, PageTyped
  <2> QED
    BY <2>1, <2>3, <2>4, <2>5 DEF PageInv, PageCounted, Page!Live
<1>9. ASSUME NEW d \in Caller, d # c, Page!Live(page_rate[d])'
      PROVE  LET n == page_madeInWindow'[d] + Cardinality(Counting(d)')
             IN n <= MaxPerWindow /\ n <= page_rate'[d].count
  <2>1. page_rate'[d] = page_rate[d] /\ page_madeInWindow'[d] = page_madeInWindow[d]
    BY <1>9 DEF PageInv, PageTyped
  <2>2. Counting(d)' = Counting(d)
    BY <1>9 DEF Counting, PageInv, PageTyped
  <2> QED
    BY <1>9, <2>1, <2>2 DEF PageInv, PageCounted, Page!Live
<1>10. LET n == page_madeInWindow'[c] + Cardinality(Counting(c)')
       IN n <= MaxPerWindow /\ n <= page_rate'[c].count
  <2>1. page_rate'[c].count = count
    BY DEF PageInv, PageTyped
  <2>2. Counting(c)' = IF page_at'[r] = "away" THEN Counting(c) ELSE Counting(c) \cup {r}
    BY DEF Counting, PageInv, PageTyped
  <2>3. r \notin Counting(c)
    BY DEF Counting
  <2>4. Cardinality(Counting(c)') = IF page_at'[r] = "away" THEN Cardinality(Counting(c)) ELSE Cardinality(Counting(c)) + 1
    BY <2>2, <2>3, CountingFinite, FS_AddElement
  <2>5. page_at'[r] = "away" <=> count > MaxPerWindow
    BY DEF PageInv, PageTyped
  <2>6. CASE fresh
    <3>1. Counting(c) = {}
      BY <2>6 DEF fresh, Counting, PageInv, PageCounted
    <3>2. page_madeInWindow'[c] = 0 /\ count = 1
      BY <2>6 DEF count, PageInv, PageTyped
    <3>3. Cardinality(Counting(c)) = 0
      BY <3>1, FS_EmptySet
    <3> QED
      BY <2>1, <2>4, <2>5, <3>2, <3>3, PageAssumption
  <2>7. CASE ~fresh
    <3>1. page_madeInWindow'[c] = page_madeInWindow[c] /\ page_madeInWindow[c] \in Nat /\ page_rate[c].count \in Nat
      BY <2>7, <1>2 DEF PageInv, PageTyped
    <3>2. /\ page_madeInWindow[c] + Cardinality(Counting(c)) <= MaxPerWindow
          /\ page_madeInWindow[c] + Cardinality(Counting(c)) <= page_rate[c].count
      BY <2>7 DEF fresh, PageInv, PageCounted
    <3>3. Cardinality(Counting(c)) \in Nat
      BY CountingFinite
    <3> QED
      BY <1>4, <2>1, <2>4, <2>5, <2>7, <3>1, <3>2, <3>3, PageAssumption
  <2> QED
    BY <2>6, <2>7
<1>11. PageCounted'
  <2>1. ASSUME NEW d \in Caller, Page!Live(page_rate[d])'
        PROVE  LET n == page_madeInWindow'[d] + Cardinality(Counting(d)')
               IN n <= MaxPerWindow /\ n <= page_rate'[d].count
    BY <2>1, <1>9, <1>10
  <2> QED
    BY <1>8, <2>1 DEF PageCounted
<1> QED
  BY <1>5, <1>6, <1>11 DEF PageInv

(* The expiry of a counter, which may fail to be set.                        *)
LEMMA PageExpireKeeps ==
  ASSUME PageInv, NEW r \in Request, Page!Expire(r)
  PROVE  PageInv'
<1>1. /\ page_at[r] = "expire" /\ page_at' = [page_at EXCEPT ![r] = "store"]
      /\ UNCHANGED <<page_clock, page_session, page_who, page_held, page_created, page_madeInWindow, page_accepted>>
      /\ page_rate' \in {page_rate, [page_rate EXCEPT ![page_who[r]].until = page_clock + PageTTL]}
  BY DEF Page!Expire, Page!Goto
<1>2. PICK c \in Caller : c = page_who[r] /\ Page!Live(page_rate[c]) /\ page_rate[c] \in [count : Nat, until : Nat]
  BY <1>1 DEF PageInv, PageTyped, PageCounted, Page!Live
<1>3. /\ page_rate' \in [Caller -> [count : Nat, until : Nat] \cup {None}]
      /\ \A d \in Caller : /\ Page!Live(page_rate[d]) <=> Page!Live(page_rate[d])'
                           /\ Page!Live(page_rate[d]) => page_rate'[d].count = page_rate[d].count
  <2>1. CASE page_rate' = page_rate
    BY <1>1, <2>1 DEF PageInv, PageTyped, Page!Live
  <2>2. CASE page_rate' = [page_rate EXCEPT ![c].until = page_clock + PageTTL]
    <3>1. page_clock + PageTTL \in Nat /\ page_clock < page_clock + PageTTL
      BY PageAssumption DEF PageInv, PageTyped
    <3>2. \A d \in Caller : d # c => page_rate'[d] = page_rate[d]
      BY <2>2 DEF PageInv, PageTyped
    <3>3. page_rate'[c] = [count |-> page_rate[c].count, until |-> page_clock + PageTTL]
      BY <1>2, <2>2 DEF PageInv, PageTyped
    <3>4. page_rate' \in [Caller -> [count : Nat, until : Nat] \cup {None}]
      BY <1>2, <2>2, <3>1, <3>2, <3>3 DEF PageInv, PageTyped
    <3>5. Page!Live(page_rate[c])'
      BY <1>1, <1>2, <3>1, <3>3, PageAssumption DEF Page!Live
    <3>6. \A d \in Caller : d # c => (Page!Live(page_rate[d]) <=> Page!Live(page_rate[d])')
      BY <1>1, <3>2 DEF Page!Live
    <3>7. page_rate'[c].count = page_rate[c].count
      BY <3>3
    <3> QED
      BY <1>2, <3>2, <3>4, <3>5, <3>6, <3>7
  <2> QED
    BY <1>1, <1>2, <2>1, <2>2
<1>4. PageTyped'
  BY <1>1, <1>3 DEF PageInv, PageTyped
<1>5. PageSessions'
  BY <1>1 DEF PageInv, PageTyped, PageSessions
<1>6. \A d \in Caller : Counting(d)' = Counting(d)
  BY <1>1 DEF Counting, PageInv, PageTyped
<1>7. \A x \in Request : page_at'[x] \in {"expire", "store"} => page_at[x] \in {"expire", "store"}
  BY <1>1 DEF PageInv, PageTyped
<1>8. PageCounted'
  <2>1. ASSUME NEW x \in Request, page_at'[x] \in {"expire", "store"}
        PROVE  page_who'[x] \in Caller /\ Page!Live(page_rate[page_who[x]])'
    BY <1>1, <1>3, <1>7, <2>1 DEF PageInv, PageCounted
  <2>2. ASSUME NEW d \in Caller, Page!Live(page_rate[d])'
        PROVE  LET n == page_madeInWindow'[d] + Cardinality(Counting(d)')
               IN n <= MaxPerWindow /\ n <= page_rate'[d].count
    BY <1>1, <1>3, <1>6, <2>2 DEF PageInv, PageCounted
  <2> QED
    BY <2>1, <2>2 DEF PageCounted
<1> QED
  BY <1>4, <1>5, <1>8 DEF PageInv

(* Sessions that are numbered as before, and those that are added.           *)
LEMMA PageStoreKeeps ==
  ASSUME PageInv, NEW r \in Request, Page!StoreSession(r)
  PROVE  PageInv'
<1> DEFINE c == page_who[r]
           s == [client |-> c, until |-> page_clock + SessionTTL]
           k == [time |-> page_clock, lastUsed |-> page_clock]
<1>1. /\ page_at[r] = "store" /\ page_at' = [page_at EXCEPT ![r] = "away"]
      /\ page_who' = [page_who EXCEPT ![r] = None] /\ page_held' = [page_held EXCEPT ![r] = None]
      /\ UNCHANGED <<page_clock, page_rate, page_accepted>>
  BY DEF Page!StoreSession, Page!Return, Page!Goto
<1>2. \/ /\ page_session' = Append(page_session, s) /\ page_created' = Append(page_created, k)
         /\ page_madeInWindow' = [page_madeInWindow EXCEPT ![c] = @ + 1]
      \/ UNCHANGED <<page_session, page_created, page_madeInWindow>>
  BY DEF Page!StoreSession
<1>3. c \in Caller
  BY <1>1 DEF PageInv, PageCounted
<1>4. s \in [client : Caller, until : Int] /\ k \in [time : Int, lastUsed : Int] /\ s.until = k.lastUsed + SessionTTL
  BY <1>3, PageAssumption DEF PageInv, PageTyped
<1> HIDE DEF c, s, k
<1>5. PageTyped'
  BY <1>1, <1>2, <1>3 DEF PageInv, PageTyped
<1>6. PageSessions'
  <2>1. CASE UNCHANGED <<page_session, page_created, page_madeInWindow>>
    BY <1>1, <2>1 DEF PageInv, PageTyped, PageSessions
  <2>2. CASE page_session' = Append(page_session, s) /\ page_created' = Append(page_created, k)
    <3>1. /\ page_session \in Seq([client : Caller, until : Int]) /\ page_created \in Seq([time : Int, lastUsed : Int])
          /\ Len(page_session) = Len(page_created) /\ Len(page_session) \in Nat
      BY LenProperties DEF PageInv, PageSessions
    <3>2. /\ page_session' \in Seq([client : Caller, until : Int]) /\ Len(page_session') = Len(page_session) + 1
          /\ \A i \in 1 .. Len(page_session) : page_session'[i] = page_session[i]
          /\ page_session'[Len(page_session) + 1] = s
      BY <1>4, <2>2, <3>1, AppendProperties
    <3>3. /\ page_created' \in Seq([time : Int, lastUsed : Int]) /\ Len(page_created') = Len(page_created) + 1
          /\ \A i \in 1 .. Len(page_created) : page_created'[i] = page_created[i]
          /\ page_created'[Len(page_created) + 1] = k
      BY <1>4, <2>2, <3>1, AppendProperties
    <3>4. \A i \in 1 .. Len(page_session') : page_session'[i].until = page_created'[i].lastUsed + SessionTTL
      <4>1. ASSUME NEW i \in 1 .. Len(page_session') PROVE i \in 1 .. Len(page_session) \/ i = Len(page_session) + 1
        BY <3>1, <3>2
      <4>2. \A i \in 1 .. Len(page_session) : page_session'[i].until = page_created'[i].lastUsed + SessionTTL
        BY <3>1, <3>2, <3>3 DEF PageInv, PageSessions
      <4>3. page_session'[Len(page_session) + 1].until = page_created'[Len(page_session) + 1].lastUsed + SessionTTL
        BY <1>4, <3>1, <3>2, <3>3
      <4> QED
        BY <4>1, <4>2, <4>3
    <3>5. \A x \in Request : page_at'[x] = "renew" => /\ page_at[x] = "renew" /\ page_held'[x] = page_held[x]
      BY <1>1 DEF PageInv, PageTyped
    <3>6. ASSUME NEW x \in Request, page_at'[x] = "renew"
          PROVE  /\ page_held'[x] \in 1 .. Len(page_session')
                 /\ page_clock' < page_session'[page_held'[x]].until
                 /\ page_clock' - page_created'[page_held'[x]].time <= CookieAge
      <4>1. PICK i \in 1 .. Len(page_session) : i = page_held[x] /\ i = page_held'[x]
        BY <3>5, <3>6 DEF PageInv, PageSessions
      <4>2. page_clock < page_session[i].until /\ page_clock - page_created[i].time <= CookieAge
        BY <3>5, <3>6, <4>1 DEF PageInv, PageSessions
      <4>3. page_session'[i] = page_session[i] /\ page_created'[i] = page_created[i] /\ i \in 1 .. Len(page_session')
        BY <3>1, <3>2, <3>3
      <4> QED
        BY <1>1, <4>1, <4>2, <4>3
    <3> QED
      BY <1>1, <3>1, <3>2, <3>3, <3>4, <3>6 DEF PageInv, PageSessions
  <2> QED
    BY <1>2, <2>1, <2>2
<1>7. PageCounted'
  <2>1. ASSUME NEW x \in Request, page_at'[x] \in {"expire", "store"}
        PROVE  page_who'[x] \in Caller /\ Page!Live(page_rate[page_who[x]])'
    BY <1>1, <2>1 DEF PageInv, PageTyped, PageCounted, Page!Live
  <2>2. ASSUME NEW d \in Caller, Page!Live(page_rate[d])'
        PROVE  LET n == page_madeInWindow'[d] + Cardinality(Counting(d)')
               IN n <= MaxPerWindow /\ n <= page_rate'[d].count
    <3>1. Page!Live(page_rate[d]) /\ page_rate[d].count \in Nat
      BY <1>1, <2>2 DEF PageInv, PageTyped, Page!Live
    <3>2. /\ page_madeInWindow[d] + Cardinality(Counting(d)) <= MaxPerWindow
          /\ page_madeInWindow[d] + Cardinality(Counting(d)) <= page_rate[d].count
      BY <3>1 DEF PageInv, PageCounted
    <3>3. Counting(d)' = Counting(d) \ {r}
      BY <1>1 DEF Counting, PageInv, PageTyped
    <3>4. Cardinality(Counting(d)') = IF d = c THEN Cardinality(Counting(d)) - 1 ELSE Cardinality(Counting(d))
      <4>1. r \in Counting(d) <=> d = c
        BY <1>1 DEF Counting, c
      <4> QED
        BY <3>3, <4>1, CountingFinite, FS_RemoveElement
    <3>5. page_madeInWindow'[d] <= IF d = c THEN page_madeInWindow[d] + 1 ELSE page_madeInWindow[d]
      BY <1>2, <1>3 DEF PageInv, PageTyped
    <3>6. page_madeInWindow[d] \in Nat /\ page_madeInWindow'[d] \in Nat
      BY <1>5 DEF PageInv, PageTyped
    <3>7. Cardinality(Counting(d)) \in Nat
      BY CountingFinite
    <3> QED
      BY <1>1, <3>1, <3>2, <3>4, <3>5, <3>6, <3>7, PageAssumption
  <2> QED
    BY <2>1, <2>2 DEF PageCounted
<1> QED
  BY <1>5, <1>6, <1>7 DEF PageInv

(* A session that is looked at and renewed.                                  *)
LEMMA PageValidateKeeps ==
  ASSUME PageInv, NEW r \in Request, NEW c \in Caller, NEW s \in 1 .. Len(page_session), Page!Validate(r, c, s)
  PROVE  PageInv'
<1>1. /\ page_at[r] = "away" /\ page_clock - page_created[s].time <= CookieAge /\ page_clock < page_session[s].until
      /\ page_held' = [page_held EXCEPT ![r] = s] /\ page_at' = [page_at EXCEPT ![r] = "renew"]
      /\ UNCHANGED <<page_clock, page_rate, page_session, page_who, page_created, page_madeInWindow, page_accepted>>
  BY DEF Page!Validate, Page!CookieFresh, Page!Live, Page!Goto
<1>2. s \in Nat
  BY LenProperties DEF PageInv, PageSessions
<1>3. PageTyped'
  BY <1>1, <1>2 DEF PageInv, PageTyped
<1>4. PageSessions'
  BY <1>1 DEF PageInv, PageTyped, PageSessions
<1>5. \A d \in Caller : Counting(d)' = Counting(d)
  BY <1>1 DEF Counting, PageInv, PageTyped
<1>6. PageCounted'
  BY <1>1, <1>5 DEF PageInv, PageTyped, PageCounted, Page!Live
<1> QED
  BY <1>3, <1>4, <1>6 DEF PageInv

(* Renewing stores the session for longer.                                   *)
LEMMA PageRenewKeeps ==
  ASSUME PageInv, NEW r \in Request, Page!Renew(r)
  PROVE  PageInv'
<1> DEFINE s == page_held[r]
<1>1. /\ page_at[r] = "renew" /\ page_at' = [page_at EXCEPT ![r] = "away"]
      /\ page_who' = [page_who EXCEPT ![r] = None] /\ page_held' = [page_held EXCEPT ![r] = None]
      /\ \/ /\ page_session' = [page_session EXCEPT ![s].until = page_clock + SessionTTL]
            /\ page_created' = [page_created EXCEPT ![s].lastUsed = page_clock]
         \/ UNCHANGED <<page_session, page_created>>
      /\ page_accepted' = [session |-> s, age |-> page_clock - page_created[s].time,
                           idle |-> page_clock - page_created[s].lastUsed]
      /\ UNCHANGED <<page_clock, page_rate, page_madeInWindow>>
  BY DEF Page!Renew, Page!Return, Page!Goto
<1>2. /\ s \in 1 .. Len(page_session) /\ page_clock < page_session[s].until
      /\ page_clock - page_created[s].time <= CookieAge
  BY <1>1 DEF PageInv, PageSessions
<1>3. /\ page_session \in Seq([client : Caller, until : Int]) /\ page_created \in Seq([time : Int, lastUsed : Int])
      /\ Len(page_session) = Len(page_created) /\ Len(page_session) \in Nat
  BY LenProperties DEF PageInv, PageSessions
<1>4. /\ page_session[s] \in [client : Caller, until : Int] /\ page_created[s] \in [time : Int, lastUsed : Int]
      /\ page_session[s].until = page_created[s].lastUsed + SessionTTL
  BY <1>2, <1>3, ElementOfSeq DEF PageInv, PageSessions
<1> HIDE DEF s
<1>5. page_accepted'.age <= CookieAge /\ page_accepted'.idle < SessionTTL
  BY <1>1, <1>2, <1>4, PageAssumption DEF PageInv, PageTyped
<1>6. /\ page_session' \in Seq([client : Caller, until : Int]) /\ page_created' \in Seq([time : Int, lastUsed : Int])
      /\ Len(page_session') = Len(page_session) /\ Len(page_created') = Len(page_created)
      /\ \A i \in 1 .. Len(page_session) :
           /\ page_session'[i].until = page_created'[i].lastUsed + SessionTTL
           /\ page_created'[i].time = page_created[i].time
           /\ page_clock < page_session[i].until => page_clock < page_session'[i].until
  <2>1. CASE UNCHANGED <<page_session, page_created>>
    BY <1>3, <2>1 DEF PageInv, PageSessions
  <2>2. CASE /\ page_session' = [page_session EXCEPT ![s].until = page_clock + SessionTTL]
             /\ page_created' = [page_created EXCEPT ![s].lastUsed = page_clock]
    <3> DEFINE a == [client |-> page_session[s].client, until |-> page_clock + SessionTTL]
               b == [time |-> page_created[s].time, lastUsed |-> page_clock]
    <3>1. page_session' = [page_session EXCEPT ![s] = a] /\ page_created' = [page_created EXCEPT ![s] = b]
      <4>1. page_session[s] = [client |-> page_session[s].client, until |-> page_session[s].until]
        BY <1>4
      <4>2. page_created[s] = [time |-> page_created[s].time, lastUsed |-> page_created[s].lastUsed]
        BY <1>4
      <4>3. [page_session[s] EXCEPT !.until = page_clock + SessionTTL] = a
        BY <1>4
      <4>4. [page_created[s] EXCEPT !.lastUsed = page_clock] = b
        BY <1>4
      <4> QED
        BY <2>2, <4>3, <4>4
    <3>2. a \in [client : Caller, until : Int] /\ b \in [time : Int, lastUsed : Int]
      BY <1>4, PageAssumption DEF PageInv, PageTyped
    <3>3. /\ page_session' \in Seq([client : Caller, until : Int]) /\ Len(page_session') = Len(page_session)
          /\ \A i \in 1 .. Len(page_session) : page_session'[i] = IF i = s THEN a ELSE page_session[i]
      BY <1>2, <1>3, <3>1, <3>2, ExceptSeq
    <3>4. /\ page_created' \in Seq([time : Int, lastUsed : Int]) /\ Len(page_created') = Len(page_created)
          /\ \A i \in 1 .. Len(page_created) : page_created'[i] = IF i = s THEN b ELSE page_created[i]
      BY <1>2, <1>3, <3>1, <3>2, ExceptSeq, SMTT(20)
    <3>5. page_clock \in Int /\ page_clock < page_clock + SessionTTL
      BY PageAssumption DEF PageInv, PageTyped
    <3> HIDE DEF a, b
    <3>6. a.until = b.lastUsed + SessionTTL /\ b.time = page_created[s].time /\ page_clock < a.until
      BY <3>5 DEF a, b
    <3>7. ASSUME NEW i \in 1 .. Len(page_session)
          PROVE  /\ page_session'[i].until = page_created'[i].lastUsed + SessionTTL
                 /\ page_created'[i].time = page_created[i].time
                 /\ page_clock < page_session[i].until => page_clock < page_session'[i].until
      <4>1. CASE i = s
        BY <1>3, <3>3, <3>4, <3>6, <4>1
      <4>2. CASE i # s
        BY <1>3, <3>3, <3>4, <4>2 DEF PageInv, PageSessions
      <4> QED
        BY <4>1, <4>2
    <3> QED
      BY <3>3, <3>4, <3>7
  <2> QED
    BY <1>1, <2>1, <2>2
<1>7. PageTyped'
  BY <1>1 DEF PageInv, PageTyped
<1>8. \A x \in Request : page_at'[x] # "away" => page_at'[x] = page_at[x] /\ page_held'[x] = page_held[x] /\ page_who'[x] = page_who[x]
  BY <1>1 DEF PageInv, PageTyped
<1>9. PageSessions'
  <2>1. ASSUME NEW x \in Request, page_at'[x] = "renew"
        PROVE  /\ page_held'[x] \in 1 .. Len(page_session')
               /\ page_clock' < page_session'[page_held'[x]].until
               /\ page_clock' - page_created'[page_held'[x]].time <= CookieAge
    <3>1. PICK i \in 1 .. Len(page_session) : i = page_held[x] /\ i = page_held'[x]
      BY <1>8, <2>1 DEF PageInv, PageSessions
    <3>2. page_clock < page_session[i].until /\ page_clock - page_created[i].time <= CookieAge
      BY <1>8, <2>1, <3>1 DEF PageInv, PageSessions
    <3>3. page_clock < page_session'[i].until /\ page_created'[i].time = page_created[i].time /\ i \in 1 .. Len(page_session')
      BY <1>6, <3>2
    <3> QED
      BY <1>1, <3>1, <3>2, <3>3
  <2> QED
    BY <1>3, <1>5, <1>6, <2>1 DEF PageSessions
<1>10. \A d \in Caller : Counting(d)' = Counting(d)
  BY <1>1 DEF Counting, PageInv, PageTyped
<1>11. PageCounted'
  BY <1>1, <1>8, <1>10 DEF PageInv, PageTyped, PageCounted, Page!Live
<1> QED
  BY <1>7, <1>9, <1>11 DEF PageInv

(* Every step of a request keeps it, and so does the time.                   *)
LEMMA PageNext == PageInv /\ [Page!Next]_page_vars => PageInv'
<1> SUFFICES ASSUME PageInv, [Page!Next]_page_vars PROVE PageInv'
  OBVIOUS
<1>1. CASE Page!Tick
  <2>1. /\ page_clock < PageTime /\ page_clock' = page_clock + 1 /\ \A r \in Request : page_at[r] = "away"
        /\ UNCHANGED <<page_rate, page_session, page_at, page_who, page_held, page_created, page_madeInWindow, page_accepted>>
    BY <1>1 DEF Page!Tick
  <2>2. PageTyped'
    BY <2>1, PageAssumption DEF PageInv, PageTyped
  <2>3. PageSessions'
    BY <2>1 DEF PageInv, PageSessions
  <2>4. \A d \in Caller : Counting(d)' = Counting(d)
    BY <2>1 DEF Counting
  <2>5. \A d \in Caller : Page!Live(page_rate[d])' => Page!Live(page_rate[d])
    BY <2>1 DEF Page!Live, PageInv, PageTyped
  <2>6. PageCounted'
    BY <2>1, <2>4, <2>5 DEF PageInv, PageCounted
  <2> QED
    BY <2>2, <2>3, <2>6 DEF PageInv
<1>2. CASE UNCHANGED page_vars
  BY <1>2 DEF page_vars, PageInv, PageTyped, PageSessions, PageCounted, Counting, Page!Live
<1> QED
  BY <1>1, <1>2, CountPageKeeps, PageExpireKeeps, PageStoreKeeps, PageValidateKeeps, PageRenewKeeps DEF Page!Next

(* The property of the sessions, from their invariant.                       *)
LEMMA PageSafe == PageInv => SessionsBounded
<1> SUFFICES ASSUME PageInv, NEW c \in Caller, Page!Live(page_rate[c]) PROVE page_madeInWindow[c] <= MaxPerWindow
  BY DEF PageInv, PageSessions, SessionsBounded, Page!SessionsBounded
<1>1. page_madeInWindow[c] + Cardinality(Counting(c)) <= MaxPerWindow
  BY DEF PageInv, PageCounted
<1> QED
  BY <1>1, CountingFinite, PageAssumption DEF PageInv, PageTyped

-----------------------------------------------------------------------------
(***************************************************************************)
(* TokenQuery: the mails. A request that a counter has let through and     *)
(* that has not saved its code yet is counted with the codes that were     *)
(* saved; time stands still until it has.                                  *)
(***************************************************************************)

QuerySteps == {"away", "email", "expire email", "ip", "expire ip", "save", "cool", "judge", "delete"}
CounterKeys == [count : Nat \ {0}, until : Nat]

\* The steps of a request that the counter of l has let through; with a limit of zero it never does.
LetThrough(l, step) ==
  \/ step = "save" \/ (l = "email" /\ step \in {"ip", "expire ip"})
  \/ RateLimit[l] > 0 /\ step = Query!Expiring[l]
Asked(l) == {r \in Request : LetThrough(l, query_at[r])}

MailTyped ==
  /\ query_clock \in 0 .. QueryTime
  /\ query_rate \in [{"email", "ip"} -> CounterKeys \cup {None}]
  /\ query_at \in [Request -> QuerySteps]
  /\ query_mailed \in [{"email", "ip"} -> Nat]

\* The counter of a request on its way is there; Expiring and LetThrough together are where it is needed.
MailStands(l) ==
  \A r \in Request : LetThrough(l, query_at[r]) \/ query_at[r] = Query!Expiring[l]
                     => Query!Live(query_rate[l])
MailCounted(l) ==
  Query!Live(query_rate[l]) => LET n == query_mailed[l] + Cardinality(Asked(l))
                               IN n <= RateLimit[l] /\ n <= query_rate[l].count
MailExpires(l) ==
  query_rate[l] # None /\ query_rate[l].until = Query!Never =>
    l \in query_failed \/ \E r \in Request : query_at[r] = Query!Expiring[l]

MailOf(l) == MailStands(l) /\ MailCounted(l) /\ MailExpires(l)
MailInv == MailTyped /\ \A l \in {"email", "ip"} : MailOf(l)

(* The two steps before an expiry is set.                                    *)
LEMMA ExpiringIs == Query!Expiring["email"] = "expire email" /\ Query!Expiring["ip"] = "expire ip"
BY DEF Query!Expiring

(* Who is let through by its own counter.                                    *)
LEMMA LetThroughIs ==
  ASSUME NEW l \in {"email", "ip"}
  PROVE  /\ LetThrough(l, Query!Expiring[l]) <=> RateLimit[l] > 0
         /\ ~LetThrough(l, "away") /\ LetThrough(l, Query!After(l))
         /\ Query!Expiring[l] \notin {"away", "ip", "save"} /\ Query!After(l) \in {"ip", "save"}
<1>1. CASE l = "email"
  BY <1>1, ExpiringIs DEF LetThrough, Query!After
<1>2. CASE l = "ip"
  BY <1>2, ExpiringIs DEF LetThrough, Query!After
<1> QED
  BY <1>1, <1>2

(* Nobody has asked for a mail at first.                                     *)
LEMMA MailInit == Query!Init => MailInv
<1> SUFFICES ASSUME Query!Init PROVE MailInv
  OBVIOUS
<1> USE QueryAssumption DEF Query!Init
<1>1. MailTyped
  BY DEF MailTyped, Query!Limit, QuerySteps
<1>2. ASSUME NEW l \in {"email", "ip"} PROVE MailOf(l)
  <2>1. query_rate[l] = None
    BY DEF Query!Limit
  <2>2. \A r \in Request : ~LetThrough(l, query_at[r]) /\ query_at[r] # Query!Expiring[l]
    BY ExpiringIs DEF LetThrough
  <2> QED
    BY <2>1, <2>2 DEF MailOf, MailStands, MailCounted, MailExpires, Query!Live
<1> QED
  BY <1>1, <1>2 DEF MailInv

(* Requests are finitely many.                                               *)
LEMMA AskedFinite ==
  ASSUME NEW l
  PROVE  IsFiniteSet(Asked(l)) /\ Cardinality(Asked(l)) \in Nat
<1>1. Asked(l) \in SUBSET Request
  BY DEF Asked
<1> QED
  BY <1>1, PageAssumption, FS_Subset, FS_CardinalityType

(* How a request's step changes who is counted.                              *)
LEMMA AskedMoves ==
  ASSUME MailTyped, NEW r \in Request, NEW s, NEW l \in {"email", "ip"},
         query_at' = [query_at EXCEPT ![r] = s]
  PROVE  /\ LetThrough(l, s) /\ ~LetThrough(l, query_at[r]) => Cardinality(Asked(l)') = Cardinality(Asked(l)) + 1
         /\ ~LetThrough(l, s) /\ LetThrough(l, query_at[r]) => Cardinality(Asked(l)') = Cardinality(Asked(l)) - 1
         /\ (LetThrough(l, s) <=> LetThrough(l, query_at[r])) => Cardinality(Asked(l)') = Cardinality(Asked(l))
         /\ Cardinality(Asked(l)) \in Nat
<1>1. r \in Asked(l) <=> LetThrough(l, query_at[r])
  BY DEF Asked
<1>2. Asked(l)' = IF LetThrough(l, s) THEN Asked(l) \cup {r} ELSE Asked(l) \ {r}
  <2>1. \A x \in Request : LetThrough(l, query_at'[x]) <=> IF x = r THEN LetThrough(l, s) ELSE LetThrough(l, query_at[x])
    BY DEF MailTyped, LetThrough
  <2>2. Asked(l)' = {x \in Request : LetThrough(l, query_at'[x])}
    BY ExpiringIs DEF Asked, LetThrough
  <2> QED
    BY <2>1, <2>2 DEF Asked
<1> QED
  <2>1. IsFiniteSet(Asked(l)) /\ Cardinality(Asked(l)) \in Nat
    BY AskedFinite
  <2>2. Cardinality(Asked(l) \cup {r}) = IF r \in Asked(l) THEN Cardinality(Asked(l)) ELSE Cardinality(Asked(l)) + 1
    BY <2>1, FS_AddElement
  <2>3. Cardinality(Asked(l) \ {r}) = IF r \in Asked(l) THEN Cardinality(Asked(l)) - 1 ELSE Cardinality(Asked(l))
    BY <2>1, FS_RemoveElement
  <2> QED
    BY <1>1, <1>2, <2>1, <2>2, <2>3

(* Nobody more is counted, unless the request is let through by its step.    *)
LEMMA AskedFewer ==
  ASSUME MailTyped, NEW r \in Request, NEW s, NEW l \in {"email", "ip"},
         query_at' = [query_at EXCEPT ![r] = s], LetThrough(l, s) => LetThrough(l, query_at[r])
  PROVE  /\ Cardinality(Asked(l)') <= Cardinality(Asked(l))
         /\ Cardinality(Asked(l)') \in Int /\ Cardinality(Asked(l)) \in Nat
<1>1. /\ ~LetThrough(l, s) /\ LetThrough(l, query_at[r]) => Cardinality(Asked(l)') = Cardinality(Asked(l)) - 1
      /\ (LetThrough(l, s) <=> LetThrough(l, query_at[r])) => Cardinality(Asked(l)') = Cardinality(Asked(l))
      /\ Cardinality(Asked(l)) \in Nat
  BY AskedMoves
<1> QED
  BY <1>1

(* A counter that lives on with no fewer counted and nobody more let through. *)
LEMMA CountedStill ==
  ASSUME MailTyped, NEW l \in {"email", "ip"}, MailCounted(l),
         Cardinality(Asked(l)') <= Cardinality(Asked(l)), Cardinality(Asked(l)') \in Int,
         Cardinality(Asked(l)) \in Nat, query_mailed'[l] = query_mailed[l],
         Query!Live(query_rate[l])' => Query!Live(query_rate[l]) /\ query_rate'[l].count = query_rate[l].count
  PROVE  MailCounted(l)'
<1> SUFFICES ASSUME Query!Live(query_rate[l])'
             PROVE  LET n == query_mailed'[l] + Cardinality(Asked(l)')
                    IN n <= RateLimit[l] /\ n <= query_rate'[l].count
  BY DEF MailCounted
<1>1. /\ query_mailed[l] + Cardinality(Asked(l)) <= RateLimit[l]
      /\ query_mailed[l] + Cardinality(Asked(l)) <= query_rate[l].count
  BY DEF MailCounted
<1>2. query_rate[l].count \in Nat /\ query_mailed[l] \in Nat /\ RateLimit[l] \in Nat
  BY QueryAssumption DEF MailTyped, CounterKeys, Query!Live
<1> QED
  BY <1>1, <1>2

(* A step outside of the counters.                                           *)
LEMMA MailAside ==
  ASSUME MailInv, NEW r \in Request, NEW s \in {"away", "email", "cool", "judge", "delete"},
         query_at[r] \notin {"expire email", "expire ip"},
         query_at' = [query_at EXCEPT ![r] = s],
         UNCHANGED <<query_clock, query_rate, query_mailed, query_failed>>
  PROVE  MailInv'
<1>0. MailTyped
  BY DEF MailInv
<1>1. MailTyped'
  BY DEF MailInv, MailTyped, QuerySteps
<1>2. ASSUME NEW l \in {"email", "ip"} PROVE MailOf(l)'
  <2>1. ~LetThrough(l, s) /\ s # Query!Expiring[l] /\ query_at[r] # Query!Expiring[l]
    BY ExpiringIs DEF LetThrough
  <2>2. /\ Cardinality(Asked(l)') <= Cardinality(Asked(l))
        /\ Cardinality(Asked(l)') \in Int /\ Cardinality(Asked(l)) \in Nat
    BY <2>1, <1>0, AskedFewer
  <2>3. \A x \in Request : x # r => query_at'[x] = query_at[x]
    BY DEF MailInv, MailTyped
  <2>4. query_at'[r] = s
    BY DEF MailInv, MailTyped
  <2>5. MailStands(l)'
    BY <2>1, <2>3, <2>4, ExpiringIs DEF MailInv, MailOf, MailStands, LetThrough, Query!Live
  <2>6. MailCounted(l)'
    <3>1. MailCounted(l)
      BY DEF MailInv, MailOf
    <3>2. Query!Live(query_rate[l])' => Query!Live(query_rate[l]) /\ query_rate'[l].count = query_rate[l].count
      BY DEF Query!Live
    <3> QED
      BY <1>0, <2>2, <3>1, <3>2, CountedStill
  <2>7. MailExpires(l)'
    BY <2>1, <2>3, <2>4, ExpiringIs DEF MailInv, MailOf, MailExpires, Query!Never
  <2> QED
    BY <2>5, <2>6, <2>7 DEF MailOf
<1> QED
  BY <1>1, <1>2 DEF MailInv

(* What INCR makes of a counter.                                             *)
LEMMA MailKey ==
  ASSUME MailTyped, NEW l \in {"email", "ip"}, NEW key, NEW fresh,
         fresh <=> ~Query!Live(query_rate[l]), key = Query!Counted(l, fresh)
  PROVE  /\ key \in CounterKeys /\ query_clock < key.until
         /\ fresh => key.count = 1 /\ key.until = Query!Never
         /\ ~fresh => /\ key.until = query_rate[l].until /\ query_rate[l] \in CounterKeys
                      /\ key.count = IF query_rate[l].count > RateLimit[l] THEN query_rate[l].count
                                     ELSE query_rate[l].count + 1
<1>1. CASE fresh
  <2>1. key = [count |-> 1, until |-> Query!Never]
    BY <1>1 DEF Query!Counted
  <2>2. Query!Never \in Nat /\ query_clock < Query!Never
    BY QueryAssumption DEF MailTyped, Query!Never
  <2>3. key.count = 1 /\ key.until = Query!Never /\ key \in CounterKeys
    BY <2>1, <2>2 DEF CounterKeys
  <2> QED
    BY <1>1, <2>2, <2>3
<1>2. CASE ~fresh
  <2>1. query_rate[l] \in CounterKeys /\ query_clock < query_rate[l].until
    BY <1>2 DEF MailTyped, Query!Live
  <2>2. key = [query_rate[l] EXCEPT !.count = IF @ > RateLimit[l] THEN @ ELSE @ + 1]
    BY <1>2 DEF Query!Counted
  <2>3. key = [count |-> IF query_rate[l].count > RateLimit[l] THEN query_rate[l].count ELSE query_rate[l].count + 1,
               until |-> query_rate[l].until]
    BY <2>1, <2>2 DEF CounterKeys
  <2> QED
    BY <1>2, <2>1, <2>3 DEF CounterKeys
<1> QED
  BY <1>1, <1>2

(* A counter that is counted up, with what the request does then. It is let  *)
(* through or goes away; a count of one, which has no expiry yet, is for the *)
(* request to give one.                                                      *)
LEMMA MailCountsUp ==
  ASSUME MailInv, NEW r \in Request, NEW l \in {"email", "ip"}, NEW key, NEW fresh, NEW s,
         query_at[r] = l, fresh <=> ~Query!Live(query_rate[l]), key = Query!Counted(l, fresh),
         query_rate' = [query_rate EXCEPT ![l] = key],
         query_mailed' = IF fresh THEN [query_mailed EXCEPT ![l] = 0] ELSE query_mailed,
         query_at' = [query_at EXCEPT ![r] = s], UNCHANGED query_clock,
         \/ s = "away" /\ query_failed' = query_failed \cup {l}
         \/ /\ query_failed' = IF fresh THEN query_failed \ {l} ELSE query_failed
            /\ s = IF key.count = 1 THEN Query!Expiring[l]
                   ELSE IF key.count > RateLimit[l] THEN "away" ELSE Query!After(l)
  PROVE  MailInv'
<1>1. /\ key \in CounterKeys /\ query_clock < key.until
      /\ fresh => key.count = 1 /\ key.until = Query!Never
      /\ ~fresh => /\ key.until = query_rate[l].until /\ query_rate[l] \in CounterKeys
                   /\ key.count = IF query_rate[l].count > RateLimit[l] THEN query_rate[l].count
                                  ELSE query_rate[l].count + 1
  BY MailKey DEF MailInv
<1>2. s \in QuerySteps /\ s \in {"away", "expire email", "expire ip", "ip", "save"}
  BY ExpiringIs DEF Query!After, QuerySteps
<1>0. MailTyped
  BY DEF MailInv
<1>3. MailTyped'
  BY <1>1, <1>2 DEF MailInv, MailTyped
<1>4. /\ query_rate'[l] = key /\ query_at'[r] = s
      /\ \A x \in Request : x # r => query_at'[x] = query_at[x]
      /\ \A k \in {"email", "ip"} : k # l => query_rate'[k] = query_rate[k] /\ query_mailed'[k] = query_mailed[k]
      /\ query_mailed'[l] = IF fresh THEN 0 ELSE query_mailed[l]
  BY DEF MailInv, MailTyped
<1>5. Query!Live(query_rate[l])'
  BY <1>1, <1>4, QueryAssumption, PageAssumption DEF Query!Live, CounterKeys
<1>6. ASSUME NEW k \in {"email", "ip"}, k # l PROVE MailOf(k)'
  <2>1. /\ l = "ip" => k = "email"
        /\ l = "email" => k = "ip"
    BY <1>6
  <2>2. LetThrough(k, s) => LetThrough(k, query_at[r])
    BY <2>1, <1>2, ExpiringIs DEF LetThrough, Query!After
  <2>3. s # Query!Expiring[k] /\ query_at[r] # Query!Expiring[k]
    BY <2>1, ExpiringIs DEF Query!After
  <2>4. /\ Cardinality(Asked(k)') <= Cardinality(Asked(k))
        /\ Cardinality(Asked(k)') \in Int /\ Cardinality(Asked(k)) \in Nat
    BY <1>0, <2>2, AskedFewer
  <2>5. Query!Live(query_rate[k])' <=> Query!Live(query_rate[k])
    BY <1>4, <1>6 DEF Query!Live
  <2>6. MailStands(k)'
    BY <1>4, <2>2, <2>3, <2>5, ExpiringIs DEF MailInv, MailOf, MailStands, LetThrough
  <2>7. MailCounted(k)'
    <3>1. MailCounted(k)
      BY DEF MailInv, MailOf
    <3>2. query_mailed'[k] = query_mailed[k] /\ query_rate'[k] = query_rate[k]
      BY <1>4, <1>6
    <3> QED
      BY <1>0, <2>4, <2>5, <3>1, <3>2, CountedStill
  <2>8. MailExpires(k)'
    <3>1. MailExpires(k)
      BY DEF MailInv, MailOf
    <3>2. k \in query_failed => k \in query_failed'
      BY <1>6
    <3>3. \A x \in Request : query_at[x] = Query!Expiring[k] => query_at'[x] = Query!Expiring[k]
      BY <1>4, <2>3
    <3> QED
      BY <1>4, <1>6, <3>1, <3>2, <3>3 DEF MailExpires, Query!Never, Query!Expiring
  <2> QED
    BY <2>6, <2>7, <2>8 DEF MailOf
<1>7. MailOf(l)'
  <2>1. MailStands(l)'
    BY <1>5 DEF MailStands
  <2>2. MailCounted(l)'
    <3>0. ~LetThrough(l, query_at[r])
      BY ExpiringIs DEF LetThrough
    <3>1. /\ LetThrough(l, s) => Cardinality(Asked(l)') = Cardinality(Asked(l)) + 1
          /\ ~LetThrough(l, s) => Cardinality(Asked(l)') = Cardinality(Asked(l))
          /\ Cardinality(Asked(l)) \in Nat
      BY <1>0, <3>0, AskedMoves
    <3>2. LetThrough(l, s) => RateLimit[l] >= 1 /\ key.count <= RateLimit[l]
      <4>1. RateLimit[l] \in Nat /\ key.count \in Nat \ {0}
        BY <1>1, QueryAssumption DEF CounterKeys
      <4>2. s # "away" => s = IF key.count = 1 THEN Query!Expiring[l] 
                               ELSE IF key.count > RateLimit[l] THEN "away" ELSE Query!After(l)
        OBVIOUS
      <4>3. CASE key.count = 1
        <5>1. LetThrough(l, s) => RateLimit[l] > 0
          BY <4>2, <4>3, LetThroughIs
        <5> QED
          BY <4>1, <4>3, <5>1
      <4>4. CASE key.count # 1
        <5>1. LetThrough(l, s) => ~(key.count > RateLimit[l])
          BY <4>2, <4>4, LetThroughIs
        <5> QED
          BY <4>1, <5>1
      <4> QED
        BY <4>3, <4>4
    <3>3. CASE fresh
      <4>1. Asked(l) = {}
        BY <3>3 DEF Asked, MailInv, MailOf, MailStands
      <4>2. Cardinality(Asked(l)) = 0
        BY <4>1, FS_EmptySet
      <4> QED
        <5>1. query_mailed'[l] = 0 /\ query_rate'[l].count = 1 /\ RateLimit[l] \in Nat
          BY <1>1, <1>4, <3>3, QueryAssumption
        <5>2. Cardinality(Asked(l)') = 0 \/ (Cardinality(Asked(l)') = 1 /\ RateLimit[l] >= 1)
          BY <3>1, <3>2, <4>2
        <5> QED
          BY <5>1, <5>2 DEF MailCounted
    <3>4. CASE ~fresh
      <4>1. /\ query_mailed[l] + Cardinality(Asked(l)) <= RateLimit[l]
            /\ query_mailed[l] + Cardinality(Asked(l)) <= query_rate[l].count
        BY <3>4 DEF MailInv, MailOf, MailCounted
      <4>2. query_rate[l].count \in Nat /\ query_mailed[l] \in Nat /\ RateLimit[l] \in Nat /\ Cardinality(Asked(l)) \in Nat
        BY <1>1, <3>4, QueryAssumption, AskedFinite DEF MailInv, MailTyped, CounterKeys
      <4>3. query_mailed'[l] = query_mailed[l] /\ query_rate'[l].count = key.count
        BY <1>4, <3>4
      <4>4. LetThrough(l, s) => key.count = query_rate[l].count + 1
        BY <1>1, <3>2, <3>4, <4>2
      <4>5. key.count >= query_rate[l].count /\ key.count \in Nat
        BY <1>1, <3>4, <4>2
      <4> QED
        BY <3>1, <3>2, <4>1, <4>2, <4>3, <4>4, <4>5 DEF MailCounted
    <3> QED
      BY <3>3, <3>4
  <2>3. MailExpires(l)'
    <3>1. CASE l \in query_failed'
      BY <3>1 DEF MailExpires
    <3>2. CASE l \notin query_failed'
      <4>1. /\ query_failed' = IF fresh THEN query_failed \ {l} ELSE query_failed
            /\ s = IF key.count = 1 THEN Query!Expiring[l]
                   ELSE IF key.count > RateLimit[l] THEN "away" ELSE Query!After(l)
        BY <3>2
      <4>2. CASE key.count = 1
        BY <1>4, <4>1, <4>2, ExpiringIs DEF MailExpires
      <4>3. CASE key.count # 1 /\ key.until = Query!Never
        <5>1. ~fresh /\ query_rate[l].until = Query!Never /\ query_rate[l] # None
          BY <1>1, <4>3 DEF Query!Live
        <5>2. PICK x \in Request : query_at[x] = Query!Expiring[l]
          BY <3>2, <4>1, <5>1 DEF MailInv, MailOf, MailExpires
        <5>3. x # r
          BY <5>2, ExpiringIs
        <5> QED
          BY <1>4, <5>2, <5>3, ExpiringIs DEF MailExpires
      <4>4. CASE key.until # Query!Never
        BY <1>4, <4>4 DEF MailExpires, Query!Never
      <4> QED
        BY <4>2, <4>3, <4>4
    <3> QED
      BY <3>1, <3>2
  <2> QED
    BY <2>1, <2>2, <2>3 DEF MailOf
<1> QED
  BY <1>3, <1>6, <1>7 DEF MailInv

(* INCR.                                                                     *)
LEMMA MailIncrKeeps ==
  ASSUME MailInv, NEW r \in Request, NEW l \in {"email", "ip"}, Query!Incr(r, l)
  PROVE  MailInv'
<1> DEFINE fresh == ~Query!Live(query_rate[l])
           key == Query!Counted(l, fresh)
           s == IF key.count = 1 THEN Query!Expiring[l]
                ELSE IF key.count > RateLimit[l] THEN "away" ELSE Query!After(l)
<1>1. /\ query_at[r] = l /\ query_rate' = [query_rate EXCEPT ![l] = key]
      /\ query_mailed' = IF fresh THEN [query_mailed EXCEPT ![l] = 0] ELSE query_mailed
      /\ query_failed' = IF fresh THEN query_failed \ {l} ELSE query_failed
      /\ UNCHANGED query_clock
      /\ query_at' = [query_at EXCEPT ![r] = s]
  BY DEF Query!Incr, Query!IncrBy, Query!Return, Query!Goto
<1> HIDE DEF fresh, key, s
<1>2. fresh <=> ~Query!Live(query_rate[l])
  BY DEF fresh
<1>3. key = Query!Counted(l, fresh)
  BY DEF key
<1>4. s = IF key.count = 1 THEN Query!Expiring[l]
          ELSE IF key.count > RateLimit[l] THEN "away" ELSE Query!After(l)
  BY DEF s
<1> QED
  BY <1>1, <1>2, <1>3, <1>4, MailCountsUp

(* INCR that fails, before or after it has counted.                          *)
LEMMA MailIncrFailsKeeps ==
  ASSUME MailInv, NEW r \in Request, NEW l \in {"email", "ip"}, Query!IncrFails(r, l)
  PROVE  MailInv'
<1> DEFINE fresh == ~Query!Live(query_rate[l])
           key == Query!Counted(l, fresh)
<1>1. query_at[r] = l /\ query_at' = [query_at EXCEPT ![r] = "away"] /\ UNCHANGED query_clock
  BY DEF Query!IncrFails, Query!Return, Query!Goto
<1>2. CASE UNCHANGED <<query_rate, query_mailed, query_failed>>
  BY <1>1, <1>2, MailAside
<1>3. CASE /\ query_rate' = [query_rate EXCEPT ![l] = key]
           /\ query_mailed' = IF fresh THEN [query_mailed EXCEPT ![l] = 0] ELSE query_mailed
           /\ query_failed' = query_failed \cup {l}
  <2> HIDE DEF fresh, key
  <2>1. fresh <=> ~Query!Live(query_rate[l])
    BY DEF fresh
  <2>2. key = Query!Counted(l, fresh)
    BY DEF key
  <2> QED
    BY <1>1, <1>3, <2>1, <2>2, MailCountsUp
<1> QED
  BY <1>2, <1>3 DEF Query!IncrFails

(* EXPIRE, which may fail.                                                   *)
LEMMA MailExpireKeeps ==
  ASSUME MailInv, NEW r \in Request, NEW l \in {"email", "ip"}, Query!Expire(r, l)
  PROVE  MailInv'
<1> DEFINE s == IF RateLimit[l] < 1 THEN "away" ELSE Query!After(l)
           until == query_clock + MailTTL
<1>1. /\ query_at[r] = Query!Expiring[l] /\ query_at' = [query_at EXCEPT ![r] = s]
      /\ UNCHANGED <<query_clock, query_mailed>>
      /\ \/ /\ query_rate' = [query_rate EXCEPT ![l] = IF Query!Live(@) THEN [@ EXCEPT !.until = until] ELSE @]
            /\ UNCHANGED query_failed
         \/ query_failed' = query_failed \cup {l} /\ UNCHANGED query_rate
  BY DEF Query!Expire, Query!Return, Query!Goto
<1>2. Query!Live(query_rate[l])
  BY <1>1 DEF MailInv, MailOf, MailStands
<1>3. query_rate[l] \in CounterKeys /\ query_rate[l].count \in Nat
  BY <1>2 DEF MailInv, MailTyped, Query!Live, CounterKeys
<1>4. until \in Nat /\ query_clock < until /\ until # Query!Never
  BY QueryAssumption DEF MailInv, MailTyped, Query!Never
<1>5. s \in QuerySteps /\ s \in {"away", "ip", "save"}
  BY DEF Query!After, QuerySteps
<1>6. /\ LetThrough(l, s) <=> LetThrough(l, query_at[r])
      /\ \A k \in {"email", "ip"} : k # l => (LetThrough(k, s) => LetThrough(k, query_at[r]))
      /\ \A k \in {"email", "ip"} : s # Query!Expiring[k] /\ (k # l => query_at[r] # Query!Expiring[k])
  <2>1. RateLimit[l] < 1 <=> ~(RateLimit[l] > 0)
    BY QueryAssumption
  <2>2. LetThrough(l, s) <=> RateLimit[l] > 0
    BY <2>1, LetThroughIs
  <2>3. ASSUME NEW k \in {"email", "ip"}, k # l
        PROVE  LetThrough(k, s) => LetThrough(k, query_at[r])
    <3>1. CASE l = "email"
      BY <2>3, <3>1, ExpiringIs DEF LetThrough, Query!After
    <3>2. CASE l = "ip"
      <4>1. k = "email" /\ query_at[r] = "expire ip"
        BY <1>1, <2>3, <3>2, ExpiringIs
      <4> QED
        BY <4>1 DEF LetThrough
    <3> QED
      BY <3>1, <3>2
  <2>4. ASSUME NEW k \in {"email", "ip"}
        PROVE  s # Query!Expiring[k] /\ (k # l => query_at[r] # Query!Expiring[k])
    BY <1>1, <1>5, ExpiringIs
  <2> QED
    BY <1>1, <2>2, <2>3, <2>4, LetThroughIs
<1> HIDE DEF s, until
<1>7. \/ /\ query_rate' = [query_rate EXCEPT ![l] = [count |-> query_rate[l].count, until |-> until]]
         /\ UNCHANGED query_failed
      \/ query_failed' = query_failed \cup {l} /\ UNCHANGED query_rate
  <2>1. [query_rate[l] EXCEPT !.until = until] = [count |-> query_rate[l].count, until |-> until]
    BY <1>3 DEF CounterKeys
  <2> QED
    BY <1>1, <1>2, <2>1
<1>8. /\ query_at'[r] = s
      /\ \A x \in Request : x # r => query_at'[x] = query_at[x]
      /\ \A k \in {"email", "ip"} : k # l => query_rate'[k] = query_rate[k]
      /\ \/ query_rate'[l] = [count |-> query_rate[l].count, until |-> until]
         \/ query_rate'[l] = query_rate[l] /\ l \in query_failed'
      /\ query_rate' \in [{"email", "ip"} -> CounterKeys \cup {None}]
      /\ query_failed \subseteq query_failed'
  <2>1. [count |-> query_rate[l].count, until |-> until] \in CounterKeys
    BY <1>3, <1>4 DEF CounterKeys
  <2> QED
    BY <1>1, <1>7, <2>1 DEF MailInv, MailTyped
<1>9. MailTyped'
  BY <1>1, <1>5, <1>8 DEF MailInv, MailTyped
<1>10. /\ Query!Live(query_rate[l])' /\ query_rate'[l].count = query_rate[l].count
       /\ \A k \in {"email", "ip"} : k # l => (Query!Live(query_rate[k])' <=> Query!Live(query_rate[k]))
  <2>1. CASE query_rate'[l] = [count |-> query_rate[l].count, until |-> until]
    BY <1>1, <1>3, <1>4, <1>8, <2>1, PageAssumption DEF Query!Live
  <2>2. CASE query_rate'[l] = query_rate[l]
    BY <1>1, <1>2, <1>8, <2>2 DEF Query!Live
  <2> QED
    BY <1>8, <2>1, <2>2
<1>11. ASSUME NEW k \in {"email", "ip"} PROVE MailOf(k)'
  <2>0. MailTyped /\ MailCounted(k)
    BY DEF MailInv, MailOf
  <2>1. /\ Cardinality(Asked(k)') <= Cardinality(Asked(k))
        /\ Cardinality(Asked(k)') \in Int /\ Cardinality(Asked(k)) \in Nat
    <3>1. LetThrough(k, s) => LetThrough(k, query_at[r])
      BY <1>6
    <3> QED
      BY <1>1, <2>0, <3>1, AskedFewer
  <2>2. Query!Live(query_rate[k])' => Query!Live(query_rate[k]) /\ query_rate'[k].count = query_rate[k].count
    BY <1>2, <1>8, <1>10
  <2>3. MailStands(k)'
    BY <1>6, <1>8, <1>10, ExpiringIs DEF MailInv, MailOf, MailStands, LetThrough
  <2>4. MailCounted(k)'
    <3>1. query_mailed'[k] = query_mailed[k]
      BY <1>1
    <3> QED
      BY <2>0, <2>1, <2>2, <3>1, CountedStill
  <2>5. MailExpires(k)'
    <3>1. CASE k = l
      BY <1>4, <1>8, <3>1 DEF MailExpires, Query!Never
    <3>2. CASE k # l
      BY <1>6, <1>8, <3>2, ExpiringIs DEF MailInv, MailOf, MailExpires, Query!Never
    <3> QED
      BY <3>1, <3>2
  <2> QED
    BY <2>3, <2>4, <2>5 DEF MailOf
<1> QED
  BY <1>9, <1>11 DEF MailInv

(* The code is saved: the request is one of those that were counted.         *)
LEMMA MailSaveKeeps ==
  ASSUME MailInv, NEW r \in Request, Query!SaveCode(r)
  PROVE  MailInv'
<1>1. /\ query_at[r] = "save" /\ query_at' = [query_at EXCEPT ![r] = "cool"]
      /\ query_mailed' = [l \in {"email", "ip"} |-> query_mailed[l] + 1]
      /\ UNCHANGED <<query_clock, query_rate, query_failed>>
  BY DEF Query!SaveCode, Query!Goto, Query!Limit
<1>2. MailTyped'
  <2>1. query_mailed' \in [{"email", "ip"} -> Nat]
    BY <1>1 DEF MailInv, MailTyped
  <2> QED
    BY <1>1, <2>1 DEF MailInv, MailTyped, QuerySteps
<1>3. ASSUME NEW l \in {"email", "ip"} PROVE MailOf(l)'
  <2>1. Cardinality(Asked(l)') = Cardinality(Asked(l)) - 1
    <3>1. LetThrough(l, "save") /\ ~LetThrough(l, "cool")
      BY ExpiringIs DEF LetThrough
    <3>2. MailTyped
      BY DEF MailInv
    <3> QED
      BY <1>1, <3>1, <3>2, AskedMoves
  <2>2. query_mailed'[l] = query_mailed[l] + 1
    BY <1>1
  <2>3. /\ query_at'[r] = "cool" /\ query_at[r] = "save"
        /\ \A x \in Request : x # r => query_at'[x] = query_at[x]
    BY <1>1 DEF MailInv, MailTyped
  <2>4. MailStands(l)'
    BY <1>1, <2>3, ExpiringIs DEF MailInv, MailOf, MailStands, LetThrough, Query!Live
  <2>5. MailCounted(l)'
    <3>1. CASE Query!Live(query_rate[l])
      <4>1. query_rate[l].count \in Nat /\ query_mailed[l] \in Nat /\ RateLimit[l] \in Nat
        BY <3>1, QueryAssumption DEF MailInv, MailTyped, CounterKeys, Query!Live
      <4>2. query_mailed'[l] + Cardinality(Asked(l)') = query_mailed[l] + Cardinality(Asked(l))
        BY <2>1, <2>2, <4>1, AskedFinite
      <4> QED
        BY <1>1, <3>1, <4>2 DEF MailInv, MailOf, MailCounted
    <3>2. CASE ~Query!Live(query_rate[l])
      BY <1>1, <3>2 DEF MailCounted, Query!Live
    <3> QED
      BY <3>1, <3>2
  <2>6. MailExpires(l)'
    BY <1>1, <2>3, ExpiringIs DEF MailInv, MailOf, MailExpires, Query!Never
  <2> QED
    BY <2>4, <2>5, <2>6 DEF MailOf
<1> QED
  BY <1>2, <1>3 DEF MailInv

(* Every step of a request keeps it, and so does the time.                   *)
LEMMA MailNext == MailInv /\ [Query!Next]_query_vars => MailInv'
<1> SUFFICES ASSUME MailInv, [Query!Next]_query_vars PROVE MailInv'
  OBVIOUS
<1>1. CASE UNCHANGED query_vars
  BY <1>1 DEF query_vars, MailInv, MailTyped, MailOf, MailStands, MailCounted, MailExpires, Asked,
              LetThrough, Query!Live, Query!Expiring, Query!Never
<1>2. CASE Query!Tick
  <2>1. /\ query_clock < QueryTime /\ query_clock' = query_clock + 1
        /\ \A r \in Request : query_at[r] = "away"
        /\ UNCHANGED <<query_rate, query_at, query_mailed, query_failed>>
    BY <1>2 DEF Query!Tick, Query!redis, Query!requests, Query!ghosts
  <2>2. MailTyped'
    BY <2>1, QueryAssumption DEF MailInv, MailTyped
  <2>3. ASSUME NEW l \in {"email", "ip"} PROVE MailOf(l)'
    <3>1. Query!Live(query_rate[l])' => Query!Live(query_rate[l])
      BY <2>1 DEF Query!Live, MailInv, MailTyped, CounterKeys
    <3>2. Asked(l)' = Asked(l)
      BY <2>1, ExpiringIs DEF Asked, LetThrough
    <3>3. MailStands(l)'
      BY <2>1, ExpiringIs DEF MailStands, LetThrough
    <3>4. MailCounted(l)'
      BY <2>1, <3>1, <3>2 DEF MailInv, MailOf, MailCounted
    <3>5. MailExpires(l)'
      BY <2>1, ExpiringIs DEF MailInv, MailOf, MailExpires, Query!Never
    <3> QED
      BY <3>3, <3>4, <3>5 DEF MailOf
  <2> QED
    BY <2>2, <2>3 DEF MailInv
<1>3. CASE \E r \in Request : Query!Step(r)
  <2>1. PICK r \in Request : Query!Step(r)
    BY <1>3
  <2> USE DEF Query!redis, Query!requests, Query!ghosts
  <2>2. CASE Query!RequestVerifyCode(r)
    BY <2>2, MailAside DEF Query!RequestVerifyCode, Query!Goto
  <2>3. CASE \E l \in Query!Limit : Query!Incr(r, l) \/ Query!IncrFails(r, l) \/ Query!Expire(r, l)
    BY <2>3, MailIncrKeeps, MailIncrFailsKeeps, MailExpireKeeps DEF Query!Limit
  <2>4. CASE Query!SaveCode(r)
    BY <2>4, MailSaveKeeps
  <2>5. CASE Query!SaveCodeFails(r)
    BY <2>5, MailAside DEF Query!SaveCodeFails, Query!Return, Query!Goto
  <2>6. CASE Query!SetCooldown(r)
    BY <2>6, MailAside DEF Query!SetCooldown, Query!Return, Query!Goto
  <2>7. CASE \E g \in 0 .. Len(query_codes) : Query!VerifyCode(r, g)
    BY <2>7, MailAside DEF Query!VerifyCode, Query!Goto
  <2>8. CASE Query!TooManyAttempts(r)
    BY <2>8, MailAside DEF Query!TooManyAttempts, Query!Return, Query!Goto
  <2>9. CASE Query!Accept(r)
    BY <2>9, MailAside DEF Query!Accept, Query!Goto
  <2>10. CASE Query!WrongGuess(r)
    <3>1. /\ query_at[r] = "judge" /\ UNCHANGED <<query_clock, query_rate, query_mailed, query_failed>>
          /\ \/ query_at' = [query_at EXCEPT ![r] = "away"]
             \/ query_at' = [query_at EXCEPT ![r] = "delete"]
      BY <2>10 DEF Query!WrongGuess, Query!Return, Query!Goto
    <3> QED
      BY <3>1, MailAside
  <2>11. CASE Query!DeleteCode(r)
    BY <2>11, MailAside DEF Query!DeleteCode, Query!Return, Query!Goto
  <2> QED
    BY <2>1, <2>2, <2>3, <2>4, <2>5, <2>6, <2>7, <2>8, <2>9, <2>10, <2>11 DEF Query!Step
<1> QED
  BY <1>1, <1>2, <1>3 DEF Query!Next

(* The properties of the mails, from their invariant.                        *)
LEMMA MailSafe == MailInv => Query!MailsBounded /\ Query!LockoutNeedsFailure
<1> SUFFICES ASSUME MailInv PROVE Query!MailsBounded /\ Query!LockoutNeedsFailure
  OBVIOUS
<1>1. ASSUME NEW l \in {"email", "ip"}, Query!Live(query_rate[l]) PROVE query_mailed[l] <= RateLimit[l]
  <2>1. query_mailed[l] + Cardinality(Asked(l)) <= RateLimit[l]
    BY <1>1 DEF MailInv, MailOf, MailCounted
  <2> QED
    BY <2>1, AskedFinite, QueryAssumption DEF MailInv, MailTyped
<1> QED
  BY <1>1 DEF Query!MailsBounded, Query!LockoutNeedsFailure, Query!Limit, MailInv, MailOf, MailExpires

-----------------------------------------------------------------------------
(***************************************************************************)
(* TokenQuery: the codes. Who judges a code that nobody disturbed judges   *)
(* it alone, and what it has read is what is stored.                       *)
(***************************************************************************)

CodeKeys == [code : Nat, attempts : Nat, until : Nat]
Fates == [born : Nat, uses : Nat, wrong : Nat, disturbed : BOOLEAN]
Times(k) == k * CodeTTL
Whole(n) == n \in DOMAIN query_codes /\ query_codes[n].disturbed = FALSE

GuessTyped ==
  /\ query_clock \in 0 .. QueryTime
  /\ query_at \in [Request -> QuerySteps]
  /\ query_code \in CodeKeys \cup {None}
  /\ query_seen \in [Request -> CodeKeys \cup {None}]
  /\ query_codes \in Seq(Fates)
  /\ query_code # None => query_code.code \in DOMAIN query_codes
  /\ \A r \in Request : /\ query_seen[r] # None <=> query_at[r] \in {"judge", "delete"}
                        /\ query_seen[r] # None => query_seen[r].code \in DOMAIN query_codes

Alone(r) ==
  query_seen[r] # None /\ Whole(query_seen[r].code) =>
    /\ \A x \in Request : x # r => query_seen[x] = None
    /\ query_code # None /\ query_code.code = query_seen[r].code
    /\ query_clock < query_code.until
    /\ query_clock < query_codes[query_seen[r].code].born + Times(MaxAttempts)
    /\ query_at[r] = "judge" => query_code = query_seen[r]

\* A stored code which nobody is about to delete.
Kept == query_code # None /\ ~(\E r \in Request : query_at[r] = "delete" /\ query_seen[r].code = query_code.code)
Sound(n) ==
  Whole(n) =>
    /\ query_codes[n].uses + query_codes[n].wrong <= MaxAttempts /\ query_codes[n].uses <= 1
    /\ Kept /\ query_code.code = n =>
         /\ query_codes[n].uses = 0 /\ query_codes[n].wrong = query_code.attempts
         /\ query_code.attempts < MaxAttempts
         /\ query_code.until <= query_codes[n].born + Times(query_code.attempts + 1)

GuessInv == /\ GuessTyped /\ \A r \in Request : Alone(r)
            /\ \A n \in DOMAIN query_codes : Sound(n)

(* Multiples of the time a code lives.                                       *)
LEMMA TimesGrow ==
  ASSUME NEW j \in Nat, NEW k \in Nat
  PROVE  /\ Times(j) \in Nat /\ Times(j + 1) = Times(j) + CodeTTL
         /\ j <= k => Times(j) <= Times(k)
<1>1. CodeTTL \in Nat
  BY QueryAssumption
<1>2. j * CodeTTL \in Nat /\ (j + 1) * CodeTTL = j * CodeTTL + CodeTTL
  BY <1>1
<1>3. ASSUME j <= k PROVE j * CodeTTL <= k * CodeTTL
  BY <1>1, <1>3
<1> QED
  BY <1>2, <1>3 DEF Times

(* There is no code at first.                                                *)
LEMMA GuessInit == Query!Init => GuessInv
<1> SUFFICES ASSUME Query!Init PROVE GuessInv
  OBVIOUS
<1>1. query_codes = << >> /\ query_codes \in Seq(Fates) /\ DOMAIN query_codes = {}
  BY DEF Query!Init
<1>2. GuessTyped
  BY <1>1, QueryAssumption DEF Query!Init, GuessTyped, QuerySteps
<1> QED
  BY <1>1, <1>2 DEF Query!Init, GuessInv, Alone

(* A step outside of the codes.                                              *)
LEMMA GuessAside ==
  ASSUME GuessInv, NEW r \in Request, NEW s \in QuerySteps,
         s \notin {"judge", "delete"}, query_at[r] \notin {"judge", "delete"},
         query_at' = [query_at EXCEPT ![r] = s],
         query_seen' = query_seen \/ query_seen' = [query_seen EXCEPT ![r] = None],
         UNCHANGED <<query_clock, query_code, query_codes>>
  PROVE  GuessInv'
<1>1. query_seen[r] = None
  BY DEF GuessInv, GuessTyped
<1>2. query_seen' = query_seen
  BY <1>1 DEF GuessInv, GuessTyped
<1>3. /\ \A x \in Request : x # r => query_at'[x] = query_at[x]
      /\ query_at'[r] = s
  BY DEF GuessInv, GuessTyped
<1>4. GuessTyped'
  BY <1>1, <1>2, <1>3 DEF GuessInv, GuessTyped
<1>5. ASSUME NEW x \in Request PROVE Alone(x)'
  BY <1>1, <1>2, <1>3 DEF GuessInv, Alone, Whole, Times
<1>6. ASSUME NEW n \in DOMAIN query_codes' PROVE Sound(n)'
  <2>1. Kept' <=> Kept
    BY <1>2, <1>3 DEF Kept
  <2> QED
    BY <1>2, <2>1 DEF GuessInv, Sound, Whole, Times
<1> QED
  BY <1>4, <1>5, <1>6 DEF GuessInv

(* What Disturb makes of the codes.                                          *)
LEMMA Disturbing ==
  ASSUME GuessTyped, NEW k,
         query_codes' = [n \in DOMAIN query_codes |-> IF n = k THEN Query!Disturbed ELSE query_codes[n]]
  PROVE  /\ query_codes' \in Seq(Fates) /\ DOMAIN query_codes' = DOMAIN query_codes
         /\ \A n \in DOMAIN query_codes : n = k => query_codes'[n].disturbed = TRUE
         /\ \A n \in DOMAIN query_codes : n # k => query_codes'[n] = query_codes[n]
<1>1. PICK m \in Nat : query_codes \in [1 .. m -> Fates]
  BY SeqDef DEF GuessTyped
<1>2. Query!Disturbed \in Fates /\ Query!Disturbed.disturbed = TRUE
  BY DEF Query!Disturbed, Fates
<1>3. query_codes' = [n \in 1 .. m |-> IF n = k THEN Query!Disturbed ELSE query_codes[n]]
  BY <1>1
<1>4. query_codes' \in [1 .. m -> Fates]
  BY <1>1, <1>2, <1>3
<1>5. query_codes' \in Seq(Fates)
  BY <1>4, SeqDef
<1> QED
  BY <1>1, <1>2, <1>3, <1>5

(* A request that gives up, or goes on to delete, with a command that has    *)
(* failed: its code is disturbed.                                            *)
LEMMA GuessFails ==
  ASSUME GuessInv, NEW r \in Request, NEW s, query_seen[r] # None,
         query_codes' = Query!Disturb({query_seen[r].code}),
         query_at' = [query_at EXCEPT ![r] = s],
         \/ s = "delete" /\ query_seen' = query_seen
         \/ s = "away" /\ query_seen' = [query_seen EXCEPT ![r] = None],
         UNCHANGED <<query_clock, query_code>>
  PROVE  GuessInv'
<1>1. /\ query_codes' \in Seq(Fates) /\ DOMAIN query_codes' = DOMAIN query_codes
      /\ \A n \in DOMAIN query_codes : n = query_seen[r].code => query_codes'[n].disturbed = TRUE
      /\ \A n \in DOMAIN query_codes : n # query_seen[r].code => query_codes'[n] = query_codes[n]
  <2>1. GuessTyped /\ query_codes' = [n \in DOMAIN query_codes |->
                         IF n = query_seen[r].code THEN Query!Disturbed ELSE query_codes[n]]
    BY DEF GuessInv, Query!Disturb
  <2> QED
    BY <2>1, Disturbing
<1>2. /\ \A x \in Request : x # r => query_at'[x] = query_at[x] /\ query_seen'[x] = query_seen[x]
      /\ query_at'[r] = s /\ (query_seen'[r] = None \/ query_seen'[r] = query_seen[r])
  BY DEF GuessInv, GuessTyped
<1>3. GuessTyped'
  BY <1>1, <1>2 DEF GuessInv, GuessTyped, QuerySteps
<1>4. \A n \in DOMAIN query_codes : Whole(n)' => Whole(n) /\ n # query_seen[r].code /\ query_codes'[n] = query_codes[n]
  BY <1>1 DEF Whole
<1>5. ASSUME NEW x \in Request, query_seen'[x] # None, Whole(query_seen[x].code)'
      PROVE  FALSE
  <2>1. x # r
    BY <1>2, <1>3, <1>4, <1>5, <1>1 DEF GuessTyped
  <2>2. query_seen'[x] = query_seen[x] /\ query_seen[x].code \in DOMAIN query_codes
    BY <1>2, <1>5, <2>1 DEF GuessInv, GuessTyped
  <2>3. Whole(query_seen[x].code)
    BY <1>1, <1>5, <2>2 DEF Whole
  <2> QED
    BY <1>5, <2>1, <2>2, <2>3 DEF GuessInv, Alone
<1>6. ASSUME NEW n \in DOMAIN query_codes' PROVE Sound(n)'
  <2>1. SUFFICES ASSUME Whole(n)' PROVE Sound(n)'
    BY DEF Sound
  <2>2. Whole(n) /\ n # query_seen[r].code /\ query_codes'[n] = query_codes[n]
    BY <1>1, <1>4, <2>1
  <2>3. Kept' /\ query_code'.code = n => Kept /\ query_code.code = n
    BY <1>2, <2>2 DEF Kept
  <2> QED
    BY <1>1, <2>2, <2>3 DEF GuessInv, Sound, Times
<1> QED
  BY <1>3, <1>5, <1>6 DEF GuessInv, Alone

(* A code that is deleted by a request that has judged it.                   *)
LEMMA GuessDeletes ==
  ASSUME GuessInv, NEW r \in Request, query_seen[r] # None, query_code' = None,
         query_at' = [query_at EXCEPT ![r] = "away"], query_seen' = [query_seen EXCEPT ![r] = None],
         UNCHANGED <<query_clock, query_codes>>
  PROVE  GuessInv'
<1>1. /\ \A x \in Request : x # r => query_at'[x] = query_at[x] /\ query_seen'[x] = query_seen[x]
      /\ query_at'[r] = "away" /\ query_seen'[r] = None
  BY DEF GuessInv, GuessTyped
<1>2. GuessTyped'
  BY <1>1 DEF GuessInv, GuessTyped, QuerySteps
<1>3. ASSUME NEW x \in Request PROVE Alone(x)'
  BY <1>1 DEF GuessInv, Alone, Whole
<1>4. ASSUME NEW n \in DOMAIN query_codes' PROVE Sound(n)'
  BY DEF GuessInv, Sound, Whole, Kept
<1> QED
  BY <1>2, <1>3, <1>4 DEF GuessInv

(* A new code: those before it are disturbed when somebody is judging one.   *)
LEMMA GuessSaves ==
  ASSUME GuessInv, NEW r \in Request, Query!SaveCode(r)
  PROVE  GuessInv'
<1>1. PICK m \in Nat : query_codes \in [1 .. m -> Fates] /\ m = Len(query_codes)
  BY LenProperties DEF GuessInv, GuessTyped
<1>2. /\ query_at[r] = "save" /\ query_at' = [query_at EXCEPT ![r] = "cool"]
      /\ UNCHANGED <<query_clock, query_seen>>
      /\ query_code' = [code |-> m + 1, attempts |-> 0, until |-> query_clock + CodeTTL]
      /\ query_codes' = [i \in 1 .. m + 1 |->
           IF i \in (IF Query!Judging = {} THEN {} ELSE 1 .. m + 1) THEN Query!Disturbed
           ELSE IF i = m + 1 THEN Query!NewCode ELSE query_codes[i]]
  BY <1>1 DEF Query!SaveCode, Query!Goto
<1>3. /\ Query!Disturbed \in Fates /\ Query!Disturbed.disturbed = TRUE
      /\ Query!NewCode \in Fates /\ Query!NewCode.born = query_clock /\ Query!NewCode.uses = 0 /\ Query!NewCode.wrong = 0
  BY DEF Query!Disturbed, Query!NewCode, Fates, GuessInv, GuessTyped
<1>4. query_codes' \in [1 .. m + 1 -> Fates]
  BY <1>1, <1>2, <1>3
<1>5. query_codes' \in Seq(Fates) /\ DOMAIN query_codes' = 1 .. m + 1 /\ DOMAIN query_codes \subseteq 1 .. m + 1
  BY <1>1, <1>4, SeqDef
<1>6. query_clock + CodeTTL \in Nat /\ query_clock \in Nat
  BY QueryAssumption DEF GuessInv, GuessTyped
<1>7. /\ \A x \in Request : x # r => query_at'[x] = query_at[x]
      /\ query_at'[r] = "cool" /\ query_seen[r] = None
  BY <1>2 DEF GuessInv, GuessTyped
<1>8. GuessTyped'
  <2>1. query_code' \in CodeKeys /\ query_code'.code \in DOMAIN query_codes'
    BY <1>2, <1>5, <1>6 DEF CodeKeys
  <2>2. query_at' \in [Request -> QuerySteps]
    BY <1>2 DEF GuessInv, GuessTyped, QuerySteps
  <2>3. ASSUME NEW x \in Request
        PROVE  /\ query_seen'[x] # None <=> query_at'[x] \in {"judge", "delete"}
               /\ query_seen'[x] # None => query_seen'[x].code \in DOMAIN query_codes'
    BY <1>2, <1>5, <1>7 DEF GuessInv, GuessTyped
  <2> QED
    BY <1>2, <1>5, <2>1, <2>2, <2>3 DEF GuessInv, GuessTyped
<1>9. CASE Query!Judging # {}
  <2>1. \A n \in 1 .. m + 1 : ~Whole(n)'
    BY <1>2, <1>3, <1>9 DEF Whole
  <2> QED
    BY <1>5, <1>8, <2>1 DEF GuessInv, GuessTyped, Alone, Sound
<1>10. CASE Query!Judging = {}
  <2>1. \A x \in Request : query_seen'[x] = None
    BY <1>2, <1>10 DEF Query!Judging
  <2>2. \A i \in 1 .. m : query_codes'[i] = query_codes[i]
    BY <1>2, <1>10
  <2>3. query_codes'[m + 1] = Query!NewCode
    BY <1>2, <1>10
  <2>4. ASSUME NEW n \in 1 .. m PROVE Sound(n)'
    <3>1. query_code'.code # n
      BY <1>2
    <3> QED
      BY <1>1, <2>2, <3>1 DEF GuessInv, Sound, Whole
  <2>5. Sound(m + 1)'
    <3>1. Times(1) = CodeTTL
      BY QueryAssumption DEF Times
    <3>2. query_code'.attempts = 0 /\ query_code'.until = query_clock + Times(0 + 1)
      BY <1>2, <3>1
    <3> QED
      BY <1>3, <1>6, <2>3, <3>2, QueryAssumption DEF Sound, Times
  <2> QED
    BY <1>5, <1>8, <2>1, <2>4, <2>5 DEF GuessInv, Alone
<1> QED
  BY <1>9, <1>10

(* The key is read. When somebody has read it before, its code is disturbed. *)
LEMMA GuessReads ==
  ASSUME GuessInv, NEW r \in Request, NEW g, Query!VerifyCode(r, g)
  PROVE  GuessInv'
<1>1. /\ query_at[r] = "away" /\ Query!Live(query_code) /\ query_at' = [query_at EXCEPT ![r] = "judge"]
      /\ query_seen' = [query_seen EXCEPT ![r] = query_code]
      /\ query_codes' = IF Query!Judging = {} THEN query_codes ELSE Query!Disturb({query_code.code})
      /\ UNCHANGED <<query_clock, query_code>>
  BY DEF Query!VerifyCode, Query!Goto, Query!redis
<1>2. /\ query_code \in CodeKeys /\ query_code.code \in DOMAIN query_codes /\ query_clock < query_code.until
      /\ query_code # None
  BY <1>1 DEF Query!Live, GuessInv, GuessTyped
<1>3. /\ \A x \in Request : x # r => query_at'[x] = query_at[x] /\ query_seen'[x] = query_seen[x]
      /\ query_at'[r] = "judge" /\ query_seen'[r] = query_code /\ query_seen[r] = None
  BY <1>1 DEF GuessInv, GuessTyped
<1>4. Kept' => Kept
  BY <1>1, <1>3 DEF Kept
<1>5. CASE Query!Judging # {}
  <2>1. /\ query_codes' \in Seq(Fates) /\ DOMAIN query_codes' = DOMAIN query_codes
        /\ \A n \in DOMAIN query_codes : n = query_code.code => query_codes'[n].disturbed = TRUE
        /\ \A n \in DOMAIN query_codes : n # query_code.code => query_codes'[n] = query_codes[n]
    <3>1. GuessTyped /\ query_codes' = [n \in DOMAIN query_codes |->
                           IF n = query_code.code THEN Query!Disturbed ELSE query_codes[n]]
      BY <1>1, <1>5 DEF GuessInv, Query!Disturb
    <3> QED
      BY <3>1, Disturbing
  <2>2. GuessTyped'
    BY <1>1, <1>2, <1>3, <2>1 DEF GuessInv, GuessTyped, QuerySteps
  <2>3. ASSUME NEW x \in Request, query_seen'[x] # None, Whole(query_seen[x].code)'
        PROVE  FALSE
    <3>1. query_seen'[x].code \in DOMAIN query_codes /\ query_seen'[x].code # query_code.code
      BY <2>1, <2>2, <2>3 DEF GuessTyped, Whole
    <3>2. x # r
      BY <1>3, <3>1
    <3>3. query_seen[x] # None /\ query_seen[x].code # query_code.code /\ Whole(query_seen[x].code)
      BY <1>3, <2>1, <2>3, <3>1, <3>2 DEF Whole
    <3> QED
      BY <3>3 DEF GuessInv, Alone
  <2>4. ASSUME NEW n \in DOMAIN query_codes PROVE Sound(n)'
    <3>1. Whole(n)' => Whole(n) /\ query_codes'[n] = query_codes[n] /\ query_code.code # n
      BY <2>1 DEF Whole
    <3> QED
      BY <1>1, <3>1 DEF GuessInv, Sound
  <2> QED
    BY <2>1, <2>2, <2>3, <2>4 DEF GuessInv, Alone
<1>6. CASE Query!Judging = {}
  <2>1. query_codes' = query_codes /\ \A x \in Request : query_seen[x] = None
    BY <1>1, <1>6 DEF Query!Judging
  <2>2. GuessTyped'
    BY <1>1, <1>2, <1>3, <2>1 DEF GuessInv, GuessTyped, QuerySteps
  <2>3. \A x \in Request : query_at[x] # "delete"
    BY <2>1 DEF GuessInv, GuessTyped
  <2>4. ASSUME NEW x \in Request, query_seen'[x] # None PROVE Alone(x)'
    <3>1. x = r
      BY <1>3, <2>1, <2>4
    <3> DEFINE n == query_code.code
    <3>2. Whole(n) => query_code.until <= query_codes[n].born + Times(query_code.attempts + 1) /\ query_code.attempts < MaxAttempts
      BY <1>2, <2>3 DEF GuessInv, Sound, Kept
    <3>3. Times(query_code.attempts + 1) <= Times(MaxAttempts) \/ ~(query_code.attempts < MaxAttempts)
      BY <1>2, QueryAssumption, TimesGrow DEF CodeKeys
    <3>4. /\ query_codes[n].born \in Nat /\ query_code.until \in Nat /\ query_clock \in Nat
          /\ Times(MaxAttempts) \in Nat /\ Times(query_code.attempts + 1) \in Nat
      <4>1. query_codes[n] \in Fates
        BY <1>2, ElementOfSeq, LenProperties DEF GuessInv, GuessTyped
      <4> QED
        <5>1. query_code.until \in Nat /\ query_code.attempts + 1 \in Nat /\ query_clock \in Nat /\ query_codes[n].born \in Nat
          BY <1>2, <4>1, QueryAssumption, SMTT(20) DEF Fates, CodeKeys, GuessInv, GuessTyped
        <5>2. Times(MaxAttempts) \in Nat /\ Times(query_code.attempts + 1) \in Nat
          BY <5>1, QueryAssumption, TimesGrow
        <5> QED
          BY <5>1, <5>2
    <3>5. Whole(n) => query_clock < query_codes[n].born + Times(MaxAttempts)
      BY <1>2, <3>2, <3>3, <3>4
    <3> QED
      BY <1>1, <1>2, <1>3, <2>1, <3>1, <3>5 DEF Alone, Whole, Times
  <2>5. ASSUME NEW n \in DOMAIN query_codes PROVE Sound(n)'
    BY <1>1, <1>4, <2>1 DEF GuessInv, Sound, Whole, Times
  <2> QED
    BY <2>1, <2>2, <2>4, <2>5 DEF GuessInv, Alone
<1> QED
  BY <1>5, <1>6

(* A code with its attempts is as it was read by who judges it alone.        *)
LEMMA Judged ==
  ASSUME GuessInv, NEW r \in Request, query_at[r] = "judge"
  PROVE  /\ query_seen[r] \in CodeKeys /\ query_seen[r].code \in DOMAIN query_codes /\ query_seen[r] # None
         /\ query_codes[query_seen[r].code] \in Fates
         /\ Whole(query_seen[r].code) =>
              /\ query_code = query_seen[r] /\ query_clock < query_code.until
              /\ \A x \in Request : x # r => query_seen[x] = None
              /\ query_codes[query_seen[r].code].uses = 0
              /\ query_codes[query_seen[r].code].wrong = query_seen[r].attempts
              /\ query_seen[r].attempts < MaxAttempts
              /\ query_seen[r].until <= query_codes[query_seen[r].code].born + Times(query_seen[r].attempts + 1)
<1>1. query_seen[r] \in CodeKeys /\ query_seen[r].code \in DOMAIN query_codes /\ query_seen[r] # None
  BY DEF GuessInv, GuessTyped
<1>2. query_codes[query_seen[r].code] \in Fates
  BY <1>1, ElementOfSeq, LenProperties DEF GuessInv, GuessTyped
<1>3. ASSUME Whole(query_seen[r].code)
      PROVE  /\ query_code = query_seen[r] /\ query_clock < query_code.until
             /\ \A x \in Request : x # r => query_seen[x] = None
             /\ Kept
  <2>1. /\ query_code = query_seen[r] /\ query_clock < query_code.until
        /\ \A x \in Request : x # r => query_seen[x] = None
    BY <1>1, <1>3 DEF GuessInv, Alone
  <2>2. \A x \in Request : query_at[x] # "delete"
    BY <2>1 DEF GuessInv, GuessTyped
  <2> QED
    BY <1>1, <2>1, <2>2 DEF Kept
<1>4. Sound(query_seen[r].code)
  BY <1>1 DEF GuessInv
<1> QED
  BY <1>1, <1>2, <1>3, <1>4 DEF Sound

(* A right guess, after which the code is to be deleted.                     *)
LEMMA GuessAccepts ==
  ASSUME GuessInv, NEW r \in Request, Query!Accept(r)
  PROVE  GuessInv'
<1> DEFINE n == query_seen[r].code
           fate == [query_codes[n] EXCEPT !.uses = @ + 1]
<1>1. /\ query_at[r] = "judge" /\ query_at' = [query_at EXCEPT ![r] = "delete"]
      /\ query_codes' = IF query_codes[n].disturbed THEN query_codes ELSE [query_codes EXCEPT ![n] = fate]
      /\ UNCHANGED <<query_clock, query_code, query_seen>>
  BY DEF Query!Accept, Query!Goto, Query!Note, Query!Mine, Query!redis
<1>2. /\ query_seen[r] \in CodeKeys /\ n \in DOMAIN query_codes /\ query_seen[r] # None
      /\ query_codes[n] \in Fates
  BY <1>1, Judged
<1>3. Whole(n) => /\ query_code = query_seen[r] /\ query_clock < query_code.until
                  /\ \A x \in Request : x # r => query_seen[x] = None
                  /\ query_codes[n].uses = 0
                  /\ query_codes[n].wrong = query_seen[r].attempts
                  /\ query_seen[r].attempts < MaxAttempts
                  /\ query_seen[r].until <= query_codes[n].born + Times(query_seen[r].attempts + 1)
  BY <1>1, Judged
<1>4. /\ fate \in Fates /\ fate.uses = query_codes[n].uses + 1 /\ fate.wrong = query_codes[n].wrong
      /\ fate.disturbed = query_codes[n].disturbed /\ fate.born = query_codes[n].born
  BY <1>2 DEF Fates
<1> HIDE DEF fate
<1>5. /\ query_codes' \in Seq(Fates) /\ DOMAIN query_codes' = DOMAIN query_codes
      /\ \A i \in DOMAIN query_codes : i # n => query_codes'[i] = query_codes[i]
      /\ Whole(n) => query_codes'[n] = fate
      /\ ~Whole(n) => query_codes' = query_codes
      /\ \A i \in DOMAIN query_codes : Whole(i)' <=> Whole(i)
  <2>1. query_codes \in Seq(Fates) /\ query_codes[n].disturbed \in BOOLEAN
    BY <1>2 DEF GuessInv, GuessTyped, Fates
  <2>2. CASE Whole(n)
    <3>1. query_codes' = [query_codes EXCEPT ![n] = fate]
      BY <1>1, <2>2 DEF Whole
    <3>2. /\ query_codes' \in Seq(Fates) /\ DOMAIN query_codes' = DOMAIN query_codes
          /\ \A i \in DOMAIN query_codes : query_codes'[i] = IF i = n THEN fate ELSE query_codes[i]
      BY <1>2, <1>4, <2>1, <3>1, ExceptSeq, LenProperties
    <3>3. \A i \in DOMAIN query_codes : Whole(i)' <=> Whole(i)
      BY <1>2, <1>4, <2>2, <3>2 DEF Whole
    <3> QED
      BY <1>2, <2>2, <3>2, <3>3
  <2>3. CASE ~Whole(n)
    <3>1. query_codes' = query_codes
      BY <1>1, <1>2, <2>1, <2>3 DEF Whole
    <3> QED
      BY <2>1, <2>3, <3>1 DEF Whole
  <2> QED
    BY <2>2, <2>3
<1>6. /\ \A x \in Request : x # r => query_at'[x] = query_at[x]
      /\ query_at'[r] = "delete"
  BY <1>1 DEF GuessInv, GuessTyped
<1>7. GuessTyped'
  BY <1>1, <1>2, <1>5, <1>6 DEF GuessInv, GuessTyped, QuerySteps
<1>8. Whole(n) => query_clock < query_codes[n].born + Times(MaxAttempts)
  BY <1>1, <1>2 DEF GuessInv, Alone
<1>9. ASSUME NEW x \in Request, query_seen[x] # None, Whole(query_seen[x].code)
      PROVE  Alone(x)'
  <2>1. x = r
    BY <1>2, <1>9 DEF GuessInv, Alone
  <2>2. query_codes'[n] = fate
    BY <1>5, <1>9, <2>1
  <2> QED
    BY <1>1, <1>2, <1>3, <1>4, <1>6, <1>8, <1>9, <2>1, <2>2 DEF Alone, Times
<1>10. \A x \in Request : Alone(x)'
  <2>1. ASSUME NEW x \in Request, ~(query_seen[x] # None /\ Whole(query_seen[x].code)) PROVE Alone(x)'
    <3>1. query_seen[x] # None => query_seen[x].code \in DOMAIN query_codes
      BY DEF GuessInv, GuessTyped
    <3> QED
      BY <1>1, <1>5, <2>1, <3>1 DEF Alone, Whole
  <2> QED
    BY <1>9, <2>1
<1>11. ASSUME NEW i \in DOMAIN query_codes, Whole(i) PROVE Sound(i)'
  <2>1. CASE i = n
    <3>1. ~(Kept' /\ query_code'.code = n)
      BY <1>1, <1>6 DEF Kept
    <3>2. query_codes[n].uses + 1 + query_codes[n].wrong <= MaxAttempts
      BY <1>2, <1>3, <1>11, <2>1, QueryAssumption DEF CodeKeys
    <3>3. query_codes'[n].uses + query_codes'[n].wrong <= MaxAttempts /\ query_codes'[n].uses <= 1
      BY <1>3, <1>4, <1>5, <1>11, <2>1, <3>2
    <3> QED
      BY <2>1, <3>1, <3>3 DEF Sound
  <2>2. CASE i # n
    <3>1. Kept' /\ query_code'.code = i => Kept /\ query_code.code = i
      BY <1>1, <1>6 DEF Kept
    <3> QED
      BY <1>1, <1>5, <2>2, <3>1 DEF GuessInv, Sound, Times
  <2> QED
    BY <2>1, <2>2
<1>12. ASSUME NEW i \in DOMAIN query_codes, ~Whole(i) PROVE Sound(i)'
  BY <1>5, <1>12 DEF Sound
<1> QED
  BY <1>5, <1>7, <1>10, <1>11, <1>12 DEF GuessInv

(* A wrong guess, after which the code lives on or is to be deleted.         *)
LEMMA GuessMisses ==
  ASSUME GuessInv, NEW r \in Request, Query!WrongGuess(r)
  PROVE  GuessInv'
<1>0. PICK n, fate, data :
        /\ n = query_seen[r].code /\ fate = [query_codes[n] EXCEPT !.wrong = @ + 1]
        /\ data = [query_seen[r] EXCEPT !.attempts = @ + 1, !.until = query_clock + CodeTTL]
  OBVIOUS
<1>1. /\ query_at[r] = "judge" /\ UNCHANGED query_clock
      /\ ~(query_seen[r].attempts >= MaxAttempts)
      /\ IF data.attempts < MaxAttempts
         THEN /\ query_at' = [query_at EXCEPT ![r] = "away"] /\ query_seen' = [query_seen EXCEPT ![r] = None]
         ELSE /\ query_at' = [query_at EXCEPT ![r] = "delete"] /\ query_seen' = query_seen
  BY <1>0 DEF Query!WrongGuess, Query!Goto, Query!Return, Query!Spent
<1>2. /\ query_seen[r] \in CodeKeys /\ n \in DOMAIN query_codes /\ query_seen[r] # None
      /\ query_codes[n] \in Fates
  BY <1>0, <1>1, Judged
<1>3. CASE UNCHANGED query_code /\ query_codes' = Query!Disturb({n})
  <2>1. query_codes' = Query!Disturb({query_seen[r].code})
    BY <1>0, <1>3
  <2> QED
    BY <1>1, <1>2, <1>3, <2>1, GuessFails
<1>4. CASE /\ query_code' = data
           /\ query_codes' = IF query_codes[n].disturbed THEN query_codes ELSE [query_codes EXCEPT ![n] = fate]
  <2>1. Whole(n) => /\ query_code = query_seen[r] /\ query_clock < query_code.until
                    /\ \A x \in Request : x # r => query_seen[x] = None
                    /\ query_codes[n].uses = 0
                    /\ query_codes[n].wrong = query_seen[r].attempts
                    /\ query_seen[r].attempts < MaxAttempts
                    /\ query_seen[r].until <= query_codes[n].born + Times(query_seen[r].attempts + 1)
    BY <1>0, <1>1, Judged
  <2>2. /\ fate \in Fates /\ fate.wrong = query_codes[n].wrong + 1 /\ fate.uses = query_codes[n].uses
        /\ fate.disturbed = query_codes[n].disturbed /\ fate.born = query_codes[n].born
    BY <1>0, <1>2 DEF Fates
  <2>3. /\ data \in CodeKeys /\ data.code = n /\ data.attempts = query_seen[r].attempts + 1
        /\ data.until = query_clock + CodeTTL
    <3>1. data = [code |-> n, attempts |-> query_seen[r].attempts + 1, until |-> query_clock + CodeTTL]
      BY <1>0, <1>2 DEF CodeKeys
    <3>2. query_clock + CodeTTL \in Nat /\ query_seen[r].attempts + 1 \in Nat /\ n \in Nat
      BY <1>0, <1>2, QueryAssumption DEF CodeKeys, GuessInv, GuessTyped
    <3> QED
      BY <3>1, <3>2 DEF CodeKeys
  <2>4. /\ query_codes' \in Seq(Fates) /\ DOMAIN query_codes' = DOMAIN query_codes
        /\ \A i \in DOMAIN query_codes : i # n => query_codes'[i] = query_codes[i]
        /\ Whole(n) => query_codes'[n] = fate
        /\ \A i \in DOMAIN query_codes : Whole(i)' <=> Whole(i)
    <3>1. query_codes \in Seq(Fates) /\ query_codes[n].disturbed \in BOOLEAN
      BY <1>2 DEF GuessInv, GuessTyped, Fates
    <3>2. CASE Whole(n)
      <4>1. query_codes' = [query_codes EXCEPT ![n] = fate]
        BY <1>4, <3>2 DEF Whole
      <4>2. /\ query_codes' \in Seq(Fates) /\ DOMAIN query_codes' = DOMAIN query_codes
            /\ \A i \in DOMAIN query_codes : query_codes'[i] = IF i = n THEN fate ELSE query_codes[i]
        BY <1>2, <2>2, <3>1, <4>1, ExceptSeq, LenProperties
      <4>3. \A i \in DOMAIN query_codes : Whole(i)' <=> Whole(i)
        BY <1>2, <2>2, <3>2, <4>2 DEF Whole
      <4> QED
        BY <1>2, <3>2, <4>2, <4>3
    <3>3. CASE ~Whole(n)
      <4>1. query_codes' = query_codes
        BY <1>2, <1>4, <3>1, <3>3 DEF Whole
      <4> QED
        BY <3>1, <3>3, <4>1 DEF Whole
    <3> QED
      BY <3>2, <3>3
  <2>5. /\ \A x \in Request : x # r => query_at'[x] = query_at[x] /\ query_seen'[x] = query_seen[x]
        /\ IF data.attempts < MaxAttempts THEN query_at'[r] = "away" /\ query_seen'[r] = None
           ELSE query_at'[r] = "delete" /\ query_seen'[r] = query_seen[r]
    BY <1>1 DEF GuessInv, GuessTyped
  <2>6. GuessTyped'
    <3>1. query_at' \in [Request -> QuerySteps] /\ query_seen' \in [Request -> CodeKeys \cup {None}]
      BY <1>1 DEF GuessInv, GuessTyped, QuerySteps
    <3>2. ASSUME NEW x \in Request
          PROVE  /\ query_seen'[x] # None <=> query_at'[x] \in {"judge", "delete"}
                 /\ query_seen'[x] # None => query_seen'[x].code \in DOMAIN query_codes'
      BY <1>2, <2>4, <2>5 DEF GuessInv, GuessTyped
    <3> QED
      BY <1>1, <1>2, <1>4, <2>3, <2>4, <3>1, <3>2 DEF GuessInv, GuessTyped
  <2>7. query_clock \in Nat /\ CodeTTL \in Nat \ {0} /\ query_code' # None
    BY <1>4, <2>3, QueryAssumption DEF GuessInv, GuessTyped, CodeKeys
  <2>8. Whole(n) => query_clock < query_codes[n].born + Times(MaxAttempts)
    BY <1>0, <1>1, <1>2 DEF GuessInv, Alone
  <2>9. ASSUME NEW x \in Request PROVE Alone(x)'
    <3>1. CASE x # r
      <4>1. query_seen[x] # None => query_seen[x].code \in DOMAIN query_codes
        BY DEF GuessInv, GuessTyped
      <4>2. ~(query_seen[x] # None /\ Whole(query_seen[x].code))
        BY <1>0, <1>2, <3>1 DEF GuessInv, Alone
      <4> QED
        BY <2>4, <2>5, <3>1, <4>1, <4>2 DEF Alone, Whole
    <3>2. CASE x = r
      <4>1. SUFFICES ASSUME query_seen'[r] # None, Whole(n)' PROVE Alone(r)'
        BY <1>0, <2>5, <3>2 DEF Alone, Whole
      <4>2. Whole(n) /\ query_codes'[n] = fate
        BY <1>2, <2>4, <4>1
      <4>3. query_seen'[r] = query_seen[r] /\ query_at'[r] = "delete"
        BY <2>5, <4>1
      <4>4. \A y \in Request : y # r => query_seen'[y] = None
        BY <2>1, <2>5, <4>2
      <4>5. query_clock < data.until
        BY <2>3, <2>7
      <4> QED
        BY <1>0, <1>1, <1>4, <2>2, <2>3, <2>7, <2>8, <4>2, <4>3, <4>4, <4>5 DEF Alone, Times
    <3> QED
      BY <3>1, <3>2
  <2>10. ASSUME NEW i \in DOMAIN query_codes, Whole(i), i # n PROVE Sound(i)'
    BY <1>4, <2>3, <2>4, <2>10 DEF GuessInv, Sound
  <2>11. ASSUME Whole(n) PROVE Sound(n)'
    <3>1. query_codes'[n] = fate
      BY <2>4, <2>11
    <3>2. /\ query_codes[n].uses = 0 /\ query_codes[n].wrong \in Nat /\ query_codes[n].born \in Nat
          /\ query_seen[r].attempts \in Nat /\ query_seen[r].until \in Nat /\ MaxAttempts \in Nat
      BY <1>2, <2>1, <2>11, QueryAssumption DEF CodeKeys, Fates
    <3>3. fate.uses = 0 /\ fate.wrong = data.attempts /\ data.attempts <= MaxAttempts
      BY <2>1, <2>2, <2>3, <2>11, <3>2
    <3>4. Kept' => data.attempts < MaxAttempts
      BY <1>0, <1>2, <1>4, <2>3, <2>5 DEF Kept
    <3>5. data.until <= query_codes[n].born + Times(data.attempts + 1)
      <4>1. Times(data.attempts + 1) = Times(query_seen[r].attempts + 1) + CodeTTL
        BY <2>3, <3>2, TimesGrow
      <4>2. Times(query_seen[r].attempts + 1) \in Nat
        BY <3>2, TimesGrow
      <4>3. query_clock < query_seen[r].until /\ query_seen[r].until <= query_codes[n].born + Times(query_seen[r].attempts + 1)
        BY <2>1, <2>11
      <4> QED
        BY <2>3, <2>7, <3>2, <4>1, <4>2, <4>3
    <3>6. fate.uses + fate.wrong <= MaxAttempts
      BY <2>3, <3>2, <3>3
    <3> QED
      <4>1. query_codes'[n].born = query_codes[n].born /\ Times(data.attempts + 1)' = Times(data.attempts + 1)
        BY <2>2, <3>1 DEF Times
      <4>2. /\ query_codes'[n].uses + query_codes'[n].wrong <= MaxAttempts /\ query_codes'[n].uses <= 1
            /\ query_codes'[n].uses = 0 /\ query_codes'[n].wrong = data.attempts
        BY <3>1, <3>3, <3>6
      <4> HIDE DEF Times
      <4>3. query_code' = data
        BY <1>4
      <4> QED
        BY <3>4, <3>5, <4>1, <4>2, <4>3 DEF Sound
  <2>12. ASSUME NEW i \in DOMAIN query_codes, ~Whole(i) PROVE Sound(i)'
    BY <2>4, <2>12 DEF Sound
  <2> QED
    <3>1. \A i \in DOMAIN query_codes' : Sound(i)'
      BY <1>2, <2>4, <2>10, <2>11, <2>12
    <3> QED
      BY <2>6, <2>9, <3>1 DEF GuessInv
<1> QED
  BY <1>0, <1>3, <1>4 DEF Query!WrongGuess, Query!Note, Query!Mine

(* Every step of a request keeps it, and so does the time.                   *)
LEMMA GuessNext == GuessInv /\ [Query!Next]_query_vars => GuessInv'
<1> SUFFICES ASSUME GuessInv, [Query!Next]_query_vars PROVE GuessInv'
  OBVIOUS
<1>1. CASE UNCHANGED query_vars
  BY <1>1 DEF query_vars, GuessInv, GuessTyped, Alone, Sound, Whole, Kept, Times
<1>2. CASE Query!Tick
  <2>1. /\ query_clock < QueryTime /\ query_clock' = query_clock + 1
        /\ \A r \in Request : query_at[r] = "away"
        /\ UNCHANGED <<query_code, query_at, query_seen, query_codes>>
    BY <1>2 DEF Query!Tick, Query!redis, Query!requests, Query!ghosts
  <2>2. \A r \in Request : query_seen[r] = None
    BY <2>1 DEF GuessInv, GuessTyped
  <2>3. GuessTyped'
    BY <2>1, QueryAssumption DEF GuessInv, GuessTyped
  <2>4. ASSUME NEW n \in DOMAIN query_codes PROVE Sound(n)'
    <3>1. Kept' <=> Kept
      BY <2>1 DEF Kept
    <3> QED
      BY <2>1, <3>1 DEF GuessInv, Sound, Whole, Times
  <2> QED
    BY <2>1, <2>2, <2>3, <2>4 DEF GuessInv, Alone
<1>3. CASE \E r \in Request : Query!Step(r)
  <2>1. PICK r \in Request : Query!Step(r)
    BY <1>3
  <2> USE DEF Query!redis, Query!requests, Query!ghosts
  <2>2. CASE Query!RequestVerifyCode(r)
    <3>1. query_at[r] = "away" /\ query_at' = [query_at EXCEPT ![r] = "email"]
          /\ UNCHANGED <<query_clock, query_code, query_seen, query_codes>>
      BY <2>2 DEF Query!RequestVerifyCode, Query!Goto
    <3> QED
      BY <3>1, GuessAside DEF QuerySteps
  <2>3. CASE \E l \in Query!Limit : Query!Incr(r, l) \/ Query!IncrFails(r, l) \/ Query!Expire(r, l)
    <3>1. PICK l \in {"email", "ip"} : Query!Incr(r, l) \/ Query!IncrFails(r, l) \/ Query!Expire(r, l)
      BY <2>3 DEF Query!Limit
    <3>2. UNCHANGED <<query_clock, query_code, query_codes>> /\ (query_at[r] = l \/ query_at[r] = Query!Expiring[l])
      BY <3>1 DEF Query!Incr, Query!IncrBy, Query!IncrFails, Query!Expire
    <3>3. \E s \in {"away", Query!Expiring[l], Query!After(l)} :
             /\ query_at' = [query_at EXCEPT ![r] = s]
             /\ query_seen' = query_seen \/ query_seen' = [query_seen EXCEPT ![r] = None]
      BY <3>1 DEF Query!Incr, Query!IncrBy, Query!IncrFails, Query!Expire, Query!Goto, Query!Return
    <3>4. /\ Query!Expiring[l] \in {"expire email", "expire ip"} /\ l \in {"email", "ip"}
          /\ Query!After(l) \in {"ip", "save"}
      BY ExpiringIs DEF Query!After
    <3> QED
      BY <3>2, <3>3, <3>4, GuessAside DEF QuerySteps
  <2>4. CASE Query!SaveCode(r)
    BY <2>4, GuessSaves
  <2>5. CASE Query!SaveCodeFails(r)
    <3>1. query_at[r] = "save" /\ query_at' = [query_at EXCEPT ![r] = "away"]
          /\ query_seen' = [query_seen EXCEPT ![r] = None] /\ UNCHANGED <<query_clock, query_code, query_codes>>
      BY <2>5 DEF Query!SaveCodeFails, Query!Return, Query!Goto
    <3> QED
      BY <3>1, GuessAside DEF QuerySteps
  <2>6. CASE Query!SetCooldown(r)
    <3>1. query_at[r] = "cool" /\ query_at' = [query_at EXCEPT ![r] = "away"]
          /\ query_seen' = [query_seen EXCEPT ![r] = None] /\ UNCHANGED <<query_clock, query_code, query_codes>>
      BY <2>6 DEF Query!SetCooldown, Query!Return, Query!Goto
    <3> QED
      BY <3>1, GuessAside DEF QuerySteps
  <2>7. CASE \E g \in 0 .. Len(query_codes) : Query!VerifyCode(r, g)
    BY <2>7, GuessReads
  <2>8. CASE Query!TooManyAttempts(r) \/ Query!DeleteCode(r)
    <3>1. /\ query_at[r] \in {"judge", "delete"} /\ query_at' = [query_at EXCEPT ![r] = "away"]
          /\ query_seen' = [query_seen EXCEPT ![r] = None] /\ UNCHANGED query_clock
          /\ \/ query_code' = None /\ UNCHANGED query_codes
             \/ UNCHANGED query_code /\ query_codes' = Query!Disturb({query_seen[r].code})
      BY <2>8 DEF Query!TooManyAttempts, Query!DeleteCode, Query!Return, Query!Goto, Query!Unless,
                  Query!Delete, Query!Mine
    <3>2. query_seen[r] # None
      BY <3>1 DEF GuessInv, GuessTyped
    <3> QED
      BY <3>1, <3>2, GuessDeletes, GuessFails
  <2>9. CASE Query!Accept(r)
    BY <2>9, GuessAccepts
  <2>10. CASE Query!WrongGuess(r)
    BY <2>10, GuessMisses
  <2> QED
    BY <2>1, <2>2, <2>3, <2>4, <2>5, <2>6, <2>7, <2>8, <2>9, <2>10 DEF Query!Step
<1> QED
  BY <1>1, <1>2, <1>3 DEF Query!Next

(* The property of the codes, from their invariant.                          *)
LEMMA GuessSafe == GuessInv => Query!GuessesBounded
<1> SUFFICES ASSUME GuessInv, NEW n \in DOMAIN query_codes, ~query_codes[n].disturbed
             PROVE  /\ query_codes[n].uses + query_codes[n].wrong <= MaxAttempts
                    /\ query_codes[n].uses <= 1
                    /\ Query!Live(query_code) /\ query_code.code = n =>
                         query_clock < query_codes[n].born + MaxAttempts * CodeTTL
  BY DEF Query!GuessesBounded
<1>1. query_codes[n] \in Fates
  BY ElementOfSeq, LenProperties DEF GuessInv, GuessTyped
<1>2. Whole(n) /\ Sound(n)
  BY <1>1 DEF Whole, Fates, GuessInv
<1>3. ASSUME Query!Live(query_code), query_code.code = n
      PROVE  query_clock < query_codes[n].born + Times(MaxAttempts)
  <2>1. query_code # None /\ query_clock < query_code.until /\ query_code \in CodeKeys
    BY <1>3 DEF Query!Live, GuessInv, GuessTyped
  <2>2. CASE Kept
    <3>1. query_code.attempts < MaxAttempts /\ query_code.until <= query_codes[n].born + Times(query_code.attempts + 1)
      BY <1>2, <1>3, <2>2 DEF Sound
    <3>2. query_code.attempts + 1 \in Nat /\ query_code.attempts + 1 <= MaxAttempts /\ MaxAttempts \in Nat
      BY <2>1, <3>1, QueryAssumption DEF CodeKeys
    <3>3. /\ Times(query_code.attempts + 1) <= Times(MaxAttempts)
          /\ Times(query_code.attempts + 1) \in Nat /\ Times(MaxAttempts) \in Nat
      BY <3>2, TimesGrow
    <3>4. query_clock \in Nat /\ query_code.until \in Nat /\ query_codes[n].born \in Nat
      BY <1>1, <2>1, QueryAssumption DEF CodeKeys, Fates, GuessInv, GuessTyped
    <3> QED
      BY <2>1, <3>1, <3>3, <3>4
  <2>3. CASE ~Kept
    <3>1. PICK r \in Request : query_at[r] = "delete" /\ query_seen[r].code = n
      BY <1>3, <2>1, <2>3 DEF Kept
    <3>2. query_seen[r] # None
      BY <3>1 DEF GuessInv, GuessTyped
    <3> QED
      BY <1>2, <3>1, <3>2 DEF GuessInv, Alone
  <2> QED
    BY <2>2, <2>3
<1> QED
  BY <1>2, <1>3 DEF Sound, Times

-----------------------------------------------------------------------------
(***************************************************************************)
(* IpLimiter. A bucket and the one that was never removed may differ in    *)
(* what they have stored, never in the tokens they can give.               *)
(***************************************************************************)

BucketKinds == {"pre", "post", "global"}
BucketKeys == [tokens : Nat, last : Nat, lastSeen : Nat]
Gain(k, n) == Rate[k] * n

AddressTyped ==
  /\ address_tick \in Nat /\ address_cleaned \in Nat /\ address_closed \in BOOLEAN
  /\ address_buckets \in [BucketKinds -> [IP -> BucketKeys \cup {None}]]
  /\ address_ideal \in [BucketKinds -> [IP -> BucketKeys]]
  /\ address_authenticatedIPs \in [IP -> Nat \cup {None}]
  /\ address_proved \in [IP -> Nat \cup {None}]
  /\ address_stage \in [Request -> {"away", "smart", "pre", "post", "global", "ask pre", "ask post",
                                    "ask global", "admitted", "public"}]
  /\ address_from \in [Request -> IP \cup {None}]
  /\ address_authenticated \in [Request -> BOOLEAN]

\* A bucket and its ideal give the same tokens; the bucket has been seen when it was last asked.
BucketFair(k, i) ==
  LET b == address_buckets[k][i] c == address_ideal[k][i] IN
  /\ c.last <= address_tick /\ c.tokens <= Capacity[k]
  /\ b = None => Capacity[k] <= c.tokens + Gain(k, address_tick - c.last)
  /\ b # None => /\ b.last <= b.lastSeen /\ b.lastSeen <= address_tick /\ b.tokens <= Capacity[k]
                 /\ Address!Tokens(k, b) = Address!Tokens(k, c)
BucketsFair == \A k \in BucketKinds, i \in IP : BucketFair(k, i)

\* The cleanup is not late, and who it has left in its list is known since MaxAge before it.
CleanupInTime ==
  address_closed = FALSE =>
    /\ address_cleaned % Interval = 0 /\ address_cleaned <= address_tick
    /\ address_tick - address_cleaned <= Interval
    /\ \A i \in IP : address_authenticatedIPs[i] # None =>
         /\ address_authenticatedIPs[i] <= address_tick
         /\ address_cleaned - address_authenticatedIPs[i] <= MaxAge["pre"]

AddressKnown ==
  \A i \in IP : address_authenticatedIPs[i] # None =>
    address_proved[i] = address_authenticatedIPs[i]

\* A request has an address, the bucket it asks was seen in this tick, the strict bucket is for
\* who was not known, and the lenient one for who has authenticated.
AskOf(k) == IF k = "pre" THEN "ask pre" ELSE IF k = "post" THEN "ask post" ELSE "ask global"
HasAddress(r) == address_stage[r] # "away" => address_from[r] \in IP
HasBucket(r) ==
  \A k \in BucketKinds : address_stage[r] = AskOf(k) =>
    /\ address_buckets[k][address_from[r]] # None
    /\ address_buckets[k][address_from[r]].lastSeen = address_tick
WasUnknown(r) == address_stage[r] \in {"pre", "ask pre"} => address_authenticated[r] = FALSE
Lenient(r) == address_stage[r] \in {"post", "ask post"} \/ (address_stage[r] = "admitted" /\ address_authenticated[r] = TRUE)
HasEarned(i) == /\ address_proved[i] # None
                /\ address_closed = TRUE \/ address_tick - address_proved[i] <= MaxAge["pre"] + Interval
OnItsWay(r) == HasAddress(r) /\ HasBucket(r) /\ WasUnknown(r) /\ (Lenient(r) => HasEarned(address_from[r]))

AddressInv == /\ AddressTyped /\ BucketsFair /\ CleanupInTime /\ AddressKnown
              /\ \A r \in Request : OnItsWay(r)

(* The lesser of two numbers.                                                *)
LEMMA AddressLesser ==
  ASSUME NEW a \in Int, NEW b \in Int
  PROVE  Address!Min({a, b}) = IF a <= b THEN a ELSE b
BY DEF Address!Min

(* What comes back grows with the time.                                      *)
LEMMA GainGrows ==
  ASSUME NEW k \in BucketKinds, NEW m \in Nat, NEW n \in Nat
  PROVE  /\ Gain(k, m) \in Nat /\ Gain(k, 0) = 0 /\ Gain(k, m + 1) = Gain(k, m) + Rate[k]
         /\ m <= n => Gain(k, m) <= Gain(k, n)
         /\ Rate[k] \in Nat /\ Capacity[k] \in Nat /\ MaxAge[k] \in Nat
         /\ Capacity[k] <= Gain(k, MaxAge[k] + 1)
<1>1. Rate[k] \in Nat /\ Capacity[k] \in Nat /\ MaxAge[k] \in Nat /\ Capacity[k] <= Rate[k] * (MaxAge[k] + 1)
  BY AddressAssumption DEF BucketKinds
<1>2. Rate[k] * m \in Nat /\ Rate[k] * 0 = 0 /\ Rate[k] * (m + 1) = Rate[k] * m + Rate[k]
  BY <1>1
<1>3. ASSUME m <= n PROVE Rate[k] * m <= Rate[k] * n
  BY <1>1, <1>3
<1> QED
  BY <1>1, <1>2, <1>3 DEF Gain

(* The tokens of a bucket, with the burst as their bound.                    *)
LEMMA TokensAre ==
  ASSUME NEW k \in BucketKinds, NEW b \in BucketKeys, address_tick \in Nat, b.last <= address_tick
  PROVE  /\ Gain(k, address_tick - b.last) \in Nat /\ b.tokens \in Nat /\ address_tick - b.last \in Nat
         /\ Address!Tokens(k, b) = IF Capacity[k] <= b.tokens + Gain(k, address_tick - b.last) THEN Capacity[k]
                                   ELSE b.tokens + Gain(k, address_tick - b.last)
         /\ Address!Tokens(k, b) \in Nat /\ Address!Tokens(k, b) <= Capacity[k]
<1>1. b.tokens \in Nat /\ b.last \in Nat /\ address_tick - b.last \in Nat
  BY DEF BucketKeys
<1>2. Gain(k, address_tick - b.last) \in Nat /\ Capacity[k] \in Nat
  BY <1>1, GainGrows
<1>3. Address!Tokens(k, b) = Address!Min({Capacity[k], b.tokens + Gain(k, address_tick - b.last)})
  BY DEF Address!Tokens, Gain
<1>4. Address!Tokens(k, b) = IF Capacity[k] <= b.tokens + Gain(k, address_tick - b.last) THEN Capacity[k]
                             ELSE b.tokens + Gain(k, address_tick - b.last)
  BY <1>1, <1>2, <1>3, AddressLesser
<1> QED
  BY <1>1, <1>2, <1>4

(* Division with a remainder, and a later time with the remainder zero.      *)
LEMMA Quotients ==
  ASSUME NEW a \in Nat, NEW n \in Nat \ {0}
  PROVE  a = n * (a \div n) + (a % n) /\ a % n \in 0 .. n - 1 /\ a \div n \in Int
OBVIOUS

(* No multiple lies strictly between zero and n.                             *)
LEMMA OnlyZero ==
  ASSUME NEW z \in Int, NEW n \in Nat \ {0}, NEW m \in 0 .. n - 1, n * z = m
  PROVE  m = 0
<1>1. CASE z = 0
  BY <1>1
<1>2. CASE z >= 1
  <2>1. n * z >= n
    BY <1>2
  <2> QED
    BY <2>1
<1>3. CASE z <= -1
  <2>1. n * z <= -n
    BY <1>3
  <2> QED
    BY <2>1
<1> QED
  BY <1>1, <1>2, <1>3

(* The multiple after a multiple.                                            *)
LEMMA NextMultiple ==
  ASSUME NEW a \in Nat, NEW n \in Nat \ {0}, a % n = 0
  PROVE  (a + n) % n = 0
<1> DEFINE q == a \div n
           d == (a + n) \div n
           m == (a + n) % n
<1>1. a = n * q /\ q \in Int
  BY Quotients
<1>2. a + n \in Nat
  OBVIOUS
<1>3. a + n = n * d + m /\ d \in Int /\ m \in 0 .. n - 1
  BY <1>2, Quotients
<1> HIDE DEF q, d, m
<1>4. n * (q + 1 - d) = m
  <2>1. n * (q + 1 - d) = n * q + n - n * d
    BY <1>1, <1>3
  <2>2. n * q \in Int /\ n * d \in Int
    BY <1>1, <1>3
  <2> QED
    BY <1>1, <1>3, <2>1, <2>2
<1>5. m = 0
  BY <1>1, <1>3, <1>4, OnlyZero
<1> QED
  BY <1>5 DEF m

(* Every bucket is full at first, and no address is known.                   *)
LEMMA AddressInit == Address!Init => AddressInv
<1> SUFFICES ASSUME Address!Init PROVE AddressInv
  OBVIOUS
<1>1. /\ address_tick = 0 /\ address_cleaned = 0 /\ address_closed = FALSE
      /\ address_buckets = [k \in BucketKinds |-> [i \in IP |-> None]]
      /\ address_authenticatedIPs = [i \in IP |-> None]
      /\ address_stage = [r \in Request |-> "away"] /\ address_from = [r \in Request |-> None]
      /\ address_authenticated = [r \in Request |-> FALSE]
      /\ address_ideal = [k \in BucketKinds |-> [i \in IP |-> [tokens |-> Capacity[k], last |-> 0, lastSeen |-> 0]]]
      /\ address_proved = [i \in IP |-> None]
  BY DEF Address!Init, Address!Kind, Address!Full, BucketKinds
<1>2. \A k \in BucketKinds : Capacity[k] \in Nat
  BY AddressAssumption DEF BucketKinds
<1>3. AddressTyped
  BY <1>1, <1>2 DEF AddressTyped, BucketKeys
<1>4. BucketsFair
  <2> SUFFICES ASSUME NEW k \in BucketKinds, NEW i \in IP PROVE BucketFair(k, i)
    BY DEF BucketsFair
  <2>1. address_buckets[k][i] = None /\ address_ideal[k][i] = [tokens |-> Capacity[k], last |-> 0, lastSeen |-> 0]
    BY <1>1
  <2>2. Gain(k, 0) = 0
    BY GainGrows
  <2>3. Gain(k, address_tick - 0) = 0
    BY <1>1, <2>2
  <2> QED
    BY <1>1, <1>2, <2>1, <2>3 DEF BucketFair
<1>5. CleanupInTime /\ AddressKnown
  BY <1>1, AddressAssumption DEF CleanupInTime, AddressKnown
<1>6. ASSUME NEW r \in Request PROVE OnItsWay(r)
  BY <1>1 DEF OnItsWay, HasAddress, HasBucket, WasUnknown, Lenient, AskOf
<1> QED
  BY <1>3, <1>4, <1>5, <1>6 DEF AddressInv

(* A bucket whose content stays gives the same tokens, and so does its ideal. *)
LEMMA FairStill ==
  ASSUME NEW k \in BucketKinds, NEW i \in IP, BucketFair(k, i),
         address_buckets'[k][i] = address_buckets[k][i], address_ideal'[k][i] = address_ideal[k][i],
         address_tick' = address_tick
  PROVE  BucketFair(k, i)'
BY DEF BucketFair, Gain, Address!Tokens, Address!Min

(* What a request asks its bucket with.                                      *)
LEMMA AskingIs ==
  /\ \A k \in BucketKinds : Address!Asking[k] = AskOf(k)
  /\ \A k, m \in BucketKinds : AskOf(k) = AskOf(m) => k = m
BY DEF BucketKinds, AskOf, Address!Asking

(* A bucket can be asked, and an address that has just authenticated has earned its own. *)
LEMMA AddressFacts ==
  ASSUME AddressInv
  PROVE  /\ address_tick \in Nat /\ None \notin Nat /\ None \notin BucketKeys
         /\ MaxAge["pre"] \in Nat /\ Interval \in Nat /\ MaxAge["pre"] + Interval \in Nat
<1>1. MaxAge["pre"] \in Nat /\ Interval \in Nat
  BY AddressAssumption
<1>2. None \notin Nat /\ None \notin BucketKeys
  BY AddressAssumption, GatewayAssumption DEF BucketKeys
<1>3. address_tick \in Nat
  BY DEF AddressInv, AddressTyped
<1> QED
  BY <1>1, <1>2, <1>3

(* The buckets of an address.                                                *)
LEMMA BucketTypes ==
  ASSUME AddressInv, NEW k \in BucketKinds, NEW i \in IP
  PROVE  address_ideal[k][i] \in BucketKeys /\ address_buckets[k][i] \in BucketKeys \cup {None}
<1>1. /\ address_buckets \in [BucketKinds -> [IP -> BucketKeys \cup {None}]]
      /\ address_ideal \in [BucketKinds -> [IP -> BucketKeys]]
  BY DEF AddressInv, AddressTyped
<1> QED
  BY <1>1

(* A request that does not move stays where it may be, whoever of the others moves. *)
LEMMA StaysOnItsWay ==
  ASSUME AddressInv, NEW x \in Request, address_stage'[x] = address_stage[x], address_from'[x] = address_from[x],
         address_authenticated'[x] = address_authenticated[x], address_tick' = address_tick,
         address_closed' = address_closed \/ address_closed' = TRUE,
         \A i \in IP : address_proved'[i] = address_proved[i] \/ address_proved'[i] = address_tick,
         \A k \in BucketKinds, i \in IP :
           address_buckets[k][i] # None /\ address_buckets[k][i].lastSeen = address_tick =>
             address_buckets'[k][i] # None /\ address_buckets'[k][i].lastSeen = address_tick
  PROVE  OnItsWay(x)'
<1>1. OnItsWay(x)
  BY DEF AddressInv
<1>2. HasAddress(x)'
  BY <1>1 DEF OnItsWay, HasAddress
<1>3. HasBucket(x)'
  <2> SUFFICES ASSUME NEW k \in BucketKinds, address_stage[x] = AskOf(k)
               PROVE  address_buckets'[k][address_from[x]] # None /\ address_buckets'[k][address_from[x]].lastSeen = address_tick
    BY DEF HasBucket
  <2>1. address_from[x] \in IP
    BY <1>1 DEF OnItsWay, HasAddress, AskOf
  <2> QED
    BY <1>1, <2>1 DEF OnItsWay, HasBucket
<1>4. WasUnknown(x)'
  BY <1>1 DEF OnItsWay, WasUnknown
<1>5. Lenient(x)' => HasEarned(address_from[x])'
  <2>1. SUFFICES ASSUME Lenient(x) PROVE HasEarned(address_from[x])'
    BY DEF Lenient
  <2>2. address_from[x] \in IP /\ HasEarned(address_from[x])
    BY <1>1, <2>1 DEF OnItsWay, HasAddress, Lenient
  <2>3. PICK i : i = address_from[x] /\ i \in IP /\ HasEarned(i)
    BY <2>2
  <2>4. ASSUME address_proved'[i] = address_tick PROVE HasEarned(i)'
    <3>1. address_tick \in Nat /\ address_tick # None /\ address_tick - address_tick <= MaxAge["pre"] + Interval
      BY AddressFacts
    <3> QED
      BY <2>4, <3>1 DEF HasEarned
  <2>5. ASSUME address_proved'[i] = address_proved[i] PROVE HasEarned(i)'
    BY <2>3, <2>5 DEF HasEarned
  <2>6. HasEarned(i)'
    BY <2>3, <2>4, <2>5
  <2> QED
    BY <2>3, <2>6 DEF HasEarned
<1>6. (Lenient(x) => HasEarned(address_from[x]))'
  BY <1>5 DEF HasEarned
<1> QED
  BY <1>2, <1>3, <1>4, <1>6 DEF OnItsWay

(* A request that comes, looks at its address, or leaves.                    *)
LEMMA AddressWalks ==
  ASSUME AddressInv, NEW r \in Request,
         Address!Arrive(r) \/ Address!IsAuthenticated(r) \/ Address!MarkAuthenticated(r) \/ Address!Ends(r)
  PROVE  AddressInv'
<1>1. UNCHANGED <<address_tick, address_cleaned, address_closed, address_buckets, address_ideal>>
  BY DEF Address!Arrive, Address!IsAuthenticated, Address!MarkAuthenticated, Address!Ends
<1>2. BucketsFair'
  BY <1>1, FairStill DEF AddressInv, BucketsFair
<1>3. ASSUME NEW x \in Request, x # r, address_stage'[x] = address_stage[x], address_from'[x] = address_from[x],
             address_authenticated'[x] = address_authenticated[x],
             \A i \in IP : address_proved'[i] = address_proved[i] \/ address_proved'[i] = address_tick
      PROVE  OnItsWay(x)'
  BY <1>1, <1>3, StaysOnItsWay
<1>4. OnItsWay(r)
  BY DEF AddressInv
<1>5. CASE Address!Arrive(r)
  <2>1. PICK i \in IP, entry \in {"smart", "global"} :
          /\ address_from' = [address_from EXCEPT ![r] = i]
          /\ address_stage' = [address_stage EXCEPT ![r] = entry]
          /\ UNCHANGED <<address_authenticatedIPs, address_authenticated, address_proved>>
    BY <1>5 DEF Address!Arrive, Address!Advance
  <2>2. AddressTyped'
    BY <1>1, <2>1 DEF AddressInv, AddressTyped
  <2>3. \A x \in Request : x # r => address_stage'[x] = address_stage[x] /\ address_from'[x] = address_from[x]
    BY <2>1 DEF AddressInv, AddressTyped
  <2>4. address_stage'[r] = entry /\ address_from'[r] = i
    BY <2>1 DEF AddressInv, AddressTyped
  <2>5. OnItsWay(r)'
    BY <2>4 DEF OnItsWay, HasAddress, HasBucket, WasUnknown, Lenient, AskOf
  <2>6. \A x \in Request : OnItsWay(x)'
    BY <1>3, <2>1, <2>3, <2>5
  <2> QED
    BY <1>1, <1>2, <2>1, <2>2, <2>6 DEF AddressInv, CleanupInTime, AddressKnown
<1>6. CASE Address!IsAuthenticated(r)
  <2>1. PICK known \in BOOLEAN :
          /\ known <=> address_authenticatedIPs[address_from[r]] # None
          /\ address_stage[r] = "smart"
          /\ address_authenticated' = [address_authenticated EXCEPT ![r] = known]
          /\ address_stage' = [address_stage EXCEPT ![r] = IF known THEN "post" ELSE "pre"]
          /\ UNCHANGED <<address_authenticatedIPs, address_from, address_proved>>
    BY <1>6 DEF Address!IsAuthenticated, Address!Advance
  <2>2. AddressTyped'
    BY <1>1, <2>1 DEF AddressInv, AddressTyped
  <2>3. \A x \in Request : x # r => address_stage'[x] = address_stage[x] /\ address_authenticated'[x] = address_authenticated[x]
    BY <2>1 DEF AddressInv, AddressTyped
  <2>4. /\ address_stage'[r] = IF known THEN "post" ELSE "pre"
        /\ address_authenticated'[r] = known /\ address_from[r] \in IP
    BY <1>4, <2>1 DEF AddressInv, AddressTyped, OnItsWay, HasAddress
  <2>5. PICK i \in IP : i = address_from[r]
    BY <2>4
  <2>6. known = TRUE => HasEarned(i)
    <3> SUFFICES ASSUME known = TRUE PROVE HasEarned(i)
      OBVIOUS
    <3>1. /\ address_authenticatedIPs[i] # None /\ address_proved[i] = address_authenticatedIPs[i]
          /\ address_proved[i] \in Nat
      BY <2>1, <2>5 DEF AddressInv, AddressTyped, AddressKnown
    <3>2. address_proved[i] # None
      BY <3>1, AddressFacts
    <3>3. CASE address_closed = FALSE
      <4>1. address_tick - address_cleaned <= Interval /\ address_cleaned - address_proved[i] <= MaxAge["pre"]
        BY <3>1, <3>3 DEF AddressInv, CleanupInTime
      <4>2. address_cleaned \in Nat /\ address_tick \in Nat /\ MaxAge["pre"] \in Nat /\ Interval \in Nat
        BY AddressFacts DEF AddressInv, AddressTyped
      <4>3. address_tick - address_proved[i] <= MaxAge["pre"] + Interval
        BY <3>1, <4>1, <4>2
      <4> QED
        BY <3>2, <4>3 DEF HasEarned
    <3> QED
      BY <3>2, <3>3 DEF AddressInv, AddressTyped, HasEarned
  <2>7. known = TRUE => HasEarned(i)'
    BY <1>1, <2>1, <2>6 DEF HasEarned
  <2>8. address_from'[r] = i
    BY <2>1, <2>5
  <2>9. OnItsWay(r)'
    <3>1. HasAddress(r)'
      BY <2>8 DEF HasAddress
    <3>2. HasBucket(r)'
      BY <2>4 DEF HasBucket, AskOf
    <3>3. WasUnknown(r)'
      BY <2>4 DEF WasUnknown
    <3>4. (Lenient(r) => HasEarned(address_from[r]))'
      <4>1. SUFFICES ASSUME Lenient(r)' PROVE HasEarned(address_from[r])'
        OBVIOUS
      <4>2. known = TRUE
        BY <2>4, <4>1 DEF Lenient
      <4> QED
        BY <2>7, <2>8, <4>2 DEF HasEarned
    <3> QED
      BY <3>1, <3>2, <3>3, <3>4 DEF OnItsWay
  <2>10. \A x \in Request : OnItsWay(x)'
    BY <1>3, <2>1, <2>3, <2>9
  <2> QED
    BY <1>1, <1>2, <2>1, <2>2, <2>10 DEF AddressInv, CleanupInTime, AddressKnown
<1>7. CASE Address!MarkAuthenticated(r) \/ Address!Ends(r)
  <2>1. /\ address_stage[r] \in {"admitted", "public"} /\ address_stage' = [address_stage EXCEPT ![r] = "away"]
        /\ address_from' = [address_from EXCEPT ![r] = None]
        /\ address_authenticated' = [address_authenticated EXCEPT ![r] = FALSE]
        /\ \/ UNCHANGED <<address_authenticatedIPs, address_proved>>
           \/ /\ address_authenticatedIPs' = [address_authenticatedIPs EXCEPT ![address_from[r]] = address_tick]
              /\ address_proved' = [address_proved EXCEPT ![address_from[r]] = address_tick]
    BY <1>7 DEF Address!MarkAuthenticated, Address!Ends, Address!Leave, Address!Advance
  <2>2. PICK i \in IP : i = address_from[r]
    BY <1>4, <2>1 DEF OnItsWay, HasAddress
  <2>3. AddressTyped'
    <3>1. /\ address_authenticatedIPs' \in [IP -> Nat \cup {None}]
          /\ address_proved' \in [IP -> Nat \cup {None}]
      <4>1. /\ address_authenticatedIPs \in [IP -> Nat \cup {None}]
            /\ address_proved \in [IP -> Nat \cup {None}] /\ address_tick \in Nat
        BY DEF AddressInv, AddressTyped
      <4>2. CASE UNCHANGED <<address_authenticatedIPs, address_proved>>
        BY <4>1, <4>2
      <4>3. CASE /\ address_authenticatedIPs' = [address_authenticatedIPs EXCEPT ![i] = address_tick]
                 /\ address_proved' = [address_proved EXCEPT ![i] = address_tick]
        BY <4>1, <4>3
      <4> QED
        BY <2>1, <2>2, <4>2, <4>3
    <3> QED
      BY <1>1, <2>1, <3>1 DEF AddressInv, AddressTyped
  <2>4. \A x \in Request : x # r => /\ address_stage'[x] = address_stage[x] /\ address_from'[x] = address_from[x]
                                    /\ address_authenticated'[x] = address_authenticated[x]
    BY <2>1 DEF AddressInv, AddressTyped
  <2>5. address_stage'[r] = "away"
    BY <2>1 DEF AddressInv, AddressTyped
  <2>6. OnItsWay(r)'
    BY <2>5 DEF OnItsWay, HasAddress, HasBucket, WasUnknown, Lenient, AskOf
  <2>7. /\ \A j \in IP : j # i => /\ address_authenticatedIPs'[j] = address_authenticatedIPs[j]
                                  /\ address_proved'[j] = address_proved[j]
        /\ \/ address_authenticatedIPs'[i] = address_authenticatedIPs[i] /\ address_proved'[i] = address_proved[i]
           \/ address_authenticatedIPs'[i] = address_tick /\ address_proved'[i] = address_tick
    <3>1. address_authenticatedIPs \in [IP -> Nat \cup {None}] /\ address_proved \in [IP -> Nat \cup {None}]
      BY DEF AddressInv, AddressTyped
    <3>2. CASE UNCHANGED <<address_authenticatedIPs, address_proved>>
      BY <3>2
    <3>3. CASE /\ address_authenticatedIPs' = [address_authenticatedIPs EXCEPT ![i] = address_tick]
               /\ address_proved' = [address_proved EXCEPT ![i] = address_tick]
      BY <3>1, <3>3
    <3> QED
      BY <2>1, <2>2, <3>2, <3>3
  <2>8. AddressKnown'
    BY <2>7 DEF AddressInv, AddressKnown
  <2>9. CleanupInTime'
    <3>1. address_tick \in Nat /\ address_cleaned \in Nat /\ MaxAge["pre"] \in Nat
      BY AddressAssumption DEF AddressInv, AddressTyped
    <3>2. SUFFICES ASSUME address_closed = FALSE, NEW j \in IP, address_authenticatedIPs'[j] # None
                   PROVE  /\ address_authenticatedIPs'[j] <= address_tick
                          /\ address_cleaned - address_authenticatedIPs'[j] <= MaxAge["pre"]
      BY <1>1 DEF AddressInv, CleanupInTime
    <3>3. address_cleaned <= address_tick
      BY <3>2 DEF AddressInv, CleanupInTime
    <3> QED
      BY <2>7, <3>1, <3>2, <3>3 DEF AddressInv, CleanupInTime
  <2>10. \A j \in IP : address_proved'[j] = address_proved[j] \/ address_proved'[j] = address_tick
    BY <2>7
  <2>11. \A x \in Request : OnItsWay(x)'
    BY <1>3, <2>4, <2>6, <2>10
  <2> QED
    BY <1>2, <2>3, <2>8, <2>9, <2>11 DEF AddressInv
<1> QED
  BY <1>5, <1>6, <1>7

(* A bucket of a new content is fair when it gives what its ideal gives.    *)
LEMMA FairWhenEqual ==
  ASSUME AddressInv, NEW k \in BucketKinds, NEW i \in IP, NEW b \in BucketKeys, NEW c \in BucketKeys,
         address_tick' = address_tick, address_buckets'[k][i] = b, address_ideal'[k][i] = c,
         c.last <= address_tick, c.tokens <= Capacity[k],
         b.last <= b.lastSeen, b.lastSeen <= address_tick, b.tokens <= Capacity[k],
         Address!Tokens(k, b) = Address!Tokens(k, c)
  PROVE  BucketFair(k, i)'
<1>1. b # None
  BY AddressFacts
<1>2. Address!Min({Capacity[k], b.tokens + Rate[k] * (address_tick - b.last)}) =
      Address!Min({Capacity[k], c.tokens + Rate[k] * (address_tick - c.last)})
  BY DEF Address!Tokens
<1> QED
  BY <1>1, <1>2 DEF BucketFair, Address!Tokens

(* A request takes its bucket, which is made anew when there is none.        *)
LEMMA AddressTakes ==
  ASSUME AddressInv, NEW r \in Request, Address!GetLimiter(r)
  PROVE  AddressInv'
<1>1. PICK k \in BucketKinds :
        /\ address_stage[r] = k
        /\ address_buckets' = [address_buckets EXCEPT ![k][address_from[r]] =
                                 IF @ = None THEN Address!Full(k) ELSE [@ EXCEPT !.lastSeen = address_tick]]
        /\ address_stage' = [address_stage EXCEPT ![r] = Address!Asking[k]]
        /\ UNCHANGED <<address_tick, address_cleaned, address_closed, address_authenticatedIPs, address_from,
                       address_authenticated, address_ideal, address_proved>>
  BY DEF Address!GetLimiter, Address!Kind, BucketKinds, Address!Advance
<1>2. OnItsWay(r)
  BY DEF AddressInv
<1>3. PICK i \in IP : i = address_from[r]
  BY <1>1, <1>2 DEF OnItsWay, HasAddress, BucketKinds
<1>4. PICK old, b, c :
        /\ old = address_buckets[k][i] /\ c = address_ideal[k][i]
        /\ b = IF old = None THEN Address!Full(k) ELSE [old EXCEPT !.lastSeen = address_tick]
  OBVIOUS
<1>5. address_tick \in Nat /\ Capacity[k] \in Nat /\ c \in BucketKeys /\ old \in BucketKeys \cup {None}
  BY <1>4, GainGrows DEF AddressInv, AddressTyped
<1>6. address_stage[r] = k
  BY <1>1
<1>7. /\ b \in BucketKeys /\ b.lastSeen = address_tick
      /\ old = None => b.tokens = Capacity[k] /\ b.last = address_tick
      /\ old # None => b.tokens = old.tokens /\ b.last = old.last /\ old \in BucketKeys
  BY <1>4, <1>5 DEF Address!Full, BucketKeys
<1>8. address_buckets' = [address_buckets EXCEPT ![k][i] = b]
  BY <1>1, <1>3, <1>4
<1>9. /\ address_buckets' \in [BucketKinds -> [IP -> BucketKeys \cup {None}]]
      /\ address_buckets'[k][i] = b
      /\ \A m \in BucketKinds, j \in IP : m # k \/ j # i => address_buckets'[m][j] = address_buckets[m][j]
  BY <1>7, <1>8 DEF AddressInv, AddressTyped
<1>10. Address!Asking[k] = AskOf(k) /\ AskOf(k) \in {"ask pre", "ask post", "ask global"}
  BY AskingIs DEF AskOf
<1>11. AddressTyped'
  BY <1>1, <1>9, <1>10 DEF AddressInv, AddressTyped
<1>12. BucketFair(k, i)'
  <2>1. BucketFair(k, i)
    BY DEF AddressInv, BucketsFair
  <2>2. c.last <= address_tick /\ c.tokens <= Capacity[k]
    BY <1>4, <2>1 DEF BucketFair
  <2>3. b.last <= address_tick /\ b.tokens <= Capacity[k] /\ Address!Tokens(k, b) = Address!Tokens(k, c)
    <3>1. CASE old = None
      <4>1. Capacity[k] <= c.tokens + Gain(k, address_tick - c.last)
        BY <1>4, <2>1, <3>1 DEF BucketFair
      <4>2. Address!Tokens(k, c) = Capacity[k]
        BY <1>5, <2>2, <4>1, TokensAre
      <4>3. b.last = address_tick /\ b.tokens = Capacity[k]
        BY <1>7, <3>1
      <4>4. Gain(k, address_tick - b.last) = 0
        <5>1. address_tick - b.last = 0
          BY <1>5, <4>3
        <5> QED
          BY <5>1, GainGrows
      <4>5. b.last <= address_tick /\ Capacity[k] <= b.tokens + Gain(k, address_tick - b.last)
        BY <1>5, <4>3, <4>4
      <4>6. Address!Tokens(k, b) = Capacity[k]
        BY <1>5, <1>7, <4>5, TokensAre
      <4> QED
        BY <1>5, <4>2, <4>3, <4>6
    <3>2. CASE old # None
      <4>1. /\ old.last <= old.lastSeen /\ old.lastSeen <= address_tick /\ old.tokens <= Capacity[k]
            /\ Address!Tokens(k, old) = Address!Tokens(k, c)
        BY <1>4, <2>1, <3>2 DEF BucketFair
      <4>2. b.tokens = old.tokens /\ b.last = old.last /\ old \in BucketKeys
        BY <1>7, <3>2
      <4>3. Address!Tokens(k, b) = Address!Tokens(k, old)
        BY <4>2 DEF Address!Tokens
      <4>4. old.last \in Nat /\ old.lastSeen \in Nat
        BY <4>2 DEF BucketKeys
      <4> QED
        BY <1>5, <4>1, <4>2, <4>3, <4>4
    <3> QED
      BY <3>1, <3>2
  <2>4. address_ideal'[k][i] = c /\ address_tick' = address_tick /\ b.last <= b.lastSeen /\ b.lastSeen <= address_tick
    BY <1>1, <1>4, <1>5, <1>7, <2>3
  <2> QED
    BY <1>5, <1>7, <1>9, <2>2, <2>3, <2>4, FairWhenEqual
<1>13. BucketsFair'
  <2>1. ASSUME NEW m \in BucketKinds, NEW j \in IP, m # k \/ j # i PROVE BucketFair(m, j)'
    BY <1>1, <1>9, <2>1, FairStill DEF AddressInv, BucketsFair
  <2> QED
    BY <1>12, <2>1 DEF BucketsFair
<1>14. /\ address_stage'[r] = AskOf(k)
       /\ \A x \in Request : x # r => address_stage'[x] = address_stage[x]
  BY <1>1, <1>10 DEF AddressInv, AddressTyped
<1>15. b # None
  BY <1>7, AddressFacts
<1>16. ASSUME NEW x \in Request, x # r PROVE OnItsWay(x)'
  <2>1. \A m \in BucketKinds, j \in IP :
          address_buckets[m][j] # None /\ address_buckets[m][j].lastSeen = address_tick =>
            address_buckets'[m][j] # None /\ address_buckets'[m][j].lastSeen = address_tick
    BY <1>7, <1>9, <1>15
  <2> QED
    BY <1>1, <1>14, <1>16, <2>1, StaysOnItsWay
<1>17. OnItsWay(r)'
  <2>1. address_from'[r] = i /\ address_authenticated'[r] = address_authenticated[r]
    BY <1>1, <1>3
  <2>2. HasAddress(r)'
    BY <2>1 DEF HasAddress
  <2>3. HasBucket(r)'
    <3> SUFFICES ASSUME NEW m \in BucketKinds, address_stage'[r] = AskOf(m)
                 PROVE  address_buckets'[m][address_from'[r]] # None /\ address_buckets'[m][address_from'[r]].lastSeen = address_tick'
      BY DEF HasBucket
    <3>1. m = k
      BY <1>14, AskingIs
    <3> QED
      BY <1>1, <1>7, <1>9, <1>15, <2>1, <3>1
  <2>4. WasUnknown(r)'
    <3>1. address_stage'[r] = "ask pre" => address_stage[r] = "pre"
      BY <1>6, <1>14 DEF AskOf, BucketKinds
    <3>2. address_stage'[r] # "pre"
      BY <1>14 DEF AskOf
    <3> QED
      BY <1>2, <2>1, <3>1, <3>2 DEF OnItsWay, WasUnknown
  <2>5. (Lenient(r) => HasEarned(address_from[r]))'
    <3>1. SUFFICES ASSUME Lenient(r)' PROVE HasEarned(address_from[r])'
      OBVIOUS
    <3>2. address_stage[r] = "post"
      <4>1. address_stage'[r] = "ask post"
        BY <1>14, <3>1 DEF Lenient, AskOf
      <4> QED
        BY <1>6, <1>14, <4>1 DEF AskOf, BucketKinds
    <3>3. HasEarned(i)
      BY <1>2, <1>3, <3>2 DEF OnItsWay, Lenient
    <3> QED
      BY <1>1, <2>1, <3>3 DEF HasEarned
  <2> QED
    BY <2>2, <2>3, <2>4, <2>5 DEF OnItsWay
<1>18. \A x \in Request : OnItsWay(x)'
  BY <1>16, <1>17
<1> QED
  BY <1>1, <1>11, <1>13, <1>18 DEF AddressInv, CleanupInTime, AddressKnown

(* A request is admitted, and takes a token of its bucket and of the ideal, or is refused. *)
LEMMA AddressAllows ==
  ASSUME AddressInv, NEW r \in Request, Address!Allow(r)
  PROVE  AddressInv'
<1>1. PICK k \in BucketKinds :
        /\ address_stage[r] = Address!Asking[k]
        /\ \/ /\ Address!Tokens(k, address_buckets[k][address_from[r]]) >= 1
              /\ address_buckets' = [address_buckets EXCEPT ![k][address_from[r]] = Address!Take(k, @)]
              /\ address_ideal' = [address_ideal EXCEPT ![k][address_from[r]] = Address!Take(k, @)]
              /\ address_stage' = [address_stage EXCEPT ![r] = IF k = "global" THEN "public" ELSE "admitted"]
              /\ UNCHANGED <<address_from, address_authenticated>>
           \/ /\ Address!Leave(r) /\ UNCHANGED <<address_buckets, address_ideal>>
        /\ UNCHANGED <<address_tick, address_cleaned, address_closed, address_authenticatedIPs, address_proved>>
  BY DEF Address!Allow, Address!Kind, BucketKinds, Address!Advance
<1>2. address_stage[r] = AskOf(k)
  BY <1>1, AskingIs
<1>3. OnItsWay(r)
  BY DEF AddressInv
<1>4. PICK i \in IP : i = address_from[r]
  BY <1>2, <1>3 DEF OnItsWay, HasAddress, AskOf
<1>5. CleanupInTime' /\ AddressKnown'
  BY <1>1 DEF AddressInv, CleanupInTime, AddressKnown
<1>6. CASE Address!Leave(r) /\ UNCHANGED <<address_buckets, address_ideal>>
  <2>1. /\ address_stage' = [address_stage EXCEPT ![r] = "away"]
        /\ address_from' = [address_from EXCEPT ![r] = None]
        /\ address_authenticated' = [address_authenticated EXCEPT ![r] = FALSE]
    BY <1>6 DEF Address!Leave, Address!Advance
  <2>2. AddressTyped'
    BY <1>1, <1>6, <2>1 DEF AddressInv, AddressTyped
  <2>3. BucketsFair'
    BY <1>1, <1>6, FairStill DEF AddressInv, BucketsFair
  <2>4. address_stage'[r] = "away"
    BY <2>1 DEF AddressInv, AddressTyped
  <2>5. OnItsWay(r)'
    BY <2>4 DEF OnItsWay, HasAddress, HasBucket, WasUnknown, Lenient, AskOf
  <2>6. ASSUME NEW x \in Request, x # r PROVE OnItsWay(x)'
    <3>1. /\ address_stage'[x] = address_stage[x] /\ address_from'[x] = address_from[x]
          /\ address_authenticated'[x] = address_authenticated[x]
      BY <2>1, <2>6 DEF AddressInv, AddressTyped
    <3> QED
      BY <1>1, <1>6, <3>1, StaysOnItsWay
  <2>7. \A x \in Request : OnItsWay(x)'
    BY <2>5, <2>6
  <2> QED
    BY <1>5, <2>2, <2>3, <2>7 DEF AddressInv
<1>7. CASE /\ Address!Tokens(k, address_buckets[k][address_from[r]]) >= 1
           /\ address_buckets' = [address_buckets EXCEPT ![k][address_from[r]] = Address!Take(k, @)]
           /\ address_ideal' = [address_ideal EXCEPT ![k][address_from[r]] = Address!Take(k, @)]
           /\ address_stage' = [address_stage EXCEPT ![r] = IF k = "global" THEN "public" ELSE "admitted"]
           /\ UNCHANGED <<address_from, address_authenticated>>
  <2>1. PICK oldb, oldc, b, c :
          /\ oldb = address_buckets[k][i] /\ oldc = address_ideal[k][i]
          /\ b = Address!Take(k, oldb) /\ c = Address!Take(k, oldc)
    OBVIOUS
  <2>2. oldb # None /\ oldb.lastSeen = address_tick
    BY <1>2, <1>3, <1>4, <2>1 DEF OnItsWay, HasBucket
  <2>3. /\ oldb \in BucketKeys /\ oldc \in BucketKeys /\ address_tick \in Nat /\ Capacity[k] \in Nat
    BY <2>1, <2>2, GainGrows, AddressFacts, BucketTypes
  <2>4. BucketFair(k, i)
    BY DEF AddressInv, BucketsFair
  <2>5. oldb.last <= address_tick /\ oldc.last <= address_tick /\ Address!Tokens(k, oldb) = Address!Tokens(k, oldc)
    BY <2>1, <2>2, <2>4 DEF BucketFair
  <2>6. PICK t \in Nat : t = Address!Tokens(k, oldb) - 1 /\ t = Address!Tokens(k, oldc) - 1 /\ t <= Capacity[k]
    <3>1. Address!Tokens(k, oldb) >= 1
      BY <1>4, <1>7, <2>1
    <3>2. Address!Tokens(k, oldb) \in Nat /\ Address!Tokens(k, oldb) <= Capacity[k]
      BY <2>3, <2>5, TokensAre
    <3> QED
      BY <2>3, <2>5, <3>1, <3>2
  <2>7. /\ b \in BucketKeys /\ b.tokens = t /\ b.last = address_tick /\ b.lastSeen = address_tick
        /\ c \in BucketKeys /\ c.tokens = t /\ c.last = address_tick
    BY <2>1, <2>2, <2>3, <2>6 DEF Address!Take, BucketKeys
  <2>8. /\ address_buckets' = [address_buckets EXCEPT ![k][i] = b]
        /\ address_ideal' = [address_ideal EXCEPT ![k][i] = c]
    BY <1>4, <1>7, <2>1
  <2>9. /\ address_buckets' \in [BucketKinds -> [IP -> BucketKeys \cup {None}]]
        /\ address_buckets'[k][i] = b
        /\ \A m \in BucketKinds, j \in IP : m # k \/ j # i => address_buckets'[m][j] = address_buckets[m][j]
    BY <2>7, <2>8 DEF AddressInv, AddressTyped
  <2>10. /\ address_ideal' \in [BucketKinds -> [IP -> BucketKeys]]
         /\ address_ideal'[k][i] = c
         /\ \A m \in BucketKinds, j \in IP : m # k \/ j # i => address_ideal'[m][j] = address_ideal[m][j]
    BY <2>7, <2>8 DEF AddressInv, AddressTyped
  <2>11. AddressTyped'
    BY <1>1, <1>7, <2>9, <2>10 DEF AddressInv, AddressTyped
  <2>12. BucketFair(k, i)'
    <3>1. Address!Tokens(k, b) = Address!Tokens(k, c)
      BY <2>7 DEF Address!Tokens
    <3> QED
      BY <1>1, <2>3, <2>6, <2>7, <2>9, <2>10, <3>1, FairWhenEqual
  <2>13. BucketsFair'
    <3>1. ASSUME NEW m \in BucketKinds, NEW j \in IP, m # k \/ j # i PROVE BucketFair(m, j)'
      BY <1>1, <2>9, <2>10, <3>1, FairStill DEF AddressInv, BucketsFair
    <3> QED
      BY <2>12, <3>1 DEF BucketsFair
  <2>14. /\ address_stage'[r] = IF k = "global" THEN "public" ELSE "admitted"
         /\ \A x \in Request : x # r => address_stage'[x] = address_stage[x]
    BY <1>7 DEF AddressInv, AddressTyped
  <2>15. b # None
    BY <2>7, AddressFacts
  <2>16. ASSUME NEW x \in Request, x # r PROVE OnItsWay(x)'
    <3>1. \A m \in BucketKinds, j \in IP :
            address_buckets[m][j] # None /\ address_buckets[m][j].lastSeen = address_tick =>
              address_buckets'[m][j] # None /\ address_buckets'[m][j].lastSeen = address_tick
      BY <2>7, <2>9, <2>15
    <3> QED
      BY <1>1, <1>7, <2>14, <2>16, <3>1, StaysOnItsWay
  <2>17. OnItsWay(r)'
    <3>1. address_from'[r] = i /\ address_authenticated'[r] = address_authenticated[r]
      BY <1>4, <1>7
    <3>2. HasAddress(r)'
      BY <3>1 DEF HasAddress
    <3>3. HasBucket(r)' /\ WasUnknown(r)'
      BY <2>14 DEF HasBucket, WasUnknown, AskOf
    <3>4. (Lenient(r) => HasEarned(address_from[r]))'
      <4>1. SUFFICES ASSUME Lenient(r)' PROVE HasEarned(address_from[r])'
        OBVIOUS
      <4>2. address_stage'[r] = "admitted" /\ address_authenticated[r] = TRUE
        BY <2>14, <3>1, <4>1 DEF Lenient
      <4>3. k # "global"
        BY <2>14, <4>2
      <4>4. k # "pre"
        BY <1>2, <1>3, <4>2 DEF OnItsWay, WasUnknown, AskOf
      <4>5. Lenient(r)
        BY <1>2, <4>3, <4>4 DEF Lenient, AskOf, BucketKinds
      <4>6. HasEarned(i)
        BY <1>3, <1>4, <4>5 DEF OnItsWay
      <4> QED
        BY <1>1, <3>1, <4>6 DEF HasEarned
    <3> QED
      BY <3>2, <3>3, <3>4 DEF OnItsWay
  <2>18. \A x \in Request : OnItsWay(x)'
    BY <2>16, <2>17
  <2> QED
    BY <1>5, <2>11, <2>13, <2>18 DEF AddressInv
<1> QED
  BY <1>1, <1>6, <1>7

(* A cleanup removes buckets that are full by then, and addresses that are too old. *)
LEMMA AddressCleans ==
  ASSUME AddressInv, Address!Cleanup
  PROVE  AddressInv'
<1>1. /\ address_closed = FALSE /\ address_tick % Interval = 0 /\ address_cleaned' = address_tick
      /\ address_buckets' = [k \in BucketKinds |-> [i \in IP |->
           IF Address!Idle(k, address_buckets[k][i]) THEN None ELSE address_buckets[k][i]]]
      /\ address_authenticatedIPs' = [i \in IP |-> IF Address!Stale(i) THEN None ELSE address_authenticatedIPs[i]]
      /\ UNCHANGED <<address_tick, address_closed, address_ideal, address_proved, address_stage, address_from,
                     address_authenticated>>
  BY DEF Address!Cleanup, Address!Due, Address!Kind, Address!requests, BucketKinds, AddressInv, AddressTyped
<1>2. /\ address_tick \in Nat
      /\ address_buckets \in [BucketKinds -> [IP -> BucketKeys \cup {None}]]
      /\ address_authenticatedIPs \in [IP -> Nat \cup {None}]
  BY DEF AddressInv, AddressTyped
<1>3. AddressTyped'
  <2>1. /\ address_buckets' \in [BucketKinds -> [IP -> BucketKeys \cup {None}]]
        /\ address_authenticatedIPs' \in [IP -> Nat \cup {None}]
    BY <1>1, <1>2
  <2> QED
    BY <1>1, <2>1 DEF AddressInv, AddressTyped
<1>4. ASSUME NEW k \in BucketKinds, NEW i \in IP PROVE BucketFair(k, i)'
  <2>1. PICK b, c : b = address_buckets[k][i] /\ c = address_ideal[k][i]
    OBVIOUS
  <2>2. BucketFair(k, i)
    BY DEF AddressInv, BucketsFair
  <2>3. address_buckets'[k][i] = IF Address!Idle(k, b) THEN None ELSE b
    BY <1>1, <2>1
  <2>4. CASE ~Address!Idle(k, b)
    BY <1>1, <2>1, <2>2, <2>3, <2>4, FairStill
  <2>5. CASE Address!Idle(k, b)
    <3>1. b # None /\ address_tick - b.lastSeen > MaxAge[k]
      BY <2>5 DEF Address!Idle
    <3>2. b \in BucketKeys /\ c \in BucketKeys
      BY <2>1, <3>1, BucketTypes
    <3>3. /\ c.last <= address_tick /\ c.tokens <= Capacity[k] /\ b.last <= b.lastSeen /\ b.lastSeen <= address_tick
          /\ Address!Tokens(k, b) = Address!Tokens(k, c)
      BY <2>1, <2>2, <3>1 DEF BucketFair
    <3>4. b.last \in Nat /\ b.lastSeen \in Nat /\ b.tokens \in Nat /\ MaxAge[k] \in Nat /\ Capacity[k] \in Nat
      BY <3>2, GainGrows DEF BucketKeys
    <3>5. MaxAge[k] + 1 <= address_tick - b.last /\ b.last <= address_tick
      BY <1>2, <3>1, <3>3, <3>4
    <3>6. address_tick - b.last \in Nat /\ MaxAge[k] + 1 \in Nat
      BY <1>2, <3>4, <3>5
    <3>7. /\ Gain(k, MaxAge[k] + 1) <= Gain(k, address_tick - b.last) /\ Capacity[k] <= Gain(k, MaxAge[k] + 1)
          /\ Gain(k, address_tick - b.last) \in Nat /\ Gain(k, MaxAge[k] + 1) \in Nat
      BY <3>5, <3>6, GainGrows
    <3>8. Capacity[k] <= b.tokens + Gain(k, address_tick - b.last)
      BY <3>4, <3>7
    <3>9. Address!Tokens(k, c) = Capacity[k]
      BY <1>2, <3>2, <3>3, <3>5, <3>8, TokensAre
    <3>10. Capacity[k] <= c.tokens + Gain(k, address_tick - c.last)
      <4>1. /\ Gain(k, address_tick - c.last) \in Nat /\ c.tokens \in Nat
            /\ Address!Tokens(k, c) = IF Capacity[k] <= c.tokens + Gain(k, address_tick - c.last) THEN Capacity[k]
                                      ELSE c.tokens + Gain(k, address_tick - c.last)
        BY <1>2, <3>2, <3>3, TokensAre
      <4> QED
        BY <3>4, <3>9, <4>1
    <3>11. address_buckets'[k][i] = None /\ address_ideal'[k][i] = c /\ address_tick' = address_tick
      BY <1>1, <2>1, <2>3, <2>5
    <3> QED
      BY <3>3, <3>10, <3>11 DEF BucketFair, Gain
  <2> QED
    BY <2>4, <2>5
<1>5. CleanupInTime'
  <2>1. ASSUME NEW i \in IP, address_authenticatedIPs'[i] # None
        PROVE  address_authenticatedIPs'[i] <= address_tick /\ address_tick - address_authenticatedIPs'[i] <= MaxAge["pre"]
    <3>1. ~Address!Stale(i) /\ address_authenticatedIPs'[i] = address_authenticatedIPs[i]
      BY <1>1, <2>1
    <3>2. address_authenticatedIPs[i] \in Nat /\ address_authenticatedIPs[i] <= address_tick
      BY <1>1, <1>2, <2>1, <3>1 DEF AddressInv, CleanupInTime
    <3> QED
      BY <1>2, <2>1, <3>1, <3>2, AddressFacts DEF Address!Stale
  <2>2. address_tick - address_tick <= Interval /\ address_tick <= address_tick
    BY AddressFacts
  <2> QED
    BY <1>1, <2>1, <2>2 DEF CleanupInTime
<1>6. AddressKnown'
  BY <1>1 DEF AddressInv, AddressKnown
<1>7. ASSUME NEW x \in Request PROVE OnItsWay(x)'
  <2>1. ASSUME NEW k \in BucketKinds, NEW i \in IP, address_buckets[k][i] # None, address_buckets[k][i].lastSeen = address_tick
        PROVE  address_buckets'[k][i] = address_buckets[k][i]
    <3>1. MaxAge[k] \in Nat
      BY GainGrows
    <3>2. ~Address!Idle(k, address_buckets[k][i])
      BY <1>2, <2>1, <3>1 DEF Address!Idle
    <3> QED
      BY <1>1, <3>2
  <2> QED
    BY <1>1, <2>1, StaysOnItsWay
<1> QED
  BY <1>3, <1>4, <1>5, <1>6, <1>7 DEF AddressInv, BucketsFair

(* What a bucket can give a tick later.                                      *)
LEMMA TokensLater ==
  ASSUME NEW k \in BucketKinds, NEW b \in BucketKeys, address_tick \in Nat, b.last <= address_tick,
         address_tick' = address_tick + 1
  PROVE  /\ Gain(k, address_tick' - b.last) = Gain(k, address_tick - b.last) + Rate[k]
         /\ Address!Tokens(k, b)' = IF Capacity[k] <= Address!Tokens(k, b) + Rate[k] THEN Capacity[k]
                                    ELSE Address!Tokens(k, b) + Rate[k]
<1>1. PICK n \in Nat : n = address_tick - b.last /\ address_tick' - b.last = n + 1
  BY DEF BucketKeys
<1>2. Gain(k, n) \in Nat /\ Gain(k, n + 1) = Gain(k, n) + Rate[k] /\ Rate[k] \in Nat /\ Capacity[k] \in Nat /\ b.tokens \in Nat
  BY GainGrows DEF BucketKeys
<1>3. Address!Tokens(k, b)' = Address!Min({Capacity[k], b.tokens + Gain(k, n + 1)})
  BY <1>1 DEF Address!Tokens, Gain, Address!Min
<1>4. Address!Tokens(k, b)' = IF Capacity[k] <= b.tokens + Gain(k, n + 1) THEN Capacity[k] ELSE b.tokens + Gain(k, n + 1)
  <2>1. b.tokens + Gain(k, n + 1) \in Nat
    BY <1>2
  <2> QED
    BY <1>2, <1>3, <2>1, AddressLesser
<1>5. Address!Tokens(k, b) = IF Capacity[k] <= b.tokens + Gain(k, n) THEN Capacity[k] ELSE b.tokens + Gain(k, n)
  BY <1>1, TokensAre
<1> QED
  BY <1>1, <1>2, <1>4, <1>5

(* Time passes while no request is on its way and no cleanup is due.         *)
LEMMA AddressTicks ==
  ASSUME AddressInv, Address!Tick
  PROVE  AddressInv'
<1>1. /\ ~Address!Due /\ address_tick' = address_tick + 1 /\ \A r \in Request : address_stage[r] = "away"
      /\ UNCHANGED <<address_cleaned, address_closed, address_buckets, address_ideal, address_authenticatedIPs,
                     address_proved, address_stage, address_from, address_authenticated>>
  BY DEF Address!Tick, Address!requests
<1>2. address_tick \in Nat /\ address_cleaned \in Nat
  BY DEF AddressInv, AddressTyped
<1>3. AddressTyped'
  <2>1. address_tick' \in Nat
    BY <1>1, <1>2
  <2> QED
    BY <1>1, <2>1 DEF AddressInv, AddressTyped
<1>4. ASSUME NEW k \in BucketKinds, NEW i \in IP PROVE BucketFair(k, i)'
  <2>1. PICK b, c : b = address_buckets[k][i] /\ c = address_ideal[k][i]
    OBVIOUS
  <2>2. BucketFair(k, i) /\ c \in BucketKeys /\ c.last <= address_tick /\ c.tokens <= Capacity[k]
    BY <2>1 DEF AddressInv, AddressTyped, BucketsFair, BucketFair
  <2>3. /\ c.last \in Nat /\ Capacity[k] \in Nat /\ Rate[k] \in Nat
        /\ Gain(k, address_tick - c.last) \in Nat /\ c.tokens \in Nat
        /\ Gain(k, address_tick' - c.last) = Gain(k, address_tick - c.last) + Rate[k]
    BY <1>1, <1>2, <2>2, TokensLater, TokensAre, GainGrows DEF BucketKeys
  <2>4. c.last <= address_tick'
    BY <1>1, <1>2, <2>2, <2>3
  <2>5. CASE b = None
    <3>1. Capacity[k] <= c.tokens + Gain(k, address_tick - c.last)
      BY <2>1, <2>2, <2>5 DEF BucketFair
    <3>2. Capacity[k] <= c.tokens + Gain(k, address_tick' - c.last)
      BY <2>3, <3>1
    <3> QED
      BY <1>1, <2>1, <2>2, <2>4, <2>5, <3>2 DEF BucketFair, Gain
  <2>6. CASE b # None
    <3>1. /\ b.last <= b.lastSeen /\ b.lastSeen <= address_tick /\ b.tokens <= Capacity[k]
          /\ Address!Tokens(k, b) = Address!Tokens(k, c) /\ b \in BucketKeys
      BY <2>1, <2>2, <2>6, BucketTypes DEF BucketFair
    <3>2. b.last \in Nat /\ b.lastSeen \in Nat /\ b.last <= address_tick /\ b.lastSeen <= address_tick'
      BY <1>1, <1>2, <3>1 DEF BucketKeys
    <3>3. Address!Tokens(k, b)' = Address!Tokens(k, c)'
      BY <1>1, <1>2, <2>2, <3>1, <3>2, TokensLater
    <3>4. address_buckets'[k][i] = b /\ address_ideal'[k][i] = c
      BY <1>1, <2>1
    <3> QED
      BY <2>2, <2>4, <2>6, <3>1, <3>2, <3>3, <3>4 DEF BucketFair, Address!Tokens, Address!Min
  <2> QED
    BY <2>5, <2>6
<1>5. CleanupInTime'
  <2>6. address_cleaned' = address_cleaned /\ address_authenticatedIPs' = address_authenticatedIPs
    BY <1>1
  <2> SUFFICES ASSUME address_closed' = FALSE
               PROVE  /\ address_cleaned' % Interval = 0 /\ address_cleaned' <= address_tick'
                      /\ address_tick' - address_cleaned' <= Interval
                      /\ \A i \in IP : address_authenticatedIPs'[i] # None =>
                           /\ address_authenticatedIPs'[i] <= address_tick'
                           /\ address_cleaned' - address_authenticatedIPs'[i] <= MaxAge["pre"]
    BY DEF CleanupInTime
  <2>5. address_closed = FALSE
    BY <1>1
  <2>1. /\ address_cleaned % Interval = 0 /\ address_cleaned <= address_tick /\ address_tick - address_cleaned <= Interval
        /\ \A i \in IP : address_authenticatedIPs[i] # None =>
             /\ address_authenticatedIPs[i] <= address_tick
             /\ address_cleaned - address_authenticatedIPs[i] <= MaxAge["pre"]
    BY <2>5 DEF AddressInv, CleanupInTime
  <2>2. Interval \in Nat \ {0}
    BY AddressAssumption
  <2>3. address_tick - address_cleaned # Interval
    <3> SUFFICES ASSUME address_tick - address_cleaned = Interval PROVE FALSE
      OBVIOUS
    <3>1. address_tick = address_cleaned + Interval /\ address_cleaned # address_tick
      BY <1>2, <2>2
    <3>2. (address_cleaned + Interval) % Interval = 0
      BY <1>2, <2>1, <2>2, NextMultiple
    <3> QED
      BY <1>1, <2>5, <3>1, <3>2 DEF Address!Due
  <2>4. \A i \in IP : address_authenticatedIPs[i] # None => address_authenticatedIPs[i] \in Nat
    BY DEF AddressInv, AddressTyped
  <2>7. address_tick' - address_cleaned <= Interval /\ address_cleaned <= address_tick'
    BY <1>1, <1>2, <2>1, <2>2, <2>3
  <2>8. \A i \in IP : address_authenticatedIPs[i] # None => address_authenticatedIPs[i] <= address_tick'
    BY <1>1, <1>2, <2>1, <2>4
  <2> QED
    BY <2>1, <2>6, <2>7, <2>8
<1>6. AddressKnown'
  BY <1>1 DEF AddressInv, AddressKnown
<1>7. \A r \in Request : OnItsWay(r)'
  BY <1>1 DEF OnItsWay, HasAddress, HasBucket, WasUnknown, Lenient, AskOf
<1> QED
  BY <1>3, <1>4, <1>5, <1>6, <1>7 DEF AddressInv, BucketsFair

(* The buckets stay fair and the known addresses recent.                     *)
LEMMA AddressNext == AddressInv /\ [Address!Next]_address_vars => AddressInv'
<1> SUFFICES ASSUME AddressInv, [Address!Next]_address_vars PROVE AddressInv'
  OBVIOUS
<1>1. CASE \E r \in Request : \/ Address!Arrive(r) \/ Address!IsAuthenticated(r)
                              \/ Address!MarkAuthenticated(r) \/ Address!Ends(r)
  BY <1>1, AddressWalks
<1>2. CASE \E r \in Request : Address!GetLimiter(r)
  BY <1>2, AddressTakes
<1>3. CASE \E r \in Request : Address!Allow(r)
  BY <1>3, AddressAllows
<1>4. CASE Address!Cleanup
  BY <1>4, AddressCleans
<1>5. CASE Address!Close
  <2>1. /\ address_closed' = TRUE
        /\ UNCHANGED <<address_tick, address_cleaned, address_buckets, address_ideal, address_authenticatedIPs,
                       address_proved, address_stage, address_from, address_authenticated>>
    BY <1>5 DEF Address!Close, Address!requests
  <2>2. AddressTyped' /\ CleanupInTime' /\ AddressKnown'
    BY <2>1 DEF AddressInv, AddressTyped, CleanupInTime, AddressKnown
  <2>3. BucketsFair'
    BY <2>1, FairStill DEF AddressInv, BucketsFair
  <2>4. \A r \in Request : OnItsWay(r)'
    BY <2>1, StaysOnItsWay
  <2> QED
    BY <2>2, <2>3, <2>4 DEF AddressInv
<1>6. CASE Address!Tick
  BY <1>6, AddressTicks
<1>7. CASE UNCHANGED address_vars
  <2>1. UNCHANGED <<address_tick, address_cleaned, address_closed, address_buckets, address_ideal,
                    address_authenticatedIPs, address_proved, address_stage, address_from, address_authenticated>>
    BY <1>7 DEF address_vars
  <2>2. AddressTyped' /\ CleanupInTime' /\ AddressKnown'
    BY <2>1 DEF AddressInv, AddressTyped, CleanupInTime, AddressKnown
  <2>3. BucketsFair'
    BY <2>1, FairStill DEF AddressInv, BucketsFair
  <2>4. \A r \in Request : OnItsWay(r)'
    BY <2>1, StaysOnItsWay
  <2> QED
    BY <2>2, <2>3, <2>4 DEF AddressInv
<1> QED
  BY <1>1, <1>2, <1>3, <1>4, <1>5, <1>6, <1>7 DEF Address!Next

(* Fair buckets give what they would have given, and the lenient one is earned. *)
LEMMA AddressSafe == AddressInv => AddressesEarn
<1> SUFFICES ASSUME AddressInv PROVE AddressesEarn
  OBVIOUS
<1>1. ASSUME NEW k \in BucketKinds, NEW i \in IP
      PROVE  Address!Tokens(k, address_ideal[k][i]) =
               IF address_buckets[k][i] = None THEN Capacity[k] ELSE Address!Tokens(k, address_buckets[k][i])
  <2>1. BucketFair(k, i) /\ address_ideal[k][i] \in BucketKeys /\ address_tick \in Nat
    BY DEF AddressInv, BucketsFair, AddressTyped
  <2>2. address_ideal[k][i].last <= address_tick
    BY <2>1 DEF BucketFair
  <2>3. CASE address_buckets[k][i] = None
    <3>1. Capacity[k] <= address_ideal[k][i].tokens + Gain(k, address_tick - address_ideal[k][i].last)
      BY <2>1, <2>3 DEF BucketFair
    <3> QED
      BY <2>1, <2>2, <2>3, <3>1, TokensAre
  <2>4. CASE address_buckets[k][i] # None
    BY <2>1, <2>4 DEF BucketFair
  <2> QED
    BY <2>3, <2>4
<1>2. Address!CleanupGrantsNothing
  BY <1>1 DEF Address!CleanupGrantsNothing, Address!Kind, BucketKinds
<1>3. Address!LenientIsEarned
  BY DEF AddressInv, AddressTyped, OnItsWay, Lenient, HasEarned, Address!LenientIsEarned
<1> QED
  BY <1>2, <1>3 DEF AddressesEarn

-----------------------------------------------------------------------------
(***************************************************************************)
(* ModuleSetup. The steps a runtime has behind it worked unless they are   *)
(* optional; what its libraries left in its globals says which were loaded.*)
(***************************************************************************)

\* The steps.
Marks == {"polyfill", "node", "modules", "globals", "limiter", "disable", "harden"}
Runtime == [at : Int, done : SUBSET Marks, globals : [Setup!Globals -> Setup!Library \cup {None}],
            cache : Seq([name : Setup!Library, exports : Setup!Library \cup {None}]),
            array : Int, bytes : Int, calls : Nat]
LoadedIn(cache) == {cache[i].name : i \in 1 .. Len(cache)}

StepsTaken(x, steps) ==
  /\ x.at <= Len(steps) + 1
  /\ \A i \in 1 .. Len(steps) : i < x.at => steps[i] \in x.done \cup Setup!Optional
Unused(x) == x.cache = <<>> /\ x.calls = 0 /\ x.array = 0 /\ x.bytes = 0

\* A library is in its global as soon as it is loaded, crypto-js unless a module was there before it.
GlobalsTell(globals, cache) ==
  /\ \A l \in Setup!Library : /\ globals[Setup!NameOf(l)] \in {None, l}
                              /\ l \notin LoadedIn(cache) => globals[Setup!NameOf(l)] = None
  /\ (globals["module"] # None) <=> (LoadedIn(cache) \cap {"lodash", "dayjs"} # {})
GivesItself(cache) ==
  \A i \in 1 .. Len(cache) :
    cache[i].exports = IF /\ cache[i].name = "crypto-js"
                          /\ {cache[j].name : j \in 1 .. i - 1} \cap {"lodash", "dayjs"} # {}
                       THEN None ELSE cache[i].name
WithinLimit(x) == "limiter" \in x.done => x.bytes <= AllocationLimit /\ x.array <= AllocationLimit

\* A runtime that is set up by steps, alone and as one of those there are.
RightRuntime(x, steps) ==
  /\ x \in Runtime /\ StepsTaken(x, steps) /\ (x.at = Len(steps) + 1 \/ Unused(x))
  /\ GlobalsTell(x.globals, x.cache) /\ GivesItself(x.cache) /\ WithinLimit(x)
RuntimesRight == /\ DOMAIN setup_rt = Setup!Runtimes
                 /\ \E R : setup_rt \in [Setup!Runtimes -> R]
                 /\ \A r \in Setup!Runtimes : RightRuntime(setup_rt[r], Setup!StepsOf(r))

ProgramsTyped == setup_programs \in [Setup!Library -> [compiled : {0, 1}, ok : BOOLEAN]]

SetupStages ==
  /\ setup_stage \in {"registering", "warming", "pooling", "serving", "fatal", "closed"}
  /\ setup_stage \in {"pooling", "serving"} => setup_warmup.status = "completed"
  /\ setup_pool = IF setup_stage = "serving" THEN PooledRuntimes ELSE {}
  /\ setup_stage = "serving" => \A r \in PooledRuntimes : Setup!SetUp(r)

SetupInv == RuntimesRight /\ ProgramsTyped /\ SetupStages

(* The lists of steps; the four that are not optional are in both.           *)
LEMMA StepsAre ==
  ASSUME NEW r \in Setup!Runtimes
  PROVE  /\ Len(Setup!StepsOf(r)) \in {5, 7}
         /\ \A i \in 1 .. Len(Setup!StepsOf(r)) : Setup!StepsOf(r)[i] \in Marks
         /\ \A m \in {"node", "modules", "globals", "disable"} :
              \E i \in 1 .. Len(Setup!StepsOf(r)) : Setup!StepsOf(r)[i] = m
<1>1. CASE r = LoopRuntime
  <2>1. PICK s : s = Setup!StepsOf(r)
    OBVIOUS
  <2>2. s = <<"node", "modules", "globals", "disable", "harden">>
    BY <1>1, <2>1 DEF Setup!StepsOf
  <2>3. /\ Len(s) = 5 /\ s[1] = "node" /\ s[2] = "modules" /\ s[3] = "globals" /\ s[4] = "disable"
        /\ s[5] = "harden"
    BY <2>2
  <2>4. \A i \in 1 .. Len(s) : i \in {1, 2, 3, 4, 5}
    BY <2>3
  <2>5. \A i \in 1 .. Len(s) : s[i] \in Marks
    BY <2>3, <2>4 DEF Marks
  <2>6. \A m \in {"node", "modules", "globals", "disable"} : \E i \in 1 .. Len(s) : s[i] = m
    BY <2>3
  <2> QED
    BY <2>1, <2>3, <2>5, <2>6
<1>2. CASE r # LoopRuntime
  <2>1. PICK s : s = Setup!StepsOf(r)
    OBVIOUS
  <2>2. s = <<"polyfill", "node", "globals", "limiter", "disable", "modules", "harden">>
    BY <1>2, <2>1 DEF Setup!StepsOf
  <2>3. /\ Len(s) = 7 /\ s[1] = "polyfill" /\ s[2] = "node" /\ s[3] = "globals" /\ s[4] = "limiter"
        /\ s[5] = "disable" /\ s[6] = "modules" /\ s[7] = "harden"
    BY <2>2
  <2>4. \A i \in 1 .. Len(s) : i \in {1, 2, 3, 4, 5, 6, 7}
    BY <2>3
  <2>5. \A i \in 1 .. Len(s) : s[i] \in Marks
    BY <2>3, <2>4 DEF Marks
  <2>6. \A m \in {"node", "modules", "globals", "disable"} : \E i \in 1 .. Len(s) : s[i] = m
    BY <2>3
  <2> QED
    BY <2>1, <2>3, <2>5, <2>6
<1> QED
  BY <1>1, <1>2

(* A runtime that is set up has its modules, whichever optional steps failed.*)
LEMMA SetUpHasAll ==
  ASSUME NEW r \in Setup!Runtimes, RuntimesRight, Setup!SetUp(r)
  PROVE  {"node", "modules", "globals", "disable"} \subseteq setup_rt[r].done
<1>1. StepsTaken(setup_rt[r], Setup!StepsOf(r)) /\ setup_rt[r].at = Len(Setup!StepsOf(r)) + 1
  BY DEF RuntimesRight, RightRuntime, Setup!SetUp
<1>2. ASSUME NEW m \in {"node", "modules", "globals", "disable"} PROVE m \in setup_rt[r].done
  <2>1. PICK i \in 1 .. Len(Setup!StepsOf(r)) : Setup!StepsOf(r)[i] = m
    BY StepsAre
  <2>2. m \in setup_rt[r].done \cup Setup!Optional
    BY <1>1, <2>1, StepsAre DEF StepsTaken
  <2>3. m \notin Setup!Optional
    BY DEF Setup!Optional
  <2> QED
    BY <2>2, <2>3
<1> QED
  BY <1>2

(* A runtime that nothing was done with.                                     *)
LEMMA FreshIsRight ==
  ASSUME NEW r \in Setup!Runtimes, NEW x, x = Setup!Fresh \/ x = [Setup!Fresh EXCEPT !.at = 1]
  PROVE  RightRuntime(x, Setup!StepsOf(r))
<1>1. PICK at \in {0, 1} :
        x = [at |-> at, done |-> {}, globals |-> [g \in Setup!Globals |-> None], cache |-> <<>>,
             array |-> 0, bytes |-> 0, calls |-> 0]
  BY DEF Setup!Fresh
<1>2. x \in Runtime
  BY <1>1 DEF Runtime
<1>3. StepsTaken(x, Setup!StepsOf(r))
  BY <1>1, StepsAre DEF StepsTaken
<1>4. Unused(x)
  BY <1>1 DEF Unused
<1>5. LoadedIn(x.cache) = {}
  BY <1>1 DEF LoadedIn
<1>6. GlobalsTell(x.globals, x.cache)
  <2>1. x.globals = [g \in Setup!Globals |-> None]
    BY <1>1
  <2>2. \A l \in Setup!Library : Setup!NameOf(l) \in Setup!Globals
    BY DEF Setup!Library, Setup!NameOf, Setup!Globals
  <2> QED
    BY <1>5, <2>1, <2>2 DEF GlobalsTell, Setup!Globals
<1>7. GivesItself(x.cache) /\ WithinLimit(x)
  BY <1>1 DEF GivesItself, WithinLimit
<1> QED
  BY <1>2, <1>3, <1>4, <1>6, <1>7 DEF RightRuntime

(* One runtime changes.                                                      *)
LEMMA OneChanges ==
  ASSUME RuntimesRight, NEW r \in Setup!Runtimes, NEW y, RightRuntime(y, Setup!StepsOf(r)),
         setup_rt' = [setup_rt EXCEPT ![r] = y]
  PROVE  RuntimesRight'
<1>1. /\ DOMAIN setup_rt' = Setup!Runtimes
      /\ \A q \in Setup!Runtimes : setup_rt'[q] = IF q = r THEN y ELSE setup_rt[q]
  BY DEF RuntimesRight
<1>2. \A q \in Setup!Runtimes : RightRuntime(setup_rt'[q], Setup!StepsOf(q))
  BY <1>1 DEF RuntimesRight
<1>3. \E R : setup_rt' \in [Setup!Runtimes -> R]
  <2>1. PICK R : setup_rt \in [Setup!Runtimes -> R]
    BY DEF RuntimesRight
  <2>2. setup_rt' \in [Setup!Runtimes -> R \cup {y}]
    BY <2>1
  <2> QED
    BY <2>2
<1> QED
  BY <1>1, <1>2, <1>3 DEF RuntimesRight

(* The beginning.                                                            *)
LEMMA SetupBegins == ASSUME Setup!Init PROVE SetupInv
<1>1. \A r \in Setup!Runtimes : RightRuntime(Setup!Fresh, Setup!StepsOf(r))
  BY FreshIsRight
<1>2. RuntimesRight
  BY <1>1 DEF RuntimesRight, Setup!Init
<1>3. ProgramsTyped
  BY DEF ProgramsTyped, Setup!Init
<1>4. SetupStages
  BY DEF SetupStages, Setup!Init
<1> QED
  BY <1>2, <1>3, <1>4 DEF SetupInv

(* A step of the setting up.                                                 *)
LEMMA StepsGoOn == ASSUME SetupInv, NEW r \in Setup!Runtimes, Setup!SetupStep(r) PROVE SetupInv'
<1>1. PICK x : x = setup_rt[r]
  OBVIOUS
<1>2. PICK s : s = Setup!StepsOf(r)
  OBVIOUS
<1>3. RightRuntime(x, s) /\ RuntimesRight
  BY <1>1, <1>2 DEF SetupInv, RuntimesRight
<1>4. Len(s) \in {5, 7} /\ \A i \in 1 .. Len(s) : s[i] \in Marks
  BY <1>2, StepsAre
<1>5. PICK works \in BOOLEAN :
        /\ works = TRUE \/ s[x.at] \in Setup!MayFail
        /\ setup_rt' = [setup_rt EXCEPT ![r].at = IF works \/ s[x.at] \in Setup!Optional THEN @ + 1 ELSE -1,
                                        ![r].done = IF works THEN @ \cup ({s[x.at]} \ {"polyfill", "harden"}) ELSE @]
  BY <1>1, <1>2 DEF Setup!SetupStep
<1>6. x.at \in 1 .. Len(s) /\ setup_stage = (IF r = LoopRuntime THEN "serving" ELSE "pooling")
  BY <1>1, <1>2 DEF Setup!SetupStep
<1>7. PICK at : at = IF works \/ s[x.at] \in Setup!Optional THEN x.at + 1 ELSE -1
  OBVIOUS
<1>8. PICK done : done = IF works THEN x.done \cup ({s[x.at]} \ {"polyfill", "harden"}) ELSE x.done
  OBVIOUS
<1>9. PICK y : y = [x EXCEPT !.at = at, !.done = done]
  OBVIOUS
<1>10. setup_rt' = [setup_rt EXCEPT ![r] = y]
  BY <1>1, <1>3, <1>5, <1>7, <1>8, <1>9 DEF RuntimesRight
<1>11. x \in Runtime /\ Unused(x)
  BY <1>3, <1>4, <1>6 DEF RightRuntime
<1>12. y \in Runtime /\ y.cache = x.cache /\ y.globals = x.globals /\ Unused(y)
  <2>1. s[x.at] \in Marks /\ x.at \in Int /\ x.done \in SUBSET Marks
    BY <1>4, <1>6, <1>11 DEF Runtime
  <2>2. at \in Int
    BY <1>7, <2>1
  <2>3. done \in SUBSET Marks
    BY <1>8, <2>1
  <2>4. y \in Runtime
    BY <1>11, <1>9, <2>2, <2>3 DEF Runtime
  <2>5. /\ y.cache = x.cache /\ y.globals = x.globals /\ y.array = x.array /\ y.bytes = x.bytes
        /\ y.calls = x.calls
    BY <1>11, <1>9 DEF Runtime
  <2> QED
    BY <1>11, <2>4, <2>5 DEF Unused
<1>13. /\ y.at = IF works = TRUE \/ s[x.at] \in Setup!Optional THEN x.at + 1 ELSE -1
       /\ y.done = IF works = TRUE THEN x.done \cup ({s[x.at]} \ {"polyfill", "harden"}) ELSE x.done
  <2>1. y.at = at /\ y.done = done
    BY <1>11, <1>9 DEF Runtime
  <2> QED
    BY <1>7, <1>8, <2>1
<1>14. StepsTaken(y, s)
  <2>1. StepsTaken(x, s)
    BY <1>3 DEF RightRuntime
  <2>2. y.at <= Len(s) + 1
    BY <1>4, <1>6, <1>13
  <2>3. ASSUME NEW i \in 1 .. Len(s), i < y.at PROVE s[i] \in y.done \cup Setup!Optional
    <3>1. y.at = x.at + 1
      BY <1>13, <2>3
    <3>2. i < x.at \/ i = x.at
      BY <1>4, <1>6, <2>3, <3>1
    <3>3. x.done \subseteq y.done
      BY <1>13
    <3>4. CASE i < x.at
      BY <2>1, <3>3, <3>4 DEF StepsTaken
    <3>5. CASE i = x.at
      <4>1. y.at # -1
        BY <1>4, <1>6, <3>1
      <4>2. works = TRUE \/ s[i] \in Setup!Optional
        BY <1>13, <3>5, <4>1
      <4>3. CASE works = TRUE
        BY <1>13, <3>5, <4>3 DEF Setup!Optional
      <4> QED
        BY <4>2, <4>3
    <3> QED
      BY <3>2, <3>4, <3>5
  <2> QED
    BY <2>2, <2>3 DEF StepsTaken
<1>15. GlobalsTell(y.globals, y.cache) /\ GivesItself(y.cache)
  BY <1>3, <1>12 DEF RightRuntime
<1>16. WithinLimit(y)
  BY <1>12, SetupAssumption DEF WithinLimit, Unused
<1>17. RightRuntime(y, s)
  BY <1>12, <1>14, <1>15, <1>16 DEF RightRuntime
<1>18. RuntimesRight'
  BY <1>2, <1>3, <1>10, <1>17, OneChanges
<1>19. UNCHANGED <<setup_stage, setup_modules, setup_broken, setup_programs, setup_warmup, setup_pool>>
  BY DEF Setup!SetupStep
<1>20. SetupStages'
  <2>1. ASSUME setup_stage = "serving", NEW q \in PooledRuntimes PROVE setup_rt'[q] = setup_rt[q]
    BY <1>6, <1>10, <2>1, SetupAssumption DEF Setup!Runtimes
  <2> QED
    BY <1>19, <2>1 DEF SetupInv, SetupStages, Setup!SetUp
<1> QED
  BY <1>18, <1>19, <1>20 DEF SetupInv, ProgramsTyped

(* A runtime begins; the pool's before it serves, the loop's anew each time. *)
LEMMA RuntimesBegin ==
  ASSUME SetupInv, NEW r \in Setup!Runtimes, Setup!Make(r) \/ (Setup!StartLoop /\ r = LoopRuntime)
  PROVE  SetupInv'
<1>1. RightRuntime([Setup!Fresh EXCEPT !.at = 1], Setup!StepsOf(r))
  BY FreshIsRight
<1>2. RuntimesRight /\ RightRuntime(setup_rt[r], Setup!StepsOf(r))
  BY DEF SetupInv, RuntimesRight
<1>3. RuntimesRight'
  <2>1. CASE Setup!Make(r)
    <3>1. PICK x : x = setup_rt[r]
      OBVIOUS
    <3>2. x.at = 0 /\ setup_rt' = [setup_rt EXCEPT ![r].at = 1]
      BY <2>1, <3>1 DEF Setup!Make
    <3>3. PICK y : y = [x EXCEPT !.at = 1]
      OBVIOUS
    <3>4. setup_rt' = [setup_rt EXCEPT ![r] = y]
      BY <1>2, <3>1, <3>2, <3>3 DEF RuntimesRight
    <3>5. x \in Runtime /\ Unused(x)
      BY <1>2, <3>1, <3>2, StepsAre DEF RightRuntime
    <3>6. y \in Runtime /\ Unused(y) /\ y.at = 1 /\ y.cache = x.cache /\ y.globals = x.globals
      BY <3>3, <3>5 DEF Runtime, Unused
    <3>7. StepsTaken(y, Setup!StepsOf(r))
      BY <3>6, StepsAre DEF StepsTaken
    <3>8. GlobalsTell(y.globals, y.cache) /\ GivesItself(y.cache)
      BY <1>2, <3>1, <3>6 DEF RightRuntime
    <3>9. WithinLimit(y)
      BY <3>6, SetupAssumption DEF WithinLimit, Unused
    <3>10. RightRuntime(y, Setup!StepsOf(r))
      BY <3>6, <3>7, <3>8, <3>9 DEF RightRuntime
    <3> QED
      BY <1>2, <3>4, <3>10, OneChanges
  <2>2. CASE Setup!StartLoop /\ r = LoopRuntime
    <3>1. setup_rt' = [setup_rt EXCEPT ![r] = [Setup!Fresh EXCEPT !.at = 1]]
      BY <2>2 DEF Setup!StartLoop
    <3> QED
      BY <1>1, <1>2, <3>1, OneChanges
  <2> QED
    BY <2>1, <2>2
<1>4. UNCHANGED <<setup_stage, setup_modules, setup_broken, setup_programs, setup_warmup, setup_pool>>
  BY DEF Setup!Make, Setup!StartLoop
<1>5. SetupStages'
  <2>1. ASSUME setup_stage = "serving", NEW q \in PooledRuntimes PROVE setup_rt'[q] = setup_rt[q]
    <3>1. Setup!StartLoop /\ r = LoopRuntime
      BY <2>1 DEF Setup!Make
    <3>2. setup_rt' = [setup_rt EXCEPT ![LoopRuntime] = [Setup!Fresh EXCEPT !.at = 1]]
      BY <3>1 DEF Setup!StartLoop
    <3>3. q # LoopRuntime
      BY SetupAssumption
    <3> QED
      BY <1>2, <3>2, <3>3 DEF RuntimesRight, Setup!Runtimes
  <2> QED
    BY <1>4, <2>1 DEF SetupInv, SetupStages, Setup!SetUp
<1> QED
  BY <1>3, <1>4, <1>5 DEF SetupInv, ProgramsTyped

(* A library's program is compiled at most once.                             *)
LEMMA CompiledStays ==
  ASSUME ProgramsTyped, NEW l \in Setup!Library
  PROVE  Setup!CompileOnce(l) \in [Setup!Library -> [compiled : {0, 1}, ok : BOOLEAN]]
<1>1. CASE setup_programs[l].compiled > 0
  BY <1>1 DEF ProgramsTyped, Setup!CompileOnce
<1>2. CASE ~(setup_programs[l].compiled > 0)
  <2>1. Setup!CompileOnce(l) = [setup_programs EXCEPT ![l] = [compiled |-> 1, ok |-> l \notin setup_broken]]
    BY <1>2 DEF Setup!CompileOnce
  <2>2. [compiled |-> 1, ok |-> l \notin setup_broken] \in [compiled : {0, 1}, ok : BOOLEAN]
    OBVIOUS
  <2> QED
    BY <2>1, <2>2 DEF ProgramsTyped
<1> QED
  BY <1>1, <1>2

(* The globals' names of the libraries are different.                        *)
LEMMA NamesApart ==
  /\ \A l \in Setup!Library : Setup!NameOf(l) \in Setup!Globals /\ Setup!NameOf(l) # "module"
  /\ \A l, m \in Setup!Library : Setup!NameOf(l) = Setup!NameOf(m) => l = m
<1>1. /\ Setup!NameOf("crypto-js") = "CryptoJS" /\ Setup!NameOf("lodash") = "_"
      /\ Setup!NameOf("fast-xml-parser") = "fxp" /\ Setup!NameOf("axios") = "axios"
      /\ Setup!NameOf("dayjs") = "dayjs"
  BY DEF Setup!NameOf
<1> QED
  BY <1>1 DEF Setup!Library, Setup!Globals

(* What loading a library that is not loaded does to the globals: its global *)
(* is set, to nothing for crypto-js where there is a module, and a module    *)
(* stays as soon as there was one or lodash or dayjs comes.                  *)
LoadedInto(g, h, l) ==
  /\ h \in [Setup!Globals -> Setup!Library \cup {None}]
  /\ \A k \in Setup!Globals \ {Setup!NameOf(l), "module"} : h[k] = g[k]
  /\ h[Setup!NameOf(l)] = IF l = "crypto-js" /\ g["module"] # None THEN None ELSE l
  /\ (h["module"] # None) <=> (g["module"] # None \/ l \in {"lodash", "dayjs"})

LEMMA LoadingTells ==
  ASSUME NEW cache, NEW g \in [Setup!Globals -> Setup!Library \cup {None}], GlobalsTell(g, cache),
         NEW l \in Setup!Library, l \notin LoadedIn(cache)
  PROVE  LoadedInto(g, Setup!Loaded(g, l), l)
<1>1. PICK h : h = Setup!Loaded(g, l)
  OBVIOUS
<1>2. PICK n : n = Setup!NameOf(l)
  OBVIOUS
<1>3. g[n] = None /\ None # l
  BY <1>2, SetupAssumption DEF GlobalsTell
<1>4. n \in Setup!Globals /\ n # "module" /\ "module" \in Setup!Globals
  BY <1>2, NamesApart DEF Setup!Globals
<1>5. ASSUME NEW u \in Setup!Library \cup {None}, NEW v \in Setup!Library \cup {None},
             h = [g EXCEPT ![n] = u, !["module"] = v],
             u = IF l = "crypto-js" /\ g["module"] # None THEN None ELSE l,
             (v # None) <=> (g["module"] # None \/ l \in {"lodash", "dayjs"})
      PROVE  LoadedInto(g, h, l)
  <2>1. h \in [Setup!Globals -> Setup!Library \cup {None}] /\ h[n] = u /\ h["module"] = v
    BY <1>4, <1>5
  <2>2. \A k \in Setup!Globals \ {n, "module"} : h[k] = g[k]
    BY <1>4, <1>5
  <2> QED
    BY <1>2, <1>5, <2>1, <2>2 DEF LoadedInto
<1>6. g = [g EXCEPT ![n] = None] /\ g["module"] \in Setup!Library \cup {None}
  BY <1>3, <1>4
<1>7. CASE l = "crypto-js"
  <2>1. n = "CryptoJS"
    BY <1>2, <1>7 DEF Setup!NameOf
  <2>2. h = IF g["module"] # None THEN [g EXCEPT !["module"] = "crypto-js"] ELSE [g EXCEPT !["CryptoJS"] = "crypto-js"]
    BY <1>1, <1>7 DEF Setup!Loaded, Setup!LoadCryptoJS
  <2>3. CASE g["module"] # None
    <3>1. h = [g EXCEPT ![n] = None, !["module"] = l]
      BY <1>3, <1>4, <1>7, <2>2, <2>3
    <3> QED
      BY <1>1, <1>3, <1>5, <1>7, <2>3, <3>1
  <2>4. CASE g["module"] = None
    <3>1. h = [g EXCEPT ![n] = l, !["module"] = None]
      BY <1>4, <1>7, <2>1, <2>2, <2>4
    <3> QED
      BY <1>1, <1>3, <1>5, <1>7, <2>4, <3>1
  <2> QED
    BY <1>1, <2>3, <2>4
<1>8. CASE l = "axios"
  <2>1. n = "axios"
    BY <1>2, <1>8 DEF Setup!NameOf
  <2>2. h = [g EXCEPT !["axios"] = "axios", !["module"] = IF @ # None THEN "axios" ELSE None]
    BY <1>1, <1>8 DEF Setup!Loaded, Setup!LoadAxios
  <2>3. CASE g["module"] # None
    <3>1. h = [g EXCEPT ![n] = l, !["module"] = l]
      BY <1>4, <1>8, <2>1, <2>2, <2>3
    <3> QED
      BY <1>1, <1>3, <1>5, <1>8, <2>3, <3>1
  <2>4. CASE g["module"] = None
    <3>1. h = [g EXCEPT ![n] = l, !["module"] = None]
      BY <1>4, <1>8, <2>1, <2>2, <2>4
    <3> QED
      BY <1>1, <1>3, <1>5, <1>8, <2>4, <3>1
  <2> QED
    BY <2>3, <2>4
<1>9. CASE l = "fast-xml-parser"
  <2>1. n = "fxp"
    BY <1>2, <1>9 DEF Setup!NameOf
  <2>2. h = [g EXCEPT !["fxp"] = "fast-xml-parser"]
    BY <1>1, <1>3, <1>9, <2>1 DEF Setup!Loaded, Setup!LoadFastXMLParser
  <2>3. h = [g EXCEPT ![n] = l, !["module"] = g["module"]]
    BY <1>4, <1>9, <2>1, <2>2
  <2> QED
    BY <1>1, <1>3, <1>5, <1>6, <1>9, <2>3
<1>10. CASE l \in {"lodash", "dayjs"}
  <2>1. h = [g EXCEPT !["module"] = l, ![Setup!NameOf(l)] = l]
    BY <1>1, <1>2, <1>3, <1>10 DEF Setup!Loaded, Setup!LoadUMD
  <2>2. h = [g EXCEPT ![n] = l, !["module"] = l]
    BY <1>2, <1>4, <2>1
  <2> QED
    BY <1>1, <1>3, <1>5, <1>10, <2>2
<1> QED
  BY <1>1, <1>7, <1>8, <1>9, <1>10 DEF Setup!Library

(* A library that comes to those that are loaded.                            *)
LEMMA OneMoreLoaded ==
  ASSUME NEW T, NEW cache \in Seq(T), NEW e \in T
  PROVE  /\ Len(Append(cache, e)) = Len(cache) + 1
         /\ \A i \in 1 .. Len(cache) : Append(cache, e)[i] = cache[i]
         /\ Append(cache, e)[Len(cache) + 1] = e
         /\ LoadedIn(Append(cache, e)) = LoadedIn(cache) \cup {e.name}
<1>1. PICK c : c = Append(cache, e)
  OBVIOUS
<1>2. /\ Len(c) = Len(cache) + 1 /\ Len(cache) \in Nat
      /\ \A i \in 1 .. Len(cache) : c[i] = cache[i] /\ i \in 1 .. Len(c)
      /\ c[Len(cache) + 1] = e /\ Len(cache) + 1 \in 1 .. Len(c)
      /\ \A i \in 1 .. Len(c) : i \in 1 .. Len(cache) \/ i = Len(cache) + 1
  BY <1>1
<1>3. ASSUME NEW n \in LoadedIn(c) PROVE n \in LoadedIn(cache) \cup {e.name}
  BY <1>2, <1>3 DEF LoadedIn
<1>4. ASSUME NEW n \in LoadedIn(cache) \cup {e.name} PROVE n \in LoadedIn(c)
  <2>1. CASE n = e.name
    BY <1>2, <2>1 DEF LoadedIn
  <2>2. CASE n \in LoadedIn(cache)
    <3>1. PICK i \in 1 .. Len(cache) : n = cache[i].name
      BY <2>2 DEF LoadedIn
    <3> QED
      BY <1>2, <3>1 DEF LoadedIn
  <2> QED
    BY <1>4, <2>1, <2>2
<1> QED
  BY <1>1, <1>2, <1>3, <1>4

(* The globals and the cache of a runtime that has loaded one more library.  *)
LEMMA LibraryComes ==
  ASSUME NEW T, NEW cache \in Seq(T), NEW e \in T, NEW g, NEW h, NEW l \in Setup!Library,
         l \notin LoadedIn(cache), GlobalsTell(g, cache), GivesItself(cache), LoadedInto(g, h, l),
         e.name = l, e.exports = h[Setup!NameOf(l)]
  PROVE  GlobalsTell(h, Append(cache, e)) /\ GivesItself(Append(cache, e))
<1>1. PICK c : c = Append(cache, e)
  OBVIOUS
<1>2. /\ Len(c) = Len(cache) + 1 /\ Len(cache) \in Nat
      /\ \A i \in 1 .. Len(cache) : c[i] = cache[i]
      /\ c[Len(cache) + 1] = e
      /\ LoadedIn(c) = LoadedIn(cache) \cup {l}
  BY <1>1, OneMoreLoaded
<1>3. h[Setup!NameOf(l)] \in {None, l}
  BY DEF LoadedInto
<1>4. GlobalsTell(h, c)
  <2>1. ASSUME NEW m \in Setup!Library
        PROVE  h[Setup!NameOf(m)] \in {None, m} /\ (m \notin LoadedIn(c) => h[Setup!NameOf(m)] = None)
    <3>1. CASE m = l
      BY <1>2, <1>3, <3>1
    <3>2. CASE m # l
      <4>1. h[Setup!NameOf(m)] = g[Setup!NameOf(m)]
        BY <3>2, NamesApart DEF LoadedInto
      <4> QED
        BY <1>2, <4>1 DEF GlobalsTell
    <3> QED
      BY <3>1, <3>2
  <2>2. (h["module"] # None) <=> (LoadedIn(c) \cap {"lodash", "dayjs"} # {})
    <3>1. (LoadedIn(c) \cap {"lodash", "dayjs"} # {})
          <=> (LoadedIn(cache) \cap {"lodash", "dayjs"} # {} \/ l \in {"lodash", "dayjs"})
      BY <1>2
    <3> QED
      BY <3>1 DEF GlobalsTell, LoadedInto
  <2> QED
    BY <2>1, <2>2 DEF GlobalsTell
<1>5. GivesItself(c)
  <2>1. ASSUME NEW i \in 1 .. Len(c)
        PROVE  c[i].exports = IF /\ c[i].name = "crypto-js"
                                 /\ {c[j].name : j \in 1 .. i - 1} \cap {"lodash", "dayjs"} # {}
                              THEN None ELSE c[i].name
    <3>1. {c[j].name : j \in 1 .. i - 1} = {cache[j].name : j \in 1 .. i - 1}
      <4>1. \A j \in 1 .. i - 1 : c[j] = cache[j]
        BY <1>2
      <4> QED
        BY <4>1
    <3>2. CASE i \in 1 .. Len(cache)
      BY <1>2, <3>1, <3>2 DEF GivesItself
    <3>3. CASE i = Len(cache) + 1
      <4>1. {c[j].name : j \in 1 .. i - 1} = LoadedIn(cache)
        BY <1>2, <3>1, <3>3 DEF LoadedIn
      <4>2. c[i] = e
        BY <1>2, <3>3
      <4>3. (LoadedIn(cache) \cap {"lodash", "dayjs"} # {}) <=> (g["module"] # None)
        BY DEF GlobalsTell
      <4> QED
        BY <4>1, <4>2, <4>3 DEF LoadedInto
    <3>4. i \in 1 .. Len(cache) \/ i = Len(cache) + 1
      BY <1>2
    <3> QED
      BY <3>2, <3>3, <3>4
  <2> QED
    BY <2>1 DEF GivesItself
<1> QED
  BY <1>1, <1>4, <1>5

(* require.                                                                  *)
LEMMA Requires ==
  ASSUME SetupInv, NEW r \in Setup!Runtimes, NEW l \in Setup!Library, Setup!Require(r, l)
  PROVE  SetupInv'
<1>1. PICK x : x = setup_rt[r]
  OBVIOUS
<1>2. RuntimesRight /\ RightRuntime(x, Setup!StepsOf(r)) /\ x \in Runtime
  BY <1>1 DEF SetupInv, RuntimesRight, RightRuntime
<1>3. l \notin LoadedIn(x.cache)
  <2>1. ~\E i \in DOMAIN x.cache : x.cache[i].name = l
    BY <1>1 DEF Setup!Require, Setup!Known
  <2>2. DOMAIN x.cache = 1 .. Len(x.cache)
    BY <1>2 DEF Runtime
  <2> QED
    BY <2>1, <2>2 DEF LoadedIn
<1>4. /\ x.globals \in [Setup!Globals -> Setup!Library \cup {None}]
      /\ x.cache \in Seq([name : Setup!Library, exports : Setup!Library \cup {None}])
      /\ GlobalsTell(x.globals, x.cache) /\ GivesItself(x.cache)
  BY <1>2 DEF RightRuntime, Runtime
<1>5. PICK h : h = Setup!Loaded(x.globals, l)
  OBVIOUS
<1>6. LoadedInto(x.globals, h, l)
  BY <1>3, <1>4, <1>5, LoadingTells
<1>7. PICK e : e = [name |-> l, exports |-> h[Setup!NameOf(l)]]
  OBVIOUS
<1>8. e \in [name : Setup!Library, exports : Setup!Library \cup {None}]
  BY <1>6, <1>7 DEF LoadedInto
<1>9. PICK cache : cache = Append(x.cache, e)
  OBVIOUS
<1>10. GlobalsTell(h, cache) /\ GivesItself(cache)
  BY <1>3, <1>4, <1>6, <1>7, <1>8, <1>9, LibraryComes
<1>11. PICK y : y = [x EXCEPT !.globals = h, !.cache = cache]
  OBVIOUS
<1>12. setup_rt' = [setup_rt EXCEPT ![r] = y]
  BY <1>1, <1>2, <1>5, <1>7, <1>9, <1>11 DEF Setup!Require, RuntimesRight
<1>13. /\ y.globals = h /\ y.cache = cache /\ y.at = x.at /\ y.done = x.done
       /\ y.array = x.array /\ y.bytes = x.bytes
  BY <1>2, <1>11 DEF Runtime
<1>14. cache \in Seq([name : Setup!Library, exports : Setup!Library \cup {None}])
  BY <1>4, <1>8, <1>9
<1>15. y \in Runtime
  BY <1>2, <1>6, <1>11, <1>14 DEF Runtime, LoadedInto
<1>16. Setup!SetUp(r) /\ setup_stage = "serving"
  BY DEF Setup!Require, Setup!Serves
<1>17. RightRuntime(y, Setup!StepsOf(r))
  BY <1>1, <1>2, <1>10, <1>13, <1>15, <1>16 DEF RightRuntime, Setup!SetUp, StepsTaken, WithinLimit
<1>18. RuntimesRight'
  BY <1>2, <1>12, <1>17, OneChanges
<1>19. ProgramsTyped'
  <2>1. setup_programs' = Setup!CompileOnce(l)
    BY DEF Setup!Require
  <2> QED
    BY <2>1, CompiledStays DEF SetupInv, ProgramsTyped
<1>20. SetupStages'
  <2>1. UNCHANGED <<setup_stage, setup_modules, setup_broken, setup_warmup, setup_pool>>
    BY DEF Setup!Require
  <2>2. \A q \in Setup!Runtimes : setup_rt'[q].at = setup_rt[q].at
    BY <1>1, <1>2, <1>12, <1>13 DEF RuntimesRight
  <2>3. PooledRuntimes \subseteq Setup!Runtimes
    BY DEF Setup!Runtimes
  <2> QED
    BY <2>1, <2>2, <2>3 DEF SetupInv, SetupStages, Setup!SetUp
<1> QED
  BY <1>18, <1>19, <1>20 DEF SetupInv

(* What the constructors of a code and its pushes make.                      *)
LEMMA Allocates ==
  ASSUME SetupInv, NEW r \in Setup!Runtimes, NEW array \in Int, NEW bytes \in Int, Setup!Allocates(r),
         NEW y, y = [setup_rt[r] EXCEPT !.array = array, !.bytes = bytes, !.calls = setup_rt[r].calls + 1],
         setup_rt' = [setup_rt EXCEPT ![r] = y],
         Setup!Limited(r) => array <= AllocationLimit /\ bytes <= AllocationLimit,
         UNCHANGED <<setup_stage, setup_modules, setup_broken, setup_programs, setup_warmup, setup_pool>>
  PROVE  SetupInv'
<1>1. PICK x : x = setup_rt[r]
  OBVIOUS
<1>2. RuntimesRight /\ RightRuntime(x, Setup!StepsOf(r)) /\ x \in Runtime
  BY <1>1 DEF SetupInv, RuntimesRight, RightRuntime
<1>3. y = [x EXCEPT !.array = array, !.bytes = bytes, !.calls = x.calls + 1] /\ x.calls + 1 \in Nat
  BY <1>1, <1>2 DEF Runtime
<1>4. setup_rt' = [setup_rt EXCEPT ![r] = y]
  OBVIOUS
<1>5. /\ y.globals = x.globals /\ y.cache = x.cache /\ y.at = x.at /\ y.done = x.done
      /\ y.array = array /\ y.bytes = bytes
  BY <1>2, <1>3 DEF Runtime
<1>6. y \in Runtime
  BY <1>2, <1>3 DEF Runtime
<1>7. Setup!SetUp(r)
  BY DEF Setup!Allocates, Setup!Serves
<1>8. RightRuntime(y, Setup!StepsOf(r))
  BY <1>1, <1>2, <1>5, <1>6, <1>7 DEF RightRuntime, Setup!SetUp, StepsTaken, WithinLimit, Setup!Limited
<1>9. RuntimesRight'
  BY <1>2, <1>4, <1>8, OneChanges
<1>10. SetupStages'
  <2>1. \A q \in Setup!Runtimes : setup_rt'[q].at = setup_rt[q].at
    BY <1>1, <1>2, <1>4, <1>5 DEF RuntimesRight
  <2>2. PooledRuntimes \subseteq Setup!Runtimes
    BY DEF Setup!Runtimes
  <2> QED
    BY <2>1, <2>2 DEF SetupInv, SetupStages, Setup!SetUp
<1> QED
  BY <1>9, <1>10 DEF SetupInv, ProgramsTyped

LEMMA NewArrays ==
  ASSUME SetupInv, NEW r \in Setup!Runtimes, NEW n \in AllocationNumbers,
         Setup!NewArray(r, n) \/ Setup!Push(r, n) \/ \E bytes \in {1, 2, 4, 8} : Setup!NewBuffer(r, n, bytes)
  PROVE  SetupInv'
<1>1. PICK x : x = setup_rt[r]
  OBVIOUS
<1>2. RuntimesRight /\ RightRuntime(x, Setup!StepsOf(r)) /\ x \in Runtime
  BY <1>1 DEF SetupInv, RuntimesRight, RightRuntime
<1>3. /\ x.array \in Int /\ x.bytes \in Int /\ n \in Int /\ AllocationLimit \in Nat
      /\ Setup!Limited(r) => x.array <= AllocationLimit /\ x.bytes <= AllocationLimit
  BY <1>1, <1>2, SetupAssumption DEF Runtime, RightRuntime, WithinLimit, Setup!Limited
<1>4. ASSUME NEW array \in Int, NEW bytes \in Int, Setup!Allocates(r),
             setup_rt' = [setup_rt EXCEPT ![r].array = array, ![r].bytes = bytes, ![r].calls = @ + 1],
             Setup!Limited(r) => array <= AllocationLimit /\ bytes <= AllocationLimit,
             UNCHANGED <<setup_stage, setup_modules, setup_broken, setup_programs, setup_warmup, setup_pool>>
      PROVE  SetupInv'
  <2>1. PICK y : y = [setup_rt[r] EXCEPT !.array = array, !.bytes = bytes, !.calls = setup_rt[r].calls + 1]
    OBVIOUS
  <2>2. setup_rt' = [setup_rt EXCEPT ![r] = y]
    BY <1>2, <1>4, <2>1 DEF RuntimesRight
  <2> QED
    BY <1>4, <2>1, <2>2, Allocates
<1>5. CASE Setup!NewArray(r, n)
  <2>1. setup_rt' = [setup_rt EXCEPT ![r].array = n, ![r].bytes = x.bytes, ![r].calls = @ + 1]
    BY <1>1, <1>2, <1>5 DEF Setup!NewArray, RuntimesRight, Runtime
  <2>2. Setup!Limited(r) => n <= AllocationLimit /\ x.bytes <= AllocationLimit
    BY <1>3, <1>5 DEF Setup!NewArray
  <2> QED
    BY <1>3, <1>4, <1>5, <2>1, <2>2 DEF Setup!NewArray
<1>6. CASE Setup!Push(r, n)
  <2>1. setup_rt' = [setup_rt EXCEPT ![r].array = x.array + n, ![r].bytes = x.bytes, ![r].calls = @ + 1]
    BY <1>1, <1>2, <1>6 DEF Setup!Push, RuntimesRight, Runtime
  <2>2. Setup!Limited(r) => (x.array + n) * 8 <= AllocationLimit
    BY <1>1, <1>6 DEF Setup!Push
  <2>3. Setup!Limited(r) => x.array + n <= AllocationLimit /\ x.bytes <= AllocationLimit
    BY <1>3, <2>2
  <2>4. /\ x.array + n \in Int /\ Setup!Allocates(r)
        /\ UNCHANGED <<setup_stage, setup_modules, setup_broken, setup_programs, setup_warmup, setup_pool>>
    BY <1>3, <1>6 DEF Setup!Push
  <2> QED
    BY <1>3, <1>4, <2>1, <2>3, <2>4
<1>7. ASSUME NEW width \in {1, 2, 4, 8}, Setup!NewBuffer(r, n, width) PROVE SetupInv'
  <2>1. setup_rt' = [setup_rt EXCEPT ![r].array = x.array, ![r].bytes = n * width, ![r].calls = @ + 1]
    BY <1>1, <1>2, <1>7 DEF Setup!NewBuffer, RuntimesRight, Runtime
  <2>2. Setup!Limited(r) => x.array <= AllocationLimit /\ n * width <= AllocationLimit
    BY <1>3, <1>7 DEF Setup!NewBuffer, Setup!CountsBytes
  <2>3. n * width \in Int
    BY <1>3
  <2> QED
    BY <1>3, <1>4, <1>7, <2>1, <2>2, <2>3 DEF Setup!NewBuffer
<1> QED
  BY <1>5, <1>6, <1>7

(* The process: the libraries are compiled, then the pool is made.           *)
LEMMA ProcessGoesOn ==
  ASSUME SetupInv, Setup!Register \/ Setup!Warm \/ Setup!Collect \/ Setup!CloseAll
  PROVE  SetupInv'
<1>1. CASE Setup!Register
  BY <1>1 DEF Setup!Register, SetupInv, RuntimesRight, ProgramsTyped, SetupStages
<1>2. CASE Setup!Warm
  <2>1. UNCHANGED <<setup_modules, setup_broken, setup_rt, setup_pool>> /\ setup_stage = "warming"
    BY <1>2 DEF Setup!Warm
  <2>2. /\ setup_stage' \in {"fatal", "pooling", "warming"}
        /\ setup_stage' = "pooling" => setup_warmup'.status = "completed"
    BY <1>2 DEF Setup!Warm
  <2>3. PICK m : m = Setup!ToWarm[Len(setup_warmup.modules) + 1]
    OBVIOUS
  <2>4. setup_programs' = IF m \in Setup!Library THEN Setup!CompileOnce(m) ELSE setup_programs
    BY <1>2, <2>3 DEF Setup!Warm
  <2>5. ProgramsTyped'
    BY <2>4, CompiledStays DEF SetupInv, ProgramsTyped
  <2>6. SetupStages'
    BY <2>1, <2>2 DEF SetupInv, SetupStages
  <2> QED
    BY <2>1, <2>5, <2>6 DEF SetupInv, RuntimesRight
<1>3. CASE Setup!Collect
  <2>1. UNCHANGED <<setup_modules, setup_broken, setup_programs, setup_warmup, setup_rt>>
        /\ setup_stage = "pooling"
    BY <1>3 DEF Setup!Collect
  <2>2. SetupStages'
    BY <1>3, <2>1 DEF Setup!Collect, SetupInv, SetupStages, Setup!SetUp
  <2> QED
    BY <2>1, <2>2 DEF SetupInv, RuntimesRight, ProgramsTyped
<1>4. CASE Setup!CloseAll
  <2>1. /\ setup_rt' = [r \in Setup!Runtimes |-> Setup!Fresh] /\ setup_stage' = "closed" /\ setup_pool' = {}
        /\ UNCHANGED <<setup_modules, setup_broken, setup_programs, setup_warmup>>
    BY <1>4 DEF Setup!CloseAll
  <2>3. \A r \in Setup!Runtimes : RightRuntime(Setup!Fresh, Setup!StepsOf(r))
    BY FreshIsRight
  <2>4. RuntimesRight'
    BY <2>1, <2>3 DEF RuntimesRight
  <2>5. SetupStages'
    BY <2>1 DEF SetupStages
  <2> QED
    BY <2>1, <2>4, <2>5 DEF SetupInv, ProgramsTyped
<1> QED
  BY <1>1, <1>2, <1>3, <1>4

LEMMA SetupGoesOn == ASSUME SetupInv, [Setup!Next]_setup_vars PROVE SetupInv'
<1>1. CASE UNCHANGED setup_vars
  BY <1>1 DEF SetupInv, RuntimesRight, ProgramsTyped, SetupStages, Setup!SetUp, setup_vars
<1>2. CASE Setup!Register \/ Setup!Warm \/ Setup!Collect \/ Setup!CloseAll
  BY <1>2, ProcessGoesOn
<1>3. CASE Setup!StartLoop
  <2>1. LoopRuntime \in Setup!Runtimes
    BY DEF Setup!Runtimes
  <2> QED
    BY <1>3, <2>1, RuntimesBegin
<1>4. ASSUME NEW r \in Setup!Runtimes, Setup!Make(r) \/ Setup!SetupStep(r) \/ Setup!Use(r) PROVE SetupInv'
  <2>1. CASE Setup!Make(r)
    BY <2>1, RuntimesBegin
  <2>2. CASE Setup!SetupStep(r)
    BY <2>2, StepsGoOn
  <2>3. CASE Setup!Use(r)
    <3>1. ASSUME NEW l \in Setup!Library, Setup!Require(r, l) PROVE SetupInv'
      BY <3>1, Requires
    <3>2. ASSUME NEW n \in AllocationNumbers,
                 Setup!NewArray(r, n) \/ Setup!Push(r, n) \/ \E bytes \in {1, 2, 4, 8} : Setup!NewBuffer(r, n, bytes)
          PROVE  SetupInv'
      BY <3>2, NewArrays
    <3> QED
      BY <2>3, <3>1, <3>2 DEF Setup!Use
  <2> QED
    BY <1>4, <2>1, <2>2, <2>3
<1> QED
  BY <1>1, <1>2, <1>3, <1>4 DEF Setup!Next

(* What that shows.                                                          *)
LEMMA SetupServes == SetupInv => Setup!SetupHolds
<1> SUFFICES ASSUME SetupInv PROVE Setup!SetupHolds
  OBVIOUS
<1>1. RuntimesRight /\ SetupStages /\ ProgramsTyped
  BY DEF SetupInv
<1>2. Setup!ServedComplete
  <2>1. setup_pool \in {{}, PooledRuntimes}
    BY <1>1 DEF SetupStages
  <2>2. ASSUME NEW r \in Setup!Runtimes, r \in setup_pool \/ setup_rt[r].cache # <<>> \/ setup_rt[r].calls > 0
        PROVE  Setup!SetUp(r) /\ {"node", "modules", "globals", "disable"} \subseteq setup_rt[r].done
    <3>1. Setup!SetUp(r)
      <4>1. CASE r \in setup_pool
        BY <1>1, <4>1 DEF SetupStages
      <4>2. CASE setup_rt[r].cache # <<>> \/ setup_rt[r].calls > 0
        BY <1>1, <4>2 DEF RuntimesRight, RightRuntime, Unused, Setup!SetUp
      <4> QED
        BY <2>2, <4>1, <4>2
    <3> QED
      BY <1>1, <3>1, SetUpHasAll
  <2>3. setup_stage = "serving" => setup_warmup.status = "completed" /\ setup_pool = PooledRuntimes
    BY <1>1 DEF SetupStages
  <2>4. setup_stage = "fatal" => setup_pool = {}
    BY <1>1 DEF SetupStages
  <2> QED
    BY <2>1, <2>2, <2>3, <2>4 DEF Setup!ServedComplete
<1>3. Setup!CompiledOnce
  BY <1>1 DEF Setup!CompiledOnce, ProgramsTyped
<1>4. Setup!OwnLibrary
  <2>1. ASSUME NEW r \in Setup!Runtimes, NEW i \in DOMAIN setup_rt[r].cache
        PROVE  LET m == setup_rt[r].cache[i]
                   after == {setup_rt[r].cache[j].name : j \in 1 .. (i - 1)}
               IN m.exports = IF m.name = "crypto-js" /\ after \cap {"lodash", "dayjs"} # {} THEN None ELSE m.name
    <3>1. setup_rt[r] \in Runtime /\ GivesItself(setup_rt[r].cache)
      BY <1>1 DEF RuntimesRight, RightRuntime
    <3>2. DOMAIN setup_rt[r].cache = 1 .. Len(setup_rt[r].cache)
      BY <3>1 DEF Runtime
    <3> QED
      BY <3>1, <3>2 DEF GivesItself
  <2> QED
    BY <2>1 DEF Setup!OwnLibrary
<1>5. Setup!AllocationsBounded
  BY <1>1 DEF RuntimesRight, RightRuntime, WithinLimit, Setup!AllocationsBounded, Setup!Limited
<1> QED
  BY <1>2, <1>3, <1>4, <1>5 DEF Setup!SetupHolds

-----------------------------------------------------------------------------
(***************************************************************************)
(* Blobs. What a Blob lies in is no ArrayBuffer's; a request that is sent  *)
(* from an ArrayBuffer remembers what stood there.                         *)
(***************************************************************************)

(* What begins at 0 and goes on by one reaches every number up to n.         *)
LEMMA OneByOne ==
  ASSUME NEW n \in Nat, NEW N, 0 \in N, \A i \in 0 .. n - 1 : i \in N => i + 1 \in N
  PROVE  \A i \in 0 .. n : i \in N
<1>1. PICK bad : bad = {i \in 0 .. n : i \notin N}
  OBVIOUS
<1>2. ASSUME bad # {} PROVE FALSE
  <2>1. bad \in SUBSET Int /\ IsFiniteSet(bad)
    <3>1. IsFiniteSet(0 .. n) /\ bad \subseteq 0 .. n
      BY <1>1, FS_Interval
    <3>2. IsFiniteSet(bad)
      BY <3>1, FS_Subset
    <3> QED
      BY <3>1, <3>2
  <2>2. PICK m : m = Min(bad)
    OBVIOUS
  <2>3. m \in bad /\ \A x \in bad : m <= x
    BY <1>2, <2>1, <2>2, Extremes
  <2>4. m \in 0 .. n /\ m \notin N /\ m # 0
    BY <1>1, <2>3
  <2>5. m - 1 \in 0 .. n - 1 /\ m - 1 \notin bad
    BY <2>3, <2>4
  <2>6. m - 1 \in N
    BY <1>1, <2>5
  <2>7. (m - 1) + 1 \in N
    BY <2>5, <2>6
  <2> QED
    BY <2>4, <2>7
<1> QED
  BY <1>1, <1>2

(* The parts of a sequence of sequences, one after the other.                *)
Joins(g, s, n) == g = [i \in 1 .. n |-> IF i = 1 THEN s[i] ELSE g[i - 1] \o s[i]]

LEMMA JoinedUp ==
  ASSUME NEW S, NEW s \in Seq(Seq(S)), NEW n \in 1 .. Len(s), NEW g, Joins(g, s, n)
  PROVE  \A i \in 1 .. n : g[i] \in Seq(S)
<1>1. PICK N : N = {i \in 0 .. n : i = 0 \/ g[i] \in Seq(S)}
  OBVIOUS
<1>2. n \in Nat /\ \A i \in 1 .. n : s[i] \in Seq(S)
  OBVIOUS
<1>3. \A i \in 1 .. n : g[i] = IF i = 1 THEN s[i] ELSE g[i - 1] \o s[i]
  BY DEF Joins
<1>4. ASSUME NEW i \in 0 .. n - 1, i \in N PROVE i + 1 \in N
  <2>1. i + 1 \in 1 .. n
    BY <1>2
  <2>2. CASE i = 0
    <3>1. g[1] = s[1] /\ s[1] \in Seq(S)
      BY <1>2, <1>3, <2>1, <2>2
    <3> QED
      BY <1>1, <2>1, <2>2, <3>1
  <2>3. CASE i # 0
    <3>1. PICK k \in 1 .. n : k = i + 1 /\ k # 1 /\ k - 1 = i
      BY <1>2, <2>1, <2>3
    <3>2. g[k] = g[k - 1] \o s[k]
      BY <1>3, <3>1
    <3>3. g[k - 1] \in Seq(S) /\ s[k] \in Seq(S)
      BY <1>1, <1>2, <1>4, <2>3, <3>1
    <3>4. g[k] \in Seq(S)
      BY <3>2, <3>3
    <3> QED
      BY <1>1, <3>1, <3>4
  <2> QED
    BY <2>2, <2>3
<1>5. 0 \in N
  BY <1>1, <1>2
<1>6. \A i \in 0 .. n : i \in N
  BY <1>2, <1>4, <1>5, OneByOne
<1> QED
  BY <1>1, <1>2, <1>6

LEMMA JoinsExist ==
  ASSUME NEW S, NEW s \in Seq(Seq(S)), NEW n \in 1 .. Len(s)
  PROVE  \E g : Joins(g, s, n)
<1>1. PICK N : N = {i \in 0 .. n : i = 0 \/ \E g : Joins(g, s, i)}
  OBVIOUS
<1>2. n \in Nat
  OBVIOUS
<1>3. ASSUME NEW i \in 0 .. n - 1, i \in N PROVE i + 1 \in N
  <2>1. i + 1 \in 0 .. n
    BY <1>2
  <2>2. CASE i = 0
    <3>1. PICK g : g = [j \in 1 .. 1 |-> s[j]]
      OBVIOUS
    <3>2. g = [j \in 1 .. 1 |-> IF j = 1 THEN s[j] ELSE g[j - 1] \o s[j]]
      BY <3>1
    <3>3. Joins(g, s, 1)
      BY <3>2 DEF Joins
    <3> QED
      BY <1>1, <2>1, <2>2, <3>3
  <2>3. CASE i # 0
    <3>1. PICK g : Joins(g, s, i)
      BY <1>1, <1>3, <2>3
    <3>2. i \in Nat /\ i >= 1
      BY <1>2, <2>3
    <3>3. g = [j \in 1 .. i |-> IF j = 1 THEN s[j] ELSE g[j - 1] \o s[j]]
      BY <3>1 DEF Joins
    <3>4. PICK h : h = [j \in 1 .. i + 1 |-> IF j = i + 1 THEN g[i] \o s[i + 1] ELSE g[j]]
      OBVIOUS
    <3>5. \A j \in 1 .. i : h[j] = g[j]
      BY <3>2, <3>4
    <3>6. ASSUME NEW j \in 1 .. i + 1 PROVE h[j] = IF j = 1 THEN s[j] ELSE h[j - 1] \o s[j]
      <4>1. CASE j = i + 1
        <5>1. j # 1 /\ j - 1 = i /\ i \in 1 .. i
          BY <3>2, <4>1
        <5>2. h[j] = g[i] \o s[j]
          BY <3>4, <4>1
        <5>3. h[j - 1] = g[i]
          BY <3>5, <5>1
        <5> QED
          BY <5>1, <5>2, <5>3
      <4>2. CASE j # i + 1
        <5>1. j \in 1 .. i
          BY <3>2, <4>2
        <5>2. h[j] = g[j] /\ g[j] = IF j = 1 THEN s[j] ELSE g[j - 1] \o s[j]
          BY <3>3, <3>5, <5>1
        <5>3. j # 1 => j - 1 \in 1 .. i
          BY <3>2, <5>1
        <5>4. j # 1 => h[j - 1] = g[j - 1]
          BY <3>5, <5>3
        <5> QED
          BY <5>2, <5>4
      <4> QED
        BY <4>1, <4>2
    <3>7. h = [j \in 1 .. i + 1 |-> h[j]]
      BY <3>4
    <3>8. h = [j \in 1 .. i + 1 |-> IF j = 1 THEN s[j] ELSE h[j - 1] \o s[j]]
      BY <3>6, <3>7
    <3>9. Joins(h, s, i + 1)
      BY <3>8 DEF Joins
    <3> QED
      BY <1>1, <2>1, <3>9
  <2> QED
    BY <2>2, <2>3
<1>4. 0 \in N
  BY <1>1, <1>2
<1>5. \A i \in 0 .. n : i \in N
  BY <1>2, <1>3, <1>4, OneByOne
<1> QED
  BY <1>1, <1>2, <1>5

LEMMA JoinedSequence ==
  ASSUME NEW S, NEW s \in Seq(Seq(S))
  PROVE  Blob!FlattenSeq(s) \in Seq(S)
<1>1. CASE Len(s) = 0
  <2>1. Blob!FlattenSeq(s) = s /\ s = <<>>
    BY <1>1 DEF Blob!FlattenSeq
  <2> QED
    BY <2>1
<1>2. CASE Len(s) # 0
  <2>1. PICK n : n = Len(s)
    OBVIOUS
  <2>2. n \in 1 .. Len(s)
    BY <1>2, <2>1
  <2>3. PICK g : g = CHOOSE f : f = [i \in 1 .. Len(s) |-> IF i = 1 THEN s[i] ELSE f[i - 1] \o s[i]]
    OBVIOUS
  <2>4. g = [i \in 1 .. Len(s) |-> IF i = 1 THEN s[i] ELSE g[i - 1] \o s[i]]
    BY <2>1, <2>2, <2>3, JoinsExist DEF Joins
  <2>5. Blob!FlattenSeq(s) = g[Len(s)]
    BY <1>2, <2>3 DEF Blob!FlattenSeq
  <2>6. Joins(g, s, n)
    BY <2>1, <2>4 DEF Joins
  <2> QED
    BY <2>1, <2>2, <2>5, <2>6, JoinedUp
<1> QED
  BY <1>1, <1>2

-----------------------------------------------------------------------------
\* A Blob as it lies in the memory; made is what it was.
Piece == [store : Nat, start : Nat, length : Nat, made : Seq(Int)]
Lies(b, stores, writable) ==
  /\ b.store \notin writable /\ b.store <= Len(stores)
  /\ b.store = 0 => b.made = <<>>
  /\ b.store # 0 => /\ b.start + b.length <= Len(stores[b.store]) /\ Len(b.made) = b.length
                    /\ \A k \in 1 .. b.length : b.made[k] = stores[b.store][b.start + k]

MemoryTyped ==
  /\ blob_mode \in {"loop", "pool"} /\ blob_maxSize \in Nat /\ blob_stores \in Seq(Seq(Int))
  /\ blob_writable \subseteq 1 .. Len(blob_stores) /\ blob_blobs \in Seq(Piece)
BlobsLie ==
  \A i \in 1 .. Len(blob_blobs) : /\ Lies(blob_blobs[i], blob_stores, blob_writable)
                                  /\ blob_blobs[i].length <= blob_maxSize

\* A request: what it sends from, what is given away, what stood there, what is sent.
Given == {"text", "view", "buffer", "array buffer", "blob"}
Live == {"array buffer", "buffer"}
RequestFields(q) ==
  q = [state |-> q.state, kind |-> q.kind, lost |-> q.lost, meant |-> q.meant, sent |-> q.sent,
       store |-> q.store, start |-> q.start, length |-> q.length, had |-> q.had]
RequestTyped(q) ==
  /\ q.state \in {"sending", "sent"} /\ q.kind \in Given /\ q.lost \in BOOLEAN
  /\ q.meant \in Seq(Int) /\ q.sent \in Seq(Int) /\ q.store \in 1 .. Len(blob_stores)
  /\ q.start \in Nat /\ q.length \in Nat /\ q.start + q.length <= Len(blob_stores[q.store])
  /\ Len(q.sent) <= q.length /\ (q.state = "sent" => Len(q.sent) = q.length)
  /\ DOMAIN q.had = 1 .. q.length
RequestLost(q) ==
  q.lost = TRUE => /\ q.store \notin blob_writable /\ q.length = 2
                   /\ \A k \in 1 .. 2 : blob_stores[q.store][q.start + k] = Blob!Json[k]
                   /\ \A k \in 1 .. Len(q.sent) : q.sent[k] = Blob!Json[k]
RequestMeant(q) ==
  q.lost = FALSE =>
    /\ q.length = Len(q.meant)
    /\ q.kind \notin Live => q.store \notin blob_writable
    /\ q.kind \notin Live \/ (blob_mode = "pool" /\ q.state = "sending")
         => \A k \in 1 .. q.length : blob_stores[q.store][q.start + k] = q.meant[k]
    /\ q.kind \notin Live \/ blob_mode = "pool" => \A k \in 1 .. Len(q.sent) : q.sent[k] = q.meant[k]
RequestHad(q) ==
  /\ q.state = "sending" => \A k \in 1 .. q.length : blob_stores[q.store][q.start + k] \in q.had[k]
  /\ \A k \in 1 .. Len(q.sent) : q.sent[k] \in q.had[k]
RightRequest ==
  blob_request # Blob!NoRequest =>
    /\ RequestFields(blob_request)
    /\ RequestTyped(blob_request) /\ RequestLost(blob_request) /\ RequestMeant(blob_request)
    /\ RequestHad(blob_request)

BlobInv == MemoryTyped /\ BlobsLie /\ RightRequest

(* A span of a store, place by place.                                        *)
LEMMA SpanIs ==
  ASSUME blob_stores \in Seq(Seq(Int)), NEW s \in 1 .. Len(blob_stores), NEW start \in Nat,
         NEW length \in Nat, start + length <= Len(blob_stores[s])
  PROVE  /\ Blob!Span(s, start, length) \in Seq(Int) /\ Len(Blob!Span(s, start, length)) = length
         /\ \A k \in 1 .. length : Blob!Span(s, start, length)[k] = blob_stores[s][start + k]
<1>1. PICK m : m = blob_stores[s]
  OBVIOUS
<1>2. m \in Seq(Int) /\ s # 0
  BY <1>1
<1>3. Blob!Span(s, start, length) = SubSeq(m, start + 1, start + length)
  BY <1>1, <1>2 DEF Blob!Span, Blob!NoStore
<1>4. \A i \in start + 1 .. start + length : m[i] \in Int
  BY <1>1, <1>2
<1>5. PICK t : t = SubSeq(m, start + 1, start + length)
  OBVIOUS
<1>6. /\ t \in Seq(Int) /\ Len(t) = IF start + 1 <= start + length THEN (start + length) - (start + 1) + 1 ELSE 0
      /\ \A i \in 1 .. (start + length) - (start + 1) + 1 : t[i] = m[(start + 1) + i - 1]
  <2>1. start + 1 \in Int /\ start + length \in Int
    OBVIOUS
  <2> QED
    BY <1>4, <1>5, <2>1, SubSeqProperties
<1>7. Len(t) = length
  BY <1>6, SMTT(20)
<1>8. \A k \in 1 .. length : t[k] = m[start + k]
  <2> SUFFICES ASSUME NEW k \in 1 .. length PROVE t[k] = m[start + k]
    OBVIOUS
  <2>1. k \in 1 .. (start + length) - (start + 1) + 1 /\ (start + 1) + k - 1 = start + k
    OBVIOUS
  <2> QED
    BY <1>6, <2>1
<1> QED
  BY <1>1, <1>3, <1>5, <1>6, <1>7, <1>8

(* What a Blob is made of.                                                   *)
LEMMA TextsAreBytes ==
  /\ \A t \in Seq(Int) : Blob!Native(t) \in Seq(Int) /\ Blob!Utf8(t) \in Seq(Int)
  /\ Blob!ObjectText \in Seq(Int) /\ Blob!Json \in Seq(Int) /\ Len(Blob!Json) = 2
<1>1. ASSUME NEW t \in Seq(Int) PROVE Blob!Native(t) \in Seq(Int) /\ Blob!Utf8(t) \in Seq(Int)
  <2>1. DOMAIN t = 1 .. Len(t) /\ Len(t) \in Nat /\ \A i \in 1 .. Len(t) : t[i] \in Int
    OBVIOUS
  <2>2. PICK s : s = [i \in DOMAIN t |-> IF t[i] = Blob!CR /\ i < Len(t) /\ t[i + 1] = Blob!LF THEN <<>>
                                         ELSE <<IF t[i] = Blob!CR THEN Blob!LF ELSE t[i]>>]
    OBVIOUS
  <2>3. ASSUME NEW i \in 1 .. Len(t) PROVE s[i] \in Seq(Int)
    <3>1. (IF t[i] = Blob!CR THEN Blob!LF ELSE t[i]) \in Int
      BY <2>1 DEF Blob!LF
    <3>2. s[i] = IF t[i] = Blob!CR /\ i < Len(t) /\ t[i + 1] = Blob!LF THEN <<>>
                 ELSE <<IF t[i] = Blob!CR THEN Blob!LF ELSE t[i]>>
      BY <2>1, <2>2
    <3> QED
      BY <3>1, <3>2
  <2>4. s \in Seq(Seq(Int))
    BY <2>1, <2>2, <2>3
  <2>5. Blob!Native(t) = Blob!FlattenSeq(s)
    BY <2>2 DEF Blob!Native
  <2>6. PICK u : u = [i \in DOMAIN t |-> IF t[i] < 128 THEN <<t[i]>> ELSE <<239, 191, 189>>]
    OBVIOUS
  <2>7. u \in Seq(Seq(Int))
    BY <2>1, <2>6
  <2>8. Blob!Utf8(t) = Blob!FlattenSeq(u)
    BY <2>6 DEF Blob!Utf8
  <2> QED
    BY <2>4, <2>5, <2>7, <2>8, JoinedSequence
<1>2. Blob!ObjectText \in Seq(Int) /\ Blob!Json \in Seq(Int) /\ Len(Blob!Json) = 2
  BY DEF Blob!ObjectText, Blob!Json
<1> QED
  BY <1>1, <1>2

(* The bytes of a Blob are those it was made of.                             *)
LEMMA BlobBytes ==
  ASSUME MemoryTyped, NEW b \in Piece, Lies(b, blob_stores, blob_writable)
  PROVE  Blob!BytesOf(b) = b.made
<1>1. CASE b.store = 0
  BY <1>1 DEF Blob!BytesOf, Blob!Span, Blob!NoStore, Lies
<1>2. CASE b.store # 0
  <2>1. /\ b.store \in 1 .. Len(blob_stores) /\ b.start \in Nat /\ b.length \in Nat /\ b.made \in Seq(Int)
        /\ b.start + b.length <= Len(blob_stores[b.store]) /\ Len(b.made) = b.length
        /\ \A k \in 1 .. b.length : b.made[k] = blob_stores[b.store][b.start + k]
    BY <1>2 DEF Piece, Lies, MemoryTyped
  <2>2. PICK t : t = Blob!Span(b.store, b.start, b.length)
    OBVIOUS
  <2>3. t \in Seq(Int) /\ Len(t) = b.length /\ \A k \in 1 .. b.length : t[k] = blob_stores[b.store][b.start + k]
    BY <2>1, <2>2, SpanIs DEF MemoryTyped
  <2>4. t = b.made
    BY <2>1, <2>3, SeqEqual
  <2> QED
    BY <2>2, <2>4 DEF Blob!BytesOf
<1> QED
  BY <1>1, <1>2

(* A Blob stays where it is while the memory grows.                          *)
LEMMA LiesStill ==
  ASSUME NEW b \in Piece, NEW stores, NEW more, NEW writable, NEW writers, Lies(b, stores, writable),
         Len(stores) \in Nat, Len(more) \in Nat, Len(stores) <= Len(more),
         \A s \in 1 .. Len(stores) : s \notin writable => more[s] = stores[s],
         \A w \in writers : w \in writable \/ w \notin 0 .. Len(stores)
  PROVE  Lies(b, more, writers)
<1>1. b.store \in 0 .. Len(stores) /\ b.store \notin writable
  BY DEF Piece, Lies
<1>2. b.store \notin writers /\ b.store <= Len(more)
  BY <1>1
<1>3. b.store # 0 => more[b.store] = stores[b.store]
  BY <1>1
<1> QED
  BY <1>2, <1>3 DEF Lies

(* The beginning.                                                            *)
LEMMA BlobBegins == ASSUME Blob!Init PROVE BlobInv
<1>1. MemoryTyped
  <2>1. /\ blob_maxSize \in BlobLimits /\ blob_mode \in {"loop", "pool"} /\ blob_stores = <<BlobFirst>>
        /\ blob_writable = {1} /\ blob_blobs = <<>>
    BY DEF Blob!Init
  <2>2. blob_stores \in Seq(Seq(Int)) /\ Len(blob_stores) = 1
    BY <2>1, BlobAssumption
  <2>3. blob_maxSize \in Nat /\ blob_blobs \in Seq(Piece) /\ blob_writable \subseteq 1 .. 1
    BY <2>1, BlobAssumption
  <2> QED
    BY <2>1, <2>2, <2>3 DEF MemoryTyped
<1>2. BlobsLie
  BY DEF Blob!Init, BlobsLie
<1>3. RightRequest
  BY DEF Blob!Init, RightRequest
<1> QED
  BY <1>1, <1>2, <1>3 DEF BlobInv

(* What a part is.                                                           *)
LEMMA PartsAre ==
  ASSUME MemoryTyped, NEW p \in Blob!Parts
  PROVE  /\ p.kind \in Given
         /\ p.kind = "text" => p.text \in Seq(Int)
         /\ p.kind = "array buffer" => p.store \in blob_writable
         /\ p.kind \in {"view", "buffer"} => /\ p.store \in blob_writable /\ p.start \in Nat /\ p.length \in Nat
                                             /\ p.start + p.length <= Len(blob_stores[p.store])
         /\ p.kind = "blob" => p.blob \in 1 .. Len(blob_blobs)
<1>1. CASE p \in {[kind |-> "text", text |-> t] : t \in BlobTexts}
  <2>1. PICK t \in BlobTexts : p = [kind |-> "text", text |-> t]
    BY <1>1
  <2>2. p.kind = "text" /\ p.text = t
    BY <2>1
  <2>3. t \in Seq(Int)
    BY <2>1, BlobAssumption
  <2> QED
    BY <2>2, <2>3 DEF Given
<1>2. CASE p \in {[kind |-> "array buffer", store |-> s] : s \in blob_writable}
  <2>1. PICK s \in blob_writable : p = [kind |-> "array buffer", store |-> s]
    BY <1>2
  <2>2. p.kind = "array buffer" /\ p.store = s
    BY <2>1
  <2> QED
    BY <2>2 DEF Given
<1>3. CASE p \in {v \in Blob!Views("view") \cup Blob!Views("buffer") : v.start + v.length <= Len(blob_stores[v.store])}
  <2>1. p \in Blob!Views("view") \/ p \in Blob!Views("buffer")
    BY <1>3
  <2>2. p.start + p.length <= Len(blob_stores[p.store])
    BY <1>3
  <2>3. /\ p.kind = "view" \/ p.kind = "buffer"
        /\ p.store \in blob_writable /\ p.start \in 0 .. 1 /\ p.length \in {1}
    BY <2>1 DEF Blob!Views
  <2>4. p.start \in Nat /\ p.length \in Nat
    BY <2>3
  <2> QED
    BY <2>2, <2>3, <2>4 DEF Given
<1>4. CASE p \in {[kind |-> "blob", blob |-> i] : i \in DOMAIN blob_blobs}
  <2>1. PICK i \in DOMAIN blob_blobs : p = [kind |-> "blob", blob |-> i]
    BY <1>4
  <2>2. p.kind = "blob" /\ p.blob = i
    BY <2>1
  <2>3. i \in 1 .. Len(blob_blobs)
    BY <2>1 DEF MemoryTyped
  <2> QED
    BY <2>2, <2>3 DEF Given
<1> QED
  BY <1>1, <1>2, <1>3, <1>4 DEF Blob!Parts

(* The bytes a part gives to a Blob.                                         *)
LEMMA PartsGiveBytes ==
  ASSUME MemoryTyped, BlobsLie, NEW p \in Blob!Parts, NEW native \in BOOLEAN
  PROVE  Blob!PartBytes(p, native) \in Seq(Int)
<1>1. p.kind \in Given
  BY PartsAre
<1>2. CASE p.kind = "text"
  BY <1>2, PartsAre, TextsAreBytes DEF Blob!PartBytes
<1>3. CASE p.kind = "array buffer"
  <2>1. p.store \in 1 .. Len(blob_stores)
    BY <1>3, PartsAre DEF MemoryTyped
  <2>2. blob_stores[p.store] \in Seq(Int)
    BY <2>1 DEF MemoryTyped
  <2> QED
    BY <1>3, <2>2 DEF Blob!PartBytes
<1>4. CASE p.kind \in {"view", "buffer"}
  <2>1. Blob!Span(p.store, p.start, p.length) \in Seq(Int)
    BY <1>4, PartsAre, SpanIs DEF MemoryTyped
  <2> QED
    BY <1>4, <2>1, TextsAreBytes DEF Blob!PartBytes
<1>5. CASE p.kind = "blob"
  <2>1. PICK b : b = blob_blobs[p.blob]
    OBVIOUS
  <2>2. p.blob \in 1 .. Len(blob_blobs)
    BY <1>5, PartsAre
  <2>3. b \in Piece /\ Lies(b, blob_stores, blob_writable)
    BY <2>1, <2>2 DEF MemoryTyped, BlobsLie
  <2>4. Blob!BytesOf(b) \in Seq(Int)
    BY <2>3, BlobBytes DEF Piece
  <2> QED
    BY <1>5, <2>1, <2>4, TextsAreBytes DEF Blob!PartBytes
<1> QED
  BY <1>1, <1>2, <1>3, <1>4, <1>5 DEF Given

(* A Blob that comes.                                                        *)
LEMMA OneMoreBlob ==
  ASSUME MemoryTyped, BlobsLie, NEW b \in Piece, b.length <= blob_maxSize,
         blob_stores' \in Seq(Seq(Int)), Len(blob_stores) <= Len(blob_stores'),
         \A s \in 1 .. Len(blob_stores) : blob_stores'[s] = blob_stores[s],
         Lies(b, blob_stores', blob_writable), blob_blobs' = Append(blob_blobs, b),
         UNCHANGED <<blob_mode, blob_maxSize, blob_writable, blob_request>>, blob_request = Blob!NoRequest
  PROVE  BlobInv'
<1>1. /\ blob_blobs' \in Seq(Piece) /\ Len(blob_blobs') = Len(blob_blobs) + 1 /\ Len(blob_blobs) \in Nat
      /\ \A i \in 1 .. Len(blob_blobs) : blob_blobs'[i] = blob_blobs[i] /\ blob_blobs[i] \in Piece
      /\ blob_blobs'[Len(blob_blobs) + 1] = b
  BY DEF MemoryTyped
<1>2. Len(blob_stores) \in Nat /\ Len(blob_stores') \in Nat
  BY DEF MemoryTyped
<1>3. ASSUME NEW i \in 1 .. Len(blob_blobs')
      PROVE  Lies(blob_blobs'[i], blob_stores', blob_writable') /\ blob_blobs'[i].length <= blob_maxSize'
  <2>1. CASE i \in 1 .. Len(blob_blobs)
    <3>1. /\ blob_blobs'[i] \in Piece /\ blob_blobs'[i].length <= blob_maxSize
          /\ Lies(blob_blobs'[i], blob_stores, blob_writable)
      BY <1>1, <2>1 DEF BlobsLie
    <3>2. Lies(blob_blobs'[i], blob_stores', blob_writable)
      BY <1>2, <3>1, LiesStill
    <3> QED
      BY <3>1, <3>2
  <2>2. CASE i = Len(blob_blobs) + 1
    BY <1>1, <2>2
  <2>3. i \in 1 .. Len(blob_blobs) \/ i = Len(blob_blobs) + 1
    BY <1>1
  <2> QED
    BY <2>1, <2>2, <2>3
<1>4. BlobsLie'
  BY <1>3 DEF BlobsLie
<1>5. MemoryTyped'
  BY <1>1, <1>2 DEF MemoryTyped
<1>6. RightRequest'
  BY DEF RightRequest
<1> QED
  BY <1>4, <1>5, <1>6 DEF BlobInv

(* A Blob or a File is made: what it is made of is copied.                   *)
LEMMA Constructs ==
  ASSUME BlobInv, NEW n \in Nat, NEW parts \in [1 .. n -> Blob!Parts], NEW native \in BOOLEAN,
         Blob!Construct(parts, native)
  PROVE  BlobInv'
<1>1. PICK pieces : pieces = [i \in DOMAIN parts |-> Blob!PartBytes(parts[i], native)]
  OBVIOUS
<1>2. pieces \in Seq(Seq(Int))
  <2>1. \A i \in 1 .. n : Blob!PartBytes(parts[i], native) \in Seq(Int)
    BY PartsGiveBytes DEF BlobInv
  <2>2. pieces \in [1 .. n -> Seq(Int)]
    BY <1>1, <2>1
  <2> QED
    BY <2>2
<1>3. PICK bytes : bytes = Blob!FlattenSeq(pieces)
  OBVIOUS
<1>4. bytes \in Seq(Int) /\ Len(bytes) \in Nat
  BY <1>2, <1>3, JoinedSequence
<1>5. /\ blob_request = Blob!NoRequest /\ Len(bytes) <= blob_maxSize
      /\ blob_stores' = IF bytes = <<>> THEN blob_stores ELSE Append(blob_stores, bytes)
      /\ blob_blobs' = Append(blob_blobs, [store |-> IF bytes = <<>> THEN 0 ELSE Len(blob_stores) + 1, start |-> 0,
                                           length |-> Len(bytes), made |-> bytes])
      /\ UNCHANGED <<blob_mode, blob_maxSize, blob_writable, blob_request>>
  BY <1>1, <1>3 DEF Blob!Construct, Blob!Idle, Blob!NoStore
<1>6. MemoryTyped /\ BlobsLie
  BY DEF BlobInv
<1>7. blob_stores \in Seq(Seq(Int)) /\ Len(blob_stores) \in Nat
  BY <1>6 DEF MemoryTyped
<1>8. CASE bytes = <<>>
  <2>1. PICK b : b = [store |-> 0, start |-> 0, length |-> Len(bytes), made |-> bytes]
    OBVIOUS
  <2>2. b \in Piece /\ b.length <= blob_maxSize /\ blob_blobs' = Append(blob_blobs, b)
    BY <1>4, <1>5, <1>8, <2>1 DEF Piece
  <2>3. Lies(b, blob_stores, blob_writable)
    BY <1>6, <1>7, <1>8, <2>1 DEF Lies, MemoryTyped
  <2>4. blob_stores' = blob_stores
    BY <1>5, <1>8
  <2> QED
    BY <1>5, <1>6, <1>7, <2>2, <2>3, <2>4, OneMoreBlob
<1>9. CASE bytes # <<>>
  <2>1. PICK b : b = [store |-> Len(blob_stores) + 1, start |-> 0, length |-> Len(bytes), made |-> bytes]
    OBVIOUS
  <2>2. b \in Piece /\ b.length <= blob_maxSize /\ blob_blobs' = Append(blob_blobs, b)
    BY <1>4, <1>5, <1>7, <1>9, <2>1 DEF Piece
  <2>3. /\ blob_stores' \in Seq(Seq(Int)) /\ Len(blob_stores') = Len(blob_stores) + 1
        /\ \A s \in 1 .. Len(blob_stores) : blob_stores'[s] = blob_stores[s]
        /\ blob_stores'[Len(blob_stores) + 1] = bytes
    BY <1>4, <1>5, <1>7, <1>9
  <2>4. Lies(b, blob_stores', blob_writable)
    <3>1. /\ b.store = Len(blob_stores) + 1 /\ b.start = 0 /\ b.length = Len(bytes) /\ b.made = bytes
      BY <2>1
    <3>2. b.store \notin blob_writable /\ b.store # 0
      BY <1>6, <1>7, <3>1 DEF MemoryTyped
    <3> QED
      BY <1>4, <1>7, <2>3, <3>1, <3>2 DEF Lies
  <2> QED
    BY <1>5, <1>6, <1>7, <2>2, <2>3, <2>4, OneMoreBlob
<1> QED
  BY <1>8, <1>9

(* A slice shows a part of what the Blob shows.                              *)
LEMMA ClampInside ==
  ASSUME NEW n \in Nat, NEW v \in Int
  PROVE  Blob!Clamp(v, n) \in 0 .. n
BY DEF Blob!Clamp

LEMMA Slices ==
  ASSUME BlobInv, NEW i \in DOMAIN blob_blobs, NEW from \in Int, NEW to \in Int, Blob!Slice(i, from, to)
  PROVE  BlobInv'
<1>1. PICK b : b = blob_blobs[i]
  OBVIOUS
<1>2. MemoryTyped /\ BlobsLie /\ i \in 1 .. Len(blob_blobs)
  BY DEF BlobInv, MemoryTyped
<1>3. b \in Piece /\ Lies(b, blob_stores, blob_writable) /\ b.length <= blob_maxSize /\ b.length \in Nat
  <2>1. b \in Piece
    BY <1>1, <1>2 DEF MemoryTyped
  <2>2. Lies(b, blob_stores, blob_writable) /\ b.length <= blob_maxSize
    BY <1>1, <1>2 DEF BlobsLie
  <2> QED
    BY <2>1, <2>2 DEF Piece
<1>4. PICK end : end = Blob!Clamp(to, b.length)
  OBVIOUS
<1>5. PICK start : start = IF Blob!Clamp(from, b.length) > end THEN end ELSE Blob!Clamp(from, b.length)
  OBVIOUS
<1>6. end \in 0 .. b.length /\ start \in 0 .. end
  <2>1. end \in 0 .. b.length
    BY <1>3, <1>4, ClampInside
  <2>2. PICK c \in 0 .. b.length : c = Blob!Clamp(from, b.length)
    BY <1>3, ClampInside
  <2> QED
    BY <1>3, <1>5, <2>1, <2>2
<1>7. PICK part : part = [b EXCEPT !.start = b.start + start, !.length = end - start]
  OBVIOUS
<1>8. /\ blob_blobs' = Append(blob_blobs, [part EXCEPT !.made = Blob!BytesOf(part)])
      /\ UNCHANGED <<blob_mode, blob_maxSize, blob_stores, blob_writable, blob_request>>
      /\ blob_request = Blob!NoRequest
  BY <1>1, <1>4, <1>5, <1>7 DEF Blob!Slice, Blob!Idle
<1>9. /\ part.store = b.store /\ part.start = b.start + start /\ part.length = end - start
      /\ part \in Piece
  <2>1. b.start + start \in Nat /\ end - start \in Nat
    BY <1>3, <1>6 DEF Piece
  <2> QED
    BY <1>3, <1>7, <2>1 DEF Piece
<1>10. PICK c : c = [part EXCEPT !.made = Blob!BytesOf(part)]
  OBVIOUS
<1>11. /\ c.store = b.store /\ c.start = b.start + start /\ c.length = end - start
       /\ c.made = Blob!Span(b.store, b.start + start, end - start)
  BY <1>9, <1>10 DEF Piece, Blob!BytesOf
<1>12. c \in Piece /\ Lies(c, blob_stores, blob_writable)
  <2>1. CASE b.store = 0
    <3>1. c.made = <<>>
      BY <1>11, <2>1 DEF Blob!Span, Blob!NoStore
    <3>2. Blob!BytesOf(part) \in Seq(Int)
      BY <1>9, <2>1 DEF Blob!BytesOf, Blob!Span, Blob!NoStore
    <3>3. c \in Piece
      BY <1>9, <1>10, <3>2 DEF Piece
    <3> QED
      BY <1>3, <1>11, <2>1, <3>1, <3>3 DEF Lies
  <2>2. CASE b.store # 0
    <3>1. /\ b.store \in 1 .. Len(blob_stores) /\ b.start + start \in Nat /\ end - start \in Nat
          /\ (b.start + start) + (end - start) <= Len(blob_stores[b.store])
      <4>1. /\ b.store \in 1 .. Len(blob_stores) /\ b.start \in Nat
            /\ b.start + b.length <= Len(blob_stores[b.store])
        BY <1>2, <1>3, <2>2 DEF Lies, Piece, MemoryTyped
      <4>2. Len(blob_stores[b.store]) \in Nat
        BY <1>2, <4>1 DEF MemoryTyped
      <4> QED
        BY <1>3, <1>6, <4>1, <4>2, SMTT(20)
    <3>2. /\ c.made \in Seq(Int) /\ Len(c.made) = end - start
          /\ \A k \in 1 .. end - start : c.made[k] = blob_stores[b.store][b.start + start + k]
      <4>1. PICK t : t = Blob!Span(b.store, b.start + start, end - start)
        OBVIOUS
      <4>2. /\ t \in Seq(Int) /\ Len(t) = end - start
            /\ \A k \in 1 .. end - start : t[k] = blob_stores[b.store][(b.start + start) + k]
        BY <1>2, <3>1, <4>1, SpanIs DEF MemoryTyped
      <4>3. \A k \in 1 .. end - start : t[k] = blob_stores[b.store][b.start + start + k]
        BY <4>2
      <4> QED
        BY <1>11, <4>1, <4>2, <4>3
    <3>3. Blob!BytesOf(part) \in Seq(Int)
      BY <1>9, <1>11, <3>2 DEF Blob!BytesOf
    <3>4. c \in Piece
      BY <1>9, <1>10, <3>3 DEF Piece
    <3> QED
      BY <1>3, <1>11, <2>2, <3>1, <3>2, <3>4 DEF Lies
  <2> QED
    BY <2>1, <2>2
<1>13. c.length <= blob_maxSize
  BY <1>2, <1>3, <1>6, <1>11 DEF MemoryTyped
<1>14. blob_stores \in Seq(Seq(Int)) /\ Len(blob_stores) <= Len(blob_stores)
  BY <1>2 DEF MemoryTyped
<1> QED
  BY <1>2, <1>8, <1>10, <1>12, <1>13, <1>14, OneMoreBlob

(* A sequence that agrees with the beginning of another.                     *)
LEMMA BeginningOf ==
  ASSUME NEW a \in Seq(Int), NEW m \in Seq(Int), Len(a) <= Len(m), \A k \in 1 .. Len(a) : a[k] = m[k]
  PROVE  a = SubSeq(m, 1, Len(a))
<1>1. PICK n \in Nat : n = Len(a)
  OBVIOUS
<1>2. PICK t : t = SubSeq(m, 1, n)
  OBVIOUS
<1>3. \A i \in 1 .. n : m[i] \in Int
  BY <1>1
<1>4. /\ t \in Seq(Int) /\ Len(t) = IF 1 <= n THEN n - 1 + 1 ELSE 0
      /\ \A i \in 1 .. n - 1 + 1 : t[i] = m[1 + i - 1]
  <2>1. 1 \in Int /\ n \in Int
    OBVIOUS
  <2> QED
    BY <1>2, <1>3, <2>1, SubSeqProperties
<1>5. Len(t) = n
  BY <1>4
<1>6. \A k \in 1 .. n : t[k] = m[k]
  <2> SUFFICES ASSUME NEW k \in 1 .. n PROVE t[k] = m[k]
    OBVIOUS
  <2>1. k \in 1 .. n - 1 + 1 /\ 1 + k - 1 = k
    OBVIOUS
  <2> QED
    BY <1>4, <2>1
<1>7. a = t
  BY <1>1, <1>4, <1>5, <1>6, SeqEqual
<1> QED
  BY <1>1, <1>2, <1>7

(* The Blobs stay where they lie when only memory that is written changes.   *)
LEMMA BlobsStay ==
  ASSUME MemoryTyped, BlobsLie, blob_stores' \in Seq(Seq(Int)), Len(blob_stores) <= Len(blob_stores'),
         \A s \in 1 .. Len(blob_stores) : s \notin blob_writable => blob_stores'[s] = blob_stores[s],
         blob_writable' \subseteq 1 .. Len(blob_stores'),
         \A w \in blob_writable' : w \in blob_writable \/ w \notin 0 .. Len(blob_stores),
         UNCHANGED <<blob_mode, blob_maxSize, blob_blobs>>
  PROVE  MemoryTyped' /\ BlobsLie'
<1>1. MemoryTyped'
  BY DEF MemoryTyped
<1>2. Len(blob_stores) \in Nat /\ Len(blob_stores') \in Nat
  BY DEF MemoryTyped
<1>3. ASSUME NEW i \in 1 .. Len(blob_blobs)
      PROVE  Lies(blob_blobs[i], blob_stores', blob_writable') /\ blob_blobs[i].length <= blob_maxSize
  <2>1. blob_blobs[i] \in Piece
    BY DEF MemoryTyped
  <2>2. Lies(blob_blobs[i], blob_stores, blob_writable) /\ blob_blobs[i].length <= blob_maxSize
    BY DEF BlobsLie
  <2>3. Lies(blob_blobs[i], blob_stores', blob_writable')
    BY <1>2, <2>1, <2>2, LiesStill
  <2> QED
    BY <2>2, <2>3
<1>4. BlobsLie'
  BY <1>3 DEF BlobsLie
<1> QED
  BY <1>1, <1>4

(* arrayBuffer and bytes give a copy.                                        *)
LEMMA ArrayBuffers ==
  ASSUME BlobInv, NEW i \in DOMAIN blob_blobs, Blob!ArrayBuffer(i)
  PROVE  BlobInv'
<1>1. MemoryTyped /\ BlobsLie /\ i \in 1 .. Len(blob_blobs) /\ Len(blob_stores) \in Nat
  BY DEF BlobInv, MemoryTyped
<1>2. PICK bytes : bytes = Blob!BytesOf(blob_blobs[i])
  OBVIOUS
<1>3. bytes \in Seq(Int)
  <2>1. blob_blobs[i] \in Piece
    BY <1>1 DEF MemoryTyped
  <2>2. Lies(blob_blobs[i], blob_stores, blob_writable)
    BY <1>1 DEF BlobsLie
  <2> QED
    BY <1>1, <1>2, <2>1, <2>2, BlobBytes DEF Piece
<1>4. /\ blob_request = Blob!NoRequest /\ blob_stores' = Append(blob_stores, bytes)
      /\ blob_writable' = blob_writable \cup {Len(blob_stores) + 1}
      /\ UNCHANGED <<blob_mode, blob_maxSize, blob_blobs, blob_request>>
  BY <1>2 DEF Blob!ArrayBuffer, Blob!Idle
<1>5. /\ blob_stores' \in Seq(Seq(Int)) /\ Len(blob_stores') = Len(blob_stores) + 1
      /\ \A s \in 1 .. Len(blob_stores) : blob_stores'[s] = blob_stores[s]
  BY <1>1, <1>3, <1>4 DEF MemoryTyped
<1>6. /\ blob_writable' \subseteq 1 .. Len(blob_stores')
      /\ \A w \in blob_writable' : w \in blob_writable \/ w \notin 0 .. Len(blob_stores)
  <2>1. PICK n \in Nat : n = Len(blob_stores)
    BY <1>1
  <2>2. blob_writable \subseteq 1 .. n /\ blob_writable' = blob_writable \cup {n + 1}
    BY <1>1, <1>4, <2>1 DEF MemoryTyped
  <2>3. n + 1 \notin 0 .. n /\ n + 1 \in 1 .. n + 1 /\ \A w \in 1 .. n : w \in 1 .. n + 1
    BY <2>1
  <2>4. blob_writable' \subseteq 1 .. n + 1
    BY <2>2, <2>3
  <2>5. \A w \in blob_writable' : w \in blob_writable \/ w \notin 0 .. n
    BY <2>2, <2>3
  <2> QED
    BY <1>5, <2>1, <2>4, <2>5
<1>7. MemoryTyped' /\ BlobsLie'
  BY <1>1, <1>4, <1>5, <1>6, BlobsStay
<1>8. RightRequest'
  BY <1>4 DEF RightRequest
<1> QED
  BY <1>7, <1>8 DEF BlobInv

(* A request begins: what it is to send stands where it will be sent from.   *)
LEMMA RequestBegins ==
  ASSUME MemoryTyped', BlobsLie', NEW kind \in Given, NEW lost \in BOOLEAN, NEW meant \in Seq(Int),
         NEW store \in 1 .. Len(blob_stores'), NEW start \in Nat, NEW length \in Nat,
         start + length <= Len(blob_stores'[store]),
         lost = TRUE => /\ store \notin blob_writable' /\ length = 2
                        /\ \A k \in 1 .. 2 : blob_stores'[store][start + k] = Blob!Json[k],
         lost = FALSE => /\ length = Len(meant) /\ (kind \notin Live => store \notin blob_writable')
                         /\ \A k \in 1 .. length : blob_stores'[store][start + k] = meant[k],
         blob_request' = [state |-> "sending", kind |-> kind, lost |-> lost, meant |-> meant, sent |-> <<>>,
                          store |-> store, start |-> start, length |-> length,
                          had |-> [i \in 1 .. length |-> {blob_stores'[store][start + i]}]]
  PROVE  BlobInv'
<1>1. /\ blob_request'.state = "sending" /\ blob_request'.kind = kind /\ blob_request'.lost = lost
      /\ blob_request'.meant = meant /\ blob_request'.sent = <<>> /\ blob_request'.store = store
      /\ blob_request'.start = start /\ blob_request'.length = length
      /\ blob_request'.had = [i \in 1 .. length |-> {blob_stores'[store][start + i]}]
  OBVIOUS
<1>2. RequestFields(blob_request')
  BY DEF RequestFields
<1>3. RequestTyped(blob_request)'
  BY <1>1 DEF RequestTyped
<1>4. RequestLost(blob_request)'
  BY <1>1 DEF RequestLost
<1>5. RequestMeant(blob_request)'
  BY <1>1 DEF RequestMeant
<1>6. RequestHad(blob_request)'
  BY <1>1 DEF RequestHad
<1> QED
  BY <1>2, <1>3, <1>4, <1>5, <1>6 DEF BlobInv, RightRequest, RequestFields

(* fetch is given something to send, of each kind.                           *)
LEMMA Stored ==
  ASSUME MemoryTyped, BlobsLie, NEW bytes \in Seq(Int), blob_stores' = Append(blob_stores, bytes),
         UNCHANGED <<blob_mode, blob_maxSize, blob_writable, blob_blobs>>
  PROVE  /\ MemoryTyped' /\ BlobsLie' /\ Len(blob_stores) + 1 \in 1 .. Len(blob_stores')
         /\ Len(blob_stores) + 1 \notin blob_writable' /\ blob_stores'[Len(blob_stores) + 1] = bytes
<1>1. PICK n \in Nat : n = Len(blob_stores)
  BY DEF MemoryTyped
<1>2. blob_stores \in Seq(Seq(Int)) /\ blob_writable \subseteq 1 .. n
  BY <1>1 DEF MemoryTyped
<1>3. /\ blob_stores' \in Seq(Seq(Int)) /\ Len(blob_stores') = n + 1 /\ blob_stores'[n + 1] = bytes
      /\ \A s \in 1 .. n : blob_stores'[s] = blob_stores[s]
  BY <1>1, <1>2
<1>4. n + 1 \notin 1 .. n /\ n + 1 \in 1 .. n + 1 /\ n <= n + 1 /\ \A w \in 1 .. n : w \in 1 .. n + 1
  OBVIOUS
<1>5. blob_writable' \subseteq 1 .. Len(blob_stores') /\ \A w \in blob_writable' : w \in blob_writable
  BY <1>2, <1>3, <1>4
<1>6. MemoryTyped' /\ BlobsLie'
  BY <1>1, <1>3, <1>4, <1>5, BlobsStay
<1> QED
  BY <1>1, <1>2, <1>3, <1>4, <1>6

LEMMA FetchOfBytes ==
  ASSUME BlobInv, NEW p \in Blob!Parts, Blob!Fetch(p), NEW bytes \in Seq(Int), NEW lost \in BOOLEAN,
         NEW meant \in Seq(Int), Blob!Body(p) = [live |-> FALSE, bytes |-> bytes], Blob!Lost(p) <=> (lost = TRUE),
         Blob!Meant(p) = meant, lost = TRUE => bytes = Blob!Json, lost = FALSE => bytes = meant
  PROVE  BlobInv'
<1>1. PICK store : store = Len(blob_stores) + 1
  OBVIOUS
<1>2. PICK length \in Nat : length = Len(bytes)
  OBVIOUS
<1>3. /\ blob_stores' = Append(blob_stores, bytes) /\ UNCHANGED <<blob_mode, blob_maxSize, blob_writable, blob_blobs>>
      /\ blob_request' = [state |-> "sending", kind |-> p.kind, lost |-> Blob!Lost(p), meant |-> Blob!Meant(p),
                          sent |-> <<>>, store |-> store, start |-> 0, length |-> length,
                          had |-> [i \in 1 .. length |-> {blob_stores'[store][0 + i]}]]
  BY <1>1, <1>2 DEF Blob!Fetch
<1>4. MemoryTyped /\ BlobsLie
  BY DEF BlobInv
<1>5. /\ MemoryTyped' /\ BlobsLie' /\ store \in 1 .. Len(blob_stores') /\ store \notin blob_writable'
      /\ blob_stores'[store] = bytes
  BY <1>1, <1>3, <1>4, Stored
<1>6. Blob!Lost(p) = lost
  BY DEF Blob!Lost
<1>7. blob_request' = [state |-> "sending", kind |-> p.kind, lost |-> lost, meant |-> meant,
                       sent |-> <<>>, store |-> store, start |-> 0, length |-> length,
                       had |-> [i \in 1 .. length |-> {blob_stores'[store][0 + i]}]]
  BY <1>3, <1>6
<1>8. p.kind \in Given
  BY <1>4, PartsAre
<1>9. 0 \in Nat /\ 0 + length <= Len(blob_stores'[store])
  BY <1>2, <1>5
<1>10. lost = TRUE => length = 2 /\ \A k \in 1 .. 2 : blob_stores'[store][0 + k] = Blob!Json[k]
  <2> SUFFICES ASSUME lost = TRUE PROVE length = 2 /\ \A k \in 1 .. 2 : blob_stores'[store][0 + k] = Blob!Json[k]
    OBVIOUS
  <2>1. length = 2
    BY <1>2, TextsAreBytes
  <2>2. \A k \in 1 .. 2 : 0 + k = k
    OBVIOUS
  <2> QED
    BY <1>5, <2>1, <2>2
<1>11. lost = FALSE => length = Len(meant) /\ \A k \in 1 .. length : blob_stores'[store][0 + k] = meant[k]
  BY <1>2, <1>5
<1> QED
  BY <1>5, <1>7, <1>8, <1>9, <1>10, <1>11, RequestBegins

\* What a request reads of a store is what its code meant.
Reads(store, start, length, meant) ==
  /\ store \in 1 .. Len(blob_stores) /\ start \in Nat /\ length \in Nat /\ meant \in Seq(Int)
  /\ start + length <= Len(blob_stores[store]) /\ length = Len(meant)
  /\ \A k \in 1 .. length : blob_stores[store][start + k] = meant[k]

LEMMA FetchOfMemory ==
  ASSUME BlobInv, NEW p \in Blob!Parts, Blob!Fetch(p), NEW store, NEW start, NEW length, NEW meant,
         Blob!Body(p) = [live |-> TRUE, store |-> store, start |-> start, length |-> length], ~Blob!Lost(p),
         Blob!Meant(p) = meant, p.kind \notin Live => store \notin blob_writable, Reads(store, start, length, meant)
  PROVE  BlobInv'
<1>0. /\ store \in 1 .. Len(blob_stores) /\ start \in Nat /\ length \in Nat /\ meant \in Seq(Int)
      /\ start + length <= Len(blob_stores[store]) /\ length = Len(meant)
      /\ \A k \in 1 .. length : blob_stores[store][start + k] = meant[k]
  BY DEF Reads
<1>1. /\ blob_stores' = blob_stores /\ UNCHANGED <<blob_mode, blob_maxSize, blob_writable, blob_blobs>>
      /\ blob_request' = [state |-> "sending", kind |-> p.kind, lost |-> Blob!Lost(p), meant |-> Blob!Meant(p),
                          sent |-> <<>>, store |-> store, start |-> start, length |-> length,
                          had |-> [i \in 1 .. length |-> {blob_stores'[store][start + i]}]]
  BY DEF Blob!Fetch
<1>2. MemoryTyped /\ BlobsLie
  BY DEF BlobInv
<1>3. /\ blob_stores' \in Seq(Seq(Int)) /\ Len(blob_stores) <= Len(blob_stores')
      /\ blob_writable' \subseteq 1 .. Len(blob_stores')
  BY <1>1, <1>2 DEF MemoryTyped
<1>4. MemoryTyped' /\ BlobsLie'
  BY <1>1, <1>2, <1>3, BlobsStay
<1>5. Blob!Lost(p) = FALSE
  BY DEF Blob!Lost
<1>6. blob_request' = [state |-> "sending", kind |-> p.kind, lost |-> FALSE, meant |-> meant,
                       sent |-> <<>>, store |-> store, start |-> start, length |-> length,
                       had |-> [i \in 1 .. length |-> {blob_stores'[store][start + i]}]]
  BY <1>1, <1>5
<1>7. p.kind \in Given
  BY <1>2, PartsAre
<1>8. store \in 1 .. Len(blob_stores') /\ start + length <= Len(blob_stores'[store]) /\ FALSE \in BOOLEAN
  BY <1>0, <1>1
<1>9. /\ p.kind \notin Live => store \notin blob_writable'
      /\ \A k \in 1 .. length : blob_stores'[store][start + k] = meant[k]
  BY <1>0, <1>1
<1> QED
  BY <1>0, <1>4, <1>6, <1>7, <1>8, <1>9, RequestBegins

LEMMA Fetches ==
  ASSUME BlobInv, NEW p \in Blob!Parts, Blob!Fetch(p)
  PROVE  BlobInv'
<1>1. MemoryTyped /\ BlobsLie /\ p.kind \in Given
  BY PartsAre DEF BlobInv
<1>2. CASE p.kind = "text"
  <2>1. p.text \in Seq(Int)
    BY <1>1, <1>2, PartsAre
  <2>2. Blob!Body(p) = [live |-> FALSE, bytes |-> p.text] /\ ~Blob!Lost(p) /\ Blob!Meant(p) = p.text
    BY <1>2 DEF Blob!Body, Blob!Lost, Blob!Meant
  <2> QED
    BY <2>1, <2>2, FetchOfBytes
<1>3. CASE p.kind \in {"view", "buffer"}
  <2>1. /\ p.store \in 1 .. Len(blob_stores) /\ p.start \in Nat /\ p.length \in Nat
        /\ p.start + p.length <= Len(blob_stores[p.store])
    BY <1>1, <1>3, PartsAre DEF MemoryTyped
  <2>2. PICK t : t = Blob!Span(p.store, p.start, p.length)
    OBVIOUS
  <2>3. /\ t \in Seq(Int) /\ p.length = Len(t)
        /\ \A k \in 1 .. p.length : blob_stores[p.store][p.start + k] = t[k]
    BY <1>1, <2>1, <2>2, SpanIs DEF MemoryTyped
  <2>4. ~Blob!Lost(p) /\ Blob!Meant(p) = t
    BY <1>3, <2>2 DEF Blob!Lost, Blob!Meant
  <2>5. CASE p.kind = "view"
    <3>1. Blob!Body(p) = [live |-> FALSE, bytes |-> t]
      BY <2>2, <2>5 DEF Blob!Body
    <3> QED
      BY <2>3, <2>4, <3>1, FetchOfBytes
  <2>6. CASE p.kind = "buffer"
    <3>1. Blob!Body(p) = [live |-> TRUE, store |-> p.store, start |-> p.start, length |-> p.length]
      BY <2>6 DEF Blob!Body
    <3>2. p.kind \in Live
      BY <2>6 DEF Live
    <3>3. Reads(p.store, p.start, p.length, t)
      BY <2>1, <2>3 DEF Reads
    <3> QED
      BY <2>4, <3>1, <3>2, <3>3, FetchOfMemory
  <2> QED
    BY <1>3, <2>5, <2>6
<1>4. CASE p.kind = "array buffer"
  <2>1. p.store \in 1 .. Len(blob_stores)
    BY <1>1, <1>4, PartsAre DEF MemoryTyped
  <2>2. PICK t \in Seq(Int) : t = blob_stores[p.store]
    BY <1>1, <2>1 DEF MemoryTyped
  <2>3. Blob!Meant(p) = t
    BY <1>4, <2>2 DEF Blob!Meant
  <2>4. CASE blob_mode = "pool"
    <3>1. Blob!Body(p) = [live |-> FALSE, bytes |-> Blob!Json] /\ Blob!Lost(p)
      BY <1>4, <2>4 DEF Blob!Body, Blob!Lost
    <3> QED
      BY <2>3, <3>1, FetchOfBytes, TextsAreBytes
  <2>5. CASE blob_mode # "pool"
    <3>1. PICK n \in Nat : n = Len(t)
      OBVIOUS
    <3>2. Blob!Body(p) = [live |-> TRUE, store |-> p.store, start |-> 0, length |-> n]
      BY <1>4, <2>2, <2>5, <3>1 DEF Blob!Body
    <3>3. ~Blob!Lost(p)
      BY <1>4, <2>5 DEF Blob!Lost
    <3>4. PICK z \in Nat : z = 0
      OBVIOUS
    <3>5. z + n = n /\ \A k \in 1 .. n : z + k = k
      BY <3>4
    <3>6. z + n <= Len(blob_stores[p.store])
      BY <2>2, <3>1, <3>5
    <3>7. \A k \in 1 .. n : blob_stores[p.store][z + k] = t[k]
      BY <2>2, <3>5
    <3>8. p.kind \in Live
      BY <1>4 DEF Live
    <3>9. Blob!Body(p) = [live |-> TRUE, store |-> p.store, start |-> z, length |-> n]
      BY <3>2, <3>4
    <3>10. Reads(p.store, z, n, t)
      BY <2>1, <2>2, <3>1, <3>4, <3>6, <3>7 DEF Reads
    <3> QED
      BY <2>3, <3>3, <3>8, <3>9, <3>10, FetchOfMemory
  <2> QED
    BY <2>4, <2>5
<1>5. CASE p.kind = "blob"
  <2>1. p.blob \in 1 .. Len(blob_blobs)
    BY <1>1, <1>5, PartsAre
  <2>2. PICK b : b = blob_blobs[p.blob]
    OBVIOUS
  <2>3. b \in Piece
    BY <1>1, <2>1, <2>2 DEF MemoryTyped
  <2>4. Lies(b, blob_stores, blob_writable)
    BY <1>1, <2>1, <2>2 DEF BlobsLie
  <2>5. Blob!Meant(p) = b.made /\ b.made \in Seq(Int)
    BY <1>5, <2>2, <2>3 DEF Blob!Meant, Piece
  <2>6. CASE b.store = 0
    <3>1. Blob!Body(p) = [live |-> FALSE, bytes |-> Blob!Json] /\ Blob!Lost(p)
      BY <1>5, <2>2, <2>6 DEF Blob!Body, Blob!Lost, Blob!NoStore
    <3> QED
      BY <2>5, <3>1, FetchOfBytes, TextsAreBytes
  <2>7. CASE b.store # 0
    <3>1. Blob!Body(p) = [live |-> TRUE, store |-> b.store, start |-> b.start, length |-> b.length] /\ ~Blob!Lost(p)
      BY <1>5, <2>2, <2>7 DEF Blob!Body, Blob!Lost, Blob!NoStore
    <3>2. /\ b.store \in 1 .. Len(blob_stores) /\ b.start \in Nat /\ b.length \in Nat /\ b.store \notin blob_writable
          /\ b.start + b.length <= Len(blob_stores[b.store]) /\ b.length = Len(b.made)
          /\ \A k \in 1 .. b.length : blob_stores[b.store][b.start + k] = b.made[k]
      BY <1>1, <2>3, <2>4, <2>7 DEF Lies, Piece, MemoryTyped
    <3>3. Reads(b.store, b.start, b.length, b.made)
      BY <2>5, <3>2 DEF Reads
    <3> QED
      BY <2>5, <3>1, <3>2, <3>3, FetchOfMemory
  <2> QED
    BY <2>6, <2>7
<1> QED
  BY <1>1, <1>2, <1>3, <1>4, <1>5 DEF Given

(* The code writes a byte: into what is being sent, what it wrote is remembered.                       *)
LEMMA PutsBytes ==
  ASSUME BlobInv, NEW s \in blob_writable, NEW i \in 1 .. 2, NEW b \in BlobByte, Blob!Put(s, i, b)
  PROVE  BlobInv'
<1>1. MemoryTyped /\ BlobsLie /\ s \in 1 .. Len(blob_stores) /\ blob_stores \in Seq(Seq(Int)) /\ b \in Int
  BY BlobAssumption DEF BlobInv, MemoryTyped
<1>2. /\ blob_stores' = [blob_stores EXCEPT ![s][i] = b] /\ i \in DOMAIN blob_stores[s]
      /\ UNCHANGED <<blob_mode, blob_maxSize, blob_writable, blob_blobs>>
      /\ ~(blob_mode = "pool" /\ blob_request # Blob!NoRequest /\ blob_request.state = "sending")
  BY DEF Blob!Put, Blob!Busy, Blob!Sending
<1>3. PICK m \in Seq(Int) : m = blob_stores[s]
  BY <1>1
<1>4. PICK w : w = [m EXCEPT ![i] = b]
  OBVIOUS
<1>5. w \in Seq(Int) /\ Len(w) = Len(m) /\ w[i] = b /\ \A k \in 1 .. Len(m) : k # i => w[k] = m[k]
  BY <1>1, <1>2, <1>3, <1>4
<1>6. blob_stores' = [blob_stores EXCEPT ![s] = w]
  BY <1>2, <1>3, <1>4
<1>7. /\ blob_stores' \in Seq(Seq(Int)) /\ Len(blob_stores') = Len(blob_stores) /\ blob_stores'[s] = w
      /\ \A t \in 1 .. Len(blob_stores) : t # s => blob_stores'[t] = blob_stores[t]
  BY <1>1, <1>5, <1>6
<1>8. Len(blob_stores) \in Nat /\ \A t \in 1 .. Len(blob_stores) : Len(blob_stores'[t]) = Len(blob_stores[t])
  <2>1. Len(blob_stores) \in Nat
    BY <1>1
  <2>2. ASSUME NEW t \in 1 .. Len(blob_stores) PROVE Len(blob_stores'[t]) = Len(blob_stores[t])
    <3>1. CASE t = s
      BY <1>3, <1>5, <1>7, <3>1
    <3>2. CASE t # s
      BY <1>7, <3>2
    <3> QED
      BY <3>1, <3>2
  <2> QED
    BY <2>1, <2>2
<1>9. MemoryTyped' /\ BlobsLie'
  <2>1. Len(blob_stores) <= Len(blob_stores') /\ blob_writable' \subseteq 1 .. Len(blob_stores')
    BY <1>1, <1>2, <1>7, <1>8 DEF MemoryTyped
  <2> QED
    BY <1>1, <1>2, <1>7, <2>1, BlobsStay
<1>10. CASE blob_request = Blob!NoRequest
  <2>1. blob_request' = blob_request
    BY <1>10 DEF Blob!Put, Blob!Sending
  <2> QED
    BY <1>9, <1>10, <2>1 DEF BlobInv, RightRequest
<1>11. CASE blob_request # Blob!NoRequest
  <2>1. PICK q : q = blob_request
    OBVIOUS
  <2>2. RequestFields(q) /\ RequestTyped(q) /\ RequestLost(q) /\ RequestMeant(q) /\ RequestHad(q)
    BY <1>11, <2>1 DEF BlobInv, RightRequest
  <2>3. ~(blob_mode = "pool" /\ q.state = "sending")
    BY <1>2, <1>11, <2>1
  <2>4. PICK h :
          /\ blob_request' = [state |-> q.state, kind |-> q.kind, lost |-> q.lost, meant |-> q.meant,
                              sent |-> q.sent, store |-> q.store, start |-> q.start, length |-> q.length,
                              had |-> h]
          /\ DOMAIN h = 1 .. q.length
          /\ \A k \in 1 .. q.length : q.had[k] \subseteq h[k]
          /\ \A k \in 1 .. q.length :
               (q.state = "sending" /\ q.store = s /\ i = q.start + k) => b \in h[k]
    <3>1. CASE q.state = "sending" /\ q.store = s /\ i \in q.start + 1 .. q.start + q.length
      <4>1. PICK j : j = i - q.start
        OBVIOUS
      <4>2. blob_request' = [q EXCEPT !.had[i - q.start] = @ \cup {b}]
        BY <1>11, <2>1, <3>1 DEF Blob!Put, Blob!Sending
      <4>3. PICK h : h = [q.had EXCEPT ![j] = q.had[j] \cup {b}]
        OBVIOUS
      <4>4. blob_request' = [q EXCEPT !.had = h]
        BY <4>1, <4>2, <4>3
      <4>5. blob_request' = [state |-> q.state, kind |-> q.kind, lost |-> q.lost, meant |-> q.meant,
                             sent |-> q.sent, store |-> q.store, start |-> q.start, length |-> q.length,
                             had |-> h]
        BY <2>2, <4>4 DEF RequestFields
      <4>6. j \in 1 .. q.length /\ \A k \in 1 .. q.length : i = q.start + k => k = j
        BY <2>2, <3>1, <4>1, SMTT(20) DEF RequestTyped
      <4>7. DOMAIN h = 1 .. q.length /\ h[j] = q.had[j] \cup {b} /\ \A k \in 1 .. q.length : k # j => h[k] = q.had[k]
        BY <2>2, <4>3, <4>6 DEF RequestTyped
      <4>8. \A k \in 1 .. q.length : q.had[k] \subseteq h[k]
        BY <4>7
      <4>9. \A k \in 1 .. q.length : q.state = "sending" /\ q.store = s /\ i = q.start + k => b \in h[k]
        BY <4>6, <4>7
      <4> QED
        BY <4>5, <4>7, <4>8, <4>9
    <3>2. CASE ~(q.state = "sending" /\ q.store = s /\ i \in q.start + 1 .. q.start + q.length)
      <4>1. blob_request' = q
        BY <2>1, <3>2 DEF Blob!Put, Blob!Sending
      <4>2. \A k \in 1 .. q.length : ~(q.state = "sending" /\ q.store = s /\ i = q.start + k)
        <5>1. q.start \in Nat /\ q.length \in Nat
          BY <2>2 DEF RequestTyped
        <5>2. \A k \in 1 .. q.length : q.start + k \in q.start + 1 .. q.start + q.length
          BY <5>1
        <5> QED
          BY <3>2, <5>2
      <4>3. DOMAIN q.had = 1 .. q.length
        BY <2>2 DEF RequestTyped
      <4> QED
        BY <2>2, <4>1, <4>2, <4>3 DEF RequestFields
    <3> QED
      BY <3>1, <3>2
  <2>5. PICK n : n = blob_request'
    OBVIOUS
  <2>6. /\ n.state = q.state /\ n.kind = q.kind /\ n.lost = q.lost /\ n.meant = q.meant /\ n.sent = q.sent
        /\ n.store = q.store /\ n.start = q.start /\ n.length = q.length /\ n.had = h
    BY <2>4, <2>5
  <2>7. /\ q.store \in 1 .. Len(blob_stores) /\ q.start \in Nat /\ q.length \in Nat
        /\ q.start + q.length <= Len(blob_stores[q.store]) /\ Len(q.sent) <= q.length
    BY <2>2 DEF RequestTyped
  <2>8. q.store \notin blob_writable => blob_stores'[q.store] = blob_stores[q.store]
    BY <1>7, <2>7
  <2>9. RequestFields(blob_request')
    BY <2>4, <2>5, <2>6 DEF RequestFields
  <2>10. RequestTyped(blob_request)'
    BY <1>7, <1>8, <2>2, <2>4, <2>5, <2>6, <2>7 DEF RequestTyped
  <2>11. RequestLost(blob_request)'
    BY <1>2, <2>2, <2>5, <2>6, <2>8 DEF RequestLost
  <2>12. RequestMeant(blob_request)'
    BY <1>2, <2>2, <2>3, <2>5, <2>6, <2>8 DEF RequestMeant
  <2>13. RequestHad(blob_request)'
    <3>1. ASSUME n.state = "sending", NEW k \in 1 .. n.length
          PROVE  blob_stores'[n.store][n.start + k] \in n.had[k]
      <4>1. k \in 1 .. q.length /\ q.start + k \in 1 .. Len(blob_stores[q.store])
        <5>1. PICK l \in Nat : l = Len(blob_stores[q.store])
          BY <1>1, <2>7
        <5>2. q.start \in Nat /\ q.length \in Nat /\ q.start + q.length <= l /\ k \in 1 .. q.length
          BY <2>6, <2>7, <5>1
        <5>3. q.start + k \in 1 .. l
          BY <5>2
        <5> QED
          BY <5>1, <5>2, <5>3
      <4>2. blob_stores[q.store][q.start + k] \in q.had[k] /\ q.had[k] \subseteq h[k]
        BY <2>2, <2>4, <2>6, <3>1, <4>1 DEF RequestHad
      <4>3. CASE q.store # s
        BY <1>7, <2>6, <2>7, <4>2, <4>3
      <4>4. CASE q.store = s
        <5>1. PICK x : x = q.start + k
          OBVIOUS
        <5>2. PICK l : l = n.start + k
          OBVIOUS
        <5>3. l = x /\ blob_stores'[n.store] = w
          BY <1>7, <2>6, <4>4, <5>1, <5>2
        <5>4. x \in 1 .. Len(m) /\ m[x] \in q.had[k] /\ q.had[k] \subseteq h[k]
          BY <1>3, <4>1, <4>2, <4>4, <5>1
        <5>5. CASE x # i
          BY <1>5, <2>6, <5>2, <5>3, <5>4, <5>5
        <5>6. CASE x = i
          <6>1. b \in h[k]
            BY <2>4, <2>6, <3>1, <4>1, <4>4, <5>1, <5>6
          <6> QED
            BY <1>5, <2>6, <5>2, <5>3, <5>6, <6>1
        <5> QED
          BY <5>5, <5>6
      <4> QED
        BY <4>3, <4>4
    <3>2. \A k \in 1 .. Len(n.sent) : n.sent[k] \in n.had[k]
      <4> SUFFICES ASSUME NEW k \in 1 .. Len(q.sent) PROVE q.sent[k] \in h[k]
        BY <2>6
      <4>1. q.sent[k] \in q.had[k] /\ k \in 1 .. q.length
        <5>1. PICK l \in Nat : l = Len(q.sent)
          BY <2>2 DEF RequestTyped
        <5>2. q.length \in Nat /\ l <= q.length
          BY <2>7, <5>1
        <5>3. k \in 1 .. q.length
          BY <5>1, <5>2
        <5> QED
          BY <2>2, <5>3 DEF RequestHad
      <4> QED
        BY <2>4, <4>1
    <3> QED
      BY <2>5, <3>1, <3>2 DEF RequestHad
  <2> QED
    BY <1>9, <2>9, <2>10, <2>11, <2>12, <2>13 DEF BlobInv, RightRequest, RequestFields
<1> QED
  BY <1>10, <1>11

(* A byte is sent, or the request is over.                                   *)
LEMMA Sends ==
  ASSUME BlobInv, Blob!Send
  PROVE  BlobInv'
<1>1. PICK q : q = blob_request
  OBVIOUS
<1>2. /\ q # Blob!NoRequest /\ q.state = "sending"
      /\ UNCHANGED <<blob_mode, blob_maxSize, blob_stores, blob_writable, blob_blobs>>
  BY <1>1 DEF Blob!Send, Blob!Sending
<1>3. MemoryTyped /\ BlobsLie
  BY DEF BlobInv
<1>4. RequestFields(q) /\ RequestTyped(q) /\ RequestLost(q) /\ RequestMeant(q) /\ RequestHad(q)
  BY <1>1, <1>2 DEF BlobInv, RightRequest
<1>5. MemoryTyped' /\ BlobsLie'
  BY <1>2, <1>3 DEF MemoryTyped, BlobsLie
<1>6. PICK n : n = blob_request'
  OBVIOUS
<1>7. CASE Len(q.sent) = q.length
  <2>1. n = [q EXCEPT !.state = "sent"]
    BY <1>1, <1>6, <1>7 DEF Blob!Send
  <2>2. n = [state |-> "sent", kind |-> q.kind, lost |-> q.lost, meant |-> q.meant, sent |-> q.sent,
             store |-> q.store, start |-> q.start, length |-> q.length, had |-> q.had]
    BY <1>4, <2>1 DEF RequestFields
  <2>3. /\ n.state = "sent" /\ n.kind = q.kind /\ n.lost = q.lost /\ n.meant = q.meant /\ n.sent = q.sent
        /\ n.store = q.store /\ n.start = q.start /\ n.length = q.length /\ n.had = q.had
    BY <2>2
  <2>4. RequestFields(blob_request')
    BY <1>6, <2>2, <2>3 DEF RequestFields
  <2>5. RequestTyped(blob_request)'
    BY <1>2, <1>4, <1>6, <1>7, <2>3 DEF RequestTyped
  <2>6. RequestLost(blob_request)'
    BY <1>2, <1>4, <1>6, <2>3 DEF RequestLost
  <2>7. RequestMeant(blob_request)'
    BY <1>2, <1>4, <1>6, <2>3 DEF RequestMeant
  <2>8. RequestHad(blob_request)'
    BY <1>2, <1>4, <1>6, <2>3 DEF RequestHad
  <2> QED
    BY <1>5, <2>4, <2>5, <2>6, <2>7, <2>8 DEF BlobInv, RightRequest, RequestFields
<1>8. CASE Len(q.sent) # q.length
  <2>1. PICK l \in Nat : l = Len(q.sent)
    BY <1>4 DEF RequestTyped
  <2>2. PICK c : c = blob_stores[q.store][q.start + l + 1]
    OBVIOUS
  <2>3. PICK sent : sent = Append(q.sent, c)
    OBVIOUS
  <2>4. n = [q EXCEPT !.sent = sent]
    BY <1>1, <1>6, <1>8, <2>1, <2>2, <2>3 DEF Blob!Send
  <2>5. n = [state |-> q.state, kind |-> q.kind, lost |-> q.lost, meant |-> q.meant, sent |-> sent,
             store |-> q.store, start |-> q.start, length |-> q.length, had |-> q.had]
    BY <1>4, <2>4 DEF RequestFields
  <2>6. /\ n.state = "sending" /\ n.kind = q.kind /\ n.lost = q.lost /\ n.meant = q.meant /\ n.sent = sent
        /\ n.store = q.store /\ n.start = q.start /\ n.length = q.length /\ n.had = q.had
    BY <1>2, <2>5
  <2>7. /\ q.store \in 1 .. Len(blob_stores) /\ q.start \in Nat /\ q.length \in Nat /\ l < q.length
        /\ q.start + q.length <= Len(blob_stores[q.store]) /\ q.sent \in Seq(Int)
    BY <1>4, <1>8, <2>1 DEF RequestTyped
  <2>8. PICK k : k = l + 1 /\ k \in 1 .. q.length /\ q.start + l + 1 = q.start + k
    <3>1. q.length \in Nat /\ q.start \in Nat /\ l < q.length
      BY <2>7
    <3>2. l + 1 \in 1 .. q.length /\ q.start + l + 1 = q.start + (l + 1)
      BY <3>1
    <3> QED
      BY <3>2
  <2>9. c = blob_stores[q.store][q.start + k] /\ c \in Int
    <3>1. blob_stores[q.store] \in Seq(Int)
      BY <1>3, <2>7 DEF MemoryTyped
    <3>2. PICK w \in Nat : w = Len(blob_stores[q.store])
      BY <3>1
    <3>3. q.start \in Nat /\ q.length \in Nat /\ q.start + q.length <= w /\ k \in 1 .. q.length
      BY <2>7, <2>8, <3>2
    <3>4. q.start + k \in 1 .. w
      BY <3>3
    <3> QED
      BY <2>2, <2>8, <3>1, <3>2, <3>4
  <2>10. /\ sent \in Seq(Int) /\ Len(sent) = k /\ sent[k] = c /\ Len(q.sent) + 1 = k
         /\ \A j \in 1 .. Len(q.sent) : sent[j] = q.sent[j]
    BY <2>1, <2>3, <2>7, <2>8, <2>9
  <2>11. \A j \in 1 .. k : j \in 1 .. Len(q.sent) \/ j = k
    BY <2>1, <2>8
  <2>12. RequestFields(blob_request')
    BY <1>2, <1>6, <2>5, <2>6 DEF RequestFields
  <2>13. RequestTyped(blob_request)'
    BY <1>2, <1>4, <1>6, <2>6, <2>8, <2>10 DEF RequestTyped
  <2>14. RequestLost(blob_request)'
    <3> SUFFICES ASSUME q.lost = TRUE
                 PROVE  /\ q.store \notin blob_writable /\ q.length = 2
                        /\ \A j \in 1 .. 2 : blob_stores[q.store][q.start + j] = Blob!Json[j]
                        /\ \A j \in 1 .. Len(sent) : sent[j] = Blob!Json[j]
      BY <1>2, <1>6, <2>6 DEF RequestLost
    <3>1. /\ q.store \notin blob_writable /\ q.length = 2
          /\ \A j \in 1 .. 2 : blob_stores[q.store][q.start + j] = Blob!Json[j]
          /\ \A j \in 1 .. Len(q.sent) : q.sent[j] = Blob!Json[j]
      BY <1>4 DEF RequestLost
    <3>2. c = Blob!Json[k]
      BY <2>8, <2>9, <3>1
    <3> QED
      BY <2>10, <2>11, <3>1, <3>2, SMTT(20)
  <2>15. RequestMeant(blob_request)'
    <3> SUFFICES ASSUME q.lost = FALSE
                 PROVE  /\ q.length = Len(q.meant)
                        /\ q.kind \notin Live => q.store \notin blob_writable
                        /\ (q.kind \notin Live \/ blob_mode = "pool")
                             => \A j \in 1 .. q.length : blob_stores[q.store][q.start + j] = q.meant[j]
                        /\ (q.kind \notin Live \/ blob_mode = "pool")
                             => \A j \in 1 .. Len(sent) : sent[j] = q.meant[j]
      BY <1>2, <1>6, <2>6 DEF RequestMeant
    <3>1. /\ q.length = Len(q.meant)
          /\ q.kind \notin Live => q.store \notin blob_writable
          /\ (q.kind \notin Live \/ blob_mode = "pool")
               => \A j \in 1 .. q.length : blob_stores[q.store][q.start + j] = q.meant[j]
          /\ (q.kind \notin Live \/ blob_mode = "pool")
               => \A j \in 1 .. Len(q.sent) : q.sent[j] = q.meant[j]
      BY <1>2, <1>4 DEF RequestMeant
    <3>2. (q.kind \notin Live \/ blob_mode = "pool") => c = q.meant[k]
      BY <2>8, <2>9, <3>1
    <3> QED
      BY <2>10, <2>11, <3>1, <3>2
  <2>16. RequestHad(blob_request)'
    <3>1. /\ \A j \in 1 .. q.length : blob_stores[q.store][q.start + j] \in q.had[j]
          /\ \A j \in 1 .. Len(q.sent) : q.sent[j] \in q.had[j]
      BY <1>2, <1>4 DEF RequestHad
    <3>2. c \in q.had[k]
      BY <2>8, <2>9, <3>1
    <3>3. \A j \in 1 .. Len(sent) : sent[j] \in q.had[j]
      BY <2>10, <2>11, <3>1, <3>2
    <3> QED
      BY <1>2, <1>6, <2>6, <3>1, <3>3 DEF RequestHad
  <2> QED
    BY <1>5, <2>12, <2>13, <2>14, <2>15, <2>16 DEF BlobInv, RightRequest, RequestFields
<1> QED
  BY <1>7, <1>8

(* Every step keeps it.                                                      *)
LEMMA BlobGoesOn == ASSUME BlobInv, [Blob!Next]_blob_vars PROVE BlobInv'
<1>1. CASE UNCHANGED blob_vars
  BY <1>1 DEF blob_vars, BlobInv, MemoryTyped, BlobsLie, RightRequest, RequestTyped, RequestLost, RequestMeant,
              RequestHad
<1>2. ASSUME NEW p \in Blob!Parts, Blob!NewFile(<<p>>) \/ Blob!NewBlob(<<p>>) PROVE BlobInv'
  <2>1. 1 \in Nat /\ <<p>> \in [1 .. 1 -> Blob!Parts] /\ FALSE \in BOOLEAN
    OBVIOUS
  <2>2. PICK native \in BOOLEAN : Blob!Construct(<<p>>, native)
    BY <1>2, <2>1 DEF Blob!NewFile, Blob!NewBlob
  <2> QED
    BY <2>1, <2>2, Constructs
<1>3. ASSUME NEW p \in Blob!Parts, NEW q \in Blob!Parts, Blob!NewBlob(<<p, q>>) PROVE BlobInv'
  <2>1. 2 \in Nat /\ <<p, q>> \in [1 .. 2 -> Blob!Parts]
    OBVIOUS
  <2>2. PICK native \in BOOLEAN : Blob!Construct(<<p, q>>, native)
    BY <1>3 DEF Blob!NewBlob
  <2> QED
    BY <2>1, <2>2, Constructs
<1>4. ASSUME Blob!NewBlob(<<>>) PROVE BlobInv'
  <2>1. 0 \in Nat /\ <<>> \in [1 .. 0 -> Blob!Parts]
    OBVIOUS
  <2>2. PICK native \in BOOLEAN : Blob!Construct(<<>>, native)
    BY <1>4 DEF Blob!NewBlob
  <2> QED
    BY <2>1, <2>2, Constructs
<1>5. ASSUME NEW i \in DOMAIN blob_blobs, NEW from \in {0, -1}, NEW to \in {1, 3}, Blob!Slice(i, from, to)
      PROVE  BlobInv'
  <2>1. from \in Int /\ to \in Int
    OBVIOUS
  <2> QED
    BY <1>5, <2>1, Slices
<1>6. CASE Blob!Next
  BY <1>2, <1>3, <1>4, <1>5, <1>6, Fetches, ArrayBuffers, PutsBytes, Sends DEF Blob!Next
<1> QED
  BY <1>1, <1>6

(* What the runs check.                                                      *)
LEMMA BlobServes == ASSUME BlobInv PROVE Blob!BlobsHold
<1>1. MemoryTyped /\ BlobsLie
  BY DEF BlobInv
<1>2. Blob!BlobsKeep
  <2> SUFFICES ASSUME NEW i \in DOMAIN blob_blobs
               PROVE  Blob!BytesOf(blob_blobs[i]) = blob_blobs[i].made /\ blob_blobs[i].length <= blob_maxSize
    BY DEF Blob!BlobsKeep
  <2>1. i \in 1 .. Len(blob_blobs) /\ blob_blobs[i] \in Piece
    BY <1>1 DEF MemoryTyped
  <2>2. Lies(blob_blobs[i], blob_stores, blob_writable) /\ blob_blobs[i].length <= blob_maxSize
    BY <1>1, <2>1 DEF BlobsLie
  <2> QED
    BY <1>1, <2>1, <2>2, BlobBytes
<1>3. ASSUME blob_request # Blob!NoRequest
      PROVE  /\ IF blob_request.lost THEN blob_request.sent \in {SubSeq(Blob!Json, 1, n) : n \in 0 .. 2}
                ELSE IF blob_request.kind \in {"array buffer", "buffer"}
                     THEN \A i \in DOMAIN blob_request.sent : blob_request.sent[i] \in blob_request.had[i]
                     ELSE blob_request.sent = SubSeq(blob_request.meant, 1, Len(blob_request.sent))
             /\ (blob_request.state = "sent" /\ ~blob_request.lost)
                  => Len(blob_request.sent) = Len(blob_request.meant)
             /\ (blob_mode = "pool" /\ ~blob_request.lost)
                  => blob_request.sent = SubSeq(blob_request.meant, 1, Len(blob_request.sent))
  <2>1. PICK q : q = blob_request
    OBVIOUS
  <2>2. RequestTyped(q) /\ RequestLost(q) /\ RequestMeant(q) /\ RequestHad(q)
    BY <1>3, <2>1 DEF BlobInv, RightRequest
  <2>3. /\ q.sent \in Seq(Int) /\ q.meant \in Seq(Int) /\ q.lost \in BOOLEAN /\ Len(q.sent) <= q.length
        /\ q.state = "sent" => Len(q.sent) = q.length
    BY <2>2 DEF RequestTyped
  <2>4. CASE q.lost = TRUE
    <3>1. q.length = 2 /\ \A k \in 1 .. Len(q.sent) : q.sent[k] = Blob!Json[k]
      BY <2>2, <2>4 DEF RequestLost
    <3>2. q.sent = SubSeq(Blob!Json, 1, Len(q.sent))
      BY <2>3, <3>1, BeginningOf, TextsAreBytes
    <3>3. Len(q.sent) \in 0 .. 2
      <4>1. PICK l \in Nat : l = Len(q.sent)
        BY <2>3
      <4> QED
        <5>1. l <= 2
          BY <2>3, <3>1, <4>1
        <5>2. l \in 0 .. 2
          BY <5>1
        <5> QED
          BY <4>1, <5>2
    <3> QED
      BY <2>1, <2>4, <3>2, <3>3
  <2>5. CASE q.lost = FALSE
    <3>1. q.length = Len(q.meant)
      BY <2>2, <2>5 DEF RequestMeant
    <3>2. q.kind \notin Live \/ blob_mode = "pool" => q.sent = SubSeq(q.meant, 1, Len(q.sent))
      <4> SUFFICES ASSUME q.kind \notin Live \/ blob_mode = "pool" PROVE q.sent = SubSeq(q.meant, 1, Len(q.sent))
        OBVIOUS
      <4>1. \A k \in 1 .. Len(q.sent) : q.sent[k] = q.meant[k]
        BY <2>2, <2>5 DEF RequestMeant
      <4> QED
        BY <2>3, <3>1, <4>1, BeginningOf
    <3>3. \A i \in DOMAIN q.sent : q.sent[i] \in q.had[i]
      <4>1. DOMAIN q.sent = 1 .. Len(q.sent)
        BY <2>3
      <4> QED
        BY <2>2, <4>1 DEF RequestHad
    <3> QED
      BY <2>1, <2>3, <2>5, <3>1, <3>2, <3>3 DEF Live
  <2> QED
    BY <2>3, <2>4, <2>5
<1> QED
  BY <1>2, <1>3 DEF Blob!BlobsHold, Blob!SentAsGiven

-----------------------------------------------------------------------------
(***************************************************************************)
(* The theorems.                                                           *)
(***************************************************************************)

(* One component takes one of its steps, and the others none.                *)
LEMMA Together ==
  ASSUME [Next]_vars
  PROVE  /\ [Address!Next]_address_vars /\ [Query!Next]_query_vars
         /\ [Page!Next]_page_vars /\ [Gateway!Next]_gateway_vars
         /\ [Setup!Next]_setup_vars /\ [Blob!Next]_blob_vars
BY DEF Next, Rest, vars

(* The gateway: what is executed is paid for once and recorded whatever      *)
(* panics, a gzip writer serves one response at a time, and 200 was served.  *)
THEOREM GatewayServes == Spec => []GatewayHolds
<1>1. Init => GatewayInv
  BY GatewayInit DEF Init
<1>2. GatewayInv /\ [Next]_vars => GatewayInv'
  BY GatewayNext, Together
<1>3. GatewayInv => GatewayHolds
  BY GatewaySafe
<1> QED
  BY <1>1, <1>2, <1>3, PTL DEF Spec

(* The sessions of the pages: a session that is accepted is not older than   *)
(* its age and was used within its time, renewals of lost and late answers   *)
(* included, and while the counter of a client lives, the client has begun   *)
(* at most as many as it may.                                                *)
THEOREM PagesAreBounded == Spec => []SessionsBounded
<1>1. Init => PageInv
  BY PageInit DEF Init
<1>2. PageInv /\ [Next]_vars => PageInv'
  BY PageNext, Together
<1>3. PageInv => SessionsBounded
  BY PageSafe
<1> QED
  BY <1>1, <1>2, <1>3, PTL DEF Spec

(* The codes that are mailed: how often one is guessed and used, and how     *)
(* many an address is sent, though checks and counts are separate commands.  *)
THEOREM CodesAreBounded == Spec => []GuessesBounded
<1> DEFINE Inv == MailInv /\ GuessInv
<1>1. Init => Inv
  BY MailInit, GuessInit DEF Init
<1>2. Inv /\ [Next]_vars => Inv'
  BY MailNext, GuessNext, Together
<1>3. Inv => GuessesBounded
  BY MailSafe, GuessSafe DEF GuessesBounded
<1> QED
  BY <1>1, <1>2, <1>3, PTL DEF Spec

(* The buckets of an address: a cleanup, which races with requests that have *)
(* looked at their address and their bucket, gives nobody a token and leaves *)
(* the lenient bucket to who has authenticated recently.                     *)
THEOREM AddressesAreFair == Spec => []AddressesEarn
<1>1. Init => AddressInv
  BY AddressInit DEF Init
<1>2. AddressInv /\ [Next]_vars => AddressInv'
  BY AddressNext, Together
<1>3. AddressInv => AddressesEarn
  BY AddressSafe
<1> QED
  BY <1>1, <1>2, <1>3, PTL DEF Spec

(* The host of a script: a runtime that serves has every step that is not    *)
(* optional behind it, a library is compiled once and given by the name it   *)
(* is required by, whatever was loaded before it, except crypto-js after a   *)
(* library that leaves module behind, and an allocation is within its limit; *)
(* a Blob is what it was made of, whatever is written into ArrayBuffers it   *)
(* was made of or gave away, and fetch sends what it was given.              *)
THEOREM ScriptsAreHosted == Spec => []ScriptsHosted
<1> DEFINE Inv == SetupInv /\ BlobInv
<1>1. Init => Inv
  BY SetupBegins, BlobBegins DEF Init
<1>2. Inv /\ [Next]_vars => Inv'
  BY SetupGoesOn, BlobGoesOn, Together
<1>3. Inv => ScriptsHosted
  BY SetupServes, BlobServes DEF ScriptsHosted
<1> QED
  BY <1>1, <1>2, <1>3, PTL DEF Spec
=============================================================================
