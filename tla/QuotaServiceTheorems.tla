------------------------- MODULE QuotaServiceTheorems -------------------------
(* What the quota service promises, for any numbers of calls and tokens, any *)
(* quotas and queue capacities, and every kind of failure: types first, then *)
(* what was charged, what is remembered of it and what it costs.             *)
EXTENDS QuotaService, SequenceTheorems, TLAPS

(* A call that reloads the key is within the recursion limit, and a call   *)
(* whose goroutine writes directly has been granted.                       *)
Places ==
  /\ \A c \in Call : pc[c] \in {"load", "seed"} => depth[c] <= MaxRecursionDepth
  /\ \A c \in direct : pc[c] = "granted"

Typed == TypeOK /\ Places

(* The state after the creation of the tokens is well typed.               *)
LEMMA InitTyped == Init => Typed
<1> SUFFICES ASSUME Init PROVE Typed
  OBVIOUS
<1> USE QuotaAssumption DEF Init
<1>1. \A op \in Operation : First[op] \in {"script", "peek", "read"}
  BY DEF First
<1>2. CallsTyped /\ Places
  BY <1>1 DEF CallsTyped, Places, PC, Finished
<1>3. StoresTyped
  <2> DEFINE Stored == redis \in [Token -> Nat \cup {NoKey}]
  <2>1. ASSUME "redis" \in Failure PROVE Stored
    <3>1. redis \in [Token -> {Quota} \cup {NoKey}]
      BY <2>1, Zenon
    <3> QED
      BY <3>1
  <2>2. ASSUME "redis" \notin Failure PROVE Stored
    <3>1. redis \in [Token -> {Quota} \cup {}]
      BY <2>2, Zenon
    <3> QED
      BY <3>1
  <2>3. Stored
    BY <2>1, <2>2
  <2>4. remaining \in [Token -> Nat] /\ total \in [Token -> Nat]
    OBVIOUS
  <2> QED
    BY <2>3, <2>4 DEF StoresTyped
<1>4. SyncTyped
  <2>1. syncChan \in Seq([token : Token, remaining : Nat])
    BY EmptySeq
  <2>2. batch \in [Token -> Nat \cup {NoKey}]
    BY Zenon
  <2>3. direct \in SUBSET Call /\ worker \in {"collect", "flush", "final", "stopped"}
    BY Zenon
  <2>4. stopping \in BOOLEAN
    BY Zenon
  <2> QED
    BY <2>1, <2>2, <2>3, <2>4, Zenon DEF SyncTyped
<1>6. LogsTyped
  BY DEF LogsTyped
<1>5. GhostsTyped
  BY DEF GhostsTyped
<1> QED
  BY <1>2, <1>3, <1>4, <1>5, <1>6 DEF Typed, TypeOK

(* Charging a call keeps the ghosts typed.                                 *)
LEMMA SpendTyped ==
  ASSUME Typed, NEW c \in Call, Spend(c)
  PROVE  spent' \in [Token -> Nat] /\ charge' \in [Call -> Nat]
BY DEF Spend, Typed, TypeOK, CallsTyped, GhostsTyped

(* Logging a change keeps the log typed.                                   *)
LEMMA LogTyped == Typed /\ LogQuotaChange => LogsTyped'
BY DEF LogQuotaChange, Typed, TypeOK, LogsTyped

(* Every step keeps the types; no counter, row or queue length goes below  *)
(* zero, and the recursion stays within its limit.                         *)
LEMMA NextTyped == Typed /\ [Next]_vars => Typed'
<1> SUFFICES ASSUME Typed, [Next]_vars PROVE Typed'
  OBVIOUS
<1> USE QuotaAssumption DEF Typed, TypeOK
<1>1. ASSUME NEW c \in Call, DepthExceeded(c) PROVE Typed'
  BY <1>1 DEF DepthExceeded, Goto, CallsTyped, StoresTyped, SyncTyped, LogsTyped,
     GhostsTyped, Places, callVars, storeVars, syncVars, logVars, paidVars, PC, Finished
<1>2. ASSUME NEW c \in Call, ScriptGrants(c) PROVE Typed'
  <2>0. redis[token[c]] \in Nat /\ redis[token[c]] > 0
    BY <1>2 DEF ScriptGrants, CallsTyped, StoresTyped
  <2>1. CallsTyped' /\ Places'
    BY <1>2, <2>0 DEF ScriptGrants, Goto, CallsTyped, Places, syncVars, PC, SyncTyped
  <2>2. StoresTyped'
    BY <1>2 DEF ScriptGrants, Goto, Spend, TooDeep, StoresTyped, CallsTyped, callVars,
     storeVars, syncVars, logVars, paidVars, PC, Finished
  <2>3. SyncTyped'
    BY <1>2 DEF ScriptGrants, Goto, Spend, TooDeep, SyncTyped, CallsTyped, callVars,
     storeVars, syncVars, logVars, paidVars, PC, Finished
  <2>4. LogsTyped'
    BY <1>2 DEF ScriptGrants, Goto, Spend, TooDeep, LogsTyped, callVars, storeVars,
     syncVars, logVars, paidVars, PC, Finished
  <2>5. GhostsTyped'
    BY <1>2, SpendTyped DEF ScriptGrants, Goto, TooDeep, GhostsTyped, CallsTyped, callVars,
     storeVars, syncVars, logVars, paidVars, PC, Finished
  <2> QED
    BY <2>1, <2>2, <2>3, <2>4, <2>5
<1>3. ASSUME NEW c \in Call, ScriptRefuses(c) PROVE Typed'
  BY <1>3 DEF ScriptRefuses, Goto, CallsTyped, StoresTyped, SyncTyped, LogsTyped,
     GhostsTyped, Places, callVars, storeVars, syncVars, logVars, paidVars, PC, Finished
<1>4. ASSUME NEW c \in Call, ScriptMisses(c) PROVE Typed'
  <2>1. CallsTyped' /\ Places'
    BY <1>4 DEF ScriptMisses, Goto, TooDeep, CallsTyped, Places, callVars, storeVars,
     syncVars, logVars, paidVars, PC, Finished
  <2>2. StoresTyped'
    BY <1>4 DEF ScriptMisses, Goto, TooDeep, StoresTyped, CallsTyped, callVars, storeVars,
     syncVars, logVars, paidVars, PC, Finished
  <2>3. SyncTyped'
    BY <1>4 DEF ScriptMisses, Goto, TooDeep, SyncTyped, CallsTyped, callVars, storeVars,
     syncVars, logVars, paidVars, PC, Finished
  <2>4. LogsTyped'
    BY <1>4 DEF ScriptMisses, Goto, TooDeep, LogsTyped, callVars, storeVars, syncVars,
     logVars, paidVars, PC, Finished
  <2>5. GhostsTyped'
    BY <1>4 DEF ScriptMisses, Goto, TooDeep, GhostsTyped, CallsTyped, callVars, storeVars,
     syncVars, logVars, paidVars, PC, Finished
  <2> QED
    BY <2>1, <2>2, <2>3, <2>4, <2>5
<1>5. ASSUME NEW c \in Call, ScriptRepeats(c) PROVE Typed'
  <2>1. CallsTyped' /\ Places'
    BY <1>5 DEF ScriptRepeats, Spend, Fails, TooDeep, CallsTyped, Places, callVars,
     storeVars, syncVars, logVars, paidVars, PC, Finished
  <2>2. StoresTyped'
    BY <1>5 DEF ScriptRepeats, Spend, Fails, TooDeep, StoresTyped, CallsTyped, callVars,
     storeVars, syncVars, logVars, paidVars, PC, Finished
  <2>3. SyncTyped'
    BY <1>5 DEF ScriptRepeats, Spend, Fails, TooDeep, SyncTyped, CallsTyped, callVars,
     storeVars, syncVars, logVars, paidVars, PC, Finished
  <2>4. LogsTyped'
    BY <1>5 DEF ScriptRepeats, Spend, Fails, TooDeep, LogsTyped, callVars, storeVars,
     syncVars, logVars, paidVars, PC, Finished
  <2>5. GhostsTyped'
    BY <1>5, SpendTyped DEF ScriptRepeats, Fails, TooDeep, GhostsTyped, CallsTyped,
     callVars, storeVars, syncVars, logVars, paidVars, PC, Finished
  <2> QED
    BY <2>1, <2>2, <2>3, <2>4, <2>5
<1>6. ASSUME NEW c \in Call, ScriptFails(c) PROVE Typed'
  BY <1>6 DEF ScriptFails, Goto, Fails, CallsTyped, StoresTyped, SyncTyped, LogsTyped,
     GhostsTyped, Places, callVars, storeVars, syncVars, logVars, paidVars, PC, Finished
<1>7. ASSUME NEW c \in Call, LoadFromDB(c) PROVE Typed'
  BY <1>7 DEF LoadFromDB, Goto, CallsTyped, StoresTyped, SyncTyped, LogsTyped, GhostsTyped,
     Places, callVars, storeVars, syncVars, logVars, paidVars, PC, Finished
<1>8. ASSUME NEW c \in Call, LoadRefuses(c) PROVE Typed'
  BY <1>8 DEF LoadRefuses, Goto, CallsTyped, StoresTyped, SyncTyped, LogsTyped, GhostsTyped,
     Places, callVars, storeVars, syncVars, logVars, paidVars, PC, Finished
<1>9. ASSUME NEW c \in Call, Seed(c) PROVE Typed'
  <2>1. CallsTyped' /\ Places'
    BY <1>9 DEF Seed, Goto, Fails, CallsTyped, Places, callVars, storeVars, syncVars,
     logVars, paidVars, PC, Finished
  <2>2. StoresTyped'
    BY <1>9 DEF Seed, Goto, Fails, StoresTyped, CallsTyped, callVars, storeVars, syncVars,
     logVars, paidVars, PC, Finished
  <2>3. SyncTyped'
    BY <1>9 DEF Seed, Goto, Fails, SyncTyped, CallsTyped, callVars, storeVars, syncVars,
     logVars, paidVars, PC, Finished
  <2>4. LogsTyped'
    BY <1>9 DEF Seed, Goto, Fails, LogsTyped, callVars, storeVars, syncVars, logVars,
     paidVars, PC, Finished
  <2>5. GhostsTyped'
    BY <1>9 DEF Seed, Goto, Fails, GhostsTyped, CallsTyped, callVars, storeVars, syncVars,
     logVars, paidVars, PC, Finished
  <2> QED
    BY <2>1, <2>2, <2>3, <2>4, <2>5
<1>10. ASSUME NEW c \in Call, DecrementQuotaAtomic(c) PROVE Typed'
  <2>1. CallsTyped' /\ Places'
    BY <1>10 DEF DecrementQuotaAtomic, Goto, Spend, CallsTyped, Places, callVars, storeVars,
     syncVars, logVars, paidVars, PC, Finished
  <2>2. StoresTyped'
    BY <1>10 DEF DecrementQuotaAtomic, Goto, Spend, StoresTyped, CallsTyped, callVars,
     storeVars, syncVars, logVars, paidVars, PC, Finished
  <2>3. SyncTyped'
    BY <1>10 DEF DecrementQuotaAtomic, Goto, Spend, SyncTyped, CallsTyped, callVars,
     storeVars, syncVars, logVars, paidVars, PC, Finished
  <2>4. LogsTyped'
    BY <1>10 DEF DecrementQuotaAtomic, Goto, Spend, LogsTyped, callVars, storeVars,
     syncVars, logVars, paidVars, PC, Finished
  <2>5. GhostsTyped'
    BY <1>10, SpendTyped DEF DecrementQuotaAtomic, Goto, GhostsTyped, CallsTyped, callVars,
     storeVars, syncVars, logVars, paidVars, PC, Finished
  <2> QED
    BY <2>1, <2>2, <2>3, <2>4, <2>5
<1>11. ASSUME NEW c \in Call, DecrementFails(c) PROVE Typed'
  BY <1>11 DEF DecrementFails, Goto, Fails, CallsTyped, StoresTyped, SyncTyped, LogsTyped,
     GhostsTyped, Places, callVars, storeVars, syncVars, logVars, paidVars, PC, Finished
<1>12. ASSUME NEW c \in Call, Confirm(c) PROVE Typed'
  <2>0. remaining[token[c]] \in Nat
    BY DEF CallsTyped, StoresTyped
  <2>1. CallsTyped' /\ Places'
    BY <1>12, <2>0 DEF Confirm, Goto, CallsTyped, Places, syncVars, PC, Finished
  <2>2. StoresTyped'
    BY <1>12 DEF Confirm, Goto, LogQuotaChange, StoresTyped, CallsTyped, callVars,
     storeVars, syncVars, logVars, paidVars, PC, Finished
  <2>3. SyncTyped'
    BY <1>12 DEF Confirm, Goto, LogQuotaChange, SyncTyped, CallsTyped, callVars, storeVars,
     syncVars, logVars, paidVars, PC, Finished
  <2>4. LogsTyped'
    BY <1>12, LogTyped DEF Confirm, Goto, LogsTyped, callVars, storeVars, syncVars, logVars,
     paidVars, PC, Finished
  <2>5. GhostsTyped'
    BY <1>12 DEF Confirm, Goto, LogQuotaChange, GhostsTyped, CallsTyped, callVars,
     storeVars, syncVars, logVars, paidVars, PC, Finished
  <2> QED
    BY <2>1, <2>2, <2>3, <2>4, <2>5
<1>13. ASSUME NEW c \in Call, DBFails(c) PROVE Typed'
  BY <1>13 DEF DBFails, Goto, Fails, CallsTyped, StoresTyped, SyncTyped, LogsTyped,
     GhostsTyped, Places, callVars, storeVars, syncVars, logVars, paidVars, PC, Finished
<1>14. ASSUME NEW c \in Call, Submit(c) PROVE Typed'
  <2>1. CallsTyped' /\ Places'
    BY <1>14 DEF Submit, Goto, LogQuotaChange, Task, CallsTyped, Places, callVars,
     storeVars, syncVars, logVars, paidVars, PC, Finished
  <2>2. StoresTyped'
    BY <1>14 DEF Submit, Goto, LogQuotaChange, Task, StoresTyped, CallsTyped, callVars,
     storeVars, syncVars, logVars, paidVars, PC, Finished
  <2>3. SyncTyped'
    BY <1>14 DEF Submit, Goto, LogQuotaChange, Task, SyncTyped, CallsTyped, callVars,
     storeVars, syncVars, logVars, paidVars, PC, Finished
  <2>4. LogsTyped'
    BY <1>14, LogTyped DEF Submit, Goto, Task, LogsTyped, callVars, storeVars, syncVars,
     logVars, paidVars, PC, Finished
  <2>5. GhostsTyped'
    BY <1>14 DEF Submit, Goto, LogQuotaChange, Task, GhostsTyped, CallsTyped, callVars,
     storeVars, syncVars, logVars, paidVars, PC, Finished
  <2> QED
    BY <2>1, <2>2, <2>3, <2>4, <2>5
<1>15. ASSUME NEW c \in Call, SubmitTimeout(c) PROVE Typed'
  <2>1. CallsTyped' /\ Places'
    BY <1>15 DEF SubmitTimeout, Goto, LogQuotaChange, CallsTyped, Places, callVars,
     storeVars, syncVars, logVars, paidVars, PC, Finished
  <2>2. StoresTyped'
    BY <1>15 DEF SubmitTimeout, Goto, LogQuotaChange, StoresTyped, CallsTyped, callVars,
     storeVars, syncVars, logVars, paidVars, PC, Finished
  <2>3. SyncTyped'
    BY <1>15 DEF SubmitTimeout, Goto, LogQuotaChange, SyncTyped, CallsTyped, callVars,
     storeVars, syncVars, logVars, paidVars, PC, Finished
  <2>4. LogsTyped'
    BY <1>15, LogTyped DEF SubmitTimeout, Goto, LogsTyped, callVars, storeVars, syncVars,
     logVars, paidVars, PC, Finished
  <2>5. GhostsTyped'
    BY <1>15 DEF SubmitTimeout, Goto, LogQuotaChange, GhostsTyped, CallsTyped, callVars,
     storeVars, syncVars, logVars, paidVars, PC, Finished
  <2> QED
    BY <2>1, <2>2, <2>3, <2>4, <2>5
<1>16. ASSUME NEW c \in Call, PeekHits(c) PROVE Typed'
  BY <1>16 DEF PeekHits, Goto, CallsTyped, StoresTyped, SyncTyped, LogsTyped, GhostsTyped,
     Places, callVars, storeVars, syncVars, logVars, paidVars, PC, Finished
<1>17. ASSUME NEW c \in Call, PeekFails(c) PROVE Typed'
  <2>1. CallsTyped' /\ Places'
    BY <1>17 DEF PeekFails, Goto, Fails, CallsTyped, Places, callVars, storeVars,
     syncVars, logVars, paidVars, PC, Finished
  <2>2. StoresTyped'
    BY <1>17 DEF PeekFails, Goto, Fails, StoresTyped, CallsTyped, storeVars, syncVars,
     logVars, paidVars, PC, Finished
  <2>3. SyncTyped'
    BY <1>17 DEF PeekFails, Goto, Fails, SyncTyped, storeVars, syncVars, logVars,
     paidVars, PC, Finished
  <2>4. LogsTyped'
    BY <1>17 DEF PeekFails, Goto, Fails, LogsTyped, storeVars, syncVars, logVars,
     paidVars, PC, Finished
  <2>5. GhostsTyped'
    BY <1>17 DEF PeekFails, Goto, Fails, GhostsTyped, CallsTyped, storeVars, syncVars,
     logVars, paidVars, PC, Finished
  <2> QED
    BY <2>1, <2>2, <2>3, <2>4, <2>5
<1>18. ASSUME NEW c \in Call, PeekMisses(c) PROVE Typed'
  BY <1>18 DEF PeekMisses, Goto, CallsTyped, StoresTyped, SyncTyped, LogsTyped, GhostsTyped,
     Places, callVars, storeVars, syncVars, logVars, paidVars, PC, Finished
<1>19. ASSUME NEW c \in Call, Fetch(c) PROVE Typed'
  BY <1>19 DEF Fetch, Goto, CallsTyped, StoresTyped, SyncTyped, LogsTyped, GhostsTyped,
     Places, callVars, storeVars, syncVars, logVars, paidVars, PC, Finished
<1>20. ASSUME NEW c \in Call, FetchFails(c) PROVE Typed'
  BY <1>20 DEF FetchFails, Goto, Fails, CallsTyped, StoresTyped, SyncTyped, LogsTyped,
     GhostsTyped, Places, callVars, storeVars, syncVars, logVars, paidVars, PC, Finished
<1>21. ASSUME NEW c \in Call, Refill(c) PROVE Typed'
  <2>1. CallsTyped' /\ Places'
    BY <1>21 DEF Refill, Goto, Fails, CallsTyped, Places, callVars, storeVars, syncVars,
     logVars, paidVars, PC, Finished
  <2>2. StoresTyped'
    BY <1>21 DEF Refill, Goto, Fails, StoresTyped, CallsTyped, storeVars, syncVars,
     logVars, paidVars, PC, Finished
  <2>3. SyncTyped'
    BY <1>21 DEF Refill, Goto, Fails, SyncTyped, storeVars, syncVars, logVars, paidVars,
     PC, Finished
  <2>4. LogsTyped'
    BY <1>21 DEF Refill, Goto, Fails, LogsTyped, storeVars, syncVars, logVars, paidVars,
     PC, Finished
  <2>5. GhostsTyped'
    BY <1>21 DEF Refill, Goto, Fails, GhostsTyped, CallsTyped, storeVars, syncVars,
     logVars, paidVars, PC, Finished
  <2> QED
    BY <2>1, <2>2, <2>3, <2>4, <2>5
<1>22. ASSUME NEW c \in Call, Read(c) PROVE Typed'
  <2>0. \A new \in Revisions(token[c]) : new[1] \in Nat /\ new[2] \in Nat
    <3>1. remaining[token[c]] \in Nat /\ total[token[c]] \in Nat
      BY DEF CallsTyped, StoresTyped
    <3> SUFFICES ASSUME NEW new \in Revisions(token[c])
                 PROVE  new[1] \in Nat /\ new[2] \in Nat
      OBVIOUS
    <3> DEFINE r == remaining[token[c]]
               s == total[token[c]]
    <3>2. \/ \E a \in Amount : new = <<r + a, s + a>>
          \/ \E a \in Amount : new = <<a, s>>
          \/ \E a \in Amount : new = <<a, a>>
          \/ new = <<s, s>>
      BY Zenon DEF Revisions
    <3> HIDE DEF r, s
    <3>3. r \in Nat /\ s \in Nat
      BY <3>1 DEF r, s
    <3>4. ASSUME NEW a \in Amount, new = <<r + a, s + a>> PROVE new[1] \in Nat /\ new[2] \in Nat
      <4>1. r + a \in Nat /\ s + a \in Nat
        BY <3>3
      <4> QED
        BY <3>4, <4>1, Zenon
    <3>5. ASSUME NEW a \in Amount, new = <<a, s>> \/ new = <<a, a>>
          PROVE  new[1] \in Nat /\ new[2] \in Nat
      <4>1. a \in Nat
        OBVIOUS
      <4>2. CASE new = <<a, s>>
        BY <3>3, <4>1, <4>2, Zenon
      <4>3. CASE new = <<a, a>>
        BY <4>1, <4>3, Zenon
      <4> QED
        BY <3>5, <4>2, <4>3
    <3>6. CASE new = <<s, s>>
      BY <3>3, <3>6, Zenon
    <3> QED
      BY <3>2, <3>4, <3>5, <3>6, Zenon
  <2>1. CallsTyped' /\ Places'
    <3>1. PICK new \in Revisions(token[c]) :
            val' = [val EXCEPT ![c] = new[1]] /\ sum' = [sum EXCEPT ![c] = new[2]]
      BY <1>22 DEF Read
    <3>2. new[1] \in Nat /\ new[2] \in Nat
      BY <2>0
    <3>3. val' \in [Call -> Nat] /\ sum' \in [Call -> Nat]
      BY <3>1, <3>2 DEF CallsTyped
    <3> QED
      BY <1>22, <3>3 DEF Read, Goto, CallsTyped, Places, syncVars, PC
  <2>2. StoresTyped'
    BY <1>22 DEF Read, Goto, Revisions, StoresTyped, CallsTyped, callVars, storeVars,
     syncVars, logVars, paidVars, PC, Finished
  <2>3. SyncTyped'
    BY <1>22 DEF Read, Goto, Revisions, SyncTyped, CallsTyped, callVars, storeVars,
     syncVars, logVars, paidVars, PC, Finished
  <2>4. LogsTyped'
    BY <1>22 DEF Read, Goto, Revisions, LogsTyped, callVars, storeVars, syncVars, logVars,
     paidVars, PC, Finished
  <2>5. GhostsTyped'
    BY <1>22 DEF Read, Goto, Revisions, GhostsTyped, CallsTyped, callVars, storeVars,
     syncVars, logVars, paidVars, PC, Finished
  <2> QED
    BY <2>1, <2>2, <2>3, <2>4, <2>5
<1>23. ASSUME NEW c \in Call, Write(c) PROVE Typed'
  BY <1>23 DEF Write, Goto, Most, CallsTyped, StoresTyped, SyncTyped, LogsTyped,
     GhostsTyped, Places, callVars, storeVars, syncVars, logVars, paidVars, PC, Finished
<1>24. ASSUME NEW c \in Call, Reread(c) PROVE Typed'
  BY <1>24 DEF Reread, Goto, CallsTyped, StoresTyped, SyncTyped, LogsTyped, GhostsTyped,
     Places, callVars, storeVars, syncVars, logVars, paidVars, PC, Finished
<1>25. ASSUME NEW c \in Call, UpdateFails(c) PROVE Typed'
  BY <1>25 DEF UpdateFails, Goto, Fails, CallsTyped, StoresTyped, SyncTyped, LogsTyped,
     GhostsTyped, Places, callVars, storeVars, syncVars, logVars, paidVars, PC, Finished
<1>26. ASSUME NEW c \in Call, Publish(c) PROVE Typed'
  <2>1. CallsTyped' /\ Places'
    BY <1>26 DEF Publish, Goto, Fails, LogQuotaChange, CallsTyped, Places, callVars,
     storeVars, syncVars, logVars, paidVars, PC, Finished
  <2>2. StoresTyped'
    BY <1>26 DEF Publish, Goto, Fails, LogQuotaChange, StoresTyped, CallsTyped, callVars,
     storeVars, syncVars, logVars, paidVars, PC, Finished
  <2>3. SyncTyped'
    BY <1>26 DEF Publish, Goto, Fails, LogQuotaChange, SyncTyped, CallsTyped, callVars,
     storeVars, syncVars, logVars, paidVars, PC, Finished
  <2>4. LogsTyped'
    BY <1>26, LogTyped DEF Publish, Goto, Fails, LogsTyped, callVars, storeVars, syncVars,
     logVars, paidVars, PC, Finished
  <2>5. GhostsTyped'
    BY <1>26 DEF Publish, Goto, Fails, LogQuotaChange, GhostsTyped, CallsTyped, callVars,
     storeVars, syncVars, logVars, paidVars, PC, Finished
  <2> QED
    BY <2>1, <2>2, <2>3, <2>4, <2>5
<1>27. ASSUME NEW c \in Call, SyncToDBDirectly(c) PROVE Typed'
  BY <1>27 DEF SyncToDBDirectly, Fails, CallsTyped, StoresTyped, SyncTyped, LogsTyped,
     GhostsTyped, Places, callVars, storeVars, syncVars, logVars, paidVars, PC, Finished
<1>28. CASE TakeTask
  <2>1. CallsTyped' /\ Places'
    BY <1>28 DEF TakeTask, Batched, CallsTyped, Places, callVars, storeVars, syncVars,
     logVars, paidVars, PC, Finished
  <2>2. StoresTyped'
    BY <1>28 DEF TakeTask, Batched, StoresTyped, CallsTyped, callVars, storeVars, syncVars,
     logVars, paidVars, PC, Finished
  <2>3. SyncTyped'
    <3>1. /\ Head(syncChan) \in [token : Token, remaining : Nat]
          /\ Tail(syncChan) \in Seq([token : Token, remaining : Nat])
      BY <1>28, HeadTailProperties DEF TakeTask, SyncTyped
    <3>2. /\ Head(syncChan).token \in Token /\ Head(syncChan).remaining \in Nat
      BY <3>1
    <3> QED
      BY <1>28, <3>1, <3>2 DEF TakeTask, SyncTyped
  <2>4. LogsTyped'
    BY <1>28 DEF TakeTask, Batched, LogsTyped, callVars, storeVars, syncVars, logVars,
     paidVars, PC, Finished
  <2>5. GhostsTyped'
    BY <1>28 DEF TakeTask, Batched, GhostsTyped, CallsTyped, callVars, storeVars, syncVars,
     logVars, paidVars, PC, Finished
  <2> QED
    BY <2>1, <2>2, <2>3, <2>4, <2>5
<1>29. CASE SyncTick
  BY <1>29 DEF SyncTick, CallsTyped, StoresTyped, SyncTyped, LogsTyped, GhostsTyped, Places,
     callVars, storeVars, syncVars, logVars, paidVars, PC, Finished
<1>30. CASE SyncStop
  BY <1>30 DEF SyncStop, CallsTyped, StoresTyped, SyncTyped, LogsTyped, GhostsTyped, Places,
     callVars, storeVars, syncVars, logVars, paidVars, PC, Finished
<1>31. CASE BatchSyncToDB
  BY <1>31 DEF BatchSyncToDB, Batched, CallsTyped, StoresTyped, SyncTyped, LogsTyped,
     GhostsTyped, Places, callVars, storeVars, syncVars, logVars, paidVars, PC, Finished
<1>32. CASE TakeLog
  <2>1. CallsTyped' /\ Places'
    BY <1>32 DEF TakeLog, BatchInsertLogs, CallsTyped, Places, callVars, storeVars,
     syncVars, logVars, paidVars, PC, Finished
  <2>2. StoresTyped'
    BY <1>32 DEF TakeLog, BatchInsertLogs, StoresTyped, CallsTyped, callVars, storeVars,
     syncVars, logVars, paidVars, PC, Finished
  <2>3. SyncTyped'
    BY <1>32 DEF TakeLog, BatchInsertLogs, SyncTyped, CallsTyped, callVars, storeVars,
     syncVars, logVars, paidVars, PC, Finished
  <2>4. LogsTyped'
    BY <1>32 DEF TakeLog, BatchInsertLogs, LogsTyped, callVars, storeVars, syncVars,
     logVars, paidVars, PC, Finished
  <2>5. GhostsTyped'
    BY <1>32 DEF TakeLog, BatchInsertLogs, GhostsTyped, CallsTyped, callVars, storeVars,
     syncVars, logVars, paidVars, PC, Finished
  <2> QED
    BY <2>1, <2>2, <2>3, <2>4, <2>5
<1>33. CASE LogTick
  <2>1. CallsTyped' /\ Places'
    BY <1>33 DEF LogTick, BatchInsertLogs, CallsTyped, Places, callVars, storeVars,
     syncVars, logVars, paidVars, PC, Finished
  <2>2. StoresTyped'
    BY <1>33 DEF LogTick, BatchInsertLogs, StoresTyped, CallsTyped, callVars, storeVars,
     syncVars, logVars, paidVars, PC, Finished
  <2>3. SyncTyped'
    BY <1>33 DEF LogTick, BatchInsertLogs, SyncTyped, CallsTyped, callVars, storeVars,
     syncVars, logVars, paidVars, PC, Finished
  <2>4. LogsTyped'
    BY <1>33 DEF LogTick, BatchInsertLogs, LogsTyped, callVars, storeVars, syncVars,
     logVars, paidVars, PC, Finished
  <2>5. GhostsTyped'
    BY <1>33 DEF LogTick, BatchInsertLogs, GhostsTyped, CallsTyped, callVars, storeVars,
     syncVars, logVars, paidVars, PC, Finished
  <2> QED
    BY <2>1, <2>2, <2>3, <2>4, <2>5
<1>34. CASE LogStop
  <2>1. CallsTyped' /\ Places'
    BY <1>34 DEF LogStop, BatchInsertLogs, CallsTyped, Places, callVars, storeVars,
     syncVars, logVars, paidVars, PC, Finished
  <2>2. StoresTyped'
    BY <1>34 DEF LogStop, BatchInsertLogs, StoresTyped, CallsTyped, callVars, storeVars,
     syncVars, logVars, paidVars, PC, Finished
  <2>3. SyncTyped'
    BY <1>34 DEF LogStop, BatchInsertLogs, SyncTyped, CallsTyped, callVars, storeVars,
     syncVars, logVars, paidVars, PC, Finished
  <2>4. LogsTyped'
    BY <1>34 DEF LogStop, BatchInsertLogs, LogsTyped, callVars, storeVars, syncVars,
     logVars, paidVars, PC, Finished
  <2>5. GhostsTyped'
    BY <1>34 DEF LogStop, BatchInsertLogs, GhostsTyped, CallsTyped, callVars, storeVars,
     syncVars, logVars, paidVars, PC, Finished
  <2> QED
    BY <2>1, <2>2, <2>3, <2>4, <2>5
<1>35. CASE Stop
  BY <1>35 DEF Stop, CallsTyped, StoresTyped, SyncTyped, LogsTyped, GhostsTyped, Places,
     callVars, storeVars, syncVars, logVars, paidVars, PC, Finished
<1>36. ASSUME NEW t \in Token, Expire(t) PROVE Typed'
  BY <1>36 DEF Expire, CallsTyped, StoresTyped, SyncTyped, LogsTyped, GhostsTyped, Places,
     callVars, storeVars, syncVars, logVars, paidVars, PC, Finished
<1>37. CASE UNCHANGED vars
  BY <1>37 DEF vars, CallsTyped, StoresTyped, SyncTyped, LogsTyped, GhostsTyped, Places,
     callVars, storeVars, syncVars, logVars, paidVars, PC, Finished
<1> QED
  BY <1>1, <1>2, <1>3, <1>4, <1>5, <1>6, <1>7, <1>8, <1>9, <1>10, <1>11, <1>12, <1>13,
     <1>14, <1>15, <1>16, <1>17, <1>18, <1>19, <1>20, <1>21, <1>22, <1>23, <1>24, <1>25,
     <1>26, <1>27, <1>28, <1>29, <1>30, <1>31, <1>32, <1>33, <1>34, <1>35, <1>36, <1>37
  DEF Next, ConsumeQuota, GetRemainingQuota, UpdateQuota, SyncWorker, LogWorker, Ended

-----------------------------------------------------------------------------
(*****************************************************************************)
(* What a call has paid at every place.                                      *)
(*****************************************************************************)

Charged == {"submit", "confirm", "granted"}

(* PaidOnce and what it takes at every other place of a call.              *)
Paid ==
  \A c \in Call \ blind :
    /\ pc[c] \in Charged => charge[c] = 1
    /\ pc[c] = "failed" => charge[c] <= 1
    /\ pc[c] \notin Charged \cup {"failed"} => charge[c] = 0

(* A step of a call that moves it without charging it.                     *)
LEMMA MovePaid ==
  ASSUME Typed, Paid, NEW c \in Call, NEW to \in PC,
         pc' = [pc EXCEPT ![c] = to], UNCHANGED <<charge, blind>>,
         \/ pc[c] \in Charged /\ to \in Charged \cup {"failed"}
         \/ pc[c] \notin Charged \cup {"failed"} /\ to \notin Charged
  PROVE  Paid'
<1> SUFFICES ASSUME NEW d \in Call \ blind
             PROVE  /\ pc'[d] \in Charged => charge[d] = 1
                    /\ pc'[d] = "failed" => charge[d] <= 1
                    /\ pc'[d] \notin Charged \cup {"failed"} => charge[d] = 0
  BY DEF Paid
<1>1. CASE d = c
  BY <1>1 DEF Paid, Charged, Typed, TypeOK, CallsTyped
<1>2. CASE d # c
  BY <1>2 DEF Paid, Charged, Typed, TypeOK, CallsTyped
<1> QED
  BY <1>1, <1>2

(* A step that charges a call for the first time and takes it further.     *)
LEMMA ChargePaid ==
  ASSUME Typed, Paid, NEW c \in Call, NEW to \in Charged,
         pc[c] \notin Charged \cup {"failed"},
         pc' = [pc EXCEPT ![c] = to], Spend(c), UNCHANGED blind
  PROVE  Paid'
BY DEF Paid, Charged, Spend, Typed, TypeOK, CallsTyped, GhostsTyped

LEMMA NextPaid == Typed /\ Paid /\ [Next]_vars => Paid'
<1> SUFFICES ASSUME Typed, Paid, [Next]_vars PROVE Paid'
  OBVIOUS
<1>1. ASSUME NEW c \in Call, DecrementQuotaAtomic(c) \/ ScriptGrants(c) PROVE Paid'
  BY <1>1, ChargePaid DEF DecrementQuotaAtomic, ScriptGrants, Goto, Charged
<1>2. ASSUME NEW c \in Call, ScriptRepeats(c) PROVE Paid'
  BY <1>2 DEF ScriptRepeats, Spend, Paid, callVars, Typed, TypeOK, GhostsTyped
<1>3. ASSUME NEW c \in Call,
             \/ DepthExceeded(c) \/ ScriptRefuses(c) \/ ScriptMisses(c) \/ ScriptFails(c)
             \/ LoadFromDB(c) \/ LoadRefuses(c) \/ Seed(c) \/ DecrementFails(c)
      PROVE  Paid'
  BY <1>3, MovePaid DEF DepthExceeded, ScriptRefuses, ScriptMisses, ScriptFails, LoadFromDB,
     LoadRefuses, Seed, DecrementFails, Goto, paidVars, PC, Finished, Charged
<1>4. ASSUME NEW c \in Call, Confirm(c) \/ DBFails(c) \/ Submit(c) \/ SubmitTimeout(c)
      PROVE  Paid'
  BY <1>4, MovePaid DEF Confirm, DBFails, Submit, SubmitTimeout, Goto, paidVars, PC,
     Finished, Charged
<1>5. ASSUME NEW c \in Call, GetRemainingQuota(c) PROVE Paid'
  BY <1>5, MovePaid DEF GetRemainingQuota, PeekHits, PeekFails, PeekMisses, Fetch,
     FetchFails, Refill, Goto, paidVars, PC, Finished, Charged
<1>6. ASSUME NEW c \in Call, UpdateQuota(c) PROVE Paid'
  BY <1>6, MovePaid DEF UpdateQuota, Read, Write, Reread, UpdateFails, Publish, Goto,
     paidVars, PC, Finished, Charged
<1>7. ASSUME UNCHANGED <<pc, charge, blind>> PROVE Paid'
  BY <1>7 DEF Paid
<1>8. ASSUME NEW c \in Call, SyncToDBDirectly(c) PROVE Paid'
  BY <1>7, <1>8 DEF SyncToDBDirectly, callVars, paidVars
<1>9. SyncWorker => Paid'
  BY <1>7 DEF SyncWorker, TakeTask, SyncTick, SyncStop, BatchSyncToDB, callVars, paidVars
<1>10. LogWorker => Paid'
  BY <1>7 DEF LogWorker, TakeLog, LogTick, LogStop, callVars, paidVars
<1>11. Stop \/ (\E t \in Token : Expire(t)) \/ UNCHANGED vars => Paid'
  BY <1>7 DEF Stop, Expire, vars, callVars, paidVars
<1> QED
  BY <1>1, <1>2, <1>3, <1>4, <1>5, <1>6, <1>8, <1>9, <1>10, <1>11
  DEF Next, ConsumeQuota, Ended

LEMMA InitPaid == Init => Paid
<1> SUFFICES ASSUME Init PROVE Paid
  OBVIOUS
<1>1. \A op \in Operation : First[op] \in {"script", "peek", "read"}
  BY QuotaAssumption DEF First
<1>2. \A c \in Call : pc[c] \in {"script", "peek", "read"} /\ charge[c] = 0
  BY <1>1 DEF Init
<1> QED
  BY <1>2 DEF Paid, Charged

LEMMA TypedAlways == Spec => []Typed
BY InitTyped, NextTyped, PTL DEF Spec

(* Types: no counter, row or queue length falls below zero.                *)
THEOREM QuotasTyped == Spec => []TypeOK
<1>1. Typed => TypeOK
  BY DEF Typed
<1> QED
  BY <1>1, TypedAlways, PTL

(* A granted call has been charged once and a refused one not at all.      *)
THEOREM ChargedOnce == Spec => []PaidOnce
<1>1. Typed /\ Paid => PaidOnce
  BY DEF Paid, PaidOnce, Charged, Typed, TypeOK, CallsTyped, GhostsTyped, PC, Finished
<1>2. Spec => []Paid
  BY InitPaid, NextPaid, TypedAlways, PTL DEF Spec
<1> QED
  BY <1>1, <1>2, TypedAlways, PTL
-----------------------------------------------------------------------------
(* What is queued, as a set.                                               *)
Entries == {syncChan[i] : i \in 1..Len(syncChan)}

LEMMA EntriesTyped == Typed => Entries \subseteq [token : Token, remaining : Nat]
<1> SUFFICES ASSUME Typed, NEW i \in 1..Len(syncChan)
             PROVE  syncChan[i] \in [token : Token, remaining : Nat]
  BY Zenon DEF Entries
<1> QED
  BY ElementOfSeq, Zenon DEF Typed, TypeOK, SyncTyped

LEMMA SubmitEntries ==
  ASSUME Typed, NEW c \in Call, syncChan' = Append(syncChan, Task(c))
  PROVE  Entries' \subseteq Entries \cup {Task(c)}
<1>1. Task(c) \in [token : Token, remaining : Nat]
  BY DEF Task, Typed, TypeOK, CallsTyped
<1>2. syncChan \in Seq([token : Token, remaining : Nat])
  BY DEF Typed, TypeOK, SyncTyped
<1>3. /\ Len(syncChan) \in Nat /\ Len(syncChan') = Len(syncChan) + 1
      /\ \A i \in 1..Len(syncChan) : syncChan'[i] = syncChan[i]
      /\ syncChan'[Len(syncChan) + 1] = Task(c)
  BY <1>1, <1>2, AppendProperties
<1> QED
  BY <1>3 DEF Entries

LEMMA TakeEntries ==
  ASSUME Typed, syncChan # <<>>, syncChan' = Tail(syncChan)
  PROVE  Entries' \subseteq Entries /\ Head(syncChan) \in Entries
<1>1. syncChan \in Seq([token : Token, remaining : Nat])
  BY DEF Typed, TypeOK, SyncTyped
<1>2. /\ Len(syncChan) \in Nat \ {0} /\ Head(syncChan) = syncChan[1]
      /\ Len(Tail(syncChan)) = Len(syncChan) - 1
      /\ \A i \in 1..Len(Tail(syncChan)) : Tail(syncChan)[i] = syncChan[i + 1]
  BY <1>1, HeadTailProperties
<1> QED
  BY <1>2 DEF Entries

Carrying == {"seed", "submit", "refill", "publish"}

(* NeverInflated, one kind of copy at a time.                              *)
StoredBelow ==
  \A t \in Token : /\ remaining[t] <= limit[t]
                   /\ redis[t] # NoKey => redis[t] <= limit[t]
                   /\ batch[t] # NoKey => batch[t] <= limit[t]

QueuedBelow == \A e \in Entries : e.remaining <= limit[e.token]

CarriedBelow ==
  \A c \in Call : pc[c] \in Carrying \/ c \in direct => val[c] <= limit[token[c]]

Below == StoredBelow /\ QueuedBelow /\ CarriedBelow

LEMMA InitBelow == Init => Below
BY QuotaAssumption DEF Init, First, Below, StoredBelow, QueuedBelow, CarriedBelow, Entries,
   Carrying

LEMMA BelowCopies == Typed /\ Below => NeverInflated
<1> SUFFICES ASSUME Typed, Below, NEW t \in Token, NEW n \in Copies(t)
             PROVE  n <= limit[t]
  BY DEF NeverInflated
<1>1. CASE n \in ({redis[t], batch[t]} \ {NoKey}) \cup {remaining[t]}
  BY <1>1 DEF Below, StoredBelow
<1>2. CASE n \in Queued(t)
  BY <1>2 DEF Queued, Below, QueuedBelow, Entries, Typed, TypeOK, SyncTyped
<1>3. CASE n \in Carried(t)
  BY <1>3 DEF Carried, Carrying, Below, CarriedBelow, Typed, TypeOK, SyncTyped
<1> QED
  BY <1>1, <1>2, <1>3 DEF Copies

(* A step that only moves a call, between places that carry nothing new.   *)
LEMMA StillBelow ==
  ASSUME Below, StoredBelow', CarriedBelow', UNCHANGED <<syncChan, limit>>
  PROVE  Below'
BY DEF Below, QueuedBelow, Entries

LEMMA NextBelow == Typed /\ Below /\ [Next]_vars => Below'
<1> SUFFICES ASSUME Typed, Below, [Next]_vars PROVE Below'
  OBVIOUS
<1> USE DEF Typed, TypeOK, CallsTyped, StoresTyped, SyncTyped, GhostsTyped
<1>1. ASSUME NEW c \in Call,
             \/ DepthExceeded(c) \/ ScriptRefuses(c) \/ ScriptMisses(c) \/ ScriptFails(c)
             \/ LoadRefuses(c) \/ DecrementFails(c) \/ DBFails(c)
      PROVE  Below'
  <2>1. StoredBelow'
    BY <1>1 DEF Below, StoredBelow, DepthExceeded, ScriptRefuses, ScriptMisses,
       ScriptFails, LoadRefuses, DecrementFails, DBFails, storeVars, syncVars
  <2>2. CarriedBelow'
    BY <1>1 DEF Below, CarriedBelow, Carrying, DepthExceeded, ScriptRefuses, ScriptMisses,
       ScriptFails, LoadRefuses, DecrementFails, DBFails, Goto, syncVars
  <2>3. UNCHANGED <<syncChan, limit>>
    BY <1>1 DEF DepthExceeded, ScriptRefuses, ScriptMisses,
       ScriptFails, LoadRefuses, DecrementFails, DBFails, syncVars
  <2> QED
    BY <2>1, <2>2, <2>3, StillBelow
<1>2. ASSUME NEW c \in Call, ScriptGrants(c) \/ ScriptRepeats(c) PROVE Below'
  <2>1. /\ redis[token[c]] \in Nat /\ redis[token[c]] <= limit[token[c]]
        /\ limit[token[c]] \in Nat
    BY <1>2 DEF Below, StoredBelow, ScriptGrants, ScriptRepeats
  <2>2. redis' = [redis EXCEPT ![token[c]] = redis[token[c]] - 1]
    BY <1>2 DEF ScriptGrants, ScriptRepeats
  <2>3. UNCHANGED <<token, remaining, syncChan, direct, batch, limit>>
    BY <1>2 DEF ScriptGrants, ScriptRepeats, callVars, syncVars
  <2>4. StoredBelow'
    BY <2>1, <2>2, <2>3 DEF Below, StoredBelow
  <2>5. CarriedBelow'
    <3>1. CASE ScriptGrants(c)
      <4>1. val'[c] <= limit[token[c]]
        BY <2>1, <3>1 DEF ScriptGrants
      <4> QED
        BY <2>3, <3>1, <4>1 DEF Below, CarriedBelow, Carrying, ScriptGrants, Goto
    <3>2. CASE ScriptRepeats(c)
      BY <2>3, <3>2 DEF Below, CarriedBelow, ScriptRepeats, callVars
    <3> QED
      BY <1>2, <3>1, <3>2
  <2> QED
    BY <2>3, <2>4, <2>5, StillBelow
<1>3. ASSUME NEW c \in Call, LoadFromDB(c) PROVE Below'
  <2>1. UNCHANGED <<token, storeVars, syncChan, direct, batch, limit>>
    BY <1>3 DEF LoadFromDB, syncVars
  <2>2. c \notin direct
    BY <1>3 DEF LoadFromDB, Goto, Places
  <2>3. val' = [val EXCEPT ![c] = remaining[token[c]]] /\ pc' = [pc EXCEPT ![c] = "seed"]
    BY <1>3 DEF LoadFromDB, Goto
  <2>4. CarriedBelow'
    BY <2>1, <2>3 DEF Below, StoredBelow, CarriedBelow
  <2>5. StoredBelow'
    BY <2>1 DEF Below, StoredBelow, storeVars
  <2> QED
    BY <2>1, <2>4, <2>5, StillBelow
<1>4. ASSUME NEW c \in Call, Seed(c) PROVE Below'
  <2>1. StoredBelow'
    BY <1>4 DEF Below, StoredBelow, CarriedBelow, Carrying, Seed, Goto, syncVars
  <2>2. CarriedBelow'
    BY <1>4 DEF Below, CarriedBelow, Carrying, Seed, Goto, syncVars
  <2>3. UNCHANGED <<syncChan, limit>>
    BY <1>4 DEF Seed, syncVars
  <2> QED
    BY <2>1, <2>2, <2>3, StillBelow
<1>5. ASSUME NEW c \in Call, DecrementQuotaAtomic(c) PROVE Below'
  <2>1. /\ remaining[token[c]] \in Nat /\ limit[token[c]] \in Nat
        /\ remaining[token[c]] <= limit[token[c]]
    BY DEF Below, StoredBelow
  <2>2. UNCHANGED <<redis, batch, syncChan, limit>>
    BY <1>5 DEF DecrementQuotaAtomic, syncVars
  <2>3. StoredBelow'
    BY <1>5, <2>1, <2>2 DEF Below, StoredBelow, DecrementQuotaAtomic
  <2>4. CarriedBelow'
    BY <1>5 DEF Below, CarriedBelow, Carrying, DecrementQuotaAtomic, Goto, syncVars
  <2> QED
    BY <2>2, <2>3, <2>4, StillBelow
<1>6. ASSUME NEW c \in Call, Confirm(c) PROVE Below'
  <2>1. StoredBelow'
    BY <1>6 DEF Below, StoredBelow, Confirm, storeVars, syncVars
  <2>2. CarriedBelow'
    BY <1>6 DEF Below, CarriedBelow, Carrying, Confirm, Goto, syncVars, Places
  <2>3. UNCHANGED <<syncChan, limit>>
    BY <1>6 DEF Confirm, syncVars
  <2> QED
    BY <2>1, <2>2, <2>3, StillBelow
<1>7. ASSUME NEW c \in Call, Submit(c) \/ SubmitTimeout(c) PROVE Below'
  <2>1. StoredBelow'
    BY <1>7 DEF Below, StoredBelow, Submit, SubmitTimeout, storeVars
  <2>2. CarriedBelow'
    BY <1>7 DEF Below, CarriedBelow, Carrying, Submit, SubmitTimeout, Goto
  <2>3. QueuedBelow'
    <3>1. CASE Submit(c)
      <4>1. val[c] <= limit[token[c]]
        BY <3>1 DEF Submit, Goto, Below, CarriedBelow, Carrying
      <4>2. \A e \in Entries' : e \in Entries \/ e = Task(c)
        BY <3>1, SubmitEntries DEF Submit
      <4>3. UNCHANGED limit
        BY <3>1 DEF Submit
      <4> QED
        BY <4>1, <4>2, <4>3 DEF Below, QueuedBelow, Task
    <3>2. CASE SubmitTimeout(c)
      BY <3>2 DEF SubmitTimeout, Below, QueuedBelow, Entries
    <3> QED
      BY <1>7, <3>1, <3>2
  <2> QED
    BY <2>1, <2>2, <2>3 DEF Below
<1>8. ASSUME NEW c \in Call, GetRemainingQuota(c) PROVE Below'
  <2> USE DEF GetRemainingQuota, PeekHits, PeekFails, PeekMisses, Fetch, FetchFails, Refill,
          Goto
  <2>1. StoredBelow'
    BY <1>8 DEF Below, StoredBelow, CarriedBelow, Carrying, storeVars, syncVars
  <2>2. CarriedBelow'
    BY <1>8, SMTT(30) DEF Below, StoredBelow, CarriedBelow, Carrying, syncVars, Places
  <2>3. UNCHANGED <<syncChan, limit>>
    BY <1>8 DEF syncVars
  <2> QED
    BY <2>1, <2>2, <2>3, StillBelow
<1>9. ASSUME NEW c \in Call, UpdateQuota(c) PROVE Below'
  <2>1. ASSUME Read(c) PROVE Below'
    <3>1. StoredBelow'
      BY <2>1 DEF Below, StoredBelow, Read, storeVars, syncVars
    <3>2. CarriedBelow'
      BY <2>1 DEF Below, CarriedBelow, Carrying, Read, Goto, syncVars, Places
    <3>3. UNCHANGED <<syncChan, limit>>
      BY <2>1 DEF Read, syncVars
    <3> QED
      BY <3>1, <3>2, <3>3, StillBelow
  <2>2. ASSUME Write(c) PROVE Below'
    <3>1. /\ limit' \in [Token -> Nat] /\ \A t \in Token : limit[t] <= limit'[t]
          /\ val[c] <= limit'[token[c]]
      BY <2>2 DEF Write, Most
    <3>2. \A n \in Nat, t \in Token : n <= limit[t] => n <= limit'[t]
      BY <3>1
    <3>3. StoredBelow'
      BY <2>2, <3>1, <3>2 DEF Below, StoredBelow, Write, syncVars
    <3>4. CarriedBelow'
      <4>1. UNCHANGED <<token, val, direct>>
        BY <2>2 DEF Write, syncVars
      <4>2. \A d \in Call : pc'[d] \in Carrying => pc[d] \in Carrying
        BY <2>2 DEF Write, Goto, Carrying
      <4> QED
        BY <3>2, <4>1, <4>2 DEF Below, CarriedBelow
    <3>5. QueuedBelow'
      <4>1. Entries' = Entries
        BY <2>2 DEF Write, syncVars, Entries
      <4>2. \A e \in Entries : e.token \in Token /\ e.remaining \in Nat
        BY EntriesTyped
      <4> QED
        BY <3>2, <4>1, <4>2 DEF Below, QueuedBelow
    <3> QED
      BY <3>3, <3>4, <3>5 DEF Below
  <2>3. ASSUME Reread(c) \/ UpdateFails(c) \/ Publish(c) PROVE Below'
    <3>1. StoredBelow'
      BY <2>3 DEF Below, StoredBelow, CarriedBelow, Carrying, Reread, UpdateFails, Publish,
         Goto, storeVars, syncVars
    <3>2. CarriedBelow'
      <4>1. CASE Reread(c)
        BY <4>1 DEF Below, StoredBelow, CarriedBelow, Carrying, Reread, Goto, storeVars,
           syncVars, Places
      <4>2. CASE UpdateFails(c) \/ Publish(c)
        BY <4>2 DEF Below, CarriedBelow, Carrying, UpdateFails, Publish, Goto, syncVars
      <4> QED
        BY <2>3, <4>1, <4>2
    <3>3. UNCHANGED <<syncChan, limit>>
      BY <2>3 DEF Reread, UpdateFails, Publish, syncVars
    <3> QED
      BY <3>1, <3>2, <3>3, StillBelow
  <2> QED
    BY <1>9, <2>1, <2>2, <2>3 DEF UpdateQuota
<1>10. ASSUME NEW c \in Call, SyncToDBDirectly(c) PROVE Below'
  <2>1. StoredBelow'
    BY <1>10 DEF Below, StoredBelow, CarriedBelow, SyncToDBDirectly
  <2>2. CarriedBelow'
    BY <1>10 DEF Below, CarriedBelow, SyncToDBDirectly, callVars
  <2> QED
    BY <1>10, <2>1, <2>2, StillBelow DEF SyncToDBDirectly
<1>11. CASE TakeTask
  <2>1. Entries' \subseteq Entries /\ Head(syncChan) \in Entries
    BY <1>11, TakeEntries DEF TakeTask
  <2>2. Head(syncChan).remaining <= limit[Head(syncChan).token]
    BY <2>1 DEF Below, QueuedBelow
  <2>3. StoredBelow'
    BY <1>11, <2>2 DEF Below, StoredBelow, TakeTask, storeVars
  <2>4. CarriedBelow'
    BY <1>11 DEF Below, CarriedBelow, TakeTask, callVars
  <2>5. QueuedBelow'
    BY <1>11, <2>1 DEF Below, QueuedBelow, TakeTask
  <2> QED
    BY <2>3, <2>4, <2>5 DEF Below
<1>12. CASE SyncTick \/ SyncStop \/ BatchSyncToDB
  <2>1. StoredBelow'
    BY <1>12 DEF Below, StoredBelow, SyncTick, SyncStop, BatchSyncToDB, Batched, storeVars
  <2>2. CarriedBelow'
    BY <1>12 DEF Below, CarriedBelow, SyncTick, SyncStop, BatchSyncToDB, callVars
  <2> QED
    BY <1>12, <2>1, <2>2, StillBelow DEF SyncTick, SyncStop, BatchSyncToDB
<1>13. ASSUME UNCHANGED <<callVars, storeVars, syncVars, limit>> PROVE Below'
  BY <1>13 DEF Below, StoredBelow, CarriedBelow, QueuedBelow, Entries, callVars, storeVars,
     syncVars
<1>14. LogWorker \/ Stop \/ UNCHANGED vars => Below'
  BY <1>13 DEF LogWorker, TakeLog, LogTick, LogStop, Stop, vars
<1>15. ASSUME NEW t \in Token, Expire(t) PROVE Below'
  <2>1. StoredBelow'
    BY <1>15 DEF Below, StoredBelow, Expire, syncVars
  <2>2. CarriedBelow'
    BY <1>15 DEF Below, CarriedBelow, Expire, callVars, syncVars
  <2> QED
    BY <1>15, <2>1, <2>2, StillBelow DEF Expire, syncVars
<1> QED
  BY <1>1, <1>2, <1>3, <1>4, <1>5, <1>6, <1>7, <1>8, <1>9, <1>10, <1>11, <1>12, <1>14,
     <1>15
  DEF Next, ConsumeQuota, SyncWorker, Ended

(* No copy of a quota ever exceeds what was granted.                       *)
THEOREM NothingInflated == Spec => []NeverInflated
<1>1. Spec => []Below
  BY InitBelow, NextBelow, TypedAlways, PTL DEF Spec
<1> QED
  BY <1>1, BelowCopies, TypedAlways, PTL
-----------------------------------------------------------------------------
Reloading ==
  {"load", "seed", "fetch", "refill", "fallback", "confirm", "write", "reread", "publish"}

(* Only for a token that something has happened to do calls read or write  *)
(* the row, or set the key.                                                *)
OnlyLostReload == \A c \in Call : pc[c] \in Reloading => token[c] \in lost

Within(t, n) == redis[t] <= n /\ n <= Quota

(* Conserved and RowLags, one kind of copy at a time.                      *)
StoredKept ==
  \A t \in Token \ lost : /\ redis[t] # NoKey /\ redis[t] + spent[t] = Quota
                          /\ Within(t, remaining[t])
                          /\ batch[t] # NoKey => Within(t, batch[t])

QueuedKept == \A e \in Entries : e.token \notin lost => Within(e.token, e.remaining)

CarriedKept ==
  \A c \in Call : /\ pc[c] = "submit" \/ c \in direct
                  /\ token[c] \notin lost
                  => Within(token[c], val[c])

Kept == OnlyLostReload /\ StoredKept /\ QueuedKept /\ CarriedKept

LEMMA InitKept == Init => Kept
<1> SUFFICES ASSUME Init PROVE Kept
  OBVIOUS
<1>1. \A op \in Operation : First[op] \in {"script", "peek", "read"}
  BY QuotaAssumption DEF First
<1>2. \A c \in Call : pc[c] \in {"script", "peek", "read"}
  BY <1>1 DEF Init
<1>3. OnlyLostReload /\ QueuedKept /\ CarriedKept
  BY <1>2 DEF Init, OnlyLostReload, QueuedKept, CarriedKept, Reloading, Entries
<1>4. ASSUME NEW t \in Token \ lost
      PROVE  redis[t] = Quota /\ remaining[t] = Quota /\ spent[t] = 0 /\ batch[t] = NoKey
  <2>1. redis[t] # NoKey /\ remaining[t] = Quota /\ spent[t] = 0 /\ batch[t] = NoKey
    BY <1>4 DEF Init
  <2>2. redis[t] \in {Quota, NoKey}
    BY <1>4, Zenon DEF Init
  <2> QED
    BY <2>1, <2>2
<1>5. StoredKept
  BY <1>4, QuotaAssumption DEF StoredKept, Within
<1> QED
  BY <1>3, <1>5 DEF Kept

LEMMA KeptCopies == Typed /\ Kept => Conserved /\ RowLags
<1> SUFFICES ASSUME Typed, Kept PROVE Conserved /\ RowLags
  OBVIOUS
<1>1. Conserved
  BY DEF Conserved, Kept, StoredKept
<1>2. ASSUME NEW t \in Token \ lost, NEW n \in Copies(t) PROVE Within(t, n)
  <2>1. CASE n \in ({redis[t], batch[t]} \ {NoKey}) \cup {remaining[t]}
    BY <2>1, QuotaAssumption DEF Kept, StoredKept, Within, Typed, TypeOK, StoresTyped,
       GhostsTyped
  <2>2. CASE n \in Queued(t)
    BY <2>2 DEF Queued, Kept, QueuedKept, Entries, Typed, TypeOK, SyncTyped
  <2>3. CASE n \in Carried(t)
    <3>1. PICK c \in Call : /\ n = val[c] /\ token[c] = t
                            /\ \/ pc[c] \in {"seed", "submit", "refill", "publish"}
                               \/ c \in direct
      BY <2>3 DEF Carried, Typed, TypeOK, SyncTyped
    <3> QED
      BY <3>1 DEF Kept, OnlyLostReload, CarriedKept, Reloading
  <2> QED
    BY <2>1, <2>2, <2>3 DEF Copies
<1> QED
  BY <1>1, <1>2 DEF RowLags, Within

(* A step that leaves the copies of the tokens outside lost as they are.   *)
LEMMA StillKept ==
  ASSUME Typed, Kept, lost \subseteq lost', OnlyLostReload',
         UNCHANGED <<token, batch, syncChan>>,
         direct' \subseteq direct,
         \A c \in Call : pc'[c] = "submit" => pc[c] = "submit",
         \A c \in Call : (pc'[c] = "submit" \/ c \in direct') => val'[c] = val[c],
         \A t \in Token \ lost' : /\ redis'[t] = redis[t] /\ spent'[t] = spent[t]
                                  /\ remaining'[t] = remaining[t]
  PROVE  Kept'
<1> USE DEF Within, Typed, TypeOK, CallsTyped, SyncTyped
<1>1. StoredKept'
  BY DEF Kept, StoredKept
<1>2. QueuedKept'
  <2>1. \A e \in Entries : e.token \in Token
    BY EntriesTyped
  <2>2. Entries' = Entries
    BY DEF Entries
  <2> QED
    BY <2>1, <2>2 DEF Kept, QueuedKept
<1>3. CarriedKept'
  BY DEF Kept, CarriedKept
<1> QED
  BY <1>1, <1>2, <1>3 DEF Kept

LEMMA NextKept == Typed /\ Kept /\ [Next]_vars => Kept'
<1> SUFFICES ASSUME Typed, Kept, [Next]_vars PROVE Kept'
  OBVIOUS
<1> USE DEF Typed, TypeOK, CallsTyped, StoresTyped, SyncTyped, GhostsTyped
<1>1. ASSUME NEW c \in Call, NEW from \in PC, NEW to \in PC \ {"submit"}, Goto(c, from, to),
             to \in Reloading => from \in Reloading \/ token[c] \in lost',
             lost \subseteq lost', UNCHANGED <<token, syncVars>>,
             UNCHANGED val \/ (c \notin direct /\ \E n : val' = [val EXCEPT ![c] = n]),
             \A t \in Token \ lost' : /\ redis'[t] = redis[t] /\ spent'[t] = spent[t]
                                      /\ remaining'[t] = remaining[t]
      PROVE  Kept'
  <2>1. OnlyLostReload'
    BY <1>1 DEF Kept, OnlyLostReload, Goto
  <2>2. UNCHANGED <<batch, syncChan, direct>>
    BY <1>1 DEF syncVars
  <2>3. \A d \in Call : pc'[d] = "submit" => pc[d] = "submit" /\ d # c
    BY <1>1 DEF Goto
  <2>4. \A d \in Call : pc'[d] = "submit" \/ d \in direct => val'[d] = val[d]
    BY <1>1, <2>3
  <2> QED
    BY <1>1, <2>1, <2>2, <2>3, <2>4, StillKept
<1>2. ASSUME NEW c \in Call, ScriptGrants(c) PROVE Kept'
  <2>1. UNCHANGED <<token, remaining, syncChan, direct, batch, lost>>
    BY <1>2 DEF ScriptGrants, syncVars
  <2>2. /\ redis[token[c]] \in Nat /\ redis' = [redis EXCEPT ![token[c]] = redis[token[c]] - 1]
        /\ spent' = [spent EXCEPT ![token[c]] = spent[token[c]] + 1]
    BY <1>2 DEF ScriptGrants, Spend
  <2>3. ASSUME NEW t \in Token \ lost
        PROVE  redis[t] \in Nat /\ redis'[t] <= redis[t] /\ redis'[t] \in Int
    <3>1. redis[t] \in Nat
      BY DEF Kept, StoredKept
    <3>2. CASE t = token[c]
      BY <2>2, <3>1, <3>2
    <3>3. CASE t # token[c]
      BY <2>2, <3>1, <3>3
    <3> QED
      BY <3>2, <3>3, <3>1
  <2>4. ASSUME NEW t \in Token \ lost, NEW n \in Nat, Within(t, n) PROVE Within(t, n)'
    <3>1. redis[t] \in Nat /\ redis'[t] <= redis[t] /\ redis'[t] \in Int
      BY <2>3
    <3>2. redis[t] <= n /\ n <= Quota
      BY <2>4 DEF Within
    <3>3. redis'[t] <= n
      BY <3>1, <3>2, SMTT(30)
    <3> QED
      BY <3>2, <3>3 DEF Within
  <2>5. StoredKept'
    <3>1. ASSUME NEW t \in Token \ lost PROVE redis'[t] # NoKey /\ redis'[t] + spent'[t] = Quota
      BY <2>2, <2>3, QuotaAssumption, SMTT(30) DEF Kept, StoredKept
    <3> QED
      BY <2>1, <2>4, <3>1 DEF Kept, StoredKept
  <2>6. QueuedKept'
    <3>1. Entries' = Entries
      BY <2>1 DEF Entries
    <3>2. \A e \in Entries : e.token \in Token /\ e.remaining \in Nat
      BY EntriesTyped
    <3> QED
      BY <2>1, <2>4, <3>1, <3>2 DEF Kept, QueuedKept
  <2>7. CarriedKept'
    <3>1. token[c] \notin lost => Within(token[c], val[c])'
      <4>1. redis'[token[c]] = redis[token[c]] - 1 /\ val'[c] = redis[token[c]] - 1
        BY <1>2, <2>2 DEF ScriptGrants
      <4>2. token[c] \notin lost => redis[token[c]] + spent[token[c]] = Quota
        BY DEF Kept, StoredKept
      <4>3. spent[token[c]] \in Nat
        OBVIOUS
      <4> QED
        BY <2>1, <2>2, <4>1, <4>2, <4>3, QuotaAssumption, SMTT(30) DEF Within
    <3>2. ASSUME NEW d \in Call, d # c, (pc[d] = "submit" \/ d \in direct)', token[d] \notin lost
          PROVE  Within(token[d], val[d])'
      <4>1. pc'[d] = pc[d] /\ val'[d] = val[d]
        BY <1>2, <3>2 DEF ScriptGrants, Goto
      <4>2. Within(token[d], val[d])
        BY <2>1, <3>2, <4>1 DEF Kept, CarriedKept
      <4> QED
        BY <2>1, <2>4, <3>2, <4>1, <4>2 DEF Within
    <3> QED
      BY <2>1, <3>1, <3>2 DEF CarriedKept
  <2>8. OnlyLostReload'
    BY <1>2 DEF ScriptGrants, Goto, Kept, OnlyLostReload, Reloading
  <2> QED
    BY <2>5, <2>6, <2>7, <2>8 DEF Kept
<1>3. ASSUME NEW c \in Call, DepthExceeded(c) \/ ScriptRefuses(c) \/ ScriptFails(c)
      PROVE  Kept'
  BY <1>1, <1>3 DEF DepthExceeded, ScriptRefuses, ScriptFails, Fails, Reloading, PC,
     Finished, storeVars, paidVars
<1>4. ASSUME NEW c \in Call, ScriptMisses(c) PROVE Kept'
  <2>1. token[c] \in lost
    BY <1>4 DEF ScriptMisses, Kept, StoredKept
  <2> QED
    BY <1>1, <1>4, <2>1 DEF ScriptMisses, PC, Finished, storeVars, paidVars
<1>5. ASSUME NEW c \in Call, LoadFromDB(c) \/ LoadRefuses(c) PROVE Kept'
  BY <1>1, <1>5 DEF LoadFromDB, LoadRefuses, Goto, Places, Reloading, PC, Finished,
     storeVars, paidVars
<1>6. ASSUME NEW c \in Call, Seed(c) PROVE Kept'
  <2>1. token[c] \in lost
    BY <1>6 DEF Seed, Goto, Kept, OnlyLostReload, Reloading
  <2>2. lost \subseteq lost' /\ \A t \in Token \ lost' : redis'[t] = redis[t]
    BY <1>6, <2>1 DEF Seed, Fails
  <2> QED
    BY <1>1, <1>6, <2>1, <2>2 DEF Seed, Reloading, PC, Finished, paidVars
<1>7. ASSUME NEW c \in Call, DecrementQuotaAtomic(c) PROVE Kept'
  <2>1. token[c] \in lost
    BY <1>7 DEF DecrementQuotaAtomic, Goto, Kept, OnlyLostReload, Reloading
  <2> QED
    BY <1>1, <1>7, <2>1 DEF DecrementQuotaAtomic, Spend, Reloading, PC, Finished
<1>8. ASSUME NEW c \in Call, DecrementFails(c) \/ DBFails(c) PROVE Kept'
  BY <1>1, <1>8 DEF DecrementFails, DBFails, Goto, Fails, Reloading, PC, Finished,
     storeVars, paidVars
<1>9. ASSUME NEW c \in Call, Confirm(c) PROVE Kept'
  BY <1>1, <1>9 DEF Confirm, Goto, Places, Reloading, PC, Finished, storeVars, paidVars
<1>10. ASSUME NEW c \in Call, Submit(c) \/ SubmitTimeout(c) PROVE Kept'
  <2>1. UNCHANGED <<token, val, storeVars, batch, spent, lost>>
    BY <1>10 DEF Submit, SubmitTimeout, paidVars
  <2>2. token[c] \notin lost => Within(token[c], val[c])
    BY <1>10 DEF Submit, SubmitTimeout, Goto, Kept, CarriedKept
  <2>3. StoredKept'
    BY <2>1 DEF storeVars, Kept, StoredKept, Within
  <2>4. \A e \in Entries' : e \in Entries \/ e = Task(c)
    <3>1. CASE Submit(c)
      BY <3>1, SubmitEntries DEF Submit
    <3>2. CASE SubmitTimeout(c)
      BY <3>2 DEF SubmitTimeout, Entries
    <3> QED
      BY <1>10, <3>1, <3>2
  <2>5. QueuedKept'
    BY <2>1, <2>2, <2>4 DEF storeVars, Kept, QueuedKept, Task, Within
  <2>6. direct' \subseteq direct \cup {c} /\ \A d \in Call : pc'[d] = "submit" => pc[d] = "submit"
    BY <1>10 DEF Submit, SubmitTimeout, Goto
  <2>7. CarriedKept'
    BY <2>1, <2>2, <2>6 DEF storeVars, Kept, CarriedKept, Within
  <2>8. OnlyLostReload'
    BY <1>10, <2>1 DEF Submit, SubmitTimeout, Goto, Kept, OnlyLostReload, Reloading
  <2> QED
    BY <2>3, <2>5, <2>7, <2>8 DEF Kept
<1>11. ASSUME NEW c \in Call, PeekHits(c) PROVE Kept'
  BY <1>1, <1>11 DEF PeekHits, Reloading, PC, Finished, storeVars, paidVars
<1>12. ASSUME NEW c \in Call, PeekFails(c) PROVE Kept'
  BY <1>1, <1>12 DEF PeekFails, Fails, Reloading, PC, Finished, storeVars, paidVars
<1>13. ASSUME NEW c \in Call, PeekMisses(c) PROVE Kept'
  <2>1. token[c] \in lost
    BY <1>13 DEF PeekMisses, Kept, StoredKept
  <2> QED
    BY <1>1, <1>13, <2>1 DEF PeekMisses, PC, Finished, storeVars, paidVars
<1>14. ASSUME NEW c \in Call, Fetch(c) \/ FetchFails(c) PROVE Kept'
  BY <1>1, <1>14 DEF Fetch, FetchFails, Goto, Fails, Places, Reloading, PC, Finished,
     storeVars, paidVars
<1>15. ASSUME NEW c \in Call, Refill(c) PROVE Kept'
  <2>1. token[c] \in lost
    BY <1>15 DEF Refill, Goto, Kept, OnlyLostReload, Reloading
  <2>2. lost \subseteq lost' /\ \A t \in Token \ lost' : redis'[t] = redis[t]
    BY <1>15, <2>1 DEF Refill, Fails
  <2> QED
    BY <1>1, <1>15, <2>1, <2>2 DEF Refill, Reloading, PC, Finished, paidVars
<1>16. ASSUME NEW c \in Call, Read(c) PROVE Kept'
  <2>1. c \notin direct
    BY <1>16 DEF Read, Goto, Places
  <2> QED
    BY <1>1, <1>16, <2>1 DEF Read, PC, Finished, storeVars, paidVars
<1>17. ASSUME NEW c \in Call, Write(c) \/ Reread(c) \/ UpdateFails(c) \/ Publish(c)
       PROVE  Kept'
  <2>1. CASE Write(c)
    <3>1. token[c] \in lost
      BY <2>1 DEF Write, Goto, Kept, OnlyLostReload, Reloading
    <3> QED
      BY <1>1, <2>1, <3>1 DEF Write, PC, Finished, Reloading, paidVars
  <2>2. CASE Reread(c)
    BY <1>1, <2>2 DEF Reread, Goto, Places, Reloading, PC, Finished, storeVars, paidVars
  <2>3. CASE UpdateFails(c)
    <3>1. /\ Goto(c, pc[c], "failed") /\ pc[c] \in PC /\ lost \subseteq lost'
          /\ UNCHANGED <<token, val, storeVars, syncVars, paidVars>>
      BY <2>3 DEF UpdateFails, Fails
    <3> QED
      BY <1>1, <3>1 DEF Reloading, PC, Finished, storeVars, paidVars
  <2>4. CASE Publish(c)
    <3>1. token[c] \in lost
      BY <2>4 DEF Publish, Goto, Kept, OnlyLostReload, Reloading
    <3>2. lost \subseteq lost' /\ \A t \in Token \ lost' : redis'[t] = redis[t]
      BY <2>4, <3>1 DEF Publish, Fails
    <3> QED
      BY <1>1, <2>4, <3>1, <3>2 DEF Publish, Reloading, PC, Finished, paidVars
  <2> QED
    BY <1>17, <2>1, <2>2, <2>3, <2>4
<1>18. ASSUME NEW c \in Call, ScriptRepeats(c) PROVE Kept'
  <2>1. UNCHANGED callVars /\ UNCHANGED syncVars /\ lost' = lost \cup {token[c]}
    BY <1>18 DEF ScriptRepeats, Fails
  <2>2. OnlyLostReload'
    BY <2>1 DEF Kept, OnlyLostReload, callVars
  <2> QED
    BY <1>18, <2>1, <2>2, StillKept DEF ScriptRepeats, Spend, callVars, syncVars
<1>19. ASSUME NEW c \in Call, SyncToDBDirectly(c) PROVE Kept'
  <2>1. UNCHANGED <<callVars, redis, syncChan, batch, spent>> /\ direct' \subseteq direct
        /\ lost \subseteq lost'
    BY <1>19 DEF SyncToDBDirectly, Fails, paidVars
  <2>2. \A t \in Token \ lost' : remaining'[t] = remaining[t] \/ (t = token[c] /\ remaining'[t] = val[c])
    BY <1>19 DEF SyncToDBDirectly, Fails
  <2>3. StoredKept'
    BY <1>19, <2>1, <2>2 DEF SyncToDBDirectly, Kept, StoredKept, CarriedKept, Within
  <2>4. OnlyLostReload' /\ CarriedKept' /\ QueuedKept'
    BY <2>1, EntriesTyped DEF Kept, OnlyLostReload, QueuedKept, CarriedKept, Within, Entries,
       callVars
  <2> QED
    BY <2>3, <2>4 DEF Kept
<1>20. CASE TakeTask
  <2>1. Entries' \subseteq Entries /\ Head(syncChan) \in Entries
    BY <1>20, TakeEntries DEF TakeTask
  <2>2. UNCHANGED <<callVars, storeVars, direct, spent, lost>>
    BY <1>20 DEF TakeTask, paidVars
  <2>3. Head(syncChan).token \notin lost
          => Within(Head(syncChan).token, Head(syncChan).remaining)
    BY <2>1 DEF Kept, QueuedKept
  <2>4. StoredKept'
    BY <1>20, <2>2, <2>3 DEF TakeTask, Kept, StoredKept, Within, storeVars
  <2>5. QueuedKept' /\ CarriedKept' /\ OnlyLostReload'
    BY <2>1, <2>2 DEF Kept, QueuedKept, CarriedKept, OnlyLostReload, Within, callVars,
       storeVars
  <2> QED
    BY <2>4, <2>5 DEF Kept
<1>21. CASE BatchSyncToDB
  <2>1. PICK t \in Batched :
          /\ batch' = [batch EXCEPT ![t] = NoKey]
          /\ \/ remaining' = [remaining EXCEPT ![t] = batch[t]] /\ UNCHANGED lost
             \/ lost' = lost \cup {t} /\ UNCHANGED remaining
    BY <1>21 DEF BatchSyncToDB
  <2>2. UNCHANGED <<callVars, redis, syncChan, direct, spent>> /\ lost \subseteq lost'
    BY <1>21, <2>1 DEF BatchSyncToDB, paidVars
  <2>3. StoredKept'
    BY <2>1, <2>2 DEF Batched, Kept, StoredKept, Within
  <2>4. OnlyLostReload' /\ CarriedKept' /\ QueuedKept'
    BY <2>2, EntriesTyped DEF Kept, OnlyLostReload, QueuedKept, CarriedKept, Within, Entries,
       callVars
  <2> QED
    BY <2>3, <2>4 DEF Kept
<1>22. ASSUME NEW t \in Token, Expire(t) PROVE Kept'
  <2>1. OnlyLostReload'
    BY <1>22 DEF Expire, Kept, OnlyLostReload, callVars
  <2> QED
    BY <1>22, <2>1, StillKept DEF Expire, callVars, syncVars, paidVars
<1>23. ASSUME UNCHANGED <<callVars, storeVars, syncChan, direct, batch, spent, lost>>
       PROVE  Kept'
  BY <1>23 DEF Kept, OnlyLostReload, StoredKept, QueuedKept, CarriedKept, Within, Entries,
     callVars, storeVars
<1>24. SyncTick \/ SyncStop \/ LogWorker \/ Stop \/ UNCHANGED vars => Kept'
  BY <1>23 DEF SyncTick, SyncStop, LogWorker, TakeLog, LogTick, LogStop, Stop, syncVars,
     paidVars, vars
<1> QED
  BY <1>2, <1>3, <1>4, <1>5, <1>6, <1>7, <1>8, <1>9, <1>10, <1>11, <1>12, <1>13, <1>14,
     <1>15, <1>16, <1>17, <1>18, <1>19, <1>20, <1>21, <1>22, <1>24
  DEF Next, ConsumeQuota, GetRemainingQuota, UpdateQuota, SyncWorker, Ended

LEMMA KeptAlways == Spec => []Kept
BY InitKept, NextKept, TypedAlways, PTL DEF Spec

(* Counter and paid calls add up to the quota of an undisturbed token.     *)
THEOREM QuotaConserved == Spec => []Conserved
BY KeptCopies, KeptAlways, TypedAlways, PTL

(* Its row, and every value on the way to the row, is one the counter had. *)
THEOREM RowBehind == Spec => []RowLags
BY KeptCopies, KeptAlways, TypedAlways, PTL
-----------------------------------------------------------------------------
LEMMA InsertAccounted ==
  ASSUME Typed, NEW n \in Nat, BatchInsertLogs(n)
  PROVE  /\ logRows' \in Nat /\ lostLogs' \in Nat
         /\ logRows' + lostLogs' = logRows + lostLogs + n
BY DEF BatchInsertLogs, Typed, TypeOK, LogsTyped

LEMMA LogAccounted == Typed /\ LogsAccounted /\ LogQuotaChange => LogsAccounted'
BY DEF LogQuotaChange, LogsAccounted, Typed, TypeOK, LogsTyped

LEMMA NextAccounted == Typed /\ LogsAccounted /\ [Next]_vars => LogsAccounted'
<1> SUFFICES ASSUME Typed, LogsAccounted, [Next]_vars PROVE LogsAccounted'
  OBVIOUS
<1>1. ASSUME NEW c \in Call, Confirm(c) \/ Submit(c) \/ SubmitTimeout(c) \/ Publish(c)
      PROVE  LogsAccounted'
  BY <1>1, LogAccounted DEF Confirm, Submit, SubmitTimeout, Publish
<1>2. ASSUME UNCHANGED logVars PROVE LogsAccounted'
  BY <1>2 DEF LogsAccounted, logVars
<1>3. ASSUME NEW c \in Call,
             \/ DepthExceeded(c) \/ ScriptGrants(c) \/ ScriptRefuses(c) \/ ScriptMisses(c)
             \/ ScriptRepeats(c) \/ ScriptFails(c) \/ LoadFromDB(c) \/ LoadRefuses(c)
             \/ Seed(c) \/ DecrementQuotaAtomic(c) \/ DecrementFails(c) \/ DBFails(c)
             \/ GetRemainingQuota(c) \/ SyncToDBDirectly(c)
      PROVE  LogsAccounted'
  BY <1>2, <1>3 DEF DepthExceeded, ScriptGrants, ScriptRefuses, ScriptMisses, ScriptRepeats,
     ScriptFails, LoadFromDB, LoadRefuses, Seed, DecrementQuotaAtomic, DecrementFails, DBFails,
     GetRemainingQuota, PeekHits, PeekFails, PeekMisses, Fetch, FetchFails, Refill,
     SyncToDBDirectly
<1>4. ASSUME NEW c \in Call, Read(c) \/ Write(c) \/ Reread(c) \/ UpdateFails(c)
      PROVE  LogsAccounted'
  BY <1>2, <1>4 DEF Read, Write, Reread, UpdateFails
<1>5. CASE SyncWorker
  BY <1>2, <1>5 DEF SyncWorker, TakeTask, SyncTick, SyncStop, BatchSyncToDB
<1>6. CASE LogWorker
  <2> USE DEF Typed, TypeOK, LogsTyped, LogsAccounted
  <2>1. CASE TakeLog
    BY <2>1, InsertAccounted DEF TakeLog
  <2>2. CASE LogTick
    BY <2>2, InsertAccounted DEF LogTick
  <2>3. CASE LogStop
    BY <2>3, InsertAccounted DEF LogStop
  <2> QED
    BY <1>6, <2>1, <2>2, <2>3 DEF LogWorker
<1>7. Stop \/ (\E t \in Token : Expire(t)) \/ UNCHANGED vars => LogsAccounted'
  BY <1>2 DEF Stop, Expire, vars
<1> QED
  BY <1>1, <1>3, <1>4, <1>5, <1>6, <1>7 DEF Next, ConsumeQuota, UpdateQuota, Ended

(* No logged change of a quota disappears without being counted.           *)
THEOREM LogsKept == Spec => []LogsAccounted
<1>1. Init => LogsAccounted
  BY DEF Init, LogsAccounted
<1> QED
  BY <1>1, NextAccounted, TypedAlways, PTL DEF Spec
===============================================================================
