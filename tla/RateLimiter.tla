---------------------------- MODULE RateLimiter ----------------------------
(***************************************************************************)
(* The sliding window of a token: CheckLimit reads the history from the hot*)
(* tier (memory) or the warm tier (Redis), decides, and writes it back to  *)
(* both, the warm one through the write pool.                              *)
(* service/rate_limiter_service.go, service/rate_limiter_tiers.go.         *)
(*                                                                         *)
(* A history is how many requests were admitted at each time: no decision  *)
(* looks at their order. Redis keeps it longer than the window (TTL of an  *)
(* hour, windows of minutes).                                              *)
(***************************************************************************)
EXTENDS Integers, FiniteSets, Functions

CONSTANTS Token, Caller,
          PerMinute, Burst, WindowSeconds,  \* RateLimitConfig
          MaxTokens,     \* hot tier size
          MaxErrors,     \* errors after which the warm tier is disabled
          CleanupAge,    \* hot entries not used for longer are removed
          RedisFails,    \* whether Redis may fail
          MaxTime, MaxCalls,  \* bounds: ticks, and calls in one tick
          None

VARIABLES clock, begun,           \* the time, and the calls begun at it
          data, accessOrder,      \* hot tier: histories and last accesses
          stored,                 \* warm tier: histories in Redis
          enabled, errorCount,    \* warm tier: its error handling
          writes,                 \* warm writes on their way through the pool
          where, whose, since, seen, \* [Caller -> ...] its step, token, start and what it read
          admitted,               \* ghost: [Token -> history of the admissions of the last window]
          disturbed               \* ghost: tokens whose calls overlapped or whose history was lost

hotTier  == <<data, accessOrder>>
warmTier == <<stored, enabled, errorCount>>
callers  == <<where, whose, since, seen>>
vars == <<clock, begun, hotTier, warmTier, writes, callers, admitted, disturbed>>

Time    == 0 .. MaxTime
Nothing == [x \in Time |-> 0]
Total(requests) == SumFunction(requests)
Plus(requests, now) == [requests EXCEPT ![now] = @ + 1]

\* Mutant: the window is shorter by a second.
ValidShort(requests, now, window) == [x \in Time |-> IF x > now - window + 1 THEN requests[x] ELSE 0]
\* filterValidRequests: timestamps later than the beginning of the window.
Valid(requests, now, window) == [x \in Time |-> IF x > now - window THEN requests[x] ELSE 0]

\* Of the ghost: the admissions of the last n seconds.
Lately(times, n) == [x \in Time |-> IF clock - x < n THEN times[x] ELSE 0]

Held       == {t \in Token : data[t] # None}
Calling(t) == {c \in Caller : where[c] # "away" /\ whose[c] = t}
Pending(t) == {w \in writes : w.token = t}
Goto(c, step) == where' = [where EXCEPT ![c] = step]
Return(c) == /\ Goto(c, "away") /\ whose' = [whose EXCEPT ![c] = None]
             /\ since' = [since EXCEPT ![c] = 0] /\ seen' = [seen EXCEPT ![c] = Nothing]

Init ==
  /\ clock = 0 /\ begun = 0
  /\ data = [t \in Token |-> None] /\ accessOrder = [t \in Token |-> None]
  /\ stored = [t \in Token |-> None] /\ enabled = TRUE /\ errorCount = 0 /\ writes = {}
  /\ where = [c \in Caller |-> "away"] /\ whose = [c \in Caller |-> None]
  /\ since = [c \in Caller |-> 0] /\ seen = [c \in Caller |-> Nothing]
  /\ admitted = [t \in Token |-> Nothing] /\ disturbed = {}

-----------------------------------------------------------------------------
\* HotDataTier.

\* evictLRU: one of the least recently used entries of accessOrder, which may have no data.
Oldest == {t \in Token : /\ accessOrder[t] # None
                         /\ \A u \in Token : accessOrder[u] # None => accessOrder[t] <= accessOrder[u]}

\* Set, with the eviction before it. A history that leaves while a write of it is on its way, or
\* while the warm tier is off, is lost.
Unwritten(t) == Pending(t) # {} \/ \E c \in Calling(t) : where[c] = "submit"
Forgets(t) == data[t] # None /\ (Unwritten(t) \/ ~enabled)

HotSet(t, requests) ==
  \/ /\ Cardinality(Held) >= MaxTokens /\ data[t] = None /\ Oldest # {}
     /\ \E old \in Oldest :
          /\ data' = [data EXCEPT ![old] = None, ![t] = requests]
          /\ accessOrder' = [accessOrder EXCEPT ![old] = None, ![t] = clock]
          /\ disturbed' = disturbed \cup {x \in {old} : Forgets(x)}
  \/ /\ ~(Cardinality(Held) >= MaxTokens /\ data[t] = None /\ Oldest # {})
     /\ data' = [data EXCEPT ![t] = requests]
     /\ accessOrder' = [accessOrder EXCEPT ![t] = clock]
     /\ UNCHANGED disturbed

-----------------------------------------------------------------------------
\* WarmDataTier.

\* An operation on t fails. The tier is disabled at MaxErrors (for good: nothing sets enabled
\* again) and with it what only Redis has is lost.
HandleError(t) ==
  /\ errorCount' = errorCount + 1
  /\ enabled' = (enabled /\ errorCount + 1 < MaxErrors)
  /\ disturbed' = disturbed \cup {t} \cup {u \in Token : ~enabled' /\ data[u] = None}

ResetErrorCount == errorCount' = 0 /\ UNCHANGED enabled

-----------------------------------------------------------------------------
\* CheckLimit.

CheckLimit(c, t) ==
  /\ where[c] = "away" /\ begun < MaxCalls /\ begun' = begun + 1
  /\ Goto(c, "hot") /\ whose' = [whose EXCEPT ![c] = t] /\ since' = [since EXCEPT ![c] = clock]
  /\ disturbed' = disturbed \cup {x \in {t} : Calling(t) # {}}
  /\ UNCHANGED <<clock, hotTier, warmTier, writes, seen, admitted>>

HotGet(c) ==
  /\ where[c] = "hot"
  /\ LET found == data[whose[c]] # None IN
     /\ Goto(c, IF found THEN "touch" ELSE "warm")
     /\ seen' = [seen EXCEPT ![c] = IF found THEN data[whose[c]] ELSE Nothing]
  /\ UNCHANGED <<clock, begun, hotTier, warmTier, writes, whose, since, admitted, disturbed>>

\* Get takes the write lock anew: the entry may have gone meanwhile.
Touch(c) ==
  /\ where[c] = "touch"
  /\ accessOrder' = [accessOrder EXCEPT ![whose[c]] = clock] /\ Goto(c, "decide")
  /\ UNCHANGED <<clock, begun, data, warmTier, writes, whose, since, seen, admitted, disturbed>>

WarmGet(c) ==
  /\ where[c] = "warm"
  /\ LET t == whose[c] IN
     \/ /\ ~enabled \/ stored[t] = None
        /\ Goto(c, "decide")
        /\ UNCHANGED <<seen, errorCount, enabled, disturbed>>
     \/ /\ enabled /\ stored[t] # None
        /\ seen' = [seen EXCEPT ![c] = stored[t]] /\ Goto(c, "promote") /\ ResetErrorCount
        /\ UNCHANGED disturbed
     \/ /\ enabled /\ RedisFails
        /\ HandleError(t) /\ Goto(c, "decide")
        /\ UNCHANGED seen
  /\ UNCHANGED <<clock, begun, hotTier, stored, writes, whose, since, admitted>>

Promote(c) ==
  /\ where[c] = "promote"
  /\ HotSet(whose[c], seen[c]) /\ Goto(c, "decide")
  /\ UNCHANGED <<clock, begun, warmTier, writes, whose, since, seen, admitted>>

History(c) == Valid(seen[c], since[c], WindowSeconds)
Recent(c)  == Valid(History(c), since[c], 1)
Refused(c) == \/ Burst > 0 /\ Total(Recent(c)) >= Burst
              \/ Total(History(c)) >= PerMinute

Refuse(c) ==
  /\ where[c] = "decide" /\ Refused(c)
  /\ Return(c)
  /\ UNCHANGED <<clock, begun, hotTier, warmTier, writes, admitted, disturbed>>

Admit(c) ==
  /\ where[c] = "decide" /\ ~Refused(c)
  /\ LET t == whose[c]
         requests == Plus(History(c), since[c])
     IN /\ HotSet(t, requests)
        /\ seen' = [seen EXCEPT ![c] = requests]
        /\ admitted' = [admitted EXCEPT ![t] = IF t \in disturbed' THEN Nothing
                                                ELSE Plus(Lately(@, WindowSeconds), since[c])]
  /\ Goto(c, "submit")
  /\ UNCHANGED <<clock, begun, warmTier, writes, whose, since>>

\* The write pool takes the write, or refuses it when it is full or closed; several workers may
\* run two writes of a token in either order.
Submit(c) ==
  /\ where[c] = "submit" /\ Return(c)
  /\ LET t == whose[c] IN
     \/ /\ writes' = writes \cup {[token |-> t, requests |-> seen[c]]}
        /\ disturbed' = disturbed \cup {x \in {t} : Pending(t) # {}}
     \/ RedisFails /\ UNCHANGED writes /\ disturbed' = disturbed \cup {t}
  /\ UNCHANGED <<clock, begun, hotTier, warmTier, admitted>>

WarmSet(w) ==
  /\ writes' = writes \ {w}
  /\ \/ enabled /\ stored' = [stored EXCEPT ![w.token] = w.requests] /\ ResetErrorCount /\ UNCHANGED disturbed
     \/ enabled /\ RedisFails /\ HandleError(w.token) /\ UNCHANGED stored
     \/ ~enabled /\ disturbed' = disturbed \cup {w.token} /\ UNCHANGED warmTier
  /\ UNCHANGED <<clock, begun, hotTier, callers, admitted>>

-----------------------------------------------------------------------------
\* Other operations, and time: a call and a queued write last less than a second.

\* ClearTokenCache of the administrator.
ClearTokenCache(t) ==
  /\ data[t] # None
  /\ data' = [data EXCEPT ![t] = None] /\ accessOrder' = [accessOrder EXCEPT ![t] = None]
  /\ stored' = IF enabled THEN [stored EXCEPT ![t] = None] ELSE stored
  /\ disturbed' = disturbed \cup {t}
  /\ UNCHANGED <<clock, begun, enabled, errorCount, writes, callers, admitted>>

\* Mutant: the histories stay.
CleanupOrder ==
  LET idle == {t \in Token : accessOrder[t] # None /\ accessOrder[t] < clock - CleanupAge} IN
  /\ idle # {}
  /\ accessOrder' = [t \in Token |-> IF t \in idle THEN None ELSE accessOrder[t]]
  /\ UNCHANGED <<clock, begun, data, warmTier, writes, callers, admitted, disturbed>>

\* Cleanup removes what accessOrder says has not been used.
Cleanup ==
  LET idle == {t \in Token : accessOrder[t] # None /\ accessOrder[t] < clock - CleanupAge} IN
  /\ idle # {}
  /\ data' = [t \in Token |-> IF t \in idle THEN None ELSE data[t]]
  /\ accessOrder' = [t \in Token |-> IF t \in idle THEN None ELSE accessOrder[t]]
  /\ disturbed' = disturbed \cup {t \in idle : Forgets(t)}
  /\ UNCHANGED <<clock, begun, warmTier, writes, callers, admitted>>

Tick ==
  /\ clock < MaxTime /\ writes = {} /\ \A c \in Caller : where[c] = "away"
  /\ clock' = clock + 1 /\ begun' = 0
  /\ UNCHANGED <<hotTier, warmTier, writes, callers, admitted, disturbed>>

Next ==
  \/ \E c \in Caller : \/ \E t \in Token : CheckLimit(c, t)
                       \/ HotGet(c) \/ Touch(c) \/ WarmGet(c) \/ Promote(c) \/ Refuse(c) \/ Admit(c)
                       \/ Submit(c)
  \/ \E w \in writes : WarmSet(w)
  \/ \E t \in Token : ClearTokenCache(t)
  \/ Cleanup \/ Tick

Spec == Init /\ [][Next]_vars

-----------------------------------------------------------------------------
\* A token whose calls do not overlap is admitted at most PerMinute times in any window and Burst
\* times in any second, whatever moves between the tiers: evictions, promotions and cleanup keep
\* the count as long as Redis has the last history.
WindowRespected ==
  \A t \in Token \ disturbed :
    LET Within(n) == Total(Lately(admitted[t], n))
    IN Within(WindowSeconds) <= PerMinute /\ (Burst > 0 => Within(1) <= Burst)

\* What is in memory can be evicted: no history stays behind without an access time, although Get
\* writes access times after it released the lock under which it read. (An access time without a
\* history does occur; it makes an eviction free nothing.)
EveryHistoryEvictable == \A t \in Token : data[t] # None => accessOrder[t] # None
=============================================================================
