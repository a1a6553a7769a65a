----------------------------- MODULE IpLimiter -----------------------------
(***************************************************************************)
(* The token buckets per IP address: the smart limiter, which changes from *)
(* a strict to a lenient bucket when the address has authenticated, and the*)
(* global limiter of the public endpoints, each with a goroutine that      *)
(* removes what has not been used for a while.                             *)
(* middleware/smart_ip_rate_limiter.go, global_ip_rate_limiter.go.         *)
(*                                                                         *)
(* A request passes a limiter within a tick: minutes are the ages,         *)
(* microseconds the steps of a request.                                    *)
(***************************************************************************)
EXTENDS Integers, Sequences, FiniteSets, FiniteSetsExt

CONSTANTS IP, Request,
          Rate, Capacity, MaxAge, \* of each kind of bucket: tokens per tick, burst, age
          Interval,   \* ticks between two cleanups
          MaxTime,    \* bound: ticks
          None

\* The maps that hold the buckets: preAuthLimiters, postAuthLimiters, the global limiters.
Kind == {"pre", "post", "global"}

VARIABLES tick, cleaned,  \* the time; the last time the cleanup goroutines have run
          closed,         \* the shutdown channels are closed
          buckets,        \* [Kind -> [IP -> bucket or None]]
          authenticatedIPs, \* [IP -> when it last authenticated, or None]
          stage, from, authenticated, \* a request: its step, address and what it saw of the address
          ideal,          \* ghost: the buckets if none had ever been removed
          proved          \* ghost: [IP -> when it last authenticated, or None]

requests == <<stage, from, authenticated>>
vars == <<tick, cleaned, closed, buckets, authenticatedIPs, requests, ideal, proved>>

Full(k) == [tokens |-> Capacity[k], last |-> tick, lastSeen |-> tick]

\* x/time/rate, advance: tokens come back with the time, up to the burst.
Tokens(k, b) == Min({Capacity[k], b.tokens + Rate[k] * (tick - b.last)})
Take(k, b)   == [b EXCEPT !.tokens = Tokens(k, b) - 1, !.last = tick]

Init ==
  /\ tick = 0 /\ cleaned = 0 /\ closed = FALSE
  /\ buckets = [k \in Kind |-> [i \in IP |-> None]]
  /\ authenticatedIPs = [i \in IP |-> None]
  /\ stage = [r \in Request |-> "away"] /\ from = [r \in Request |-> None]
  /\ authenticated = [r \in Request |-> FALSE]
  /\ ideal = [k \in Kind |-> [i \in IP |-> Full(k)]]
  /\ proved = [i \in IP |-> None]

-----------------------------------------------------------------------------
\* A request. getRealIP prefers the first address of X-Forwarded-For, then X-Real-IP, then the
\* peer's; whichever it is, it is one address.

\* A request that has its bucket and asks it next.
Asking == [pre |-> "ask pre", post |-> "ask post", global |-> "ask global"]
Advance(r, next) == stage' = [stage EXCEPT ![r] = next]
Leave(r) == /\ Advance(r, "away") /\ from' = [from EXCEPT ![r] = None]
            /\ authenticated' = [authenticated EXCEPT ![r] = FALSE]

\* A protected endpoint looks at the address first, a public one has one kind of bucket.
Arrive(r) ==
  /\ stage[r] = "away"
  /\ \E i \in IP : from' = [from EXCEPT ![r] = i]
  /\ \E entry \in {"smart", "global"} : Advance(r, entry)
  /\ UNCHANGED <<tick, cleaned, closed, buckets, authenticatedIPs, authenticated, ideal, proved>>

IsAuthenticated(r) ==
  /\ stage[r] = "smart"
  /\ LET known == authenticatedIPs[from[r]] # None IN
     /\ authenticated' = [authenticated EXCEPT ![r] = known]
     /\ Advance(r, IF known THEN "post" ELSE "pre")
  /\ UNCHANGED <<tick, cleaned, closed, buckets, authenticatedIPs, from, ideal, proved>>

\* The middleware gets the bucket under the lock and asks it afterwards.
GetLimiter(r) ==
  \E k \in Kind :
    /\ stage[r] = k
    /\ buckets' = [buckets EXCEPT ![k][from[r]] =
                     IF @ = None THEN Full(k) ELSE [@ EXCEPT !.lastSeen = tick]]
    /\ Advance(r, Asking[k])
    /\ UNCHANGED <<tick, cleaned, closed, authenticatedIPs, from, authenticated, ideal, proved>>

Allow(r) ==
  \E k \in Kind :
    LET i == from[r] b == buckets[k][i] IN
    /\ stage[r] = Asking[k]
    /\ IF Tokens(k, b) >= 1
       THEN /\ buckets' = [buckets EXCEPT ![k][i] = Take(k, @)]
            /\ ideal' = [ideal EXCEPT ![k][i] = Take(k, @)]
            /\ Advance(r, IF k = "global" THEN "public" ELSE "admitted")
            /\ UNCHANGED <<from, authenticated>>
       ELSE Leave(r) /\ UNCHANGED <<buckets, ideal>>
    /\ UNCHANGED <<tick, cleaned, closed, authenticatedIPs, proved>>

\* MarkIPAuthenticated after the token was accepted; a refused token or a public endpoint ends
\* without it.
MarkAuthenticated(r) ==
  /\ stage[r] = "admitted"
  /\ authenticatedIPs' = [authenticatedIPs EXCEPT ![from[r]] = tick]
  /\ proved' = [proved EXCEPT ![from[r]] = tick]
  /\ Leave(r)
  /\ UNCHANGED <<tick, cleaned, closed, buckets, ideal>>

Ends(r) ==
  /\ stage[r] \in {"admitted", "public"} /\ Leave(r)
  /\ UNCHANGED <<tick, cleaned, closed, buckets, authenticatedIPs, ideal, proved>>

-----------------------------------------------------------------------------
\* The cleanup goroutines: at each Interval they walk the maps under the lock.

\* Mutants: no age is waited for; an address stays known for good.
IdleEarly(k, b) == b # None
NeverStale(i)   == FALSE

Idle(k, b) == b # None /\ tick - b.lastSeen > MaxAge[k]
Stale(i)   == authenticatedIPs[i] # None /\ tick - authenticatedIPs[i] > MaxAge["pre"]

Due == ~closed /\ tick % Interval = 0 /\ cleaned # tick

Cleanup ==
  /\ Due /\ cleaned' = tick
  /\ buckets' = [k \in Kind |-> [i \in IP |-> IF Idle(k, buckets[k][i]) THEN None ELSE buckets[k][i]]]
  /\ authenticatedIPs' = [i \in IP |-> IF Stale(i) THEN None ELSE authenticatedIPs[i]]
  /\ UNCHANGED <<tick, closed, requests, ideal, proved>>

\* Close, when the server has stopped; it waits for the goroutine.
Close == ~closed /\ closed' = TRUE
         /\ UNCHANGED <<tick, cleaned, buckets, authenticatedIPs, requests, ideal, proved>>

Tick ==
  /\ tick < MaxTime /\ ~Due /\ \A r \in Request : stage[r] = "away"
  /\ tick' = tick + 1
  /\ UNCHANGED <<cleaned, closed, buckets, authenticatedIPs, requests, ideal, proved>>

Next ==
  \/ \E r \in Request : \/ Arrive(r) \/ IsAuthenticated(r) \/ GetLimiter(r) \/ Allow(r)
                        \/ MarkAuthenticated(r) \/ Ends(r)
  \/ Cleanup \/ Close \/ Tick

-----------------------------------------------------------------------------
\* The cleanup gives nobody tokens: what an address may still take from a bucket is what it could
\* take if its bucket had never been removed and made anew with a full burst.
CleanupGrantsNothing ==
  \A k \in Kind, i \in IP :
    Tokens(k, ideal[k][i]) = IF buckets[k][i] = None THEN Capacity[k] ELSE Tokens(k, buckets[k][i])

\* The lenient bucket serves only addresses that have authenticated within the age and one interval
\* of the cleanup, although a request looks at the address and takes its bucket in two steps.
LenientIsEarned ==
  \A r \in Request :
    stage[r] \in {"post", "ask post"} \/ (stage[r] = "admitted" /\ authenticated[r]) =>
      /\ proved[from[r]] # None
      /\ closed \/ tick - proved[from[r]] <= MaxAge["pre"] + Interval
=============================================================================
