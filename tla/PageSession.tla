----------------------------- MODULE PageSession -----------------------------
(***************************************************************************)
(* Sessions of the test page: created with the page under a limit per      *)
(* address, checked and renewed by the requests of the page.               *)
(* service/page_session_service.go, controller/executor_controller.go,     *)
(* controller/token_controller.go.                                         *)
(*                                                                         *)
(* The clock advances between requests; a cookie is the session's number   *)
(* and the time it was signed.                                             *)
(***************************************************************************)
EXTENDS Integers, Sequences, FiniteSets, FiniteSetsExt

CONSTANTS Client,        \* an address with its user agent
          Request,
          MaxPerWindow, RateTTL, \* five sessions in five minutes
          SessionTTL,    \* PAGE_SESSION_TTL_MIN
          CookieAge,     \* 24 hours
          MaxSessions, MaxTime, \* bounds
          None

VARIABLES clock,
          rate,      \* [Client -> [count, until] or None]
          session,   \* Seq of [client, until]: the keys in Redis, one per session id
          at, who, held, \* a request: its step, its client, the session it read
          created,   \* ghost: Seq of [time, lastUsed] of the sessions
          madeInWindow, \* ghost: [Client -> sessions created since its counter began]
          accepted   \* ghost: the last validation that succeeded: [session, client, idle], or None

vars == <<clock, rate, session, at, who, held, created, madeInWindow, accepted>>

Never == MaxTime + 1 \* after every time
Live(key) == key # None /\ clock < key.until
Goto(r, step) == at' = [at EXCEPT ![r] = step]
Return(r) == /\ Goto(r, "away") /\ who' = [who EXCEPT ![r] = None] /\ held' = [held EXCEPT ![r] = None]

Init ==
  /\ clock = 0 /\ rate = [c \in Client |-> None] /\ session = <<>>
  /\ at = [r \in Request |-> "away"] /\ who = [r \in Request |-> None] /\ held = [r \in Request |-> None]
  /\ created = <<>> /\ madeInWindow = [c \in Client |-> 0] /\ accepted = None

-----------------------------------------------------------------------------
\* CreateSession.

\* INCR; the first one also sets the expiry. A page without a session is shown all the same. (The count is
\* kept up to one above the limit.)
CountPage(r, c) ==
  LET fresh == ~Live(rate[c])
      count == IF fresh THEN 1 ELSE Min({rate[c].count, MaxPerWindow}) + 1
  IN /\ at[r] = "away" /\ Len(session) < MaxSessions
     /\ rate' = [rate EXCEPT ![c] = [count |-> count, until |-> IF fresh THEN Never ELSE @.until]]
     /\ madeInWindow' = IF fresh THEN [madeInWindow EXCEPT ![c] = 0] ELSE madeInWindow
     /\ IF count > MaxPerWindow THEN Return(r)
        ELSE /\ Goto(r, IF count = 1 THEN "expire" ELSE "store")
             /\ who' = [who EXCEPT ![r] = c] /\ UNCHANGED held
     /\ UNCHANGED <<clock, session, created, accepted>>

Expire(r) ==
  /\ at[r] = "expire" /\ Goto(r, "store")
  /\ rate' \in {rate, [rate EXCEPT ![who[r]].until = clock + RateTTL]}
  /\ UNCHANGED <<clock, session, who, held, created, madeInWindow, accepted>>

\* SET of the new session; when it fails there is no cookie.
StoreSession(r) ==
  /\ at[r] = "store" /\ Return(r)
  /\ \/ /\ Len(session) < MaxSessions
        /\ session' = Append(session, [client |-> who[r], until |-> clock + SessionTTL])
        /\ created' = Append(created, [time |-> clock, lastUsed |-> clock])
        /\ madeInWindow' = [madeInWindow EXCEPT ![who[r]] = @ + 1]
     \/ UNCHANGED <<session, created, madeInWindow>>
  /\ UNCHANGED <<clock, rate, accepted>>

-----------------------------------------------------------------------------
\* ValidateAndRenewSession.

\* verifyCookie: the signature is the service's own, so that the cookie is one it has made.
\* Mutant: the time of the cookie is not looked at.
CookieSigned(s) == TRUE
CookieFresh(s) == clock - created[s].time <= CookieAge

\* A failing GET, an expired key, and a session of another client refuse the request.
Validate(r, c, s) ==
  /\ at[r] = "away" /\ CookieFresh(s) /\ Live(session[s]) /\ session[s].client = c
  /\ held' = [held EXCEPT ![r] = s] /\ Goto(r, "renew")
  /\ UNCHANGED <<clock, rate, session, who, created, madeInWindow, accepted>>

\* SET writes the key anew; a failure is only logged.
Renew(r) ==
  LET s == held[r] IN
  /\ at[r] = "renew" /\ Return(r)
  /\ \/ /\ session' = [session EXCEPT ![s].until = clock + SessionTTL]
        /\ created' = [created EXCEPT ![s].lastUsed = clock]
     \/ UNCHANGED <<session, created>>
  /\ accepted' = [session |-> s, age |-> clock - created[s].time, idle |-> clock - created[s].lastUsed]
  /\ UNCHANGED <<clock, rate, madeInWindow>>

Tick ==
  /\ clock < MaxTime /\ \A r \in Request : at[r] = "away"
  /\ clock' = clock + 1
  /\ UNCHANGED <<rate, session, at, who, held, created, madeInWindow, accepted>>

Next ==
  \/ \E r \in Request : \/ \E c \in Client : \/ CountPage(r, c)
                                             \/ \E s \in 1 .. Len(session) : Validate(r, c, s)
                        \/ Expire(r) \/ StoreSession(r) \/ Renew(r)
  \/ Tick

-----------------------------------------------------------------------------
\* Renewal does not keep a session for ever: an accepted one was signed at most CookieAge ago and was
\* never left alone for SessionTTL, and a client gets at most MaxPerWindow of them while its counter
\* lives, however its requests overlap.
SessionsBounded ==
  /\ accepted # None => accepted.age <= CookieAge /\ accepted.idle < SessionTTL
  /\ \A c \in Client : Live(rate[c]) => madeInWindow[c] <= MaxPerWindow
=============================================================================
