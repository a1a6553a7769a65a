----------------------------- MODULE TokenCache -----------------------------
(***************************************************************************)
(* The token service over its three stores: the hot cache in memory (an    *)
(* LRU list with an index), the warm cache in Redis, and the database.     *)
(* service/token_service.go, cache_service.go,                             *)
(* repository/token_repository.go.                                         *)
(*                                                                         *)
(* A record of a token is its number in hist[t]. The clock advances only   *)
(* between calls: a call or a queued write lasts at most seconds (every    *)
(* one has a timeout), the TTLs are minutes.                               *)
(***************************************************************************)
EXTENDS Integers, Sequences, FiniteSets, SequencesExt, FiniteSetsExt

CONSTANTS Token,
          Managed,    \* the tokens the administrator creates, updates and deletes
          Reader, Admin,
          HotMax,     \* TOKEN_CACHE_HOT_SIZE
          HotTTL,     \* hit while the item's age is at most HotTTL
          WarmTTL,    \* Redis expiry
          QueueSize,  \* CACHE_WRITE_POOL_QUEUE_SIZE
          Expiry,     \* expiry times a record may be given
          Environments, \* what the environment may do in a behaviour, see env
          MaxVersion, \* bound: records of all tokens
          MaxTime,    \* bound: ticks
          None

VARIABLES now, hist, answer,
          hot,        \* hotCache: [Token -> item or None]
          lru,        \* lruList, most recent first; its set is lruMap's domain
          warm,       \* Redis: [Token -> item or None]
          pending,    \* accepted writes of the warm cache that have not run yet
          pc, tok, got,
          env,        \* what may happen in this behaviour: time passes, the
                      \* caches are cleared, Redis, the database or the quota service fails
          overlap     \* ghost: tokens changed while somebody else was at work on them, or by halves

register == <<now, hist, answer>>
caches   == <<hot, lru, warm>>
calls    == <<pc, tok, got>>
vars     == <<register, caches, pending, calls, env, overlap>>

Register == INSTANCE TokenRegister WITH Window <- HotTTL + WarmTTL, Faulty <- \E e \in Environments : "db" \in e
Granted(t, v) == Register!Granted(t, v)

Never == Register!Ever

\* Every behaviour ends before Never, the expiry of a token that has none.
ASSUME TokenCacheAssumption ==
  /\ HotMax \in Nat \ {0} /\ QueueSize \in Nat \ {0} /\ HotTTL \in Nat /\ WarmTTL \in Nat \ {0}
  /\ Managed \subseteq Token /\ None \notin Token /\ Reader \cap Admin = {}
  /\ None \notin [version : Nat, at : Nat]
  /\ Expiry \subseteq Int /\ Never \in Expiry /\ MaxTime \in Nat /\ MaxTime < Never

\* Bounds: finitely many tokens and calls, and at least one record of each token.
ASSUME TokensFit ==
  /\ IsFiniteSet(Token) /\ IsFiniteSet(Reader) /\ IsFiniteSet(Admin)
  /\ MaxVersion \in Nat /\ Cardinality(Token) <= MaxVersion

Call == Reader \cup Admin
Item(v) == [version |-> v, at |-> now]
Latest(t) == Len(hist[t])
IsExpired(t, v) == now > hist[t][v].expires
Active(t) == Latest(t) > 0 /\ hist[t][Latest(t)].active

Init ==
  /\ now = 0
  /\ \E present \in SUBSET Token : Token \ Managed \subseteq present /\
       hist = [t \in Token |-> IF t \in present THEN <<[active |-> TRUE, expires |-> Never, until |-> Never]>> ELSE <<>>]
  /\ answer = [c \in Reader |-> Register!Nothing]
  /\ hot = [t \in Token |-> None] /\ lru = <<>> /\ warm = [t \in Token |-> None]
  /\ pending = {}
  /\ pc = [c \in Call |-> "idle"] /\ tok = [c \in Call |-> None] /\ got = [c \in Call |-> None]
  /\ env \in Environments /\ overlap = {}

-----------------------------------------------------------------------------
\* The hot cache. Each operator gives the new list and the new map.

Place(l, t)    == CHOOSE i \in DOMAIN l : l[i] = t
Without(l, t)  == IF Contains(l, t) THEN RemoveAt(l, Place(l, t)) ELSE l
ToFront(l, t)  == <<t>> \o Without(l, t)
HotSize        == Cardinality({t \in Token : hot[t] # None})

\* evictLRU: the tail of the list leaves both.
EvictLRU(l, m) ==
  IF l = <<>> THEN [list |-> l, map |-> m]
  ELSE [list |-> Front(l), map |-> [m EXCEPT ![l[Len(l)]] = None]]

SetHot(t, v) ==
  LET known == Contains(lru, t)
      room  == IF ~known /\ HotSize >= HotMax THEN EvictLRU(lru, hot) ELSE [list |-> lru, map |-> hot]
  IN /\ lru' = ToFront(room.list, t)
     /\ hot' = [room.map EXCEPT ![t] = Item(v)]

\* Mutants: the element is moved although it has left; an item never ages; Redis is forgotten.
TouchedBlindly(t) == ToFront(lru, t)
HotHitAnyAge(t)   == hot[t] # None
DropNothing(t)    == UNCHANGED warm

\* The second half of GetHot: the lock was released after the item was read.
Touched(t)     == IF Contains(lru, t) THEN ToFront(lru, t) ELSE lru
HotHit(t)      == hot[t] # None /\ now - hot[t].at <= HotTTL
WarmHit(t)     == warm[t] # None /\ now < warm[t].at + WarmTTL
DropHot(t)     == lru' = Without(lru, t) /\ hot' = [hot EXCEPT ![t] = None]
DropWarm(t)    == warm' = [warm EXCEPT ![t] = None]

At(c, where)   == pc[c] = where
Goto(c, where) == pc' = [pc EXCEPT ![c] = where] /\ UNCHANGED <<tok, answer>>
With(c, v)     == got' = [got EXCEPT ![c] = v]
End(c)         == /\ pc' = [pc EXCEPT ![c] = "idle"] /\ tok' = [tok EXCEPT ![c] = None]
                  /\ With(c, None)
Reply(c, a)    == answer' = [answer EXCEPT ![c] = a] /\ End(c)
Done(c)        == UNCHANGED answer /\ End(c)
Begin(c, t, where) ==
  /\ At(c, "idle") /\ pc' = [pc EXCEPT ![c] = where] /\ tok' = [tok EXCEPT ![c] = t]
  /\ answer' = [r \in Reader |-> IF r = c THEN Register!Nothing ELSE answer[r]]

\* Somebody who may write a record of t into a cache, or is on the way to one.
AtWork(t) == {c \in Call : tok[c] = t}
Writing(t) == {k \in pending : k.token = t}
Changing  == {"reread", "quota", "unhot", "unwarm"}
\* t is between a change of its row and the end of the invalidation.
Dirty(t)  == \E c \in Admin : pc[c] \in Changing /\ tok[c] = t

-----------------------------------------------------------------------------
\* ValidateToken.

ValidateToken(c, t) ==
  /\ c \in Reader /\ Begin(c, t, "hot")
  /\ overlap' = overlap \cup {x \in {t} : Dirty(t)}
  /\ UNCHANGED <<now, hist, caches, pending, got, env>>

GetHot(c) ==
  /\ At(c, "hot")
  /\ IF HotHit(tok[c])
     THEN With(c, hot[tok[c]].version) /\ Goto(c, "touch")
     ELSE Goto(c, "warm") /\ UNCHANGED got
  /\ UNCHANGED <<now, hist, caches, pending, overlap, env>>

\* A record from a cache is answered, or removed when it has expired.
Judge(c) ==
  IF IsExpired(tok[c], got[c])
  THEN Goto(c, "unhot") /\ UNCHANGED got
  ELSE Reply(c, Granted(tok[c], got[c]))

Touch(c) ==
  /\ At(c, "touch")
  /\ lru' = Touched(tok[c]) /\ Judge(c)
  /\ UNCHANGED <<now, hist, hot, warm, pending, overlap, env>>

\* A miss, an error and a record that does not parse all lead to the database.
GetWarm(c) ==
  /\ At(c, "warm")
  /\ \/ WarmHit(tok[c]) /\ With(c, warm[tok[c]].version) /\ Goto(c, "promote")
     \/ (~WarmHit(tok[c]) \/ "redis" \in env) /\ Goto(c, "db") /\ UNCHANGED got
  /\ UNCHANGED <<now, hist, caches, pending, overlap, env>>

Promote(c) ==
  /\ At(c, "promote")
  /\ SetHot(tok[c], got[c]) /\ Judge(c)
  /\ UNCHANGED <<now, hist, warm, pending, overlap, env>>

GetByToken(c) ==
  /\ At(c, "db")
  /\ IF Active(tok[c]) /\ ~IsExpired(tok[c], Latest(tok[c]))
     THEN With(c, Latest(tok[c])) /\ Goto(c, "fill")
     ELSE Reply(c, Register!Denied)
  /\ UNCHANGED <<now, hist, caches, pending, overlap, env>>

GetByTokenFails(c) ==
  /\ At(c, "db") /\ "db" \in env
  /\ Reply(c, Register!Failed)
  /\ UNCHANGED <<now, hist, caches, pending, overlap, env>>

\* SetHot of ValidateToken's last part and of CreateToken.
Fill(c) ==
  /\ At(c, "fill")
  /\ SetHot(tok[c], got[c]) /\ Goto(c, "submit")
  /\ UNCHANGED <<now, hist, warm, pending, got, overlap, env>>

-----------------------------------------------------------------------------
\* The write pool as its callers see it (CacheWritePool is the pool itself): Submit accepts a
\* write or gives up, because the queue stays full or the pool is closed; the workers run what was
\* accepted, several at a time and so in any order.

Task(c) == [token |-> tok[c], version |-> got[c]]

\* The caller goes on whatever Submit returns.
Submitted(c) == IF c \in Reader THEN Reply(c, Granted(tok[c], got[c])) ELSE Done(c)

\* Mutant: nothing bounds the queue.
SubmitAnyway(c) ==
  /\ At(c, "submit")
  /\ pending' = pending \cup {Task(c)}
  /\ Submitted(c)
  /\ UNCHANGED <<now, hist, caches, overlap, env>>

Submit(c) ==
  /\ At(c, "submit")
  /\ pending' \in {pending} \cup {x \in {pending \cup {Task(c)}} : Cardinality(x) <= QueueSize}
  /\ Submitted(c)
  /\ UNCHANGED <<now, hist, caches, overlap, env>>

\* SetWarm in a worker; Redis may fail, or the pool is shut down with the write in its queue.
RunTask(k) ==
  /\ pending' = pending \ {k}
  /\ \/ warm' = [warm EXCEPT ![k.token] = Item(k.version)]
     \/ "redis" \in env /\ UNCHANGED warm
  /\ UNCHANGED <<register, hot, lru, calls, overlap, env>>

-----------------------------------------------------------------------------
\* CreateToken, UpdateToken, DeleteToken, ClearCache. A call begins with its first statement.

\* The row of t becomes r: whoever is at work on t may hold the record before.
Change(c, t, r) ==
  /\ Register!Supersede(t, r)
  /\ overlap' = overlap \cup {x \in {t} : AtWork(t) \ {c} # {} \/ Writing(t) # {}}

NewRow(e) == [active |-> TRUE, expires |-> e, until |-> Never]

\* The records there are, and those on the way.
Used == SumFunctionOnSet([t \in Token |-> Latest(t)], Token) + Cardinality({c \in Call : At(c, "write")})
Room == Used < MaxVersion

CreateToken(c, t) ==
  /\ Room
  /\ Begin(c, t, "fill") /\ hist[t] = <<>>
  /\ \E e \in Expiry : Change(c, t, NewRow(e))
  /\ With(c, 1)
  /\ UNCHANGED <<now, caches, pending, env>>

\* Update first looks for the active row; no row or an error ends the call.
UpdateToken(c, t) ==
  /\ Room
  /\ Begin(c, t, "write") /\ Active(t)
  /\ overlap' = overlap \cup {x \in {t} : Dirty(t)}
  /\ UNCHANGED <<now, hist, caches, pending, got, env>>

\* UPDATE ... WHERE is_active = 1: a row deleted meanwhile stays as it is.
UpdateRow(c) ==
  /\ At(c, "write") /\ Goto(c, "reread")
  /\ IF Active(tok[c])
     THEN \E e \in Expiry : Change(c, tok[c], NewRow(e))
     ELSE UNCHANGED <<hist, overlap>>
  /\ UNCHANGED <<now, caches, pending, got, env>>

UpdateRowFails(c) ==
  /\ At(c, "write") /\ "db" \in env
  /\ Done(c)
  /\ UNCHANGED <<now, hist, caches, pending, overlap, env>>

\* Reading the row again; a request with a quota operation goes on to UpdateQuota.
Reread(c) ==
  /\ At(c, "reread")
  /\ \E next \in {"quota", "unhot"} : Goto(c, next)
  /\ UNCHANGED <<now, hist, caches, pending, got, overlap, env>>

QuotaUpdated(c) ==
  /\ At(c, "quota") /\ Goto(c, "unhot")
  /\ UNCHANGED <<now, hist, caches, pending, got, overlap, env>>

\* Either failure returns before the caches are cleared.
ReturnsEarly(c) ==
  /\ \/ At(c, "reread") /\ "db" \in env
     \/ At(c, "quota") /\ "quota" \in env
  /\ Done(c) /\ overlap' = overlap \cup {tok[c]}
  /\ UNCHANGED <<now, hist, caches, pending, env>>

\* UPDATE ... SET is_active = 0; a row that is inactive already counts as missing.
DeleteToken(c, t) ==
  /\ Room
  /\ Begin(c, t, "unhot") /\ Active(t)
  /\ Change(c, t, [hist[t][Latest(t)] EXCEPT !.active = FALSE])
  /\ UNCHANGED <<now, caches, pending, got, env>>

\* CacheService.Delete, which a validation also calls for an expired record.
DeleteHot(c) ==
  /\ At(c, "unhot")
  /\ DropHot(tok[c]) /\ Goto(c, "unwarm")
  /\ UNCHANGED <<now, hist, warm, pending, got, overlap, env>>

DeleteWarm(c) ==
  /\ At(c, "unwarm")
  /\ \/ DropWarm(tok[c]) /\ UNCHANGED overlap
     \/ "redis" \in env /\ UNCHANGED warm /\ overlap' = overlap \cup {tok[c]}
  /\ IF c \in Reader THEN Reply(c, Register!Denied) ELSE Done(c)
  /\ UNCHANGED <<now, hist, hot, lru, pending, env>>

\* ClearAll: the maps and the list are new, then KEYS and DEL of what it found.
ClearAll(c) ==
  /\ "clear" \in env /\ Begin(c, None, "keys")
  /\ hot' = [t \in Token |-> None] /\ lru' = <<>>
  /\ UNCHANGED <<now, hist, warm, pending, got, overlap, env>>

Keys(c) ==
  /\ At(c, "keys")
  /\ \/ With(c, {t \in Token : WarmHit(t)}) /\ Goto(c, "del")
     \/ "redis" \in env /\ Done(c)
  /\ UNCHANGED <<now, hist, caches, pending, overlap, env>>

DelKeys(c) ==
  /\ At(c, "del") /\ Done(c)
  /\ \/ warm' = [t \in Token |-> IF t \in got[c] THEN None ELSE warm[t]]
     \/ "redis" \in env /\ UNCHANGED warm
  /\ UNCHANGED <<now, hist, hot, lru, pending, overlap, env>>

-----------------------------------------------------------------------------
\* Time.

Quiet == /\ \A c \in Call : pc[c] = "idle"
         /\ pending = {}

Tick ==
  /\ "time" \in env /\ now < MaxTime /\ Quiet
  /\ now' = now + 1
  /\ UNCHANGED <<hist, answer, caches, pending, calls, overlap, env>>

\* cleanup: every minute the list is walked from its tail and expired items leave.
InOrder(S) == CHOOSE p \in [1 .. Cardinality(S) -> S] : \A i, j \in DOMAIN p : i < j => p[i] < p[j]
Cleanup ==
  /\ LET stay == {i \in DOMAIN lru : HotHit(lru[i])}
         kept == InOrder(stay)
     IN /\ stay # DOMAIN lru
        /\ lru' = [i \in DOMAIN kept |-> lru[kept[i]]]
        /\ hot' = [t \in Token |-> IF \E i \in DOMAIN lru \ stay : lru[i] = t THEN None ELSE hot[t]]
  /\ UNCHANGED <<register, warm, pending, calls, overlap, env>>

ReaderStep(c) ==
  \/ GetHot(c) \/ Touch(c) \/ GetWarm(c) \/ Promote(c) \/ GetByToken(c) \/ GetByTokenFails(c)
CallStep(c) ==
  \/ Fill(c) \/ Submit(c) \/ UpdateRow(c) \/ UpdateRowFails(c) \/ Reread(c) \/ QuotaUpdated(c)
  \/ ReturnsEarly(c) \/ DeleteHot(c) \/ DeleteWarm(c) \/ Keys(c) \/ DelKeys(c)

Next ==
  \/ \E c \in Reader : (\E t \in Token : ValidateToken(c, t)) \/ ReaderStep(c)
  \/ \E c \in Admin  : (\E t \in Managed : CreateToken(c, t) \/ UpdateToken(c, t) \/ DeleteToken(c, t)) \/ ClearAll(c)
  \/ \E c \in Call   : CallStep(c)
  \/ \E k \in pending : RunTask(k)
  \/ Tick \/ Cleanup

Spec == Init /\ [][Next]_vars

-----------------------------------------------------------------------------
Version == 1 .. MaxVersion
ItemType == [version : Version, at : 0 .. MaxTime]

\* Types of the state.
TypeOK ==
  /\ now \in 0 .. MaxTime
  /\ hot \in [Token -> ItemType \cup {None}] /\ warm \in [Token -> ItemType \cup {None}]
  /\ lru \in Seq(Token)
  /\ pending \subseteq [token : Token, version : Version] /\ Cardinality(pending) <= QueueSize
  /\ \A c \in Call : IF At(c, "del") THEN got[c] \subseteq Token ELSE got[c] \in Version \cup {None}

\* The list, the index and the map of the hot cache agree at every moment, no token is listed
\* twice and the size is bounded, although GetHot reads under one lock and moves under another.
HotAgrees ==
  /\ Range(lru) = {t \in Token : hot[t] # None}
  /\ IsInjective(lru)
  /\ Len(lru) <= HotMax

\* A cached record that is not the token's record any more needs an invalidation that is still
\* running, or one that overlapped other work on the token, failed or was skipped: without overlap
\* Update and Delete leave nothing behind in either cache.
StaleNeedsOverlap ==
  \A t \in Token : \A m \in {hot, warm} :
    m[t] # None /\ m[t].version # Latest(t) => Dirty(t) \/ t \in overlap

\* Every validation answers with the verdict on a record that was current within the last
\* HotTTL + WarmTTL, whatever failed and whatever raced: staleness is bounded.
BoundedStaleness == Register!Spec
=============================================================================
