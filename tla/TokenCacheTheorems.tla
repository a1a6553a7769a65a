-------------------------- MODULE TokenCacheTheorems --------------------------
(* The service implements TokenRegister, staleness needs an overlap, the hot *)
(* cache agrees with itself and the state has its types, for every value of  *)
(* the constants. First how old a record in a cache, in the queue or in the  *)
(* hands of a call may be, for all TTLs, tokens and calls.                   *)
EXTENDS TokenCache, SumTheorems, SequenceTheorems, TLAPS

Rec      == [active : BOOLEAN, expires : Expiry, until : Int]
Stored   == [version : Nat, at : Nat]
CallPC   == {"idle", "hot", "touch", "warm", "promote", "db", "fill", "submit", "write", "reread",
             "quota", "unhot", "unwarm", "keys", "del"}

(* What the variables hold, without the bounds of the instance.             *)
Shape ==
  /\ now \in 0 .. MaxTime
  /\ hist \in [Token -> Seq(Rec)]
  /\ answer = [r \in Reader |-> answer[r]]
  /\ hot \in [Token -> Stored \cup {None}] /\ warm \in [Token -> Stored \cup {None}]
  /\ pending \subseteq [token : Token, version : Nat]
  /\ pc \in [Call -> CallPC] /\ tok \in [Call -> Token \cup {None}]
  /\ got \in [Call -> Nat \cup {None} \cup SUBSET Token]
  /\ env \in Environments

(* Only the last record of a token has no end, and no end lies ahead.       *)
Ends ==
  \A t \in Token : \A v \in 1 .. Len(hist[t]) :
    IF v = Len(hist[t]) THEN hist[t][v].until = Never ELSE hist[t][v].until <= now

(* Record v of t was active and, at the moment m, superseded less than age ago. *)
HeldIn(h, n, t, v, m, age) ==
  /\ v \in 1 .. Len(h[t]) /\ h[t][v].active
  /\ m \in Nat /\ m <= n /\ m < h[t][v].until + age

Held(t, v, m, age) == HeldIn(hist, now, t, v, m, age)

(* An item of Redis was current when it was written; one of the hot cache   *)
(* may come from Redis and be older by its TTL.                             *)
Stocked ==
  \A t \in Token :
    /\ hot[t] # None => Held(t, hot[t].version, hot[t].at, WarmTTL)
    /\ warm[t] # None => Held(t, warm[t].version, warm[t].at, 1)

(* A queued write carries a record that was current in this tick.           *)
Queued == \A k \in pending : Held(k.token, k.version, now, 1)

(* What a call carries between two of its steps.                            *)
Carry(c) ==
  /\ pc[c] \notin {"idle", "keys", "del"} => tok[c] \in Token
  /\ pc[c] \in {"write", "reread", "quota"} => c \notin Reader
  /\ pc[c] \in {"fill", "submit"} => Held(tok[c], got[c], now, 1)
  /\ pc[c] = "promote" => Held(tok[c], got[c], now, WarmTTL)
  /\ pc[c] = "touch" => Held(tok[c], got[c], now, HotTTL + WarmTTL)
  /\ c \in Reader /\ pc[c] \in {"fill", "submit"} => ~IsExpired(tok[c], got[c])
  /\ c \in Reader /\ pc[c] \in {"unhot", "unwarm"} =>
       Held(tok[c], got[c], now, HotTTL + WarmTTL) /\ IsExpired(tok[c], got[c])

Carried == \A c \in Call : Carry(c)

Aged == Shape /\ Ends /\ Stocked /\ Queued /\ Carried

(***************************************************************************)
(* What every step but a tick does to the records: none disappears or      *)
(* changes, and one that ends, ends now.                                   *)
(***************************************************************************)
Keeps ==
  /\ now' = now
  /\ \A t \in Token : \A v \in 1 .. Len(hist[t]) :
       /\ v \in 1 .. Len(hist'[t])
       /\ hist'[t][v].active = hist[t][v].active
       /\ hist'[t][v].expires = hist[t][v].expires
       /\ hist'[t][v].until \in {hist[t][v].until, now}

(* Everybody but d stays where it is.                                       *)
Alone(d) ==
  \A c \in Call \ {d} : pc'[c] = pc[c] /\ tok'[c] = tok[c] /\ got'[c] = got[c]

(* A step that leaves the records and the clock alone.                      *)
LEMMA SameKeeps == ASSUME UNCHANGED <<now, hist>> PROVE Keeps
BY DEF Keeps

(* A token's next record: one more, and the last one ends now.              *)
LEMMA Superseded ==
  ASSUME Shape, NEW t \in Token, NEW r \in Rec, Register!Supersede(t, r)
  PROVE  /\ hist' \in [Token -> Seq(Rec)]
         /\ Len(hist'[t]) = Len(hist[t]) + 1 /\ hist'[t][Len(hist[t]) + 1] = r
         /\ \A x \in Token \ {t} : hist'[x] = hist[x]
         /\ \A v \in 1 .. Len(hist[t]) :
              hist'[t][v] = IF v = Len(hist[t]) THEN [hist[t][v] EXCEPT !.until = now] ELSE hist[t][v]
<1> DEFINE n == Len(hist[t])
           old == IF n = 0 THEN <<>> ELSE [hist[t] EXCEPT ![n].until = now]
<1>1. hist[t] \in Seq(Rec) /\ n \in Nat /\ now \in Int
  BY DEF Shape
<1>2. hist' = [hist EXCEPT ![t] = Append(old, r)]
  BY DEF Register!Supersede
<1>3. /\ old \in Seq(Rec) /\ Len(old) = n
      /\ \A v \in 1 .. n : old[v] = IF v = n THEN [hist[t][v] EXCEPT !.until = now] ELSE hist[t][v]
  <2>1. CASE n = 0
    BY <2>1, <1>1
  <2>2. CASE n > 0
    <3>1. old = [hist[t] EXCEPT ![n] = [hist[t][n] EXCEPT !.until = now]]
      BY <2>2
    <3>2. hist[t][n] \in Rec
      BY <2>2, <1>1
    <3>3. [hist[t][n] EXCEPT !.until = now] \in Rec
      BY <3>2, <1>1 DEF Rec
    <3> HIDE DEF old
    <3> QED
      BY <3>1, <3>2, <3>3, <2>2, <1>1
  <2> QED
    BY <1>1, <2>1, <2>2
<1> HIDE DEF old
<1>4. hist'[t] = Append(old, r) /\ \A x \in Token \ {t} : hist'[x] = hist[x]
  BY <1>2 DEF Shape
<1>5. Append(old, r) \in Seq(Rec)
  BY <1>3
<1>6. hist' \in [Token -> Seq(Rec)]
  BY <1>2, <1>5 DEF Shape
<1> QED
  BY <1>1, <1>3, <1>4, <1>6

(* A new record keeps the records and leaves one without an end.            *)
LEMMA SupersedeKeeps ==
  ASSUME Shape, Ends, NEW t \in Token, NEW r \in Rec, r.until = Never, Register!Supersede(t, r),
         now' = now
  PROVE  Keeps /\ Ends'
<1>1. /\ \A x \in Token : Len(hist[x]) \in Nat /\ \A v \in 1 .. Len(hist[x]) : hist[x][v] \in Rec
      /\ now \in Int
  BY DEF Shape
<1>2. \A v \in 1 .. Len(hist[t]) :
        /\ hist'[t][v].active = hist[t][v].active /\ hist'[t][v].expires = hist[t][v].expires
        /\ hist'[t][v].until = IF v = Len(hist[t]) THEN now ELSE hist[t][v].until
  <2> SUFFICES ASSUME NEW v \in 1 .. Len(hist[t])
               PROVE  /\ hist'[t][v].active = hist[t][v].active
                      /\ hist'[t][v].expires = hist[t][v].expires
                      /\ hist'[t][v].until = IF v = Len(hist[t]) THEN now ELSE hist[t][v].until
    OBVIOUS
  <2>1. hist[t][v] \in Rec
    BY <1>1
  <2>2. hist'[t][v] = IF v = Len(hist[t]) THEN [hist[t][v] EXCEPT !.until = now] ELSE hist[t][v]
    BY Superseded
  <2> QED
    BY <2>1, <2>2 DEF Rec
<1>3. Keeps
  <2>1. ASSUME NEW x \in Token, NEW v \in 1 .. Len(hist[x])
        PROVE  /\ v \in 1 .. Len(hist'[x])
               /\ hist'[x][v].active = hist[x][v].active
               /\ hist'[x][v].expires = hist[x][v].expires
               /\ hist'[x][v].until \in {hist[x][v].until, now}
    <3>1. CASE x = t
      BY <3>1, <1>1, <1>2, Superseded
    <3>2. CASE x # t
      BY <3>2, Superseded
    <3> QED
      BY <3>1, <3>2
  <2> QED
    BY <2>1 DEF Keeps
<1>4. Ends'
  <2>1. ASSUME NEW x \in Token, NEW v \in 1 .. Len(hist'[x])
        PROVE  IF v = Len(hist'[x]) THEN hist'[x][v].until = Never ELSE hist'[x][v].until <= now
    <3>1. CASE x = t
      BY <3>1, <1>1, <1>2, Superseded DEF Ends
    <3>2. CASE x # t
      BY <3>2, Superseded DEF Ends
    <3> QED
      BY <3>1, <3>2
  <2> QED
    BY <2>1 DEF Ends
<1> QED
  BY <1>3, <1>4

(* Records that are kept are held as before.                                *)
LEMMA HeldKept ==
  ASSUME Shape, Keeps, NEW t \in Token, NEW v, NEW m, NEW age \in Nat \ {0},
         HeldIn(hist, now, t, v, m, age)
  PROVE  HeldIn(hist', now', t, v, m, age)
<1>1. m \in Nat /\ m <= now /\ v \in 1 .. Len(hist[t]) /\ now \in Nat
  BY DEF HeldIn, Shape
<1>2. /\ v \in 1 .. Len(hist'[t]) /\ hist'[t][v].active = hist[t][v].active
      /\ hist'[t][v].until \in {hist[t][v].until, now} /\ now' = now
  BY <1>1 DEF Keeps
<1>3. m < now + age
  BY <1>1
<1> QED
  BY <1>1, <1>2, <1>3 DEF HeldIn

(* A record held for age at m is held for longer later on.                  *)
LEMMA HeldLonger ==
  ASSUME Shape, NEW t \in Token, NEW v, NEW m, NEW age \in Nat, NEW more \in Nat,
         HeldIn(hist, now, t, v, m, age), now - m <= more
  PROVE  HeldIn(hist, now, t, v, now, more + age)
<1>1. hist[t][v] \in Rec /\ now \in Nat /\ m \in Nat
  BY DEF Shape, HeldIn
<1>2. hist[t][v].until \in Int
  BY <1>1 DEF Rec
<1> QED
  BY <1>1, <1>2 DEF HeldIn

(* and neither their age nor their expiry changes.                          *)
LEMMA ExpiryKept ==
  ASSUME Keeps, NEW t \in Token, NEW v \in 1 .. Len(hist[t])
  PROVE  IsExpired(t, v)' <=> IsExpired(t, v)
BY DEF Keeps, IsExpired

(* What a call carries it goes on to carry while others work.               *)
LEMMA CarryKept ==
  ASSUME Aged, Keeps, NEW c \in Call, pc'[c] = pc[c], tok'[c] = tok[c], got'[c] = got[c]
  PROVE  Carry(c)'
<1>1. Carry(c) /\ now' = now /\ WarmTTL \in Nat \ {0} /\ HotTTL + WarmTTL \in Nat \ {0}
  BY TokenCacheAssumption DEF Aged, Carried, Keeps
<1>2. ASSUME NEW age \in Nat \ {0}, tok[c] \in Token, HeldIn(hist, now, tok[c], got[c], now, age)
      PROVE  /\ HeldIn(hist', now', tok[c], got[c], now, age)
             /\ hist'[tok[c]][got[c]].expires = hist[tok[c]][got[c]].expires
  BY <1>2, HeldKept DEF Aged, Keeps, HeldIn
<1> QED
  BY <1>1, <1>2 DEF Carry, Held, IsExpired

(* Hence a step of d has only d to answer for.                              *)
LEMMA OthersCarry ==
  ASSUME Aged, Keeps, NEW d, Alone(d), d \in Call => Carry(d)'
  PROVE  Carried'
BY CarryKept DEF Carried, Alone

(* A step that only adds held records to the caches and to the queue.       *)
LEMMA StockKept ==
  ASSUME Aged, Keeps,
         \A t \in Token : hot'[t] \in {hot[t], None} \/ HeldIn(hist', now', t, hot'[t].version, hot'[t].at, WarmTTL),
         \A t \in Token : warm'[t] \in {warm[t], None} \/ HeldIn(hist', now', t, warm'[t].version, warm'[t].at, 1)
  PROVE  Stocked'
<1>1. WarmTTL \in Nat \ {0} /\ Shape /\ Stocked
  BY TokenCacheAssumption DEF Aged
<1> QED
  BY <1>1, HeldKept DEF Stocked, Held

(* A step that adds only current records to the queue.                       *)
LEMMA QueueKept ==
  ASSUME Aged, Keeps, \A k \in pending' \ pending : HeldIn(hist', now', k.token, k.version, now, 1)
  PROVE  Queued'
<1>1. Shape /\ now' = now /\ \A k \in pending : k.token \in Token /\ HeldIn(hist, now, k.token, k.version, now, 1)
  BY DEF Aged, Shape, Queued, Held, Keeps
<1> QED
  BY <1>1, HeldKept DEF Queued, Held

(***************************************************************************)
(* The steps of a call, one lemma each.                                    *)
(***************************************************************************)

(* A step of c that leaves the records, the caches and the queue alone.     *)
LEMMA QuietStep ==
  ASSUME Aged, NEW c \in Call, UNCHANGED <<now, hist, hot, warm, pending>>, Shape', Alone(c), Carry(c)'
  PROVE  Aged'
<1>1. Keeps /\ Ends'
  BY SameKeeps DEF Aged, Ends
<1>2. Stocked' /\ Queued'
  BY <1>1, StockKept, QueueKept
<1>3. Carried'
  BY <1>1, OthersCarry
<1> QED
  BY <1>1, <1>2, <1>3 DEF Aged

(* An item goes into the hot cache, at most one other leaves it.            *)
LEMMA SetHotIs ==
  ASSUME Shape, NEW t \in Token, NEW v \in Nat, SetHot(t, v)
  PROVE  /\ hot' \in [Token -> Stored \cup {None}]
         /\ hot'[t] = Item(v)
         /\ \A x \in Token \ {t} : hot'[x] \in {hot[x], None}
<1>1. Item(v) \in Stored
  BY DEF Shape, Item, Stored
<1>2. PICK m \in [Token -> Stored \cup {None}] :
        /\ hot' = [m EXCEPT ![t] = Item(v)]
        /\ \A x \in Token : m[x] \in {hot[x], None}
  <2>1. CASE ~Contains(lru, t) /\ HotSize >= HotMax /\ lru # <<>>
    <3> DEFINE m == [hot EXCEPT ![lru[Len(lru)]] = None]
    <3>1. hot' = [m EXCEPT ![t] = Item(v)]
      BY <2>1 DEF SetHot, EvictLRU
    <3>2. m \in [Token -> Stored \cup {None}] /\ \A x \in Token : m[x] \in {hot[x], None}
      BY DEF Shape
    <3> QED
      BY <3>1, <3>2
  <2>2. CASE ~(~Contains(lru, t) /\ HotSize >= HotMax /\ lru # <<>>)
    <3>1. hot' = [hot EXCEPT ![t] = Item(v)]
      BY <2>2 DEF SetHot, EvictLRU
    <3> QED
      BY <3>1 DEF Shape
  <2> QED
    BY <2>1, <2>2
<1> QED
  BY <1>1, <1>2

(* A validation begins with nothing.                                         *)
LEMMA ValidateTokenAged ==
  ASSUME Aged, NEW c \in Reader, NEW t \in Token, ValidateToken(c, t)
  PROVE  Aged'
<1> USE DEF ValidateToken, Begin, caches
<1>1. Shape'
  BY DEF Aged, Shape, Call, CallPC
<1>2. Alone(c) /\ pc'[c] = "hot" /\ tok'[c] = t
  BY DEF Aged, Shape, Call, Alone
<1> QED
  BY <1>1, <1>2, QuietStep DEF Carry, Call

(* The record that the hot cache gives is held.                              *)
LEMMA GetHotAged ==
  ASSUME Aged, NEW c \in Reader, GetHot(c)
  PROVE  Aged'
<1> USE DEF GetHot, Goto, With, caches
<1> DEFINE t == tok[c]
<1>1. t \in Token /\ c \in Call /\ Alone(c) /\ UNCHANGED <<now, hist, tok, hot, warm, pending>>
  BY DEF Aged, Carried, Carry, At, Call, Alone, Shape
<1>2. CASE HotHit(t)
  <2>1. hot[t] \in Stored /\ Held(t, hot[t].version, hot[t].at, WarmTTL) /\ now - hot[t].at <= HotTTL
    BY <1>1, <1>2 DEF HotHit, Aged, Stocked, Shape
  <2>2. Held(t, hot[t].version, now, HotTTL + WarmTTL)
    BY <2>1, <1>1, HeldLonger, TokenCacheAssumption DEF Held, Aged, Shape, Stored
  <2>3. pc'[c] = "touch" /\ got'[c] = hot[t].version /\ Shape'
    BY <1>1, <1>2, <2>1 DEF Aged, Shape, CallPC, Stored
  <2> QED
    BY <1>1, <2>2, <2>3, QuietStep DEF Carry, Held
<1>3. CASE ~HotHit(t)
  <2>1. pc'[c] = "warm" /\ Shape'
    BY <1>1, <1>3 DEF Aged, Shape, CallPC
  <2> QED
    BY <1>1, <2>1, QuietStep DEF Carry
<1> QED
  BY <1>2, <1>3

(* Judge ends the call with an answer or sends it to remove an old record.  *)
LEMMA JudgeIs ==
  ASSUME Aged, NEW c \in Reader, Judge(c), UNCHANGED <<now, hist>>, tok[c] \in Token,
         Held(tok[c], got[c], now, HotTTL + WarmTTL)
  PROVE  /\ pc' \in [Call -> CallPC] /\ tok' \in [Call -> Token \cup {None}]
         /\ got' \in [Call -> Nat \cup {None} \cup SUBSET Token]
         /\ answer' = [r \in Reader |-> answer'[r]]
         /\ Alone(c) /\ Carry(c)'
<1> USE DEF Judge, Goto, Reply, End, With
<1>1. c \in Call /\ Shape
  BY DEF Aged, Call
<1>2. CASE IsExpired(tok[c], got[c])
  <2>1. pc' = [pc EXCEPT ![c] = "unhot"] /\ UNCHANGED <<tok, answer, got>>
    BY <1>2
  <2>2. pc'[c] = "unhot" /\ Alone(c)
    BY <1>1, <2>1 DEF Alone, Shape
  <2>3. Carry(c)'
    BY <1>2, <2>1, <2>2 DEF Carry, Held, IsExpired
  <2> QED
    BY <1>1, <2>1, <2>2, <2>3 DEF Shape, CallPC
<1>3. CASE ~IsExpired(tok[c], got[c])
  <2>1. /\ pc' = [pc EXCEPT ![c] = "idle"] /\ tok' = [tok EXCEPT ![c] = None]
        /\ got' = [got EXCEPT ![c] = None]
        /\ answer' = [answer EXCEPT ![c] = Granted(tok[c], got[c])]
    BY <1>3
  <2>2. pc'[c] = "idle" /\ Alone(c)
    BY <1>1, <2>1 DEF Alone, Shape
  <2>3. Carry(c)'
    BY <2>2 DEF Carry
  <2>4. answer' = [r \in Reader |-> answer'[r]]
    BY <1>1, <2>1 DEF Shape
  <2> QED
    BY <1>1, <2>1, <2>2, <2>3, <2>4 DEF Shape, CallPC
<1> QED
  BY <1>2, <1>3

(* The move to the front carries on what was read.                           *)
LEMMA TouchAged ==
  ASSUME Aged, NEW c \in Reader, Touch(c)
  PROVE  Aged'
<1>1. /\ Judge(c) /\ UNCHANGED <<now, hist, hot, warm, pending, env>>
      /\ tok[c] \in Token /\ Held(tok[c], got[c], now, HotTTL + WarmTTL) /\ c \in Call
  BY DEF Touch, At, Aged, Carried, Carry, Call
<1>2. Alone(c) /\ Carry(c)' /\ Shape'
  BY <1>1, JudgeIs DEF Aged, Shape
<1> QED
  BY <1>1, <1>2, QuietStep

(* The record that Redis gives is held.                                      *)
LEMMA GetWarmAged ==
  ASSUME Aged, NEW c \in Reader, GetWarm(c)
  PROVE  Aged'
<1> USE DEF GetWarm, Goto, With, caches
<1> DEFINE t == tok[c]
<1>1. t \in Token /\ c \in Call /\ Alone(c) /\ UNCHANGED <<now, hist, tok, hot, warm, pending>>
  BY DEF Aged, Carried, Carry, At, Call, Alone, Shape
<1>2. CASE WarmHit(t) /\ With(c, warm[t].version) /\ Goto(c, "promote")
  <2>1. warm[t] \in Stored /\ Held(t, warm[t].version, warm[t].at, 1) /\ now - warm[t].at <= WarmTTL - 1
    BY <1>1, <1>2, TokenCacheAssumption DEF WarmHit, Aged, Stocked, Shape, Stored
  <2>2. Held(t, warm[t].version, now, WarmTTL)
    <3>1. WarmTTL - 1 \in Nat /\ (WarmTTL - 1) + 1 = WarmTTL
      BY TokenCacheAssumption
    <3>2. HeldIn(hist, now, t, warm[t].version, now, (WarmTTL - 1) + 1)
      BY <2>1, <1>1, <3>1, HeldLonger DEF Held, Aged
    <3> QED
      BY <3>1, <3>2 DEF Held
  <2>3. pc'[c] = "promote" /\ got'[c] = warm[t].version /\ Shape'
    BY <1>1, <1>2, <2>1 DEF Aged, Shape, CallPC, Stored
  <2> QED
    BY <1>1, <2>2, <2>3, QuietStep DEF Carry, Held
<1>3. CASE Goto(c, "db") /\ UNCHANGED got
  <2>1. pc'[c] = "db" /\ Shape'
    BY <1>1, <1>3 DEF Aged, Shape, CallPC
  <2> QED
    BY <1>1, <2>1, QuietStep DEF Carry
<1> QED
  BY <1>2, <1>3

(* SetHot of a held record keeps the caches stocked with held records.      *)
LEMMA SetHotStocked ==
  ASSUME Aged, NEW t \in Token, NEW v, SetHot(t, v), Held(t, v, now, WarmTTL),
         UNCHANGED <<now, hist, warm>>
  PROVE  hot' \in [Token -> Stored \cup {None}] /\ Stocked'
<1>1. Shape /\ v \in Nat
  BY DEF Aged, Held, HeldIn, Shape
<1>2. /\ hot' \in [Token -> Stored \cup {None}] /\ hot'[t] = Item(v)
      /\ \A x \in Token \ {t} : hot'[x] \in {hot[x], None}
  BY <1>1, SetHotIs
<1>3. HeldIn(hist', now', t, hot'[t].version, hot'[t].at, WarmTTL)
  BY <1>2 DEF Item, Held
<1>4. Stocked'
  BY <1>2, <1>3, SameKeeps, StockKept
<1> QED
  BY <1>2, <1>4

(* A promoted record is held for another HotTTL.                             *)
LEMMA PromoteAged ==
  ASSUME Aged, NEW c \in Reader, Promote(c)
  PROVE  Aged'
<1>1. /\ SetHot(tok[c], got[c]) /\ Judge(c) /\ UNCHANGED <<now, hist, warm, pending, env>>
      /\ tok[c] \in Token /\ Held(tok[c], got[c], now, WarmTTL)
      /\ c \in Call /\ now - now <= HotTTL /\ now \in Nat
  BY TokenCacheAssumption DEF Promote, At, Aged, Carried, Carry, Call, Shape
<1>2. Held(tok[c], got[c], now, HotTTL + WarmTTL)
  BY <1>1, HeldLonger, TokenCacheAssumption DEF Held, Aged
<1>3. Keeps /\ Ends'
  BY <1>1, SameKeeps DEF Aged, Ends
<1>4. hot' \in [Token -> Stored \cup {None}] /\ Stocked'
  BY <1>1, SetHotStocked
<1>5. Queued'
  BY <1>1, <1>3, QueueKept
<1>6. Alone(c) /\ Carry(c)' /\ Shape'
  BY <1>1, <1>2, <1>4, JudgeIs DEF Aged, Shape
<1>7. Carried'
  BY <1>3, <1>6, OthersCarry
<1> QED
  BY <1>3, <1>4, <1>5, <1>6, <1>7 DEF Aged

(* A call that ends carries nothing.                                        *)
LEMMA EndIs ==
  ASSUME Shape, NEW c \in Call, End(c)
  PROVE  /\ pc' \in [Call -> CallPC] /\ tok' \in [Call -> Token \cup {None}]
         /\ got' \in [Call -> Nat \cup {None} \cup SUBSET Token]
         /\ pc'[c] = "idle" /\ Alone(c) /\ Carry(c)'
<1> USE DEF End, With
<1>1. pc'[c] = "idle" /\ Alone(c)
  BY DEF Alone, Shape
<1>2. Carry(c)'
  BY <1>1 DEF Carry
<1> QED
  BY <1>1, <1>2 DEF Shape, CallPC

(* A quiet step that ends the call, with an answer or without.              *)
LEMMA EndAged ==
  ASSUME Aged, NEW c \in Call, End(c), UNCHANGED <<now, hist, hot, warm, pending, env>>,
         UNCHANGED answer \/ \E a : answer' = [answer EXCEPT ![c] = a]
  PROVE  Aged'
<1>1. answer' = [r \in Reader |-> answer'[r]]
  BY DEF Aged, Shape
<1>2. Shape'
  BY <1>1, EndIs DEF Aged, Shape
<1> QED
  BY <1>2, EndIs, QuietStep DEF Aged

(* The row is the current record, or the call ends.                          *)
LEMMA GetByTokenAged ==
  ASSUME Aged, NEW c \in Reader, GetByToken(c)
  PROVE  Aged'
<1> DEFINE t == tok[c]
<1>1. t \in Token /\ c \in Call /\ Shape /\ UNCHANGED <<now, hist, hot, warm, pending, env>>
  BY DEF Aged, Carried, Carry, At, Call, GetByToken, caches
<1>2. CASE Active(t) /\ ~IsExpired(t, Latest(t))
  <2>1. /\ pc' = [pc EXCEPT ![c] = "fill"] /\ UNCHANGED <<tok, answer>>
        /\ got' = [got EXCEPT ![c] = Latest(t)]
    BY <1>2 DEF GetByToken, With, Goto
  <2>2. Latest(t) \in Nat /\ Latest(t) \in 1 .. Len(hist[t])
    BY <1>1, <1>2 DEF Active, Latest, Shape
  <2>3. Held(t, Latest(t), now, 1)
    <3>1. hist[t][Latest(t)].until = Never /\ hist[t][Latest(t)].active /\ now \in Nat /\ now <= MaxTime
      BY <1>1, <1>2, <2>2 DEF Aged, Ends, Latest, Active, Shape
    <3>2. now < Never + 1
      BY <3>1, TokenCacheAssumption DEF Never, Register!Ever
    <3> QED
      BY <1>1, <2>2, <3>1, <3>2 DEF Held, HeldIn
  <2>4. Alone(c) /\ Shape' /\ pc'[c] = "fill" /\ got'[c] = Latest(t)
    BY <1>1, <2>1, <2>2 DEF Alone, Shape, CallPC
  <2>5. Carry(c)'
    BY <1>1, <1>2, <2>1, <2>3, <2>4 DEF Carry, Held, IsExpired
  <2> QED
    BY <1>1, <2>4, <2>5, QuietStep
<1>3. CASE Reply(c, Register!Denied)
  BY <1>1, <1>3, EndAged DEF Reply
<1> QED
  BY <1>2, <1>3 DEF GetByToken

(* A failed read ends the call.                                              *)
LEMMA GetByTokenFailsAged ==
  ASSUME Aged, NEW c \in Reader, GetByTokenFails(c)
  PROVE  Aged'
<1>1. c \in Call /\ Reply(c, Register!Failed) /\ UNCHANGED <<now, hist, hot, warm, pending, env>>
  BY DEF GetByTokenFails, Call, caches
<1> QED
  BY <1>1, EndAged DEF Reply

(* The row that was read fills the hot cache within the tick.                *)
LEMMA FillAged ==
  ASSUME Aged, NEW c \in Call, Fill(c)
  PROVE  Aged'
<1>1. /\ SetHot(tok[c], got[c]) /\ UNCHANGED <<now, hist, warm, pending, got, env, tok, answer>>
      /\ pc[c] = "fill" /\ pc' = [pc EXCEPT ![c] = "submit"]
  BY DEF Fill, Goto, At
<1>0. tok[c] \in Token /\ Held(tok[c], got[c], now, 1)
  BY <1>1 DEF Aged, Carried, Carry
<1>2. Held(tok[c], got[c], now, WarmTTL)
  <2>1. /\ now \in Nat /\ now - now <= WarmTTL - 1
        /\ WarmTTL - 1 \in Nat /\ (WarmTTL - 1) + 1 = WarmTTL
    BY TokenCacheAssumption DEF Aged, Shape
  <2>2. HeldIn(hist, now, tok[c], got[c], now, (WarmTTL - 1) + 1)
    BY <1>0, <2>1, HeldLonger DEF Held, Aged
  <2> QED
    BY <2>1, <2>2 DEF Held
<1>3. Keeps /\ Ends'
  BY <1>1, SameKeeps DEF Aged, Ends
<1>4. hot' \in [Token -> Stored \cup {None}] /\ Stocked'
  BY <1>0, <1>1, <1>2, SetHotStocked
<1>5. Queued'
  BY <1>1, <1>3, QueueKept
<1>6. Shape' /\ Alone(c) /\ pc'[c] = "submit"
  BY <1>1, <1>4 DEF Aged, Shape, CallPC, Alone
<1>7. Carry(c)'
  BY <1>0, <1>1, <1>6 DEF Aged, Carried, Carry, Held, IsExpired
<1>8. Carried'
  BY <1>3, <1>6, <1>7, OthersCarry
<1> QED
  BY <1>3, <1>4, <1>5, <1>6, <1>8 DEF Aged

(* and joins the queue, or not when the queue is full.                       *)
LEMMA SubmitAged ==
  ASSUME Aged, NEW c \in Call, Submit(c)
  PROVE  Aged'
<1>1. /\ pending' = pending \/ pending' = pending \cup {Task(c)}
      /\ UNCHANGED <<now, hist, hot, warm, env>> /\ End(c)
      /\ UNCHANGED answer \/ \E a : answer' = [answer EXCEPT ![c] = a]
  BY DEF Submit, Submitted, Reply, Done, caches
<1>2. tok[c] \in Token /\ Held(tok[c], got[c], now, 1) /\ got[c] \in Nat
  <2>1. tok[c] \in Token /\ Held(tok[c], got[c], now, 1)
    BY DEF Submit, At, Aged, Carried, Carry
  <2> QED
    BY <2>1 DEF Held, HeldIn, Aged, Shape
<1>3. Keeps /\ Ends'
  BY <1>1, SameKeeps DEF Aged, Ends
<1>4. Stocked'
  BY <1>1, <1>3, StockKept
<1>5. Queued'
  BY <1>1, <1>2, <1>3, QueueKept DEF Task, Held
<1>6. pending' \subseteq [token : Token, version : Nat]
  BY <1>1, <1>2 DEF Aged, Shape, Task
<1>7. answer' = [r \in Reader |-> answer'[r]]
  BY <1>1 DEF Aged, Shape
<1>8. Shape' /\ Alone(c) /\ Carry(c)'
  BY <1>1, <1>6, <1>7, EndIs DEF Aged, Shape
<1>9. Carried'
  BY <1>3, <1>8, OthersCarry
<1> QED
  BY <1>3, <1>4, <1>5, <1>8, <1>9 DEF Aged

(* A queued write reaches Redis, or fails.                                   *)
LEMMA RunTaskAged ==
  ASSUME Aged, NEW k \in pending, RunTask(k)
  PROVE  Aged'
<1>1. /\ pending' = pending \ {k} /\ UNCHANGED <<now, hist, answer, hot, pc, tok, got, env>>
      /\ warm' = [warm EXCEPT ![k.token] = Item(k.version)] \/ warm' = warm
  BY DEF RunTask, register, calls
<1>2. /\ k.token \in Token /\ k.version \in Nat /\ Held(k.token, k.version, now, 1)
      /\ Item(k.version) \in Stored
  BY DEF Aged, Shape, Queued, Item, Stored
<1>3. Keeps /\ Ends'
  BY <1>1, SameKeeps DEF Aged, Ends
<1>4. Stocked'
  <2>1. \A t \in Token : warm'[t] \in {warm[t], None}
                        \/ HeldIn(hist', now', t, warm'[t].version, warm'[t].at, 1)
    BY <1>1, <1>2 DEF Held, Item, Aged, Shape
  <2> QED
    BY <1>1, <1>3, <2>1, StockKept
<1>5. Queued'
  BY <1>1, <1>3, QueueKept
<1>6. Shape'
  BY <1>1, <1>2 DEF Aged, Shape
<1>7. Carried'
  BY <1>1, <1>3, CarryKept DEF Carried
<1> QED
  BY <1>3, <1>4, <1>5, <1>6, <1>7 DEF Aged

(* A call that changes a row; what it carries on is said by each caller.    *)
LEMMA ChangeAged ==
  ASSUME Aged, NEW c \in Call, NEW t \in Token, NEW r \in Rec, r.until = Never,
         Register!Supersede(t, r), UNCHANGED <<now, hot, warm, pending, env>>, Alone(c), Carry(c)',
         answer' = [x \in Reader |-> answer'[x]],
         pc' \in [Call -> CallPC], tok' \in [Call -> Token \cup {None}],
         got' \in [Call -> Nat \cup {None} \cup SUBSET Token]
  PROVE  Aged'
<1>1. Keeps /\ Ends'
  BY SupersedeKeeps DEF Aged
<1>2. hist' \in [Token -> Seq(Rec)]
  BY Superseded DEF Aged
<1>3. Stocked' /\ Queued'
  BY <1>1, StockKept, QueueKept
<1>4. Carried'
  BY <1>1, OthersCarry
<1>5. Shape'
  BY <1>2 DEF Aged, Shape
<1> QED
  BY <1>1, <1>3, <1>4, <1>5 DEF Aged

(* The records of an administrator.                                         *)
LEMMA NewRowIs == ASSUME NEW e \in Expiry PROVE NewRow(e) \in Rec /\ NewRow(e).until = Never
BY DEF NewRow, Rec, Never, Register!Ever

(* The steps of the administrators: a first record.                          *)
LEMMA CreateTokenAged ==
  ASSUME Aged, NEW c \in Admin, NEW t \in Managed, CreateToken(c, t)
  PROVE  Aged'
<1> USE DEF CreateToken, Begin, Change, With, caches
<1>1. t \in Token /\ c \in Call /\ c \notin Reader /\ Shape
  BY TokenCacheAssumption DEF Call, Aged
<1>2. PICK e \in Expiry : Register!Supersede(t, NewRow(e))
  OBVIOUS
<1>3. NewRow(e) \in Rec /\ NewRow(e).until = Never /\ NewRow(e).active
  BY NewRowIs DEF NewRow
<1>4. /\ pc' \in [Call -> CallPC] /\ tok' \in [Call -> Token \cup {None}]
      /\ got' \in [Call -> Nat \cup {None} \cup SUBSET Token]
      /\ answer' = [x \in Reader |-> answer'[x]]
      /\ pc'[c] = "fill" /\ tok'[c] = t /\ got'[c] = 1 /\ Alone(c)
  BY <1>1 DEF Shape, CallPC, Alone
<1>5. Len(hist[t]) = 0 /\ Len(hist'[t]) = 1 /\ hist'[t][1] = NewRow(e)
  <2>1. hist[t] = <<>>
    OBVIOUS
  <2>2. Len(hist'[t]) = Len(hist[t]) + 1 /\ hist'[t][Len(hist[t]) + 1] = NewRow(e)
    BY <1>1, <1>2, <1>3, Superseded
  <2>3. Len(hist[t]) = 0
    BY <2>1
  <2> HIDE DEF CreateToken
  <2> QED
    BY <2>2, <2>3
<1>6. now' = now /\ now \in Nat /\ now < Never + 1
  BY <1>1, TokenCacheAssumption DEF Shape, Never, Register!Ever
<1>7. HeldIn(hist', now', t, 1, now', 1)
  BY <1>3, <1>5, <1>6 DEF HeldIn
<1>8. Carry(c)'
  BY <1>1, <1>4, <1>7 DEF Carry, Held
<1> QED
  BY <1>1, <1>2, <1>3, <1>4, <1>8, ChangeAged

(* An update begins with nothing.                                            *)
LEMMA UpdateTokenAged ==
  ASSUME Aged, NEW c \in Admin, NEW t \in Managed, UpdateToken(c, t)
  PROVE  Aged'
<1> USE DEF UpdateToken, Begin, caches
<1>1. t \in Token /\ c \in Call /\ c \notin Reader /\ Shape
  BY TokenCacheAssumption DEF Call, Aged
<1>2. Shape' /\ pc'[c] = "write" /\ tok'[c] = t /\ Alone(c)
  BY <1>1 DEF Shape, CallPC, Alone
<1> QED
  BY <1>1, <1>2, QuietStep DEF Carry

(* A new record supersedes the row.                                          *)
LEMMA UpdateRowAged ==
  ASSUME Aged, NEW c \in Call, UpdateRow(c)
  PROVE  Aged'
<1> USE DEF UpdateRow, Goto, Change, caches
<1>1. tok[c] \in Token /\ c \notin Reader /\ Shape
  BY DEF Aged, At, Carried, Carry
<1>2. /\ pc' \in [Call -> CallPC] /\ pc'[c] = "reread" /\ Alone(c)
      /\ UNCHANGED <<tok, got, answer, now, hot, warm, pending, env>>
  BY <1>1 DEF Shape, CallPC, Alone
<1>3. Carry(c)'
  BY <1>1, <1>2 DEF Carry
<1>4. CASE Active(tok[c])
  <2>1. PICK e \in Expiry : Register!Supersede(tok[c], NewRow(e))
    BY <1>4
  <2> QED
    BY <1>1, <1>2, <1>3, <2>1, NewRowIs, ChangeAged DEF Shape
<1>5. CASE ~Active(tok[c])
  <2>1. UNCHANGED hist /\ Shape'
    BY <1>1, <1>2, <1>5 DEF Shape
  <2> QED
    BY <1>1, <1>2, <1>3, <2>1, QuietStep
<1> QED
  BY <1>4, <1>5

(* A deletion supersedes it by none.                                         *)
LEMMA DeleteTokenAged ==
  ASSUME Aged, NEW c \in Admin, NEW t \in Managed, DeleteToken(c, t)
  PROVE  Aged'
<1> USE DEF DeleteToken, Begin, Change, caches
<1> DEFINE r == [hist[t][Latest(t)] EXCEPT !.active = FALSE]
<1>1. t \in Token /\ c \in Call /\ c \notin Reader /\ Shape
  BY TokenCacheAssumption DEF Call, Aged
<1>2. r \in Rec /\ r.until = Never
  <2>1. Latest(t) \in 1 .. Len(hist[t]) /\ Latest(t) = Len(hist[t])
    BY <1>1 DEF Active, Latest, Shape
  <2>2. hist[t][Latest(t)] \in Rec /\ hist[t][Latest(t)].until = Never
    BY <1>1, <2>1 DEF Aged, Ends, Shape
  <2> QED
    BY <2>2 DEF Rec
<1>3. /\ pc' \in [Call -> CallPC] /\ tok' \in [Call -> Token \cup {None}] /\ got' = got
      /\ answer' = [x \in Reader |-> answer'[x]]
      /\ pc'[c] = "unhot" /\ tok'[c] = t /\ Alone(c)
  BY <1>1 DEF Shape, CallPC, Alone
<1>4. Carry(c)'
  BY <1>1, <1>3 DEF Carry
<1>5. Register!Supersede(t, r)
  OBVIOUS
<1> HIDE DEF r
<1> QED
  BY <1>1, <1>2, <1>3, <1>4, <1>5, ChangeAged DEF Shape

(* A failed statement ends the update.                                       *)
LEMMA UpdateRowFailsAged ==
  ASSUME Aged, NEW c \in Call, UpdateRowFails(c)
  PROVE  Aged'
<1>1. End(c) /\ UNCHANGED <<now, hist, hot, warm, pending, env, answer>>
  BY DEF UpdateRowFails, Done, caches
<1> QED
  BY <1>1, EndAged

(* So does a failure after the statement, with the row changed.              *)
LEMMA ReturnsEarlyAged ==
  ASSUME Aged, NEW c \in Call, ReturnsEarly(c)
  PROVE  Aged'
<1>1. End(c) /\ UNCHANGED <<now, hist, hot, warm, pending, env, answer>>
  BY DEF ReturnsEarly, Done, caches
<1> QED
  BY <1>1, EndAged

(* The steps of an update between its row and the invalidation.             *)
LEMMA UpdateGoesOnAged ==
  ASSUME Aged, NEW c \in Call, Reread(c) \/ QuotaUpdated(c)
  PROVE  Aged'
<1>1. /\ \E next \in {"quota", "unhot"} : pc' = [pc EXCEPT ![c] = next]
      /\ UNCHANGED <<tok, got, answer, now, hist, hot, warm, pending, env>>
      /\ pc[c] \in {"reread", "quota"}
  BY DEF Reread, QuotaUpdated, Goto, caches, At
<1>2. tok[c] \in Token /\ c \notin Reader /\ Shape
  BY <1>1 DEF Aged, Carried, Carry
<1>3. Shape' /\ Alone(c) /\ pc'[c] \in {"quota", "unhot"}
  BY <1>1, <1>2 DEF Shape, CallPC, Alone
<1>4. Carry(c)'
  BY <1>1, <1>2, <1>3 DEF Carry
<1> QED
  BY <1>1, <1>3, <1>4, QuietStep

(* Both halves of an invalidation only remove.                               *)
LEMMA DeleteHotAged ==
  ASSUME Aged, NEW c \in Call, DeleteHot(c)
  PROVE  Aged'
<1>1. /\ pc[c] = "unhot" /\ pc' = [pc EXCEPT ![c] = "unwarm"]
      /\ hot' = [hot EXCEPT ![tok[c]] = None]
      /\ UNCHANGED <<tok, got, answer, now, hist, warm, pending, env>>
  BY DEF DeleteHot, At, Goto, DropHot
<1>2. Shape' /\ Alone(c) /\ pc'[c] = "unwarm"
  BY <1>1 DEF Aged, Shape, CallPC, Alone
<1>3. Keeps /\ Ends'
  BY <1>1, SameKeeps DEF Aged, Ends
<1>4. Stocked' /\ Queued'
  BY <1>1, <1>3, StockKept, QueueKept DEF Aged, Shape
<1>5. Carry(c)'
  BY <1>1, <1>2 DEF Aged, Carried, Carry, Held, IsExpired
<1>6. Carried'
  BY <1>2, <1>3, <1>5, OthersCarry
<1> QED
  BY <1>2, <1>3, <1>4, <1>6 DEF Aged

(* A call that ends and at most empties parts of the warm cache.            *)
LEMMA DropAged ==
  ASSUME Aged, NEW c \in Call, End(c), UNCHANGED <<now, hist, hot, pending, env>>,
         warm' \in [Token -> Stored \cup {None}], \A t \in Token : warm'[t] \in {warm[t], None},
         UNCHANGED answer \/ \E a : answer' = [answer EXCEPT ![c] = a]
  PROVE  Aged'
<1>1. answer' = [r \in Reader |-> answer'[r]]
  BY DEF Aged, Shape
<1>2. Shape' /\ Alone(c) /\ Carry(c)'
  BY <1>1, EndIs DEF Aged, Shape
<1>3. Keeps /\ Ends'
  BY SameKeeps DEF Aged, Ends
<1>4. Stocked' /\ Queued'
  BY <1>3, StockKept, QueueKept
<1>5. Carried'
  BY <1>2, <1>3, OthersCarry
<1> QED
  BY <1>2, <1>3, <1>4, <1>5 DEF Aged

(* The half that removes from Redis.                                         *)
LEMMA DeleteWarmAged ==
  ASSUME Aged, NEW c \in Call, DeleteWarm(c)
  PROVE  Aged'
<1>1. /\ End(c) /\ UNCHANGED <<now, hist, hot, pending, env>>
      /\ warm' = [warm EXCEPT ![tok[c]] = None] \/ warm' = warm
      /\ UNCHANGED answer \/ \E a : answer' = [answer EXCEPT ![c] = a]
  BY DEF DeleteWarm, DropWarm, Reply, Done
<1>2. warm' \in [Token -> Stored \cup {None}] /\ \A t \in Token : warm'[t] \in {warm[t], None}
  BY <1>1 DEF Aged, Shape
<1> QED
  BY <1>1, <1>2, DropAged

(* ClearAll removes from Redis what its scan saw.                            *)
LEMMA DelKeysAged ==
  ASSUME Aged, NEW c \in Call, DelKeys(c)
  PROVE  Aged'
<1>1. /\ End(c) /\ UNCHANGED <<now, hist, hot, pending, env, answer>>
      /\ \/ warm' = [t \in Token |-> IF t \in got[c] THEN None ELSE warm[t]]
         \/ warm' = warm
  BY DEF DelKeys, Done
<1>2. warm' \in [Token -> Stored \cup {None}] /\ \A t \in Token : warm'[t] \in {warm[t], None}
  BY <1>1 DEF Aged, Shape
<1> QED
  BY <1>1, <1>2, DropAged

(* It clears the hot cache first,                                            *)
LEMMA ClearAllAged ==
  ASSUME Aged, NEW c \in Admin, ClearAll(c)
  PROVE  Aged'
<1> USE DEF ClearAll, Begin
<1>1. c \in Call /\ c \notin Reader /\ Shape
  BY TokenCacheAssumption DEF Call, Aged
<1>2. Shape' /\ Alone(c) /\ pc'[c] = "keys"
  BY <1>1 DEF Shape, CallPC, Alone
<1>3. Keeps /\ Ends'
  BY SameKeeps DEF Aged, Ends
<1>4. Stocked' /\ Queued'
  BY <1>3, StockKept, QueueKept
<1>5. Carried'
  BY <1>2, <1>3, OthersCarry DEF Carry
<1> QED
  BY <1>2, <1>3, <1>4, <1>5 DEF Aged

(* and scans Redis next.                                                     *)
LEMMA KeysAged ==
  ASSUME Aged, NEW c \in Call, Keys(c)
  PROVE  Aged'
<1>1. UNCHANGED <<now, hist, hot, warm, pending, env>>
  BY DEF Keys, caches
<1>2. CASE Done(c)
  BY <1>1, <1>2, EndAged DEF Done
<1>3. CASE With(c, {t \in Token : WarmHit(t)}) /\ Goto(c, "del")
  <2>1. Shape' /\ Alone(c) /\ pc'[c] = "del"
    BY <1>1, <1>3 DEF Aged, Shape, CallPC, Alone, With, Goto
  <2> QED
    BY <1>1, <2>1, QuietStep DEF Carry
<1> QED
  BY <1>2, <1>3 DEF Keys

(* Time passes only when no call and no write is under way.                 *)
LEMMA TickAged == ASSUME Aged, Tick PROVE Aged'
<1>1. /\ now' = now + 1 /\ now < MaxTime /\ pending = {}
      /\ \A c \in Call : pc[c] = "idle"
      /\ UNCHANGED <<hist, answer, hot, warm, pending, pc, tok, got, env>>
  BY DEF Tick, Quiet, caches, calls
<1>2. Shape'
  BY <1>1, TokenCacheAssumption DEF Aged, Shape
<1>3. Ends'
  <2>1. \A t \in Token : \A v \in 1 .. Len(hist[t]) : hist[t][v].until \in Int
    <3>1. \A t \in Token : \A v \in 1 .. Len(hist[t]) : hist[t][v] \in Rec
      BY DEF Aged, Shape
    <3> QED
      BY <3>1 DEF Rec
  <2> QED
    BY <1>1, <2>1 DEF Aged, Ends, Shape
<1>4. Stocked'
  BY <1>1 DEF Aged, Shape, Stocked, Held, HeldIn
<1>5. Queued' /\ Carried'
  BY <1>1 DEF Queued, Carried, Carry
<1> QED
  BY <1>2, <1>3, <1>4, <1>5 DEF Aged

(* The timer of the hot cache only removes.                                  *)
LEMMA CleanupIs ==
  ASSUME Shape, Cleanup
  PROVE  hot' \in [Token -> Stored \cup {None}] /\ \A t \in Token : hot'[t] \in {hot[t], None}
<1>1. PICK gone : hot' = [t \in Token |-> IF \E i \in gone : lru[i] = t THEN None ELSE hot[t]]
  BY DEF Cleanup
<1> QED
  BY <1>1 DEF Shape

LEMMA CleanupAged == ASSUME Aged, Cleanup PROVE Aged'
<1>1. UNCHANGED <<now, hist, answer, warm, pending, pc, tok, got, env>>
  BY DEF Cleanup, register, calls
<1>0. hot' \in [Token -> Stored \cup {None}] /\ \A t \in Token : hot'[t] \in {hot[t], None}
  BY CleanupIs DEF Aged
<1>2. Keeps /\ Ends' /\ Shape'
  BY <1>0, <1>1, SameKeeps DEF Aged, Ends, Shape
<1>3. Stocked' /\ Queued'
  BY <1>0, <1>1, <1>2, StockKept, QueueKept
<1>4. Carried'
  BY <1>1, <1>2, CarryKept DEF Carried
<1> QED
  BY <1>2, <1>3, <1>4 DEF Aged

(* At the start nothing is stored, queued or carried.                       *)
LEMMA InitAged == Init => Aged
<1> SUFFICES ASSUME Init PROVE Aged
  OBVIOUS
<1> DEFINE row == [active |-> TRUE, expires |-> Never, until |-> Never]
<1>1. row \in Rec
  BY TokenCacheAssumption DEF Rec, Never, Register!Ever
<1>2. PICK present \in SUBSET Token :
        hist = [t \in Token |-> IF t \in present THEN <<row>> ELSE <<>>]
  BY DEF Init
<1>3. hist \in [Token -> Seq(Rec)]
  <2>1. <<row>> \in Seq(Rec) /\ <<>> \in Seq(Rec)
    BY <1>1
  <2> HIDE DEF row
  <2> QED
    BY <1>2, <2>1
<1>4. Shape
  <2>1. now \in 0 .. MaxTime /\ answer = [r \in Reader |-> answer[r]] /\ env \in Environments
    BY TokenCacheAssumption DEF Init
  <2>2. hot \in [Token -> Stored \cup {None}] /\ warm \in [Token -> Stored \cup {None}]
    BY DEF Init
  <2>3. /\ pending \subseteq [token : Token, version : Nat]
        /\ pc \in [Call -> CallPC] /\ tok \in [Call -> Token \cup {None}]
        /\ got \in [Call -> Nat \cup {None} \cup SUBSET Token]
    BY DEF Init, CallPC
  <2> QED
    BY <1>3, <2>1, <2>2, <2>3 DEF Shape
<1>5. Ends
  <2> SUFFICES ASSUME NEW t \in Token, NEW v \in 1 .. Len(hist[t])
               PROVE  v = Len(hist[t]) /\ hist[t][v].until = Never
    BY DEF Ends
  <2>1. CASE t \in present
    <3>1. hist[t] = <<row>>
      BY <1>2, <2>1
    <3>2. Len(hist[t]) = 1 /\ hist[t][1] = row /\ v = 1
      BY <3>1
    <3> QED
      BY <3>2
  <2>2. CASE t \notin present
    <3>1. hist[t] = <<>>
      BY <1>2, <2>2
    <3> QED
      BY <3>1
  <2> QED
    BY <2>1, <2>2
<1>6. Stocked /\ Queued /\ Carried
  BY DEF Init, Stocked, Queued, Carried, Carry
<1> QED
  BY <1>4, <1>5, <1>6 DEF Aged

(* Every step keeps it.                                                     *)
LEMMA NextAged == Aged /\ [Next]_vars => Aged'
<1> SUFFICES ASSUME Aged, [Next]_vars PROVE Aged'
  OBVIOUS
<1>1. ASSUME NEW c \in Reader, NEW t \in Token, ValidateToken(c, t) PROVE Aged'
  BY <1>1, ValidateTokenAged
<1>2. ASSUME NEW c \in Reader, ReaderStep(c) PROVE Aged'
  BY <1>2, GetHotAged, TouchAged, GetWarmAged, PromoteAged, GetByTokenAged, GetByTokenFailsAged
  DEF ReaderStep
<1>3. ASSUME NEW c \in Admin, NEW t \in Managed, CreateToken(c, t) \/ UpdateToken(c, t) \/ DeleteToken(c, t)
      PROVE  Aged'
  BY <1>3, CreateTokenAged, UpdateTokenAged, DeleteTokenAged
<1>4. ASSUME NEW c \in Admin, ClearAll(c) PROVE Aged'
  BY <1>4, ClearAllAged
<1>5. ASSUME NEW c \in Call, CallStep(c) PROVE Aged'
  BY <1>5, FillAged, SubmitAged, UpdateRowAged, UpdateRowFailsAged, UpdateGoesOnAged, ReturnsEarlyAged,
     DeleteHotAged, DeleteWarmAged, KeysAged, DelKeysAged DEF CallStep
<1>6. ASSUME NEW k \in pending, RunTask(k) PROVE Aged'
  BY <1>6, RunTaskAged
<1>7. CASE Tick
  BY <1>7, TickAged
<1>8. CASE Cleanup
  BY <1>8, CleanupAged
<1>9. CASE UNCHANGED vars
  <2>1. UNCHANGED <<now, hist, answer, hot, warm, pending, pc, tok, got, env>>
    BY <1>9 DEF vars, register, caches, calls
  <2>2. Keeps /\ Ends' /\ Shape'
    BY <2>1, SameKeeps DEF Aged, Ends, Shape
  <2>3. Stocked' /\ Queued' /\ Carried'
    BY <2>1, <2>2, StockKept, QueueKept, CarryKept DEF Carried
  <2> QED
    BY <2>2, <2>3 DEF Aged
<1> QED
  BY <1>1, <1>2, <1>3, <1>4, <1>5, <1>6, <1>7, <1>8, <1>9 DEF Next

(* Nothing stored, queued or carried is older than its place allows.        *)
THEOREM AgesBounded == Spec => []Aged
<1> QED
  BY InitAged, NextAged, PTL DEF Spec

-----------------------------------------------------------------------------

(***************************************************************************)
(* The refinement: every step is a step of the register or a stutter.      *)
(***************************************************************************)

(* A record that a call still holds is recent to the register.              *)
LEMMA HeldIsRecent ==
  ASSUME Aged, NEW t \in Token, NEW v, Held(t, v, now, HotTTL + WarmTTL)
  PROVE  v \in Register!Recent(t) /\ hist[t] # <<>> /\ hist[t][v].active
<1>1. v \in 1 .. Len(hist[t]) /\ now < hist[t][v].until + (HotTTL + WarmTTL) /\ hist[t][v].active
  BY DEF Held, HeldIn
<1>2. hist[t] # <<>>
  BY <1>1
<1> QED
  BY <1>1, <1>2 DEF Register!Recent

(* It may be granted while it has not expired, and denied when it has.      *)
LEMMA HeldVerdict ==
  ASSUME Aged, NEW t \in Token, NEW v, Held(t, v, now, HotTTL + WarmTTL)
  PROVE  /\ ~IsExpired(t, v) => Granted(t, v) \in Register!Verdicts(t)
         /\ IsExpired(t, v) => Register!Denied \in Register!Verdicts(t)
<1>1. v \in Register!Recent(t) /\ hist[t] # <<>> /\ hist[t][v].active
  BY HeldIsRecent
<1>2. Register!Verdict(t, v) \in Register!Verdicts(t)
  BY <1>1 DEF Register!Verdicts
<1>3. Register!Verdict(t, v) = IF IsExpired(t, v) THEN Register!Denied ELSE Granted(t, v)
  BY <1>1 DEF Register!Verdict, Register!Expired, IsExpired, Granted
<1> QED
  BY <1>2, <1>3

(* The database's own verdict: the last record is always recent.            *)
LEMMA LatestVerdict ==
  ASSUME Aged, NEW t \in Token, ~(Active(t) /\ ~IsExpired(t, Latest(t)))
  PROVE  Register!Denied \in Register!Verdicts(t)
<1>1. CASE hist[t] = <<>>
  BY <1>1 DEF Register!Verdicts
<1>2. CASE hist[t] # <<>>
  <2> DEFINE v == Latest(t)
  <2>1. v \in 1 .. Len(hist[t]) /\ v = Len(hist[t]) /\ v > 0
    BY <1>2 DEF Aged, Shape, Latest
  <2>2. hist[t][v].until = Never
    BY <2>1 DEF Aged, Ends
  <2>3. now < Never + (HotTTL + WarmTTL)
    BY TokenCacheAssumption DEF Aged, Shape, Never, Register!Ever
  <2>4. v \in Register!Recent(t)
    BY <2>1, <2>2, <2>3 DEF Register!Recent
  <2>5. Register!Verdict(t, v) = Register!Denied
    BY <2>1 DEF Register!Verdict, Register!Expired, Active, IsExpired
  <2> QED
    BY <1>2, <2>4, <2>5 DEF Register!Verdicts
<1> QED
  BY <1>1, <1>2

(* A call that answers takes the register's step Answer.                    *)
LEMMA AnswerStep ==
  ASSUME NEW c \in Reader, NEW t \in Token, NEW a, Reply(c, a), UNCHANGED <<now, hist>>,
         a \in Register!Verdicts(t)
  PROVE  Register!Next
BY DEF Reply, Register!Next, Register!Answer

(* Judge answers from a cache or leaves the answer alone.                   *)
LEMMA JudgeStep ==
  ASSUME Aged, NEW c \in Reader, Judge(c), UNCHANGED <<now, hist>>, tok[c] \in Token,
         Held(tok[c], got[c], now, HotTTL + WarmTTL)
  PROVE  Register!Next \/ UNCHANGED Register!vars
<1>1. CASE IsExpired(tok[c], got[c])
  BY <1>1 DEF Judge, Goto, Register!vars
<1>2. CASE ~IsExpired(tok[c], got[c])
  <2>1. Reply(c, Granted(tok[c], got[c]))
    BY <1>2 DEF Judge
  <2> QED
    BY <1>2, <2>1, HeldVerdict, AnswerStep
<1> QED
  BY <1>1, <1>2

(* The steps of a validation.                                               *)
LEMMA ReaderRefines ==
  ASSUME Aged, NEW c \in Reader, ReaderStep(c)
  PROVE  Register!Next \/ UNCHANGED Register!vars
<1>1. CASE GetHot(c) \/ GetWarm(c)
  BY <1>1 DEF GetHot, GetWarm, Goto, Register!vars
<1>2. CASE Touch(c)
  <2>1. /\ Judge(c) /\ UNCHANGED <<now, hist>>
        /\ tok[c] \in Token /\ Held(tok[c], got[c], now, HotTTL + WarmTTL)
    BY <1>2 DEF Touch, At, Aged, Carried, Carry, Call
  <2> QED
    BY <2>1, JudgeStep
<1>3. CASE Promote(c)
  <2>1. /\ Judge(c) /\ UNCHANGED <<now, hist>>
        /\ tok[c] \in Token /\ Held(tok[c], got[c], now, WarmTTL)
    BY <1>3 DEF Promote, At, Aged, Carried, Carry, Call
  <2>2. Held(tok[c], got[c], now, HotTTL + WarmTTL)
    <3>1. now - now <= HotTTL /\ HotTTL \in Nat /\ WarmTTL \in Nat
      BY TokenCacheAssumption DEF Aged, Shape
    <3> QED
      BY <2>1, <3>1, HeldLonger DEF Held, Aged
  <2> QED
    BY <2>1, <2>2, JudgeStep
<1>4. CASE GetByToken(c)
  <2>1. tok[c] \in Token /\ UNCHANGED <<now, hist>>
    BY <1>4 DEF GetByToken, At, Aged, Carried, Carry, Call
  <2>2. CASE Active(tok[c]) /\ ~IsExpired(tok[c], Latest(tok[c]))
    BY <1>4, <2>2 DEF GetByToken, Goto, Register!vars
  <2>3. CASE ~(Active(tok[c]) /\ ~IsExpired(tok[c], Latest(tok[c])))
    <3>1. Reply(c, Register!Denied)
      BY <1>4, <2>3 DEF GetByToken
    <3> QED
      BY <2>1, <2>3, <3>1, LatestVerdict, AnswerStep
  <2> QED
    BY <2>2, <2>3
<1>5. CASE GetByTokenFails(c)
  <2>1. tok[c] \in Token /\ Reply(c, Register!Failed) /\ UNCHANGED <<now, hist>>
    BY <1>5 DEF GetByTokenFails, At, Aged, Carried, Carry, Call
  <2>2. \E e \in Environments : "db" \in e
    BY <1>5 DEF GetByTokenFails, Aged, Shape
  <2> QED
    BY <2>1, <2>2 DEF Reply, Register!Next, Register!Answer
<1> QED
  BY <1>1, <1>2, <1>3, <1>4, <1>5 DEF ReaderStep

(* A row that changes is a step of the register.                            *)
LEMMA ChangeStep ==
  ASSUME NEW t \in Token, NEW r \in Register!Record, Register!Supersede(t, r), UNCHANGED <<now, answer>>
  PROVE  Register!Next
BY DEF Register!Next, Register!Change

(* What administrators write are records of the register.                    *)
LEMMA NewRowRecord == ASSUME NEW e \in Expiry PROVE NewRow(e) \in Register!Record
BY DEF NewRow, Never, Register!Record

(* An administrator does not touch an answer when a call begins.            *)
LEMMA AdminBegins ==
  ASSUME Aged, NEW c \in Admin, NEW t, NEW where, Begin(c, t, where)
  PROVE  UNCHANGED answer
<1>1. \A r \in Reader : r # c
  BY TokenCacheAssumption
<1>2. answer = [r \in Reader |-> answer[r]]
  BY DEF Aged, Shape
<1>3. answer' = [r \in Reader |-> answer[r]]
  BY <1>1 DEF Begin
<1> QED
  BY <1>2, <1>3

(* Creating and deleting are changes, an update begins without one.         *)
LEMMA AdminRefines ==
  ASSUME Aged, NEW c \in Admin, NEW t \in Managed, CreateToken(c, t) \/ UpdateToken(c, t) \/ DeleteToken(c, t)
  PROVE  Register!Next \/ UNCHANGED Register!vars
<1>1. t \in Token /\ UNCHANGED <<now, answer>>
  BY AdminBegins, TokenCacheAssumption DEF CreateToken, UpdateToken, DeleteToken
<1>2. CASE CreateToken(c, t)
  <2>1. PICK e \in Expiry : Register!Supersede(t, NewRow(e))
    BY <1>2 DEF CreateToken, Change
  <2> QED
    BY <1>1, <2>1, NewRowRecord, ChangeStep
<1>3. CASE UpdateToken(c, t)
  BY <1>1, <1>3 DEF UpdateToken, Register!vars
<1>4. CASE DeleteToken(c, t)
  <2> DEFINE r == [hist[t][Latest(t)] EXCEPT !.active = FALSE]
  <2>1. Register!Supersede(t, r)
    BY <1>4 DEF DeleteToken, Change
  <2>2. Latest(t) \in 1 .. Len(hist[t]) /\ Latest(t) = Len(hist[t])
    BY <1>1, <1>4 DEF DeleteToken, Active, Latest, Aged, Shape
  <2>3. hist[t][Latest(t)] \in Rec /\ hist[t][Latest(t)].until = Never
    BY <1>1, <2>2 DEF Aged, Shape, Ends
  <2>4. r \in Register!Record
    BY <2>3 DEF Rec, Register!Record, Never
  <2> HIDE DEF r
  <2> QED
    BY <1>1, <2>1, <2>4, ChangeStep
<1> QED
  BY <1>2, <1>3, <1>4

(* The steps that validations and administrators share.                     *)
LEMMA CallRefines ==
  ASSUME Aged, NEW c \in Call, CallStep(c)
  PROVE  Register!Next \/ UNCHANGED Register!vars
<1>1. CASE \/ Fill(c) \/ UpdateRowFails(c) \/ Reread(c) \/ QuotaUpdated(c) \/ ReturnsEarly(c)
           \/ DeleteHot(c) \/ Keys(c) \/ DelKeys(c)
  BY <1>1 DEF Fill, UpdateRowFails, Reread, QuotaUpdated, ReturnsEarly, DeleteHot, Keys, DelKeys,
              Goto, Done, Register!vars
<1>2. CASE Submit(c)
  <2>1. UNCHANGED <<now, hist>> /\ tok[c] \in Token /\ Held(tok[c], got[c], now, 1)
        /\ (c \in Reader => ~IsExpired(tok[c], got[c]))
    BY <1>2 DEF Submit, At, Aged, Carried, Carry
  <2>2. CASE c \in Reader
    <3>1. Reply(c, Granted(tok[c], got[c]))
      BY <1>2, <2>2 DEF Submit, Submitted
    <3>2. Held(tok[c], got[c], now, HotTTL + WarmTTL)
      <4>1. /\ now - now <= HotTTL + (WarmTTL - 1) /\ HotTTL + (WarmTTL - 1) \in Nat
            /\ (HotTTL + (WarmTTL - 1)) + 1 = HotTTL + WarmTTL
        BY TokenCacheAssumption DEF Aged, Shape
      <4>2. HeldIn(hist, now, tok[c], got[c], now, (HotTTL + (WarmTTL - 1)) + 1)
        BY <2>1, <4>1, HeldLonger DEF Held, Aged
      <4> QED
        BY <4>1, <4>2 DEF Held
    <3> QED
      BY <2>1, <2>2, <3>1, <3>2, HeldVerdict, AnswerStep
  <2>3. CASE c \notin Reader
    BY <1>2, <2>1, <2>3 DEF Submit, Submitted, Done, Register!vars
  <2> QED
    BY <2>2, <2>3
<1>3. CASE UpdateRow(c)
  <2>1. tok[c] \in Token /\ UNCHANGED <<now, answer>>
    BY <1>3 DEF UpdateRow, Goto, At, Aged, Carried, Carry
  <2>2. CASE Active(tok[c])
    <3>1. PICK e \in Expiry : Register!Supersede(tok[c], NewRow(e))
      BY <1>3, <2>2 DEF UpdateRow, Change
    <3> QED
      BY <2>1, <3>1, NewRowRecord, ChangeStep
  <2>3. CASE ~Active(tok[c])
    BY <1>3, <2>1, <2>3 DEF UpdateRow, Register!vars
  <2> QED
    BY <2>2, <2>3
<1>4. CASE DeleteWarm(c)
  <2>1. UNCHANGED <<now, hist>> /\ pc[c] = "unwarm"
    BY <1>4 DEF DeleteWarm, At
  <2>2. CASE c \in Reader
    <3>1. tok[c] \in Token /\ Held(tok[c], got[c], now, HotTTL + WarmTTL) /\ IsExpired(tok[c], got[c])
      BY <2>1, <2>2 DEF Aged, Carried, Carry
    <3>2. Reply(c, Register!Denied)
      BY <1>4, <2>2 DEF DeleteWarm
    <3> QED
      BY <2>1, <2>2, <3>1, <3>2, HeldVerdict, AnswerStep
  <2>3. CASE c \notin Reader
    BY <1>4, <2>1, <2>3 DEF DeleteWarm, Done, Register!vars
  <2> QED
    BY <2>2, <2>3
<1> QED
  BY <1>1, <1>2, <1>3, <1>4 DEF CallStep

(* The start of the service is a start of the register.                     *)
LEMMA InitRefines == Init => Register!Init
<1> SUFFICES ASSUME Init PROVE Register!Init
  OBVIOUS
<1>1. now = 0 /\ answer = [c \in Reader |-> Register!Nothing]
  BY DEF Init
<1>2. ASSUME NEW t \in Token
      PROVE  Len(hist[t]) <= 1 /\ \A v \in 1 .. Len(hist[t]) : hist[t][v].until = Register!Ever
  <2>1. hist[t] = <<>> \/ hist[t] = <<[active |-> TRUE, expires |-> Never, until |-> Never]>>
    BY DEF Init
  <2>2. CASE hist[t] = <<>>
    BY <2>2
  <2>3. CASE hist[t] = <<[active |-> TRUE, expires |-> Never, until |-> Never]>>
    BY <2>3 DEF Never
  <2> QED
    BY <2>1, <2>2, <2>3
<1> QED
  BY <1>1, <1>2 DEF Register!Init

(* Every step of the service is one of the register, or none.               *)
LEMMA NextRefines == Aged /\ [Next]_vars => [Register!Next]_Register!vars
<1> SUFFICES ASSUME Aged, [Next]_vars PROVE Register!Next \/ UNCHANGED Register!vars
  OBVIOUS
<1>1. ASSUME NEW c \in Reader, NEW t \in Token, ValidateToken(c, t) PROVE Register!Next \/ UNCHANGED Register!vars
  <2>1. answer = [r \in Reader |-> answer[r]] /\ UNCHANGED <<now, hist>>
    BY <1>1 DEF Aged, Shape, ValidateToken
  <2>2. answer' = [answer EXCEPT ![c] = Register!Nothing]
    BY <1>1, <2>1 DEF ValidateToken, Begin
  <2> QED
    BY <2>1, <2>2 DEF Register!Next, Register!Ask
<1>2. ASSUME NEW c \in Reader, ReaderStep(c) PROVE Register!Next \/ UNCHANGED Register!vars
  BY <1>2, ReaderRefines
<1>3. ASSUME NEW c \in Admin, NEW t \in Managed, CreateToken(c, t) \/ UpdateToken(c, t) \/ DeleteToken(c, t)
      PROVE  Register!Next \/ UNCHANGED Register!vars
  BY <1>3, AdminRefines
<1>4. ASSUME NEW c \in Admin, ClearAll(c) PROVE Register!Next \/ UNCHANGED Register!vars
  BY <1>4, AdminBegins DEF ClearAll, Register!vars
<1>5. ASSUME NEW c \in Call, CallStep(c) PROVE Register!Next \/ UNCHANGED Register!vars
  BY <1>5, CallRefines
<1>6. ASSUME NEW k \in pending, RunTask(k) PROVE Register!Next \/ UNCHANGED Register!vars
  BY <1>6 DEF RunTask, register, Register!vars
<1>7. CASE Tick
  BY <1>7 DEF Tick, Register!Next, Register!Tick
<1>8. CASE Cleanup \/ UNCHANGED vars
  BY <1>8 DEF Cleanup, vars, register, Register!vars
<1> QED
  BY <1>1, <1>2, <1>3, <1>4, <1>5, <1>6, <1>7, <1>8 DEF Next

(* Whatever fails and whatever races, every validation answers with the     *)
(* verdict on a record that was current within the last HotTTL + WarmTTL.   *)
THEOREM StalenessBounded == Spec => BoundedStaleness
<1> QED
  BY InitRefines, NextRefines, AgesBounded, PTL DEF Spec, BoundedStaleness, Register!Spec

(***************************************************************************)
(* Staleness needs an overlap.                                             *)
(***************************************************************************)

Carrying == {"fill", "submit", "promote", "touch"}

(* A token without an overlap: what is stored, queued or carried of it is   *)
(* its record, unless its one writer is about to clear the caches, and      *)
(* then the writer is alone with it.                                        *)
Fresh(t) ==
  /\ hot[t] # None /\ hot[t].version # Latest(t) =>
       \E a \in Admin : pc[a] \in Changing \ {"unwarm"} /\ tok[a] = t
  /\ warm[t] # None /\ warm[t].version # Latest(t) => \E a \in Admin : pc[a] \in Changing /\ tok[a] = t
  /\ \A c \in Call : tok[c] = t /\ pc[c] \in Carrying => got[c] = Latest(t)
  /\ \A k \in pending : k.token = t => k.version = Latest(t)
  /\ \A a \in Admin : tok[a] = t /\ pc[a] \in Changing =>
       (\A c \in Call \ {a} : tok[c] # t) /\ (\A k \in pending : k.token # t)
  /\ \A a \in Admin : tok[a] = t /\ pc[a] = "write" => Active(t)

Orderly == \A t \in Token \ overlap : Fresh(t)

(* A call without a token has none, so that it is at work on none.          *)
Resting == \A c \in Call : pc[c] \in {"idle", "keys", "del"} => tok[c] = None

IInv == Aged /\ Resting /\ Orderly

(* A step that does nothing to t but drop it from a cache or the queue.     *)
LEMMA FreshKept ==
  ASSUME NEW t \in Token, Fresh(t), hist'[t] = hist[t], hot'[t] \in {hot[t], None}, warm'[t] \in {warm[t], None},
         \A c \in Call : tok[c] = t \/ tok'[c] = t => tok'[c] = tok[c] /\ pc'[c] = pc[c] /\ got'[c] = got[c],
         \A k \in pending' : k.token = t => k \in pending
  PROVE  Fresh(t)'
<1>1. Latest(t)' = Latest(t) /\ Active(t)' = Active(t) /\ Admin \subseteq Call
  BY DEF Latest, Active, Call
<1>2. (hot[t] # None /\ hot[t].version # Latest(t) =>
        \E a \in Admin : pc[a] \in Changing \ {"unwarm"} /\ tok[a] = t)'
  BY <1>1 DEF Fresh, Changing
<1>3. (warm[t] # None /\ warm[t].version # Latest(t) => \E a \in Admin : pc[a] \in Changing /\ tok[a] = t)'
  BY <1>1 DEF Fresh, Changing
<1>4. /\ \A c \in Call : tok'[c] = t /\ pc'[c] \in Carrying => got'[c] = Latest(t)'
      /\ \A k \in pending' : k.token = t => k.version = Latest(t)'
  BY <1>1 DEF Fresh, Carrying
<1>5. \A a \in Admin : tok'[a] = t /\ pc'[a] \in Changing =>
        (\A c \in Call \ {a} : tok'[c] # t) /\ (\A k \in pending' : k.token # t)
  BY <1>1 DEF Fresh, Changing
<1>6. \A a \in Admin : tok'[a] = t /\ pc'[a] = "write" => Active(t)'
  BY <1>1 DEF Fresh
<1> QED
  BY <1>2, <1>3, <1>4, <1>5, <1>6 DEF Fresh, Changing, Carrying

(* While somebody else is at work on a token without an overlap, nobody     *)
(* changes it, and what the caches have of it is its record.                *)
LEMMA NobodyChanges ==
  ASSUME NEW t \in Token, Fresh(t), NEW c \in Call, tok[c] = t, ~(c \in Admin /\ pc[c] \in Changing)
  PROVE  /\ \A a \in Admin : ~(tok[a] = t /\ pc[a] \in Changing)
         /\ hot[t] # None => hot[t].version = Latest(t)
         /\ warm[t] # None => warm[t].version = Latest(t)
BY DEF Fresh, Call

(* A step of such a call that stores, queues and carries only the record of *)
(* the token.                                                               *)
LEMMA ServedStep ==
  ASSUME NEW t \in Token, Fresh(t), NEW c \in Call, tok[c] = t, ~(c \in Admin /\ pc[c] \in Changing),
         hist'[t] = hist[t], Alone(c), tok'[c] \in {t, None},
         c \in Admin => pc'[c] \notin Changing \cup {"write"},
         hot'[t] \in {hot[t], None} \/ hot'[t].version = Latest(t),
         warm'[t] \in {warm[t], None} \/ warm'[t].version = Latest(t),
         \A k \in pending' \ pending : k.version = Latest(t),
         pc'[c] \in Carrying => got'[c] = Latest(t)
  PROVE  Fresh(t)'
<1>1. Latest(t)' = Latest(t) /\ Active(t)' = Active(t) /\ Admin \subseteq Call /\ t # None
  BY TokenCacheAssumption DEF Latest, Active, Call
<1>2. /\ \A a \in Admin : ~(tok[a] = t /\ pc[a] \in Changing)
      /\ hot[t] # None => hot[t].version = Latest(t)
      /\ warm[t] # None => warm[t].version = Latest(t)
  BY NobodyChanges
<1>3. \A a \in Admin : ~(tok'[a] = t /\ pc'[a] \in Changing)
  BY <1>1, <1>2 DEF Alone
<1>4. \A x \in Call : tok'[x] = t /\ pc'[x] \in Carrying => got'[x] = Latest(t)
  BY DEF Alone, Fresh
<1>5. \A k \in pending' : k.token = t => k.version = Latest(t)
  BY DEF Fresh
<1>6. \A a \in Admin : tok'[a] = t /\ pc'[a] = "write" => Active(t)
  BY <1>1 DEF Alone, Fresh
<1> QED
  BY <1>1, <1>2, <1>3, <1>4, <1>5, <1>6 DEF Fresh, Changing, Carrying

(* A call begins on a token that nobody is changing.                        *)
LEMMA NewcomerStep ==
  ASSUME NEW t \in Token, Fresh(t), NEW c \in Call, ~Dirty(t), UNCHANGED <<hist, hot, warm, pending>>, Alone(c),
         tok[c] = None, tok'[c] = t, pc'[c] \in {"hot", "write"}, pc'[c] = "write" => Active(t)
  PROVE  Fresh(t)'
<1>1. Latest(t)' = Latest(t) /\ Active(t)' = Active(t) /\ Admin \subseteq Call /\ t # None
  BY TokenCacheAssumption DEF Latest, Active, Call
<1>2. \A a \in Admin : ~(tok[a] = t /\ pc[a] \in Changing) /\ ~(tok'[a] = t /\ pc'[a] \in Changing)
  BY <1>1 DEF Dirty, Alone, Changing
<1>3. \A x \in Call : tok'[x] = t /\ pc'[x] \in Carrying => got'[x] = Latest(t)
  BY DEF Alone, Fresh, Carrying
<1>4. \A a \in Admin : tok'[a] = t /\ pc'[a] = "write" => Active(t)
  BY <1>1 DEF Alone, Fresh
<1> QED
  BY <1>1, <1>2, <1>3, <1>4 DEF Fresh, Changing, Carrying

(* A row changes while its writer is alone with the token: the writer's     *)
(* next step is an invalidation.                                            *)
LEMMA WriterStep ==
  ASSUME NEW t \in Token, NEW c \in Admin, Alone(c), tok'[c] = t, pc'[c] \in {"reread", "quota", "unhot"},
         AtWork(t) \ {c} = {}, Writing(t) = {}, pending' = pending
  PROVE  Fresh(t)'
<1>1. c \in Call /\ Admin \subseteq Call
  BY DEF Call
<1>2. \A x \in Call \ {c} : tok'[x] # t
  BY DEF AtWork, Alone
<1>3. \A k \in pending' : k.token # t
  BY DEF Writing
<1>4. pc'[c] \in Changing \ {"unwarm"} /\ pc'[c] \notin Carrying /\ pc'[c] # "write"
  BY DEF Changing, Carrying
<1> QED
  BY <1>1, <1>2, <1>3, <1>4 DEF Fresh, Changing, Carrying

(* On its way the writer stays alone and clears the hot cache first.        *)
LEMMA InvalidationStep ==
  ASSUME NEW t \in Token, Fresh(t), NEW c \in Admin, tok[c] = t, pc[c] \in Changing, Alone(c), tok'[c] = t,
         pending' = pending, hist' = hist, pc'[c] \in {"quota", "unhot"} \/ (pc'[c] = "unwarm" /\ hot'[t] = None)
  PROVE  Fresh(t)'
<1>1. c \in Call /\ Admin \subseteq Call
  BY DEF Call
<1>2. (\A x \in Call \ {c} : tok[x] # t) /\ (\A k \in pending : k.token # t)
  BY DEF Fresh
<1>3. (\A x \in Call \ {c} : tok'[x] # t) /\ (\A k \in pending' : k.token # t)
  BY <1>2 DEF Alone
<1>4. /\ pc'[c] \in Changing /\ pc'[c] \notin Carrying /\ pc'[c] # "write"
      /\ pc'[c] = "unwarm" => hot'[t] = None
  BY DEF Changing, Carrying
<1> QED
  BY <1>1, <1>3, <1>4 DEF Fresh, Changing, Carrying

(* The invalidation ends and leaves nothing stale behind.                   *)
LEMMA InvalidatedStep ==
  ASSUME NEW t \in Token, Fresh(t), NEW c \in Admin, tok[c] = t, pc[c] = "unwarm", Alone(c), tok'[c] = None,
         UNCHANGED <<hist, hot, pending>>, warm'[t] = None
  PROVE  Fresh(t)'
<1>1. c \in Call /\ Admin \subseteq Call /\ t # None /\ Latest(t)' = Latest(t)
  BY TokenCacheAssumption DEF Call, Latest
<1>2. (\A x \in Call \ {c} : tok[x] # t) /\ (\A k \in pending : k.token # t)
  BY DEF Fresh, Changing
<1>3. \A x \in Call : tok'[x] # t
  BY <1>1, <1>2 DEF Alone
<1>4. hot[t] # None => hot[t].version = Latest(t)
  BY <1>1, <1>2 DEF Fresh
<1> QED
  BY <1>1, <1>2, <1>3, <1>4 DEF Fresh

(* A step of c on its own token leaves the others in order.                 *)
LEMMA Elsewhere ==
  ASSUME Orderly, NEW c \in Call, Alone(c), NEW t \in Token \ overlap, t # tok[c], t # tok'[c],
         hist'[t] = hist[t], hot'[t] \in {hot[t], None}, warm'[t] \in {warm[t], None},
         \A k \in pending' : k.token = t => k \in pending
  PROVE  Fresh(t)'
<1>1. Fresh(t)
  BY DEF Orderly
<1>2. \A x \in Call : tok[x] = t \/ tok'[x] = t => tok'[x] = tok[x] /\ pc'[x] = pc[x] /\ got'[x] = got[x]
  BY DEF Alone
<1> QED
  BY <1>1, <1>2, FreshKept

(* A quiet step of a call that is serving, not changing, its token.         *)
LEMMA QuietOrderly ==
  ASSUME IInv, NEW c \in Call, tok[c] \in Token, ~(c \in Admin /\ pc[c] \in Changing), Alone(c),
         tok'[c] \in {tok[c], None}, c \in Admin => pc'[c] \notin Changing \cup {"write"},
         UNCHANGED <<hist, hot, warm, pending, overlap>>,
         tok[c] \notin overlap /\ pc'[c] \in Carrying => got'[c] = Latest(tok[c])
  PROVE  Orderly'
<1> SUFFICES ASSUME NEW t \in Token, t \notin overlap PROVE Fresh(t)'
  BY DEF Orderly
<1>1. Fresh(t) /\ t # None
  BY TokenCacheAssumption DEF IInv, Orderly
<1>2. CASE t = tok[c]
  BY <1>1, <1>2, ServedStep
<1>3. CASE t # tok[c]
  BY <1>1, <1>3, Elsewhere DEF IInv
<1> QED
  BY <1>2, <1>3

(* A call that ends is at work on no token.                                  *)
LEMMA EndAlone ==
  ASSUME Shape, NEW c \in Call, End(c)
  PROVE  Alone(c) /\ pc'[c] = "idle" /\ tok'[c] = None
BY DEF End, With, Alone, Shape

(* The steps of a validation read, carry and store only its record.         *)
LEMMA ReaderOrderly ==
  ASSUME IInv, NEW c \in Reader, ReaderStep(c)
  PROVE  Orderly'
<1>0. /\ c \in Call /\ c \notin Admin /\ Shape /\ Orderly /\ UNCHANGED <<hist, warm, pending, overlap>>
      /\ pc[c] \in {"hot", "touch", "warm", "promote", "db"}
  BY TokenCacheAssumption DEF Call, IInv, Aged, ReaderStep, GetHot, Touch, GetWarm, Promote, GetByToken,
     GetByTokenFails, At, caches
<1>1. tok[c] \in Token
  BY <1>0 DEF IInv, Aged, Carried, Carry
<1>2. tok[c] \notin overlap =>
        /\ Fresh(tok[c])
        /\ hot[tok[c]] # None => hot[tok[c]].version = Latest(tok[c])
        /\ warm[tok[c]] # None => warm[tok[c]].version = Latest(tok[c])
  BY <1>0, <1>1, NobodyChanges DEF Orderly
<1>3. tok[c] \notin overlap /\ pc[c] \in Carrying => got[c] = Latest(tok[c])
  BY <1>0, <1>1 DEF Orderly, Fresh
<1>4. CASE GetHot(c)
  <2>1. Alone(c) /\ tok' = tok /\ UNCHANGED hot /\ (pc'[c] \in Carrying => hot[tok[c]] # None /\ got'[c] = hot[tok[c]].version)
    BY <1>0, <1>4 DEF GetHot, Goto, With, Alone, Shape, Carrying, HotHit, caches
  <2>2. tok[c] \notin overlap /\ pc'[c] \in Carrying => got'[c] = Latest(tok[c])
    BY <1>2, <2>1
  <2> QED
    BY <1>0, <1>1, <2>1, <2>2, QuietOrderly
<1>5. CASE GetWarm(c)
  <2>1. Alone(c) /\ tok' = tok /\ UNCHANGED hot /\ (pc'[c] \in Carrying => warm[tok[c]] # None /\ got'[c] = warm[tok[c]].version)
    BY <1>0, <1>5 DEF GetWarm, Goto, With, Alone, Shape, Carrying, WarmHit, caches
  <2>2. tok[c] \notin overlap /\ pc'[c] \in Carrying => got'[c] = Latest(tok[c])
    BY <1>2, <2>1
  <2> QED
    BY <1>0, <1>1, <2>1, <2>2, QuietOrderly
<1>6. CASE GetByToken(c)
  <2>1. UNCHANGED hot
    BY <1>6 DEF GetByToken, caches
  <2>2. CASE Reply(c, Register!Denied)
    BY <1>0, <1>1, <2>1, <2>2, EndAlone, QuietOrderly DEF Reply, Carrying
  <2>3. CASE With(c, Latest(tok[c])) /\ Goto(c, "fill")
    <3>1. Alone(c) /\ tok' = tok /\ got'[c] = Latest(tok[c])
      BY <1>0, <2>3 DEF Goto, With, Alone, Shape
    <3> QED
      BY <1>0, <1>1, <2>1, <3>1, QuietOrderly
  <2> QED
    BY <1>6, <2>2, <2>3 DEF GetByToken
<1>7. CASE GetByTokenFails(c)
  <2>1. UNCHANGED hot /\ End(c)
    BY <1>7 DEF GetByTokenFails, Reply, caches
  <2> QED
    BY <1>0, <1>1, <2>1, EndAlone, QuietOrderly DEF Carrying
<1>8. ASSUME Judge(c) PROVE Alone(c) /\ tok'[c] \in {tok[c], None} /\ pc'[c] \notin Carrying
  <2>1. CASE Goto(c, "unhot") /\ UNCHANGED got
    BY <1>0, <2>1 DEF Goto, Alone, Shape, Carrying
  <2>2. CASE End(c)
    BY <1>0, <2>2, EndAlone DEF Carrying
  <2> QED
    BY <1>8, <2>1, <2>2 DEF Judge, Reply
<1>9. CASE Touch(c)
  <2>1. UNCHANGED hot /\ Judge(c)
    BY <1>9 DEF Touch
  <2> QED
    BY <1>0, <1>1, <1>8, <2>1, QuietOrderly
<1>10. CASE Promote(c)
  <2>1. SetHot(tok[c], got[c]) /\ Judge(c) /\ pc[c] = "promote" /\ got[c] \in Nat
    BY <1>10, <1>0 DEF Promote, At, IInv, Aged, Carried, Carry, Held, HeldIn, Shape
  <2>2. hot'[tok[c]] = Item(got[c]) /\ \A x \in Token \ {tok[c]} : hot'[x] \in {hot[x], None}
    BY <1>0, <1>1, <2>1, SetHotIs
  <2>3. SUFFICES ASSUME NEW t \in Token, t \notin overlap PROVE Fresh(t)'
    BY <1>0 DEF Orderly
  <2>4. CASE t = tok[c]
    <3>1. hot'[tok[c]].version = Latest(tok[c])
      BY <1>3, <2>1, <2>2, <2>3, <2>4 DEF Item, Carrying
    <3>2. Alone(c) /\ tok'[c] \in {tok[c], None} /\ pc'[c] \notin Carrying
      BY <1>8, <2>1
    <3>3. Fresh(tok[c])
      BY <1>2, <2>3, <2>4
    <3> QED
      BY <1>0, <1>1, <2>4, <3>1, <3>2, <3>3, ServedStep
  <2>5. CASE t # tok[c]
    BY <1>0, <1>8, <2>1, <2>2, <2>3, <2>5, Elsewhere, TokenCacheAssumption
  <2> QED
    BY <2>4, <2>5
<1> QED
  BY <1>4, <1>5, <1>6, <1>7, <1>9, <1>10 DEF ReaderStep

(* Filling the caches and queueing a write.                                 *)
LEMMA FillOrderly ==
  ASSUME IInv, NEW c \in Call, Fill(c)
  PROVE  Orderly'
<1>1. /\ SetHot(tok[c], got[c]) /\ UNCHANGED <<hist, warm, pending, overlap, tok, got>>
      /\ pc[c] = "fill" /\ pc' = [pc EXCEPT ![c] = "submit"] /\ Shape
  BY DEF Fill, Goto, At, IInv, Aged
<1>2. tok[c] \in Token /\ got[c] \in Nat
  <2>1. tok[c] \in Token /\ Held(tok[c], got[c], now, 1)
    BY <1>1 DEF IInv, Aged, Carried, Carry
  <2> QED
    BY <1>1, <2>1 DEF Held, HeldIn, Shape
<1>3. hot'[tok[c]] = Item(got[c]) /\ \A x \in Token \ {tok[c]} : hot'[x] \in {hot[x], None}
  BY <1>1, <1>2, SetHotIs
<1>4. Alone(c) /\ pc'[c] = "submit"
  BY <1>1 DEF Alone, Shape
<1> SUFFICES ASSUME NEW t \in Token, t \notin overlap PROVE Fresh(t)'
  BY <1>1 DEF Orderly
<1>5. CASE t = tok[c]
  <2>1. Fresh(t) /\ got[c] = Latest(t)
    BY <1>1, <1>5 DEF IInv, Orderly, Fresh, Carrying
  <2>2. hot'[t].version = Latest(t)
    BY <1>3, <1>5, <2>1 DEF Item
  <2> QED
    BY <1>1, <1>4, <1>5, <2>1, <2>2, ServedStep DEF Changing
<1>6. CASE t # tok[c]
  BY <1>1, <1>3, <1>4, <1>6, Elsewhere DEF IInv
<1> QED
  BY <1>5, <1>6

(* Queueing the write, or giving up on a full queue.                         *)
LEMMA SubmitOrderly ==
  ASSUME IInv, NEW c \in Call, Submit(c)
  PROVE  Orderly'
<1>1. /\ pending' \subseteq pending \cup {Task(c)} /\ UNCHANGED <<hist, hot, warm, overlap>>
      /\ pc[c] = "submit" /\ End(c) /\ Shape
  BY DEF Submit, Submitted, Reply, Done, caches, At, IInv, Aged
<1>2. Alone(c) /\ pc'[c] = "idle" /\ tok'[c] = None /\ tok[c] \in Token
  BY <1>1, EndAlone DEF IInv, Aged, Carried, Carry
<1> SUFFICES ASSUME NEW t \in Token, t \notin overlap PROVE Fresh(t)'
  BY <1>1 DEF Orderly
<1>3. t # None
  BY TokenCacheAssumption
<1>4. CASE t = tok[c]
  <2>1. Fresh(t) /\ got[c] = Latest(t)
    BY <1>1, <1>4 DEF IInv, Orderly, Fresh, Carrying
  <2>2. \A k \in pending' \ pending : k.version = Latest(t)
    BY <1>1, <2>1 DEF Task
  <2> QED
    BY <1>1, <1>2, <1>4, <2>1, <2>2, ServedStep DEF Changing, Carrying
<1>5. CASE t # tok[c]
  <2>1. \A k \in pending' : k.token = t => k \in pending
    BY <1>1, <1>5 DEF Task
  <2> QED
    BY <1>1, <1>2, <1>3, <1>5, <2>1, Elsewhere DEF IInv
<1> QED
  BY <1>4, <1>5

(* The row of an update: the writer is alone or the token has an overlap.   *)
LEMMA UpdateRowOrderly ==
  ASSUME IInv, NEW c \in Call, UpdateRow(c)
  PROVE  Orderly'
<1>1. /\ pc[c] = "write" /\ pc' = [pc EXCEPT ![c] = "reread"]
      /\ UNCHANGED <<tok, got, hot, warm, pending>> /\ Shape
  BY DEF UpdateRow, At, Goto, caches, IInv, Aged
<1>2. tok[c] \in Token /\ c \in Admin /\ Alone(c) /\ pc'[c] = "reread"
  BY <1>1 DEF IInv, Aged, Carried, Carry, Alone, Shape, Call
<1> SUFFICES ASSUME NEW t \in Token, t \notin overlap' PROVE Fresh(t)'
  BY DEF Orderly
<1>3. CASE Active(tok[c])
  <2>1. PICK e \in Expiry : Change(c, tok[c], NewRow(e))
    BY <1>3 DEF UpdateRow
  <2>2. t \notin overlap
    BY <2>1 DEF Change
  <2>3. CASE t = tok[c]
    <3>1. AtWork(t) \ {c} = {} /\ Writing(t) = {}
      BY <2>1, <2>3 DEF Change
    <3> QED
      BY <1>1, <1>2, <2>3, <3>1, WriterStep
  <2>4. CASE t # tok[c]
    <3>1. hist'[t] = hist[t]
      BY <1>1, <1>2, <2>1, <2>4, NewRowIs, Superseded DEF Change
    <3> QED
      BY <1>1, <1>2, <2>2, <2>4, <3>1, Elsewhere DEF IInv
  <2> QED
    BY <2>3, <2>4
<1>4. CASE ~Active(tok[c])
  <2>1. UNCHANGED <<hist, overlap>>
    BY <1>4 DEF UpdateRow
  <2>2. t # tok[c]
    BY <1>1, <1>2, <1>4, <2>1 DEF IInv, Orderly, Fresh
  <2> QED
    BY <1>1, <1>2, <2>1, <2>2, Elsewhere DEF IInv
<1> QED
  BY <1>3, <1>4

(* A failed statement changes nothing.                                       *)
LEMMA UpdateRowFailsOrderly ==
  ASSUME IInv, NEW c \in Call, UpdateRowFails(c)
  PROVE  Orderly'
<1>1. pc[c] = "write" /\ End(c) /\ UNCHANGED <<hist, hot, warm, pending, overlap>> /\ Shape
  BY DEF UpdateRowFails, At, Done, caches, IInv, Aged
<1>2. tok[c] \in Token /\ Alone(c) /\ pc'[c] = "idle" /\ tok'[c] = None
  BY <1>1, EndAlone DEF IInv, Aged, Carried, Carry
<1> QED
  BY <1>1, <1>2, QuietOrderly DEF Changing, Carrying

(* An update that returns before the invalidation marks its token.          *)
LEMMA ReturnsEarlyOrderly ==
  ASSUME IInv, NEW c \in Call, ReturnsEarly(c)
  PROVE  Orderly'
<1>1. End(c) /\ UNCHANGED <<hist, hot, warm, pending>> /\ overlap' = overlap \cup {tok[c]} /\ Shape
  BY DEF ReturnsEarly, Done, caches, IInv, Aged
<1>2. Alone(c) /\ tok'[c] = None
  BY <1>1, EndAlone
<1> SUFFICES ASSUME NEW t \in Token, t \notin overlap' PROVE Fresh(t)'
  BY DEF Orderly
<1>3. t \notin overlap /\ t # tok[c] /\ t # None
  BY <1>1, TokenCacheAssumption
<1> QED
  BY <1>1, <1>2, <1>3, Elsewhere DEF IInv

(* An update that goes on is about to invalidate.                            *)
LEMMA UpdateGoesOnOrderly ==
  ASSUME IInv, NEW c \in Call, Reread(c) \/ QuotaUpdated(c)
  PROVE  Orderly'
<1>1. /\ \E next \in {"quota", "unhot"} : pc' = [pc EXCEPT ![c] = next]
      /\ UNCHANGED <<tok, got, hist, hot, warm, pending, overlap>>
      /\ pc[c] \in {"reread", "quota"} /\ Shape
  BY DEF Reread, QuotaUpdated, Goto, caches, At, IInv, Aged
<1>2. tok[c] \in Token /\ c \in Admin /\ Alone(c) /\ pc'[c] \in {"quota", "unhot"}
  BY <1>1 DEF IInv, Aged, Carried, Carry, Alone, Shape, Call
<1> SUFFICES ASSUME NEW t \in Token, t \notin overlap PROVE Fresh(t)'
  BY <1>1 DEF Orderly
<1>3. CASE t = tok[c]
  <2>1. Fresh(t) /\ pc[c] \in Changing
    BY <1>1 DEF IInv, Orderly, Changing
  <2> QED
    BY <1>1, <1>2, <1>3, <2>1, InvalidationStep
<1>4. CASE t # tok[c]
  BY <1>1, <1>2, <1>4, Elsewhere DEF IInv
<1> QED
  BY <1>3, <1>4

(* The two halves of an invalidation, or of the removal of an old record.   *)
LEMMA DeleteHotOrderly ==
  ASSUME IInv, NEW c \in Call, DeleteHot(c)
  PROVE  Orderly'
<1>1. /\ pc[c] = "unhot" /\ pc' = [pc EXCEPT ![c] = "unwarm"]
      /\ hot' = [hot EXCEPT ![tok[c]] = None]
      /\ UNCHANGED <<tok, got, hist, warm, pending, overlap>> /\ Shape
  BY DEF DeleteHot, At, Goto, DropHot, IInv, Aged
<1>2. /\ tok[c] \in Token /\ Alone(c) /\ pc'[c] = "unwarm" /\ hot'[tok[c]] = None
      /\ \A x \in Token \ {tok[c]} : hot'[x] = hot[x]
  BY <1>1 DEF IInv, Aged, Carried, Carry, Alone, Shape
<1> SUFFICES ASSUME NEW t \in Token, t \notin overlap PROVE Fresh(t)'
  BY <1>1 DEF Orderly
<1>3. Fresh(t)
  BY DEF IInv, Orderly
<1>4. CASE t = tok[c] /\ c \in Admin
  BY <1>1, <1>2, <1>3, <1>4, InvalidationStep DEF Changing
<1>5. CASE t = tok[c] /\ c \notin Admin
  BY <1>1, <1>2, <1>3, <1>5, ServedStep DEF Carrying
<1>6. CASE t # tok[c]
  BY <1>1, <1>2, <1>6, Elsewhere DEF IInv
<1> QED
  BY <1>4, <1>5, <1>6

(* The second half, which ends the invalidation.                             *)
LEMMA DeleteWarmOrderly ==
  ASSUME IInv, NEW c \in Call, DeleteWarm(c)
  PROVE  Orderly'
<1>1. /\ pc[c] = "unwarm" /\ End(c) /\ UNCHANGED <<hist, hot, pending>> /\ Shape
      /\ \/ warm' = [warm EXCEPT ![tok[c]] = None] /\ UNCHANGED overlap
         \/ UNCHANGED warm /\ overlap' = overlap \cup {tok[c]}
  BY DEF DeleteWarm, At, DropWarm, Reply, Done, IInv, Aged
<1>2. tok[c] \in Token /\ Alone(c) /\ pc'[c] = "idle" /\ tok'[c] = None
  BY <1>1, EndAlone DEF IInv, Aged, Carried, Carry
<1> SUFFICES ASSUME NEW t \in Token, t \notin overlap' PROVE Fresh(t)'
  BY DEF Orderly
<1>3. t \notin overlap /\ Fresh(t) /\ t # None
  BY <1>1, TokenCacheAssumption DEF IInv, Orderly
<1>4. t = tok[c] => warm'[t] = None
  BY <1>1, <1>2 DEF Shape
<1>5. CASE t = tok[c] /\ c \in Admin
  BY <1>1, <1>2, <1>3, <1>4, <1>5, InvalidatedStep
<1>6. CASE t = tok[c] /\ c \notin Admin
  BY <1>1, <1>2, <1>3, <1>4, <1>6, ServedStep DEF Carrying
<1>7. CASE t # tok[c]
  <2>1. warm'[t] = warm[t]
    BY <1>1, <1>7 DEF Shape
  <2> QED
    BY <1>1, <1>2, <1>3, <1>7, <2>1, Elsewhere DEF IInv
<1> QED
  BY <1>5, <1>6, <1>7

(* A call that was idle has no token until it begins.                       *)
LEMMA BeginAlone ==
  ASSUME IInv, NEW c \in Call, NEW t \in Token \cup {None}, NEW where, Begin(c, t, where),
         \A x \in Call \ {c} : got'[x] = got[x]
  PROVE  tok[c] = None /\ Alone(c) /\ tok'[c] = t /\ pc'[c] = where
BY DEF Begin, At, IInv, Resting, Aged, Shape, Alone

(* Calls that begin without a change; a validation or an update that begins *)
(* during a change marks its token.                                         *)
LEMMA BeginOrderly ==
  ASSUME IInv, NEW c \in Call, NEW s \in Token, NEW where \in {"hot", "write"}, Begin(c, s, where),
         UNCHANGED <<hist, hot, warm, pending, got>>, overlap' = overlap \cup {x \in {s} : Dirty(s)},
         where = "write" => Active(s)
  PROVE  Orderly'
<1>1. tok[c] = None /\ Alone(c) /\ tok'[c] = s /\ pc'[c] = where
  BY BeginAlone
<1> SUFFICES ASSUME NEW t \in Token, t \notin overlap' PROVE Fresh(t)'
  BY DEF Orderly
<1>2. t \notin overlap /\ Fresh(t) /\ t # None
  BY TokenCacheAssumption DEF IInv, Orderly
<1>3. CASE t = s
  BY <1>1, <1>2, <1>3, NewcomerStep
<1>4. CASE t # s
  BY <1>1, <1>2, <1>4, Elsewhere DEF IInv
<1> QED
  BY <1>3, <1>4

(* A new token: no record of it is anywhere, and nobody else works on it.   *)
LEMMA CreateTokenOrderly ==
  ASSUME IInv, NEW c \in Admin, NEW s \in Managed, CreateToken(c, s)
  PROVE  Orderly'
<1>1. s \in Token /\ c \in Call /\ Shape /\ Admin \subseteq Call
  BY TokenCacheAssumption DEF Call, IInv, Aged
<1>2. /\ Begin(c, s, "fill") /\ hist[s] = <<>> /\ With(c, 1)
      /\ UNCHANGED <<now, hot, warm, pending>>
  BY DEF CreateToken, caches
<1>3. PICK e \in Expiry : Change(c, s, NewRow(e))
  BY DEF CreateToken
<1>4. got'[c] = 1 /\ \A x \in Call \ {c} : got'[x] = got[x]
  BY <1>1, <1>2 DEF With, Shape
<1>5. tok[c] = None /\ Alone(c) /\ tok'[c] = s /\ pc'[c] = "fill"
  BY <1>1, <1>2, <1>4, BeginAlone
<1> SUFFICES ASSUME NEW t \in Token, t \notin overlap' PROVE Fresh(t)'
  BY DEF Orderly
<1>6. t \notin overlap /\ t # None
  BY <1>3, TokenCacheAssumption DEF Change
<1>7. CASE t = s
  <2>1. AtWork(t) \ {c} = {} /\ Writing(t) = {}
    BY <1>3, <1>7 DEF Change
  <2>2. Len(hist[t]) = 0 /\ Latest(t)' = 1
    <3>1. Len(hist[t]) = 0
      BY <1>2, <1>7
    <3>2. Len(hist'[t]) = Len(hist[t]) + 1
      BY <1>1, <1>3, <1>7, NewRowIs, Superseded DEF Change
    <3> QED
      BY <3>1, <3>2 DEF Latest
  <2>3. hot[t] = None /\ warm[t] = None
    BY <2>2 DEF IInv, Aged, Stocked, Held, HeldIn
  <2>4. (\A x \in Call \ {c} : tok'[x] # t) /\ (\A k \in pending' : k.token # t)
    BY <1>2, <1>5, <2>1 DEF AtWork, Writing, Alone
  <2>5. pc'[c] \notin Changing /\ pc'[c] # "write" /\ got'[c] = Latest(t)'
    BY <1>4, <1>5, <2>2 DEF Changing
  <2> QED
    BY <1>1, <1>2, <2>3, <2>4, <2>5 DEF Fresh, Changing, Carrying
<1>8. CASE t # s
  <2>1. hist'[t] = hist[t]
    BY <1>1, <1>3, <1>8, NewRowIs, Superseded DEF Change
  <2> QED
    BY <1>1, <1>2, <1>5, <1>6, <1>8, <2>1, Elsewhere DEF IInv
<1> QED
  BY <1>7, <1>8

(* A deletion changes its row like an update and then invalidates.           *)
LEMMA DeleteTokenOrderly ==
  ASSUME IInv, NEW c \in Admin, NEW s \in Managed, DeleteToken(c, s)
  PROVE  Orderly'
<1> DEFINE r == [hist[s][Latest(s)] EXCEPT !.active = FALSE]
<1>1. s \in Token /\ c \in Call /\ Shape
  BY TokenCacheAssumption DEF Call, IInv, Aged
<1>2. Begin(c, s, "unhot") /\ UNCHANGED <<now, hot, warm, pending, got>> /\ Change(c, s, r)
  BY DEF DeleteToken, caches
<1>3. r \in Rec
  <2>1. Latest(s) \in 1 .. Len(hist[s])
    BY <1>1 DEF DeleteToken, Active, Latest, Shape
  <2>2. hist[s][Latest(s)] \in Rec
    BY <1>1, <2>1 DEF Shape
  <2> QED
    BY <2>2 DEF Rec
<1> HIDE DEF r
<1>4. tok[c] = None /\ Alone(c) /\ tok'[c] = s /\ pc'[c] = "unhot"
  BY <1>1, <1>2, BeginAlone
<1> SUFFICES ASSUME NEW t \in Token, t \notin overlap' PROVE Fresh(t)'
  BY DEF Orderly
<1>5. t \notin overlap /\ t # None
  BY <1>2, TokenCacheAssumption DEF Change
<1>6. CASE t = s
  <2>1. AtWork(t) \ {c} = {} /\ Writing(t) = {}
    BY <1>2, <1>6 DEF Change
  <2> QED
    BY <1>2, <1>4, <1>6, <2>1, WriterStep
<1>7. CASE t # s
  <2>1. hist'[t] = hist[t]
    BY <1>1, <1>2, <1>3, <1>7, Superseded DEF Change
  <2> QED
    BY <1>1, <1>2, <1>4, <1>5, <1>7, <2>1, Elsewhere DEF IInv
<1> QED
  BY <1>6, <1>7

(* Clearing the caches works on no token in particular.                     *)
LEMMA ClearOrderly ==
  ASSUME IInv, NEW c \in Call, (c \in Admin /\ ClearAll(c)) \/ Keys(c) \/ DelKeys(c)
  PROVE  Orderly'
<1>1. Shape /\ Resting /\ UNCHANGED <<hist, pending, overlap>>
  BY DEF ClearAll, Keys, DelKeys, caches, IInv, Aged
<1>2. hot' = hot \/ hot' = [t \in Token |-> None]
  BY DEF ClearAll, Keys, DelKeys, caches
<1>3. warm' = warm \/ \E S : warm' = [t \in Token |-> IF t \in S THEN None ELSE warm[t]]
  BY DEF ClearAll, Keys, DelKeys, caches
<1>4. tok[c] = None /\ tok'[c] = None /\ Alone(c)
  <2>1. CASE ClearAll(c)
    <3>1. Begin(c, None, "keys") /\ UNCHANGED got
      BY <2>1 DEF ClearAll
    <3> QED
      BY <3>1, BeginAlone
  <2>2. CASE Keys(c) \/ DelKeys(c)
    <3>1. pc[c] \in {"keys", "del"}
      BY <2>2 DEF Keys, DelKeys, At
    <3>2. tok[c] = None
      BY <1>1, <3>1 DEF Resting
    <3>3. CASE End(c)
      BY <1>1, <3>2, <3>3, EndAlone
    <3>4. CASE With(c, {t \in Token : WarmHit(t)}) /\ Goto(c, "del")
      BY <1>1, <3>2, <3>4 DEF With, Goto, Alone, Shape
    <3> QED
      BY <2>2, <3>3, <3>4 DEF Keys, DelKeys, Done
  <2> QED
    BY <2>1, <2>2
<1> SUFFICES ASSUME NEW t \in Token, t \notin overlap PROVE Fresh(t)'
  BY <1>1 DEF Orderly
<1>5. t # None /\ hot'[t] \in {hot[t], None} /\ warm'[t] \in {warm[t], None}
  BY <1>2, <1>3, TokenCacheAssumption
<1> QED
  BY <1>1, <1>4, <1>5, Elsewhere DEF IInv

(* A queued write of a token without an overlap carries its record.         *)
LEMMA RunTaskOrderly ==
  ASSUME IInv, NEW k \in pending, RunTask(k)
  PROVE  Orderly'
<1>1. /\ pending' = pending \ {k} /\ UNCHANGED <<hist, hot, pc, tok, got, overlap>> /\ Shape
      /\ warm' = [warm EXCEPT ![k.token] = Item(k.version)] \/ warm' = warm
  BY DEF RunTask, register, calls, IInv, Aged
<1> SUFFICES ASSUME NEW t \in Token, t \notin overlap PROVE Fresh(t)'
  BY <1>1 DEF Orderly
<1>2. Fresh(t) /\ Latest(t)' = Latest(t) /\ Active(t)' = Active(t)
  BY <1>1 DEF IInv, Orderly, Latest, Active
<1>3. CASE warm'[t] = warm[t]
  BY <1>1, <1>2, <1>3, FreshKept
<1>4. CASE warm'[t] # warm[t]
  <2>1. k.token = t /\ warm'[t] = Item(k.version)
    BY <1>1, <1>4 DEF Shape
  <2>2. warm'[t].version = Latest(t)
    BY <1>2, <2>1 DEF Fresh, Item
  <2> QED
    BY <1>1, <1>2, <2>2 DEF Fresh, Changing, Carrying
<1> QED
  BY <1>3, <1>4

(* Time and cleanup only let items go.                                      *)
LEMMA IdleOrderly ==
  ASSUME IInv, Tick \/ Cleanup \/ UNCHANGED vars
  PROVE  Orderly'
<1>1. UNCHANGED <<hist, warm, pending, pc, tok, got, overlap>>
  BY DEF Tick, Cleanup, vars, register, caches, calls
<1>2. hot' = hot \/ \A t \in Token : hot'[t] \in {hot[t], None}
  BY CleanupIs DEF Tick, vars, caches, IInv, Aged
<1> SUFFICES ASSUME NEW t \in Token, t \notin overlap PROVE Fresh(t)'
  BY <1>1 DEF Orderly
<1>3. Fresh(t) /\ hot'[t] \in {hot[t], None}
  BY <1>2 DEF IInv, Orderly
<1> QED
  BY <1>1, <1>3, FreshKept

(* Calls that end or clear have no token.                                   *)
LEMMA NextResting == IInv /\ [Next]_vars => Resting'
<1> SUFFICES ASSUME IInv, [Next]_vars PROVE Resting'
  OBVIOUS
<1>1. Shape /\ Resting
  BY DEF IInv, Aged
<1>2. ASSUME NEW c \in Call, \A x \in Call \ {c} : pc'[x] = pc[x] /\ tok'[x] = tok[x],
             pc'[c] \in {"idle", "keys", "del"} => tok'[c] = None
      PROVE  Resting'
  BY <1>1, <1>2 DEF Resting
<1>3. ASSUME NEW c \in Call, NEW t, NEW where, Begin(c, t, where), t = None \/ where \notin {"idle", "keys", "del"}
      PROVE  Resting'
  <2>1. /\ \A x \in Call \ {c} : pc'[x] = pc[x] /\ tok'[x] = tok[x]
        /\ pc'[c] = where /\ tok'[c] = t
    BY <1>1, <1>3 DEF Begin, Shape
  <2> QED
    BY <1>2, <1>3, <2>1
<1>4. ASSUME NEW c \in Call, End(c) PROVE Resting'
  <2>1. Alone(c) /\ tok'[c] = None
    BY <1>1, <1>4, EndAlone
  <2> QED
    BY <1>2, <2>1 DEF Alone
<1>5. ASSUME NEW c \in Call, NEW where, Goto(c, where), where \notin {"idle", "keys", "del"} \/ pc[c] = "keys"
      PROVE  Resting'
  <2>1. pc' = [pc EXCEPT ![c] = where] /\ tok' = tok
    BY <1>5 DEF Goto
  <2>2. pc'[c] = where /\ \A x \in Call \ {c} : pc'[x] = pc[x] /\ tok'[x] = tok[x]
    BY <1>1, <2>1 DEF Shape
  <2>3. pc[c] = "keys" => tok'[c] = None
    BY <1>1, <2>1 DEF Resting
  <2> QED
    BY <1>2, <1>5, <2>2, <2>3
<1>6. ASSUME NEW c \in Reader, NEW t \in Token, ValidateToken(c, t) PROVE Resting'
  BY <1>3, <1>6 DEF ValidateToken, Call
<1>7. ASSUME NEW c \in Admin, NEW t \in Managed, CreateToken(c, t) \/ UpdateToken(c, t) \/ DeleteToken(c, t) PROVE Resting'
  BY <1>3, <1>7 DEF CreateToken, UpdateToken, DeleteToken, Call
<1>8. ASSUME NEW c \in Admin, ClearAll(c) PROVE Resting'
  BY <1>3, <1>8 DEF ClearAll, Call
<1>9. ASSUME NEW c \in Reader, ReaderStep(c) PROVE Resting'
  BY <1>4, <1>5, <1>9 DEF ReaderStep, GetHot, Touch, GetWarm, Promote, GetByToken, GetByTokenFails, Judge, Reply, Call
<1>10. ASSUME NEW c \in Call, CallStep(c) PROVE Resting'
  <2>1. CASE Fill(c) \/ UpdateRow(c) \/ Reread(c) \/ QuotaUpdated(c) \/ DeleteHot(c)
    BY <1>5, <2>1 DEF Fill, UpdateRow, Reread, QuotaUpdated, DeleteHot
  <2>2. CASE Submit(c) \/ UpdateRowFails(c) \/ ReturnsEarly(c) \/ DeleteWarm(c) \/ DelKeys(c)
    BY <1>4, <2>2 DEF Submit, Submitted, UpdateRowFails, ReturnsEarly, DeleteWarm, DelKeys, Reply, Done
  <2>3. CASE Keys(c)
    BY <1>4, <1>5, <2>3 DEF Keys, Done, At
  <2> QED
    BY <1>10, <2>1, <2>2, <2>3 DEF CallStep
<1>11. CASE (\E k \in pending : RunTask(k)) \/ Tick \/ Cleanup \/ UNCHANGED vars
  BY <1>1, <1>11 DEF RunTask, Tick, Cleanup, vars, calls, Resting
<1> QED
  BY <1>6, <1>7, <1>8, <1>9, <1>10, <1>11 DEF Next

(* Every step keeps the tokens without an overlap in order.                  *)
LEMMA NextOrderly == IInv /\ [Next]_vars => Orderly'
<1> SUFFICES ASSUME IInv, [Next]_vars PROVE Orderly'
  OBVIOUS
<1>1. ASSUME NEW c \in Reader, NEW t \in Token, ValidateToken(c, t) PROVE Orderly'
  <2>1. /\ c \in Call /\ Begin(c, t, "hot") /\ overlap' = overlap \cup {x \in {t} : Dirty(t)}
        /\ UNCHANGED <<hist, hot, warm, pending, got>>
    BY <1>1 DEF ValidateToken, caches, Call
  <2> QED
    BY <2>1, BeginOrderly
<1>2. ASSUME NEW c \in Admin, NEW t \in Managed, UpdateToken(c, t) PROVE Orderly'
  <2>1. /\ c \in Call /\ Begin(c, t, "write") /\ overlap' = overlap \cup {x \in {t} : Dirty(t)}
        /\ UNCHANGED <<hist, hot, warm, pending, got>> /\ Active(t) /\ t \in Token
    BY <1>2, TokenCacheAssumption DEF UpdateToken, caches, Call
  <2> QED
    BY <2>1, BeginOrderly
<1>3. ASSUME NEW c \in Admin, NEW t \in Managed, CreateToken(c, t) \/ DeleteToken(c, t) PROVE Orderly'
  BY <1>3, CreateTokenOrderly, DeleteTokenOrderly
<1>4. ASSUME NEW c \in Reader, ReaderStep(c) PROVE Orderly'
  BY <1>4, ReaderOrderly
<1>5. ASSUME NEW c \in Admin, ClearAll(c) PROVE Orderly'
  BY <1>5, ClearOrderly DEF Call
<1>6. ASSUME NEW c \in Call, CallStep(c) PROVE Orderly'
  BY <1>6, FillOrderly, SubmitOrderly, UpdateRowOrderly, UpdateRowFailsOrderly, UpdateGoesOnOrderly,
     ReturnsEarlyOrderly, DeleteHotOrderly, DeleteWarmOrderly, ClearOrderly DEF CallStep
<1>7. ASSUME NEW k \in pending, RunTask(k) PROVE Orderly'
  BY <1>7, RunTaskOrderly
<1>8. CASE Tick \/ Cleanup \/ UNCHANGED vars
  BY <1>8, IdleOrderly
<1> QED
  BY <1>1, <1>2, <1>3, <1>4, <1>5, <1>6, <1>7, <1>8 DEF Next

(* At the start there is nothing to be stale.                                *)
LEMMA InitOrderly == Init => Resting /\ Orderly
BY DEF Init, Resting, Orderly, Fresh, Changing, Carrying, Call

(* The inductive invariant of both properties.                              *)
THEOREM CachesInductive == Spec => []IInv
<1>1. Init => IInv
  BY InitAged, InitOrderly DEF IInv
<1>2. IInv /\ [Next]_vars => IInv'
  BY NextAged, NextResting, NextOrderly DEF IInv
<1> QED
  BY <1>1, <1>2, PTL DEF Spec

(* A cached record that is not the token's record any more belongs to an    *)
(* invalidation that still runs or to a token with an overlap: alone,       *)
(* UpdateToken and DeleteToken leave nothing stale in either cache.         *)
THEOREM StaleOnlyByOverlap == Spec => []StaleNeedsOverlap
<1>1. IInv => StaleNeedsOverlap
  BY DEF IInv, Orderly, Fresh, StaleNeedsOverlap, Dirty
<1> QED
  BY <1>1, CachesInductive, PTL

-----------------------------------------------------------------------------
(***************************************************************************)
(* The hot cache: its list, its index and its map.                         *)
(***************************************************************************)

(* A list after the removal of its p-th element.                             *)
LEMMA RemovedList ==
  ASSUME NEW S, NEW list \in Seq(S), NEW p \in 1 .. Len(list)
  PROVE  /\ RemoveAt(list, p) \in Seq(S) /\ Len(RemoveAt(list, p)) = Len(list) - 1
         /\ \A j \in 1 .. p - 1 : RemoveAt(list, p)[j] = list[j]
         /\ \A j \in p .. Len(list) - 1 : RemoveAt(list, p)[j] = list[j + 1]
<1>1. Len(list) \in Nat /\ p \in Int
  BY LenProperties
<1>2. PICK a : a = SubSeq(list, 1, p - 1)
  OBVIOUS
<1>3. PICK b : b = SubSeq(list, p + 1, Len(list))
  OBVIOUS
<1>4. a \in Seq(S) /\ Len(a) = p - 1 /\ \A j \in 1 .. p - 1 : a[j] = list[j]
  <2>1. \A i \in 1 .. p - 1 : list[i] \in S
    BY <1>1, ElementOfSeq
  <2>2. 1 \in Int /\ p - 1 \in Int
    BY <1>1
  <2>3. /\ SubSeq(list, 1, p - 1) \in Seq(S)
        /\ Len(SubSeq(list, 1, p - 1)) = IF 1 <= p - 1 THEN (p - 1) - 1 + 1 ELSE 0
        /\ \A i \in 1 .. (p - 1) - 1 + 1 : SubSeq(list, 1, p - 1)[i] = list[1 + i - 1]
    BY <2>1, <2>2, SubSeqProperties
  <2> QED
    BY <1>1, <1>2, <2>3
<1>5. b \in Seq(S) /\ Len(b) = Len(list) - p /\ \A j \in 1 .. Len(list) - p : b[j] = list[j + p]
  <2>1. \A i \in p + 1 .. Len(list) : list[i] \in S
    BY <1>1, ElementOfSeq
  <2>2. p + 1 \in Int /\ Len(list) \in Int
    BY <1>1
  <2>3. /\ SubSeq(list, p + 1, Len(list)) \in Seq(S)
        /\ Len(SubSeq(list, p + 1, Len(list))) = IF p + 1 <= Len(list) THEN Len(list) - (p + 1) + 1 ELSE 0
        /\ \A i \in 1 .. Len(list) - (p + 1) + 1 : SubSeq(list, p + 1, Len(list))[i] = list[(p + 1) + i - 1]
    BY <2>1, <2>2, SubSeqProperties
  <2> QED
    BY <1>1, <1>3, <2>3
<1>6. PICK rest : rest = a \o b
  OBVIOUS
<1>7. /\ rest \in Seq(S) /\ Len(rest) = Len(a) + Len(b)
      /\ \A i \in 1 .. Len(a) + Len(b) : rest[i] = IF i <= Len(a) THEN a[i] ELSE b[i - Len(a)]
  BY <1>4, <1>5, <1>6, ConcatProperties
<1>8. Len(rest) = Len(list) - 1
  BY <1>1, <1>4, <1>5, <1>7
<1>9. ASSUME NEW j \in 1 .. p - 1 PROVE rest[j] = list[j]
  <2>1. j \in 1 .. Len(a) + Len(b) /\ j <= Len(a)
    BY <1>1, <1>4, <1>5
  <2> QED
    BY <1>4, <1>7, <2>1
<1>10. ASSUME NEW j \in p .. Len(list) - 1 PROVE rest[j] = list[j + 1]
  <2>1. j \in 1 .. Len(a) + Len(b) /\ ~(j <= Len(a)) /\ j - Len(a) \in 1 .. Len(list) - p /\ (j - Len(a)) + p = j + 1
    BY <1>1, <1>4, <1>5
  <2> QED
    BY <1>5, <1>7, <2>1
<1>11. RemoveAt(list, p) = rest
  BY <1>2, <1>3, <1>6 DEF RemoveAt
<1> QED
  BY <1>7, <1>8, <1>9, <1>10, <1>11

(* A list without repetitions of elements of S, of those in r.               *)
Lists(list, S, r) ==
  /\ list \in Seq(S)
  /\ \A i \in 1 .. Len(list) : list[i] \in r
  /\ \A x \in r : \E i \in 1 .. Len(list) : list[i] = x
  /\ \A i \in 1 .. Len(list) : \A j \in 1 .. Len(list) : list[i] = list[j] => i = j

(* That is what HotAgrees says of the list.                                  *)
LEMMA ListsIs ==
  ASSUME NEW S, NEW list \in Seq(S), NEW r
  PROVE  Lists(list, S, r) <=> Range(list) = r /\ IsInjective(list)
<1>1. DOMAIN list = 1 .. Len(list)
  BY LenProperties
<1>2. Range(list) = {list[i] : i \in 1 .. Len(list)}
  BY <1>1 DEF Range
<1>3. IsInjective(list) <=> \A i \in 1 .. Len(list) : \A j \in 1 .. Len(list) : list[i] = list[j] => i = j
  BY <1>1 DEF IsInjective
<1>4. Range(list) = r <=> /\ \A i \in 1 .. Len(list) : list[i] \in r
                          /\ \A x \in r : \E i \in 1 .. Len(list) : list[i] = x
  BY <1>2
<1> QED
  BY <1>3, <1>4 DEF Lists

(* The p-th element of such a list leaves it.                                *)
LEMMA ListsLess ==
  ASSUME NEW S, NEW r, NEW list, Lists(list, S, r), NEW p \in 1 .. Len(list)
  PROVE  Lists(RemoveAt(list, p), S, r \ {list[p]}) /\ Len(RemoveAt(list, p)) = Len(list) - 1
<1>1. list \in Seq(S) /\ Len(list) \in Nat
  BY LenProperties DEF Lists
<1>2. PICK rest : rest = RemoveAt(list, p)
  OBVIOUS
<1>3. /\ rest \in Seq(S) /\ Len(rest) = Len(list) - 1
      /\ \A j \in 1 .. p - 1 : rest[j] = list[j]
      /\ \A j \in p .. Len(list) - 1 : rest[j] = list[j + 1]
  BY <1>1, <1>2, RemovedList
<1> DEFINE Old(j) == IF j < p THEN j ELSE j + 1
<1>4. \A j \in 1 .. Len(rest) : Old(j) \in 1 .. Len(list) /\ Old(j) # p /\ rest[j] = list[Old(j)]
  <2> SUFFICES ASSUME NEW j \in 1 .. Len(rest) PROVE Old(j) \in 1 .. Len(list) /\ Old(j) # p /\ rest[j] = list[Old(j)]
    OBVIOUS
  <2>1. CASE j < p
    <3>1. j \in 1 .. p - 1
      BY <1>1, <1>3, <2>1
    <3> QED
      BY <1>1, <1>3, <2>1, <3>1
  <2>2. CASE ~(j < p)
    <3>1. j \in p .. Len(list) - 1
      BY <1>1, <1>3, <2>2
    <3> QED
      BY <1>1, <1>3, <2>2, <3>1
  <2> QED
    BY <2>1, <2>2
<1>5. \A i \in 1 .. Len(rest) : \A j \in 1 .. Len(rest) : Old(i) = Old(j) => i = j
  BY <1>1, <1>3
<1>6. \A m \in 1 .. Len(list) : m # p => \E j \in 1 .. Len(rest) : rest[j] = list[m]
  <2> SUFFICES ASSUME NEW m \in 1 .. Len(list), m # p PROVE \E j \in 1 .. Len(rest) : rest[j] = list[m]
    OBVIOUS
  <2>1. CASE m < p
    <3>1. m \in 1 .. p - 1 /\ m \in 1 .. Len(rest)
      BY <1>1, <1>3, <2>1
    <3> QED
      BY <1>3, <3>1
  <2>2. CASE m > p
    <3>1. m - 1 \in p .. Len(list) - 1 /\ m - 1 \in 1 .. Len(rest) /\ (m - 1) + 1 = m
      BY <1>1, <1>3, <2>2
    <3> QED
      BY <1>3, <3>1
  <2> QED
    BY <1>1, <2>1, <2>2
<1> HIDE DEF Old
<1>7. \A j \in 1 .. Len(rest) : rest[j] \in r \ {list[p]}
  BY <1>4 DEF Lists
<1>8. \A x \in r \ {list[p]} : \E j \in 1 .. Len(rest) : rest[j] = x
  BY <1>6 DEF Lists
<1>9. \A i \in 1 .. Len(rest) : \A j \in 1 .. Len(rest) : rest[i] = rest[j] => i = j
  <2> SUFFICES ASSUME NEW i \in 1 .. Len(rest), NEW j \in 1 .. Len(rest), rest[i] = rest[j] PROVE i = j
    OBVIOUS
  <2>1. list[Old(i)] = list[Old(j)] /\ Old(i) \in 1 .. Len(list) /\ Old(j) \in 1 .. Len(list)
    BY <1>4
  <2>2. Old(i) = Old(j)
    BY <2>1 DEF Lists
  <2> QED
    BY <1>5, <2>2
<1>10. Lists(rest, S, r \ {list[p]})
  BY <1>3, <1>7, <1>8, <1>9 DEF Lists
<1> QED
  BY <1>2, <1>3, <1>10

(* What Remove leaves of the list, if t is in it.                            *)
LEMMA ListsWithout ==
  ASSUME NEW S, NEW r, NEW list, Lists(list, S, r), NEW t
  PROVE  /\ Lists(Without(list, t), S, r \ {t}) /\ Len(Without(list, t)) <= Len(list)
         /\ (Contains(list, t) <=> t \in r)
         /\ (t \in r => Len(Without(list, t)) = Len(list) - 1)
<1>1. list \in Seq(S) /\ Len(list) \in Nat /\ DOMAIN list = 1 .. Len(list)
  BY LenProperties DEF Lists
<1>2. Contains(list, t) <=> t \in r
  BY DEF Contains, Lists
<1>3. CASE Contains(list, t)
  <2>1. PICK p : p = Place(list, t)
    OBVIOUS
  <2>2. p \in 1 .. Len(list) /\ list[p] = t
    <3>1. \E i \in DOMAIN list : list[i] = t
      BY <1>1, <1>3 DEF Contains
    <3> QED
      BY <1>1, <2>1, <3>1 DEF Place
  <2>3. Lists(RemoveAt(list, p), S, r \ {t}) /\ Len(RemoveAt(list, p)) = Len(list) - 1
    BY <2>2, ListsLess
  <2>4. Without(list, t) = RemoveAt(list, p)
    BY <1>3, <2>1 DEF Without
  <2>5. Lists(Without(list, t), S, r \ {t})
    BY <2>2, <2>3, <2>4
  <2>6. Len(Without(list, t)) = Len(list) - 1
    BY <2>3, <2>4
  <2>7. Len(Without(list, t)) <= Len(list)
    BY <1>1, <2>6
  <2> QED
    BY <1>2, <2>5, <2>6, <2>7
<1>4. CASE ~Contains(list, t)
  <2>1. Without(list, t) = list
    BY <1>4 DEF Without
  <2>3. t \notin r
    BY <1>2, <1>4
  <2>2. r \ {t} = r
    BY <2>3
  <2>4. Lists(Without(list, t), S, r \ {t})
    BY <2>1, <2>2
  <2>5. Len(Without(list, t)) <= Len(list)
    BY <1>1, <2>1
  <2> QED
    BY <1>2, <2>3, <2>4, <2>5
<1> QED
  BY <1>3, <1>4

(* The list after t was moved or put to its front.                           *)
LEMMA ListsFront ==
  ASSUME NEW S, NEW r, NEW list, Lists(list, S, r), NEW t \in S
  PROVE  /\ Lists(ToFront(list, t), S, r \cup {t}) /\ Len(ToFront(list, t)) <= Len(list) + 1
         /\ (t \in r => Len(ToFront(list, t)) = Len(list))
<1>1. PICK rest : rest = Without(list, t)
  OBVIOUS
<1>2. /\ Lists(rest, S, r \ {t}) /\ Len(rest) <= Len(list) /\ list \in Seq(S)
      /\ (t \in r => Len(rest) = Len(list) - 1)
  <2>1. Lists(Without(list, t), S, r \ {t}) /\ Len(Without(list, t)) <= Len(list)
    BY ListsWithout
  <2>2. t \in r => Len(Without(list, t)) = Len(list) - 1
    BY ListsWithout
  <2>3. list \in Seq(S)
    BY DEF Lists
  <2> QED
    BY <1>1, <2>1, <2>2, <2>3
<1>3. rest \in Seq(S) /\ Len(rest) \in Nat /\ Len(list) \in Nat
  BY <1>2, LenProperties DEF Lists
<1>4. PICK new : new = <<t>> \o rest
  OBVIOUS
<1>5. new \in Seq(S) /\ Len(new) = Len(rest) + 1 /\ new[1] = t /\ \A j \in 2 .. Len(new) : new[j] = rest[j - 1]
  <2>1. <<t>> \in Seq(S) /\ Len(<<t>>) = 1 /\ <<t>>[1] = t
    OBVIOUS
  <2>2. /\ new \in Seq(S) /\ Len(new) = 1 + Len(rest)
        /\ \A i \in 1 .. 1 + Len(rest) : new[i] = IF i <= 1 THEN <<t>>[i] ELSE rest[i - 1]
    BY <1>3, <1>4, <2>1, ConcatProperties
  <2> QED
    BY <1>3, <2>1, <2>2
<1>6. \A j \in 2 .. Len(new) : j - 1 \in 1 .. Len(rest) /\ new[j] = rest[j - 1] /\ new[j] \in r /\ new[j] # t
  BY <1>2, <1>3, <1>5 DEF Lists
<1>7. \A j \in 1 .. Len(new) : j = 1 \/ j \in 2 .. Len(new)
  BY <1>3, <1>5
<1>8. \A j \in 1 .. Len(new) : new[j] \in r \cup {t}
  BY <1>5, <1>6, <1>7
<1>9. ASSUME NEW x \in r \cup {t} PROVE \E j \in 1 .. Len(new) : new[j] = x
  <2>1. CASE x = t
    <3>1. 1 \in 1 .. Len(new)
      BY <1>3, <1>5
    <3> QED
      BY <1>5, <2>1, <3>1
  <2>2. CASE x # t
    <3>1. PICK m \in 1 .. Len(rest) : rest[m] = x
      BY <1>2, <1>9, <2>2 DEF Lists
    <3>2. m + 1 \in 2 .. Len(new) /\ m + 1 \in 1 .. Len(new) /\ (m + 1) - 1 = m
      BY <1>3, <1>5
    <3> QED
      BY <1>5, <3>1, <3>2
  <2> QED
    BY <2>1, <2>2
<1>10. ASSUME NEW i \in 1 .. Len(new), NEW j \in 1 .. Len(new), new[i] = new[j] PROVE i = j
  <2>1. CASE i \in 2 .. Len(new) /\ j \in 2 .. Len(new)
    <3>1. rest[i - 1] = rest[j - 1]
      BY <1>6, <1>10, <2>1
    <3>2. i - 1 = j - 1
      BY <1>2, <1>6, <2>1, <3>1 DEF Lists
    <3> QED
      BY <3>2
  <2>2. CASE i = 1 \/ j = 1
    BY <1>5, <1>6, <1>7, <1>10, <2>2
  <2> QED
    BY <1>7, <2>1, <2>2
<1>11. Lists(new, S, r \cup {t})
  BY <1>5, <1>8, <1>9, <1>10 DEF Lists
<1>12. Len(new) <= Len(list) + 1 /\ (t \in r => Len(new) = Len(list))
  BY <1>2, <1>3, <1>5
<1>13. ToFront(list, t) = new
  BY <1>1, <1>4 DEF ToFront
<1> QED
  BY <1>11, <1>12, <1>13

(* evictLRU takes the tail.                                                  *)
LEMMA ListsTail ==
  ASSUME NEW S, NEW r, NEW list, Lists(list, S, r), Len(list) > 0
  PROVE  /\ Lists(Front(list), S, r \ {list[Len(list)]}) /\ Len(Front(list)) = Len(list) - 1
<1>1. list \in Seq(S) /\ Len(list) \in Nat
  BY LenProperties DEF Lists
<1>2. PICK f : f = SubSeq(list, 1, Len(list) - 1)
  OBVIOUS
<1>3. f \in Seq(S) /\ Len(f) = Len(list) - 1 /\ \A j \in 1 .. Len(list) - 1 : f[j] = list[j]
  <2>1. \A i \in 1 .. Len(list) - 1 : list[i] \in S
    BY <1>1, ElementOfSeq
  <2>2. 1 \in Int /\ Len(list) - 1 \in Int
    BY <1>1
  <2>3. /\ SubSeq(list, 1, Len(list) - 1) \in Seq(S)
        /\ Len(SubSeq(list, 1, Len(list) - 1)) = IF 1 <= Len(list) - 1 THEN (Len(list) - 1) - 1 + 1 ELSE 0
        /\ \A i \in 1 .. (Len(list) - 1) - 1 + 1 : SubSeq(list, 1, Len(list) - 1)[i] = list[1 + i - 1]
    BY <2>1, <2>2, SubSeqProperties
  <2>4. PICK n \in Nat : n = Len(list)
    BY <1>1
  <2>5. n > 0
    BY <2>4
  <2>6. Len(f) = IF 1 <= n - 1 THEN (n - 1) - 1 + 1 ELSE 0
    BY <1>2, <2>3, <2>4
  <2>7. Len(f) = n - 1
    BY <2>5, <2>6
  <2> QED
    BY <1>1, <1>2, <2>3, <2>4, <2>7
<1>4. \A j \in 1 .. Len(f) : j \in 1 .. Len(list) /\ j # Len(list) /\ f[j] = list[j]
  BY <1>1, <1>3
<1>5. Len(list) \in 1 .. Len(list)
  BY <1>1
<1>6. \A j \in 1 .. Len(f) : f[j] \in r \ {list[Len(list)]}
  BY <1>4, <1>5 DEF Lists
<1>7. ASSUME NEW x \in r \ {list[Len(list)]} PROVE \E j \in 1 .. Len(f) : f[j] = x
  <2>1. PICK m \in 1 .. Len(list) : list[m] = x
    BY DEF Lists
  <2>2. m # Len(list)
    BY <2>1
  <2>3. m \in 1 .. Len(f)
    BY <1>1, <1>3, <2>2
  <2> QED
    BY <1>4, <2>1, <2>3
<1>8. \A i \in 1 .. Len(f) : \A j \in 1 .. Len(f) : f[i] = f[j] => i = j
  BY <1>4 DEF Lists
<1>9. Lists(f, S, r \ {list[Len(list)]})
  BY <1>3, <1>6, <1>7, <1>8 DEF Lists
<1>10. Front(list) = f
  BY <1>2 DEF Front
<1> QED
  BY <1>3, <1>9, <1>10

(* Such a list is as long as what it lists.                                  *)
LEMMA ListsCount ==
  ASSUME NEW S, NEW r, NEW list, Lists(list, S, r)
  PROVE  IsFiniteSet(r) /\ Cardinality(r) = Len(list)
<1>1. list \in Seq(S) /\ Len(list) \in Nat /\ DOMAIN list = 1 .. Len(list) /\ list \in [1 .. Len(list) -> S]
  BY LenProperties DEF Lists
<1>2. list \in [1 .. Len(list) -> r]
  BY <1>1 DEF Lists
<1>3. list \in Injection(1 .. Len(list), r)
  BY <1>1, <1>2 DEF Lists, Injection, IsInjective
<1>4. list \in Surjection(1 .. Len(list), r)
  BY <1>2 DEF Lists, Surjection
<1>5. IsFiniteSet(1 .. Len(list)) /\ Cardinality(1 .. Len(list)) = Len(list)
  BY <1>1, FS_Interval
<1>6. IsFiniteSet(r)
  BY <1>4, <1>5, FS_Surjection
<1>7. Cardinality(1 .. Len(list)) = Cardinality(r)
  BY <1>3, <1>4, <1>6, FS_Injection
<1> QED
  BY <1>5, <1>6, <1>7

(* What stays of a list keeps its order.                                     *)
LEMMA InOrderIs ==
  ASSUME NEW S \in SUBSET Nat, IsFiniteSet(S)
  PROVE  /\ InOrder(S) \in [1 .. Cardinality(S) -> S] /\ Cardinality(S) \in Nat
         /\ \A i \in 1 .. Cardinality(S) : \A j \in 1 .. Cardinality(S) : InOrder(S)[i] = InOrder(S)[j] => i = j
         /\ \A x \in S : \E i \in 1 .. Cardinality(S) : InOrder(S)[i] = x
<1>1. Cardinality(S) \in Nat
  BY FS_CardinalityType
<1>2. PICK n \in Nat : n = Cardinality(S)
  BY <1>1
<1>3. \E p \in [1 .. n -> S] : \A i, j \in DOMAIN p : i < j => p[i] < p[j]
  <2>1. S \in SUBSET Int
    OBVIOUS
  <2>2. \E p \in [1 .. Cardinality(S) -> S] : Increasing(p)
    BY <2>1, Sorted
  <2> QED
    BY <1>2, <2>2 DEF Increasing
<1>4. PICK k : k = InOrder(S)
  OBVIOUS
<1>5. k \in [1 .. n -> S] /\ \A i, j \in DOMAIN k : i < j => k[i] < k[j]
  BY <1>2, <1>3, <1>4 DEF InOrder
<1>6. ASSUME NEW i \in 1 .. n, NEW j \in 1 .. n, k[i] = k[j] PROVE i = j
  <2>1. DOMAIN k = 1 .. n /\ k[i] \in Nat /\ k[j] \in Nat
    BY <1>5
  <2>2. ~(k[i] < k[j]) /\ ~(k[j] < k[i])
    BY <1>6, <2>1
  <2>3. ~(i < j) /\ ~(j < i)
    BY <1>5, <2>1, <2>2
  <2> QED
    BY <2>3
<1>7. k \in Surjection(1 .. n, S)
  <2>1. DOMAIN k = 1 .. n
    BY <1>5
  <2>2. k \in Injection(1 .. n, S)
    BY <1>5, <1>6, <2>1 DEF Injection, IsInjective
  <2>3. IsFiniteSet(1 .. n) /\ Cardinality(1 .. n) = n
    BY FS_Interval
  <2>4. Cardinality(1 .. n) = Cardinality(S)
    BY <1>2, <2>3
  <2> QED
    BY <2>2, <2>4, FS_Injection
<1>8. \A x \in S : \E i \in 1 .. n : k[i] = x
  BY <1>7 DEF Surjection
<1> QED
  BY <1>2, <1>4, <1>5, <1>6, <1>8

(* HotAgrees in the terms of these lists.                                    *)
HotListed == Lists(lru, Token, {x \in Token : hot[x] # None}) /\ Len(lru) <= HotMax

(* The size that SetHot compares with hotMaxSize is the length of the list.  *)
LEMMA HotCounted ==
  ASSUME HotListed
  PROVE  HotSize = Len(lru) /\ Len(lru) \in Nat
<1>1. lru \in Seq(Token)
  BY DEF HotListed, Lists
<1>2. Cardinality({x \in Token : hot[x] # None}) = Len(lru)
  BY ListsCount DEF HotListed
<1> QED
  BY <1>1, <1>2, LenProperties DEF HotSize

(* An item that is stored is not nothing.                                    *)
LEMMA ItemStored ==
  ASSUME Shape, NEW v \in Nat
  PROVE  Item(v) # None
<1>1. Item(v) \in [version : Nat, at : Nat]
  BY DEF Shape, Item
<1> QED
  BY <1>1, TokenCacheAssumption

(* The tokens that a map has an item of.                                      *)
Items(m) == {x \in Token : m[x] # None}

(* A list after t was put to its front, with the map that then holds t.      *)
LEMMA PutListed ==
  ASSUME NEW list, NEW m, NEW t \in Token, DOMAIN m = Token, NEW i, i # None,
         Lists(list, Token, Items(m))
  PROVE  /\ Lists(ToFront(list, t), Token, Items([m EXCEPT ![t] = i]))
         /\ Len(ToFront(list, t)) <= Len(list) + 1
         /\ (Contains(list, t) => Len(ToFront(list, t)) = Len(list))
<1>1. PICK r : r = Items(m)
  OBVIOUS
<1>2. Lists(list, Token, r)
  BY <1>1
<1>3. Lists(ToFront(list, t), Token, r \cup {t}) /\ Len(ToFront(list, t)) <= Len(list) + 1
  BY <1>2, ListsFront
<1>4. t \in r => Len(ToFront(list, t)) = Len(list)
  BY <1>2, ListsFront
<1>5. Contains(list, t) <=> t \in r
  BY <1>2, ListsWithout
<1>6. Items([m EXCEPT ![t] = i]) = r \cup {t}
  BY <1>1 DEF Items
<1> QED
  BY <1>3, <1>4, <1>5, <1>6

(* SetHot makes room before it adds and adds nothing twice.                  *)
LEMMA SetHotListed ==
  ASSUME Shape, HotListed, NEW t \in Token, NEW v \in Nat, SetHot(t, v)
  PROVE  HotListed'
<1>1. /\ Lists(lru, Token, Items(hot)) /\ Len(lru) <= HotMax /\ DOMAIN hot = Token
      /\ HotSize = Len(lru) /\ Len(lru) \in Nat /\ HotMax \in Nat \ {0} /\ Item(v) # None
  BY HotCounted, ItemStored, TokenCacheAssumption DEF HotListed, Shape, Items
<1>2. ASSUME NEW list, NEW m, DOMAIN m = Token, Lists(list, Token, Items(m)),
             lru' = ToFront(list, t), hot' = [m EXCEPT ![t] = Item(v)],
             Len(list) < HotMax \/ (Contains(list, t) /\ Len(list) <= HotMax)
      PROVE  HotListed'
  <2>0. PICK i : i = Item(v)
    OBVIOUS
  <2>1. /\ Lists(ToFront(list, t), Token, Items([m EXCEPT ![t] = i]))
        /\ Len(ToFront(list, t)) <= Len(list) + 1
    BY <1>1, <1>2, <2>0, PutListed
  <2>2. Contains(list, t) => Len(ToFront(list, t)) = Len(list)
    BY <1>1, <1>2, <2>0, PutListed
  <2>3. Len(list) \in Nat /\ Len(lru') \in Nat
    BY <1>2, <2>1, LenProperties DEF Lists
  <2>4. Len(lru') <= HotMax
    BY <1>1, <1>2, <2>1, <2>2, <2>3
  <2>5. Lists(lru', Token, Items(hot'))
    BY <1>2, <2>0, <2>1
  <2> QED
    BY <2>4, <2>5 DEF HotListed, Lists, Items
<1>3. CASE Contains(lru, t) \/ Len(lru) < HotMax
  <2>1. lru' = ToFront(lru, t) /\ hot' = [hot EXCEPT ![t] = Item(v)]
    <3>1. ~(~Contains(lru, t) /\ HotSize >= HotMax)
      BY <1>1, <1>3
    <3> QED
      BY <3>1 DEF SetHot
  <2> QED
    BY <1>1, <1>2, <1>3, <2>1
<1>4. CASE ~(Contains(lru, t) \/ Len(lru) < HotMax)
  <2>1. Len(lru) > 0 /\ lru # <<>> /\ Len(lru) = HotMax
    BY <1>1, <1>4
  <2>2. PICK last : last = lru[Len(lru)]
    OBVIOUS
  <2>3. PICK m : m = [hot EXCEPT ![last] = None]
    OBVIOUS
  <2>4. lru' = ToFront(Front(lru), t) /\ hot' = [m EXCEPT ![t] = Item(v)]
    <3>1. ~Contains(lru, t) /\ HotSize >= HotMax
      BY <1>1, <1>4, <2>1
    <3>2. EvictLRU(lru, hot) = [list |-> Front(lru), map |-> m]
      BY <2>1, <2>2, <2>3 DEF EvictLRU
    <3> QED
      BY <3>1, <3>2 DEF SetHot
  <2>5. /\ Lists(Front(lru), Token, Items(hot) \ {last})
        /\ Len(Front(lru)) = Len(lru) - 1
    BY <1>1, <2>1, <2>2, ListsTail
  <2>6. Items(m) = Items(hot) \ {last}
    BY <1>1, <2>3 DEF Items
  <2>7. DOMAIN m = Token
    BY <1>1, <2>3
  <2>8. Len(Front(lru)) < HotMax
    BY <1>1, <2>1, <2>5
  <2>9. Lists(Front(lru), Token, Items(m))
    BY <2>5, <2>6
  <2>10. PICK f : f = Front(lru)
    OBVIOUS
  <2>11. /\ Lists(f, Token, Items(m)) /\ Len(f) < HotMax
         /\ lru' = ToFront(f, t) /\ hot' = [m EXCEPT ![t] = Item(v)]
    BY <2>4, <2>8, <2>9, <2>10
  <2> QED
    BY <1>2, <2>7, <2>11
<1> QED
  BY <1>3, <1>4

(* GetHot moves under its second lock what is still listed then.             *)
LEMMA TouchListed ==
  ASSUME HotListed, NEW t \in Token, lru' = Touched(t), UNCHANGED hot
  PROVE  HotListed'
<1>1. PICK r : r = {x \in Token : hot[x] # None}
  OBVIOUS
<1>2. Lists(lru, Token, r) /\ Len(lru) <= HotMax
  BY <1>1 DEF HotListed
<1>3. CASE Contains(lru, t)
  <2>1. t \in r
    BY <1>2, <1>3, ListsWithout
  <2>2. Lists(ToFront(lru, t), Token, r \cup {t})
    BY <1>2, ListsFront
  <2>3. Len(ToFront(lru, t)) = Len(lru)
    BY <1>2, <2>1, ListsFront
  <2>4. r \cup {t} = r
    BY <2>1
  <2>5. lru' = ToFront(lru, t)
    BY <1>3 DEF Touched
  <2> QED
    BY <1>1, <1>2, <2>2, <2>3, <2>4, <2>5 DEF HotListed
<1>4. CASE ~Contains(lru, t)
  BY <1>4 DEF Touched, HotListed
<1> QED
  BY <1>3, <1>4

(* Delete takes the element of the index out of the list.                    *)
LEMMA DropHotListed ==
  ASSUME Shape, HotListed, NEW t, DropHot(t)
  PROVE  HotListed'
<1>1. PICK r : r = {x \in Token : hot[x] # None}
  OBVIOUS
<1>2. Lists(lru, Token, r) /\ Len(lru) <= HotMax /\ DOMAIN hot = Token /\ HotMax \in Nat
  BY <1>1, TokenCacheAssumption DEF HotListed, Shape
<1>3. Lists(Without(lru, t), Token, r \ {t}) /\ Len(Without(lru, t)) <= Len(lru)
  BY <1>2, ListsWithout
<1>4. lru' = Without(lru, t) /\ hot' = [hot EXCEPT ![t] = None]
  BY DEF DropHot
<1>5. {x \in Token : hot'[x] # None} = r \ {t}
  BY <1>1, <1>2, <1>4
<1>6. Len(lru) \in Nat /\ Len(Without(lru, t)) \in Nat
  BY <1>2, <1>3, LenProperties DEF Lists
<1>7. Len(lru') <= HotMax
  BY <1>2, <1>3, <1>4, <1>6
<1> QED
  BY <1>3, <1>4, <1>5, <1>7 DEF HotListed

(* cleanup keeps the order of what has not expired.                          *)
LEMMA CleanupListed ==
  ASSUME Shape, HotListed, Cleanup
  PROVE  HotListed'
<1>1. PICK r : r = {x \in Token : hot[x] # None}
  OBVIOUS
<1>2. Lists(lru, Token, r) /\ Len(lru) <= HotMax /\ DOMAIN hot = Token /\ HotMax \in Nat
  BY <1>1, TokenCacheAssumption DEF HotListed, Shape
<1>3. Len(lru) \in Nat /\ DOMAIN lru = 1 .. Len(lru) /\ lru \in [1 .. Len(lru) -> Token]
  BY <1>2, LenProperties DEF Lists
<1>4. PICK stay : stay = {i \in DOMAIN lru : HotHit(lru[i])}
  OBVIOUS
<1>5. PICK kept : kept = InOrder(stay)
  OBVIOUS
<1>6. /\ lru' = [i \in DOMAIN kept |-> lru[kept[i]]]
      /\ hot' = [x \in Token |-> IF \E i \in DOMAIN lru \ stay : lru[i] = x THEN None ELSE hot[x]]
  BY <1>4, <1>5 DEF Cleanup
<1>7. stay \subseteq 1 .. Len(lru) /\ stay \in SUBSET Nat
  BY <1>3, <1>4
<1>8. IsFiniteSet(stay) /\ Cardinality(stay) <= Len(lru)
  <2>1. IsFiniteSet(1 .. Len(lru)) /\ Cardinality(1 .. Len(lru)) = Len(lru)
    BY <1>3, FS_Interval
  <2> QED
    BY <1>7, <2>1, FS_Subset
<1>9. PICK n : n = Cardinality(stay)
  OBVIOUS
<1>10. /\ kept \in [1 .. n -> stay] /\ n \in Nat
       /\ \A i \in 1 .. n : \A j \in 1 .. n : kept[i] = kept[j] => i = j
       /\ \A x \in stay : \E i \in 1 .. n : kept[i] = x
  BY <1>5, <1>7, <1>8, <1>9, InOrderIs
<1>11. /\ lru' \in Seq(Token) /\ Len(lru') = n
       /\ \A i \in 1 .. n : kept[i] \in stay /\ kept[i] \in 1 .. Len(lru) /\ lru'[i] = lru[kept[i]]
  <2>1. DOMAIN kept = 1 .. n /\ \A i \in 1 .. n : kept[i] \in stay /\ kept[i] \in 1 .. Len(lru)
    BY <1>7, <1>10
  <2>2. \A i \in 1 .. n : lru[kept[i]] \in Token
    BY <1>3, <2>1
  <2>3. PICK new : new = [i \in 1 .. n |-> lru[kept[i]]]
    OBVIOUS
  <2>4. new \in [1 .. n -> Token]
    BY <2>2, <2>3
  <2>5. new \in Seq(Token) /\ DOMAIN new = 1 .. n
    BY <1>10, <2>4, SeqDef
  <2>6. Len(new) = n
    BY <1>10, <2>5, LenProperties
  <2>7. lru' = new
    BY <1>6, <2>1, <2>3
  <2>8. \A i \in 1 .. n : new[i] = lru[kept[i]]
    BY <2>3
  <2> QED
    BY <2>1, <2>5, <2>6, <2>7, <2>8
<1>12. PICK s : s = {x \in Token : hot'[x] # None}
  OBVIOUS
<1>13. \A x \in Token : x \in s <=> x \in r /\ ~\E i \in DOMAIN lru \ stay : lru[i] = x
  BY <1>1, <1>6, <1>12
<1>14. \A i \in 1 .. n : lru'[i] \in s
  <2> SUFFICES ASSUME NEW i \in 1 .. n PROVE lru'[i] \in s
    OBVIOUS
  <2>1. kept[i] \in stay /\ kept[i] \in 1 .. Len(lru) /\ lru'[i] = lru[kept[i]]
    BY <1>11
  <2>2. lru[kept[i]] \in r /\ lru[kept[i]] \in Token
    BY <1>2, <1>3, <2>1 DEF Lists
  <2>3. ASSUME NEW j \in DOMAIN lru \ stay PROVE lru[j] # lru[kept[i]]
    BY <1>2, <1>3, <2>1 DEF Lists
  <2> QED
    BY <1>13, <2>1, <2>2, <2>3
<1>15. \A x \in s : \E i \in 1 .. n : lru'[i] = x
  <2> SUFFICES ASSUME NEW x \in s PROVE \E i \in 1 .. n : lru'[i] = x
    OBVIOUS
  <2>0. x \in Token
    BY <1>12
  <2>1. x \in r /\ ~\E i \in DOMAIN lru \ stay : lru[i] = x
    BY <1>13, <2>0
  <2>2. PICK j \in 1 .. Len(lru) : lru[j] = x
    BY <1>2, <2>1 DEF Lists
  <2>3. j \in stay
    BY <1>3, <2>1, <2>2
  <2>4. PICK i \in 1 .. n : kept[i] = j
    BY <1>10, <2>3
  <2> QED
    BY <1>11, <2>2, <2>4
<1>16. \A i \in 1 .. n : \A j \in 1 .. n : lru'[i] = lru'[j] => i = j
  <2> SUFFICES ASSUME NEW i \in 1 .. n, NEW j \in 1 .. n, lru'[i] = lru'[j] PROVE i = j
    OBVIOUS
  <2>1. lru[kept[i]] = lru[kept[j]] /\ kept[i] \in 1 .. Len(lru) /\ kept[j] \in 1 .. Len(lru)
    BY <1>11
  <2>2. kept[i] = kept[j]
    BY <1>2, <2>1 DEF Lists
  <2> QED
    BY <1>10, <2>2
<1>17. Lists(lru', Token, s)
  BY <1>11, <1>14, <1>15, <1>16 DEF Lists
<1>18. Len(lru') <= HotMax
  BY <1>2, <1>3, <1>8, <1>9, <1>10, <1>11
<1> QED
  BY <1>12, <1>17, <1>18 DEF HotListed, Lists

(* Every step keeps them in agreement, those between the two locks of GetHot *)
(* included.                                                                 *)
LEMMA NextListed == Aged /\ HotListed /\ [Next]_vars => HotListed'
<1> SUFFICES ASSUME Aged, HotListed, [Next]_vars PROVE HotListed'
  OBVIOUS
<1>1. ASSUME UNCHANGED <<hot, lru>> PROVE HotListed'
  BY <1>1 DEF HotListed
<1>2. Shape /\ Carried
  BY DEF Aged
<1>3. ASSUME NEW c \in Reader, NEW t \in Token, ValidateToken(c, t) PROVE HotListed'
  BY <1>1, <1>3 DEF ValidateToken, caches
<1>4. ASSUME NEW c \in Reader, ReaderStep(c) PROVE HotListed'
  <2>1. c \in Call /\ Carry(c)
    BY <1>2 DEF Call, Carried
  <2>2. CASE Touch(c)
    <3>1. lru' = Touched(tok[c]) /\ UNCHANGED hot /\ tok[c] \in Token
      BY <2>1, <2>2 DEF Touch, At, Carry
    <3> QED
      BY <3>1, TouchListed
  <2>3. CASE Promote(c)
    <3>1. SetHot(tok[c], got[c]) /\ tok[c] \in Token /\ Held(tok[c], got[c], now, WarmTTL)
      BY <2>1, <2>3 DEF Promote, At, Carry
    <3>2. got[c] \in Nat
      BY <1>2, <3>1 DEF Held, HeldIn, Shape
    <3> QED
      BY <1>2, <3>1, <3>2, SetHotListed
  <2>4. CASE GetHot(c) \/ GetWarm(c) \/ GetByToken(c) \/ GetByTokenFails(c)
    BY <1>1, <2>4 DEF GetHot, GetWarm, GetByToken, GetByTokenFails, caches
  <2> QED
    BY <1>4, <2>2, <2>3, <2>4 DEF ReaderStep
<1>5. ASSUME NEW c \in Admin, NEW t \in Managed, CreateToken(c, t) \/ UpdateToken(c, t) \/ DeleteToken(c, t)
      PROVE  HotListed'
  BY <1>1, <1>5 DEF CreateToken, UpdateToken, DeleteToken, caches
<1>6. ASSUME NEW c \in Admin, ClearAll(c) PROVE HotListed'
  <2>1. hot' = [t \in Token |-> None] /\ lru' = <<>>
    BY <1>6 DEF ClearAll
  <2>2. {x \in Token : hot'[x] # None} = {}
    BY <2>1
  <2>3. <<>> \in Seq(Token) /\ Len(<<>>) = 0
    OBVIOUS
  <2>4. Lists(<<>>, Token, {})
    BY <2>3 DEF Lists
  <2>5. Lists(lru', Token, {x \in Token : hot'[x] # None})
    BY <2>1, <2>2, <2>4
  <2>6. Len(lru') <= HotMax
    BY <2>1, <2>3, TokenCacheAssumption
  <2> QED
    BY <2>5, <2>6 DEF HotListed
<1>7. ASSUME NEW c \in Call, CallStep(c) PROVE HotListed'
  <2>1. Carry(c)
    BY <1>2 DEF Carried
  <2>2. CASE Fill(c)
    <3>1. SetHot(tok[c], got[c]) /\ tok[c] \in Token /\ Held(tok[c], got[c], now, 1)
      BY <2>1, <2>2 DEF Fill, At, Carry
    <3>2. got[c] \in Nat
      BY <1>2, <3>1 DEF Held, HeldIn, Shape
    <3> QED
      BY <1>2, <3>1, <3>2, SetHotListed
  <2>3. CASE DeleteHot(c)
    BY <1>2, <2>3, DropHotListed DEF DeleteHot
  <2>4. CASE Submit(c) \/ UpdateRow(c) \/ UpdateRowFails(c) \/ Reread(c) \/ QuotaUpdated(c)
    BY <1>1, <2>4 DEF Submit, UpdateRow, UpdateRowFails, Reread, QuotaUpdated, caches
  <2>5. CASE ReturnsEarly(c) \/ DeleteWarm(c) \/ Keys(c) \/ DelKeys(c)
    BY <1>1, <2>5 DEF ReturnsEarly, DeleteWarm, Keys, DelKeys, caches
  <2> QED
    BY <1>7, <2>2, <2>3, <2>4, <2>5 DEF CallStep
<1>8. ASSUME NEW k \in pending, RunTask(k) PROVE HotListed'
  BY <1>1, <1>8 DEF RunTask
<1>9. CASE Tick \/ UNCHANGED vars
  BY <1>1, <1>9 DEF Tick, vars, caches
<1>10. CASE Cleanup
  BY <1>2, <1>10, CleanupListed
<1> QED
  BY <1>3, <1>4, <1>5, <1>6, <1>7, <1>8, <1>9, <1>10 DEF Next

(* An empty cache agrees with itself.                                        *)
LEMMA InitListed == Init => HotListed
<1> SUFFICES ASSUME Init PROVE HotListed
  OBVIOUS
<1>1. hot = [t \in Token |-> None] /\ lru = <<>>
  BY DEF Init
<1>2. {x \in Token : hot[x] # None} = {}
  BY <1>1
<1>3. <<>> \in Seq(Token) /\ Len(<<>>) = 0
  OBVIOUS
<1>4. Lists(<<>>, Token, {})
  BY <1>3 DEF Lists
<1>5. Lists(lru, Token, {x \in Token : hot[x] # None})
  BY <1>1, <1>2, <1>4
<1>6. Len(lru) <= HotMax
  BY <1>1, <1>3, TokenCacheAssumption
<1> QED
  BY <1>5, <1>6 DEF HotListed

(* The list, the index and the map of the hot cache agree at every moment,   *)
(* no token is listed twice and the size is bounded, for all numbers of      *)
(* tokens, calls and places, although GetHot reads under one lock and moves  *)
(* under another.                                                            *)
THEOREM HotCacheAgrees == Spec => []HotAgrees
<1>1. HotListed => HotAgrees
  <2> SUFFICES ASSUME HotListed PROVE HotAgrees
    OBVIOUS
  <2>1. PICK r : r = {x \in Token : hot[x] # None}
    OBVIOUS
  <2>2. Lists(lru, Token, r) /\ lru \in Seq(Token) /\ Len(lru) <= HotMax
    BY <2>1 DEF HotListed, Lists
  <2>3. Range(lru) = r /\ IsInjective(lru)
    BY <2>2, ListsIs
  <2> QED
    BY <2>1, <2>2, <2>3 DEF HotAgrees
<1> QED
  BY <1>1, InitListed, InitAged, NextAged, NextListed, PTL DEF Spec

-----------------------------------------------------------------------------
(***************************************************************************)
(* The types of the state.                                                 *)
(***************************************************************************)

Records == [t \in Token |-> Latest(t)]
Writers == {c \in Call : At(c, "write")}

(* There are as many records as the instance has room for.                  *)
LEMMA RecordsCount ==
  ASSUME Shape
  PROVE  /\ Numbers(Records, Token) /\ IsFiniteSet(Writers) /\ Cardinality(Writers) \in Nat
         /\ SumFunctionOnSet(Records, Token) \in Nat
         /\ Used = SumFunctionOnSet(Records, Token) + Cardinality(Writers)
         /\ \A t \in Token : Len(hist[t]) <= Used
<1>1. IsFiniteSet(Call)
  BY TokensFit, FS_Union DEF Call
<1>2. IsFiniteSet(Writers) /\ Cardinality(Writers) \in Nat
  BY <1>1, FS_Subset, FS_CardinalityType DEF Writers
<1>3. \A t \in Token : Records[t] = Len(hist[t]) /\ Records[t] \in Nat
  BY DEF Shape, Records, Latest
<1>4. Numbers(Records, Token)
  BY <1>3, TokensFit DEF Numbers
<1>5. Used = SumFunctionOnSet(Records, Token) + Cardinality(Writers)
  BY DEF Used, Records, Writers
<1>6. SumFunctionOnSet(Records, Token) \in Nat
  BY <1>4, SumIsUnits
<1>7. ASSUME NEW t \in Token PROVE Len(hist[t]) <= Used
  <2>1. /\ SumFunctionOnSet(Records, Token) = Records[t] + SumFunctionOnSet(Records, Token \ {t})
        /\ SumFunctionOnSet(Records, Token \ {t}) \in Nat
    BY <1>4, SumSplit
  <2> QED
    BY <1>2, <1>3, <1>5, <1>6, <2>1
<1> QED
  BY <1>2, <1>4, <1>5, <1>6, <1>7

(* A step that writes no record and starts no write.                         *)
LEMMA SameUsed ==
  ASSUME Shape, Shape', UNCHANGED hist, Writers' \subseteq Writers
  PROVE  Used' <= Used /\ Used \in Nat /\ Used' \in Nat
<1>1. Records' = Records
  BY DEF Records, Latest
<1>2. Cardinality(Writers') <= Cardinality(Writers) /\ Cardinality(Writers') \in Nat
  BY RecordsCount, FS_Subset, FS_CardinalityType
<1>3. /\ Used = SumFunctionOnSet(Records, Token) + Cardinality(Writers) /\ Cardinality(Writers) \in Nat
      /\ SumFunctionOnSet(Records, Token) \in Nat
  BY RecordsCount
<1>4. Used' = SumFunctionOnSet(Records, Token) + Cardinality(Writers')
  BY <1>1 DEF Used, Records, Writers
<1> QED
  BY <1>2, <1>3, <1>4

(* A write begins.                                                           *)
LEMMA OneMoreWriter ==
  ASSUME Shape, UNCHANGED hist, NEW c, Writers' \subseteq Writers \cup {c}
  PROVE  Used' <= Used + 1 /\ Used \in Nat /\ Used' \in Nat
<1>1. Records' = Records
  BY DEF Records, Latest
<1>2. /\ IsFiniteSet(Writers) /\ Cardinality(Writers) \in Nat /\ SumFunctionOnSet(Records, Token) \in Nat
      /\ Used = SumFunctionOnSet(Records, Token) + Cardinality(Writers)
  BY RecordsCount
<1>3. IsFiniteSet(Writers \cup {c}) /\ Cardinality(Writers \cup {c}) <= Cardinality(Writers) + 1
  BY <1>2, FS_AddElement
<1>4. Cardinality(Writers') <= Cardinality(Writers \cup {c}) /\ Cardinality(Writers') \in Nat /\ Cardinality(Writers \cup {c}) \in Nat
  BY <1>3, FS_Subset, FS_CardinalityType
<1>5. Used' = SumFunctionOnSet(Records, Token) + Cardinality(Writers')
  BY <1>1 DEF Used, Records, Writers
<1> QED
  BY <1>2, <1>3, <1>4, <1>5

(* One number grows by one.                                                  *)
LEMMA SumOneMore ==
  ASSUME NEW f, NEW g, NEW S, NEW a \in S, Numbers(f, S), g[a] = f[a] + 1, \A x \in S : x # a => f[x] = g[x]
  PROVE  SumFunctionOnSet(g, S) = SumFunctionOnSet(f, S) + 1
<1>1. f[a] \in Nat /\ g[a] \in Nat
  BY DEF Numbers
<1>2. SumFunctionOnSet(g, S) = SumFunctionOnSet(f, S) - f[a] + g[a]
  BY <1>1, SumChanges
<1>3. SumFunctionOnSet(f, S) \in Nat
  BY SumIsUnits
<1> QED
  BY <1>1, <1>2, <1>3

(* Ones count the set.                                                       *)
LEMMA OnesCount ==
  ASSUME NEW S, IsFiniteSet(S), NEW f, f = [x \in S |-> 1]
  PROVE  SumFunctionOnSet(f, S) = Cardinality(S)
<1>1. Numbers(f, S)
  BY DEF Numbers
<1>2. SumFunctionOnSet(f, S) = Cardinality(Units(f, S))
  BY <1>1, SumIsUnits
<1>3. Units(f, S) = S \X {1}
  <2>1. \A x \in S : 1 .. f[x] = {1}
    OBVIOUS
  <2> QED
    BY <2>1 DEF Units
<1>4. IsFiniteSet({1}) /\ Cardinality({1}) = 1
  BY FS_Singleton
<1>5. PICK n \in Nat : n = Cardinality(S)
  BY FS_CardinalityType
<1>6. Cardinality(S \X {1}) = n * 1
  BY <1>4, <1>5, FS_Product
<1>7. n * 1 = n
  OBVIOUS
<1> QED
  BY <1>2, <1>3, <1>5, <1>6, <1>7

(* A record is written.                                                      *)
LEMMA OneMoreRecord ==
  ASSUME Shape, Shape', NEW t \in Token, Len(hist'[t]) = Len(hist[t]) + 1, \A x \in Token \ {t} : hist'[x] = hist[x],
         Writers' \subseteq Writers
  PROVE  /\ Used' <= Used + 1 /\ Used \in Nat /\ Used' \in Nat
         /\ \A c \in Writers : c \notin Writers' => Used' <= Used
<1>1. PICK f : f = Records
  OBVIOUS
<1>2. PICK g : g = Records'
  OBVIOUS
<1>3. /\ IsFiniteSet(Writers) /\ Cardinality(Writers) \in Nat /\ SumFunctionOnSet(f, Token) \in Nat
      /\ Used = SumFunctionOnSet(f, Token) + Cardinality(Writers) /\ Numbers(f, Token)
  BY <1>1, RecordsCount
<1>4. g[t] = f[t] + 1 /\ f[t] \in Nat /\ \A x \in Token : x # t => f[x] = g[x]
  BY <1>1, <1>2 DEF Records, Latest, Shape
<1>6. SumFunctionOnSet(g, Token) = SumFunctionOnSet(f, Token) + 1
  BY <1>3, <1>4, SumOneMore
<1>7. Used' = SumFunctionOnSet(g, Token) + Cardinality(Writers')
  BY <1>2 DEF Used, Records, Writers
<1>8. Cardinality(Writers') <= Cardinality(Writers) /\ Cardinality(Writers') \in Nat
  BY <1>3, FS_Subset, FS_CardinalityType
<1>9. ASSUME NEW c \in Writers, c \notin Writers' PROVE Used' <= Used
  <2>1. IsFiniteSet(Writers \ {c}) /\ Cardinality(Writers \ {c}) = Cardinality(Writers) - 1
    BY <1>3, FS_RemoveElement
  <2>2. Cardinality(Writers') <= Cardinality(Writers \ {c})
    BY <1>9, <2>1, FS_Subset
  <2> QED
    BY <1>3, <1>6, <1>7, <1>8, <2>1, <2>2
<1> QED
  BY <1>3, <1>6, <1>7, <1>8, <1>9

(* What a call has read is a record of its token, or what KEYS found.        *)
Reads(c) ==
  IF pc[c] = "del" THEN got[c] \subseteq Token
  ELSE got[c] = None \/ (tok[c] \in Token /\ got[c] \in 1 .. Len(hist[tok[c]]))

Reading == \A c \in Call : Reads(c)
Grows   == \A t \in Token : 1 .. Len(hist[t]) \subseteq 1 .. Len(hist'[t])
Queues  == IsFiniteSet(pending) /\ Cardinality(pending) <= QueueSize
Typed   == IInv /\ HotListed /\ Used <= MaxVersion /\ Reading /\ Queues

(* The tokens get records, and lose none.                                    *)
LEMMA SupersedeGrows ==
  ASSUME Shape, NEW t \in Token, NEW r \in Rec, Register!Supersede(t, r)
  PROVE  Grows /\ Len(hist'[t]) = Len(hist[t]) + 1 /\ \A x \in Token \ {t} : hist'[x] = hist[x]
<1>1. Len(hist'[t]) = Len(hist[t]) + 1 /\ \A x \in Token \ {t} : hist'[x] = hist[x]
  BY Superseded
<1>2. Len(hist[t]) \in Nat
  BY DEF Shape
<1>3. 1 .. Len(hist[t]) \subseteq 1 .. Len(hist'[t])
  BY <1>1, <1>2
<1> QED
  BY <1>1, <1>3 DEF Grows

(* The row of a deletion is a record.                                        *)
LEMMA DeletedRow ==
  ASSUME Aged, NEW t \in Token, Active(t)
  PROVE  [hist[t][Latest(t)] EXCEPT !.active = FALSE] \in Rec
<1>1. Latest(t) \in 1 .. Len(hist[t])
  BY DEF Active, Latest, Aged, Shape
<1>2. hist[t][Latest(t)] \in Rec
  BY <1>1 DEF Aged, Shape
<1> QED
  BY <1>2 DEF Rec

(* Room stops the administrators in time.                                    *)
LEMMA NextFits == Typed /\ [Next]_vars => Used' <= MaxVersion
<1> SUFFICES ASSUME Typed, [Next]_vars PROVE Used' <= MaxVersion
  OBVIOUS
<1>0. Aged /\ Shape /\ Shape' /\ Used <= MaxVersion /\ Used \in Nat /\ MaxVersion \in Nat
  <2>1. Aged /\ Used <= MaxVersion
    BY DEF Typed, IInv
  <2>2. Aged'
    BY <2>1, NextAged
  <2>3. Shape /\ Shape'
    BY <2>1, <2>2 DEF Aged
  <2>4. /\ SumFunctionOnSet(Records, Token) \in Nat /\ Cardinality(Writers) \in Nat
        /\ Used = SumFunctionOnSet(Records, Token) + Cardinality(Writers)
    BY <2>3, RecordsCount
  <2> QED
    BY <2>1, <2>3, <2>4, TokensFit
<1>1. ASSUME UNCHANGED hist, Writers' \subseteq Writers PROVE Used' <= MaxVersion
  <2>1. Used' <= Used /\ Used' \in Nat
    BY <1>0, <1>1, SameUsed
  <2> QED
    BY <1>0, <2>1
<1>2. ASSUME NEW c \in Call, \A x \in Call \ {c} : pc'[x] = pc[x], pc'[c] # "write"
      PROVE  Writers' \subseteq Writers /\ c \notin Writers'
  BY <1>2 DEF Writers, At
<1>3. ASSUME NEW c \in Call, End(c) PROVE (\A x \in Call \ {c} : pc'[x] = pc[x]) /\ pc'[c] # "write"
  BY <1>0, <1>3 DEF End, Shape
<1>4. ASSUME NEW c \in Call, NEW where, Goto(c, where), where # "write"
      PROVE  (\A x \in Call \ {c} : pc'[x] = pc[x]) /\ pc'[c] # "write"
  BY <1>0, <1>4 DEF Goto, Shape
<1>5. ASSUME NEW c \in Call, NEW t, NEW where, Begin(c, t, where)
      PROVE  (\A x \in Call \ {c} : pc'[x] = pc[x]) /\ pc'[c] = where
  BY <1>0, <1>5 DEF Begin, Shape
<1>6. ASSUME Room PROVE Used + 1 <= MaxVersion
  BY <1>0, <1>6 DEF Room
<1>7. ASSUME NEW c \in Reader, (\E t \in Token : ValidateToken(c, t)) \/ ReaderStep(c) PROVE Used' <= MaxVersion
  <2>0. c \in Call
    BY DEF Call
  <2>1. UNCHANGED hist
    BY <1>7 DEF ValidateToken, ReaderStep, GetHot, Touch, GetWarm, Promote, GetByToken, GetByTokenFails
  <2>2. CASE \E t \in Token : ValidateToken(c, t)
    BY <1>1, <1>2, <1>5, <2>0, <2>1, <2>2 DEF ValidateToken
  <2>3. CASE ReaderStep(c)
    <3>1. (\A x \in Call \ {c} : pc'[x] = pc[x]) /\ pc'[c] # "write"
      BY <1>3, <1>4, <2>0, <2>3 DEF ReaderStep, GetHot, Touch, GetWarm, Promote, GetByToken, GetByTokenFails, Judge, Reply
    <3> QED
      BY <1>1, <1>2, <2>0, <2>1, <3>1
  <2> QED
    BY <1>7, <2>2, <2>3
<1>8. ASSUME NEW c \in Admin, NEW t \in Managed, CreateToken(c, t) \/ DeleteToken(c, t) PROVE Used' <= MaxVersion
  <2>0. c \in Call /\ t \in Token
    BY TokenCacheAssumption DEF Call
  <2>1. Room /\ \E where : Begin(c, t, where) /\ where # "write"
    BY <1>8 DEF CreateToken, DeleteToken
  <2>2. Writers' \subseteq Writers
    BY <1>2, <1>5, <2>0, <2>1
  <2>3. \E r \in Rec : Register!Supersede(t, r)
    <3>1. CASE CreateToken(c, t)
      BY <3>1, NewRowIs DEF CreateToken, Change
    <3>2. CASE DeleteToken(c, t)
      BY <1>0, <2>0, <3>2, DeletedRow DEF DeleteToken, Change
    <3> QED
      BY <1>8, <3>1, <3>2
  <2>4. Len(hist'[t]) = Len(hist[t]) + 1 /\ \A x \in Token \ {t} : hist'[x] = hist[x]
    BY <1>0, <2>0, <2>3, SupersedeGrows
  <2>5. Used' <= Used + 1 /\ Used' \in Nat
    BY <1>0, <2>0, <2>2, <2>4, OneMoreRecord
  <2> QED
    BY <1>0, <1>6, <2>1, <2>5
<1>9. ASSUME NEW c \in Admin, NEW t \in Managed, UpdateToken(c, t) PROVE Used' <= MaxVersion
  <2>1. UNCHANGED hist /\ Room /\ Begin(c, t, "write") /\ c \in Call
    BY <1>9 DEF UpdateToken, Call
  <2>2. Writers' \subseteq Writers \cup {c}
    BY <1>5, <2>1 DEF Writers, At
  <2>3. Used' <= Used + 1 /\ Used' \in Nat
    BY <1>0, <2>1, <2>2, OneMoreWriter
  <2> QED
    BY <1>0, <1>6, <2>1, <2>3
<1>10. ASSUME NEW c \in Admin, ClearAll(c) PROVE Used' <= MaxVersion
  <2>1. UNCHANGED hist /\ Begin(c, None, "keys") /\ c \in Call
    BY <1>10 DEF ClearAll, Call
  <2> QED
    BY <1>1, <1>2, <1>5, <2>1
<1>11. ASSUME NEW c \in Call, UpdateRow(c), Active(tok[c]) PROVE Used' <= MaxVersion
  <2>1. /\ c \in Writers /\ Goto(c, "reread") /\ tok[c] \in Token
        /\ \E r \in Rec : Register!Supersede(tok[c], r)
    <3>1. c \in Writers /\ Goto(c, "reread") /\ \E e \in Expiry : Register!Supersede(tok[c], NewRow(e))
      BY <1>11 DEF UpdateRow, Change, Writers, At
    <3>2. tok[c] \in Token
      BY <1>0, <3>1 DEF Writers, At, Aged, Carried, Carry
    <3> QED
      BY <3>1, <3>2, NewRowIs
  <2>2. Writers' \subseteq Writers /\ c \notin Writers'
    BY <1>2, <1>4, <2>1
  <2>3. Len(hist'[tok[c]]) = Len(hist[tok[c]]) + 1 /\ \A x \in Token \ {tok[c]} : hist'[x] = hist[x]
    BY <1>0, <2>1, SupersedeGrows
  <2>4. Used' \in Nat /\ \A d \in Writers : d \notin Writers' => Used' <= Used
    BY <1>0, <2>1, <2>2, <2>3, OneMoreRecord
  <2>5. Used' <= Used
    BY <2>1, <2>2, <2>4
  <2> QED
    BY <1>0, <2>4, <2>5
<1>12. ASSUME NEW c \in Call, CallStep(c), ~(UpdateRow(c) /\ Active(tok[c])) PROVE Used' <= MaxVersion
  <2>1. UNCHANGED hist
    BY <1>12 DEF CallStep, Fill, Submit, UpdateRow, UpdateRowFails, Reread, QuotaUpdated, ReturnsEarly, DeleteHot,
                 DeleteWarm, Keys, DelKeys
  <2>2. (\A x \in Call \ {c} : pc'[x] = pc[x]) /\ pc'[c] # "write"
    <3>1. CASE Fill(c) \/ UpdateRow(c) \/ Reread(c) \/ QuotaUpdated(c) \/ DeleteHot(c)
      BY <1>4, <3>1 DEF Fill, UpdateRow, Reread, QuotaUpdated, DeleteHot
    <3>2. CASE Submit(c) \/ UpdateRowFails(c) \/ ReturnsEarly(c) \/ DeleteWarm(c) \/ DelKeys(c)
      BY <1>3, <3>2 DEF Submit, Submitted, UpdateRowFails, ReturnsEarly, DeleteWarm, DelKeys, Reply, Done
    <3>3. CASE Keys(c)
      BY <1>3, <1>4, <3>3 DEF Keys, Done
    <3> QED
      BY <1>12, <3>1, <3>2, <3>3 DEF CallStep
  <2> QED
    BY <1>1, <1>2, <2>1, <2>2
<1>13. CASE (\E k \in pending : RunTask(k)) \/ Tick \/ Cleanup \/ UNCHANGED vars
  <2>1. UNCHANGED hist /\ UNCHANGED pc
    BY <1>13 DEF RunTask, Tick, Cleanup, vars, calls, register
  <2>2. Writers' \subseteq Writers
    BY <2>1 DEF Writers, At
  <2> QED
    BY <1>1, <2>1, <2>2
<1> QED
  BY <1>7, <1>8, <1>9, <1>10, <1>11, <1>12, <1>13 DEF Next

(* At most QueueSize writes wait.                                            *)
LEMMA NextQueues == Typed /\ [Next]_vars => Queues'
<1> SUFFICES ASSUME Typed, [Next]_vars PROVE Queues'
  OBVIOUS
<1>0. IsFiniteSet(pending) /\ Cardinality(pending) <= QueueSize /\ QueueSize \in Nat /\ Cardinality(pending) \in Nat
  BY TokenCacheAssumption, FS_CardinalityType DEF Typed, Queues
<1>1. ASSUME UNCHANGED pending PROVE Queues'
  BY <1>0, <1>1 DEF Queues
<1>2. ASSUME NEW c \in Call, Submit(c) PROVE Queues'
  <2>1. pending' = pending \/ (pending' = pending \cup {Task(c)} /\ Cardinality(pending') <= QueueSize)
    BY <1>2 DEF Submit
  <2>2. IsFiniteSet(pending \cup {Task(c)})
    BY <1>0, FS_AddElement
  <2> QED
    BY <1>0, <2>1, <2>2 DEF Queues
<1>3. ASSUME NEW k \in pending, RunTask(k) PROVE Queues'
  <2>1. pending' = pending \ {k}
    BY <1>3 DEF RunTask
  <2>2. IsFiniteSet(pending \ {k}) /\ Cardinality(pending \ {k}) = Cardinality(pending) - 1
    BY <1>0, FS_RemoveElement
  <2>3. Cardinality(pending') <= QueueSize
    BY <1>0, <2>1, <2>2
  <2> QED
    BY <2>1, <2>2, <2>3 DEF Queues
<1>4. ASSUME NEW c \in Reader, (\E t \in Token : ValidateToken(c, t)) \/ ReaderStep(c) PROVE Queues'
  BY <1>1, <1>4 DEF ValidateToken, ReaderStep, GetHot, Touch, GetWarm, Promote, GetByToken, GetByTokenFails
<1>5. ASSUME NEW c \in Admin, (\E t \in Managed : CreateToken(c, t) \/ UpdateToken(c, t) \/ DeleteToken(c, t)) \/ ClearAll(c)
      PROVE  Queues'
  BY <1>1, <1>5 DEF CreateToken, UpdateToken, DeleteToken, ClearAll
<1>6. ASSUME NEW c \in Call, CallStep(c) PROVE Queues'
  BY <1>1, <1>2, <1>6 DEF CallStep, Fill, UpdateRow, UpdateRowFails, Reread, QuotaUpdated, ReturnsEarly, DeleteHot,
     DeleteWarm, Keys, DelKeys
<1>7. CASE Tick \/ Cleanup \/ UNCHANGED vars
  BY <1>1, <1>7 DEF Tick, Cleanup, vars
<1> QED
  BY <1>3, <1>4, <1>5, <1>6, <1>7 DEF Next


(* What a call has read stays what it read.                                  *)
LEMMA NextReading == Typed /\ [Next]_vars => Reading'
<1> SUFFICES ASSUME Typed, [Next]_vars PROVE Reading'
  OBVIOUS
<1>0. Aged /\ Shape /\ Reading /\ Resting /\ Stocked /\ \A c \in Call : Carry(c)
  BY DEF Typed, IInv, Aged, Carried
<1>1. ASSUME UNCHANGED hist PROVE Grows
  BY <1>1 DEF Grows
<1>2. ASSUME NEW c \in Call, Grows, Reads(c)',
             \A x \in Call \ {c} : pc'[x] = pc[x] /\ tok'[x] = tok[x] /\ got'[x] = got[x]
      PROVE  Reading'
  <2> SUFFICES ASSUME NEW x \in Call PROVE Reads(x)'
    BY DEF Reading
  <2>1. CASE x = c
    BY <1>2, <2>1
  <2>2. CASE x # c
    <3>1. Reads(x) /\ pc'[x] = pc[x] /\ tok'[x] = tok[x] /\ got'[x] = got[x]
      BY <1>0, <1>2, <2>2 DEF Reading
    <3> QED
      BY <1>2, <3>1 DEF Reads, Grows
  <2> QED
    BY <2>1, <2>2
<1>3. ASSUME NEW c \in Call, Grows, End(c) PROVE Reading'
  <2>1. Alone(c) /\ pc'[c] = "idle" /\ got'[c] = None
    BY <1>0, <1>3, EndIs DEF End, With, Shape
  <2>2. Reads(c)'
    BY <2>1 DEF Reads
  <2> QED
    BY <1>2, <1>3, <2>1, <2>2 DEF Alone
<1>4. ASSUME NEW c \in Call, Grows, NEW where, Goto(c, where), UNCHANGED got, pc[c] # "del", where # "del" PROVE Reading'
  <2>1. Reads(c) /\ Alone(c) /\ pc'[c] = where /\ tok'[c] = tok[c] /\ got'[c] = got[c]
    BY <1>0, <1>4 DEF Goto, Shape, Alone, Reading
  <2>2. Reads(c)'
    BY <1>4, <2>1 DEF Reads, Grows
  <2> QED
    BY <1>2, <1>4, <2>1, <2>2 DEF Alone
<1>5. ASSUME NEW c \in Call, NEW v, NEW where, UNCHANGED hist, Goto(c, where), With(c, v), where # "del",
             tok[c] \in Token, v \in 1 .. Len(hist[tok[c]])
      PROVE  Reading'
  <2>1. Alone(c) /\ pc'[c] = where /\ tok'[c] = tok[c] /\ got'[c] = v
    BY <1>0, <1>5 DEF Goto, With, Shape, Alone
  <2>2. Reads(c)'
    BY <1>5, <2>1 DEF Reads
  <2> QED
    BY <1>1, <1>2, <1>5, <2>1, <2>2 DEF Alone
<1>6. ASSUME NEW c \in Call, Grows, NEW t, NEW where, Begin(c, t, where), where # "del", UNCHANGED got PROVE Reading'
  <2>1. Alone(c) /\ pc'[c] = where /\ got'[c] = got[c] /\ pc[c] = "idle"
    BY <1>0, <1>6 DEF Begin, Shape, Alone, At
  <2>2. got[c] = None
    BY <1>0, <2>1, TokenCacheAssumption DEF Reading, Reads, Resting
  <2>3. Reads(c)'
    BY <1>6, <2>1, <2>2 DEF Reads
  <2> QED
    BY <1>2, <1>6, <2>1, <2>3 DEF Alone
<1>7. ASSUME NEW c \in Reader, NEW t \in Token, ValidateToken(c, t) PROVE Reading'
  <2>1. c \in Call /\ UNCHANGED hist /\ Begin(c, t, "hot") /\ UNCHANGED got
    BY <1>7 DEF ValidateToken, Call
  <2> QED
    BY <1>1, <1>6, <2>1
<1>8. ASSUME NEW c \in Call, UNCHANGED hist, Judge(c), pc[c] # "del" PROVE Reading'
  <2>1. CASE Goto(c, "unhot") /\ UNCHANGED got
    BY <1>1, <1>4, <1>8, <2>1
  <2>2. CASE End(c)
    BY <1>1, <1>3, <1>8, <2>2
  <2> QED
    BY <1>8, <2>1, <2>2 DEF Judge, Reply
<1>9. ASSUME NEW c \in Reader, ReaderStep(c) PROVE Reading'
  <2>0. c \in Call /\ Carry(c)
    BY <1>0 DEF Call
  <2>1. CASE GetHot(c)
    <3>1. UNCHANGED hist /\ pc[c] = "hot" /\ tok[c] \in Token
      BY <2>0, <2>1 DEF GetHot, At, Carry
    <3>2. CASE HotHit(tok[c])
      <4>1. Held(tok[c], hot[tok[c]].version, hot[tok[c]].at, WarmTTL)
        BY <1>0, <3>1, <3>2 DEF HotHit, Stocked
      <4>2. hot[tok[c]].version \in 1 .. Len(hist[tok[c]])
        BY <4>1 DEF Held, HeldIn
      <4>3. With(c, hot[tok[c]].version) /\ Goto(c, "touch")
        BY <2>1, <3>2 DEF GetHot
      <4> QED
        BY <1>5, <2>0, <3>1, <4>2, <4>3
    <3>3. CASE ~HotHit(tok[c])
      BY <1>1, <1>4, <2>0, <2>1, <3>1, <3>3 DEF GetHot
    <3> QED
      BY <3>2, <3>3
  <2>2. CASE Touch(c)
    BY <1>8, <2>0, <2>2 DEF Touch, At
  <2>3. CASE GetWarm(c)
    <3>1. UNCHANGED hist /\ pc[c] = "warm" /\ tok[c] \in Token
      BY <2>0, <2>3 DEF GetWarm, At, Carry
    <3>2. CASE WarmHit(tok[c]) /\ With(c, warm[tok[c]].version) /\ Goto(c, "promote")
      <4>1. Held(tok[c], warm[tok[c]].version, warm[tok[c]].at, 1)
        BY <1>0, <3>1, <3>2 DEF WarmHit, Stocked
      <4>2. warm[tok[c]].version \in 1 .. Len(hist[tok[c]])
        BY <4>1 DEF Held, HeldIn
      <4> QED
        BY <1>5, <2>0, <3>1, <3>2, <4>2
    <3>3. CASE Goto(c, "db") /\ UNCHANGED got
      BY <1>1, <1>4, <2>0, <3>1, <3>3
    <3> QED
      BY <2>3, <3>2, <3>3 DEF GetWarm
  <2>4. CASE Promote(c)
    BY <1>8, <2>0, <2>4 DEF Promote, At
  <2>5. CASE GetByToken(c)
    <3>1. UNCHANGED hist /\ pc[c] = "db" /\ tok[c] \in Token
      BY <2>0, <2>5 DEF GetByToken, At, Carry
    <3>2. CASE Active(tok[c]) /\ With(c, Latest(tok[c])) /\ Goto(c, "fill")
      <4>1. Latest(tok[c]) \in 1 .. Len(hist[tok[c]])
        BY <1>0, <3>1, <3>2 DEF Active, Latest, Shape
      <4> QED
        BY <1>5, <2>0, <3>1, <3>2, <4>1
    <3>3. CASE End(c)
      BY <1>1, <1>3, <2>0, <3>1, <3>3
    <3> QED
      BY <2>5, <3>2, <3>3 DEF GetByToken, Reply
  <2>6. CASE GetByTokenFails(c)
    BY <1>1, <1>3, <2>0, <2>6 DEF GetByTokenFails, Reply
  <2> QED
    BY <1>9, <2>1, <2>2, <2>3, <2>4, <2>5, <2>6 DEF ReaderStep
<1>10. ASSUME NEW c \in Admin, NEW t \in Managed, CreateToken(c, t) PROVE Reading'
  <2>1. c \in Call /\ t \in Token /\ \E r \in Rec : Register!Supersede(t, r)
    BY <1>10, NewRowIs, TokenCacheAssumption DEF CreateToken, Change, Call
  <2>2. Grows /\ Len(hist'[t]) = Len(hist[t]) + 1 /\ Len(hist[t]) \in Nat
    BY <1>0, <2>1, SupersedeGrows DEF Shape
  <2>3. Begin(c, t, "fill") /\ With(c, 1)
    BY <1>10 DEF CreateToken
  <2>4. Alone(c) /\ pc'[c] = "fill" /\ tok'[c] = t /\ got'[c] = 1
    BY <1>0, <2>1, <2>3 DEF Begin, With, Alone, Shape
  <2>5. Reads(c)'
    BY <2>1, <2>2, <2>4 DEF Reads
  <2> QED
    BY <1>2, <2>1, <2>2, <2>4, <2>5 DEF Alone
<1>11. ASSUME NEW c \in Admin, NEW t \in Managed, UpdateToken(c, t) PROVE Reading'
  <2>1. c \in Call /\ UNCHANGED hist /\ Begin(c, t, "write") /\ UNCHANGED got
    BY <1>11 DEF UpdateToken, Call
  <2> QED
    BY <1>1, <1>6, <2>1
<1>12. ASSUME NEW c \in Admin, NEW t \in Managed, DeleteToken(c, t) PROVE Reading'
  <2>1. c \in Call /\ t \in Token
    BY TokenCacheAssumption DEF Call
  <2>2. Active(t) /\ Register!Supersede(t, [hist[t][Latest(t)] EXCEPT !.active = FALSE])
    BY <1>12 DEF DeleteToken, Change
  <2>3. [hist[t][Latest(t)] EXCEPT !.active = FALSE] \in Rec
    BY <1>0, <2>1, <2>2, DeletedRow
  <2>4. Grows
    BY <1>0, <2>1, <2>2, <2>3, SupersedeGrows
  <2>5. Begin(c, t, "unhot") /\ UNCHANGED got
    BY <1>12 DEF DeleteToken
  <2> QED
    BY <1>6, <2>1, <2>4, <2>5
<1>13. ASSUME NEW c \in Admin, ClearAll(c) PROVE Reading'
  <2>1. c \in Call /\ UNCHANGED hist /\ Begin(c, None, "keys") /\ UNCHANGED got
    BY <1>13 DEF ClearAll, Call
  <2> QED
    BY <1>1, <1>6, <2>1
<1>14. ASSUME NEW c \in Call, UpdateRow(c) PROVE Reading'
  <2>1. pc[c] = "write" /\ Goto(c, "reread") /\ UNCHANGED got /\ tok[c] \in Token
    BY <1>0, <1>14 DEF UpdateRow, At, Carry
  <2>2. Grows
    <3>1. CASE Active(tok[c])
      <4>1. \E e \in Expiry : Register!Supersede(tok[c], NewRow(e))
        BY <1>14, <3>1 DEF UpdateRow, Change
      <4> QED
        BY <1>0, <2>1, <4>1, NewRowIs, SupersedeGrows
    <3>2. CASE ~Active(tok[c])
      BY <1>1, <1>14, <3>2 DEF UpdateRow
    <3> QED
      BY <3>1, <3>2
  <2> QED
    BY <1>4, <2>1, <2>2
<1>15. ASSUME NEW c \in Call, Fill(c) \/ Reread(c) \/ QuotaUpdated(c) \/ DeleteHot(c) PROVE Reading'
  <2>1. UNCHANGED <<hist, got>> /\ pc[c] # "del" /\ \E where : Goto(c, where) /\ where # "del"
    BY <1>15 DEF Fill, Reread, QuotaUpdated, DeleteHot, At
  <2>2. Grows
    BY <1>1, <2>1
  <2> QED
    BY <1>4, <2>1, <2>2
<1>16. ASSUME NEW c \in Call, Submit(c) \/ UpdateRowFails(c) \/ ReturnsEarly(c) \/ DeleteWarm(c) \/ DelKeys(c) PROVE Reading'
  <2>1. UNCHANGED hist /\ End(c)
    BY <1>16 DEF Submit, Submitted, UpdateRowFails, ReturnsEarly, DeleteWarm, DelKeys, Reply, Done
  <2> QED
    BY <1>1, <1>3, <2>1
<1>17. ASSUME NEW c \in Call, Keys(c) PROVE Reading'
  <2>1. UNCHANGED hist /\ Grows
    BY <1>1, <1>17 DEF Keys
  <2>2. CASE Done(c)
    BY <1>3, <2>1, <2>2 DEF Done
  <2>3. CASE With(c, {t \in Token : WarmHit(t)}) /\ Goto(c, "del")
    <3>1. Alone(c) /\ pc'[c] = "del" /\ got'[c] \subseteq Token
      BY <1>0, <2>3 DEF Goto, With, Shape, Alone
    <3>2. Reads(c)'
      BY <3>1 DEF Reads
    <3> QED
      BY <1>2, <2>1, <3>1, <3>2 DEF Alone
  <2> QED
    BY <1>17, <2>2, <2>3 DEF Keys
<1>18. CASE (\E k \in pending : RunTask(k)) \/ Tick \/ Cleanup \/ UNCHANGED vars
  <2>1. UNCHANGED <<hist, pc, tok, got>>
    BY <1>18 DEF RunTask, Tick, Cleanup, vars, calls, register
  <2> QED
    BY <1>0, <2>1 DEF Reading, Reads, At
<1> QED
  BY <1>7, <1>9, <1>10, <1>11, <1>12, <1>13, <1>14, <1>15, <1>16, <1>17, <1>18 DEF Next, CallStep

(* One record of each token at most, at the start.                           *)
LEMMA InitTyped == Init => HotListed /\ Used <= MaxVersion /\ Reading /\ Queues
<1> SUFFICES ASSUME Init PROVE HotListed /\ Used <= MaxVersion /\ Reading /\ Queues
  OBVIOUS
<1>1. HotListed
  BY InitListed
<1>2. Used <= MaxVersion
  <2>1. Shape
    BY InitAged DEF Aged
  <2>2. Writers = {}
    BY DEF Init, Writers, At
  <2>3. PICK f : f = Records
    OBVIOUS
  <2>4. Used = SumFunctionOnSet(f, Token) + 0 /\ Numbers(f, Token) /\ SumFunctionOnSet(f, Token) \in Nat
    BY <2>1, <2>2, <2>3, RecordsCount, FS_EmptySet
  <2>5. ASSUME NEW t \in Token PROVE f[t] \in 0 .. 1
    <3>1. PICK row : row = [active |-> TRUE, expires |-> Never, until |-> Never]
      OBVIOUS
    <3>2. Len(hist[t]) \in 0 .. 1
      <4>1. hist[t] = <<>> \/ hist[t] = <<row>>
        BY <3>1 DEF Init
      <4>2. CASE hist[t] = <<>>
        BY <4>2
      <4>3. CASE hist[t] = <<row>>
        <5>1. Len(hist[t]) = 1
          BY <4>3
        <5> QED
          BY <5>1
      <4> QED
        BY <4>1, <4>2, <4>3
    <3> QED
      BY <2>3, <3>2 DEF Records, Latest
  <2>6. PICK g : g = [t \in Token |-> 1]
    OBVIOUS
  <2>7. Numbers(g, Token) /\ \A t \in Token : f[t] <= g[t]
    BY <2>5, <2>6, TokensFit DEF Numbers
  <2>8. SumFunctionOnSet(f, Token) <= SumFunctionOnSet(g, Token)
    BY <2>4, <2>7, SumGrows
  <2>9. SumFunctionOnSet(g, Token) = Cardinality(Token)
    BY <2>6, OnesCount, TokensFit
  <2>10. Cardinality(Token) \in Nat
    BY TokensFit, FS_CardinalityType
  <2> QED
    BY <2>4, <2>8, <2>9, <2>10, TokensFit
<1>3. Reading
  BY DEF Init, Reading, Reads
<1>4. Queues
  BY TokenCacheAssumption, FS_EmptySet DEF Init, Queues
<1> QED
  BY <1>1, <1>2, <1>3, <1>4

(* Every step keeps the types, and so the queue within QueueSize, the hot    *)
(* cache within HotMax and every version within the records that exist.      *)
LEMMA TypedInductive == Spec => []Typed
<1>1. Init => Typed
  BY InitAged, InitOrderly, InitTyped DEF IInv, Typed
<1>2. Typed /\ [Next]_vars => Typed'
  <2> SUFFICES ASSUME Typed, [Next]_vars PROVE Typed'
    OBVIOUS
  <2>1. IInv'
    BY NextAged, NextResting, NextOrderly DEF Typed, IInv
  <2>2. HotListed'
    BY NextListed DEF Typed, IInv
  <2>3. Used' <= MaxVersion /\ Reading' /\ Queues'
    BY NextFits, NextReading, NextQueues
  <2> QED
    BY <2>1, <2>2, <2>3 DEF Typed
<1> QED
  BY <1>1, <1>2, PTL DEF Spec

(* The types of the state: no cache, queue or call ever refers to a record   *)
(* that the token does not have, and no more writes wait than the queue has  *)
(* places, for all numbers of tokens, calls and places.                      *)
THEOREM TypesHold == Spec => []TypeOK
<1>1. Typed => TypeOK
  <2> SUFFICES ASSUME Typed PROVE TypeOK
    OBVIOUS
  <2>1. Shape /\ Stocked /\ Queued /\ HotListed /\ Reading /\ Queues /\ Used <= MaxVersion
    BY DEF Typed, IInv, Aged
  <2>2. ASSUME NEW t \in Token, NEW v \in 1 .. Len(hist[t]) PROVE v \in Version
    <3>1. Len(hist[t]) <= Used /\ Used \in Nat /\ Len(hist[t]) \in Nat
      <4>1. /\ SumFunctionOnSet(Records, Token) \in Nat /\ Cardinality(Writers) \in Nat
            /\ Used = SumFunctionOnSet(Records, Token) + Cardinality(Writers)
        BY <2>1, RecordsCount
      <4>2. Len(hist[t]) <= Used
        BY <2>1, RecordsCount
      <4>3. Len(hist[t]) \in Nat
        BY <2>1 DEF Shape
      <4> QED
        BY <4>1, <4>2, <4>3
    <3> QED
      BY <2>1, <2>2, <3>1, TokensFit DEF Version
  <2>3. ASSUME NEW t \in Token, NEW i \in Stored, NEW age, Held(t, i.version, i.at, age) PROVE i \in ItemType
    <3>1. i.version \in Version
      BY <2>2, <2>3 DEF Held, HeldIn
    <3>2. i.at \in 0 .. MaxTime
      BY <2>1, <2>3, TokenCacheAssumption DEF Held, HeldIn, Shape
    <3>3. i = [version |-> i.version, at |-> i.at]
      BY DEF Stored
    <3> QED
      BY <3>1, <3>2, <3>3 DEF ItemType
  <2>4. hot \in [Token -> ItemType \cup {None}]
    BY <2>1, <2>3 DEF Shape, Stocked
  <2>5. warm \in [Token -> ItemType \cup {None}]
    BY <2>1, <2>3 DEF Shape, Stocked
  <2>6. pending \subseteq [token : Token, version : Version]
    <3> SUFFICES ASSUME NEW k \in pending PROVE k \in [token : Token, version : Version]
      OBVIOUS
    <3>1. k \in [token : Token, version : Nat] /\ k.version \in 1 .. Len(hist[k.token])
      BY <2>1 DEF Shape, Queued, Held, HeldIn
    <3>2. k.version \in Version
      BY <2>2, <3>1
    <3> QED
      BY <3>1, <3>2
  <2>7. \A c \in Call : IF At(c, "del") THEN got[c] \subseteq Token ELSE got[c] \in Version \cup {None}
    BY <2>1, <2>2 DEF Reading, Reads, At
  <2>8. now \in 0 .. MaxTime /\ lru \in Seq(Token) /\ Cardinality(pending) <= QueueSize
    BY <2>1 DEF Shape, HotListed, Lists, Queues
  <2> QED
    BY <2>4, <2>5, <2>6, <2>7, <2>8 DEF TypeOK
<1> QED
  BY <1>1, TypedInductive, PTL
===============================================================================
