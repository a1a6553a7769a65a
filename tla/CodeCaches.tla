----------------------------- MODULE CodeCaches -----------------------------
(***************************************************************************)
(* From a code to the program that runs: the cache of the verdicts of the  *)
(* static check, the compilation that equal codes share and the cache of   *)
(* compiled programs. utils/lru_cache.go, utils/generic_lru_cache.go,      *)
(* validateInputWithContext, validateCodeWithCache and getCompiledCode of  *)
(* service/executor_helpers.go.                                            *)
(*                                                                         *)
(* Codes that differ only in what normalizeCode removes share a verdict    *)
(* but not a program. A cache is modelled by the codes of each shard, the  *)
(* most recent first, with what is stored under them.                      *)
(***************************************************************************)
EXTENDS Integers, Sequences, FiniteSets, FiniteSetsExt, SequencesExt

CONSTANTS Caller, None,
          Code,
          Normal,      \* [Code -> Code]: normalizeCode
          Shard,       \* [Code -> shards of a cache]
          ShardSize,
          ValidCodes,  \* codes, normalized, that pass validateCode
          Compiles,    \* codes that goja compiles
          MaxCompiles  \* in all: bound

VARIABLES at, held,           \* [Caller -> its step], [Caller -> its code]
          verdicts, programs, \* [shards -> Seq of [code, value]]: validationCache, codeCache
          flight,             \* [Code -> the caller that compiles it, or None]: compileGroup
          got,                \* [Caller -> what its flight returns]
          compiled, dropped,  \* ghosts: [Code -> compilations], [Code -> evictions of its program]
          since               \* ghost: [Code -> the codes of its shard used in codeCache since it was, or None]

caches == <<verdicts, programs>>
vars   == <<at, held, caches, flight, got, compiled, dropped, since>>

Shards == {Shard[c] : c \in Code}
Init ==
  /\ at = [k \in Caller |-> "idle"] /\ held = [k \in Caller |-> None]
  /\ verdicts = [s \in Shards |-> <<>>] /\ programs = [s \in Shards |-> <<>>]
  /\ flight = [c \in Code |-> None] /\ got = [k \in Caller |-> None]
  /\ compiled = [c \in Code |-> 0] /\ dropped = [c \in Code |-> 0] /\ since = [c \in Code |-> None]

-----------------------------------------------------------------------------
\* LRUCache and GenericLRUCache: what they do under the lock of a shard.

Codes(list) == {list[i].code : i \in DOMAIN list}
Found(cache, c) == c \in Codes(cache[Shard[c]])
Place(list, c) == CHOOSE i \in DOMAIN list : list[i].code = c
Stored(cache, c) == cache[Shard[c]][Place(cache[Shard[c]], c)].value

\* MoveToFront of what is stored under c, which is now v.
Moved(list, c, v) == <<[code |-> c, value |-> v]>> \o RemoveAt(list, Place(list, c))

\* Get moves what it finds to the front.
Get(cache, c) == IF ~Found(cache, c) THEN cache
                 ELSE [cache EXCEPT ![Shard[c]] = Moved(@, c, Stored(cache, c))]

\* Put updates, or adds in front and evicts the last one of a shard that is over its size.
Put(cache, c, v) ==
  LET list == cache[Shard[c]]
      more == <<[code |-> c, value |-> v]>> \o list
  IN [cache EXCEPT ![Shard[c]] = IF Found(cache, c) THEN Moved(list, c, v)
                                 ELSE IF Len(more) > ShardSize THEN Front(more) ELSE more]
Evicted(cache, c, v) == {d \in Code : Found(cache, d) /\ ~Found(Put(cache, c, v), d)}

Touch(c) == since' = [d \in Code |-> IF d = c THEN {}
                                     ELSE IF Shard[d] = Shard[c] /\ since[d] # None THEN since[d] \cup {c}
                                     ELSE since[d]]

-----------------------------------------------------------------------------
Goto(k, step) == at' = [at EXCEPT ![k] = step]

\* validateCodeWithCache: the verdict under the normalized code.
Call(k) ==
  /\ at[k] = "idle"
  /\ \E c \in Code :
       LET n == Normal[c]
           verdict == IF Found(verdicts, n) THEN Stored(verdicts, n) ELSE "unknown"
       IN /\ held' = [held EXCEPT ![k] = c] /\ verdicts' = Get(verdicts, n)
          /\ Goto(k, CASE verdict = "ok" -> "validated" [] verdict = "unknown" -> "validate" [] OTHER -> "refused")
  /\ UNCHANGED <<programs, flight, got, compiled, dropped, since>>

\* validateCode and Put: two callers that both missed both validate.
Validate(k) ==
  /\ at[k] = "validate"
  /\ LET n == Normal[held[k]]
         verdict == IF n \in ValidCodes THEN "ok" ELSE "error"
     IN /\ verdicts' = Put(verdicts, n, verdict) /\ Goto(k, IF n \in ValidCodes THEN "validated" ELSE "refused")
  /\ UNCHANGED <<held, programs, flight, got, compiled, dropped, since>>

\* The context is looked at between the checks, then the input is: its JSON may fail or be too large.
CheckInput(k) == /\ at[k] = "validated" /\ (Goto(k, "compile") \/ Goto(k, "refused"))
                 /\ UNCHANGED <<held, caches, flight, got, compiled, dropped, since>>

\* getCompiledCode: the first caller of a code does the work (singleflight), the others wait for it.
Join(k) ==
  /\ at[k] = "compile"
  /\ LET c == held[k]
     IN IF flight[c] = None THEN flight' = [flight EXCEPT ![c] = k] /\ Goto(k, "look again")
        ELSE Goto(k, "waits") /\ UNCHANGED flight
  /\ UNCHANGED <<held, caches, got, compiled, dropped, since>>

\* A mutant of the next step does not look again.
CompileAnyway(k) ==
  /\ at[k] = "look again" /\ Goto(k, "goja")
  /\ UNCHANGED <<held, caches, flight, got, compiled, dropped, since>>

\* The work: the cache, where an earlier flight may have left the program;
LookAgain(k) ==
  /\ at[k] = "look again"
  /\ LET c == held[k]
     IN /\ programs' = Get(programs, c)
        /\ IF Found(programs, c)
           THEN got' = [got EXCEPT ![k] = Stored(programs, c)] /\ Goto(k, "deliver") /\ Touch(c)
           ELSE Goto(k, "goja") /\ UNCHANGED <<got, since>>
  /\ UNCHANGED <<held, verdicts, flight, compiled, dropped>>

\* then goja, whose program is put into the cache: an error is not.
Compile(k) ==
  /\ at[k] = "goja" /\ FoldSet(LAMBDA c, n : n + compiled[c], 0, Code) < MaxCompiles
  /\ compiled' = [compiled EXCEPT ![held[k]] = @ + 1]
  /\ got' = [got EXCEPT ![k] = IF held[k] \in Compiles THEN held[k] ELSE "syntax error"]
  /\ Goto(k, IF held[k] \in Compiles THEN "put" ELSE "deliver")
  /\ UNCHANGED <<held, caches, flight, dropped, since>>
PutProgram(k) ==
  /\ at[k] = "put" /\ Goto(k, "deliver")
  /\ LET c == held[k]
     IN /\ programs' = Put(programs, c, got[k]) /\ Touch(c)
        /\ dropped' = [d \in Code |-> dropped[d] + (IF d \in Evicted(programs, c, got[k]) THEN 1 ELSE 0)]
  /\ UNCHANGED <<held, verdicts, flight, got, compiled>>

\* The end of a flight: all that wait for it get its answer, and a later call starts a new one.
Waits(j, c) == at[j] = "waits" /\ held[j] = c
Deliver(k) ==
  /\ at[k] = "deliver" /\ flight' = [flight EXCEPT ![held[k]] = None]
  /\ LET answered == {k} \cup {j \in Caller : Waits(j, held[k])}
     IN /\ got' = [j \in Caller |-> IF j \in answered THEN got[k] ELSE got[j]]
        /\ at' = [j \in Caller |-> IF j \in answered THEN "answered" ELSE at[j]]
  /\ UNCHANGED <<held, caches, compiled, dropped, since>>

Return(k) == /\ at[k] \in {"answered", "refused"} /\ Goto(k, "idle")
             /\ held' = [held EXCEPT ![k] = None] /\ got' = [got EXCEPT ![k] = None]
             /\ UNCHANGED <<caches, flight, compiled, dropped, since>>

Step(k) == \/ Call(k) \/ Validate(k) \/ CheckInput(k) \/ Join(k) \/ LookAgain(k) \/ Compile(k)
           \/ PutProgram(k) \/ Deliver(k) \/ Return(k)
Next == \E k \in Caller : Step(k)
Spec == Init /\ [][Next]_vars

-----------------------------------------------------------------------------
\* A caller runs the program of its own code, and only of a code whose normal form passes the check, whoever
\* validated and compiled it.
RunsItsOwn ==
  \A k \in Caller : at[k] = "answered" => /\ Normal[held[k]] \in ValidCodes
                                          /\ got[k] = IF held[k] \in Compiles THEN held[k] ELSE "syntax error"

\* A code that compiles is compiled again only when its program was evicted, however many callers miss it at
\* once, and never by two callers at a time.
CompiledOnce ==
  \A c \in Code : /\ c \in Compiles => compiled[c] <= 1 + dropped[c]
                  /\ Cardinality({k \in Caller : held[k] = c /\ at[k] \in {"look again", "goja", "put", "deliver"}}) <= 1

\* A caller that waits has somebody to wait for.
NobodyForgotten == \A k \in Caller : at[k] = "waits" => flight[held[k]] # None

\* A shard holds at most what it may, and exactly those of its codes that have been used and since whose last
\* use fewer than ShardSize others of the shard were.
KeepsRecent ==
  /\ \A s \in Shards : Len(programs[s]) <= ShardSize
  /\ \A c \in Code : Found(programs, c) <=> since[c] # None /\ Cardinality(since[c]) < ShardSize

CodeServed == RunsItsOwn /\ CompiledOnce /\ NobodyForgotten /\ KeepsRecent

=============================================================================
