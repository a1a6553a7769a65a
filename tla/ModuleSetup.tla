------------------------------ MODULE ModuleSetup ------------------------------
(***************************************************************************)
(* How a JavaScript runtime gets its modules: the registry, the libraries  *)
(* compiled once at the start, the runtimes of the pool set up in          *)
(* parallel and those of an event loop one per execution, the loading of a *)
(* library by require, and the limit on what a code allocates.             *)
(* service/module_registry.go, service/executor_service.go and the         *)
(* libraries' *_enhancement.go files and js_memory_limiter.go of           *)
(* enhance_modules.                                                        *)
(*                                                                         *)
(* What a library computes is left out: a library is its name. require     *)
(* keeps what a module gave the first time; the libraries share the global *)
(* variables of their runtime.                                             *)
(***************************************************************************)
EXTENDS Integers, Sequences, FiniteSets, FiniteSetsExt

CONSTANTS Pooled,      \* the runtimes of the pool, poolSize of them
          Loop,        \* the runtime of an event loop
          None,
          Limit,       \* MAX_SIZE of the limiter, in bytes
          Numbers,     \* what lengths an allocation asks for
          MaxLoads, MaxAllocations \* by require and by constructors, in all: bounds

VARIABLES stage,    \* of NewJSExecutor
          modules,  \* Seq: the names in moduleRegistry, in the order of their registration
          broken,   \* the libraries whose embedded code does not compile
          programs, \* [Library -> [compiled, ok]]: compileOnce, with a count of the compilations
          warmup,   \* warmupStats: [status, modules]
          rt,       \* [Runtimes -> a runtime]
          pool      \* runtimePool

vars == <<stage, modules, broken, programs, warmup, rt, pool>>

Runtimes == Pooled \cup {Loop}

\* registerModules, and the list of warmupModules.
Listed == <<"buffer", "crypto", "crypto-js", "fetch", "axios", "dayjs", "qs", "lodash", "pinyin", "uuid",
            "fast-xml-parser", "xlsx", "sm-crypto-v2">>
Library == {"crypto-js", "axios", "dayjs", "lodash", "fast-xml-parser"}
ToWarm  == <<"crypto-js", "axios", "dayjs", "lodash", "qs", "uuid", "fast-xml-parser", "sm-crypto-v2">>

\* setupRuntime, and the first part of executeWithEventLoop.
StepsOf(r) == IF r = Loop THEN <<"node", "modules", "globals", "disable", "harden">>
              ELSE <<"polyfill", "node", "globals", "limiter", "disable", "modules", "harden">>

\* A runtime: the steps that were taken and those of them that worked, what the libraries left in its
\* globals, what require gave, the length of an array of the code, the bytes of its largest buffer.
Globals == {"module", "CryptoJS", "axios", "dayjs", "_", "fxp"}
Fresh == [at |-> 0, done |-> {}, globals |-> [g \in Globals |-> None], cache |-> <<>>,
          array |-> 0, bytes |-> 0, calls |-> 0]

Init ==
  /\ stage = "registering" /\ modules = <<>> /\ broken \in {{}, {"dayjs"}}
  /\ programs = [l \in Library |-> [compiled |-> 0, ok |-> FALSE]]
  /\ warmup = [status |-> "not_started", modules |-> <<>>]
  /\ rt = [r \in Runtimes |-> Fresh] /\ pool = {}

-----------------------------------------------------------------------------
\* NewJSExecutor: every module is registered, then given to require; Register of every module succeeds.

Register == /\ stage = "registering" /\ modules' = Listed /\ stage' = "warming"
            /\ UNCHANGED <<broken, programs, warmup, rt, pool>>

\* compileOnce.Do: the first call compiles and keeps the program or the error. A mutant compiles again.
Recompile(l) == [programs EXCEPT ![l] = [compiled |-> @.compiled + 1, ok |-> l \notin broken]]
CompileOnce(l) == IF programs[l].compiled > 0 THEN programs
                  ELSE [programs EXCEPT ![l] = [compiled |-> 1, ok |-> l \notin broken]]

\* warmupModules, one module after the other: the first error is fatal; native modules have nothing to compile.
Warm ==
  /\ stage = "warming"
  /\ LET m == ToWarm[Len(warmup.modules) + 1]
         compiled == IF m \in Library THEN CompileOnce(m) ELSE programs
         failed == m \in Library /\ ~compiled[m].ok
         warmed == IF m \in Range(modules) /\ ~failed THEN Append(warmup.modules, m) ELSE warmup.modules
     IN /\ programs' = compiled
        /\ warmup' = [modules |-> warmed, status |-> IF failed THEN "failed"
                                                     ELSE IF Len(warmed) = Len(ToWarm) THEN "completed" ELSE "not_started"]
        /\ stage' = IF failed THEN "fatal" ELSE IF Len(warmed) = Len(ToWarm) THEN "pooling" ELSE "warming"
  /\ UNCHANGED <<modules, broken, rt, pool>>

-----------------------------------------------------------------------------
\* setupRuntime: a step that fails is logged and passed over, SetupAll alone is not: fetch or crypto may
\* fail to register what it has. Nothing reads afterwards whether the polyfill or the hardening worked.

SetUp(r) == rt[r].at = Len(StepsOf(r)) + 1
Failed(r) == rt[r].at = -1
Optional == {"polyfill", "limiter", "harden"}
MayFail == Optional \cup {"modules"}

SetupStep(r) ==
  /\ stage = (IF r = Loop THEN "serving" ELSE "pooling") /\ rt[r].at \in 1..Len(StepsOf(r))
  /\ LET step == StepsOf(r)[rt[r].at]
     IN \E works \in (IF step \in MayFail THEN BOOLEAN ELSE {TRUE}) :
          rt' = [rt EXCEPT ![r].at = IF works \/ step \in Optional THEN @ + 1 ELSE -1,
                           ![r].done = IF works THEN @ \cup ({step} \ {"polyfill", "harden"}) ELSE @]
  /\ UNCHANGED <<stage, modules, broken, programs, warmup, pool>>

\* The goroutines of initRuntimePool each begin a runtime;
Make(r) == /\ stage = "pooling" /\ r \in Pooled /\ rt[r].at = 0 /\ rt' = [rt EXCEPT ![r].at = 1]
           /\ UNCHANGED <<stage, modules, broken, programs, warmup, pool>>

\* a mutant serves with those that could be made;
CollectSome ==
  /\ stage = "pooling" /\ \A r \in Pooled : SetUp(r) \/ Failed(r)
  /\ pool' = {r \in Pooled : SetUp(r)} /\ stage' = "serving"
  /\ UNCHANGED <<modules, broken, programs, warmup, rt>>

\* all of them end before the pool is filled, with all or, if one failed, with none: that is fatal.
Collect ==
  /\ stage = "pooling" /\ \A r \in Pooled : SetUp(r) \/ Failed(r)
  /\ IF \E r \in Pooled : Failed(r) THEN stage' = "fatal" /\ UNCHANGED pool
     ELSE stage' = "serving" /\ pool' = Pooled
  /\ UNCHANGED <<modules, broken, programs, warmup, rt>>

\* executeWithEventLoop begins with a runtime of its own. When its modules fail the call does.
StartLoop == /\ stage = "serving" /\ (rt[Loop].at = 0 \/ SetUp(Loop) \/ Failed(Loop))
             /\ rt' = [rt EXCEPT ![Loop] = [Fresh EXCEPT !.at = 1]]
             /\ UNCHANGED <<stage, modules, broken, programs, warmup, pool>>

-----------------------------------------------------------------------------
\* The loaders. lodash and dayjs: a library of the UMD form, that finds a module and its exports made for it
\* among the globals, where they stay.

NameOf(l) == CASE l = "crypto-js" -> "CryptoJS" [] l = "lodash" -> "_" [] l = "fast-xml-parser" -> "fxp" [] OTHER -> l

LoadUMD(g, l) == IF g[NameOf(l)] # None THEN g ELSE [g EXCEPT !["module"] = l, ![NameOf(l)] = l]

\* crypto-js: where there are exports they are what the library becomes, else the global CryptoJS is.
LoadCryptoJS(g) == IF g["module"] # None THEN [g EXCEPT !["module"] = "crypto-js"] ELSE [g EXCEPT !["CryptoJS"] = "crypto-js"]

\* axios: both.
LoadAxios(g) == [g EXCEPT !["axios"] = "axios", !["module"] = IF @ # None THEN "axios" ELSE None]

\* fast-xml-parser: module and exports are deleted while it runs and put back after it; a mutant leaves them.
LoadWithModule(g) == IF g["fxp"] # None THEN g
                     ELSE IF g["module"] # None THEN [g EXCEPT !["module"] = "fast-xml-parser"] ELSE [g EXCEPT !["fxp"] = "fast-xml-parser"]
LoadFastXMLParser(g) == IF g["fxp"] # None THEN g ELSE [g EXCEPT !["fxp"] = "fast-xml-parser"]

Loaded(g, l) == CASE l = "crypto-js" -> LoadCryptoJS(g) [] l = "axios" -> LoadAxios(g)
                  [] l = "fast-xml-parser" -> LoadFastXMLParser(g) [] OTHER -> LoadUMD(g, l)

\* require(l): the loader runs the first time, and the module is what the library's global is then: for
\* crypto-js that may be nothing, for the others that is an error.
Known(r, m) == \E i \in DOMAIN rt[r].cache : rt[r].cache[i].name = m
LoadsMade == MapThenSumSet(LAMBDA r : Len(rt[r].cache), Runtimes)
CallsMade == MapThenSumSet(LAMBDA r : rt[r].calls, Runtimes)
Serves(r) == SetUp(r) /\ stage = "serving" /\ (r \in pool \/ r = Loop)
Require(r, l) ==
  /\ Serves(r) /\ LoadsMade < MaxLoads /\ CallsMade = 0 /\ ~Known(r, l)
  /\ LET g == Loaded(rt[r].globals, l)
     IN rt' = [rt EXCEPT ![r].globals = g, ![r].cache = Append(@, [name |-> l, exports |-> g[NameOf(l)]])]
  /\ programs' = CompileOnce(l)
  /\ UNCHANGED <<stage, modules, broken, warmup, pool>>

-----------------------------------------------------------------------------
\* RegisterLimiter: what its wrapped constructors let through. Array(n) is compared as if an element were a
\* byte, push as if it were eight, a typed array by its bytes; lengths that are no numbers are not compared.

Limited(r) == "limiter" \in rt[r].done
CountsElements(n, bytes) == n <= Limit       \* a typed array whose length alone is compared
CountsBytes(n, bytes) == n * bytes <= Limit
Allocates(r) == Serves(r) /\ CallsMade < MaxAllocations /\ LoadsMade = 0

NewArray(r, n) ==
  /\ Allocates(r) /\ (Limited(r) => n <= Limit)
  /\ rt' = [rt EXCEPT ![r].array = n, ![r].calls = @ + 1]
  /\ UNCHANGED <<stage, modules, broken, programs, warmup, pool>>

Push(r, n) ==
  /\ Allocates(r) /\ (Limited(r) => (rt[r].array + n) * 8 <= Limit)
  /\ rt' = [rt EXCEPT ![r].array = @ + n, ![r].calls = @ + 1]
  /\ UNCHANGED <<stage, modules, broken, programs, warmup, pool>>

\* Uint8Array to Float64Array of n elements, and ArrayBuffer as one of elements of a byte.
NewBuffer(r, n, bytes) ==
  /\ Allocates(r) /\ (Limited(r) => CountsBytes(n, bytes))
  /\ rt' = [rt EXCEPT ![r].bytes = n * bytes, ![r].calls = @ + 1]
  /\ UNCHANGED <<stage, modules, broken, programs, warmup, pool>>

\* Shutdown, once no execution is left: CloseAll, in which only fetch has something to close.
CloseAll == /\ stage = "serving" /\ stage' = "closed" /\ pool' = {} /\ rt' = [r \in Runtimes |-> Fresh]
            /\ UNCHANGED <<modules, broken, programs, warmup>>

Use(r) == \/ \E l \in Library : Require(r, l)
          \/ \E n \in Numbers : NewArray(r, n) \/ Push(r, n) \/ \E bytes \in {1, 2, 4, 8} : NewBuffer(r, n, bytes)
Next == Register \/ Warm \/ Collect \/ StartLoop \/ CloseAll
        \/ \E r \in Runtimes : Make(r) \/ SetupStep(r) \/ Use(r)
Spec == Init /\ [][Next]_vars

-----------------------------------------------------------------------------
\* What is served has its modules: the pool is all of the runtimes that were asked for or there is none,
\* no runtime gets a require or a code before its set-up ended with every module in it, and none is served
\* by a process whose libraries did not all compile.
ServedComplete ==
  /\ pool \in {{}, Pooled}
  /\ \A r \in Runtimes : (r \in pool \/ rt[r].cache # <<>> \/ rt[r].calls > 0) =>
       SetUp(r) /\ {"node", "modules", "globals", "disable"} \subseteq rt[r].done
  /\ stage = "serving" => warmup.status = "completed" /\ pool = Pooled
  /\ stage = "fatal" => pool = {}

\* However many runtimes load a library, and in whatever order, its code is compiled once.
CompiledOnce == \A l \in Library : programs[l].compiled <= 1

\* What require gives is the library, whatever was loaded before it in the runtime, with one exception:
\* crypto-js is null after lodash or dayjs, whose module and exports it takes for its own.
OwnLibrary ==
  \A r \in Runtimes : \A i \in DOMAIN rt[r].cache :
    LET m == rt[r].cache[i]
        after == {rt[r].cache[j].name : j \in 1..(i - 1)}
    IN m.exports = IF m.name = "crypto-js" /\ after \cap {"lodash", "dayjs"} # {} THEN None ELSE m.name

\* Where the limiter works, no number makes a buffer of more bytes than the limit, and no sequence of
\* constructors and pushes an array of more elements than that.
AllocationsBounded == \A r \in Runtimes : Limited(r) => rt[r].bytes <= Limit /\ rt[r].array <= Limit

SetupHolds == ServedComplete /\ CompiledOnce /\ OwnLibrary /\ AllocationsBounded
================================================================================
