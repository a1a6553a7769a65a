----------------------------- MODULE MCServices -----------------------------
(***************************************************************************)
(* Services for TLC: values of the constants that a configuration cannot   *)
(* write, the fairness of each component, and what must happen eventually. *)
(***************************************************************************)
EXTENDS Services, TLC

MCBatches == {("a" :> {1, 2} @@ "b" :> {}), ("a" :> {3} @@ "b" :> {}), ("a" :> {2} @@ "b" :> {3})}
MCCodes   == {<<0>>, <<2, 1>>, <<1, 2, 1>>}

\* The n-th step of the component at work that is fair; the modules say why.
Fair(n) ==
  \/ /\ focus = "pool"
     /\ \/ n = 1 /\ Pool!SubmitStep("s1")
        \/ n = 2 /\ Pool!SubmitStep("s2")
        \/ n = 3 /\ Pool!WorkerStep("w1")
        \/ n = 4 /\ Pool!WorkerStep("w2")
        \/ n = 5 /\ Pool!ShutdownReturns
     /\ Rest("pool")
  \/ /\ focus = "cold"
     /\ \/ n = 1 /\ Cold!TimerFlushed
        \/ n = 2 /\ Cold!Closed
        \/ n = 3 /\ Cold!ExtraFlush("e1")
        \/ n = 4 /\ Cold!ExtraDone("e1")
        \/ n = 5 /\ Cold!Insert("e1")
        \/ n = 6 /\ Cold!Insert("timer")
     /\ Rest("cold")
  \/ /\ focus = "cleanup"
     /\ \/ n = 1 /\ Cleanup!Works("worker")
        \/ n = 2 /\ Cleanup!Works("t")
        \/ n = 3 /\ Cleanup!StopReturns
     /\ Rest("cleanup")
  \/ /\ focus = "front"
     /\ \/ n = 1 /\ Front!Step("c1")
        \/ n = 2 /\ Front!Step("c2")
        \/ n = 3 /\ Front!Loop("c1")
        \/ n = 4 /\ Front!Loop("c2")
     /\ Rest("front")
  \/ /\ focus = "process"
     /\ \/ n = 1 /\ Process!Proceed
        \/ n = 2 /\ Process!Exit
        \/ n = 3 /\ Process!CleanerStops
        \/ n = 4 /\ Process!WorkerStops
        \/ n = 5 /\ Process!Run("h1")
        \/ n = 6 /\ Process!Run("h2")
     /\ Rest("process")
  \/ /\ focus = "fetch"
     /\ \/ n = 1 /\ Fetch!Poll
        \/ n = 2 /\ Fetch!Execute
        \/ n = 3 /\ Fetch!Listener
        \/ n = 4 /\ Fetch!Expire
        \/ n = 5 /\ (fetch_reqCtx # "live" /\ Fetch!DoFails)
        \/ n = 6 /\ Fetch!TotalFires
        \/ n = 7 /\ Fetch!TotalCloses
     /\ Rest("fetch")

Fairness == \A n \in 1..7 : WF_vars(Fair(n))

\* The n-th step of the component at work that is strongly fair; the modules say why.
StronglyFair(n) ==
  \/ /\ focus = "cold"
     /\ \/ n = 1 /\ Cold!TimerSeesClose
     /\ Rest("cold")
  \/ /\ focus = "cleanup"
     /\ \/ n = 1 /\ Cleanup!WorkerStops
     /\ Rest("cleanup")

StrongFairness == \A n \in 1..1 : SF_vars(StronglyFair(n))

LiveSpec == Spec /\ Fairness /\ StrongFairness

-----------------------------------------------------------------------------
\* Code that never ends does not keep its call for ever. (c1 and c2 are alike.)
AsyncReturns == Front!AsyncReturns("c1")
\* Every fetch is settled and leaves nothing behind.
Released == Fetch!Released
\* Nobody waits for ever for the write pool, and what is told to stop stops: its workers, the cold
\* tier, the cleanup and the process. (s1 and s2 are alike.)
ServicesStop ==
  /\ Pool!SubmitsReturn("s1") /\ Pool!WorkersLeave
  /\ Cold!CloseReturns
  /\ Cleanup!StopEnds
  /\ Process!StopsOnSignal
=============================================================================
