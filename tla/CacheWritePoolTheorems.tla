------------------------ MODULE CacheWritePoolTheorems ------------------------
(* Proofs about CacheWritePool, for every number of submitters and workers   *)
(* and every capacity of the channel.                                        *)
EXTENDS CacheWritePool, FiniteSetTheorems, TLAPS

Entry == [early : BOOLEAN]

(* What the proofs need of the constants.                                    *)
Sizes == IsFiniteSet(Submitter) /\ IsFiniteSet(Worker) /\ Worker # {} /\ None \notin Entry

Shape ==
  /\ tasks \in Seq(Entry) /\ serving \in [Worker -> Entry \cup {None}]
  /\ mode \in [Worker -> {"serving", "draining", "gone"}] /\ stop \in BOOLEAN
  /\ shutdown \in {"open", "waiting", "drained", "timedout"}
  /\ at \in [Submitter -> {"away", "check", "select"}]
  /\ submitted \in Nat /\ processed \in Nat /\ succeeded \in Nat /\ failed \in Nat /\ timedOut \in Nat
  /\ submitBlocked \in Nat /\ refused \in Nat

(* A worker leaves only from an empty queue of a stopped pool, and what is   *)
(* queued later is not early.                                                *)
Left ==
  /\ (\E w \in Worker : mode[w] # "serving") => stop
  /\ (\E w \in Worker : mode[w] = "gone") => \A i \in 1 .. Len(tasks) : ~tasks[i].early
  /\ shutdown = "drained" => Gone

(* The pool starts typed, empty and open.                                    *)
LEMMA InitShape == Sizes /\ Init => Shape /\ Left
<1> SUFFICES ASSUME Sizes, Init PROVE Shape /\ Left
  OBVIOUS
<1>1. tasks \in Seq(Entry) /\ Len(tasks) = 0
  BY DEF Init
<1>2. Shape
  BY <1>1 DEF Init, Shape
<1>3. Left
  BY <1>1 DEF Init, Left
<1> QED
  BY <1>2, <1>3

(* A task is an entry that remembers whether the pool was open.              *)
LEMMA TaskIs == ASSUME Shape PROVE Task \in Entry /\ Task.early = ~stop
BY DEF Shape, Task, Entry

(* Types survive every step.                                                 *)
LEMMA NextShape == Shape /\ [Next]_vars => Shape'
<1> SUFFICES ASSUME Shape, [Next]_vars PROVE Shape'
  OBVIOUS
<1> USE DEF Shape, stats
<1>1. ASSUME NEW s \in Submitter, Submit(s) \/ TrySubmit(s) \/ SubmitStep(s) PROVE Shape'
  <2>0. Append(tasks, Task) \in Seq(Entry)
    BY TaskIs
  <2>1. CASE Submit(s)
    BY <2>1 DEF Submit
  <2>2. CASE TrySubmit(s)
    <3>1. /\ submitted' \in Nat /\ submitBlocked' \in Nat
          /\ tasks' = tasks \/ tasks' = Append(tasks, Task)
          /\ UNCHANGED <<serving, mode, stop, shutdown, at, processed, succeeded, failed, timedOut, refused>>
      BY <2>2 DEF TrySubmit
    <3> QED
      BY <2>0, <3>1
  <2>3. CASE CheckStop(s)
    BY <2>3 DEF CheckStop
  <2>4. CASE Send(s)
    BY <2>0, <2>4 DEF Send
  <2>5. CASE SubmitTimeout(s)
    BY <2>5 DEF SubmitTimeout
  <2>6. CASE SubmitClosed(s)
    BY <2>6 DEF SubmitClosed
  <2> QED
    BY <1>1, <2>1, <2>2, <2>3, <2>4, <2>5, <2>6 DEF SubmitStep
<1>2. ASSUME NEW w \in Worker, WorkerStep(w) PROVE Shape'
  <2>1. CASE Receive(w)
    <3>1. tasks \in Seq(Entry) /\ tasks # <<>>
      BY <2>1 DEF Receive
    <3>2. Head(tasks) \in Entry /\ Tail(tasks) \in Seq(Entry)
      BY <3>1
    <3> QED
      BY <2>1, <3>2 DEF Receive
  <2>2. CASE ProcessTask(w)
    BY <2>2 DEF ProcessTask
  <2>3. CASE SeeStop(w)
    BY <2>3 DEF SeeStop
  <2>4. CASE Leave(w)
    BY <2>4 DEF Leave
  <2> QED
    BY <1>2, <2>1, <2>2, <2>3, <2>4 DEF WorkerStep
<1>3. CASE Shutdown
  BY <1>3 DEF Shutdown
<1>4. CASE ShutdownReturns
  BY <1>4 DEF ShutdownReturns
<1>5. CASE UNCHANGED vars
  BY <1>5 DEF vars
<1> QED
  BY <1>1, <1>2, <1>3, <1>4, <1>5 DEF Next

(* Nothing early enters the queue of a stopped pool.                         *)
LEMMA AppendLate ==
  ASSUME Shape, stop, \A i \in 1 .. Len(tasks) : ~tasks[i].early, tasks' = Append(tasks, Task)
  PROVE  \A i \in 1 .. Len(tasks') : ~tasks'[i].early
<1>1. Task \in Entry /\ ~Task.early /\ tasks \in Seq(Entry)
  BY TaskIs DEF Shape
<1>2. ASSUME NEW i \in 1 .. Len(tasks')
      PROVE  tasks'[i] = IF i = Len(tasks) + 1 THEN Task ELSE tasks[i]
  BY <1>1, <1>2
<1>3. \A i \in 1 .. Len(tasks') : i \in 1 .. Len(tasks) \/ i = Len(tasks) + 1
  BY <1>1
<1> QED
  BY <1>1, <1>2, <1>3

(* Workers leave in the order the code demands: stop, empty queue, gone.     *)
LEMMA NextLeft == Shape /\ Left /\ [Next]_vars => Left'
<1> SUFFICES ASSUME Shape, Left, [Next]_vars PROVE Left'
  OBVIOUS
<1> USE DEF stats
<1>1. ASSUME NEW s \in Submitter, Submit(s) \/ CheckStop(s) \/ SubmitTimeout(s) \/ SubmitClosed(s) PROVE Left'
  BY <1>1 DEF Submit, CheckStop, SubmitTimeout, SubmitClosed, Left, Gone
<1>2. ASSUME NEW s \in Submitter, TrySubmit(s) \/ Send(s) PROVE Left'
  <2>1. UNCHANGED <<mode, stop, shutdown>> /\ (tasks' = tasks \/ tasks' = Append(tasks, Task))
    BY <1>2 DEF TrySubmit, Send
  <2> QED
    BY <2>1, AppendLate DEF Left, Gone
<1>3. ASSUME NEW w \in Worker, Receive(w) PROVE Left'
  <2>1. UNCHANGED <<mode, stop, shutdown>> /\ tasks' = Tail(tasks) /\ tasks # <<>>
    BY <1>3 DEF Receive
  <2>2. \A i \in 1 .. Len(tasks') : i + 1 \in 1 .. Len(tasks) /\ tasks'[i] = tasks[i + 1]
    BY <2>1 DEF Shape
  <2> QED
    BY <2>1, <2>2 DEF Left, Gone
<1>4. ASSUME NEW w \in Worker, ProcessTask(w) PROVE Left'
  BY <1>4 DEF ProcessTask, Left, Gone
<1>5. ASSUME NEW w \in Worker, SeeStop(w) \/ Leave(w) PROVE Left'
  BY <1>5 DEF SeeStop, Leave, Left, Gone, Shape
<1>6. CASE Shutdown \/ ShutdownReturns \/ UNCHANGED vars
  BY <1>6 DEF Shutdown, ShutdownReturns, vars, Left, Gone
<1> QED
  BY <1>1, <1>2, <1>3, <1>4, <1>5, <1>6 DEF Next, SubmitStep, WorkerStep

(* Every task accepted before Shutdown has been taken by a worker when       *)
(* Shutdown reports that the workers are done.                               *)
THEOREM NothingEarlyLeft == ASSUME Sizes PROVE Spec => []DrainedMeansRun
<1>1. Shape /\ Left => DrainedMeansRun
  BY Sizes DEF Sizes, Left, Gone, DrainedMeansRun
<1>2. Init => Shape /\ Left
  BY InitShape, Sizes
<1>3. (Shape /\ Left) /\ [Next]_vars => (Shape /\ Left)'
  BY NextShape, NextLeft
<1> QED
  BY <1>1, <1>2, <1>3, PTL DEF Spec

(***************************************************************************)
(* The counters.                                                           *)
(***************************************************************************)

(* A submitter that starts or ends its wait changes their number by one.     *)
LEMMA SendingMoves ==
  ASSUME Sizes, Shape, NEW s \in Submitter, NEW where, at' = [at EXCEPT ![s] = where]
  PROVE  /\ Cardinality(Sending) \in Nat
         /\ at[s] = "away" /\ where = "check" => Cardinality(Sending)' = Cardinality(Sending) + 1
         /\ at[s] # "away" /\ where = "away" => Cardinality(Sending)' = Cardinality(Sending) - 1
         /\ at[s] = "check" /\ where = "select" => Cardinality(Sending)' = Cardinality(Sending)
<1>1. IsFiniteSet(Sending) /\ at[s] \in {"away", "check", "select"}
  BY FS_Subset DEF Sizes, Sending, Shape
<1>2. ASSUME at[s] = "away", where = "check" PROVE Sending' = Sending \cup {s} /\ s \notin Sending
  BY <1>2 DEF Sending, Shape
<1>3. ASSUME at[s] # "away", where = "away" PROVE Sending' = Sending \ {s} /\ s \in Sending
  BY <1>1, <1>3 DEF Sending, Shape
<1>4. ASSUME at[s] = "check", where = "select" PROVE Sending' = Sending
  BY <1>4 DEF Sending, Shape
<1> QED
  BY <1>1, <1>2, <1>3, <1>4, FS_CardinalityType, FS_AddElement, FS_RemoveElement

(* The same for a worker and its task.                                       *)
LEMMA BusyMoves ==
  ASSUME Sizes, Shape, NEW w \in Worker, NEW task, serving' = [serving EXCEPT ![w] = task]
  PROVE  /\ Cardinality(Busy) \in Nat
         /\ serving[w] = None /\ task # None => Cardinality(Busy)' = Cardinality(Busy) + 1
         /\ serving[w] # None /\ task = None => Cardinality(Busy)' = Cardinality(Busy) - 1
<1>1. IsFiniteSet(Busy)
  BY FS_Subset DEF Sizes, Busy
<1>2. ASSUME serving[w] = None, task # None PROVE Busy' = Busy \cup {w} /\ w \notin Busy
  BY <1>2 DEF Busy, Shape
<1>3. ASSUME serving[w] # None, task = None PROVE Busy' = Busy \ {w} /\ w \in Busy
  BY <1>3 DEF Busy, Shape
<1> QED
  BY <1>1, <1>2, <1>3, FS_CardinalityType, FS_AddElement, FS_RemoveElement

(* The two sums of Accounted, apart.                                         *)
Submissions == submitted = processed + Len(tasks) + Cardinality(Sending) + refused
Outcomes    == processed = succeeded + failed + timedOut + Cardinality(Busy)

LEMMA Sums == (Accounted <=> Submissions /\ Outcomes) /\ (Accounted' <=> Submissions' /\ Outcomes')
BY DEF Accounted, Submissions, Outcomes

(* Both sums are numbers from the start.                                     *)
LEMMA InitAccounted == Init => Accounted
<1> SUFFICES ASSUME Init PROVE Accounted
  OBVIOUS
<1>1. Sending = {} /\ Busy = {}
  BY DEF Init, Sending, Busy
<1> QED
  BY <1>1, FS_EmptySet DEF Init, Accounted

(* Every step moves the counters with the queue, the waits and the tasks.    *)
LEMMA NextAccounted == ASSUME Sizes, Shape, Accounted, [Next]_vars PROVE Accounted'
<1> USE DEF stats
<1>0. /\ Cardinality(Sending) \in Nat /\ Cardinality(Busy) \in Nat
      /\ Len(tasks) \in Nat /\ submitted \in Nat /\ processed \in Nat /\ succeeded \in Nat /\ failed \in Nat
      /\ timedOut \in Nat /\ refused \in Nat
  BY FS_Subset, FS_CardinalityType DEF Sizes, Sending, Busy, Shape
<1>11. /\ Len(Append(tasks, Task)) = Len(tasks) + 1
       /\ tasks # <<>> => Head(tasks) \in Entry /\ Len(Tail(tasks)) = Len(tasks) - 1
  <2>1. tasks \in Seq(Entry)
    BY DEF Shape
  <2> QED
    BY <2>1, TaskIs
<1>12. /\ submitted \in Nat /\ processed \in Nat /\ refused \in Nat /\ Len(tasks) \in Nat
       /\ Cardinality(Sending) \in Nat /\ Submissions
  BY <1>0, Sums
<1>13. /\ processed \in Nat /\ succeeded \in Nat /\ failed \in Nat /\ timedOut \in Nat
       /\ Cardinality(Busy) \in Nat /\ Outcomes
  BY <1>0, Sums
<1>1. /\ UNCHANGED at => Cardinality(Sending)' = Cardinality(Sending)
      /\ UNCHANGED serving => Cardinality(Busy)' = Cardinality(Busy)
  BY DEF Sending, Busy
<1>2. ASSUME NEW s \in Submitter, Submit(s) PROVE Accounted'
  <2>1. Cardinality(Sending)' = Cardinality(Sending) + 1
    BY <1>2, SendingMoves DEF Submit
  <2>2. /\ submitted' = submitted + 1
        /\ Len(tasks)' = Len(tasks) /\ Cardinality(Busy)' = Cardinality(Busy)
        /\ processed' = processed /\ succeeded' = succeeded /\ failed' = failed
        /\ timedOut' = timedOut /\ refused' = refused
    BY <1>1, <1>2 DEF Submit
  <2>8. Submissions'
    BY <1>12, <2>1, <2>2 DEF Submissions
  <2>9. Outcomes'
    BY <1>13, <2>1, <2>2 DEF Outcomes
  <2> QED
    BY <2>8, <2>9, Sums
<1>3. ASSUME NEW s \in Submitter, TrySubmit(s) PROVE Accounted'
  <2>1. /\ Cardinality(Sending)' = Cardinality(Sending)
        /\ Cardinality(Busy)' = Cardinality(Busy) /\ processed' = processed
        /\ succeeded' = succeeded /\ failed' = failed /\ timedOut' = timedOut
        /\ refused' = refused
    BY <1>1, <1>3 DEF TrySubmit
  <2>2. CASE Len(tasks) < QueueSize
    <3>1. submitted' = submitted + 1 /\ Len(tasks)' = Len(tasks) + 1
      BY <1>3, <1>11, <2>2 DEF TrySubmit
    <3>8. Submissions'
      BY <1>12, <2>1, <3>1 DEF Submissions
    <3>9. Outcomes'
      BY <1>13, <2>1, <3>1 DEF Outcomes
    <3> QED
      BY <3>8, <3>9, Sums
  <2>3. CASE ~(Len(tasks) < QueueSize)
    <3>1. submitted' = submitted /\ Len(tasks)' = Len(tasks)
      BY <1>3, <2>3 DEF TrySubmit
    <3>8. Submissions'
      BY <1>12, <2>1, <3>1 DEF Submissions
    <3>9. Outcomes'
      BY <1>13, <2>1, <3>1 DEF Outcomes
    <3> QED
      BY <3>8, <3>9, Sums
  <2> QED
    BY <2>2, <2>3
<1>4. ASSUME NEW s \in Submitter, CheckStop(s) PROVE Accounted'
  <2>1. /\ Len(tasks)' = Len(tasks) /\ Cardinality(Busy)' = Cardinality(Busy)
        /\ submitted' = submitted /\ processed' = processed /\ succeeded' = succeeded
        /\ failed' = failed /\ timedOut' = timedOut
    BY <1>1, <1>4 DEF CheckStop
  <2>2. CASE stop
    <3>1. at[s] # "away" /\ at' = [at EXCEPT ![s] = "away"] /\ refused' = refused + 1
      BY <1>4, <2>2 DEF CheckStop
    <3>2. Cardinality(Sending)' = Cardinality(Sending) - 1
      BY <3>1, SendingMoves
    <3>8. Submissions'
      BY <1>12, <2>1, <3>1, <3>2 DEF Submissions
    <3>9. Outcomes'
      BY <1>13, <2>1, <3>1, <3>2 DEF Outcomes
    <3> QED
      BY <3>8, <3>9, Sums
  <2>3. CASE ~stop
    <3>1. at[s] = "check" /\ at' = [at EXCEPT ![s] = "select"] /\ refused' = refused
      BY <1>4, <2>3 DEF CheckStop
    <3>2. Cardinality(Sending)' = Cardinality(Sending)
      BY <3>1, SendingMoves
    <3>8. Submissions'
      BY <1>12, <2>1, <3>1, <3>2 DEF Submissions
    <3>9. Outcomes'
      BY <1>13, <2>1, <3>1, <3>2 DEF Outcomes
    <3> QED
      BY <3>8, <3>9, Sums
  <2> QED
    BY <2>2, <2>3
<1>5. ASSUME NEW s \in Submitter, Send(s) PROVE Accounted'
  <2>1. Cardinality(Sending)' = Cardinality(Sending) - 1
    BY <1>5, SendingMoves DEF Send
  <2>2. /\ Len(tasks)' = Len(tasks) + 1
        /\ Cardinality(Busy)' = Cardinality(Busy) /\ submitted' = submitted
        /\ processed' = processed /\ succeeded' = succeeded /\ failed' = failed
        /\ timedOut' = timedOut /\ refused' = refused
    BY <1>1, <1>5, <1>11 DEF Send
  <2>8. Submissions'
    BY <1>12, <2>1, <2>2 DEF Submissions
  <2>9. Outcomes'
    BY <1>13, <2>1, <2>2 DEF Outcomes
  <2> QED
    BY <2>8, <2>9, Sums
<1>6. ASSUME NEW s \in Submitter, SubmitTimeout(s) \/ SubmitClosed(s) PROVE Accounted'
  <2>1. Cardinality(Sending)' = Cardinality(Sending) - 1
    BY <1>6, SendingMoves DEF SubmitTimeout, SubmitClosed
  <2>2. /\ refused' = refused + 1
        /\ Len(tasks)' = Len(tasks) /\ Cardinality(Busy)' = Cardinality(Busy)
        /\ submitted' = submitted /\ processed' = processed /\ succeeded' = succeeded
        /\ failed' = failed /\ timedOut' = timedOut
    BY <1>1, <1>6 DEF SubmitTimeout, SubmitClosed
  <2>8. Submissions'
    BY <1>12, <2>1, <2>2 DEF Submissions
  <2>9. Outcomes'
    BY <1>13, <2>1, <2>2 DEF Outcomes
  <2> QED
    BY <2>8, <2>9, Sums
<1>7. ASSUME NEW w \in Worker, Receive(w) PROVE Accounted'
  <2>1. /\ tasks # <<>> /\ serving[w] = None /\ serving' = [serving EXCEPT ![w] = Head(tasks)]
        /\ tasks' = Tail(tasks)
    BY <1>7 DEF Receive
  <2>2. Cardinality(Busy)' = Cardinality(Busy) + 1
    BY <1>11, <2>1, BusyMoves DEF Sizes
  <2>3. /\ processed' = processed + 1 /\ Len(tasks)' = Len(tasks) - 1
        /\ Cardinality(Sending)' = Cardinality(Sending) /\ submitted' = submitted
        /\ succeeded' = succeeded /\ failed' = failed /\ timedOut' = timedOut
        /\ refused' = refused
    BY <1>1, <1>7, <1>11, <2>1 DEF Receive
  <2>8. Submissions'
    BY <1>12, <2>2, <2>3 DEF Submissions
  <2>9. Outcomes'
    BY <1>13, <2>2, <2>3 DEF Outcomes
  <2> QED
    BY <2>8, <2>9, Sums
<1>8. ASSUME NEW w \in Worker, ProcessTask(w) PROVE Accounted'
  <2>1. Cardinality(Busy)' = Cardinality(Busy) - 1
    BY <1>8, BusyMoves DEF ProcessTask
  <2>2. /\ Len(tasks)' = Len(tasks) /\ Cardinality(Sending)' = Cardinality(Sending)
        /\ submitted' = submitted /\ processed' = processed /\ refused' = refused
    BY <1>1, <1>8 DEF ProcessTask
  <2>3. \/ succeeded' = succeeded + 1 /\ failed' = failed /\ timedOut' = timedOut
        \/ failed' = failed + 1 /\ succeeded' = succeeded /\ timedOut' = timedOut
        \/ timedOut' = timedOut + 1 /\ succeeded' = succeeded /\ failed' = failed
    BY <1>8 DEF ProcessTask
  <2>8. Submissions'
    BY <1>12, <2>1, <2>2, <2>3 DEF Submissions
  <2>9. Outcomes'
    BY <1>13, <2>1, <2>2, <2>3 DEF Outcomes
  <2> QED
    BY <2>8, <2>9, Sums
<1>9. ASSUME NEW w \in Worker, SeeStop(w) \/ Leave(w) PROVE Accounted'
  BY <1>1, <1>9 DEF SeeStop, Leave, Accounted
<1>10. CASE Shutdown \/ ShutdownReturns \/ UNCHANGED vars
  BY <1>1, <1>10 DEF Shutdown, ShutdownReturns, vars, Accounted
<1> QED
  BY <1>2, <1>3, <1>4, <1>5, <1>6, <1>7, <1>8, <1>9, <1>10 DEF Next, SubmitStep, WorkerStep

(* The statistics of the pool account for every submission at any moment.    *)
THEOREM EverySubmissionAccounted == ASSUME Sizes PROVE Spec => []Accounted
<1>1. Init => Shape /\ Accounted
  BY InitShape, InitAccounted, Sizes
<1>2. (Shape /\ Accounted) /\ [Next]_vars => (Shape /\ Accounted)'
  BY NextShape, NextAccounted, Sizes
<1> QED
  BY <1>1, <1>2, PTL DEF Spec
=============================================================================
