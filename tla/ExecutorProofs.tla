--------------------------- MODULE ExecutorProofs ---------------------------
(***************************************************************************)
(* Proofs about Executor for any number of tasks and workers, any capacity *)
(* of the tasks channel, and both arguments of Stop.                       *)
(***************************************************************************)
EXTENDS Executor, FiniteSetTheorems, SequenceTheorems, TLAPS

----------------------------------------------------------------------------
(* The inductive invariant *)

ClientPlaces == {"new", "delaying", "sleeping", "checked", "sending", "sent", "submitted",
                 "refused", "dropping", "dropped"}
DelayedPlaces == {"delaying", "sleeping", "sent", "dropping", "dropped"}
WorkerPlaces == {"off", "ready", "select", "running", "stopping", "stopped"}
DispPlaces == {"off", "select", "submit", "handing", "counting", "returned"}
StopPlaces == {"idle", "waitWg", "terminate", "waitTasks", "next", "stopWorker", "returned"}

\* The types of all variables but the wait groups, and what the goroutines
\* hold at each of their places.
Shape ==
  /\ state \in {"NEW", "STARTED", "TERMINATED"}
  /\ tasks \in Seq(Tasks) /\ available \in Seq(Workers)
  /\ client \in [Tasks -> ClientPlaces]
  /\ disp \in [pc : DispPlaces, task : Tasks \cup {NoTask}, worker : Workers \cup {NoWorker}]
  /\ worker \in [Workers -> [pc : WorkerPlaces, task : Tasks \cup {NoTask}]]
  /\ stop \in [pc : StopPlaces, worker : Workers \cup {NoWorker}, i : Nat]
  /\ waiter \in {"idle", "waiting", "returned"}
  /\ done \in [Tasks -> 0..1]
  /\ due \in [stop : SUBSET Tasks, wait : SUBSET Tasks]

\* Is x in the channel, and is everything in it there once?
In(s, x) == \E n \in DOMAIN s : s[n] = x
Once(s) == \A m, n \in DOMAIN s : s[m] = s[n] => m = n

PlacesInv ==
  /\ Len(tasks) <= QueueLength
  /\ \A t \in Tasks : client[t] \in DelayedPlaces => t \in Delayed
  /\ disp.pc \in {"submit", "handing"} <=> disp.task \in Tasks
  /\ disp.pc = "handing" => disp.worker \in Workers
  /\ stop.pc = "stopWorker" => stop.worker \in Workers
  /\ \A w \in Workers : worker[w].pc = "running" <=> worker[w].task \in Tasks
  /\ state = "NEW" => disp.pc = "off" /\ \A w \in Workers : worker[w].pc = "off"

\* The workers in the channel and the ones that were taken out of it wait for a
\* task, and each is in one of those places.
AvailableInv ==
  /\ Once(available)
  /\ \A w \in Workers :
       /\ In(available, w) \/ w = disp.worker \/ w = stop.worker => worker[w].pc = "select"
       /\ In(available, w) => w # disp.worker /\ w # stop.worker
       /\ w = disp.worker => w # stop.worker

\* Where a task is, once it was sent.
AtWorker(t) == \E w \in Workers : worker[w].task = t
Sent(t) == client[t] \in {"sent", "submitted"}

\* A task that was not sent is nowhere; one that was sent is in one place.
TaskInv(t) ==
  /\ ~Sent(t) => ~In(tasks, t) /\ disp.task # t /\ ~AtWorker(t) /\ done[t] = 0
  /\ Sent(t) => In(tasks, t) \/ disp.task = t \/ AtWorker(t) \/ done[t] = 1
  /\ In(tasks, t) => disp.task # t /\ ~AtWorker(t) /\ done[t] = 0
  /\ disp.task = t => ~AtWorker(t) /\ done[t] = 0
  /\ AtWorker(t) => done[t] = 0
  /\ \A w, v \in Workers : worker[w].task = t /\ worker[v].task = t => w = v

TasksInv == Once(tasks) /\ \A t \in Tasks : TaskInv(t)

\* The tasks that Executor.wg counts: twice, when SubmitDelayed counted one too.
OwnCount == {t \in Delayed : client[t] \in {"sleeping", "checked", "sending", "sent", "dropping"}}
Held == {t \in Tasks : client[t] = "sending" \/ In(tasks, t) \/ disp.task = t}
Running == {w \in Workers : worker[w].pc = "running"}
Serving == {w \in Workers : worker[w].pc \notin {"off", "stopped"}}

WgInv ==
  wg = Cardinality(OwnCount) + Cardinality(Held) + (IF disp.pc = "counting" THEN 1 ELSE 0)
TaskWgInv == taskWg = Cardinality(Running) + (IF disp.task \in Tasks THEN 1 ELSE 0)
PoolWgInv == poolWg = Cardinality(Serving)

\* The task is with a worker or has completed.
Arrived(t) == AtWorker(t) \/ done[t] = 1

\* How far Stop has come with the tasks of Submit it was called with.
StopInv ==
  \A t \in due.stop \ Delayed :
    /\ Sent(t)
    /\ stop.pc \in {"terminate", "waitTasks", "next", "stopWorker", "returned"} =>
         Arrived(t)
    /\ StopWaits /\ stop.pc \in {"next", "stopWorker", "returned"} => done[t] = 1

\* The same for Wait and the tasks it was called with.
WaitInv ==
  \A t \in due.wait :
    /\ client[t] = "submitted" \/ t \in OwnCount \/ (t \in Delayed /\ client[t] = "dropped")
    /\ waiter = "returned" =>
         Arrived(t) \/ (t \in Delayed /\ client[t] = "dropped")

\* Only Stop and Wait are ever woken by wg.Done.
WokenInv == woken \subseteq {"Stop", "Wait"} /\ panicked \in BOOLEAN

ExecutorInv ==
  /\ Shape /\ PlacesInv /\ AvailableInv /\ TasksInv
  /\ WgInv /\ TaskWgInv /\ PoolWgInv
  /\ StopInv /\ WaitInv /\ WokenInv

----------------------------------------------------------------------------
(* Channels *)

\* A send to a channel (executor.go's and pool.go's buffered channels) adds
\* the value at the end and nothing else.
LEMMA SendAdds ==
  ASSUME NEW S, NEW s \in Seq(S), NEW e \in S
  PROVE  /\ Append(s, e) \in Seq(S) /\ Len(Append(s, e)) = Len(s) + 1
         /\ \A x : In(Append(s, e), x) <=> In(s, x) \/ x = e
         /\ Once(s) /\ ~In(s, e) => Once(Append(s, e))
<1>1. /\ Append(s, e) \in Seq(S) /\ Len(Append(s, e)) = Len(s) + 1 /\ Len(s) \in Nat
      /\ DOMAIN s = 1..Len(s) /\ DOMAIN Append(s, e) = 1..(Len(s) + 1)
      /\ \A n \in 1..Len(s) : Append(s, e)[n] = s[n]
      /\ Append(s, e)[Len(s) + 1] = e
  BY AppendProperties, LenProperties
<1>2. ASSUME NEW x PROVE In(Append(s, e), x) <=> In(s, x) \/ x = e
  BY <1>1 DEF In
<1>3. ASSUME Once(s), ~In(s, e) PROVE Once(Append(s, e))
  BY <1>1, <1>3 DEF Once, In
<1> QED
  BY <1>1, <1>2, <1>3

\* A receive takes the oldest value out and leaves the others.
LEMMA ReceiveTakes ==
  ASSUME NEW S, NEW s \in Seq(S), s # <<>>
  PROVE  /\ Head(s) \in S /\ Tail(s) \in Seq(S) /\ Len(Tail(s)) = Len(s) - 1
         /\ In(s, Head(s))
         /\ \A x : In(s, x) <=> In(Tail(s), x) \/ x = Head(s)
         /\ Once(s) => Once(Tail(s)) /\ ~In(Tail(s), Head(s))
<1>1. /\ Head(s) \in S /\ Tail(s) \in Seq(S) /\ Len(Tail(s)) = Len(s) - 1
      /\ Len(s) \in Nat /\ Len(s) > 0 /\ Head(s) = s[1]
      /\ DOMAIN s = 1..Len(s) /\ DOMAIN Tail(s) = 1..(Len(s) - 1)
      /\ \A n \in 1..(Len(s) - 1) : Tail(s)[n] = s[n + 1]
  BY HeadTailProperties, LenProperties, EmptySeq
<1>2. ASSUME NEW x, In(s, x), x # Head(s) PROVE In(Tail(s), x)
  <2>1. PICK n \in 1..Len(s) : s[n] = x
    BY <1>1, <1>2 DEF In
  <2>2. n - 1 \in 1..(Len(s) - 1) /\ Tail(s)[n - 1] = x
    BY <1>1, <1>2, <2>1
  <2> QED
    BY <1>1, <2>2, Zenon DEF In
<1>3. ASSUME NEW x, In(Tail(s), x) PROVE In(s, x)
  BY <1>1, <1>3 DEF In
<1>4. In(s, Head(s))
  BY <1>1 DEF In
<1>5. ASSUME Once(s) PROVE Once(Tail(s)) /\ ~In(Tail(s), Head(s))
  BY <1>1, <1>5 DEF Once, In
<1> QED
  BY <1>1, <1>2, <1>3, <1>4, <1>5

\* A channel that holds each of finitely many values once is no longer than
\* their number: availableWorker's capacity is never exceeded.
LEMMA OnceBounds ==
  ASSUME NEW S, IsFiniteSet(S), NEW s \in Seq(S), Once(s)
  PROVE  Len(s) <= Cardinality(S)
<1>1. Len(s) \in Nat /\ s \in [1..Len(s) -> S] /\ DOMAIN s = 1..Len(s)
  BY LenProperties
<1>2. s \in Injection(1..Len(s), S)
  BY <1>1 DEF Once, Injection, IsInjective
<1>3. Cardinality(1..Len(s)) = Len(s)
  BY <1>1, FS_Interval
<1> QED
  BY <1>2, <1>3, FS_Injection

----------------------------------------------------------------------------
(* The types and the places *)

\* A step as the goroutines see it: a panic of wg.Wait changes nothing else.
CoreStep ==
  \/ \E t \in Tasks : ClientStep(t)
  \/ DispatcherStep
  \/ \E w \in Workers : WorkerStep(w)
  \/ Call \/ StopStep \/ WaitStep
  \/ UNCHANGED coreVars

\* Every step is one of a goroutine, or the panic that ends them all.
LEMMA StepIsCoreStep ==
  ASSUME [Next]_vars
  PROVE  CoreStep
  BY Zenon DEF Next, Panic, Finished, CoreStep, vars

\* Whoever calls wg.Done wakes the callers of wg.Wait and nobody else.
LEMMA WokenStep ==
  ASSUME WokenInv, [Next]_vars
  PROVE  WokenInv'
<1> USE DEF WokenInv
<1>1. ASSUME UNCHANGED wgVars PROVE WokenInv'
  BY <1>1 DEF wgVars
<1>2. ASSUME Done, UNCHANGED panicked PROVE WokenInv'
  BY <1>2 DEF Done
<1>3. ASSUME NEW c, Passes(c) PROVE WokenInv'
  BY <1>3 DEF Passes
<1>4. ASSUME NEW c, Panic(c) PROVE WokenInv'
  BY <1>4 DEF Panic
<1>5. ASSUME NEW t \in Tasks, ClientStep(t) PROVE WokenInv'
  BY <1>1, <1>2, <1>5, Zenon
     DEF ClientStep, Check, SubmitDelayed, Wake, AddToWg, Send, DelayedDone
<1>6. ASSUME DispatcherStep PROVE WokenInv'
  BY <1>1, <1>2, <1>6, Zenon DEF DispatcherStep, TakeTask, TakeWorker, HandOver, WgDone
<1>7. ASSUME NEW w \in Workers, WorkerStep(w) PROVE WokenInv'
  BY <1>1, <1>7, Zenon DEF WorkerStep, Announce, Complete, WorkerStopped
<1>8. ASSUME Call \/ StopStep \/ WaitStep PROVE WokenInv'
  BY <1>1, <1>3, <1>8, Zenon
     DEF Call, Start, CallStop, CallWait, StopStep, StopWgWait, Terminate, StopTaskWait,
         StopTakeWorker, StopWorker, StopReturns, WaitStep, WaitReturns
<1>9. ASSUME UNCHANGED vars PROVE WokenInv'
  BY <1>1, <1>9, Zenon DEF vars, wgVars
<1> QED
  BY <1>4, <1>5, <1>6, <1>7, <1>8, <1>9, Zenon DEF Next, Finished

\* Every step of a goroutine keeps the types, and what it holds agrees with
\* its place.
LEMMA ShapeStep ==
  ASSUME Shape, PlacesInv, TasksInv, CoreStep
  PROVE  Shape' /\ PlacesInv'
<1> USE ExecutorAssumption DEF Shape, PlacesInv, poolVars, callVars, GoTo, SetWorker
<1>a. tasks # <<>> => Head(tasks) \in Tasks /\ Tail(tasks) \in Seq(Tasks)
                      /\ Len(Tail(tasks)) = Len(tasks) - 1
  BY ReceiveTakes
<1>b. available # <<>> => Head(available) \in Workers /\ Tail(available) \in Seq(Workers)
  BY ReceiveTakes
<1>c. \A t \in Tasks : Append(tasks, t) \in Seq(Tasks) /\ Len(Append(tasks, t)) = Len(tasks) + 1
  BY SendAdds
<1>d. \A w \in Workers : Append(available, w) \in Seq(Workers)
  BY SendAdds
<1>e. Len(tasks) \in Nat
  BY LenProperties
<1>f. Outstanding \in SUBSET Tasks
  BY DEF Outstanding
<1>1. ASSUME Start PROVE Shape' /\ PlacesInv'
  BY <1>1 DEF Start, DispPlaces, StopPlaces, WorkerPlaces
<1>2. ASSUME NEW t \in Tasks, Check(t) PROVE Shape' /\ PlacesInv'
  BY <1>2 DEF Check, ClientPlaces, DelayedPlaces
<1>3. ASSUME NEW t \in Tasks, SubmitDelayed(t) PROVE Shape' /\ PlacesInv'
  BY <1>3 DEF SubmitDelayed, ClientPlaces, DelayedPlaces
<1>4. ASSUME NEW t \in Tasks, Wake(t) PROVE Shape' /\ PlacesInv'
  BY <1>4 DEF Wake, ClientPlaces, DelayedPlaces
<1>5. ASSUME NEW t \in Tasks, AddToWg(t) PROVE Shape' /\ PlacesInv'
  BY <1>5 DEF AddToWg, ClientPlaces, DelayedPlaces
<1>6. ASSUME NEW t \in Tasks, Send(t) PROVE Shape' /\ PlacesInv'
  BY <1>6, <1>c, <1>e DEF Send, ClientPlaces, DelayedPlaces
<1>7. ASSUME NEW t \in Tasks, DelayedDone(t) PROVE Shape' /\ PlacesInv'
  BY <1>7, Zenon DEF DelayedDone, ClientPlaces, DelayedPlaces, Done
<1>8. ASSUME TakeTask PROVE Shape' /\ PlacesInv'
  <2>1. Head(tasks) \in Tasks /\ Tail(tasks) \in Seq(Tasks) /\ Len(Tail(tasks)) <= QueueLength
    BY <1>8, <1>a, <1>e DEF TakeTask
  <2>2. /\ disp' \in [pc : DispPlaces, task : Tasks \cup {NoTask}, worker : Workers \cup {NoWorker}]
        /\ disp'.pc = "submit" /\ disp'.task = Head(tasks) /\ state # "NEW"
    BY <1>8, <2>1, Zenon DEF TakeTask, DispPlaces
  <2> QED
    BY <1>8, <2>1, <2>2 DEF TakeTask
<1>9. ASSUME TakeWorker PROVE Shape' /\ PlacesInv'
  BY <1>9, <1>b, Zenon DEF TakeWorker, DispPlaces, StopPlaces, WorkerPlaces
<1>10. ASSUME HandOver PROVE Shape' /\ PlacesInv'
  BY <1>10, ZenonT(40) DEF HandOver, DispPlaces, StopPlaces, WorkerPlaces
<1>11. ASSUME WgDone PROVE Shape' /\ PlacesInv'
  BY <1>11, Zenon DEF WgDone, DispPlaces, StopPlaces, WorkerPlaces, Done
<1>12. ASSUME NEW w \in Workers, Announce(w) PROVE Shape' /\ PlacesInv'
  BY <1>12, <1>d, Zenon DEF Announce, WorkerPlaces
<1>13. ASSUME NEW w \in Workers, Complete(w) PROVE Shape' /\ PlacesInv'
  <2>1. worker[w].task \in Tasks /\ done[worker[w].task] = 0
    BY <1>13, Zenon DEF Complete, TasksInv, TaskInv, AtWorker
  <2>2. done' \in [Tasks -> 0..1]
    BY <1>13, <2>1 DEF Complete
  <2> QED
    BY <1>13, <2>2, Zenon DEF Complete, WorkerPlaces
<1>14. ASSUME NEW w \in Workers, WorkerStopped(w) PROVE Shape' /\ PlacesInv'
  BY <1>14, Zenon DEF WorkerStopped, WorkerPlaces
<1>15. ASSUME CallStop PROVE Shape' /\ PlacesInv'
  <2>1. due' \in [stop : SUBSET Tasks, wait : SUBSET Tasks]
    BY <1>15, <1>f, SMTT(30) DEF CallStop
  <2> QED
    BY <1>15, <2>1, Zenon DEF CallStop, StopPlaces
<1>16. ASSUME StopWgWait PROVE Shape' /\ PlacesInv'
  BY <1>16, Zenon DEF StopWgWait, DispPlaces, StopPlaces, WorkerPlaces, Passes
<1>17. ASSUME Terminate PROVE Shape' /\ PlacesInv'
  BY <1>17, Zenon DEF Terminate, DispPlaces, StopPlaces, WorkerPlaces
<1>18. ASSUME StopTaskWait PROVE Shape' /\ PlacesInv'
  BY <1>18, Zenon DEF StopTaskWait, DispPlaces, StopPlaces, WorkerPlaces
<1>19. ASSUME StopTakeWorker PROVE Shape' /\ PlacesInv'
  BY <1>19, <1>b DEF StopTakeWorker, DispPlaces, StopPlaces, WorkerPlaces
<1>20. ASSUME StopWorker PROVE Shape' /\ PlacesInv'
  BY <1>20, ZenonT(40) DEF StopWorker, DispPlaces, StopPlaces, WorkerPlaces
<1>21. ASSUME StopReturns PROVE Shape' /\ PlacesInv'
  BY <1>21, SMTT(30) DEF StopReturns, DispPlaces, StopPlaces, WorkerPlaces
<1>22. ASSUME CallWait PROVE Shape' /\ PlacesInv'
  <2>1. due' \in [stop : SUBSET Tasks, wait : SUBSET Tasks]
    BY <1>22, <1>f DEF CallWait
  <2> QED
    BY <1>22, <2>1, Zenon DEF CallWait, StopPlaces
<1>23. ASSUME WaitReturns PROVE Shape' /\ PlacesInv'
  BY <1>23, ZenonT(40) DEF WaitReturns, DispPlaces, StopPlaces, WorkerPlaces, Passes
<1>24. ASSUME UNCHANGED coreVars PROVE Shape' /\ PlacesInv'
  BY <1>24, Zenon DEF coreVars
<1> QED
  BY <1>1, <1>2, <1>3, <1>4, <1>5, <1>6, <1>7, <1>8, <1>9, <1>10, <1>11,
     <1>12, <1>13, <1>14, <1>15, <1>16, <1>17, <1>18, <1>19, <1>20, <1>21, <1>22, <1>23, <1>24,
     Zenon
     DEF CoreStep, Call, WaitStep, ClientStep, DispatcherStep, WorkerStep, StopStep

\* A worker is in the channel of available workers at most once and only while
\* it waits for a task: it announces itself once per task, and dispatcher and
\* Stop take it out before they use it.
LEMMA AvailableStep ==
  ASSUME Shape, PlacesInv, AvailableInv, CoreStep
  PROVE  AvailableInv'
<1> USE ExecutorAssumption DEF Shape, PlacesInv, AvailableInv, poolVars, callVars
<1>1. ASSUME Start PROVE AvailableInv'
  BY <1>1 DEF Start
<1>2. ASSUME TakeWorker PROVE AvailableInv'
  <2>1. /\ Once(available') /\ In(available, Head(available))
        /\ \A w : In(available', w) => In(available, w) /\ w # Head(available)
    BY <1>2, ReceiveTakes DEF TakeWorker
  <2>2. disp'.worker = Head(available) /\ UNCHANGED <<worker, stop>>
    BY <1>2 DEF TakeWorker
  <2> QED
    BY <2>1, <2>2
<1>3. ASSUME StopTakeWorker PROVE AvailableInv'
  <2>1. /\ Once(available') /\ In(available, Head(available))
        /\ \A w : In(available', w) => In(available, w) /\ w # Head(available)
    BY <1>3, ReceiveTakes DEF StopTakeWorker
  <2>2. stop'.worker = Head(available) /\ UNCHANGED <<worker, disp>>
    BY <1>3, Zenon DEF StopTakeWorker
  <2> QED
    BY <2>1, <2>2
<1>4. ASSUME HandOver PROVE AvailableInv'
  BY <1>4, ZenonT(40) DEF HandOver
<1>5. ASSUME StopWorker PROVE AvailableInv'
  BY <1>5 DEF StopWorker, SetWorker
<1>6. ASSUME NEW w \in Workers, Announce(w) PROVE AvailableInv'
  <2>1. ~In(available, w)
    BY <1>6, Zenon DEF Announce
  <2>2. Once(available') /\ \A v : In(available', v) <=> In(available, v) \/ v = w
    BY <1>6, <2>1, SendAdds, ZenonT(40) DEF Announce
  <2>3. /\ w # disp.worker /\ w # stop.worker
    BY <1>6, Zenon DEF Announce
  <2> QED
    BY <1>6, <2>1, <2>2, <2>3, ZenonT(40) DEF Announce, SetWorker
<1>7. ASSUME NEW w \in Workers, Complete(w) \/ WorkerStopped(w) PROVE AvailableInv'
  BY <1>7 DEF Complete, WorkerStopped, SetWorker
<1>8. ASSUME UNCHANGED <<available, worker>>, disp'.worker = disp.worker, stop'.worker = stop.worker
      PROVE  AvailableInv'
  BY <1>8, Zenon
<1>9. ASSUME NEW t \in Tasks, ClientStep(t) PROVE AvailableInv'
  <2>1. UNCHANGED <<available, worker, disp, stop>>
    BY <1>9, Zenon DEF ClientStep, Check, SubmitDelayed, Wake, AddToWg, Send, DelayedDone, Done
  <2> QED
    BY <1>8, <2>1, Zenon
<1>10. ASSUME TakeTask \/ WgDone \/ Terminate PROVE AvailableInv'
  <2>1. UNCHANGED <<available, worker>> /\ disp'.worker = disp.worker /\ stop'.worker = stop.worker
    <3>1. CASE TakeTask
      BY <3>1 DEF TakeTask
    <3>2. CASE WgDone
      BY <3>2 DEF WgDone, Done
    <3>3. CASE Terminate
      BY <3>3 DEF Terminate
    <3> QED
      BY <1>10, <3>1, <3>2, <3>3, Zenon
  <2> QED
    BY <1>8, <2>1, Zenon
<1>11. ASSUME CallStop \/ StopWgWait \/ StopTaskWait \/ StopReturns PROVE AvailableInv'
  BY <1>8, <1>11 DEF CallStop, StopWgWait, StopTaskWait, StopReturns, Passes
<1>12. ASSUME CallWait \/ WaitReturns \/ UNCHANGED coreVars PROVE AvailableInv'
  BY <1>8, <1>12, Zenon DEF CallWait, WaitReturns, coreVars, Passes
<1> QED
  BY <1>1, <1>2, <1>3, <1>4, <1>5, <1>6, <1>7, <1>9, <1>10, <1>11, <1>12, Zenon
     DEF CoreStep, Call, WaitStep, DispatcherStep, WorkerStep, StopStep

\* A task moves from its client through the queue and the dispatcher to one
\* worker and is never in two places, so nothing runs it twice.
LEMMA TasksStep ==
  ASSUME Shape, PlacesInv, TasksInv, CoreStep
  PROVE  TasksInv'
<1> USE ExecutorAssumption DEF Shape, PlacesInv, TasksInv, TaskInv, Sent, AtWorker, poolVars
<1>1. ASSUME Start PROVE TasksInv'
  BY <1>1 DEF Start
<1>2. ASSUME NEW t \in Tasks, Send(t) PROVE TasksInv'
  <2>1. ~In(tasks, t)
    BY <1>2, Zenon DEF Send
  <2>2. Once(tasks') /\ \A u : In(tasks', u) <=> In(tasks, u) \/ u = t
    BY <1>2, <2>1, SendAdds, Zenon DEF Send
  <2> QED
    BY <1>2, <2>1, <2>2 DEF Send, GoTo
<1>3. ASSUME TakeTask PROVE TasksInv'
  <2>1. /\ Once(tasks') /\ disp'.task = Head(tasks) /\ In(tasks, Head(tasks))
        /\ \A u : In(tasks', u) <=> In(tasks, u) /\ u # Head(tasks)
        /\ disp.task \notin Tasks /\ Head(tasks) \in Tasks
    BY <1>3, ReceiveTakes DEF TakeTask
  <2> QED
    BY <1>3, <2>1 DEF TakeTask
<1>4. ASSUME HandOver PROVE TasksInv'
  <2> DEFINE v == disp.worker
             u == disp.task
  <2>1. /\ v \in Workers /\ u \in Tasks /\ worker[v].task \notin Tasks
        /\ worker' = [worker EXCEPT ![v] = [pc |-> "running", task |-> u]]
        /\ disp'.task = NoTask /\ UNCHANGED <<tasks, client, done>>
    BY <1>4, Zenon DEF HandOver
  <2> HIDE DEF v
  <2>2. ASSUME NEW t \in Tasks PROVE AtWorker(t)' <=> AtWorker(t) \/ t = u
    BY <2>1
  <2>3. ASSUME NEW t \in Tasks PROVE TaskInv(t)'
    BY <2>1, <2>2
  <2> QED
    BY <2>1, <2>3, Zenon
<1>5. ASSUME NEW w \in Workers, Complete(w) PROVE TasksInv'
  BY <1>5 DEF Complete, SetWorker
<1>6. ASSUME NEW w \in Workers, Announce(w) \/ WorkerStopped(w) PROVE TasksInv'
  <2>1. worker[w].task \notin Tasks
    BY <1>6, Zenon DEF Announce, WorkerStopped
  <2>2. worker'[w].task = NoTask /\ \A v \in Workers \ {w} : worker'[v] = worker[v]
    BY <1>6 DEF Announce, WorkerStopped, SetWorker
  <2>3. UNCHANGED <<tasks, client, disp, done>>
    BY <1>6, Zenon DEF Announce, WorkerStopped
  <2>4. ASSUME NEW t \in Tasks, NEW v \in Workers
        PROVE  worker'[v].task = t <=> worker[v].task = t
    BY <2>1, <2>2
  <2> QED
    BY <2>3, <2>4
<1>7. ASSUME StopWorker PROVE TasksInv'
  BY <1>7 DEF StopWorker, SetWorker
<1>8. ASSUME UNCHANGED <<tasks, worker, done>>, disp'.task = disp.task,
             \A t \in Tasks : Sent(t)' <=> Sent(t)
      PROVE  TasksInv'
  BY <1>8
<1>9. ASSUME NEW t \in Tasks,
             Check(t) \/ SubmitDelayed(t) \/ Wake(t) \/ AddToWg(t) \/ DelayedDone(t)
      PROVE  TasksInv'
  <2>1. UNCHANGED <<tasks, worker, done, disp>>
    BY <1>9, Zenon DEF Check, SubmitDelayed, Wake, AddToWg, DelayedDone, Done
  <2>2. \A u \in Tasks : Sent(u)' <=> Sent(u)
    BY <1>9 DEF Check, SubmitDelayed, Wake, AddToWg, DelayedDone, GoTo, Done
  <2> QED
    BY <1>8, <2>1, <2>2, Zenon
<1>10. ASSUME TakeWorker \/ WgDone \/ Terminate PROVE TasksInv'
  <2>1. UNCHANGED <<tasks, worker, done, client>> /\ disp'.task = disp.task
    <3>1. CASE TakeWorker
      BY <3>1 DEF TakeWorker
    <3>2. CASE WgDone
      BY <3>2 DEF WgDone, Done
    <3>3. CASE Terminate
      BY <3>3 DEF Terminate
    <3> QED
      BY <1>10, <3>1, <3>2, <3>3, Zenon
  <2> QED
    BY <1>8, <2>1, Zenon
<1>11. ASSUME CallStop \/ StopWgWait \/ StopTaskWait \/ StopTakeWorker \/ StopReturns
       PROVE  TasksInv'
  <2>1. UNCHANGED <<tasks, worker, done, client, disp>>
    BY <1>11, Zenon DEF CallStop, StopWgWait, StopTaskWait, StopTakeWorker, StopReturns, Passes
  <2> QED
    BY <1>8, <2>1, Zenon
<1>12. ASSUME CallWait \/ WaitReturns \/ UNCHANGED coreVars PROVE TasksInv'
  BY <1>8, <1>12, Zenon DEF CallWait, WaitReturns, coreVars, Passes
<1> QED
  BY <1>1, <1>2, <1>3, <1>4, <1>5, <1>6, <1>7, <1>9, <1>10, <1>11, <1>12, Zenon
     DEF CoreStep, Call, WaitStep, ClientStep, DispatcherStep, WorkerStep, StopStep

----------------------------------------------------------------------------
(* The wait groups *)

\* The counted sets are finite, so each has a number of elements.
LEMMA CountsAreNumbers ==
  /\ IsFiniteSet(OwnCount) /\ Cardinality(OwnCount) \in Nat
  /\ IsFiniteSet(Held) /\ Cardinality(Held) \in Nat
  /\ IsFiniteSet(Running) /\ Cardinality(Running) \in Nat
  /\ IsFiniteSet(Serving) /\ Cardinality(Serving) \in Nat
<1>1. OwnCount \in SUBSET Tasks /\ Held \in SUBSET Tasks
  BY ExecutorAssumption DEF OwnCount, Held
<1>2. Running \in SUBSET Workers /\ Serving \in SUBSET Workers
  BY DEF Running, Serving
<1> QED
  BY <1>1, <1>2, ExecutorAssumption, FS_Subset, FS_CardinalityType

\* One more goroutine is counted, or one less.
LEMMA CountOne ==
  ASSUME NEW S, IsFiniteSet(S), NEW x
  PROVE  /\ x \notin S => Cardinality(S \cup {x}) = Cardinality(S) + 1
         /\ x \in S => Cardinality(S \ {x}) = Cardinality(S) - 1
BY FS_AddElement, FS_RemoveElement

\* Executor.wg counts the tasks on their way to a worker and the goroutines of
\* SubmitDelayed: every Add has its Done, and none comes too early.
LEMMA WgStep ==
  ASSUME Shape, PlacesInv, TasksInv, WgInv, CoreStep
  PROVE  WgInv'
<1> USE ExecutorAssumption, CountsAreNumbers DEF Shape, PlacesInv, WgInv
<1>1. ASSUME Start PROVE WgInv'
  BY <1>1 DEF Start, OwnCount, Held
<1>2. ASSUME NEW t \in Tasks, SubmitDelayed(t) PROVE WgInv'
  <2>1. OwnCount' = OwnCount \cup {t} /\ t \notin OwnCount
    BY <1>2 DEF SubmitDelayed, GoTo, OwnCount, DelayedPlaces
  <2>2. Held' = Held /\ disp' = disp /\ wg' = wg + 1
    BY <1>2, Zenon DEF SubmitDelayed, GoTo, Held
  <2>3. Cardinality(OwnCount') = Cardinality(OwnCount) + 1
    BY <2>1, CountOne, Zenon
  <2> QED
    BY <2>2, <2>3
<1>3. ASSUME NEW t \in Tasks, AddToWg(t) PROVE WgInv'
  <2>1. OwnCount' = OwnCount
    BY <1>3, Zenon DEF AddToWg, GoTo, OwnCount
  <2>2. t \notin Held
    BY <1>3, Zenon DEF AddToWg, Held, TasksInv, TaskInv, Sent
  <2>3. Held' = Held \cup {t}
    BY <1>3 DEF AddToWg, GoTo, Held
  <2>4. disp' = disp /\ wg' = wg + 1
    BY <1>3, Zenon DEF AddToWg
  <2>5. Cardinality(Held') = Cardinality(Held) + 1
    BY <2>2, <2>3, CountOne, Zenon
  <2> QED
    BY <2>1, <2>4, <2>5
<1>4. ASSUME NEW t \in Tasks, Send(t) PROVE WgInv'
  <2>1. OwnCount' = OwnCount
    BY <1>4, Zenon DEF Send, GoTo, OwnCount
  <2>2. \A u : In(tasks', u) <=> In(tasks, u) \/ u = t
    BY <1>4, SendAdds, Zenon DEF Send
  <2>3. Held' = Held
    BY <1>4, <2>2, Zenon DEF Send, GoTo, Held
  <2> QED
    BY <1>4, <2>1, <2>3, Zenon DEF Send
<1>5. ASSUME NEW t \in Tasks, DelayedDone(t) PROVE WgInv'
  <2>1. OwnCount' = OwnCount \ {t} /\ t \in OwnCount
    BY <1>5, Zenon DEF DelayedDone, GoTo, OwnCount, DelayedPlaces, Done
  <2>2. Held' = Held /\ disp' = disp /\ wg' = wg - 1
    BY <1>5, Zenon DEF DelayedDone, GoTo, Held, Done
  <2>3. Cardinality(OwnCount') = Cardinality(OwnCount) - 1
    BY <2>1, CountOne, Zenon
  <2> QED
    BY <2>2, <2>3, SMTT(30)
<1>6. ASSUME NEW t \in Tasks, Check(t) \/ Wake(t) PROVE WgInv'
  <2>1. OwnCount' = OwnCount
    BY <1>6, ZenonT(40) DEF Check, Wake, GoTo, OwnCount
  <2>2. Held' = Held
    BY <1>6, ZenonT(40) DEF Check, Wake, GoTo, Held
  <2> QED
    BY <1>6, <2>1, <2>2, Zenon DEF Check, Wake
<1>7. ASSUME TakeTask PROVE WgInv'
  <2>1. /\ \A u : In(tasks, u) <=> In(tasks', u) \/ u = Head(tasks)
        /\ disp'.task = Head(tasks) /\ disp.task \notin Tasks
    BY <1>7, ReceiveTakes DEF TakeTask
  <2>2. Held' = Held
    BY <1>7, <2>1 DEF TakeTask, Held
  <2> QED
    BY <1>7, <2>2 DEF TakeTask, OwnCount
<1>8. ASSUME HandOver PROVE WgInv'
  <2>1. Held' = Held \ {disp.task} /\ disp.task \in Held
    BY <1>8 DEF HandOver, Held, TasksInv, TaskInv, Sent
  <2>2. OwnCount' = OwnCount /\ disp.pc = "handing" /\ disp'.pc = "counting" /\ wg' = wg
    BY <1>8, Zenon DEF HandOver, OwnCount
  <2> QED
    BY <2>1, <2>2, CountOne, SMTT(30)
<1>9. ASSUME WgDone PROVE WgInv'
  BY <1>9 DEF WgDone, OwnCount, Held, Done
<1>10. ASSUME UNCHANGED <<wg, tasks, client>>, disp'.task = disp.task,
              (disp'.pc = "counting") <=> (disp.pc = "counting")
       PROVE  WgInv'
  BY <1>10, Zenon DEF OwnCount, Held
<1>11. ASSUME NEW w \in Workers, WorkerStep(w) PROVE WgInv'
  BY <1>10, <1>11, Zenon DEF WorkerStep, Announce, Complete, WorkerStopped
<1>12. ASSUME TakeWorker PROVE WgInv'
  BY <1>10, <1>12 DEF TakeWorker
<1>13. ASSUME Terminate PROVE WgInv'
  BY <1>10, <1>13 DEF Terminate
<1>14. ASSUME CallStop \/ StopWgWait \/ StopTaskWait \/ StopTakeWorker \/ StopWorker \/ StopReturns
       PROVE  WgInv'
  BY <1>10, <1>14, Zenon
     DEF CallStop, StopWgWait, StopTaskWait, StopTakeWorker, StopWorker, StopReturns, Passes
<1>15. ASSUME CallWait \/ WaitReturns \/ UNCHANGED coreVars PROVE WgInv'
  BY <1>10, <1>15, Zenon DEF CallWait, WaitReturns, coreVars, Passes
<1> QED
  BY <1>1, <1>2, <1>3, <1>4, <1>5, <1>6, <1>7, <1>8, <1>9, <1>11, <1>12, <1>13, <1>14, <1>15, Zenon
     DEF CoreStep, Call, WaitStep, ClientStep, DispatcherStep, StopStep

\* Pool.taskWg counts the tasks between Pool.Submit and TaskCompleted.
LEMMA TaskWgStep ==
  ASSUME Shape, PlacesInv, AvailableInv, TaskWgInv, CoreStep
  PROVE  TaskWgInv'
<1> USE ExecutorAssumption, CountsAreNumbers DEF Shape, PlacesInv, TaskWgInv
<1>1. ASSUME Start PROVE TaskWgInv'
  <2>1. Running = {} /\ Running' = {}
    BY <1>1 DEF Start, Running
  <2> QED
    BY <1>1, <2>1 DEF Start
<1>2. ASSUME TakeTask PROVE TaskWgInv'
  <2>1. disp.task \notin Tasks /\ disp'.task \in Tasks /\ taskWg' = taskWg + 1
    BY <1>2, ReceiveTakes DEF TakeTask
  <2> QED
    BY <1>2, <2>1 DEF TakeTask, Running
<1>3. ASSUME HandOver PROVE TaskWgInv'
  <2>1. /\ disp.worker \in Workers /\ disp.task \in Tasks /\ disp'.task \notin Tasks
        /\ taskWg' = taskWg /\ worker[disp.worker].pc = "select"
    BY <1>3, Zenon DEF HandOver
  <2>2. Running' = Running \cup {disp.worker} /\ disp.worker \notin Running
    BY <1>3, <2>1 DEF HandOver, Running
  <2>3. Cardinality(Running') = Cardinality(Running) + 1
    BY <2>2, CountOne, Zenon
  <2> QED
    BY <2>1, <2>3
<1>4. ASSUME NEW w \in Workers, Complete(w) PROVE TaskWgInv'
  <2>1. Running' = Running \ {w} /\ w \in Running
    BY <1>4, Zenon DEF Complete, SetWorker, Running
  <2>2. Cardinality(Running') = Cardinality(Running) - 1
    BY <2>1, CountOne, Zenon
  <2> QED
    BY <1>4, <2>2, SMTT(30) DEF Complete
<1>5. ASSUME UNCHANGED taskWg, disp'.task = disp.task,
             \A w \in Workers : (worker'[w].pc = "running") <=> (worker[w].pc = "running")
      PROVE  TaskWgInv'
  BY <1>5, ZenonT(40) DEF Running
<1>6. ASSUME NEW t \in Tasks, ClientStep(t) PROVE TaskWgInv'
  <2>1. UNCHANGED <<taskWg, disp, worker>>
    BY <1>6, Zenon DEF ClientStep, Check, SubmitDelayed, Wake, AddToWg, Send, DelayedDone, poolVars, Done
  <2> QED
    BY <1>5, <2>1, Zenon
<1>7. ASSUME NEW w \in Workers, Announce(w) \/ WorkerStopped(w) PROVE TaskWgInv'
  <2>1. /\ UNCHANGED <<taskWg, disp>> /\ worker[w].pc # "running" /\ worker'[w].pc # "running"
        /\ \A v \in Workers \ {w} : worker'[v] = worker[v]
    BY <1>7 DEF Announce, WorkerStopped, SetWorker
  <2> QED
    BY <1>5, <2>1, Zenon
<1>8. ASSUME TakeWorker PROVE TaskWgInv'
  BY <1>5, <1>8 DEF TakeWorker
<1>9. ASSUME WgDone PROVE TaskWgInv'
  BY <1>5, <1>9 DEF WgDone, poolVars, Done
<1>10. ASSUME Terminate PROVE TaskWgInv'
  BY <1>5, <1>10 DEF Terminate, poolVars
<1>11. ASSUME StopWorker PROVE TaskWgInv'
  <2> DEFINE v == stop.worker
  <2>1. /\ v \in Workers /\ worker[v].pc = "select" /\ UNCHANGED <<taskWg, poolWg, disp>>
        /\ worker' = [worker EXCEPT ![v] = [pc |-> "stopping", task |-> NoTask]]
    BY <1>11 DEF StopWorker, SetWorker
  <2> HIDE DEF v
  <2> QED
    BY <1>5, <2>1, Zenon
<1>12. ASSUME CallStop \/ StopWgWait \/ StopTaskWait \/ StopTakeWorker \/ StopReturns
       PROVE  TaskWgInv'
  <2>1. UNCHANGED <<taskWg, disp, worker>>
    BY <1>12, Zenon DEF CallStop, StopWgWait, StopTaskWait, StopTakeWorker, StopReturns, poolVars, Passes
  <2> QED
    BY <1>5, <2>1, Zenon
<1>13. ASSUME CallWait \/ WaitReturns \/ UNCHANGED coreVars PROVE TaskWgInv'
  BY <1>5, <1>13, Zenon DEF CallWait, WaitReturns, coreVars, poolVars, Passes
<1> QED
  BY <1>1, <1>2, <1>3, <1>4, <1>6, <1>7, <1>8, <1>9, <1>10, <1>11, <1>12, <1>13, Zenon
     DEF CoreStep, Call, WaitStep, DispatcherStep, WorkerStep, StopStep

\* Pool.wg counts the workers whose goroutine has not returned.
LEMMA PoolWgStep ==
  ASSUME Shape, PlacesInv, PoolWgInv, CoreStep
  PROVE  PoolWgInv'
<1> USE ExecutorAssumption, CountsAreNumbers DEF Shape, PlacesInv, PoolWgInv
<1>1. ASSUME Start PROVE PoolWgInv'
  <2>1. Serving' = Workers
    BY <1>1 DEF Start, Serving
  <2> QED
    BY <1>1, <2>1 DEF Start
<1>2. ASSUME NEW w \in Workers, WorkerStopped(w) PROVE PoolWgInv'
  <2>1. Serving' = Serving \ {w} /\ w \in Serving
    BY <1>2, Zenon DEF WorkerStopped, SetWorker, Serving
  <2>2. Cardinality(Serving') = Cardinality(Serving) - 1
    BY <2>1, CountOne, Zenon
  <2> QED
    BY <1>2, <2>2, Zenon DEF WorkerStopped
<1>3. ASSUME UNCHANGED poolWg,
             \A w \in Workers : (worker'[w].pc \in {"off", "stopped"})
                                <=> (worker[w].pc \in {"off", "stopped"})
      PROVE  PoolWgInv'
  BY <1>3, Zenon DEF Serving
<1>4. ASSUME NEW w \in Workers, Announce(w) \/ Complete(w) PROVE PoolWgInv'
  <2>1. /\ UNCHANGED poolWg /\ worker[w].pc \notin {"off", "stopped"}
        /\ worker'[w].pc \notin {"off", "stopped"}
        /\ \A v \in Workers \ {w} : worker'[v] = worker[v]
    BY <1>4 DEF Announce, Complete, SetWorker
  <2> QED
    BY <1>3, <2>1, Zenon
<1>5. ASSUME HandOver PROVE PoolWgInv'
  BY <1>3, <1>5, ZenonT(40) DEF HandOver
<1>6. ASSUME StopWorker PROVE PoolWgInv'
  <2> DEFINE v == stop.worker
  <2>1. /\ v \in Workers /\ worker[v].pc = "select" /\ UNCHANGED <<taskWg, poolWg, disp>>
        /\ worker' = [worker EXCEPT ![v] = [pc |-> "stopping", task |-> NoTask]]
    BY <1>6 DEF StopWorker, SetWorker
  <2> HIDE DEF v
  <2> QED
    BY <1>3, <2>1, Zenon
<1>7. ASSUME UNCHANGED <<poolWg, worker>> PROVE PoolWgInv'
  BY <1>3, <1>7, Zenon
<1>8. ASSUME NEW t \in Tasks, ClientStep(t) PROVE PoolWgInv'
  BY <1>7, <1>8, Zenon
     DEF ClientStep, Check, SubmitDelayed, Wake, AddToWg, Send, DelayedDone, poolVars, Done
<1>9. ASSUME TakeTask \/ TakeWorker \/ WgDone PROVE PoolWgInv'
  BY <1>7, <1>9 DEF TakeTask, TakeWorker, WgDone, poolVars, Done
<1>10. ASSUME CallStop \/ StopWgWait \/ Terminate \/ StopTaskWait \/ StopTakeWorker \/ StopReturns
       PROVE  PoolWgInv'
  BY <1>7, <1>10, Zenon
     DEF CallStop, StopWgWait, Terminate, StopTaskWait, StopTakeWorker, StopReturns, poolVars, Passes
<1>11. ASSUME CallWait \/ WaitReturns \/ UNCHANGED coreVars PROVE PoolWgInv'
  BY <1>7, <1>11, Zenon DEF CallWait, WaitReturns, coreVars, poolVars, Passes
<1> QED
  BY <1>1, <1>2, <1>4, <1>5, <1>6, <1>8, <1>9, <1>10, <1>11, Zenon
     DEF CoreStep, Call, WaitStep, DispatcherStep, WorkerStep, StopStep

----------------------------------------------------------------------------
(* Stop and Wait *)

\* No step takes back that a task was sent, that it reached a worker, that it
\* completed, or that SubmitDelayed gave it up.
LEMMA TasksAdvance ==
  ASSUME Shape, PlacesInv, TasksInv, CoreStep, NEW t \in Tasks
  PROVE  /\ Sent(t) => Sent(t)'
         /\ Arrived(t) => Arrived(t)'
         /\ done[t] = 1 => done'[t] = 1
         /\ client[t] = "submitted" => client'[t] = "submitted"
         /\ client[t] = "dropped" => client'[t] = "dropped"
         /\ t \in OwnCount =>
              \/ t \in OwnCount' \/ client'[t] = "submitted"
              \/ t \in Delayed /\ client'[t] = "dropped"
<1> DEFINE ClientGoal ==
             /\ Sent(t) => Sent(t)'
             /\ client[t] = "submitted" => client'[t] = "submitted"
             /\ client[t] = "dropped" => client'[t] = "dropped"
             /\ t \in OwnCount => \/ t \in OwnCount' \/ client'[t] = "submitted"
                                  \/ t \in Delayed /\ client'[t] = "dropped"
           WorkGoal == (Arrived(t) => Arrived(t)') /\ (done[t] = 1 => done'[t] = 1)
<1> USE DEF Shape, PlacesInv, poolVars
<1>1. ASSUME NEW u \in Tasks, ClientStep(u) PROVE ClientGoal /\ WorkGoal
  <2>1. UNCHANGED <<worker, done>>
    BY <1>1, Zenon DEF ClientStep, Check, SubmitDelayed, Wake, AddToWg, Send, DelayedDone, Done
  <2>2. ClientGoal
    <3>1. CASE Check(u) \/ SubmitDelayed(u)
      BY <3>1, Zenon DEF Check, SubmitDelayed, GoTo, Sent, OwnCount
    <3>2. CASE Wake(u) \/ AddToWg(u)
      BY <3>2, ZenonT(40) DEF Wake, AddToWg, GoTo, Sent, OwnCount
    <3>3. CASE Send(u) \/ DelayedDone(u)
      BY <3>3, ZenonT(40) DEF Send, DelayedDone, GoTo, Sent, OwnCount, Done
    <3> QED
      BY <1>1, <3>1, <3>2, <3>3, Zenon DEF ClientStep
  <2> QED
    BY <2>1, <2>2, Zenon DEF Arrived, AtWorker
<1>2. ASSUME UNCHANGED client PROVE ClientGoal
  BY <1>2, Zenon DEF Sent, OwnCount
<1>3. ASSUME UNCHANGED <<worker, done>> PROVE WorkGoal
  BY <1>3, Zenon DEF Arrived, AtWorker
<1>4. ASSUME Start PROVE ClientGoal /\ WorkGoal
  BY <1>2, <1>4 DEF Start, Arrived, AtWorker
<1>5. ASSUME HandOver PROVE ClientGoal /\ WorkGoal
  <2> DEFINE v == disp.worker
  <2>1. /\ v \in Workers /\ worker[v].task \notin Tasks /\ UNCHANGED <<client, done>>
        /\ worker' = [worker EXCEPT ![v] = [pc |-> "running", task |-> disp.task]]
    BY <1>5, Zenon DEF HandOver
  <2> HIDE DEF v
  <2> QED
    BY <1>2, <2>1, Zenon DEF Arrived, AtWorker
<1>6. ASSUME StopWorker PROVE ClientGoal /\ WorkGoal
  <2> DEFINE v == stop.worker
  <2>1. /\ v \in Workers /\ worker[v].task \notin Tasks /\ UNCHANGED <<client, done>>
        /\ worker' = [worker EXCEPT ![v] = [pc |-> "stopping", task |-> NoTask]]
    BY <1>6 DEF StopWorker, SetWorker
  <2> HIDE DEF v
  <2> QED
    BY <1>2, <2>1, Zenon DEF Arrived, AtWorker
<1>7. ASSUME NEW w \in Workers, Complete(w) PROVE ClientGoal /\ WorkGoal
  <2>1. UNCHANGED client /\ worker[w].task \in Tasks /\ done[worker[w].task] = 0
    BY <1>7, Zenon DEF Complete, TasksInv, TaskInv, AtWorker
  <2>2. done'[worker[w].task] = 1 /\ \A u \in Tasks \ {worker[w].task} : done'[u] = done[u]
    BY <1>7, <2>1 DEF Complete
  <2>3. \A v \in Workers \ {w} : worker'[v] = worker[v]
    BY <1>7, Zenon DEF Complete, SetWorker
  <2> QED
    BY <1>2, <2>1, <2>2, <2>3, Zenon DEF Arrived, AtWorker
<1>8. ASSUME NEW w \in Workers, Announce(w) \/ WorkerStopped(w) PROVE ClientGoal /\ WorkGoal
  <2>1. worker[w].task \notin Tasks /\ UNCHANGED <<client, done>>
    BY <1>8, Zenon DEF Announce, WorkerStopped
  <2>2. \A v \in Workers \ {w} : worker'[v] = worker[v]
    BY <1>8, Zenon DEF Announce, WorkerStopped, SetWorker
  <2> QED
    BY <1>2, <2>1, <2>2, Zenon DEF Arrived, AtWorker
<1>9. ASSUME TakeTask \/ TakeWorker \/ WgDone PROVE UNCHANGED <<client, worker, done>>
  BY <1>9 DEF TakeTask, TakeWorker, WgDone, Done
<1>10. ASSUME CallStop \/ StopWgWait \/ Terminate \/ StopTaskWait \/ StopTakeWorker \/ StopReturns
       PROVE  UNCHANGED <<client, worker, done>>
  BY <1>10, Zenon DEF CallStop, StopWgWait, Terminate, StopTaskWait, StopTakeWorker, StopReturns, Passes
<1>11. ASSUME CallWait \/ WaitReturns \/ UNCHANGED coreVars PROVE UNCHANGED <<client, worker, done>>
  BY <1>11, Zenon DEF CallWait, WaitReturns, coreVars, Passes
<1>12. ClientGoal /\ WorkGoal
  <2> HIDE DEF ClientGoal, WorkGoal
  <2> QED
    BY <1>1, <1>2, <1>3, <1>4, <1>5, <1>6, <1>7, <1>8, <1>9, <1>10, <1>11, Zenon
       DEF CoreStep, Call, WaitStep, DispatcherStep, WorkerStep, StopStep
<1> QED
  BY <1>12, Zenon

\* When wg is zero nothing is on its way to a worker.
LEMMA WgZero ==
  ASSUME WgInv, wg = 0, TasksInv, NEW t \in Tasks
  PROVE  t \notin OwnCount /\ (Sent(t) => Arrived(t))
<1>1. Cardinality(OwnCount) = 0 /\ Cardinality(Held) = 0
  BY CountsAreNumbers DEF WgInv
<1>2. OwnCount = {} /\ Held = {}
  BY <1>1, CountsAreNumbers, FS_EmptySet
<1> QED
  BY <1>2, Zenon DEF Held, TasksInv, TaskInv, Arrived

\* Stop waits first for the dispatcher and then for the workers, so the tasks
\* of Submit it was called with arrive and then complete.
LEMMA StopStepKeeps ==
  ASSUME Shape, PlacesInv, TasksInv, WgInv, TaskWgInv, StopInv, CoreStep
  PROVE  StopInv'
<1> DEFINE Later == {"terminate", "waitTasks", "next", "stopWorker", "returned"}
           Last == {"next", "stopWorker", "returned"}
<1>1. ASSUME NEW t \in Tasks
      PROVE  /\ Sent(t) => Sent(t)'
             /\ Arrived(t) => Arrived(t)'
             /\ done[t] = 1 => done'[t] = 1
  BY TasksAdvance, Zenon
<1>2. ASSUME due'.stop = due.stop, stop'.pc \in Later => stop.pc \in Later,
             StopWaits /\ stop'.pc \in Last => stop.pc \in Last
      PROVE  StopInv'
  BY <1>1, <1>2, Zenon DEF StopInv, Shape
<1>3. ASSUME CallStop PROVE StopInv'
  <2>1. ASSUME NEW t \in due'.stop \ Delayed PROVE t \in Tasks /\ Sent(t)
    BY <1>3 DEF CallStop, Outstanding, Sent, Shape
  <2>2. stop'.pc = "waitWg"
    BY <1>3 DEF CallStop, Shape
  <2> QED
    BY <1>1, <2>1, <2>2, Zenon DEF StopInv
<1>4. ASSUME StopWgWait PROVE StopInv'
  <2>1. stop'.pc = "terminate" /\ due' = due /\ wg = 0
    BY <1>4 DEF StopWgWait, Shape, Passes
  <2>2. ASSUME NEW t \in due.stop \ Delayed PROVE t \in Tasks /\ Sent(t) /\ Arrived(t)
    BY <2>1, WgZero, Zenon DEF StopInv, Shape
  <2> QED
    BY <1>1, <2>1, <2>2, Zenon DEF StopInv
<1>5. ASSUME StopTaskWait PROVE StopInv'
  <2>1. stop.pc = "waitTasks" /\ stop'.pc = "next" /\ due' = due /\ taskWg = 0
    BY <1>5 DEF StopTaskWait, Shape
  <2>2. Running = {}
    BY <2>1, CountsAreNumbers, FS_EmptySet DEF TaskWgInv
  <2>3. ASSUME NEW t \in due.stop \ Delayed
        PROVE  t \in Tasks /\ Sent(t) /\ Arrived(t) /\ done[t] = 1
    BY <2>1, <2>2 DEF StopInv, Shape, Arrived, AtWorker, Running, PlacesInv
  <2> QED
    BY <1>1, <2>1, <2>3, Zenon DEF StopInv
<1>6. ASSUME Terminate PROVE StopInv'
  <2>1. /\ due' = due /\ stop.pc = "terminate"
        /\ stop'.pc = IF StopWaits THEN "waitTasks" ELSE "next"
    BY <1>6 DEF Terminate, Shape
  <2> QED
    BY <1>2, <2>1
<1>7. ASSUME StopTakeWorker \/ StopWorker \/ StopReturns PROVE StopInv'
  <2>1. due' = due /\ stop.pc \in Last
    BY <1>7 DEF StopTakeWorker, StopWorker, StopReturns
  <2> QED
    BY <1>2, <2>1
<1>8. ASSUME NEW t \in Tasks, ClientStep(t) PROVE StopInv'
  BY <1>2, <1>8, Zenon
     DEF ClientStep, Check, SubmitDelayed, Wake, AddToWg, Send, DelayedDone, callVars, Done
<1>9. ASSUME Start \/ DispatcherStep PROVE StopInv'
  BY <1>2, <1>9, Zenon DEF Start, DispatcherStep, TakeTask, TakeWorker, HandOver, WgDone, callVars, Done
<1>10. ASSUME NEW w \in Workers, WorkerStep(w) PROVE StopInv'
  BY <1>2, <1>10, Zenon DEF WorkerStep, Announce, Complete, WorkerStopped, callVars
<1>11. ASSUME CallWait PROVE StopInv'
  BY <1>2, <1>11 DEF CallWait, Shape
<1>12. ASSUME WaitReturns \/ UNCHANGED coreVars PROVE StopInv'
  BY <1>2, <1>12, Zenon DEF WaitReturns, coreVars, Passes
<1> QED
  BY <1>3, <1>4, <1>5, <1>6, <1>7, <1>8, <1>9, <1>10, <1>11, <1>12, Zenon
     DEF CoreStep, Call, WaitStep, StopStep

\* Wait returns when wg is zero: the tasks it was called with have reached a
\* worker, or their goroutine gave up because Stop came first.
LEMMA WaitStepKeeps ==
  ASSUME Shape, PlacesInv, TasksInv, WgInv, WaitInv, CoreStep
  PROVE  WaitInv'
<1> DEFINE Accepted(t) == \/ client[t] = "submitted" \/ t \in OwnCount
                          \/ t \in Delayed /\ client[t] = "dropped"
           Seen(t) == Arrived(t) \/ (t \in Delayed /\ client[t] = "dropped")
<1>1. ASSUME NEW t \in Tasks
      PROVE  (Accepted(t) => Accepted(t)') /\ (Seen(t) => Seen(t)')
  BY TasksAdvance, Zenon
<1> HIDE DEF Accepted, Seen
<1>2. WaitInv <=> \A t \in due.wait : Accepted(t) /\ (waiter = "returned" => Seen(t))
  BY Zenon DEF WaitInv, Accepted, Seen
<1>3. WaitInv' <=> \A t \in due'.wait : Accepted(t)' /\ (waiter' = "returned" => Seen(t)')
  BY Zenon DEF WaitInv, Accepted, Seen
<1>4. ASSUME due'.wait = due.wait, UNCHANGED waiter PROVE WaitInv'
  BY <1>1, <1>2, <1>3, <1>4, Zenon DEF Shape
<1>5. ASSUME CallWait PROVE WaitInv'
  <2>1. ASSUME NEW t \in due'.wait PROVE t \in Tasks /\ Accepted(t)
    BY <1>5 DEF CallWait, Outstanding, Accepted, OwnCount, Shape, ClientPlaces
  <2> QED
    BY <1>1, <1>3, <1>5, <2>1 DEF CallWait
<1>6. ASSUME WaitReturns PROVE WaitInv'
  <2>1. due' = due /\ wg = 0
    BY <1>6 DEF WaitReturns, Passes
  <2>2. ASSUME NEW t \in due.wait PROVE t \in Tasks /\ Accepted(t) /\ Seen(t)
    BY <1>2, <2>1, WgZero, Zenon DEF Accepted, Seen, Sent, Shape
  <2> QED
    BY <1>1, <1>3, <2>1, <2>2, Zenon
<1>7. ASSUME NEW t \in Tasks, ClientStep(t) PROVE WaitInv'
  BY <1>4, <1>7, Zenon
     DEF ClientStep, Check, SubmitDelayed, Wake, AddToWg, Send, DelayedDone, callVars, Done
<1>8. ASSUME Start \/ DispatcherStep PROVE WaitInv'
  BY <1>4, <1>8 DEF Start, DispatcherStep, TakeTask, TakeWorker, HandOver, WgDone, callVars, Done
<1>9. ASSUME NEW w \in Workers, WorkerStep(w) PROVE WaitInv'
  BY <1>4, <1>9, Zenon DEF WorkerStep, Announce, Complete, WorkerStopped, callVars
<1>10. ASSUME CallStop PROVE WaitInv'
  BY <1>4, <1>10 DEF CallStop, Shape
<1>11. ASSUME StopStep PROVE WaitInv'
  BY <1>4, <1>11 DEF StopStep, StopWgWait, Terminate, StopTaskWait, StopTakeWorker, StopWorker,
                     StopReturns, Passes
<1>12. ASSUME UNCHANGED coreVars PROVE WaitInv'
  BY <1>4, <1>12 DEF coreVars
<1> QED
  BY <1>5, <1>6, <1>7, <1>8, <1>9, <1>10, <1>11, <1>12, Zenon DEF CoreStep, Call, WaitStep

----------------------------------------------------------------------------
(* The theorems *)

\* The invariant holds before Start and every step keeps it.
THEOREM ExecutorInvariant == Spec => []ExecutorInv
<1>1. Init => ExecutorInv
  <2> SUFFICES ASSUME Init PROVE ExecutorInv
    OBVIOUS
  <2> USE ExecutorAssumption DEF Init
  <2>1. Shape
    BY DEF Shape, ClientPlaces, WorkerPlaces, DispPlaces, StopPlaces
  <2>2. (\A x : ~In(tasks, x) /\ ~In(available, x)) /\ Once(tasks) /\ Once(available)
    BY DEF In, Once
  <2>3. PlacesInv /\ AvailableInv
    BY <2>2 DEF PlacesInv, AvailableInv, DelayedPlaces
  <2>4. TasksInv
    BY <2>2, Zenon DEF TasksInv, TaskInv, Sent, AtWorker
  <2>5. OwnCount = {} /\ Held = {} /\ Running = {} /\ Serving = {}
    BY <2>2, Zenon DEF OwnCount, Held, Running, Serving
  <2>6. WgInv /\ TaskWgInv /\ PoolWgInv
    BY <2>5, FS_EmptySet DEF WgInv, TaskWgInv, PoolWgInv
  <2>7. StopInv /\ WaitInv
    BY Zenon DEF StopInv, WaitInv
  <2>8. WokenInv
    BY DEF WokenInv
  <2> QED
    BY <2>1, <2>3, <2>4, <2>6, <2>7, <2>8, Zenon DEF ExecutorInv
<1>2. ExecutorInv /\ [Next]_vars => ExecutorInv'
  BY StepIsCoreStep, WokenStep, ShapeStep, AvailableStep, TasksStep, WgStep, TaskWgStep, PoolWgStep, StopStepKeeps,
     WaitStepKeeps, Zenon DEF ExecutorInv
<1> QED
  BY <1>1, <1>2, PTL DEF Spec

\* The types hold and no wait group goes below zero, so none panics in Done (a
\* wg.Wait that is overtaken by a late Add still may); no task completes twice, and the channel of available workers is
\* never asked to hold more than its capacity.
THEOREM ExecutorTypes == Spec => []TypeOK
<1>1. ExecutorInv => TypeOK
  <2> SUFFICES ASSUME ExecutorInv PROVE TypeOK
    OBVIOUS
  <2>1. wg \in Nat /\ taskWg \in Nat /\ poolWg \in Nat
    BY CountsAreNumbers DEF ExecutorInv, WgInv, TaskWgInv, PoolWgInv
  <2>2. Len(available) <= Cardinality(Workers)
    BY OnceBounds, ExecutorAssumption, Zenon DEF ExecutorInv, AvailableInv, Shape
  <2> QED
    BY <2>1, <2>2, Zenon DEF ExecutorInv, Shape, PlacesInv, WokenInv, TypeOK
<1> QED
  BY <1>1, ExecutorInvariant, PTL

\* When Stop(true) returns, every task whose Submit had returned when it was
\* called has completed, whatever the clients, the dispatcher and the workers
\* did meanwhile.
THEOREM StopDrainsSubmitted == Spec => []StopCompletesSubmitted
<1>1. ExecutorInv => StopCompletesSubmitted
  BY Zenon DEF ExecutorInv, StopInv, StopCompletesSubmitted
<1> QED
  BY <1>1, ExecutorInvariant, PTL

\* When Wait returns, every task that was outstanding when it was called has
\* reached a worker or was given up by SubmitDelayed after Stop.
THEOREM WaitCoversHandOver == Spec => []WaitSeesHandOver
<1>1. ExecutorInv => WaitSeesHandOver
  BY Zenon DEF ExecutorInv, WaitInv, WaitSeesHandOver, Arrived, AtWorker
<1> QED
  BY <1>1, ExecutorInvariant, PTL

=============================================================================
