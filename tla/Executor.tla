------------------------------ MODULE Executor ------------------------------
(***************************************************************************)
(* The benchmark's task executor (eval/benchmark/executor): clients that   *)
(* submit tasks, now or after a delay, the dispatcher, the worker pool, a  *)
(* caller of Stop and a caller of Wait.  One action per step between two   *)
(* operations on a channel, a wait group or the shared state field.        *)
(***************************************************************************)
EXTENDS Integers, Sequences, FiniteSets

CONSTANTS
  Tasks,        \* the tasks; each is submitted once, by a client of its own
  Delayed,      \* the tasks submitted with SubmitDelayed
  Workers,
  QueueLength,  \* capacity of the tasks channel
  StopWaits,    \* the argument of Stop
  NoTask, NoWorker

ASSUME ExecutorAssumption ==
  /\ IsFiniteSet(Tasks) /\ IsFiniteSet(Workers) /\ Delayed \subseteq Tasks
  /\ QueueLength \in Nat \ {0} /\ StopWaits \in BOOLEAN
  /\ NoTask \notin Tasks /\ NoWorker \notin Workers

VARIABLES
  state,      \* "NEW", "STARTED" or "TERMINATED"
  tasks,      \* the buffered channel
  wg,         \* Executor.wg
  taskWg,     \* Pool.taskWg
  poolWg,     \* Pool.wg
  available,  \* the buffered channel availableWorker
  client,     \* per task: where its submission is
  disp,       \* the dispatcher: its place, task and worker
  worker,     \* per worker: its place and task
  stop,       \* the caller of Stop: its place, worker and loop counter
  waiter,     \* the caller of Wait
  done,       \* history: how often each task completed
  due,        \* history: tasks outstanding when Stop and when Wait was called
  woken,      \* which of Stop and Wait were in wg.Wait when wg came down to zero
  panicked    \* wg.Wait has panicked and ended the process

coreVars == <<state, tasks, wg, taskWg, poolWg, available, client, disp, worker,
              stop, waiter, done, due>>
vars == <<coreVars, woken, panicked>>
poolVars == <<taskWg, poolWg, available, worker, done>>
callVars == <<stop, waiter, due>>
wgVars == <<woken, panicked>>

\* Submit or SubmitDelayed has returned nil and the task has not completed.
Outstanding ==
  {t \in Tasks : /\ \/ client[t] = "submitted"
                    \/ t \in Delayed /\ client[t] \notin {"new", "delaying", "refused"}
                 /\ done[t] = 0}

Init ==
  /\ state = "NEW" /\ tasks = <<>> /\ wg = 0 /\ taskWg = 0 /\ poolWg = 0
  /\ available = <<>>
  /\ client = [t \in Tasks |-> "new"]
  /\ disp = [pc |-> "off", task |-> NoTask, worker |-> NoWorker]
  /\ worker = [w \in Workers |-> [pc |-> "off", task |-> NoTask]]
  /\ stop = [pc |-> "idle", worker |-> NoWorker, i |-> 0]
  /\ waiter = "idle"
  /\ done = [t \in Tasks |-> 0] /\ due = [stop |-> {}, wait |-> {}]
  /\ woken = {} /\ panicked = FALSE

Start ==
  /\ state = "NEW"
  /\ state' = "STARTED"
  /\ poolWg' = Cardinality(Workers)
  /\ worker' = [w \in Workers |-> [pc |-> "ready", task |-> NoTask]]
  /\ disp' = [disp EXCEPT !.pc = "select"]
  /\ UNCHANGED <<tasks, wg, taskWg, available, client, callVars, done, wgVars>>

----------------------------------------------------------------------------
(* Executor.wg, a sync.WaitGroup: a caller of Wait sleeps while the counter *)
(* is above zero.  The Done that brings it to zero wakes the sleepers; one    *)
(* that finds it above zero again panics (an Add between the Done and the     *)
(* release of the sleepers panics by itself; here it counts as one after).    *)

Waits(c) == IF c = "Stop" THEN stop.pc = "waitWg" ELSE waiter = "waiting"

Done ==
  /\ wg' = wg - 1
  /\ woken' = IF wg = 1 THEN woken \cup {c \in {"Stop", "Wait"} : Waits(c)} ELSE woken

\* Wait returns: the counter was zero at once, or still is on waking.
Passes(c) ==
  /\ Waits(c) /\ wg = 0
  /\ woken' = woken \ {c}
  /\ UNCHANGED panicked

\* "WaitGroup is reused before previous Wait has returned", unless the caller
\* had not yet gone to sleep when the counter came down.
Panic(c) ==
  /\ ~panicked
  /\ Waits(c) /\ c \in woken /\ wg > 0
  /\ panicked' = TRUE
  /\ UNCHANGED <<coreVars, woken>>

----------------------------------------------------------------------------
(* Clients *)

GoTo(t, place) == client' = [client EXCEPT ![t] = place]

\* The state check of Submit and of SubmitDelayed.
Check(t) ==
  /\ client[t] = "new" /\ state # "NEW"
  /\ GoTo(t, IF state # "STARTED" THEN "refused"
             ELSE IF t \in Delayed THEN "delaying" ELSE "checked")
  /\ UNCHANGED <<state, tasks, wg, disp, poolVars, callVars, wgVars>>

\* SubmitDelayed counts the task and returns nil; its goroutine sleeps.
SubmitDelayed(t) ==
  /\ client[t] = "delaying"
  /\ GoTo(t, "sleeping")
  /\ wg' = wg + 1
  /\ UNCHANGED <<state, tasks, disp, poolVars, callVars, wgVars>>

\* The delay is over: the goroutine calls Submit, whose error it ignores.
Wake(t) ==
  /\ client[t] = "sleeping"
  /\ GoTo(t, IF state = "STARTED" THEN "checked" ELSE "dropping")
  /\ UNCHANGED <<state, tasks, wg, disp, poolVars, callVars, wgVars>>

AddToWg(t) ==
  /\ client[t] = "checked"
  /\ GoTo(t, "sending")
  /\ wg' = wg + 1
  /\ UNCHANGED <<state, tasks, disp, poolVars, callVars, wgVars>>

Send(t) ==
  /\ client[t] = "sending" /\ Len(tasks) < QueueLength
  /\ tasks' = Append(tasks, t)
  /\ GoTo(t, IF t \in Delayed THEN "sent" ELSE "submitted")
  /\ UNCHANGED <<state, wg, disp, poolVars, callVars, wgVars>>

\* The goroutine of SubmitDelayed gives back its own count.
DelayedDone(t) ==
  /\ client[t] \in {"sent", "dropping"}
  /\ Done
  /\ GoTo(t, IF client[t] = "sent" THEN "submitted" ELSE "dropped")
  /\ UNCHANGED <<state, tasks, disp, poolVars, callVars, panicked>>

----------------------------------------------------------------------------
(* dispatch and Pool.Submit *)

TakeTask ==
  /\ disp.pc = "select" /\ tasks # <<>>
  /\ disp' = [disp EXCEPT !.pc = "submit", !.task = Head(tasks)]
  /\ tasks' = Tail(tasks)
  /\ taskWg' = taskWg + 1
  /\ UNCHANGED <<state, wg, client, poolWg, available, worker, done, callVars, wgVars>>

TakeWorker ==
  /\ disp.pc = "submit" /\ available # <<>>
  /\ disp' = [disp EXCEPT !.pc = "handing", !.worker = Head(available)]
  /\ available' = Tail(available)
  /\ UNCHANGED <<state, tasks, wg, taskWg, poolWg, client, worker, done, callVars, wgVars>>

\* The rendezvous on the worker's unbuffered channel.
HandOver ==
  /\ disp.pc = "handing" /\ worker[disp.worker].pc = "select"
  /\ worker' = [worker EXCEPT ![disp.worker] = [pc |-> "running", task |-> disp.task]]
  /\ disp' = [pc |-> "counting", task |-> NoTask, worker |-> NoWorker]
  /\ UNCHANGED <<state, tasks, wg, taskWg, poolWg, available, client, done, callVars, wgVars>>

\* Mutant: the dispatcher forgets wg.Done.
MutantNoDone ==
  /\ disp.pc = "counting"
  /\ disp' = [disp EXCEPT !.pc = "select"]
  /\ UNCHANGED <<state, tasks, wg, client, poolVars, callVars, wgVars>>

\* Mutant: wg.Done also when the task is taken, and again here.
MutantDoubleDone ==
  /\ disp.pc = "counting"
  /\ wg' = wg - 2
  /\ disp' = [disp EXCEPT !.pc = "select"]
  /\ UNCHANGED <<state, tasks, client, poolVars, callVars, wgVars>>

WgDone ==
  /\ disp.pc = "counting"
  /\ Done
  /\ disp' = [disp EXCEPT !.pc = "select"]
  /\ UNCHANGED <<state, tasks, client, poolVars, callVars, panicked>>

----------------------------------------------------------------------------
(* Workers *)

SetWorker(w, place) == worker' = [worker EXCEPT ![w] = [pc |-> place, task |-> NoTask]]

Announce(w) ==
  /\ worker[w].pc = "ready"
  /\ available' = Append(available, w)
  /\ SetWorker(w, "select")
  /\ UNCHANGED <<state, tasks, wg, taskWg, poolWg, client, disp, done, callVars, wgVars>>

\* Mutant: TaskCompleted is signalled without running the task.
MutantNotInvoked(w) ==
  /\ worker[w].pc = "running"
  /\ taskWg' = taskWg - 1
  /\ SetWorker(w, "ready")
  /\ UNCHANGED <<state, tasks, wg, poolWg, available, client, disp, done, callVars, wgVars>>

Complete(w) ==
  /\ worker[w].pc = "running"
  /\ done' = [done EXCEPT ![worker[w].task] = @ + 1]
  /\ taskWg' = taskWg - 1
  /\ SetWorker(w, "ready")
  /\ UNCHANGED <<state, tasks, wg, poolWg, available, client, disp, callVars, wgVars>>

WorkerStopped(w) ==
  /\ worker[w].pc = "stopping"
  /\ poolWg' = poolWg - 1
  /\ SetWorker(w, "stopped")
  /\ UNCHANGED <<state, tasks, wg, taskWg, available, client, disp, done, callVars, wgVars>>

----------------------------------------------------------------------------
(* Stop and Wait *)

CallStop ==
  /\ stop.pc = "idle" /\ state = "STARTED"
  /\ state' = "TERMINATED"
  /\ stop' = [stop EXCEPT !.pc = "waitWg"]
  /\ due' = [due EXCEPT !.stop = Outstanding]
  /\ UNCHANGED <<tasks, wg, client, disp, poolVars, waiter, wgVars>>

\* Mutant: Stop does not wait for the dispatcher to purge its queue.
MutantNoPurge ==
  /\ stop.pc = "waitWg"
  /\ stop' = [stop EXCEPT !.pc = "terminate"]
  /\ UNCHANGED <<state, tasks, wg, client, disp, poolVars, waiter, due, wgVars>>

StopWgWait ==
  /\ Passes("Stop")
  /\ stop' = [stop EXCEPT !.pc = "terminate"]
  /\ UNCHANGED <<state, tasks, wg, client, disp, poolVars, waiter, due>>

\* The rendezvous on terminating; select may prefer it to a queued task.
Terminate ==
  /\ stop.pc = "terminate" /\ disp.pc = "select"
  /\ disp' = [disp EXCEPT !.pc = "returned"]
  /\ stop' = [stop EXCEPT !.pc = IF StopWaits THEN "waitTasks" ELSE "next"]
  /\ UNCHANGED <<state, tasks, wg, client, poolVars, waiter, due, wgVars>>

StopTaskWait ==
  /\ stop.pc = "waitTasks" /\ taskWg = 0
  /\ stop' = [stop EXCEPT !.pc = "next"]
  /\ UNCHANGED <<state, tasks, wg, client, disp, poolVars, waiter, due, wgVars>>

StopTakeWorker ==
  /\ stop.pc = "next" /\ stop.i < Cardinality(Workers) /\ available # <<>>
  /\ stop' = [pc |-> "stopWorker", worker |-> Head(available), i |-> stop.i + 1]
  /\ available' = Tail(available)
  /\ UNCHANGED <<state, tasks, wg, taskWg, poolWg, client, disp, worker, done, waiter, due, wgVars>>

StopWorker ==
  /\ stop.pc = "stopWorker" /\ worker[stop.worker].pc = "select"
  /\ SetWorker(stop.worker, "stopping")
  /\ stop' = [stop EXCEPT !.pc = "next", !.worker = NoWorker]
  /\ UNCHANGED <<state, tasks, wg, taskWg, poolWg, available, client, disp, done, waiter, due, wgVars>>

StopReturns ==
  /\ stop.pc = "next" /\ stop.i = Cardinality(Workers) /\ poolWg = 0
  /\ stop' = [stop EXCEPT !.pc = "returned"]
  /\ UNCHANGED <<state, tasks, wg, client, disp, poolVars, waiter, due, wgVars>>

CallWait ==
  /\ waiter = "idle" /\ state # "NEW"
  /\ waiter' = "waiting"
  /\ due' = [due EXCEPT !.wait = Outstanding]
  /\ UNCHANGED <<state, tasks, wg, client, disp, poolVars, stop, wgVars>>

WaitReturns ==
  /\ Passes("Wait")
  /\ waiter' = "returned"
  /\ UNCHANGED <<state, tasks, wg, client, disp, poolVars, stop, due>>

----------------------------------------------------------------------------

ClientStep(t) ==
  /\ ~panicked
  /\ Check(t) \/ SubmitDelayed(t) \/ Wake(t) \/ AddToWg(t) \/ Send(t) \/ DelayedDone(t)

DispatcherStep == ~panicked /\ (TakeTask \/ TakeWorker \/ HandOver \/ WgDone)

WorkerStep(w) == ~panicked /\ (Announce(w) \/ Complete(w) \/ WorkerStopped(w))

StopStep ==
  /\ ~panicked
  /\ \/ StopWgWait \/ Terminate \/ StopTaskWait \/ StopTakeWorker \/ StopWorker
     \/ StopReturns

WaitStep == ~panicked /\ WaitReturns

\* Start, and the calls of Stop and Wait, which nobody is obliged to make.
Call == ~panicked /\ (Start \/ CallStop \/ CallWait)

\* The process has ended, or everything has been called and everything that
\* can happen has happened.
Finished ==
  /\ \/ panicked
     \/ /\ stop.pc = "returned"
        /\ waiter = "returned" \/ (waiter = "waiting" /\ wg > 0)
        /\ \A t \in Tasks : client[t] \in {"submitted", "refused", "dropped", "sending"}
  /\ UNCHANGED vars

Next ==
  \/ \E t \in Tasks : ClientStep(t)
  \/ DispatcherStep
  \/ \E w \in Workers : WorkerStep(w)
  \/ Call \/ StopStep \/ WaitStep \/ Panic("Stop") \/ Panic("Wait")
  \/ Finished

Spec == Init /\ [][Next]_vars

\* The Go scheduler runs every goroutine that is not blocked, and tasks end.
\* Nobody is obliged to call Submit, Stop or Wait.
FairSpec ==
  /\ Spec
  /\ \A t \in Tasks : WF_vars(ClientStep(t) /\ client[t] # "new")
  /\ WF_vars(DispatcherStep)
  /\ \A w \in Workers : WF_vars(WorkerStep(w))
  /\ WF_vars(StopStep) /\ WF_vars(WaitStep)

----------------------------------------------------------------------------
(* Properties *)

\* Every variable has its type and no wait group goes below zero, which would
\* panic in sync.WaitGroup.
TypeOK ==
  /\ state \in {"NEW", "STARTED", "TERMINATED"}
  /\ tasks \in Seq(Tasks) /\ Len(tasks) <= QueueLength
  /\ wg \in Nat /\ taskWg \in Nat /\ poolWg \in Nat
  /\ available \in Seq(Workers) /\ Len(available) <= Cardinality(Workers)
  /\ done \in [Tasks -> 0..1] /\ due \in [stop : SUBSET Tasks, wait : SUBSET Tasks]
  /\ disp.task \in Tasks \cup {NoTask} /\ disp.worker \in Workers \cup {NoWorker}
  /\ \A w \in Workers : worker[w].pc = "running" <=> worker[w].task \in Tasks
  /\ woken \subseteq {"Stop", "Wait"} /\ panicked \in BOOLEAN

\* "If true then the call will block until all outstanding tasks have
\* completed": when Stop(true) returns, the tasks that were outstanding when it
\* was called have completed.
StopCompletes == (StopWaits /\ stop.pc = "returned") => \A t \in due.stop : done[t] = 1

\* Stop(true) keeps that promise for the tasks of Submit: it waits for the
\* dispatcher to hand them over and then for the workers.
StopCompletesSubmitted ==
  (StopWaits /\ stop.pc = "returned") => \A t \in due.stop \ Delayed : done[t] = 1

\* "Wait waits for all outstanding tasks to complete": when it returns, the
\* tasks that were outstanding when it was called have completed.
WaitCompletes == waiter = "returned" => \A t \in due.wait : done[t] = 1

\* What Wait does wait for: dispatch calls wg.Done at the hand-over, so the
\* tasks outstanding when Wait was called have at least reached a worker, the
\* delayed ones too unless Stop came first.
WaitSeesHandOver ==
  waiter = "returned" =>
    \A t \in due.wait :
      \/ done[t] = 1 \/ \E w \in Workers : worker[w].task = t
      \/ t \in Delayed /\ client[t] = "dropped"

\* No submission is between its state check and a wg.Add that may find the
\* counter at zero, and none has just made it before a woken caller returned.
Quiet ==
  /\ \A t \in Tasks : client[t] # "delaying" /\ (client[t] = "checked" => t \in Delayed)
  /\ woken # {} => wg = 0

\* A call of Stop returns unless wg.Wait panics: the dispatcher, the workers and
\* the caller never wait for each other in a circle.  And it does return when it
\* overlaps no submission that is past its state check but not yet counted.
StopReturnsEventually ==
  /\ (stop.pc = "waitWg") ~> (stop.pc = "returned" \/ panicked)
  /\ (stop.pc = "waitWg" /\ Quiet) ~> (stop.pc = "returned")

\* A task that was accepted before anyone called Stop is executed, whatever is
\* called afterwards, unless wg.Wait panics or, of a delayed task, the timer
\* fires after Stop.
AcceptedTasksRun ==
  \A t \in Tasks :
    (t \in Outstanding /\ stop.pc = "idle") ~>
      (done[t] = 1 \/ panicked \/ (t \in Delayed /\ client[t] = "dropped"))
=============================================================================
