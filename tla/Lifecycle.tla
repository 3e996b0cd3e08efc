------------------------------- MODULE Lifecycle -------------------------------
(***************************************************************************)
(* Starting and stopping: main of cmd/controller/main.go, Run with its     *)
(* workers and drainQueue of internal/controller/controller.go, and the    *)
(* readiness flags of internal/health/health.go.  What a reconcile does is *)
(* SyncController's matter; here it is a stretch of time that ends well or *)
(* badly, and may outlast the process.                                     *)
(*                                                                         *)
(* Time passes in Ticks, each the 500 ms between two looks of drainQueue.  *)
(* What is ready to run runs before the next Tick, and so does a call that *)
(* a cancelled context ends: scheduling takes no time worth counting.      *)
(***************************************************************************)
EXTENDS WorkQueue

CONSTANTS Workers,          \* config.WorkerCount of them
          MaxRetries,
          RetryDelay,       \* retryDelay
          DrainTimeout,     \* drainTimeout
          ShutdownTimeout,  \* shutdownTimeout, managerTimeout and
          ManagerTimeout,   \* healthShutdownTimeout of main
          HealthTimeout

ASSUME RetriesNat == MaxRetries \in Nat
ASSUME TimesNat == {RetryDelay, DrainTimeout, ShutdownTimeout, ManagerTimeout, HealthTimeout}
                     \subseteq Nat

\* Main waits longer than Run needs: 30 s against 5 s and 20 s.
ASSUME ShutdownLongEnough == RetryDelay + DrainTimeout < ShutdownTimeout

VARIABLES main,            \* where main is
          patience,        \* ticks left of main's present wait
          elapsed,         \* (for the properties) ticks since the signal
          run,             \* where Run is
          pause,           \* ticks left of Run's sleep, delay or drain
          looked,          \* drainQueue has looked since the last tick
          worker, holds,   \* where each worker is, and the key it holds
          late,            \* (for the properties) keys it took since the signal
          watchConnected, workersRunning,   \* HealthChecker
          managerDone,     \* the controller-runtime manager has ended
          outage           \* the API server does not answer

mainVars == <<main, patience, elapsed>>
runVars == <<run, pause, looked>>
workerVars == <<worker, holds, late>>
flags == <<watchConnected, workersRunning>>
others == <<managerDone, outage>>
vars == <<mainVars, runVars, workerVars, flags, others, queueVars>>

cancelled == main # "up"
Alive == main \notin {"exited", "forced"}

\* queue.Len(): keys in work and keys held back do not count.
Waiting == dirty \ processing

IsReady == watchConnected /\ workersRunning

Init ==
  /\ main = "up" /\ patience = 0 /\ elapsed = 0
  /\ run = "sync" /\ pause = 0 /\ looked = FALSE
  /\ worker = [w \in Workers |-> "new"]
  /\ holds = [w \in Workers |-> {}]
  /\ late = [w \in Workers |-> 0]
  /\ watchConnected = FALSE /\ workersRunning = FALSE
  /\ managerDone = FALSE
  /\ outage \in BOOLEAN
  /\ QueueInit

----------------------------------------------------------------------------
(* Run *)

Goes(to) == run' = to /\ UNCHANGED <<pause, looked>>

GoesFor(to, ticks) == run' = to /\ pause' = ticks /\ looked' = FALSE

\* syncCache, then the goroutines.
Starts ==
  /\ run = "sync"
  /\ \E ns \in IF outage \/ cancelled THEN {{}} ELSE SUBSET Spcs : Add(ns)
  /\ worker' = [w \in Workers |-> "loop"]
  /\ workersRunning' = TRUE
  /\ Goes("top")
  /\ UNCHANGED <<mainVars, holds, late, watchConnected, others>>

BeginsDrain ==
  /\ workersRunning' = FALSE /\ watchConnected' = FALSE
  /\ GoesFor("drain", DrainTimeout)

LooksAtContext ==
  /\ run = "top"
  /\ IF cancelled THEN BeginsDrain ELSE Goes("watch") /\ UNCHANGED flags
  /\ UNCHANGED <<mainVars, workerVars, others, queueVars>>

\* time.Sleep does not end early.
WatchFails ==
  /\ run = "watch"
  /\ outage \/ cancelled
  /\ IF cancelled THEN BeginsDrain
     ELSE /\ watchConnected' = FALSE /\ UNCHANGED workersRunning
          /\ GoesFor("sleep", RetryDelay)
  /\ UNCHANGED <<mainVars, workerVars, others, queueVars>>

Mut_WatchOpens_NotMarked ==
  /\ run = "watch"
  /\ ~outage
  /\ Goes("select")
  /\ UNCHANGED <<mainVars, workerVars, flags, others, queueVars>>

\* Also when the context is cancelled while the answer is on its way.
WatchOpens ==
  /\ run = "watch"
  /\ ~outage
  /\ watchConnected' = TRUE
  /\ Goes("select")
  /\ UNCHANGED <<mainVars, workerVars, workersRunning, others, queueVars>>

\* The inner loop's select picks any case that is ready.
HandlesEvent ==
  /\ run = "select"
  /\ \E n \in Spcs : Add({n})
  /\ UNCHANGED <<mainVars, runVars, workerVars, flags, others>>

SeesShutdown ==
  /\ run = "select"
  /\ cancelled
  /\ BeginsDrain
  /\ UNCHANGED <<mainVars, workerVars, others, queueVars>>

Mut_WatchCloses_StillConnected ==
  /\ run = "select"
  /\ GoesFor("delay", RetryDelay)
  /\ UNCHANGED <<mainVars, workerVars, flags, others, queueVars>>

WatchCloses ==
  /\ run = "select"
  /\ watchConnected' = FALSE
  /\ GoesFor("delay", RetryDelay)
  /\ UNCHANGED <<mainVars, workerVars, workersRunning, others, queueVars>>

\* Here only one of the flags is cleared.
SeesShutdownInDelay ==
  /\ run = "delay"
  /\ cancelled
  /\ workersRunning' = FALSE
  /\ GoesFor("drain", DrainTimeout)
  /\ UNCHANGED <<mainVars, workerVars, watchConnected, others, queueVars>>

Reconnects ==
  /\ run \in {"sleep", "delay"}
  /\ pause = 0
  /\ Goes("top")
  /\ UNCHANGED <<mainVars, workerVars, flags, others, queueVars>>

Mut_DrainLooks_NoDeadline ==
  /\ run = "drain"
  /\ ~looked
  /\ IF Waiting = {} THEN Goes("returned")
     ELSE looked' = TRUE /\ pause' = DrainTimeout /\ UNCHANGED run
  /\ UNCHANGED <<mainVars, workerVars, flags, others, queueVars>>

\* drainQueue; Run returns with it and shuts the queue down.
DrainLooks ==
  /\ run = "drain"
  /\ ~looked
  /\ IF Waiting = {} \/ pause = 0 THEN Goes("returned")
     ELSE looked' = TRUE /\ UNCHANGED <<run, pause>>
  /\ UNCHANGED <<mainVars, workerVars, flags, others, queueVars>>

RunStep ==
  \/ Starts \/ LooksAtContext \/ WatchFails \/ WatchOpens
  \/ SeesShutdown \/ SeesShutdownInDelay \/ Reconnects \/ DrainLooks

\* The resync's goroutine; its List fails once the context is cancelled.
Resyncs ==
  /\ run # "sync"
  /\ ~cancelled /\ ~outage
  /\ \E ns \in SUBSET Spcs : Add(ns)
  /\ UNCHANGED <<mainVars, runVars, workerVars, flags, others>>

----------------------------------------------------------------------------
(* The workers *)

Mut_WorkerLoops_ContextIgnored(w) ==
  /\ worker[w] = "loop"
  /\ worker' = [worker EXCEPT ![w] = IF run = "returned" THEN "out" ELSE "get"]
  /\ UNCHANGED <<mainVars, runVars, holds, late, flags, others, queueVars>>

\* The select at the top of worker.
WorkerLoops(w) ==
  /\ worker[w] = "loop"
  /\ worker' = [worker EXCEPT ![w] = IF cancelled THEN "out" ELSE "get"]
  /\ UNCHANGED <<mainVars, runVars, holds, late, flags, others, queueVars>>

\* queue.Get() hands out a key.
TakesKey(w, n) ==
  /\ worker[w] = "get"
  /\ Get(n)
  /\ worker' = [worker EXCEPT ![w] = "busy"]
  /\ holds' = [holds EXCEPT ![w] = {n}]
  /\ late' = [late EXCEPT ![w] = IF cancelled THEN @ + 1 ELSE @]
  /\ UNCHANGED <<mainVars, runVars, flags, others>>

\* ShutDown releases the workers that wait in Get.
GetShutDown(w) ==
  /\ worker[w] = "get"
  /\ run = "returned" /\ Waiting = {}
  /\ worker' = [worker EXCEPT ![w] = "out"]
  /\ UNCHANGED <<mainVars, runVars, holds, late, flags, others, queueVars>>

\* handleReconcileResult; a queue that is shut down takes no retries.
HandlesResult(n) ==
  \/ Forget(n)
  \/ requeues[n] < MaxRetries /\ run # "returned" /\ AddRateLimited(n)

Mut_EndsReconcile_NotDone(w, n) ==
  /\ holds[w] = {n}
  /\ HandlesResult(n)
  /\ UNCHANGED <<dirty, processing>>
  /\ worker' = [worker EXCEPT ![w] = "loop"]
  /\ holds' = [holds EXCEPT ![w] = {}]
  /\ UNCHANGED <<mainVars, runVars, late, flags, others>>

\* The rest of processNextItem, with its deferred Done.
EndsReconcile(w, n) ==
  /\ holds[w] = {n}
  /\ HandlesResult(n)
  /\ Done(n)
  /\ worker' = [worker EXCEPT ![w] = "loop"]
  /\ holds' = [holds EXCEPT ![w] = {}]
  /\ UNCHANGED <<mainVars, runVars, late, flags, others>>

RetryDue(n) ==
  /\ run # "returned"
  /\ DelayElapses(n)
  /\ UNCHANGED <<mainVars, runVars, workerVars, flags, others>>

----------------------------------------------------------------------------
(* main *)

MainGoes(to, ticks) ==
  /\ main' = to /\ patience' = ticks
  /\ UNCHANGED <<elapsed, runVars, workerVars, flags, others, queueVars>>

Signal == main = "up" /\ MainGoes("controller", ShutdownTimeout)

\* The first select: controllerDone, or the timeout, and main just returns.
ControllerDone ==
  /\ main = "controller"
  /\ \E to \in {"manager", "forced"} :
       /\ IF to = "manager" THEN run = "returned" ELSE patience = 0
       /\ MainGoes(to, IF to = "manager" THEN ManagerTimeout ELSE 0)

Mut_ManagerDone_NoTimeout ==
  main = "manager" /\ managerDone /\ MainGoes("health", HealthTimeout)

\* The manager has ended, or main stops waiting for it.
ManagerDone ==
  main = "manager" /\ (managerDone \/ patience = 0) /\ MainGoes("health", HealthTimeout)

\* healthServer.Shutdown ends at the latest with its context.
HealthServerStops == main = "health" /\ MainGoes("exited", 0)

MainStep == ControllerDone \/ ManagerDone \/ HealthServerStops

----------------------------------------------------------------------------
(* Time and the environment *)

\* mgr.Start returns: some time after the cancellation, or earlier with an
\* error, which main only logs.
ManagerEnds ==
  /\ ~managerDone
  /\ managerDone' = TRUE
  /\ UNCHANGED <<mainVars, runVars, workerVars, flags, outage, queueVars>>

OutageFlips ==
  /\ outage' = ~outage
  /\ UNCHANGED <<mainVars, runVars, workerVars, flags, managerDone, queueVars>>

\* Neither Run nor main has anything to do right now.
RunWaits ==
  \/ run \in {"sleep", "delay"} /\ pause > 0 /\ (run = "delay" => ~cancelled)
  \/ run = "drain" /\ looked
  \/ run = "select" /\ ~cancelled
  \/ run = "returned"

MainWaits ==
  /\ main \in {"controller", "manager", "health"} => patience > 0
  /\ ~(main = "controller" /\ run = "returned")
  /\ ~(main = "manager" /\ managerDone)

Less(ticks) == IF ticks > 0 THEN ticks - 1 ELSE 0

Tick ==
  /\ RunWaits /\ MainWaits
  /\ pause' = Less(pause) /\ looked' = FALSE
  /\ patience' = Less(patience)
  /\ elapsed' = IF cancelled THEN elapsed + 1 ELSE 0
  /\ UNCHANGED <<main, run, workerVars, flags, others, queueVars>>

Next ==
  /\ Alive
  /\ \/ RunStep \/ HandlesEvent \/ WatchCloses \/ Resyncs
     \/ \E w \in Workers : WorkerLoops(w) \/ GetShutDown(w)
     \/ \E w \in Workers, n \in Spcs : TakesKey(w, n) \/ EndsReconcile(w, n)
     \/ \E n \in Spcs : RetryDue(n)
     \/ Signal \/ MainStep \/ ManagerEnds \/ OutageFlips \/ Tick

Spec == Init /\ [][Next]_vars

\* Run and main run, and time passes.  No worker is promised to end its
\* reconcile, nor the manager to end, nor the API server to answer.
Fairness == WF_vars(Alive /\ RunStep) /\ WF_vars(Alive /\ MainStep) /\ WF_vars(Alive /\ Tick)

FairSpec == Spec /\ Fairness

----------------------------------------------------------------------------
(* Properties *)

MainSteps == {"up", "controller", "manager", "health", "exited", "forced"}
RunSteps == {"sync", "top", "watch", "select", "sleep", "delay", "drain", "returned"}
WorkerSteps == {"new", "loop", "get", "busy", "out"}

\* Every variable has its type, and a key is in work exactly while a worker
\* holds it: processNextItem gives back what it takes, on every path.
TypeOK ==
  /\ main \in MainSteps /\ run \in RunSteps
  /\ {patience, elapsed, pause} \subseteq Nat
  /\ {looked, watchConnected, workersRunning, managerDone, outage} \subseteq BOOLEAN
  /\ worker \in [Workers -> WorkerSteps]
  /\ holds \in [Workers -> SUBSET Spcs] /\ late \in [Workers -> Nat]
  /\ QueueTypeOK
  /\ \A w \in Workers : worker[w] = "busy" <=> holds[w] # {}
  /\ processing = UNION {holds[w] : w \in Workers}

\* A probe is told "ready" only while Run reads its watch and, until a signal
\* comes, every worker is at work: never between two watches, never while the
\* queue is drained or after, whichever of Run's four ways out was taken.
ReadyMeansServing ==
  IsReady =>
    /\ run = "select"
    /\ ~cancelled => \A w \in Workers : worker[w] \in {"loop", "get", "busy"}

\* "Shutdown signals respected": after the signal each worker begins at most
\* one more reconcile, the one its Get was waiting for, whatever is queued.
OneMoreEach == \A w \in Workers : late[w] <= 1

\* The process stops in bounded time whatever its workers, its manager and the
\* API server do: it never gives up on Run, and needs no longer than one sleep,
\* the drain and main's two other waits, even if nobody empties the queue.
StopsInTime ==
  /\ main # "forced"
  /\ elapsed <= RetryDelay + DrainTimeout + ManagerTimeout + HealthTimeout

\* A signalled process comes to its orderly end, with no help from workers.
ShutdownCompletes == main = "controller" ~> main = "exited"

\* While no signal comes, readiness returns after every outage of the API
\* server and after every end of a watch.
ReadyAgain == <>[]~outage /\ [](main = "up") => []<>IsReady
================================================================================
