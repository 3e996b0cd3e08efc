---------------------------- MODULE LifecycleProofs ----------------------------
(***************************************************************************)
(* Starting and stopping for any number of workers and resources, any      *)
(* retry limit, and any times of which main's wait for Run is longer than  *)
(* a sleep and the drain together: keys are given back, readiness does not *)
(* lie, no worker begins two reconciles after the signal, and the process  *)
(* stops in time.                                                          *)
(***************************************************************************)
EXTENDS Lifecycle, TLAPS

----------------------------------------------------------------------------
(* Types, and who holds which key *)

\* TypeOK, and what makes the queue's bookkeeping last: no key is held twice,
\* and no worker is at work before Run has started them.
TypeInv ==
  /\ TypeOK
  /\ \A v, w \in Workers : v # w => holds[v] \cap holds[w] = {}
  /\ run = "sync" => \A w \in Workers : worker[w] = "new"

LEMMA TypeInit == Init => TypeInv
<1> SUFFICES ASSUME Init PROVE TypeInv
  OBVIOUS
<1> USE DEF Init, QueueInit
<1>1. main \in MainSteps /\ run \in RunSteps /\ {patience, elapsed, pause} \subseteq Nat
  BY DEF MainSteps, RunSteps
<1>2. {looked, watchConnected, workersRunning, managerDone, outage} \subseteq BOOLEAN
  OBVIOUS
<1>3. worker \in [Workers -> WorkerSteps] /\ holds \in [Workers -> SUBSET Spcs]
      /\ late \in [Workers -> Nat]
  BY DEF WorkerSteps
<1>4. QueueTypeOK
  BY DEF QueueTypeOK
<1>5. \A w \in Workers : worker[w] = "new" /\ holds[w] = {}
  OBVIOUS
<1>6. processing = UNION {holds[w] : w \in Workers}
  BY <1>5
<1> QED
  BY <1>1, <1>2, <1>3, <1>4, <1>5, <1>6 DEF TypeInv, TypeOK

\* The steps that leave workers and queue alone.
LEMMA FrameKeepsTypes ==
  ASSUME TypeInv, UNCHANGED <<workerVars, queueVars>>,
         main' \in MainSteps, run' \in RunSteps, run' = "sync" => run = "sync",
         {patience', elapsed', pause'} \subseteq Nat,
         {looked', watchConnected', workersRunning', managerDone', outage'} \subseteq BOOLEAN
  PROVE  TypeInv'
BY DEF TypeInv, TypeOK, QueueTypeOK, workerVars, queueVars

\* The steps that only add keys.
LEMMA AddKeepsTypes ==
  ASSUME TypeInv, NEW ns \in SUBSET Spcs, Add(ns), UNCHANGED <<workerVars, run>>,
         UNCHANGED <<mainVars, runVars, flags, others>>
  PROVE  TypeInv'
BY DEF TypeInv, TypeOK, QueueTypeOK, Add, workerVars, mainVars, runVars, flags, others

LEMMA RunKeepsTypes == TypeInv /\ RunStep => TypeInv'
<1> SUFFICES ASSUME TypeInv, RunStep PROVE TypeInv'
  OBVIOUS
<1>1. /\ {patience, elapsed, pause, RetryDelay, DrainTimeout} \subseteq Nat
      /\ {looked, watchConnected, workersRunning, managerDone, outage} \subseteq BOOLEAN
      /\ main \in MainSteps /\ run \in RunSteps
  BY TimesNat DEF TypeInv, TypeOK
<1> USE DEF Goes, GoesFor, BeginsDrain, mainVars, flags, others, RunSteps
<1>2. CASE Starts
  <2>1. /\ run = "sync" /\ run' = "top"
        /\ worker' = [w \in Workers |-> "loop"]
        /\ workersRunning' = TRUE
        /\ UNCHANGED <<main, patience, elapsed, pause, looked, holds, late,
                       watchConnected, managerDone, outage, processing, delayed, requeues>>
    BY <1>2 DEF Starts, Add
  <2>2. PICK ns \in SUBSET Spcs : dirty' = dirty \cup ns
    BY <1>2 DEF Starts, Add
  <2>3. \A w \in Workers : worker[w] = "new" /\ holds[w] = {}
    BY <2>1 DEF TypeInv, TypeOK
  <2>4. QueueTypeOK'
    BY <2>1, <2>2 DEF TypeInv, TypeOK, QueueTypeOK
  <2>5. worker' \in [Workers -> WorkerSteps]
        /\ \A w \in Workers : worker'[w] = "busy" <=> holds[w] # {}
    BY <2>1, <2>3 DEF WorkerSteps
  <2>6. TypeOK'
    BY <1>1, <2>1, <2>4, <2>5 DEF TypeInv, TypeOK
  <2> QED
    BY <2>1, <2>6 DEF TypeInv
<1>3. CASE LooksAtContext
  BY <1>1, <1>3, FrameKeepsTypes DEF LooksAtContext
<1>4. CASE WatchFails
  BY <1>1, <1>4, FrameKeepsTypes DEF WatchFails
<1>5. CASE WatchOpens
  BY <1>1, <1>5, FrameKeepsTypes DEF WatchOpens
<1>6. CASE SeesShutdown
  BY <1>1, <1>6, FrameKeepsTypes DEF SeesShutdown
<1>7. CASE SeesShutdownInDelay
  BY <1>1, <1>7, FrameKeepsTypes DEF SeesShutdownInDelay
<1>8. CASE Reconnects
  BY <1>1, <1>8, FrameKeepsTypes DEF Reconnects
<1>9. CASE DrainLooks
  BY <1>1, <1>9, FrameKeepsTypes DEF DrainLooks
<1> QED
  BY <1>2, <1>3, <1>4, <1>5, <1>6, <1>7, <1>8, <1>9 DEF RunStep

\* A worker that only moves on.
LEMMA MoveKeepsTypes ==
  ASSUME TypeInv, NEW w \in Workers, NEW to \in {"get", "out", "loop"},
         worker[w] \in {"loop", "get"}, worker' = [worker EXCEPT ![w] = to],
         UNCHANGED <<mainVars, runVars, holds, late, flags, others, queueVars>>
  PROVE  TypeInv'
<1>1. worker' \in [Workers -> WorkerSteps]
  BY DEF TypeInv, TypeOK, WorkerSteps
<1>2. \A v \in Workers : worker'[v] = "busy" <=> worker[v] = "busy"
  BY DEF TypeInv, TypeOK
<1>3. run # "sync"
  BY DEF TypeInv
<1>4. TypeOK'
  BY <1>1, <1>2 DEF TypeInv, TypeOK, QueueTypeOK, mainVars, runVars, flags, others, queueVars
<1> QED
  BY <1>3, <1>4 DEF TypeInv, runVars

\* Get hands out a key that nobody holds.
LEMMA TakeKeepsTypes ==
  ASSUME TypeInv, NEW w \in Workers, NEW n \in Spcs, TakesKey(w, n)
  PROVE  TypeInv'
<1>1. /\ worker[w] = "get"
      /\ n \in dirty \ processing
      /\ dirty' = dirty \ {n} /\ processing' = processing \cup {n}
      /\ worker' = [worker EXCEPT ![w] = "busy"]
      /\ holds' = [holds EXCEPT ![w] = {n}]
      /\ late' = [late EXCEPT ![w] = IF cancelled THEN @ + 1 ELSE @]
      /\ UNCHANGED <<delayed, requeues, main, patience, elapsed, run, pause, looked,
                     watchConnected, workersRunning, managerDone, outage>>
  BY DEF TakesKey, Get, mainVars, runVars, flags, others
<1>2. /\ worker \in [Workers -> WorkerSteps] /\ holds \in [Workers -> SUBSET Spcs]
      /\ late \in [Workers -> Nat]
      /\ processing = UNION {holds[v] : v \in Workers}
      /\ holds[w] = {} /\ run # "sync"
  BY <1>1 DEF TypeInv, TypeOK
<1>3. /\ worker' \in [Workers -> WorkerSteps] /\ holds' \in [Workers -> SUBSET Spcs]
  BY <1>1, <1>2 DEF WorkerSteps
<1>4. late' \in [Workers -> Nat]
  BY <1>1, <1>2
<1>5. QueueTypeOK'
  BY <1>1 DEF TypeInv, TypeOK, QueueTypeOK
<1>6. \A v \in Workers : worker'[v] = "busy" <=> holds'[v] # {}
  BY <1>1, <1>2 DEF TypeInv, TypeOK
<1>7. processing' = UNION {holds'[v] : v \in Workers}
  <2>1. holds'[w] = {n} /\ \A v \in Workers \ {w} : holds'[v] = holds[v]
    BY <1>1, <1>2
  <2>2. \A m : m \in processing <=> \E v \in Workers : m \in holds[v]
    BY <1>2
  <2>3. \A m : m \in processing' <=> \E v \in Workers : m \in holds'[v]
    BY <1>1, <1>2, <2>1, <2>2
  <2> QED
    BY <2>3
<1>8. \A u, v \in Workers : u # v => holds'[u] \cap holds'[v] = {}
  <2>1. \A v \in Workers : n \notin holds[v]
    BY <1>1, <1>2
  <2> QED
    BY <1>1, <1>2, <2>1 DEF TypeInv
<1>9. TypeOK'
  BY <1>1, <1>3, <1>4, <1>5, <1>6, <1>7 DEF TypeInv, TypeOK
<1> QED
  BY <1>1, <1>2, <1>8, <1>9 DEF TypeInv

\* A finished worker gives its key back, and nobody else's.
LEMMA EndKeepsTypes ==
  ASSUME TypeInv, NEW w \in Workers, NEW n \in Spcs, EndsReconcile(w, n)
  PROVE  TypeInv'
<1>1. /\ holds[w] = {n}
      /\ processing' = processing \ {n}
      /\ worker' = [worker EXCEPT ![w] = "loop"]
      /\ holds' = [holds EXCEPT ![w] = {}]
      /\ UNCHANGED <<dirty, late, main, patience, elapsed, run, pause, looked,
                     watchConnected, workersRunning, managerDone, outage>>
  BY DEF EndsReconcile, Done, mainVars, runVars, flags, others
<1>2. /\ worker \in [Workers -> WorkerSteps] /\ holds \in [Workers -> SUBSET Spcs]
      /\ processing = UNION {holds[v] : v \in Workers}
      /\ worker[w] = "busy" /\ run # "sync"
  BY <1>1 DEF TypeInv, TypeOK
<1>3. /\ worker' \in [Workers -> WorkerSteps] /\ holds' \in [Workers -> SUBSET Spcs]
  BY <1>1, <1>2 DEF WorkerSteps
<1>4. QueueTypeOK'
  <2>1. /\ delayed' \in {delayed, delayed \cup {n}}
        /\ \/ requeues' = [requeues EXCEPT ![n] = 0]
           \/ requeues' = [requeues EXCEPT ![n] = @ + 1]
    BY DEF EndsReconcile, HandlesResult, Forget, AddRateLimited
  <2>2. requeues \in [Spcs -> Nat]
    BY DEF TypeInv, TypeOK, QueueTypeOK
  <2>3. requeues' \in [Spcs -> Nat]
    BY <2>1, <2>2
  <2> QED
    BY <1>1, <2>1, <2>3 DEF TypeInv, TypeOK, QueueTypeOK
<1>5. \A v \in Workers : worker'[v] = "busy" <=> holds'[v] # {}
  BY <1>1, <1>2 DEF TypeInv, TypeOK
<1>6. processing' = UNION {holds'[v] : v \in Workers}
  <2>1. holds'[w] = {} /\ \A v \in Workers \ {w} : holds'[v] = holds[v] /\ n \notin holds[v]
    BY <1>1, <1>2 DEF TypeInv
  <2>2. \A m : m \in processing <=> \E v \in Workers : m \in holds[v]
    BY <1>2
  <2>3. \A m : m \in processing' <=> \E v \in Workers : m \in holds'[v]
    BY <1>1, <1>2, <2>1, <2>2
  <2> QED
    BY <2>3
<1>7. \A u, v \in Workers : u # v => holds'[u] \cap holds'[v] = {}
  BY <1>1, <1>2 DEF TypeInv
<1>8. TypeOK'
  BY <1>1, <1>3, <1>4, <1>5, <1>6 DEF TypeInv, TypeOK
<1> QED
  BY <1>1, <1>2, <1>7, <1>8 DEF TypeInv

LEMMA NextKeepsTypes == TypeInv /\ [Next]_vars => TypeInv'
<1> SUFFICES ASSUME TypeInv, [Next]_vars PROVE TypeInv'
  OBVIOUS
<1>0. /\ {patience, elapsed, pause} \subseteq Nat
      /\ {RetryDelay, DrainTimeout, ShutdownTimeout, ManagerTimeout, HealthTimeout} \subseteq Nat
      /\ {looked, watchConnected, workersRunning, managerDone, outage} \subseteq BOOLEAN
      /\ main \in MainSteps /\ run \in RunSteps
  BY TimesNat DEF TypeInv, TypeOK
<1>1. CASE RunStep
  BY <1>1, RunKeepsTypes
<1>2. CASE HandlesEvent \/ Resyncs
  <2>1. PICK ns \in SUBSET Spcs : Add(ns)
    BY <1>2 DEF HandlesEvent, Resyncs
  <2>2. UNCHANGED <<mainVars, runVars, workerVars, flags, others>>
    BY <1>2 DEF HandlesEvent, Resyncs
  <2> QED
    BY <2>1, <2>2, AddKeepsTypes DEF runVars
<1>3. CASE WatchCloses
  <2>1. /\ run' = "delay" /\ pause' = RetryDelay /\ looked' = FALSE /\ watchConnected' = FALSE
        /\ UNCHANGED <<main, patience, elapsed, workersRunning, managerDone, outage,
                       workerVars, queueVars>>
    BY <1>3 DEF WatchCloses, GoesFor, mainVars, others
  <2> QED
    BY <1>0, <2>1, FrameKeepsTypes DEF RunSteps
<1>4. ASSUME NEW w \in Workers, WorkerLoops(w) PROVE TypeInv'
  <2>1. PICK to \in {"get", "out"} : worker' = [worker EXCEPT ![w] = to]
    BY <1>4 DEF WorkerLoops
  <2> QED
    BY <1>4, <2>1, MoveKeepsTypes DEF WorkerLoops
<1>5. ASSUME NEW w \in Workers, GetShutDown(w) PROVE TypeInv'
  BY <1>5, MoveKeepsTypes DEF GetShutDown
<1>6. ASSUME NEW w \in Workers, NEW n \in Spcs, TakesKey(w, n) PROVE TypeInv'
  BY <1>6, TakeKeepsTypes
<1>7. ASSUME NEW w \in Workers, NEW n \in Spcs, EndsReconcile(w, n) PROVE TypeInv'
  BY <1>7, EndKeepsTypes
<1>8. ASSUME NEW n \in Spcs, RetryDue(n) PROVE TypeInv'
  BY <1>8 DEF RetryDue, DelayElapses, TypeInv, TypeOK, QueueTypeOK, mainVars, runVars,
              workerVars, flags, others
<1>9. CASE Signal \/ MainStep
  <2>1. /\ main' \in MainSteps
        /\ patience' \in {ShutdownTimeout, ManagerTimeout, HealthTimeout, 0}
        /\ UNCHANGED <<elapsed, runVars, workerVars, flags, others, queueVars>>
    BY <1>9 DEF Signal, MainStep, ControllerDone, ManagerDone, HealthServerStops,
                MainGoes, MainSteps
  <2> QED
    BY <1>0, <2>1, FrameKeepsTypes DEF runVars, flags, others
<1>10. CASE ManagerEnds \/ OutageFlips
  <2>1. /\ UNCHANGED <<mainVars, runVars, workerVars, flags, queueVars>>
        /\ managerDone' \in BOOLEAN /\ outage' \in BOOLEAN
    BY <1>0, <1>10 DEF ManagerEnds, OutageFlips
  <2> QED
    BY <1>0, <2>1, FrameKeepsTypes DEF mainVars, runVars, flags
<1>11. CASE Tick
  <2>1. /\ UNCHANGED <<main, run, workerVars, flags, others, queueVars>>
        /\ looked' = FALSE
        /\ pause' = Less(pause) /\ patience' = Less(patience)
        /\ elapsed' \in {elapsed + 1, 0}
    BY <1>11 DEF Tick
  <2>2. {patience', elapsed', pause'} \subseteq Nat
    BY <1>0, <2>1 DEF Less
  <2> QED
    BY <1>0, <2>1, <2>2, FrameKeepsTypes DEF flags, others
<1>12. CASE UNCHANGED vars
  BY <1>0, <1>12, FrameKeepsTypes DEF vars, mainVars, runVars, flags, others
<1> QED
  BY <1>1, <1>2, <1>3, <1>4, <1>5, <1>6, <1>7, <1>8, <1>9, <1>10, <1>11, <1>12 DEF Next

LEMMA TypesHold == Spec => []TypeInv
  BY TypeInit, NextKeepsTypes, PTL DEF Spec

\* Types, and the queue's keys in work are exactly those the workers hold:
\* whatever path a worker takes, processNextItem gives its key back.
THEOREM TypeCorrect == Spec => []TypeOK
<1>1. TypeInv => TypeOK
  BY DEF TypeInv
<1> QED
  BY <1>1, TypesHold, PTL

----------------------------------------------------------------------------
(* Readiness *)

\* The flag of the watch is up only in the inner loop; once Run has started
\* its workers, only the signal lets one of them stop.
FlagInv ==
  /\ watchConnected => run = "select"
  /\ run \in {"drain", "returned"} => cancelled
  /\ run # "sync" /\ ~cancelled => \A w \in Workers : worker[w] \in {"loop", "get", "busy"}

LEMMA NextKeepsFlags == TypeInv /\ FlagInv /\ [Next]_vars => FlagInv'
<1> SUFFICES ASSUME TypeInv, FlagInv, [Next]_vars PROVE FlagInv'
  OBVIOUS
<1> USE DEF FlagInv, cancelled
<1>1. CASE RunStep
  <2> USE DEF Goes, GoesFor, BeginsDrain, mainVars, workerVars, flags
  <2>1. CASE Starts
    BY <2>1 DEF Starts
  <2>2. CASE LooksAtContext
    BY <2>2 DEF LooksAtContext
  <2>3. CASE WatchFails
    BY <2>3 DEF WatchFails
  <2>4. CASE WatchOpens
    BY <2>4 DEF WatchOpens
  <2>5. CASE SeesShutdown
    BY <2>5 DEF SeesShutdown
  <2>6. CASE SeesShutdownInDelay
    BY <2>6 DEF SeesShutdownInDelay
  <2>7. CASE Reconnects
    BY <2>7 DEF Reconnects
  <2>8. CASE DrainLooks
    BY <2>8 DEF DrainLooks
  <2> QED
    BY <1>1, <2>1, <2>2, <2>3, <2>4, <2>5, <2>6, <2>7, <2>8 DEF RunStep
<1>2. CASE WatchCloses
  BY <1>2 DEF WatchCloses, GoesFor, mainVars, workerVars
<1>3. ASSUME NEW w \in Workers, UNCHANGED <<mainVars, runVars, flags>>,
             \/ WorkerLoops(w)
             \/ GetShutDown(w)
             \/ \E n \in Spcs : TakesKey(w, n) \/ EndsReconcile(w, n)
      PROVE  FlagInv'
  <2>1. /\ worker \in [Workers -> WorkerSteps]
        /\ UNCHANGED <<main, run, watchConnected>>
    BY <1>3 DEF TypeInv, TypeOK, mainVars, runVars, flags
  <2>2. PICK to : worker' = [worker EXCEPT ![w] = to]
                  /\ (to \in {"loop", "get", "busy"} \/ (to = "out" /\ cancelled))
    <3>1. WorkerLoops(w) =>
            \E to \in {"get", "out"} : worker' = [worker EXCEPT ![w] = to]
                                       /\ (to = "out" => cancelled)
      BY DEF WorkerLoops
    <3> QED
      BY <1>3, <3>1 DEF GetShutDown, TakesKey, EndsReconcile
  <2> QED
    BY <2>1, <2>2
<1>4. CASE HandlesEvent \/ Resyncs \/ Signal \/ MainStep \/ ManagerEnds \/ OutageFlips
           \/ Tick \/ (\E n \in Spcs : RetryDue(n)) \/ UNCHANGED vars
  <2>1. /\ UNCHANGED <<run, worker, watchConnected>>
        /\ main' = "up" => main = "up"
    BY <1>4 DEF HandlesEvent, Resyncs, Signal, MainStep, ControllerDone, ManagerDone,
                HealthServerStops, MainGoes, ManagerEnds, OutageFlips, Tick, RetryDue,
                vars, mainVars, runVars, workerVars, flags
  <2> QED
    BY <2>1
<1>5. \A w \in Workers : WorkerLoops(w) \/ GetShutDown(w)
        \/ (\E n \in Spcs : TakesKey(w, n) \/ EndsReconcile(w, n))
        => UNCHANGED <<mainVars, runVars, flags>>
  BY DEF WorkerLoops, GetShutDown, TakesKey, EndsReconcile
<1> QED
  BY <1>1, <1>2, <1>3, <1>4, <1>5 DEF Next

\* A probe is told "ready" only while Run reads its watch and, until the
\* signal, all workers work, however many there are.
THEOREM ReadinessIsHonest == Spec => []ReadyMeansServing
<1>1. Init => FlagInv
  BY DEF Init, FlagInv
<1>2. FlagInv => ReadyMeansServing
  BY DEF FlagInv, ReadyMeansServing, IsReady
<1> QED
  BY <1>1, <1>2, TypesHold, NextKeepsFlags, PTL DEF Spec

----------------------------------------------------------------------------
(* After the signal *)

\* A worker that waits in Get has taken no key since the signal: had it, the
\* select at the top of its loop would have sent it home.
LateInv ==
  \A w \in Workers :
    /\ late[w] \in {0, 1}
    /\ ~cancelled \/ worker[w] = "get" => late[w] = 0

LEMMA NextKeepsLate == TypeInv /\ LateInv /\ [Next]_vars => LateInv'
<1> SUFFICES ASSUME TypeInv, LateInv, [Next]_vars PROVE LateInv'
  OBVIOUS
<1> USE DEF LateInv, cancelled
<1>1. CASE Starts
  BY <1>1 DEF Starts, mainVars
<1>2. ASSUME NEW w \in Workers, WorkerLoops(w) PROVE LateInv'
  BY <1>2 DEF WorkerLoops, mainVars, TypeInv, TypeOK
<1>3. ASSUME NEW w \in Workers, GetShutDown(w) PROVE LateInv'
  BY <1>3 DEF GetShutDown, mainVars, TypeInv, TypeOK
<1>4. ASSUME NEW w \in Workers, NEW n \in Spcs, TakesKey(w, n) PROVE LateInv'
  <2>1. /\ worker' = [worker EXCEPT ![w] = "busy"]
        /\ late' = [late EXCEPT ![w] = IF cancelled THEN @ + 1 ELSE @]
        /\ worker[w] = "get" /\ UNCHANGED main
        /\ worker \in [Workers -> WorkerSteps] /\ late \in [Workers -> Nat]
    BY <1>4 DEF TakesKey, mainVars, TypeInv, TypeOK
  <2>2. late[w] = 0 /\ late'[w] = IF cancelled THEN 1 ELSE 0
    BY <2>1
  <2> QED
    BY <2>1, <2>2
<1>5. ASSUME NEW w \in Workers, NEW n \in Spcs, EndsReconcile(w, n) PROVE LateInv'
  BY <1>5 DEF EndsReconcile, mainVars, TypeInv, TypeOK
<1>6. CASE \/ LooksAtContext \/ WatchFails \/ WatchOpens \/ SeesShutdown
           \/ SeesShutdownInDelay \/ Reconnects \/ DrainLooks \/ WatchCloses
           \/ HandlesEvent \/ Resyncs \/ (\E n \in Spcs : RetryDue(n))
           \/ Signal \/ MainStep \/ ManagerEnds \/ OutageFlips \/ Tick \/ UNCHANGED vars
  <2>1. UNCHANGED <<worker, late>> /\ (main' = "up" => main = "up")
    BY <1>6 DEF LooksAtContext, WatchFails, WatchOpens, SeesShutdown, SeesShutdownInDelay,
                Reconnects, DrainLooks, WatchCloses, HandlesEvent, Resyncs, RetryDue,
                Signal, MainStep, ControllerDone, ManagerDone, HealthServerStops, MainGoes,
                ManagerEnds, OutageFlips, Tick, vars, mainVars, workerVars
  <2> QED
    BY <2>1
<1> QED
  BY <1>1, <1>2, <1>3, <1>4, <1>5, <1>6 DEF Next, RunStep

\* After the signal no worker begins more than one reconcile, whatever the
\* number of workers and keys.
THEOREM OneMoreAtMost == Spec => []OneMoreEach
<1>1. Init => LateInv
  BY DEF Init, LateInv
<1>2. LateInv => OneMoreEach
  BY DEF LateInv, OneMoreEach
<1> QED
  BY <1>1, <1>2, TypesHold, NextKeepsLate, PTL DEF Spec

----------------------------------------------------------------------------
(* Time *)

\* Run's share of the time: a sleep that the signal finds under way, then the
\* drain.  Everywhere else no time passes once the context is cancelled.
RunBound ==
  /\ run \in {"sync", "top", "watch", "select", "delay"} => elapsed <= RetryDelay
  /\ run = "sleep" => elapsed + pause <= RetryDelay
  /\ run = "drain" => elapsed + pause <= RetryDelay + DrainTimeout
  /\ run = "returned" => elapsed <= RetryDelay + DrainTimeout
  /\ looked => run = "drain" /\ pause > 0

\* Main's share: what it has waited and what it may still wait.
TimeInv ==
  /\ main # "forced"
  /\ main = "up" => elapsed = 0 /\ run \notin {"drain", "returned"}
  /\ main \in {"up", "controller"} => RunBound
  /\ main = "controller" => elapsed + patience = ShutdownTimeout
  /\ main \in {"manager", "health", "exited"} => run = "returned" /\ ~looked
  /\ main = "manager" => elapsed + patience <= RetryDelay + DrainTimeout + ManagerTimeout
  /\ main = "health" =>
       elapsed + patience <= RetryDelay + DrainTimeout + ManagerTimeout + HealthTimeout
  /\ main = "exited" =>
       elapsed <= RetryDelay + DrainTimeout + ManagerTimeout + HealthTimeout

\* Numbers, and no record, set or function: what the steps of arithmetic need.
LEMMA Numbers ==
  TypeInv => /\ patience \in Nat /\ elapsed \in Nat /\ pause \in Nat
             /\ RetryDelay \in Nat /\ DrainTimeout \in Nat /\ ShutdownTimeout \in Nat
             /\ ManagerTimeout \in Nat /\ HealthTimeout \in Nat
             /\ main \in MainSteps /\ run \in RunSteps /\ looked \in BOOLEAN
BY TimesNat DEF TypeInv, TypeOK

LEMMA RunKeepsTime ==
  ASSUME TypeInv, TimeInv, RunStep \/ WatchCloses
  PROVE  TimeInv'
<1> USE Numbers DEF TimeInv, RunBound, cancelled, MainSteps, RunSteps, Goes, GoesFor,
                    BeginsDrain, mainVars
<1>1. CASE Starts
  BY <1>1 DEF Starts
<1>2. CASE LooksAtContext
  BY <1>2 DEF LooksAtContext
<1>3. CASE WatchFails
  BY <1>3 DEF WatchFails
<1>4. CASE WatchOpens
  BY <1>4 DEF WatchOpens
<1>5. CASE SeesShutdown
  BY <1>5 DEF SeesShutdown
<1>6. CASE SeesShutdownInDelay
  BY <1>6 DEF SeesShutdownInDelay
<1>7. CASE Reconnects
  BY <1>7 DEF Reconnects
<1>8. CASE DrainLooks
  BY <1>8 DEF DrainLooks
<1>9. CASE WatchCloses
  BY <1>9 DEF WatchCloses
<1> QED
  BY <1>1, <1>2, <1>3, <1>4, <1>5, <1>6, <1>7, <1>8, <1>9 DEF RunStep

LEMMA MainKeepsTime ==
  ASSUME TypeInv, TimeInv, Signal \/ MainStep
  PROVE  TimeInv'
<1> USE Numbers, ShutdownLongEnough
        DEF TimeInv, RunBound, MainSteps, RunSteps, MainGoes, runVars
<1>1. CASE Signal
  BY <1>1 DEF Signal
<1>2. CASE ControllerDone
  BY <1>2 DEF ControllerDone
<1>3. CASE ManagerDone
  BY <1>3 DEF ManagerDone
<1>4. CASE HealthServerStops
  BY <1>4 DEF HealthServerStops
<1> QED
  BY <1>1, <1>2, <1>3, <1>4 DEF MainStep

\* A tick takes from Run's pause, and from main's, what it adds to elapsed.
LEMMA TickKeepsTime ==
  ASSUME TypeInv, TimeInv, Alive, Tick
  PROVE  TimeInv'
<1> USE Numbers, ShutdownLongEnough DEF TimeInv, MainSteps, RunSteps
<1>1. /\ RunWaits /\ MainWaits /\ UNCHANGED <<main, run>> /\ ~looked'
      /\ pause' = (IF pause > 0 THEN pause - 1 ELSE 0)
      /\ patience' = (IF patience > 0 THEN patience - 1 ELSE 0)
      /\ elapsed' = (IF main # "up" THEN elapsed + 1 ELSE 0)
  BY DEF Tick, Less, cancelled
<1>2. CASE main = "up"
  <2>1. RunBound'
    BY <1>1, <1>2 DEF RunBound, RunWaits, cancelled
  <2> QED
    BY <1>1, <1>2, <2>1
<1>3. CASE main = "controller"
  <2>1. patience > 0 /\ run # "returned"
    BY <1>1, <1>3 DEF MainWaits
  <2>2. \/ run = "sleep" /\ pause > 0
        \/ run = "drain" /\ looked
    BY <1>1, <1>3, <2>1 DEF RunWaits, cancelled
  <2>3. RunBound'
    BY <1>1, <1>3, <2>2 DEF RunBound
  <2> QED
    BY <1>1, <1>3, <2>1, <2>3
<1>4. CASE main \in {"manager", "health"}
  <2>1. patience > 0
    BY <1>1, <1>4 DEF MainWaits
  <2> QED
    BY <1>1, <1>4, <2>1
<1> QED
  BY <1>2, <1>3, <1>4 DEF Alive

LEMMA NextKeepsTime == TypeInv /\ TimeInv /\ [Next]_vars => TimeInv'
<1> SUFFICES ASSUME TypeInv, TimeInv, [Next]_vars PROVE TimeInv'
  OBVIOUS
<1>1. CASE RunStep \/ WatchCloses
  BY <1>1, RunKeepsTime
<1>2. CASE Signal \/ MainStep
  BY <1>2, MainKeepsTime
<1>3. CASE Alive /\ Tick
  BY <1>3, TickKeepsTime
<1>4. CASE \/ HandlesEvent \/ Resyncs \/ ManagerEnds \/ OutageFlips \/ UNCHANGED vars
           \/ \E w \in Workers : WorkerLoops(w) \/ GetShutDown(w)
           \/ \E w \in Workers, n \in Spcs : TakesKey(w, n) \/ EndsReconcile(w, n)
           \/ \E n \in Spcs : RetryDue(n)
  <2>1. UNCHANGED <<main, patience, elapsed, run, pause, looked>>
    BY <1>4 DEF HandlesEvent, Resyncs, ManagerEnds, OutageFlips, vars, WorkerLoops,
                GetShutDown, TakesKey, EndsReconcile, RetryDue, mainVars, runVars
  <2> QED
    BY <2>1 DEF TimeInv, RunBound
<1> QED
  BY <1>1, <1>2, <1>3, <1>4 DEF Next

\* For any times with the assumed order, main never gives up on Run, and the
\* process is gone after one sleep, one drain and main's two other waits.
THEOREM StopsSoon == Spec => []StopsInTime
<1>1. Init => TimeInv
  BY TimesNat DEF Init, TimeInv, RunBound
<1>2. TypeInv /\ TimeInv => StopsInTime
  BY Numbers, ShutdownLongEnough DEF TimeInv, RunBound, StopsInTime, MainSteps, RunSteps
<1> QED
  BY <1>1, <1>2, TypesHold, NextKeepsTime, PTL DEF Spec
================================================================================
