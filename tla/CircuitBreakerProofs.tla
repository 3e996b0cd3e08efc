------------------------- MODULE CircuitBreakerProofs -------------------------
(***************************************************************************)
(* What holds of the circuit breaker for every number of callers, every    *)
(* threshold and every cool-down: it passes calls only below its           *)
(* threshold, the load of an outage is bounded, and it implements the      *)
(* contract of BreakerContract.                                            *)
(***************************************************************************)
EXTENDS CircuitBreaker, FiniteSetTheorems, TLAPS

\* The fields keep values their Go types hold, in every interleaving of
\* before and after.
THEOREM TypeCorrect == Spec => []TypeOK
<1> USE ThresholdPositive, TimeoutNat DEF TypeOK, Outcomes
<1>1. Init => TypeOK
  BY DEF Init
<1>2. TypeOK /\ [Next]_vars => TypeOK'
  <2> SUFFICES ASSUME TypeOK, [Next]_vars PROVE TypeOK'
    OBVIOUS
  <2>1. ASSUME NEW c \in Callers, Admit(c) PROVE TypeOK'
    BY <2>1 DEF Admit, LetOut, breaker
  <2>2. ASSUME NEW c \in Callers, Reject(c) PROVE TypeOK'
    BY <2>2 DEF Reject, breaker
  <2>3. ASSUME NEW c \in Callers, HalfOpen(c) PROVE TypeOK'
    BY <2>3 DEF HalfOpen, LetOut
  <2>4. ASSUME NEW c \in Callers, Succeed(c) PROVE TypeOK'
    BY <2>4 DEF Succeed
  <2>5. ASSUME NEW c \in Callers, NEW e \in Errors, Fail(c, e) PROVE TypeOK'
    BY <2>5 DEF Fail
  <2>6. CASE Reset
    BY <2>6 DEF Reset
  <2>7. CASE Tick
    BY <2>7 DEF Tick
  <2>8. CASE AzureFlips
    BY <2>8 DEF AzureFlips, breaker
  <2>9. CASE UNCHANGED vars
    BY <2>9 DEF vars
  <2> QED
    BY <2>1, <2>2, <2>3, <2>4, <2>5, <2>6, <2>7, <2>8, <2>9
    DEF Next, Before, After
<1> QED
  BY <1>1, <1>2, PTL DEF Spec

\* A breaker that lets calls out has counted fewer failures than its
\* threshold: only after's own comparison can bring the count there, and it
\* opens the breaker in the same step.
THEOREM PassesBelowThreshold == Spec => []PassingMeansBelowThreshold
<1> USE ThresholdPositive DEF PassingMeansBelowThreshold
<1>1. Init => PassingMeansBelowThreshold
  BY DEF Init
<1>2. TypeOK /\ PassingMeansBelowThreshold /\ [Next]_vars => PassingMeansBelowThreshold'
  <2> SUFFICES ASSUME TypeOK, PassingMeansBelowThreshold, [Next]_vars
               PROVE PassingMeansBelowThreshold'
    OBVIOUS
  <2>1. ASSUME NEW c \in Callers, Before(c) PROVE PassingMeansBelowThreshold'
    BY <2>1 DEF Before, Admit, Reject, HalfOpen, breaker
  <2>2. ASSUME NEW c \in Callers, Succeed(c) PROVE PassingMeansBelowThreshold'
    BY <2>2 DEF Succeed
  <2>3. ASSUME NEW c \in Callers, NEW e \in Errors, Fail(c, e)
        PROVE PassingMeansBelowThreshold'
    BY <2>3 DEF Fail, TypeOK
  <2>4. CASE Reset \/ Tick \/ AzureFlips \/ UNCHANGED vars
    BY <2>4 DEF Reset, Tick, AzureFlips, breaker, vars
  <2> QED
    BY <2>1, <2>2, <2>3, <2>4 DEF Next, After
<1> QED
  BY <1>1, <1>2, TypeCorrect, PTL DEF Spec

----------------------------------------------------------------------------
(* The bound on the load of an outage *)

\* The calls that are out are finitely many, at most one per caller.
LEMMA RunningFinite ==
  /\ IsFiniteSet(Running)
  /\ Cardinality(Running) \in Nat
  /\ Cardinality(Callers) \in Nat
  /\ Cardinality(Running) <= Cardinality(Callers)
<1>1. Running \subseteq Callers
  BY DEF Running
<1> QED
  BY <1>1, CallersFinite, FS_Subset, FS_CardinalityType

\* A call that comes back leaves one call fewer out.
LEMMA ComingBack ==
  ASSUME NEW c \in Callers, call[c] = "running", Running' = Running \ {c}
  PROVE  /\ Cardinality(Running') = Cardinality(Running) - 1
         /\ Cardinality(Running) >= 1
<1>1. c \in Running
  BY DEF Running
<1>2. Cardinality(Running') = Cardinality(Running) - 1
  BY <1>1, RunningFinite, FS_RemoveElement
<1>3. IsFiniteSet(Running \ {c})
  BY RunningFinite, FS_Subset
<1>4. Cardinality(Running \ {c}) \in Nat
  BY <1>3, FS_CardinalityType
<1> QED
  BY <1>2, <1>4, RunningFinite

\* What an opening can cost Azure: counted failures and calls still out never
\* exceed the threshold plus one call per other caller.  Opening happens on a
\* failing call, so at most the other callers are out at that moment; while
\* open nobody is let out, and a call that returns moves from one term of the
\* sum to the other or leaves it.
THEOREM OutageLoadBounded == Spec => []OverloadBounded
<1> USE ThresholdPositive DEF OverloadBounded
<1>1. Init => OverloadBounded
  BY DEF Init
<1>2. TypeOK /\ PassingMeansBelowThreshold /\ OverloadBounded /\ [Next]_vars
        => OverloadBounded'
  <2> SUFFICES ASSUME TypeOK, PassingMeansBelowThreshold, OverloadBounded, [Next]_vars
               PROVE OverloadBounded'
    OBVIOUS
  <2> USE RunningFinite
  <2>1. ASSUME NEW c \in Callers, Admit(c) PROVE OverloadBounded'
    BY <2>1 DEF Admit, breaker
  <2>2. ASSUME NEW c \in Callers, Reject(c) PROVE OverloadBounded'
    <3>1. Running' = Running
      BY <2>2 DEF Reject, Running, TypeOK
    <3> QED
      BY <2>2, <3>1 DEF Reject, breaker
  <2>3. ASSUME NEW c \in Callers, HalfOpen(c) PROVE OverloadBounded'
    BY <2>3 DEF HalfOpen
  <2>4. ASSUME NEW c \in Callers, Succeed(c) PROVE OverloadBounded'
    <3>1. Running' = Running \ {c}
      BY <2>4 DEF Succeed, Running, TypeOK
    <3>2. Cardinality(Running') = Cardinality(Running) - 1
      BY <2>4, <3>1, ComingBack DEF Succeed
    <3> QED
      BY <2>4, <3>2 DEF Succeed, TypeOK
  <2>5. ASSUME NEW c \in Callers, NEW e \in Errors, Fail(c, e) PROVE OverloadBounded'
    <3>1. Running' = Running \ {c}
      BY <2>5, ErrorsAreNotOutcomes DEF Fail, Running, TypeOK, Outcomes
    <3>2. Cardinality(Running') = Cardinality(Running) - 1
      BY <2>5, <3>1, ComingBack DEF Fail
    <3> QED
      BY <2>5, <3>2 DEF Fail, TypeOK, PassingMeansBelowThreshold
  <2>6. CASE Reset
    BY <2>6 DEF Reset
  <2>7. CASE Tick \/ AzureFlips \/ UNCHANGED vars
    <3>1. Running' = Running
      BY <2>7 DEF Tick, AzureFlips, vars, Running
    <3> QED
      BY <2>7, <3>1 DEF Tick, AzureFlips, breaker, vars
  <2> QED
    BY <2>1, <2>2, <2>3, <2>4, <2>5, <2>6, <2>7 DEF Next, Before, After
<1> QED
  BY <1>1, <1>2, TypeCorrect, PassesBelowThreshold, PTL DEF Spec

----------------------------------------------------------------------------
(* The contract *)

\* The breaker implements BreakerContract: every step of before, fn and after
\* is a step the contract allows, or invisible to it.
THEOREM BreakerImplementsContract == Spec => ImplementsContract
<1>1. Init => Contract!Init
  BY DEF Init, Contract!Init, Running
<1>2. TypeOK /\ [Next]_vars => [Contract!Next]_(Contract!vars)
  <2> SUFFICES ASSUME TypeOK, [Next]_vars PROVE [Contract!Next]_(Contract!vars)
    OBVIOUS
  <2> USE DEF Contract!Next, Contract!vars
  <2>1. ASSUME NEW c \in Callers, Admit(c) \/ HalfOpen(c)
        PROVE Contract!GoOut(c)
    <3>1. Running' = Running \cup {c} /\ c \notin Running
      BY <2>1 DEF Admit, HalfOpen, LetOut, Running, TypeOK
    <3> QED
      BY <2>1, <3>1 DEF Admit, HalfOpen, LetOut, breaker, Contract!GoOut, TypeOK
  <2>2. ASSUME NEW c \in Callers, Reject(c) PROVE UNCHANGED Contract!vars
    <3>1. Running' = Running
      BY <2>2 DEF Reject, Running, TypeOK
    <3> QED
      BY <2>2, <3>1 DEF Reject, breaker
  <2>3. ASSUME NEW c \in Callers, Succeed(c) PROVE Contract!ComeBackWell(c)
    <3>1. Running' = Running \ {c} /\ c \in Running
      BY <2>3 DEF Succeed, Running, TypeOK
    <3> QED
      BY <2>3, <3>1 DEF Succeed, Contract!ComeBackWell, TypeOK
  <2>4. ASSUME NEW c \in Callers, NEW e \in Errors, Fail(c, e)
        PROVE Contract!ComeBackFailed(c)
    <3>1. Running' = Running \ {c} /\ c \in Running
      BY <2>4, ErrorsAreNotOutcomes DEF Fail, Running, TypeOK, Outcomes
    <3> QED
      BY <2>4, <3>1 DEF Fail, Contract!ComeBackFailed, TypeOK
  <2>5. CASE Reset
    <3>1. Running' = Running
      BY <2>5 DEF Reset, Running
    <3>2. CASE state = "open"
      BY <2>5, <3>1, <3>2 DEF Reset, Contract!Untrip
    <3>3. CASE state # "open"
      BY <2>5, <3>1, <3>3 DEF Reset
    <3> QED
      BY <3>2, <3>3
  <2>6. CASE Tick
    <3>1. Running' = Running
      BY <2>6 DEF Tick, Running
    <3> QED
      BY <2>6, <3>1 DEF Tick, Contract!Wait
  <2>7. CASE AzureFlips \/ UNCHANGED vars
    <3>1. Running' = Running
      BY <2>7 DEF AzureFlips, vars, Running
    <3> QED
      BY <2>7, <3>1 DEF AzureFlips, breaker, vars
  <2> QED
    BY <2>1, <2>2, <2>3, <2>4, <2>5, <2>6, <2>7 DEF Next, Before, After
<1> QED
  BY <1>1, <1>2, TypeCorrect, PTL DEF Spec, ImplementsContract, Contract!Spec
===============================================================================
