---------------------------- MODULE CircuitBreaker ----------------------------
(***************************************************************************)
(* internal/circuitbreaker/circuitbreaker.go: the one breaker that every   *)
(* worker and the AzureKeyVaultSync reconciler share.  Call runs before,   *)
(* then fn without the lock, then after: the state may change arbitrarily  *)
(* between a caller's before and its after.                                *)
(*                                                                         *)
(* Time is the age of lastFailTime, saturating one tick past resetTimeout: *)
(* before compares it with resetTimeout and nothing else reads the clock.  *)
(***************************************************************************)
EXTENDS Naturals, FiniteSets

CONSTANTS Callers,        \* goroutines that call through the breaker
          MaxFailures,    \* AZURE_CIRCUIT_BREAKER_THRESHOLD
          ResetTimeout,   \* AZURE_CIRCUIT_BREAKER_TIMEOUT, in ticks
          Errors          \* what fn may return; no kind is treated differently

ASSUME CallersFinite == IsFiniteSet(Callers)
ASSUME ThresholdPositive == MaxFailures \in Nat \ {0}
ASSUME TimeoutNat == ResetTimeout \in Nat

Outcomes == {"idle", "running", "rejected", "ok"}

ASSUME ErrorsAreNotOutcomes == Errors \cap Outcomes = {}

VARIABLES state,       \* "closed", "open" or "half-open"
          failures,    \* failures counted since the last reset of the count
          sinceFail,   \* clock.Since(lastFailTime), saturating
          call,        \* each caller's current or last Call: how it stands
          azure        \* what the environment does to calls: "up" or "down"

breaker == <<state, failures, sinceFail>>
vars == <<state, failures, sinceFail, call, azure>>

Running == {c \in Callers : call[c] = "running"}

\* The zero lastFailTime of a new breaker is longer ago than any timeout.
Init ==
  /\ state = "closed"
  /\ failures = 0
  /\ sinceFail = ResetTimeout + 1
  /\ call = [c \in Callers |-> "idle"]
  /\ azure \in {"up", "down"}

----------------------------------------------------------------------------
(* before *)

LetOut(c) == call' = [call EXCEPT ![c] = "running"]

\* before returns nil at once in the closed and in the half-open state.
Admit(c) ==
  /\ call[c] # "running"
  /\ state # "open"
  /\ LetOut(c)
  /\ UNCHANGED <<breaker, azure>>

\* Open and still cooling down: ErrCircuitOpen, nothing goes out.
Reject(c) ==
  /\ call[c] # "running"
  /\ state = "open"
  /\ sinceFail <= ResetTimeout
  /\ call' = [call EXCEPT ![c] = "rejected"]
  /\ UNCHANGED <<breaker, azure>>

Mut_HalfOpenNoReset(c) ==
  /\ call[c] # "running"
  /\ state = "open"
  /\ sinceFail > ResetTimeout
  /\ state' = "half-open"
  /\ LetOut(c)
  /\ UNCHANGED <<failures, sinceFail, azure>>

Mut_HalfOpenEarly(c) ==
  /\ call[c] # "running"
  /\ state = "open"
  /\ sinceFail >= ResetTimeout
  /\ state' = "half-open"
  /\ failures' = 0
  /\ LetOut(c)
  /\ UNCHANGED <<sinceFail, azure>>

\* Cooled down: the first caller to come by turns the breaker half-open.
HalfOpen(c) ==
  /\ call[c] # "running"
  /\ state = "open"
  /\ sinceFail > ResetTimeout
  /\ state' = "half-open"
  /\ failures' = 0
  /\ LetOut(c)
  /\ UNCHANGED <<sinceFail, azure>>

----------------------------------------------------------------------------
(* fn returns and after records its outcome *)

Mut_FailOverThreshold(c, e) ==
  /\ call[c] = "running"
  /\ azure = "down"
  /\ call' = [call EXCEPT ![c] = e]
  /\ failures' = failures + 1
  /\ sinceFail' = 0
  /\ state' = IF failures' > MaxFailures THEN "open" ELSE state
  /\ UNCHANGED azure

Mut_FailUncounted(c, e) ==
  /\ call[c] = "running"
  /\ azure = "down"
  /\ call' = [call EXCEPT ![c] = e]
  /\ sinceFail' = 0
  /\ state' = IF failures >= MaxFailures THEN "open" ELSE state
  /\ UNCHANGED <<failures, azure>>

\* Every error counts, whatever its kind, and restarts the cool-down even
\* when the breaker is open already.
Fail(c, e) ==
  /\ call[c] = "running"
  /\ azure = "down"
  /\ call' = [call EXCEPT ![c] = e]
  /\ failures' = failures + 1
  /\ sinceFail' = 0
  /\ state' = IF failures' >= MaxFailures THEN "open" ELSE state
  /\ UNCHANGED azure

Mut_SucceedDecrements(c) ==
  /\ call[c] = "running"
  /\ azure = "up"
  /\ call' = [call EXCEPT ![c] = "ok"]
  /\ state' = IF state = "half-open" THEN "closed" ELSE state
  /\ failures' = failures - 1
  /\ UNCHANGED <<sinceFail, azure>>

Mut_SucceedStaysHalfOpen(c) ==
  /\ call[c] = "running"
  /\ azure = "up"
  /\ call' = [call EXCEPT ![c] = "ok"]
  /\ failures' = 0
  /\ UNCHANGED <<state, sinceFail, azure>>

\* A success clears the count in every state and closes a half-open breaker,
\* whichever state its own call was let out in.
Succeed(c) ==
  /\ call[c] = "running"
  /\ azure = "up"
  /\ call' = [call EXCEPT ![c] = "ok"]
  /\ state' = IF state = "half-open" THEN "closed" ELSE state
  /\ failures' = 0
  /\ UNCHANGED <<sinceFail, azure>>

----------------------------------------------------------------------------
(* the operator, the clock and Azure *)

\* Reset: an administrative override; it leaves lastFailTime alone.
Reset ==
  /\ state' = "closed"
  /\ failures' = 0
  /\ UNCHANGED <<sinceFail, call, azure>>

Tick ==
  /\ sinceFail <= ResetTimeout
  /\ sinceFail' = sinceFail + 1
  /\ UNCHANGED <<state, failures, call, azure>>

AzureFlips ==
  /\ azure' \in {"up", "down"} \ {azure}
  /\ UNCHANGED <<breaker, call>>

Before(c) == Admit(c) \/ Reject(c) \/ HalfOpen(c)
After(c) == Succeed(c) \/ \E e \in Errors : Fail(c, e)

Next ==
  \/ \E c \in Callers : Before(c) \/ After(c)
  \/ Tick
  \/ AzureFlips
  \/ Reset

Spec == Init /\ [][Next]_vars

\* Time passes, fn returns (the Azure SDK bounds its own tries), and somebody
\* keeps calling: the periodic resync queues every resource again and again.
\* No single caller is promised another turn.
FairSpec ==
  /\ Spec
  /\ WF_vars(Tick)
  /\ WF_vars(\E c \in Callers : Admit(c))
  /\ WF_vars(\E c \in Callers : HalfOpen(c))
  /\ \A c \in Callers : WF_vars(After(c))

----------------------------------------------------------------------------
(* Properties *)

\* Every variable holds a value the Go fields can hold; failures never goes
\* below zero.
TypeOK ==
  /\ state \in {"closed", "open", "half-open"}
  /\ failures \in Nat
  /\ sinceFail \in 0 .. ResetTimeout + 1
  /\ call \in [Callers -> Outcomes \cup Errors]
  /\ azure \in {"up", "down"}

\* A breaker that lets calls out is always below its threshold: no order of
\* late failures, late successes and half-open transitions leaves it passing
\* calls with a full count.  (before and after, the count and the state.)
PassingMeansBelowThreshold == state # "open" => failures < MaxFailures

\* The load an outage can put on Azure per opening is bounded: what has been
\* counted plus what is still out never exceeds the threshold plus one call
\* per other caller.  Calls already out when the breaker opened still return
\* and still count.
OverloadBounded ==
  state = "open" =>
    failures + Cardinality(Running) <= MaxFailures + Cardinality(Callers) - 1

\* The breaker gives what BreakerContract promises: seen from outside it is
\* tripped exactly while open.
Contract == INSTANCE BreakerContract
              WITH inFlight <- Running, tripped <- (state = "open"), quiet <- sinceFail
ImplementsContract == Contract!Spec

\* An Azure that recovers for good is used again for good: the breaker ends
\* closed and stays closed, whatever calls were out when Azure came back.
RecoversAfterOutage == <>[](azure = "up") => <>[](state = "closed" /\ failures = 0)

\* An outage that lasts keeps tripping the breaker, unless it is Reset for
\* ever: it does not stay half-open passing failing calls.
ShedsDuringOutage ==
  <>[](azure = "down") /\ <>[][~Reset]_vars => []<>(state = "open")
===============================================================================
