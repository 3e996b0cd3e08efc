--------------------------- MODULE BreakerContract ---------------------------
(***************************************************************************)
(* What the controller's Azure circuit breaker promises the workers that   *)
(* share it, without saying how: while it is tripped no call goes out      *)
(* until more than ResetTimeout has passed since the last failure anybody  *)
(* reported, only a failing call trips it, and only letting a call out (or *)
(* an operator) untrips it.  CircuitBreaker.tla implements this.           *)
(***************************************************************************)
EXTENDS Naturals

CONSTANTS Callers,       \* goroutines that may call through the breaker
          ResetTimeout   \* cool-down, in clock ticks

VARIABLES inFlight,      \* callers whose call has gone out and not come back
          tripped,       \* the breaker is refusing calls
          quiet          \* ticks since the last reported failure, saturating

vars == <<inFlight, tripped, quiet>>

Init ==
  /\ inFlight = {}
  /\ tripped = FALSE
  /\ quiet = ResetTimeout + 1

GoOut(c) ==
  /\ c \notin inFlight
  /\ tripped => quiet > ResetTimeout
  /\ inFlight' = inFlight \cup {c}
  /\ tripped' = FALSE
  /\ UNCHANGED quiet

ComeBackFailed(c) ==
  /\ c \in inFlight
  /\ inFlight' = inFlight \ {c}
  /\ quiet' = 0
  /\ tripped' \in {tripped, TRUE}

ComeBackWell(c) ==
  /\ c \in inFlight
  /\ inFlight' = inFlight \ {c}
  /\ UNCHANGED <<tripped, quiet>>

Untrip ==
  /\ tripped
  /\ tripped' = FALSE
  /\ UNCHANGED <<inFlight, quiet>>

Wait ==
  /\ quiet <= ResetTimeout
  /\ quiet' = quiet + 1
  /\ UNCHANGED <<inFlight, tripped>>

Next ==
  \/ \E c \in Callers : GoOut(c) \/ ComeBackFailed(c) \/ ComeBackWell(c)
  \/ Untrip
  \/ Wait

Spec == Init /\ [][Next]_vars
==============================================================================
