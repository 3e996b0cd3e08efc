--------------------------- MODULE MCCircuitBreaker ---------------------------
(***************************************************************************)
(* A small instance of CircuitBreaker for TLC: three callers, a threshold  *)
(* of two, a cool-down of two ticks, one kind of error.                    *)
(***************************************************************************)
EXTENDS CircuitBreaker

CONSTANTS c1, c2, c3, failed
===============================================================================
