------------------------------- MODULE WorkQueue -------------------------------
(***************************************************************************)
(* client-go's rate-limiting work queue, as the controller uses it         *)
(* (controller.go builds it with NewTypedRateLimitingQueue).  External     *)
(* code: modelled from the calls the controller makes and the documented   *)
(* behaviour of Add, Get, Done, AddRateLimited, NumRequeues and Forget.    *)
(*                                                                         *)
(* A key waits to be handed out iff it is dirty and not processing; which  *)
(* of the waiting keys comes first is left open.                           *)
(***************************************************************************)
EXTENDS SpcNames, Naturals

VARIABLES dirty,         \* keys that need processing
          processing,    \* keys handed out and not yet Done
          delayed,       \* keys AddRateLimited holds back
          requeues       \* NumRequeues of each key

queueVars == <<dirty, processing, delayed, requeues>>

QueueInit ==
  /\ dirty = {}
  /\ processing = {}
  /\ delayed = {}
  /\ requeues = [n \in Spcs |-> 0]

\* Add each of ns: a key that is dirty already is not added twice.
Add(ns) ==
  /\ dirty' = dirty \cup ns
  /\ UNCHANGED <<processing, delayed, requeues>>

\* A key that is being processed stays in the queue until its Done.
Get(n) ==
  /\ n \in dirty \ processing
  /\ dirty' = dirty \ {n}
  /\ processing' = processing \cup {n}
  /\ UNCHANGED <<delayed, requeues>>

Done(n) == processing' = processing \ {n} /\ UNCHANGED dirty

AddRateLimited(n) ==
  /\ delayed' = delayed \cup {n}
  /\ requeues' = [requeues EXCEPT ![n] = @ + 1]

Forget(n) ==
  /\ requeues' = [requeues EXCEPT ![n] = 0]
  /\ UNCHANGED delayed

\* The back-off of n is over: the delaying queue calls Add.
DelayElapses(n) ==
  /\ n \in delayed
  /\ delayed' = delayed \ {n}
  /\ dirty' = dirty \cup {n}
  /\ UNCHANGED <<processing, requeues>>

QueueTypeOK ==
  /\ dirty \subseteq Spcs
  /\ processing \subseteq Spcs
  /\ delayed \subseteq Spcs
  /\ requeues \in [Spcs -> Nat]
================================================================================
