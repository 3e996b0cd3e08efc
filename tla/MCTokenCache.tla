------------------------------ MODULE MCTokenCache ------------------------------
(***************************************************************************)
(* A small instance of TokenCache for TLC: two workers and the CRD         *)
(* reconciler, longer and shorter tokens, each due for renewal when a      *)
(* fifth of its own life is left.                                          *)
(***************************************************************************)
EXTENDS TokenCache, TLC

CONSTANTS w1, w2, crd

AzureMargin == [l \in 0 .. MaxLife |-> l \div 5]

CallerSymmetry == Permutations(Callers)
===============================================================================
