------------------------------ MODULE MCSpcCache ------------------------------
(***************************************************************************)
(* An instance of SpcCache: two SPCs that share some of their Secrets, as  *)
(* two SPCs that read one vault do, and have one each of their own.        *)
(***************************************************************************)
EXTENDS SpcCache, TLC

CONSTANTS a, b, own_a, s1, s2, own_b

Overlapping ==
  (a :> (SUBSET {own_a, s1, s2}) \cup {NilObject}) @@ (b :> SUBSET {s1, s2, own_b})
===============================================================================
