--------------------------- MODULE MCSyncController ---------------------------
(***************************************************************************)
(* Small instances of SyncController for TLC.                              *)
(***************************************************************************)
EXTENDS SyncController

CONSTANTS a, b,     \* SecretProviderClasses
          w1, w2,   \* workers
          x, y      \* vault names

Item(n, k) == [name |-> n, kind |-> k]

\* A secret and a certificate of different names.
SecretAndCert == {Item(x, "secret"), Item(y, "cert")}

\* One secret.
OneSecret == {Item(x, "secret")}

\* A secret and a certificate of one name.
NamesakeItems == {Item(x, "secret"), Item(x, "cert")}

AnySecrets == [n \in Spcs |-> SUBSET Secrets]

Symmetric == Permutations(Spcs) \cup Permutations(Workers)
===============================================================================
