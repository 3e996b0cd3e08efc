--------------------------- MODULE MCSecretMetadata ---------------------------
(***************************************************************************)
(* Small instances of SecretMetadata for TLC.                              *)
(***************************************************************************)
EXTENDS SecretMetadata

CONSTANTS team,     \* an annotation
          app,      \* a label
          v1, v2    \* values
===============================================================================
