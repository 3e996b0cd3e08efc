------------------------------- MODULE MCCrdSync -------------------------------
(***************************************************************************)
(* Small instances of CrdSync for TLC.                                     *)
(***************************************************************************)
EXTENDS CrdSync

CONSTANTS one, two,   \* sources
          x           \* an item
===============================================================================
