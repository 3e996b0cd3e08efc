------------------------------- MODULE SpcNames -------------------------------
(***************************************************************************)
(* The SecretProviderClasses there may be, named by their QueueKey: the    *)
(* keys of the work queue and of the cache.                                *)
(***************************************************************************)
CONSTANT Spcs
===============================================================================
