------------------------------- MODULE SpcCache -------------------------------
(***************************************************************************)
(* internal/cache/cache.go: the SecretProviderClasses that have been       *)
(* synced, and the reverse index from a Kubernetes Secret's name to the    *)
(* SecretProviderClass that creates it.  Every method holds the mutex from *)
(* beginning to end, so each is one step; workers, the watch loop and the  *)
(* Secret watcher call them in any order.                                  *)
(*                                                                         *)
(* Keys are "namespace/name" and nothing crosses a namespace, so the model *)
(* has one namespace.  A stored object is the set of Secret names in its   *)
(* spec.secretObjects: the cache reads nothing else of it.                 *)
(***************************************************************************)
EXTENDS SpcNames

CONSTANTS Secrets,    \* names of Kubernetes Secrets
          Storable,   \* Storable[n]: what may be stored for n
          Absent,     \* objects[n] = Absent: no entry for n
          NilObject,  \* an entry that holds a nil pointer
          NoSPC       \* secretToSPC[s] = NoSPC: no entry for s

ASSUME StorableType ==
  /\ DOMAIN Storable = Spcs
  /\ \A n \in Spcs : \A o \in Storable[n] : o = NilObject \/ o \subseteq Secrets
ASSUME NoObject == \A listed \in SUBSET Secrets : listed \notin {Absent, NilObject}
ASSUME NoName == NoSPC \notin Spcs

VARIABLES objects, secretToSPC

cacheVars == <<objects, secretToSPC>>

CacheInit ==
  /\ objects = [n \in Spcs |-> Absent]
  /\ secretToSPC = [s \in Secrets |-> NoSPC]

Has(n) == objects[n] # Absent

\* The Secrets a cached value lists; a missing or a nil one lists none.
Listed(o) == IF o \in {Absent, NilObject} THEN {} ELSE o

Mut_Reindex_KeepOld(n, new) ==
  [s \in Secrets |-> IF s \in new THEN n ELSE secretToSPC[s]]

Mut_Reindex_DropLast(n, new) ==
  [s \in Secrets |-> IF s \in Listed(objects[n]) THEN NoSPC
                     ELSE IF s \in new THEN n ELSE secretToSPC[s]]

\* Both writers first drop the entry of every Secret the old object lists,
\* whoever that entry names, and then index what the new one lists.
Reindex(n, new) ==
  [s \in Secrets |-> IF s \in new THEN n
                     ELSE IF s \in Listed(objects[n]) THEN NoSPC
                     ELSE secretToSPC[s]]

CacheSet(n, obj) ==
  /\ secretToSPC' = Reindex(n, Listed(obj))
  /\ objects' = [objects EXCEPT ![n] = obj]

CacheDelete(n) ==
  /\ secretToSPC' = Reindex(n, {})
  /\ objects' = [objects EXCEPT ![n] = Absent]

\* The empty string when the index has no entry.
FindSPCForSecret(s) == secretToSPC[s]

CacheNext ==
  \E n \in Spcs :
    \/ \E obj \in Storable[n] : CacheSet(n, obj)
    \/ CacheDelete(n)

CacheSpec == CacheInit /\ [][CacheNext]_cacheVars

----------------------------------------------------------------------------
(* Properties *)

\* Both maps hold keys and values of the Go maps' types.
CacheTypeOK ==
  /\ objects \in [Spcs -> (SUBSET Secrets) \cup {Absent, NilObject}]
  /\ secretToSPC \in [Secrets -> Spcs \cup {NoSPC}]

\* The index never points at an SPC that is gone or no longer lists the
\* Secret: whatever FindSPCForSecret answers is cached and creates s.
IndexSound ==
  \A s \in Secrets :
    FindSPCForSecret(s) # NoSPC => s \in Listed(objects[FindSPCForSecret(s)])

\* FindSPCForSecret "returns the name of the SecretProviderClass that manages
\* a secret": a Secret that a cached SPC lists, and no other SPC ever lists,
\* is found, and with that SPC's name.  (Of Secrets that two SPCs list this is
\* not so: replacing one SPC drops the entry the other relies on.)
Exclusive(s, n) ==
  \A m \in Spcs \ {n} : \A obj \in Storable[m] : s \notin Listed(obj)

IndexComplete ==
  \A s \in Secrets, n \in Spcs :
    s \in Listed(objects[n]) /\ Exclusive(s, n) => FindSPCForSecret(s) = n
===============================================================================
