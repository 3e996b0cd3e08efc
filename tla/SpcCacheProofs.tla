---------------------------- MODULE SpcCacheProofs ----------------------------
(***************************************************************************)
(* The reverse index of the cache, for any SecretProviderClasses and       *)
(* Secrets and any order of Set and Delete: it is always sound, and it is  *)
(* complete for every Secret that only one SPC lists.                      *)
(***************************************************************************)
EXTENDS SpcCache, TLAPS

\* What the cache holds for n is something that may be stored for n.
StoredFromStorable == \A n \in Spcs : objects[n] \in Storable[n] \cup {Absent}

\* Both maps keep the types of the Go maps.
LEMMA CacheTypeCorrect == CacheSpec => []CacheTypeOK
<1> USE DEF CacheTypeOK
<1>1. CacheInit => CacheTypeOK
  BY DEF CacheInit
<1>2. CacheTypeOK /\ [CacheNext]_cacheVars => CacheTypeOK'
  <2> SUFFICES ASSUME CacheTypeOK, [CacheNext]_cacheVars PROVE CacheTypeOK'
    OBVIOUS
  <2>1. ASSUME NEW n \in Spcs, NEW obj \in Storable[n], CacheSet(n, obj)
        PROVE CacheTypeOK'
    BY <2>1, StorableType DEF CacheSet, Reindex
  <2>2. ASSUME NEW n \in Spcs, CacheDelete(n) PROVE CacheTypeOK'
    BY <2>2 DEF CacheDelete, Reindex
  <2>3. CASE UNCHANGED cacheVars
    BY <2>3 DEF cacheVars
  <2> QED
    BY <2>1, <2>2, <2>3 DEF CacheNext
<1> QED
  BY <1>1, <1>2, PTL DEF CacheSpec

LEMMA StoredInvariant == CacheSpec => []StoredFromStorable
<1> USE DEF StoredFromStorable
<1>1. CacheInit => StoredFromStorable
  BY DEF CacheInit
<1>2. CacheTypeOK /\ StoredFromStorable /\ [CacheNext]_cacheVars => StoredFromStorable'
  BY DEF CacheTypeOK, CacheNext, CacheSet, CacheDelete, cacheVars
<1> QED
  BY <1>1, <1>2, CacheTypeCorrect, PTL DEF CacheSpec

\* A write of n leaves every entry that names another SPC either alone or
\* removed, and names n exactly for the Secrets n now lists.
LEMMA WriteKeepsSound ==
  ASSUME CacheTypeOK, IndexSound, NEW n \in Spcs, NEW obj,
         NEW new, new = Listed(obj),
         objects' = [objects EXCEPT ![n] = obj],
         secretToSPC' = Reindex(n, new)
  PROVE  IndexSound'
<1> SUFFICES ASSUME NEW s \in Secrets, secretToSPC'[s] # NoSPC
             PROVE  s \in Listed(objects'[secretToSPC'[s]])
  BY DEF IndexSound, FindSPCForSecret
<1>1. CASE s \in new
  BY <1>1 DEF Reindex, CacheTypeOK
<1>2. CASE s \notin new
  <2>1. s \notin Listed(objects[n]) /\ secretToSPC'[s] = secretToSPC[s]
    BY <1>2 DEF Reindex
  <2>2. s \in Listed(objects[secretToSPC[s]])
    BY <2>1 DEF IndexSound, FindSPCForSecret
  <2>3. secretToSPC[s] \in Spcs /\ secretToSPC[s] # n
    BY <2>1, <2>2 DEF CacheTypeOK
  <2> QED
    BY <2>1, <2>2, <2>3 DEF CacheTypeOK
<1> QED
  BY <1>1, <1>2

\* Set and Delete never leave a dangling index entry, shared Secret names or
\* not: what FindSPCForSecret names is cached and lists the Secret.
THEOREM IndexIsSound == CacheSpec => []IndexSound
<1>1. CacheInit => IndexSound
  BY DEF CacheInit, IndexSound, FindSPCForSecret
<1>2. CacheTypeOK /\ IndexSound /\ [CacheNext]_cacheVars => IndexSound'
  <2> SUFFICES ASSUME CacheTypeOK, IndexSound, [CacheNext]_cacheVars PROVE IndexSound'
    OBVIOUS
  <2>1. ASSUME NEW n \in Spcs, NEW obj \in Storable[n], CacheSet(n, obj)
        PROVE IndexSound'
    BY <2>1, WriteKeepsSound DEF CacheSet
  <2>2. ASSUME NEW n \in Spcs, CacheDelete(n) PROVE IndexSound'
    <3>1. Listed(Absent) = {}
      BY DEF Listed
    <3> QED
      BY <2>2, <3>1, WriteKeepsSound DEF CacheDelete
  <2>3. CASE UNCHANGED cacheVars
    BY <2>3 DEF cacheVars, IndexSound, FindSPCForSecret
  <2> QED
    BY <2>1, <2>2, <2>3 DEF CacheNext
<1> QED
  BY <1>1, <1>2, CacheTypeCorrect, PTL DEF CacheSpec

\* The index is complete for every Secret that only one SPC lists: a write of
\* another SPC never touches its entry.
THEOREM IndexIsComplete == CacheSpec => []IndexComplete
<1>1. CacheInit => IndexComplete
  BY DEF CacheInit, IndexComplete, Listed
<1>2. CacheTypeOK /\ StoredFromStorable /\ IndexComplete /\ [CacheNext]_cacheVars
        => IndexComplete'
  <2> SUFFICES ASSUME CacheTypeOK, StoredFromStorable, IndexComplete, [CacheNext]_cacheVars
               PROVE IndexComplete'
    OBVIOUS
  <2> DEFINE Written(n, obj) == /\ objects' = [objects EXCEPT ![n] = obj]
                                /\ secretToSPC' = Reindex(n, Listed(obj))
  <2>1. ASSUME NEW n \in Spcs, NEW obj \in Storable[n] \cup {Absent}, Written(n, obj)
        PROVE IndexComplete'
    <3> SUFFICES ASSUME NEW s \in Secrets, NEW m \in Spcs,
                        s \in Listed(objects'[m]), Exclusive(s, m)
                 PROVE  secretToSPC'[s] = m
      BY DEF IndexComplete, FindSPCForSecret, Exclusive
    <3>1. CASE m = n
      BY <2>1, <3>1 DEF Reindex, CacheTypeOK
    <3>2. CASE m # n
      <4>1. s \in Listed(objects[m])
        BY <2>1, <3>2 DEF CacheTypeOK
      <4>2. s \notin Listed(obj) /\ s \notin Listed(objects[n])
        BY <3>2 DEF Exclusive, StoredFromStorable, Listed
      <4>3. secretToSPC[s] = m
        BY <4>1 DEF IndexComplete, FindSPCForSecret
      <4> QED
        BY <2>1, <4>2, <4>3 DEF Reindex
    <3> QED
      BY <3>1, <3>2
  <2>2. ASSUME NEW n \in Spcs, NEW obj \in Storable[n], CacheSet(n, obj)
        PROVE IndexComplete'
    BY <2>1, <2>2 DEF CacheSet
  <2>3. ASSUME NEW n \in Spcs, CacheDelete(n) PROVE IndexComplete'
    <3>1. Listed(Absent) = {}
      BY DEF Listed
    <3> QED
      BY <2>1, <2>3, <3>1 DEF CacheDelete
  <2>4. CASE UNCHANGED cacheVars
    BY <2>4 DEF cacheVars, IndexComplete, FindSPCForSecret
  <2> QED
    BY <2>2, <2>3, <2>4 DEF CacheNext
<1> QED
  BY <1>1, <1>2, CacheTypeCorrect, StoredInvariant, PTL DEF CacheSpec
===============================================================================
