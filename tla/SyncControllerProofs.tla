------------------------- MODULE SyncControllerProofs -------------------------
(***************************************************************************)
(* The annotation-mode controller for any number of workers, resources and *)
(* vault items: its state is well-formed, retries are bounded, no two      *)
(* workers ever reconcile the same SecretProviderClass at once, what they  *)
(* write comes from the vault, and the cache catches up with it.           *)
(***************************************************************************)
EXTENDS SyncController, SpcCacheProofs, FiniteSetTheorems, TLAPS

\* A job is either idle or a complete record, and its step says which.
LEMMA JobOf ==
  ASSUME JobsTypeOK, NEW w \in Workers
  PROVE  /\ job[w].step # "idle" => job[w] \in JobRecord /\ Busy(w)
         /\ Busy(w) => job[w] \in JobRecord
<1>1. \A r \in JobRecord : r.step # "idle"
  BY DEF JobRecord, Steps
<1> QED
  BY <1>1 DEF JobsTypeOK, Busy, Idle

\* Replacing one worker's job by a well-formed one keeps the jobs well-formed.
LEMMA NewJob ==
  ASSUME JobsTypeOK, NEW w \in Workers, NEW j \in JobRecord \cup {Idle},
         job' = [job EXCEPT ![w] = j],
         j.step \in {"secrets", "certs", "patch", "store"} => j.obj # Gone,
         j.step = "certs" => DOMAIN j.listed = SecretItems,
         j.step = "patch" => DOMAIN j.listed = Items
  PROVE  JobsTypeOK'
BY DEF JobsTypeOK

\* Moving on to a step that needs nothing new.
LEMMA MovesType ==
  ASSUME JobsTypeOK, NEW w \in Workers, job[w].step # "idle",
         NEW to \in {"forget", "failed", "done", "store"}, Moves(w, to),
         to = "store" => job[w].step = "patch"
  PROVE  JobsTypeOK'
<1> DEFINE j == [job[w] EXCEPT !.step = to]
<1>1. job[w] \in JobRecord
  BY JobOf
<1>2. j \in JobRecord /\ j.step = to /\ j.obj = job[w].obj
  BY <1>1 DEF JobRecord, Steps
<1>3. job' = [job EXCEPT ![w] = j]
  BY DEF Moves
<1>4. to = "store" => j.obj # Gone
  BY <1>2 DEF JobsTypeOK
<1> HIDE DEF j
<1> QED
  BY <1>2, <1>3, <1>4, NewJob

\* A worker that becomes idle.
LEMMA IdleType ==
  ASSUME JobsTypeOK, NEW w \in Workers, job' = [job EXCEPT ![w] = Idle]
  PROVE  JobsTypeOK'
<1>1. Idle.step = "idle"
  BY DEF Idle
<1> QED
  BY <1>1, NewJob

\* The watch stays a sequence of events, whatever is emitted.
LEMMA EmitType ==
  ASSUME WorldTypeOK, NEW e \in EventRecord, Emit(e)
  PROVE  events' \in Seq(EventRecord) /\ watching' \in BOOLEAN
<1>1. events \in Seq(EventRecord)
  BY DEF WorldTypeOK
<1>2. watching \in BOOLEAN
  BY DEF WorldTypeOK
<1>3. Append(events, e) \in Seq(EventRecord) /\ << >> \in Seq(EventRecord)
  BY <1>1
<1>4. events' \in {events, Append(events, e), << >>} /\ watching' \in {watching, FALSE}
  BY DEF Emit, watch
<1>5. events' \in Seq(EventRecord)
  BY <1>1, <1>3, <1>4
<1>6. watching' \in BOOLEAN
  BY <1>2, <1>4
<1> QED
  BY <1>5, <1>6

LEMMA EventType ==
  ASSUME NEW n \in Spcs, NEW type \in {"ADDED", "MODIFIED", "DELETED"}, NEW s
  PROVE  Event(type, n, s) \in EventRecord
BY DEF Event, EventRecord

\* A patched object is an object.
LEMMA PatchedType ==
  ASSUME NEW s \in SpcRecord, NEW obj \in SpcRecord,
         NEW tags \in UNION {[D -> Tags] : D \in SUBSET Items}
  PROVE  Patched(s, obj, tags) \in SpcRecord
<1>1. /\ WantedObjects(tags) \subseteq Items
      /\ WantedSecretObjects(tags) \subseteq Items
      /\ WantedNotes(tags) \subseteq Items
  BY DEF WantedObjects, WantedSecretObjects, WantedNotes
<1> DEFINE differ == CompareSecretObjects(obj.secretObjects, WantedSecretObjects(tags))
<1> HIDE DEF differ
<1>2. Patched(s, obj, tags)
        = [s EXCEPT !.objects = WantedObjects(tags),
                    !.secretObjects = IF differ THEN WantedSecretObjects(tags) ELSE s.secretObjects,
                    !.notes = s.notes \cup WantedNotes(tags)]
  BY DEF Patched, differ, SpcRecord
<1> QED
  BY <1>1, <1>2 DEF SpcRecord

\* One entry of the cache written with Secrets, or removed.
LEMMA CacheWriteType ==
  ASSUME CacheTypeOK, NEW n \in Spcs
  PROVE  /\ CacheDelete(n) => CacheTypeOK'
         /\ \A obj \in SUBSET Secrets : CacheSet(n, obj) => CacheTypeOK'
BY DEF CacheTypeOK, CacheDelete, CacheSet, Reindex, Listed

\* Keys added to the queue.
LEMMA AddType ==
  ASSUME QueueTypeOK, RetriesBounded, NEW ns \in SUBSET Spcs, Add(ns)
  PROVE  QueueTypeOK' /\ RetriesBounded'
BY DEF QueueTypeOK, RetriesBounded, Add

\* What nobody touches keeps its type.
LEMMA FrameType ==
  /\ WorldTypeOK /\ UNCHANGED <<spc, world, watch, dropped>> => WorldTypeOK'
  /\ JobsTypeOK /\ UNCHANGED job => JobsTypeOK'
  /\ QueueTypeOK /\ RetriesBounded /\ UNCHANGED queueVars => QueueTypeOK' /\ RetriesBounded'
  /\ CacheTypeOK /\ UNCHANGED cacheVars => CacheTypeOK'
<1>1. WorldTypeOK /\ UNCHANGED <<spc, world, watch, dropped>> => WorldTypeOK'
  BY DEF WorldTypeOK, world, watch
<1>2. JobsTypeOK /\ UNCHANGED job => JobsTypeOK'
  BY DEF JobsTypeOK
<1>3. QueueTypeOK /\ RetriesBounded /\ UNCHANGED queueVars => QueueTypeOK' /\ RetriesBounded'
  BY DEF QueueTypeOK, RetriesBounded, queueVars
<1>4. CacheTypeOK /\ UNCHANGED cacheVars => CacheTypeOK'
  BY DEF CacheTypeOK, cacheVars
<1> QED
  BY <1>1, <1>2, <1>3, <1>4

----------------------------------------------------------------------------
(* Type correctness, one lemma per part of the next-state relation *)

LEMMA InitType == Init => TypeOK
<1> SUFFICES ASSUME Init PROVE TypeOK
  OBVIOUS
<1>1. NewSpc("ok") \in SpcRecord
  BY DEF NewSpc, SpcRecord, Modes
<1>2. << >> \in Seq(EventRecord)
  OBVIOUS
<1>3. WorldTypeOK
  <2>1. spc \in [Spcs -> SpcRecord \cup {Gone}]
    BY <1>1 DEF Init
  <2>2. events \in Seq(EventRecord)
    BY <1>2 DEF Init
  <2>3. edits \in 0 .. MaxEdits
    BY EditsNat DEF Init
  <2>4. outage \in BOOLEAN /\ watching \in BOOLEAN
    BY DEF Init
  <2>5. vault \in [Items -> Tags] /\ dropped \subseteq Spcs
    BY DEF Init
  <2>6. seen \in [Spcs -> [Items -> SUBSET Tags]]
    BY <2>5 DEF Init
  <2> QED
    BY <2>1, <2>2, <2>3, <2>4, <2>5, <2>6 DEF WorldTypeOK
<1>4. JobsTypeOK
  BY DEF Init, JobsTypeOK, Idle
<1>5. QueueTypeOK /\ RetriesBounded
  BY RetriesNat DEF Init, QueueInit, QueueTypeOK, RetriesBounded
<1>6. CacheTypeOK
  BY DEF Init, CacheInit, CacheTypeOK
<1> QED
  BY <1>3, <1>4, <1>5, <1>6 DEF TypeOK

LEMMA EnvironmentType == TypeOK /\ Environment => TypeOK'
<1> SUFFICES ASSUME TypeOK, Environment PROVE TypeOK'
  OBVIOUS
<1> USE FrameType DEF TypeOK
<1>1. ASSUME NEW n \in Spcs, NEW type \in {"ADDED", "MODIFIED", "DELETED"},
             NEW s \in SpcRecord \cup {Gone}, UserWrites(n, type, s)
      PROVE  TypeOK'
  <2>1. events' \in Seq(EventRecord) /\ watching' \in BOOLEAN
    BY <1>1, EventType, EmitType DEF UserWrites
  <2>2. spc' \in [Spcs -> SpcRecord \cup {Gone}]
    BY <1>1 DEF UserWrites, WorldTypeOK
  <2>3. edits' \in 0 .. MaxEdits /\ UNCHANGED <<vault, outage, seen, dropped>>
    BY <1>1, EditsNat DEF UserWrites, Edit, WorldTypeOK
  <2>4. WorldTypeOK'
    BY <2>1, <2>2, <2>3 DEF WorldTypeOK
  <2> QED
    BY <1>1, <2>4 DEF UserWrites
<1>2. ASSUME NEW n \in Spcs, UserCreates(n) \/ UserSetsMode(n) \/ UserResets(n) \/ UserDeletes(n)
      PROVE  TypeOK'
  <2>1. \A m \in Modes : NewSpc(m) \in SpcRecord
    BY DEF NewSpc, SpcRecord
  <2>2. Exists(n) => spc[n] \in SpcRecord
    BY DEF Exists, WorldTypeOK
  <2>3. Exists(n) => /\ \A m \in Modes : [spc[n] EXCEPT !.mode = m] \in SpcRecord
                     /\ [spc[n] EXCEPT !.objects = {}, !.secretObjects = {}] \in SpcRecord
    BY <2>2 DEF SpcRecord
  <2>4. CASE UserCreates(n)
    BY <1>1, <2>1, <2>4 DEF UserCreates
  <2>5. CASE UserSetsMode(n)
    BY <1>1, <2>3, <2>5 DEF UserSetsMode
  <2>6. CASE UserResets(n)
    BY <1>1, <2>3, <2>6 DEF UserResets
  <2>7. CASE UserDeletes(n)
    BY <1>1, <2>7 DEF UserDeletes
  <2> QED
    BY <1>2, <2>4, <2>5, <2>6, <2>7
<1>3. ASSUME NEW i \in Items, VaultChanges(i) PROVE TypeOK'
  <2>1. PICK t \in Tags : /\ vault' = [vault EXCEPT ![i] = t]
                          /\ seen' = [n \in Spcs |-> [seen[n] EXCEPT ![i] = @ \cup {t}]]
    BY <1>3 DEF VaultChanges
  <2>2. vault' \in [Items -> Tags] /\ seen' \in [Spcs -> [Items -> SUBSET Tags]]
    BY <2>1 DEF WorldTypeOK
  <2>3. WorldTypeOK'
    BY <1>3, <2>2, EditsNat DEF VaultChanges, Edit, WorldTypeOK, watch
  <2> QED
    BY <1>3, <2>3 DEF VaultChanges
<1>4. CASE OutageFlips
  BY <1>4 DEF OutageFlips, WorldTypeOK, watch
<1>5. CASE WatchCloses
  <2>1. << >> \in Seq(EventRecord)
    OBVIOUS
  <2>2. WorldTypeOK'
    BY <1>5, <2>1 DEF WatchCloses, WorldTypeOK, world
  <2> QED
    BY <1>5, <2>2 DEF WatchCloses
<1>6. CASE Restart
  <2>1. << >> \in Seq(EventRecord)
    OBVIOUS
  <2>2. WorldTypeOK'
    BY <1>6, <2>1 DEF Restart, WorldTypeOK, world
  <2>3. JobsTypeOK'
    BY <1>6 DEF Restart, JobsTypeOK, Idle
  <2>4. QueueTypeOK' /\ RetriesBounded'
    BY <1>6, RetriesNat DEF Restart, QueueTypeOK, RetriesBounded
  <2>5. CacheTypeOK'
    BY <1>6 DEF Restart, CacheTypeOK
  <2> QED
    BY <2>2, <2>3, <2>4, <2>5
<1> QED
  BY <1>2, <1>3, <1>4, <1>5, <1>6 DEF Environment

LEMMA WatchLoopType == TypeOK /\ (WatchConnects \/ HandleEvent \/ EnqueueAll) => TypeOK'
<1> SUFFICES ASSUME TypeOK, WatchConnects \/ HandleEvent \/ EnqueueAll PROVE TypeOK'
  OBVIOUS
<1> USE FrameType DEF TypeOK
<1>1. CASE WatchConnects
  <2> DEFINE there == {n \in Spcs : Exists(n)}
  <2>1. PICK q \in SetToSeqs(there) :
          events' = [k \in DOMAIN q |-> Event("ADDED", q[k], spc[q[k]])]
    BY <1>1 DEF WatchConnects
  <2>2. Cardinality(there) \in Nat
    BY SpcsFinite, FS_Subset, FS_CardinalityType
  <2>3. q \in [1 .. Cardinality(there) -> Spcs]
    BY <2>1 DEF SetToSeqs
  <2> HIDE DEF there
  <2>4. \A k \in 1 .. Cardinality(there) : Event("ADDED", q[k], spc[q[k]]) \in EventRecord
    BY <2>3, EventType
  <2>5. events' \in [1 .. Cardinality(there) -> EventRecord]
    BY <2>1, <2>3, <2>4
  <2>6. events' \in Seq(EventRecord)
    BY <2>2, <2>5
  <2>7. WorldTypeOK'
    BY <1>1, <2>6 DEF WatchConnects, WorldTypeOK, world
  <2> QED
    BY <1>1, <2>7 DEF WatchConnects
<1>2. CASE HandleEvent
  <2>1. events \in Seq(EventRecord) /\ events # << >>
    BY <1>2 DEF HandleEvent, WorldTypeOK
  <2>2. Head(events) \in EventRecord /\ Tail(events) \in Seq(EventRecord)
    BY <2>1
  <2>3. Head(events).name \in Spcs
    BY <2>2 DEF EventRecord
  <2>4. WorldTypeOK'
    BY <1>2, <2>2 DEF HandleEvent, WorldTypeOK, world
  <2>5. QueueTypeOK' /\ RetriesBounded'
    BY <1>2, <2>3, AddType DEF HandleEvent, HandleAdded, HandleModified, HandleDeleted
  <2>6. CacheTypeOK'
    BY <1>2, <2>3, CacheWriteType DEF HandleEvent, HandleAdded, HandleModified, HandleDeleted
  <2> QED
    BY <1>2, <2>4, <2>5, <2>6 DEF HandleEvent
<1>3. CASE EnqueueAll
  BY <1>3, AddType DEF EnqueueAll
<1> QED
  BY <1>1, <1>2, <1>3

\* Taking a key, handing it back and the end of a back-off.
LEMMA QueueType ==
  ASSUME QueueTypeOK, RetriesBounded, NEW n \in Spcs
  PROVE  /\ Get(n) \/ DelayElapses(n) => QueueTypeOK' /\ RetriesBounded'
         /\ Forget(n) /\ Done(n) => QueueTypeOK' /\ RetriesBounded'
         /\ requeues[n] < MaxRetries /\ AddRateLimited(n) /\ Done(n)
              => QueueTypeOK' /\ RetriesBounded'
<1> USE RetriesNat DEF QueueTypeOK, RetriesBounded
<1>1. Get(n) \/ DelayElapses(n) => QueueTypeOK' /\ RetriesBounded'
  BY DEF Get, DelayElapses
<1>2. Forget(n) /\ Done(n) => QueueTypeOK' /\ RetriesBounded'
  BY DEF Forget, Done
<1>3. requeues[n] < MaxRetries /\ AddRateLimited(n) /\ Done(n)
        => QueueTypeOK' /\ RetriesBounded'
  BY DEF AddRateLimited, Done
<1> QED
  BY <1>1, <1>2, <1>3

LEMMA TakeType ==
  ASSUME TypeOK, NEW n \in Spcs, NEW w \in Workers, Take(w, n)
  PROVE  TypeOK'
<1> USE FrameType DEF TypeOK
<1> DEFINE j == [step |-> "get", key |-> n, obj |-> Gone, listed |-> << >>]
<1>1. << >> \in UNION {[D -> Tags] : D \in SUBSET Items}
  <2>1. << >> \in [{} -> Tags]
    BY DOMAIN << >> = {}
  <2> QED
    BY <2>1
<1>2. seen' \in [Spcs -> [Items -> SUBSET Tags]]
  BY DEF Take, WorldTypeOK
<1>3. j \in JobRecord
  BY <1>1 DEF JobRecord, Steps
<1>4. job' = [job EXCEPT ![w] = j] /\ j.step = "get"
  BY DEF Take
<1> HIDE DEF j
<1>5. JobsTypeOK'
  BY <1>3, <1>4, NewJob
<1>6. QueueTypeOK' /\ RetriesBounded'
  BY QueueType DEF Take
<1>7. WorldTypeOK'
  BY <1>2 DEF Take, WorldTypeOK, watch
<1> QED
  BY <1>5, <1>6, <1>7 DEF Take

LEMMA WorkerType ==
  ASSUME TypeOK, NEW w \in Workers, WorkerStep(w)
  PROVE  TypeOK'
<1> USE FrameType DEF TypeOK
<1> DEFINE n == job[w].key
<1>1. Busy(w) => job[w] \in JobRecord
  BY JobOf
<1>2. job[w] \in JobRecord => n \in Spcs
  BY DEF JobRecord
<1>3. CASE GetFound(w)
  <2> DEFINE s == spc[n]
             j == [job[w] EXCEPT !.obj = s, !.step = IF s.mode = "off" THEN "done" ELSE "secrets"]
  <2>1. job[w] \in JobRecord /\ s # Gone
    BY <1>1, <1>3 DEF GetFound, Busy, Exists
  <2>2. s \in SpcRecord
    BY <1>2, <2>1 DEF WorldTypeOK
  <2>3. j \in JobRecord /\ j.obj # Gone /\ j.step \in {"done", "secrets"}
    BY <2>1, <2>2 DEF JobRecord, Steps
  <2>4. job' = [job EXCEPT ![w] = j]
    BY <1>3, <2>1 DEF GetFound
  <2> HIDE DEF j
  <2>5. JobsTypeOK'
    BY <2>3, <2>4, NewJob
  <2> QED
    BY <1>3, <2>5 DEF GetFound
<1>4. CASE GetNotFound(w)
  BY <1>4, MovesType DEF GetNotFound
<1>5. CASE ForgetDeleted(w)
  <2>1. n \in Spcs /\ job[w].step # "idle"
    BY <1>1, <1>2, <1>5 DEF ForgetDeleted, Busy
  <2>2. CacheTypeOK'
    BY <1>5, <2>1, CacheWriteType DEF ForgetDeleted
  <2>3. JobsTypeOK'
    BY <1>5, <2>1, MovesType DEF ForgetDeleted
  <2> QED
    BY <1>5, <2>2, <2>3 DEF ForgetDeleted
<1>6. CASE ListSecrets(w)
  <2> DEFINE tags == [i \in SecretItems |-> vault[i]]
             j == [job[w] EXCEPT !.listed = tags, !.step = "certs"]
  <2>1. job[w] \in JobRecord /\ job[w].obj # Gone
    BY <1>1, <1>6 DEF ListSecrets, Busy, JobsTypeOK
  <2>2. SecretItems \in SUBSET Items
    BY DEF SecretItems
  <2>3. tags \in [SecretItems -> Tags]
    BY <2>2 DEF WorldTypeOK
  <2>4. job' = [job EXCEPT ![w] = j]
    BY <1>6, <2>1 DEF ListSecrets
  <2> HIDE DEF tags
  <2>5. tags \in UNION {[D -> Tags] : D \in SUBSET Items} /\ DOMAIN tags = SecretItems
    BY <2>2, <2>3
  <2>6. j \in JobRecord /\ j.obj # Gone /\ j.step = "certs" /\ j.listed = tags
    BY <2>1, <2>5 DEF JobRecord, Steps
  <2> HIDE DEF j
  <2>7. JobsTypeOK'
    BY <2>4, <2>5, <2>6, NewJob
  <2> QED
    BY <1>6, <2>7 DEF ListSecrets
<1>7. CASE ListCertificates(w)
  <2> DEFINE tags == [i \in Items |-> IF i \in SecretItems THEN job[w].listed[i] ELSE vault[i]]
             to == IF NeedsPatch(job[w].obj, tags) THEN "patch" ELSE "store"
             j == [job[w] EXCEPT !.listed = tags, !.step = to]
  <2>1. job[w] \in JobRecord /\ job[w].obj # Gone /\ DOMAIN job[w].listed = SecretItems
    BY <1>1, <1>7 DEF ListCertificates, Busy, JobsTypeOK
  <2>2. job[w].listed \in [SecretItems -> Tags]
    BY <2>1 DEF JobRecord
  <2>3. tags \in [Items -> Tags]
    BY <2>2 DEF WorldTypeOK
  <2>4. to \in {"patch", "store"}
    OBVIOUS
  <2>5. job' = [job EXCEPT ![w] = j]
    BY <1>7, <2>1 DEF ListCertificates
  <2> HIDE DEF tags, to
  <2>6. Items \in SUBSET Items
    OBVIOUS
  <2>7. tags \in UNION {[D -> Tags] : D \in SUBSET Items} /\ DOMAIN tags = Items
    BY <2>3, <2>6
  <2>8. j \in JobRecord /\ j.obj # Gone /\ j.step = to /\ j.listed = tags
    BY <2>1, <2>4, <2>7 DEF JobRecord, Steps
  <2> HIDE DEF j
  <2>9. JobsTypeOK'
    BY <2>4, <2>5, <2>7, <2>8, NewJob
  <2> QED
    BY <1>7, <2>9 DEF ListCertificates
<1>8. CASE ReconcileFails(w)
  BY <1>8, MovesType DEF ReconcileFails
<1>9. ASSUME NEW to \in {"store", "failed"}, PatchArrives(w, to) PROVE TypeOK'
  <2>1. job[w] \in JobRecord /\ job[w].obj # Gone /\ spc[n] # Gone
    BY <1>1, <1>9 DEF PatchArrives, Busy, JobsTypeOK, Exists
  <2>2. n \in Spcs /\ spc[n] \in SpcRecord /\ job[w].obj \in SpcRecord
    BY <2>1 DEF WorldTypeOK, JobRecord
  <2>3. job[w].listed \in UNION {[D -> Tags] : D \in SUBSET Items}
    BY <2>1 DEF JobRecord
  <2>4. spc' = [spc EXCEPT ![n] = Patched(spc[n], job[w].obj, job[w].listed)]
    BY <1>9 DEF PatchArrives
  <2>5. Patched(spc[n], job[w].obj, job[w].listed) \in SpcRecord
    BY <2>2, <2>3, PatchedType
  <2>6. spc' \in [Spcs -> SpcRecord \cup {Gone}]
    BY <2>4, <2>5 DEF WorldTypeOK
  <2>7. events' \in Seq(EventRecord) /\ watching' \in BOOLEAN
    BY <1>9, <2>2, EventType, EmitType DEF PatchArrives
  <2>8. WorldTypeOK'
    BY <1>9, <2>6, <2>7 DEF PatchArrives, WorldTypeOK, world
  <2>9. JobsTypeOK'
    BY <1>9, MovesType DEF PatchArrives
  <2> QED
    BY <1>9, <2>8, <2>9 DEF PatchArrives
<1>10. CASE PatchRefused(w)
  BY <1>10, MovesType DEF PatchRefused
<1>11. CASE Store(w)
  <2>1. job[w] \in JobRecord /\ job[w].obj # Gone /\ job[w].step # "idle"
    BY <1>1, <1>11 DEF Store, Busy, JobsTypeOK
  <2>2. {i.name : i \in job[w].obj.secretObjects} \in SUBSET Secrets
    BY <2>1, ItemsType DEF JobRecord, SpcRecord
  <2>3. CacheTypeOK'
    BY <1>2, <1>11, <2>1, <2>2, CacheWriteType DEF Store
  <2>4. JobsTypeOK'
    BY <1>11, <2>1, MovesType DEF Store
  <2> QED
    BY <1>11, <2>3, <2>4 DEF Store
<1>12. CASE FinishOk(w)
  <2>1. n \in Spcs
    BY <1>1, <1>2, <1>12 DEF FinishOk, Busy
  <2>2. QueueTypeOK' /\ RetriesBounded'
    BY <1>12, <2>1, QueueType DEF FinishOk
  <2> QED
    BY <1>12, <2>2, IdleType DEF FinishOk
<1>13. CASE FinishRetry(w)
  <2>1. n \in Spcs
    BY <1>1, <1>2, <1>13 DEF FinishRetry, Busy
  <2>2. QueueTypeOK' /\ RetriesBounded'
    BY <1>13, <2>1, QueueType DEF FinishRetry
  <2> QED
    BY <1>13, <2>2, IdleType DEF FinishRetry
<1>14. CASE FinishDrop(w)
  <2>1. n \in Spcs
    BY <1>1, <1>2, <1>14 DEF FinishDrop, Busy
  <2>2. QueueTypeOK' /\ RetriesBounded'
    BY <1>14, <2>1, QueueType DEF FinishDrop
  <2>3. WorldTypeOK'
    BY <1>14, <2>1 DEF FinishDrop, WorldTypeOK, world, watch
  <2> QED
    BY <1>14, <2>2, <2>3, IdleType DEF FinishDrop
<1> QED
  BY <1>3, <1>4, <1>5, <1>6, <1>7, <1>8, <1>9, <1>10, <1>11, <1>12, <1>13, <1>14
  DEF WorkerStep, PatchApplies, PatchUnanswered

\* THEOREM.  In every reachable state, for any number of workers, resources
\* and vault items, the state is well-formed and no key has been retried more
\* than MaxRetries times in a row.
THEOREM TypeCorrect == Spec => []TypeOK
<1>1. TypeOK /\ [Next]_vars => TypeOK'
  <2> SUFFICES ASSUME TypeOK, [Next]_vars PROVE TypeOK'
    OBVIOUS
  <2>1. CASE Environment
    BY <2>1, EnvironmentType
  <2>2. CASE WatchConnects \/ HandleEvent \/ EnqueueAll
    BY <2>2, WatchLoopType
  <2>3. ASSUME NEW n \in Spcs, DelayElapsesFor(n) PROVE TypeOK'
    <3>1. QueueTypeOK' /\ RetriesBounded'
      BY <2>3, QueueType DEF DelayElapsesFor, TypeOK
    <3> QED
      BY <2>3, <3>1, FrameType DEF DelayElapsesFor, TypeOK
  <2>4. ASSUME NEW n \in Spcs, NEW w \in Workers, Take(w, n) PROVE TypeOK'
    BY <2>4, TakeType
  <2>5. ASSUME NEW w \in Workers, WorkerStep(w) PROVE TypeOK'
    BY <2>5, WorkerType
  <2>6. CASE UNCHANGED vars
    <3>1. UNCHANGED <<spc, world, watch, dropped>> /\ UNCHANGED job
      BY <2>6 DEF vars, world, watch
    <3>2. UNCHANGED queueVars /\ UNCHANGED cacheVars
      BY <2>6 DEF vars
    <3> QED
      BY <3>1, <3>2, FrameType DEF TypeOK
  <2> QED
    BY <2>1, <2>2, <2>3, <2>4, <2>5, <2>6 DEF Next
<1> QED
  BY <1>1, InitType, PTL DEF Spec

----------------------------------------------------------------------------
(* One worker per key.  With TypeOK the invariant is inductive: only Take  *)
(* gives a worker a key, one that is not in processing, and only the end   *)
(* of a reconcile takes it back.                                           *)

\* The same workers are busy with the same keys.
LEMMA SameWork ==
  ASSUME OneWorkerPerKey, UNCHANGED processing,
         \A w \in Workers : Busy(w)' = Busy(w) /\ (Busy(w) => job'[w].key = job[w].key)
  PROVE  OneWorkerPerKey'
<1>1. processing' = {job'[w].key : w \in {v \in Workers : Busy(v)'}}
  BY DEF OneWorkerPerKey
<1>2. \A v, w \in Workers : Busy(v)' /\ Busy(w)' /\ job'[v].key = job'[w].key => v = w
  BY DEF OneWorkerPerKey
<1> QED
  BY <1>1, <1>2 DEF OneWorkerPerKey

\* A worker in the middle of its reconcile.
LEMMA WorkGoesOn ==
  ASSUME JobsTypeOK, OneWorkerPerKey, NEW w \in Workers, Busy(w), NEW r,
         job' = [job EXCEPT ![w] = r], r.step # "idle", r.key = job[w].key,
         UNCHANGED processing
  PROVE  OneWorkerPerKey'
<1>1. \A v \in Workers : Busy(v)' = Busy(v) /\ (Busy(v) => job'[v].key = job[v].key)
  BY DEF JobsTypeOK, Busy
<1> QED
  BY <1>1, SameWork

\* The end of a reconcile.
LEMMA WorkEnds ==
  ASSUME JobsTypeOK, OneWorkerPerKey, NEW w \in Workers, Busy(w),
         job' = [job EXCEPT ![w] = Idle], Done(job[w].key)
  PROVE  OneWorkerPerKey'
<1>1. \A v \in Workers : Busy(v)' <=> (Busy(v) /\ v # w)
  BY DEF JobsTypeOK, Busy, Idle
<1>2. \A v \in Workers : v # w => job'[v] = job[v]
  BY DEF JobsTypeOK
<1>3. processing' = processing \ {job[w].key}
  BY DEF Done
<1>4. \A v \in Workers : Busy(v) /\ v # w => job[v].key # job[w].key
  BY DEF OneWorkerPerKey
<1>5. {job'[v].key : v \in {u \in Workers : Busy(u)'}}
        = {job[v].key : v \in {u \in Workers : Busy(u)}} \ {job[w].key}
  BY <1>1, <1>2, <1>4
<1>6. processing' = {job'[v].key : v \in {u \in Workers : Busy(u)'}}
  BY <1>3, <1>5 DEF OneWorkerPerKey
<1>7. \A u, v \in Workers : Busy(u)' /\ Busy(v)' /\ job'[u].key = job'[v].key => u = v
  BY <1>1, <1>2 DEF OneWorkerPerKey
<1> QED
  BY <1>6, <1>7 DEF OneWorkerPerKey

\* The beginning of a reconcile.
LEMMA WorkBegins ==
  ASSUME JobsTypeOK, OneWorkerPerKey, NEW w \in Workers, NEW n \in Spcs, Take(w, n)
  PROVE  OneWorkerPerKey'
<1>1. ~Busy(w) /\ n \notin processing /\ processing' = processing \cup {n}
  BY DEF Take, Get
<1>2. job'[w].step = "get" /\ job'[w].key = n
  BY DEF Take, JobsTypeOK
<1>3. \A v \in Workers : v # w => job'[v] = job[v]
  BY DEF Take, JobsTypeOK
<1>4. \A v \in Workers : Busy(v)' <=> (Busy(v) \/ v = w)
  BY <1>2, <1>3 DEF Busy
<1>5. \A v \in Workers : Busy(v) => job[v].key # n /\ v # w
  BY <1>1 DEF OneWorkerPerKey
<1>6. {job'[v].key : v \in {u \in Workers : Busy(u)'}}
        = {job[v].key : v \in {u \in Workers : Busy(u)}} \cup {n}
  BY <1>2, <1>3, <1>4, <1>5
<1>7. processing' = {job'[v].key : v \in {u \in Workers : Busy(u)'}}
  BY <1>1, <1>6 DEF OneWorkerPerKey
<1>8. \A u, v \in Workers : Busy(u)' /\ Busy(v)' /\ job'[u].key = job'[v].key => u = v
  BY <1>2, <1>3, <1>4, <1>5 DEF OneWorkerPerKey
<1> QED
  BY <1>7, <1>8 DEF OneWorkerPerKey

LEMMA WorkerStepKeepsWork ==
  ASSUME TypeOK, OneWorkerPerKey, NEW w \in Workers, WorkerStep(w)
  PROVE  OneWorkerPerKey'
<1> USE DEF TypeOK
<1>1. Busy(w)
  BY DEF WorkerStep, GetFound, GetNotFound, ForgetDeleted, ListSecrets, ListCertificates,
         ReconcileFails, PatchApplies, PatchUnanswered, PatchArrives, PatchRefused, Store,
         FinishOk, FinishRetry, FinishDrop, Busy
<1>2. job[w] \in JobRecord
  BY <1>1, JobOf
<1>3. CASE FinishOk(w) \/ FinishRetry(w) \/ FinishDrop(w)
  BY <1>1, <1>3, WorkEnds DEF FinishOk, FinishRetry, FinishDrop
<1>4. ASSUME NEW to \in Steps, Moves(w, to), UNCHANGED processing PROVE OneWorkerPerKey'
  <2> DEFINE r == [job[w] EXCEPT !.step = to]
  <2>1. r.step # "idle" /\ r.key = job[w].key
    BY <1>2 DEF JobRecord, Steps
  <2>2. job' = [job EXCEPT ![w] = r]
    BY <1>4 DEF Moves
  <2> HIDE DEF r
  <2> QED
    BY <1>1, <1>4, <2>1, <2>2, WorkGoesOn
<1>5. CASE \/ GetNotFound(w) \/ ForgetDeleted(w) \/ ReconcileFails(w)
           \/ PatchApplies(w) \/ PatchUnanswered(w) \/ PatchRefused(w) \/ Store(w)
  BY <1>4, <1>5 DEF GetNotFound, ForgetDeleted, ReconcileFails, PatchApplies, PatchUnanswered,
                    PatchArrives, PatchRefused, Store, Steps, queueVars
<1>6. CASE GetFound(w)
  <2> DEFINE s == spc[job[w].key]
             to == IF s.mode = "off" THEN "done" ELSE "secrets"
             r == [job[w] EXCEPT !.obj = s, !.step = to]
  <2>1. r.step # "idle" /\ r.key = job[w].key
    BY <1>2 DEF JobRecord
  <2>2. job' = [job EXCEPT ![w] = r] /\ UNCHANGED processing
    BY <1>2, <1>6 DEF GetFound, JobRecord, queueVars
  <2> HIDE DEF r
  <2> QED
    BY <1>1, <2>1, <2>2, WorkGoesOn
<1>7. CASE ListSecrets(w)
  <2> DEFINE tags == [i \in SecretItems |-> vault[i]]
             r == [job[w] EXCEPT !.listed = tags, !.step = "certs"]
  <2> HIDE DEF tags
  <2>1. r.step # "idle" /\ r.key = job[w].key
    BY <1>2 DEF JobRecord
  <2>2. job' = [job EXCEPT ![w] = r] /\ UNCHANGED processing
    BY <1>2, <1>7 DEF ListSecrets, JobRecord, queueVars, tags
  <2> HIDE DEF r
  <2> QED
    BY <1>1, <2>1, <2>2, WorkGoesOn
<1>8. CASE ListCertificates(w)
  <2> DEFINE tags == [i \in Items |-> IF i \in SecretItems THEN job[w].listed[i] ELSE vault[i]]
             to == IF NeedsPatch(job[w].obj, tags) THEN "patch" ELSE "store"
             r == [job[w] EXCEPT !.listed = tags, !.step = to]
  <2>1. job' = [job EXCEPT ![w] = r] /\ UNCHANGED processing
    BY <1>2, <1>8 DEF ListCertificates, JobRecord, queueVars
  <2>2. to # "idle"
    OBVIOUS
  <2> HIDE DEF tags, to
  <2>3. r.step # "idle" /\ r.key = job[w].key
    BY <1>2, <2>2 DEF JobRecord
  <2> HIDE DEF r
  <2> QED
    BY <1>1, <2>1, <2>3, WorkGoesOn
<1> QED
  BY <1>3, <1>5, <1>6, <1>7, <1>8 DEF WorkerStep

\* THEOREM.  However many workers there are and whatever events, retries and
\* resyncs put into the queue, no two workers reconcile the same
\* SecretProviderClass at once, and processing is exactly what they work on.
THEOREM OneWorkerPerResource == Spec => []OneWorkerPerKey
<1>1. Init => OneWorkerPerKey
  BY DEF Init, QueueInit, OneWorkerPerKey, Busy, Idle
<1>2. TypeOK /\ OneWorkerPerKey /\ [Next]_vars => OneWorkerPerKey'
  <2> SUFFICES ASSUME TypeOK, OneWorkerPerKey, [Next]_vars PROVE OneWorkerPerKey'
    OBVIOUS
  <2>1. ASSUME UNCHANGED job, UNCHANGED processing PROVE OneWorkerPerKey'
    BY <2>1, SameWork DEF Busy
  <2>2. CASE Environment
    <3>1. CASE \E i \in Items : VaultChanges(i)
      BY <2>1, <3>1 DEF VaultChanges, queueVars
    <3>2. CASE \E n \in Spcs : UserCreates(n) \/ UserSetsMode(n) \/ UserResets(n) \/ UserDeletes(n)
      BY <2>1, <3>2 DEF UserCreates, UserSetsMode, UserResets, UserDeletes, UserWrites, queueVars
    <3>3. CASE OutageFlips \/ WatchCloses
      BY <2>1, <3>3 DEF OutageFlips, WatchCloses, queueVars
    <3>4. CASE Restart
      BY <3>4 DEF Restart, OneWorkerPerKey, Busy, Idle
    <3> QED
      BY <2>2, <3>1, <3>2, <3>3, <3>4 DEF Environment
  <2>3. CASE WatchConnects \/ HandleEvent \/ EnqueueAll
    BY <2>1, <2>3 DEF WatchConnects, HandleEvent, HandleAdded, HandleModified, HandleDeleted,
                      EnqueueAll, Add, queueVars
  <2>4. ASSUME NEW n \in Spcs, DelayElapsesFor(n) PROVE OneWorkerPerKey'
    BY <2>1, <2>4 DEF DelayElapsesFor, DelayElapses
  <2>5. ASSUME NEW n \in Spcs, NEW w \in Workers, Take(w, n) PROVE OneWorkerPerKey'
    BY <2>5, WorkBegins DEF TypeOK
  <2>6. ASSUME NEW w \in Workers, WorkerStep(w) PROVE OneWorkerPerKey'
    BY <2>6, WorkerStepKeepsWork
  <2>7. CASE UNCHANGED vars
    BY <2>1, <2>7 DEF vars, queueVars
  <2> QED
    BY <2>2, <2>3, <2>4, <2>5, <2>6, <2>7 DEF Next
<1> QED
  BY <1>1, <1>2, TypeCorrect, PTL DEF Spec
----------------------------------------------------------------------------
(* Writes come from the vault.  A patch is made from the list in hand, so   *)
(* the invariant is about lists: what is listed was seen since work on the  *)
(* SPC began, and so was what the vault says now, which may be listed next. *)

ListedWasSeen ==
  /\ \A n \in Spcs, i \in Items : vault[i] \in seen[n][i]
  /\ \A w \in Workers : Busy(w) =>
       \A i \in DOMAIN job[w].listed : job[w].listed[i] \in seen[job[w].key][i]

\* One worker's step, which may add to its list but not to what was seen.
LEMMA StepKeepsSeen ==
  ASSUME JobsTypeOK, ListedWasSeen, NEW w \in Workers, UNCHANGED <<vault, seen>>,
         NEW r, job' = [job EXCEPT ![w] = r],
         r.step # "idle" => \A i \in DOMAIN r.listed : r.listed[i] \in seen[r.key][i]
  PROVE  ListedWasSeen'
<1>1. job'[w] = r /\ \A v \in Workers : v # w => job'[v] = job[v]
  BY DEF JobsTypeOK
<1>2. ASSUME NEW v \in Workers, job'[v].step # "idle"
      PROVE  \A i \in DOMAIN job'[v].listed : job'[v].listed[i] \in seen[job'[v].key][i]
  <2>1. CASE v = w
    BY <1>1, <1>2, <2>1
  <2>2. CASE v # w
    <3>1. Busy(v) /\ job'[v] = job[v]
      BY <1>1, <1>2, <2>2 DEF Busy
    <3> QED
      BY <3>1 DEF ListedWasSeen
  <2> QED
    BY <2>1, <2>2
<1> QED
  BY <1>2 DEF ListedWasSeen, Busy

LEMMA WorkerKeepsSeen ==
  ASSUME TypeOK, ListedWasSeen, NEW w \in Workers, WorkerStep(w)
  PROVE  ListedWasSeen'
<1> USE DEF TypeOK
<1>1. Busy(w) /\ UNCHANGED <<vault, seen>>
  BY DEF WorkerStep, GetFound, GetNotFound, ForgetDeleted, ListSecrets, ListCertificates,
         ReconcileFails, PatchApplies, PatchUnanswered, PatchArrives, PatchRefused, Store,
         FinishOk, FinishRetry, FinishDrop, Busy, world
<1>2. job[w] \in JobRecord
  BY <1>1, JobOf
<1> DEFINE n == job[w].key
<1>3. /\ \A i \in Items : vault[i] \in seen[n][i]
      /\ \A i \in DOMAIN job[w].listed : job[w].listed[i] \in seen[n][i]
  BY <1>1, <1>2 DEF ListedWasSeen, JobRecord
<1>4. CASE FinishOk(w) \/ FinishRetry(w) \/ FinishDrop(w)
  <2>1. job' = [job EXCEPT ![w] = Idle] /\ Idle.step = "idle"
    BY <1>4 DEF FinishOk, FinishRetry, FinishDrop, Idle
  <2> QED
    BY <1>1, <2>1, StepKeepsSeen
<1>5. ASSUME NEW to \in Steps, Moves(w, to) PROVE ListedWasSeen'
  <2> DEFINE r == [job[w] EXCEPT !.step = to]
  <2>1. r.key = n /\ r.listed = job[w].listed
    BY <1>2 DEF JobRecord
  <2>2. job' = [job EXCEPT ![w] = r]
    BY <1>5 DEF Moves
  <2> HIDE DEF r
  <2> QED
    BY <1>1, <1>3, <2>1, <2>2, StepKeepsSeen
<1>6. CASE \/ GetNotFound(w) \/ ForgetDeleted(w) \/ ReconcileFails(w)
           \/ PatchApplies(w) \/ PatchUnanswered(w) \/ PatchRefused(w) \/ Store(w)
  BY <1>5, <1>6 DEF GetNotFound, ForgetDeleted, ReconcileFails, PatchApplies, PatchUnanswered,
                    PatchArrives, PatchRefused, Store, Steps
<1>7. CASE GetFound(w)
  <2> DEFINE s == spc[n]
             to == IF s.mode = "off" THEN "done" ELSE "secrets"
             r == [job[w] EXCEPT !.obj = s, !.step = to]
  <2>1. r.key = n /\ r.listed = job[w].listed
    BY <1>2 DEF JobRecord
  <2>2. job' = [job EXCEPT ![w] = r]
    BY <1>2, <1>7 DEF GetFound, JobRecord
  <2> HIDE DEF r
  <2> QED
    BY <1>1, <1>3, <2>1, <2>2, StepKeepsSeen
<1>8. CASE ListSecrets(w)
  <2> DEFINE tags == [i \in SecretItems |-> vault[i]]
             r == [job[w] EXCEPT !.listed = tags, !.step = "certs"]
  <2>1. \A i \in DOMAIN tags : tags[i] \in seen[n][i]
    BY <1>3 DEF SecretItems
  <2> HIDE DEF tags
  <2>2. r.key = n /\ r.listed = tags
    BY <1>2 DEF JobRecord
  <2>3. job' = [job EXCEPT ![w] = r]
    BY <1>2, <1>8 DEF ListSecrets, JobRecord, tags
  <2> HIDE DEF r
  <2> QED
    BY <1>1, <2>1, <2>2, <2>3, StepKeepsSeen
<1>9. CASE ListCertificates(w)
  <2> DEFINE tags == [i \in Items |-> IF i \in SecretItems THEN job[w].listed[i] ELSE vault[i]]
             to == IF NeedsPatch(job[w].obj, tags) THEN "patch" ELSE "store"
             r == [job[w] EXCEPT !.listed = tags, !.step = to]
  <2>1. DOMAIN job[w].listed = SecretItems
    BY <1>9 DEF ListCertificates, JobsTypeOK
  <2>2. \A i \in DOMAIN tags : tags[i] \in seen[n][i]
    BY <1>3, <2>1
  <2>3. job' = [job EXCEPT ![w] = r]
    BY <1>2, <1>9 DEF ListCertificates, JobRecord
  <2> HIDE DEF tags, to
  <2>4. r.key = n /\ r.listed = tags
    BY <1>2 DEF JobRecord
  <2> HIDE DEF r
  <2> QED
    BY <1>1, <2>2, <2>3, <2>4, StepKeepsSeen
<1> QED
  BY <1>4, <1>6, <1>7, <1>8, <1>9 DEF WorkerStep

\* A tag that the vault gets is seen for every SPC.
LEMMA VaultKeepsSeen ==
  ASSUME TypeOK, ListedWasSeen, NEW i \in Items, VaultChanges(i)
  PROVE  ListedWasSeen'
<1> USE DEF TypeOK
<1>1. PICK t \in Tags : /\ vault' = [vault EXCEPT ![i] = t]
                        /\ seen' = [n \in Spcs |-> [seen[n] EXCEPT ![i] = @ \cup {t}]]
                        /\ UNCHANGED job
  BY DEF VaultChanges
<1>2. ASSUME NEW n \in Spcs, NEW k \in Items
      PROVE  seen'[n][k] = IF k = i THEN seen[n][i] \cup {t} ELSE seen[n][k]
  BY <1>1 DEF WorldTypeOK
<1>3. \A n \in Spcs, k \in Items : vault'[k] \in seen'[n][k]
  BY <1>1, <1>2 DEF ListedWasSeen, WorldTypeOK
<1>4. ASSUME NEW w \in Workers, Busy(w), NEW k \in DOMAIN job[w].listed
      PROVE  job[w].listed[k] \in seen'[job[w].key][k]
  <2>1. job[w] \in JobRecord
    BY <1>4, JobOf
  <2>2. job[w].key \in Spcs /\ k \in Items
    BY <2>1 DEF JobRecord
  <2> QED
    BY <1>2, <1>4, <2>2 DEF ListedWasSeen
<1> QED
  BY <1>1, <1>3, <1>4 DEF ListedWasSeen, Busy

\* Work on an SPC begins: what is seen of it from now on is what the vault says,
\* and nobody else has a list made for this SPC.
LEMMA TakeKeepsSeen ==
  ASSUME TypeOK, OneWorkerPerKey, ListedWasSeen, NEW n \in Spcs, NEW w \in Workers, Take(w, n)
  PROVE  ListedWasSeen'
<1> USE DEF TypeOK
<1>1. /\ seen' = [seen EXCEPT ![n] = [i \in Items |-> {vault[i]}]] /\ UNCHANGED vault
      /\ job'[w].listed = << >> /\ \A v \in Workers : v # w => job'[v] = job[v]
      /\ n \notin processing
  BY DEF Take, Get, JobsTypeOK
<1>2. \A m \in Spcs, i \in Items : vault'[i] \in seen'[m][i]
  BY <1>1 DEF ListedWasSeen, WorldTypeOK
<1>3. ASSUME NEW v \in Workers, job'[v].step # "idle", NEW i \in DOMAIN job'[v].listed
      PROVE  job'[v].listed[i] \in seen'[job'[v].key][i]
  <2>1. v # w
    BY <1>1, <1>3
  <2>2. job'[v] = job[v] /\ Busy(v)
    BY <1>1, <1>3, <2>1 DEF Busy
  <2>3. job[v].key # n
    BY <1>1, <2>2 DEF OneWorkerPerKey
  <2> QED
    BY <1>1, <1>3, <2>2, <2>3 DEF ListedWasSeen, WorldTypeOK
<1> QED
  BY <1>2, <1>3 DEF ListedWasSeen, Busy

LEMMA NextKeepsSeen ==
  TypeOK /\ OneWorkerPerKey /\ ListedWasSeen /\ [Next]_vars => ListedWasSeen'
<1> SUFFICES ASSUME TypeOK, OneWorkerPerKey, ListedWasSeen, [Next]_vars PROVE ListedWasSeen'
  OBVIOUS
<1>1. ASSUME UNCHANGED <<job, vault, seen>> PROVE ListedWasSeen'
  BY <1>1 DEF ListedWasSeen, Busy
<1>2. CASE Environment
  <2>1. CASE \E n \in Spcs : UserCreates(n) \/ UserSetsMode(n) \/ UserResets(n) \/ UserDeletes(n)
    BY <1>1, <2>1 DEF UserCreates, UserSetsMode, UserResets, UserDeletes, UserWrites
  <2>2. CASE OutageFlips \/ WatchCloses
    BY <1>1, <2>2 DEF OutageFlips, WatchCloses, world
  <2>3. CASE Restart
    BY <2>3 DEF Restart, ListedWasSeen, Busy, Idle, world
  <2> QED
    BY <1>2, <2>1, <2>2, <2>3, VaultKeepsSeen DEF Environment
<1>3. CASE WatchConnects \/ HandleEvent \/ EnqueueAll \/ \E n \in Spcs : DelayElapsesFor(n)
  BY <1>1, <1>3 DEF WatchConnects, HandleEvent, EnqueueAll, DelayElapsesFor, world
<1>4. CASE UNCHANGED vars
  BY <1>1, <1>4 DEF vars, world
<1> QED
  BY <1>2, <1>3, <1>4, TakeKeepsSeen, WorkerKeepsSeen DEF Next

\* So does every reachable state.
LEMMA SeenInvariant == Spec => []ListedWasSeen
<1>1. Init => ListedWasSeen
  <2> SUFFICES ASSUME Init PROVE ListedWasSeen
    OBVIOUS
  <2>1. \A n \in Spcs, i \in Items : vault[i] \in seen[n][i]
    BY DEF Init
  <2>2. \A w \in Workers : ~Busy(w)
    BY DEF Init, Busy, Idle
  <2> QED
    BY <2>1, <2>2 DEF ListedWasSeen
<1> QED
  BY <1>1, NextKeepsSeen, TypeCorrect, OneWorkerPerResource, PTL DEF Spec

\* A patch writes what the worker has listed and leaves the other SPCs alone.
LEMMA PatchWritesList ==
  ASSUME TypeOK, ListedWasSeen, NEW w \in Workers, NEW to, PatchArrives(w, to),
         NEW n \in Spcs, spc'[n] # spc[n]
  PROVE  \E asked \in AskedLately(n) :
           /\ job[w].step = "patch" /\ job[w].key = n
           /\ spc'[n].objects = WantedObjects(asked)
           /\ spc'[n].secretObjects \in {spc[n].secretObjects, WantedSecretObjects(asked)}
           /\ spc'[n].notes = spc[n].notes \cup WantedNotes(asked)
           /\ spc'[n].mode = spc[n].mode
<1> DEFINE tags == job[w].listed
           obj == job[w].obj
<1>1. job[w].step = "patch" /\ Busy(w) /\ Exists(job[w].key)
      /\ spc' = [spc EXCEPT ![job[w].key] = Patched(spc[job[w].key], obj, tags)]
  BY DEF PatchArrives, Busy
<1>2. job[w] \in JobRecord /\ DOMAIN tags = Items
  BY <1>1, JobOf DEF TypeOK, JobsTypeOK
<1>3. tags \in [Items -> Tags]
  BY <1>2 DEF JobRecord
<1>4. job[w].key = n
  BY <1>1 DEF TypeOK, WorldTypeOK
<1>5. spc[n] \in SpcRecord /\ spc'[n] = Patched(spc[n], obj, tags)
  BY <1>1, <1>4 DEF TypeOK, WorldTypeOK, Exists
<1> HIDE DEF tags, obj
<1>6. /\ spc'[n].objects = WantedObjects(tags)
      /\ spc'[n].secretObjects \in {spc[n].secretObjects, WantedSecretObjects(tags)}
      /\ spc'[n].notes = spc[n].notes \cup WantedNotes(tags)
      /\ spc'[n].mode = spc[n].mode
  BY <1>5 DEF Patched, SpcRecord
<1>7. tags \in AskedLately(n)
  BY <1>1, <1>2, <1>3, <1>4 DEF ListedWasSeen, AskedLately, tags
<1> QED
  BY <1>1, <1>4, <1>6, <1>7

\* THEOREM.  Whatever fails, is retried, edited or listed at another moment,
\* and for any numbers of workers, resources and items: what the controller
\* writes into an SPC is what the vault asked for, item by item, during the
\* very reconcile that writes it.
THEOREM WritesFromVault == Spec => WritesComeFromVault
<1> DEFINE FromVault == \A n \in Spcs :
       spc'[n] # spc[n] /\ job' # job =>
         \E w \in Workers : \E asked \in AskedLately(n) :
           /\ job[w].step = "patch" /\ job[w].key = n
           /\ spc'[n].objects = WantedObjects(asked)
           /\ spc'[n].secretObjects \in {spc[n].secretObjects, WantedSecretObjects(asked)}
           /\ spc'[n].notes = spc[n].notes \cup WantedNotes(asked)
           /\ spc'[n].mode = spc[n].mode
<1>1. TypeOK /\ ListedWasSeen /\ [Next]_vars => [FromVault]_vars
  <2> SUFFICES ASSUME TypeOK, ListedWasSeen, Next, NEW n \in Spcs, spc'[n] # spc[n], job' # job
               PROVE  \E w \in Workers : \E asked \in AskedLately(n) :
                        /\ job[w].step = "patch" /\ job[w].key = n
                        /\ spc'[n].objects = WantedObjects(asked)
                        /\ spc'[n].secretObjects \in {spc[n].secretObjects, WantedSecretObjects(asked)}
                        /\ spc'[n].notes = spc[n].notes \cup WantedNotes(asked)
                        /\ spc'[n].mode = spc[n].mode
    OBVIOUS
  <2>1. ~Environment
    <3>1. ASSUME NEW k \in Spcs, UserCreates(k) \/ UserSetsMode(k) \/ UserResets(k) \/ UserDeletes(k)
          PROVE  UNCHANGED job
      BY <3>1 DEF UserCreates, UserSetsMode, UserResets, UserDeletes, UserWrites
    <3> QED
      BY <3>1 DEF Environment, VaultChanges, OutageFlips, WatchCloses, Restart
  <2>2. ~(WatchConnects \/ HandleEvent \/ EnqueueAll \/ \E k \in Spcs : DelayElapsesFor(k))
    BY DEF WatchConnects, HandleEvent, EnqueueAll, DelayElapsesFor
  <2>3. ~\E k \in Spcs, w \in Workers : Take(w, k)
    BY DEF Take
  <2>4. PICK w \in Workers : WorkerStep(w)
    BY <2>1, <2>2, <2>3 DEF Next
  <2>5. PatchApplies(w) \/ PatchUnanswered(w)
    BY <2>4 DEF WorkerStep, GetFound, GetNotFound, ForgetDeleted, ListSecrets, ListCertificates,
                ReconcileFails, PatchRefused, Store, FinishOk, FinishRetry, FinishDrop
  <2> QED
    BY <2>5, PatchWritesList DEF PatchApplies, PatchUnanswered
<1>2. WritesComeFromVault <=> [][FromVault]_vars
  BY DEF WritesComeFromVault
<1> QED
  BY <1>1, <1>2, SeenInvariant, TypeCorrect, PTL DEF Spec

----------------------------------------------------------------------------
(* Nothing is forgotten.  For a valid SPC under a connected watch one of    *)
(* four things is true: somebody will look at it anew, because an event of  *)
(* it is on its way or a key waits in the queue; it was given up; the       *)
(* worker that has it will compare what is there with the vault, has found  *)
(* it as it should be, is about to fail, or to patch and cause an event; or *)
(* nobody has it in hand, it is as it should be, and the cache is current.  *)

Names(s) == {i.name : i \in s.secretObjects}

Current(n) == objects[n] = Names(spc[n])

\* The object in hand is the one that is there, as far as it is compared.
Agree(o, s) == o.objects = s.objects /\ o.secretObjects = s.secretObjects

\* Some event of n is in a queue of events, and the last one does not say
\* that n is none of the controller's business.
Waits(q, n) == \E k \in DOMAIN q : q[k].name = n

LastIsValid(q, n) ==
  \A k \in DOMAIN q :
    q[k].name = n /\ (\A l \in DOMAIN q : l > k => q[l].name # n)
      => q[k].valid /\ q[k].type # "DELETED"

OnTrack(w, n) ==
  /\ Busy(w) /\ job[w].key = n
  /\ \/ job[w].step \in {"get", "patch", "failed"}
     \/ job[w].step \in {"secrets", "certs"} /\ Agree(job[w].obj, spc[n])
     \/ job[w].step = "store" /\ Agree(job[w].obj, spc[n]) /\ SyncedLately(n)
     \/ job[w].step = "done" /\ Current(n) /\ SyncedLately(n)

Queued(n) == n \in dirty \cup delayed \cup dropped

Promised(n) ==
  \/ Waits(events, n) \/ Queued(n)
  \/ \E w \in Workers : OnTrack(w, n)
  \/ n \notin processing /\ Current(n) /\ SyncedLately(n)

PromiseInv ==
  \A n \in Spcs : watching /\ Valid(n) => LastIsValid(events, n) /\ Promised(n)

\* What is as it should be stays so while it is left alone, whatever the vault
\* asks for meanwhile.
LEMMA StaysSynced ==
  ASSUME NEW n \in Spcs, SyncedLately(n), spc'[n] = spc[n],
         \A i \in Items : seen[n][i] \subseteq seen'[n][i]
  PROVE  SyncedLately(n)'
<1>1. PICK asked \in AskedLately(n) : /\ spc[n].objects = WantedObjects(asked)
                                      /\ spc[n].secretObjects = WantedSecretObjects(asked)
  BY DEF SyncedLately
<1>2. asked \in AskedLately(n)'
  BY DEF AskedLately
<1> QED
  BY <1>1, <1>2 DEF SyncedLately

\* With as many secretObjects as are wanted, and each wanted one among them,
\* there are no others: where nothing differs everything is as wanted.
LEMMA NoPatchIsWanted ==
  ASSUME NEW obj \in SpcRecord, NEW tags \in [Items -> Tags], ~NeedsPatch(obj, tags)
  PROVE  obj.objects = WantedObjects(tags) /\ obj.secretObjects = WantedSecretObjects(tags)
<1> DEFINE existing == obj.secretObjects
           wanted == WantedSecretObjects(tags)
<1>1. obj.objects = WantedObjects(tags) /\ ~CompareSecretObjects(existing, wanted)
  BY DEF NeedsPatch
<1>2. existing \subseteq Items /\ wanted \subseteq Items
  BY DEF SpcRecord, WantedSecretObjects
<1>3. IsFiniteSet(existing)
  BY <1>2, ItemsFinite, FS_Subset
<1> HIDE DEF existing, wanted
<1>4. Cardinality(existing) = Cardinality(wanted) /\ wanted \subseteq existing
  BY <1>1 DEF CompareSecretObjects, ByName
<1>5. existing = wanted
  BY <1>3, <1>4, FS_Subset
<1> QED
  BY <1>1, <1>5 DEF existing, wanted

\* Events of another SPC change nothing for this one.
LEMMA AppendOther ==
  ASSUME NEW q \in Seq(EventRecord), NEW n \in Spcs, NEW e \in EventRecord, e.name # n
  PROVE  /\ Waits(q, n) => Waits(Append(q, e), n)
         /\ LastIsValid(q, n) => LastIsValid(Append(q, e), n)
<1> DEFINE p == Append(q, e)
<1>1. /\ DOMAIN q = 1 .. Len(q) /\ DOMAIN p = 1 .. (Len(q) + 1) /\ Len(q) \in Nat
      /\ p[Len(q) + 1] = e /\ \A k \in 1 .. Len(q) : p[k] = q[k]
  OBVIOUS
<1> HIDE DEF p
<1>2. ASSUME Waits(q, n) PROVE Waits(p, n)
  BY <1>1, <1>2 DEF Waits
<1>3. ASSUME LastIsValid(q, n), NEW k \in DOMAIN p, p[k].name = n,
             \A l \in DOMAIN p : l > k => p[l].name # n
      PROVE  p[k].valid /\ p[k].type # "DELETED"
  <2>1. k \in DOMAIN q /\ q[k] = p[k]
    BY <1>1, <1>3
  <2>2. \A l \in DOMAIN q : l > k => q[l].name # n
    BY <1>1, <1>3
  <2> QED
    BY <1>3, <2>1, <2>2 DEF LastIsValid
<1> QED
  BY <1>2, <1>3 DEF LastIsValid, p

LEMMA AppendOwn ==
  ASSUME NEW q \in Seq(EventRecord), NEW n \in Spcs, NEW e \in EventRecord, e.name = n
  PROVE  /\ Waits(Append(q, e), n)
         /\ e.valid /\ e.type # "DELETED" => LastIsValid(Append(q, e), n)
<1> DEFINE p == Append(q, e)
<1>1. /\ DOMAIN p = 1 .. (Len(q) + 1) /\ Len(q) \in Nat /\ p[Len(q) + 1] = e
  OBVIOUS
<1> HIDE DEF p
<1>2. Waits(p, n)
  BY <1>1 DEF Waits
<1>3. ASSUME e.valid, e.type # "DELETED", NEW k \in DOMAIN p, p[k].name = n,
             \A l \in DOMAIN p : l > k => p[l].name # n
      PROVE  p[k].valid /\ p[k].type # "DELETED"
  <2>1. k = Len(q) + 1
    BY <1>1, <1>3
  <2> QED
    BY <1>1, <1>3, <2>1
<1> QED
  BY <1>2, <1>3 DEF LastIsValid, p

\* Handling an event leaves later ones; if there is none of n, this one was
\* the last of n, or not of n.
LEMMA TailKeeps ==
  ASSUME NEW q \in Seq(EventRecord), q # << >>, NEW n \in Spcs, LastIsValid(q, n)
  PROVE  /\ LastIsValid(Tail(q), n)
         /\ Waits(q, n) /\ ~Waits(Tail(q), n) =>
              Head(q).name = n /\ Head(q).valid /\ Head(q).type # "DELETED"
<1> DEFINE p == Tail(q)
<1>1. /\ Len(q) \in Nat \ {0} /\ DOMAIN q = 1 .. Len(q)
      /\ DOMAIN p = 1 .. (Len(q) - 1) /\ \A k \in DOMAIN p : p[k] = q[k + 1]
      /\ Head(q) = q[1]
  OBVIOUS
<1> HIDE DEF p
<1>2. \A k \in DOMAIN q : k # 1 => k - 1 \in DOMAIN p /\ p[k - 1] = q[k]
  BY <1>1
<1>3. ASSUME NEW k \in DOMAIN p, p[k].name = n, \A l \in DOMAIN p : l > k => p[l].name # n
      PROVE  p[k].valid /\ p[k].type # "DELETED"
  <2>1. k + 1 \in DOMAIN q /\ q[k + 1] = p[k]
    BY <1>1
  <2>2. ASSUME NEW l \in DOMAIN q, l > k + 1 PROVE q[l].name # n
    <3>1. l # 1 /\ l - 1 > k
      BY <1>1, <2>2
    <3> QED
      BY <1>2, <1>3, <3>1
  <2> QED
    BY <1>3, <2>1, <2>2 DEF LastIsValid
<1>4. ASSUME Waits(q, n), ~Waits(p, n)
      PROVE  q[1].name = n /\ q[1].valid /\ q[1].type # "DELETED"
  <2>1. \A k \in DOMAIN q : k # 1 => q[k].name # n
    BY <1>2, <1>4 DEF Waits
  <2>2. q[1].name = n /\ 1 \in DOMAIN q
    BY <1>1, <1>4, <2>1 DEF Waits
  <2>3. \A l \in DOMAIN q : l > 1 => q[l].name # n
    BY <1>1, <2>1
  <2> QED
    BY <2>2, <2>3 DEF LastIsValid
<1> QED
  BY <1>1, <1>3, <1>4 DEF LastIsValid, p

\* A step that leaves n alone: the object, its cache entry and the worker that
\* has it in hand, and takes nothing of it from the queues.
LEMMA Bystander ==
  ASSUME NEW n \in Spcs, Promised(n),
         spc'[n] = spc[n], objects'[n] = objects[n],
         \A i \in Items : seen[n][i] \subseteq seen'[n][i],
         Waits(events, n) => Waits(events', n),
         Queued(n) => Queued(n)',
         n \in processing' => n \in processing,
         \A w \in Workers : Busy(w) /\ job[w].key = n =>
           /\ job'[w].step = job[w].step /\ job'[w].key = n
           /\ job'[w].obj = job[w].obj
  PROVE  Promised(n)'
<1> USE StaysSynced
<1>1. \A w \in Workers : OnTrack(w, n) => OnTrack(w, n)'
  BY DEF OnTrack, Busy, Current
<1>2. n \notin processing /\ Current(n) /\ SyncedLately(n)
        => n \notin processing' /\ Current(n)' /\ SyncedLately(n)'
  BY DEF Current
<1>3. Waits(events, n)' <=> Waits(events', n)
  BY DEF Waits
<1> QED
  BY <1>1, <1>2, <1>3 DEF Promised

\* What Emit does to the events of n, as long as the watch stays.
LEMMA EmitEvents ==
  ASSUME WorldTypeOK, NEW e \in EventRecord, Emit(e), watching', NEW n \in Spcs
  PROVE  /\ watching
         /\ e.name # n => /\ Waits(events, n) => Waits(events', n)
                          /\ LastIsValid(events, n) => LastIsValid(events', n)
         /\ e.name = n => /\ Waits(events', n)
                          /\ e.valid /\ e.type # "DELETED" => LastIsValid(events', n)
<1>1. events \in Seq(EventRecord)
  BY DEF WorldTypeOK
<1>2. watching /\ events' = Append(events, e)
  BY DEF Emit, watch
<1> QED
  BY <1>1, <1>2, AppendOther, AppendOwn

\* Steps that write nothing of any SPC, its cache entry or its events, and
\* take no key from the queue.
LEMMA QuietStep ==
  ASSUME TypeOK, PromiseInv, UNCHANGED <<spc, watching, events, objects>>,
         dropped \subseteq dropped', dirty \cup delayed \subseteq dirty' \cup delayed',
         processing' \subseteq processing,
         \A n \in Spcs, i \in Items : seen[n][i] \subseteq seen'[n][i],
         \A w \in Workers : Busy(w) =>
           /\ job'[w].step = job[w].step /\ job'[w].key = job[w].key
           /\ job'[w].obj = job[w].obj
  PROVE  PromiseInv'
<1> SUFFICES ASSUME NEW n \in Spcs, watching', Valid(n)'
             PROVE  LastIsValid(events, n)' /\ Promised(n)'
  BY DEF PromiseInv
<1>1. watching /\ Valid(n)
  BY DEF Valid, Exists
<1>2. LastIsValid(events, n) /\ Promised(n)
  BY <1>1 DEF PromiseInv
<1>3. LastIsValid(events, n)'
  BY <1>2 DEF LastIsValid
<1>4. Queued(n) => Queued(n)'
  BY DEF Queued
<1> QED
  BY <1>2, <1>3, <1>4, Bystander

LEMMA EnvironmentKeepsPromise ==
  ASSUME TypeOK, PromiseInv, Environment
  PROVE  PromiseInv'
<1>1. ASSUME NEW m \in Spcs, NEW type \in {"ADDED", "MODIFIED", "DELETED"}, NEW s,
             UserWrites(m, type, s), type = "DELETED" <=> s = Gone
      PROVE  PromiseInv'
  <2> SUFFICES ASSUME NEW n \in Spcs, watching', Valid(n)'
               PROVE  LastIsValid(events', n) /\ Promised(n)'
    BY DEF PromiseInv, LastIsValid
  <2> DEFINE e == Event(type, m, IF type = "DELETED" THEN spc[m] ELSE s)
  <2>1. e \in EventRecord /\ e.name = m
    BY EventType DEF Event
  <2>2. Emit(e) /\ WorldTypeOK
    BY <1>1 DEF UserWrites, TypeOK
  <2>3. CASE m = n
    <3>1. s # Gone /\ s.mode # "off"
      BY <1>1, <2>3 DEF UserWrites, Valid, Exists, TypeOK, WorldTypeOK
    <3>2. e.valid /\ e.type # "DELETED"
      BY <1>1, <3>1 DEF Event
    <3> HIDE DEF e
    <3>3. Waits(events', n) /\ LastIsValid(events', n)
      BY <2>1, <2>2, <2>3, <3>2, EmitEvents
    <3> QED
      BY <3>3 DEF Promised, Waits
  <2>4. CASE m # n
    <3> HIDE DEF e
    <3>1. /\ watching
          /\ Waits(events, n) => Waits(events', n)
          /\ LastIsValid(events, n) => LastIsValid(events', n)
      BY <2>1, <2>2, <2>4, EmitEvents
    <3>2. spc'[n] = spc[n] /\ UNCHANGED <<seen, job, dropped, queueVars, cacheVars>>
      BY <1>1, <2>4 DEF UserWrites, TypeOK, WorldTypeOK
    <3>3. Valid(n)
      BY <3>2 DEF Valid, Exists
    <3>4. LastIsValid(events, n) /\ Promised(n)
      BY <3>1, <3>3 DEF PromiseInv
    <3>5. objects'[n] = objects[n] /\ (Queued(n) => Queued(n)') /\ processing' = processing
      BY <3>2 DEF Queued, queueVars, cacheVars
    <3> QED
      BY <3>1, <3>2, <3>4, <3>5, Bystander
  <2> QED
    BY <2>3, <2>4
<1>2. ASSUME NEW m \in Spcs, UserCreates(m) \/ UserSetsMode(m) \/ UserResets(m) \/ UserDeletes(m)
      PROVE  PromiseInv'
  <2>1. \A r : r \in SpcRecord => r # Gone
    BY GoneIsNoRecord
  <2>2. \A a \in Modes : NewSpc(a) \in SpcRecord
    BY DEF NewSpc, SpcRecord
  <2>3. Exists(m) => /\ \A a \in Modes : [spc[m] EXCEPT !.mode = a] \in SpcRecord
                     /\ [spc[m] EXCEPT !.objects = {}, !.secretObjects = {}] \in SpcRecord
    BY DEF Exists, TypeOK, WorldTypeOK, SpcRecord
  <2>4. CASE UserCreates(m)
    BY <1>1, <2>1, <2>2, <2>4 DEF UserCreates
  <2>5. CASE UserSetsMode(m)
    BY <1>1, <2>1, <2>3, <2>5 DEF UserSetsMode
  <2>6. CASE UserResets(m)
    BY <1>1, <2>1, <2>3, <2>6 DEF UserResets
  <2>7. CASE UserDeletes(m)
    BY <1>1, <2>7 DEF UserDeletes
  <2> QED
    BY <1>2, <2>4, <2>5, <2>6, <2>7
<1>3. ASSUME NEW i \in Items, VaultChanges(i) PROVE PromiseInv'
  <2>1. PICK t \in Tags : seen' = [n \in Spcs |-> [seen[n] EXCEPT ![i] = @ \cup {t}]]
    BY <1>3 DEF VaultChanges
  <2>2. \A n \in Spcs, k \in Items : seen[n][k] \subseteq seen'[n][k]
    BY <2>1 DEF TypeOK, WorldTypeOK
  <2>3. UNCHANGED <<spc, watching, events, objects, dropped, dirty, delayed, processing, job>>
    BY <1>3 DEF VaultChanges, watch, queueVars, cacheVars
  <2> QED
    BY <2>2, <2>3, QuietStep
<1>4. CASE OutageFlips
  <2>1. UNCHANGED <<spc, watching, events, objects, dropped, dirty, delayed, processing, job, seen>>
    BY <1>4 DEF OutageFlips, watch, queueVars, cacheVars
  <2> QED
    BY <2>1, QuietStep
<1>5. CASE WatchCloses \/ Restart
  BY <1>5 DEF WatchCloses, Restart, PromiseInv
<1> QED
  BY <1>2, <1>3, <1>4, <1>5 DEF Environment

\* Connecting announces every SPC; an event that is handled queues its SPC,
\* and deletes a cache entry only if a later event of that SPC, or none of a
\* valid one, is to come.
LEMMA WatchLoopKeepsPromise ==
  ASSUME TypeOK, PromiseInv, WatchConnects \/ HandleEvent \/ EnqueueAll
  PROVE  PromiseInv'
<1>1. CASE WatchConnects
  <2> SUFFICES ASSUME NEW n \in Spcs, watching', Valid(n)'
               PROVE  LastIsValid(events', n) /\ Promised(n)'
    BY DEF PromiseInv, LastIsValid
  <2> DEFINE there == {m \in Spcs : Exists(m)}
  <2>1. PICK q \in SetToSeqs(there) :
          events' = [k \in DOMAIN q |-> Event("ADDED", q[k], spc[q[k]])]
    BY <1>1 DEF WatchConnects
  <2>2. /\ q \in [1 .. Cardinality(there) -> there]
        /\ \A m \in there : \E k \in DOMAIN q : q[k] = m
    <3>1. Cardinality(there) \in Nat /\ IsFiniteSet(there)
      BY SpcsFinite, FS_Subset, FS_CardinalityType
    <3>2. q \in [1 .. Cardinality(there) -> there] /\ IsInjective(q)
      <4>1. q \in [1 .. Cardinality(there) -> there]
        BY <2>1 DEF SetToSeqs
      <4>2. \A i, j \in 1 .. Cardinality(there) : i # j => q[i] # q[j]
        BY <2>1 DEF SetToSeqs
      <4> QED
        BY <4>1, <4>2 DEF IsInjective
    <3>3. q \in Injection(1 .. Cardinality(there), there)
      BY <3>2 DEF IsInjective, Injection
    <3>4. /\ IsFiniteSet(1 .. Cardinality(there))
          /\ Cardinality(1 .. Cardinality(there)) = Cardinality(there)
      BY <3>1, FS_Interval
    <3> HIDE DEF there
    <3>5. q \in Surjection(1 .. Cardinality(there), there)
      BY <3>1, <3>3, <3>4, FS_Injection
    <3> QED
      BY <3>2, <3>5 DEF Surjection
  <2>3. n \in there /\ spc[n].mode # "off"
    BY <1>1 DEF WatchConnects, Valid, Exists
  <2> HIDE DEF there
  <2>4. /\ DOMAIN events' = DOMAIN q
        /\ \A k \in DOMAIN q : /\ events'[k].name = q[k] /\ events'[k].type = "ADDED"
                               /\ events'[k].valid = (spc[q[k]].mode # "off")
    BY <2>1 DEF Event
  <2>5. Waits(events', n)
    BY <2>2, <2>3, <2>4 DEF Waits
  <2>6. LastIsValid(events', n)
    BY <2>3, <2>4 DEF LastIsValid
  <2> QED
    BY <2>5, <2>6 DEF Promised, Waits
<1>2. CASE HandleEvent
  <2> SUFFICES ASSUME NEW n \in Spcs, watching', Valid(n)'
               PROVE  LastIsValid(events', n) /\ Promised(n)'
    BY DEF PromiseInv, LastIsValid
  <2> DEFINE e == Head(events)
  <2>1. /\ events \in Seq(EventRecord) /\ events # << >> /\ events' = Tail(events)
        /\ UNCHANGED <<spc, watching, job, dropped, seen>>
    BY <1>2 DEF HandleEvent, TypeOK, WorldTypeOK, world
  <2>2. watching /\ Valid(n)
    BY <2>1 DEF Valid, Exists
  <2>3. LastIsValid(events, n) /\ Promised(n)
    BY <2>2 DEF PromiseInv
  <2>4. /\ LastIsValid(events', n)
        /\ Waits(events, n) /\ ~Waits(events', n) => e.name = n /\ e.valid /\ e.type # "DELETED"
    BY <2>1, <2>3, TailKeeps
  <2>5. /\ dirty \subseteq dirty' /\ UNCHANGED <<processing, delayed>>
        /\ e.valid /\ e.type # "DELETED" => e.name \in dirty'
    BY <1>2 DEF HandleEvent, HandleAdded, HandleModified, HandleDeleted, Add, queueVars
  <2>6. CASE Waits(events', n)
    BY <2>4, <2>6 DEF Promised, Waits
  <2>7. CASE e.name # n /\ ~Waits(events, n)
    <3>1. objects'[n] = objects[n]
      BY <1>2, <2>7 DEF HandleEvent, HandleAdded, HandleModified, HandleDeleted, CacheDelete,
                        cacheVars, TypeOK, CacheTypeOK
    <3>2. Queued(n) => Queued(n)'
      BY <2>1, <2>5 DEF Queued
    <3> HIDE DEF e
    <3> QED
      BY <2>1, <2>3, <2>4, <2>5, <2>7, <3>1, <3>2, Bystander
  <2>8. CASE Waits(events, n) /\ ~Waits(events', n)
    <3>1. n \in dirty'
      BY <2>4, <2>5, <2>8
    <3> QED
      BY <2>4, <3>1 DEF Promised, Queued
  <2>9. e.name = n => Waits(events, n)
    <3>1. e.name = n => 1 \in DOMAIN events /\ events[1].name = n
      BY <2>1
    <3> QED
      BY <3>1 DEF Waits
  <2> HIDE DEF e
  <2> QED
    BY <2>6, <2>7, <2>8, <2>9
<1>3. CASE EnqueueAll
  <2>1. /\ UNCHANGED <<spc, watching, events, objects, dropped, delayed, processing, job, seen>>
        /\ dirty \subseteq dirty'
    BY <1>3 DEF EnqueueAll, Add, watch, cacheVars, world
  <2> QED
    BY <2>1, QuietStep
<1> QED
  BY <1>1, <1>2, <1>3

LEMMA TakeKeepsPromise ==
  ASSUME TypeOK, PromiseInv, NEW m \in Spcs, NEW w \in Workers, Take(w, m)
  PROVE  PromiseInv'
<1> SUFFICES ASSUME NEW n \in Spcs, watching', Valid(n)'
             PROVE  LastIsValid(events, n)' /\ Promised(n)'
  BY DEF PromiseInv
<1>1. /\ UNCHANGED <<spc, watching, events, objects, delayed>> /\ ~Busy(w)
      /\ dirty' = dirty \ {m} /\ processing' = processing \cup {m} /\ dropped' = dropped \ {m}
      /\ \A k \in Spcs : k # m => seen'[k] = seen[k]
  BY DEF Take, Get, watch, cacheVars, TypeOK, WorldTypeOK
<1>2. job'[w].step = "get" /\ job'[w].key = m /\ \A v \in Workers : v # w => job'[v] = job[v]
  BY DEF Take, TypeOK, JobsTypeOK
<1>3. LastIsValid(events, n) /\ Promised(n)
  BY <1>1 DEF PromiseInv, Valid, Exists
<1>4. LastIsValid(events, n)'
  BY <1>1, <1>3 DEF LastIsValid
<1>5. CASE m = n
  <2>1. OnTrack(w, n)'
    BY <1>2, <1>5 DEF OnTrack, Busy
  <2> QED
    BY <1>4, <2>1 DEF Promised
<1>6. CASE m # n
  <2>1. Queued(n) => Queued(n)'
    BY <1>1, <1>6 DEF Queued
  <2>2. \A v \in Workers : Busy(v) => job'[v] = job[v]
    BY <1>1, <1>2
  <2>3. n \in processing' => n \in processing
    BY <1>1, <1>6
  <2>4. seen'[n] = seen[n]
    BY <1>1, <1>6
  <2>5. Promised(n)'
    BY <1>1, <1>3, <2>1, <2>2, <2>3, <2>4, Bystander
  <2> QED
    BY <1>4, <2>5
<1> QED
  BY <1>5, <1>6

\* What a worker's step does to events, queue and cache.
LEMMA WorkerEffects ==
  ASSUME TypeOK, NEW w \in Workers, WorkerStep(w), watching'
  PROVE  LET m == job[w].key
         IN  /\ Busy(w) /\ m \in Spcs /\ watching
             /\ \A v \in Workers : v # w => job'[v] = job[v]
             /\ \A n \in Spcs : n # m => spc'[n] = spc[n] /\ objects'[n] = objects[n]
             /\ dirty' = dirty /\ delayed \subseteq delayed' /\ dropped \subseteq dropped'
             /\ processing' \subseteq processing /\ UNCHANGED seen
             /\ \/ UNCHANGED <<spc, events>>
                \/ /\ \A n \in Spcs : Valid(n)' => Valid(n)
                   /\ PatchArrives(w, "store") \/ PatchArrives(w, "failed")
                   /\ Emit(Event("MODIFIED", m, spc[m]))
<1> DEFINE m == job[w].key
<1>1. Busy(w)
  BY DEF WorkerStep, GetFound, GetNotFound, ForgetDeleted, ListSecrets, ListCertificates,
         ReconcileFails, PatchApplies, PatchUnanswered, PatchArrives, PatchRefused, Store,
         FinishOk, FinishRetry, FinishDrop, Busy
<1>2. m \in Spcs
  BY <1>1, JobOf DEF TypeOK, JobRecord
<1>3. \A v \in Workers : v # w => job'[v] = job[v]
  BY DEF WorkerStep, GetFound, GetNotFound, ForgetDeleted, ListSecrets, ListCertificates,
         ReconcileFails, PatchApplies, PatchUnanswered, PatchArrives, PatchRefused, Store,
         FinishOk, FinishRetry, FinishDrop, Moves, TypeOK, JobsTypeOK
<1>4. CASE \/ GetFound(w) \/ GetNotFound(w) \/ ListSecrets(w) \/ ListCertificates(w)
           \/ ReconcileFails(w) \/ PatchRefused(w)
  <2>1. UNCHANGED <<spc, watching, events, dropped, seen, queueVars, cacheVars>>
    BY <1>4 DEF GetFound, GetNotFound, ListSecrets, ListCertificates, ReconcileFails,
                PatchRefused, watch, world
  <2> QED
    BY <1>1, <1>2, <1>3, <2>1 DEF queueVars, cacheVars
<1>5. CASE ForgetDeleted(w) \/ Store(w)
  <2>1. UNCHANGED <<spc, watching, events, dropped, seen, queueVars>>
    BY <1>5 DEF ForgetDeleted, Store, watch, world
  <2>2. \A n \in Spcs : n # m => objects'[n] = objects[n]
    BY <1>5 DEF ForgetDeleted, Store, CacheDelete, CacheSet, TypeOK, CacheTypeOK
  <2> QED
    BY <1>1, <1>2, <1>3, <2>1, <2>2 DEF queueVars
<1>6. ASSUME NEW to, PatchArrives(w, to) PROVE /\ watching /\ \A n \in Spcs : Valid(n)' => Valid(n)
                                               /\ \A n \in Spcs : n # m => spc'[n] = spc[n]
                                               /\ UNCHANGED <<dropped, seen, queueVars, cacheVars>>
                                               /\ Emit(Event("MODIFIED", m, spc[m]))
  <2>1. /\ Exists(m) /\ Emit(Event("MODIFIED", m, spc[m]))
        /\ spc' = [spc EXCEPT ![m] = Patched(spc[m], job[w].obj, job[w].listed)]
        /\ UNCHANGED <<dropped, seen, queueVars, cacheVars>>
    BY <1>6 DEF PatchArrives, world
  <2>2. spc[m] \in SpcRecord
    BY <1>2, <2>1 DEF Exists, TypeOK, WorldTypeOK
  <2>3. Patched(spc[m], job[w].obj, job[w].listed).mode = spc[m].mode
    BY <2>2 DEF Patched, SpcRecord
  <2>4. spc'[m].mode = spc[m].mode /\ \A n \in Spcs : n # m => spc'[n] = spc[n]
    BY <1>2, <2>1, <2>3 DEF TypeOK, WorldTypeOK
  <2>5. watching
    BY <2>1 DEF Emit, watch
  <2>6. ASSUME NEW n \in Spcs, Valid(n)' PROVE Valid(n)
    BY <2>1, <2>4, <2>6 DEF Valid, Exists
  <2> QED
    BY <2>1, <2>4, <2>5, <2>6
<1>7. CASE PatchApplies(w) \/ PatchUnanswered(w)
  <2>1. PatchArrives(w, "store") \/ PatchArrives(w, "failed")
    BY <1>7 DEF PatchApplies, PatchUnanswered
  <2>2. /\ watching /\ \A n \in Spcs : Valid(n)' => Valid(n)
        /\ \A n \in Spcs : n # m => spc'[n] = spc[n]
        /\ UNCHANGED <<dropped, seen, queueVars, cacheVars>>
        /\ Emit(Event("MODIFIED", m, spc[m]))
    BY <1>6, <2>1
  <2> QED
    BY <1>1, <1>2, <1>3, <2>1, <2>2 DEF queueVars, cacheVars
<1>8. CASE FinishOk(w) \/ FinishRetry(w) \/ FinishDrop(w)
  BY <1>1, <1>2, <1>3, <1>8
  DEF FinishOk, FinishRetry, FinishDrop, Forget, AddRateLimited, Done, watch, cacheVars, world
<1> QED
  BY <1>4, <1>5, <1>7, <1>8 DEF WorkerStep

\* The worker's own SPC.
LEMMA OwnStep ==
  ASSUME TypeOK, OneWorkerPerKey, ListedWasSeen, NEW w \in Workers, WorkerStep(w), NEW n \in Spcs,
         n = job[w].key, UNCHANGED <<spc, events>>, Valid(n), Promised(n), watching'
  PROVE  Promised(n)'
<1> USE DEF TypeOK
<1>1. /\ Busy(w) /\ dirty' = dirty /\ delayed \subseteq delayed' /\ dropped \subseteq dropped'
      /\ UNCHANGED seen
  BY WorkerEffects
<1>2. CASE Waits(events, n) \/ Queued(n)
  BY <1>1, <1>2 DEF Promised, Waits, Queued
<1>3. job[w] \in JobRecord
  BY <1>1, JobOf
<1>4. CASE ~(Waits(events, n) \/ Queued(n))
  <2>1. OnTrack(w, n)
    <3>1. n \in processing
      BY <1>1 DEF OneWorkerPerKey
    <3>2. \A v \in Workers : OnTrack(v, n) => v = w
      BY <1>1 DEF OneWorkerPerKey, OnTrack
    <3> QED
      BY <1>4, <3>1, <3>2 DEF Promised
  <2> SUFFICES \/ OnTrack(w, n)' \/ Queued(n)'
               \/ n \notin processing' /\ Current(n)' /\ SyncedLately(n)'
    BY DEF Promised
  <2>0. SyncedLately(n) => SyncedLately(n)'
    BY <1>1, StaysSynced
  <2>2. ASSUME NEW to \in Steps, Moves(w, to)
        PROVE  /\ job'[w].step = to /\ job'[w].key = n /\ job'[w].obj = job[w].obj
               /\ to # "idle"
    BY <1>3, <2>2 DEF Moves, JobsTypeOK, JobRecord, Steps
  <2>3. CASE GetFound(w)
    <3>1. job'[w].step = "secrets" /\ job'[w].key = n /\ job'[w].obj = spc[n]
      BY <1>3, <2>3 DEF GetFound, Valid, JobsTypeOK, JobRecord
    <3> QED
      BY <3>1 DEF OnTrack, Busy, Agree
  <2>4. CASE GetNotFound(w) \/ ForgetDeleted(w)
    BY <2>1, <2>4 DEF GetNotFound, ForgetDeleted, Valid, OnTrack
  <2>5. CASE ListSecrets(w)
    <3>1. job'[w].step = "certs" /\ job'[w].key = n /\ job'[w].obj = job[w].obj
      BY <1>3, <2>5 DEF ListSecrets, JobsTypeOK, JobRecord
    <3>2. Agree(job[w].obj, spc[n])
      BY <2>1, <2>5 DEF ListSecrets, OnTrack
    <3> QED
      BY <3>1, <3>2 DEF OnTrack, Busy
  <2>6. CASE ListCertificates(w)
    <3> DEFINE tags == [i \in Items |-> IF i \in SecretItems THEN job[w].listed[i] ELSE vault[i]]
               to == IF NeedsPatch(job[w].obj, tags) THEN "patch" ELSE "store"
    <3>1. job'[w].step = to /\ job'[w].key = n /\ job'[w].obj = job[w].obj
      BY <1>3, <2>6 DEF ListCertificates, JobsTypeOK, JobRecord
    <3>2. job[w].obj \in SpcRecord /\ DOMAIN job[w].listed = SecretItems
      BY <1>3, <2>6 DEF ListCertificates, JobsTypeOK, JobRecord
    <3>3. Agree(job[w].obj, spc[n])
      BY <2>1, <2>6 DEF ListCertificates, OnTrack
    <3>4. job[w].listed \in [SecretItems -> Tags]
      BY <1>3, <3>2 DEF JobRecord
    <3>5. tags \in [Items -> Tags]
      BY <3>4 DEF WorldTypeOK
    <3>6. \A i \in Items : tags[i] \in seen[n][i]
      BY <1>1, <3>2 DEF ListedWasSeen, SecretItems
    <3>7. tags \in AskedLately(n)
      BY <3>5, <3>6 DEF AskedLately
    <3> HIDE DEF tags
    <3>8. CASE NeedsPatch(job[w].obj, tags)
      BY <3>1, <3>8 DEF OnTrack, Busy
    <3>9. CASE ~NeedsPatch(job[w].obj, tags)
      <4>1. SyncedLately(n)
        BY <3>2, <3>3, <3>5, <3>7, <3>9, NoPatchIsWanted DEF SyncedLately, Agree
      <4> QED
        BY <2>0, <3>1, <3>3, <3>9, <4>1 DEF OnTrack, Busy
    <3> QED
      BY <3>8, <3>9
  <2>7. CASE ReconcileFails(w) \/ PatchRefused(w) \/ PatchUnanswered(w)
    <3>1. job'[w].step = "failed" /\ job'[w].key = n
      BY <2>2, <2>7 DEF ReconcileFails, PatchRefused, PatchUnanswered, PatchArrives, Steps
    <3> QED
      BY <3>1 DEF OnTrack, Busy
  <2>8. CASE PatchApplies(w)
    <3>1. job[w].step = "patch" /\ Emit(Event("MODIFIED", n, spc[n]))
      BY <2>8 DEF PatchApplies, PatchArrives
    <3>2. events \in Seq(EventRecord) /\ watching /\ events' = Append(events, Event("MODIFIED", n, spc[n]))
      BY <3>1 DEF Emit, watch, WorldTypeOK
    <3>3. Len(events') = Len(events) + 1
      BY <3>2, EventType
    <3> QED
      BY <3>2, <3>3
  <2>9. CASE Store(w)
    <3>1. job'[w].step = "done" /\ job'[w].key = n
      BY <2>2, <2>9 DEF Store, Steps
    <3>2. Agree(job[w].obj, spc[n]) /\ SyncedLately(n)
      BY <2>1, <2>9 DEF Store, OnTrack
    <3>3. objects'[n] = Names(job[w].obj) /\ Names(job[w].obj) = Names(spc[n])
      BY <2>9, <3>2 DEF Store, CacheSet, Names, CacheTypeOK, Agree
    <3> QED
      BY <2>0, <3>1, <3>2, <3>3 DEF OnTrack, Busy, Current
  <2>10. CASE FinishOk(w)
    <3>1. Current(n) /\ SyncedLately(n) /\ n \notin processing' /\ UNCHANGED objects
      BY <2>1, <2>10 DEF FinishOk, OnTrack, Done, cacheVars
    <3> QED
      BY <2>0, <3>1 DEF Current
  <2>11. CASE FinishRetry(w) \/ FinishDrop(w)
    BY <2>11 DEF FinishRetry, FinishDrop, AddRateLimited, Queued
  <2> QED
    BY <2>3, <2>4, <2>5, <2>6, <2>7, <2>8, <2>9, <2>10, <2>11 DEF WorkerStep
<1> QED
  BY <1>2, <1>4

LEMMA WorkerKeepsPromise ==
  ASSUME TypeOK, OneWorkerPerKey, ListedWasSeen, PromiseInv, NEW w \in Workers, WorkerStep(w)
  PROVE  PromiseInv'
<1> SUFFICES ASSUME NEW n \in Spcs, watching', Valid(n)'
             PROVE  LastIsValid(events', n) /\ Promised(n)'
  BY DEF PromiseInv, LastIsValid
<1> DEFINE m == job[w].key
           e == Event("MODIFIED", m, spc[m])
<1>1. /\ Busy(w) /\ m \in Spcs /\ watching
      /\ \A v \in Workers : v # w => job'[v] = job[v]
      /\ \A k \in Spcs : k # m => spc'[k] = spc[k] /\ objects'[k] = objects[k]
      /\ dirty' = dirty /\ delayed \subseteq delayed' /\ dropped \subseteq dropped'
      /\ processing' \subseteq processing /\ UNCHANGED seen
      /\ \/ UNCHANGED <<spc, events>>
         \/ (\A k \in Spcs : Valid(k)' => Valid(k)) /\ Emit(e)
  BY WorkerEffects
<1>2. e \in EventRecord /\ e.name = m /\ e.type # "DELETED" /\ e.valid = (spc[m].mode # "off")
  BY <1>1, EventType DEF Event
<1> HIDE DEF e
<1>3. Valid(n)
  BY <1>1 DEF Valid, Exists
<1>4. LastIsValid(events, n) /\ Promised(n)
  BY <1>1, <1>3 DEF PromiseInv
<1>5. CASE n # m
  <2>1. (Waits(events, n) => Waits(events', n)) /\ LastIsValid(events', n)
    BY <1>1, <1>2, <1>4, <1>5, EmitEvents DEF TypeOK
  <2>2. Queued(n) => Queued(n)'
    BY <1>1 DEF Queued
  <2> HIDE DEF m
  <2>3. \A v \in Workers : Busy(v) /\ job[v].key = n => v # w
    BY <1>5 DEF m
  <2> QED
    BY <1>1, <1>4, <1>5, <2>1, <2>2, <2>3, Bystander
<1>6. CASE n = m /\ UNCHANGED <<spc, events>>
  <2>1. LastIsValid(events', n)
    BY <1>4, <1>6
  <2> QED
    BY <1>3, <1>4, <1>6, <2>1, OwnStep
<1>7. CASE n = m /\ Emit(e)
  <2>1. e.valid
    BY <1>2, <1>3, <1>7 DEF Valid
  <2>2. Waits(events', n) /\ LastIsValid(events', n)
    BY <1>2, <1>7, <2>1, EmitEvents DEF TypeOK
  <2> QED
    BY <2>2 DEF Promised, Waits
<1> QED
  BY <1>1, <1>5, <1>6, <1>7

LEMMA PromiseInvariant == Spec => []PromiseInv
<1>1. Init => PromiseInv
  BY DEF Init, PromiseInv
<1>2. TypeOK /\ OneWorkerPerKey /\ ListedWasSeen /\ PromiseInv /\ [Next]_vars => PromiseInv'
  <2> SUFFICES ASSUME TypeOK, OneWorkerPerKey, ListedWasSeen, PromiseInv, [Next]_vars
               PROVE  PromiseInv'
    OBVIOUS
  <2>1. ASSUME NEW n \in Spcs, DelayElapsesFor(n) PROVE PromiseInv'
    <3>1. /\ UNCHANGED <<spc, watching, events, objects, dropped, processing, job, seen>>
          /\ dirty' \cup delayed' = dirty \cup delayed
      BY <2>1 DEF DelayElapsesFor, DelayElapses, watch, cacheVars, world
    <3> QED
      BY <3>1, QuietStep
  <2>2. CASE UNCHANGED vars
    <3>1. UNCHANGED <<spc, watching, events, objects, dropped, dirty, delayed, processing, job, seen>>
      BY <2>2 DEF vars, watch, queueVars, cacheVars, world
    <3> QED
      BY <3>1, QuietStep
  <2> QED
    BY <2>1, <2>2, EnvironmentKeepsPromise, WatchLoopKeepsPromise, TakeKeepsPromise,
       WorkerKeepsPromise
    DEF Next
<1> QED
  BY <1>1, <1>2, TypeCorrect, OneWorkerPerResource, SeenInvariant, PTL DEF Spec

\* An SPC that has settled without being given up.
LEMMA SettledMeans ==
  ASSUME OneWorkerPerKey, PromiseInv, NEW n \in Spcs, Settled(n), Valid(n), n \notin dropped
  PROVE  Current(n) /\ SyncedLately(n)
<1>1. Promised(n) /\ ~Waits(events, n) /\ ~Queued(n) /\ n \notin processing
  BY DEF PromiseInv, Settled, Waits, Queued
<1>2. \A w \in Workers : ~OnTrack(w, n)
  BY <1>1 DEF OneWorkerPerKey, OnTrack
<1> QED
  BY <1>1, <1>2 DEF Promised

\* THEOREM.  For any numbers of SPCs, workers, items and events in flight:
\* once the work on an SPC has settled without being given up, the cache
\* mirrors it, although what a reconcile stores is older than its own patch.
THEOREM CacheCatchesUp == Spec => []SettledCacheIsCurrent
<1>1. OneWorkerPerKey /\ PromiseInv => SettledCacheIsCurrent
  BY SettledMeans DEF SettledCacheIsCurrent, Current, Names
<1> QED
  BY <1>1, PromiseInvariant, OneWorkerPerResource, PTL

\* THEOREM.  For any numbers of SPCs, workers, items, retries and edits: no
\* failure, lost answer, race or restart leaves an SPC behind that is not what
\* the vault asked for and that nobody is going to look at again, unless it was
\* given up after its last retry.  What Converges adds to this is only that
\* queues empty and given-up keys come back, which is a matter of fairness.
THEOREM NothingForgotten == Spec => []SettledIsSynced
<1>1. OneWorkerPerKey /\ PromiseInv => SettledIsSynced
  BY SettledMeans DEF SettledIsSynced
<1> QED
  BY <1>1, PromiseInvariant, OneWorkerPerResource, PTL

----------------------------------------------------------------------------
(* When patching stops.  PatchesStop is liveness and stays with TLC; these  *)
(* are the facts about the comparison and the patch that it rests on, and   *)
(* that its counterexample shows the other side of.                         *)

\* A secret and a certificate of one name that both want a Kubernetes Secret.
Namesakes(tags) ==
  \E g, h \in WantedSecretObjects(tags) :
    g.name = h.name /\ g.kind = "secret" /\ h.kind = "cert"

\* THEOREM.  Without namesakes one undisturbed patch is enough: whatever the
\* SPC holds, a reconcile that fetches it as the patch left it, and lists the
\* same tags, finds nothing to patch.
THEOREM PatchSettles ==
  ASSUME NEW s \in SpcRecord, NEW obj \in SpcRecord, Agree(obj, s),
         NEW tags \in [Items -> Tags], ~Namesakes(tags)
  PROVE  ~NeedsPatch(Patched(s, obj, tags), tags)
<1> DEFINE wanted == WantedSecretObjects(tags)
           after == Patched(s, obj, tags)
<1>1. /\ after.objects = WantedObjects(tags)
      /\ after.secretObjects = IF CompareSecretObjects(s.secretObjects, wanted)
                                 THEN wanted ELSE s.secretObjects
  BY DEF Patched, SpcRecord, Agree
<1>2. ~CompareSecretObjects(wanted, wanted)
  <2> SUFFICES ASSUME NEW g \in wanted PROVE g \in ByName(wanted, g.name)
    BY DEF CompareSecretObjects
  <2>1. g \in Items /\ wanted \subseteq Items
    BY DEF WantedSecretObjects
  <2>2. g.kind \in {"secret", "cert"}
    BY <2>1, ItemsType DEF Kinds
  <2>3. \A h \in wanted : h.name = g.name /\ h.kind = "cert" => g.kind = "cert"
    BY <2>2 DEF Namesakes
  <2> HIDE DEF wanted
  <2> QED
    BY <2>3 DEF ByName
<1>3. ~CompareSecretObjects(after.secretObjects, wanted)
  BY <1>1, <1>2
<1> QED
  BY <1>1, <1>3 DEF NeedsPatch

\* THEOREM.  With namesakes no patch is ever enough: whatever the SPC holds,
\* the comparison, which looks existing secretObjects up by name alone, asks
\* for a patch.  This is what makes PatchesStop fail.
THEOREM NamesakesNeverSettle ==
  ASSUME NEW obj \in SpcRecord, NEW tags \in [Items -> Tags], Namesakes(tags)
  PROVE  NeedsPatch(obj, tags)
<1> DEFINE wanted == WantedSecretObjects(tags)
<1>1. SUFFICES ASSUME ~NeedsPatch(obj, tags) PROVE FALSE
  OBVIOUS
<1>2. obj.secretObjects = wanted /\ ~CompareSecretObjects(obj.secretObjects, wanted)
  BY <1>1, NoPatchIsWanted DEF NeedsPatch
<1>3. \A g \in wanted : g \in ByName(wanted, g.name)
  BY <1>2 DEF CompareSecretObjects
<1>4. PICK g, h \in wanted : g.name = h.name /\ g.kind = "secret" /\ h.kind = "cert"
  BY DEF Namesakes
<1> HIDE DEF wanted
<1>5. ByName(wanted, g.name) = {i \in wanted : i.name = g.name /\ i.kind = "cert"}
  BY <1>4 DEF ByName
<1> QED
  BY <1>3, <1>4, <1>5

----------------------------------------------------------------------------
(* The cache in the controller *)

\* THEOREM.  Workers, the watch loop and restarts leave the index as sound as
\* any order of single writes does: whoever looks a Secret up between any two
\* of their steps is led to a cached SPC that lists it.
THEOREM ControllerIndexIsSound == Spec => []IndexSound
<1>1. Init => IndexSound
  BY DEF Init, CacheInit, IndexSound, FindSPCForSecret
<1>2. TypeOK /\ IndexSound /\ [Next]_vars => IndexSound'
  <2> SUFFICES ASSUME TypeOK, IndexSound, [Next]_vars PROVE IndexSound'
    OBVIOUS
  <2> USE DEF TypeOK
  <2>1. ASSUME NEW n \in Spcs, CacheDelete(n) PROVE IndexSound'
    <3>1. Listed(Absent) = {}
      BY DEF Listed
    <3> QED
      BY <2>1, <3>1, WriteKeepsSound DEF CacheDelete
  <2>2. ASSUME NEW n \in Spcs, NEW obj, CacheSet(n, obj) PROVE IndexSound'
    BY <2>2, WriteKeepsSound DEF CacheSet
  <2>3. CASE UNCHANGED cacheVars
    BY <2>3 DEF cacheVars, IndexSound, FindSPCForSecret
  <2>4. CASE Restart
    BY <2>4 DEF Restart, IndexSound, FindSPCForSecret
  <2>5. CASE HandleEvent
    <3>1. events \in Seq(EventRecord) /\ events # << >>
      BY <2>5 DEF HandleEvent, WorldTypeOK
    <3>2. Head(events) \in EventRecord
      BY <3>1
    <3>3. Head(events).name \in Spcs
      BY <3>2 DEF EventRecord
    <3> QED
      BY <2>1, <2>3, <2>5, <3>3 DEF HandleEvent, HandleAdded, HandleModified, HandleDeleted
  <2>6. ASSUME NEW w \in Workers, ForgetDeleted(w) \/ Store(w) PROVE IndexSound'
    <3>1. job[w].key \in Spcs
      BY <2>6, JobOf DEF ForgetDeleted, Store, JobRecord
    <3> QED
      BY <2>1, <2>2, <2>6, <3>1 DEF ForgetDeleted, Store
  <2>7. ASSUME NEW w \in Workers, WorkerStep(w) PROVE IndexSound'
    BY <2>3, <2>6, <2>7
    DEF WorkerStep, GetFound, GetNotFound, ListSecrets, ListCertificates, ReconcileFails,
        PatchApplies, PatchUnanswered, PatchArrives, PatchRefused, FinishOk, FinishRetry,
        FinishDrop
  <2>8. CASE Environment
    BY <2>3, <2>4, <2>8
    DEF Environment, UserCreates, UserSetsMode, UserResets, UserDeletes, UserWrites,
        VaultChanges, OutageFlips, WatchCloses
  <2> QED
    BY <2>3, <2>5, <2>7, <2>8
    DEF Next, WatchConnects, EnqueueAll, DelayElapsesFor, Take, vars
<1> QED
  BY <1>1, <1>2, TypeCorrect, PTL DEF Spec
===============================================================================
