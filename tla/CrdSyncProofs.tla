----------------------------- MODULE CrdSyncProofs -----------------------------
(***************************************************************************)
(* CRD mode for any number of sources, vault items and edits: its state is *)
(* well-formed, and whatever a reconcile writes is of one source and from  *)
(* a list of its own, however stale the copies are that it works with.     *)
(***************************************************************************)
EXTENDS CrdSync, TLAPS

----------------------------------------------------------------------------
(* Values *)

JobType(j) ==
  /\ j \in JobRecord \cup {Idle}
  /\ j # Idle => (j.akv = Gone <=> j.step = "fetch")

LEMMA IdleIsNoRecord == Idle \notin JobRecord /\ Idle.step = "idle"
BY DEF Idle, JobRecord

\* What the generator makes is an SPC.
LEMMA GenerateType ==
  ASSUME NEW sync \in AkvRecord, NEW tags \in [Items -> Tags]
  PROVE  Generate(sync, tags) \in SpcRecord
BY DEF Generate, Objects, SecretObjects, Notes, AkvRecord, SpcRecord

\* A copy that grows stale changes nothing else of the reconcile.
LEMMA StaleType ==
  ASSUME NEW j, JobType(j)
  PROVE  /\ JobType(StaleAkv(j)) /\ JobType(StaleSpc(j))
         /\ \A k \in {StaleAkv(j), StaleSpc(j)} :
              /\ k # Idle <=> j # Idle
              /\ j # Idle => /\ k.step = j.step /\ k.akv = j.akv
                             /\ k.listed = j.listed
<1>1. CASE j = Idle
  BY <1>1 DEF JobType, StaleAkv, StaleSpc
<1>2. CASE j # Idle
  <2>1. j \in JobRecord /\ (j.akv = Gone <=> j.step = "fetch")
    BY <1>2 DEF JobType
  <2> DEFINE a == [j EXCEPT !.akvFresh = FALSE]
             s == [j EXCEPT !.spcFresh = FALSE]
  <2>2. a \in JobRecord /\ a.step = j.step /\ a.akv = j.akv /\ a.listed = j.listed
    BY <2>1 DEF JobRecord
  <2>3. s \in JobRecord /\ s.step = j.step /\ s.akv = j.akv /\ s.listed = j.listed
    BY <2>1 DEF JobRecord
  <2>4. StaleAkv(j) = a /\ StaleSpc(j) = s
    BY <1>2 DEF StaleAkv, StaleSpc
  <2> HIDE DEF a, s
  <2>5. a # Idle /\ s # Idle
    BY <2>2, <2>3, IdleIsNoRecord
  <2> QED
    BY <1>2, <2>1, <2>2, <2>3, <2>4, <2>5 DEF JobType
<1> QED
  BY <1>1, <1>2

\* A reconcile in its middle has a sync in hand.
LEMMA JobOf ==
  ASSUME TypeOK, job # Idle
  PROVE  /\ job \in JobRecord
         /\ job.step # "fetch" => job.akv \in AkvRecord /\ job.akv.source \in Sources
BY DEF TypeOK, JobRecord, AkvRecord

----------------------------------------------------------------------------
(* Type correctness *)

ClusterType ==
  /\ akv \in AkvRecord \cup {Gone} /\ spc \in SpcRecord \cup {Gone}
  /\ vault \in [Sources -> [Items -> Tags]]
  /\ akvView \in AkvRecord \cup {Gone} /\ spcView \in SpcRecord \cup {Gone}
  /\ {akvCurrent, spcCurrent, queued, later, failed, outage} \subseteq BOOLEAN
  /\ clock \in Seconds /\ edits \in 0 .. MaxEdits
  /\ patching \in PatchRecord \cup {NoPatch}
  /\ seen \in [Sources -> [Items -> SUBSET Tags]]

\* The tags of this moment are tags.
LEMMA NowType ==
  ASSUME vault \in [Sources -> [Items -> Tags]]
  PROVE  /\ Now \in [Sources -> [Items -> SUBSET Tags]]
         /\ \A s \in Sources, i \in Items : vault[s][i] \in Now[s][i]
BY DEF Now

\* The API server takes an update only of the object that was read.  That is
\* why a status update never meets a sync that is gone.
FreshIsCurrent ==
  /\ akvCurrent => akvView = akv
  /\ spcCurrent => spcView = spc
  /\ job # Idle /\ job.step # "fetch" => (job.akvFresh => job.akv = akv)

\* Annotation mode touches nothing but the SPC, and then its copies grow stale.
LEMMA AnnotationLeaves ==
  ASSUME AnnotationMode
  PROVE  /\ UNCHANGED <<akv, akvView, akvCurrent, spcView, queued, later, failed>>
         /\ UNCHANGED <<vault, clock, outage, edits, seen>>
         /\ \/ UNCHANGED <<spc, spcCurrent, job>>
            \/ spcCurrent' = FALSE /\ job' = StaleSpc(job)
BY DEF AnnotationMode, AnnotationReads, AnnotationPatches, AnnotationFails, WriteSpc,
       cluster, views, queue

LEMMA TypeParts == /\ TypeOK <=> ClusterType /\ JobType(job)
                   /\ TypeOK' <=> ClusterType' /\ JobType(job')
BY DEF TypeOK, ClusterType, JobType

LEMMA InitType == Init => TypeOK
<1> SUFFICES ASSUME Init PROVE TypeOK
  OBVIOUS
<1>1. 0 \in Uids /\ 0 \in Seconds /\ 0 \in 0 .. MaxEdits
  BY EditsNat DEF Uids, Seconds
<1>2. akv \in AkvRecord
  BY <1>1, FirstSourcesType DEF Init, AkvRecord
<1> QED
  BY <1>1, <1>2, NowType DEF Init, TypeOK

LEMMA RuntimeType == TypeOK /\ Runtime => TypeOK'
<1> SUFFICES ASSUME TypeOK, Runtime PROVE TypeOK'
  OBVIOUS
<1>1. CASE AkvInformed
  BY <1>1 DEF AkvInformed, TypeOK, cluster, world
<1>2. CASE SpcInformed
  BY <1>2 DEF SpcInformed, TypeOK, cluster, world
<1>3. CASE DelayElapses
  BY <1>3 DEF DelayElapses, TypeOK, cluster, views, world
<1>4. CASE Take
  <2>1. "none" \in Tags
    BY TagsType
  <2>2. job' \in JobRecord /\ job'.akv = Gone /\ job'.step = "fetch"
    BY <1>4, <2>1 DEF Take, JobRecord, Nothing
  <2>3. JobType(job')
    BY <2>2 DEF JobType
  <2>4. ClusterType'
    BY <1>4 DEF Take, TypeOK, ClusterType, cluster, views, world
  <2> QED
    BY <2>3, <2>4, TypeParts
<1> QED
  BY <1>1, <1>2, <1>3, <1>4 DEF Runtime

\* What a reconcile does next, if it does not end.
LEMMA ReconcileJob ==
  ASSUME TypeOK, Reconcile, job' # Idle
  PROVE  JobType(job')
<1>1. job \in JobRecord /\ job # Idle
  BY JobOf DEF Reconcile, FetchSync, FetchNothing, ListSecrets, GetSpc, CreateSpc, UpdateSpc,
               ReconcileFails, UpdateStatus, StatusFails
<1>2. CASE FetchSync
  <2>1. akvView \in AkvRecord /\ akvView # Gone /\ akvCurrent \in BOOLEAN
    BY <1>2 DEF FetchSync, TypeOK
  <2>2. job' = [job EXCEPT !.akv = akvView, !.akvFresh = akvCurrent, !.step = "list"]
    BY <1>2 DEF FetchSync
  <2>3. job' \in JobRecord /\ job'.akv = akvView /\ job'.step = "list"
    BY <1>1, <2>1, <2>2 DEF JobRecord
  <2> QED
    BY <2>1, <2>3 DEF JobType
<1>3. CASE ListSecrets
  <2>1. job.step = "list" /\ job.akv \in AkvRecord /\ job.akv.source \in Sources
    BY <1>1, <1>3, JobOf DEF ListSecrets
  <2>2. vault[job.akv.source] \in [Items -> Tags]
    BY <2>1 DEF TypeOK
  <2>3. job' \in JobRecord /\ job'.akv = job.akv /\ job'.step = "get"
    BY <1>1, <1>3, <2>2 DEF ListSecrets, JobRecord
  <2> QED
    BY <2>1, <2>3, GoneIsNoRecord DEF JobType
<1>4. CASE GetSpc
  <2> DEFINE to == IF spcView = Gone \/ Differs(spcView, Generate(job.akv, job.listed))
                   THEN "write" ELSE "status"
  <2>1. job.step = "get" /\ job.akv \in AkvRecord
    BY <1>1, <1>4, JobOf DEF GetSpc
  <2>2. job' = [job EXCEPT !.found = spcView # Gone, !.spcFresh = spcCurrent, !.step = to]
    BY <1>4 DEF GetSpc
  <2>3. to \in {"write", "status"}
    OBVIOUS
  <2> HIDE DEF to
  <2>4. (spcView # Gone) \in BOOLEAN /\ spcCurrent \in BOOLEAN
    BY DEF TypeOK
  <2>5. job' \in JobRecord /\ job'.akv = job.akv /\ job'.step = to
    BY <1>1, <2>2, <2>3, <2>4 DEF JobRecord
  <2> QED
    BY <2>1, <2>3, <2>5, GoneIsNoRecord DEF JobType
<1>5. CASE CreateSpc \/ UpdateSpc
  <2>1. job.step = "write" /\ job.akv \in AkvRecord
    BY <1>1, <1>5, JobOf DEF CreateSpc, UpdateSpc
  <2>2. job' = [job EXCEPT !.step = "status"]
    BY <1>5 DEF CreateSpc, UpdateSpc, Answered, Fails
  <2>3. job' \in JobRecord /\ job'.akv = job.akv /\ job'.step = "status"
    BY <1>1, <2>2 DEF JobRecord
  <2> QED
    BY <2>1, <2>3, GoneIsNoRecord DEF JobType
<1> QED
  BY <1>2, <1>3, <1>4, <1>5
  DEF Reconcile, FetchNothing, ReconcileFails, UpdateStatus, StatusFails, Fails, Succeeds

LEMMA ReconcileCluster ==
  ASSUME TypeOK, FreshIsCurrent, Reconcile
  PROVE  ClusterType'
<1>1. CASE FetchSync \/ FetchNothing \/ ListSecrets \/ GetSpc
  BY <1>1, NowType DEF FetchSync, FetchNothing, ListSecrets, GetSpc, Succeeds, TypeOK, ClusterType,
              cluster, views, queue, world
<1>2. CASE CreateSpc \/ UpdateSpc
  <2>1. job # Idle /\ job.step = "write"
    BY <1>2 DEF CreateSpc, UpdateSpc
  <2>2. job.akv \in AkvRecord /\ job.listed \in [Items -> Tags]
    BY <2>1, JobOf DEF JobRecord
  <2>3. Generate(job.akv, job.listed) \in SpcRecord
    BY <2>2, GenerateType
  <2>4. /\ spc' = Generate(job.akv, job.listed) /\ spcCurrent' = FALSE
        /\ UNCHANGED <<akv, akvView, akvCurrent, spcView, world, queued>>
        /\ later' \in {later, TRUE} /\ failed' \in {failed, TRUE}
    BY <1>2 DEF CreateSpc, UpdateSpc, WriteSpc, Answered, Fails, queue
  <2> QED
    BY <2>3, <2>4 DEF TypeOK, ClusterType, world
<1>3. CASE ReconcileFails \/ StatusFails
  BY <1>3 DEF ReconcileFails, StatusFails, Fails, Succeeds, TypeOK, ClusterType,
              cluster, views, world
<1>4. CASE UpdateStatus
  <2>1. akv \in AkvRecord
    BY <1>4, JobOf DEF UpdateStatus, FreshIsCurrent
  <2>2. CASE UNCHANGED <<akv, akvView, akvCurrent>>
    BY <1>4, <2>2 DEF UpdateStatus, Succeeds, TypeOK, ClusterType, world
  <2>3. CASE WriteAkv([akv EXCEPT !.time = clock])
    <3>1. [akv EXCEPT !.time = clock] \in AkvRecord
      BY <2>1 DEF TypeOK, AkvRecord
    <3> QED
      BY <1>4, <2>3, <3>1 DEF UpdateStatus, Succeeds, WriteAkv, TypeOK, ClusterType, world
  <2> QED
    BY <1>4, <2>2, <2>3 DEF UpdateStatus
<1> QED
  BY <1>1, <1>2, <1>3, <1>4 DEF Reconcile

LEMMA AnnotationType ==
  ASSUME TypeOK, AnnotationMode
  PROVE  patching' \in PatchRecord \cup {NoPatch} /\ spc' \in SpcRecord \cup {Gone}
<1>1. CASE AnnotationReads
  <2>1. spc \in SpcRecord /\ vault[spc.source] \in [Items -> Tags]
    BY <1>1 DEF AnnotationReads, TypeOK, SpcRecord
  <2>2. Unfiltered(vault[spc.source]) \in [Items -> AllTags]
    BY <2>1, TagsType DEF Unfiltered, AllTags
  <2>3. PICK to \in {"replace", "remove", "leave"} :
          patching' = [tags |-> Unfiltered(vault[spc.source]), secretObjects |-> to]
    BY <1>1 DEF AnnotationReads
  <2>4. patching' \in PatchRecord
    BY <2>2, <2>3 DEF PatchRecord
  <2> QED
    BY <1>1, <2>4 DEF AnnotationReads, TypeOK, cluster
<1>2. CASE AnnotationPatches
  <2>1. spc \in SpcRecord
    BY <1>2 DEF AnnotationPatches, PatchRefused, TypeOK
  <2>2. PICK ks \in SUBSET Items : spc' = [spc EXCEPT
          !.objects = Objects(patching.tags), !.secretObjects = ks,
          !.notes = @ \cup Notes(patching.tags) \cup {"last-sync"}]
    BY <1>2, <2>1 DEF AnnotationPatches, WriteSpc, SecretObjects, SpcRecord
  <2>3. spc' \in SpcRecord
    BY <2>1, <2>2 DEF SpcRecord, Objects, Notes, Foreign
  <2> QED
    BY <1>2, <2>3 DEF AnnotationPatches
<1>3. CASE AnnotationFails
  BY <1>3 DEF AnnotationFails, TypeOK, cluster
<1> QED
  BY <1>1, <1>2, <1>3 DEF AnnotationMode

LEMMA EnvironmentType == TypeOK /\ (Environment \/ GarbageCollects) => TypeOK'
<1> SUFFICES ASSUME TypeOK, Environment \/ GarbageCollects PROVE TypeOK'
  OBVIOUS
<1>1. JobType(job) /\ JobType(StaleAkv(job)) /\ JobType(StaleSpc(job))
  BY TypeParts, StaleType
<1>2. ASSUME NEW new \in AkvRecord \cup {Gone}, UserWritesSync(new) PROVE TypeOK'
  <2>1. edits' \in 0 .. MaxEdits
    BY <1>2, EditsNat DEF UserWritesSync, Edit, TypeOK
  <2>2. /\ akv' = new /\ akvCurrent' = FALSE
        /\ UNCHANGED <<akvView, spc, spcView, spcCurrent, vault, seen, queue, clock, outage, patching>>
    BY <1>2 DEF UserWritesSync, WriteAkv, Edit
  <2>3. ClusterType'
    BY <2>1, <2>2 DEF TypeOK, ClusterType, queue
  <2> QED
    BY <1>1, <1>2, <2>3, TypeParts DEF UserWritesSync
<1>3. CASE UserCreatesSync
  <2>1. PICK s \in Sources : UserWritesSync([uid |-> edits', source |-> s, time |-> 0])
    BY <1>3 DEF UserCreatesSync
  <2>2. edits' \in Uids /\ 0 \in Seconds
    BY <2>1, EditsNat DEF UserWritesSync, Edit, TypeOK, Uids, Seconds
  <2>3. [uid |-> edits', source |-> s, time |-> 0] \in AkvRecord
    BY <2>2 DEF AkvRecord
  <2> QED
    BY <1>2, <2>1, <2>3
<1>4. CASE UserEditsSync
  <2>1. akv \in AkvRecord
    BY <1>4 DEF UserEditsSync, TypeOK
  <2>2. \A s \in Sources : [akv EXCEPT !.source = s] \in AkvRecord
    BY <2>1 DEF AkvRecord
  <2> QED
    BY <1>2, <1>4, <2>2 DEF UserEditsSync
<1>5. CASE UserDeletesSync
  BY <1>2, <1>5 DEF UserDeletesSync
<1>6. CASE UserWritesSpc
  <2>1. BareSpcs \subseteq SpcRecord
    BY DEF BareSpcs, SpcRecord, Foreign
  <2>2. spc # Gone => /\ [spc EXCEPT !.objects = {}] \in SpcRecord
                      /\ [spc EXCEPT !.notes = @ \cap Foreign] \in SpcRecord
                      /\ [spc EXCEPT !.notes = @ \cup {"service-account"}] \in SpcRecord
    BY DEF TypeOK, SpcRecord, Foreign
  <2>3. /\ spc' \in SpcRecord \cup {Gone} /\ spcCurrent' = FALSE
        /\ UNCHANGED <<spcView, akv, akvView, akvCurrent, vault, seen, queue, clock, outage, patching>>
    BY <1>6, <2>1, <2>2 DEF UserWritesSpc, WriteSpc, Edit
  <2>4. edits' \in 0 .. MaxEdits
    BY <1>6, EditsNat DEF UserWritesSpc, Edit, TypeOK
  <2>5. ClusterType'
    BY <2>3, <2>4 DEF TypeOK, ClusterType, queue
  <2> QED
    BY <1>1, <1>6, <2>5, TypeParts DEF UserWritesSpc
<1>7. CASE VaultChanges
  <2>1. PICK s \in Sources, i \in Items, t \in Tags :
          vault' = [vault EXCEPT ![s][i] = t] /\ seen' = [seen EXCEPT ![s][i] = @ \cup {t}]
    BY <1>7 DEF VaultChanges
  <2>2. /\ vault' \in [Sources -> [Items -> Tags]]
        /\ seen' \in [Sources -> [Items -> SUBSET Tags]]
    BY <2>1 DEF TypeOK
  <2>3. edits' \in 0 .. MaxEdits
    BY <1>7, EditsNat DEF VaultChanges, Edit, TypeOK
  <2>4. ClusterType'
    BY <1>7, <2>2, <2>3 DEF VaultChanges, Edit, TypeOK, ClusterType, cluster, views, queue
  <2> QED
    BY <1>1, <1>7, <2>4, TypeParts DEF VaultChanges
<1>8. CASE Tick
  BY <1>8 DEF Tick, TypeOK, cluster, views, queue, Seconds
<1>9. CASE OutageFlips
  BY <1>9 DEF OutageFlips, TypeOK, cluster, views, queue
<1>10. CASE Restart
  BY <1>10 DEF Restart, Succeeds, TypeOK, cluster, world
<1>11. CASE GarbageCollects
  <2>1. ClusterType'
    BY <1>11 DEF GarbageCollects, WriteSpc, TypeOK, ClusterType, queue, world
  <2> QED
    BY <1>1, <1>11, <2>1, TypeParts DEF GarbageCollects
<1>12. CASE AnnotationMode
  <2>1. patching' \in PatchRecord \cup {NoPatch} /\ spc' \in SpcRecord \cup {Gone}
    BY <1>12, AnnotationType
  <2>2. ClusterType' /\ JobType(job')
    BY <1>1, <1>12, <2>1, AnnotationLeaves DEF TypeOK, ClusterType, queue
  <2> QED
    BY <2>2, TypeParts
<1> QED
  BY <1>3, <1>4, <1>5, <1>6, <1>7, <1>8, <1>9, <1>10, <1>11, <1>12 DEF Environment

LEMMA NextKeepsType == TypeOK /\ FreshIsCurrent /\ [Next]_vars => TypeOK'
<1> SUFFICES ASSUME TypeOK, FreshIsCurrent, [Next]_vars PROVE TypeOK'
  OBVIOUS
<1>1. CASE Reconcile
  <2>1. JobType(job')
    <3>1. CASE job' = Idle
      BY <3>1 DEF JobType
    <3>2. CASE job' # Idle
      BY <1>1, <3>2, ReconcileJob
    <3> QED
      BY <3>1, <3>2
  <2> QED
    BY <1>1, <2>1, ReconcileCluster, TypeParts
<1>2. CASE UNCHANGED vars
  BY <1>2 DEF vars, TypeOK
<1> QED
  BY <1>1, <1>2, RuntimeType, EnvironmentType DEF Next

LEMMA NextKeepsFresh == TypeOK /\ FreshIsCurrent /\ [Next]_vars => FreshIsCurrent'
<1> SUFFICES ASSUME TypeOK, FreshIsCurrent, [Next]_vars PROVE FreshIsCurrent'
  OBVIOUS
<1> DEFINE ViewsFresh == (akvCurrent => akvView = akv) /\ (spcCurrent => spcView = spc)
           JobFresh == job # Idle /\ job.step # "fetch" => (job.akvFresh => job.akv = akv)
<1>1. JobType(job)
  BY TypeParts
<1>2. ViewsFresh /\ JobFresh
  BY DEF FreshIsCurrent
<1>3. ViewsFresh'
  <2>1. CASE Environment \/ GarbageCollects
    <3>1. CASE AnnotationMode
      <4>1. /\ UNCHANGED <<akv, akvView, akvCurrent, spcView>>
            /\ UNCHANGED <<spc, spcCurrent>> \/ spcCurrent' = FALSE
        BY <3>1, AnnotationLeaves
      <4> QED
        BY <1>2, <4>1
    <3>2. CASE UserWritesSpc \/ GarbageCollects
      <4>1. spcCurrent' = FALSE /\ UNCHANGED <<akv, akvView, akvCurrent>>
        BY <3>2 DEF UserWritesSpc, GarbageCollects, WriteSpc
      <4> QED
        BY <1>2, <4>1
    <3>3. CASE UserCreatesSync \/ UserEditsSync \/ UserDeletesSync
      BY <1>2, <3>3 DEF UserCreatesSync, UserEditsSync, UserDeletesSync, UserWritesSync, WriteAkv
    <3>4. CASE VaultChanges \/ Tick \/ OutageFlips \/ Restart
      BY <1>2, <3>4 DEF VaultChanges, Tick, OutageFlips, Restart, cluster, views
    <3> QED
      BY <2>1, <3>1, <3>2, <3>3, <3>4 DEF Environment
  <2>2. CASE Runtime
    BY <1>2, <2>2 DEF Runtime, AkvInformed, SpcInformed, DelayElapses, Take, cluster, views
  <2>3. CASE Reconcile
    BY <1>2, <2>3
    DEF Reconcile, FetchSync, FetchNothing, ListSecrets, GetSpc, CreateSpc, UpdateSpc,
        ReconcileFails, UpdateStatus, StatusFails, WriteAkv, WriteSpc, cluster, views
  <2> QED
    BY <1>2, <2>1, <2>2, <2>3 DEF Next, vars
<1>4. JobFresh'
  <2>1. ASSUME job' = Idle PROVE JobFresh'
    BY <2>1
  <2>2. ASSUME UNCHANGED akv, job # Idle, job.step # "fetch",
               job'.akv = job.akv, job'.akvFresh => job.akvFresh
        PROVE  JobFresh'
    BY <1>2, <2>2
  <2>3. ASSUME UNCHANGED <<akv, job>> PROVE JobFresh'
    BY <1>2, <2>3
  <2>4. CASE UserCreatesSync \/ UserEditsSync \/ UserDeletesSync
    <3>1. job' = StaleAkv(job)
      BY <2>4 DEF UserCreatesSync, UserEditsSync, UserDeletesSync, UserWritesSync
    <3>2. job' # Idle => job'.akvFresh = FALSE
      BY <1>1, <3>1 DEF JobType, StaleAkv, JobRecord
    <3> QED
      BY <3>2
  <2>5. CASE (UserWritesSpc \/ GarbageCollects \/ AnnotationMode) /\ job' # job
    <3>1. job' = StaleSpc(job) /\ UNCHANGED akv
      BY <2>5, AnnotationLeaves DEF UserWritesSpc, GarbageCollects
    <3>2. job' # Idle => /\ job # Idle /\ job'.akvFresh = job.akvFresh
                         /\ job'.akv = job.akv /\ job'.step = job.step
      BY <1>1, <3>1 DEF JobType, StaleSpc, JobRecord
    <3> QED
      BY <1>2, <3>1, <3>2
  <2>6. CASE VaultChanges \/ Tick \/ OutageFlips \/ Restart
    BY <2>1, <2>3, <2>6 DEF VaultChanges, Tick, OutageFlips, Restart, Succeeds, cluster
  <2>7. CASE Runtime
    <3>1. CASE Take
      BY <3>1 DEF Take
    <3> QED
      BY <2>3, <2>7, <3>1 DEF Runtime, AkvInformed, SpcInformed, DelayElapses, cluster
  <2>8. CASE FetchSync
    <3>1. job # Idle /\ job \in JobRecord
      BY <1>1, <2>8 DEF FetchSync, JobType
    <3>2. job'.akv = akvView /\ job'.akvFresh = akvCurrent /\ UNCHANGED akv
      BY <2>8, <3>1 DEF FetchSync, JobRecord, cluster
    <3> QED
      BY <1>2, <3>2
  <2>9. CASE ListSecrets \/ GetSpc \/ CreateSpc \/ UpdateSpc
    <3>1. job # Idle /\ job.step # "fetch" /\ job \in JobRecord /\ UNCHANGED akv
      BY <1>1, <2>9 DEF ListSecrets, GetSpc, CreateSpc, UpdateSpc, JobType, cluster
    <3>2. job' = Idle \/ (job'.akv = job.akv /\ job'.akvFresh = job.akvFresh)
      BY <2>9, <3>1 DEF ListSecrets, GetSpc, CreateSpc, UpdateSpc, Answered, Fails, JobRecord
    <3> QED
      BY <2>1, <2>2, <3>1, <3>2
  <2>10. CASE FetchNothing \/ ReconcileFails \/ UpdateStatus \/ StatusFails
    BY <2>1, <2>10 DEF FetchNothing, ReconcileFails, UpdateStatus, StatusFails, Fails, Succeeds
  <2>11. CASE UNCHANGED vars
    BY <2>3, <2>11 DEF vars
  <2>12. CASE (UserWritesSpc \/ GarbageCollects \/ AnnotationMode) /\ job' = job
    BY <2>3, <2>12, AnnotationLeaves DEF UserWritesSpc, GarbageCollects
  <2> QED
    BY <2>4, <2>5, <2>6, <2>7, <2>8, <2>9, <2>10, <2>11, <2>12 DEF Next, Environment, Reconcile
<1> QED
  BY <1>3, <1>4 DEF FreshIsCurrent

LEMMA TypeAndFresh == Spec => [](TypeOK /\ FreshIsCurrent)
<1>1. Init => TypeOK /\ FreshIsCurrent
  BY InitType DEF Init, FreshIsCurrent
<1> QED
  BY <1>1, NextKeepsType, NextKeepsFresh, PTL DEF Spec

\* THEOREM.  In every reachable state, for any sources, items, tags and number
\* of edits, the objects, their copies and the reconcile are well-formed.
THEOREM TypeCorrect == Spec => []TypeOK
BY TypeAndFresh, PTL

----------------------------------------------------------------------------
(* Writes are of one source.  A write is made of the sync and the list in  *)
(* hand; both are of this reconcile, and the vault the list is from is the *)
(* sync's.                                                                 *)

ListedWasSeen ==
  /\ \A s \in Sources, i \in Items : vault[s][i] \in seen[s][i]
  /\ job # Idle /\ job.step \notin {"fetch", "list"} =>
       job.listed \in AskedLately(job.akv.source)

\* History only grows while a reconcile does not read its sync.
LEMMA SeenGrows ==
  ASSUME TypeOK, [Next]_vars, ~FetchSync
  PROVE  \A s \in Sources :
           /\ \A i \in Items : seen[s][i] \subseteq seen'[s][i]
           /\ AskedLately(s) \subseteq AskedLately(s)'
<1>1. \A s \in Sources, i \in Items : seen[s][i] \subseteq seen'[s][i]
  <2>1. CASE VaultChanges
    <3>1. PICK s \in Sources, i \in Items, t \in Tags : seen' = [seen EXCEPT ![s][i] = @ \cup {t}]
      BY <2>1 DEF VaultChanges
    <3> QED
      BY <3>1 DEF TypeOK
  <2>2. CASE ~VaultChanges
    <3>1. seen' = seen
      BY <2>2, AnnotationLeaves
      DEF Next, Environment, UserCreatesSync, UserEditsSync, UserDeletesSync, UserWritesSync,
          UserWritesSpc, Tick, OutageFlips, Restart, Runtime, AkvInformed, SpcInformed,
          DelayElapses, Take, GarbageCollects, Reconcile, FetchNothing, ListSecrets, GetSpc,
          CreateSpc, UpdateSpc, ReconcileFails, UpdateStatus, StatusFails, vars, world
    <3> QED
      BY <3>1
  <2> QED
    BY <2>1, <2>2
<1>2. ASSUME NEW s \in Sources PROVE AskedLately(s) \subseteq AskedLately(s)'
  BY <1>1, <1>2 DEF AskedLately
<1> QED
  BY <1>1, <1>2

LEMMA NextKeepsSeen == TypeOK /\ ListedWasSeen /\ [Next]_vars => ListedWasSeen'
<1> SUFFICES ASSUME TypeOK, ListedWasSeen, [Next]_vars PROVE ListedWasSeen'
  OBVIOUS
<1> DEFINE VaultSeen == \A s \in Sources, i \in Items : vault[s][i] \in seen[s][i]
           JobSeen == job # Idle /\ job.step \notin {"fetch", "list"} =>
                        job.listed \in AskedLately(job.akv.source)
<1>1. JobType(job) /\ VaultSeen /\ JobSeen
  BY TypeParts DEF ListedWasSeen
<1>2. VaultSeen'
  <2>1. CASE VaultChanges
    <3>1. PICK s \in Sources, i \in Items, t \in Tags :
            vault' = [vault EXCEPT ![s][i] = t] /\ seen' = [seen EXCEPT ![s][i] = @ \cup {t}]
      BY <2>1 DEF VaultChanges
    <3> QED
      BY <1>1, <3>1 DEF TypeOK
  <2>2. CASE FetchSync
    BY <2>2, NowType DEF FetchSync, TypeOK
  <2>3. CASE ~VaultChanges /\ ~FetchSync
    <3>1. vault' = vault
      BY <2>3, AnnotationLeaves
      DEF Next, Environment, UserCreatesSync, UserEditsSync, UserDeletesSync, UserWritesSync,
          UserWritesSpc, Tick, OutageFlips, Restart, Runtime, AkvInformed, SpcInformed,
          DelayElapses, Take, GarbageCollects, Reconcile, FetchNothing, ListSecrets, GetSpc,
          CreateSpc, UpdateSpc, ReconcileFails, UpdateStatus, StatusFails, vars, world
    <3> QED
      BY <1>1, <2>3, <3>1, SeenGrows
  <2> QED
    BY <2>1, <2>2, <2>3
<1>3. JobSeen'
  <2>1. ASSUME ~FetchSync, job # Idle, job.step \notin {"fetch", "list"},
               job'.akv = job.akv, job'.listed = job.listed
        PROVE  JobSeen'
    <3>1. job.akv.source \in Sources
      BY <2>1, JobOf
    <3>2. \A s \in Sources : s = job.akv.source => job.listed \in AskedLately(s)'
      BY <1>1, <2>1, SeenGrows
    <3> QED
      BY <2>1, <3>1, <3>2 DEF AskedLately
  <2>2. ASSUME ~FetchSync, job' \in {job, Idle, StaleAkv(job), StaleSpc(job)} PROVE JobSeen'
    <3>1. job' # Idle => /\ job # Idle /\ job'.akv = job.akv
                         /\ job'.listed = job.listed /\ job'.step = job.step
      BY <1>1, <2>2, StaleType
    <3> QED
      BY <2>1, <2>2, <3>1
  <2>3. CASE FetchSync \/ Take
    <3>1. job' # Idle => job'.step \in {"fetch", "list"}
      <4>1. CASE FetchSync
        <5>1. job \in JobRecord
          BY <1>1, <4>1 DEF FetchSync, JobType
        <5> QED
          BY <4>1, <5>1 DEF FetchSync, JobRecord
      <4>2. CASE Take
        BY <4>2 DEF Take
      <4> QED
        BY <2>3, <4>1, <4>2
    <3> QED
      BY <3>1
  <2>4. CASE ListSecrets /\ ~FetchSync
    <3>1. job \in JobRecord /\ job # Idle /\ job.step = "list"
      BY <1>1, <2>4 DEF ListSecrets, JobType
    <3>2. job'.akv = job.akv /\ job'.listed = vault[job.akv.source] /\ UNCHANGED seen
      BY <2>4, <3>1 DEF ListSecrets, JobRecord, world
    <3>3. job.akv.source \in Sources /\ vault[job.akv.source] \in [Items -> Tags]
      BY <3>1, JobOf DEF TypeOK
    <3> QED
      BY <1>1, <3>2, <3>3 DEF AskedLately
  <2>5. CASE (GetSpc \/ CreateSpc \/ UpdateSpc) /\ ~FetchSync
    <3>1. job \in JobRecord /\ job # Idle /\ job.step \in {"get", "write"}
      BY <1>1, <2>5 DEF GetSpc, CreateSpc, UpdateSpc, JobType
    <3>2. job' = Idle \/ (job'.akv = job.akv /\ job'.listed = job.listed)
      BY <2>5, <3>1 DEF GetSpc, CreateSpc, UpdateSpc, Answered, Fails, JobRecord
    <3> QED
      BY <2>1, <2>2, <2>5, <3>1, <3>2
  <2>6. CASE ~(FetchSync \/ Take \/ ListSecrets \/ GetSpc \/ CreateSpc \/ UpdateSpc)
    <3>1. job' \in {job, Idle, StaleAkv(job), StaleSpc(job)}
      BY <2>6, AnnotationLeaves
      DEF Next, Environment, UserCreatesSync, UserEditsSync, UserDeletesSync, UserWritesSync,
          UserWritesSpc, VaultChanges, Tick, OutageFlips, Restart, Runtime, AkvInformed,
          SpcInformed, DelayElapses, GarbageCollects, Reconcile, FetchNothing, ReconcileFails,
          UpdateStatus, StatusFails, Fails, Succeeds, vars
    <3> QED
      BY <2>2, <2>6, <3>1
  <2> QED
    BY <2>3, <2>4, <2>5, <2>6
<1> QED
  BY <1>2, <1>3 DEF ListedWasSeen

LEMMA SeenInvariant == Spec => []ListedWasSeen
<1>1. Init => ListedWasSeen
  BY NowType DEF Init, ListedWasSeen
<1> QED
  BY <1>1, NextKeepsSeen, TypeCorrect, PTL DEF Spec

\* THEOREM.  For any sources and items, and however stale the sync and the SPC
\* are that a reconcile has read: what it writes is one sync's parameters with
\* what that sync's vault asked for, item by item, since that sync was read.
THEOREM WritesOfOneSource == Spec => WritesAreOfOneSource
<1> DEFINE OfOneSource == job # Idle /\ spc' # spc /\ job' # StaleSpc(job) =>
       \E asked \in AskedLately(job.akv.source) : spc' = Generate(job.akv, asked)
<1>1. TypeOK /\ ListedWasSeen /\ [Next]_vars => [OfOneSource]_vars
  <2> SUFFICES ASSUME TypeOK, ListedWasSeen, Next, job # Idle, spc' # spc, job' # StaleSpc(job)
               PROVE  \E asked \in AskedLately(job.akv.source) : spc' = Generate(job.akv, asked)
    OBVIOUS
  <2>1. ~(Environment \/ GarbageCollects)
    BY AnnotationLeaves
    DEF Environment, UserCreatesSync, UserEditsSync, UserDeletesSync, UserWritesSync,
           UserWritesSpc, VaultChanges, Tick, OutageFlips, Restart, GarbageCollects, cluster
  <2>2. ~Runtime
    BY DEF Runtime, AkvInformed, SpcInformed, DelayElapses, Take, cluster
  <2>3. CreateSpc \/ UpdateSpc
    BY <2>1, <2>2 DEF Next, Reconcile, FetchSync, FetchNothing, ListSecrets, GetSpc,
                      ReconcileFails, UpdateStatus, StatusFails, cluster
  <2>4. job.step = "write" /\ spc' = Generate(job.akv, job.listed)
    BY <2>3 DEF CreateSpc, UpdateSpc, WriteSpc
  <2> QED
    BY <2>4 DEF ListedWasSeen
<1>2. WritesAreOfOneSource <=> [][OfOneSource]_vars
  BY DEF WritesAreOfOneSource
<1> QED
  BY <1>1, <1>2, SeenInvariant, TypeCorrect, PTL DEF Spec

----------------------------------------------------------------------------
(* Somebody always comes back.  Only two steps take the last hold away: the *)
(* one that takes the request from the queue begins a reconcile, and every  *)
(* end of a reconcile sets a timer, except that of one that found no sync,  *)
(* and it can have missed one only with an informer that is behind.         *)

LEMMA NextKeepsHold == TypeOK /\ FreshIsCurrent /\ NeverForgotten /\ [Next]_vars => NeverForgotten'
<1> SUFFICES ASSUME TypeOK, FreshIsCurrent, NeverForgotten, [Next]_vars PROVE NeverForgotten'
  OBVIOUS
<1> USE DEF NeverForgotten
<1>1. CASE Runtime
  <2>1. Take => job' # Idle
    <3>1. Take => job'.step = "fetch"
      BY DEF Take
    <3> QED
      BY <3>1 DEF Idle
  <2> QED
    BY <1>1, <2>1 DEF Runtime, AkvInformed, SpcInformed, DelayElapses, Take, cluster, views
<1>2. CASE Environment \/ GarbageCollects
  <2>1. (VaultChanges \/ Tick \/ OutageFlips) => NeverForgotten'
    BY DEF VaultChanges, Tick, OutageFlips, Edit, cluster, views, queue
  <2>2. (UserWritesSpc \/ GarbageCollects) => NeverForgotten'
    <3>1. job # Idle => StaleSpc(job) # Idle
      BY TypeParts, StaleType
    <3> QED
      BY <3>1 DEF UserWritesSpc, GarbageCollects, Edit, queue
  <2>3. (UserCreatesSync \/ UserEditsSync \/ UserDeletesSync) => NeverForgotten'
    BY DEF UserCreatesSync, UserEditsSync, UserDeletesSync, UserWritesSync, WriteAkv
  <2>4. Restart => NeverForgotten'
    BY DEF Restart, cluster
  <2>5. AnnotationMode => NeverForgotten'
    <3>1. job # Idle => StaleSpc(job) # Idle
      BY TypeParts, StaleType
    <3> QED
      BY <3>1, AnnotationLeaves DEF queue
  <2> QED
    BY <1>2, <2>1, <2>2, <2>3, <2>4, <2>5 DEF Environment
<1>3. CASE Reconcile
  <2>1. CASE FetchNothing
    BY <2>1 DEF FetchNothing, FreshIsCurrent, cluster, views
  <2>2. CASE ReconcileFails \/ UpdateStatus \/ StatusFails
    BY <2>2 DEF ReconcileFails, UpdateStatus, StatusFails, Fails, Succeeds
  <2>3. CASE FetchSync \/ ListSecrets \/ GetSpc \/ CreateSpc \/ UpdateSpc
    <3>1. job \in JobRecord
      BY <2>3, JobOf DEF FetchSync, ListSecrets, GetSpc, CreateSpc, UpdateSpc
    <3>2. later' = TRUE \/ job'.step # "idle"
      BY <2>3, <3>1
      DEF FetchSync, ListSecrets, GetSpc, CreateSpc, UpdateSpc, Answered, Fails, JobRecord
    <3> QED
      BY <3>2 DEF Idle
  <2> QED
    BY <1>3, <2>1, <2>2, <2>3 DEF Reconcile
<1>4. CASE UNCHANGED vars
  BY <1>4 DEF vars
<1> QED
  BY <1>1, <1>2, <1>3, <1>4 DEF Next

\* THEOREM.  For any sources, items and number of edits: no failure, lost
\* answer, stale copy or restart leaves a sync behind that nobody is going to
\* reconcile again.
THEOREM SomebodyComesBack == Spec => []NeverForgotten
<1>1. Init => NeverForgotten
  BY DEF Init, NeverForgotten
<1> QED
  BY <1>1, NextKeepsHold, TypeAndFresh, PTL DEF Spec

----------------------------------------------------------------------------
(* At rest the SPC is what the vault asked for.  Unless an informer is       *)
(* behind or the request is queued anew, a reconcile under way has read the *)
(* sync that is there, and one that writes nothing has compared the SPC     *)
(* that is there; one that ended well leaves the SPC as it found it then.   *)

Pending == ~akvCurrent \/ ~spcCurrent \/ queued

Matches == \E asked \in AskedLately(akv.source) : Holds(akv, asked)

OnTrack ==
  \/ job.step \in {"fetch", "write"}
  \/ job.step \in {"list", "get"} /\ job.akv.source = akv.source
  \/ job.step = "status" /\ Matches

RestInv ==
  akv # Gone /\ Owned(spc) =>
    Pending \/ IF job = Idle THEN failed \/ Matches ELSE OnTrack

\* What was as asked for stays so while it is left alone.
LEMMA MatchesStays ==
  ASSUME TypeOK, [Next]_vars, ~FetchSync, UNCHANGED <<akv, spc>>, akv # Gone, Matches
  PROVE  Matches'
<1>1. akv.source \in Sources
  BY DEF TypeOK, AkvRecord
<1>2. PICK asked \in AskedLately(akv.source) : Holds(akv, asked)
  BY DEF Matches
<1>3. Holds(akv, asked)'
  BY <1>2 DEF Holds
<1>4. \A s \in Sources : s = akv.source => asked \in AskedLately(s)'
  BY <1>2, SeenGrows
<1>5. asked \in AskedLately(akv.source)'
  BY <1>1, <1>4 DEF AskedLately
<1> QED
  BY <1>3, <1>5 DEF Matches

\* A reconcile that writes nothing has found everything as it should be.
LEMMA NothingToWrite ==
  ASSUME TypeOK, FreshIsCurrent, ListedWasSeen, GetSpc, job.akv.source = akv.source,
         spcCurrent, job'.step = "status", UNCHANGED seen
  PROVE  Matches'
<1>1. job \in JobRecord /\ job # Idle /\ job.step = "get" /\ UNCHANGED <<akv, spc>>
  BY JobOf DEF GetSpc, cluster
<1>2. ~Differs(spcView, Generate(job.akv, job.listed))
  BY <1>1 DEF GetSpc, JobRecord
<1>3. spcView = spc
  BY DEF FreshIsCurrent
<1>4. Holds(akv, job.listed)
  <2>1. /\ spc.objects = Generate(akv, job.listed).objects
        /\ spc.secretObjects = Generate(akv, job.listed).secretObjects
        /\ spc.notes = Generate(akv, job.listed).notes
    BY <1>2, <1>3 DEF Differs, Generate
  <2> QED
    BY <2>1 DEF Holds
<1>5. job.listed \in AskedLately(akv.source)
  BY <1>1 DEF ListedWasSeen
<1>6. Matches
  BY <1>4, <1>5 DEF Matches
<1> QED
  BY <1>1, <1>6 DEF Matches, Holds, AskedLately

LEMMA ReconcileKeepsRest ==
  ASSUME TypeOK, FreshIsCurrent, ListedWasSeen, RestInv, Reconcile,
         akv' # Gone, Owned(spc)', ~Pending'
  PROVE  IF job' = Idle THEN failed' \/ Matches' ELSE OnTrack'
<1>1. job \in JobRecord /\ job # Idle
  BY JobOf DEF Reconcile, FetchSync, FetchNothing, ListSecrets, GetSpc, CreateSpc, UpdateSpc,
               ReconcileFails, UpdateStatus, StatusFails
<1>2. UNCHANGED <<akv, spc, akvView, akvCurrent, spcView, spcCurrent, queued>>
  BY DEF Reconcile, FetchSync, FetchNothing, ListSecrets, GetSpc, CreateSpc, UpdateSpc,
         ReconcileFails, UpdateStatus, StatusFails, WriteAkv, WriteSpc, cluster, views, queue,
         Pending
<1>3. akv # Gone /\ akvView = akv /\ spcCurrent /\ OnTrack
  BY <1>1, <1>2 DEF Pending, RestInv, FreshIsCurrent, Owned
<1>4. ASSUME NEW to \in {"list", "get", "write", "status"}, job'.step = to PROVE job' # Idle
  BY <1>4 DEF Idle
<1>5. CASE FetchSync
  <2>1. job'.step = "list" /\ job'.akv = akvView
    BY <1>1, <1>5 DEF FetchSync, JobRecord
  <2> QED
    BY <1>2, <1>3, <1>4, <2>1 DEF OnTrack
<1>6. CASE FetchNothing
  BY <1>3, <1>6 DEF FetchNothing
<1>7. CASE ListSecrets
  <2>1. job.step = "list" /\ job'.step = "get" /\ job'.akv = job.akv
    BY <1>1, <1>7 DEF ListSecrets, JobRecord
  <2> QED
    BY <1>2, <1>3, <1>4, <2>1 DEF OnTrack
<1>8. CASE GetSpc
  <2>1. job.step = "get" /\ job'.step \in {"write", "status"} /\ UNCHANGED seen
    BY <1>1, <1>8 DEF GetSpc, JobRecord, world
  <2>2. job.akv.source = akv.source
    BY <1>3, <2>1 DEF OnTrack
  <2>3. CASE job'.step = "write"
    BY <1>4, <2>3 DEF OnTrack
  <2>4. CASE job'.step = "status"
    BY <1>3, <1>4, <1>8, <2>1, <2>2, <2>4, NothingToWrite DEF OnTrack
  <2> QED
    BY <2>1, <2>3, <2>4
<1>9. CASE CreateSpc \/ UpdateSpc
  BY <1>9 DEF CreateSpc, UpdateSpc, WriteSpc, Pending
<1>10. CASE ReconcileFails
  BY <1>10 DEF ReconcileFails, Fails
<1>11. CASE UpdateStatus \/ StatusFails
  <2>1. job.step = "status" /\ job' = Idle
    BY <1>11 DEF UpdateStatus, StatusFails, Succeeds
  <2>2. Matches /\ ~FetchSync
    BY <1>3, <2>1 DEF OnTrack, FetchSync
  <2>3. Matches'
    BY <1>2, <1>3, <2>2, MatchesStays DEF Next
  <2> QED
    BY <2>1, <2>3
<1> QED
  BY <1>5, <1>6, <1>7, <1>8, <1>9, <1>10, <1>11 DEF Reconcile

LEMMA NextKeepsRest ==
  TypeOK /\ FreshIsCurrent /\ ListedWasSeen /\ RestInv /\ [Next]_vars => RestInv'
<1> SUFFICES ASSUME TypeOK, FreshIsCurrent, ListedWasSeen, RestInv, [Next]_vars,
                    akv' # Gone, Owned(spc)', ~Pending'
             PROVE  IF job' = Idle THEN failed' \/ Matches' ELSE OnTrack'
  BY DEF RestInv, Owned
<1>1. ASSUME UNCHANGED <<cluster, views, failed, job, queued>>, ~FetchSync
      PROVE  IF job' = Idle THEN failed' \/ Matches' ELSE OnTrack'
  <2>1. UNCHANGED <<akv, spc>> /\ akv # Gone /\ Owned(spc) /\ ~Pending
    BY <1>1 DEF cluster, views, Pending, Owned
  <2>2. Matches => Matches'
    BY <1>1, <2>1, MatchesStays
  <2>3. OnTrack => OnTrack'
    BY <1>1, <2>1, <2>2 DEF OnTrack
  <2> QED
    BY <1>1, <2>1, <2>2, <2>3 DEF RestInv
<1>2. CASE Reconcile
  BY <1>2, ReconcileKeepsRest
<1>3. CASE Take
  <2>1. job'.step = "fetch"
    BY <1>3 DEF Take
  <2> QED
    BY <2>1 DEF OnTrack, Idle
<1>4. CASE AkvInformed \/ SpcInformed \/ DelayElapses
  BY <1>4 DEF AkvInformed, SpcInformed, DelayElapses, Pending, Owned, cluster
<1>5. CASE \/ UserCreatesSync \/ UserEditsSync \/ UserDeletesSync \/ UserWritesSpc
           \/ GarbageCollects \/ Restart
  BY <1>5 DEF UserCreatesSync, UserEditsSync, UserDeletesSync, UserWritesSync, UserWritesSpc,
              GarbageCollects, Restart, WriteAkv, WriteSpc, Pending, cluster
<1>6. CASE (VaultChanges \/ Tick \/ OutageFlips) /\ ~Reconcile
  <2>1. ~FetchSync
    BY <1>6 DEF Reconcile
  <2> QED
    BY <1>1, <1>6, <2>1 DEF VaultChanges, Tick, OutageFlips, Edit, queue
<1>7. CASE UNCHANGED vars /\ ~Reconcile
  <2>1. ~FetchSync
    BY <1>7 DEF Reconcile
  <2> QED
    BY <1>1, <1>7, <2>1 DEF vars, cluster, views
<1>8. CASE AnnotationMode /\ ~Reconcile
  <2>1. UNCHANGED <<cluster, views, failed, job, queued>>
    BY <1>8, AnnotationLeaves DEF Pending, cluster, views, queue
  <2> QED
    BY <1>1, <1>8, <2>1 DEF Reconcile
<1> QED
  BY <1>2, <1>3, <1>4, <1>5, <1>6, <1>7, <1>8 DEF Next, Environment, Runtime

\* THEOREM.  For any sources, items and number of edits: hand edits, conflicts,
\* stale copies and lost answers are all made up for before the reconciler
\* rests, unless its last attempt failed, and then a back-off brings it back.
THEOREM RestsInStep == Spec => []RestIsUpToDate
<1>1. Init => RestInv
  BY DEF Init, RestInv, Pending
<1>2. RestInv => RestIsUpToDate
  BY DEF RestInv, RestIsUpToDate, Rests, Pending, Matches
<1> QED
  BY <1>1, <1>2, NextKeepsRest, TypeAndFresh, SeenInvariant, PTL DEF Spec
================================================================================
