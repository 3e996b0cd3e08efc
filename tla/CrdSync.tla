-------------------------------- MODULE CrdSync --------------------------------
(***************************************************************************)
(* CRD mode: AzureKeyVaultSyncReconciler and reconcileAzureKeyVaultSync of *)
(* internal/controller, which create and update one SecretProviderClass    *)
(* for one AzureKeyVaultSync of the same name.                             *)
(*                                                                         *)
(* controller-runtime gives it its reads (from informer caches that lag),  *)
(* its triggers (For, Owns, RequeueAfter, back-off after errors) and at    *)
(* most one reconcile at a time.  Writes go to the API server directly,    *)
(* which refuses to update an object that is not the one that was read.    *)
(*                                                                         *)
(* A source stands for the keyvaultName, tenantId and clientID of a spec;  *)
(* an item's tag for what the item asks, seen through the spec's filters.  *)
(* The spec's deletePolicy decides about BlockOwnerDeletion only, which    *)
(* does not keep the garbage collector from deleting in the background:    *)
(* it has no place here.                                                   *)
(*                                                                         *)
(* Somebody may put the annotation of the other mode on the same SPC.      *)
(* Annotation mode then patches it, too; SyncController is its model, and  *)
(* here it is a part of the surroundings, which works when it likes.       *)
(***************************************************************************)
EXTENDS Naturals

CONSTANTS Sources,
          FirstSources, \* bound: what the sync may point at in the beginning
          Items,        \* what the vaults may hold
          Tags,
          FilteredOut,  \* items that, while they are none, are so for the
                        \* filters' sake or as certificates: annotation mode,
                        \* which has no filters, and lists both, syncs them
          MaxEdits,     \* bound: edits by users and in the vaults
          NoOwner,      \* an SPC without an owner reference
          Gone          \* no such object

\* none: not there, not enabled, filtered out or not opted in.
\* sync: sync=true.  k8s: secret-object=true.
\* noted: k8s, with k8s-annotation.* tags.  (k8s-label.* tags, which CRD mode
\* alone turns into annotations as well, add nothing and are left out.)
AllTags == {"none", "sync", "k8s", "noted"}

ASSUME TagsType == "none" \in Tags /\ Tags \subseteq AllTags
ASSUME FirstSourcesType == FirstSources \subseteq Sources
ASSUME EditsNat == MaxEdits \in Nat

VARIABLES akv,         \* API server: the AzureKeyVaultSync
          spc,         \* API server: the SecretProviderClass
          vault,       \* the tag of each item of each source
          akvView,     \* the informer's copy of akv
          akvCurrent,  \* and nothing was written to akv since it was taken
          spcView, spcCurrent,
          queued,      \* the request is in the work queue
          later,       \* AddAfter or AddRateLimited will queue it
          failed,      \* the rate limiter counts a failure since the last success
          job,         \* the reconcile under way
          clock,       \* wall clock, in seconds, as far as status tells them apart
          outage, edits,
          patching,    \* what annotation mode is about to patch into the SPC
          seen         \* (for the properties) the tags each item has had since a
                       \* reconcile last read its sync

vars == <<akv, spc, vault, akvView, akvCurrent, spcView, spcCurrent,
          queued, later, failed, job, clock, outage, edits, patching, seen>>

cluster == <<akv, spc>>
views == <<akvView, akvCurrent, spcView, spcCurrent>>
queue == <<queued, later, failed>>
world == <<vault, clock, outage, edits, patching, seen>>

Seconds == 0 .. 1

Uids == 0 .. MaxEdits

\* Annotations that CRD mode never sets: service-account, which makes the SPC one
\* of annotation mode, and the time of that mode's last patch.
Foreign == {"service-account", "last-sync"}

\* time: status.lastSyncTime.  uid: a new one for each creation.
AkvRecord == [uid : Uids, source : Sources, time : Seconds]

SpcRecord ==
  [source : Sources, objects : SUBSET Items, secretObjects : SUBSET Items,
   notes : SUBSET (Items \cup Foreign), owner : Uids \cup {NoOwner}]

ASSUME GoneIsNoRecord == Gone \notin AkvRecord \cup SpcRecord
ASSUME ForeignIsNoItem == Foreign \cap Items = {}
ASSUME NoOwnerIsNoUid == NoOwner \notin Uids

Idle == [step |-> "idle"]

\* akv: the sync that the reconcile read; found: it read an SPC.  akvFresh and
\* spcFresh: nothing was written to them since.
JobRecord ==
  [step : {"fetch", "list", "get", "write", "status"},
   akv : AkvRecord \cup {Gone}, akvFresh : BOOLEAN,
   found : BOOLEAN, spcFresh : BOOLEAN,
   listed : [Items -> Tags]]

Nothing == [i \in Items |-> "none"]

\* tags: what annotation mode has listed.  secretObjects: whether the patch will
\* replace or remove those of the SPC it read, or leave them.
PatchRecord ==
  [tags : [Items -> AllTags], secretObjects : {"replace", "remove", "leave"}]

NoPatch == [secretObjects |-> "none"]

Now == [s \in Sources |-> [i \in Items |-> {vault[s][i]}]]

Init ==
  /\ akv \in [uid : {0}, source : FirstSources, time : {0}]
  /\ spc = Gone
  /\ vault \in [Sources -> [Items -> Tags]]
  /\ akvView = Gone /\ akvCurrent = FALSE
  /\ spcView = Gone /\ spcCurrent = TRUE
  /\ queued = FALSE /\ later = FALSE /\ failed = FALSE
  /\ job = Idle
  /\ clock = 0
  /\ outage \in BOOLEAN
  /\ edits = 0
  /\ patching = NoPatch
  /\ seen = Now

----------------------------------------------------------------------------
(* Writes to the API server: copies of the object grow stale *)

WriteAkv(new) ==
  /\ akv' = new
  /\ akvCurrent' = FALSE
  /\ UNCHANGED <<akvView>>

WriteSpc(new) ==
  /\ spc' = new
  /\ spcCurrent' = FALSE
  /\ UNCHANGED <<spcView>>

\* The reconcile's copies after such a write by somebody else.
StaleAkv(j) == IF j = Idle THEN j ELSE [j EXCEPT !.akvFresh = FALSE]
StaleSpc(j) == IF j = Idle THEN j ELSE [j EXCEPT !.spcFresh = FALSE]

----------------------------------------------------------------------------
(* controller-runtime *)

\* For: every event of the AzureKeyVaultSync queues it, status updates too.
AkvInformed ==
  /\ ~akvCurrent
  /\ akvView' = akv /\ akvCurrent' = TRUE
  /\ queued' = TRUE
  /\ UNCHANGED <<cluster, spcView, spcCurrent, later, failed, job, world>>

Owned(s) == s # Gone /\ s.owner # NoOwner

Mut_SpcInformed_NotOwns ==
  /\ ~spcCurrent
  /\ spcView' = spc /\ spcCurrent' = TRUE
  /\ UNCHANGED <<cluster, akvView, akvCurrent, queue, job, world>>

\* Owns: an event queues the owner of the old and of the new object, by name.
SpcInformed ==
  /\ ~spcCurrent
  /\ spcView' = spc /\ spcCurrent' = TRUE
  /\ queued' = (queued \/ Owned(spcView) \/ Owned(spc))
  /\ UNCHANGED <<cluster, akvView, akvCurrent, later, failed, job, world>>

DelayElapses ==
  /\ later
  /\ later' = FALSE /\ queued' = TRUE
  /\ UNCHANGED <<cluster, views, failed, job, world>>

Take ==
  /\ queued
  /\ job = Idle
  /\ queued' = FALSE
  /\ job' = [step |-> "fetch", akv |-> Gone, akvFresh |-> FALSE, found |-> FALSE,
             spcFresh |-> FALSE, listed |-> Nothing]
  /\ UNCHANGED <<cluster, views, later, failed, world>>

----------------------------------------------------------------------------
(* Reconcile and reconcileAzureKeyVaultSync *)

Mut_FetchSync_EvenGone ==
  /\ job # Idle /\ job.step = "fetch"
  /\ job' = [job EXCEPT !.akv = akvView, !.akvFresh = akvCurrent, !.step = "list"]
  /\ UNCHANGED <<cluster, views, queue, world>>

FetchSync ==
  /\ job # Idle /\ job.step = "fetch"
  /\ akvView # Gone
  /\ job' = [job EXCEPT !.akv = akvView, !.akvFresh = akvCurrent, !.step = "list"]
  /\ seen' = Now
  /\ UNCHANGED <<cluster, views, queue, vault, clock, outage, edits, patching>>

\* The reconciler returns an error: the queue brings the request back after a
\* back-off.  Or it returns none: the failures are forgotten.
Fails == job' = Idle /\ later' = TRUE /\ failed' = TRUE

Succeeds == job' = Idle /\ failed' = FALSE

\* Not found: nothing to do, nothing to requeue.
FetchNothing ==
  /\ job # Idle /\ job.step = "fetch"
  /\ akvView = Gone
  /\ Succeeds
  /\ UNCHANGED <<cluster, views, queued, later, world>>

Mut_ListSecrets_ErrorIgnored ==
  /\ job # Idle /\ job.step = "list"
  /\ job' = [job EXCEPT !.listed = IF outage THEN Nothing ELSE vault[job.akv.source],
                        !.step = "get"]
  /\ UNCHANGED <<cluster, views, queue, world>>

\* Tokens acquired, secrets listed through the breaker and filtered.
ListSecrets ==
  /\ job # Idle /\ job.step = "list"
  /\ job' = [job EXCEPT !.listed = vault[job.akv.source], !.step = "get"]
  /\ UNCHANGED <<cluster, views, queue, world>>

\* What the two modes make of tags: the objects, the secretObjects and the
\* annotations.
Objects(tags) == {i \in Items : tags[i] # "none"}
SecretObjects(tags) == {i \in Items : tags[i] \in {"k8s", "noted"}}
Notes(tags) == {i \in Items : tags[i] = "noted"}

Mut_Generate_NoOwner(sync, tags) ==
  [source |-> sync.source, objects |-> Objects(tags), secretObjects |-> SecretObjects(tags),
   notes |-> Notes(tags), owner |-> NoOwner]

\* generateSecretProviderClass: whatever the policy, the sync is the owner.
Generate(sync, tags) ==
  [source |-> sync.source, objects |-> Objects(tags), secretObjects |-> SecretObjects(tags),
   notes |-> Notes(tags), owner |-> sync.uid]

Mut_Differs_NotNotes(existing, desired) ==
  \/ existing.objects # desired.objects
  \/ existing.secretObjects # desired.secretObjects

\* The parameters other than objects, and the owner, are not compared.
Differs(existing, desired) ==
  \/ existing.objects # desired.objects
  \/ existing.secretObjects # desired.secretObjects
  \/ existing.notes # desired.notes

\* The SPC comes from the informer's cache.
GetSpc ==
  /\ job # Idle /\ job.step = "get"
  /\ LET write == spcView = Gone \/ Differs(spcView, Generate(job.akv, job.listed))
     IN  job' = [job EXCEPT !.found = spcView # Gone, !.spcFresh = spcCurrent,
                            !.step = IF write THEN "write" ELSE "status"]
  /\ UNCHANGED <<cluster, views, queue, world>>

\* The API server's answer to a write arrives, or is lost: then the write was
\* done, and looks like an error to the reconciler.
Answered ==
  \/ /\ job' = [job EXCEPT !.step = "status"]
     /\ UNCHANGED queue
  \/ /\ outage
     /\ Fails
     /\ UNCHANGED queued

CreateSpc ==
  /\ job # Idle /\ job.step = "write"
  /\ ~job.found
  /\ spc = Gone
  /\ WriteSpc(Generate(job.akv, job.listed))
  /\ Answered
  /\ UNCHANGED <<akv, akvView, akvCurrent, world>>

Mut_UpdateSpc_KeepsForeign ==
  /\ job # Idle /\ job.step = "write"
  /\ job.found
  /\ job.spcFresh
  /\ WriteSpc([Generate(job.akv, job.listed) EXCEPT !.notes = @ \cup (spc.notes \cap Foreign)])
  /\ Answered
  /\ UNCHANGED <<akv, akvView, akvCurrent, world>>

\* Spec, annotations and owner references are all replaced.
UpdateSpc ==
  /\ job # Idle /\ job.step = "write"
  /\ job.found
  /\ job.spcFresh
  /\ WriteSpc(Generate(job.akv, job.listed))
  /\ Answered
  /\ UNCHANGED <<akv, akvView, akvCurrent, world>>

\* AlreadyExists, or a conflict.
WriteRefused == IF job.found THEN ~job.spcFresh ELSE spc # Gone

\* Any call before the status update returns an error.
ReconcileFails ==
  /\ job # Idle
  /\ \/ job.step # "status" /\ outage
     \/ job.step = "write" /\ WriteRefused
  /\ Fails
  /\ UNCHANGED <<cluster, views, queued, world>>

\* The status update sets lastSyncTime to now; the same second again is no write
\* at all.  (Unless a count in the status changed, which is as if the second had
\* passed: a Tick may come before any update.)  Success: back after SyncInterval.
UpdateStatus ==
  /\ job # Idle /\ job.step = "status"
  /\ job.akvFresh
  /\ IF akv.time = clock THEN UNCHANGED <<akv, akvView, akvCurrent>>
     ELSE WriteAkv([akv EXCEPT !.time = clock])
  /\ Succeeds /\ later' = TRUE
  /\ UNCHANGED <<spc, spcView, spcCurrent, queued, world>>

Mut_StatusFails_NoRequeue ==
  /\ job # Idle /\ job.step = "status"
  /\ outage \/ ~job.akvFresh
  /\ Succeeds
  /\ UNCHANGED <<cluster, views, queued, later, world>>

\* A failed status update is logged and forgotten: back after SyncInterval.
StatusFails ==
  /\ job # Idle /\ job.step = "status"
  /\ outage \/ ~job.akvFresh
  /\ Succeeds /\ later' = TRUE
  /\ UNCHANGED <<cluster, views, queued, world>>

Reconcile ==
  \/ FetchSync \/ FetchNothing \/ ListSecrets \/ GetSpc
  \/ CreateSpc \/ UpdateSpc \/ ReconcileFails \/ UpdateStatus \/ StatusFails

----------------------------------------------------------------------------
(* Users, the vaults, the garbage collector, time *)

Edit ==
  /\ edits < MaxEdits
  /\ edits' = edits + 1
  /\ UNCHANGED <<queue, clock, outage, patching>>

UserWritesSync(new) ==
  /\ Edit
  /\ WriteAkv(new)
  /\ job' = StaleAkv(job)
  /\ UNCHANGED <<spc, spcView, spcCurrent, vault, seen>>

UserCreatesSync ==
  /\ akv = Gone
  /\ \E s \in Sources : UserWritesSync([uid |-> edits', source |-> s, time |-> 0])

UserEditsSync ==
  /\ akv # Gone
  /\ \E s \in Sources \ {akv.source} : UserWritesSync([akv EXCEPT !.source = s])

UserDeletesSync ==
  /\ akv # Gone
  /\ UserWritesSync(Gone)

BareSpcs ==
  [source : Sources, objects : {{}}, secretObjects : {{}},
   notes : {{}, {"service-account"}}, owner : {NoOwner}]

\* By hand: a bare SPC of the same name, of either mode; objects or annotations
\* taken away, the SPC put into annotation mode, or a deletion.
UserWritesSpc ==
  /\ Edit
  /\ \E new \in IF spc = Gone THEN BareSpcs
                ELSE {Gone, [spc EXCEPT !.objects = {}], [spc EXCEPT !.notes = @ \cap Foreign],
                      [spc EXCEPT !.notes = @ \cup {"service-account"}]} :
       WriteSpc(new)
  /\ job' = StaleSpc(job)
  /\ UNCHANGED <<akv, akvView, akvCurrent, vault, seen>>

VaultChanges ==
  /\ Edit
  /\ \E s \in Sources, i \in Items, t \in Tags :
       /\ t # vault[s][i]
       /\ vault' = [vault EXCEPT ![s][i] = t]
       /\ seen' = [seen EXCEPT ![s][i] = @ \cup {t}]
  /\ UNCHANGED <<cluster, views, job>>

\* The owner is gone, or is another object of that name.
GarbageCollects ==
  /\ Owned(spc)
  /\ IF akv = Gone THEN TRUE ELSE akv.uid # spc.owner
  /\ WriteSpc(Gone)
  /\ job' = StaleSpc(job)
  /\ UNCHANGED <<akv, akvView, akvCurrent, queue, world>>

\* What annotation mode sees in the vault of the SPC's parameters.
Unfiltered(tags) ==
  [i \in Items |-> IF tags[i] = "none" /\ i \in FilteredOut THEN "sync" ELSE tags[i]]

\* Its reconcile has fetched the SPC and listed the vault, and a patch is due.
AnnotationReads ==
  /\ patching = NoPatch
  /\ spc # Gone /\ "service-account" \in spc.notes
  /\ LET tags == Unfiltered(vault[spc.source])
         differ == spc.secretObjects # SecretObjects(tags)
     IN  /\ spc.objects # Objects(tags) \/ differ
         /\ patching' = [tags |-> tags,
                         secretObjects |-> IF ~differ THEN "leave"
                                           ELSE IF SecretObjects(tags) = {} THEN "remove"
                                           ELSE "replace"]
  /\ UNCHANGED <<cluster, views, queue, job, vault, clock, outage, edits, seen>>

\* No SPC, or an operation of the JSON patch does not apply: no annotations to
\* add one to, no secretObjects to remove.
PatchRefused ==
  spc # Gone => \/ spc.notes = {}
                \/ patching.secretObjects = "remove" /\ spc.secretObjects = {}

\* The patch is for whatever SPC is there by now.
AnnotationPatches ==
  /\ patching # NoPatch
  /\ ~PatchRefused
  /\ WriteSpc([spc EXCEPT
       !.objects = Objects(patching.tags),
       !.secretObjects = IF patching.secretObjects = "leave" THEN @
                         ELSE SecretObjects(patching.tags),
       !.notes = @ \cup Notes(patching.tags) \cup {"last-sync"}])
  /\ patching' = NoPatch
  /\ job' = StaleSpc(job)
  /\ UNCHANGED <<akv, akvView, akvCurrent, queue, vault, clock, outage, edits, seen>>

AnnotationFails ==
  /\ patching # NoPatch
  /\ outage \/ PatchRefused
  /\ patching' = NoPatch
  /\ UNCHANGED <<cluster, views, queue, job, vault, clock, outage, edits, seen>>

AnnotationMode == AnnotationReads \/ AnnotationPatches \/ AnnotationFails

Tick ==
  /\ clock' = 1 - clock
  /\ UNCHANGED <<cluster, views, queue, job, vault, outage, edits, patching, seen>>

OutageFlips ==
  /\ outage' = ~outage
  /\ UNCHANGED <<cluster, views, queue, job, vault, clock, edits, patching, seen>>

\* The process dies at any step and starts again: the manager lists both kinds
\* before its workers begin, and every object listed is an event.
Restart ==
  /\ outage
  /\ akvView' = akv /\ akvCurrent' = TRUE
  /\ spcView' = spc /\ spcCurrent' = TRUE
  /\ queued' = (akv # Gone \/ Owned(spc))
  /\ later' = FALSE
  /\ patching' = NoPatch
  /\ Succeeds
  /\ UNCHANGED <<cluster, vault, clock, outage, edits, seen>>

Environment ==
  \/ UserCreatesSync \/ UserEditsSync \/ UserDeletesSync \/ UserWritesSpc
  \/ VaultChanges \/ Tick \/ OutageFlips \/ Restart
  \/ AnnotationMode

Runtime == AkvInformed \/ SpcInformed \/ DelayElapses \/ Take

Next == Environment \/ Runtime \/ GarbageCollects \/ Reconcile

Spec == Init /\ [][Next]_vars

\* Informers catch up, timers fire, the worker runs and its calls return, and
\* the garbage collector works.
Fairness ==
  /\ WF_vars(AkvInformed) /\ WF_vars(SpcInformed)
  /\ WF_vars(DelayElapses) /\ WF_vars(Take)
  /\ WF_vars(Reconcile)
  /\ WF_vars(GarbageCollects)

FairSpec == Spec /\ Fairness

\* Nothing queued, running or on its way.
Rests == ~queued /\ job = Idle /\ akvCurrent /\ spcCurrent

\* The same with a SyncInterval (and a back-off) longer than it takes the
\* reconciler to come to rest.
SlowDelayElapses == Rests /\ DelayElapses

SlowSpec ==
  /\ Init
  /\ [][Environment \/ AkvInformed \/ SpcInformed \/ SlowDelayElapses \/ Take
        \/ GarbageCollects \/ Reconcile]_vars
  /\ WF_vars(AkvInformed) /\ WF_vars(SpcInformed)
  /\ WF_vars(SlowDelayElapses) /\ WF_vars(Take)
  /\ WF_vars(Reconcile)
  /\ WF_vars(GarbageCollects)

----------------------------------------------------------------------------
(* Properties *)

\* Every variable has its type; past its Get a reconcile has a sync in hand.
TypeOK ==
  /\ akv \in AkvRecord \cup {Gone} /\ spc \in SpcRecord \cup {Gone}
  /\ vault \in [Sources -> [Items -> Tags]]
  /\ akvView \in AkvRecord \cup {Gone} /\ spcView \in SpcRecord \cup {Gone}
  /\ {akvCurrent, spcCurrent, queued, later, failed, outage} \subseteq BOOLEAN
  /\ job \in JobRecord \cup {Idle}
  /\ job # Idle => (job.akv = Gone <=> job.step = "fetch")
  /\ clock \in Seconds /\ edits \in 0 .. MaxEdits
  /\ patching \in PatchRecord \cup {NoPatch}
  /\ seen \in [Sources -> [Items -> SUBSET Tags]]

\* What a source asked for, item by item, at some moment since a reconcile last
\* read its sync.
AskedLately(s) ==
  {asked \in [Items -> Tags] : \A i \in Items : asked[i] \in seen[s][i]}

\* Whatever a reconcile writes is one source's: the parameters, the objects,
\* the secretObjects and the annotations all come from the sync it read and
\* from tags that source has had during this reconcile.  A failed or an
\* earlier listing is never written.
WritesAreOfOneSource ==
  [][job # Idle /\ spc' # spc /\ job' # StaleSpc(job) =>
       \E asked \in AskedLately(job.akv.source) : spc' = Generate(job.akv, asked)]_vars

\* As long as there is a sync somebody will look at it again: whatever a
\* reconcile meets, whichever copies are stale and wherever the process died,
\* an informer, the queue, a timer or a reconcile under way has it.
NeverForgotten == akv # Gone => ~akvCurrent \/ queued \/ later \/ job # Idle

\* The SPC has in it what tags ask for.  (The vault it points at, and its
\* owner, are another matter: a change of them alone is never detected.)
Holds(sync, tags) ==
  LET desired == Generate(sync, tags)
  IN  \A part \in {"objects", "secretObjects", "notes"} : spc[part] = desired[part]

\* Between two cycles nothing diverges unnoticed: when the reconciler has come
\* to rest and its last attempt did not fail, the SPC that is the controller's
\* holds what the sync's vault asked for since that attempt began, although the
\* attempt may have read copies older than edits made before it.  Nothing is left
\* then of what annotation mode did to the SPC, nor of the annotation for it.
RestIsUpToDate ==
  Rests /\ ~failed /\ akv # Gone /\ Owned(spc) =>
    \E asked \in AskedLately(akv.source) : Holds(akv, asked)

UpToDate == akv # Gone /\ spc # Gone /\ Holds(akv, vault[akv.source])

\* Once calls work again, the SPC of a sync that stays holds what the sync's
\* vault asks for: after stale reads, conflicts, hand edits, deletions by hand
\* or by the garbage collector, syncs deleted and created anew, and patches of
\* annotation mode, whenever that works and whatever it sees in the vault.
Converges == <>[](~outage /\ akv # Gone) => <>[]UpToDate

\* "Cascade": a sync that is deleted for good takes its SPC with it, even one
\* that a reconcile still under way creates afterwards; only one that was made
\* by hand and never touched by CRD mode may stay.
MadeByHand == spc \in BareSpcs \/ (spc.owner = NoOwner /\ spc.notes \cap Foreign # {})

CascadeCompletes == <>[](akv = Gone) => <>[](spc = Gone \/ MadeByHand)

\* An SPC that is as it should be is not written again and again; nor do the two
\* modes write one SPC in turns for ever: CRD mode wins.
WritesStop == <>[][~(CreateSpc \/ UpdateSpc)]_vars

\* "Single reconciliation per cycle": however long SyncInterval is, the
\* reconciler comes to rest before it has passed.
RestsBetweenCycles == <>[]~outage => []<>Rests
===============================================================================
