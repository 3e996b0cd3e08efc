---------------------------- MODULE SyncController ----------------------------
(***************************************************************************)
(* The annotation-mode controller of internal/controller/controller.go:    *)
(* the watch loop of Run with its event handlers, the worker pool with     *)
(* reconcile and reconcileResource, the periodic resync, the retry rule,   *)
(* and the SecretProviderClass cache they all write; around them the API   *)
(* server, the user who edits SecretProviderClasses, and the Key Vault.    *)
(*                                                                         *)
(* Each remote call of a worker is a step, so anything may happen between  *)
(* a worker's Get, its two listings, its patch and its cache update.       *)
(* All SPCs read one vault; an item's tag stands for what the item asks of *)
(* the controller, seen through the SPC's filter labels.                   *)
(***************************************************************************)
EXTENDS WorkQueue, SpcCache, Sequences, FiniteSets, SequencesExt

CONSTANTS Workers,
          MaxRetries,  \* maxRetries
          Items,       \* [name, kind] of what the vault may hold
          Tags,        \* the tags an item may carry
          MaxEdits,    \* bound: edits by users and in the vault
          MaxEvents,   \* bound: watch events in flight before the API server drops the watch
          Gone         \* spc[n] = Gone: no such SecretProviderClass

Kinds == {"secret", "cert"}

\* none: not there, not enabled, filtered out or not opted in.
\* sync: sync=true.  k8s: secret-object=true (cert-object=true).
\* noted: k8s, with a k8s-annotation.* tag.
AllTags == {"none", "sync", "k8s", "noted"}

\* off: no service-account annotation.  broken: annotated, but parameters are
\* missing or invalid.  ok: annotated and complete.
Modes == {"off", "broken", "ok"}

ASSUME ItemsType == \A i \in Items : i.name \in Secrets /\ i.kind \in Kinds
ASSUME TagsType == "none" \in Tags /\ Tags \subseteq AllTags
ASSUME RetriesNat == MaxRetries \in Nat
ASSUME EditsNat == MaxEdits \in Nat
ASSUME ItemsFinite == IsFiniteSet(Items)
ASSUME SpcsFinite == IsFiniteSet(Spcs)
ASSUME StorableAny == \A n \in Spcs : Storable[n] = SUBSET Secrets

VARIABLES spc,        \* API server: the SecretProviderClasses
          vault,      \* Key Vault: the tag of each item
          outage,     \* remote calls may fail (network, API server, Azure, breaker)
          edits,      \* edits made so far
          watching,   \* the watch is connected
          events,     \* watch events not handled yet
          job,        \* what each worker is doing
          dropped,    \* keys whose last processing ended in giving up
          seen        \* (for the properties) the tags each item has carried since
                      \* work on an SPC last began

vars == <<spc, vault, outage, edits, watching, events, job, dropped, seen, queueVars, cacheVars>>

world == <<vault, outage, edits, seen>>
watch == <<watching, events>>

NewSpc(mode) == [mode |-> mode, objects |-> {}, secretObjects |-> {}, notes |-> {}]

SpcRecord ==
  [mode : Modes, objects : SUBSET Items, secretObjects : SUBSET Items, notes : SUBSET Items]

ASSUME GoneIsNoRecord == Gone \notin SpcRecord

Exists(n) == spc[n] # Gone
Valid(n) == Exists(n) /\ spc[n].mode # "off"

Idle == [step |-> "idle"]

Steps == {"get", "forget", "secrets", "certs", "patch", "store", "failed", "done"}

\* A reconcile under way: the object fetched, the tags listed so far.
JobRecord ==
  [step : Steps, key : Spcs, obj : SpcRecord \cup {Gone},
   listed : UNION {[D -> Tags] : D \in SUBSET Items}]

Busy(w) == job[w].step # "idle"

Init ==
  /\ spc \in [Spcs -> {Gone, NewSpc("ok")}]
  /\ vault \in [Items -> Tags]
  /\ outage \in BOOLEAN
  /\ edits = 0
  /\ watching = FALSE
  /\ events = << >>
  /\ job = [w \in Workers |-> Idle]
  /\ dropped = {}
  /\ seen = [n \in Spcs |-> [i \in Items |-> {vault[i]}]]
  /\ QueueInit
  /\ CacheInit

----------------------------------------------------------------------------
(* The API server's watch *)

EventRecord == [type : {"ADDED", "MODIFIED", "DELETED"}, name : Spcs, valid : BOOLEAN]

Event(type, n, s) == [type |-> type, name |-> n, valid |-> s.mode # "off"]

\* An event reaches a connected watcher; one that lags too far is cut off.
Emit(e) ==
  \/ /\ watching /\ Len(events) < MaxEvents
     /\ events' = Append(events, e)
     /\ UNCHANGED watching
  \/ /\ watching /\ Len(events) >= MaxEvents
     /\ watching' = FALSE /\ events' = << >>
  \/ ~watching /\ UNCHANGED watch

\* Run's Watch call: without a resource version the server begins with an
\* ADDED event for everything that exists.
WatchConnects ==
  /\ ~watching
  /\ watching' = TRUE
  /\ \E there \in SetToSeqs({n \in Spcs : Exists(n)}) :
       events' = [k \in DOMAIN there |-> Event("ADDED", there[k], spc[there[k]])]
  /\ UNCHANGED <<spc, world, job, dropped, queueVars, cacheVars>>

\* The result channel closes; what was not delivered is lost.
WatchCloses ==
  /\ watching
  /\ watching' = FALSE
  /\ events' = << >>
  /\ UNCHANGED <<spc, world, job, dropped, queueVars, cacheVars>>

----------------------------------------------------------------------------
(* handleEvent *)

HandleAdded(e) ==
  /\ IF e.valid THEN Add({e.name}) ELSE UNCHANGED queueVars
  /\ UNCHANGED cacheVars

Mut_HandleModified_OnlyUncached(e) ==
  \/ e.valid /\ ~Has(e.name) /\ Add({e.name}) /\ UNCHANGED cacheVars
  \/ e.valid /\ Has(e.name) /\ UNCHANGED <<queueVars, cacheVars>>
  \/ ~e.valid /\ Has(e.name) /\ CacheDelete(e.name) /\ UNCHANGED queueVars
  \/ ~e.valid /\ ~Has(e.name) /\ UNCHANGED <<queueVars, cacheVars>>

HandleModified(e) ==
  \/ e.valid /\ Add({e.name}) /\ UNCHANGED cacheVars
  \/ ~e.valid /\ Has(e.name) /\ CacheDelete(e.name) /\ UNCHANGED queueVars
  \/ ~e.valid /\ ~Has(e.name) /\ UNCHANGED <<queueVars, cacheVars>>

HandleDeleted(e) ==
  /\ IF Has(e.name) THEN CacheDelete(e.name) ELSE UNCHANGED cacheVars
  /\ UNCHANGED queueVars

HandleEvent ==
  /\ events # << >>
  /\ LET e == Head(events)
     IN  \/ e.type = "ADDED" /\ HandleAdded(e)
         \/ e.type = "MODIFIED" /\ HandleModified(e)
         \/ e.type = "DELETED" /\ HandleDeleted(e)
  /\ events' = Tail(events)
  /\ UNCHANGED <<spc, world, watching, job, dropped>>

----------------------------------------------------------------------------
(* enqueueAll: the initial sync and every periodic resync *)

Mut_EnqueueAll_OnlyCached ==
  /\ Add({n \in Spcs : Valid(n) /\ Has(n)})
  /\ UNCHANGED <<spc, world, watch, job, dropped, cacheVars>>

EnqueueAll ==
  /\ Add({n \in Spcs : Valid(n)})
  /\ UNCHANGED <<spc, world, watch, job, dropped, cacheVars>>

----------------------------------------------------------------------------
(* A worker's reconcile *)

\* The worker and its job move on; nothing else of it changes.
Moves(w, to) == job' = [job EXCEPT ![w].step = to]

Mut_Take_DoneAtOnce(w, n) ==
  /\ ~Busy(w)
  /\ n \in dirty
  /\ dirty' = dirty \ {n}
  /\ UNCHANGED <<processing, delayed, requeues>>
  /\ job' = [job EXCEPT ![w] =
       [step |-> "get", key |-> n, obj |-> Gone, listed |-> << >>]]
  /\ dropped' = dropped \ {n}
  /\ seen' = [seen EXCEPT ![n] = [i \in Items |-> {vault[i]}]]
  /\ UNCHANGED <<spc, vault, outage, edits, watch, cacheVars>>

Take(w, n) ==
  /\ ~Busy(w)
  /\ Get(n)
  /\ job' = [job EXCEPT ![w] =
       [step |-> "get", key |-> n, obj |-> Gone, listed |-> << >>]]
  /\ dropped' = dropped \ {n}
  /\ seen' = [seen EXCEPT ![n] = [i \in Items |-> {vault[i]}]]
  /\ UNCHANGED <<spc, vault, outage, edits, watch, cacheVars>>

\* The Get succeeds.  Without the annotation reconcile stops here and leaves
\* the cache as it is.
GetFound(w) ==
  /\ job[w].step = "get"
  /\ Exists(job[w].key)
  /\ LET s == spc[job[w].key]
     IN  job' = [job EXCEPT ![w].obj = s,
                            ![w].step = IF s.mode = "off" THEN "done" ELSE "secrets"]
  /\ UNCHANGED <<spc, world, watch, dropped, queueVars, cacheVars>>

GetNotFound(w) ==
  /\ job[w].step = "get"
  /\ ~Exists(job[w].key)
  /\ Moves(w, "forget")
  /\ UNCHANGED <<spc, world, watch, dropped, queueVars, cacheVars>>

ForgetDeleted(w) ==
  /\ job[w].step = "forget"
  /\ CacheDelete(job[w].key)
  /\ Moves(w, "done")
  /\ UNCHANGED <<spc, world, watch, dropped, queueVars>>

SecretItems == {i \in Items : i.kind = "secret"}

\* Tokens acquired, secrets listed.
ListSecrets(w) ==
  /\ job[w].step = "secrets"
  /\ job[w].obj.mode = "ok"
  /\ job' = [job EXCEPT ![w].listed = [i \in SecretItems |-> vault[i]],
                         ![w].step = "certs"]
  /\ UNCHANGED <<spc, world, watch, dropped, queueVars, cacheVars>>

WantedObjects(tags) == {i \in DOMAIN tags : tags[i] # "none"}
WantedSecretObjects(tags) == {i \in DOMAIN tags : tags[i] \in {"k8s", "noted"}}
WantedNotes(tags) == {i \in DOMAIN tags : i.kind = "secret" /\ tags[i] = "noted"}

\* existingMap[name]: of two secretObjects of one name the later one, and
\* certificates are appended after secrets.
ByName(existing, name) ==
  LET same == {i \in existing : i.name = name}
  IN  IF \E i \in same : i.kind = "cert" THEN {i \in same : i.kind = "cert"} ELSE same

CompareSecretObjects(existing, generated) ==
  \/ Cardinality(existing) # Cardinality(generated)
  \/ \E g \in generated : g \notin ByName(existing, g.name)

Mut_NeedsPatch_Always(obj, tags) == TRUE

\* Only objects and secretObjects decide whether a patch is due: annotations
\* ride along with a patch that is due for another reason.
NeedsPatch(obj, tags) ==
  \/ obj.objects # WantedObjects(tags)
  \/ CompareSecretObjects(obj.secretObjects, WantedSecretObjects(tags))

Mut_ListCertificates_ErrorIgnored(w) ==
  /\ job[w].step = "certs"
  /\ LET tags == [i \in Items |-> IF i \in SecretItems THEN job[w].listed[i]
                                  ELSE IF outage THEN "none" ELSE vault[i]]
     IN  job' = [job EXCEPT ![w].listed = tags,
                            ![w].step = IF NeedsPatch(job[w].obj, tags) THEN "patch" ELSE "store"]
  /\ UNCHANGED <<spc, world, watch, dropped, queueVars, cacheVars>>

ListCertificates(w) ==
  /\ job[w].step = "certs"
  /\ LET tags == [i \in Items |-> IF i \in SecretItems THEN job[w].listed[i] ELSE vault[i]]
     IN  job' = [job EXCEPT ![w].listed = tags,
                            ![w].step = IF NeedsPatch(job[w].obj, tags) THEN "patch" ELSE "store"]
  /\ UNCHANGED <<spc, world, watch, dropped, queueVars, cacheVars>>

Mut_ReconcileFails_Swallowed(w) ==
  /\ job[w].step \in {"get", "secrets", "certs", "patch"}
  /\ outage \/ (job[w].step = "secrets" /\ job[w].obj.mode = "broken")
  /\ Moves(w, "done")
  /\ UNCHANGED <<spc, world, watch, dropped, queueVars, cacheVars>>

\* Some call on the way fails, or the parameters are no good.
ReconcileFails(w) ==
  /\ job[w].step \in {"get", "secrets", "certs", "patch"}
  /\ outage \/ (job[w].step = "secrets" /\ job[w].obj.mode = "broken")
  /\ Moves(w, "failed")
  /\ UNCHANGED <<spc, world, watch, dropped, queueVars, cacheVars>>

\* The JSON patch: objects replaced, annotations added, secretObjects replaced
\* if they differ from the fetched ones, removed if none is wanted any more.
Patched(s, obj, tags) ==
  LET wanted == WantedSecretObjects(tags)
      differ == CompareSecretObjects(obj.secretObjects, wanted)
  IN  [s EXCEPT !.objects = WantedObjects(tags),
                !.secretObjects = IF differ THEN wanted ELSE @,
                !.notes = @ \cup WantedNotes(tags)]

\* The remove operation of the patch has nothing to remove.
RemovesMissing(s, obj, tags) ==
  /\ WantedSecretObjects(tags) = {} /\ obj.secretObjects # {}
  /\ s.secretObjects = {}

\* The API server applies the patch; the answer may get lost.
PatchArrives(w, to) ==
  LET n == job[w].key
  IN  /\ job[w].step = "patch"
      /\ Exists(n)
      /\ ~RemovesMissing(spc[n], job[w].obj, job[w].listed)
      /\ spc' = [spc EXCEPT ![n] = Patched(spc[n], job[w].obj, job[w].listed)]
      /\ Emit(Event("MODIFIED", n, spc[n]))
      /\ Moves(w, to)
      /\ UNCHANGED <<world, dropped, queueVars, cacheVars>>

PatchApplies(w) == PatchArrives(w, "store")

PatchUnanswered(w) == outage /\ PatchArrives(w, "failed")

\* The API server refuses: the object is gone, an operation does not apply,
\* or metadata.annotations went with the last annotation.
PatchRefused(w) ==
  LET n == job[w].key
  IN  /\ job[w].step = "patch"
      /\ Exists(n) => \/ spc[n].mode = "off"
                      \/ RemovesMissing(spc[n], job[w].obj, job[w].listed)
      /\ Moves(w, "failed")
      /\ UNCHANGED <<spc, world, watch, dropped, queueVars, cacheVars>>

\* reconcile stores the object it fetched, as it was before the patch.
Store(w) ==
  /\ job[w].step = "store"
  /\ CacheSet(job[w].key, {i.name : i \in job[w].obj.secretObjects})
  /\ Moves(w, "done")
  /\ UNCHANGED <<spc, world, watch, dropped, queueVars>>

\* handleReconcileResult and the deferred Done.
FinishOk(w) ==
  /\ job[w].step = "done"
  /\ Forget(job[w].key)
  /\ Done(job[w].key)
  /\ job' = [job EXCEPT ![w] = Idle]
  /\ UNCHANGED <<spc, world, watch, dropped, cacheVars>>

Mut_FinishRetry_OnceMore(w) ==
  /\ job[w].step = "failed"
  /\ requeues[job[w].key] <= MaxRetries
  /\ AddRateLimited(job[w].key)
  /\ Done(job[w].key)
  /\ job' = [job EXCEPT ![w] = Idle]
  /\ UNCHANGED <<spc, world, watch, dropped, cacheVars>>

FinishRetry(w) ==
  /\ job[w].step = "failed"
  /\ requeues[job[w].key] < MaxRetries
  /\ AddRateLimited(job[w].key)
  /\ Done(job[w].key)
  /\ job' = [job EXCEPT ![w] = Idle]
  /\ UNCHANGED <<spc, world, watch, dropped, cacheVars>>

FinishDrop(w) ==
  /\ job[w].step = "failed"
  /\ requeues[job[w].key] >= MaxRetries
  /\ Forget(job[w].key)
  /\ Done(job[w].key)
  /\ job' = [job EXCEPT ![w] = Idle]
  /\ dropped' = dropped \cup {job[w].key}
  /\ UNCHANGED <<spc, world, watch, cacheVars>>

WorkerStep(w) ==
  \/ GetFound(w) \/ GetNotFound(w) \/ ForgetDeleted(w)
  \/ ListSecrets(w) \/ ListCertificates(w) \/ ReconcileFails(w)
  \/ PatchApplies(w) \/ PatchUnanswered(w) \/ PatchRefused(w) \/ Store(w)
  \/ FinishOk(w) \/ FinishRetry(w) \/ FinishDrop(w)

----------------------------------------------------------------------------
(* The process *)

\* The process dies, by a crash or at the end of its shutdown, which waits for
\* no worker; another one starts from nothing (NewController, Run).
\* An outage, which may begin and end at any moment, is as good a time as any.
Restart ==
  /\ outage
  /\ watching' = FALSE
  /\ events' = << >>
  /\ job' = [w \in Workers |-> Idle]
  /\ dropped' = {}
  /\ dirty' = {} /\ processing' = {} /\ delayed' = {}
  /\ requeues' = [n \in Spcs |-> 0]
  /\ objects' = [n \in Spcs |-> Absent]
  /\ secretToSPC' = [s \in Secrets |-> NoSPC]
  /\ UNCHANGED <<spc, world>>

----------------------------------------------------------------------------
(* Users, the vault and the network *)

Edit ==
  /\ edits < MaxEdits
  /\ edits' = edits + 1
  /\ UNCHANGED outage

UserWrites(n, type, s) ==
  /\ Edit
  /\ spc' = [spc EXCEPT ![n] = s]
  /\ Emit(Event(type, n, IF type = "DELETED" THEN spc[n] ELSE s))
  /\ UNCHANGED <<vault, seen, job, dropped, queueVars, cacheVars>>

UserCreates(n) ==
  /\ ~Exists(n)
  /\ \E m \in Modes : UserWrites(n, "ADDED", NewSpc(m))

UserSetsMode(n) ==
  /\ Exists(n)
  /\ \E m \in Modes \ {spc[n].mode} : UserWrites(n, "MODIFIED", [spc[n] EXCEPT !.mode = m])

\* A manifest applied anew, without objects and secretObjects.
UserResets(n) ==
  /\ Exists(n)
  /\ UserWrites(n, "MODIFIED", [spc[n] EXCEPT !.objects = {}, !.secretObjects = {}])

UserDeletes(n) ==
  /\ Exists(n)
  /\ UserWrites(n, "DELETED", Gone)

VaultChanges(i) ==
  /\ Edit
  /\ \E t \in Tags \ {vault[i]} :
       /\ vault' = [vault EXCEPT ![i] = t]
       /\ seen' = [n \in Spcs |-> [seen[n] EXCEPT ![i] = @ \cup {t}]]
  /\ UNCHANGED <<spc, watch, job, dropped, queueVars, cacheVars>>

OutageFlips ==
  /\ outage' = ~outage
  /\ UNCHANGED <<spc, vault, edits, seen, watch, job, dropped, queueVars, cacheVars>>

Environment ==
  \/ \E n \in Spcs : UserCreates(n) \/ UserSetsMode(n) \/ UserResets(n) \/ UserDeletes(n)
  \/ \E i \in Items : VaultChanges(i)
  \/ OutageFlips
  \/ WatchCloses
  \/ Restart

DelayElapsesFor(n) ==
  /\ DelayElapses(n)
  /\ UNCHANGED <<spc, world, watch, job, dropped, cacheVars>>

Next ==
  \/ Environment
  \/ WatchConnects
  \/ HandleEvent
  \/ EnqueueAll
  \/ \E n \in Spcs : DelayElapsesFor(n) \/ \E w \in Workers : Take(w, n)
  \/ \E w \in Workers : WorkerStep(w)

Spec == Init /\ [][Next]_vars

\* Goroutines run, remote calls return, timers fire and the queue is FIFO, so
\* a key waiting in it is handed out in the end (strongly fair, because other
\* keys may take the workers meanwhile).  Nothing is assumed of users, of the
\* vault, of the network, of the watch or of the process staying up.
Fairness ==
  /\ WF_vars(WatchConnects)
  /\ WF_vars(HandleEvent)
  /\ WF_vars(EnqueueAll)
  /\ \A n \in Spcs : WF_vars(DelayElapsesFor(n)) /\ SF_vars(\E w \in Workers : Take(w, n))
  /\ \A w \in Workers : WF_vars(WorkerStep(w))

FairSpec == Spec /\ Fairness

----------------------------------------------------------------------------
(* Properties *)

WorldTypeOK ==
  /\ spc \in [Spcs -> SpcRecord \cup {Gone}]
  /\ vault \in [Items -> Tags]
  /\ outage \in BOOLEAN
  /\ edits \in 0 .. MaxEdits
  /\ watching \in BOOLEAN
  /\ events \in Seq(EventRecord)
  /\ dropped \subseteq Spcs
  /\ seen \in [Spcs -> [Items -> SUBSET Tags]]

\* Past its Get a job has an object in hand; having listed the secrets it has a
\* tag for each of them, having listed the certificates for every item.
JobsTypeOK ==
  /\ job \in [Workers -> JobRecord \cup {Idle}]
  /\ \A w \in Workers :
       /\ job[w].step \in {"secrets", "certs", "patch", "store"} => job[w].obj # Gone
       /\ job[w].step = "certs" => DOMAIN job[w].listed = SecretItems
       /\ job[w].step = "patch" => DOMAIN job[w].listed = Items

\* No key is retried more than MaxRetries times.
RetriesBounded == \A n \in Spcs : requeues[n] <= MaxRetries

\* Every variable has its type, and no key is retried more than MaxRetries
\* times in a row.
TypeOK == WorldTypeOK /\ JobsTypeOK /\ QueueTypeOK /\ RetriesBounded /\ CacheTypeOK

\* No two workers ever reconcile the same SecretProviderClass at once, and
\* the queue knows exactly which keys are in work.
OneWorkerPerKey ==
  /\ \A v, w \in Workers : Busy(v) /\ Busy(w) /\ job[v].key = job[w].key => v = w
  /\ processing = {job[w].key : w \in {v \in Workers : Busy(v)}}

\* What the vault asked for, item by item, at some moment since work on n last
\* began.
AskedLately(n) ==
  {asked \in [Items -> Tags] : \A i \in Items : asked[i] \in seen[n][i]}

\* Nothing but the vault decides what the controller writes: what a patch
\* leaves in objects is what the vault asked for, item by item, at some moment
\* of this very reconcile, and secretObjects and annotations get nothing that
\* does not go with it.  A listing that failed or is from an earlier attempt
\* never empties or restores anything ("Existing objects preserved").
WritesComeFromVault ==
  [][\A n \in Spcs :
       spc'[n] # spc[n] /\ job' # job =>
         \E w \in Workers : \E asked \in AskedLately(n) :
           /\ job[w].step = "patch" /\ job[w].key = n
           /\ spc'[n].objects = WantedObjects(asked)
           /\ spc'[n].secretObjects \in {spc[n].secretObjects, WantedSecretObjects(asked)}
           /\ spc'[n].notes = spc[n].notes \cup WantedNotes(asked)
           /\ spc'[n].mode = spc[n].mode]_vars

\* Nobody is waiting to do anything about n: no event of it is on its way,
\* and the queue does not hold it in any form.
Settled(n) ==
  /\ watching
  /\ \A k \in DOMAIN events : events[k].name # n
  /\ n \notin dirty \cup processing \cup delayed

\* When the work on an SPC has settled without being given up, the cache
\* mirrors it: although reconcile stores the object it fetched before it
\* patched it, the patch's own MODIFIED event brings the cache up to date.
SettledCacheIsCurrent ==
  \A n \in Spcs :
    Settled(n) /\ Valid(n) /\ n \notin dropped =>
      objects[n] = {i.name : i \in spc[n].secretObjects}

SyncedLately(n) ==
  \E asked \in AskedLately(n) :
    /\ spc[n].objects = WantedObjects(asked)
    /\ spc[n].secretObjects = WantedSecretObjects(asked)

\* No way out of a reconcile forgets an SPC: whatever failed, was retried, lost
\* its answer, raced with an edit or was cut off with its watch, once nobody is
\* waiting to do anything about an SPC and it was not given up, it holds what
\* the vault asked for since its last reconcile began.
SettledIsSynced ==
  \A n \in Spcs :
    Settled(n) /\ Valid(n) /\ n \notin dropped => SyncedLately(n)

Synced(n) ==
  /\ spc[n].objects = WantedObjects(vault)
  /\ spc[n].secretObjects = WantedSecretObjects(vault)

\* If remote calls work again for good, every SPC that is complete ends up,
\* and stays, with exactly the objects and secretObjects the vault asks for:
\* whatever watch events were lost, retries were used up or edits were made.
Converges ==
  <>[]~outage => \A n \in Spcs : <>[](Exists(n) /\ spc[n].mode = "ok" => Synced(n))

\* Having synced, the controller stops writing: its own MODIFIED events do
\* not keep it patching ("only updates when objects actually change").
PatchesStop == <>[][\A w \in Workers : ~(PatchApplies(w) \/ PatchUnanswered(w))]_vars
===============================================================================
