# A formal model of the Azure Key Vault sync controller

TLA+ specifications of the controller in this repository, TLC configurations
that check them on small instances, and TLAPS proofs of the results that can be
had for every instance. Paths are relative to the repository.

The controller keeps `SecretProviderClass` objects (SPCs) of the Secrets Store
CSI driver in step with Azure Key Vaults: which secrets and certificates an SPC
mounts is decided by tags in the vault. It works in two modes, side by side in
one process: SPCs that carry a service-account annotation are patched in place
(annotation mode), and `AzureKeyVaultSync` resources have SPCs created for them
(CRD mode). A third part, the Secret watcher, puts annotations and labels on the
Kubernetes Secrets that the CSI driver makes from an SPC.

## 1. Inventory

| Part | Code | State | Operations |
| --- | --- | --- | --- |
| Circuit breaker | `internal/circuitbreaker` | state, failures, lastFailTime | `Call` = `before`, fn without the lock, `after`; `Reset` |
| SPC cache | `internal/cache` | SPCs by name, index Secret -> SPC | `Set`, `Delete`, `Has`, `FindSPCForSecret`, `List` |
| Annotation-mode controller | `internal/controller/controller.go` | work queue, watch, one reconcile per worker | `handleEvent`, `enqueueAll`, `processNextItem`, `reconcile`, `reconcileResource`, `handleReconcileResult` |
| Start and stop | `Run`, `worker`, `drainQueue` in `controller.go`; `cmd/controller/main.go`; `internal/health` | where `Run`, main and the workers are; two readiness flags | `Run`'s loop and its ways out, `drainQueue`, `SetWatchConnected`, `SetWorkersRunning`, `IsReady`, main's shutdown |
| Patch generation | `internal/update` | none | `Generate...`, `CompareSecretObjects`, patch building |
| Secret watcher | `controller.go:1260-1600`, `internal/azure/annotations.go` | tracking annotations on the Secrets themselves | `watchSecrets`, `reconcileSecretAnnotations`, `findSPCForSecret`, `patchSecretMetadata` |
| CRD reconciler | `azurekeyvaultsync_reconciler.go`, `controller.go:780-1255` | status of the resource; informer caches and queue of controller-runtime | `Reconcile`, `reconcileAzureKeyVaultSync`, `generateSecretProviderClass` |
| Token caches | `internal/token`, `internal/azure/azure.go` | tokens by service account | `GetToken`, `IsTokenValid`, cleanup |
| Vault listing | `internal/azure/vault.go`, `errors.go` | the pager's place, the list so far | `ListSecrets`, `ListCertificates`, retries on throttling |
| Tag filters | `internal/azure/filter.go`, `vault.go`, `internal/update` | none | `MatchesTags`, `ShouldSync`, `matchesAllFilters` |
| Configuration, logging, API types | `internal/config`, `internal/logger`, `api/v1alpha1` | settings | parsing, output |

**How they interact.** `Run` connects a watch and feeds `handleEvent`, which
adds keys to a rate-limiting work queue or deletes from the SPC cache. Workers
take keys, fetch the SPC, get a Kubernetes and an Azure token through the token
caches, list secrets and certificates through the circuit breaker (one breaker
for every worker and the CRD reconciler), patch the SPC if it differs, and store
it in the cache. A periodic resync queues everything again. The patch itself
makes a MODIFIED event, so each write triggers another reconcile. The Secret
watcher, on a ticker of its own, goes from each managed Secret by the cache's
index to the SPC and copies the metadata it finds there. The CRD reconciler
runs under controller-runtime: its reads come from informer caches that lag, its
own writes trigger it again, and the Kubernetes garbage collector deletes what
it owns. main starts both modes and the health server; a signal cancels the one
context they share, and main then waits for `Run`, for the manager and for the
health server in turn, each for a limited time. `Run` tells the health checker
whether its watch is open and its workers run; the readiness probe reads that.

**What is hard here.** Remote calls without locks between a read and the write
that depends on it; several workers and an event loop on the same keys and the
same cache; a breaker whose callers return in another state than they left in;
retries that end, watch events that are lost, and a resync that must make up for
both; JSON patches that are all-or-nothing and computed from an old copy; a
controller that reacts to its own writes; stale informer caches; listings whose
pages are from different moments and whose retries have no limit; a shutdown
that waits for a queue while those who empty it go; a process that dies between
a write and its being noted, or never hears that a write was done. `PROJECT.json`
lists each hazard at its line, with the properties that cover it or the reason
why none does.

**What makes each part correct.**

- Breaker: count and state agree; it opens after a bounded number of failures,
  refuses for the cool-down, and recovers.
- Cache: the index never leads to an SPC that does not list the Secret.
- Controller: one reconcile per SPC at a time, nothing written that the vault
  did not say, bounded retries, convergence, no endless patching.
- Secret watcher: removes what it added and nothing else; converges.
- CRD reconciler: converges through stale reads and conflicts; writes come from
  one source; deletion cascades; it comes to rest.
- Token caches: never a nil token, never an expired one.
- Listing and filters: all of the vault or an error; an SPC gets what is meant
  for it and nothing of another tenant; a listing ends.
- Start and stop: ready means serving; the process ends in order and in time,
  whatever its workers, its manager and the API server do.

## 2. Modules

| Module | Models | Kind |
| --- | --- | --- |
| `BreakerContract` | what a caller may rely on: no call goes out while tripped and cooling down, only a failure trips | abstract specification |
| `CircuitBreaker` | the breaker with concurrent callers; implements `BreakerContract` | state machine |
| `SpcNames` | the constant both queue and cache are keyed by | |
| `SpcCache` | cache and reverse index | state machine |
| `WorkQueue` | client-go's queue as the controller uses it (external code) | operators on its state |
| `SyncController` | annotation mode; composes `WorkQueue` and `SpcCache` with the watch, the workers, users, the vault and outages | state machine |
| `SecretMetadata` | the Secret watcher on one managed Secret | state machine |
| `CrdSync` | CRD mode for one `AzureKeyVaultSync`, with its informers, the API server and the garbage collector | state machine |
| `TokenCache` | either token cache, for one key | state machine |
| `Lifecycle` | `Run`, workers, `drainQueue`, readiness, main; composes `WorkQueue` with them | state machine |
| `TagFilter` | the filters of both modes, and what they are meant to select | operators |
| `ListingContract` | a listing as the reconcilers take it: one step, all or nothing | abstract specification |
| `VaultListing` | the pager loop against a vault that changes; implements `ListingContract`, uses `TagFilter` | state machine |
| `*Proofs` | theorems about `CircuitBreaker`, `SpcCache`, `SyncController`, `SecretMetadata`, `CrdSync`, `TokenCache`, `Lifecycle`, `VaultListing` | proofs |
| `MC*` | instances for TLC | |

### CircuitBreaker

`Admit`, `Reject` and `HalfOpen` are the branches of `before`; `Fail` and
`Succeed` those of `after`, as steps of their own, because the lock is not held
while fn runs. `sinceFail` is the age of `lastFailTime`: the code only ever
compares it with `resetTimeout`, so it saturates one tick past it. `azure` is
the environment: calls fail while it is down. Every kind of error counts alike,
as in the code. `Contract` maps "tripped" to "open".

### SpcCache

An object is the set of Secret names its `secretObjects` list; nothing else of
it is read. `Set` and `Delete` first drop the index entry of everything the old
object listed, whoever that entry names, as the code does (`Reindex`).

### SyncController

One action per step between remote calls. `Take` is the queue's `Get`;
`GetFound`/`GetNotFound` the fetch of the SPC; `ListSecrets` and
`ListCertificates` the two listings, the comparison being part of the second;
`PatchApplies`/`PatchRefused` the JSON patch as the API server treats it, and
`PatchUnanswered` one that is applied while its answer is lost, so that the
worker takes it for a failure;
`Store` the `cache.Set` of the object *as it was fetched*; `FinishOk`,
`FinishRetry`, `FinishDrop` the three outcomes of `handleReconcileResult` with
the deferred `Done`. `HandleEvent` is one event of the watch in whole;
`EnqueueAll` lists and adds everything in one step, at start and on every resync
tick; after a reconnection it is the new watch's ADDED events that do this work
(`WatchConnects`). A vault item's tag (`none`, `sync`,
`k8s`, `noted`) stands for what its tags ask of the controller, after filtering.
An SPC is its mode (no annotation, broken parameters, complete) and the sets of
items in `objects`, `secretObjects` and copied annotations. `Restart` is the end
of the process at any step, by a crash or a shutdown that waited for no worker,
and the start of the next, which has nothing in memory. It is tied to `outage`,
which may begin and end at any moment, only so that "from some point on no more
outages" also says "no more restarts". `seen` only serves properties: the tags
each item has had since work on an SPC last began.

The API server applies JSON patches with `evanphx/json-patch` v4.12 (go.mod):
there "replace" of a missing member adds it, while "remove" of a missing one, or
"add" below a missing parent, fails the whole patch.

### SecretMetadata

The watcher's pass over one Secret: `ListSecrets`, `FindSPCForSecret`, `GetSpc`
(with the comparison), and the patch, computed from the listed copy and applied
to whatever the Secret is by then. `findSPCForSecret` asks the Secret's label
`secrets-store.csi.k8s.io/secretProviderClass` first, then the cache's index,
and searches only if both fail. Whether one of the two leads to the SPC is an
environment variable (`indexed`) that may change at any time, which covers a
label set or missing and every state `SpcCache` can be in. The Secret's label
map always exists, since the CSI driver labels what it manages; its annotation
map may not, and then the patch starts with `add /metadata/annotations {}`,
which wipes annotations that came since.

### CrdSync

`FetchSync` and `GetSpc` read informer copies, which take over the latest state
at any later moment (states in between are coalesced); `CreateSpc` and
`UpdateSpc` write to the API server and are refused when the object exists or is
not the one that was read, and either may lose its answer (`Answered`);
`UpdateStatus` writes `lastSyncTime`, of which only "another second than before"
matters. Every event of the resource or of an owned SPC queues the request
again; `later` is `RequeueAfter` or the back-off, and `failed` says whether the
last attempt ended in an error. The spec's `deletePolicy` has no place in the
module: the code only derives `BlockOwnerDeletion` from it
(`controller.go:844`), which makes a foreground deletion of the sync wait for
the SPC and keeps no garbage collector from deleting it. The garbage collector
removes an SPC whose owner is gone or is a new object of the same name.
`Restart` loses queue, reconcile and informer copies; the next process lists
both kinds before it works. `seen` only serves properties, as in
`SyncController`. Validation of the generated YAML is left out: what the
generator produces always passes it.

A user may put the service-account annotation on the SPC, which makes it one of
annotation mode as well. What that mode does to it belongs to the surroundings:
`AnnotationReads` has fetched the SPC and listed its vault and found a difference,
`AnnotationPatches` applies the JSON patch to whatever SPC is there by then,
`AnnotationFails` ends without one; none of them is owed to anybody, since nothing
that is claimed of CRD mode needs them. `Unfiltered` makes the two modes disagree:
what the sync's filters leave out (`FilteredOut`), annotation mode wants in. The
annotation and the time stamp of a patch are `Foreign` members of the SPC's
`notes`; CRD mode compares and replaces all annotations and so takes both away.

### TokenCache

`Hit` or `Miss` is `IsTokenValid` under its lock, `Read` the second lock of
`GetToken`, `Granted` and `Store` the request without a lock and the write.
`CleanupExpired` is the cleanup goroutine. Tokens age in ticks. A caller is held
up for at most `MaxPause` ticks between two of its steps, except while it waits
for the issuer; `PausesShort` says how this compares with lifetimes and renewal
margins (in the code: at least an hour's token, and a fifth of that as margin).
`Margin` is a function of the granted life, so one module covers the Kubernetes
cache (fixed margin) and the Azure cache (relative margin).

### Lifecycle

`run` is where `Run` is: the initial sync, the top of its loop, the `Watch`
call, the `time.Sleep` after a failed one, the inner `select`, the delay after a
closed watch, `drainQueue`, returned. `main` is where main is: up, waiting for
`Run`, for the manager, for the health server, exited, or `forced` when it stops
waiting for `Run`. `LooksAtContext`, `WatchFails`, `SeesShutdown` and
`SeesShutdownInDelay` are the four ways out of `Run`, of which the last clears
one flag only. `WorkerLoops`, `TakesKey`, `EndsReconcile` and `GetShutDown` are
a worker's loop; a reconcile in between may last for ever. Time is counted in
`Tick`s of the 500 ms between two looks of `drainQueue`; a `Tick` waits for what
is ready to run, so that "within so many ticks" means what a clock would.
`elapsed` and `late` only serve properties.

### TagFilter, ListingContract and VaultListing

`Texts` are what may be written in a tag, a label or a filter, and `Normalize`
is `normalizeTag`, of which only matters that doing it twice is doing it once
and that it keeps the empty text. `MatchesTags` compares normalized texts; the
opt-in and the filters of CRD mode compare them to the letter. `Selects` is the
loop of either mode over the list (`generateSecretProviderClass`,
`reconcileResource`): both skip what is not opted in, whatever labels or filters
say. `MeantFor` is the reference: an object that is opted in is for the tenants
in its `Audience`, or for whoever filters for a subset of its tags.
`VaultListing` is `ListSecrets` (`ListCertificates` differs in nothing
modelled): `PageArrives`, `PageThrottled` with the sleep of `ExtractRetryAfter`,
`Wakes`, and `PageFails`, which returns no pages at all. `misread` is the loose
test of `IsAzureThrottled`: an error whose text holds "429" anywhere counts as
throttling. `held` remembers what each name stood for since the listing began;
`ListingContract` answers with any view made of these. External assumption: Key
Vault lists in the order of names and continues after the last name of the
previous page.

## 3. Runs

| Run | Instance | Shows |
| --- | --- | --- |
| `breaker` | 3 callers, threshold 2, cool-down 2 | state and count agree; load per opening is bounded; contract implemented; recovers after an outage; keeps tripping during one |
| `cache` | 2 SPCs, 2 shared Secrets and 1 of each SPC's own, nil objects | index sound; complete for Secrets that only one SPC lists |
| `sync_safe` | 1 SPC, 2 workers, a secret and a certificate, 1 retry, 3 edits | one worker per SPC; writes come from the vault in this reconcile; when its work has settled, an SPC is what the vault asked for and the cache current; retries bounded |
| `sync_live` | 1 SPC, 1 worker, 1 item with every tag that counts, 1 retry, 2 edits | convergence and an end of patching |
| `metadata` | 1 annotation, 1 label, 2 values, 4 outside changes | tracking covers what was written; patches keep to their keys; an undisturbed pass puts the Secret in step; convergence unless a managed key goes missing |
| `crd` | 2 sources, 1 item that annotation mode wants in any case, 2 edits | one source per write; no sync is forgotten; what the reconciler rests on was asked for; convergence; cascade; an end of writing, also when annotation mode works on the same SPC |
| `token` | 3 callers, lifetimes 6 and 10 | no nil read; no expired token handed out |
| `lifecycle` | 2 SPCs, 2 workers, 1 retry, every wait scaled down | ready means serving and comes back; one more reconcile at most per worker after the signal; the process stops in order and in time |
| `listing` | 3 names on pages of 2, 4 kinds of object, 6 SPCs of both modes, 1 change | all or nothing; the right selection; a listing ends |

The three other runs refute statements of the repository's documentation; see
section 6.

**Why the bounds suffice.** The races are between two parties on one object: two
workers and one event loop on one SPC; one pass of the watcher and one outside
change after each of its reads, which three or four changes allow; a reconcile
and a deletion with re-creation, which is two edits. Three callers let two calls
from an earlier state be out while a third changes the state twice. Two retries
differ from one in nothing the code distinguishes (`NumRequeues < maxRetries`).
Two undelivered events are enough for one to be overtaken by the next change;
with more the watch is cut off, which the model allows anyway at any moment.
Edits are bounded, so "once changes end" is part of every liveness property;
outages, restarts, lost answers and lost watches are not bounded.
`Lifecycle`'s times (1 tick for the retry delay, the manager's and the health
server's time, 4 for the drain, 6 for main's first wait, for the code's 5, 10, 5,
20 and 30 s) keep the one relation the code relies on, `ShutdownLongEnough`; the
proofs need no other. A listing of two pages and one change between them shows
each case of an object before, on and after the marker; the kinds of object
and of SPC differ in letter case, in each of the two tags, in enablement, in
opt-in and in filters (none, one that fits to the letter, one in other letters).
The filters for all tags and labels are proved (`FiltersAreMeant`).
In `crd` the sync begins with one of two equal sources (`FirstSources`); beginning
with the other gives the same behaviours with the names exchanged.

**Fairness.** Breaker: time passes, fn returns, and somebody calls again (the
resync sees to it); no single caller is promised a turn, and `Reset` nothing.
Controller: the loop goroutine runs, timers fire, remote calls return (weak
fairness), and a waiting key is handed out (strong fairness: the queue is FIFO,
but other keys come and go meanwhile). Secret watcher: its ticker fires and its
calls return. CRD: informers catch up, the worker and the garbage collector
run. Nothing is assumed of users, vaults, or the network: each liveness property
says itself what must have become quiet, e.g. `<>[]~outage`, which covers restarts
and lost answers, too. "Calls return" is what `VaultListing` looks into: there,
single requests are answered and sleeps end, and the listing as a whole ends
unless Azure throttles for ever or an error is misread as throttling. Lifecycle:
`Run` and main run and time passes; nothing is assumed of workers, manager and
API server. That run alone does not check for deadlock, since a process that has
ended takes no step.

## 4. Proofs

All are for arbitrary values of the constants, under the modules' named
assumptions only.

- **CircuitBreakerProofs.** `TypeCorrect`; `PassesBelowThreshold`, inductive
  together with the types; `OutageLoadBounded`, which rests on that: when the
  last failure opens the breaker the count equals the threshold and everyone
  else may still be out, and from then on nobody leaves, so each further failure
  takes one from the calls out (cardinality lemmas `RunningFinite` and
  `ComingBack`); `BreakerImplementsContract`, step by step, with the
  refinement mapping of `Contract`.
- **SpcCacheProofs.** `IndexIsSound`, by a lemma about any
  write (`WriteKeepsSound`); `IndexIsComplete`, with `StoredFromStorable` (what
  is cached was stored) as the strengthening: a write of another SPC cannot
  touch the entry of a Secret it never lists. That the two maps keep their
  types is a lemma here and part of `SyncController`'s `TypeOK`.
- **SyncControllerProofs.** `TypeCorrect`, whose invariant includes what each
  step of a job has in hand and that no key is retried beyond the limit.
  `OneWorkerPerResource`: inductive because it also says that the queue's
  `processing` set is exactly the keys of the busy workers, which is what stops
  `Take` from handing out a key twice. `WritesFromVault`, from `ListedWasSeen`:
  what a worker has listed, and what the vault says now, was seen during its
  reconcile. `CacheCatchesUp` and `NothingForgotten`, from `PromiseInv`: of a
  valid SPC under a connected watch, the last event on its way is never one that
  says otherwise, and either an event or a place in the queue promises another
  look, or it was given up, or the worker that has it is on track (it will compare
  what is there with the vault, has found it as it should be, is about to fail or
  to patch), or nobody has it and both SPC and cache are as they should be. It
  rests on `OneWorkerPerResource`: a second worker on the same SPC could store
  over the first. `PatchSettles` and `NamesakesNeverSettle` are about the
  comparison alone: a reconcile accepts what its own patch left exactly unless a
  secret and a certificate of one name both want a Kubernetes Secret.
  `ControllerIndexIsSound` carries `IndexSound` over to the composition, with the
  cache's own lemma `WriteKeepsSound`.
- **SecretMetadataProofs.** `TypeCorrect`; `TrackingIsComplete`, inductive with
  `SeenCoversOurs`: during a pass, what is the watcher's was tracked in the
  listed copy already, since nobody else adds to it; so whatever a patch neither
  wants nor removes was not the watcher's. `PatchesKeepToTheirKeys` is the
  action property for any step of the specification. `PassDelivers` adds what a
  pass achieves: `PatchOfOwnCopy` says that a patch applied to the very Secret it
  was computed from leaves it in step, whenever all its operations apply.
- **CrdSyncProofs.** `TypeCorrect` together with `FreshIsCurrent` (a copy that is
  not stale is what the API server has): an update is taken only of the object
  that was read, without which a status update could meet a sync that is gone.
  `WritesOfOneSource`, from an invariant like `ListedWasSeen` above that also ties
  the list to the vault of the sync in hand. `SomebodyComesBack` is inductive with
  `FreshIsCurrent`: the one end of a reconcile that sets no timer has found no
  sync, and can have missed one only with an informer that is behind.
  `RestsInStep`, from `RestInv`: unless an informer is behind or the request is
  queued, a reconcile under way has the sync that is there, and one that is about
  to end without a write has compared the SPC that is there (`NothingToWrite`);
  afterwards `MatchesStays` holds until somebody touches either object, which
  queues the request. What annotation mode may do is in all of these
  (`AnnotationLeaves`: it changes the SPC and nothing else, and then the
  informer is behind).
- **TokenCacheProofs.** `TypeCorrect`, `ReadNeverNil` and `HandsOutLiveTokens`
  from one inductive invariant, `GapInv`: a token on its way to the cache has
  aged exactly as long as its caller waited; the recorded life is the granted
  one less at most one pause; so an entry that passed the check, or any entry
  stored over it since, outlives the rest of the reader's pause.

- **LifecycleProofs.** `TypeCorrect`, which includes that the keys in work are
  those the workers hold; `ReadinessIsHonest` by `FlagInv` (both flags are up only
  in the inner `select`, and workers leave only after the signal);
  `OneMoreAtMost` by `LateInv` (a worker that looks at the context after the
  signal leaves, so what it takes late is what its `Get` was waiting for);
  `StopsSoon` by `TimeInv`, which bounds the ticks since the signal by what is
  left of `Run`'s and main's present waits. It needs `ShutdownLongEnough`.
- **VaultListingProofs.** `FiltersAreMeant`, for any set of texts and any
  normalization with the two properties above, and two consequences an operator
  relies on: `TenantsAreApart` (two SPCs that share an object ask for one
  service, and for different environments only if the object names none) and
  `EnvironmentAloneGetsNothing`. `TypeCorrect`, `SelectionRight` and
  `ListingImplementsContract` from `ListingInv`: each name up to the marker is
  settled, i.e. it was listed with tags, or passed over for a state, that it had
  since the listing began; `PageHasNoGap` says that a page leaves no name out.
  At the last page these states make up the view that `ListingContract` answers
  with.

`THEOREM`s that a run also checks are listed in `PROJECT.json`.

**Only model-checked:** every liveness property (the prover has no fairness
reasoning). Every invariant and every action property that a passing run checks
is proved as well. Of the convergence properties this includes what is safety in
them: `NothingForgotten`, `PassDelivers`, `SomebodyComesBack` and `RestsInStep`
say that nothing comes to rest in a wrong state or without somebody to look
again. What fairness adds stays with TLC: that the looking again happens, that
given-up keys return, and that outages end.

## 5. Abstractions to keep in mind

- `handleEvent` and `enqueueAll` are atomic: each only adds to the queue or
  makes one cache call, after a read of its own.
- In `SyncController` and `CrdSync` a listing is one step that sees the vault at
  one moment, or fails. `VaultListing` shows what that leaves out: pages of one
  listing may be from different moments, each object from one since its begin.
  The properties of the two modules are about objects one by one (`seen` collects
  what an item was during the reconcile) or about the time after the last change,
  when the two kinds of listing give the same.
- `Lifecycle` knows of a reconcile only that it ends well, badly or never.
- Annotation mode puts only `k8s-annotation.*` tags on the SPC; labels from tags
  reach it in CRD mode only (`controller.go:896`).
- An annotation tag whose name contains a slash becomes an SPC annotation key
  with two slashes, which an API server may refuse; the models assume names
  without.
- One managed Secret, one `AzureKeyVaultSync`, one token key at a time: these
  parts never relate two of them.

## 6. Where code and documentation disagree

Checked by a run that TLC must find violated:

| Run | Statement | What the code does |
| --- | --- | --- |
| `sync_namesake` | "only updates when objects actually change" (`rate-limiting.md:241`) | a secret and a certificate of one name are patched for ever, each patch triggering the next |
| `metadata_cleanup` | "When vault tags deleted, metadata automatically removed" (`README.md:498`) | if a managed key was removed by hand, every later patch of that Secret fails |
| `crd_rests` | "Single reconciliation per cycle" (`DUPLICATE_RECONCILIATION_FIX.md:106`) | the status update of a reconcile triggers the next one |

Met on the way and visible in the models, without a run of their own:

- Breaker: half-open lets everybody through, where `circuitbreaker.go:20` says
  "single call allowed" (`HalfOpen`, then `Admit`); authentication errors count,
  though `errors.go:78` says they should not.
- Annotation mode: replacing one of two SPCs that list the same Secret drops the
  index entry the other relies on; a reconcile that overlaps a deletion leaves
  the SPC in the cache; a reconcile that finds the annotation gone leaves it
  there, too; a key is tried `maxRetries` + 1 times; a changed annotation tag
  alone is not patched and a removed one never is.
- Secret watcher: a user's annotation that arrives between listing and patch is
  wiped if the Secret had none before.
- CRD mode: the owner reference is set for the policy Orphan, too, so the garbage
  collector takes the SPC that "remains" (`azurekeyvaultsync_types.go:53`); a
  changed vault name, tenant or client id alone does not update the SPC.
- Listing: an error misread as throttling (`errors.go:25-33`) is retried for ever
  and keeps its worker, which `ListingEnds` has to exclude. A `Retry-After` of
  zero makes the loop spin (`errors.go:58`).
- Filters: `azurekeyvaultsync_types.go:45-47` says of `filters` "If omitted, all
  secrets from the vault are synced"; `generateSecretProviderClass` skips what
  is not opted in, with filters or without (`controller.go:794-801`), as
  `README.md:716-718` has it. An SPC with an environment label and no service
  label gets nothing at all (`EnvironmentAloneGetsNothing`), since an object is
  never for an environment alone.
- Shutdown: `drainQueue` waits its full 20 s for a backlog that nobody empties
  any more, and returns at once with reconciles still running if none waits.
  main may need 35 s in all, where a pod has 30 by default. A failed manager is
  only logged and leaves the process ready. Ready is still answered between the
  signal and `Run`'s noticing it.
- Not in any model: `KUBERNETES_QPS=NaN` passes the validation (`config.go:143`);
  `TOKEN_RENEWAL_THRESHOLD` and `TOKEN_EXPIRATION_SECONDS` are parsed but nothing
  reads them; a health server that cannot listen is only logged
  (`health.go:147`), and main's branch for that error never runs.

## 7. Not modelled, and the plan

Not modelled, for good: configuration (read once, before anything runs; the
modules take its values as constants with assumptions), logging and metrics
output, HTTP serving of the probes (two handlers that read the flags `Lifecycle`
models), start-up wiring and clients, YAML layout and its parsing back, generated
deep copies, test helpers and manifests.

Partly: of the token caches one key of one identity is followed, which leaves out
that the Azure cache's key holds neither client nor tenant id; of the patch
generation the part that decides and what is written, not its text.

Order of work, most important first; the first ten are done:

1. `CircuitBreaker` against `BreakerContract`, with proofs.
2. `SpcCache`, with proofs.
3. `WorkQueue` and `SyncController`, with proofs of types and mutual exclusion.
4. `SecretMetadata`, with proofs of its safety properties.
5. `CrdSync`.
6. `TokenCache`, with proofs.
7. `Lifecycle`, with proofs of its safety properties.
8. `VaultListing` against `ListingContract`, with proofs.
9. `TagFilter`, with the proof that it selects what is meant.
10. Both modes writing one SPC (in `CrdSync`).
11. Compositions: the breaker in front of `SyncController`'s listings; a second
    key dimension (client and tenant id) in `TokenCache`.

No safety property of a passing run is left without its theorem; what could
still be proved is what a composition (item 11) would add.
