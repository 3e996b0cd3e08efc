------------------------- MODULE SecretMetadataProofs -------------------------
(***************************************************************************)
(* The Secret watcher, for any keys, values and number of outside changes: *)
(* what it has written stays tracked, and a patch takes away nothing but   *)
(* tracked keys (and, on a Secret listed without any, annotations).        *)
(***************************************************************************)
EXTENDS SecretMetadata, TLAPS

\* While a pass is under way, what is the watcher's was tracked when the
\* Secret was listed: only the pass itself could add to it.
SeenCoversOurs == pass.step # "idle" /\ secret # Gone => ours \subseteq pass.seen.tracked

TrackedInv == TypeOK /\ TrackedCoversOurs /\ SeenCoversOurs

\* A Secret that exists has metadata and tracked keys; so has a pass its copy.
LEMMA Records ==
  ASSUME TypeOK
  PROVE  /\ secret # Gone => secret \in SecretRecord
         /\ spc # Gone => spc \in SpcRecord
         /\ pass.step # "idle" =>
              /\ pass \in [step : {"find", "get", "patch"}, seen : SecretRecord,
                           wanted : Metadata]
              /\ pass.seen \in SecretRecord /\ pass.wanted \in Metadata
         /\ Idle.step = "idle"
BY DEF TypeOK, Idle

\* The patched Secret is a Secret.
LEMMA PatchedType ==
  ASSUME NEW cur \in SecretRecord, NEW seen \in SecretRecord, NEW w \in Metadata
  PROVE  Patched(cur, seen, w) \in SecretRecord
<1>1. \A k \in ToAdd(seen, w) : w[k] \in Values \cup {None}
  BY DEF ToAdd, Wanted, Metadata
<1>2. [k \in Keys |-> IF k \in ToAdd(seen, w) THEN w[k]
                      ELSE IF k \in ToRemove(seen, w) \cup Wiped(seen, w) THEN None
                      ELSE cur.meta[k]] \in Metadata
  BY <1>1 DEF Metadata, SecretRecord
<1>3. NewTracked(cur, seen, w) \in SUBSET Keys
  BY DEF NewTracked, Wanted, SecretRecord
<1> QED
  BY <1>2, <1>3 DEF Patched, SecretRecord

\* Init establishes the invariant.
LEMMA InitInv == Init => TrackedInv
<1> SUFFICES ASSUME Init PROVE TrackedInv
  OBVIOUS
<1>1. NewSecret \in SecretRecord
  BY DEF NewSecret, NoMetadata, SecretRecord, Metadata
<1>2. spc \in SpcRecord
  BY DEF Init, SpcRecord
<1>3. TypeOK
  BY <1>1, <1>2, EditsNat DEF Init, TypeOK
<1> QED
  BY <1>3 DEF Init, TrackedInv, TrackedCoversOurs, SeenCoversOurs

\* What the watcher still owns after a patch is tracked after it.  Of a kind
\* whose list is rewritten or removed, everything of the watcher's that is no
\* longer wanted had been listed as tracked and is taken off the Secret.
LEMMA PatchTracks ==
  ASSUME NEW cur \in SecretRecord, NEW seen \in SecretRecord, NEW w \in Metadata,
         NEW k \in Keys,
         \/ k \in ToAdd(seen, w)
         \/ /\ k \in cur.tracked /\ k \in seen.tracked
            /\ k \notin ToRemove(seen, w)
  PROVE  k \in NewTracked(cur, seen, w)
<1>1. k \in Wanted(w)
  BY DEF ToAdd, ToRemove
<1> QED
  BY <1>1 DEF NewTracked

\* The patch is sent by a pass with a copy and something wanted in hand.
LEMMA PatchKeeps ==
  ASSUME TrackedInv, PatchApplies
  PROVE  TrackedInv'
<1> DEFINE seen == pass.seen
           w == pass.wanted
<1>1. secret \in SecretRecord /\ seen \in SecretRecord /\ w \in Metadata
      /\ pass.step = "patch" /\ secret # Gone
  BY Records DEF TrackedInv, PatchApplies
<1>2. /\ secret' = Patched(secret, seen, w)
      /\ ours' = (ours \ (ToRemove(seen, w) \cup Wiped(seen, w))) \cup ToAdd(seen, w)
      /\ pass' = Idle
      /\ UNCHANGED <<spc, indexed, outage, edits>>
  BY DEF PatchApplies
<1>3. secret'.tracked = NewTracked(secret, seen, w)
  BY <1>2 DEF Patched
<1>4. ours \subseteq Keys /\ ours \subseteq secret.tracked /\ ours \subseteq seen.tracked
  BY <1>1 DEF TrackedInv, TypeOK, TrackedCoversOurs, SeenCoversOurs
<1>5. ToAdd(seen, w) \subseteq Keys
  BY DEF ToAdd, Wanted
<1>6. secret' \in SecretRecord
  BY <1>1, <1>2, PatchedType
<1> HIDE DEF seen, w
<1>7. TypeOK'
  BY <1>2, <1>4, <1>5, <1>6 DEF TrackedInv, TypeOK
<1>8. TrackedCoversOurs'
  <2> SUFFICES ASSUME NEW k \in ours' PROVE k \in secret'.tracked
    BY DEF TrackedCoversOurs
  <2>1. k \in Keys
    BY <1>2, <1>4, <1>5
  <2>2. \/ k \in ToAdd(seen, w)
        \/ k \in secret.tracked /\ k \in seen.tracked /\ k \notin ToRemove(seen, w)
    BY <1>2, <1>4
  <2> QED
    BY <1>1, <1>3, <2>1, <2>2, PatchTracks
<1>9. SeenCoversOurs'
  BY <1>2 DEF SeenCoversOurs, Idle
<1> QED
  BY <1>7, <1>8, <1>9 DEF TrackedInv

LEMMA WatcherKeeps == TrackedInv /\ Watcher => TrackedInv'
<1> SUFFICES ASSUME TrackedInv, Watcher PROVE TrackedInv'
  OBVIOUS
<1> USE Records
<1>1. CASE ListSecrets
  <2>1. NoMetadata \in Metadata
    BY DEF NoMetadata, Metadata
  <2>2. secret \in SecretRecord
    BY <1>1 DEF ListSecrets, TrackedInv
  <2>3. TypeOK'
    BY <1>1, <2>1, <2>2 DEF ListSecrets, TrackedInv, TypeOK
  <2> QED
    BY <1>1, <2>3 DEF ListSecrets, TrackedInv, TrackedCoversOurs, SeenCoversOurs
<1>2. CASE FindSPCForSecret
  <2>1. pass \in [step : {"find", "get", "patch"}, seen : SecretRecord, wanted : Metadata]
    BY <1>2 DEF FindSPCForSecret, TrackedInv
  <2>2. /\ pass' = Idle \/ pass' = [pass EXCEPT !.step = "get"]
        /\ UNCHANGED <<spc, indexed, secret, ours, outage, edits>>
    BY <1>2 DEF FindSPCForSecret
  <2>3. TypeOK'
    BY <2>1, <2>2 DEF TrackedInv, TypeOK
  <2>4. SeenCoversOurs'
    BY <1>2, <2>1, <2>2 DEF FindSPCForSecret, TrackedInv, SeenCoversOurs, Idle
  <2> QED
    BY <2>2, <2>3, <2>4 DEF TrackedInv, TrackedCoversOurs
<1>3. CASE GetSpc
  <2>1. pass \in [step : {"find", "get", "patch"}, seen : SecretRecord, wanted : Metadata]
    BY <1>3 DEF GetSpc, TrackedInv
  <2>2. spc.wanted \in Metadata
    BY <1>3 DEF GetSpc, TrackedInv, SpcRecord
  <2>3. /\ pass' = Idle \/ pass' = [pass EXCEPT !.step = "patch", !.wanted = spc.wanted]
        /\ UNCHANGED <<spc, indexed, secret, ours, outage, edits>>
    BY <1>3 DEF GetSpc
  <2>4. TypeOK'
    BY <2>1, <2>2, <2>3 DEF TrackedInv, TypeOK
  <2>5. SeenCoversOurs'
    BY <1>3, <2>1, <2>3 DEF GetSpc, TrackedInv, SeenCoversOurs, Idle
  <2> QED
    BY <2>3, <2>4, <2>5 DEF TrackedInv, TrackedCoversOurs
<1>4. CASE PassFails \/ PatchRefused
  <2>1. pass' = Idle /\ UNCHANGED <<spc, indexed, secret, ours, outage, edits>>
    BY <1>4 DEF PassFails, PatchRefused
  <2> QED
    BY <2>1 DEF TrackedInv, TypeOK, TrackedCoversOurs, SeenCoversOurs
<1>5. CASE PatchApplies
  BY <1>5, PatchKeeps
<1> QED
  BY <1>1, <1>2, <1>3, <1>4, <1>5 DEF Watcher

\* Nobody but the watcher adds to what is the watcher's, and what others do
\* to the Secret leaves the tracking annotations alone, unless it starts anew.
LEMMA EnvironmentKeeps == TrackedInv /\ Environment => TrackedInv'
<1> SUFFICES ASSUME TrackedInv, Environment PROVE TrackedInv'
  OBVIOUS
<1> USE Records
<1>0. ASSUME Edit PROVE edits' \in 0 .. MaxEdits /\ pass' = pass /\ outage' = outage
  BY <1>0, EditsNat DEF Edit, TrackedInv, TypeOK
<1>1. CASE UserSetsKey
  <2>1. PICK k \in Keys, v \in Values \cup {None} :
          secret' = [secret EXCEPT !.meta[k] = v] /\ ours' = ours \ {k}
    BY <1>1 DEF UserSetsKey
  <2>2. secret \in SecretRecord /\ Edit /\ UNCHANGED <<spc, indexed>> /\ secret # Gone
    BY <1>1 DEF UserSetsKey, TrackedInv
  <2>3. secret' \in SecretRecord /\ secret'.tracked = secret.tracked
    BY <2>1, <2>2 DEF SecretRecord, Metadata
  <2>4. TypeOK'
    BY <1>0, <2>1, <2>2, <2>3 DEF TrackedInv, TypeOK
  <2> QED
    BY <1>0, <2>1, <2>2, <2>3, <2>4 DEF TrackedInv, TrackedCoversOurs, SeenCoversOurs
<1>2. CASE DriverActs
  <2>1. NewSecret \in SecretRecord
    BY DEF NewSecret, NoMetadata, SecretRecord, Metadata
  <2>2. TypeOK'
    BY <1>0, <1>2, <2>1 DEF DriverActs, TrackedInv, TypeOK
  <2> QED
    BY <1>2, <2>2 DEF DriverActs, TrackedInv, TrackedCoversOurs, SeenCoversOurs
<1>3. CASE SpcChanges
  <2>1. TypeOK'
    BY <1>0, <1>3 DEF SpcChanges, TrackedInv, TypeOK, SpcRecord
  <2> QED
    BY <1>0, <1>3, <2>1 DEF SpcChanges, TrackedInv, TrackedCoversOurs, SeenCoversOurs
<1>4. CASE IndexChanges
  <2>1. TypeOK'
    BY <1>0, <1>4 DEF IndexChanges, TrackedInv, TypeOK
  <2> QED
    BY <1>0, <1>4, <2>1 DEF IndexChanges, TrackedInv, TrackedCoversOurs, SeenCoversOurs
<1>5. CASE OutageFlips
  BY <1>5 DEF OutageFlips, TrackedInv, TypeOK, TrackedCoversOurs, SeenCoversOurs
<1> QED
  BY <1>1, <1>2, <1>3, <1>4, <1>5 DEF Environment

LEMMA TrackedInvariant == Spec => []TrackedInv
<1>1. TrackedInv /\ [Next]_vars => TrackedInv'
  <2>1. TrackedInv /\ UNCHANGED vars => TrackedInv'
    BY DEF vars, TrackedInv, TypeOK, TrackedCoversOurs, SeenCoversOurs
  <2> QED
    BY <2>1, WatcherKeeps, EnvironmentKeeps DEF Next
<1> QED
  BY <1>1, InitInv, PTL DEF Spec

\* Type correctness.
THEOREM TypeCorrect == Spec => []TypeOK
BY TrackedInvariant, PTL DEF TrackedInv

\* No key the watcher has written is ever forgotten by its tracking.
THEOREM TrackingIsComplete == Spec => []TrackedCoversOurs
BY TrackedInvariant, PTL DEF TrackedInv

\* A patch changes nothing but keys the SPC asks for, keys that were tracked
\* when the Secret was listed, and annotations of a Secret listed without any.
THEOREM PatchesKeepToTheirKeys == Spec => PatchKeepsToItsKeys
<1>1. TypeOK /\ [Next]_vars =>
        [secret # Gone /\ secret' # Gone /\ pass.step = "patch" /\ pass' # pass =>
           \A k \in Keys :
             secret'.meta[k] # secret.meta[k] =>
               \/ k \in Wanted(pass.wanted)
               \/ k \in pass.seen.tracked
               \/ k \in AnnotationKeys /\ ~HasAnnotations(pass.seen)]_vars
  <2> SUFFICES ASSUME TypeOK, Next, secret # Gone, secret' # Gone,
                      pass.step = "patch", pass' # pass,
                      NEW k \in Keys, secret'.meta[k] # secret.meta[k]
               PROVE  \/ k \in Wanted(pass.wanted)
                      \/ k \in pass.seen.tracked
                      \/ k \in AnnotationKeys /\ ~HasAnnotations(pass.seen)
    OBVIOUS
  <2>1. PatchApplies
    BY DEF Next, Watcher, Environment, ListSecrets, FindSPCForSecret, GetSpc, PassFails,
           PatchRefused, UserSetsKey, DriverActs, SpcChanges, IndexChanges, OutageFlips, Edit
  <2>2. k \in ToAdd(pass.seen, pass.wanted)
          \cup ToRemove(pass.seen, pass.wanted) \cup Wiped(pass.seen, pass.wanted)
    BY <2>1 DEF PatchApplies, Patched
  <2> QED
    BY <2>2 DEF ToAdd, ToRemove, Wiped, Wipes
<1> QED
  BY <1>1, TypeCorrect, PTL DEF Spec, PatchKeepsToItsKeys

\* A patch always applies to the very Secret it was computed from, provided
\* that no managed key is missing on it, and leaves what is wanted there.
LEMMA PatchOfOwnCopy ==
  ASSUME NEW seen \in SecretRecord, NEW w \in Metadata,
         \A k \in seen.tracked : seen.meta[k] # None
  PROVE  /\ Applies(seen, seen, w)
         /\ \A k \in Wanted(w) : Patched(seen, seen, w).meta[k] = w[k]
<1>1. Applies(seen, seen, w)
  BY DEF Applies, ToRemove
<1>2. ASSUME NEW k \in Wanted(w) PROVE Patched(seen, seen, w).meta[k] = w[k]
  <2>1. k \in Keys /\ w[k] # None /\ k \notin ToRemove(seen, w)
    BY DEF Wanted, ToRemove
  <2>2. CASE k \in ToAdd(seen, w)
    BY <2>1, <2>2 DEF Patched
  <2>3. CASE k \notin ToAdd(seen, w)
    <3>1. seen.meta[k] = w[k]
      BY <2>3 DEF ToAdd
    <3>2. k \notin Wiped(seen, w)
      BY <2>1, <3>1 DEF Wiped, Wipes, HasAnnotations
    <3> QED
      BY <2>1, <2>3, <3>1, <3>2 DEF Patched
  <2> QED
    BY <2>2, <2>3
<1> QED
  BY <1>1, <1>2

\* THEOREM.  For any keys and values: a pass that nobody disturbs ends with
\* the Secret in step, old values replaced and former keys taken off, unless
\* a managed key is missing.  MetadataConverges adds only that such a pass
\* comes, which is a matter of fairness.
THEOREM PassDelivers == Spec => UndisturbedPassDelivers
<1>1. TrackedInv /\ [Next]_vars =>
        [pass.step \in {"get", "patch"} /\ pass'.step = "idle"
           /\ ~outage /\ TrackedArePresent
           /\ secret = pass.seen /\ spc # Gone
           /\ (pass.step = "patch" => pass.wanted = spc.wanted) => InStep']_vars
  <2> SUFFICES ASSUME TrackedInv, Next, pass.step \in {"get", "patch"}, pass'.step = "idle",
                      ~outage, TrackedArePresent, secret = pass.seen, spc # Gone,
                      pass.step = "patch" => pass.wanted = spc.wanted
               PROVE  InStep'
    OBVIOUS
  <2> DEFINE seen == pass.seen
             w == spc.wanted
  <2>1. /\ seen \in SecretRecord /\ w \in Metadata /\ secret = seen /\ seen # Gone
        /\ \A k \in seen.tracked : seen.meta[k] # None
    BY Records, GoneIsNoRecord DEF TrackedInv, SpcRecord, TrackedArePresent
  <2>2. ours \subseteq seen.tracked
    BY <2>1 DEF TrackedInv, TrackedCoversOurs
  <2>3. Applies(seen, seen, w) /\ \A k \in Wanted(w) : Patched(seen, seen, w).meta[k] = w[k]
    BY <2>1, PatchOfOwnCopy
  <2> HIDE DEF w
  <2>4. GetSpc \/ PatchApplies
    <3>1. pass' # pass
      OBVIOUS
    <3>2. ~PatchRefused
      BY <2>1, <2>3 DEF PatchRefused, w
    <3> QED
      BY <3>1, <3>2
      DEF Next, Watcher, Environment, ListSecrets, FindSPCForSecret, PassFails,
          UserSetsKey, DriverActs, SpcChanges, IndexChanges, OutageFlips, Edit
  <2>5. CASE GetSpc
    <3>1. pass.step = "get" /\ UNCHANGED <<spc, secret, ours>>
      BY <2>5 DEF GetSpc
    <3>2. NothingToDo(seen, w)
      BY <2>5 DEF GetSpc, w
    <3> QED
      BY <2>1, <2>2, <3>1, <3>2 DEF InStep, NothingToDo, w
  <2>6. CASE PatchApplies
    <3>1. /\ secret' = Patched(seen, seen, w) /\ spc' = spc
          /\ ours' = (ours \ (ToRemove(seen, w) \cup Wiped(seen, w))) \cup ToAdd(seen, w)
      BY <2>1, <2>6 DEF PatchApplies, w
    <3>2. ours' \subseteq Wanted(w)
      BY <2>2, <3>1 DEF ToRemove, ToAdd
    <3>3. secret' # Gone
      BY <2>1, <3>1, PatchedType, GoneIsNoRecord
    <3> QED
      BY <2>3, <3>1, <3>2, <3>3 DEF InStep, w
  <2> QED
    BY <2>4, <2>5, <2>6
<1> QED
  BY <1>1, TrackedInvariant, PTL DEF Spec, UndisturbedPassDelivers
===============================================================================
