---------------------------- MODULE SecretMetadata ----------------------------
(***************************************************************************)
(* The Secret watcher of internal/controller/controller.go: one goroutine  *)
(* that every 30 seconds lists the Secrets the CSI driver made and copies  *)
(* the annotations and labels asked for in the SecretProviderClass's own   *)
(* annotations onto them, keeping in two tracking annotations on the       *)
(* Secret what it manages, so that it can take it away again.              *)
(*                                                                         *)
(* The model follows one managed Secret through the watcher's listing, its *)
(* two reads and its patch, while users, the CSI driver and the rest of    *)
(* the controller change what has been read.                               *)
(***************************************************************************)
EXTENDS Naturals

CONSTANTS AnnotationKeys, LabelKeys,
          Values,       \* values a key may have
          None,         \* the key is not there
          Gone,         \* no such object
          MaxEdits      \* bound: changes made from outside

Keys == AnnotationKeys \cup LabelKeys

Kinds == {AnnotationKeys, LabelKeys}

ASSUME KindsApart == AnnotationKeys \cap LabelKeys = {}
ASSUME NoneIsNoValue == None \notin Values
ASSUME EditsNat == MaxEdits \in Nat

VARIABLES spc,      \* what the SPC lists and asks for; Gone: deleted
          indexed,  \* the Secret's label for it, or the cache's index, leads
                    \* from the Secret to the SPC
          secret,   \* the Kubernetes Secret's metadata
          ours,     \* (for the properties) keys whose value the watcher wrote
          pass,     \* the watcher's work on this Secret
          outage,   \* API calls may fail
          edits

vars == <<spc, indexed, secret, ours, pass, outage, edits>>

Metadata == [Keys -> Values \cup {None}]

NoMetadata == [k \in Keys |-> None]

\* lists: a secretObject of the SPC has the Secret's name.
\* wanted: what ExtractAnnotationsForSecret and ExtractLabelsForSecret find.
SpcRecord == [lists : BOOLEAN, wanted : Metadata]

\* tracked: the keys in the tracking annotations, one of which lists the
\* annotations, the other the labels; neither is ever there and empty.
SecretRecord == [meta : Metadata, tracked : SUBSET Keys]

NewSecret == [meta |-> NoMetadata, tracked |-> {}]

ASSUME GoneIsNoRecord == Gone \notin SpcRecord \cup SecretRecord

Idle == [step |-> "idle"]

Init ==
  /\ spc \in [lists : {TRUE}, wanted : Metadata]
  /\ indexed \in BOOLEAN
  /\ secret = NewSecret
  /\ ours = {}
  /\ pass = Idle
  /\ outage \in BOOLEAN
  /\ edits = 0

----------------------------------------------------------------------------
(* watchSecrets and reconcileSecretAnnotations *)

Mut_ListSecrets_AnySecret ==
  /\ pass.step = "idle"
  /\ pass' = [step |-> "find", seen |-> secret, wanted |-> NoMetadata]
  /\ UNCHANGED <<spc, indexed, secret, ours, outage, edits>>

\* The tick's List: what follows works on this copy of the Secret.
ListSecrets ==
  /\ pass.step = "idle"
  /\ secret # Gone
  /\ pass' = [step |-> "find", seen |-> secret, wanted |-> NoMetadata]
  /\ UNCHANGED <<spc, indexed, secret, ours, outage, edits>>

\* The label that names an SPC is asked first, then the cache's index; either may
\* name one that is gone.  Else the SPCs are searched for one that lists the Secret.
SpcLists == spc # Gone /\ spc.lists

SpcFound == indexed \/ SpcLists

FindSPCForSecret ==
  /\ pass.step = "find"
  /\ pass' = IF SpcFound THEN [pass EXCEPT !.step = "get"] ELSE Idle
  /\ UNCHANGED <<spc, indexed, secret, ours, outage, edits>>

Wanted(w) == {k \in Keys : w[k] # None}

Mut_ToAdd_OnlyMissing(seen, w) == {k \in Wanted(w) : seen.meta[k] = None}

ToAdd(seen, w) == {k \in Wanted(w) : seen.meta[k] # w[k]}

Mut_ToRemove_AnyUndesired(seen, w) == {k \in Keys : seen.meta[k] # None} \ Wanted(w)

ToRemove(seen, w) == seen.tracked \ Wanted(w)

Mut_NothingToDo_NoneWanted(seen, w) == Wanted(w) = {}

\* A tracking annotation is written whenever anything is wanted, changed or
\* not, and removed when it is there and nothing is wanted any more.
NothingToDo(seen, w) == Wanted(w) = {} /\ seen.tracked = {}

GetSpc ==
  /\ pass.step = "get"
  /\ spc # Gone
  /\ pass' = IF NothingToDo(pass.seen, spc.wanted) THEN Idle
             ELSE [pass EXCEPT !.step = "patch", !.wanted = spc.wanted]
  /\ UNCHANGED <<spc, indexed, secret, ours, outage, edits>>

\* The pass over this Secret ends early; the next tick starts anew.
PassFails ==
  /\ \/ outage /\ pass.step \in {"find", "get", "patch"}
     \/ pass.step = "get" /\ spc = Gone
  /\ pass' = Idle
  /\ UNCHANGED <<spc, indexed, secret, ours, outage, edits>>

----------------------------------------------------------------------------
(* patchSecretMetadata *)

\* metadata.annotations is there (the API server drops an empty one).
HasAnnotations(s) == s.tracked # {} \/ \E k \in AnnotationKeys : s.meta[k] # None

AddsAnnotations(seen, w) == Wanted(w) # {} \/ \E k \in AnnotationKeys : k \in ToAdd(seen, w)

\* With no annotations in its copy the watcher sends "add /metadata/annotations
\* {}" first: this replaces whatever is there now.
Wipes(seen, w) == AddsAnnotations(seen, w) /\ ~HasAnnotations(seen)

\* JSON patch is all or nothing: a remove needs its key, an add its map.
Applies(cur, seen, w) ==
  /\ \A k \in ToRemove(seen, w) : cur.meta[k] # None
  /\ \A kind \in Kinds :
       seen.tracked \cap kind # {} /\ Wanted(w) \cap kind = {} => cur.tracked \cap kind # {}
  /\ AddsAnnotations(seen, w) /\ HasAnnotations(seen) => HasAnnotations(cur)

Wiped(seen, w) == IF Wipes(seen, w) THEN AnnotationKeys ELSE {}

Mut_NewTracked_OnlyAdded(cur, seen, w) == ToAdd(seen, w)

\* Per kind: rewritten if anything is wanted, removed if it was seen, else as
\* it is now, unless the wipe took it.
NewTracked(cur, seen, w) ==
  Wanted(w) \cup
  UNION {cur.tracked \cap kind : kind \in
           {kd \in Kinds : Wanted(w) \cap kd = {} /\ seen.tracked \cap kd = {} /\ ~Wipes(seen, w)}}

Patched(cur, seen, w) ==
  [meta |-> [k \in Keys |-> IF k \in ToAdd(seen, w) THEN w[k]
                            ELSE IF k \in ToRemove(seen, w) \cup Wiped(seen, w) THEN None
                            ELSE cur.meta[k]],
   tracked |-> NewTracked(cur, seen, w)]

PatchApplies ==
  LET seen == pass.seen
      w == pass.wanted
  IN  /\ pass.step = "patch"
      /\ secret # Gone
      /\ Applies(secret, seen, w)
      /\ secret' = Patched(secret, seen, w)
      /\ ours' = (ours \ (ToRemove(seen, w) \cup Wiped(seen, w))) \cup ToAdd(seen, w)
      /\ pass' = Idle
      /\ UNCHANGED <<spc, indexed, outage, edits>>

PatchRefused ==
  /\ pass.step = "patch"
  /\ secret # Gone => ~Applies(secret, pass.seen, pass.wanted)
  /\ pass' = Idle
  /\ UNCHANGED <<spc, indexed, secret, ours, outage, edits>>

Watcher ==
  ListSecrets \/ FindSPCForSecret \/ GetSpc \/ PassFails \/ PatchApplies \/ PatchRefused

----------------------------------------------------------------------------
(* Users, the CSI driver, and the rest of the controller *)

Edit ==
  /\ edits < MaxEdits
  /\ edits' = edits + 1
  /\ UNCHANGED <<pass, outage>>

UserSetsKey ==
  /\ Edit
  /\ secret # Gone
  /\ \E k \in Keys :
       \E v \in Values \cup {None} :
         /\ v # secret.meta[k]
         /\ secret' = [secret EXCEPT !.meta[k] = v]
         /\ ours' = ours \ {k}
  /\ UNCHANGED <<spc, indexed>>

\* The CSI driver creates the Secret, or its last pod goes and so does the Secret.
DriverActs ==
  /\ Edit
  /\ secret' = IF secret = Gone THEN NewSecret ELSE Gone
  /\ ours' = {}
  /\ UNCHANGED <<spc, indexed>>

\* A sync changes what the SPC asks for, or a user creates or deletes it.
SpcChanges ==
  /\ Edit
  /\ spc' \in ([lists : BOOLEAN, wanted : Metadata] \cup {Gone}) \ {spc}
  /\ UNCHANGED <<indexed, secret, ours>>

\* The label is set or removed; the cache follows the SPC, or keeps an entry that
\* it should have lost.
IndexChanges ==
  /\ Edit
  /\ indexed' = ~indexed
  /\ UNCHANGED <<spc, secret, ours>>

OutageFlips ==
  /\ outage' = ~outage
  /\ UNCHANGED <<spc, indexed, secret, ours, pass, edits>>

Environment ==
  UserSetsKey \/ DriverActs \/ SpcChanges \/ IndexChanges \/ OutageFlips

Next == Watcher \/ Environment

Spec == Init /\ [][Next]_vars

\* The ticker fires and calls return; nothing is assumed of anybody else.
FairSpec == Spec /\ WF_vars(Watcher)

----------------------------------------------------------------------------
(* Properties *)

\* Every variable has its type.
TypeOK ==
  /\ spc \in SpcRecord \cup {Gone}
  /\ indexed \in BOOLEAN
  /\ secret \in SecretRecord \cup {Gone}
  /\ ours \subseteq Keys
  /\ pass \in {Idle} \cup
       [step : {"find", "get", "patch"}, seen : SecretRecord, wanted : Metadata]
  /\ outage \in BOOLEAN
  /\ edits \in 0 .. MaxEdits

\* Whatever the watcher has put on the Secret and nobody has replaced since is
\* in the tracking annotations: no interleaving of stale listings, manual
\* edits and recreated Secrets leaves a key that no later pass would remove.
TrackedCoversOurs == secret # Gone => ours \subseteq secret.tracked

\* "Removes only metadata in tracking list that's no longer desired": besides
\* what the SPC asks for, a patch takes away only keys that were tracked when
\* the Secret was listed, labels at any time, annotations unless the listing
\* showed none at all.
PatchKeepsToItsKeys ==
  [][secret # Gone /\ secret' # Gone /\ pass.step = "patch" /\ pass' # pass =>
       \A k \in Keys :
         secret'.meta[k] # secret.meta[k] =>
           \/ k \in Wanted(pass.wanted)
           \/ k \in pass.seen.tracked
           \/ k \in AnnotationKeys /\ ~HasAnnotations(pass.seen)]_vars

\* The Secret has what the SPC asks for and nothing else of the watcher's.
InStep ==
  /\ secret # Gone /\ spc # Gone
  /\ \A k \in Wanted(spc.wanted) : secret.meta[k] = spc.wanted[k]
  /\ ours \subseteq Wanted(spc.wanted)

\* "When vault tags deleted, metadata automatically removed from Secrets", "No
\* manual cleanup required": once calls work, the SPC can be found and outside
\* changes have ended (they are bounded), the Secret has the metadata asked for
\* and nothing is left of what the watcher had put there before.
MetadataConverges ==
  <>[](~outage /\ secret # Gone /\ spc # Gone /\ SpcFound) => <>[]InStep

\* No managed key has gone missing: none was removed by hand, and none is
\* tracked by mistake since the Secret was recreated during a pass.
TrackedArePresent == secret # Gone => \A k \in secret.tracked : secret.meta[k] # None

\* One tick is enough: a pass that got as far as the SPC and ends while calls
\* work, the Secret and the SPC are as it read them, and no managed key is
\* missing leaves the Secret in step, whatever earlier passes, users and
\* earlier SPCs left on it; what it decides on is one copy of each, two reads
\* apart.
UndisturbedPassDelivers ==
  [][pass.step \in {"get", "patch"} /\ pass'.step = "idle"
       /\ ~outage /\ TrackedArePresent
       /\ secret = pass.seen /\ spc # Gone
       /\ (pass.step = "patch" => pass.wanted = spc.wanted) => InStep']_vars

\* MetadataConverges, for as long as no managed key goes missing.
ConvergesUnlessKeysMissing == []TrackedArePresent => MetadataConverges
===============================================================================
