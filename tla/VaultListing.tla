------------------------------ MODULE VaultListing ------------------------------
(***************************************************************************)
(* ListSecrets and ListCertificates of internal/azure/vault.go: a listing  *)
(* of a Key Vault page by page, that waits and asks again for a page when  *)
(* Azure throttles, while the vault changes; and what the reconcilers make *)
(* of the list.  The two functions differ in nothing modelled here.        *)
(*                                                                         *)
(* The Key Vault service is external: it lists in the order of names and   *)
(* goes on after the last name of the page before.                         *)
(***************************************************************************)
EXTENDS TagFilter, FiniteSets

CONSTANTS ItemCount,    \* names, in the vault's order
          Entries,      \* what an object may be: [enabled, tags]
          Absent,       \* there is no such object
          PageSize,     \* objects on a page
          Wishes,       \* what the SPC may ask for
          MaxEdits      \* bound: changes of the vault

Items == 1..ItemCount

ASSUME ItemCountNat == ItemCount \in Nat
ASSUME PageSizePos == PageSize \in Nat \ {0}
ASSUME EntriesType == Entries \subseteq [enabled : BOOLEAN, tags : Tags]
ASSUME AbsentIsNoEntry == Absent \notin Entries
ASSUME WishesType == Wishes \subseteq LabelWishes \cup FilterWishes

VARIABLES vault,      \* what the service holds
          held,       \* (for the properties) what each name has stood for since
                      \* the listing began
          edits,
          mood,       \* how the service answers
          misread,    \* its errors' texts hold a "429", as in a vault's name
          cancelled,  \* the context is
          wish,       \* of the SPC this is for
          step,       \* where the listing is
          marker,     \* the pager's: the last name of the last page
          got         \* objects collected, with their tags

vaultVars == <<vault, held, edits>>
others == <<mood, misread, cancelled, wish>>
listing == <<step, marker, got>>
vars == <<vaultVars, others, listing>>

Listing == step \in {"page", "sleep"}

Init ==
  /\ vault \in [Items -> Entries \cup {Absent}]
  /\ held = [i \in Items |-> {vault[i]}]
  /\ edits = 0
  /\ mood \in {"ok", "throttled", "error"}
  /\ misread \in BOOLEAN
  /\ cancelled = FALSE
  /\ wish \in Wishes
  /\ step = "idle" /\ marker = 0 /\ got = {}

----------------------------------------------------------------------------
(* The listing *)

Begin ==
  /\ ~Listing
  /\ held' = [i \in Items |-> {vault[i]}]
  /\ step' = "page" /\ marker' = 0 /\ got' = {}
  /\ UNCHANGED <<vault, edits, others>>

\* What the service has after the marker, and the next page of it.
Rest == {i \in Items : i > marker /\ vault[i] # Absent}

Page == {i \in Rest : Cardinality({j \in Rest : j <= i}) <= PageSize}

Fails == cancelled \/ mood # "ok"

Mut_IsAzureThrottled_AnyError == Fails

\* Besides the status, a "429" anywhere in an error's text counts.
IsAzureThrottled == misread \/ (mood = "throttled" /\ ~cancelled)

PageArrives ==
  /\ step = "page"
  /\ ~Fails
  /\ got' = got \cup {<<i, vault[i].tags>> : i \in {j \in Page : vault[j].enabled}}
  /\ \/ Page = {} /\ UNCHANGED marker
     \/ marker' \in {i \in Page : \A j \in Page : j <= i}
  /\ step' = IF Page = Rest THEN "done" ELSE "page"
  /\ UNCHANGED <<vaultVars, others>>

Mut_PageThrottled_StartsOver ==
  /\ step = "page"
  /\ Fails /\ IsAzureThrottled
  /\ step' = "sleep" /\ marker' = 0
  /\ UNCHANGED <<vaultVars, others, got>>

PageThrottled ==
  /\ step = "page"
  /\ Fails /\ IsAzureThrottled
  /\ step' = "sleep"
  /\ UNCHANGED <<vaultVars, others, marker, got>>

\* time.Sleep(ExtractRetryAfter(err)) is over; cancellation does not end it.
Wakes ==
  /\ step = "sleep"
  /\ step' = "page"
  /\ UNCHANGED <<vaultVars, others, marker, got>>

Mut_PageFails_KeepsPages ==
  /\ step = "page"
  /\ Fails /\ ~IsAzureThrottled
  /\ step' = "done"
  /\ UNCHANGED <<vaultVars, others, marker, got>>

\* Returns nil and the error, not the pages it has.
PageFails ==
  /\ step = "page"
  /\ Fails /\ ~IsAzureThrottled
  /\ step' = "failed" /\ got' = {}
  /\ UNCHANGED <<vaultVars, others, marker>>

ListingStep == PageArrives \/ PageThrottled \/ Wakes \/ PageFails

\* The reconcilers' loops over the list; in CRD mode what has passed
\* FilterSecretsByTags is looped over by generateSecretProviderClass.
Selected == {g[1] : g \in {h \in got : Selects(h[2], wish)}}

----------------------------------------------------------------------------
(* The service, the vault's users and Run *)

VaultChanges ==
  /\ edits < MaxEdits
  /\ edits' = edits + 1
  /\ \E i \in Items, e \in Entries \cup {Absent} :
       /\ vault' = [vault EXCEPT ![i] = e]
       /\ held' = IF Listing THEN [held EXCEPT ![i] = @ \cup {e}] ELSE held
  /\ UNCHANGED <<others, listing>>

MoodChanges ==
  /\ mood' \in {"ok", "throttled", "error"} \ {mood}
  /\ UNCHANGED <<vaultVars, misread, cancelled, wish, listing>>

Shutdown ==
  /\ ~cancelled
  /\ cancelled' = TRUE
  /\ UNCHANGED <<vaultVars, mood, misread, wish, listing>>

Next == Begin \/ ListingStep \/ VaultChanges \/ MoodChanges \/ Shutdown

Spec == Init /\ [][Next]_vars

\* The goroutine runs, its requests are answered and its sleeps end.
FairSpec == Spec /\ WF_vars(ListingStep)

----------------------------------------------------------------------------
(* Properties *)

\* Every variable has its type; an object is listed once, with one set of tags,
\* however often pages were asked for again, and never from beyond the marker.
TypeOK ==
  /\ vault \in [Items -> Entries \cup {Absent}]
  /\ held \in [Items -> SUBSET (Entries \cup {Absent})]
  /\ edits \in Nat
  /\ mood \in {"ok", "throttled", "error"}
  /\ {misread, cancelled} \subseteq BOOLEAN
  /\ wish \in Wishes
  /\ step \in {"idle", "page", "sleep", "done", "failed"}
  /\ marker \in 0..ItemCount
  /\ got \subseteq Items \X Tags
  /\ \A g \in got : Listing => g[1] <= marker
  /\ \A g, h \in got : g[1] = h[1] => g = h

\* A listing is what the reconcilers take it for, whatever happens to the vault
\* and the service between two pages: all of it or none, every object as it was
\* at some moment meanwhile.
Contract == INSTANCE ListingContract WITH
  phase <- IF Listing THEN "listing" ELSE step,
  answer <- IF step = "done" THEN got ELSE {}

ImplementsContract == Contract!Spec

Wanted(e) == e # Absent /\ e.enabled /\ MeantFor(e.tags, wish)

\* From a finished listing the SPC gets every object that was enabled and meant
\* for it all along, and none that at no moment was: no disabled one, none of
\* another tenant, whatever the letter case and the spaces of its tags, and in
\* neither mode one that was not opted in.
SelectionIsRight ==
  step = "done" =>
    \A i \in Items :
      /\ (\A e \in held[i] : Wanted(e)) => i \in Selected
      /\ i \in Selected => \E e \in held[i] : Wanted(e)

\* A worker is not lost to a listing: it ends once the context is cancelled,
\* whatever Azure answers, and without that unless Azure throttles for ever.
\* Errors misread as throttling are the known exception.
ListingEnds ==
  ~misread =>
    /\ cancelled ~> ~Listing
    /\ <>[](mood # "throttled") => []<>~Listing
================================================================================
