--------------------------- MODULE VaultListingProofs ---------------------------
(***************************************************************************)
(* What holds of a vault's listing for every vault, page size, SPC and     *)
(* number of changes meanwhile: it implements ListingContract, and the     *)
(* SPC gets what is meant for it.  The invariant says what the pages read  *)
(* so far have settled: each name up to the marker was, at some moment     *)
(* since the listing began, as the list has it.                            *)
(***************************************************************************)
EXTENDS VaultListing, FiniteSetTheorems, TLAPS

----------------------------------------------------------------------------
(* The filters *)

LEMMA TagWordIsText ==
  ASSUME NEW tags \in Tags, NEW k \in {"service", "environment"}
  PROVE  TagWord(tags, k) \in Texts
<1>1. tags[k] \in Texts \cup {Missing} /\ Blank \in Texts
  BY KnownKeys, KnownTexts DEF Tags
<1> QED
  BY <1>1, NormalizeType DEF TagWord

\* Whatever texts there are, however normalizeTag changes them and whatever an
\* SPC asks for: only what is opted in is selected, for labels and filters
\* alike.  The decision tree of MatchesTags then admits an SPC exactly to the
\* objects whose audience its labels belong to; FilterSecretsByTags, exactly to
\* those that carry all its filters, to the letter.
THEOREM FiltersAreMeant ==
  ASSUME NEW tags \in Tags, NEW w \in LabelWishes \cup FilterWishes
  PROVE  Selects(tags, w) <=> MeantFor(tags, w)
<1>1. ShouldSync(tags) <=> OptedIn(tags)
  BY DEF ShouldSync, OptedIn
<1>2. CASE w \in LabelWishes
  <2> DEFINE service == TagWord(tags, "service")
             environment == TagWord(tags, "environment")
             s == Normalize[w.service]
             e == Normalize[w.environment]
  <2>1. w.mode = "labels" /\ w.service \in Texts /\ w.environment \in Texts
    BY <1>2 DEF LabelWishes
  <2>2. s \in Texts /\ e \in Texts
    BY <2>1, NormalizeType
  <2>3. MatchesTags(tags, w) <=>
          (s = Blank /\ e = Blank)
          \/ (service # Blank /\ service = s
              /\ (environment = Blank \/ (e # Blank /\ environment = e)))
    BY DEF MatchesTags
  <2>4. <<s, e>> \in Audience(tags) <=>
          service # Blank /\ service = s /\ (environment = Blank \/ environment = e)
    BY <2>2 DEF Audience
  <2>5. <<s, e>> = <<Blank, Blank>> <=> s = Blank /\ e = Blank
    OBVIOUS
  <2>6. Selects(tags, w) <=> ShouldSync(tags) /\ MatchesTags(tags, w)
    BY <2>1 DEF Selects
  <2>7. MeantFor(tags, w) <=>
          OptedIn(tags) /\ (<<s, e>> = <<Blank, Blank>> \/ <<s, e>> \in Audience(tags))
    BY <2>1 DEF MeantFor
  <2> HIDE DEF service, environment, s, e
  <2> QED
    BY <1>1, <2>3, <2>4, <2>5, <2>6, <2>7
<1>3. CASE w \in FilterWishes
  <2>1. w.mode = "filters" /\ w.filters \in UNION {[ks -> Texts] : ks \in SUBSET TagKeys}
    BY <1>3 DEF FilterWishes
  <2>2. PICK ks \in SUBSET TagKeys : w.filters \in [ks -> Texts]
    BY <2>1
  <2>3. DOMAIN w.filters = ks /\ \A k \in ks : w.filters[k] \in Texts
    BY <2>2
  <2>4. w.filters = << >> => ks = {}
    BY <2>3
  <2>5. PassesFilters(tags, w.filters) <=> \A k \in ks : tags[k] = w.filters[k]
    BY <2>3, <2>4, MissingIsNoText DEF PassesFilters, MatchesAllFilters
  <2>6. Selects(tags, w) <=> ShouldSync(tags) /\ \A k \in ks : tags[k] = w.filters[k]
    BY <2>1, <2>5 DEF Selects
  <2>7. MeantFor(tags, w) <=>
          /\ OptedIn(tags)
          /\ {<<k, w.filters[k]>> : k \in ks} \subseteq {<<k, tags[k]>> : k \in TagKeys}
    BY <2>1, <2>3 DEF MeantFor
  <2>8. {<<k, w.filters[k]>> : k \in ks} \subseteq {<<k, tags[k]>> : k \in TagKeys}
          <=> \A k \in ks : tags[k] = w.filters[k]
    <3>1. ASSUME NEW k \in ks, <<k, w.filters[k]>> \in {<<j, tags[j]>> : j \in TagKeys}
          PROVE  tags[k] = w.filters[k]
      <4>1. PICK j \in TagKeys : <<k, w.filters[k]>> = <<j, tags[j]>>
        BY <3>1
      <4> QED
        BY <4>1
    <3>2. ASSUME NEW k \in ks, tags[k] = w.filters[k]
          PROVE  <<k, w.filters[k]>> \in {<<j, tags[j]>> : j \in TagKeys}
      BY <2>2, <3>2
    <3> QED
      BY <3>1, <3>2
  <2> QED
    BY <1>1, <2>6, <2>7, <2>8
<1> QED
  BY <1>2, <1>3

\* Tenants are kept apart: two SPCs with labels that both get an object ask for the
\* same service, however each spells it; and if their environments differ, the
\* object has no environment: it is shared within the service on purpose.
THEOREM TenantsAreApart ==
  ASSUME NEW tags \in Tags, NEW v \in LabelWishes, NEW w \in LabelWishes,
         Normalize[v.service] # Blank, Normalize[w.service] # Blank,
         Selects(tags, v), Selects(tags, w)
  PROVE  /\ Normalize[v.service] = Normalize[w.service]
         /\ Normalize[v.environment] # Normalize[w.environment] =>
              TagWord(tags, "environment") = Blank
<1>1. v.mode = "labels" /\ w.mode = "labels"
  BY DEF LabelWishes
<1>2. MatchesTags(tags, v) /\ MatchesTags(tags, w)
  BY <1>1 DEF Selects
<1> QED
  BY <1>2 DEF MatchesTags

\* Who asks for an environment alone gets nothing; not, as with no labels at
\* all, everything.
THEOREM EnvironmentAloneGetsNothing ==
  ASSUME NEW tags \in Tags, NEW w \in LabelWishes,
         Normalize[w.service] = Blank, Normalize[w.environment] # Blank
  PROVE  ~Selects(tags, w)
<1>1. w.mode = "labels"
  BY DEF LabelWishes
<1> QED
  BY <1>1 DEF Selects, MatchesTags

----------------------------------------------------------------------------
(* Pages *)

\* A page leaves no gap: what the vault has between the marker and a name on
\* the page is on the page, too.
LEMMA PageHasNoGap ==
  ASSUME NEW i \in Page, NEW j \in Rest, j <= i
  PROVE  j \in Page
<1> DEFINE UpTo(k) == {l \in Rest : l <= k}
<1>1. Rest \subseteq Items /\ Items \subseteq Int /\ IsFiniteSet(Items)
  BY ItemCountNat, FS_Interval DEF Rest, Items
<1>2. i \in Rest /\ Cardinality(UpTo(i)) <= PageSize
  BY DEF Page
<1>3. UpTo(j) \subseteq UpTo(i) /\ IsFiniteSet(UpTo(i))
  <2>1. UpTo(i) \subseteq Items
    BY <1>1
  <2>2. IsFiniteSet(UpTo(i))
    BY <1>1, <2>1, FS_Subset
  <2>3. ASSUME NEW l \in Rest, l <= j PROVE l <= i
    <3>1. l \in Int /\ j \in Int /\ i \in Int
      BY <1>1, <1>2
    <3> QED
      BY <3>1, <2>3
  <2> QED
    BY <2>2, <2>3
<1>4. /\ Cardinality(UpTo(j)) <= Cardinality(UpTo(i))
      /\ Cardinality(UpTo(i)) \in Nat /\ Cardinality(UpTo(j)) \in Nat
  BY <1>3, FS_Subset, FS_CardinalityType
<1>5. Cardinality(UpTo(j)) <= PageSize
  BY <1>2, <1>4, PageSizePos
<1> QED
  BY <1>5 DEF Page

----------------------------------------------------------------------------
(* The invariant *)

\* Types alone; that objects are listed once is GotOnce.
Types ==
  /\ vault \in [Items -> Entries \cup {Absent}]
  /\ held \in [Items -> SUBSET (Entries \cup {Absent})]
  /\ edits \in Nat
  /\ mood \in {"ok", "throttled", "error"}
  /\ {misread, cancelled} \subseteq BOOLEAN
  /\ wish \in Wishes
  /\ step \in {"idle", "page", "sleep", "done", "failed"}
  /\ marker \in 0..ItemCount
  /\ got \subseteq Items \X Tags

GotOnce ==
  /\ \A g \in got : Listing => g[1] <= marker
  /\ \A g, h \in got : g[1] = h[1] => g = h

Enabled(e) == e # Absent /\ e.enabled

\* What is listed was there, and enabled, with these tags.
GotWasThere == \A g \in got : \E e \in held[g[1]] : Enabled(e) /\ e.tags = g[2]

\* What was passed over was not there, or not enabled.
Unlisted(i) == \A g \in got : g[1] # i

PassedOver(i) == (Listing /\ i <= marker) \/ step = "done"

MissedWasNot ==
  \A i \in Items : PassedOver(i) /\ Unlisted(i) => \E e \in held[i] : ~Enabled(e)

HeldIsCurrent == Listing => \A i \in Items : vault[i] \in held[i]

ListingInv == Types /\ GotOnce /\ GotWasThere /\ MissedWasNot /\ HeldIsCurrent

LEMMA InitInv == Init => ListingInv
<1> SUFFICES ASSUME Init PROVE ListingInv
  OBVIOUS
<1>1. Types
  <2>1. held \in [Items -> SUBSET (Entries \cup {Absent})]
    BY DEF Init
  <2>2. {misread, cancelled} \subseteq BOOLEAN
    BY DEF Init
  <2>3. marker \in 0..ItemCount
    BY ItemCountNat DEF Init
  <2> QED
    BY <2>1, <2>2, <2>3 DEF Init, Types
<1>2. GotOnce /\ GotWasThere /\ MissedWasNot /\ HeldIsCurrent
  BY DEF Init, GotOnce, GotWasThere, MissedWasNot, PassedOver, HeldIsCurrent, Listing
<1> QED
  BY <1>1, <1>2 DEF ListingInv

\* A page settles the names up to its last, and the last page all of them.
LEMMA PageKeepsInv == ListingInv /\ PageArrives => ListingInv'
<1> SUFFICES ASSUME ListingInv, PageArrives PROVE ListingInv'
  OBVIOUS
<1> USE DEF ListingInv
<1> DEFINE new == {<<i, vault[i].tags>> : i \in {j \in Page : vault[j].enabled}}
<1>1. /\ step = "page" /\ Listing
      /\ got' = got \cup new
      /\ step' = IF Page = Rest THEN "done" ELSE "page"
      /\ UNCHANGED <<vault, held, edits, mood, misread, cancelled, wish>>
  BY DEF PageArrives, vaultVars, others, Listing
<1>2. Page \subseteq Rest /\ \A i \in Rest : i \in Items /\ i > marker /\ vault[i] # Absent
  BY DEF Page, Rest
<1>3. \A i \in Page : vault[i] \in Entries /\ vault[i].tags \in Tags /\ i \in Items
  BY <1>2, EntriesType DEF Types
<1>4. Items \subseteq Int /\ marker \in Int /\ marker \in 0..ItemCount
  BY ItemCountNat DEF Items, Types
<1>5. \/ Page = {} /\ marker' = marker
      \/ marker' \in Page /\ \A j \in Page : j <= marker'
  BY DEF PageArrives
<1>6. marker' \in 0..ItemCount /\ marker <= marker'
  BY <1>2, <1>4, <1>5, ItemCountNat DEF Items
<1>7. new \subseteq Items \X Tags
  BY <1>3
<1>8. Types'
  BY <1>1, <1>6, <1>7 DEF Types
<1>9. \A g \in new : g[1] \in Page /\ g[2] = vault[g[1]].tags /\ vault[g[1]].enabled
  OBVIOUS
<1>10. \A g \in got : g[1] \in Items /\ g[1] <= marker
  BY <1>1 DEF Types, GotOnce
<1>11. GotOnce'
  <2>1. \A g \in got' : g[1] <= marker'
    <3>1. ASSUME NEW g \in got PROVE g[1] <= marker'
      <4>1. g[1] \in Int /\ g[1] <= marker
        BY <1>4, <1>10
      <4>2. marker \in Int /\ marker' \in Int /\ marker <= marker'
        BY <1>4, <1>6
      <4> HIDE DEF new
      <4> QED
        BY <4>1, <4>2
    <3>2. \A g \in new : g[1] <= marker'
      BY <1>5, <1>9
    <3> QED
      BY <1>1, <3>1, <3>2
  <2>2. ASSUME NEW g \in got', NEW h \in got', g[1] = h[1] PROVE g = h
    <3>1. CASE g \in got /\ h \in got
      BY <2>2, <3>1 DEF GotOnce
    <3>2. CASE g \in new /\ h \in new
      <4>1. g = <<g[1], g[2]>> /\ h = <<h[1], h[2]>>
        BY <3>2, <1>7
      <4> QED
        BY <4>1, <2>2, <3>2, <1>9
    <3>3. CASE (g \in got /\ h \in new) \/ (g \in new /\ h \in got)
      <4>1. ASSUME NEW x \in got, NEW y \in new PROVE x[1] # y[1]
        <5>1. x[1] \in Int /\ x[1] <= marker
          BY <1>4, <1>10
        <5>2. y[1] \in Int /\ y[1] > marker
          BY <1>2, <1>4, <1>9
        <5> QED
          BY <5>1, <5>2, <1>4
      <4> QED
        BY <4>1, <3>3, <2>2
    <3> QED
      BY <1>1, <3>1, <3>2, <3>3
  <2> QED
    BY <2>1, <2>2 DEF GotOnce
<1>12. GotWasThere'
  <2>1. ASSUME NEW g \in got' PROVE \E e \in held'[g[1]] : Enabled(e) /\ e.tags = g[2]
    <3>1. CASE g \in got
      BY <1>1, <3>1 DEF GotWasThere
    <3>2. CASE g \in new
      <4>1. vault[g[1]] \in held[g[1]] /\ Enabled(vault[g[1]]) /\ vault[g[1]].tags = g[2]
        BY <1>1, <1>2, <1>9, <3>2 DEF HeldIsCurrent, Enabled
      <4> QED
        BY <4>1, <1>1
    <3> QED
      BY <1>1, <3>1, <3>2
  <2> QED
    BY <2>1 DEF GotWasThere
<1>13. MissedWasNot'
  <2> SUFFICES ASSUME NEW i \in Items, PassedOver(i)', Unlisted(i)'
               PROVE  \E e \in held[i] : ~Enabled(e)
    BY <1>1 DEF MissedWasNot
  <2>1. Unlisted(i) /\ \A g \in new : g[1] # i
    BY <1>1 DEF Unlisted
  <2>2. CASE i <= marker
    BY <2>1, <2>2, <1>1 DEF MissedWasNot, PassedOver
  <2>3. CASE i > marker
    <3>1. vault[i] \in held[i]
      BY <1>1 DEF HeldIsCurrent
    <3>2. i \in Rest => i \in Page
      <4>1. CASE step' = "done"
        BY <4>1, <1>1
      <4>2. CASE i <= marker'
        BY <4>2, <2>3, <1>4, <1>5, PageHasNoGap
      <4> QED
        BY <4>1, <4>2 DEF PassedOver
    <3>3. i \in Page => ~vault[i].enabled
      <4>1. ASSUME i \in Page, vault[i].enabled PROVE <<i, vault[i].tags>> \in new
        BY <4>1
      <4> QED
        BY <4>1, <2>1, <1>3, EntriesType
    <3>4. i \notin Rest => vault[i] = Absent
      BY <2>3 DEF Rest
    <3> QED
      BY <3>1, <3>2, <3>3, <3>4 DEF Enabled
  <2> QED
    BY <2>2, <2>3, <1>4
<1>14. HeldIsCurrent'
  BY <1>1 DEF HeldIsCurrent
<1> QED
  BY <1>8, <1>11, <1>12, <1>13, <1>14

\* What has been held stays held while the vault changes.
LEMMA ChangeKeepsInv == ListingInv /\ VaultChanges => ListingInv'
<1> SUFFICES ASSUME ListingInv, VaultChanges PROVE ListingInv'
  OBVIOUS
<1> USE DEF ListingInv
<1>1. PICK i \in Items, e \in Entries \cup {Absent} :
        /\ vault' = [vault EXCEPT ![i] = e]
        /\ held' = IF Listing THEN [held EXCEPT ![i] = @ \cup {e}] ELSE held
  BY DEF VaultChanges
<1>2. UNCHANGED <<mood, misread, cancelled, wish, step, marker, got>> /\ edits' = edits + 1
  BY DEF VaultChanges, others, listing
<1>3. Types'
  BY <1>1, <1>2 DEF Types
<1>4. \A j \in Items : held[j] \subseteq held'[j]
  BY <1>1 DEF Types
<1>5. GotOnce'
  BY <1>2 DEF GotOnce, Listing
<1>6. GotWasThere'
  <2>1. ASSUME NEW g \in got PROVE \E f \in held'[g[1]] : Enabled(f) /\ f.tags = g[2]
    BY <1>4 DEF GotWasThere, Types
  <2> QED
    BY <2>1, <1>2 DEF GotWasThere
<1>7. MissedWasNot'
  <2>1. ASSUME NEW j \in Items, PassedOver(j), Unlisted(j)
        PROVE \E f \in held'[j] : ~Enabled(f)
    BY <2>1, <1>4 DEF MissedWasNot
  <2> QED
    BY <2>1, <1>2 DEF MissedWasNot, PassedOver, Unlisted, Listing
<1>8. HeldIsCurrent'
  BY <1>1, <1>2 DEF HeldIsCurrent, Listing, Types
<1> QED
  BY <1>3, <1>5, <1>6, <1>7, <1>8

LEMMA NextKeepsInv == ListingInv /\ [Next]_vars => ListingInv'
<1> SUFFICES ASSUME ListingInv, [Next]_vars PROVE ListingInv'
  OBVIOUS
<1> USE DEF ListingInv
<1>1. CASE Begin
  <2>1. /\ held' = [i \in Items |-> {vault[i]}]
        /\ step' = "page" /\ marker' = 0 /\ got' = {}
        /\ UNCHANGED <<vault, edits, mood, misread, cancelled, wish>>
    BY <1>1 DEF Begin, others
  <2>2. Types'
    BY <2>1, ItemCountNat DEF Types
  <2>3. GotOnce' /\ GotWasThere' /\ HeldIsCurrent'
    BY <2>1 DEF GotOnce, GotWasThere, HeldIsCurrent
  <2>4. MissedWasNot'
    BY <2>1, ItemCountNat DEF MissedWasNot, PassedOver, Items
  <2> QED
    BY <2>2, <2>3, <2>4
<1>2. CASE PageArrives
  BY <1>2, PageKeepsInv
<1>3. CASE PageThrottled
  BY <1>3 DEF PageThrottled, Types, GotOnce, GotWasThere, MissedWasNot, PassedOver,
              Unlisted, HeldIsCurrent, Listing, vaultVars, others
<1>4. CASE Wakes
  BY <1>4 DEF Wakes, Types, GotOnce, GotWasThere, MissedWasNot, PassedOver,
              Unlisted, HeldIsCurrent, Listing, vaultVars, others
<1>5. CASE PageFails
  BY <1>5 DEF PageFails, Types, GotOnce, GotWasThere, MissedWasNot, PassedOver,
              HeldIsCurrent, Listing, vaultVars, others
<1>6. CASE VaultChanges
  BY <1>6, ChangeKeepsInv
<1>7. CASE MoodChanges \/ Shutdown \/ UNCHANGED vars
  <2>1. /\ UNCHANGED <<vault, held, edits, misread, wish, step, marker, got>>
        /\ mood' \in {"ok", "throttled", "error"} /\ cancelled' \in BOOLEAN
    BY <1>7 DEF MoodChanges, Shutdown, vars, vaultVars, others, listing, Types
  <2> QED
    BY <2>1 DEF Types, GotOnce, GotWasThere, MissedWasNot, PassedOver,
                Unlisted, HeldIsCurrent, Listing
<1> QED
  BY <1>1, <1>2, <1>3, <1>4, <1>5, <1>6, <1>7 DEF Next, ListingStep

THEOREM InvHolds == Spec => []ListingInv
  BY InitInv, NextKeepsInv, PTL DEF Spec

\* Types, and every object listed at most once and not from beyond the marker,
\* for any vault, page size and number of changes.
THEOREM TypeCorrect == Spec => []TypeOK
<1>1. ListingInv => TypeOK
  BY DEF ListingInv, Types, GotOnce, TypeOK
<1> QED
  BY <1>1, InvHolds, PTL

----------------------------------------------------------------------------
(* What the SPC gets *)

\* The reconcilers select what is meant for the SPC, as it was at some moment
\* while the listing ran, and miss nothing that was meant for it all along.
THEOREM SelectionRight == Spec => []SelectionIsRight
<1>1. ASSUME ListingInv PROVE SelectionIsRight
  <2> SUFFICES ASSUME step = "done", NEW i \in Items
               PROVE  /\ (\A e \in held[i] : Wanted(e)) => i \in Selected
                      /\ i \in Selected => \E e \in held[i] : Wanted(e)
    BY DEF SelectionIsRight
  <2> USE <1>1 DEF ListingInv
  <2>1. /\ \A g \in got : g \in Items \X Tags /\ g[1] \in Items /\ g[2] \in Tags
        /\ wish \in LabelWishes \cup FilterWishes
    BY WishesType DEF Types
  <2>2. \A g \in got : Selects(g[2], wish) <=> MeantFor(g[2], wish)
    BY <2>1, FiltersAreMeant
  <2>3. i \in Selected <=> \E g \in got : g[1] = i /\ MeantFor(g[2], wish)
    BY <2>2 DEF Selected
  <2>4. ASSUME NEW g \in got, g[1] = i
        PROVE  \E e \in held[i] : Enabled(e) /\ e.tags = g[2]
    BY <2>4 DEF GotWasThere
  <2>5. ASSUME \A e \in held[i] : Wanted(e) PROVE i \in Selected
    <3>1. ~Unlisted(i)
      BY <2>5 DEF MissedWasNot, PassedOver, Enabled, Wanted
    <3>2. PICK g \in got : g[1] = i
      BY <3>1 DEF Unlisted
    <3>3. PICK e \in held[i] : Enabled(e) /\ e.tags = g[2]
      BY <3>2, <2>4
    <3>4. MeantFor(g[2], wish)
      BY <3>3, <2>5 DEF Wanted
    <3> QED
      BY <3>2, <3>4, <2>3
  <2>6. ASSUME i \in Selected PROVE \E e \in held[i] : Wanted(e)
    <3>1. PICK g \in got : g[1] = i /\ MeantFor(g[2], wish)
      BY <2>6, <2>3
    <3>2. PICK e \in held[i] : Enabled(e) /\ e.tags = g[2]
      BY <3>1, <2>4
    <3> QED
      BY <3>1, <3>2 DEF Wanted, Enabled
  <2> QED
    BY <2>5, <2>6
<1> QED
  BY <1>1, InvHolds, PTL

----------------------------------------------------------------------------
(* The contract *)

\* A listing by pages, with its retries, is what the reconcilers take it for:
\* everything or nothing, each object as it was at some moment meanwhile.
THEOREM ListingImplementsContract == Spec => ImplementsContract
<1>1. Init => Contract!Init
  BY DEF Init, Contract!Init, Listing
<1>2. ListingInv /\ ListingInv' /\ [Next]_vars => [Contract!Next]_(Contract!vars)
  <2> SUFFICES ASSUME ListingInv, ListingInv', [Next]_vars
               PROVE  Contract!Next \/ UNCHANGED Contract!vars
    OBVIOUS
  <2>1. CASE Begin
    <3>1. Contract!Begin
      BY <2>1 DEF Begin, Contract!Begin, Listing, ListingInv, Types
    <3> QED
      BY <3>1 DEF Contract!Next
  <2>2. CASE PageArrives
    <3>1. Listing /\ UNCHANGED <<vault, held>>
      BY <2>2 DEF PageArrives, vaultVars, Listing
    <3>2. CASE step' = "page"
      BY <3>1, <3>2 DEF Contract!vars, Listing
    <3>3. CASE step' = "done"
      <4> DEFINE Fits(i, e) ==
                   IF \E g \in got' : g[1] = i
                   THEN Enabled(e) /\ <<i, e.tags>> \in got'
                   ELSE ~Enabled(e)
                 view == [i \in Items |-> CHOOSE e \in held[i] : Fits(i, e)]
      <4>1. ASSUME NEW i \in Items PROVE \E e \in held[i] : Fits(i, e)
        <5>1. CASE \E g \in got' : g[1] = i
          <6>1. PICK g \in got' : g[1] = i
            BY <5>1
          <6>2. PICK e \in held[i] : Enabled(e) /\ e.tags = g[2]
            BY <6>1, <3>1 DEF ListingInv, GotWasThere
          <6>3. g = <<i, e.tags>>
            BY <6>1, <6>2 DEF ListingInv, Types
          <6> QED
            BY <6>1, <6>2, <6>3
        <5>2. CASE ~\E g \in got' : g[1] = i
          BY <5>2, <3>1, <3>3 DEF ListingInv, MissedWasNot, PassedOver, Unlisted
        <5> QED
          BY <5>1, <5>2
      <4>2. \A i \in Items : view[i] \in held[i] /\ Fits(i, view[i])
        BY <4>1
      <4>3. view \in [Items -> Entries \cup {Absent}]
        <5>1. \A i \in Items : view[i] \in Entries \cup {Absent}
          BY <4>2 DEF ListingInv, Types
        <5> QED
          BY <5>1
      <4>4. got' = {<<i, view[i].tags>> : i \in Contract!Listed(view)}
        <5>1. Contract!Listed(view) = {i \in Items : Enabled(view[i])}
          BY DEF Contract!Listed, Enabled
        <5>2. ASSUME NEW i \in Items, Enabled(view[i]) PROVE <<i, view[i].tags>> \in got'
          BY <5>2, <4>2
        <5>3. ASSUME NEW g \in got'
              PROVE  g[1] \in Items /\ Enabled(view[g[1]]) /\ g = <<g[1], view[g[1]].tags>>
          <6>1. g[1] \in Items
            BY DEF ListingInv, Types
          <6>2. Enabled(view[g[1]]) /\ <<g[1], view[g[1]].tags>> \in got'
            BY <6>1, <4>2
          <6>3. g = <<g[1], view[g[1]].tags>>
            BY <6>2 DEF ListingInv, GotOnce
          <6> QED
            BY <6>1, <6>2, <6>3
        <5> HIDE DEF view
        <5> QED
          BY <5>1, <5>2, <5>3
      <4> HIDE DEF view
      <4>5. Contract!Answer(view)
        BY <3>1, <3>3, <4>2, <4>4 DEF Contract!Answer, Listing
      <4> QED
        BY <4>3, <4>5 DEF Contract!Next
    <3> QED
      BY <2>2, <3>2, <3>3 DEF PageArrives
  <2>3. CASE PageThrottled \/ Wakes
    BY <2>3 DEF PageThrottled, Wakes, Contract!vars, vaultVars, Listing
  <2>4. CASE PageFails
    <3>1. Contract!Fail
      BY <2>4 DEF PageFails, Contract!Fail, vaultVars, Listing
    <3> QED
      BY <3>1 DEF Contract!Next
  <2>5. CASE VaultChanges
    <3>1. PICK i \in Items, e \in Entries \cup {Absent} :
            /\ vault' = [vault EXCEPT ![i] = e]
            /\ held' = IF Listing THEN [held EXCEPT ![i] = @ \cup {e}] ELSE held
      BY <2>5 DEF VaultChanges
    <3>2. Contract!Change(i, e)
      BY <2>5, <3>1 DEF VaultChanges, Contract!Change, listing, Listing, ListingInv, Types
    <3> QED
      BY <3>2 DEF Contract!Next
  <2>6. CASE MoodChanges \/ Shutdown \/ UNCHANGED vars
    BY <2>6 DEF MoodChanges, Shutdown, vars, vaultVars, listing, Contract!vars, Listing
  <2> QED
    BY <2>1, <2>2, <2>3, <2>4, <2>5, <2>6 DEF Next, ListingStep
<1> QED
  BY <1>1, <1>2, InvHolds, PTL DEF Spec, ImplementsContract, Contract!Spec
================================================================================
