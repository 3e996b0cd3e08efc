------------------------------- MODULE TagFilter -------------------------------
(***************************************************************************)
(* Which of a vault's objects a SecretProviderClass gets: the sync opt-in  *)
(* of both modes (internal/update/update.go), the tenant filter of         *)
(* annotation mode (internal/azure/filter.go), the tag filters of CRD mode *)
(* (internal/azure/vault.go), and what they are meant to do.               *)
(***************************************************************************)
EXTENDS Naturals

CONSTANTS TagKeys,      \* keys a tag may have
          OptInKeys,    \* "sync", with "secret-object" or "cert-object"
          Texts,        \* what may be written in a tag, a label or a filter
          Normalize,    \* normalizeTag: each text in lower case and trimmed
          Missing       \* the tag is not there, or nil

Blank == ""
True == "true"

ASSUME KnownKeys == OptInKeys \cup {"service", "environment"} \subseteq TagKeys
ASSUME KnownTexts == {Blank, True} \subseteq Texts
ASSUME NormalizeType ==
  /\ Normalize \in [Texts -> Texts]
  /\ \A t \in Texts : Normalize[Normalize[t]] = Normalize[t]
  /\ Normalize[Blank] = Blank
ASSUME MissingIsNoText == Missing \notin Texts

\* A map of tags; nil has none.
Tags == [TagKeys -> Texts \cup {Missing}]

\* What an SPC asks for: by its labels, where a missing one is the empty text,
\* or by its AzureKeyVaultSync's filters.
LabelWishes == [mode : {"labels"}, service : Texts, environment : Texts]
FilterWishes ==
  [mode : {"filters"}, filters : UNION {[ks -> Texts] : ks \in SUBSET TagKeys}]

----------------------------------------------------------------------------
(* What the code selects *)

\* hasTag compares the text as it is written.
ShouldSync(tags) == \E k \in OptInKeys : tags[k] = True

\* normalizeTag(getTagValue(tags, k))
TagWord(tags, k) == Normalize[IF tags[k] = Missing THEN Blank ELSE tags[k]]

MatchesTags(tags, wish) ==
  LET service == Normalize[wish.service]
      environment == Normalize[wish.environment]
  IN  \/ service = Blank /\ environment = Blank
      \/ /\ TagWord(tags, "service") # Blank
         /\ TagWord(tags, "service") = service
         /\ \/ TagWord(tags, "environment") = Blank
            \/ /\ environment # Blank
               /\ TagWord(tags, "environment") = environment

\* Compares the texts as they are written.
MatchesAllFilters(tags, filters) ==
  \A k \in DOMAIN filters : tags[k] # Missing /\ tags[k] = filters[k]

\* Without filters every object passes.
PassesFilters(tags, filters) == filters = << >> \/ MatchesAllFilters(tags, filters)

Mut_Selects_FiltersNeedNoOptIn(tags, wish) ==
  IF wish.mode = "labels" THEN ShouldSync(tags) /\ MatchesTags(tags, wish)
  ELSE PassesFilters(tags, wish.filters)

\* Either mode's loop over the list skips what is not opted in.
Selects(tags, wish) ==
  /\ ShouldSync(tags)
  /\ IF wish.mode = "labels" THEN MatchesTags(tags, wish)
     ELSE PassesFilters(tags, wish.filters)

----------------------------------------------------------------------------
(* What is meant *)

\* "Sync Opt-In (Always Enforced)": whatever the SPC is and asks for.
OptedIn(tags) == True \in {tags[k] : k \in OptInKeys}

\* The tenants an object is for, as pairs of a service and an environment, by
\* its tags: nobody without a service, every environment of it without one.
Audience(tags) ==
  LET service == TagWord(tags, "service")
      environment == TagWord(tags, "environment")
  IN  ({service} \ {Blank})
        \X (IF environment = Blank THEN Texts ELSE {environment})

\* An SPC without labels is no tenant and shares the vault with none.  Filters
\* are tags that an object has to have, among others.
MeantFor(tags, wish) ==
  /\ OptedIn(tags)
  /\ IF wish.mode = "labels"
     THEN LET tenant == <<Normalize[wish.service], Normalize[wish.environment]>>
          IN  tenant = <<Blank, Blank>> \/ tenant \in Audience(tags)
     ELSE {<<k, wish.filters[k]>> : k \in DOMAIN wish.filters}
            \subseteq {<<k, tags[k]>> : k \in TagKeys}
================================================================================
