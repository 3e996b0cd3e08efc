----------------------------- MODULE MCVaultListing -----------------------------
(***************************************************************************)
(* A small instance of VaultListing for TLC: three names on two pages.     *)
(***************************************************************************)
EXTENDS VaultListing

SomeTexts == {"", " ", "true", "True", "web", " Web", "WEB", "prod", "test"}

\* strings.ToLower(strings.TrimSpace(t))
ToWord ==
  [t \in SomeTexts |-> CASE t = " " -> ""
                        [] t = "True" -> "true"
                        [] t \in {" Web", "WEB"} -> "web"
                        [] OTHER -> t]

Tagged(optIn, service, environment) ==
  [k \in TagKeys |-> CASE k = "service" -> service
                       [] k = "environment" -> environment
                       [] k = "sync" -> optIn
                       [] OTHER -> Missing]

\* An object for service "web", however spelt; one for its environment "prod";
\* a disabled one; one without the opt-in.
SomeEntries ==
  {[enabled |-> TRUE, tags |-> Tagged("true", " Web", " ")],
   [enabled |-> TRUE, tags |-> Tagged("true", "web", "prod")],
   [enabled |-> FALSE, tags |-> Tagged("true", "web", Missing)],
   [enabled |-> TRUE, tags |-> Tagged("True", "web", Missing)]}

Labels(service, environment) ==
  [mode |-> "labels", service |-> service, environment |-> environment]

Filters(filters) == [mode |-> "filters", filters |-> filters]

\* No tenant; the service's "prod"; its "test"; no filter; filters of two
\* spellings, of which the vault has one.
SomeWishes ==
  {Labels("", ""), Labels("WEB", "prod"), Labels("web", "test"),
   Filters(<< >>),
   Filters([k \in {"service"} |-> "web"]), Filters([k \in {"service"} |-> "WEB"])}
================================================================================
