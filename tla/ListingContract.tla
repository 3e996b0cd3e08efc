---------------------------- MODULE ListingContract ----------------------------
(***************************************************************************)
(* What the reconcilers take a vault's listing for, without its pages and  *)
(* its retries: all or nothing, and each object as it was at some moment   *)
(* while the listing ran, though not all at one moment.                    *)
(***************************************************************************)
CONSTANTS Items,      \* names an object of the vault may have
          Entries,    \* what an object may be: [enabled, tags]
          Absent      \* there is no such object

VARIABLES vault,      \* what the vault holds
          phase,      \* "idle", "listing", "done", "failed"
          held,       \* what each name has stood for since the listing began
          answer      \* the enabled objects listed, with their tags

vars == <<vault, phase, held, answer>>

Init ==
  /\ vault \in [Items -> Entries \cup {Absent}]
  /\ phase = "idle"
  /\ held = [i \in Items |-> {vault[i]}]
  /\ answer = {}

Begin ==
  /\ phase # "listing"
  /\ phase' = "listing"
  /\ held' = [i \in Items |-> {vault[i]}]
  /\ answer' = {}
  /\ UNCHANGED vault

Change(i, e) ==
  /\ vault' = [vault EXCEPT ![i] = e]
  /\ held' = IF phase = "listing" THEN [held EXCEPT ![i] = @ \cup {e}] ELSE held
  /\ UNCHANGED <<phase, answer>>

Listed(view) == {i \in Items : view[i] # Absent /\ view[i].enabled}

Answer(view) ==
  /\ phase = "listing"
  /\ \A i \in Items : view[i] \in held[i]
  /\ phase' = "done"
  /\ answer' = {<<i, view[i].tags>> : i \in Listed(view)}
  /\ UNCHANGED <<vault, held>>

Fail ==
  /\ phase = "listing"
  /\ phase' = "failed"
  /\ UNCHANGED <<vault, held, answer>>

Next ==
  \/ Begin
  \/ \E i \in Items, e \in Entries \cup {Absent} : Change(i, e)
  \/ \E view \in [Items -> Entries \cup {Absent}] : Answer(view)
  \/ Fail

Spec == Init /\ [][Next]_vars
================================================================================
