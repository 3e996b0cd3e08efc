------------------------------- MODULE TokenCache -------------------------------
(***************************************************************************)
(* The two token caches, internal/token/token.go (Kubernetes tokens) and   *)
(* AzureTokenCache of internal/azure/azure.go (Azure AD tokens), for one   *)
(* key: one service account.  They work alike; what differs is when a      *)
(* token is due for renewal (Margin).                                      *)
(*                                                                         *)
(* GetToken asks IsTokenValid, which locks and unlocks, and then locks     *)
(* again to read the entry; a miss requests a token without any lock.      *)
(* Meanwhile the workers and the AzureKeyVaultSync reconciler do the same, *)
(* and the cleanup goroutine deletes what has expired.                     *)
(*                                                                         *)
(* Times are the seconds a token has left, in coarse ticks: -1 once        *)
(* now.After(ExpirationTime).                                              *)
(***************************************************************************)
EXTENDS Integers

CONSTANTS Callers,
          Lifetimes,  \* what the issuer may grant
          MaxLife,    \* no token lives longer
          Margin,     \* renewal is due when no more than Margin[life] is left
          MaxPause,   \* no caller is held up longer between two of its steps
          None

ASSUME LifetimesType == MaxLife \in Nat /\ Lifetimes \subseteq 0 .. MaxLife
ASSUME MarginType == Margin \in [0 .. MaxLife -> Nat]
ASSUME PauseType == MaxPause \in Nat

\* What keeps the unlocked gap in GetToken harmless: tokens live longer than
\* two such pauses, and are renewed no later than one pause before the end.
ASSUME PausesShort ==
  /\ \A l \in Lifetimes : l >= 2 * MaxPause
  /\ \A l \in Lifetimes : \A k \in l - MaxPause .. l : Margin[k] >= MaxPause

Left == -1 .. MaxLife

\* life: ExpirationTime - IssuedAt.
Entry == [left : Left, life : Left]

ASSUME NoneIsNoEntry == None \notin Entry

VARIABLES cached,   \* the entry of the key, or None
          step,     \* where each caller is in GetToken
          waited,   \* ticks since the caller's last step
          token,    \* what is left of the token the caller was granted
          handed    \* (for the properties) what the token last returned to anybody had left

vars == <<cached, step, waited, token, handed>>

Init ==
  /\ cached = None
  /\ step = [c \in Callers |-> "idle"]
  /\ waited = [c \in Callers |-> 0]
  /\ token = [c \in Callers |-> 0]
  /\ handed = MaxLife

Goes(c, to) ==
  /\ step' = [step EXCEPT ![c] = to]
  /\ waited' = [waited EXCEPT ![c] = 0]

Mut_IsTokenValid_UntilExpiry(e) == e # None /\ e.left >= 0

IsTokenValid(e) == e # None /\ e.left > Margin[e.life]

Hit(c) ==
  /\ step[c] = "idle"
  /\ IsTokenValid(cached)
  /\ Goes(c, "read")
  /\ UNCHANGED <<cached, token, handed>>

\* The second lock: whatever the entry is by now; if there is none, a nil
\* pointer is followed.
Read(c) ==
  /\ step[c] = "read"
  /\ handed' = IF cached = None THEN handed ELSE cached.left
  /\ Goes(c, IF cached = None THEN "panicked" ELSE "idle")
  /\ UNCHANGED <<cached, token>>

Miss(c) ==
  /\ step[c] = "idle"
  /\ ~IsTokenValid(cached)
  /\ Goes(c, "request")
  /\ UNCHANGED <<cached, token, handed>>

RequestFails(c) ==
  /\ step[c] = "request"
  /\ Goes(c, "idle")
  /\ UNCHANGED <<cached, token, handed>>

\* requestToken or exchangeToken: the issuer grants a token, which begins to
\* age at once.
Granted(c) ==
  /\ step[c] = "request"
  /\ \E l \in Lifetimes : token' = [token EXCEPT ![c] = l]
  /\ Goes(c, "store")
  /\ UNCHANGED <<cached, handed>>

Mut_Store_NoIssuedAt(c) ==
  /\ step[c] = "store"
  /\ cached' = [left |-> token[c], life |-> MaxLife + 1]
  /\ handed' = token[c]
  /\ token' = [token EXCEPT ![c] = 0]
  /\ Goes(c, "idle")

\* IssuedAt is the time of storing.
Store(c) ==
  /\ step[c] = "store"
  /\ cached' = [left |-> token[c], life |-> token[c]]
  /\ handed' = token[c]
  /\ token' = [token EXCEPT ![c] = 0]
  /\ Goes(c, "idle")

Mut_CleanupExpired_DueForRenewal ==
  /\ cached # None
  /\ cached.left <= Margin[cached.life]
  /\ cached' = None
  /\ UNCHANGED <<step, waited, token, handed>>

CleanupExpired ==
  /\ cached # None
  /\ cached.left < 0
  /\ cached' = None
  /\ UNCHANGED <<step, waited, token, handed>>

Older(left) == IF left < 0 THEN left ELSE left - 1

\* In the middle of GetToken, but not waiting for the issuer.
Between(c) == step[c] \in {"read", "store"}

Tick ==
  /\ \A c \in Callers : Between(c) => waited[c] < MaxPause
  /\ cached' = IF cached = None THEN None ELSE [cached EXCEPT !.left = Older(cached.left)]
  /\ token' = [c \in Callers |-> IF step[c] = "store" THEN Older(token[c]) ELSE token[c]]
  /\ waited' = [c \in Callers |-> IF Between(c) THEN waited[c] + 1 ELSE waited[c]]
  /\ UNCHANGED <<step, handed>>

GetToken(c) ==
  Hit(c) \/ Read(c) \/ Miss(c) \/ RequestFails(c) \/ Granted(c) \/ Store(c)

Next ==
  \/ \E c \in Callers : GetToken(c)
  \/ CleanupExpired
  \/ Tick

Spec == Init /\ [][Next]_vars

----------------------------------------------------------------------------
(* Properties *)

\* Every variable has its type.
TypeOK ==
  /\ cached \in Entry \cup {None}
  /\ step \in [Callers -> {"idle", "read", "request", "store", "panicked"}]
  /\ waited \in [Callers -> 0 .. MaxPause]
  /\ token \in [Callers -> Left]
  /\ handed \in Left

\* The gap between IsTokenValid and the read is harmless: the entry that was
\* valid may age, be replaced by a slower caller's older token or be due for
\* renewal by then, but it has not been cleaned away.
NoNilRead == \A c \in Callers : step[c] = "read" => cached # None

\* No caller is handed an expired token, fresh or cached, whichever caller
\* stored it.
HandedOutAlive == handed >= 0
===============================================================================
