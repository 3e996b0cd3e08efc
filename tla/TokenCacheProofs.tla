--------------------------- MODULE TokenCacheProofs ---------------------------
(***************************************************************************)
(* GetToken's unlocked gap, for any number of callers, any lifetimes and   *)
(* any renewal margin that PausesShort allows: the Kubernetes cache's      *)
(* fixed margin as well as the Azure cache's relative one.  A reader that  *)
(* found a valid token had more than one pause of it left, and whatever    *)
(* replaces it was granted at most one pause ago.                          *)
(***************************************************************************)
EXTENDS TokenCache, TLAPS

\* A token on its way to the cache has aged exactly as long as its caller
\* has waited.
FreshToStore ==
  \A c \in Callers : step[c] = "store" => token[c] + waited[c] \in Lifetimes

\* The life that was recorded is the granted one, or at most a pause less.
LifeAsGranted ==
  cached # None => \E l \in Lifetimes : cached.life \in l - MaxPause .. l

\* Between the two locks the entry outlives what is left of the pause.
ReadersCovered ==
  \A c \in Callers :
    step[c] = "read" => cached # None /\ cached.left + waited[c] >= MaxPause

GapInv == TypeOK /\ FreshToStore /\ LifeAsGranted /\ ReadersCovered /\ HandedOutAlive

\* What a caller in "store" holds is still good for a pause.
LEMMA StoredIsGood ==
  ASSUME GapInv, NEW c \in Callers, step[c] = "store"
  PROVE  /\ token[c] \in MaxPause .. MaxLife
         /\ \E l \in Lifetimes : token[c] \in l - MaxPause .. l
<1>1. PICK l \in Lifetimes : l = token[c] + waited[c]
  BY DEF GapInv, FreshToStore
<1>2. waited[c] \in 0 .. MaxPause /\ token[c] \in Left
  BY DEF GapInv, TypeOK
<1>3. l >= 2 * MaxPause /\ l \in 0 .. MaxLife
  BY PausesShort, LifetimesType
<1> QED
  BY <1>1, <1>2, <1>3, PauseType, LifetimesType DEF Left

\* A valid entry has at least a pause left.
LEMMA ValidOutlivesPause ==
  ASSUME GapInv, IsTokenValid(cached)
  PROVE  cached # None /\ cached.left >= MaxPause
<1>1. cached # None /\ cached \in Entry
  BY DEF GapInv, TypeOK, IsTokenValid
<1>2. PICK l \in Lifetimes : cached.life \in l - MaxPause .. l
  BY <1>1 DEF GapInv, LifeAsGranted
<1>3. Margin[cached.life] >= MaxPause
  BY <1>2, PausesShort
<1>4. l >= 2 * MaxPause /\ l \in 0 .. MaxLife
  BY PausesShort, LifetimesType
<1>5. cached.life \in 0 .. MaxLife
  BY <1>2, <1>4, PauseType, LifetimesType
<1>6. Margin[cached.life] \in Nat
  BY <1>5, MarginType
<1>7. cached.left \in Int
  BY <1>1, LifetimesType DEF Entry, Left
<1> QED
  BY <1>1, <1>3, <1>6, <1>7, PauseType DEF IsTokenValid

LEMMA GapInvInit == Init => GapInv
BY PauseType, LifetimesType, NoneIsNoEntry, PausesShort
   DEF Init, GapInv, TypeOK, FreshToStore, LifeAsGranted, ReadersCovered,
       HandedOutAlive, Left, Entry

\* Storing: the new entry covers every reader that was looking at the old one.
LEMMA StoreKeeps ==
  ASSUME GapInv, NEW c \in Callers, Store(c)
  PROVE  GapInv'
<1>1. step[c] = "store" /\ step' = [step EXCEPT ![c] = "idle"]
      /\ waited' = [waited EXCEPT ![c] = 0]
  BY DEF Store, Goes
<1>2. token[c] \in MaxPause .. MaxLife /\ \E l \in Lifetimes : token[c] \in l - MaxPause .. l
  BY <1>1, StoredIsGood
<1>3. cached' = [left |-> token[c], life |-> token[c]] /\ handed' = token[c]
      /\ token' = [token EXCEPT ![c] = 0]
  BY DEF Store
<1>4. token[c] \in Left /\ 0 \in Left /\ cached' \in Entry
  BY <1>2, <1>3, PauseType, LifetimesType DEF Left, Entry
<1>5. TypeOK'
  BY <1>1, <1>3, <1>4, PauseType DEF GapInv, TypeOK
<1>6. FreshToStore'
  BY <1>1, <1>3 DEF GapInv, FreshToStore, TypeOK
<1>7. LifeAsGranted'
  BY <1>2, <1>3 DEF LifeAsGranted
<1>8. ReadersCovered'
  <2> SUFFICES ASSUME NEW d \in Callers, step'[d] = "read"
               PROVE  cached' # None /\ cached'.left + waited'[d] >= MaxPause
    BY DEF ReadersCovered
  <2>1. d # c /\ waited'[d] = waited[d] /\ waited[d] \in 0 .. MaxPause
    BY <1>1 DEF GapInv, TypeOK
  <2>2. cached' # None
    BY <1>4, NoneIsNoEntry
  <2> QED
    BY <1>2, <1>3, <2>1, <2>2, PauseType, LifetimesType
<1>9. HandedOutAlive'
  BY <1>2, <1>3, PauseType DEF HandedOutAlive
<1> QED
  BY <1>5, <1>6, <1>7, <1>8, <1>9 DEF GapInv

\* A tick takes as much off every token as it adds to the waits.
LEMMA TickKeeps ==
  ASSUME GapInv, Tick
  PROVE  GapInv'
<1> USE DEF Tick
<1>1. \A left \in Left : Older(left) \in Left
  BY LifetimesType DEF Older, Left
<1>2. TypeOK'
  <2>1. cached' \in Entry \cup {None}
    BY <1>1 DEF GapInv, TypeOK, Entry
  <2>2. token' \in [Callers -> Left]
    BY <1>1 DEF GapInv, TypeOK
  <2>3. waited' \in [Callers -> 0 .. MaxPause]
    BY PauseType DEF GapInv, TypeOK
  <2> QED
    BY <2>1, <2>2, <2>3 DEF GapInv, TypeOK
<1>3. FreshToStore'
  <2> SUFFICES ASSUME NEW c \in Callers, step[c] = "store"
               PROVE  token'[c] + waited'[c] \in Lifetimes
    BY DEF FreshToStore
  <2>1. token[c] \in MaxPause .. MaxLife
    BY StoredIsGood
  <2>2. token'[c] = token[c] - 1 /\ waited'[c] = waited[c] + 1
    BY <2>1, PauseType, LifetimesType DEF Older, Between
  <2>3. token[c] + waited[c] \in Lifetimes /\ waited[c] \in 0 .. MaxPause
    BY DEF GapInv, FreshToStore, TypeOK
  <2>4. token'[c] + waited'[c] = token[c] + waited[c]
    BY <2>1, <2>2, <2>3, PauseType, LifetimesType
  <2> QED
    BY <2>3, <2>4
<1>4. LifeAsGranted'
  <2>1. CASE cached = None
    BY <2>1 DEF LifeAsGranted
  <2>2. CASE cached # None
    <3>1. cached \in Entry
      BY <2>2 DEF GapInv, TypeOK
    <3>2. cached'.life = cached.life
      BY <2>2, <3>1 DEF Entry
    <3> QED
      BY <2>2, <3>2 DEF GapInv, LifeAsGranted
  <2> QED
    BY <2>1, <2>2
<1>5. ReadersCovered'
  <2> SUFFICES ASSUME NEW c \in Callers, step[c] = "read"
               PROVE  cached' # None /\ cached'.left + waited'[c] >= MaxPause
    BY DEF ReadersCovered
  <2>1. cached # None /\ cached \in Entry /\ cached.left + waited[c] >= MaxPause
    BY DEF GapInv, ReadersCovered, TypeOK
  <2>2. cached'.left = Older(cached.left) /\ cached' \in Entry
    BY <1>1, <2>1 DEF Entry
  <2>3. waited'[c] = waited[c] + 1 /\ waited[c] \in 0 .. MaxPause
    BY DEF Between, GapInv, TypeOK
  <2>4. cached.left \in Left
    BY <2>1 DEF Entry
  <2>5. cached'.left + waited'[c] >= MaxPause
    BY <2>1, <2>2, <2>3, <2>4, PauseType, LifetimesType DEF Older, Left
  <2> QED
    BY <2>2, <2>5, NoneIsNoEntry
<1>6. HandedOutAlive'
  BY DEF GapInv, HandedOutAlive
<1> QED
  BY <1>2, <1>3, <1>4, <1>5, <1>6 DEF GapInv

\* Going from one step to another without touching the entry.
LEMMA GoingKeeps ==
  ASSUME GapInv, NEW c \in Callers, NEW to \in {"idle", "request"}, Goes(c, to),
         UNCHANGED <<cached, token>>, handed' \in Left, handed' >= 0
  PROVE  GapInv'
BY PauseType
   DEF Goes, GapInv, TypeOK, FreshToStore, LifeAsGranted, ReadersCovered, HandedOutAlive

LEMMA GapInvNext == GapInv /\ [Next]_vars => GapInv'
<1> SUFFICES ASSUME GapInv, [Next]_vars PROVE GapInv'
  OBVIOUS
<1>1. handed \in Left /\ handed >= 0
  BY DEF GapInv, TypeOK, HandedOutAlive
<1>2. ASSUME NEW c \in Callers, Hit(c) PROVE GapInv'
  <2>1. cached # None /\ cached.left >= MaxPause
    BY <1>2, ValidOutlivesPause DEF Hit
  <2>2. cached.left + 0 >= MaxPause
    BY <2>1, PauseType, LifetimesType DEF GapInv, TypeOK, Entry, Left
  <2> QED
    BY <1>2, <2>1, <2>2, PauseType
       DEF Hit, Goes, GapInv, TypeOK, FreshToStore, LifeAsGranted, ReadersCovered,
           HandedOutAlive
<1>3. ASSUME NEW c \in Callers, Read(c) PROVE GapInv'
  <2>1. cached # None /\ cached.left + waited[c] >= MaxPause
    BY <1>3 DEF Read, GapInv, ReadersCovered
  <2>2. cached.left \in Left /\ waited[c] \in 0 .. MaxPause
    BY <2>1 DEF GapInv, TypeOK, Entry
  <2>3. cached.left >= 0
    BY <2>1, <2>2, PauseType, LifetimesType DEF Left
  <2>4. handed' = cached.left /\ Goes(c, "idle") /\ UNCHANGED <<cached, token>>
    BY <1>3, <2>1 DEF Read
  <2> QED
    BY <2>2, <2>3, <2>4, GoingKeeps
<1>4. ASSUME NEW c \in Callers, Miss(c) PROVE GapInv'
  BY <1>1, <1>4, GoingKeeps DEF Miss
<1>5. ASSUME NEW c \in Callers, RequestFails(c) PROVE GapInv'
  BY <1>1, <1>5, GoingKeeps DEF RequestFails
<1>6. ASSUME NEW c \in Callers, Granted(c) PROVE GapInv'
  <2>1. PICK l \in Lifetimes : token' = [token EXCEPT ![c] = l]
    BY <1>6 DEF Granted
  <2>2. l \in Left /\ l + 0 = l
    BY LifetimesType DEF Left
  <2> QED
    BY <1>6, <2>1, <2>2, PauseType
       DEF Granted, Goes, GapInv, TypeOK, FreshToStore, LifeAsGranted, ReadersCovered,
           HandedOutAlive
<1>7. ASSUME NEW c \in Callers, Store(c) PROVE GapInv'
  BY <1>7, StoreKeeps
<1>8. CASE CleanupExpired
  <2>1. \A c \in Callers : step[c] # "read"
    <3> SUFFICES ASSUME NEW c \in Callers, step[c] = "read" PROVE FALSE
      OBVIOUS
    <3>1. cached.left + waited[c] >= MaxPause /\ cached.left < 0
      BY <1>8 DEF CleanupExpired, GapInv, ReadersCovered
    <3>2. cached.left \in Left /\ waited[c] \in 0 .. MaxPause
      BY <1>8 DEF CleanupExpired, GapInv, TypeOK, Entry
    <3> QED
      BY <3>1, <3>2, PauseType, LifetimesType DEF Left
  <2> QED
    BY <1>8, <2>1
       DEF CleanupExpired, GapInv, TypeOK, FreshToStore, LifeAsGranted, ReadersCovered,
           HandedOutAlive
<1>9. CASE Tick
  BY <1>9, TickKeeps
<1>10. CASE UNCHANGED vars
  BY <1>10
     DEF vars, GapInv, TypeOK, FreshToStore, LifeAsGranted, ReadersCovered, HandedOutAlive
<1> QED
  BY <1>2, <1>3, <1>4, <1>5, <1>6, <1>7, <1>8, <1>9, <1>10 DEF Next, GetToken

\* The whole argument as one invariant.
LEMMA GapInvariant == Spec => []GapInv
BY GapInvInit, GapInvNext, PTL DEF Spec

\* Type correctness: nobody's wait exceeds MaxPause, no token MaxLife.
THEOREM TypeCorrect == Spec => []TypeOK
BY GapInvariant, PTL DEF GapInv

\* GetToken never follows a nil pointer: between its check and its read
\* neither expiry nor another caller's store lets the cleanup take the entry.
THEOREM ReadNeverNil == Spec => []NoNilRead
<1>1. GapInv => NoNilRead
  BY DEF GapInv, ReadersCovered, NoNilRead
<1> QED
  BY <1>1, GapInvariant, PTL

\* No caller is ever handed an expired token.
THEOREM HandsOutLiveTokens == Spec => []HandedOutAlive
BY GapInvariant, PTL DEF GapInv
===============================================================================
