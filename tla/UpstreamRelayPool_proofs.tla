----------------------- MODULE UpstreamRelayPool_proofs -----------------------
(***************************************************************************)
(* What is proved of UpstreamRelayPool for any relays, ids and bounds.     *)
(*                                                                         *)
(* Safe is the inductive invariant: the properties of the module, and      *)
(* three facts they lean on.  Its parts are proved together, one step per  *)
(* action.  The second half adds what EoseHonest needs when ids are not    *)
(* reused, and the last part maps every step to the promised interface.    *)
(***************************************************************************)
EXTENDS UpstreamRelayPool, TLAPS

(* A debt is never already paid; without a client no relay has a state;    *)
(* recovery timers exist only for the relays rx-nostr has given up on.     *)
OwesUnfired == \A u \in holds : fired[u] = 0
OffWithoutClient == ~client => \A r \in Relays : link[r] = "off"
RecoveryIsForError == \A r \in recovery : link[r] = "error"

Safe ==
  /\ TypeOK
  /\ OwesUnfired
  /\ OffWithoutClient
  /\ RecoveryIsForError
  /\ PendingAreConnected
  /\ NobodyPendingIsQueued
  /\ ErrorIsRearmed
  /\ StoppedIsQuiet

(* The invariant holds at first.                                           *)
LEMMA InitSafe == Init => Safe
<1> SUFFICES ASSUME Init PROVE Safe
  OBVIOUS
<1>1. TypeOK
  BY DEF Init, TypeOK, LinkStates
<1>2. QED
  BY <1>1 DEF Init, Safe, OwesUnfired, OffWithoutClient, RecoveryIsForError,
    PendingAreConnected, NobodyPendingIsQueued, ErrorIsRearmed, StoppedIsQuiet

(* connect() disturbs nothing: a pool without a client waits for nobody.   *)
LEMMA ConnectSafe ==
  ASSUME Safe, Connect
  PROVE  /\ client' \in BOOLEAN
         /\ client'
         /\ link' \in [Relays -> LinkStates]
         /\ \A r \in Relays : link[r] = "connected" => link'[r] = "connected"
         /\ \A r \in Relays : link[r] = "error" <=> link'[r] = "error"
<1>1. CASE client
  BY <1>1 DEF Connect, Safe, TypeOK
<1>2. CASE ~client
  BY <1>2 DEF Connect, Safe, TypeOK, LinkStates, OffWithoutClient
<1>3. QED
  BY <1>1, <1>2

(* Firing, whatever set of ids it is for, pays only what is owed.          *)
LEMMA FireTyped ==
  ASSUME Safe, NEW S, NEW p \in [UpIds -> SUBSET Relays], FireEose(S, p)
  PROVE  /\ holds' = holds \ S
         /\ pending' \in [UpIds -> SUBSET Relays]
         /\ fired' \in [UpIds -> {0, 1}]
         /\ \A u \in holds' : pending'[u] = p[u] /\ fired'[u] = fired[u]
         /\ OwesUnfired'
<1>1. holds' = holds \ S
  BY DEF FireEose, Forget
<1>2. holds \subseteq UpIds /\ fired \in [UpIds -> {0, 1}] /\ \A u \in holds : fired[u] = 0
  BY DEF Safe, TypeOK, OwesUnfired
<1>3. pending' \in [UpIds -> SUBSET Relays]
  BY DEF FireEose
<1>4. fired' \in [UpIds -> {0, 1}]
  BY <1>2 DEF FireEose
<1>5. \A u \in holds' : pending'[u] = p[u] /\ fired'[u] = fired[u]
  BY <1>1, <1>2 DEF FireEose
<1>6. OwesUnfired'
  BY <1>1, <1>2, <1>5 DEF OwesUnfired
<1>7. QED
  BY <1>1, <1>3, <1>4, <1>5, <1>6

(* Every step keeps the invariant.                                         *)
LEMMA NextSafe == Safe /\ [Next]_vars => Safe'
<1> SUFFICES ASSUME Safe, [Next]_vars PROVE Safe'
  OBVIOUS
<1> USE DEF Safe
<1>1. CASE Start
  <2>1. TypeOK'
    BY <1>1, ConnectSafe DEF Start, TypeOK
  <2>2. (OwesUnfired /\ OffWithoutClient /\ StoppedIsQuiet)'
    BY <1>1, ConnectSafe DEF Start, OwesUnfired, OffWithoutClient, StoppedIsQuiet
  <2>3. (RecoveryIsForError /\ ErrorIsRearmed)'
    BY <1>1, ConnectSafe DEF Start, RecoveryIsForError, ErrorIsRearmed, TypeOK
  <2>4. (PendingAreConnected /\ NobodyPendingIsQueued)'
    BY <1>1, ConnectSafe DEF Start, PendingAreConnected, NobodyPendingIsQueued, TypeOK
  <2>5. QED
    BY <2>1, <2>2, <2>3, <2>4
<1>2. CASE Stop
  BY <1>2 DEF Stop, TypeOK, LinkStates, OwesUnfired, OffWithoutClient,
    RecoveryIsForError, PendingAreConnected, NobodyPendingIsQueued,
    ErrorIsRearmed, StoppedIsQuiet
<1>3. CASE Publish
  <2>1. TypeOK'
    BY <1>3, ConnectSafe DEF Publish, TypeOK
  <2>2. (OwesUnfired /\ OffWithoutClient /\ StoppedIsQuiet)'
    BY <1>3, ConnectSafe DEF Publish, MayConnect, OwesUnfired, OffWithoutClient, StoppedIsQuiet
  <2>3. (RecoveryIsForError /\ ErrorIsRearmed)'
    BY <1>3, ConnectSafe DEF Publish, RecoveryIsForError, ErrorIsRearmed, TypeOK
  <2>4. (PendingAreConnected /\ NobodyPendingIsQueued)'
    BY <1>3, ConnectSafe DEF Publish, PendingAreConnected, NobodyPendingIsQueued, TypeOK
  <2>5. QED
    BY <2>1, <2>2, <2>3, <2>4
<1>4. ASSUME NEW u \in UpIds, NEW hasFilters \in BOOLEAN, OpenSubscription(u, hasFilters)
      PROVE  Safe'
  <2> DEFINE snapshot == IF hasFilters THEN Connected ELSE {}
  <2>1. Connect
    BY <1>4 DEF OpenSubscription
  <2>2. snapshot \subseteq Relays /\ \A r \in snapshot : link[r] = "connected"
    BY DEF Connected
  <2>3. /\ opens' = opens + 1
        /\ gen' = [gen EXCEPT ![u] = opens + 1]
        /\ pending' = [pending EXCEPT ![u] = snapshot]
        /\ holds' = holds \cup {u}
        /\ live' \subseteq live \cup {u}
        /\ snapshot = {} => ticks' = ticks \cup {<<u, opens + 1>>}
        /\ ticks \subseteq ticks' /\ ticks' \subseteq ticks \cup {<<u, opens + 1>>}
        /\ settled' = [settled EXCEPT ![u] = Relays \ snapshot]
        /\ reused' \subseteq reused \cup {u}
    BY <1>4 DEF OpenSubscription, NobodyWillAnswer
  <2>4. fired' = [fired EXCEPT ![u] = 0] /\ UNCHANGED <<stopped, recovery, wire, drops>> /\ ~stopped
    BY <1>4 DEF OpenSubscription, MayConnect
  <2> HIDE DEF snapshot
  <2>5. TypeOK'
    BY <2>1, <2>2, <2>3, <2>4, ConnectSafe DEF TypeOK
  <2>6. (OwesUnfired /\ OffWithoutClient /\ StoppedIsQuiet)'
    BY <2>1, <2>3, <2>4, ConnectSafe DEF TypeOK, OwesUnfired, OffWithoutClient, StoppedIsQuiet
  <2>7. (RecoveryIsForError /\ ErrorIsRearmed)'
    BY <2>1, <2>4, ConnectSafe DEF RecoveryIsForError, ErrorIsRearmed, TypeOK
  <2>8. PendingAreConnected'
    BY <2>1, <2>2, <2>3, ConnectSafe DEF PendingAreConnected, TypeOK
  <2>9. NobodyPendingIsQueued'
    BY <2>3 DEF NobodyPendingIsQueued, TypeOK
  <2>10. QED
    BY <2>5, <2>6, <2>7, <2>8, <2>9
<1>5. ASSUME NEW u \in UpIds, CloseSubscription(u) PROVE Safe'
  BY <1>5 DEF CloseSubscription, TypeOK, OwesUnfired, OffWithoutClient,
    RecoveryIsForError, PendingAreConnected, NobodyPendingIsQueued,
    ErrorIsRearmed, StoppedIsQuiet
<1>6. ASSUME NEW u \in UpIds, NEW g \in 1..MaxOpens, Tick(u, g) PROVE Safe'
  <2> DEFINE S == IF TickFires(u, g) THEN {u} ELSE {}
  <2>1. pending \in [UpIds -> SUBSET Relays] /\ FireEose(S, pending)
    BY <1>6 DEF TypeOK, Tick
  <2>2. /\ ticks' = ticks \ {<<u, g>>}
        /\ UNCHANGED <<stopped, client, link, live, gen, recovery, wire, opens, drops, reused, settled>>
    BY <1>6 DEF Tick
  <2>3. u \in holds /\ gen[u] = g => u \in S
    BY DEF TickFires
  <2> HIDE DEF S
  <2>4. /\ holds' = holds \ S
        /\ pending' \in [UpIds -> SUBSET Relays] /\ fired' \in [UpIds -> {0, 1}]
        /\ \A v \in holds' : pending'[v] = pending[v]
        /\ OwesUnfired'
    BY <2>1, FireTyped
  <2>5. TypeOK'
    BY <2>2, <2>4 DEF TypeOK
  <2>6. (OffWithoutClient /\ RecoveryIsForError /\ ErrorIsRearmed /\ StoppedIsQuiet)'
    BY <2>2, <2>4 DEF OffWithoutClient, RecoveryIsForError, ErrorIsRearmed, StoppedIsQuiet
  <2>7. PendingAreConnected'
    BY <2>2, <2>4 DEF PendingAreConnected
  <2>8. NobodyPendingIsQueued'
    <3> SUFFICES ASSUME NEW v \in holds', pending'[v] = {}
                 PROVE  <<v, gen'[v]>> \in ticks'
      BY DEF NobodyPendingIsQueued
    <3>1. <<v, gen[v]>> \in ticks
      BY <2>4 DEF NobodyPendingIsQueued
    <3>2. <<v, gen[v]>> # <<u, g>>
      BY <2>3, <2>4
    <3>3. QED
      BY <2>2, <3>1, <3>2
  <2>9. QED
    BY <2>4, <2>5, <2>6, <2>7, <2>8
<1>7. ASSUME NEW r \in Relays, RelayUp(r) PROVE Safe'
  <2>1. TypeOK'
    BY <1>7 DEF RelayUp, TypeOK, LinkStates
  <2>2. QED
    BY <1>7, <2>1 DEF RelayUp, TypeOK, OwesUnfired, OffWithoutClient,
      RecoveryIsForError, PendingAreConnected, NobodyPendingIsQueued,
      ErrorIsRearmed, StoppedIsQuiet
<1>8. ASSUME NEW r \in Relays, NEW state \in {"down", "error", "rejected"},
             RelayLeaves(r, state)
      PROVE  Safe'
  <2> DEFINE S == CompletedWithout(r)
  <2> DEFINE p == DropFromPending(r)
  <2>1. p \in [UpIds -> SUBSET Relays] /\ FireEose(S, p)
    BY <1>8 DEF TypeOK, RelayLeaves, DropFromPending
  <2>2. /\ client /\ (link[r] = "connected" \/ link[r] = "down")
        /\ drops' = drops + 1
        /\ link' = [link EXCEPT ![r] = state]
        /\ recovery' = IF state = "error" THEN recovery \cup {r} ELSE recovery
        /\ wire' \subseteq wire
        /\ settled' = [u \in UpIds |-> settled[u] \cup {r}]
        /\ UNCHANGED <<stopped, client, live, gen, ticks, opens, reused>>
    BY <1>8 DEF RelayLeaves, RecoveryAfter
  <2>3. \A u \in holds : /\ p[u] = pending[u] \ {r}
                         /\ p[u] = {} /\ u \notin S => pending[u] = {}
    BY DEF TypeOK, DropFromPending, CompletedWithout
  <2> HIDE DEF S, p
  <2>4. /\ holds' = holds \ S
        /\ pending' \in [UpIds -> SUBSET Relays] /\ fired' \in [UpIds -> {0, 1}]
        /\ \A v \in holds' : pending'[v] = p[v]
        /\ OwesUnfired'
    BY <2>1, FireTyped
  <2>5. TypeOK'
    BY <2>2, <2>4 DEF TypeOK, LinkStates
  <2>6. (OffWithoutClient /\ StoppedIsQuiet)'
    BY <2>2, <2>4 DEF OffWithoutClient, StoppedIsQuiet
  <2>7. (RecoveryIsForError /\ ErrorIsRearmed)'
    BY <2>2 DEF RecoveryIsForError, ErrorIsRearmed, TypeOK
  <2>8. PendingAreConnected'
    BY <2>2, <2>3, <2>4 DEF PendingAreConnected, TypeOK
  <2>9. NobodyPendingIsQueued'
    BY <2>2, <2>3, <2>4 DEF NobodyPendingIsQueued
  <2>10. QED
    BY <2>4, <2>5, <2>6, <2>7, <2>8, <2>9
<1>9. ASSUME NEW r \in Relays, RecoveryTimer(r) PROVE Safe'
  <2>1. link[r] = "error" /\ link' = [link EXCEPT ![r] = "down"] /\ recovery' = recovery \ {r}
    BY <1>9 DEF RecoveryTimer, RecoveryIsForError
  <2>2. TypeOK'
    BY <1>9 DEF RecoveryTimer, TypeOK, LinkStates
  <2>3. (PendingAreConnected /\ RecoveryIsForError /\ ErrorIsRearmed)'
    BY <1>9, <2>1 DEF RecoveryTimer, TypeOK, PendingAreConnected, RecoveryIsForError,
      ErrorIsRearmed
  <2>4. client
    BY <2>1 DEF OffWithoutClient
  <2>5. (OwesUnfired /\ OffWithoutClient /\ NobodyPendingIsQueued /\ StoppedIsQuiet)'
    BY <1>9, <2>4 DEF RecoveryTimer, OwesUnfired, OffWithoutClient, NobodyPendingIsQueued,
      StoppedIsQuiet
  <2>6. QED
    BY <2>2, <2>3, <2>5
<1>10. ASSUME NEW r \in Relays, NEW u \in UpIds, RelaySendsEose(r, u) PROVE Safe'
  <2>1. TypeOK'
    BY <1>10 DEF RelaySendsEose, TypeOK
  <2>2. QED
    BY <1>10, <2>1 DEF RelaySendsEose, OwesUnfired, OffWithoutClient,
      RecoveryIsForError, PendingAreConnected, NobodyPendingIsQueued,
      ErrorIsRearmed, StoppedIsQuiet
<1>11. ASSUME NEW r \in Relays, NEW u \in UpIds, NEW g \in 1..MaxOpens, RelayEose(r, u, g)
       PROVE  Safe'
  <2> DEFINE left == [pending EXCEPT ![u] = @ \ {r}]
  <2> DEFINE S == IF Complete(left[u]) THEN {u} ELSE {}
  <2>1. /\ wire' = wire \ {<<r, u, g>>}
        /\ settled' = IF g = gen[u] THEN [settled EXCEPT ![u] = @ \cup {r}] ELSE settled
        /\ UNCHANGED <<stopped, client, link, live, gen, ticks, recovery, opens, drops, reused>>
    BY <1>11 DEF RelayEose
  <2>2. left \in [UpIds -> SUBSET Relays]
    BY DEF TypeOK
  <2>3. \A v \in UpIds : left[v] \subseteq pending[v] /\ (v # u => left[v] = pending[v])
    BY DEF TypeOK
  <2>4. left[u] = {} => u \in S
    BY DEF Complete
  <2>5. \/ FireEose(S, left)
        \/ UNCHANGED <<holds, pending, fired>> /\ u \notin holds
    BY <1>11 DEF RelayEose
  <2> HIDE DEF S, left
  <2>6. /\ holds' \subseteq holds
        /\ pending' \in [UpIds -> SUBSET Relays] /\ fired' \in [UpIds -> {0, 1}]
        /\ \A v \in holds' : /\ pending'[v] \subseteq pending[v]
                             /\ pending'[v] = {} => pending[v] = {}
        /\ OwesUnfired'
    <3>1. CASE FireEose(S, left)
      <4>1. /\ holds' = holds \ S
            /\ pending' \in [UpIds -> SUBSET Relays] /\ fired' \in [UpIds -> {0, 1}]
            /\ \A v \in holds' : pending'[v] = left[v]
            /\ OwesUnfired'
        BY <2>2, <3>1, FireTyped
      <4>2. holds \subseteq UpIds
        BY DEF TypeOK
      <4>3. QED
        BY <4>1, <4>2, <2>3, <2>4
    <3>2. CASE UNCHANGED <<holds, pending, fired>>
      BY <3>2 DEF TypeOK, OwesUnfired
    <3>3. QED
      BY <2>5, <3>1, <3>2
  <2>7. TypeOK'
    BY <2>1, <2>6 DEF TypeOK
  <2>8. (OffWithoutClient /\ RecoveryIsForError /\ ErrorIsRearmed /\ StoppedIsQuiet)'
    BY <2>1, <2>6 DEF OffWithoutClient, RecoveryIsForError, ErrorIsRearmed, StoppedIsQuiet
  <2>9. (PendingAreConnected /\ NobodyPendingIsQueued)'
    BY <2>1, <2>6 DEF PendingAreConnected, NobodyPendingIsQueued
  <2>10. QED
    BY <2>6, <2>7, <2>8, <2>9
<1>12. CASE UNCHANGED vars
  BY <1>12 DEF vars, TypeOK, OwesUnfired, OffWithoutClient, RecoveryIsForError,
    PendingAreConnected, NobodyPendingIsQueued, ErrorIsRearmed, StoppedIsQuiet
<1>13. QED
  BY <1>1, <1>2, <1>3, <1>4, <1>5, <1>6, <1>7, <1>8, <1>9, <1>10, <1>11, <1>12 DEF Next

(* It holds always.                                                        *)
LEMMA SafeAlways == Spec => []Safe
<1>1. QED
  BY InitSafe, NextSafe, PTL DEF Spec
(* Type correctness of the pool's tables; in particular fired stays within *)
(* {0, 1}: fireEose() never calls onEose twice for one opening.            *)
THEOREM PoolTypeOK == Spec => []TypeOK
<1>1. Safe => TypeOK
  BY DEF Safe
<1>2. QED
  BY <1>1, SafeAlways, PTL

(* The aggregate waits for connected relays only, however relays left, and *)
(* a subscription waiting for nobody has its microtask queued, across      *)
(* close and reopen in the same tick (handleConnectionState,               *)
(* openSubscription).                                                      *)
THEOREM PoolNobodyWaitsInVain == Spec => []NobodyWaitsInVain
<1>1. Safe => NobodyWaitsInVain
  BY DEF Safe, NobodyWaitsInVain
<1>2. QED
  BY <1>1, SafeAlways, PTL

(* A relay in "error" has a recovery timer (handleConnectionState).        *)
LEMMA PoolRearmsErrors == Spec => []ErrorIsRearmed
<1>1. Safe => ErrorIsRearmed
  BY DEF Safe
<1>2. QED
  BY <1>1, SafeAlways, PTL

(* Nothing survives stop() and nothing comes back before start().          *)
LEMMA PoolStopsQuietly == Spec => []StoppedIsQuiet
<1>1. Safe => StoppedIsQuiet
  BY DEF Safe
<1>2. QED
  BY <1>1, SafeAlways, PTL

-----------------------------------------------------------------------------
(* The honesty of the aggregate.  While an id is opened once, an EOSE      *)
(* message, a microtask and a pending set under it belong to that opening; *)
(* what the opening still waits for covers every relay it has not heard    *)
(* of; a queued microtask waits for nobody.                                *)
Honest ==
  /\ \A u \in live \cup holds \cup reused : gen[u] > 0
  /\ \A m \in wire : m[3] > 0 /\ (m[2] \notin reused => m[3] = gen[m[2]])
  /\ \A t \in ticks : t[2] > 0 /\ (t[1] \notin reused => t[2] = gen[t[1]])
  /\ \A t \in ticks : t[1] \in holds \ reused => pending[t[1]] = {}
  /\ \A u \in holds \ reused : Relays \ settled[u] \subseteq pending[u]
  /\ EoseHonest

(* Honesty about the answers holds at first.                               *)
LEMMA InitHonest == Init => Honest
<1>1. QED
  BY DEF Init, Honest, EoseHonest

(* Firing for S is honest when every relay of S's members has settled.     *)
LEMMA FireHonest ==
  ASSUME Safe, Safe', Honest, NEW S, NEW p \in [UpIds -> SUBSET Relays], FireEose(S, p),
         UNCHANGED reused,
         \A u \in UpIds : settled[u] \subseteq settled'[u],
         \A u \in (S \cap holds) \ reused : settled'[u] = Relays
  PROVE  EoseHonest'
<1> SUFFICES ASSUME NEW u \in UpIds \ reused, fired'[u] > 0 PROVE settled'[u] = Relays
  BY DEF EoseHonest
<1>1. CASE u \in S \cap holds
  BY <1>1
<1>2. CASE u \notin S \cap holds
  <2>1. fired'[u] = fired[u]
    BY <1>2 DEF FireEose
  <2>2. settled[u] = Relays
    BY <2>1 DEF Honest, EoseHonest
  <2>3. settled'[u] \subseteq Relays
    BY DEF Safe, TypeOK
  <2>4. QED
    BY <2>2, <2>3
<1>3. QED
  BY <1>1, <1>2

(* Every step keeps it.                                                    *)
LEMMA NextHonest ==
  ASSUME Safe, Safe', Honest, [Next]_vars
  PROVE  Honest'
<1> USE DEF Honest
<1>1. CASE Start
  BY <1>1 DEF Start, EoseHonest
<1>2. CASE Stop
  BY <1>2 DEF Stop, EoseHonest, Safe, TypeOK
<1>3. CASE Publish
  BY <1>3 DEF Publish, EoseHonest
<1>4. ASSUME NEW u \in UpIds, NEW hasFilters \in BOOLEAN, OpenSubscription(u, hasFilters)
      PROVE  Honest'
  <2> DEFINE snapshot == IF hasFilters THEN Connected ELSE {}
  <2>1. opens \in Nat /\ gen \in [UpIds -> Nat] /\ fired \in [UpIds -> {0, 1}]
        /\ pending \in [UpIds -> SUBSET Relays] /\ settled \in [UpIds -> SUBSET Relays]
        /\ holds \subseteq UpIds /\ live \subseteq UpIds /\ reused \subseteq UpIds
        /\ wire \subseteq Relays \X UpIds \X Nat /\ ticks \subseteq UpIds \X Nat
    BY DEF Safe, TypeOK
  <2>2. /\ gen' = [gen EXCEPT ![u] = opens + 1]
        /\ pending' = [pending EXCEPT ![u] = snapshot]
        /\ holds' = holds \cup {u}
        /\ live' \subseteq live \cup {u}
        /\ ticks' = IF snapshot = {} THEN ticks \cup {<<u, opens + 1>>} ELSE ticks
        /\ settled' = [settled EXCEPT ![u] = Relays \ snapshot]
        /\ reused' = IF gen[u] = 0 THEN reused ELSE reused \cup {u}
        /\ fired' = [fired EXCEPT ![u] = 0]
        /\ wire' = wire
    BY <1>4 DEF OpenSubscription, NobodyWillAnswer
  <2>3. snapshot \subseteq Relays
    BY DEF Connected
  <2> HIDE DEF snapshot
  <2>4. \A v \in (live \cup holds \cup reused)' : gen'[v] > 0
    BY <2>1, <2>2
  <2>5. \A m \in wire : m[2] \in UpIds /\ (m[2] = u => u \in reused')
    BY <2>1, <2>2
  <2>6. \A t \in ticks : t[1] \in UpIds /\ (t[1] = u => u \in reused')
    BY <2>1, <2>2
  <2>7. reused \subseteq reused'
    BY <2>2
  <2>8. \A m \in wire' : m[3] > 0 /\ (m[2] \notin reused' => m[3] = gen'[m[2]])
    BY <2>1, <2>2, <2>5, <2>7
  <2>9. \A t \in ticks' : t[2] > 0 /\ (t[1] \notin reused' => t[2] = gen'[t[1]])
    BY <2>1, <2>2, <2>6, <2>7
  <2>10. \A t \in ticks' : t[1] \in (holds \ reused)' => pending'[t[1]] = {}
    BY <2>1, <2>2, <2>6, <2>7
  <2>11. \A v \in (holds \ reused)' : Relays \ settled'[v] \subseteq pending'[v]
    BY <2>1, <2>2, <2>3, <2>7
  <2>12. EoseHonest'
    BY <2>1, <2>2, <2>7 DEF EoseHonest
  <2>13. QED
    BY <2>4, <2>8, <2>9, <2>10, <2>11, <2>12
<1>5. ASSUME NEW u \in UpIds, CloseSubscription(u) PROVE Honest'
  BY <1>5 DEF CloseSubscription, EoseHonest, Safe, TypeOK
<1>6. ASSUME NEW u \in UpIds, NEW g \in 1..MaxOpens, Tick(u, g) PROVE Honest'
  <2> DEFINE S == IF TickFires(u, g) THEN {u} ELSE {}
  <2>1. pending \in [UpIds -> SUBSET Relays] /\ FireEose(S, pending)
    BY <1>6 DEF Safe, TypeOK, Tick
  <2>2. <<u, g>> \in ticks /\ ticks' = ticks \ {<<u, g>>}
        /\ UNCHANGED <<live, gen, wire, opens, reused, settled>>
    BY <1>6 DEF Tick
  <2>3. \A v \in (S \cap holds) \ reused : settled'[v] = Relays
    <3> SUFFICES ASSUME NEW v \in (S \cap holds) \ reused PROVE settled'[v] = Relays
      OBVIOUS
    <3>1. v = u /\ u \in holds \ reused
      OBVIOUS
    <3>2. \A t \in ticks : t[1] \in holds \ reused => pending[t[1]] = {}
      OBVIOUS
    <3>3. pending[u] = {}
      BY <2>2, <3>1, <3>2, Zenon
    <3>4. Relays \ settled[u] \subseteq pending[u] /\ settled[u] \subseteq Relays
      BY <3>1 DEF Safe, TypeOK
    <3>5. QED
      BY <2>2, <3>1, <3>3, <3>4
  <2> HIDE DEF S
  <2>4. holds' = holds \ S /\ \A v \in holds' : pending'[v] = pending[v]
    BY <2>1, FireTyped
  <2>5. EoseHonest'
    BY <2>1, <2>2, <2>3, FireHonest
  <2>6. QED
    BY <2>2, <2>4, <2>5
<1>7. ASSUME NEW r \in Relays, RelayUp(r) PROVE Honest'
  BY <1>7 DEF RelayUp, EoseHonest
<1>8. ASSUME NEW r \in Relays, NEW state \in {"down", "error", "rejected"},
             RelayLeaves(r, state)
      PROVE  Honest'
  <2> DEFINE S == CompletedWithout(r)
  <2> DEFINE p == DropFromPending(r)
  <2>1. p \in [UpIds -> SUBSET Relays] /\ FireEose(S, p)
    BY <1>8 DEF Safe, TypeOK, RelayLeaves, DropFromPending
  <2>2. /\ wire' \subseteq wire
        /\ settled' = [u \in UpIds |-> settled[u] \cup {r}]
        /\ UNCHANGED <<live, gen, ticks, opens, reused>>
    BY <1>8 DEF RelayLeaves
  <2>3. holds \subseteq UpIds /\ settled \in [UpIds -> SUBSET Relays]
    BY DEF Safe, TypeOK
  <2>4. \A u \in (S \cap holds) \ reused : settled'[u] = Relays
    BY <2>2, <2>3 DEF CompletedWithout
  <2>5. \A u \in holds : p[u] = pending[u] \ {r}
    BY <2>3 DEF DropFromPending
  <2> HIDE DEF S, p
  <2>6. holds' = holds \ S /\ \A v \in holds' : pending'[v] = p[v]
    BY <2>1, FireTyped
  <2>7. EoseHonest'
    BY <2>1, <2>2, <2>4, FireHonest
  <2>8. \A u \in (holds \ reused)' : Relays \ settled'[u] \subseteq pending'[u]
    BY <2>2, <2>3, <2>5, <2>6
  <2>9. \A t \in ticks' : t[1] \in (holds \ reused)' => pending'[t[1]] = {}
    BY <2>2, <2>5, <2>6
  <2>10. QED
    BY <2>2, <2>6, <2>7, <2>8, <2>9
<1>9. ASSUME NEW r \in Relays, RecoveryTimer(r) PROVE Honest'
  BY <1>9 DEF RecoveryTimer, EoseHonest
<1>10. ASSUME NEW r \in Relays, NEW u \in UpIds, RelaySendsEose(r, u) PROVE Honest'
  BY <1>10 DEF RelaySendsEose, EoseHonest
<1>11. ASSUME NEW r \in Relays, NEW u \in UpIds, NEW g \in 1..MaxOpens, RelayEose(r, u, g)
       PROVE  Honest'
  <2> DEFINE left == [pending EXCEPT ![u] = @ \ {r}]
  <2> DEFINE S == IF Complete(left[u]) THEN {u} ELSE {}
  <2>1. /\ <<r, u, g>> \in wire /\ wire' \subseteq wire
        /\ settled' = IF g = gen[u] THEN [settled EXCEPT ![u] = @ \cup {r}] ELSE settled
        /\ UNCHANGED <<live, gen, ticks, opens, reused>>
    BY <1>11 DEF RelayEose
  <2>2. u \notin reused => settled' = [settled EXCEPT ![u] = @ \cup {r}]
    BY <2>1
  <2>3. /\ left \in [UpIds -> SUBSET Relays] /\ settled \in [UpIds -> SUBSET Relays]
        /\ holds \subseteq UpIds
        /\ pending \in [UpIds -> SUBSET Relays]
    BY DEF Safe, TypeOK
  <2>4. left[u] = pending[u] \ {r} /\ \A v \in UpIds \ {u} : left[v] = pending[v]
    BY <2>3
  <2>5. \A v \in (S \cap holds) \ reused : settled'[v] = Relays
    <3> SUFFICES ASSUME NEW v \in (S \cap holds) \ reused PROVE settled'[v] = Relays
      OBVIOUS
    <3>1. v = u /\ left[u] = {}
      BY DEF Complete
    <3>2. Relays \ settled[u] \subseteq pending[u]
      BY <3>1
    <3>3. settled'[u] = settled[u] \cup {r} /\ settled[u] \subseteq Relays
      BY <2>2, <2>3, <3>1
    <3>4. pending[u] \subseteq {r}
      BY <2>4, <3>1
    <3>5. QED
      BY <3>1, <3>2, <3>3, <3>4
  <2>6. \/ FireEose(S, left)
        \/ UNCHANGED <<holds, pending, fired>> /\ u \notin holds
    BY <1>11 DEF RelayEose
  <2>7. \A v \in UpIds : settled[v] \subseteq settled'[v]
    BY <2>1, <2>3
  <2> HIDE DEF S, left
  <2>8. EoseHonest'
    <3>1. CASE FireEose(S, left)
      BY <2>1, <2>3, <2>5, <2>7, <3>1, FireHonest
    <3>2. CASE UNCHANGED <<holds, pending, fired>>
      BY <2>1, <2>3, <2>7, <3>2 DEF EoseHonest, Safe, TypeOK
    <3>3. QED
      BY <2>6, <3>1, <3>2
  <2>9. /\ holds' \subseteq holds
        /\ \A v \in holds' : pending'[v] = left[v] \/ (v # u /\ pending'[v] = pending[v])
    <3>1. CASE FireEose(S, left)
      BY <2>3, <3>1, FireTyped
    <3>2. QED
      BY <2>6, <3>1
  <2>10. \A v \in (holds \ reused)' : Relays \ settled'[v] \subseteq pending'[v]
    BY <2>1, <2>2, <2>3, <2>4, <2>9
  <2>11. \A t \in ticks' : t[1] \in (holds \ reused)' => pending'[t[1]] = {}
    BY <2>1, <2>3, <2>4, <2>9
  <2>12. QED
    BY <2>1, <2>8, <2>9, <2>10, <2>11
<1>12. CASE UNCHANGED vars
  BY <1>12 DEF vars, EoseHonest
<1>13. QED
  BY <1>1, <1>2, <1>3, <1>4, <1>5, <1>6, <1>7, <1>8, <1>9, <1>10, <1>11, <1>12 DEF Next

(* onEose is honest for every id that is opened once, as the coordinator's *)
(* are: every relay connected at openSubscription time has       *)
(* answered this opening or has gone away (handleRelayEose, fireEose).     *)
THEOREM PoolEoseHonest == Spec => []EoseHonest
<1>1. Init => Safe /\ Honest
  BY InitSafe, InitHonest
<1>2. Safe /\ Honest /\ [Next]_vars => (Safe /\ Honest)'
  BY NextSafe, NextHonest
<1>3. Safe /\ Honest => EoseHonest
  BY DEF Honest
<1>4. QED
  BY <1>1, <1>2, <1>3, PTL DEF Spec

-----------------------------------------------------------------------------
(* Firing is the promised step, or nothing at all.                         *)
LEMMA FireImplements ==
  ASSUME Safe, NEW S, NEW p, FireEose(S, p), UNCHANGED <<stopped, live>>
  PROVE  \/ \E T \in SUBSET UpIds : Promise!PoolFire(T)
         \/ UNCHANGED Promise!poolVars
<1> DEFINE T == S \cap holds
<1>1. /\ T \in SUBSET UpIds /\ T \subseteq holds
      /\ holds' = holds \ T
      /\ fired' = [u \in UpIds |-> IF u \in T THEN fired[u] + 1 ELSE fired[u]]
      /\ fired \in [UpIds -> {0, 1}]
  BY DEF Safe, TypeOK, FireEose, Forget
<1> HIDE DEF T
<1>2. CASE T = {}
  <2>1. holds' = holds /\ fired' = fired
    BY <1>1, <1>2
  <2>2. QED
    BY <2>1 DEF Promise!poolVars
<1>3. CASE T # {}
  <2>1. Promise!PoolFire(T)
    BY <1>1, <1>3 DEF Promise!PoolFire
  <2>2. QED
    BY <1>1, <2>1
<1>4. QED
  BY <1>2, <1>3

(* Every step is a step of the interface or none of its business.          *)
LEMMA StepImplements ==
  ASSUME Safe, [Next]_vars
  PROVE  [Promise!PoolNext]_(Promise!poolVars)
<1> USE DEF Promise!PoolNext
<1>1. CASE Start
  BY <1>1 DEF Start, Promise!PoolStart
<1>2. CASE Stop
  BY <1>2 DEF Stop, Promise!PoolStop
<1>3. CASE Publish
  BY <1>3 DEF Publish, Promise!poolVars
<1>4. ASSUME NEW u \in UpIds, NEW hasFilters \in BOOLEAN, OpenSubscription(u, hasFilters)
      PROVE  Promise!PoolNext
  <2>1. Promise!PoolOpen(u, {}, hasFilters)
    BY <1>4 DEF OpenSubscription, MayConnect, Promise!PoolOpen
  <2>2. {} \in SUBSET UpIds
    OBVIOUS
  <2>3. QED
    BY <2>1, <2>2
<1>5. ASSUME NEW u \in UpIds, CloseSubscription(u) PROVE Promise!PoolNext
  <2>1. Promise!PoolClose({u})
    BY <1>5 DEF CloseSubscription, Promise!PoolClose
  <2>2. {u} \in SUBSET UpIds
    OBVIOUS
  <2>3. QED
    BY <2>1, <2>2
<1>6. ASSUME NEW u \in UpIds, NEW g \in 1..MaxOpens, Tick(u, g)
      PROVE  [Promise!PoolNext]_(Promise!poolVars)
  BY <1>6, FireImplements DEF Tick
<1>7. ASSUME NEW r \in Relays, RelayUp(r) PROVE UNCHANGED Promise!poolVars
  BY <1>7 DEF RelayUp, Promise!poolVars
<1>8. ASSUME NEW r \in Relays, NEW state, RelayLeaves(r, state)
      PROVE  [Promise!PoolNext]_(Promise!poolVars)
  BY <1>8, FireImplements DEF RelayLeaves
<1>9. ASSUME NEW r \in Relays, RecoveryTimer(r) PROVE UNCHANGED Promise!poolVars
  BY <1>9 DEF RecoveryTimer, Promise!poolVars
<1>10. ASSUME NEW r \in Relays, NEW u \in UpIds, RelaySendsEose(r, u)
       PROVE  UNCHANGED Promise!poolVars
  BY <1>10 DEF RelaySendsEose, Promise!poolVars
<1>11. ASSUME NEW r \in Relays, NEW u \in UpIds, NEW g \in 1..MaxOpens, RelayEose(r, u, g)
       PROVE  [Promise!PoolNext]_(Promise!poolVars)
  <2> DEFINE left == [pending EXCEPT ![u] = @ \ {r}]
  <2> DEFINE S == IF Complete(left[u]) THEN {u} ELSE {}
  <2>1. UNCHANGED <<stopped, live>>
    BY <1>11 DEF RelayEose
  <2>2. FireEose(S, left) \/ UNCHANGED <<holds, fired>>
    BY <1>11 DEF RelayEose
  <2> HIDE DEF S, left
  <2>3. CASE FireEose(S, left)
    BY <2>1, <2>3, FireImplements
  <2>4. CASE UNCHANGED <<holds, fired>>
    BY <2>1, <2>4 DEF Promise!poolVars
  <2>5. QED
    BY <2>2, <2>3, <2>4
<1>12. CASE UNCHANGED vars
  BY <1>12 DEF vars, Promise!poolVars
<1>13. QED
  BY <1>1, <1>2, <1>3, <1>4, <1>5, <1>6, <1>7, <1>8, <1>9, <1>10, <1>11, <1>12 DEF Next

(* The rx-nostr pool implements the UpstreamPool interface the coordinator *)
(* is written against, for any relays and any order of connections.        *)
THEOREM PoolImplementsPromise == Spec => ImplementsPromise
<1>1. Init => Promise!PoolInit
  BY DEF Init, Promise!PoolInit
<1>2. Safe /\ [Next]_vars => [Promise!PoolNext]_(Promise!poolVars)
  BY StepImplements
<1>3. QED
  BY <1>1, <1>2, SafeAlways, PTL DEF Spec, ImplementsPromise, Promise!PoolSpec

(* Lost relays are re-armed, and a stopped pool stays silent.              *)
THEOREM PoolLinksTended == Spec => []LinksTended
BY PoolRearmsErrors, PoolStopsQuietly, PTL DEF LinksTended
=============================================================================
