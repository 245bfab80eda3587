-------------------------- MODULE UpstreamRelayPool --------------------------
(***************************************************************************)
(* packages/cache-relay/src/upstream/upstream-relay-pool.ts                *)
(*                                                                         *)
(* The pool opens every upstream subscription on all relays through one    *)
(* rx-nostr client and folds the relays' EOSEs into one EOSE per           *)
(* subscription.  JavaScript runs each method and callback to completion,  *)
(* so each is one action; what interleaves is their order: method calls of *)
(* the coordinator, connection state packets, EOSE messages still on their *)
(* way, microtasks and recovery timers.                                    *)
(*                                                                         *)
(* rx-nostr and the relays are external: `link` is the connection state    *)
(* rx-nostr reports, `wire` the EOSE messages relays have sent.            *)
(*                                                                         *)
(* A definition with the suffix _bug is a defect of the one after it that  *)
(* the properties must notice; no specification uses it.                   *)
(***************************************************************************)
EXTENDS Naturals, FiniteSets

CONSTANTS
  Relays,      \* the configured urls, de-duplicated and capped by the constructor
  UpIds,       \* upstream subscription ids
  MaxOpens,    \* bound on the calls of openSubscription
  MaxDrops     \* bound on the times relays lose their connection

ASSUME PoolAssumption ==
  /\ MaxOpens \in Nat
  /\ MaxDrops \in Nat

VARIABLES
  stopped,     \* set by stop(), cleared by start()
  client,      \* rxNostr has been created
  link,        \* [Relays -> LinkStates], as getAllRelayStatus() reports it
  live,        \* ids in `subscriptions`: events flow and the relays hold the REQ
  pending,     \* pendingEose: [UpIds -> the relays still owing an EOSE]
  holds,       \* ids that are keys of pendingEose
  gen,         \* identity of the Set stored under an id: the opening that made it
  ticks,       \* queued microtasks <<id, identity of the Set they captured>>
  recovery,    \* relays with a recovery timer
  wire,        \* EOSE messages in flight: <<relay, id, opening they answer>>
  opens,       \* number of openings so far
  drops,       \* number of lost connections so far
  reused,      \* history: ids opened more than once; the coordinator's never are
  fired,       \* history: aggregated EOSEs since the id was last opened
  settled      \* history: relays that answered this opening or went away during it

vars == <<stopped, client, link, live, pending, holds, gen, ticks, recovery,
          wire, opens, drops, reused, fired, settled>>

(* "down" stands for every state in which rx-nostr is still trying.        *)
LinkStates == {"off", "down", "connected", "error", "rejected"}

Connected == {r \in Relays : link[r] = "connected"}

Init ==
  /\ stopped = FALSE
  /\ client = FALSE
  /\ link = [r \in Relays |-> "off"]
  /\ live = {}
  /\ pending = [u \in UpIds |-> {}]
  /\ holds = {}
  /\ gen = [u \in UpIds |-> 0]
  /\ ticks = {}
  /\ recovery = {}
  /\ wire = {}
  /\ opens = 0
  /\ drops = 0
  /\ reused = {}
  /\ fired = [u \in UpIds |-> 0]
  /\ settled = [u \in UpIds |-> {}]

-----------------------------------------------------------------------------
(* connect(): create the client on first use; a new client starts          *)
(* connecting to every relay.                                              *)
Connect ==
  IF client
    THEN UNCHANGED <<client, link>>
    ELSE /\ client' = TRUE
         /\ link' = [r \in Relays |-> "down"]

Start ==
  /\ stopped' = FALSE
  /\ Connect
  /\ UNCHANGED <<live, pending, holds, gen, ticks, recovery, wire, opens,
                 drops, reused, fired, settled>>

(* stop(): forget timers, subscriptions and debts, then dispose of the     *)
(* client with the state streams already detached.  Sockets are gone, and  *)
(* with them whatever was on the wire.                                     *)
Stop ==
  /\ stopped' = TRUE
  /\ client' = FALSE
  /\ link' = [r \in Relays |-> "off"]
  /\ live' = {}
  /\ pending' = [u \in UpIds |-> {}]
  /\ holds' = {}
  /\ recovery' = {}
  /\ wire' = {}
  /\ UNCHANGED <<gen, ticks, opens, drops, reused, fired, settled>>

(* connect() answers undefined once the pool is stopped.                   *)
MayConnect == ~stopped

(* publish(): nothing waits for it; its one effect here is that it may be  *)
(* the first use of the client.                                            *)
Publish ==
  /\ MayConnect
  /\ Connect
  /\ UNCHANGED <<stopped, live, pending, holds, gen, ticks, recovery, wire,
                 opens, drops, reused, fired, settled>>

(* An empty snapshot is answered by a microtask: no relay is up, or the    *)
(* filter list is empty and no REQ goes out.                               *)
NobodyWillAnswer_bug(snapshot, hasFilters) == ~hasFilters
NobodyWillAnswer(snapshot, hasFilters) == snapshot = {}

(* openSubscription(): replace, snapshot the connected relays, and queue a *)
(* microtask when nobody will ever answer.                                 *)
OpenSubscription(u, hasFilters) ==
  /\ opens < MaxOpens
  /\ MayConnect
  /\ Connect
  /\ LET snapshot == IF hasFilters THEN Connected ELSE {}
         id == opens + 1
     IN /\ opens' = id
        /\ gen' = [gen EXCEPT ![u] = id]
        /\ pending' = [pending EXCEPT ![u] = snapshot]
        /\ holds' = holds \cup {u}
        /\ live' = IF hasFilters THEN live \cup {u} ELSE live \ {u}
        /\ ticks' = IF NobodyWillAnswer(snapshot, hasFilters)
                      THEN ticks \cup {<<u, id>>}
                      ELSE ticks
        /\ settled' = [settled EXCEPT ![u] = Relays \ snapshot]
  /\ reused' = IF gen[u] = 0 THEN reused ELSE reused \cup {u}
  /\ fired' = [fired EXCEPT ![u] = 0]
  /\ UNCHANGED <<stopped, recovery, wire, drops>>

CloseSubscription(u) ==
  /\ pending' = [pending EXCEPT ![u] = {}]
  /\ holds' = holds \ {u}
  /\ live' = live \ {u}
  /\ UNCHANGED <<stopped, client, link, gen, ticks, recovery, wire, opens,
                 drops, reused, fired, settled>>

Forget_bug(S) == holds
Forget(S) == holds \ S

(* fireEose() for every id of S that is still a key of pendingEose; `p` is *)
(* pendingEose after the deletions that led here.                          *)
FireEose(S, p) ==
  /\ holds' = Forget(S)
  /\ pending' = [u \in UpIds |-> IF u \in S THEN {} ELSE p[u]]
  /\ fired' = [u \in UpIds |-> IF u \in S \cap holds THEN fired[u] + 1 ELSE fired[u]]

(* The microtask fires only for the very Set it captured.                  *)
TickFires(u, g) == u \in holds /\ gen[u] = g

Tick(u, g) ==
  /\ <<u, g>> \in ticks
  /\ ticks' = ticks \ {<<u, g>>}
  /\ FireEose(IF TickFires(u, g) THEN {u} ELSE {}, pending)
  /\ UNCHANGED <<stopped, client, link, live, gen, recovery, wire, opens,
                 drops, reused, settled>>

-----------------------------------------------------------------------------
(* A relay (re)connects: handleConnectionState returns at once.  rx-nostr  *)
(* re-issues the open REQs, but the aggregate no longer counts this relay. *)
RelayUp(r) ==
  /\ client
  /\ link[r] = "down"
  /\ link' = [link EXCEPT ![r] = "connected"]
  /\ UNCHANGED <<stopped, client, live, pending, holds, gen, ticks, recovery,
                 wire, opens, drops, reused, fired, settled>>

(* The aggregates that have nobody left to wait for once r is taken out.   *)
CompletedWithout(r) == {u \in holds : r \in pending[u] /\ pending[u] = {r}}

DropFromPending_bug(r) == pending
DropFromPending(r) == [u \in UpIds |-> pending[u] \ {r}]

(* An exhausted relay gets a timer; "rejected" is left alone on purpose.   *)
RecoveryAfter_bug(r, state) == recovery
RecoveryAfter(r, state) == IF state = "error" THEN recovery \cup {r} ELSE recovery

(* A relay leaves "connected" or moves between the other states, and       *)
(* handleConnectionState sees the packet.  Messages on that socket are     *)
(* lost.                                                                   *)
RelayLeaves(r, state) ==
  /\ client
  /\ drops < MaxDrops
  /\ \/ link[r] = "connected" /\ state \in {"down", "rejected"}
     \/ link[r] = "down" /\ state = "error"
  /\ drops' = drops + 1
  /\ link' = [link EXCEPT ![r] = state]
  /\ FireEose(CompletedWithout(r), DropFromPending(r))
  /\ recovery' = RecoveryAfter(r, state)
  /\ wire' = {m \in wire : m[1] # r}
  /\ settled' = [u \in UpIds |-> settled[u] \cup {r}]
  /\ UNCHANGED <<stopped, client, live, gen, ticks, opens, reused>>

(* The recovery timer asks rx-nostr to reconnect.                          *)
RecoveryTimer(r) ==
  /\ r \in recovery
  /\ recovery' = recovery \ {r}
  /\ link' = [link EXCEPT ![r] = "down"]
  /\ UNCHANGED <<stopped, client, live, pending, holds, gen, ticks, wire,
                 opens, drops, reused, fired, settled>>

(* A connected relay that holds the REQ reports the end of its stored      *)
(* events; the message is on its way until RelayEose handles it.  A relay  *)
(* that connected later, or came back, answers the re-issued REQ as well.  *)
RelaySendsEose(r, u) ==
  /\ link[r] = "connected"
  /\ u \in live
  /\ <<r, u, gen[u]>> \notin wire
  /\ wire' = wire \cup {<<r, u, gen[u]>>}
  /\ UNCHANGED <<stopped, client, link, live, pending, holds, gen, ticks,
                 recovery, opens, drops, reused, fired, settled>>

Complete_bug(left) == TRUE
Complete(left) == left = {}

(* handleRelayEose().  The wire id names the subscription, not the opening.*)
RelayEose(r, u, g) ==
  /\ <<r, u, g>> \in wire
  /\ wire' = wire \ {<<r, u, g>>}
  /\ LET left == [pending EXCEPT ![u] = @ \ {r}]
     IN IF u \in holds
          THEN FireEose(IF Complete(left[u]) THEN {u} ELSE {}, left)
          ELSE UNCHANGED <<holds, pending, fired>>
  /\ settled' = IF g = gen[u] THEN [settled EXCEPT ![u] = @ \cup {r}] ELSE settled
  /\ UNCHANGED <<stopped, client, link, live, gen, ticks, recovery, opens, drops, reused>>

-----------------------------------------------------------------------------
Next ==
  \/ Start \/ Stop \/ Publish
  \/ \E u \in UpIds :
       \/ \E hasFilters \in BOOLEAN : OpenSubscription(u, hasFilters)
       \/ CloseSubscription(u)
       \/ \E g \in 1..MaxOpens : Tick(u, g)
  \/ \E r \in Relays :
       \/ RelayUp(r)
       \/ \E state \in {"down", "error", "rejected"} : RelayLeaves(r, state)
       \/ RecoveryTimer(r)
       \/ \E u \in UpIds :
            \/ RelaySendsEose(r, u)
            \/ \E g \in 1..MaxOpens : RelayEose(r, u, g)

(* Fairness: queued microtasks and armed timers run.  Nothing is assumed   *)
(* of the relays or of the callers.                                        *)
Fairness ==
  /\ \A u \in UpIds : \A g \in 1..MaxOpens : WF_vars(Tick(u, g))
  /\ \A r \in Relays : WF_vars(RecoveryTimer(r))

Spec == Init /\ [][Next]_vars
FairSpec == Spec /\ Fairness

-----------------------------------------------------------------------------
TypeOK ==
  /\ stopped \in BOOLEAN /\ client \in BOOLEAN
  /\ link \in [Relays -> LinkStates]
  /\ live \subseteq UpIds
  /\ pending \in [UpIds -> SUBSET Relays]
  /\ holds \subseteq UpIds
  /\ gen \in [UpIds -> Nat]
  /\ ticks \subseteq UpIds \X Nat
  /\ recovery \subseteq Relays
  /\ wire \subseteq Relays \X UpIds \X Nat
  /\ opens \in Nat /\ drops \in Nat
  /\ reused \subseteq UpIds
  /\ fired \in [UpIds -> {0, 1}]
  /\ settled \in [UpIds -> SUBSET Relays]

(* The aggregate only waits for relays that are up: whichever way a relay  *)
(* went away, it left every pending set, so it cannot stall a client's     *)
(* EOSE until the coordinator's timeout (handleConnectionState);           *)
(* and a subscription that waits for nobody has a microtask queued that    *)
(* will recognise its Set, also when its id was closed and reused in the   *)
(* same tick (the identity comparison in openSubscription).                *)
PendingAreConnected ==
  \A u \in holds : \A r \in pending[u] : link[r] = "connected"
NobodyPendingIsQueued ==
  \A u \in holds : pending[u] = {} => <<u, gen[u]>> \in ticks
NobodyWaitsInVain == PendingAreConnected /\ NobodyPendingIsQueued

(* onEose is honest: when the aggregate has fired, every relay that was    *)
(* connected at openSubscription time has answered that very opening or    *)
(* has gone away since.  A reused id may be answered by a message meant    *)
(* for its former use; the coordinator numbers its ids.                    *)
EoseHonest ==
  \A u \in UpIds \ reused : fired[u] > 0 => settled[u] = Relays

(* A relay rx-nostr has given up on always has a recovery timer: losing an *)
(* upstream is never permanent.                                            *)
ErrorIsRearmed ==
  \A r \in Relays : link[r] = "error" => r \in recovery

(* "or immediately when no relay was connected": a subscription nobody     *)
(* will answer does not stay without its EOSE.                             *)
NobodyPendingFires ==
  \A u \in UpIds :
    (u \in holds /\ pending[u] = {}) ~> ~(u \in holds /\ pending[u] = {})

(* A stopped pool stays silent: no late publish, REQ, timer or callback    *)
(* brings a connection or a debt back before the next start().             *)
StoppedIsQuiet ==
  stopped => /\ ~client
             /\ live = {} /\ holds = {} /\ recovery = {} /\ wire = {}

(* Connections are tended exactly while the pool runs: a lost relay comes  *)
(* back before stop(), and nothing comes back after it.                    *)
LinksTended == ErrorIsRearmed /\ StoppedIsQuiet

(* The pool implements the promise the coordinator relies on.              *)
Promise == INSTANCE UpstreamPool WITH
             poolStopped <- stopped, open <- live, owing <- holds
ImplementsPromise == Promise!PoolSpec
=============================================================================
