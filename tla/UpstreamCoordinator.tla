------------------------- MODULE UpstreamCoordinator -------------------------
(***************************************************************************)
(* packages/cache-relay/src/upstream/upstream-coordinator.ts               *)
(*                                                                         *)
(* Read-through: one upstream subscription per client subscription, with   *)
(* de-duplication, backfill serialised per subscription and a held-back    *)
(* EOSE.  The pool is the abstract one of UpstreamPool.  Every method and  *)
(* every callback runs to completion; the only await is `deps.ingest`, so  *)
(* an item of an ingest chain is two steps, IngestStart and IngestDone.    *)
(*                                                                         *)
(* A SubState record outlives its entry in `subs` (closures on the ingest  *)
(* chain keep it), so its fields are functions over all upstream ids.      *)
(*                                                                         *)
(* A definition with the suffix _bug is a defect of the one after it that  *)
(* the properties must notice; no specification uses it.                   *)
(***************************************************************************)
EXTENDS UpstreamPool, Sequences, SequencesExt

CONSTANTS
  Clients,       \* transport clients, and the in-process client
  SubscriptionIds,
  Events,
  Eose,          \* the end-of-stored-events message, not an event
  MaxSentIds,    \* maxSentIdsPerSub
  MaxUp,         \* bound on the upstream subscriptions ever opened
  MaxQueue,      \* bound on the length of an ingest chain
  MaxOut         \* bound on the messages one upstream subscription delivers

Keys == Clients \X SubscriptionIds

ASSUME CoordinatorAssumption ==
  /\ UpIds = 1..MaxUp
  /\ MaxUp \in Nat
  /\ MaxSentIds \in Nat \ {0}
  /\ MaxQueue \in Nat
  /\ MaxOut \in Nat
  /\ Eose \notin Events

VARIABLES
  sequence,      \* upstreamSubSequence: how many ids were handed out
  subs,          \* ids in the map `subs`
  byKey,         \* byClientSub: [Keys -> UpIds \cup {0}], 0 when absent
  owner,         \* the client subscription a SubState was made for
  sentIds,       \* the dedup set, in insertion order
  eoseSent,      \* SubStates with eoseSent
  timer,         \* SubStates with an armed eoseTimer
  closed,        \* SubStates with closed
  chain,         \* ingestChain: what is still to run, in order
  ingesting,     \* SubStates whose chain is awaiting deps.ingest
  out,           \* history: what was delivered for this subscription
  had            \* history: ids its client had before the ingest of that id began,
                 \* and that the dedup set was not made to forget

stateVars == <<owner, sentIds, eoseSent, chain, ingesting, out, had>>
mapVars == <<sequence, subs, byKey, timer, closed>>
coordVars == <<mapVars, stateVars, poolVars>>

NoUp == 0
NoKey == <<>>

CoordInit ==
  /\ PoolInit
  /\ sequence = 0
  /\ subs = {}
  /\ byKey = [k \in Keys |-> NoUp]
  /\ owner = [u \in UpIds |-> NoKey]
  /\ sentIds = [u \in UpIds |-> <<>>]
  /\ eoseSent = {}
  /\ timer = {}
  /\ closed = {}
  /\ chain = [u \in UpIds |-> <<>>]
  /\ ingesting = {}
  /\ out = [u \in UpIds |-> <<>>]
  /\ had = [u \in UpIds |-> {}]

(* Chain items: an upstream event, marked with whether it came before the  *)
(* EOSE was flushed (history), or the flushed EOSE itself.                 *)
Item(e, early) == [what |-> e, early |-> early]
EoseItem == [what |-> Eose, early |-> FALSE]

-----------------------------------------------------------------------------
(* addSentId(): a JS Set keeps the position of an id it already has, and   *)
(* one overflow drops one id, the oldest.                                  *)
AddSentId_bug(ids, e) == IF e \in ToSet(ids) THEN ids ELSE Append(ids, e)
AddSentId(ids, e) ==
  LET added == IF e \in ToSet(ids) THEN ids ELSE Append(ids, e)
  IN IF Len(added) > MaxSentIds THEN Tail(added) ELSE added

\* The id an insertion makes the dedup set forget, if any.
Forgotten(ids, e) == (ToSet(ids) \cup {e}) \ ToSet(AddSentId(ids, e))

Upstreams(K) == {byKey[k] : k \in K} \ {NoUp}

(* closeForSubscription() for every key of K: unmap, mark the state closed *)
(* and disarm its timer.  Closing on the pool is left to the caller.       *)
ClosedAfter(U) == closed \cup (U \cap subs)
TimersAfter(U) == timer \ U

Unmap(K) ==
  LET U == Upstreams(K)
  IN /\ byKey' = [k \in Keys |-> IF k \in K THEN NoUp ELSE byKey[k]]
     /\ closed' = ClosedAfter(U)
     /\ timer' = TimersAfter(U)
     /\ subs' = subs \ U
     /\ PoolClose(U)
     /\ UNCHANGED <<sequence, stateVars>>

CloseForSubscription(k) == Unmap({k})
CloseAllForClient(c) == Unmap({k \in Keys : k[1] = c})

ArmedFor_bug(u) == {}
ArmedFor(u) == {u}

(* openForSubscription(): replace the key's subscription, seed the dedup   *)
(* set with what the client already got, arm the timer, open the pool's.   *)
Replaced_bug(k) == {}
Replaced(k) == Upstreams({k})

OpenForSubscription(k, seed) ==
  LET u == sequence + 1
      old == Replaced(k)
  IN /\ u \in UpIds
     /\ sequence' = u
     /\ byKey' = [byKey EXCEPT ![k] = u]
     /\ closed' = ClosedAfter(old)
     /\ timer' = TimersAfter(old) \cup ArmedFor(u)
     /\ subs' = (subs \ old) \cup {u}
     /\ owner' = [owner EXCEPT ![u] = k]
     /\ sentIds' = [sentIds EXCEPT ![u] = seed]
     /\ had' = [had EXCEPT ![u] = ToSet(seed)]
     /\ PoolOpen(u, old, TRUE)
     /\ UNCHANGED <<eoseSent, chain, ingesting, out>>

(* markDelivered() for the keys of K, which got e some other way.          *)
Marked(K) == Upstreams(K) \cap subs

IsIngesting(u, e) == u \in ingesting /\ Head(chain[u]).what = e

MarkDelivered(K, e) ==
  /\ sentIds' = [u \in UpIds |-> IF u \in Marked(K) THEN AddSentId(sentIds[u], e)
                                                    ELSE sentIds[u]]
  /\ had' = [u \in UpIds |-> IF u \notin Upstreams(K) THEN had[u]
                             ELSE (had[u] \cup (IF IsIngesting(u, e) THEN {} ELSE {e}))
                                    \ Forgotten(sentIds[u], e)]
  /\ UNCHANGED <<mapVars, poolVars, owner, eoseSent, chain, ingesting, out>>

CoordStart ==
  /\ PoolStart
  /\ UNCHANGED <<mapVars, stateVars>>

(* stop(): every state is closed, every timer disarmed, the maps emptied.  *)
CoordStop ==
  /\ closed' = ClosedAfter(subs)
  /\ timer' = TimersAfter(subs)
  /\ subs' = {}
  /\ byKey' = [k \in Keys |-> NoUp]
  /\ PoolStop
  /\ UNCHANGED <<sequence, stateVars>>

-----------------------------------------------------------------------------
(* handleUpstreamEvent(): drop for an unknown subscription or a known id,  *)
(* otherwise queue.                                                        *)
IsDuplicate(u, e) == e \in ToSet(sentIds[u])

HandleUpstreamEvent(u, e) ==
  /\ u \in open \cap subs
  /\ ~IsDuplicate(u, e)
  /\ Len(chain[u]) < MaxQueue
  /\ Len(out[u]) < MaxOut
  /\ chain' = [chain EXCEPT ![u] = Append(@, Item(e, u \notin eoseSent))]
  /\ UNCHANGED <<mapVars, poolVars, owner, sentIds, eoseSent, ingesting, out, had>>

(* The head of a chain starts.  Closed meanwhile, or delivered meanwhile   *)
(* by another relay: the item is dropped.                                  *)
IngestSkipped(u) ==
  /\ chain[u] # <<>> /\ Head(chain[u]).what # Eose /\ u \notin ingesting
  /\ u \in closed \/ IsDuplicate(u, Head(chain[u]).what)
  /\ chain' = [chain EXCEPT ![u] = Tail(@)]
  /\ UNCHANGED <<mapVars, poolVars, owner, sentIds, eoseSent, ingesting, out, had>>

IngestStart(u) ==
  /\ chain[u] # <<>> /\ Head(chain[u]).what # Eose /\ u \notin ingesting
  /\ u \notin closed /\ ~IsDuplicate(u, Head(chain[u]).what)
  /\ ingesting' = ingesting \cup {u}
  /\ UNCHANGED <<mapVars, poolVars, owner, sentIds, eoseSent, chain, out, had>>

(* The ingest settles: rejected (or it threw), superseded by a newer       *)
(* version in the cache, or accepted.  Only an accepted event of a         *)
(* subscription that is still open reaches the client.                     *)
IngestResults == {"rejected", "superseded", "accepted"}

Heeded_bug(u, result) == result # "rejected"
Heeded(u, result) == result # "rejected" /\ u \notin closed

IngestDone(u, result) ==
  LET e == Head(chain[u]).what
  IN /\ u \in ingesting
     /\ ingesting' = ingesting \ {u}
     /\ chain' = [chain EXCEPT ![u] = Tail(@)]
     /\ IF Heeded(u, result)
          THEN /\ sentIds' = [sentIds EXCEPT ![u] = AddSentId(@, e)]
               /\ IF result = "accepted"
                    THEN /\ out' = [out EXCEPT ![u] = Append(@, e)]
                         /\ had' = [had EXCEPT ![u] = (@ \cup {e}) \ Forgotten(sentIds[u], e)]
                    ELSE /\ had' = [had EXCEPT ![u] = @ \ Forgotten(sentIds[u], e)]
                         /\ UNCHANGED out
          ELSE UNCHANGED <<sentIds, out, had>>
     /\ UNCHANGED <<mapVars, poolVars, owner, eoseSent>>

(* flushEose() for the subscriptions of U: once each; the EOSE takes its   *)
(* place at the end of the chain as it stands.                             *)
ChainWithEose_bug(u) ==
  IF u \in ingesting THEN <<Head(chain[u]), EoseItem>> \o Tail(chain[u])
                     ELSE <<EoseItem>> \o chain[u]
ChainWithEose(u) == Append(chain[u], EoseItem)

AlreadyFlushed == eoseSent

FlushEose(U) ==
  LET F == (U \cap subs) \ AlreadyFlushed
  IN /\ eoseSent' = eoseSent \cup F
     /\ timer' = timer \ F
     /\ chain' = [u \in UpIds |-> IF u \in F THEN ChainWithEose(u) ELSE chain[u]]
     /\ UNCHANGED <<sequence, subs, byKey, closed, owner, sentIds, ingesting, out, had>>

(* The pool's aggregated EOSEs arrive; or the timer runs out first.        *)
HandleUpstreamEose(S) == PoolFire(S) /\ FlushEose(S)

EoseTimeout(u) ==
  /\ u \in timer
  /\ FlushEose({u})
  /\ UNCHANGED poolVars

(* The chain reaches the flushed EOSE.                                     *)
SendEose(u) ==
  /\ chain[u] # <<>> /\ Head(chain[u]).what = Eose /\ u \notin ingesting
  /\ chain' = [chain EXCEPT ![u] = Tail(@)]
  /\ out' = [out EXCEPT ![u] = IF u \in closed THEN @ ELSE Append(@, Eose)]
  /\ UNCHANGED <<mapVars, poolVars, owner, sentIds, eoseSent, ingesting, had>>

-----------------------------------------------------------------------------
(* The steps the coordinator takes by itself, and its fairness: microtasks *)
(* and armed timers run, and a storage write settles one way or another.   *)
ChainStep(u) ==
  \/ IngestSkipped(u)
  \/ IngestStart(u)
  \/ \E result \in IngestResults : IngestDone(u, result)
  \/ SendEose(u)

\* What upstream relays do, through the pool.
UpstreamStep ==
  \/ \E u \in UpIds, e \in Events : HandleUpstreamEvent(u, e)
  \/ \E S \in SUBSET UpIds : HandleUpstreamEose(S)

(* What a subscription is opened with: any ids, as long as they fit the    *)
(* dedup set (maxEventsPerRequest is smaller than maxSentIdsPerSub).       *)
Seeds == {seed \in UNION {[1..n -> Events] : n \in 0..MaxSentIds} : IsInjective(seed)}

CoordNext ==
  \/ \E k \in Keys :
       \/ \E seed \in Seeds : OpenForSubscription(k, seed)
       \/ CloseForSubscription(k)
       \/ \E e \in Events : MarkDelivered({k}, e)
  \/ \E c \in Clients : CloseAllForClient(c)
  \/ CoordStart
  \/ CoordStop
  \/ UpstreamStep
  \/ \E u \in UpIds : ChainStep(u) \/ EoseTimeout(u)

CoordFairness ==
  \A u \in UpIds : WF_coordVars(ChainStep(u)) /\ WF_coordVars(EoseTimeout(u))

CoordSpec == CoordInit /\ [][CoordNext]_coordVars
CoordFairSpec == CoordSpec /\ CoordFairness

-----------------------------------------------------------------------------
CoordStateOK ==
  /\ sequence \in 0..MaxUp
  /\ subs \subseteq 1..sequence
  /\ byKey \in [Keys -> UpIds \cup {NoUp}]
  /\ owner \in [UpIds -> Keys \cup {NoKey}]
  /\ sentIds \in [UpIds -> Seq(Events)]
  /\ eoseSent \subseteq UpIds /\ timer \subseteq UpIds
  /\ closed \subseteq UpIds
  /\ ingesting \subseteq {u \in UpIds : chain[u] # <<>> /\ Head(chain[u]).what # Eose}
  /\ chain \in [UpIds -> Seq([what : Events \cup {Eose}, early : BOOLEAN])]
  /\ out \in [UpIds -> Seq(Events \cup {Eose})]
  /\ had \in [UpIds -> SUBSET Events]
  /\ poolStopped \in BOOLEAN
  /\ open \subseteq UpIds /\ owing \subseteq UpIds
  /\ fired \in [UpIds -> Nat]

(* The dedup set stays within maxSentIdsPerSub, given that the seeds do:   *)
(* an insertion keeps to the bound, opening a subscription does not.       *)
CoordTypeOK == CoordStateOK /\ \A u \in UpIds : Len(sentIds[u]) <= MaxSentIds

(* Nothing leaks or lingers, whatever was overwritten, closed or           *)
(* disconnected: the two maps name each other and the pool holds no        *)
(* subscription (and no EOSE debt) the table has lost; a SubState that left*)
(* the map was marked closed, so that what is still queued on its chain    *)
(* notices; the EOSE timer is armed exactly while an open subscription     *)
(* still holds its client's EOSE.                                          *)
OneToOne ==
  /\ \A k \in Keys : byKey[k] # NoUp => byKey[k] \in subs /\ owner[byKey[k]] = k
  /\ \A u \in subs : byKey[owner[u]] = u
  /\ open \cup owing \subseteq subs
ClosedIffForgotten == closed = 1..sequence \ subs
TimerIffHeld == timer = subs \ eoseSent
NothingLeaks == OneToOne /\ ClosedIffForgotten /\ TimerIffHeld

(* After CLOSE, overwrite, disconnect or stop no message of the old        *)
(* subscription goes out, not even by an ingest that was in flight.        *)
ClosedIsSilent == [][\A u \in closed : out'[u] = out[u]]_coordVars

(* The client's EOSE goes out once, though both the aggregate and the      *)
(* timeout ask for it, and when it is out no event that arrived before     *)
(* upstream's EOSE is still waiting for its storage write.                 *)
EoseOnce == \A u \in UpIds : Cardinality({i \in DOMAIN out[u] : out[u][i] = Eose}) <= 1
EoseAfterBackfill ==
  \A u \in UpIds :
    Eose \in ToSet(out[u]) => \A i \in DOMAIN chain[u] : ~chain[u][i].early
EoseOnceAfterBackfill == EoseOnce /\ EoseAfterBackfill

(* De-duplication: an event the client had from the cache, from another    *)
(* relay or by a local broadcast before its ingest began is not delivered  *)
(* again, unless the dedup set was full and has forgotten it since.        *)
NoRedelivery ==
  [][\A u \in UpIds : \A e \in had[u] : out'[u] # Append(out[u], e)]_coordVars

(* What a client gets from upstream is news of a subscription it has:      *)
(* nothing after its end and nothing twice.                                *)
DeliversOnlyNews == ClosedIsSilent /\ NoRedelivery
=============================================================================
