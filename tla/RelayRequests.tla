---------------------------- MODULE RelayRequests ----------------------------
(***************************************************************************)
(* The relay's request handling: packages/cache-relay/src/core/            *)
(* message-handler.ts, subscription-manager.ts and the in-process API of   *)
(* nostr-cache-relay.ts, on top of the UpstreamCoordinator.                *)
(*                                                                         *)
(* The relay does not wait for one message before it takes the next:       *)
(* every REQ and every EVENT is a handler of its own, and handlers         *)
(* interleave wherever one awaits the storage.  A REQ awaits twice (read   *)
(* the cache, ask the freshness gate), an EVENT awaits its save and the    *)
(* eviction that follows it; the awaits are the phases of a request or a   *)
(* publication below.                                                      *)
(*                                                                         *)
(* Abstractions: a REQ has one filter, a filter is the set of events it    *)
(* matches, events are regular ones (EventIngest models the other kinds)   *)
(* and are never evicted, and the storage is a set.  A definition with the *)
(* suffix _bug is a defect of the one after it that the properties must    *)
(* notice; no specification uses it.                                       *)
(***************************************************************************)
EXTENDS UpstreamCoordinator

CONSTANTS
  Local,             \* LOCAL_CLIENT_ID, the in-process client
  Filters,
  Match,             \* [Filters -> SUBSET Events]
  IdFilters,         \* filters that list the ids of exactly their matches
  HasUpstream,       \* an upstream coordinator is configured
  HasFreshness,      \* a freshness gate is configured
  MaxSubscriptions,
  MaxReqs,           \* bound on the REQs handled
  MaxPubs            \* bound on the EVENTs handled

ASSUME RequestsAssumption ==
  /\ IsFiniteSet(Events)
  /\ Match \in [Filters -> SUBSET Events]
  /\ IdFilters \subseteq Filters
  /\ {HasUpstream, HasFreshness} \subseteq BOOLEAN
  /\ MaxSubscriptions \in Nat /\ MaxReqs \in Nat /\ MaxPubs \in Nat

ReqIds == 1..MaxReqs
PubIds == 1..MaxPubs
NoReq == 0

VARIABLES
  store,         \* the cache
  connected,     \* clients messages still reach
  subscriptions, \* [Keys -> the request whose filters are registered, or NoReq]
  clientSubs,    \* clientSubscriptions: [Clients -> SUBSET SubscriptionIds]
  req,           \* [ReqIds -> the state of its handler]
  pub,           \* [PubIds -> the state of its handler]
  rushed,        \* history: subscriptions their client used again while their
                 \* REQ was being handled
  opener,        \* history: [UpIds -> the request that opened it]
  got            \* history: [ReqIds -> what its subscriber was sent, in order]

tableVars == <<subscriptions, clientSubs>>
vars == <<coordVars, store, connected, tableVars, req, pub, rushed, opener, got>>

NewReq == [phase |-> "none", key |-> NoKey, filter |-> NoReq, sent |-> {},
            error |-> FALSE]
NewPub == [phase |-> "none", client |-> NoReq, event |-> NoReq, matches |-> {}]

Init ==
  /\ CoordInit
  /\ store \in SUBSET Events
  /\ connected = Clients
  /\ subscriptions = [k \in Keys |-> NoReq]
  /\ clientSubs = [c \in Clients |-> {}]
  /\ req = [r \in ReqIds |-> NewReq]
  /\ pub = [p \in PubIds |-> NewPub]
  /\ rushed = {}
  /\ opener = [u \in UpIds |-> NoReq]
  /\ got = [r \in ReqIds |-> <<>>]

\* Handlers are numbered in the order their messages arrive.
NextReq(r) == req[r].phase = "none" /\ \A q \in 1..(r - 1) : req[q].phase # "none"
NextPub(p) == pub[p].phase = "none" /\ \A q \in 1..(p - 1) : pub[q].phase # "none"

InFlight(r) == req[r].phase \in {"reading", "read", "narrowing"}
Busy(k) == \E r \in ReqIds : InFlight(r) /\ req[r].key = k
Rush(K) == rushed' = rushed \cup {k \in K : Busy(k)}

Registered(r) == req[r].key # NoKey /\ subscriptions[req[r].key] = r
Reachable(r) == req[r].key[1] \in connected

-----------------------------------------------------------------------------
(* SubscriptionManager.                                                    *)
ClientSubsWith(k) == [clientSubs EXCEPT ![k[1]] = @ \cup {k[2]}]

CreateSubscription(k, r) ==
  /\ subscriptions' = [subscriptions EXCEPT ![k] = r]
  /\ clientSubs' = ClientSubsWith(k)

ClientSubsWithout(k) == [clientSubs EXCEPT ![k[1]] = @ \ {k[2]}]

RemoveSubscription(k) ==
  /\ subscriptions' = [subscriptions EXCEPT ![k] = NoReq]
  /\ clientSubs' = ClientSubsWithout(k)

RemoveAllSubscriptions(c) ==
  /\ subscriptions' = [k \in Keys |-> IF k[1] = c THEN NoReq ELSE subscriptions[k]]
  /\ clientSubs' = [clientSubs EXCEPT ![c] = {}]

FindMatching_bug(e) ==
  {r \in ReqIds : Registered(r) /\ ~InFlight(r) /\ e \in Match[req[r].filter]}
FindMatching(e) ==
  {r \in ReqIds : Registered(r) /\ e \in Match[req[r].filter]}

-----------------------------------------------------------------------------
Reading(k, f) ==
  [phase |-> "reading", key |-> k, filter |-> f, sent |-> {}, error |-> FALSE]

(* handleReqMessage(), up to the read of the cache: the limit counts the   *)
(* client's subscriptions before this one, also when it replaces one.      *)
AtLimit_bug(c) == Cardinality(clientSubs[c]) > MaxSubscriptions
AtLimit(c) == Cardinality(clientSubs[c]) >= MaxSubscriptions

ReqRefused(r, k, f) ==
  /\ NextReq(r) /\ k[1] \in connected \ {Local}
  /\ AtLimit(k[1])
  /\ req' = [req EXCEPT ![r].phase = "refused"]
  /\ UNCHANGED <<coordVars, store, connected, tableVars, rushed, pub, opener, got>>

ClosedFirst_bug(k) == {}
ClosedFirst(k) == {k}

Req(r, k, f) ==
  /\ NextReq(r) /\ k[1] \in connected \ {Local}
  /\ ~AtLimit(k[1])
  /\ Rush({k})
  /\ Unmap(ClosedFirst(k))
  /\ CreateSubscription(k, r)
  /\ req' = [req EXCEPT ![r] = Reading(k, f)]
  /\ UNCHANGED <<store, connected, pub, opener, got>>

(* subscribe(), up to the read: no limit, and the old upstream             *)
(* subscription is not closed here.                                        *)
Subscribe(r, k, f) ==
  /\ NextReq(r) /\ k[1] = Local
  /\ Rush({k})
  /\ CreateSubscription(k, r)
  /\ req' = [req EXCEPT ![r] = Reading(k, f)]
  /\ UNCHANGED <<coordVars, store, connected, pub, opener, got>>

(* The storage reads the cache; the handler has not resumed yet.           *)
ReadCache(r) ==
  /\ req[r].phase = "reading"
  /\ req' = [req EXCEPT ![r].phase = "read", ![r].sent = Match[req[r].filter] \cap store]
  /\ UNCHANGED <<coordVars, store, connected, tableVars, rushed, pub, opener, got>>

(* The read fails.  A REQ ends with a NOTICE; subscribe() reports an error *)
(* and goes on with no events.                                             *)
ReadCacheFails(r) ==
  /\ req[r].phase = "reading"
  /\ req' = [req EXCEPT ![r].phase = IF req[r].key[1] = Local THEN "read" ELSE "failed",
                        ![r].error = TRUE]
  /\ UNCHANGED <<coordVars, store, connected, tableVars, rushed, pub, opener, got>>

(* Answer with EOSE at once, or hand the rest to the coordinator.          *)
SentIds_bug(r) == <<>>
SentIds(r) == SetToSeq(req[r].sent)

EndHere(r, messages) ==
  /\ got' = [got EXCEPT ![r] = IF Reachable(r) THEN @ \o messages \o <<Eose>> ELSE @]
  /\ UNCHANGED <<coordVars, opener>>

EoseWhenOpening_bug == <<Eose>>
EoseWhenOpening == <<>>

GoUpstream(r, messages) ==
  /\ OpenForSubscription(req[r].key, SentIds(r))
  /\ opener' = [opener EXCEPT ![sequence + 1] = r]
  /\ got' = [got EXCEPT ![r] = IF Reachable(r) THEN @ \o messages \o EoseWhenOpening ELSE @]

\* narrowFiltersByIdCoverage(): every listed id was delivered.
CoveredById(r) == req[r].filter \in IdFilters /\ Match[req[r].filter] \subseteq req[r].sent

(* The handler resumes with the events, sends them, and decides whether    *)
(* upstream has to be asked.                                               *)
Reply(r) ==
  LET cached == SetToSeq(req[r].sent)
  IN /\ req[r].phase = "read"
     /\ \/ /\ ~HasUpstream \/ CoveredById(r)
           /\ EndHere(r, cached)
           /\ req' = [req EXCEPT ![r].phase = "done"]
        \/ /\ HasUpstream /\ ~CoveredById(r) /\ ~HasFreshness
           /\ GoUpstream(r, cached)
           /\ req' = [req EXCEPT ![r].phase = "done"]
        \/ /\ HasUpstream /\ ~CoveredById(r) /\ HasFreshness
           /\ req' = [req EXCEPT ![r].phase = "narrowing"]
           /\ got' = [got EXCEPT ![r] = IF Reachable(r) THEN @ \o cached ELSE @]
           /\ UNCHANGED <<coordVars, opener>>
     /\ UNCHANGED <<store, connected, tableVars, rushed, pub>>

(* The freshness gate settles: the filter is fresh, or it is not.          *)
Narrowed(r) ==
  /\ req[r].phase = "narrowing"
  /\ req' = [req EXCEPT ![r].phase = "done"]
  /\ EndHere(r, <<>>) \/ GoUpstream(r, <<>>)
  /\ UNCHANGED <<store, connected, tableVars, rushed, pub>>

(* handleCloseMessage(), unsubscribe() and handleClientDisconnect().       *)
Close(k) ==
  /\ k[1] \in connected
  /\ Rush({k})
  /\ RemoveSubscription(k)
  /\ CloseForSubscription(k)
  /\ UNCHANGED <<store, connected, req, pub, opener, got>>

Disconnect(c) ==
  /\ c \in connected \ {Local}
  /\ Rush({k \in Keys : k[1] = c})
  /\ connected' = connected \ {c}
  /\ CloseAllForClient(c)
  /\ RemoveAllSubscriptions(c)
  /\ UNCHANGED <<store, req, pub, opener, got>>

-----------------------------------------------------------------------------
(* handleEventMessage() of a transport client, publishEvent() of Local: the*)
(* event is accepted for saving ...                                        *)
Event(p, c, e) ==
  /\ NextPub(p) /\ c \in connected
  /\ pub' = [pub EXCEPT ![p] = [phase |-> "saving", client |-> c, event |-> e, matches |-> {}]]
  /\ UNCHANGED <<coordVars, store, connected, tableVars, rushed, req, opener, got>>

(* ... the storage commits it, or fails (OK false) ...                     *)
Save(p) ==
  /\ pub[p].phase = "saving"
  /\ \/ /\ store' = store \cup {pub[p].event}
        /\ pub' = [pub EXCEPT ![p].phase = "saved"]
     \/ /\ pub' = [pub EXCEPT ![p].phase = "failed"]
        /\ UNCHANGED store
  /\ UNCHANGED <<coordVars, connected, tableVars, rushed, req, opener, got>>

(* ... the handler resumes and, on the transport path, looks up the        *)
(* matching subscriptions before the eviction is awaited; publishEvent()   *)
(* looks them up afterwards ...                                            *)
Matched(p) ==
  /\ pub[p].phase = "saved"
  /\ pub' = [pub EXCEPT ![p].phase = "matched",
                        ![p].matches = IF pub[p].client = Local THEN {}
                                       ELSE FindMatching(pub[p].event)]
  /\ UNCHANGED <<coordVars, store, connected, tableVars, rushed, req, opener, got>>

(* ... and delivers to them.  The transport knows no client Local, so a    *)
(* transport EVENT that matches an in-process subscription is dropped on   *)
(* the way; publishEvent() serves in-process subscriptions only.           *)
Targets(p) ==
  IF pub[p].client = Local
    THEN {r \in FindMatching(pub[p].event) : req[r].key[1] = Local}
    ELSE pub[p].matches

Delivered(p) ==
  {r \in Targets(p) : Reachable(r) /\ (req[r].key[1] = Local) = (pub[p].client = Local)}

Broadcast(p) ==
  /\ pub[p].phase = "matched"
  /\ got' = [r \in ReqIds |-> IF r \in Delivered(p) THEN Append(got[r], pub[p].event)
                                                    ELSE got[r]]
  /\ MarkDelivered({req[r].key : r \in Targets(p)}, pub[p].event)
  /\ pub' = [pub EXCEPT ![p].phase = "done", ![p].matches = Targets(p)]
  /\ UNCHANGED <<store, connected, tableVars, rushed, req, opener>>

-----------------------------------------------------------------------------
(* The coordinator's own steps.  An accepted event is in the cache before  *)
(* its chain goes on; what the coordinator delivers goes to the client.    *)
Backfill(u) ==
  /\ \/ /\ IngestSkipped(u) \/ IngestStart(u) \/ SendEose(u) \/ IngestDone(u, "rejected")
        /\ UNCHANGED store
     \/ /\ IngestDone(u, "accepted")
        /\ store' = store \cup {Head(chain[u]).what}
  /\ got' = IF out' # out /\ Reachable(opener[u])
              THEN [got EXCEPT ![opener[u]] = Append(@, Last(out'[u]))]
              ELSE got
  /\ UNCHANGED <<connected, tableVars, rushed, req, pub, opener>>

Upstream ==
  /\ UpstreamStep \/ \E u \in UpIds : EoseTimeout(u)
  /\ UNCHANGED <<store, connected, tableVars, rushed, req, pub, opener, got>>

-----------------------------------------------------------------------------
ReqStep(r) == ReadCache(r) \/ ReadCacheFails(r) \/ Reply(r) \/ Narrowed(r)
PubStep(p) == Save(p) \/ Matched(p) \/ Broadcast(p)

Next ==
  \/ \E r \in ReqIds : \/ \E k \in Keys, f \in Filters :
                            Req(r, k, f) \/ ReqRefused(r, k, f) \/ Subscribe(r, k, f)
                       \/ ReqStep(r)
  \/ \E k \in Keys : Close(k)
  \/ \E c \in Clients : Disconnect(c)
  \/ \E p \in PubIds : \/ \E c \in Clients, e \in Events : Event(p, c, e)
                       \/ PubStep(p)
  \/ \E u \in UpIds : Backfill(u)
  \/ Upstream

(* Storage calls settle, microtasks and timers run; clients and upstream   *)
(* relays owe nothing.                                                     *)
Fairness ==
  /\ \A r \in ReqIds : WF_vars(ReqStep(r))
  /\ \A p \in PubIds : WF_vars(PubStep(p))
  /\ \A u \in UpIds : WF_vars(Backfill(u))
  /\ \A u \in UpIds :
       WF_vars(/\ EoseTimeout(u)
               /\ UNCHANGED <<store, connected, tableVars, rushed, req, pub, opener, got>>)

Spec == Init /\ [][Next]_vars
FairSpec == Spec /\ Fairness

-----------------------------------------------------------------------------
(* Only what a REQ was answered from the cache may exceed the bound of the *)
(* dedup set, and then the set grows no further.                           *)
DedupBounded ==
  \A u \in UpIds :
    \/ Len(sentIds[u]) <= MaxSentIds
    \/ Len(sentIds[u]) <= Cardinality(req[opener[u]].sent)

TypeOK ==
  /\ CoordStateOK /\ DedupBounded
  /\ store \subseteq Events
  /\ connected \subseteq Clients
  /\ subscriptions \in [Keys -> ReqIds \cup {NoReq}]
  /\ clientSubs \in [Clients -> SUBSET SubscriptionIds]
  /\ rushed \subseteq Keys
  /\ \A r \in ReqIds : req[r].sent \subseteq Events
  /\ \A p \in PubIds : pub[p].matches \subseteq ReqIds
  /\ opener \in [UpIds -> ReqIds \cup {NoReq}]
  /\ got \in [ReqIds -> Seq(Events \cup {Eose})]

Sent(r) == ToSet(got[r]) \cap Events

(* The two maps of the SubscriptionManager name the same subscriptions,    *)
(* under their owner, after any overwrite, CLOSE or disconnect.            *)
TablesAgree ==
  \A k \in Keys :
    /\ subscriptions[k] # NoReq <=> k[2] \in clientSubs[k[1]]
    /\ subscriptions[k] # NoReq => req[subscriptions[k]].key = k

(* No client holds more than maxSubscriptions subscriptions, however its   *)
(* REQs interleave (the check and the registration are one synchronous     *)
(* run); the in-process API is not limited.                                *)
SubscriptionCap ==
  \A c \in Clients \ {Local} : Cardinality(clientSubs[c]) <= MaxSubscriptions

(* The tables stay right over overlapping REQs, overwrites and disconnects:*)
(* one subscription per key, indexed by its client, and never too many.    *)
TablesInOrder == TypeOK /\ TablesAgree /\ SubscriptionCap

(* A REQ is answered by one EOSE at most, whoever sends it: the handler or *)
(* the coordinator, by the aggregate or by the timeout.                    *)
EoseOncePerReq ==
  \A r \in ReqIds : Cardinality({i \in DOMAIN got[r] : got[r][i] = Eose}) <= 1

(* No gap between the stored and the live events: once an EVENT is handled *)
(* and a REQ is handled, the subscriber has the event, although the cache  *)
(* may have been read before the save and the match may come after it.     *)
NoGap ==
  \A p \in PubIds, r \in ReqIds :
    /\ pub[p].phase = "done"
    /\ req[r].phase = "done" /\ ~req[r].error
    /\ Registered(r)
    /\ (pub[p].client = Local) = (req[r].key[1] = Local)
    /\ pub[p].event \in Match[req[r].filter]
    => pub[p].event \in Sent(r)

(* Once nothing is being handled for a key, an open upstream subscription  *)
(* has a registered subscription: CLOSE and disconnect close both.         *)
UpstreamHasSubscriber ==
  \A u \in subs : Busy(owner[u]) \/ subscriptions[owner[u]] # NoReq

(* For a transport subscription its client left alone while the REQ was    *)
(* being handled, it holds at every moment, and the subscription is the    *)
(* one that opened it: overwriting closes the old one upstream.            *)
TransportInStep ==
  \A u \in subs :
    owner[u][1] # Local /\ owner[u] \notin rushed => subscriptions[owner[u]] = opener[u]

(* What came from the cache or earlier does not come again from upstream:  *)
(* so the code's comments, of any event; it holds of events that were not  *)
(* published to this relay, whose echo comes again when the broadcast came *)
(* before the upstream subscription was opened.                            *)
IsNews(e) ==
  \A u \in UpIds : out'[u] = Append(out[u], e) => e \notin Sent(opener[u])
UpstreamAddsUnpublishedNews ==
  [][\A e \in Events \ {pub[p].event : p \in PubIds} : IsNews(e)]_vars

(* Every REQ the relay takes ends in EOSE, unless the subscription ends or *)
(* the storage failed, whatever the upstream relays do.  (When a client    *)
(* rushes, the EOSE of an older REQ may take the place of the newer one's.)*)
EveryReqAnswered ==
  \A r \in ReqIds :
    req[r].phase = "reading" ~> \/ Eose \in ToSet(got[r])
                               \/ req[r].error
                               \/ ~Registered(r) \/ req[r].key \in rushed
=============================================================================
