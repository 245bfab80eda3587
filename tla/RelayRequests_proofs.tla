------------------------- MODULE RelayRequests_proofs -------------------------
(***************************************************************************)
(* What is proved of RelayRequests for any clients, subscription ids,      *)
(* finite set of events, filters and limits, with or without an upstream   *)
(* and a freshness gate.                                                   *)
(*                                                                         *)
(* ReqInv is the inductive invariant.  It rests on CoordInv, which         *)
(* UpstreamCoordinator_proofs shows to be kept by every step of the        *)
(* coordinator, however it is called.                                      *)
(***************************************************************************)
EXTENDS RelayRequests, UpstreamCoordinator_proofs

(* The records of the handlers: a handler has a key exactly when its REQ   *)
(* was taken, and a publication has its event once it began.               *)
Phases == {"none", "refused", "reading", "read", "narrowing", "done", "failed"}
PubPhases == {"none", "saving", "saved", "matched", "done", "failed"}
ReqState == [phase : Phases, key : Keys \cup {NoKey}, filter : Filters \cup {NoReq},
             sent : SUBSET Events, error : BOOLEAN]
PubState == [phase : PubPhases, client : Clients \cup {NoReq}, event : Events \cup {NoReq},
             matches : SUBSET ReqIds]

TablesTypes ==
  /\ store \subseteq Events /\ connected \subseteq Clients /\ rushed \subseteq Keys
  /\ subscriptions \in [Keys -> ReqIds \cup {NoReq}]
  /\ clientSubs \in [Clients -> SUBSET SubscriptionIds]
HandlerTypes ==
  /\ req \in [ReqIds -> ReqState] /\ pub \in [PubIds -> PubState]
  /\ opener \in [UpIds -> ReqIds \cup {NoReq}]
  /\ got \in [ReqIds -> Seq(Events \cup {Eose})]
Begun ==
  /\ \A r \in ReqIds : req[r].phase \notin {"none", "refused"} =>
       req[r].key \in Keys /\ req[r].filter \in Filters
  /\ \A r \in ReqIds : req[r].phase \in {"none", "refused"} => req[r].key = NoKey
  /\ \A r \in ReqIds : req[r].phase \in {"none", "reading"} => req[r].sent = {} /\ ~req[r].error
  /\ \A p \in PubIds : \A r \in pub[p].matches : req[r].key \in Keys
  /\ \A p \in PubIds : pub[p].phase # "none" => pub[p].event \in Events /\ pub[p].client \in Clients

(* Every upstream subscription was opened by a request of its own, which   *)
(* has been handled, for the key of that request.                          *)
Used == 1..sequence
Opened ==
  /\ \A u \in Used : /\ opener[u] \in ReqIds /\ req[opener[u]].phase = "done"
                     /\ req[opener[u]].key = owner[u]
  /\ \A u, v \in Used : opener[u] = opener[v] => u = v

(* DedupBounded, and that only an id that was handed out is an exception.  *)
DedupFits ==
  \A u \in UpIds :
    \/ Len(sentIds[u]) <= MaxSentIds
    \/ u \in Used /\ Len(sentIds[u]) <= Cardinality(req[opener[u]].sent)

(* The tables, and that whoever is registered can be reached.              *)
Reached ==
  /\ \A k \in Keys : subscriptions[k] # NoReq => k[1] \in connected
  /\ Local \in Clients => Local \in connected
  /\ \A c \in Clients : IsFiniteSet(clientSubs[c])

(* A REQ in flight whose client did not touch the subscription is still    *)
(* the registered one.                                                     *)
StillRegistered ==
  \A r \in ReqIds : InFlight(r) /\ req[r].key \notin rushed => Registered(r)

(* Where the EOSE of a request can be: in what its subscriber got only     *)
(* when it was handled, and if it went upstream, where the coordinator     *)
(* recorded it too.                                                        *)
EndsOnce(s) == \A i, j \in DOMAIN s : s[i] = Eose /\ s[j] = Eose => i = j
EosesCounted ==
  \A r \in ReqIds :
    /\ EndsOnce(got[r])
    /\ Ended(got[r]) => /\ req[r].phase = "done"
                        /\ \A u \in Used : opener[u] = r => Ended(out[u])

(* What was read from the cache reached a registered subscriber; what was  *)
(* saved is stored; and an event that a registered request did not read    *)
(* from the cache is still to be matched, matched, or delivered.           *)
CacheSent ==
  \A r \in ReqIds :
    req[r].phase \in {"narrowing", "done"} /\ Registered(r) => req[r].sent \subseteq ToSet(got[r])
SavedIsStored ==
  \A p \in PubIds : pub[p].phase \in {"saved", "matched", "done"} => pub[p].event \in store
SameSide(p, r) == (pub[p].client = Local) = (req[r].key[1] = Local)
Reaches(p, r) ==
  \/ pub[p].event \in req[r].sent
  \/ pub[p].phase \in {"none", "saving", "saved", "failed"}
  \/ pub[p].phase = "matched" /\ (pub[p].client = Local \/ r \in pub[p].matches)
  \/ pub[p].phase = "done" /\ (SameSide(p, r) => pub[p].event \in ToSet(got[r]))
Covered ==
  \A p \in PubIds, r \in ReqIds :
    /\ req[r].phase \in {"read", "narrowing", "done"} /\ ~req[r].error /\ Registered(r)
    /\ pub[p].event \in Match[req[r].filter]
    => Reaches(p, r)

ReqInv ==
  /\ CoordInv /\ DedupFits
  /\ TablesTypes /\ HandlerTypes /\ Begun /\ Opened
  /\ TablesAgree /\ SubscriptionCap /\ Reached
  /\ TransportInStep /\ StillRegistered
  /\ EosesCounted
  /\ CacheSent /\ SavedIsStored /\ Covered


Messages == Events \cup {Eose}

-----------------------------------------------------------------------------
(* The ids of a finite set of events, as openForSubscription() gets them.  *)
LEMMA Listed ==
  ASSUME NEW S, S \subseteq Events
  PROVE  /\ SetToSeq(S) \in Seq(S) /\ SetToSeq(S) \in Seq(Events)
         /\ ToSet(SetToSeq(S)) = S /\ IsInjective(SetToSeq(S))
         /\ Len(SetToSeq(S)) = Cardinality(S)
<1> DEFINE n == Cardinality(S)
           Q(f) == f \in [1..n -> S] /\ IsInjective(f)
<1>1. IsFiniteSet(S) /\ n \in Nat /\ ExistsBijection(1..n, S)
  BY RequestsAssumption, FS_Subset, FS_CardinalityType
<1>2. \E f : Q(f)
  BY <1>1 DEF ExistsBijection, Bijection, Injection
<1>3. SetToSeq(S) \in [1..n -> S] /\ IsInjective(SetToSeq(S))
  BY <1>2 DEF SetToSeq
<1>4. SetToSeq(S) \in Injection(1..n, S)
  BY <1>3 DEF Injection
<1>5. Cardinality(1..n) = n
  BY <1>1, FS_Interval
<1>6. SetToSeq(S) \in Surjection(1..n, S)
  BY <1>1, <1>4, <1>5, FS_Injection
<1>7. ToSet(SetToSeq(S)) = S
  BY <1>3, <1>6 DEF Surjection, ToSet
<1>8. QED
  BY <1>1, <1>3, <1>7

(* What follows in a sequence of messages adds its elements, and no EOSE   *)
(* when it has none.                                                       *)
LEMMA Followed ==
  ASSUME NEW s \in Seq(Messages), NEW t \in Seq(Messages)
  PROVE  /\ s \o t \in Seq(Messages)
         /\ ToSet(s \o t) = ToSet(s) \cup ToSet(t)
         /\ ~Ended(t) => (Ended(s \o t) <=> Ended(s))
         /\ ~Ended(t) /\ EndsOnce(s) => EndsOnce(s \o t)
<1> DEFINE u == s \o t
           m == Len(s)
           n == Len(t)
<1>1. /\ u \in Seq(Messages) /\ m \in Nat /\ n \in Nat
      /\ DOMAIN s = 1..m /\ DOMAIN t = 1..n /\ DOMAIN u = 1..(m + n)
      /\ \A i \in 1..m : u[i] = s[i]
      /\ \A i \in 1..n : u[m + i] = t[i]
  OBVIOUS
<1> HIDE DEF u, m, n
<1>2. \A i \in DOMAIN u : \/ i \in DOMAIN s /\ u[i] = s[i]
                          \/ i - m \in DOMAIN t /\ u[i] = t[i - m]
  <2> SUFFICES ASSUME NEW i \in DOMAIN u
               PROVE  \/ i \in DOMAIN s /\ u[i] = s[i]
                      \/ i - m \in DOMAIN t /\ u[i] = t[i - m]
    OBVIOUS
  <2>1. CASE i <= m
    BY <1>1, <2>1
  <2>2. CASE i > m
    <3>1. i - m \in 1..n /\ m + (i - m) = i
      BY <1>1, <2>2
    <3>2. QED BY <1>1, <3>1
  <2>3. QED BY <1>1, <2>1, <2>2
<1>3. \A i \in DOMAIN t : m + i \in DOMAIN u /\ u[m + i] = t[i]
  BY <1>1
<1>4. \A i \in DOMAIN s : i \in DOMAIN u /\ u[i] = s[i]
  BY <1>1
<1>5. ToSet(u) = ToSet(s) \cup ToSet(t)
  BY <1>2, <1>3, <1>4 DEF ToSet
<1>6. ASSUME ~Ended(t) PROVE \A i \in DOMAIN u : u[i] = Eose => i \in DOMAIN s /\ s[i] = Eose
  BY <1>2, <1>6 DEF Ended
<1>7. ~Ended(t) => (Ended(u) <=> Ended(s))
  BY <1>4, <1>6 DEF Ended
<1>8. ~Ended(t) /\ EndsOnce(s) => EndsOnce(u)
  BY <1>6 DEF EndsOnce
<1>9. QED
  BY <1>1, <1>5, <1>7, <1>8 DEF u

(* One message more.                                                       *)
LEMMA Added ==
  ASSUME NEW s \in Seq(Messages), NEW x \in Messages
  PROVE  /\ Append(s, x) \in Seq(Messages)
         /\ ToSet(Append(s, x)) = ToSet(s) \cup {x}
         /\ x # Eose => (Ended(Append(s, x)) <=> Ended(s)) /\ (EndsOnce(s) => EndsOnce(Append(s, x)))
         /\ ~Ended(s) => EndsOnce(Append(s, x))
         /\ x = Eose => Ended(Append(s, x))
<1> DEFINE u == Append(s, x)
           n == Len(s)
<1>1. /\ u \in Seq(Messages) /\ n \in Nat /\ DOMAIN s = 1..n /\ DOMAIN u = 1..(n + 1)
      /\ \A i \in DOMAIN s : u[i] = s[i]
      /\ u[n + 1] = x /\ ToSet(u) = ToSet(s) \cup {x}
  BY Appended, AppendedSet
<1> HIDE DEF u, n
<1>2. \A i \in DOMAIN u : i = n + 1 \/ i \in DOMAIN s
  BY <1>1
<1>3. n + 1 \in DOMAIN u
  BY <1>1
<1>4. QED
  BY <1>1, <1>2, <1>3 DEF u, Ended, EndsOnce

(* A list of events has no EOSE.                                           *)
LEMMA EventsOnly ==
  ASSUME NEW s \in Seq(Events)
  PROVE  s \in Seq(Messages) /\ ~Ended(s)
BY CoordinatorAssumption DEF Messages, Ended

(* No key is the absent key.                                               *)
LEMMA NoKeyIsNone == NoKey \notin Keys
BY DEF NoKey, Keys

-----------------------------------------------------------------------------
(* Whatever the relay does, the coordinator sees one of its own steps: its *)
(* invariant holds here too.                                               *)
LEMMA TargetsHaveKeys ==
  ASSUME HandlerTypes, Begun, NEW p \in PubIds
  PROVE  Targets(p) \subseteq ReqIds /\ {req[r].key : r \in Targets(p)} \subseteq Keys
<1>1. \A r \in ReqIds : req[r].key \in Keys \cup {NoKey}
  BY DEF HandlerTypes, ReqState
<1>2. \A r \in FindMatching(pub[p].event) : r \in ReqIds /\ req[r].key \in Keys
  BY <1>1 DEF FindMatching, Registered
<1>3. \A r \in pub[p].matches : r \in ReqIds /\ req[r].key \in Keys
  BY DEF HandlerTypes, PubState, Begun
<1>4. QED
  BY <1>2, <1>3 DEF Targets

(* GoUpstream is an openForSubscription() with ids of events.              *)
LEMMA Goes ==
  ASSUME HandlerTypes, Begun, NEW r \in ReqIds, req[r].phase \in {"read", "narrowing"}
  PROVE  /\ req[r].key \in Keys /\ SentIds(r) \in Seq(Events)
         /\ ToSet(SentIds(r)) = req[r].sent /\ Len(SentIds(r)) = Cardinality(req[r].sent)
<1>1. req[r].sent \subseteq Events
  BY DEF HandlerTypes, ReqState
<1>2. QED
  BY <1>1, Listed DEF Begun, SentIds

(* Whatever a handler does to the coordinator is an operation of the       *)
(* coordinator: what is proved of the coordinator holds inside the relay.  *)
LEMMA CoordActs ==
  ASSUME HandlerTypes, Begun, Next
  PROVE  CoordAct \/ UNCHANGED coordVars
<1> DEFINE Goal == CoordAct \/ UNCHANGED coordVars
<1>1. ASSUME NEW r \in ReqIds, NEW k \in Keys, NEW f \in Filters,
             Req(r, k, f) \/ ReqRefused(r, k, f) \/ Subscribe(r, k, f)
      PROVE  Goal
  BY <1>1 DEF Req, ReqRefused, Subscribe, ClosedFirst, CoordAct
<1>2. ASSUME NEW r \in ReqIds, req[r].phase \in {"read", "narrowing"}, NEW m, EndHere(r, m) \/ GoUpstream(r, m)
      PROVE  Goal
  BY <1>2, Goes DEF EndHere, GoUpstream, CoordAct
<1>3. ASSUME NEW r \in ReqIds, ReqStep(r) PROVE Goal
  BY <1>2, <1>3 DEF ReqStep, ReadCache, ReadCacheFails, Reply, Narrowed
<1>4. ASSUME NEW k \in Keys, Close(k) PROVE Goal
  BY <1>4 DEF Close, CloseForSubscription, CoordAct
<1>5. ASSUME NEW c \in Clients, Disconnect(c) PROVE Goal
  BY <1>5 DEF Disconnect, CloseAllForClient, CoordAct
<1>6. ASSUME NEW p \in PubIds, NEW c, NEW e, Event(p, c, e) PROVE Goal
  BY <1>6 DEF Event
<1>7. ASSUME NEW p \in PubIds, PubStep(p) PROVE Goal
  <2>1. CASE Save(p) \/ Matched(p)
    BY <2>1 DEF Save, Matched
  <2>2. CASE Broadcast(p)
    <3>1. pub[p].event \in Events
      BY <2>2 DEF Broadcast, Begun
    <3>2. QED
      BY <2>2, <3>1, TargetsHaveKeys DEF Broadcast, CoordAct
  <2>3. QED BY <1>7, <2>1, <2>2 DEF PubStep
<1>8. ASSUME NEW u \in UpIds, Backfill(u) PROVE Goal
  BY <1>8 DEF Backfill, CoordAct, ChainStep, IngestResults
<1>9. CASE Upstream
  BY <1>9 DEF Upstream, CoordAct
<1>10. QED
  BY <1>1, <1>3, <1>4, <1>5, <1>6, <1>7, <1>8, <1>9 DEF Next


(* What the coordinator delivers goes to the request that opened the       *)
(* subscription, if its client can still be reached.                       *)
Passes(u, x) ==
  /\ u \in Used /\ u \in UpIds /\ x \in Messages /\ opener[u] \in ReqIds
  /\ out' = [out EXCEPT ![u] = Append(out[u], x)] /\ out[u] \in Seq(Messages)
  /\ got' = IF Reachable(opener[u]) THEN [got EXCEPT ![opener[u]] = Append(got[opener[u]], x)] ELSE got
  /\ \/ x = Eose /\ SendEose(u)
     \/ x \in Events /\ IngestDone(u, "accepted") /\ Heeded(u, "accepted") /\ x = Head(chain[u]).what

(* What the chain of an upstream subscription hands on reaches the         *)
(* request it was opened for.                                              *)
LEMMA BackfillPasses ==
  ASSUME CoordInv, Opened, NEW u \in UpIds, Backfill(u)
  PROVE  (out' = out /\ got' = got) \/ \E x \in Messages : Passes(u, x)
<1>1. /\ out \in [UpIds -> Seq(Messages)] /\ out[u] \in Seq(Messages)
      /\ Messages = Events \cup {Eose}
  BY ChainTypes DEF Messages
<1>2. chain[u] # <<>> => u \in Used /\ opener[u] \in ReqIds
  <2>1. UpIds = 1..MaxUp /\ MaxUp \in Nat /\ sequence \in Nat
    BY CoordinatorAssumption DEF CoordInv, CoordStateOK
  <2>2. QED BY <2>1 DEF CoordInv, Unused, Used, Opened
<1>3. ASSUME NEW x \in Messages, out' = [out EXCEPT ![u] = Append(@, x)]
      PROVE  out' # out /\ Last(out'[u]) = x
  <2>1. out'[u] = Append(out[u], x)
    BY <1>1, <1>3
  <2>2. Append(out[u], x) # out[u] /\ Append(out[u], x)[Len(out[u]) + 1] = x
        /\ Len(Append(out[u], x)) = Len(out[u]) + 1
    BY <1>1, Appended
  <2>3. QED
    BY <2>1, <2>2 DEF Last
<1>4. CASE out' = out
  BY <1>4 DEF Backfill
<1>5. ASSUME NEW x \in Messages, out' = [out EXCEPT ![u] = Append(@, x)], chain[u] # <<>>,
             \/ x = Eose /\ SendEose(u)
             \/ x \in Events /\ IngestDone(u, "accepted") /\ Heeded(u, "accepted") /\ x = Head(chain[u]).what
      PROVE  Passes(u, x)
  <2>1. got' = IF Reachable(opener[u]) THEN [got EXCEPT ![opener[u]] = Append(@, x)] ELSE got
    <3>1. out' # out /\ Last(out'[u]) = x
      BY <1>3, <1>5
    <3>2. got' = IF out' # out /\ Reachable(opener[u])
                   THEN [got EXCEPT ![opener[u]] = Append(@, Last(out'[u]))] ELSE got
      BY DEF Backfill
    <3>3. QED BY <3>1, <3>2
  <2>2. QED
    BY <1>1, <1>2, <1>5, <2>1 DEF Passes
<1>6. CASE SendEose(u)
  <2>1. u \in closed \/ out' = [out EXCEPT ![u] = Append(@, Eose)]
    BY <1>6 DEF SendEose
  <2>2. u \in closed => out' = out
    BY <1>1, <1>6 DEF SendEose
  <2>3. chain[u] # <<>> /\ Eose \in Messages
    BY <1>6 DEF SendEose, Messages
  <2>4. QED BY <1>4, <1>5, <1>6, <2>1, <2>2, <2>3
<1>7. CASE IngestDone(u, "accepted")
  <2> DEFINE e == Head(chain[u]).what
  <2>1. chain[u] # <<>> /\ e \in Events
    BY <1>7, ChainTypes DEF IngestDone
  <2>2. \/ out' = out
        \/ Heeded(u, "accepted") /\ out' = [out EXCEPT ![u] = Append(@, e)]
    BY <1>7 DEF IngestDone
  <2>3. e \in Messages
    BY <2>1 DEF Messages
  <2>4. QED BY <1>4, <1>5, <1>7, <2>1, <2>2, <2>3
<1>8. CASE IngestSkipped(u) \/ IngestStart(u) \/ IngestDone(u, "rejected")
  BY <1>4, <1>8 DEF IngestSkipped, IngestStart, IngestDone, Heeded
<1>9. QED
  BY <1>6, <1>7, <1>8 DEF Backfill

-----------------------------------------------------------------------------
(* Types.                                                                  *)
LEMMA TablesTypesStep ==
  ASSUME CoordInv, TablesTypes, HandlerTypes, Begun, [Next]_vars
  PROVE  TablesTypes'
<1> USE DEF TablesTypes
<1>1. ASSUME NEW r \in ReqIds, NEW k \in Keys, NEW f \in Filters,
             Req(r, k, f) \/ ReqRefused(r, k, f) \/ Subscribe(r, k, f)
      PROVE  TablesTypes'
  BY <1>1 DEF Req, ReqRefused, Subscribe, CreateSubscription, ClientSubsWith, Rush, tableVars, Keys
<1>2. ASSUME NEW r \in ReqIds, ReqStep(r) PROVE TablesTypes'
  BY <1>2 DEF ReqStep, ReadCache, ReadCacheFails, Reply, Narrowed, tableVars
<1>3. ASSUME NEW k \in Keys, Close(k) PROVE TablesTypes'
  BY <1>3 DEF Close, RemoveSubscription, ClientSubsWithout, Rush, Keys
<1>4. ASSUME NEW c \in Clients, Disconnect(c) PROVE TablesTypes'
  BY <1>4 DEF Disconnect, RemoveAllSubscriptions, Rush
<1>5. ASSUME NEW p \in PubIds, NEW c, NEW e, Event(p, c, e) PROVE TablesTypes'
  BY <1>5 DEF Event, tableVars
<1>6. ASSUME NEW p \in PubIds, PubStep(p) PROVE TablesTypes'
  BY <1>6 DEF PubStep, Save, Matched, Broadcast, Begun, tableVars
<1>7. ASSUME NEW u \in UpIds, Backfill(u) PROVE TablesTypes'
  BY <1>7, ChainTypes DEF Backfill, IngestDone, tableVars
<1>8. CASE Upstream
  BY <1>8 DEF Upstream, tableVars
<1>9. CASE UNCHANGED vars
  BY <1>9 DEF vars, tableVars
<1>10. QED
  BY <1>1, <1>2, <1>3, <1>4, <1>5, <1>6, <1>7, <1>8, <1>9 DEF Next

(* Every step keeps the types of requests and publications.                *)
LEMMA HandlerTypesStep ==
  ASSUME CoordInv, TablesTypes, HandlerTypes, Begun, Opened, [Next]_vars
  PROVE  HandlerTypes'
<1> USE DEF HandlerTypes
<1>0. Eose \in Messages /\ got \in [ReqIds -> Seq(Messages)]
  BY DEF Messages
<1>1. ASSUME NEW r \in ReqIds, NEW k \in Keys, NEW f \in Filters,
             Req(r, k, f) \/ ReqRefused(r, k, f) \/ Subscribe(r, k, f)
      PROVE  HandlerTypes'
  <2>1. Reading(k, f) \in ReqState
    BY DEF Reading, ReqState, Phases
  <2>2. CASE Req(r, k, f) \/ Subscribe(r, k, f)
    BY <2>1, <2>2 DEF Req, Subscribe
  <2>3. CASE ReqRefused(r, k, f)
    <3>1. "refused" \in Phases BY DEF Phases
    <3>2. req' = [req EXCEPT ![r].phase = "refused"] /\ UNCHANGED <<pub, opener, got>>
      BY <2>3 DEF ReqRefused
    <3>3. req' \in [ReqIds -> ReqState] BY <3>1, <3>2 DEF ReqState
    <3>4. QED BY <3>2, <3>3
  <2>4. QED BY <1>1, <2>2, <2>3
<1>2. ASSUME NEW r \in ReqIds, req[r].phase = "read" \/ req[r].phase = "narrowing",
             NEW m \in Seq(Messages), EndHere(r, m) \/ GoUpstream(r, m)
      PROVE  opener' \in [UpIds -> ReqIds \cup {NoReq}] /\ got' \in [ReqIds -> Seq(Messages)]
  <2>1. got[r] \o m \o <<Eose>> \in Seq(Messages) /\ got[r] \o m \o <<>> \in Seq(Messages)
    BY <1>0, <1>2
  <2>2. CASE EndHere(r, m)
    BY <1>0, <2>1, <2>2 DEF EndHere
  <2>3. CASE GoUpstream(r, m)
    BY <1>0, <2>1, <2>3 DEF GoUpstream, EoseWhenOpening
  <2>4. QED BY <1>2, <2>2, <2>3
<1>3. ASSUME NEW r \in ReqIds, ReadCache(r) \/ ReadCacheFails(r) PROVE HandlerTypes'
  <2>2. CASE ReadCache(r)
    <3>1. req' = [req EXCEPT ![r] = [req[r] EXCEPT !.phase = "read", !.sent = Match[req[r].filter] \cap store]]
      BY <2>2 DEF ReadCache
    <3>2. Match[req[r].filter] \cap store \subseteq Events
      BY DEF TablesTypes
    <3>3. "read" \in Phases BY DEF Phases
    <3>4. req' \in [ReqIds -> ReqState]
      BY <3>1, <3>2, <3>3 DEF ReqState
    <3>5. QED BY <2>2, <3>4 DEF ReadCache
  <2>3. CASE ReadCacheFails(r)
    <3>1. PICK x \in Phases : req' = [req EXCEPT ![r] = [req[r] EXCEPT !.phase = x, !.error = TRUE]]
      BY <2>3 DEF ReadCacheFails, Phases
    <3>2. req' \in [ReqIds -> ReqState]
      BY <3>1 DEF ReqState
    <3>3. QED BY <2>3, <3>2 DEF ReadCacheFails
  <2>4. QED BY <1>3, <2>2, <2>3
<1>4. ASSUME NEW r \in ReqIds, Reply(r) PROVE HandlerTypes'
  <2> DEFINE m == SetToSeq(req[r].sent)
  <2>1. m \in Seq(Messages)
    BY Listed, EventsOnly DEF ReqState
  <2>2. req' \in [ReqIds -> ReqState] /\ pub' = pub
    <3>1. PICK x \in Phases : req' = [req EXCEPT ![r].phase = x]
      BY <1>4 DEF Reply, Phases
    <3>2. pub' = pub
      BY <1>4 DEF Reply
    <3>3. QED BY <3>1, <3>2 DEF ReqState
  <2>3. \/ EndHere(r, m) \/ GoUpstream(r, m)
        \/ got' = [got EXCEPT ![r] = IF Reachable(r) THEN @ \o m ELSE @] /\ opener' = opener
    BY <1>4 DEF Reply
  <2>4. req[r].phase = "read" BY <1>4 DEF Reply
  <2> HIDE DEF m
  <2>5. got[r] \o m \in Seq(Messages) BY <1>0, <2>1
  <2>6. opener' \in [UpIds -> ReqIds \cup {NoReq}] /\ got' \in [ReqIds -> Seq(Messages)]
    BY <1>0, <1>2, <2>1, <2>3, <2>4, <2>5
  <2>7. QED BY <2>2, <2>6 DEF Messages
<1>5. ASSUME NEW r \in ReqIds, Narrowed(r) PROVE HandlerTypes'
  <2>1. req' \in [ReqIds -> ReqState] /\ pub' = pub
    BY <1>5 DEF Narrowed, ReqState, Phases
  <2>2. req[r].phase = "narrowing" /\ (EndHere(r, <<>>) \/ GoUpstream(r, <<>>)) /\ <<>> \in Seq(Messages)
    BY <1>5 DEF Narrowed
  <2>3. QED BY <1>2, <2>1, <2>2 DEF Messages
<1>6. ASSUME NEW k \in Keys, Close(k) PROVE HandlerTypes'
  BY <1>6 DEF Close
<1>7. ASSUME NEW c \in Clients, Disconnect(c) PROVE HandlerTypes'
  BY <1>7 DEF Disconnect
<1>8. ASSUME NEW p \in PubIds, NEW c \in Clients, NEW e \in Events, Event(p, c, e) PROVE HandlerTypes'
  BY <1>8 DEF Event, PubState, PubPhases
<1>9. ASSUME NEW p \in PubIds, Save(p) \/ Matched(p) PROVE HandlerTypes'
  <2>1. CASE Save(p)
    <3>1. PICK x \in PubPhases : pub' = [pub EXCEPT ![p].phase = x]
      BY <2>1 DEF Save, PubPhases
    <3>2. UNCHANGED <<req, opener, got>> BY <2>1 DEF Save
    <3>3. pub' \in [PubIds -> PubState] BY <3>1 DEF PubState
    <3>4. QED BY <3>2, <3>3
  <2>2. CASE Matched(p)
    <3>1. PICK S \in SUBSET ReqIds : pub' = [pub EXCEPT ![p] = [pub[p] EXCEPT !.phase = "matched", !.matches = S]]
      BY <2>2 DEF Matched, FindMatching
    <3>2. "matched" \in PubPhases BY DEF PubPhases
    <3>3. pub' \in [PubIds -> PubState]
      BY <3>1, <3>2 DEF PubState
    <3>4. QED BY <2>2, <3>3 DEF Matched
  <2>3. QED BY <1>9, <2>1, <2>2
<1>10. ASSUME NEW p \in PubIds, Broadcast(p) PROVE HandlerTypes'
  <2>1. pub[p].event \in Messages
    BY <1>10 DEF Broadcast, Begun, Messages
  <2>2. \A r \in ReqIds : Append(got[r], pub[p].event) \in Seq(Messages)
    BY <1>0, <2>1
  <2>3. got' \in [ReqIds -> Seq(Messages)]
    BY <1>0, <1>10, <2>2 DEF Broadcast
  <2>4. pub' \in [PubIds -> PubState] /\ req' = req /\ opener' = opener
    <3>1. /\ pub' = [pub EXCEPT ![p] = [pub[p] EXCEPT !.phase = "done", !.matches = Targets(p)]]
          /\ req' = req /\ opener' = opener
      BY <1>10 DEF Broadcast
    <3>2. Targets(p) \subseteq ReqIds BY TargetsHaveKeys
    <3>3. "done" \in PubPhases BY DEF PubPhases
    <3>4. pub' \in [PubIds -> PubState] BY <3>1, <3>2, <3>3 DEF PubState
    <3>5. QED BY <3>1, <3>4
  <2>5. QED BY <2>3, <2>4 DEF Messages
<1>11. ASSUME NEW u \in UpIds, Backfill(u) PROVE HandlerTypes'
  <2>1. got' \in [ReqIds -> Seq(Messages)]
    <3>1. CASE got' = got BY <1>0, <3>1
    <3>2. ASSUME NEW x \in Messages, Passes(u, x) PROVE got' \in [ReqIds -> Seq(Messages)]
      <4>1. opener[u] \in ReqIds /\ Append(got[opener[u]], x) \in Seq(Messages)
        BY <1>0, <3>2 DEF Passes
      <4>2. QED BY <1>0, <3>2, <4>1 DEF Passes
    <3>3. QED BY <1>11, <3>1, <3>2, BackfillPasses
  <2>2. QED BY <1>11, <2>1 DEF Backfill, Messages
<1>12. CASE Upstream
  BY <1>12 DEF Upstream
<1>13. CASE UNCHANGED vars
  BY <1>13 DEF vars
<1>14. QED
  BY <1>1, <1>3, <1>4, <1>5, <1>6, <1>7, <1>8, <1>9, <1>10, <1>11, <1>12, <1>13 DEF Next, ReqStep, PubStep

-----------------------------------------------------------------------------
(* What the steps of a handler do to its record, and to nobody else's.     *)
Others(r) == \A q \in ReqIds : q # r => req'[q] = req[q]

(* A REQ is taken.                                                         *)
LEMMA Takes ==
  ASSUME HandlerTypes, NEW r \in ReqIds, NEW k \in Keys, NEW f \in Filters, Req(r, k, f) \/ Subscribe(r, k, f)
  PROVE  /\ req[r].phase = "none" /\ Others(r)
         /\ req'[r].phase = "reading" /\ req'[r].key = k /\ req'[r].filter = f
         /\ req'[r].sent = {} /\ ~req'[r].error
         /\ CreateSubscription(k, r) /\ Rush({k})
         /\ UNCHANGED <<store, connected, pub, opener, got>>
<1>1. req[r].phase = "none" /\ req' = [req EXCEPT ![r] = Reading(k, f)]
  BY DEF Req, Subscribe, NextReq
<1>2. req'[r] = Reading(k, f) /\ Others(r)
  BY <1>1 DEF HandlerTypes, Others
<1>3. /\ CreateSubscription(k, r) /\ Rush({k})
      /\ UNCHANGED <<store, connected, pub, opener, got>>
  BY DEF Req, Subscribe
<1>4. QED
  BY <1>1, <1>2, <1>3 DEF Reading

(* A REQ is refused, and has no subscription.                              *)
LEMMA Refuses ==
  ASSUME HandlerTypes, Begun, NEW r \in ReqIds, NEW k \in Keys, NEW f \in Filters, ReqRefused(r, k, f)
  PROVE  /\ req[r].phase = "none" /\ req[r].key = NoKey /\ Others(r)
         /\ req'[r].phase = "refused" /\ req'[r].key = NoKey
         /\ req'[r].sent = req[r].sent /\ req'[r].error = req[r].error
         /\ UNCHANGED <<coordVars, store, connected, tableVars, rushed, pub, opener, got>>
<1>1. req[r].phase = "none" /\ req' = [req EXCEPT ![r].phase = "refused"]
  BY DEF ReqRefused, NextReq
<1>2. QED
  BY <1>1 DEF ReqRefused, HandlerTypes, ReqState, Begun, Others

(* The handler of a REQ goes on: it reads the cache, or fails to, or it    *)
(* answers from what it read.                                              *)
Answers(r) == Reply(r) \/ Narrowed(r)

(* Reading the cache moves one request and nothing else.                   *)
LEMMA Reads ==
  ASSUME HandlerTypes, NEW r \in ReqIds, ReadCache(r) \/ ReadCacheFails(r)
  PROVE  /\ req[r].phase = "reading" /\ Others(r)
         /\ req'[r].phase \in {"read", "failed"}
         /\ req'[r].key = req[r].key /\ req'[r].filter = req[r].filter
         /\ \/ req'[r].sent = Match[req[r].filter] \cap store /\ req'[r].phase = "read" /\ req'[r].error = req[r].error
            \/ req'[r].sent = req[r].sent /\ req'[r].error
         /\ UNCHANGED <<coordVars, store, connected, tableVars, rushed, pub, opener, got>>
<1>1. CASE ReadCache(r)
  <2>1. /\ req[r].phase = "reading"
        /\ req' = [req EXCEPT ![r] = [req[r] EXCEPT !.phase = "read", !.sent = Match[req[r].filter] \cap store]]
        /\ UNCHANGED <<coordVars, store, connected, tableVars, rushed, pub, opener, got>>
    BY <1>1 DEF ReadCache
  <2>2. QED
    BY <2>1 DEF HandlerTypes, ReqState, Others
<1>2. CASE ReadCacheFails(r)
  <2>1. PICK x \in {"read", "failed"} :
          /\ req[r].phase = "reading"
          /\ req' = [req EXCEPT ![r] = [req[r] EXCEPT !.phase = x, !.error = TRUE]]
          /\ UNCHANGED <<coordVars, store, connected, tableVars, rushed, pub, opener, got>>
    BY <1>2 DEF ReadCacheFails
  <2>2. QED
    BY <2>1 DEF HandlerTypes, ReqState, Others
<1>3. QED BY <1>1, <1>2

(* What it answers with: the cached events, if it has not sent them yet.   *)
Cached(r) == IF req[r].phase = "read" THEN SetToSeq(req[r].sent) ELSE <<>>

(* An answer ends the request here or upstream, or waits for the           *)
(* freshness of what it read, which the client has by then.                *)
LEMMA Answering ==
  ASSUME HandlerTypes, NEW r \in ReqIds, Answers(r)
  PROVE  /\ req[r].phase \in {"read", "narrowing"} /\ Others(r)
         /\ req'[r].key = req[r].key /\ req'[r].filter = req[r].filter
         /\ req'[r].sent = req[r].sent /\ req'[r].error = req[r].error
         /\ \/ req'[r].phase = "done" /\ EndHere(r, Cached(r))
            \/ req'[r].phase = "done" /\ GoUpstream(r, Cached(r))
            \/ /\ req'[r].phase = "narrowing"
               /\ got' = [got EXCEPT ![r] = IF Reachable(r) THEN @ \o Cached(r) ELSE @]
               /\ UNCHANGED <<coordVars, opener>>
         /\ Cached(r) \in Seq(Events)
         /\ ToSet(Cached(r)) = IF req[r].phase = "read" THEN req[r].sent ELSE {}
         /\ UNCHANGED <<store, connected, tableVars, rushed, pub>>
<1>1. /\ req[r].phase \in {"read", "narrowing"}
      /\ UNCHANGED <<store, connected, tableVars, rushed, pub>>
      /\ \E x \in {"done", "narrowing"} : req' = [req EXCEPT ![r].phase = x]
  BY DEF Answers, Reply, Narrowed
<1>2. /\ Others(r) /\ req'[r].key = req[r].key /\ req'[r].filter = req[r].filter
      /\ req'[r].sent = req[r].sent /\ req'[r].error = req[r].error
  BY <1>1 DEF HandlerTypes, ReqState, Others
<1>3. Cached(r) \in Seq(Events) /\ ToSet(Cached(r)) = IF req[r].phase = "read" THEN req[r].sent ELSE {}
  <2>1. req[r].sent \subseteq Events
    BY DEF HandlerTypes, ReqState
  <2>2. CASE req[r].phase = "read"
    BY <2>1, <2>2, Listed DEF Cached
  <2>3. CASE req[r].phase # "read"
    BY <2>3 DEF Cached, ToSet
  <2>4. QED BY <2>2, <2>3
<1>4. \/ req'[r].phase = "done" /\ EndHere(r, Cached(r))
      \/ req'[r].phase = "done" /\ GoUpstream(r, Cached(r))
      \/ /\ req'[r].phase = "narrowing"
         /\ got' = [got EXCEPT ![r] = IF Reachable(r) THEN @ \o Cached(r) ELSE @]
         /\ UNCHANGED <<coordVars, opener>>
  <2>1. CASE Reply(r)
    <3>1. req[r].phase = "read" /\ Cached(r) = SetToSeq(req[r].sent)
      BY <2>1 DEF Reply, Cached
    <3>2. \/ req' = [req EXCEPT ![r].phase = "done"] /\ EndHere(r, Cached(r))
          \/ req' = [req EXCEPT ![r].phase = "done"] /\ GoUpstream(r, Cached(r))
          \/ /\ req' = [req EXCEPT ![r].phase = "narrowing"]
             /\ got' = [got EXCEPT ![r] = IF Reachable(r) THEN @ \o Cached(r) ELSE @]
             /\ UNCHANGED <<coordVars, opener>>
      BY <2>1, <3>1 DEF Reply
    <3>3. QED BY <3>2 DEF HandlerTypes, ReqState
  <2>2. CASE Narrowed(r)
    <3>1. Cached(r) = <<>>
      BY <2>2 DEF Narrowed, Cached
    <3>2. req' = [req EXCEPT ![r].phase = "done"] /\ (EndHere(r, Cached(r)) \/ GoUpstream(r, Cached(r)))
      BY <2>2, <3>1 DEF Narrowed
    <3>3. QED BY <3>2 DEF HandlerTypes, ReqState
  <2>3. QED BY <2>1, <2>2 DEF Answers
<1>5. QED BY <1>1, <1>2, <1>3, <1>4

(* A publication begins, and goes on.                                      *)
OtherPubs(p) == \A q \in PubIds : q # p => pub'[q] = pub[q]

(* A publication begins in "saving" and touches nothing else.              *)
LEMMA Publishes ==
  ASSUME HandlerTypes, NEW p \in PubIds, NEW c, NEW e, Event(p, c, e)
  PROVE  /\ pub[p].phase = "none" /\ OtherPubs(p)
         /\ pub'[p].phase = "saving" /\ pub'[p].client = c /\ pub'[p].event = e /\ pub'[p].matches = {}
         /\ UNCHANGED <<coordVars, store, connected, tableVars, rushed, req, opener, got>>
<1>1. pub[p].phase = "none" /\ pub' = [pub EXCEPT ![p] = [phase |-> "saving", client |-> c, event |-> e, matches |-> {}]]
  BY DEF Event, NextPub
<1>2. QED BY <1>1 DEF Event, HandlerTypes, OtherPubs

(* A publication saves, matches and delivers, in this order.               *)
LEMMA PubGoes ==
  ASSUME HandlerTypes, NEW p \in PubIds, PubStep(p)
  PROVE  /\ OtherPubs(p) /\ pub[p].phase \in {"saving", "saved", "matched"}
         /\ pub'[p].client = pub[p].client /\ pub'[p].event = pub[p].event
         /\ \/ /\ Save(p) /\ pub'[p].matches = pub[p].matches
               /\ \/ store' = store \cup {pub[p].event} /\ pub'[p].phase = "saved"
                  \/ store' = store /\ pub'[p].phase = "failed"
            \/ /\ Matched(p) /\ pub[p].phase = "saved" /\ pub'[p].phase = "matched" /\ store' = store
               /\ pub'[p].matches = IF pub[p].client = Local THEN {} ELSE FindMatching(pub[p].event)
            \/ /\ Broadcast(p) /\ pub[p].phase = "matched" /\ pub'[p].phase = "done" /\ store' = store
               /\ pub'[p].matches = Targets(p)
         /\ UNCHANGED <<connected, tableVars, rushed, req, opener>>
<1>1. CASE Save(p)
  <2>1. /\ pub[p].phase = "saving"
        /\ \/ store' = store \cup {pub[p].event} /\ pub' = [pub EXCEPT ![p].phase = "saved"]
           \/ store' = store /\ pub' = [pub EXCEPT ![p].phase = "failed"]
        /\ UNCHANGED <<connected, tableVars, rushed, req, opener>>
    BY <1>1 DEF Save
  <2>2. QED BY <1>1, <2>1 DEF HandlerTypes, PubState, OtherPubs
<1>2. CASE Matched(p)
  <2> DEFINE S == IF pub[p].client = Local THEN {} ELSE FindMatching(pub[p].event)
  <2>1. /\ pub[p].phase = "saved"
        /\ pub' = [pub EXCEPT ![p] = [pub[p] EXCEPT !.phase = "matched", !.matches = S]]
        /\ UNCHANGED <<store, connected, tableVars, rushed, req, opener>>
    BY <1>2 DEF Matched
  <2> HIDE DEF S
  <2>2. /\ OtherPubs(p) /\ pub'[p].client = pub[p].client /\ pub'[p].event = pub[p].event
        /\ pub'[p].phase = "matched" /\ pub'[p].matches = S
    BY <2>1 DEF HandlerTypes, PubState, OtherPubs
  <2>3. QED BY <1>2, <2>1, <2>2 DEF S
<1>3. CASE Broadcast(p)
  <2> DEFINE S == Targets(p)
  <2>1. /\ pub[p].phase = "matched"
        /\ pub' = [pub EXCEPT ![p] = [pub[p] EXCEPT !.phase = "done", !.matches = S]]
        /\ UNCHANGED <<store, connected, tableVars, rushed, req, opener>>
    BY <1>3 DEF Broadcast
  <2> HIDE DEF S
  <2>2. /\ OtherPubs(p) /\ pub'[p].client = pub[p].client /\ pub'[p].event = pub[p].event
        /\ pub'[p].phase = "done" /\ pub'[p].matches = S
    BY <2>1 DEF HandlerTypes, PubState, OtherPubs
  <2>3. QED BY <1>3, <2>1, <2>2 DEF S
<1>4. QED BY <1>1, <1>2, <1>3 DEF PubStep

(* The other steps leave the handlers' records alone.                      *)
LEMMA Elsewhere ==
  ASSUME (\E k \in Keys : Close(k)) \/ (\E c \in Clients : Disconnect(c)) \/ (\E u \in UpIds : Backfill(u)) \/ Upstream
  PROVE  UNCHANGED <<req, pub, opener>>
BY DEF Close, Disconnect, Backfill, Upstream

(* What has begun has its subscription, filter and event; what has not is  *)
(* blank.                                                                  *)
LEMMA BegunStep ==
  ASSUME HandlerTypes, HandlerTypes', Begun, [Next]_vars
  PROVE  Begun'
<1>1. ASSUME NEW r \in ReqIds, NEW k \in Keys, NEW f \in Filters, Req(r, k, f) \/ Subscribe(r, k, f) PROVE Begun'
  <2>1. /\ Others(r) /\ pub' = pub
        /\ req'[r].phase = "reading" /\ req'[r].key = k /\ req'[r].filter = f
        /\ req'[r].sent = {} /\ ~req'[r].error
    <3>1. Others(r) /\ pub' = pub BY <1>1, Takes
    <3>2. req' = [req EXCEPT ![r] = Reading(k, f)] BY <1>1 DEF Req, Subscribe
    <3>3. req'[r] = Reading(k, f) BY <3>2 DEF HandlerTypes
    <3>4. QED BY <3>1, <3>3 DEF Reading
  <2>2. \A p \in PubIds : pub[p].matches \subseteq ReqIds
    BY DEF HandlerTypes, PubState
  <2>3. \A q \in ReqIds : q = r \/ req'[q] = req[q]
    BY <2>1 DEF Others
  <2>4. QED BY <2>1, <2>2, <2>3 DEF Begun
<1>2. ASSUME NEW r \in ReqIds, NEW k \in Keys, NEW f \in Filters, ReqRefused(r, k, f) PROVE Begun'
  <2>1. /\ Others(r) /\ pub' = pub
        /\ req'[r].phase = "refused" /\ req'[r].key = NoKey /\ req[r].key = NoKey
    BY <1>2, Refuses
  <2>2. \A p \in PubIds : pub[p].matches \subseteq ReqIds
    BY DEF HandlerTypes, PubState
  <2>3. \A q \in ReqIds : q = r \/ req'[q] = req[q]
    BY <2>1 DEF Others
  <2>4. QED BY <2>1, <2>2, <2>3, NoKeyIsNone DEF Begun
<1>3. ASSUME NEW r \in ReqIds, ReadCache(r) \/ ReadCacheFails(r) PROVE Begun'
  <2>1. /\ Others(r) /\ pub' = pub /\ req[r].phase = "reading"
        /\ req'[r].phase \in {"read", "failed"}
        /\ req'[r].key = req[r].key /\ req'[r].filter = req[r].filter
    BY <1>3, Reads
  <2>2. \A p \in PubIds : pub[p].matches \subseteq ReqIds
    BY DEF HandlerTypes, PubState
  <2>3. \A q \in ReqIds : q = r \/ req'[q] = req[q]
    BY <2>1 DEF Others
  <2>4. QED BY <2>1, <2>2, <2>3 DEF Begun
<1>4. ASSUME NEW r \in ReqIds, Answers(r) PROVE Begun'
  <2>1. /\ Others(r) /\ pub' = pub /\ req[r].phase \in {"read", "narrowing"}
        /\ req'[r].phase \in {"done", "narrowing"}
        /\ req'[r].key = req[r].key /\ req'[r].filter = req[r].filter
    BY <1>4, Answering
  <2>2. \A p \in PubIds : pub[p].matches \subseteq ReqIds
    BY DEF HandlerTypes, PubState
  <2>3. \A q \in ReqIds : q = r \/ req'[q] = req[q]
    BY <2>1 DEF Others
  <2>4. QED BY <2>1, <2>2, <2>3 DEF Begun
<1>5. ASSUME NEW p \in PubIds, NEW c \in Clients, NEW e \in Events, Event(p, c, e) PROVE Begun'
  BY <1>5, Publishes DEF OtherPubs, Begun
<1>6. ASSUME NEW p \in PubIds, PubStep(p) PROVE Begun'
  <2>1. \A r \in FindMatching(pub[p].event) : r \in ReqIds /\ req[r].key \in Keys
    BY DEF FindMatching, Registered, HandlerTypes, ReqState
  <2>2. \A r \in Targets(p) : r \in ReqIds /\ req[r].key \in Keys
    BY TargetsHaveKeys
  <2>3. \A r \in pub'[p].matches : req[r].key \in Keys
    <3>1. pub'[p].matches \in {pub[p].matches, {}, FindMatching(pub[p].event), Targets(p)}
      BY <1>6, PubGoes
    <3>2. \A r \in pub[p].matches : req[r].key \in Keys BY DEF Begun
    <3>3. QED BY <2>1, <2>2, <3>1, <3>2
  <2>4. QED BY <1>6, <2>3, PubGoes DEF OtherPubs, Begun
<1>7. CASE UNCHANGED <<req, pub, opener>>
  BY <1>7 DEF Begun
<1>8. QED
  BY <1>1, <1>2, <1>3, <1>4, <1>5, <1>6, <1>7, Elsewhere DEF Next, ReqStep, Answers, vars

-----------------------------------------------------------------------------
(* Who opened what: only GoUpstream hands out an id.                       *)
LEMMA OpenedStep ==
  ASSUME CoordInv, HandlerTypes, Begun, Opened, [Next]_vars
  PROVE  Opened'
<1> USE DEF Opened, Used
<1>0. sequence \in Nat /\ UpIds = 1..MaxUp /\ MaxUp \in Nat /\ sequence <= MaxUp
      /\ owner \in [UpIds -> Keys \cup {NoKey}] /\ opener \in [UpIds -> ReqIds \cup {NoReq}]
  BY CoordinatorAssumption DEF CoordInv, CoordStateOK, HandlerTypes
<1>1. ASSUME NEW r \in ReqIds, Answers(r), GoUpstream(r, Cached(r)), req'[r].phase = "done" PROVE Opened'
  <2> DEFINE u == sequence + 1
  <2>1. /\ u \in UpIds /\ sequence' = u /\ owner' = [owner EXCEPT ![u] = req[r].key]
        /\ opener' = [opener EXCEPT ![u] = r]
    BY <1>1 DEF GoUpstream, OpenForSubscription
  <2>2. /\ req[r].phase # "done" /\ Others(r) /\ req'[r].key = req[r].key
    BY <1>1, Answering
  <2>3. \A v \in 1..sequence' : v = u \/ (v \in 1..sequence /\ v # u /\ v \in UpIds)
    BY <1>0, <2>1
  <2>4. opener'[u] = r /\ owner'[u] = req'[r].key
    BY <1>0, <2>1, <2>2
  <2>5. \A v \in 1..sequence : v # u => opener'[v] = opener[v] /\ owner'[v] = owner[v] /\ opener[v] # r
                                         /\ req'[opener[v]] = req[opener[v]]
    <3> SUFFICES ASSUME NEW v \in 1..sequence, v # u
                 PROVE  opener'[v] = opener[v] /\ owner'[v] = owner[v] /\ opener[v] # r
                        /\ req'[opener[v]] = req[opener[v]]
      OBVIOUS
    <3>1. v \in UpIds BY <1>0
    <3>2. opener'[v] = opener[v] /\ owner'[v] = owner[v] BY <1>0, <2>1, <3>1
    <3>3. opener[v] \in ReqIds /\ opener[v] # r BY <2>2
    <3>4. req'[opener[v]] = req[opener[v]] BY <2>2, <3>3 DEF Others
    <3>5. QED BY <3>2, <3>3, <3>4
  <2> HIDE DEF u
  <2>6. QED BY <1>1, <2>3, <2>4, <2>5
<1>2. ASSUME UNCHANGED <<sequence, owner, opener>>,
             \A r \in ReqIds : req[r].phase = "done" => req'[r].phase = "done" /\ req'[r].key = req[r].key
      PROVE  Opened'
  BY <1>2
<1>3. ASSUME NEW r \in ReqIds, Answers(r) PROVE Opened'
  <2>1. CASE req'[r].phase = "done" /\ GoUpstream(r, Cached(r))
    BY <1>1, <1>3, <2>1
  <2>2. CASE EndHere(r, Cached(r)) \/ UNCHANGED <<coordVars, opener>>
    BY <1>2, <1>3, <2>2, Answering DEF EndHere, Others, coordVars, mapVars, stateVars
  <2>3. QED BY <1>3, <2>1, <2>2, Answering
<1>4. ASSUME NEW r \in ReqIds, NEW k \in Keys, NEW f \in Filters,
             Req(r, k, f) \/ ReqRefused(r, k, f) \/ Subscribe(r, k, f) 
      PROVE  Opened'
  <2>1. UNCHANGED <<sequence, owner>>
    BY <1>4 DEF Req, ReqRefused, Subscribe, Unmap, coordVars, mapVars, stateVars
  <2>2. req[r].phase = "none" /\ Others(r) /\ opener' = opener
    BY <1>4, Takes, Refuses
  <2>3. QED BY <1>2, <2>1, <2>2 DEF Others
<1>5. ASSUME NEW r \in ReqIds, ReadCache(r) \/ ReadCacheFails(r) PROVE Opened'
  BY <1>2, <1>5, Reads DEF Others, coordVars, mapVars, stateVars
<1>6. CASE UNCHANGED <<req, opener>> /\ UNCHANGED <<sequence, owner>>
  BY <1>6
<1>7. ASSUME NEW p \in PubIds, PubStep(p) \/ \E c \in Clients, e \in Events : Event(p, c, e) PROVE Opened'
  <2>1. UNCHANGED <<req, opener>>
    BY <1>7, PubGoes, Publishes
  <2>2. UNCHANGED <<sequence, owner>>
    BY <1>7 DEF PubStep, Event, Save, Matched, Broadcast, MarkDelivered, coordVars, mapVars, stateVars
  <2>3. QED BY <1>6, <2>1, <2>2
<1>8. CASE (\E k \in Keys : Close(k)) \/ (\E c \in Clients : Disconnect(c)) \/ (\E u \in UpIds : Backfill(u)) \/ Upstream
  <2>1. UNCHANGED <<sequence, owner>>
    BY <1>8 DEF Close, CloseForSubscription, Disconnect, CloseAllForClient, Unmap, mapVars, stateVars,
       Backfill, IngestSkipped, IngestStart, SendEose, IngestDone,
       Upstream, UpstreamStep, HandleUpstreamEvent, HandleUpstreamEose, EoseTimeout, FlushEose
  <2>2. QED BY <1>6, <1>8, <2>1, Elsewhere
<1>9. CASE UNCHANGED vars
  BY <1>6, <1>9 DEF vars, coordVars, mapVars, stateVars
<1>10. QED
  BY <1>3, <1>4, <1>5, <1>7, <1>8, <1>9 DEF Next, ReqStep, Answers

-----------------------------------------------------------------------------
(* The tables of the SubscriptionManager.  A key is its two parts, and no  *)
(* request is the absent one.                                              *)
LEMMA KeyParts ==
  /\ \A k \in Keys : k[1] \in Clients /\ k[2] \in SubscriptionIds
  /\ \A j, k \in Keys : j = k <=> j[1] = k[1] /\ j[2] = k[2]
  /\ \A r \in ReqIds : r # NoReq
BY RequestsAssumption DEF Keys, ReqIds, NoReq

(* A step that does not touch the tables, the clients or a taken REQ.      *)
Quiet ==
  /\ UNCHANGED <<tableVars, connected>>
  /\ \A r \in ReqIds : req[r].key # NoKey => req'[r].key = req[r].key

(* Only REQ, CLOSE and disconnect write the subscription tables.           *)
LEMMA QuietSteps ==
  ASSUME HandlerTypes, Begun, [Next]_vars
  PROVE  \/ Quiet
         \/ \E r \in ReqIds, k \in Keys, f \in Filters : Req(r, k, f) \/ Subscribe(r, k, f)
         \/ \E k \in Keys : Close(k)
         \/ \E c \in Clients : Disconnect(c)
<1>1. ASSUME NEW r \in ReqIds, NEW k \in Keys, NEW f \in Filters, ReqRefused(r, k, f) PROVE Quiet
  BY <1>1, Refuses DEF Quiet, Others
<1>2. ASSUME NEW r \in ReqIds, ReadCache(r) \/ ReadCacheFails(r) PROVE Quiet
  BY <1>2, Reads DEF Quiet, Others
<1>3. ASSUME NEW r \in ReqIds, Answers(r) PROVE Quiet
  BY <1>3, Answering DEF Quiet, Others
<1>4. ASSUME NEW p \in PubIds, PubStep(p) \/ \E c \in Clients, e \in Events : Event(p, c, e) PROVE Quiet
  BY <1>4, PubGoes, Publishes DEF Quiet
<1>5. ASSUME NEW u \in UpIds, Backfill(u) \/ Upstream PROVE Quiet
  BY <1>5 DEF Backfill, Upstream, Quiet
<1>6. CASE UNCHANGED vars
  BY <1>6 DEF vars, Quiet
<1>7. CASE Upstream
  BY <1>7 DEF Upstream, Quiet
<1>8. QED
  BY <1>1, <1>2, <1>3, <1>4, <1>5, <1>6, <1>7 DEF Next, ReqStep, Answers

(* One subscription more, if it is one more.                               *)
LEMMA OneMoreKey ==
  ASSUME NEW S, NEW x, IsFiniteSet(S)
  PROVE  IsFiniteSet(S \cup {x}) /\ Cardinality(S \cup {x}) <= Cardinality(S) + 1 /\ Cardinality(S) \in Nat
<1>1. Cardinality(S) \in Nat
  BY FS_CardinalityType
<1>2. /\ IsFiniteSet(S \cup {x})
      /\ Cardinality(S \cup {x}) = IF x \in S THEN Cardinality(S) ELSE Cardinality(S) + 1
  BY FS_AddElement
<1>3. QED BY <1>1, <1>2

(* Every step keeps the two maps of the subscription manager in            *)
(* agreement, below the limit, and the clients of subscriptions            *)
(* connected.                                                              *)
LEMMA SubscriptionsStep ==
  ASSUME TablesTypes, HandlerTypes, Begun, TablesAgree, SubscriptionCap, Reached, [Next]_vars
  PROVE  TablesAgree' /\ SubscriptionCap' /\ Reached'
<1> DEFINE Goal == TablesAgree' /\ SubscriptionCap' /\ Reached'
<1> USE DEF TablesAgree, SubscriptionCap, Reached
<1>0. /\ MaxSubscriptions \in Nat
      /\ \A k \in Keys : subscriptions[k] \in ReqIds \cup {NoReq}
      /\ \A k \in Keys : subscriptions[k] # NoReq => req[subscriptions[k]].key = k
      /\ \A k \in Keys : k # NoKey
  BY RequestsAssumption, NoKeyIsNone DEF TablesTypes
<1>1. ASSUME NEW r \in ReqIds, NEW k \in Keys, NEW f \in Filters, Req(r, k, f) \/ Subscribe(r, k, f)
      PROVE  Goal
  <2>1. /\ req[r].phase = "none" /\ Others(r) /\ req'[r].key = k
        /\ CreateSubscription(k, r) /\ connected' = connected
    BY <1>1, Takes
  <2>2. /\ subscriptions' = [subscriptions EXCEPT ![k] = r]
        /\ clientSubs' = [clientSubs EXCEPT ![k[1]] = @ \cup {k[2]}]
    BY <2>1 DEF CreateSubscription, ClientSubsWith
  <2>3. \A j \in Keys : subscriptions[j] # r
    BY <1>0, <2>1, KeyParts DEF Begun
  <2>4. TablesAgree'
    <3>1. ASSUME NEW j \in Keys
          PROVE  (subscriptions'[j] # NoReq <=> j[2] \in clientSubs'[j[1]])
                 /\ (subscriptions'[j] # NoReq => req'[subscriptions'[j]].key = j)
      <4>1. CASE j = k
        BY <2>1, <2>2, <4>1, KeyParts DEF TablesTypes
      <4>2. CASE j # k
        <5>1. subscriptions'[j] = subscriptions[j]
          BY <2>2, <4>2 DEF TablesTypes
        <5>2. j[2] \in clientSubs'[j[1]] <=> j[2] \in clientSubs[j[1]]
          BY <2>2, <4>2, KeyParts DEF TablesTypes
        <5>3. subscriptions[j] # NoReq => req'[subscriptions[j]] = req[subscriptions[j]]
          BY <1>0, <2>1, <2>3 DEF Others
        <5>4. QED BY <5>1, <5>2, <5>3
      <4>3. QED BY <4>1, <4>2
    <3>2. QED BY <3>1
  <2>5. SubscriptionCap' /\ \A c \in Clients : IsFiniteSet(clientSubs'[c])
    <3>1. IsFiniteSet(clientSubs[k[1]] \cup {k[2]})
          /\ Cardinality(clientSubs[k[1]] \cup {k[2]}) <= Cardinality(clientSubs[k[1]]) + 1
          /\ Cardinality(clientSubs[k[1]]) \in Nat
      <4> DEFINE S == clientSubs[k[1]]
      <4>1. IsFiniteSet(S)
        BY KeyParts
      <4>2. IsFiniteSet(S \cup {k[2]}) /\ Cardinality(S \cup {k[2]}) <= Cardinality(S) + 1 /\ Cardinality(S) \in Nat
        BY <4>1, OneMoreKey
      <4>3. QED BY <4>2
    <3>2. k[1] # Local => ~(Cardinality(clientSubs[k[1]]) >= MaxSubscriptions)
      BY <1>1 DEF Req, Subscribe, AtLimit
    <3>3. \A c \in Clients : clientSubs'[c] = IF c = k[1] THEN clientSubs[k[1]] \cup {k[2]} ELSE clientSubs[c]
      BY <2>2 DEF TablesTypes
    <3>4. k[1] # Local => Cardinality(clientSubs[k[1]] \cup {k[2]}) <= MaxSubscriptions
      <4>1. k[1] # Local => Cardinality(clientSubs[k[1]]) < MaxSubscriptions
        BY <1>0, <3>1, <3>2
      <4>2. Cardinality(clientSubs[k[1]] \cup {k[2]}) \in Nat
        BY <3>1, FS_CardinalityType
      <4>3. QED BY <1>0, <3>1, <4>1, <4>2
    <3>5. QED BY <3>1, <3>3, <3>4
  <2>6. \A j \in Keys : subscriptions'[j] # NoReq => j[1] \in connected
    <3>1. k[1] \in connected
      BY <1>1, KeyParts DEF Req, Subscribe
    <3>2. QED BY <2>2, <3>1 DEF TablesTypes
  <2>7. QED BY <2>1, <2>4, <2>5, <2>6
<1>2. ASSUME NEW k \in Keys, Close(k) PROVE Goal
  <2>1. /\ subscriptions' = [subscriptions EXCEPT ![k] = NoReq]
        /\ clientSubs' = [clientSubs EXCEPT ![k[1]] = @ \ {k[2]}]
        /\ UNCHANGED <<connected, req>>
    BY <1>2 DEF Close, RemoveSubscription, ClientSubsWithout
  <2>2. TablesAgree'
    BY <2>1, KeyParts DEF TablesTypes
  <2>3. \A c \in Clients : clientSubs'[c] \subseteq clientSubs[c]
    BY <2>1 DEF TablesTypes
  <2>4. SubscriptionCap' /\ \A c \in Clients : IsFiniteSet(clientSubs'[c])
    <3>1. \A c \in Clients : /\ IsFiniteSet(clientSubs'[c])
                             /\ Cardinality(clientSubs'[c]) <= Cardinality(clientSubs[c])
                             /\ Cardinality(clientSubs'[c]) \in Nat /\ Cardinality(clientSubs[c]) \in Nat
      BY <2>3, FS_Subset, FS_CardinalityType
    <3>2. QED BY <1>0, <3>1
  <2>5. QED BY <2>1, <2>2, <2>4 DEF TablesTypes
<1>3. ASSUME NEW c \in Clients, Disconnect(c) PROVE Goal
  <2>1. /\ subscriptions' = [k \in Keys |-> IF k[1] = c THEN NoReq ELSE subscriptions[k]]
        /\ clientSubs' = [clientSubs EXCEPT ![c] = {}]
        /\ connected' = connected \ {c} /\ c # Local /\ req' = req
    BY <1>3 DEF Disconnect, RemoveAllSubscriptions
  <2>2. TablesAgree'
    BY <2>1, KeyParts DEF TablesTypes
  <2>3. \A d \in Clients : clientSubs'[d] = IF d = c THEN {} ELSE clientSubs[d]
    BY <2>1 DEF TablesTypes
  <2>4. SubscriptionCap' /\ \A d \in Clients : IsFiniteSet(clientSubs'[d])
    BY <1>0, <2>3, FS_EmptySet
  <2>5. QED BY <2>1, <2>2, <2>4 DEF TablesTypes
<1>4. CASE Quiet
  <2>1. UNCHANGED <<subscriptions, clientSubs, connected>>
    BY <1>4 DEF Quiet, tableVars
  <2>2. TablesAgree'
    BY <1>0, <1>4, <2>1 DEF Quiet
  <2>3. QED BY <2>1, <2>2
<1>5. QED
  BY <1>1, <1>2, <1>3, <1>4, QuietSteps

-----------------------------------------------------------------------------
(* The client's subscription and the upstream one.  Closing keys forgets   *)
(* the upstream subscriptions owned by them, and no other.                 *)
LEMMA Unmapped ==
  ASSUME CoordInv, NEW K \in SUBSET Keys, Unmap(K)
  PROVE  /\ subs' \subseteq subs /\ \A u \in subs' : owner[u] \notin K
         /\ UNCHANGED <<sequence, owner>>
<1>1. subs' = subs \ Upstreams(K) /\ UNCHANGED <<sequence, owner>>
  BY DEF Unmap, stateVars
<1>2. QED BY <1>1, Named

(* The steps that only lose upstream subscriptions, and no key.            *)
Idle ==
  /\ subs' \subseteq subs /\ UNCHANGED <<owner, opener, subscriptions, rushed>>
  /\ \A r \in ReqIds : InFlight(r)' => InFlight(r) /\ req'[r].key = req[r].key

(* Only REQ, an answer that goes upstream, CLOSE and disconnect touch who  *)
(* owns an upstream subscription.                                          *)
LEMMA IdleSteps ==
  ASSUME HandlerTypes, Begun, [Next]_vars
  PROVE  \/ Idle
         \/ \E r \in ReqIds, k \in Keys, f \in Filters : Req(r, k, f) \/ Subscribe(r, k, f)
         \/ \E r \in ReqIds : Answers(r) /\ req'[r].phase = "done" /\ GoUpstream(r, Cached(r))
         \/ \E k \in Keys : Close(k)
         \/ \E c \in Clients : Disconnect(c)
<1> USE DEF Idle, InFlight, tableVars, coordVars, mapVars, stateVars
<1>1. ASSUME NEW r \in ReqIds, NEW k \in Keys, NEW f \in Filters, ReqRefused(r, k, f) PROVE Idle
  BY <1>1, Refuses DEF Others
<1>2. ASSUME NEW r \in ReqIds, ReadCache(r) \/ ReadCacheFails(r) PROVE Idle
  BY <1>2, Reads DEF Others
<1>3. ASSUME NEW r \in ReqIds, Answers(r), ~(req'[r].phase = "done" /\ GoUpstream(r, Cached(r))) PROVE Idle
  <2>1. UNCHANGED <<coordVars, opener>>
    BY <1>3, Answering DEF EndHere
  <2>2. QED BY <1>3, <2>1, Answering DEF Others
<1>4. ASSUME NEW p \in PubIds, PubStep(p) \/ \E c \in Clients, e \in Events : Event(p, c, e) PROVE Idle
  <2>1. UNCHANGED <<req, opener, tableVars, rushed>>
    BY <1>4, PubGoes, Publishes
  <2>2. UNCHANGED <<subs, owner>>
    BY <1>4 DEF PubStep, Event, Save, Matched, Broadcast, MarkDelivered
  <2>3. QED BY <2>1, <2>2
<1>5. ASSUME NEW u \in UpIds, Backfill(u) PROVE Idle
  BY <1>5 DEF Backfill, IngestSkipped, IngestStart, SendEose, IngestDone
<1>6. CASE Upstream
  BY <1>6 DEF Upstream, UpstreamStep, HandleUpstreamEvent, HandleUpstreamEose, EoseTimeout, FlushEose
<1>7. CASE UNCHANGED vars
  BY <1>7 DEF vars
<1>8. QED
  BY <1>1, <1>2, <1>3, <1>4, <1>5, <1>6, <1>7 DEF Next, ReqStep, Answers

(* Every step keeps the transport in step with the upstream                *)
(* subscriptions, where no request was overtaken.                          *)
LEMMA InStepStep ==
  ASSUME CoordInv, TablesTypes, HandlerTypes, Begun, TransportInStep, StillRegistered, [Next]_vars
  PROVE  TransportInStep' /\ StillRegistered'
<1> DEFINE Goal == TransportInStep' /\ StillRegistered'
<1>0. /\ \A u \in subs : owner[u] \in Keys /\ u \in UpIds
      /\ \A r \in ReqIds : InFlight(r) => req[r].key \in Keys
      /\ \A k \in Keys : k # NoKey
      /\ sequence \in Nat /\ sequence + 1 \notin subs
      /\ subscriptions \in [Keys -> ReqIds \cup {NoReq}]
  <2>1. /\ sequence \in 0..MaxUp /\ subs \subseteq 1..sequence /\ \A u \in subs : owner[u] \in Keys
        /\ subscriptions \in [Keys -> ReqIds \cup {NoReq}]
        /\ UpIds = 1..MaxUp /\ MaxUp \in Nat
    BY CoordinatorAssumption DEF CoordInv, CoordStateOK, Owned, TablesTypes
  <2>2. \A u \in subs : u \in UpIds
    BY <2>1
  <2>3. sequence \in Nat /\ sequence + 1 \notin subs
    BY <2>1
  <2>4. \A r \in ReqIds : InFlight(r) => req[r].key \in Keys
    BY DEF Begun, InFlight
  <2>5. QED BY <2>1, <2>2, <2>3, <2>4, NoKeyIsNone
<1> USE DEF TransportInStep, StillRegistered, Registered
<1>1. ASSUME NEW r \in ReqIds, NEW k \in Keys, NEW f \in Filters, Req(r, k, f) \/ Subscribe(r, k, f)
      PROVE  Goal
  <2>1. /\ Others(r) /\ req'[r].key = k /\ opener' = opener
        /\ subscriptions' = [subscriptions EXCEPT ![k] = r]
        /\ rushed' = rushed \cup {j \in {k} : Busy(j)}
    BY <1>1, Takes DEF CreateSubscription, Rush
  <2>2. /\ subs' \subseteq subs /\ owner' = owner
        /\ k[1] # Local => \A u \in subs' : owner[u] # k
    BY <1>1, Unmapped DEF Req, Subscribe, ClosedFirst, coordVars, mapVars, stateVars
  <2>3. TransportInStep'
    BY <1>0, <2>1, <2>2
  <2>4. ASSUME NEW q \in ReqIds, InFlight(q)', req'[q].key \notin rushed'
        PROVE  Registered(q)'
    <3>1. CASE q = r
      BY <1>0, <2>1, <3>1
    <3>2. CASE q # r
      <4>1. req'[q] = req[q] /\ InFlight(q)
        BY <2>1, <2>4, <3>2 DEF Others, InFlight
      <4>2. req[q].key # k
        BY <2>1, <2>4, <4>1 DEF Busy
      <4>3. QED BY <1>0, <2>1, <2>4, <4>1, <4>2
    <3>3. QED BY <3>1, <3>2
  <2>5. QED BY <2>3, <2>4
<1>2. ASSUME NEW r \in ReqIds, Answers(r), req'[r].phase = "done", GoUpstream(r, Cached(r)) PROVE Goal
  <2> DEFINE u == sequence + 1
             k == req[r].key
  <2>1. /\ u \in UpIds /\ owner' = [owner EXCEPT ![u] = k] /\ opener' = [opener EXCEPT ![u] = r]
        /\ subs' \subseteq subs \cup {u}
    BY <1>2 DEF GoUpstream, OpenForSubscription
  <2>2. /\ Others(r) /\ InFlight(r) /\ req'[r].key = k
        /\ UNCHANGED <<subscriptions, rushed>>
    BY <1>2, Answering DEF InFlight, tableVars
  <2>3. k[1] # Local /\ k \notin rushed => subscriptions[k] = r
    BY <2>2
  <2>4. owner'[u] = k /\ opener'[u] = r
    BY <2>1 DEF HandlerTypes, CoordInv, CoordStateOK
  <2>5. \A v \in subs : owner'[v] = owner[v] /\ opener'[v] = opener[v]
    <3>1. \A v \in subs : v # u /\ v \in UpIds
      BY <1>0
    <3>2. owner \in [UpIds -> Keys \cup {NoKey}] /\ opener \in [UpIds -> ReqIds \cup {NoReq}]
      BY DEF HandlerTypes, CoordInv, CoordStateOK
    <3>3. QED BY <2>1, <3>1, <3>2
  <2> HIDE DEF u, k
  <2>6. TransportInStep'
    BY <2>1, <2>2, <2>3, <2>4, <2>5
  <2>7. StillRegistered'
    BY <1>2, <2>2 DEF Others, InFlight
  <2>8. QED BY <2>6, <2>7
<1>3. ASSUME NEW k \in Keys, Close(k) PROVE Goal
  <2>1. /\ subscriptions' = [subscriptions EXCEPT ![k] = NoReq]
        /\ rushed' = rushed \cup {j \in {k} : Busy(j)} /\ UNCHANGED <<req, opener>>
    BY <1>3 DEF Close, RemoveSubscription, Rush
  <2>2. subs' \subseteq subs /\ owner' = owner /\ \A u \in subs' : owner[u] # k
    BY <1>3, Unmapped DEF Close, CloseForSubscription
  <2>3. TransportInStep'
    BY <1>0, <2>1, <2>2
  <2>4. StillRegistered'
    BY <1>0, <2>1 DEF Busy, InFlight
  <2>5. QED BY <2>3, <2>4
<1>4. ASSUME NEW c \in Clients, Disconnect(c) PROVE Goal
  <2> DEFINE K == {k \in Keys : k[1] = c}
  <2>1. /\ subscriptions' = [k \in Keys |-> IF k[1] = c THEN NoReq ELSE subscriptions[k]]
        /\ rushed' = rushed \cup {k \in K : Busy(k)} /\ UNCHANGED <<req, opener>>
    BY <1>4 DEF Disconnect, RemoveAllSubscriptions, Rush
  <2>2. subs' \subseteq subs /\ owner' = owner /\ \A u \in subs' : owner[u] \notin K
    BY <1>4, Unmapped DEF Disconnect, CloseAllForClient
  <2>3. TransportInStep'
    BY <1>0, <2>1, <2>2
  <2>4. StillRegistered'
    BY <1>0, <2>1 DEF Busy, InFlight
  <2>5. QED BY <2>3, <2>4
<1>5. CASE Idle
  BY <1>0, <1>5 DEF Idle
<1>6. QED
  BY <1>1, <1>2, <1>3, <1>4, <1>5, IdleSteps

-----------------------------------------------------------------------------
(* The EOSE of a request.  Most steps send nobody anything.                *)
Unsent ==
  /\ UNCHANGED <<got, out, opener, sequence>>
  /\ \A r \in ReqIds : req[r].phase = "done" => req'[r].phase = "done"

(* The steps that send: a handler answers, a publication is broadcast, or  *)
(* the coordinator delivers.                                               *)
LEMMA UnsentSteps ==
  ASSUME CoordInv, HandlerTypes, Begun, Opened, [Next]_vars
  PROVE  \/ Unsent
         \/ \E r \in ReqIds : Answers(r)
         \/ \E p \in PubIds : Broadcast(p)
         \/ \E u \in UpIds, x \in Messages : Backfill(u) /\ Passes(u, x)
<1> USE DEF Unsent, coordVars, mapVars, stateVars
<1>1. ASSUME NEW r \in ReqIds, NEW k \in Keys, NEW f \in Filters, Req(r, k, f) \/ Subscribe(r, k, f) PROVE Unsent
  <2>1. UNCHANGED <<out, sequence>>
    BY <1>1 DEF Req, Subscribe, Unmap
  <2>2. QED BY <1>1, <2>1, Takes DEF Others
<1>2. ASSUME NEW r \in ReqIds, NEW k \in Keys, NEW f \in Filters, ReqRefused(r, k, f) PROVE Unsent
  BY <1>2, Refuses DEF Others
<1>3. ASSUME NEW r \in ReqIds, ReadCache(r) \/ ReadCacheFails(r) PROVE Unsent
  BY <1>3, Reads DEF Others
<1>4. ASSUME NEW k \in Keys, Close(k) PROVE Unsent
  BY <1>4 DEF Close, CloseForSubscription, Unmap
<1>5. ASSUME NEW c \in Clients, Disconnect(c) PROVE Unsent
  BY <1>5 DEF Disconnect, CloseAllForClient, Unmap
<1>6. ASSUME NEW p \in PubIds, Save(p) \/ Matched(p) \/ \E c \in Clients, e \in Events : Event(p, c, e) PROVE Unsent
  BY <1>6 DEF Save, Matched, Event
<1>7. ASSUME NEW u \in UpIds, Backfill(u), out' = out, got' = got PROVE Unsent
  <2>1. UNCHANGED <<sequence, opener, req>>
    BY <1>7 DEF Backfill, IngestSkipped, IngestStart, SendEose, IngestDone
  <2>2. QED BY <1>7, <2>1
<1>8. CASE Upstream
  BY <1>8 DEF Upstream, UpstreamStep, HandleUpstreamEvent, HandleUpstreamEose, EoseTimeout, FlushEose
<1>9. CASE UNCHANGED vars
  BY <1>9 DEF vars
<1>10. QED
  BY <1>1, <1>2, <1>3, <1>4, <1>5, <1>6, <1>7, <1>8, <1>9, BackfillPasses DEF Next, ReqStep, PubStep, Answers

(* The rest of an answer, or of nothing.                                   *)
LEMMA EndedWithEose ==
  ASSUME NEW s \in Seq(Messages), NEW t \in Seq(Messages)
  PROVE  s \o t \o <<Eose>> = Append(s \o t, Eose) /\ s \o t \o <<>> = s \o t
OBVIOUS

(* An answer sends EOSE itself or leaves it to the one upstream            *)
(* subscription it opens.                                                  *)
LEMMA AnswersEnd ==
  ASSUME CoordInv, HandlerTypes, Begun, Opened, EosesCounted, NEW r \in ReqIds, Answers(r)
  PROVE  EosesCounted'
<1> USE DEF EosesCounted
<1>0. /\ got \in [ReqIds -> Seq(Messages)] /\ Eose \in Messages
      /\ UpIds = 1..MaxUp /\ MaxUp \in Nat /\ sequence \in Nat
      /\ opener \in [UpIds -> ReqIds \cup {NoReq}]
  BY CoordinatorAssumption DEF HandlerTypes, CoordInv, CoordStateOK, Messages
<1>1. /\ req[r].phase \in {"read", "narrowing"} /\ Others(r)
      /\ Cached(r) \in Seq(Messages) /\ ~Ended(Cached(r))
  BY Answering, EventsOnly
<1>2. ~Ended(got[r]) /\ EndsOnce(got[r]) /\ \A u \in Used : opener[u] # r
  BY <1>1 DEF Opened
<1> DEFINE s == got[r] \o Cached(r)
<1>3. s \in Seq(Messages) /\ ~Ended(s) /\ EndsOnce(s)
  BY <1>0, <1>1, <1>2, Followed
<1>4. s \o <<Eose>> = Append(s, Eose) /\ s \o <<>> = s
  BY <1>0, <1>1, EndedWithEose
<1> HIDE DEF s
<1>5. EndsOnce(Append(s, Eose))
  BY <1>0, <1>3, Added
<1>6. CASE EndHere(r, Cached(r)) /\ req'[r].phase = "done"
  <2>1. UNCHANGED <<out, opener, sequence>>
    BY <1>6 DEF EndHere, coordVars, mapVars, stateVars
  <2>2. \A q \in ReqIds : q # r => got'[q] = got[q]
    BY <1>0, <1>6 DEF EndHere
  <2>3. got'[r] = got[r] \/ got'[r] = Append(s, Eose)
    BY <1>0, <1>4, <1>6 DEF EndHere, s
  <2>4. ASSUME NEW q \in ReqIds
        PROVE  /\ EndsOnce(got'[q])
               /\ Ended(got'[q]) => /\ req'[q].phase = "done"
                                    /\ \A u \in Used : opener[u] = q => Ended(out[u])
    <3>1. CASE q = r BY <1>2, <1>5, <1>6, <2>3, <3>1
    <3>2. CASE q # r
      <4>1. got'[q] = got[q] /\ req'[q] = req[q] BY <1>1, <2>2, <3>2 DEF Others
      <4>2. QED BY <4>1
    <3>3. QED BY <3>1, <3>2
  <2>5. Used' = Used BY <2>1 DEF Used
  <2>6. QED BY <2>1, <2>4, <2>5
<1>7. CASE GoUpstream(r, Cached(r)) /\ req'[r].phase = "done"
  <2> DEFINE u == sequence + 1
  <2>1. /\ u \in UpIds /\ sequence' = u /\ opener' = [opener EXCEPT ![u] = r] /\ out' = out
    BY <1>7 DEF GoUpstream, OpenForSubscription
  <2>2. \A q \in ReqIds : q # r => got'[q] = got[q]
    BY <1>0, <1>7 DEF GoUpstream
  <2>3. got'[r] = got[r] \/ got'[r] = s
    BY <1>0, <1>4, <1>7 DEF GoUpstream, EoseWhenOpening, s
  <2>4. \A v \in Used' : v = u \/ (v # u /\ v \in Used /\ v \in UpIds)
    BY <1>0, <2>1 DEF Used
  <2>5. opener'[u] = r /\ \A v \in Used : v # u => opener'[v] = opener[v]
    BY <1>0, <2>1, <2>4 DEF Used
  <2> HIDE DEF u
  <2>6. ~Ended(got'[r]) /\ EndsOnce(got'[r])
    BY <1>2, <1>3, <2>3
  <2>7. QED
    BY <1>1, <2>1, <2>2, <2>4, <2>5, <2>6 DEF Others
<1>8. CASE got' = [got EXCEPT ![r] = IF Reachable(r) THEN @ \o Cached(r) ELSE @] /\ UNCHANGED <<coordVars, opener>>
  <2>1. UNCHANGED <<out, opener, sequence>>
    BY <1>8 DEF coordVars, mapVars, stateVars
  <2>2. \A q \in ReqIds : q # r => got'[q] = got[q]
    BY <1>0, <1>8
  <2>3. got'[r] = got[r] \/ got'[r] = s
    BY <1>0, <1>8 DEF s
  <2>4. ~Ended(got'[r]) /\ EndsOnce(got'[r])
    BY <1>2, <1>3, <2>3
  <2>5. QED
    BY <1>1, <2>1, <2>2, <2>4 DEF Others, Used
<1>9. QED
  BY <1>6, <1>7, <1>8, Answering

(* Every step keeps count of the EOSEs: sent, or still to come.            *)
LEMMA EosesStep ==
  ASSUME CoordInv, HandlerTypes, Begun, Opened, EosesCounted, [Next]_vars
  PROVE  EosesCounted'
<1> USE DEF EosesCounted
<1>0. /\ got \in [ReqIds -> Seq(Messages)] /\ Eose \in Messages /\ Eose \notin Events
      /\ Events \subseteq Messages /\ out \in [UpIds -> Seq(Messages)]
  BY CoordinatorAssumption DEF HandlerTypes, CoordInv, CoordStateOK, Messages
<1>1. CASE Unsent
  BY <1>1 DEF Unsent, Used
<1>2. ASSUME NEW p \in PubIds, Broadcast(p) PROVE EosesCounted'
  <2> DEFINE e == pub[p].event
  <2>1. e \in Events /\ e \in Messages /\ e # Eose
    BY <1>0, <1>2 DEF Broadcast, Begun
  <2>2. \A r \in ReqIds : got'[r] = got[r] \/ got'[r] = Append(got[r], e)
    BY <1>2 DEF Broadcast
  <2>3. UNCHANGED <<out, opener, sequence, req>>
    BY <1>2 DEF Broadcast, MarkDelivered, mapVars
  <2> HIDE DEF e
  <2>4. ASSUME NEW r \in ReqIds
        PROVE  EndsOnce(got'[r]) /\ (Ended(got'[r]) => Ended(got[r]))
    <3>1. got[r] \in Seq(Messages) /\ EndsOnce(got[r])
      BY <1>0
    <3>2. /\ EndsOnce(Append(got[r], e))
          /\ Ended(Append(got[r], e)) => Ended(got[r])
      BY <2>1, <3>1, Added
    <3>3. QED BY <2>2, <3>1, <3>2
  <2>5. QED BY <2>3, <2>4 DEF Used
<1>3. ASSUME NEW u \in UpIds, NEW x \in Messages, Backfill(u), Passes(u, x) PROVE EosesCounted'
  <2> DEFINE r == opener[u]
  <2>1. /\ r \in ReqIds /\ u \in Used /\ req[r].phase = "done"
        /\ \A v \in Used : opener[v] = r => v = u
        /\ \A q \in ReqIds : q # r => got'[q] = got[q]
        /\ got'[r] = got[r] \/ got'[r] = Append(got[r], x)
        /\ \A v \in UpIds : v # u => out'[v] = out[v]
        /\ out'[u] = Append(out[u], x)
    BY <1>0, <1>3 DEF Passes, Opened
  <2>2. UNCHANGED <<sequence, opener, req>>
    BY <1>3 DEF Backfill, IngestSkipped, IngestStart, SendEose, IngestDone, mapVars
  <2>3. \A v \in Used : v \in UpIds
    BY CoordinatorAssumption DEF CoordInv, CoordStateOK, Used
  <2> HIDE DEF r
  <2>4. CASE x # Eose
    <3>1. EndsOnce(got'[r]) /\ (Ended(got'[r]) => Ended(got[r]))
      <4>1. got[r] \in Seq(Messages) /\ EndsOnce(got[r])
        BY <1>0, <2>1
      <4>2. EndsOnce(Append(got[r], x)) /\ (Ended(Append(got[r], x)) => Ended(got[r]))
        BY <2>4, <4>1, Added
      <4>3. QED BY <2>1, <4>1, <4>2
    <3>2. Ended(out[u]) => Ended(out'[u])
      BY <1>0, <2>1, <2>4, Added
    <3>3. QED BY <2>1, <2>2, <2>3, <3>1, <3>2 DEF Used
  <2>5. CASE x = Eose
    <3>1. SendEose(u)
      BY <1>0, <1>3, <2>5 DEF Passes
    <3>2. ~Ended(out[u])
      <4>1. chain[u] # <<>> /\ chain[u] \in Seq(Items) /\ Head(chain[u]).what = Eose
        BY <3>1, ChainTypes DEF SendEose
      <4>2. 1 \in DOMAIN chain[u] /\ chain[u][1].what = Eose
        BY <4>1, Tailed
      <4>3. QED BY <4>2 DEF CoordInv, EosePlace, Placed, Ended
    <3>3. ~Ended(got[r])
      BY <2>1, <3>2 DEF r
    <3>4. EndsOnce(got'[r])
      <4>1. got[r] \in Seq(Messages) /\ EndsOnce(got[r])
        BY <1>0, <2>1
      <4>2. EndsOnce(Append(got[r], x))
        BY <3>3, <4>1, Added
      <4>3. QED BY <2>1, <4>1, <4>2
    <3>5. Ended(out'[u])
      BY <1>0, <2>1, <2>5, Added
    <3>6. \A q \in ReqIds : q # r => got'[q] = got[q] BY <2>1
    <3>7. \A v \in Used : Ended(out[v]) => Ended(out'[v]) BY <2>1, <2>3, <3>5
    <3>8. \A v \in Used : opener[v] = r => Ended(out'[v]) BY <2>1, <3>5
    <3>9. Used' = Used /\ req' = req /\ opener' = opener BY <2>2 DEF Used
    <3>10. QED BY <2>1, <3>4, <3>6, <3>7, <3>8, <3>9
  <2>6. QED BY <2>4, <2>5
<1>4. QED
  BY <1>1, <1>2, <1>3, AnswersEnd, UnsentSteps

-----------------------------------------------------------------------------
(* No gap.  What a step does to one request and to one publication.        *)
LEMMA ReqMoves ==
  ASSUME HandlerTypes, Begun, [Next]_vars, NEW r \in ReqIds
  PROVE  \/ req'[r] = req[r]
         \/ Answers(r)
         \/ ReadCache(r) \/ ReadCacheFails(r)
         \/ req'[r].phase \in {"reading", "refused"}
<1> DEFINE Goal == \/ req'[r] = req[r]
                   \/ Answers(r)
                   \/ ReadCache(r) \/ ReadCacheFails(r)
                   \/ req'[r].phase \in {"reading", "refused"}
<1> SUFFICES Goal
  OBVIOUS
<1>1. ASSUME NEW q \in ReqIds, NEW k \in Keys, NEW f \in Filters, Req(q, k, f) \/ Subscribe(q, k, f) PROVE Goal
  BY <1>1, Takes DEF Others
<1>2. ASSUME NEW q \in ReqIds, NEW k \in Keys, NEW f \in Filters, ReqRefused(q, k, f) PROVE Goal
  BY <1>2, Refuses DEF Others
<1>3. ASSUME NEW q \in ReqIds, ReadCache(q) \/ ReadCacheFails(q) PROVE Goal
  BY <1>3, Reads DEF Others
<1>4. ASSUME NEW q \in ReqIds, Answers(q) PROVE Goal
  BY <1>4, Answering DEF Others
<1>5. ASSUME NEW p \in PubIds, PubStep(p) PROVE Goal
  BY <1>5, PubGoes
<1>6. ASSUME NEW p \in PubIds, NEW c \in Clients, NEW e \in Events, Event(p, c, e) PROVE Goal
  BY <1>6, Publishes
<1>7. CASE UNCHANGED req
  BY <1>7
<1>8. QED
  BY <1>1, <1>2, <1>3, <1>4, <1>5, <1>6, <1>7, Elsewhere DEF Next, ReqStep, Answers, vars

(* Only its own steps move a publication.                                  *)
LEMMA PubMoves ==
  ASSUME HandlerTypes, [Next]_vars, NEW p \in PubIds
  PROVE  pub'[p] = pub[p] \/ PubStep(p) \/ pub'[p].phase = "saving"
<1> DEFINE Goal == pub'[p] = pub[p] \/ PubStep(p) \/ pub'[p].phase = "saving"
<1> SUFFICES Goal
  OBVIOUS
<1>1. ASSUME NEW r \in ReqIds, NEW k \in Keys, NEW f \in Filters, Req(r, k, f) \/ Subscribe(r, k, f) \/ ReqRefused(r, k, f)
      PROVE  Goal
  BY <1>1 DEF Req, Subscribe, ReqRefused
<1>2. ASSUME NEW r \in ReqIds, ReqStep(r) PROVE Goal
  BY <1>2 DEF ReqStep, ReadCache, ReadCacheFails, Reply, Narrowed
<1>3. ASSUME NEW q \in PubIds, PubStep(q) PROVE Goal
  BY <1>3, PubGoes DEF OtherPubs
<1>4. ASSUME NEW q \in PubIds, NEW c \in Clients, NEW e \in Events, Event(q, c, e) PROVE Goal
  BY <1>4, Publishes DEF OtherPubs
<1>5. CASE UNCHANGED pub
  BY <1>5
<1>6. QED
  BY <1>1, <1>2, <1>3, <1>4, <1>5, Elsewhere DEF Next, vars

(* What a subscriber got it keeps.                                         *)
LEMMA GotGrows ==
  ASSUME CoordInv, HandlerTypes, Begun, Opened, [Next]_vars, NEW r \in ReqIds
  PROVE  ToSet(got[r]) \subseteq ToSet(got'[r])
<1>0. got \in [ReqIds -> Seq(Messages)] /\ got[r] \in Seq(Messages) /\ Eose \in Messages
  BY DEF HandlerTypes, Messages
<1>1. ASSUME NEW m \in Messages, got'[r] = got[r] \/ got'[r] = Append(got[r], m)
      PROVE  ToSet(got[r]) \subseteq ToSet(got'[r])
  <2>1. ToSet(Append(got[r], m)) = ToSet(got[r]) \cup {m}
    BY <1>0, Added
  <2>2. QED BY <1>1, <2>1
<1>2. CASE UNCHANGED got
  BY <1>2
<1>3. ASSUME NEW q \in ReqIds, Answers(q) PROVE ToSet(got[r]) \subseteq ToSet(got'[r])
  <2> DEFINE s == got[r] \o Cached(r)
  <2>1. Cached(q) \in Seq(Messages)
    BY <1>3, Answering, EventsOnly
  <2>2. \/ got'[r] = got[r]
        \/ q = r /\ got'[r] = s \o <<Eose>>
        \/ q = r /\ (got'[r] = s \o <<>> \/ got'[r] = s)
    BY <1>0, <1>3, Answering DEF EndHere, GoUpstream, EoseWhenOpening
  <2>3. CASE got'[r] = got[r]
    BY <2>3
  <2>4. CASE q = r /\ got'[r] # got[r]
    <3>1. s \in Seq(Messages) /\ ToSet(s) = ToSet(got[r]) \cup ToSet(Cached(r))
      BY <1>0, <2>1, <2>4, Followed
    <3>2. s \o <<Eose>> = Append(s, Eose) /\ s \o <<>> = s
      BY <1>0, <2>1, <2>4, EndedWithEose
    <3> HIDE DEF s
    <3>3. ToSet(Append(s, Eose)) = ToSet(s) \cup {Eose}
      BY <1>0, <3>1, Added
    <3>4. QED BY <2>2, <2>4, <3>1, <3>2, <3>3
  <2>5. QED BY <2>2, <2>3, <2>4
<1>4. ASSUME NEW p \in PubIds, Broadcast(p) PROVE ToSet(got[r]) \subseteq ToSet(got'[r])
  <2>1. pub[p].event \in Messages
    BY <1>4 DEF Broadcast, Begun, Messages
  <2>2. got'[r] = got[r] \/ got'[r] = Append(got[r], pub[p].event)
    BY <1>4 DEF Broadcast
  <2>3. QED BY <1>1, <2>1, <2>2
<1>5. ASSUME NEW u \in UpIds, NEW x \in Messages, Passes(u, x) PROVE ToSet(got[r]) \subseteq ToSet(got'[r])
  <2>1. got'[r] = got[r] \/ got'[r] = Append(got[r], x)
    BY <1>0, <1>5 DEF Passes
  <2>2. QED BY <1>1, <2>1
<1>6. QED
  BY <1>2, <1>3, <1>4, <1>5, UnsentSteps DEF Unsent

(* Only a REQ that is taken becomes registered.                            *)
LEMMA OnlyTakesRegister ==
  ASSUME TablesTypes, HandlerTypes, HandlerTypes', Begun, TablesAgree, [Next]_vars,
         NEW r \in ReqIds, Registered(r)'
  PROVE  req'[r].phase = "reading" \/ Registered(r)
<1> USE DEF Registered
<1>0. /\ req'[r].key \in Keys /\ subscriptions'[req'[r].key] = r /\ r # NoReq
      /\ subscriptions \in [Keys -> ReqIds \cup {NoReq}]
  BY KeyParts DEF HandlerTypes, ReqState, TablesTypes
<1>1. ASSUME NEW q \in ReqIds, NEW k \in Keys, NEW f \in Filters, Req(q, k, f) \/ Subscribe(q, k, f)
      PROVE  req'[r].phase = "reading" \/ Registered(r)
  <2>1. Others(q) /\ req'[q].phase = "reading" /\ subscriptions' = [subscriptions EXCEPT ![k] = q]
    BY <1>1, Takes DEF CreateSubscription
  <2>2. QED BY <1>0, <2>1 DEF Others
<1>2. ASSUME NEW k \in Keys, Close(k) PROVE Registered(r)
  BY <1>0, <1>2 DEF Close, RemoveSubscription
<1>3. ASSUME NEW c \in Clients, Disconnect(c) PROVE Registered(r)
  BY <1>0, <1>3 DEF Disconnect, RemoveAllSubscriptions
<1>4. CASE Quiet
  <2>1. subscriptions[req'[r].key] = r
    BY <1>0, <1>4 DEF Quiet, tableVars
  <2>2. req[r].key = req'[r].key
    BY <1>0, <2>1 DEF TablesAgree
  <2>3. QED BY <1>0, <2>1, <2>2, NoKeyIsNone
<1>5. QED
  BY <1>1, <1>2, <1>3, <1>4, QuietSteps

(* Who is registered can be reached.                                       *)
LEMMA RegisteredReachable ==
  ASSUME HandlerTypes, Reached, NEW r \in ReqIds, Registered(r)
  PROVE  Reachable(r)
BY KeyParts DEF HandlerTypes, ReqState, Reached, Registered, Reachable

(* Every step keeps that a registered client has what the cache held for   *)
(* it.                                                                     *)
LEMMA CacheSentStep ==
  ASSUME CoordInv, TablesTypes, HandlerTypes, HandlerTypes', Begun, Opened, TablesAgree, Reached, CacheSent, [Next]_vars
  PROVE  CacheSent'
<1> SUFFICES ASSUME NEW r \in ReqIds, req'[r].phase \in {"narrowing", "done"}, Registered(r)'
             PROVE  req'[r].sent \subseteq ToSet(got'[r])
  BY DEF CacheSent
<1>1. Registered(r) /\ Reachable(r)
  BY OnlyTakesRegister, RegisteredReachable
<1>2. ToSet(got[r]) \subseteq ToSet(got'[r])
  BY GotGrows
<1>3. CASE req'[r] = req[r]
  BY <1>1, <1>2, <1>3 DEF CacheSent
<1>4. CASE Answers(r)
  <2>1. /\ req'[r].sent = req[r].sent /\ req[r].phase \in {"read", "narrowing"}
        /\ Cached(r) \in Seq(Messages)
        /\ ToSet(Cached(r)) = IF req[r].phase = "read" THEN req[r].sent ELSE {}
    BY <1>4, Answering, EventsOnly
  <2>2. CASE req[r].phase = "narrowing"
    BY <1>1, <1>2, <2>1, <2>2 DEF CacheSent
  <2>3. CASE req[r].phase = "read"
    <3> DEFINE s == got[r] \o Cached(r)
    <3>1. got \in [ReqIds -> Seq(Messages)] /\ got[r] \in Seq(Messages) /\ Eose \in Messages
      BY DEF HandlerTypes, Messages
    <3>2. got'[r] = s \o <<Eose>> \/ got'[r] = s \o <<>> \/ got'[r] = s
      BY <1>1, <1>4, <3>1, Answering DEF EndHere, GoUpstream, EoseWhenOpening
    <3>3. s \in Seq(Messages) /\ req[r].sent \subseteq ToSet(s)
      BY <2>1, <2>3, <3>1, Followed
    <3>4. s \o <<Eose>> = Append(s, Eose) /\ s \o <<>> = s
      BY <2>1, <3>1, EndedWithEose
    <3> HIDE DEF s
    <3>5. ToSet(Append(s, Eose)) = ToSet(s) \cup {Eose}
      BY <3>1, <3>3, Added
    <3>6. QED BY <2>1, <3>2, <3>3, <3>4, <3>5
  <2>4. QED BY <2>1, <2>2, <2>3
<1>5. CASE ReadCache(r) \/ ReadCacheFails(r)
  BY <1>5, Reads
<1>6. QED
  BY <1>3, <1>4, <1>5, ReqMoves

(* A publication past its save has its event stored.                       *)
LEMMA SavedStep ==
  ASSUME CoordInv, HandlerTypes, SavedIsStored, [Next]_vars
  PROVE  SavedIsStored'
<1> SUFFICES ASSUME NEW p \in PubIds, pub'[p].phase \in {"saved", "matched", "done"}
             PROVE  pub'[p].event \in store'
  BY DEF SavedIsStored
<1>1. store \subseteq store'
  <2>1. ASSUME NEW q \in PubIds, PubStep(q) PROVE store \subseteq store'
    BY <2>1, PubGoes
  <2>2. ASSUME NEW u \in UpIds, Backfill(u) PROVE store \subseteq store'
    BY <2>2 DEF Backfill
  <2>3. QED
    BY <2>1, <2>2 DEF Next, Req, ReqRefused, Subscribe, ReqStep, ReadCache, ReadCacheFails, Reply, Narrowed,
       Close, Disconnect, Event, Upstream, vars
<1>2. CASE pub'[p] = pub[p]
  BY <1>1, <1>2 DEF SavedIsStored
<1>3. CASE PubStep(p)
  <2>1. pub'[p].event = pub[p].event
    BY <1>3, PubGoes
  <2>2. CASE Save(p)
    BY <2>1, <2>2 DEF Save, HandlerTypes, PubState
  <2>3. CASE pub[p].phase \in {"saved", "matched"}
    BY <1>1, <2>1, <2>3 DEF SavedIsStored
  <2>4. QED BY <1>3, <2>2, <2>3, PubGoes
<1>4. QED
  BY <1>2, <1>3, PubMoves

(* Every step keeps a matching event and subscription from missing each    *)
(* other: whichever comes later sees the earlier.                          *)
LEMMA CoveredStep ==
  ASSUME CoordInv, TablesTypes, HandlerTypes, HandlerTypes', Begun, Opened, TablesAgree, Reached,
         SavedIsStored, Covered, [Next]_vars
  PROVE  Covered'
<1> SUFFICES ASSUME NEW p \in PubIds, NEW r \in ReqIds,
                    req'[r].phase \in {"read", "narrowing", "done"}, ~req'[r].error, Registered(r)',
                    pub'[p].event \in Match[req'[r].filter]
             PROVE  Reaches(p, r)'
  BY DEF Covered
<1>1. Registered(r) /\ Reachable(r)
  BY OnlyTakesRegister, RegisteredReachable
<1>2. ToSet(got[r]) \subseteq ToSet(got'[r])
  BY GotGrows
<1>3. CASE ReadCache(r) \/ ReadCacheFails(r)
  <2>1. /\ pub' = pub /\ req'[r].filter = req[r].filter
        /\ req'[r].sent = Match[req[r].filter] \cap store
    BY <1>3, Reads
  <2>2. pub[p].phase \in PubPhases
    BY DEF HandlerTypes, PubState
  <2>3. QED BY <2>1, <2>2 DEF Reaches, SavedIsStored, PubPhases
<1>4. CASE req'[r] = req[r] \/ Answers(r)
  <2>1. /\ req[r].phase \in {"read", "narrowing", "done"} /\ ~req[r].error
        /\ req'[r].sent = req[r].sent /\ req'[r].filter = req[r].filter /\ req'[r].key = req[r].key
    BY <1>4, Answering
  <2>2. CASE pub'[p] = pub[p]
    BY <1>1, <1>2, <2>1, <2>2 DEF Covered, Reaches, SameSide
  <2>3. CASE pub'[p].phase = "saving"
    BY <2>3 DEF Reaches
  <2>4. CASE PubStep(p)
    <3>1. pub'[p].event = pub[p].event /\ pub'[p].client = pub[p].client /\ req' = req
      BY <2>4, PubGoes
    <3>2. Reaches(p, r)
      BY <1>1, <2>1, <3>1 DEF Covered
    <3>3. r \in FindMatching(pub[p].event)
      BY <1>1, <2>1, <3>1 DEF FindMatching
    <3>4. CASE pub'[p].phase \in {"saved", "failed"}
      BY <3>4 DEF Reaches
    <3>5. CASE Matched(p)
      <4>1. /\ pub'[p].phase = "matched"
            /\ pub'[p].matches = IF pub[p].client = Local THEN {} ELSE FindMatching(pub[p].event)
        BY <3>5, PubGoes, <2>4 DEF Matched, Save, Broadcast
      <4>2. QED BY <3>1, <3>3, <4>1 DEF Reaches
    <3>6. CASE Broadcast(p)
      <4>1. pub[p].phase = "matched" /\ pub'[p].phase = "done" /\ pub[p].event \in Messages
        BY <3>6, <2>4, PubGoes DEF Matched, Save, Broadcast, Begun, Messages
      <4>2. CASE pub[p].event \in req[r].sent
        BY <2>1, <3>1, <4>2 DEF Reaches
      <4>3. CASE pub[p].event \notin req[r].sent /\ SameSide(p, r)
        <5>1. r \in Targets(p)
          BY <3>2, <3>3, <4>1, <4>3 DEF Reaches, SameSide, Targets
        <5>2. r \in Delivered(p)
          BY <1>1, <4>3, <5>1 DEF Delivered, SameSide
        <5>3. got'[r] = Append(got[r], pub[p].event) /\ got[r] \in Seq(Messages)
          BY <3>6, <5>2 DEF Broadcast, HandlerTypes, Messages
        <5>4. ToSet(Append(got[r], pub[p].event)) = ToSet(got[r]) \cup {pub[p].event}
          BY <4>1, <5>3, Added
        <5>5. pub'[p].event \in ToSet(got'[r])
          BY <3>1, <5>3, <5>4
        <5>6. QED BY <4>1, <5>5 DEF Reaches
      <4>4. CASE ~SameSide(p, r)
        BY <3>1, <4>1, <4>4 DEF Reaches, SameSide
      <4>5. QED BY <4>2, <4>3, <4>4
    <3>7. QED BY <2>4, <3>4, <3>5, <3>6, PubGoes
  <2>5. QED BY <2>2, <2>3, <2>4, PubMoves
<1>5. QED
  BY <1>3, <1>4, ReqMoves

-----------------------------------------------------------------------------
(* Ids are handed out by GoUpstream only.                                  *)
LEMMA OnlyGoingOpens ==
  ASSUME CoordInv, HandlerTypes, Begun, Opened, [Next]_vars
  PROVE  \/ \E r \in ReqIds : Answers(r) /\ req'[r].phase = "done" /\ GoUpstream(r, Cached(r))
         \/ UNCHANGED <<sequence, opener>>
<1>1. ASSUME NEW r \in ReqIds, Answers(r), ~(req'[r].phase = "done" /\ GoUpstream(r, Cached(r)))
      PROVE  UNCHANGED <<sequence, opener>>
  BY <1>1, Answering DEF EndHere, coordVars, mapVars
<1>2. ASSUME NEW p \in PubIds, Broadcast(p) PROVE UNCHANGED <<sequence, opener>>
  BY <1>2 DEF Broadcast, MarkDelivered, mapVars
<1>3. ASSUME NEW u \in UpIds, Backfill(u) PROVE UNCHANGED <<sequence, opener>>
  BY <1>3 DEF Backfill, IngestSkipped, IngestStart, SendEose, IngestDone, mapVars
<1>4. QED
  BY <1>1, <1>2, <1>3, UnsentSteps DEF Unsent

(* The dedup sets.                                                         *)
LEMMA DedupFitsStep ==
  ASSUME CoordInv, HandlerTypes, HandlerTypes', Begun, Opened, Opened', DedupFits, [Next]_vars
  PROVE  DedupFits'
<1> SUFFICES ASSUME NEW u \in UpIds
             PROVE  \/ Len(sentIds'[u]) <= MaxSentIds
                    \/ u \in Used' /\ Len(sentIds'[u]) <= Cardinality(req'[opener'[u]].sent)
  BY DEF DedupFits
<1> DEFINE Goal == \/ Len(sentIds'[u]) <= MaxSentIds
                   \/ u \in Used' /\ Len(sentIds'[u]) <= Cardinality(req'[opener'[u]].sent)
<1>0. /\ sequence \in Nat /\ sentIds \in [UpIds -> Seq(Events)] /\ opener \in [UpIds -> ReqIds \cup {NoReq}]
      /\ MaxSentIds \in Nat /\ Len(sentIds[u]) \in Nat
  BY CoordinatorAssumption DEF CoordInv, CoordStateOK, HandlerTypes
<1>1. ASSUME u \in Used, u \in Used', opener'[u] = opener[u]
      PROVE  req'[opener'[u]].sent = req[opener[u]].sent
  <2>1. opener[u] \in ReqIds /\ req[opener[u]].phase = "done" /\ req'[opener[u]].phase = "done"
    BY <1>1 DEF Opened
  <2>2. QED BY <1>1, <2>1, ReqMoves, Answering, Reads
<1>2. ASSUME Len(sentIds'[u]) <= MaxSentIds \/ Len(sentIds'[u]) <= Len(sentIds[u]),
             sentIds'[u] \in Seq(Events), u \in Used => u \in Used' /\ opener'[u] = opener[u]
      PROVE  Goal
  <2>1. Len(sentIds'[u]) \in Nat
    BY <1>2
  <2>2. CASE Len(sentIds[u]) <= MaxSentIds
    BY <1>0, <1>2, <2>1, <2>2
  <2>3. CASE u \in Used /\ Len(sentIds[u]) <= Cardinality(req[opener[u]].sent)
    <3>1. Cardinality(req[opener[u]].sent) \in Nat
      <4>1. opener[u] \in ReqIds
        BY <2>3 DEF Opened
      <4>2. req[opener[u]].sent \subseteq Events
        BY <4>1 DEF HandlerTypes, ReqState
      <4>3. QED BY <4>2, RequestsAssumption, FS_Subset, FS_CardinalityType
    <3>2. Cardinality(req'[opener'[u]].sent) = Cardinality(req[opener[u]].sent)
      BY <1>1, <1>2, <2>3
    <3> DEFINE c == Cardinality(req[opener[u]].sent)
    <3> HIDE DEF c
    <3>3. c \in Nat /\ Len(sentIds[u]) <= c /\ Cardinality(req'[opener'[u]].sent) = c
      BY <2>3, <3>1, <3>2 DEF c
    <3>4. QED BY <1>0, <1>2, <2>1, <2>3, <3>3
  <2>4. QED BY <2>2, <2>3 DEF DedupFits
<1>3. ASSUME NEW r \in ReqIds, Answers(r), req'[r].phase = "done", GoUpstream(r, Cached(r)) PROVE Goal
  <2>1. /\ sequence + 1 \in UpIds /\ sequence' = sequence + 1
        /\ opener' = [opener EXCEPT ![sequence + 1] = r]
        /\ sentIds' = [sentIds EXCEPT ![sequence + 1] = SentIds(r)]
    BY <1>3 DEF GoUpstream, OpenForSubscription
  <2>2. SentIds(r) \in Seq(Events) /\ Len(SentIds(r)) = Cardinality(req[r].sent) /\ req'[r].sent = req[r].sent
    BY <1>3, Goes, Answering
  <2>3. CASE u = sequence + 1
    <3>1. u \in Used' /\ opener'[u] = r /\ sentIds'[u] = SentIds(r)
      BY <1>0, <2>1, <2>3 DEF Used
    <3>2. Len(SentIds(r)) \in Nat
      BY <2>2
    <3>3. QED BY <2>2, <3>1, <3>2
  <2>4. CASE u # sequence + 1
    <3>1. sentIds'[u] = sentIds[u] /\ opener'[u] = opener[u]
      BY <1>0, <2>1, <2>4
    <3>2. u \in Used => u \in Used'
      BY <1>0, <2>1 DEF Used
    <3>3. QED BY <1>0, <1>2, <3>1, <3>2
  <2>5. QED BY <2>3, <2>4
<1>4. CASE UNCHANGED <<sequence, opener>>
  <2>1. CASE UNCHANGED coordVars
    BY <1>0, <1>2, <1>4, <2>1 DEF coordVars, stateVars, Used
  <2>2. CASE CoordAct
    <3>1. ASSUME NEW k \in Keys, NEW seed \in Seq(Events), OpenForSubscription(k, seed) PROVE FALSE
      BY <1>0, <1>4, <3>1 DEF OpenForSubscription
    <3>2. Len(sentIds'[u]) <= MaxSentIds \/ Len(sentIds'[u]) <= Len(sentIds[u])
      BY <2>2, <3>1, OnlySeedsExceed
    <3>3. sentIds'[u] \in Seq(Events)
      BY <2>2, CoordStepInv DEF CoordInv, CoordStateOK
    <3>4. QED BY <1>2, <1>4, <3>2, <3>3 DEF Used
  <2>3. QED BY <2>1, <2>2, CoordActs DEF vars
<1>5. QED
  BY <1>3, <1>4, OnlyGoingOpens

-----------------------------------------------------------------------------
(* The invariant holds at first, and every step keeps it.                  *)
LEMMA ReqInit == Init => ReqInv
<1> SUFFICES ASSUME Init PROVE ReqInv
  OBVIOUS
<1> USE DEF Init
<1>0. /\ \A r \in ReqIds : /\ req[r].phase = "none" /\ req[r].key = NoKey /\ req[r].sent = {}
                           /\ req[r].error = FALSE /\ got[r] = <<>>
      /\ \A p \in PubIds : pub[p].phase = "none" /\ pub[p].matches = {}
      /\ \A k \in Keys : subscriptions[k] = NoReq
      /\ subs = {} /\ sequence = 0 /\ Used = {}
  BY DEF NewReq, NewPub, CoordInit, Used
<1>1. CoordInv /\ DedupFits
  BY CoordInitInv, CoordinatorAssumption DEF CoordInit, DedupFits
<1>2. TablesTypes
  BY DEF TablesTypes
<1>3. HandlerTypes
  <2>1. NewReq \in ReqState /\ NewPub \in PubState
    BY Zenon DEF NewReq, NewPub, ReqState, PubState, Phases, PubPhases
  <2>2. <<>> \in Seq(Events \cup {Eose})
    OBVIOUS
  <2>3. QED BY <2>1, <2>2 DEF HandlerTypes
<1>4. Begun
  BY <1>0, ZenonT(60) DEF Begun
<1>5. Opened
  BY <1>0 DEF Opened
<1>6. TablesAgree /\ Reached
  BY <1>0, KeyParts, FS_EmptySet DEF TablesAgree, Reached
<1>7. SubscriptionCap
  BY <1>0, FS_EmptySet, RequestsAssumption DEF SubscriptionCap
<1>8. TransportInStep /\ StillRegistered
  BY <1>0 DEF TransportInStep, StillRegistered, InFlight
<1>9. EosesCounted /\ CacheSent /\ SavedIsStored /\ Covered
  BY <1>0 DEF EosesCounted, EndsOnce, Ended, CacheSent, SavedIsStored, Covered
<1>10. QED
  BY <1>1, <1>2, <1>3, <1>4, <1>5, <1>6, <1>7, <1>8, <1>9 DEF ReqInv

(* Every step keeps the invariant.                                         *)
LEMMA ReqStepInv == ReqInv /\ [Next]_vars => ReqInv'
<1> SUFFICES ASSUME ReqInv, [Next]_vars PROVE ReqInv'
  OBVIOUS
<1> USE DEF ReqInv
<1>1. CoordInv'
  <2>1. [CoordAct]_coordVars
    BY CoordActs DEF vars
  <2>2. QED BY <2>1, CoordStepInv
<1>2. TablesTypes' /\ HandlerTypes'
  BY TablesTypesStep, HandlerTypesStep
<1>3. Begun' /\ Opened'
  BY <1>2, BegunStep, OpenedStep
<1>4. DedupFits'
  BY <1>2, <1>3, DedupFitsStep
<1>5. TablesAgree' /\ SubscriptionCap' /\ Reached'
  BY SubscriptionsStep
<1>6. TransportInStep' /\ StillRegistered'
  BY InStepStep
<1>7. EosesCounted'
  BY EosesStep
<1>8. CacheSent' /\ SavedIsStored' /\ Covered'
  BY <1>2, CacheSentStep, SavedStep, CoveredStep
<1>9. QED
  BY <1>1, <1>2, <1>3, <1>4, <1>5, <1>6, <1>7, <1>8

(* It holds always.                                                        *)
LEMMA ReqAlways == Spec => []ReqInv
BY ReqInit, ReqStepInv, PTL DEF Spec

-----------------------------------------------------------------------------
(* However REQs overlap, overwrite each other or are cut off by a CLOSE or *)
(* a disconnect, the two maps of the SubscriptionManager name the same     *)
(* subscriptions, under their owner, and no transport client holds more    *)
(* than maxSubscriptions.                                                  *)
THEOREM RequestTablesInOrder == Spec => []TablesInOrder
<1>1. ASSUME ReqInv PROVE TypeOK
  <2>1. DedupBounded
    BY <1>1 DEF ReqInv, DedupFits, DedupBounded
  <2>2. /\ \A r \in ReqIds : req[r].sent \subseteq Events
        /\ \A p \in PubIds : pub[p].matches \subseteq ReqIds
    BY <1>1 DEF ReqInv, HandlerTypes, ReqState, PubState
  <2>3. QED
    BY <1>1, <2>1, <2>2 DEF ReqInv, CoordInv, TablesTypes, HandlerTypes, TypeOK
<1>2. ReqInv => TablesInOrder
  BY <1>1 DEF ReqInv, TablesInOrder
<1>3. QED BY <1>2, ReqAlways, PTL

(* An upstream subscription of a transport client that left its            *)
(* subscription alone is that of the subscription that is registered:      *)
(* overwriting closes the old one upstream, CLOSE and disconnect both.     *)
THEOREM RequestTransportInStep == Spec => []TransportInStep
<1>1. ReqInv => TransportInStep
  BY DEF ReqInv
<1>2. QED BY <1>1, ReqAlways, PTL

(* A REQ is answered by one EOSE at most, whether the handler sends it or  *)
(* the coordinator, by the aggregate or by the timeout.                    *)
THEOREM RequestEoseOnce == Spec => []EoseOncePerReq
<1>1. ASSUME ReqInv PROVE EoseOncePerReq
  <2> SUFFICES ASSUME NEW r \in ReqIds PROVE Cardinality({i \in DOMAIN got[r] : got[r][i] = Eose}) <= 1
    BY DEF EoseOncePerReq
  <2> DEFINE S == {i \in DOMAIN got[r] : got[r][i] = Eose}
  <2>1. \A i, j \in S : i = j
    BY <1>1 DEF ReqInv, EosesCounted, EndsOnce
  <2> HIDE DEF S
  <2>2. CASE S = {}
    BY <2>2, FS_EmptySet DEF S
  <2>3. CASE S # {}
    <3>1. \E i : S = {i}
      BY <2>1, <2>3
    <3>2. Cardinality(S) = 1
      BY <3>1, FS_Singleton
    <3>3. Cardinality(S) <= 1
      BY <3>2
    <3>4. QED BY <3>3 DEF S
  <2>4. QED BY <2>2, <2>3
<1>2. ReqInv => EoseOncePerReq
  BY <1>1
<1>3. QED BY <1>2, ReqAlways, PTL

(* No gap between the stored and the live events: when a REQ and an EVENT  *)
(* that matches it are both handled, the subscriber has the event, in      *)
(* whatever order the read, the save and the match came.                   *)
THEOREM RequestNoGap == Spec => []NoGap
<1>1. ASSUME ReqInv PROVE NoGap
  <2> SUFFICES ASSUME NEW p \in PubIds, NEW r \in ReqIds,
                      pub[p].phase = "done", req[r].phase = "done", ~req[r].error, Registered(r),
                      (pub[p].client = Local) = (req[r].key[1] = Local),
                      pub[p].event \in Match[req[r].filter]
               PROVE  pub[p].event \in Sent(r)
    BY DEF NoGap
  <2>1. Reaches(p, r) /\ SameSide(p, r)
    BY <1>1 DEF ReqInv, Covered, SameSide
  <2>2. req[r].sent \subseteq ToSet(got[r])
    BY <1>1 DEF ReqInv, CacheSent
  <2>3. pub[p].event \in Events
    BY <1>1 DEF ReqInv, Begun
  <2>4. QED BY <2>1, <2>2, <2>3 DEF Reaches, Sent
<1>2. ReqInv => NoGap
  BY <1>1
<1>3. QED BY <1>2, ReqAlways, PTL

-----------------------------------------------------------------------------
(* De-duplication across the relay, as long as a dedup set that holds      *)
(* every event would not overflow: what a subscriber has and nobody        *)
(* published it has from the cache or from upstream, and the dedup set of  *)
(* its upstream subscription covers that.                                  *)
Published == {pub[p].event : p \in {q \in PubIds : pub[q].phase # "none"}}
KnownUpstream ==
  /\ \A u \in Used : Sent(opener[u]) \subseteq had[u] \cup Published
  /\ \A r \in ReqIds : (\A u \in Used : opener[u] # r) => Sent(r) \subseteq req[r].sent \cup Published
NoTwice == \A u \in UpIds : IsInjective(sentIds[u])
NewsInv == ReqInv /\ KnownUpstream /\ NoTwice

(* A set of ids without repetition that fits is not made to forget any.    *)
LEMMA NeverForgets ==
  ASSUME Cardinality(Events) <= MaxSentIds, NEW ids \in Seq(Events), IsInjective(ids), NEW e \in Events
  PROVE  IsInjective(AddSentId(ids, e)) /\ Forgotten(ids, e) = {}
<1> DEFINE added == IF e \in ToSet(ids) THEN ids ELSE Append(ids, e)
           n == Len(added)
<1>1. added \in Seq(Events) /\ n \in Nat /\ added \in [1..n -> Events]
  <2>1. Append(ids, e) \in Seq(Events)
    BY Appended
  <2>2. added \in Seq(Events)
    BY <2>1
  <2> HIDE DEF added
  <2>3. Len(added) \in Nat /\ added \in [1..Len(added) -> Events]
    BY <2>2
  <2>4. QED BY <2>2, <2>3 DEF added
<1>2. ToSet(added) = ToSet(ids) \cup {e}
  BY AppendedSet
<1>3. IsInjective(added)
  <2>1. CASE e \in ToSet(ids)
    BY <2>1
  <2>2. CASE e \notin ToSet(ids)
    <3> DEFINE s == Append(ids, e)
               m == Len(ids)
    <3>1. /\ DOMAIN ids = 1..m /\ DOMAIN s = 1..(m + 1) /\ m \in Nat
          /\ \A i \in DOMAIN ids : s[i] = ids[i] /\ ids[i] # e
          /\ s[m + 1] = e /\ added = s
      BY <2>2, Appended DEF ToSet
    <3> HIDE DEF s, m, added
    <3>2. \A i \in DOMAIN s : i = m + 1 \/ i \in DOMAIN ids
      BY <3>1
    <3>3. \A i, j \in DOMAIN s : s[i] = s[j] => i = j
      BY <3>1, <3>2 DEF IsInjective
    <3>4. QED BY <3>1, <3>3 DEF IsInjective
  <2>3. QED BY <2>1, <2>2
<1>4. n <= Cardinality(Events)
  <2>1. added \in Injection(1..n, Events)
    BY <1>1, <1>3 DEF Injection
  <2>2. Cardinality(1..n) <= Cardinality(Events)
    BY <2>1, RequestsAssumption, FS_Injection
  <2>3. Cardinality(1..n) = n
    BY <1>1, FS_Interval
  <2>4. QED BY <2>2, <2>3
<1>5. Cardinality(Events) \in Nat /\ MaxSentIds \in Nat
  BY RequestsAssumption, CoordinatorAssumption, FS_CardinalityType
<1> HIDE DEF n
<1>6. ~(n > MaxSentIds)
  BY <1>1, <1>4, <1>5
<1>7. AddSentId(ids, e) = added
  BY <1>6 DEF AddSentId, n
<1>8. QED
  BY <1>2, <1>3, <1>7 DEF Forgotten

(* A dedup set that holds every event forgets none, so no event is handed  *)
(* on twice, and what was handed on stays known.                           *)
LEMMA NoTwiceStep ==
  ASSUME Cardinality(Events) <= MaxSentIds, ReqInv, NoTwice, [Next]_vars
  PROVE  /\ NoTwice'
         /\ \A u \in Used : had[u] \subseteq had'[u]
<1> USE DEF ReqInv
<1>0. /\ sentIds \in [UpIds -> Seq(Events)] /\ had \in [UpIds -> SUBSET Events]
      /\ UpIds = 1..MaxUp /\ MaxUp \in Nat /\ sequence \in 0..MaxUp
  BY CoordinatorAssumption DEF CoordInv, CoordStateOK
<1>1. ASSUME UNCHANGED coordVars PROVE NoTwice' /\ \A u \in Used : had[u] \subseteq had'[u]
  BY <1>1 DEF NoTwice, coordVars, stateVars
<1>2. ASSUME NEW r \in ReqIds, Answers(r), req'[r].phase = "done", GoUpstream(r, Cached(r))
      PROVE  NoTwice' /\ \A u \in Used : had[u] \subseteq had'[u]
  <2>1. /\ sentIds' = [sentIds EXCEPT ![sequence + 1] = SentIds(r)]
        /\ had' = [had EXCEPT ![sequence + 1] = ToSet(SentIds(r))]
    BY <1>2 DEF GoUpstream, OpenForSubscription
  <2>2. IsInjective(SentIds(r))
    <3>1. req[r].sent \subseteq Events
      BY DEF HandlerTypes, ReqState
    <3>2. QED BY <3>1, Listed DEF SentIds
  <2>3. \A u \in Used : u # sequence + 1 /\ u \in UpIds
    BY <1>0 DEF Used
  <2>4. QED BY <1>0, <2>1, <2>2, <2>3 DEF NoTwice
<1>3. ASSUME CoordAct, UNCHANGED sequence
      PROVE  NoTwice' /\ \A u \in Used : had[u] \subseteq had'[u]
  <2>1. ASSUME NEW u \in UpIds PROVE IsInjective(sentIds'[u]) /\ had[u] \subseteq had'[u]
    <3>1. ASSUME NEW k \in Keys, NEW seed \in Seq(Events), OpenForSubscription(k, seed) PROVE FALSE
      BY <1>0, <1>3, <3>1 DEF OpenForSubscription
    <3>2. sentIds[u] \in Seq(Events) /\ IsInjective(sentIds[u])
      BY <1>0 DEF NoTwice
    <3>3. \A e \in Events : IsInjective(AddSentId(sentIds[u], e)) /\ Forgotten(sentIds[u], e) = {}
      BY <3>2, NeverForgets
    <3>4. QED BY <1>3, <3>1, <3>2, <3>3, DedupMoves
  <2>2. \A u \in Used : u \in UpIds
    BY <1>0 DEF Used
  <2>3. QED BY <2>1, <2>2 DEF NoTwice
<1>4. CoordAct \/ UNCHANGED coordVars
  BY CoordActs DEF vars
<1>5. QED
  BY <1>1, <1>2, <1>3, <1>4, OnlyGoingOpens

(* What a REQ was sent from the cache, and what was published, only grows. *)
LEMMA SentGrows ==
  ASSUME ReqInv, [Next]_vars
  PROVE  (\A r \in ReqIds : req[r].sent \subseteq req'[r].sent) /\ Published \subseteq Published'
<1> USE DEF ReqInv
<1>1. ASSUME NEW r \in ReqIds PROVE req[r].sent \subseteq req'[r].sent
  <2>1. CASE req'[r].phase \in {"reading", "refused"} /\ req'[r] # req[r]
    <3>1. req[r].phase = "none"
      <4>1. ASSUME NEW q \in ReqIds, NEW k \in Keys, NEW f \in Filters, Req(q, k, f) \/ Subscribe(q, k, f)
            PROVE  req[r].phase = "none"
        BY <2>1, <4>1, Takes DEF Others
      <4>2. ASSUME NEW q \in ReqIds, NEW k \in Keys, NEW f \in Filters, ReqRefused(q, k, f)
            PROVE  req[r].phase = "none"
        BY <2>1, <4>2, Refuses DEF Others
      <4>3. ASSUME NEW q \in ReqIds, ReadCache(q) \/ ReadCacheFails(q) PROVE FALSE
        BY <2>1, <4>3, Reads DEF Others
      <4>4. ASSUME NEW q \in ReqIds, Answers(q) PROVE FALSE
        BY <2>1, <4>4, Answering DEF Others
      <4>5. ASSUME NEW p \in PubIds, PubStep(p) \/ \E c \in Clients, e \in Events : Event(p, c, e) PROVE FALSE
        BY <2>1, <4>5, PubGoes, Publishes
      <4>6. QED
        BY <2>1, <4>1, <4>2, <4>3, <4>4, <4>5, Elsewhere DEF Next, ReqStep, Answers, vars
    <3>2. QED BY <3>1 DEF Begun
  <2>2. CASE ReadCache(r) \/ ReadCacheFails(r)
    BY <2>2, Reads DEF Begun
  <2>3. CASE Answers(r)
    BY <2>3, Answering
  <2>4. QED BY <2>1, <2>2, <2>3, ReqMoves
<1>2. ASSUME NEW p \in PubIds, pub[p].phase # "none"
      PROVE  pub'[p].phase # "none" /\ pub'[p].event = pub[p].event
  <2>1. CASE pub'[p] = pub[p]
    BY <1>2, <2>1
  <2>2. CASE PubStep(p)
    BY <2>2, PubGoes
  <2>3. CASE pub'[p].phase = "saving" /\ pub'[p] # pub[p]
    <3>1. ASSUME NEW q \in PubIds, NEW c \in Clients, NEW e \in Events, Event(q, c, e) PROVE FALSE
      BY <1>2, <2>3, <3>1, Publishes DEF OtherPubs
    <3>2. ASSUME NEW q \in PubIds, PubStep(q) PROVE FALSE
      BY <2>3, <3>2, PubGoes DEF OtherPubs
    <3>3. QED
      BY <2>3, <3>1, <3>2, Elsewhere DEF Next, Req, ReqRefused, Subscribe, ReqStep, ReadCache, ReadCacheFails,
         Reply, Narrowed, vars
  <2>4. QED BY <2>1, <2>2, <2>3, PubMoves
<1>3. QED
  BY <1>1, <1>2 DEF Published

(* What the coordinator delivers is news of an open subscription, and is   *)
(* recorded as what the client has.                                        *)
LEMMA PassesNews ==
  ASSUME ReqInv, NEW u \in UpIds, NEW e \in Events, Passes(u, e)
  PROVE  /\ e \notin had[u]
         /\ Forgotten(sentIds[u], e) = {} => e \in had'[u]
<1>1. /\ IngestDone(u, "accepted") /\ Heeded(u, "accepted") /\ e = Head(chain[u]).what
  BY CoordinatorAssumption DEF Passes
<1>2. u \in ingesting /\ u \in UpIds \ closed
  BY <1>1 DEF IngestDone, Heeded
<1>3. e \notin had[u]
  BY <1>1, <1>2 DEF ReqInv, CoordInv, DedupCovers
<1>4. had' = [had EXCEPT ![u] = (had[u] \cup {e}) \ Forgotten(sentIds[u], e)]
  BY <1>1 DEF IngestDone
<1>5. Forgotten(sentIds[u], e) = {} => e \in had'[u]
  BY <1>4 DEF ReqInv, CoordInv, CoordStateOK
<1>6. QED BY <1>3, <1>5

(* Every step keeps that what a request has got, its upstream              *)
(* subscription knows.                                                     *)
LEMMA KnownUpstreamStep ==
  ASSUME Cardinality(Events) <= MaxSentIds, NewsInv, [Next]_vars
  PROVE  KnownUpstream'
<1> USE DEF NewsInv, ReqInv
<1>0. /\ got \in [ReqIds -> Seq(Messages)] /\ Eose \in Messages /\ Eose \notin Events /\ Events \subseteq Messages
      /\ sentIds \in [UpIds -> Seq(Events)] /\ had \in [UpIds -> SUBSET Events]
      /\ UpIds = 1..MaxUp /\ MaxUp \in Nat /\ sequence \in 0..MaxUp
      /\ \A u \in Used : u \in UpIds /\ opener[u] \in ReqIds
  BY CoordinatorAssumption DEF HandlerTypes, CoordInv, CoordStateOK, Messages, Used, Opened
<1>1. /\ \A u \in Used : had[u] \subseteq had'[u]
      /\ \A r \in ReqIds : req[r].sent \subseteq req'[r].sent
      /\ Published \subseteq Published'
  BY NoTwiceStep, SentGrows
<1>2. ASSUME UNCHANGED <<opener, sequence>>,
             \A r \in ReqIds : \/ Sent(r)' \subseteq Sent(r) \cup Published'
                               \/ /\ Sent(r)' \subseteq Sent(r) \cup req[r].sent
                                  /\ \A u \in Used : opener[u] # r
      PROVE  KnownUpstream'
  BY <1>0, <1>1, <1>2 DEF KnownUpstream, Used
<1>3. CASE Unsent
  <2>1. \A r \in ReqIds : Sent(r)' = Sent(r)
    BY <1>3 DEF Unsent, Sent
  <2>2. QED BY <1>2, <1>3, <2>1 DEF Unsent
<1>4. ASSUME NEW p \in PubIds, Broadcast(p) PROVE KnownUpstream'
  <2>1. pub[p].event \in Published /\ pub[p].event \in Messages
    BY <1>0, <1>4 DEF Broadcast, Published, Begun
  <2>2. UNCHANGED <<opener, sequence>>
    BY <1>4 DEF Broadcast, MarkDelivered, mapVars
  <2>3. ASSUME NEW r \in ReqIds PROVE Sent(r)' \subseteq Sent(r) \cup Published'
    <3>1. got'[r] = got[r] \/ got'[r] = Append(got[r], pub[p].event)
      BY <1>4 DEF Broadcast
    <3>2. got[r] \in Seq(Messages)
      BY <1>0
    <3>3. ToSet(Append(got[r], pub[p].event)) = ToSet(got[r]) \cup {pub[p].event}
      BY <2>1, <3>2, Added
    <3>4. ToSet(got'[r]) \subseteq ToSet(got[r]) \cup {pub[p].event}
      BY <3>1, <3>3
    <3>5. Sent(r)' = ToSet(got'[r]) \cap Events
      BY DEF Sent
    <3>6. QED BY <1>1, <2>1, <3>4, <3>5 DEF Sent
  <2>4. QED BY <1>2, <2>2, <2>3
<1>5. ASSUME NEW u \in UpIds, NEW x \in Messages, Backfill(u), Passes(u, x) PROVE KnownUpstream'
  <2>1. UNCHANGED <<opener, sequence>>
    BY <1>5 DEF Backfill, IngestSkipped, IngestStart, SendEose, IngestDone, mapVars
  <2>2. \A r \in ReqIds : r # opener[u] => Sent(r)' = Sent(r)
    BY <1>0, <1>5 DEF Passes, Sent
  <2>3. Sent(opener[u])' \subseteq Sent(opener[u]) \cup ({x} \cap Events)
    <3>1. got'[opener[u]] = got[opener[u]] \/ got'[opener[u]] = Append(got[opener[u]], x)
      BY <1>0, <1>5 DEF Passes
    <3>2. got[opener[u]] \in Seq(Messages)
      BY <1>0, <1>5 DEF Passes
    <3>3. ToSet(Append(got[opener[u]], x)) = ToSet(got[opener[u]]) \cup {x}
      BY <3>2, Added
    <3>4. opener' = opener
      BY <2>1
    <3>5. ToSet(got'[opener[u]]) \subseteq ToSet(got[opener[u]]) \cup {x}
      BY <3>1, <3>3
    <3>6. QED BY <3>4, <3>5 DEF Sent
  <2>4. \A v \in Used : opener[v] = opener[u] => v = u
    BY <1>5 DEF Passes, Opened
  <2>5. {x} \cap Events \subseteq had'[u]
    <3>1. CASE x \in Events
      <4>1. Forgotten(sentIds[u], x) = {}
        BY <1>0, <3>1, NeverForgets DEF NoTwice
      <4>2. QED BY <1>5, <3>1, <4>1, PassesNews
    <3>2. QED BY <3>1
  <2>6. u \in Used
    BY <1>5 DEF Passes
  <2>7. \A v \in Used : Sent(opener[v])' \subseteq had'[v] \cup Published'
    <3> SUFFICES ASSUME NEW v \in Used PROVE Sent(opener[v])' \subseteq had'[v] \cup Published'
      OBVIOUS
    <3>1. Sent(opener[v]) \subseteq had'[v] \cup Published'
      BY <1>1 DEF KnownUpstream
    <3>2. CASE v = u
      BY <2>3, <2>5, <3>1, <3>2
    <3>3. CASE v # u
      <4>1. opener[v] \in ReqIds /\ opener[v] # opener[u] /\ opener'[v] = opener[v]
        BY <1>0, <2>1, <2>4, <3>3
      <4>2. got'[opener[v]] = got[opener[v]]
        BY <1>0, <1>5, <4>1 DEF Passes
      <4>3. QED BY <3>1, <4>1, <4>2 DEF Sent
    <3>4. QED BY <3>2, <3>3
  <2>8. \A r \in ReqIds : (\A v \in Used : opener[v] # r) => Sent(r)' \subseteq req'[r].sent \cup Published'
    BY <1>1, <2>2, <2>6 DEF KnownUpstream
  <2>9. QED BY <2>1, <2>7, <2>8 DEF KnownUpstream, Used
<1>6. ASSUME NEW r \in ReqIds, Answers(r) PROVE KnownUpstream'
  <2>1. /\ req[r].phase \in {"read", "narrowing"} /\ req'[r].sent = req[r].sent
        /\ Cached(r) \in Seq(Messages) /\ ToSet(Cached(r)) \subseteq req[r].sent
    BY <1>6, Answering, EventsOnly
  <2>2. \A u \in Used : opener[u] # r
    BY <2>1 DEF Opened
  <2> DEFINE s == got[r] \o Cached(r)
  <2>3. got[r] \in Seq(Messages) /\ s \in Seq(Messages) /\ ToSet(s) = ToSet(got[r]) \cup ToSet(Cached(r))
    BY <1>0, <2>1, Followed
  <2>4. s \o <<Eose>> = Append(s, Eose) /\ s \o <<>> = s
    BY <2>1, <2>3, EndedWithEose
  <2> HIDE DEF s
  <2>5. ToSet(Append(s, Eose)) = ToSet(s) \cup {Eose}
    BY <1>0, <2>3, Added
  <2>6. /\ \A q \in ReqIds : q # r => got'[q] = got[q]
        /\ got'[r] = got[r] \/ got'[r] = s \o <<Eose>> \/ got'[r] = s \o <<>> \/ got'[r] = s
    BY <1>0, <1>6, Answering DEF EndHere, GoUpstream, EoseWhenOpening, s
  <2>7. Sent(r)' \subseteq Sent(r) \cup req[r].sent
    <3>1. ToSet(s) \subseteq ToSet(got[r]) \cup req[r].sent
      BY <2>1, <2>3
    <3>2. ToSet(got'[r]) \subseteq ToSet(got[r]) \cup req[r].sent \cup {Eose}
      BY <2>4, <2>5, <2>6, <3>1
    <3>3. Sent(r)' = ToSet(got'[r]) \cap Events
      BY DEF Sent
    <3>4. QED BY <1>0, <3>2, <3>3 DEF Sent
  <2>8. \A q \in ReqIds : q # r => Sent(q)' = Sent(q)
    BY <2>6 DEF Sent
  <2>9. CASE UNCHANGED <<opener, sequence>>
    BY <1>2, <2>2, <2>7, <2>8, <2>9
  <2>10. CASE req'[r].phase = "done" /\ GoUpstream(r, Cached(r))
    <3> DEFINE u == sequence + 1
    <3>1. /\ u \in UpIds /\ sequence' = u /\ opener' = [opener EXCEPT ![u] = r]
          /\ had' = [had EXCEPT ![u] = ToSet(SentIds(r))]
      BY <2>10 DEF GoUpstream, OpenForSubscription
    <3>2. ToSet(SentIds(r)) = req[r].sent
      BY <2>1, Goes
    <3>3. \A v \in Used' : v = u \/ (v # u /\ v \in Used)
      BY <1>0, <3>1 DEF Used
    <3>4. opener'[u] = r /\ had'[u] = req[r].sent /\ \A v \in Used : v # u => opener'[v] = opener[v]
      BY <1>0, <3>1, <3>2 DEF HandlerTypes
    <3>5. u \in Used' /\ \A v \in Used : v # u /\ v \in Used'
      BY <1>0, <3>1 DEF Used
    <3> HIDE DEF u
    <3>6. \A v \in Used' : Sent(opener[v])' \subseteq had'[v] \cup Published'
      <4> SUFFICES ASSUME NEW v \in Used' PROVE ToSet(got'[opener'[v]]) \cap Events \subseteq had'[v] \cup Published'
        BY DEF Sent
      <4>1. CASE v = u
        <5>1. Sent(r) \subseteq req[r].sent \cup Published
          BY <2>2 DEF KnownUpstream
        <5>2. ToSet(got'[r]) \cap Events \subseteq Sent(r) \cup req[r].sent
          BY <2>7 DEF Sent
        <5>3. QED BY <1>1, <3>4, <4>1, <5>1, <5>2
      <4>2. CASE v # u
        <5>1. v \in Used /\ opener'[v] = opener[v] /\ opener[v] \in ReqIds /\ opener[v] # r
          BY <1>0, <2>2, <3>3, <3>4, <4>2
        <5>2. got'[opener[v]] = got[opener[v]]
          BY <2>6, <5>1
        <5>3. QED BY <1>1, <5>1, <5>2 DEF KnownUpstream, Sent
      <4>3. QED BY <4>1, <4>2
    <3>7. ASSUME NEW q \in ReqIds, \A v \in Used' : opener'[v] # q
          PROVE  Sent(q)' \subseteq req'[q].sent \cup Published'
      <4>1. q # r
        BY <3>4, <3>5, <3>7
      <4>2. \A v \in Used : opener[v] # q
        BY <3>4, <3>5, <3>7
      <4>3. QED BY <1>1, <2>8, <4>1, <4>2 DEF KnownUpstream
    <3>8. QED BY <3>6, <3>7 DEF KnownUpstream
  <2>11. QED
    BY <1>6, <2>9, <2>10, Answering DEF EndHere, coordVars, mapVars
<1>7. QED
  BY <1>3, <1>4, <1>5, <1>6, UnsentSteps

(* What came from the cache or earlier from upstream does not come again   *)
(* from upstream, whatever is read, saved and delivered meanwhile, if the  *)
(* event was not published to this relay and a dedup set holds all events. *)
THEOREM RequestUpstreamAddsNews ==
  ASSUME Cardinality(Events) <= MaxSentIds
  PROVE  Spec => UpstreamAddsUnpublishedNews
<1> DEFINE News == \A e \in Events \ {pub[p].event : p \in PubIds} : IsNews(e)
<1>1. Init => KnownUpstream /\ NoTwice
  <2> SUFFICES ASSUME Init PROVE KnownUpstream /\ NoTwice
    OBVIOUS
  <2>1. Used = {} /\ \A r \in ReqIds : Sent(r) = {}
    BY DEF Init, CoordInit, Used, Sent, ToSet
  <2>2. \A u \in UpIds : sentIds[u] = <<>>
    BY DEF Init, CoordInit
  <2>3. QED BY <2>1, <2>2 DEF KnownUpstream, NoTwice, IsInjective
<1>2. NewsInv /\ [Next]_vars => NewsInv'
  <2> SUFFICES ASSUME NewsInv, [Next]_vars PROVE NewsInv'
    OBVIOUS
  <2>1. ReqInv' /\ NoTwice'
    BY ReqStepInv, NoTwiceStep DEF NewsInv
  <2>2. QED BY <2>1, KnownUpstreamStep DEF NewsInv
<1>3. ASSUME NewsInv, [Next]_vars PROVE News
  <2> SUFFICES ASSUME NEW e \in Events, e \notin {pub[p].event : p \in PubIds}, NEW u \in UpIds, out'[u] = Append(out[u], e),
                      e \in Sent(opener[u])
               PROVE  FALSE
    BY DEF IsNews
  <2>1. out[u] \in Seq(Messages) /\ out \in [UpIds -> Seq(Messages)] /\ e \in Messages
    BY <1>3 DEF NewsInv, ReqInv, CoordInv, CoordStateOK, Messages
  <2>2. out'[u] # out[u]
    BY <2>1, Appended
  <2>3. PICK v \in UpIds, x \in Messages : Backfill(v) /\ Passes(v, x)
    <3>1. ~Unsent
      BY <2>2 DEF Unsent
    <3>2. ASSUME NEW r \in ReqIds, Answers(r) PROVE FALSE
      BY <1>3, <2>2, <3>2, Answering DEF NewsInv, ReqInv, EndHere, GoUpstream, OpenForSubscription, coordVars, stateVars
    <3>3. ASSUME NEW p \in PubIds, Broadcast(p) PROVE FALSE
      BY <2>2, <3>3 DEF Broadcast, MarkDelivered
    <3>4. QED BY <1>3, <3>1, <3>2, <3>3, UnsentSteps DEF NewsInv, ReqInv
  <2>4. v = u /\ out'[u] = Append(out[u], x) /\ u \in Used
    BY <2>1, <2>2, <2>3 DEF Passes
  <2>5. x = e
    <3>1. Append(out[u], x)[Len(out[u]) + 1] = x /\ Append(out[u], e)[Len(out[u]) + 1] = e
      BY <2>1, <2>3, Appended
    <3>2. QED BY <2>4, <3>1
  <2>6. e \notin had[u]
    BY <1>3, <2>3, <2>4, <2>5, PassesNews DEF NewsInv
  <2>7. e \notin Published
    BY DEF Published
  <2>8. QED BY <1>3, <2>4, <2>6, <2>7 DEF NewsInv, KnownUpstream
<1>4. NewsInv /\ [Next]_vars => [News]_vars
  BY <1>3
<1>5. Spec => []NewsInv
  BY <1>1, <1>2, ReqInit, PTL DEF Spec, NewsInv
<1>6. Spec => [][News]_vars
  BY <1>4, <1>5, PTL DEF Spec
<1>7. QED BY <1>6, PTL DEF UpstreamAddsUnpublishedNews

-----------------------------------------------------------------------------
(* The safety half of EveryReqAnswered: a REQ that was handled without its *)
(* EOSE has an open upstream subscription that will send it.               *)

(* The upstream subscription of the registered request is open, unless its *)
(* client used the key again while the REQ was being handled.              *)
StillOpen ==
  \A u \in Used : Registered(opener[u]) /\ req[opener[u]].key \notin rushed => u \in subs

(* Who was not sent to upstream has its EOSE, and who was has the EOSE     *)
(* that its upstream subscription delivered.                               *)
AnsweredHere ==
  \A r \in ReqIds :
    req[r].phase = "done" /\ Reachable(r) => Ended(got[r]) \/ \E u \in Used : opener[u] = r
AnsweredUpstream ==
  \A u \in Used : Ended(out[u]) /\ Reachable(opener[u]) => Ended(got[opener[u]])

AnswerInv == ReqInv /\ EoseKept /\ StillOpen /\ AnsweredHere /\ AnsweredUpstream

(* The steps that leave the open upstream subscriptions and the tables as  *)
(* they are.                                                               *)
Undisturbed ==
  /\ UNCHANGED <<subs, sequence, opener, subscriptions, rushed>>
  /\ \A r \in ReqIds : req[r].key # NoKey => req'[r].key = req[r].key

(* Only REQ, an answer that goes upstream, CLOSE and disconnect disturb    *)
(* them.                                                                   *)
LEMMA UndisturbedSteps ==
  ASSUME HandlerTypes, Begun, [Next]_vars
  PROVE  \/ Undisturbed
         \/ \E r \in ReqIds, k \in Keys, f \in Filters : Req(r, k, f) \/ Subscribe(r, k, f)
         \/ \E r \in ReqIds : Answers(r) /\ req'[r].phase = "done" /\ GoUpstream(r, Cached(r))
         \/ \E k \in Keys : Close(k)
         \/ \E c \in Clients : Disconnect(c)
<1> USE DEF Undisturbed, tableVars, coordVars, mapVars
<1>1. ASSUME NEW r \in ReqIds, NEW k \in Keys, NEW f \in Filters, ReqRefused(r, k, f) PROVE Undisturbed
  BY <1>1, Refuses DEF Others
<1>2. ASSUME NEW r \in ReqIds, ReadCache(r) \/ ReadCacheFails(r) PROVE Undisturbed
  BY <1>2, Reads DEF Others
<1>3. ASSUME NEW r \in ReqIds, Answers(r), ~(req'[r].phase = "done" /\ GoUpstream(r, Cached(r))) PROVE Undisturbed
  <2>1. UNCHANGED <<coordVars, opener>>
    BY <1>3, Answering DEF EndHere
  <2>2. QED BY <1>3, <2>1, Answering DEF Others
<1>4. ASSUME NEW p \in PubIds, PubStep(p) \/ \E c \in Clients, e \in Events : Event(p, c, e) PROVE Undisturbed
  <2>1. UNCHANGED <<req, opener, tableVars, rushed>>
    BY <1>4, PubGoes, Publishes
  <2>2. UNCHANGED <<subs, sequence>>
    BY <1>4 DEF PubStep, Event, Save, Matched, Broadcast, MarkDelivered
  <2>3. QED BY <2>1, <2>2
<1>5. ASSUME NEW u \in UpIds, Backfill(u) PROVE Undisturbed
  BY <1>5 DEF Backfill, IngestSkipped, IngestStart, SendEose, IngestDone
<1>6. CASE Upstream
  BY <1>6 DEF Upstream, UpstreamStep, HandleUpstreamEvent, HandleUpstreamEose, EoseTimeout, FlushEose
<1>7. CASE UNCHANGED vars
  BY <1>7 DEF vars
<1>8. QED
  BY <1>1, <1>2, <1>3, <1>4, <1>5, <1>6, <1>7 DEF Next, ReqStep, Answers

(* Closing keys closes no upstream subscription of another key.            *)
LEMMA OthersStayOpen ==
  ASSUME CoordInv, NEW K \in SUBSET Keys, Unmap(K), NEW u \in subs, owner[u] \notin K
  PROVE  u \in subs' /\ sequence' = sequence
<1>1. subs' = subs \ Upstreams(K) /\ sequence' = sequence
  BY DEF Unmap
<1>2. QED BY <1>1, Named

(* Every step leaves the registered request's upstream subscription open.  *)
LEMMA StillOpenStep ==
  ASSUME ReqInv, StillOpen, [Next]_vars
  PROVE  StillOpen'
<1>0. /\ subscriptions \in [Keys -> ReqIds \cup {NoReq}]
      /\ \A u \in Used : /\ opener[u] \in ReqIds /\ req[opener[u]].phase = "done"
                         /\ req[opener[u]].key = owner[u] /\ owner[u] \in Keys /\ owner[u] # NoKey
      /\ \A r \in ReqIds : r # NoReq
  BY KeyParts, NoKeyIsNone DEF ReqInv, TablesTypes, Opened, Begun
<1>1. ASSUME NEW r \in ReqIds, NEW k \in Keys, NEW f \in Filters, Req(r, k, f) \/ Subscribe(r, k, f)
      PROVE  StillOpen'
  <2>1. /\ req[r].phase = "none" /\ Others(r) /\ opener' = opener
        /\ subscriptions' = [subscriptions EXCEPT ![k] = r] /\ rushed \subseteq rushed'
    BY <1>1, Takes DEF ReqInv, CreateSubscription, Rush
  <2>2. ASSUME NEW u \in subs, owner[u] # k PROVE u \in subs'
    BY <1>1, <2>2, OthersStayOpen DEF ReqInv, Req, Subscribe, ClosedFirst, coordVars, mapVars
  <2>3. sequence' = sequence
    BY <1>1 DEF Req, Subscribe, Unmap, coordVars, mapVars
  <2>4. ASSUME NEW u \in Used, (Registered(opener[u]) /\ req[opener[u]].key \notin rushed)' PROVE u \in subs'
    <3> DEFINE q == opener[u]
    <3>1. q \in ReqIds /\ q # r /\ req'[q] = req[q] /\ req[q].key = owner[u] /\ owner[u] \in Keys /\ opener'[u] = q
      BY <1>0, <2>1 DEF Others
    <3>2. subscriptions'[owner[u]] = q /\ owner[u] \notin rushed
      BY <2>1, <2>4, <3>1 DEF Registered
    <3>3. owner[u] # k /\ subscriptions[owner[u]] = q
      BY <1>0, <2>1, <3>1, <3>2
    <3>4. u \in subs
      BY <1>0, <3>1, <3>2, <3>3 DEF StillOpen, Registered
    <3>5. QED BY <2>2, <3>3, <3>4
  <2>5. QED BY <2>1, <2>3, <2>4 DEF StillOpen, Used
<1>2. ASSUME NEW r \in ReqIds, Answers(r), req'[r].phase = "done", GoUpstream(r, Cached(r)) PROVE StillOpen'
  <2> DEFINE n == sequence + 1
             k == req[r].key
  <2>1. /\ n \in UpIds /\ sequence' = n /\ opener' = [opener EXCEPT ![n] = r]
        /\ subs' = (subs \ Upstreams({k})) \cup {n}
    BY <1>2 DEF GoUpstream, OpenForSubscription, Replaced
  <2>2. /\ Others(r) /\ InFlight(r) /\ req[r].phase # "done" /\ k \in Keys
        /\ UNCHANGED <<subscriptions, rushed>>
    BY <1>2, Answering DEF ReqInv, Begun, InFlight, tableVars
  <2>3. k \notin rushed => subscriptions[k] = r
    BY <2>2 DEF ReqInv, StillRegistered, Registered
  <2>4. /\ sequence \in Nat /\ UpIds = 1..MaxUp /\ MaxUp \in Nat
        /\ opener \in [UpIds -> ReqIds \cup {NoReq}]
    BY CoordinatorAssumption DEF ReqInv, CoordInv, CoordStateOK, HandlerTypes
  <2>5. \A u \in Used' : u = n \/ (u \in Used /\ u # n /\ u \in UpIds)
    BY <2>1, <2>4 DEF Used
  <2> HIDE DEF n, k
  <2>6. ASSUME NEW u \in Used, u # n, u \in UpIds, (Registered(opener[u]) /\ req[opener[u]].key \notin rushed)'
        PROVE  u \in subs'
    <3> DEFINE q == opener[u]
    <3>1. q \in ReqIds /\ req[q].phase = "done" /\ req[q].key = owner[u] /\ owner[u] # NoKey /\ opener'[u] = q
      BY <1>0, <2>1, <2>4, <2>6
    <3>2. q # r /\ req'[q] = req[q]
      BY <2>2, <3>1 DEF Others
    <3>3. Registered(q) /\ owner[u] \notin rushed
      BY <2>2, <2>6, <3>1, <3>2 DEF Registered
    <3>4. u \in subs /\ owner[u] # k
      BY <2>3, <3>1, <3>2, <3>3 DEF StillOpen, Registered
    <3>5. u \notin Upstreams({k})
      BY <2>2, <3>4, Named DEF ReqInv
    <3>6. QED BY <2>1, <3>4, <3>5
  <2>7. n \in subs'
    BY <2>1
  <2>8. QED BY <2>5, <2>6, <2>7 DEF StillOpen
<1>3. ASSUME NEW K \in SUBSET Keys, Unmap(K), UNCHANGED <<req, opener>>, rushed \subseteq rushed',
             subscriptions' = [k \in Keys |-> IF k \in K THEN NoReq ELSE subscriptions[k]]
      PROVE  StillOpen'
  <2>1. sequence' = sequence
    BY <1>3 DEF Unmap
  <2>2. ASSUME NEW u \in Used, (Registered(opener[u]) /\ req[opener[u]].key \notin rushed)' PROVE u \in subs'
    <3>1. owner[u] \notin K /\ Registered(opener[u]) /\ owner[u] \notin rushed
      BY <1>0, <1>3, <2>2 DEF Registered
    <3>2. u \in subs
      BY <1>0, <3>1 DEF StillOpen
    <3>3. QED BY <1>3, <3>1, <3>2, OthersStayOpen DEF ReqInv
  <2>3. QED BY <1>3, <2>1, <2>2 DEF StillOpen, Used
<1>4. ASSUME NEW k \in Keys, Close(k) PROVE StillOpen'
  <2>1. /\ subscriptions' = [subscriptions EXCEPT ![k] = NoReq] /\ Unmap({k})
        /\ rushed \subseteq rushed' /\ UNCHANGED <<req, opener>>
    BY <1>4 DEF Close, RemoveSubscription, CloseForSubscription, Rush
  <2>2. subscriptions' = [j \in Keys |-> IF j \in {k} THEN NoReq ELSE subscriptions[j]]
    BY <1>0, <2>1
  <2>3. QED BY <1>3, <2>1, <2>2
<1>5. ASSUME NEW c \in Clients, Disconnect(c) PROVE StillOpen'
  <2> DEFINE K == {k \in Keys : k[1] = c}
  <2>1. /\ subscriptions' = [k \in Keys |-> IF k[1] = c THEN NoReq ELSE subscriptions[k]] /\ Unmap(K)
        /\ rushed \subseteq rushed' /\ UNCHANGED <<req, opener>>
    BY <1>5 DEF Disconnect, RemoveAllSubscriptions, CloseAllForClient, Rush
  <2>2. subscriptions' = [k \in Keys |-> IF k \in K THEN NoReq ELSE subscriptions[k]]
    BY <2>1
  <2> HIDE DEF K
  <2>3. K \in SUBSET Keys
    BY DEF K
  <2>4. QED BY <1>3, <2>1, <2>2, <2>3
<1>6. CASE Undisturbed
  <2>1. ASSUME NEW u \in Used PROVE req'[opener[u]].key = req[opener[u]].key
    BY <1>0, <1>6 DEF Undisturbed
  <2>2. QED BY <1>0, <1>6, <2>1 DEF Undisturbed, StillOpen, Registered, Used
<1>7. QED
  BY <1>1, <1>2, <1>4, <1>5, <1>6, UndisturbedSteps DEF ReqInv

(* What stays as it was: an id keeps its opener, and a handled request its *)
(* key and whatever could not reach it.                                    *)
LEMMA HandledStays ==
  ASSUME ReqInv, [Next]_vars
  PROVE  /\ Used \subseteq Used' /\ \A u \in Used : opener'[u] = opener[u]
         /\ connected' \subseteq connected
         /\ \A r \in ReqIds : req[r].phase = "done" => req'[r] = req[r]
<1>1. Used \subseteq Used' /\ \A u \in Used : opener'[u] = opener[u]
  <2>0. /\ sequence \in Nat /\ sequence \in 0..MaxUp /\ UpIds = 1..MaxUp /\ MaxUp \in Nat
        /\ opener \in [UpIds -> ReqIds \cup {NoReq}]
    BY CoordinatorAssumption DEF ReqInv, CoordInv, CoordStateOK, HandlerTypes
  <2>1. CASE UNCHANGED <<sequence, opener>>
    BY <2>1 DEF Used
  <2>2. ASSUME NEW r \in ReqIds, GoUpstream(r, Cached(r)) PROVE Used \subseteq Used' /\ \A u \in Used : opener'[u] = opener[u]
    <3>1. sequence' = sequence + 1 /\ opener' = [opener EXCEPT ![sequence + 1] = r]
      BY <2>2 DEF GoUpstream, OpenForSubscription
    <3>2. QED BY <2>0, <3>1 DEF Used
  <2>3. QED BY <2>1, <2>2, OnlyGoingOpens DEF ReqInv
<1>2. connected' \subseteq connected
  <2>1. ASSUME NEW r \in ReqIds, NEW k \in Keys, NEW f \in Filters, Req(r, k, f) \/ Subscribe(r, k, f)
        PROVE  connected' = connected
    BY <2>1 DEF Req, Subscribe
  <2>2. ASSUME NEW k \in Keys, Close(k) PROVE connected' = connected
    BY <2>2 DEF Close
  <2>3. ASSUME NEW c \in Clients, Disconnect(c) PROVE connected' \subseteq connected
    BY <2>3 DEF Disconnect
  <2>4. QED BY <2>1, <2>2, <2>3, QuietSteps DEF ReqInv, Quiet
<1>3. ASSUME NEW r \in ReqIds, req[r].phase = "done" PROVE req'[r] = req[r]
  <2>1. ~Answers(r) /\ ~ReadCache(r) /\ ~ReadCacheFails(r)
    BY <1>3 DEF Answers, Reply, Narrowed, ReadCache, ReadCacheFails
  <2>2. ASSUME NEW q \in ReqIds, NEW k \in Keys, NEW f \in Filters, Req(q, k, f) \/ Subscribe(q, k, f)
        PROVE  req'[r] = req[r]
    BY <1>3, <2>2, Takes DEF ReqInv, Others
  <2>3. ASSUME NEW q \in ReqIds, NEW k \in Keys, NEW f \in Filters, ReqRefused(q, k, f) PROVE req'[r] = req[r]
    BY <1>3, <2>3, Refuses DEF ReqInv, Others
  <2>4. ASSUME NEW q \in ReqIds, ReadCache(q) \/ ReadCacheFails(q) PROVE req'[r] = req[r]
    BY <1>3, <2>4, Reads DEF ReqInv, Others
  <2>5. ASSUME NEW q \in ReqIds, Answers(q) PROVE req'[r] = req[r]
    BY <1>3, <2>5, Answering DEF ReqInv, Others
  <2>6. ASSUME NEW p \in PubIds, PubStep(p) \/ \E c \in Clients, e \in Events : Event(p, c, e) PROVE req'[r] = req[r]
    BY <2>6, PubGoes, Publishes DEF ReqInv
  <2>7. CASE UNCHANGED vars
    BY <2>7 DEF vars
  <2>8. QED
    BY <2>2, <2>3, <2>4, <2>5, <2>6, <2>7, Elsewhere DEF Next, ReqStep, Answers
<1>4. QED BY <1>1, <1>2, <1>3

(* What ends a list of messages is in it.                                  *)
LEMMA EndedIsIn ==
  ASSUME NEW s
  PROVE  Ended(s) <=> Eose \in ToSet(s)
BY DEF Ended, ToSet

(* Every step keeps that who is handled was answered or sent upstream.     *)
LEMMA AnsweredHereStep ==
  ASSUME ReqInv, AnsweredHere, [Next]_vars
  PROVE  AnsweredHere'
<1> SUFFICES ASSUME NEW r \in ReqIds, req'[r].phase = "done", Reachable(r)'
             PROVE  Ended(got'[r]) \/ \E u \in Used' : opener'[u] = r
  BY DEF AnsweredHere
<1>1. CASE req'[r] = req[r]
  <2>1. Reachable(r)
    BY <1>1, HandledStays DEF Reachable
  <2>2. Ended(got[r]) \/ \E u \in Used : opener[u] = r
    BY <1>1, <2>1 DEF AnsweredHere
  <2>3. Ended(got[r]) => Ended(got'[r])
    BY GotGrows, EndedIsIn DEF ReqInv
  <2>4. QED BY <2>2, <2>3, HandledStays
<1>2. CASE Answers(r)
  <2>1. req'[r].key = req[r].key /\ Cached(r) \in Seq(Messages) /\ connected' = connected
    BY <1>2, Answering, EventsOnly DEF ReqInv
  <2>2. Reachable(r)
    BY <2>1 DEF Reachable
  <2>3. got \in [ReqIds -> Seq(Messages)] /\ Eose \in Messages
    BY DEF ReqInv, HandlerTypes, Messages
  <2>4. CASE EndHere(r, Cached(r))
    <3>1. got'[r] = got[r] \o Cached(r) \o <<Eose>>
      BY <2>2, <2>3, <2>4 DEF EndHere
    <3>2. got'[r] = Append(got[r] \o Cached(r), Eose)
      BY <2>1, <2>3, <3>1, EndedWithEose
    <3>3. got[r] \o Cached(r) \in Seq(Messages)
      BY <2>1, <2>3
    <3>4. QED BY <2>3, <3>2, <3>3, Added
  <2>5. CASE GoUpstream(r, Cached(r))
    <3>1. /\ sequence' = sequence + 1 /\ sequence + 1 \in UpIds
          /\ opener' = [opener EXCEPT ![sequence + 1] = r]
      BY <2>5 DEF GoUpstream, OpenForSubscription
    <3>2. sequence \in Nat /\ opener \in [UpIds -> ReqIds \cup {NoReq}]
      BY DEF ReqInv, CoordInv, CoordStateOK, HandlerTypes
    <3>3. QED BY <3>1, <3>2 DEF Used
  <2>6. QED BY <1>2, <2>4, <2>5, Answering DEF ReqInv
<1>3. CASE ReadCache(r) \/ ReadCacheFails(r)
  BY <1>3, Reads DEF ReqInv
<1>4. QED BY <1>1, <1>2, <1>3, ReqMoves DEF ReqInv

(* Every step keeps that the EOSE the coordinator delivered came through.  *)
LEMMA AnsweredUpstreamStep ==
  ASSUME ReqInv, AnsweredUpstream, [Next]_vars
  PROVE  AnsweredUpstream'
<1>0. /\ sequence \in Nat /\ UpIds = 1..MaxUp /\ sequence \in 0..MaxUp /\ MaxUp \in Nat
      /\ out \in [UpIds -> Seq(Messages)] /\ got \in [ReqIds -> Seq(Messages)]
      /\ Eose \in Messages /\ Eose \notin Events
  BY CoordinatorAssumption DEF ReqInv, CoordInv, CoordStateOK, HandlerTypes, Messages
<1>1. ASSUME NEW u \in Used, Ended(out[u]), Reachable(opener[u])' PROVE Ended(got'[opener'[u]])
  <2>1. /\ opener[u] \in ReqIds /\ opener'[u] = opener[u] /\ req'[opener[u]] = req[opener[u]]
        /\ connected' \subseteq connected
    BY HandledStays DEF ReqInv, Opened
  <2>2. Reachable(opener[u])
    BY <1>1, <2>1 DEF Reachable
  <2>3. Ended(got[opener[u]])
    BY <1>1, <2>2 DEF AnsweredUpstream
  <2>4. Ended(got'[opener[u]])
    BY <2>1, <2>3, GotGrows, EndedIsIn DEF ReqInv
  <2>5. QED BY <2>1, <2>4
<1>2. ASSUME UNCHANGED <<out, sequence>> PROVE AnsweredUpstream'
  BY <1>1, <1>2 DEF AnsweredUpstream, Used
<1>3. CASE Unsent
  BY <1>2, <1>3 DEF Unsent
<1>4. ASSUME NEW r \in ReqIds, Answers(r) PROVE AnsweredUpstream'
  <2>1. out' = out
    BY <1>4, Answering DEF ReqInv, EndHere, GoUpstream, OpenForSubscription, coordVars, stateVars
  <2>2. CASE sequence' = sequence
    BY <1>2, <2>1, <2>2
  <2>3. CASE sequence' = sequence + 1 /\ sequence + 1 \in UpIds
    <3>1. \A u \in Used' : u \in Used \/ u = sequence + 1
      BY <1>0, <2>3 DEF Used
    <3>2. out[sequence + 1] = <<>>
      BY <1>0, <2>3 DEF ReqInv, CoordInv, Unused
    <3>3. ~Ended(out[sequence + 1])
      BY <3>2 DEF Ended
    <3>4. QED BY <1>1, <2>1, <3>1, <3>3 DEF AnsweredUpstream
  <2>4. QED
    BY <1>4, <2>2, <2>3, Answering
    DEF ReqInv, EndHere, GoUpstream, OpenForSubscription, coordVars, mapVars
<1>5. ASSUME NEW p \in PubIds, Broadcast(p) PROVE AnsweredUpstream'
  BY <1>2, <1>5 DEF Broadcast, MarkDelivered, mapVars
<1>6. ASSUME NEW v \in UpIds, NEW x \in Messages, Backfill(v), Passes(v, x) PROVE AnsweredUpstream'
  <2>1. /\ v \in Used /\ opener[v] \in ReqIds /\ out' = [out EXCEPT ![v] = Append(out[v], x)]
        /\ got' = IF Reachable(opener[v]) THEN [got EXCEPT ![opener[v]] = Append(got[opener[v]], x)] ELSE got
    BY <1>6 DEF Passes
  <2>2. UNCHANGED <<sequence, opener, connected, req>>
    BY <1>6 DEF Backfill, IngestSkipped, IngestStart, SendEose, IngestDone, mapVars
  <2>3. ASSUME NEW u \in Used, Ended(out'[u]), Reachable(opener[u]) PROVE Ended(got'[opener[u]])
    <3>1. CASE Ended(out[u])
      BY <1>1, <2>2, <2>3, <3>1 DEF Reachable
    <3>2. CASE ~Ended(out[u])
      <4>1. u = v /\ x = Eose
        <5>1. u \in UpIds
          BY <1>0 DEF Used
        <5>2. u = v
          BY <1>0, <2>1, <2>3, <3>2, <5>1
        <5>3. x # Eose => (Ended(Append(out[v], x)) <=> Ended(out[v]))
          BY <1>0, Added
        <5>4. QED BY <1>0, <2>1, <2>3, <3>2, <5>1, <5>2, <5>3
      <4>2. got'[opener[u]] = Append(got[opener[u]], Eose) /\ got[opener[u]] \in Seq(Messages)
        BY <1>0, <2>1, <2>3, <4>1
      <4>3. QED BY <1>0, <4>2, Added
    <3>3. QED BY <3>1, <3>2
  <2>4. QED BY <2>2, <2>3 DEF AnsweredUpstream, Used, Reachable
<1>7. QED
  BY <1>3, <1>4, <1>5, <1>6, UnsentSteps DEF ReqInv

(* The invariant holds always.                                             *)
LEMMA AnswerAlways == Spec => []AnswerInv
<1>1. Init => AnswerInv
  <2> SUFFICES ASSUME Init PROVE AnswerInv
    OBVIOUS
  <2>1. Used = {} /\ CoordInit /\ \A r \in ReqIds : req[r].phase = "none"
    BY DEF Init, CoordInit, Used, NewReq
  <2>2. StillOpen /\ AnsweredHere /\ AnsweredUpstream
    BY <2>1 DEF StillOpen, AnsweredHere, AnsweredUpstream
  <2>3. QED BY <2>1, <2>2, ReqInit, EoseKeptInit DEF AnswerInv
<1>2. AnswerInv /\ [Next]_vars => AnswerInv'
  <2> SUFFICES ASSUME AnswerInv, [Next]_vars PROVE AnswerInv'
    OBVIOUS
  <2>1. [CoordAct]_coordVars
    BY CoordActs DEF AnswerInv, ReqInv, vars
  <2>2. EoseKept'
    BY <2>1, EoseKeptStep DEF AnswerInv, ReqInv
  <2>3. QED
    BY <2>2, ReqStepInv, StillOpenStep, AnsweredHereStep, AnsweredUpstreamStep DEF AnswerInv
<1>3. QED BY <1>1, <1>2, PTL DEF Spec

(* A registered request was answered, or somebody is about to.             *)
AnswerComes ==
  \A r \in ReqIds :
    req[r].phase = "done" /\ Registered(r) /\ req[r].key \notin rushed
    => \/ Eose \in ToSet(got[r])
       \/ \E u \in subs : opener[u] = r /\ (u \in timer \/ HoldsEose(chain[u]))

(* No REQ is forgotten: as long as its subscription is the registered one  *)
(* and was left alone while the handler ran, a handled REQ has its EOSE,   *)
(* or an open upstream subscription of its own holds it, with the timeout  *)
(* armed or the EOSE queued behind the storage writes.  EveryReqAnswered   *)
(* then only needs timers to run out and storage writes to settle.         *)
THEOREM RequestAnswerComes == Spec => []AnswerComes
<1>1. ASSUME AnswerInv PROVE AnswerComes
  <2> SUFFICES ASSUME NEW r \in ReqIds, req[r].phase = "done", Registered(r), req[r].key \notin rushed,
                      ~Ended(got[r])
               PROVE  \E u \in subs : opener[u] = r /\ (u \in timer \/ HoldsEose(chain[u]))
    BY EndedIsIn DEF AnswerComes
  <2>1. Reachable(r)
    BY <1>1, RegisteredReachable DEF AnswerInv, ReqInv
  <2>2. PICK u \in Used : opener[u] = r
    BY <1>1, <2>1 DEF AnswerInv, AnsweredHere
  <2>3. u \in subs
    BY <1>1, <2>2 DEF AnswerInv, StillOpen
  <2>4. ~Ended(out[u])
    BY <1>1, <2>1, <2>2 DEF AnswerInv, AnsweredUpstream
  <2>5. u \in timer \/ HoldsEose(chain[u])
    BY <1>1, <2>3, <2>4, KeptComes DEF AnswerInv, ReqInv, EoseComes
  <2>6. QED BY <2>2, <2>3, <2>5
<1>2. AnswerInv => AnswerComes
  BY <1>1
<1>3. QED BY <1>2, AnswerAlways, PTL
=============================================================================
