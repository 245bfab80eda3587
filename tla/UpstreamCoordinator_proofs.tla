---------------------- MODULE UpstreamCoordinator_proofs ----------------------
(***************************************************************************)
(* What is proved of UpstreamCoordinator for any clients, subscription ids *)
(* and events, any size of the dedup set and any number of subscriptions.  *)
(*                                                                         *)
(* CoordInv is the inductive invariant: types, the tables of NothingLeaks, and *)
(* what an id that was never handed out looks like (Unused); where the     *)
(* EOSE of a subscription can stand, in its chain or in its output, and    *)
(* what stands before it (EosePlace); and that the dedup set of a live     *)
(* subscription covers what its client has, up to the item whose ingest is *)
(* in flight (DedupCovers).                                                *)
(***************************************************************************)
EXTENDS UpstreamCoordinator, FiniteSetTheorems, SequenceTheorems, TLAPS

Items == [what : Events \cup {Eose}, early : BOOLEAN]

Unused ==
  \A u \in UpIds : u > sequence => chain[u] = <<>> /\ out[u] = <<>> /\ u \notin eoseSent

Owned == \A u \in subs : owner[u] \in Keys

(* A chain c and an output o, where sent says whether the EOSE was flushed. *)
Placed(c, o, sent) ==
  /\ sent \/ \A i \in DOMAIN c : c[i].what # Eose
  /\ sent \/ \A i \in DOMAIN o : o[i] # Eose
  /\ \A i, j \in DOMAIN c : c[i].what = Eose /\ c[j].what = Eose => i = j
  /\ \A i, j \in DOMAIN o : o[i] = Eose /\ o[j] = Eose => i = j
  /\ (\E i \in DOMAIN o : o[i] = Eose) => \A i \in DOMAIN c : c[i].what # Eose
  /\ sent => \A i \in DOMAIN c : c[i].early => \E j \in DOMAIN c : j > i /\ c[j].what = Eose
EosePlace == \A u \in UpIds : Placed(chain[u], out[u], u \in eoseSent)

DedupCovers ==
  \A u \in UpIds \ closed :
    /\ had[u] \subseteq ToSet(sentIds[u])
    /\ u \in ingesting => Head(chain[u]).what \notin had[u]

CoordInv == CoordStateOK /\ NothingLeaks /\ Unused /\ Owned /\ EosePlace /\ DedupCovers

-----------------------------------------------------------------------------
(* Sequences: what appending and taking the tail do to the elements.       *)

(* Appending adds one element, at the end.                                 *)
LEMMA Appended ==
  ASSUME NEW S, NEW s \in Seq(S), NEW x \in S
  PROVE  /\ Append(s, x) \in Seq(S)
         /\ Len(Append(s, x)) = Len(s) + 1 /\ Len(s) \in Nat
         /\ DOMAIN s = 1..Len(s) /\ DOMAIN Append(s, x) = 1..(Len(s) + 1)
         /\ \A i \in DOMAIN s : Append(s, x)[i] = s[i]
         /\ Append(s, x)[Len(s) + 1] = x
         /\ Append(s, x) # <<>> /\ Append(s, x) # s
         /\ s # <<>> => Head(Append(s, x)) = Head(s)
<1>1. /\ Append(s, x) \in Seq(S)
      /\ Len(Append(s, x)) = Len(s) + 1 /\ Len(s) \in Nat
      /\ DOMAIN s = 1..Len(s) /\ DOMAIN Append(s, x) = 1..(Len(s) + 1)
      /\ Append(s, x)[Len(s) + 1] = x
  OBVIOUS
<1>2. \A i \in DOMAIN s : Append(s, x)[i] = s[i] OBVIOUS
<1>3. Append(s, x) # <<>> /\ Append(s, x) # s
  <2> DEFINE m == Len(Append(s, x))
             n == Len(s)
  <2>1. m = n + 1 /\ n \in Nat BY <1>1
  <2> HIDE DEF m, n
  <2>2. m # n /\ m # 0 BY <2>1
  <2> USE DEF m, n
  <2>3. Len(<<>>) = 0 OBVIOUS
  <2>4. QED BY <2>2, <2>3, Zenon
<1>4. s # <<>> => Head(Append(s, x)) = Head(s) BY <1>1, <1>2
<1>5. QED BY <1>1, <1>2, <1>3, <1>4

(* Appending adds one element to the set of them.                          *)
LEMMA AppendedSet ==
  ASSUME NEW S, NEW s \in Seq(S), NEW x \in S
  PROVE  ToSet(Append(s, x)) = ToSet(s) \cup {x}
BY Appended DEF ToSet

(* The tail is the sequence moved up by one.                               *)
LEMMA Tailed ==
  ASSUME NEW S, NEW s \in Seq(S), s # <<>>
  PROVE  /\ Tail(s) \in Seq(S) /\ Head(s) \in S /\ Head(s) = s[1]
         /\ Len(s) \in Nat \ {0} /\ Len(Tail(s)) = Len(s) - 1
         /\ DOMAIN s = 1..Len(s) /\ DOMAIN Tail(s) = 1..(Len(s) - 1)
         /\ \A i \in DOMAIN Tail(s) : Tail(s)[i] = s[i + 1]
OBVIOUS

(* The tail has no element the sequence has not.                           *)
LEMMA TailedSet ==
  ASSUME NEW S, NEW s \in Seq(S), s # <<>>
  PROVE  ToSet(Tail(s)) \subseteq ToSet(s)
BY Tailed DEF ToSet

(* addSentId() stays within its bound and remembers nothing else than what *)
(* it was given; what it does not remember any more is Forgotten.          *)
LEMMA Remembered ==
  ASSUME NEW ids \in Seq(Events), NEW e \in Events
  PROVE  /\ AddSentId(ids, e) \in Seq(Events)
         /\ Len(AddSentId(ids, e)) <= MaxSentIds \/ Len(AddSentId(ids, e)) <= Len(ids)
         /\ ToSet(AddSentId(ids, e)) = (ToSet(ids) \cup {e}) \ Forgotten(ids, e)
<1> DEFINE added == IF e \in ToSet(ids) THEN ids ELSE Append(ids, e)
<1>1. added \in Seq(Events) /\ Len(added) \in Nat /\ Len(ids) \in Nat /\ Len(added) <= Len(ids) + 1
  BY Appended, CoordinatorAssumption
<1>2. ToSet(added) = ToSet(ids) \cup {e}
  BY AppendedSet
<1>3. Len(added) > MaxSentIds => added # <<>>
  BY <1>1, CoordinatorAssumption
<1>4. CASE Len(added) > MaxSentIds
  <2>1. AddSentId(ids, e) = Tail(added) BY <1>4 DEF AddSentId
  <2>2. Tail(added) \in Seq(Events) /\ Len(Tail(added)) <= Len(ids)
    BY <1>1, <1>3, <1>4, Tailed, CoordinatorAssumption
  <2>3. ToSet(Tail(added)) \subseteq ToSet(ids) \cup {e}
    BY <1>1, <1>2, <1>3, <1>4, TailedSet
  <2>4. QED BY <2>1, <2>2, <2>3 DEF Forgotten
<1>5. CASE ~(Len(added) > MaxSentIds)
  <2>1. AddSentId(ids, e) = added BY <1>5 DEF AddSentId
  <2>2. QED BY <1>1, <1>2, <1>5, <2>1, CoordinatorAssumption DEF Forgotten
<1>6. QED BY <1>4, <1>5

-----------------------------------------------------------------------------
(* Every step of the coordinator, however it is called: RelayRequests      *)
(* opens a subscription with all that a REQ was sent from the cache, and   *)
(* marks an event as delivered to several subscriptions at once.           *)
CoordAct ==
  \/ \E k \in Keys, seed \in Seq(Events) : OpenForSubscription(k, seed)
  \/ \E K \in SUBSET Keys : Unmap(K) \/ \E e \in Events : MarkDelivered(K, e)
  \/ CoordStart
  \/ CoordStop
  \/ UpstreamStep
  \/ \E u \in UpIds : ChainStep(u) \/ EoseTimeout(u)

(* What the coordinator alone is opened with are ids of events.            *)
LEMMA SeedsFit ==
  ASSUME NEW seed \in Seeds
  PROVE  seed \in Seq(Events) /\ Len(seed) <= MaxSentIds
<1>1. PICK n \in 0..MaxSentIds : seed \in [1..n -> Events]
  BY DEF Seeds
<1>2. QED BY <1>1, CoordinatorAssumption

(* So its own next-state relation is among those steps.                    *)
LEMMA NextIsAct == CoordNext => CoordAct
<1> SUFFICES ASSUME CoordNext PROVE CoordAct
  OBVIOUS
<1>1. ASSUME NEW k \in Keys, NEW seed \in Seeds, OpenForSubscription(k, seed) PROVE CoordAct
  BY <1>1, SeedsFit DEF CoordAct
<1>2. ASSUME NEW k \in Keys, CloseForSubscription(k) \/ \E e \in Events : MarkDelivered({k}, e) PROVE CoordAct
  BY <1>2 DEF CoordAct, CloseForSubscription
<1>3. ASSUME NEW c \in Clients, CloseAllForClient(c) PROVE CoordAct
  BY <1>3 DEF CoordAct, CloseAllForClient
<1>4. CASE CoordStart \/ CoordStop \/ UpstreamStep \/ \E u \in UpIds : ChainStep(u) \/ EoseTimeout(u)
  BY <1>4 DEF CoordAct
<1>5. QED BY <1>1, <1>2, <1>3, <1>4 DEF CoordNext

-----------------------------------------------------------------------------
(* The invariant of the coordinator holds at first.                        *)
THEOREM CoordInitInv == CoordInit => CoordInv
<1> SUFFICES ASSUME CoordInit PROVE CoordInv
  OBVIOUS
<1> USE CoordinatorAssumption DEF CoordInit, PoolInit
<1>1. CoordStateOK
  <2>1. poolStopped \in BOOLEAN BY Zenon
  <2>2. sentIds \in [UpIds -> Seq(Events)]
    OBVIOUS
  <2>3. /\ chain \in [UpIds -> Seq([what : Events \cup {Eose}, early : BOOLEAN])]
        /\ out \in [UpIds -> Seq(Events \cup {Eose})]
        /\ had \in [UpIds -> SUBSET Events]
    OBVIOUS
  <2>4. byKey \in [Keys -> UpIds \cup {NoUp}] /\ owner \in [UpIds -> Keys \cup {NoKey}]
    OBVIOUS
  <2>5. sequence \in 0..MaxUp /\ fired \in [UpIds -> Nat] OBVIOUS
  <2>6. subs \subseteq 1..sequence /\ ingesting = {} OBVIOUS
  <2>7. QED BY <2>1, <2>2, <2>3, <2>4, <2>5, <2>6 DEF CoordStateOK
<1>2. NothingLeaks /\ Owned
  BY DEF NothingLeaks, OneToOne, ClosedIffForgotten, TimerIffHeld, Owned
<1>3. Unused /\ EosePlace /\ DedupCovers
  BY DEF Unused, EosePlace, Placed, DedupCovers
<1>4. QED BY <1>1, <1>2, <1>3 DEF CoordInv

-----------------------------------------------------------------------------
(* The tables.  What Open and the closing operations do to the keys and to *)
(* the ids they name.                                                      *)

(* The keys of a set name the subscriptions they own, and no others.       *)
LEMMA Named ==
  ASSUME CoordInv, NEW K \in SUBSET Keys
  PROVE  /\ Upstreams(K) \subseteq subs
         /\ \A u \in subs : u \in Upstreams(K) <=> owner[u] \in K
<1>1. /\ \A k \in Keys : byKey[k] # NoUp => byKey[k] \in subs /\ owner[byKey[k]] = k
      /\ \A u \in subs : byKey[owner[u]] = u /\ owner[u] \in Keys /\ u # NoUp
  BY DEF CoordInv, CoordStateOK, NothingLeaks, OneToOne, Owned, NoUp
<1>2. \A u : u \in Upstreams(K) <=> u # NoUp /\ \E k \in K : byKey[k] = u
  BY DEF Upstreams
<1>3. QED BY <1>1, <1>2

(* Every operation keeps table, timers and owners 1:1.                     *)
LEMMA TablesStep ==
  ASSUME CoordInv, CoordAct
  PROVE  NothingLeaks' /\ Owned'
<1> USE DEF NothingLeaks, OneToOne, ClosedIffForgotten, TimerIffHeld, Owned, ClosedAfter, TimersAfter
<1>0. /\ NothingLeaks /\ Owned /\ Unused
      /\ sequence \in Nat /\ subs \subseteq 1..sequence /\ subs \subseteq UpIds
      /\ byKey \in [Keys -> UpIds \cup {NoUp}] /\ owner \in [UpIds -> Keys \cup {NoKey}]
      /\ UpIds = 1..MaxUp /\ MaxUp \in Nat
  BY CoordinatorAssumption DEF CoordInv, CoordStateOK
<1>1. ASSUME NEW k \in Keys, NEW seed, OpenForSubscription(k, seed) PROVE NothingLeaks' /\ Owned'
  <2> DEFINE u == sequence + 1
             old == Upstreams({k})
  <2>1. /\ u \in UpIds /\ sequence' = u /\ byKey' = [byKey EXCEPT ![k] = u]
        /\ closed' = closed \cup (old \cap subs) /\ timer' = (timer \ old) \cup {u}
        /\ subs' = (subs \ old) \cup {u} /\ owner' = [owner EXCEPT ![u] = k]
        /\ open' \cup owing' \subseteq ((open \cup owing) \ old) \cup {u}
        /\ eoseSent' = eoseSent
    BY <1>1 DEF OpenForSubscription, Replaced, ArmedFor, PoolOpen
  <2>2. u \notin subs /\ u \notin eoseSent /\ u \notin old
    BY <1>0, <2>1, Named DEF Unused
  <2>3. \A v \in subs : v \in old <=> owner[v] = k
    BY Named
  <2>8. old \subseteq subs /\ u = sequence + 1 BY Named
  <2> HIDE DEF old, u
  <2>4. OneToOne'
    BY <1>0, <2>1, <2>2, <2>3
  <2>5. ClosedIffForgotten' /\ TimerIffHeld'
    <3>1. closed = 1..sequence \ subs /\ timer = subs \ eoseSent BY <1>0
    <3>2. subs' = (subs \ old) \cup {u} /\ sequence' = sequence + 1 BY <2>1, <2>8
    <3>3. 1..sequence' = (1..sequence) \cup {u} BY <1>0, <2>8, <3>2
    <3>a. u \notin 1..sequence /\ subs \subseteq 1..sequence BY <1>0, <2>8
    <3>b. closed' = closed \cup (old \cap subs) BY <2>1
    <3>4. closed' = 1..sequence' \ subs' BY <3>a, <3>b, <2>2, <2>8, <3>1, <3>2, <3>3
    <3>5. timer' = subs' \ eoseSent' BY <2>1, <2>2, <2>8, <3>1, <3>2
    <3>6. QED BY <3>4, <3>5
  <2>6. Owned' BY <1>0, <2>1, <2>2
  <2>7. QED BY <2>4, <2>5, <2>6
<1>2. ASSUME NEW K \in SUBSET Keys, Unmap(K) PROVE NothingLeaks' /\ Owned'
  <2> DEFINE U == Upstreams(K)
  <2>1. /\ byKey' = [k \in Keys |-> IF k \in K THEN NoUp ELSE byKey[k]]
        /\ closed' = closed \cup (U \cap subs) /\ timer' = timer \ U /\ subs' = subs \ U
        /\ open' = open \ U /\ owing' = owing \ U
        /\ UNCHANGED <<sequence, owner, eoseSent>>
    BY <1>2 DEF Unmap, PoolClose, stateVars
  <2>2. U \subseteq subs /\ \A u \in subs : u \in U <=> owner[u] \in K
    BY Named
  <2> HIDE DEF U
  <2>3. QED BY <1>0, <2>1, <2>2
<1>3. ASSUME NEW K, NEW e, MarkDelivered(K, e) PROVE NothingLeaks' /\ Owned'
  BY <1>0, <1>3 DEF MarkDelivered, mapVars, poolVars
<1>4. CASE CoordStart
  BY <1>0, <1>4 DEF CoordStart, PoolStart, mapVars, stateVars
<1>5. CASE CoordStop
  BY <1>0, <1>5 DEF CoordStop, PoolStop, stateVars
<1>6. ASSUME NEW u \in UpIds, NEW e \in Events, HandleUpstreamEvent(u, e) PROVE NothingLeaks' /\ Owned'
  BY <1>0, <1>6 DEF HandleUpstreamEvent, mapVars, poolVars
<1>7. ASSUME NEW U, FlushEose(U), open' \subseteq open, owing' \subseteq owing PROVE NothingLeaks' /\ Owned'
  BY <1>0, <1>7 DEF FlushEose, AlreadyFlushed
<1>8. ASSUME NEW u \in UpIds, ChainStep(u) PROVE NothingLeaks' /\ Owned'
  <2>1. UNCHANGED <<sequence, subs, byKey, timer, closed, owner, eoseSent, open, owing>>
    BY <1>8 DEF ChainStep, IngestSkipped, IngestStart, IngestDone, SendEose, mapVars, poolVars
  <2>2. QED BY <1>0, <2>1
<1>9. ASSUME NEW S, HandleUpstreamEose(S) PROVE NothingLeaks' /\ Owned'
  BY <1>7, <1>9 DEF HandleUpstreamEose, PoolFire
<1>10. ASSUME NEW u, EoseTimeout(u) PROVE NothingLeaks' /\ Owned'
  BY <1>7, <1>10 DEF EoseTimeout, poolVars
<1>11. QED
  BY <1>1, <1>2, <1>3, <1>4, <1>5, <1>6, <1>8, <1>9, <1>10
  DEF CoordAct, UpstreamStep

-----------------------------------------------------------------------------
(* The ways a step can treat the chain and the output of a subscription.   *)

Stays(u) == chain'[u] = chain[u] /\ out'[u] = out[u] /\ (u \in eoseSent' <=> u \in eoseSent)
Queues(u) ==
  /\ \E e \in Events : chain'[u] = Append(chain[u], Item(e, u \notin eoseSent))
  /\ out'[u] = out[u] /\ (u \in eoseSent' <=> u \in eoseSent) /\ u \in subs
Flushes(u) ==
  /\ u \notin eoseSent /\ u \in eoseSent' /\ u \in subs
  /\ chain'[u] = Append(chain[u], EoseItem) /\ out'[u] = out[u]
Settles(u) ==
  /\ chain[u] # <<>> /\ Head(chain[u]).what # Eose /\ chain'[u] = Tail(chain[u])
  /\ out'[u] = out[u] \/ \E e \in Events : out'[u] = Append(out[u], e)
  /\ (u \in eoseSent' <=> u \in eoseSent)
Ends(u) ==
  /\ chain[u] # <<>> /\ Head(chain[u]).what = Eose /\ chain'[u] = Tail(chain[u])
  /\ (u \in closed /\ out'[u] = out[u]) \/ out'[u] = Append(out[u], Eose)
  /\ (u \in eoseSent' <=> u \in eoseSent)

(* The types the proofs about the chain lean on.                           *)
LEMMA ChainTypes ==
  ASSUME CoordInv, NEW u \in UpIds
  PROVE  /\ chain[u] \in Seq(Items) /\ out[u] \in Seq(Events \cup {Eose})
         /\ chain \in [UpIds -> Seq(Items)] /\ out \in [UpIds -> Seq(Events \cup {Eose})]
         /\ sentIds \in [UpIds -> Seq(Events)] /\ had \in [UpIds -> SUBSET Events]
         /\ \A b \in BOOLEAN, e \in Events : Item(e, b) \in Items
         /\ EoseItem \in Items /\ EoseItem.what = Eose /\ ~EoseItem.early
         /\ \A v \in ingesting : v \in UpIds /\ chain[v] # <<>> /\ Head(chain[v]).what # Eose
         /\ chain[u] # <<>> /\ Head(chain[u]).what # Eose => Head(chain[u]).what \in Events
<1>1. /\ chain \in [UpIds -> Seq(Items)] /\ out \in [UpIds -> Seq(Events \cup {Eose})]
      /\ sentIds \in [UpIds -> Seq(Events)] /\ had \in [UpIds -> SUBSET Events]
      /\ \A v \in ingesting : v \in UpIds /\ chain[v] # <<>> /\ Head(chain[v]).what # Eose
  BY DEF CoordInv, CoordStateOK, Items
<1>2. /\ \A b \in BOOLEAN, e \in Events : Item(e, b) \in Items
      /\ EoseItem \in Items /\ EoseItem.what = Eose /\ ~EoseItem.early
  BY DEF Item, EoseItem, Items
<1>3. ASSUME chain[u] # <<>>, Head(chain[u]).what # Eose PROVE Head(chain[u]).what \in Events
  <2>1. Head(chain[u]) \in Items BY <1>1, <1>3, Tailed
  <2>2. QED BY <1>3, <2>1 DEF Items
<1>4. QED BY <1>1, <1>2, <1>3

(* What an operation can do to the chain and the output of a               *)
(* subscription.                                                           *)
LEMMA ChainMoves ==
  ASSUME CoordInv, CoordAct, NEW u \in UpIds
  PROVE  Stays(u) \/ Queues(u) \/ Flushes(u) \/ Settles(u) \/ Ends(u)
<1> DEFINE Goal == Stays(u) \/ Queues(u) \/ Flushes(u) \/ Settles(u) \/ Ends(u)
<1> SUFFICES Goal
  OBVIOUS
<1>1. ASSUME UNCHANGED <<chain, out, eoseSent>> PROVE Goal
  BY <1>1 DEF Stays
<1>2. ASSUME NEW v \in UpIds, NEW e \in Events, HandleUpstreamEvent(v, e) PROVE Goal
  BY <1>2, ChainTypes DEF HandleUpstreamEvent, Stays, Queues
<1>3. ASSUME NEW U, FlushEose(U) PROVE Goal
  BY <1>3, ChainTypes DEF FlushEose, AlreadyFlushed, ChainWithEose, Stays, Flushes
<1>4. ASSUME NEW v \in UpIds, IngestSkipped(v) PROVE Goal
  BY <1>4, ChainTypes DEF IngestSkipped, Stays, Settles
<1>5. ASSUME NEW v \in UpIds, NEW result, IngestDone(v, result) PROVE Goal
  <2>1. /\ v \in ingesting /\ chain[v] # <<>> /\ Head(chain[v]).what # Eose
        /\ Head(chain[v]).what \in Events
    BY <1>5, ChainTypes DEF IngestDone
  <2>2. /\ chain' = [chain EXCEPT ![v] = Tail(@)] /\ eoseSent' = eoseSent
        /\ out' = out \/ out' = [out EXCEPT ![v] = Append(@, Head(chain[v]).what)]
    BY <1>5 DEF IngestDone
  <2>3. QED BY <2>1, <2>2, ChainTypes DEF Stays, Settles
<1>6. ASSUME NEW v \in UpIds, SendEose(v) PROVE Goal
  BY <1>6, ChainTypes DEF SendEose, Stays, Ends
<1>7. ASSUME NEW k, NEW seed, OpenForSubscription(k, seed) PROVE Goal
  BY <1>1, <1>7 DEF OpenForSubscription
<1>8. ASSUME NEW K, Unmap(K) PROVE Goal
  BY <1>1, <1>8 DEF Unmap, stateVars
<1>9. ASSUME NEW K, NEW e, MarkDelivered(K, e) PROVE Goal
  BY <1>1, <1>9 DEF MarkDelivered
<1>10. CASE CoordStart \/ CoordStop
  BY <1>1, <1>10 DEF CoordStart, CoordStop, stateVars
<1>11. ASSUME NEW v \in UpIds, IngestStart(v) PROVE Goal
  BY <1>1, <1>11 DEF IngestStart
<1>12. QED
  BY <1>2, <1>3, <1>4, <1>5, <1>6, <1>7, <1>8, <1>9, <1>10, <1>11
  DEF CoordAct, UpstreamStep, HandleUpstreamEose,
      EoseTimeout, ChainStep

(* Whatever happens to it, the EOSE of a subscription is where it may be.  *)
LEMMA QueuedBehind ==
  ASSUME NEW c \in Seq(Items), NEW o, NEW sent, Placed(c, o, sent),
         NEW x \in Items, x.what # Eose, x.early => ~sent
  PROVE  Placed(Append(c, x), o, sent)
<1> DEFINE d == Append(c, x)
           n == Len(c)
<1>1. /\ n \in Nat /\ DOMAIN c = 1..n /\ DOMAIN d = 1..(n + 1)
      /\ d[n + 1] = x /\ \A i \in 1..n : d[i] = c[i]
  BY Appended
<1> HIDE DEF d, n
<1>2. sent => \A i \in DOMAIN d : d[i].early => \E j \in DOMAIN d : j > i /\ d[j].what = Eose
  <2> SUFFICES ASSUME sent, NEW i \in DOMAIN d, d[i].early
               PROVE  \E j \in DOMAIN d : j > i /\ d[j].what = Eose
    OBVIOUS
  <2>1. i \in 1..n BY <1>1
  <2>2. PICK j \in 1..n : j > i /\ c[j].what = Eose
    BY <1>1, <2>1 DEF Placed
  <2>3. QED BY <1>1, <2>2
<1>3. QED BY <1>1, <1>2 DEF Placed, d

(* An EOSE queued behind everything else is in its place.                  *)
LEMMA FlushedBehind ==
  ASSUME NEW c \in Seq(Items), NEW o, Placed(c, o, FALSE)
  PROVE  Placed(Append(c, EoseItem), o, TRUE)
<1> DEFINE d == Append(c, EoseItem)
           n == Len(c)
<1>1. /\ n \in Nat /\ DOMAIN c = 1..n /\ DOMAIN d = 1..(n + 1)
      /\ d[n + 1].what = Eose /\ ~d[n + 1].early /\ \A i \in 1..n : d[i] = c[i]
  BY Appended DEF EoseItem, Items
<1> HIDE DEF d, n
<1>2. \A i \in DOMAIN d : d[i].early => \E j \in DOMAIN d : j > i /\ d[j].what = Eose
  <2>1. n + 1 \in DOMAIN d BY <1>1
  <2>2. \A i \in DOMAIN d : d[i].early => i < n + 1 BY <1>1
  <2>3. QED BY <1>1, <2>1, <2>2
<1>3. QED BY <1>1, <1>2 DEF Placed, d

(* Taking the head of the chain leaves the EOSE in its place.              *)
LEMMA HeadGone ==
  ASSUME NEW c \in Seq(Items), c # <<>>, NEW o \in Seq(Events \cup {Eose}), NEW sent, Placed(c, o, sent),
         NEW p,
         \/ p = o
         \/ Head(c).what # Eose /\ \E e \in Events : p = Append(o, e)
         \/ Head(c).what = Eose /\ p = Append(o, Eose)
  PROVE  Placed(Tail(c), p, sent)
<1> DEFINE d == Tail(c)
           n == Len(c)
           m == Len(o)
<1>1. /\ n \in Nat \ {0} /\ DOMAIN c = 1..n /\ DOMAIN d = 1..(n - 1)
      /\ Head(c) = c[1] /\ \A i \in 1..(n - 1) : d[i] = c[i + 1]
  BY Tailed
<1>2. /\ m \in Nat /\ DOMAIN o = 1..m
      /\ \/ p = o
         \/ /\ DOMAIN p = 1..(m + 1) /\ \A i \in 1..m : p[i] = o[i]
            /\ p[m + 1] = Eose <=> c[1].what = Eose
  BY <1>1, Appended, CoordinatorAssumption
<1> HIDE DEF d, n, m
<1>3. \A i \in DOMAIN d : i \in Nat /\ i + 1 \in DOMAIN c /\ i + 1 # 1 /\ d[i] = c[i + 1]
  BY <1>1
<1>4. sent => \A i \in DOMAIN d : d[i].early => \E j \in DOMAIN d : j > i /\ d[j].what = Eose
  <2> SUFFICES ASSUME sent, NEW i \in DOMAIN d, d[i].early
               PROVE  \E j \in DOMAIN d : j > i /\ d[j].what = Eose
    OBVIOUS
  <2>1. c[i + 1].early /\ i + 1 \in DOMAIN c /\ i \in Nat BY <1>3
  <2>2. PICK k \in DOMAIN c : k > i + 1 /\ c[k].what = Eose
    BY <2>1 DEF Placed
  <2>3. k - 1 \in DOMAIN d /\ k - 1 > i /\ d[k - 1] = c[k] BY <1>1, <2>1, <2>2
  <2>4. QED BY <2>2, <2>3
<1>5. sent \/ \A i \in DOMAIN d : d[i].what # Eose
  BY <1>3 DEF Placed
<1>6. \A i, j \in DOMAIN d : d[i].what = Eose /\ d[j].what = Eose => i = j
  <2> SUFFICES ASSUME NEW i \in DOMAIN d, NEW j \in DOMAIN d, d[i].what = Eose, d[j].what = Eose
               PROVE  i = j
    OBVIOUS
  <2>1. i + 1 = j + 1 BY <1>3 DEF Placed
  <2>2. QED BY <1>3, <2>1
<1>7. c[1].what = Eose => \A i \in DOMAIN d : d[i].what # Eose
  BY <1>1, <1>3 DEF Placed
<1>8. c[1].what = Eose => sent /\ \A i \in DOMAIN o : o[i] # Eose
  BY <1>1 DEF Placed
<1> DEFINE Out == /\ sent \/ \A i \in DOMAIN p : p[i] # Eose
                  /\ \A i, j \in DOMAIN p : p[i] = Eose /\ p[j] = Eose => i = j
                  /\ (\E i \in DOMAIN p : p[i] = Eose) => \A i \in DOMAIN d : d[i].what # Eose
<1>9. ASSUME p = o PROVE Out
  BY <1>3, <1>9 DEF Placed
<1>10. ASSUME p # o PROVE Out
  <2>1. /\ m \in Nat /\ DOMAIN o = 1..m /\ DOMAIN p = 1..(m + 1) /\ \A i \in 1..m : p[i] = o[i]
        /\ p[m + 1] = Eose <=> c[1].what = Eose
    BY <1>2, <1>10
  <2>2. ASSUME c[1].what = Eose PROVE Out
    <3>1. \A i \in DOMAIN p : p[i] = Eose => i = m + 1 BY <1>8, <2>1, <2>2
    <3>2. QED BY <1>7, <1>8, <2>2, <3>1
  <2>3. ASSUME c[1].what # Eose PROVE Out
    <3>1. \A i \in DOMAIN p : p[i] = Eose => i \in DOMAIN o /\ o[i] = Eose BY <2>1, <2>3
    <3>2. QED BY <1>3, <3>1 DEF Placed
  <2>4. QED BY <2>2, <2>3
<1>11. QED BY <1>4, <1>5, <1>6, <1>9, <1>10 DEF Placed, d

(* Every operation keeps the EOSE in its place.                            *)
LEMMA EoseStep ==
  ASSUME CoordInv, CoordAct
  PROVE  EosePlace'
<1> SUFFICES ASSUME NEW u \in UpIds PROVE Placed(chain'[u], out'[u], u \in eoseSent')
  BY DEF EosePlace
<1>0. /\ Placed(chain[u], out[u], u \in eoseSent)
      /\ chain[u] \in Seq(Items) /\ out[u] \in Seq(Events \cup {Eose})
  BY ChainTypes DEF CoordInv, EosePlace
<1>1. CASE Stays(u)
  BY <1>0, <1>1 DEF Stays, Placed
<1>2. CASE Queues(u)
  <2>1. PICK e \in Events : chain'[u] = Append(chain[u], Item(e, u \notin eoseSent))
    BY <1>2 DEF Queues
  <2> DEFINE x == Item(e, u \notin eoseSent)
  <2>2. x \in Items /\ x.what # Eose /\ (x.early => u \notin eoseSent)
    BY ChainTypes, CoordinatorAssumption DEF Item
  <2> HIDE DEF x
  <2>3. Placed(Append(chain[u], x), out[u], u \in eoseSent) BY <1>0, <2>2, QueuedBehind
  <2>4. QED BY <1>2, <2>1, <2>3 DEF Queues, Placed, x
<1>3. CASE Flushes(u)
  <2>1. Placed(chain[u], out[u], FALSE) BY <1>0, <1>3 DEF Flushes, Placed
  <2>2. Placed(Append(chain[u], EoseItem), out[u], TRUE) BY <1>0, <2>1, FlushedBehind
  <2>3. QED BY <1>3, <2>2 DEF Flushes, Placed
<1>4. CASE Settles(u) \/ Ends(u)
  <2>1. Placed(Tail(chain[u]), out'[u], u \in eoseSent)
    BY <1>0, <1>4, HeadGone DEF Settles, Ends
  <2>2. QED BY <1>4, <2>1 DEF Settles, Ends, Placed
<1>5. QED BY <1>1, <1>2, <1>3, <1>4, ChainMoves

(* An id that was never handed out has nothing queued or delivered.        *)
LEMMA UnusedStep ==
  ASSUME CoordInv, CoordAct
  PROVE  Unused'
<1> SUFFICES ASSUME NEW u \in UpIds, u > sequence'
             PROVE  chain'[u] = <<>> /\ out'[u] = <<>> /\ u \notin eoseSent'
  BY DEF Unused
<1>1. sequence \in Nat /\ sequence' \in Nat /\ sequence' >= sequence /\ UpIds = 1..MaxUp /\ MaxUp \in Nat
  <2>1. sequence \in Nat /\ UpIds = 1..MaxUp /\ MaxUp \in Nat
    BY CoordinatorAssumption DEF CoordInv, CoordStateOK
  <2>2. sequence' = sequence \/ sequence' = sequence + 1
    BY DEF CoordAct, UpstreamStep, OpenForSubscription, Unmap,
           MarkDelivered, CoordStart, CoordStop, HandleUpstreamEvent, HandleUpstreamEose, FlushEose,
           ChainStep, IngestSkipped, IngestStart, IngestDone, SendEose, EoseTimeout, mapVars
  <2>3. QED BY <2>1, <2>2
<1>2. u > sequence BY <1>1
<1>3. u \notin subs /\ chain[u] = <<>> /\ out[u] = <<>> /\ u \notin eoseSent
  BY <1>1, <1>2 DEF CoordInv, CoordStateOK, Unused
<1>4. QED BY <1>3, ChainMoves DEF Stays, Queues, Flushes, Settles, Ends

-----------------------------------------------------------------------------
(* The dedup set of a live subscription covers what its client has.        *)
DedupAt(u) ==
  /\ had[u] \subseteq ToSet(sentIds[u])
  /\ u \in ingesting => Head(chain[u]).what \notin had[u]

(* Every operation keeps what the dedup set must cover.                    *)
LEMMA DedupStep ==
  ASSUME CoordInv, CoordAct
  PROVE  DedupCovers'
<1> SUFFICES ASSUME NEW u \in UpIds, u \notin closed' PROVE DedupAt(u)'
  BY DEF DedupCovers, DedupAt
<1> DEFINE Goal == DedupAt(u)'
<1>1. u \notin closed
  BY DEF CoordAct, UpstreamStep, OpenForSubscription, Unmap,
         MarkDelivered, CoordStart, CoordStop, HandleUpstreamEvent, HandleUpstreamEose, FlushEose,
         ChainStep, IngestSkipped, IngestStart, IngestDone, SendEose, EoseTimeout, mapVars, ClosedAfter
<1>2. /\ DedupAt(u) /\ Unused /\ CoordStateOK /\ NothingLeaks /\ ingesting \subseteq UpIds
      /\ sequence \in Nat /\ UpIds \subseteq Nat
  <2>1. CoordStateOK /\ Unused /\ NothingLeaks /\ DedupCovers BY DEF CoordInv
  <2>2. DedupAt(u) BY <1>1, <2>1, Zenon DEF DedupCovers, DedupAt
  <2>3. UpIds \subseteq Nat /\ MaxUp \in Nat BY CoordinatorAssumption
  <2>4. sequence \in Nat /\ ingesting \subseteq UpIds BY <2>1, <2>3 DEF CoordStateOK
  <2>5. QED BY <2>1, <2>2, <2>3, <2>4
<1>3. ASSUME UNCHANGED <<had, sentIds, ingesting>>,
             u \in ingesting => chain'[u] = chain[u] \/ \E x \in Items : chain'[u] = Append(chain[u], x)
      PROVE  Goal
  <2>1. u \in ingesting => Head(chain'[u]) = Head(chain[u])
    BY <1>3, ChainTypes, Appended
  <2>2. QED BY <1>2, <1>3, <2>1 DEF DedupAt
<1>4. ASSUME NEW k \in Keys, NEW seed \in Seq(Events), OpenForSubscription(k, seed) PROVE Goal
  <2> DEFINE v == sequence + 1
  <2>1. /\ v \in UpIds /\ sentIds' = [sentIds EXCEPT ![v] = seed] /\ had' = [had EXCEPT ![v] = ToSet(seed)]
        /\ UNCHANGED <<chain, ingesting>>
    BY <1>4 DEF OpenForSubscription
  <2>2. v \notin ingesting BY <1>2, <2>1, ChainTypes DEF Unused
  <2> HIDE DEF v
  <2>3. CASE u = v BY <2>1, <2>2, <2>3, ChainTypes DEF DedupAt
  <2>4. CASE u # v BY <1>2, <2>1, <2>4, ChainTypes DEF DedupAt
  <2>5. QED BY <2>3, <2>4
<1>5. ASSUME NEW K \in SUBSET Keys, NEW e \in Events, MarkDelivered(K, e) PROVE Goal
  <2>1. /\ sentIds'[u] = IF u \in Marked(K) THEN AddSentId(sentIds[u], e) ELSE sentIds[u]
        /\ had'[u] = IF u \notin Upstreams(K) THEN had[u]
                     ELSE (had[u] \cup (IF IsIngesting(u, e) THEN {} ELSE {e})) \ Forgotten(sentIds[u], e)
        /\ UNCHANGED <<chain, ingesting>>
    BY <1>5 DEF MarkDelivered
  <2>2. u \in Marked(K) <=> u \in Upstreams(K)
    BY Named DEF Marked
  <2>3. CASE u \in Upstreams(K)
    <3>1. ToSet(sentIds'[u]) = (ToSet(sentIds[u]) \cup {e}) \ Forgotten(sentIds[u], e)
      BY <1>2, <2>1, <2>2, <2>3, Remembered, ChainTypes DEF CoordStateOK
    <3>2. QED BY <1>2, <2>1, <2>3, <3>1 DEF DedupAt, IsIngesting
  <2>4. CASE u \notin Upstreams(K)
    BY <1>2, <2>1, <2>2, <2>4 DEF DedupAt
  <2>5. QED BY <2>3, <2>4
<1>6. ASSUME NEW v \in UpIds, NEW e \in Events, HandleUpstreamEvent(v, e) PROVE Goal
  <2>1. Item(e, v \notin eoseSent) \in Items BY ChainTypes
  <2>2. QED BY <1>3, <1>6, <2>1, ChainTypes DEF HandleUpstreamEvent
<1>7. ASSUME NEW U, FlushEose(U) PROVE Goal
  BY <1>3, <1>7, ChainTypes DEF FlushEose, ChainWithEose, AlreadyFlushed
<1>8. ASSUME NEW v \in UpIds, IngestSkipped(v) \/ SendEose(v) PROVE Goal
  BY <1>3, <1>8, ChainTypes DEF IngestSkipped, SendEose
<1>9. ASSUME NEW v \in UpIds, IngestStart(v) PROVE Goal
  BY <1>2, <1>9, ChainTypes DEF IngestStart, IsDuplicate, DedupAt
<1>10. ASSUME NEW v \in UpIds, NEW result, IngestDone(v, result) PROVE Goal
  <2> DEFINE e == Head(chain[v]).what
  <2>1. e \in Events /\ ingesting' = ingesting \ {v} /\ chain' = [chain EXCEPT ![v] = Tail(@)]
    BY <1>10, ChainTypes DEF IngestDone
  <2>2. CASE u # v
    BY <1>2, <1>10, <2>1, <2>2, ChainTypes DEF IngestDone, DedupAt
  <2>3. CASE u = v /\ Heeded(v, result)
    <3>1. /\ sentIds'[u] = AddSentId(sentIds[u], e)
          /\ had'[u] \subseteq (had[u] \cup {e}) \ Forgotten(sentIds[u], e)
      BY <1>10, <2>3, ChainTypes DEF IngestDone
    <3>2. ToSet(sentIds'[u]) = (ToSet(sentIds[u]) \cup {e}) \ Forgotten(sentIds[u], e)
      BY <1>2, <2>1, <3>1, Remembered, ChainTypes DEF CoordStateOK
    <3>3. QED BY <1>2, <2>1, <2>3, <3>1, <3>2 DEF DedupAt
  <2>4. CASE u = v /\ ~Heeded(v, result)
    BY <1>2, <1>10, <2>1, <2>4 DEF IngestDone, DedupAt
  <2>5. QED BY <2>2, <2>3, <2>4
<1>11. ASSUME NEW K, Unmap(K) PROVE Goal
  BY <1>3, <1>11 DEF Unmap, stateVars
<1>12. CASE CoordStart \/ CoordStop
  BY <1>3, <1>12 DEF CoordStart, CoordStop, stateVars
<1>13. QED
  BY <1>4, <1>5, <1>6, <1>7, <1>8, <1>9, <1>10, <1>11, <1>12
  DEF CoordAct, UpstreamStep, HandleUpstreamEose,
      EoseTimeout, ChainStep

-----------------------------------------------------------------------------
(* Types, the tables' first and then those of the SubStates.               *)
Numbered == sequence \in 0..MaxUp /\ subs \subseteq 1..sequence
TablesTyped ==
  /\ byKey \in [Keys -> UpIds \cup {NoUp}] /\ owner \in [UpIds -> Keys \cup {NoKey}]
  /\ eoseSent \subseteq UpIds /\ timer \subseteq UpIds /\ closed \subseteq UpIds
  /\ open \subseteq UpIds /\ owing \subseteq UpIds /\ fired \in [UpIds -> Nat]
StatesTyped ==
  /\ sentIds \in [UpIds -> Seq(Events)]
  /\ chain \in [UpIds -> Seq(Items)] /\ out \in [UpIds -> Seq(Events \cup {Eose})]
  /\ ingesting \subseteq {u \in UpIds : chain[u] # <<>> /\ Head(chain[u]).what # Eose}
  /\ had \in [UpIds -> SUBSET Events]

(* The type invariant, in the parts the proofs cite.                       *)
LEMMA TypeParts == CoordStateOK <=> Numbered /\ TablesTyped /\ StatesTyped /\ poolStopped \in BOOLEAN
BY Zenon DEF CoordStateOK, Numbered, TablesTyped, StatesTyped, Items

(* The pool is running or stopped.                                         *)
LEMMA SwitchTyped ==
  ASSUME poolStopped \in BOOLEAN, CoordAct
  PROVE  poolStopped' \in BOOLEAN
<1>1. poolStopped' = poolStopped \/ poolStopped' = TRUE \/ poolStopped' = FALSE
  BY Zenon DEF CoordAct, UpstreamStep, OpenForSubscription, Unmap,
     MarkDelivered, CoordStart, CoordStop, HandleUpstreamEvent, HandleUpstreamEose, FlushEose,
     ChainStep, IngestSkipped, IngestStart, IngestDone, SendEose, EoseTimeout, poolVars,
     PoolOpen, PoolClose, PoolFire, PoolStart, PoolStop
<1>2. QED BY <1>1, Zenon

(* Ids of subscriptions are handed out once, in order.                     *)
LEMMA NumberedStep ==
  ASSUME CoordInv, CoordAct
  PROVE  Numbered'
<1> DEFINE Handed == sequence' = sequence + 1 /\ sequence' \in UpIds /\ subs' \subseteq subs \cup {sequence'}
<1>0. sequence \in 0..MaxUp /\ subs \subseteq 1..sequence /\ MaxUp \in Nat /\ UpIds = 1..MaxUp
  BY TypeParts, CoordinatorAssumption DEF CoordInv, Numbered
<1>1. Handed \/ (sequence' = sequence /\ subs' \subseteq subs)
  BY DEF CoordAct, UpstreamStep, OpenForSubscription, Unmap,
     MarkDelivered, CoordStart, CoordStop, HandleUpstreamEvent, HandleUpstreamEose, FlushEose,
     ChainStep, IngestSkipped, IngestStart, IngestDone, SendEose, EoseTimeout, mapVars
<1>2. CASE Handed
  <2>1. sequence' \in 0..MaxUp BY <1>0, <1>2
  <2>2. 1..sequence' = (1..sequence) \cup {sequence'} BY <1>0, <1>2
  <2>3. QED BY <1>0, <1>2, <2>1, <2>2 DEF Numbered
<1>3. CASE sequence' = sequence /\ subs' \subseteq subs
  BY <1>0, <1>3 DEF Numbered
<1>4. QED BY <1>1, <1>2, <1>3

(* Every operation keeps the types of the tables.                          *)
LEMMA TablesTypeStep ==
  ASSUME CoordInv, CoordAct
  PROVE  TablesTyped'
<1> USE DEF TablesTyped
<1>0. TablesTyped /\ subs \subseteq UpIds
  BY TypeParts, CoordinatorAssumption DEF CoordInv, Numbered
<1>1. ASSUME NEW k \in Keys, NEW seed, OpenForSubscription(k, seed) PROVE TablesTyped'
  <2> DEFINE u == sequence + 1
  <2>0. u \in UpIds BY <1>1 DEF OpenForSubscription
  <2>1. PoolOpen(u, Replaced(k), TRUE) BY <1>1 DEF OpenForSubscription
  <2>2. /\ byKey' = [byKey EXCEPT ![k] = u] /\ owner' = [owner EXCEPT ![u] = k]
        /\ timer' = (timer \ Replaced(k)) \cup {u} /\ closed' = closed \cup (Replaced(k) \cap subs)
        /\ eoseSent' = eoseSent
    BY <1>1 DEF OpenForSubscription, ArmedFor, TimersAfter, ClosedAfter
  <2> HIDE DEF u
  <2>3. fired' \in [UpIds -> Nat] /\ open' \subseteq UpIds /\ owing' \subseteq UpIds
    BY <1>0, <2>0, <2>1 DEF PoolOpen
  <2>4. byKey' \in [Keys -> UpIds \cup {NoUp}] /\ owner' \in [UpIds -> Keys \cup {NoKey}]
    BY <1>0, <2>0, <2>2
  <2>5. timer' \subseteq UpIds /\ closed' \subseteq UpIds /\ eoseSent' \subseteq UpIds
    BY <1>0, <2>0, <2>2
  <2>6. QED BY <2>3, <2>4, <2>5
<1>2. ASSUME NEW K, Unmap(K) PROVE TablesTyped'
  <2>1. /\ byKey' = [k \in Keys |-> IF k \in K THEN NoUp ELSE byKey[k]]
        /\ closed' \subseteq closed \cup subs /\ timer' \subseteq timer
        /\ open' \subseteq open /\ owing' \subseteq owing /\ UNCHANGED <<fired, owner, eoseSent>>
    BY <1>2 DEF Unmap, PoolClose, ClosedAfter, TimersAfter, stateVars
  <2>2. QED BY <1>0, <2>1
<1>3. ASSUME NEW K, NEW e, MarkDelivered(K, e) PROVE TablesTyped'
  BY <1>0, <1>3 DEF MarkDelivered, mapVars, poolVars
<1>4. CASE CoordStart
  BY <1>0, <1>4 DEF CoordStart, PoolStart, mapVars, stateVars
<1>5. CASE CoordStop
  <2>1. /\ byKey' = [k \in Keys |-> NoUp]
        /\ closed' \subseteq closed \cup subs /\ timer' \subseteq timer
        /\ open' = {} /\ owing' = {} /\ UNCHANGED <<fired, owner, eoseSent>>
    BY <1>5 DEF CoordStop, PoolStop, ClosedAfter, TimersAfter, stateVars
  <2>2. QED BY <1>0, <2>1
<1>6. ASSUME NEW u, NEW e, HandleUpstreamEvent(u, e) PROVE TablesTyped'
  BY <1>0, <1>6 DEF HandleUpstreamEvent, mapVars, poolVars
<1>7. ASSUME NEW U, FlushEose(U), UNCHANGED open, owing' \subseteq owing, fired' \in [UpIds -> Nat]
      PROVE  TablesTyped'
  BY <1>0, <1>7 DEF FlushEose
<1>8. ASSUME NEW S, HandleUpstreamEose(S) PROVE TablesTyped'
  <2>1. fired' \in [UpIds -> Nat] BY <1>0, <1>8 DEF HandleUpstreamEose, PoolFire
  <2>2. QED BY <1>7, <1>8, <2>1 DEF HandleUpstreamEose, PoolFire
<1>9. ASSUME NEW u, EoseTimeout(u) PROVE TablesTyped'
  BY <1>0, <1>7, <1>9 DEF EoseTimeout, poolVars
<1>10. ASSUME NEW u, ChainStep(u) PROVE TablesTyped'
  BY <1>0, <1>10 DEF ChainStep, IngestSkipped, IngestStart, IngestDone, SendEose, mapVars, poolVars
<1>11. QED
  BY <1>1, <1>2, <1>3, <1>4, <1>5, <1>6, <1>8, <1>9, <1>10
  DEF CoordAct, UpstreamStep

(* Every operation keeps the types of the subscription states.             *)
LEMMA StatesTypeStep ==
  ASSUME CoordInv, CoordAct
  PROVE  StatesTyped'
<1> USE DEF StatesTyped
<1>0. StatesTyped /\ MaxSentIds \in Nat \ {0}
  BY TypeParts, CoordinatorAssumption DEF CoordInv
<1>1. ASSUME NEW k \in Keys, NEW seed \in Seq(Events), OpenForSubscription(k, seed)
      PROVE  StatesTyped'
  <2>1. ToSet(seed) \subseteq Events BY DEF ToSet
  <2>2. QED BY <1>0, <1>1, <2>1 DEF OpenForSubscription
<1>2. ASSUME UNCHANGED stateVars PROVE StatesTyped'
  BY <1>0, <1>2 DEF stateVars
<1>3. ASSUME NEW K, NEW e \in Events, MarkDelivered(K, e) PROVE StatesTyped'
  <2>1. sentIds' \in [UpIds -> Seq(Events)]
    BY <1>0, <1>3, Remembered DEF MarkDelivered
  <2>2. had' \in [UpIds -> SUBSET Events]
    BY <1>0, <1>3 DEF MarkDelivered
  <2>3. QED BY <1>0, <1>3, <2>1, <2>2 DEF MarkDelivered
<1>4. ASSUME NEW u \in UpIds, NEW x \in Items, chain' = [chain EXCEPT ![u] = Append(@, x)],
             UNCHANGED <<sentIds, out, had, ingesting>>
      PROVE  StatesTyped'
  BY <1>0, <1>4, Appended
<1>5. ASSUME NEW U, FlushEose(U) PROVE StatesTyped'
  <2>1. EoseItem \in Items BY DEF EoseItem, Items
  <2>2. /\ \A u \in UpIds : chain'[u] = chain[u] \/ chain'[u] = Append(chain[u], EoseItem)
        /\ chain' = [u \in UpIds |-> chain'[u]] /\ UNCHANGED <<sentIds, out, had, ingesting>>
    BY <1>5 DEF FlushEose, ChainWithEose
  <2>3. \A u \in UpIds : chain'[u] \in Seq(Items) /\ (chain[u] # <<>> => chain'[u] # <<>> /\ Head(chain'[u]) = Head(chain[u]))
    <3> SUFFICES ASSUME NEW u \in UpIds
                 PROVE  chain'[u] \in Seq(Items) /\ (chain[u] # <<>> => chain'[u] # <<>> /\ Head(chain'[u]) = Head(chain[u]))
      OBVIOUS
    <3> DEFINE c == chain[u]
    <3>1. c \in Seq(Items) BY <1>0
    <3> HIDE DEF c
    <3>2. /\ Append(c, EoseItem) \in Seq(Items) /\ Append(c, EoseItem) # <<>>
          /\ c # <<>> => Head(Append(c, EoseItem)) = Head(c)
      BY <2>1, <3>1, Appended
    <3>3. chain'[u] = c \/ chain'[u] = Append(c, EoseItem) BY <2>2 DEF c
    <3>4. QED BY <3>1, <3>2, <3>3, Zenon DEF c
  <2>4. QED BY <1>0, <2>2, <2>3
<1>6. ASSUME NEW u \in UpIds, IngestSkipped(u) PROVE StatesTyped'
  BY <1>0, <1>6, Tailed DEF IngestSkipped
<1>7. ASSUME NEW u \in UpIds, SendEose(u) PROVE StatesTyped'
  <2>1. chain' \in [UpIds -> Seq(Items)] BY <1>0, <1>7, Tailed DEF SendEose
  <2>2. out' \in [UpIds -> Seq(Events \cup {Eose})] BY <1>0, <1>7, Appended DEF SendEose
  <2>3. QED BY <1>0, <1>7, <2>1, <2>2 DEF SendEose
<1>8. ASSUME NEW u \in UpIds, IngestStart(u) PROVE StatesTyped'
  BY <1>0, <1>8 DEF IngestStart
<1>9. ASSUME NEW u \in UpIds, NEW result, IngestDone(u, result) PROVE StatesTyped'
  <2> DEFINE e == Head(chain[u]).what
  <2>1. e \in Events /\ chain[u] # <<>> BY <1>9, ChainTypes DEF IngestDone
  <2>2. /\ ingesting' = ingesting \ {u} /\ chain' = [chain EXCEPT ![u] = Tail(@)]
        /\ sentIds' = sentIds \/ sentIds' = [sentIds EXCEPT ![u] = AddSentId(@, e)]
        /\ out' = out \/ out' = [out EXCEPT ![u] = Append(@, e)]
        /\ \/ had' = had \/ had' = [had EXCEPT ![u] = (@ \cup {e}) \ Forgotten(sentIds[u], e)]
           \/ had' = [had EXCEPT ![u] = @ \ Forgotten(sentIds[u], e)]
    BY <1>9 DEF IngestDone
  <2> HIDE DEF e
  <2>3. chain' \in [UpIds -> Seq(Items)] BY <1>0, <2>1, <2>2, Tailed
  <2>4. out' \in [UpIds -> Seq(Events \cup {Eose})]
    <3>1. out[u] \in Seq(Events \cup {Eose}) /\ e \in Events \cup {Eose} BY <1>0, <2>1
    <3>2. Append(out[u], e) \in Seq(Events \cup {Eose}) BY <3>1, Appended
    <3>3. QED BY <1>0, <2>2, <3>2
  <2>5. sentIds' \in [UpIds -> Seq(Events)]
    <3>1. AddSentId(sentIds[u], e) \in Seq(Events)
      BY <1>0, <2>1, Remembered
    <3>2. QED BY <1>0, <2>2, <3>1
  <2>6. had' \in [UpIds -> SUBSET Events]
    <3>1. /\ (had[u] \cup {e}) \ Forgotten(sentIds[u], e) \in SUBSET Events
          /\ had[u] \ Forgotten(sentIds[u], e) \in SUBSET Events
      BY <1>0, <2>1
    <3>2. CASE had' = had BY <1>0, <3>2
    <3>3. CASE had' = [had EXCEPT ![u] = (@ \cup {e}) \ Forgotten(sentIds[u], e)] BY <1>0, <3>1, <3>3
    <3>4. CASE had' = [had EXCEPT ![u] = @ \ Forgotten(sentIds[u], e)] BY <1>0, <3>1, <3>4
    <3>5. QED BY <2>2, <3>2, <3>3, <3>4
  <2>7. QED BY <1>0, <2>2, <2>3, <2>4, <2>5, <2>6
<1>10. ASSUME NEW u \in UpIds, NEW e \in Events, HandleUpstreamEvent(u, e) PROVE StatesTyped'
  <2>1. Item(e, u \notin eoseSent) \in Items BY ChainTypes
  <2>2. QED BY <1>4, <1>10, <2>1 DEF HandleUpstreamEvent
<1>11. QED
  BY <1>1, <1>2, <1>3, <1>5, <1>6, <1>7, <1>8, <1>9, <1>10
  DEF CoordAct, UpstreamStep, HandleUpstreamEose,
      EoseTimeout, ChainStep, Unmap, CoordStart, CoordStop

(* Every operation of the coordinator keeps its invariant, with whatever   *)
(* ids a subscription is seeded.                                           *)
THEOREM CoordStepInv == CoordInv /\ [CoordAct]_coordVars => CoordInv'
<1> SUFFICES ASSUME CoordInv, [CoordAct]_coordVars PROVE CoordInv'
  OBVIOUS
<1>1. CASE CoordAct
  <2>1. CoordStateOK'
    <3>1. poolStopped' \in BOOLEAN BY <1>1, TypeParts, SwitchTyped DEF CoordInv
    <3>2. Numbered' /\ TablesTyped' /\ StatesTyped' BY <1>1, NumberedStep, TablesTypeStep, StatesTypeStep
    <3>3. QED BY <3>1, <3>2, Zenon DEF CoordStateOK, Numbered, TablesTyped, StatesTyped, Items
  <2>2. QED BY <1>1, <2>1, TablesStep, EoseStep, UnusedStep, DedupStep DEF CoordInv
<1>2. CASE UNCHANGED coordVars
  <2> USE <1>2 DEF coordVars, mapVars, stateVars, poolVars
  <2>1. CoordStateOK' BY Zenon DEF CoordInv, CoordStateOK
  <2>2. NothingLeaks' /\ Owned'
    BY DEF CoordInv, NothingLeaks, OneToOne, ClosedIffForgotten, TimerIffHeld, Owned
  <2>3. Unused' /\ DedupCovers' BY DEF CoordInv, Unused, DedupCovers
  <2>4. EosePlace' BY DEF CoordInv, EosePlace, Placed
  <2>5. QED BY <2>1, <2>2, <2>3, <2>4 DEF CoordInv
<1>3. QED BY <1>1, <1>2

(* So it holds of the coordinator alone.                                   *)
LEMMA CoordAlways == CoordSpec => []CoordInv
<1>1. CoordInv /\ [CoordNext]_coordVars => CoordInv'
  BY NextIsAct, CoordStepInv
<1>2. QED BY CoordInitInv, <1>1, PTL DEF CoordSpec

-----------------------------------------------------------------------------
(* A dedup set, and what its client had, change by one insertion at a      *)
(* time, or are what a subscription is opened with.                        *)
LEMMA DedupMoves ==
  ASSUME CoordInv, CoordAct, NEW u \in UpIds
  PROVE  \/ sentIds'[u] = sentIds[u] /\ had'[u] = had[u]
         \/ \E e \in Events : /\ sentIds'[u] = AddSentId(sentIds[u], e)
                              /\ had[u] \ Forgotten(sentIds[u], e) \subseteq had'[u]
         \/ \E k \in Keys, seed \in Seq(Events) :
               OpenForSubscription(k, seed) /\ u = sequence + 1 /\ sentIds'[u] = seed
<1> DEFINE Inserts(e) == /\ sentIds'[u] = AddSentId(sentIds[u], e)
                         /\ had[u] \ Forgotten(sentIds[u], e) \subseteq had'[u]
           Goal == \/ sentIds'[u] = sentIds[u] /\ had'[u] = had[u]
                   \/ \E e \in Events : Inserts(e)
                   \/ \E k \in Keys, seed \in Seq(Events) :
                         OpenForSubscription(k, seed) /\ u = sequence + 1 /\ sentIds'[u] = seed
<1> SUFFICES Goal
  OBVIOUS
<1>0. sentIds \in [UpIds -> Seq(Events)] /\ had \in [UpIds -> SUBSET Events]
  BY DEF CoordInv, CoordStateOK
<1>1. ASSUME NEW k \in Keys, NEW seed \in Seq(Events), OpenForSubscription(k, seed) PROVE Goal
  <2>1. /\ sentIds' = [sentIds EXCEPT ![sequence + 1] = seed]
        /\ had' = [had EXCEPT ![sequence + 1] = ToSet(seed)]
    BY <1>1 DEF OpenForSubscription
  <2>2. CASE u = sequence + 1
    BY <1>0, <1>1, <2>1, <2>2
  <2>3. CASE u # sequence + 1
    BY <1>0, <2>1, <2>3
  <2>4. QED BY <2>2, <2>3
<1>2. ASSUME NEW K \in SUBSET Keys, NEW e \in Events, MarkDelivered(K, e) PROVE Goal
  <2>1. Marked(K) = Upstreams(K)
    BY Named DEF Marked
  <2>2. CASE u \in Upstreams(K)
    <3>1. Inserts(e)
      BY <1>0, <1>2, <2>1, <2>2 DEF MarkDelivered
    <3>2. QED BY <3>1
  <2>3. CASE u \notin Upstreams(K)
    BY <1>0, <1>2, <2>1, <2>3 DEF MarkDelivered
  <2>4. QED BY <2>2, <2>3
<1>3. ASSUME NEW v \in UpIds, NEW result, IngestDone(v, result) PROVE Goal
  <2> DEFINE e == Head(chain[v]).what
  <2>1. e \in Events
    BY <1>3, ChainTypes DEF IngestDone
  <2>2. \/ UNCHANGED <<sentIds, had>>
        \/ /\ sentIds' = [sentIds EXCEPT ![v] = AddSentId(@, e)]
           /\ \/ had' = [had EXCEPT ![v] = (@ \cup {e}) \ Forgotten(sentIds[v], e)]
              \/ had' = [had EXCEPT ![v] = @ \ Forgotten(sentIds[v], e)]
    BY <1>3 DEF IngestDone
  <2> HIDE DEF e
  <2>3. CASE u = v /\ sentIds' = [sentIds EXCEPT ![v] = AddSentId(@, e)]
    <3>1. sentIds'[u] = AddSentId(sentIds[u], e)
      BY <1>0, <2>3
    <3>2. had[u] \ Forgotten(sentIds[u], e) \subseteq had'[u]
      BY <1>0, <2>2, <2>3
    <3>3. QED BY <2>1, <3>1, <3>2
  <2>4. CASE u # v \/ UNCHANGED <<sentIds, had>>
    BY <1>0, <2>2, <2>4
  <2>5. QED BY <2>2, <2>3, <2>4
<1>4. \/ \E k \in Keys, seed \in Seq(Events) : OpenForSubscription(k, seed)
      \/ \E K \in SUBSET Keys, e \in Events : MarkDelivered(K, e)
      \/ \E v \in UpIds, result \in IngestResults : IngestDone(v, result)
      \/ UNCHANGED <<sentIds, had>>
  BY DEF CoordAct, UpstreamStep, Unmap, CoordStart, CoordStop, HandleUpstreamEvent, HandleUpstreamEose,
     FlushEose, ChainStep, IngestSkipped, IngestStart, SendEose, EoseTimeout, stateVars
<1>5. QED BY <1>1, <1>2, <1>3, <1>4

(* So it grows to maxSentIdsPerSub and no further; only the ids a          *)
(* subscription is opened with can be more.                                *)
LEMMA OnlySeedsExceed ==
  ASSUME CoordInv, CoordAct, NEW u \in UpIds
  PROVE  \/ Len(sentIds'[u]) <= MaxSentIds
         \/ Len(sentIds'[u]) <= Len(sentIds[u])
         \/ \E k \in Keys, seed \in Seq(Events) :
               OpenForSubscription(k, seed) /\ u = sequence + 1 /\ sentIds'[u] = seed
<1>1. sentIds[u] \in Seq(Events) /\ Len(sentIds[u]) \in Nat
  BY DEF CoordInv, CoordStateOK
<1>2. \A e \in Events : \/ Len(AddSentId(sentIds[u], e)) <= MaxSentIds
                        \/ Len(AddSentId(sentIds[u], e)) <= Len(sentIds[u])
  BY <1>1, Remembered
<1>3. sentIds'[u] = sentIds[u] => Len(sentIds'[u]) <= Len(sentIds[u])
  BY <1>1
<1>4. QED BY <1>2, <1>3, DedupMoves

(* Opening with ids that fit, the coordinator alone keeps the bound.       *)
Bounded == \A u \in UpIds : Len(sentIds[u]) <= MaxSentIds

(* Opening with ids that fit, every step keeps the dedup sets within       *)
(* their bound.                                                            *)
LEMMA BoundedStep ==
  ASSUME CoordInv, Bounded, [CoordNext]_coordVars
  PROVE  Bounded'
<1> SUFFICES ASSUME NEW u \in UpIds PROVE Len(sentIds'[u]) <= MaxSentIds
  BY DEF Bounded
<1>0. /\ Len(sentIds[u]) <= MaxSentIds /\ Len(sentIds[u]) \in Nat /\ MaxSentIds \in Nat
      /\ sentIds \in [UpIds -> Seq(Events)] /\ sequence \in Nat
  BY CoordinatorAssumption DEF Bounded, CoordInv, CoordStateOK
<1>1. CASE UNCHANGED coordVars
  BY <1>0, <1>1 DEF coordVars, stateVars
<1>2. ASSUME NEW k \in Keys, NEW seed \in Seeds, OpenForSubscription(k, seed) PROVE Len(sentIds'[u]) <= MaxSentIds
  BY <1>0, <1>2, SeedsFit DEF OpenForSubscription
<1>3. ASSUME CoordNext, sequence' = sequence PROVE Len(sentIds'[u]) <= MaxSentIds
  <2>1. ASSUME NEW k \in Keys, NEW seed \in Seq(Events), OpenForSubscription(k, seed) PROVE FALSE
    <3>1. sequence' = sequence + 1 BY <2>1 DEF OpenForSubscription
    <3>2. QED BY <1>0, <1>3, <3>1
  <2>2. Len(sentIds'[u]) <= MaxSentIds \/ Len(sentIds'[u]) <= Len(sentIds[u])
    BY <1>3, <2>1, NextIsAct, OnlySeedsExceed
  <2>3. Len(sentIds'[u]) \in Nat
    <3>1. sentIds' \in [UpIds -> Seq(Events)]
      BY <1>3, NextIsAct, StatesTypeStep DEF StatesTyped
    <3>2. QED BY <3>1
  <2>4. QED BY <1>0, <2>2, <2>3
<1>4. CoordNext => \/ \E k \in Keys, seed \in Seeds : OpenForSubscription(k, seed)
                   \/ sequence' = sequence
  BY DEF CoordNext, UpstreamStep, CloseForSubscription, CloseAllForClient, Unmap,
     MarkDelivered, CoordStart, CoordStop, HandleUpstreamEvent, HandleUpstreamEose, FlushEose,
     ChainStep, IngestSkipped, IngestStart, IngestDone, SendEose, EoseTimeout, mapVars
<1>5. QED BY <1>1, <1>2, <1>3, <1>4

(* The records of the coordinator are well formed (CoordTypeOK): no id     *)
(* beyond those handed out, no dedup set beyond maxSentIdsPerSub, an       *)
(* ingest in flight only for the event at the head of its chain.           *)
THEOREM CoordTyped == CoordSpec => []CoordTypeOK
<1>1. CoordInit => Bounded
  BY CoordinatorAssumption DEF CoordInit, Bounded
<1>2. CoordInv /\ Bounded /\ [CoordNext]_coordVars => Bounded'
  BY BoundedStep
<1>3. CoordInv /\ Bounded => CoordTypeOK
  BY DEF CoordInv, CoordTypeOK, Bounded
<1>4. QED BY <1>1, <1>2, <1>3, CoordAlways, PTL DEF CoordSpec

(* Whatever was overwritten, closed, disconnected or stopped, the two maps *)
(* name each other and the pool holds nothing else, closed states know it, *)
(* and exactly the subscriptions whose EOSE is held have a timer.          *)
THEOREM CoordNothingLeaks == CoordSpec => []NothingLeaks
<1>1. CoordInv => NothingLeaks BY DEF CoordInv
<1>2. QED BY <1>1, CoordAlways, PTL

(* The client's EOSE goes out once, and after the storage writes of what   *)
(* came before it.                                                         *)
THEOREM CoordEoseOnceAfterBackfill == CoordSpec => []EoseOnceAfterBackfill
<1>1. ASSUME CoordInv PROVE EoseOnce
  <2> SUFFICES ASSUME NEW u \in UpIds PROVE Cardinality({i \in DOMAIN out[u] : out[u][i] = Eose}) <= 1
    BY DEF EoseOnce
  <2> DEFINE S == {i \in DOMAIN out[u] : out[u][i] = Eose}
  <2>1. \A i, j \in S : i = j BY <1>1 DEF CoordInv, EosePlace, Placed
  <2> HIDE DEF S
  <2>2. CASE S = {} BY <2>2, FS_EmptySet DEF S
  <2>3. CASE S # {}
    <3>1. PICK i \in S : S = {i} BY <2>1, <2>3
    <3>2. QED BY <3>1, FS_Singleton DEF S
  <2>4. QED BY <2>2, <2>3
<1>2. ASSUME CoordInv PROVE EoseAfterBackfill
  <2> SUFFICES ASSUME NEW u \in UpIds, Eose \in ToSet(out[u]), NEW i \in DOMAIN chain[u], chain[u][i].early
               PROVE  FALSE
    BY DEF EoseAfterBackfill
  <2>1. PICK k \in DOMAIN out[u] : out[u][k] = Eose BY DEF ToSet
  <2>2. Placed(chain[u], out[u], u \in eoseSent) BY <1>2 DEF CoordInv, EosePlace
  <2>3. QED BY <2>1, <2>2 DEF Placed
<1>3. CoordInv => EoseOnceAfterBackfill BY <1>1, <1>2 DEF EoseOnceAfterBackfill
<1>4. QED BY <1>3, CoordAlways, PTL

(* What a client gets from upstream is news of a subscription it has:      *)
(* nothing after its end, even from an ingest in flight, and nothing it    *)
(* already had, unless the full dedup set has forgotten it.                *)
THEOREM CoordDeliversOnlyNews == CoordSpec => DeliversOnlyNews
<1> DEFINE Silent == \A u \in closed : out'[u] = out[u]
           New == \A u \in UpIds : \A e \in had[u] : out'[u] # Append(out[u], e)
<1>1. ASSUME CoordInv, CoordAct, NEW u \in UpIds,
             out'[u] # out[u]
      PROVE  u \notin closed /\ \A e \in had[u] : out'[u] # Append(out[u], e)
  <2>1. ASSUME NEW v \in UpIds, NEW result, IngestDone(v, result)
        PROVE  u \notin closed /\ \A e \in had[u] : out'[u] # Append(out[u], e)
    <3> DEFINE x == Head(chain[v]).what
    <3>1. u = v /\ v \notin closed /\ out'[u] = Append(out[u], x) /\ v \in ingesting
      BY <1>1, <2>1, ChainTypes DEF IngestDone, Heeded
    <3>2. x \notin had[u] /\ x \in Events
      BY <1>1, <3>1, ChainTypes DEF CoordInv, DedupCovers
    <3>3. had[u] \subseteq Events BY <1>1, ChainTypes
    <3> HIDE DEF x
    <3>4. ASSUME NEW e \in had[u] PROVE Append(out[u], x) # Append(out[u], e)
      <4>1. out[u] \in Seq(Events \cup {Eose}) /\ e \in Events BY <1>1, <3>3, ChainTypes
      <4>2. Append(out[u], x)[Len(out[u]) + 1] = x /\ Append(out[u], e)[Len(out[u]) + 1] = e
        BY <3>2, <4>1, Appended
      <4>3. QED BY <3>2, <4>2
    <3>5. QED BY <3>1, <3>4
  <2>2. ASSUME NEW v \in UpIds, SendEose(v)
        PROVE  u \notin closed /\ \A e \in had[u] : out'[u] # Append(out[u], e)
    <3>1. u = v /\ v \notin closed /\ out'[u] = Append(out[u], Eose)
      BY <1>1, <2>2, ChainTypes DEF SendEose
    <3>2. had[u] \subseteq Events /\ Eose \notin Events BY <1>1, ChainTypes, CoordinatorAssumption
    <3>3. ASSUME NEW e \in had[u] PROVE Append(out[u], Eose) # Append(out[u], e)
      <4>1. out[u] \in Seq(Events \cup {Eose}) /\ e \in Events BY <1>1, <3>2, ChainTypes
      <4>2. Append(out[u], Eose)[Len(out[u]) + 1] = Eose /\ Append(out[u], e)[Len(out[u]) + 1] = e
        BY <4>1, Appended
      <4>3. QED BY <3>2, <4>1, <4>2
    <3>4. QED BY <3>1, <3>3
  <2>3. (\E v \in UpIds : (\E result \in IngestResults : IngestDone(v, result)) \/ SendEose(v)) \/ out' = out
    BY <1>1 DEF CoordAct, UpstreamStep, OpenForSubscription, Unmap,
       MarkDelivered, CoordStart, CoordStop, HandleUpstreamEvent, HandleUpstreamEose, FlushEose,
       ChainStep, IngestSkipped, IngestStart, EoseTimeout, stateVars
  <2>4. QED BY <1>1, <2>1, <2>2, <2>3
<1>2. ASSUME CoordInv, NEW u \in UpIds, NEW e \in had[u] PROVE out[u] # Append(out[u], e)
  BY <1>2, ChainTypes, Appended
<1>3. ASSUME CoordInv, [CoordNext]_coordVars PROVE Silent /\ New
  <2>1. ASSUME NEW u \in UpIds
        PROVE  (u \in closed => out'[u] = out[u]) /\ \A e \in had[u] : out'[u] # Append(out[u], e)
    <3>1. CASE out'[u] = out[u] BY <1>2, <1>3, <3>1
    <3>2. CASE out'[u] # out[u] BY <1>1, <1>3, <3>2, NextIsAct DEF coordVars, stateVars
    <3>3. QED BY <3>1, <3>2
  <2>2. closed \subseteq UpIds BY <1>3 DEF CoordInv, CoordStateOK
  <2>3. QED BY <2>1, <2>2
<1>4. CoordInv /\ [CoordNext]_coordVars => [Silent]_coordVars /\ [New]_coordVars
  BY <1>3
<1>5. CoordSpec => [][Silent]_coordVars /\ [][New]_coordVars
  BY <1>4, CoordAlways, PTL DEF CoordSpec
<1>6. QED BY <1>5 DEF DeliversOnlyNews, ClosedIsSilent, NoRedelivery

-----------------------------------------------------------------------------
(* The safety half of the EOSE's liveness: at no moment is a client's EOSE *)
(* in nobody's hands.                                                      *)
Ended(s) == \E i \in DOMAIN s : s[i] = Eose
HoldsEose(c) == \E i \in DOMAIN c : c[i].what = Eose

(* A flushed EOSE went out or is still in the chain, unless nobody wants   *)
(* it any more.                                                            *)
EoseKept == \A u \in UpIds : u \in eoseSent => u \in closed \/ Ended(out[u]) \/ HoldsEose(chain[u])

(* Nothing is closed twice or opened again.                                *)
LEMMA ClosedStays ==
  ASSUME CoordInv, [CoordAct]_coordVars
  PROVE  closed \subseteq closed'
<1> USE DEF ClosedAfter
<1>1. CASE UNCHANGED coordVars
  BY <1>1 DEF coordVars, mapVars
<1>2. ASSUME NEW v \in UpIds, ChainStep(v) \/ EoseTimeout(v) PROVE closed \subseteq closed'
  BY <1>2 DEF ChainStep, IngestSkipped, IngestStart, IngestDone, SendEose, EoseTimeout, FlushEose, mapVars
<1>3. CASE UpstreamStep \/ CoordStart \/ CoordStop
  BY <1>3 DEF UpstreamStep, HandleUpstreamEvent, HandleUpstreamEose, FlushEose, CoordStart, CoordStop, mapVars
<1>4. ASSUME NEW K, NEW k, NEW x, Unmap(K) \/ MarkDelivered(K, x) \/ OpenForSubscription(k, x)
      PROVE  closed \subseteq closed'
  BY <1>4 DEF Unmap, MarkDelivered, OpenForSubscription, mapVars
<1>5. QED BY <1>1, <1>2, <1>3, <1>4 DEF CoordAct

(* A chain holds its EOSE until the head is the EOSE.                      *)
LEMMA HeldBehind ==
  ASSUME NEW c \in Seq(Items)
  PROVE  /\ \A x \in Items : HoldsEose(c) \/ x.what = Eose => HoldsEose(Append(c, x))
         /\ c # <<>> /\ Head(c).what # Eose /\ HoldsEose(c) => HoldsEose(Tail(c))
<1> USE DEF HoldsEose
<1>1. ASSUME NEW x \in Items, HoldsEose(c) \/ x.what = Eose PROVE HoldsEose(Append(c, x))
  <2> DEFINE d == Append(c, x)
             n == Len(c)
  <2>1. n \in Nat /\ DOMAIN c = 1..n /\ DOMAIN d = 1..(n + 1) /\ d[n + 1] = x /\ \A i \in 1..n : d[i] = c[i]
    BY Appended
  <2> HIDE DEF d, n
  <2>2. \E i \in DOMAIN d : d[i].what = Eose
    BY <1>1, <2>1
  <2>3. QED BY <2>2 DEF d
<1>2. ASSUME c # <<>>, Head(c).what # Eose, HoldsEose(c) PROVE HoldsEose(Tail(c))
  <2> DEFINE d == Tail(c)
             n == Len(c)
  <2>1. /\ n \in Nat \ {0} /\ DOMAIN c = 1..n /\ DOMAIN d = 1..(n - 1) /\ Head(c) = c[1]
        /\ \A i \in DOMAIN d : d[i] = c[i + 1]
    BY <1>2, Tailed
  <2>2. PICK i \in DOMAIN c : c[i].what = Eose
    BY <1>2
  <2> HIDE DEF d, n
  <2>3. i - 1 \in DOMAIN d /\ d[i - 1] = c[i]
    BY <1>2, <2>1, <2>2
  <2>4. QED BY <2>2, <2>3 DEF d
<1>3. QED BY <1>1, <1>2

(* What was delivered stays delivered.                                     *)
LEMMA EndedStays ==
  ASSUME NEW o \in Seq(Events \cup {Eose}), NEW x \in Events \cup {Eose}
  PROVE  Ended(o) \/ x = Eose => Ended(Append(o, x))
<1> DEFINE d == Append(o, x)
           n == Len(o)
<1>1. n \in Nat /\ DOMAIN o = 1..n /\ DOMAIN d = 1..(n + 1) /\ d[n + 1] = x /\ \A i \in 1..n : d[i] = o[i]
  BY Appended
<1> HIDE DEF d, n
<1>2. Ended(o) \/ x = Eose => \E i \in DOMAIN d : d[i] = Eose
  BY <1>1 DEF Ended
<1>3. QED BY <1>2 DEF Ended, d

(* Every operation keeps hold of the EOSE.                                 *)
LEMMA EoseKeptStep ==
  ASSUME CoordInv, EoseKept, [CoordAct]_coordVars
  PROVE  EoseKept'
<1>1. CASE UNCHANGED coordVars
  BY <1>1 DEF EoseKept, coordVars, mapVars, stateVars, Ended, HoldsEose
<1>2. ASSUME CoordAct, NEW u \in UpIds, u \in eoseSent', u \notin closed'
      PROVE  Ended(out'[u]) \/ HoldsEose(chain'[u])
  <2>1. /\ u \notin closed
        /\ chain[u] \in Seq(Items) /\ out[u] \in Seq(Events \cup {Eose})
        /\ u \in eoseSent => Ended(out[u]) \/ HoldsEose(chain[u])
    BY <1>2, ClosedStays, ChainTypes DEF EoseKept
  <2>2. CASE Stays(u)
    BY <1>2, <2>1, <2>2 DEF Stays
  <2>3. CASE Queues(u)
    <3>1. PICK e \in Events : chain'[u] = Append(chain[u], Item(e, u \notin eoseSent))
      BY <2>3 DEF Queues
    <3>2. Item(e, u \notin eoseSent) \in Items
      BY ChainTypes
    <3>3. HoldsEose(chain[u]) => HoldsEose(chain'[u])
      BY <2>1, <3>1, <3>2, HeldBehind
    <3>4. QED BY <1>2, <2>1, <2>3, <3>3 DEF Queues
  <2>4. CASE Flushes(u)
    <3>1. EoseItem \in Items /\ EoseItem.what = Eose
      BY ChainTypes
    <3>2. HoldsEose(Append(chain[u], EoseItem))
      BY <2>1, <3>1, HeldBehind
    <3>3. QED BY <2>4, <3>2 DEF Flushes
  <2>5. CASE Settles(u)
    <3>1. HoldsEose(chain[u]) => HoldsEose(chain'[u])
      BY <2>1, <2>5, HeldBehind DEF Settles
    <3>2. Ended(out[u]) => Ended(out'[u])
      BY <2>1, <2>5, EndedStays DEF Settles
    <3>3. QED BY <1>2, <2>1, <2>5, <3>1, <3>2 DEF Settles
  <2>6. CASE Ends(u)
    <3>1. out'[u] = Append(out[u], Eose)
      BY <2>1, <2>6 DEF Ends
    <3>2. Ended(Append(out[u], Eose))
      BY <2>1, EndedStays
    <3>3. QED BY <3>1, <3>2
  <2>7. QED BY <1>2, <2>2, <2>3, <2>4, <2>5, <2>6, ChainMoves
<1>3. QED BY <1>1, <1>2 DEF EoseKept

(* And it begins with nothing flushed.                                     *)
LEMMA EoseKeptInit == CoordInit => EoseKept
BY DEF CoordInit, EoseKept

(* So at every moment an open subscription's EOSE has gone out, waits for  *)
(* its turn on the ingest chain, or is held by an armed timer.             *)
EoseComes == \A u \in subs : u \in timer \/ Ended(out[u]) \/ HoldsEose(chain[u])

(* Which is what EoseKept says of the open ones.                           *)
LEMMA KeptComes == CoordInv /\ EoseKept => EoseComes
<1> SUFFICES ASSUME CoordInv, EoseKept, NEW u \in subs
             PROVE  u \in timer \/ Ended(out[u]) \/ HoldsEose(chain[u])
  BY DEF EoseComes
<1>1. /\ subs \subseteq 1..sequence /\ sequence \in 0..MaxUp
      /\ closed = 1..sequence \ subs /\ timer = subs \ eoseSent
  BY DEF CoordInv, CoordStateOK, NothingLeaks, ClosedIffForgotten, TimerIffHeld
<1>2. u \in UpIds /\ u \notin closed
  BY <1>1, CoordinatorAssumption
<1>3. QED BY <1>1, <1>2 DEF EoseKept

(* No open subscription's EOSE is lost, whatever was flushed early by the  *)
(* timeout, queued behind storage writes, overwritten or delivered twice:  *)
(* flushEose() always leaves somebody who will send it.                    *)
THEOREM CoordEoseComes == CoordSpec => []EoseComes
<1>1. CoordInit => CoordInv /\ EoseKept
  BY CoordInitInv, EoseKeptInit
<1>2. CoordInv /\ EoseKept /\ [CoordNext]_coordVars => CoordInv' /\ EoseKept'
  BY NextIsAct, CoordStepInv, EoseKeptStep
<1>3. QED BY <1>1, <1>2, KeptComes, PTL DEF CoordSpec
=============================================================================
