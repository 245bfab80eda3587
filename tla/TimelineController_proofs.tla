----------------------- MODULE TimelineController_proofs ----------------------
(***************************************************************************)
(* Proofs about the widgets, for any posts, authors, quotes, budgets and   *)
(* bounds, and for both kinds of page at once: the invariant is kept by    *)
(* every step of PostNext and of FeedNext.                                 *)
(*                                                                         *)
(* Its core says who each open subscription belongs to (SubsOwned), that   *)
(* the queues are short enough and repeat nobody (QueuesInOrder), and what *)
(* a widget in a given state cannot have: nothing before it starts         *)
(* (IdleIsBlank), nothing while it is suspended (PausedIsEmpty), nothing   *)
(* of a post the page has left (WatchesNamed).                             *)
(*                                                                         *)
(* The next part is about the tree of a thread.  What buildReplyTree()     *)
(* and the reference say is recursive; the recursions are shown to have a  *)
(* solution (Computes), and two solutions to agree by the least number at  *)
(* which they would not (LeastNumber).                                     *)
(*                                                                         *)
(* The last part is about the levels of a thread: what is owed to each, on *)
(* its way or held already (ThreadInv), until nothing is missing.          *)
(***************************************************************************)
EXTENDS TimelineController, FiniteSetTheorems, SequenceTheorems, WellFoundedInduction, TLAPS

NamedType ==
  /\ named \in [of : Posts \cup {None}, wants : SUBSET {"reactions", "replies"}]
  /\ boot.phase # "idle" => boot.of \in Posts /\ named.of \in Posts
  /\ host \/ suspended => boot.phase # "idle"

(* Every open subscription has an owner: the timeline, the filter source,  *)
(* a lookup in flight, or an open watch.                                   *)
Owner(s) ==
  \/ s = Sub("timeline", current) /\ current \in Posts
  \/ s = Sub("follows", boot.of) /\ boot.phase = "resolving"
  \/ \E a \in profiles.open : s = Sub("profile", a)
  \/ \E k \in embeds.open : s = Sub("embed", k)
  \/ \E p \in reactions.open : s = Sub("reactions", p)
  \/ \E p \in threads.open, ids \in SUBSET Replies : s = Level(p, ids)
SubsOwned == \A s \in subs : Owner(s)

InboxOwned ==
  /\ stored \subseteq Earlier \cup Late
  /\ \A d \in inbox : d.to \in subs /\ d.event \in stored /\ Wants(d.to, d.event)

IdleIsBlank ==
  boot.phase = "idle" =>
    /\ status = "disconnected" /\ subs = {}
    /\ reactions = NoPosts /\ threads = NoPosts /\ held = {}

PausedIsEmpty ==
  suspended =>
    /\ subs = {} /\ boot.phase # "resolving"
    /\ profiles.open = {} /\ embeds.open = {} /\ reactions = NoPosts /\ threads = NoPosts

(* A queue: no more in flight than the budget, nobody waiting twice or     *)
(* waiting and in flight, everyone among those who asked.                  *)
QueueInOrder(q, budget) ==
  /\ IsFiniteSet(q.open) /\ Cardinality(q.open) <= budget
  /\ IsInjective(q.pending) /\ ToSet(q.pending) \cap q.open = {}
  /\ ToSet(q.pending) \cup q.open \subseteq q.requested
QueuesInOrder ==
  /\ QueueInOrder(profiles, ProfileBudget)
  /\ QueueInOrder(embeds, EmbedBudget)

(* Verdicts were asked of a host the widget still holds.                   *)
VerdictsNeedHost == (refresh.reading > 0 \/ refresh.pending) /\ ~stopped => host

BootIsNamed ==
  boot.phase # "idle" /\ ~boot.superseded => boot.of = named.of /\ boot.wants = named.wants

Wanted(kind) == IF kind \in named.wants THEN {named.of} ELSE {}
WatchesNamed ==
  /\ reactions.requested \cup reactions.pending \cup reactions.open \subseteq Wanted("reactions")
  /\ threads.requested \cup threads.pending \cup threads.open \subseteq Wanted("replies")
  /\ \A h \in held : h[1] = named.of

(* A thread has one subscription for each level it has opened.             *)
LevelsCounted ==
  \A p \in threads.open :
    /\ IsFiniteSet(LevelSubs(p)) /\ Cardinality(LevelSubs(p)) <= watch[p].opened
    /\ watch[p].opened \in 1..MaxDepth

-----------------------------------------------------------------------------
(* The queues.                                                             *)

(* The first n of a queue are n.                                           *)
LEMMA FirstOnes ==
  ASSUME NEW S, NEW s \in Seq(S), IsInjective(s), NEW n \in 0..Len(s)
  PROVE  /\ SubSeq(s, 1, n) \in Seq(S) /\ Len(SubSeq(s, 1, n)) = n
         /\ \A i \in 1..n : SubSeq(s, 1, n)[i] = s[i]
         /\ IsFiniteSet(ToSet(SubSeq(s, 1, n))) /\ Cardinality(ToSet(SubSeq(s, 1, n))) = n
<1> DEFINE t == SubSeq(s, 1, n)
<1>1. t \in Seq(S) /\ Len(t) = n /\ \A i \in 1..n : t[i] = s[i]
  BY SubSeqProperties
<1> HIDE DEF t
<1>2. n \in Nat /\ n <= Len(s) /\ DOMAIN t = 1..n /\ DOMAIN s = 1..Len(s)
  BY <1>1
<1>3. ToSet(t) = {t[i] : i \in 1..n}
  BY <1>2 DEF ToSet
<1>4. t \in Bijection(1..n, ToSet(t))
  <2>1. t = [i \in 1..n |-> t[i]] BY <1>1, <1>2
  <2>2. t \in [1..n -> ToSet(t)] BY <1>3, <2>1
  <2>3. \A i, j \in 1..n : t[i] = t[j] => i = j
    BY <1>1, <1>2 DEF IsInjective
  <2>4. \A x \in ToSet(t) : \E i \in 1..n : t[i] = x BY <1>3
  <2>5. t \in Injection(1..n, ToSet(t)) BY <2>2, <2>3, <1>2 DEF Injection, IsInjective
  <2>6. t \in Surjection(1..n, ToSet(t)) BY <2>2, <2>4 DEF Surjection
  <2>7. QED BY <2>5, <2>6 DEF Bijection
<1>5. IsFiniteSet(1..n) /\ Cardinality(1..n) = n
  BY <1>2, FS_Interval
<1>6. IsFiniteSet(ToSet(t)) /\ Cardinality(ToSet(t)) = n
  BY <1>4, <1>5, FS_Surjection DEF Bijection
<1>7. QED BY <1>1, <1>6 DEF t

(* What is left of a queue, and what it is made of.                        *)
LEMMA OtherOnes ==
  ASSUME NEW S, NEW s \in Seq(S), IsInjective(s), NEW n \in 0..Len(s)
  PROVE  /\ SubSeq(s, n + 1, Len(s)) \in Seq(S) /\ IsInjective(SubSeq(s, n + 1, Len(s)))
         /\ SubSeq(s, n + 1, Len(s)) # <<>> => n < Len(s)
         /\ n = 0 => SubSeq(s, n + 1, Len(s)) = s
         /\ ToSet(SubSeq(s, 1, n)) \cap ToSet(SubSeq(s, n + 1, Len(s))) = {}
         /\ ToSet(SubSeq(s, 1, n)) \cup ToSet(SubSeq(s, n + 1, Len(s))) = ToSet(s)
<1> DEFINE t == SubSeq(s, 1, n)
           r == SubSeq(s, n + 1, Len(s))
<1>1. t \in Seq(S) /\ Len(t) = n /\ \A i \in 1..n : t[i] = s[i]
  BY SubSeqProperties
<1>2. r \in Seq(S) /\ Len(r) = Len(s) - n /\ \A i \in 1..(Len(s) - n) : r[i] = s[n + i]
  <2>1. CASE n = Len(s)
    BY <2>1, SubSeqProperties
  <2>2. CASE n < Len(s)
    BY <2>2, SubSeqProperties
  <2>3. QED BY <2>1, <2>2
<1> HIDE DEF t, r
<1>3. DOMAIN t = 1..n /\ DOMAIN r = 1..(Len(s) - n) /\ DOMAIN s = 1..Len(s)
  BY <1>1, <1>2
<1>4. IsInjective(r)
  <2> SUFFICES ASSUME NEW i \in 1..(Len(s) - n), NEW j \in 1..(Len(s) - n), r[i] = r[j] PROVE i = j
    BY <1>3 DEF IsInjective
  <2>1. n + i \in DOMAIN s /\ n + j \in DOMAIN s /\ s[n + i] = s[n + j] BY <1>2, <1>3
  <2>2. n + i = n + j BY <2>1 DEF IsInjective
  <2>3. QED BY <2>2
<1>5. r # <<>> => n < Len(s)
  BY <1>2
<1>6. n = 0 => r = s
  BY <1>2, <1>3
<1>7. ToSet(t) \cap ToSet(r) = {}
  <2> SUFFICES ASSUME NEW i \in 1..n, NEW j \in 1..(Len(s) - n), t[i] = r[j] PROVE FALSE
    BY <1>3 DEF ToSet
  <2>1. s[i] = s[n + j] /\ i \in DOMAIN s /\ n + j \in DOMAIN s BY <1>1, <1>2, <1>3
  <2>2. i = n + j BY <2>1 DEF IsInjective
  <2>3. QED BY <2>2
<1>8. ToSet(t) \cup ToSet(r) = ToSet(s)
  <2>1. ASSUME NEW i \in 1..Len(s) PROVE s[i] \in ToSet(t) \cup ToSet(r)
    <3>1. CASE i <= n BY <3>1, <1>1, <1>3 DEF ToSet
    <3>2. CASE i > n
      <4>1. i - n \in 1..(Len(s) - n) /\ r[i - n] = s[i] BY <3>2, <1>2
      <4>2. QED BY <4>1, <1>3 DEF ToSet
    <3>3. QED BY <3>1, <3>2
  <2>2. ToSet(s) \subseteq ToSet(t) \cup ToSet(r) BY <2>1, <1>3 DEF ToSet
  <2>3. ToSet(t) \subseteq ToSet(s) BY <1>1, <1>3 DEF ToSet
  <2>4. ToSet(r) \subseteq ToSet(s)
    <3>1. ASSUME NEW j \in 1..(Len(s) - n) PROVE r[j] \in ToSet(s)
      BY <1>2, <1>3 DEF ToSet
    <3>2. QED BY <3>1, <1>3 DEF ToSet
  <2>5. QED BY <2>2, <2>3, <2>4
<1>9. QED BY <1>2, <1>4, <1>5, <1>6, <1>7, <1>8 DEF t, r

(* pumpProfileQueue() and pumpEmbedQueue() start what the budget allows,   *)
(* lose nobody, and leave someone waiting only behind a full budget.       *)
LEMMA PumpInOrder ==
  ASSUME NEW S, NEW q \in Queues(S), NEW budget \in Nat, NEW up \in BOOLEAN, QueueInOrder(q, budget)
  PROVE  /\ Pump(q, budget, up) \in Queues(S)
         /\ QueueInOrder(Pump(q, budget, up), budget)
         /\ Pump(q, budget, up).requested = q.requested
         /\ q.open \subseteq Pump(q, budget, up).open
         /\ Pump(q, budget, up).open \cup ToSet(Pump(q, budget, up).pending) = q.open \cup ToSet(q.pending)
         /\ ~(Awake /\ up) => Pump(q, budget, up).open = q.open
         /\ Awake /\ up /\ Pump(q, budget, up).pending # <<>> => Cardinality(Pump(q, budget, up).open) = budget
<1> DEFINE room == budget - Cardinality(q.open)
           n == IF ~(Awake /\ up) THEN 0 ELSE IF Len(q.pending) < room THEN Len(q.pending) ELSE room
           first == ToSet(SubSeq(q.pending, 1, n))
           rest == SubSeq(q.pending, n + 1, Len(q.pending))
           out == Pump(q, budget, up)
<1>1. /\ q.requested \subseteq S /\ q.pending \in Seq(S) /\ q.open \subseteq S
      /\ IsFiniteSet(q.open) /\ Cardinality(q.open) <= budget /\ IsInjective(q.pending)
      /\ ToSet(q.pending) \cap q.open = {} /\ ToSet(q.pending) \cup q.open \subseteq q.requested
  BY DEF Queues, QueueInOrder
<1>2. Cardinality(q.open) \in Nat /\ Len(q.pending) \in Nat
  BY <1>1, FS_CardinalityType
<1>3. n \in 0..Len(q.pending) /\ n <= room
  BY <1>1, <1>2
<1>4. /\ IsFiniteSet(first) /\ Cardinality(first) = n
      /\ rest \in Seq(S) /\ IsInjective(rest) /\ (rest # <<>> => n < Len(q.pending))
      /\ first \cap ToSet(rest) = {} /\ first \cup ToSet(rest) = ToSet(q.pending)
  BY <1>1, <1>3, FirstOnes, OtherOnes
<1>5. /\ out = [q EXCEPT !.pending = rest, !.open = q.open \cup first]
  BY DEF Pump
<1>6. /\ out.requested = q.requested /\ out.pending = rest /\ out.open = q.open \cup first
      /\ out = [requested |-> q.requested, pending |-> rest, open |-> q.open \cup first]
  BY <1>5 DEF Queues
<1>7. /\ IsFiniteSet(out.open) /\ Cardinality(out.open) = Cardinality(q.open) + n
  <2>1. q.open \cap first = {} BY <1>1, <1>4
  <2>2. Cardinality(q.open \cap first) = 0 BY <2>1, FS_EmptySet
  <2>3. IsFiniteSet(q.open \cup first)
        /\ Cardinality(q.open \cup first) = Cardinality(q.open) + Cardinality(first) - Cardinality(q.open \cap first)
    BY <1>1, <1>4, FS_Union
  <2>4. n \in Nat BY <1>2, <1>3
  <2>5. out.open = q.open \cup first BY <1>6
  <2>6. Cardinality(first) = n BY <1>4
  <2> HIDE DEF out, room, n, first, rest
  <2>7. Cardinality(q.open \cup first) = Cardinality(q.open) + n BY <1>2, <2>2, <2>3, <2>4, <2>6
  <2>8. QED BY <2>3, <2>5, <2>7
<1>8. ToSet(q.pending) \subseteq S
  BY <1>1 DEF ToSet
<1>9. out \in Queues(S)
  BY <1>1, <1>4, <1>6, <1>8 DEF Queues
<1>10. QueueInOrder(out, budget)
  <2>1. Cardinality(out.open) <= budget BY <1>2, <1>3, <1>7
  <2>2. /\ ToSet(out.pending) \cap out.open = {}
        /\ ToSet(out.pending) \cup out.open \subseteq out.requested
    BY <1>1, <1>4, <1>6
  <2>3. IsInjective(out.pending) BY <1>4, <1>6
  <2> HIDE DEF out, room, n, first, rest
  <2>4. QED BY <1>7, <2>1, <2>2, <2>3 DEF QueueInOrder
<1>11. ~(Awake /\ up) => out.open = q.open
  <2>1. ASSUME ~(Awake /\ up) PROVE out.open = q.open
    <3>1. n = 0 BY <2>1
    <3>2. first = {} BY <1>4, <3>1, FS_EmptySet
    <3>3. QED BY <1>6, <3>2
  <2>2. QED BY <2>1
<1>12. Awake /\ up /\ out.pending # <<>> => Cardinality(out.open) = budget
  <2> SUFFICES ASSUME Awake, up, out.pending # <<>> PROVE Cardinality(out.open) = budget
    OBVIOUS
  <2>1. n < Len(q.pending) BY <1>4, <1>6
  <2>2. n = room BY <2>1
  <2> DEFINE c == Cardinality(q.open)
  <2>3. Cardinality(out.open) = c + n /\ n = budget - c /\ c \in Nat BY <1>2, <1>7, <2>2
  <2> HIDE DEF out, room, n, first, rest, c
  <2>4. QED BY <2>3
<1>13. QED BY <1>4, <1>6, <1>9, <1>10, <1>11, <1>12

(* Someone waits only behind a full budget.                                *)
Served(q, budget) == q.pending # <<>> => Cardinality(q.open) = budget

(* The empty queue is in order, and so is one whose lookups were aborted.  *)
LEMMA EmptyInOrder ==
  ASSUME NEW S, NEW budget \in Nat
  PROVE  /\ EmptyQueue \in Queues(S) /\ QueueInOrder(EmptyQueue, budget) /\ Served(EmptyQueue, budget)
         /\ \A q \in Queues(S) :
              /\ WithoutProfiles(q) \in Queues(S) /\ QueueInOrder(WithoutProfiles(q), budget)
              /\ WithoutProfiles(q).open = {}
<1>1. <<>> \in Seq(S) /\ ToSet(<<>>) = {} /\ IsInjective(<<>>)
  BY DEF ToSet, IsInjective
<1>2. IsFiniteSet({}) /\ Cardinality({}) = 0
  BY FS_EmptySet
<1>3. EmptyQueue \in Queues(S) /\ QueueInOrder(EmptyQueue, budget) /\ Served(EmptyQueue, budget)
  BY <1>1, <1>2 DEF EmptyQueue, Queues, QueueInOrder, Served
<1>4. ASSUME NEW q \in Queues(S)
      PROVE  /\ WithoutProfiles(q) \in Queues(S) /\ QueueInOrder(WithoutProfiles(q), budget)
             /\ WithoutProfiles(q).open = {}
  <2>1. WithoutProfiles(q) \in Queues(S)
    BY <1>1 DEF WithoutProfiles, Queues
  <2>2. WithoutProfiles(q).pending = <<>> /\ WithoutProfiles(q).open = {}
    BY DEF WithoutProfiles, Queues
  <2>3. QED BY <1>1, <1>2, <2>1, <2>2 DEF QueueInOrder
<1>5. QED BY <1>3, <1>4

(* A slot given back.                                                      *)
LEMMA FreedInOrder ==
  ASSUME NEW S, NEW q \in Queues(S), NEW budget \in Nat, QueueInOrder(q, budget), NEW x
  PROVE  /\ [q EXCEPT !.open = @ \ {x}] \in Queues(S)
         /\ QueueInOrder([q EXCEPT !.open = @ \ {x}], budget)
         /\ [q EXCEPT !.open = @ \ {x}].open = q.open \ {x}
         /\ [q EXCEPT !.open = @ \ {x}].pending = q.pending
<1> DEFINE freed == [q EXCEPT !.open = @ \ {x}]
<1>1. q.requested \subseteq S /\ q.pending \in Seq(S) /\ q.open \subseteq S
  BY DEF Queues
<1>2. /\ IsFiniteSet(q.open \ {x}) /\ Cardinality(q.open \ {x}) <= Cardinality(q.open)
      /\ Cardinality(q.open) \in Nat /\ Cardinality(q.open \ {x}) \in Nat
  BY FS_Subset, FS_CardinalityType DEF QueueInOrder
<1>3. freed \in Queues(S) /\ freed.open = q.open \ {x} /\ freed.pending = q.pending /\ freed.requested = q.requested
  <2>1. freed \in Queues(S) BY <1>1 DEF Queues
  <2>2. freed.open = q.open \ {x} /\ freed.pending = q.pending /\ freed.requested = q.requested
    BY DEF Queues
  <2>3. QED BY <2>1, <2>2
<1>4. QueueInOrder(freed, budget)
  <2>1. Cardinality(q.open \ {x}) <= budget
    BY <1>2 DEF QueueInOrder
  <2>2. QED BY <1>2, <1>3, <2>1 DEF QueueInOrder
<1>5. QED BY <1>3, <1>4

(* requestProfile() and requestEmbed(): the newcomer waits or starts.      *)
LEMMA AskInOrder ==
  ASSUME NEW S, NEW q \in Queues(S), NEW budget \in Nat, QueueInOrder(q, budget), NEW x \in S
  PROVE  /\ Ask(q, x, budget) \in Queues(S)
         /\ QueueInOrder(Ask(q, x, budget), budget)
         /\ q.open \subseteq Ask(q, x, budget).open
         /\ q.open \cup ToSet(q.pending) \subseteq Ask(q, x, budget).open \cup ToSet(Ask(q, x, budget).pending)
         /\ Awake /\ x \notin q.requested => x \in Ask(q, x, budget).open \cup ToSet(Ask(q, x, budget).pending)
         /\ ~(Awake /\ IsConnected) => Ask(q, x, budget).open = q.open
         /\ Awake /\ IsConnected /\ Served(q, budget) => Served(Ask(q, x, budget), budget)
<1> DEFINE asked == [q EXCEPT !.requested = @ \cup {x}, !.pending = Append(@, x)]
<1>1. CASE x \in q.requested \/ ~Awake
  BY <1>1 DEF Ask
<1>2. CASE ~(x \in q.requested \/ ~Awake)
  <2>1. q.requested \subseteq S /\ q.pending \in Seq(S) /\ q.open \subseteq S
    BY DEF Queues
  <2>0. q.requested \cup {x} \in SUBSET S /\ Append(q.pending, x) \in Seq(S)
    BY <2>1
  <2>2. /\ asked \in Queues(S)
        /\ asked.requested = q.requested \cup {x} /\ asked.pending = Append(q.pending, x) /\ asked.open = q.open
    <3>1. asked \in Queues(S) BY <2>0, <2>1 DEF Queues
    <3>2. asked.requested = q.requested \cup {x} /\ asked.pending = Append(q.pending, x) /\ asked.open = q.open
      BY DEF Queues
    <3>3. QED BY <3>1, <3>2
  <2>3. /\ \A i \in 1..Len(q.pending) : Append(q.pending, x)[i] = q.pending[i]
        /\ Append(q.pending, x)[Len(q.pending) + 1] = x
        /\ DOMAIN Append(q.pending, x) = 1..(Len(q.pending) + 1) /\ DOMAIN q.pending = 1..Len(q.pending)
        /\ Len(q.pending) \in Nat
    BY <2>1
  <2>4. ToSet(Append(q.pending, x)) = ToSet(q.pending) \cup {x}
    BY <2>3 DEF ToSet
  <2>5. x \notin ToSet(q.pending) /\ x \notin q.open
    BY <1>2 DEF QueueInOrder
  <2>6. IsInjective(Append(q.pending, x))
    <3>1. \A i \in 1..Len(q.pending) : q.pending[i] # x
      BY <2>3, <2>5 DEF ToSet
    <3>2. \A i, j \in 1..Len(q.pending) : q.pending[i] = q.pending[j] => i = j
      BY <2>3 DEF QueueInOrder, IsInjective
    <3>3. QED BY <2>3, <3>1, <3>2 DEF IsInjective
  <2>7. QueueInOrder(asked, budget)
    BY <2>2, <2>4, <2>5, <2>6 DEF QueueInOrder
  <2>8. Ask(q, x, budget) = Pump(asked, budget, IsConnected) /\ IsConnected \in BOOLEAN
    BY <1>2 DEF Ask, IsConnected
  <2> HIDE DEF asked
  <2> DEFINE out == Pump(asked, budget, IsConnected)
  <2>9. /\ out \in Queues(S) /\ QueueInOrder(out, budget) /\ asked.open \subseteq out.open
        /\ out.open \cup ToSet(out.pending) = asked.open \cup ToSet(asked.pending)
        /\ ~(Awake /\ IsConnected) => out.open = asked.open
        /\ Awake /\ IsConnected /\ out.pending # <<>> => Cardinality(out.open) = budget
    <3>1. asked \in Queues(S) /\ QueueInOrder(asked, budget) /\ IsConnected \in BOOLEAN BY <2>2, <2>7, <2>8
    <3>2. QED BY <3>1, PumpInOrder
  <2>10. QED BY <1>2, <2>2, <2>4, <2>8, <2>9 DEF Served
<1>3. QED BY <1>1, <1>2

-----------------------------------------------------------------------------
(* The invariant, with TypeOK among its parts, and the steps of both kinds *)
(* of page.                                                                *)
ConnOK == status \in Statuses /\ answered \subseteq subs /\ InboxOwned

LookupsOK ==
  /\ {stopped, suspended} \subseteq BOOLEAN
  /\ profiles \in Queues(Authors) /\ closing \subseteq profiles.open
  /\ embeds \in Queues(Embeds) /\ loading \subseteq Embeds
  /\ refresh \in RefreshType
  /\ QueuesInOrder

WatchesTyped ==
  /\ events \subseteq Posts
  /\ held \subseteq Posts \X (Replies \cup Reactions)
  /\ {reactions, threads} \subseteq PostQueues
  /\ watch \in [Posts -> WatchType]
  /\ cut \in BOOLEAN

BootTyped ==
  /\ {host, banner} \subseteq BOOLEAN
  /\ boot \in [phase : Phases, of : Posts \cup {None},
               wants : SUBSET {"reactions", "replies"}, superseded : BOOLEAN]
  /\ current \in Posts \cup {None}
  /\ follows \in FollowStates
  /\ misses \in 0..(MaxMisses - 1) \cup {None}
  /\ NamedType

IInv ==
  /\ ConnOK /\ LookupsOK /\ WatchesTyped /\ BootTyped
  /\ SubsOwned /\ IdleIsBlank /\ PausedIsEmpty
  /\ VerdictsNeedHost /\ BootIsNamed /\ WatchesNamed /\ LevelsCounted
  /\ NothingIsForgotten

(* The parts of the type invariant make it whole.                          *)
LEMMA InvTyped == IInv => TypeOK
BY DEF IInv, ConnOK, LookupsOK, WatchesTyped, BootTyped, TypeOK

Step == PostNext \/ FeedNext

(* subscribe() and unsubscribe() in one call.                              *)
LEMMA RouteKeepsConn ==
  ASSUME ConnOK, NEW gone, NEW new, Route(gone, new)
  PROVE  /\ ConnOK' /\ status' = status
         /\ subs' = (subs \ (gone \cup (IF HasClient THEN new ELSE {}))) \cup (IF HasClient THEN new ELSE {})
<1> DEFINE opened == IF HasClient THEN new ELSE {}
           kept == subs \ (gone \cup opened)
<1>1. /\ subs' = kept \cup opened /\ answered' = answered \cap kept
      /\ inbox' = {d \in inbox : d.to \in kept} \cup IF IsConnected THEN Backfill(opened) ELSE {}
      /\ UNCHANGED <<status, stored, drops>>
  BY DEF Route
<1>2. ASSUME NEW d \in inbox' PROVE d.to \in subs' /\ d.event \in stored' /\ Wants(d.to, d.event)
  <2> HIDE DEF kept
  <2>1. CASE d \in inbox /\ d.to \in kept
    BY <1>1, <2>1 DEF ConnOK, InboxOwned
  <2>2. CASE d \in Backfill(opened)
    <3>1. PICK x \in opened \X stored : Wants(x[1], x[2]) /\ d = Delivery(x[1], x[2], FALSE)
      BY <2>2 DEF Backfill
    <3>2. d.to = x[1] /\ d.event = x[2] BY <3>1 DEF Delivery
    <3>3. QED BY <1>1, <3>1, <3>2
  <2>3. QED BY <1>1, <2>1, <2>2
<1>3. InboxOwned'
  BY <1>1, <1>2 DEF ConnOK, InboxOwned
<1>4. QED BY <1>1, <1>3 DEF ConnOK

(* Everything else the connection does.                                    *)
LEMMA ConnKept ==
  ASSUME ConnOK
  PROVE  /\ UNCHANGED connVars => ConnOK'
         /\ Dial => ConnOK'
         /\ \A final \in Statuses : Teardown(final) => ConnOK'
         /\ \A new : SocketUp(new) => ConnOK'
         /\ SocketDrops => ConnOK'
         /\ \A d : Delivers(d) => ConnOK'
         /\ \A s : Eose(s) => ConnOK'
         /\ \A e \in Late : Arrives(e) => ConnOK'
<1>1. UNCHANGED connVars => ConnOK'
  BY DEF ConnOK, InboxOwned, connVars
<1>2. Dial => ConnOK'
  BY DEF ConnOK, InboxOwned, Dial, Statuses
<1>3. ASSUME NEW final \in Statuses, Teardown(final) PROVE ConnOK'
  BY <1>3 DEF ConnOK, InboxOwned, Teardown
<1>4. ASSUME NEW new, SocketUp(new) PROVE ConnOK'
  <2>1. /\ status' = "connected" /\ subs' = subs \cup new /\ answered' = {}
        /\ inbox' = Backfill(subs \cup new) /\ stored' = stored
    BY <1>4 DEF SocketUp
  <2>2. ASSUME NEW d \in inbox' PROVE d.to \in subs' /\ d.event \in stored' /\ Wants(d.to, d.event)
    <3>1. PICK x \in (subs \cup new) \X stored : Wants(x[1], x[2]) /\ d = Delivery(x[1], x[2], FALSE)
      BY <2>1 DEF Backfill
    <3>2. d.to = x[1] /\ d.event = x[2] BY <3>1 DEF Delivery
    <3>3. QED BY <2>1, <3>1, <3>2
  <2>3. QED BY <2>1, <2>2 DEF ConnOK, InboxOwned, Statuses
<1>5. SocketDrops => ConnOK'
  BY DEF ConnOK, InboxOwned, SocketDrops, Statuses
<1>6. ASSUME NEW d, Delivers(d) PROVE ConnOK'
  BY <1>6 DEF ConnOK, InboxOwned, Delivers
<1>7. ASSUME NEW s, Eose(s) PROVE ConnOK'
  BY <1>7 DEF ConnOK, InboxOwned, Eose
<1>8. ASSUME NEW e \in Late, Arrives(e) PROVE ConnOK'
  <2>1. /\ stored' = stored \cup {e} /\ UNCHANGED <<status, subs, answered>>
        /\ inbox' \subseteq inbox \cup {Delivery(s, e, s \in answered) : s \in {s \in subs : Wants(s, e)}}
    BY <1>8 DEF Arrives
  <2>2. ASSUME NEW d \in inbox' PROVE d.to \in subs' /\ d.event \in stored' /\ Wants(d.to, d.event)
    <3>1. CASE d \in inbox
      BY <2>1, <3>1 DEF ConnOK, InboxOwned
    <3>2. CASE d \notin inbox
      <4>1. PICK s \in subs : Wants(s, e) /\ d = Delivery(s, e, s \in answered)
        BY <2>1, <3>2
      <4>2. d.to = s /\ d.event = e BY <4>1 DEF Delivery
      <4>3. QED BY <2>1, <4>1, <4>2
    <3>3. QED BY <3>1, <3>2
  <2>3. QED BY <2>1, <2>2 DEF ConnOK, InboxOwned
<1>9. QED BY <1>1, <1>2, <1>3, <1>4, <1>5, <1>6, <1>7, <1>8

(* The levels of a thread are counted as long as none is added.            *)
LEMMA LevelsShrink ==
  ASSUME LevelsCounted, threads'.open \subseteq threads.open,
         \A p \in threads'.open : watch'[p].opened = watch[p].opened,
         \A s \in subs' : s.kind = "replies" => s \in subs
  PROVE  LevelsCounted'
<1> SUFFICES ASSUME NEW p \in threads'.open
    PROVE /\ IsFiniteSet(LevelSubs(p)') /\ Cardinality(LevelSubs(p)') <= watch'[p].opened
          /\ watch'[p].opened \in 1..MaxDepth
  BY DEF LevelsCounted
<1>1. /\ IsFiniteSet(LevelSubs(p)) /\ Cardinality(LevelSubs(p)) <= watch[p].opened
      /\ watch[p].opened \in 1..MaxDepth /\ watch'[p].opened = watch[p].opened
  BY DEF LevelsCounted
<1>2. LevelSubs(p)' \subseteq LevelSubs(p)
  BY DEF LevelSubs
<1>3. /\ IsFiniteSet(LevelSubs(p)') /\ Cardinality(LevelSubs(p)') <= Cardinality(LevelSubs(p))
      /\ Cardinality(LevelSubs(p)') \in Nat /\ Cardinality(LevelSubs(p)) \in Nat
  BY <1>1, <1>2, FS_Subset, FS_CardinalityType
<1>4. QED BY <1>1, <1>3, WatchAssumption

(* What nothing touches is kept.                                           *)
LEMMA Frames ==
  ASSUME IInv
  PROVE  /\ UNCHANGED lookupVars => LookupsOK'
         /\ UNCHANGED watchVars => WatchesTyped'
         /\ UNCHANGED bootVars /\ suspended' = suspended => BootTyped'
         /\ UNCHANGED <<boot, named>> => BootIsNamed'
         /\ UNCHANGED <<named, reactions, threads, held>> => WatchesNamed'
         /\ UNCHANGED <<refresh, stopped, host>> => VerdictsNeedHost'
         /\ UNCHANGED <<connVars, lookupVars, watchVars>> => LevelsCounted' /\ NothingIsForgotten'
<1>1. UNCHANGED lookupVars => LookupsOK'
  BY DEF IInv, LookupsOK, QueuesInOrder, QueueInOrder, lookupVars
<1>2. UNCHANGED watchVars => WatchesTyped'
  BY DEF IInv, WatchesTyped, watchVars
<1>3. UNCHANGED bootVars /\ suspended' = suspended => BootTyped'
  BY DEF IInv, BootTyped, NamedType, bootVars
<1>4. UNCHANGED <<boot, named>> => BootIsNamed'
  BY DEF IInv, BootIsNamed
<1>5. UNCHANGED <<named, reactions, threads, held>> => WatchesNamed'
  BY DEF IInv, WatchesNamed, Wanted
<1>6. UNCHANGED <<refresh, stopped, host>> => VerdictsNeedHost'
  BY DEF IInv, VerdictsNeedHost
<1>7. UNCHANGED <<connVars, lookupVars, watchVars>> => LevelsCounted' /\ NothingIsForgotten'
  <2> SUFFICES ASSUME UNCHANGED <<connVars, lookupVars, watchVars>> PROVE LevelsCounted' /\ NothingIsForgotten'
    OBVIOUS
  <2>1. UNCHANGED <<status, subs, threads, watch, stopped, suspended, profiles, embeds, loading, refresh, events, held>>
    BY DEF connVars, lookupVars, watchVars
  <2>2. LevelsCounted'
    BY <2>1 DEF IInv, LevelsCounted, LevelSubs
  <2>3. NothingIsForgotten'
    BY <2>1 DEF IInv, NothingIsForgotten, Awake, IsConnected, Shown
  <2>4. QED BY <2>2, <2>3
<1>8. QED BY <1>1, <1>2, <1>3, <1>4, <1>5, <1>6, <1>7

(* The cards and their lookups: only their own subscriptions come and go,  *)
(* none of them without a client or while the widget is suspended.         *)
LEMMA LookupFrame ==
  ASSUME IInv, UNCHANGED <<watchVars, bootVars, stopped, suspended, status>>, ConnOK', LookupsOK',
         VerdictsNeedHost', NothingIsForgotten',
         \A s \in subs' :
           \/ s \in subs /\ s.kind \notin {"profile", "embed"}
           \/ \E a \in profiles'.open : s = Sub("profile", a)
           \/ \E k \in embeds'.open : s = Sub("embed", k),
         ~HasClient \/ suspended => subs' \subseteq subs,
         suspended => profiles'.open = {} /\ embeds'.open = {}
  PROVE  IInv'
<1>1. WatchesTyped' /\ BootTyped' /\ BootIsNamed' /\ WatchesNamed'
  BY Frames DEF watchVars, bootVars
<1>2. SubsOwned'
  <2> SUFFICES ASSUME NEW s \in subs' PROVE Owner(s)'
    BY DEF SubsOwned
  <2>1. CASE s \in subs /\ s.kind \notin {"profile", "embed"}
    <3>1. Owner(s) BY <2>1 DEF IInv, SubsOwned
    <3>2. ~\E a \in profiles.open : s = Sub("profile", a) BY <2>1 DEF Sub
    <3>3. ~\E k \in embeds.open : s = Sub("embed", k) BY <2>1 DEF Sub
    <3>4. UNCHANGED <<current, boot, reactions, threads>> BY DEF bootVars, watchVars
    <3>5. QED BY <3>1, <3>2, <3>3, <3>4 DEF Owner
  <2>2. CASE ~(s \in subs /\ s.kind \notin {"profile", "embed"})
    BY <2>2 DEF Owner
  <2>3. QED BY <2>1, <2>2
<1>3. IdleIsBlank'
  BY DEF IInv, IdleIsBlank, HasClient, watchVars, bootVars
<1>4. PausedIsEmpty'
  BY DEF IInv, PausedIsEmpty, watchVars, bootVars
<1>5. LevelsCounted'
  <2>1. \A s \in subs' : s.kind = "replies" => s \in subs
    BY DEF Sub
  <2>2. threads' = threads /\ watch' = watch BY DEF watchVars
  <2>3. LevelsCounted BY DEF IInv
  <2>4. threads'.open \subseteq threads.open /\ \A p \in threads'.open : watch'[p].opened = watch[p].opened
    BY <2>2
  <2>5. QED BY <2>1, <2>3, <2>4, LevelsShrink
<1>6. QED BY <1>1, <1>2, <1>3, <1>4, <1>5 DEF IInv

(* The watches of the post and what the relay sends: the cards and the     *)
(* page are as they were.                                                  *)
LEMMA WatchFrame ==
  ASSUME IInv, UNCHANGED <<lookupVars, bootVars, status, events>>, ConnOK', WatchesTyped', LevelsCounted',
         reactions'.open \subseteq reactions.open, UNCHANGED threads,
         reactions'.requested \subseteq reactions.requested, reactions'.pending \subseteq reactions.pending,
         suspended \/ boot.phase = "idle" => reactions' = reactions /\ subs' = subs,
         \A h \in held' : h \in held \/ h[1] = named.of,
         boot.phase = "idle" => held' = held,
         held' \cap (Posts \X Replies) = held \cap (Posts \X Replies),
         \A s \in subs' :
           \/ s \in subs /\ (s.kind = "reactions" => s.of \in reactions'.open \/ s.of \notin reactions.open)
           \/ \E p \in threads.open, ids \in SUBSET Replies : s = Level(p, ids)
  PROVE  IInv'
<1>1. LookupsOK' /\ BootTyped' /\ BootIsNamed' /\ VerdictsNeedHost'
  BY Frames DEF lookupVars, bootVars
<1>2. WatchesNamed'
  BY DEF IInv, WatchesNamed, Wanted, bootVars
<1>3. SubsOwned'
  <2> SUFFICES ASSUME NEW s \in subs' PROVE Owner(s)'
    BY DEF SubsOwned
  <2>1. CASE s \in subs /\ (s.kind = "reactions" => s.of \in reactions'.open \/ s.of \notin reactions.open)
    <3>1. Owner(s) BY <2>1 DEF IInv, SubsOwned
    <3>2. \A p \in reactions.open : s = Sub("reactions", p) => p \in reactions'.open
      BY <2>1 DEF Sub
    <3>3. UNCHANGED <<current, boot, profiles, embeds, threads>> BY DEF bootVars, lookupVars
    <3>4. QED BY <3>1, <3>2, <3>3 DEF Owner
  <2>2. CASE ~(s \in subs /\ (s.kind = "reactions" => s.of \in reactions'.open \/ s.of \notin reactions.open))
    BY <2>2 DEF Owner
  <2>3. QED BY <2>1, <2>2
<1>4. IdleIsBlank' /\ PausedIsEmpty'
  BY DEF IInv, IdleIsBlank, PausedIsEmpty, lookupVars, bootVars
<1>5. NothingIsForgotten'
  BY DEF IInv, NothingIsForgotten, Awake, IsConnected, Shown, lookupVars
<1>6. QED BY <1>1, <1>2, <1>3, <1>4, <1>5 DEF IInv

-----------------------------------------------------------------------------
(* The cards and their lookups.                                            *)

(* A lookup's subscription is closed no later than its slot is given back, *)
(* and opened with it.                                                     *)
LEMMA RouteForCards ==
  ASSUME IInv, NEW gone, NEW new, Route(gone, new),
         \A s \in new : \/ \E a \in profiles'.open : s = Sub("profile", a)
                        \/ \E k \in embeds'.open : s = Sub("embed", k),
         \A a \in profiles.open : a \in profiles'.open \/ Sub("profile", a) \in gone,
         \A k \in embeds.open : k \in embeds'.open \/ Sub("embed", k) \in gone
  PROVE  /\ ConnOK' /\ status' = status
         /\ ~HasClient \/ new = {} => subs' \subseteq subs
         /\ \A s \in subs' :
              \/ s \in subs /\ s.kind \notin {"profile", "embed"}
              \/ \E a \in profiles'.open : s = Sub("profile", a)
              \/ \E k \in embeds'.open : s = Sub("embed", k)
<1>1. /\ ConnOK' /\ status' = status
      /\ subs' = (subs \ (gone \cup (IF HasClient THEN new ELSE {}))) \cup (IF HasClient THEN new ELSE {})
  BY RouteKeepsConn DEF IInv
<1>2. ASSUME NEW s \in subs'
      PROVE  \/ s \in subs /\ s.kind \notin {"profile", "embed"}
             \/ \E a \in profiles'.open : s = Sub("profile", a)
             \/ \E k \in embeds'.open : s = Sub("embed", k)
  <2>1. CASE s \in new BY <2>1
  <2>2. CASE s \notin new
    <3>1. s \in subs /\ s \notin gone BY <1>1, <2>2
    <3>2. Owner(s) BY <3>1 DEF IInv, SubsOwned
    <3>3. CASE s.kind \notin {"profile", "embed"} BY <3>1, <3>3
    <3>4. CASE s.kind \in {"profile", "embed"}
      <4>1. \/ \E a \in profiles.open : s = Sub("profile", a)
            \/ \E k \in embeds.open : s = Sub("embed", k)
        BY <3>2, <3>4 DEF Owner, Sub, Level
      <4>2. QED BY <3>1, <4>1
    <3>5. QED BY <3>3, <3>4
  <2>3. QED BY <2>1, <2>2
<1>3. QED BY <1>1, <1>2

(* NothingIsForgotten of the next state, from what a step of the cards has *)
(* to show of it.                                                          *)
LEMMA CardsForget ==
  ASSUME IInv, UNCHANGED <<status, stopped, suspended, events, held>>,
         Awake /\ IsConnected => Served(profiles', ProfileBudget) /\ Served(embeds', EmbedBudget),
         Awake => loading' \subseteq embeds'.open \cup ToSet(embeds'.pending),
         Awake /\ Shown /\ refresh'.pending => refresh'.debounce \/ refresh'.poll \/ refresh'.reading > 0
  PROVE  NothingIsForgotten'
BY DEF NothingIsForgotten, Awake, IsConnected, Shown, Served

(* What NothingIsForgotten says of a widget that is awake.                 *)
LEMMA CardsRemembered ==
  ASSUME IInv, Awake
  PROVE  /\ IsConnected => Served(profiles, ProfileBudget) /\ Served(embeds, EmbedBudget)
         /\ loading \subseteq embeds.open \cup ToSet(embeds.pending)
         /\ Shown /\ refresh.pending => refresh.debounce \/ refresh.poll \/ refresh.reading > 0
BY DEF IInv, NothingIsForgotten, Served

(* What the invariant says of the lookups' variables.                      *)
LEMMA LookupTypes ==
  ASSUME IInv
  PROVE  /\ ProfileBudget \in Nat /\ EmbedBudget \in Nat
         /\ {stopped, suspended} \subseteq BOOLEAN
         /\ profiles \in Queues(Authors) /\ QueueInOrder(profiles, ProfileBudget)
         /\ embeds \in Queues(Embeds) /\ QueueInOrder(embeds, EmbedBudget)
         /\ profiles.open \subseteq Authors /\ embeds.open \subseteq Embeds
         /\ closing \subseteq profiles.open /\ loading \subseteq Embeds
         /\ refresh \in RefreshType
         /\ suspended => subs = {} /\ profiles.open = {} /\ embeds.open = {}
BY LookupAssumption DEF IInv, LookupsOK, QueuesInOrder, Queues, PausedIsEmpty

(* requestProfile()                                                        *)
LEMMA RequestProfileKeeps ==
  ASSUME IInv, UNCHANGED <<watchVars, bootVars>>, NEW a \in Authors, RequestProfile(a)
  PROVE  IInv'
<1>1. /\ Awake /\ a \notin profiles.requested
      /\ profiles' = Ask(profiles, a, ProfileBudget)
      /\ Route({}, Opened("profile", profiles, profiles'))
      /\ UNCHANGED <<stopped, suspended, closing, embeds, loading, refresh>>
  BY DEF RequestProfile
<1>2. profiles \in Queues(Authors) /\ QueueInOrder(profiles, ProfileBudget) /\ ProfileBudget \in Nat
  BY LookupTypes
<1>3. /\ profiles' \in Queues(Authors) /\ QueueInOrder(profiles', ProfileBudget)
      /\ profiles.open \subseteq profiles'.open
      /\ Awake /\ IsConnected /\ Served(profiles, ProfileBudget) => Served(profiles', ProfileBudget)
  BY <1>1, <1>2, AskInOrder
<1>4. LookupsOK'
  BY <1>1, <1>3 DEF IInv, LookupsOK, QueuesInOrder, QueueInOrder
<1>5. UNCHANGED <<events, held, host>> BY DEF watchVars, bootVars
<1>6. VerdictsNeedHost' BY <1>1, <1>5, Frames
<1>7. /\ ConnOK' /\ status' = status
      /\ ~HasClient => subs' \subseteq subs
      /\ \A s \in subs' :
           \/ s \in subs /\ s.kind \notin {"profile", "embed"}
           \/ \E x \in profiles'.open : s = Sub("profile", x)
           \/ \E k \in embeds'.open : s = Sub("embed", k)
  BY <1>1, <1>3, RouteForCards DEF Opened
<1>8. NothingIsForgotten'
  BY <1>1, <1>3, <1>5, <1>7, CardsRemembered, CardsForget
<1>9. ~suspended BY <1>1 DEF Awake
<1>10. QED BY <1>1, <1>4, <1>6, <1>7, <1>8, <1>9, LookupFrame

(* requestEmbed()                                                          *)
LEMMA RequestEmbedKeeps ==
  ASSUME IInv, UNCHANGED <<watchVars, bootVars>>, NEW k \in Embeds, RequestEmbed(k)
  PROVE  IInv'
<1>1. /\ Awake /\ k \notin embeds.requested
      /\ embeds' = Ask(embeds, k, EmbedBudget)
      /\ loading' = loading \cup {k}
      /\ Route({}, Opened("embed", embeds, embeds'))
      /\ UNCHANGED <<stopped, suspended, profiles, closing, refresh>>
  BY DEF RequestEmbed
<1>2. embeds \in Queues(Embeds) /\ QueueInOrder(embeds, EmbedBudget) /\ EmbedBudget \in Nat
  BY LookupTypes
<1>3. /\ embeds' \in Queues(Embeds) /\ QueueInOrder(embeds', EmbedBudget)
      /\ embeds.open \subseteq embeds'.open
      /\ embeds.open \cup ToSet(embeds.pending) \cup {k} \subseteq embeds'.open \cup ToSet(embeds'.pending)
      /\ Awake /\ IsConnected /\ Served(embeds, EmbedBudget) => Served(embeds', EmbedBudget)
  BY <1>1, <1>2, AskInOrder
<1>4. LookupsOK'
  BY <1>1, <1>3 DEF IInv, LookupsOK, QueuesInOrder, QueueInOrder
<1>5. UNCHANGED <<events, held, host>> BY DEF watchVars, bootVars
<1>6. VerdictsNeedHost' BY <1>1, <1>5, Frames
<1>7. /\ ConnOK' /\ status' = status
      /\ ~HasClient => subs' \subseteq subs
      /\ \A s \in subs' :
           \/ s \in subs /\ s.kind \notin {"profile", "embed"}
           \/ \E x \in profiles'.open : s = Sub("profile", x)
           \/ \E x \in embeds'.open : s = Sub("embed", x)
  BY <1>1, <1>3, RouteForCards DEF Opened
<1>8. NothingIsForgotten'
  BY <1>1, <1>3, <1>5, <1>7, CardsRemembered, CardsForget
<1>9. ~suspended BY <1>1 DEF Awake
<1>10. QED BY <1>1, <1>4, <1>6, <1>7, <1>8, <1>9, LookupFrame

(* finishProfileRequest(): the slot goes to the next author, the           *)
(* subscription with it.                                                   *)
LEMMA FinishProfileKeeps ==
  ASSUME IInv, UNCHANGED <<watchVars, bootVars>>, NEW a \in Authors, FinishProfileRequest(a)
  PROVE  IInv'
<1> DEFINE freed == [profiles EXCEPT !.open = @ \ {a}]
<1>1. /\ a \in profiles.open
      /\ profiles' = Pump(freed, ProfileBudget, IsConnected)
      /\ closing' = closing \ {a}
      /\ Route({Sub("profile", a)}, Opened("profile", freed, profiles'))
      /\ UNCHANGED <<stopped, suspended, embeds, loading, refresh>>
  BY DEF FinishProfileRequest, FinishedProfile
<1>2. profiles \in Queues(Authors) /\ QueueInOrder(profiles, ProfileBudget) /\ ProfileBudget \in Nat
  BY LookupTypes
<1>3. /\ freed \in Queues(Authors) /\ QueueInOrder(freed, ProfileBudget)
      /\ freed.open = profiles.open \ {a}
  <2> DEFINE q == profiles
             budget == ProfileBudget
  <2>1. q \in Queues(Authors) /\ QueueInOrder(q, budget) /\ budget \in Nat BY <1>2
  <2> HIDE DEF q, budget
  <2>2. /\ [q EXCEPT !.open = @ \ {a}] \in Queues(Authors)
        /\ QueueInOrder([q EXCEPT !.open = @ \ {a}], budget)
        /\ [q EXCEPT !.open = @ \ {a}].open = q.open \ {a}
    BY <2>1, FreedInOrder
  <2>3. QED BY <2>2 DEF q, budget
<1> HIDE DEF freed
<1>4. IsConnected \in BOOLEAN BY DEF IsConnected
<1>5. /\ profiles' \in Queues(Authors) /\ QueueInOrder(profiles', ProfileBudget)
      /\ freed.open \subseteq profiles'.open
      /\ Awake /\ IsConnected => Served(profiles', ProfileBudget)
  BY <1>1, <1>2, <1>3, <1>4, PumpInOrder DEF Served
<1>6. LookupsOK'
  BY <1>1, <1>3, <1>5 DEF IInv, LookupsOK, QueuesInOrder, QueueInOrder
<1>7. UNCHANGED <<events, held, host>> BY DEF watchVars, bootVars
<1>8. VerdictsNeedHost' BY <1>1, <1>7, Frames
<1>9. /\ ConnOK' /\ status' = status
      /\ ~HasClient => subs' \subseteq subs
      /\ \A s \in subs' :
           \/ s \in subs /\ s.kind \notin {"profile", "embed"}
           \/ \E x \in profiles'.open : s = Sub("profile", x)
           \/ \E k \in embeds'.open : s = Sub("embed", k)
  BY <1>1, <1>3, <1>5, RouteForCards DEF Opened
<1>10. NothingIsForgotten'
  BY <1>1, <1>5, <1>7, <1>9, CardsRemembered, CardsForget
<1>11. ~suspended BY <1>1, LookupTypes
<1>12. QED BY <1>1, <1>6, <1>8, <1>9, <1>10, <1>11, LookupFrame

(* openEmbedRequest() after its await, with the author it may ask for.     *)
LEMMA EmbedSettlesKeeps ==
  ASSUME IInv, UNCHANGED <<watchVars, bootVars>>, NEW k \in Embeds, NEW found \in BOOLEAN, EmbedSettles(k, found)
  PROVE  IInv'
<1> DEFINE freed == [embeds EXCEPT !.open = @ \ {k}]
<1>1. /\ k \in embeds.open
      /\ embeds' = Pump(freed, EmbedBudget, IsConnected)
      /\ profiles' = IF found THEN Ask(profiles, QuotedBy[k], ProfileBudget) ELSE profiles
      /\ Route({Sub("embed", k)}, Opened("embed", freed, embeds') \cup Opened("profile", profiles, profiles'))
      /\ loading' = loading \ {k}
      /\ refresh' = IF found THEN ScheduleRefresh(refresh) ELSE refresh
      /\ UNCHANGED <<stopped, suspended, closing>>
  BY DEF EmbedSettles, PumpedEmbeds
<1>2. /\ embeds \in Queues(Embeds) /\ QueueInOrder(embeds, EmbedBudget) /\ EmbedBudget \in Nat
      /\ profiles \in Queues(Authors) /\ QueueInOrder(profiles, ProfileBudget) /\ ProfileBudget \in Nat
      /\ refresh \in RefreshType /\ QuotedBy[k] \in Authors
  BY LookupTypes, LookupAssumption
<1>3. /\ freed \in Queues(Embeds) /\ QueueInOrder(freed, EmbedBudget)
      /\ freed.open = embeds.open \ {k} /\ freed.pending = embeds.pending
  BY <1>2, FreedInOrder
<1> HIDE DEF freed
<1>4. IsConnected \in BOOLEAN BY DEF IsConnected
<1>5. /\ embeds' \in Queues(Embeds) /\ QueueInOrder(embeds', EmbedBudget)
      /\ freed.open \subseteq embeds'.open
      /\ embeds'.open \cup ToSet(embeds'.pending) = freed.open \cup ToSet(freed.pending)
      /\ Awake /\ IsConnected => Served(embeds', EmbedBudget)
  BY <1>1, <1>2, <1>3, <1>4, PumpInOrder DEF Served
<1>6. /\ profiles' \in Queues(Authors) /\ QueueInOrder(profiles', ProfileBudget)
      /\ profiles.open \subseteq profiles'.open
      /\ Awake /\ IsConnected /\ Served(profiles, ProfileBudget) => Served(profiles', ProfileBudget)
  <2>1. CASE found
    <3>1. profiles' = Ask(profiles, QuotedBy[k], ProfileBudget) BY <1>1, <2>1
    <3>2. QED BY <1>2, <3>1, AskInOrder
  <2>2. CASE ~found
    BY <1>1, <1>2, <2>2
  <2>3. QED BY <2>1, <2>2
<1>7. /\ refresh' \in RefreshType /\ refresh'.reading = refresh.reading /\ refresh'.pending = refresh.pending
      /\ refresh'.poll = refresh.poll /\ (refresh.debounce => refresh'.debounce)
  BY <1>1, <1>2 DEF ScheduleRefresh, RefreshType
<1>8. LookupsOK'
  BY <1>1, <1>5, <1>6, <1>7 DEF IInv, LookupsOK, QueuesInOrder, QueueInOrder
<1>9. UNCHANGED <<events, held, host>> BY DEF watchVars, bootVars
<1>10. VerdictsNeedHost'
  BY <1>1, <1>7, <1>9 DEF IInv, VerdictsNeedHost
<1>11. /\ ConnOK' /\ status' = status
       /\ ~HasClient => subs' \subseteq subs
       /\ \A s \in subs' :
            \/ s \in subs /\ s.kind \notin {"profile", "embed"}
            \/ \E x \in profiles'.open : s = Sub("profile", x)
            \/ \E x \in embeds'.open : s = Sub("embed", x)
  BY <1>1, <1>3, <1>5, <1>6, RouteForCards DEF Opened
<1>12. NothingIsForgotten'
  BY <1>1, <1>3, <1>5, <1>6, <1>7, <1>9, <1>11, CardsRemembered, CardsForget
<1>13. ~suspended BY <1>1, LookupTypes
<1>14. QED BY <1>1, <1>8, <1>10, <1>11, <1>12, <1>13, LookupFrame

(* The EOSE of a profile lookup, whose subscription says that it is in     *)
(* flight.                                                                 *)
LEMMA ProfileEoseKeeps ==
  ASSUME IInv, UNCHANGED <<watchVars, bootVars>>, NEW a \in Authors, ProfileEose(a)
  PROVE  IInv'
<1>1. /\ Eose(Sub("profile", a)) /\ closing' = closing \cup {a}
      /\ UNCHANGED <<stopped, suspended, profiles, embeds, loading, refresh>>
  BY DEF ProfileEose
<1>2. Sub("profile", a) \in subs /\ UNCHANGED <<status, subs>>
  BY <1>1 DEF Eose
<1>3. a \in profiles.open
  BY <1>2 DEF IInv, SubsOwned, Owner, Sub, Level
<1>4. LookupsOK'
  BY <1>1, <1>3 DEF IInv, LookupsOK, QueuesInOrder, QueueInOrder
<1>5. UNCHANGED <<events, held, host>> BY DEF watchVars, bootVars
<1>6. VerdictsNeedHost' BY <1>1, <1>5, Frames
<1>7. NothingIsForgotten' BY <1>1, <1>2, <1>5, CardsRemembered, CardsForget
<1>8. ConnOK' BY <1>1, ConnKept DEF IInv
<1>9. \A s \in subs' :
        \/ s \in subs /\ s.kind \notin {"profile", "embed"}
        \/ \E x \in profiles'.open : s = Sub("profile", x)
        \/ \E x \in embeds'.open : s = Sub("embed", x)
  BY <1>1, <1>2 DEF IInv, SubsOwned, Owner, Sub, Level
<1>10. suspended => profiles'.open = {} /\ embeds'.open = {} BY <1>1, LookupTypes
<1>11. QED BY <1>1, <1>2, <1>4, <1>6, <1>7, <1>8, <1>9, <1>10, LookupFrame

(* The refresh and the verdicts it brings.                                 *)
LEMMA RefreshesKeep ==
  ASSUME IInv, UNCHANGED <<watchVars, bootVars>>, Refreshes
  PROVE  IInv'
<1>1. /\ UNCHANGED <<connVars, stopped, suspended, profiles, closing, embeds, loading>>
      /\ UNCHANGED <<events, held, host>>
  BY DEF Refreshes, RefreshStarts, RefreshEnds, watchVars, bootVars
<1>2. UNCHANGED <<status, subs>> BY <1>1 DEF connVars
<1>3. /\ refresh \in RefreshType /\ MaxRefreshes \in Nat
      /\ refresh.reading \in 0..MaxRefreshes
      /\ {refresh.debounce, refresh.poll, refresh.pending} \subseteq BOOLEAN
  BY LookupTypes, LookupAssumption DEF RefreshType
<1>4. /\ refresh' \in RefreshType
      /\ (refresh'.reading > 0 \/ refresh'.pending) /\ ~stopped => host
      /\ Awake /\ Shown /\ refresh'.pending => refresh'.debounce \/ refresh'.poll \/ refresh'.reading > 0
  <2>1. ASSUME NEW timer \in {"debounce", "poll"}, NEW shown, Shown => shown, RefreshStarts(timer, host /\ shown)
        PROVE  /\ refresh' \in RefreshType
               /\ (refresh'.reading > 0 \/ refresh'.pending) /\ ~stopped => host
               /\ Awake /\ Shown /\ refresh'.pending => refresh'.debounce \/ refresh'.poll \/ refresh'.reading > 0
    <3>1. CASE host /\ shown
      <4>1. /\ refresh.reading < MaxRefreshes
            /\ refresh' = [refresh EXCEPT ![timer] = FALSE, !.reading = @ + 1]
        BY <2>1, <3>1 DEF RefreshStarts
      <4>0. refresh.reading < MaxRefreshes BY <4>1
      <4>7. refresh.reading + 1 \in 0..MaxRefreshes BY <1>3, <4>0
      <4>2. refresh' \in RefreshType /\ refresh'.reading = refresh.reading + 1
        <5>1. CASE timer = "debounce"
          <6>1. refresh' = [refresh EXCEPT !.debounce = FALSE, !.reading = refresh.reading + 1]
            BY <4>1, <5>1
          <6>2. refresh' \in RefreshType BY <1>3, <4>7, <6>1 DEF RefreshType
          <6>3. refresh'.reading = refresh.reading + 1 BY <1>3, <6>1 DEF RefreshType
          <6>4. QED BY <6>2, <6>3
        <5>2. CASE timer = "poll"
          <6>1. refresh' = [refresh EXCEPT !.poll = FALSE, !.reading = refresh.reading + 1]
            BY <4>1, <5>2
          <6>2. refresh' \in RefreshType BY <1>3, <4>7, <6>1 DEF RefreshType
          <6>3. refresh'.reading = refresh.reading + 1 BY <1>3, <6>1 DEF RefreshType
          <6>4. QED BY <6>2, <6>3
        <5>3. QED BY <5>1, <5>2
      <4>3. QED BY <1>3, <3>1, <4>2
    <3>2. CASE ~(host /\ shown)
      <4>1. refresh' = [refresh EXCEPT ![timer] = FALSE]
        BY <2>1, <3>2 DEF RefreshStarts
      <4>2. refresh' \in RefreshType /\ refresh'.reading = refresh.reading /\ refresh'.pending = refresh.pending
        BY <1>3, <4>1 DEF RefreshType
      <4>3. (refresh.reading > 0 \/ refresh.pending) /\ ~stopped => host
        BY DEF IInv, VerdictsNeedHost
      <4>4. QED BY <2>1, <3>2, <4>2, <4>3 DEF Awake
    <3>3. QED BY <3>1, <3>2
  <2>2. ASSUME NEW pending \in BOOLEAN, RefreshEnds(pending)
        PROVE  /\ refresh' \in RefreshType
               /\ (refresh'.reading > 0 \/ refresh'.pending) /\ ~stopped => host
               /\ Awake /\ Shown /\ refresh'.pending => refresh'.debounce \/ refresh'.poll \/ refresh'.reading > 0
    <3>1. refresh.reading > 0 BY <2>2 DEF RefreshEnds
    <3>2. ~stopped => host BY <3>1 DEF IInv, VerdictsNeedHost
    <3>3. CASE stopped
      <4>1. refresh' = [refresh EXCEPT !.reading = @ - 1] BY <2>2, <3>3 DEF RefreshEnds
      <4>2. refresh' \in RefreshType BY <1>3, <3>1, <4>1 DEF RefreshType
      <4>3. QED BY <3>3, <4>2 DEF Awake
    <3>4. CASE ~stopped
      <4>1. refresh' = [refresh EXCEPT !.reading = @ - 1, !.pending = pending, !.poll = pending]
        BY <2>2, <3>4 DEF RefreshEnds, Repolls
      <4>0. refresh.reading - 1 \in 0..MaxRefreshes BY <1>3, <3>1
      <4>2. refresh' \in RefreshType
        BY <1>3, <4>0, <4>1, ZenonT(60) DEF RefreshType
      <4>3. refresh'.pending = pending /\ refresh'.poll = pending BY <4>1, <1>3 DEF RefreshType
      <4>4. QED BY <3>2, <3>4, <4>2, <4>3
    <3>5. QED BY <3>3, <3>4
  <2>3. QED BY <2>1, <2>2 DEF Refreshes
<1>5. LookupsOK'
  BY <1>1, <1>4 DEF IInv, LookupsOK, QueuesInOrder, QueueInOrder
<1>6. VerdictsNeedHost' BY <1>1, <1>4 DEF VerdictsNeedHost
<1>7. NothingIsForgotten' BY <1>1, <1>2, <1>4, CardsRemembered, CardsForget
<1>8. ConnOK' BY <1>1, ConnKept DEF IInv
<1>9. \A s \in subs' :
        \/ s \in subs /\ s.kind \notin {"profile", "embed"}
        \/ \E x \in profiles'.open : s = Sub("profile", x)
        \/ \E x \in embeds'.open : s = Sub("embed", x)
  BY <1>1, <1>2 DEF IInv, SubsOwned, Owner, Sub, Level
<1>10. suspended => profiles'.open = {} /\ embeds'.open = {} BY <1>1, LookupTypes
<1>11. QED BY <1>1, <1>2, <1>5, <1>6, <1>7, <1>8, <1>9, <1>10, LookupFrame

(* Whatever a card asks or a lookup answers.                               *)
LEMMA CardsKeep ==
  ASSUME IInv, UNCHANGED <<watchVars, bootVars>>, Cards \/ Lookups \/ Refreshes
  PROVE  IInv'
<1>1. CASE Cards
  BY <1>1, RequestProfileKeeps, RequestEmbedKeeps DEF Cards
<1>2. CASE Lookups
  <2>1. ASSUME NEW a \in Authors, ProfileCloses(a) \/ ProfileWatchdog(a) \/ ProfileClosed(a) PROVE IInv'
    <3>1. FinishProfileRequest(a) BY <2>1 DEF ProfileCloses, ProfileWatchdog, ProfileClosed
    <3>2. QED BY <3>1, FinishProfileKeeps
  <2>2. QED BY <1>2, <2>1, ProfileEoseKeeps, EmbedSettlesKeeps DEF Lookups
<1>3. CASE Refreshes
  BY <1>3, RefreshesKeep
<1>4. QED BY <1>1, <1>2, <1>3

-----------------------------------------------------------------------------
(* What the relay sends.                                                   *)
LEMMA RelayFrame ==
  ASSUME IInv, UNCHANGED <<stopped, suspended, profiles, closing, embeds, loading, reactions, threads>>,
         UNCHANGED <<boot, host, current, follows, misses, named>>, banner' \in BOOLEAN,
         ConnOK', WatchesTyped', subs' \subseteq subs,
         IsConnected' => IsConnected,
         refresh' = refresh \/ refresh' = ScheduleRefresh(refresh),
         Shown' => Shown \/ refresh' = ScheduleRefresh(refresh),
         \A p \in threads.open : watch'[p].opened = watch[p].opened,
         boot.phase = "idle" => status' = status /\ held' = held,
         \A h \in held' : h \in held \/ h[1] = named.of
  PROVE  IInv'
<1>1. /\ refresh \in RefreshType /\ refresh' \in RefreshType
      /\ refresh'.reading = refresh.reading /\ refresh'.pending = refresh.pending /\ refresh'.poll = refresh.poll
      /\ refresh.debounce => refresh'.debounce
      /\ refresh' = ScheduleRefresh(refresh) => refresh'.debounce
  BY LookupTypes DEF ScheduleRefresh, RefreshType
<1>2. LookupsOK'
  BY <1>1 DEF IInv, LookupsOK, QueuesInOrder, QueueInOrder
<1>3. BootTyped' /\ BootIsNamed'
  BY DEF IInv, BootTyped, NamedType, BootIsNamed
<1>4. SubsOwned'
  BY DEF IInv, SubsOwned, Owner
<1>5. IdleIsBlank' /\ PausedIsEmpty'
  BY DEF IInv, IdleIsBlank, PausedIsEmpty
<1>6. VerdictsNeedHost'
  BY <1>1 DEF IInv, VerdictsNeedHost
<1>7. WatchesNamed'
  BY DEF IInv, WatchesNamed, Wanted
<1>8. LevelsCounted'
  <2>1. LevelsCounted BY DEF IInv
  <2>2. threads'.open \subseteq threads.open /\ \A p \in threads'.open : watch'[p].opened = watch[p].opened
    OBVIOUS
  <2>3. QED BY <2>1, <2>2, LevelsShrink
<1>9. NothingIsForgotten'
  <2>1. Awake' = Awake BY DEF Awake
  <2>2. ASSUME Awake, Shown', refresh'.pending PROVE refresh'.debounce \/ refresh'.poll \/ refresh'.reading > 0
    BY <1>1, <2>2, CardsRemembered
  <2>3. ASSUME Awake, IsConnected' PROVE Served(profiles, ProfileBudget) /\ Served(embeds, EmbedBudget)
    BY <2>3, CardsRemembered
  <2>4. ASSUME Awake PROVE loading \subseteq embeds.open \cup ToSet(embeds.pending)
    BY <2>4, CardsRemembered
  <2>5. QED BY <2>1, <2>2, <2>3, <2>4 DEF NothingIsForgotten, Served
<1>10. QED BY <1>2, <1>3, <1>4, <1>5, <1>6, <1>7, <1>8, <1>9 DEF IInv

(* What the invariant says of the watches' variables.                      *)
LEMMA WatchTypes ==
  ASSUME IInv
  PROVE  /\ reactions.requested \subseteq Posts /\ reactions.pending \subseteq Posts /\ reactions.open \subseteq Posts
         /\ threads.requested \subseteq Posts /\ threads.pending \subseteq Posts /\ threads.open \subseteq Posts
         /\ reactions \in PostQueues /\ threads \in PostQueues
         /\ watch \in [Posts -> WatchType]
         /\ \A p \in Posts : watch[p].opened \in Nat /\ watch[p].asked \subseteq Replies
                             /\ watch[p].frontier \subseteq Replies /\ watch[p].advance \in BOOLEAN
         /\ held \subseteq Posts \X (Replies \cup Reactions) /\ events \subseteq Posts
         /\ reactions.open \subseteq {named.of} /\ threads.open \subseteq {named.of}
<1>1. /\ reactions \in PostQueues /\ threads \in PostQueues /\ watch \in [Posts -> WatchType]
      /\ held \subseteq Posts \X (Replies \cup Reactions) /\ events \subseteq Posts
  BY DEF IInv, WatchesTyped
<1>2. \A p \in Posts : watch[p] \in WatchType BY <1>1
<1>3. \A p \in Posts : watch[p].opened \in Nat /\ watch[p].asked \subseteq Replies
                       /\ watch[p].frontier \subseteq Replies /\ watch[p].advance \in BOOLEAN
  BY <1>2 DEF WatchType
<1>4. reactions.open \subseteq {named.of} /\ threads.open \subseteq {named.of}
  BY DEF IInv, WatchesNamed, Wanted
<1>5. QED BY <1>1, <1>3, <1>4 DEF PostQueues

(* insertEvent() leaves every other post's events alone.                   *)
LEMMA InsertTyped ==
  ASSUME held \subseteq Posts \X (Replies \cup Reactions), NEW p \in Posts,
         NEW kind \in {Replies, Reactions}, NEW e \in kind, NEW cap, Insert(p, e, kind, cap)
  PROVE  /\ held' \subseteq Posts \X (Replies \cup Reactions)
         /\ \A h \in held' : h \in held \/ (h[1] = p /\ h[2] \in kind)
<1> DEFINE before == HeldFor(p) \cap kind
           kept == Youngest(before \cup {e}, cap)
<1>1. held' = (held \ {<<p, x>> : x \in before}) \cup {<<p, x>> : x \in kept}
  BY DEF Insert
<1>2. kept \subseteq before \cup {e}
  BY DEF Youngest
<1>3. kept \subseteq kind
  BY <1>2
<1> HIDE DEF kept, before
<1>4. QED BY <1>1, <1>3

(* A subscription's kind tells who its owner is.                           *)
LEMMA OwnerByKind ==
  ASSUME NEW s, Owner(s)
  PROVE  /\ s.kind \in {"timeline", "follows", "profile", "embed", "reactions", "replies"}
         /\ s.kind = "timeline" => s = Sub("timeline", current) /\ current \in Posts
         /\ s.kind = "follows" => s = Sub("follows", boot.of) /\ boot.phase = "resolving"
         /\ s.kind = "profile" => \E a \in profiles.open : s = Sub("profile", a)
         /\ s.kind = "embed" => \E k \in embeds.open : s = Sub("embed", k)
         /\ s.kind = "reactions" => s.of \in reactions.open /\ s = Sub("reactions", s.of)
         /\ s.kind = "replies" => s.of \in threads.open /\ \E ids \in SUBSET Replies : s = Level(s.of, ids)
<1>1. CASE s = Sub("timeline", current) /\ current \in Posts
  BY <1>1 DEF Sub
<1>2. CASE s = Sub("follows", boot.of) /\ boot.phase = "resolving"
  BY <1>2 DEF Sub
<1>3. CASE \E a \in profiles.open : s = Sub("profile", a)
  <2>1. s.kind = "profile" BY <1>3 DEF Sub
  <2>2. QED BY <1>3, <2>1
<1>4. CASE \E k \in embeds.open : s = Sub("embed", k)
  <2>1. s.kind = "embed" BY <1>4 DEF Sub
  <2>2. QED BY <1>4, <2>1
<1>5. CASE \E p \in reactions.open : s = Sub("reactions", p)
  <2>1. PICK p \in reactions.open : s = Sub("reactions", p) BY <1>5
  <2>2. s.kind = "reactions" /\ s.of = p BY <2>1 DEF Sub
  <2>3. QED BY <2>1, <2>2
<1>6. CASE \E p \in threads.open, ids \in SUBSET Replies : s = Level(p, ids)
  <2>1. PICK p \in threads.open, ids \in SUBSET Replies : s = Level(p, ids) BY <1>6
  <2>2. s.kind = "replies" /\ s.of = p BY <2>1 DEF Level
  <2>3. QED BY <2>1, <2>2
<1>7. QED BY <1>1, <1>2, <1>3, <1>4, <1>5, <1>6 DEF Owner

(* A post of the timeline: the relay sends a subscription only what it     *)
(* wants.                                                                  *)
LEMMA TimelineEventKeeps ==
  ASSUME IInv, NEW d, TimelineEvent(d)
  PROVE  IInv'
<1>1. /\ Delivers(d) /\ d.to.kind = "timeline" /\ events' = events \cup {d.event}
      /\ refresh' = ScheduleRefresh(refresh)
      /\ UNCHANGED <<stopped, suspended, profiles, closing, embeds, loading, held, reactions, threads, watch, cut>>
      /\ UNCHANGED <<boot, host, current, banner, follows, misses, named>>
  BY DEF TimelineEvent, bootVars
<1>2. d \in inbox /\ UNCHANGED <<status, subs>>
  BY <1>1 DEF Delivers
<1>3. ConnOK' BY <1>1, ConnKept DEF IInv
<1>4. d.to \in subs /\ d.event \in Earlier \cup Late /\ Wants(d.to, d.event)
  BY <1>2 DEF IInv, ConnOK, InboxOwned
<1>5. d.to = Sub("timeline", current) /\ current \in Posts
  <2>1. Owner(d.to) BY <1>4 DEF IInv, SubsOwned
  <2>2. QED BY <1>1, <2>1, OwnerByKind
<1>6. RelayWants(d.to, d.event)
  <2>1. {} \in SUBSET Replies OBVIOUS
  <2>2. QED BY <1>4, <1>5, <2>1, RelayAssumption
<1>7. d.event \in Posts
  BY <1>5, <1>6 DEF RelayWants, Sub
<1>8. WatchesTyped'
  BY <1>1, <1>7 DEF IInv, WatchesTyped
<1>9. banner' \in BOOLEAN /\ (IsConnected' => IsConnected)
  BY <1>1, <1>2 DEF IInv, BootTyped, IsConnected
<1>10. QED BY <1>1, <1>2, <1>3, <1>8, <1>9, RelayFrame

(* ingestReaction() and ingestReply(): a delivery belongs to the post      *)
(* whose watch is open.                                                    *)
LEMMA PostEventKeeps ==
  ASSUME IInv, NEW d, PostEvent(d)
  PROVE  IInv'
<1>1. /\ Delivers(d)
      /\ UNCHANGED <<stopped, suspended, profiles, closing, embeds, loading, events, reactions>>
      /\ UNCHANGED <<boot, host, current, banner, follows, misses, named>>
  BY DEF PostEvent, bootVars
<1>2. d \in inbox /\ UNCHANGED <<status, subs>>
  BY <1>1 DEF Delivers
<1>3. ConnOK' BY <1>1, ConnKept DEF IInv
<1>4. d.to \in subs /\ d.event \in Earlier \cup Late /\ Wants(d.to, d.event)
  BY <1>2 DEF IInv, ConnOK, InboxOwned
<1>5. Owner(d.to) BY <1>4 DEF IInv, SubsOwned
<1>6. banner' \in BOOLEAN /\ (IsConnected' => IsConnected)
  BY <1>1, <1>2 DEF IInv, BootTyped, IsConnected
<1>7. boot.phase # "idle" BY <1>4 DEF IInv, IdleIsBlank
<1>8. /\ held \subseteq Posts \X (Replies \cup Reactions)
      /\ reactions.open \subseteq Posts /\ threads.open \subseteq Posts
      /\ reactions.open \subseteq {named.of} /\ threads.open \subseteq {named.of}
      /\ watch \in [Posts -> WatchType]
      /\ \A p \in Posts : watch[p].opened \in Nat /\ watch[p].asked \subseteq Replies
                          /\ watch[p].frontier \subseteq Replies /\ watch[p].advance \in BOOLEAN
  BY WatchTypes
<1>9. CASE d.to.kind = "reactions"
  <2> DEFINE p == d.to.of
             x == d.event
  <2>1. IngestReaction(p, x) BY <1>9 DEF PostEvent
  <2>2. p \in reactions.open /\ d.to = Sub("reactions", p)
    BY <1>5, <1>9, OwnerByKind
  <2>3. p \in Posts /\ p = named.of BY <1>8, <2>2
  <2>4. RelayWants(d.to, x)
    <3>1. {} \in SUBSET Replies OBVIOUS
    <3>2. QED BY <1>4, <2>2, <2>3, <3>1, RelayAssumption
  <2>5. x \in Reactions BY <2>2, <2>4 DEF RelayWants, Sub
  <2>6. UNCHANGED <<threads, watch, refresh, cut>> BY <2>1 DEF IngestReaction
  <2>7. Insert(p, x, Reactions, MaxReactions) \/ UNCHANGED held BY <2>1 DEF IngestReaction
  <2> HIDE DEF p, x
  <2>8. /\ held' \subseteq Posts \X (Replies \cup Reactions)
        /\ \A h \in held' : h \in held \/ (h[1] = named.of /\ h[2] \in Reactions)
    <3>1. CASE Insert(p, x, Reactions, MaxReactions)
      <4>1. Reactions \in {Replies, Reactions} OBVIOUS
      <4>2. QED BY <1>8, <2>3, <2>5, <3>1, <4>1, InsertTyped
    <3>2. CASE UNCHANGED held
      BY <1>8, <3>2
    <3>3. QED BY <2>7, <3>1, <3>2
  <2>9. Shown' => Shown
    BY <1>1, <2>8, ThreadAssumption DEF Shown
  <2>10. WatchesTyped'
    BY <1>1, <2>6, <2>8 DEF IInv, WatchesTyped
  <2>11. QED BY <1>1, <1>2, <1>3, <1>6, <1>7, <2>6, <2>8, <2>9, <2>10, RelayFrame
<1>10. CASE d.to.kind = "replies"
  <2> DEFINE p == d.to.of
             r == d.event
  <2>1. IngestReply(p, r) BY <1>10 DEF PostEvent
  <2>2. PICK ids \in SUBSET Replies : p \in threads.open /\ d.to = Level(p, ids)
    BY <1>5, <1>10, OwnerByKind
  <2>3. p \in Posts /\ p = named.of BY <1>8, <2>2
  <2>4. RelayWants(d.to, r)
    BY <1>4, <2>2, <2>3, RelayAssumption
  <2>5. r \in Replies BY <2>2, <2>4 DEF RelayWants, Level
  <2>6. /\ threads' = threads
        /\ \/ /\ Insert(p, r, Replies, MaxReplies)
              /\ watch' = [watch EXCEPT ![p].frontier = @ \cup {r}]
              /\ refresh' = ScheduleRefresh(refresh)
           \/ UNCHANGED <<held, watch, refresh>>
        /\ cut' \in BOOLEAN
    <3>1. cut \in BOOLEAN BY DEF IInv, WatchesTyped
    <3>2. QED BY <2>1, <3>1 DEF IngestReply
  <2> HIDE DEF p, r
  <2>7. /\ held' \subseteq Posts \X (Replies \cup Reactions)
        /\ \A h \in held' : h \in held \/ h[1] = named.of
        /\ watch' \in [Posts -> WatchType]
        /\ \A q \in threads.open : watch'[q].opened = watch[q].opened
        /\ refresh' = refresh \/ refresh' = ScheduleRefresh(refresh)
        /\ held' = held \/ refresh' = ScheduleRefresh(refresh)
    <3>1. CASE UNCHANGED <<held, watch, refresh>>
      BY <1>8, <3>1
    <3>2. CASE /\ Insert(p, r, Replies, MaxReplies)
               /\ watch' = [watch EXCEPT ![p].frontier = @ \cup {r}]
               /\ refresh' = ScheduleRefresh(refresh)
      <4>1. Replies \in {Replies, Reactions} OBVIOUS
      <4>2. /\ held' \subseteq Posts \X (Replies \cup Reactions)
            /\ \A h \in held' : h \in held \/ h[1] = named.of
        BY <1>8, <2>3, <2>5, <3>2, <4>1, InsertTyped
      <4>3. [watch[p] EXCEPT !.frontier = @ \cup {r}] \in WatchType
            /\ [watch[p] EXCEPT !.frontier = @ \cup {r}].opened = watch[p].opened
        <5>1. watch[p] \in WatchType BY <1>8, <2>3
        <5>2. QED BY <2>5, <5>1 DEF WatchType
      <4>4. watch' = [watch EXCEPT ![p] = [watch[p] EXCEPT !.frontier = @ \cup {r}]]
        BY <3>2
      <4>5. watch' \in [Posts -> WatchType] /\ \A q \in Posts : watch'[q].opened = watch[q].opened
        BY <1>8, <2>3, <4>3, <4>4
      <4>6. QED BY <1>8, <3>2, <4>2, <4>5
    <3>3. QED BY <2>6, <3>1, <3>2
  <2>8. Shown' => Shown \/ refresh' = ScheduleRefresh(refresh)
    BY <1>1, <2>7 DEF Shown
  <2>9. WatchesTyped'
    BY <1>1, <2>6, <2>7 DEF IInv, WatchesTyped
  <2>10. QED BY <1>1, <1>2, <1>3, <1>6, <1>7, <2>6, <2>7, <2>8, <2>9, RelayFrame
<1>11. QED BY <1>9, <1>10 DEF PostEvent

(* EOSEs, a lost socket, an event nobody waits for: no state of the widget *)
(* changes but its refresh timer.                                          *)
LEMMA QuietKeeps ==
  ASSUME IInv, UNCHANGED <<watchVars, bootVars>>,
         UNCHANGED <<stopped, suspended, profiles, closing, embeds, loading>>,
         refresh' = refresh \/ refresh' = ScheduleRefresh(refresh),
         \/ \E s : Eose(s)
         \/ SocketDrops
         \/ \E e \in Late : Arrives(e)
  PROVE  IInv'
<1>1. ConnOK' BY ConnKept DEF IInv
<1>2. /\ subs' = subs /\ (IsConnected' => IsConnected)
      /\ boot.phase = "idle" => status' = status
  BY DEF Eose, SocketDrops, Arrives, IsConnected, IInv, IdleIsBlank
<1>3. WatchesTyped' /\ banner' \in BOOLEAN
  BY Frames DEF IInv, BootTyped, bootVars
<1>4. UNCHANGED <<events, held, reactions, threads, watch, cut, boot, host, current, follows, misses, named>>
  BY DEF watchVars, bootVars
<1>5. Shown' => Shown BY <1>4 DEF Shown
<1>6. QED BY <1>1, <1>2, <1>3, <1>4, <1>5, RelayFrame

(* Routing nothing new.                                                    *)
LEMMA ClosedOnly ==
  ASSUME IInv, NEW s, Closed(s, {})
  PROVE  ConnOK' /\ subs' = subs \ {s} /\ status' = status /\ s \in subs
<1>1. Route({s}, {}) /\ s \in subs BY DEF Closed
<1>2. QED BY <1>1, RouteKeepsConn DEF IInv

(* Whatever the relay sends on the subscriptions of the timeline and the   *)
(* post.                                                                   *)
LEMMA RelayKeeps ==
  ASSUME IInv, Relay
  PROVE  IInv'
<1>1. ASSUME NEW d \in inbox, TimelineEvent(d) \/ PostEvent(d) PROVE IInv'
  BY <1>1, TimelineEventKeeps, PostEventKeeps
<1>2. CASE TimelineEose
  BY <1>2, QuietKeeps DEF TimelineEose
<1>3. CASE TimelineClosed
  <2>1. /\ Closed(Sub("timeline", current), {}) /\ banner' = TRUE
        /\ UNCHANGED <<lookupVars, watchVars, boot, host, current, follows, misses, named>>
    BY <1>3 DEF TimelineClosed
  <2>2. ConnOK' /\ subs' \subseteq subs /\ status' = status /\ (IsConnected' => IsConnected)
    BY <2>1, ClosedOnly DEF IsConnected
  <2>3. /\ UNCHANGED <<stopped, suspended, profiles, closing, embeds, loading, refresh>>
        /\ UNCHANGED <<events, held, reactions, threads, watch>>
    BY <2>1 DEF lookupVars, watchVars
  <2>4. WatchesTyped' /\ (Shown' => Shown) BY <2>1, <2>3, Frames DEF Shown
  <2>5. QED BY <2>1, <2>2, <2>3, <2>4, RelayFrame
<1>4. ASSUME NEW s \in subs, QuietEose(s) PROVE IInv'
  BY <1>4, QuietKeeps DEF QuietEose, lookupVars
<1>5. CASE SocketDrops /\ UNCHANGED <<lookupVars, watchVars, bootVars>>
  BY <1>5, QuietKeeps DEF lookupVars
<1>6. QED BY <1>1, <1>2, <1>3, <1>4, <1>5 DEF Relay

(* An event reaches the relay.                                             *)
LEMMA ArrivesKeeps ==
  ASSUME IInv, NEW e \in Late, Arrives(e), UNCHANGED <<lookupVars, watchVars, bootVars>>
  PROVE  IInv'
BY QuietKeeps DEF lookupVars

-----------------------------------------------------------------------------
(* The levels of a thread.                                                 *)
LEMMA LevelAnswersKeep ==
  ASSUME IInv, UNCHANGED <<lookupVars, bootVars>>, NEW s, LevelEose(s) \/ LevelClosed(s)
  PROVE  IInv'
<1>1. /\ UNCHANGED <<events, held, reactions, threads>> /\ s.kind = "replies"
      /\ UNCHANGED <<stopped, suspended, profiles, closing, embeds, loading, refresh>>
      /\ UNCHANGED <<boot, host, current, banner, follows, misses, named>>
  BY DEF LevelEose, LevelClosed, lookupVars, bootVars
<1>2. ConnOK' /\ subs' \subseteq subs /\ status' = status /\ s \in subs
  BY ClosedOnly, ConnKept DEF LevelEose, LevelClosed, Eose, IInv
<1>3. (IsConnected' => IsConnected) /\ (Shown' => Shown) /\ banner' \in BOOLEAN
  BY <1>1, <1>2 DEF IInv, BootTyped, IsConnected, Shown
<1>4. watch' \in [Posts -> WatchType] /\ \A p \in Posts : watch'[p].opened = watch[p].opened
  <2>0. watch \in [Posts -> WatchType] /\ threads.open \subseteq Posts BY WatchTypes
  <2>1. s.of \in Posts
    <3>1. Owner(s) BY <1>2 DEF IInv, SubsOwned
    <3>2. QED BY <1>1, <2>0, <3>1, OwnerByKind
  <2>2. CASE LevelEose(s)
    <3>1. watch' = [watch EXCEPT ![s.of] = [watch[s.of] EXCEPT !.advance = TRUE]] BY <2>2 DEF LevelEose
    <3>2. watch[s.of] \in WatchType BY <2>0, <2>1
    <3>3. /\ [watch[s.of] EXCEPT !.advance = TRUE] \in WatchType
          /\ [watch[s.of] EXCEPT !.advance = TRUE].opened = watch[s.of].opened
      BY <3>2 DEF WatchType
    <3>4. QED BY <2>0, <2>1, <3>1, <3>3
  <2>3. CASE LevelClosed(s)
    BY <2>0, <2>3 DEF LevelClosed
  <2>4. QED BY <2>2, <2>3
<1>5. cut' \in BOOLEAN BY DEF LevelEose, LevelClosed, IInv, WatchesTyped
<1>6. WatchesTyped'
  BY <1>1, <1>4, <1>5 DEF IInv, WatchesTyped
<1>7. \A p \in threads.open : watch'[p].opened = watch[p].opened
  BY <1>4, WatchTypes
<1>8. QED BY <1>1, <1>2, <1>3, <1>6, <1>7, RelayFrame

(* advanceReplyLevel(): a level more is a subscription more, up to         *)
(* MaxDepth.                                                               *)
LEMMA AdvanceKeeps ==
  ASSUME IInv, UNCHANGED <<lookupVars, bootVars>>, NEW p \in Posts, AdvanceReplyLevel(p)
  PROVE  IInv'
<1> DEFINE w == watch[p]
           rest == [w EXCEPT !.frontier = {}, !.advance = FALSE]
           down(ids) == [rest EXCEPT !.asked = @ \cup ids, !.opened = @ + 1,
                           !.early = @ \/ ~(LevelSubs(p) \subseteq answered)]
<1>0. p \in threads.open /\ UNCHANGED <<events, held, reactions, threads>>
  BY DEF AdvanceReplyLevel
<1>1. /\ watch \in [Posts -> WatchType] /\ w \in WatchType
      /\ w.opened \in Nat /\ w.asked \subseteq Replies /\ w.frontier \subseteq Replies
      /\ cut \in BOOLEAN
  BY WatchTypes DEF IInv, WatchesTyped
<1>2. rest \in WatchType /\ rest.opened = w.opened /\ rest.asked = w.asked
  <2>1. rest \in WatchType BY <1>1 DEF WatchType
  <2>2. rest.opened = w.opened /\ rest.asked = w.asked BY <1>1 DEF WatchType
  <2>3. QED BY <2>1, <2>2
<1>3. ASSUME NEW ids \in SUBSET Replies
      PROVE  down(ids) \in WatchType /\ down(ids).opened = w.opened + 1
  <2> HIDE DEF rest, w
  <2>0. w.opened + 1 \in Nat /\ rest.asked \cup ids \subseteq Replies BY <1>1, <1>2
  <2>1. down(ids) \in WatchType BY <1>2, <2>0 DEF WatchType
  <2>2. down(ids).opened = w.opened + 1 BY <1>2 DEF WatchType
  <2>3. QED BY <2>1, <2>2
<1>4. \/ watch' = [watch EXCEPT ![p] = rest] /\ UNCHANGED connVars /\ cut' \in BOOLEAN
      \/ \E ids \in SUBSET Replies :
           /\ w.opened < MaxDepth /\ cut' \in BOOLEAN
           /\ watch' = [watch EXCEPT ![p] = down(ids)]
           /\ Route({}, {Level(p, ids)})
  <2>1. CASE ~Awake \/ ~MayOpenLevel(w)
    BY <1>1, <2>1 DEF AdvanceReplyLevel
  <2>2. CASE ~(~Awake \/ ~MayOpenLevel(w))
    <3>1. PICK ids \in Asks(w) :
            /\ cut' = (cut \/ (w.frontier \ w.asked) # ids)
            /\ IF ids = {}
                 THEN watch' = [watch EXCEPT ![p] = rest] /\ UNCHANGED connVars
                 ELSE watch' = [watch EXCEPT ![p] = down(ids)] /\ Route({}, {Level(p, ids)})
      BY <2>2 DEF AdvanceReplyLevel
    <3>2. w.opened < MaxDepth BY <2>2 DEF MayOpenLevel
    <3>3. ids \subseteq Replies
      <4> HIDE DEF w
      <4>1. ids \subseteq w.frontier \ w.asked BY <3>1 DEF Asks
      <4>2. QED BY <1>1, <4>1
    <3>4. cut' \in BOOLEAN BY <1>1, <3>1
    <3>5. QED BY <3>1, <3>2, <3>3, <3>4
  <2>3. QED BY <2>1, <2>2
<1> HIDE DEF w, rest, down
<1>5. /\ watch' \in [Posts -> WatchType] /\ cut' \in BOOLEAN
      /\ \A q \in Posts : q # p => watch'[q] = watch[q]
  BY <1>1, <1>2, <1>3, <1>4
<1>6. WatchesTyped'
  BY <1>0, <1>5 DEF IInv, WatchesTyped
<1>7. /\ ConnOK' /\ status' = status
      /\ \A s \in subs' : s \in subs \/ \E ids \in SUBSET Replies : s = Level(p, ids)
  <2>1. CASE UNCHANGED connVars
    BY <2>1, ConnKept DEF IInv, connVars
  <2>2. ASSUME NEW ids \in SUBSET Replies, Route({}, {Level(p, ids)})
        PROVE  /\ ConnOK' /\ status' = status
               /\ \A s \in subs' : s \in subs \/ s = Level(p, ids)
    BY <2>2, RouteKeepsConn DEF IInv
  <2>3. QED BY <1>4, <2>1, <2>2
<1>8. LevelsCounted'
  <2> SUFFICES ASSUME NEW q \in threads'.open
      PROVE /\ IsFiniteSet(LevelSubs(q)') /\ Cardinality(LevelSubs(q)') <= watch'[q].opened
            /\ watch'[q].opened \in 1..MaxDepth
    BY DEF LevelsCounted
  <2>1. /\ IsFiniteSet(LevelSubs(q)) /\ Cardinality(LevelSubs(q)) <= watch[q].opened
        /\ watch[q].opened \in 1..MaxDepth /\ q \in Posts /\ MaxDepth \in Nat
    BY <1>0, WatchTypes, WatchAssumption DEF IInv, LevelsCounted
  <2>2. CASE watch'[q].opened = watch[q].opened /\ LevelSubs(q)' \subseteq LevelSubs(q)
    <3>1. /\ IsFiniteSet(LevelSubs(q)') /\ Cardinality(LevelSubs(q)') <= Cardinality(LevelSubs(q))
          /\ Cardinality(LevelSubs(q)') \in Nat /\ Cardinality(LevelSubs(q)) \in Nat
      BY <2>1, <2>2, FS_Subset, FS_CardinalityType
    <3>2. QED BY <2>1, <2>2, <3>1
  <2>3. CASE q # p
    <3>1. LevelSubs(q)' \subseteq LevelSubs(q)
      <4>1. ASSUME NEW s \in subs', s.kind = "replies" /\ s.of = q PROVE s \in subs
        <5>1. \A ids \in SUBSET Replies : s # Level(p, ids) BY <2>3, <4>1 DEF Level
        <5>2. QED BY <1>7, <5>1
      <4>2. QED BY <4>1 DEF LevelSubs
    <3>2. QED BY <1>5, <2>1, <2>2, <2>3, <3>1
  <2>4. CASE q = p
    <3>1. CASE watch' = [watch EXCEPT ![p] = rest] /\ UNCHANGED connVars
      <4>1. watch'[q].opened = watch[q].opened BY <1>1, <1>2, <2>4, <3>1 DEF w
      <4>2. LevelSubs(q)' \subseteq LevelSubs(q) BY <3>1 DEF LevelSubs, connVars
      <4>3. QED BY <2>2, <4>1, <4>2
    <3>2. ASSUME NEW ids \in SUBSET Replies, w.opened < MaxDepth, watch' = [watch EXCEPT ![p] = down(ids)],
                 Route({}, {Level(p, ids)})
          PROVE  /\ IsFiniteSet(LevelSubs(q)') /\ Cardinality(LevelSubs(q)') <= watch'[q].opened
                 /\ watch'[q].opened \in 1..MaxDepth
      <4>1. watch'[q].opened = watch[q].opened + 1 BY <1>1, <1>3, <2>4, <3>2 DEF w
      <4>2. watch[q].opened < MaxDepth BY <2>4, <3>2 DEF w
      <4>3. LevelSubs(q)' \subseteq LevelSubs(q) \cup {Level(p, ids)}
        <5>1. \A s \in subs' : s \in subs \/ s = Level(p, ids)
          BY <3>2, RouteKeepsConn DEF IInv
        <5>2. QED BY <5>1 DEF LevelSubs
      <4>4. /\ IsFiniteSet(LevelSubs(q) \cup {Level(p, ids)})
            /\ Cardinality(LevelSubs(q) \cup {Level(p, ids)}) <= Cardinality(LevelSubs(q)) + 1
            /\ Cardinality(LevelSubs(q)) \in Nat
        <5>1. IsFiniteSet(LevelSubs(q)) BY <2>1
        <5>2. /\ IsFiniteSet(LevelSubs(q) \cup {Level(p, ids)})
              /\ Cardinality(LevelSubs(q) \cup {Level(p, ids)}) =
                   IF Level(p, ids) \in LevelSubs(q) THEN Cardinality(LevelSubs(q)) ELSE Cardinality(LevelSubs(q)) + 1
          BY <5>1, FS_AddElement
        <5>3. Cardinality(LevelSubs(q)) \in Nat BY <5>1, FS_CardinalityType
        <5>4. QED BY <5>2, <5>3
      <4>5. /\ IsFiniteSet(LevelSubs(q)')
            /\ Cardinality(LevelSubs(q)') <= Cardinality(LevelSubs(q) \cup {Level(p, ids)})
            /\ Cardinality(LevelSubs(q)') \in Nat /\ Cardinality(LevelSubs(q) \cup {Level(p, ids)}) \in Nat
        BY <4>3, <4>4, FS_Subset, FS_CardinalityType
      <4>6. QED BY <2>1, <4>1, <4>2, <4>4, <4>5
    <3>3. QED BY <1>4, <3>1, <3>2
  <2>5. QED BY <2>3, <2>4
<1>9. ~suspended /\ boot.phase # "idle"
  BY <1>0 DEF IInv, PausedIsEmpty, IdleIsBlank, NoPosts
<1>10. reactions' = reactions /\ held' = held /\ events' = events /\ threads' = threads
  BY <1>0
<1>11. \A s \in subs' :
         \/ s \in subs /\ (s.kind = "reactions" => s.of \in reactions'.open \/ s.of \notin reactions.open)
         \/ \E q \in threads.open, ids \in SUBSET Replies : s = Level(q, ids)
  BY <1>0, <1>7, <1>10
<1>12. QED BY <1>6, <1>7, <1>8, <1>9, <1>10, <1>11, WatchFrame

(* A CLOSED of the reactions lets them be asked for again.                 *)
LEMMA ReactionsClosedKeeps ==
  ASSUME IInv, UNCHANGED <<lookupVars, bootVars>>, NEW p \in Posts, ReactionsClosed(p)
  PROVE  IInv'
<1>1. /\ Closed(Sub("reactions", p), {}) /\ reactions' = Released(reactions, p)
      /\ UNCHANGED <<events, held, threads, watch, cut>>
  BY DEF ReactionsClosed
<1>2. ConnOK' /\ subs' = subs \ {Sub("reactions", p)} /\ status' = status /\ subs # {}
  BY <1>1, ClosedOnly
<1>3. /\ reactions.requested \subseteq Posts /\ reactions.pending \subseteq Posts /\ reactions.open \subseteq Posts
      /\ reactions \in PostQueues
  BY WatchTypes
<1>4. reactions' \in PostQueues
  BY <1>1, <1>3 DEF Released, PostQueues
<1>5. /\ reactions'.open = reactions.open \ {p} /\ reactions'.requested = reactions.requested \ {p}
      /\ reactions'.pending = reactions.pending
  BY <1>1, <1>3 DEF Released, PostQueues
<1>6. WatchesTyped'
  BY <1>1, <1>4 DEF IInv, WatchesTyped
<1>7. LevelsCounted'
  <2>1. LevelsCounted /\ threads' = threads /\ watch' = watch BY <1>1 DEF IInv
  <2>2. QED BY <1>2, <2>1, LevelsShrink
<1>8. ~suspended /\ boot.phase # "idle"
  BY <1>2 DEF IInv, PausedIsEmpty, IdleIsBlank
<1>9. \A s \in subs' : s \in subs /\ (s.kind = "reactions" => s.of \in reactions'.open \/ s.of \notin reactions.open)
  <2> SUFFICES ASSUME NEW s \in subs', s.kind = "reactions" PROVE s.of \in reactions'.open
    BY <1>2
  <2>1. s \in subs /\ s # Sub("reactions", p) BY <1>2
  <2>2. Owner(s) BY <2>1 DEF IInv, SubsOwned
  <2>3. s.of \in reactions.open /\ s = Sub("reactions", s.of) BY <2>2, OwnerByKind
  <2>4. QED BY <1>5, <2>1, <2>3
<1>10. QED BY <1>1, <1>2, <1>5, <1>6, <1>7, <1>8, <1>9, WatchFrame

(* Every step of the post's watches.                                       *)
LEMMA WatchesKeep ==
  ASSUME IInv, UNCHANGED <<lookupVars, bootVars>>, Watches
  PROVE  IInv'
BY LevelAnswersKeep, AdvanceKeeps, ReactionsClosedKeeps DEF Watches

-----------------------------------------------------------------------------
(* Booting.                                                                *)

(* What a step that moves boot alone among these leaves in place.          *)
LEMMA BootFrame ==
  ASSUME IInv, UNCHANGED <<lookupVars, watchVars, current, named>>, ConnOK', BootTyped', BootIsNamed', VerdictsNeedHost',
         subs' \subseteq subs, boot.phase = "resolving" => boot'.phase = "resolving" /\ boot'.of = boot.of,
         IsConnected' => IsConnected, boot'.phase # "idle",
         boot'.phase = "resolving" => boot.phase = "resolving"
  PROVE  IInv'
<1>1. LookupsOK' /\ WatchesTyped'
  BY Frames
<1>2. SubsOwned'
  BY DEF IInv, SubsOwned, Owner, lookupVars, watchVars
<1>3. IdleIsBlank' /\ PausedIsEmpty'
  BY DEF IInv, IdleIsBlank, PausedIsEmpty, lookupVars, watchVars
<1>4. WatchesNamed'
  BY Frames DEF watchVars
<1>5. LevelsCounted'
  <2>1. LevelsCounted /\ threads' = threads /\ watch' = watch BY DEF IInv, watchVars
  <2>2. QED BY <2>1, LevelsShrink
<1>6. NothingIsForgotten'
  BY DEF IInv, NothingIsForgotten, Awake, Shown, lookupVars, watchVars
<1>7. QED BY <1>1, <1>2, <1>3, <1>4, <1>5, <1>6 DEF IInv

(* A new phase leaves boot typed and named.                                *)
LEMMA PhaseTyped ==
  ASSUME IInv, NEW p \in Phases \ {"idle"}, Phase(p), boot.phase # "idle", named' = named
  PROVE  /\ boot' \in [phase : Phases, of : Posts \cup {None},
                       wants : SUBSET {"reactions", "replies"}, superseded : BOOLEAN]
         /\ NamedType' /\ BootIsNamed' /\ boot'.phase = p /\ boot'.of = boot.of
<1>1. /\ boot \in [phase : Phases, of : Posts \cup {None},
                   wants : SUBSET {"reactions", "replies"}, superseded : BOOLEAN]
      /\ NamedType /\ BootIsNamed
  BY DEF IInv, BootTyped
<1>2. boot' = [boot EXCEPT !.phase = p] BY DEF Phase
<1>3. /\ boot' \in [phase : Phases, of : Posts \cup {None},
                    wants : SUBSET {"reactions", "replies"}, superseded : BOOLEAN]
  BY <1>1, <1>2
<1>4. boot'.phase = p /\ boot'.of = boot.of /\ boot'.wants = boot.wants /\ boot'.superseded = boot.superseded
  BY <1>1, <1>2
<1>5. NamedType' BY <1>1, <1>4 DEF NamedType
<1>6. BootIsNamed' BY <1>1, <1>4 DEF BootIsNamed
<1>7. QED BY <1>3, <1>4, <1>5, <1>6

(* start(): nothing is open yet, so nothing belongs to another post.       *)
LEMMA StartKeeps ==
  ASSUME IInv, NEW p \in Posts, NEW wants \in SUBSET {"reactions", "replies"}, Start(p, wants)
  PROVE  IInv'
<1>1. /\ boot.phase = "idle"
      /\ boot' = [phase |-> "acquiring", of |-> p, wants |-> wants, superseded |-> FALSE]
      /\ named' = [of |-> p, wants |-> wants]
      /\ UNCHANGED <<connVars, lookupVars, watchVars, host, current, banner, follows, misses, hops>>
  BY DEF Start
<1>2. subs = {} /\ reactions = NoPosts /\ threads = NoPosts /\ held = {} /\ ~suspended
  BY <1>1, LookupTypes DEF IInv, IdleIsBlank, BootTyped, NamedType
<1>3. UNCHANGED <<subs, status, refresh, stopped, suspended, held, reactions, threads, profiles, embeds>>
  BY <1>1 DEF connVars, lookupVars, watchVars
<1>4. LookupsOK' /\ WatchesTyped' /\ VerdictsNeedHost' /\ LevelsCounted' /\ NothingIsForgotten'
  BY <1>1, <1>3, Frames
<1>5. ConnOK' BY <1>1, ConnKept DEF IInv
<1>6. BootTyped' /\ BootIsNamed'
  BY <1>1, <1>3 DEF IInv, BootTyped, NamedType, BootIsNamed, Phases
<1>7. SubsOwned' /\ IdleIsBlank' /\ PausedIsEmpty'
  BY <1>1, <1>2, <1>3 DEF SubsOwned, IdleIsBlank, PausedIsEmpty
<1>8. WatchesNamed'
  BY <1>2, <1>3 DEF WatchesNamed, Wanted, NoPosts
<1>9. QED BY <1>4, <1>5, <1>6, <1>7, <1>8 DEF IInv

(* start() after acquire(): the claim is the widget's unless it was        *)
(* stopped.                                                                *)
LEMMA HostAcquiredKeeps ==
  ASSUME IInv, HostAcquired
  PROVE  IInv'
<1>1. /\ boot.phase = "acquiring" /\ host' = ~stopped
      /\ UNCHANGED <<lookupVars, watchVars, current, banner, follows, misses, named>>
      /\ IF stopped THEN Phase("done") /\ UNCHANGED connVars ELSE Phase("connecting") /\ Dial
  BY DEF HostAcquired, Acquired
<1>2. ConnOK' /\ subs' = subs /\ (IsConnected' => IsConnected)
  BY <1>1, ConnKept DEF IInv, connVars, Dial, IsConnected
<1>3. PICK p \in {"done", "connecting"} : Phase(p)
  BY <1>1
<1>4. p \in Phases \ {"idle"} BY DEF Phases
<1>5. /\ boot' \in [phase : Phases, of : Posts \cup {None},
                    wants : SUBSET {"reactions", "replies"}, superseded : BOOLEAN]
      /\ NamedType' /\ BootIsNamed' /\ boot'.phase = p
  BY <1>1, <1>3, <1>4, PhaseTyped
<1>6. BootTyped'
  BY <1>1, <1>5 DEF IInv, BootTyped
<1>7. VerdictsNeedHost'
  BY <1>1 DEF VerdictsNeedHost, lookupVars
<1>8. QED BY <1>1, <1>2, <1>3, <1>5, <1>6, <1>7, BootFrame

(* start() gives up, or finds itself stopped.                              *)
LEMMA BootEndsKeep ==
  ASSUME IInv, AcquireFails \/ BootStopped
  PROVE  IInv'
<1>1. /\ boot.phase \notin {"idle", "resolving"} /\ Phase("done") /\ banner' \in BOOLEAN
      /\ UNCHANGED <<connVars, lookupVars, watchVars, host, current, follows, misses, named>>
  BY DEF AcquireFails, BootStopped, AwaitsNothing, IInv, BootTyped
<1>2. ConnOK' /\ subs' = subs /\ status' = status
  BY <1>1, ConnKept DEF IInv, connVars
<1>3. "done" \in Phases \ {"idle"} BY DEF Phases
<1>4. /\ boot' \in [phase : Phases, of : Posts \cup {None},
                    wants : SUBSET {"reactions", "replies"}, superseded : BOOLEAN]
      /\ NamedType' /\ BootIsNamed' /\ boot'.phase = "done"
  BY <1>1, <1>3, PhaseTyped
<1>5. BootTyped'
  BY <1>1, <1>4 DEF IInv, BootTyped
<1>6. VerdictsNeedHost'
  BY <1>1, Frames DEF lookupVars
<1>7. QED BY <1>1, <1>2, <1>4, <1>5, <1>6, BootFrame DEF IsConnected

(* The connection gives up: every subscription is gone, the queues stay.   *)
LEMMA LinkDeadKeeps ==
  ASSUME IInv, LinkDead
  PROVE  IInv'
<1>1. /\ GivesUp /\ banner' = TRUE
      /\ IF boot.phase = "connecting" THEN Phase("done") ELSE UNCHANGED boot
      /\ UNCHANGED <<lookupVars, watchVars, host, current, follows, misses, named>>
  BY DEF LinkDead
<1>2. Teardown("error") /\ status \in {"connecting", "reconnecting"} BY <1>1 DEF GivesUp
<1>3. ConnOK' BY <1>2, ConnKept DEF IInv, Statuses
<1>4. subs' = {} /\ status' = "error" BY <1>2 DEF Teardown, HasClient
<1>5. boot.phase # "idle" BY <1>2 DEF IInv, IdleIsBlank
<1>6. /\ boot' \in [phase : Phases, of : Posts \cup {None},
                    wants : SUBSET {"reactions", "replies"}, superseded : BOOLEAN]
      /\ NamedType' /\ BootIsNamed' /\ (boot' = boot \/ (boot.phase = "connecting" /\ boot'.phase = "done"))
  <2>1. CASE boot.phase = "connecting"
    <3>1. "done" \in Phases \ {"idle"} BY DEF Phases
    <3>2. Phase("done") BY <1>1, <2>1
    <3>3. QED BY <1>1, <1>5, <2>1, <3>1, <3>2, PhaseTyped
  <2>2. CASE boot.phase # "connecting"
    BY <1>1, <2>2 DEF IInv, BootTyped, NamedType, BootIsNamed, lookupVars
  <2>3. QED BY <2>1, <2>2
<1>7. BootTyped'
  BY <1>1, <1>6 DEF IInv, BootTyped
<1>8. VerdictsNeedHost'
  BY <1>1, Frames DEF lookupVars
<1>9. /\ subs' \subseteq subs /\ (IsConnected' => IsConnected) /\ boot'.phase # "idle"
      /\ boot'.phase = "resolving" => boot.phase = "resolving"
      /\ boot.phase = "resolving" => boot'.phase = "resolving" /\ boot'.of = boot.of
  BY <1>4, <1>5, <1>6 DEF IsConnected
<1>10. QED BY <1>1, <1>3, <1>6, <1>7, <1>8, <1>9, BootFrame

-----------------------------------------------------------------------------
(* subscribe(), and the watches that come with it.                         *)
LEMMA SubscribeEffect ==
  ASSUME IInv, NEW p \in Posts, NEW gone, NEW new, Subscribe(p, gone, new)
  PROVE  /\ ConnOK' /\ status' = status /\ stopped' = stopped /\ suspended' = FALSE
         /\ LookupsOK' /\ NothingIsForgotten'
         /\ host' = host => VerdictsNeedHost'
         /\ current' \in Posts \cup {None} /\ banner' \in BOOLEAN /\ events' = {}
         /\ \A s \in subs' :
              \/ s = Sub("timeline", p) /\ current' = p
              \/ s \in new
              \/ s \in subs \ gone /\ s.kind \in {"follows", "reactions", "replies"}
<1>1. /\ current' = IF HasClient THEN p ELSE None
      /\ banner' = ~HasClient /\ suspended' = FALSE
      /\ profiles' = EmptyQueue /\ closing' = {} /\ embeds' = EmptyQueue /\ loading' = {}
      /\ refresh' = NoVerdicts(refresh) /\ events' = {} /\ stopped' = stopped
      /\ Route(OnTimeline \cup CardSubs \cup gone, {Sub("timeline", p)} \cup new)
  BY DEF Subscribe, Accepts
<1>2. /\ ConnOK' /\ status' = status
      /\ \A s \in subs' : \/ HasClient /\ s \in {Sub("timeline", p)} \cup new
                          \/ s \in subs \ (OnTimeline \cup CardSubs \cup gone)
  BY <1>1, RouteKeepsConn DEF IInv
<1>3. ASSUME NEW s \in subs'
      PROVE  \/ s = Sub("timeline", p) /\ current' = p
             \/ s \in new
             \/ s \in subs \ gone /\ s.kind \in {"follows", "reactions", "replies"}
  <2>1. CASE HasClient /\ s \in {Sub("timeline", p)} \cup new
    BY <1>1, <2>1
  <2>2. CASE s \in subs \ (OnTimeline \cup CardSubs \cup gone)
    <3>1. Owner(s) BY <2>2 DEF IInv, SubsOwned
    <3>2. s.kind \notin {"profile", "embed"} BY <2>2 DEF CardSubs
    <3>3. s.kind # "timeline"
      <4> SUFFICES ASSUME s.kind = "timeline" PROVE FALSE
        OBVIOUS
      <4>1. s = Sub("timeline", current) /\ current \in Posts BY <3>1, OwnerByKind
      <4>2. current # None BY <4>1, ThreadAssumption
      <4>3. s \in OnTimeline BY <4>1, <4>2 DEF OnTimeline
      <4>4. QED BY <2>2, <4>3
    <3>4. QED BY <2>2, <3>1, <3>2, <3>3, OwnerByKind
  <2>3. QED BY <1>2, <2>1, <2>2
<1>4. /\ refresh' \in RefreshType /\ refresh'.reading = refresh.reading /\ refresh'.pending = FALSE
  <2>1. refresh \in RefreshType BY LookupTypes
  <2>2. QED BY <1>1, <2>1 DEF NoVerdicts, ClearTimers, RefreshType
<1>5. /\ EmptyQueue \in Queues(Authors) /\ QueueInOrder(EmptyQueue, ProfileBudget)
      /\ EmptyQueue \in Queues(Embeds) /\ QueueInOrder(EmptyQueue, EmbedBudget)
  BY EmptyInOrder, LookupTypes
<1>6. LookupsOK'
  BY <1>1, <1>4, <1>5, LookupTypes DEF LookupsOK, QueuesInOrder, QueueInOrder
<1>7. NothingIsForgotten'
  BY <1>1, <1>4 DEF NothingIsForgotten, EmptyQueue
<1>8. host' = host => VerdictsNeedHost'
  BY <1>1, <1>4 DEF IInv, VerdictsNeedHost
<1>9. current' \in Posts \cup {None} /\ banner' \in BOOLEAN
  BY <1>1 DEF HasClient
<1>10. QED BY <1>1, <1>2, <1>3, <1>6, <1>7, <1>8, <1>9

(* The queues of the two watches, after watchPost() and after a pump.      *)
LEMMA WatchedTyped ==
  ASSUME NEW q \in PostQueues, NEW p \in Posts, NEW kind, NEW wants, NEW awake, NEW up
  PROVE  /\ WatchedBy(kind, q, p, wants, awake, up) \in PostQueues
         /\ q.open \subseteq WatchedBy(kind, q, p, wants, awake, up).open
         /\ LET w == WatchedBy(kind, q, p, wants, awake, up)
            IN w.requested \cup w.pending \cup w.open
                 \subseteq q.requested \cup q.pending \cup q.open \cup (IF kind \in wants THEN {p} ELSE {})
<1> DEFINE asked == [q EXCEPT !.requested = @ \cup {p}, !.pending = @ \cup {p}]
           drained == [asked EXCEPT !.open = @ \cup asked.pending, !.pending = {}]
<1>1. asked \in PostQueues /\ asked.open = q.open /\ asked.pending = q.pending \cup {p}
      /\ asked.requested = q.requested \cup {p}
  <2>1. asked \in PostQueues BY DEF PostQueues
  <2>2. asked.open = q.open /\ asked.pending = q.pending \cup {p} /\ asked.requested = q.requested \cup {p}
    BY DEF PostQueues
  <2>3. QED BY <2>1, <2>2
<1> HIDE DEF asked
<1>2. drained \in PostQueues /\ drained.open = asked.open \cup asked.pending /\ drained.pending = {}
      /\ drained.requested = asked.requested
  <2>1. drained \in PostQueues BY <1>1 DEF PostQueues
  <2>2. drained.open = asked.open \cup asked.pending /\ drained.pending = {} /\ drained.requested = asked.requested
    BY <1>1 DEF PostQueues
  <2>3. QED BY <2>1, <2>2
<1> HIDE DEF drained
<1>3. \/ WatchedBy(kind, q, p, wants, awake, up) = q
      \/ kind \in wants /\ WatchedBy(kind, q, p, wants, awake, up) \in {asked, drained}
  BY DEF WatchedBy, AskWatch, Drained, asked, drained
<1>4. QED BY <1>1, <1>2, <1>3

(* A pump of the two watches moves what waited, and only while awake.      *)
LEMMA DrainedTyped ==
  ASSUME NEW q \in PostQueues, NEW awake, NEW up
  PROVE  /\ Drained(q, awake, up) \in PostQueues
         /\ q.open \subseteq Drained(q, awake, up).open
         /\ Drained(q, awake, up).requested \cup Drained(q, awake, up).pending \cup Drained(q, awake, up).open
              \subseteq q.requested \cup q.pending \cup q.open
         /\ ~awake => Drained(q, awake, up) = q
<1> DEFINE drained == [q EXCEPT !.open = @ \cup q.pending, !.pending = {}]
<1>1. drained \in PostQueues /\ drained.open = q.open \cup q.pending /\ drained.pending = {}
      /\ drained.requested = q.requested
  <2>1. drained \in PostQueues BY DEF PostQueues
  <2>2. drained.open = q.open \cup q.pending /\ drained.pending = {} /\ drained.requested = q.requested
    BY DEF PostQueues
  <2>3. QED BY <2>1, <2>2
<1> HIDE DEF drained
<1>2. \/ Drained(q, awake, up) = q
      \/ awake /\ Drained(q, awake, up) = drained
  BY DEF Drained, drained
<1>3. QED BY <1>1, <1>2

(* The watches of the threads that stay open, and a new one for each that  *)
(* opens.                                                                  *)
WatchesOpened(tq) ==
  /\ watch' \in [Posts -> WatchType]
  /\ \A q \in threads'.open : watch'[q] = IF q \in tq.open THEN watch[q] ELSE NewWatch

LEMMA FreshOpened ==
  ASSUME IInv, NEW tq, watch' = Fresh(tq), threads' \in PostQueues
  PROVE  WatchesOpened(tq)
<1>1. watch \in [Posts -> WatchType] BY WatchTypes
<1>2. NewWatch \in WatchType BY DEF NewWatch, WatchType
<1>3. threads'.open \subseteq Posts BY DEF PostQueues
<1>4. QED BY <1>1, <1>2, <1>3 DEF Fresh, WatchesOpened

(* A thread that opens has one level, whatever its watch had before.       *)
LEMMA LevelsOpened ==
  ASSUME IInv, NEW tq, tq.open \subseteq threads.open, threads' \in PostQueues,
         WatchesOpened(tq),
         \A s \in subs' : s.kind = "replies" =>
           (s \in subs /\ s.of \in tq.open) \/ \E q \in threads'.open \ tq.open : s = Level(q, {})
  PROVE  LevelsCounted' /\ watch' \in [Posts -> WatchType]
<1>1. /\ watch \in [Posts -> WatchType] /\ threads.open \subseteq Posts
      /\ MaxDepth \in Nat \ {0}
  BY WatchTypes, WatchAssumption
<1>2. NewWatch \in WatchType /\ NewWatch.opened = 1
  BY DEF NewWatch, WatchType
<1>3. /\ watch' \in [Posts -> WatchType]
      /\ \A q \in threads'.open : watch'[q] = IF q \in tq.open THEN watch[q] ELSE NewWatch
  BY DEF WatchesOpened
<1>4. threads'.open \subseteq Posts BY DEF PostQueues
<1>5. ASSUME NEW q \in threads'.open
      PROVE  /\ IsFiniteSet(LevelSubs(q)') /\ Cardinality(LevelSubs(q)') <= watch'[q].opened
             /\ watch'[q].opened \in 1..MaxDepth
  <2>1. CASE q \in tq.open
    <3>1. /\ IsFiniteSet(LevelSubs(q)) /\ Cardinality(LevelSubs(q)) <= watch[q].opened
          /\ watch[q].opened \in 1..MaxDepth
      BY <2>1 DEF IInv, LevelsCounted
    <3>2. LevelSubs(q)' \subseteq LevelSubs(q)
      <4>1. ASSUME NEW s \in subs', s.kind = "replies", s.of = q PROVE s \in subs
        BY <2>1, <4>1 DEF Level
      <4>2. QED BY <4>1 DEF LevelSubs
    <3>3. /\ IsFiniteSet(LevelSubs(q)') /\ Cardinality(LevelSubs(q)') <= Cardinality(LevelSubs(q))
          /\ Cardinality(LevelSubs(q)') \in Nat /\ Cardinality(LevelSubs(q)) \in Nat
      BY <3>1, <3>2, FS_Subset, FS_CardinalityType
    <3>4. watch'[q] = watch[q] BY <1>3, <1>4, <2>1
    <3>5. QED BY <3>1, <3>3, <3>4, <1>1
  <2>2. CASE q \notin tq.open
    <3>1. LevelSubs(q)' \subseteq {Level(q, {})}
      <4>1. ASSUME NEW s \in subs', s.kind = "replies", s.of = q PROVE s = Level(q, {})
        BY <2>2, <4>1 DEF Level
      <4>2. QED BY <4>1 DEF LevelSubs
    <3>2. IsFiniteSet({Level(q, {})}) /\ Cardinality({Level(q, {})}) = 1
      BY FS_Singleton
    <3>3. /\ IsFiniteSet(LevelSubs(q)') /\ Cardinality(LevelSubs(q)') <= 1
          /\ Cardinality(LevelSubs(q)') \in Nat
      BY <3>1, <3>2, FS_Subset, FS_CardinalityType
    <3>4. watch'[q].opened = 1 BY <1>2, <1>3, <1>4, <2>2
    <3>5. QED BY <1>1, <3>3, <3>4
  <2>3. QED BY <2>1, <2>2
<1>6. QED BY <1>3, <1>5 DEF LevelsCounted

(* startPost(): the watches it opens are of the post named last, or are    *)
(* left alone.                                                             *)
LEMMA PostStartsKeeps ==
  ASSUME IInv, PostStarts
  PROVE  IInv'
<1> DEFINE p == boot.of
           new == OpenedWatches(reactions, threads)
<1>1. /\ boot.phase = "connected" /\ ~stopped /\ Phase("done")
      /\ IF StillWanted /\ Accepts
           THEN WatchPost(reactions, threads, p, boot.wants)
           ELSE UNCHANGED <<reactions, threads, watch>>
      /\ Subscribe(p, {}, new)
      /\ UNCHANGED <<held, cut, follows, host, misses, named>>
  BY DEF PostStarts
<1>2. p \in Posts /\ (~boot.superseded => p = named.of /\ boot.wants = named.wants)
  BY <1>1 DEF IInv, BootTyped, NamedType, BootIsNamed
<1>3. /\ reactions \in PostQueues /\ threads \in PostQueues
      /\ reactions.requested \cup reactions.pending \cup reactions.open \subseteq Wanted("reactions")
      /\ threads.requested \cup threads.pending \cup threads.open \subseteq Wanted("replies")
      /\ \A h \in held : h[1] = named.of
      /\ watch \in [Posts -> WatchType]
  BY WatchTypes DEF IInv, WatchesNamed
<1>4. /\ reactions' \in PostQueues /\ threads' \in PostQueues
      /\ reactions.open \subseteq reactions'.open /\ threads.open \subseteq threads'.open
      /\ reactions'.requested \cup reactions'.pending \cup reactions'.open \subseteq Wanted("reactions")
      /\ threads'.requested \cup threads'.pending \cup threads'.open \subseteq Wanted("replies")
      /\ WatchesOpened(threads)
  <2>1. CASE StillWanted /\ Accepts
    <3>1. /\ reactions' = WatchedBy("reactions", reactions, p, boot.wants, ~stopped, IsConnected)
          /\ threads' = WatchedBy("replies", threads, p, boot.wants, ~stopped, IsConnected)
          /\ watch' = Fresh(threads)
      BY <1>1, <2>1 DEF WatchPost
    <3>2. p = named.of /\ boot.wants = named.wants BY <1>2, <2>1 DEF StillWanted
    <3>3. /\ reactions' \in PostQueues /\ reactions.open \subseteq reactions'.open
          /\ reactions'.requested \cup reactions'.pending \cup reactions'.open
               \subseteq reactions.requested \cup reactions.pending \cup reactions.open
                         \cup (IF "reactions" \in boot.wants THEN {p} ELSE {})
      BY <1>2, <1>3, <3>1, WatchedTyped
    <3>4. /\ threads' \in PostQueues /\ threads.open \subseteq threads'.open
          /\ threads'.requested \cup threads'.pending \cup threads'.open
               \subseteq threads.requested \cup threads.pending \cup threads.open
                         \cup (IF "replies" \in boot.wants THEN {p} ELSE {})
      BY <1>2, <1>3, <3>1, WatchedTyped
    <3> HIDE DEF p
    <3>5. WatchesOpened(threads) BY <3>1, <3>4, FreshOpened
    <3>6. QED BY <1>3, <3>2, <3>3, <3>4, <3>5 DEF Wanted
  <2>2. CASE ~(StillWanted /\ Accepts)
    <3>1. UNCHANGED <<reactions, threads, watch>> BY <1>1, <2>2
    <3>2. WatchesOpened(threads) BY <1>3, <3>1 DEF WatchesOpened
    <3>3. QED BY <1>3, <3>1, <3>2
  <2>3. QED BY <2>1, <2>2
<1>5. /\ ConnOK' /\ suspended' = FALSE
      /\ LookupsOK' /\ NothingIsForgotten' /\ VerdictsNeedHost'
      /\ current' \in Posts \cup {None} /\ banner' \in BOOLEAN /\ events' = {}
      /\ \A s \in subs' :
           \/ s = Sub("timeline", p) /\ current' = p
           \/ s \in new
           \/ s \in subs /\ s.kind \in {"follows", "reactions", "replies"}
  <2>1. Subscribe(p, {}, new) /\ host' = host /\ p \in Posts BY <1>1, <1>2
  <2> DEFINE gone == {}
  <2> HIDE DEF p, new, gone
  <2>2. /\ ConnOK' /\ suspended' = FALSE
        /\ LookupsOK' /\ NothingIsForgotten' /\ VerdictsNeedHost'
        /\ current' \in Posts \cup {None} /\ banner' \in BOOLEAN /\ events' = {}
    BY <2>1, SubscribeEffect
  <2>3. ASSUME NEW s \in subs'
        PROVE  \/ s = Sub("timeline", p) /\ current' = p
               \/ s \in new
               \/ s \in subs /\ s.kind \in {"follows", "reactions", "replies"}
    <3>1. Subscribe(p, gone, new) BY <2>1 DEF gone
    <3>2. \/ s = Sub("timeline", p) /\ current' = p
          \/ s \in new
          \/ s \in subs \ gone /\ s.kind \in {"follows", "reactions", "replies"}
      BY <2>1, <3>1, SubscribeEffect
    <3>3. QED BY <3>2
  <2>4. QED BY <2>2, <2>3
<1>6. \A s \in new : \/ \E q \in reactions'.open : s = Sub("reactions", q)
                     \/ \E q \in threads'.open \ threads.open : s = Level(q, {})
  BY DEF OpenedWatches
<1> HIDE DEF p, new
<1>7. "done" \in Phases \ {"idle"} /\ boot.phase # "idle" /\ boot.phase # "resolving" BY <1>1 DEF Phases
<1>8. /\ boot' \in [phase : Phases, of : Posts \cup {None},
                    wants : SUBSET {"reactions", "replies"}, superseded : BOOLEAN]
      /\ NamedType' /\ BootIsNamed' /\ boot'.phase = "done"
  BY <1>1, <1>7, PhaseTyped
<1>9. BootTyped'
  BY <1>1, <1>5, <1>8 DEF IInv, BootTyped
<1>10. \A s \in subs' : s.kind = "replies" =>
         (s \in subs /\ s.of \in threads.open) \/ \E q \in threads'.open \ threads.open : s = Level(q, {})
  <2> SUFFICES ASSUME NEW s \in subs', s.kind = "replies"
      PROVE (s \in subs /\ s.of \in threads.open) \/ \E q \in threads'.open \ threads.open : s = Level(q, {})
    OBVIOUS
  <2>1. CASE s \in subs
    <3>1. Owner(s) BY <2>1 DEF IInv, SubsOwned
    <3>2. QED BY <2>1, <3>1, OwnerByKind
  <2>2. CASE s \notin subs
    BY <1>5, <1>6, <2>2 DEF Sub
  <2>3. QED BY <2>1, <2>2
<1>11. LevelsCounted' /\ watch' \in [Posts -> WatchType]
  BY <1>4, <1>10, LevelsOpened
<1>12. WatchesTyped'
  BY <1>1, <1>4, <1>5, <1>11 DEF IInv, WatchesTyped
<1>13. WatchesNamed'
  BY <1>1, <1>3, <1>4 DEF WatchesNamed, Wanted
<1>14. SubsOwned'
  <2> SUFFICES ASSUME NEW s \in subs' PROVE Owner(s)'
    BY DEF SubsOwned
  <2>1. CASE s = Sub("timeline", p) /\ current' = p
    BY <1>2, <2>1 DEF Owner
  <2>2. CASE s \in new
    <3>1. {} \in SUBSET Replies OBVIOUS
    <3>2. QED BY <1>6, <2>2, <3>1 DEF Owner
  <2>3. CASE s \in subs /\ s.kind \in {"follows", "reactions", "replies"}
    <3>1. Owner(s) BY <2>3 DEF IInv, SubsOwned
    <3>2. \/ s = Sub("reactions", s.of) /\ s.of \in reactions.open
          \/ s.of \in threads.open /\ \E ids \in SUBSET Replies : s = Level(s.of, ids)
      BY <1>7, <2>3, <3>1, OwnerByKind
    <3>3. QED BY <1>4, <3>2 DEF Owner
  <2>4. QED BY <1>5, <2>1, <2>2, <2>3
<1>15. IdleIsBlank' /\ PausedIsEmpty'
  BY <1>5, <1>8 DEF IdleIsBlank, PausedIsEmpty
<1>16. QED BY <1>5, <1>8, <1>9, <1>11, <1>12, <1>13, <1>14, <1>15 DEF IInv

(* showPost(): everything of the post before is closed or emptied.         *)
LEMMA ShowPostKeeps ==
  ASSUME IInv, NEW p \in Posts, NEW wants \in SUBSET {"reactions", "replies"}, ShowPost(p, wants)
  PROVE  IInv'
<1> DEFINE new == OpenedWatches(NoPosts, NoPosts)
<1>1. /\ boot.phase # "idle" /\ ~stopped
      /\ named' = [of |-> p, wants |-> wants]
      /\ boot' = [boot EXCEPT !.superseded = TRUE]
      /\ held' = {} /\ cut' = FALSE
      /\ reactions' = WatchedBy("reactions", NoPosts, p, wants, ~stopped, IsConnected)
      /\ threads' = WatchedBy("replies", NoPosts, p, wants, ~stopped, IsConnected)
      /\ watch' = Fresh(NoPosts)
      /\ Subscribe(p, PostSubs, new)
      /\ UNCHANGED <<host, follows, misses>>
  BY DEF ShowPost, WatchPost
<1>2. NoPosts \in PostQueues /\ NoPosts.open = {} /\ NoPosts.requested = {} /\ NoPosts.pending = {}
  BY DEF NoPosts, PostQueues
<1>3. /\ reactions' \in PostQueues
      /\ reactions'.requested \cup reactions'.pending \cup reactions'.open
           \subseteq (IF "reactions" \in wants THEN {p} ELSE {})
  BY <1>1, <1>2, WatchedTyped
<1>4. /\ threads' \in PostQueues
      /\ threads'.requested \cup threads'.pending \cup threads'.open
           \subseteq (IF "replies" \in wants THEN {p} ELSE {})
  BY <1>1, <1>2, WatchedTyped
<1>5. /\ ConnOK' /\ suspended' = FALSE
      /\ LookupsOK' /\ NothingIsForgotten' /\ VerdictsNeedHost'
      /\ current' \in Posts \cup {None} /\ banner' \in BOOLEAN /\ events' = {}
      /\ \A s \in subs' :
           \/ s = Sub("timeline", p) /\ current' = p
           \/ s \in new
           \/ s \in subs \ PostSubs /\ s.kind \in {"follows", "reactions", "replies"}
  <2>1. Subscribe(p, PostSubs, new) /\ host' = host BY <1>1
  <2> HIDE DEF new
  <2>2. QED BY <2>1, SubscribeEffect
<1>6. \A s \in new : \/ \E q \in reactions'.open : s = Sub("reactions", q)
                     \/ \E q \in threads'.open \ NoPosts.open : s = Level(q, {})
  BY DEF OpenedWatches
<1> HIDE DEF new
<1>7. \A s \in subs' :
        \/ s = Sub("timeline", p) /\ current' = p
        \/ s \in new
        \/ s = Sub("follows", boot.of) /\ boot.phase = "resolving"
  <2> SUFFICES ASSUME NEW s \in subs \ PostSubs, s.kind \in {"follows", "reactions", "replies"}
      PROVE s = Sub("follows", boot.of) /\ boot.phase = "resolving"
    BY <1>5
  <2>1. s.kind = "follows" BY DEF PostSubs
  <2>2. Owner(s) BY DEF IInv, SubsOwned
  <2>3. QED BY <2>1, <2>2, OwnerByKind
<1>8. /\ boot' \in [phase : Phases, of : Posts \cup {None},
                    wants : SUBSET {"reactions", "replies"}, superseded : BOOLEAN]
      /\ boot'.phase = boot.phase /\ boot'.of = boot.of /\ boot'.superseded = TRUE
  BY <1>1 DEF IInv, BootTyped
<1>9. NamedType' /\ BootIsNamed'
  BY <1>1, <1>5, <1>8 DEF IInv, BootTyped, NamedType, BootIsNamed
<1>10. BootTyped'
  BY <1>1, <1>5, <1>8, <1>9 DEF IInv, BootTyped
<1>11. \A s \in subs' : s.kind = "replies" => \E q \in threads'.open \ NoPosts.open : s = Level(q, {})
  BY <1>6, <1>7 DEF Sub
<1>12. LevelsCounted' /\ watch' \in [Posts -> WatchType]
  <2>1. WatchesOpened(NoPosts) BY <1>1, <1>4, FreshOpened
  <2>2. QED BY <1>2, <1>4, <1>11, <2>1, LevelsOpened
<1>13. WatchesTyped'
  BY <1>1, <1>3, <1>4, <1>5, <1>12 DEF WatchesTyped
<1>14. WatchesNamed'
  BY <1>1, <1>3, <1>4 DEF WatchesNamed, Wanted
<1>15. SubsOwned'
  <2> SUFFICES ASSUME NEW s \in subs' PROVE Owner(s)'
    BY DEF SubsOwned
  <2>1. CASE s = Sub("timeline", p) /\ current' = p
    BY <2>1 DEF Owner
  <2>2. CASE s \in new
    <3>1. {} \in SUBSET Replies OBVIOUS
    <3>2. QED BY <1>6, <2>2, <3>1 DEF Owner
  <2>3. CASE s = Sub("follows", boot.of) /\ boot.phase = "resolving"
    BY <1>8, <2>3 DEF Owner
  <2>4. QED BY <1>7, <2>1, <2>2, <2>3
<1>16. IdleIsBlank' /\ PausedIsEmpty'
  BY <1>1, <1>5, <1>8 DEF IdleIsBlank, PausedIsEmpty
<1>17. QED BY <1>5, <1>9, <1>10, <1>12, <1>13, <1>14, <1>15, <1>16 DEF IInv

(* The socket is up: what waited for it is started, within the budgets.    *)
LEMMA LinkUpKeeps ==
  ASSUME IInv, LinkUp
  PROVE  IInv'
<1> DEFINE new == Opened("profile", profiles, profiles') \cup Opened("embed", embeds, embeds')
                    \cup OpenedWatches(reactions, threads)
<1>1. /\ profiles' = Pump(profiles, ProfileBudget, TRUE)
      /\ embeds' = Pump(embeds, EmbedBudget, TRUE)
      /\ reactions' = Drained(reactions, Awake, TRUE)
      /\ threads' = Drained(threads, Awake, TRUE)
      /\ watch' = Fresh(threads)
      /\ SocketUp(new) /\ banner' = FALSE
      /\ IF boot.phase = "connecting" THEN Phase("connected") ELSE UNCHANGED boot
      /\ UNCHANGED <<stopped, suspended, closing, loading, refresh, events, held, cut,
                     host, current, follows, misses, named>>
  BY DEF LinkUp
<1>2. /\ profiles \in Queues(Authors) /\ QueueInOrder(profiles, ProfileBudget) /\ ProfileBudget \in Nat
      /\ embeds \in Queues(Embeds) /\ QueueInOrder(embeds, EmbedBudget) /\ EmbedBudget \in Nat
      /\ reactions \in PostQueues /\ threads \in PostQueues /\ TRUE \in BOOLEAN
      /\ closing \subseteq profiles.open
  BY LookupTypes, WatchTypes
<1>3. /\ profiles' \in Queues(Authors) /\ QueueInOrder(profiles', ProfileBudget)
      /\ profiles.open \subseteq profiles'.open
      /\ ~Awake => profiles'.open = profiles.open
      /\ Awake => Served(profiles', ProfileBudget)
  BY <1>1, <1>2, PumpInOrder DEF Served
<1>4. /\ embeds' \in Queues(Embeds) /\ QueueInOrder(embeds', EmbedBudget)
      /\ embeds.open \subseteq embeds'.open
      /\ embeds'.open \cup ToSet(embeds'.pending) = embeds.open \cup ToSet(embeds.pending)
      /\ ~Awake => embeds'.open = embeds.open
      /\ Awake => Served(embeds', EmbedBudget)
  BY <1>1, <1>2, PumpInOrder DEF Served
<1>5. /\ reactions' \in PostQueues /\ reactions.open \subseteq reactions'.open
      /\ reactions'.requested \cup reactions'.pending \cup reactions'.open
           \subseteq reactions.requested \cup reactions.pending \cup reactions.open
      /\ ~Awake => reactions' = reactions
  BY <1>1, <1>2, DrainedTyped
<1>6. /\ threads' \in PostQueues /\ threads.open \subseteq threads'.open
      /\ threads'.requested \cup threads'.pending \cup threads'.open
           \subseteq threads.requested \cup threads.pending \cup threads.open
      /\ ~Awake => threads' = threads
  BY <1>1, <1>2, DrainedTyped
<1>7. \A s \in new : \/ \E a \in profiles'.open \ profiles.open : s = Sub("profile", a)
                     \/ \E k \in embeds'.open \ embeds.open : s = Sub("embed", k)
                     \/ \E q \in reactions'.open \ reactions.open : s = Sub("reactions", q)
                     \/ \E q \in threads'.open \ threads.open : s = Level(q, {})
  BY DEF Opened, OpenedWatches
<1>8. ConnOK' BY <1>1, ConnKept DEF IInv
<1>9. status \in {"connecting", "reconnecting"} /\ subs' = subs \cup new BY <1>1 DEF SocketUp
<1> HIDE DEF new
<1>10. boot.phase # "idle" BY <1>9 DEF IInv, IdleIsBlank
<1>11. /\ boot' \in [phase : Phases, of : Posts \cup {None},
                     wants : SUBSET {"reactions", "replies"}, superseded : BOOLEAN]
       /\ NamedType' /\ BootIsNamed'
       /\ boot' = boot \/ (boot.phase = "connecting" /\ boot'.phase = "connected" /\ boot'.of = boot.of)
  <2>1. CASE boot.phase = "connecting"
    <3>1. "connected" \in Phases \ {"idle"} BY DEF Phases
    <3>2. Phase("connected") BY <1>1, <2>1
    <3>3. QED BY <1>1, <1>10, <2>1, <3>1, <3>2, PhaseTyped
  <2>2. CASE boot.phase # "connecting"
    BY <1>1, <2>2 DEF IInv, BootTyped, NamedType, BootIsNamed
  <2>3. QED BY <2>1, <2>2
<1>12. BootTyped'
  BY <1>1, <1>11 DEF IInv, BootTyped
<1>13. LookupsOK'
  BY <1>1, <1>2, <1>3, <1>4, LookupTypes DEF LookupsOK, QueuesInOrder
<1>14. \A s \in subs' : s.kind = "replies" =>
         (s \in subs /\ s.of \in threads.open) \/ \E q \in threads'.open \ threads.open : s = Level(q, {})
  <2> SUFFICES ASSUME NEW s \in subs', s.kind = "replies"
      PROVE (s \in subs /\ s.of \in threads.open) \/ \E q \in threads'.open \ threads.open : s = Level(q, {})
    OBVIOUS
  <2>1. CASE s \in subs
    <3>1. Owner(s) BY <2>1 DEF IInv, SubsOwned
    <3>2. QED BY <2>1, <3>1, OwnerByKind
  <2>2. CASE s \notin subs
    BY <1>7, <1>9, <2>2 DEF Sub
  <2>3. QED BY <2>1, <2>2
<1>15. LevelsCounted' /\ watch' \in [Posts -> WatchType]
  <2>1. WatchesOpened(threads) BY <1>1, <1>6, FreshOpened
  <2>2. QED BY <1>6, <1>14, <2>1, LevelsOpened
<1>16. WatchesTyped'
  BY <1>1, <1>5, <1>6, <1>15 DEF IInv, WatchesTyped
<1>17. WatchesNamed'
  BY <1>1, <1>5, <1>6 DEF IInv, WatchesNamed, Wanted
<1>18. SubsOwned'
  <2> SUFFICES ASSUME NEW s \in subs' PROVE Owner(s)'
    BY DEF SubsOwned
  <2>1. CASE s \in new
    <3>1. {} \in SUBSET Replies OBVIOUS
    <3>2. QED BY <1>7, <2>1, <3>1 DEF Owner
  <2>2. CASE s \in subs
    <3>1. Owner(s) BY <2>2 DEF IInv, SubsOwned
    <3>2. boot.phase = "resolving" => boot'.phase = "resolving" /\ boot'.of = boot.of BY <1>11
    <3>3. current' = current BY <1>1
    <3>4. QED BY <1>3, <1>4, <1>5, <1>6, <3>1, <3>2, <3>3 DEF Owner
  <2>3. QED BY <1>9, <2>1, <2>2
<1>19. IdleIsBlank'
  BY <1>10, <1>11 DEF IdleIsBlank
<1>20. PausedIsEmpty'
  <2> SUFFICES ASSUME suspended PROVE PausedIsEmpty'
    BY <1>1 DEF PausedIsEmpty
  <2>1. ~Awake BY DEF Awake
  <2>2. new = {} BY <1>3, <1>4, <1>5, <1>6, <1>7, <2>1
  <2>3. QED BY <1>3, <1>4, <1>5, <1>6, <1>9, <1>11, <2>1, <2>2 DEF IInv, PausedIsEmpty
<1>21. VerdictsNeedHost'
  BY <1>1, Frames
<1>22. NothingIsForgotten'
  <2>1. Awake' = Awake /\ Shown' = Shown BY <1>1 DEF Awake, Shown
  <2>2. ASSUME Awake PROVE /\ loading' \subseteq embeds'.open \cup ToSet(embeds'.pending)
                           /\ Shown /\ refresh.pending => refresh.debounce \/ refresh.poll \/ refresh.reading > 0
    BY <1>1, <1>4, <2>2, CardsRemembered
  <2>3. QED BY <1>1, <1>3, <1>4, <2>1, <2>2 DEF NothingIsForgotten, Served
<1>23. QED BY <1>8, <1>11, <1>12, <1>13, <1>15, <1>16, <1>17, <1>18, <1>19, <1>20, <1>21, <1>22 DEF IInv

-----------------------------------------------------------------------------
(* The filter source of a feed.                                            *)
LEMMA FollowsResolveKeeps ==
  ASSUME IInv, FollowsResolve
  PROVE  IInv'
<1>1. /\ boot.phase = "connected" /\ follows' = "resolving"
      /\ IF suspended
           THEN Phase("done") /\ UNCHANGED connVars
           ELSE Phase("resolving") /\ Route({}, {Sub("follows", boot.of)})
      /\ UNCHANGED <<lookupVars, watchVars, host, current, banner, misses, named>>
  BY DEF FollowsResolve
<1>2. PICK p \in {"done", "resolving"} : Phase(p) /\ (suspended => p = "done")
  <2>1. suspended \in BOOLEAN BY LookupTypes
  <2>2. QED BY <1>1, <2>1
<1>3. p \in Phases \ {"idle"} /\ boot.phase # "idle" BY <1>1 DEF Phases
<1>4. /\ boot' \in [phase : Phases, of : Posts \cup {None},
                    wants : SUBSET {"reactions", "replies"}, superseded : BOOLEAN]
      /\ NamedType' /\ BootIsNamed' /\ boot'.phase = p /\ boot'.of = boot.of
  BY <1>1, <1>2, <1>3, PhaseTyped
<1>5. "resolving" \in FollowStates BY DEF FollowStates
<1>6. BootTyped'
  BY <1>1, <1>4, <1>5 DEF IInv, BootTyped
<1>7. /\ ConnOK' /\ status' = status
      /\ \A s \in subs' : s \in subs \/ (s = Sub("follows", boot.of) /\ boot'.phase = "resolving" /\ ~suspended)
      /\ suspended => subs' = subs
  <2>1. CASE suspended
    <3>1. UNCHANGED connVars BY <1>1, <2>1
    <3>2. QED BY <2>1, <3>1, ConnKept DEF IInv, connVars
  <2>2. CASE ~suspended
    <3>1. Phase("resolving") /\ Route({}, {Sub("follows", boot.of)}) BY <1>1, <2>2
    <3>2. /\ ConnOK' /\ status' = status
          /\ \A s \in subs' : s \in subs \/ s = Sub("follows", boot.of)
      BY <3>1, RouteKeepsConn DEF IInv
    <3>3. boot'.phase = "resolving"
      BY <3>1 DEF Phase, IInv, BootTyped
    <3>4. QED BY <2>2, <3>2, <3>3
  <2>3. QED BY <2>1, <2>2
<1>8. LookupsOK' /\ WatchesTyped' /\ WatchesNamed' /\ VerdictsNeedHost'
  BY <1>1, Frames DEF lookupVars, watchVars
<1>9. SubsOwned'
  <2> SUFFICES ASSUME NEW s \in subs' PROVE Owner(s)'
    BY DEF SubsOwned
  <2>1. CASE s \in subs
    <3>1. Owner(s) BY <2>1 DEF IInv, SubsOwned
    <3>2. boot.phase # "resolving" BY <1>1
    <3>3. QED BY <1>1, <3>1, <3>2 DEF Owner, lookupVars, watchVars
  <2>2. CASE s \notin subs
    BY <1>4, <1>7, <2>2 DEF Owner
  <2>3. QED BY <2>1, <2>2
<1>10. IdleIsBlank' BY <1>3, <1>4 DEF IdleIsBlank
<1>11. PausedIsEmpty'
  BY <1>1, <1>2, <1>4, <1>7 DEF IInv, PausedIsEmpty, lookupVars, watchVars
<1>12. LevelsCounted'
  <2>1. LevelsCounted /\ threads' = threads /\ watch' = watch BY <1>1 DEF IInv, watchVars
  <2>2. \A s \in subs' : s.kind = "replies" => s \in subs BY <1>7 DEF Sub
  <2>3. QED BY <2>1, <2>2, LevelsShrink
<1>13. NothingIsForgotten'
  BY <1>1, <1>7 DEF IInv, NothingIsForgotten, Awake, IsConnected, Shown, lookupVars, watchVars
<1>14. QED BY <1>4, <1>6, <1>7, <1>8, <1>9, <1>10, <1>11, <1>12, <1>13 DEF IInv

(* A timeline put in place while the post's watches stay as they are.      *)
LEMMA FeedFrame ==
  ASSUME IInv, NEW p \in Posts, NEW gone, Subscribe(p, gone, {}),
         UNCHANGED <<held, reactions, threads, watch, cut, host, named>>,
         BootTyped', BootIsNamed', boot'.phase # "idle",
         boot.phase = "resolving" =>
           Sub("follows", boot.of) \in gone \/ (boot'.phase = "resolving" /\ boot'.of = boot.of)
  PROVE  IInv'
<1>1. /\ ConnOK' /\ suspended' = FALSE
      /\ LookupsOK' /\ NothingIsForgotten' /\ VerdictsNeedHost'
      /\ current' \in Posts \cup {None} /\ events' = {}
      /\ \A s \in subs' :
           \/ s = Sub("timeline", p) /\ current' = p
           \/ s \in subs \ gone /\ s.kind \in {"follows", "reactions", "replies"}
  <2> DEFINE new == {}
  <2>1. Subscribe(p, gone, new) OBVIOUS
  <2>2. new = {} OBVIOUS
  <2> HIDE DEF new
  <2>3. /\ ConnOK' /\ suspended' = FALSE
        /\ LookupsOK' /\ NothingIsForgotten' /\ (host' = host => VerdictsNeedHost')
        /\ current' \in Posts \cup {None} /\ events' = {}
    BY <2>1, SubscribeEffect
  <2>4. ASSUME NEW s \in subs'
        PROVE  \/ s = Sub("timeline", p) /\ current' = p
               \/ s \in subs \ gone /\ s.kind \in {"follows", "reactions", "replies"}
    <3>1. \/ s = Sub("timeline", p) /\ current' = p
          \/ s \in new
          \/ s \in subs \ gone /\ s.kind \in {"follows", "reactions", "replies"}
      BY <2>1, SubscribeEffect
    <3>2. QED BY <2>2, <3>1
  <2>5. QED BY <2>3, <2>4
<1>2. WatchesTyped'
  BY <1>1 DEF IInv, WatchesTyped
<1>3. SubsOwned'
  <2> SUFFICES ASSUME NEW s \in subs' PROVE Owner(s)'
    BY DEF SubsOwned
  <2>1. CASE s = Sub("timeline", p) /\ current' = p
    BY <2>1 DEF Owner
  <2>2. CASE s \in subs \ gone /\ s.kind \in {"follows", "reactions", "replies"}
    <3>1. Owner(s) BY <2>2 DEF IInv, SubsOwned
    <3>2. CASE s.kind = "follows"
      <4>1. s = Sub("follows", boot.of) /\ boot.phase = "resolving" BY <3>1, <3>2, OwnerByKind
      <4>2. boot'.phase = "resolving" /\ boot'.of = boot.of BY <2>2, <4>1
      <4>3. QED BY <4>1, <4>2 DEF Owner
    <3>3. CASE s.kind = "reactions"
      <4>1. s = Sub("reactions", s.of) /\ s.of \in reactions.open BY <3>1, <3>3, OwnerByKind
      <4>2. QED BY <4>1 DEF Owner
    <3>4. CASE s.kind = "replies"
      <4>1. s.of \in threads.open /\ \E ids \in SUBSET Replies : s = Level(s.of, ids) BY <3>1, <3>4, OwnerByKind
      <4>2. QED BY <4>1 DEF Owner
    <3>5. QED BY <2>2, <3>2, <3>3, <3>4
  <2>3. QED BY <1>1, <2>1, <2>2
<1>4. IdleIsBlank' /\ PausedIsEmpty'
  BY <1>1 DEF IdleIsBlank, PausedIsEmpty
<1>5. WatchesNamed' BY Frames
<1>6. LevelsCounted'
  <2>1. LevelsCounted /\ threads' = threads /\ watch' = watch BY DEF IInv
  <2>2. \A s \in subs' : s.kind = "replies" => s \in subs BY <1>1 DEF Sub
  <2>3. QED BY <2>1, <2>2, LevelsShrink
<1>7. QED BY <1>1, <1>2, <1>3, <1>4, <1>5, <1>6 DEF IInv

(* The follow list is in: the request's subscription ends as its phase     *)
(* does.                                                                   *)
LEMMA FollowsFoundKeeps ==
  ASSUME IInv, FollowsFound
  PROVE  IInv'
<1>1. /\ boot.phase = "resolving" /\ Phase("done") /\ follows' = "ready" /\ misses' = 0
      /\ Subscribe(boot.of, {Sub("follows", boot.of)}, {})
      /\ UNCHANGED <<held, reactions, threads, watch, cut, host, named>>
  BY DEF FollowsFound
<1>2. "done" \in Phases \ {"idle"} /\ boot.phase # "idle" /\ boot.of \in Posts
  BY <1>1 DEF Phases, IInv, BootTyped, NamedType
<1>3. suspended' = FALSE /\ current' \in Posts \cup {None} /\ banner' \in BOOLEAN
  BY <1>1, <1>2, SubscribeEffect
<1>4. /\ boot' \in [phase : Phases, of : Posts \cup {None},
                    wants : SUBSET {"reactions", "replies"}, superseded : BOOLEAN]
      /\ NamedType' /\ BootIsNamed' /\ boot'.phase = "done"
  BY <1>1, <1>2, PhaseTyped
<1>5. "ready" \in FollowStates /\ 0 \in 0..(MaxMisses - 1) BY BootAssumption DEF FollowStates
<1>6. BootTyped'
  BY <1>1, <1>3, <1>4, <1>5 DEF IInv, BootTyped
<1>7. Sub("follows", boot.of) \in {Sub("follows", boot.of)} OBVIOUS
<1>8. QED BY <1>1, <1>2, <1>4, <1>6, <1>7, FeedFrame

(* applyFilter(), which wakes a suspended widget with empty queues.        *)
LEMMA ApplyFilterKeeps ==
  ASSUME IInv, ApplyFilter
  PROVE  IInv'
<1>1. /\ suspended /\ Subscribe(named.of, {}, {})
      /\ UNCHANGED <<held, reactions, threads, watch, cut, boot, host, follows, misses, named>>
  BY DEF ApplyFilter
<1>2. boot.phase # "idle" /\ named.of \in Posts
  BY <1>1 DEF IInv, BootTyped, NamedType
<1>3. suspended' = FALSE /\ current' \in Posts \cup {None} /\ banner' \in BOOLEAN
  BY <1>1, <1>2, SubscribeEffect
<1>4. BootTyped' /\ BootIsNamed'
  BY <1>1, <1>3 DEF IInv, BootTyped, NamedType, BootIsNamed
<1>5. boot'.phase # "idle" /\ (boot.phase = "resolving" => boot'.phase = "resolving" /\ boot'.of = boot.of)
  BY <1>1, <1>2
<1>6. QED BY <1>1, <1>2, <1>4, <1>5, FeedFrame

(* No follow list.                                                         *)
LEMMA FollowsMissingKeeps ==
  ASSUME IInv, FollowsMissing
  PROVE  IInv'
<1>1. /\ boot.phase = "resolving" /\ Phase("done") /\ follows' = "missing"
      /\ Route({Sub("follows", boot.of)}, {})
      /\ UNCHANGED <<lookupVars, watchVars, host, current, banner, misses, named>>
  BY DEF FollowsMissing
<1>2. ConnOK' /\ status' = status /\ subs' = subs \ {Sub("follows", boot.of)}
  BY <1>1, RouteKeepsConn DEF IInv
<1>3. "done" \in Phases \ {"idle"} /\ boot.phase # "idle" BY <1>1 DEF Phases
<1>4. /\ boot' \in [phase : Phases, of : Posts \cup {None},
                    wants : SUBSET {"reactions", "replies"}, superseded : BOOLEAN]
      /\ NamedType' /\ BootIsNamed' /\ boot'.phase = "done"
  BY <1>1, <1>3, PhaseTyped
<1>5. "missing" \in FollowStates BY DEF FollowStates
<1>6. BootTyped'
  BY <1>1, <1>4, <1>5 DEF IInv, BootTyped
<1>7. LookupsOK' /\ WatchesTyped' /\ WatchesNamed' /\ VerdictsNeedHost'
  BY <1>1, Frames DEF lookupVars, watchVars
<1>8. SubsOwned'
  <2> SUFFICES ASSUME NEW s \in subs' PROVE Owner(s)'
    BY DEF SubsOwned
  <2>1. s \in subs /\ s # Sub("follows", boot.of) BY <1>2
  <2>2. Owner(s) BY <2>1 DEF IInv, SubsOwned
  <2>3. UNCHANGED <<current, profiles, embeds, reactions, threads>> BY <1>1 DEF lookupVars, watchVars
  <2>4. QED BY <2>1, <2>2, <2>3 DEF Owner
<1>9. IdleIsBlank' /\ PausedIsEmpty'
  BY <1>1, <1>2, <1>4 DEF IInv, IdleIsBlank, PausedIsEmpty, lookupVars, watchVars
<1>10. LevelsCounted'
  <2>1. LevelsCounted /\ threads' = threads /\ watch' = watch BY <1>1 DEF IInv, watchVars
  <2>2. QED BY <1>2, <2>1, LevelsShrink
<1>11. NothingIsForgotten'
  BY <1>1, <1>2 DEF IInv, NothingIsForgotten, Awake, IsConnected, Shown, lookupVars, watchVars
<1>12. QED BY <1>2, <1>4, <1>6, <1>7, <1>8, <1>9, <1>10, <1>11 DEF IInv, BootTyped

(* watchValidation(): the last miss takes the timeline away.               *)
LEMMA FollowsVerdictKeeps ==
  ASSUME IInv, NEW verdict \in {"validated", "pending", "unknown"}, FollowsVerdict(verdict)
  PROVE  IInv'
<1>1. /\ misses # None
      /\ misses' = CASE verdict = "validated" -> None
                     [] verdict = "pending" -> 0
                     [] verdict = "unknown" -> IF misses + 1 >= MaxMisses THEN None ELSE misses + 1
      /\ IF verdict = "unknown" /\ misses + 1 >= MaxMisses
           THEN /\ follows' = "dropped" /\ Route(OnTimeline, {}) /\ current' = None /\ events' = {}
                /\ refresh' = [refresh EXCEPT !.pending = FALSE]
           ELSE UNCHANGED <<connVars, follows, current, events, refresh>>
      /\ UNCHANGED <<stopped, suspended, profiles, closing, embeds, loading, held,
                     reactions, threads, watch, cut, boot, host, banner, named>>
  BY DEF FollowsVerdict, Patience
<1>2. misses' \in 0..(MaxMisses - 1) \cup {None}
  <2>1. misses \in 0..(MaxMisses - 1) /\ MaxMisses \in Nat \ {0}
    BY <1>1, BootAssumption DEF IInv, BootTyped
  <2>2. CASE verdict = "validated" BY <1>1, <2>2
  <2>3. CASE verdict = "pending"
    <3>1. misses' = 0 BY <1>1, <2>3
    <3>2. QED BY <2>1, <3>1
  <2>4. CASE verdict = "unknown"
    <3>1. misses' = IF misses + 1 >= MaxMisses THEN None ELSE misses + 1 BY <1>1, <2>4
    <3>2. QED BY <2>1, <3>1
  <2>5. QED BY <2>2, <2>3, <2>4
<1>3. CASE verdict = "unknown" /\ misses + 1 >= MaxMisses
  <2>1. /\ follows' = "dropped" /\ Route(OnTimeline, {}) /\ current' = None /\ events' = {}
        /\ refresh' = [refresh EXCEPT !.pending = FALSE]
    BY <1>1, <1>3
  <2>2. ConnOK' /\ status' = status /\ subs' = subs \ OnTimeline
    BY <2>1, RouteKeepsConn DEF IInv
  <2>3. refresh' \in RefreshType /\ refresh'.reading = refresh.reading /\ refresh'.pending = FALSE
    BY <2>1, LookupTypes DEF RefreshType
  <2>4. LookupsOK'
    BY <1>1, <2>3 DEF IInv, LookupsOK, QueuesInOrder, QueueInOrder
  <2>5. WatchesTyped'
    BY <1>1, <2>1 DEF IInv, WatchesTyped
  <2>6. BootTyped' /\ BootIsNamed'
    BY <1>1, <1>2, <2>1 DEF IInv, BootTyped, NamedType, BootIsNamed, FollowStates
  <2>7. SubsOwned'
    <3> SUFFICES ASSUME NEW s \in subs' PROVE Owner(s)'
      BY DEF SubsOwned
    <3>1. s \in subs /\ s \notin OnTimeline BY <2>2
    <3>2. Owner(s) BY <3>1 DEF IInv, SubsOwned
    <3>3. ~(s = Sub("timeline", current) /\ current \in Posts)
      BY <3>1, ThreadAssumption DEF OnTimeline
    <3>4. QED BY <1>1, <3>2, <3>3 DEF Owner
  <2>8. IdleIsBlank' /\ PausedIsEmpty'
    BY <1>1, <2>2 DEF IInv, IdleIsBlank, PausedIsEmpty
  <2>9. VerdictsNeedHost'
    BY <1>1, <2>3 DEF IInv, VerdictsNeedHost
  <2>10. WatchesNamed' BY <1>1, Frames
  <2>11. LevelsCounted'
    <3>1. LevelsCounted /\ threads' = threads /\ watch' = watch BY <1>1 DEF IInv
    <3>2. QED BY <2>2, <3>1, LevelsShrink
  <2>12. NothingIsForgotten'
    BY <1>1, <2>2, <2>3 DEF IInv, NothingIsForgotten, Awake, IsConnected
  <2>13. QED BY <2>2, <2>4, <2>5, <2>6, <2>7, <2>8, <2>9, <2>10, <2>11, <2>12 DEF IInv
<1>4. CASE ~(verdict = "unknown" /\ misses + 1 >= MaxMisses)
  <2>1. UNCHANGED <<connVars, follows, current, events, refresh>>
    BY <1>1, <1>4
  <2>2. UNCHANGED <<lookupVars, watchVars>> /\ subs' = subs /\ status' = status
    BY <1>1, <2>1 DEF lookupVars, watchVars, connVars
  <2>3. LookupsOK' /\ WatchesTyped' /\ WatchesNamed' /\ VerdictsNeedHost' /\ LevelsCounted' /\ NothingIsForgotten'
    BY <1>1, <2>1, <2>2, Frames
  <2>4. ConnOK' BY <2>1, ConnKept DEF IInv
  <2>5. BootTyped' /\ BootIsNamed'
    BY <1>1, <1>2, <2>1 DEF IInv, BootTyped, NamedType, BootIsNamed
  <2>6. SubsOwned' /\ IdleIsBlank' /\ PausedIsEmpty'
    BY <1>1, <2>1, <2>2 DEF IInv, SubsOwned, Owner, IdleIsBlank, PausedIsEmpty
  <2>7. QED BY <2>3, <2>4, <2>5, <2>6 DEF IInv
<1>5. QED BY <1>3, <1>4

-----------------------------------------------------------------------------
(* suspend() and stop().                                                   *)
LEMMA AllQuietKeeps ==
  ASSUME IInv, AllQuiet, subs' = {}, ConnOK', boot.phase # "idle",
         \/ suspended' = TRUE /\ stopped' = stopped /\ host' = host
         \/ stopped' = TRUE /\ suspended' = suspended /\ host' = FALSE,
         follows' \in FollowStates
  PROVE  IInv'
<1>1. /\ current' = None /\ profiles' = WithoutProfiles(profiles) /\ closing' = {}
      /\ embeds' = WithoutEmbeds(embeds) /\ reactions' = NoPosts /\ threads' = NoPosts
      /\ refresh' = ClearTimers(refresh) /\ misses' = None
      /\ boot' = [boot EXCEPT !.phase = IF @ = "resolving" THEN "done" ELSE @]
      /\ watch' = Fresh(threads)
      /\ UNCHANGED <<loading, events, held, cut, banner, named>>
  BY DEF AllQuiet
<1>2. {stopped', suspended', host'} \subseteq BOOLEAN
  BY LookupTypes DEF IInv, BootTyped
<1>3. /\ profiles \in Queues(Authors) /\ ProfileBudget \in Nat /\ EmbedBudget \in Nat
      /\ refresh \in RefreshType /\ loading \subseteq Embeds
  BY LookupTypes
<1>4. /\ profiles' \in Queues(Authors) /\ QueueInOrder(profiles', ProfileBudget) /\ profiles'.open = {}
  BY <1>1, <1>3, EmptyInOrder
<1>5. /\ embeds' \in Queues(Embeds) /\ QueueInOrder(embeds', EmbedBudget) /\ embeds'.open = {}
  <2>1. embeds' = EmptyQueue BY <1>1 DEF WithoutEmbeds
  <2>2. QED BY <1>3, <2>1, EmptyInOrder DEF EmptyQueue
<1>6. /\ refresh' \in RefreshType /\ refresh'.reading = refresh.reading /\ refresh'.pending = refresh.pending
  BY <1>1, <1>3 DEF ClearTimers, RefreshType
<1>7. LookupsOK'
  BY <1>1, <1>2, <1>3, <1>4, <1>5, <1>6 DEF LookupsOK, QueuesInOrder
<1>8. WatchesTyped'
  <2>1. NoPosts \in PostQueues BY DEF NoPosts, PostQueues
  <2>2. WatchesOpened(threads) BY <1>1, <2>1, FreshOpened
  <2>3. QED BY <1>1, <2>1, <2>2 DEF IInv, WatchesTyped, WatchesOpened
<1>9. /\ boot' \in [phase : Phases, of : Posts \cup {None},
                    wants : SUBSET {"reactions", "replies"}, superseded : BOOLEAN]
      /\ boot'.phase \notin {"idle", "resolving"} /\ boot'.of = boot.of
      /\ boot'.wants = boot.wants /\ boot'.superseded = boot.superseded
  <2>0. boot \in [phase : Phases, of : Posts \cup {None},
                    wants : SUBSET {"reactions", "replies"}, superseded : BOOLEAN]
    BY DEF IInv, BootTyped
  <2>1. boot' \in [phase : Phases, of : Posts \cup {None},
                    wants : SUBSET {"reactions", "replies"}, superseded : BOOLEAN]
    BY <1>1, <2>0 DEF Phases
  <2>2. boot'.phase \notin {"idle", "resolving"} BY <1>1, <2>0
  <2>3. boot'.of = boot.of /\ boot'.wants = boot.wants /\ boot'.superseded = boot.superseded BY <1>1, <2>0
  <2>4. QED BY <2>1, <2>2, <2>3
<1>10. NamedType' /\ BootIsNamed'
  BY <1>1, <1>9 DEF IInv, BootTyped, NamedType, BootIsNamed
<1>11. BootTyped'
  BY <1>1, <1>2, <1>9, <1>10 DEF IInv, BootTyped
<1>12. SubsOwned' /\ IdleIsBlank' /\ PausedIsEmpty'
  BY <1>1, <1>4, <1>5, <1>9 DEF SubsOwned, IdleIsBlank, PausedIsEmpty
<1>13. VerdictsNeedHost'
  BY <1>6 DEF IInv, VerdictsNeedHost
<1>14. WatchesNamed'
  BY <1>1 DEF IInv, WatchesNamed, NoPosts
<1>15. LevelsCounted'
  BY <1>1 DEF LevelsCounted, NoPosts
<1>16. NothingIsForgotten'
  BY DEF NothingIsForgotten, Awake
<1>17. QED BY <1>7, <1>8, <1>10, <1>11, <1>12, <1>13, <1>14, <1>15, <1>16 DEF IInv

(* suspend(): every open subscription is closed.                           *)
LEMMA SuspendKeeps ==
  ASSUME IInv, Suspend
  PROVE  IInv'
<1>1. /\ host /\ suspended' = TRUE /\ follows' = None /\ AllQuiet /\ Route(subs, {})
      /\ UNCHANGED <<stopped, host>>
  BY DEF Suspend, OpenSubs
<1>2. ConnOK' /\ subs' = {} BY <1>1, RouteKeepsConn DEF IInv
<1>3. boot.phase # "idle" BY <1>1 DEF IInv, BootTyped, NamedType
<1>4. follows' \in FollowStates BY <1>1 DEF FollowStates
<1>5. QED BY <1>1, <1>2, <1>3, <1>4, AllQuietKeeps

(* stop(): the client is torn down.                                        *)
LEMMA StopKeeps ==
  ASSUME IInv, Stop
  PROVE  IInv'
<1>1. /\ boot.phase # "idle" /\ stopped' = TRUE /\ AllQuiet /\ Teardown("disconnected")
      /\ host' = FALSE /\ UNCHANGED <<suspended, follows>>
  BY DEF Stop
<1>2. "disconnected" \in Statuses BY DEF Statuses
<1>3. ConnOK' /\ subs' = {} BY <1>1, <1>2, ConnKept DEF IInv, Teardown
<1>4. follows' \in FollowStates BY <1>1 DEF IInv, BootTyped
<1>5. QED BY <1>1, <1>3, <1>4, AllQuietKeeps

-----------------------------------------------------------------------------
(* The invariant holds before anything starts.                             *)
LEMMA InvInit == Init => IInv
<1> SUFFICES ASSUME Init PROVE IInv
  OBVIOUS
<1>1. /\ ConnInit /\ LookupInit /\ WatchInit
      /\ boot = [phase |-> "idle", of |-> None, wants |-> {}, superseded |-> FALSE]
      /\ host = FALSE /\ current = None /\ banner = FALSE /\ follows = None /\ misses = None /\ named = NotNamed
  BY DEF Init
<1>2. ConnOK
  BY <1>1 DEF ConnOK, InboxOwned, ConnInit, Statuses
<1>3. /\ EmptyQueue \in Queues(Authors) /\ QueueInOrder(EmptyQueue, ProfileBudget)
      /\ EmptyQueue \in Queues(Embeds) /\ QueueInOrder(EmptyQueue, EmbedBudget)
  BY EmptyInOrder, LookupAssumption
<1>4. refresh \in RefreshType /\ refresh.reading = 0 /\ refresh.pending = FALSE
  BY <1>1, LookupAssumption DEF LookupInit, RefreshType
<1>5. LookupsOK
  BY <1>1, <1>3, <1>4 DEF LookupsOK, QueuesInOrder, LookupInit
<1>6. WatchesTyped
  <2>1. NoPosts \in PostQueues BY DEF NoPosts, PostQueues
  <2>2. NewWatch \in WatchType BY DEF NewWatch, WatchType
  <2>3. watch = [p \in Posts |-> NewWatch] BY <1>1 DEF WatchInit
  <2>4. watch \in [Posts -> WatchType] BY <2>2, <2>3
  <2>5. QED BY <1>1, <2>1, <2>4 DEF WatchesTyped, WatchInit
<1>7. BootTyped
  BY <1>1 DEF BootTyped, NamedType, NotNamed, Phases, FollowStates, LookupInit
<1>8. SubsOwned /\ IdleIsBlank /\ PausedIsEmpty
  BY <1>1 DEF SubsOwned, IdleIsBlank, PausedIsEmpty, ConnInit, WatchInit, LookupInit
<1>9. VerdictsNeedHost BY <1>4 DEF VerdictsNeedHost
<1>10. BootIsNamed BY <1>1 DEF BootIsNamed
<1>11. WatchesNamed /\ LevelsCounted
  BY <1>1 DEF WatchesNamed, LevelsCounted, WatchInit, NoPosts
<1>12. NothingIsForgotten
  BY <1>1, <1>4 DEF NothingIsForgotten, LookupInit, EmptyQueue
<1>13. QED BY <1>2, <1>5, <1>6, <1>7, <1>8, <1>9, <1>10, <1>11, <1>12 DEF IInv

(* The steps both kinds of page share.                                     *)
LEMMA WidgetKeeps ==
  ASSUME IInv, Widget
  PROVE  IInv'
<1>1. CASE Booting
  BY <1>1, HostAcquiredKeeps, BootEndsKeep, PostStartsKeeps DEF Booting
<1>2. CASE Link
  BY <1>2, LinkUpKeeps, LinkDeadKeeps DEF Link
<1>3. CASE Relay
  BY <1>3, RelayKeeps
<1>4. CASE Stop
  BY <1>4, StopKeeps
<1>5. CASE (Cards \/ Lookups \/ Refreshes) /\ UNCHANGED <<watchVars, bootVars>>
  BY <1>5, CardsKeep
<1>6. QED BY <1>1, <1>2, <1>3, <1>4, <1>5 DEF Widget

(* Every step of either kind of page keeps the invariant.                  *)
LEMMA InvStep == IInv /\ [Step]_vars => IInv'
<1> SUFFICES ASSUME IInv, [Step]_vars PROVE IInv'
  OBVIOUS
<1>1. CASE Widget
  BY <1>1, WidgetKeeps
<1>2. ASSUME NEW p \in Posts, NEW wants \in SUBSET {"reactions", "replies"}, Start(p, wants) \/ ShowPost(p, wants)
      PROVE  IInv'
  BY <1>2, StartKeeps, ShowPostKeeps
<1>3. CASE Watches /\ UNCHANGED <<lookupVars, bootVars>>
  BY <1>3, WatchesKeep
<1>4. ASSUME NEW e \in Late, Arrives(e), UNCHANGED <<lookupVars, watchVars, bootVars>>
      PROVE  IInv'
  BY <1>4, ArrivesKeeps
<1>5. CASE \/ FollowsResolve \/ FollowsFound \/ FollowsMissing
           \/ \E verdict \in {"validated", "pending", "unknown"} : FollowsVerdict(verdict)
           \/ Suspend \/ ApplyFilter
  BY <1>5, FollowsResolveKeeps, FollowsFoundKeeps, FollowsMissingKeeps, FollowsVerdictKeeps, SuspendKeeps, ApplyFilterKeeps
<1>6. CASE UNCHANGED vars
  <2>1. /\ UNCHANGED <<connVars, lookupVars, watchVars, bootVars>>
        /\ UNCHANGED <<status, subs, suspended, stopped, refresh, host, named, boot, reactions, threads, held, profiles, embeds, current>>
    BY <1>6 DEF vars, connVars, lookupVars, watchVars, bootVars
  <2>2. /\ LookupsOK' /\ WatchesTyped' /\ BootTyped' /\ BootIsNamed' /\ WatchesNamed'
        /\ VerdictsNeedHost' /\ LevelsCounted' /\ NothingIsForgotten'
    BY <2>1, Frames
  <2>3. ConnOK' BY <2>1, ConnKept DEF IInv
  <2>4. SubsOwned' /\ IdleIsBlank' /\ PausedIsEmpty'
    BY <2>1 DEF IInv, SubsOwned, Owner, IdleIsBlank, PausedIsEmpty
  <2>5. QED BY <2>2, <2>3, <2>4 DEF IInv
<1>7. CASE PostNext
  <2>1. \A wants \in Wishes : wants \in SUBSET {"reactions", "replies"} BY BootAssumption
  <2>2. QED BY <1>1, <1>2, <1>3, <1>4, <1>7, <2>1 DEF PostNext
<1>8. CASE FeedNext
  <2>1. {} \in SUBSET {"reactions", "replies"} OBVIOUS
  <2>2. QED BY <1>1, <1>2, <1>5, <1>8, <2>1 DEF FeedNext
<1>9. QED BY <1>6, <1>7, <1>8 DEF Step

(* The invariant of a page of feeds.                                       *)
THEOREM FeedInv == FeedSpec => []IInv
<1>1. [FeedNext]_vars => [Step]_vars BY DEF Step
<1>2. QED BY <1>1, InvInit, InvStep, PTL DEF FeedSpec

(* The invariant of a page of posts.                                       *)
THEOREM PostInv == PostSpec => []IInv
<1>1. [PostNext]_vars => [Step]_vars BY DEF Step
<1>2. QED BY <1>1, InvInit, InvStep, PTL DEF PostSpec

(* The type invariant of a feed.                                           *)
THEOREM TimelineTypeOK == FeedSpec => []TypeOK
BY FeedInv, InvTyped, PTL

(* A suspended widget has no subscription.                                 *)
THEOREM TimelinePausedIsQuiet == FeedSpec => []PausedIsQuiet
<1>1. IInv => PausedIsQuiet BY DEF IInv, PausedIsEmpty, PausedIsQuiet
<1>2. QED BY <1>1, FeedInv, PTL

(* Nobody waits for something nobody will do.                              *)
THEOREM TimelineNothingIsForgotten == FeedSpec => []NothingIsForgotten
<1>1. IInv => NothingIsForgotten BY DEF IInv
<1>2. QED BY <1>1, FeedInv, PTL

(* Only the post named last is watched, and only as asked.                 *)
THEOREM TimelineWatchesOfThePost == PostSpec => []WatchesOfThePost
<1>1. ASSUME IInv PROVE WatchesOfThePost
  <2>1. /\ reactions.requested \cup reactions.pending \cup reactions.open \subseteq Wanted("reactions")
        /\ threads.requested \cup threads.pending \cup threads.open \subseteq Wanted("replies")
        /\ \A h \in held : h[1] = named.of
    BY <1>1 DEF IInv, WatchesNamed
  <2>2. ASSUME NEW s \in PostSubs PROVE s.of = named.of /\ s.kind \in named.wants
    <3>1. Owner(s) /\ s.kind \in {"reactions", "replies"}
      BY <1>1 DEF PostSubs, IInv, SubsOwned
    <3>2. CASE s.kind = "reactions"
      <4>1. s.of \in reactions.open BY <3>1, <3>2, OwnerByKind
      <4>2. QED BY <2>1, <3>2, <4>1 DEF Wanted
    <3>3. CASE s.kind = "replies"
      <4>1. s.of \in threads.open BY <3>1, <3>3, OwnerByKind
      <4>2. QED BY <2>1, <3>3, <4>1 DEF Wanted
    <3>4. QED BY <3>1, <3>2, <3>3
  <2>3. QED BY <2>1, <2>2 DEF WatchesOfThePost, Wanted
<1>2. QED BY <1>1, PostInv, PTL

-----------------------------------------------------------------------------
(* The budget.                                                             *)

(* As many subscriptions of a kind as slots taken.                         *)
LEMMA SlotsBound ==
  ASSUME NEW kind, NEW open, IsFiniteSet(open), NEW S, \A s \in S : \E x \in open : s = Sub(kind, x)
  PROVE  IsFiniteSet(S) /\ Cardinality(S) <= Cardinality(open)
<1> DEFINE f == [s \in S |-> s.of]
<1>1. \A s \in S : s.of \in open /\ s = Sub(kind, s.of)
  <2> SUFFICES ASSUME NEW s \in S PROVE s.of \in open /\ s = Sub(kind, s.of)
    OBVIOUS
  <2>1. PICK x \in open : s = Sub(kind, x) OBVIOUS
  <2>2. s.of = x BY <2>1 DEF Sub
  <2>3. QED BY <2>1, <2>2
<1>2. f \in [S -> open] BY <1>1
<1>3. \A s, t \in S : f[s] = f[t] => s = t BY <1>1
<1>4. f \in Injection(S, open) BY <1>2, <1>3 DEF Injection, IsInjective
<1>5. QED BY <1>4, FS_Injection

(* Two bounded sets together.                                              *)
LEMMA TwoSets ==
  ASSUME NEW S, NEW T, IsFiniteSet(S), IsFiniteSet(T), NEW m \in Nat, NEW n \in Nat,
         Cardinality(S) <= m, Cardinality(T) <= n
  PROVE  IsFiniteSet(S \cup T) /\ Cardinality(S \cup T) <= m + n
<1>1. /\ IsFiniteSet(S \cup T)
      /\ Cardinality(S \cup T) = Cardinality(S) + Cardinality(T) - Cardinality(S \cap T)
  BY FS_Union
<1>2. IsFiniteSet(S \cap T)
  <2>1. S \cap T \in SUBSET S OBVIOUS
  <2>2. QED BY <2>1, FS_Subset
<1>3. Cardinality(S) \in Nat /\ Cardinality(T) \in Nat /\ Cardinality(S \cap T) \in Nat
  BY <1>2, FS_CardinalityType
<1>4. QED BY <1>1, <1>3

(* The timeline is one subscription, the filter source's request another,  *)
(* the reactions of the one post a third, and its thread one per level.    *)
LEMMA BudgetKept ==
  ASSUME IInv, boot.phase # "resolving" \/ named.wants = {}
  PROVE  SubscriptionBudget
<1>1. /\ QueueInOrder(profiles, ProfileBudget) /\ QueueInOrder(embeds, EmbedBudget)
      /\ ProfileBudget \in Nat /\ EmbedBudget \in Nat /\ MaxDepth \in Nat \ {0}
  BY LookupTypes, WatchAssumption
<1>2. \A s \in subs : Owner(s) BY DEF IInv, SubsOwned
<1>3. Cardinality({s \in subs : s.kind = "profile"}) <= ProfileBudget
  <2> DEFINE S == {s \in subs : s.kind = "profile"}
  <2>1. \A s \in S : \E a \in profiles.open : s = Sub("profile", a) BY <1>2, OwnerByKind
  <2> HIDE DEF S
  <2>2. IsFiniteSet(profiles.open) /\ Cardinality(profiles.open) <= ProfileBudget BY <1>1 DEF QueueInOrder
  <2>3. IsFiniteSet(S) /\ Cardinality(S) <= Cardinality(profiles.open) BY <2>1, <2>2, SlotsBound
  <2>4. Cardinality(S) \in Nat /\ Cardinality(profiles.open) \in Nat BY <2>2, <2>3, FS_CardinalityType
  <2>5. Cardinality(S) <= ProfileBudget BY <1>1, <2>2, <2>3, <2>4
  <2>6. QED BY <2>5 DEF S
<1>4. Cardinality({s \in subs : s.kind = "embed"}) <= EmbedBudget
  <2> DEFINE S == {s \in subs : s.kind = "embed"}
  <2>1. \A s \in S : \E k \in embeds.open : s = Sub("embed", k) BY <1>2, OwnerByKind
  <2> HIDE DEF S
  <2>2. IsFiniteSet(embeds.open) /\ Cardinality(embeds.open) <= EmbedBudget BY <1>1 DEF QueueInOrder
  <2>3. IsFiniteSet(S) /\ Cardinality(S) <= Cardinality(embeds.open) BY <2>1, <2>2, SlotsBound
  <2>4. Cardinality(S) \in Nat /\ Cardinality(embeds.open) \in Nat BY <2>2, <2>3, FS_CardinalityType
  <2>5. Cardinality(S) <= EmbedBudget BY <1>1, <2>2, <2>3, <2>4
  <2>6. QED BY <2>5 DEF S
<1>5. Cardinality(subs \ CardSubs) <= MaxDepth + 2
  <2> DEFINE rest == subs \ CardSubs
             levels == {s \in subs : s.kind = "replies"}
             timeline == {Sub("timeline", current)}
             other == IF named.wants = {} THEN {Sub("follows", boot.of)} ELSE {Sub("reactions", named.of)}
  <2>1. IsFiniteSet(levels) /\ Cardinality(levels) <= MaxDepth
    <3>1. \A s \in levels : s.of \in threads.open BY <1>2, OwnerByKind
    <3>2. threads.open \subseteq {named.of} BY WatchTypes
    <3>3. CASE threads.open = {}
      <4>1. levels = {} BY <3>1, <3>3
      <4>2. QED BY <1>1, <4>1, FS_EmptySet
    <3>4. CASE threads.open # {}
      <4>1. named.of \in threads.open BY <3>2, <3>4
      <4>2. levels \subseteq LevelSubs(named.of) BY <3>1, <3>2 DEF LevelSubs
      <4>3. /\ IsFiniteSet(LevelSubs(named.of)) /\ Cardinality(LevelSubs(named.of)) <= watch[named.of].opened
            /\ watch[named.of].opened \in 1..MaxDepth
        BY <4>1 DEF IInv, LevelsCounted
      <4>4. levels \in SUBSET LevelSubs(named.of) BY <4>2
      <4> HIDE DEF levels
      <4>5. IsFiniteSet(levels) /\ Cardinality(levels) <= Cardinality(LevelSubs(named.of))
        BY <4>3, <4>4, FS_Subset
      <4>6. Cardinality(levels) \in Nat /\ Cardinality(LevelSubs(named.of)) \in Nat
        BY <4>3, <4>5, FS_CardinalityType
      <4>7. QED BY <1>1, <4>3, <4>5, <4>6
    <3>5. QED BY <3>3, <3>4
  <2>2. rest \subseteq (timeline \cup other) \cup levels
    <3> SUFFICES ASSUME NEW s \in subs, s.kind \notin {"profile", "embed"}, s.kind # "replies"
        PROVE s \in timeline \cup other
      BY DEF CardSubs
    <3>1. Owner(s) BY <1>2
    <3>2. CASE s.kind = "timeline" BY <3>1, <3>2, OwnerByKind
    <3>3. CASE s.kind = "follows"
      <4>1. s = Sub("follows", boot.of) /\ boot.phase = "resolving" BY <3>1, <3>3, OwnerByKind
      <4>2. named.wants = {} BY <4>1
      <4>3. QED BY <4>1, <4>2
    <3>4. CASE s.kind = "reactions"
      <4>1. s = Sub("reactions", s.of) /\ s.of \in reactions.open BY <3>1, <3>4, OwnerByKind
      <4>2. reactions.open \subseteq Wanted("reactions") BY DEF IInv, WatchesNamed
      <4>3. s.of = named.of /\ named.wants # {} BY <4>1, <4>2 DEF Wanted
      <4>4. QED BY <4>1, <4>3
    <3>5. QED BY <3>1, <3>2, <3>3, <3>4, OwnerByKind
  <2>3. IsFiniteSet(timeline) /\ Cardinality(timeline) = 1 /\ IsFiniteSet(other) /\ Cardinality(other) = 1
    <3>1. \A x : IsFiniteSet({x}) /\ Cardinality({x}) = 1 BY FS_Singleton
    <3>2. QED BY <3>1
  <2> HIDE DEF rest, levels, timeline, other
  <2>4. IsFiniteSet(timeline \cup other) /\ Cardinality(timeline \cup other) <= 2
    <3>1. 1 \in Nat /\ Cardinality(timeline) <= 1 /\ Cardinality(other) <= 1 BY <2>3
    <3>2. IsFiniteSet(timeline \cup other) /\ Cardinality(timeline \cup other) <= 1 + 1 BY <2>3, <3>1, TwoSets
    <3>3. QED BY <3>2
  <2>5. /\ IsFiniteSet((timeline \cup other) \cup levels)
        /\ Cardinality((timeline \cup other) \cup levels) <= 2 + MaxDepth
    <3>1. 2 \in Nat /\ MaxDepth \in Nat BY <1>1
    <3>2. QED BY <2>1, <2>4, <3>1, TwoSets
  <2>6. /\ IsFiniteSet(rest) /\ Cardinality(rest) <= Cardinality((timeline \cup other) \cup levels)
    BY <2>2, <2>5, FS_Subset
  <2>7. Cardinality(rest) \in Nat /\ Cardinality((timeline \cup other) \cup levels) \in Nat
    BY <2>5, <2>6, FS_CardinalityType
  <2>8. Cardinality(rest) <= MaxDepth + 2 BY <1>1, <2>5, <2>6, <2>7
  <2>9. QED BY <2>8 DEF rest
<1>6. QED BY <1>3, <1>4, <1>5 DEF SubscriptionBudget

(* A post's page never resolves a filter, and a feed never watches a post. *)
LEMMA NeverResolves ==
  /\ Init => boot.phase # "resolving"
  /\ IInv /\ boot.phase # "resolving" /\ [PostNext]_vars => boot'.phase # "resolving"
<1>1. Init => boot.phase # "resolving" BY DEF Init
<1>2. ASSUME IInv, boot.phase # "resolving", [PostNext]_vars PROVE boot'.phase # "resolving"
  <2>0. \A p \in Phases : Phase(p) => boot'.phase = p BY <1>2 DEF Phase, IInv, BootTyped
  <2>8. {"done", "connecting", "connected"} \subseteq Phases BY DEF Phases
  <2>1. CASE Booting
    BY <1>2, <2>0, <2>8, <2>1 DEF Booting, HostAcquired, AcquireFails, BootStopped, PostStarts
  <2>2. CASE Link
    BY <1>2, <2>0, <2>8, <2>2 DEF Link, LinkUp, LinkDead
  <2>3. CASE Relay
    BY <1>2, <2>3 DEF Relay, TimelineEvent, PostEvent, TimelineEose, TimelineClosed, QuietEose, bootVars
  <2>4. CASE Stop
    BY <1>2, <2>4 DEF Stop, AllQuiet, IInv, BootTyped
  <2>5. ASSUME NEW p \in Posts, NEW wants, Start(p, wants) \/ ShowPost(p, wants)
        PROVE  boot'.phase # "resolving"
    BY <1>2, <2>5 DEF Start, ShowPost, IInv, BootTyped
  <2>6. CASE UNCHANGED bootVars
    BY <1>2, <2>6 DEF bootVars
  <2>7. QED BY <1>2, <2>1, <2>2, <2>3, <2>4, <2>5, <2>6 DEF PostNext, Widget, vars
<1>3. QED BY <1>1, <1>2

(* A feed names no watches.                                                *)
LEMMA NeverWatches ==
  /\ Init => named.wants = {}
  /\ named.wants = {} /\ [FeedNext]_vars => named'.wants = {}
<1>1. Init => named.wants = {} BY DEF Init, NotNamed
<1>2. ASSUME named.wants = {}, [FeedNext]_vars PROVE named'.wants = {}
  <2>1. ASSUME NEW p \in Posts, Start(p, {}) PROVE named'.wants = {}
    BY <2>1 DEF Start
  <2>2. CASE Widget
    BY <1>2, <2>2 DEF Widget, Booting, HostAcquired, AcquireFails, BootStopped, PostStarts, Link, LinkUp, LinkDead,
      Relay, TimelineEvent, PostEvent, TimelineEose, TimelineClosed, QuietEose, Stop, AllQuiet, bootVars
  <2>3. CASE \/ FollowsResolve \/ FollowsFound \/ FollowsMissing
             \/ \E verdict \in {"validated", "pending", "unknown"} : FollowsVerdict(verdict)
             \/ Suspend \/ ApplyFilter
    BY <1>2, <2>3 DEF FollowsResolve, FollowsFound, FollowsMissing, FollowsVerdict, Suspend, AllQuiet, ApplyFilter
  <2>4. CASE UNCHANGED vars
    BY <1>2, <2>4 DEF vars, bootVars
  <2>5. QED BY <1>2, <2>1, <2>2, <2>3, <2>4 DEF FeedNext
<1>3. QED BY <1>1, <1>2

(* The relay's cap on subscriptions, as the comments on the budgets count, *)
(* on a page of posts and on one of feeds.                                 *)
THEOREM TimelineSubscriptionBudget == PostSpec => []SubscriptionBudget
<1>1. Init => IInv /\ boot.phase # "resolving"
  BY InvInit, NeverResolves
<1>2. (IInv /\ boot.phase # "resolving") /\ [PostNext]_vars => (IInv /\ boot.phase # "resolving")'
  BY InvStep, NeverResolves DEF Step
<1>3. IInv /\ boot.phase # "resolving" => SubscriptionBudget
  BY BudgetKept
<1>4. QED BY <1>1, <1>2, <1>3, PTL DEF PostSpec

(* The same cap for a feed, whose filter source takes the place of the     *)
(* reactions.                                                              *)
THEOREM FeedSubscriptionBudget == FeedSpec => []SubscriptionBudget
<1>1. Init => IInv /\ named.wants = {}
  BY InvInit, NeverWatches
<1>2. (IInv /\ named.wants = {}) /\ [FeedNext]_vars => (IInv /\ named.wants = {})'
  BY InvStep, NeverWatches DEF Step
<1>3. IInv /\ named.wants = {} => SubscriptionBudget
  BY BudgetKept
<1>4. QED BY <1>1, <1>2, <1>3, PTL DEF FeedSpec

-----------------------------------------------------------------------------
(* A stopped widget is over.                                               *)
OverWhenStopped ==
  stopped =>
    /\ ~host /\ ~HasClient
    /\ subs = {} /\ inbox = {} /\ answered = {}
    /\ current = None /\ misses = None
    /\ profiles.open = {} /\ profiles.pending = <<>>
    /\ embeds.open = {} /\ embeds.pending = <<>>
    /\ reactions = NoPosts /\ threads = NoPosts
    /\ ~refresh.debounce /\ ~refresh.poll
    /\ boot.phase \in {"acquiring", "connecting", "connected", "done"}

(* stop() ends everything but the await that start() is at.                *)
LEMMA StopEnds ==
  ASSUME IInv, Stop
  PROVE  OverWhenStopped'
<1>1. /\ boot.phase # "idle" /\ AllQuiet /\ Teardown("disconnected") /\ host' = FALSE
  BY DEF Stop
<1>2. subs' = {} /\ inbox' = {} /\ answered' = {} /\ ~HasClient'
  BY <1>1 DEF Teardown, HasClient
<1>3. /\ current' = None /\ misses' = None /\ profiles' = WithoutProfiles(profiles)
      /\ embeds' = EmptyQueue /\ reactions' = NoPosts /\ threads' = NoPosts
      /\ refresh' = ClearTimers(refresh)
      /\ boot' = [boot EXCEPT !.phase = IF @ = "resolving" THEN "done" ELSE @]
  BY <1>1 DEF AllQuiet, WithoutEmbeds
<1>4. profiles'.open = {} /\ profiles'.pending = <<>>
  <2>1. profiles \in Queues(Authors) BY LookupTypes
  <2>2. QED BY <1>3, <2>1 DEF WithoutProfiles, Queues
<1>5. embeds'.open = {} /\ embeds'.pending = <<>>
  BY <1>3 DEF EmptyQueue
<1>6. ~refresh'.debounce /\ ~refresh'.poll
  <2>1. refresh \in RefreshType BY LookupTypes
  <2>2. QED BY <1>3, <2>1 DEF ClearTimers, RefreshType
<1>7. boot'.phase \in {"acquiring", "connecting", "connected", "done"}
  <2>1. boot \in [phase : Phases, of : Posts \cup {None},
                  wants : SUBSET {"reactions", "replies"}, superseded : BOOLEAN]
    BY DEF IInv, BootTyped
  <2>2. boot'.phase = IF boot.phase = "resolving" THEN "done" ELSE boot.phase BY <1>3, <2>1
  <2>3. boot.phase \in Phases BY <2>1
  <2>4. QED BY <1>1, <2>2, <2>3 DEF Phases
<1>8. QED BY <1>1, <1>2, <1>3, <1>4, <1>5, <1>6, <1>7 DEF OverWhenStopped

(* What a stopped widget cannot do: without a client, a subscription, a    *)
(* queue or a timer, only start(), a read of verdicts and the relay's own  *)
(* life go on.                                                             *)
LEMMA OverRefuses ==
  ASSUME OverWhenStopped, stopped
  PROVE  /\ ~Link /\ ~Relay /\ ~Cards /\ ~Lookups /\ ~Stop /\ ~Watches /\ ~PostStarts
         /\ ~FollowsResolve /\ ~FollowsFound /\ ~FollowsMissing /\ ~Suspend /\ ~ApplyFilter
         /\ \A verdict : ~FollowsVerdict(verdict)
         /\ \A p, wants : ~Start(p, wants) /\ ~ShowPost(p, wants)
         /\ \A shown : ~RefreshStarts("debounce", shown) /\ ~RefreshStarts("poll", shown)
<1>1. /\ ~HasClient /\ subs = {} /\ inbox = {} /\ answered = {} /\ current = None /\ misses = None
      /\ profiles.open = {} /\ embeds.open = {} /\ threads.open = {}
      /\ ~refresh.debounce /\ ~refresh.poll /\ boot.phase # "resolving"
      /\ status \notin {"connecting", "connected", "reconnecting"}
  BY DEF OverWhenStopped, NoPosts, HasClient
<1>2. ~Link
  BY <1>1 DEF Link, LinkUp, LinkDead, SocketUp, GivesUp
<1>3. ~Relay
  BY <1>1 DEF Relay, TimelineEvent, PostEvent, TimelineEose, TimelineClosed, QuietEose, SocketDrops,
    Delivers, Eose
<1>4. ~Cards
  BY DEF Cards, RequestProfile, RequestEmbed, Awake
<1>5. ~Lookups
  <2>1. \A a \in Authors : ~FinishProfileRequest(a) BY <1>1 DEF FinishProfileRequest
  <2>2. \A a \in Authors : ~ProfileEose(a) BY <1>1 DEF ProfileEose, Eose
  <2>3. \A k \in Embeds, found \in BOOLEAN : ~EmbedSettles(k, found) BY <1>1 DEF EmbedSettles
  <2>4. QED BY <2>1, <2>2, <2>3 DEF Lookups, ProfileCloses, ProfileWatchdog, ProfileClosed
<1>6. ~Watches
  <2>1. \A p \in Posts : ~AdvanceReplyLevel(p) BY <1>1 DEF AdvanceReplyLevel
  <2>2. \A p \in Posts : ~ReactionsClosed(p) BY <1>1 DEF ReactionsClosed, Closed
  <2>3. QED BY <1>1, <2>1, <2>2 DEF Watches
<1>7. ~Stop /\ ~PostStarts /\ ~FollowsResolve /\ ~Suspend /\ ~ApplyFilter
  BY DEF Stop, PostStarts, FollowsResolve, Suspend, ApplyFilter
<1>8. ~FollowsFound /\ ~FollowsMissing
  BY <1>1 DEF FollowsFound, FollowsMissing
<1>9. \A verdict : ~FollowsVerdict(verdict)
  BY <1>1 DEF FollowsVerdict
<1>10. \A p, wants : ~Start(p, wants) /\ ~ShowPost(p, wants)
  BY DEF Start, ShowPost
<1>11. \A shown : ~RefreshStarts("debounce", shown) /\ ~RefreshStarts("poll", shown)
  BY <1>1 DEF RefreshStarts
<1>12. QED BY <1>2, <1>3, <1>4, <1>5, <1>6, <1>7, <1>8, <1>9, <1>10, <1>11

(* What it still does: start() gives the relay back that it was waiting    *)
(* for, or returns.                                                        *)
LEMMA OverBoots ==
  ASSUME IInv, OverWhenStopped, stopped, HostAcquired \/ AcquireFails \/ BootStopped
  PROVE  OverWhenStopped' /\ stopped' = stopped
<1>0. boot \in [phase : Phases, of : Posts \cup {None},
                wants : SUBSET {"reactions", "replies"}, superseded : BOOLEAN]
  BY DEF IInv, BootTyped
<1>1. /\ host' = FALSE /\ boot' = [boot EXCEPT !.phase = "done"]
      /\ UNCHANGED <<connVars, lookupVars, watchVars, current, misses>>
  <2>1. host = FALSE BY DEF OverWhenStopped, IInv, BootTyped
  <2>2. CASE HostAcquired
    <3>1. host' = FALSE BY <2>2, <2>1 DEF HostAcquired, Acquired, IInv, LookupsOK
    <3>2. QED BY <2>2, <3>1 DEF HostAcquired, Phase
  <2>3. CASE AcquireFails
    BY <2>1, <2>3 DEF AcquireFails, Phase
  <2>4. CASE BootStopped
    BY <2>1, <2>4 DEF BootStopped, Phase
  <2>5. QED BY <2>2, <2>3, <2>4
<1>2. boot'.phase = "done" BY <1>0, <1>1
<1>3. UNCHANGED <<status, subs, inbox, answered, stopped, profiles, embeds, refresh, reactions, threads, current, misses>>
  BY <1>1 DEF connVars, lookupVars, watchVars
<1>4. QED BY <1>1, <1>2, <1>3 DEF OverWhenStopped, HasClient

(* A read of verdicts that ends sets no timer.                             *)
LEMMA OverReads ==
  ASSUME IInv, OverWhenStopped, stopped, NEW pending, RefreshEnds(pending), UNCHANGED <<watchVars, bootVars>>
  PROVE  OverWhenStopped' /\ stopped' = stopped
<1>1. refresh' = [refresh EXCEPT !.reading = @ - 1] /\ UNCHANGED <<connVars, stopped, profiles, embeds>>
  BY DEF RefreshEnds
<1>2. refresh'.debounce = refresh.debounce /\ refresh'.poll = refresh.poll
  <2>1. refresh \in RefreshType BY LookupTypes
  <2>2. QED BY <1>1, <2>1 DEF RefreshType
<1>3. UNCHANGED <<status, subs, inbox, answered, reactions, threads, current, misses, host, boot>>
  BY <1>1 DEF connVars, watchVars, bootVars
<1>4. QED BY <1>1, <1>2, <1>3 DEF OverWhenStopped, HasClient

(* An event that reaches the relay is sent to nobody here.                 *)
LEMMA OverArrives ==
  ASSUME OverWhenStopped, stopped, NEW e, Arrives(e), UNCHANGED <<lookupVars, watchVars, bootVars>>
  PROVE  OverWhenStopped' /\ stopped' = stopped
<1>1. UNCHANGED <<status, subs, answered, inbox>>
  BY DEF Arrives, IsConnected, OverWhenStopped, HasClient
<1>2. UNCHANGED <<stopped, profiles, embeds, refresh, reactions, threads, current, misses, host, boot>>
  BY DEF lookupVars, watchVars, bootVars
<1>3. QED BY <1>1, <1>2 DEF OverWhenStopped, HasClient

(* Only stop() stops a widget.                                             *)
LEMMA OnlyStopStops ==
  ASSUME ~stopped, [Step]_vars
  PROVE  Stop \/ ~stopped'
<1>1. CASE Booting
  BY <1>1 DEF Booting, HostAcquired, AcquireFails, BootStopped, PostStarts, Subscribe, lookupVars
<1>2. CASE Link
  BY <1>2 DEF Link, LinkUp, LinkDead, lookupVars
<1>3. CASE Relay
  BY <1>3 DEF Relay, TimelineEvent, PostEvent, TimelineEose, TimelineClosed, QuietEose, lookupVars
<1>4. CASE Cards \/ Lookups \/ Refreshes
  <2>1. CASE Cards
    BY <2>1 DEF Cards, RequestProfile, RequestEmbed
  <2>2. CASE Lookups
    <3>1. \A a \in Authors : FinishProfileRequest(a) \/ ProfileEose(a) => stopped' = stopped
      BY DEF FinishProfileRequest, ProfileEose
    <3>2. \A k \in Embeds, found \in BOOLEAN : EmbedSettles(k, found) => stopped' = stopped
      BY DEF EmbedSettles
    <3>3. QED BY <2>2, <3>1, <3>2 DEF Lookups, ProfileCloses, ProfileWatchdog, ProfileClosed
  <2>3. CASE Refreshes
    BY <2>3 DEF Refreshes, RefreshStarts, RefreshEnds
  <2>4. QED BY <1>4, <2>1, <2>2, <2>3
<1>5. CASE Widget
  BY <1>1, <1>2, <1>3, <1>4, <1>5 DEF Widget
<1>6. ASSUME NEW p, NEW wants, Start(p, wants) \/ ShowPost(p, wants)
      PROVE  ~stopped'
  BY <1>6 DEF Start, ShowPost, Subscribe, lookupVars
<1>7. CASE PostNext
  BY <1>5, <1>6, <1>7 DEF PostNext, lookupVars
<1>8. FollowsResolve \/ FollowsFound \/ FollowsMissing \/ Suspend \/ ApplyFilter => ~stopped'
  BY DEF FollowsResolve, FollowsFound, FollowsMissing, Suspend, ApplyFilter, Subscribe, lookupVars
<1>9. \A verdict : FollowsVerdict(verdict) => ~stopped'
  BY DEF FollowsVerdict
<1>10. CASE FeedNext
  BY <1>5, <1>6, <1>8, <1>9, <1>10 DEF FeedNext
<1>11. CASE UNCHANGED vars
  BY <1>11 DEF vars, lookupVars
<1>12. QED BY <1>7, <1>10, <1>11 DEF Step

(* A stopped widget stays stopped, and over.                               *)
LEMMA OverStays ==
  ASSUME IInv, OverWhenStopped, stopped, [Step]_vars
  PROVE  OverWhenStopped' /\ stopped' = stopped
<1>1. CASE Widget
  <2>1. CASE Booting
    BY <2>1, OverRefuses, OverBoots DEF Booting
  <2>2. CASE (Cards \/ Lookups \/ Refreshes) /\ UNCHANGED <<watchVars, bootVars>>
    <3>1. Refreshes BY <2>2, OverRefuses
    <3>2. PICK pending \in BOOLEAN : RefreshEnds(pending)
      BY <3>1, OverRefuses DEF Refreshes
    <3>3. QED BY <2>2, <3>2, OverReads
  <2>3. QED BY <1>1, <2>1, <2>2, OverRefuses DEF Widget
<1>2. CASE PostNext
  BY <1>1, <1>2, OverRefuses, OverArrives DEF PostNext
<1>3. CASE FeedNext
  BY <1>1, <1>3, OverRefuses DEF FeedNext
<1>4. CASE UNCHANGED vars
  <2>1. UNCHANGED <<status, subs, inbox, answered, stopped, profiles, embeds, refresh, reactions, threads,
                    current, misses, host, boot>>
    BY <1>4 DEF vars, connVars, lookupVars, watchVars, bootVars
  <2>2. QED BY <2>1 DEF OverWhenStopped, HasClient
<1>5. QED BY <1>2, <1>3, <1>4 DEF Step

(* Every step keeps it.                                                    *)
LEMMA OverStep == IInv /\ OverWhenStopped /\ [Step]_vars => OverWhenStopped'
<1> SUFFICES ASSUME IInv, OverWhenStopped, [Step]_vars PROVE OverWhenStopped'
  OBVIOUS
<1>1. CASE stopped BY <1>1, OverStays
<1>2. CASE Stop BY <1>2, StopEnds
<1>3. CASE ~stopped /\ ~Stop
  <2>1. ~stopped' BY <1>3, OnlyStopStops
  <2>2. QED BY <2>1 DEF OverWhenStopped
<1>4. QED BY <1>1, <1>2, <1>3

(* It holds at first.                                                      *)
LEMMA OverInit == Init => OverWhenStopped
BY DEF Init, LookupInit, OverWhenStopped

(* stop() of timeline-controller.ts, at whichever await of start() it      *)
(* comes: the widget has no relay, connection, subscription, queue or      *)
(* timer any more, none comes back, and start() is where it will return.   *)
THEOREM FeedStopsForGood == FeedSpec => []OverWhenStopped /\ [][stopped => stopped']_vars
<1>1. [FeedNext]_vars => [Step]_vars BY DEF Step
<1>2. FeedSpec => []OverWhenStopped
  BY <1>1, FeedInv, OverInit, OverStep, PTL DEF FeedSpec
<1>3. IInv /\ OverWhenStopped /\ [FeedNext]_vars => [stopped => stopped']_vars
  BY <1>1, OverStays
<1>4. QED BY <1>2, <1>3, FeedInv, PTL DEF FeedSpec

(* The same of a page of posts.                                            *)
THEOREM PostStopsForGood == PostSpec => []OverWhenStopped /\ [][stopped => stopped']_vars
<1>1. [PostNext]_vars => [Step]_vars BY DEF Step
<1>2. PostSpec => []OverWhenStopped
  BY <1>1, PostInv, OverInit, OverStep, PTL DEF PostSpec
<1>3. IInv /\ OverWhenStopped /\ [PostNext]_vars => [stopped => stopped']_vars
  BY <1>1, OverStays
<1>4. QED BY <1>2, <1>3, PostInv, PTL DEF PostSpec

-----------------------------------------------------------------------------
(* Nobody waits behind a link that nobody tends.                           *)
Waiting == profiles.pending # <<>> \/ embeds.pending # <<>>

Tended ==
  /\ status = "error" => banner
  /\ Waiting => Awake /\ status # "disconnected"
  /\ status = "disconnected" => inbox = {} /\ (stopped \/ events = {}) /\ embeds.open = {}

(* A queue grows only when somebody asks, and nobody may while the widget  *)
(* is stopped or suspended.                                                *)
LEMMA NobodyJoins ==
  ASSUME NEW S, NEW q \in Queues(S), NEW budget \in Nat, QueueInOrder(q, budget)
  PROVE  /\ \A up \in BOOLEAN : Pump(q, budget, up).pending # <<>> => q.pending # <<>>
         /\ \A x \in S : Ask(q, x, budget).pending # <<>> => q.pending # <<>> \/ Awake
<1>1. ASSUME NEW up \in BOOLEAN, q.pending = <<>> PROVE Pump(q, budget, up).pending = <<>>
  <2> DEFINE out == Pump(q, budget, up)
  <2>1. /\ out \in Queues(S) /\ QueueInOrder(out, budget) /\ q.open \subseteq out.open
        /\ out.open \cup ToSet(out.pending) = q.open \cup ToSet(q.pending)
    BY PumpInOrder
  <2> HIDE DEF out
  <2>2. ToSet(q.pending) = {} BY <1>1 DEF ToSet
  <2>3. ToSet(out.pending) = {} BY <2>1, <2>2 DEF QueueInOrder
  <2>4. out.pending \in Seq(S) BY <2>1 DEF Queues
  <2>5. out.pending = <<>>
    <3>1. DOMAIN out.pending = 1..Len(out.pending) /\ Len(out.pending) \in Nat BY <2>4
    <3>2. \A i \in DOMAIN out.pending : out.pending[i] \in ToSet(out.pending) BY DEF ToSet
    <3>3. 1 \notin 1..Len(out.pending) BY <2>3, <3>1, <3>2
    <3>4. Len(out.pending) = 0 BY <3>1, <3>3
    <3>5. QED BY <2>4, <3>4
  <2>6. QED BY <2>5 DEF out
<1>2. ASSUME NEW x \in S, ~Awake PROVE Ask(q, x, budget) = q
  BY <1>2 DEF Ask
<1>3. QED BY <1>1, <1>2

(* A step that leaves the link as it is and sends nothing over a dead one. *)
LEMMA TendedFrame ==
  ASSUME Tended, UNCHANGED <<status, stopped, suspended>>, banner' = banner \/ banner' = TRUE,
         Waiting' => Waiting \/ (Awake /\ status # "disconnected"),
         status = "disconnected" => inbox' = {} /\ events' \subseteq events /\ embeds'.open = {}
  PROVE  Tended'
<1>1. Awake' = Awake BY DEF Awake
<1>2. QED BY <1>1 DEF Tended

(* Nothing comes over a link that is down.                                 *)
LEMMA NothingComes ==
  ASSUME Tended
  PROVE  /\ \A gone, new : Route(gone, new) => status' = status /\ (status = "disconnected" => inbox' = {})
         /\ \A s : Eose(s) => status' = status /\ status # "disconnected"
         /\ \A d : Delivers(d) => status' = status /\ status # "disconnected"
         /\ \A s, new : Closed(s, new) => status' = status /\ status # "disconnected"
         /\ \A e : Arrives(e) => status' = status /\ (status = "disconnected" => inbox' = {})
<1>1. ASSUME NEW gone, NEW new, Route(gone, new)
      PROVE  status' = status /\ (status = "disconnected" => inbox' = {})
  BY <1>1 DEF Tended, Route, IsConnected
<1>2. \A s : Eose(s) => status' = status /\ status # "disconnected"
  BY DEF Eose, IsConnected
<1>3. \A d : Delivers(d) => status' = status /\ status # "disconnected"
  BY DEF Tended, Delivers
<1>4. \A s, new : Closed(s, new) => status' = status /\ status # "disconnected"
  BY <1>1 DEF Closed, IsConnected
<1>5. \A e : Arrives(e) => status' = status /\ (status = "disconnected" => inbox' = {})
  BY DEF Tended, Arrives, IsConnected
<1>6. QED BY <1>1, <1>2, <1>3, <1>4, <1>5

(* subscribe() starts with empty queues, and reports a client that is gone.*)
LEMMA TendedSubscribe ==
  ASSUME Tended, NEW p, NEW gone, NEW new, Subscribe(p, gone, new), ~stopped
  PROVE  Tended'
<1>1. /\ banner' = ~HasClient /\ suspended' = FALSE /\ events' = {} /\ stopped' = stopped
      /\ profiles'.pending = <<>> /\ embeds'.pending = <<>> /\ embeds'.open = {}
  BY DEF Subscribe, Accepts, EmptyQueue
<1>2. status' = status /\ (status = "disconnected" => inbox' = {})
  BY NothingComes DEF Subscribe
<1>3. ~Waiting' BY <1>1 DEF Waiting
<1>4. QED BY <1>1, <1>2, <1>3 DEF Tended, HasClient

(* The cards, and what the lookups behind them wait for.                   *)
LEMMA TendedCards ==
  ASSUME IInv, Tended, UNCHANGED <<watchVars, bootVars>>, Cards \/ Lookups \/ Refreshes
  PROVE  Tended'
<1>0. /\ profiles \in Queues(Authors) /\ QueueInOrder(profiles, ProfileBudget) /\ ProfileBudget \in Nat
      /\ embeds \in Queues(Embeds) /\ QueueInOrder(embeds, EmbedBudget) /\ EmbedBudget \in Nat
      /\ UNCHANGED <<events, banner>> /\ IsConnected \in BOOLEAN
  BY LookupTypes DEF watchVars, bootVars, IsConnected
<1>1. CASE Cards
  <2>1. Awake /\ status # "disconnected" /\ UNCHANGED <<stopped, suspended>>
        /\ \E new : Route({}, new)
    BY <1>1 DEF Cards, RequestProfile, RequestEmbed, Tended, Awake
  <2>2. QED BY <1>0, <2>1, NothingComes, TendedFrame
<1>2. ASSUME NEW a \in Authors, FinishProfileRequest(a) PROVE Tended'
  <2> DEFINE freed == [profiles EXCEPT !.open = @ \ {a}]
  <2>1. freed \in Queues(Authors) /\ QueueInOrder(freed, ProfileBudget) /\ freed.pending = profiles.pending
    BY <1>0, FreedInOrder
  <2>2. /\ profiles' = Pump(freed, ProfileBudget, IsConnected) /\ embeds' = embeds
        /\ UNCHANGED <<stopped, suspended>> /\ \E new : Route({Sub("profile", a)}, new)
    BY <1>2 DEF FinishProfileRequest, FinishedProfile
  <2> HIDE DEF freed
  <2>3. profiles'.pending # <<>> => profiles.pending # <<>> BY <1>0, <2>1, <2>2, NobodyJoins
  <2>4. Waiting' => Waiting BY <2>2, <2>3 DEF Waiting
  <2>5. status = "disconnected" => embeds'.open = {} BY <2>2 DEF Tended
  <2>6. QED BY <1>0, <2>2, <2>4, <2>5, NothingComes, TendedFrame
<1>3. ASSUME NEW a \in Authors, ProfileEose(a) PROVE Tended'
  <2>1. UNCHANGED <<stopped, suspended, profiles, embeds>> /\ Eose(Sub("profile", a))
    BY <1>3 DEF ProfileEose
  <2>2. Waiting' = Waiting BY <2>1 DEF Waiting
  <2>3. QED BY <1>0, <2>1, <2>2, NothingComes, TendedFrame
<1>4. ASSUME NEW k \in Embeds, NEW found \in BOOLEAN, EmbedSettles(k, found) PROVE Tended'
  <2> DEFINE freed == [embeds EXCEPT !.open = @ \ {k}]
  <2>1. freed \in Queues(Embeds) /\ QueueInOrder(freed, EmbedBudget) /\ freed.pending = embeds.pending
    BY <1>0, FreedInOrder
  <2>2. /\ k \in embeds.open /\ embeds' = Pump(freed, EmbedBudget, IsConnected)
        /\ profiles' = IF found THEN Ask(profiles, QuotedBy[k], ProfileBudget) ELSE profiles
        /\ UNCHANGED <<stopped, suspended>>
    BY <1>4 DEF EmbedSettles, PumpedEmbeds
  <2>3. \E new : Route({Sub("embed", k)}, new)
    BY <1>4 DEF EmbedSettles
  <2> HIDE DEF freed
  <2>4. QuotedBy[k] \in Authors BY LookupAssumption
  <2>5. embeds'.pending # <<>> => embeds.pending # <<>> BY <1>0, <2>1, <2>2, NobodyJoins
  <2>6. profiles'.pending # <<>> => profiles.pending # <<>> \/ Awake BY <1>0, <2>2, <2>4, NobodyJoins
  <2>7. status # "disconnected" BY <2>2 DEF Tended
  <2>8. Waiting' => Waiting \/ (Awake /\ status # "disconnected") BY <2>5, <2>6, <2>7 DEF Waiting
  <2>9. QED BY <1>0, <2>2, <2>3, <2>7, <2>8, NothingComes, TendedFrame
<1>5. CASE Lookups
  BY <1>2, <1>3, <1>4, <1>5 DEF Lookups, ProfileCloses, ProfileWatchdog, ProfileClosed
<1>6. CASE Refreshes
  <2>1. UNCHANGED <<connVars, stopped, suspended, profiles, embeds>>
    BY <1>6 DEF Refreshes, RefreshStarts, RefreshEnds
  <2>2. status' = status /\ inbox' = inbox BY <2>1 DEF connVars
  <2>3. Waiting' = Waiting BY <2>1 DEF Waiting
  <2>4. QED BY <1>0, <2>1, <2>2, <2>3, TendedFrame DEF Tended
<1>7. QED BY <1>1, <1>5, <1>6

(* The link itself: a socket that is lost for good is reported.            *)
LEMMA TendedLink ==
  ASSUME IInv, Tended, Link
  PROVE  Tended'
<1>1. CASE LinkUp
  <2>1. /\ profiles' = Pump(profiles, ProfileBudget, TRUE) /\ embeds' = Pump(embeds, EmbedBudget, TRUE)
        /\ status' = "connected" /\ UNCHANGED <<stopped, suspended>>
    BY <1>1 DEF LinkUp, SocketUp
  <2>2. Waiting' => Waiting
    BY <2>1, LookupTypes, NobodyJoins DEF Waiting
  <2>3. Awake' = Awake BY <2>1 DEF Awake
  <2>4. QED BY <2>1, <2>2, <2>3 DEF Tended
<1>2. CASE LinkDead
  <2>1. status' = "error" /\ banner' = TRUE /\ UNCHANGED lookupVars
    BY <1>2 DEF LinkDead, GivesUp, Teardown, HasClient
  <2>2. Waiting' = Waiting /\ Awake' = Awake BY <2>1 DEF Waiting, Awake, lookupVars
  <2>3. QED BY <2>1, <2>2 DEF Tended
<1>3. QED BY <1>1, <1>2 DEF Link

(* What the relay sends.                                                   *)
LEMMA TendedRelay ==
  ASSUME Tended, Relay
  PROVE  Tended'
<1>1. ASSUME NEW d, TimelineEvent(d) \/ PostEvent(d) PROVE Tended'
  <2>1. Delivers(d) /\ UNCHANGED <<stopped, suspended, profiles, embeds, banner>>
    BY <1>1 DEF TimelineEvent, PostEvent, bootVars
  <2>2. Waiting' = Waiting BY <2>1 DEF Waiting
  <2>3. QED BY <2>1, <2>2, NothingComes, TendedFrame
<1>2. ASSUME NEW s, Eose(s), UNCHANGED <<stopped, suspended, profiles, embeds, banner>> PROVE Tended'
  <2>1. Waiting' = Waiting BY <1>2 DEF Waiting
  <2>2. QED BY <1>2, <2>1, NothingComes, TendedFrame
<1>3. TimelineEose => Tended'
  BY <1>2 DEF TimelineEose, bootVars
<1>4. \A s : QuietEose(s) => Tended'
  BY <1>2 DEF QuietEose, lookupVars, bootVars
<1>5. CASE TimelineClosed
  <2>1. /\ Closed(Sub("timeline", current), {}) /\ banner' = TRUE
        /\ UNCHANGED <<stopped, suspended, profiles, embeds>>
    BY <1>5 DEF TimelineClosed, lookupVars
  <2>2. Waiting' = Waiting BY <2>1 DEF Waiting
  <2>3. QED BY <2>1, <2>2, NothingComes, TendedFrame
<1>6. CASE SocketDrops /\ UNCHANGED <<lookupVars, watchVars, bootVars>>
  <2>1. status' = "reconnecting" /\ UNCHANGED <<stopped, suspended, profiles, embeds, banner>>
    BY <1>6 DEF SocketDrops, lookupVars, bootVars
  <2>2. Waiting' = Waiting /\ Awake' = Awake BY <2>1 DEF Waiting, Awake
  <2>3. QED BY <2>1, <2>2 DEF Tended
<1>7. QED BY <1>1, <1>3, <1>4, <1>5, <1>6 DEF Relay

(* Booting: only connect() touches the link.                               *)
LEMMA TendedBooting ==
  ASSUME Tended, Booting
  PROVE  Tended'
<1>1. CASE HostAcquired
  <2>1. /\ UNCHANGED <<lookupVars, watchVars, banner>>
        /\ UNCHANGED connVars \/ status' = "connecting"
    BY <1>1 DEF HostAcquired, Dial
  <2>2. UNCHANGED <<stopped, suspended, profiles, embeds, events>> BY <2>1 DEF lookupVars, watchVars
  <2>3. Waiting' = Waiting /\ Awake' = Awake BY <2>2 DEF Waiting, Awake
  <2>4. UNCHANGED connVars => status' = status /\ inbox' = inbox BY DEF connVars
  <2>5. QED BY <2>1, <2>2, <2>3, <2>4 DEF Tended
<1>2. CASE AcquireFails \/ BootStopped
  <2>1. UNCHANGED <<status, inbox, stopped, suspended, profiles, embeds, events>>
        /\ (banner' = banner \/ banner' = TRUE)
    BY <1>2 DEF AcquireFails, BootStopped, connVars, lookupVars, watchVars
  <2>2. Waiting' = Waiting BY <2>1 DEF Waiting
  <2>3. QED BY <2>1, <2>2, TendedFrame DEF Tended
<1>3. CASE PostStarts
  BY <1>3, TendedSubscribe DEF PostStarts
<1>4. QED BY <1>1, <1>2, <1>3 DEF Booting

(* The watches of a post wait in queues of their own.                      *)
LEMMA TendedWatches ==
  ASSUME Tended, Watches, UNCHANGED <<lookupVars, bootVars>>
  PROVE  Tended'
<1>1. UNCHANGED <<stopped, suspended, profiles, embeds, banner>> BY DEF lookupVars, bootVars
<1>2. Waiting' = Waiting BY <1>1 DEF Waiting
<1>3. /\ events' = events
      /\ \/ UNCHANGED connVars \/ \E s : Eose(s) \/ Closed(s, {}) \/ \E new : Route({}, new)
  BY DEF Watches, LevelEose, LevelClosed, AdvanceReplyLevel, ReactionsClosed
<1>4. UNCHANGED connVars => status' = status /\ inbox' = inbox BY DEF connVars
<1>5. status' = status /\ (status = "disconnected" => inbox' = {})
  BY <1>3, <1>4, NothingComes DEF Tended
<1>6. QED BY <1>1, <1>2, <1>3, <1>5, TendedFrame DEF Tended

(* The page: stop() and suspend() empty the queues, the rest leaves them.  *)
LEMMA TendedPage ==
  ASSUME IInv, OverWhenStopped, Tended
  PROVE  /\ Stop \/ Suspend => Tended'
         /\ \A p, wants : Start(p, wants) \/ ShowPost(p, wants) => Tended'
         /\ FollowsResolve \/ FollowsFound \/ FollowsMissing \/ ApplyFilter => Tended'
         /\ \A verdict : FollowsVerdict(verdict) => Tended'
<1>1. ASSUME AllQuiet PROVE ~Waiting' /\ embeds'.open = {} /\ UNCHANGED <<banner, events>>
  <2>1. profiles \in Queues(Authors) BY LookupTypes
  <2>2. /\ profiles' = WithoutProfiles(profiles) /\ embeds' = EmptyQueue /\ UNCHANGED <<banner, events>>
    BY <1>1 DEF AllQuiet, WithoutEmbeds
  <2>3. profiles'.pending = <<>> BY <2>1, <2>2 DEF WithoutProfiles, Queues
  <2>4. QED BY <2>2, <2>3 DEF Waiting, EmptyQueue
<1>2. CASE Stop
  <2>1. stopped' = TRUE /\ AllQuiet /\ Teardown("disconnected") BY <1>2 DEF Stop
  <2>2. inbox' = {} /\ (status' = "error" => status = "error") BY <2>1 DEF Teardown
  <2>3. QED BY <1>1, <2>1, <2>2 DEF Tended
<1>3. CASE Suspend
  <2>1. AllQuiet /\ stopped' = stopped /\ \E gone : Route(gone, {}) BY <1>3 DEF Suspend
  <2>2. status' = status /\ (status = "disconnected" => inbox' = {}) BY <2>1, NothingComes
  <2>3. QED BY <1>1, <2>1, <2>2 DEF Tended
<1>4. ASSUME NEW p, NEW wants, Start(p, wants) PROVE Tended'
  <2>1. UNCHANGED <<status, inbox, stopped, suspended, profiles, embeds, events, banner>>
    BY <1>4 DEF Start, connVars, lookupVars, watchVars
  <2>2. Waiting' = Waiting BY <2>1 DEF Waiting
  <2>3. QED BY <2>1, <2>2, TendedFrame DEF Tended
<1>5. ASSUME NEW p, NEW wants, ShowPost(p, wants) PROVE Tended'
  BY <1>5, TendedSubscribe DEF ShowPost
<1>6. CASE FollowsFound \/ ApplyFilter
  BY <1>6, TendedSubscribe DEF FollowsFound, ApplyFilter, OverWhenStopped
<1>7. CASE FollowsResolve \/ FollowsMissing
  <2>1. /\ UNCHANGED <<lookupVars, watchVars, banner>>
        /\ UNCHANGED connVars \/ \E gone, new : Route(gone, new)
    BY <1>7 DEF FollowsResolve, FollowsMissing
  <2>2. UNCHANGED <<stopped, suspended, profiles, embeds, events>> BY <2>1 DEF lookupVars, watchVars
  <2>3. Waiting' = Waiting BY <2>2 DEF Waiting
  <2>4. UNCHANGED connVars => status' = status /\ inbox' = inbox BY DEF connVars
  <2>5. status' = status /\ (status = "disconnected" => inbox' = {})
    BY <2>1, <2>4, NothingComes DEF Tended
  <2>6. QED BY <2>1, <2>2, <2>3, <2>5, TendedFrame DEF Tended
<1>8. ASSUME NEW verdict, FollowsVerdict(verdict) PROVE Tended'
  <2>1. /\ UNCHANGED <<stopped, suspended, profiles, embeds, banner>> /\ events' \subseteq events
        /\ UNCHANGED connVars \/ \E gone : Route(gone, {})
    BY <1>8 DEF FollowsVerdict
  <2>2. Waiting' = Waiting BY <2>1 DEF Waiting
  <2>3. UNCHANGED connVars => status' = status /\ inbox' = inbox BY DEF connVars
  <2>4. status' = status /\ (status = "disconnected" => inbox' = {})
    BY <2>1, <2>3, NothingComes DEF Tended
  <2>5. QED BY <2>1, <2>2, <2>4, TendedFrame DEF Tended
<1>9. QED BY <1>2, <1>3, <1>4, <1>5, <1>6, <1>7, <1>8

(* Every step keeps it.                                                    *)
LEMMA TendedStep == IInv /\ OverWhenStopped /\ Tended /\ [Step]_vars => Tended'
<1> SUFFICES ASSUME IInv, OverWhenStopped, Tended, [Step]_vars PROVE Tended'
  OBVIOUS
<1>1. CASE Widget
  BY <1>1, TendedBooting, TendedLink, TendedRelay, TendedPage, TendedCards DEF Widget
<1>2. ASSUME NEW e, Arrives(e), UNCHANGED <<lookupVars, watchVars, bootVars>> PROVE Tended'
  <2>1. UNCHANGED <<stopped, suspended, profiles, embeds, banner, events>>
    BY <1>2 DEF lookupVars, watchVars, bootVars
  <2>2. Waiting' = Waiting BY <2>1 DEF Waiting
  <2>3. QED BY <1>2, <2>1, <2>2, NothingComes, TendedFrame DEF Tended
<1>3. CASE PostNext
  BY <1>1, <1>2, <1>3, TendedPage, TendedWatches DEF PostNext
<1>4. CASE FeedNext
  BY <1>1, <1>4, TendedPage DEF FeedNext
<1>5. CASE UNCHANGED vars
  <2>1. UNCHANGED <<status, inbox, stopped, suspended, profiles, embeds, events, banner>>
    BY <1>5 DEF vars, connVars, lookupVars, watchVars, bootVars
  <2>2. QED BY <2>1 DEF Tended, Waiting, Awake
<1>6. QED BY <1>3, <1>4, <1>5 DEF Step

(* It holds at first.                                                      *)
LEMMA TendedInit == Init => Tended
BY DEF Init, ConnInit, LookupInit, WatchInit, EmptyQueue, Tended, Waiting

(* Whoever waits for a profile or a quote waits in a widget that is awake, *)
(* for a socket that is being opened, behind lookups that fill the budget, *)
(* each with its own watchdog or deadline, or behind a loss that is shown. *)
NobodyWaitsUnseen ==
  /\ Waiting => Awake
  /\ profiles.pending # <<>> =>
       \/ status \in {"connecting", "reconnecting"}
       \/ IsConnected /\ Cardinality(profiles.open) = ProfileBudget
       \/ status = "error" /\ banner
  /\ embeds.pending # <<>> =>
       \/ status \in {"connecting", "reconnecting"}
       \/ IsConnected /\ Cardinality(embeds.open) = EmbedBudget
       \/ status = "error" /\ banner

(* With the invariant, that is so.                                         *)
LEMMA TendedEnough == IInv /\ Tended => NobodyWaitsUnseen
BY DEF IInv, ConnOK, Statuses, NothingIsForgotten, IsConnected, Tended, Waiting, NobodyWaitsUnseen

(* The safety half of AuthorsServed: the queues of timeline-controller.ts  *)
(* on a page of feeds.                                                     *)
THEOREM FeedNobodyWaitsUnseen == FeedSpec => []NobodyWaitsUnseen
<1>1. [FeedNext]_vars => [Step]_vars BY DEF Step
<1>2. FeedSpec => []Tended
  BY <1>1, FeedInv, FeedStopsForGood, TendedInit, TendedStep, PTL DEF FeedSpec
<1>3. QED BY <1>2, FeedInv, TendedEnough, PTL

(* And on a page of posts.                                                 *)
THEOREM PostNobodyWaitsUnseen == PostSpec => []NobodyWaitsUnseen
<1>1. [PostNext]_vars => [Step]_vars BY DEF Step
<1>2. PostSpec => []Tended
  BY <1>1, PostInv, PostStopsForGood, TendedInit, TendedStep, PTL DEF PostSpec
<1>3. QED BY <1>2, PostInv, TendedEnough, PTL

-----------------------------------------------------------------------------
(* The tree of a thread.  Some number of a set of natural numbers is the   *)
(* least: what takes the place of induction below.                         *)
LEMMA LeastNumber ==
  ASSUME NEW T, T \subseteq Nat, T # {}
  PROVE  \E n \in T : \A m \in T : n <= m
<1> DEFINE R == {ss \in Nat \X Nat : ss[1] < ss[2]}
<1>1. IsWellFoundedOn(R, Nat)
  BY NatLessThanWellFounded DEF OpToRel
<1>2. \A x, y \in Nat : y < x => <<y, x>> \in R
  OBVIOUS
<1> HIDE DEF R
<1>3. PICK n \in T : \A m \in T : ~ (<<m, n>> \in R)
  BY <1>1, WFMin
<1>4. \A m \in T : ~ (m < n)
  BY <1>2, <1>3
<1>5. QED BY <1>4

(* What is computed step by step, from a, has been computed after n steps. *)
Computed(f, a, step, n) == f[0] = a /\ \A i \in 1..n : f[i] = step[<<i, f[i - 1]>>]

LEMMA Computes ==
  ASSUME NEW S, NEW a \in S, NEW step \in [Nat \X S -> S], NEW n \in Nat
  PROVE  \E f \in [0..n -> S] : Computed(f, a, step, n)
<1> DEFINE Works(m) == \E f \in [0..m -> S] : Computed(f, a, step, m)
           T == {m \in Nat : ~Works(m)}
<1>1. Works(0)
  <2>1. [i \in 0..0 |-> a] \in [0..0 -> S] OBVIOUS
  <2>2. Computed([i \in 0..0 |-> a], a, step, 0) BY DEF Computed
  <2>3. QED BY <2>1, <2>2
<1>2. ASSUME NEW m \in Nat, m > 0, Works(m - 1) PROVE Works(m)
  <2>1. PICK f \in [0..(m - 1) -> S] : Computed(f, a, step, m - 1) BY <1>2
  <2> DEFINE g == [i \in 0..m |-> IF i = m THEN step[<<m, f[m - 1]>>] ELSE f[i]]
  <2>2. step[<<m, f[m - 1]>>] \in S BY <1>2
  <2>3. g \in [0..m -> S] BY <1>2, <2>2
  <2>4. g[0] = a BY <1>2, <2>1 DEF Computed
  <2>5. ASSUME NEW i \in 1..m PROVE g[i] = step[<<i, g[i - 1]>>]
    <3>1. g[i - 1] = f[i - 1] BY <2>5
    <3>2. CASE i = m
      <4>1. g[i] = step[<<m, f[m - 1]>>] BY <3>2
      <4>2. QED BY <3>1, <3>2, <4>1
    <3>3. CASE i # m
      <4>1. i \in 1..(m - 1) BY <1>2, <3>3
      <4>2. f[i] = step[<<i, f[i - 1]>>] BY <2>1, <4>1 DEF Computed
      <4>3. g[i] = f[i] BY <3>3
      <4>4. QED BY <3>1, <4>2, <4>3
    <3>4. QED BY <3>2, <3>3
  <2> HIDE DEF g
  <2>6. QED BY <2>3, <2>4, <2>5 DEF Computed
<1> HIDE DEF Works
<1>3. T = {}
  <2> SUFFICES ASSUME T # {} PROVE FALSE OBVIOUS
  <2>1. PICK m \in T : \A k \in T : m <= k BY LeastNumber
  <2>2. m \in Nat /\ m > 0 BY <1>1
  <2>3. m - 1 \in Nat /\ ~(m <= m - 1) BY <2>2
  <2>4. Works(m - 1) BY <2>1, <2>3
  <2>5. QED BY <1>2, <2>2, <2>4
<1>4. QED BY <1>3 DEF Works

(* s has every element of S once.                                          *)
Lists(s, S) ==
  /\ Len(s) \in Nat /\ s \in [1..Len(s) -> S]
  /\ \A i, j \in 1..Len(s) : s[i] = s[j] => i = j
  /\ \A x \in S : \E i \in 1..Len(s) : s[i] = x

LEMMA ListsRange ==
  ASSUME NEW s, NEW S, Lists(s, S)
  PROVE  Len(s) \in Nat /\ {s[j] : j \in 1..Len(s)} = S
<1>1. Len(s) \in Nat /\ \A j \in 1..Len(s) : s[j] \in S
  BY DEF Lists
<1>2. \A x \in S : \E j \in 1..Len(s) : s[j] = x
  BY DEF Lists
<1>3. QED BY <1>1, <1>2

LEMMA ListsCount ==
  ASSUME NEW s, NEW S, Lists(s, S)
  PROVE  IsFiniteSet(S) /\ Cardinality(S) = Len(s)
<1>1. s \in Injection(1..Len(s), S) /\ s \in Surjection(1..Len(s), S)
  BY DEF Lists, Injection, Surjection, IsInjective
<1>2. IsFiniteSet(1..Len(s)) /\ Cardinality(1..Len(s)) = Len(s)
  BY FS_Interval DEF Lists
<1>3. QED BY <1>1, <1>2, FS_Surjection

LEMMA ListsJoin ==
  ASSUME NEW s, NEW S, NEW t, NEW T, Lists(s, S), Lists(t, T), S \cap T = {}
  PROVE  /\ Lists(s \o t, S \cup T) /\ Len(s \o t) = Len(s) + Len(t)
         /\ \A j \in 1..Len(s) : (s \o t)[j] = s[j]
<1> DEFINE r == s \o t
           m == Len(s)
           n == Len(t)
<1>1. m \in Nat /\ n \in Nat /\ s \in [1..m -> S] /\ t \in [1..n -> T]
  BY DEF Lists
<1>2. s \in Seq(S \cup T) /\ t \in Seq(S \cup T)
  BY <1>1
<1>3. r \in Seq(S \cup T) /\ Len(r) = m + n
      /\ \A j \in 1..(m + n) : r[j] = IF j <= m THEN s[j] ELSE t[j - m]
  BY <1>2, ConcatProperties
<1>4. r \in [1..(m + n) -> S \cup T]
  <2> HIDE DEF r, m, n
  <2>1. QED BY <1>3, LenProperties
<1>5. ASSUME NEW i \in 1..(m + n), NEW j \in 1..(m + n), r[i] = r[j] PROVE i = j
  <2>1. CASE i <= m /\ j <= m
    <3>1. i \in 1..m /\ j \in 1..m /\ s[i] = s[j] BY <1>1, <1>3, <1>5, <2>1
    <3>2. QED BY <3>1 DEF Lists
  <2>2. CASE ~(i <= m) /\ ~(j <= m)
    <3>1. i - m \in 1..n /\ j - m \in 1..n /\ t[i - m] = t[j - m] BY <1>1, <1>3, <1>5, <2>2
    <3>2. i - m = j - m BY <3>1 DEF Lists
    <3>3. QED BY <1>1, <3>2
  <2>3. CASE i <= m /\ ~(j <= m)
    <3>1. i \in 1..m /\ j - m \in 1..n /\ s[i] = t[j - m] BY <1>1, <1>3, <1>5, <2>3
    <3>2. s[i] \in S /\ t[j - m] \in T BY <1>1, <3>1
    <3>3. QED BY <3>1, <3>2
  <2>4. CASE ~(i <= m) /\ j <= m
    <3>1. j \in 1..m /\ i - m \in 1..n /\ s[j] = t[i - m] BY <1>1, <1>3, <1>5, <2>4
    <3>2. s[j] \in S /\ t[i - m] \in T BY <1>1, <3>1
    <3>3. QED BY <3>1, <3>2
  <2>5. QED BY <2>1, <2>2, <2>3, <2>4
<1>6. ASSUME NEW x \in S \cup T PROVE \E i \in 1..(m + n) : r[i] = x
  <2>1. CASE x \in S
    <3>1. PICK i \in 1..m : s[i] = x BY <2>1 DEF Lists
    <3>2. i \in 1..(m + n) /\ r[i] = x BY <1>1, <1>3, <3>1
    <3>3. QED BY <3>2
  <2>2. CASE x \in T
    <3>1. PICK i \in 1..n : t[i] = x BY <2>2 DEF Lists
    <3>2. m + i \in 1..(m + n) /\ ~(m + i <= m) /\ (m + i) - m = i BY <1>1
    <3>3. r[m + i] = x BY <1>3, <3>1, <3>2
    <3>4. QED BY <3>2, <3>3
  <2>3. QED BY <2>1, <2>2
<1>7. \A j \in 1..m : r[j] = s[j]
  BY <1>1, <1>3
<1>8. Lists(r, S \cup T)
  <2> HIDE DEF r, m, n
  <2>1. QED BY <1>1, <1>3, <1>4, <1>5, <1>6 DEF Lists
<1>9. QED BY <1>3, <1>7, <1>8

(* The children of one reply, the oldest first.                            *)
Kids(key, H, p, rootId) == {r \in H : IsReplyEvent(r, p) /\ ParentKey(r, p, H, rootId) = key}

LEMMA ChildrenListed ==
  ASSUME NEW H \in SUBSET Replies, NEW key, NEW p, NEW rootId
  PROVE  Lists(ChildrenOf(key, H, p, rootId), Kids(key, H, p, rootId))
<1> DEFINE S == Kids(key, H, p, rootId)
           Older(r) == {x \in S : Age[x] < Age[r]}
           rank(r) == Cardinality(Older(r))
           n == Cardinality(S)
           s == ChildrenOf(key, H, p, rootId)
<1>1. S \in SUBSET Replies /\ IsFiniteSet(S) /\ n \in Nat
  BY ThreadAssumption, FS_Subset, FS_CardinalityType DEF Kids
<1>2. s = [i \in 1..n |-> CHOOSE r \in S : rank(r) = i - 1]
  BY DEF ChildrenOf, InOrder, Kids
<1> HIDE DEF S, s
<1>3. \A r \in S : Age[r] \in Nat
  BY <1>1, ThreadAssumption
<1>4. ASSUME NEW r \in S
      PROVE  IsFiniteSet(Older(r)) /\ rank(r) \in Nat /\ rank(r) < n
  <2>1. Older(r) \subseteq S /\ r \notin Older(r) BY <1>3
  <2> HIDE DEF Older
  <2>2. IsFiniteSet(Older(r)) /\ rank(r) <= n /\ rank(r) \in Nat /\ (rank(r) = n => Older(r) = S)
    BY <1>1, <2>1, FS_Subset, FS_CardinalityType
  <2>3. QED BY <1>1, <2>1, <2>2
<1>5. ASSUME NEW r \in S, NEW x \in S, Age[r] < Age[x] PROVE rank(r) < rank(x)
  <2>1. Older(r) \subseteq Older(x) /\ r \in Older(x) /\ r \notin Older(r) BY <1>3, <1>5
  <2>2. IsFiniteSet(Older(x)) /\ rank(r) \in Nat /\ rank(x) \in Nat BY <1>4
  <2> HIDE DEF Older
  <2>3. rank(r) <= rank(x) /\ (rank(r) = rank(x) => Older(r) = Older(x))
    BY <2>1, <2>2, FS_Subset
  <2>4. QED BY <2>1, <2>2, <2>3
<1>6. \A r, x \in S : rank(r) = rank(x) => r = x
  <2>1. \A r, x \in S : r = x \/ Age[r] < Age[x] \/ Age[x] < Age[r]
    BY <1>1, <1>3, ThreadAssumption
  <2>2. \A r \in S : rank(r) \in Nat BY <1>4
  <2> HIDE DEF rank
  <2>3. QED BY <1>5, <2>1, <2>2
<1> DEFINE place == [r \in S |-> rank(r) + 1]
<1>7. place \in [S -> 1..n]
  <2>1. \A r \in S : rank(r) + 1 \in 1..n
    <3>1. \A r \in S : rank(r) \in Nat /\ rank(r) < n BY <1>4
    <3> HIDE DEF rank, n
    <3>2. QED BY <1>1, <3>1
  <2>2. QED BY <2>1
<1>8. \A i \in 1..n : \E r \in S : rank(r) = i - 1
  <2>1. \A r, x \in S : place[r] = place[x] => r = x
    <3>1. \A r \in S : rank(r) \in Nat BY <1>4
    <3> HIDE DEF rank
    <3>2. QED BY <1>6, <3>1
  <2>2. place \in Injection(S, 1..n)
    <3> HIDE DEF place
    <3>1. QED BY <1>7, <2>1 DEF Injection, IsInjective
  <2>3. IsFiniteSet(1..n) /\ Cardinality(1..n) = n BY <1>1, FS_Interval
  <2>4. place \in Surjection(S, 1..n)
    <3> HIDE DEF place
    <3>1. QED BY <2>2, <2>3, FS_Injection
  <2>5. ASSUME NEW i \in 1..n PROVE \E r \in S : rank(r) = i - 1
    <3>1. PICK r \in S : place[r] = i BY <2>4 DEF Surjection
    <3>2. rank(r) \in Nat /\ rank(r) + 1 = i BY <1>4, <3>1
    <3> HIDE DEF rank
    <3>3. rank(r) = i - 1 BY <3>2
    <3>4. QED BY <3>3
  <2>6. QED BY <2>5
<1>9. \A i \in 1..n : s[i] \in S /\ rank(s[i]) = i - 1
  <2> HIDE DEF rank, n
  <2>1. QED BY <1>2, <1>8
<1>10. \A r \in S : \E i \in 1..n : s[i] = r
  <2>1. ASSUME NEW r \in S PROVE \E i \in 1..n : s[i] = r
    <3>1. rank(r) \in Nat /\ rank(r) < n BY <1>4
    <3> HIDE DEF rank, n
    <3>2. rank(r) + 1 \in 1..n /\ (rank(r) + 1) - 1 = rank(r) BY <1>1, <3>1
    <3>3. s[rank(r) + 1] = r BY <1>6, <1>9, <3>2
    <3>4. QED BY <3>2, <3>3
  <2>2. QED BY <2>1
<1>11. \A i, j \in 1..n : s[i] = s[j] => i = j
  <2> HIDE DEF rank
  <2>1. \A i, j \in 1..n : s[i] = s[j] => i - 1 = j - 1 BY <1>9
  <2> HIDE DEF n
  <2>2. QED BY <1>1, <2>1
<1>12. s \in [1..n -> S] /\ Len(s) = n
  <2> HIDE DEF rank, n
  <2>1. s \in [1..n -> S] BY <1>2, <1>9
  <2>2. QED BY <1>1, <2>1
<1> HIDE DEF n
<1>13. Lists(s, S) BY <1>1, <1>10, <1>11, <1>12 DEF Lists
<1>14. QED BY <1>13 DEF s, S

(* Lists of disjoint sets, one after the other: a list of their union, in  *)
(* which each set comes before those after it.                             *)
UpTo(parts, m) == UNION {parts[i] : i \in 1..m}
InTurn(s, parts, m) ==
  /\ Lists(s, UpTo(parts, m))
  /\ \A k \in 0..m : \E c \in 0..Len(s) : {s[j] : j \in 1..c} = UpTo(parts, k)

LEMMA Flattened ==
  ASSUME NEW n \in Nat, NEW seqs \in [1..n -> Seq(Replies)], NEW parts \in [1..n -> SUBSET Replies],
         \A i \in 1..n : Lists(seqs[i], parts[i]),
         \A i, j \in 1..n : i # j => parts[i] \cap parts[j] = {}
  PROVE  FlattenSeq(seqs) \in Seq(Replies) /\ InTurn(FlattenSeq(seqs), parts, n)
<1>0. seqs \in Seq(Seq(Replies)) /\ Len(seqs) = n
  OBVIOUS
<1>1. CASE n = 0
  <2>1. FlattenSeq(seqs) = seqs BY <1>0, <1>1 DEF FlattenSeq
  <2>2. seqs = <<>> BY <1>0, <1>1, EmptySeq
  <2>3. \A k \in 0..n : UpTo(parts, k) = {} BY <1>1 DEF UpTo
  <2>4. Lists(<<>>, {}) BY DEF Lists
  <2>5. \A k \in 0..n : 0 \in 0..Len(<<>>) /\ {<<>>[j] : j \in 1..0} = UpTo(parts, k) BY <2>3
  <2>6. InTurn(<<>>, parts, n) BY <1>1, <2>3, <2>4, <2>5 DEF InTurn
  <2>7. QED BY <2>1, <2>2, <2>6
<1>2. CASE n > 0
  <2> DEFINE step == [x \in Nat \X Seq(Replies) |-> IF x[1] + 1 \in 1..n THEN x[2] \o seqs[x[1] + 1] ELSE x[2]]
             Flat(g) == g = [i \in 1..n |-> IF i = 1 THEN seqs[i] ELSE g[i - 1] \o seqs[i]]
             g == CHOOSE g : Flat(g)
  <2>1. \A x \in Nat \X Seq(Replies) :
          (IF x[1] + 1 \in 1..n THEN x[2] \o seqs[x[1] + 1] ELSE x[2]) \in Seq(Replies)
    BY ConcatProperties
  <2>2. step \in [Nat \X Seq(Replies) -> Seq(Replies)] BY <2>1
  <2>3. seqs[1] \in Seq(Replies) /\ n - 1 \in Nat BY <1>2
  <2>4. PICK f \in [0..(n - 1) -> Seq(Replies)] : Computed(f, seqs[1], step, n - 1)
    <3> HIDE DEF step
    <3>1. QED BY <2>2, <2>3, Computes
  <2>5. Flat([i \in 1..n |-> f[i - 1]])
    <3> DEFINE h == [i \in 1..n |-> f[i - 1]]
    <3>1. ASSUME NEW i \in 1..n PROVE h[i] = IF i = 1 THEN seqs[i] ELSE h[i - 1] \o seqs[i]
      <4>1. CASE i = 1 BY <2>4, <4>1 DEF Computed
      <4>2. CASE i # 1
        <5>1. i - 1 \in 1..(n - 1) /\ i - 1 \in Nat /\ (i - 1) + 1 = i /\ i - 1 \in 1..n /\ (i - 1) - 1 \in 0..(n - 1) BY <4>2
        <5>2. f[i - 1] = step[<<i - 1, f[(i - 1) - 1]>>] BY <2>4, <5>1 DEF Computed
        <5>3. f[(i - 1) - 1] \in Seq(Replies) BY <5>1
        <5>4. step[<<i - 1, f[(i - 1) - 1]>>] = f[(i - 1) - 1] \o seqs[i] BY <5>1, <5>3
        <5>5. h[i - 1] = f[(i - 1) - 1] /\ h[i] = f[i - 1] BY <5>1
        <5>6. QED BY <4>2, <5>2, <5>4, <5>5
      <4>3. QED BY <4>1, <4>2
    <3> DEFINE new == [i \in 1..n |-> IF i = 1 THEN seqs[i] ELSE h[i - 1] \o seqs[i]]
    <3>2. h = [i \in 1..n |-> h[i]] OBVIOUS
    <3> HIDE DEF h
    <3>3. h = new BY <3>1, <3>2
    <3>4. Flat(h) BY <3>3
    <3>5. QED BY <3>4 DEF h
  <2>6. Flat(g)
    <3> HIDE DEF Flat
    <3>1. QED BY <2>5
  <2>7. g[1] = seqs[1] /\ \A i \in 2..n : g[i] = g[i - 1] \o seqs[i]
    <3>1. \A i \in 1..n : g[i] = IF i = 1 THEN seqs[i] ELSE g[i - 1] \o seqs[i]
      <4> HIDE DEF g
      <4>1. QED BY <2>6
    <3> HIDE DEF g
    <3>2. 1 \in 1..n /\ \A i \in 2..n : i \in 1..n /\ i # 1 BY <1>2
    <3>3. QED BY <3>1, <3>2
  <2>8. FlattenSeq(seqs) = g[n] BY <1>0, <1>2 DEF FlattenSeq
  <2> HIDE DEF g
  <2> DEFINE Good(m) == g[m] \in Seq(Replies) /\ InTurn(g[m], parts, m)
             Bad == {m \in Nat : m \in 1..n /\ ~Good(m)}
  <2>9. Good(1)
    <3>1. UpTo(parts, 1) = parts[1] /\ UpTo(parts, 0) = {} BY <1>2 DEF UpTo
    <3>2. Lists(seqs[1], parts[1]) BY <1>2
    <3>3. {seqs[1][j] : j \in 1..Len(seqs[1])} = parts[1] /\ Len(seqs[1]) \in 0..Len(seqs[1])
      BY <3>2 DEF Lists
    <3>4. {seqs[1][j] : j \in 1..0} = {} /\ 0 \in 0..Len(seqs[1]) BY <3>2 DEF Lists
    <3>5. \A k \in 0..1 : k = 0 \/ k = 1 OBVIOUS
    <3>6. ASSUME NEW k \in 0..1
          PROVE  \E c \in 0..Len(seqs[1]) : {seqs[1][j] : j \in 1..c} = UpTo(parts, k)
      <4>1. CASE k = 0 BY <3>1, <3>4, <4>1
      <4>2. CASE k = 1 BY <3>1, <3>3, <4>2
      <4>3. QED BY <3>5, <4>1, <4>2
    <3>7. InTurn(seqs[1], parts, 1) BY <3>1, <3>2, <3>6 DEF InTurn
    <3>8. QED BY <2>3, <2>7, <3>7
  <2>10. ASSUME NEW m \in 2..n, Good(m - 1) PROVE Good(m)
    <3>1. /\ g[m] = g[m - 1] \o seqs[m] /\ m \in 1..n /\ m - 1 \in 1..n
          /\ g[m - 1] \in Seq(Replies) /\ seqs[m] \in Seq(Replies)
      <4>1. m \in 1..n /\ m - 1 \in 1..n OBVIOUS
      <4>2. g[m] = g[m - 1] \o seqs[m] BY <2>7
      <4>3. g[m - 1] \in Seq(Replies) BY <2>10
      <4>4. QED BY <4>1, <4>2, <4>3
    <3>2. UpTo(parts, m) = UpTo(parts, m - 1) \cup parts[m]
      <4>1. \A i \in 1..m : i = m \/ i \in 1..(m - 1) OBVIOUS
      <4>2. 1..(m - 1) \subseteq 1..m /\ m \in 1..m OBVIOUS
      <4>3. QED BY <4>1, <4>2 DEF UpTo
    <3>3. UpTo(parts, m - 1) \cap parts[m] = {}
      <4>1. ASSUME NEW i \in 1..(m - 1) PROVE parts[i] \cap parts[m] = {}
        <5>1. i \in 1..n /\ m \in 1..n /\ i # m OBVIOUS
        <5>2. QED BY <5>1
      <4>2. QED BY <4>1 DEF UpTo
    <3>4. Lists(g[m - 1], UpTo(parts, m - 1)) /\ Lists(seqs[m], parts[m])
      BY <2>10, <3>1 DEF InTurn
    <3>5. /\ Lists(g[m], UpTo(parts, m)) /\ Len(g[m]) = Len(g[m - 1]) + Len(seqs[m])
          /\ \A j \in 1..Len(g[m - 1]) : g[m][j] = g[m - 1][j]
      <4> DEFINE s == g[m - 1]
                 t == seqs[m]
                 S == UpTo(parts, m - 1)
                 T == parts[m]
      <4>1. Lists(s, S) /\ Lists(t, T) /\ S \cap T = {} BY <3>3, <3>4
      <4>2. g[m] = s \o t /\ UpTo(parts, m) = S \cup T BY <3>1, <3>2
      <4> HIDE DEF s, t, S, T
      <4>3. /\ Lists(s \o t, S \cup T) /\ Len(s \o t) = Len(s) + Len(t)
            /\ \A j \in 1..Len(s) : (s \o t)[j] = s[j]
        BY <4>1, ListsJoin
      <4>4. /\ Lists(g[m], UpTo(parts, m)) /\ Len(g[m]) = Len(s) + Len(t)
            /\ \A j \in 1..Len(s) : g[m][j] = s[j]
        BY <4>2, <4>3
      <4>5. QED BY <4>4 DEF s, t
    <3>6. ASSUME NEW k \in 0..m
          PROVE  \E c \in 0..Len(g[m]) : {g[m][j] : j \in 1..c} = UpTo(parts, k)
      <4>1. CASE k = m
        <5>1. Lists(g[m], UpTo(parts, m)) BY <3>5
        <5>2. Len(g[m]) \in Nat /\ {g[m][j] : j \in 1..Len(g[m])} = UpTo(parts, m) BY <5>1, ListsRange
        <5>3. Len(g[m]) \in 0..Len(g[m]) BY <5>2
        <5>4. QED BY <4>1, <5>2, <5>3
      <4>2. CASE k # m
        <5>1. k \in 0..(m - 1) BY <4>2
        <5>2. PICK c \in 0..Len(g[m - 1]) : {g[m - 1][j] : j \in 1..c} = UpTo(parts, k)
          BY <2>10, <5>1 DEF InTurn
        <5>3. Len(g[m - 1]) \in Nat /\ Len(seqs[m]) \in Nat BY <3>4 DEF Lists
        <5>4. c \in 0..Len(g[m]) /\ \A j \in 1..c : j \in 1..Len(g[m - 1])
          <6> DEFINE a == Len(g[m - 1])
                     b == Len(seqs[m])
          <6>1. Len(g[m]) = a + b /\ a \in Nat /\ b \in Nat /\ c \in 0..a BY <3>5, <5>3
          <6> HIDE DEF a, b
          <6>2. c \in 0..(a + b) BY <6>1
          <6>3. \A j \in 1..c : j \in 1..a BY <6>1
          <6>4. c \in 0..Len(g[m]) BY <6>1, <6>2
          <6>5. QED BY <6>3, <6>4 DEF a
        <5>5. {g[m][j] : j \in 1..c} = {g[m - 1][j] : j \in 1..c}
          <6> DEFINE s == g[m]
                     t == g[m - 1]
                     C == 1..c
          <6>1. \A j \in C : s[j] = t[j] BY <3>5, <5>4
          <6> HIDE DEF s, t, C
          <6>2. {s[j] : j \in C} = {t[j] : j \in C} BY <6>1
          <6>3. QED BY <6>2 DEF s, t, C
        <5>6. QED BY <5>2, <5>4, <5>5
      <4>3. QED BY <4>1, <4>2
    <3>7. g[m] \in Seq(Replies) BY <3>1, ConcatProperties
    <3>8. QED BY <3>5, <3>6, <3>7 DEF InTurn
  <2> HIDE DEF Good
  <2>11. Bad = {}
    <3> SUFFICES ASSUME Bad # {} PROVE FALSE OBVIOUS
    <3>1. PICK m \in Bad : \A k \in Bad : m <= k BY LeastNumber
    <3>2. m \in 2..n BY <2>9, <3>1
    <3>3. m - 1 \in 1..n /\ m - 1 \in Nat /\ ~(m <= m - 1) BY <3>2
    <3>4. Good(m - 1) BY <3>1, <3>3
    <3>5. QED BY <2>10, <3>2, <3>4
  <2>12. Good(n)
    <3>1. n \in Nat /\ n \in 1..n BY <1>2
    <3>2. QED BY <2>11, <3>1
  <2>13. QED BY <2>8, <2>12 DEF Good
<1>3. QED BY <1>1, <1>2

(* The levels below a root, where K says what each reply of H answers.     *)
Levels(L, K, H, root, n) ==
  L = [d \in 0..n |-> IF d = 0 THEN {root} ELSE {r \in H : K[r] \in L[d - 1]}]

LEMMA LevelsAre ==
  ASSUME NEW L, NEW K, NEW H, NEW root, NEW n \in Nat
  PROVE  Levels(L, K, H, root, n) <=>
           /\ L = [d \in 0..n |-> L[d]]
           /\ L[0] = {root} /\ \A d \in 1..n : L[d] = {r \in H : K[r] \in L[d - 1]}
<1> DEFINE next(d) == IF d = 0 THEN {root} ELSE {r \in H : K[r] \in L[d - 1]}
<1>1. Levels(L, K, H, root, n) <=> L = [d \in 0..n |-> next(d)]
  BY DEF Levels
<1>2. 0 \in 0..n /\ \A d \in 1..n : d \in 0..n /\ d # 0
  OBVIOUS
<1>3. \A d \in 0..n : d = 0 \/ d \in 1..n
  OBVIOUS
<1>4. next(0) = {root} /\ \A d \in 1..n : next(d) = {r \in H : K[r] \in L[d - 1]}
  BY <1>2
<1> HIDE DEF next
<1>5. L = [d \in 0..n |-> next(d)] <=> L = [d \in 0..n |-> L[d]] /\ \A d \in 0..n : L[d] = next(d)
  OBVIOUS
<1>6. (\A d \in 0..n : L[d] = next(d)) <=> L[0] = next(0) /\ \A d \in 1..n : L[d] = next(d)
  BY <1>2, <1>3
<1>7. (L[0] = next(0) /\ \A d \in 1..n : L[d] = next(d))
        <=> L[0] = {root} /\ \A d \in 1..n : L[d] = {r \in H : K[r] \in L[d - 1]}
  BY <1>4
<1>8. QED BY <1>1, <1>5, <1>6, <1>7

LEMMA LevelsExist ==
  ASSUME NEW K, NEW H, NEW root, NEW n \in Nat
  PROVE  \E L : Levels(L, K, H, root, n)
<1> DEFINE S == SUBSET (H \cup {root})
           step == [x \in Nat \X S |-> {r \in H : K[r] \in x[2]}]
<1>1. step \in [Nat \X S -> S] /\ {root} \in S
  OBVIOUS
<1>2. PICK f \in [0..n -> S] : Computed(f, {root}, step, n)
  <2> HIDE DEF S, step
  <2>1. QED BY <1>1, Computes
<1>3. ASSUME NEW d \in 1..n PROVE f[d] = {r \in H : K[r] \in f[d - 1]}
  <2>1. d \in Nat /\ d - 1 \in 0..n OBVIOUS
  <2>2. f[d - 1] \in S BY <2>1
  <2>3. step[<<d, f[d - 1]>>] = {r \in H : K[r] \in f[d - 1]}
    <3> HIDE DEF S
    <3>1. QED BY <2>1, <2>2
  <2>4. QED BY <1>2, <2>3 DEF Computed
<1>4. f = [d \in 0..n |-> f[d]] /\ f[0] = {root}
  BY <1>2 DEF Computed
<1>5. Levels(f, K, H, root, n)
  BY <1>3, <1>4, LevelsAre
<1>6. QED BY <1>5

LEMMA LevelsAgree ==
  ASSUME NEW L, NEW M, NEW K, NEW H, NEW root, NEW n \in Nat, NEW m \in Nat,
         Levels(L, K, H, root, n), Levels(M, K, H, root, m)
  PROVE  \A d \in (0..n) \cap (0..m) : L[d] = M[d]
<1> DEFINE Bad == {d \in Nat : d \in (0..n) \cap (0..m) /\ L[d] # M[d]}
<1>1. /\ L[0] = {root} /\ \A d \in 1..n : L[d] = {r \in H : K[r] \in L[d - 1]}
      /\ M[0] = {root} /\ \A d \in 1..m : M[d] = {r \in H : K[r] \in M[d - 1]}
  BY LevelsAre
<1>2. Bad = {}
  <2> SUFFICES ASSUME Bad # {} PROVE FALSE OBVIOUS
  <2>1. PICK d \in Bad : \A e \in Bad : d <= e BY LeastNumber
  <2>2. d \in 1..n /\ d \in 1..m
    <3>1. L[0] = M[0] BY <1>1
    <3>2. d \in Nat /\ d \in 0..n /\ d \in 0..m /\ d # 0 BY <2>1, <3>1
    <3>3. QED BY <3>2
  <2>3. d - 1 \in Nat /\ d - 1 \in (0..n) \cap (0..m) /\ ~(d <= d - 1) BY <2>2
  <2>4. L[d - 1] = M[d - 1] BY <2>1, <2>3
  <2>5. L[d] = {r \in H : K[r] \in L[d - 1]} /\ M[d] = {r \in H : K[r] \in M[d - 1]}
    BY <1>1, <2>2
  <2>6. L[d] = M[d] BY <2>4, <2>5
  <2>7. QED BY <2>1, <2>6
<1>3. QED BY <1>2

(* Levels do not overlap, since a reply answers one thing.                 *)
LEMMA LevelsApart ==
  ASSUME NEW L, NEW K, NEW H, NEW root, NEW n \in Nat, Levels(L, K, H, root, n), root \notin H
  PROVE  /\ \A d \in 1..n : L[d] \subseteq H
         /\ \A d, e \in 0..n : d < e => L[d] \cap L[e] = {}
<1>1. L[0] = {root} /\ \A d \in 1..n : L[d] = {r \in H : K[r] \in L[d - 1]}
  BY LevelsAre
<1>2. \A d \in 1..n : L[d] \subseteq H
  BY <1>1
<1> DEFINE Bad == {d \in Nat : d \in 0..n /\ \E e \in 0..n : d < e /\ L[d] \cap L[e] # {}}
<1>3. Bad = {}
  <2> SUFFICES ASSUME Bad # {} PROVE FALSE OBVIOUS
  <2>1. PICK d \in Bad : \A e \in Bad : d <= e BY LeastNumber
  <2>2. PICK e \in 0..n : d < e /\ L[d] \cap L[e] # {} BY <2>1
  <2>3. PICK r : r \in L[d] /\ r \in L[e] BY <2>2
  <2>4. e \in 1..n /\ d \in 0..n /\ d \in Nat BY <2>1, <2>2
  <2>5. r \in H /\ K[r] \in L[e - 1] BY <1>1, <2>3, <2>4
  <2>6. d # 0 BY <1>1, <2>3, <2>5
  <2>7. d \in 1..n /\ d - 1 \in Nat /\ d - 1 \in 0..n /\ e - 1 \in 0..n /\ d - 1 < e - 1 /\ ~(d <= d - 1)
    BY <2>2, <2>4, <2>6
  <2>8. K[r] \in L[d - 1] BY <1>1, <2>3, <2>7
  <2>9. d - 1 \in Bad BY <2>5, <2>7, <2>8
  <2>10. QED BY <2>1, <2>7, <2>9
<1>4. QED BY <1>2, <1>3

(* There are no more levels than replies.                                  *)
LEMMA LevelsFew ==
  ASSUME NEW L, NEW K, NEW H, NEW root, NEW n \in Nat, Levels(L, K, H, root, n), root \notin H,
         IsFiniteSet(H), NEW d \in 0..n, L[d] # {}
  PROVE  d <= Cardinality(H)
<1>1. L[0] = {root} /\ \A e \in 1..n : L[e] = {r \in H : K[r] \in L[e - 1]}
  BY LevelsAre
<1> DEFINE Bad == {k \in Nat : k \in 0..d /\ L[d - k] = {}}
<1>2. Bad = {}
  <2> SUFFICES ASSUME Bad # {} PROVE FALSE OBVIOUS
  <2>1. PICK k \in Bad : \A e \in Bad : k <= e BY LeastNumber
  <2>2. k # 0 BY <2>1
  <2>3. k - 1 \in Nat /\ k - 1 \in 0..d /\ ~(k <= k - 1) BY <2>1, <2>2
  <2>4. L[d - (k - 1)] # {} BY <2>1, <2>3
  <2>5. d - (k - 1) \in 1..n /\ (d - (k - 1)) - 1 = d - k BY <2>1, <2>3
  <2>6. PICK r \in H : K[r] \in L[(d - (k - 1)) - 1] BY <1>1, <2>4, <2>5
  <2>7. QED BY <2>1, <2>5, <2>6
<1>3. \A e \in 1..d : L[e] # {}
  <2>1. ASSUME NEW e \in 1..d PROVE L[e] # {}
    <3>1. d - e \in Nat /\ d - e \in 0..d /\ d - (d - e) = e OBVIOUS
    <3>2. d - e \notin Bad BY <1>2
    <3>3. QED BY <3>1, <3>2
  <2>2. QED BY <2>1
<1> DEFINE f == [e \in 1..d |-> CHOOSE r : r \in L[e]]
<1>4. \A e \in 1..d : f[e] \in L[e] /\ L[e] \subseteq H
  BY <1>3, LevelsApart
<1>5. f \in Injection(1..d, H)
  <2>1. f \in [1..d -> H] BY <1>4
  <2>2. ASSUME NEW a \in 1..d, NEW b \in 1..d, f[a] = f[b] PROVE a = b
    <3>1. f[a] \in L[a] /\ f[a] \in L[b] BY <1>4, <2>2
    <3>2. a \in 0..n /\ b \in 0..n /\ L[a] \cap L[b] # {} BY <3>1
    <3>3. ~(a < b) /\ ~(b < a) BY <3>2, LevelsApart
    <3>4. QED BY <3>3
  <2> HIDE DEF f
  <2>3. QED BY <2>1, <2>2 DEF Injection, IsInjective
<1>6. Cardinality(1..d) <= Cardinality(H)
  <2> HIDE DEF f
  <2>1. QED BY <1>5, FS_Injection
<1>7. Cardinality(1..d) = d
  BY FS_Interval
<1>8. QED BY <1>6, <1>7

(* Following what a reply answers upwards, as long as that is here.        *)
Climbs(up, K, H, r, n) ==
  up = [i \in 0..n |-> IF i = 0 THEN r ELSE IF up[i - 1] \in H THEN K[up[i - 1]] ELSE up[i - 1]]

LEMMA ClimbExists ==
  ASSUME NEW K, NEW H, NEW r, NEW n \in Nat
  PROVE  \E up : Climbs(up, K, H, r, n)
<1> DEFINE S == H \cup {r} \cup {K[x] : x \in H}
           step == [x \in Nat \X S |-> IF x[2] \in H THEN K[x[2]] ELSE x[2]]
<1>1. step \in [Nat \X S -> S] /\ r \in S
  OBVIOUS
<1>2. PICK f \in [0..n -> S] : Computed(f, r, step, n)
  <2> HIDE DEF S, step
  <2>1. QED BY <1>1, Computes
<1> DEFINE next(i) == IF i = 0 THEN r ELSE IF f[i - 1] \in H THEN K[f[i - 1]] ELSE f[i - 1]
<1>3. ASSUME NEW i \in 0..n PROVE f[i] = next(i)
  <2>1. CASE i = 0 BY <1>2, <2>1 DEF Computed
  <2>2. CASE i # 0
    <3>1. i \in 1..n /\ i \in Nat /\ i - 1 \in 0..n BY <2>2
    <3>2. f[i - 1] \in S BY <3>1
    <3>3. f[i] = step[<<i, f[i - 1]>>] BY <1>2, <3>1 DEF Computed
    <3>4. step[<<i, f[i - 1]>>] = IF f[i - 1] \in H THEN K[f[i - 1]] ELSE f[i - 1]
      <4> HIDE DEF S
      <4>1. QED BY <3>1, <3>2
    <3>5. QED BY <2>2, <3>3, <3>4
  <2>3. QED BY <2>1, <2>2
<1> DEFINE new == [i \in 0..n |-> next(i)]
<1>4. f = [i \in 0..n |-> f[i]]
  OBVIOUS
<1> HIDE DEF next
<1>5. f = new
  BY <1>3, <1>4
<1>6. Climbs(f, K, H, r, n)
  BY <1>5 DEF Climbs, next
<1>7. QED BY <1>6

(* It ends at the root just from the replies of some level.                *)
LEMMA ClimbsToRoot ==
  ASSUME NEW L, NEW K, NEW H, NEW root, NEW n \in Nat, Levels(L, K, H, root, n), root \notin H,
         IsFiniteSet(H), Cardinality(H) <= n,
         NEW r \in H, NEW up, Climbs(up, K, H, r, Cardinality(H))
  PROVE  up[Cardinality(H)] = root <=> \E d \in 1..n : r \in L[d]
<1> DEFINE N == Cardinality(H)
<1>1. N \in Nat /\ N <= n
  BY FS_CardinalityType
<1>2. L[0] = {root} /\ \A e \in 1..n : L[e] = {x \in H : K[x] \in L[e - 1]}
  BY LevelsAre
<1>3. up[0] = r /\ \A i \in 1..N : up[i] = IF up[i - 1] \in H THEN K[up[i - 1]] ELSE up[i - 1]
  <2>1. \A i \in 0..N : up[i] = IF i = 0 THEN r ELSE IF up[i - 1] \in H THEN K[up[i - 1]] ELSE up[i - 1]
    BY DEF Climbs
  <2>2. 0 \in 0..N /\ \A i \in 1..N : i \in 0..N /\ i # 0 BY <1>1
  <2>3. QED BY <2>1, <2>2
<1> HIDE DEF N
<1>4. ASSUME NEW d \in 1..n, r \in L[d] PROVE up[N] = root
  <2>1. d <= N BY <1>4, LevelsFew DEF N
  <2> DEFINE Bad == {i \in Nat : i \in 0..d /\ up[i] \notin L[d - i]}
  <2>2. Bad = {}
    <3> SUFFICES ASSUME Bad # {} PROVE FALSE OBVIOUS
    <3>1. PICK i \in Bad : \A e \in Bad : i <= e BY LeastNumber
    <3>2. i # 0 BY <1>3, <1>4, <3>1
    <3>3. i - 1 \in Nat /\ i - 1 \in 0..d /\ ~(i <= i - 1) /\ i \in 1..N BY <1>1, <2>1, <3>1, <3>2
    <3>4. up[i - 1] \in L[d - (i - 1)] BY <3>1, <3>3
    <3>5. d - (i - 1) \in 1..n /\ (d - (i - 1)) - 1 = d - i BY <3>1, <3>3
    <3>6. up[i - 1] \in H /\ K[up[i - 1]] \in L[d - i] BY <1>2, <3>4, <3>5
    <3>7. up[i] = K[up[i - 1]] BY <1>3, <3>3, <3>6
    <3>8. QED BY <3>1, <3>6, <3>7
  <2>3. up[d] = root
    <3>1. d \in Nat /\ d \in 0..d /\ d - d = 0 OBVIOUS
    <3>2. QED BY <1>2, <2>2, <3>1
  <2> DEFINE Away == {i \in Nat : i \in d..N /\ up[i] # root}
  <2>4. Away = {}
    <3> SUFFICES ASSUME Away # {} PROVE FALSE OBVIOUS
    <3>1. PICK i \in Away : \A e \in Away : i <= e BY LeastNumber
    <3>2. i # d BY <2>3, <3>1
    <3>3. i - 1 \in Nat /\ i - 1 \in d..N /\ ~(i <= i - 1) /\ i \in 1..N BY <1>1, <3>1, <3>2
    <3>4. up[i - 1] = root BY <3>1, <3>3
    <3>5. up[i] = root BY <1>3, <3>3, <3>4
    <3>6. QED BY <3>1, <3>5
  <2>5. N \in Nat /\ N \in d..N BY <1>1, <2>1
  <2>6. QED BY <2>4, <2>5
<1>5. ASSUME up[N] = root PROVE \E d \in 1..n : r \in L[d]
  <2> DEFINE There == {i \in Nat : i \in 0..N /\ up[i] = root}
  <2>1. N \in There BY <1>1, <1>5
  <2>2. PICK m \in There : \A i \in There : m <= i BY <2>1, LeastNumber
  <2>3. m \in 0..N /\ up[m] = root /\ m # 0 BY <1>3, <2>2
  <2> DEFINE Bad == {i \in Nat : i \in 0..m /\ up[m - i] \notin L[i]}
  <2>4. Bad = {}
    <3> SUFFICES ASSUME Bad # {} PROVE FALSE OBVIOUS
    <3>1. PICK i \in Bad : \A e \in Bad : i <= e BY LeastNumber
    <3>2. i # 0 BY <1>2, <2>3, <3>1
    <3>3. i - 1 \in Nat /\ i - 1 \in 0..m /\ ~(i <= i - 1) BY <3>1, <3>2
    <3>4. up[m - (i - 1)] \in L[i - 1] BY <3>1, <3>3
    <3>5. /\ m - (i - 1) \in 1..N /\ (m - (i - 1)) - 1 = m - i
          /\ m - i \in Nat /\ m - i \in 0..N /\ ~(m <= m - i) /\ i \in 1..n
      BY <1>1, <2>3, <3>1, <3>2, <3>3
    <3>6. up[m - i] # root BY <2>2, <3>5
    <3>7. up[m - (i - 1)] = IF up[m - i] \in H THEN K[up[m - i]] ELSE up[m - i]
      BY <1>3, <3>5
    <3>8. up[m - i] \in H
      <4> SUFFICES ASSUME up[m - i] \notin H PROVE FALSE OBVIOUS
      <4>1. up[m - i] \in L[i - 1] BY <3>4, <3>7
      <4>2. CASE i = 1 BY <1>2, <3>6, <4>1, <4>2
      <4>3. CASE i # 1
        <5>1. i - 1 \in 1..n BY <3>3, <3>5, <4>3
        <5>2. QED BY <1>2, <4>1, <5>1
      <4>4. QED BY <4>2, <4>3
    <3>9. up[m - i] \in L[i] BY <1>2, <3>4, <3>5, <3>7, <3>8
    <3>10. QED BY <3>1, <3>9
  <2>5. m \in Nat /\ m \in 0..m /\ m - m = 0 /\ m \in 1..n BY <1>1, <2>3
  <2>6. r \in L[m] BY <1>3, <2>4, <2>5
  <2>7. QED BY <2>5, <2>6
<1>6. QED BY <1>4, <1>5 DEF N

(* What is below a reply, grown by one generation at a time.               *)
Grows(b, K, H, r, n) ==
  b = [i \in 0..n |-> IF i = 0 THEN {} ELSE {c \in H : K[c] \in {r} \cup b[i - 1]}]

LEMMA GrowsIs ==
  ASSUME NEW b, NEW K, NEW H, NEW r, NEW n \in Nat
  PROVE  Grows(b, K, H, r, n) <=>
           /\ b = [i \in 0..n |-> b[i]]
           /\ b[0] = {} /\ \A i \in 1..n : b[i] = {c \in H : K[c] \in {r} \cup b[i - 1]}
<1> DEFINE next(i) == IF i = 0 THEN {} ELSE {c \in H : K[c] \in {r} \cup b[i - 1]}
<1>1. Grows(b, K, H, r, n) <=> b = [i \in 0..n |-> next(i)]
  BY DEF Grows
<1>2. 0 \in 0..n /\ \A i \in 1..n : i \in 0..n /\ i # 0
  OBVIOUS
<1>3. \A i \in 0..n : i = 0 \/ i \in 1..n
  OBVIOUS
<1>4. next(0) = {} /\ \A i \in 1..n : next(i) = {c \in H : K[c] \in {r} \cup b[i - 1]}
  BY <1>2
<1> HIDE DEF next
<1>5. b = [i \in 0..n |-> next(i)] <=> b = [i \in 0..n |-> b[i]] /\ \A i \in 0..n : b[i] = next(i)
  OBVIOUS
<1>6. (\A i \in 0..n : b[i] = next(i)) <=> b[0] = next(0) /\ \A i \in 1..n : b[i] = next(i)
  BY <1>2, <1>3
<1>7. (b[0] = next(0) /\ \A i \in 1..n : b[i] = next(i))
        <=> b[0] = {} /\ \A i \in 1..n : b[i] = {c \in H : K[c] \in {r} \cup b[i - 1]}
  BY <1>4
<1>8. QED BY <1>1, <1>5, <1>6, <1>7

LEMMA GrowthExists ==
  ASSUME NEW K, NEW H, NEW r, NEW n \in Nat
  PROVE  \E b : Grows(b, K, H, r, n)
<1> DEFINE S == SUBSET H
           step == [x \in Nat \X S |-> {c \in H : K[c] \in {r} \cup x[2]}]
<1>1. step \in [Nat \X S -> S] /\ {} \in S
  OBVIOUS
<1>2. PICK f \in [0..n -> S] : Computed(f, {}, step, n)
  <2> HIDE DEF S, step
  <2>1. QED BY <1>1, Computes
<1>3. ASSUME NEW i \in 1..n PROVE f[i] = {c \in H : K[c] \in {r} \cup f[i - 1]}
  <2>1. i \in Nat /\ i - 1 \in 0..n OBVIOUS
  <2>2. f[i - 1] \in S BY <2>1
  <2>3. step[<<i, f[i - 1]>>] = {c \in H : K[c] \in {r} \cup f[i - 1]}
    <3> HIDE DEF S
    <3>1. QED BY <2>1, <2>2
  <2>4. QED BY <1>2, <2>3 DEF Computed
<1>4. f = [i \in 0..n |-> f[i]] /\ f[0] = {}
  BY <1>2 DEF Computed
<1>5. Grows(f, K, H, r, n)
  BY <1>3, <1>4, GrowsIs
<1>6. QED BY <1>5

(* What is left out at the border of the nodes, and all that is below it.  *)
Border(K, H, root, nodes) == {x \in H \ nodes : K[x] \in {root} \cup nodes}
AllGrow(B, K, H, S) == \A x \in S : Grows(B[x], K, H, x, Cardinality(H))
WithBelow(B, H, S) == S \cup UNION {B[x][Cardinality(H)] : x \in S}
Hang(K, root, nodes) == \A x \in nodes : K[x] \in {root} \cup nodes

(* What is below the skipped replies is the rest of the connected ones,    *)
(* when the placed ones are placed below something placed.                 *)
LEMMA HiddenIsTheRest ==
  ASSUME NEW L, NEW K, NEW H, NEW root, NEW n \in Nat, Levels(L, K, H, root, n), root \notin H,
         IsFiniteSet(H), Cardinality(H) < n,
         NEW nodes, nodes \subseteq UpTo(L, n), Hang(K, root, nodes),
         NEW B, AllGrow(B, K, H, Border(K, H, root, nodes))
  PROVE  WithBelow(B, H, Border(K, H, root, nodes)) = UpTo(L, n) \ nodes
<1> DEFINE skipped == Border(K, H, root, nodes)
<1>0. /\ \A x \in nodes : K[x] \in {root} \cup nodes
      /\ skipped = {x \in H \ nodes : K[x] \in {root} \cup nodes}
      /\ \A x \in skipped : Grows(B[x], K, H, x, Cardinality(H))
  BY DEF Hang, Border, AllGrow
<1> HIDE DEF skipped
<1> DEFINE N == Cardinality(H)
           C == UpTo(L, n)
<1>1. N \in Nat /\ N < n
  BY FS_CardinalityType
<1>2. L[0] = {root} /\ \A e \in 1..n : L[e] = {x \in H : K[x] \in L[e - 1]}
  BY LevelsAre
<1>3. /\ \A x \in skipped : B[x][0] = {}
      /\ \A x \in skipped, i \in 1..N : B[x][i] = {c \in H : K[c] \in {x} \cup B[x][i - 1]}
  BY <1>0, <1>1, GrowsIs
<1>4. \A d \in 0..n : L[d] # {} => d <= N
  BY LevelsFew
<1>5. \A x \in C : x \in H /\ x # root /\ \E d \in 1..n : x \in L[d]
  BY LevelsApart DEF UpTo
<1>6. \A d \in 1..n : L[d] \subseteq C
  BY DEF UpTo
<1> HIDE DEF N, C
<1>7. ASSUME NEW x \in H, K[x] = root \/ K[x] \in C PROVE x \in C
  <2>1. PICK d \in 0..n : K[x] \in L[d]
    <3>1. K[x] = root => K[x] \in L[0] /\ 0 \in 0..n BY <1>2
    <3>2. \A d \in 1..n : d \in 0..n OBVIOUS
    <3>3. QED BY <1>5, <1>7, <3>1, <3>2
  <2>2. d + 1 \in 1..n /\ (d + 1) - 1 = d BY <1>1, <1>4, <2>1
  <2>3. x \in L[d + 1] BY <1>2, <2>1, <2>2
  <2>4. QED BY <1>6, <2>2, <2>3
<1>8. nodes \subseteq C
  BY DEF C
<1>9. skipped \subseteq C \ nodes
  BY <1>0, <1>7, <1>8
<1>10. ASSUME NEW x \in skipped PROVE B[x][N] \subseteq C \ nodes
  <2> DEFINE b == B[x]
             Bad == {i \in Nat : i \in 0..N /\ ~(b[i] \subseteq C \ nodes)}
  <2>1. b[0] = {} /\ \A i \in 1..N : b[i] = {c \in H : K[c] \in {x} \cup b[i - 1]} BY <1>3
  <2> HIDE DEF b
  <2>2. Bad = {}
    <3> SUFFICES ASSUME Bad # {} PROVE FALSE OBVIOUS
    <3>1. PICK i \in Bad : \A e \in Bad : i <= e BY LeastNumber
    <3>2. i # 0 BY <2>1, <3>1
    <3>3. i - 1 \in Nat /\ i - 1 \in 0..N /\ ~(i <= i - 1) /\ i \in 1..N BY <1>1, <3>1, <3>2
    <3>4. b[i - 1] \subseteq C \ nodes BY <3>1, <3>3
    <3>5. ASSUME NEW c \in b[i] PROVE c \in C \ nodes
      <4>1. c \in H /\ K[c] \in {x} \cup b[i - 1] BY <2>1, <3>3, <3>5
      <4>2. K[c] \in C \ nodes BY <1>9, <3>4, <4>1
      <4>3. K[c] # root BY <1>5, <4>2
      <4>4. QED BY <1>0, <1>7, <4>1, <4>2, <4>3
    <3>6. QED BY <3>1, <3>5
  <2>3. N \in Nat /\ N \in 0..N BY <1>1
  <2>4. QED BY <2>2, <2>3 DEF b
<1>11. ASSUME NEW x \in skipped, NEW i \in 0..N, NEW c \in B[x][i] PROVE c \in B[x][N]
  <2> DEFINE b == B[x]
             Bad == {j \in Nat : j \in 0..(N - 1) /\ ~(b[j] \subseteq b[j + 1])}
             Lost == {j \in Nat : j \in i..N /\ c \notin b[j]}
  <2>1. b[0] = {} /\ \A j \in 1..N : b[j] = {y \in H : K[y] \in {x} \cup b[j - 1]} BY <1>3
  <2>0. c \in b[i] BY <1>11
  <2> HIDE DEF b
  <2>2. Bad = {}
    <3> SUFFICES ASSUME Bad # {} PROVE FALSE OBVIOUS
    <3>1. PICK j \in Bad : \A e \in Bad : j <= e BY LeastNumber
    <3>2. j # 0 BY <2>1, <3>1
    <3>3. j - 1 \in Nat /\ j - 1 \in 0..(N - 1) /\ ~(j <= j - 1) /\ (j - 1) + 1 = j
      BY <1>1, <3>1, <3>2
    <3>4. b[j - 1] \subseteq b[j] BY <3>1, <3>3
    <3>5. j \in 1..N /\ j + 1 \in 1..N /\ (j + 1) - 1 = j BY <1>1, <3>1, <3>2
    <3>6. b[j] = {y \in H : K[y] \in {x} \cup b[j - 1]} /\ b[j + 1] = {y \in H : K[y] \in {x} \cup b[j]}
      BY <2>1, <3>5
    <3>7. b[j] \subseteq b[j + 1] BY <3>4, <3>6
    <3>8. QED BY <3>1, <3>7
  <2>3. Lost = {}
    <3> SUFFICES ASSUME Lost # {} PROVE FALSE OBVIOUS
    <3>1. PICK j \in Lost : \A e \in Lost : j <= e BY LeastNumber
    <3>2. j # i BY <2>0, <3>1
    <3>3. j - 1 \in Nat /\ j - 1 \in i..N /\ ~(j <= j - 1) /\ (j - 1) + 1 = j /\ j - 1 \in 0..(N - 1)
      BY <1>1, <3>1, <3>2
    <3>4. c \in b[j - 1] BY <3>1, <3>3
    <3>5. b[j - 1] \subseteq b[j] BY <2>2, <3>3
    <3>6. QED BY <3>1, <3>4, <3>5
  <2>4. N \in Nat /\ N \in i..N BY <1>1
  <2>5. QED BY <2>3, <2>4 DEF b
<1>12. C \ nodes \subseteq skipped \cup UNION {B[x][N] : x \in skipped}
  <2> DEFINE Found(c, d) == c \in skipped \/ \E x \in skipped : c \in B[x][d - 1]
             Bad == {d \in Nat : d \in 1..n /\ \E c \in L[d] \ nodes : ~Found(c, d)}
  <2>1. Bad = {}
    <3> SUFFICES ASSUME Bad # {} PROVE FALSE OBVIOUS
    <3>1. PICK d \in Bad : \A e \in Bad : d <= e BY LeastNumber
    <3>2. PICK c \in L[d] \ nodes : ~Found(c, d) BY <3>1
    <3>3. c \in H /\ K[c] \in L[d - 1] /\ d \in 1..n BY <1>2, <3>1, <3>2
    <3>4. K[c] # root /\ K[c] \notin nodes BY <1>0, <3>2, <3>3
    <3>5. d # 1 BY <1>2, <3>3, <3>4
    <3>6. d - 1 \in Nat /\ d - 1 \in 1..n /\ ~(d <= d - 1) BY <3>3, <3>5
    <3>7. Found(K[c], d - 1)
      <4>1. K[c] \in L[d - 1] \ nodes BY <3>3, <3>4
      <4>2. d - 1 \notin Bad BY <3>1, <3>6
      <4> HIDE DEF Found
      <4>3. QED BY <3>6, <4>1, <4>2
    <3>8. d <= N BY <1>4, <3>2, <3>3
    <3>9. d - 1 \in 1..N BY <1>1, <3>6, <3>8
    <3>10. \E x \in skipped : K[c] \in {x} \cup B[x][(d - 1) - 1] BY <3>7
    <3>11. PICK x \in skipped : K[c] \in {x} \cup B[x][(d - 1) - 1] BY <3>10
    <3>12. c \in B[x][d - 1] BY <1>3, <3>3, <3>9, <3>11
    <3>13. QED BY <3>2, <3>12
  <2>2. ASSUME NEW c \in C \ nodes PROVE c \in skipped \cup UNION {B[x][N] : x \in skipped}
    <3>1. PICK d \in 1..n : c \in L[d] BY <1>5
    <3>2. d \in Nat /\ d <= N BY <1>4, <3>1
    <3>3. c \in skipped \/ \E x \in skipped : c \in B[x][d - 1] BY <2>1, <3>1, <3>2
    <3>4. d - 1 \in 0..N BY <1>1, <3>1, <3>2
    <3>5. QED BY <1>11, <3>3, <3>4
  <2>3. QED BY <2>2
<1>13. QED BY <1>9, <1>10, <1>12 DEF N, C, skipped, WithBelow

(* The replies one level down, listed by the level above.                  *)
ParentIn(H, p, rootId) == [r \in H |-> ParentKey(r, p, H, rootId)]

LEMMA NextLevelListed ==
  ASSUME NEW H \in SUBSET Replies, NEW p, NEW rootId, \A r \in H : IsReplyEvent(r, p),
         NEW s, NEW T, Lists(s, T)
  PROVE  LET next == FlattenSeq([i \in DOMAIN s |-> ChildrenOf(s[i], H, p, rootId)])
         IN  /\ next \in Seq(Replies)
             /\ Lists(next, {r \in H : ParentIn(H, p, rootId)[r] \in T})
<1> DEFINE n == Len(s)
           kids(i) == ChildrenOf(s[i], H, p, rootId)
           seqs == [i \in 1..n |-> kids(i)]
           parts == [i \in 1..n |-> Kids(s[i], H, p, rootId)]
<1>1. n \in Nat /\ DOMAIN s = 1..n /\ (\A i \in 1..n : s[i] \in T) /\ \A x \in T : \E i \in 1..n : s[i] = x
  BY DEF Lists
<1>2. \A i \in 1..n : Lists(kids(i), Kids(s[i], H, p, rootId))
  BY ChildrenListed
<1>3. \A i \in 1..n : Kids(s[i], H, p, rootId) \in SUBSET Replies
  BY DEF Kids
<1>4. ASSUME NEW i \in 1..n PROVE kids(i) \in Seq(Replies)
  <2> DEFINE c == kids(i)
             S == Kids(s[i], H, p, rootId)
  <2>1. Lists(c, S) /\ S \in SUBSET Replies BY <1>2, <1>3
  <2> HIDE DEF c, S
  <2>2. Len(c) \in Nat /\ c \in [1..Len(c) -> Replies] BY <2>1 DEF Lists
  <2>3. c \in Seq(Replies) BY <2>2
  <2>4. QED BY <2>3 DEF c
<1>5. \A i, j \in 1..n : i # j => parts[i] \cap parts[j] = {}
  <2>1. \A i, j \in 1..n : i # j => s[i] # s[j] BY DEF Lists
  <2>2. QED BY <2>1 DEF Kids
<1>6. parts \in [1..n -> SUBSET Replies] /\ seqs \in [1..n -> Seq(Replies)]
      /\ \A i \in 1..n : Lists(seqs[i], parts[i])
  <2> HIDE DEF n, kids
  <2>1. QED BY <1>2, <1>3, <1>4
<1>7. FlattenSeq(seqs) \in Seq(Replies) /\ Lists(FlattenSeq(seqs), UpTo(parts, n))
  <2> HIDE DEF n, seqs, parts
  <2>1. QED BY <1>1, <1>5, <1>6, Flattened DEF InTurn
<1>8. UpTo(parts, n) = {r \in H : ParentIn(H, p, rootId)[r] \in T}
  BY <1>1 DEF UpTo, Kids, ParentIn
<1>9. seqs = [i \in DOMAIN s |-> ChildrenOf(s[i], H, p, rootId)]
  BY <1>1
<1> HIDE DEF n, seqs, parts
<1>10. QED BY <1>7, <1>8, <1>9

(* What the cap lets through.                                              *)
Room(n) == IF n < MaxNodes THEN n ELSE MaxNodes
Capped(all) == SubSeq(all, 1, Room(Len(all)))

(* The nodes in the order they are placed: level by level, up to the cap.  *)
LEMMA PlacedInLevels ==
  ASSUME NEW H \in SUBSET Replies, NEW p, NEW rootId, \A r \in H : IsReplyEvent(r, p),
         NEW m \in Nat \ {0}, NEW n \in Nat, m <= n,
         NEW L, Levels(L, ParentIn(H, p, rootId), H, RootKey(p), n), RootKey(p) \notin H
  PROVE  \E all : /\ all \in Seq(Replies) /\ InTurn(all, L, m)
                  /\ Placed(H, p, rootId, m) = Capped(all)
<1> DEFINE K == ParentIn(H, p, rootId)
           root == RootKey(p)
           top == ChildrenOf(root, H, p, rootId)
           under(s) == FlattenSeq([i \in DOMAIN s |-> ChildrenOf(s[i], H, p, rootId)])
           S == {s \in Seq(Replies) : \E T \in SUBSET H : Lists(s, T)}
           step == [x \in Nat \X S |-> under(x[2])]
           Is(l) == l = [d \in 1..m |-> IF d = 1 THEN ChildrenOf(RootKey(p), H, p, rootId)
                         ELSE FlattenSeq([i \in DOMAIN l[d - 1] |-> ChildrenOf(l[d - 1][i], H, p, rootId)])]
           l == CHOOSE l : Is(l)
           all == FlattenSeq([d \in 1..m |-> l[d]])
<1>1. L[0] = {root} /\ \A d \in 1..n : L[d] = {r \in H : K[r] \in L[d - 1]}
  BY LevelsAre
<1>2. 0 \in 0..n /\ 1 \in 1..n /\ \A d \in 1..m : d \in 1..n
  OBVIOUS
<1> HIDE DEF K
<1>3. ASSUME NEW s, NEW T, Lists(s, T)
      PROVE  under(s) \in Seq(Replies) /\ Lists(under(s), {r \in H : K[r] \in T})
  BY <1>3, NextLevelListed DEF K
<1>4. top \in Seq(Replies) /\ Lists(top, L[1])
  <2>1. Kids(root, H, p, rootId) = L[1] /\ L[1] \in SUBSET Replies
    <3>1. \A r \in H : K[r] = ParentKey(r, p, H, rootId) BY DEF K, ParentIn
    <3>2. L[1] = {r \in H : K[r] \in L[0]} BY <1>1, <1>2
    <3>3. QED BY <1>1, <3>1, <3>2 DEF Kids
  <2>2. Lists(top, L[1]) BY <2>1, ChildrenListed
  <2> HIDE DEF top
  <2>3. Len(top) \in Nat /\ top \in [1..Len(top) -> Replies] BY <2>1, <2>2 DEF Lists
  <2>4. top \in Seq(Replies) BY <2>3
  <2>5. QED BY <2>2, <2>4
<1>5. top \in S
  <2>1. L[1] \in SUBSET H BY <1>1, <1>2
  <2> HIDE DEF top
  <2>2. QED BY <1>4, <2>1
<1>6. step \in [Nat \X S -> S]
  <2>1. ASSUME NEW s \in S PROVE under(s) \in S
    <3>1. PICK T \in SUBSET H : Lists(s, T) BY <2>1
    <3>2. under(s) \in Seq(Replies) /\ Lists(under(s), {r \in H : K[r] \in T}) BY <1>3, <3>1
    <3> HIDE DEF under
    <3>3. QED BY <3>2
  <2> HIDE DEF S, under
  <2>2. QED BY <2>1
<1>7. m - 1 \in Nat
  OBVIOUS
<1>8. PICK f \in [0..(m - 1) -> S] : Computed(f, top, step, m - 1)
  <2> HIDE DEF S, step, top
  <2>1. QED BY <1>5, <1>6, <1>7, Computes
<1>9. Is([d \in 1..m |-> f[d - 1]])
  <2> DEFINE h == [d \in 1..m |-> f[d - 1]]
             next(d) == IF d = 1 THEN top ELSE under(h[d - 1])
  <2>1. ASSUME NEW d \in 1..m PROVE h[d] = next(d)
    <3>1. CASE d = 1 BY <1>8, <3>1 DEF Computed
    <3>2. CASE d # 1
      <4>1. d - 1 \in 1..(m - 1) /\ d - 1 \in Nat /\ d - 1 \in 1..m /\ (d - 1) - 1 \in 0..(m - 1) BY <3>2
      <4>2. f[d - 1] = step[<<d - 1, f[(d - 1) - 1]>>] BY <1>8, <4>1 DEF Computed
      <4>3. f[(d - 1) - 1] \in S BY <4>1
      <4>4. step[<<d - 1, f[(d - 1) - 1]>>] = under(f[(d - 1) - 1])
        <5> HIDE DEF S, under
        <5>1. QED BY <4>1, <4>3
      <4>5. h[d - 1] = f[(d - 1) - 1] /\ h[d] = f[d - 1] BY <4>1
      <4> HIDE DEF h, under, step
      <4>6. QED BY <3>2, <4>2, <4>4, <4>5
    <3>3. QED BY <3>1, <3>2
  <2>2. h = [d \in 1..m |-> h[d]] OBVIOUS
  <2> DEFINE new == [d \in 1..m |-> next(d)]
  <2>3. h = new
    <3> HIDE DEF h, next
    <3>1. QED BY <2>1, <2>2
  <2>4. Is(h)
    <3> HIDE DEF h
    <3>1. QED BY <2>3
  <2>5. QED BY <2>4
<1>10. Is(l)
  <2> HIDE DEF Is
  <2>1. QED BY <1>9
<1>11. l[1] = top /\ \A d \in 2..m : l[d] = under(l[d - 1])
  <2>1. \A d \in 1..m : l[d] = IF d = 1 THEN top ELSE under(l[d - 1])
    <3> HIDE DEF l
    <3>1. QED BY <1>10
  <2>2. 1 \in 1..m /\ \A d \in 2..m : d \in 1..m /\ d # 1 OBVIOUS
  <2> HIDE DEF l, top, under
  <2>3. QED BY <2>1, <2>2
<1>12. Placed(H, p, rootId, m) = Capped(all)
  BY DEF Placed, UpToCap, Capped, Room
<1> HIDE DEF l, top, under
<1> DEFINE Good(d) == l[d] \in Seq(Replies) /\ Lists(l[d], L[d])
           Bad == {d \in Nat : d \in 1..m /\ ~Good(d)}
<1>13. Bad = {}
  <2> SUFFICES ASSUME Bad # {} PROVE FALSE OBVIOUS
  <2>1. PICK d \in Bad : \A e \in Bad : d <= e BY LeastNumber
  <2>2. d # 1 BY <1>4, <1>11, <2>1
  <2>3. d \in 2..m /\ d \in 1..n /\ d - 1 \in Nat /\ d - 1 \in 1..m /\ ~(d <= d - 1) BY <1>2, <2>1, <2>2
  <2>4. Lists(l[d - 1], L[d - 1]) BY <2>1, <2>3
  <2>5. under(l[d - 1]) \in Seq(Replies) /\ Lists(under(l[d - 1]), {r \in H : K[r] \in L[d - 1]})
    BY <1>3, <2>4
  <2>6. Good(d) BY <1>1, <1>11, <2>3, <2>5
  <2>7. QED BY <2>1, <2>6
<1> DEFINE seqs == [d \in 1..m |-> l[d]]
           parts == [d \in 1..m |-> L[d]]
<1>14. \A d \in 1..m : l[d] \in Seq(Replies) /\ Lists(l[d], L[d])
  <2>1. \A d \in 1..m : d \in Nat OBVIOUS
  <2>2. QED BY <1>13, <2>1
<1>15. \A d \in 1..m : L[d] \in SUBSET Replies
  BY <1>1, <1>2
<1>16. \A i, j \in 1..m : i # j => L[i] \cap L[j] = {}
  <2>1. \A i, j \in 1..m : i \in 0..n /\ j \in 0..n /\ (i # j => i < j \/ j < i) BY <1>2
  <2>2. \A i, j \in 0..n : i < j => L[i] \cap L[j] = {} BY LevelsApart DEF K
  <2>3. QED BY <2>1, <2>2
<1>17. FlattenSeq(seqs) \in Seq(Replies) /\ InTurn(FlattenSeq(seqs), parts, m)
  <2>1. m \in Nat /\ seqs \in [1..m -> Seq(Replies)] /\ parts \in [1..m -> SUBSET Replies]
    BY <1>14, <1>15
  <2>2. /\ \A d \in 1..m : Lists(seqs[d], parts[d])
        /\ \A i, j \in 1..m : i # j => parts[i] \cap parts[j] = {}
    BY <1>14, <1>16
  <2> HIDE DEF seqs, parts
  <2>3. QED BY <2>1, <2>2, Flattened
<1>18. \A k \in 0..m : UpTo(parts, k) = UpTo(L, k)
  <2>1. \A k \in 0..m : \A i \in 1..k : i \in 1..m OBVIOUS
  <2>2. QED BY <2>1 DEF UpTo
<1>19. m \in 0..m OBVIOUS
<1>20. InTurn(all, L, m)
  <2> HIDE DEF parts
  <2>1. QED BY <1>17, <1>18, <1>19 DEF InTurn
<1>21. all \in Seq(Replies) BY <1>17
<1> HIDE DEF all
<1>22. QED BY <1>12, <1>20, <1>21

(* The cap leaves a top of the tree: whatever is placed hangs below        *)
(* something placed, and there are as many as the cap lets in.             *)
IsTop(seq, K, root, S) ==
  /\ IsFiniteSet(ToSet(seq)) /\ Cardinality(ToSet(seq)) = Len(seq) /\ ToSet(seq) \subseteq S
  /\ Hang(K, root, ToSet(seq))
  /\ Len(seq) = Room(Cardinality(S))

LEMMA TopOfTree ==
  ASSUME NEW H \in SUBSET Replies, NEW p, NEW rootId, \A r \in H : IsReplyEvent(r, p),
         NEW m \in Nat \ {0}, NEW n \in Nat, m <= n,
         NEW L, Levels(L, ParentIn(H, p, rootId), H, RootKey(p), n), RootKey(p) \notin H
  PROVE  IsTop(Placed(H, p, rootId, m), ParentIn(H, p, rootId), RootKey(p), UpTo(L, m))
<1> DEFINE K == ParentIn(H, p, rootId)
           root == RootKey(p)
           seq == Placed(H, p, rootId, m)
           nodes == ToSet(seq)
           within == Cardinality(UpTo(L, m))
<1>1. PICK all : /\ all \in Seq(Replies) /\ InTurn(all, L, m)
                 /\ seq = SubSeq(all, 1, Room(Len(all)))
  <2>1. \E all : /\ all \in Seq(Replies) /\ InTurn(all, L, m)
                 /\ Placed(H, p, rootId, m) = Capped(all)
    BY PlacedInLevels
  <2>2. QED BY <2>1 DEF Capped
<1> DEFINE c == Room(Len(all))
<1>2. L[0] = {root} /\ \A d \in 1..n : L[d] = {r \in H : K[r] \in L[d - 1]}
  BY LevelsAre
<1> HIDE DEF K, root, seq, nodes, within
<1>3. Lists(all, UpTo(L, m)) BY <1>1 DEF InTurn
<1>4. Len(all) \in Nat /\ c \in Nat /\ c <= Len(all) BY <1>1, ThreadAssumption DEF Room
<1>5. Len(seq) = c /\ \A i \in 1..c : seq[i] = all[i]
  BY <1>1, <1>4
<1> HIDE DEF c
<1>6. seq \in Seq(Replies)
  <2>1. \A i \in 1..c : all[i] \in Replies BY <1>1, <1>4
  <2>2. seq = SubSeq(all, 1, c) BY <1>1 DEF c
  <2>3. 1 \in Int /\ c \in Int BY <1>4
  <2>4. QED BY <2>1, <2>2, <2>3, SubSeqProperties
<1>7. nodes = {all[i] : i \in 1..c}
  <2>1. nodes = {seq[i] : i \in 1..Len(seq)} BY <1>6 DEF ToSet, nodes
  <2>2. QED BY <1>5, <2>1
<1>8. nodes \subseteq UpTo(L, m)
  BY <1>3, <1>4, <1>7 DEF Lists
<1>9. Lists(seq, nodes)
  <2>1. seq \in [1..c -> nodes] BY <1>5, <1>6, <1>7
  <2>2. \A i, j \in 1..c : seq[i] = seq[j] => i = j BY <1>3, <1>4, <1>5 DEF Lists
  <2>3. \A x \in nodes : \E i \in 1..c : seq[i] = x BY <1>5, <1>7
  <2>4. Len(seq) \in Nat /\ Len(seq) = c BY <1>4, <1>5
  <2> HIDE DEF c
  <2>5. QED BY <2>1, <2>2, <2>3, <2>4 DEF Lists
<1>10. IsFiniteSet(nodes) /\ Cardinality(nodes) = Len(seq) BY <1>9, ListsCount
<1>11. within = Len(all) BY <1>3, ListsCount DEF within
<1>12. ASSUME NEW x \in nodes PROVE K[x] \in {root} \cup nodes
  <2>1. PICK i \in 1..c : x = all[i] BY <1>7
  <2>2. PICK d \in 1..m : x \in L[d] BY <1>8 DEF UpTo
  <2>3. d \in 1..n /\ d - 1 \in 0..m /\ d - 1 \in 0..n /\ d \in 0..n OBVIOUS
  <2>4. x \in H /\ K[x] \in L[d - 1] BY <1>2, <2>2, <2>3
  <2>5. CASE d = 1
    BY <1>2, <2>4, <2>5
  <2>6. CASE d # 1
    <3>1. d - 1 \in 1..(d - 1) BY <2>6
    <3>2. K[x] \in UpTo(L, d - 1) BY <2>4, <3>1 DEF UpTo
    <3>3. PICK e \in 0..Len(all) : {all[j] : j \in 1..e} = UpTo(L, d - 1)
      BY <1>1, <2>3 DEF InTurn
    <3>4. PICK j \in 1..e : all[j] = K[x] BY <3>2, <3>3
    <3>5. x \notin UpTo(L, d - 1)
      <4>1. ASSUME NEW k \in 1..(d - 1) PROVE x \notin L[k]
        <5>1. k \in 0..n /\ d \in 0..n /\ k < d BY <2>3
        <5>2. L[k] \cap L[d] = {} BY <5>1, LevelsApart
        <5>3. QED BY <2>2, <5>2
      <4>2. QED BY <4>1 DEF UpTo
    <3>6. ~(i \in 1..e) BY <2>1, <3>3, <3>5
    <3>7. j \in 1..c BY <1>4, <3>3, <3>6
    <3>8. QED BY <1>7, <3>4, <3>7
  <2>7. QED BY <2>5, <2>6
<1>13. Hang(K, root, nodes) BY <1>12 DEF Hang
<1>14. QED BY <1>5, <1>8, <1>10, <1>11, <1>13 DEF c, K, root, seq, nodes, within, IsTop

(* The reference and the tree in terms of those levels.                    *)
LEMMA ReachedIs ==
  ASSUME NEW H \in SUBSET Replies, NEW p, NEW rootId, \A r \in H : IsReplyEvent(r, p),
         NEW m \in Nat, NEW n \in Nat, m <= n,
         NEW L, Levels(L, ParentIn(H, p, rootId), H, RootKey(p), n)
  PROVE  Reached(H, p, rootId, m) = UpTo(L, m)
<1> DEFINE K == ParentIn(H, p, rootId)
           root == RootKey(p)
           Is(l) == l = [d \in 0..m |-> IF d = 0 THEN {RootKey(p)}
                           ELSE {r \in H : IsReplyEvent(r, p) /\ ParentKey(r, p, H, rootId) \in l[d - 1]}]
           l == CHOOSE l : Is(l)
<1>1. Reached(H, p, rootId, m) = UNION {l[d] : d \in 1..m} BY DEF Reached
<1>2. \A r \in H : K[r] = ParentKey(r, p, H, rootId) BY DEF ParentIn
<1>3. ASSUME NEW M PROVE Is(M) <=> Levels(M, K, H, root, m)
  <2> DEFINE one(d) == IF d = 0 THEN {root}
                       ELSE {r \in H : IsReplyEvent(r, p) /\ ParentKey(r, p, H, rootId) \in M[d - 1]}
             other(d) == IF d = 0 THEN {root} ELSE {r \in H : K[r] \in M[d - 1]}
  <2>1. \A d \in 0..m : one(d) = other(d) BY <1>2
  <2>2. Is(M) <=> M = [d \in 0..m |-> one(d)] OBVIOUS
  <2>3. Levels(M, K, H, root, m) <=> M = [d \in 0..m |-> other(d)] BY DEF Levels
  <2> HIDE DEF one, other
  <2>4. [d \in 0..m |-> one(d)] = [d \in 0..m |-> other(d)] BY <2>1
  <2>5. QED BY <2>2, <2>3, <2>4
<1>4. \E M : Levels(M, K, H, root, m) BY LevelsExist
<1>5. Is(l) BY <1>3, <1>4
<1> HIDE DEF l, K, root
<1>6. Levels(l, K, H, root, m) BY <1>3, <1>5
<1>7. Levels(L, K, H, root, n) BY DEF K, root
<1>8. \A d \in (0..m) \cap (0..n) : l[d] = L[d] BY <1>6, <1>7, LevelsAgree
<1>9. \A d \in 1..m : d \in (0..m) \cap (0..n) OBVIOUS
<1>10. QED BY <1>1, <1>8, <1>9 DEF UpTo

LEMMA ConnectsIs ==
  ASSUME NEW H \in SUBSET Replies, NEW p, NEW rootId, RootKey(p) \notin H,
         IsFiniteSet(H), NEW n \in Nat, Cardinality(H) <= n,
         NEW L, Levels(L, ParentIn(H, p, rootId), H, RootKey(p), n), NEW r \in H
  PROVE  Connects(r, H, p, rootId) <=> r \in UpTo(L, n)
<1> DEFINE K == ParentIn(H, p, rootId)
           N == Cardinality(H)
           Is(up) == up = [i \in 0..N |-> IF i = 0 THEN r
                       ELSE IF up[i - 1] \in H THEN ParentKey(up[i - 1], p, H, rootId) ELSE up[i - 1]]
           up == CHOOSE up : Is(up)
<1>0. N \in Nat BY FS_CardinalityType
<1>1. Connects(r, H, p, rootId) <=> up[N] = RootKey(p) BY DEF Connects
<1>2. \A x \in H : K[x] = ParentKey(x, p, H, rootId) BY DEF ParentIn
<1>3. ASSUME NEW u PROVE Is(u) <=> Climbs(u, K, H, r, N)
  <2> DEFINE one(i) == IF i = 0 THEN r
                       ELSE IF u[i - 1] \in H THEN ParentKey(u[i - 1], p, H, rootId) ELSE u[i - 1]
             other(i) == IF i = 0 THEN r ELSE IF u[i - 1] \in H THEN K[u[i - 1]] ELSE u[i - 1]
  <2>1. \A i \in 0..N : one(i) = other(i) BY <1>2
  <2>2. Is(u) <=> u = [i \in 0..N |-> one(i)] OBVIOUS
  <2>3. Climbs(u, K, H, r, N) <=> u = [i \in 0..N |-> other(i)] BY DEF Climbs
  <2> HIDE DEF one, other
  <2>4. [i \in 0..N |-> one(i)] = [i \in 0..N |-> other(i)] BY <2>1
  <2>5. QED BY <2>2, <2>3, <2>4
<1>4. \E u : Climbs(u, K, H, r, N) BY <1>0, ClimbExists
<1>5. Is(up) BY <1>3, <1>4
<1> HIDE DEF up
<1>6. Climbs(up, K, H, r, Cardinality(H)) BY <1>3, <1>5
<1>7. up[Cardinality(H)] = RootKey(p) <=> \E d \in 1..n : r \in L[d]
  BY <1>6, ClimbsToRoot
<1>8. QED BY <1>1, <1>7 DEF UpTo

LEMMA DescendantsAre ==
  ASSUME NEW H \in SUBSET Replies, NEW p, NEW rootId, IsFiniteSet(H), NEW r
  PROVE  \E b : /\ Grows(b, ParentIn(H, p, rootId), H, r, Cardinality(H))
                /\ Descendants(r, H, p, rootId) = b[Cardinality(H)]
<1> DEFINE K == ParentIn(H, p, rootId)
           N == Cardinality(H)
           Is(b) == b = [i \in 0..N |-> IF i = 0 THEN {}
                       ELSE {c \in H : ParentKey(c, p, H, rootId) \in {r} \cup b[i - 1]}]
           b == CHOOSE b : Is(b)
<1>0. N \in Nat BY FS_CardinalityType
<1>1. Descendants(r, H, p, rootId) = b[N] BY DEF Descendants
<1>2. \A x \in H : K[x] = ParentKey(x, p, H, rootId) BY DEF ParentIn
<1>3. ASSUME NEW u PROVE Is(u) <=> Grows(u, K, H, r, N)
  <2> DEFINE one(i) == IF i = 0 THEN {}
                       ELSE {c \in H : ParentKey(c, p, H, rootId) \in {r} \cup u[i - 1]}
             other(i) == IF i = 0 THEN {} ELSE {c \in H : K[c] \in {r} \cup u[i - 1]}
  <2>1. \A i \in 0..N : one(i) = other(i) BY <1>2
  <2>2. Is(u) <=> u = [i \in 0..N |-> one(i)] OBVIOUS
  <2>3. Grows(u, K, H, r, N) <=> u = [i \in 0..N |-> other(i)] BY DEF Grows
  <2> HIDE DEF one, other
  <2>4. [i \in 0..N |-> one(i)] = [i \in 0..N |-> other(i)] BY <2>1
  <2>5. QED BY <2>2, <2>3, <2>4
<1>4. \E u : Grows(u, K, H, r, N) BY <1>0, GrowthExists
<1>5. Is(b) BY <1>3, <1>4
<1> HIDE DEF b
<1>6. QED BY <1>1, <1>3, <1>5

(* The counts of a tree: its nodes, and what connects to nothing.          *)
LEMMA TreeCounts ==
  ASSUME NEW H \in SUBSET Replies, NEW p, NEW rootId, \A r \in H : IsReplyEvent(r, p),
         NEW m \in Nat \ {0}, RootKey(p) \notin H,
         NEW within, within = Cardinality(Reached(H, p, rootId, m))
  PROVE  /\ BuildReplyTree(H, p, rootId, m).orphans
              = Cardinality({r \in H : ~Connects(r, H, p, rootId)})
         /\ BuildReplyTree(H, p, rootId, m).total = Room(within)
<1> DEFINE K == ParentIn(H, p, rootId)
           N == Cardinality(H)
           n == N + m + 1
           seq == Placed(H, p, rootId, m)
           nodes == ToSet(seq)
           skipped == {r \in H \ nodes : ParentKey(r, p, H, rootId) \in {RootKey(p)} \cup nodes}
           below(r) == Descendants(r, H, p, rootId)
           hidden == skipped \cup UNION {below(r) : r \in skipped}
           loose == {r \in H : ~Connects(r, H, p, rootId)}
<1>1. IsFiniteSet(H) /\ N \in Nat
  BY ThreadAssumption, FS_Subset, FS_CardinalityType
<1>2. n \in Nat /\ m \in Nat /\ m <= n /\ N < n /\ N <= n BY <1>1
<1>3. {r \in H : IsReplyEvent(r, p)} = H OBVIOUS
<1>4. BuildReplyTree(H, p, rootId, m)
        = [total |-> Len(seq), hidden |-> Cardinality(hidden),
           orphans |-> N - Len(seq) - Cardinality(hidden)]
  BY <1>3 DEF BuildReplyTree
<1> HIDE DEF n, N, K
<1>5. PICK L : Levels(L, K, H, RootKey(p), n) BY <1>2, LevelsExist
<1> DEFINE C == UpTo(L, n)
<1>6. /\ IsFiniteSet(nodes) /\ Cardinality(nodes) = Len(seq) /\ nodes \subseteq UpTo(L, m)
      /\ Hang(K, RootKey(p), nodes)
      /\ Len(seq) = Room(Cardinality(UpTo(L, m)))
  <2>1. Levels(L, ParentIn(H, p, rootId), H, RootKey(p), n) BY <1>5 DEF K
  <2>2. IsTop(Placed(H, p, rootId, m), ParentIn(H, p, rootId), RootKey(p), UpTo(L, m))
    BY <1>2, <2>1, TopOfTree
  <2>3. QED BY <2>2 DEF IsTop, K
<1> HIDE DEF seq, nodes
<1>7. Reached(H, p, rootId, m) = UpTo(L, m)
  <2>1. Levels(L, ParentIn(H, p, rootId), H, RootKey(p), n) BY <1>5 DEF K
  <2>2. QED BY <1>2, <2>1, ReachedIs
<1>8. C \subseteq H /\ UpTo(L, m) \subseteq C
  <2>1. \A d \in 1..n : L[d] \subseteq H BY <1>2, <1>5, LevelsApart
  <2>2. \A d \in 1..m : d \in 1..n BY <1>2
  <2>3. QED BY <2>1, <2>2 DEF UpTo
<1>9. loose = H \ C
  <2>1. Levels(L, ParentIn(H, p, rootId), H, RootKey(p), n) BY <1>5 DEF K
  <2>2. \A r \in H : Connects(r, H, p, rootId) <=> r \in C
    BY <1>1, <1>2, <2>1, ConnectsIs DEF N
  <2>3. QED BY <2>2
<1>10. hidden = C \ nodes
  <2> DEFINE Is(b, r) == Grows(b, K, H, r, N) /\ below(r) = b[N]
             B == [r \in skipped |-> CHOOSE b : Is(b, r)]
  <2>1. \A r \in skipped : \E b : Is(b, r) BY <1>1, DescendantsAre DEF K, N
  <2>2. \A r \in skipped : Is(B[r], r) BY <2>1
  <2>3. skipped = Border(K, H, RootKey(p), nodes) BY DEF Border, K, ParentIn
  <2> HIDE DEF B, skipped, below
  <2>4. AllGrow(B, K, H, Border(K, H, RootKey(p), nodes)) BY <2>2, <2>3 DEF N, AllGrow
  <2>5. nodes \subseteq UpTo(L, n) BY <1>6, <1>8
  <2>6. Cardinality(H) < n BY <1>2 DEF N
  <2>7. n \in Nat /\ Hang(K, RootKey(p), nodes) BY <1>2, <1>6
  <2>8. WithBelow(B, H, Border(K, H, RootKey(p), nodes)) = UpTo(L, n) \ nodes
    BY <1>1, <1>5, <2>4, <2>5, <2>6, <2>7, HiddenIsTheRest
  <2>9. UNION {B[x][Cardinality(H)] : x \in skipped} = UNION {below(x) : x \in skipped}
    BY <2>2 DEF N
  <2>10. QED BY <2>3, <2>8, <2>9 DEF WithBelow
<1> HIDE DEF C, hidden, loose
<1>11. IsFiniteSet(C) /\ Cardinality(C) \in Nat /\ Cardinality(nodes) \in Nat
  BY <1>1, <1>6, <1>8, FS_Subset, FS_CardinalityType
<1>12. Cardinality(hidden) = Cardinality(C) - Cardinality(nodes)
  <2>1. C \cap nodes = nodes BY <1>6, <1>8
  <2>2. Cardinality(C \ nodes) = Cardinality(C) - Cardinality(C \cap nodes)
    BY <1>11, FS_Difference
  <2>3. QED BY <1>10, <2>1, <2>2
<1>13. Cardinality(loose) = N - Cardinality(C)
  <2>1. H \cap C = C BY <1>8
  <2>2. QED BY <1>1, <1>9, <1>11, <2>1, FS_Difference DEF N
<1>14. N - Len(seq) - Cardinality(hidden) = Cardinality(loose)
  BY <1>1, <1>6, <1>11, <1>12, <1>13
<1>15. QED
  <2>1. BuildReplyTree(H, p, rootId, m).orphans = Cardinality(loose) BY <1>4, <1>14
  <2>2. BuildReplyTree(H, p, rootId, m).total = Len(seq) BY <1>4
  <2>3. QED BY <1>6, <1>7, <2>1, <2>2 DEF loose

(* Any set of the replies held for p has one that answers the post or a    *)
(* reply outside it: then none is left that connects to nothing.           *)
Rooted(H, p) ==
  \A S \in SUBSET H :
    S # {} => \E r \in S : ParentKey(r, p, H, p) \in {RootKey(p)} \cup (H \ S)

LEMMA RootedConnects ==
  ASSUME NEW H \in SUBSET Replies, NEW p, RootKey(p) \notin H, Rooted(H, p)
  PROVE  {r \in H : ~Connects(r, H, p, p)} = {}
<1> DEFINE K == ParentIn(H, p, p)
           N == Cardinality(H)
           n == N + 1
<1>1. IsFiniteSet(H) /\ N \in Nat
  BY ThreadAssumption, FS_Subset, FS_CardinalityType
<1>2. n \in Nat /\ N < n /\ N <= n BY <1>1
<1>3. PICK L : Levels(L, K, H, RootKey(p), n) BY <1>2, LevelsExist
<1> HIDE DEF n, K
<1> DEFINE C == UpTo(L, n)
           S == H \ C
<1>4. \A r \in H : Connects(r, H, p, p) <=> r \in C
  <2>1. Levels(L, ParentIn(H, p, p), H, RootKey(p), n) BY <1>3 DEF K
  <2>2. QED BY <1>1, <1>2, <2>1, ConnectsIs
<1>5. L[0] = {RootKey(p)} /\ \A d \in 1..n : L[d] = {r \in H : K[r] \in L[d - 1]}
  BY <1>2, <1>3, LevelsAre
<1>6. S = {}
  <2> SUFFICES ASSUME S # {} PROVE FALSE
    OBVIOUS
  <2>1. PICK r \in S : ParentKey(r, p, H, p) \in {RootKey(p)} \cup (H \ S) BY DEF Rooted
  <2>2. r \in H /\ r \notin C /\ (K[r] = RootKey(p) \/ K[r] \in C) BY <2>1 DEF K, ParentIn
  <2>3. \E d \in 0..N : K[r] \in L[d]
    <3>1. CASE K[r] = RootKey(p)
      <4>1. 0 \in 0..N BY <1>1
      <4>2. QED BY <1>5, <3>1, <4>1
    <3>2. CASE K[r] \in C
      <4>1. PICK d \in 1..n : K[r] \in L[d] BY <3>2 DEF UpTo
      <4>2. d \in 0..n /\ L[d] # {} BY <1>2, <4>1
      <4>3. d <= N BY <1>1, <1>2, <1>3, <4>2, LevelsFew
      <4>4. d \in 0..N BY <1>1, <4>1, <4>3
      <4>5. QED BY <4>1, <4>4
    <3>3. QED BY <2>2, <3>1, <3>2
  <2>4. PICK d \in 0..N : K[r] \in L[d] BY <2>3
  <2>5. d + 1 \in 1..n /\ (d + 1) - 1 = d BY <1>1, <2>4 DEF n
  <2>6. r \in L[d + 1] BY <1>5, <2>2, <2>4, <2>5
  <2>7. r \in C BY <2>5, <2>6 DEF UpTo
  <2>8. QED BY <2>2, <2>7
<1>7. QED BY <1>4, <1>6

(* A reply the gate lets in, before the post is known or after, keeps what *)
(* is held rooted.                                                         *)
LEMMA RootedGrows ==
  ASSUME NEW H \in SUBSET Replies, NEW p, p \notin H, RootKey(p) \notin Replies \/ RootKey(p) = p,
         Rooted(H, p), NEW r \in Replies \ H, NEW rootId \in {None, p}, AcceptsReply(r, p, H, rootId)
  PROVE  Rooted(H \cup {r}, p)
<1> DEFINE G == H \cup {r}
           key(x) == ParentKey(x, p, H, p)
           now(x) == ParentKey(x, p, G, p)
<1>0. r # p /\ r # RootKey(p) /\ r # None
  BY ThreadAssumption DEF AcceptsReply, IsReplyEvent
<1>1. now(r) \in {RootKey(p)} \cup H
  <2>1. /\ ParentKey(r, p, H, rootId) # None
        /\ ParentKey(r, p, H, rootId) \in {RootKey(p)} \cup H
    BY DEF AcceptsReply
  <2>2. CASE ReplyParentId(r) = r
    BY <2>1, <2>2 DEF ParentKey
  <2>3. CASE ReplyParentId(r) # r
    BY <2>1, <2>3 DEF ParentKey, RootKey
  <2>4. QED BY <2>2, <2>3
<1>2. ASSUME NEW x \in H, key(x) \in {RootKey(p)} \cup H PROVE now(x) = key(x)
  <2>1. CASE ReplyParentId(x) # r
    BY <2>1 DEF ParentKey
  <2>2. CASE ReplyParentId(x) = r
    BY <1>0, <1>2, <2>2 DEF ParentKey
  <2>3. QED BY <2>1, <2>2
<1> HIDE DEF key, now
<1>3. ASSUME NEW S \in SUBSET G, S # {} PROVE \E x \in S : now(x) \in {RootKey(p)} \cup (G \ S)
  <2>1. CASE S \cap H = {}
    <3>1. r \in S BY <1>3, <2>1
    <3>2. H \subseteq G \ S BY <2>1
    <3>3. QED BY <1>1, <3>1, <3>2
  <2>2. CASE S \cap H # {}
    <3>1. S \cap H \in SUBSET H /\ S \cap H # {} BY <2>2
    <3>2. PICK x \in S \cap H : key(x) \in {RootKey(p)} \cup (H \ (S \cap H))
      BY <3>1 DEF Rooted, key
    <3>3. now(x) = key(x) BY <1>2, <3>2
    <3>4. QED BY <3>2, <3>3
  <2>3. QED BY <2>1, <2>2
<1>4. QED BY <1>3 DEF Rooted, now

-----------------------------------------------------------------------------
(* The tree adds up.  What a page of posts shows is one post, the one      *)
(* named last until the boot's own subscribe() has replaced it; what it    *)
(* holds are replies, rooted at the post unless something was lost.        *)
OnePost ==
  /\ boot.phase = "idle" => current = None /\ events = {}
  /\ boot.phase # "done" => current \in {None, named.of} /\ events \subseteq {named.of}
  /\ current # None => events \subseteq {current}
  /\ \A e, other \in events : e = other
OnlyReplies == \A h \in held : h[2] \in Replies => IsReplyEvent(h[2], h[1])
ThreadRooted == ~cut /\ events \subseteq {named.of} => Rooted(RepliesTo(named.of), named.of)
TreeInv == OnePost /\ OnlyReplies /\ ThreadRooted

(* What a step does not touch.                                             *)
LEMMA TreeFrame ==
  ASSUME TreeInv, UNCHANGED <<events, held, named>>, current' \in {current, None}, ~cut' => ~cut,
         boot.phase = "done" => boot'.phase = "done", boot'.phase = "idle" => boot.phase = "idle"
  PROVE  TreeInv'
<1>1. OnePost' BY DEF TreeInv, OnePost
<1>2. OnlyReplies' BY DEF TreeInv, OnlyReplies
<1>3. ThreadRooted' BY DEF TreeInv, ThreadRooted, RepliesTo, HeldFor
<1>4. QED BY <1>1, <1>2, <1>3 DEF TreeInv

(* The post, when it is on screen, is what parentKey() is told it is.      *)
LEMMA RootIsThePost ==
  ASSUME TreeInv, events \subseteq {named.of}
  PROVE  RootId \in {None, named.of} /\ (named.of \in events => RootId = named.of)
<1>1. CASE events = {}
  BY <1>1 DEF RootId
<1>2. CASE events = {named.of}
  <2>1. named.of = CHOOSE e \in events : TRUE BY <1>2
  <2>2. QED BY <1>2, <2>1 DEF RootId
<1>3. QED BY <1>1, <1>2

(* The post is not among the replies to it.                                *)
LEMMA RootApart ==
  ASSUME IInv, OnlyReplies, NEW p \in Posts
  PROVE  /\ RepliesTo(p) \in SUBSET Replies /\ p \notin RepliesTo(p)
         /\ \A r \in RepliesTo(p) : IsReplyEvent(r, p)
         /\ RootKey(p) \notin Replies \/ RootKey(p) = p
<1>1. \A r \in RepliesTo(p) : r \in Replies /\ IsReplyEvent(r, p)
  BY DEF RepliesTo, HeldFor, OnlyReplies
<1>2. \A r \in RepliesTo(p) : r # p BY <1>1 DEF IsReplyEvent
<1>3. RootKey(p) \notin Replies \/ RootKey(p) = p
  BY ThreadAssumption DEF RootKey
<1>4. QED BY <1>1, <1>2, <1>3

LEMMA TreeTimelineEvent ==
  ASSUME IInv, TreeInv, NEW d, TimelineEvent(d)
  PROVE  TreeInv'
<1>1. /\ Delivers(d) /\ d.to.kind = "timeline" /\ events' = events \cup {d.event}
      /\ UNCHANGED <<held, cut, boot, current, named>>
  BY DEF TimelineEvent, bootVars
<1>2. d.to \in subs /\ d.event \in Earlier \cup Late /\ Wants(d.to, d.event)
  BY <1>1 DEF Delivers, IInv, ConnOK, InboxOwned
<1>3. d.to = Sub("timeline", current) /\ current \in Posts
  BY <1>1, <1>2 DEF IInv, SubsOwned, Owner, Sub, Level
<1>4. RelayWants(d.to, d.event)
  <2>1. {} \in SUBSET Replies OBVIOUS
  <2>2. QED BY <1>2, <1>3, <2>1, RelayAssumption
<1>5. d.event = current /\ current # None
  BY <1>3, <1>4, ThreadAssumption DEF RelayWants, Sub
<1>6. boot.phase # "idle" BY <1>5 DEF TreeInv, OnePost
<1>7. OnePost' BY <1>1, <1>5, <1>6 DEF TreeInv, OnePost
<1>8. OnlyReplies' BY <1>1 DEF TreeInv, OnlyReplies
<1>9. ThreadRooted' BY <1>1 DEF TreeInv, ThreadRooted, RepliesTo, HeldFor
<1>10. QED BY <1>7, <1>8, <1>9 DEF TreeInv

(* A reaction is no reply.                                                 *)
LEMMA ReactionsApart ==
  ASSUME IInv, NEW d, d.to.kind = "reactions", PostEvent(d)
  PROVE  /\ RepliesTo(named.of)' = RepliesTo(named.of)
         /\ \A h \in held' : h \in held \/ h[2] \in Reactions
<1> DEFINE p == d.to.of
           e == d.event
<1>1. Delivers(d) /\ named' = named /\ IngestReaction(p, e)
  BY DEF PostEvent, bootVars
<1>2. d.to \in subs /\ e \in Earlier \cup Late /\ Wants(d.to, e)
  BY <1>1 DEF Delivers, IInv, ConnOK, InboxOwned
<1>3. Owner(d.to) BY <1>2 DEF IInv, SubsOwned
<1>4. p \in reactions.open /\ d.to = Sub("reactions", p) BY <1>3, OwnerByKind
<1>5. p \in Posts /\ held \subseteq Posts \X (Replies \cup Reactions) BY <1>4, WatchTypes
<1>6. RelayWants(d.to, e)
  <2>1. {} \in SUBSET Replies OBVIOUS
  <2>2. QED BY <1>2, <1>4, <1>5, <2>1, RelayAssumption
<1>7. e \in Reactions BY <1>4, <1>6 DEF RelayWants, Sub
<1>8. Insert(p, e, Reactions, MaxReactions) \/ held' = held
  BY <1>1 DEF IngestReaction
<1> HIDE DEF p, e
<1>9. CASE Insert(p, e, Reactions, MaxReactions)
  <2> DEFINE before == HeldFor(p) \cap Reactions
             kept == Youngest(before \cup {e}, MaxReactions)
  <2>1. held' = (held \ {<<p, x>> : x \in before}) \cup {<<p, x>> : x \in kept} BY <1>9 DEF Insert
  <2>2. kept \subseteq Reactions BY <1>7 DEF Youngest
  <2> HIDE DEF before, kept
  <2>3. before \subseteq Reactions BY DEF before
  <2>4. \A r \in Replies, q \in Posts : <<q, r>> \in held' <=> <<q, r>> \in held
    BY <2>1, <2>2, <2>3, ThreadAssumption
  <2>5. held' \subseteq Posts \X (Replies \cup Reactions) BY <1>5, <2>1, <2>2
  <2>6. \A r \in Replies : (\E h \in held' : h[1] = named.of /\ h[2] = r)
                             <=> (\E h \in held : h[1] = named.of /\ h[2] = r)
    <3>1. \A h \in held : h = <<h[1], h[2]>> /\ h[1] \in Posts BY <1>5
    <3>2. \A h \in held' : h = <<h[1], h[2]>> /\ h[1] \in Posts BY <2>5
    <3>3. QED BY <2>4, <3>1, <3>2
  <2>7. RepliesTo(named.of)' = RepliesTo(named.of) BY <1>1, <2>6 DEF RepliesTo, HeldFor
  <2>8. \A h \in held' : h \in held \/ h[2] \in Reactions BY <2>1, <2>2
  <2>9. QED BY <2>7, <2>8
<1>10. CASE held' = held BY <1>1, <1>10 DEF RepliesTo, HeldFor
<1>11. QED BY <1>8, <1>9, <1>10

LEMMA TreePostEvent ==
  ASSUME IInv, TreeInv, NEW d, PostEvent(d)
  PROVE  TreeInv'
<1> DEFINE p == d.to.of
           e == d.event
<1>1. /\ Delivers(d) /\ UNCHANGED <<events, boot, current, named>>
      /\ \/ d.to.kind = "reactions" /\ IngestReaction(p, e)
         \/ d.to.kind = "replies" /\ IngestReply(p, e)
  BY DEF PostEvent, bootVars
<1>2. d.to \in subs /\ d.event \in Earlier \cup Late /\ Wants(d.to, d.event)
  BY <1>1 DEF Delivers, IInv, ConnOK, InboxOwned
<1>3. Owner(d.to) BY <1>2 DEF IInv, SubsOwned
<1>4. /\ d.to.kind = "reactions" => p \in reactions.open /\ d.to = Sub("reactions", p)
      /\ d.to.kind = "replies" => p \in threads.open /\ \E ids \in SUBSET Replies : d.to = Level(p, ids)
  BY <1>3, OwnerByKind
<1>5. p \in Posts /\ p = named.of
  BY <1>1, <1>4, WatchTypes
<1>6. RelayWants(d.to, e)
  <2>1. {} \in SUBSET Replies OBVIOUS
  <2>2. QED BY <1>1, <1>2, <1>4, <1>5, <2>1, RelayAssumption
<1>7. held \subseteq Posts \X (Replies \cup Reactions) BY WatchTypes
<1>8. OnePost' BY <1>1 DEF TreeInv, OnePost
<1>9. CASE d.to.kind = "reactions" /\ IngestReaction(p, e)
  <2>1. cut' = cut BY <1>9 DEF IngestReaction
  <2>2. /\ RepliesTo(named.of)' = RepliesTo(named.of)
        /\ \A h \in held' : h \in held \/ h[2] \in Reactions
    BY <1>9, ReactionsApart
  <2>3. OnlyReplies' BY <2>2, ThreadAssumption DEF TreeInv, OnlyReplies
  <2>4. ThreadRooted' BY <1>1, <2>1, <2>2 DEF TreeInv, ThreadRooted
  <2>5. QED BY <1>8, <2>3, <2>4 DEF TreeInv
<1>10. CASE d.to.kind = "replies" /\ IngestReply(p, e)
  <2> DEFINE known == RepliesTo(p)
             accepted == AcceptsReply(e, p, known, RootId)
  <2>1. e \in Replies BY <1>4, <1>6, <1>10 DEF RelayWants, Level
  <2>2. /\ IF accepted /\ e \notin known THEN Insert(p, e, Replies, MaxReplies) ELSE held' = held
        /\ cut' = (cut \/ (accepted /\ Cardinality(known \cup {e}) > MaxReplies)
                       \/ (~accepted /\ p \in Addressed /\ RootId = None))
    BY <1>10 DEF IngestReply
  <2> HIDE DEF p, e
  <2>3. CASE ~(accepted /\ e \notin known)
    <3>1. held' = held /\ (~cut' => ~cut) BY <2>2, <2>3
    <3>2. QED BY <1>1, <3>1, TreeFrame
  <2>4. CASE accepted /\ e \notin known
    <3> DEFINE before == HeldFor(p) \cap Replies
               kept == Youngest(before \cup {e}, MaxReplies)
    <3>1. held' = (held \ {<<p, x>> : x \in before}) \cup {<<p, x>> : x \in kept}
      BY <2>2, <2>4 DEF Insert
    <3>2. kept \subseteq before \cup {e} BY DEF Youngest
    <3>3. IsReplyEvent(e, p) BY <2>4 DEF AcceptsReply
    <3>4. before = known BY DEF RepliesTo
    <3> HIDE DEF kept, before
    <3>5. \A r \in known : IsReplyEvent(r, p)
      BY DEF RepliesTo, HeldFor, TreeInv, OnlyReplies
    <3>6. OnlyReplies'
      <4> HIDE DEF known
      <4>1. QED BY <3>1, <3>2, <3>3, <3>4, <3>5 DEF TreeInv, OnlyReplies
    <3>7. ASSUME ~cut', events' \subseteq {named'.of} PROVE Rooted(RepliesTo(named.of)', named'.of)
      <4>1. named' = named /\ p = named.of /\ ~cut /\ events \subseteq {p} BY <1>1, <1>5, <2>2, <3>7
      <4>2. Rooted(known, p) BY <4>1 DEF TreeInv, ThreadRooted
      <4>3. RootId \in {None, p} BY <4>1, RootIsThePost
      <4>4. /\ known \in SUBSET Replies /\ p \notin known
            /\ RootKey(p) \notin Replies \/ RootKey(p) = p
        BY <1>5, RootApart DEF TreeInv
      <4>5. Rooted(known \cup {e}, p)
        BY <2>1, <2>4, <4>2, <4>3, <4>4, RootedGrows
      <4>6. kept = known \cup {e}
        <5>1. ~(Cardinality(known \cup {e}) > MaxReplies) BY <2>2, <2>4, <3>7
        <5>2. IsFiniteSet(known \cup {e}) BY <2>1, <4>4, ThreadAssumption, FS_Subset
        <5>3. Cardinality(known \cup {e}) \in Nat BY <5>2, FS_CardinalityType
        <5>4. Cardinality(known \cup {e}) <= MaxReplies BY <5>1, <5>3, WatchAssumption
        <5>5. QED BY <3>4, <5>4 DEF kept, Youngest
      <4>7. RepliesTo(p)' = kept
        <5>1. \A h \in held : h = <<h[1], h[2]>> BY <1>7
        <5>2. \A h \in held : h[1] = p /\ h[2] \in Replies => h[2] \in before
          BY DEF before, HeldFor
        <5>3. kept \subseteq Replies BY <2>1, <4>4, <4>6
        <5>4. ASSUME NEW r \in kept PROVE \E h \in held' : h[1] = p /\ h[2] = r
          <6>1. <<p, r>> \in held' BY <3>1
          <6>2. <<p, r>>[1] = p /\ <<p, r>>[2] = r OBVIOUS
          <6>3. QED BY <6>1, <6>2
        <5>5. ASSUME NEW h \in held', h[1] = p, h[2] \in Replies PROVE h[2] \in kept
          <6>1. CASE h \in {<<p, x>> : x \in kept}
            BY <6>1
          <6>2. CASE h \in held /\ h \notin {<<p, x>> : x \in before}
            <7>1. h[2] \in before BY <5>2, <5>5, <6>2
            <7>2. h = <<p, h[2]>> BY <5>1, <5>5, <6>2
            <7>3. h \in {<<p, x>> : x \in before} BY <7>1, <7>2
            <7>4. QED BY <6>2, <7>3
          <6>3. QED BY <3>1, <5>5, <6>1, <6>2
        <5>6. p' = p BY <1>1, <4>1 
        <5>7. RepliesTo(p)' = {h[2] : h \in {x \in held' : x[1] = p}} \cap Replies
          BY <5>6 DEF RepliesTo, HeldFor
        <5>8. QED BY <5>3, <5>4, <5>5, <5>7
      <4>8. QED BY <4>1, <4>5, <4>6, <4>7
    <3>8. ThreadRooted' BY <3>7 DEF ThreadRooted
    <3>9. QED BY <1>8, <3>6, <3>8 DEF TreeInv
  <2>5. QED BY <2>3, <2>4
<1>11. QED BY <1>1, <1>9, <1>10

LEMMA TreeStart ==
  ASSUME IInv, TreeInv, NEW p \in Posts, NEW wants, Start(p, wants)
  PROVE  TreeInv'
<1>1. /\ boot.phase = "idle" /\ UNCHANGED <<held, cut, events, current>>
      /\ named'.of = p /\ boot'.phase = "acquiring"
  BY DEF Start, watchVars
<1>2. current = None /\ events = {} /\ held = {}
  BY <1>1 DEF TreeInv, OnePost, IInv, IdleIsBlank
<1>3. OnePost' BY <1>1, <1>2 DEF OnePost
<1>4. OnlyReplies' BY <1>1 DEF TreeInv, OnlyReplies
<1>5. RepliesTo(named.of)' = {} BY <1>1, <1>2 DEF RepliesTo, HeldFor
<1>6. ThreadRooted' BY <1>5 DEF ThreadRooted, Rooted
<1>7. QED BY <1>3, <1>4, <1>6 DEF TreeInv

(* A post shown anew starts with nothing of the last one.                  *)
LEMMA TreeShowPost ==
  ASSUME IInv, TreeInv, NEW p \in Posts, NEW wants, ShowPost(p, wants)
  PROVE  TreeInv'
<1>1. /\ boot.phase # "idle" /\ boot'.phase = boot.phase
      /\ named'.of = p /\ held' = {} /\ events' = {} /\ current' \in {p, None}
  BY DEF ShowPost, Subscribe, IInv, BootTyped
<1>2. OnePost' BY <1>1 DEF OnePost
<1>3. OnlyReplies' BY <1>1 DEF OnlyReplies
<1>4. RepliesTo(named.of)' = {} BY <1>1 DEF RepliesTo, HeldFor
<1>5. ThreadRooted' BY <1>4 DEF ThreadRooted, Rooted
<1>6. QED BY <1>2, <1>3, <1>5 DEF TreeInv

(* The boot's own subscribe() leaves the replies as they are.              *)
LEMMA TreePostStarts ==
  ASSUME IInv, TreeInv, PostStarts
  PROVE  TreeInv'
<1>1. /\ boot.phase = "connected" /\ boot'.phase = "done"
      /\ UNCHANGED <<held, cut, named>> /\ events' = {} /\ current' \in {boot.of, None}
  BY DEF PostStarts, Phase, Subscribe, IInv, BootTyped
<1>2. events \subseteq {named.of} BY <1>1 DEF TreeInv, OnePost
<1>3. OnePost' BY <1>1 DEF OnePost
<1>4. OnlyReplies' BY <1>1 DEF TreeInv, OnlyReplies
<1>5. ThreadRooted' BY <1>1, <1>2 DEF TreeInv, ThreadRooted, RepliesTo, HeldFor
<1>6. QED BY <1>3, <1>4, <1>5 DEF TreeInv

LEMMA TreeBooting ==
  ASSUME IInv, TreeInv, Booting \/ Link \/ Stop
  PROVE  TreeInv'
<1>1. CASE PostStarts BY <1>1, TreePostStarts
<1>2. CASE HostAcquired \/ AcquireFails \/ BootStopped \/ Link \/ Stop
  <2>1. /\ UNCHANGED <<events, held, named>> /\ current' \in {current, None} /\ cut' = cut
        /\ boot'.phase \in {boot.phase, "done", "connecting", "connected"}
        /\ boot.phase = "done" => boot'.phase = "done"
    BY <1>2 DEF HostAcquired, AcquireFails, BootStopped, AwaitsNothing, Link, LinkUp, LinkDead, Stop, AllQuiet,
                Phase, watchVars, IInv, BootTyped
  <2>2. boot'.phase = "idle" => boot.phase = "idle" BY <2>1
  <2>3. QED BY <2>1, <2>2, TreeFrame
<1>3. QED BY <1>1, <1>2 DEF Booting

LEMMA TreeRelay ==
  ASSUME IInv, TreeInv, Relay
  PROVE  TreeInv'
<1>1. ASSUME NEW d \in inbox, TimelineEvent(d) \/ PostEvent(d) PROVE TreeInv'
  BY <1>1, TreeTimelineEvent, TreePostEvent
<1>2. CASE \/ TimelineEose \/ TimelineClosed \/ \E s \in subs : QuietEose(s)
           \/ SocketDrops /\ UNCHANGED <<lookupVars, watchVars, bootVars>>
  <2>1. UNCHANGED <<events, held, named, current, boot, cut>>
    BY <1>2 DEF TimelineEose, TimelineClosed, QuietEose, watchVars, bootVars
  <2>2. QED BY <2>1, TreeFrame
<1>3. QED BY <1>1, <1>2 DEF Relay

LEMMA TreeWatches ==
  ASSUME IInv, TreeInv, Watches, UNCHANGED bootVars
  PROVE  TreeInv'
<1>1. UNCHANGED <<events, held>>
  BY DEF Watches, LevelEose, LevelClosed, AdvanceReplyLevel, ReactionsClosed
<1>2. ~cut' => ~cut
  BY DEF Watches, LevelEose, LevelClosed, AdvanceReplyLevel, ReactionsClosed
<1>3. UNCHANGED <<named, current, boot>> BY DEF bootVars
<1>4. QED BY <1>1, <1>2, <1>3, TreeFrame

LEMMA TreeInit == Init => TreeInv
<1>1. Init => /\ boot.phase = "idle" /\ current = None /\ events = {} /\ held = {}
  BY DEF Init, WatchInit
<1>2. held = {} => RepliesTo(named.of) = {} BY DEF RepliesTo, HeldFor
<1>3. Init => ThreadRooted BY <1>1, <1>2 DEF ThreadRooted, Rooted
<1>4. QED BY <1>1, <1>3 DEF TreeInv, OnePost, OnlyReplies

LEMMA TreeStep == IInv /\ TreeInv /\ [PostNext]_vars => TreeInv'
<1> SUFFICES ASSUME IInv, TreeInv, [PostNext]_vars PROVE TreeInv'
  OBVIOUS
<1>1. CASE UNCHANGED <<watchVars, bootVars>>
  <2>1. UNCHANGED <<events, held, named, current, boot, cut>> BY <1>1 DEF watchVars, bootVars
  <2>2. QED BY <2>1, TreeFrame
<1>2. CASE UNCHANGED vars
  BY <1>1, <1>2 DEF vars
<1>3. ASSUME NEW p \in Posts, NEW wants \in Wishes, Start(p, wants) \/ ShowPost(p, wants) PROVE TreeInv'
  BY <1>3, TreeStart, TreeShowPost
<1>4. CASE Watches /\ UNCHANGED <<lookupVars, bootVars>>
  BY <1>4, TreeWatches
<1>5. CASE Widget
  BY <1>1, <1>5, TreeBooting, TreeRelay DEF Widget
<1>6. CASE \E e \in Late : Arrives(e) /\ UNCHANGED <<lookupVars, watchVars, bootVars>>
  BY <1>1, <1>6
<1>7. QED BY <1>2, <1>3, <1>4, <1>5, <1>6 DEF PostNext

(* While the post is on screen the tree is that of a rooted set, unless    *)
(* something was lost.                                                     *)
LEMMA TreeOnScreen ==
  ASSUME IInv, TreeInv
  PROVE  TreeAddsUp
<1> SUFFICES ASSUME named.of \in events PROVE TreeAddsUp
  BY DEF TreeAddsUp
<1> DEFINE p == named.of
           H == RepliesTo(p)
<1>1. p \in Posts BY DEF IInv, WatchesTyped
<1>2. events \subseteq {p} BY DEF TreeInv, OnePost
<1>3. RootId = p BY <1>2, RootIsThePost
<1>4. /\ H \in SUBSET Replies /\ RootKey(p) \notin H
      /\ \A r \in H : IsReplyEvent(r, p)
  BY <1>1, RootApart DEF TreeInv
<1>5. MaxDepth \in Nat \ {0} BY WatchAssumption
<1> HIDE DEF p, H
<1>6. /\ BuildReplyTree(H, p, RootId, MaxDepth).orphans
             = Cardinality({r \in H : ~Connects(r, H, p, RootId)})
      /\ BuildReplyTree(H, p, RootId, MaxDepth).total = Room(Cardinality(Reached(H, p, RootId, MaxDepth)))
  BY <1>4, <1>5, TreeCounts
<1>7. ~cut => {r \in H : ~Connects(r, H, p, RootId)} = {}
  <2>1. ~cut => Rooted(H, p) BY <1>2 DEF TreeInv, ThreadRooted, H, p
  <2>2. QED BY <1>3, <1>4, <2>1, RootedConnects
<1>8. QED BY <1>6, <1>7 DEF TreeAddsUp, Room, H, p

(* The tree on screen counts every reply held once, however the replies,   *)
(* the levels and the page's changes of mind came, for every thread and    *)
(* every cap.                                                              *)
THEOREM TimelineTreeAddsUp == PostSpec => []TreeAddsUp
<1>1. Init => IInv /\ TreeInv BY InvInit, TreeInit
<1>2. (IInv /\ TreeInv) /\ [PostNext]_vars => (IInv /\ TreeInv)'
  BY InvStep, TreeStep DEF Step
<1>3. IInv /\ TreeInv => TreeAddsUp BY TreeOnScreen
<1>4. QED BY <1>1, <1>2, <1>3, PTL DEF PostSpec

-----------------------------------------------------------------------------
(* The thread is complete.  First the reference: what can be reached in    *)
(* one more level is what answers the post or can be reached already.      *)
Among(H, p) == {r \in H : IsReplyEvent(r, p)}
KeyIn(H, p, rootId) == [r \in Among(H, p) |-> ParentKey(r, p, H, rootId)]

LEMMA ReachedInLevels ==
  ASSUME NEW H, NEW p, NEW rootId, NEW m \in Nat, NEW n \in Nat, m <= n,
         NEW L, Levels(L, KeyIn(H, p, rootId), Among(H, p), RootKey(p), n)
  PROVE  Reached(H, p, rootId, m) = UpTo(L, m)
<1> DEFINE K == KeyIn(H, p, rootId)
           G == Among(H, p)
           root == RootKey(p)
           Is(l) == l = [d \in 0..m |-> IF d = 0 THEN {RootKey(p)}
                           ELSE {r \in H : IsReplyEvent(r, p) /\ ParentKey(r, p, H, rootId) \in l[d - 1]}]
           l == CHOOSE l : Is(l)
<1>1. Reached(H, p, rootId, m) = UNION {l[d] : d \in 1..m} BY DEF Reached
<1>2. \A r \in G : K[r] = ParentKey(r, p, H, rootId) BY DEF KeyIn
<1>3. ASSUME NEW M PROVE Is(M) <=> Levels(M, K, G, root, m)
  <2> DEFINE one(d) == IF d = 0 THEN {root}
                       ELSE {r \in H : IsReplyEvent(r, p) /\ ParentKey(r, p, H, rootId) \in M[d - 1]}
             other(d) == IF d = 0 THEN {root} ELSE {r \in G : K[r] \in M[d - 1]}
  <2>1. \A d \in 0..m : one(d) = other(d) BY <1>2 DEF Among
  <2>2. Is(M) <=> M = [d \in 0..m |-> one(d)] OBVIOUS
  <2>3. Levels(M, K, G, root, m) <=> M = [d \in 0..m |-> other(d)] BY DEF Levels
  <2> HIDE DEF one, other
  <2>4. [d \in 0..m |-> one(d)] = [d \in 0..m |-> other(d)] BY <2>1
  <2>5. QED BY <2>2, <2>3, <2>4
<1>4. \E M : Levels(M, K, G, root, m) BY LevelsExist
<1>5. Is(l) BY <1>3, <1>4
<1> HIDE DEF l, K, root, G
<1>6. Levels(l, K, G, root, m) BY <1>3, <1>5
<1>7. Levels(L, K, G, root, n) BY DEF K, root, G
<1>8. \A d \in (0..m) \cap (0..n) : l[d] = L[d] BY <1>6, <1>7, LevelsAgree
<1>9. \A d \in 1..m : d \in (0..m) \cap (0..n) OBVIOUS
<1>10. QED BY <1>1, <1>8, <1>9 DEF UpTo

LEMMA ReachedGrows ==
  ASSUME NEW H, NEW p, NEW rootId, NEW n \in Nat
  PROVE  /\ Reached(H, p, rootId, 0) = {}
         /\ \A r : r \in Reached(H, p, rootId, n + 1) =>
              /\ r \in H /\ IsReplyEvent(r, p)
              /\ ParentKey(r, p, H, rootId) \in {RootKey(p)} \cup Reached(H, p, rootId, n)
<1> DEFINE K == KeyIn(H, p, rootId)
           G == Among(H, p)
           root == RootKey(p)
<1>1. PICK L : Levels(L, K, G, root, n + 1) BY LevelsExist
<1>2. /\ Reached(H, p, rootId, 0) = UpTo(L, 0)
      /\ Reached(H, p, rootId, n) = UpTo(L, n)
      /\ Reached(H, p, rootId, n + 1) = UpTo(L, n + 1)
  <2>1. 0 <= n + 1 /\ n <= n + 1 /\ n + 1 <= n + 1 /\ 0 \in Nat /\ n + 1 \in Nat OBVIOUS
  <2>2. QED BY <1>1, <2>1, ReachedInLevels
<1>3. L[0] = {root} /\ \A d \in 1..(n + 1) : L[d] = {r \in G : K[r] \in L[d - 1]}
  <2> HIDE DEF K, G, root
  <2>1. QED BY <1>1, LevelsAre
<1>4. UpTo(L, n + 1) = {r \in G : K[r] \in {root} \cup UpTo(L, n)}
  <2> HIDE DEF K, G, root
  <2>1. ASSUME NEW r \in G, K[r] = root PROVE r \in UpTo(L, n + 1)
    <3>1. 1 \in 1..(n + 1) /\ 1 - 1 = 0 OBVIOUS
    <3>2. r \in L[1] BY <1>3, <2>1, <3>1
    <3>3. QED BY <3>1, <3>2 DEF UpTo
  <2>2. ASSUME NEW r \in G, K[r] \in UpTo(L, n) PROVE r \in UpTo(L, n + 1)
    <3>1. PICK d \in 1..n : K[r] \in L[d] BY <2>2 DEF UpTo
    <3>2. d + 1 \in 1..(n + 1) /\ (d + 1) - 1 = d OBVIOUS
    <3>3. r \in L[d + 1] BY <1>3, <3>1, <3>2
    <3>4. QED BY <3>2, <3>3 DEF UpTo
  <2>3. ASSUME NEW r \in UpTo(L, n + 1) PROVE r \in G /\ K[r] \in {root} \cup UpTo(L, n)
    <3>1. PICK d \in 1..(n + 1) : r \in L[d] BY DEF UpTo
    <3>2. r \in G /\ K[r] \in L[d - 1] BY <1>3, <3>1
    <3>3. d = 1 \/ d - 1 \in 1..n OBVIOUS
    <3>4. QED BY <1>3, <3>2, <3>3 DEF UpTo
  <2>4. QED BY <2>1, <2>2, <2>3
<1>5. UpTo(L, 0) = {} BY DEF UpTo
<1>6. \A r \in G : K[r] = ParentKey(r, p, H, rootId) BY DEF KeyIn
<1>7. \A r \in G : r \in H /\ IsReplyEvent(r, p) BY DEF Among
<1> HIDE DEF K, G, root
<1>8. \A r \in Reached(H, p, rootId, n + 1) :
        r \in G /\ K[r] \in {root} \cup Reached(H, p, rootId, n)
  BY <1>2, <1>4
<1>9. QED BY <1>2, <1>5, <1>6, <1>7, <1>8 DEF root

(* What answers the post, whatever else is held, and what answers what a   *)
(* level asks about.                                                       *)
AnswersPost(r, p) ==
  /\ IsReplyEvent(r, p)
  /\ IF p \in Addressed THEN ATag[r] = p /\ ReplyParentId(r) \in {None, p}
                        ELSE ReplyParentId(r) = p
Answers(s, r) ==
  IF s.ids = {} THEN AnswersPost(r, s.of)
                ELSE IsReplyEvent(r, s.of) /\ ReplyParentId(r) \in s.ids \ {r}

(* The parent an `e` tag names is an id among its `e` tags.                *)
LEMMA ParentTagged ==
  ASSUME NEW r \in Replies, ReplyParentId(r) # None
  PROVE  ReplyParentId(r) \in ETags(r) /\ \A p \in Posts : ReplyParentId(r) # Address(p)
<1> DEFINE t == Tags[r]
<1>1. t.plain \in Seq(ToSet(t.plain)) BY TagAssumption
<1>2. ReplyParentId(r) \in {t.reply, t.root} \cup ToSet(t.plain)
  <2>1. CASE t.reply # None BY <2>1 DEF ReplyParentId
  <2>2. CASE t.reply = None /\ t.root # None BY <2>2 DEF ReplyParentId
  <2>3. CASE t.reply = None /\ t.root = None
    <3>1. ReplyParentId(r) = IF t.plain = <<>> THEN None ELSE t.plain[Len(t.plain)]
      BY <2>3 DEF ReplyParentId
    <3>2. t.plain # <<>> /\ ReplyParentId(r) = t.plain[Len(t.plain)] BY <3>1
    <3> HIDE DEF t
    <3>3. t.plain[Len(t.plain)] \in ToSet(t.plain) BY <1>1, <3>2
    <3>4. QED BY <3>2, <3>3
  <2>4. QED BY <2>1, <2>2, <2>3
<1>3. QED BY <1>2, TagAssumption DEF ETags

LEMMA KeyAnswers ==
  ASSUME NEW p \in Posts, NEW known, NEW rootId \in {None, p}, NEW r \in Replies, IsReplyEvent(r, p)
  PROVE  /\ ParentKey(r, p, known, rootId) = RootKey(p) => AnswersPost(r, p)
         /\ ParentKey(r, p, known, rootId) \in Replies =>
              ReplyParentId(r) = ParentKey(r, p, known, rootId) /\ ReplyParentId(r) # r
<1> DEFINE parent == ReplyParentId(r)
           key == ParentKey(r, p, known, rootId)
<1>1. RootKey(p) # None /\ Address(p) \notin Replies /\ None \notin Replies /\ Address(p) # None /\ p # None
  BY ThreadAssumption DEF RootKey
<1>2. parent # Address(p) BY <1>1, ParentTagged
<1>3. \/ parent = r /\ key = None
      \/ parent # r /\ key = Address(p) /\ p \in Addressed /\ ATag[r] = p /\ parent \in {None, rootId}
      \/ parent # r /\ key = parent
  BY DEF ParentKey
<1> HIDE DEF parent, key
<1>4. key = RootKey(p) => AnswersPost(r, p)
  BY <1>1, <1>2, <1>3 DEF AnswersPost, RootKey, parent
<1>5. key \in Replies => parent = key /\ parent # r
  BY <1>1, <1>3
<1>6. QED BY <1>4, <1>5 DEF parent, key

(* A relay that has the reply sends it on a level it answers.              *)
LEMMA LevelSends ==
  ASSUME NEW p \in Posts, NEW ids \in SUBSET Replies, NEW r \in Replies, r \in Earlier \cup Late,
         Answers(Level(p, ids), r)
  PROVE  Wants(Level(p, ids), r)
<1> DEFINE s == Level(p, ids)
<1>1. s.kind = "replies" /\ s.of = p /\ s.ids = ids BY DEF Level
<1>2. CASE ids # {}
  <2>1. ReplyParentId(r) \in ids BY <1>1, <1>2 DEF Answers
  <2>2. ReplyParentId(r) # None BY <2>1, ThreadAssumption
  <2>3. ETags(r) \cap ids # {} BY <2>1, <2>2, ParentTagged
  <2>4. RelayWants(s, r) BY <1>1, <1>2, <2>3 DEF RelayWants
  <2>5. QED BY <2>4, LevelAssumption
<1>3. CASE ids = {} /\ p \in Addressed
  <2>1. ATag[r] = p BY <1>1, <1>3 DEF Answers, AnswersPost
  <2>2. RelayWants(s, r) BY <1>1, <1>3, <2>1 DEF RelayWants
  <2>3. QED BY <2>2, LevelAssumption
<1>4. CASE ids = {} /\ p \notin Addressed
  <2>1. ReplyParentId(r) = p BY <1>1, <1>4 DEF Answers, AnswersPost
  <2>2. p \in ETags(r) BY <2>1, ParentTagged, ThreadAssumption
  <2>3. RelayWants(s, r) BY <1>1, <1>4, <2>2 DEF RelayWants
  <2>4. QED BY <2>3, LevelAssumption
<1>5. QED BY <1>2, <1>3, <1>4

(* The gate lets it through, when what the level asks about is held.       *)
LEMMA GateOpens ==
  ASSUME NEW p \in Posts, NEW s, s.of = p, NEW r \in Replies, Answers(s, r),
         NEW known \in SUBSET Replies, s.ids \subseteq known, p \notin known,
         NEW rootId \in {None, p}, p \in Addressed => rootId = p
  PROVE  AcceptsReply(r, p, known, rootId)
<1> DEFINE parent == ReplyParentId(r)
           key == ParentKey(r, p, known, rootId)
<1>1. IsReplyEvent(r, p) BY DEF Answers, AnswersPost
<1>2. None \notin known /\ RootKey(p) # None /\ p # None BY ThreadAssumption DEF RootKey
<1>3. r # p BY <1>1 DEF IsReplyEvent
<1>4. CASE s.ids = {} /\ p \in Addressed
  <2>1. ATag[r] = p /\ parent \in {None, p} BY <1>4 DEF Answers, AnswersPost
  <2>2. parent # r /\ parent \notin known /\ parent \in {None, rootId}
    <3>1. None # r BY ThreadAssumption
    <3>2. QED BY <1>2, <1>3, <1>4, <2>1, <3>1
  <2>3. key = RootKey(p) BY <1>4, <2>1, <2>2 DEF ParentKey, RootKey
  <2>4. QED BY <1>1, <1>2, <2>3 DEF AcceptsReply
<1>5. CASE s.ids = {} /\ p \notin Addressed
  <2>1. parent = p BY <1>5 DEF Answers, AnswersPost
  <2>2. key = RootKey(p) BY <1>3, <1>5, <2>1 DEF ParentKey, RootKey
  <2>3. QED BY <1>1, <1>2, <2>2 DEF AcceptsReply
<1>6. CASE s.ids # {}
  <2>1. parent \in known /\ parent # r BY <1>6 DEF Answers
  <2>2. key = parent BY <2>1 DEF ParentKey
  <2>3. QED BY <1>1, <1>2, <2>1, <2>2 DEF AcceptsReply
<1>7. QED BY <1>4, <1>5, <1>6

-----------------------------------------------------------------------------
(* What is true of a thread that has lost nothing while its timeline is    *)
(* its post's.  Its levels stand; what they asked about is held, and what  *)
(* is held is asked about or in front; what answers a level is held or on  *)
(* its way; a level that is answered has brought what the relay had, or    *)
(* its timer will read that; and no level was opened before, unless early, *)
(* everything above it was there; the first is, whenever the next opens.   *)
OldReplies == Earlier \cap Replies
Unlost == ~cut /\ named.of \in threads.open /\ events \subseteq {named.of}
Comes(S, s, r) == \E d \in S : d.to = s /\ d.event = r

LevelsStand(p) ==
  HasClient => /\ Level(p, {}) \in LevelSubs(p)
               /\ \A x \in watch[p].asked : \E s \in LevelSubs(p) : x \in s.ids
AskedIsHeld(p) ==
  /\ watch[p].asked \cup watch[p].frontier \subseteq RepliesTo(p)
  /\ \A s \in LevelSubs(p) : s.ids \subseteq watch[p].asked
  /\ watch[p].opened < MaxDepth => RepliesTo(p) \subseteq watch[p].asked \cup watch[p].frontier
Owed(p) ==
  IsConnected => \A s \in LevelSubs(p), r \in stored \cap Replies :
                   Answers(s, r) => r \in RepliesTo(p) \/ Comes(inbox, s, r)
Brought(p) ==
  \A s \in LevelSubs(p) \cap answered, r \in OldReplies :
    Answers(s, r) => r \in RepliesTo(p) \/ Comes(Received, s, r)
TimerSet(p) == (\E d \in Received : d.to \in LevelSubs(p)) => watch[p].advance
FrontAwaited(p) ==
  HasClient /\ watch[p].frontier \cap Earlier # {} =>
    watch[p].advance \/ ~(LevelSubs(p) \subseteq answered)
DeepEnough(p) ==
  HasClient /\ ~watch[p].early =>
    \A rootId \in {None, p} : Reached(OldReplies, p, rootId, watch[p].opened - 1) \subseteq watch[p].asked
TopBrought(p) ==
  watch[p].opened = 1 =>
    /\ watch[p].asked = {}
    /\ watch[p].advance => \A r \in OldReplies :
         AnswersPost(r, p) => r \in RepliesTo(p) \/ Comes(Received, Level(p, {}), r)
TopAsked(p) ==
  watch[p].opened > 1 =>
    \A rootId \in {None, p} : Reached(OldReplies, p, rootId, 1) \subseteq watch[p].asked
ThreadOK(p) ==
  /\ LevelsStand(p) /\ AskedIsHeld(p) /\ Owed(p) /\ Brought(p)
  /\ TimerSet(p) /\ FrontAwaited(p) /\ DeepEnough(p)
  /\ TopBrought(p) /\ TopAsked(p)

Undialed == boot.phase \in {"idle", "acquiring"} => status = "disconnected" /\ threads.open = {}
StoppedIsOver == stopped => threads.open = {}
InboxInOrder ==
  /\ Earlier \subseteq stored /\ \A d \in inbox : d.event \in Earlier => ~d.live
  /\ ~IsConnected => inbox = {}
FreshIsEmpty == ~stopped /\ named.of \notin threads.open => RepliesTo(named.of) = {}
ThreadInv ==
  /\ Undialed /\ StoppedIsOver /\ InboxInOrder /\ FreshIsEmpty
  /\ Unlost => ThreadOK(named.of)

(* Nothing the connection carries for the thread changes.                  *)
Untouched(p) ==
  /\ status' = status /\ stored' = stored
  /\ LevelSubs(p)' = LevelSubs(p)
  /\ \A s \in LevelSubs(p) : s \in answered' <=> s \in answered
  /\ \A d \in inbox \cup inbox' : d.to \in LevelSubs(p) => d \in inbox /\ d \in inbox'

LEMMA ThreadKept ==
  ASSUME IInv, NEW p, ThreadOK(p), Untouched(p), watch'[p] = watch[p], RepliesTo(p)' = RepliesTo(p)
  PROVE  ThreadOK(p)'
<1>1. /\ status' = status /\ stored' = stored /\ LevelSubs(p)' = LevelSubs(p)
      /\ LevelSubs(p) \cap answered' = LevelSubs(p) \cap answered
      /\ HasClient' = HasClient /\ IsConnected' = IsConnected
  BY DEF Untouched, HasClient, IsConnected
<1>2. \A s \in LevelSubs(p) : \A r : Comes(inbox, s, r) => Comes(inbox', s, r)
  BY DEF Comes, Untouched
<1>3. \A d : d.to \in LevelSubs(p) => (d \in Received <=> d \in Received')
  BY DEF Untouched, Received
<1>4. \A s \in LevelSubs(p) : \A r : Comes(Received, s, r) => Comes(Received', s, r)
  BY <1>3 DEF Comes
<1>0. \A r : Comes(Received, Level(p, {}), r) => Comes(Received', Level(p, {}), r)
  <2>1. \A d \in Received : d.to = Level(p, {}) => d.to \in LevelSubs(p)
    BY DEF Received, IInv, ConnOK, InboxOwned, LevelSubs, Level
  <2>2. QED BY <1>3, <2>1 DEF Comes
<1>5. LevelsStand(p)' BY <1>1 DEF ThreadOK, LevelsStand
<1>6. AskedIsHeld(p)' BY <1>1 DEF ThreadOK, AskedIsHeld
<1>7. Owed(p)' BY <1>1, <1>2 DEF ThreadOK, Owed
<1>8. Brought(p)' BY <1>1, <1>4 DEF ThreadOK, Brought
<1>9. TimerSet(p)' BY <1>1, <1>3 DEF ThreadOK, TimerSet
<1>10. FrontAwaited(p)' BY <1>1 DEF ThreadOK, FrontAwaited
<1>11. DeepEnough(p)' BY <1>1 DEF ThreadOK, DeepEnough
<1>12. TopBrought(p)' BY <1>0 DEF ThreadOK, TopBrought
<1>13. TopAsked(p)' BY DEF ThreadOK, TopAsked
<1>14. QED BY <1>5, <1>6, <1>7, <1>8, <1>9, <1>10, <1>11, <1>12, <1>13 DEF ThreadOK

(* What the relay owes a REQ.                                              *)
LEMMA BackfillIs ==
  ASSUME NEW S
  PROVE  /\ \A d \in Backfill(S) : d.to \in S /\ d.event \in stored /\ d.live = FALSE
         /\ \A s \in S, e \in stored : Wants(s, e) => Comes(Backfill(S), s, e)
<1>1. ASSUME NEW d \in Backfill(S) PROVE d.to \in S /\ d.event \in stored /\ d.live = FALSE
  <2>1. PICK x \in S \X stored : d = Delivery(x[1], x[2], FALSE) BY DEF Backfill
  <2>2. QED BY <2>1 DEF Delivery
<1>2. ASSUME NEW s \in S, NEW e \in stored, Wants(s, e) PROVE Comes(Backfill(S), s, e)
  <2>1. <<s, e>> \in S \X stored /\ <<s, e>>[1] = s /\ <<s, e>>[2] = e OBVIOUS
  <2>2. <<s, e>> \in {x \in S \X stored : Wants(x[1], x[2])} BY <1>2, <2>1
  <2>3. Delivery(s, e, FALSE) \in Backfill(S) BY <2>1, <2>2 DEF Backfill
  <2>4. Delivery(s, e, FALSE).to = s /\ Delivery(s, e, FALSE).event = e BY DEF Delivery
  <2>5. QED BY <2>3, <2>4 DEF Comes
<1>3. QED BY <1>1, <1>2

(* What the connection does for anything but a thread.                     *)
NotALevel(S) == \A s \in S : s.kind # "replies"
Elsewhere ==
  \/ UNCHANGED connVars
  \/ \E gone, new : Route(gone, new) /\ NotALevel(gone \cup new)
  \/ \E s : Eose(s) /\ s.kind # "replies"
  \/ \E d : Delivers(d) /\ d.to.kind # "replies"

LEMMA ElsewhereUntouched ==
  ASSUME IInv, Elsewhere, NEW p
  PROVE  Untouched(p) /\ (InboxInOrder => InboxInOrder')
<1> \A s \in LevelSubs(p) : s \in subs /\ s.kind = "replies" BY DEF LevelSubs
<1>1. CASE UNCHANGED connVars
  BY <1>1 DEF Untouched, InboxInOrder, IsConnected, connVars, LevelSubs
<1>2. ASSUME NEW gone, NEW new, Route(gone, new), NotALevel(gone \cup new)
      PROVE  Untouched(p) /\ (InboxInOrder => InboxInOrder')
  <2> DEFINE opened == IF HasClient THEN new ELSE {}
             kept == subs \ (gone \cup opened)
  <2>1. /\ subs' = kept \cup opened /\ answered' = answered \cap kept
        /\ inbox' = {d \in inbox : d.to \in kept} \cup IF IsConnected THEN Backfill(opened) ELSE {}
        /\ status' = status /\ stored' = stored
    BY <1>2 DEF Route
  <2>2. \A s \in opened \cup gone : s.kind # "replies" BY <1>2 DEF NotALevel
  <2> HIDE DEF opened
  <2>3. LevelSubs(p) \subseteq kept /\ LevelSubs(p)' = LevelSubs(p)
    BY <2>1, <2>2 DEF LevelSubs
  <2> HIDE DEF kept
  <2>4. \A d \in inbox' : d \in inbox \/ (d.to \in opened /\ d.live = FALSE)
    BY <2>1, BackfillIs
  <2>5. \A d \in inbox \cup inbox' : d.to \in LevelSubs(p) => d \in inbox /\ d \in inbox'
    BY <2>1, <2>2, <2>3, <2>4
  <2>6. Untouched(p) BY <2>1, <2>3, <2>5 DEF Untouched
  <2>7. InboxInOrder => InboxInOrder'
    <3>1. ~IsConnected /\ inbox = {} => inbox' = {} BY <2>1
    <3>2. QED BY <2>1, <2>4, <3>1 DEF InboxInOrder, IsConnected
  <2>8. QED BY <2>6, <2>7
<1>3. ASSUME NEW s, Eose(s), s.kind # "replies"
      PROVE  Untouched(p) /\ (InboxInOrder => InboxInOrder')
  BY <1>3 DEF Eose, Untouched, InboxInOrder, IsConnected, LevelSubs
<1>4. ASSUME NEW d, Delivers(d), d.to.kind # "replies"
      PROVE  Untouched(p) /\ (InboxInOrder => InboxInOrder')
  BY <1>4 DEF Delivers, Untouched, InboxInOrder, IsConnected, LevelSubs
<1>5. QED BY <1>1, <1>2, <1>3, <1>4 DEF Elsewhere

(* A step that leaves the thread and what is lost of it alone.             *)
LEMMA ThreadFrame ==
  ASSUME IInv, ThreadInv, Elsewhere, NEW p, p = named.of, named' = named,
         threads' = threads, watch'[p] = watch[p], RepliesTo(p)' = RepliesTo(p),
         ~cut' => ~cut, events' \subseteq {p} => events \subseteq {p},
         boot'.phase \in {"idle", "acquiring"} => boot'.phase = boot.phase, stopped' = stopped
  PROVE  ThreadInv'
<1>1. Untouched(p) /\ InboxInOrder' BY ElsewhereUntouched DEF ThreadInv
<1>2. Undialed' BY <1>1 DEF ThreadInv, Undialed, Untouched
<1>3. StoppedIsOver' BY DEF ThreadInv, StoppedIsOver
<1>4. FreshIsEmpty' BY DEF ThreadInv, FreshIsEmpty
<1>5. ASSUME Unlost' PROVE ThreadOK(named.of)'
  <2>1. Unlost BY <1>5 DEF Unlost
  <2>2. ThreadOK(p) BY <2>1 DEF ThreadInv
  <2>3. ThreadOK(p)' BY <1>1, <2>2, ThreadKept
  <2>4. QED BY <2>3
<1>6. QED BY <1>1, <1>2, <1>3, <1>4, <1>5 DEF ThreadInv

(* A level subscription, and what the levels there are bring.              *)
LEMMA LevelIs ==
  ASSUME IInv, NEW p, NEW s \in LevelSubs(p)
  PROVE  /\ s \in subs /\ s.kind = "replies" /\ s.of = p /\ p \in threads.open
         /\ s.ids \in SUBSET Replies /\ s = Level(p, s.ids)
<1>1. s \in subs /\ s.kind = "replies" /\ s.of = p BY DEF LevelSubs
<1>2. Owner(s) BY <1>1 DEF IInv, SubsOwned
<1>3. p \in threads.open /\ \E ids \in SUBSET Replies : s = Level(p, ids)
  BY <1>1, <1>2, OwnerByKind
<1>4. PICK ids \in SUBSET Replies : s = Level(p, ids) BY <1>3
<1>5. s.ids = ids BY <1>4 DEF Level
<1>6. QED BY <1>1, <1>3, <1>4, <1>5

LEMMA LevelsBring ==
  ASSUME IInv, NEW p \in Posts, LevelsStand(p), HasClient, NEW known, NEW rootId \in {None, p},
         NEW r \in Replies, IsReplyEvent(r, p),
         ParentKey(r, p, known, rootId) \in {RootKey(p)} \cup watch[p].asked
  PROVE  \E s \in LevelSubs(p) : Answers(s, r)
<1> DEFINE key == ParentKey(r, p, known, rootId)
<1>1. watch[p].asked \subseteq Replies BY WatchTypes
<1>2. /\ key = RootKey(p) => AnswersPost(r, p)
      /\ key \in Replies => ReplyParentId(r) = key /\ ReplyParentId(r) # r
  BY KeyAnswers
<1> HIDE DEF key
<1>3. CASE key = RootKey(p)
  <2>1. Level(p, {}) \in LevelSubs(p) BY DEF LevelsStand
  <2>2. Answers(Level(p, {}), r) BY <1>2, <1>3 DEF Answers, Level
  <2>3. QED BY <2>1, <2>2
<1>4. CASE key \in watch[p].asked
  <2>1. PICK s \in LevelSubs(p) : key \in s.ids BY <1>4 DEF LevelsStand
  <2>2. s.of = p BY DEF LevelSubs
  <2>3. Answers(s, r) BY <1>1, <1>2, <1>4, <2>1, <2>2 DEF Answers
  <2>4. QED BY <2>3
<1>5. QED BY <1>3, <1>4 DEF key

(* A thread just opened.                                                   *)
LEMMA FreshThread ==
  ASSUME NEW p \in Posts, LevelSubs(p)' = {Level(p, {})}, Level(p, {}) \notin answered',
         watch'[p] = NewWatch, RepliesTo(p)' = {}, stored' \subseteq Earlier \cup Late,
         \A r \in stored' : Wants(Level(p, {}), r) => Comes(inbox', Level(p, {}), r)
  PROVE  ThreadOK(p)'
<1>1. /\ watch'[p].asked = {} /\ watch'[p].frontier = {} /\ watch'[p].opened = 1
  BY DEF NewWatch
<1>2. Level(p, {}).ids = {} BY DEF Level
<1>3. LevelsStand(p)' BY <1>1 DEF LevelsStand
<1>4. AskedIsHeld(p)' BY <1>1, <1>2 DEF AskedIsHeld
<1>5. Owed(p)'
  <2>1. ASSUME NEW r \in stored', r \in Replies, Answers(Level(p, {}), r)
        PROVE  Comes(inbox', Level(p, {}), r)
    <3>1. {} \in SUBSET Replies OBVIOUS
    <3>2. Wants(Level(p, {}), r) BY <2>1, <3>1, LevelSends
    <3>3. QED BY <3>2
  <2>2. QED BY <2>1 DEF Owed
<1>6. Brought(p)' BY DEF Brought
<1>7. TimerSet(p)' BY DEF TimerSet, Received
<1>8. FrontAwaited(p)' BY <1>1 DEF FrontAwaited
<1>9. DeepEnough(p)'
  <2>1. \A rootId : Reached(OldReplies, p, rootId, 0) = {}
    <3>1. 0 \in Nat OBVIOUS
    <3>2. QED BY <3>1, ReachedGrows
  <2>2. watch'[p].opened - 1 = 0 BY <1>1
  <2>3. QED BY <2>1, <2>2 DEF DeepEnough
<1>10. watch'[p].advance = FALSE BY DEF NewWatch
<1>11. TopBrought(p)' /\ TopAsked(p)' BY <1>1, <1>10 DEF TopBrought, TopAsked
<1>12. QED BY <1>3, <1>4, <1>5, <1>6, <1>7, <1>8, <1>9, <1>11 DEF ThreadOK

(* The gate adds what it lets through, unless a full set drops another.    *)
LEMMA ReplyHeld ==
  ASSUME IInv, TreeInv, NEW p \in Posts, NEW e \in Replies, IngestReply(p, e), ~cut'
  PROVE  RepliesTo(p)' = RepliesTo(p) \cup IF AcceptsReply(e, p, RepliesTo(p), RootId) THEN {e} ELSE {}
<1> DEFINE known == RepliesTo(p)
           accepted == AcceptsReply(e, p, known, RootId)
           kept == Youngest(known \cup {e}, MaxReplies)
<1>1. /\ IF accepted /\ e \notin known THEN Insert(p, e, Replies, MaxReplies) ELSE held' = held
      /\ ~(accepted /\ Cardinality(known \cup {e}) > MaxReplies)
  BY DEF IngestReply
<1>2. held \subseteq Posts \X (Replies \cup Reactions) BY WatchTypes
<1>3. CASE ~(accepted /\ e \notin known)
  <2>1. held' = held BY <1>1, <1>3
  <2>2. RepliesTo(p)' = known BY <2>1 DEF RepliesTo, HeldFor
  <2>3. QED BY <1>3, <2>2
<1>4. CASE accepted /\ e \notin known
  <2>1. held' = (held \ {<<p, x>> : x \in known}) \cup {<<p, x>> : x \in kept}
    BY <1>1, <1>4 DEF Insert, RepliesTo
  <2>2. known \in SUBSET Replies BY DEF RepliesTo
  <2>3. kept = known \cup {e}
    <3>1. IsFiniteSet(known \cup {e}) BY <2>2, ThreadAssumption, FS_Subset
    <3>2. Cardinality(known \cup {e}) \in Nat BY <3>1, FS_CardinalityType
    <3>3. Cardinality(known \cup {e}) <= MaxReplies BY <1>1, <1>4, <3>2, WatchAssumption
    <3>4. QED BY <3>3 DEF Youngest
  <2>4. \A h \in held : h = <<h[1], h[2]>> BY <1>2
  <2>5. \A h \in held : h[1] = p /\ h[2] \in Replies => h[2] \in known
    BY DEF RepliesTo, HeldFor
  <2>6. RepliesTo(p)' = {h[2] : h \in {x \in held' : x[1] = p}} \cap Replies
    BY DEF RepliesTo, HeldFor
  <2> HIDE DEF kept, known
  <2>7. ASSUME NEW r \in kept PROVE r \in RepliesTo(p)'
    <3>1. <<p, r>> \in held' BY <2>1
    <3>2. <<p, r>>[1] = p /\ <<p, r>>[2] = r OBVIOUS
    <3>3. r \in Replies BY <2>2, <2>3
    <3>4. QED BY <2>6, <3>1, <3>2, <3>3
  <2>8. ASSUME NEW h \in held', h[1] = p, h[2] \in Replies PROVE h[2] \in kept
    <3>1. CASE h \in {<<p, x>> : x \in kept}
      BY <3>1
    <3>2. CASE h \in held /\ h \notin {<<p, x>> : x \in known}
      <4>1. h[2] \in known BY <2>5, <2>8, <3>2
      <4>2. h = <<p, h[2]>> BY <2>4, <2>8, <3>2
      <4>3. h \in {<<p, x>> : x \in known} BY <4>1, <4>2
      <4>4. QED BY <3>2, <4>3
    <3>3. QED BY <2>1, <2>8, <3>1, <3>2
  <2>9. RepliesTo(p)' = kept BY <2>6, <2>7, <2>8
  <2>10. QED BY <1>4, <2>3, <2>9 DEF known
<1>5. QED BY <1>3, <1>4

(* A reply arrives: what answers its level passes the gate, and so is held *)
(* from now on.                                                            *)
LEMMA ReplyEventKept ==
  ASSUME IInv, TreeInv, ThreadInv, NEW d, d.to.kind = "replies", PostEvent(d)
  PROVE  ThreadInv'
<1> DEFINE p == d.to.of
           e == d.event
           known == RepliesTo(p)
           accepted == AcceptsReply(e, p, known, RootId)
<1>1. /\ Delivers(d) /\ IngestReply(p, e)
      /\ UNCHANGED <<events, boot, named, stopped>>
  BY DEF PostEvent, bootVars
<1>2. /\ d \in inbox /\ inbox' = inbox \ {d}
      /\ UNCHANGED <<status, subs, answered, stored>>
  BY <1>1 DEF Delivers
<1>3. d.to \in LevelSubs(p) BY <1>2 DEF IInv, ConnOK, InboxOwned, LevelSubs
<1>4. /\ p \in threads.open /\ d.to = Level(p, d.to.ids) /\ d.to.ids \in SUBSET Replies
      /\ p \in Posts /\ p = named.of /\ threads' = threads
  <2> HIDE DEF p
  <2>1. p \in threads.open /\ d.to = Level(p, d.to.ids) /\ d.to.ids \in SUBSET Replies
    BY <1>3, LevelIs
  <2>2. QED BY <2>1, <1>1, WatchTypes DEF IngestReply
<1>5. e \in Replies
  <2>1. d.event \in Earlier \cup Late /\ Wants(d.to, d.event)
    BY <1>2 DEF IInv, ConnOK, InboxOwned
  <2>2. RelayWants(d.to, d.event) BY <1>4, <2>1, RelayAssumption
  <2>3. QED BY <1>4, <2>2 DEF RelayWants, Level
<1>6. /\ watch'[p].asked = watch[p].asked /\ watch'[p].opened = watch[p].opened
      /\ watch'[p].advance = watch[p].advance /\ watch'[p].early = watch[p].early
      /\ watch'[p].frontier = watch[p].frontier \cup IF accepted /\ e \notin known THEN {e} ELSE {}
  <2>1. watch[p] \in WatchType BY <1>4, WatchTypes
  <2>2. watch \in [Posts -> WatchType] BY WatchTypes
  <2>3. watch' = IF accepted /\ e \notin known THEN [watch EXCEPT ![p].frontier = @ \cup {e}] ELSE watch
    BY <1>1 DEF IngestReply
  <2> HIDE DEF p, e, known, accepted
  <2>4. QED BY <1>4, <2>1, <2>2, <2>3 DEF WatchType
<1>7. ~cut' => /\ ~cut /\ known' = known \cup IF accepted THEN {e} ELSE {}
               /\ accepted \/ ~(p \in Addressed /\ RootId = None)
  <2>1. ~cut' => ~cut /\ (accepted \/ ~(p \in Addressed /\ RootId = None))
    BY <1>1 DEF IngestReply
  <2> HIDE DEF e
  <2>2. ~cut' => RepliesTo(named.of)' = known \cup IF accepted THEN {e} ELSE {}
    <3> SUFFICES ASSUME ~cut', NEW q \in Posts, q = named.of
                 PROVE  RepliesTo(q)' = known \cup IF accepted THEN {e} ELSE {}
      BY <1>1, <1>4
    <3>1. p = q BY <1>4
    <3>2. IngestReply(q, e) BY <1>1, <3>1
    <3>3. RepliesTo(q)' = RepliesTo(q) \cup IF AcceptsReply(e, q, RepliesTo(q), RootId) THEN {e} ELSE {}
      BY <1>5, <3>2, ReplyHeld
    <3>4. QED BY <3>1, <3>3
  <2>3. known' = RepliesTo(named.of)'
    <3>1. p' = named'.of BY <1>1, <1>4
    <3>2. QED BY <3>1
  <2>4. QED BY <2>1, <2>2, <2>3
<1>8. Undialed' /\ StoppedIsOver' BY <1>1, <1>2, <1>4 DEF ThreadInv, Undialed, StoppedIsOver
<1>9. InboxInOrder' BY <1>2 DEF ThreadInv, InboxInOrder, IsConnected
<1>10. FreshIsEmpty' BY <1>1, <1>4 DEF FreshIsEmpty
<1>11. ASSUME Unlost' PROVE ThreadOK(named.of)'
  <2> SUFFICES ASSUME NEW q \in Posts, q = named.of PROVE ThreadOK(q)'
    BY <1>1, <1>4
  <2>1. p = q /\ named' = named BY <1>1, <1>4
  <2> DEFINE mine == RepliesTo(q)
             w == watch[q]
             passed == AcceptsReply(e, q, mine, RootId)
  <2> HIDE DEF p, e
  <2>2. /\ ~cut /\ Unlost /\ mine' = mine \cup IF passed THEN {e} ELSE {}
        /\ passed \/ ~(q \in Addressed /\ RootId = None)
    BY <1>1, <1>4, <1>7, <1>11, <2>1 DEF Unlost
  <2>3. ThreadOK(q) BY <2>2 DEF ThreadInv
  <2>4. events \subseteq {q} BY <2>2 DEF Unlost
  <2>5. w \in WatchType BY WatchTypes
  <2>6. /\ watch'[q].asked = w.asked /\ watch'[q].opened = w.opened
        /\ watch'[q].advance = w.advance /\ watch'[q].early = w.early
        /\ watch'[q].frontier = w.frontier \cup IF passed /\ e \notin mine THEN {e} ELSE {}
    BY <1>6, <2>1
  <2>7. d.to \in LevelSubs(q) /\ d.to.of = q /\ d.event = e BY <1>3, <2>1 DEF p, e
  <2>8. Answers(d.to, e) => passed
    <3>1. RootId \in {None, q} BY <2>4, RootIsThePost
    <3>2. mine \in SUBSET Replies /\ q \notin mine BY RootApart DEF TreeInv
    <3>3. d.to.ids \subseteq mine BY <2>3, <2>7 DEF ThreadOK, AskedIsHeld
    <3>4. CASE q \in Addressed => RootId = q
      BY <1>5, <2>7, <3>1, <3>2, <3>3, <3>4, GateOpens
    <3>5. CASE ~(q \in Addressed => RootId = q) BY <2>2, <3>1, <3>5
    <3>6. QED BY <3>4, <3>5
  <2>9. LevelSubs(q)' = LevelSubs(q) /\ HasClient' = HasClient /\ IsConnected' = IsConnected
    BY <1>2 DEF LevelSubs, HasClient, IsConnected
  <2>10. \A x : x \in Received' <=> x \in Received /\ x # d BY <1>2 DEF Received
  <2> HIDE DEF mine, w, passed
  <2>11. LevelsStand(q)' BY <2>3, <2>6, <2>9 DEF ThreadOK, LevelsStand, w
  <2>12. AskedIsHeld(q)'
    <3>1. /\ w.asked \cup w.frontier \subseteq mine
          /\ \A s \in LevelSubs(q) : s.ids \subseteq w.asked
          /\ w.opened < MaxDepth => mine \subseteq w.asked \cup w.frontier
      BY <2>3 DEF ThreadOK, AskedIsHeld, mine, w
    <3>2. /\ w.asked \cup watch'[q].frontier \subseteq mine'
          /\ w.opened < MaxDepth => mine' \subseteq w.asked \cup watch'[q].frontier
      BY <2>2, <2>6, <3>1
    <3>3. QED BY <2>6, <2>9, <3>1, <3>2 DEF AskedIsHeld, mine
  <2>13. Owed(q)'
    <3>1. ASSUME IsConnected', NEW s \in LevelSubs(q)', NEW r \in stored' \cap Replies, Answers(s, r)
          PROVE  r \in mine' \/ Comes(inbox', s, r)
      <4>1. r \in mine \/ Comes(inbox, s, r)
        BY <1>2, <2>3, <2>9, <3>1 DEF ThreadOK, Owed, mine
      <4>2. CASE r \in mine BY <2>2, <4>2
      <4>3. ASSUME NEW x \in inbox, x.to = s, x.event = r PROVE r \in mine' \/ Comes(inbox', s, r)
        <5>1. CASE x = d BY <2>2, <2>7, <2>8, <3>1, <4>3, <5>1
        <5>2. CASE x # d BY <1>2, <4>3, <5>2 DEF Comes
        <5>3. QED BY <5>1, <5>2
      <4>4. QED BY <4>1, <4>2, <4>3 DEF Comes
    <3>2. QED BY <3>1 DEF Owed, mine
  <2>14. Brought(q)'
    <3>1. ASSUME NEW s \in LevelSubs(q)' \cap answered', NEW r \in OldReplies, Answers(s, r)
          PROVE  r \in mine' \/ Comes(Received', s, r)
      <4>1. r \in mine \/ Comes(Received, s, r)
        BY <1>2, <2>3, <2>9, <3>1 DEF ThreadOK, Brought, mine
      <4>2. CASE r \in mine BY <2>2, <4>2
      <4>3. ASSUME NEW x \in Received, x.to = s, x.event = r PROVE r \in mine' \/ Comes(Received', s, r)
        <5>1. CASE x = d BY <2>2, <2>7, <2>8, <3>1, <4>3, <5>1
        <5>2. CASE x # d BY <2>10, <4>3, <5>2 DEF Comes
        <5>3. QED BY <5>1, <5>2
      <4>4. QED BY <4>1, <4>2, <4>3 DEF Comes
    <3>2. QED BY <3>1 DEF Brought, mine
  <2>15. TimerSet(q)' BY <2>3, <2>6, <2>9, <2>10 DEF ThreadOK, TimerSet, w
  <2>16. FrontAwaited(q)'
    <3>1. CASE watch'[q].frontier \cap Earlier = w.frontier \cap Earlier
      BY <1>2, <2>3, <2>6, <2>9, <3>1 DEF ThreadOK, FrontAwaited, w
    <3>2. CASE watch'[q].frontier \cap Earlier # w.frontier \cap Earlier
      <4>1. e \in Earlier BY <2>6, <3>2
      <4>2. ~d.live BY <1>2, <2>7, <4>1 DEF ThreadInv, InboxInOrder
      <4>3. CASE d.to \in answered
        <5>1. d \in Received BY <1>2, <4>2, <4>3 DEF Received
        <5>2. w.advance BY <2>3, <2>7, <5>1 DEF ThreadOK, TimerSet, w
        <5>3. QED BY <2>6, <5>2 DEF FrontAwaited
      <4>4. CASE d.to \notin answered
        BY <1>2, <2>7, <2>9, <4>4 DEF FrontAwaited
      <4>5. QED BY <4>3, <4>4
    <3>3. QED BY <3>1, <3>2
  <2>17. DeepEnough(q)' BY <2>3, <2>6, <2>9 DEF ThreadOK, DeepEnough, w
  <2>18. TopBrought(q)'
    <3>1. ASSUME w.opened = 1, w.advance, NEW r \in OldReplies, AnswersPost(r, q)
          PROVE  r \in mine' \/ Comes(Received', Level(q, {}), r)
      <4>1. r \in mine \/ Comes(Received, Level(q, {}), r)
        BY <2>3, <3>1 DEF ThreadOK, TopBrought, mine, w
      <4>2. CASE r \in mine BY <2>2, <4>2
      <4>3. ASSUME NEW x \in Received, x.to = Level(q, {}), x.event = r
            PROVE  r \in mine' \/ Comes(Received', Level(q, {}), r)
        <5>1. Answers(Level(q, {}), r) BY <3>1 DEF Answers, Level
        <5>2. r \in Replies BY DEF OldReplies
        <5>3. CASE x = d BY <2>2, <2>7, <2>8, <4>3, <5>1, <5>2, <5>3
        <5>4. CASE x # d BY <2>10, <4>3, <5>4 DEF Comes
        <5>5. QED BY <5>3, <5>4
      <4>4. QED BY <4>1, <4>2, <4>3 DEF Comes
    <3>2. w.opened = 1 => w.asked = {} BY <2>3 DEF ThreadOK, TopBrought, w
    <3>3. QED BY <2>6, <3>1, <3>2 DEF TopBrought, mine, w
  <2>19. TopAsked(q)' BY <2>3, <2>6 DEF ThreadOK, TopAsked, w
  <2>20. QED BY <2>11, <2>12, <2>13, <2>14, <2>15, <2>16, <2>17, <2>18, <2>19 DEF ThreadOK
<1>12. QED BY <1>8, <1>9, <1>10, <1>11 DEF ThreadInv

(* A level is answered: what it was owed has been received, and its timer  *)
(* will see to it.                                                         *)
LEMMA LevelEoseKept ==
  ASSUME IInv, ThreadInv, UNCHANGED <<lookupVars, bootVars>>, NEW s, LevelEose(s)
  PROVE  ThreadInv'
<1>1. /\ s.kind = "replies" /\ IsConnected /\ s \in subs \ answered /\ answered' = answered \cup {s}
      /\ watch' = [watch EXCEPT ![s.of].advance = TRUE]
      /\ UNCHANGED <<status, subs, inbox, stored, events, held, threads, cut, boot, named, stopped>>
  BY DEF LevelEose, Eose, lookupVars, bootVars
<1>2. Undialed' /\ StoppedIsOver' /\ InboxInOrder'
  BY <1>1 DEF ThreadInv, Undialed, StoppedIsOver, InboxInOrder, IsConnected
<1>3. FreshIsEmpty' BY <1>1 DEF ThreadInv, FreshIsEmpty, RepliesTo, HeldFor
<1>4. ASSUME Unlost' PROVE ThreadOK(named.of)'
  <2>1. Unlost BY <1>1, <1>4 DEF Unlost
  <2>2. named.of \in Posts BY <2>1, WatchTypes DEF Unlost
  <2> SUFFICES ASSUME NEW p \in Posts, p = named.of PROVE ThreadOK(p)'
    BY <1>1, <2>2
  <2> DEFINE w == watch[p]
  <2>3. ThreadOK(p) BY <2>1 DEF ThreadInv
  <2>4. s \in LevelSubs(s.of) BY <1>1 DEF LevelSubs
  <2>5. s.of = p
    <3>1. s.of \in threads.open BY <2>4, LevelIs
    <3>2. QED BY <3>1, WatchTypes
  <2>6. watch[p] \in WatchType /\ watch \in [Posts -> WatchType] BY WatchTypes
  <2>7. /\ watch'[p].asked = w.asked /\ watch'[p].opened = w.opened /\ watch'[p].advance = TRUE
        /\ watch'[p].early = w.early /\ watch'[p].frontier = w.frontier
    BY <1>1, <2>5, <2>6 DEF WatchType
  <2>8. /\ LevelSubs(p)' = LevelSubs(p) /\ HasClient' = HasClient /\ IsConnected' = IsConnected
        /\ RepliesTo(p)' = RepliesTo(p)
    BY <1>1 DEF LevelSubs, HasClient, IsConnected, RepliesTo, HeldFor
  <2> HIDE DEF w
  <2>9. LevelsStand(p)' BY <2>3, <2>7, <2>8 DEF ThreadOK, LevelsStand, w
  <2>10. AskedIsHeld(p)' BY <2>3, <2>7, <2>8 DEF ThreadOK, AskedIsHeld, w
  <2>11. Owed(p)' BY <1>1, <2>3, <2>8 DEF ThreadOK, Owed
  <2>12. Brought(p)'
    <3>1. ASSUME NEW x \in LevelSubs(p)' \cap answered', NEW r \in OldReplies, Answers(x, r)
          PROVE  r \in RepliesTo(p)' \/ Comes(Received', x, r)
      <4>1. Received \subseteq Received' BY <1>1 DEF Received
      <4>2. CASE x # s
        <5>1. r \in RepliesTo(p) \/ Comes(Received, x, r)
          BY <1>1, <2>3, <2>8, <3>1, <4>2 DEF ThreadOK, Brought
        <5>2. QED BY <2>8, <4>1, <5>1 DEF Comes
      <4>3. CASE x = s
        <5>1. r \in stored \cap Replies BY DEF ThreadInv, InboxInOrder, OldReplies
        <5>2. r \in RepliesTo(p) \/ Comes(inbox, s, r)
          BY <1>1, <2>3, <2>8, <3>1, <4>3, <5>1 DEF ThreadOK, Owed
        <5>3. \A d \in inbox : d.to = s /\ d.event = r => d \in Received'
          BY <1>1 DEF ThreadInv, InboxInOrder, OldReplies, Received
        <5>4. QED BY <2>8, <4>3, <5>2, <5>3 DEF Comes
      <4>4. QED BY <4>2, <4>3
    <3>2. QED BY <3>1 DEF Brought
  <2>13. TimerSet(p)' BY <2>7 DEF TimerSet
  <2>14. FrontAwaited(p)' BY <2>7 DEF FrontAwaited
  <2>15. DeepEnough(p)' BY <2>3, <2>7, <2>8 DEF ThreadOK, DeepEnough, w
  <2>16. TopBrought(p)'
    <3>1. w.opened = 1 => w.asked = {} BY <2>3 DEF ThreadOK, TopBrought, w
    <3>2. ASSUME w.opened = 1, NEW r \in OldReplies, AnswersPost(r, p)
          PROVE  r \in RepliesTo(p)' \/ Comes(Received', Level(p, {}), r)
      <4>1. s = Level(p, {})
        <5>1. s.ids \subseteq w.asked BY <2>3, <2>4, <2>5 DEF ThreadOK, AskedIsHeld, w
        <5>2. s = Level(p, s.ids) BY <2>4, <2>5, LevelIs
        <5>3. s.ids = {} BY <3>1, <3>2, <5>1
        <5>4. QED BY <5>2, <5>3
      <4>2. s \in LevelSubs(p)' \cap answered' BY <1>1, <2>4, <2>5, <2>8
      <4>3. Answers(s, r) BY <3>2, <4>1 DEF Answers, Level
      <4>4. QED BY <2>12, <3>2, <4>1, <4>2, <4>3 DEF Brought
    <3>3. QED BY <2>7, <3>1, <3>2 DEF TopBrought
  <2>17. TopAsked(p)' BY <2>3, <2>7 DEF ThreadOK, TopAsked, w
  <2>18. QED BY <2>9, <2>10, <2>11, <2>12, <2>13, <2>14, <2>15, <2>16, <2>17 DEF ThreadOK
<1>5. QED BY <1>2, <1>3, <1>4 DEF ThreadInv

(* A reply reaches the relay: every level it answers is sent it.           *)
LEMMA ArrivesKept ==
  ASSUME IInv, IInv', ThreadInv, NEW e \in Late, Arrives(e), UNCHANGED <<lookupVars, watchVars, bootVars>>
  PROVE  ThreadInv'
<1>1. /\ e \notin stored /\ stored' = stored \cup {e}
      /\ inbox' = inbox \cup IF IsConnected
                               THEN {Delivery(s, e, s \in answered) : s \in {s \in subs : Wants(s, e)}}
                               ELSE {}
      /\ UNCHANGED <<status, subs, answered, events, held, threads, watch, cut, boot, named, stopped>>
  BY DEF Arrives, lookupVars, watchVars, bootVars
<1>2. \A d \in inbox' : \/ d \in inbox
                        \/ d.to \in subs /\ d.event = e /\ d.live = (d.to \in answered)
  <2>1. ASSUME NEW d \in inbox', d \notin inbox
        PROVE  d.to \in subs /\ d.event = e /\ d.live = (d.to \in answered)
    <3>1. PICK s \in subs : d = Delivery(s, e, s \in answered) BY <1>1, <2>1
    <3>2. d.to = s /\ d.event = e /\ d.live = (s \in answered) BY <3>1 DEF Delivery
    <3>3. QED BY <3>2
  <2>2. QED BY <2>1
<1>3. Undialed' /\ StoppedIsOver' BY <1>1 DEF ThreadInv, Undialed, StoppedIsOver
<1>4. InboxInOrder'
  <2>1. e \notin Earlier BY <1>1 DEF ThreadInv, InboxInOrder
  <2>2. ~IsConnected => inbox' = inbox BY <1>1
  <2>3. QED BY <1>1, <1>2, <2>1, <2>2 DEF ThreadInv, InboxInOrder, IsConnected
<1>5. FreshIsEmpty' BY <1>1 DEF ThreadInv, FreshIsEmpty, RepliesTo, HeldFor
<1>6. ASSUME Unlost' PROVE ThreadOK(named.of)'
  <2>1. Unlost BY <1>1, <1>6 DEF Unlost
  <2>2. named.of \in Posts BY <2>1, WatchTypes DEF Unlost
  <2> SUFFICES ASSUME NEW p \in Posts, p = named.of PROVE ThreadOK(p)'
    BY <1>1, <2>2
  <2>3. ThreadOK(p) BY <2>1 DEF ThreadInv
  <2>4. /\ LevelSubs(p)' = LevelSubs(p) /\ HasClient' = HasClient /\ IsConnected' = IsConnected
        /\ RepliesTo(p)' = RepliesTo(p)
    BY <1>1 DEF LevelSubs, HasClient, IsConnected, RepliesTo, HeldFor
  <2>5. Received' = Received
    BY <1>1, <1>2 DEF Received
  <2>6. LevelsStand(p)' BY <1>1, <2>3, <2>4 DEF ThreadOK, LevelsStand
  <2>7. AskedIsHeld(p)' BY <1>1, <2>3, <2>4 DEF ThreadOK, AskedIsHeld
  <2>8. Owed(p)'
    <3>1. ASSUME IsConnected', NEW s \in LevelSubs(p)', NEW r \in stored' \cap Replies, Answers(s, r)
          PROVE  r \in RepliesTo(p)' \/ Comes(inbox', s, r)
      <4>1. CASE r \in stored
        <5>1. r \in RepliesTo(p) \/ Comes(inbox, s, r)
          BY <2>3, <2>4, <3>1, <4>1 DEF ThreadOK, Owed
        <5>2. QED BY <1>1, <2>4, <5>1 DEF Comes
      <4>2. CASE r \notin stored
        <5>1. r = e BY <1>1, <4>2
        <5>2. s \in subs /\ s = Level(p, s.ids) /\ s.ids \in SUBSET Replies
          BY <2>4, <3>1, LevelIs
        <5>3. Wants(s, e) BY <3>1, <5>1, <5>2, LevelSends
        <5>4. Delivery(s, e, s \in answered) \in inbox' BY <1>1, <2>4, <3>1, <5>2, <5>3
        <5>5. Delivery(s, e, s \in answered).to = s /\ Delivery(s, e, s \in answered).event = e
          BY DEF Delivery
        <5>6. QED BY <5>1, <5>4, <5>5 DEF Comes
      <4>3. QED BY <4>1, <4>2
    <3>2. QED BY <3>1 DEF Owed
  <2>9. Brought(p)' BY <1>1, <2>3, <2>4, <2>5 DEF ThreadOK, Brought
  <2>10. TimerSet(p)' BY <1>1, <2>3, <2>4, <2>5 DEF ThreadOK, TimerSet
  <2>11. FrontAwaited(p)' BY <1>1, <2>3, <2>4 DEF ThreadOK, FrontAwaited
  <2>12. DeepEnough(p)' BY <1>1, <2>3, <2>4 DEF ThreadOK, DeepEnough
  <2>13. TopBrought(p)' BY <1>1, <2>3, <2>4, <2>5 DEF ThreadOK, TopBrought
  <2>14. TopAsked(p)' BY <1>1, <2>3 DEF ThreadOK, TopAsked
  <2>15. QED BY <2>6, <2>7, <2>8, <2>9, <2>10, <2>11, <2>12, <2>13, <2>14 DEF ThreadOK
<1>7. QED BY <1>3, <1>4, <1>5, <1>6 DEF ThreadInv

(* The timer of a level: it asks about everything in front, once the level *)
(* has been read to its end; and when every level above was answered, what *)
(* the new one asks about is all there is so far down.                     *)
LEMMA DeeperStill ==
  ASSUME IInv, NEW p \in Posts, ThreadOK(p), HasClient, ~watch[p].early,
         Settled(p), LevelSubs(p) \subseteq answered, MayOpenLevel(watch[p]),
         NEW rootId \in {None, p}
  PROVE  Reached(OldReplies, p, rootId, watch[p].opened) \subseteq watch[p].asked \cup watch[p].frontier
<1> DEFINE w == watch[p]
           n == w.opened - 1
<1>1. w.opened \in 1..MaxDepth /\ MaxDepth \in Nat
  <2>1. LevelSubs(p) # {} BY DEF ThreadOK, LevelsStand
  <2>2. p \in threads.open BY <2>1, LevelIs
  <2>3. QED BY <2>2, WatchAssumption DEF IInv, LevelsCounted
<1>2. n \in Nat /\ n + 1 = w.opened /\ w.opened < MaxDepth BY <1>1 DEF MayOpenLevel
<1>3. Reached(OldReplies, p, rootId, n) \subseteq w.asked BY DEF ThreadOK, DeepEnough
<1>4. RepliesTo(p) \subseteq w.asked \cup w.frontier BY <1>2 DEF ThreadOK, AskedIsHeld
<1> HIDE DEF n, w
<1>5. ASSUME NEW r \in Reached(OldReplies, p, rootId, n + 1) PROVE r \in RepliesTo(p)
  <2>0. n \in Nat BY <1>2
  <2>1. /\ r \in OldReplies /\ IsReplyEvent(r, p)
        /\ ParentKey(r, p, OldReplies, rootId) \in {RootKey(p)} \cup Reached(OldReplies, p, rootId, n)
    BY <2>0, ReachedGrows
  <2>2. r \in Replies BY <2>1 DEF OldReplies
  <2>3. ParentKey(r, p, OldReplies, rootId) \in {RootKey(p)} \cup watch[p].asked
    BY <1>3, <2>1 DEF w
  <2>4. PICK s \in LevelSubs(p) : Answers(s, r)
    BY <2>1, <2>2, <2>3, LevelsBring DEF ThreadOK
  <2>5. r \in RepliesTo(p) \/ Comes(Received, s, r)
    BY <2>1, <2>4 DEF ThreadOK, Brought
  <2>6. ~Comes(Received, s, r) BY DEF Comes, Settled
  <2>7. QED BY <2>5, <2>6
<1>6. QED BY <1>2, <1>4, <1>5 DEF w

(* Whatever was answered since, the first level was once: what answers the *)
(* post is in front when the second opens.                                 *)
LEMMA TopIsAsked ==
  ASSUME IInv, NEW p \in Posts, p \in threads.open, ThreadOK(p), watch[p].advance, Settled(p),
         MayOpenLevel(watch[p]), NEW rootId \in {None, p}
  PROVE  Reached(OldReplies, p, rootId, 1) \subseteq watch[p].asked \cup watch[p].frontier
<1> DEFINE w == watch[p]
<1>1. w.opened \in 1..MaxDepth /\ MaxDepth \in Nat
  BY WatchAssumption DEF IInv, LevelsCounted
<1>2. RepliesTo(p) \subseteq w.asked \cup w.frontier BY DEF ThreadOK, AskedIsHeld, MayOpenLevel
<1> HIDE DEF w
<1>3. CASE w.opened = 1
  <2>1. ASSUME NEW r \in Reached(OldReplies, p, rootId, 1) PROVE r \in RepliesTo(p)
    <3>1. 0 \in Nat /\ 0 + 1 = 1 OBVIOUS
    <3>2. r \in Reached(OldReplies, p, rootId, 0 + 1) BY <3>1
    <3>3. /\ r \in OldReplies /\ IsReplyEvent(r, p)
          /\ ParentKey(r, p, OldReplies, rootId) \in {RootKey(p)} \cup Reached(OldReplies, p, rootId, 0)
      BY <3>1, <3>2, ReachedGrows
    <3>4. ParentKey(r, p, OldReplies, rootId) = RootKey(p) BY <3>1, <3>3, ReachedGrows
    <3>5. r \in Replies BY <3>3 DEF OldReplies
    <3>6. AnswersPost(r, p) BY <3>3, <3>4, <3>5, KeyAnswers
    <3>7. r \in RepliesTo(p) \/ Comes(Received, Level(p, {}), r)
      BY <1>3, <3>3, <3>6 DEF ThreadOK, TopBrought, w
    <3>8. \A d \in Received : d.to # Level(p, {})
      <4>1. \A d \in Received : d.to \in subs BY DEF Received, IInv, ConnOK, InboxOwned
      <4>2. Level(p, {}).kind = "replies" /\ Level(p, {}).of = p BY DEF Level
      <4>3. QED BY <4>1, <4>2 DEF Settled, LevelSubs
    <3>9. QED BY <3>7, <3>8 DEF Comes
  <2>2. QED BY <1>2, <2>1 DEF w
<1>4. CASE w.opened > 1
  BY <1>4 DEF ThreadOK, TopAsked, w
<1>5. QED BY <1>1, <1>3, <1>4

LEMMA AdvanceKept ==
  ASSUME IInv, ThreadInv, UNCHANGED <<lookupVars, bootVars>>, NEW p \in Posts, AdvanceReplyLevel(p)
  PROVE  ThreadInv'
<1> DEFINE w == watch[p]
           rest == [w EXCEPT !.frontier = {}, !.advance = FALSE]
<1>1. /\ p \in threads.open /\ w.advance /\ Settled(p)
      /\ UNCHANGED <<events, held, threads, boot, named, stopped>>
  BY DEF AdvanceReplyLevel, lookupVars, bootVars
<1>2. p = named.of /\ w \in WatchType /\ watch \in [Posts -> WatchType]
  BY <1>1, WatchTypes
<1>3. RepliesTo(p)' = RepliesTo(p) BY <1>1 DEF RepliesTo, HeldFor
<1>4. Awake
  BY <1>1 DEF ThreadInv, StoppedIsOver, IInv, PausedIsEmpty, NoPosts, Awake
<1>5. /\ rest.asked = w.asked /\ rest.opened = w.opened /\ rest.early = w.early
      /\ rest.frontier = {} /\ rest.advance = FALSE
  BY <1>2 DEF WatchType
<1>6. ASSUME UNCHANGED connVars, watch' = [watch EXCEPT ![p] = rest],
             ~cut' => ~cut /\ (w.opened < MaxDepth => w.frontier \subseteq w.asked)
      PROVE  ThreadInv'
  <2>1. /\ UNCHANGED <<status, subs, answered, inbox, stored>> BY <1>6 DEF connVars
  <2>2. Undialed' /\ StoppedIsOver' /\ InboxInOrder'
    BY <1>1, <2>1 DEF ThreadInv, Undialed, StoppedIsOver, InboxInOrder, IsConnected
  <2>3. FreshIsEmpty' BY <1>1 DEF ThreadInv, FreshIsEmpty, RepliesTo, HeldFor
  <2>4. ASSUME Unlost' PROVE ThreadOK(p)'
    <3>1. Unlost /\ (w.opened < MaxDepth => w.frontier \subseteq w.asked)
      BY <1>1, <1>6, <2>4 DEF Unlost
    <3>2. ThreadOK(p) BY <1>2, <3>1 DEF ThreadInv
    <3>3. watch'[p] = rest BY <1>2, <1>6
    <3>4. /\ LevelSubs(p)' = LevelSubs(p) /\ HasClient' = HasClient /\ IsConnected' = IsConnected
          /\ Received' = Received
      BY <2>1 DEF LevelSubs, HasClient, IsConnected, Received
    <3> HIDE DEF w, rest
    <3>5. LevelsStand(p)' BY <1>5, <3>2, <3>3, <3>4 DEF ThreadOK, LevelsStand, w
    <3>6. AskedIsHeld(p)' BY <1>3, <1>5, <3>1, <3>2, <3>3, <3>4 DEF ThreadOK, AskedIsHeld, w
    <3>7. Owed(p)' BY <1>3, <2>1, <3>2, <3>4 DEF ThreadOK, Owed
    <3>8. Brought(p)' BY <1>3, <2>1, <3>2, <3>4 DEF ThreadOK, Brought
    <3>9. TimerSet(p)' BY <1>1, <3>4 DEF TimerSet, Settled
    <3>10. FrontAwaited(p)' BY <1>5, <3>3 DEF FrontAwaited
    <3>11. DeepEnough(p)' BY <1>5, <3>2, <3>3, <3>4 DEF ThreadOK, DeepEnough, w
    <3>12. TopBrought(p)' BY <1>5, <3>2, <3>3 DEF ThreadOK, TopBrought, w
    <3>13. TopAsked(p)' BY <1>5, <3>2, <3>3 DEF ThreadOK, TopAsked, w
    <3>14. QED BY <3>5, <3>6, <3>7, <3>8, <3>9, <3>10, <3>11, <3>12, <3>13 DEF ThreadOK
  <2>5. Unlost' => ThreadOK(named.of)'
    <3>1. p = named'.of BY <1>1, <1>2
    <3>2. QED BY <2>4, <3>1
  <2>6. QED BY <2>2, <2>3, <2>5 DEF ThreadInv
<1>7. CASE ~MayOpenLevel(w)
  <2>1. /\ watch' = [watch EXCEPT ![p] = rest] /\ UNCHANGED connVars /\ cut' = cut
    BY <1>7 DEF AdvanceReplyLevel
  <2>2. ~(w.opened < MaxDepth) BY <1>7 DEF MayOpenLevel
  <2> HIDE DEF w, rest
  <2>3. QED BY <1>6, <2>1, <2>2
<1>8. CASE MayOpenLevel(w)
  <2>1. PICK ids \in Asks(w) :
          /\ cut' = (cut \/ (w.frontier \ w.asked) # ids)
          /\ IF ids = {}
               THEN /\ watch' = [watch EXCEPT ![p] = rest]
                    /\ UNCHANGED connVars
               ELSE /\ watch' = [watch EXCEPT ![p] =
                         [rest EXCEPT !.asked = @ \cup ids, !.opened = @ + 1,
                            !.early = @ \/ ~(LevelSubs(p) \subseteq answered)]]
                    /\ Route({}, {Level(p, ids)})
    BY <1>4, <1>8 DEF AdvanceReplyLevel
  <2>2. CASE ids = {}
    <3>1. ~cut' => ~cut /\ w.frontier \subseteq w.asked BY <2>1, <2>2
    <3>2. watch' = [watch EXCEPT ![p] = rest] /\ UNCHANGED connVars BY <2>1, <2>2
    <3> HIDE DEF w, rest
    <3>3. QED BY <1>6, <3>1, <3>2
  <2>3. CASE ids # {}
    <3> DEFINE n == Level(p, ids)
               opened == IF HasClient THEN {n} ELSE {}
               kept == subs \ opened
    <3>1. /\ subs' = kept \cup opened /\ answered' = answered \cap kept
          /\ inbox' = {d \in inbox : d.to \in kept} \cup IF IsConnected THEN Backfill(opened) ELSE {}
          /\ UNCHANGED <<status, stored>>
      BY <2>1, <2>3 DEF Route
    <3>2. /\ watch'[p].asked = w.asked \cup ids /\ watch'[p].opened = w.opened + 1
          /\ watch'[p].early = (w.early \/ ~(LevelSubs(p) \subseteq answered))
          /\ watch'[p].frontier = {} /\ watch'[p].advance = FALSE
      <4>1. watch'[p] = [rest EXCEPT !.asked = @ \cup ids, !.opened = @ + 1,
                           !.early = @ \/ ~(LevelSubs(p) \subseteq answered)]
        <5> HIDE DEF rest
        <5>1. QED BY <1>2, <2>1, <2>3
      <4>2. rest \in WatchType BY <1>2 DEF WatchType
      <4> HIDE DEF rest
      <4>3. QED BY <1>5, <4>1, <4>2 DEF WatchType
    <3>3. n.kind = "replies" /\ n.of = p /\ n.ids = ids BY DEF Level
    <3>4. ids \in SUBSET Replies
      <4>1. w.frontier \subseteq Replies BY <1>2 DEF WatchType
      <4>2. QED BY <2>1, <4>1 DEF Asks
    <3> HIDE DEF w, rest, n
    <3>5. Undialed' /\ StoppedIsOver' BY <1>1, <3>1 DEF ThreadInv, Undialed, StoppedIsOver
    <3>6. \A d \in inbox' : d \in inbox \/ (d.to \in opened /\ d.live = FALSE)
      BY <3>1, BackfillIs
    <3>7. InboxInOrder'
      <4>1. ~IsConnected /\ inbox = {} => inbox' = {} BY <3>1
      <4>2. QED BY <3>1, <3>6, <4>1 DEF ThreadInv, InboxInOrder, IsConnected
    <3>8. FreshIsEmpty' BY <1>1 DEF ThreadInv, FreshIsEmpty, RepliesTo, HeldFor
    <3>9. ASSUME Unlost' PROVE ThreadOK(p)'
      <4>1. Unlost /\ ids = w.frontier \ w.asked BY <1>1, <2>1, <3>9 DEF Unlost
      <4>2. ThreadOK(p) BY <1>2, <4>1 DEF ThreadInv
      <4>3. /\ w.asked \cup w.frontier \subseteq RepliesTo(p)
            /\ \A s \in LevelSubs(p) : s.ids \subseteq w.asked
            /\ RepliesTo(p) \subseteq w.asked \cup w.frontier
        BY <1>8, <4>2 DEF ThreadOK, AskedIsHeld, MayOpenLevel, w
      <4>4. n \notin subs
        <5>1. n \notin LevelSubs(p) BY <2>3, <3>3, <4>1, <4>3
        <5>2. QED BY <3>3, <5>1 DEF LevelSubs
      <4>5. kept = subs BY <4>4
      <4>6. answered' = answered /\ n \notin answered
        BY <3>1, <4>4, <4>5 DEF IInv, ConnOK
      <4>7. /\ LevelSubs(p)' = LevelSubs(p) \cup opened
            /\ HasClient' = HasClient /\ IsConnected' = IsConnected
        BY <3>1, <3>3, <4>5 DEF LevelSubs, HasClient, IsConnected
      <4>8. inbox \subseteq inbox'
        BY <3>1, <4>5 DEF IInv, ConnOK, InboxOwned
      <4>9. Received' = Received
        BY <3>6, <4>6, <4>8 DEF Received
      <4> HIDE DEF kept
      <4>10. LevelsStand(p)'
        <5> SUFFICES ASSUME HasClient' PROVE LevelsStand(p)' BY DEF LevelsStand
        <5>1. /\ Level(p, {}) \in LevelSubs(p)
              /\ \A x \in w.asked : \E s \in LevelSubs(p) : x \in s.ids
          BY <4>2, <4>7 DEF ThreadOK, LevelsStand, w
        <5>2. n \in LevelSubs(p)' BY <4>7
        <5>3. QED BY <3>2, <3>3, <4>7, <5>1, <5>2 DEF LevelsStand
      <4>11. AskedIsHeld(p)'
        BY <1>3, <3>2, <3>3, <4>1, <4>3, <4>7 DEF AskedIsHeld
      <4>12. Owed(p)'
        <5>1. ASSUME IsConnected', NEW s \in LevelSubs(p)', NEW r \in stored' \cap Replies, Answers(s, r)
              PROVE  r \in RepliesTo(p)' \/ Comes(inbox', s, r)
          <6>1. CASE s \in LevelSubs(p)
            <7>1. r \in RepliesTo(p) \/ Comes(inbox, s, r)
              BY <3>1, <4>2, <4>7, <5>1, <6>1 DEF ThreadOK, Owed
            <7>2. QED BY <1>3, <4>8, <7>1 DEF Comes
          <6>2. CASE s = n
            <7>1. n \in opened BY <4>4, <4>7, <5>1, <6>2 DEF LevelSubs
            <7>2. r \in stored /\ r \in Earlier \cup Late BY <3>1 DEF IInv, ConnOK, InboxOwned
            <7>3. Wants(n, r) BY <3>4, <5>1, <6>2, <7>2, LevelSends DEF n
            <7>4. Comes(Backfill(opened), n, r) BY <7>1, <7>2, <7>3, BackfillIs
            <7>5. Backfill(opened) \subseteq inbox' BY <3>1, <4>7, <5>1
            <7>6. QED BY <6>2, <7>4, <7>5 DEF Comes
          <6>3. QED BY <4>7, <6>1, <6>2
        <5>2. QED BY <5>1 DEF Owed
      <4>13. Brought(p)'
        <5>1. LevelSubs(p)' \cap answered' = LevelSubs(p) \cap answered BY <4>6, <4>7
        <5>2. QED BY <1>3, <4>2, <4>9, <5>1 DEF ThreadOK, Brought
      <4>14. TimerSet(p)'
        <5>1. \A d \in Received' : d.to \notin LevelSubs(p)' 
          BY <1>1, <4>6, <4>7, <4>9 DEF Settled, Received
        <5>2. QED BY <5>1 DEF TimerSet
      <4>15. FrontAwaited(p)' BY <3>2 DEF FrontAwaited
      <4>16. DeepEnough(p)'
        <5> SUFFICES ASSUME HasClient', ~watch'[p].early, NEW rootId \in {None, p}
                     PROVE  Reached(OldReplies, p, rootId, watch'[p].opened - 1) \subseteq watch'[p].asked
          BY DEF DeepEnough
        <5>1. HasClient /\ ~w.early /\ LevelSubs(p) \subseteq answered
          BY <3>2, <4>7
        <5>2. Reached(OldReplies, p, rootId, w.opened) \subseteq w.asked \cup w.frontier
          BY <1>1, <1>8, <4>2, <5>1, DeeperStill DEF w
        <5>3. watch'[p].opened - 1 = w.opened BY <1>2, <3>2 DEF WatchType
        <5>4. QED BY <3>2, <4>1, <5>2, <5>3
      <4>17. watch'[p].opened > 1 /\ watch'[p].opened # 1
        <5>1. w.opened \in 1..MaxDepth /\ MaxDepth \in Nat
          BY <1>1, WatchAssumption DEF IInv, LevelsCounted, w
        <5>2. QED BY <3>2, <5>1
      <4>18. TopBrought(p)' BY <4>17 DEF TopBrought
      <4>19. TopAsked(p)'
        <5>1. ASSUME NEW rootId \in {None, p}
              PROVE  Reached(OldReplies, p, rootId, 1) \subseteq w.asked \cup w.frontier
          BY <1>1, <1>8, <4>2, TopIsAsked DEF w
        <5>2. QED BY <3>2, <4>1, <5>1 DEF TopAsked
      <4>20. QED BY <4>10, <4>11, <4>12, <4>13, <4>14, <4>15, <4>16, <4>18, <4>19 DEF ThreadOK
    <3>10. Unlost' => ThreadOK(named.of)'
      <4>1. p = named'.of BY <1>1, <1>2
      <4>2. QED BY <3>9, <4>1
    <3>11. QED BY <3>5, <3>7, <3>8, <3>10 DEF ThreadInv
  <2>4. QED BY <2>2, <2>3
<1>9. QED BY <1>7, <1>8

-----------------------------------------------------------------------------
(* The steps that are none of the thread's.                                *)
LEMMA ThreadQuiet ==
  ASSUME IInv, ThreadInv, Elsewhere, UNCHANGED <<watchVars, named, stopped>>,
         boot'.phase \in {"idle", "acquiring"} => boot'.phase = boot.phase
  PROVE  ThreadInv'
<1>1. UNCHANGED <<events, held, threads, watch, cut>> BY DEF watchVars
<1>2. PICK p : p = named.of OBVIOUS
<1>3. RepliesTo(p)' = RepliesTo(p) BY <1>1 DEF RepliesTo, HeldFor
<1>4. QED BY <1>1, <1>2, <1>3, ThreadFrame

LEMMA OpenedElsewhere ==
  ASSUME NEW kind, kind # "replies", NEW before, NEW after
  PROVE  NotALevel(Opened(kind, before, after))
BY DEF NotALevel, Opened, Sub

LEMMA CardsElsewhere ==
  ASSUME Cards \/ Lookups \/ Refreshes
  PROVE  Elsewhere /\ stopped' = stopped
<1>1. ASSUME NEW a, RequestProfile(a) PROVE Elsewhere /\ stopped' = stopped
  <2>1. Route({}, Opened("profile", profiles, profiles')) /\ stopped' = stopped
    BY <1>1 DEF RequestProfile
  <2>2. NotALevel({} \cup Opened("profile", profiles, profiles')) BY OpenedElsewhere
  <2>3. QED BY <2>1, <2>2 DEF Elsewhere
<1>2. ASSUME NEW k, RequestEmbed(k) PROVE Elsewhere /\ stopped' = stopped
  <2>1. Route({}, Opened("embed", embeds, embeds')) /\ stopped' = stopped
    BY <1>2 DEF RequestEmbed
  <2>2. NotALevel({} \cup Opened("embed", embeds, embeds')) BY OpenedElsewhere
  <2>3. QED BY <2>1, <2>2 DEF Elsewhere
<1>3. ASSUME NEW a, FinishProfileRequest(a) PROVE Elsewhere /\ stopped' = stopped
  <2> DEFINE new == Opened("profile", [profiles EXCEPT !.open = @ \ {a}], profiles')
  <2>1. Route({Sub("profile", a)}, new) /\ stopped' = stopped
    BY <1>3 DEF FinishProfileRequest
  <2>2. NotALevel(new) BY OpenedElsewhere
  <2> HIDE DEF new
  <2>3. NotALevel({Sub("profile", a)} \cup new) BY <2>2 DEF NotALevel, Sub
  <2>4. QED BY <2>1, <2>3 DEF Elsewhere
<1>4. ASSUME NEW a, ProfileEose(a) PROVE Elsewhere /\ stopped' = stopped
  BY <1>4 DEF ProfileEose, Elsewhere, Sub
<1>5. ASSUME NEW k, NEW found, EmbedSettles(k, found) PROVE Elsewhere /\ stopped' = stopped
  <2> DEFINE embed == Opened("embed", [embeds EXCEPT !.open = @ \ {k}], embeds')
             author == Opened("profile", profiles, profiles')
  <2>1. Route({Sub("embed", k)}, embed \cup author) /\ stopped' = stopped
    BY <1>5 DEF EmbedSettles
  <2>2. NotALevel(embed) /\ NotALevel(author) BY OpenedElsewhere
  <2> HIDE DEF embed, author
  <2>3. NotALevel({Sub("embed", k)} \cup (embed \cup author)) BY <2>2 DEF NotALevel, Sub
  <2>4. QED BY <2>1, <2>3 DEF Elsewhere
<1>6. CASE Cards BY <1>1, <1>2, <1>6 DEF Cards
<1>7. CASE Lookups
  BY <1>3, <1>4, <1>5, <1>7 DEF Lookups, ProfileCloses, ProfileWatchdog, ProfileClosed
<1>8. CASE Refreshes
  BY <1>8 DEF Refreshes, RefreshStarts, RefreshEnds, Elsewhere
<1>9. QED BY <1>6, <1>7, <1>8

(* What the relay sends.                                                   *)
LEMMA ThreadRelay ==
  ASSUME IInv, TreeInv, ThreadInv, Relay
  PROVE  ThreadInv'
<1>1. ASSUME NEW d, TimelineEvent(d) PROVE ThreadInv'
  <2>1. /\ Elsewhere /\ events' = events \cup {d.event}
        /\ UNCHANGED <<held, threads, watch, cut, boot, named, stopped>>
    BY <1>1 DEF TimelineEvent, Elsewhere, bootVars
  <2>2. PICK p : p = named.of OBVIOUS
  <2>3. RepliesTo(p)' = RepliesTo(p) BY <2>1 DEF RepliesTo, HeldFor
  <2>4. QED BY <2>1, <2>2, <2>3, ThreadFrame
<1>2. ASSUME NEW d, PostEvent(d) PROVE ThreadInv'
  <2>1. CASE d.to.kind = "replies" BY <1>2, <2>1, ReplyEventKept
  <2>2. CASE d.to.kind # "replies"
    <3>1. d.to.kind = "reactions" /\ IngestReaction(d.to.of, d.event) BY <1>2, <2>2 DEF PostEvent
    <3>2. /\ Elsewhere /\ UNCHANGED <<events, threads, watch, cut, boot, named, stopped>>
      BY <1>2, <2>2, <3>1 DEF PostEvent, IngestReaction, Elsewhere, bootVars
    <3>3. PICK p : p = named.of OBVIOUS
    <3>4. RepliesTo(p)' = RepliesTo(p) BY <1>2, <3>1, <3>2, <3>3, ReactionsApart
    <3>5. QED BY <3>2, <3>3, <3>4, ThreadFrame
  <2>3. QED BY <2>1, <2>2
<1>3. CASE TimelineEose \/ \E s \in subs : QuietEose(s)
  <2>1. Elsewhere /\ UNCHANGED <<watchVars, boot, named, stopped>>
    BY <1>3 DEF TimelineEose, QuietEose, Elsewhere, Sub, bootVars, lookupVars
  <2>2. QED BY <2>1, ThreadQuiet
<1>4. CASE TimelineClosed
  <2>1. Route({Sub("timeline", current)}, {}) /\ UNCHANGED <<watchVars, boot, named, stopped>>
    BY <1>4 DEF TimelineClosed, Closed, lookupVars
  <2>2. NotALevel({Sub("timeline", current)} \cup {}) BY DEF NotALevel, Sub
  <2>3. Elsewhere BY <2>1, <2>2 DEF Elsewhere
  <2>4. QED BY <2>1, <2>3, ThreadQuiet
<1>5. CASE SocketDrops /\ UNCHANGED <<lookupVars, watchVars, bootVars>>
  <2>1. /\ status \in {"connecting", "connected"} /\ status' = "reconnecting"
        /\ Received = {} /\ inbox' = {} /\ UNCHANGED <<subs, answered, stored>>
        /\ UNCHANGED <<events, held, threads, watch, cut, boot, named, stopped>>
    BY <1>5 DEF SocketDrops, lookupVars, watchVars, bootVars
  <2>2. Undialed' /\ StoppedIsOver' /\ InboxInOrder' /\ FreshIsEmpty'
    BY <2>1 DEF ThreadInv, Undialed, StoppedIsOver, InboxInOrder, IsConnected, FreshIsEmpty, RepliesTo, HeldFor
  <2>3. ASSUME Unlost' PROVE ThreadOK(named.of)'
    <3> DEFINE p == named.of
    <3>1. ThreadOK(p) BY <2>1, <2>3 DEF ThreadInv, Unlost
    <3>2. /\ LevelSubs(p)' = LevelSubs(p) /\ HasClient' = HasClient /\ ~IsConnected'
          /\ Received' = {} /\ RepliesTo(p)' = RepliesTo(p)
      BY <2>1 DEF LevelSubs, HasClient, IsConnected, Received, RepliesTo, HeldFor
    <3>3. UNCHANGED <<watch, answered>> /\ named' = named BY <2>1
    <3>4. LevelsStand(p)' BY <3>1, <3>2, <3>3 DEF ThreadOK, LevelsStand
    <3>5. AskedIsHeld(p)' BY <3>1, <3>2, <3>3 DEF ThreadOK, AskedIsHeld
    <3>6. Owed(p)' BY <3>2 DEF Owed
    <3>7. Brought(p)' BY <2>1, <3>1, <3>2, <3>3 DEF ThreadOK, Brought
    <3>8. TimerSet(p)' BY <3>2 DEF TimerSet
    <3>9. FrontAwaited(p)' BY <3>1, <3>2, <3>3 DEF ThreadOK, FrontAwaited
    <3>10. DeepEnough(p)' BY <3>1, <3>2, <3>3 DEF ThreadOK, DeepEnough
    <3>11. TopBrought(p)'
      <4>1. \A r : ~Comes(Received, Level(p, {}), r) BY <2>1 DEF Comes
      <4>2. QED BY <3>1, <3>2, <3>3, <4>1 DEF ThreadOK, TopBrought
    <3>12. TopAsked(p)' BY <3>1, <3>3 DEF ThreadOK, TopAsked
    <3>13. QED BY <3>4, <3>5, <3>6, <3>7, <3>8, <3>9, <3>10, <3>11, <3>12 DEF ThreadOK
  <2>4. QED BY <2>2, <2>3 DEF ThreadInv
<1>6. QED BY <1>1, <1>2, <1>3, <1>4, <1>5 DEF Relay

(* CLOSED, of a level or of the reactions.                                 *)
LEMMA ThreadWatches ==
  ASSUME IInv, ThreadInv, Watches, UNCHANGED <<lookupVars, bootVars>>
  PROVE  ThreadInv'
<1>1. ASSUME NEW s, LevelClosed(s) PROVE ThreadInv'
  <2>1. Route({s}, {}) /\ cut' = TRUE /\ UNCHANGED <<held, threads, boot, named, stopped>>
    BY <1>1 DEF LevelClosed, Closed, lookupVars, bootVars
  <2>2. /\ status' = status /\ stored' = stored
        /\ \A d \in inbox' : d \in inbox \/ d \in Backfill({})
    BY <2>1 DEF Route
  <2>0. Backfill({}) = {} BY DEF Backfill
  <2>3. \A d \in inbox' : d \in inbox BY <2>0, <2>2
  <2>4. Undialed' /\ StoppedIsOver' /\ InboxInOrder' /\ FreshIsEmpty'
    BY <2>1, <2>2, <2>3 DEF ThreadInv, Undialed, StoppedIsOver, InboxInOrder, IsConnected, FreshIsEmpty, RepliesTo, HeldFor
  <2>5. ~Unlost' BY <2>1 DEF Unlost
  <2>6. QED BY <2>4, <2>5 DEF ThreadInv
<1>2. ASSUME NEW p \in Posts, ReactionsClosed(p) PROVE ThreadInv'
  <2>1. /\ Route({Sub("reactions", p)}, {})
        /\ UNCHANGED <<events, held, threads, watch, cut, boot, named, stopped>>
    BY <1>2 DEF ReactionsClosed, Closed, lookupVars, bootVars
  <2>2. NotALevel({Sub("reactions", p)} \cup {}) BY DEF NotALevel, Sub
  <2>3. Elsewhere BY <2>1, <2>2 DEF Elsewhere
  <2>4. PICK q : q = named.of OBVIOUS
  <2>5. RepliesTo(q)' = RepliesTo(q) BY <2>1 DEF RepliesTo, HeldFor
  <2>6. QED BY <2>1, <2>3, <2>4, <2>5, ThreadFrame
<1>3. QED BY <1>1, <1>2, LevelEoseKept, AdvanceKept DEF Watches

(* A thread that its step opens.                                           *)
LEMMA OpensFresh ==
  ASSUME IInv, NEW p \in Posts, NEW gone, NEW new, Route(gone, new), IsConnected,
         Level(p, {}) \in new, \A s \in new : s.kind = "replies" => s = Level(p, {}),
         \A s \in LevelSubs(p) : s \in gone, watch'[p] = NewWatch, RepliesTo(p)' = {}
  PROVE  ThreadOK(p)'
<1>1. HasClient BY DEF HasClient, IsConnected
<1>2. /\ subs' = (subs \ (gone \cup new)) \cup new
      /\ answered' = answered \cap (subs \ (gone \cup new))
      /\ Backfill(new) \subseteq inbox' /\ stored' = stored
  BY <1>1 DEF Route
<1>3. LevelSubs(p)' = {Level(p, {})}
  <2>1. Level(p, {}).kind = "replies" /\ Level(p, {}).of = p BY DEF Level
  <2>2. QED BY <1>2, <2>1 DEF LevelSubs
<1>4. Level(p, {}) \notin answered' BY <1>2
<1>5. stored' \subseteq Earlier \cup Late BY <1>2 DEF IInv, ConnOK, InboxOwned
<1>6. \A r \in stored' : Wants(Level(p, {}), r) => Comes(inbox', Level(p, {}), r)
  <2>1. \A r \in stored : Wants(Level(p, {}), r) => Comes(Backfill(new), Level(p, {}), r)
    BY BackfillIs
  <2>2. QED BY <1>2, <2>1 DEF Comes
<1>7. QED BY <1>3, <1>4, <1>5, <1>6, FreshThread

(* subscribe() leaves what was sent before the socket's last change as it  *)
(* was.                                                                    *)
LEMMA RouteInOrder ==
  ASSUME InboxInOrder, NEW gone, NEW new, Route(gone, new)
  PROVE  InboxInOrder' /\ status' = status
<1> DEFINE opened == IF HasClient THEN new ELSE {}
<1>1. /\ \A d \in inbox' : d \in inbox \/ d \in Backfill(opened)
      /\ status' = status /\ stored' = stored
  BY DEF Route
<1> HIDE DEF opened
<1>2. \A d \in inbox' : d \in inbox \/ d.live = FALSE BY <1>1, BackfillIs
<1>3. ~IsConnected /\ inbox = {} => inbox' = {} BY DEF Route
<1>4. QED BY <1>1, <1>2, <1>3 DEF InboxInOrder, IsConnected

(* showPost(): another post's thread is opened at once, or waits for the   *)
(* socket.                                                                 *)
LEMMA ShowPostKept ==
  ASSUME IInv, ThreadInv, NEW p \in Posts, NEW wants, ShowPost(p, wants)
  PROVE  ThreadInv'
<1> DEFINE new == {Sub("timeline", p)} \cup OpenedWatches(NoPosts, NoPosts)
           gone == OnTimeline \cup CardSubs \cup PostSubs
<1>1. /\ ~stopped /\ stopped' = stopped /\ named'.of = p /\ held' = {} /\ boot'.phase = boot.phase
      /\ threads' = WatchedBy("replies", NoPosts, p, wants, ~stopped, IsConnected)
      /\ watch' = Fresh(NoPosts)
      /\ Route(gone, new)
  BY DEF ShowPost, WatchPost, Subscribe, IInv, BootTyped
<1>2. NoPosts \in PostQueues /\ NoPosts.open = {} BY DEF NoPosts, PostQueues
<1>3. threads' \in PostQueues /\ threads'.open \subseteq {p}
  BY <1>1, <1>2, WatchedTyped DEF NoPosts
<1>4. threads'.open # {} => IsConnected
  BY <1>1, <1>2 DEF WatchedBy, AskWatch, Drained, NoPosts
<1>5. RepliesTo(p)' = {} BY <1>1 DEF RepliesTo, HeldFor
<1>6. InboxInOrder' /\ status' = status BY <1>1, RouteInOrder DEF ThreadInv
<1>7. Undialed' BY <1>1, <1>4, <1>6 DEF ThreadInv, Undialed, IsConnected
<1>8. StoppedIsOver' /\ FreshIsEmpty'
  <2>1. RepliesTo(named.of)' = {} BY <1>1 DEF RepliesTo, HeldFor
  <2>2. QED BY <1>1, <2>1 DEF StoppedIsOver, FreshIsEmpty
<1>9. ASSUME Unlost' PROVE ThreadOK(p)'
  <2>1. p \in threads'.open /\ IsConnected BY <1>1, <1>4, <1>9 DEF Unlost
  <2>2. watch'[p] = NewWatch BY <1>1, <1>2 DEF Fresh
  <2>3. /\ Level(p, {}) \in new
        /\ \A s \in new : s.kind = "replies" => s = Level(p, {})
    <3>1. threads'.open \ NoPosts.open = {p} BY <1>2, <1>3, <2>1
    <3>2. new = {Sub("timeline", p)} \cup {Sub("reactions", q) : q \in reactions'.open \ NoPosts.open}
                  \cup {Level(q, {}) : q \in {p}}
      BY <3>1 DEF OpenedWatches
    <3>3. \A q, kind : Sub(kind, q).kind = kind BY DEF Sub
    <3> HIDE DEF new
    <3>4. QED BY <3>2, <3>3
  <2>4. \A s \in LevelSubs(p) : s \in gone BY DEF LevelSubs, PostSubs
  <2> HIDE DEF new, gone
  <2>5. QED BY <1>1, <1>5, <2>1, <2>2, <2>3, <2>4, OpensFresh
<1>10. Unlost' => ThreadOK(named.of)'
  <2>1. p = named'.of BY <1>1
  <2>2. QED BY <1>9, <2>1
<1>11. QED BY <1>6, <1>7, <1>8, <1>10 DEF ThreadInv

(* start() and stop(): no thread is open.                                  *)
LEMMA StartKept ==
  ASSUME IInv, ThreadInv, NEW p \in Posts, NEW wants, Start(p, wants)
  PROVE  ThreadInv'
<1>1. boot.phase = "idle" /\ UNCHANGED <<connVars, watchVars, stopped>>
  BY DEF Start, lookupVars
<1>2. threads = NoPosts /\ held = {} /\ status = "disconnected" BY <1>1 DEF IInv, IdleIsBlank
<1>3. threads'.open = {} /\ held' = {} /\ status' = "disconnected" /\ UNCHANGED <<stored, inbox>>
  BY <1>1, <1>2 DEF connVars, watchVars, NoPosts
<1>4. Undialed' /\ StoppedIsOver' /\ InboxInOrder' /\ FreshIsEmpty'
  BY <1>2, <1>3 DEF ThreadInv, Undialed, StoppedIsOver, InboxInOrder, IsConnected, FreshIsEmpty, RepliesTo, HeldFor
<1>5. QED BY <1>3, <1>4 DEF ThreadInv, Unlost

LEMMA StopKept ==
  ASSUME IInv, ThreadInv, Stop
  PROVE  ThreadInv'
<1>1. /\ stopped' = TRUE /\ threads'.open = {} /\ inbox' = {} /\ stored' = stored
      /\ status' = IF HasClient THEN "disconnected" ELSE status
      /\ boot'.phase \in {"idle", "acquiring"} => boot'.phase = boot.phase
  BY DEF Stop, AllQuiet, Teardown, NoPosts, IInv, BootTyped
<1>2. Undialed' /\ StoppedIsOver' /\ InboxInOrder' /\ FreshIsEmpty'
  BY <1>1 DEF ThreadInv, Undialed, StoppedIsOver, InboxInOrder, IsConnected, FreshIsEmpty
<1>3. QED BY <1>1, <1>2 DEF ThreadInv, Unlost

(* The boot, up to its subscribe().                                        *)
LEMMA BootKept ==
  ASSUME IInv, ThreadInv, HostAcquired \/ AcquireFails \/ BootStopped
  PROVE  ThreadInv'
<1>0. \A x \in Phases : Phase(x) => boot'.phase = x BY DEF Phase, IInv, BootTyped
<1>1. {"done", "connecting"} \subseteq Phases BY DEF Phases
<1>2. CASE UNCHANGED connVars
  <2>1. UNCHANGED <<watchVars, named, stopped>> /\ Elsewhere
    BY <1>2 DEF HostAcquired, AcquireFails, BootStopped, lookupVars, Elsewhere
  <2>2. boot'.phase \in {"done", "connecting"}
    BY <1>0, <1>1 DEF HostAcquired, AcquireFails, BootStopped
  <2>3. QED BY <2>1, <2>2, ThreadQuiet
<1>3. CASE ~UNCHANGED connVars
  <2>1. /\ boot.phase = "acquiring" /\ ~stopped /\ Phase("connecting") /\ Dial
        /\ UNCHANGED <<watchVars, named, stopped>>
    BY <1>3 DEF HostAcquired, AcquireFails, BootStopped, lookupVars
  <2>2. UNCHANGED <<stored, inbox, held, threads>> /\ boot'.phase = "connecting"
    BY <1>0, <1>1, <2>1 DEF Dial, watchVars
  <2>3. threads'.open = {} BY <2>1, <2>2 DEF ThreadInv, Undialed
  <2>4. Undialed' /\ StoppedIsOver' /\ InboxInOrder' /\ FreshIsEmpty'
    BY <2>1, <2>2, <2>3 DEF ThreadInv, Undialed, StoppedIsOver, InboxInOrder, IsConnected, FreshIsEmpty, RepliesTo, HeldFor
  <2>5. QED BY <2>3, <2>4 DEF ThreadInv, Unlost
<1>4. QED BY <1>2, <1>3

(* startPost(): its subscribe() leaves a thread that is open alone.        *)
LEMMA PostStartsKept ==
  ASSUME IInv, IInv', TreeInv, ThreadInv, PostStarts
  PROVE  ThreadInv'
<1> DEFINE new == {Sub("timeline", boot.of)} \cup OpenedWatches(reactions, threads)
           gone == OnTimeline \cup CardSubs \cup {}
<1>1. /\ boot.phase = "connected" /\ boot'.phase = "done" /\ ~stopped
      /\ UNCHANGED <<held, cut, named, stopped>> /\ Route(gone, new)
      /\ \/ UNCHANGED <<threads, watch>>
         \/ /\ boot.of = named.of /\ watch' = Fresh(threads)
            /\ threads' = WatchedBy("replies", threads, named.of, boot.wants, ~stopped, IsConnected)
  <2>1. /\ boot.phase = "connected" /\ ~stopped /\ Phase("done") /\ Subscribe(boot.of, {}, OpenedWatches(reactions, threads))
        /\ UNCHANGED <<held, cut, named>>
        /\ IF StillWanted /\ Accepts
             THEN WatchPost(reactions, threads, boot.of, boot.wants)
             ELSE UNCHANGED <<reactions, threads, watch>>
    BY DEF PostStarts
  <2>2. boot'.phase = "done" BY <2>1 DEF Phase, IInv, BootTyped
  <2>3. stopped' = stopped /\ Route(gone, new) BY <2>1 DEF Subscribe
  <2>4. StillWanted => boot.of = named.of BY <2>1 DEF StillWanted, IInv, BootIsNamed
  <2>5. QED BY <2>1, <2>2, <2>3, <2>4 DEF WatchPost
<1>2. /\ threads.open \subseteq threads'.open /\ threads'.open \subseteq {named.of}
      /\ threads' \in PostQueues /\ WatchesOpened(threads)
      /\ threads'.open # threads.open => IsConnected
  <2>1. threads \in PostQueues /\ named.of \in Posts /\ watch \in [Posts -> WatchType]
    BY <1>1, WatchTypes DEF IInv, BootTyped, NamedType
  <2>2. threads' \in PostQueues /\ threads'.open \subseteq {named.of}
    BY <1>1 DEF IInv, WatchesTyped, WatchesNamed, Wanted
  <2>3. CASE UNCHANGED <<threads, watch>>
    BY <2>1, <2>2, <2>3 DEF WatchesOpened
  <2>4. CASE /\ watch' = Fresh(threads)
             /\ threads' = WatchedBy("replies", threads, named.of, boot.wants, ~stopped, IsConnected)
    <3>1. threads.open \subseteq threads'.open BY <2>1, <2>4, WatchedTyped
    <3>2. WatchesOpened(threads) BY <2>2, <2>4, FreshOpened
    <3>3. ~IsConnected => threads'.open = threads.open
      BY <2>1, <2>4 DEF WatchedBy, AskWatch, Drained, PostQueues
    <3>4. QED BY <2>2, <3>1, <3>2, <3>3
  <2>5. QED BY <1>1, <2>3, <2>4
<1>3. InboxInOrder' /\ status' = status BY <1>1, RouteInOrder DEF ThreadInv
<1>4. Undialed' /\ StoppedIsOver' BY <1>1 DEF Undialed, StoppedIsOver
<1>5. FreshIsEmpty' BY <1>1, <1>2 DEF ThreadInv, FreshIsEmpty, RepliesTo, HeldFor
<1>6. ASSUME Unlost' PROVE ThreadOK(named.of)'
  <2>1. named.of \in threads'.open /\ threads'.open = {named.of} /\ ~cut
    BY <1>1, <1>2, <1>6 DEF Unlost
  <2>2. PICK p \in Posts : p = named.of BY <1>2, <2>1 DEF PostQueues
  <2>3. RepliesTo(p)' = RepliesTo(p) BY <1>1 DEF RepliesTo, HeldFor
  <2>4. \A q, kind : Sub(kind, q).kind = kind BY DEF Sub
  <2>5. CASE p \in threads.open
    <3>1. events \subseteq {p} BY <1>1, <2>2 DEF TreeInv, OnePost
    <3>2. ThreadOK(p) BY <2>1, <2>2, <2>5, <3>1 DEF ThreadInv, Unlost
    <3>3. threads'.open \ threads.open = {} BY <2>1, <2>2, <2>5
    <3>4. \A s \in new : s.kind # "replies"
      <4>1. new = {Sub("timeline", boot.of)} \cup {Sub("reactions", q) : q \in reactions'.open \ reactions.open}
                    \cup {Level(q, {}) : q \in {}}
        BY <3>3 DEF OpenedWatches
      <4> HIDE DEF new
      <4>2. QED BY <2>4, <4>1
    <3>5. \A s \in gone : s.kind # "replies" BY <2>4 DEF OnTimeline, CardSubs
    <3> HIDE DEF new, gone
    <3>6. NotALevel(gone \cup new) BY <3>4, <3>5 DEF NotALevel
    <3>7. Elsewhere BY <1>1, <3>6 DEF Elsewhere
    <3>8. Untouched(p) BY <3>7, ElsewhereUntouched
    <3>9. watch'[p] = watch[p] BY <1>2, <2>1, <2>2, <2>5 DEF WatchesOpened
    <3>10. ThreadOK(p)' BY <2>3, <3>2, <3>8, <3>9, ThreadKept
    <3>11. QED BY <1>1, <2>2, <3>10
  <2>6. CASE p \notin threads.open
    <3>1. IsConnected BY <1>2, <2>1, <2>2, <2>6
    <3>2. RepliesTo(p)' = {} BY <1>1, <2>2, <2>3, <2>6 DEF ThreadInv, FreshIsEmpty
    <3>3. watch'[p] = NewWatch BY <1>2, <2>1, <2>2, <2>6 DEF WatchesOpened
    <3>4. threads'.open \ threads.open = {p} BY <1>2, <2>1, <2>2, <2>6
    <3>5. /\ Level(p, {}) \in new
          /\ \A s \in new : s.kind = "replies" => s = Level(p, {})
      <4>1. new = {Sub("timeline", boot.of)} \cup {Sub("reactions", q) : q \in reactions'.open \ reactions.open}
                    \cup {Level(q, {}) : q \in {p}}
        BY <3>4 DEF OpenedWatches
      <4> HIDE DEF new
      <4>2. QED BY <2>4, <4>1
    <3>6. LevelSubs(p) = {} BY <2>6, LevelIs
    <3> HIDE DEF new, gone
    <3>7. ThreadOK(p)' BY <1>1, <3>1, <3>2, <3>3, <3>5, <3>6, OpensFresh
    <3>8. QED BY <1>1, <2>2, <3>7
  <2>7. QED BY <2>5, <2>6
<1>7. QED BY <1>3, <1>4, <1>5, <1>6 DEF ThreadInv

(* The socket is up: every level is asked again, and answered anew.        *)
LEMMA LinkUpKept ==
  ASSUME IInv, IInv', ThreadInv, LinkUp
  PROVE  ThreadInv'
<1> DEFINE new == Opened("profile", profiles, profiles') \cup Opened("embed", embeds, embeds')
                    \cup OpenedWatches(reactions, threads)
<1>1. /\ status \in {"connecting", "reconnecting"} /\ status' = "connected"
      /\ subs' = subs \cup new /\ answered' = {} /\ inbox' = Backfill(subs') /\ stored' = stored
      /\ threads' = Drained(threads, Awake, TRUE) /\ watch' = Fresh(threads)
      /\ UNCHANGED <<stopped, events, held, cut, named>>
      /\ boot' = boot \/ Phase("connected")
  BY DEF LinkUp, SocketUp
<1> HIDE DEF new
<1>2. /\ threads.open \subseteq threads'.open /\ threads'.open \subseteq {named.of}
      /\ threads' \in PostQueues /\ WatchesOpened(threads)
      /\ threads'.open # threads.open => ~stopped
  <2>1. threads \in PostQueues BY WatchTypes
  <2>2. threads' \in PostQueues /\ threads'.open \subseteq {named.of}
    BY <1>1 DEF IInv, WatchesTyped, WatchesNamed, Wanted
  <2>3. threads.open \subseteq threads'.open /\ (~Awake => threads' = threads)
    BY <1>1, <2>1, DrainedTyped
  <2>4. WatchesOpened(threads) BY <1>1, <2>2, FreshOpened
  <2>5. QED BY <2>2, <2>3, <2>4 DEF Awake
<1>3. boot.phase \notin {"idle", "acquiring"} /\ boot'.phase \notin {"idle", "acquiring"}
  BY <1>1 DEF ThreadInv, Undialed, Phase, IInv, BootTyped
<1>4. Undialed' BY <1>3 DEF Undialed
<1>5. StoppedIsOver' BY <1>1, <1>2 DEF ThreadInv, StoppedIsOver
<1>6. InboxInOrder'
  <2>1. \A d \in inbox' : d.live = FALSE BY <1>1, BackfillIs
  <2>2. QED BY <1>1, <2>1 DEF ThreadInv, InboxInOrder, IsConnected
<1>7. FreshIsEmpty' BY <1>1, <1>2 DEF ThreadInv, FreshIsEmpty, RepliesTo, HeldFor
<1>8. ASSUME Unlost' PROVE ThreadOK(named.of)'
  <2>1. named.of \in threads'.open /\ threads'.open = {named.of} /\ ~cut /\ events \subseteq {named.of}
    BY <1>1, <1>2, <1>8 DEF Unlost
  <2>2. PICK p \in Posts : p = named.of BY <1>2, <2>1 DEF PostQueues
  <2>3. RepliesTo(p)' = RepliesTo(p) BY <1>1 DEF RepliesTo, HeldFor
  <2>4. \A q, kind : Sub(kind, q).kind = kind BY DEF Sub
  <2>5. new = {Sub("profile", x) : x \in profiles'.open \ profiles.open}
                \cup {Sub("embed", x) : x \in embeds'.open \ embeds.open}
                \cup {Sub("reactions", q) : q \in reactions'.open \ reactions.open}
                \cup {Level(q, {}) : q \in threads'.open \ threads.open}
    BY DEF new, Opened, OpenedWatches
  <2>6. \A s \in subs', r \in stored' : Wants(s, r) => Comes(inbox', s, r)
    BY <1>1, BackfillIs
  <2>7. Received' = {} BY <1>1 DEF Received
  <2>8. HasClient /\ HasClient' BY <1>1 DEF HasClient
  <2>9. stored' \subseteq Earlier \cup Late BY <1>1 DEF IInv, ConnOK, InboxOwned
  <2>10. CASE p \in threads.open
    <3>1. ThreadOK(p) BY <2>1, <2>2, <2>10 DEF ThreadInv, Unlost
    <3>2. threads'.open \ threads.open = {} BY <2>1, <2>2, <2>10
    <3>3. \A s \in new : s.kind # "replies" BY <2>4, <2>5, <3>2
    <3>4. LevelSubs(p)' = LevelSubs(p) BY <1>1, <3>3 DEF LevelSubs
    <3>5. watch'[p] = watch[p] BY <1>2, <2>1, <2>2, <2>10 DEF WatchesOpened
    <3>6. LevelsStand(p)' BY <2>8, <3>1, <3>4, <3>5 DEF ThreadOK, LevelsStand
    <3>7. AskedIsHeld(p)' BY <2>3, <3>1, <3>4, <3>5 DEF ThreadOK, AskedIsHeld
    <3>8. Owed(p)'
      <4>1. ASSUME NEW s \in LevelSubs(p)', NEW r \in stored' \cap Replies, Answers(s, r)
            PROVE  Comes(inbox', s, r)
        <5>1. s \in subs /\ s = Level(p, s.ids) /\ s.ids \in SUBSET Replies
          BY <3>4, <4>1, LevelIs
        <5>2. Wants(s, r) BY <2>9, <4>1, <5>1, LevelSends
        <5>3. QED BY <1>1, <2>6, <5>1, <5>2
      <4>2. QED BY <4>1 DEF Owed
    <3>9. Brought(p)' BY <1>1 DEF Brought
    <3>10. TimerSet(p)' BY <2>7 DEF TimerSet
    <3>11. FrontAwaited(p)'
      <4>1. Level(p, {}) \in LevelSubs(p)' BY <2>8, <3>1, <3>4 DEF ThreadOK, LevelsStand
      <4>2. ~(LevelSubs(p)' \subseteq answered') BY <1>1, <4>1
      <4>3. QED BY <4>2 DEF FrontAwaited
    <3>12. DeepEnough(p)' BY <2>8, <3>1, <3>5 DEF ThreadOK, DeepEnough
    <3>13. TopBrought(p)'
      <4>1. inbox = {} BY <1>1 DEF ThreadInv, InboxInOrder, IsConnected
      <4>2. \A r : ~Comes(Received, Level(p, {}), r) BY <4>1 DEF Comes, Received
      <4>3. QED BY <2>3, <3>1, <3>5, <4>2 DEF ThreadOK, TopBrought
    <3>14. TopAsked(p)' BY <3>1, <3>5 DEF ThreadOK, TopAsked
    <3>15. ThreadOK(p)'
      BY <3>6, <3>7, <3>8, <3>9, <3>10, <3>11, <3>12, <3>13, <3>14 DEF ThreadOK
    <3>16. QED BY <1>1, <2>2, <3>15
  <2>11. CASE p \notin threads.open
    <3>1. ~stopped BY <1>2, <2>1, <2>2, <2>11
    <3>2. RepliesTo(p)' = {} BY <2>2, <2>3, <2>11, <3>1 DEF ThreadInv, FreshIsEmpty
    <3>3. watch'[p] = NewWatch BY <1>2, <2>1, <2>2, <2>11 DEF WatchesOpened
    <3>4. threads'.open \ threads.open = {p} BY <1>2, <2>1, <2>2, <2>11
    <3>5. /\ Level(p, {}) \in new
          /\ \A s \in new : s.kind = "replies" => s = Level(p, {})
      BY <2>4, <2>5, <3>4
    <3>6. LevelSubs(p) = {} BY <2>11, LevelIs
    <3>7. LevelSubs(p)' = {Level(p, {})}
      <4>1. Level(p, {}).kind = "replies" /\ Level(p, {}).of = p BY DEF Level
      <4>2. QED BY <1>1, <3>5, <3>6, <4>1 DEF LevelSubs
    <3>8. Level(p, {}) \notin answered' BY <1>1
    <3>9. \A r \in stored' : Wants(Level(p, {}), r) => Comes(inbox', Level(p, {}), r)
      BY <1>1, <2>6, <3>5
    <3>10. ThreadOK(p)' BY <2>9, <3>2, <3>3, <3>7, <3>8, <3>9, FreshThread
    <3>11. QED BY <1>1, <2>2, <3>10
  <2>12. QED BY <2>10, <2>11
<1>9. QED BY <1>4, <1>5, <1>6, <1>7, <1>8 DEF ThreadInv

(* The link is given up: every level is gone, and nothing is on its way.   *)
LEMMA LinkDeadKept ==
  ASSUME IInv, ThreadInv, LinkDead
  PROVE  ThreadInv'
<1>1. /\ status \in {"connecting", "reconnecting"} /\ status' = "error"
      /\ subs' = {} /\ answered' = {} /\ inbox' = {} /\ stored' = stored
      /\ UNCHANGED <<events, held, threads, watch, cut, named, stopped>>
      /\ boot' = boot \/ Phase("done")
  BY DEF LinkDead, GivesUp, Teardown, HasClient, lookupVars, watchVars
<1>2. boot'.phase \notin {"idle", "acquiring"}
  BY <1>1 DEF ThreadInv, Undialed, Phase, IInv, BootTyped
<1>3. Undialed' /\ StoppedIsOver' /\ InboxInOrder' /\ FreshIsEmpty'
  BY <1>1, <1>2 DEF ThreadInv, Undialed, StoppedIsOver, InboxInOrder, IsConnected, FreshIsEmpty, RepliesTo, HeldFor
<1>4. ASSUME Unlost' PROVE ThreadOK(named.of)'
  <2>1. PICK p : p = named.of OBVIOUS
  <2>2. ThreadOK(p) BY <1>1, <1>4, <2>1 DEF ThreadInv, Unlost
  <2>3. /\ LevelSubs(p)' = {} /\ ~HasClient' /\ ~IsConnected' /\ RepliesTo(p)' = RepliesTo(p)
    BY <1>1 DEF LevelSubs, HasClient, IsConnected, RepliesTo, HeldFor
  <2>4. AskedIsHeld(p)' BY <1>1, <2>2, <2>3 DEF ThreadOK, AskedIsHeld
  <2>5. LevelsStand(p)' /\ Owed(p)' /\ Brought(p)' /\ TimerSet(p)' /\ FrontAwaited(p)' /\ DeepEnough(p)'
    BY <2>3 DEF LevelsStand, Owed, Brought, TimerSet, FrontAwaited, DeepEnough
  <2>6. TopBrought(p)'
    <3>1. inbox = {} BY <1>1 DEF ThreadInv, InboxInOrder, IsConnected
    <3>2. \A r : ~Comes(Received, Level(p, {}), r) BY <3>1 DEF Comes, Received
    <3>3. QED BY <1>1, <2>2, <2>3, <3>2 DEF ThreadOK, TopBrought
  <2>7. TopAsked(p)' BY <1>1, <2>2 DEF ThreadOK, TopAsked
  <2>8. ThreadOK(p)' BY <2>4, <2>5, <2>6, <2>7 DEF ThreadOK
  <2>9. QED BY <1>1, <2>1, <2>8
<1>5. QED BY <1>3, <1>4 DEF ThreadInv

LEMMA ThreadInit == Init => ThreadInv
<1> SUFFICES ASSUME Init PROVE ThreadInv
  OBVIOUS
<1>1. /\ status = "disconnected" /\ inbox = {} /\ stored = Earlier
      /\ threads = NoPosts /\ held = {}
  BY DEF Init, ConnInit, WatchInit
<1>2. threads.open = {} BY <1>1 DEF NoPosts
<1>3. RepliesTo(named.of) = {} BY <1>1 DEF RepliesTo, HeldFor
<1>4. Undialed /\ StoppedIsOver /\ InboxInOrder /\ FreshIsEmpty
  BY <1>1, <1>2, <1>3 DEF Undialed, StoppedIsOver, InboxInOrder, FreshIsEmpty
<1>5. ~Unlost BY <1>2 DEF Unlost
<1>6. QED BY <1>4, <1>5 DEF ThreadInv

LEMMA ThreadStep == IInv /\ IInv' /\ TreeInv /\ ThreadInv /\ [PostNext]_vars => ThreadInv'
<1> SUFFICES ASSUME IInv, IInv', TreeInv, ThreadInv, [PostNext]_vars PROVE ThreadInv'
  OBVIOUS
<1>1. CASE UNCHANGED vars
  <2>1. UNCHANGED <<connVars, watchVars, named, stopped, boot>> BY <1>1 DEF vars, lookupVars, bootVars
  <2>2. Elsewhere BY <2>1 DEF Elsewhere
  <2>3. QED BY <2>1, <2>2, ThreadQuiet
<1>2. CASE Booting
  BY <1>2, BootKept, PostStartsKept DEF Booting
<1>3. CASE Link
  BY <1>3, LinkUpKept, LinkDeadKept DEF Link
<1>4. CASE Relay
  BY <1>4, ThreadRelay
<1>5. CASE Stop
  BY <1>5, StopKept
<1>6. CASE (Cards \/ Lookups \/ Refreshes) /\ UNCHANGED <<watchVars, bootVars>>
  <2>1. Elsewhere /\ stopped' = stopped BY <1>6, CardsElsewhere
  <2>2. UNCHANGED <<watchVars, named, boot>> BY <1>6 DEF bootVars
  <2>3. QED BY <2>1, <2>2, ThreadQuiet
<1>7. ASSUME NEW p \in Posts, NEW wants \in Wishes, Start(p, wants) \/ ShowPost(p, wants) PROVE ThreadInv'
  BY <1>7, StartKept, ShowPostKept
<1>8. CASE Watches /\ UNCHANGED <<lookupVars, bootVars>>
  BY <1>8, ThreadWatches
<1>9. CASE \E e \in Late : Arrives(e) /\ UNCHANGED <<lookupVars, watchVars, bootVars>>
  BY <1>9, ArrivesKept
<1>10. QED BY <1>1, <1>2, <1>3, <1>4, <1>5, <1>6, <1>7, <1>8, <1>9 DEF PostNext, Widget

(* Nothing is on its way any more, so everything that answers a level is   *)
(* held; and every level the thread can reach was asked about.             *)
LEMMA ThreadWhole ==
  ASSUME IInv, TreeInv, ThreadInv
  PROVE  ThreadComplete
<1> SUFFICES ASSUME IsConnected, inbox = {}, answered = subs, named.of \in threads.open,
                    ~watch[named.of].advance, events \subseteq {named.of}, ~cut
             PROVE  LET p == named.of
                        w == watch[p]
                        mine == RepliesTo(p)
                        answers(r) == /\ IsReplyEvent(r, p)
                                      /\ ParentKey(r, p, mine, RootId) \in {RootKey(p)} \cup w.asked
                        sure == IF w.early /\ w.opened = MaxDepth /\ MaxDepth > 2 THEN 2 ELSE MaxDepth
                    IN /\ Reached(Earlier \cap Replies, p, RootId, sure) \subseteq mine
                       /\ {r \in stored \cap Replies : answers(r)} \subseteq mine
  BY DEF ThreadComplete
<1> DEFINE w == watch[named.of]
           mine == RepliesTo(named.of)
<1>1. PICK p \in Posts : p = named.of BY WatchTypes
<1>2. ThreadOK(p) BY <1>1 DEF ThreadInv, Unlost
<1>3. RootId \in {None, p} BY <1>1, RootIsThePost
<1>4. HasClient BY DEF IsConnected, HasClient
<1>5. ASSUME NEW known, NEW r \in stored \cap Replies, IsReplyEvent(r, p),
             ParentKey(r, p, known, RootId) \in {RootKey(p)} \cup watch[p].asked
      PROVE  r \in mine
  <2>1. PICK s \in LevelSubs(p) : Answers(s, r)
    BY <1>2, <1>3, <1>4, <1>5, LevelsBring DEF ThreadOK
  <2>2. r \in RepliesTo(p) \/ Comes(inbox, s, r) BY <1>2, <1>5, <2>1 DEF ThreadOK, Owed
  <2>3. QED BY <1>1, <2>2 DEF Comes
<1>6. OldReplies \subseteq stored \cap Replies BY DEF OldReplies, ThreadInv, InboxInOrder
<1> DEFINE R(n) == Reached(OldReplies, p, RootId, n)
<1>7. ASSUME NEW n \in Nat, R(n) \subseteq watch[p].asked
      PROVE  R(n + 1) \subseteq mine \cap OldReplies
  <2>1. ASSUME NEW r \in R(n + 1) PROVE r \in mine \cap OldReplies
    <3>1. /\ r \in OldReplies /\ IsReplyEvent(r, p)
          /\ ParentKey(r, p, OldReplies, RootId) \in {RootKey(p)} \cup R(n)
      BY <2>1, ReachedGrows
    <3>2. ParentKey(r, p, OldReplies, RootId) \in {RootKey(p)} \cup watch[p].asked
      BY <1>7, <3>1
    <3>3. r \in mine BY <1>5, <1>6, <3>1, <3>2
    <3>4. QED BY <3>1, <3>3
  <2>2. QED BY <2>1
<1>8. R(0) = {}
  <2>1. 0 \in Nat OBVIOUS
  <2>2. QED BY <2>1, ReachedGrows
<1> HIDE DEF R, mine
<1>9. w.opened \in 1..MaxDepth /\ MaxDepth \in Nat \ {0}
  BY WatchAssumption DEF IInv, LevelsCounted
<1>10. ASSUME w.opened < MaxDepth PROVE R(MaxDepth) \subseteq mine
  <2>1. mine \cap OldReplies \subseteq watch[p].asked
    <3>1. LevelSubs(p) \subseteq answered BY DEF LevelSubs
    <3>2. watch[p].frontier \cap Earlier = {}
      BY <1>1, <1>2, <1>4, <3>1 DEF ThreadOK, FrontAwaited
    <3>3. RepliesTo(p) \subseteq watch[p].asked \cup watch[p].frontier
      BY <1>1, <1>2, <1>10 DEF ThreadOK, AskedIsHeld
    <3>4. QED BY <1>1, <3>2, <3>3 DEF OldReplies, mine
  <2> DEFINE T == {n \in Nat : ~(R(n) \subseteq mine \cap OldReplies)}
  <2>2. ASSUME T # {} PROVE FALSE
    <3>1. PICK n \in T : \A m \in T : n <= m
      <4>1. T \subseteq Nat OBVIOUS
      <4> HIDE DEF T
      <4>2. QED BY <2>2, <4>1, LeastNumber
    <3>2. n \in Nat /\ n # 0 BY <1>8, <3>1
    <3>3. n - 1 \in Nat /\ (n - 1) + 1 = n /\ ~(n <= n - 1) BY <3>2
    <3>4. R(n - 1) \subseteq mine \cap OldReplies BY <3>1, <3>3
    <3>5. R(n - 1) \subseteq watch[p].asked BY <2>1, <3>4
    <3>6. R((n - 1) + 1) \subseteq mine \cap OldReplies BY <1>7, <3>3, <3>5
    <3>7. R(n) \subseteq mine \cap OldReplies BY <3>3, <3>6
    <3>8. QED BY <3>1, <3>7
  <2>3. MaxDepth \notin T BY <2>2
  <2>4. QED BY <1>9, <2>3
<1>11. ASSUME w.opened = MaxDepth, ~w.early PROVE R(MaxDepth) \subseteq mine
  <2>1. MaxDepth - 1 \in Nat /\ (MaxDepth - 1) + 1 = MaxDepth BY <1>9
  <2>2. R(watch[p].opened - 1) \subseteq watch[p].asked
    BY <1>1, <1>2, <1>3, <1>4, <1>11 DEF ThreadOK, DeepEnough, R
  <2>3. R(MaxDepth - 1) \subseteq watch[p].asked BY <1>1, <1>11, <2>2
  <2>4. R((MaxDepth - 1) + 1) \subseteq mine \cap OldReplies BY <1>7, <2>1, <2>3
  <2>5. QED BY <2>1, <2>4
<1>12. ASSUME w.opened = MaxDepth, MaxDepth > 1 PROVE R(2) \subseteq mine
  <2>1. 1 \in Nat /\ 1 + 1 = 2 OBVIOUS
  <2>2. R(1) \subseteq watch[p].asked
    BY <1>1, <1>2, <1>3, <1>12 DEF ThreadOK, TopAsked, R
  <2>3. R(1 + 1) \subseteq mine \cap OldReplies BY <1>7, <2>1, <2>2
  <2>4. QED BY <2>1, <2>3
<1>13. ASSUME MaxDepth = 1 PROVE R(MaxDepth) \subseteq mine
  <2>1. 0 \in Nat /\ 0 + 1 = 1 OBVIOUS
  <2>2. R(0 + 1) \subseteq mine \cap OldReplies BY <1>7, <1>8, <2>1
  <2>3. QED BY <1>13, <2>1, <2>2
<1>14. R(IF w.early /\ w.opened = MaxDepth /\ MaxDepth > 2 THEN 2 ELSE MaxDepth) \subseteq mine
  <2>1. MaxDepth = 1 \/ MaxDepth = 2 \/ MaxDepth > 2 BY <1>9
  <2>2. w.opened < MaxDepth \/ w.opened = MaxDepth BY <1>9
  <2>3. CASE w.opened < MaxDepth
    <3>1. w.opened # MaxDepth BY <1>9, <2>3
    <3>2. QED BY <1>10, <2>3, <3>1
  <2>4. CASE w.opened = MaxDepth /\ ~w.early BY <1>11, <2>4
  <2>5. CASE w.opened = MaxDepth /\ w.early /\ MaxDepth > 2
    <3>1. MaxDepth > 1 BY <1>9, <2>5
    <3>2. R(2) \subseteq mine BY <1>12, <2>5, <3>1
    <3>3. QED BY <2>5, <3>2
  <2>6. CASE w.opened = MaxDepth /\ w.early /\ ~(MaxDepth > 2)
    <3>1. R(MaxDepth) \subseteq mine
      <4>1. CASE MaxDepth = 1 BY <1>13, <4>1
      <4>2. CASE MaxDepth = 2
        <5>1. MaxDepth > 1 BY <4>2
        <5>2. QED BY <1>12, <2>6, <4>2, <5>1
      <4>3. QED BY <2>1, <2>6, <4>1, <4>2
    <3>2. QED BY <2>6, <3>1
  <2>7. QED BY <2>2, <2>3, <2>4, <2>5, <2>6
<1>15. QED BY <1>1, <1>5, <1>14 DEF R, OldReplies, mine

(* A thread no cap, no CLOSED and no closed gate has cut holds every reply *)
(* the relay had, however its levels, their answers and their timers, the  *)
(* socket and the page came in each other's way: for every set of replies  *)
(* and tags, every depth and every cap.                                    *)
THEOREM TimelineThreadComplete == PostSpec => []ThreadComplete
<1>1. Init => IInv BY InvInit
<1>2. Init => TreeInv BY TreeInit
<1>3. Init => ThreadInv BY ThreadInit
<1>4. IInv /\ TreeInv /\ ThreadInv /\ [PostNext]_vars => IInv' /\ TreeInv' /\ ThreadInv'
  <2>1. [PostNext]_vars => [Step]_vars BY DEF Step
  <2>2. IInv /\ [PostNext]_vars => IInv' BY <2>1, InvStep
  <2>3. QED BY <2>2, TreeStep, ThreadStep
<1>5. IInv /\ TreeInv /\ ThreadInv => ThreadComplete BY ThreadWhole
<1>6. QED BY <1>1, <1>2, <1>3, <1>4, <1>5, PTL DEF PostSpec
==============================================================================
