----------------------------- MODULE PostWatches -----------------------------
(***************************************************************************)
(* packages/timeline-embed/src/lib/timeline-controller.ts: the two watches *)
(* of one post.  Its reactions are one subscription; its thread is one     *)
(* subscription per level, each opened at the EOSE of the level above with *)
(* the ids that level delivered.                                           *)
(*                                                                         *)
(* A subscription's `limit` is not modelled: the relay answers in full.    *)
(***************************************************************************)
EXTENDS CardLookups, ReplyTree

CONSTANTS
  MaxReplies,      \* MAX_REPLIES held per post
  MaxReactions,    \* MAX_REACTIONS held per post
  MaxDepth,        \* levels a thread opens: replies-depth, at least 1
  LevelIds         \* MAX_REPLY_IDS_PER_LEVEL

ASSUME WatchAssumption ==
  /\ {MaxReplies, MaxReactions, MaxDepth, LevelIds} \subseteq Nat \ {0}
  /\ \A x \in Reactions : Age[x] \in Nat

VARIABLES
  events,          \* state.events: the posts shown, of a one-post timeline
  held,            \* state.reactions and state.replies: <<post, event>>
  reactions,       \* the reaction queue: [requested, pending, open]
  threads,         \* the reply queue; `open` holds the keys of replyWatches
  watch,           \* [Posts -> WatchType], read for the open threads only
  cut              \* the thread lost something to a cap, a CLOSED or the gate

watchVars == <<events, held, reactions, threads, watch, cut>>

PostQueues == [requested : SUBSET Posts, pending : SUBSET Posts, open : SUBSET Posts]
NoPosts == [requested |-> {}, pending |-> {}, open |-> {}]

(* A ReplyWatch; `early` is a history, no field of it: a level was opened  *)
(* before the levels above it had been answered.                           *)
WatchType == [opened : Nat, asked : SUBSET Replies,
              frontier : SUBSET Replies, advance : BOOLEAN, early : BOOLEAN]
NewWatch == [opened |-> 1, asked |-> {}, frontier |-> {}, advance |-> FALSE,
             early |-> FALSE]

WatchInit ==
  /\ events = {}
  /\ held = {}
  /\ reactions = NoPosts
  /\ threads = NoPosts
  /\ watch = [p \in Posts |-> NewWatch]
  /\ cut = FALSE

Level(p, ids) == [kind |-> "replies", of |-> p, ids |-> ids]
LevelSubs(p) == {s \in subs : s.kind = "replies" /\ s.of = p}
HeldFor(p) == {h[2] : h \in {h \in held : h[1] = p}}
RepliesTo(p) == HeldFor(p) \cap Replies

(* The filters of the REQs this class sends, against what the relay holds: *)
(* `#a` for an addressable post and `#e` for the others and for a level.   *)
ETags(r) == ({Tags[r].reply, Tags[r].root} \cup ToSet(Tags[r].plain)) \ {None}

RelayWants(s, e) ==
  \/ s.kind = "timeline" /\ e = s.of
  \/ s.kind = "reactions" /\ e \in Reactions /\ RootKey(s.of) \in ReactsTo[e].tags
  \/ /\ s.kind = "replies" /\ e \in Replies
     /\ IF s.ids # {} THEN ETags(e) \cap s.ids # {}
        ELSE IF s.of \in Addressed THEN ATag[e] = s.of
        ELSE s.of \in ETags(e)

(* What the relay sends on a subscription matches its filter, and a level  *)
(* is answered in full.                                                    *)
ASSUME RelayAssumption ==
  \A p \in Posts, ids \in SUBSET Replies :
    \A s \in {Sub("timeline", p), Sub("reactions", p), Level(p, ids)}, e \in Earlier \cup Late :
      Wants(s, e) => RelayWants(s, e)

ASSUME LevelAssumption ==
  \A p \in Posts, ids \in SUBSET Replies, e \in Earlier \cup Late :
    RelayWants(Level(p, ids), e) => Wants(Level(p, ids), e)

-----------------------------------------------------------------------------
(* requestReactions() and requestReplies(), and the pumps that open what   *)
(* was asked for once the socket is up.                                    *)
Drained(q, awake, up) ==
  IF awake /\ up THEN [q EXCEPT !.open = @ \cup q.pending, !.pending = {}] ELSE q

AskWatch(q, p, awake, up) ==
  IF p \in q.requested \/ ~awake THEN q
  ELSE Drained([q EXCEPT !.requested = @ \cup {p}, !.pending = @ \cup {p}], awake, up)

(* watchPost(): the presence of a watch in `wants` is the request.         *)
WatchedBy(kind, q, p, wants, awake, up) ==
  IF kind \in wants THEN AskWatch(q, p, awake, up) ELSE q

(* The subscriptions of what a pump just opened, and its watches next to   *)
(* those of the threads that stay open: closing one deletes its watch.     *)
OpenedWatches(rq, tq) ==
  {Sub("reactions", p) : p \in reactions'.open \ rq.open}
    \cup {Level(p, {}) : p \in threads'.open \ tq.open}

Fresh(tq) == [p \in Posts |-> IF p \in threads'.open \cap tq.open THEN watch[p]
                              ELSE NewWatch]

(* closeReactions() and closeReplies().                                    *)
PostSubs == {s \in subs : s.kind \in {"reactions", "replies"}}

-----------------------------------------------------------------------------
(* insertEvent(): a duplicate changes nothing, and a set that is full      *)
(* drops its oldest.                                                       *)
Youngest(S, cap) ==
  IF Cardinality(S) <= cap THEN S
  ELSE S \ {CHOOSE old \in S : \A other \in S : Age[old] <= Age[other]}

Insert(p, e, kind, cap) ==
  LET before == HeldFor(p) \cap kind
  IN held' = (held \ {<<p, x>> : x \in before})
               \cup {<<p, x>> : x \in Youngest(before \cup {e}, cap)}

IngestReaction(p, x) ==
  /\ IF ReactsTo[x].last = RootKey(p) THEN Insert(p, x, Reactions, MaxReactions)
                                      ELSE UNCHANGED held
  /\ UNCHANGED <<threads, watch, refresh, cut>>

(* state.events[0], which is the post once it has been delivered.          *)
RootId == IF events = {} THEN None ELSE CHOOSE e \in events : TRUE

(* ingestReply(): the gate, the cap and the next level's ids.              *)
IngestReply(p, r) ==
  LET known == RepliesTo(p)
      accepted == AcceptsReply(r, p, known, RootId)
  IN /\ IF accepted /\ r \notin known
          THEN /\ Insert(p, r, Replies, MaxReplies)
               /\ watch' = [watch EXCEPT ![p].frontier = @ \cup {r}]
               /\ refresh' = ScheduleRefresh(refresh)
          ELSE UNCHANGED <<held, watch, refresh>>
     /\ cut' = (cut \/ (accepted /\ Cardinality(known \cup {r}) > MaxReplies)
                    \/ (~accepted /\ p \in Addressed /\ RootId = None))
  /\ UNCHANGED threads

-----------------------------------------------------------------------------
(* The EOSE of a level sets a timer of no delay, so that the deliveries it *)
(* followed are read first; the timer asks about what they brought.        *)
LevelEose(s) ==
  /\ s.kind = "replies" /\ Eose(s)
  /\ watch' = [watch EXCEPT ![s.of].advance = TRUE]
  /\ UNCHANGED <<events, held, reactions, threads, cut>>

Settled_bug(p) == TRUE
Settled(p) == \A d \in Received : d.to \notin LevelSubs(p)

(* Asked once per id, at most LevelIds of them in the order they arrived.  *)
Asks(w) == LET arrived == w.frontier \ w.asked
           IN IF Cardinality(arrived) <= LevelIds THEN {arrived}
              ELSE {ids \in SUBSET arrived : Cardinality(ids) = LevelIds}

MayOpenLevel_bug(w) == TRUE
MayOpenLevel(w) == w.opened < MaxDepth

AdvanceReplyLevel(p) ==
  /\ p \in threads.open /\ watch[p].advance /\ Settled(p)
  /\ LET w == watch[p]
         rest == [w EXCEPT !.frontier = {}, !.advance = FALSE]
     IN IF ~Awake \/ ~MayOpenLevel(w)
          THEN /\ watch' = [watch EXCEPT ![p] = rest]
               /\ UNCHANGED <<connVars, cut>>
          ELSE \E ids \in Asks(w) :
                 /\ cut' = (cut \/ (w.frontier \ w.asked) # ids)
                 /\ IF ids = {}
                      THEN /\ watch' = [watch EXCEPT ![p] = rest]
                           /\ UNCHANGED connVars
                      ELSE /\ watch' = [watch EXCEPT ![p] =
                                [rest EXCEPT !.asked = @ \cup ids, !.opened = @ + 1,
                                   !.early = @ \/ ~(LevelSubs(p) \subseteq answered)]]
                           /\ Route({}, {Level(p, ids)})
  /\ UNCHANGED <<events, held, reactions, threads>>

(* CLOSED: a reaction watch may be asked for again; a level's stays asked, *)
(* and what it costs is that level's live updates.                         *)
Released(q, p) == [q EXCEPT !.open = @ \ {p}, !.requested = @ \ {p}]

ReactionsClosed(p) ==
  /\ Closed(Sub("reactions", p), {})
  /\ reactions' = Released(reactions, p)
  /\ UNCHANGED <<events, held, threads, watch, cut>>

LevelClosed(s) ==
  /\ s.kind = "replies" /\ Closed(s, {})
  /\ cut' = TRUE
  /\ UNCHANGED <<events, held, reactions, threads, watch>>
=============================================================================
