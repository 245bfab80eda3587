------------------------- MODULE TimelineController --------------------------
(***************************************************************************)
(* packages/timeline-embed/src/lib/timeline-controller.ts, with the host   *)
(* pages that drive it: nostr-post.svelte points it at posts, the demo's   *)
(* App.svelte suspends and resumes it, and follow-list.ts works out the    *)
(* filter of a feed before it can be asked for.                            *)
(*                                                                         *)
(* Booting takes several awaits, and the page may re-point, suspend or     *)
(* stop the widget at each of them.                                        *)
(***************************************************************************)
EXTENDS PostWatches

CONSTANTS
  Sourced,         \* the feeds a FilterSource resolves
  Wishes,          \* the sets of watches a page may ask for
  MaxMisses,       \* VALIDATION_WATCH_MAX_MISSES
  MaxHops          \* bound on showPost(), suspend() and applyFilter() calls

ASSUME BootAssumption ==
  /\ Sourced \subseteq Posts
  /\ Wishes \subseteq SUBSET {"reactions", "replies"}
  /\ MaxMisses \in Nat \ {0}
  /\ MaxHops \in Nat

VARIABLES
  boot,            \* start(): [phase, of, wants, superseded]
  host,            \* relayHost: the claim on the page's relay
  current,         \* the post currentSubId is about, or None
  banner,          \* state.error is set
  follows,         \* state.follows, None before and without a source
  misses,          \* polls of watchValidation() without a row; None: no watch
  named,           \* the post the page asked for last, with its watches
  hops             \* calls of the page so far

bootVars == <<boot, host, current, banner, follows, misses, named, hops>>
vars == <<connVars, lookupVars, watchVars, bootVars>>

Phases == {"idle", "acquiring", "connecting", "connected", "resolving", "done"}
FollowStates == {"resolving", "ready", "missing", "dropped", None}
NotNamed == [of |-> None, wants |-> {}]

TypeOK ==
  /\ status \in Statuses
  /\ answered \subseteq subs
  /\ {stopped, suspended, cut, host, banner} \subseteq BOOLEAN
  /\ profiles \in Queues(Authors) /\ closing \subseteq profiles.open
  /\ embeds \in Queues(Embeds) /\ loading \subseteq Embeds
  /\ refresh \in RefreshType
  /\ events \subseteq Posts
  /\ held \subseteq Posts \X (Replies \cup Reactions)
  /\ {reactions, threads} \subseteq PostQueues
  /\ watch \in [Posts -> WatchType]
  /\ boot \in [phase : Phases, of : Posts \cup {None},
               wants : SUBSET {"reactions", "replies"}, superseded : BOOLEAN]
  /\ current \in Posts \cup {None}
  /\ follows \in FollowStates
  /\ misses \in 0..(MaxMisses - 1) \cup {None}

Init ==
  /\ ConnInit /\ LookupInit /\ WatchInit
  /\ boot = [phase |-> "idle", of |-> None, wants |-> {}, superseded |-> FALSE]
  /\ host = FALSE /\ current = None /\ banner = FALSE
  /\ follows = None /\ misses = None
  /\ named = NotNamed /\ hops = 0

Phase(p) == boot' = [boot EXCEPT !.phase = p]

-----------------------------------------------------------------------------
(* subscribe(): the timeline is replaced and the lookups of its cards are  *)
(* dropped; the watches of the post are left alone.                        *)
OnTimeline == {Sub("timeline", p) : p \in {current} \ {None}}
CardSubs == {s \in subs : s.kind \in {"profile", "embed"}}

Accepts == HasClient

Subscribe(p, gone, new) ==
  /\ current' = IF Accepts THEN p ELSE None
  /\ banner' = ~Accepts
  /\ suspended' = FALSE
  /\ profiles' = EmptyQueue /\ closing' = {}
  /\ embeds' = EmptyQueue /\ loading' = {}
  /\ refresh' = NoVerdicts(refresh)
  /\ events' = {}
  /\ Route(OnTimeline \cup CardSubs \cup gone, {Sub("timeline", p)} \cup new)
  /\ UNCHANGED stopped

(* watchPost(), with the queues the caller found or has just cleared.      *)
WatchPost(rq, tq, p, wants) ==
  /\ reactions' = WatchedBy("reactions", rq, p, wants, ~stopped, IsConnected)
  /\ threads' = WatchedBy("replies", tq, p, wants, ~stopped, IsConnected)
  /\ watch' = Fresh(tq)

-----------------------------------------------------------------------------
(* start() and startPost(), one action per stretch between awaits.         *)
Start(p, wants) ==
  /\ boot.phase = "idle" /\ ~stopped
  /\ boot' = [phase |-> "acquiring", of |-> p, wants |-> wants, superseded |-> FALSE]
  /\ named' = [of |-> p, wants |-> wants]
  /\ UNCHANGED <<connVars, lookupVars, watchVars, host, current, banner,
                 follows, misses, hops>>

Acquired_bug == host' = TRUE
Acquired == host' = ~stopped

HostAcquired ==
  /\ boot.phase = "acquiring"
  /\ Acquired
  /\ IF stopped THEN Phase("done") /\ UNCHANGED connVars
                ELSE Phase("connecting") /\ Dial
  /\ UNCHANGED <<lookupVars, watchVars, current, banner, follows, misses, named, hops>>

AcquireFails ==
  /\ boot.phase = "acquiring"
  /\ Phase("done")
  /\ banner' = TRUE
  /\ UNCHANGED <<connVars, lookupVars, watchVars, host, current, follows,
                 misses, named, hops>>

(* The generation: a later showPost() has its own watches open by now.     *)
StillWanted_bug == TRUE
StillWanted == ~boot.superseded

(* The rest of start(), and of startPost() when no filter source is left   *)
(* to wait for.                                                            *)
AwaitsNothing == boot.phase = "connected" \/ (boot.phase = "connecting" /\ stopped)

BootStopped ==
  /\ AwaitsNothing /\ stopped
  /\ Phase("done")
  /\ UNCHANGED <<connVars, lookupVars, watchVars, host, current, banner,
                 follows, misses, named, hops>>

PostStarts ==
  /\ boot.phase = "connected" /\ ~stopped /\ boot.of \notin Sourced
  /\ Phase("done")
  /\ IF StillWanted /\ Accepts
       THEN WatchPost(reactions, threads, boot.of, boot.wants)
       ELSE UNCHANGED <<reactions, threads, watch>>
  /\ Subscribe(boot.of, {}, OpenedWatches(reactions, threads))
  /\ UNCHANGED <<held, cut, follows, host, misses, named, hops>>

(* followFilterSource(): a suspended widget's signal is aborted already,   *)
(* and the source returns after it has said it is resolving.               *)
FollowsResolve ==
  /\ boot.phase = "connected" /\ ~stopped /\ boot.of \in Sourced
  /\ follows' = "resolving"
  /\ IF suspended
       THEN Phase("done") /\ UNCHANGED connVars
       ELSE Phase("resolving") /\ Route({}, {Sub("follows", boot.of)})
  /\ UNCHANGED <<lookupVars, watchVars, host, current, banner, misses, named, hops>>

(* The follow list is in, or is missing: unpublished, or no answer came.   *)
FollowsFound ==
  /\ boot.phase = "resolving" /\ Sub("follows", boot.of) \in subs
  /\ Phase("done")
  /\ follows' = "ready"
  /\ misses' = 0
  /\ Subscribe(boot.of, {Sub("follows", boot.of)}, {})
  /\ UNCHANGED <<held, reactions, threads, watch, cut, host, named, hops>>

FollowsMissing ==
  /\ boot.phase = "resolving"
  /\ Phase("done")
  /\ follows' = "missing"
  /\ Route({Sub("follows", boot.of)}, {})
  /\ UNCHANGED <<lookupVars, watchVars, host, current, banner, misses, named, hops>>

(* watchValidation(): a list the cache has stopped holding takes the       *)
(* timeline built on it away; applyFollows().                              *)
Patience_bug == MaxMisses + 1
Patience == MaxMisses

FollowsVerdict(verdict) ==
  /\ misses # None
  /\ misses' = CASE verdict = "validated" -> None
                 [] verdict = "pending" -> 0
                 [] verdict = "unknown" -> IF misses + 1 >= Patience THEN None
                                           ELSE misses + 1
  /\ IF verdict = "unknown" /\ misses + 1 >= Patience
       THEN /\ follows' = "dropped"
            /\ Route(OnTimeline, {})
            /\ current' = None
            /\ events' = {}
            /\ refresh' = [refresh EXCEPT !.pending = FALSE]
       ELSE UNCHANGED <<connVars, follows, current, events, refresh>>
  /\ UNCHANGED <<stopped, suspended, profiles, closing, embeds, loading, held,
                 reactions, threads, watch, cut, boot, host, banner, named, hops>>

-----------------------------------------------------------------------------
(* onStatusChange: a socket that is up has room for everything that waited *)
(* for it, and a lost one is reported.                                     *)
LinkUp ==
  /\ profiles' = Pump(profiles, ProfileBudget, TRUE)
  /\ embeds' = Pump(embeds, EmbedBudget, TRUE)
  /\ reactions' = Drained(reactions, Awake, TRUE)
  /\ threads' = Drained(threads, Awake, TRUE)
  /\ watch' = Fresh(threads)
  /\ SocketUp(Opened("profile", profiles, profiles') \cup Opened("embed", embeds, embeds')
                \cup OpenedWatches(reactions, threads))
  /\ banner' = FALSE
  /\ IF boot.phase = "connecting" THEN Phase("connected") ELSE UNCHANGED boot
  /\ UNCHANGED <<stopped, suspended, closing, loading, refresh, events, held, cut,
                 host, current, follows, misses, named, hops>>

LinkDead ==
  /\ GivesUp
  /\ banner' = TRUE
  /\ IF boot.phase = "connecting" THEN Phase("done") ELSE UNCHANGED boot
  /\ UNCHANGED <<lookupVars, watchVars, host, current, follows, misses, named, hops>>

-----------------------------------------------------------------------------
(* What the relay sends on the subscriptions of the timeline and the post. *)
TimelineEvent(d) ==
  /\ Delivers(d) /\ d.to.kind = "timeline"
  /\ events' = events \cup {d.event}
  /\ refresh' = ScheduleRefresh(refresh)
  /\ UNCHANGED <<stopped, suspended, profiles, closing, embeds, loading,
                 held, reactions, threads, watch, cut, bootVars>>

PostEvent(d) ==
  /\ Delivers(d)
  /\ CASE d.to.kind = "reactions" -> IngestReaction(d.to.of, d.event)
       [] d.to.kind = "replies" -> IngestReply(d.to.of, d.event)
       [] OTHER -> FALSE
  /\ UNCHANGED <<stopped, suspended, profiles, closing, embeds, loading,
                 events, reactions, bootVars>>

TimelineEose ==
  /\ current # None /\ Eose(Sub("timeline", current))
  /\ refresh' = ScheduleRefresh(refresh)
  /\ UNCHANGED <<stopped, suspended, profiles, closing, embeds, loading,
                 watchVars, bootVars>>

(* Neither of the others has anything to do at its EOSE.                   *)
QuietEose(s) ==
  /\ s.kind \in {"reactions", "embed", "follows"} /\ Eose(s)
  /\ UNCHANGED <<lookupVars, watchVars, bootVars>>

TimelineClosed ==
  /\ current # None /\ Closed(Sub("timeline", current), {})
  /\ banner' = TRUE
  /\ UNCHANGED <<lookupVars, watchVars, boot, host, current, follows, misses,
                 named, hops>>

-----------------------------------------------------------------------------
(* showPost(): nostr-post.svelte's effect, run when the post or the        *)
(* switches of its watches change.                                         *)
ShowPost(p, wants) ==
  /\ boot.phase # "idle" /\ ~stopped /\ hops < MaxHops
  /\ named # [of |-> p, wants |-> wants]
  /\ named' = [of |-> p, wants |-> wants]
  /\ hops' = hops + 1
  /\ boot' = [boot EXCEPT !.superseded = TRUE]
  /\ held' = {} /\ cut' = FALSE
  /\ WatchPost(NoPosts, NoPosts, p, wants)
  /\ Subscribe(p, PostSubs, OpenedWatches(NoPosts, NoPosts))
  /\ UNCHANGED <<host, follows, misses>>

(* What suspend() and stop() share: everything open is closed, every queue *)
(* emptied, both timers and the filter source ended.                       *)
AllQuiet ==
  /\ current' = None
  /\ profiles' = WithoutProfiles(profiles) /\ closing' = {}
  /\ embeds' = WithoutEmbeds(embeds)
  /\ reactions' = NoPosts /\ threads' = NoPosts
  /\ refresh' = ClearTimers(refresh)
  /\ misses' = None
  /\ boot' = [boot EXCEPT !.phase = IF @ = "resolving" THEN "done" ELSE @]
  /\ watch' = Fresh(threads)
  /\ UNCHANGED <<loading, events, held, cut, banner, named>>

OpenSubs_bug == OnTimeline \cup PostSubs
OpenSubs == subs

(* The demo's runBenchmarkNow(), before it measures and when it resumes.   *)
Suspend ==
  /\ host /\ ~suspended /\ ~stopped /\ hops < MaxHops
  /\ suspended' = TRUE
  /\ follows' = None
  /\ hops' = hops + 1
  /\ AllQuiet
  /\ Route(OpenSubs, {})
  /\ UNCHANGED <<stopped, host>>

ApplyFilter ==
  /\ suspended /\ ~stopped
  /\ Subscribe(named.of, {}, {})
  /\ UNCHANGED <<held, reactions, threads, watch, cut, boot, host, follows,
                 misses, named, hops>>

(* stop(): the claim on the host goes last.                                *)
Stop ==
  /\ ~stopped /\ boot.phase # "idle"
  /\ stopped' = TRUE
  /\ AllQuiet
  /\ Teardown("disconnected")
  /\ host' = FALSE
  /\ UNCHANGED <<suspended, follows, hops>>

-----------------------------------------------------------------------------
(* The cards on screen, and the timers and lookups behind them.            *)
Shown == events # {} \/ held \cap (Posts \X Replies) # {}

Cards ==
  \/ events # {} /\ \E a \in Authors : RequestProfile(a)
  \/ events # {} /\ \E k \in Embeds : RequestEmbed(k)

Lookups ==
  \/ \E a \in Authors :
       ProfileCloses(a) \/ ProfileWatchdog(a) \/ ProfileEose(a) \/ ProfileClosed(a)
  \/ \E k \in Embeds, found \in BOOLEAN : EmbedSettles(k, found)

Refreshes ==
  \/ \E timer \in {"debounce", "poll"},
        shown \in {Shown, Shown \/ embeds.requested \ loading # {}} :
       RefreshStarts(timer, host /\ shown)
  \/ \E pending \in BOOLEAN : RefreshEnds(pending)

Booting == HostAcquired \/ AcquireFails \/ BootStopped \/ PostStarts

Link == LinkUp \/ LinkDead

Watches ==
  \/ \E s \in subs : LevelEose(s) \/ LevelClosed(s)
  \/ \E p \in Posts : AdvanceReplyLevel(p) \/ ReactionsClosed(p)

Relay ==
  \/ \E d \in inbox : TimelineEvent(d) \/ PostEvent(d)
  \/ TimelineEose \/ TimelineClosed \/ \E s \in subs : QuietEose(s)
  \/ SocketDrops /\ UNCHANGED <<lookupVars, watchVars, bootVars>>

(* Shared by both kinds of page.                                           *)
Widget ==
  \/ Booting \/ Link \/ Relay \/ Stop
  \/ (Cards \/ Lookups \/ Refreshes) /\ UNCHANGED <<watchVars, bootVars>>

(* nostr-post.svelte: one post at a time, and what answers it.             *)
PostNext ==
  \/ Widget
  \/ \E p \in Posts, wants \in Wishes : Start(p, wants) \/ ShowPost(p, wants)
  \/ Watches /\ UNCHANGED <<lookupVars, bootVars>>
  \/ \E e \in Late : Arrives(e) /\ UNCHANGED <<lookupVars, watchVars, bootVars>>

(* nostr-timeline.svelte and the demo: one feed, resolved, suspended and   *)
(* resumed.                                                                *)
FeedNext ==
  \/ Widget
  \/ \E p \in Posts : Start(p, {})
  \/ FollowsResolve \/ FollowsFound \/ FollowsMissing
  \/ \E verdict \in {"validated", "pending", "unknown"} : FollowsVerdict(verdict)
  \/ Suspend \/ ApplyFilter

PostSpec ==
  /\ Init /\ [][PostNext]_vars
  /\ WF_vars(Booting) /\ WF_vars(Link)

FeedSpec ==
  /\ Init /\ [][FeedNext]_vars
  /\ WF_vars(Booting) /\ WF_vars(Link)
  /\ \A a \in Authors :
       WF_vars(ProfileWatchdog(a) /\ UNCHANGED <<watchVars, bootVars>>)

-----------------------------------------------------------------------------
(* Whatever the page does while the widget boots, and however often it     *)
(* re-points it, only the post it named last is watched, and only in the   *)
(* ways it asked for: showPost() "keeping the relay and the connection"    *)
(* leaves no subscription, queue entry or collected event of another post. *)
WatchesOfThePost ==
  /\ \A s \in PostSubs : s.of = named.of /\ s.kind \in named.wants
  /\ reactions.requested \cup reactions.pending \cup reactions.open \subseteq {named.of}
  /\ threads.requested \cup threads.pending \cup threads.open \subseteq {named.of}
  /\ \A h \in held : h[1] = named.of

(* The relay caps a client's subscriptions and refuses the rest with a     *)
(* NOTICE nobody waits for: one for the post, one for its reactions, one   *)
(* per level and the two lookup budgets is the ceiling the comments on the *)
(* budgets count on.                                                       *)
SubscriptionBudget ==
  /\ Cardinality({s \in subs : s.kind = "profile"}) <= ProfileBudget
  /\ Cardinality({s \in subs : s.kind = "embed"}) <= EmbedBudget
  /\ Cardinality(subs \ CardSubs) <= MaxDepth + 2

(* Once the relay has answered and the post is on screen, a thread no cap  *)
(* and no CLOSED has cut holds every reply the relay had, down to the      *)
(* depth asked for, whichever order their deliveries, EOSEs and level      *)
(* timers came in and however the socket dropped; and of those that came   *)
(* since, every answer to the post and to the replies its levels ask       *)
(* about.  A reconnect may spend a level early, on what half of the level  *)
(* above has brought; then, with no level left, the third and all below it *)
(* may lack what they would have asked, and two levels are what is sure.   *)
ThreadComplete ==
  LET p == named.of
      w == watch[p]
      mine == RepliesTo(p)
      settled == /\ IsConnected /\ inbox = {} /\ answered = subs
                 /\ p \in threads.open /\ ~w.advance /\ events \subseteq {p}
      answers(r) == /\ IsReplyEvent(r, p)
                    /\ ParentKey(r, p, mine, RootId) \in {RootKey(p)} \cup w.asked
      sure == IF w.early /\ w.opened = MaxDepth /\ MaxDepth > 2 THEN 2 ELSE MaxDepth
  IN settled /\ ~cut =>
       /\ Reached(Earlier \cap Replies, p, RootId, sure) \subseteq mine
       /\ {r \in stored \cap Replies : answers(r)} \subseteq mine

(* The tree built from what is held counts each reply once: placed, left   *)
(* out by a cap, or connected to nothing; and nothing is connected to      *)
(* nothing unless a full set dropped its parent, because the gate admits a *)
(* reply only when its parent is already there.                            *)
TreeAddsUp ==
  LET p == named.of
      H == RepliesTo(p)
      tree == BuildReplyTree(H, p, RootId, MaxDepth)
      loose == {r \in H : ~Connects(r, H, p, RootId)}
      within == Cardinality(Reached(H, p, RootId, MaxDepth))
  IN p \in events =>
       /\ tree.orphans = Cardinality(loose)
       /\ tree.total = IF within < MaxNodes THEN within ELSE MaxNodes
       /\ ~cut => loose = {}

(* A widget that is stopped at any point of its boot, even inside the      *)
(* acquire of a relay that is still starting, gives its claim back and     *)
(* leaves start() settled.                                                 *)
StopReleases == stopped ~> (boot.phase = "done" /\ ~host)

-----------------------------------------------------------------------------
(* Nobody waits for something nobody will do: a lookup is queued only      *)
(* behind a full budget, a quote shows as loading only while it is queued  *)
(* or in flight, and a verdict still to come has a timer or a read.        *)
NothingIsForgotten ==
  Awake =>
    /\ IsConnected /\ profiles.pending # <<>> => Cardinality(profiles.open) = ProfileBudget
    /\ IsConnected /\ embeds.pending # <<>> => Cardinality(embeds.open) = EmbedBudget
    /\ loading \subseteq embeds.open \cup ToSet(embeds.pending)
    /\ Shown /\ refresh.pending => refresh.debounce \/ refresh.poll \/ refresh.reading > 0

(* A suspended widget asks the relay for nothing: no card, EOSE, socket or *)
(* settling lookup opens a subscription until something resumes it.        *)
PausedIsQuiet == suspended => subs = {}

(* An author waiting for a profile is served, or the link is reported      *)
(* lost, even when the relay answers with neither EOSE nor CLOSED.         *)
AuthorsServed ==
  \A a \in Authors :
    a \in ToSet(profiles.pending) \cup profiles.open ~>
      \/ a \notin ToSet(profiles.pending) \cup profiles.open
      \/ status = "error"

(* What nostr-post.svelte says of its effect: "Point the controller at     *)
(* whichever post is on screen".                                           *)
TimelineIsOfThePost == current # None => current = named.of
=============================================================================
