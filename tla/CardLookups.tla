----------------------------- MODULE CardLookups -----------------------------
(***************************************************************************)
(* packages/timeline-embed/src/lib/timeline-controller.ts: what the cards  *)
(* on screen ask of the controller.  Authors' profiles and quoted events   *)
(* are looked up through two queues, each with a budget of requests in     *)
(* flight; the verdicts of signature checks are read back from the relay   *)
(* by a debounced refresh and a poll.                                      *)
(*                                                                         *)
(* A lookup an abort has ended settles in the microtasks that follow,      *)
(* before another message, timer or card can run: its place is given back  *)
(* by the step that aborts it.  What a card shows of a profile is left     *)
(* out, and of an embed only whether it still shows as loading.            *)
(***************************************************************************)
EXTENDS RelayConnection, Sequences, SequencesExt

CONSTANTS
  Authors,         \* authors whose card may come into view
  Embeds,          \* events quoted on the cards
  QuotedBy,        \* [Embeds -> Authors]: whose event it is
  ProfileBudget,   \* MAX_CONCURRENT_PROFILE_REQUESTS
  EmbedBudget,     \* MAX_CONCURRENT_EMBED_REQUESTS
  MaxRefreshes     \* bound on validation lookups in flight at once

ASSUME LookupAssumption ==
  /\ ProfileBudget \in Nat \ {0}
  /\ EmbedBudget \in Nat \ {0}
  /\ MaxRefreshes \in Nat
  /\ QuotedBy \in [Embeds -> Authors]

VARIABLES
  stopped,         \* set by stop(), for good
  suspended,       \* set by suspend(), cleared by subscribe()
  profiles,        \* the profile queue: [requested, pending, open]
  closing,         \* open profile lookups whose EOSE has come
  embeds,          \* the embed queue; `open` holds the lookups in flight
  loading,         \* embeds whose state is "loading"
  refresh          \* [debounce, poll, reading, pending], see RefreshType

lookupVars == <<stopped, suspended, profiles, closing, embeds, loading, refresh>>

Queues(S) == [requested : SUBSET S, pending : Seq(S), open : SUBSET S]
EmptyQueue == [requested |-> {}, pending |-> <<>>, open |-> {}]

(* Two timers, the lookups in flight, and whether the last verdicts read   *)
(* had one that is still to come.                                          *)
RefreshType == [debounce : BOOLEAN, poll : BOOLEAN,
                reading : 0..MaxRefreshes, pending : BOOLEAN]

LookupInit ==
  /\ stopped = FALSE
  /\ suspended = FALSE
  /\ profiles = EmptyQueue
  /\ closing = {}
  /\ embeds = EmptyQueue
  /\ loading = {}
  /\ refresh = [debounce |-> FALSE, poll |-> FALSE, reading |-> 0, pending |-> FALSE]

Sub(kind, x) == [kind |-> kind, of |-> x, ids |-> {}]

-----------------------------------------------------------------------------
(* pumpProfileQueue() and pumpEmbedQueue(): start queued lookups while the *)
(* budget and the connection allow.                                        *)
Awake == ~stopped /\ ~suspended

Pump(q, budget, up) ==
  LET room == budget - Cardinality(q.open)
      n == IF ~(Awake /\ up) THEN 0
           ELSE IF Len(q.pending) < room THEN Len(q.pending) ELSE room
  IN [q EXCEPT !.pending = SubSeq(@, n + 1, Len(@)),
               !.open = @ \cup ToSet(SubSeq(q.pending, 1, n))]

(* requestProfile() and requestEmbed(): a repeat costs nothing.            *)
Ask(q, x, budget) ==
  IF x \in q.requested \/ ~Awake THEN q
  ELSE Pump([q EXCEPT !.requested = @ \cup {x}, !.pending = Append(@, x)],
            budget, IsConnected)

Opened(kind, before, after) == {Sub(kind, x) : x \in after.open \ before.open}

RequestProfile(a) ==
  /\ Awake /\ a \notin profiles.requested
  /\ profiles' = Ask(profiles, a, ProfileBudget)
  /\ Route({}, Opened("profile", profiles, profiles'))
  /\ UNCHANGED <<stopped, suspended, closing, embeds, loading, refresh>>

(* finishProfileRequest(): the slot is free, the next author may start.    *)
FinishedProfile_bug(q, a) == [q EXCEPT !.open = @ \ {a}]
FinishedProfile(q, a) == Pump([q EXCEPT !.open = @ \ {a}], ProfileBudget, IsConnected)

FinishProfileRequest(a) ==
  /\ a \in profiles.open
  /\ profiles' = FinishedProfile(profiles, a)
  /\ closing' = closing \ {a}
  /\ Route({Sub("profile", a)},
           Opened("profile", [profiles EXCEPT !.open = @ \ {a}], profiles'))
  /\ UNCHANGED <<stopped, suspended, embeds, loading, refresh>>

(* The timer finishAfterEose() set, and the watchdog, which answers for a  *)
(* REQ the relay refused with a NOTICE or that the socket lost.            *)
ProfileCloses(a) == a \in closing /\ FinishProfileRequest(a)

HasWatchdog_bug(a) == a \in closing
HasWatchdog(a) == TRUE

ProfileWatchdog(a) == HasWatchdog(a) /\ FinishProfileRequest(a)

ProfileEose(a) ==
  /\ Eose(Sub("profile", a))
  /\ closing' = closing \cup {a}
  /\ UNCHANGED <<stopped, suspended, profiles, embeds, loading, refresh>>

ProfileClosed(a) ==
  /\ IsConnected /\ Sub("profile", a) \in subs
  /\ FinishProfileRequest(a)

(* closeProfiles()                                                         *)
WithoutProfiles(q) == [q EXCEPT !.pending = <<>>, !.open = {}]

-----------------------------------------------------------------------------
ScheduleRefresh(r) == [r EXCEPT !.debounce = TRUE]

RequestEmbed(k) ==
  /\ Awake /\ k \notin embeds.requested
  /\ embeds' = Ask(embeds, k, EmbedBudget)
  /\ loading' = loading \cup {k}
  /\ Route({}, Opened("embed", embeds, embeds'))
  /\ UNCHANGED <<stopped, suspended, profiles, closing, refresh>>

(* openEmbedRequest() after its await: fetchOnce completed on EOSE, on     *)
(* CLOSED or at its deadline, with the event or with nothing.  Either way  *)
(* the queue is pumped; an event also asks for its author.                 *)
PumpedEmbeds(q) == Pump(q, EmbedBudget, IsConnected)

EmbedSettles(k, found) ==
  /\ k \in embeds.open
  /\ found => Sub("embed", k) \in subs
  /\ LET freed == [embeds EXCEPT !.open = @ \ {k}]
     IN /\ embeds' = PumpedEmbeds(freed)
        /\ profiles' = IF found THEN Ask(profiles, QuotedBy[k], ProfileBudget)
                                ELSE profiles
        /\ Route({Sub("embed", k)}, Opened("embed", freed, embeds')
                                      \cup Opened("profile", profiles, profiles'))
  /\ loading' = loading \ {k}
  /\ refresh' = IF found THEN ScheduleRefresh(refresh) ELSE refresh
  /\ UNCHANGED <<stopped, suspended, closing>>

(* closeEmbeds(): the lookups in flight are aborted.                       *)
WithoutEmbeds(q) == EmptyQueue

-----------------------------------------------------------------------------
(* refreshValidationStatuses(), run by the debounce timer or the poll.     *)
RefreshStarts(timer, somethingShown) ==
  /\ refresh[timer]
  /\ IF somethingShown
       THEN /\ refresh.reading < MaxRefreshes
            /\ refresh' = [refresh EXCEPT ![timer] = FALSE, !.reading = @ + 1]
       ELSE refresh' = [refresh EXCEPT ![timer] = FALSE]
  /\ UNCHANGED <<connVars, stopped, suspended, profiles, closing, embeds, loading>>

(* The verdicts are in: only a pending one keeps the poll alive.           *)
Repolls(pending) == pending

RefreshEnds(pending) ==
  /\ refresh.reading > 0
  /\ refresh' = IF stopped
                  THEN [refresh EXCEPT !.reading = @ - 1]
                  ELSE [refresh EXCEPT !.reading = @ - 1, !.pending = pending,
                                       !.poll = Repolls(pending)]
  /\ UNCHANGED <<connVars, stopped, suspended, profiles, closing, embeds, loading>>

(* clearTimers(), and the verdicts a new subscription starts without.      *)
ClearTimers(r) == [r EXCEPT !.debounce = FALSE, !.poll = FALSE]
NoVerdicts(r) == [ClearTimers(r) EXCEPT !.pending = FALSE]
=============================================================================
