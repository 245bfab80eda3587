# A TLA+ verification of nostr-cache

nostr-cache is a Nostr relay that runs inside the client: it answers a client's
REQs from a local cache, asks real relays for the rest, and stores what comes
back. This directory holds TLA+ modules that model its concurrent parts, the
TLC configurations that check them on small instances, and TLAPS proofs of the
properties that matter most, for every value of the constants.

The program is single-threaded JavaScript. Every handler runs to completion
between two awaits, so an action of these modules is one such run, and what
interleaves is handlers that await (the storage, a signature check, a
connection), timers, microtasks, and messages of clients and relays. That is
where the hazards are: an await is a place where everything the handler has
read may have changed.

## 1. The system

### Components, their state and operations

| Component | State | Operations | What makes it correct |
|---|---|---|---|
| Upstream pool (`cache-relay/src/upstream/upstream-relay-pool.ts`) | one rx-nostr client, open subscriptions, per subscription the relays still owing an EOSE, recovery timers | start, stop, publish, openSubscription, closeSubscription; connection-state and EOSE callbacks, microtasks, timers | one aggregated EOSE per opening, neither early nor withheld; lost relays are tried again; a stopped pool is silent |
| Upstream coordinator (`upstream-coordinator.ts`) | the 1:1 table client subscription – upstream subscription, a dedup set, an ingest chain and an EOSE timer each | openForSubscription, closeForSubscription, closeAllForClient, markDelivered, start, stop; event, EOSE and timeout callbacks | nothing delivered after the end or twice, EOSE once and after the backfill, no leaked timer or subscription |
| Request handling (`core/message-handler.ts`, `subscription-manager.ts`, `nostr-cache-relay.ts`) | subscription tables, in-flight handlers | REQ, EVENT, CLOSE, disconnect; subscribe, unsubscribe, publishEvent | no gap between stored and live events, one EOSE per REQ, local and upstream tables in step |
| Event ingestion (`event/event-handler.ts`, `deletion.ts`, `replaceable.ts`) | in-flight handlers | handleEvent for regular, replaceable, addressable, ephemeral and deletion events | newest version kept, deletions only by the author, nothing lost |
| Cache storage (`storage/`, `server/src/storage/`) | rows with their validation state and cache times | save, delete variants, markValidated, deleteExpired, enforceLimit, getEvents | soft limit, retained kinds, no validation downgrade, reads agree with the filters |
| Background passes (`event/lazy-validator.ts`, `storage/expiry-reaper.ts`) | a timer and an in-flight flag each | start, stop, pass, sweep | only valid rows are marked, every pending row is judged |
| Freshness gate and id coverage (`upstream/freshness.ts`, `id-coverage.ts`) | none of their own (cache times) | filtersForUpstream, markRevalidated, narrowFiltersByIdCoverage | upstream is skipped only when the cache has everything asked for |
| WebSocket emulator (`transport/web-socket-server-emulator.ts`, `emulated-web-socket.ts`) | the patched global constructor, two socket tables | start, stop, sockets opening, closing, sending | the page gets its constructor back; the relay's clients are the open sockets |
| Relay host of the embed (`timeline-embed/src/lib/relay-host.ts`) | the shared host, its reference count, a teardown in progress | acquireRelayHost, release | one relay per page, never torn down under a holder |
| Timeline controller (`timeline-embed/src/lib/timeline-controller.ts`) | the subscription shown, two watches per post, queues of profile and quote lookups, validation timers | start, startPost, showPost, suspend, applyFilter, stop; event, EOSE and CLOSED handlers, timers, cards coming into view | what is shown belongs to the post last named, threads are complete, nothing queued is forgotten, a stopped widget gives its relay back |
| Relay connection of a widget (`lib/relay-connection.ts`) | one rx-nostr client, open subscriptions, a reported status | connect, subscribe, fetch, disconnect; drops and reconnects | open REQs survive a reconnect, a terminal state ends them all |
| Reply trees (`lib/reply-tree.ts`, `event-refs.ts`, `reactions.ts`) | none | parentOf, parseReaction, buildReplyTree | each reply is counted once, under the parent its tags name |
| Follow list (`lib/follow-list.ts`) | none of its own | resolve, judged later by a signature check | a forged list is taken down |
| Storage adapters (`cache-relay/src/storage/dexie*`, `server/src/storage/`) | the table of events, its tag index | the methods of `StorageAdapter` | each write is all or nothing; both adapters mean the same, and answer a filter as NIP-01 asks |
| Node server (`server/src/`, `cache-relay/src/transport/web-socket-server.ts`) | the process, the database connection, sockets, a health endpoint | start, stop, signals, health checks | what was acknowledged is served, across restarts; no live request meets a closed database |
| User interface (`*.svelte`, `content-parts.ts`, `nip19.ts`, ...), demo and tooling | view state | rendering, parsing | not a matter of state; see section 8 |

### Interactions

    page ── new WebSocket(url) ──> WebSocketEmulator ──> MessageHandler ──> EventHandler ──> storage
     │                                   │                   │    ^                            ^
     └── acquireRelayHost ──> RelayHost ─┘  SubscriptionManager   └── ingest ── Coordinator    │
                                                             └── open/close/mark ──┘  │        │
                                          LazyValidator, ExpiryReaper ────────────────┼────────┘
                                                          rx-nostr <── Pool <─────────┘

    cards, pages ──> TimelineController ──> RelayConnection ──> rx-nostr ──> the page's WebSocket
                      queues, watches                                        (the emulated relay)

    signals ──> NostrRelayServer ──> HealthServer, WebSocketServer ──> MessageHandler ──> SqliteStorage

A REQ goes MessageHandler -> storage (await) -> freshness gate (await) ->
coordinator -> pool; events come back pool -> coordinator (chain, await of the
ingest) -> client. An EVENT goes MessageHandler -> EventHandler (several
awaits) -> eviction (await) -> subscribers, coordinator (dedup) and pool.

### What is hard

Awaits in the middle of REQ and EVENT handlers; ingest chains that outlive
their subscription; two sources of one EOSE; relays that vanish mid-REQ; ids
reused within a tick; delete-then-save without a transaction; background passes
over rows other handlers delete; reference counting across asynchronous starts
and stops; reload between two steps of a handler; a page that re-points, pauses
or stops a widget at any await of its start; reads that must not lose an event
to an index, a cap or a cursor; a process that dies between two SQL statements,
or stops while requests are in their handlers. `PROJECT.json` lists each
hazard at its line with the properties that cover it.

## 2. Modules

| Module | Models | Builds on |
|---|---|---|
| `UpstreamPool` | the interface `UpstreamPool`: what a pool promises | |
| `UpstreamRelayPool` | the pool over rx-nostr | refines `UpstreamPool` |
| `UpstreamRelayPool_proofs` | proofs about the pool | |
| `UpstreamCoordinator` | the coordinator, on the abstract pool | `UpstreamPool` |
| `UpstreamCoordinator_proofs` | proofs about the coordinator | |
| `RelayRequests` | REQ, EVENT, CLOSE, disconnect, the in-process API | `UpstreamCoordinator` |
| `RelayRequests_proofs` | proofs about the requests | `UpstreamCoordinator_proofs` |
| `WebSocketEmulator` | the patched constructor and its sockets | |
| `RelayHost` | the shared relay of a page | `WebSocketEmulator` |
| `RelayHost_proofs` | proofs about the host | |
| `EventStore` | the table of cached events and its transactions, kinds, coordinates, eviction | |
| `EventIngest` | everything that writes the cache, await by await | `EventStore` |
| `EventIngest_proofs` | proofs about the cache | |
| `ReplyTree` | which replies a thread keeps and the tree of those | |
| `RelayConnection` | a widget's connection to the relay of its page | |
| `CardLookups` | what the cards ask for: profiles, quotes, verdicts | `RelayConnection` |
| `PostWatches` | the reactions and the thread of one post | `CardLookups`, `ReplyTree` |
| `TimelineController` | booting, re-pointing, suspending, stopping a widget; the two kinds of page | `PostWatches` |
| `TimelineController_proofs` | proofs about the widgets | |
| `Filters` | NIP-01 filters, indexed tags, what a read must answer | |
| `ReadPlans` | how each adapter answers one filter | `Filters` |
| `StorageRows` | what the adapters agree on, row by row | `Filters` |
| `UpstreamNeed` | which filters the cache has answered for good | `StorageRows` |
| `StorageTable` | the abstract storage: every method one step on one table | `StorageRows` |
| `SqliteStorage` | the SQLite adapter, statement by statement | `ReadPlans`, `UpstreamNeed`, refines `StorageTable` |
| `SqliteStorage_proofs` | proofs about the storage and its reads | |
| `NodeServer` | the process around the relay | |
| `NodeServer_proofs` | proofs about the process | |
| `MC*` | finite instances for TLC | |

A definition whose name ends in `_bug` is a plausible defect of the definition
that follows it. No specification uses it; replacing the one by the other must
make a property fail, which is how each property is shown to have teeth.

**UpstreamRelayPool.** One action per method and per callback. rx-nostr is
external: `link` is the connection state it reports, `wire` the EOSE messages
under way (a message carries the subscription id, not the opening it answers,
so late answers of a former use of an id are possible). `gen` and `ticks` are
the identity comparison of the microtask that fires an EOSE nobody will send.

**UpstreamCoordinator.** A SubState outlives its table entry because closures
on the ingest chain keep it, so its fields are functions over all ids ever
handed out. `await deps.ingest` splits an item into IngestStart and IngestDone.
Over-approximation: the ingest may end in any result at any time.

**RelayRequests.** A REQ is a record with a phase per await: reading, read,
narrowing, done. An EVENT has saving, saved, matched, done. Events are regular
ones and the storage a set. `rushed` is a history variable: the
subscriptions a client touched again while it had a REQ in flight; several
properties speak of the others only, because for rushed ones the code's
behaviour is different (section 6).

**WebSocketEmulator, RelayHost.** Hosts are named after the caller that started
them. The synchronous part of acquire (patch, reserve) and of release (close
sockets, restore, publish the teardown) is one action each; the asynchronous
rest of start and stop settles later, or fails.

**EventStore.** One row per event: the rank of its cached_at (of times only the
order matters) and whether its signature was verified. Methods of the Dexie
adapter are state changes, one transaction each; kinds, coordinates, the
version order and the eviction order are operators. An id is a number, because
ties are broken by id. Equal ids have equal content and validity, as the
comment in `saveEvent` says; events whose id does not match their content are
not modelled. The order in which LRU and LFU take unprotected rows is left
open, since reads are not modelled; FIFO is exact.

**EventIngest.** A handler is one event on its way in, with a phase per await:
validate, check, clear, save, ids, addrs, evict. Path "ingest" is
`EventHandler.handleEvent` plus the eviction after it, path "publish" the
in-process `publishEvent`, which knows nothing of kinds. A transaction may fail
(`Fault`): the adapter swallows that, except for `getCurrentVersion`, and the
code goes on, so the models do. `Reload` drops everything but the table.
Three history variables say what a coordinate's newest version is (`head`),
where versions met out of order (`raced`) and how many evictions were lost
(`debt`); the code's promises hold outside of these, and the violation runs
show that they do not hold inside.

**RelayConnection, CardLookups, PostWatches, TimelineController.** One state
machine in four layers; `TimelineController` has the specifications, `FeedSpec`
for a feed with cards and `PostSpec` for a post widget. `subs` are the open
subscriptions, `inbox` the deliveries on their way, `answered` the REQs whose
EOSE came over the present socket; a lost socket empties the last two and the
REQs are sent again. The relay of the page is external here: it holds `stored`
and owes each REQ the events that match, then an EOSE. start() has a phase per
await (acquiring, connecting, connected, resolving), and `named` is what the
page asked for last. History: `named`, `cut` (the thread lost something to
a cap, a CLOSED or the gate of the tree), and in each watch `early` (a level was
opened before those above it had been answered). A lookup that an abort ends settles in the microtasks that follow, within the step. `ReplyTree`
is pure: parents, the gate, levels and the capped tree as recursive functions.

**Filters, ReadPlans, UpstreamNeed.** An index range is the set of rows in it.
Dexie reads one range in full or walks several newest first and stops each
early (`ReadNewest`, `Cursors`); SQLite narrows in SQL, truncates there only if
nothing can be lost, and checks the rest in JS. `RightAnswers` is what NIP-01
asks, and what may be missing because the tag index is capped.

**StorageTable, SqliteStorage.** The abstract storage is the interface as the
Dexie adapter has it, one transaction per method. In SQLite a method is a list
of statements in a transaction or autocommitted; any of them may fail and the
process may die between any two; `disk` is what is committed. The refinement
maps `table` to the committed rows and `index` to the committed event_tags.

**NodeServer.** `stage` and `halt` are the progress of start() and stop(), a
job is one request in its handler, which can outlive its connection, the stop
and the next start. Each client publishes one event, named after it. `acked`
is history: the events whose OK reached a client, less those being replaced.
The port of the health endpoint may be taken; a second signal makes stop() skip
the wait for its requests. Left out: a WebSocket port in use (start() rejects
and index.ts exits), and stop() called while start() or another stop() of the
same program runs.

## 3. Runs

| Run | Instance | Properties |
|---|---|---|
| `Pool` | 2 relays, 2 ids, 2 openings, 3 losses | `EoseHonest`, `NobodyPendingFires`: the EOSE aggregate is honest and fires once; `NobodyWaitsInVain`: relays that leave are not waited for; `LinksTended`: lost relays are tried again, a stopped pool is silent; `ImplementsPromise`: the pool implements `UpstreamPool` |
| `Coordinator` | 2 clients, 2 events, 2 upstream subscriptions, chain of 2, dedup set of 1 | `NothingLeaks`: table 1:1, no timer or upstream subscription without an owner; `EoseOnceAfterBackfill`; `DeliversOnlyNews`: nothing twice and nothing after the end |
| `Requests` | a transport and the in-process client on one subscription id, 2 REQs, 1 EVENT | `NoGap` between stored and live events; `EoseOncePerReq`; `TransportInStep`: local and upstream tables in step; `UpstreamAddsUnpublishedNews` |
| `RequestsLive` | a transport client, 2 ids, a limit of 1, relays that may never answer | `TablesInOrder`: tables agree and the limit holds under overlapping REQs; `EveryReqAnswered` |
| `RelayHost` | 3 widgets, 2 sockets, failing starts and stops | `PageAndRelayAgree`: the constructor is given back, the sockets are the clients; `HoldersServed`: nobody loses a held relay; `CountDecides`: the last release, and only it, tears down; `AcquireSettles` |
| `EventCache` | 4 events of 2 authors (2 versions, 1 deletion request), 2 handlers, 3 arrivals, a limit of 2, modes IMMEDIATELY and LAZY, 1 failure or reload | `NothingUnverified` is marked; `NewestKept` where no race or failure was; `SoftLimit`, by exactly the evictions outstanding; `DestroysWithReason`, requests last; `NoDowngrade`; `PendingDrained` |
| `Posts` | a note and an article, 4 replies to the note in a thread three deep, a reply to the article that arrives late, 1 reaction, 3 levels, caps of 3 replies, 2 ids a level and 2 nodes, 1 lost socket, 1 call of the page | `WatchesOfThePost`: nothing of another post is watched or held; `SubscriptionBudget`; `ThreadComplete`; `TreeAddsUp` |
| `Lookups` | two feeds, one resolved from a follow list, 2 authors and 1 quote on budgets of 1, 1 lost socket, 1 call of the page | `NothingIsForgotten`: queues wait only for full budgets, verdicts always have a timer; `PausedIsQuiet`; `StopReleases` and `AuthorsServed` (liveness) |
| `Storage` | 4 events, 15 filters, 2 calls, a clock of 2 readings that may be set back, tag cap 2, at most 3 author and 2 kind cursors, 2 SQL parameters, chunks of 1, LFU with room for 2, a window of 1 for kind 0, 3 events per REQ | `ImplementsTable`: SQLite implements the abstract storage over failures and crashes; `HonestReads`: both adapters answer every filter rightly, keep the newest version in whatever order rows are met, and spare the upstream relays only what the cache answers |
| `NodeServer` | 2 clients, one with a replaceable event, 3 requests in progress, both storage modes, any number of starts, failures and kills | `AnswersHaveAllAcked`: an answer that reaches its connection holds all that was acknowledged before it was asked |
| `OrphanAfterClose`, `RepointedWhileBooting` | as `Requests`, as `Posts` | the disagreements of section 6 |

The component modules with a `TypeOK` or `CoordTypeOK` check it in their run.

Bounds. Every interesting conflict in these components is between two of
something: two relays in one aggregate, an opening and the next use of its id,
an item being ingested and one queued behind it, a REQ and the REQ, CLOSE or
EVENT that overtakes it, a host tearing down and the next one. Two of each are
therefore present in the runs that depend on it; three widgets, because a
waiter may be overtaken by another new caller. A dedup set of one id with two
events overflows. In `EventCache` a limit of two below four events makes every
eviction choice occur, both handlers may hold versions of one coordinate, and
one mishap is enough to separate any delete from its save; a third arrival lets
an event come again after it was replaced or deleted. In `Posts` the caps are
so small that each is met and the thread is as deep as the levels go, one call lets the page re-point or suspend the
widget at every await of its start, and the validation refresh is switched off
because `Lookups` has it. In `Storage` the caps are below what the filters ask
for, so that each plan and each chunk boundary is taken; the events share a
second and one has more tags than the index takes. Two calls suffice because
every database can be the first. In `NodeServer` three requests let a REQ meet two copies of
one event being replaced. Where a run stops for lack of
numbered requests, ids or calls, or because the system may rest, deadlock
checking is off.

## 4. Fairness

Assumed: queued microtasks run, armed timers fire, storage promises settle one
way or the other (weak fairness of Tick, RecoveryTimer, ChainStep, EoseTimeout,
ReqStep, PubStep, CallerStep, HostStep, and PassStep: the validation timer
starts a pass and the pass goes on). Event loop and IndexedDB/SQLite
guarantee that. In the widgets, the promises start() awaits settle (`Booting`:
acquire settles by `AcquireSettles`, the connect race by its own timeout),
rx-nostr goes on retrying until it reaches the relay or gives up (`Link`), and
the watchdog of a profile lookup fires (`ProfileWatchdog`). Nothing is assumed
of clients, of upstream relays, of the network, or of the pages.

## 5. Proofs

`UpstreamRelayPool_proofs`, for any sets of relays and ids and any bounds. The
inductive invariant `Safe` is the conjunction of the module's invariants with
three facts they lean on: an unpaid EOSE has not been fired (`OwesUnfired`),
without a client no relay has a state (`OffWithoutClient`), and recovery timers
exist only for relays in error (`RecoveryIsForError`). `PendingAreConnected` is
not inductive without the second: connect() resets every link. EOSE honesty
adds `Honest`, which follows the answers in flight of ids that are not reused.
The refinement maps every step to a step of `UpstreamPool` or a stutter
(`StepImplements`).

`RelayHost_proofs`, for any finite set of widgets and any sockets. `IInv` ties
the four views of which relay runs to each other (`HostsAgree`: phase,
`current`, `original`, the global constructor), says where a caller of each
phase may stand (`CallersAgree`), keeps the emulator's tables in line with the
sockets (`SocketsAgree`), and counts (`RefCountIsHonest`). None of the stated
invariants is inductive alone: that a host is stopped only when nobody holds it
needs the count, and that the constructor found by a start is the page's own
needs that nothing else is running.

`EventIngest_proofs`, for any finite set of events, any authors, limit, modes
and bounds. `TypeInv` is inductive; `PhaseInv` says what a handler in each
phase knows (in "save" under `verified`, that the signature is good; in "ids"
and "addrs", that the event is a deletion request whose references are its own
author's). With `PassInv` (a pass calls only genuine rows valid) it makes
`NothingUnverified` inductive. Every step either grows the table by one row
(`Grows`), shrinks it by rows that each have a reason to go (`Shrinks`), or
leaves the rows alone (`Stays`): the lemma `Effects` shows it once, and the
three action properties follow from it by cases.

Two more of the cache. `SoftLimit`: the rows above `storageMaxSize` are counted
by handlers that have saved and not evicted yet (`Owed`) and by the evictions
that failed or were cut off (`debt`); each step moves one row and one debtor.
`NewestKept` needs `NewestInv`: at a coordinate whose versions do not race, at
most one handler is between the check and the save (`Alone`), what it compared
itself with has not been overtaken (`Unbeaten`), before it saves the older
versions are gone (`Cleared`), and they are all to be found by their `d` tag
(`FoundByTag`).

`UpstreamCoordinator_proofs`, for any clients, ids, events and dedup size.
`CoordInv` is the tables of `NothingLeaks` with what an id that was never
handed out looks like (`Unused`), whom an open one belongs to (`Owned`), where
its EOSE can stand and what stands before it (`EosePlace`), and that the dedup
set of a live subscription covers what its client has, up to the one item whose
ingest is in flight (`DedupCovers`). EOSE honesty needs `EosePlace`: the item
being ingested is at the head of the chain, the EOSE behind it.
`CoordStepInv` shows that every operation keeps it whoever calls it.

`RelayRequests_proofs` builds on that: each step of the relay is a step of the
coordinator or leaves it alone, so `CoordInv` comes for free. `ReqInv` adds
what a handler of each phase knows (`Begun`), that each upstream subscription
was opened by a REQ of its own (`Opened`), that a REQ in flight whose client
did not touch the subscription is still the registered one
(`StillRegistered`, for in-process clients too), where the EOSE of a REQ can be (`EosesCounted`), and the
heart of `NoGap`: an event that a registered REQ did not read from the cache is
not stored yet, still to be matched, matched with it, or delivered
(`Covered`). That no event comes twice (`UpstreamAddsUnpublishedNews`) is
proved under the hypothesis that a dedup set holds every event,
`Cardinality(Events) <= MaxSentIds`: without it the code forgets, by design.

`TimelineController_proofs`, for both kinds of page at once: the steps of
`PostNext` and `FeedNext` keep one invariant. Every open subscription has an
owner (`SubsOwned`); the queues repeat nobody, are no longer than their budget
and hold only who asked (`QueuesInOrder`); nothing exists before a widget
starts (`IdleIsBlank`), while it is suspended (`PausedIsEmpty`), or of a post
the page has left (`WatchesNamed`); a thread has one subscription for each
level it opened (`LevelsCounted`). The budget follows by counting owners; that
needs one fact of each page more, `NeverResolves` of a post page (no
follow-list request) and `NeverWatches` of a feed page.

`TimelineTreeAddsUp`, in the same module, is about the tree of a thread, for
any replies, tags, depth and caps. `Placed`, `Descendants`, `Connects` and
`Reached` are recursive functions; each recursion has a solution (`Computes`)
and all are compared with one sequence of levels (`Levels`: the replies that
are d parents below the post), by the least level at which they would differ.
So the total is what is within reach, what is hidden lies below a capped reply,
and the rest connects to nothing (`TreeCounts`, a lemma on the operators
alone). That nothing is loose unless something was lost needs an invariant of
the widget: the replies held are `Rooted`, each non-empty set of them has one
whose parent is outside it. Accepting a reply at the gate keeps that
(`RootedGrows`), dropping the oldest does not, which is what `cut` records. It
also needs that one post is on screen at a time (`OnePost`), the last one named
unless the boot's late subscribe replaced it.

`TimelineThreadComplete`, the last part, is about the subscriptions that bring
a thread, for any number of levels. Its invariant (`ThreadInv`) speaks of a
thread that has lost nothing (`Unlost`). The levels opened ask about exactly
what is `asked` (`LevelsStand`); what is asked about is held, and what is held
is asked about or in front (`AskedIsHeld`); on a socket that is up, what answers
a level is held or on its way (`Owed`); a level that has been answered has
brought what the relay had, but for deliveries already received (`Brought`),
which its timer waits for (`TimerSet`); replies in front have a timer or a level
that will set one (`FrontAwaited`); and unless a level was opened early, all
above the last one was asked about (`DeepEnough`). The second level opens only
after the first was answered once (`TopBrought`), so it always asks about every
direct answer (`TopAsked`): two levels are complete even in a thread that spent
one early, the part of the promise that is left then. The proof goes through the
steps: a delivery passes the gate because its parent is held (`GateOpens`), a
REQ sent again after a reconnect is answered with all it wants (`LevelSends`),
a level opened after all others were answered asks about everything of its depth
(`DeeperStill`), and whatever belongs to the timeline, the reactions or the
cards leaves the levels alone (`Elsewhere`). With nothing on its way, `Owed`
holds the answers to every level, and the least level at which a reply could be
missing gives the rest (`ThreadWhole`). Some facts of the whole widget are
needed too: a widget that does not have its relay yet has no thread open
(`Undialed`), the set a thread starts from is empty (`FreshIsEmpty`), and
nothing is on its way over a socket that is down (`InboxInOrder`).

`SqliteStorage_proofs`, for any finite set of events, any filters, chunk size
and clock. Between calls the connection sees the committed database; within
one it sees that database with the part of the method its remaining statements
do not do, for each shape of method: through a list of ids in chunks
(`ListUnderWay`), the save (`SaveUnderWay`), the eviction in two passes
(`LimitUnderWay`), a single statement (`OneUnderWay`). So what a method that
ends commits is the abstract method, and a failure or a crash in it nothing:
the adapter implements `StorageTable`. `HonestReads` adds that each row has its
time and its indexed tags in the tag table (`DiskKept`) and shows, one lemma per idea, that
a plan loses nothing: the limit taken early keeps enough (`CapOfEnough`,
`ReadNewestKeepsEnough`), the cursors of a plan meet what a scan meets
(`CursorsPartition`, `ScanSelects`), and the fold over the versions ends at the
newest whatever order they are met in (`VersionsKeptRight`). Where a textbook
proof is by induction, it takes the least counterexample instead
(`LeastNumber`, from the well-foundedness of the naturals).

`NodeServer_proofs`, for any clients. Which part of the process works at which
point of its life (`PartsAgree`); a request whose answer can still reach
somebody has an open database behind it (`LiveJobs`), which is where the order
of stop() matters, listener, sockets, storage; what was acknowledged is in the
database, and what a request is owed was acknowledged (`Ledger`).

Liveness itself is out of the prover's reach. Its safety half is not: in no
reachable state does what must happen depend on a step nobody is left to take.
Each such theorem is written beside the liveness property it belongs to, which
then needs only the fairness of timers, storage and sockets:

* `EveryReqAnswered`: the EOSE of an open upstream subscription has gone out,
  is queued on its chain of ingests, or is held with its timeout armed
  (`CoordEoseComes`; the invariant `EoseKept` says where a flushed EOSE went). A
  handled REQ that is registered, on a subscription left alone meanwhile, was
  answered or has such a subscription of its own (`RequestAnswerComes`).
* `NobodyPendingFires`: an aggregate that waits for nobody has its own microtask
  queued (`PoolNobodyWaitsInVain`).
* `AcquireSettles`: what an acquire() awaits is under way or has settled
  (`HostNobodyStuck`): `pendingStop` is always a teardown in progress, and a
  caller waits only for a host that was being torn down (`WaitersAgree`).
* `StopReleases`: a stopped widget has no relay, socket, subscription, queue or
  timer, none comes back, and only the await of start() it was in is left
  (`FeedStopsForGood`, `PostStopsForGood`; `OverWhenStopped` is inductive beside
  `IInv`).
* `AuthorsServed`: who waits for a profile or a quote waits in an awake widget,
  and for a socket that is being opened, behind a budget that is full, or
  behind a loss that the banner shows (`FeedNobodyWaitsUnseen`,
  `PostNobodyWaitsUnseen`). `Tended` adds what `NothingIsForgotten` lacks: an
  error is always shown, and nobody waits on a widget that never dialled.
* `PendingDrained`, and evictions that end: the rows a pass of the lazy
  validator, an eviction or a deletion by address selects are never none
  (`CacheFindsWork`). Priorities and arrival numbers order the table strictly
  (`Orders`, `StampsDiffer`), so that for every size a first part of it exists
  (`FirstOnesExist`): eviction reaches the limit even if all rows are
  protected. A batch is not empty because its size is not zero.

Theorems named after a conjunction (`PoolLinksTended`, `HostPageAndRelayAgree`,
`HostHoldersServed`, `CacheDestroysWithReason`) are put together from one
theorem per part.

Assumptions used: those named in the modules. Bounds are natural numbers, the
constructor names differ, events and widgets are finitely many, ids and times
are numbers, no two replies have one age, None is no event and an address no
id, a batch of the lazy validator holds at least one event (its constructor
replaces any other size by the default, lazy-validator.ts:63-66). An `e` tag is a candidate for a parent only when it holds an event id
(`TagAssumption`, findParent() in event-refs.ts with `isEventId`). What a relay
sends on a subscription matches its filter (`RelayAssumption`), and it answers
the REQ of a level with all it has that matches (`LevelAssumption`): the
widgets' `limit` is not modelled, and a thread with more replies than the limit
is not complete. TLC evaluates the assumptions in every run. Only
model-checked: the liveness properties themselves, since fairness and ENABLED
are outside the prover's reach.

## 6. Findings

Two runs expect a violation; each quotes its text in `PROJECT.json`.

* `OrphanAfterClose`: a REQ that resumes after a CLOSE or a disconnect opens an
  upstream subscription nobody owns, and nothing ever closes it.
* `RepointedWhileBooting`: start() subscribes to the post it was called with
  after its awaits, also when showPost() has re-pointed the widget meanwhile:
  the widget then shows the old post with the watches of the new one.

More are modelled without a run of their own, and the properties say where
they exempt them:

* Two overlapping REQs for one id may open upstream in the wrong order (why
  `TransportInStep` exempts `rushed` subscriptions); `subscribe()` with an id
  in use leaves the old upstream subscription running when the cache alone
  answers the new one; markDelivered has nothing to mark while the REQ still
  reads the cache, so the echo of a broadcast event is delivered again
  (`UpstreamAddsUnpublishedNews`).
* An EVENT that matches an in-process subscription is marked delivered although
  no transport knows that client (`Delivered` against `Targets`).
* Check, delete and save of a replaceable event are three transactions, and
  two versions can stay (`raced`). When the save fails the predecessor is
  gone, and the answer is OK true all the same (`SaveFails`; `NodeServer`
  counts no such OK as acknowledged).
* Under LAZY an event not yet verified deletes the verified version it
  replaces; when it turns out invalid, both are gone.
* openForSubscription() seeds the dedup set with all that the cache sent,
  without the cap markDelivered applies (upstream-coordinator.ts:139-142 against
  318-328 and the comment at :62): with a `maxEventsPerRequest` above
  `maxSentIdsPerSub` it starts above its bound. addSentId() drops one id for
  each it adds, so that it grows no further (`DedupBounded`).
* A deleted event that comes again is stored again (src/doc/TODO.md says so).
* sqlite/query.ts:12-18 calls its rule the same as Dexie's, but Dexie also
  reads the capped tag index when kinds are given. For an event with more than
  the indexed number of tags the adapters may differ; `RightAnswers` admits
  both answers.
* Without a file, an event whose handler saves after stop() has cleared the
  storage is still there at the next start() of the instance.
* In the widgets: a relay's CLOSED sets the banner and a later reconnect clears
  it; suspend() during the connect of start() does not keep start() from
  subscribing, and before the follow list is worked out it leaves the state
  "resolving"; a profile lookup in flight when the socket drops waits for its
  watchdog; a verdict "dropped" that comes after applyFilter() closes the new
  subscription; a reply to an article that comes before the article is
  rejected for good (`cut`), and a new version of an article leaves the
  replies to the old one as orphans.
* After a reconnect all levels of a thread are asked again, and the EOSE of an
  upper one may come while level 2 is still being answered. advanceReplyLevel()
  (timeline-controller.ts:1117-1134) then spends the next level on what is
  there, and what level 2 still brings is never asked about: with three levels,
  the default, replies of the third are lost, although reply-tree.ts:112 calls
  what the gate drops "what no level would have placed anyway".
  `ThreadComplete` promises two levels of such a thread (`early`) and no more;
  a thread of two levels is always whole, which is why the bound is three.

## 7. Plan

All components with state of their own are modelled, every safety property the
runs check is proved, and so is the safety half of each liveness property.
What a later change of the code needs first is its action in the module, then
the invariant that `tlapm` reports as no longer kept.
## 8. Not modelled

* Malformed messages (answered by a NOTICE, no state), signature checks (an
  event has a validity), logging, wording, the reading of the environment.
* rx-nostr, Dexie, node:sqlite, ws and http: external, by how the code uses
  them. A loss of power (against which `synchronous = NORMAL` does not protect
  the last commits), ':memory:' databases, and a second process on one file.
* The widgets' REQ `limit`, request timings and metrics, and what a profile, a
  quote or a follow list contains. rx-nostr sends open REQs again after the
  status has turned to connected; the models do both in one step.
* The storage's getValidationStatus, a read without effect.
* The user interface and the parsing of content, nip19, configuration: pure
  functions of their input, tested as such by the repository.
* `mergeFilters` and `createFilterKey`, which nothing calls.
* Demo site (but for the calls its App.svelte makes of a timeline), benchmark,
  examples, end-to-end tests, build files.
