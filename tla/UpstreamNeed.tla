----------------------------- MODULE UpstreamNeed -----------------------------
(***************************************************************************)
(* packages/cache-relay/src/upstream/id-coverage.ts and                    *)
(* upstream/freshness.ts: which filters of a REQ the cache has answered so *)
(* completely that the upstream relays need not be asked.  Whatever cannot *)
(* be shown is asked for.                                                  *)
(***************************************************************************)
EXTENDS StorageRows

CONSTANTS
  Window,    \* FreshnessWindows: [replaceable kinds -> time a copy counts as fresh]
  MaxEvents  \* maxEventsPerRequest

ASSUME WindowAssumption ==
  \A k \in DOMAIN Window : ReplaceableKind(k) /\ Window[k] \in Nat \ {0}

(* What a REQ sends from the cache: the newest of its filters' answers.    *)
Sent(answers) == CapEvents(UNION answers, MaxEvents)

(* An id is the hash of the content: who has every id has everything.      *)
IsIdCovered(f, sent) == f.ids # None /\ ToSet(f.ids) \subseteq sent

(* A copy from the future, a clock set back, is not fresh.                 *)
WithinWindow_bug(kind, cached, time) ==
  kind \in DOMAIN Window /\ (cached > time \/ time - cached <= Window[kind])
WithinWindow(kind, cached, time) ==
  kind \in DOMAIN Window /\ cached <= time /\ time - cached <= Window[kind]

(* Only a filter whose events can be listed beforehand, one for each kind  *)
(* and author, can be answered by the copies of one's own.                 *)
IsFreshnessEligible(f) ==
  /\ f.ids = None /\ f.since = None /\ f.until = None /\ f.tags = {}
  /\ f.authors \notin {None, <<>>} /\ f.kinds \notin {None, <<>>}
  /\ \A k \in ToSet(f.kinds) : ReplaceableKind(k) /\ k \in DOMAIN Window
FreshCoordinates(sent, R, time) ==
  LET cachedAt == CachedAt(R, sent)
  IN  {<<Ev[e].kind, Ev[e].author>> :
         e \in {x \in DOMAIN cachedAt : WithinWindow(Ev[x].kind, cachedAt[x], time)}}
AllFresh(f, sent, R, time) ==
  /\ IsFreshnessEligible(f)
  /\ ToSet(f.kinds) \X ToSet(f.authors) \subseteq FreshCoordinates(sent, R, time)

FiltersForUpstream(F, sent, R, time) ==
  {f \in F : ~IsIdCovered(f, sent) /\ ~AllFresh(f, sent, R, time)}
=============================================================================
