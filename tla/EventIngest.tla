------------------------------ MODULE EventIngest ------------------------------
(***************************************************************************)
(* packages/cache-relay/src/event/event-handler.ts (handleEvent),          *)
(* core/message-handler.ts (ingestEvent), core/nostr-cache-relay.ts        *)
(* (publishEvent), event/lazy-validator.ts and storage/expiry-reaper.ts:   *)
(* everything that writes the cache.                                       *)
(*                                                                         *)
(* A handler is one event on its way in.  Each phase ends in an await, so  *)
(* handlers, the background validation and the expiry sweep interleave     *)
(* between any two transactions.  Path "ingest" is handleEvent, used for   *)
(* EVENT messages and for what upstream relays send; path "publish" is     *)
(* the in-process publishEvent, which saves without looking at the kind.   *)
(*                                                                         *)
(* Any storage transaction may fail; the adapter swallows most failures    *)
(* and the code goes on.  A reload drops everything but the table.         *)
(*                                                                         *)
(* The _bug definitions are defects the properties must notice.            *)
(***************************************************************************)
EXTENDS EventStore

CONSTANTS
  Modes,        \* the values of validateEventsType considered
  Handlers,     \* events in flight at a time
  Paths,        \* the entries used, of "ingest" and "publish"
  BatchSize,    \* lazyValidateBatchSize
  MaxArrivals, MaxMishaps, PriorityChoices,  \* bounds
  NoEvent

ASSUME IngestAssumption ==
  /\ IsFiniteSet(Handlers)
  /\ NoEvent \notin Event
  /\ Paths \subseteq {"ingest", "publish"}
  /\ Modes \subseteq {"NONE", "IMMEDIATELY", "LAZY"}
  /\ PriorityChoices \subseteq SUBSET Authors
  /\ BatchSize \in Nat \ {0}

VARIABLES
  mode,       \* validateEventsType
  hs,         \* [Handlers -> handler]
  pass,       \* the background validation in flight
  arrivals, mishaps,   \* events so far; failed transactions and reloads so far
  head,       \* history: [Coordinates -> newest version committed and not removed]
  raced,      \* history: coordinates where versions met out of order
  debt        \* history: saves whose eviction never ran
budgetVars == <<arrivals, mishaps>>
history == <<head, raced, debt>>
vars == <<storeVars, mode, hs, pass, budgetVars, history>>

Idle == [ph |-> "idle", ev |-> NoEvent, path |-> "ingest", verified |-> FALSE,
         todo |-> {}]
NoPass == [on |-> FALSE, todo |-> {}, valid |-> {}]

Init ==
  /\ StoreInit
  /\ mode \in Modes
  /\ hs = [h \in Handlers |-> Idle]
  /\ pass = NoPass
  /\ arrivals = 0 /\ mishaps = 0
  /\ head = [a \in Coordinates |-> NoEvent]
  /\ raced = {}
  /\ debt = 0

Fault == mishaps < MaxMishaps /\ mishaps' = mishaps + 1 /\ UNCHANGED arrivals
NoFault == UNCHANGED budgetVars

-----------------------------------------------------------------------------
(* Where a handler goes next *)
Goto(h, phase) == hs' = [hs EXCEPT ![h].ph = phase]
(* The handler is done: the OK, the broadcast and the write-through follow *)
(* without touching the cache again (see RelayRequests).                   *)
Done(h) == hs' = [hs EXCEPT ![h] = Idle]

MustValidateNow_bug(e, path) == mode = "IMMEDIATELY"
MustValidateNow(e, path) ==
  \/ IsDeletion(e)
  \/ mode = "IMMEDIATELY"
  \/ path = "ingest" /\ mode = "LAZY" /\ IsEphemeral(e)

(* The first storage access of an admitted event; ephemeral events and     *)
(* addressable ones without a d tag are accepted (OK) and not stored.      *)
Replaces(e, path) ==
  path = "ingest" /\ (IsReplaceable(e) \/ (IsAddressable(e) /\ Ev[e].d # MissingTag))
PassesThrough(e, path) == path = "ingest" /\ (IsEphemeral(e) \/ IsAddressable(e))
Admitted(e, path, verified) ==
  LET at(phase) == [Idle EXCEPT !.ph = phase, !.ev = e, !.path = path,
                                !.verified = verified]
  IN  CASE Replaces(e, path) -> at("check")
        [] PassesThrough(e, path) /\ ~Replaces(e, path) -> Idle
        [] OTHER -> at("save")

(* History: the handlers between looking at a coordinate and saving there. *)
Replacing(h, a) ==
  /\ hs[h].ph \in {"check", "clear", "save"}
  /\ Replaces(hs[h].ev, hs[h].path)
  /\ AddressOf(hs[h].ev) = a
RacedBy(h, e, path) ==
  IF Replaces(e, path) /\ \E g \in Handlers \ {h} : Replacing(g, AddressOf(e))
  THEN raced \cup {AddressOf(e)} ELSE raced
Forget(rows) == [a \in Coordinates |-> IF head[a] \in rows THEN NoEvent ELSE head[a]]
Newest(e) ==
  IF e \notin Versioned THEN head
  ELSE [head EXCEPT ![AddressOf(e)] =
          IF @ # NoEvent /\ Supersedes(@, e) THEN @ ELSE e]
RacedAt(e) == IF e \in Versioned THEN raced \cup {AddressOf(e)} ELSE raced

-----------------------------------------------------------------------------
Arrive(h, e, path) ==
  /\ arrivals < MaxArrivals
  /\ hs[h].ph = "idle"
  /\ arrivals' = arrivals + 1
  /\ IF MustValidateNow(e, path)
     THEN /\ hs' = [hs EXCEPT ![h] = [Idle EXCEPT !.ph = "validate", !.ev = e, !.path = path]]
          /\ UNCHANGED raced
     ELSE /\ hs' = [hs EXCEPT ![h] = Admitted(e, path, FALSE)]
          /\ raced' = RacedBy(h, e, path)
  /\ UNCHANGED <<storeVars, mode, pass, mishaps, head, debt>>

Validate(h) ==
  LET e == hs[h].ev IN
  /\ hs[h].ph = "validate"
  /\ IF Ev[e].valid
     THEN /\ hs' = [hs EXCEPT ![h] = Admitted(e, hs[h].path, TRUE)]
          /\ raced' = RacedBy(h, e, hs[h].path)
     ELSE Done(h) /\ UNCHANGED raced   \* OK false
  /\ UNCHANGED <<storeVars, mode, pass, budgetVars, head, debt>>

(* isSuperseded; getCurrentVersion is the one lookup whose failure is not  *)
(* swallowed, since "no version" would let an older event in.              *)
Check_bug(h) ==
  /\ hs[h].ph = "check"
  /\ Goto(h, "clear")
  /\ NoFault
  /\ UNCHANGED <<storeVars, mode, pass, history>>
Check(h) ==
  /\ hs[h].ph = "check"
  /\ \/ /\ IsSuperseded(hs[h].ev) /\ Done(h) /\ NoFault   \* OK true, "duplicate:"
     \/ /\ ~IsSuperseded(hs[h].ev) /\ Goto(h, "clear") /\ NoFault
     \/ /\ Fault /\ Done(h)   \* OK false
  /\ UNCHANGED <<storeVars, mode, pass, history>>

(* A failed delete is swallowed and the event saved all the same.          *)
Clear(h) ==
  /\ hs[h].ph = "clear"
  /\ Goto(h, "save")
  /\ \/ /\ Remove(OldVersions(hs[h].ev)) /\ NoFault
        /\ UNCHANGED raced
     \/ /\ Fault /\ UNCHANGED storeVars
        /\ raced' = RacedAt(hs[h].ev)
  /\ UNCHANGED <<mode, pass, head, debt>>

(* What follows a save: the references of a deletion request, then the     *)
(* eviction.  Only parsed references count.                                *)
AfterSave(e) ==
  IF IsDeletion(e) /\ Ev[e].refs # {} THEN "ids"
  ELSE IF IsDeletion(e) /\ RequestedAddresses(e) # {} THEN "addrs" ELSE "evict"

Saved(h) ==
  LET e == hs[h].ev IN
  /\ Put(e, hs[h].verified)
  /\ hs' = [hs EXCEPT ![h] = [Idle EXCEPT
       !.ph = AfterSave(e), !.ev = e,
       !.todo = IF IsDeletion(e) THEN RequestedAddresses(e) ELSE {}]]
  /\ head' = Newest(e)
  /\ raced' = IF hs[h].path = "publish" THEN RacedAt(e) ELSE raced
  /\ NoFault

(* OK false, except for a replaceable or addressable event: OK true, and   *)
(* the versions it was to replace are gone.                                *)
SaveFails(h) ==
  /\ Fault
  /\ Done(h)
  /\ raced' = RacedAt(hs[h].ev)
  /\ UNCHANGED <<storeVars, head>>

Save(h) ==
  /\ hs[h].ph = "save"
  /\ Saved(h) \/ SaveFails(h)
  /\ UNCHANGED <<mode, pass, debt>>

(* applyDeletionRequest: failures are swallowed.                           *)
Deletes(rows) ==
  \/ Remove(rows) /\ NoFault /\ head' = Forget(rows)
  \/ Fault /\ UNCHANGED <<storeVars, head>>

DeleteIds(h) ==
  /\ hs[h].ph = "ids"
  /\ Deletes(ByIds(hs[h].ev))
  /\ Goto(h, IF hs[h].todo = {} THEN "evict" ELSE "addrs")
  /\ UNCHANGED <<mode, pass, raced, debt>>

DeleteAddress(h, a) ==
  /\ hs[h].ph = "addrs"
  /\ a \in hs[h].todo
  /\ Deletes(ByAddress(hs[h].ev, a))
  /\ hs' = [hs EXCEPT ![h].todo = @ \ {a},
                      ![h].ph = IF hs[h].todo = {a} THEN "evict" ELSE "addrs"]
  /\ UNCHANGED <<mode, pass, raced, debt>>

EnforceLimit_bug(h) ==
  /\ hs[h].ph = "evict"
  /\ Done(h)
  /\ UNCHANGED <<storeVars, budgetVars, mode, pass, history>>
EnforceLimit(h) ==
  /\ hs[h].ph = "evict"
  /\ Done(h)
  /\ \/ /\ \E V \in Victims : Remove(V) /\ head' = Forget(V)
        /\ NoFault /\ debt' = 0
     \/ /\ Fault /\ debt' = debt + 1
        /\ UNCHANGED <<storeVars, head>>
  /\ UNCHANGED <<mode, pass, raced>>

-----------------------------------------------------------------------------
(* The background validation: one pass at a time, a batch per pass.        *)
PassBegin ==
  /\ mode = "LAZY" /\ ~pass.on /\ Pending # {}
  /\ \E B \in OldestPending(BatchSize) : pass' = [NoPass EXCEPT !.on = TRUE, !.todo = B]
  /\ UNCHANGED <<storeVars, mode, hs, budgetVars, history>>

PassJudge(e) ==
  /\ pass.on /\ e \in pass.todo
  /\ \/ /\ Ev[e].valid
        /\ pass' = [pass EXCEPT !.todo = @ \ {e}, !.valid = @ \cup {e}]
        /\ NoFault /\ UNCHANGED <<storeVars, head>>
     \/ /\ ~Ev[e].valid
        /\ pass' = [pass EXCEPT !.todo = @ \ {e}]
        /\ Deletes({e})
  /\ UNCHANGED <<mode, hs, raced, debt>>

PassEnd_bug ==
  /\ pass.on /\ pass.todo = {}
  /\ pass' = NoPass
  /\ UNCHANGED <<storeVars, mode, hs, budgetVars, history>>
PassEnd ==
  /\ pass.on /\ pass.todo = {}
  /\ pass' = NoPass
  /\ \/ Mark(pass.valid) /\ NoFault
     \/ pass.valid # {} /\ Fault /\ UNCHANGED storeVars
  /\ UNCHANGED <<mode, hs, history>>

(* The expiry sweep: one range delete.                                     *)
Sweep(time) ==
  /\ Expired(time) # {}
  /\ Remove(Expired(time))
  /\ head' = Forget(Expired(time))
  /\ UNCHANGED <<mode, hs, pass, budgetVars, raced, debt>>

(* FreshnessGate.markRevalidated, fire and forget.                         *)
Revalidated(e) ==
  /\ IsReplaceable(e)
  /\ Restamp(e)
  /\ UNCHANGED <<mode, hs, pass, budgetVars, history>>

SetCachePriority(authors) ==
  /\ priority # authors
  /\ SetPriority(authors)
  /\ UNCHANGED <<mode, hs, pass, budgetVars, history>>

(* A reload or crash: the table survives, nothing else does.               *)
SavedNotEvicted == {h \in Handlers : hs[h].ph \in {"ids", "addrs", "evict"}}
Reload ==
  /\ Fault
  /\ hs' = [h \in Handlers |-> Idle]
  /\ pass' = NoPass
  /\ raced' = raced \cup {a \in Coordinates : \E h \in Handlers : Replacing(h, a)}
  /\ debt' = debt + Cardinality(SavedNotEvicted)
  /\ UNCHANGED <<storeVars, mode, head>>

HandlerStep(h) ==
  \/ Validate(h) \/ Check(h) \/ Clear(h) \/ Save(h)
  \/ DeleteIds(h) \/ (\E a \in hs[h].todo : DeleteAddress(h, a))
  \/ EnforceLimit(h)
PassStep == PassBegin \/ (\E e \in pass.todo : PassJudge(e)) \/ PassEnd
Next ==
  \/ \E h \in Handlers, e \in Event, path \in Paths : Arrive(h, e, path)
  \/ \E h \in Handlers : HandlerStep(h)
  \/ PassStep
  \/ \E time \in 1 .. Cardinality(Event) + 1 : Sweep(time)
  \/ \E e \in Event : Revalidated(e)
  \/ \E authors \in PriorityChoices : SetCachePriority(authors)
  \/ Reload

Spec == Init /\ [][Next]_vars
(* The validation timer fires and the pass goes on; nothing is assumed of  *)
(* the handlers.                                                           *)
Fairness == WF_vars(PassStep)
FairSpec == Spec /\ Fairness

-----------------------------------------------------------------------------
Phases == {"idle", "validate", "check", "clear", "save", "ids", "addrs", "evict"}
HandlerState ==
  [ph : Phases, ev : Event \cup {NoEvent}, path : {"ingest", "publish"},
   verified : BOOLEAN, todo : SUBSET Address]

(* Types: rows and marks belong to known events, no mark without a row.    *)
TypeOK ==
  /\ cachedAt \in [Event -> Nat]
  /\ validated \subseteq Stored
  /\ priority \subseteq Authors
  /\ mode \in Modes
  /\ hs \in [Handlers -> HandlerState]
  /\ \A h \in Handlers : hs[h].ph \notin {"idle"} => hs[h].ev \in Event
  /\ pass \in [on : BOOLEAN, todo : SUBSET Event, valid : SUBSET Event]
  /\ arrivals \in Nat /\ mishaps \in Nat
  /\ head \in [Coordinates -> Event \cup {NoEvent}]
  /\ raced \subseteq Coordinates /\ debt \in Nat

(* A row is marked validated only if its signature is good, whichever of   *)
(* the immediate check, the background pass or a re-save marked it; under  *)
(* IMMEDIATELY no unverified row exists, and in no mode is there an        *)
(* unverified deletion request (event-handler.ts, mustValidateNow).        *)
NothingUnverified ==
  /\ validated \subseteq Genuine
  /\ mode = "IMMEDIATELY" => Pending = {}
  /\ \A e \in Stored : IsDeletion(e) => e \in validated

(* NIP-01: at a coordinate where no two versions were in flight at once,   *)
(* nothing failed and publishEvent was not used, the cache holds exactly   *)
(* the newest version committed, also while the next one is being swapped  *)
(* in, when it may briefly hold none (event-handler.ts, isSuperseded).     *)
NewestKept ==
  \A a \in Coordinates \ raced :
    \/ VersionsAt(a) = {head[a]} \cap Event
    \/ /\ VersionsAt(a) = {}
       /\ \E h \in Handlers : Replacing(h, a) /\ hs[h].ph = "save"

(* storageMaxSize is exceeded by no more than the saves whose own eviction *)
(* is still to come, or was lost to a failure or a reload                  *)
(* (message-handler.ts, ingestEvent; eviction.ts, "soft limit").           *)
SoftLimit == Cardinality(Stored) <= MaxSize + Cardinality(SavedNotEvicted) + debt

Moved(h, phases) == hs[h].ph \in phases /\ hs'[h] # hs[h]
(* Why a row may vanish: its author replaced or deleted it (never a        *)
(* deletion request), the limit, the background pass found it invalid, or  *)
(* it expired unprotected.                                                 *)
MayVanish(e) ==
  \/ \E h \in Handlers : /\ Moved(h, {"clear", "ids", "addrs"})
                         /\ Ev[hs[h].ev].author = Ev[e].author
                         /\ ~IsDeletion(e)
  \/ \E h \in Handlers : Moved(h, {"evict"})
  \/ pass' # pass /\ ~Ev[e].valid
  \/ hs' = hs /\ pass' = pass /\ ~Protected(e)
DestroysOnlyItsOwn == [][\A e \in Event : (e \in Stored /\ cachedAt'[e] = 0) => MayVanish(e)]_vars

(* A deletion request leaves the cache only when nothing unprotected is    *)
(* left to take (priority.ts, ALWAYS_RETAINED_KINDS).                      *)
RequestsGoLast ==
  [][(\E e \in Stored : IsDeletion(e) /\ cachedAt'[e] = 0)
        => \A e \in Event : cachedAt'[e] > 0 => Protected(e)]_vars

(* Nothing leaves the cache without a reason, and requests to delete leave *)
(* last.                                                                   *)
DestroysWithReason == DestroysOnlyItsOwn /\ RequestsGoLast

(* Saving a known event again never turns its mark back, so neither an     *)
(* echo nor a re-publication queues it for another verification            *)
(* (dexie-storage.ts, saveEvent).                                          *)
NoDowngrade == [][\A e \in validated : cachedAt'[e] > 0 => e \in validated']_vars

(* Under LAZY every pending row is judged in the end, over failed          *)
(* transactions and a reload (lazy-validator.ts: storage is the queue).    *)
PendingDrained == []((mode = "LAZY" /\ Pending # {}) => <>(Pending = {}))

=============================================================================
