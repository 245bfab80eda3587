------------------------------- MODULE EventStore -------------------------------
(***************************************************************************)
(* packages/cache-relay/src/storage/dexie-storage.ts, storage/dexie/       *)
(* eviction.ts, storage/priority.ts and the pure predicates of             *)
(* event/event-kind.ts, event/replaceable.ts, event/deletion.ts.           *)
(*                                                                         *)
(* The cache is one table.  A row is an event with the time it was written *)
(* (cached_at) and whether its signature was verified (validated).  Every  *)
(* method is one IndexedDB transaction, hence one step: the actions below  *)
(* are the transactions' effects, and EventIngest decides when they run.   *)
(*                                                                         *)
(* An event is its id, a number; Ev gives its content.  Equal ids have     *)
(* equal content, a valid signature included.  Of cached_at only the order *)
(* matters: it is kept as the rank of the row, the oldest being 1.          *)
(***************************************************************************)
EXTENDS Naturals, FiniteSets

CONSTANTS
  Ev,         \* [id -> [kind, author, at, d, refs, addrs, valid]]
  Authors,    \* the authors of the events
  MissingTag, \* the d of an event without a d tag
  MaxSize,    \* storageMaxSize
  Strategy    \* "FIFO", "LRU" or "LFU"

Event == DOMAIN Ev
DTags == {Ev[e].d : e \in Event} \cup {"", MissingTag}
Address == [kind : Nat, author : Authors, d : DTags]

ASSUME EvAssumption ==
  /\ IsFiniteSet(Event) /\ Event \subseteq Nat
  /\ \A e \in Event :
       /\ Ev[e].kind \in Nat /\ Ev[e].author \in Authors /\ Ev[e].at \in Nat
       /\ Ev[e].refs \subseteq Event /\ Ev[e].addrs \subseteq Address
       /\ Ev[e].valid \in BOOLEAN
  /\ MaxSize \in Nat \ {0}

VARIABLES
  cachedAt,   \* [Event -> rank of the row's cached_at, 0 if no row]
  validated,  \* the rows whose signature was verified
  priority    \* authors configured as cache priority
storeVars == <<cachedAt, validated, priority>>

StoreInit ==
  /\ cachedAt = [e \in Event |-> 0]
  /\ validated = {}
  /\ priority = {}

Stored == {e \in Event : cachedAt[e] > 0}
Pending == Stored \ validated
Genuine == {e \in Event : Ev[e].valid}

-----------------------------------------------------------------------------
(* Kinds *)
ReplaceableKind(k) == k \in {0, 3} \/ k \in 10000 .. 19999
AddressableKind(k) == k \in 30000 .. 39999
CoordinateKind(k) == ReplaceableKind(k) \/ AddressableKind(k)
IsReplaceable(e) == ReplaceableKind(Ev[e].kind)
IsAddressable(e) == AddressableKind(Ev[e].kind)
IsEphemeral(e) == Ev[e].kind \in 20000 .. 29999
IsDeletion(e) == Ev[e].kind = 5
HasVersions(e) == CoordinateKind(Ev[e].kind)

(* Coordinates and versions *)
Identifier(e) ==
  IF IsAddressable(e) /\ Ev[e].d # MissingTag THEN Ev[e].d ELSE ""
AddressOf(e) == [kind |-> Ev[e].kind, author |-> Ev[e].author, d |-> Identifier(e)]
Versioned == {e \in Event : HasVersions(e)}
Coordinates == {AddressOf(e) : e \in Versioned}
Supersedes(stored, incoming) ==
  /\ stored # incoming
  /\ \/ Ev[stored].at > Ev[incoming].at
     \/ Ev[stored].at = Ev[incoming].at /\ stored < incoming
(* Below a replaceable kind any identifier names the one coordinate.       *)
Matches(e, a) ==
  /\ Ev[e].kind = a.kind /\ Ev[e].author = a.author
  /\ IsAddressable(e) => Identifier(e) = a.d
VersionsAt(a) == {e \in Stored \cap Versioned : Matches(e, a)}
IsCurrent(v, a) ==
  v \in VersionsAt(a) /\ \A w \in VersionsAt(a) : ~Supersedes(w, v)
IsSuperseded(e) ==
  \E v \in Event : IsCurrent(v, AddressOf(e)) /\ Supersedes(v, e)

-----------------------------------------------------------------------------
(* The rows each deletion selects.  A row without a d tag is not found by  *)
(* its d tag, although it counts as a version of the empty identifier.     *)
ByPubkeyAndKind(e) ==
  {r \in Stored : Ev[r].author = Ev[e].author /\ Ev[r].kind = Ev[e].kind}
ByDTag(e) == {r \in ByPubkeyAndKind(e) : Ev[r].d = Ev[e].d}
OldVersions(e) == IF IsReplaceable(e) THEN ByPubkeyAndKind(e) ELSE ByDTag(e)

(* deleteEventsByIdsForPubkey and deleteEventsByAddress for request d.     *)
ByIds_bug(d) == {r \in Stored : r \in Ev[d].refs /\ ~IsDeletion(r)}
ByIds(d) ==
  {r \in Stored : r \in Ev[d].refs /\ Ev[r].author = Ev[d].author /\ ~IsDeletion(r)}
ByAddress(d, a) == {r \in VersionsAt(a) : Ev[r].at <= Ev[d].at}
RequestedAddresses(d) ==
  {a \in Ev[d].addrs : a.author = Ev[d].author /\ CoordinateKind(a.kind)}

(* Rows eviction takes last and the expiry sweep never takes.              *)
Protected(e) == IsDeletion(e) \/ Ev[e].author \in priority
Older(v, k) == Ev[v].at < Ev[k].at \/ (Ev[v].at = Ev[k].at /\ v < k)

(* enforceLimit: the excess, unprotected rows first.  FIFO takes the       *)
(* oldest events; the access order of LRU and LFU is left open.            *)
MayEvict(v, k) ==
  /\ Protected(v) => Protected(k)
  /\ Strategy = "FIFO" /\ Protected(v) = Protected(k) => Older(v, k)
Excess == IF Cardinality(Stored) > MaxSize THEN Cardinality(Stored) - MaxSize ELSE 0
Victims ==
  {V \in SUBSET Stored : /\ Cardinality(V) = Excess
                         /\ \A v \in V, k \in Stored \ V : MayEvict(v, k)}

Expired(time) == {e \in Stored : cachedAt[e] < time /\ ~Protected(e)}

(* getUnvalidatedEvents: up to n of the oldest pending rows.               *)
OldestPending(n) ==
  {B \in SUBSET Pending :
     /\ Cardinality(B) <= n
     /\ Cardinality(B) < n => B = Pending
     /\ \A b \in B, p \in Pending \ B : cachedAt[b] < cachedAt[p]}

-----------------------------------------------------------------------------
(* Transactions *)
StillValidated_bug(e, verified) == IF verified THEN validated \cup {e} ELSE validated \ {e}
StillValidated(e, verified) == IF verified THEN validated \cup {e} ELSE validated

Rank(rows, e) == Cardinality({k \in rows : cachedAt[k] <= cachedAt[e]})
Ranked(rows) == [e \in Event |-> IF e \in rows THEN Rank(rows, e) ELSE 0]
Stamp(e) ==
  LET others == Stored \ {e}
  IN  cachedAt' = [Ranked(others) EXCEPT ![e] = Cardinality(others) + 1]

Put(e, verified) ==
  /\ Stamp(e)
  /\ validated' = StillValidated(e, verified)
  /\ UNCHANGED priority

Remove(rows) ==
  /\ cachedAt' = Ranked(Stored \ rows)
  /\ validated' = validated \ rows
  /\ UNCHANGED priority

Mark_bug(rows) ==
  /\ validated' = validated \cup rows
  /\ UNCHANGED <<cachedAt, priority>>
Mark(rows) ==
  /\ validated' = validated \cup (rows \cap Stored)
  /\ UNCHANGED <<cachedAt, priority>>

(* touchCachedAt, for a replaceable event an upstream relay confirmed.     *)
Restamp(e) ==
  /\ e \in Stored
  /\ Stamp(e)
  /\ UNCHANGED <<validated, priority>>

(* setCachePriority: takes effect from the next eviction or sweep.         *)
SetPriority(authors) ==
  /\ priority' = authors
  /\ UNCHANGED <<cachedAt, validated>>
=============================================================================
