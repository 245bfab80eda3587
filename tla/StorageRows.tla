------------------------------ MODULE StorageRows ------------------------------
(***************************************************************************)
(* What the two storage adapters agree on, row by row: which rows a        *)
(* deletion selects, which rows are evicted first, what a saved row says.  *)
(* packages/cache-relay/src/storage/dexie-storage.ts, dexie/eviction.ts    *)
(* and dexie/schema.ts; sqlite-storage.ts follows them.                    *)
(*                                                                         *)
(* A row keeps what the cache knows of an event besides its content:       *)
(* cached_at, last_accessed_at, access_count and validated.  R maps every  *)
(* event to its row or None.                                               *)
(***************************************************************************)
EXTENDS Filters

CONSTANTS
  MaxSize,  \* storageMaxSize
  Strategy  \* "FIFO", "LRU" or "LFU"

Authors == {Ev[e].author : e \in Event}
Kinds == {Ev[e].kind : e \in Event}
Times == {Ev[e].at : e \in Event}
DValues == {FirstD(e) : e \in Event} \cup {""}

Rows(R) == {e \in Event : R[e] # None}
Fresh(e, verified, old, time) ==
  [cached |-> time, accessed |-> time, count |-> 1,
   validated |-> verified \/ (old # None /\ old.validated)]

Update(R, ids, F(_)) == [e \in Event |-> IF e \in ids /\ R[e] # None THEN F(R[e]) ELSE R[e]]
Without(R, ids) == [e \in Event |-> IF e \in ids THEN None ELSE R[e]]
Validated(R, ids) == Update(R, ids, LAMBDA r : [r EXCEPT !.validated = TRUE])
Touched(R, ids, time) == Update(R, ids, LAMBDA r : [r EXCEPT !.cached = time])
Accessed(R, ids, time) ==
  Update(R, ids, LAMBDA r : [r EXCEPT !.accessed = time, !.count = r.count + 1])

-----------------------------------------------------------------------------
(* The rows each deletion selects.  By its d tag a row without one is not  *)
(* found, although its address has the empty identifier.                   *)
Coordinate(rows, author, kind) == {e \in rows : Ev[e].author = author /\ Ev[e].kind = kind}
WithDTag(rows, author, kind, d) == {e \in Coordinate(rows, author, kind) : FirstD(e) = d}
OwnAmong(rows, ids, author) ==
  {e \in rows \cap ids : Ev[e].author = author /\ ~IsDeletion(e)}
AtCoordinate(rows, author, kind, d) ==
  {e \in Coordinate(rows, author, kind) : HasIdentifier(e, d)}
AtAddress(rows, author, kind, d, until) ==
  {e \in AtCoordinate(rows, author, kind, d) :
     (ReplaceableKind(kind) \/ AddressableKind(kind)) /\ Ev[e].at <= until}
Overdue(R, time) == {e \in Rows(R) : R[e].cached < time /\ ~Retained(e)}

(* What the adapters report of the rows without counting it as an access:  *)
(* when they were cached, those a background validation judges next (the   *)
(* n longest cached), and, rows being met in some order, the version of a  *)
(* coordinate to keep.                                                     *)
CachedAt(R, ids) == [e \in ids \cap Rows(R) |-> R[e].cached]
Unvalidated(R, n) ==
  LET pending == {e \in Rows(R) : ~R[e].validated}
      earlier(a, b) == R[a].cached < R[b].cached \/ (R[a].cached = R[b].cached /\ a < b)
  IN  {e \in pending : Cardinality({x \in pending : earlier(x, e)}) < n}
Supersedes(stored, incoming) ==
  \/ Ev[stored].at > Ev[incoming].at
  \/ Ev[stored].at = Ev[incoming].at /\ stored < incoming
CurrentVersion(met) ==
  FoldLeft(LAMBDA current, e : IF current # None /\ Supersedes(current, e) THEN current ELSE e,
           None, met)

(* Eviction: the order of the strategy's index, then of the ids; the rows  *)
(* to retain only when all others are gone.                                *)
Before(a, b) == a[1] < b[1] \/ (a[1] = b[1] /\ (a[2] < b[2] \/ (a[2] = b[2] /\ a[3] < b[3])))
Rank(e, row) ==
  CASE Strategy = "FIFO" -> <<Ev[e].at, e, e>>
    [] Strategy = "LRU"  -> <<row.accessed, e, e>>
    [] Strategy = "LFU"  -> <<row.count, row.accessed, e>>
FirstOut(S, R, n) ==
  {e \in S : Cardinality({x \in S : Before(Rank(x, R[x]), Rank(e, R[e]))}) < n}
Excess(R) ==
  IF Cardinality(Rows(R)) > MaxSize THEN Cardinality(Rows(R)) - MaxSize ELSE 0
Unprotected(R) == FirstOut({e \in Rows(R) : ~Retained(e)}, R, Excess(R))
AnyRows(R) == FirstOut(Rows(R), R, Excess(R))
=============================================================================
