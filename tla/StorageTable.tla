------------------------------ MODULE StorageTable ------------------------------
(***************************************************************************)
(* The storage adapter as its users see it: the interface of               *)
(* packages/cache-relay/src/storage/storage-adapter.ts as                  *)
(* storage/dexie-storage.ts implements it.  Every method that writes is    *)
(* one IndexedDB transaction, hence one action on one table; a failed one  *)
(* leaves the table alone.  A read writes only the access it tracks, in a  *)
(* transaction of its own, on those of its rows that are still there.      *)
(***************************************************************************)
EXTENDS StorageRows

CONSTANT Clock \* the readings of the clock, which may be set back

VARIABLES
  table, \* [Event -> row or None]
  index, \* [Event -> its indexed_tags]
  now,   \* Date.now()
  done   \* the method that wrote last, and what it was called for
tableVars == <<table, index, now, done>>

(* A database an earlier session left, saved at time 0 and unverified.     *)
TableInit ==
  /\ now = 0 /\ done = <<>>
  /\ \E S \in SUBSET Event :
       /\ table = [e \in Event |-> IF e \in S THEN Fresh(e, FALSE, None, 0) ELSE None]
       /\ index = [e \in Event |-> IF e \in S THEN IndexedTags(e) ELSE {}]

Tick == now' \in Clock \ {now} /\ UNCHANGED <<table, index, done>>

SaveEvent(e, verified) ==
  /\ table' = [table EXCEPT ![e] = Fresh(e, verified, table[e], now)]
  /\ index' = [index EXCEPT ![e] = IndexedTags(e)]

MarkValidated(ids) == table' = Validated(table, ids) /\ UNCHANGED index
TouchCachedAt(ids) == table' = Touched(table, ids, now) /\ UNCHANGED index
TrackAccess(ids) == table' = Accessed(table, ids, now) /\ UNCHANGED index

Delete(ids) ==
  /\ table' = Without(table, ids)
  /\ index' = [e \in Event |-> IF e \in ids THEN {} ELSE index[e]]
DeleteExpired(time) == Delete(Overdue(table, time))
EnforceLimit ==
  LET first == Unprotected(table)
  IN  Delete(first \cup AnyRows(Without(table, first)))

Write ==
  \/ \E e \in Event, verified \in BOOLEAN :
       SaveEvent(e, verified) /\ done' = <<"saveEvent", e, verified>>
  \/ \E ids \in SUBSET Event :
       \/ MarkValidated(ids) /\ done' = <<"markValidated", ids>>
       \/ TouchCachedAt(ids) /\ done' = <<"touchCachedAt", ids>>
       \/ TrackAccess(ids) /\ done' = <<"trackAccess", ids>>
       \/ \E a \in Authors : /\ Delete(OwnAmong(Rows(table), ids, a))
                            /\ done' = <<"deleteEventsByIdsForPubkey", ids, a>>
  \/ \E e \in Event : Delete({e}) /\ done' = <<"deleteEvent", e>>
  \/ Delete(Event) /\ done' = <<"clear">>
  \/ \E time \in Clock :
       DeleteExpired(time) /\ done' = <<"deleteExpired", time>>
  \/ EnforceLimit /\ done' = <<"enforceLimit">>
  \/ \E a \in Authors, k \in Kinds :
       \/ /\ Delete(Coordinate(Rows(table), a, k))
          /\ done' = <<"deleteEventsByPubkeyAndKind", a, k>>
       \/ \E d \in DValues :
            \/ /\ Delete(WithDTag(Rows(table), a, k, d))
               /\ done' = <<"deleteEventsByPubkeyKindAndDTag", a, k, d>>
            \/ \E until \in Times :
                 /\ Delete(AtAddress(Rows(table), a, k, d, until))
                 /\ done' = <<"deleteEventsByAddress", a, k, d, until>>

TableNext == Tick \/ (Write /\ UNCHANGED now)
TableSpec == TableInit /\ [][TableNext]_tableVars
=============================================================================
