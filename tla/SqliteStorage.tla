----------------------------- MODULE SqliteStorage -----------------------------
(***************************************************************************)
(* packages/server/src/storage/sqlite-storage.ts and sqlite/schema.ts: the *)
(* storage adapter of the Node server.  It has to mirror the semantics of  *)
(* DexieStorage (sqlite-storage.ts:89), which StorageTable states.         *)
(*                                                                         *)
(* The database has two tables, events and event_tags; disk is what is     *)
(* committed, work what the connection sees.  A method runs its statements *)
(* one after the other without an await, so that two methods never         *)
(* interleave; but any statement may fail, and the process may die between *)
(* any two.  A deleted event takes its tags along (ON DELETE CASCADE with  *)
(* foreign_keys on).                                                       *)
(*                                                                         *)
(* Left out: a loss of power, against which synchronous = NORMAL does not  *)
(* protect the last commits, ':memory:' databases and a second process.    *)
(***************************************************************************)
EXTENDS ReadPlans, UpstreamNeed

CONSTANTS
  Clock,       \* the readings of the clock, which may be set back
  IdChunkSize, \* ID_CHUNK_SIZE
  Reads,       \* the filters clients ask for
  IdLists,     \* the sets of ids a method is called with
  MaxCalls     \* bound on the calls of a behaviour

VARIABLES
  disk,  \* [rows : [Event -> row or None], tags : [Event -> its rows of event_tags]]
  work,  \* the same, with the statements of the transaction in progress
  todo,  \* the statements the call in progress still has to run
  call,  \* None, or the call in progress: [method, atomic], a transaction or not
  done,  \* the last method that was carried out, and what it was called for
  open,  \* the connection is open
  now,   \* Date.now() when the call began
  calls  \* calls made so far
vars == <<disk, work, todo, call, done, open, now, calls>>

ASSUME SqliteAssumption ==
  /\ Clock \subseteq Int /\ IdChunkSize \in Nat \ {0}
  /\ Reads \subseteq Filter /\ IdLists \subseteq SUBSET Event

Init ==
  /\ \E S \in SUBSET Event : disk =
       [rows |-> [e \in Event |-> IF e \in S THEN Fresh(e, FALSE, None, 0) ELSE None],
        tags |-> [e \in Event |-> IF e \in S THEN IndexedTags(e) ELSE {}]]
  /\ work = disk /\ todo = <<>> /\ call = None /\ done = <<>> /\ open = TRUE
  /\ now = 0 /\ calls = 0

-----------------------------------------------------------------------------
(* Statements *)
Statement(do, ids) == [do |-> do, ids |-> ids]
Erased(db, ids) ==
  [rows |-> Without(db.rows, ids),
   tags |-> [e \in Event |-> IF e \in ids THEN {} ELSE db.tags[e]]]
Saved(db, ids, verified) ==
  [db EXCEPT !.rows = [e \in Event |->
     IF e \in ids THEN Fresh(e, verified, db.rows[e], now) ELSE db.rows[e]]]
Tagged(db, ids, F(_)) ==
  [db EXCEPT !.tags = [e \in Event |-> IF e \in ids THEN F(e) ELSE db.tags[e]]]

Effect(s, db) ==
  CASE s.do = "save"          -> Saved(db, s.ids, FALSE)
    [] s.do = "save verified" -> Saved(db, s.ids, TRUE)
    [] s.do = "untag"         -> Tagged(db, s.ids, LAMBDA e : {})
    [] s.do = "tag"           -> Tagged(db, s.ids, LAMBDA e : db.tags[e] \cup IndexedTags(e))
    [] s.do = "validate"      -> [db EXCEPT !.rows = Validated(db.rows, s.ids)]
    [] s.do = "touch"         -> [db EXCEPT !.rows = Touched(db.rows, s.ids, now)]
    [] s.do = "track"         -> [db EXCEPT !.rows = Accessed(db.rows, s.ids, now)]
    [] s.do = "delete"        -> Erased(db, s.ids)
    [] s.do = "evict"         -> Erased(db, Unprotected(db.rows))
    [] s.do = "evict any"     -> Erased(db, AnyRows(db.rows))

(* chunk: one statement per IdChunkSize ids, in the order of the ids.      *)
Chunks(do, ids) ==
  LET place(e) == Cardinality({x \in ids : x < e})
      size == (Cardinality(ids) + IdChunkSize - 1) \div IdChunkSize
      part(i) == {e \in ids : place(e) \div IdChunkSize = i - 1}
  IN  [i \in 1 .. size |-> Statement(do, part(i))]

-----------------------------------------------------------------------------
(* A call and how it ends.  A method called while the database is closed   *)
(* fails at its first statement and changes nothing.                       *)
Begin(method, statements, atomic) ==
  /\ open /\ call = None /\ calls < MaxCalls
  /\ statements # <<>>
  /\ call' = [method |-> method, atomic |-> atomic]
  /\ todo' = statements /\ calls' = calls + 1
  /\ UNCHANGED <<disk, work, done, open, now>>
InTransaction_bug(method, statements) == Begin(method, statements, FALSE)
InTransaction(method, statements) == Begin(method, statements, TRUE)
Autocommit(method, statement) == Begin(method, <<statement>>, FALSE)

Finish(atomic) ==
  /\ call # None /\ call.atomic = atomic
  /\ disk' = work' /\ done' = call.method /\ call' = None
RunStatement ==
  /\ call # None /\ todo # <<>>
  /\ work' = Effect(Head(todo), work)
  /\ todo' = Tail(todo)
  /\ \/ call.atomic /\ UNCHANGED <<disk, done, call>>
     \/ ~call.atomic /\ Len(todo) = 1 /\ Finish(FALSE)
     \/ ~call.atomic /\ Len(todo) > 1 /\ disk' = work' /\ UNCHANGED <<done, call>>
  /\ UNCHANGED <<open, now, calls>>
Commit ==
  /\ todo = <<>> /\ UNCHANGED <<work, todo, open, now, calls>>
  /\ Finish(TRUE)

(* A statement or the COMMIT throws: ROLLBACK, and the method returns its  *)
(* fallback.                                                               *)
Rollback ==
  /\ call # None
  /\ work' = disk /\ todo' = <<>> /\ call' = None
  /\ UNCHANGED <<disk, done, open, now, calls>>
Crash ==
  /\ open
  /\ work' = disk /\ todo' = <<>> /\ call' = None /\ open' = FALSE
  /\ UNCHANGED <<disk, done, now, calls>>
Close ==
  /\ open /\ call = None
  /\ open' = FALSE
  /\ UNCHANGED <<disk, work, todo, call, done, now, calls>>
Open ==
  /\ ~open
  /\ open' = TRUE
  /\ UNCHANGED <<disk, work, todo, call, done, now, calls>>
Tick ==
  /\ call = None
  /\ now' \in Clock \ {now}
  /\ UNCHANGED <<disk, work, todo, call, done, open, calls>>

-----------------------------------------------------------------------------
(* The methods *)
Present == Rows(work.rows)

SaveEvent(e, verified) == InTransaction(<<"saveEvent", e, verified>>,
  <<Statement(IF verified THEN "save verified" ELSE "save", {e}),
    Statement("untag", {e}), Statement("tag", {e})>>)
MarkValidated(ids) == InTransaction(<<"markValidated", ids>>, Chunks("validate", ids))
JudgeOldest(n) == MarkValidated(Unvalidated(work.rows, n))
TouchCachedAt(ids) == InTransaction(<<"touchCachedAt", ids>>, Chunks("touch", ids))

Answer(f) == SqliteAnswer(f, Present, work.tags)
GetEvents(F) ==
  LET found == UNION {Answer(f) : f \in F}
  IN  InTransaction(<<"trackAccess", found>>, Chunks("track", found))

DeleteEvent(e) == Autocommit(<<"deleteEvent", e>>, Statement("delete", {e}))
Clear == Autocommit(<<"clear">>, Statement("delete", Event))
DeleteExpired(time) ==
  Autocommit(<<"deleteExpired", time>>, Statement("delete", Overdue(work.rows, time)))
EnforceLimit ==
  /\ Excess(work.rows) > 0
  /\ InTransaction(<<"enforceLimit">>, <<Statement("evict", {}), Statement("evict any", {})>>)
DeleteByPubkeyAndKind(a, k) ==
  Autocommit(<<"deleteEventsByPubkeyAndKind", a, k>>,
             Statement("delete", Coordinate(Present, a, k)))
DeleteByDTag(a, k, d) ==
  InTransaction(<<"deleteEventsByPubkeyKindAndDTag", a, k, d>>,
                Chunks("delete", WithDTag(Present, a, k, d)))
DeleteByIds(ids, a) ==
  InTransaction(<<"deleteEventsByIdsForPubkey", ids, a>>,
                Chunks("delete", OwnAmong(Present, ids, a)))
DeleteByAddress(a, k, d, until) ==
  InTransaction(<<"deleteEventsByAddress", a, k, d, until>>,
                Chunks("delete", AtAddress(Present, a, k, d, until)))

Call ==
  \/ \E e \in Event, verified \in BOOLEAN : SaveEvent(e, verified)
  \/ \E ids \in IdLists : MarkValidated(ids) \/ TouchCachedAt(ids)
  \/ \E f, g \in Reads : GetEvents({f, g})
  \/ \E e \in Event : DeleteEvent(e)
  \/ Clear \/ EnforceLimit \/ JudgeOldest(1)
  \/ \E time \in Clock : DeleteExpired(time)
  \/ \E a \in Authors, k \in Kinds :
       \/ DeleteByPubkeyAndKind(a, k)
       \/ \E d \in DValues :
            DeleteByDTag(a, k, d) \/ \E until \in Times : DeleteByAddress(a, k, d, until)
  \/ \E a \in Authors, ids \in IdLists : DeleteByIds(ids, a)

Next == Call \/ RunStatement \/ Commit \/ Rollback \/ Crash \/ Close \/ Open \/ Tick
Spec == Init /\ [][Next]_vars

-----------------------------------------------------------------------------
(* Whatever statement fails and wherever the process dies, the committed   *)
(* database changes as the interface promises: by one whole method, or not *)
(* at all, and with the rows of event_tags that belong to its events.      *)
Table == INSTANCE StorageTable WITH table <- disk.rows, index <- disk.tags
ImplementsTable == Table!TableSpec

(* For every filter and whatever is stored, both adapters answer what      *)
(* NIP-01 asks for: the newest `limit` of the matching events, the lowest  *)
(* ids among those of one second; a reading by tags alone may not see the  *)
(* events whose tags were cut off by the cap of the index.                 *)
ReadsRight ==
  \A f \in Reads : {DexieAnswer(f, Present), Answer(f)} \subseteq RightAnswers(f, Present)

(* A REQ of two filters keeps one of them from the upstream relays only if *)
(* the client was sent every event there is for it, or, of a kind with a   *)
(* freshness window, a copy of the same author that was written or         *)
(* confirmed within the window.                                            *)
Known(e, sent) ==
  \/ e \in sent
  \/ \E s \in sent : /\ Ev[s].kind = Ev[e].kind /\ Ev[s].author = Ev[e].author
                     /\ Ev[s].kind \in DOMAIN Window
                     /\ work.rows[s].cached \in now - Window[Ev[s].kind] .. now
SparesRight ==
  LET answer == [f \in Reads |-> Answer(f)]
  IN  \A f \in {r \in Reads : r.ids # None \/ IsFreshnessEligible(r)}, g \in Reads :
        LET sent == Sent({answer[f], answer[g]})
        IN  f \notin FiltersForUpstream({f, g}, sent, work.rows, now) =>
              \A e \in Event : Matches(e, f) => Known(e, sent)

(* In whatever order the rows of a coordinate are met, its version is the  *)
(* one NIP-01 keeps: getEvents, asked for it alone, answers the same.      *)
VersionsRight ==
  \A a \in Authors, k \in {x \in Kinds : ReplaceableKind(x) \/ AddressableKind(x)}, d \in DValues :
    LET versions == AtCoordinate(Present, a, k, d)
    IN  \A met \in SetToSeqs(versions) : CapEvents(versions, 1) = {CurrentVersion(met)} \ {None}

(* What the cache answers, alone or instead of the upstream relays.        *)
HonestReads == open /\ call = None => ReadsRight /\ SparesRight /\ VersionsRight
=============================================================================
