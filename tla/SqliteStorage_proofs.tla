-------------------------- MODULE SqliteStorage_proofs --------------------------
(***************************************************************************)
(* What is proved of SqliteStorage for any finite set of events, any size  *)
(* of the chunks, any filters and any number of calls: the committed       *)
(* database is the table of StorageTable, one whole method at a time, and  *)
(* what both adapters answer from it is what was asked.                    *)
(*                                                                         *)
(* IInv is the inductive invariant.  Between two calls the connection sees *)
(* the committed database; within one, what it sees is that database with  *)
(* the part of the method that its remaining statements do not do: for a   *)
(* method that goes through a list of ids, its effect on the ids of the    *)
(* statements that have run (Chunked), each of which is in one statement   *)
(* only.                                                                   *)
(*                                                                         *)
(* A read is right when its plan meets the newest rows that match, whatever*)
(* index it goes through: the cursors of an index partition what a scan    *)
(* would meet, and each of them may stop at the limit.                     *)
(***************************************************************************)
EXTENDS SqliteStorage, FiniteSetTheorems, WellFoundedInduction, TLAPS

IsDb(db) ==
  db = [rows |-> [e \in Event |-> db.rows[e]], tags |-> [e \in Event |-> db.tags[e]]]

(* The database after the statements of a kind have run for the ids of D.  *)
RowAfter(do, r, time) ==
  CASE do = "validate" -> IF r # None THEN [r EXCEPT !.validated = TRUE] ELSE r
    [] do = "touch"    -> IF r # None THEN [r EXCEPT !.cached = time] ELSE r
    [] do = "track"    -> IF r # None THEN [r EXCEPT !.accessed = time, !.count = r.count + 1] ELSE r
    [] do = "delete"   -> None
TagsAfter(do, tags) == IF do = "delete" THEN {} ELSE tags
PartDone(do, D, db, time) ==
  [rows |-> [e \in Event |-> IF e \in D THEN RowAfter(do, db.rows[e], time) ELSE db.rows[e]],
   tags |-> [e \in Event |-> IF e \in D THEN TagsAfter(do, db.tags[e]) ELSE db.tags[e]]]

Words ==
  {"save", "save verified", "untag", "tag", "validate", "touch", "track", "delete", "evict", "evict any"}
Statements == [do : Words, ids : SUBSET Event]
Chunked(do, ids) ==
  \E D \in SUBSET Event :
    /\ \A i \in DOMAIN todo : todo[i].do = do /\ todo[i].ids \cap D = {}
    /\ \A i, j \in DOMAIN todo : i # j => todo[i].ids \cap todo[j].ids = {}
    /\ \A e \in Event : e \in ids <=> e \in D \/ \E i \in DOMAIN todo : e \in todo[i].ids
    /\ work = PartDone(do, D, disk, now)

(* The methods that go through the ids of a list, in a transaction.        *)
Names(method, do, ids) ==
  \/ do = "validate" /\ method = <<"markValidated", ids>>
  \/ do = "touch" /\ method = <<"touchCachedAt", ids>>
  \/ do = "track" /\ method = <<"trackAccess", ids>>
  \/ /\ do = "delete"
     /\ \E a \in Authors :
          \/ \E list \in SUBSET Event :
               /\ method = <<"deleteEventsByIdsForPubkey", list, a>>
               /\ ids = OwnAmong(Rows(disk.rows), list, a)
          \/ \E k \in Kinds, d \in DValues :
               \/ /\ method = <<"deleteEventsByPubkeyKindAndDTag", a, k, d>>
                  /\ ids = WithDTag(Rows(disk.rows), a, k, d)
               \/ \E until \in Times :
                    /\ method = <<"deleteEventsByAddress", a, k, d, until>>
                    /\ ids = AtAddress(Rows(disk.rows), a, k, d, until)
ListUnderWay == \E do \in {"validate", "touch", "track", "delete"}, ids \in SUBSET Event :
  Names(call.method, do, ids) /\ Chunked(do, ids)

SaveUnderWay == \E e \in Event, verified \in BOOLEAN :
  LET save == Statement(IF verified THEN "save verified" ELSE "save", {e})
      saved == [rows |-> [disk.rows EXCEPT ![e] = Fresh(e, verified, disk.rows[e], now)], tags |-> disk.tags]
      tagged(T) == [saved EXCEPT !.tags = [disk.tags EXCEPT ![e] = T]]
  IN  /\ call.method = <<"saveEvent", e, verified>>
      /\ \/ todo = <<save, Statement("untag", {e}), Statement("tag", {e})>> /\ work = disk
         \/ todo = <<Statement("untag", {e}), Statement("tag", {e})>> /\ work = saved
         \/ todo = <<Statement("tag", {e})>> /\ work = tagged({})
         \/ todo = <<>> /\ work = tagged(IndexedTags(e))

LimitUnderWay ==
  LET any == Statement("evict any", {})
      first == Erased(disk, Unprotected(disk.rows))
  IN  /\ call.method = <<"enforceLimit">>
      /\ \/ todo = <<Statement("evict", {}), any>> /\ work = disk
         \/ todo = <<any>> /\ work = first
         \/ todo = <<>> /\ work = Erased(first, AnyRows(first.rows))

(* The methods of one statement, which is all there is to the transaction. *)
NamesOne(method, ids) ==
  \/ \E e \in Event : method = <<"deleteEvent", e>> /\ ids = {e}
  \/ method = <<"clear">> /\ ids = Event
  \/ \E time \in Clock : method = <<"deleteExpired", time>> /\ ids = Overdue(disk.rows, time)
  \/ \E a \in Authors, k \in Kinds :
       /\ method = <<"deleteEventsByPubkeyAndKind", a, k>>
       /\ ids = Coordinate(Rows(disk.rows), a, k)
OneUnderWay == \E ids \in SUBSET Event :
  NamesOne(call.method, ids) /\ todo = <<Statement("delete", ids)>> /\ work = disk

IInv ==
  /\ IsDb(disk) /\ todo \in Seq(Statements)
  /\ call = None => work = disk
  /\ call # None =>
       \/ call.atomic /\ (ListUnderWay \/ SaveUnderWay \/ LimitUnderWay)
       \/ ~call.atomic /\ OneUnderWay

-----------------------------------------------------------------------------

(* An id has a place in the list, below its length.                        *)
LEMMA PlaceAmong ==
  ASSUME NEW ids \in SUBSET Event, NEW e \in ids
  PROVE  /\ Cardinality(ids) \in Nat
         /\ Cardinality({x \in ids : x < e}) \in 0 .. Cardinality(ids) - 1
<1>1. IsFiniteSet(ids) /\ e \in Nat /\ Cardinality(ids) \in Nat
  BY FiltersAssumption, FS_Subset, FS_CardinalityType
<1>2. IsFiniteSet(ids \ {e}) /\ Cardinality(ids \ {e}) = Cardinality(ids) - 1
  BY <1>1, FS_RemoveElement
<1>3. {x \in ids : x < e} \subseteq ids \ {e}
  BY <1>1
<1>4. IsFiniteSet({x \in ids : x < e}) /\ Cardinality({x \in ids : x < e}) <= Cardinality(ids \ {e})
  BY <1>2, <1>3, FS_Subset
<1>5. Cardinality({x \in ids : x < e}) \in Nat
  BY <1>4, FS_CardinalityType
<1>6. QED BY <1>1, <1>2, <1>4, <1>5

(* A place below n falls into one of the chunks of n.                      *)
LEMMA ChunkOfPlace ==
  ASSUME NEW n \in Nat, NEW c \in Nat \ {0}, NEW k \in 0 .. n - 1
  PROVE  k \div c \in Nat /\ (k \div c) + 1 <= (n + c - 1) \div c
OBVIOUS

(* chunk() takes every id of the list, and takes it once.                  *)
LEMMA ChunksCover ==
  ASSUME NEW do \in Words, NEW ids \in SUBSET Event
  PROVE  /\ Chunks(do, ids) \in Seq(Statements)
         /\ \A i \in DOMAIN Chunks(do, ids) : Chunks(do, ids)[i].do = do
         /\ \A i, j \in DOMAIN Chunks(do, ids) : i # j => Chunks(do, ids)[i].ids \cap Chunks(do, ids)[j].ids = {}
         /\ \A e \in Event : e \in ids <=> \E i \in DOMAIN Chunks(do, ids) : e \in Chunks(do, ids)[i].ids
<1> DEFINE place(e) == Cardinality({x \in ids : x < e})
           size == (Cardinality(ids) + IdChunkSize - 1) \div IdChunkSize
           part(i) == {e \in ids : place(e) \div IdChunkSize = i - 1}
           s == Chunks(do, ids)
<1>1. IdChunkSize \in Nat \ {0} /\ Cardinality(ids) \in Nat
  BY SqliteAssumption, FiltersAssumption, FS_Subset, FS_CardinalityType
<1>2. size \in Nat
  BY <1>1
<1>3. \A e \in ids : place(e) \div IdChunkSize \in Nat /\ (place(e) \div IdChunkSize) + 1 <= size
  BY <1>1, PlaceAmong, ChunkOfPlace
<1> DEFINE of(e) == place(e) \div IdChunkSize
<1>4. s = [i \in 1 .. size |-> Statement(do, part(i))]
  BY DEF Chunks
<1> HIDE DEF s, size, place
<1>5. s \in Seq(Statements) /\ DOMAIN s = 1 .. size
  BY <1>2, <1>4 DEF Statement, Statements
<1>6. \A i \in DOMAIN s : s[i].do = do /\ s[i].ids = part(i)
  BY <1>4, <1>5 DEF Statement
<1>7. \A i, j \in DOMAIN s : i # j => part(i) \cap part(j) = {}
  BY <1>2, <1>5
<1>8. ASSUME NEW e \in ids PROVE \E i \in DOMAIN s : e \in part(i)
  <2>1. of(e) \in Nat /\ of(e) + 1 <= size BY <1>3
  <2> DEFINE i == of(e) + 1
  <2>2. i \in DOMAIN s /\ of(e) = i - 1 BY <1>2, <1>5, <2>1
  <2>3. e \in part(i) BY <2>2
  <2>4. QED BY <2>2, <2>3
<1>9. QED BY <1>5, <1>6, <1>7, <1>8 DEF s

(* What a filter is answered with are rows that are there.                 *)
LEMMA AnswersAreRows ==
  ASSUME NEW f, NEW rows \in SUBSET Event, NEW tagged
  PROVE  SqliteAnswer(f, rows, tagged) \subseteq rows
<1>1. Candidates(f, rows, tagged) \subseteq rows
  BY DEF Candidates, ByTime
<1>2. \A S : Truncate(S, f) \subseteq S
  BY DEF Truncate, CapEvents
<1>3. QED BY <1>1, <1>2 DEF SqliteAnswer

(* What the methods select are events.                                     *)
LEMMA SelectionsAreEvents ==
  /\ \A R : Rows(R) \subseteq Event
  /\ \A R, time : Overdue(R, time) \subseteq Event
  /\ \A R, a, k : Coordinate(Rows(R), a, k) \subseteq Event
  /\ \A R, a, k, d : WithDTag(Rows(R), a, k, d) \subseteq Event
  /\ \A R, a, k, d, until : AtAddress(Rows(R), a, k, d, until) \subseteq Event
  /\ \A R, list, a : OwnAmong(Rows(R), list, a) \subseteq Event
  /\ \A R, n : Unvalidated(R, n) \subseteq Event
BY DEF Rows, Overdue, Coordinate, WithDTag, AtAddress, AtCoordinate, OwnAmong, Unvalidated

-----------------------------------------------------------------------------
(* Statements.                                                             *)
Listing == {"validate", "touch", "track", "delete"}

(* A statement half done is a database, and nothing done is the old one.   *)
LEMMA PartIsDb ==
  ASSUME NEW do, NEW D, NEW db, NEW time
  PROVE  IsDb(PartDone(do, D, db, time)) /\ (IsDb(db) => PartDone(do, {}, db, time) = db)
<1>1. IsDb(PartDone(do, D, db, time)) BY DEF IsDb, PartDone
<1>2. ASSUME IsDb(db) PROVE PartDone(do, {}, db, time) = db
  <2>1. PartDone(do, {}, db, time) = [rows |-> [e \in Event |-> db.rows[e]], tags |-> [e \in Event |-> db.tags[e]]]
    BY DEF PartDone
  <2>2. QED BY <1>2, <2>1 DEF IsDb
<1>3. QED BY <1>1, <1>2

(* Replacing one table of the database leaves the other.                   *)
LEMMA Replaced ==
  ASSUME NEW rows, NEW tags, NEW T
  PROVE  /\ [[rows |-> rows, tags |-> tags] EXCEPT !.rows = T] = [rows |-> T, tags |-> tags]
         /\ [[rows |-> rows, tags |-> tags] EXCEPT !.tags = T] = [rows |-> rows, tags |-> T]
OBVIOUS

(* One statement more: its ids are new to the part done so far.            *)
LEMMA OneMorePart ==
  ASSUME NEW do \in Listing, NEW D, NEW s \in Statements, s.do = do, s.ids \cap D = {}
  PROVE  Effect(s, PartDone(do, D, disk, now)) = PartDone(do, D \cup s.ids, disk, now)
<1> DEFINE part == PartDone(do, D, disk, now)
           all == PartDone(do, D \cup s.ids, disk, now)
<1>1. \A e \in Event : /\ part.rows[e] = IF e \in D THEN RowAfter(do, disk.rows[e], now) ELSE disk.rows[e]
                       /\ part.tags[e] = IF e \in D THEN TagsAfter(do, disk.tags[e]) ELSE disk.tags[e]
  BY DEF PartDone
<1>2. ASSUME NEW T PROVE [part EXCEPT !.rows = T] = [rows |-> T, tags |-> part.tags]
  <2> DEFINE rows == part.rows
             tags == part.tags
  <2>1. part = [rows |-> rows, tags |-> tags] BY DEF PartDone
  <2> HIDE DEF part, rows, tags
  <2>2. [part EXCEPT !.rows = T] = [rows |-> T, tags |-> tags] BY <2>1
  <2>3. QED BY <2>2 DEF tags
<1>3. CASE do = "validate"
  <2>1. Effect(s, part) = [rows |-> Validated(part.rows, s.ids), tags |-> part.tags]
    BY <1>2, <1>3 DEF Effect
  <2>2. Validated(part.rows, s.ids) = all.rows
    BY <1>1, <1>3 DEF Validated, Update, PartDone, RowAfter
  <2>3. part.tags = all.tags BY <1>3 DEF PartDone, TagsAfter
  <2>4. QED BY <2>1, <2>2, <2>3 DEF PartDone
<1>4. CASE do = "touch"
  <2>1. Effect(s, part) = [rows |-> Touched(part.rows, s.ids, now), tags |-> part.tags]
    BY <1>2, <1>4 DEF Effect
  <2>2. Touched(part.rows, s.ids, now) = all.rows
    BY <1>1, <1>4 DEF Touched, Update, PartDone, RowAfter
  <2>3. part.tags = all.tags BY <1>4 DEF PartDone, TagsAfter
  <2>4. QED BY <2>1, <2>2, <2>3 DEF PartDone
<1>5. CASE do = "track"
  <2>1. Effect(s, part) = [rows |-> Accessed(part.rows, s.ids, now), tags |-> part.tags]
    BY <1>2, <1>5 DEF Effect
  <2>2. Accessed(part.rows, s.ids, now) = all.rows
    BY <1>1, <1>5 DEF Accessed, Update, PartDone, RowAfter
  <2>3. part.tags = all.tags BY <1>5 DEF PartDone, TagsAfter
  <2>4. QED BY <2>1, <2>2, <2>3 DEF PartDone
<1>6. CASE do = "delete"
  <2>1. Effect(s, part) = Erased(part, s.ids)
    BY <1>6 DEF Effect
  <2>2. Without(part.rows, s.ids) = all.rows
    BY <1>1, <1>6 DEF Without, PartDone, RowAfter
  <2>3. [e \in Event |-> IF e \in s.ids THEN {} ELSE part.tags[e]] = all.tags
    BY <1>1, <1>6 DEF PartDone, TagsAfter
  <2>4. QED BY <2>1, <2>2, <2>3 DEF Erased, PartDone
<1>7. QED BY <1>3, <1>4, <1>5, <1>6 DEF Listing

(* The lists of one, two and three statements, taken apart.                *)
LEMMA ShortLists ==
  ASSUME NEW S, NEW a \in S, NEW b \in S, NEW c \in S
  PROVE  /\ <<a, b, c>> \in Seq(S) /\ Head(<<a, b, c>>) = a /\ Tail(<<a, b, c>>) = <<b, c>>
         /\ <<b, c>> \in Seq(S) /\ Head(<<b, c>>) = b /\ Tail(<<b, c>>) = <<c>>
         /\ <<c>> \in Seq(S) /\ Head(<<c>>) = c /\ Tail(<<c>>) = <<>> /\ Len(<<c>>) = 1
         /\ <<>> \in Seq(S)
OBVIOUS

-----------------------------------------------------------------------------
(* The invariant holds at first.                                           *)
THEOREM InitInv == Init => IInv
<1> SUFFICES ASSUME Init PROVE IInv
  OBVIOUS
<1>1. PICK S \in SUBSET Event : disk =
        [rows |-> [e \in Event |-> IF e \in S THEN Fresh(e, FALSE, None, 0) ELSE None],
         tags |-> [e \in Event |-> IF e \in S THEN IndexedTags(e) ELSE {}]]
  BY DEF Init
<1>2. IsDb(disk) BY <1>1 DEF IsDb
<1>3. QED BY <1>2 DEF Init, IInv

(* A call begins with nothing of it done.                                  *)
LEMMA ListBegins ==
  ASSUME IInv, NEW method, NEW do \in Listing, NEW ids \in SUBSET Event, Names(method, do, ids),
         InTransaction(method, Chunks(do, ids))
  PROVE  IInv'
<1>1. /\ call = None /\ call' = [method |-> method, atomic |-> TRUE] /\ todo' = Chunks(do, ids)
      /\ disk' = disk /\ work' = work /\ now' = now
  BY DEF InTransaction, Begin
<1>2. call'.method = method /\ call'.atomic BY <1>1
<1>a. do \in Words BY DEF Listing, Words
<1>3. todo' \in Seq(Statements) /\ IsDb(disk)' BY <1>1, <1>a, ChunksCover DEF IInv, IsDb
<1>4. work' = PartDone(do, {}, disk, now)'
  <2>1. IsDb(disk') /\ work' = disk' BY <1>1 DEF IInv, IsDb
  <2>2. PartDone(do, {}, disk, now)' = [rows |-> [e \in Event |-> disk'.rows[e]], tags |-> [e \in Event |-> disk'.tags[e]]]
    BY DEF PartDone
  <2>3. QED BY <2>1, <2>2 DEF IsDb
<1>5. Chunked(do, ids)'
  <2> DEFINE s == Chunks(do, ids)
  <2>1. /\ \A i \in DOMAIN s : s[i].do = do
        /\ \A i, j \in DOMAIN s : i # j => s[i].ids \cap s[j].ids = {}
        /\ \A e \in Event : e \in ids <=> \E i \in DOMAIN s : e \in s[i].ids
    BY <1>a, ChunksCover
  <2>2. todo' = s BY <1>1
  <2> HIDE DEF s
  <2>3. \E D \in SUBSET Event :
          /\ \A i \in DOMAIN todo' : todo'[i].do = do /\ todo'[i].ids \cap D = {}
          /\ \A i, j \in DOMAIN todo' : i # j => todo'[i].ids \cap todo'[j].ids = {}
          /\ \A e \in Event : e \in ids <=> e \in D \/ \E i \in DOMAIN todo' : e \in todo'[i].ids
          /\ work' = PartDone(do, D, disk, now)'
    <3> WITNESS {} \in SUBSET Event
    <3>1. QED BY <1>4, <2>1, <2>2
  <2>4. QED BY <2>3 DEF Chunked
<1>6. Names(method, do, ids)' BY <1>1 DEF Names
<1>7. ListUnderWay' BY <1>2, <1>5, <1>6 DEF ListUnderWay, Listing
<1>8. call' = None => work' = disk' BY <1>1 DEF IInv
<1>9. QED BY <1>2, <1>3, <1>7, <1>8 DEF IInv

(* saveEvent begins with its three statements to run.                      *)
LEMMA SaveBegins ==
  ASSUME IInv, NEW e \in Event, NEW verified \in BOOLEAN, SaveEvent(e, verified)
  PROVE  IInv'
<1> DEFINE save == Statement(IF verified THEN "save verified" ELSE "save", {e})
           list == <<save, Statement("untag", {e}), Statement("tag", {e})>>
           method == <<"saveEvent", e, verified>>
<1>1. /\ call = None /\ call' = [method |-> method, atomic |-> TRUE] /\ todo' = list
      /\ disk' = disk /\ work' = work /\ now' = now
  BY DEF SaveEvent, InTransaction, Begin
<1>2. call'.method = method /\ call'.atomic BY <1>1
<1>3. save \in Statements /\ Statement("untag", {e}) \in Statements /\ Statement("tag", {e}) \in Statements
  BY DEF Statement, Statements, Words
<1>4. todo' \in Seq(Statements) BY <1>1, <1>3, ShortLists
<1>5. SaveUnderWay' BY <1>1, <1>2 DEF SaveUnderWay, IInv
<1>6. QED BY <1>1, <1>2, <1>4, <1>5 DEF IInv, IsDb

(* enforceLimit begins with its two passes to run.                         *)
LEMMA LimitBegins ==
  ASSUME IInv, EnforceLimit
  PROVE  IInv'
<1> DEFINE list == <<Statement("evict", {}), Statement("evict any", {})>>
<1>1. /\ call = None /\ call' = [method |-> <<"enforceLimit">>, atomic |-> TRUE] /\ todo' = list
      /\ disk' = disk /\ work' = work
  BY DEF EnforceLimit, InTransaction, Begin
<1>2. call'.method = <<"enforceLimit">> /\ call'.atomic BY <1>1
<1>3. Statement("evict", {}) \in Statements /\ Statement("evict any", {}) \in Statements
  BY DEF Statement, Statements, Words
<1>4. todo' \in Seq(Statements) BY <1>1, <1>3, ShortLists
<1>5. LimitUnderWay' BY <1>1, <1>2 DEF LimitUnderWay, IInv
<1>6. QED BY <1>1, <1>2, <1>4, <1>5 DEF IInv, IsDb

(* An autocommitted delete is one statement.                               *)
LEMMA OneBegins ==
  ASSUME IInv, NEW method, NEW ids \in SUBSET Event, NamesOne(method, ids),
         Autocommit(method, Statement("delete", ids))
  PROVE  IInv'
<1>1. /\ call = None /\ call' = [method |-> method, atomic |-> FALSE] /\ todo' = <<Statement("delete", ids)>>
      /\ disk' = disk /\ work' = work
  BY DEF Autocommit, Begin
<1>2. call'.method = method /\ ~call'.atomic BY <1>1
<1>3. todo' \in Seq(Statements) BY <1>1 DEF Statement, Statements, Words
<1>4. NamesOne(method, ids)' BY <1>1 DEF NamesOne
<1>5. OneUnderWay' BY <1>1, <1>2, <1>4 DEF OneUnderWay, IInv
<1>6. QED BY <1>1, <1>2, <1>3, <1>5 DEF IInv, IsDb

(* Every method begins with all of its work in front of it.                *)
LEMMA CallStep ==
  ASSUME IInv, Call
  PROVE  IInv'
<1>0. call = None => work = disk BY DEF IInv
<1>1. ASSUME NEW ids \in SUBSET Event, MarkValidated(ids) PROVE IInv'
  BY <1>1, ListBegins DEF MarkValidated, Names, Listing
<1>2. ASSUME NEW ids \in SUBSET Event, TouchCachedAt(ids) PROVE IInv'
  BY <1>2, ListBegins DEF TouchCachedAt, Names, Listing
<1>3. CASE JudgeOldest(1)
  BY <1>1, <1>3, SelectionsAreEvents DEF JudgeOldest
<1>4. ASSUME NEW F, GetEvents(F) PROVE IInv'
  <2> DEFINE found == UNION {Answer(f) : f \in F}
  <2>1. found \in SUBSET Event
    BY AnswersAreRows, SelectionsAreEvents DEF Answer, Present
  <2>2. InTransaction(<<"trackAccess", found>>, Chunks("track", found))
    BY <1>4 DEF GetEvents
  <2>3. QED BY <2>1, <2>2, ListBegins DEF Names, Listing
<1>5. ASSUME NEW a \in Authors, NEW ids \in SUBSET Event, DeleteByIds(ids, a) PROVE IInv'
  <2>1. work = disk BY <1>0, <1>5 DEF DeleteByIds, InTransaction, Begin
  <2>2. QED BY <1>5, <2>1, ListBegins, SelectionsAreEvents DEF DeleteByIds, Present, Names, Listing
<1>6. ASSUME NEW a \in Authors, NEW k \in Kinds, NEW d \in DValues, DeleteByDTag(a, k, d) PROVE IInv'
  <2>1. work = disk BY <1>0, <1>6 DEF DeleteByDTag, InTransaction, Begin
  <2>2. QED BY <1>6, <2>1, ListBegins, SelectionsAreEvents DEF DeleteByDTag, Present, Names, Listing
<1>7. ASSUME NEW a \in Authors, NEW k \in Kinds, NEW d \in DValues, NEW until \in Times,
             DeleteByAddress(a, k, d, until) PROVE IInv'
  <2>1. work = disk BY <1>0, <1>7 DEF DeleteByAddress, InTransaction, Begin
  <2>2. QED BY <1>7, <2>1, ListBegins, SelectionsAreEvents DEF DeleteByAddress, Present, Names, Listing
<1>8. ASSUME NEW e \in Event, DeleteEvent(e) PROVE IInv'
  BY <1>8, OneBegins DEF DeleteEvent, NamesOne
<1>9. CASE Clear
  BY <1>9, OneBegins DEF Clear, NamesOne
<1>10. ASSUME NEW time \in Clock, DeleteExpired(time) PROVE IInv'
  <2>1. work = disk BY <1>0, <1>10 DEF DeleteExpired, Autocommit, Begin
  <2>2. QED BY <1>10, <2>1, OneBegins, SelectionsAreEvents DEF DeleteExpired, NamesOne
<1>11. ASSUME NEW a \in Authors, NEW k \in Kinds, DeleteByPubkeyAndKind(a, k) PROVE IInv'
  <2>1. work = disk BY <1>0, <1>11 DEF DeleteByPubkeyAndKind, Autocommit, Begin
  <2>2. QED BY <1>11, <2>1, OneBegins, SelectionsAreEvents DEF DeleteByPubkeyAndKind, Present, NamesOne
<1>12. IdLists \subseteq SUBSET Event BY SqliteAssumption
<1>13. QED
  BY <1>1, <1>2, <1>3, <1>4, <1>5, <1>6, <1>7, <1>8, <1>9, <1>10, <1>11, <1>12, SaveBegins, LimitBegins
  DEF Call

-----------------------------------------------------------------------------
(* A statement runs.                                                       *)
LEMMA HeadAndTail ==
  ASSUME IInv, todo # <<>>, todo' = Tail(todo)
  PROVE  /\ 1 \in DOMAIN todo /\ Head(todo) = todo[1] /\ todo[1] \in Statements
         /\ todo' \in Seq(Statements)
         /\ DOMAIN todo = {1} \cup {i + 1 : i \in DOMAIN todo'}
         /\ \A i \in DOMAIN todo' : i \in Nat \ {0} /\ todo'[i] = todo[i + 1]
<1>1. todo \in Seq(Statements) BY DEF IInv
<1> DEFINE n == Len(todo)
<1>2. n \in Nat \ {0} /\ DOMAIN todo = 1 .. n BY <1>1
<1>3. todo' \in Seq(Statements) /\ DOMAIN todo' = 1 .. n - 1 /\ \A i \in 1 .. n - 1 : todo'[i] = todo[i + 1]
  BY <1>1, <1>2
<1>4. 1 \in DOMAIN todo /\ Head(todo) = todo[1] /\ todo[1] \in Statements BY <1>1, <1>2
<1> HIDE DEF n
<1>5. 1 .. n = {1} \cup {i + 1 : i \in 1 .. n - 1}
  <2>1. ASSUME NEW k \in 1 .. n, k # 1 PROVE \E i \in 1 .. n - 1 : k = i + 1
    <3>1. k - 1 \in 1 .. n - 1 /\ k = (k - 1) + 1 BY <1>2, <2>1
    <3>2. QED BY <3>1
  <2>2. ASSUME NEW i \in 1 .. n - 1 PROVE i + 1 \in 1 .. n BY <1>2
  <2>3. 1 \in 1 .. n BY <1>2
  <2>4. QED BY <2>1, <2>2, <2>3, Zenon
<1>6. \A i \in 1 .. n - 1 : i \in Nat \ {0} BY <1>2
<1>7. DOMAIN todo = {1} \cup {i + 1 : i \in DOMAIN todo'} BY <1>2, <1>3, <1>5
<1>8. QED BY <1>3, <1>4, <1>6, <1>7

(* One chunk more: what is done and what is left still make the list.      *)
LEMMA ListRuns ==
  ASSUME IInv, NEW CONSTANT do \in Listing, NEW CONSTANT ids \in SUBSET Event, Chunked(do, ids),
         todo # <<>>, work' = Effect(Head(todo), work), todo' = Tail(todo), disk' = disk, now' = now
  PROVE  Chunked(do, ids)'
<1>1. PICK D \in SUBSET Event :
        /\ \A i \in DOMAIN todo : todo[i].do = do /\ todo[i].ids \cap D = {}
        /\ \A i, j \in DOMAIN todo : i # j => todo[i].ids \cap todo[j].ids = {}
        /\ \A e \in Event : e \in ids <=> e \in D \/ \E i \in DOMAIN todo : e \in todo[i].ids
        /\ work = PartDone(do, D, disk, now)
  BY DEF Chunked
<1>2. PICK s : s = todo[1] OBVIOUS
<1>3. 1 \in DOMAIN todo /\ Head(todo) = s /\ s \in Statements /\ s.do = do /\ s.ids \cap D = {}
  BY <1>1, <1>2, HeadAndTail
<1>4. s.ids \in SUBSET Event BY <1>3 DEF Statements
<1>5. work' = PartDone(do, D \cup s.ids, disk, now)'
  BY <1>1, <1>3, OneMorePart
<1>6. ASSUME NEW i \in DOMAIN todo'
      PROVE  /\ i + 1 \in DOMAIN todo /\ i + 1 # 1
             /\ todo'[i].do = do /\ todo'[i].ids \cap (D \cup s.ids) = {}
  <2>1. i + 1 \in DOMAIN todo /\ i + 1 # 1 /\ todo'[i] = todo[i + 1] BY HeadAndTail
  <2>2. todo[i + 1].ids \cap s.ids = {} BY <1>1, <1>2, <1>3, <2>1
  <2>3. QED BY <1>1, <2>1, <2>2
<1>7. ASSUME NEW i \in DOMAIN todo', NEW j \in DOMAIN todo', i # j
      PROVE  todo'[i].ids \cap todo'[j].ids = {}
  <2>1. i + 1 # j + 1 /\ todo'[i] = todo[i + 1] /\ todo'[j] = todo[j + 1] BY <1>7, HeadAndTail
  <2>2. QED BY <1>1, <1>6, <2>1
<1>8. ASSUME NEW e \in Event
      PROVE  e \in ids <=> e \in D \cup s.ids \/ \E i \in DOMAIN todo' : e \in todo'[i].ids
  <2>1. (\E i \in DOMAIN todo : e \in todo[i].ids) <=> e \in s.ids \/ \E i \in DOMAIN todo' : e \in todo'[i].ids
    BY <1>2, HeadAndTail
  <2>2. QED BY <1>1, <2>1
<1>9. \E P \in SUBSET Event :
        /\ \A i \in DOMAIN todo' : todo'[i].do = do /\ todo'[i].ids \cap P = {}
        /\ \A i, j \in DOMAIN todo' : i # j => todo'[i].ids \cap todo'[j].ids = {}
        /\ \A e \in Event : e \in ids <=> e \in P \/ \E i \in DOMAIN todo' : e \in todo'[i].ids
        /\ work' = PartDone(do, P, disk, now)'
  <2>0. D \cup s.ids \in SUBSET Event BY <1>4
  <2> WITNESS D \cup s.ids \in SUBSET Event
  <2>1. QED BY <1>5, <1>6, <1>7, <1>8
<1>10. QED BY <1>9 DEF Chunked

(* The statements of a save, each on the database the last one left.       *)
LEMMA SavedRow ==
  ASSUME NEW e \in Event, NEW verified \in BOOLEAN, IsDb(disk)
  PROVE  LET saved == [rows |-> [disk.rows EXCEPT ![e] = Fresh(e, verified, disk.rows[e], now)], tags |-> disk.tags]
             tagged(T) == [saved EXCEPT !.tags = [disk.tags EXCEPT ![e] = T]]
         IN  /\ Effect(Statement(IF verified THEN "save verified" ELSE "save", {e}), disk) = saved
             /\ Effect(Statement("untag", {e}), saved) = tagged({})
             /\ Effect(Statement("tag", {e}), tagged({})) = tagged(IndexedTags(e))
             /\ \A T : IsDb(tagged(T)) /\ tagged(T) = [rows |-> saved.rows, tags |-> [disk.tags EXCEPT ![e] = T]]
<1> DEFINE R == [disk.rows EXCEPT ![e] = Fresh(e, verified, disk.rows[e], now)]
           G(T) == [disk.tags EXCEPT ![e] = T]
           saved == [rows |-> R, tags |-> disk.tags]
           tagged(T) == [saved EXCEPT !.tags = G(T)]
<1>1. /\ disk = [rows |-> disk.rows, tags |-> disk.tags]
      /\ disk.rows = [x \in Event |-> disk.rows[x]] /\ disk.tags = [x \in Event |-> disk.tags[x]]
  BY DEF IsDb
<1>2. R = [x \in Event |-> IF x \in {e} THEN Fresh(x, verified, disk.rows[x], now) ELSE disk.rows[x]]
  BY <1>1
<1>3. \A T : G(T) = [x \in Event |-> IF x \in {e} THEN T ELSE disk.tags[x]]
  BY <1>1
<1>4. \A T : tagged(T) = [rows |-> R, tags |-> G(T)]
  <2> SUFFICES ASSUME NEW T PROVE tagged(T) = [rows |-> R, tags |-> G(T)]
    OBVIOUS
  <2> DEFINE tags == disk.tags
             put == G(T)
  <2>1. [[rows |-> R, tags |-> tags] EXCEPT !.tags = put] = [rows |-> R, tags |-> put]
    <3> HIDE DEF R, tags, put
    <3>1. QED BY Replaced
  <2>2. QED BY <2>1, Zenon
<1>5. Effect(Statement(IF verified THEN "save verified" ELSE "save", {e}), disk) = saved
  <2>1. Effect(Statement(IF verified THEN "save verified" ELSE "save", {e}), disk) = Saved(disk, {e}, verified)
    BY DEF Effect, Statement
  <2>2. Saved(disk, {e}, verified) = [disk EXCEPT !.rows = R] BY <1>2 DEF Saved
  <2>3. [disk EXCEPT !.rows = R] = saved
    <3> DEFINE rows == disk.rows
               tags == disk.tags
    <3>1. [[rows |-> rows, tags |-> tags] EXCEPT !.rows = R] = [rows |-> R, tags |-> tags]
      <4> HIDE DEF rows, tags, R
      <4>1. QED BY Replaced
    <3>2. disk = [rows |-> rows, tags |-> tags] BY <1>1
    <3>3. QED BY <3>1, <3>2
  <2>4. QED BY <2>1, <2>2, <2>3
<1>6. ASSUME NEW T, NEW db, db = [rows |-> R, tags |-> G(T)]
      PROVE  Effect(Statement("tag", {e}), db) = [rows |-> R, tags |-> G(T \cup IndexedTags(e))]
  <2>1. Effect(Statement("tag", {e}), db)
          = [db EXCEPT !.tags = [x \in Event |-> IF x \in {e} THEN db.tags[x] \cup IndexedTags(x) ELSE db.tags[x]]]
    BY DEF Effect, Statement, Tagged
  <2>2. db.tags = G(T) BY <1>6
  <2>3. [x \in Event |-> IF x \in {e} THEN db.tags[x] \cup IndexedTags(x) ELSE db.tags[x]] = G(T \cup IndexedTags(e))
    BY <1>3, <2>2
  <2> HIDE DEF R, G
  <2>4. QED BY <1>6, <2>1, <2>3, Replaced, Zenon
<1>7. Effect(Statement("untag", {e}), saved) = [rows |-> R, tags |-> G({})]
  <2>1. Effect(Statement("untag", {e}), saved)
          = [saved EXCEPT !.tags = [x \in Event |-> IF x \in {e} THEN {} ELSE saved.tags[x]]]
    BY DEF Effect, Statement, Tagged
  <2>2. [x \in Event |-> IF x \in {e} THEN {} ELSE saved.tags[x]] = G({}) BY <1>3
  <2> HIDE DEF R, G
  <2>3. QED BY <2>1, <2>2, Replaced, Zenon
<1>8. \A T : IsDb([rows |-> R, tags |-> G(T)])
  BY <1>2, <1>3 DEF IsDb
<1>9. Effect(Statement("tag", {e}), tagged({})) = tagged(IndexedTags(e))
  BY <1>4, <1>6
<1>10. Effect(Statement("untag", {e}), saved) = tagged({}) BY <1>4, <1>7
<1>11. \A T : IsDb(tagged(T)) /\ tagged(T) = [rows |-> saved.rows, tags |-> G(T)]
  <2> HIDE DEF R, G
  <2>1. QED BY <1>4, <1>8
<1>12. QED BY <1>5, <1>9, <1>10, <1>11, Zenon

(* One statement of saveEvent more: what is done and what is left still    *)
(* make the save.                                                          *)
LEMMA SaveRuns ==
  ASSUME IInv, SaveUnderWay, todo # <<>>, work' = Effect(Head(todo), work), todo' = Tail(todo),
         disk' = disk, now' = now, call' = call
  PROVE  SaveUnderWay'
<1>1. PICK e \in Event, verified \in BOOLEAN :
        LET save == Statement(IF verified THEN "save verified" ELSE "save", {e})
            saved == [rows |-> [disk.rows EXCEPT ![e] = Fresh(e, verified, disk.rows[e], now)], tags |-> disk.tags]
            tagged(T) == [saved EXCEPT !.tags = [disk.tags EXCEPT ![e] = T]]
        IN  /\ call.method = <<"saveEvent", e, verified>>
            /\ \/ todo = <<save, Statement("untag", {e}), Statement("tag", {e})>> /\ work = disk
               \/ todo = <<Statement("untag", {e}), Statement("tag", {e})>> /\ work = saved
               \/ todo = <<Statement("tag", {e})>> /\ work = tagged({})
               \/ todo = <<>> /\ work = tagged(IndexedTags(e))
  BY DEF SaveUnderWay
<1> DEFINE save == Statement(IF verified THEN "save verified" ELSE "save", {e})
           untag == Statement("untag", {e})
           tag == Statement("tag", {e})
           saved == [rows |-> [disk.rows EXCEPT ![e] = Fresh(e, verified, disk.rows[e], now)], tags |-> disk.tags]
           tagged(T) == [saved EXCEPT !.tags = [disk.tags EXCEPT ![e] = T]]
<1>2. /\ Effect(save, disk) = saved
      /\ Effect(untag, saved) = tagged({})
      /\ Effect(tag, tagged({})) = tagged(IndexedTags(e))
  BY SavedRow DEF IInv
<1>3. /\ Head(<<save, untag, tag>>) = save /\ Tail(<<save, untag, tag>>) = <<untag, tag>>
      /\ Head(<<untag, tag>>) = untag /\ Tail(<<untag, tag>>) = <<tag>>
      /\ Head(<<tag>>) = tag /\ Tail(<<tag>>) = <<>>
  <2> HIDE DEF save, untag, tag
  <2>1. QED OBVIOUS
<1>4. /\ call'.method = <<"saveEvent", e, verified>>
      /\ \/ todo' = <<untag, tag>> /\ work' = saved
         \/ todo' = <<tag>> /\ work' = tagged({})
         \/ todo' = <<>> /\ work' = tagged(IndexedTags(e))
  <2>1. CASE todo = <<save, untag, tag>> /\ work = disk
    BY <1>1, <1>2, <1>3, <2>1, Zenon
  <2>2. CASE todo = <<untag, tag>> /\ work = saved
    BY <1>1, <1>2, <1>3, <2>2, Zenon
  <2>3. CASE todo = <<tag>> /\ work = tagged({})
    BY <1>1, <1>2, <1>3, <2>3, Zenon
  <2>4. QED BY <1>1, <2>1, <2>2, <2>3, Zenon
<1>5. QED BY <1>4 DEF SaveUnderWay

(* One pass of the eviction more: what is done and what is left still      *)
(* make the eviction.                                                      *)
LEMMA LimitRuns ==
  ASSUME LimitUnderWay, todo # <<>>, work' = Effect(Head(todo), work), todo' = Tail(todo),
         disk' = disk, call' = call
  PROVE  LimitUnderWay'
<1> DEFINE any == Statement("evict any", {})
           all == Statement("evict", {})
           first == Erased(disk, Unprotected(disk.rows))
<1>1. /\ Effect(all, disk) = first
      /\ Effect(any, first) = Erased(first, AnyRows(first.rows))
  BY DEF Effect, Statement
<1>2. /\ Head(<<all, any>>) = all /\ Tail(<<all, any>>) = <<any>>
      /\ Head(<<any>>) = any /\ Tail(<<any>>) = <<>>
  <2> HIDE DEF all, any
  <2>1. QED OBVIOUS
<1>3. /\ call'.method = <<"enforceLimit">>
      /\ \/ todo' = <<any>> /\ work' = first
         \/ todo' = <<>> /\ work' = Erased(first, AnyRows(first.rows))
  BY <1>1, <1>2, Zenon DEF LimitUnderWay
<1>4. QED BY <1>3 DEF LimitUnderWay

(* What the last statement of a transaction leaves.                        *)
Carried(do, ids) == work = PartDone(do, ids, disk, now)

(* A list with no chunk left is carried out in full.                       *)
LEMMA ListDone ==
  ASSUME NEW do, NEW ids \in SUBSET Event, Chunked(do, ids), todo = <<>>
  PROVE  Carried(do, ids)
<1>1. PICK D \in SUBSET Event :
        /\ \A e \in Event : e \in ids <=> e \in D \/ \E i \in DOMAIN todo : e \in todo[i].ids
        /\ work = PartDone(do, D, disk, now)
  BY DEF Chunked
<1>2. DOMAIN todo = {} OBVIOUS
<1>3. \A e \in Event : e \in ids <=> e \in D BY <1>1, <1>2
<1>4. D = ids BY <1>3
<1>5. QED BY <1>1, <1>4 DEF Carried

(* A delete leaves a database.                                             *)
LEMMA ErasedIsDb ==
  ASSUME NEW db, NEW ids
  PROVE  IsDb(Erased(db, ids))
BY DEF IsDb, Erased, Without

(* What a finished transaction is about to commit is a database.           *)
LEMMA DoneIsDb ==
  ASSUME IInv, call # None, call.atomic, todo = <<>>
  PROVE  IsDb(work)
<1>1. CASE ListUnderWay
  BY <1>1, ListDone, PartIsDb DEF ListUnderWay, Carried
<1>2. CASE SaveUnderWay
  <2>1. PICK e \in Event, verified \in BOOLEAN :
          work = [[rows |-> [disk.rows EXCEPT ![e] = Fresh(e, verified, disk.rows[e], now)], tags |-> disk.tags]
                  EXCEPT !.tags = [disk.tags EXCEPT ![e] = IndexedTags(e)]]
    BY <1>2 DEF SaveUnderWay
  <2>2. QED BY <2>1, SavedRow DEF IInv
<1>3. CASE LimitUnderWay
  BY <1>3, ErasedIsDb DEF LimitUnderWay
<1>4. QED BY <1>1, <1>2, <1>3 DEF IInv

(* Running a statement keeps the invariant.                                *)
LEMMA RunStep ==
  ASSUME IInv, RunStatement
  PROVE  IInv'
<1>1. /\ call # None /\ todo # <<>> /\ work' = Effect(Head(todo), work) /\ todo' = Tail(todo) /\ now' = now
  BY DEF RunStatement
<1>2. todo' \in Seq(Statements) BY <1>1, HeadAndTail
<1>3. CASE call.atomic
  <2>1. disk' = disk /\ call' = call BY <1>3 DEF RunStatement, Finish
  <2>2. CASE ListUnderWay
    <3>1. PICK do \in Listing, ids \in SUBSET Event : Names(call.method, do, ids) /\ Chunked(do, ids)
      BY <2>2 DEF ListUnderWay, Listing
    <3>2. Chunked(do, ids)' BY <1>1, <2>1, <3>1, ListRuns
    <3>3. Names(call.method, do, ids)' BY <2>1, <3>1 DEF Names
    <3>4. ListUnderWay' BY <3>2, <3>3 DEF ListUnderWay, Listing
    <3>5. QED BY <1>1, <1>2, <1>3, <2>1, <3>4 DEF IInv, IsDb
  <2>3. CASE SaveUnderWay
    <3>1. SaveUnderWay' BY <1>1, <2>1, <2>3, SaveRuns
    <3>2. QED BY <1>1, <1>2, <1>3, <2>1, <3>1 DEF IInv, IsDb
  <2>4. CASE LimitUnderWay
    <3>1. LimitUnderWay' BY <1>1, <2>1, <2>4, LimitRuns
    <3>2. QED BY <1>1, <1>2, <1>3, <2>1, <3>1 DEF IInv, IsDb
  <2>5. QED BY <1>1, <1>3, <2>2, <2>3, <2>4 DEF IInv
<1>4. CASE ~call.atomic
  <2>1. PICK ids \in SUBSET Event : todo = <<Statement("delete", ids)>> /\ work = disk
    BY <1>1, <1>4 DEF IInv, OneUnderWay
  <2>2. Len(todo) = 1 /\ Head(todo) = Statement("delete", ids) BY <2>1
  <2>3. call' = None /\ disk' = work' BY <1>4, <2>2 DEF RunStatement, Finish
  <2>a. Effect(Statement("delete", ids), disk) = Erased(disk, ids) BY DEF Effect, Statement
  <2>4. work' = Erased(disk, ids) BY <1>1, <2>1, <2>2, <2>a, Zenon
  <2>5. IsDb(disk') BY <2>3, <2>4, ErasedIsDb
  <2>6. QED BY <1>2, <2>3, <2>5 DEF IInv, IsDb
<1>5. QED BY <1>3, <1>4

(* Every step keeps the invariant.                                         *)
LEMMA StepInv == IInv /\ [Next]_vars => IInv'
<1> SUFFICES ASSUME IInv, [Next]_vars PROVE IInv'
  OBVIOUS
<1> USE DEF IsDb
<1>1. CASE Call
  BY <1>1, CallStep
<1>2. CASE RunStatement
  BY <1>2, RunStep
<1>3. CASE Commit
  <2>1. IsDb(work) BY <1>3, DoneIsDb DEF Commit, Finish
  <2>2. QED BY <1>3, <2>1 DEF Commit, Finish, IInv
<1>4. CASE Rollback
  BY <1>4 DEF Rollback, IInv
<1>5. CASE Crash
  BY <1>5 DEF Crash, IInv
<1>6. CASE Close
  BY <1>6 DEF Close, IInv
<1>7. CASE Open
  <2>1. ASSUME NEW do, NEW ids, Chunked(do, ids) PROVE Chunked(do, ids)'
    BY <1>7, <2>1 DEF Open, Chunked
  <2>2. ListUnderWay => ListUnderWay' BY <1>7, <2>1 DEF Open, ListUnderWay, Names
  <2>3. /\ SaveUnderWay => SaveUnderWay'
        /\ LimitUnderWay => LimitUnderWay'
        /\ OneUnderWay => OneUnderWay'
    BY <1>7 DEF Open, SaveUnderWay, LimitUnderWay, OneUnderWay, NamesOne
  <2>4. QED BY <1>7, <2>2, <2>3 DEF Open, IInv
<1>8. CASE Tick
  BY <1>8 DEF Tick, IInv
<1>9. CASE UNCHANGED vars
  <2>1. ASSUME NEW do, NEW ids, Chunked(do, ids) PROVE Chunked(do, ids)'
    BY <1>9, <2>1 DEF vars, Chunked
  <2>2. ListUnderWay => ListUnderWay' BY <1>9, <2>1 DEF vars, ListUnderWay, Names
  <2>3. /\ SaveUnderWay => SaveUnderWay'
        /\ LimitUnderWay => LimitUnderWay'
        /\ OneUnderWay => OneUnderWay'
    BY <1>9 DEF vars, SaveUnderWay, LimitUnderWay, OneUnderWay, NamesOne
  <2>4. QED BY <1>9, <2>2, <2>3 DEF vars, IInv
<1>10. QED BY <1>1, <1>2, <1>3, <1>4, <1>5, <1>6, <1>7, <1>8, <1>9 DEF Next

-----------------------------------------------------------------------------
(* The table of StorageTable has the same rows, selections and evictions.  *)
LEMMA SameConstants ==
  /\ Table!Event = Event /\ Table!Authors = Authors /\ Table!Kinds = Kinds /\ Table!Times = Times
  /\ \A e : Table!IndexedTags(e) = IndexedTags(e)
  /\ \A e : Table!FirstD(e) = FirstD(e)
  /\ \A e : Table!IsDeletion(e) = IsDeletion(e)
  /\ \A e : Table!Retained(e) = Retained(e)
  /\ \A k : Table!ReplaceableKind(k) = ReplaceableKind(k)
  /\ \A k : Table!AddressableKind(k) = AddressableKind(k)
  /\ \A e, d : Table!HasIdentifier(e, d) = HasIdentifier(e, d)
  /\ Table!DValues = DValues
<1>1. /\ Table!Event = Event /\ Table!Authors = Authors /\ Table!Kinds = Kinds /\ Table!Times = Times
  BY DEF Table!Event, Event, Table!Authors, Authors, Table!Kinds, Kinds, Table!Times, Times
<1>2. \A e : Table!IndexedTags(e) = IndexedTags(e)
  BY DEF Table!IndexedTags, IndexedTags, Table!ToSet, ToSet
<1>3. \A e : Table!FirstD(e) = FirstD(e)
  BY DEF Table!FirstD, FirstD
<1>4. /\ \A e : Table!IsDeletion(e) = IsDeletion(e)
      /\ \A e : Table!Retained(e) = Retained(e)
      /\ \A k : Table!ReplaceableKind(k) = ReplaceableKind(k)
      /\ \A k : Table!AddressableKind(k) = AddressableKind(k)
  BY DEF Table!IsDeletion, IsDeletion, Table!Retained, Retained, Table!ReplaceableKind, ReplaceableKind,
         Table!AddressableKind, AddressableKind
<1>5. \A e, d : Table!HasIdentifier(e, d) = HasIdentifier(e, d)
  BY <1>3, <1>4, Zenon DEF Table!HasIdentifier, HasIdentifier
<1>6. Table!DValues = DValues
  BY <1>1, <1>3 DEF Table!DValues, DValues
<1>7. QED BY <1>1, <1>2, <1>3, <1>4, <1>5, <1>6

(* Under the refinement mapping the abstract storage changes rows as this  *)
(* module does.                                                            *)
LEMMA SameRows ==
  /\ \A R : Table!Rows(R) = Rows(R)
  /\ \A R, ids : Table!Without(R, ids) = Without(R, ids)
  /\ \A R, ids : Table!Validated(R, ids) = Validated(R, ids)
  /\ \A R, ids, time : Table!Touched(R, ids, time) = Touched(R, ids, time)
  /\ \A R, ids, time : Table!Accessed(R, ids, time) = Accessed(R, ids, time)
  /\ \A e, v, old, time : Table!Fresh(e, v, old, time) = Fresh(e, v, old, time)
BY SameConstants
DEF Table!Rows, Rows, Table!Without, Without, Table!Validated, Validated, Table!Touched, Touched,
    Table!Accessed, Accessed, Table!Update, Update, Table!Fresh, Fresh

(* It selects the same rows to delete.                                     *)
LEMMA SameSelections ==
  /\ \A rows, a, k : Table!Coordinate(rows, a, k) = Coordinate(rows, a, k)
  /\ \A rows, a, k, d : Table!WithDTag(rows, a, k, d) = WithDTag(rows, a, k, d)
  /\ \A rows, a, k, d, until : Table!AtAddress(rows, a, k, d, until) = AtAddress(rows, a, k, d, until)
  /\ \A rows, ids, a : Table!OwnAmong(rows, ids, a) = OwnAmong(rows, ids, a)
  /\ \A R, time : Table!Overdue(R, time) = Overdue(R, time)
<1>1. \A rows, a, k : Table!Coordinate(rows, a, k) = Coordinate(rows, a, k)
  BY DEF Table!Coordinate, Coordinate
<1>2. \A rows, a, k, d : Table!WithDTag(rows, a, k, d) = WithDTag(rows, a, k, d)
  BY <1>1, SameConstants DEF Table!WithDTag, WithDTag
<1>3. \A rows, a, k, d, until : Table!AtAddress(rows, a, k, d, until) = AtAddress(rows, a, k, d, until)
  BY <1>1, SameConstants DEF Table!AtAddress, AtAddress, Table!AtCoordinate, AtCoordinate
<1>4. \A rows, ids, a : Table!OwnAmong(rows, ids, a) = OwnAmong(rows, ids, a)
  BY SameConstants DEF Table!OwnAmong, OwnAmong
<1>5. \A R, time : Table!Overdue(R, time) = Overdue(R, time)
  BY SameRows, SameConstants DEF Table!Overdue, Overdue
<1>6. QED BY <1>1, <1>2, <1>3, <1>4, <1>5

(* It evicts the same rows.                                                *)
LEMMA SameEvictions ==
  /\ \A R : Table!Unprotected(R) = Unprotected(R)
  /\ \A R : Table!AnyRows(R) = AnyRows(R)
<1>0. \A S : Table!Cardinality(S) = Cardinality(S)
  BY Zenon DEF Table!Cardinality, Cardinality
<1>1. \A a, b : Table!Before(a, b) = Before(a, b)
  BY DEF Table!Before, Before
<1>2. \A e, row : Table!Rank(e, row) = Rank(e, row)
  BY DEF Table!Rank, Rank
<1>3. ASSUME NEW S, NEW R, NEW n PROVE Table!FirstOut(S, R, n) = FirstOut(S, R, n)
  <2>1. ASSUME NEW e
        PROVE  {x \in S : Table!Before(Table!Rank(x, R[x]), Table!Rank(e, R[e]))}
                 = {x \in S : Before(Rank(x, R[x]), Rank(e, R[e]))}
    BY <1>1, <1>2
  <2>2. QED BY <1>0, <2>1 DEF Table!FirstOut, FirstOut
<1>4. ASSUME NEW R PROVE Table!Excess(R) = Excess(R)
  <2>1. Table!Rows(R) = Rows(R) BY SameRows
  <2>2. QED BY <1>0, <2>1, Zenon DEF Table!Excess, Excess
<1>5. QED
  BY <1>3, <1>4, SameRows, SameConstants DEF Table!Unprotected, Unprotected, Table!AnyRows, AnyRows

-----------------------------------------------------------------------------
(* A method that goes through its ids is one write of the table.           *)
LEMMA Deletes ==
  ASSUME NEW ids, disk'.rows = Without(disk.rows, ids),
         disk'.tags = [e \in Event |-> IF e \in ids THEN {} ELSE disk.tags[e]]
  PROVE  Table!Delete(ids)
BY SameRows, SameConstants DEF Table!Delete

(* A list of ids carried out is one step of the abstract method.           *)
LEMMA ListWrites ==
  ASSUME IsDb(disk), NEW do \in Listing, NEW ids \in SUBSET Event, NEW method, Names(method, do, ids),
         disk' = PartDone(do, ids, disk, now), done' = method
  PROVE  Table!Write
<1>1. /\ disk.rows = [e \in Event |-> disk.rows[e]] /\ disk.tags = [e \in Event |-> disk.tags[e]]
  BY DEF IsDb
<1>2. CASE do = "validate"
  <2>1. disk'.rows = Validated(disk.rows, ids) /\ disk'.tags = disk.tags
    BY <1>1, <1>2 DEF PartDone, RowAfter, TagsAfter, Validated, Update
  <2>2. Table!MarkValidated(ids) BY <2>1, SameRows DEF Table!MarkValidated
  <2>3. done' = <<"markValidated", ids>> BY <1>2 DEF Names
  <2>4. QED BY <2>2, <2>3, SameConstants, Zenon DEF Table!Write
<1>3. CASE do = "touch"
  <2>1. disk'.rows = Touched(disk.rows, ids, now) /\ disk'.tags = disk.tags
    BY <1>1, <1>3 DEF PartDone, RowAfter, TagsAfter, Touched, Update
  <2>2. Table!TouchCachedAt(ids) BY <2>1, SameRows DEF Table!TouchCachedAt
  <2>3. done' = <<"touchCachedAt", ids>> BY <1>3 DEF Names
  <2>4. QED BY <2>2, <2>3, SameConstants, Zenon DEF Table!Write
<1>4. CASE do = "track"
  <2>1. disk'.rows = Accessed(disk.rows, ids, now) /\ disk'.tags = disk.tags
    BY <1>1, <1>4 DEF PartDone, RowAfter, TagsAfter, Accessed, Update
  <2>2. Table!TrackAccess(ids) BY <2>1, SameRows DEF Table!TrackAccess
  <2>3. done' = <<"trackAccess", ids>> BY <1>4 DEF Names
  <2>4. QED BY <2>2, <2>3, SameConstants, Zenon DEF Table!Write
<1>5. CASE do = "delete"
  <2>1. disk'.rows = Without(disk.rows, ids)
    BY <1>5 DEF PartDone, RowAfter, Without
  <2>2. disk'.tags = [e \in Event |-> IF e \in ids THEN {} ELSE disk.tags[e]]
    BY <1>5 DEF PartDone, TagsAfter
  <2>3. Table!Delete(ids) BY <2>1, <2>2, Deletes
  <2>4. PICK a \in Authors :
          \/ \E list \in SUBSET Event :
               /\ method = <<"deleteEventsByIdsForPubkey", list, a>>
               /\ ids = OwnAmong(Rows(disk.rows), list, a)
          \/ \E k \in Kinds, d \in DValues :
               \/ /\ method = <<"deleteEventsByPubkeyKindAndDTag", a, k, d>>
                  /\ ids = WithDTag(Rows(disk.rows), a, k, d)
               \/ \E until \in Times :
                    /\ method = <<"deleteEventsByAddress", a, k, d, until>>
                    /\ ids = AtAddress(Rows(disk.rows), a, k, d, until)
    BY <1>5 DEF Names
  <2>5. ASSUME NEW list \in SUBSET Event, method = <<"deleteEventsByIdsForPubkey", list, a>>,
               ids = OwnAmong(Rows(disk.rows), list, a)
        PROVE  Table!Write
    <3>1. Table!Delete(Table!OwnAmong(Table!Rows(disk.rows), list, a))
      BY <2>3, <2>5, SameRows, SameSelections
    <3>2. QED BY <2>5, <3>1, SameConstants, Zenon DEF Table!Write
  <2>6. ASSUME NEW k \in Kinds, NEW d \in DValues, method = <<"deleteEventsByPubkeyKindAndDTag", a, k, d>>,
               ids = WithDTag(Rows(disk.rows), a, k, d)
        PROVE  Table!Write
    <3>1. Table!Delete(Table!WithDTag(Table!Rows(disk.rows), a, k, d))
      BY <2>3, <2>6, SameRows, SameSelections
    <3>2. QED BY <2>6, <3>1, SameConstants, Zenon DEF Table!Write
  <2>7. ASSUME NEW k \in Kinds, NEW d \in DValues, NEW until \in Times,
               method = <<"deleteEventsByAddress", a, k, d, until>>,
               ids = AtAddress(Rows(disk.rows), a, k, d, until)
        PROVE  Table!Write
    <3>1. Table!Delete(Table!AtAddress(Table!Rows(disk.rows), a, k, d, until))
      BY <2>3, <2>7, SameRows, SameSelections
    <3>2. QED BY <2>7, <3>1, SameConstants, Zenon DEF Table!Write
  <2>8. QED BY <2>4, <2>5, <2>6, <2>7
<1>6. QED BY <1>2, <1>3, <1>4, <1>5 DEF Listing

(* So are the others.                                                      *)
LEMMA SaveWrites ==
  ASSUME IsDb(disk), NEW e \in Event, NEW verified \in BOOLEAN, done' = <<"saveEvent", e, verified>>,
         disk' = [[rows |-> [disk.rows EXCEPT ![e] = Fresh(e, verified, disk.rows[e], now)], tags |-> disk.tags]
                  EXCEPT !.tags = [disk.tags EXCEPT ![e] = IndexedTags(e)]]
  PROVE  Table!Write
<1> DEFINE R == [disk.rows EXCEPT ![e] = Fresh(e, verified, disk.rows[e], now)]
           G == [disk.tags EXCEPT ![e] = IndexedTags(e)]
<1>1. disk' = [rows |-> R, tags |-> G]
  <2> HIDE DEF R, G
  <2>1. QED BY Replaced, Zenon DEF R, G
<1>2. disk'.rows = R /\ disk'.tags = G
  <2> HIDE DEF R, G
  <2>1. QED BY <1>1
<1>3. Table!SaveEvent(e, verified)
  BY <1>2, SameRows, SameConstants, Zenon DEF Table!SaveEvent
<1>4. QED BY <1>3, SameConstants, Zenon DEF Table!Write

(* Both passes of an eviction are one step of the abstract enforceLimit.   *)
LEMMA LimitWrites ==
  ASSUME NEW first, first = Erased(disk, Unprotected(disk.rows)),
         disk' = Erased(first, AnyRows(first.rows)), done' = <<"enforceLimit">>
  PROVE  Table!Write
<1> DEFINE out == Unprotected(disk.rows)
           R == Without(disk.rows, out)
           more == AnyRows(R)
<1>1. first.rows = R /\ first.tags = [e \in Event |-> IF e \in out THEN {} ELSE disk.tags[e]]
  BY DEF Erased
<1>2. /\ disk'.rows = Without(R, more)
      /\ disk'.tags = [e \in Event |-> IF e \in more THEN {} ELSE first.tags[e]]
  BY <1>1 DEF Erased
<1>3. Without(R, more) = Without(disk.rows, out \cup more)
  <2> HIDE DEF more, out
  <2>1. QED BY DEF Without
<1>4. disk'.tags = [e \in Event |-> IF e \in out \cup more THEN {} ELSE disk.tags[e]]
  <2> HIDE DEF more, out
  <2>1. QED BY <1>1, <1>2
<1>5. Table!Delete(out \cup more) BY <1>2, <1>3, <1>4, Deletes
<1>6. Table!EnforceLimit BY <1>5, SameEvictions, SameRows, Zenon DEF Table!EnforceLimit
<1>7. QED BY <1>6, Zenon DEF Table!Write

(* An autocommitted delete is one step of the abstract one.                *)
LEMMA OneWrites ==
  ASSUME NEW ids, NEW method, NamesOne(method, ids), disk' = Erased(disk, ids), done' = method
  PROVE  Table!Write
<1>1. Table!Delete(ids)
  <2>1. /\ disk'.rows = Without(disk.rows, ids)
        /\ disk'.tags = [e \in Event |-> IF e \in ids THEN {} ELSE disk.tags[e]]
    BY DEF Erased
  <2>2. QED BY <2>1, Deletes
<1>2. ASSUME NEW e \in Event, method = <<"deleteEvent", e>>, ids = {e} PROVE Table!Write
  BY <1>1, <1>2, SameConstants, Zenon DEF Table!Write
<1>3. ASSUME method = <<"clear">>, ids = Event PROVE Table!Write
  BY <1>1, <1>3, SameConstants, Zenon DEF Table!Write
<1>4. ASSUME NEW time \in Clock, method = <<"deleteExpired", time>>, ids = Overdue(disk.rows, time) PROVE Table!Write
  <2>1. Table!DeleteExpired(time) BY <1>1, <1>4, SameSelections DEF Table!DeleteExpired
  <2>2. QED BY <1>4, <2>1, Zenon DEF Table!Write
<1>5. ASSUME NEW a \in Authors, NEW k \in Kinds, method = <<"deleteEventsByPubkeyAndKind", a, k>>,
             ids = Coordinate(Rows(disk.rows), a, k)
      PROVE  Table!Write
  <2>1. Table!Delete(Table!Coordinate(Table!Rows(disk.rows), a, k))
    BY <1>1, <1>5, SameRows, SameSelections
  <2>2. QED BY <1>5, <2>1, SameConstants, Zenon DEF Table!Write
<1>6. QED BY <1>2, <1>3, <1>4, <1>5 DEF NamesOne

-----------------------------------------------------------------------------
(* The committed database begins as the table does.                        *)
LEMMA TableBegins == Init => Table!TableInit
<1> SUFFICES ASSUME Init PROVE Table!TableInit
  OBVIOUS
<1>1. PICK S \in SUBSET Event : disk =
        [rows |-> [e \in Event |-> IF e \in S THEN Fresh(e, FALSE, None, 0) ELSE None],
         tags |-> [e \in Event |-> IF e \in S THEN IndexedTags(e) ELSE {}]]
  BY DEF Init
<1>2. /\ disk.rows = [e \in Event |-> IF e \in S THEN Table!Fresh(e, FALSE, None, 0) ELSE None]
      /\ disk.tags = [e \in Event |-> IF e \in S THEN Table!IndexedTags(e) ELSE {}]
  BY <1>1, SameRows, SameConstants
<1>3. now = 0 /\ done = <<>> BY DEF Init
<1>4. QED BY <1>2, <1>3, SameConstants, Zenon DEF Table!TableInit

(* Every step of the methods, a failure or a death of the process included,*)
(* is one write of the table, a reading of the clock or nothing.           *)
LEMMA TableSteps ==
  ASSUME IInv, Next
  PROVE  Table!TableNext \/ UNCHANGED Table!tableVars
<1>1. CASE Call
  <2> DEFINE Kept == UNCHANGED Table!tableVars
  <2>1. \A method, statements : InTransaction(method, statements) => Kept
    BY DEF InTransaction, Begin, Table!tableVars
  <2>2. \A method, statement : Autocommit(method, statement) => Kept
    BY DEF Autocommit, Begin, Table!tableVars
  <2> HIDE DEF Kept
  <2>3. /\ \A e, verified : SaveEvent(e, verified) => Kept
        /\ \A ids : MarkValidated(ids) \/ TouchCachedAt(ids) => Kept
        /\ \A F : GetEvents(F) => Kept
    BY <2>1, Zenon DEF SaveEvent, MarkValidated, TouchCachedAt, GetEvents
  <2>4. (\A e : DeleteEvent(e) => Kept) /\ (Clear => Kept)
    BY <2>2, Zenon DEF DeleteEvent, Clear
  <2>5. (EnforceLimit => Kept) /\ (JudgeOldest(1) => Kept)
    BY <2>1, <2>3, Zenon DEF EnforceLimit, JudgeOldest
  <2>6. \A time : DeleteExpired(time) => Kept
    BY <2>2, Zenon DEF DeleteExpired
  <2>7. \A a, k : DeleteByPubkeyAndKind(a, k) => Kept
    BY <2>2, Zenon DEF DeleteByPubkeyAndKind
  <2>8. \A a, k, d : DeleteByDTag(a, k, d) => Kept
    BY <2>1, Zenon DEF DeleteByDTag
  <2>9. \A a, k, d, until : DeleteByAddress(a, k, d, until) => Kept
    BY <2>1, Zenon DEF DeleteByAddress
  <2>10. \A ids, a : DeleteByIds(ids, a) => Kept
    BY <2>1, Zenon DEF DeleteByIds
  <2>11. Kept
    BY <1>1, <2>3, <2>4, <2>5, <2>6, <2>7, <2>8, <2>9, <2>10, Zenon DEF Call
  <2>12. QED BY <2>11 DEF Kept
<1>2. CASE RunStatement
  <2>1. CASE call.atomic
    BY <1>2, <2>1 DEF RunStatement, Finish, Table!tableVars
  <2>2. CASE ~call.atomic
    <3>1. call # None /\ todo # <<>> /\ work' = Effect(Head(todo), work) /\ now' = now
      BY <1>2 DEF RunStatement
    <3>2. PICK ids \in SUBSET Event :
            NamesOne(call.method, ids) /\ todo = <<Statement("delete", ids)>> /\ work = disk
      BY <2>2, <3>1 DEF IInv, OneUnderWay
    <3>3. Len(todo) = 1 /\ Head(todo) = Statement("delete", ids) BY <3>2
    <3>4. done' = call.method /\ disk' = work' BY <1>2, <2>2, <3>3 DEF RunStatement, Finish
    <3>5. Effect(Statement("delete", ids), disk) = Erased(disk, ids) BY DEF Effect, Statement
    <3>6. disk' = Erased(disk, ids) BY <3>1, <3>2, <3>3, <3>4, <3>5, Zenon
    <3>7. Table!Write BY <3>2, <3>4, <3>6, OneWrites
    <3>8. QED BY <3>1, <3>7 DEF Table!TableNext
  <2>3. QED BY <2>1, <2>2
<1>3. CASE Commit
  <2>1. /\ call # None /\ call.atomic /\ todo = <<>>
        /\ disk' = work /\ done' = call.method /\ now' = now
    BY <1>3 DEF Commit, Finish
  <2>2. IsDb(disk) BY DEF IInv
  <2>3. CASE ListUnderWay
    <3>1. PICK do \in Listing, ids \in SUBSET Event : Names(call.method, do, ids) /\ Chunked(do, ids)
      BY <2>3 DEF ListUnderWay, Listing
    <3>2. disk' = PartDone(do, ids, disk, now) BY <2>1, <3>1, ListDone DEF Carried
    <3>3. QED BY <2>1, <2>2, <3>1, <3>2, ListWrites DEF Table!TableNext
  <2>4. CASE SaveUnderWay
    <3>1. PICK e \in Event, verified \in BOOLEAN :
            /\ call.method = <<"saveEvent", e, verified>>
            /\ work = [[rows |-> [disk.rows EXCEPT ![e] = Fresh(e, verified, disk.rows[e], now)], tags |-> disk.tags]
                       EXCEPT !.tags = [disk.tags EXCEPT ![e] = IndexedTags(e)]]
      BY <2>1, <2>4 DEF SaveUnderWay
    <3>2. QED BY <2>1, <2>2, <3>1, SaveWrites DEF Table!TableNext
  <2>5. CASE LimitUnderWay
    <3>1. PICK first : first = Erased(disk, Unprotected(disk.rows)) OBVIOUS
    <3>2. call.method = <<"enforceLimit">> /\ work = Erased(first, AnyRows(first.rows))
      BY <2>1, <2>5, <3>1 DEF LimitUnderWay
    <3>3. QED BY <2>1, <3>1, <3>2, LimitWrites DEF Table!TableNext
  <2>6. QED BY <2>1, <2>3, <2>4, <2>5 DEF IInv
<1>4. CASE Rollback \/ Crash \/ Close \/ Open
  BY <1>4 DEF Rollback, Crash, Close, Open, Table!tableVars
<1>5. CASE Tick
  BY <1>5 DEF Tick, Table!TableNext, Table!Tick
<1>6. QED BY <1>1, <1>2, <1>3, <1>4, <1>5 DEF Next

(* sqlite-storage.ts, whatever statement fails and wherever the process    *)
(* dies, is the table that its users rely on: every method that reports    *)
(* success has happened as a whole, any other one not at all.              *)
THEOREM SqliteImplementsTable == Spec => ImplementsTable
<1>1. Init => IInv /\ Table!TableInit
  BY InitInv, TableBegins
<1>2. IInv /\ [Next]_vars => IInv' /\ [Table!TableNext]_(Table!tableVars)
  <2>1. ASSUME UNCHANGED vars PROVE UNCHANGED Table!tableVars BY <2>1 DEF vars, Table!tableVars
  <2>2. QED BY <2>1, StepInv, TableSteps
<1>3. QED BY <1>1, <1>2, PTL DEF Spec, ImplementsTable, Table!TableSpec

-----------------------------------------------------------------------------
(* Reading.  Some number of a set of natural numbers is the least: what    *)
(* takes the place of induction below.                                     *)
LEMMA LeastNumber ==
  ASSUME NEW T, T \subseteq Nat, T # {}
  PROVE  \E n \in T : \A m \in T : n <= m
<1> DEFINE R == {ss \in Nat \X Nat : ss[1] < ss[2]}
<1>1. IsWellFoundedOn(R, Nat)
  BY NatLessThanWellFounded DEF OpToRel
<1>2. \A x, y \in Nat : y < x => <<y, x>> \in R
  OBVIOUS
<1> HIDE DEF R
<1>3. PICK n \in T : \A m \in T : ~ (<<m, n>> \in R)
  BY <1>1, WFMin
<1>4. \A m \in T : ~ (m < n)
  BY <1>2, <1>3
<1>5. QED BY <1>4

(* The newer of two events: a strict total order.                          *)
LEMMA NewerOrders ==
  /\ \A a, b, c \in Event : Newer(a, b) /\ Newer(b, c) => Newer(a, c)
  /\ \A a \in Event : ~Newer(a, a)
  /\ \A a, b \in Event : a = b \/ Newer(a, b) \/ Newer(b, a)
<1>1. \A e \in Event : e \in Nat /\ Ev[e].at \in Int
  BY FiltersAssumption
<1>2. QED BY <1>1 DEF Newer

(* Sets of events are finite, and a part is no larger than the whole.      *)
LEMMA EventSets ==
  /\ \A S \in SUBSET Event : IsFiniteSet(S) /\ Cardinality(S) \in Nat
  /\ \A S \in SUBSET Event : \A T \in SUBSET S : Cardinality(T) <= Cardinality(S)
  /\ \A S \in SUBSET Event : \A T \in SUBSET S : T # S => Cardinality(T) < Cardinality(S)
<1>1. \A S \in SUBSET Event : IsFiniteSet(S) /\ Cardinality(S) \in Nat
  BY FiltersAssumption, FS_Subset, FS_CardinalityType
<1>2. ASSUME NEW S \in SUBSET Event, NEW T \in SUBSET S
      PROVE  /\ Cardinality(T) <= Cardinality(S) /\ (Cardinality(S) = Cardinality(T) => S = T)
             /\ Cardinality(T) \in Nat /\ Cardinality(S) \in Nat
  <2>1. T \in SUBSET Event OBVIOUS
  <2>2. QED BY <1>1, <2>1, FS_Subset
<1>3. QED BY <1>1, <1>2

(* capEvents a second time changes nothing.                                *)
LEMMA CapTwice ==
  ASSUME NEW S \in SUBSET Event, NEW n \in Nat
  PROVE  CapEvents(CapEvents(S, n), n) = CapEvents(S, n)
<1>1. ASSUME NEW e \in CapEvents(S, n)
      PROVE  Cardinality({x \in CapEvents(S, n) : Newer(x, e)}) < n
  <2> DEFINE all == {x \in S : Newer(x, e)}
             some == {x \in CapEvents(S, n) : Newer(x, e)}
  <2>1. Cardinality(all) < n
    BY DEF CapEvents
  <2>2. all \in SUBSET Event /\ some \in SUBSET all
    BY DEF CapEvents
  <2>3. Cardinality(all) \in Nat /\ Cardinality(some) <= Cardinality(all)
    BY <2>2, EventSets
  <2>4. Cardinality(some) \in Nat
    BY <2>2, EventSets
  <2>5. QED BY <2>1, <2>3, <2>4
<1>2. QED BY <1>1 DEF CapEvents

(* Rows left out beforehand do not matter to capEvents when enough newer   *)
(* ones are kept for each.                                                 *)
LEMMA CapOfEnough ==
  ASSUME NEW S \in SUBSET Event, NEW T \in SUBSET S, NEW n \in Nat,
         \A e \in S \ T : Cardinality({x \in T : Newer(x, e)}) >= n
  PROVE  CapEvents(T, n) = CapEvents(S, n)
<1> DEFINE newer(X, e) == {x \in X : Newer(x, e)}
<1>1. ASSUME NEW e \in S PROVE /\ newer(S, e) \in SUBSET Event /\ newer(T, e) \in SUBSET newer(S, e)
                               /\ Cardinality(newer(S, e)) \in Nat /\ Cardinality(newer(T, e)) \in Nat
                               /\ Cardinality(newer(T, e)) <= Cardinality(newer(S, e))
  <2>1. newer(S, e) \in SUBSET Event /\ newer(T, e) \in SUBSET newer(S, e) /\ newer(T, e) \in SUBSET Event
    OBVIOUS
  <2> HIDE DEF newer
  <2>2. QED BY <2>1, EventSets
<1>2. ASSUME NEW e \in S, Cardinality(newer(T, e)) < n PROVE newer(T, e) = newer(S, e)
  <2>1. SUFFICES ASSUME NEW x \in S, Newer(x, e), x \notin T PROVE FALSE
    OBVIOUS
  <2>2. Cardinality(newer(T, x)) >= n
    BY <2>1
  <2>3. newer(T, x) \in SUBSET newer(T, e)
    BY <2>1, NewerOrders
  <2>4. newer(T, e) \in SUBSET Event OBVIOUS
  <2> HIDE DEF newer
  <2>5. Cardinality(newer(T, x)) <= Cardinality(newer(T, e))
    BY <2>3, <2>4, EventSets
  <2>6. QED BY <1>1, <1>2, <2>1, <2>2, <2>5
<1>3. ASSUME NEW e \in S PROVE e \in CapEvents(T, n) <=> e \in CapEvents(S, n)
  <2>1. e \in CapEvents(S, n) <=> Cardinality(newer(S, e)) < n
    BY DEF CapEvents
  <2>2. e \in CapEvents(T, n) <=> e \in T /\ Cardinality(newer(T, e)) < n
    BY DEF CapEvents
  <2>3. e \notin T => Cardinality(newer(T, e)) >= n
    OBVIOUS
  <2> HIDE DEF newer
  <2>4. Cardinality(newer(T, e)) < n => e \in T BY <1>1, <2>3
  <2>5. QED BY <1>1, <1>2, <2>1, <2>2, <2>4
<1>4. CapEvents(T, n) \subseteq S /\ CapEvents(S, n) \subseteq S
  BY DEF CapEvents
<1>5. QED BY <1>3, <1>4

(* readNewest leaves out a row only for as many newer ones of its range as *)
(* there is room for.                                                      *)
LEMMA ReadNewestKeepsEnough ==
  ASSUME NEW range \in SUBSET Event, NEW f, NEW n \in Nat,
         NEW e \in range, Matches(e, f), e \notin ReadNewest(range, f, n)
  PROVE  Cardinality({x \in ReadNewest(range, f, n) : Ev[x].at > Ev[e].at}) >= n
<1> DEFINE kept == {x \in range : Matches(x, f)}
           read == ReadNewest(range, f, n)
           later(y) == {x \in kept : Ev[x].at > Ev[y].at}
           missing == kept \ read
           sizes == {Cardinality(later(y)) : y \in missing}
<1>1. read = {y \in kept : Cardinality(later(y)) < n}
  BY DEF ReadNewest
<1>2. kept \in SUBSET Event /\ e \in missing /\ read \in SUBSET kept
  BY <1>1
<1>3. \A y \in kept : later(y) \in SUBSET Event /\ Cardinality(later(y)) \in Nat
  <2> SUFFICES ASSUME NEW y \in kept PROVE later(y) \in SUBSET Event /\ Cardinality(later(y)) \in Nat
    OBVIOUS
  <2>1. later(y) \in SUBSET Event BY <1>2
  <2> HIDE DEF later
  <2>2. QED BY <2>1, EventSets
<1>4. PICK y \in missing : \A z \in missing : Cardinality(later(y)) <= Cardinality(later(z))
  <2>1. sizes \subseteq Nat /\ sizes # {} BY <1>2, <1>3
  <2>2. PICK k \in sizes : \A m \in sizes : k <= m BY <2>1, LeastNumber
  <2>3. PICK y \in missing : k = Cardinality(later(y)) BY <2>2
  <2>4. \A z \in missing : Cardinality(later(z)) \in sizes OBVIOUS
  <2> HIDE DEF later, sizes
  <2>5. \A z \in missing : k <= Cardinality(later(z)) BY <2>2, <2>4
  <2>6. QED BY <2>3, <2>5, Zenon
<1>5. \A a, b \in kept : Ev[a].at > Ev[b].at => Cardinality(later(a)) < Cardinality(later(b))
  <2> SUFFICES ASSUME NEW a \in kept, NEW b \in kept, Ev[a].at > Ev[b].at
      PROVE Cardinality(later(a)) < Cardinality(later(b))
    OBVIOUS
  <2>1. \A x \in kept : Ev[x].at \in Int BY <1>2, FiltersAssumption
  <2>2. later(a) \in SUBSET later(b) BY <2>1
  <2>3. a \in later(b) /\ a \notin later(a) BY <2>1
  <2>4. later(b) \in SUBSET Event BY <1>3
  <2> HIDE DEF later
  <2>5. QED BY <2>2, <2>3, <2>4, EventSets
<1>6. Ev[y].at >= Ev[e].at
  <2>1. Ev[y].at \in Int /\ Ev[e].at \in Int BY <1>2, FiltersAssumption
  <2>2. Cardinality(later(y)) <= Cardinality(later(e)) /\ Cardinality(later(y)) \in Nat /\ Cardinality(later(e)) \in Nat
    BY <1>2, <1>3, <1>4
  <2>3. Ev[e].at > Ev[y].at => Cardinality(later(e)) < Cardinality(later(y)) BY <1>2, <1>5
  <2> HIDE DEF later
  <2>4. QED BY <2>1, <2>2, <2>3
<1>7. later(y) \subseteq read
  <2> SUFFICES ASSUME NEW z \in later(y), z \notin read PROVE FALSE
    OBVIOUS
  <2>1. z \in missing /\ y \in kept /\ Ev[z].at > Ev[y].at OBVIOUS
  <2>2. Cardinality(later(z)) < Cardinality(later(y)) BY <1>5, <2>1
  <2>3. Cardinality(later(y)) <= Cardinality(later(z)) /\ Cardinality(later(y)) \in Nat /\ Cardinality(later(z)) \in Nat
    BY <1>3, <1>4, <2>1
  <2> HIDE DEF later
  <2>4. QED BY <2>2, <2>3
<1>8. later(y) \in SUBSET {x \in read : Ev[x].at > Ev[e].at}
  <2>1. \A x \in kept : Ev[x].at \in Int BY <1>2, FiltersAssumption
  <2>2. QED BY <1>2, <1>6, <1>7, <2>1
<1>9. {x \in read : Ev[x].at > Ev[e].at} \in SUBSET Event
  BY <1>2
<1>10. Cardinality(later(y)) <= Cardinality({x \in read : Ev[x].at > Ev[e].at})
       /\ Cardinality({x \in read : Ev[x].at > Ev[e].at}) \in Nat
  <2> HIDE DEF later, read
  <2>1. QED BY <1>8, <1>9, EventSets
<1>11. ~(Cardinality(later(y)) < n) /\ Cardinality(later(y)) \in Nat
  BY <1>1, <1>3
<1> HIDE DEF later
<1>12. QED BY <1>10, <1>11

(* Hits of ranges without a row in common are counted like their rows.     *)
LEMMA HitsCount ==
  ASSUME NEW C, NEW hit, \A c \in C : hit[c] \in SUBSET Event,
         \A c, d \in C : c # d => hit[c] \cap hit[d] = {}, NEW n \in Nat,
         NEW hits, hits = UNION {{c} \X hit[c] : c \in C},
         NEW rows, rows = UNION {hit[c] : c \in C}
  PROVE  CapHits(hits, n) = CapEvents(rows, n)
<1> DEFINE first(e) == {y \in hits : Newer(y[2], e)}
           newer(e) == {x \in rows : Newer(x, e)}
<1>1. rows \in SUBSET Event OBVIOUS
<1>2. \A y \in hits : y = <<y[1], y[2]>> /\ y[1] \in C /\ y[2] \in hit[y[1]] /\ y[2] \in rows
  OBVIOUS
<1>3. \A e \in rows : \E y \in hits : y[2] = e
  <2> SUFFICES ASSUME NEW e \in rows PROVE \E y \in hits : y[2] = e
    OBVIOUS
  <2>1. PICK c \in C : e \in hit[c] OBVIOUS
  <2>2. <<c, e>> \in hits BY <2>1
  <2>3. <<c, e>>[2] = e OBVIOUS
  <2>4. QED BY <2>2, <2>3
<1>4. \A y, z \in hits : y[2] = z[2] => y = z
  <2> SUFFICES ASSUME NEW y \in hits, NEW z \in hits, y[2] = z[2] PROVE y = z
    OBVIOUS
  <2>1. y[1] = z[1] BY <1>2
  <2>2. QED BY <1>2, <2>1
<1>5. ASSUME NEW e PROVE Cardinality(first(e)) = Cardinality(newer(e))
  <2> DEFINE place == [x \in newer(e) |-> CHOOSE y \in hits : y[2] = x]
  <2>1. \A x \in newer(e) : place[x] \in hits /\ place[x][2] = x
    BY <1>3
  <2>2. \A x \in newer(e) : place[x] \in first(e)
    BY <2>1
  <2>3. \A y \in first(e) : y[2] \in newer(e) /\ place[y[2]] = y
    BY <1>2, <1>4, <2>1
  <2>4. place \in [newer(e) -> first(e)]
    BY <2>2
  <2>a. \A x, z \in newer(e) : place[x] = place[z] => x = z
    BY <2>1
  <2>b. \A y \in first(e) : \E x \in newer(e) : place[x] = y
    BY <2>3
  <2>5. ExistsBijection(newer(e), first(e))
    <3> HIDE DEF newer, first, place
    <3>1. QED BY <2>4, <2>a, <2>b DEF ExistsBijection, Bijection, Injection, IsInjective, Surjection
  <2>6. newer(e) \in SUBSET Event BY <1>1
  <2> HIDE DEF newer, first
  <2>7. QED BY <2>5, <2>6, EventSets, FS_Bijection
<1>6. ASSUME NEW e \in CapHits(hits, n) PROVE e \in CapEvents(rows, n)
  <2>1. PICK y \in hits : e = y[2] /\ Cardinality(first(y[2])) < n
    BY DEF CapHits
  <2>2. QED BY <1>2, <1>5, <2>1 DEF CapEvents
<1>7. ASSUME NEW e \in CapEvents(rows, n) PROVE e \in CapHits(hits, n)
  <2>1. e \in rows /\ Cardinality(newer(e)) < n BY DEF CapEvents
  <2>2. PICK y \in hits : y[2] = e BY <1>3, <2>1
  <2>3. Cardinality(first(y[2])) < n BY <1>5, <2>1, <2>2
  <2>4. QED BY <2>2, <2>3 DEF CapHits
<1>8. QED BY <1>6, <1>7

(* Each value of a list stands at one of its places, and at one only.      *)
LEMMA PlacesStand ==
  ASSUME NEW X, NEW list \in {None} \cup Seq(X)
  PROVE  /\ Places(list) # {} => Given(list)
         /\ Given(list) => Places(list) # {}
         /\ Given(list) => list \in Seq(X)
         /\ \A x : Given(list) /\ Listed(list, x) => \E i \in Places(list) : list[i] = x
         /\ \A i, j \in Places(list) : i # j => list[i] # list[j]
<1>1. Places(list) # {} => Given(list)
  BY DEF Places
<1>2. Given(list) => list \in Seq(X) /\ list # <<>>
  BY DEF Given
<1>3. ASSUME NEW x, Given(list), Listed(list, x) PROVE \E i \in Places(list) : list[i] = x
  <2> DEFINE at == {i \in DOMAIN list : list[i] = x}
  <2>1. DOMAIN list \subseteq Nat /\ DOMAIN list = 1 .. Len(list) /\ Len(list) \in Nat BY <1>2, <1>3
  <2>2. at # {} /\ at \subseteq Nat BY <1>3, <2>1 DEF Listed, Given
  <2>3. PICK i \in at : \A j \in at : i <= j BY <2>2, LeastNumber
  <2>4. \A j \in 1 .. i - 1 : list[j] # list[i]
    <3> SUFFICES ASSUME NEW j \in 1 .. i - 1, list[j] = list[i] PROVE FALSE
      OBVIOUS
    <3>1. j \in at BY <2>1, <2>3
    <3>2. QED BY <2>1, <2>3, <3>1
  <2>5. QED BY <1>3, <2>3, <2>4 DEF Places
<1>4. Given(list) => Places(list) # {}
  <2> SUFFICES ASSUME Given(list) PROVE Places(list) # {}
    OBVIOUS
  <2>1. 1 \in DOMAIN list BY <1>2
  <2>2. Listed(list, list[1]) BY <2>1 DEF Listed
  <2>3. QED BY <1>3, <2>2
<1>5. ASSUME NEW i \in Places(list), NEW j \in Places(list), i # j PROVE list[i] # list[j]
  <2>1. Given(list) BY <1>1, <1>5
  <2>2. DOMAIN list \subseteq Nat /\ DOMAIN list = 1 .. Len(list) /\ Len(list) \in Nat BY <1>2, <2>1
  <2>3. i \in DOMAIN list /\ j \in DOMAIN list BY <2>1 DEF Places
  <2>4. (i < j => list[i] # list[j]) /\ (j < i => list[j] # list[i])
    BY <2>1, <2>2, <2>3 DEF Places
  <2>5. i < j \/ j < i BY <1>5, <2>2, <2>3
  <2>6. QED BY <2>4, <2>5
<1>6. QED BY <1>1, <1>2, <1>3, <1>4, <1>5

(* Whatever planQuery chooses, no two of its ranges share a row, and every *)
(* row the filter selects is in one of them.                               *)
LEMMA CursorsPartition ==
  ASSUME NEW f \in Filter, NEW rows \in SUBSET Event
  PROVE  LET range == Cursors(f, rows)
         IN  /\ \A c \in DOMAIN range : range[c] \in SUBSET rows
             /\ \A c, d \in DOMAIN range : c # d => range[c] \cap range[d] = {}
             /\ \A e \in rows : Matches(e, f) => \E c \in DOMAIN range : e \in range[c]
<1> DEFINE timely == ByTime(f, rows)
           people == Places(f.authors)
           kinds  == Places(f.kinds)
           seeks  == Cardinality(people) * (IF kinds = {} THEN 1 ELSE Cardinality(kinds))
           range == Cursors(f, rows)
           author(e) == Ev[e].author
           kind(e) == Ev[e].kind
<1>1. f.authors \in {None} \cup Seq({Ev[e].author : e \in Event}) /\ f.kinds \in {None} \cup Seq(Nat)
  BY DEF Filter
<1>2. timely \subseteq rows /\ \A e \in rows : Matches(e, f) => e \in timely
  BY DEF ByTime, Matches
<1>3. /\ \A i, j \in people : i # j => f.authors[i] # f.authors[j]
      /\ \A i, j \in kinds : i # j => f.kinds[i] # f.kinds[j]
  BY <1>1, PlacesStand
<1>4. \A e \in rows : Matches(e, f) /\ people # {} => \E i \in people : author(e) = f.authors[i]
  <2>1. \A x : people # {} /\ Listed(f.authors, x) => \E i \in people : f.authors[i] = x
    BY <1>1, PlacesStand
  <2>2. QED BY <2>1 DEF Matches
<1>5. \A e \in rows : Matches(e, f) /\ kinds # {} => \E i \in kinds : kind(e) = f.kinds[i]
  <2>1. \A x : kinds # {} /\ Listed(f.kinds, x) => \E i \in kinds : f.kinds[i] = x
    BY <1>1, PlacesStand
  <2>2. QED BY <2>1 DEF Matches
<1> DEFINE Partitions(r) ==
      /\ \A c \in DOMAIN r : r[c] \in SUBSET rows
      /\ \A c, d \in DOMAIN r : c # d => r[c] \cap r[d] = {}
      /\ \A e \in rows : Matches(e, f) => \E c \in DOMAIN r : e \in r[c]
<1> DEFINE byAuthor == [c \in people \X {0} |-> {e \in timely : Ev[e].author = f.authors[c[1]]}]
           byBoth == [c \in people \X kinds |-> {e \in timely :
                        Ev[e].author = f.authors[c[1]] /\ Ev[e].kind = f.kinds[c[2]]}]
           byKind == [c \in {0} \X kinds |-> {e \in timely : Ev[e].kind = f.kinds[c[2]]}]
           whole == [c \in {<<0, 0>>} |-> timely]
<1>6. ASSUME people # {} PROVE Partitions(byAuthor)
  <2> HIDE DEF timely, people, kinds
  <2>1. ASSUME NEW c \in people \X {0}, NEW d \in people \X {0}, c # d PROVE byAuthor[c] \cap byAuthor[d] = {}
    <3>1. c[1] # d[1] /\ c[1] \in people /\ d[1] \in people BY <2>1
    <3>2. QED BY <1>3, <3>1
  <2>2. ASSUME NEW e \in rows, Matches(e, f) PROVE \E c \in people \X {0} : e \in byAuthor[c]
    <3>1. PICK i \in people : author(e) = f.authors[i] BY <1>4, <1>6, <2>2
    <3>2. <<i, 0>> \in people \X {0} /\ <<i, 0>>[1] = i OBVIOUS
    <3>3. e \in byAuthor[<<i, 0>>] BY <1>2, <2>2, <3>1, <3>2
    <3>4. QED BY <3>2, <3>3
  <2>3. QED BY <1>2, <2>1, <2>2
<1>7. ASSUME kinds # {} PROVE Partitions(byKind)
  <2> HIDE DEF timely, people, kinds
  <2>1. ASSUME NEW c \in {0} \X kinds, NEW d \in {0} \X kinds, c # d PROVE byKind[c] \cap byKind[d] = {}
    <3>1. c[2] # d[2] /\ c[2] \in kinds /\ d[2] \in kinds BY <2>1
    <3>2. QED BY <1>3, <3>1
  <2>2. ASSUME NEW e \in rows, Matches(e, f) PROVE \E c \in {0} \X kinds : e \in byKind[c]
    <3>1. PICK i \in kinds : kind(e) = f.kinds[i] BY <1>5, <1>7, <2>2
    <3>2. <<0, i>> \in {0} \X kinds /\ <<0, i>>[2] = i OBVIOUS
    <3>3. e \in byKind[<<0, i>>] BY <1>2, <2>2, <3>1, <3>2
    <3>4. QED BY <3>2, <3>3
  <2>3. QED BY <1>2, <2>1, <2>2
<1>8. ASSUME people # {}, kinds # {} PROVE Partitions(byBoth)
  <2> HIDE DEF timely, people, kinds
  <2>1. ASSUME NEW c \in people \X kinds, NEW d \in people \X kinds, c # d PROVE byBoth[c] \cap byBoth[d] = {}
    <3>1. /\ c[1] # d[1] \/ c[2] # d[2]
          /\ c[1] \in people /\ d[1] \in people /\ c[2] \in kinds /\ d[2] \in kinds
      BY <2>1
    <3>2. QED BY <1>3, <3>1
  <2>2. ASSUME NEW e \in rows, Matches(e, f) PROVE \E c \in people \X kinds : e \in byBoth[c]
    <3>1. PICK i \in people, j \in kinds : author(e) = f.authors[i] /\ kind(e) = f.kinds[j]
      BY <1>4, <1>5, <1>8, <2>2
    <3>2. <<i, j>> \in people \X kinds /\ <<i, j>>[1] = i /\ <<i, j>>[2] = j OBVIOUS
    <3>3. e \in byBoth[<<i, j>>] BY <1>2, <2>2, <3>1, <3>2
    <3>4. QED BY <3>2, <3>3
  <2>3. QED BY <1>2, <2>1, <2>2
<1>9. Partitions(whole)
  BY <1>2
<1>10. \/ people # {} /\ kinds = {} /\ range = byAuthor
       \/ people # {} /\ kinds # {} /\ range = byBoth
       \/ kinds # {} /\ range = byKind
       \/ range = whole
  BY DEF Cursors
<1>11. Partitions(range)
  <2> HIDE DEF Partitions, range, byAuthor, byBoth, byKind, whole, people, kinds
  <2>1. QED BY <1>6, <1>7, <1>8, <1>9, <1>10
<1>12. QED BY <1>11

(* The limit, when there is one.                                           *)
LEMMA LimitIsNatural ==
  ASSUME NEW f \in Filter, NormalizeLimit(f.limit) # None
  PROVE  NormalizeLimit(f.limit) \in Nat
<1>1. f.limit \in {None} \cup Int
  BY DEF Filter
<1>2. QED BY <1>1 DEF NormalizeLimit

(* A filter that no index serves completely is answered from the rows that *)
(* an index range does not lack.                                           *)
Selects(f, rows, S) ==
  \/ S = {e \in rows : Matches(e, f)}
  \/ S = {e \in rows \ CutOff(f, rows) : Matches(e, f)}

(* Any complete reading of such rows is a right answer.                    *)
LEMMA SelectedIsRight ==
  ASSUME NEW f, NEW rows, NEW S, Selects(f, rows, S), ~RejectsEveryRow(f)
  PROVE  Truncate(S, f) \in RightAnswers(f, rows)
BY DEF Selects, RightAnswers, Selected

(* What a scan of Dexie reads lacks no row but those cut off.              *)
LEMMA ScanSelects ==
  ASSUME NEW f \in Filter, NEW rows \in SUBSET Event
  PROVE  Selects(f, rows, {e \in Narrowed(f, rows, [e \in Event |-> IndexedTags(e)]) : Matches(e, f)})
<1> DEFINE tagged == [e \in Event |-> IndexedTags(e)]
           read == Narrowed(f, rows, tagged)
<1>1. CASE IndexValues(f) # {} /\ read = ByTag(f, rows, tagged)
  <2>1. f.tags # {} BY <1>1 DEF IndexValues
  <2>2. read = rows \ CutOff(f, rows) BY <1>1, <2>1 DEF ByTag, CutOff
  <2>3. QED BY <2>2 DEF Selects
<1>2. CASE /\ read \in SUBSET rows
           /\ \A e \in rows : Matches(e, f) => e \in read
  BY <1>2 DEF Selects
<1>3. \/ IndexValues(f) # {} /\ read = ByTag(f, rows, tagged)
      \/ read \in SUBSET rows /\ \A e \in rows : Matches(e, f) => e \in read
  BY DEF Narrowed, ByTime, Matches
<1>4. QED BY <1>1, <1>2, <1>3

(* DexieStorage answers right.                                             *)
LEMMA DexieReadsRight ==
  ASSUME NEW f \in Filter, NEW rows \in SUBSET Event
  PROVE  DexieAnswer(f, rows) \in RightAnswers(f, rows)
<1> DEFINE limit == NormalizeLimit(f.limit)
           range == Cursors(f, rows)
           all == {e \in rows : Matches(e, f)}
<1>1. CASE RejectsEveryRow(f)
  BY <1>1 DEF DexieAnswer, RightAnswers, Selected
<1>2. CASE ~RejectsEveryRow(f) /\ Scans(f)
  BY <1>2, ScanSelects, SelectedIsRight DEF DexieAnswer
<1>3. CASE ~RejectsEveryRow(f) /\ ~Scans(f)
  <2> DEFINE hit == [c \in DOMAIN range |-> ReadNewest(range[c], f, limit)]
             read == UNION {hit[c] : c \in DOMAIN range}
  <2>1. limit \in Nat /\ limit # None
    BY <1>3, LimitIsNatural DEF Scans
  <2>2. /\ \A c \in DOMAIN range : range[c] \in SUBSET rows
        /\ \A c, d \in DOMAIN range : c # d => range[c] \cap range[d] = {}
        /\ \A e \in rows : Matches(e, f) => \E c \in DOMAIN range : e \in range[c]
    BY CursorsPartition
  <2> HIDE DEF range, limit
  <2>3. \A c \in DOMAIN range : hit[c] \in SUBSET range[c] /\ hit[c] \subseteq all
    BY <2>2 DEF ReadNewest
  <2>4. \A c, d \in DOMAIN range : c # d => hit[c] \cap hit[d] = {}
    <3> SUFFICES ASSUME NEW c \in DOMAIN range, NEW d \in DOMAIN range, c # d PROVE hit[c] \cap hit[d] = {}
      OBVIOUS
    <3>1. range[c] \cap range[d] = {} BY <2>2
    <3>2. hit[c] \subseteq range[c] /\ hit[d] \subseteq range[d] BY <2>3
    <3>3. QED BY <3>1, <3>2
  <2>5. read \in SUBSET all /\ all \in SUBSET Event
    BY <2>3
  <2>6. CapHits(UNION {{c} \X hit[c] : c \in DOMAIN range}, limit) = CapEvents(read, limit)
    <3>1. \A c \in DOMAIN range : hit[c] \in SUBSET Event BY <2>2, <2>3
    <3>2. PICK hits : hits = UNION {{c} \X hit[c] : c \in DOMAIN range} OBVIOUS
    <3>3. PICK rowsRead : rowsRead = UNION {hit[c] : c \in DOMAIN range} OBVIOUS
    <3> HIDE DEF hit
    <3>4. CapHits(hits, limit) = CapEvents(rowsRead, limit)
      BY <2>1, <2>4, <3>1, <3>2, <3>3, HitsCount
    <3>5. QED BY <3>2, <3>3, <3>4, Zenon
  <2>7. \A e \in all \ read : Cardinality({x \in read : Newer(x, e)}) >= limit
    <3> SUFFICES ASSUME NEW e \in all, e \notin read PROVE Cardinality({x \in read : Newer(x, e)}) >= limit
      OBVIOUS
    <3>1. PICK c \in DOMAIN range : e \in range[c] BY <2>2
    <3>2. e \notin hit[c] /\ hit[c] = ReadNewest(range[c], f, limit) /\ hit[c] \subseteq read BY <3>1
    <3>3. range[c] \in SUBSET Event /\ Matches(e, f) BY <2>2, <3>1
    <3>4. Cardinality({x \in hit[c] : Ev[x].at > Ev[e].at}) >= limit
      BY <2>1, <3>1, <3>2, <3>3, ReadNewestKeepsEnough
    <3> HIDE DEF hit, read
    <3>5. {x \in hit[c] : Ev[x].at > Ev[e].at} \in SUBSET {x \in read : Newer(x, e)}
      BY <3>2 DEF Newer
    <3>6. {x \in read : Newer(x, e)} \in SUBSET Event BY <2>5
    <3>7. /\ Cardinality({x \in hit[c] : Ev[x].at > Ev[e].at}) <= Cardinality({x \in read : Newer(x, e)})
          /\ Cardinality({x \in hit[c] : Ev[x].at > Ev[e].at}) \in Nat
          /\ Cardinality({x \in read : Newer(x, e)}) \in Nat
      BY <3>5, <3>6, EventSets
    <3>8. QED BY <2>1, <3>4, <3>7
  <2>8. CapEvents(read, limit) = CapEvents(all, limit)
    <3> HIDE DEF read, all
    <3>1. QED BY <2>1, <2>5, <2>7, CapOfEnough
  <2>9. DexieAnswer(f, rows) = CapHits(UNION {{c} \X hit[c] : c \in DOMAIN range}, limit)
    BY <1>3 DEF DexieAnswer, range, limit
  <2>10. Truncate(all, f) = CapEvents(all, limit)
    BY <2>1 DEF Truncate, limit
  <2>11. Truncate(all, f) \in RightAnswers(f, rows)
    BY <1>3, SelectedIsRight DEF Selects
  <2>12. QED BY <2>6, <2>8, <2>9, <2>10, <2>11
<1>4. QED BY <1>1, <1>2, <1>3

(* SqliteStorage answers right, when its tag table has the indexed tags of *)
(* the rows there are.                                                     *)
LEMMA SqliteReadsRight ==
  ASSUME NEW f \in Filter, NEW rows \in SUBSET Event, NEW tagged,
         \A e \in rows : tagged[e] = IndexedTags(e)
  PROVE  SqliteAnswer(f, rows, tagged) \in RightAnswers(f, rows)
<1> DEFINE found == Candidates(f, rows, tagged)
           kept(S) == {e \in S : Matches(e, f)}
<1>1. found \in SUBSET rows /\ found \in SUBSET Event
  BY DEF Candidates, ByTime
<1>2. CASE RejectsEveryRow(f)
  BY <1>2 DEF SqliteAnswer, RightAnswers, Selected
<1>3. ASSUME ~RejectsEveryRow(f) PROVE Selects(f, rows, kept(found))
  <2>1. CASE TagLed(f) /\ Cardinality(IndexValues(f)) <= MaxInParams
    <3>1. found = {e \in ByTime(f, rows) : e \in ByTag(f, rows, tagged)}
      BY <2>1 DEF Candidates
    <3>2. f.tags # {} BY <2>1 DEF TagLed, IndexValues
    <3>3. ByTag(f, rows, tagged) = rows \ CutOff(f, rows) BY <3>2 DEF ByTag, CutOff
    <3>4. kept(found) = kept(rows \ CutOff(f, rows))
      BY <3>1, <3>3 DEF ByTime, Matches
    <3>5. QED BY <3>4 DEF Selects
  <2>2. CASE ~(TagLed(f) /\ Cardinality(IndexValues(f)) <= MaxInParams)
    <3>1. \A e \in rows : Matches(e, f) => e \in found
      BY <2>2 DEF Candidates, ByTime, Matches, Pushed
    <3>2. kept(found) = kept(rows) BY <1>1, <3>1
    <3>3. QED BY <3>2 DEF Selects
  <2>3. QED BY <2>1, <2>2
<1>4. CASE ~RejectsEveryRow(f) /\ ~Complete(f)
  <2>1. SqliteAnswer(f, rows, tagged) = Truncate(kept(found), f)
    BY <1>4 DEF SqliteAnswer
  <2>2. QED BY <1>3, <1>4, <2>1, SelectedIsRight
<1>5. CASE ~RejectsEveryRow(f) /\ Complete(f)
  <2>1. SqliteAnswer(f, rows, tagged) = Truncate(kept(Truncate(found, f)), f)
    BY <1>5 DEF SqliteAnswer
  <2>2. \A S : Truncate(S, f) \subseteq S
    BY DEF Truncate, CapEvents
  <2>3. f.tags = {} /\ IndexValues(f) = {} /\ ~TagLed(f)
    BY <1>5 DEF Complete, IndexValues, TagLed
  <2>4. CASE \E list \in {f.ids, f.authors, f.kinds} : list = <<>> /\ list # None
    <3>1. \A x : ~(\E i \in DOMAIN <<>> : <<>>[i] = x) OBVIOUS
    <3>2. \A e : ~Matches(e, f) BY <2>4, <3>1 DEF Matches, Listed
    <3>3. kept(Truncate(found, f)) = {} /\ kept(found) = {} BY <3>2
    <3>4. QED BY <1>3, <1>5, <2>1, <3>3, SelectedIsRight
  <2>5. CASE \A list \in {f.ids, f.authors, f.kinds} : list = None \/ Given(list)
    <3>1. \A e \in found : Matches(e, f)
      BY <1>5, <2>3, <2>5 DEF Candidates, ByTime, Matches, Pushed, Complete, Given, Listed
    <3>2. kept(found) = found /\ kept(Truncate(found, f)) = Truncate(found, f)
      BY <2>2, <3>1
    <3>3. Truncate(Truncate(found, f), f) = Truncate(found, f)
      <4>1. CASE NormalizeLimit(f.limit) = None
        BY <4>1 DEF Truncate
      <4>2. CASE NormalizeLimit(f.limit) # None
        BY <1>1, <4>2, LimitIsNatural, CapTwice DEF Truncate
      <4>3. QED BY <4>1, <4>2
    <3>4. QED BY <1>3, <1>5, <2>1, <3>2, <3>3, SelectedIsRight
  <2>6. QED BY <2>4, <2>5 DEF Given
<1>6. QED BY <1>2, <1>4, <1>5

(* The fold of currentVersion over a list of versions, as a function on    *)
(* the sets of places in it.                                               *)
Keeper(current, e) == IF current # None /\ Supersedes(current, e) THEN current ELSE e
FoldsFrom(g, met) ==
  g = [s \in SUBSET DOMAIN met |->
         IF s = {} THEN None ELSE Keeper(g[s \ {Max(s)}], met[Max(s)])]

LEMMA CurrentIsFold ==
  ASSUME NEW met, NEW h, FoldsFrom(h, met)
  PROVE  \E g : FoldsFrom(g, met) /\ CurrentVersion(met) = g[DOMAIN met]
<1> DEFINE g == CHOOSE g : FoldsFrom(g, met)
<1>1. FoldsFrom(g, met)
  OBVIOUS
<1>2. CurrentVersion(met) = g[DOMAIN met]
  BY DEF CurrentVersion, FoldLeft, MapThenFoldSet, FoldsFrom, Keeper
<1>3. QED BY <1>1, <1>2

(* Of some events one is the newest.                                       *)
IsNewest(e, S) == e \in S /\ \A x \in S : x = e \/ Newer(e, x)
LEMMA NewestExists ==
  ASSUME NEW S \in SUBSET Event, S # {}
  PROVE  /\ \E e \in S : IsNewest(e, S)
         /\ \A e, x : IsNewest(e, S) /\ IsNewest(x, S) => e = x
         /\ \A e : IsNewest(e, S) => CapEvents(S, 1) = {e}
<1> DEFINE newer(e) == {x \in S : Newer(x, e)}
           sizes == {Cardinality(newer(e)) : e \in S}
<1>1. \A e : newer(e) \in SUBSET Event /\ Cardinality(newer(e)) \in Nat
  <2> SUFFICES ASSUME NEW e PROVE newer(e) \in SUBSET Event /\ Cardinality(newer(e)) \in Nat
    OBVIOUS
  <2>1. newer(e) \in SUBSET Event OBVIOUS
  <2> HIDE DEF newer
  <2>2. QED BY <2>1, EventSets
<1>2. PICK e \in S : \A x \in S : Cardinality(newer(e)) <= Cardinality(newer(x))
  <2>1. sizes \subseteq Nat /\ sizes # {} BY <1>1
  <2>2. PICK k \in sizes : \A m \in sizes : k <= m BY <2>1, LeastNumber
  <2>3. PICK e \in S : k = Cardinality(newer(e)) BY <2>2
  <2>4. \A x \in S : Cardinality(newer(x)) \in sizes OBVIOUS
  <2> HIDE DEF newer, sizes
  <2>5. \A x \in S : k <= Cardinality(newer(x)) BY <2>2, <2>4
  <2>6. QED BY <2>3, <2>5, Zenon
<1>3. newer(e) = {}
  <2> SUFFICES ASSUME NEW x \in newer(e) PROVE FALSE
    OBVIOUS
  <2>1. newer(x) \in SUBSET newer(e) /\ x \notin newer(x) BY NewerOrders
  <2>2. newer(e) \in SUBSET Event /\ newer(x) # newer(e) /\ x \in S BY <2>1
  <2> HIDE DEF newer
  <2>3. Cardinality(newer(x)) < Cardinality(newer(e)) BY <2>1, <2>2, EventSets
  <2>4. QED BY <1>1, <1>2, <2>2, <2>3
<1>4. IsNewest(e, S)
  BY <1>3, NewerOrders DEF IsNewest
<1>5. \A y, x : IsNewest(y, S) /\ IsNewest(x, S) => y = x
  BY NewerOrders DEF IsNewest
<1>6. ASSUME NEW y \in S PROVE Cardinality(newer(y)) < 1 <=> newer(y) = {}
  <2>1. IsFiniteSet(newer(y)) BY <1>1, EventSets
  <2> HIDE DEF newer
  <2>2. QED BY <1>1, <2>1, FS_EmptySet
<1>7. CapEvents(S, 1) = {y \in S : newer(y) = {}}
  BY <1>6 DEF CapEvents
<1>8. {y \in S : newer(y) = {}} = {e}
  BY <1>3, <1>4, NewerOrders DEF IsNewest
<1>9. QED BY <1>4, <1>5, <1>7, <1>8

(* The last of some places.                                                *)
LEMMA LastPlace ==
  ASSUME NEW n \in Nat, NEW s \in SUBSET (1 .. n), s # {}
  PROVE  Max(s) \in s
<1> DEFINE after == {n - i : i \in s}
<1>1. \A i \in s : n - i \in Nat /\ n - i \in after /\ i \in Nat
  OBVIOUS
<1>2. after \subseteq Nat /\ after # {}
  BY <1>1
<1>3. PICK k \in after : \A m \in after : k <= m
  BY <1>2, LeastNumber
<1>4. PICK i \in s : k = n - i
  BY <1>3
<1> HIDE DEF after
<1>5. \A j \in s : n - i <= n - j
  BY <1>1, <1>3, <1>4
<1>6. \A j \in s : i >= j
  BY <1>1, <1>5
<1>7. QED BY <1>4, <1>6 DEF Max

(* Whatever order the versions are met in, the fold keeps the newest.      *)
LEMMA VersionsKeptRight ==
  ASSUME NEW S \in SUBSET Event, NEW met \in SetToSeqs(S)
  PROVE  CapEvents(S, 1) = {CurrentVersion(met)} \ {None}
<1> DEFINE n == Cardinality(S)
           D == 1 .. n
           at(s) == {met[i] : i \in s}
           h == [s \in SUBSET D |-> IF s = {} THEN None ELSE CHOOSE e \in at(s) : IsNewest(e, at(s))]
<1>1. n \in Nat /\ IsFiniteSet(S)
  BY EventSets
<1>2. met \in [D -> S] /\ (\A i, j \in D : i # j => met[i] # met[j]) /\ DOMAIN met = D
  BY DEF SetToSeqs
<1>3. \A s \in SUBSET D : at(s) \in SUBSET Event /\ (s # {} => at(s) # {})
  BY <1>2
<1>4. \A s \in SUBSET D : s # {} => IsNewest(h[s], at(s))
  <2> SUFFICES ASSUME NEW s \in SUBSET D, s # {} PROVE IsNewest(h[s], at(s))
    OBVIOUS
  <2>1. \E e \in at(s) : IsNewest(e, at(s)) BY <1>3, NewestExists
  <2> HIDE DEF at
  <2>2. QED BY <2>1
<1>5. h[{}] = None /\ DOMAIN h = SUBSET D
  OBVIOUS
<1> HIDE DEF h
<1>6. ASSUME NEW s \in SUBSET D, s # {}
      PROVE  Max(s) \in s /\ h[s] = Keeper(h[s \ {Max(s)}], met[Max(s)])
  <2> DEFINE m == Max(s)
             t == s \ {m}
             e == met[m]
  <2>1. m \in s /\ m \in D BY <1>1, <1>6, LastPlace
  <2>2. at(s) = at(t) \cup {e} /\ e \in Event /\ e \notin at(t) BY <1>2, <2>1
  <2>3. CASE t = {}
    <3>1. Keeper(h[t], e) = e BY <1>5, <2>3 DEF Keeper
    <3>2. at(s) = {e} BY <2>2, <2>3
    <3>3. QED BY <1>4, <1>6, <2>1, <3>1, <3>2 DEF IsNewest
  <2>4. CASE t # {}
    <3> DEFINE c == h[t]
    <3>1. IsNewest(c, at(t)) /\ c \in Event /\ c # None
      BY <1>3, <1>4, <2>4, FiltersAssumption DEF IsNewest
    <3>2. c # e /\ (Supersedes(c, e) <=> Newer(c, e)) BY <2>2, <3>1 DEF Supersedes, Newer, IsNewest
    <3> HIDE DEF c, e
    <3>3. CASE Newer(c, e)
      <4>1. Keeper(c, e) = c BY <3>1, <3>2, <3>3 DEF Keeper
      <4>2. IsNewest(c, at(s)) BY <2>2, <3>1, <3>3 DEF IsNewest
      <4>3. h[s] = c BY <1>3, <1>4, <1>6, <4>2, NewestExists
      <4>4. QED BY <2>1, <4>1, <4>3 DEF c, e
    <3>4. CASE ~Newer(c, e)
      <4>1. Keeper(c, e) = e BY <3>1, <3>2, <3>4 DEF Keeper
      <4>2. Newer(e, c) BY <2>2, <3>1, <3>2, <3>4, NewerOrders
      <4>3. \A x \in at(t) : Newer(e, x)
        BY <1>3, <2>2, <3>1, <4>2, NewerOrders DEF IsNewest
      <4>4. IsNewest(e, at(s)) BY <2>2, <4>3 DEF IsNewest
      <4>5. h[s] = e BY <1>3, <1>4, <1>6, <4>4, NewestExists
      <4>6. QED BY <2>1, <4>1, <4>5 DEF c, e
    <3>5. QED BY <3>3, <3>4
  <2>5. QED BY <2>3, <2>4
<1>7. FoldsFrom(h, met)
  <2>1. h = [s \in SUBSET D |-> h[s]] BY <1>5 DEF h
  <2>2. \A s \in SUBSET D : h[s] = IF s = {} THEN None ELSE Keeper(h[s \ {Max(s)}], met[Max(s)])
    BY <1>5, <1>6
  <2>3. QED BY <1>2, <2>1, <2>2 DEF FoldsFrom
<1>8. PICK g : FoldsFrom(g, met) /\ CurrentVersion(met) = g[D]
  BY <1>2, <1>7, CurrentIsFold
<1>9. \A s \in SUBSET D : g[s] = IF s = {} THEN None ELSE Keeper(g[s \ {Max(s)}], met[Max(s)])
  BY <1>2, <1>8 DEF FoldsFrom
<1>10. \A s \in SUBSET D : g[s] = h[s]
  <2> DEFINE bad == {s \in SUBSET D : g[s] # h[s]}
             sizes == {Cardinality(s) : s \in bad}
  <2>1. SUFFICES ASSUME bad # {} PROVE FALSE
    OBVIOUS
  <2>2. \A s \in SUBSET D : IsFiniteSet(s) /\ Cardinality(s) \in Nat
    <3>1. IsFiniteSet(D) BY <1>1, FS_Interval
    <3>2. QED BY <3>1, FS_Subset, FS_CardinalityType
  <2>3. sizes \subseteq Nat /\ sizes # {} BY <2>1, <2>2
  <2>4. PICK k \in sizes : \A m \in sizes : k <= m BY <2>3, LeastNumber
  <2>5. PICK s \in bad : k = Cardinality(s) BY <2>4
  <2>6. s \in SUBSET D /\ g[s] # h[s] OBVIOUS
  <2>7. s # {} BY <1>5, <1>9, <2>6
  <2> DEFINE t == s \ {Max(s)}
  <2>8. Max(s) \in s /\ t \in SUBSET D BY <1>6, <2>6, <2>7
  <2>9. Cardinality(t) = Cardinality(s) - 1 BY <2>2, <2>6, <2>8, FS_RemoveElement
  <2>10. t \notin bad
    <3> SUFFICES ASSUME t \in bad PROVE FALSE
      OBVIOUS
    <3>1. Cardinality(t) \in sizes OBVIOUS
    <3> HIDE DEF t, sizes, bad
    <3>2. k <= Cardinality(t) /\ Cardinality(s) \in Nat BY <2>2, <2>4, <2>6, <3>1
    <3>3. QED BY <2>5, <2>9, <3>2
  <2>11. g[t] = h[t] BY <2>8, <2>10
  <2>12. g[s] = h[s] BY <1>6, <1>9, <2>6, <2>7, <2>11
  <2>13. QED BY <2>6, <2>12
<1>11. CurrentVersion(met) = h[D]
  BY <1>8, <1>10
<1>12. CASE S = {}
  <2>1. n = 0 BY <1>12, FS_EmptySet
  <2>2. D = {} BY <2>1
  <2>3. CapEvents(S, 1) = {} BY <1>12 DEF CapEvents
  <2>4. QED BY <1>5, <1>11, <2>2, <2>3
<1>13. CASE S # {}
  <2>1. at(D) = S
    <3>1. IsFiniteSet(D) /\ Cardinality(D) = n BY <1>1, FS_Interval
    <3>2. met \in Injection(D, S) BY <1>2 DEF Injection, IsInjective
    <3>3. met \in Surjection(D, S) BY <1>1, <3>1, <3>2, FS_Injection
    <3>4. QED BY <1>2, <3>3 DEF Surjection
  <2>2. D # {} BY <1>13, <2>1
  <2>3. IsNewest(h[D], S) BY <1>4, <2>1, <2>2
  <2>4. h[D] # None BY <2>3, FiltersAssumption DEF IsNewest
  <2>5. CapEvents(S, 1) = {h[D]} BY <1>13, <2>3, NewestExists
  <2>6. QED BY <1>11, <2>4, <2>5
<1>14. QED BY <1>12, <1>13

-----------------------------------------------------------------------------
(* What is committed: rows with the time they were cached at, and for each *)
(* of them the indexed tags in the tag table.                              *)
Kept(rows, tags) ==
  \A e \in Event : rows[e] # None =>
    /\ "cached" \in DOMAIN rows[e] /\ rows[e].cached \in Int
    /\ tags[e] = IndexedTags(e)
DiskKept == Kept(disk.rows, disk.tags) /\ now \in Int

LEMMA KeptAtFirst == Init => DiskKept
<1> SUFFICES ASSUME Init PROVE DiskKept
  OBVIOUS
<1>1. PICK S \in SUBSET Event : disk =
        [rows |-> [e \in Event |-> IF e \in S THEN Fresh(e, FALSE, None, 0) ELSE None],
         tags |-> [e \in Event |-> IF e \in S THEN IndexedTags(e) ELSE {}]]
  BY DEF Init
<1>2. \A e : "cached" \in DOMAIN Fresh(e, FALSE, None, 0) /\ Fresh(e, FALSE, None, 0).cached \in Int
  BY DEF Fresh
<1>3. \A e \in Event : disk.rows[e] # None => e \in S
  BY <1>1
<1>4. ASSUME NEW e \in Event, disk.rows[e] # None
      PROVE  /\ "cached" \in DOMAIN disk.rows[e] /\ disk.rows[e].cached \in Int
             /\ disk.tags[e] = IndexedTags(e)
  <2>1. disk.rows[e] = Fresh(e, FALSE, None, 0) /\ disk.tags[e] = IndexedTags(e) BY <1>1, <1>3, <1>4
  <2>2. QED BY <1>2, <2>1
<1>5. now \in Int BY DEF Init
<1>6. QED BY <1>4, <1>5 DEF DiskKept, Kept

(* Changing rows in place, or taking rows away.                            *)
LEMMA KeptByUpdates ==
  ASSUME Kept(disk.rows, disk.tags), now \in Int, NEW ids
  PROVE  /\ Kept(Validated(disk.rows, ids), disk.tags)
         /\ Kept(Touched(disk.rows, ids, now), disk.tags)
         /\ Kept(Accessed(disk.rows, ids, now), disk.tags)
         /\ Kept(Without(disk.rows, ids), [e \in Event |-> IF e \in ids THEN {} ELSE disk.tags[e]])
<1>1. ASSUME NEW r, "cached" \in DOMAIN r, r.cached \in Int,
             NEW x \in {[r EXCEPT !.validated = TRUE], [r EXCEPT !.cached = now],
                       [r EXCEPT !.accessed = now, !.count = r.count + 1]}
      PROVE  "cached" \in DOMAIN x /\ x.cached \in Int
  BY <1>1
<1>2. ASSUME NEW e \in Event
      PROVE  /\ Validated(disk.rows, ids)[e] \in {disk.rows[e], [disk.rows[e] EXCEPT !.validated = TRUE]}
             /\ Touched(disk.rows, ids, now)[e] \in {disk.rows[e], [disk.rows[e] EXCEPT !.cached = now]}
             /\ Accessed(disk.rows, ids, now)[e] \in
                  {disk.rows[e], [disk.rows[e] EXCEPT !.accessed = now, !.count = disk.rows[e].count + 1]}
             /\ disk.rows[e] = None => /\ Validated(disk.rows, ids)[e] = None
                                       /\ Touched(disk.rows, ids, now)[e] = None
                                       /\ Accessed(disk.rows, ids, now)[e] = None
  BY DEF Validated, Touched, Accessed, Update
<1>3. Kept(Validated(disk.rows, ids), disk.tags) /\ Kept(Touched(disk.rows, ids, now), disk.tags)
  BY <1>1, <1>2 DEF Kept
<1>4. Kept(Accessed(disk.rows, ids, now), disk.tags)
  BY <1>1, <1>2 DEF Kept
<1>5. Kept(Without(disk.rows, ids), [e \in Event |-> IF e \in ids THEN {} ELSE disk.tags[e]])
  BY DEF Kept, Without
<1>6. QED BY <1>3, <1>4, <1>5

(* Every step of the table keeps it.                                       *)
LEMMA KeptBySteps ==
  ASSUME DiskKept, IsDb(disk), [Table!TableNext]_(Table!tableVars)
  PROVE  DiskKept'
<1>1. CASE Table!Tick
  BY <1>1, SqliteAssumption DEF Table!Tick, DiskKept, Kept
<1>2. CASE UNCHANGED Table!tableVars
  BY <1>2 DEF Table!tableVars, DiskKept, Kept
<1>3. CASE Table!Write /\ UNCHANGED now
  <2>1. CASE \E e \in Event, verified \in BOOLEAN : Table!SaveEvent(e, verified)
    <3>1. PICK e \in Event, verified \in BOOLEAN : Table!SaveEvent(e, verified)
      BY <2>1
    <3>2. /\ disk.rows' = [disk.rows EXCEPT ![e] = Fresh(e, verified, disk.rows[e], now)]
          /\ disk.tags' = [disk.tags EXCEPT ![e] = IndexedTags(e)]
      BY <3>1, SameRows, SameConstants DEF Table!SaveEvent
    <3>3. /\ "cached" \in DOMAIN Fresh(e, verified, disk.rows[e], now)
          /\ Fresh(e, verified, disk.rows[e], now).cached \in Int
      BY DEF DiskKept, Kept, Fresh
    <3>4. ASSUME NEW x \in Event, disk'.rows[x] # None
          PROVE  /\ "cached" \in DOMAIN disk'.rows[x] /\ disk'.rows[x].cached \in Int
                 /\ disk'.tags[x] = IndexedTags(x)
      <4>1. CASE x = e
        <5>1. /\ disk'.rows[x] \in {disk.rows[x], Fresh(e, verified, disk.rows[e], now)}
              /\ disk'.tags[x] = IndexedTags(e)
          BY <3>2, <4>1 DEF IsDb
        <5>2. QED BY <3>3, <3>4, <4>1, <5>1 DEF DiskKept, Kept
      <4>2. CASE x # e
        BY <3>2, <3>4, <4>2 DEF DiskKept, Kept
      <4>3. QED BY <4>1, <4>2
    <3>5. QED BY <1>3, <3>4 DEF DiskKept, Kept
  <2>2. CASE \E ids : \/ Table!MarkValidated(ids) \/ Table!TouchCachedAt(ids) \/ Table!TrackAccess(ids)
                      \/ Table!Delete(ids)
    <3>1. PICK ids : \/ Table!MarkValidated(ids) \/ Table!TouchCachedAt(ids) \/ Table!TrackAccess(ids)
                     \/ Table!Delete(ids)
      BY <2>2
    <3>2. \/ disk.rows' = Validated(disk.rows, ids) /\ disk.tags' = disk.tags
          \/ disk.rows' = Touched(disk.rows, ids, now) /\ disk.tags' = disk.tags
          \/ disk.rows' = Accessed(disk.rows, ids, now) /\ disk.tags' = disk.tags
          \/ /\ disk.rows' = Without(disk.rows, ids)
             /\ disk.tags' = [e \in Event |-> IF e \in ids THEN {} ELSE disk.tags[e]]
      BY <3>1, SameRows, SameConstants
      DEF Table!MarkValidated, Table!TouchCachedAt, Table!TrackAccess, Table!Delete
    <3>3. Kept(disk.rows', disk.tags')
      BY <3>2, KeptByUpdates DEF DiskKept
    <3>4. QED BY <1>3, <3>3 DEF DiskKept, Kept
  <2>3. \/ \E e \in Table!Event, verified \in BOOLEAN : Table!SaveEvent(e, verified)
        \/ \E ids : \/ Table!MarkValidated(ids) \/ Table!TouchCachedAt(ids) \/ Table!TrackAccess(ids)
                    \/ Table!Delete(ids)
    BY <1>3, Zenon DEF Table!Write, Table!DeleteExpired, Table!EnforceLimit
  <2>4. QED BY <2>1, <2>2, <2>3, SameConstants
<1>4. QED BY <1>1, <1>2, <1>3 DEF Table!TableNext

(* A filter answered for good by the cache: the ids are its events', or    *)
(* each of its authors has a fresh copy of each of its kinds.              *)
LEMMA Spares ==
  ASSUME DiskKept, work = disk
  PROVE  SparesRight
<1> SUFFICES ASSUME NEW f \in Reads, NEW g \in Reads, NEW sent,
                    f \notin FiltersForUpstream({f, g}, sent, work.rows, now),
                    NEW e \in Event, Matches(e, f)
             PROVE  Known(e, sent)
  BY DEF SparesRight
<1>1. CASE IsIdCovered(f, sent)
  BY <1>1 DEF IsIdCovered, Matches, Listed, ToSet, Known
<1>2. CASE AllFresh(f, sent, work.rows, now)
  <2>1. Ev[e].kind \in ToSet(f.kinds) /\ Ev[e].author \in ToSet(f.authors)
    BY <1>2 DEF AllFresh, IsFreshnessEligible, Matches, Listed, ToSet
  <2>2. <<Ev[e].kind, Ev[e].author>> \in FreshCoordinates(sent, work.rows, now)
    BY <1>2, <2>1 DEF AllFresh
  <2>3. PICK s \in sent \cap Rows(work.rows) :
          /\ Ev[e].kind = Ev[s].kind /\ Ev[e].author = Ev[s].author
          /\ WithinWindow(Ev[s].kind, work.rows[s].cached, now)
    BY <2>2 DEF FreshCoordinates, CachedAt
  <2>4. work.rows[s].cached \in Int /\ now \in Int
    BY <2>3 DEF DiskKept, Kept, Rows
  <2>5. Window[Ev[s].kind] \in Nat BY <2>3, WindowAssumption DEF WithinWindow
  <2>6. work.rows[s].cached \in now - Window[Ev[s].kind] .. now BY <2>3, <2>4, <2>5 DEF WithinWindow
  <2>7. QED BY <2>3, <2>6 DEF Known, WithinWindow
<1>3. QED BY <1>1, <1>2 DEF FiltersForUpstream

(* query.ts of both adapters, id-coverage.ts and freshness.ts: whatever is *)
(* stored, each filter is answered as NIP-01 asks, no filter is kept from  *)
(* the upstream relays that they could add to, and the version of a        *)
(* coordinate is its newest event.                                         *)
THEOREM SqliteHonestReads == Spec => []HonestReads
<1>1. Init => IInv /\ DiskKept
  BY InitInv, KeptAtFirst
<1>2. (IInv /\ DiskKept) /\ [Next]_vars => (IInv /\ DiskKept)'
  <2>1. ASSUME UNCHANGED vars PROVE UNCHANGED Table!tableVars BY <2>1 DEF vars, Table!tableVars
  <2>2. IInv /\ [Next]_vars => [Table!TableNext]_(Table!tableVars) BY <2>1, TableSteps
  <2>3. IInv => IsDb(disk) BY DEF IInv
  <2>4. QED BY <2>2, <2>3, StepInv, KeptBySteps
<1>3. IInv /\ DiskKept => HonestReads
  <2> SUFFICES ASSUME IInv, DiskKept, call = None PROVE ReadsRight /\ SparesRight /\ VersionsRight
    BY DEF HonestReads
  <2>1. work = disk BY DEF IInv
  <2>2. Present \in SUBSET Event /\ \A e \in Present : work.tags[e] = IndexedTags(e)
    BY <2>1 DEF Present, Rows, DiskKept, Kept
  <2>3. ReadsRight
    BY <2>2, DexieReadsRight, SqliteReadsRight, SqliteAssumption DEF ReadsRight, Answer
  <2>4. VersionsRight
    <3>1. \A a, k, d : AtCoordinate(Present, a, k, d) \in SUBSET Event
      BY <2>2 DEF AtCoordinate, Coordinate
    <3>2. QED BY <3>1, VersionsKeptRight DEF VersionsRight
  <2>5. QED BY <2>1, <2>3, <2>4, Spares
<1>4. QED BY <1>1, <1>2, <1>3, PTL DEF Spec
=============================================================================
