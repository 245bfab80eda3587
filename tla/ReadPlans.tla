------------------------------- MODULE ReadPlans -------------------------------
(***************************************************************************)
(* How the two storage adapters answer one filter:                         *)
(* packages/cache-relay/src/storage/dexie/query.ts (IndexedDB) and         *)
(* packages/server/src/storage/sqlite/query.ts (SQLite).                   *)
(*                                                                         *)
(* An index range is the set of rows in it.  Dexie reads either one range  *)
(* completely or several ranges newest first, each of which stops early;   *)
(* SQLite narrows in SQL, truncates there if nothing can be lost, and      *)
(* checks the rest.  A range of the tag index is what `tagged` says, the   *)
(* indexed tags of each row.                                               *)
(***************************************************************************)
EXTENDS Filters

CONSTANTS
  MaxAuthorCursors, \* MAX_ORDERED_AUTHOR_CURSORS
  MaxKindCursors,   \* MAX_ORDERED_KINDS
  MaxInParams       \* MAX_IN_PARAMS

Given(list) == list # None /\ list # <<>>
Timed(f) == f.since # None \/ f.until # None
ByTime(f, rows) == {e \in rows : InTime(e, f)}
ByTag(f, rows, tagged) == {e \in rows : tagged[e] \cap IndexValues(f) # {}}

-----------------------------------------------------------------------------
(* Dexie: buildOptimizedQuery, the range a scan reads.                     *)
Narrowed(f, rows, tagged) ==
  LET byAuthor(S) == {e \in S : Listed(f.authors, Ev[e].author)}
      byKind(S)   == {e \in S : Listed(f.kinds, Ev[e].kind)}
  IN  CASE Given(f.ids) -> {e \in rows : Listed(f.ids, e)}
        [] ~Given(f.ids) /\ Given(f.authors) /\ Given(f.kinds) ->
             byAuthor(byKind(ByTime(f, rows)))
        [] ~Given(f.ids) /\ Given(f.authors) /\ ~Given(f.kinds) /\ Timed(f) ->
             byAuthor(ByTime(f, rows))
        [] ~Given(f.ids) /\ ~(Given(f.authors) /\ (Given(f.kinds) \/ Timed(f)))
             /\ IndexValues(f) # {} -> ByTag(f, rows, tagged)
        [] OTHER ->
             LET timely == ByTime(f, rows)
             IN  IF Given(f.kinds) THEN byKind(timely)
                 ELSE IF Given(f.authors) THEN byAuthor(timely) ELSE timely

(* planQuery.  Distinct values of a list, by the place they first stand.   *)
Scans(f) ==
  \/ NormalizeLimit(f.limit) \in {None, 0}
  \/ f.ids # None
  \/ IndexValues(f) # {}

Places(list) ==
  IF Given(list) THEN {i \in DOMAIN list : \A j \in 1 .. i - 1 : list[j] # list[i]} ELSE {}

(* One range per author and kind, per kind, or one for all.                *)
Cursors(f, rows) ==
  LET timely == ByTime(f, rows)
      people == Places(f.authors)
      kinds  == Places(f.kinds)
      seeks  == Cardinality(people) * (IF kinds = {} THEN 1 ELSE Cardinality(kinds))
  IN  IF people # {} /\ seeks <= MaxAuthorCursors
      THEN IF kinds = {}
           THEN [c \in people \X {0} |-> {e \in timely : Ev[e].author = f.authors[c[1]]}]
           ELSE [c \in people \X kinds |-> {e \in timely :
                   Ev[e].author = f.authors[c[1]] /\ Ev[e].kind = f.kinds[c[2]]}]
      ELSE IF kinds # {} /\ Cardinality(kinds) <= MaxKindCursors
           THEN [c \in {0} \X kinds |-> {e \in timely : Ev[e].kind = f.kinds[c[2]]}]
           ELSE [c \in {<<0, 0>>} |-> timely]

(* readNewest: walk the range newest first and keep the matching rows, up  *)
(* to the limit-th and everything as new as it.  Equal times are walked    *)
(* from the highest id down, so stopping exactly there would be wrong.     *)
ReadNewest(range, f, limit) ==
  LET kept == {e \in range : Matches(e, f)}
  IN  {e \in kept : Cardinality({x \in kept : Ev[x].at > Ev[e].at}) < limit}

DexieAnswer(f, rows) ==
  LET limit  == NormalizeLimit(f.limit)
      tagged == [e \in Event |-> IndexedTags(e)]
      ranges == Cursors(f, rows)
  IN  CASE RejectsEveryRow(f) -> {}
        [] ~RejectsEveryRow(f) /\ Scans(f) ->
             Truncate({e \in Narrowed(f, rows, tagged) : Matches(e, f)}, f)
        [] OTHER ->
             CapHits(UNION {{c} \X ReadNewest(ranges[c], f, limit) : c \in DOMAIN ranges}, limit)

-----------------------------------------------------------------------------
(* SQLite: buildFilterQuery.  A list longer than the parameter limit is    *)
(* not pushed into the SQL; tags only when they are all there is.          *)
Fits(list) == Given(list) => Len(list) <= MaxInParams
Pushed(list, x) == Given(list) /\ Fits(list) => Listed(list, x)
TagLed(f) ==
  IndexValues(f) # {} /\ ~Given(f.ids) /\ ~Given(f.authors) /\ ~Given(f.kinds)
Candidates(f, rows, tagged) ==
  {e \in ByTime(f, rows) :
     IF TagLed(f)
     THEN Cardinality(IndexValues(f)) <= MaxInParams => e \in ByTag(f, rows, tagged)
     ELSE /\ Pushed(f.ids, e)
          /\ Pushed(f.authors, Ev[e].author)
          /\ Pushed(f.kinds, Ev[e].kind)}
Complete(f) == f.tags = {} /\ Fits(f.ids) /\ Fits(f.authors) /\ Fits(f.kinds)

SqliteAnswer(f, rows, tagged) ==
  LET found == Candidates(f, rows, tagged)
      rowsRead == IF Complete(f) THEN Truncate(found, f) ELSE found
  IN  IF RejectsEveryRow(f) THEN {} ELSE Truncate({e \in rowsRead : Matches(e, f)}, f)
=============================================================================
