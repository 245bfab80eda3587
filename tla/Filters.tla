-------------------------------- MODULE Filters --------------------------------
(***************************************************************************)
(* packages/cache-relay/src/utils/filter-utils.ts, storage/dexie/          *)
(* tag-index.ts and the predicates the storage adapters share: which       *)
(* events a NIP-01 filter selects, and which of an event's tags the        *)
(* storage indexes.                                                        *)
(*                                                                         *)
(* An event is its id, a number (ids are compared in lexical order); Ev    *)
(* gives its content.  A tag is <<key, value>>; a filter's list is None    *)
(* when the filter does not have it.                                       *)
(***************************************************************************)
EXTENDS Integers, FiniteSets, SequencesExt

CONSTANTS
  Ev,           \* [id -> [kind, author, at, tags]]
  Letters,      \* the tag keys that are one letter
  PriorityTags, \* the letters indexed first when an event has too many tags
  TagCap,       \* MAX_INDEXED_TAGS
  PriorityAuthors, \* CachePriority.pubkeys
  None          \* an absent condition, limit or row

Event == DOMAIN Ev
TagValues == UNION {{Ev[e].tags[i] : i \in DOMAIN Ev[e].tags} : e \in Event}
Filter ==
  [ids : {None} \cup Seq(Event), authors : {None} \cup Seq({Ev[e].author : e \in Event}),
   kinds : {None} \cup Seq(Nat), since : {None} \cup Int, until : {None} \cup Int,
   tags : SUBSET [key : STRING, values : SUBSET STRING], limit : {None} \cup Int]

ASSUME FiltersAssumption ==
  /\ IsFiniteSet(Event) /\ Event \subseteq Nat /\ None \notin Event
  /\ \A e \in Event : Ev[e].at \in Int
  /\ PriorityTags \subseteq Letters
  /\ TagCap \in Nat \ {0}

-----------------------------------------------------------------------------
(* The tag index: single-letter tags with a value; past the cap the        *)
(* priority letters come first and the rest of the tags is not indexed.    *)
IndexedTags(e) ==
  LET usable  == SelectSeq(Ev[e].tags, LAMBDA t : t[1] \in Letters /\ t[2] # "")
      ranked  == SelectSeq(usable, LAMBDA t : t[1] \in PriorityTags)
                   \o SelectSeq(usable, LAMBDA t : t[1] \notin PriorityTags)
  IN  ToSet(IF Len(usable) > TagCap THEN SubSeq(ranked, 1, TagCap) ELSE usable)

(* Kinds, retention and coordinates *)
IsDeletion(e) == Ev[e].kind = 5
ReplaceableKind(k) == k \in {0, 3} \/ k \in 10000 .. 19999
AddressableKind(k) == k \in 30000 .. 39999
Retained(e) == IsDeletion(e) \/ Ev[e].author \in PriorityAuthors
FirstD(e) ==
  LET ds == SelectSeq(Ev[e].tags, LAMBDA t : t[1] = "d")
  IN  IF ds = <<>> THEN None ELSE ds[1][2]
HasIdentifier(e, d) ==
  AddressableKind(Ev[e].kind) => d = IF FirstD(e) = None THEN "" ELSE FirstD(e)

-----------------------------------------------------------------------------
(* eventMatchesFilter.  An empty list selects nothing; both ends of the    *)
(* time range are inclusive; every tag condition needs one of its values.  *)
Listed(list, x) == list = None \/ \E i \in DOMAIN list : list[i] = x
InTime(e, f) ==
  /\ f.since = None \/ Ev[e].at >= f.since
  /\ f.until = None \/ Ev[e].at <= f.until
Matches(e, f) ==
  /\ Listed(f.ids, e) /\ Listed(f.authors, Ev[e].author) /\ Listed(f.kinds, Ev[e].kind)
  /\ InTime(e, f)
  /\ \A c \in f.tags : \E i \in DOMAIN Ev[e].tags :
       Ev[e].tags[i][1] = c.key /\ Ev[e].tags[i][2] \in c.values

(* rejectsEveryRow, hasInvalidTagFilter *)
RejectsEveryRow(f) == \E c \in f.tags : c.key \notin Letters \/ "" \in c.values

(* normalizeLimit, sortNewestFirst, capEvents.  Hits are the rows as they  *)
(* were read, <<cursor, event>>: an event read twice counts twice.         *)
NormalizeLimit(n) == IF n = None THEN None ELSE IF n < 0 THEN 0 ELSE n
Newer(a, b) == Ev[a].at > Ev[b].at \/ (Ev[a].at = Ev[b].at /\ a < b)
CapHits(hits, n) ==
  {h[2] : h \in {x \in hits : Cardinality({y \in hits : Newer(y[2], x[2])}) < n}}
CapEvents(S, n) == {e \in S : Cardinality({x \in S : Newer(x, e)}) < n}
Truncate(S, f) ==
  IF NormalizeLimit(f.limit) = None THEN S ELSE CapEvents(S, NormalizeLimit(f.limit))

-----------------------------------------------------------------------------
(* What NIP-01 promises of the stored rows, and what the capped tag index  *)
(* may cost: rows none of whose indexed tags is a value of the filter.     *)
IndexValues(f) ==
  UNION {{<<c.key, v>> : v \in c.values \ {""}} : c \in {x \in f.tags : x.key \in Letters}}
Selected(f, rows) ==
  IF RejectsEveryRow(f) THEN {} ELSE Truncate({e \in rows : Matches(e, f)}, f)
CutOff(f, rows) == {e \in rows : f.tags # {} /\ IndexedTags(e) \cap IndexValues(f) = {}}
RightAnswers(f, rows) == {Selected(f, rows), Selected(f, rows \ CutOff(f, rows))}
=============================================================================
