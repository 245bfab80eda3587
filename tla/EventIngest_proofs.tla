--------------------------- MODULE EventIngest_proofs ---------------------------
(***************************************************************************)
(* What is proved of the cache for every finite set of events, any number  *)
(* of events in flight, any limit, batch size and number of failures.      *)
(***************************************************************************)
EXTENDS EventIngest, FiniteSetTheorems, WellFoundedInduction, TLAPS

-----------------------------------------------------------------------------
(* The table: how each transaction changes the set of rows.                *)
StoreOK ==
  /\ cachedAt \in [Event -> Nat]
  /\ validated \subseteq Stored
  /\ priority \subseteq Authors

(* Closing the gaps in the ranks of cached_at keeps them numbers, and      *)
(* keeps exactly the given rows in the table.                              *)
LEMMA RankedRows ==
  ASSUME NEW rows, rows \subseteq Event, cachedAt \in [Event -> Nat]
  PROVE  /\ Ranked(rows) \in [Event -> Nat]
         /\ \A e \in Event : Ranked(rows)[e] > 0 <=> e \in rows
<1>1. ASSUME NEW e \in rows
      PROVE  Rank(rows, e) \in Nat /\ Rank(rows, e) > 0
  <2> DEFINE below == {k \in rows : cachedAt[k] <= cachedAt[e]}
  <2>1. IsFiniteSet(rows)
    BY EvAssumption, FS_Subset
  <2>2. IsFiniteSet(below)
    BY <2>1, FS_Subset
  <2>3. Cardinality(below) \in Nat /\ (Cardinality(below) = 0 <=> below = {})
    BY <2>2, FS_CardinalityType, FS_EmptySet
  <2>4. e \in below
    OBVIOUS
  <2> QED
    BY <2>3, <2>4 DEF Rank
<1> QED
  BY <1>1 DEF Ranked

(* A stamp puts the row at the end and loses no other.                     *)
LEMMA StampRows ==
  ASSUME NEW e \in Event, cachedAt \in [Event -> Nat], Stamp(e)
  PROVE  cachedAt' \in [Event -> Nat] /\ Stored' = Stored \cup {e}
<1> DEFINE others == Stored \ {e}
<1>1. others \subseteq Event
  BY DEF Stored
<1>2. /\ Ranked(others) \in [Event -> Nat]
      /\ \A k \in Event : Ranked(others)[k] > 0 <=> k \in others
  BY <1>1, RankedRows
<1>3. Cardinality(others) \in Nat
  BY <1>1, EvAssumption, FS_Subset, FS_CardinalityType
<1>4. cachedAt' = [Ranked(others) EXCEPT ![e] = Cardinality(others) + 1]
  BY DEF Stamp
<1>5. cachedAt' \in [Event -> Nat]
  BY <1>2, <1>3, <1>4
<1>6. \A k \in Event : cachedAt'[k] > 0 <=> (k = e \/ k \in others)
  BY <1>2, <1>3, <1>4
<1> QED
  BY <1>1, <1>5, <1>6 DEF Stored

(* saveEvent: one row more, marked only if verified now or before.         *)
LEMMA PutRows ==
  ASSUME StoreOK, NEW e \in Event, NEW verified \in BOOLEAN, Put(e, verified)
  PROVE  /\ StoreOK'
         /\ Stored' = Stored \cup {e}
         /\ validated' = IF verified THEN validated \cup {e} ELSE validated
<1>1. cachedAt' \in [Event -> Nat] /\ Stored' = Stored \cup {e}
  BY StampRows DEF Put, StoreOK
<1> QED
  BY <1>1 DEF Put, StoreOK, StillValidated

(* A delete takes the rows it names, and their marks with them.            *)
LEMMA RemoveRows ==
  ASSUME StoreOK, NEW rows, Remove(rows)
  PROVE  /\ StoreOK'
         /\ Stored' = Stored \ rows
         /\ validated' = validated \ rows
<1>1. Stored \ rows \subseteq Event
  BY DEF Stored
<1>2. /\ cachedAt' \in [Event -> Nat]
      /\ \A e \in Event : cachedAt'[e] > 0 <=> e \in Stored \ rows
  BY <1>1, RankedRows DEF Remove, StoreOK
<1>3. Stored' = Stored \ rows
  BY <1>1, <1>2 DEF Stored
<1> QED
  BY <1>2, <1>3 DEF Remove, StoreOK

(* The other writes of the adapter leave the set of rows alone; only       *)
(* markValidated adds marks, and only to rows that are there.              *)
LEMMA OtherRows ==
  ASSUME StoreOK
  PROVE  /\ \A e \in Event :
              Restamp(e) => StoreOK' /\ Stored' = Stored /\ validated' = validated
         /\ \A rows : Mark(rows) => /\ StoreOK' /\ Stored' = Stored
                                    /\ validated' = validated \cup (rows \cap Stored)
         /\ \A authors \in SUBSET Authors :
              SetPriority(authors) => StoreOK' /\ Stored' = Stored /\ validated' = validated
         /\ UNCHANGED storeVars => StoreOK' /\ Stored' = Stored /\ validated' = validated
<1>1. ASSUME NEW e \in Event, Restamp(e)
      PROVE  StoreOK' /\ Stored' = Stored /\ validated' = validated
  <2>1. cachedAt' \in [Event -> Nat] /\ Stored' = Stored \cup {e}
    BY <1>1, StampRows DEF Restamp, StoreOK
  <2> QED
    BY <1>1, <2>1 DEF Restamp, StoreOK
<1>2. ASSUME NEW rows, Mark(rows)
      PROVE  /\ StoreOK' /\ Stored' = Stored
             /\ validated' = validated \cup (rows \cap Stored)
  BY <1>2 DEF Mark, StoreOK, Stored
<1>3. ASSUME NEW authors \in SUBSET Authors, SetPriority(authors)
      PROVE  StoreOK' /\ Stored' = Stored /\ validated' = validated
  BY <1>3 DEF SetPriority, StoreOK, Stored
<1>4. ASSUME UNCHANGED storeVars
      PROVE  StoreOK' /\ Stored' = Stored /\ validated' = validated
  BY <1>4 DEF storeVars, StoreOK, Stored
<1> QED
  BY <1>1, <1>2, <1>3, <1>4

-----------------------------------------------------------------------------
(* Types.                                                                  *)

HandlerOK(r) == r \in HandlerState /\ (r.ph # "idle" => r.ev \in Event)
HeadOK == head \in [Coordinates -> Event \cup {NoEvent}]
Paths2 == {"ingest", "publish"}

(* What handleEvent goes on with is a handler state.                       *)
LEMMA AdmittedOK ==
  ASSUME NEW e \in Event, NEW path \in Paths2, NEW verified \in BOOLEAN
  PROVE  HandlerOK(Admitted(e, path, verified))
BY DEF HandlerOK, HandlerState, Phases, Admitted, Idle, Paths2

(* A versioned event has a coordinate, and only such an event replaces.    *)
LEMMA CoordinatesOfVersions ==
  ASSUME NEW e \in Event
  PROVE  /\ e \in Versioned => AddressOf(e) \in Coordinates
         /\ RequestedAddresses(e) \subseteq Address
         /\ \A path : Replaces(e, path) => e \in Versioned
BY EvAssumption DEF Versioned, Coordinates, RequestedAddresses, Replaces, HasVersions,
   CoordinateKind, IsReplaceable, IsAddressable

(* The history variables keep their types.                                 *)
LEMMA HistoryOK ==
  ASSUME HeadOK, raced \subseteq Coordinates, NEW e \in Event
  PROVE  /\ \A rows : Forget(rows) \in [Coordinates -> Event \cup {NoEvent}]
         /\ Newest(e) \in [Coordinates -> Event \cup {NoEvent}]
         /\ RacedAt(e) \subseteq Coordinates
         /\ \A h, path : RacedBy(h, e, path) \subseteq Coordinates
<1>1. \A rows : Forget(rows) \in [Coordinates -> Event \cup {NoEvent}]
  BY DEF Forget, HeadOK
<1>2. Newest(e) \in [Coordinates -> Event \cup {NoEvent}]
  BY DEF Newest, HeadOK
<1>3. RacedAt(e) \subseteq Coordinates
  BY CoordinatesOfVersions DEF RacedAt
<1>4. \A h, path : RacedBy(h, e, path) \subseteq Coordinates
  BY CoordinatesOfVersions DEF RacedBy
<1> QED
  BY <1>1, <1>2, <1>3, <1>4

TypeInv ==
  /\ StoreOK
  /\ mode \in Modes
  /\ hs \in [Handlers -> HandlerState] /\ \A h \in Handlers : HandlerOK(hs[h])
  /\ pass \in [on : BOOLEAN, todo : SUBSET Event, valid : SUBSET Event]
  /\ arrivals \in Nat /\ mishaps \in Nat
  /\ HeadOK /\ raced \subseteq Coordinates /\ debt \in Nat

(* TypeOK, in the parts the proofs cite.                                   *)
LEMMA TypeOKIsTypeInv == TypeOK <=> TypeInv
BY DEF TypeOK, TypeInv, StoreOK, HandlerOK, HeadOK

(* The types hold at first.                                                *)
LEMMA TypeInit == Init => TypeInv
<1> SUFFICES ASSUME Init PROVE TypeInv
  OBVIOUS
<1>1. StoreOK
  BY DEF Init, StoreInit, StoreOK, Stored
<1>2. HandlerOK(Idle)
  BY DEF HandlerOK, HandlerState, Phases, Idle
<1> QED
  BY <1>1, <1>2 DEF Init, TypeInv, HandlerOK, HeadOK, NoPass

(* The bounds of the model stay numbers.                                   *)
LEMMA BudgetOK ==
  ASSUME arrivals \in Nat, mishaps \in Nat, Fault \/ NoFault
  PROVE  arrivals' \in Nat /\ mishaps' \in Nat
BY DEF Fault, NoFault, budgetVars

(* A handler that moves to another phase with its event is still typed.    *)
LEMMA PhaseOK ==
  ASSUME NEW r, HandlerOK(r), r.ev \in Event, NEW p \in Phases, NEW T \in SUBSET Address
  PROVE  /\ HandlerOK([r EXCEPT !.ph = p])
         /\ HandlerOK([r EXCEPT !.todo = T, !.ph = p])
         /\ HandlerOK(Idle)
BY DEF HandlerOK, HandlerState, Idle, Phases

(* What follows a save is a handler state.                                 *)
LEMMA SavedOK ==
  ASSUME NEW e \in Event, NEW T \in SUBSET Address, NEW p \in Phases
  PROVE  /\ HandlerOK([Idle EXCEPT !.ph = p, !.ev = e, !.todo = T])
         /\ \A path \in Paths2 : HandlerOK([Idle EXCEPT !.ph = p, !.ev = e, !.path = path])
BY DEF HandlerOK, HandlerState, Idle, Phases, Paths2

(* A step of one handler leaves the others typed.                          *)
LEMMA OneHandler ==
  ASSUME NEW h \in Handlers, NEW r, HandlerOK(r), TypeInv, hs' = [hs EXCEPT ![h] = r]
  PROVE  hs' \in [Handlers -> HandlerState] /\ \A g \in Handlers : HandlerOK(hs'[g])
BY DEF TypeInv, HandlerOK

(* Every step keeps the types.                                             *)
LEMMA TypeStep == TypeInv /\ [Next]_vars => TypeInv'
<1> SUFFICES ASSUME TypeInv, [Next]_vars PROVE TypeInv'
  OBVIOUS
<1> USE DEF TypeInv
<1> DEFINE HandlersOK == hs' \in [Handlers -> HandlerState]
                         /\ \A g \in Handlers : HandlerOK(hs'[g])
           HistoryTyped == HeadOK' /\ raced' \subseteq Coordinates /\ debt' \in Nat
<1>id. HandlerOK(Idle)
  BY DEF HandlerOK, HandlerState, Idle, Phases
<1>ev. \A h \in Handlers : hs[h].ph # "idle" => hs[h].ev \in Event
  BY DEF HandlerOK
<1>1. ASSUME NEW h \in Handlers, NEW e \in Event, NEW path \in Paths, Arrive(h, e, path)
      PROVE  TypeInv'
  <2>1. path \in Paths2
    BY IngestAssumption DEF Paths2
  <2>2. StoreOK'
    BY <1>1, OtherRows DEF Arrive
  <2>3. HandlersOK /\ raced' \subseteq Coordinates
    <3>1. CASE MustValidateNow(e, path)
      <4>1. HandlerOK([Idle EXCEPT !.ph = "validate", !.ev = e, !.path = path])
        BY <2>1, SavedOK DEF Phases, Idle
      <4> QED
        BY <1>1, <3>1, <4>1, OneHandler DEF Arrive
    <3>2. CASE ~MustValidateNow(e, path)
      <4>1. HandlerOK(Admitted(e, path, FALSE))
        BY <2>1, AdmittedOK
      <4>2. hs' = [hs EXCEPT ![h] = Admitted(e, path, FALSE)] /\ raced' = RacedBy(h, e, path)
        BY <1>1, <3>2 DEF Arrive
      <4>3. HandlersOK
        BY <4>1, <4>2, OneHandler
      <4> QED
        BY <4>2, <4>3, HistoryOK
    <3> QED
      BY <3>1, <3>2
  <2> QED
    BY <1>1, <2>2, <2>3 DEF Arrive, HeadOK
<1>2. ASSUME NEW h \in Handlers, Validate(h)
      PROVE  TypeInv'
  <2>1. hs[h].ev \in Event /\ hs[h].path \in Paths2
    BY <1>2, <1>ev DEF Validate, HandlerState, Paths2
  <2> DEFINE new == Admitted(hs[h].ev, hs[h].path, TRUE)
  <2>2. HandlersOK /\ raced' \subseteq Coordinates
    <3>1. CASE Ev[hs[h].ev].valid
      <4>1. HandlerOK(new)
        BY <2>1, AdmittedOK
      <4>2. hs' = [hs EXCEPT ![h] = new] /\ raced' = RacedBy(h, hs[h].ev, hs[h].path)
        BY <1>2, <3>1 DEF Validate
      <4>3. HandlersOK
        BY <4>1, <4>2, OneHandler
      <4> QED
        BY <2>1, <4>2, <4>3, HistoryOK
    <3>2. CASE ~Ev[hs[h].ev].valid
      BY <1>2, <1>id, <3>2, OneHandler DEF Validate, Done
    <3> QED
      BY <3>1, <3>2
  <2> QED
    BY <1>2, <2>2, OtherRows DEF Validate, HeadOK, budgetVars
<1>3. ASSUME NEW h \in Handlers, Check(h)
      PROVE  TypeInv'
  <2>1. HandlerOK([hs[h] EXCEPT !.ph = "clear"])
    BY <1>3, <1>ev, PhaseOK DEF Check, Phases
  <2>2. HandlersOK
    BY <1>3, <1>id, <2>1, OneHandler DEF Check, Done, Goto
  <2> QED
    BY <1>3, <2>2, BudgetOK, OtherRows DEF Check, history, HeadOK
<1>4. ASSUME NEW h \in Handlers, Clear(h)
      PROVE  TypeInv'
  <2>1. HandlerOK([hs[h] EXCEPT !.ph = "save"]) /\ hs[h].ev \in Event
    BY <1>4, <1>ev, PhaseOK DEF Clear, Phases
  <2>2. HandlersOK
    BY <1>4, <2>1, OneHandler DEF Clear, Goto
  <2>3. StoreOK'
    BY <1>4, RemoveRows, OtherRows DEF Clear
  <2>4. raced' \subseteq Coordinates
    BY <1>4, <2>1, HistoryOK DEF Clear
  <2> QED
    BY <1>4, <2>2, <2>3, <2>4, BudgetOK DEF Clear, HeadOK
<1>5. ASSUME NEW h \in Handlers, Save(h)
      PROVE  TypeInv'
  <2> DEFINE e == hs[h].ev
  <2>1. e \in Event /\ hs[h].verified \in BOOLEAN
    BY <1>5, <1>ev DEF Save, HandlerState
  <2>2. CASE Saved(h)
    <3> DEFINE T == IF IsDeletion(e) THEN RequestedAddresses(e) ELSE {}
    <3>1. T \in SUBSET Address
      BY <2>1, CoordinatesOfVersions
    <3>2. AfterSave(e) \in Phases
      BY DEF AfterSave, Phases
    <3>3. HandlerOK([Idle EXCEPT !.ph = AfterSave(e), !.ev = e, !.todo = T])
      BY <2>1, <3>1, <3>2, SavedOK
    <3>4. HandlersOK
      BY <2>2, <3>3, OneHandler DEF Saved
    <3>5. StoreOK'
      BY <2>1, <2>2, PutRows DEF Saved
    <3>6. HeadOK' /\ raced' \subseteq Coordinates
      BY <2>1, <2>2, HistoryOK DEF Saved, HeadOK
    <3> QED
      BY <1>5, <2>2, <3>4, <3>5, <3>6, BudgetOK DEF Saved, Save
  <2>3. CASE SaveFails(h)
    <3>1. HandlersOK
      BY <1>id, <2>3, OneHandler DEF SaveFails, Done
    <3> QED
      BY <1>5, <2>1, <2>3, <3>1, HistoryOK, OtherRows, BudgetOK DEF SaveFails, Save, HeadOK
  <2> QED
    BY <1>5, <2>2, <2>3 DEF Save
<1>6. ASSUME NEW e \in Event, NEW rows, Deletes(rows)
      PROVE  StoreOK' /\ HeadOK' /\ arrivals' \in Nat /\ mishaps' \in Nat
  BY <1>6, RemoveRows, OtherRows, HistoryOK, BudgetOK DEF Deletes, HeadOK
<1>7. ASSUME NEW h \in Handlers, DeleteIds(h)
      PROVE  TypeInv'
  <2>1. /\ HandlerOK([hs[h] EXCEPT !.ph = "evict"]) /\ HandlerOK([hs[h] EXCEPT !.ph = "addrs"])
        /\ hs[h].ev \in Event
    BY <1>7, <1>ev, PhaseOK DEF DeleteIds, Phases
  <2>2. HandlersOK
    BY <1>7, <2>1, OneHandler DEF DeleteIds, Goto
  <2> QED
    BY <1>6, <1>7, <2>1, <2>2 DEF DeleteIds
<1>8. ASSUME NEW h \in Handlers, NEW a \in hs[h].todo, DeleteAddress(h, a)
      PROVE  TypeInv'
  <2> DEFINE p == IF hs[h].todo = {a} THEN "evict" ELSE "addrs"
  <2>1. hs[h].ev \in Event /\ hs[h].todo \ {a} \in SUBSET Address /\ p \in Phases
    BY <1>8, <1>ev DEF DeleteAddress, HandlerState, Phases
  <2>2. HandlerOK([hs[h] EXCEPT !.todo = hs[h].todo \ {a}, !.ph = p])
    BY <2>1, PhaseOK
  <2>3. hs' = [hs EXCEPT ![h] = [hs[h] EXCEPT !.todo = hs[h].todo \ {a}, !.ph = p]]
    BY <1>8 DEF DeleteAddress
  <2>4. HandlersOK
    BY <2>2, <2>3, OneHandler
  <2> QED
    BY <1>6, <1>8, <2>1, <2>4 DEF DeleteAddress
<1>9. ASSUME NEW h \in Handlers, EnforceLimit(h)
      PROVE  TypeInv'
  <2>1. HandlersOK /\ hs[h].ev \in Event
    BY <1>9, <1>id, <1>ev, OneHandler DEF EnforceLimit, Done
  <2>2. StoreOK' /\ HeadOK' /\ debt' \in Nat
    BY <1>9, <2>1, RemoveRows, OtherRows, HistoryOK DEF EnforceLimit, HeadOK
  <2> QED
    BY <1>9, <2>1, <2>2, BudgetOK DEF EnforceLimit
<1>10. ASSUME PassBegin
       PROVE  TypeInv'
  <2>1. \A B \in OldestPending(BatchSize) : B \subseteq Event
    BY DEF OldestPending, Pending, Stored
  <2> QED
    BY <1>10, <2>1, OtherRows DEF PassBegin, NoPass, budgetVars, history, HeadOK
<1>11. ASSUME NEW e \in pass.todo, PassJudge(e)
       PROVE  TypeInv'
  <2>1. e \in Event
    OBVIOUS
  <2>2. StoreOK' /\ HeadOK' /\ arrivals' \in Nat /\ mishaps' \in Nat
    BY <1>6, <1>11, <2>1, OtherRows, BudgetOK DEF PassJudge, HeadOK
  <2>3. pass' \in [on : BOOLEAN, todo : SUBSET Event, valid : SUBSET Event]
    BY <1>11, <2>1 DEF PassJudge
  <2> QED
    BY <1>11, <2>2, <2>3 DEF PassJudge
<1>12. ASSUME PassEnd
       PROVE  TypeInv'
  BY <1>12, OtherRows, BudgetOK DEF PassEnd, NoPass, history, HeadOK
<1>13. ASSUME NEW time, Sweep(time)
       PROVE  TypeInv'
  <2>1. \E e \in Event : TRUE
    BY <1>13 DEF Sweep, Expired, Stored
  <2> QED
    BY <1>13, <2>1, RemoveRows, HistoryOK DEF Sweep, budgetVars, HeadOK
<1>14. ASSUME NEW e \in Event, Revalidated(e)
       PROVE  TypeInv'
  BY <1>14, OtherRows DEF Revalidated, budgetVars, history, HeadOK
<1>15. ASSUME NEW authors \in PriorityChoices, SetCachePriority(authors)
       PROVE  TypeInv'
  <2>1. authors \in SUBSET Authors
    BY IngestAssumption
  <2> QED
    BY <1>15, <2>1, OtherRows DEF SetCachePriority, budgetVars, history, HeadOK
<1>16. ASSUME Reload
       PROVE  TypeInv'
  <2>1. IsFiniteSet(SavedNotEvicted)
    BY IngestAssumption, FS_Subset DEF SavedNotEvicted
  <2>2. debt' \in Nat
    BY <1>16, <2>1, FS_CardinalityType DEF Reload
  <2>3. HandlersOK
    BY <1>16, <1>id DEF Reload, HandlerOK
  <2> QED
    BY <1>16, <2>2, <2>3, OtherRows, BudgetOK DEF Reload, NoPass, HeadOK
<1>17. CASE UNCHANGED vars
  BY <1>17, OtherRows DEF vars, budgetVars, history, HeadOK
<1> QED
  BY <1>1, <1>2, <1>3, <1>4, <1>5, <1>7, <1>8, <1>9, <1>10, <1>11, <1>12, <1>13, <1>14, <1>15,
     <1>16, <1>17 DEF Next, HandlerStep, PassStep

(* Types hold in every reachable state; in particular no mark survives its *)
(* row, so a later write of the event is not taken for a verified one.     *)
THEOREM CacheTypeOK == Spec => []TypeOK
<1>1. Spec => []TypeInv
  BY TypeInit, TypeStep, PTL DEF Spec
<1> QED
  BY <1>1, TypeOKIsTypeInv, PTL

-----------------------------------------------------------------------------
(* What a step may do to the table: write the row of one handler, remove   *)
(* rows for a reason, or leave the rows alone.                             *)

Grows == \E h \in Handlers : hs[h].ph = "save" /\ Put(hs[h].ev, hs[h].verified)
Shrinks ==
  \E rows \in SUBSET Stored :
    /\ Remove(rows)
    /\ \A e \in rows : MayVanish(e)
    /\ \A e \in rows : IsDeletion(e) => ~Ev[e].valid \/ rows \in Victims
Stays ==
  /\ Stored' = Stored
  /\ validated' = validated \/ validated' = validated \cup (pass.valid \cap Stored)

(* Kind 5 is no replaceable kind: a deletion request replaces nothing.     *)
LEMMA NoVersionIsRequest ==
  ASSUME NEW e \in Event, HasVersions(e) PROVE ~IsDeletion(e)
<1>1. ~CoordinateKind(5)
  BY DEF CoordinateKind, ReplaceableKind, AddressableKind
<1> QED
  BY <1>1 DEF HasVersions, IsDeletion

(* What a handler deletes is stored, of its author, and no deletion        *)
(* request.                                                                *)
LEMMA SelectedRows ==
  ASSUME NEW d \in Event
  PROVE  /\ Replaces(d, "ingest") =>
              /\ OldVersions(d) \subseteq Stored
              /\ \A e \in OldVersions(d) : Ev[e].author = Ev[d].author /\ ~IsDeletion(e)
         /\ ByIds(d) \subseteq Stored
         /\ \A e \in ByIds(d) : Ev[e].author = Ev[d].author /\ ~IsDeletion(e)
         /\ \A a : a.author = Ev[d].author =>
              /\ ByAddress(d, a) \subseteq Stored
              /\ \A e \in ByAddress(d, a) : Ev[e].author = Ev[d].author /\ ~IsDeletion(e)
<1>1. ASSUME Replaces(d, "ingest")
      PROVE  /\ OldVersions(d) \subseteq Stored
             /\ \A e \in OldVersions(d) : Ev[e].author = Ev[d].author /\ ~IsDeletion(e)
  <2>1. HasVersions(d)
    BY <1>1 DEF Replaces, HasVersions, CoordinateKind, IsReplaceable, IsAddressable
  <2>2. OldVersions(d) \subseteq ByPubkeyAndKind(d)
    BY DEF OldVersions, ByDTag
  <2>3. ~IsDeletion(d)
    BY <2>1, NoVersionIsRequest
  <2> QED
    BY <2>2, <2>3 DEF ByPubkeyAndKind, IsDeletion
<1>2. /\ ByIds(d) \subseteq Stored
      /\ \A e \in ByIds(d) : Ev[e].author = Ev[d].author /\ ~IsDeletion(e)
  BY DEF ByIds
<1>3. ASSUME NEW a, a.author = Ev[d].author
      PROVE  /\ ByAddress(d, a) \subseteq Stored
             /\ \A e \in ByAddress(d, a) : Ev[e].author = Ev[d].author /\ ~IsDeletion(e)
  <2>1. \A e \in ByAddress(d, a) : e \in Stored /\ e \in Event /\ HasVersions(e) /\ Matches(e, a)
    BY DEF ByAddress, VersionsAt, Versioned
  <2> QED
    BY <1>3, <2>1, NoVersionIsRequest DEF Matches
<1> QED
  BY <1>1, <1>2, <1>3

(* A handler in one of its deleting phases has a reason to delete.         *)
LEMMA Vanish ==
  ASSUME TypeInv, NEW h \in Handlers, NEW e, ~IsDeletion(e),
         hs[h].ph \in {"clear", "ids", "addrs"}, hs'[h] # hs[h],
         Ev[hs[h].ev].author = Ev[e].author
  PROVE  MayVanish(e)
BY DEF MayVanish, Moved

(* What a handler in each phase knows of its event.                        *)
LocalInv(r) ==
  /\ r.ph \in {"check", "clear"} => Replaces(r.ev, r.path)
  /\ r.ph \in {"ids", "addrs"} => \A a \in r.todo : a.author = Ev[r.ev].author
  /\ r.ph = "save" /\ r.path = "ingest" /\ HasVersions(r.ev) => Replaces(r.ev, r.path)
  /\ r.ph \in {"check", "clear", "save"} =>
       /\ r.verified => Ev[r.ev].valid
       /\ mode = "IMMEDIATELY" \/ IsDeletion(r.ev) => r.verified
PhaseInv == \A h \in Handlers : LocalInv(hs[h])

(* handleEvent goes on with what a handler of that phase knows.            *)
LEMMA LocalAdmitted ==
  ASSUME NEW e \in Event, NEW path, NEW v \in BOOLEAN,
         v => Ev[e].valid, MustValidateNow(e, path) => v
  PROVE  LocalInv(Admitted(e, path, v))
BY DEF LocalInv, Admitted, Idle, Replaces, PassesThrough, MustValidateNow, HasVersions,
   CoordinateKind, IsReplaceable, IsAddressable

(* A step of one handler leaves what the others know.                      *)
LEMMA LocalOne ==
  ASSUME TypeInv, PhaseInv, UNCHANGED mode,
         NEW h \in Handlers, NEW r, LocalInv(r), hs' = [hs EXCEPT ![h] = r]
  PROVE  PhaseInv'
<1>1. \A g \in Handlers : LocalInv(hs'[g])
  BY DEF PhaseInv, TypeInv
<1> QED
  BY <1>1 DEF PhaseInv, LocalInv

(* Every step keeps what the handlers know.                                *)
LEMMA PhaseStep == TypeInv /\ PhaseInv /\ [Next]_vars => PhaseInv'
<1> SUFFICES ASSUME TypeInv, PhaseInv, [Next]_vars PROVE PhaseInv'
  OBVIOUS
<1> USE DEF TypeInv
<1>id. LocalInv(Idle)
  BY DEF LocalInv, Idle
<1>ev. \A h \in Handlers : hs[h].ph # "idle" => hs[h].ev \in Event
  BY DEF HandlerOK
<1>in. \A h \in Handlers : LocalInv(hs[h])
  BY DEF PhaseInv
<1>same. ASSUME UNCHANGED <<hs, mode>> PROVE PhaseInv'
  BY <1>same DEF PhaseInv, LocalInv
<1>1. ASSUME NEW h \in Handlers, NEW e \in Event, NEW path \in Paths, Arrive(h, e, path)
      PROVE  PhaseInv'
  <2>1. LocalInv([Idle EXCEPT !.ph = "validate", !.ev = e, !.path = path])
    BY DEF LocalInv, Idle
  <2>2. ~MustValidateNow(e, path) => LocalInv(Admitted(e, path, FALSE))
    BY LocalAdmitted
  <2> QED
    BY <1>1, <2>1, <2>2, LocalOne DEF Arrive
<1>2. ASSUME NEW h \in Handlers, Validate(h)
      PROVE  PhaseInv'
  <2>1. hs[h].ev \in Event
    BY <1>2, <1>ev DEF Validate
  <2>2. Ev[hs[h].ev].valid => LocalInv(Admitted(hs[h].ev, hs[h].path, TRUE))
    BY <2>1, LocalAdmitted
  <2> QED
    BY <1>2, <1>id, <2>2, LocalOne DEF Validate, Done
<1>3. ASSUME NEW h \in Handlers, Check(h) \/ Clear(h)
      PROVE  PhaseInv'
  <2>1. hs[h] \in HandlerState /\ hs[h].ev \in Event
    BY <1>3, <1>ev DEF Check, Clear
  <2>2. LocalInv([hs[h] EXCEPT !.ph = "clear"]) \/ hs[h].ph # "check"
    BY <1>in, <2>1 DEF LocalInv, HandlerState
  <2>3. LocalInv([hs[h] EXCEPT !.ph = "save"]) \/ hs[h].ph # "clear"
    BY <1>in, <2>1 DEF LocalInv, HandlerState
  <2>4. CASE Check(h)
    BY <1>id, <2>2, <2>4, LocalOne DEF Check, Done, Goto
  <2>5. CASE Clear(h)
    BY <2>3, <2>5, LocalOne DEF Clear, Goto
  <2> QED
    BY <1>3, <2>4, <2>5
<1>4. ASSUME NEW h \in Handlers, Save(h)
      PROVE  PhaseInv'
  <2> DEFINE e == hs[h].ev
             r == [Idle EXCEPT !.ph = AfterSave(e), !.ev = e,
                     !.todo = IF IsDeletion(e) THEN RequestedAddresses(e) ELSE {}]
  <2>1. LocalInv(r)
    BY DEF LocalInv, Idle, AfterSave, RequestedAddresses
  <2> QED
    BY <1>4, <1>id, <2>1, LocalOne DEF Save, Saved, SaveFails, Done
<1>5. ASSUME NEW h \in Handlers, DeleteIds(h)
      PROVE  PhaseInv'
  <2> DEFINE r == [hs[h] EXCEPT !.ph = IF hs[h].todo = {} THEN "evict" ELSE "addrs"]
  <2>1. LocalInv(r)
    BY <1>5, <1>in DEF LocalInv, DeleteIds, HandlerState
  <2>2. hs' = [hs EXCEPT ![h] = r]
    BY <1>5 DEF DeleteIds, Goto
  <2> QED
    BY <1>5, <2>1, <2>2, LocalOne DEF DeleteIds
<1>6. ASSUME NEW h \in Handlers, NEW a \in hs[h].todo, DeleteAddress(h, a)
      PROVE  PhaseInv'
  <2> DEFINE r == [hs[h] EXCEPT !.todo = hs[h].todo \ {a},
                                !.ph = IF hs[h].todo = {a} THEN "evict" ELSE "addrs"]
  <2>1. LocalInv(r)
    BY <1>6, <1>in DEF LocalInv, DeleteAddress, HandlerState
  <2>2. hs' = [hs EXCEPT ![h] = r]
    BY <1>6 DEF DeleteAddress
  <2> QED
    BY <1>6, <2>1, <2>2, LocalOne DEF DeleteAddress
<1>7. ASSUME NEW h \in Handlers, EnforceLimit(h)
      PROVE  PhaseInv'
  BY <1>7, <1>id, LocalOne DEF EnforceLimit, Done
<1>8. ASSUME Reload
      PROVE  PhaseInv'
  <2>1. \A g \in Handlers : LocalInv(hs'[g])
    BY <1>8, <1>id DEF Reload
  <2> QED
    BY <1>8, <2>1 DEF Reload, PhaseInv, LocalInv
<1>9. ASSUME \/ PassStep \/ UNCHANGED vars
             \/ \E time \in 1 .. Cardinality(Event) + 1 : Sweep(time)
             \/ \E e \in Event : Revalidated(e)
             \/ \E authors \in PriorityChoices : SetCachePriority(authors)
      PROVE  PhaseInv'
  BY <1>9, <1>same
  DEF PassStep, PassBegin, PassJudge, PassEnd, Sweep, Revalidated, SetCachePriority, vars
<1> QED
  BY <1>1, <1>2, <1>3, <1>4, <1>5, <1>6, <1>7, <1>8, <1>9 DEF Next, HandlerStep

(* What any step does to the table: a row more, rows less that each have   *)
(* a reason to go, or none of both.                                        *)
LEMMA Effects == TypeInv /\ PhaseInv /\ [Next]_vars => Grows \/ Shrinks \/ Stays
<1> SUFFICES ASSUME TypeInv, PhaseInv, [Next]_vars PROVE Grows \/ Shrinks \/ Stays
  OBVIOUS
<1> USE DEF TypeInv
<1>st. UNCHANGED storeVars => Stays
  BY OtherRows DEF Stays
<1>ev. \A h \in Handlers : hs[h].ph # "idle" => hs[h].ev \in Event
  BY DEF HandlerOK
<1>1. ASSUME NEW h \in Handlers, Clear(h)
      PROVE  Shrinks \/ Stays
  <2>1. hs[h].ev \in Event /\ Replaces(hs[h].ev, "ingest")
    BY <1>1, <1>ev DEF Clear, PhaseInv, LocalInv, Replaces
  <2>2. hs'[h] # hs[h] /\ hs[h].ph = "clear"
    BY <1>1 DEF Clear, Goto, HandlerState
  <2> DEFINE rows == OldVersions(hs[h].ev)
  <2>3. /\ rows \subseteq Stored
        /\ \A e \in rows : Ev[e].author = Ev[hs[h].ev].author /\ ~IsDeletion(e)
    BY <2>1, SelectedRows
  <2>4. \A e \in rows : MayVanish(e)
    BY <2>2, <2>3, Vanish
  <2> QED
    BY <1>1, <1>st, <2>3, <2>4 DEF Clear, Shrinks
<1>2. ASSUME NEW h \in Handlers, DeleteIds(h)
      PROVE  Shrinks \/ Stays
  <2>1. hs[h].ev \in Event
    BY <1>2, <1>ev DEF DeleteIds
  <2>2. hs'[h] # hs[h] /\ hs[h].ph = "ids"
    BY <1>2 DEF DeleteIds, Goto, HandlerState
  <2> DEFINE rows == ByIds(hs[h].ev)
  <2>3. /\ rows \subseteq Stored
        /\ \A e \in rows : Ev[e].author = Ev[hs[h].ev].author /\ ~IsDeletion(e)
    BY <2>1, SelectedRows
  <2>4. \A e \in rows : MayVanish(e)
    BY <2>2, <2>3, Vanish
  <2> QED
    BY <1>2, <1>st, <2>3, <2>4 DEF DeleteIds, Deletes, Shrinks
<1>3. ASSUME NEW h \in Handlers, NEW a \in hs[h].todo, DeleteAddress(h, a)
      PROVE  Shrinks \/ Stays
  <2>1. hs[h].ev \in Event /\ a.author = Ev[hs[h].ev].author
    BY <1>3, <1>ev DEF DeleteAddress, PhaseInv, LocalInv
  <2>2. hs'[h].todo = hs[h].todo \ {a} /\ hs[h].ph = "addrs"
    BY <1>3 DEF DeleteAddress, HandlerState
  <2> DEFINE rows == ByAddress(hs[h].ev, a)
  <2>3. /\ rows \subseteq Stored
        /\ \A e \in rows : Ev[e].author = Ev[hs[h].ev].author /\ ~IsDeletion(e)
    BY <2>1, SelectedRows
  <2>4. \A e \in rows : MayVanish(e)
    BY <2>2, <2>3, Vanish
  <2> QED
    BY <1>3, <1>st, <2>3, <2>4 DEF DeleteAddress, Deletes, Shrinks
<1>4. ASSUME NEW h \in Handlers, EnforceLimit(h)
      PROVE  Shrinks \/ Stays
  <2>1. Moved(h, {"evict"})
    BY <1>4 DEF EnforceLimit, Done, Moved, Idle, HandlerState
  <2>2. \A V \in Victims : V \subseteq Stored /\ \A e \in V : MayVanish(e)
    BY <2>1 DEF Victims, MayVanish
  <2> QED
    BY <1>4, <1>st, <2>2 DEF EnforceLimit, Shrinks
<1>5. ASSUME NEW e \in pass.todo, PassJudge(e)
      PROVE  Shrinks \/ Stays
  <2>1. CASE ~Ev[e].valid /\ Deletes({e})
    <3>1. pass' # pass
      BY <1>5 DEF PassJudge
    <3>2. MayVanish(e)
      BY <2>1, <3>1 DEF MayVanish
    <3>3. CASE Remove({e})
      <4>1. Remove({e} \cap Stored)
        BY <3>3 DEF Remove, StoreOK, Ranked, Rank
      <4> QED
        BY <2>1, <3>2, <4>1 DEF Shrinks
    <3> QED
      BY <1>st, <2>1, <3>3 DEF Deletes
  <2> QED
    BY <1>5, <1>st, <2>1 DEF PassJudge
<1>6. ASSUME NEW time, Sweep(time)
      PROVE  Shrinks
  <2>1. \A e \in Expired(time) : e \in Stored /\ ~Protected(e)
    BY DEF Expired
  <2> QED
    BY <1>6, <2>1 DEF Sweep, Shrinks, MayVanish, Protected
<1>7. ASSUME NEW h \in Handlers, Save(h)
      PROVE  Grows \/ Stays
  BY <1>7, <1>st DEF Save, Saved, SaveFails, Grows
<1>8. ASSUME PassEnd PROVE Stays
  BY <1>8, OtherRows DEF PassEnd, Stays
<1>9. ASSUME NEW e \in Event, Revalidated(e) PROVE Stays
  BY <1>9, OtherRows DEF Revalidated, Stays
<1>10. ASSUME NEW authors \in PriorityChoices, SetCachePriority(authors) PROVE Stays
  <2>1. authors \in SUBSET Authors
    BY IngestAssumption
  <2> QED
    BY <1>10, <2>1, OtherRows DEF SetCachePriority, Stays
<1>11. ASSUME UNCHANGED vars \/ PassBegin \/ Reload
              \/ (\E h \in Handlers : Validate(h) \/ Check(h)
                    \/ \E e \in Event, path \in Paths : Arrive(h, e, path))
       PROVE  Stays
  BY <1>11, <1>st DEF vars, PassBegin, Reload, Validate, Check, Arrive
<1> QED
  BY <1>1, <1>2, <1>3, <1>4, <1>5, <1>6, <1>7, <1>8, <1>9, <1>10, <1>11
  DEF Next, HandlerStep, PassStep

-----------------------------------------------------------------------------
(* Verification.                                                           *)

PassInv == pass.valid \subseteq Genuine
VerifiedInv == TypeInv /\ PhaseInv /\ PassInv /\ NothingUnverified

(* The verification invariant holds at first.                              *)
LEMMA VerifiedInit == Init => VerifiedInv
<1> SUFFICES ASSUME Init PROVE VerifiedInv
  OBVIOUS
<1>1. TypeInv
  BY TypeInit
<1>2. PhaseInv
  BY DEF Init, PhaseInv, LocalInv, Idle
<1>3. Stored = {}
  BY DEF Init, StoreInit, Stored
<1> QED
  BY <1>1, <1>2, <1>3 DEF Init, StoreInit, VerifiedInv, PassInv, NoPass, NothingUnverified, Pending

(* Every step keeps it: a mark is earned by the door or by the pass.       *)
LEMMA VerifiedStep == VerifiedInv /\ [Next]_vars => VerifiedInv'
<1> SUFFICES ASSUME VerifiedInv, [Next]_vars PROVE VerifiedInv'
  OBVIOUS
<1> USE DEF VerifiedInv
<1>1. TypeInv' /\ PhaseInv'
  BY TypeStep, PhaseStep
<1>2. PassInv'
  <2>1. ASSUME NEW e \in pass.todo, PassJudge(e) PROVE PassInv'
    <3>1. pass.todo \subseteq Event /\ DOMAIN pass = {"on", "todo", "valid"}
      BY DEF TypeInv
    <3>2. CASE Ev[e].valid
      <4>1. pass'.valid = pass.valid \cup {e}
        BY <2>1, <3>2, <3>1 DEF PassJudge, TypeInv
      <4> QED
        BY <3>1, <3>2, <4>1 DEF PassInv, Genuine
    <3>3. CASE ~Ev[e].valid
      <4>1. pass'.valid = pass.valid
        BY <2>1, <3>3 DEF PassJudge, TypeInv
      <4> QED
        BY <4>1 DEF PassInv, Genuine
    <3> QED
      BY <3>2, <3>3
  <2>2. CASE PassBegin \/ PassEnd \/ Reload
    <3>1. CASE PassBegin
      <4>1. PICK B : pass' = [NoPass EXCEPT !.on = TRUE, !.todo = B]
        BY <3>1 DEF PassBegin
      <4>2. pass'.valid = {}
        BY <4>1 DEF NoPass
      <4> QED
        BY <4>2 DEF PassInv
    <3>2. CASE PassEnd \/ Reload
      <4>1. pass' = NoPass
        BY <3>2 DEF PassEnd, Reload
      <4>2. pass'.valid = {}
        BY <4>1 DEF NoPass
      <4> QED
        BY <4>2 DEF PassInv
    <3> QED
      BY <2>2, <3>1, <3>2
  <2>3. ASSUME UNCHANGED pass PROVE PassInv'
    BY <2>3 DEF PassInv, Genuine
  <2>4. ASSUME NEW h \in Handlers, HandlerStep(h) PROVE UNCHANGED pass
    BY <2>4 DEF HandlerStep, Validate, Check, Clear, Save, DeleteIds, DeleteAddress, EnforceLimit
  <2>5. ASSUME NEW h \in Handlers, NEW e \in Event, NEW path \in Paths, Arrive(h, e, path)
        PROVE  UNCHANGED pass
    BY <2>5 DEF Arrive
  <2>6. ASSUME \/ \E time \in 1 .. Cardinality(Event) + 1 : Sweep(time)
               \/ \E e \in Event : Revalidated(e)
               \/ \E authors \in PriorityChoices : SetCachePriority(authors)
               \/ UNCHANGED vars
        PROVE  UNCHANGED pass
    BY <2>6 DEF Sweep, Revalidated, SetCachePriority, vars
  <2> QED
    BY <2>1, <2>2, <2>3, <2>4, <2>5, <2>6 DEF Next, PassStep
<1>3. mode' = mode
  BY DEF Next, HandlerStep, PassStep, PassBegin, PassJudge, PassEnd,
     Arrive, Validate, Check, Clear, Save, DeleteIds, DeleteAddress, EnforceLimit, Sweep,
     Revalidated, SetCachePriority, Reload, vars
<1>4. NothingUnverified'
  <2>1. CASE Grows
    <3>1. PICK h \in Handlers : hs[h].ph = "save" /\ Put(hs[h].ev, hs[h].verified)
      BY <2>1 DEF Grows
    <3> DEFINE e == hs[h].ev
    <3>2. e \in Event /\ hs[h].verified \in BOOLEAN
      BY <3>1 DEF TypeInv, HandlerOK, HandlerState
    <3>3. /\ hs[h].verified => Ev[e].valid
          /\ mode = "IMMEDIATELY" \/ IsDeletion(e) => hs[h].verified
      BY <3>1 DEF PhaseInv, LocalInv
    <3>4. /\ Stored' = Stored \cup {e}
          /\ validated' = IF hs[h].verified THEN validated \cup {e} ELSE validated
      BY <3>1, <3>2, PutRows DEF TypeInv
    <3> QED
      BY <1>3, <3>2, <3>3, <3>4 DEF NothingUnverified, Genuine, Pending
  <2>2. CASE Shrinks
    <3>1. PICK rows : Remove(rows)
      BY <2>2 DEF Shrinks
    <3>2. Stored' = Stored \ rows /\ validated' = validated \ rows
      BY <3>1, RemoveRows DEF TypeInv
    <3> QED
      BY <1>3, <3>2 DEF NothingUnverified, Genuine, Pending
  <2>3. CASE Stays
    BY <1>3, <2>3 DEF Stays, NothingUnverified, Genuine, Pending, PassInv
  <2> QED
    BY <2>1, <2>2, <2>3, Effects
<1> QED
  BY <1>1, <1>2, <1>4

(* It holds always.                                                        *)
LEMMA VerifiedAlways == Spec => []VerifiedInv
BY VerifiedInit, VerifiedStep, PTL DEF Spec

(* In no mode does an unverified row carry the mark, or a deletion request *)
(* take effect unverified; under IMMEDIATELY every row is verified.        *)
THEOREM CacheNothingUnverified == Spec => []NothingUnverified
<1>1. VerifiedInv => NothingUnverified
  BY DEF VerifiedInv
<1> QED
  BY <1>1, VerifiedAlways, PTL

(* A mark is lost only with its row.                                       *)
THEOREM CacheNoDowngrade == Spec => NoDowngrade
<1>1. VerifiedInv /\ [Next]_vars =>
        [\A e \in validated : cachedAt'[e] > 0 => e \in validated']_vars
  <2> SUFFICES ASSUME VerifiedInv, [Next]_vars, NEW e \in validated, cachedAt'[e] > 0
               PROVE  e \in validated'
    OBVIOUS
  <2> USE DEF VerifiedInv
  <2>1. e \in Stored /\ e \in Stored'
    BY DEF TypeInv, StoreOK, Stored
  <2>2. CASE Grows
    BY <2>2, PutRows DEF Grows, TypeInv, HandlerOK, HandlerState
  <2>3. CASE Shrinks
    BY <2>1, <2>3, RemoveRows DEF Shrinks, TypeInv
  <2>4. CASE Stays
    BY <2>4 DEF Stays
  <2> QED
    BY <2>2, <2>3, <2>4, Effects
<1> QED
  BY <1>1, VerifiedAlways, PTL DEF Spec, NoDowngrade

(* A row vanishes only for a reason of its own author, of the limit, of    *)
(* its bad signature or of its age.                                        *)
LEMMA CacheDestroysOnlyItsOwn == Spec => DestroysOnlyItsOwn
<1>1. VerifiedInv /\ [Next]_vars =>
        [\A e \in Event : (e \in Stored /\ cachedAt'[e] = 0) => MayVanish(e)]_vars
  <2> SUFFICES ASSUME VerifiedInv, [Next]_vars, NEW e \in Event, e \in Stored, cachedAt'[e] = 0
               PROVE  MayVanish(e)
    OBVIOUS
  <2> USE DEF VerifiedInv
  <2>1. e \notin Stored'
    BY DEF Stored
  <2>2. CASE Grows
    BY <2>1, <2>2, PutRows DEF Grows, TypeInv, HandlerOK, HandlerState
  <2>3. CASE Shrinks
    BY <2>1, <2>3, RemoveRows DEF Shrinks, TypeInv
  <2> QED
    BY <2>1, <2>2, <2>3, Effects DEF Stays
<1> QED
  BY <1>1, VerifiedAlways, PTL DEF Spec, DestroysOnlyItsOwn

(* Deletion requests are the last rows to go.                              *)
LEMMA CacheRequestsGoLast == Spec => RequestsGoLast
<1> DEFINE A == (\E e \in Stored : IsDeletion(e) /\ cachedAt'[e] = 0)
                  => \A e \in Event : cachedAt'[e] > 0 => Protected(e)
<1>1. VerifiedInv /\ [Next]_vars => [A]_vars
  <2> SUFFICES ASSUME VerifiedInv, [Next]_vars,
                      NEW d \in Stored, IsDeletion(d), cachedAt'[d] = 0,
                      NEW e \in Event, cachedAt'[e] > 0
               PROVE  Protected(e)
    OBVIOUS
  <2> USE DEF VerifiedInv
  <2>1. d \notin Stored' /\ e \in Stored' /\ d \in Event
    BY DEF Stored
  <2>2. Ev[d].valid
    BY DEF NothingUnverified, Genuine
  <2>3. CASE Grows
    BY <2>1, <2>3, PutRows DEF Grows, TypeInv, HandlerOK, HandlerState
  <2>4. CASE Shrinks
    <3>1. PICK rows \in SUBSET Stored :
            Remove(rows) /\ \A k \in rows : IsDeletion(k) => ~Ev[k].valid \/ rows \in Victims
      BY <2>4 DEF Shrinks
    <3>2. Stored' = Stored \ rows
      BY <3>1, RemoveRows DEF TypeInv
    <3>3. d \in rows /\ rows \in Victims /\ e \in Stored \ rows
      BY <2>1, <2>2, <3>1, <3>2
    <3> QED
      BY <3>3 DEF Victims, MayEvict, Protected
  <2> QED
    BY <2>1, <2>3, <2>4, Effects DEF Stays
<1> QED
  BY <1>1, VerifiedAlways, PTL DEF Spec, RequestsGoLast

(* Every row that goes has a reason to go, a deletion request the last one.*)
THEOREM CacheDestroysWithReason == Spec => DestroysWithReason
BY CacheDestroysOnlyItsOwn, CacheRequestsGoLast DEF DestroysWithReason

-----------------------------------------------------------------------------
(* The limit.  A row too many is owed to a handler whose eviction is still *)
(* to come, or was counted as lost.                                        *)

Owed == Cardinality(SavedNotEvicted)

(* The numbers SoftLimit compares are natural numbers.                     *)
LEMMA Counted ==
  ASSUME TypeInv
  PROVE  /\ IsFiniteSet(Stored) /\ Cardinality(Stored) \in Nat
         /\ IsFiniteSet(SavedNotEvicted) /\ Owed \in Nat
         /\ MaxSize \in Nat /\ debt \in Nat
<1>1. IsFiniteSet(Stored)
  BY EvAssumption, FS_Subset DEF Stored
<1>2. IsFiniteSet(SavedNotEvicted)
  BY IngestAssumption, FS_Subset DEF SavedNotEvicted
<1> QED
  BY <1>1, <1>2, FS_CardinalityType, EvAssumption DEF Owed, TypeInv

(* A step that stores nothing keeps the limit.                             *)
LEMMA FewerRows ==
  ASSUME TypeInv, TypeInv', SoftLimit, Stored' \subseteq Stored,
         SavedNotEvicted' = SavedNotEvicted, debt' = debt
  PROVE  SoftLimit'
<1>1. Cardinality(Stored') <= Cardinality(Stored) /\ Cardinality(Stored') \in Nat
  BY Counted, FS_Subset, FS_CardinalityType
<1> QED
  BY <1>1, Counted DEF SoftLimit, Owed

(* Where a handler is after a step of its own; the others do not move.     *)
OnlyMoves(h, phases) ==
  /\ hs'[h].ph \in phases
  /\ \A g \in Handlers : g # h => hs'[g] = hs[g]

(* Which phases each operation of a handler leads to.                      *)
LEMMA NextPhases ==
  ASSUME TypeInv, NEW h \in Handlers
  PROVE  /\ \A e \in Event, path \in Paths : Arrive(h, e, path) => OnlyMoves(h, {"idle", "validate", "check", "save"})
         /\ Validate(h) => OnlyMoves(h, {"idle", "check", "save"})
         /\ Check(h) => OnlyMoves(h, {"idle", "clear"})
         /\ Clear(h) => OnlyMoves(h, {"save"})
         /\ SaveFails(h) => OnlyMoves(h, {"idle"})
         /\ Saved(h) => OnlyMoves(h, {"ids", "addrs", "evict"})
         /\ DeleteIds(h) => OnlyMoves(h, {"addrs", "evict"})
         /\ \A a \in hs[h].todo : DeleteAddress(h, a) => OnlyMoves(h, {"addrs", "evict"})
         /\ EnforceLimit(h) => OnlyMoves(h, {"idle"})
<1>1. hs \in [Handlers -> HandlerState]
  BY DEF TypeInv
<1>2. ASSUME NEW r, NEW phases, r.ph \in phases, hs' = [hs EXCEPT ![h] = r]
      PROVE  OnlyMoves(h, phases)
  BY <1>1, <1>2 DEF OnlyMoves
<1>3. ASSUME NEW e, NEW path, NEW v PROVE Admitted(e, path, v).ph \in {"idle", "check", "save"}
  BY DEF Idle, Admitted
<1>4. ASSUME NEW e, NEW path PROVE [Idle EXCEPT !.ph = "validate", !.ev = e, !.path = path].ph = "validate"
  BY DEF Idle
<1>5. ASSUME NEW p, NEW T PROVE [hs[h] EXCEPT !.ph = p].ph = p /\ [hs[h] EXCEPT !.todo = T, !.ph = p].ph = p
  BY <1>1 DEF HandlerState
<1>6. Idle.ph = "idle"
  BY DEF Idle
<1>7. ASSUME NEW e \in Event, NEW path \in Paths, Arrive(h, e, path)
      PROVE  OnlyMoves(h, {"idle", "validate", "check", "save"})
  <2> DEFINE r == IF MustValidateNow(e, path)
                  THEN [Idle EXCEPT !.ph = "validate", !.ev = e, !.path = path]
                  ELSE Admitted(e, path, FALSE)
  <2>1. hs' = [hs EXCEPT ![h] = r]
    BY <1>7 DEF Arrive
  <2>2. r.ph \in {"idle", "validate", "check", "save"}
    <3>1. CASE MustValidateNow(e, path)
      BY <1>4, <3>1
    <3>2. CASE ~MustValidateNow(e, path)
      <4>1. r = Admitted(e, path, FALSE)
        BY <3>2
      <4> QED
        BY <1>3, <4>1
    <3> QED
      BY <3>1, <3>2
  <2> HIDE DEF r
  <2> QED
    BY <1>2, <2>1, <2>2
<1>8. ASSUME Validate(h) PROVE OnlyMoves(h, {"idle", "check", "save"})
  <2> DEFINE r == IF Ev[hs[h].ev].valid THEN Admitted(hs[h].ev, hs[h].path, TRUE) ELSE Idle
  <2>1. r.ph \in {"idle", "check", "save"} /\ hs' = [hs EXCEPT ![h] = r]
    BY <1>3, <1>6, <1>8 DEF Validate, Done
  <2> QED
    BY <1>2, <2>1
<1>9. ASSUME Check(h) PROVE OnlyMoves(h, {"idle", "clear"})
  <2> DEFINE r == [hs[h] EXCEPT !.ph = "clear"]
  <2>1. hs' = [hs EXCEPT ![h] = r] \/ hs' = [hs EXCEPT ![h] = Idle]
    BY <1>9 DEF Check, Done, Goto
  <2>2. r.ph = "clear"
    BY <1>5
  <2> HIDE DEF r
  <2> QED
    BY <1>2, <1>6, <2>1, <2>2
<1>10. ASSUME Clear(h) PROVE OnlyMoves(h, {"save"})
  BY <1>2, <1>5, <1>10 DEF Clear, Goto
<1>11. ASSUME SaveFails(h) \/ EnforceLimit(h) PROVE OnlyMoves(h, {"idle"})
  BY <1>2, <1>6, <1>11 DEF SaveFails, EnforceLimit, Done
<1>12. ASSUME Saved(h) PROVE OnlyMoves(h, {"ids", "addrs", "evict"})
  <2> DEFINE e == hs[h].ev
             r == [Idle EXCEPT !.ph = AfterSave(e), !.ev = e,
                     !.todo = IF IsDeletion(e) THEN RequestedAddresses(e) ELSE {}]
  <2>1. r.ph = AfterSave(e)
    BY DEF Idle
  <2>2. AfterSave(e) \in {"ids", "addrs", "evict"}
    BY DEF AfterSave
  <2>3. hs' = [hs EXCEPT ![h] = r]
    BY <1>12 DEF Saved
  <2> HIDE DEF r
  <2> QED
    BY <1>2, <2>1, <2>2, <2>3
<1>13. ASSUME DeleteIds(h) PROVE OnlyMoves(h, {"addrs", "evict"})
  <2> DEFINE p == IF hs[h].todo = {} THEN "evict" ELSE "addrs"
             r == [hs[h] EXCEPT !.ph = p]
  <2>1. hs' = [hs EXCEPT ![h] = r]
    BY <1>13 DEF DeleteIds, Goto
  <2>2. r.ph = p
    BY <1>5
  <2> HIDE DEF r
  <2> QED
    BY <1>2, <2>1, <2>2
<1>14. ASSUME NEW a \in hs[h].todo, DeleteAddress(h, a) PROVE OnlyMoves(h, {"addrs", "evict"})
  <2> DEFINE p == IF hs[h].todo = {a} THEN "evict" ELSE "addrs"
             r == [hs[h] EXCEPT !.todo = hs[h].todo \ {a}, !.ph = p]
  <2>1. hs' = [hs EXCEPT ![h] = r]
    BY <1>14 DEF DeleteAddress
  <2>2. r.ph = p
    BY <1>5
  <2> HIDE DEF r
  <2> QED
    BY <1>2, <2>1, <2>2
<1> QED
  BY <1>7, <1>8, <1>9, <1>10, <1>11, <1>12, <1>13, <1>14

(* The handlers that owe an eviction, after one of them has moved.         *)
LEMMA OwingAfter ==
  ASSUME NEW h \in Handlers
  PROVE  /\ OnlyMoves(h, {"ids", "addrs", "evict"}) => SavedNotEvicted' = SavedNotEvicted \cup {h}
         /\ OnlyMoves(h, {"addrs", "evict"}) => SavedNotEvicted' = SavedNotEvicted \cup {h}
         /\ \A phases \in SUBSET {"idle", "validate", "check", "clear", "save"} :
              OnlyMoves(h, phases) => SavedNotEvicted' = SavedNotEvicted \ {h}
BY DEF OnlyMoves, SavedNotEvicted

(* Every step keeps the soft limit: who saves will evict, or owes it.      *)
LEMMA SoftStep == TypeInv /\ SoftLimit /\ [Next]_vars => SoftLimit'
<1> SUFFICES ASSUME TypeInv, SoftLimit, [Next]_vars PROVE SoftLimit'
  OBVIOUS
<1>0. TypeInv'
  BY TypeStep
<1>so. StoreOK /\ hs \in [Handlers -> HandlerState]
  BY DEF TypeInv
<1>del. ASSUME NEW rows, Deletes(rows) PROVE Stored' \subseteq Stored
  BY <1>so, <1>del, RemoveRows, OtherRows DEF Deletes
<1>1. ASSUME NEW h \in Handlers, NEW e \in Event, NEW path \in Paths, Arrive(h, e, path)
      PROVE  SoftLimit'
  <2>1. SavedNotEvicted' = SavedNotEvicted \ {h}
    BY <1>1, NextPhases, OwingAfter
  <2>2. h \notin SavedNotEvicted
    BY <1>1 DEF Arrive, SavedNotEvicted
  <2>3. Stored' \subseteq Stored /\ debt' = debt
    BY <1>1, <1>so, OtherRows DEF Arrive
  <2> QED
    BY <1>0, <2>1, <2>2, <2>3, FewerRows
<1>2. ASSUME NEW h \in Handlers, Validate(h) \/ Check(h) \/ Clear(h) \/ (Save(h) /\ SaveFails(h))
      PROVE  SoftLimit'
  <2>1. SavedNotEvicted' = SavedNotEvicted \ {h}
    BY <1>2, NextPhases, OwingAfter
  <2>2. h \notin SavedNotEvicted
    BY <1>2 DEF Validate, Check, Clear, Save, SavedNotEvicted
  <2>3. Stored' \subseteq Stored /\ debt' = debt
    BY <1>2, <1>so, RemoveRows, OtherRows DEF Validate, Check, Clear, Save, SaveFails, history
  <2> QED
    BY <1>0, <2>1, <2>2, <2>3, FewerRows
<1>3. ASSUME NEW h \in Handlers, Save(h), Saved(h)
      PROVE  SoftLimit'
  <2> DEFINE e == hs[h].ev
  <2>1. e \in Event /\ hs[h].verified \in BOOLEAN
    BY <1>3 DEF Save, TypeInv, HandlerOK, HandlerState
  <2>2. Stored' = Stored \cup {e}
    BY <1>3, <1>so, <2>1, PutRows DEF Saved
  <2>3. SavedNotEvicted' = SavedNotEvicted \cup {h}
    BY <1>3, NextPhases, OwingAfter DEF Saved
  <2>4. h \notin SavedNotEvicted /\ debt' = debt
    BY <1>3 DEF Save, SavedNotEvicted
  <2>5. Cardinality(Stored') <= Cardinality(Stored) + 1 /\ Cardinality(Stored') \in Nat
    <3>1. Cardinality(Stored \cup {e}) = IF e \in Stored THEN Cardinality(Stored) ELSE Cardinality(Stored) + 1
      BY Counted, FS_AddElement
    <3> QED
      BY <2>2, <3>1, Counted
  <2>6. Cardinality(SavedNotEvicted') = Cardinality(SavedNotEvicted) + 1
    BY <2>3, <2>4, Counted, FS_AddElement
  <2> QED
    BY <2>4, <2>5, <2>6, Counted DEF SoftLimit, Owed
<1>4. ASSUME NEW h \in Handlers, DeleteIds(h) \/ (\E a \in hs[h].todo : DeleteAddress(h, a))
      PROVE  SoftLimit'
  <2>1. SavedNotEvicted' = SavedNotEvicted \cup {h}
    BY <1>4, NextPhases, OwingAfter
  <2>2. h \in SavedNotEvicted
    BY <1>4 DEF DeleteIds, DeleteAddress, SavedNotEvicted
  <2>3. SavedNotEvicted' = SavedNotEvicted
    BY <2>1, <2>2
  <2>4. Stored' \subseteq Stored /\ debt' = debt
    BY <1>4, <1>del DEF DeleteIds, DeleteAddress
  <2> QED
    BY <1>0, <2>3, <2>4, FewerRows
<1>5. ASSUME NEW h \in Handlers, EnforceLimit(h)
      PROVE  SoftLimit'
  <2>1. CASE \E V \in Victims : Remove(V) /\ debt' = 0
    <3>1. PICK V \in Victims : Remove(V)
      BY <2>1
    <3>2. V \subseteq Stored /\ Cardinality(V) = Excess
      BY DEF Victims
    <3>3. Stored' = Stored \ V
      BY <1>so, <3>1, RemoveRows
    <3>a. IsFiniteSet(V) /\ Stored \cap V = V
      BY <3>2, Counted, FS_Subset
    <3>4. Cardinality(Stored \ V) = Cardinality(Stored) - Cardinality(V)
      BY <3>a, Counted, FS_Difference
    <3>5. Cardinality(Stored') <= MaxSize
      BY <3>2, <3>3, <3>4, Counted DEF Excess
    <3>6. Cardinality(SavedNotEvicted') \in Nat /\ debt' \in Nat /\ Cardinality(Stored') \in Nat
      <4>1. IsFiniteSet(SavedNotEvicted') /\ IsFiniteSet(Stored')
        BY <3>3, Counted, IngestAssumption, FS_Subset DEF SavedNotEvicted
      <4> QED
        BY <1>0, <4>1, FS_CardinalityType DEF TypeInv
    <3> QED
      BY <3>5, <3>6, Counted DEF SoftLimit, Owed
  <2>2. CASE debt' = debt + 1 /\ UNCHANGED storeVars
    <3>1. Stored' = Stored
      BY <1>so, <2>2, OtherRows
    <3>2. SavedNotEvicted' = SavedNotEvicted \ {h} /\ h \in SavedNotEvicted
      BY <1>5, NextPhases, OwingAfter DEF EnforceLimit, SavedNotEvicted
    <3>3. Cardinality(SavedNotEvicted') = Cardinality(SavedNotEvicted) - 1
      BY <3>2, Counted, FS_RemoveElement
    <3> QED
      BY <2>2, <3>1, <3>3, Counted DEF SoftLimit, Owed
  <2> QED
    BY <1>5, <2>1, <2>2 DEF EnforceLimit
<1>6. ASSUME \/ PassStep \/ UNCHANGED vars
             \/ \E time \in 1 .. Cardinality(Event) + 1 : Sweep(time)
             \/ \E e \in Event : Revalidated(e)
             \/ \E authors \in PriorityChoices : SetCachePriority(authors)
      PROVE  SoftLimit'
  <2>1. hs' = hs /\ debt' = debt
    BY <1>6 DEF PassStep, PassBegin, PassJudge, PassEnd, Sweep, Revalidated, SetCachePriority, vars, history
  <2>2. ASSUME PassStep PROVE Stored' \subseteq Stored
    <3>1. CASE PassBegin
      BY <1>so, <3>1, OtherRows DEF PassBegin
    <3>2. ASSUME NEW e \in pass.todo, PassJudge(e) PROVE Stored' \subseteq Stored
      BY <1>so, <1>del, <3>2, OtherRows DEF PassJudge
    <3>3. CASE PassEnd
      BY <1>so, <3>3, OtherRows DEF PassEnd
    <3> QED
      BY <2>2, <3>1, <3>2, <3>3 DEF PassStep
  <2>3. ASSUME NEW time, Sweep(time) PROVE Stored' \subseteq Stored
    BY <1>so, <2>3, RemoveRows DEF Sweep
  <2>4. ASSUME NEW e \in Event, Revalidated(e) PROVE Stored' \subseteq Stored
    BY <1>so, <2>4, OtherRows DEF Revalidated
  <2>5. ASSUME NEW authors \in PriorityChoices, SetCachePriority(authors) PROVE Stored' \subseteq Stored
    BY <1>so, <2>5, OtherRows, IngestAssumption DEF SetCachePriority
  <2>6. ASSUME UNCHANGED vars PROVE Stored' \subseteq Stored
    BY <1>so, <2>6, OtherRows DEF vars
  <2>7. Stored' \subseteq Stored
    BY <1>6, <2>2, <2>3, <2>4, <2>5, <2>6
  <2> QED
    BY <1>0, <2>1, <2>7, FewerRows DEF SavedNotEvicted
<1>7. ASSUME Reload
      PROVE  SoftLimit'
  <2>1. Stored' = Stored /\ debt' = debt + Owed
    BY <1>7, <1>so, OtherRows DEF Reload, Owed
  <2>2. SavedNotEvicted' = {}
    BY <1>7 DEF Reload, SavedNotEvicted, Idle
  <2> QED
    BY <2>1, <2>2, Counted, FS_EmptySet DEF SoftLimit, Owed
<1> QED
  BY <1>1, <1>2, <1>3, <1>4, <1>5, <1>6, <1>7 DEF Next, HandlerStep, Save

(* storageMaxSize is a soft limit: what exceeds it is always covered by an *)
(* eviction that is still to run or that failed or was cut off.            *)
THEOREM CacheSoftLimit == Spec => []SoftLimit
<1>1. Init => SoftLimit
  <2> SUFFICES ASSUME Init PROVE SoftLimit
    OBVIOUS
  <2>1. Stored = {} /\ TypeInv
    BY TypeInit DEF Init, StoreInit, Stored
  <2> QED
    BY <2>1, Counted, FS_EmptySet DEF SoftLimit, Owed
<1> QED
  BY <1>1, TypeInit, TypeStep, SoftStep, PTL DEF Spec

-----------------------------------------------------------------------------
(* Versions.  At a coordinate whose versions do not race, one handler at   *)
(* most is on its way to replace the version there (Alone); what it        *)
(* compared with has not become newer since (Unbeaten); when it is about   *)
(* to save, the versions before it are gone (Cleared), all of them, since  *)
(* every row there can be found by its d tag (FoundByTag).                 *)

Alone(a) == \A g, h \in Handlers : Replacing(g, a) /\ Replacing(h, a) => g = h
Unbeaten(a) == \A h \in Handlers :
  Replacing(h, a) /\ hs[h].ph \in {"clear", "save"} =>
    head[a] = NoEvent \/ ~Supersedes(head[a], hs[h].ev)
Cleared(a) == \A h \in Handlers : Replacing(h, a) /\ hs[h].ph = "save" => VersionsAt(a) = {}
FoundByTag(a) == \A e \in VersionsAt(a) : IsAddressable(e) => Ev[e].d # MissingTag
Kept(a) ==
  \/ VersionsAt(a) = {head[a]} \cap Event
  \/ VersionsAt(a) = {} /\ \E h \in Handlers : Replacing(h, a) /\ hs[h].ph = "save"
InOrder(a) == Kept(a) /\ Alone(a) /\ Unbeaten(a) /\ Cleared(a) /\ FoundByTag(a)
NewestInv == \A a \in Coordinates \ raced : InOrder(a)

(* The kind ranges of NIP-01 do not overlap.                               *)
LEMMA KindRanges ==
  ASSUME NEW k
  PROVE  ~(ReplaceableKind(k) /\ AddressableKind(k))
<1> DEFINE a == 10000
           b == 19999
           c == 30000
           d == 39999
<1>1. a \in Nat /\ b \in Nat /\ c \in Nat /\ d \in Nat /\ b < c /\ 3 < c
  OBVIOUS
<1>2. ReplaceableKind(k) => k \in {0, 3} \/ k \in a .. b
  BY SMTT(30) DEF ReplaceableKind
<1>3. AddressableKind(k) => k \in c .. d
  BY SMTT(30) DEF AddressableKind
<1> HIDE DEF a, b, c, d
<1> QED
  BY <1>1, <1>2, <1>3

(* No event is both replaceable and addressable.                           *)
LEMMA KindsApart == \A e : ~(IsReplaceable(e) /\ IsAddressable(e))
BY KindRanges DEF IsReplaceable, IsAddressable

(* A version matches the coordinate it has, and no other.                  *)
LEMMA OneCoordinate ==
  ASSUME NEW a \in Coordinates, NEW e \in Versioned
  PROVE  Matches(e, a) <=> AddressOf(e) = a
<1>1. PICK x \in Versioned : a = AddressOf(x)
  BY DEF Coordinates
<1>2. a.kind = Ev[x].kind /\ a.author = Ev[x].author /\ a.d = Identifier(x)
  BY <1>1 DEF AddressOf
<1>3. Ev[e].kind = Ev[x].kind => (IsAddressable(e) <=> IsAddressable(x))
  BY DEF IsAddressable
<1>4. AddressOf(e) = a <=> Ev[e].kind = a.kind /\ Ev[e].author = a.author /\ Identifier(e) = a.d
  BY <1>1, <1>2 DEF AddressOf
<1>5. ~IsAddressable(e) => Identifier(e) = ""
  BY DEF Identifier
<1>6. ~IsAddressable(x) => Identifier(x) = ""
  BY DEF Identifier
<1> QED
  BY <1>2, <1>3, <1>4, <1>5, <1>6 DEF Matches

(* The rows a newer version replaces are those of its coordinate.          *)
LEMMA OldOnes ==
  ASSUME NEW e \in Event, Replaces(e, "ingest")
  PROVE  /\ e \in Versioned /\ AddressOf(e) \in Coordinates
         /\ IsAddressable(e) => Ev[e].d # MissingTag
         /\ \A r \in OldVersions(e) : r \in Stored /\ r \in Versioned /\ AddressOf(r) = AddressOf(e)
         /\ FoundByTag(AddressOf(e)) => VersionsAt(AddressOf(e)) \subseteq OldVersions(e)
<1> DEFINE a == AddressOf(e)
<1>1. e \in Versioned /\ a \in Coordinates
  BY CoordinatesOfVersions
<1>2. IsReplaceable(e) \/ (IsAddressable(e) /\ Ev[e].d # MissingTag)
  BY DEF Replaces
<1>3. IsAddressable(e) => Ev[e].d # MissingTag
  BY <1>2, KindsApart
<1>4. ASSUME NEW r \in ByPubkeyAndKind(e)
      PROVE  /\ r \in Event /\ r \in Stored /\ r \in Versioned
             /\ IsReplaceable(r) <=> IsReplaceable(e)
             /\ IsAddressable(r) <=> IsAddressable(e)
             /\ Ev[r].kind = Ev[e].kind /\ Ev[r].author = Ev[e].author
  BY <1>1 DEF ByPubkeyAndKind, Stored, Versioned, HasVersions, IsReplaceable, IsAddressable
<1>5. ASSUME NEW r \in OldVersions(e) PROVE r \in Stored /\ r \in Versioned /\ AddressOf(r) = a
  <2>1. CASE IsReplaceable(e)
    BY <1>4, <2>1, KindsApart DEF OldVersions, AddressOf, Identifier
  <2>2. CASE IsAddressable(e) /\ Ev[e].d # MissingTag
    BY <1>4, <2>2, KindsApart DEF OldVersions, ByDTag, AddressOf, Identifier
  <2> QED
    BY <1>2, <2>1, <2>2
<1>6. ASSUME FoundByTag(a), NEW r \in VersionsAt(a) PROVE r \in OldVersions(e)
  <2>1. r \in Stored /\ r \in Versioned /\ AddressOf(r) = a /\ (IsAddressable(r) => Ev[r].d # MissingTag)
    BY <1>1, <1>6, OneCoordinate DEF VersionsAt, FoundByTag
  <2>2. Ev[r].kind = Ev[e].kind /\ Ev[r].author = Ev[e].author /\ Identifier(r) = Identifier(e)
    BY <2>1 DEF AddressOf
  <2>3. IsAddressable(r) <=> IsAddressable(e)
    BY <2>2 DEF IsAddressable
  <2>4. IsAddressable(e) => Ev[r].d = Ev[e].d
    BY <1>3, <2>1, <2>2, <2>3 DEF Identifier
  <2> QED
    BY <1>2, <2>1, <2>2, <2>4, KindsApart DEF OldVersions, ByDTag, ByPubkeyAndKind
<1> QED
  BY <1>1, <1>3, <1>5, <1>6

(* The versions at a coordinate, after a delete and after a save.          *)
LEMMA VersionsAfter ==
  ASSUME NEW a \in Coordinates
  PROVE  /\ \A rows : Stored' = Stored \ rows => VersionsAt(a)' = VersionsAt(a) \ rows
         /\ \A e : Stored' = Stored \cup {e} =>
              VersionsAt(a)' = IF e \in Versioned /\ AddressOf(e) = a
                               THEN VersionsAt(a) \cup {e} ELSE VersionsAt(a)
<1>1. ASSUME NEW rows, Stored' = Stored \ rows PROVE VersionsAt(a)' = VersionsAt(a) \ rows
  BY <1>1 DEF VersionsAt, Matches, Versioned
<1>2. ASSUME NEW e, Stored' = Stored \cup {e}
      PROVE  VersionsAt(a)' = IF e \in Versioned /\ AddressOf(e) = a
                              THEN VersionsAt(a) \cup {e} ELSE VersionsAt(a)
  BY <1>2, OneCoordinate DEF VersionsAt
<1> QED
  BY <1>1, <1>2

(* Nothing is saved at the coordinate, and no handler turns to it or saves *)
(* there.                                                                  *)
Undisturbed(a) == \A g \in Handlers :
  /\ Replacing(g, a)' => hs'[g] = hs[g]
  /\ Replacing(g, a) /\ hs[g].ph = "save" => hs'[g] = hs[g]

(* Deleting rows at a coordinate keeps it in order when the record of its  *)
(* newest version follows.                                                 *)
LEMMA StaysInOrder ==
  ASSUME NEW a \in Coordinates, InOrder(a), Undisturbed(a), NEW rows, NoEvent \notin rows,
         VersionsAt(a)' = VersionsAt(a) \ rows,
         head'[a] = IF head[a] \in rows THEN NoEvent ELSE head[a]
  PROVE  InOrder(a)'
<1>1. \A g \in Handlers : hs'[g] = hs[g] => (Replacing(g, a)' <=> Replacing(g, a))
  BY DEF Replacing, Replaces
<1>2. Kept(a)'
  <2>1. CASE VersionsAt(a) = {head[a]} \cap Event
    BY <2>1, IngestAssumption DEF Kept
  <2>2. CASE VersionsAt(a) = {} /\ \E h \in Handlers : Replacing(h, a) /\ hs[h].ph = "save"
    BY <1>1, <2>2 DEF Kept, Undisturbed
  <2> QED
    BY <2>1, <2>2 DEF InOrder, Kept
<1>3. Alone(a)'
  BY <1>1 DEF InOrder, Alone, Undisturbed
<1>4. Unbeaten(a)'
  BY <1>1 DEF InOrder, Unbeaten, Undisturbed, Supersedes
<1>5. Cleared(a)'
  BY <1>1 DEF InOrder, Cleared, Undisturbed
<1>6. FoundByTag(a)'
  BY DEF InOrder, FoundByTag, IsAddressable
<1> QED
  BY <1>2, <1>3, <1>4, <1>5, <1>6 DEF InOrder

(* A handler that was admitted is about to replace only where it checks.   *)
LEMMA AdmittedChecks ==
  ASSUME NEW e, NEW path, NEW v, NEW r, r = Admitted(e, path, v)
  PROVE  r.ph \in {"check", "clear", "save"} /\ Replaces(r.ev, r.path) =>
             r.ph = "check" /\ r.ev = e /\ Replaces(e, path)
BY DEF Admitted, Idle, Replaces, PassesThrough

(* A handler turns to the coordinate: it is the only one, and only looks.  *)
LEMMA Admission ==
  ASSUME NEW a \in Coordinates, a \notin raced, InOrder(a), NEW h \in Handlers, NEW e, NEW path, NEW r,
         hs[h].ph \in {"idle", "validate"}, hs'[h] = r, \A g \in Handlers : g # h => hs'[g] = hs[g],
         r.ph \in {"check", "clear", "save"} /\ Replaces(r.ev, r.path) =>
             r.ph = "check" /\ r.ev = e /\ Replaces(e, path),
         a \notin RacedBy(h, e, path), VersionsAt(a)' = VersionsAt(a), head'[a] = head[a]
  PROVE  InOrder(a)'
<1>1. hs'[h] = r /\ \A g \in Handlers : g # h => hs'[g] = hs[g]
  OBVIOUS
<1>2. /\ r.ph \in {"check", "clear", "save"} /\ Replaces(r.ev, r.path) =>
           r.ph = "check" /\ r.ev = e /\ Replaces(e, path)
  OBVIOUS
<1>3. ~Replacing(h, a)
  BY DEF Replacing
<1>4. CASE Replacing(h, a)'
  <2>1. hs'[h].ph = "check" /\ AddressOf(e) = a /\ Replaces(e, path)
    BY <1>1, <1>2, <1>4 DEF Replacing, Replaces
  <2>2. \A g \in Handlers : ~Replacing(g, a)
    BY <1>3, <2>1 DEF RacedBy
  <2>3. \A g \in Handlers : Replacing(g, a)' => g = h
    BY <1>1, <2>2 DEF Replacing, Replaces
  <2>4. Kept(a)'
    BY <2>2 DEF InOrder, Kept
  <2>5. Alone(a)' /\ Unbeaten(a)' /\ Cleared(a)'
    BY <2>1, <2>3 DEF Alone, Unbeaten, Cleared
  <2>6. FoundByTag(a)'
    BY DEF InOrder, FoundByTag, IsAddressable
  <2> QED
    BY <2>4, <2>5, <2>6 DEF InOrder
<1>5. CASE ~Replacing(h, a)'
  <2>1. Undisturbed(a)
    BY <1>1, <1>3, <1>5 DEF Undisturbed
  <2>2. NoEvent \notin {} /\ VersionsAt(a)' = VersionsAt(a) \ {}
        /\ head'[a] = IF head[a] \in {} THEN NoEvent ELSE head[a]
    OBVIOUS
  <2> QED
    BY <2>1, <2>2, StaysInOrder
<1> QED
  BY <1>4, <1>5

(* Alone at the coordinate, the handler meets what was committed last.     *)
LEMMA Checked ==
  ASSUME TypeInv, NEW a \in Coordinates, InOrder(a), NEW h \in Handlers, Check(h), hs'[h].ph = "clear"
  PROVE  InOrder(a)'
<1>1. hs[h].ph = "check" /\ hs' = [hs EXCEPT ![h].ph = "clear"] /\ ~IsSuperseded(hs[h].ev)
  BY DEF Check, Done, Goto, Idle, TypeInv
<1>2. /\ hs'[h].ev = hs[h].ev /\ hs'[h].path = hs[h].path
      /\ \A g \in Handlers : g # h => hs'[g] = hs[g]
  BY <1>1 DEF TypeInv, HandlerState
<1>3. VersionsAt(a)' = VersionsAt(a) /\ head' = head
  <2>1. Stored' = Stored /\ head' = head
    BY OtherRows DEF Check, history, TypeInv
  <2> QED
    BY <2>1 DEF VersionsAt, Matches, Versioned
<1>4. \A g \in Handlers : Replacing(g, a)' <=> Replacing(g, a)
  BY <1>1, <1>2 DEF Replacing, Replaces
<1>5. Kept(a)'
  <2>1. \A g \in Handlers : hs[g].ph = "save" => hs'[g] = hs[g]
    BY <1>1, <1>2
  <2> QED
    BY <1>3, <1>4, <2>1 DEF InOrder, Kept
<1>6. Alone(a)' /\ FoundByTag(a)' /\ Cleared(a)'
  BY <1>2, <1>3, <1>4 DEF InOrder, Alone, FoundByTag, Cleared, IsAddressable
<1>7. Unbeaten(a)'
  <2>1. ASSUME Replacing(h, a), head[a] # NoEvent PROVE ~Supersedes(head[a], hs[h].ev)
    <3>1. \A g \in Handlers : ~(Replacing(g, a) /\ hs[g].ph = "save")
      BY <1>1, <2>1 DEF InOrder, Alone
    <3>2. VersionsAt(a) = {head[a]} \cap Event /\ head[a] \in Event
      BY <2>1, <3>1 DEF InOrder, Kept, TypeInv, HeadOK
    <3>3. IsCurrent(head[a], a)
      BY <3>2 DEF IsCurrent, Supersedes
    <3>4. AddressOf(hs[h].ev) = a
      BY <2>1 DEF Replacing
    <3> QED
      BY <1>1, <3>2, <3>3, <3>4 DEF IsSuperseded
  <2> QED
    BY <1>2, <1>3, <1>4, <2>1 DEF InOrder, Unbeaten, Supersedes
<1> QED
  BY <1>5, <1>6, <1>7 DEF InOrder

(* It clears the coordinate ...                                            *)
LEMMA ClearedAll ==
  ASSUME TypeInv, PhaseInv, NEW a \in Coordinates, InOrder(a), NEW h \in Handlers, Clear(h),
         Remove(OldVersions(hs[h].ev)), AddressOf(hs[h].ev) = a
  PROVE  InOrder(a)'
<1> DEFINE e == hs[h].ev
<1>1. hs[h].ph = "clear" /\ hs' = [hs EXCEPT ![h].ph = "save"] /\ head' = head /\ Replaces(e, hs[h].path)
  BY DEF Clear, Goto, PhaseInv, LocalInv
<1>2. /\ hs'[h].ph = "save" /\ hs'[h].ev = e /\ hs'[h].path = hs[h].path
      /\ \A g \in Handlers : g # h => hs'[g] = hs[g]
  BY <1>1 DEF TypeInv, HandlerState
<1>3. Replacing(h, a) /\ \A g \in Handlers : Replacing(g, a)' <=> Replacing(g, a)
  BY <1>1, <1>2 DEF Replacing, Replaces
<1>4. VersionsAt(a)' = {}
  <2>1. e \in Event /\ Replaces(e, "ingest")
    BY <1>1 DEF TypeInv, HandlerOK, Replaces
  <2>2. VersionsAt(a) \subseteq OldVersions(e)
    BY <2>1, OldOnes DEF InOrder
  <2>3. Stored' = Stored \ OldVersions(e)
    BY RemoveRows DEF TypeInv
  <2> QED
    BY <2>2, <2>3, VersionsAfter
<1>5. Kept(a)' /\ Cleared(a)' /\ FoundByTag(a)'
  BY <1>2, <1>3, <1>4 DEF Kept, Cleared, FoundByTag
<1>6. Alone(a)' /\ Unbeaten(a)'
  BY <1>1, <1>2, <1>3 DEF InOrder, Alone, Unbeaten, Supersedes
<1> QED
  BY <1>5, <1>6 DEF InOrder

(* ... and saves there.                                                    *)
LEMMA SavedAlone ==
  ASSUME TypeInv, PhaseInv, NEW a \in Coordinates, InOrder(a), NEW h \in Handlers, hs[h].ph = "save",
         Saved(h), hs[h].path = "ingest", hs[h].ev \in Versioned, AddressOf(hs[h].ev) = a
  PROVE  InOrder(a)'
<1> DEFINE e == hs[h].ev
<1>1. e \in Event /\ Replaces(e, "ingest") /\ hs[h].verified \in BOOLEAN
  BY DEF PhaseInv, LocalInv, Versioned, TypeInv, HandlerState
<1>2. Replacing(h, a)
  BY <1>1 DEF Replacing
<1>3. \A g \in Handlers : ~Replacing(g, a)'
  <2>1. OnlyMoves(h, {"ids", "addrs", "evict"})
    BY NextPhases
  <2> QED
    BY <1>2, <2>1 DEF OnlyMoves, InOrder, Alone, Replacing, Replaces
<1>4. VersionsAt(a)' = {e}
  <2>1. Stored' = Stored \cup {e}
    BY <1>1, PutRows DEF Saved, TypeInv
  <2> QED
    BY <1>2, <2>1, VersionsAfter DEF InOrder, Cleared
<1>5. head'[a] = e
  BY <1>2 DEF InOrder, Unbeaten, Saved, Newest, TypeInv, HeadOK
<1>6. FoundByTag(a)'
  BY <1>1, <1>4, OldOnes DEF FoundByTag, IsAddressable
<1> QED
  BY <1>1, <1>3, <1>4, <1>5, <1>6 DEF InOrder, Kept, Alone, Unbeaten, Cleared

(* The rows go with what is remembered of them, or stay.                   *)
LEMMA RowsGo ==
  ASSUME TypeInv, NEW a \in Coordinates, InOrder(a), Undisturbed(a), NEW rows, rows \subseteq Stored,
         Stored' = Stored \ rows, head' = Forget(rows)
  PROVE  InOrder(a)'
<1>1. VersionsAt(a)' = VersionsAt(a) \ rows
  BY VersionsAfter
<1>2. head'[a] = IF head[a] \in rows THEN NoEvent ELSE head[a]
  BY DEF Forget
<1>3. NoEvent \notin rows
  BY IngestAssumption DEF Stored
<1> QED
  BY <1>1, <1>2, <1>3, StaysInOrder

(* A step that leaves the versions of a coordinate alone keeps it in       *)
(* order.                                                                  *)
LEMMA RowsStay ==
  ASSUME NEW a \in Coordinates, InOrder(a), Undisturbed(a), VersionsAt(a)' = VersionsAt(a), head'[a] = head[a]
  PROVE  InOrder(a)'
<1>1. /\ NoEvent \notin {} /\ VersionsAt(a)' = VersionsAt(a) \ {}
      /\ head'[a] = IF head[a] \in {} THEN NoEvent ELSE head[a]
  OBVIOUS
<1> QED
  BY <1>1, StaysInOrder

(* The same rows are the same versions.                                    *)
LEMMA SameRowsSameVersions ==
  ASSUME Stored' = Stored
  PROVE  \A a : VersionsAt(a)' = VersionsAt(a)
BY DEF VersionsAt, Matches, Versioned

(* Every delete of the code keeps a coordinate in order.                   *)
LEMMA DeletesInOrder ==
  ASSUME TypeInv, NEW a \in Coordinates, InOrder(a), Undisturbed(a), NEW rows, rows \subseteq Stored, Deletes(rows)
  PROVE  InOrder(a)'
<1>1. CASE Remove(rows) /\ head' = Forget(rows)
  BY <1>1, RemoveRows, RowsGo DEF TypeInv
<1>2. CASE UNCHANGED <<storeVars, head>>
  BY <1>2, OtherRows, SameRowsSameVersions, RowsStay DEF TypeInv
<1> QED
  BY <1>1, <1>2 DEF Deletes

(* A handler that neither was to save at the coordinate nor turns to it.   *)
LEMMA Elsewhere ==
  ASSUME NEW a, NEW h \in Handlers, NEW phases, OnlyMoves(h, phases),
         ~(Replacing(h, a) /\ hs[h].ph = "save"),
         \/ phases \in SUBSET {"idle", "validate", "ids", "addrs", "evict"}
         \/ hs'[h].ev = hs[h].ev /\ hs'[h].path = hs[h].path /\ Replaces(hs[h].ev, hs[h].path) /\ AddressOf(hs[h].ev) # a
  PROVE  Undisturbed(a)
<1>1. ~Replacing(h, a)'
  BY DEF OnlyMoves, Replacing, Replaces
<1> QED
  BY <1>1 DEF OnlyMoves, Undisturbed

(* Every step keeps the coordinates that were not raced in order.          *)
LEMMA NewestStep == TypeInv /\ PhaseInv /\ NewestInv /\ [Next]_vars => NewestInv'
<1> SUFFICES ASSUME TypeInv, PhaseInv, NewestInv, [Next]_vars PROVE NewestInv'
  OBVIOUS
<1>so. StoreOK /\ hs \in [Handlers -> HandlerState] /\ raced \subseteq Coordinates
  BY DEF TypeInv
<1> SUFFICES ASSUME NEW a \in Coordinates, a \notin raced' PROVE InOrder(a)'
  BY DEF NewestInv
<1>in. raced \subseteq raced'
  BY DEF Next, HandlerStep, PassStep, Arrive, RacedBy, Validate, Check, Clear, RacedAt, Save, Saved, SaveFails,
     DeleteIds, DeleteAddress, EnforceLimit, PassBegin, PassJudge, PassEnd, Sweep, Revalidated, SetCachePriority,
     Reload, vars, history
<1>a. InOrder(a) /\ a \in Coordinates \ raced
  BY <1>in DEF NewestInv
<1>1. ASSUME NEW h \in Handlers, NEW e \in Event, NEW path \in Paths, Arrive(h, e, path)
      PROVE  InOrder(a)'
  <2>1. VersionsAt(a)' = VersionsAt(a) /\ head' = head /\ hs[h].ph = "idle"
    BY <1>1, <1>so, OtherRows, SameRowsSameVersions DEF Arrive
  <2>2. CASE MustValidateNow(e, path)
    <3>1. hs' = [hs EXCEPT ![h] = [Idle EXCEPT !.ph = "validate", !.ev = e, !.path = path]]
      BY <1>1, <2>2 DEF Arrive
    <3>2. OnlyMoves(h, {"validate"})
      BY <1>so, <3>1 DEF OnlyMoves, Idle
    <3>3. Undisturbed(a)
      BY <2>1, <3>2, Elsewhere
    <3> QED
      BY <1>a, <2>1, <3>3, RowsStay
  <2>3. CASE ~MustValidateNow(e, path)
    <3> DEFINE r == Admitted(e, path, FALSE)
    <3>1. a \in Coordinates /\ a \notin raced /\ InOrder(a) /\ h \in Handlers /\ head'[a] = head[a]
          /\ VersionsAt(a)' = VersionsAt(a) /\ hs[h].ph \in {"idle", "validate"}
      BY <1>a, <2>1
    <3>2. hs' = [hs EXCEPT ![h] = r] /\ a \notin RacedBy(h, e, path)
      BY <1>1, <2>3 DEF Arrive
    <3>3. hs'[h] = r /\ \A g \in Handlers : g # h => hs'[g] = hs[g]
      BY <1>so, <3>2
    <3>4. r.ph \in {"check", "clear", "save"} /\ Replaces(r.ev, r.path) =>
              r.ph = "check" /\ r.ev = e /\ Replaces(e, path)
      BY AdmittedChecks
    <3> HIDE DEF r
    <3> QED
      BY <3>1, <3>2, <3>3, <3>4, Admission
  <2> QED
    BY <2>2, <2>3
<1>2. ASSUME NEW h \in Handlers, Validate(h)
      PROVE  InOrder(a)'
  <2> DEFINE e == hs[h].ev
  <2>1. VersionsAt(a)' = VersionsAt(a) /\ head' = head /\ hs[h].ph = "validate"
    BY <1>2, <1>so, OtherRows, SameRowsSameVersions DEF Validate
  <2>2. CASE Ev[e].valid
    <3> DEFINE r == Admitted(e, hs[h].path, TRUE)
    <3>1. a \in Coordinates /\ a \notin raced /\ InOrder(a) /\ h \in Handlers /\ head'[a] = head[a]
          /\ VersionsAt(a)' = VersionsAt(a) /\ hs[h].ph \in {"idle", "validate"}
      BY <1>a, <2>1
    <3>2. hs' = [hs EXCEPT ![h] = r] /\ a \notin RacedBy(h, e, hs[h].path)
      BY <1>2, <2>2 DEF Validate
    <3>3. hs'[h] = r /\ \A g \in Handlers : g # h => hs'[g] = hs[g]
      BY <1>so, <3>2
    <3>4. r.ph \in {"check", "clear", "save"} /\ Replaces(r.ev, r.path) =>
              r.ph = "check" /\ r.ev = e /\ Replaces(e, hs[h].path)
      BY DEF Admitted, Idle, Replaces, PassesThrough
    <3> HIDE DEF r, e
    <3> QED
      BY <3>1, <3>2, <3>3, <3>4, Admission
  <2>3. CASE ~Ev[e].valid
    <3>1. OnlyMoves(h, {"idle"})
      BY <1>2, <1>so, <2>3 DEF Validate, Done, OnlyMoves, Idle
    <3>2. Undisturbed(a)
      BY <2>1, <3>1, Elsewhere
    <3> QED
      BY <1>a, <2>1, <3>2, RowsStay
  <2> QED
    BY <2>2, <2>3
<1>3. ASSUME NEW h \in Handlers, Check(h)
      PROVE  InOrder(a)'
  <2>1. VersionsAt(a)' = VersionsAt(a) /\ head' = head /\ hs[h].ph = "check"
    BY <1>3, <1>so, OtherRows, SameRowsSameVersions DEF Check, history
  <2>2. OnlyMoves(h, {"idle", "clear"})
    BY <1>3, NextPhases
  <2>3. CASE hs'[h].ph = "clear"
    BY <1>3, <1>a, <2>3, Checked
  <2>4. CASE hs'[h].ph = "idle"
    <3>1. OnlyMoves(h, {"idle"})
      BY <2>2, <2>4 DEF OnlyMoves
    <3>2. Undisturbed(a)
      BY <2>1, <3>1, Elsewhere
    <3> QED
      BY <1>a, <2>1, <3>2, RowsStay
  <2> QED
    BY <2>2, <2>3, <2>4 DEF OnlyMoves
<1>4. ASSUME NEW h \in Handlers, Clear(h)
      PROVE  InOrder(a)'
  <2> DEFINE e == hs[h].ev
  <2>1. /\ e \in Event /\ Replaces(e, hs[h].path) /\ Replaces(e, "ingest")
        /\ hs[h].ph = "clear" /\ head' = head
    BY <1>4 DEF Clear, TypeInv, HandlerOK, PhaseInv, LocalInv, Replaces
  <2>2. AddressOf(e) = a => Remove(OldVersions(e))
    BY <1>4, <2>1, OldOnes DEF Clear, RacedAt
  <2>3. CASE AddressOf(e) = a
    BY <1>4, <1>a, <2>2, <2>3, ClearedAll
  <2>4. CASE AddressOf(e) # a
    <3>1. VersionsAt(a)' = VersionsAt(a)
      <4>1. CASE Remove(OldVersions(e))
        <5>1. VersionsAt(a)' = VersionsAt(a) \ OldVersions(e)
          BY <1>so, <4>1, RemoveRows, VersionsAfter
        <5>2. \A r \in OldVersions(e) : r \notin VersionsAt(a)
          BY <2>1, <2>4, OldOnes, OneCoordinate DEF VersionsAt
        <5> QED
          BY <5>1, <5>2
      <4>2. CASE UNCHANGED storeVars
        BY <1>so, <4>2, OtherRows, SameRowsSameVersions
      <4> QED
        BY <1>4, <4>1, <4>2 DEF Clear
    <3>2. hs'[h].ev = e /\ hs'[h].path = hs[h].path
      BY <1>4, <1>so DEF Clear, Goto, HandlerState
    <3>3. OnlyMoves(h, {"save"}) /\ ~(Replacing(h, a) /\ hs[h].ph = "save")
      BY <1>4, <2>1, NextPhases
    <3>4. Undisturbed(a)
      BY <2>1, <2>4, <3>2, <3>3, Elsewhere
    <3> QED
      BY <1>a, <2>1, <3>1, <3>4, RowsStay
  <2> QED
    BY <2>3, <2>4
<1>5. ASSUME NEW h \in Handlers, Save(h)
      PROVE  InOrder(a)'
  <2> DEFINE e == hs[h].ev
  <2>1. e \in Event /\ hs[h].verified \in BOOLEAN /\ hs[h].ph = "save" /\ hs[h].path \in Paths2
    BY <1>5 DEF Save, TypeInv, HandlerOK, HandlerState, Paths2
  <2>2. CASE SaveFails(h)
    <3>1. OnlyMoves(h, {"idle"})
      BY <2>2, NextPhases
    <3>2. ~Replacing(h, a)
      BY <2>1, <2>2, CoordinatesOfVersions DEF SaveFails, RacedAt, Replacing
    <3>3. Undisturbed(a)
      BY <3>1, <3>2, Elsewhere
    <3>4. VersionsAt(a)' = VersionsAt(a) /\ head' = head
      BY <1>so, <2>2, OtherRows, SameRowsSameVersions DEF SaveFails
    <3> QED
      BY <1>a, <3>3, <3>4, RowsStay
  <2>3. CASE Saved(h)
    <3>1. CASE e \in Versioned /\ AddressOf(e) = a
      <4>1. hs[h].path = "ingest"
        BY <2>1, <2>3, <3>1 DEF Saved, RacedAt, Paths2
      <4> QED
        BY <1>a, <2>1, <2>3, <3>1, <4>1, SavedAlone
    <3>2. CASE ~(e \in Versioned /\ AddressOf(e) = a)
      <4>1. OnlyMoves(h, {"ids", "addrs", "evict"})
        BY <2>3, NextPhases
      <4>2. ~Replacing(h, a)
        BY <2>1, <3>2, CoordinatesOfVersions DEF Replacing
      <4>3. Undisturbed(a)
        BY <4>1, <4>2, Elsewhere
      <4>4. VersionsAt(a)' = VersionsAt(a)
        BY <1>so, <2>1, <2>3, <3>2, PutRows, VersionsAfter DEF Saved
      <4>5. head'[a] = head[a]
        BY <2>3, <3>2 DEF Saved, Newest, TypeInv, HeadOK
      <4> QED
        BY <1>a, <4>3, <4>4, <4>5, RowsStay
    <3> QED
      BY <3>1, <3>2
  <2> QED
    BY <1>5, <2>2, <2>3 DEF Save
<1>6. ASSUME NEW h \in Handlers, DeleteIds(h)
      PROVE  InOrder(a)'
  <2>1. Undisturbed(a)
    BY <1>6, NextPhases, Elsewhere DEF DeleteIds
  <2> QED
    BY <1>6, <1>a, <2>1, DeletesInOrder DEF DeleteIds, ByIds
<1>7. ASSUME NEW h \in Handlers, NEW b \in hs[h].todo, DeleteAddress(h, b)
      PROVE  InOrder(a)'
  <2>1. OnlyMoves(h, {"addrs", "evict"}) /\ hs[h].ph = "addrs"
    BY <1>7, NextPhases DEF DeleteAddress
  <2>2. Undisturbed(a)
    BY <2>1, Elsewhere
  <2>3. ByAddress(hs[h].ev, b) \subseteq Stored /\ Deletes(ByAddress(hs[h].ev, b))
    BY <1>7 DEF DeleteAddress, ByAddress, VersionsAt
  <2> QED
    BY <1>a, <2>2, <2>3, DeletesInOrder
<1>8. ASSUME NEW h \in Handlers, EnforceLimit(h)
      PROVE  InOrder(a)'
  <2>1. Undisturbed(a)
    BY <1>8, NextPhases, Elsewhere DEF EnforceLimit
  <2>2. CASE UNCHANGED <<storeVars, head>>
    BY <1>so, <1>a, <2>1, <2>2, OtherRows, SameRowsSameVersions, RowsStay
  <2>3. ASSUME NEW V \in Victims, Remove(V), head' = Forget(V) PROVE InOrder(a)'
    BY <1>so, <1>a, <2>1, <2>3, RemoveRows, RowsGo DEF Victims
  <2> QED
    BY <1>8, <2>2, <2>3 DEF EnforceLimit
<1>9. ASSUME UNCHANGED hs PROVE Undisturbed(a)
  BY <1>9 DEF Undisturbed
<1>10. ASSUME Stored' = Stored, UNCHANGED <<hs, head>> PROVE InOrder(a)'
  BY <1>9, <1>10, <1>a, SameRowsSameVersions, RowsStay
<1>11. ASSUME NEW e \in pass.todo, PassJudge(e)
       PROVE  InOrder(a)'
  <2>1. hs' = hs
    BY <1>11 DEF PassJudge
  <2>2. CASE UNCHANGED <<storeVars, head>>
    BY <1>so, <1>10, <2>1, <2>2, OtherRows
  <2>3. CASE Deletes({e})
    <3>1. CASE Remove({e}) /\ head' = Forget({e})
      <4>1. Stored' = Stored \ {e}
        BY <1>so, <3>1, RemoveRows
      <4>2. VersionsAt(a)' = VersionsAt(a) \ {e} /\ NoEvent \notin {e}
        BY <4>1, VersionsAfter, IngestAssumption DEF TypeInv
      <4>3. head'[a] = IF head[a] \in {e} THEN NoEvent ELSE head[a]
        BY <3>1 DEF Forget
      <4> QED
        BY <1>9, <1>a, <2>1, <4>2, <4>3, StaysInOrder
    <3> QED
      BY <2>2, <2>3, <3>1 DEF Deletes
  <2> QED
    BY <1>11, <2>2, <2>3 DEF PassJudge
<1>12. CASE PassBegin \/ PassEnd \/ UNCHANGED vars
  BY <1>so, <1>10, <1>12, OtherRows DEF PassBegin, PassEnd, vars, history
<1>13. ASSUME NEW time, Sweep(time)
       PROVE  InOrder(a)'
  <2>1. Expired(time) \subseteq Stored /\ hs' = hs
    BY <1>13 DEF Expired, Sweep
  <2> QED
    BY <1>13, <1>so, <1>9, <1>a, <2>1, RemoveRows, RowsGo DEF Sweep
<1>14. ASSUME NEW e \in Event, Revalidated(e)
       PROVE  InOrder(a)'
  BY <1>14, <1>so, <1>10, OtherRows DEF Revalidated, history
<1>15. ASSUME NEW authors \in PriorityChoices, SetCachePriority(authors)
       PROVE  InOrder(a)'
  BY <1>15, <1>so, <1>10, OtherRows, IngestAssumption DEF SetCachePriority, history
<1>16. CASE Reload
  <2>1. \A h \in Handlers : ~Replacing(h, a)
    BY <1>16 DEF Reload
  <2>2. \A h \in Handlers : ~Replacing(h, a)'
    BY <1>16 DEF Reload, Replacing, Idle
  <2>3. Undisturbed(a)
    BY <2>1, <2>2 DEF Undisturbed
  <2>4. VersionsAt(a)' = VersionsAt(a) /\ head' = head
    BY <1>16, <1>so, OtherRows, SameRowsSameVersions DEF Reload
  <2> QED
    BY <1>a, <2>3, <2>4, RowsStay
<1> QED
  BY <1>1, <1>2, <1>3, <1>4, <1>5, <1>6, <1>7, <1>8, <1>11, <1>12, <1>13, <1>14, <1>15, <1>16
  DEF Next, HandlerStep, PassStep

(* Where versions met one by one, the cache holds the newest committed one *)
(* whatever else is written, deleted, evicted or expired meanwhile.        *)
THEOREM CacheNewestKept == Spec => []NewestKept
<1>1. Init => NewestInv
  <2> SUFFICES ASSUME Init, NEW a \in Coordinates PROVE InOrder(a)
    BY DEF NewestInv
  <2>1. VersionsAt(a) = {}
    BY DEF Init, StoreInit, Stored, VersionsAt
  <2>2. \A h \in Handlers : ~Replacing(h, a)
    BY DEF Init, Replacing, Idle
  <2>3. head[a] = NoEvent
    BY DEF Init
  <2> QED
    BY <2>1, <2>2, <2>3, IngestAssumption DEF InOrder, Kept, Alone, Unbeaten, Cleared, FoundByTag
<1>2. Init => TypeInv /\ PhaseInv
  BY TypeInit, VerifiedInit DEF VerifiedInv
<1>3. NewestInv => NewestKept
  BY DEF NewestInv, InOrder, Kept, NewestKept
<1> QED
  BY <1>1, <1>2, <1>3, TypeStep, PhaseStep, NewestStep, PTL DEF Spec
-----------------------------------------------------------------------------
(* Work is always found: what the eviction and the background validation   *)
(* select exists.                                                          *)

(* Some number of a set of natural numbers is the least.                   *)
LEMMA LeastOf ==
  ASSUME NEW T, T \subseteq Nat, T # {}
  PROVE  \E n \in T : \A m \in T : n <= m
<1> DEFINE R == {ss \in Nat \X Nat : ss[1] < ss[2]}
<1>1. IsWellFoundedOn(R, Nat)
  BY NatLessThanWellFounded DEF OpToRel
<1>2. \A x, y \in Nat : y < x => <<y, x>> \in R
  OBVIOUS
<1> HIDE DEF R
<1>3. PICK n \in T : \A m \in T : ~ (<<m, n>> \in R)
  BY <1>1, WFMin
<1>4. ASSUME NEW m \in T PROVE n <= m
  <2>1. m \in Nat /\ n \in Nat
    OBVIOUS
  <2>2. ~ (m < n)
    BY <1>2, <1>3, <2>1
  <2> QED
    BY <2>1, <2>2
<1> QED
  BY <1>4

(* A strict order in which any two of the set compare.                     *)
Orders(L, R) ==
  /\ \A x, y, z \in R : <<x, y>> \in L /\ <<y, z>> \in L => <<x, z>> \in L
  /\ \A x \in R : <<x, x>> \notin L
  /\ \A x, y \in R : x = y \/ <<x, y>> \in L \/ <<y, x>> \in L

UpTo(L, R, x) == {y \in R : y = x \/ <<y, x>> \in L}

(* Whoever comes earlier has fewer before it.                              *)
LEMMA EarlierIsFewer ==
  ASSUME NEW R, IsFiniteSet(R), NEW L, Orders(L, R), NEW x \in R, NEW y \in R, <<x, y>> \in L
  PROVE  Cardinality(UpTo(L, R, x)) < Cardinality(UpTo(L, R, y))
<1>1. UpTo(L, R, x) \subseteq UpTo(L, R, y)
  BY DEF UpTo, Orders
<1>2. y \in UpTo(L, R, y) /\ y \notin UpTo(L, R, x)
  BY DEF UpTo, Orders
<1>3. IsFiniteSet(UpTo(L, R, y)) /\ IsFiniteSet(UpTo(L, R, x))
  BY FS_Subset DEF UpTo
<1>4. UpTo(L, R, x) # UpTo(L, R, y)
  BY <1>2
<1>5. /\ Cardinality(UpTo(L, R, x)) <= Cardinality(UpTo(L, R, y))
      /\ Cardinality(UpTo(L, R, y)) # Cardinality(UpTo(L, R, x))
  BY <1>1, <1>3, <1>4, FS_Subset
<1>6. Cardinality(UpTo(L, R, x)) \in Nat /\ Cardinality(UpTo(L, R, y)) \in Nat
  BY <1>3, FS_CardinalityType
<1> QED
  BY <1>5, <1>6

(* The first n of a finite set exist, for any order and any n.             *)
LEMMA FirstOnesExist ==
  ASSUME NEW R, IsFiniteSet(R), NEW L, Orders(L, R), NEW n \in Nat
  PROVE  \E B \in SUBSET R :
           /\ Cardinality(B) <= n
           /\ Cardinality(B) < n => B = R
           /\ \A b \in B, k \in R \ B : <<b, k>> \in L
<1> DEFINE at(x) == Cardinality(UpTo(L, R, x))
           B == {x \in R : at(x) <= n}
<1>1. \A x \in R : at(x) \in Nat
  BY FS_Subset, FS_CardinalityType DEF UpTo
<1>2. \A x, y \in R : <<x, y>> \in L => at(x) < at(y)
  BY EarlierIsFewer
<1>3. IsFiniteSet(B) /\ Cardinality(B) \in Nat
  BY FS_Subset, FS_CardinalityType
<1>4. Cardinality(B) <= n
  <2>1. CASE B = {}
    BY <2>1, FS_EmptySet
  <2>2. CASE B # {}
    <3> DEFINE T == {n - at(x) : x \in B}
    <3>1. T \subseteq Nat /\ T # {}
      BY <1>1, <2>2
    <3>2. PICK t \in T : \A u \in T : t <= u
      BY <3>1, LeastOf
    <3>3. PICK m \in B : t = n - at(m)
      BY <3>2
    <3> HIDE DEF at
    <3>4. \A x \in B : at(x) <= at(m)
      BY <1>1, <3>2, <3>3
    <3>5. ASSUME NEW x \in B PROVE x = m \/ <<x, m>> \in L
      <4>1. ~(at(m) < at(x))
        BY <1>1, <3>3, <3>4
      <4>2. <<m, x>> \notin L
        BY <1>2, <3>3, <4>1
      <4> QED
        BY <3>3, <4>2 DEF Orders
    <3>6. B \subseteq UpTo(L, R, m)
      BY <3>5 DEF UpTo
    <3>7. IsFiniteSet(UpTo(L, R, m))
      BY FS_Subset DEF UpTo
    <3>8. Cardinality(B) <= at(m)
      BY <3>6, <3>7, FS_Subset DEF at
    <3> QED
      BY <1>1, <1>3, <3>3, <3>8
  <2> QED
    BY <2>1, <2>2
<1>5. ASSUME Cardinality(B) < n, B # R PROVE FALSE
  <2> DEFINE T == {at(x) : x \in R \ B}
  <2>1. T \subseteq Nat /\ T # {}
    BY <1>1, <1>5
  <2>2. PICK t \in T : \A u \in T : t <= u
    BY <2>1, LeastOf
  <2>3. PICK p \in R \ B : t = at(p)
    BY <2>2
  <2> HIDE DEF at
  <2>4. ASSUME NEW y \in R, <<y, p>> \in L PROVE y \in B
    <3>1. at(y) < at(p)
      BY <1>2, <2>3, <2>4
    <3>2. y \in R \ B => at(p) <= at(y)
      BY <2>2, <2>3
    <3> QED
      BY <1>1, <2>3, <2>4, <3>1, <3>2
  <2>5. UpTo(L, R, p) \subseteq B \cup {p}
    BY <2>4 DEF UpTo
  <2>6. IsFiniteSet(B \cup {p}) /\ Cardinality(B \cup {p}) = Cardinality(B) + 1
    BY <1>3, <2>3, FS_AddElement
  <2>7. at(p) <= Cardinality(B) + 1
    BY <2>5, <2>6, FS_Subset DEF at
  <2>8. at(p) <= n
    BY <1>1, <1>3, <1>5, <2>3, <2>7
  <2> QED
    BY <2>3, <2>8
<1>6. ASSUME NEW b \in B, NEW k \in R \ B PROVE <<b, k>> \in L
  <2>1. b # k /\ ~(at(k) <= n) /\ at(b) <= n
    OBVIOUS
  <2> HIDE DEF at
  <2>2. <<k, b>> \notin L
    BY <1>1, <1>2, <2>1
  <2> QED
    BY <2>1, <2>2 DEF Orders
<1>7. B \in SUBSET R
  OBVIOUS
<1> HIDE DEF B
<1> QED
  BY <1>4, <1>5, <1>6, <1>7

(* The rows are ordered by when they were cached: no two stamps are equal. *)
StampsDiffer == \A a, b \in Stored : cachedAt[a] = cachedAt[b] => a = b

(* Closing the gaps keeps the order.                                       *)
LEMMA RankedDiffer ==
  ASSUME StoreOK, StampsDiffer, NEW rows, rows \subseteq Stored
  PROVE  /\ \A a, b \in rows : Ranked(rows)[a] = Ranked(rows)[b] => a = b
         /\ \A a \in rows : Ranked(rows)[a] <= Cardinality(rows)
         /\ Cardinality(rows) \in Nat /\ \A a \in rows : Ranked(rows)[a] \in Nat
<1> DEFINE L == {ss \in rows \X rows : cachedAt[ss[1]] < cachedAt[ss[2]]}
<1>1. IsFiniteSet(rows) /\ Cardinality(rows) \in Nat /\ rows \subseteq Event
  BY EvAssumption, FS_Subset, FS_CardinalityType DEF Stored
<1>2. \A a \in rows : cachedAt[a] \in Nat
  BY <1>1 DEF StoreOK
<1>3. \A a, b \in rows : <<a, b>> \in L <=> cachedAt[a] < cachedAt[b]
  OBVIOUS
<1>4. \A a, b \in rows : cachedAt[a] = cachedAt[b] => a = b
  BY DEF StampsDiffer
<1> HIDE DEF L
<1>5. Orders(L, rows)
  BY <1>2, <1>3, <1>4 DEF Orders
<1>6. ASSUME NEW a \in rows PROVE UpTo(L, rows, a) = {k \in rows : cachedAt[k] <= cachedAt[a]}
  BY <1>2, <1>3, <1>4 DEF UpTo
<1>7. \A a \in rows : Ranked(rows)[a] = Cardinality(UpTo(L, rows, a))
  BY <1>1, <1>6 DEF Ranked, Rank
<1>8. \A a \in rows : /\ Cardinality(UpTo(L, rows, a)) \in Nat
                      /\ Cardinality(UpTo(L, rows, a)) <= Cardinality(rows)
  BY <1>1, FS_Subset, FS_CardinalityType DEF UpTo
<1>9. ASSUME NEW a \in rows, NEW b \in rows, Ranked(rows)[a] = Ranked(rows)[b] PROVE a = b
  <2>1. ~(Cardinality(UpTo(L, rows, a)) < Cardinality(UpTo(L, rows, b)))
    BY <1>7, <1>8, <1>9
  <2>2. ~(Cardinality(UpTo(L, rows, b)) < Cardinality(UpTo(L, rows, a)))
    BY <1>7, <1>8, <1>9
  <2>3. <<a, b>> \notin L /\ <<b, a>> \notin L
    BY <1>1, <1>5, <2>1, <2>2, EarlierIsFewer
  <2> QED
    BY <1>5, <2>3 DEF Orders
<1> QED
  BY <1>1, <1>7, <1>8, <1>9

(* So does a stamp, which puts its row behind all others.                  *)
LEMMA StampDiffers ==
  ASSUME StoreOK, StampsDiffer, NEW e \in Event, Stamp(e)
  PROVE  StampsDiffer'
<1> DEFINE others == Stored \ {e}
<1>1. /\ \A a, b \in others : Ranked(others)[a] = Ranked(others)[b] => a = b
      /\ \A a \in others : Ranked(others)[a] <= Cardinality(others)
      /\ Cardinality(others) \in Nat /\ \A a \in others : Ranked(others)[a] \in Nat
  BY RankedDiffer
<1>2. Stored' = Stored \cup {e}
  BY StampRows DEF StoreOK
<1>3. cachedAt' = [Ranked(others) EXCEPT ![e] = Cardinality(others) + 1]
  BY DEF Stamp
<1>4. others \subseteq Event /\ DOMAIN Ranked(others) = Event
  BY DEF Stored, Ranked
<1> HIDE DEF others
<1>5. cachedAt'[e] = Cardinality(others) + 1 /\ \A a \in others \ {e} : cachedAt'[a] = Ranked(others)[a]
  BY <1>3, <1>4
<1>6. Stored' = (others \ {e}) \cup {e}
  BY <1>2 DEF others
<1>7. ASSUME NEW a \in others \ {e} PROVE cachedAt'[a] # cachedAt'[e]
  <2>1. Ranked(others)[a] <= Cardinality(others) /\ Ranked(others)[a] \in Nat /\ cachedAt'[a] = Ranked(others)[a]
    BY <1>1, <1>5
  <2> QED
    BY <1>1, <1>5, <2>1
<1>8. \A a, b \in others \ {e} : cachedAt'[a] = cachedAt'[b] => a = b
  BY <1>1, <1>5
<1> QED
  BY <1>6, <1>7, <1>8 DEF StampsDiffer

(* A step stamps one row, takes rows away, or leaves the stamps alone.     *)
LEMMA Stamping ==
  ASSUME TypeInv, [Next]_vars
  PROVE  \/ \E e \in Event : Stamp(e)
         \/ \E rows : Remove(rows)
         \/ cachedAt' = cachedAt
<1>1. ASSUME NEW rows, Deletes(rows) PROVE Remove(rows) \/ cachedAt' = cachedAt
  BY <1>1 DEF Deletes, storeVars
<1>2. ASSUME NEW h \in Handlers, HandlerStep(h)
      PROVE  (\E e \in Event : Stamp(e)) \/ (\E rows : Remove(rows)) \/ cachedAt' = cachedAt
  <2>1. CASE Validate(h) \/ Check(h) \/ Clear(h) \/ EnforceLimit(h)
    BY <2>1 DEF Validate, Check, Clear, EnforceLimit, storeVars
  <2>2. CASE Save(h)
    <3>1. hs[h].ev \in Event
      BY <2>2 DEF Save, TypeInv, HandlerOK
    <3> QED
      BY <2>2, <3>1 DEF Save, Saved, SaveFails, Put, storeVars
  <2>3. CASE DeleteIds(h)
    BY <1>1, <2>3 DEF DeleteIds
  <2>4. CASE \E a \in hs[h].todo : DeleteAddress(h, a)
    BY <1>1, <2>4 DEF DeleteAddress
  <2> QED
    BY <1>2, <2>1, <2>2, <2>3, <2>4 DEF HandlerStep
<1>3. ASSUME PassStep PROVE (\E rows : Remove(rows)) \/ cachedAt' = cachedAt
  BY <1>1, <1>3 DEF PassStep, PassBegin, PassJudge, PassEnd, Mark, storeVars
<1>4. ASSUME NEW e \in Event, Revalidated(e) PROVE Stamp(e)
  BY <1>4 DEF Revalidated, Restamp
<1>5. \A time : Sweep(time) => \E rows : Remove(rows)
  BY DEF Sweep
<1>6. \A authors : SetCachePriority(authors) => cachedAt' = cachedAt
  BY DEF SetCachePriority, SetPriority
<1>7. \A h, e, path : Arrive(h, e, path) => cachedAt' = cachedAt
  BY DEF Arrive, storeVars
<1>8. Reload \/ UNCHANGED vars => cachedAt' = cachedAt
  BY DEF Reload, vars, storeVars
<1> QED
  BY <1>2, <1>3, <1>4, <1>5, <1>6, <1>7, <1>8 DEF Next

(* The stamps stay different.                                              *)
LEMMA StampsStep == TypeInv /\ StampsDiffer /\ [Next]_vars => StampsDiffer'
<1> SUFFICES ASSUME TypeInv, StampsDiffer, [Next]_vars PROVE StampsDiffer'
  OBVIOUS
<1>0. StoreOK
  BY DEF TypeInv
<1>1. ASSUME NEW e \in Event, Stamp(e) PROVE StampsDiffer'
  BY <1>0, <1>1, StampDiffers
<1>2. ASSUME NEW rows, Remove(rows) PROVE StampsDiffer'
  <2> DEFINE rest == Stored \ rows
  <2>1. cachedAt' = Ranked(rest) /\ Stored' = rest
    BY <1>0, <1>2, RemoveRows DEF Remove
  <2>2. \A a, b \in rest : Ranked(rest)[a] = Ranked(rest)[b] => a = b
    BY <1>0, RankedDiffer
  <2> QED
    BY <2>1, <2>2 DEF StampsDiffer
<1>3. CASE cachedAt' = cachedAt
  BY <1>3 DEF StampsDiffer, Stored
<1> QED
  BY <1>1, <1>2, <1>3, Stamping

(* Rows to evict are always found.                                         *)
LEMMA VictimsExist ==
  ASSUME TypeInv
  PROVE  Victims # {}
<1> DEFINE L == {ss \in Stored \X Stored :
                   \/ ~Protected(ss[1]) /\ Protected(ss[2])
                   \/ (Protected(ss[1]) <=> Protected(ss[2])) /\ Older(ss[1], ss[2])}
<1>1. /\ IsFiniteSet(Stored) /\ Cardinality(Stored) \in Nat /\ MaxSize \in Nat
      /\ Stored \subseteq Event
  BY Counted DEF Stored
<1>2. \A x \in Stored : x \in Nat /\ Ev[x].at \in Nat
  BY <1>1, EvAssumption
<1>3. \A x, y \in Stored : <<x, y>> \in L <=>
        \/ ~Protected(x) /\ Protected(y)
        \/ (Protected(x) <=> Protected(y)) /\ Older(x, y)
  OBVIOUS
<1> HIDE DEF L
<1>4. \A x, y, z \in Stored : Older(x, y) /\ Older(y, z) => Older(x, z)
  BY <1>2 DEF Older
<1>5. \A x \in Stored : ~Older(x, x)
  BY <1>2 DEF Older
<1>6. \A x, y \in Stored : x = y \/ Older(x, y) \/ Older(y, x)
  BY <1>2 DEF Older
<1>7. Orders(L, Stored)
  BY <1>3, <1>4, <1>5, <1>6 DEF Orders
<1>8. Excess \in Nat /\ Excess <= Cardinality(Stored)
  BY <1>1, EvAssumption DEF Excess
<1>9. PICK V \in SUBSET Stored :
        /\ Cardinality(V) <= Excess
        /\ Cardinality(V) < Excess => V = Stored
        /\ \A v \in V, k \in Stored \ V : <<v, k>> \in L
  BY <1>1, <1>7, <1>8, FirstOnesExist
<1>10. Cardinality(V) = Excess
  <2>1. Cardinality(V) \in Nat
    BY <1>1, FS_Subset, FS_CardinalityType
  <2> QED
    BY <1>1, <1>8, <1>9, <2>1
<1>11. \A v \in V, k \in Stored \ V : MayEvict(v, k)
  BY <1>3, <1>9 DEF MayEvict
<1> QED
  BY <1>10, <1>11 DEF Victims

(* And so is a batch to verify, as long as something is pending.           *)
LEMMA BatchExists ==
  ASSUME TypeInv, StampsDiffer, Pending # {}
  PROVE  \E B \in OldestPending(BatchSize) : B # {}
<1> DEFINE L == {ss \in Pending \X Pending : cachedAt[ss[1]] < cachedAt[ss[2]]}
<1>1. IsFiniteSet(Pending) /\ BatchSize \in Nat \ {0} /\ Pending \subseteq Stored
  BY Counted, FS_Subset, IngestAssumption DEF Pending
<1>2. \A x \in Pending : cachedAt[x] \in Nat
  BY <1>1 DEF TypeInv, StoreOK, Stored
<1>3. \A x, y \in Pending : <<x, y>> \in L <=> cachedAt[x] < cachedAt[y]
  OBVIOUS
<1> HIDE DEF L
<1>4. Orders(L, Pending)
  BY <1>1, <1>2, <1>3 DEF Orders, StampsDiffer
<1>5. PICK B \in SUBSET Pending :
        /\ Cardinality(B) <= BatchSize
        /\ Cardinality(B) < BatchSize => B = Pending
        /\ \A b \in B, k \in Pending \ B : <<b, k>> \in L
  BY <1>1, <1>4, FirstOnesExist
<1>6. B \in OldestPending(BatchSize)
  BY <1>3, <1>5 DEF OldestPending
<1>7. B # {}
  BY <1>1, <1>5, FS_EmptySet
<1> QED
  BY <1>6, <1>7

(* A deletion request that deletes by address has an address left.         *)
AddressesLeft == \A h \in Handlers : hs[h].ph = "addrs" => hs[h].todo # {}

(* Every step keeps it: saving a deletion request goes on to its addresses   *)
(* only when there are some, and the last one is not left empty.            *)
LEMMA AddressesStep == TypeInv /\ AddressesLeft /\ [Next]_vars => AddressesLeft'
<1> SUFFICES ASSUME TypeInv, AddressesLeft, [Next]_vars PROVE AddressesLeft'
  OBVIOUS
<1>0. hs \in [Handlers -> HandlerState] /\ Idle.ph = "idle"
  BY DEF TypeInv, Idle
<1>a. \A e, path, verified : Admitted(e, path, verified).ph # "addrs"
  BY DEF Admitted, Idle
<1>2. ASSUME NEW h \in Handlers, NEW r, hs' = [hs EXCEPT ![h] = r], r.ph = "addrs" => r.todo # {}
      PROVE  AddressesLeft'
  BY <1>0, <1>2 DEF AddressesLeft
<1>3. ASSUME NEW h \in Handlers, NEW e, NEW path, Arrive(h, e, path) PROVE AddressesLeft'
  <2>1. [Idle EXCEPT !.ph = "validate", !.ev = e, !.path = path].ph # "addrs"
    BY DEF Idle
  <2> QED
    BY <1>2, <1>3, <1>a, <2>1 DEF Arrive
<1>4. ASSUME NEW h \in Handlers, Validate(h) \/ Check(h) \/ Clear(h) \/ EnforceLimit(h) PROVE AddressesLeft'
  <2>1. ASSUME NEW phase \in {"clear", "save"}, Goto(h, phase) PROVE AddressesLeft'
    <3>1. hs' = [hs EXCEPT ![h] = [hs[h] EXCEPT !.ph = phase]]
      BY <2>1 DEF Goto
    <3>2. [hs[h] EXCEPT !.ph = phase].ph = phase
      BY <1>0 DEF HandlerState
    <3> QED
      BY <1>2, <2>1, <3>1, <3>2
  <2>2. Done(h) => AddressesLeft'
    BY <1>0, <1>2 DEF Done
  <2>3. CASE Validate(h)
    <3> DEFINE r == Admitted(hs[h].ev, hs[h].path, TRUE)
    <3>1. hs' = [hs EXCEPT ![h] = r] \/ Done(h)
      BY <2>3 DEF Validate
    <3>2. r.ph # "addrs"
      BY <1>a
    <3> HIDE DEF r
    <3> QED
      BY <1>2, <2>2, <3>1, <3>2
  <2> QED
    BY <1>4, <2>1, <2>2, <2>3 DEF Check, Clear, EnforceLimit
<1>5. ASSUME NEW h \in Handlers, Save(h) PROVE AddressesLeft'
  <2>1. CASE Saved(h)
    <3> DEFINE e == hs[h].ev
               r == [Idle EXCEPT !.ph = AfterSave(e), !.ev = e,
                      !.todo = IF IsDeletion(e) THEN RequestedAddresses(e) ELSE {}]
    <3>1. hs' = [hs EXCEPT ![h] = r]
      BY <2>1 DEF Saved
    <3>2. r.ph = AfterSave(e) /\ r.todo = IF IsDeletion(e) THEN RequestedAddresses(e) ELSE {}
      BY DEF Idle
    <3> HIDE DEF r
    <3>3. r.ph = "addrs" => r.todo # {}
      BY <3>2 DEF AfterSave
    <3> QED
      BY <1>2, <3>1, <3>3
  <2>2. CASE SaveFails(h)
    BY <1>0, <1>2, <2>2 DEF SaveFails, Done
  <2> QED
    BY <1>5, <2>1, <2>2 DEF Save
<1>6. ASSUME NEW h \in Handlers, DeleteIds(h) PROVE AddressesLeft'
  <2> DEFINE phase == IF hs[h].todo = {} THEN "evict" ELSE "addrs"
             r == [hs[h] EXCEPT !.ph = phase]
  <2>1. hs' = [hs EXCEPT ![h] = r]
    BY <1>6 DEF DeleteIds, Goto
  <2>2. r.ph = phase /\ r.todo = hs[h].todo
    BY <1>0 DEF HandlerState
  <2> HIDE DEF r
  <2> QED
    BY <1>2, <2>1, <2>2
<1>7. ASSUME NEW h \in Handlers, NEW a \in hs[h].todo, DeleteAddress(h, a) PROVE AddressesLeft'
  <2> DEFINE phase == IF hs[h].todo = {a} THEN "evict" ELSE "addrs"
             r == [hs[h] EXCEPT !.todo = hs[h].todo \ {a}, !.ph = phase]
  <2>1. hs' = [hs EXCEPT ![h] = r]
    BY <1>0, <1>7 DEF DeleteAddress, HandlerState
  <2>2. r.ph = phase /\ r.todo = hs[h].todo \ {a}
    BY <1>0 DEF HandlerState
  <2> HIDE DEF r
  <2> QED
    BY <1>2, <2>1, <2>2
<1>8. Reload => AddressesLeft'
  BY <1>0 DEF Reload, AddressesLeft
<1>9. hs' = hs => AddressesLeft'
  BY DEF AddressesLeft
<1>10. PassStep \/ (\E time : Sweep(time)) \/ (\E e : Revalidated(e)) \/ (\E authors : SetCachePriority(authors))
         \/ UNCHANGED vars => hs' = hs
  BY DEF PassStep, PassBegin, PassJudge, PassEnd, Sweep, Revalidated, SetCachePriority, vars
<1> QED
  BY <1>3, <1>4, <1>5, <1>6, <1>7, <1>8, <1>9, <1>10 DEF Next, HandlerStep

(* Nobody is at a step that selects rows and finds none it could take: a   *)
(* background pass that begins has rows to judge, an eviction can always   *)
(* bring the table to its limit, protected rows or not, and a deletion by  *)
(* address has an address.                                                 *)
WorkIsFound ==
  /\ mode = "LAZY" /\ Pending # {} => \E B \in OldestPending(BatchSize) : B # {}
  /\ Victims # {}
  /\ AddressesLeft

(* The safety half of PendingDrained, and of an eviction that ends.        *)
THEOREM CacheFindsWork == Spec => []WorkIsFound
<1>1. Init => TypeInv /\ StampsDiffer /\ AddressesLeft
  <2>1. Init => StampsDiffer
    BY DEF Init, StoreInit, Stored, StampsDiffer
  <2>2. Init => AddressesLeft
    BY DEF Init, Idle, AddressesLeft
  <2> QED
    BY <2>1, <2>2, TypeInit
<1>2. TypeInv /\ StampsDiffer /\ AddressesLeft => WorkIsFound
  BY VictimsExist, BatchExists DEF WorkIsFound
<1> QED
  BY <1>1, <1>2, TypeStep, StampsStep, AddressesStep, PTL DEF Spec
=============================================================================
