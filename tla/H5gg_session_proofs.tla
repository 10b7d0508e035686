------------------------ MODULE H5gg_session_proofs ------------------------
(***************************************************************************)
(* Theorems about the session h5gg keeps around the engine, and about the  *)
(* list of results across calls.                                           *)
(***************************************************************************)
EXTENDS H5gg_proofs

(* A step of a call stays in its loop, returns or crashes, with the        *)
(* arguments it was called with; only a first scan ends as one.            *)
LEMMA StepShape ==
  ASSUME EngineStep
  PROVE  /\ op \in {"first", "again", "near", "group", "edit"}
         /\ op' \in {op, "return", "crashed"} /\ q' = q
         /\ IF op = "first" /\ op' = "return" THEN firstScanDone' = TRUE
            ELSE UNCHANGED firstScanDone
<1> USE DEF settings
<1>1. ASSUME NEW b, FirstLoad(b) \/ FirstLimit(b) \/ FirstFound(b) \/ FirstExhausted(b)
      PROVE  op = "first" /\ op' = op /\ q' = q /\ UNCHANGED firstScanDone
  BY <1>1 DEF FirstLoad, FirstLimit, FirstFound, FirstExhausted
<1>2. CASE FirstDone
  BY <1>2 DEF FirstDone
<1>3. CASE RefineNull \/ AgainSkip \/ RefineLoad \/ RefineNext \/ RefineDone
  BY <1>3 DEF RefineNull, AgainSkip, RefineLoad, RefineNext, RefineDone, Refining,
     Crash, Compact
<1>4. CASE AgainKeep \/ AgainDrop \/ AgainFault \/ NearMiss \/ NearFound \/ NearFault
  BY <1>4 DEF AgainKeep, AgainDrop, AgainFault, NearMiss, NearFound, NearFault, Crash
<1>5. ASSUME NEW anchor, GroupFound(anchor) \/ GroupMiss(anchor)
      PROVE  op = "group" /\ op' = op /\ q' = q /\ UNCHANGED firstScanDone
  BY <1>5 DEF GroupFound, GroupMiss
<1>6. CASE GroupDone \/ GroupNull
  BY <1>6 DEF GroupDone, GroupNull, Crash
<1>7. CASE EditNull \/ EditSlide \/ EditNext \/ EditDone
  BY <1>7 DEF EditNull, EditSlide, EditNext, EditDone, Editing, Crash
<1> QED
  BY <1>1, <1>2, <1>3, <1>4, <1>5, <1>6, <1>7 DEF EngineStep, ScanStep

-----------------------------------------------------------------------------
(* Without a search done, nothing is in progress but one that will count   *)
(* as the first, and the idle engine is as constructed.                    *)
SessionInv ==
  ~firstSearchDone =>
    /\ op \in {"idle", "first", "group", "return", "crashed"}
    /\ op = "return" => q.api \in {"number", "group"}
    /\ SessionFresh

(* A call that starts without a search done is a first or a group search.  *)
LEMMA SessionCall == TypeOK /\ SessionInv /\ Call => SessionInv'
<1> SUFFICES ASSUME TypeOK, SessionInv, Call PROVE SessionInv'
  OBVIOUS
<1> USE DEF SessionInv, SessionFresh
<1>1. ASSUME NEW query \in NumberQueries, SearchNumber(query) PROVE SessionInv'
  BY <1>1 DEF SearchNumber, JJScanMemory, session
<1>2. ASSUME NEW query \in NearQueries, SearchNearby(query) PROVE SessionInv'
  BY <1>2 DEF SearchNearby, session
<1>3. ASSUME NEW query \in GroupQueries, SearchGroup(query) PROVE SessionInv'
  <2>1. query.api = "group"
    BY QueriesAssumption DEF GroupCall
  <2>2. q'.api = "group"
    <3>1. PICK anchor : q' = [query EXCEPT !.anchor = anchor]
      BY <1>3 DEF SearchGroup, JJGroupSearch
    <3>2. query \in GroupCall
      BY QueriesAssumption
    <3> QED
      BY <2>1, <3>1, <3>2 DEF GroupCall
  <2> QED
    BY <1>3, <2>2 DEF SearchGroup, JJGroupSearch, session
<1>4. ASSUME NEW query \in EditQueries, EditAll(query) PROVE SessionInv'
  BY <1>4 DEF EditAll, session
<1>5. ASSUME NEW d \in Tolerances, SetFloatTolerance(d) PROVE SessionInv'
  BY <1>5 DEF SetFloatTolerance, session, results
<1>6. CASE ClearResults
  BY <1>6 DEF ClearResults, Reconstruct
<1>7. CASE GetResults
  BY <1>7 DEF GetResults, Crash, session
<1> QED
  BY <1>1, <1>2, <1>3, <1>4, <1>5, <1>6, <1>7 DEF Call

LEMMA SessionNext == TypeOK /\ SessionInv /\ [Next]_vars => SessionInv'
<1> SUFFICES ASSUME TypeOK, SessionInv, [Next]_vars PROVE SessionInv'
  OBVIOUS
<1>1. CASE Call
  BY <1>1, SessionCall
<1>2. op \in {"first", "again"} => q.api = "number"
  BY DEF TypeOK, CallTypeOK, NumberCall
<1>3. op = "group" => q.api = "group"
  BY DEF TypeOK, CallTypeOK, GroupCall
<1>4. CASE EngineStep /\ UNCHANGED session
  BY <1>2, <1>3, <1>4, StepShape DEF SessionInv, SessionFresh, session
<1>5. CASE Return
  <2> SUFFICES ASSUME ~firstSearchDone' PROVE FALSE
    BY DEF SessionInv
  <2> QED
    BY <1>5 DEF SessionInv, Return
<1>6. CASE Throw
  BY <1>2, <1>3, <1>6 DEF SessionInv, SessionFresh, session, Throw, OutOfMemory, Refining
<1>7. CASE Game \/ UNCHANGED vars
  BY <1>7 DEF SessionInv, SessionFresh, Game, GameStep, GameWrites, GameUnmaps, vars,
     engineVars, results, settings, session
<1> QED
  BY <1>1, <1>4, <1>5, <1>6, <1>7 DEF Next, Work, Crashed

(* While h5gg says that no search was done the engine is as constructed:   *)
(* a search that ran out of memory on the way, an editAll or a nearby      *)
(* search that finds nothing cannot leave results that the next            *)
(* searchNumber would add to.                                              *)
THEOREM SessionIsFresh == Spec => []SessionFresh
<1>1. Init => SessionInv
  BY DEF Init, Construct, SessionInv, SessionFresh
<1>2. SessionInv => SessionFresh
  BY DEF SessionInv, SessionFresh
<1> QED
  BY <1>1, <1>2, SessionNext, TypeCorrect, PTL DEF Spec

-----------------------------------------------------------------------------
(* The null pointers of a refining search lie behind it; a first or a      *)
(* group search appends none, and RefineDone removes those it made.        *)
HoleInv ==
  \A n \in DOMAIN regions : regions[n] = NULL =>
    op = "crashed" \/ (op \in {"again", "near"} /\ n < i)

LEMMA HoleCall == TypeOK /\ HoleInv /\ Call => HoleInv'
<1> SUFFICES ASSUME TypeOK, HoleInv, Call PROVE HoleInv'
  OBVIOUS
<1>1. op = "idle" /\ ~NullHole
  BY DEF HoleInv, NullHole, Call, SearchNumber, SearchNearby, SearchGroup, EditAll,
     SetFloatTolerance, ClearResults, GetResults
<1>2. regions' = regions \/ regions' = <<>>
  BY DEF Call, SearchNumber, JJScanMemory, SearchNearby, JJNearBySearch, SearchGroup,
     JJGroupSearch, EditAll, JJWriteAll, SetFloatTolerance, ClearResults, Reconstruct,
     GetResults, Crash, results
<1> QED
  BY <1>1, <1>2 DEF HoleInv, NullHole

(* Steps that leave the list and the position in it alone.                 *)
LEMMA HoleKept ==
  ASSUME HoleInv, UNCHANGED <<regions, i>>,
         op' \in {op, "crashed"} \/ op \notin {"again", "near", "crashed"}
  PROVE  HoleInv'
BY DEF HoleInv

LEMMA HoleReplace ==
  ASSUME TypeOK, HoleInv, Refining, NEW r, ReplaceRegion(r), op' = op
  PROVE  HoleInv'
<1>1. regions \in Seq(Region \cup {NULL}) /\ i \in Nat /\ i' = i + 1
  BY DEF TypeOK, ResultsTypeOK, LoopTypeOK, ReplaceRegion
<1>2. \A n \in DOMAIN regions' : n \in Nat /\ n \in DOMAIN regions
                                 /\ (n = i \/ regions'[n] = regions[n])
  BY <1>1, LenProperties DEF ReplaceRegion
<1> QED
  BY <1>1, <1>2 DEF HoleInv, Refining

LEMMA HoleFirst ==
  ASSUME TypeOK, HoleInv, NEW b \in Bases,
         FirstLoad(b) \/ FirstLimit(b) \/ FirstFound(b) \/ FirstExhausted(b)
  PROVE  HoleInv'
<1>1. CASE FirstLoad(b) \/ FirstFound(b)
  BY <1>1, HoleKept DEF FirstLoad, FirstFound, results
<1>2. CASE FirstLimit(b) \/ FirstExhausted(b)
  <2>1. op = "first" /\ regions \in Seq(Region \cup {NULL})
    BY <1>2 DEF FirstLimit, FirstExhausted, TypeOK, ResultsTypeOK
  <2>2. regions' = IF newRegion = NULL THEN regions ELSE Append(regions, newRegion)
    BY <1>2 DEF FirstLimit, FirstExhausted, LeaveRegion
  <2>3. \A n \in DOMAIN regions : regions[n] # NULL
    BY <2>1 DEF HoleInv
  <2>4. \A n \in DOMAIN regions' : regions'[n] # NULL
    BY <2>1, <2>2, <2>3, AppendProperties
  <2> QED
    BY <2>4 DEF HoleInv
<1> QED
  BY <1>1, <1>2

LEMMA HoleGroup ==
  ASSUME TypeOK, HoleInv, NEW anchor \in todo, GroupFound(anchor) \/ GroupMiss(anchor)
  PROVE  HoleInv'
<1>1. op = "group" /\ regions \in Seq(Region \cup {NULL})
  BY DEF GroupFound, GroupMiss, TypeOK, ResultsTypeOK
<1>2. \A n \in DOMAIN regions : regions[n] # NULL
  BY <1>1 DEF HoleInv
<1>3. CASE GroupMiss(anchor)
  BY <1>3, HoleKept DEF GroupMiss, results, frame
<1>4. CASE GroupFound(anchor)
  <2>1. q \in GroupCall
    BY <1>1 DEF TypeOK, CallTypeOK
  <2>2. \A n \in DOMAIN regions' : regions'[n] # NULL
    BY <1>2, <1>4, <2>1, GroupBaseType, PushGroupType DEF GroupFound
  <2> QED
    BY <2>2 DEF HoleInv
<1> QED
  BY <1>3, <1>4

LEMMA HoleRefine ==
  ASSUME TypeOK, HoleInv,
         \/ AgainSkip \/ RefineLoad \/ RefineNext \/ RefineDone
         \/ AgainKeep \/ AgainDrop \/ NearMiss \/ NearFound
  PROVE  HoleInv'
<1>1. CASE AgainKeep \/ AgainDrop \/ NearMiss \/ NearFound
  BY <1>1, HoleKept DEF AgainKeep, AgainDrop, NearMiss, NearFound, results
<1>2. CASE AgainSkip
  <2>1. regions \in Seq(Region \cup {NULL}) /\ i \in Nat
    BY DEF TypeOK, ResultsTypeOK, LoopTypeOK
  <2>2. \A n \in DOMAIN regions : n \in Nat
    BY <2>1, LenProperties
  <2> QED
    BY <1>2, <2>1, <2>2 DEF AgainSkip, Refining, HoleInv, results
<1>3. CASE RefineLoad
  <2>1. CASE ReplaceRegion(NULL)
    BY <1>3, <2>1, HoleReplace DEF RefineLoad
  <2>2. CASE UNCHANGED <<regions, i>>
    BY <1>3, <2>2, HoleKept DEF RefineLoad
  <2> QED
    BY <1>3, <2>1, <2>2 DEF RefineLoad
<1>4. CASE RefineNext
  BY <1>4, HoleReplace DEF RefineNext
<1>5. CASE RefineDone
  <2>1. regions' \in Seq(Region)
    BY <1>5, CompactType DEF RefineDone, TypeOK, ResultsTypeOK
  <2>2. \A n \in DOMAIN regions' : regions'[n] # NULL
    BY <2>1, NullIsNoRegion, ElementOfSeq, LenProperties
  <2> QED
    BY <2>2 DEF HoleInv
<1> QED
  BY <1>1, <1>2, <1>3, <1>4, <1>5

LEMMA HoleOther ==
  ASSUME HoleInv,
         \/ FirstDone \/ RefineNull \/ AgainFault \/ NearFault \/ GroupDone \/ GroupNull
         \/ EditNull \/ EditSlide \/ EditNext \/ EditDone \/ Return
  PROVE  HoleInv'
<1>1. CASE RefineNull \/ AgainFault \/ NearFault \/ GroupNull \/ EditNull
  BY <1>1, HoleKept DEF RefineNull, AgainFault, NearFault, GroupNull, EditNull, Crash,
     results, frame
<1>2. CASE FirstDone \/ GroupDone
  BY <1>2, HoleKept DEF FirstDone, GroupDone, results, frame
<1>3. CASE EditSlide \/ EditNext \/ EditDone \/ Return
  BY <1>3 DEF EditSlide, EditNext, EditDone, Editing, Return, results, HoleInv
<1> QED
  BY <1>1, <1>2, <1>3

LEMMA HoleNext ==
  ASSUME "nomem" \notin Faults, TypeOK, HoleInv, [Next]_vars
  PROVE  HoleInv'
<1>1. CASE Call
  BY <1>1, HoleCall
<1>2. CASE Work
  BY <1>2, HoleFirst, HoleGroup, HoleRefine, HoleOther DEF Work, EngineStep, ScanStep
<1>3. CASE Throw
  BY <1>3 DEF Throw, OutOfMemory
<1>4. CASE Game \/ UNCHANGED vars
  BY <1>4, HoleKept DEF Game, GameStep, GameWrites, GameUnmaps, vars, engineVars,
     results, frame
<1> QED
  BY <1>1, <1>2, <1>3, <1>4 DEF Next, Crashed

(* Unless memory runs out, no call leaves a null pointer in the list, so   *)
(* that neither getResults nor the next search reads through one, however  *)
(* the game unmaps its memory.                                             *)
THEOREM NoHoles ==
  ASSUME "nomem" \notin Faults
  PROVE  Spec => []NoHoleAtRest
<1>1. Init => HoleInv
  BY DEF Init, Construct, HoleInv
<1>2. HoleInv => NoHoleAtRest
  BY DEF HoleInv, NoHoleAtRest, NullHole
<1>3. TypeOK /\ HoleInv /\ [Next]_vars => HoleInv'
  BY HoleNext
<1> QED
  BY <1>1, <1>2, <1>3, TypeCorrect, PTL DEF Spec

-----------------------------------------------------------------------------
(* Improving.  Without group searches, and with memory enough, a search    *)
(* done is a scan done: the engine never scans a second time from scratch. *)
ScanInv ==
  /\ firstSearchDone => firstScanDone
  /\ op \in {"again", "near", "edit"} => firstSearchDone
  /\ op = "first" => ~firstSearchDone
  /\ op = "return" => firstScanDone
  /\ op # "group"

(* The region under construction holds slides of the one it replaces.      *)
KeptInv ==
  op = "again" /\ newRegion # NULL =>
    /\ mapsize > 0
    /\ newRegion.base = regions[i].base
    /\ \A k \in DOMAIN newRegion.slides :
         \E n \in DOMAIN regions[i].slides : regions[i].slides[n] = newRegion.slides[k]

LEMMA ScanNext ==
  ASSUME "nomem" \notin Faults, GroupQueries = {}, TypeOK, SessionInv, ScanInv, [Next]_vars
  PROVE  ScanInv'
<1> USE DEF ScanInv
<1>1. CASE Call
  <2>1. ASSUME NEW query \in NumberQueries, SearchNumber(query) PROVE ScanInv'
    BY <2>1 DEF SearchNumber, JJScanMemory, session, SessionInv, SessionFresh
  <2>2. ASSUME NEW query \in NearQueries, SearchNearby(query) PROVE ScanInv'
    BY <2>2 DEF SearchNearby, JJNearBySearch, session, settings, SessionInv, SessionFresh
  <2>3. ASSUME NEW query \in EditQueries, EditAll(query) PROVE ScanInv'
    BY <2>3 DEF EditAll, JJWriteAll, session, settings, SessionInv, SessionFresh
  <2>4. ASSUME NEW d \in Tolerances, SetFloatTolerance(d) PROVE ScanInv'
    BY <2>4 DEF SetFloatTolerance, session
  <2>5. CASE ClearResults
    BY <2>5 DEF ClearResults, Reconstruct
  <2>6. CASE GetResults
    BY <2>6 DEF GetResults, Crash, session, settings
  <2> QED
    BY <1>1, <2>1, <2>2, <2>3, <2>4, <2>5, <2>6 DEF Call
<1>2. CASE EngineStep /\ UNCHANGED session
  BY <1>2, StepShape DEF session
<1>3. CASE Return
  BY <1>3 DEF Return, settings
<1>4. CASE Throw
  BY <1>4 DEF Throw, OutOfMemory
<1>5. CASE Game \/ UNCHANGED vars
  BY <1>5 DEF Game, GameStep, GameWrites, GameUnmaps, vars, engineVars, settings, session
<1> QED
  BY <1>1, <1>2, <1>3, <1>4, <1>5 DEF Next, Work, Crashed

(* A result pushed on the region under construction comes from the region  *)
(* it replaces; everything else leaves both alone or starts anew.          *)
LEMMA KeptNext ==
  ASSUME TypeOK, KeptInv, [Next]_vars
  PROVE  KeptInv'
<1>1. CASE Call
  <2>1. ASSUME NEW d \in Tolerances, SetFloatTolerance(d) PROVE KeptInv'
    BY <2>1 DEF SetFloatTolerance, KeptInv
  <2>2. CASE ClearResults \/ GetResults
    BY <2>2 DEF ClearResults, GetResults, Crash, KeptInv
  <2>3. ASSUME newRegion' = NULL PROVE KeptInv'
    BY <2>3 DEF KeptInv
  <2> QED
    BY <1>1, <2>1, <2>2, <2>3, StartType DEF Call, SearchNumber, JJScanMemory,
       SearchNearby, JJNearBySearch, SearchGroup, JJGroupSearch, EditAll, JJWriteAll
<1>2. CASE AgainKeep
  <2> DEFINE r == IF newRegion = NULL THEN Fresh(regions[i].base, regions[i].size)
                  ELSE newRegion
  <2>1. op = "again" /\ AtSlide /\ UNCHANGED <<regions, i, mapsize>>
    BY <1>2 DEF AgainKeep, results
  <2>2. mapsize > 0 /\ j \in DOMAIN regions[i].slides /\ Slide = regions[i].slides[j]
    BY <2>1 DEF AtSlide, Slide
  <2>3. newRegion' = [r EXCEPT !.slides = Append(r.slides, Slide)]
    BY <1>2 DEF AgainKeep, PushSlide
  <2>4. r \in Region
    BY <2>1, SlideType, EmptySeq DEF Fresh, Region, TypeOK, ResultsTypeOK
  <2>5. r.base = regions[i].base
    BY <2>1 DEF KeptInv, Fresh
  <2>6. \A k \in DOMAIN r.slides :
          \E n \in DOMAIN regions[i].slides : regions[i].slides[n] = r.slides[k]
    BY <2>1 DEF KeptInv, Fresh
  <2> HIDE DEF r
  <2>7. newRegion'.base = r.base /\ newRegion'.slides = Append(r.slides, Slide)
    BY <2>3, <2>4 DEF Region
  <2>8. r.slides \in Seq(Nat) /\ Slide \in Nat
    BY <2>1, <2>4, SlideType DEF Region
  <2>9. \A k \in DOMAIN Append(r.slides, Slide) :
          \/ k \in DOMAIN r.slides /\ Append(r.slides, Slide)[k] = r.slides[k]
          \/ Append(r.slides, Slide)[k] = Slide
    BY <2>8, AppendProperties
  <2> QED
    BY <2>1, <2>2, <2>5, <2>6, <2>7, <2>9 DEF KeptInv
<1>3. CASE RefineLoad
  BY <1>3 DEF RefineLoad, KeptInv
<1>4. CASE RefineNext \/ Return
  BY <1>4, StartType DEF RefineNext, Unloaded, Return, KeptInv
<1>5. CASE AgainSkip \/ AgainDrop
  <2>1. CASE AgainSkip
    <3>1. newRegion = NULL /\ newRegion' = NULL
      BY <2>1 DEF AgainSkip, KeptInv
    <3> QED
      BY <3>1 DEF KeptInv
  <2>2. CASE AgainDrop
    BY <2>2 DEF AgainDrop, KeptInv, results
  <2> QED
    BY <1>5, <2>1, <2>2
<1>6. CASE EngineStep /\ op # "again"
  BY <1>6, StepShape DEF KeptInv
<1>7. CASE RefineDone \/ RefineNull \/ AgainFault
  BY <1>7 DEF RefineDone, Compact, RefineNull, AgainFault, Crash, KeptInv
<1>8. CASE Throw
  BY <1>8 DEF Throw, OutOfMemory, KeptInv
<1>9. CASE Game \/ UNCHANGED vars
  BY <1>9 DEF Game, GameStep, GameWrites, GameUnmaps, vars, engineVars, frame, results,
     KeptInv
<1> QED
  BY <1>1, <1>2, <1>3, <1>4, <1>5, <1>6, <1>7, <1>8, <1>9 DEF Next, Work, Crashed,
     EngineStep, ScanStep, NearMiss, NearFound, NearFault, FirstLoad, FirstLimit, FirstFound,
     FirstExhausted, FirstDone, GroupFound, GroupMiss, GroupDone, GroupNull, EditNull,
     EditSlide, EditNext, EditDone, Editing

(* The addresses listed, by region and index.                              *)
Shows(a) == \E n \in DOMAIN regions : /\ regions[n] # NULL
                                      /\ \E k \in DOMAIN regions[n].slides :
                                           a = Address(regions[n], k)
ListedShows == \A a : a \in Listed <=> Shows(a)

LEMMA ListedDef == ListedShows
<1> SUFFICES ASSUME NEW a PROVE a \in Listed <=> Shows(a)
  BY DEF ListedShows
<1>1. ASSUME a \in Listed PROVE Shows(a)
  <2>1. PICK s \in Slots : a = SlotAddress(s)
    BY <1>1 DEF Listed
  <2>2. PICK n \in DOMAIN regions : /\ regions[n] # NULL
                                    /\ s \in {<<n, k>> : k \in DOMAIN regions[n].slides}
    BY <2>1 DEF Slots
  <2>3. PICK k \in DOMAIN regions[n].slides : s = <<n, k>>
    BY <2>2
  <2> QED
    BY <2>1, <2>2, <2>3 DEF SlotAddress, Shows
<1>2. ASSUME NEW n \in DOMAIN regions, regions[n] # NULL,
             NEW k \in DOMAIN regions[n].slides, a = Address(regions[n], k)
      PROVE  a \in Listed
  <2>1. <<n, k>> \in Slots
    BY <1>2 DEF Slots
  <2>2. SlotAddress(<<n, k>>) = a
    BY <1>2 DEF SlotAddress
  <2> QED
    BY <2>1, <2>2 DEF Listed
<1> QED
  BY <1>1, <1>2 DEF Shows

(* A list of which every region is kept, shrunk or dropped shows no more.  *)
LEMMA ShowsLess ==
  ASSUME \A n \in DOMAIN regions' : regions'[n] # NULL =>
           \E m \in DOMAIN regions :
             /\ regions[m] # NULL
             /\ regions'[n].base = regions[m].base
             /\ \A k \in DOMAIN regions'[n].slides :
                  \E l \in DOMAIN regions[m].slides :
                    regions[m].slides[l] = regions'[n].slides[k]
  PROVE  Listed' \subseteq Listed
<1>1. ListedShows'
  BY ListedDef, PTL
<1>2. \A a : Shows(a)' => Shows(a)
  BY DEF Shows, Address
<1> QED
  BY <1>1, <1>2, ListedDef DEF ListedShows

LEMMA ShrinkNext ==
  ASSUME TypeOK, ScanInv, KeptInv, [Next]_vars,
         firstSearchDone, op \in {"first", "again"}
  PROVE  Listed' \subseteq Listed
<1>1. op = "again"
  BY DEF ScanInv
<1>2. regions \in Seq(Region \cup {NULL})
  BY DEF TypeOK, ResultsTypeOK
<1>3. CASE UNCHANGED regions
  BY <1>3, ShowsLess
<1>4. CASE RefineLoad
  BY <1>4, <1>2, ShowsLess DEF RefineLoad, ReplaceRegion
<1>5. CASE RefineNext
  <2>1. i \in DOMAIN regions /\ regions[i] # NULL
    BY <1>5 DEF RefineNext, Refining, TypeOK, LoopTypeOK
  <2>2. regions' = [regions EXCEPT ![i] = newRegion]
    BY <1>5 DEF RefineNext, ReplaceRegion
  <2> QED
    BY <1>1, <2>1, <2>2, ShowsLess DEF KeptInv
<1>6. CASE RefineDone
  <2>1. PICK g \in Sorted({n \in DOMAIN regions : regions[n] # NULL}) :
          regions' = [n \in DOMAIN g |-> regions[g[n]]]
    BY <1>6 DEF RefineDone, Compact
  <2>2. \A n \in DOMAIN g : g[n] \in DOMAIN regions /\ regions[g[n]] # NULL
    BY <2>1 DEF Sorted
  <2> QED
    BY <2>1, <2>2, ShowsLess
<1> QED
  BY <1>1, <1>3, <1>4, <1>5, <1>6 DEF Next, Work, Crashed, EngineStep, ScanStep, Call,
     SearchNumber, SearchNearby, SearchGroup, EditAll, SetFloatTolerance, ClearResults,
     GetResults, Return, Throw, OutOfMemory, Game, GameStep, GameWrites, GameUnmaps,
     vars, engineVars, results, FirstLoad, FirstLimit, FirstFound, FirstExhausted,
     FirstDone, RefineNull, AgainSkip, AgainKeep, AgainDrop, AgainFault, Crash,
     NearMiss, NearFound, NearFault, GroupFound, GroupMiss, GroupDone, GroupNull,
     EditNull, EditSlide, EditNext, EditDone, Editing

(* Once a search was done, searchNumber only takes results away, in a      *)
(* session without group searches that does not run out of memory.         *)
THEOREM ImproveShrinks ==
  ASSUME "nomem" \notin Faults, GroupQueries = {}
  PROVE  Spec => RefineOnlyShrinks
<1>1. Init => SessionInv /\ ScanInv /\ KeptInv
  BY DEF Init, Construct, SessionInv, SessionFresh, ScanInv, KeptInv
<1>2. TypeOK /\ SessionInv /\ ScanInv /\ KeptInv /\ [Next]_vars
        => SessionInv' /\ ScanInv' /\ KeptInv'
  BY SessionNext, ScanNext, KeptNext
<1>3. TypeOK /\ ScanInv /\ KeptInv /\ [Next]_vars
        => [firstSearchDone /\ op \in {"first", "again"} => Listed' \subseteq Listed]_vars
  BY ShrinkNext
<1> QED
  BY <1>1, <1>2, <1>3, TypeCorrect, PTL DEF Spec, RefineOnlyShrinks

-----------------------------------------------------------------------------
(* The shape of the regions.                                               *)

(* A region, or the null pointer, has a result at a slide.                 *)
HasSlide(r, s) == r # NULL /\ \E k \in DOMAIN r.slides : r.slides[k] = s

LEMMA SlideNat ==
  ASSUME NEW r \in Region, NEW s, HasSlide(r, s)
  PROVE  s \in Nat
BY SlidesType DEF HasSlide

(* A result pushed on the region under construction is the only new one.   *)
LEMMA PushShape ==
  ASSUME TypeOK, NEW base \in Nat, NEW size \in Nat, NEW slide \in Nat,
         PushSlide(base, size, slide)
  PROVE  /\ newRegion' \in Region /\ newRegion' # NULL
         /\ newRegion = NULL => newRegion'.base = base /\ newRegion'.size = size
         /\ newRegion # NULL => /\ newRegion'.base = newRegion.base
                                /\ newRegion'.size = newRegion.size
         /\ \A s : HasSlide(newRegion', s) <=> s = slide \/ HasSlide(newRegion, s)
<1> DEFINE r == IF newRegion = NULL THEN Fresh(base, size) ELSE newRegion
<1>1. r \in Region
  BY EmptySeq DEF Fresh, Region, TypeOK, ResultsTypeOK
<1>2. newRegion' = [r EXCEPT !.slides = Append(r.slides, slide)]
  BY DEF PushSlide
<1>3. /\ newRegion = NULL => r.base = base /\ r.size = size
      /\ newRegion # NULL => r = newRegion
  BY DEF Fresh
<1>4. \A s : (\E k \in DOMAIN r.slides : r.slides[k] = s) <=> HasSlide(newRegion, s)
  BY DEF HasSlide, Fresh
<1> HIDE DEF r
<1>5. newRegion' \in Region /\ newRegion' # NULL
  BY PushType, NullIsNoRegion
<1>6. /\ newRegion'.base = r.base /\ newRegion'.size = r.size
      /\ newRegion'.slides = Append(r.slides, slide)
  BY <1>1, <1>2 DEF Region
<1>7. r.slides \in Seq(Nat)
  BY <1>1 DEF Region
<1>8. \A s : (\E k \in DOMAIN Append(r.slides, slide) : Append(r.slides, slide)[k] = s)
               <=> s = slide \/ \E k \in DOMAIN r.slides : r.slides[k] = s
  <2>1. Len(r.slides) \in Nat /\ DOMAIN r.slides = 1 .. Len(r.slides)
    BY <1>7, LenProperties
  <2>2. /\ DOMAIN Append(r.slides, slide) = 1 .. (Len(r.slides) + 1)
        /\ Append(r.slides, slide)[Len(r.slides) + 1] = slide
        /\ \A k \in 1 .. Len(r.slides) : Append(r.slides, slide)[k] = r.slides[k]
    BY <1>7, <2>1, AppendProperties
  <2> QED
    BY <2>1, <2>2, SMTT(30)
<1> QED
  BY <1>3, <1>4, <1>5, <1>6, <1>8, ZenonT(60) DEF HasSlide

(* The slides of a window are new, and the only new ones.                  *)
LEMMA PushFoundShape ==
  ASSUME TypeOK, AtSlide, NEW keys, IsFiniteSet(keys), keys \subseteq Nat,
         NEW partners, PushFound(keys, partners)
  PROVE  /\ newRegion' \in Region /\ newRegion' # NULL
         /\ newRegion = NULL => /\ newRegion'.base = regions[i].base
                                /\ newRegion'.size = regions[i].size
         /\ newRegion # NULL => /\ newRegion'.base = newRegion.base
                                /\ newRegion'.size = newRegion.size
         /\ \A s : HasSlide(newRegion', s) => s \in keys \/ HasSlide(newRegion, s)
<1> DEFINE r == IF newRegion = NULL THEN Fresh(regions[i].base, regions[i].size)
                ELSE newRegion
<1>1. r \in Region
  BY SlideType, EmptySeq DEF Fresh, Region, TypeOK, ResultsTypeOK
<1>2. PICK g \in Sorted(keys) : \E ty \in [DOMAIN g -> Types \cup {NoType}] :
        newRegion' = [r EXCEPT !.slides = @ \o g,
                               !.types = IF NeedType THEN @ \o ty ELSE @]
  BY DEF PushFound
<1> PICK ty \in [DOMAIN g -> Types \cup {NoType}] :
        newRegion' = [r EXCEPT !.slides = @ \o g,
                               !.types = IF NeedType THEN @ \o ty ELSE @]
  BY <1>2
<1>3. newRegion' = [r EXCEPT !.slides = r.slides \o g,
                             !.types = IF NeedType THEN r.types \o ty ELSE r.types]
  OBVIOUS
<1>4. /\ newRegion = NULL => r.base = regions[i].base /\ r.size = regions[i].size
      /\ newRegion # NULL => r = newRegion
  BY DEF Fresh
<1>5. \A s : (\E k \in DOMAIN r.slides : r.slides[k] = s) => HasSlide(newRegion, s)
  BY DEF HasSlide, Fresh
<1> HIDE DEF r
<1>6. newRegion' \in Region /\ newRegion' # NULL
  BY PushFoundType, NullIsNoRegion
<1>7. /\ newRegion'.base = r.base /\ newRegion'.size = r.size
      /\ newRegion'.slides = r.slides \o g
  BY <1>1, <1>3 DEF Region
<1>8. r.slides \in Seq(Nat) /\ g \in Seq(keys) /\ g \in Seq(Nat)
  BY <1>1, SortedSeq, SeqMonotonic DEF Region
<1>9. \A k \in DOMAIN (r.slides \o g) :
        \/ k \in DOMAIN r.slides /\ (r.slides \o g)[k] = r.slides[k]
        \/ (r.slides \o g)[k] \in keys
  <2>1. /\ Len(r.slides) \in Nat /\ DOMAIN r.slides = 1 .. Len(r.slides)
        /\ Len(g) \in Nat /\ DOMAIN g = 1 .. Len(g)
    BY <1>8, LenProperties
  <2>2. /\ DOMAIN (r.slides \o g) = 1 .. (Len(r.slides) + Len(g))
        /\ \A k \in 1 .. (Len(r.slides) + Len(g)) :
             (r.slides \o g)[k] = IF k <= Len(r.slides) THEN r.slides[k]
                                  ELSE g[k - Len(r.slides)]
    BY <1>8, <2>1, ConcatProperties, LenProperties
  <2>3. \A k \in 1 .. Len(g) : g[k] \in keys
    BY <1>8, ElementOfSeq
  <2> QED
    BY <2>1, <2>2, <2>3
<1>10. ASSUME NEW s, HasSlide(newRegion', s)
       PROVE  s \in keys \/ HasSlide(newRegion, s)
  <2>1. PICK k \in DOMAIN (r.slides \o g) : (r.slides \o g)[k] = s
    BY <1>7, <1>10 DEF HasSlide
  <2> QED
    BY <1>5, <1>9, <2>1
<1> QED
  BY <1>4, <1>6, <1>7, <1>10

(* An enumeration of a set in ascending order leaves out none of it.       *)
LEMMA SortedOnto ==
  ASSUME NEW K, IsFiniteSet(K), K \subseteq Nat, NEW g \in Sorted(K)
  PROVE  \A x \in K : \E n \in DOMAIN g : g[n] = x
<1> DEFINE c == Cardinality(K)
<1>1. /\ g \in [1 .. c -> K] /\ c \in Nat
      /\ \A m, n \in 1 .. c : m < n => g[m] < g[n]
  BY FS_CardinalityType DEF Sorted
<1>2. IsFiniteSet(1 .. c) /\ Cardinality(1 .. c) = c
  BY <1>1, FS_Interval
<1> HIDE DEF c
<1>3. \A m, n \in 1 .. c : g[m] = g[n] => m = n
  <2> SUFFICES ASSUME NEW m \in 1 .. c, NEW n \in 1 .. c, g[m] = g[n], m # n PROVE FALSE
    OBVIOUS
  <2>1. m \in Nat /\ n \in Nat
    BY <1>1
  <2>2. g[m] \in K /\ g[n] \in K
    BY <1>1
  <2>3. g[m] \in Nat /\ g[n] \in Nat
    BY <2>2
  <2>4. m < n \/ n < m
    BY <2>1
  <2>5. g[m] < g[n] \/ g[n] < g[m]
    BY <1>1, <2>4
  <2> QED
    BY <2>3, <2>5
<1>4. g \in Injection(1 .. c, K)
  BY <1>1, <1>3 DEF Injection, IsInjective
<1>5. g \in Surjection(1 .. c, K)
  BY <1>2, <1>4, FS_Injection DEF c
<1> QED
  BY <1>1, <1>5 DEF Surjection

LEMMA OneCurrent ==
  ASSUME TypeOK, NEW b, Current(b), NEW c, Current(c)
  PROVE  b = c
BY DEF Current, TypeOK, LoopTypeOK


-----------------------------------------------------------------------------
(* The regions that a search meets.  ScanAgain skips a region of the list  *)
(* that lies outside its range: it stays in the list, uncounted and with   *)
(* the types it had.  Where all searches meet the same regions, none is    *)
(* skipped.                                                                *)
Meets(b, range) == b < range.end /\ range.start < b + Size[b]

(* No range starts inside a region, and all have the same regions in them. *)
SameRegions ==
  \A query \in NumberQueries : \A b \in Writable \ Stack :
    /\ b < query.range.start => b + Size[b] <= query.range.start
    /\ Meets(b, query.range) => \A p2 \in NumberQueries : Meets(b, p2.range)

Met(r) == /\ r.base \in Writable \ Stack
          /\ \A query \in NumberQueries : Meets(r.base, query.range)
MetInv ==
  /\ \A b \in Bases : /\ vmsize[b] <= Size[b] /\ cache[b] <= Size[b]
                      /\ cache[b] > 0 => b \in Writable \ Stack
  /\ op = "first" =>
       /\ q \in NumberQueries
       /\ \A b \in todo : /\ b \in Bases /\ cache[b] > 0
                          /\ Current(b) => mapsize <= Size[b]
  /\ op = "again" => q \in NumberQueries
  /\ \A n \in DOMAIN regions : regions[n] # NULL => Met(regions[n])
  /\ newRegion # NULL /\ op \in {"first", "again", "near"} => Met(newRegion)

LEMMA InitMet == Init => MetInv
<1> SUFFICES ASSUME Init PROVE MetInv
  OBVIOUS
<1>1. /\ vmsize = Size /\ cache = [b \in Bases |-> 0] /\ op = "idle" /\ regions = <<>>
  BY DEF Init, Construct
<1> QED
  BY <1>1, MemoryAssumption DEF MetInv

(* Steps that leave the list and the regions alone, out of the loops.      *)
LEMMA MetKept ==
  ASSUME MetInv, UNCHANGED <<regions, cache, vmsize>>, op' \notin {"first", "again", "near"}
  PROVE  MetInv'
BY DEF MetInv, Met, Meets

LEMMA MetCall ==
  ASSUME GroupQueries = {}, TypeOK, MetInv, Call
  PROVE  MetInv'
<1>1. ASSUME NEW query \in NumberQueries, SearchNumber(query) PROVE MetInv'
  <2>1. /\ q' = query /\ op' \in {"first", "again"} /\ newRegion' = NULL /\ mapsize' = 0
        /\ UNCHANGED <<regions, vmsize>>
    BY <1>1, StartType DEF SearchNumber, JJScanMemory, results, target
  <2>2. \/ op' = "again" /\ cache' = cache
        \/ /\ op' = "first" /\ todo' = {b \in Bases : cache'[b] > 0}
           /\ cache' = [b \in Bases |-> IF b \in Visited(query.range) \cap (Writable \ Stack)
                                        THEN vmsize[b] ELSE cache[b]]
    BY <1>1 DEF SearchNumber, JJScanMemory
  <2>3. \A b \in Bases : /\ vmsize[b] <= Size[b] /\ cache'[b] <= Size[b]
                         /\ cache'[b] > 0 => b \in Writable \ Stack
    BY <2>2 DEF MetInv
  <2>4. \A b \in Bases : 0 <= Size[b]
    BY MemoryAssumption
  <2> QED
    BY <2>1, <2>2, <2>3, <2>4 DEF MetInv, Met, Meets
<1>2. ASSUME NEW query \in NearQueries, SearchNearby(query) PROVE MetInv'
  <2>1. op' = "near" /\ newRegion' = NULL /\ UNCHANGED <<regions, cache, vmsize>>
    BY <1>2, StartType DEF SearchNearby, JJNearBySearch, results, settings, target
  <2> QED
    BY <2>1 DEF MetInv, Met, Meets
<1>3. ASSUME NEW query \in EditQueries, EditAll(query) PROVE MetInv'
  BY <1>3, MetKept DEF EditAll, JJWriteAll, results, settings, target
<1>4. ASSUME NEW d \in Tolerances, SetFloatTolerance(d) PROVE MetInv'
  BY <1>4, MetKept DEF SetFloatTolerance, results, target
<1>5. CASE ClearResults
  <2>1. /\ op' = "idle" /\ regions' = <<>> /\ cache' = [b \in Bases |-> 0]
        /\ vmsize' = vmsize
    BY <1>5 DEF ClearResults, Reconstruct, target
  <2> QED
    BY <2>1, MemoryAssumption DEF MetInv
<1>6. CASE GetResults
  BY <1>6, MetKept DEF GetResults, Crash, results, settings, target
<1> QED
  BY <1>1, <1>2, <1>3, <1>4, <1>5, <1>6 DEF Call

(* A first search lists a region with a place in its range, so all meet it. *)
LEMMA MetFirst ==
  ASSUME SameRegions, TypeOK, MetInv, UNCHANGED vmsize, NEW b \in Bases,
         FirstLoad(b) \/ FirstLimit(b) \/ FirstFound(b) \/ FirstExhausted(b)
  PROVE  MetInv'
<1>1. op = "first" /\ op' = op /\ q' = q /\ cache' = cache /\ Current(b) /\ b \in todo
  BY DEF FirstLoad, FirstLimit, FirstFound, FirstExhausted, settings, Current
<1>2. /\ b \in Writable \ Stack /\ b \in Nat /\ Size[b] \in Nat /\ cache[b] <= Size[b]
      /\ mapsize <= Size[b] /\ q \in NumberQueries
  BY <1>1, MemoryAssumption DEF MetInv
<1>3. regions \in Seq(Region \cup {NULL}) /\ newRegion \in Region \cup {NULL}
  BY DEF TypeOK, ResultsTypeOK
<1>4. CASE FirstLoad(b)
  <2>1. /\ UNCHANGED <<regions, newRegion>> /\ todo' \subseteq todo
        /\ mapsize' = mapsize \/ mapsize' <= Size[b]
    <3>1. cache[b] \in Nat
      BY DEF TypeOK, FieldsTypeOK
    <3> QED
      BY <1>2, <1>4, <3>1, LoadType DEF FirstLoad, results
  <2>2. ASSUME NEW c \in todo', Current(c)' PROVE mapsize' <= Size[c]
    <3>1. CASE todo' = todo
      <4>1. c = b
        BY <1>1, <2>2, <3>1, OneCurrent DEF Current
      <4> QED
        BY <1>2, <2>1, <4>1
    <3>2. CASE todo' # todo
      <4>1. mapsize' = 0
        BY <1>4, <3>2 DEF FirstLoad
      <4>2. c \in Bases /\ Size[c] \in Nat
        BY <1>1, <2>1, MemoryAssumption DEF MetInv
      <4> QED
        BY <4>1, <4>2
    <3> QED
      BY <3>1, <3>2
  <2> QED
    BY <1>1, <2>1, <2>2 DEF MetInv, Met, Meets
<1>5. CASE FirstLimit(b) \/ FirstExhausted(b)
  <2>1. /\ regions' = IF newRegion = NULL THEN regions ELSE Append(regions, newRegion)
        /\ todo' = todo \ {b} /\ mapsize' = 0 /\ newRegion' = NULL
    BY <1>5 DEF FirstLimit, FirstExhausted, LeaveRegion, Unloaded
  <2>2. \A n \in DOMAIN regions' : regions'[n] # NULL => Met(regions'[n])
    BY <1>1, <1>3, <2>1, AppendProperties DEF MetInv
  <2>3. \A c \in todo' : c \in Bases /\ cache[c] > 0 /\ mapsize' <= Size[c]
    BY <1>1, <2>1, MemoryAssumption DEF MetInv
  <2> QED
    BY <1>1, <2>1, <2>2, <2>3 DEF MetInv, Met, Meets
<1>6. CASE FirstFound(b)
  <2>1. UNCHANGED <<regions, todo, mapsize>>
    BY <1>6 DEF FirstFound
  <2>2. PICK p \in FirstHits(b) : InRange(b + p, q.range) /\ PushSlide(b, mapsize, p)
    BY <1>6 DEF FirstFound
  <2>3. p \in Nat /\ p < Size[b] /\ mapsize \in Nat
    <3>1. TypeLen[q.type] \in Nat \ {0} /\ j \in Nat /\ mapsize \in Nat
      BY <1>2, TypesAssumption, QueriesAssumption DEF NumberCall, TypeOK, LoopTypeOK
    <3>2. p \in j .. (mapsize - TypeLen[q.type])
      BY DEF FirstHits, Strides
    <3> QED
      BY <1>2, <3>1, <3>2
  <2>4. q.range.start \in Nat /\ q.range.end \in Nat
    BY <1>2, QueriesAssumption DEF NumberCall, AddrRange
  <2>5. Meets(b, q.range)
    BY <1>2, <2>2, <2>3, <2>4 DEF InRange, Meets
  <2>6. \A query \in NumberQueries : Meets(b, query.range)
    BY <1>2, <2>5 DEF SameRegions
  <2>7. IF newRegion = NULL THEN newRegion'.base = b ELSE newRegion'.base = newRegion.base
    BY <1>2, <2>2, <2>3, PushShape
  <2>8. Met(newRegion')
    BY <1>1, <1>2, <2>6, <2>7 DEF MetInv, Met
  <2> QED
    BY <1>1, <2>1, <2>8 DEF MetInv, Met, Meets, Current
<1> QED
  BY <1>4, <1>5, <1>6

(* A region in place of another has the same base.                         *)
LEMMA MetRefine ==
  ASSUME TypeOK, MetInv, UNCHANGED vmsize,
         \/ AgainSkip \/ RefineLoad \/ RefineNext \/ RefineDone
         \/ AgainKeep \/ AgainDrop \/ NearMiss \/ NearFound
  PROVE  MetInv'
<1>1. /\ op \in {"again", "near"} /\ op' \in {op, "return"} /\ UNCHANGED <<q, cache>>
  BY DEF AgainSkip, RefineLoad, RefineNext, RefineDone, Compact, Refining, AgainKeep,
     AgainDrop, NearMiss, NearFound, settings
<1>2. ASSUME /\ \A n \in DOMAIN regions' : regions'[n] # NULL => Met(regions'[n])
             /\ newRegion' # NULL => Met(newRegion')
      PROVE  MetInv'
  BY <1>1, <1>2 DEF MetInv, Met, Meets
<1>3. \A n \in DOMAIN regions : regions[n] # NULL => Met(regions[n])
  BY DEF MetInv
<1>4. newRegion # NULL => Met(newRegion)
  BY <1>1 DEF MetInv
<1>5. CASE AgainSkip \/ AgainDrop \/ NearMiss
  BY <1>2, <1>3, <1>4, <1>5 DEF AgainSkip, AgainDrop, NearMiss, results
<1>6. CASE AgainKeep \/ NearFound
  <2>1. /\ AtSlide /\ regions' = regions /\ i \in DOMAIN regions /\ regions[i] # NULL
        /\ op = "near" \/ ~NearFound
    BY <1>6 DEF AgainKeep, NearFound, results, AtSlide, Refining, TypeOK, LoopTypeOK
  <2>2. Met(regions[i])
    BY <1>3, <2>1
  <2>3. newRegion'.base = IF newRegion = NULL THEN regions[i].base ELSE newRegion.base
    <3>1. CASE AgainKeep
      BY <2>1, <3>1, SlideType, PushShape DEF AgainKeep
    <3>2. CASE NearFound
      <4>1. PICK stray \in SUBSET Faulty :
              LET hits == WindowHits \cup stray
                  partners == Partners(hits)
              IN PushFound(hits \cup {regions[i].slides[o] : o \in partners}, partners)
        BY <3>2 DEF NearFound
      <4> DEFINE hits == WindowHits \cup stray
                 partners == Partners(hits)
                 keys == hits \cup {regions[i].slides[o] : o \in partners}
      <4>2. IsFiniteSet(keys) /\ keys \subseteq Nat
        BY <2>1, <3>2, NearKeys
      <4>3. PushFound(keys, partners)
        BY <4>1
      <4> HIDE DEF keys, partners
      <4> QED
        BY <2>1, <4>2, <4>3, PushFoundShape
    <3> QED
      BY <1>6, <3>1, <3>2
  <2>4. Met(newRegion')
    BY <1>4, <2>2, <2>3 DEF Met
  <2> QED
    BY <1>2, <1>3, <2>1, <2>4
<1>7. CASE RefineLoad
  <2>1. newRegion' = newRegion
        /\ \A n \in DOMAIN regions' :
             n \in DOMAIN regions /\ (regions'[n] = regions[n] \/ regions'[n] = NULL)
    BY <1>7 DEF RefineLoad, ReplaceRegion
  <2> QED
    BY <1>2, <1>3, <1>4, <2>1
<1>8. CASE RefineNext
  <2>1. newRegion' = NULL
        /\ \A n \in DOMAIN regions' :
             n \in DOMAIN regions /\ (regions'[n] = regions[n] \/ regions'[n] = newRegion)
    BY <1>8 DEF RefineNext, ReplaceRegion, Unloaded
  <2> QED
    BY <1>2, <1>3, <1>4, <2>1
<1>9. CASE RefineDone
  <2>1. PICK g \in Sorted({n \in DOMAIN regions : regions[n] # NULL}) :
          regions' = [n \in DOMAIN g |-> regions[g[n]]]
    BY <1>9 DEF RefineDone, Compact
  <2>2. \A n \in DOMAIN g : g[n] \in DOMAIN regions /\ regions[g[n]] # NULL
    BY <2>1 DEF Sorted
  <2>3. newRegion' = newRegion
    BY <1>9 DEF RefineDone, frame
  <2> QED
    BY <1>2, <1>3, <1>4, <2>1, <2>2, <2>3
<1> QED
  BY <1>5, <1>6, <1>7, <1>8, <1>9

LEMMA MetNext ==
  ASSUME SameRegions, GroupQueries = {}, TypeOK, ScanInv, MetInv, [Next]_vars
  PROVE  MetInv'
<1>1. CASE Call
  BY <1>1, MetCall
<1>2. CASE EngineStep
  <2>1. op # "group"
    BY DEF ScanInv
  <2>2. ASSUME FirstDone \/ RefineNull \/ AgainFault \/ NearFault, UNCHANGED target PROVE MetInv'
    BY <2>2, MetKept DEF FirstDone, RefineNull, AgainFault, NearFault, Crash, results, settings,
       target
  <2>3. ASSUME EditNull \/ EditSlide \/ EditNext \/ EditDone PROVE MetInv'
    BY <2>3, MetKept DEF EditNull, Crash, EditSlide, EditNext, EditDone, Editing, results,
       settings, target
  <2> QED
    BY <1>2, <2>1, <2>2, <2>3, MetFirst, MetRefine DEF EngineStep, ScanStep, target,
       GroupFound, GroupMiss, GroupDone, GroupNull
<1>3. CASE Return \/ Throw
  BY <1>3, MetKept DEF Return, Throw, OutOfMemory, results, settings, target
<1>4. CASE Game \/ UNCHANGED vars
  <2>1. UNCHANGED engineVars
    BY <1>4 DEF Game, GameStep, GameWrites, GameUnmaps, vars
  <2>2. \A b \in Bases : vmsize'[b] <= Size[b]
    <3>1. CASE vmsize' = vmsize
      BY <3>1 DEF MetInv
    <3>2. ASSUME NEW b \in Bases, NEW n \in 0 .. Size[b],
                 vmsize' = [vmsize EXCEPT ![b] = n]
          PROVE  \A c \in Bases : vmsize'[c] <= Size[c]
      BY <3>2, MemoryAssumption DEF MetInv, TypeOK, GameTypeOK
    <3> QED
      BY <1>4, <3>1, <3>2 DEF Game, GameStep, GameWrites, GameUnmaps, vars, target
  <2> QED
    BY <2>1, <2>2 DEF engineVars, results, settings, frame, MetInv, Met, Meets, Current
<1> QED
  BY <1>1, <1>2, <1>3, <1>4 DEF Next, Work, Crashed

(* No search skips a region of the list.                                   *)
LEMMA NeverSkips ==
  ASSUME SameRegions, TypeOK, MetInv
  PROVE  ~AgainSkip
<1> SUFFICES ASSUME AgainSkip PROVE FALSE
  OBVIOUS
<1>1. /\ i \in DOMAIN regions /\ regions[i] # NULL /\ OutOfRange(regions[i], q.range)
      /\ q \in NumberQueries
  BY DEF AgainSkip, Refining, MetInv
<1>2. Met(regions[i]) /\ regions[i] \in Region
  BY <1>1, ElementOfSeq DEF MetInv, TypeOK, ResultsTypeOK
<1>3. /\ regions[i].base \in Nat /\ regions[i].size \in Nat /\ Size[regions[i].base] \in Nat
      /\ q.range.start \in Nat /\ q.range.end \in Nat
  BY <1>1, <1>2, MemoryAssumption, QueriesAssumption DEF Met, Region, NumberCall, AddrRange
<1>4. Meets(regions[i].base, q.range)
  BY <1>1, <1>2 DEF Met
<1>5. ~(regions[i].base < q.range.start)
  BY <1>1, <1>2, <1>3, <1>4 DEF Met, Meets, SameRegions
<1> QED
  BY <1>1, <1>3, <1>4, <1>5 DEF OutOfRange, Meets
=============================================================================
