---------------------------- MODULE H5gg_proofs ----------------------------
(***************************************************************************)
(* Theorems about H5gg, for every memory, every set of calls and every     *)
(* combination of faults.                                                  *)
(***************************************************************************)
EXTENDS H5gg, FiniteSetTheorems, SequenceTheorems, TLAPS

USE MemoryAssumption, TypesAssumption

(* An enumeration of a finite set of numbers is a sequence of its members. *)
LEMMA SortedSeq ==
  ASSUME NEW K, IsFiniteSet(K), NEW g \in Sorted(K)
  PROVE  g \in Seq(K)
<1>1. Cardinality(K) \in Nat
  BY FS_CardinalityType
<1> QED
  BY <1>1 DEF Sorted

(* Finitely many numbers lie below a bound.                                *)
LEMMA FiniteBelow ==
  ASSUME NEW n \in Nat, NEW K, K \subseteq 0 .. n
  PROVE  IsFiniteSet(K) /\ K \subseteq Nat
<1>1. IsFiniteSet(0 .. n)
  BY FS_Interval
<1>2. IsFiniteSet(K)
  BY <1>1, FS_Subset
<1> QED
  BY <1>2

(* The null pointers of a list can be told from its regions.               *)
LEMMA NullIsNoRegion == NULL \notin Region
  BY DEF Region

LEMMA AddrNat == Addr \subseteq Nat
  BY DEF Addr

(* Every slide of a region is a number, and so is every address in it.     *)
LEMMA SlidesType ==
  ASSUME NEW r \in Region, NEW k \in DOMAIN r.slides
  PROVE  r.slides[k] \in Nat /\ Address(r, k) \in Nat
<1>1. r.slides \in Seq(Nat) /\ r.base \in Nat
  BY DEF Region
<1>2. k \in 1 .. Len(r.slides)
  BY <1>1, LenProperties
<1>3. r.slides[k] \in Nat
  BY <1>1, <1>2, ElementOfSeq
<1> QED
  BY <1>1, <1>3 DEF Address

(* Every item of a group search has a type and an offset.                  *)
LEMMA ItemsType ==
  ASSUME NEW query \in GroupCall, NEW n \in DOMAIN query.items
  PROVE  query.items[n].type \in Types /\ query.items[n].offset \in Nat
<1> DEFINE Item == [type: Types, want: Interval, offset: Nat]
<1>1. query.items \in Seq(Item)
  BY DEF GroupCall
<1>2. n \in 1 .. Len(query.items)
  BY <1>1, LenProperties
<1>3. query.items[n] \in Item
  <2> HIDE DEF Item
  <2> QED
    BY <1>1, <1>2, ElementOfSeq
<1> QED
  BY <1>3

(* Compact leaves a list of regions without null pointers.                 *)
LEMMA CompactType ==
  ASSUME regions \in Seq(Region \cup {NULL}), Compact
  PROVE  regions' \in Seq(Region)
<1> DEFINE Kept == {n \in DOMAIN regions : regions[n] # NULL}
<1>1. PICK g \in Sorted(Kept) : regions' = [n \in DOMAIN g |-> regions[g[n]]]
  BY DEF Compact
<1>2. IsFiniteSet(Kept)
  <2>1. IsFiniteSet(1 .. Len(regions))
    BY FS_Interval
  <2> QED BY <2>1, FS_Subset
<1>3. g \in Seq(Kept)
  BY <1>2, SortedSeq
<1>4. \A n \in DOMAIN g : regions[g[n]] \in Region
  BY <1>3
<1>5. DOMAIN g = 1 .. Len(g) /\ Len(g) \in Nat
  BY <1>3, LenProperties
<1>6. regions' \in [1 .. Len(g) -> Region]
  BY <1>1, <1>4, <1>5
<1> QED
  BY <1>5, <1>6, SeqDef

-----------------------------------------------------------------------------
(* Type correctness, action by action.                                     *)

LEMMA StartType ==
  ASSUME StartFrame
  PROVE  /\ i' = 1 /\ j' = 0 /\ mapsize' = 0 /\ newCount' = 0 /\ newRegion' = NULL
         /\ lastpos' = 0 /\ lastold' = 0
  BY DEF StartFrame, Unloaded

(* What an action leaves alone keeps its type.                             *)
LEMMA GameKept == TypeOK /\ UNCHANGED target => GameTypeOK'
  BY DEF TypeOK, GameTypeOK, target

LEMMA ResultsKept ==
  TypeOK /\ UNCHANGED <<results, newRegion, newCount, matched>> => ResultsTypeOK'
  BY DEF TypeOK, ResultsTypeOK, results

LEMMA FieldsKept ==
  TypeOK /\ UNCHANGED <<settings, memoryLimitReached, session>> => FieldsTypeOK'
  BY DEF TypeOK, FieldsTypeOK, settings, session

(* Every state the object starts in is well typed.                         *)
LEMMA InitType == Init => TypeOK
<1> SUFFICES ASSUME Init PROVE TypeOK
  OBVIOUS
<1> USE DEF Init, Construct
<1>1. GameTypeOK
  BY DEF GameTypeOK
<1>2. ResultsTypeOK
  <2>1. regions \in Seq(Region \cup {NULL})
    BY EmptySeq
  <2> QED
    BY <2>1 DEF ResultsTypeOK
<1>3. FieldsTypeOK
  BY DEF FieldsTypeOK
<1>4. LoopTypeOK
  BY DEF LoopTypeOK
<1>5. CallTypeOK
  BY DEF CallTypeOK, Ops
<1> QED
  BY <1>1, <1>2, <1>3, <1>4, <1>5 DEF TypeOK

LEMMA SearchNumberType ==
  ASSUME TypeOK, NEW query \in NumberQueries, SearchNumber(query)
  PROVE  TypeOK'
<1> USE QueriesAssumption DEF SearchNumber, JJScanMemory
<1>1. GameTypeOK'
  BY GameKept
<1>2. ResultsTypeOK'
  BY StartType DEF TypeOK, ResultsTypeOK, results
<1>3. FieldsTypeOK'
  <2>1. cache' \in [Bases -> Nat]
    BY DEF TypeOK, FieldsTypeOK, GameTypeOK
  <2> QED
    BY <2>1 DEF TypeOK, FieldsTypeOK, NumberCall, session
<1>4. LoopTypeOK'
  <2>1. todo' \subseteq Nat
    BY DEF TypeOK, LoopTypeOK
  <2> QED
    BY <2>1, StartType DEF TypeOK, LoopTypeOK
<1>5. CallTypeOK'
  BY DEF TypeOK, CallTypeOK, Ops
<1> QED
  BY <1>1, <1>2, <1>3, <1>4, <1>5 DEF TypeOK

LEMMA SearchNearbyType ==
  ASSUME TypeOK, NEW query \in NearQueries, SearchNearby(query)
  PROVE  TypeOK'
<1> USE QueriesAssumption DEF SearchNearby, JJNearBySearch
<1>1. GameTypeOK'
  BY GameKept
<1>2. ResultsTypeOK'
  BY StartType DEF TypeOK, ResultsTypeOK, results
<1>3. FieldsTypeOK'
  BY FieldsKept
<1>4. LoopTypeOK'
  BY StartType DEF TypeOK, LoopTypeOK
<1>5. CallTypeOK'
  BY DEF TypeOK, CallTypeOK, Ops
<1> QED
  BY <1>1, <1>2, <1>3, <1>4, <1>5 DEF TypeOK

LEMMA SearchGroupType ==
  ASSUME TypeOK, NEW query \in GroupQueries, SearchGroup(query)
  PROVE  TypeOK'
<1> USE QueriesAssumption DEF SearchGroup, JJGroupSearch
<1>1. GameTypeOK'
  BY GameKept
<1>2. ResultsTypeOK'
  BY StartType DEF TypeOK, ResultsTypeOK, results
<1>3. FieldsTypeOK'
  BY FieldsKept
<1>4. PICK anchor \in Anchors(query) :
        /\ q' = [query EXCEPT !.anchor = anchor]
        /\ todo' = AnchorMatches(query, anchor)
  OBVIOUS
<1>5. anchor \in DOMAIN query.items /\ anchor \in Int
  BY DEF Anchors, GroupCall
<1>6. q' \in GroupCall /\ q'.anchor \in DOMAIN q'.items
  BY <1>4, <1>5, ZenonT(60) DEF GroupCall
<1>7. LoopTypeOK'
  <2>1. todo' \subseteq Nat
    BY <1>4, AddrNat DEF AnchorMatches
  <2> QED
    BY <2>1, StartType DEF TypeOK, LoopTypeOK
<1>8. CallTypeOK'
  BY <1>6 DEF TypeOK, CallTypeOK, Ops
<1> QED
  BY <1>1, <1>2, <1>3, <1>7, <1>8 DEF TypeOK

LEMMA EditAllType ==
  ASSUME TypeOK, NEW query \in EditQueries, EditAll(query)
  PROVE  TypeOK'
<1> USE QueriesAssumption DEF EditAll, JJWriteAll
<1>1. GameTypeOK'
  BY GameKept
<1>2. ResultsTypeOK'
  BY StartType DEF TypeOK, ResultsTypeOK, results
<1>3. FieldsTypeOK'
  BY FieldsKept
<1>4. LoopTypeOK'
  BY StartType DEF TypeOK, LoopTypeOK
<1>5. CallTypeOK'
  BY DEF TypeOK, CallTypeOK, Ops
<1> QED
  BY <1>1, <1>2, <1>3, <1>4, <1>5 DEF TypeOK

LEMMA SettingType ==
  ASSUME TypeOK, \/ \E d \in Tolerances : SetFloatTolerance(d)
                 \/ ClearResults \/ GetResults
  PROVE  TypeOK'
<1>1. ASSUME NEW d \in Tolerances, SetFloatTolerance(d) PROVE TypeOK'
  <2> USE <1>1, TolerancesAssumption
          DEF SetFloatTolerance, TypeOK, frame, results, target, session
  <2>1. GameTypeOK' /\ ResultsTypeOK' /\ FieldsTypeOK'
    BY DEF GameTypeOK, ResultsTypeOK, FieldsTypeOK
  <2>2. LoopTypeOK' /\ CallTypeOK'
    BY DEF LoopTypeOK, CallTypeOK
  <2> QED
    BY <2>1, <2>2
<1>2. ASSUME ClearResults PROVE TypeOK'
  <2> USE <1>2 DEF ClearResults, Reconstruct, TypeOK, frame, target
  <2>1. regions' \in Seq(Region \cup {NULL})
    BY EmptySeq
  <2>2. GameTypeOK' /\ ResultsTypeOK' /\ FieldsTypeOK'
    BY <2>1 DEF GameTypeOK, ResultsTypeOK, FieldsTypeOK
  <2>3. LoopTypeOK' /\ CallTypeOK'
    BY DEF LoopTypeOK, CallTypeOK
  <2> QED
    BY <2>2, <2>3
<1>3. ASSUME GetResults PROVE TypeOK'
  <2> USE <1>3 DEF GetResults, Crash, TypeOK, frame, results, target, settings, session
  <2>1. GameTypeOK' /\ ResultsTypeOK' /\ FieldsTypeOK'
    BY DEF GameTypeOK, ResultsTypeOK, FieldsTypeOK
  <2>2. LoopTypeOK' /\ CallTypeOK'
    BY DEF LoopTypeOK, CallTypeOK, Ops
  <2> QED
    BY <2>1, <2>2
<1> QED
  BY <1>1, <1>2, <1>3

-----------------------------------------------------------------------------
(* FirstScan                                                               *)

(* Leaving a region appends at most the region under construction.         *)
LEMMA LeaveType ==
  ASSUME TypeOK, NEW b, LeaveRegion(b)
  PROVE  /\ regions' \in Seq(Region \cup {NULL})
         /\ todo' \subseteq Nat /\ j' = 0 /\ mapsize' = 0 /\ newRegion' = NULL
         /\ lastpos' = 0 /\ lastold' = 0
BY AppendProperties DEF LeaveRegion, Unloaded, TypeOK, ResultsTypeOK, LoopTypeOK

(* A region that gets a result is still a region.                          *)
LEMMA PushType ==
  ASSUME TypeOK, NEW base \in Nat, NEW size \in Nat, NEW slide \in Nat,
         PushSlide(base, size, slide)
  PROVE  newRegion' \in Region
<1> DEFINE r == IF newRegion = NULL THEN Fresh(base, size) ELSE newRegion
<1>1. r \in Region
  BY EmptySeq DEF Fresh, Region, TypeOK, ResultsTypeOK
<1>2. newRegion' = [r EXCEPT !.slides = Append(@, slide)]
  BY DEF PushSlide
<1>3. Append(r.slides, slide) \in Seq(Nat)
  BY <1>1, AppendProperties DEF Region
<1> QED
  BY <1>1, <1>2, <1>3 DEF Region

(* A region is mapped in from its start, and no further than its end.      *)
LEMMA LoadType ==
  ASSUME NEW base, NEW size \in Nat, NEW m \in LoadRegion(base, size)
  PROVE  m \in Nat /\ m <= size
BY DEF LoadRegion

LEMMA FirstLoadType ==
  ASSUME TypeOK, NEW b \in Bases, FirstLoad(b), UNCHANGED <<target, session>>
  PROVE  TypeOK'
<1> USE DEF FirstLoad
<1>1. GameTypeOK' /\ FieldsTypeOK' /\ ResultsTypeOK'
  BY GameKept, FieldsKept, ResultsKept
<1>2. mapsize' \in Nat /\ todo' \subseteq Nat
  <2>1. cache[b] \in Nat
    BY DEF TypeOK, FieldsTypeOK
  <2>2. mapsize' \in LoadRegion(b, cache[b]) => mapsize' \in Nat
    BY <2>1, LoadType
  <2> QED
    BY <2>2 DEF TypeOK, LoopTypeOK
<1>3. LoopTypeOK' /\ CallTypeOK'
  BY <1>2 DEF TypeOK, LoopTypeOK, CallTypeOK
<1> QED
  BY <1>1, <1>3 DEF TypeOK

LEMMA FirstLeaveType ==
  ASSUME TypeOK, NEW b \in Bases, FirstLimit(b) \/ FirstExhausted(b),
         UNCHANGED <<target, session>>
  PROVE  TypeOK'
<1> USE DEF FirstLimit, FirstExhausted
<1>1. LeaveRegion(b)
  OBVIOUS
<1>2. GameTypeOK'
  BY GameKept
<1>3. ResultsTypeOK'
  BY <1>1, LeaveType DEF TypeOK, ResultsTypeOK
<1>4. FieldsTypeOK'
  BY DEF TypeOK, FieldsTypeOK, settings, session
<1>5. LoopTypeOK' /\ CallTypeOK'
  BY <1>1, LeaveType DEF TypeOK, LoopTypeOK, CallTypeOK
<1> QED
  BY <1>2, <1>3, <1>4, <1>5 DEF TypeOK

LEMMA FirstFoundType ==
  ASSUME TypeOK, NEW b \in Bases, FirstFound(b), UNCHANGED <<target, session>>
  PROVE  TypeOK'
<1> USE DEF FirstFound
<1>1. q \in NumberCall /\ q.type \in Types /\ TypeLen[q.type] \in Nat
  BY DEF TypeOK, CallTypeOK, NumberCall
<1>2. PICK p \in FirstHits(b) :
        /\ PushSlide(b, mapsize, p)
        /\ j' = p + TypeLen[q.type]
        /\ matched' = {m \in matched : m[1] # b + p} \cup {<<b + p, q.type>>}
  OBVIOUS
<1>3. p \in Nat /\ mapsize \in Nat /\ j \in Nat /\ b \in Nat
  BY <1>1 DEF FirstHits, Strides, TypeOK, LoopTypeOK
<1>4. newRegion' \in Region /\ j' \in Nat
  BY <1>1, <1>2, <1>3, PushType
<1>5. matched' \subseteq Nat \X Types
  BY <1>1, <1>2, <1>3 DEF TypeOK, ResultsTypeOK
<1>6. GameTypeOK' /\ FieldsTypeOK'
  BY GameKept, FieldsKept
<1>7. ResultsTypeOK'
  BY <1>4, <1>5 DEF TypeOK, ResultsTypeOK
<1>8. LoopTypeOK' /\ CallTypeOK'
  BY <1>4 DEF TypeOK, LoopTypeOK, CallTypeOK
<1> QED
  BY <1>6, <1>7, <1>8 DEF TypeOK

LEMMA FirstDoneType ==
  ASSUME TypeOK, FirstDone, UNCHANGED <<target, session>>
  PROVE  TypeOK'
<1> USE DEF FirstDone, frame, results, session
<1>1. GameTypeOK' /\ ResultsTypeOK'
  BY GameKept, ResultsKept
<1>2. FieldsTypeOK' /\ LoopTypeOK' /\ CallTypeOK'
  BY DEF TypeOK, FieldsTypeOK, LoopTypeOK, CallTypeOK, Ops
<1> QED
  BY <1>1, <1>2 DEF TypeOK

-----------------------------------------------------------------------------
(* ScanAgain and what it shares with JJNearBySearch                        *)

(* Replacing a pointer of the list by another keeps it a list of pointers. *)
LEMMA ReplaceType ==
  ASSUME TypeOK, i \in DOMAIN regions, NEW r \in Region \cup {NULL}, ReplaceRegion(r)
  PROVE  regions' \in Seq(Region \cup {NULL}) /\ i' \in Nat
BY ExceptSeq DEF ReplaceRegion, TypeOK, ResultsTypeOK, LoopTypeOK

(* A step into a crash, or out of memory, leaves everything else alone.    *)
LEMMA CrashType ==
  ASSUME TypeOK, Crash, UNCHANGED <<target, session>>
  PROVE  TypeOK'
<1> USE DEF Crash, frame, results
<1>1. GameTypeOK' /\ ResultsTypeOK' /\ FieldsTypeOK'
  BY GameKept, ResultsKept, FieldsKept
<1>2. LoopTypeOK' /\ CallTypeOK'
  BY DEF TypeOK, LoopTypeOK, CallTypeOK, Ops
<1> QED
  BY <1>1, <1>2 DEF TypeOK

LEMMA AgainSkipType ==
  ASSUME TypeOK, AgainSkip, UNCHANGED <<target, session>>
  PROVE  TypeOK'
<1> USE DEF AgainSkip
<1>1. GameTypeOK' /\ ResultsTypeOK' /\ FieldsTypeOK'
  BY GameKept, ResultsKept, FieldsKept
<1>2. LoopTypeOK' /\ CallTypeOK'
  BY DEF TypeOK, LoopTypeOK, CallTypeOK
<1> QED
  BY <1>1, <1>2 DEF TypeOK

LEMMA RefineLoadType ==
  ASSUME TypeOK, RefineLoad, UNCHANGED <<target, session>>
  PROVE  TypeOK'
<1> USE DEF RefineLoad, Refining
<1>1. GameTypeOK' /\ FieldsTypeOK'
  BY GameKept, FieldsKept
<1>2. regions[i] \in Region
  BY ElementOfSeq DEF TypeOK, ResultsTypeOK
<1>3. PICK m \in LoadRegion(regions[i].base, regions[i].size) :
        \/ m = 0 /\ ReplaceRegion(NULL) /\ UNCHANGED <<mapsize, j>>
        \/ m > 0 /\ mapsize' = m /\ j' = 1 /\ UNCHANGED <<regions, i>>
  OBVIOUS
<1>4. m \in Nat
  BY <1>2, LoadType DEF Region
<1>5. CASE m = 0
  <2>1. ReplaceRegion(NULL) /\ UNCHANGED <<mapsize, j>>
    BY <1>3, <1>5
  <2>2. regions' \in Seq(Region \cup {NULL}) /\ i' \in Nat
    BY <2>1, ReplaceType
  <2>3. ResultsTypeOK' /\ LoopTypeOK' /\ CallTypeOK'
    BY <2>1, <2>2 DEF TypeOK, ResultsTypeOK, LoopTypeOK, CallTypeOK
  <2> QED
    BY <1>1, <2>3 DEF TypeOK
<1>6. CASE m > 0
  <2>1. mapsize' = m /\ j' = 1 /\ UNCHANGED <<regions, i>>
    BY <1>3, <1>6
  <2>2. ResultsTypeOK' /\ LoopTypeOK' /\ CallTypeOK'
    BY <1>4, <2>1 DEF TypeOK, ResultsTypeOK, LoopTypeOK, CallTypeOK
  <2> QED
    BY <1>1, <2>2 DEF TypeOK
<1> QED
  BY <1>4, <1>5, <1>6

(* The loop over slides is at one of them, of a region that is there.      *)
LEMMA SlideType ==
  ASSUME TypeOK, AtSlide
  PROVE  /\ regions[i] \in Region /\ regions[i].base \in Nat /\ regions[i].size \in Nat
         /\ Slide \in Nat /\ SlideAddress \in Nat
<1>1. regions[i] \in Region
  BY ElementOfSeq DEF AtSlide, Refining, TypeOK, ResultsTypeOK, LoopTypeOK
<1>2. Slide \in Nat
  BY <1>1, ElementOfSeq DEF Slide, AtSlide, Region
<1> QED
  BY <1>1, <1>2 DEF SlideAddress, Address, Slide, Region

LEMMA AgainKeepType ==
  ASSUME TypeOK, AgainKeep, UNCHANGED <<target, session>>
  PROVE  TypeOK'
<1> USE DEF AgainKeep
<1>1. q \in NumberCall /\ q.type \in Types
  BY DEF TypeOK, CallTypeOK, NumberCall
<1>2. newRegion' \in Region
  BY SlideType, PushType
<1>3. matched' \subseteq Nat \X Types
  BY <1>1, SlideType DEF TypeOK, ResultsTypeOK
<1>4. GameTypeOK' /\ FieldsTypeOK'
  BY GameKept, FieldsKept
<1>5. ResultsTypeOK'
  BY <1>2, <1>3 DEF TypeOK, ResultsTypeOK, results
<1>6. LoopTypeOK' /\ CallTypeOK'
  BY DEF TypeOK, LoopTypeOK, CallTypeOK, results
<1> QED
  BY <1>4, <1>5, <1>6 DEF TypeOK

LEMMA AgainDropType ==
  ASSUME TypeOK, AgainDrop, UNCHANGED <<target, session>>
  PROVE  TypeOK'
<1> USE DEF AgainDrop
<1>1. GameTypeOK' /\ ResultsTypeOK' /\ FieldsTypeOK'
  BY GameKept, ResultsKept, FieldsKept
<1>2. LoopTypeOK' /\ CallTypeOK'
  BY DEF TypeOK, LoopTypeOK, CallTypeOK, results
<1> QED
  BY <1>1, <1>2 DEF TypeOK

LEMMA RefineNextType ==
  ASSUME TypeOK, RefineNext, UNCHANGED <<target, session>>
  PROVE  TypeOK'
<1> USE DEF RefineNext, Refining, Unloaded
<1>1. regions' \in Seq(Region \cup {NULL}) /\ i' \in Nat
  BY ReplaceType DEF TypeOK, ResultsTypeOK
<1>2. GameTypeOK' /\ FieldsTypeOK'
  BY GameKept, FieldsKept
<1>3. ResultsTypeOK' /\ LoopTypeOK' /\ CallTypeOK'
  BY <1>1 DEF TypeOK, ResultsTypeOK, LoopTypeOK, CallTypeOK
<1> QED
  BY <1>2, <1>3 DEF TypeOK

LEMMA RefineDoneType ==
  ASSUME TypeOK, RefineDone, UNCHANGED <<target, session>>
  PROVE  TypeOK'
<1> USE DEF RefineDone, frame
<1>1. regions' \in Seq(Region \cup {NULL})
  BY CompactType DEF TypeOK, ResultsTypeOK
<1>2. GameTypeOK' /\ FieldsTypeOK'
  BY GameKept, FieldsKept
<1>3. ResultsTypeOK' /\ LoopTypeOK' /\ CallTypeOK'
  BY <1>1 DEF TypeOK, ResultsTypeOK, LoopTypeOK, CallTypeOK, Compact, Ops
<1> QED
  BY <1>2, <1>3 DEF TypeOK

-----------------------------------------------------------------------------
(* JJNearBySearch                                                          *)

(* The window around a slide: its end is an address within the region, and *)
(* the positions probed are finitely many.                                 *)
LEMMA WindowType ==
  ASSUME TypeOK, op = "near", AtSlide
  PROVE  /\ Reach \in Nat /\ WindowEnd \in Nat
         /\ Probes \subseteq 0 .. WindowEnd
         /\ q.type \in Types
<1>1. q.type \in Types /\ TypeLen[q.type] \in Nat \ {0} /\ q.near \in Nat
  BY DEF TypeOK, CallTypeOK, NearCall
<1>2. q.near % TypeLen[q.type] \in 0 .. (TypeLen[q.type] - 1)
  BY <1>1
<1>3. Reach \in Nat
  BY <1>1, <1>2 DEF Reach
<1>4. WindowEnd \in Nat
  BY <1>3, SlideType DEF WindowEnd, Smaller
<1>5. WindowStart \in Nat
  BY <1>3, SlideType DEF WindowStart, Larger, TypeOK, LoopTypeOK
<1>6. Probes \subseteq 0 .. WindowEnd
  BY <1>1, <1>4, <1>5 DEF Probes, Strides
<1> QED
  BY <1>1, <1>3, <1>4, <1>6

LEMMA NearMissType ==
  ASSUME TypeOK, NearMiss, UNCHANGED <<target, session>>
  PROVE  TypeOK'
<1> USE DEF NearMiss
<1>1. GameTypeOK' /\ ResultsTypeOK' /\ FieldsTypeOK'
  BY GameKept, ResultsKept, FieldsKept
<1>2. LoopTypeOK' /\ CallTypeOK'
  BY WindowType DEF TypeOK, LoopTypeOK, CallTypeOK, results
<1> QED
  BY <1>1, <1>2 DEF TypeOK

(* What a window adds to a region leaves it a region.                      *)
LEMMA PushFoundType ==
  ASSUME TypeOK, AtSlide, NEW keys, IsFiniteSet(keys), keys \subseteq Nat,
         NEW partners, PushFound(keys, partners)
  PROVE  newRegion' \in Region /\ newCount' \in Nat
<1> DEFINE r == IF newRegion = NULL THEN Fresh(regions[i].base, regions[i].size)
                ELSE newRegion
<1>1. r \in Region
  BY SlideType, EmptySeq DEF Fresh, Region, TypeOK, ResultsTypeOK
<1>2. PICK g \in Sorted(keys) : \E ty \in [DOMAIN g -> Types \cup {NoType}] :
        /\ newRegion' = [r EXCEPT !.slides = @ \o g,
                                  !.types = IF NeedType THEN @ \o ty ELSE @]
        /\ newCount' = newCount + Len(g)
  BY DEF PushFound
<1> PICK ty \in [DOMAIN g -> Types \cup {NoType}] :
        /\ newRegion' = [r EXCEPT !.slides = @ \o g,
                                  !.types = IF NeedType THEN @ \o ty ELSE @]
        /\ newCount' = newCount + Len(g)
  BY <1>2
<1>3. g \in Seq(keys) /\ Len(g) \in Nat /\ DOMAIN g = 1 .. Len(g)
  BY SortedSeq, LenProperties
<1>4. g \in Seq(Nat)
  BY <1>3, SeqMonotonic
<1>5. ty \in Seq(Types \cup {NoType})
  <2>1. ty \in [1 .. Len(g) -> Types \cup {NoType}] /\ Len(g) \in Nat
    BY <1>3
  <2> QED
    BY <2>1, SeqDef
<1>6. r.slides \o g \in Seq(Nat)
  BY <1>1, <1>4, ConcatProperties DEF Region
<1>7. r.types \o ty \in Seq(Types \cup {NoType})
  BY <1>1, <1>5, ConcatProperties DEF Region
<1>8. newRegion' \in Region
  <2> DEFINE types == IF NeedType THEN r.types \o ty ELSE r.types
  <2>1. types \in Seq(Types \cup {NoType})
    BY <1>1, <1>7 DEF Region
  <2>2. newRegion' = [r EXCEPT !.slides = r.slides \o g, !.types = types]
    BY <1>2
  <2> HIDE DEF r, types
  <2> QED
    BY <1>1, <1>6, <2>1, <2>2 DEF Region
<1> QED
  BY <1>2, <1>3, <1>8 DEF TypeOK, ResultsTypeOK

(* The slides that a window finds, and the old ones near them, are finitely *)
(* many numbers: both lie below the end of the window plus the distance.   *)
LEMMA NearKeys ==
  ASSUME TypeOK, op = "near", AtSlide, NEW stray \in SUBSET Faulty,
         NEW hits, hits = WindowHits \cup stray, NEW partners, partners = Partners(hits),
         NEW keys, keys = hits \cup {regions[i].slides[o] : o \in partners}
  PROVE  /\ hits \subseteq 0 .. WindowEnd /\ partners \subseteq Nat
         /\ IsFiniteSet(keys) /\ keys \subseteq Nat
<1>1. hits \subseteq 0 .. WindowEnd
  BY WindowType DEF WindowHits, Faulty
<1>2. partners \subseteq Nat
  BY DEF Partners, TypeOK, LoopTypeOK
<1>3. \A o \in partners : /\ o \in DOMAIN regions[i].slides
                          /\ \E h \in hits : regions[i].slides[o] < h + Reach
  <2>1. regions[i].slides \in Seq(Nat)
    BY SlideType DEF Region
  <2> QED
    BY <2>1, LenProperties DEF Partners, TypeOK, LoopTypeOK
<1>4. WindowEnd \in Nat /\ Reach \in Nat
  BY WindowType
<1>5. ASSUME NEW o \in partners
      PROVE  regions[i].slides[o] \in 0 .. (WindowEnd + Reach)
  <2>1. PICK h \in hits : regions[i].slides[o] < h + Reach
    BY <1>3
  <2>2. regions[i].slides[o] \in Nat
    BY <1>3, SlideType, SlidesType
  <2>3. h \in Nat /\ h <= WindowEnd
    BY <1>1, <1>4
  <2> QED
    BY <1>4, <2>1, <2>2, <2>3
<1>6. hits \subseteq 0 .. (WindowEnd + Reach) /\ WindowEnd + Reach \in Nat
  BY <1>1, <1>4
<1>7. keys \subseteq 0 .. (WindowEnd + Reach)
  BY <1>5, <1>6
<1>8. IsFiniteSet(keys) /\ keys \subseteq Nat
  BY <1>6, <1>7, FiniteBelow
<1> QED
  BY <1>1, <1>2, <1>8

LEMMA NearFoundType ==
  ASSUME TypeOK, NearFound, UNCHANGED <<target, session>>
  PROVE  TypeOK'
<1>1. PICK stray \in SUBSET Faulty :
        LET hits == WindowHits \cup stray
            partners == Partners(hits)
        IN /\ PushFound(hits \cup {regions[i].slides[o] : o \in partners}, partners)
           /\ IF partners = {} THEN UNCHANGED lastold
              ELSE lastold' \in partners /\ \A o \in partners : o <= lastold'
           /\ matched' = matched \cup {<<regions[i].base + p, q.type>> : p \in hits}
  BY DEF NearFound
<1> DEFINE hits == WindowHits \cup stray
           partners == Partners(hits)
           keys == hits \cup {regions[i].slides[o] : o \in partners}
<1> op = "near" /\ AtSlide
  BY DEF NearFound
<1>2. /\ hits \subseteq 0 .. WindowEnd /\ partners \subseteq Nat
      /\ IsFiniteSet(keys) /\ keys \subseteq Nat
  BY NearKeys
<1>3. newRegion' \in Region /\ newCount' \in Nat
  <2>1. PushFound(keys, partners)
    BY <1>1
  <2> HIDE DEF keys, partners
  <2> QED
    BY <1>2, <2>1, PushFoundType
<1>4. lastold' \in Nat
  BY <1>1, <1>2 DEF TypeOK, LoopTypeOK
<1>5. matched' \subseteq Nat \X Types
  <2>1. \A p \in hits : <<regions[i].base + p, q.type>> \in Nat \X Types
    BY <1>2, WindowType, SlideType, SMTT(30)
  <2>2. matched' = matched \cup {<<regions[i].base + p, q.type>> : p \in hits}
    BY <1>1
  <2> QED
    BY <2>1, <2>2 DEF TypeOK, ResultsTypeOK
<1>6. GameTypeOK' /\ FieldsTypeOK'
  BY GameKept, FieldsKept DEF NearFound
<1>7. ResultsTypeOK'
  BY <1>3, <1>5 DEF TypeOK, ResultsTypeOK, results, NearFound
<1>8. LoopTypeOK' /\ CallTypeOK'
  BY <1>4, WindowType DEF TypeOK, LoopTypeOK, CallTypeOK, results, NearFound
<1> QED
  BY <1>6, <1>7, <1>8 DEF TypeOK

-----------------------------------------------------------------------------
(* JJGroupSearch                                                           *)

(* The base of a group that fits is an address.                            *)
LEMMA GroupBaseType ==
  ASSUME TypeOK, NEW anchor \in todo, GroupFound(anchor)
  PROVE  GroupBase(anchor) \in Nat
<1>1. op = "group" /\ GroupFits(GroupBase(anchor))
  BY DEF GroupFound
<1>2. q \in GroupCall /\ anchor \in Nat /\ q.anchor \in DOMAIN q.items
  BY <1>1 DEF TypeOK, LoopTypeOK, CallTypeOK
<1>3. GroupBase(anchor) \in Int
  BY <1>2, ItemsType DEF GroupBase
<1>4. q.range.start \in Nat /\ GroupBase(anchor) >= q.range.start
  BY <1>1, <1>2 DEF GroupFits, GroupCall, AddrRange
<1> QED
  BY <1>3, <1>4

(* A match is added to the last region, or in a region of its own.         *)
LEMMA PushGroupType ==
  ASSUME TypeOK, q \in GroupCall, NEW base \in Nat,
         q.total > 0 /\ regions # <<>> => Last(regions) # NULL,
         PushGroup(base)
  PROVE  /\ regions' \in Seq(Region \cup {NULL})
         /\ (\A n \in DOMAIN regions : regions[n] # NULL)
               => \A n \in DOMAIN regions' : regions'[n] # NULL
<1>1. \A r \in Region : GroupSlide(r) \in Region
  <2> SUFFICES ASSUME NEW r \in Region PROVE GroupSlide(r) \in Region
    OBVIOUS
  <2>1. Append(r.slides, 0) \in Seq(Nat)
    BY AppendProperties DEF Region
  <2> QED
    BY <2>1 DEF GroupSlide, Region
<1>2. Fresh(base, q.total) \in Region
  BY EmptySeq DEF Fresh, Region, GroupCall
<1>3. regions \in Seq(Region \cup {NULL})
  BY DEF TypeOK, ResultsTypeOK
<1>4. CASE q.total > 0 /\ regions # <<>> /\ Last(regions).base = base
  <2>1. Last(regions) # NULL
    BY <1>4
  <2>2. Len(regions) \in 1 .. Len(regions)
    BY <1>3, <1>4, EmptySeq, LenProperties
  <2>3. GroupSlide(Last(regions)) \in Region
    BY <1>1, <1>3, <2>1, <2>2, ElementOfSeq DEF Last
  <2>4. regions' = [regions EXCEPT ![Len(regions)] = GroupSlide(Last(regions))]
    BY <1>4 DEF PushGroup, Last
  <2>5. regions' \in Seq(Region \cup {NULL})
    BY <1>3, <2>2, <2>3, <2>4, ExceptSeq
  <2>6. \A n \in DOMAIN regions' : regions'[n] = regions[n] \/ regions'[n] \in Region
    BY <2>3, <2>4
  <2>7. DOMAIN regions' = DOMAIN regions
    BY <2>4
  <2> QED
    BY <2>5, <2>6, <2>7, NullIsNoRegion
<1>5. CASE ~(q.total > 0 /\ regions # <<>> /\ Last(regions).base = base)
  <2> DEFINE r == GroupSlide(Fresh(base, q.total))
  <2>1. r \in Region
    BY <1>1, <1>2
  <2>2. regions' = Append(regions, r)
    BY <1>5 DEF PushGroup
  <2> HIDE DEF r
  <2> QED
    BY <1>3, <2>1, <2>2, AppendProperties, NullIsNoRegion
<1> QED
  BY <1>4, <1>5

LEMMA GroupFoundType ==
  ASSUME TypeOK, NEW anchor \in todo, GroupFound(anchor), UNCHANGED <<target, session>>
  PROVE  TypeOK'
<1> USE DEF GroupFound
<1>1. q \in GroupCall /\ q.items # <<>> /\ 1 \in DOMAIN q.items
  <2>1. q \in GroupCall /\ q.anchor \in DOMAIN q.items
    BY DEF TypeOK, CallTypeOK
  <2>2. q.items \in Seq([type: Types, want: Interval, offset: Nat])
    BY <2>1 DEF GroupCall
  <2> QED
    BY <2>1, <2>2, LenProperties
<1>2. GroupBase(anchor) \in Nat
  BY GroupBaseType
<1>3. q.items[1].type \in Types
  BY <1>1, ItemsType
<1>4. regions' \in Seq(Region \cup {NULL})
  BY <1>1, <1>2, PushGroupType
<1>5. matched' \subseteq Nat \X Types
  BY <1>2, <1>3 DEF TypeOK, ResultsTypeOK
<1>6. GameTypeOK'
  BY GameKept
<1>7. ResultsTypeOK'
  BY <1>4, <1>5 DEF TypeOK, ResultsTypeOK, frame
<1>8. FieldsTypeOK'
  BY DEF TypeOK, FieldsTypeOK, settings, session
<1>9. LoopTypeOK' /\ CallTypeOK'
  BY DEF TypeOK, LoopTypeOK, CallTypeOK, frame
<1> QED
  BY <1>6, <1>7, <1>8, <1>9 DEF TypeOK

LEMMA GroupMissType ==
  ASSUME TypeOK, NEW anchor \in todo, GroupMiss(anchor), UNCHANGED <<target, session>>
  PROVE  TypeOK'
<1> USE DEF GroupMiss, frame
<1>1. GameTypeOK' /\ ResultsTypeOK' /\ FieldsTypeOK'
  BY GameKept, ResultsKept, FieldsKept
<1>2. LoopTypeOK' /\ CallTypeOK'
  BY DEF TypeOK, LoopTypeOK, CallTypeOK
<1> QED
  BY <1>1, <1>2 DEF TypeOK

LEMMA GroupDoneType ==
  ASSUME TypeOK, GroupDone, UNCHANGED <<target, session>>
  PROVE  TypeOK'
<1> USE DEF GroupDone, frame
<1>1. GameTypeOK' /\ ResultsTypeOK' /\ FieldsTypeOK'
  BY GameKept, ResultsKept, FieldsKept
<1>2. LoopTypeOK' /\ CallTypeOK'
  BY DEF TypeOK, LoopTypeOK, CallTypeOK, Ops
<1> QED
  BY <1>1, <1>2 DEF TypeOK

(* Out of memory, a call returns with what it has.                         *)
LEMMA ThrowType ==
  ASSUME TypeOK, Throw
  PROVE  TypeOK'
<1> USE DEF Throw, OutOfMemory, Refining, frame
<1>1. GameTypeOK' /\ ResultsTypeOK' /\ FieldsTypeOK'
  BY GameKept, ResultsKept, FieldsKept
<1>2. LoopTypeOK' /\ CallTypeOK'
  BY DEF TypeOK, LoopTypeOK, CallTypeOK, Ops
<1> QED
  BY <1>1, <1>2 DEF TypeOK

-----------------------------------------------------------------------------
(* JJWriteAll, the end of a call, and the game                             *)

LEMMA EditNullType ==
  ASSUME TypeOK, EditNull, UNCHANGED session
  PROVE  TypeOK'
BY CrashType DEF EditNull

LEMMA EditSlideType ==
  ASSUME TypeOK, EditSlide, UNCHANGED session
  PROVE  TypeOK'
<1> USE DEF EditSlide, Editing
<1>1. TypeLen[q.type] \in Nat
  BY DEF TypeOK, CallTypeOK, EditCall
<1>2. regions[i] \in Region
  BY ElementOfSeq DEF TypeOK, ResultsTypeOK
<1>3. Address(regions[i], j + 1) \in Nat
  BY <1>2, ElementOfSeq DEF Address, Region
<1>4. mem' \in [Addr -> 0 .. (Radix - 1)]
  <2> DEFINE a == Address(regions[i], j + 1)
             len == TypeLen[q.type]
  <2>1. CASE Writes(a, len)
    <3>1. PICK cells \in [0 .. (len - 1) -> 0 .. (Radix - 1)] :
            mem' = [c \in Addr |-> IF c \in a .. (a + len - 1) THEN cells[c - a] ELSE mem[c]]
      BY <2>1
    <3>2. \A c \in a .. (a + len - 1) : c - a \in 0 .. (len - 1)
      BY <1>1, <1>3
    <3> QED
      BY <3>1, <3>2 DEF TypeOK, GameTypeOK
  <2>2. CASE ~Writes(a, len)
    BY <2>2 DEF TypeOK, GameTypeOK
  <2> QED
    BY <2>1, <2>2
<1>5. GameTypeOK'
  BY <1>4 DEF TypeOK, GameTypeOK
<1>6. newCount' \in Nat
  BY DEF TypeOK, ResultsTypeOK
<1>7. ResultsTypeOK'
  BY <1>6 DEF TypeOK, ResultsTypeOK, results
<1>8. FieldsTypeOK'
  BY FieldsKept
<1>9. LoopTypeOK' /\ CallTypeOK'
  BY DEF TypeOK, LoopTypeOK, CallTypeOK, results
<1> QED
  BY <1>5, <1>7, <1>8, <1>9 DEF TypeOK

LEMMA EditNextType ==
  ASSUME TypeOK, EditNext, UNCHANGED session
  PROVE  TypeOK'
<1> USE DEF EditNext, Editing
<1>1. GameTypeOK' /\ ResultsTypeOK' /\ FieldsTypeOK'
  BY GameKept, ResultsKept, FieldsKept
<1>2. LoopTypeOK' /\ CallTypeOK'
  BY DEF TypeOK, LoopTypeOK, CallTypeOK, results
<1> QED
  BY <1>1, <1>2 DEF TypeOK

LEMMA EditDoneType ==
  ASSUME TypeOK, EditDone, UNCHANGED session
  PROVE  TypeOK'
<1> USE DEF EditDone, frame
<1>1. GameTypeOK' /\ ResultsTypeOK' /\ FieldsTypeOK'
  BY GameKept, ResultsKept, FieldsKept
<1>2. LoopTypeOK' /\ CallTypeOK'
  BY DEF TypeOK, LoopTypeOK, CallTypeOK, Ops
<1> QED
  BY <1>1, <1>2 DEF TypeOK

LEMMA ReturnType ==
  ASSUME TypeOK, Return
  PROVE  TypeOK'
<1> USE DEF Return
<1>1. GameTypeOK'
  BY GameKept
<1>2. ResultsTypeOK'
  BY StartType DEF TypeOK, ResultsTypeOK, results
<1>3. FieldsTypeOK'
  <2>1. SearchTypeAfter \in Types \cup {NoType}
    BY DEF SearchTypeAfter, TypeOK, FieldsTypeOK, CallTypeOK,
           NumberCall, NearCall, GroupCall, EditCall
  <2> QED
    BY <2>1 DEF TypeOK, FieldsTypeOK, settings
<1>4. LoopTypeOK' /\ CallTypeOK'
  BY StartType DEF TypeOK, LoopTypeOK, CallTypeOK, Ops
<1> QED
  BY <1>1, <1>2, <1>3, <1>4 DEF TypeOK

LEMMA GameType ==
  ASSUME TypeOK, Game
  PROVE  TypeOK'
<1> USE DEF Game, GameStep, GameWrites, GameUnmaps, engineVars, frame, results
<1>1. GameTypeOK'
  <2>1. ASSUME NEW b \in Bases, NEW n \in 0 .. Size[b],
               vmsize' = [vmsize EXCEPT ![b] = n]
        PROVE  vmsize' \in [Bases -> Nat]
    BY <2>1 DEF TypeOK, GameTypeOK
  <2> QED
    BY <2>1, SMTT(30) DEF TypeOK, GameTypeOK
<1>2. ResultsTypeOK' /\ FieldsTypeOK'
  BY ResultsKept, FieldsKept
<1>3. LoopTypeOK' /\ CallTypeOK'
  BY DEF TypeOK, LoopTypeOK, CallTypeOK
<1> QED
  BY <1>1, <1>2, <1>3 DEF TypeOK

-----------------------------------------------------------------------------
(* A call ends with its session, its engine and its memory well typed,     *)
(* whatever the game did to its memory in the meantime.  One lemma above   *)
(* for each action of Next.                                                *)
LEMMA ScanStepType ==
  ASSUME TypeOK, ScanStep, UNCHANGED session
  PROVE  TypeOK'
<1>1. UNCHANGED <<target, session>>
  BY DEF ScanStep
<1>2. ASSUME NEW b \in Bases, FirstLoad(b) \/ FirstLimit(b) \/ FirstFound(b) \/ FirstExhausted(b)
      PROVE  TypeOK'
  BY <1>1, <1>2, FirstLoadType, FirstLeaveType, FirstFoundType
<1>3. ASSUME NEW anchor \in todo, GroupFound(anchor) \/ GroupMiss(anchor)
      PROVE  TypeOK'
  BY <1>1, <1>3, GroupFoundType, GroupMissType
<1>4. CASE RefineNull \/ AgainFault \/ NearFault \/ GroupNull
  BY <1>1, <1>4, CrashType DEF RefineNull, AgainFault, NearFault, GroupNull
<1>5. CASE FirstDone \/ AgainSkip \/ RefineLoad \/ RefineNext \/ RefineDone
  BY <1>1, <1>5, FirstDoneType, AgainSkipType, RefineLoadType, RefineNextType,
     RefineDoneType
<1>6. CASE AgainKeep \/ AgainDrop \/ NearMiss \/ NearFound \/ GroupDone
  BY <1>1, <1>6, AgainKeepType, AgainDropType, NearMissType, NearFoundType,
     GroupDoneType
<1> QED
  BY <1>2, <1>3, <1>4, <1>5, <1>6 DEF ScanStep

LEMMA NextType == TypeOK /\ [Next]_vars => TypeOK'
<1> SUFFICES ASSUME TypeOK, [Next]_vars PROVE TypeOK'
  OBVIOUS
<1>1. CASE Call
  BY <1>1, SearchNumberType, SearchNearbyType, SearchGroupType, EditAllType,
     SettingType DEF Call
<1>2. CASE Work
  BY <1>2, ScanStepType, EditNullType, EditSlideType, EditNextType, EditDoneType,
     ReturnType DEF Work, EngineStep
<1>3. CASE Throw
  BY <1>3, ThrowType
<1>4. CASE Game
  BY <1>4, GameType
<1>5. CASE UNCHANGED vars
  <2> USE <1>5 DEF vars, engineVars, frame, results, TypeOK
  <2>1. GameTypeOK' /\ ResultsTypeOK' /\ FieldsTypeOK'
    BY GameKept, ResultsKept, FieldsKept
  <2>2. LoopTypeOK' /\ CallTypeOK'
    BY DEF LoopTypeOK, CallTypeOK
  <2> QED
    BY <2>1, <2>2
<1> QED
  BY <1>1, <1>2, <1>3, <1>4, <1>5 DEF Next, Crashed

(* Every variable keeps its type, and every loop of the engine runs with   *)
(* the arguments of its own call on a region that is there.                *)
THEOREM TypeCorrect == Spec => []TypeOK
  BY InitType, NextType, PTL DEF Spec
=============================================================================
