------------------------- MODULE H5gg_results_proofs -------------------------
(***************************************************************************)
(* Theorems about the results a script gets: how many there are and may    *)
(* be, and the types they are reported with.                               *)
(***************************************************************************)
EXTENDS H5gg_session_proofs

-----------------------------------------------------------------------------
(* The slots of the list: its results, by region and index.                *)
InSlots(s) == \E n \in DOMAIN regions : /\ regions[n] # NULL
                                        /\ \E k \in DOMAIN regions[n].slides : s = <<n, k>>
SlotsShown == \A s : s \in Slots <=> InSlots(s)

LEMMA SlotsDef == SlotsShown
<1> SUFFICES ASSUME NEW s PROVE s \in Slots <=> InSlots(s)
  BY DEF SlotsShown
<1>1. ASSUME s \in Slots PROVE InSlots(s)
  <2>1. PICK n \in DOMAIN regions : /\ regions[n] # NULL
                                    /\ s \in {<<n, k>> : k \in DOMAIN regions[n].slides}
    BY <1>1 DEF Slots
  <2> QED
    BY <2>1 DEF InSlots
<1>2. ASSUME InSlots(s) PROVE s \in Slots
  BY <1>2 DEF InSlots, Slots
<1> QED
  BY <1>1, <1>2

(* The slots of region n, when it has m results.                           *)
Row(n, m) == {<<n, k>> : k \in 1 .. m}

LEMMA RowSize ==
  ASSUME NEW n, NEW m \in Nat
  PROVE  IsFiniteSet(Row(n, m)) /\ Cardinality(Row(n, m)) = m
<1> DEFINE f == [k \in 1 .. m |-> <<n, k>>]
<1>1. f \in Bijection(1 .. m, Row(n, m))
  BY DEF Row, Bijection, Injection, IsInjective, Surjection
<1>2. ExistsBijection(1 .. m, Row(n, m))
  BY <1>1 DEF ExistsBijection
<1>3. IsFiniteSet(1 .. m) /\ Cardinality(1 .. m) = m
  BY FS_Interval
<1> QED
  BY <1>2, <1>3, FS_Bijection

(* A region appended to the list brings its own slots. *)
LEMMA SlotsAppended ==
  ASSUME regions \in Seq(Region \cup {NULL}), NEW r \in Region, regions' = Append(regions, r)
  PROVE  Slots' = Slots \cup Row(Len(regions) + 1, Len(r.slides))
<1>1. SlotsShown'
  BY SlotsDef, PTL
<1>2. /\ DOMAIN regions = 1 .. Len(regions) /\ Len(regions) \in Nat
      /\ DOMAIN regions' = 1 .. Len(regions) + 1
      /\ \A n \in DOMAIN regions : regions'[n] = regions[n]
      /\ regions'[Len(regions) + 1] = r
  BY AppendProperties, LenProperties
<1>3. r # NULL /\ DOMAIN r.slides = 1 .. Len(r.slides)
  BY NullIsNoRegion, LenProperties DEF Region
<1>4. ASSUME NEW s, InSlots(s)' PROVE s \in Slots \cup Row(Len(regions) + 1, Len(r.slides))
  <2>1. PICK n \in DOMAIN regions' : /\ regions'[n] # NULL
                                     /\ \E k \in DOMAIN regions'[n].slides : s = <<n, k>>
    BY <1>4 DEF InSlots
  <2>2. CASE n = Len(regions) + 1
    BY <1>2, <1>3, <2>1, <2>2 DEF Row
  <2>3. CASE n \in DOMAIN regions
    <3>1. InSlots(s)
      BY <1>2, <2>1, <2>3 DEF InSlots
    <3> QED
      BY <3>1, SlotsDef DEF SlotsShown
  <2> QED
    BY <1>2, <2>1, <2>2, <2>3
<1>5. ASSUME NEW s \in Slots PROVE InSlots(s)'
  <2>1. InSlots(s)
    BY SlotsDef DEF SlotsShown
  <2> QED
    BY <1>2, <2>1 DEF InSlots
<1>6. ASSUME NEW s \in Row(Len(regions) + 1, Len(r.slides)) PROVE InSlots(s)'
  <2>1. PICK k \in 1 .. Len(r.slides) : s = <<Len(regions) + 1, k>>
    BY DEF Row
  <2> QED
    BY <1>2, <1>3, <2>1 DEF InSlots
<1> QED
  BY <1>1, <1>4, <1>5, <1>6 DEF SlotsShown

(* A region replaced by one with no more slides leaves the other slots     *)
(* alone and adds none.                                                    *)
LEMMA SlotsReplaced ==
  ASSUME regions \in Seq(Region \cup {NULL}), i \in DOMAIN regions, regions[i] # NULL,
         NEW r \in Region \cup {NULL}, ReplaceRegion(r),
         r # NULL => Len(r.slides) <= Len(regions[i].slides)
  PROVE  Slots' \subseteq Slots
<1>1. SlotsShown'
  BY SlotsDef, PTL
<1>2. /\ DOMAIN regions' = DOMAIN regions /\ regions'[i] = r
      /\ \A n \in DOMAIN regions : n # i => regions'[n] = regions[n]
  BY DEF ReplaceRegion
<1>3. regions[i] \in Region
  BY ElementOfSeq, LenProperties
<1>4. r # NULL => DOMAIN r.slides \subseteq DOMAIN regions[i].slides
  <2> SUFFICES ASSUME r # NULL PROVE DOMAIN r.slides \subseteq DOMAIN regions[i].slides
    OBVIOUS
  <2>1. r.slides \in Seq(Nat) /\ regions[i].slides \in Seq(Nat)
    BY <1>3 DEF Region
  <2>2. /\ DOMAIN r.slides = 1 .. Len(r.slides) /\ Len(r.slides) \in Nat
        /\ DOMAIN regions[i].slides = 1 .. Len(regions[i].slides)
        /\ Len(regions[i].slides) \in Nat
    BY <2>1, LenProperties
  <2> QED
    BY <2>2
<1>5. ASSUME NEW s, InSlots(s)' PROVE InSlots(s)
  <2>1. PICK n \in DOMAIN regions' : /\ regions'[n] # NULL
                                     /\ \E k \in DOMAIN regions'[n].slides : s = <<n, k>>
    BY <1>5 DEF InSlots
  <2> QED
    BY <1>2, <1>4, <2>1 DEF InSlots
<1> QED
  BY <1>1, <1>5, SlotsDef DEF SlotsShown

(* Compact moves every slot that is left to a place of its own.            *)
LEMMA SlotsCompacted ==
  ASSUME regions \in Seq(Region \cup {NULL}), Compact, IsFiniteSet(Slots)
  PROVE  IsFiniteSet(Slots') /\ Cardinality(Slots') <= Cardinality(Slots)
<1> DEFINE Kept == {n \in DOMAIN regions : regions[n] # NULL}
<1>1. PICK g \in Sorted(Kept) : regions' = [n \in DOMAIN g |-> regions[g[n]]]
  BY DEF Compact
<1>2. IsFiniteSet(Kept) /\ Kept \subseteq Nat
  <2>1. Kept \subseteq 0 .. Len(regions) /\ Len(regions) \in Nat
    BY LenProperties
  <2> HIDE DEF Kept
  <2> QED
    BY <2>1, FiniteBelow
<1>3. /\ g \in [DOMAIN g -> Kept] /\ DOMAIN g = 1 .. Cardinality(Kept)
      /\ Cardinality(Kept) \in Nat
      /\ \A m, n \in DOMAIN g : m < n => g[m] < g[n]
  <2> HIDE DEF Kept
  <2> QED
    BY <1>1, <1>2, FS_CardinalityType DEF Sorted
<1>4. \A m, n \in DOMAIN g : g[m] = g[n] => m = n
  <2> SUFFICES ASSUME NEW m \in DOMAIN g, NEW n \in DOMAIN g, g[m] = g[n], m # n PROVE FALSE
    OBVIOUS
  <2>1. m \in Nat /\ n \in Nat /\ g[m] \in Nat /\ g[n] \in Nat
    <3> HIDE DEF Kept
    <3> QED
      BY <1>2, <1>3
  <2>2. m < n \/ n < m
    BY <2>1
  <2>3. g[m] < g[n] \/ g[n] < g[m]
    BY <1>3, <2>2
  <2> QED
    BY <2>1, <2>3
<1> DEFINE f == [s \in Slots' |-> <<g[s[1]], s[2]>>]
<1>5. ASSUME NEW s \in Slots'
      PROVE  /\ s[1] \in DOMAIN g /\ s = <<s[1], s[2]>>
             /\ f[s] = <<g[s[1]], s[2]>> /\ f[s] \in Slots
  <2>1. InSlots(s)'
    <3>1. SlotsShown'
      BY SlotsDef, PTL
    <3> QED
      BY <3>1 DEF SlotsShown
  <2>2. PICK n \in DOMAIN regions' : /\ regions'[n] # NULL
                                     /\ \E k \in DOMAIN regions'[n].slides : s = <<n, k>>
    BY <2>1 DEF InSlots
  <2>3. PICK k \in DOMAIN regions'[n].slides : s = <<n, k>>
    BY <2>2
  <2>4. n \in DOMAIN g /\ regions'[n] = regions[g[n]] /\ g[n] \in DOMAIN regions
    BY <1>1, <1>3, <2>2
  <2>5. InSlots(<<g[n], k>>)
    BY <2>2, <2>3, <2>4 DEF InSlots
  <2>6. <<g[n], k>> \in Slots
    BY <2>5, SlotsDef DEF SlotsShown
  <2> QED
    BY <2>3, <2>4, <2>6
<1>6. f \in Injection(Slots', Slots)
  <2>1. f \in [Slots' -> Slots]
    BY <1>5
  <2>2. \A s, t \in Slots' : f[s] = f[t] => s = t
    BY <1>4, <1>5
  <2> HIDE DEF f
  <2> QED
    BY <2>1, <2>2 DEF Injection, IsInjective
<1> HIDE DEF f
<1> QED
  BY <1>6, FS_Injection

-----------------------------------------------------------------------------
(* The limit.  A first search counts a result before its region joins the  *)
(* list; a repeated one counts those it keeps, and has the slots it has    *)
(* not reached yet to keep.                                                *)
Built == IF op = "first" /\ newRegion # NULL THEN Len(newRegion.slides) ELSE 0
Position == IF mapsize > 0 THEN j ELSE 1
Pending == {s \in Slots : s[1] > i \/ (s[1] = i /\ s[2] >= Position)}

AgainInv ==
  op = "again" =>
    /\ firstScanDone
    /\ newCount + Cardinality(Pending) <= MaxSearchResults
    /\ mapsize > 0 => j <= Len(regions[i].slides) + 1
    /\ newRegion # NULL => mapsize > 0 /\ Len(newRegion.slides) < j
LimitInv ==
  /\ op \notin {"near", "group"}
  /\ count <= MaxSearchResults
  /\ IsFiniteSet(Slots)
  /\ IF firstScanDone THEN Cardinality(Slots) <= MaxSearchResults
     ELSE Cardinality(Slots) + Built <= count
  /\ op = "first" => ~firstScanDone
  /\ AgainInv

LEMMA SlotsSame == UNCHANGED regions => Slots' = Slots
BY DEF Slots

(* Steps that leave the list and the count alone, out of the loop.         *)
LEMMA LimitKept ==
  ASSUME TypeOK, LimitInv, UNCHANGED <<regions, count, firstScanDone>>,
         op' \notin {"first", "again", "near", "group"}
  PROVE  LimitInv'
<1>1. Slots' = Slots
  BY SlotsSame
<1>2. Built' <= Built /\ Built \in Nat /\ Built' \in Nat
  BY LenProperties DEF Built, TypeOK, ResultsTypeOK, Region
<1>3. Cardinality(Slots) \in Nat /\ count \in Nat
  BY FS_CardinalityType DEF LimitInv, TypeOK, ResultsTypeOK
<1> QED
  BY <1>1, <1>2, <1>3 DEF LimitInv, AgainInv

(* Steps that leave alone all that the limit depends on.                   *)
LEMMA LimitSame ==
  ASSUME LimitInv, op' = op,
         UNCHANGED <<regions, count, firstScanDone, newRegion, i, j, mapsize, newCount>>
  PROVE  LimitInv'
<1>1. Slots' = Slots /\ Pending' = Pending
  BY SlotsSame DEF Pending, Position
<1> QED
  BY <1>1 DEF LimitInv, AgainInv, Built

LEMMA LimitFirst ==
  ASSUME TypeOK, LimitInv, NEW b \in Bases,
         FirstLoad(b) \/ FirstLimit(b) \/ FirstFound(b) \/ FirstExhausted(b)
  PROVE  LimitInv'
<1>1. /\ op = "first" /\ op' = "first" /\ ~firstScanDone /\ ~firstScanDone'
      /\ Cardinality(Slots) + Built <= count
  BY DEF FirstLoad, FirstLimit, FirstFound, FirstExhausted, settings, LimitInv
<1>2. /\ Cardinality(Slots) \in Nat /\ Built \in Nat
      /\ regions \in Seq(Region \cup {NULL}) /\ newRegion \in Region \cup {NULL}
      /\ newRegion # NULL => newRegion.slides \in Seq(Nat)
      /\ newRegion # NULL => Built = Len(newRegion.slides)
  BY <1>1, FS_CardinalityType, LenProperties DEF LimitInv, Built, TypeOK, ResultsTypeOK, Region
<1>3. CASE FirstLoad(b)
  <2>1. UNCHANGED <<regions, count, newRegion>>
    BY <1>3 DEF FirstLoad, results
  <2> QED
    BY <1>1, <2>1, SlotsSame DEF LimitInv, AgainInv, Built
<1>4. CASE FirstFound(b)
  <2>1. count' = count + 1 /\ UNCHANGED regions /\ ~AtLimit
    BY <1>4 DEF FirstFound
  <2>2. count \in Nat /\ count < MaxSearchResults
    BY <2>1, TypesAssumption DEF AtLimit, TypeOK, ResultsTypeOK
  <2>3. FirstHits(b) \subseteq Nat /\ mapsize \in Nat /\ b \in Nat
    <3>1. q.type \in Types /\ TypeLen[q.type] \in Nat
      BY <1>1, TypesAssumption DEF TypeOK, CallTypeOK, NumberCall
    <3> QED
      BY <3>1, MemoryAssumption DEF FirstHits, Strides, TypeOK, LoopTypeOK
  <2>4. Built' = Built + 1
    <3>1. PICK p \in FirstHits(b) : PushSlide(b, mapsize, p)
      BY <1>4 DEF FirstFound
    <3> DEFINE r == IF newRegion = NULL THEN Fresh(b, mapsize) ELSE newRegion
    <3>2. newRegion' = [r EXCEPT !.slides = Append(r.slides, p)]
      BY <3>1 DEF PushSlide
    <3>3. /\ r.slides \in Seq(Nat) /\ "slides" \in DOMAIN r /\ Len(r.slides) = Built
      <4>1. CASE newRegion = NULL
        BY <4>1, EmptySeq DEF Fresh, Built
      <4>2. CASE newRegion # NULL
        BY <1>2, <4>2 DEF Region
      <4> QED
        BY <4>1, <4>2
    <3>4. p \in Nat /\ newRegion' \in Region
      BY <2>3, <3>1, PushType
    <3> HIDE DEF r
    <3>5. newRegion'.slides = Append(r.slides, p)
      BY <3>2, <3>3
    <3>6. newRegion' # NULL
      BY <3>4, NullIsNoRegion
    <3> QED
      BY <1>1, <3>3, <3>4, <3>5, <3>6, AppendProperties DEF Built
  <2>5. count' <= MaxSearchResults /\ Cardinality(Slots) + Built' <= count'
    BY <1>1, <1>2, <2>1, <2>2, <2>4, TypesAssumption
  <2> QED
    BY <1>1, <2>1, <2>5, SlotsSame DEF LimitInv, AgainInv
<1>5. CASE FirstLimit(b) \/ FirstExhausted(b)
  <2>1. /\ regions' = IF newRegion = NULL THEN regions ELSE Append(regions, newRegion)
        /\ newRegion' = NULL /\ UNCHANGED count
    BY <1>5 DEF FirstLimit, FirstExhausted, LeaveRegion, Unloaded
  <2>2. CASE newRegion = NULL
    BY <1>1, <1>2, <2>1, <2>2, SlotsSame DEF LimitInv, AgainInv, Built
  <2>3. CASE newRegion # NULL
    <3> DEFINE row == Row(Len(regions) + 1, Len(newRegion.slides))
    <3>1. Slots' = Slots \cup row
      BY <1>2, <2>1, <2>3, SlotsAppended
    <3>2. IsFiniteSet(row) /\ Cardinality(row) = Built
      BY <1>2, <2>3, LenProperties, RowSize DEF Built
    <3> HIDE DEF row
    <3>3. /\ IsFiniteSet(Slots \cup row) /\ Cardinality(Slots \cap row) \in Nat
          /\ Cardinality(Slots \cup row)
               = Cardinality(Slots) + Cardinality(row) - Cardinality(Slots \cap row)
      BY <3>2, FS_Union, FS_Intersection, FS_CardinalityType DEF LimitInv
    <3>4. IsFiniteSet(Slots') /\ Cardinality(Slots') <= Cardinality(Slots) + Built
      BY <1>2, <3>1, <3>2, <3>3
    <3>5. Built' = 0 /\ Cardinality(Slots') \in Nat /\ count \in Nat
      BY <2>1, <3>4, FS_CardinalityType DEF Built, TypeOK, ResultsTypeOK
    <3> QED
      BY <1>1, <1>2, <2>1, <3>4, <3>5 DEF LimitInv, AgainInv
  <2> QED
    BY <2>2, <2>3
<1> QED
  BY <1>3, <1>4, <1>5

(* While a repeated search runs the list only gets shorter.                *)
LEMMA LimitAgain ==
  ASSUME LimitInv, op = "again", op' = "again", UNCHANGED <<count, firstScanDone>>,
         Slots' \subseteq Slots, newCount' + Cardinality(Pending') <= MaxSearchResults,
         mapsize' > 0 => j' <= Len(regions'[i'].slides) + 1,
         newRegion' # NULL => mapsize' > 0 /\ Len(newRegion'.slides) < j'
  PROVE  LimitInv'
<1>1. firstScanDone /\ Cardinality(Slots) <= MaxSearchResults
  BY DEF LimitInv, AgainInv
<1>2. /\ IsFiniteSet(Slots') /\ Cardinality(Slots') <= Cardinality(Slots)
      /\ Cardinality(Slots) \in Nat /\ Cardinality(Slots') \in Nat
  BY FS_Subset, FS_CardinalityType DEF LimitInv
<1> QED
  BY <1>1, <1>2, TypesAssumption DEF LimitInv, AgainInv

LEMMA PendingFewer ==
  ASSUME TypeOK, LimitInv, op = "again", newCount' = newCount, Pending' \subseteq Pending
  PROVE  newCount' + Cardinality(Pending') <= MaxSearchResults
<1>1. IsFiniteSet(Pending)
  BY FS_Subset DEF LimitInv, Pending
<1>2. /\ Cardinality(Pending') <= Cardinality(Pending)
      /\ Cardinality(Pending) \in Nat /\ Cardinality(Pending') \in Nat
  BY <1>1, FS_Subset, FS_CardinalityType
<1>3. newCount \in Nat /\ newCount + Cardinality(Pending) <= MaxSearchResults
  BY DEF TypeOK, ResultsTypeOK, LimitInv, AgainInv
<1> QED
  BY <1>2, <1>3, TypesAssumption

(* A slot is a pair of indexes. *)
LEMMA SlotIndex ==
  ASSUME regions \in Seq(Region \cup {NULL}), NEW s \in Slots
  PROVE  /\ s[1] \in DOMAIN regions /\ regions[s[1]] # NULL /\ s[2] \in DOMAIN regions[s[1]].slides
         /\ s[1] \in Nat /\ s[2] \in Nat \ {0} /\ s = <<s[1], s[2]>>
<1>1. InSlots(s)
  BY SlotsDef DEF SlotsShown
<1>2. PICK n \in DOMAIN regions : /\ regions[n] # NULL
                                  /\ \E k \in DOMAIN regions[n].slides : s = <<n, k>>
  BY <1>1 DEF InSlots
<1>3. regions[n] \in Region /\ n \in Nat
  BY <1>2, ElementOfSeq, LenProperties
<1>4. \A k \in DOMAIN regions[n].slides : k \in Nat \ {0}
  BY <1>3, LenProperties DEF Region
<1> QED
  BY <1>2, <1>3, <1>4

LEMMA LimitScan ==
  ASSUME TypeOK, LimitInv, AgainSkip \/ AgainDrop \/ AgainKeep
  PROVE  LimitInv'
<1>1. /\ op = "again" /\ op' = "again"
      /\ UNCHANGED <<regions, count, firstScanDone, mapsize>>
      /\ regions \in Seq(Region \cup {NULL}) /\ i \in Nat /\ j \in Nat /\ mapsize \in Nat
  BY DEF AgainSkip, AgainDrop, AgainKeep, results, settings, TypeOK, ResultsTypeOK, LoopTypeOK
<1>2. /\ mapsize > 0 => j <= Len(regions[i].slides) + 1
      /\ newRegion # NULL => mapsize > 0 /\ Len(newRegion.slides) < j
      /\ newCount + Cardinality(Pending) <= MaxSearchResults
  BY <1>1 DEF LimitInv, AgainInv
<1>3. Slots' = Slots
  BY <1>1, SlotsSame
<1>4. \A s \in Slots : s[1] \in Nat /\ s[2] \in Nat \ {0}
  BY <1>1, SlotIndex
<1>5. newRegion # NULL => Len(newRegion.slides) \in Nat
  BY LenProperties DEF TypeOK, ResultsTypeOK, Region
<1>6. CASE AgainSkip
  <2>1. i' = i + 1 /\ mapsize = 0 /\ UNCHANGED <<newRegion, newCount>>
    BY <1>6 DEF AgainSkip
  <2>2. Pending' \subseteq Pending
    BY <1>1, <1>3, <1>4, <2>1 DEF Pending, Position
  <2> QED
    BY <1>1, <1>2, <1>3, <2>1, <2>2, PendingFewer, LimitAgain
<1>7. AgainDrop \/ AgainKeep => /\ AtSlide /\ i' = i /\ j' = j + 1 /\ mapsize > 0
                                /\ j \in DOMAIN regions[i].slides /\ regions[i] \in Region
                                /\ j <= Len(regions[i].slides) /\ regions[i] # NULL
                                /\ i \in DOMAIN regions
                                /\ Len(regions[i].slides) \in Nat
  <2> SUFFICES ASSUME AgainDrop \/ AgainKeep
               PROVE  /\ AtSlide /\ i' = i /\ j' = j + 1 /\ regions[i] \in Region
                      /\ j <= Len(regions[i].slides) /\ Len(regions[i].slides) \in Nat
                      /\ regions[i] # NULL
    BY DEF AtSlide, Refining
  <2>1. AtSlide /\ i' = i /\ j' = j + 1
    BY DEF AgainDrop, AgainKeep
  <2>2. regions[i] \in Region
    BY <2>1, SlideType
  <2> QED
    BY <2>1, <2>2, NullIsNoRegion, LenProperties DEF AtSlide, Region
<1>8. CASE AgainDrop
  <2>1. UNCHANGED <<newRegion, newCount>>
    BY <1>8 DEF AgainDrop
  <2>2. Pending' \subseteq Pending
    BY <1>1, <1>3, <1>4, <1>7, <1>8 DEF Pending, Position
  <2>3. newCount' + Cardinality(Pending') <= MaxSearchResults
    BY <1>1, <2>1, <2>2, PendingFewer
  <2>4. j' <= Len(regions[i].slides) + 1
    BY <1>1, <1>7, <1>8
  <2>5. newRegion' # NULL => mapsize' > 0 /\ Len(newRegion'.slides) < j'
    BY <1>1, <1>2, <1>5, <1>7, <1>8, <2>1
  <2> QED
    BY <1>1, <1>3, <1>7, <1>8, <2>3, <2>4, <2>5, LimitAgain
<1>9. CASE AgainKeep
  <2>1. newCount' = newCount + 1 /\ PushSlide(regions[i].base, regions[i].size, Slide)
    BY <1>9 DEF AgainKeep
  <2>2. newCount \in Nat /\ Slide \in Nat
    BY <1>7, <1>9, SlideType DEF TypeOK, ResultsTypeOK
  <2>3. <<i, j>> \in Pending /\ Pending' \subseteq Pending \ {<<i, j>>}
    <3>1. InSlots(<<i, j>>)
      BY <1>7, <1>9 DEF InSlots
    <3>2. <<i, j>> \in Slots
      BY <3>1, SlotsDef DEF SlotsShown
    <3> QED
      BY <1>1, <1>3, <1>4, <1>7, <1>9, <3>2 DEF Pending, Position
  <2>4. newCount' + Cardinality(Pending') <= MaxSearchResults
    <3>1. IsFiniteSet(Pending)
      BY FS_Subset DEF LimitInv, Pending
    <3>2. /\ IsFiniteSet(Pending \ {<<i, j>>})
          /\ Cardinality(Pending \ {<<i, j>>}) = Cardinality(Pending) - 1
      BY <2>3, <3>1, FS_RemoveElement
    <3>3. /\ Cardinality(Pending') <= Cardinality(Pending) - 1
          /\ Cardinality(Pending') \in Nat /\ Cardinality(Pending) \in Nat
      BY <2>3, <3>1, <3>2, FS_Subset, FS_CardinalityType
    <3> QED
      BY <1>2, <2>1, <2>2, <3>3, TypesAssumption
  <2>5. Len(newRegion'.slides) < j'
    <3> DEFINE r == IF newRegion = NULL THEN Fresh(regions[i].base, regions[i].size)
                    ELSE newRegion
    <3>1. newRegion' = [r EXCEPT !.slides = Append(r.slides, Slide)]
      BY <2>1 DEF PushSlide
    <3>2. r.slides \in Seq(Nat) /\ "slides" \in DOMAIN r /\ Len(r.slides) < j
      <4>1. CASE newRegion = NULL
        <5>1. r.slides = <<>> /\ "slides" \in DOMAIN r
          BY <4>1 DEF Fresh
        <5>2. j >= 1
          BY <1>7, <1>9, LenProperties DEF Region
        <5>3. r.slides \in Seq(Nat) /\ Len(r.slides) = 0
          BY <5>1, EmptySeq
        <5> HIDE DEF r
        <5> QED
          BY <1>1, <5>1, <5>2, <5>3
      <4>2. CASE newRegion # NULL
        BY <1>2, <4>2 DEF TypeOK, ResultsTypeOK, Region
      <4> QED
        BY <4>1, <4>2
    <3> HIDE DEF r
    <3>3. Len(newRegion'.slides) = Len(r.slides) + 1 /\ Len(r.slides) \in Nat
      BY <2>2, <3>1, <3>2, AppendProperties, LenProperties
    <3> QED
      BY <1>1, <1>7, <1>9, <3>2, <3>3
  <2>6. j' <= Len(regions[i].slides) + 1 /\ mapsize > 0
    BY <1>1, <1>7, <1>9
  <2> QED
    BY <1>1, <1>3, <1>7, <1>9, <2>4, <2>5, <2>6, LimitAgain
<1> QED
  BY <1>6, <1>8, <1>9

LEMMA LimitRefine ==
  ASSUME TypeOK, LimitInv, op = "again", RefineLoad \/ RefineNext
  PROVE  LimitInv'
<1>1. /\ op' = "again" /\ Refining /\ i \in DOMAIN regions /\ i \in Nat /\ j \in Nat
      /\ UNCHANGED <<count, firstScanDone, newCount>>
      /\ regions \in Seq(Region \cup {NULL}) /\ mapsize \in Nat
      /\ newRegion \in Region \cup {NULL}
  BY DEF RefineLoad, RefineNext, Refining, settings, TypeOK, ResultsTypeOK, LoopTypeOK
<1>2. regions[i] # NULL /\ regions[i] \in Region /\ Len(regions[i].slides) \in Nat
  <2>1. regions[i] # NULL
    BY <1>1 DEF RefineLoad, RefineNext, TypeOK, LoopTypeOK
  <2>2. regions[i] \in Region
    BY <1>1, <2>1, ElementOfSeq, LenProperties
  <2> QED
    BY <2>1, <2>2, LenProperties DEF Region
<1>3. /\ mapsize > 0 => j <= Len(regions[i].slides) + 1
      /\ newRegion # NULL => mapsize > 0 /\ Len(newRegion.slides) < j
  BY <1>1 DEF LimitInv, AgainInv
<1>4. \A s \in Slots : s[1] \in Nat /\ s[2] \in Nat \ {0}
  BY <1>1, SlotIndex
<1>5. ASSUME NEW r \in Region \cup {NULL}, ReplaceRegion(r), newRegion' = NULL, mapsize' = 0,
             mapsize = 0 \/ j > Len(regions[i].slides),
             r # NULL => Len(r.slides) <= Len(regions[i].slides)
      PROVE  LimitInv'
  <2>1. Slots' \subseteq Slots /\ i' = i + 1
    BY <1>1, <1>2, <1>5, SlotsReplaced DEF ReplaceRegion
  <2>2. Pending' \subseteq Pending
    BY <1>1, <1>4, <1>5, <2>1 DEF Pending, Position
  <2>3. newCount' + Cardinality(Pending') <= MaxSearchResults
    BY <1>1, <2>2, PendingFewer
  <2> QED
    BY <1>1, <1>5, <2>1, <2>3, LimitAgain
<1>6. CASE RefineLoad
  <2>1. mapsize = 0 /\ newRegion = NULL /\ newRegion' = NULL
    BY <1>1, <1>3, <1>6 DEF RefineLoad
  <2>2. CASE ReplaceRegion(NULL) /\ UNCHANGED <<mapsize, j>>
    BY <1>5, <2>1, <2>2
  <2>3. CASE mapsize' > 0 /\ j' = 1 /\ UNCHANGED <<regions, i>>
    <3>1. Slots' = Slots
      BY <2>3, SlotsSame
    <3>2. Pending' \subseteq Pending
      BY <2>1, <2>3, <3>1 DEF Pending, Position
    <3>3. newCount' + Cardinality(Pending') <= MaxSearchResults
      BY <1>1, <3>2, PendingFewer
    <3>4. j' <= Len(regions'[i'].slides) + 1
      BY <1>2, <2>3
    <3> QED
      BY <1>1, <2>1, <3>1, <3>3, <3>4, LimitAgain
  <2> QED
    BY <1>6, <2>2, <2>3 DEF RefineLoad
<1>7. CASE RefineNext
  <2>1. ReplaceRegion(newRegion) /\ newRegion' = NULL /\ mapsize' = 0
        /\ j > Len(regions[i].slides)
    BY <1>7 DEF RefineNext, Unloaded
  <2>2. newRegion # NULL => Len(newRegion.slides) <= Len(regions[i].slides)
    <3> SUFFICES ASSUME newRegion # NULL
                 PROVE  Len(newRegion.slides) <= Len(regions[i].slides)
      OBVIOUS
    <3>1. Len(newRegion.slides) \in Nat
      BY <1>1, LenProperties DEF Region
    <3> QED
      BY <1>1, <1>2, <1>3, <3>1
  <2> QED
    BY <1>1, <1>5, <2>1, <2>2
<1> QED
  BY <1>6, <1>7

(* A repeated search ends with the results it counted. *)
LEMMA LimitDone ==
  ASSUME TypeOK, LimitInv, op = "again", RefineDone
  PROVE  LimitInv'
<1>1. /\ Compact /\ UNCHANGED firstScanDone /\ count' = newCount /\ op' = "return"
      /\ regions \in Seq(Region \cup {NULL})
  BY DEF RefineDone, Compact, settings, TypeOK, ResultsTypeOK
<1>2. IsFiniteSet(Slots') /\ Cardinality(Slots') <= Cardinality(Slots)
  BY <1>1, SlotsCompacted DEF LimitInv
<1>3. /\ firstScanDone /\ Cardinality(Slots) <= MaxSearchResults
      /\ newCount + Cardinality(Pending) <= MaxSearchResults /\ IsFiniteSet(Slots)
  BY DEF LimitInv, AgainInv
<1>4. IsFiniteSet(Pending)
  BY <1>3, FS_Subset DEF Pending
<1>5. /\ Cardinality(Slots) \in Nat /\ Cardinality(Slots') \in Nat
      /\ Cardinality(Pending) \in Nat /\ newCount \in Nat
  BY <1>2, <1>3, <1>4, FS_CardinalityType DEF TypeOK, ResultsTypeOK
<1>6. Cardinality(Slots') <= MaxSearchResults /\ count' <= MaxSearchResults
  BY <1>1, <1>2, <1>3, <1>5, TypesAssumption
<1> QED
  BY <1>1, <1>2, <1>3, <1>6 DEF LimitInv, AgainInv

LEMMA LimitCall ==
  ASSUME NearQueries = {}, GroupQueries = {}, TypeOK, LimitInv, Call
  PROVE  LimitInv'
<1>1. ASSUME NEW query \in NumberQueries, SearchNumber(query) PROVE LimitInv'
  <2>1. /\ UNCHANGED <<regions, count, firstScanDone>> /\ newRegion' = NULL /\ i' = 1
        /\ mapsize' = 0 /\ newCount' = 0 /\ op' = IF firstScanDone THEN "again" ELSE "first"
    BY <1>1, StartType DEF SearchNumber, JJScanMemory, results
  <2>2. Slots' = Slots /\ Built' = 0 /\ Built \in Nat
    BY <2>1, SlotsSame, LenProperties DEF Built, TypeOK, ResultsTypeOK, Region
  <2>3. IsFiniteSet(Slots) /\ Cardinality(Slots) \in Nat /\ count \in Nat
    BY FS_CardinalityType DEF LimitInv, TypeOK, ResultsTypeOK
  <2>4. Pending' \subseteq Slots
    BY <2>2 DEF Pending
  <2>5. Cardinality(Pending') <= Cardinality(Slots) /\ Cardinality(Pending') \in Nat
    BY <2>3, <2>4, FS_Subset, FS_CardinalityType
  <2>6. firstScanDone => newCount' + Cardinality(Pending') <= MaxSearchResults
    BY <2>1, <2>3, <2>5, TypesAssumption DEF LimitInv
  <2>7. ~firstScanDone => Cardinality(Slots) + Built' <= count
    BY <2>2, <2>3 DEF LimitInv
  <2> QED
    BY <2>1, <2>2, <2>6, <2>7 DEF LimitInv, AgainInv
<1>2. ASSUME NEW query \in EditQueries, EditAll(query) PROVE LimitInv'
  BY <1>2, LimitKept, StartType DEF EditAll, JJWriteAll, results, settings
<1>3. ASSUME NEW d \in Tolerances, SetFloatTolerance(d) PROVE LimitInv'
  BY <1>3, LimitKept DEF SetFloatTolerance, results, frame
<1>4. CASE ClearResults
  <2>1. /\ regions' = <<>> /\ count' = 0 /\ ~firstScanDone' /\ op' = "idle"
    BY <1>4 DEF ClearResults, Reconstruct
  <2>2. Slots' = {} /\ IsFiniteSet({}) /\ Cardinality({}) = 0
    BY <2>1, FS_EmptySet DEF Slots
  <2> QED
    BY <2>1, <2>2, TypesAssumption DEF LimitInv, AgainInv, Built
<1>5. CASE GetResults
  BY <1>5, LimitKept DEF GetResults, Crash, results, settings, frame
<1> QED
  BY <1>1, <1>2, <1>3, <1>4, <1>5 DEF Call

LEMMA LimitOther ==
  ASSUME TypeOK, LimitInv,
         \/ RefineNull \/ AgainFault \/ NearFault \/ GroupNull \/ EditNull \/ EditDone
         \/ EditSlide \/ EditNext \/ Return \/ Throw
  PROVE  LimitInv'
<1>1. CASE RefineNull \/ AgainFault \/ NearFault \/ GroupNull \/ EditNull
  BY <1>1, LimitKept DEF RefineNull, AgainFault, NearFault, GroupNull, EditNull, Crash,
     results, settings, frame
<1>2. CASE EditSlide \/ EditNext \/ EditDone \/ Throw
  BY <1>2, LimitKept DEF EditSlide, EditNext, EditDone, Editing, Throw, OutOfMemory, results,
     settings, frame
<1>3. CASE Return
  BY <1>3, LimitKept, StartType DEF Return, results, settings
<1> QED
  BY <1>1, <1>2, <1>3

LEMMA LimitFirstDone ==
  ASSUME TypeOK, LimitInv, FirstDone
  PROVE  LimitInv'
<1>1. /\ op = "first" /\ op' = "return" /\ firstScanDone' /\ UNCHANGED <<regions, count, newRegion>>
  BY DEF FirstDone, results, frame
<1>2. Built \in Nat /\ Cardinality(Slots) \in Nat /\ count \in Nat
  BY FS_CardinalityType, LenProperties DEF LimitInv, Built, TypeOK, ResultsTypeOK, Region
<1>3. Cardinality(Slots) <= MaxSearchResults
  BY <1>1, <1>2, TypesAssumption DEF LimitInv
<1> QED
  BY <1>1, <1>3, SlotsSame DEF LimitInv, AgainInv

LEMMA LimitNext ==
  ASSUME NearQueries = {}, GroupQueries = {}, TypeOK, LimitInv, [Next]_vars
  PROVE  LimitInv'
<1>1. CASE Call
  BY <1>1, LimitCall
<1>2. CASE Work
  <2>1. op \notin {"near", "group"}
    BY DEF LimitInv
  <2>2. RefineLoad \/ RefineNext \/ RefineDone => op = "again"
    BY <2>1 DEF RefineLoad, RefineNext, RefineDone, Refining
  <2>3. ~ (NearMiss \/ NearFound \/ GroupDone \/ \E a \in todo : GroupFound(a) \/ GroupMiss(a))
    BY <2>1 DEF NearMiss, NearFound, GroupFound, GroupMiss, GroupDone
  <2> QED
    BY <1>2, <2>2, <2>3, LimitFirst, LimitFirstDone, LimitScan, LimitRefine, LimitDone,
       LimitOther
    DEF Work, EngineStep, ScanStep
<1>3. CASE Throw
  BY <1>3, LimitOther
<1>4. CASE Game \/ UNCHANGED vars
  BY <1>4, LimitSame DEF Game, GameStep, GameWrites, GameUnmaps, vars, engineVars,
     results, settings, frame
<1> QED
  BY <1>1, <1>2, <1>3, <1>4 DEF Next, Crashed

(* Number searches never list more than MAX_SEARCH_RESULTS results,        *)
(* however many regions they scan and whatever fails on the way; a search  *)
(* that runs out of memory and is done again from scratch adds to what the *)
(* first one listed, and stops at the limit all the same.                  *)
THEOREM NumberLimit ==
  ASSUME NearQueries = {}, GroupQueries = {}
  PROVE  Spec => []LimitRespected
<1>1. Init => LimitInv
  <2> SUFFICES ASSUME Init PROVE LimitInv
    OBVIOUS
  <2>1. Slots = {} /\ IsFiniteSet({}) /\ Cardinality({}) = 0
    BY FS_EmptySet DEF Init, Construct, Slots
  <2> QED
    BY <2>1, TypesAssumption DEF Init, Construct, LimitInv, AgainInv, Built
<1>2. LimitInv => LimitRespected
  BY DEF LimitInv, LimitRespected
<1>3. TypeOK /\ LimitInv /\ [Next]_vars => LimitInv'
  BY LimitNext
<1> QED
  BY <1>1, <1>2, <1>3, TypeCorrect, PTL DEF Spec

-----------------------------------------------------------------------------
(* The types of a region: none, or one for each slide.                     *)
Parallel(r) == HasType(r) => Len(r.types) = Len(r.slides)

(* Number searches record no types.  A nearby search records them for a    *)
(* whole region or not at all; whether it does depends on the region it    *)
(* reads, so the one under construction never mixes both.                  *)
ParInv ==
  /\ op # "group"
  /\ \A n \in DOMAIN regions : regions[n] # NULL => Parallel(regions[n])
  /\ op \in {"first", "again"} /\ newRegion # NULL => newRegion.types = <<>>
  /\ op = "near" /\ newRegion # NULL =>
       /\ mapsize > 0
       /\ IF NeedType THEN Len(newRegion.types) = Len(newRegion.slides)
          ELSE newRegion.types = <<>>

(* Steps that leave the list alone and build on no region.                 *)
LEMMA ParKept ==
  ASSUME ParInv, UNCHANGED regions, op' # "group",
         op' \in {"first", "again", "near"} => newRegion' = NULL
  PROVE  ParInv'
BY DEF ParInv, Parallel, HasType

(* Steps that leave alone all that the types depend on.                    *)
LEMMA ParSame ==
  ASSUME ParInv, UNCHANGED <<regions, newRegion, mapsize, i, q, lastNumberType>>,
         op' \in {op, "return", "crashed", "idle"}
  PROVE  ParInv'
BY DEF ParInv, Parallel, HasType, NeedType

LEMMA ParCall ==
  ASSUME GroupQueries = {}, ParInv, Call
  PROVE  ParInv'
<1>1. ASSUME NEW query \in NumberQueries, SearchNumber(query) PROVE ParInv'
  BY <1>1, StartType, ParKept DEF SearchNumber, JJScanMemory, results
<1>2. ASSUME NEW query \in NearQueries, SearchNearby(query) PROVE ParInv'
  BY <1>2, StartType, ParKept DEF SearchNearby, JJNearBySearch, results
<1>3. ASSUME NEW query \in EditQueries, EditAll(query) PROVE ParInv'
  BY <1>3, StartType, ParKept DEF EditAll, JJWriteAll, results
<1>4. ASSUME NEW d \in Tolerances, SetFloatTolerance(d) PROVE ParInv'
  BY <1>4, ParKept DEF SetFloatTolerance, results
<1>5. CASE ClearResults
  <2>1. op' = "idle" /\ regions' = <<>>
    BY <1>5 DEF ClearResults, Reconstruct
  <2> QED
    BY <2>1 DEF ParInv
<1>6. CASE GetResults
  BY <1>6, ParKept DEF GetResults, Crash, results
<1> QED
  BY <1>1, <1>2, <1>3, <1>4, <1>5, <1>6 DEF Call

(* A slide pushed by a number search leaves the types as they are.         *)
LEMMA PushTypes ==
  ASSUME TypeOK, ParInv, op \in {"first", "again"}, NEW base \in Nat, NEW size \in Nat,
         NEW slide \in Nat, PushSlide(base, size, slide)
  PROVE  newRegion'.types = <<>>
<1> DEFINE r == IF newRegion = NULL THEN Fresh(base, size) ELSE newRegion
<1>1. newRegion' = [r EXCEPT !.slides = Append(r.slides, slide)]
  BY DEF PushSlide
<1>2. r \in Region
  BY EmptySeq DEF Fresh, Region, TypeOK, ResultsTypeOK
<1>3. r.types = <<>>
  BY DEF ParInv, Fresh
<1> HIDE DEF r
<1> QED
  BY <1>1, <1>2, <1>3 DEF Region

LEMMA ParFirst ==
  ASSUME TypeOK, ParInv, NEW b \in Bases,
         FirstLoad(b) \/ FirstLimit(b) \/ FirstFound(b) \/ FirstExhausted(b)
  PROVE  ParInv'
<1>1. op = "first" /\ op' = "first"
  BY DEF FirstLoad, FirstLimit, FirstFound, FirstExhausted
<1>2. CASE FirstLoad(b)
  BY <1>1, <1>2 DEF FirstLoad, results, ParInv, Parallel, HasType
<1>3. CASE FirstFound(b)
  <2>1. PICK p \in FirstHits(b) : PushSlide(b, mapsize, p)
    BY <1>3 DEF FirstFound
  <2>2. p \in Nat /\ b \in Nat /\ mapsize \in Nat
    <3>1. q.type \in Types /\ TypeLen[q.type] \in Nat
      BY <1>1, TypesAssumption DEF TypeOK, CallTypeOK, NumberCall
    <3> QED
      BY <3>1, MemoryAssumption DEF FirstHits, Strides, TypeOK, LoopTypeOK
  <2>3. newRegion'.types = <<>>
    BY <1>1, <2>1, <2>2, PushTypes
  <2>4. UNCHANGED regions
    BY <1>3 DEF FirstFound
  <2> QED
    BY <1>1, <2>3, <2>4 DEF ParInv, Parallel, HasType
<1>4. CASE FirstLimit(b) \/ FirstExhausted(b)
  <2>1. /\ regions' = IF newRegion = NULL THEN regions ELSE Append(regions, newRegion)
        /\ newRegion' = NULL
    BY <1>4 DEF FirstLimit, FirstExhausted, LeaveRegion, Unloaded
  <2>2. regions \in Seq(Region \cup {NULL}) /\ newRegion \in Region \cup {NULL}
    BY DEF TypeOK, ResultsTypeOK
  <2>3. newRegion # NULL => Parallel(newRegion)
    BY <1>1 DEF ParInv, Parallel, HasType
  <2>4. \A n \in DOMAIN regions' : regions'[n] # NULL => Parallel(regions'[n])
    BY <2>1, <2>2, <2>3, AppendProperties DEF ParInv
  <2> QED
    BY <1>1, <2>1, <2>4 DEF ParInv, Parallel, HasType
<1> QED
  BY <1>2, <1>3, <1>4

(* A region that a refining search replaces stays parallel, or goes.       *)
LEMMA ParReplace ==
  ASSUME TypeOK, ParInv, Refining, NEW r, r = NULL \/ Parallel(r), ReplaceRegion(r)
  PROVE  \A n \in DOMAIN regions' : regions'[n] # NULL => Parallel(regions'[n])
BY DEF ReplaceRegion, ParInv, Refining

LEMMA ParAgain ==
  ASSUME TypeOK, ParInv, AgainSkip \/ AgainKeep \/ AgainDrop
  PROVE  ParInv'
<1>1. op = "again" /\ op' = "again" /\ UNCHANGED regions
  BY DEF AgainSkip, AgainKeep, AgainDrop, results
<1>2. newRegion # NULL => newRegion.types = <<>>
  BY <1>1 DEF ParInv
<1>3. newRegion' # NULL => newRegion'.types = <<>>
  <2>1. CASE AgainSkip \/ AgainDrop
    BY <1>2, <2>1 DEF AgainSkip, AgainDrop
  <2>2. CASE AgainKeep
    BY <1>1, <2>2, SlideType, PushTypes DEF AgainKeep
  <2> QED
    BY <2>1, <2>2
<1> QED
  BY <1>1, <1>3 DEF ParInv, Parallel, HasType

LEMMA ParRefine ==
  ASSUME TypeOK, ParInv, RefineLoad \/ RefineNext \/ RefineDone
  PROVE  ParInv'
<1>1. CASE RefineLoad
  <2>1. op' = op /\ op \in {"again", "near"} /\ newRegion' = newRegion /\ mapsize = 0
    BY <1>1 DEF RefineLoad, Refining
  <2>2. CASE ReplaceRegion(NULL) /\ UNCHANGED <<mapsize, j>>
    BY <1>1, <2>1, <2>2, ParReplace DEF RefineLoad, ParInv
  <2>3. CASE UNCHANGED <<regions, i>>
    BY <1>1, <2>1, <2>3 DEF ParInv, Parallel, HasType
  <2> QED
    BY <1>1, <2>2, <2>3 DEF RefineLoad
<1>2. CASE RefineNext
  <2>1. op' = op /\ op \in {"again", "near"} /\ Refining /\ newRegion' = NULL
    BY <1>2 DEF RefineNext, Refining, Unloaded
  <2>2. newRegion = NULL \/ Parallel(newRegion)
    BY <2>1 DEF ParInv, Parallel, HasType
  <2>3. \A n \in DOMAIN regions' : regions'[n] # NULL => Parallel(regions'[n])
    BY <1>2, <2>1, <2>2, ParReplace DEF RefineNext
  <2> QED
    BY <2>1, <2>3 DEF ParInv, Parallel, HasType
<1>3. CASE RefineDone
  <2>1. PICK g \in Sorted({n \in DOMAIN regions : regions[n] # NULL}) :
          regions' = [n \in DOMAIN g |-> regions[g[n]]]
    BY <1>3 DEF RefineDone, Compact
  <2>2. \A n \in DOMAIN g : g[n] \in DOMAIN regions
    BY <2>1 DEF Sorted
  <2>3. op' = "return"
    BY <1>3 DEF RefineDone, Compact
  <2> QED
    BY <2>1, <2>2, <2>3 DEF ParInv, Parallel, HasType
<1> QED
  BY <1>1, <1>2, <1>3

(* A window adds a type for each slide it adds, or none.                   *)
LEMMA PushFoundTypes ==
  ASSUME TypeOK, ParInv, op = "near", AtSlide,
         NEW keys, IsFiniteSet(keys), keys \subseteq Nat, NEW partners,
         PushFound(keys, partners)
  PROVE  IF NeedType THEN Len(newRegion'.types) = Len(newRegion'.slides)
         ELSE newRegion'.types = <<>>
<1> DEFINE r == IF newRegion = NULL THEN Fresh(regions[i].base, regions[i].size)
                ELSE newRegion
<1>1. r \in Region
  BY SlideType, EmptySeq DEF Fresh, Region, TypeOK, ResultsTypeOK
<1>2. IF NeedType THEN Len(r.types) = Len(r.slides) ELSE r.types = <<>>
  <2>1. CASE newRegion = NULL
    <3>1. r.types = <<>> /\ r.slides = <<>>
      BY <2>1 DEF Fresh
    <3> QED
      BY <3>1
  <2>2. CASE newRegion # NULL
    BY <2>2 DEF ParInv
  <2> QED
    BY <2>1, <2>2
<1>3. PICK g \in Sorted(keys) : \E ty \in [DOMAIN g -> Types \cup {NoType}] :
        newRegion' = [r EXCEPT !.slides = @ \o g,
                               !.types = IF NeedType THEN @ \o ty ELSE @]
  BY DEF PushFound
<1> PICK ty \in [DOMAIN g -> Types \cup {NoType}] :
        newRegion' = [r EXCEPT !.slides = @ \o g,
                               !.types = IF NeedType THEN @ \o ty ELSE @]
  BY <1>3
<1>4. g \in Seq(Nat) /\ DOMAIN g = 1 .. Len(g) /\ Len(g) \in Nat
  BY SortedSeq, SeqMonotonic, LenProperties
<1>5. ty \in Seq(Types \cup {NoType}) /\ Len(ty) = Len(g)
  <2>1. ty \in [1 .. Len(g) -> Types \cup {NoType}]
    BY <1>4
  <2>2. ty \in Seq(Types \cup {NoType})
    BY <1>4, <2>1, SeqDef
  <2> QED
    BY <1>4, <2>1, <2>2, LenProperties
<1> HIDE DEF r
<1>6. newRegion'.slides = r.slides \o g
  BY <1>1 DEF Region
<1>7. newRegion'.types = IF NeedType THEN r.types \o ty ELSE r.types
  BY <1>1 DEF Region
<1>8. /\ Len(r.slides \o g) = Len(r.slides) + Len(g)
      /\ Len(r.types \o ty) = Len(r.types) + Len(ty)
  <2>1. r.slides \in Seq(Nat) /\ r.types \in Seq(Types \cup {NoType})
    BY <1>1 DEF Region
  <2> QED
    BY <1>4, <1>5, <2>1, ConcatProperties
<1> QED
  BY <1>2, <1>5, <1>6, <1>7, <1>8

LEMMA ParNear ==
  ASSUME TypeOK, ParInv, NearMiss \/ NearFound
  PROVE  ParInv'
<1>1. /\ op = "near" /\ op' = "near" /\ AtSlide
      /\ UNCHANGED <<regions, mapsize, i, q, lastNumberType>>
  BY DEF NearMiss, NearFound, results, settings
<1>2. CASE NearMiss
  BY <1>1, <1>2, ParSame DEF NearMiss
<1>3. CASE NearFound
  <2>1. PICK stray \in SUBSET Faulty :
          LET hits == WindowHits \cup stray
              partners == Partners(hits)
          IN PushFound(hits \cup {regions[i].slides[o] : o \in partners}, partners)
    BY <1>3 DEF NearFound
  <2> DEFINE hits == WindowHits \cup stray
             partners == Partners(hits)
             keys == hits \cup {regions[i].slides[o] : o \in partners}
  <2>2. IsFiniteSet(keys) /\ keys \subseteq Nat
    BY <1>1, NearKeys
  <2>3. PushFound(keys, partners)
    BY <2>1
  <2>4. IF NeedType THEN Len(newRegion'.types) = Len(newRegion'.slides)
        ELSE newRegion'.types = <<>>
    <3> HIDE DEF keys, partners
    <3> QED
      BY <1>1, <2>2, <2>3, PushFoundTypes
  <2>5. NeedType' = NeedType /\ mapsize > 0
    BY <1>1 DEF NeedType, HasType, AtSlide
  <2> QED
    BY <1>1, <2>4, <2>5 DEF ParInv, Parallel, HasType
<1> QED
  BY <1>2, <1>3

LEMMA ParOther ==
  ASSUME ParInv,
         \/ FirstDone \/ RefineNull \/ AgainFault \/ NearFault
         \/ EditNull \/ EditSlide \/ EditNext \/ EditDone \/ Return \/ Throw
  PROVE  ParInv'
<1>1. CASE FirstDone \/ RefineNull \/ AgainFault \/ NearFault \/ EditNull \/ Throw
  BY <1>1, ParKept DEF FirstDone, RefineNull, AgainFault, NearFault, EditNull, Throw,
     OutOfMemory, Crash, results
<1>2. CASE EditSlide \/ EditNext \/ EditDone \/ Return
  BY <1>2, ParKept DEF EditSlide, EditNext, EditDone, Editing, Return, results
<1> QED
  BY <1>1, <1>2

LEMMA ParNext ==
  ASSUME GroupQueries = {}, TypeOK, ParInv, [Next]_vars
  PROVE  ParInv'
<1>1. CASE Call
  BY <1>1, ParCall
<1>2. CASE Work
  <2>1. op # "group"
    BY DEF ParInv
  <2> QED
    BY <1>2, <2>1, ParFirst, ParAgain, ParRefine, ParNear, ParOther
    DEF Work, EngineStep, ScanStep, GroupFound, GroupMiss, GroupDone, GroupNull
<1>3. CASE Throw
  BY <1>3, ParOther
<1>4. CASE Game \/ UNCHANGED vars
  BY <1>4, ParSame DEF Game, GameStep, GameWrites, GameUnmaps, vars, engineVars,
     results, settings, frame
<1> QED
  BY <1>1, <1>2, <1>3, <1>4 DEF Next, Crashed

(* getResultsAndTypes and searchNearby index the types of a region by the  *)
(* index of a slide: without group searches there is a type for each slide *)
(* or there are none, whatever runs out, faults or is unmapped.            *)
THEOREM TypesStayParallel ==
  ASSUME GroupQueries = {}
  PROVE  Spec => []TypesParallel
<1>1. Init => ParInv
  BY DEF Init, Construct, ParInv
<1>2. ParInv => TypesParallel
  BY DEF ParInv, Parallel, TypesParallel
<1>3. TypeOK /\ ParInv /\ [Next]_vars => ParInv'
  BY ParNext
<1> QED
  BY <1>1, <1>2, <1>3, TypeCorrect, PTL DEF Spec

-----------------------------------------------------------------------------
(* The count of results.  The regions of a task do not overlap.            *)
Disjoint == \A b, c \in Bases : b < c => b + Size[b] <= c

(* The addresses that the count stands for: in a repeated search, those    *)
(* kept so far; and those of the region under construction.                *)
HasAddress(r, a) == r # NULL /\ \E k \in DOMAIN r.slides : a = Address(r, k)
Counts(a) == /\ a \in Nat
             /\ \/ HasAddress(newRegion, a)
                \/ \E n \in DOMAIN regions : /\ op = "again" => n < i
                                             /\ HasAddress(regions[n], a)
Counted == {a \in Nat : Counts(a)}
Tally == IF op = "again" THEN newCount ELSE count
Tallied == IsFiniteSet(Counted) /\ Tally = Cardinality(Counted)
CountInv == op # "crashed" => /\ newRegion # NULL => op \in {"first", "again"}
                              /\ Tallied

(* No address is counted twice: the slides of a region differ and lie in   *)
(* it, and no two regions of the list are the same one.                    *)
Inside(r) == /\ \A k, l \in DOMAIN r.slides : r.slides[k] = r.slides[l] => k = l
             /\ \A k \in DOMAIN r.slides : r.slides[k] < Size[r.base]
OnceInv ==
  /\ op \notin {"near", "group"}
  /\ \A m, n \in DOMAIN regions :
       regions[m] # NULL /\ regions[n] # NULL /\ regions[m].base = regions[n].base => m = n
  /\ \A n \in DOMAIN regions : regions[n] # NULL => Inside(regions[n])
  /\ newRegion # NULL /\ op \in {"first", "again"} => mapsize > 0 /\ Inside(newRegion)
  /\ op = "first" =>
       /\ \A n \in DOMAIN regions : regions[n] # NULL => regions[n].base \notin todo
       /\ newRegion # NULL => Current(newRegion.base)
       /\ \A s : HasSlide(newRegion, s) => s < j
  /\ newRegion # NULL /\ op = "again" =>
       /\ newRegion.base = regions[i].base
       /\ \A s : HasSlide(newRegion, s) =>
            \E k \in DOMAIN regions[i].slides : k < j /\ s = regions[i].slides[k]

CountedShows == \A a : a \in Counted <=> Counts(a)
LEMMA CountedDef == CountedShows
  BY DEF CountedShows, Counted, Counts

(* A step that counts the same addresses.                                  *)
LEMMA TallySame ==
  ASSUME Tallied, \A a : Counts(a)' <=> Counts(a), Tally' = Tally
  PROVE  Tallied'
<1>1. CountedShows'
  BY CountedDef, PTL
<1>2. Counted' = Counted
  BY <1>1, CountedDef DEF CountedShows
<1> QED
  BY <1>2 DEF Tallied

(* A step that counts one more.                                            *)
LEMMA TallyMore ==
  ASSUME Tallied, NEW b, ~Counts(b), \A a : Counts(a)' <=> a = b \/ Counts(a),
         Tally' = Tally + 1
  PROVE  Tallied'
<1>1. CountedShows'
  BY CountedDef, PTL
<1>2. Counted' = Counted \cup {b} /\ b \notin Counted
  BY <1>1, CountedDef DEF CountedShows
<1> QED
  BY <1>2, FS_AddElement DEF Tallied

(* A step that starts to count.                                            *)
LEMMA TallyNone ==
  ASSUME \A a : ~Counts(a)', Tally' = 0
  PROVE  Tallied'
<1>1. CountedShows'
  BY CountedDef, PTL
<1>2. Counted' = {}
  BY <1>1 DEF CountedShows
<1> QED
  BY <1>2, FS_EmptySet DEF Tallied

(* The addresses of different regions differ.                              *)
LEMMA OwnAddresses ==
  ASSUME Disjoint, NEW r \in Region, NEW s \in Region, r.base \in Bases, s.base \in Bases,
         Inside(r), Inside(s), NEW a, HasAddress(r, a), HasAddress(s, a)
  PROVE  r.base = s.base
<1>1. PICK k \in DOMAIN r.slides : a = r.base + r.slides[k]
  BY DEF HasAddress, Address
<1>2. PICK l \in DOMAIN s.slides : a = s.base + s.slides[l]
  BY DEF HasAddress, Address
<1>3. r.slides[k] \in Nat /\ s.slides[l] \in Nat /\ r.base \in Nat /\ s.base \in Nat
  BY SlidesType DEF Region
<1>4. r.slides[k] < Size[r.base] /\ s.slides[l] < Size[s.base]
  BY DEF Inside
<1>5. Size[r.base] \in Nat /\ Size[s.base] \in Nat
  BY MemoryAssumption
<1>6. /\ r.base < s.base => r.base + Size[r.base] <= s.base
      /\ s.base < r.base => s.base + Size[s.base] <= r.base
  BY DEF Disjoint
<1> QED
  BY <1>1, <1>2, <1>3, <1>4, <1>5, <1>6

(* A new slide keeps the slides of the region under construction apart,    *)
(* and gives it one more address.                                          *)
LEMMA PushOnce ==
  ASSUME TypeOK, NEW base \in Nat, NEW size \in Nat, NEW slide \in Nat,
         PushSlide(base, size, slide), slide < Size[base],
         newRegion # NULL => newRegion.base = base /\ Inside(newRegion),
         ~HasSlide(newRegion, slide)
  PROVE  /\ Inside(newRegion') /\ newRegion'.base = base
         /\ \A a : HasAddress(newRegion', a) <=> a = base + slide \/ HasAddress(newRegion, a)
<1>1. /\ newRegion' \in Region /\ newRegion' # NULL /\ newRegion'.base = base
      /\ \A s : HasSlide(newRegion', s) <=> s = slide \/ HasSlide(newRegion, s)
  BY PushShape
<1>2. \A a : HasAddress(newRegion', a) <=> a = base + slide \/ HasAddress(newRegion, a)
  BY <1>1 DEF HasAddress, HasSlide, Address
<1> DEFINE r == IF newRegion = NULL THEN Fresh(base, size) ELSE newRegion
<1>3. r \in Region
  BY EmptySeq DEF Fresh, Region, TypeOK, ResultsTypeOK
<1>4. newRegion' = [r EXCEPT !.slides = Append(r.slides, slide)]
  BY DEF PushSlide
<1>5. /\ \A k, l \in DOMAIN r.slides : r.slides[k] = r.slides[l] => k = l
      /\ \A k \in DOMAIN r.slides : r.slides[k] # slide /\ r.slides[k] < Size[base]
  BY DEF Fresh, Inside, HasSlide
<1> HIDE DEF r
<1>6. r.slides \in Seq(Nat)
  BY <1>3 DEF Region
<1>7. newRegion'.slides = Append(r.slides, slide)
  BY <1>3, <1>4 DEF Region
<1>8. /\ DOMAIN r.slides = 1 .. Len(r.slides) /\ Len(r.slides) \in Nat
      /\ DOMAIN Append(r.slides, slide) = 1 .. (Len(r.slides) + 1)
      /\ Append(r.slides, slide)[Len(r.slides) + 1] = slide
      /\ \A k \in 1 .. Len(r.slides) : Append(r.slides, slide)[k] = r.slides[k]
  BY <1>6, LenProperties, AppendProperties
<1>9. \A k \in 1 .. (Len(r.slides) + 1) : k \in 1 .. Len(r.slides) \/ k = Len(r.slides) + 1
  BY <1>8
<1>10. \A k, l \in DOMAIN Append(r.slides, slide) :
         Append(r.slides, slide)[k] = Append(r.slides, slide)[l] => k = l
  BY <1>5, <1>8, <1>9
<1>11. \A k \in DOMAIN Append(r.slides, slide) : Append(r.slides, slide)[k] < Size[base]
  BY <1>5, <1>8, <1>9
<1> QED
  BY <1>1, <1>2, <1>7, <1>10, <1>11 DEF Inside

-----------------------------------------------------------------------------
(* The inductive invariant of the count.                                   *)
CountedInv == MetInv /\ OnceInv /\ CountInv

(* What a region of the list, and the one under construction, stand on.    *)
LEMMA CountedGround ==
  ASSUME TypeOK, CountedInv
  PROVE  /\ regions \in Seq(Region \cup {NULL})
         /\ \A n \in DOMAIN regions : regions[n] # NULL =>
              regions[n] \in Region /\ regions[n].base \in Bases /\ Inside(regions[n])
         /\ newRegion # NULL => newRegion \in Region
         /\ \A a, n : n \in DOMAIN regions /\ HasAddress(regions[n], a) => a \in Nat
<1>1. /\ regions \in Seq(Region \cup {NULL}) /\ newRegion \in Region \cup {NULL}
  BY DEF TypeOK, ResultsTypeOK
<1>2. \A n \in DOMAIN regions : regions[n] # NULL =>
        regions[n] \in Region /\ regions[n].base \in Bases /\ Inside(regions[n])
  <2> SUFFICES ASSUME NEW n \in DOMAIN regions, regions[n] # NULL
               PROVE  regions[n] \in Region /\ regions[n].base \in Bases /\ Inside(regions[n])
    OBVIOUS
  <2>1. regions[n] \in Region
    BY <1>1, ElementOfSeq
  <2>2. Met(regions[n]) /\ Inside(regions[n])
    BY DEF CountedInv, MetInv, OnceInv
  <2> QED
    BY <2>1, <2>2, MemoryAssumption DEF Met
<1> QED
  BY <1>1, <1>2, SlidesType DEF HasAddress

LEMMA CountFirstLoad ==
  ASSUME TypeOK, CountedInv, NEW b \in Bases, FirstLoad(b)
  PROVE  OnceInv' /\ CountInv'
<1>1. /\ op = "first" /\ op' = op /\ mapsize = 0 /\ todo' \subseteq todo
      /\ UNCHANGED <<regions, newRegion, count, newCount, i, j>>
  BY DEF FirstLoad, results
<1>2. newRegion = NULL
  BY <1>1 DEF CountedInv, OnceInv
<1>3. OnceInv'
  BY <1>1, <1>2 DEF CountedInv, OnceInv, HasSlide, Inside
<1>4. \A a : Counts(a)' <=> Counts(a)
  BY <1>1 DEF Counts, HasAddress, Address
<1>5. Tally' = Tally
  BY <1>1 DEF Tally
<1> QED
  BY <1>1, <1>2, <1>3, <1>4, <1>5, TallySame DEF CountedInv, CountInv

(* A region left behind is counted where it now stands.                    *)
LEMMA CountFirstLeave ==
  ASSUME TypeOK, CountedInv, NEW b \in Bases, FirstLimit(b) \/ FirstExhausted(b)
  PROVE  OnceInv' /\ CountInv'
<1>1. /\ op = "first" /\ op' = op /\ Current(b) /\ UNCHANGED <<count, newCount>>
      /\ regions' = IF newRegion = NULL THEN regions ELSE Append(regions, newRegion)
      /\ todo' = todo \ {b} /\ newRegion' = NULL
  BY DEF FirstLimit, FirstExhausted, LeaveRegion, Unloaded
<1>2. newRegion # NULL => newRegion.base = b /\ b \in todo /\ Inside(newRegion)
  BY <1>1, OneCurrent DEF CountedInv, OnceInv, Current
<1>3. /\ \A n \in DOMAIN regions : n \in DOMAIN regions' /\ regions'[n] = regions[n]
      /\ \A n \in DOMAIN regions' : n \in DOMAIN regions \/ regions'[n] = newRegion
      /\ newRegion # NULL => /\ DOMAIN regions' = 1 .. (Len(regions) + 1)
                             /\ DOMAIN regions = 1 .. Len(regions)
                             /\ regions'[Len(regions) + 1] = newRegion
                             /\ Len(regions) + 1 \in DOMAIN regions'
  <2>1. regions \in Seq(Region \cup {NULL}) /\ newRegion \in Region \cup {NULL}
    BY DEF TypeOK, ResultsTypeOK
  <2> QED
    BY <1>1, <2>1, AppendProperties, LenProperties
<1>4. \A n \in DOMAIN regions : regions[n] # NULL => regions[n].base \notin todo
  BY <1>1 DEF CountedInv, OnceInv
<1>5. ASSUME NEW m \in DOMAIN regions', NEW n \in DOMAIN regions',
             regions'[m] # NULL, regions'[n] # NULL, regions'[m].base = regions'[n].base
      PROVE  m = n
  <2>1. CASE newRegion = NULL
    BY <1>1, <1>5, <2>1 DEF CountedInv, OnceInv
  <2>2. CASE newRegion # NULL
    <3>1. Len(regions) \in Nat
      BY DEF TypeOK, ResultsTypeOK
    <3>2. /\ m \in DOMAIN regions \/ m = Len(regions) + 1
          /\ n \in DOMAIN regions \/ n = Len(regions) + 1
      BY <1>3, <2>2, <3>1
    <3>3. CASE m \in DOMAIN regions /\ n \in DOMAIN regions
      BY <1>3, <1>5, <3>3 DEF CountedInv, OnceInv
    <3>4. CASE m = Len(regions) + 1 \/ n = Len(regions) + 1
      BY <1>2, <1>3, <1>4, <1>5, <2>2, <3>2, <3>4
    <3> QED
      BY <3>2, <3>3, <3>4
  <2> QED
    BY <2>1, <2>2
<1>6. \A n \in DOMAIN regions' : regions'[n] # NULL =>
        Inside(regions'[n]) /\ regions'[n].base \notin todo'
  BY <1>1, <1>2, <1>3, <1>4 DEF CountedInv, OnceInv
<1>7. OnceInv'
  BY <1>1, <1>5, <1>6 DEF OnceInv, HasSlide, Inside
<1>8. \A a : Counts(a)' <=> Counts(a)
  <2>1. ASSUME NEW a, HasAddress(newRegion, a) PROVE \E n \in DOMAIN regions' : HasAddress(regions'[n], a)
    BY <1>3, <2>1 DEF HasAddress
  <2>2. \A a : ~HasAddress(newRegion', a)
    BY <1>1 DEF HasAddress
  <2>3. \A a : (\E n \in DOMAIN regions' : HasAddress(regions'[n], a)) <=>
               HasAddress(newRegion, a) \/ \E n \in DOMAIN regions : HasAddress(regions[n], a)
    BY <1>3, <2>1
  <2>4. \A a : Counts(a)' <=> a \in Nat /\ (HasAddress(newRegion', a)
                               \/ \E n \in DOMAIN regions' : HasAddress(regions'[n], a))
    BY <1>1 DEF Counts, HasAddress, Address
  <2> QED
    BY <1>1, <2>2, <2>3, <2>4 DEF Counts
<1>9. Tally' = Tally
  BY <1>1 DEF Tally
<1> QED
  BY <1>1, <1>7, <1>8, <1>9, TallySame DEF CountedInv, CountInv

LEMMA CountFirstFound ==
  ASSUME Disjoint, TypeOK, CountedInv, NEW b \in Bases, FirstFound(b)
  PROVE  OnceInv' /\ CountInv'
<1>1. /\ op = "first" /\ op' = op /\ Current(b) /\ mapsize > 0 /\ count' = count + 1
      /\ UNCHANGED <<regions, todo, i, mapsize, newCount>>
  BY DEF FirstFound
<1>2. PICK p \in FirstHits(b) : PushSlide(b, mapsize, p) /\ j' = p + TypeLen[q.type]
  BY DEF FirstFound
<1>3. /\ b \in todo /\ b \in Nat /\ Size[b] \in Nat /\ mapsize <= Size[b]
  BY <1>1, MemoryAssumption DEF CountedInv, MetInv, Current
<1>4. TypeLen[q.type] \in Nat \ {0} /\ j \in Nat /\ mapsize \in Nat
  BY <1>1, TypesAssumption, QueriesAssumption DEF CountedInv, MetInv, NumberCall, TypeOK,
     LoopTypeOK
<1>5. p \in Nat /\ j <= p /\ p < Size[b] /\ p < j'
  <2>1. p \in j .. (mapsize - TypeLen[q.type])
    BY DEF FirstHits, Strides
  <2> QED
    BY <1>2, <1>3, <1>4, <2>1
<1>6. newRegion # NULL => newRegion.base = b /\ Inside(newRegion) /\ newRegion \in Region
  BY <1>1, OneCurrent, CountedGround DEF CountedInv, OnceInv
<1>7. \A s : HasSlide(newRegion, s) => s < j
  BY <1>1 DEF CountedInv, OnceInv
<1>8. ~HasSlide(newRegion, p)
  BY <1>4, <1>5, <1>7
<1>9. /\ Inside(newRegion') /\ newRegion'.base = b
      /\ \A a : HasAddress(newRegion', a) <=> a = b + p \/ HasAddress(newRegion, a)
  BY <1>2, <1>3, <1>4, <1>5, <1>6, <1>8, PushOnce
<1>10. /\ newRegion' \in Region
       /\ \A s : HasSlide(newRegion', s) <=> s = p \/ HasSlide(newRegion, s)
  BY <1>2, <1>3, <1>4, <1>5, PushShape
<1>11. \A s : HasSlide(newRegion', s) => s < j'
  <2>1. ASSUME NEW s, HasSlide(newRegion, s) PROVE s < j'
    <3>1. s \in Nat /\ s < j
      BY <1>6, <1>7, <2>1, SlideNat DEF HasSlide
    <3> QED
      BY <1>4, <1>5, <3>1, <1>2
  <2> QED
    BY <1>5, <1>10, <2>1
<1>12. OnceInv'
  BY <1>1, <1>9, <1>11 DEF CountedInv, OnceInv, Current, HasSlide, Inside
<1>13. ~Counts(b + p)
  <2>1. ~HasAddress(newRegion, b + p)
    <3> SUFFICES ASSUME HasAddress(newRegion, b + p) PROVE FALSE
      OBVIOUS
    <3>1. PICK k \in DOMAIN newRegion.slides : b + p = newRegion.base + newRegion.slides[k]
      BY DEF HasAddress, Address
    <3>2. newRegion.slides[k] \in Nat /\ newRegion # NULL
      BY <1>6, SlidesType DEF HasAddress
    <3>3. newRegion.slides[k] = p
      BY <1>3, <1>5, <1>6, <3>1, <3>2
    <3> QED
      BY <1>8, <3>2, <3>3 DEF HasSlide
  <2>2. ASSUME NEW n \in DOMAIN regions, HasAddress(regions[n], b + p) PROVE FALSE
    <3>1. /\ regions[n] # NULL /\ regions[n] \in Region /\ regions[n].base \in Bases
          /\ Inside(regions[n]) /\ regions[n].base # b
      BY <1>1, <1>3, <2>2, CountedGround DEF HasAddress, CountedInv, OnceInv
    <3>2. HasAddress(newRegion', b + p)
      BY <1>9
    <3> QED
      BY <1>9, <1>10, <2>2, <3>1, <3>2, OwnAddresses
  <2> QED
    BY <2>1, <2>2 DEF Counts
<1>14. \A a : Counts(a)' <=> a = b + p \/ Counts(a)
  <2>1. b + p \in Nat
    BY <1>3, <1>5
  <2> QED
    BY <1>1, <1>9, <2>1 DEF Counts, HasAddress, Address
<1>15. Tally' = Tally + 1
  BY <1>1 DEF Tally
<1> QED
  BY <1>1, <1>12, <1>13, <1>14, <1>15, TallyMore DEF CountedInv, CountInv

(* A region of the list in the place of another of the same base, or of    *)
(* none, is counted for itself from then on.                               *)
LEMMA CountReplace ==
  ASSUME TypeOK, CountedInv, op = "again", Refining, regions[i] # NULL, NEW r,
         ReplaceRegion(r), r # NULL => r.base = regions[i].base /\ Inside(r),
         op' = op, newRegion' = NULL, UNCHANGED <<count, newCount>>,
         r # newRegion => r = NULL /\ newRegion = NULL
  PROVE  OnceInv' /\ CountInv'
<1>1. /\ i \in DOMAIN regions /\ i' = i + 1 /\ regions' = [regions EXCEPT ![i] = r]
  BY DEF Refining, ReplaceRegion
<1>2. /\ DOMAIN regions' = DOMAIN regions /\ regions'[i] = r
      /\ \A n \in DOMAIN regions : n # i => regions'[n] = regions[n]
      /\ i \in Nat /\ \A n \in DOMAIN regions : n \in Nat
  BY <1>1 DEF TypeOK, ResultsTypeOK
<1>3. ASSUME NEW m \in DOMAIN regions', NEW n \in DOMAIN regions',
             regions'[m] # NULL, regions'[n] # NULL, regions'[m].base = regions'[n].base
      PROVE  m = n
  <2>1. /\ regions[m] # NULL /\ regions[m].base = regions'[m].base
        /\ regions[n] # NULL /\ regions[n].base = regions'[n].base
    BY <1>2, <1>3
  <2> QED
    BY <1>2, <1>3, <2>1 DEF CountedInv, OnceInv
<1>4. \A n \in DOMAIN regions' : regions'[n] # NULL => Inside(regions'[n])
  BY <1>2 DEF CountedInv, OnceInv
<1>5. OnceInv'
  BY <1>3, <1>4 DEF OnceInv, Inside
<1>6. \A a : Counts(a)' <=> Counts(a)
  <2>1. \A n \in DOMAIN regions : n < i' <=> n < i \/ n = i
    BY <1>1, <1>2
  <2>2. \A a : (\E n \in DOMAIN regions : n < i' /\ HasAddress(regions'[n], a)) <=>
               HasAddress(r, a) \/ \E n \in DOMAIN regions : n < i /\ HasAddress(regions[n], a)
    BY <1>1, <1>2, <2>1
  <2>3. \A a : ~HasAddress(newRegion', a)
    BY DEF HasAddress
  <2>4. \A a : Counts(a)' <=> a \in Nat /\ (HasAddress(newRegion', a)
                  \/ \E n \in DOMAIN regions : n < i' /\ HasAddress(regions'[n], a))
    BY <1>2 DEF Counts, HasAddress, Address
  <2>5. \A a : Counts(a) <=> a \in Nat /\ (HasAddress(newRegion, a)
                  \/ \E n \in DOMAIN regions : n < i /\ HasAddress(regions[n], a))
    BY DEF Counts
  <2>6. \A a : HasAddress(r, a) <=> HasAddress(newRegion, a)
    OBVIOUS
  <2> QED
    BY <2>2, <2>3, <2>4, <2>5, <2>6
<1>7. Tally' = Tally
  BY DEF Tally
<1> QED
  BY <1>5, <1>6, <1>7, TallySame DEF CountedInv, CountInv

LEMMA CountKeep ==
  ASSUME Disjoint, TypeOK, CountedInv, AgainKeep
  PROVE  OnceInv' /\ CountInv'
<1>1. /\ op = "again" /\ op' = op /\ AtSlide /\ newCount' = newCount + 1 /\ j' = j + 1
      /\ PushSlide(regions[i].base, regions[i].size, Slide)
      /\ UNCHANGED <<regions, count, i, mapsize>>
  BY DEF AgainKeep, results
<1>2. /\ i \in DOMAIN regions /\ regions[i] # NULL /\ mapsize > 0
      /\ j \in DOMAIN regions[i].slides /\ Slide = regions[i].slides[j]
  BY <1>1 DEF AtSlide, Refining, Slide, TypeOK, LoopTypeOK
<1>3. /\ regions[i] \in Region /\ regions[i].base \in Nat /\ regions[i].size \in Nat
      /\ Slide \in Nat
  BY <1>1, SlideType
<1>4. regions[i].base \in Bases /\ Inside(regions[i])
  BY <1>2, CountedGround
<1>5. Slide < Size[regions[i].base] /\ j \in Nat
  BY <1>2, <1>4 DEF Inside, TypeOK, LoopTypeOK
<1>6. newRegion # NULL => /\ newRegion.base = regions[i].base /\ Inside(newRegion)
                          /\ newRegion \in Region
  BY <1>1, CountedGround DEF CountedInv, OnceInv
<1>7. \A s : HasSlide(newRegion, s) =>
        \E k \in DOMAIN regions[i].slides : k < j /\ s = regions[i].slides[k]
  BY <1>1 DEF CountedInv, OnceInv, HasSlide
<1>8. ~HasSlide(newRegion, Slide)
  <2> SUFFICES ASSUME HasSlide(newRegion, Slide) PROVE FALSE
    OBVIOUS
  <2>1. PICK k \in DOMAIN regions[i].slides : k < j /\ Slide = regions[i].slides[k]
    BY <1>7
  <2>2. k = j
    BY <1>2, <1>4, <2>1 DEF Inside
  <2> QED
    BY <1>5, <2>1, <2>2
<1>9. /\ Inside(newRegion') /\ newRegion'.base = regions[i].base
      /\ \A a : HasAddress(newRegion', a) <=>
                a = regions[i].base + Slide \/ HasAddress(newRegion, a)
  BY <1>1, <1>3, <1>5, <1>6, <1>8, PushOnce
<1>10. /\ newRegion' \in Region
       /\ \A s : HasSlide(newRegion', s) <=> s = Slide \/ HasSlide(newRegion, s)
  BY <1>1, <1>3, PushShape
<1>11. \A s : HasSlide(newRegion', s) =>
         \E k \in DOMAIN regions[i].slides : k < j + 1 /\ s = regions[i].slides[k]
  <2>1. \A k \in DOMAIN regions[i].slides : k \in Nat
    BY <1>3 DEF Region
  <2>2. ASSUME NEW s, HasSlide(newRegion, s)
        PROVE  \E k \in DOMAIN regions[i].slides : k < j + 1 /\ s = regions[i].slides[k]
    BY <1>5, <1>7, <2>1, <2>2
  <2> QED
    BY <1>2, <1>5, <1>10, <2>2
<1>12. OnceInv'
  BY <1>1, <1>2, <1>9, <1>11 DEF CountedInv, OnceInv, HasSlide, Inside
<1> DEFINE b == regions[i].base + Slide
<1>13. ~Counts(b)
  <2>1. ~HasAddress(newRegion, b)
    <3> SUFFICES ASSUME HasAddress(newRegion, b) PROVE FALSE
      OBVIOUS
    <3>1. PICK k \in DOMAIN newRegion.slides : b = newRegion.base + newRegion.slides[k]
      BY DEF HasAddress, Address
    <3>2. newRegion.slides[k] \in Nat /\ newRegion # NULL
      BY <1>6, SlidesType DEF HasAddress
    <3>3. newRegion.slides[k] = Slide
      BY <1>3, <1>6, <3>1, <3>2
    <3> QED
      BY <1>8, <3>2, <3>3 DEF HasSlide
  <2>2. ASSUME NEW n \in DOMAIN regions, n < i, HasAddress(regions[n], b) PROVE FALSE
    <3>1. /\ regions[n] # NULL /\ regions[n] \in Region /\ regions[n].base \in Bases
          /\ Inside(regions[n])
      BY <2>2, CountedGround DEF HasAddress
    <3>2. HasAddress(newRegion', b)
      BY <1>9
    <3>3. regions[n].base = regions[i].base
      BY <1>4, <1>9, <1>10, <2>2, <3>1, <3>2, OwnAddresses
    <3>4. n = i /\ i \in Nat
      BY <1>2, <3>1, <3>3 DEF CountedInv, OnceInv, TypeOK, LoopTypeOK
    <3> QED
      BY <2>2, <3>4
  <2> QED
    BY <1>1, <2>1, <2>2 DEF Counts
<1>14. \A a : Counts(a)' <=> a = b \/ Counts(a)
  <2>1. b \in Nat
    BY <1>3
  <2> HIDE DEF b
  <2>2. \A a : HasAddress(newRegion', a) <=> a = b \/ HasAddress(newRegion, a)
    BY <1>9 DEF b
  <2> QED
    BY <1>1, <2>1, <2>2 DEF Counts, HasAddress, Address
<1>15. Tally' = Tally + 1
  BY <1>1 DEF Tally
<1> HIDE DEF b
<1> QED
  BY <1>1, <1>12, <1>13, <1>14, <1>15, TallyMore DEF CountedInv, CountInv

LEMMA CountRefine ==
  ASSUME SameRegions, Disjoint, TypeOK, CountedInv,
         AgainSkip \/ RefineLoad \/ RefineNext \/ AgainKeep \/ AgainDrop
  PROVE  OnceInv' /\ CountInv'
<1>1. op \in {"again", "near"} /\ op # "near" /\ ~AgainSkip
  BY NeverSkips DEF CountedInv, OnceInv, AgainSkip, RefineLoad, RefineNext, AgainKeep, AgainDrop,
     Refining
<1>2. CASE RefineLoad
  <2>1. newRegion = NULL /\ newRegion' = NULL /\ Refining /\ regions[i] # NULL /\ op' = op
        /\ UNCHANGED <<count, newCount>> /\ mapsize = 0
    BY <1>1, <1>2 DEF RefineLoad, CountedInv, OnceInv
  <2>2. CASE ReplaceRegion(NULL)
    BY <1>1, <2>1, <2>2, CountReplace
  <2>3. CASE UNCHANGED <<regions, i>>
    <3>1. OnceInv'
      BY <1>1, <2>1, <2>3 DEF CountedInv, OnceInv, Inside
    <3>2. \A a : Counts(a)' <=> Counts(a)
      BY <1>1, <2>1, <2>3 DEF Counts, HasAddress, Address
    <3>3. Tally' = Tally
      BY <2>1 DEF Tally
    <3> QED
      BY <1>1, <2>1, <3>1, <3>2, <3>3, TallySame DEF CountedInv, CountInv
  <2> QED
    BY <1>2, <2>2, <2>3 DEF RefineLoad
<1>3. CASE RefineNext
  <2>1. /\ ReplaceRegion(newRegion) /\ newRegion' = NULL /\ Refining /\ mapsize > 0 /\ op' = op
        /\ UNCHANGED <<count, newCount>>
    BY <1>3 DEF RefineNext, Unloaded
  <2>2. regions[i] # NULL
    BY <1>1, <2>1 DEF TypeOK, LoopTypeOK
  <2>3. newRegion # NULL => newRegion.base = regions[i].base /\ Inside(newRegion)
    BY <1>1 DEF CountedInv, OnceInv
  <2> QED
    BY <1>1, <2>1, <2>2, <2>3, CountReplace
<1>4. CASE AgainDrop
  <2>1. /\ op' = op /\ AtSlide /\ j' = j + 1
        /\ UNCHANGED <<regions, count, newCount, i, mapsize, newRegion>>
    BY <1>4 DEF AgainDrop, results
  <2>2. \A k \in DOMAIN regions[i].slides : k < j => k < j'
    BY <2>1, SlideType DEF Region, TypeOK, LoopTypeOK
  <2>3. OnceInv'
    BY <1>1, <2>1, <2>2 DEF CountedInv, OnceInv, Inside, HasSlide
  <2>4. \A a : Counts(a)' <=> Counts(a)
    BY <2>1 DEF Counts, HasAddress, Address
  <2>5. Tally' = Tally
    BY <2>1 DEF Tally
  <2> QED
    BY <1>1, <2>1, <2>3, <2>4, <2>5, TallySame DEF CountedInv, CountInv
<1> QED
  BY <1>1, <1>2, <1>3, <1>4, CountKeep

(* The end of a repeated search keeps every region it counted.             *)
LEMMA CountDone ==
  ASSUME TypeOK, CountedInv, RefineDone
  PROVE  OnceInv' /\ CountInv'
<1>1. /\ op = "again" /\ op' = "return" /\ i > Len(regions) /\ count' = newCount
      /\ UNCHANGED <<newRegion, newCount>>
  BY DEF RefineDone, Compact, frame, CountedInv, OnceInv
<1>2. regions \in Seq(Region \cup {NULL}) /\ i \in Nat
  BY DEF TypeOK, ResultsTypeOK, LoopTypeOK
<1>3. /\ DOMAIN regions = 1 .. Len(regions) /\ Len(regions) \in Nat
      /\ \A n \in DOMAIN regions : n < i
  BY <1>1, <1>2, LenProperties
<1>4. newRegion = NULL
  <2> SUFFICES ASSUME newRegion # NULL PROVE FALSE
    OBVIOUS
  <2>1. mapsize > 0
    BY <1>1 DEF CountedInv, OnceInv
  <2>2. i \in DOMAIN regions
    BY <1>1, <2>1 DEF TypeOK, LoopTypeOK
  <2> QED
    BY <1>1, <1>2, <1>3, <2>2
<1> DEFINE K == {n \in DOMAIN regions : regions[n] # NULL}
<1>5. PICK g \in Sorted(K) : regions' = [n \in DOMAIN g |-> regions[g[n]]]
  BY DEF RefineDone, Compact
<1>6. IsFiniteSet(K) /\ K \subseteq Nat
  <2>1. K \subseteq 0 .. Len(regions)
    BY <1>3
  <2> HIDE DEF K
  <2> QED
    BY <1>3, <2>1, FiniteBelow
<1>7. /\ \A x \in K : \E n \in DOMAIN g : g[n] = x
      /\ \A n \in DOMAIN g : g[n] \in K
      /\ \A m, n \in DOMAIN g : g[m] = g[n] => m = n
  <2>1. \A x \in K : \E n \in DOMAIN g : g[n] = x
    <3> HIDE DEF K
    <3> QED
      BY <1>5, <1>6, SortedOnto
  <2>2. /\ Cardinality(K) \in Nat /\ DOMAIN g = 1 .. Cardinality(K)
        /\ \A n \in DOMAIN g : g[n] \in K
        /\ \A m, n \in DOMAIN g : m < n => g[m] < g[n]
    <3> HIDE DEF K
    <3> QED
      BY <1>5, <1>6, FS_CardinalityType DEF Sorted
  <2>3. ASSUME NEW m \in DOMAIN g, NEW n \in DOMAIN g, g[m] = g[n], m # n PROVE FALSE
    <3>1. m < n \/ n < m
      BY <2>2, <2>3
    <3>2. g[m] \in Nat /\ g[n] \in Nat
      BY <1>6, <2>2
    <3>3. g[m] < g[n] \/ g[n] < g[m]
      BY <2>2, <3>1
    <3> QED
      BY <2>3, <3>2, <3>3
  <2> QED
    BY <2>1, <2>2, <2>3
<1>8. /\ DOMAIN regions' = DOMAIN g
      /\ \A n \in DOMAIN g : /\ regions'[n] = regions[g[n]] /\ regions'[n] # NULL
                             /\ g[n] \in DOMAIN regions
  BY <1>5, <1>7
<1>9. OnceInv'
  BY <1>1, <1>7, <1>8 DEF CountedInv, OnceInv, Inside
<1>10. \A a : Counts(a)' <=> Counts(a)
  <2>1. \A a : (\E n \in DOMAIN regions' : HasAddress(regions'[n], a)) <=>
               \E n \in DOMAIN regions : HasAddress(regions[n], a)
    BY <1>7, <1>8 DEF HasAddress
  <2>2. \A a : Counts(a)' <=> a \in Nat /\ (HasAddress(newRegion', a)
                    \/ \E n \in DOMAIN regions' : HasAddress(regions'[n], a))
    BY <1>1 DEF Counts, HasAddress, Address
  <2>3. \A a : Counts(a) <=> a \in Nat /\ (HasAddress(newRegion, a)
                    \/ \E n \in DOMAIN regions : HasAddress(regions[n], a))
    BY <1>3 DEF Counts
  <2> QED
    BY <1>1, <2>1, <2>2, <2>3
<1>11. Tally' = Tally
  BY <1>1 DEF Tally
<1> QED
  BY <1>1, <1>4, <1>9, <1>10, <1>11, TallySame DEF CountedInv, CountInv

(* Steps outside the loops of a search.                                    *)
LEMMA CountKept ==
  ASSUME CountedInv, UNCHANGED <<regions, count, newRegion>>, newRegion = NULL,
         op \notin {"again", "crashed"}, op' \in {"idle", "edit", "return", "crashed"}
  PROVE  OnceInv' /\ CountInv'
<1>1. OnceInv'
  BY DEF CountedInv, OnceInv, Inside
<1>2. \A a : Counts(a)' <=> Counts(a)
  BY DEF Counts, HasAddress, Address
<1>3. Tally' = Tally
  BY DEF Tally
<1> QED
  BY <1>1, <1>2, <1>3, TallySame DEF CountedInv, CountInv

LEMMA CountCall ==
  ASSUME NearQueries = {}, GroupQueries = {},
         TypeOK, SessionInv, ScanInv, CountedInv, Call
  PROVE  OnceInv' /\ CountInv'
<1>1. op = "idle" /\ newRegion = NULL
  <2>1. op = "idle"
    BY DEF Call, SearchNumber, SearchNearby, SearchGroup, EditAll, SetFloatTolerance,
       ClearResults, GetResults
  <2> QED
    BY <2>1 DEF CountedInv, CountInv
<1>2. ASSUME NEW query \in NumberQueries, SearchNumber(query) PROVE OnceInv' /\ CountInv'
  <2>1. newRegion' = NULL /\ i' = 1 /\ newCount' = 0 /\ UNCHANGED <<regions, count, firstScanDone>>
    BY <1>2, StartType DEF SearchNumber, JJScanMemory, results
  <2>2. CASE op' = "again"
    <3>1. OnceInv'
      BY <1>1, <2>1, <2>2 DEF CountedInv, OnceInv, Inside
    <3>2. \A a : ~Counts(a)'
      <4>1. \A n \in DOMAIN regions : ~(n < 1)
        BY DEF TypeOK, ResultsTypeOK
      <4> QED
        BY <2>1, <2>2, <4>1 DEF Counts, HasAddress
    <3>3. Tally' = 0
      BY <2>1, <2>2 DEF Tally
    <3> QED
      BY <2>2, <3>1, <3>2, <3>3, TallyNone DEF CountInv
  <2>3. CASE op' # "again"
    <3>1. op' = "first" /\ ~firstSearchDone
      BY <1>2, <2>3 DEF SearchNumber, JJScanMemory, ScanInv
    <3>2. regions = <<>> /\ count = 0
      BY <1>1, <3>1 DEF SessionInv, SessionFresh
    <3>3. OnceInv'
      BY <2>1, <3>1, <3>2 DEF OnceInv, HasSlide
    <3>4. \A a : ~Counts(a)'
      BY <2>1, <3>2 DEF Counts, HasAddress
    <3>5. Tally' = 0
      BY <2>1, <3>1, <3>2 DEF Tally
    <3> QED
      BY <2>1, <3>1, <3>3, <3>4, <3>5, TallyNone DEF CountInv
  <2> QED
    BY <2>2, <2>3
<1>3. ASSUME NEW query \in EditQueries, EditAll(query) PROVE OnceInv' /\ CountInv'
  BY <1>1, <1>3, StartType, CountKept DEF EditAll, JJWriteAll, results
<1>4. ASSUME NEW d \in Tolerances, SetFloatTolerance(d) PROVE OnceInv' /\ CountInv'
  BY <1>1, <1>4, CountKept DEF SetFloatTolerance, results, frame
<1>5. CASE ClearResults
  <2>1. regions' = <<>> /\ count' = 0 /\ newRegion' = NULL /\ op' = "idle"
    BY <1>1, <1>5 DEF ClearResults, Reconstruct, frame
  <2>2. OnceInv'
    BY <2>1 DEF OnceInv
  <2>3. (\A a : ~Counts(a)') /\ Tally' = 0
    BY <2>1 DEF Counts, HasAddress, Tally
  <2> QED
    BY <2>1, <2>2, <2>3, TallyNone DEF CountInv
<1>6. CASE GetResults
  BY <1>1, <1>6, CountKept DEF GetResults, Crash, results, frame
<1> QED
  BY <1>1, <1>2, <1>3, <1>4, <1>5, <1>6 DEF Call

LEMMA CountNext ==
  ASSUME "nomem" \notin Faults, Disjoint, SameRegions, NearQueries = {}, GroupQueries = {},
         TypeOK, SessionInv, ScanInv, CountedInv, [Next]_vars
  PROVE  CountedInv'
<1> SUFFICES OnceInv' /\ CountInv'
  BY MetNext DEF CountedInv
<1>1. CASE Call
  BY <1>1, CountCall
<1>2. op \notin {"near", "group"}
  BY DEF CountedInv, OnceInv
<1>3. CASE EngineStep
  <2>1. op' = "crashed" /\ UNCHANGED <<regions, frame, todo, q>> => OnceInv' /\ CountInv'
    BY DEF CountedInv, OnceInv, CountInv, Inside, frame
  <2>2. CASE RefineNull \/ AgainFault \/ EditNull
    BY <2>1, <2>2 DEF RefineNull, AgainFault, EditNull, Crash, results
  <2>3. CASE FirstDone
    <3>1. newRegion = NULL
      BY <2>3 DEF FirstDone, CountedInv, OnceInv, Current
    <3> QED
      BY <2>3, <3>1, CountKept DEF FirstDone, results, frame
  <2>4. CASE EditSlide \/ EditNext \/ EditDone
    <3>1. op = "edit" /\ newRegion = NULL
      BY <2>4 DEF EditSlide, EditNext, EditDone, Editing, CountedInv, CountInv
    <3> QED
      BY <2>4, <3>1, CountKept DEF EditSlide, EditNext, EditDone, results, frame
  <2> QED
    BY <1>2, <1>3, <2>2, <2>3, <2>4, CountFirstLoad, CountFirstLeave, CountFirstFound,
       CountRefine, CountDone DEF EngineStep, ScanStep, NearMiss, NearFound, NearFault,
       GroupFound, GroupMiss, GroupDone, GroupNull
<1>4. CASE Return
  <2>1. op = "return" /\ newRegion = NULL
    BY <1>4 DEF Return, CountedInv, CountInv
  <2> QED
    BY <1>4, <2>1, StartType, CountKept DEF Return, results
<1>5. CASE Game \/ UNCHANGED vars
  <2>1. UNCHANGED engineVars
    BY <1>5 DEF Game, GameStep, GameWrites, GameUnmaps, vars
  <2>2. UNCHANGED <<regions, count, op, q, todo, i, j, mapsize, newRegion, newCount>>
    BY <2>1 DEF engineVars, results, frame
  <2>3. OnceInv'
    BY <2>2 DEF CountedInv, OnceInv, Inside, HasSlide, Current
  <2>4. \A a : Counts(a)' <=> Counts(a)
    BY <2>2 DEF Counts, HasAddress, Address
  <2>5. Tally' = Tally
    BY <2>2 DEF Tally
  <2> QED
    BY <2>2, <2>3, <2>4, <2>5, TallySame DEF CountedInv, CountInv
<1>6. ~Throw
  BY DEF Throw, OutOfMemory
<1> QED
  BY <1>1, <1>3, <1>4, <1>5, <1>6 DEF Next, Work, Crashed

(* getResultsCount() is the number of results that getResults can return,  *)
(* in a session of number searches and edits that does not run out of      *)
(* memory, whatever the game writes, unmaps and maps meanwhile.            *)
THEOREM CountIsExact ==
  ASSUME "nomem" \notin Faults, Disjoint, SameRegions, NearQueries = {}, GroupQueries = {}
  PROVE  Spec => []CountIsListed
<1>1. Init => SessionInv /\ ScanInv /\ CountedInv
  <2> SUFFICES ASSUME Init PROVE SessionInv /\ ScanInv /\ CountedInv
    OBVIOUS
  <2>1. SessionInv /\ ScanInv
    BY DEF Init, Construct, SessionInv, SessionFresh, ScanInv
  <2>2. MetInv
    BY InitMet
  <2>3. op = "idle" /\ regions = <<>> /\ count = 0 /\ newRegion = NULL
    BY DEF Init, Construct
  <2>4. OnceInv
    BY <2>3 DEF OnceInv
  <2>5. Counted = {}
    BY <2>3 DEF Counted, Counts, HasAddress
  <2>6. CountInv
    BY <2>3, <2>5, FS_EmptySet DEF CountInv, Tallied, Tally
  <2> QED
    BY <2>1, <2>2, <2>4, <2>6 DEF CountedInv
<1>2. TypeOK /\ SessionInv /\ ScanInv /\ CountedInv /\ [Next]_vars
        => SessionInv' /\ ScanInv' /\ CountedInv'
  BY SessionNext, ScanNext, CountNext
<1>3. TypeOK /\ CountedInv => CountIsListed
  <2> SUFFICES ASSUME TypeOK, CountedInv, op = "idle" PROVE count = Cardinality(Listed)
    BY DEF CountIsListed
  <2>1. newRegion = NULL /\ Tally = count /\ Tally = Cardinality(Counted)
    BY DEF CountedInv, CountInv, Tallied, Tally
  <2>2. \A a : a \in Counted <=> Shows(a)
    <3>1. \A a, n : n \in DOMAIN regions /\ HasAddress(regions[n], a) => a \in Nat
      BY CountedGround
    <3> QED
      BY <2>1, <3>1, CountedDef DEF CountedShows, Counts, Shows, HasAddress
  <2>3. Counted = Listed
    BY <2>2, ListedDef DEF ListedShows
  <2> QED
    BY <2>1, <2>3
<1> QED
  BY <1>1, <1>2, <1>3, TypeCorrect, PTL DEF Spec

-----------------------------------------------------------------------------
(* The types of results.  The list is reported with the type of the last   *)
(* search, where a result has none of its own; while a call runs, with the *)
(* one it will leave behind.                                               *)
Lasting == IF op = "idle" THEN lastSearchType ELSE SearchTypeAfter
TypeAt(r, k, t) == IF HasType(r) THEN r.types[k] ELSE t

(* The results of a region matched as what they are reported with, when t  *)
(* is the type of the last search; and results without types of their own  *)
(* were found as numbers of the type that JJNearBySearch will remember.    *)
Named(r, t, m) == \A k \in DOMAIN r.slides : <<Address(r, k), TypeAt(r, k, t)>> \in m
Settled(r, t, l, m) == r # NULL => Named(r, t, m) /\ (~HasType(r) => t = l)

(* A repeated search settles the regions behind it; a nearby search relies *)
(* on those ahead of it.                                                   *)
Behind(n) == op \in {"again", "near"} => n < i
NameInv ==
  op # "crashed" =>
    /\ op \in {"first", "again"} => q.type = lastNumberType
    /\ \A n \in DOMAIN regions : Behind(n) =>
         /\ Settled(regions[n], Lasting, lastNumberType, matched)
         /\ op \in {"first", "again"} /\ regions[n] # NULL => ~HasType(regions[n])
    /\ \A n \in DOMAIN regions : op = "near" /\ n >= i /\ regions[n] # NULL =>
         Named(regions[n], lastNumberType, matched)
    /\ newRegion # NULL /\ op \in {"first", "again", "near"} =>
         /\ mapsize > 0
         /\ Settled(newRegion, Lasting, lastNumberType, matched)
         /\ IF op = "first" THEN Current(newRegion.base) ELSE newRegion.base = regions[i].base

(* Steps that leave the list as it is and every match of a result in it.   *)
LEMMA NameKept ==
  ASSUME NameInv, op \notin {"again", "near", "crashed"},
         op' \in {"idle", "edit", "return", "crashed"}, Lasting' = Lasting,
         UNCHANGED <<regions, lastNumberType>>,
         \A n \in DOMAIN regions : regions[n] # NULL =>
           \A k \in DOMAIN regions[n].slides : \A t :
             <<Address(regions[n], k), t>> \in matched => <<Address(regions[n], k), t>> \in matched'
  PROVE  NameInv'
<1> DEFINE S(n) == Settled(regions[n], Lasting, lastNumberType, matched)
<1>1. \A n \in DOMAIN regions : S(n)
  BY DEF NameInv, Behind
<1>2. \A n \in DOMAIN regions : Settled(regions[n], Lasting, lastNumberType, matched')
  BY <1>1 DEF Settled, Named
<1> QED
  BY <1>2 DEF NameInv, Settled, Named, TypeAt, HasType, Address

(* A slide pushed by a number search has matched as its type.              *)
LEMMA PushNamed ==
  ASSUME TypeOK, ParInv, op \in {"first", "again"}, NEW base \in Nat, NEW size \in Nat,
         NEW slide \in Nat, PushSlide(base, size, slide), NEW t, NEW m, NEW m2,
         newRegion # NULL => newRegion.base = base /\ Named(newRegion, t, m),
         <<base + slide, t>> \in m2, \A a : <<a, t>> \in m => <<a, t>> \in m2
  PROVE  /\ newRegion' # NULL /\ ~HasType(newRegion') /\ Named(newRegion', t, m2)
         /\ newRegion'.base = base
<1>1. /\ newRegion' # NULL /\ newRegion'.base = base
      /\ \A s : HasSlide(newRegion', s) <=> s = slide \/ HasSlide(newRegion, s)
  BY PushShape
<1>2. newRegion'.types = <<>>
  BY PushTypes
<1>3. newRegion # NULL => newRegion.types = <<>>
  BY DEF ParInv
<1>4. ASSUME NEW s, HasSlide(newRegion', s) PROVE <<base + s, t>> \in m2
  <2>1. CASE s = slide
    BY <2>1
  <2>2. CASE HasSlide(newRegion, s)
    BY <1>3, <2>2 DEF HasSlide, Named, TypeAt, HasType, Address
  <2> QED
    BY <1>1, <1>4, <2>1, <2>2
<1> QED
  BY <1>1, <1>2, <1>4 DEF HasSlide, Named, TypeAt, HasType, Address

(* A search of numbers leaves its own type behind.                         *)
LEMMA LastingNow ==
  ASSUME TypeOK
  PROVE  /\ op \in {"first", "again", "near"} => Lasting = q.type
         /\ op = "edit" => Lasting = lastSearchType
BY DEF Lasting, SearchTypeAfter, TypeOK, CallTypeOK, NumberCall, NearCall, EditCall

(* Marking an address with the type of the search keeps the results that   *)
(* the search has settled.                                                 *)
LEMMA MarkKeeps ==
  ASSUME NEW t, NEW m, NEW a, NEW m2, m2 = {x \in m : x[1] # a} \cup {<<a, t>>}
  PROVE  <<a, t>> \in m2 /\ \A b : <<b, t>> \in m => <<b, t>> \in m2
OBVIOUS

LEMMA NameFirst ==
  ASSUME TypeOK, ParInv, NameInv, NEW b \in Bases,
         FirstLoad(b) \/ FirstLimit(b) \/ FirstFound(b) \/ FirstExhausted(b)
  PROVE  NameInv'
<1>1. /\ op = "first" /\ op' = op /\ q' = q /\ lastNumberType' = lastNumberType /\ Current(b)
      /\ Lasting = q.type /\ Lasting' = q.type /\ q.type = lastNumberType
  <2>1. op = "first" /\ op' = op /\ q' = q /\ lastNumberType' = lastNumberType /\ Current(b)
    BY DEF FirstLoad, FirstLimit, FirstFound, FirstExhausted, settings
  <2>2. Lasting = q.type
    BY <2>1, LastingNow
  <2> QED
    BY <2>1, <2>2 DEF NameInv, Lasting, SearchTypeAfter, TypeOK, CallTypeOK, NumberCall
<1>2. \A n \in DOMAIN regions : regions[n] # NULL =>
        ~HasType(regions[n]) /\ Named(regions[n], q.type, matched)
  BY <1>1 DEF NameInv, Behind, Settled
<1>3. newRegion # NULL => /\ newRegion.base = b /\ ~HasType(newRegion) /\ mapsize > 0
                          /\ Named(newRegion, q.type, matched)
  BY <1>1, OneCurrent DEF NameInv, Settled, ParInv, HasType
<1>4. ASSUME \A n \in DOMAIN regions' : regions'[n] # NULL =>
               ~HasType(regions'[n]) /\ Named(regions'[n], q.type, matched'),
             newRegion' # NULL =>
               /\ mapsize' > 0 /\ Current(newRegion.base)'
               /\ Named(newRegion', q.type, matched')
      PROVE  NameInv'
  BY <1>1, <1>4 DEF NameInv, Settled, Named, TypeAt, HasType, Address, Current
<1>5. CASE FirstLoad(b)
  <2>1. newRegion' = NULL /\ UNCHANGED <<regions, matched>>
    BY <1>3, <1>5 DEF FirstLoad, results
  <2> QED
    BY <1>2, <1>4, <2>1
<1>6. CASE FirstLimit(b) \/ FirstExhausted(b)
  <2>1. /\ regions' = IF newRegion = NULL THEN regions ELSE Append(regions, newRegion)
        /\ newRegion' = NULL /\ UNCHANGED matched
    BY <1>6 DEF FirstLimit, FirstExhausted, LeaveRegion, Unloaded
  <2>2. regions \in Seq(Region \cup {NULL}) /\ newRegion \in Region \cup {NULL}
    BY DEF TypeOK, ResultsTypeOK
  <2>3. /\ \A n \in DOMAIN regions' : n \in DOMAIN regions \/ regions'[n] = newRegion
        /\ \A n \in DOMAIN regions : n \in DOMAIN regions' /\ regions'[n] = regions[n]
    BY <2>1, <2>2, AppendProperties, LenProperties
  <2> QED
    BY <1>2, <1>3, <1>4, <2>1, <2>3
<1>7. CASE FirstFound(b)
  <2>1. PICK p \in FirstHits(b) :
          /\ PushSlide(b, mapsize, p)
          /\ matched' = {m \in matched : m[1] # b + p} \cup {<<b + p, q.type>>}
    BY <1>7 DEF FirstFound
  <2>2. /\ UNCHANGED <<regions, todo, mapsize>> /\ mapsize > 0
    BY <1>7 DEF FirstFound
  <2>3. p \in Nat /\ b \in Nat /\ mapsize \in Nat
    <3>1. q.type \in Types /\ TypeLen[q.type] \in Nat
      BY <1>1, TypesAssumption DEF TypeOK, CallTypeOK, NumberCall
    <3> QED
      BY <3>1, MemoryAssumption DEF FirstHits, Strides, TypeOK, LoopTypeOK
  <2>4. /\ <<b + p, q.type>> \in matched'
        /\ \A a : <<a, q.type>> \in matched => <<a, q.type>> \in matched'
    BY <2>1, MarkKeeps
  <2>5. newRegion'.base = b /\ Named(newRegion', q.type, matched')
    <3> DEFINE t == q.type
    <3>1. newRegion # NULL => newRegion.base = b /\ Named(newRegion, t, matched)
      BY <1>3
    <3>2. op \in {"first", "again"} /\ PushSlide(b, mapsize, p)
      BY <1>1, <2>1
    <3>3. <<b + p, t>> \in matched' /\ \A a : <<a, t>> \in matched => <<a, t>> \in matched'
      BY <2>4
    <3> HIDE DEF t
    <3>4. newRegion'.base = b /\ Named(newRegion', t, matched')
      BY <2>3, <3>1, <3>2, <3>3, PushNamed
    <3> QED
      BY <3>4 DEF t
  <2>6. \A n \in DOMAIN regions : regions[n] # NULL => Named(regions[n], q.type, matched')
    BY <1>2, <2>4 DEF Named, TypeAt
  <2>7. Current(newRegion.base)'
    BY <1>1, <2>2, <2>5 DEF Current
  <2> QED
    BY <1>2, <1>4, <2>2, <2>5, <2>6, <2>7
<1> QED
  BY <1>5, <1>6, <1>7

(* A region of the list in place of another: what is behind is settled,    *)
(* what is ahead as it was.                                                *)
LEMMA NameReplace ==
  ASSUME TypeOK, NameInv, op \in {"again", "near"}, Refining, NEW r, ReplaceRegion(r),
         Settled(r, Lasting, lastNumberType, matched),
         op = "again" /\ r # NULL => ~HasType(r),
         newRegion' = NULL, UNCHANGED <<op, q, lastNumberType, matched>>
  PROVE  NameInv'
<1>1. /\ i \in DOMAIN regions /\ i' = i + 1 /\ regions' = [regions EXCEPT ![i] = r]
  BY DEF Refining, ReplaceRegion
<1>2. /\ DOMAIN regions' = DOMAIN regions /\ regions'[i] = r
      /\ \A n \in DOMAIN regions : n # i => regions'[n] = regions[n]
      /\ i \in Nat /\ \A n \in DOMAIN regions : n \in Nat
  BY <1>1 DEF TypeOK, ResultsTypeOK
<1>3. Lasting = q.type /\ Lasting' = q.type
  <2>1. Lasting = q.type
    BY LastingNow
  <2> QED
    BY <2>1 DEF Lasting, SearchTypeAfter, TypeOK, CallTypeOK, NumberCall, NearCall
<1>4. /\ \A n \in DOMAIN regions : n < i' => n < i \/ n = i
      /\ \A n \in DOMAIN regions : n >= i' => n >= i /\ n # i
  BY <1>1, <1>2
<1>5. \A n \in DOMAIN regions' : n < i' =>
        /\ Settled(regions'[n], q.type, lastNumberType, matched)
        /\ op = "again" /\ regions'[n] # NULL => ~HasType(regions'[n])
  <2> SUFFICES ASSUME NEW n \in DOMAIN regions, n < i'
               PROVE  /\ Settled(regions'[n], q.type, lastNumberType, matched)
                      /\ op = "again" /\ regions'[n] # NULL => ~HasType(regions'[n])
    BY <1>2
  <2>1. CASE n = i
    BY <1>2, <1>3, <2>1
  <2>2. CASE n # i
    BY <1>2, <1>3, <1>4, <2>2 DEF NameInv, Behind
  <2> QED
    BY <2>1, <2>2
<1>6. \A n \in DOMAIN regions' : op = "near" /\ n >= i' /\ regions'[n] # NULL =>
        Named(regions'[n], lastNumberType, matched)
  BY <1>2, <1>4 DEF NameInv
<1> QED
  BY <1>3, <1>5, <1>6 DEF NameInv, Behind, Settled, Named, TypeAt, HasType, Address

(* Steps of a repeated or nearby search that leave the list as it is.      *)
LEMMA NameStays ==
  ASSUME TypeOK, NameInv, op \in {"again", "near"},
         UNCHANGED <<op, q, lastNumberType, regions, i>>,
         newRegion' # NULL => /\ mapsize' > 0 /\ newRegion'.base = regions[i].base
                              /\ Settled(newRegion', q.type, lastNumberType, matched'),
         \A a : <<a, q.type>> \in matched => <<a, q.type>> \in matched',
         op = "near" => matched \subseteq matched'
  PROVE  NameInv'
<1>1. Lasting = q.type /\ Lasting' = q.type
  <2>1. Lasting = q.type
    BY LastingNow
  <2> QED
    BY <2>1 DEF Lasting, SearchTypeAfter, TypeOK, CallTypeOK, NumberCall, NearCall
<1>2. \A n \in DOMAIN regions : n < i =>
        /\ Settled(regions[n], q.type, lastNumberType, matched')
        /\ op = "again" /\ regions[n] # NULL => ~HasType(regions[n])
  <2> SUFFICES ASSUME NEW n \in DOMAIN regions, n < i, regions[n] # NULL
               PROVE  /\ Settled(regions[n], q.type, lastNumberType, matched')
                      /\ op = "again" => ~HasType(regions[n])
    BY DEF Settled
  <2>1. /\ Settled(regions[n], q.type, lastNumberType, matched)
        /\ op = "again" => ~HasType(regions[n])
    BY <1>1 DEF NameInv, Behind
  <2>2. CASE op = "again"
    BY <2>1, <2>2 DEF Settled, Named, TypeAt
  <2>3. CASE op = "near"
    BY <2>1, <2>3 DEF Settled, Named
  <2> QED
    BY <2>1, <2>2, <2>3
<1>3. \A n \in DOMAIN regions : op = "near" /\ n >= i /\ regions[n] # NULL =>
        Named(regions[n], lastNumberType, matched')
  BY DEF NameInv, Named
<1>4. op = "again" => q.type = lastNumberType
  BY DEF NameInv
<1> QED
  BY <1>1, <1>2, <1>3, <1>4 DEF NameInv, Behind, Settled, Named, TypeAt, HasType, Address

LEMMA NameAgain ==
  ASSUME TypeOK, ParInv, NameInv, AgainKeep \/ AgainDrop \/ NearMiss
  PROVE  NameInv'
<1>1. /\ op \in {"again", "near"} /\ AtSlide /\ mapsize > 0
      /\ UNCHANGED <<op, q, lastNumberType, regions, i, mapsize>>
  BY DEF AgainKeep, AgainDrop, NearMiss, AtSlide, Refining, results, settings
<1>2. Lasting = q.type
  BY <1>1, LastingNow
<1>3. newRegion # NULL => /\ newRegion.base = regions[i].base
                          /\ Settled(newRegion, q.type, lastNumberType, matched)
  BY <1>1, <1>2 DEF NameInv
<1>4. CASE AgainDrop \/ NearMiss
  <2>1. UNCHANGED <<newRegion, matched>>
    BY <1>4 DEF AgainDrop, NearMiss
  <2> QED
    BY <1>1, <1>3, <2>1, NameStays
<1>5. CASE AgainKeep
  <2> DEFINE t == q.type
  <2>1. /\ op = "again" /\ t = lastNumberType
        /\ PushSlide(regions[i].base, regions[i].size, Slide)
        /\ matched' = {m \in matched : m[1] # SlideAddress} \cup {<<SlideAddress, t>>}
    BY <1>5 DEF AgainKeep, NameInv
  <2>2. /\ regions[i].base \in Nat /\ regions[i].size \in Nat /\ Slide \in Nat
        /\ SlideAddress = regions[i].base + Slide
    BY <1>1, SlideType DEF SlideAddress, Slide, Address
  <2>3. newRegion # NULL => newRegion.base = regions[i].base /\ Named(newRegion, t, matched)
    BY <1>3 DEF Settled
  <2> HIDE DEF t
  <2>4. /\ <<regions[i].base + Slide, t>> \in matched'
        /\ \A a : <<a, t>> \in matched => <<a, t>> \in matched'
    BY <2>1, <2>2, MarkKeeps
  <2>5. newRegion'.base = regions[i].base /\ Named(newRegion', t, matched')
    <3> DEFINE b == regions[i].base
               size == regions[i].size
               p == Slide
    <3>1. /\ PushSlide(b, size, p) /\ b \in Nat /\ size \in Nat /\ p \in Nat
          /\ newRegion # NULL => newRegion.base = b /\ Named(newRegion, t, matched)
          /\ <<b + p, t>> \in matched' /\ op \in {"first", "again"}
      BY <2>1, <2>2, <2>3, <2>4
    <3>2. \A a : <<a, t>> \in matched => <<a, t>> \in matched'
      BY <2>4
    <3> HIDE DEF b, size, p
    <3>3. newRegion'.base = b /\ Named(newRegion', t, matched')
      BY <3>1, <3>2, PushNamed
    <3> QED
      BY <3>3 DEF b
  <2>6. Settled(newRegion', q.type, lastNumberType, matched')
    BY <2>1, <2>5 DEF Settled, t
  <2>7. \A a : <<a, q.type>> \in matched => <<a, q.type>> \in matched'
    BY <2>4 DEF t
  <2> QED
    BY <1>1, <2>1, <2>5, <2>6, <2>7, NameStays
<1> QED
  BY <1>4, <1>5

(* A window names each of its slides: a hit by the type of this search, an *)
(* old slide by what it was found as before.                               *)
LEMMA FoundNamed ==
  ASSUME TypeOK, ParInv, NameInv, op = "near", AtSlide, NEW hits, NEW partners,
         partners = Partners(hits), NEW s, NEW t, FoundAs(s, t, partners),
         s \in hits \cup {regions[i].slides[o] : o \in partners}, NEW m, matched \subseteq m,
         \A p \in hits : <<regions[i].base + p, q.type>> \in m
  PROVE  /\ <<regions[i].base + s, t>> \in m
         /\ ~NeedType => t = q.type
<1> DEFINE same == {o \in partners : regions[i].slides[o] = s}
<1>1. CASE same = {}
  <2>1. t = q.type
    BY <1>1 DEF FoundAs
  <2>2. s \in hits
    BY <1>1
  <2> QED
    BY <2>1, <2>2
<1>2. CASE same # {}
  <2>1. PICK o \in same :
          /\ ~HasType(regions[i]) => t = lastNumberType
          /\ HasType(regions[i]) /\ o \in DOMAIN regions[i].types => t = regions[i].types[o]
    BY <1>2 DEF FoundAs
  <2>2. /\ i \in DOMAIN regions /\ regions[i] # NULL /\ regions[i] \in Region
    BY SlideType DEF AtSlide, Refining, TypeOK, LoopTypeOK
  <2>3. /\ DOMAIN regions[i].slides = 1 .. Len(regions[i].slides)
        /\ DOMAIN regions[i].types = 1 .. Len(regions[i].types)
    BY <2>2, LenProperties DEF Region
  <2>4. o \in DOMAIN regions[i].slides /\ regions[i].slides[o] = s
    BY <2>3 DEF Partners, TypeOK, LoopTypeOK
  <2>5. HasType(regions[i]) => o \in DOMAIN regions[i].types
    BY <2>2, <2>3, <2>4 DEF ParInv, Parallel
  <2>6. Named(regions[i], lastNumberType, matched)
    <3>1. i \in Nat /\ i >= i
      BY DEF TypeOK, LoopTypeOK
    <3> QED
      BY <2>2, <3>1 DEF NameInv
  <2>7. <<regions[i].base + s, TypeAt(regions[i], o, lastNumberType)>> \in matched
    BY <2>4, <2>6 DEF Named, Address
  <2>8. TypeAt(regions[i], o, lastNumberType) = t
    BY <2>1, <2>5 DEF TypeAt
  <2>9. ~NeedType => t = q.type
    BY <2>1 DEF NeedType
  <2> QED
    BY <2>7, <2>8, <2>9
<1> QED
  BY <1>1, <1>2

(* Two sequences, one after the other.                                     *)
LEMMA Joined ==
  ASSUME NEW S, NEW s \in Seq(S), NEW t \in Seq(S)
  PROVE  /\ Len(s \o t) = Len(s) + Len(t)
         /\ DOMAIN (s \o t) = 1 .. (Len(s) + Len(t))
         /\ \A k \in 1 .. Len(s) : (s \o t)[k] = s[k]
         /\ \A n \in 1 .. Len(t) : (s \o t)[Len(s) + n] = t[n]
<1>1. Len(s) \in Nat /\ Len(t) \in Nat
  BY LenProperties
<1>2. /\ s \o t \in Seq(S) /\ Len(s \o t) = Len(s) + Len(t)
      /\ \A k \in 1 .. (Len(s) + Len(t)) :
           (s \o t)[k] = IF k <= Len(s) THEN s[k] ELSE t[k - Len(s)]
  BY ConcatProperties
<1>3. DOMAIN (s \o t) = 1 .. (Len(s) + Len(t))
  BY <1>2, LenProperties
<1>4. ASSUME NEW k \in 1 .. Len(s) PROVE (s \o t)[k] = s[k]
  <2>1. k \in 1 .. (Len(s) + Len(t)) /\ k <= Len(s)
    BY <1>1
  <2> QED
    BY <1>2, <2>1
<1>5. ASSUME NEW n \in 1 .. Len(t) PROVE (s \o t)[Len(s) + n] = t[n]
  <2>1. /\ Len(s) + n \in 1 .. (Len(s) + Len(t)) /\ ~(Len(s) + n <= Len(s))
        /\ (Len(s) + n) - Len(s) = n
    BY <1>1
  <2> QED
    BY <1>2, <2>1
<1> QED
  BY <1>2, <1>3, <1>4, <1>5

(* What a window adds is named as the region under construction says.      *)
LEMMA PushFoundNamed ==
  ASSUME TypeOK, ParInv, NameInv, op = "near", AtSlide, NEW keys, IsFiniteSet(keys),
         keys \subseteq Nat, keys # {}, NEW partners, PushFound(keys, partners),
         NEW m, matched \subseteq m,
         \A s \in keys : \A t : FoundAs(s, t, partners) =>
           <<regions[i].base + s, t>> \in m /\ (~NeedType => t = q.type)
  PROVE  /\ newRegion'.base = regions[i].base
         /\ Settled(newRegion', q.type, lastNumberType, m)
<1> DEFINE r == IF newRegion = NULL THEN Fresh(regions[i].base, regions[i].size)
                ELSE newRegion
<1>1. r \in Region
  BY SlideType, EmptySeq DEF Fresh, Region, TypeOK, ResultsTypeOK
<1>2. /\ NeedType => Len(r.types) = Len(r.slides)
      /\ ~NeedType => r.types = <<>>
  <2>1. CASE newRegion = NULL
    <3>1. r.types = <<>> /\ r.slides = <<>>
      BY <2>1 DEF Fresh
    <3> QED
      BY <3>1
  <2>2. CASE newRegion # NULL
    BY <2>2 DEF ParInv
  <2> QED
    BY <2>1, <2>2
<1>3. r.base = regions[i].base
  BY DEF NameInv, Fresh
<1>4. \A k \in DOMAIN r.slides : <<r.base + r.slides[k], TypeAt(r, k, q.type)>> \in m
  <2>1. CASE newRegion = NULL
    <3>1. DOMAIN r.slides = {}
      BY <2>1 DEF Fresh
    <3> QED
      BY <3>1
  <2>2. CASE newRegion # NULL
    <3>1. Lasting = q.type
      BY LastingNow
    <3>2. Named(newRegion, q.type, matched)
      BY <2>2, <3>1 DEF NameInv, Settled
    <3> QED
      BY <2>2, <3>2 DEF Named, Address
  <2> QED
    BY <2>1, <2>2
<1>5. PICK g \in Sorted(keys) : \E ty \in [DOMAIN g -> Types \cup {NoType}] :
        /\ \A n \in DOMAIN g : FoundAs(g[n], ty[n], partners)
        /\ newRegion' = [r EXCEPT !.slides = @ \o g,
                                  !.types = IF NeedType THEN @ \o ty ELSE @]
  BY DEF PushFound
<1> PICK ty \in [DOMAIN g -> Types \cup {NoType}] :
        /\ \A n \in DOMAIN g : FoundAs(g[n], ty[n], partners)
        /\ newRegion' = [r EXCEPT !.slides = @ \o g,
                                  !.types = IF NeedType THEN @ \o ty ELSE @]
  BY <1>5
<1>6. /\ g \in Seq(Nat) /\ DOMAIN g = 1 .. Len(g) /\ Len(g) \in Nat /\ Len(g) > 0
      /\ \A n \in DOMAIN g : g[n] \in keys
  <2>1. g \in Seq(Nat) /\ g \in Seq(keys) /\ DOMAIN g = 1 .. Len(g) /\ Len(g) \in Nat
    BY SortedSeq, SeqMonotonic, LenProperties
  <2>2. \E n \in DOMAIN g : TRUE
    BY SortedOnto
  <2>3. \A n \in DOMAIN g : g[n] \in keys
    BY <2>1, ElementOfSeq
  <2> QED
    BY <2>1, <2>2, <2>3
<1>7. ty \in Seq(Types \cup {NoType}) /\ Len(ty) = Len(g)
  <2>1. ty \in [1 .. Len(g) -> Types \cup {NoType}]
    BY <1>6
  <2>2. ty \in Seq(Types \cup {NoType})
    BY <1>6, <2>1, SeqDef
  <2> QED
    BY <1>6, <2>1, <2>2, LenProperties
<1>8. \A n \in DOMAIN g : /\ <<r.base + g[n], ty[n]>> \in m
                          /\ ~NeedType => ty[n] = q.type
  BY <1>3, <1>6
<1> HIDE DEF r
<1>9. /\ newRegion'.base = r.base /\ newRegion'.slides = r.slides \o g
      /\ newRegion'.types = IF NeedType THEN r.types \o ty ELSE r.types
  BY <1>1 DEF Region
<1> DEFINE a == Len(r.slides)
<1>10. /\ r.slides \in Seq(Nat) /\ r.types \in Seq(Types \cup {NoType}) /\ a \in Nat
       /\ DOMAIN r.slides = 1 .. a
  BY <1>1, LenProperties DEF Region
<1>11. /\ DOMAIN (r.slides \o g) = 1 .. (a + Len(g))
       /\ \A k \in 1 .. a : (r.slides \o g)[k] = r.slides[k]
       /\ \A n \in 1 .. Len(g) : (r.slides \o g)[a + n] = g[n]
  BY <1>6, <1>10, Joined, SMTT(30)
<1>12. NeedType =>
         /\ Len(r.types \o ty) = a + Len(g)
         /\ \A k \in 1 .. a : (r.types \o ty)[k] = r.types[k]
         /\ \A n \in 1 .. Len(g) : (r.types \o ty)[a + n] = ty[n]
  <2>1. NeedType => Len(r.types) = a
    BY <1>2
  <2>2. /\ Len(r.types \o ty) = Len(r.types) + Len(ty)
        /\ \A k \in 1 .. Len(r.types) : (r.types \o ty)[k] = r.types[k]
        /\ \A n \in 1 .. Len(ty) : (r.types \o ty)[Len(r.types) + n] = ty[n]
    <3> DEFINE S == Types \cup {NoType}
    <3>1. r.types \in Seq(S) /\ ty \in Seq(S)
      BY <1>7, <1>10
    <3> HIDE DEF S
    <3> QED
      BY <3>1, Joined
  <2>3. Len(ty) = Len(g)
    BY <1>7
  <2> HIDE DEF a
  <2> QED
    BY <2>1, <2>2, <2>3
<1>13. /\ NeedType => HasType(newRegion') /\ (a > 0 => HasType(r))
       /\ ~NeedType => ~HasType(newRegion') /\ ~HasType(r)
  <2>1. ASSUME NeedType PROVE Len(newRegion'.types) > 0
    BY <1>6, <1>9, <1>10, <1>12, <2>1
  <2>2. Len(<<>>) = 0
    OBVIOUS
  <2>3. NeedType /\ a > 0 => Len(r.types) > 0
    BY <1>2
  <2> QED
    BY <1>2, <1>9, <2>1, <2>2, <2>3 DEF HasType
<1> HIDE DEF a
<1>14. ASSUME NEW k \in 1 .. a
       PROVE  <<newRegion'.base + newRegion'.slides[k], TypeAt(newRegion', k, q.type)>> \in m
  <2>1. newRegion'.slides[k] = r.slides[k] /\ a > 0
    BY <1>9, <1>10, <1>11
  <2>2. TypeAt(newRegion', k, q.type) = TypeAt(r, k, q.type)
    BY <1>9, <1>12, <1>13, <2>1 DEF TypeAt
  <2> QED
    BY <1>4, <1>9, <1>10, <2>1, <2>2
<1>15. ASSUME NEW n \in 1 .. Len(g)
       PROVE  <<newRegion'.base + newRegion'.slides[a + n], TypeAt(newRegion', a + n, q.type)>> \in m
  <2>1. newRegion'.slides[a + n] = g[n]
    BY <1>9, <1>11
  <2>2. TypeAt(newRegion', a + n, q.type) = ty[n]
    BY <1>6, <1>8, <1>9, <1>12, <1>13 DEF TypeAt
  <2> QED
    BY <1>6, <1>8, <1>9, <2>1, <2>2
<1>16. \A k \in 1 .. (a + Len(g)) : k \in 1 .. a \/ \E n \in 1 .. Len(g) : k = a + n
  <2> SUFFICES ASSUME NEW k \in 1 .. (a + Len(g)), ~(k <= a)
               PROVE  k - a \in 1 .. Len(g) /\ k = a + (k - a)
    BY <1>6, <1>10
  <2> QED
    BY <1>6, <1>10
<1>17. Named(newRegion', q.type, m)
  BY <1>9, <1>11, <1>14, <1>15, <1>16 DEF Named, Address
<1>18. ~HasType(newRegion') => q.type = lastNumberType
  BY <1>13 DEF NeedType
<1> QED
  BY <1>3, <1>9, <1>17, <1>18 DEF Settled

LEMMA NameNear ==
  ASSUME TypeOK, ParInv, NameInv, NearFound
  PROVE  NameInv'
<1>1. /\ op = "near" /\ AtSlide /\ mapsize > 0
      /\ UNCHANGED <<op, q, lastNumberType, regions, i, mapsize>>
  BY DEF NearFound, AtSlide, results, settings
<1>2. PICK stray \in SUBSET Faulty :
        LET hits == WindowHits \cup stray
            partners == Partners(hits)
        IN /\ hits # {}
           /\ PushFound(hits \cup {regions[i].slides[o] : o \in partners}, partners)
           /\ matched' = matched \cup {<<regions[i].base + p, q.type>> : p \in hits}
  BY DEF NearFound
<1> DEFINE hits == WindowHits \cup stray
           partners == Partners(hits)
           keys == hits \cup {regions[i].slides[o] : o \in partners}
<1>3. IsFiniteSet(keys) /\ keys \subseteq Nat
  BY <1>1, NearKeys
<1>4. /\ keys # {} /\ PushFound(keys, partners)
      /\ matched \subseteq matched'
      /\ \A p \in hits : <<regions[i].base + p, q.type>> \in matched'
  BY <1>2
<1>5. partners = Partners(hits)
  OBVIOUS
<1>6. keys = hits \cup {regions[i].slides[o] : o \in partners}
  OBVIOUS
<1> HIDE DEF hits, partners, keys
<1>7. \A s \in keys : \A t : FoundAs(s, t, partners) =>
        <<regions[i].base + s, t>> \in matched' /\ (~NeedType => t = q.type)
  BY <1>1, <1>4, <1>5, <1>6, FoundNamed
<1>8. /\ newRegion'.base = regions[i].base
      /\ Settled(newRegion', q.type, lastNumberType, matched')
  BY <1>1, <1>3, <1>4, <1>7, PushFoundNamed
<1> QED
  BY <1>1, <1>4, <1>8, NameStays

LEMMA NameRefine ==
  ASSUME TypeOK, ParInv, NameInv, RefineLoad \/ RefineNext
  PROVE  NameInv'
<1>1. /\ op \in {"again", "near"} /\ Refining
      /\ UNCHANGED <<op, q, lastNumberType, matched>>
  BY DEF RefineLoad, RefineNext, Refining, settings
<1>2. Lasting = q.type
  BY <1>1, LastingNow
<1>3. CASE RefineLoad
  <2>1. newRegion = NULL /\ newRegion' = NULL
    BY <1>1, <1>3 DEF RefineLoad, NameInv
  <2>2. CASE ReplaceRegion(NULL)
    BY <1>1, <2>1, <2>2, NameReplace DEF Settled
  <2>3. CASE UNCHANGED <<regions, i>>
    BY <1>1, <2>1, <2>3, NameStays
  <2> QED
    BY <1>3, <2>2, <2>3 DEF RefineLoad
<1>4. CASE RefineNext
  <2>1. ReplaceRegion(newRegion) /\ newRegion' = NULL
    BY <1>4 DEF RefineNext, Unloaded
  <2>2. Settled(newRegion, Lasting, lastNumberType, matched)
    BY <1>1 DEF NameInv, Settled
  <2>3. op = "again" /\ newRegion # NULL => ~HasType(newRegion)
    BY DEF ParInv, HasType
  <2> QED
    BY <1>1, <2>1, <2>2, <2>3, NameReplace
<1> QED
  BY <1>3, <1>4

LEMMA NameDone ==
  ASSUME TypeOK, NameInv, RefineDone
  PROVE  NameInv'
<1>1. /\ op \in {"again", "near"} /\ op' = "return" /\ i > Len(regions)
      /\ UNCHANGED <<q, lastNumberType, matched>>
  BY DEF RefineDone, Compact, settings
<1>2. Lasting = q.type
  BY <1>1, LastingNow
<1>3. Lasting' = q.type
  BY <1>1 DEF Lasting, SearchTypeAfter, TypeOK, CallTypeOK, NumberCall, NearCall
<1>4. PICK g \in Sorted({n \in DOMAIN regions : regions[n] # NULL}) :
        regions' = [n \in DOMAIN g |-> regions[g[n]]]
  BY DEF RefineDone, Compact
<1>5. \A n \in DOMAIN g : g[n] \in DOMAIN regions
  BY <1>4 DEF Sorted
<1>6. \A n \in DOMAIN regions : n < i
  <2>1. DOMAIN regions = 1 .. Len(regions) /\ Len(regions) \in Nat /\ i \in Nat
    BY LenProperties DEF TypeOK, ResultsTypeOK, LoopTypeOK
  <2> QED
    BY <1>1, <2>1
<1>7. \A n \in DOMAIN regions : Settled(regions[n], q.type, lastNumberType, matched)
  BY <1>1, <1>2, <1>6 DEF NameInv, Behind
<1>8. \A n \in DOMAIN regions' : Settled(regions'[n], q.type, lastNumberType, matched)
  BY <1>4, <1>5, <1>7
<1> QED
  BY <1>1, <1>3, <1>8 DEF NameInv, Settled, Named, TypeAt, HasType, Address

LEMMA NameCall ==
  ASSUME GroupQueries = {}, TypeOK, SessionInv, ScanInv, NameInv, Call
  PROVE  NameInv'
<1>1. op = "idle" /\ Lasting = lastSearchType
  BY DEF Call, SearchNumber, SearchNearby, SearchGroup, EditAll, SetFloatTolerance,
     ClearResults, GetResults, Lasting
<1>2. \A n \in DOMAIN regions : Settled(regions[n], lastSearchType, lastNumberType, matched)
  BY <1>1 DEF NameInv, Behind
<1>3. ASSUME NEW query \in NumberQueries, SearchNumber(query) PROVE NameInv'
  <2>1. /\ q' = query /\ lastNumberType' = query.type /\ newRegion' = NULL /\ i' = 1
        /\ op' \in {"first", "again"} /\ UNCHANGED regions
    BY <1>3, StartType DEF SearchNumber, JJScanMemory, results
  <2>2. op' = "first" => ~firstSearchDone
    BY <1>3 DEF SearchNumber, JJScanMemory, ScanInv
  <2>3. op' = "first" => regions = <<>>
    BY <1>1, <2>2 DEF SessionInv, SessionFresh
  <2>4. \A n \in DOMAIN regions : ~(n < 1)
    BY DEF TypeOK, ResultsTypeOK
  <2> QED
    BY <2>1, <2>3, <2>4 DEF NameInv, Behind
<1>4. ASSUME NEW query \in NearQueries, SearchNearby(query) PROVE NameInv'
  <2>1. /\ op' = "near" /\ newRegion' = NULL /\ i' = 1
        /\ UNCHANGED <<regions, lastNumberType, matched>>
    BY <1>4, StartType DEF SearchNearby, JJNearBySearch, results, settings
  <2>2. \A n \in DOMAIN regions : ~(n < 1)
    BY DEF TypeOK, ResultsTypeOK
  <2>3. \A n \in DOMAIN regions : regions[n] # NULL => Named(regions[n], lastNumberType, matched)
    BY <1>2 DEF Settled, Named, TypeAt
  <2> QED
    BY <2>1, <2>2, <2>3 DEF NameInv, Behind, Named, TypeAt, HasType, Address
<1>5. ASSUME NEW query \in EditQueries, EditAll(query) PROVE NameInv'
  <2>1. /\ op' = "edit" /\ q' = query /\ UNCHANGED <<regions, lastNumberType, matched, lastSearchType>>
    BY <1>5 DEF EditAll, JJWriteAll, results, settings, session
  <2>2. Lasting' = Lasting
    BY <1>1, <2>1, QueriesAssumption DEF Lasting, SearchTypeAfter, EditCall
  <2> QED
    BY <1>1, <2>1, <2>2, NameKept
<1>6. ASSUME NEW d \in Tolerances, SetFloatTolerance(d) PROVE NameInv'
  BY <1>1, <1>6, NameKept DEF SetFloatTolerance, results, session, Lasting
<1>7. CASE ClearResults
  BY <1>1, <1>7 DEF ClearResults, Reconstruct, NameInv
<1>8. CASE GetResults
  BY <1>1, <1>8 DEF GetResults, Crash, NameInv
<1> QED
  BY <1>1, <1>3, <1>4, <1>5, <1>6, <1>7, <1>8 DEF Call

LEMMA NameNext ==
  ASSUME "nomem" \notin Faults, SameRegions, GroupQueries = {},
         TypeOK, SessionInv, ScanInv, MetInv, ParInv, NameInv, [Next]_vars
  PROVE  NameInv'
<1>1. CASE Call
  BY <1>1, NameCall
<1>2. op # "group" /\ ~AgainSkip
  BY NeverSkips DEF ScanInv
<1>3. CASE EngineStep /\ UNCHANGED session
  <2>1. op' = "crashed" => NameInv'
    BY DEF NameInv
  <2>2. CASE RefineNull \/ AgainFault \/ NearFault \/ EditNull
    BY <2>1, <2>2 DEF RefineNull, AgainFault, NearFault, EditNull, Crash
  <2>3. CASE FirstDone
    BY <1>3, <2>3, NameKept DEF FirstDone, results, session, Lasting, SearchTypeAfter
  <2>4. CASE EditSlide \/ EditNext \/ EditDone
    BY <1>3, <2>4, NameKept DEF EditSlide, EditNext, EditDone, Editing, results, settings,
       session, Lasting, SearchTypeAfter
  <2> QED
    BY <1>2, <1>3, <2>2, <2>3, <2>4, NameFirst, NameAgain, NameNear, NameRefine, NameDone
    DEF EngineStep, ScanStep, GroupFound, GroupMiss, GroupDone, GroupNull
<1>4. CASE Return
  <2>1. /\ op = "return" /\ op' = "idle" /\ lastSearchType' = SearchTypeAfter
        /\ UNCHANGED <<regions, lastNumberType>>
        /\ matched' = {m \in matched : \E n \in DOMAIN regions :
                         regions[n] # NULL /\ \E k \in DOMAIN regions[n].slides :
                                                m[1] = Address(regions[n], k)}
    BY <1>4 DEF Return, results, settings
  <2>2. Lasting' = Lasting
    BY <2>1 DEF Lasting
  <2>3. ASSUME NEW n \in DOMAIN regions, regions[n] # NULL, NEW k \in DOMAIN regions[n].slides,
               NEW t, <<Address(regions[n], k), t>> \in matched
        PROVE  <<Address(regions[n], k), t>> \in matched'
    <3> DEFINE m == <<Address(regions[n], k), t>>
    <3>1. m[1] = Address(regions[n], k)
      OBVIOUS
    <3>2. m \in matched
      BY <2>3
    <3> HIDE DEF m
    <3>3. m \in matched'
      BY <2>1, <2>3, <3>1, <3>2
    <3> QED
      BY <3>3 DEF m
  <2> QED
    BY <2>1, <2>2, <2>3, NameKept
<1>5. CASE Game \/ UNCHANGED vars
  <2>1. UNCHANGED <<engineVars, session>>
    BY <1>5 DEF Game, GameStep, GameWrites, GameUnmaps, vars
  <2>2. /\ UNCHANGED <<regions, op, q, todo, i, mapsize, newRegion, matched, lastNumberType,
                       lastSearchType>>
        /\ Lasting' = Lasting
    BY <2>1 DEF engineVars, results, settings, frame, session, Lasting, SearchTypeAfter
  <2> QED
    BY <2>2 DEF NameInv, Behind, Settled, Named, TypeAt, HasType, Address, Current
<1>6. ~Throw
  BY DEF Throw, OutOfMemory
<1> QED
  BY <1>1, <1>3, <1>4, <1>5, <1>6 DEF Next, Work, Crashed

(* Every result is reported with a type under which the last search that   *)
(* kept it matched its value: number and nearby searches of any types      *)
(* follow each other, the game writes, unmaps and maps its memory, but no  *)
(* group is searched, no search runs out of memory, and all searches meet  *)
(* the same regions.                                                       *)
THEOREM ReportedAsMatched ==
  ASSUME "nomem" \notin Faults, SameRegions, GroupQueries = {}
  PROVE  Spec => []TypeIsMatched
<1>1. Init => SessionInv /\ ScanInv /\ MetInv /\ ParInv /\ NameInv
  <2> SUFFICES ASSUME Init PROVE SessionInv /\ ScanInv /\ MetInv /\ ParInv /\ NameInv
    OBVIOUS
  <2>1. SessionInv /\ ScanInv /\ ParInv
    BY DEF Init, Construct, SessionInv, SessionFresh, ScanInv, ParInv
  <2>2. MetInv
    BY InitMet
  <2>3. NameInv
    BY DEF Init, Construct, NameInv
  <2> QED
    BY <2>1, <2>2, <2>3
<1>2. /\ TypeOK /\ SessionInv /\ ScanInv /\ MetInv /\ ParInv /\ NameInv /\ [Next]_vars
           => SessionInv' /\ ScanInv' /\ MetInv' /\ ParInv' /\ NameInv'
  BY SessionNext, ScanNext, MetNext, ParNext, NameNext
<1>3. TypeOK /\ ParInv /\ NameInv => TypeIsMatched
  <2> SUFFICES ASSUME TypeOK, ParInv, NameInv, op = "idle", NEW s \in Slots
               PROVE  <<SlotAddress(s), ReportedType(s)>> \in matched
    BY DEF TypeIsMatched
  <2>1. PICK n \in DOMAIN regions : /\ regions[n] # NULL
                                    /\ s \in {<<n, k>> : k \in DOMAIN regions[n].slides}
    BY DEF Slots
  <2>2. PICK k \in DOMAIN regions[n].slides : s = <<n, k>>
    BY <2>1
  <2>3. Settled(regions[n], lastSearchType, lastNumberType, matched)
    BY DEF NameInv, Behind, Lasting
  <2>4. <<Address(regions[n], k), TypeAt(regions[n], k, lastSearchType)>> \in matched
    BY <2>1, <2>3 DEF Settled, Named
  <2>5. TypeAt(regions[n], k, lastSearchType) # NoType
    BY <2>4, TypesAssumption DEF TypeOK, ResultsTypeOK
  <2>6. ReportedType(s) = TypeAt(regions[n], k, lastSearchType)
    BY <2>2, <2>5 DEF ReportedType, TypeAt
  <2> QED
    BY <2>2, <2>4, <2>6 DEF SlotAddress
<1> QED
  BY <1>1, <1>2, <1>3, TypeCorrect, PTL DEF Spec
=============================================================================
