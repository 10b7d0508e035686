------------------------- MODULE H5gg_quiet_proofs -------------------------
(***************************************************************************)
(* Theorems about H5gg when the game's memory stays mapped: no search      *)
(* reads beyond what it has mapped.  And, when it also holds still while a *)
(* call runs: a first search finds everything, a repeated one keeps what   *)
(* still matches, editAll writes all of it, a group search finds all it    *)
(* looks at, and h5ggEngine implements ResultList.                         *)
(***************************************************************************)
EXTENDS H5gg_results_proofs, H5ggList

-----------------------------------------------------------------------------
(* What the theorems assume of the calls and of the memory.                *)

(* Every search of numbers and every nearby search is for values of one    *)
(* length: I32 and F32, say.                                               *)
OneLength == \A p1, p2 \in NumberQueries \cup NearQueries :
               TypeLen[p1.type] = TypeLen[p2.type]

(* The game neither writes nor unmaps its memory during a call, and the    *)
(* engine can map all of it.                                               *)
Still == Faults \cap {"write", "unmap", "remap", "nomem"} = {}

-----------------------------------------------------------------------------
(* Memory that stays mapped.  Every region of the list is one the game has *)
(* mapped, and a value of the length searched for at each of its slides    *)
(* lies inside it.                                                         *)
Fits(r) == /\ r.base \in Writable \ Stack
           /\ r.size = Size[r.base] /\ r.size > 0
           /\ \A s : HasSlide(r, s) =>
                /\ s < r.size
                /\ \A query \in NumberQueries \cup NearQueries :
                     s + TypeLen[query.type] <= r.size

(* The regions to be scanned, and what is mapped in of the current one.    *)
MapInv ==
  /\ vmsize = Size
  /\ \A b \in Bases : cache[b] > 0 => b \in Writable \ Stack /\ cache[b] = Size[b]
  /\ op = "first" => /\ \A b \in todo : b \in Bases /\ cache[b] > 0
                     /\ \A b \in todo : mapsize > 0 /\ Current(b) => mapsize = Size[b]
  /\ op \in {"again", "near"} /\ mapsize > 0 => mapsize = regions[i].size
ListInv == \A n \in DOMAIN regions : regions[n] # NULL => Fits(regions[n])
NewInv ==
  newRegion # NULL /\ op \in {"first", "again", "near"} =>
    /\ mapsize > 0 /\ Fits(newRegion)
    /\ op = "first" => \A b \in todo : Current(b) => newRegion.base = b
    /\ op # "first" => newRegion.base = regions[i].base
CallInv ==
  /\ op \notin {"crashed", "group"}
  /\ op \in {"first", "again"} => q \in NumberQueries
  /\ op = "near" => q \in NearQueries
  /\ op = "edit" => q \in EditQueries
  /\ op = "return" => q \in NumberQueries \cup NearQueries \cup EditQueries
FitInv == MapInv /\ ListInv /\ NewInv /\ CallInv

-----------------------------------------------------------------------------
(* A place at which a search for a value of the type looks.                *)
Good(a) == InRange(a, q.range) /\ Hit(a, q.type, q.want)
AllGood(r) == \A s : HasSlide(r, s) => Good(r.base + s)
At(b, p) == /\ b \in Writable \ Stack /\ p \in Nat
            /\ p % TypeLen[q.type] = 0 /\ p + TypeLen[q.type] <= Size[b]
Wanted(b, p) == At(b, p) /\ Good(b + p)

(* A first search: what it has listed, and what it has passed.             *)
FoundInv ==
  op = "first" =>
    /\ j % TypeLen[q.type] = 0
    /\ mapsize > 0 => ~memoryLimitReached
    /\ mapsize = 0 => j = 0
    /\ \A n \in DOMAIN regions : AllGood(regions[n])
    /\ \A s : HasSlide(newRegion, s) => Wanted(newRegion.base, s)
PassedInv ==
  op = "first" /\ ~memoryLimitReached =>
    \A b, p : Wanted(b, p) =>
      \/ Shows(b + p)
      \/ b \in todo /\ (Current(b) /\ mapsize > 0 /\ p < j =>
           HasSlide(newRegion, p))

(* A repeated search: the regions behind it, and the one it is in.         *)
ImprovedInv ==
  op = "again" =>
    /\ \A n \in DOMAIN regions : n < i => AllGood(regions[n])
    /\ AllGood(newRegion)
    /\ mapsize > 0 =>
         \A k \in DOMAIN regions[i].slides : k < j /\ Good(Address(regions[i], k)) =>
           HasSlide(newRegion, regions[i].slides[k])

(* The end of a search.                                                    *)
EndInv ==
  op = "return" /\ q.api = "number" =>
    /\ \A n \in DOMAIN regions : AllGood(regions[n])
    /\ ~firstSearchDone /\ ~memoryLimitReached =>
         \A b, p : Wanted(b, p) => Shows(b + p)

SearchInv == FoundInv /\ PassedInv /\ ImprovedInv /\ EndInv

-----------------------------------------------------------------------------
(* Regions and what is mapped in of them.                                  *)

(* While all of a region is mapped, loading it maps all of it.             *)
LEMMA Loaded ==
  ASSUME vmsize = Size, NEW b \in Bases, NEW m \in LoadRegion(b, Size[b])
  PROVE  m = Size[b] \/ (m = 0 /\ "remap" \in Faults)
<1> USE MemoryAssumption
<1>1. b \in Nat /\ Size[b] \in Nat
  OBVIOUS
<1>2. ASSUME m \in 0 .. Size[b], m < Size[b], ~Live(b + m) PROVE FALSE
  <2>1. b <= b + m /\ b + m < b + vmsize[b]
    BY <1>1, <1>2
  <2> QED
    BY <1>2, <2>1 DEF Live
<1>3. \/ m \in 0 .. Size[b] /\ (m < Size[b] => ~Live(b + m))
      \/ m = 0 /\ "remap" \in Faults
  BY DEF LoadRegion
<1> QED
  BY <1>1, <1>2, <1>3

(* The value searched for is as long as that of any search.                *)
LEMMA Length ==
  ASSUME OneLength, TypeOK, CallInv, op \in {"first", "again", "near"}
  PROVE  /\ TypeLen[q.type] \in Nat \ {0} /\ q \in NumberQueries \cup NearQueries
         /\ \A query \in NumberQueries \cup NearQueries :
              TypeLen[query.type] = TypeLen[q.type]
<1>1. q \in NumberQueries \cup NearQueries
  BY DEF CallInv
<1>2. q.type \in Types
  BY <1>1, QueriesAssumption DEF NumberCall, NearCall
<1> QED
  BY <1>1, <1>2, TypesAssumption DEF OneLength

LEMMA FitFirst ==
  ASSUME OneLength, TypeOK, FitInv, UNCHANGED target, NEW b \in Bases,
         FirstLoad(b) \/ FirstLimit(b) \/ FirstFound(b) \/ FirstExhausted(b)
  PROVE  FitInv'
<1> USE DEF FitInv
<1>1. op = "first" /\ op' = op /\ q' = q /\ cache' = cache /\ vmsize' = vmsize
  BY DEF FirstLoad, FirstLimit, FirstFound, FirstExhausted, settings, target
<1>2. Current(b) /\ b \in todo /\ b \in Nat
  BY DEF FirstLoad, FirstLimit, FirstFound, FirstExhausted, Current, TypeOK, LoopTypeOK
<1>3. cache[b] = Size[b] /\ b \in Writable \ Stack /\ Size[b] > 0 /\ Size[b] \in Nat
  BY <1>1, <1>2, MemoryAssumption DEF MapInv
<1>4. CallInv'
  BY <1>1 DEF CallInv
<1>5. CASE FirstLoad(b)
  <2>1. newRegion = NULL /\ newRegion' = NULL /\ regions' = regions /\ mapsize = 0
    BY <1>1, <1>2, <1>5 DEF FirstLoad, NewInv, results
  <2>2. todo' = todo \/ todo' = todo \ {b}
    BY <1>5 DEF FirstLoad
  <2>3. mapsize' > 0 => mapsize' = Size[b] /\ todo' = todo
    <3>1. mapsize' \in LoadRegion(b, Size[b]) => mapsize' = 0 \/ mapsize' = Size[b]
      BY Loaded DEF MapInv
    <3> QED
      BY <1>3, <1>5, <2>1, <3>1 DEF FirstLoad
  <2>4. \A c \in todo' : mapsize' > 0 /\ Current(c)' => mapsize' = Size[c]
    <3> SUFFICES ASSUME NEW c \in todo', mapsize' > 0, Current(c)' PROVE c = b
      BY <2>3
    <3>1. Current(c)
      BY <2>3 DEF Current
    <3> QED
      BY <1>2, <3>1, OneCurrent
  <2>5. MapInv'
    BY <1>1, <2>2, <2>4 DEF MapInv
  <2>6. ListInv' /\ NewInv'
    BY <2>1 DEF ListInv, NewInv
  <2> QED
    BY <1>4, <2>5, <2>6
<1>6. CASE FirstLimit(b) \/ FirstExhausted(b)
  <2>1. LeaveRegion(b)
    BY <1>6 DEF FirstLimit, FirstExhausted
  <2>2. mapsize' = 0 /\ newRegion' = NULL /\ todo' = todo \ {b}
    BY <2>1 DEF LeaveRegion, Unloaded
  <2>3. MapInv' /\ NewInv'
    BY <1>1, <2>2 DEF MapInv, NewInv
  <2>4. regions \in Seq(Region \cup {NULL}) /\ newRegion \in Region \cup {NULL}
    BY DEF TypeOK, ResultsTypeOK
  <2>5. regions' = regions \/ (newRegion # NULL /\ regions' = Append(regions, newRegion))
    BY <2>1 DEF LeaveRegion
  <2>6. \A n \in DOMAIN regions' : \/ n \in DOMAIN regions /\ regions'[n] = regions[n]
                                   \/ regions'[n] = newRegion /\ newRegion # NULL
    BY <2>4, <2>5, AppendProperties
  <2>7. ListInv'
    BY <1>1, <2>6 DEF ListInv, NewInv
  <2> QED
    BY <1>4, <2>3, <2>7
<1>7. CASE FirstFound(b)
  <2>1. PICK p \in FirstHits(b) : PushSlide(b, mapsize, p)
    BY <1>7 DEF FirstFound
  <2>2. /\ UNCHANGED <<regions, mapsize, todo>> /\ mapsize = Size[b]
    BY <1>1, <1>2, <1>7 DEF FirstFound, MapInv
  <2>3. p \in Nat /\ p + TypeLen[q.type] <= Size[b] /\ p < Size[b]
    <3>1. p \in j .. (mapsize - TypeLen[q.type]) /\ TypeLen[q.type] \in Nat \ {0}
      BY <1>1, Length DEF FirstHits, Strides
    <3>2. j \in Nat
      BY DEF TypeOK, LoopTypeOK
    <3> QED
      BY <1>3, <2>2, <3>1, <3>2
  <2>4. newRegion # NULL => Fits(newRegion) /\ newRegion.base = b
    BY <1>1, <1>2 DEF NewInv
  <2>5. /\ newRegion' \in Region /\ newRegion' # NULL
        /\ newRegion = NULL => newRegion'.base = b /\ newRegion'.size = mapsize
        /\ newRegion # NULL => /\ newRegion'.base = newRegion.base
                               /\ newRegion'.size = newRegion.size
        /\ \A s : HasSlide(newRegion', s) <=> s = p \/ HasSlide(newRegion, s)
    BY <1>2, <1>3, <2>1, <2>2, <2>3, PushShape
  <2>6. newRegion'.base = b /\ newRegion'.size = Size[b]
    BY <2>2, <2>4, <2>5 DEF Fits
  <2>7. ASSUME NEW s, HasSlide(newRegion', s)
        PROVE  /\ s < newRegion'.size
               /\ \A query \in NumberQueries \cup NearQueries :
                    s + TypeLen[query.type] <= newRegion'.size
    <3>1. CASE s = p
      BY <1>1, <2>3, <2>6, <3>1, Length
    <3>2. CASE HasSlide(newRegion, s)
      BY <2>4, <2>6, <3>2 DEF Fits, HasSlide
    <3> QED
      BY <2>5, <2>7, <3>1, <3>2
  <2>8. Fits(newRegion')
    BY <1>3, <2>6, <2>7 DEF Fits
  <2>9. \A c \in todo' : Current(c)' => c = b
    BY <1>2, <2>2, OneCurrent DEF Current
  <2>10. NewInv'
    BY <1>1, <1>3, <2>2, <2>6, <2>8, <2>9 DEF NewInv
  <2>11. MapInv' /\ ListInv'
    BY <1>1, <2>2, <2>9 DEF MapInv, ListInv
  <2> QED
    BY <1>4, <2>10, <2>11
<1> QED
  BY <1>5, <1>6, <1>7

(* Whole pages are mapped in: what lies in the part of the region that is  *)
(* loaded can be read.                                                     *)
LEMMA Covers ==
  ASSUME NEW m \in Nat, NEW P \in Nat \ {0}
  PROVE  ((m + P - 1) \div P) * P >= m /\ ((m + P - 1) \div P) * P \in Nat
OBVIOUS

LEMMA NoOverread ==
  ASSUME TypeOK, NEW pos, pos + TypeLen[q.type] \in Nat,
         pos + TypeLen[q.type] <= mapsize
  PROVE  ~Overread(pos)
<1>1. mapsize \in Nat /\ PageSize \in Nat \ {0}
  BY MemoryAssumption DEF TypeOK, LoopTypeOK
<1>2. Extent >= mapsize /\ Extent \in Nat
  BY <1>1, Covers DEF Extent
<1> QED
  BY <1>1, <1>2 DEF Overread

(* The slide that a search looks at lies in what is mapped.                *)
LEMMA SlideFits ==
  ASSUME OneLength, TypeOK, FitInv, op \in {"again", "near"}, AtSlide
  PROVE  /\ i \in DOMAIN regions /\ regions[i] # NULL /\ Fits(regions[i])
         /\ HasSlide(regions[i], Slide) /\ mapsize = regions[i].size
         /\ Slide + TypeLen[q.type] <= mapsize /\ ~Overread(Slide)
<1> USE DEF FitInv
<1>1. i \in DOMAIN regions /\ mapsize > 0 /\ regions[i] # NULL
  BY DEF AtSlide, Refining, TypeOK, LoopTypeOK
<1>2. Fits(regions[i]) /\ mapsize = regions[i].size
  BY <1>1 DEF ListInv, MapInv
<1>3. HasSlide(regions[i], Slide)
  BY <1>1 DEF HasSlide, Slide, AtSlide
<1>4. Slide + TypeLen[q.type] <= mapsize
  BY <1>2, <1>3, Length DEF Fits
<1>5. Slide + TypeLen[q.type] \in Nat
  BY SlideType, Length
<1> QED
  BY <1>1, <1>2, <1>3, <1>4, <1>5, NoOverread

(* So does all that a nearby search probes around it.                      *)
LEMMA ProbesFit ==
  ASSUME OneLength, TypeOK, FitInv, op = "near", AtSlide
  PROVE  /\ \A p \in Probes : p \in Nat /\ p + TypeLen[q.type] <= mapsize
         /\ Faulty = {}
<1>1. TypeLen[q.type] \in Nat \ {0} /\ mapsize = regions[i].size /\ mapsize \in Nat
  BY Length, SlideFits DEF FitInv, TypeOK, LoopTypeOK
<1>2. WindowEnd \in Nat /\ WindowEnd <= mapsize
  BY <1>1, WindowType, SlideType DEF WindowEnd, Smaller
<1>3. WindowStart \in Nat
  BY WindowType, SlideType DEF WindowStart, Larger, TypeOK, LoopTypeOK
<1>4. \A p \in Probes : p \in WindowStart .. (WindowEnd - TypeLen[q.type])
  BY DEF Probes, Strides
<1>5. \A p \in Probes : p \in Nat /\ p + TypeLen[q.type] <= mapsize
                        /\ p + TypeLen[q.type] \in Nat
  BY <1>1, <1>2, <1>3, <1>4
<1> QED
  BY <1>5, NoOverread DEF Faulty

(* A search that refines the list neither crashes nor leaves its regions.  *)
LEMMA FitPush ==
  ASSUME OneLength, TypeOK, FitInv, op \in {"again", "near"}, AtSlide,
         AgainKeep \/ NearFound
  PROVE  newRegion' # NULL /\ Fits(newRegion') /\ newRegion'.base = regions[i].base
<1>1. /\ regions[i] # NULL /\ Fits(regions[i]) /\ HasSlide(regions[i], Slide)
      /\ mapsize = regions[i].size
  BY SlideFits
<1>2. newRegion # NULL => Fits(newRegion) /\ newRegion.base = regions[i].base
  BY DEF FitInv, NewInv
<1>3. regions[i] \in Region /\ regions[i].base \in Nat /\ regions[i].size \in Nat
      /\ Slide \in Nat
  BY SlideType
<1> DEFINE InSize(s) == /\ s < regions[i].size
                        /\ \A query \in NumberQueries \cup NearQueries :
                             s + TypeLen[query.type] <= regions[i].size
<1>4. /\ newRegion' # NULL
      /\ newRegion = NULL => /\ newRegion'.base = regions[i].base
                             /\ newRegion'.size = regions[i].size
      /\ newRegion # NULL => /\ newRegion'.base = newRegion.base
                             /\ newRegion'.size = newRegion.size
      /\ \A s : HasSlide(newRegion', s) => InSize(s) \/ HasSlide(newRegion, s)
  <2>1. CASE AgainKeep
    <3>1. PushSlide(regions[i].base, regions[i].size, Slide)
      BY <2>1 DEF AgainKeep
    <3>2. InSize(Slide)
      BY <1>1 DEF Fits
    <3> HIDE DEF InSize
    <3> QED
      BY <1>3, <3>1, <3>2, PushShape
  <2>2. CASE NearFound
    <3> DEFINE hits(stray) == WindowHits \cup stray
               keys(stray) == hits(stray) \cup
                              {regions[i].slides[o] : o \in Partners(hits(stray))}
    <3>1. op = "near"
      BY <2>2 DEF NearFound
    <3>2. PICK stray \in SUBSET Faulty : PushFound(keys(stray), Partners(hits(stray)))
      BY <2>2 DEF NearFound
    <3>3. IsFiniteSet(keys(stray)) /\ keys(stray) \subseteq Nat
      BY <3>1, NearKeys
    <3>4. \A h \in hits(stray) : InSize(h)
      <4>1. \A h \in hits(stray) : h \in Nat /\ h + TypeLen[q.type] <= mapsize
        BY <3>1, <3>2, ProbesFit DEF WindowHits
      <4> QED
        BY <1>1, <1>3, <4>1, Length DEF FitInv
    <3>5. \A o \in Partners(hits(stray)) : InSize(regions[i].slides[o])
      <4>1. regions[i].slides \in Seq(Nat) /\ lastold \in Nat
        BY <1>3 DEF Region, TypeOK, LoopTypeOK
      <4>2. \A o \in Partners(hits(stray)) : o \in DOMAIN regions[i].slides
        BY <4>1, LenProperties DEF Partners
      <4> QED
        BY <1>1, <4>2 DEF Fits, HasSlide
    <3>6. \A s \in keys(stray) : InSize(s)
      BY <3>4, <3>5
    <3> HIDE DEF keys, hits, InSize
    <3> QED
      BY <3>2, <3>3, <3>6, PushFoundShape
  <2> QED
    BY <2>1, <2>2
<1>5. newRegion'.base = regions[i].base /\ newRegion'.size = regions[i].size
  BY <1>1, <1>2, <1>4 DEF Fits
<1>6. ASSUME NEW s, HasSlide(newRegion, s) PROVE InSize(s)
  <2>1. newRegion # NULL
    BY <1>6 DEF HasSlide
  <2>2. newRegion.size = regions[i].size
    BY <1>1, <1>2, <2>1 DEF Fits
  <2> QED
    BY <1>2, <1>6, <2>1, <2>2 DEF Fits
<1> QED
  BY <1>1, <1>4, <1>5, <1>6 DEF Fits

LEMMA FitRefine ==
  ASSUME OneLength, TypeOK, HoleInv, FitInv, UNCHANGED target,
         \/ RefineNull \/ AgainSkip \/ RefineLoad \/ RefineNext \/ RefineDone
         \/ AgainKeep \/ AgainDrop \/ AgainFault \/ NearMiss \/ NearFound \/ NearFault
  PROVE  FitInv'
<1> USE DEF FitInv
<1>1. op \in {"again", "near"} /\ vmsize' = vmsize
  BY DEF RefineNull, AgainSkip, RefineLoad, RefineNext, RefineDone, AgainKeep, AgainDrop,
     AgainFault, NearMiss, NearFound, NearFault, Refining, target
<1>2. ~RefineNull /\ ~AgainFault /\ ~NearFault
  <2>1. ~RefineNull
    BY DEF RefineNull, Refining, HoleInv, CallInv, TypeOK, LoopTypeOK
  <2>2. ~AgainFault
    BY <1>1, SlideFits DEF AgainFault
  <2>3. ~NearFault
    BY ProbesFit DEF NearFault
  <2> QED
    BY <2>1, <2>2, <2>3
<1>3. regions \in Seq(Region \cup {NULL}) /\ i \in Nat
  BY DEF TypeOK, ResultsTypeOK, LoopTypeOK
<1>4. CASE AgainSkip \/ AgainDrop \/ NearMiss
  <2>1. UNCHANGED <<regions, cache, mapsize, newRegion, op, q, todo>>
    BY <1>4 DEF AgainSkip, AgainDrop, NearMiss, results, settings
  <2>2. i' = i \/ mapsize = 0
    BY <1>4 DEF AgainSkip, AgainDrop, NearMiss
  <2>3. newRegion # NULL => mapsize > 0
    BY <1>1 DEF NewInv
  <2>4. MapInv' /\ NewInv'
    BY <1>1, <2>1, <2>2, <2>3 DEF MapInv, NewInv
  <2> QED
    BY <2>1, <2>4 DEF ListInv, CallInv
<1>5. CASE AgainKeep \/ NearFound
  <2>1. UNCHANGED <<regions, cache, mapsize, i, op, q, todo>> /\ AtSlide
    BY <1>5 DEF AgainKeep, NearFound, results, settings
  <2>2. NewInv'
    BY <1>1, <1>5, <2>1, FitPush DEF NewInv, AtSlide
  <2> QED
    BY <1>1, <2>1, <2>2 DEF MapInv, ListInv, CallInv
<1>6. CASE RefineLoad
  <2>1. i \in DOMAIN regions /\ regions[i] # NULL /\ mapsize = 0 /\ newRegion = NULL
    BY <1>1, <1>6 DEF RefineLoad, Refining, NewInv
  <2>2. UNCHANGED <<cache, newRegion, op, q, todo>>
    BY <1>6 DEF RefineLoad, settings
  <2>3. PICK m \in LoadRegion(regions[i].base, regions[i].size) :
          \/ m = 0 /\ ReplaceRegion(NULL) /\ UNCHANGED mapsize
          \/ m > 0 /\ mapsize' = m /\ UNCHANGED <<regions, i>>
    BY <1>6 DEF RefineLoad
  <2>4. Fits(regions[i]) /\ regions[i].base \in Bases
    BY <2>1, MemoryAssumption DEF ListInv, Fits
  <2>5. m = regions[i].size \/ m = 0
    BY <2>4, Loaded DEF MapInv, Fits
  <2>6. MapInv'
    BY <1>1, <2>1, <2>2, <2>3, <2>5 DEF MapInv
  <2>7. \A n \in DOMAIN regions' : n \in DOMAIN regions
                                   /\ (regions'[n] = regions[n] \/ regions'[n] = NULL)
    BY <2>3 DEF ReplaceRegion
  <2> QED
    BY <2>1, <2>2, <2>6, <2>7 DEF ListInv, NewInv, CallInv
<1>7. CASE RefineNext
  <2>1. ReplaceRegion(newRegion) /\ mapsize' = 0 /\ newRegion' = NULL
    BY <1>7 DEF RefineNext, Unloaded
  <2>2. UNCHANGED <<cache, op, q, todo>>
    BY <1>7 DEF RefineNext, settings
  <2>3. \A n \in DOMAIN regions' : n \in DOMAIN regions
                                   /\ (regions'[n] = regions[n] \/ regions'[n] = newRegion)
    BY <2>1 DEF ReplaceRegion
  <2>4. ListInv'
    BY <1>1, <2>3 DEF ListInv, NewInv
  <2> QED
    BY <1>1, <2>1, <2>2, <2>4 DEF MapInv, NewInv, CallInv
<1>8. CASE RefineDone
  <2>1. PICK g \in Sorted({n \in DOMAIN regions : regions[n] # NULL}) :
          regions' = [n \in DOMAIN g |-> regions[g[n]]]
    BY <1>8 DEF RefineDone, Compact
  <2>2. \A n \in DOMAIN g : g[n] \in DOMAIN regions /\ regions[g[n]] # NULL
    BY <2>1 DEF Sorted
  <2>3. ListInv'
    BY <2>1, <2>2 DEF ListInv
  <2>4. op' = "return" /\ q' = q /\ UNCHANGED <<cache, todo, mapsize, newRegion>>
    BY <1>8 DEF RefineDone, Compact, settings, frame
  <2>5. q \in NumberQueries \cup NearQueries
    BY <1>1 DEF CallInv
  <2> QED
    BY <1>1, <2>3, <2>4, <2>5 DEF MapInv, NewInv, CallInv
<1> QED
  BY <1>2, <1>4, <1>5, <1>6, <1>7, <1>8

LEMMA FitCall ==
  ASSUME GroupQueries = {}, TypeOK, ScanInv, HoleInv, FitInv, Call
  PROVE  FitInv'
<1> USE DEF FitInv
<1>1. op = "idle"
  BY DEF Call, SearchNumber, SearchNearby, SearchGroup, EditAll, SetFloatTolerance,
     ClearResults, GetResults
<1>2. ~NullHole
  BY <1>1 DEF HoleInv, NullHole
<1>3. vmsize' = vmsize
  BY DEF Call, SearchNumber, SearchNearby, SearchGroup, EditAll, JJWriteAll,
     SetFloatTolerance, ClearResults, GetResults, target
<1>4. ASSUME NEW query \in NumberQueries, SearchNumber(query) PROVE FitInv'
  <2>1. q' = query /\ op' \in {"first", "again"} /\ regions' = regions
        /\ newRegion' = NULL /\ mapsize' = 0
    BY <1>4, StartType DEF SearchNumber, JJScanMemory, results
  <2>2. \/ op' = "again" /\ cache' = cache
        \/ /\ op' = "first" /\ todo' = {b \in Bases : cache'[b] > 0}
           /\ cache' = [b \in Bases |-> IF b \in Visited(query.range) \cap (Writable \ Stack)
                                        THEN vmsize[b] ELSE cache[b]]
    BY <1>4 DEF SearchNumber, JJScanMemory
  <2>3. \A b \in Bases : cache'[b] > 0 => b \in Writable \ Stack /\ cache'[b] = Size[b]
    BY <2>2 DEF MapInv
  <2> QED
    BY <1>3, <2>1, <2>2, <2>3 DEF MapInv, ListInv, NewInv, CallInv
<1>5. ASSUME NEW query \in NearQueries, SearchNearby(query) PROVE FitInv'
  BY <1>3, <1>5, StartType DEF SearchNearby, JJNearBySearch, results, settings,
     MapInv, ListInv, NewInv, CallInv
<1>6. ASSUME NEW query \in EditQueries, EditAll(query) PROVE FitInv'
  BY <1>3, <1>6, StartType DEF EditAll, JJWriteAll, results, settings,
     MapInv, ListInv, NewInv, CallInv
<1>7. ASSUME NEW d \in Tolerances, SetFloatTolerance(d) PROVE FitInv'
  BY <1>1, <1>3, <1>7 DEF SetFloatTolerance, results, MapInv, ListInv, NewInv, CallInv
<1>8. CASE ClearResults
  <2>1. op' = "idle" /\ regions' = <<>> /\ cache' = [b \in Bases |-> 0]
    BY <1>1, <1>8 DEF ClearResults, Reconstruct
  <2> QED
    BY <1>3, <2>1 DEF MapInv, ListInv, NewInv, CallInv
<1>9. ~GetResults
  BY <1>2 DEF GetResults
<1> QED
  BY <1>4, <1>5, <1>6, <1>7, <1>8, <1>9 DEF Call

(* The end of a first search, editAll, the end of a call, and the game.    *)
LEMMA FitOther ==
  ASSUME "unmap" \notin Faults, TypeOK, HoleInv, FitInv,
         \/ FirstDone /\ UNCHANGED target
         \/ EditNull \/ EditSlide \/ EditNext \/ EditDone
         \/ Return \/ Game \/ UNCHANGED vars
  PROVE  FitInv'
<1> USE DEF FitInv
<1>1. vmsize' = vmsize /\ regions' = regions /\ cache' = cache
  BY DEF FirstDone, EditNull, EditSlide, EditNext, EditDone, Crash, Return, Game, GameStep,
     GameWrites, GameUnmaps, vars, engineVars, results, settings, target
<1>2. ~EditNull
  BY DEF EditNull, Editing, HoleInv
<1>3. ListInv'
  BY <1>1 DEF ListInv
<1>4. CASE FirstDone
  <2>1. op = "first" /\ op' = "return" /\ q' = q
    BY <1>4 DEF FirstDone
  <2> QED
    BY <1>1, <1>3, <2>1 DEF MapInv, NewInv, CallInv
<1>5. CASE EditSlide \/ EditNext \/ EditDone
  <2>1. op = "edit" /\ op' \in {"edit", "return"} /\ q' = q
    BY <1>5 DEF EditSlide, EditNext, EditDone, Editing
  <2> QED
    BY <1>1, <1>3, <2>1 DEF MapInv, NewInv, CallInv
<1>6. CASE Return
  BY <1>1, <1>3, <1>6 DEF Return, MapInv, NewInv, CallInv
<1>7. CASE Game \/ UNCHANGED vars
  BY <1>1, <1>3, <1>7 DEF Game, GameStep, GameWrites, GameUnmaps, vars, engineVars, frame,
     MapInv, NewInv, CallInv, Current, Fits, HasSlide
<1> QED
  BY <1>2, <1>4, <1>5, <1>6, <1>7

LEMMA FitNext ==
  ASSUME {"unmap", "nomem"} \cap Faults = {}, OneLength, GroupQueries = {},
         TypeOK, ScanInv, HoleInv, FitInv, [Next]_vars
  PROVE  FitInv'
<1>1. CASE Call
  BY <1>1, FitCall
<1>2. CASE EngineStep
  <2>1. ~(\E anchor \in todo : GroupFound(anchor) \/ GroupMiss(anchor))
        /\ ~GroupDone /\ ~GroupNull
    BY DEF GroupFound, GroupMiss, GroupDone, GroupNull, FitInv, CallInv
  <2> QED
    BY <1>2, <2>1, FitFirst, FitRefine, FitOther DEF EngineStep, ScanStep
<1>3. CASE Return \/ Game \/ UNCHANGED vars
  BY <1>3, FitOther
<1>4. ~Throw
  BY DEF Throw, OutOfMemory
<1> QED
  BY <1>1, <1>2, <1>3, <1>4 DEF Next, Work, Crashed

LEMMA InitFits == Init => FitInv
<1> SUFFICES ASSUME Init PROVE FitInv
  OBVIOUS
<1>1. regions = <<>> /\ op = "idle" /\ newRegion = NULL /\ vmsize = Size
      /\ cache = [b \in Bases |-> 0]
  BY DEF Init, Construct
<1> QED
  BY <1>1 DEF FitInv, MapInv, ListInv, NewInv, CallInv

(* As long as the game's memory stays mapped, no search of numbers and no  *)
(* nearby search reads beyond what it has mapped in, and no call reads     *)
(* through a null pointer, even when a region cannot be mapped and when    *)
(* the game writes its memory.  Values of one length: with two, the longer *)
(* one is read at a slide found for the shorter.                           *)
THEOREM NeverCrashes ==
  ASSUME {"unmap", "nomem"} \cap Faults = {}, OneLength, GroupQueries = {}
  PROVE  Spec => []NoCrash
<1>1. Init => SessionInv /\ ScanInv /\ HoleInv /\ FitInv
  BY InitFits DEF Init, Construct, SessionInv, SessionFresh, ScanInv, HoleInv
<1>2. TypeOK /\ SessionInv /\ ScanInv /\ HoleInv /\ FitInv /\ [Next]_vars
        => SessionInv' /\ ScanInv' /\ HoleInv' /\ FitInv'
  BY SessionNext, ScanNext, HoleNext, FitNext
<1>3. FitInv => NoCrash
  BY DEF FitInv, CallInv, NoCrash
<1> QED
  BY <1>1, <1>2, <1>3, TypeCorrect, PTL DEF Spec

-----------------------------------------------------------------------------
(* Positions a stride apart.                                               *)

LEMMA DivMod ==
  ASSUME NEW a \in Int, NEW l \in Nat \ {0}
  PROVE  a = l * (a \div l) + (a % l) /\ a \div l \in Int /\ a % l \in 0 .. (l - 1)
OBVIOUS

LEMMA Times ==
  ASSUME NEW l \in Int, NEW x \in Int, NEW y \in Int
  PROVE  l * x \in Int /\ l * (x - y) = l * x - l * y /\ l * (x + y) = l * x + l * y
OBVIOUS

LEMMA Between ==
  ASSUME NEW x \in Int, NEW l \in Nat \ {0}, l * x < l, l * x > 0 - l
  PROVE  x = 0
OBVIOUS

LEMMA Multiple ==
  ASSUME NEW x \in Int, NEW l \in Nat \ {0}, NEW y, y = l * x
  PROVE  y % l = 0
<1> DEFINE d == y \div l
           r == y % l
<1>1. y \in Int
  BY Times
<1>2. y = l * d + r /\ d \in Int /\ r \in 0 .. (l - 1)
  BY <1>1, DivMod
<1> HIDE DEF d, r
<1>3. l * (x - d) = r /\ x - d \in Int
  BY <1>1, <1>2, Times
<1>4. x - d = 0
  BY <1>2, <1>3, Between
<1>5. r = 0
  BY <1>2, <1>3, <1>4
<1> QED
  BY <1>5 DEF r

(* Two multiples are a multiple apart.                                     *)
LEMMA StrideOf ==
  ASSUME NEW l \in Nat \ {0}, NEW p \in Int, NEW k \in Int, p % l = 0, k % l = 0
  PROVE  (p - k) % l = 0
<1> DEFINE a == p \div l
           b == k \div l
<1>1. p = l * a /\ k = l * b /\ a \in Int /\ b \in Int
  <2>1. p = l * a + (p % l) /\ a \in Int /\ k = l * b + (k % l) /\ b \in Int
    BY DivMod
  <2>2. l * a \in Int /\ l * b \in Int
    BY <2>1, Times
  <2> QED
    BY <2>1, <2>2
<1> HIDE DEF a, b
<1>2. p - k = l * (a - b) /\ a - b \in Int
  BY <1>1, Times
<1> QED
  BY <1>2, Multiple

(* A stride on from a multiple is a multiple.                              *)
LEMMA StrideOn ==
  ASSUME NEW l \in Nat \ {0}, NEW p \in Int, NEW k \in Int, (p - k) % l = 0, k % l = 0
  PROVE  p % l = 0 /\ (p + l) % l = 0
<1> DEFINE a == (p - k) \div l
           b == k \div l
<1>1. p - k = l * a /\ k = l * b /\ a \in Int /\ b \in Int
  <2>1. /\ p - k = l * a + ((p - k) % l) /\ a \in Int
        /\ k = l * b + (k % l) /\ b \in Int
    BY DivMod
  <2>2. l * a \in Int /\ l * b \in Int
    BY <2>1, Times
  <2> QED
    BY <2>1, <2>2
<1> HIDE DEF a, b
<1>2. p = l * (a + b) /\ a + b \in Int
  BY <1>1, Times
<1>3. p + l = l * ((a + b) + 1) /\ (a + b) + 1 \in Int
  BY <1>2, Times
<1> QED
  BY <1>2, <1>3, Multiple

(* There is no multiple between two that are a stride apart.               *)
LEMMA StrideGap ==
  ASSUME NEW l \in Nat \ {0}, NEW p \in Int, NEW s \in Int, p % l = 0, s % l = 0,
         p <= s, s < p + l
  PROVE  s = p
<1> DEFINE d == (s - p) \div l
<1>1. (s - p) % l = 0
  BY StrideOf
<1>2. s - p = l * d /\ d \in Int
  <2>1. s - p = l * d + ((s - p) % l) /\ d \in Int
    BY DivMod
  <2>2. l * d \in Int
    BY <2>1, Times
  <2> QED
    BY <1>1, <2>1, <2>2
<1> HIDE DEF d
<1>3. d = 0
  BY <1>2, Between
<1> QED
  BY <1>2, <1>3

(* Some number of a set is the least.                                      *)
LEMMA Least ==
  ASSUME NEW S \in SUBSET Nat, S # {}
  PROVE  \E n \in S : \A m \in S : n <= m
<1> DEFINE T == {0 .. n : n \in S}
<1>1. T \subseteq FiniteSubsetsOf(Nat)
  <2> SUFFICES ASSUME NEW n \in S PROVE 0 .. n \in FiniteSubsetsOf(Nat)
    OBVIOUS
  <2>1. n \in Nat /\ IsFiniteSet(0 .. n)
    BY FS_Interval
  <2> QED
    BY <2>1 DEF FiniteSubsetsOf
<1>2. T # {}
  OBVIOUS
<1>3. \E X \in T : \A Y \in T : <<Y, X>> \notin StrictSubsetOrdering(Nat)
  <2> HIDE DEF T
  <2> QED
    BY <1>1, <1>2, FS_StrictSubsetOrderingWellFounded, WFMin
<1>4. PICK n \in S : \A m \in S : <<0 .. m, 0 .. n>> \notin StrictSubsetOrdering(Nat)
  BY <1>3
<1>5. ASSUME NEW m \in S, m < n PROVE FALSE
  <2>1. 0 .. m \subseteq 0 .. n /\ n \notin 0 .. m /\ n \in 0 .. n
    BY <1>5
  <2>2. 0 .. m \in SUBSET Nat /\ 0 .. n \in SUBSET Nat /\ 0 .. m # 0 .. n
    BY <2>1
  <2>3. <<0 .. m, 0 .. n>> \in StrictSubsetOrdering(Nat)
    BY <2>1, <2>2 DEF StrictSubsetOrdering
  <2> QED
    BY <1>4, <2>3
<1> QED
  BY <1>4, <1>5

-----------------------------------------------------------------------------
(* Memory that holds still.                                                *)

(* What a search reads of the game, and what it looks for, do not change   *)
(* while it runs: nor does the answer of a comparison.                     *)
LEMMA Steady ==
  ASSUME op \in {"first", "again"}, EngineStep
  PROVE  UNCHANGED <<mem, vmsize, float_tolerance, q>>
<1> USE DEF settings
<1>1. UNCHANGED target
  BY DEF EngineStep, ScanStep, EditNull, EditSlide, EditNext, EditDone, Editing
<1>2. ASSUME NEW b \in Bases,
             FirstLoad(b) \/ FirstLimit(b) \/ FirstFound(b) \/ FirstExhausted(b)
      PROVE  UNCHANGED float_tolerance
  BY <1>2 DEF FirstLoad, FirstLimit, FirstFound, FirstExhausted
<1>3. ASSUME RefineNull \/ AgainSkip \/ RefineLoad \/ RefineNext \/ RefineDone \/ AgainKeep
             \/ AgainDrop \/ AgainFault \/ FirstDone
      PROVE  UNCHANGED float_tolerance
  BY <1>3 DEF RefineNull, AgainSkip, RefineLoad, RefineNext, RefineDone, AgainKeep,
     AgainDrop, AgainFault, FirstDone, Crash
<1>4. UNCHANGED float_tolerance
  BY <1>2, <1>3 DEF EngineStep, ScanStep, NearMiss, NearFound, NearFault, GroupFound,
     GroupMiss, GroupDone, GroupNull, EditNull, EditSlide, EditNext, EditDone, Editing
<1> QED
  BY <1>1, <1>4, StepShape DEF target

LEMMA SameValue ==
  ASSUME UNCHANGED mem, NEW a, NEW t
  PROVE  Value(a, t)' = Value(a, t)
BY DEF Value

LEMMA SameGood ==
  ASSUME UNCHANGED <<mem, float_tolerance, q>>
  PROVE  /\ \A a : Good(a)' <=> Good(a)
         /\ \A b, p : Wanted(b, p)' <=> Wanted(b, p)
<1>1. \A a : Good(a)' <=> Good(a)
  <2> SUFFICES ASSUME NEW a PROVE Good(a)' <=> Good(a)
    OBVIOUS
  <2>1. Value(a, q.type)' = Value(a, q.type)
    BY SameValue
  <2> QED
    BY <2>1 DEF Good, Hit, InRange, Tolerance
<1> QED
  BY <1>1 DEF Wanted, At

-----------------------------------------------------------------------------
(* The first search.                                                       *)

(* Every region that has a place in the range is one that FirstScan visits. *)
LEMMA VisitsAll ==
  ASSUME vmsize = Size, NEW query \in NumberQueries, NEW b \in Writable \ Stack,
         NEW p \in Nat, p < Size[b], InRange(b + p, query.range)
  PROVE  b \in Visited(query.range) /\ Size[b] > 0
<1> USE MemoryAssumption
<1>1. /\ b \in Bases /\ b \in Nat /\ Size[b] \in Nat
      /\ query.range.start \in Nat /\ query.range.end \in Nat
  BY QueriesAssumption DEF NumberCall, AddrRange
<1>2. /\ query.range.start < query.range.end /\ b < query.range.end
      /\ Size[b] > 0 /\ b + Size[b] > query.range.start
  BY <1>1 DEF InRange
<1>3. ASSUME NEW c \in Bases, c < b PROVE c < query.range.end
  <2>1. c \in Nat
    OBVIOUS
  <2> QED
    BY <1>1, <1>2, <1>3, <2>1
<1> QED
  BY <1>1, <1>2, <1>3 DEF Visited

(* What the first loop stands on.                                          *)
LEMMA FirstGround ==
  ASSUME OneLength, TypeOK, FitInv, FoundInv, NEW b, Current(b), op = "first"
  PROVE  /\ b \in todo /\ b \in Writable \ Stack /\ b \in Nat /\ Size[b] \in Nat
         /\ cache[b] = Size[b] /\ Size[b] > 0
         /\ j \in Nat /\ mapsize \in Nat /\ j % TypeLen[q.type] = 0
         /\ TypeLen[q.type] \in Nat \ {0} /\ q \in NumberQueries
         /\ mapsize > 0 => mapsize = Size[b]
         /\ newRegion # NULL => newRegion.base = b
         /\ regions \in Seq(Region \cup {NULL}) /\ newRegion \in Region \cup {NULL}
<1>1. b \in todo /\ b \in Bases /\ cache[b] > 0
  BY DEF Current, FitInv, MapInv
<1>2. b \in Writable \ Stack /\ cache[b] = Size[b]
  BY <1>1 DEF FitInv, MapInv
<1>3. b \in Nat /\ Size[b] \in Nat
  BY <1>1, MemoryAssumption
<1>4. newRegion # NULL => newRegion.base = b
  BY <1>1 DEF FitInv, NewInv
<1> QED
  BY <1>1, <1>2, <1>3, <1>4, Length DEF FitInv, MapInv, CallInv, FoundInv, TypeOK,
     ResultsTypeOK, LoopTypeOK

(* Leaving a region lists what was found in it, and loses nothing.         *)
LEMMA LeaveShows ==
  ASSUME OneLength, TypeOK, FitInv, FoundInv, NEW b, Current(b), op = "first", op' = op,
         LeaveRegion(b), UNCHANGED <<mem, float_tolerance, q>>
  PROVE  /\ \A a : Shows(a) => Shows(a)'
         /\ \A s : HasSlide(newRegion, s) => Shows(b + s)'
         /\ FoundInv'
<1>1. /\ regions \in Seq(Region \cup {NULL}) /\ newRegion \in Region \cup {NULL}
      /\ newRegion # NULL => newRegion.base = b
      /\ TypeLen[q.type] \in Nat \ {0}
  BY FirstGround
<1>2. regions' = IF newRegion = NULL THEN regions ELSE Append(regions, newRegion)
  BY DEF LeaveRegion
<1>3. \A n \in DOMAIN regions : n \in DOMAIN regions' /\ regions'[n] = regions[n]
  BY <1>1, <1>2, AppendProperties
<1>4. newRegion # NULL => \E n \in DOMAIN regions' : regions'[n] = newRegion
  BY <1>1, <1>2, AppendProperties
<1>5. \A n \in DOMAIN regions' : \/ n \in DOMAIN regions /\ regions'[n] = regions[n]
                                 \/ regions'[n] = newRegion /\ newRegion # NULL
  BY <1>1, <1>2, AppendProperties
<1>6. ASSUME NEW a, Shows(a) PROVE Shows(a)'
  <2>1. PICK n \in DOMAIN regions : /\ regions[n] # NULL
                                    /\ \E k \in DOMAIN regions[n].slides :
                                         a = Address(regions[n], k)
    BY <1>6 DEF Shows
  <2> QED
    BY <1>3, <2>1 DEF Shows, Address
<1>7. ASSUME NEW s, HasSlide(newRegion, s) PROVE Shows(b + s)'
  <2>1. newRegion # NULL
    BY <1>7 DEF HasSlide
  <2>2. PICK n \in DOMAIN regions' : regions'[n] = newRegion
    BY <1>4, <2>1
  <2> QED
    BY <1>1, <1>7, <2>1, <2>2 DEF Shows, HasSlide, Address
<1>8. FoundInv'
  <2>1. \A n \in DOMAIN regions' : \A s : HasSlide(regions'[n], s) =>
          Good(regions'[n].base + s)
    BY <1>5 DEF FoundInv, AllGood, Wanted
  <2>2. j' = 0 /\ mapsize' = 0 /\ newRegion' = NULL
    BY DEF LeaveRegion, Unloaded
  <2>3. j' % TypeLen[q.type] = 0
    BY <1>1, <2>2
  <2>4. \A s : ~HasSlide(newRegion', s)
    BY <2>2 DEF HasSlide
  <2> QED
    BY <2>1, <2>2, <2>3, <2>4, SameGood DEF FoundInv, AllGood
<1> QED
  BY <1>6, <1>7, <1>8

LEMMA SearchFirstLoad ==
  ASSUME "remap" \notin Faults, OneLength, TypeOK, FitInv, SearchInv, NEW b \in Bases,
         FirstLoad(b), UNCHANGED mem
  PROVE  FoundInv' /\ PassedInv'
<1>1. /\ op = "first" /\ op' = op /\ q' = q /\ Current(b) /\ mapsize = 0
      /\ UNCHANGED <<regions, newRegion, j, memoryLimitReached, float_tolerance>>
  BY DEF FirstLoad, results, settings
<1>2. FoundInv
  BY DEF SearchInv
<1>3. j = 0 /\ (mapsize' > 0 => ~memoryLimitReached)
  BY <1>1, <1>2 DEF FoundInv, FirstLoad
<1>4. FoundInv'
  BY <1>1, <1>2, <1>3, SameGood DEF FoundInv, AllGood
<1>5. ~memoryLimitReached => todo' = todo
  <2> SUFFICES ASSUME ~memoryLimitReached PROVE mapsize' # 0
    BY DEF FirstLoad
  <2>1. cache[b] = Size[b] /\ Size[b] > 0
    BY <1>1, <1>2, FirstGround
  <2>2. mapsize' \in LoadRegion(b, Size[b])
    BY <2>1 DEF FirstLoad
  <2>3. mapsize' = Size[b]
    BY <2>2, Loaded DEF FitInv, MapInv
  <2> QED
    BY <2>1, <2>3, MemoryAssumption
<1>6. ASSUME ~memoryLimitReached, NEW c, NEW p, Wanted(c, p)
      PROVE  Shows(c + p)' \/ (c \in todo' /\ ~(p < j'))
  <2>1. p \in Nat
    BY <1>6 DEF Wanted, At
  <2>2. Shows(c + p) \/ c \in todo
    BY <1>1, <1>6 DEF SearchInv, PassedInv
  <2>3. Shows(c + p) => Shows(c + p)'
    BY <1>1 DEF Shows, Address
  <2> QED
    BY <1>1, <1>3, <1>5, <1>6, <2>1, <2>2, <2>3
<1>7. PassedInv'
  BY <1>1, <1>6, SameGood DEF PassedInv
<1> QED
  BY <1>4, <1>7

(* The least hit from j on is found; between them there is no other.       *)
LEMMA SearchFirstFound ==
  ASSUME OneLength, TypeOK, FitInv, SearchInv, NEW b \in Bases, FirstFound(b), UNCHANGED mem
  PROVE  FoundInv' /\ PassedInv'
<1> DEFINE len == TypeLen[q.type]
<1>1. /\ op = "first" /\ op' = op /\ q' = q /\ Current(b) /\ mapsize > 0
      /\ UNCHANGED <<regions, todo, mapsize, memoryLimitReached, float_tolerance>>
  BY DEF FirstFound, settings
<1>2. FoundInv /\ PassedInv
  BY DEF SearchInv
<1>3. PICK p \in FirstHits(b) :
        /\ \A h \in FirstHits(b) : p <= h
        /\ InRange(b + p, q.range)
        /\ PushSlide(b, mapsize, p)
        /\ j' = p + len
  BY DEF FirstFound
<1>4. /\ b \in todo /\ b \in Writable \ Stack /\ b \in Nat /\ Size[b] \in Nat
      /\ j \in Nat /\ mapsize \in Nat /\ j % len = 0 /\ len \in Nat \ {0}
      /\ mapsize = Size[b] /\ (newRegion # NULL => newRegion.base = b)
  BY <1>1, <1>2, FirstGround
<1> HIDE DEF len
<1>5. /\ p \in j .. (mapsize - len) /\ (p - j) % len = 0 /\ Hit(b + p, q.type, q.want)
  BY DEF FirstHits, Strides, len
<1>6. p \in Nat /\ j <= p /\ p + len <= Size[b]
  BY <1>4, <1>5
<1>7. p % len = 0 /\ (p + len) % len = 0
  <2>1. /\ p \in Int /\ j \in Int /\ len \in Nat \ {0}
        /\ (p - j) % len = 0 /\ j % len = 0
    BY <1>4, <1>5, <1>6
  <2> QED
    BY <2>1, StrideOn
<1>8. /\ newRegion' # NULL /\ newRegion'.base = b
      /\ \A s : HasSlide(newRegion', s) <=> s = p \/ HasSlide(newRegion, s)
  BY <1>3, <1>4, <1>6, PushShape
<1>9. Wanted(b, p)
  BY <1>3, <1>4, <1>5, <1>6, <1>7 DEF Wanted, At, Good, len
<1>10. FoundInv'
  <2>1. \A s : HasSlide(newRegion', s) => Wanted(newRegion'.base, s)
    <3> SUFFICES ASSUME NEW s, HasSlide(newRegion, s) PROVE Wanted(b, s)
      BY <1>8, <1>9
    <3>1. newRegion # NULL /\ Wanted(newRegion.base, s)
      BY <1>1, <1>2 DEF FoundInv, HasSlide
    <3> QED
      BY <1>4, <3>1
  <2>2. j' % TypeLen[q'.type] = 0
    BY <1>1, <1>3, <1>7 DEF len
  <2> QED
    BY <1>1, <1>2, <2>1, <2>2, SameGood DEF FoundInv, AllGood
<1>11. ASSUME NEW s, Wanted(b, s), s < p + len, ~(s < j) PROVE s = p
  <2>1. s \in Nat /\ s % len = 0 /\ s + len <= Size[b] /\ Hit(b + s, q.type, q.want)
    BY <1>11 DEF Wanted, At, Good, len
  <2>2. s \in j .. (mapsize - len)
    BY <1>4, <1>11, <2>1
  <2>3. (s - j) % len = 0
    <3>1. s \in Int /\ j \in Int /\ len \in Nat \ {0} /\ s % len = 0 /\ j % len = 0
      BY <1>4, <2>1
    <3> QED
      BY <3>1, StrideOf
  <2>4. s \in FirstHits(b)
    BY <2>1, <2>2, <2>3 DEF FirstHits, Strides, len
  <2>5. p <= s
    BY <1>3, <2>4
  <2>6. /\ s \in Int /\ p \in Int /\ len \in Nat \ {0} /\ s % len = 0 /\ p % len = 0
        /\ p <= s /\ s < p + len
    BY <1>4, <1>6, <1>7, <1>11, <2>1, <2>5
  <2> QED
    BY <2>6, StrideGap
<1>12. PassedInv'
  <2> SUFFICES ASSUME ~memoryLimitReached, NEW c, NEW s, Wanted(c, s),
                      ~Shows(c + s)
               PROVE  c \in todo /\ (Current(c) /\ mapsize > 0 /\ s < p + len
                                       => HasSlide(newRegion', s))
    <3>1. \A a : Shows(a)' <=> Shows(a)
      BY <1>1 DEF Shows, Address
    <3>2. \A c : Current(c)' <=> Current(c)
      BY <1>1 DEF Current
    <3> QED
      BY <1>1, <1>3, <3>1, <3>2, SameGood DEF PassedInv
  <2>1. c \in todo /\ (Current(c) /\ mapsize > 0 /\ s < j => HasSlide(newRegion, s))
    BY <1>1, <1>2 DEF PassedInv
  <2>2. ASSUME Current(c), s < p + len PROVE HasSlide(newRegion', s)
    <3>1. c = b
      BY <1>1, <2>2, OneCurrent
    <3> QED
      BY <1>1, <1>8, <1>11, <2>1, <2>2, <3>1
  <2> QED
    BY <2>1, <2>2
<1> QED
  BY <1>10, <1>12

(* A region is left when no hit in the range remains in it.                *)
LEMMA SearchFirstLeave ==
  ASSUME OneLength, SameRegions, TypeOK, FitInv, SearchInv, NEW b \in Bases,
         FirstLimit(b) \/ FirstExhausted(b), UNCHANGED mem
  PROVE  FoundInv' /\ PassedInv'
<1> DEFINE len == TypeLen[q.type]
<1>1. /\ op = "first" /\ op' = op /\ q' = q /\ Current(b) /\ mapsize > 0
      /\ LeaveRegion(b) /\ UNCHANGED float_tolerance
  BY DEF FirstLimit, FirstExhausted, settings
<1>2. FoundInv /\ PassedInv
  BY DEF SearchInv
<1>3. /\ \A a : Shows(a) => Shows(a)'
      /\ \A s : HasSlide(newRegion, s) => Shows(b + s)'
      /\ FoundInv'
  BY <1>1, <1>2, LeaveShows
<1>4. CASE FirstLimit(b)
  BY <1>3, <1>4 DEF FirstLimit, PassedInv
<1>5. CASE FirstExhausted(b)
  <2>1. /\ b \in todo /\ b \in Writable \ Stack /\ b \in Nat /\ Size[b] \in Nat
        /\ j \in Nat /\ mapsize \in Nat /\ j % len = 0 /\ len \in Nat \ {0}
        /\ mapsize = Size[b] /\ q \in NumberQueries
    BY <1>1, <1>2, FirstGround
  <2>2. memoryLimitReached' = memoryLimitReached /\ mapsize' = 0 /\ todo' = todo \ {b}
    BY <1>1, <1>5 DEF FirstExhausted, LeaveRegion, Unloaded
  <2>3. q.range.start \in Nat /\ q.range.end \in Nat
    BY <2>1, QueriesAssumption DEF NumberCall, AddrRange
  <2>4. ASSUME NEW s, Wanted(b, s) PROVE s < j
    <3> SUFFICES ASSUME ~(s < j) PROVE FALSE
      OBVIOUS
    <3>1. /\ s \in Nat /\ s % len = 0 /\ s + len <= Size[b]
          /\ Hit(b + s, q.type, q.want) /\ InRange(b + s, q.range)
      BY <2>4 DEF Wanted, At, Good
    <3> HIDE DEF len
    <3>2. s \in j .. (mapsize - len)
      BY <2>1, <3>1
    <3>3. (s - j) % len = 0
      <4>1. s \in Int /\ j \in Int /\ len \in Nat \ {0} /\ s % len = 0 /\ j % len = 0
        BY <2>1, <3>1
      <4> QED
        BY <4>1, StrideOf
    <3>4. s \in FirstHits(b)
      BY <3>1, <3>2, <3>3 DEF FirstHits, Strides, len
    <3>5. FirstHits(b) \in SUBSET Nat
      BY <2>1 DEF FirstHits, Strides
    <3>6. PICK p \in FirstHits(b) : \A h \in FirstHits(b) : p <= h
      BY <3>4, <3>5, Least
    <3>7. ~InRange(b + p, q.range) /\ p \in Nat /\ p <= s
      BY <1>5, <3>4, <3>5, <3>6 DEF FirstExhausted
    <3>8. q.range.start <= b
      BY <2>1, <2>3, <3>1 DEF SameRegions, InRange
    <3> QED
      BY <2>1, <2>3, <3>1, <3>7, <3>8 DEF InRange
  <2>5. ASSUME ~memoryLimitReached, NEW c, NEW s, Wanted(c, s), ~Shows(c + s)'
        PROVE  c \in todo'
    <3>1. /\ c \in todo
          /\ Current(c) /\ mapsize > 0 /\ s < j => HasSlide(newRegion, s)
      BY <1>1, <1>2, <1>3, <2>5 DEF PassedInv
    <3>2. c # b
      BY <1>1, <1>3, <2>4, <2>5, <3>1
    <3> QED
      BY <2>2, <3>1, <3>2
  <2>6. PassedInv'
    BY <1>1, <2>2, <2>5, SameGood DEF PassedInv
  <2> QED
    BY <1>3, <2>6
<1> QED
  BY <1>4, <1>5

-----------------------------------------------------------------------------
(* The repeated search.                                                    *)

(* What the second loop stands on.                                         *)
LEMMA AgainGround ==
  ASSUME OneLength, TypeOK, FitInv, SearchInv, op = "again", AtSlide
  PROVE  /\ i \in DOMAIN regions /\ j \in DOMAIN regions[i].slides /\ mapsize > 0
         /\ Slide = regions[i].slides[j] /\ SlideAddress = regions[i].base + Slide
         /\ regions[i].slides \in Seq(Nat) /\ ~Overread(Slide)
         /\ \A k \in DOMAIN regions[i].slides : k < j /\ Good(Address(regions[i], k)) =>
              HasSlide(newRegion, regions[i].slides[k])
<1>1. regions[i] \in Region /\ ~Overread(Slide)
  BY SlideType, SlideFits
<1> QED
  BY <1>1 DEF AtSlide, Refining, Slide, SlideAddress, Address, Region, SearchInv, ImprovedInv

LEMMA SearchKeep ==
  ASSUME OneLength, TypeOK, FitInv, SearchInv, AgainKeep, UNCHANGED mem
  PROVE  ImprovedInv'
<1>1. /\ op = "again" /\ op' = op /\ q' = q /\ AtSlide /\ j' = j + 1
      /\ UNCHANGED <<regions, i, mapsize, float_tolerance>>
      /\ PushSlide(regions[i].base, regions[i].size, Slide)
  BY DEF AgainKeep, results, settings
<1>2. /\ i \in DOMAIN regions /\ j \in DOMAIN regions[i].slides /\ mapsize > 0
      /\ Slide = regions[i].slides[j] /\ SlideAddress = regions[i].base + Slide
      /\ regions[i].slides \in Seq(Nat) /\ ~Overread(Slide)
      /\ \A k \in DOMAIN regions[i].slides : k < j /\ Good(Address(regions[i], k)) =>
           HasSlide(newRegion, regions[i].slides[k])
  BY <1>1, AgainGround
<1>3. Good(SlideAddress)
  <2>1. TRUE \in {Hit(SlideAddress, q.type, q.want)}
    BY <1>2 DEF AgainKeep, Verdicts
  <2>2. InRange(SlideAddress, q.range)
    BY DEF AgainKeep
  <2> QED
    BY <2>1, <2>2 DEF Good
<1>4. newRegion # NULL => newRegion.base = regions[i].base
  BY <1>1 DEF FitInv, NewInv
<1>5. /\ newRegion' # NULL /\ newRegion'.base = regions[i].base
      /\ \A s : HasSlide(newRegion', s) <=> s = Slide \/ HasSlide(newRegion, s)
  BY <1>1, <1>4, SlideType, PushShape
<1>6. \A s : HasSlide(newRegion', s) => Good(newRegion'.base + s)
  <2> SUFFICES ASSUME NEW s, HasSlide(newRegion, s) PROVE Good(regions[i].base + s)
    BY <1>2, <1>3, <1>5
  <2>1. newRegion # NULL
    BY DEF HasSlide
  <2> QED
    BY <1>1, <1>4, <2>1 DEF SearchInv, ImprovedInv, AllGood
<1>7. \A k \in DOMAIN regions[i].slides : k < j + 1 => k < j \/ k = j
  BY <1>2, LenProperties DEF TypeOK, LoopTypeOK
<1>8. \A k \in DOMAIN regions[i].slides : k < j + 1 /\ Good(Address(regions[i], k)) =>
        HasSlide(newRegion', regions[i].slides[k])
  BY <1>2, <1>5, <1>7
<1> QED
  BY <1>1, <1>6, <1>8, SameGood DEF SearchInv, ImprovedInv, AllGood, Address

LEMMA SearchDrop ==
  ASSUME OneLength, TypeOK, FitInv, SearchInv, AgainDrop, UNCHANGED mem
  PROVE  ImprovedInv'
<1>1. /\ op = "again" /\ op' = op /\ q' = q /\ AtSlide /\ j' = j + 1
      /\ UNCHANGED <<regions, i, mapsize, newRegion, float_tolerance>>
  BY DEF AgainDrop, results, settings
<1>2. /\ i \in DOMAIN regions /\ j \in DOMAIN regions[i].slides /\ mapsize > 0
      /\ Slide = regions[i].slides[j] /\ SlideAddress = regions[i].base + Slide
      /\ regions[i].slides \in Seq(Nat) /\ ~Overread(Slide)
      /\ \A k \in DOMAIN regions[i].slides : k < j /\ Good(Address(regions[i], k)) =>
           HasSlide(newRegion, regions[i].slides[k])
  BY <1>1, AgainGround
<1>3. ~Good(SlideAddress)
  <2>1. InRange(SlideAddress, q.range) => FALSE \in {Hit(SlideAddress, q.type, q.want)}
    BY <1>2 DEF AgainDrop, Verdicts
  <2>2. FALSE \in {Hit(SlideAddress, q.type, q.want)} => ~Hit(SlideAddress, q.type, q.want)
    OBVIOUS
  <2> QED
    BY <2>1, <2>2 DEF Good
<1>4. \A k \in DOMAIN regions[i].slides : k < j + 1 => k < j \/ k = j
  BY <1>2, LenProperties DEF TypeOK, LoopTypeOK
<1>5. Address(regions[i], j) = SlideAddress
  BY DEF SlideAddress
<1>6. \A k \in DOMAIN regions[i].slides : k < j + 1 /\ Good(Address(regions[i], k)) =>
        HasSlide(newRegion, regions[i].slides[k])
  BY <1>2, <1>3, <1>4, <1>5
<1> QED
  BY <1>1, <1>6, SameGood DEF SearchInv, ImprovedInv, AllGood, Address

(* A region of the list can always be loaded.                              *)
LEMMA LoadKeeps ==
  ASSUME "remap" \notin Faults, TypeOK, FitInv, RefineLoad
  PROVE  j' = 1 /\ UNCHANGED <<regions, i>>
<1>1. i \in DOMAIN regions /\ regions[i] # NULL
  BY DEF RefineLoad, Refining
<1>2. Fits(regions[i]) /\ regions[i].base \in Bases
  BY <1>1, MemoryAssumption DEF FitInv, ListInv, Fits
<1>3. PICK m \in LoadRegion(regions[i].base, regions[i].size) :
        \/ m = 0 /\ ReplaceRegion(NULL)
        \/ m > 0 /\ j' = 1 /\ UNCHANGED <<regions, i>>
  BY DEF RefineLoad
<1>4. m = Size[regions[i].base]
  BY <1>2, <1>3, Loaded DEF FitInv, MapInv, Fits
<1> QED
  BY <1>2, <1>3, <1>4 DEF Fits

LEMMA SearchReplace ==
  ASSUME "remap" \notin Faults, TypeOK, FitInv, SearchInv, op = "again",
         RefineLoad \/ RefineNext, UNCHANGED mem
  PROVE  ImprovedInv'
<1>1. /\ op' = op /\ q' = q /\ float_tolerance' = float_tolerance
      /\ i \in DOMAIN regions /\ i \in Nat /\ regions \in Seq(Region \cup {NULL})
  BY DEF RefineLoad, RefineNext, Refining, settings, TypeOK, ResultsTypeOK, LoopTypeOK
<1>2. CASE RefineLoad
  <2>1. regions[i] # NULL /\ mapsize = 0 /\ newRegion = NULL /\ newRegion' = NULL
    BY <1>1, <1>2 DEF RefineLoad, FitInv, NewInv
  <2>5. j' = 1 /\ UNCHANGED <<regions, i>>
    BY <1>2, LoadKeeps
  <2>6. regions[i].slides \in Seq(Nat)
    BY <1>1, <2>1, ElementOfSeq DEF Region
  <2>7. \A k \in DOMAIN regions[i].slides : ~(k < 1)
    BY <2>6, LenProperties
  <2>8. \A s : ~HasSlide(newRegion', s)
    BY <2>1 DEF HasSlide
  <2> QED
    BY <1>1, <2>5, <2>7, <2>8, SameGood DEF SearchInv, ImprovedInv, AllGood
<1>3. CASE RefineNext
  <2>1. /\ regions' = [regions EXCEPT ![i] = newRegion] /\ i' = i + 1
        /\ mapsize' = 0 /\ newRegion' = NULL
    BY <1>3 DEF RefineNext, ReplaceRegion, Unloaded
  <2>2. \A n \in DOMAIN regions' : n < i + 1 =>
          \/ n \in DOMAIN regions /\ n < i /\ regions'[n] = regions[n]
          \/ regions'[n] = newRegion
    <3>1. DOMAIN regions = 1 .. Len(regions) /\ DOMAIN regions' = DOMAIN regions
      BY <1>1, <2>1, LenProperties
    <3> QED
      BY <1>1, <2>1, <3>1
  <2>3. \A s : ~HasSlide(newRegion', s)
    BY <2>1 DEF HasSlide
  <2>4. \A n \in DOMAIN regions' : n < i + 1 =>
          \A s : HasSlide(regions'[n], s) => Good(regions'[n].base + s)
    BY <2>2 DEF SearchInv, ImprovedInv, AllGood
  <2> QED
    BY <1>1, <2>1, <2>3, <2>4, SameGood DEF ImprovedInv, AllGood
<1> QED
  BY <1>2, <1>3

LEMMA SearchDone ==
  ASSUME TypeOK, ScanInv, SearchInv, op = "again", RefineDone, UNCHANGED <<mem, session>>
  PROVE  EndInv'
<1>1. q' = q /\ float_tolerance' = float_tolerance /\ i > Len(regions) /\ op' = "return"
  BY DEF RefineDone, Compact, settings
<1>2. PICK g \in Sorted({n \in DOMAIN regions : regions[n] # NULL}) :
        regions' = [n \in DOMAIN g |-> regions[g[n]]]
  BY DEF RefineDone, Compact
<1>3. \A n \in DOMAIN g : g[n] \in DOMAIN regions
  BY <1>2 DEF Sorted
<1>4. \A n \in DOMAIN regions : n < i
  BY <1>1, LenProperties DEF TypeOK, ResultsTypeOK, LoopTypeOK
<1>5. \A n \in DOMAIN regions' : \A s : HasSlide(regions'[n], s) => Good(regions'[n].base + s)
  BY <1>2, <1>3, <1>4 DEF SearchInv, ImprovedInv, AllGood
<1>6. firstSearchDone'
  BY DEF ScanInv, session
<1> QED
  BY <1>1, <1>5, <1>6, SameGood DEF EndInv, AllGood

-----------------------------------------------------------------------------
(* Every step of a session.                                                *)

LEMMA SearchCall ==
  ASSUME TypeOK, SessionInv, ScanInv, FitInv, FitInv', SearchInv,
         NearQueries = {}, GroupQueries = {}, Call
  PROVE  SearchInv'
<1>1. op = "idle"
  BY DEF Call, SearchNumber, SearchNearby, SearchGroup, EditAll, SetFloatTolerance,
     ClearResults, GetResults
<1>2. ASSUME NEW query \in NumberQueries, SearchNumber(query) PROVE SearchInv'
  <2>1. /\ q' = query /\ op' \in {"first", "again"}
        /\ UNCHANGED <<regions, memoryLimitReached, vmsize>>
        /\ i' = 1 /\ j' = 0 /\ mapsize' = 0 /\ newRegion' = NULL
    BY <1>2, StartType DEF SearchNumber, JJScanMemory, results, target
  <2>2. TypeLen[query.type] \in Nat \ {0}
    BY QueriesAssumption, TypesAssumption DEF NumberCall
  <2>3. \A s : ~HasSlide(newRegion', s)
    BY <2>1 DEF HasSlide
  <2>4. CASE op' = "first"
    <3>1. ~firstScanDone
      BY <1>2, <2>4 DEF SearchNumber, JJScanMemory
    <3>2. regions = <<>>
      BY <1>1, <3>1 DEF ScanInv, SessionInv, SessionFresh
    <3>3. FoundInv'
      BY <2>1, <2>2, <2>3, <3>2 DEF FoundInv
    <3>4. PassedInv'
      <4> SUFFICES ASSUME NEW b, NEW p, Wanted(b, p)' PROVE b \in todo'
        BY <2>1 DEF PassedInv
      <4>1. /\ b \in Writable \ Stack /\ p \in Nat /\ InRange(b + p, query.range)
            /\ p + TypeLen[query.type] <= Size[b] /\ Size[b] \in Nat
        BY <2>1, MemoryAssumption DEF Wanted, At, Good
      <4>2. p < Size[b]
        BY <2>2, <4>1
      <4>3. b \in Visited(query.range) /\ Size[b] > 0
        BY <4>1, <4>2, VisitsAll DEF FitInv, MapInv
      <4>4. /\ cache' = [c \in Bases |-> IF c \in Visited(query.range) \cap (Writable \ Stack)
                                         THEN vmsize[c] ELSE cache[c]]
            /\ todo' = {c \in Bases : cache'[c] > 0}
        BY <1>2, <2>4, <3>1 DEF SearchNumber, JJScanMemory
      <4> QED
        BY <4>1, <4>3, <4>4, MemoryAssumption DEF FitInv, MapInv
    <3> QED
      BY <2>4, <3>3, <3>4 DEF SearchInv, ImprovedInv, EndInv
  <2>5. CASE op' = "again"
    <3>1. \A n \in DOMAIN regions : ~(n < 1)
      BY LenProperties DEF TypeOK, ResultsTypeOK
    <3>2. ImprovedInv'
      BY <2>1, <2>3, <3>1 DEF ImprovedInv, AllGood
    <3> QED
      BY <2>5, <3>2 DEF SearchInv, FoundInv, PassedInv, EndInv
  <2> QED
    BY <2>1, <2>4, <2>5
<1>3. ASSUME op' \in {"idle", "edit", "crashed"} PROVE SearchInv'
  BY <1>3 DEF SearchInv, FoundInv, PassedInv, ImprovedInv, EndInv
<1>4. (\E query \in NumberQueries : SearchNumber(query)) \/ op' \in {"idle", "edit", "crashed"}
  BY <1>1 DEF Call, EditAll, JJWriteAll, SetFloatTolerance, ClearResults, GetResults, Crash
<1> QED
  BY <1>2, <1>3, <1>4

LEMMA SearchFirst ==
  ASSUME "remap" \notin Faults, OneLength, SameRegions, TypeOK, FitInv, SearchInv,
         op = "first", EngineStep, UNCHANGED session
  PROVE  SearchInv'
<1>1. UNCHANGED <<mem, float_tolerance, q>>
  BY Steady
<1>2. CASE \E b \in Bases : FirstLoad(b) \/ FirstLimit(b) \/ FirstFound(b) \/ FirstExhausted(b)
  <2>1. op' = "first"
    BY <1>2 DEF FirstLoad, FirstLimit, FirstFound, FirstExhausted
  <2>2. FoundInv' /\ PassedInv'
    BY <1>1, <1>2, SearchFirstLoad, SearchFirstFound, SearchFirstLeave
  <2> QED
    BY <2>1, <2>2 DEF SearchInv, ImprovedInv, EndInv
<1>3. CASE FirstDone
  <2>1. /\ op' = "return" /\ todo = {} /\ UNCHANGED <<regions, memoryLimitReached>>
    BY <1>3 DEF FirstDone, results
  <2>2. \A a : Shows(a)' <=> Shows(a)
    BY <2>1 DEF Shows, Address
  <2>3. EndInv'
    BY <1>1, <2>1, <2>2, SameGood DEF EndInv, SearchInv, FoundInv, PassedInv, AllGood, session
  <2> QED
    BY <2>1, <2>3 DEF SearchInv, FoundInv, PassedInv, ImprovedInv
<1> QED
  BY <1>2, <1>3 DEF EngineStep, ScanStep, RefineNull, AgainSkip, RefineLoad, RefineNext,
     RefineDone, Refining, AgainKeep, AgainDrop, AgainFault, NearMiss, NearFound, NearFault,
     GroupFound, GroupMiss, GroupDone, GroupNull, EditNull, EditSlide, EditNext, EditDone,
     Editing

LEMMA SearchAgain ==
  ASSUME "remap" \notin Faults, OneLength, SameRegions, TypeOK, ScanInv, FitInv, FitInv',
         MetInv, SearchInv, op = "again", EngineStep, UNCHANGED session
  PROVE  SearchInv'
<1>1. UNCHANGED <<mem, float_tolerance, q>>
  BY Steady
<1>2. ASSUME AgainKeep \/ AgainDrop \/ RefineLoad \/ RefineNext PROVE SearchInv'
  <2>1. op' = "again"
    BY <1>2 DEF AgainKeep, AgainDrop, RefineLoad, RefineNext
  <2>2. ImprovedInv'
    BY <1>1, <1>2, SearchKeep, SearchDrop, SearchReplace
  <2> QED
    BY <2>1, <2>2 DEF SearchInv, FoundInv, PassedInv, EndInv
<1>3. ASSUME RefineDone PROVE SearchInv'
  <2>1. op' = "return" /\ EndInv'
    BY <1>1, <1>3, SearchDone DEF RefineDone, Compact
  <2> QED
    BY <2>1 DEF SearchInv, FoundInv, PassedInv, ImprovedInv
<1>4. ~AgainSkip /\ op' # "crashed"
  BY NeverSkips DEF FitInv, CallInv
<1> QED
  BY <1>2, <1>3, <1>4 DEF EngineStep, ScanStep, FirstLoad, FirstLimit, FirstFound,
     FirstExhausted, FirstDone, RefineNull, AgainFault, Crash, NearMiss, NearFound, NearFault,
     GroupFound, GroupMiss, GroupDone, GroupNull, EditNull, EditSlide, EditNext, EditDone,
     Editing

LEMMA SearchNext ==
  ASSUME Still, OneLength, SameRegions, NearQueries = {}, GroupQueries = {},
         TypeOK, SessionInv, ScanInv, FitInv, FitInv', MetInv, SearchInv, [Next]_vars
  PROVE  SearchInv'
<1>1. CASE Call
  BY <1>1, SearchCall
<1>2. CASE EngineStep /\ UNCHANGED session
  <2>1. CASE op \in {"first", "again"}
    BY <1>2, <2>1, SearchFirst, SearchAgain DEF Still
  <2>2. CASE op \notin {"first", "again"}
    <3>1. op = "edit"
      BY <1>2, <2>2, StepShape DEF FitInv, CallInv
    <3>2. op' \in {"edit", "return"} /\ q' = q /\ q.api # "number"
      BY <1>2, <3>1, StepShape DEF FitInv, CallInv, TypeOK, CallTypeOK, EditCall
    <3> QED
      BY <3>2 DEF SearchInv, FoundInv, PassedInv, ImprovedInv, EndInv
  <2> QED
    BY <2>1, <2>2
<1>3. CASE Return
  BY <1>3 DEF Return, SearchInv, FoundInv, PassedInv, ImprovedInv, EndInv
<1>4. ~Throw
  BY DEF Throw, OutOfMemory, Still
<1>5. CASE Game
  <2>1. op = "idle" /\ op' = op
    BY <1>5 DEF Game, GameStep, GameWrites, GameUnmaps, engineVars, Still
  <2> QED
    BY <2>1 DEF SearchInv, FoundInv, PassedInv, ImprovedInv, EndInv
<1>6. CASE UNCHANGED vars
  <2>1. /\ UNCHANGED <<mem, float_tolerance, q, op, regions, todo, i, j, mapsize, newRegion>>
        /\ UNCHANGED <<memoryLimitReached, firstSearchDone>>
    BY <1>6 DEF vars, target, engineVars, results, settings, frame, session
  <2>2. /\ \A a : Shows(a)' <=> Shows(a)
        /\ \A c : Current(c)' <=> Current(c)
    BY <2>1 DEF Shows, Address, Current
  <2>3. FoundInv' /\ PassedInv'
    BY <2>1, <2>2, SameGood DEF SearchInv, FoundInv, PassedInv, AllGood
  <2>4. ImprovedInv' /\ EndInv'
    BY <2>1, <2>2, SameGood DEF SearchInv, ImprovedInv, EndInv, AllGood, Address
  <2> QED
    BY <2>3, <2>4 DEF SearchInv
<1> QED
  BY <1>1, <1>2, <1>3, <1>4, <1>5, <1>6 DEF Next, Work, Crashed

(* All of them together: on memory that holds still, every step of a       *)
(* session keeps them.                                                     *)
QuietInv == SessionInv /\ ScanInv /\ HoleInv /\ FitInv /\ MetInv /\ SearchInv

LEMMA InitQuiet == Init => QuietInv
<1> SUFFICES ASSUME Init PROVE QuietInv
  OBVIOUS
<1>1. /\ regions = <<>> /\ op = "idle" /\ newRegion = NULL /\ ~firstSearchDone
      /\ count = 0 /\ ~firstScanDone /\ ~memoryLimitReached
      /\ cache = [b \in Bases |-> 0] /\ lastNumberType = NoType
  BY DEF Init, Construct
<1>2. SessionInv /\ ScanInv /\ HoleInv
  BY <1>1 DEF SessionInv, SessionFresh, ScanInv, HoleInv
<1>3. SearchInv
  BY <1>1 DEF SearchInv, FoundInv, PassedInv, ImprovedInv, EndInv
<1> QED
  BY <1>2, <1>3, InitFits, InitMet DEF QuietInv

LEMMA QuietNext ==
  ASSUME Still, OneLength, SameRegions, NearQueries = {}, GroupQueries = {},
         TypeOK, QuietInv, [Next]_vars
  PROVE  QuietInv'
<1> USE DEF QuietInv
<1>1. {"unmap", "nomem"} \cap Faults = {} /\ "nomem" \notin Faults
  BY DEF Still
<1>2. SessionInv' /\ ScanInv' /\ HoleInv' /\ FitInv'
  BY <1>1, SessionNext, ScanNext, HoleNext, FitNext
<1>3. MetInv' /\ SearchInv'
  BY <1>1, <1>2, MetNext, SearchNext
<1> QED
  BY <1>2, <1>3

(* What lies in a region of the list can be read.                          *)
LEMMA ListedReadable ==
  ASSUME TypeOK, FitInv, NEW a \in Listed, NEW query \in NumberQueries
  PROVE  /\ Readable(a, TypeLen[query.type]) /\ a \in Addr
         /\ \E n \in DOMAIN regions : \E s : HasSlide(regions[n], s) /\ a = regions[n].base + s
<1>1. PICK n \in DOMAIN regions : /\ regions[n] # NULL
                                  /\ \E k \in DOMAIN regions[n].slides :
                                       a = Address(regions[n], k)
  BY ListedDef DEF ListedShows, Shows
<1>2. PICK k \in DOMAIN regions[n].slides : a = Address(regions[n], k)
  BY <1>1
<1> DEFINE r == regions[n]
           s == r.slides[k]
           len == TypeLen[query.type]
<1>3. HasSlide(r, s) /\ Fits(r) /\ a = r.base + s
  BY <1>1, <1>2 DEF HasSlide, FitInv, ListInv, Address
<1>4. r \in Region
  BY <1>1, ElementOfSeq DEF TypeOK, ResultsTypeOK
<1>5. s \in Nat
  BY <1>3, <1>4, SlideNat
<1>6. /\ r.base \in Bases /\ r.base \in Nat /\ Size[r.base] \in Nat
      /\ len \in Nat /\ s + len <= Size[r.base] /\ s < Size[r.base]
      /\ vmsize = Size
  BY <1>3, MemoryAssumption, TypesAssumption, QueriesAssumption
     DEF Fits, NumberCall, FitInv, MapInv
<1> HIDE DEF r, s, len
<1>7. \A k1 \in 0 .. (len - 1) : Live(a + k1)
  <2> SUFFICES ASSUME NEW k1 \in 0 .. (len - 1) PROVE Live(a + k1)
    OBVIOUS
  <2>1. r.base <= a + k1 /\ a + k1 < r.base + vmsize[r.base]
    BY <1>3, <1>5, <1>6
  <2> QED
    BY <1>6, <2>1 DEF Live
<1>8. a \in Addr
  <2>1. a \in r.base .. (r.base + Size[r.base] - 1)
    BY <1>3, <1>5, <1>6
  <2> QED
    BY <1>6, <2>1 DEF Addr
<1> QED
  BY <1>3, <1>7, <1>8 DEF Readable, r, s, len

LEMMA GoodListed ==
  ASSUME TypeOK, QuietInv, op = "return", q.api = "number", NEW a \in Listed
  PROVE  Good(a) /\ Readable(a, TypeLen[q.type]) /\ a \in Addr
<1>1. q \in NumberQueries
  BY QueriesAssumption DEF QuietInv, FitInv, CallInv, NearCall, EditCall
<1>2. /\ Readable(a, TypeLen[q.type]) /\ a \in Addr
      /\ \E n \in DOMAIN regions : \E s : HasSlide(regions[n], s) /\ a = regions[n].base + s
  BY <1>1, ListedReadable DEF QuietInv
<1> QED
  BY <1>2 DEF QuietInv, SearchInv, EndInv, AllGood

(* On memory that holds still, all that searchNumber lists when it ends is *)
(* in the range, can be read and holds a value searched for, after a first *)
(* search and after any number of others.                                  *)
THEOREM SearchMatches ==
  ASSUME Still, OneLength, SameRegions, NearQueries = {}, GroupQueries = {}
  PROVE  Spec => []ResultsMatch
<1>1. TypeOK /\ QuietInv /\ [Next]_vars => QuietInv'
  BY QuietNext
<1>2. TypeOK /\ QuietInv => ResultsMatch
  <2> SUFFICES ASSUME TypeOK, QuietInv, op = "return", q.api = "number", NEW a \in Listed
               PROVE  /\ q.range.start <= a /\ a < q.range.end
                      /\ Readable(a, TypeLen[q.type]) /\ Hit(a, q.type, q.want)
    BY DEF ResultsMatch
  <2> QED
    BY GoodListed DEF Good, InRange
<1> QED
  BY <1>1, <1>2, InitQuiet, TypeCorrect, PTL DEF Spec

LEMMA FoundAll ==
  ASSUME TypeOK, QuietInv, [Next]_vars, op = "first", op' = "return", ~memoryLimitReached,
         "nomem" \notin Faults, NEW b, NEW p, Wanted(b, p)
  PROVE  b + p \in Listed'
<1>1. FirstDone
  BY DEF Next, Call, SearchNumber, SearchNearby, SearchGroup, EditAll, SetFloatTolerance,
     ClearResults, GetResults, Work, EngineStep, ScanStep, FirstLoad, FirstLimit, FirstFound,
     FirstExhausted, RefineNull, AgainSkip, RefineLoad, RefineNext, RefineDone, Refining,
     AgainKeep, AgainDrop, AgainFault, NearMiss, NearFound, NearFault, GroupFound, GroupMiss,
     GroupDone, GroupNull, EditNull, EditSlide, EditNext, EditDone, Editing, Return, Throw,
     OutOfMemory, Game, GameStep, GameWrites, GameUnmaps, Crashed, vars, engineVars
<1>2. todo = {} /\ regions' = regions
  BY <1>1 DEF FirstDone, results
<1>3. Shows(b + p)
  BY <1>2 DEF QuietInv, SearchInv, PassedInv
<1>4. Shows(b + p)'
  BY <1>2, <1>3 DEF Shows, Address
<1>5. ListedShows'
  BY ListedDef, PTL
<1> QED
  BY <1>4, <1>5 DEF ListedShows

(* On memory that holds still, a first search that its limit does not stop *)
(* lists every aligned value in the range, in every region it may search.  *)
THEOREM FirstIsComplete ==
  ASSUME Still, OneLength, SameRegions, NearQueries = {}, GroupQueries = {}
  PROVE  Spec => FirstFindsAll
<1>1. TypeOK /\ QuietInv /\ [Next]_vars => QuietInv'
  BY QuietNext
<1>2. TypeOK /\ QuietInv /\ [Next]_vars =>
        [op = "first" /\ op' = "return" /\ ~memoryLimitReached =>
           \A b \in Writable \ Stack : \A p \in 0 .. (vmsize[b] - TypeLen[q.type]) :
             p % TypeLen[q.type] = 0 /\ InRange(b + p, q.range) /\ Hit(b + p, q.type, q.want)
               => b + p \in Listed']_vars
  <2> SUFFICES ASSUME TypeOK, QuietInv, [Next]_vars, op = "first", op' = "return",
                      ~memoryLimitReached, NEW b \in Writable \ Stack,
                      NEW p \in 0 .. (vmsize[b] - TypeLen[q.type]),
                      p % TypeLen[q.type] = 0, InRange(b + p, q.range),
                      Hit(b + p, q.type, q.want)
               PROVE  b + p \in Listed'
    OBVIOUS
  <2>1. vmsize[b] = Size[b] /\ Size[b] \in Nat /\ TypeLen[q.type] \in Nat
    BY MemoryAssumption, Length DEF QuietInv, FitInv, MapInv
  <2>2. Wanted(b, p)
    BY <2>1 DEF Wanted, At, Good
  <2> QED
    BY <2>2, FoundAll DEF Still
<1> QED
  BY <1>1, <1>2, InitQuiet, TypeCorrect, PTL DEF Spec, FirstFindsAll

-----------------------------------------------------------------------------
(* h5ggEngine implements ResultList, step by step.                         *)

LEMMA SameListed ==
  ASSUME UNCHANGED regions
  PROVE  Listed' = Listed
<1>1. \A a : Shows(a)' <=> Shows(a)
  BY DEF Shows, Address
<1>2. ListedShows'
  BY ListedDef, PTL
<1>3. \A a : a \in Listed' <=> a \in Listed
  BY <1>1, <1>2, ListedDef DEF ListedShows
<1> QED
  BY <1>3

LEMMA SameMatching ==
  ASSUME UNCHANGED <<mem, vmsize, float_tolerance, q>>
  PROVE  Matching' = Matching
<1>1. \A a : Good(a)' <=> Good(a)
  BY SameGood
<1>2. \A a : Aligned(a)' <=> Aligned(a)
  BY DEF Aligned
<1>3. \A a : a \in Matching <=> a \in Addr /\ Aligned(a) /\ Good(a)
  BY DEF Matching, Good
<1>4. \A a : a \in Matching' <=> a \in Addr /\ Aligned(a)' /\ Good(a)'
  BY DEF Matching, Good
<1>5. \A a : a \in Matching' <=> a \in Matching
  BY <1>1, <1>2, <1>3, <1>4
<1> QED
  BY <1>5

LEMMA SameStill ==
  ASSUME UNCHANGED <<mem, vmsize, float_tolerance, q>>
  PROVE  \A a : a \in StillMatching' <=>
           a \in Listed' /\ Good(a) /\ Readable(a, TypeLen[q.type])
<1>1. \A a : Good(a)' <=> Good(a)
  BY SameGood
<1>2. \A a : a \in StillMatching' <=> a \in Listed' /\ Good(a)'
                                      /\ Readable(a, TypeLen[q.type])'
  BY DEF StillMatching, Good
<1>3. \A a : Readable(a, TypeLen[q.type])' <=> Readable(a, TypeLen[q.type])
  BY DEF Readable, Live
<1> QED
  BY <1>1, <1>2, <1>3

(* The places a first search looks for are the addresses that match.       *)
LEMMA WantedMatches ==
  ASSUME TypeOK, FitInv, q \in NumberQueries
  PROVE  /\ \A b, p : Wanted(b, p) => b + p \in Matching
         /\ \A a \in Matching : \E b, p : Wanted(b, p) /\ a = b + p
<1>1. TypeLen[q.type] \in Nat \ {0} /\ vmsize = Size
  BY TypesAssumption, QueriesAssumption DEF NumberCall, FitInv, MapInv
<1>2. ASSUME NEW b, NEW p, Wanted(b, p) PROVE b + p \in Matching
  <2>1. /\ b \in Writable \ Stack /\ b \in Bases /\ b \in Nat /\ Size[b] \in Nat /\ p \in Nat
        /\ p % TypeLen[q.type] = 0 /\ p + TypeLen[q.type] <= Size[b] /\ Good(b + p)
    BY <1>2, MemoryAssumption DEF Wanted, At
  <2>2. b + p \in Addr
    <3>1. b + p \in b .. (b + Size[b] - 1)
      BY <1>1, <2>1
    <3> QED
      BY <2>1, <3>1 DEF Addr
  <2>3. (b + p) - b = p /\ b <= b + p /\ (b + p) + TypeLen[q.type] <= b + vmsize[b]
    BY <1>1, <2>1
  <2>4. Aligned(b + p)
    BY <2>1, <2>3 DEF Aligned
  <2> QED
    BY <2>1, <2>2, <2>4 DEF Matching, Good
<1>3. ASSUME NEW a \in Matching PROVE \E b, p : Wanted(b, p) /\ a = b + p
  <2>1. a \in Nat /\ Good(a)
    BY AddrNat DEF Matching, Good
  <2>2. PICK b \in Writable \ Stack : /\ b <= a /\ a + TypeLen[q.type] <= b + vmsize[b]
                                      /\ (a - b) % TypeLen[q.type] = 0
    BY <1>3 DEF Matching, Aligned
  <2>3. b \in Nat /\ Size[b] \in Nat
    BY MemoryAssumption
  <2>4. a - b \in Nat /\ a = b + (a - b) /\ (a - b) + TypeLen[q.type] <= Size[b]
    BY <1>1, <2>1, <2>2, <2>3
  <2>5. Wanted(b, a - b)
    BY <2>1, <2>2, <2>4 DEF Wanted, At
  <2> QED
    BY <2>4, <2>5
<1> QED
  BY <1>2, <1>3

-----------------------------------------------------------------------------
(* The steps of ResultList that the calls and their loops are.             *)

(* A call of searchNumber or editAll begins a call of the list.            *)
LEMMA ImplBegin ==
  ASSUME TypeOK, QuietInv,
         \/ \E query \in NumberQueries : SearchNumber(query)
         \/ \E query \in EditQueries : EditAll(query)
  PROVE  List!Begin
<1>1. op = "idle" /\ UNCHANGED <<regions, session, memoryLimitReached>>
  BY DEF SearchNumber, JJScanMemory, EditAll, JJWriteAll, results
<1>2. CallOf = "none" /\ Listed' = Listed
  BY <1>1, SameListed DEF CallOf
<1>3. CASE \E query \in NumberQueries : SearchNumber(query)
  <2>1. PICK query \in NumberQueries : SearchNumber(query)
    BY <1>3
  <2>2. q' = query /\ op' \in {"first", "again"} /\ q'.api = "number"
    BY <2>1, QueriesAssumption DEF SearchNumber, JJScanMemory, NumberCall
  <2>3. CallOf' = IF firstSearchDone THEN "improve" ELSE "first"
    BY <1>1, <2>2 DEF CallOf, session
  <2>4. Matching' \subseteq Addr
    BY DEF Matching
  <2>5. StillMatching' \subseteq Listed' /\ Listed \subseteq Addr
    BY ListedReadable DEF StillMatching, QuietInv
  <2> QED
    BY <1>1, <1>2, <2>3, <2>4, <2>5 DEF List!Begin, session
<1>4. CASE \E query \in EditQueries : EditAll(query)
  <2>1. PICK query \in EditQueries : EditAll(query)
    BY <1>4
  <2>2. CallOf' = "edit"
    BY <2>1, QueriesAssumption DEF EditAll, JJWriteAll, EditCall, CallOf
  <2> QED
    BY <1>1, <1>2, <2>2 DEF List!Begin, session
<1> QED
  BY <1>3, <1>4

(* The step of a call that neither adds to the list nor takes from it.     *)
LEMMA ImplIdle ==
  ASSUME CallOf' = CallOf, UNCHANGED <<regions, session, memoryLimitReached>>,
         CallOf \in {"first", "improve"} => UNCHANGED <<mem, vmsize, float_tolerance, q>>
  PROVE  UNCHANGED List!listVars
<1>1. Listed' = Listed
  BY SameListed
<1>2. CallOf = "first" => Matching' = Matching
  BY SameMatching
<1>3. CallOf = "improve" => StillMatching' = StillMatching
  <2> SUFFICES ASSUME CallOf = "improve" PROVE StillMatching' = StillMatching
    OBVIOUS
  <2>1. \A a : a \in StillMatching' <=>
          a \in Listed /\ Good(a) /\ Readable(a, TypeLen[q.type])
    BY <1>1, SameStill
  <2>2. \A a : a \in StillMatching <=>
          a \in Listed /\ Good(a) /\ Readable(a, TypeLen[q.type])
    BY DEF StillMatching, Good
  <2> QED
    BY <2>1, <2>2
<1> QED
  BY <1>1, <1>2, <1>3 DEF List!listVars, session

(* The step of a first search that lists what it found in a region.        *)
LEMMA ImplFind ==
  ASSUME OneLength, TypeOK, QuietInv, CallOf = "first", CallOf' = CallOf,
         NEW b \in Bases, FirstLimit(b) \/ FirstExhausted(b),
         UNCHANGED <<mem, vmsize, float_tolerance, q, session>>
  PROVE  List!Find
<1>1. /\ op = "first" /\ op' = op /\ Current(b) /\ mapsize > 0 /\ LeaveRegion(b)
      /\ q \in NumberQueries
  BY DEF FirstLimit, FirstExhausted, QuietInv, FitInv, CallInv
<1>2. FoundInv /\ ~memoryLimitReached /\ memoryLimitReached' \in BOOLEAN
  BY <1>1 DEF QuietInv, SearchInv, FoundInv, FirstLimit, FirstExhausted, TypeOK, FieldsTypeOK
<1>3. \A a : Shows(a) => Shows(a)'
  BY <1>1, <1>2, LeaveShows DEF QuietInv
<1>4. ASSUME NEW a, Shows(a)' PROVE Shows(a) \/ a \in Matching
  <2>1. PICK n \in DOMAIN regions' : /\ regions'[n] # NULL
                                     /\ \E k \in DOMAIN regions'[n].slides :
                                          a = regions'[n].base + regions'[n].slides[k]
    BY <1>4 DEF Shows, Address
  <2>2. \/ n \in DOMAIN regions /\ regions'[n] = regions[n]
        \/ regions'[n] = newRegion /\ newRegion # NULL
    BY <1>1, <2>1, AppendProperties DEF LeaveRegion, TypeOK, ResultsTypeOK
  <2>3. CASE n \in DOMAIN regions /\ regions'[n] = regions[n]
    BY <2>1, <2>3 DEF Shows, Address
  <2>4. CASE regions'[n] = newRegion /\ newRegion # NULL
    <3>1. PICK k \in DOMAIN newRegion.slides : a = newRegion.base + newRegion.slides[k]
      BY <2>1, <2>4
    <3>2. HasSlide(newRegion, newRegion.slides[k])
      BY <2>4 DEF HasSlide
    <3>3. Wanted(newRegion.base, newRegion.slides[k])
      BY <1>1, <1>2, <3>2 DEF FoundInv
    <3> QED
      BY <1>1, <3>1, <3>3, WantedMatches DEF QuietInv
  <2> QED
    BY <2>2, <2>3, <2>4
<1>5. ListedShows'
  BY ListedDef, PTL
<1>6. Listed \subseteq Listed' /\ Listed' \subseteq Listed \cup Matching
  BY <1>3, <1>4, <1>5, ListedDef DEF ListedShows
<1>7. Matching' = Matching
  BY SameMatching
<1> QED
  BY <1>2, <1>6, <1>7 DEF List!Find, session

(* A repeated search keeps what still matches.                             *)
LEMMA ImproveKeeps ==
  ASSUME Still, TypeOK, QuietInv, op = "again", EngineStep, NEW a \in Listed, Good(a)
  PROVE  a \in Listed'
<1>1. PICK n \in DOMAIN regions : /\ regions[n] # NULL
                                  /\ \E k \in DOMAIN regions[n].slides :
                                       a = Address(regions[n], k)
  BY ListedDef DEF ListedShows, Shows
<1>2. PICK k \in DOMAIN regions[n].slides : a = Address(regions[n], k)
  BY <1>1
<1>3. regions \in Seq(Region \cup {NULL}) /\ regions[n].slides \in Seq(Nat)
  BY <1>1, ElementOfSeq DEF TypeOK, ResultsTypeOK, Region
<1>4. ListedShows'
  BY ListedDef, PTL
<1>5. CASE UNCHANGED regions
  BY <1>5, SameListed
<1>6. CASE RefineLoad
  BY <1>6, LoadKeeps, SameListed DEF Still, QuietInv
<1>7. CASE RefineNext
  <2>1. /\ regions' = [regions EXCEPT ![i] = newRegion] /\ i \in DOMAIN regions
        /\ mapsize > 0 /\ j > Len(regions[i].slides)
    BY <1>7 DEF RefineNext, ReplaceRegion, Refining
  <2>2. n \in DOMAIN regions' /\ (n # i => regions'[n] = regions[n]) /\ regions'[i] = newRegion
    BY <1>3, <2>1
  <2>3. CASE n # i
    BY <1>1, <1>2, <1>4, <2>2, <2>3 DEF ListedShows, Shows, Address
  <2>4. CASE n = i
    <3>1. k < j
      <4>1. k \in 1 .. Len(regions[n].slides) /\ Len(regions[n].slides) \in Nat /\ j \in Nat
        BY <1>2, <1>3, LenProperties DEF TypeOK, LoopTypeOK
      <4> QED
        BY <2>1, <2>4, <4>1
    <3>2. HasSlide(newRegion, regions[n].slides[k])
      BY <1>2, <2>1, <2>4, <3>1 DEF QuietInv, SearchInv, ImprovedInv
    <3>3. newRegion # NULL /\ newRegion.base = regions[n].base
      BY <2>4, <3>2 DEF HasSlide, QuietInv, FitInv, NewInv
    <3> QED
      BY <1>2, <1>4, <2>2, <2>4, <3>2, <3>3 DEF ListedShows, Shows, Address, HasSlide
  <2> QED
    BY <2>3, <2>4
<1>8. CASE RefineDone
  <2> DEFINE K == {m \in DOMAIN regions : regions[m] # NULL}
  <2>1. PICK g \in Sorted(K) : regions' = [m \in DOMAIN g |-> regions[g[m]]]
    BY <1>8 DEF RefineDone, Compact
  <2>2. n \in K /\ K \subseteq 0 .. Len(regions) /\ Len(regions) \in Nat
    BY <1>1, <1>3, LenProperties
  <2> HIDE DEF K
  <2>3. IsFiniteSet(K) /\ K \subseteq Nat
    BY <2>2, FiniteBelow
  <2>4. PICK m \in DOMAIN g : g[m] = n
    BY <2>1, <2>2, <2>3, SortedOnto
  <2>5. m \in DOMAIN regions' /\ regions'[m] = regions[n]
    BY <2>1, <2>4
  <2> QED
    BY <1>1, <1>2, <1>4, <2>5 DEF ListedShows, Shows, Address
<1> QED
  BY <1>5, <1>6, <1>7, <1>8 DEF EngineStep, ScanStep, results, FirstLoad, FirstLimit, FirstFound,
     FirstExhausted, FirstDone, RefineNull, AgainSkip, AgainKeep, AgainDrop, AgainFault, Crash,
     NearMiss, NearFound, NearFault, GroupFound, GroupMiss, GroupDone, GroupNull,
     EditNull, EditSlide, EditNext, EditDone, Editing

(* Every step of a repeated search improves the list.                      *)
LEMMA ImplImprove ==
  ASSUME Still, TypeOK, QuietInv, KeptInv, op = "again", EngineStep, UNCHANGED session,
         CallOf = "improve", CallOf' = CallOf, UNCHANGED memoryLimitReached
  PROVE  List!Improve
<1>1. UNCHANGED <<mem, vmsize, float_tolerance, q>>
  BY Steady
<1>2. firstSearchDone /\ [Next]_vars
  BY DEF QuietInv, ScanInv, Next, Work
<1>3. Listed' \subseteq Listed
  BY <1>2, ShrinkNext DEF QuietInv
<1>4. \A a : a \in StillMatching <=> a \in Listed /\ Good(a) /\ Readable(a, TypeLen[q.type])
  BY DEF StillMatching, Good
<1>5. Listed \cap StillMatching \subseteq Listed'
  BY <1>4, ImproveKeeps
<1>6. \A a : a \in StillMatching' <=> a \in Listed' /\ Good(a) /\ Readable(a, TypeLen[q.type])
  BY <1>1, SameStill
<1>7. StillMatching' = StillMatching
  BY <1>3, <1>4, <1>5, <1>6
<1> QED
  BY <1>3, <1>5, <1>7 DEF List!Improve, session

(* A call that ends has listed all, or only what matches.                  *)
LEMMA ImplEnd ==
  ASSUME TypeOK, QuietInv, Return, NearQueries = {}
  PROVE  List!End
<1>1. /\ op = "return" /\ op' = "idle" /\ UNCHANGED <<regions, memoryLimitReached>>
      /\ firstSearchDone' = (firstSearchDone \/ q.api \in {"number", "group"})
  BY DEF Return, results
<1>2. Listed' = Listed
  BY <1>1, SameListed
<1>3. \/ q \in NumberQueries /\ q.api = "number"
      \/ q.api = "edit"
  BY <1>1, QueriesAssumption DEF QuietInv, FitInv, CallInv, NumberCall, EditCall
<1>4. CallOf # "none" /\ CallOf' = "none"
  BY <1>1 DEF CallOf
<1>5. ASSUME CallOf = "first", ~memoryLimitReached PROVE Matching \subseteq Listed
  <2>1. q \in NumberQueries /\ q.api = "number" /\ ~firstSearchDone
    BY <1>1, <1>3, <1>5 DEF CallOf
  <2>2. \A b, p : Wanted(b, p) => Shows(b + p)
    BY <1>1, <1>5, <2>1 DEF QuietInv, SearchInv, EndInv
  <2>3. ASSUME NEW a \in Matching PROVE Shows(a)
    <3>1. PICK b, p : Wanted(b, p) /\ a = b + p
      BY <2>1, WantedMatches DEF QuietInv
    <3> QED
      BY <2>2, <3>1
  <2> QED
    BY <2>3, ListedDef DEF ListedShows
<1>6. ASSUME CallOf = "improve" PROVE Listed \subseteq StillMatching
  <2>1. q.api = "number"
    BY <1>1, <1>3, <1>6 DEF CallOf
  <2> QED
    BY <1>1, <2>1, GoodListed DEF StillMatching, Good
<1>7. firstSearchDone' = (firstSearchDone \/ CallOf # "edit")
  BY <1>1, <1>3 DEF CallOf
<1> QED
  BY <1>1, <1>2, <1>4, <1>5, <1>6, <1>7 DEF List!End

(* A step of a search or of editAll.                                       *)
LEMMA ImplStep ==
  ASSUME Still, OneLength, NearQueries = {}, TypeOK, QuietInv, QuietInv', KeptInv,
         EngineStep, UNCHANGED session
  PROVE  [List!Next]_List!listVars
<1>1. op \in {"first", "again", "edit"} /\ op' \in {op, "return"} /\ q' = q
  <2>1. op' # "crashed" /\ op \notin {"group", "near"}
    BY DEF QuietInv, FitInv, CallInv
  <2> QED
    BY <2>1, StepShape
<1>2. /\ op \in {"first", "again"} => q.api = "number"
      /\ op = "edit" => q.api = "edit"
      /\ op = "first" <=> op # "edit" /\ ~firstSearchDone
  BY <1>1 DEF TypeOK, CallTypeOK, NumberCall, EditCall, QuietInv, ScanInv
<1>3. /\ CallOf' = CallOf
      /\ CallOf = CASE op = "first" -> "first" [] op = "again" -> "improve" [] OTHER -> "edit"
  BY <1>1, <1>2 DEF CallOf, session
<1>4. CASE op = "first"
  <2>1. UNCHANGED <<mem, vmsize, float_tolerance, q>>
    BY <1>4, Steady
  <2>2. ASSUME NEW b \in Bases, FirstLimit(b) \/ FirstExhausted(b) PROVE List!Next
    BY <1>3, <1>4, <2>1, <2>2, ImplFind DEF List!Next
  <2>3. ASSUME FirstDone \/ \E b \in Bases : FirstLoad(b) \/ FirstFound(b)
        PROVE  UNCHANGED List!listVars
    <3>1. UNCHANGED <<regions, memoryLimitReached>>
      BY <2>3 DEF FirstDone, FirstLoad, FirstFound, results
    <3> QED
      BY <1>3, <2>1, <3>1, ImplIdle
  <2> QED
    BY <1>4, <2>2, <2>3 DEF EngineStep, ScanStep, RefineNull, AgainSkip, RefineLoad, RefineNext,
       RefineDone, Refining, AgainKeep, AgainDrop, AgainFault, NearMiss, NearFound, NearFault,
       GroupFound, GroupMiss, GroupDone, GroupNull, EditNull, EditSlide, EditNext, EditDone,
       Editing
<1>5. CASE op = "again"
  <2>1. UNCHANGED memoryLimitReached
    BY <1>5 DEF EngineStep, ScanStep, FirstLoad, FirstLimit, FirstFound, FirstExhausted,
       FirstDone, RefineNull, AgainSkip, RefineLoad, RefineNext, RefineDone, AgainKeep,
       AgainDrop, AgainFault, Crash, NearMiss, NearFound, NearFault, GroupFound, GroupMiss,
       GroupDone, GroupNull, EditNull, EditSlide, EditNext, EditDone, Editing
  <2> QED
    BY <1>3, <1>5, <2>1, ImplImprove DEF List!Next
<1>6. CASE op = "edit"
  <2>1. UNCHANGED <<regions, memoryLimitReached>>
    BY <1>6 DEF EngineStep, ScanStep, FirstLoad, FirstLimit, FirstFound, FirstExhausted,
       FirstDone, RefineNull, AgainSkip, RefineLoad, RefineNext, RefineDone, Refining,
       AgainKeep, AgainDrop, AgainFault, NearMiss, NearFound, NearFault, GroupFound,
       GroupMiss, GroupDone, GroupNull, EditNull, EditSlide, EditNext, EditDone, Crash, results
  <2> QED
    BY <1>3, <1>6, <2>1, ImplIdle
<1> QED
  BY <1>1, <1>4, <1>5, <1>6

LEMMA ImplCall ==
  ASSUME NearQueries = {}, GroupQueries = {}, TypeOK, QuietInv, Call
  PROVE  [List!Next]_List!listVars
<1>1. op = "idle" /\ CallOf = "none"
  BY DEF Call, SearchNumber, SearchNearby, SearchGroup, EditAll, SetFloatTolerance,
     ClearResults, GetResults, CallOf
<1>2. CASE \/ \E query \in NumberQueries : SearchNumber(query)
           \/ \E query \in EditQueries : EditAll(query)
  BY <1>2, ImplBegin DEF List!Next
<1>3. ASSUME NEW d \in Tolerances, SetFloatTolerance(d) PROVE UNCHANGED List!listVars
  <2>1. CallOf' = CallOf /\ UNCHANGED <<regions, session, memoryLimitReached>>
    BY <1>1, <1>3 DEF SetFloatTolerance, results, CallOf
  <2> QED
    BY <1>1, <2>1, ImplIdle
<1>4. CASE ClearResults
  <2>1. op' = "idle" /\ regions' = <<>> /\ ~firstSearchDone' /\ ~memoryLimitReached'
    BY <1>1, <1>4 DEF ClearResults, Reconstruct
  <2>2. ListedShows'
    BY ListedDef, PTL
  <2>3. \A a : a \notin Listed'
    BY <2>1, <2>2 DEF ListedShows, Shows
  <2>4. CallOf' = "none" /\ Listed' = {}
    BY <2>1, <2>3 DEF CallOf
  <2> QED
    BY <1>1, <2>1, <2>4 DEF List!Next, List!Clear
<1>5. ~GetResults
  BY <1>1 DEF GetResults, NullHole, QuietInv, HoleInv
<1> QED
  BY <1>2, <1>3, <1>4, <1>5 DEF Call

LEMMA ImplNext ==
  ASSUME Still, OneLength, NearQueries = {}, GroupQueries = {}, TypeOK, QuietInv, QuietInv',
         KeptInv, [Next]_vars
  PROVE  [List!Next]_List!listVars
<1>1. CASE Call
  BY <1>1, ImplCall
<1>2. CASE EngineStep /\ UNCHANGED session
  BY <1>2, ImplStep
<1>3. CASE Return
  BY <1>3, ImplEnd DEF List!Next
<1>4. CASE Game
  <2>1. op = "idle" /\ op' = op /\ UNCHANGED <<regions, session, memoryLimitReached>>
    BY <1>4 DEF Game, GameStep, GameWrites, GameUnmaps, Still, engineVars, results
  <2>2. CallOf = "none" /\ CallOf' = CallOf
    BY <2>1 DEF CallOf
  <2> QED
    BY <2>1, <2>2, ImplIdle
<1>5. CASE UNCHANGED vars
  <2>1. /\ CallOf' = CallOf
        /\ UNCHANGED <<regions, session, memoryLimitReached, mem, vmsize, float_tolerance, q>>
    BY <1>5 DEF vars, engineVars, target, results, settings, session, CallOf
  <2> QED
    BY <2>1, ImplIdle
<1>6. ~Throw
  BY DEF Throw, OutOfMemory, Still
<1> QED
  BY <1>1, <1>2, <1>3, <1>4, <1>5, <1>6 DEF Next, Work, Crashed

(* The engine's calls, over any number of searches, edits and clearings:   *)
(* the list is what searchNumber promises.  A first search that the limit  *)
(* does not stop finds everything, a repeated one removes exactly what no  *)
(* longer matches, editAll leaves the list as it is.                       *)
THEOREM ListImplementation ==
  ASSUME Still, OneLength, SameRegions, NearQueries = {}, GroupQueries = {}
  PROVE  Spec => ListImplemented
<1>1. Init => List!Init
  <2> SUFFICES ASSUME Init PROVE List!Init
    OBVIOUS
  <2>1. /\ op = "idle" /\ regions = <<>> /\ ~firstSearchDone /\ ~memoryLimitReached
    BY DEF Init, Construct
  <2>2. \A a : a \notin Listed
    BY <2>1, ListedDef DEF ListedShows, Shows
  <2> QED
    BY <2>1, <2>2 DEF List!Init, CallOf
<1>2. Init => QuietInv /\ KeptInv
  BY InitQuiet DEF Init, Construct, KeptInv
<1>3. TypeOK /\ QuietInv /\ KeptInv /\ [Next]_vars => QuietInv' /\ KeptInv'
  BY QuietNext, KeptNext
<1>4. TypeOK /\ QuietInv /\ QuietInv' /\ KeptInv /\ [Next]_vars => [List!Next]_List!listVars
  BY ImplNext
<1> QED
  BY <1>1, <1>2, <1>3, <1>4, TypeCorrect, PTL DEF Spec, ListImplemented, List!Spec

-----------------------------------------------------------------------------
(* editAll.  Its values have the length that was searched for, and fit it. *)
EditsFit ==
  \A query \in EditQueries :
    /\ \A p \in NumberQueries : TypeLen[p.type] = TypeLen[query.type]
    /\ query.want.lo % (Radix^TypeLen[query.type]) = query.want.lo

(* Every result of the list was found at a multiple of that length.        *)
AtMultiple(s) == \E query \in NumberQueries : s % TypeLen[query.type] = 0
AlignedInv == \A n \in DOMAIN regions : \A s : HasSlide(regions[n], s) => AtMultiple(s)

(* The results that editAll has been to and could write.                   *)
InEdit == op = "edit" \/ (op = "return" /\ q.api = "edit")
Done(n, k) == op = "edit" => n < i \/ (n = i /\ k <= j)
Edits(s) == /\ s \in Slots /\ Done(s[1], s[2])
            /\ Writes(SlotAddress(s), TypeLen[q.type])
Edited == {s \in Slots : Edits(s)}
EditedWell == /\ IsFiniteSet(Edited) /\ newCount = Cardinality(Edited)
              /\ \A s \in Slots : Edits(s) => Value(SlotAddress(s), q.type) = q.want.lo
EditInv == InEdit => EditedWell

EditedShows == \A s : s \in Edited <=> Edits(s)
LEMMA EditedDef == EditedShows
  BY DEF EditedShows, Edited, Edits

LEMMA AlignedNext ==
  ASSUME NearQueries = {}, GroupQueries = {}, TypeOK, FitInv, SearchInv, KeptInv, AlignedInv,
         [Next]_vars
  PROVE  AlignedInv'
<1>1. op \notin {"near", "group"}
  BY DEF FitInv, CallInv
<1>2. regions \in Seq(Region \cup {NULL}) /\ newRegion \in Region \cup {NULL}
  BY DEF TypeOK, ResultsTypeOK
<1>3. CASE UNCHANGED regions
  BY <1>3 DEF AlignedInv, HasSlide, AtMultiple
<1>4. ASSUME NEW b \in Bases, FirstLimit(b) \/ FirstExhausted(b) PROVE AlignedInv'
  <2>1. /\ op = "first" /\ q \in NumberQueries
        /\ regions' = IF newRegion = NULL THEN regions ELSE Append(regions, newRegion)
    BY <1>4 DEF FirstLimit, FirstExhausted, LeaveRegion, FitInv, CallInv
  <2>2. \A s : HasSlide(newRegion, s) => AtMultiple(s)
    BY <2>1 DEF SearchInv, FoundInv, Wanted, At, AtMultiple
  <2>3. /\ \A n \in DOMAIN regions' : n \in DOMAIN regions \/ regions'[n] = newRegion
        /\ \A n \in DOMAIN regions : n \in DOMAIN regions' /\ regions'[n] = regions[n]
    BY <1>2, <2>1, AppendProperties, LenProperties
  <2> QED
    BY <2>2, <2>3 DEF AlignedInv, HasSlide, AtMultiple
<1>5. CASE RefineLoad
  <2>1. \A n \in DOMAIN regions' :
          n \in DOMAIN regions /\ (regions'[n] = regions[n] \/ regions'[n] = NULL)
    BY <1>5 DEF RefineLoad, ReplaceRegion
  <2> QED
    BY <2>1 DEF AlignedInv, HasSlide, AtMultiple
<1>6. CASE RefineNext
  <2>1. op = "again" /\ i \in DOMAIN regions /\ regions[i] # NULL
    BY <1>1, <1>6 DEF RefineNext, Refining, TypeOK, LoopTypeOK
  <2>2. \A n \in DOMAIN regions' :
          n \in DOMAIN regions /\ (regions'[n] = regions[n] \/ regions'[n] = newRegion)
    BY <1>6 DEF RefineNext, ReplaceRegion
  <2>3. \A s : HasSlide(newRegion, s) => HasSlide(regions[i], s)
    BY <2>1 DEF KeptInv, HasSlide
  <2> QED
    BY <2>1, <2>2, <2>3 DEF AlignedInv, HasSlide, AtMultiple
<1>7. CASE RefineDone
  <2>1. PICK g \in Sorted({n \in DOMAIN regions : regions[n] # NULL}) :
          regions' = [n \in DOMAIN g |-> regions[g[n]]]
    BY <1>7 DEF RefineDone, Compact
  <2>2. \A n \in DOMAIN g : g[n] \in DOMAIN regions
    BY <2>1 DEF Sorted
  <2> QED
    BY <2>1, <2>2 DEF AlignedInv, HasSlide, AtMultiple
<1>8. CASE ClearResults
  BY <1>8 DEF ClearResults, Reconstruct, AlignedInv
<1> QED
  BY <1>1, <1>3, <1>4, <1>5, <1>6, <1>7, <1>8 DEF Next, Work, Crashed, EngineStep, ScanStep, Call,
     SearchNumber, JJScanMemory, SearchNearby, SearchGroup, EditAll, JJWriteAll,
     SetFloatTolerance, GetResults, Return, Throw, OutOfMemory, Game, GameStep, GameWrites,
     GameUnmaps, vars, engineVars, results, FirstLoad, FirstFound, FirstDone, RefineNull,
     AgainSkip, AgainKeep, AgainDrop, AgainFault, Crash, NearMiss, NearFound, NearFault,
     GroupFound, GroupMiss, GroupDone, GroupNull, EditNull, EditSlide, EditNext, EditDone,
     Editing

(* Where a result lies, and the cells of its value.                        *)
LEMMA SlotGround ==
  ASSUME Still, TypeOK, FitInv, AlignedInv, EditsFit, q \in EditQueries, NEW s \in Slots
  PROVE  LET r == regions[s[1]]
             p == r.slides[s[2]]
             len == TypeLen[q.type]
         IN /\ SlotAddress(s) = r.base + p
            /\ r.base \in Bases /\ r.base \in Nat /\ Size[r.base] \in Nat /\ p \in Nat
            /\ len \in Nat \ {0} /\ p % len = 0 /\ p + len <= Size[r.base]
            /\ \A k \in 0 .. (len - 1) : SlotAddress(s) + k \in Addr
<1> DEFINE r == regions[s[1]]
           p == r.slides[s[2]]
           len == TypeLen[q.type]
<1>1. /\ s[1] \in DOMAIN regions /\ r # NULL /\ s[2] \in DOMAIN r.slides
  BY SlotIndex DEF TypeOK, ResultsTypeOK
<1>2. SlotAddress(s) = r.base + p
  BY DEF SlotAddress, Address
<1>3. HasSlide(r, p) /\ Fits(r) /\ r \in Region
  BY <1>1, ElementOfSeq DEF HasSlide, FitInv, ListInv, TypeOK, ResultsTypeOK
<1>4. p \in Nat
  BY <1>3, SlideNat
<1>5. PICK query \in NumberQueries : p % TypeLen[query.type] = 0
  BY <1>1, <1>3 DEF AlignedInv, AtMultiple
<1>6. TypeLen[query.type] = len /\ len \in Nat \ {0}
  BY TypesAssumption, QueriesAssumption DEF EditsFit, EditCall
<1>7. /\ r.base \in Bases /\ r.base \in Nat /\ Size[r.base] \in Nat
      /\ p + len <= Size[r.base]
  BY <1>3, <1>6, MemoryAssumption DEF Fits
<1> HIDE DEF r, p, len
<1>8. ASSUME NEW k \in 0 .. (len - 1) PROVE SlotAddress(s) + k \in Addr
  <2>1. SlotAddress(s) + k \in r.base .. (r.base + Size[r.base] - 1)
    BY <1>2, <1>4, <1>6, <1>7
  <2> QED
    BY <1>7, <2>1 DEF Addr
<1> QED
  BY <1>2, <1>4, <1>5, <1>6, <1>7, <1>8 DEF r, p, len

(* Two results are the same address, or their values share no cell.        *)
LEMMA SlotsApart ==
  ASSUME Still, Disjoint, TypeOK, FitInv, AlignedInv, EditsFit, q \in EditQueries,
         NEW s \in Slots, NEW z \in Slots
  PROVE  \/ SlotAddress(s) = SlotAddress(z)
         \/ SlotAddress(s) + TypeLen[q.type] <= SlotAddress(z)
         \/ SlotAddress(z) + TypeLen[q.type] <= SlotAddress(s)
<1> DEFINE b == regions[s[1]].base
           c == regions[z[1]].base
           x == regions[s[1]].slides[s[2]]
           y == regions[z[1]].slides[z[2]]
           len == TypeLen[q.type]
<1>1. /\ SlotAddress(s) = b + x /\ b \in Bases /\ b \in Nat /\ Size[b] \in Nat /\ x \in Nat
      /\ len \in Nat \ {0} /\ x % len = 0 /\ x + len <= Size[b]
  BY SlotGround
<1>2. /\ SlotAddress(z) = c + y /\ c \in Bases /\ c \in Nat /\ Size[c] \in Nat /\ y \in Nat
      /\ y % len = 0 /\ y + len <= Size[c]
  BY SlotGround
<1> HIDE DEF b, c, x, y, len
<1>3. /\ b < c => b + Size[b] <= c
      /\ c < b => c + Size[c] <= b
  BY <1>1, <1>2 DEF Disjoint
<1>4. x = y \/ x + len <= y \/ y + len <= x
  <2>1. x \in Int /\ y \in Int /\ len \in Int
    BY <1>1, <1>2
  <2>2. x <= y /\ y < x + len => y = x
    BY <1>1, <1>2, <2>1, StrideGap
  <2>3. y <= x /\ x < y + len => x = y
    BY <1>1, <1>2, <2>1, StrideGap
  <2> QED
    BY <2>1, <2>2, <2>3
<1>5. CASE b = c
  BY <1>1, <1>2, <1>4, <1>5 DEF len
<1>6. CASE b # c
  BY <1>1, <1>2, <1>3, <1>6 DEF len
<1> QED
  BY <1>5, <1>6

(* The cells that editAll writes spell the value; others keep theirs.      *)
LEMMA CellsWritten ==
  ASSUME NEW a \in Nat, NEW len \in Nat \ {0}, NEW cells \in [0 .. (len - 1) -> Nat],
         \A k \in 0 .. (len - 1) : a + k \in Addr,
         mem' = [c \in Addr |-> IF c \in a .. (a + len - 1) THEN cells[c - a] ELSE mem[c]]
  PROVE  [k \in 0 .. (len - 1) |-> mem'[a + k]] = cells
<1>1. ASSUME NEW k \in 0 .. (len - 1) PROVE mem'[a + k] = cells[k]
  <2>1. a + k \in a .. (a + len - 1) /\ (a + k) - a = k
    OBVIOUS
  <2> QED
    BY <2>1
<1> QED
  BY <1>1

LEMMA CellsSpared ==
  ASSUME NEW a \in Nat, NEW len \in Nat \ {0}, NEW cells, NEW x \in Nat,
         x + len <= a \/ a + len <= x, \A k \in 0 .. (len - 1) : x + k \in Addr,
         mem' = [c \in Addr |-> IF c \in a .. (a + len - 1) THEN cells[c - a] ELSE mem[c]]
  PROVE  \A k \in 0 .. (len - 1) : mem'[x + k] = mem[x + k]
<1>1. ASSUME NEW k \in 0 .. (len - 1) PROVE mem'[x + k] = mem[x + k]
  <2>1. x + k \notin a .. (a + len - 1)
    OBVIOUS
  <2> QED
    BY <2>1
<1> QED
  BY <1>1

(* While the list stays, and the place in it, so do the results edited.    *)
LEMMA EditedSame ==
  ASSUME UNCHANGED <<regions, vmsize, q, mem, newCount>>,
         \A s \in Slots : Done(s[1], s[2])' <=> Done(s[1], s[2]), EditedWell
  PROVE  EditedWell'
<1>1. Slots' = Slots
  BY SlotsSame
<1>2. \A s : Edits(s)' <=> Edits(s)
  BY <1>1 DEF Edits, Writes, SlotAddress, Address
<1>3. Edited' = Edited
  <2>1. EditedShows'
    BY EditedDef, PTL
  <2>2. \A s : s \in Edited' <=> s \in Edited
    BY <1>2, <2>1, EditedDef DEF EditedShows
  <2> QED
    BY <2>2 DEF Edited
<1>4. \A s : Value(SlotAddress(s), q.type)' = Value(SlotAddress(s), q.type)
  BY DEF Value, SlotAddress, Address
<1> QED
  BY <1>1, <1>2, <1>3, <1>4 DEF EditedWell

LEMMA EditedStart ==
  ASSUME TypeOK, NEW query, EditAll(query)
  PROVE  EditedWell'
<1>1. op' = "edit" /\ i' = 1 /\ j' = 0 /\ newCount' = 0 /\ UNCHANGED regions
  BY DEF EditAll, JJWriteAll, StartFrame, Unloaded, results
<1>2. Slots' = Slots
  BY <1>1, SlotsSame
<1>3. ASSUME NEW s, Edits(s)' PROVE FALSE
  <2>1. s \in Slots /\ Done(s[1], s[2])'
    BY <1>2, <1>3 DEF Edits
  <2>2. s[1] \in Nat /\ s[1] # 0 /\ s[2] \in Nat \ {0}
    BY <2>1, SlotIndex, LenProperties DEF TypeOK, ResultsTypeOK
  <2> QED
    BY <1>1, <2>1, <2>2 DEF Done
<1>4. Edited' = {}
  <2>1. EditedShows'
    BY EditedDef, PTL
  <2> QED
    BY <1>3, <2>1 DEF EditedShows
<1> QED
  BY <1>1, <1>3, <1>4, FS_EmptySet DEF EditedWell

LEMMA SlotCells ==
  ASSUME Still, TypeOK, FitInv, AlignedInv, EditsFit, q \in EditQueries, NEW s \in Slots
  PROVE  /\ SlotAddress(s) \in Nat
         /\ \A k \in 0 .. (TypeLen[q.type] - 1) : SlotAddress(s) + k \in Addr
<1> DEFINE b == regions[s[1]].base
           p == regions[s[1]].slides[s[2]]
<1>1. /\ SlotAddress(s) = b + p /\ b \in Nat /\ p \in Nat
      /\ \A k \in 0 .. (TypeLen[q.type] - 1) : SlotAddress(s) + k \in Addr
  BY SlotGround
<1> QED
  BY <1>1

(* Writing one more: its value is spelled there, also where it was before. *)
LEMMA EditedMore ==
  ASSUME Still, Disjoint, EditsFit, TypeOK, FitInv, AlignedInv, EditedWell, EditSlide
  PROVE  EditedWell'
<1> DEFINE len == TypeLen[q.type]
           slot == <<i, j + 1>>
           a == SlotAddress(slot)
<1>1. /\ op = "edit" /\ q \in EditQueries /\ len \in Nat \ {0} /\ i \in Nat /\ j \in Nat
      /\ q.want.lo % (Radix^len) = q.want.lo /\ newCount \in Nat
  BY TypesAssumption, QueriesAssumption
     DEF EditsFit, EditCall, EditSlide, Editing, FitInv, CallInv, TypeOK, LoopTypeOK, ResultsTypeOK
<1>2. slot \in Slots
  BY SlotsDef DEF SlotsShown, InSlots, EditSlide, Editing
<1>3. Slots' = Slots /\ UNCHANGED <<regions, vmsize, q, op, i>> /\ j' = j + 1
  BY SlotsSame DEF EditSlide, results
<1>4. a = Address(regions[i], j + 1)
  BY DEF SlotAddress
<1>5. ASSUME NEW s \in Slots PROVE Done(s[1], s[2])' <=> Done(s[1], s[2]) \/ s = slot
  <2>1. s[1] \in Nat /\ s[2] \in Nat /\ s = <<s[1], s[2]>>
    BY SlotIndex DEF TypeOK, ResultsTypeOK
  <2>2. Done(s[1], s[2])' <=> s[1] < i \/ (s[1] = i /\ s[2] <= j + 1)
    BY <1>1, <1>3 DEF Done
  <2>3. Done(s[1], s[2]) <=> s[1] < i \/ (s[1] = i /\ s[2] <= j)
    BY <1>1 DEF Done
  <2>4. s = slot <=> s[1] = i /\ s[2] = j + 1
    BY <2>1
  <2> QED
    BY <1>1, <2>1, <2>2, <2>3, <2>4
<1>6. ~Done(slot[1], slot[2])
  BY <1>1 DEF Done
<1>7. \A s : Edits(s)' <=> Edits(s) \/ (s = slot /\ Writes(a, len))
  BY <1>2, <1>3, <1>5 DEF Edits, Writes, SlotAddress, Address
<1>8. EditedShows /\ EditedShows'
  BY EditedDef, PTL
<1>9. CASE Writes(a, len)
  <2>1. PICK cells \in [0 .. (len - 1) -> 0 .. (Radix - 1)] :
          /\ Spelled(cells) = q.want.lo % Radix^len
          /\ mem' = [c \in Addr |-> IF c \in a .. (a + len - 1)
                                    THEN cells[c - a] ELSE mem[c]]
    BY <1>4, <1>9 DEF EditSlide
  <2>2. newCount' = newCount + 1
    BY <1>4, <1>9 DEF EditSlide
  <2>3. Edited' = Edited \cup {slot} /\ slot \notin Edited
    <3>1. \A s : s \in Edited' <=> s \in Edited \/ s = slot
      BY <1>7, <1>8, <1>9 DEF EditedShows
    <3>2. slot \notin Edited
      BY <1>6, <1>8 DEF EditedShows, Edits
    <3> QED
      BY <3>1, <3>2
  <2>4. IsFiniteSet(Edited') /\ newCount' = Cardinality(Edited')
    BY <1>1, <2>2, <2>3, FS_AddElement DEF EditedWell
  <2>5. a \in Nat /\ \A k \in 0 .. (len - 1) : a + k \in Addr
    BY <1>1, <1>2, SlotCells
  <2>6. cells \in [0 .. (len - 1) -> Nat]
    <3>1. 0 .. (Radix - 1) \subseteq Nat
      OBVIOUS
    <3> QED
      BY <2>1, <3>1
  <2>7. ASSUME NEW s \in Slots, Edits(s)' PROVE Value(SlotAddress(s), q.type)' = q.want.lo
    <3>1. PICK x : x = SlotAddress(s)
      OBVIOUS
    <3>2. x \in Nat /\ \A k \in 0 .. (len - 1) : x + k \in Addr
      BY <1>1, <3>1, SlotCells
    <3>3. SlotAddress(s)' = x
      BY <1>3, <3>1 DEF SlotAddress, Address
    <3>4. Value(x, q.type)' = Spelled([k \in 0 .. (len - 1) |-> mem'[x + k]])
      BY <1>3 DEF Value
    <3>5. x = a \/ x + len <= a \/ a + len <= x
      BY <1>1, <1>2, <3>1, SlotsApart
    <3> HIDE DEF len, a
    <3>6. CASE x = a
      <4>1. mem' = [c \in Addr |-> IF c \in a .. (a + len - 1) THEN cells[c - a] ELSE mem[c]]
        BY <2>1
      <4>2. len \in Nat \ {0}
        BY <1>1
      <4>3. [k \in 0 .. (len - 1) |-> mem'[a + k]] = cells
        BY <2>5, <2>6, <4>1, <4>2, CellsWritten
      <4> QED
        BY <1>1, <2>1, <3>3, <3>4, <3>6, <4>3
    <3>7. CASE x # a /\ (x + len <= a \/ a + len <= x)
      <4>0. /\ a \in Nat /\ len \in Nat \ {0} /\ x \in Nat
            /\ mem' = [c \in Addr |-> IF c \in a .. (a + len - 1) THEN cells[c - a] ELSE mem[c]]
        BY <1>1, <2>1, <2>5, <3>2
      <4>1. [k \in 0 .. (len - 1) |-> mem'[x + k]] = [k \in 0 .. (len - 1) |-> mem[x + k]]
        <5>1. \A k \in 0 .. (len - 1) : mem'[x + k] = mem[x + k]
          BY <3>2, <3>7, <4>0, CellsSpared
        <5> QED
          BY <5>1
      <4>2. Edits(s)
        BY <1>7, <2>7, <3>1, <3>7 DEF a
      <4>3. Value(x, q.type) = q.want.lo
        BY <3>1, <4>2 DEF EditedWell
      <4> QED
        BY <3>3, <3>4, <4>1, <4>3 DEF Value, len
    <3> QED
      BY <3>5, <3>6, <3>7
  <2> QED
    BY <1>3, <2>4, <2>7 DEF EditedWell
<1>10. CASE ~Writes(a, len)
  <2>1. UNCHANGED <<mem, newCount>>
    BY <1>4, <1>10 DEF EditSlide
  <2>2. Edited' = Edited
    <3>1. \A s : s \in Edited' <=> s \in Edited
      BY <1>7, <1>8, <1>10 DEF EditedShows
    <3> QED
      BY <3>1
  <2>3. \A s : Value(SlotAddress(s), q.type)' = Value(SlotAddress(s), q.type)
    BY <1>3, <2>1 DEF Value, SlotAddress, Address
  <2> QED
    BY <1>3, <1>7, <1>10, <2>1, <2>2, <2>3 DEF EditedWell
<1> QED
  BY <1>9, <1>10

LEMMA EditedNext ==
  ASSUME Still, Disjoint, EditsFit, GroupQueries = {}, TypeOK, FitInv, HoleInv, AlignedInv,
         EditInv, [Next]_vars
  PROVE  EditInv'
<1>1. CASE UNCHANGED vars
  <2>1. \A s \in Slots : Done(s[1], s[2])' <=> Done(s[1], s[2])
    BY <1>1 DEF Done, vars, engineVars, frame
  <2>2. UNCHANGED <<regions, vmsize, q, mem, newCount, op>>
    BY <1>1 DEF vars, engineVars, frame, results, target
  <2> QED
    BY <2>1, <2>2, EditedSame DEF EditInv, InEdit
<1>2. CASE Call
  <2>1. ASSUME NEW query \in EditQueries, EditAll(query) PROVE EditInv'
    BY <2>1, EditedStart DEF EditInv
  <2>2. CASE op' # "edit" /\ op' # "return"
    BY <2>2 DEF EditInv, InEdit
  <2> QED
    BY <1>2, <2>1, <2>2 DEF Call, SearchNumber, JJScanMemory, SearchNearby, JJNearBySearch,
       SearchGroup, SetFloatTolerance, ClearResults, GetResults, Crash
<1>3. CASE EngineStep /\ op = "edit"
  <2>1. EditNull \/ EditSlide \/ EditNext \/ EditDone
    BY <1>3 DEF EngineStep, ScanStep, FirstLoad, FirstLimit, FirstFound, FirstExhausted,
       FirstDone, RefineNull, AgainSkip, RefineLoad, RefineNext, RefineDone, AgainKeep,
       AgainDrop, AgainFault, NearMiss, NearFound, NearFault, GroupFound, GroupMiss,
       GroupDone, GroupNull, Refining
  <2>2. EditedWell
    BY <1>3 DEF EditInv, InEdit
  <2>3. CASE EditNull
    BY <2>3 DEF EditNull, Crash, EditInv, InEdit
  <2>4. CASE EditSlide
    BY <2>2, <2>4, EditedMore DEF EditInv
  <2>5. CASE EditNext
    <3>1. /\ i \in Nat /\ j \in Nat /\ i' = i + 1 /\ j' = 0 /\ j >= Len(regions[i].slides)
          /\ UNCHANGED <<regions, vmsize, q, mem, newCount, op>>
      BY <2>5 DEF EditNext, TypeOK, LoopTypeOK, results, target
    <3>2. ASSUME NEW s \in Slots PROVE Done(s[1], s[2])' <=> Done(s[1], s[2])
      <4>1. s[1] \in Nat /\ s[2] \in Nat \ {0} /\ s[1] \in DOMAIN regions
            /\ regions[s[1]] # NULL /\ s[2] \in DOMAIN regions[s[1]].slides
        BY SlotIndex DEF TypeOK, ResultsTypeOK
      <4>2. s[2] <= Len(regions[s[1]].slides) /\ Len(regions[s[1]].slides) \in Nat
        BY <4>1, ElementOfSeq, LenProperties DEF TypeOK, ResultsTypeOK, Region
      <4> QED
        BY <1>3, <3>1, <4>1, <4>2 DEF Done
    <3> QED
      BY <2>2, <3>1, <3>2, EditedSame DEF EditInv
  <2>6. CASE EditDone
    <3>1. /\ i > Len(regions) /\ i \in Nat /\ op' = "return"
          /\ UNCHANGED <<regions, vmsize, q, mem, newCount>>
      BY <2>6 DEF EditDone, TypeOK, LoopTypeOK, results, target, frame
    <3>2. ASSUME NEW s \in Slots PROVE Done(s[1], s[2])' <=> Done(s[1], s[2])
      <4>1. s[1] \in Nat /\ s[1] <= Len(regions) /\ Len(regions) \in Nat
        BY SlotIndex, LenProperties DEF TypeOK, ResultsTypeOK
      <4> QED
        BY <1>3, <3>1, <4>1 DEF Done
    <3> QED
      BY <2>2, <3>1, <3>2, EditedSame DEF EditInv
  <2> QED
    BY <2>1, <2>3, <2>4, <2>5, <2>6
<1>4. CASE EngineStep /\ op # "edit"
  <2>1. op \in {"first", "again", "near"} /\ op' \in {op, "return", "crashed"} /\ q' = q
    BY <1>4, StepShape DEF FitInv, CallInv
  <2>2. q.api # "edit"
    BY <2>1 DEF TypeOK, CallTypeOK, NumberCall, NearCall
  <2> QED
    BY <2>1, <2>2 DEF EditInv, InEdit
<1>5. CASE Return
  BY <1>5 DEF Return, EditInv, InEdit
<1>6. CASE Throw
  BY <1>6 DEF Throw, OutOfMemory, Still
<1>7. CASE Game
  <2>1. op = "idle" /\ op' = op
    BY <1>7 DEF Game, GameStep, GameWrites, GameUnmaps, Still, engineVars
  <2> QED
    BY <2>1 DEF EditInv, InEdit
<1> QED
  BY <1>1, <1>2, <1>3, <1>4, <1>5, <1>6, <1>7 DEF Next, Work, Crashed

(* editAll writes every result it can, and counts exactly those: no write  *)
(* of one result changes another, for they lie a whole value apart, and    *)
(* the ones behind the last write are all of the list at the end.          *)
THEOREM EditIsComplete ==
  ASSUME Still, OneLength, SameRegions, Disjoint, EditsFit, NearQueries = {},
         GroupQueries = {}
  PROVE  Spec => []EditWritesAll
<1>1. Init => QuietInv /\ KeptInv /\ AlignedInv /\ EditInv
  BY InitQuiet DEF Init, Construct, KeptInv, AlignedInv, EditInv, InEdit
<1>2. TypeOK /\ QuietInv /\ KeptInv /\ AlignedInv /\ EditInv /\ [Next]_vars
      => QuietInv' /\ KeptInv' /\ AlignedInv' /\ EditInv'
  BY QuietNext, KeptNext, AlignedNext, EditedNext DEF QuietInv
<1>3. EditInv => EditWritesAll
  <2> SUFFICES ASSUME EditInv, op = "return", q.api = "edit"
               PROVE  /\ newCount = Cardinality({s \in Slots : Writes(SlotAddress(s), TypeLen[q.type])})
                      /\ \A a \in Listed : Writes(a, TypeLen[q.type]) => Value(a, q.type) = q.want.lo
    BY DEF EditWritesAll
  <2>1. EditedWell
    BY DEF EditInv, InEdit
  <2>2. \A s : Edits(s) <=> s \in Slots /\ Writes(SlotAddress(s), TypeLen[q.type])
    BY DEF Edits, Done
  <2>3. Edited = {s \in Slots : Writes(SlotAddress(s), TypeLen[q.type])}
    BY <2>2 DEF Edited
  <2> QED
    BY <2>1, <2>2, <2>3 DEF EditedWell, Listed
<1> QED
  BY <1>1, <1>2, <1>3, TypeCorrect, PTL DEF Spec

-----------------------------------------------------------------------------
(* Group searches: where the scan for the anchor looks, what it would find *)
(* there, and that it is not cut off at MaxAnchors.                        *)
AnchorPlace(a) ==
  /\ InRange(a, q.range)
  /\ (a - q.range.start) % TypeLen[q.items[q.anchor].type] = 0
AnchorPlaces ==
  {a \in Addr : AnchorPlace(a) /\ CompareValueAtAddress(a, q.items[q.anchor])}
Uncut == Cardinality(AnchorPlaces) <= MaxAnchors

(* The groups whose anchor was found are listed, but for those to come.    *)
InGroup == op = "group" \/ (op = "return" /\ q.api = "group")
Stands(a) == a \in Addr /\ GroupFits(a) /\ GroupMatches(a)
GroupInv ==
  /\ vmsize = Size
  /\ InGroup =>
       /\ q \in GroupCall /\ q.anchor \in DOMAIN q.items
       /\ \A a : Stands(a) /\ AnchorOf(a) \in AnchorMatches(q, q.anchor) /\ AnchorOf(a) \notin todo
                 => Shows(a)

(* Writing and unmapping apart, nothing that is compared changes.          *)
LEMMA SameGroup ==
  ASSUME UNCHANGED <<target, float_tolerance, q>>
  PROVE  /\ \A a : Stands(a)' <=> Stands(a)
         /\ \A a : AnchorOf(a)' = AnchorOf(a)
         /\ AnchorMatches(q, q.anchor)' = AnchorMatches(q, q.anchor)
<1>1. ASSUME NEW a, NEW item
      PROVE  CompareValueAtAddress(a, item)' <=> CompareValueAtAddress(a, item)
  BY SameValue DEF CompareValueAtAddress, Readable, Live, Hit, Tolerance, target
<1>2. \A a : GroupMatches(a)' <=> GroupMatches(a)
  BY <1>1 DEF GroupMatches
<1>3. AnchorMatches(q, q.anchor)' = AnchorMatches(q, q.anchor)
  BY <1>1 DEF AnchorMatches, InRange
<1> QED
  BY <1>2, <1>3 DEF Stands, GroupFits, AnchorOf

(* Steps of the loop that keep the list and the anchors to come.           *)
LEMMA GroupSame ==
  ASSUME GroupInv, InGroup, UNCHANGED <<target, float_tolerance, q, regions, todo>>
  PROVE  GroupInv'
<1>1. \A a : Shows(a)' <=> Shows(a)
  BY DEF Shows, Address
<1> QED
  BY <1>1, SameGroup DEF GroupInv, target

(* The search starts with every anchor to come.                            *)
LEMMA GroupStart ==
  ASSUME GroupInv, NEW query \in GroupQueries, SearchGroup(query)
  PROVE  GroupInv'
<1>1. PICK anchor \in Anchors(query) :
        /\ q' = [query EXCEPT !.anchor = anchor]
        /\ todo' = AnchorMatches(query, anchor)
  BY DEF SearchGroup, JJGroupSearch
<1>2. UNCHANGED <<target, float_tolerance>>
  BY DEF SearchGroup, JJGroupSearch, settings
<1>3. /\ q'.anchor = anchor /\ q'.items = query.items /\ q'.range = query.range
      /\ q' \in GroupCall /\ q'.anchor \in DOMAIN q'.items
  <2>1. anchor \in DOMAIN query.items /\ anchor \in Int /\ query \in GroupCall
    <3>1. query \in GroupCall
      BY QueriesAssumption
    <3>2. anchor \in DOMAIN query.items
      BY DEF Anchors
    <3>3. query.items \in Seq([type: Types, want: Interval, offset: Nat])
      BY <3>1 DEF GroupCall
    <3> QED
      BY <3>1, <3>2, <3>3, LenProperties
  <2> QED
    BY <1>1, <2>1 DEF GroupCall
<1>4. AnchorMatches(q, q.anchor)' = AnchorMatches(query, anchor)
  <2>1. ASSUME NEW a, NEW item
        PROVE  CompareValueAtAddress(a, item)' <=> CompareValueAtAddress(a, item)
    BY <1>2, SameValue DEF CompareValueAtAddress, Readable, Live, Hit, Tolerance, target
  <2> QED
    BY <1>3, <2>1 DEF AnchorMatches, InRange
<1> QED
  BY <1>1, <1>2, <1>3, <1>4 DEF GroupInv, target

(* What was listed stays, and the group of the anchor is added.            *)
LEMMA GroupListed ==
  ASSUME TypeOK, NEW anchor \in todo, GroupFound(anchor)
  PROVE  \A a : Shows(a) \/ a = GroupBase(anchor) => Shows(a)'
<1> DEFINE base == GroupBase(anchor)
<1>1. /\ regions \in Seq(Region \cup {NULL}) /\ PushGroup(base) /\ base \in Nat
      /\ q.total > 0 /\ regions # <<>> => Last(regions) # NULL
  BY GroupBaseType DEF GroupFound, TypeOK, ResultsTypeOK
<1> HIDE DEF base
<1>2. q \in GroupCall
  BY DEF GroupFound, TypeOK, CallTypeOK
<1>3. ASSUME NEW r \in Region
      PROVE  LET t == GroupSlide(r)
             IN /\ t # NULL /\ t.base = r.base /\ t.slides = Append(r.slides, 0)
                /\ \A k \in DOMAIN r.slides : k \in DOMAIN t.slides /\ Address(t, k) = Address(r, k)
                /\ \E k \in DOMAIN t.slides : Address(t, k) = r.base
  <2> DEFINE t == GroupSlide(r)
  <2>1. r.slides \in Seq(Nat) /\ r.base \in Nat
    BY DEF Region
  <2>2. t.base = r.base /\ t.slides = Append(r.slides, 0)
    BY DEF GroupSlide, Region
  <2>3. t # NULL
    <3>1. t \in Region
      BY <2>1, AppendProperties DEF GroupSlide, Region
    <3> QED
      BY <3>1, NullIsNoRegion
  <2>4. \A k \in DOMAIN r.slides : k \in DOMAIN t.slides /\ t.slides[k] = r.slides[k]
    BY <2>1, <2>2, AppendProperties
  <2>5. \E k \in DOMAIN t.slides : t.slides[k] = 0
    BY <2>1, <2>2, AppendProperties
  <2> HIDE DEF t
  <2> QED
    BY <2>1, <2>2, <2>3, <2>4, <2>5 DEF Address, t
<1>4. CASE q.total > 0 /\ regions # <<>> /\ Last(regions).base = base
  <2> DEFINE m == Len(regions)
             r == regions[m]
  <2>1. m \in DOMAIN regions /\ r \in Region /\ r.base = base
    BY <1>1, <1>4, EmptySeq, LenProperties, ElementOfSeq DEF Last
  <2>2. DOMAIN regions' = DOMAIN regions /\ regions' = [regions EXCEPT ![m] = GroupSlide(r)]
    BY <1>1, <1>4 DEF PushGroup
  <2> HIDE DEF m, r
  <2>3. regions'[m] = GroupSlide(r) /\ \A n \in DOMAIN regions : n # m => regions'[n] = regions[n]
    BY <2>1, <2>2
  <2>4. ASSUME NEW a, Shows(a) PROVE Shows(a)'
    <3>1. PICK n \in DOMAIN regions : /\ regions[n] # NULL
                                      /\ \E k \in DOMAIN regions[n].slides :
                                           a = Address(regions[n], k)
      BY <2>4 DEF Shows
    <3>2. CASE n = m
      BY <1>3, <2>1, <2>2, <2>3, <3>1, <3>2 DEF Shows, Address, r
    <3>3. CASE n # m
      BY <2>2, <2>3, <3>1, <3>3 DEF Shows, Address
    <3> QED
      BY <3>2, <3>3
  <2>5. ASSUME NEW a, a = base PROVE Shows(a)'
    <3>1. PICK k \in DOMAIN (GroupSlide(r)).slides : Address(GroupSlide(r), k) = base
      BY <1>3, <2>1
    <3>2. m \in DOMAIN regions' /\ regions'[m] # NULL /\ k \in DOMAIN regions'[m].slides
      BY <1>3, <2>1, <2>2, <2>3, <3>1
    <3> QED
      BY <2>3, <2>5, <3>1, <3>2 DEF Shows, Address
  <2> QED
    BY <2>4, <2>5 DEF base
<1>5. CASE ~(q.total > 0 /\ regions # <<>> /\ Last(regions).base = base)
  <2> DEFINE f == Fresh(base, q.total)
  <2>1. f \in Region /\ f.base = base
    BY <1>1, <1>2, EmptySeq DEF Fresh, Region, GroupCall
  <2>2. regions' = Append(regions, GroupSlide(f))
    BY <1>1, <1>5 DEF PushGroup
  <2> HIDE DEF f
  <2>3. GroupSlide(f) \in Region \cup {NULL} /\ GroupSlide(f) # NULL
    <3>1. GroupSlide(f) \in Region
      BY <2>1, AppendProperties DEF GroupSlide, Region
    <3> QED
      BY <3>1, NullIsNoRegion
  <2>4. /\ \A n \in DOMAIN regions : n \in DOMAIN regions' /\ regions'[n] = regions[n]
        /\ \E n \in DOMAIN regions' : regions'[n] = GroupSlide(f)
    BY <1>1, <2>2, <2>3, AppendProperties, LenProperties
  <2>5. ASSUME NEW a, Shows(a) PROVE Shows(a)'
    BY <2>4, <2>5 DEF Shows, Address
  <2>6. ASSUME NEW a, a = base PROVE Shows(a)'
    <3>1. PICK k \in DOMAIN (GroupSlide(f)).slides : Address(GroupSlide(f), k) = base
      BY <1>3, <2>1
    <3> QED
      BY <2>3, <2>4, <2>6, <3>1 DEF Shows, Address
  <2> QED
    BY <2>5, <2>6 DEF base
<1> QED
  BY <1>4, <1>5

(* The next anchor: its group is the only one at which it stands.          *)
LEMMA GroupTurn ==
  ASSUME TypeOK, GroupInv, NEW anchor \in todo, GroupFound(anchor) \/ GroupMiss(anchor),
         UNCHANGED target
  PROVE  GroupInv'
<1>1. /\ op = "group" /\ op' = op /\ todo' = todo \ {anchor}
      /\ UNCHANGED <<float_tolerance, q>> /\ InGroup
  BY DEF GroupFound, GroupMiss, settings, InGroup
<1>2. q \in GroupCall /\ q.anchor \in DOMAIN q.items /\ anchor \in Nat
  BY <1>1 DEF TypeOK, CallTypeOK, LoopTypeOK
<1>3. q.items[q.anchor].offset \in Nat
  BY <1>2, ItemsType
<1>4. ASSUME NEW a, Stands(a), AnchorOf(a) = anchor PROVE a = GroupBase(anchor)
  BY <1>2, <1>3, <1>4, AddrNat DEF Stands, AnchorOf, GroupBase
<1>5. CASE GroupFound(anchor)
  <2>1. \A a : Shows(a) \/ a = GroupBase(anchor) => Shows(a)'
    BY <1>5, GroupListed
  <2>2. \A a : Stands(a)' => Stands(a)
    BY <1>1, SameGroup
  <2>3. /\ \A a : AnchorOf(a)' = AnchorOf(a)
        /\ AnchorMatches(q, q.anchor)' = AnchorMatches(q, q.anchor)
    BY <1>1, SameGroup
  <2>4. ASSUME NEW a, Stands(a)', (AnchorOf(a) \in AnchorMatches(q, q.anchor))',
               (AnchorOf(a) \notin todo)'
        PROVE  Shows(a)'
    BY <1>1, <1>4, <2>1, <2>2, <2>3, <2>4 DEF GroupInv
  <2> QED
    BY <1>1, <2>4 DEF GroupInv, target
<1>6. CASE GroupMiss(anchor)
  <2>1. ASSUME NEW a, Stands(a) PROVE AnchorOf(a) # anchor
    BY <1>4, <1>6, <2>1 DEF GroupMiss, Stands
  <2>2. \A a : Shows(a)' <=> Shows(a)
    BY <1>6 DEF GroupMiss, results, Shows, Address
  <2> QED
    BY <1>1, <2>1, <2>2, SameGroup DEF GroupInv, target
<1> QED
  BY <1>5, <1>6

LEMMA GroupNext ==
  ASSUME {"write", "unmap"} \cap Faults = {}, TypeOK, GroupInv, [Next]_vars
  PROVE  GroupInv'
<1>1. CASE UNCHANGED vars
  <2>1. UNCHANGED <<target, float_tolerance, q, regions, todo, op>>
    BY <1>1 DEF vars, engineVars, results, settings
  <2>2. CASE InGroup
    BY <2>1, <2>2, GroupSame
  <2>3. CASE ~InGroup
    BY <2>1, <2>3 DEF GroupInv, InGroup, target
  <2> QED
    BY <2>2, <2>3
<1>2. CASE Call
  <2>1. ASSUME NEW query \in GroupQueries, SearchGroup(query) PROVE GroupInv'
    BY <2>1, GroupStart
  <2>2. CASE UNCHANGED target /\ op' # "group" /\ op' # "return"
    BY <2>2 DEF GroupInv, InGroup, target
  <2> QED
    BY <1>2, <2>1, <2>2 DEF Call, SearchNumber, JJScanMemory, SearchNearby, JJNearBySearch,
       EditAll, JJWriteAll, SetFloatTolerance, ClearResults, GetResults, Crash
<1>3. CASE EngineStep /\ op = "group"
  <2>1. /\ UNCHANGED target
        /\ \/ \E anchor \in todo : GroupFound(anchor) \/ GroupMiss(anchor)
           \/ GroupDone \/ GroupNull
    BY <1>3 DEF EngineStep, ScanStep, FirstLoad, FirstLimit, FirstFound, FirstExhausted,
       FirstDone, RefineNull, AgainSkip, RefineLoad, RefineNext, RefineDone, AgainKeep,
       AgainDrop, AgainFault, NearMiss, NearFound, NearFault, EditNull, EditSlide, EditNext,
       EditDone, Editing, Refining
  <2>2. CASE GroupDone
    BY <1>3, <2>1, <2>2, GroupSame DEF GroupDone, InGroup, results, settings
  <2>3. CASE GroupNull
    BY <2>1, <2>3 DEF GroupNull, Crash, GroupInv, InGroup, target
  <2> QED
    BY <2>1, <2>2, <2>3, GroupTurn
<1>4. CASE EngineStep /\ op # "group"
  <2>1. op \in {"first", "again", "near", "edit"} /\ op' \in {op, "return", "crashed"} /\ q' = q
    BY <1>4, StepShape
  <2>2. q.api # "group"
    BY <2>1 DEF TypeOK, CallTypeOK, NumberCall, NearCall, EditCall
  <2>3. UNCHANGED vmsize
    BY <1>4 DEF EngineStep, ScanStep, EditNull, EditSlide, EditNext, EditDone, target
  <2> QED
    BY <2>1, <2>2, <2>3 DEF GroupInv, InGroup
<1>5. CASE Return
  BY <1>5 DEF Return, GroupInv, InGroup, target
<1>6. CASE Throw
  <2>1. op' = "return" /\ UNCHANGED <<target, float_tolerance, q, regions, todo>>
    BY <1>6 DEF Throw, OutOfMemory, results, settings
  <2>2. CASE op = "group"
    BY <2>1, <2>2, GroupSame DEF InGroup
  <2>3. CASE op # "group"
    <3>1. op \in {"first", "again", "near"}
      BY <1>6, <2>3 DEF Throw, OutOfMemory, Refining
    <3>2. q.api # "group"
      BY <3>1 DEF TypeOK, CallTypeOK, NumberCall, NearCall
    <3> QED
      BY <2>1, <3>2 DEF GroupInv, InGroup, target
  <2> QED
    BY <2>2, <2>3
<1>7. CASE Game
  <2>1. op = "idle" /\ op' = op /\ UNCHANGED vmsize
    BY <1>7 DEF Game, GameStep, GameWrites, GameUnmaps, engineVars
  <2> QED
    BY <2>1 DEF GroupInv, InGroup
<1> QED
  BY <1>1, <1>2, <1>3, <1>4, <1>5, <1>6, <1>7 DEF Next, Work, Crashed

LEMMA AddrFinite == IsFiniteSet(Addr)
<1> DEFINE Cells == {b .. (b + Size[b] - 1) : b \in Bases}
           f == [b \in Bases |-> b .. (b + Size[b] - 1)]
<1>1. f \in Surjection(Bases, Cells)
  BY DEF Surjection
<1>2. IsFiniteSet(Cells)
  BY <1>1, MemoryAssumption, FS_Surjection
<1>3. \A T \in Cells : IsFiniteSet(T)
  <2> SUFFICES ASSUME NEW b \in Bases PROVE IsFiniteSet(b .. (b + Size[b] - 1))
    OBVIOUS
  <2>1. b \in Int /\ b + Size[b] - 1 \in Int
    BY MemoryAssumption
  <2> QED
    BY <2>1, FS_Interval
<1> QED
  BY <1>2, <1>3, FS_UNION DEF Addr

(* No more than MaxAnchors matches: the scan returns all of them.          *)
LEMMA AllAnchors ==
  ASSUME Uncut, NEW a \in AnchorPlaces
  PROVE  a \in AnchorMatches(q, q.anchor)
<1> DEFINE below == {c \in AnchorPlaces : c < a}
<1>1. IsFiniteSet(AnchorPlaces) /\ AnchorPlaces \subseteq Nat
  BY AddrFinite, AddrNat, FS_Subset DEF AnchorPlaces
<1>2. below \subseteq AnchorPlaces /\ a \notin below
  BY <1>1
<1>3. Cardinality(below) < Cardinality(AnchorPlaces)
  <2>1. /\ Cardinality(below) <= Cardinality(AnchorPlaces)
        /\ Cardinality(below) = Cardinality(AnchorPlaces) => AnchorPlaces = below
        /\ IsFiniteSet(below)
    BY <1>1, <1>2, FS_Subset
  <2>2. Cardinality(below) \in Nat /\ Cardinality(AnchorPlaces) \in Nat
    BY <1>1, <2>1, FS_CardinalityType
  <2> QED
    BY <1>2, <2>1, <2>2
<1>4. Cardinality(below) < MaxAnchors
  <2>1. Cardinality(below) \in Nat /\ Cardinality(AnchorPlaces) \in Nat
    BY <1>1, <1>2, FS_Subset, FS_CardinalityType
  <2> QED
    BY <1>3, <2>1, TypesAssumption DEF Uncut
<1> QED
  BY <1>4 DEF AnchorMatches, AnchorPlaces, AnchorPlace

(* A group search in memory that holds still finds every place where the   *)
(* items stand in sequence and the scan for the anchor looks, unless there *)
(* are more than MaxAnchors matches of the anchor; also where the limit,   *)
(* the time or the memory ends it early, of the anchors it came to.        *)
THEOREM GroupIsComplete ==
  ASSUME {"write", "unmap"} \cap Faults = {}
  PROVE  Spec => [](Uncut => GroupFindsAll)
<1>1. Init => GroupInv
  BY DEF Init, GroupInv, InGroup
<1>2. TypeOK /\ GroupInv /\ [Next]_vars => GroupInv'
  BY GroupNext
<1>3. TypeOK /\ GroupInv => (Uncut => GroupFindsAll)
  <2> SUFFICES ASSUME TypeOK, GroupInv, Uncut, op = "return", q.api = "group",
                      NEW a \in Addr, GroupFits(a), GroupMatches(a),
                      InRange(AnchorOf(a), q.range), AnchorOf(a) \notin todo,
                      (AnchorOf(a) - q.range.start) % TypeLen[q.items[q.anchor].type] = 0
               PROVE  a \in Listed
    BY DEF GroupFindsAll
  <2>1. q \in GroupCall /\ q.anchor \in DOMAIN q.items
    BY DEF GroupInv, InGroup
  <2>2. CompareValueAtAddress(AnchorOf(a), q.items[q.anchor])
    BY <2>1 DEF GroupMatches, AnchorOf
  <2>3. AnchorOf(a) \in Addr
    <3>1. TypeLen[q.items[q.anchor].type] \in Nat \ {0}
      BY <2>1, ItemsType, TypesAssumption
    <3>2. AnchorOf(a) \in Nat
      BY <2>1, ItemsType, AddrNat DEF AnchorOf
    <3>3. Live(AnchorOf(a))
      <4>1. 0 \in 0 .. (TypeLen[q.items[q.anchor].type] - 1) /\ AnchorOf(a) + 0 = AnchorOf(a)
        BY <3>1, <3>2
      <4> QED
        BY <2>2, <4>1 DEF CompareValueAtAddress, Readable
    <3>4. PICK b \in Bases : b <= AnchorOf(a) /\ AnchorOf(a) < b + Size[b]
      BY <3>3 DEF Live, GroupInv
    <3>5. AnchorOf(a) \in b .. (b + Size[b] - 1)
      BY <3>2, <3>4, MemoryAssumption
    <3> QED
      BY <3>5 DEF Addr
  <2>4. AnchorOf(a) \in AnchorMatches(q, q.anchor)
    BY <2>2, <2>3, AllAnchors DEF AnchorPlaces, AnchorPlace
  <2> QED
    BY <2>4, ListedDef DEF GroupInv, InGroup, Stands, ListedShows
<1> QED
  BY <1>1, <1>2, <1>3, TypeCorrect, PTL DEF Spec
=============================================================================
