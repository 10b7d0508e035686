------------------------------- MODULE MemScan -------------------------------
(***************************************************************************)
(* JJMemoryEngine (src/MemScan.h): the search engine that H5GG puts on a   *)
(* game's memory, and the memory of the game it searches.                  *)
(*                                                                         *)
(* The engine is single threaded (every call runs to its end on the web    *)
(* thread) but the game is not: its threads write, unmap and map memory    *)
(* between any two reads of the engine.  A call is therefore a sequence of *)
(* steps: one for each region it loads and one for each iteration of the   *)
(* loop over that region.  op says which loop the engine is in; "return"   *)
(* is the engine handing control back to its caller (module H5gg).         *)
(*                                                                         *)
(* Memory is a function from addresses to cells (the digits, base Radix,   *)
(* of the values stored there); a type is a length in cells.               *)
(*                                                                         *)
(* A definition whose name is that of the next one with a word after it    *)
(* (StridesShort before Strides) is that definition with an error in it;   *)
(* the specification does not use it.                                      *)
(***************************************************************************)
EXTENDS Integers, Sequences, FiniteSets, FiniteSetsExt, Lists

CONSTANTS
  Bases,            \* base addresses of the game's regions
  Size,             \* Size[b]: bytes of region b when all of it is mapped
  Writable,         \* the regions mapped writable
  Stack,            \* the engine's own stack, when it searches its own task
  PageSize,         \* PAGE_SIZE
  Radix,            \* a cell holds a number in 0 .. Radix-1
  Types,            \* the value types: I8 .. F64
  TypeLen,          \* JJ_Search_Type_Len
  FloatTypes,       \* the types searched with a tolerance
  MaxSearchResults, \* MAX_SEARCH_RESULTS
  MaxAnchors,       \* the 10000 anchors a group search considers
  Faults,           \* what may go wrong, a subset of FaultKinds
  NoType,           \* JJ_Search_Type_Error, the type number 0
  NULL              \* a null region pointer

FaultKinds == {"write",   \* the game writes its memory while a call runs
               "unmap",   \* the game unmaps and maps pages
               "remap",   \* vm_remap fails for one region
               "timeout", \* a group search runs into its time limit
               "nomem"}   \* std::bad_alloc

ASSUME MemoryAssumption ==
  /\ Bases \subseteq Nat /\ IsFiniteSet(Bases)
  /\ Size \in [Bases -> Nat]
  /\ Writable \subseteq Bases /\ Stack \subseteq Bases
  /\ PageSize \in Nat \ {0} /\ Radix \in Nat \ {0}

ASSUME TypesAssumption ==
  /\ TypeLen \in [Types -> Nat \ {0}]
  /\ FloatTypes \subseteq Types
  /\ MaxSearchResults \in Nat /\ MaxAnchors \in Nat
  /\ NoType \notin Types
  /\ NULL \notin [base: Nat, size: Nat, slides: Seq(Nat), types: Seq(Types \cup {NoType})]

ASSUME FaultsAssumption == Faults \subseteq FaultKinds

VARIABLES
  (* the game *)
  mem,                \* mem[a]: the cell at address a
  vmsize,             \* vmsize[b]: bytes of region b that are mapped now
  (* the fields of JJMemoryEngine *)
  regions,            \* result->regions: result_region pointers, or NULL
  count,              \* result->count
  cache,              \* the member map "regions": size by base, 0 if absent
  firstScanDone,
  float_tolerance,
  lastNumberType,
  memoryLimitReached,
  (* the call in progress *)
  op,                 \* the loop the engine is in
  q,                  \* the arguments of the call
  todo,               \* regions (first) or anchors (group) still to examine
  i,                  \* index in regions (again, near, edit)
  j,                  \* offset (first) or index in slides (again, near, edit)
  mapsize,            \* bytes of the current region mapped in, 0 if none is
  newRegion,          \* the result_region under construction, or NULL
  newCount,
  lastpos, lastold,   \* JJNearBySearch: end of the last window, partners used
  (* history, read by properties only *)
  matched             \* <<a, t>>: a search matched the value at a as a t

target == <<mem, vmsize>>
results == <<regions, count>>
settings == <<cache, firstScanDone, float_tolerance, lastNumberType>>
frame == <<i, j, mapsize, newRegion, newCount, lastpos, lastold>>
engineVars == <<results, settings, memoryLimitReached, op, q, todo, frame, matched>>

Region == [base: Nat, size: Nat, slides: Seq(Nat), types: Seq(Types \cup {NoType})]
Ops == {"idle", "first", "again", "near", "group", "edit", "return", "crashed"}
Addr == UNION {b .. (b + Size[b] - 1) : b \in Bases}

-----------------------------------------------------------------------------
(* Helpers *)

(* The number that cells 0, 1, ... spell, little endian, and the value of  *)
(* type t stored at address a.                                             *)
Spelled(cells) == MapThenSumSet(LAMBDA k : cells[k] * Radix^k, DOMAIN cells)
Value(a, t) == Spelled([k \in 0 .. (TypeLen[t] - 1) |-> mem[a + k]])

Tolerance(t) == IF t \in FloatTypes THEN float_tolerance ELSE 0

(* One comparison of ScanData: the value lies in the range searched for. *)
Hit(a, t, want) == Value(a, t) \in (want.lo - Tolerance(t)) .. (want.hi + Tolerance(t))

(* The positions at which ScanData, called again and again from position   *)
(* start, would stop before end.                                           *)
StridesShort(start, end, len) == {p \in start .. (end - len - 1) : (p - start) % len = 0}
Strides(start, end, len) == {p \in start .. (end - len) : (p - start) % len = 0}

Live(a) == \E b \in Bases : b <= a /\ a < b + vmsize[b]
Readable(a, len) == \A k \in 0 .. (len - 1) : Live(a + k)

(* loadRegion maps the pages up to the first one it cannot read; 0 is the  *)
(* NULL buffer.  A failed vm_remap is NULL too.  In its own process it     *)
(* reads a region tagged MALLOC_NANO in place instead: that shows the same *)
(* cells, and only the failure of vm_remap is not there.                   *)
LoadRegion(base, size) ==
  {n \in 0 .. size : /\ \A s \in 0 .. (n - 1) : s % PageSize = 0 => Live(base + s)
                     /\ n < size => n % PageSize = 0 /\ ~Live(base + n)}
  \cup (IF "remap" \in Faults THEN {0} ELSE {})

(* vm_remap maps whole pages: reading beyond them is undefined. *)
Extent == ((mapsize + PageSize - 1) \div PageSize) * PageSize

Smaller(m, n) == IF m <= n THEN m ELSE n
Larger(m, n) == IF m >= n THEN m ELSE n

Address(r, k) == r.base + r.slides[k]
InRangeClosed(a, range) == range.start <= a /\ a <= range.end
InRange(a, range) == range.start <= a /\ a < range.end
FreshWithTypes(base, size) ==
  [base |-> base, size |-> size, slides |-> <<>>,
   types |-> IF op = "again" THEN regions[i].types ELSE <<>>]
Fresh(base, size) == [base |-> base, size |-> size, slides |-> <<>>, types |-> <<>>]

(* slides.push_back on newRegion, which is allocated at its first result. *)
PushSlide(base, size, slide) ==
  LET r == IF newRegion = NULL THEN Fresh(base, size) ELSE newRegion
  IN newRegion' = [r EXCEPT !.slides = Append(@, slide)]

(* What the scan of one region leaves behind for the next. *)
Unloaded == /\ mapsize' = 0 /\ j' = 0 /\ newRegion' = NULL
            /\ lastpos' = 0 /\ lastold' = 0

Crash == op' = "crashed" /\ UNCHANGED <<results, settings, memoryLimitReached,
                                        q, todo, frame, matched>>

CompactKeepsCount ==
  /\ \E g \in Sorted({n \in DOMAIN regions : regions[n] # NULL}) :
       regions' = [n \in DOMAIN g |-> regions[g[n]]]
  /\ op' = "return" /\ UNCHANGED count
CompactKeepsHoles == count' = newCount /\ op' = "return" /\ UNCHANGED regions
CompactOneShort ==
  /\ \E g \in Sorted({n \in DOMAIN regions : regions[n] # NULL}) :
       regions' = [n \in DOMAIN g |-> regions[g[n]]]
  /\ op' = "return" /\ count' = newCount - 1

(* erase(remove(NULL)) and the new count, at the end of a refining search. *)
Compact ==
  /\ \E g \in Sorted({n \in DOMAIN regions : regions[n] # NULL}) :
       regions' = [n \in DOMAIN g |-> regions[g[n]]]
  /\ count' = newCount
  /\ op' = "return"

ReplaceRegionKeeps(r) == UNCHANGED regions /\ i' = i + 1

(* regions[i] is replaced by what was kept of it. *)
ReplaceRegion(r) == regions' = [regions EXCEPT ![i] = r] /\ i' = i + 1

StartFrame == /\ i' = 1 /\ newCount' = 0 /\ Unloaded

-----------------------------------------------------------------------------
(* FirstScan *)

(* The regions vm_region_recurse_64 returns: the one range.start lies in,  *)
(* those after it, and the first one at or beyond range.end.               *)
Visited(range) ==
  LET found == {b \in Bases : vmsize[b] > 0 /\ b + vmsize[b] > range.start}
  IN IF range.start < range.end
     THEN {b \in found : \A c \in found : c < b => c < range.end}
     ELSE {}

JJScanMemory(query) ==
  /\ q' = query /\ lastNumberType' = query.type
  /\ StartFrame
  /\ \/ /\ firstScanDone
        /\ op' = "again" /\ UNCHANGED <<cache, todo>>
     \/ /\ ~firstScanDone
        /\ op' = "first"
        /\ cache' = [b \in Bases |-> IF b \in Visited(query.range) \cap (Writable \ Stack)
                                     THEN vmsize[b] ELSE cache[b]]
        /\ todo' = {b \in Bases : cache'[b] > 0}
  /\ UNCHANGED <<results, firstScanDone, float_tolerance, memoryLimitReached, matched>>

(* The regions, and the anchors of a group search, are taken in ascending order. *)
Current(a) == a \in todo /\ \A c \in todo : a <= c

LeaveRegion(b) ==
  /\ regions' = IF newRegion = NULL THEN regions ELSE Append(regions, newRegion)
  /\ todo' = todo \ {b}
  /\ Unloaded

(* ScanRegion: nothing once the limit is reached, else load the region. *)
FirstLoad(b) ==
  /\ op = "first" /\ mapsize = 0 /\ Current(b)
  /\ \/ /\ memoryLimitReached
        /\ todo' = todo \ {b} /\ UNCHANGED mapsize
     \/ /\ ~memoryLimitReached
        /\ mapsize' \in LoadRegion(b, cache[b])
        /\ todo' = IF mapsize' = 0 THEN todo \ {b} ELSE todo
  /\ UNCHANGED <<results, settings, memoryLimitReached, op, q, i, j, newRegion,
                 newCount, lastpos, lastold, matched>>

FirstHits(b) == {p \in Strides(j, mapsize, TypeLen[q.type]) : Hit(b + p, q.type, q.want)}
AtLimitLate == count > MaxSearchResults
AtLimit == count >= MaxSearchResults
RoomLeft == mapsize - j >= TypeLen[q.type]

FirstLimit(b) ==
  /\ op = "first" /\ mapsize > 0 /\ Current(b) /\ RoomLeft /\ AtLimit
  /\ memoryLimitReached' = TRUE
  /\ LeaveRegion(b)
  /\ UNCHANGED <<count, settings, op, q, i, newCount, matched>>

FirstFound(b) ==
  /\ op = "first" /\ mapsize > 0 /\ Current(b) /\ ~AtLimit
  /\ \E p \in FirstHits(b) :
       /\ \A h \in FirstHits(b) : p <= h
       /\ InRange(b + p, q.range)
       /\ PushSlide(b, mapsize, p)
       /\ j' = p + TypeLen[q.type]
       /\ matched' = {m \in matched : m[1] # b + p} \cup {<<b + p, q.type>>}
  /\ count' = count + 1
  /\ UNCHANGED <<regions, settings, memoryLimitReached, op, q, todo, i, mapsize,
                 newCount, lastpos, lastold>>

(* No further hit, or the next one lies outside the range: break. *)
FirstExhausted(b) ==
  /\ op = "first" /\ mapsize > 0 /\ Current(b) /\ (RoomLeft => ~AtLimit)
  /\ \A p \in FirstHits(b) :
       (\A h \in FirstHits(b) : p <= h) => ~InRange(b + p, q.range)
  /\ LeaveRegion(b)
  /\ UNCHANGED <<count, settings, memoryLimitReached, op, q, i, newCount, matched>>

FirstDoneForgets ==
  /\ op = "first" /\ todo = {} /\ op' = "return"
  /\ UNCHANGED <<results, settings, memoryLimitReached, q, todo, frame, matched>>
FirstDone ==
  /\ op = "first" /\ todo = {}
  /\ firstScanDone' = TRUE
  /\ op' = "return"
  /\ UNCHANGED <<results, cache, float_tolerance, lastNumberType, memoryLimitReached,
                 q, todo, frame, matched>>

-----------------------------------------------------------------------------
(* ScanAgain *)

Refining == op \in {"again", "near"} /\ i \in DOMAIN regions

(* The loop reads region->slides of a pointer that may be NULL. *)
RefineNull == Refining /\ regions[i] = NULL /\ Crash

OutOfRange(r, range) == r.base + r.size < range.start \/ r.base > range.end

(* A region outside the range is skipped: it stays in the list, uncounted. *)
AgainSkipStays ==
  /\ op = "again" /\ Refining /\ mapsize = 0
  /\ regions[i] # NULL /\ OutOfRange(regions[i], q.range)
  /\ UNCHANGED engineVars
AgainSkip ==
  /\ op = "again" /\ Refining /\ mapsize = 0
  /\ regions[i] # NULL /\ OutOfRange(regions[i], q.range)
  /\ i' = i + 1
  /\ UNCHANGED <<results, settings, memoryLimitReached, op, q, todo, j, mapsize,
                 newRegion, newCount, lastpos, lastold, matched>>

RefineLoad ==
  /\ Refining /\ mapsize = 0 /\ regions[i] # NULL
  /\ op = "again" => ~OutOfRange(regions[i], q.range)
  /\ \E m \in LoadRegion(regions[i].base, regions[i].size) :
       \/ /\ m = 0
          /\ ReplaceRegion(NULL)
          /\ UNCHANGED <<mapsize, j>>
       \/ /\ m > 0
          /\ mapsize' = m /\ j' = 1
          /\ UNCHANGED <<regions, i>>
  /\ UNCHANGED <<count, settings, memoryLimitReached, op, q, todo, newRegion,
                 newCount, lastpos, lastold, matched>>

(* A value that ends beyond the mapped pages is read all the same: the     *)
(* read faults, or compares whatever lies there.                           *)
Overread(pos) == pos + TypeLen[q.type] > Extent

Slide == regions[i].slides[j]
SlideAddress == Address(regions[i], j)
AtSlide == Refining /\ mapsize > 0 /\ j \in DOMAIN regions[i].slides
Verdicts == IF Overread(Slide) THEN BOOLEAN ELSE {Hit(SlideAddress, q.type, q.want)}

AgainKeep ==
  /\ op = "again" /\ AtSlide
  /\ InRange(SlideAddress, q.range)
  /\ TRUE \in Verdicts
  /\ PushSlide(regions[i].base, regions[i].size, Slide)
  /\ newCount' = newCount + 1
  /\ matched' = {m \in matched : m[1] # SlideAddress} \cup {<<SlideAddress, q.type>>}
  /\ j' = j + 1
  /\ UNCHANGED <<results, settings, memoryLimitReached, op, q, todo, i, mapsize,
                 lastpos, lastold>>

AgainDrop ==
  /\ op = "again" /\ AtSlide
  /\ InRange(SlideAddress, q.range) => FALSE \in Verdicts
  /\ j' = j + 1
  /\ UNCHANGED <<results, settings, memoryLimitReached, op, q, todo, i, mapsize,
                 newRegion, newCount, lastpos, lastold, matched>>

AgainFault ==
  /\ op = "again" /\ AtSlide
  /\ InRange(SlideAddress, q.range) /\ Overread(Slide)
  /\ Crash

RefineNext ==
  /\ Refining /\ mapsize > 0 /\ j > Len(regions[i].slides)
  /\ ReplaceRegion(newRegion)
  /\ Unloaded
  /\ UNCHANGED <<count, settings, memoryLimitReached, op, q, todo, newCount, matched>>

RefineDone ==
  /\ op \in {"again", "near"} /\ i > Len(regions)
  /\ Compact
  /\ UNCHANGED <<settings, memoryLimitReached, q, todo, frame, matched>>

-----------------------------------------------------------------------------
(* JJNearBySearch *)

JJNearBySearch(query) ==
  /\ q' = query /\ op' = "near"
  /\ StartFrame
  /\ UNCHANGED <<results, settings, memoryLimitReached, todo, matched>>

(* The distance, rounded to a multiple of the type's length, plus one.     *)
Reach == q.near - (q.near % TypeLen[q.type]) + TypeLen[q.type]

HasType(r) == r.types # <<>>

(* The window around the current slide, less what earlier windows covered. *)
WindowStart == Larger(Larger(0, Slide - Reach), lastpos)
WindowEnd == Smaller(Slide + Reach, regions[i].size)
Probes == Strides(WindowStart, WindowEnd, TypeLen[q.type])
Faulty == {p \in Probes : Overread(p)}
WindowHits == {p \in Probes \ Faulty : Hit(regions[i].base + p, q.type, q.want)}

(* The old slides, not used by an earlier window, near the first or last hit. *)
Partners(hits) ==
  {o \in (lastold + 1) .. Len(regions[i].slides) :
     \E h \in hits : /\ (\A g \in hits : h <= g) \/ (\A g \in hits : g <= h)
                     /\ h - Reach < regions[i].slides[o]
                     /\ regions[i].slides[o] < h + Reach}

(* The type t that ends up in matched[slide]: an old slide keeps its old    *)
(* type even when it was found again.  The types of a region may be fewer   *)
(* than its slides (PushGroup); then what lies behind them is read.         *)
FoundAs(slide, t, partners) ==
  LET same == {o \in partners : regions[i].slides[o] = slide}
  IN IF same = {} THEN t = q.type
     ELSE \E o \in same :
            /\ \A p \in same : p <= o
            /\ ~HasType(regions[i]) => t = lastNumberType
            /\ HasType(regions[i]) /\ o \in DOMAIN regions[i].types => t = regions[i].types[o]

NeedTypeOnce == HasType(regions[i])
NeedType == HasType(regions[i]) \/ q.type # lastNumberType

(* newRegion gets the slides of the window in ascending order. *)
PushFound(keys, partners) ==
  LET r == IF newRegion = NULL THEN Fresh(regions[i].base, regions[i].size) ELSE newRegion
  IN \E g \in Sorted(keys) : \E ty \in [DOMAIN g -> Types \cup {NoType}] :
       /\ \A n \in DOMAIN g : FoundAs(g[n], ty[n], partners)
       /\ newRegion' = [r EXCEPT !.slides = @ \o g,
                                 !.types = IF NeedType THEN @ \o ty ELSE @]
       /\ newCount' = newCount + Len(g)

NearMiss ==
  /\ op = "near" /\ AtSlide
  /\ WindowHits = {}
  /\ j' = j + 1 /\ lastpos' = WindowEnd
  /\ UNCHANGED <<results, settings, memoryLimitReached, op, q, todo, i, mapsize,
                 newRegion, newCount, lastold, matched>>

NearFound ==
  /\ op = "near" /\ AtSlide
  /\ \E stray \in SUBSET Faulty :
       LET hits == WindowHits \cup stray
           partners == Partners(hits)
       IN /\ hits # {}
          /\ PushFound(hits \cup {regions[i].slides[o] : o \in partners}, partners)
          /\ IF partners = {} THEN UNCHANGED lastold
             ELSE lastold' \in partners /\ \A o \in partners : o <= lastold'
          /\ matched' = matched \cup {<<regions[i].base + p, q.type>> : p \in hits}
  /\ j' = j + 1 /\ lastpos' = WindowEnd
  /\ UNCHANGED <<results, settings, memoryLimitReached, op, q, todo, i, mapsize>>

NearFault == op = "near" /\ AtSlide /\ Faulty # {} /\ Crash

-----------------------------------------------------------------------------
(* JJGroupSearch.  An item of the query is a type, the value searched for   *)
(* and its offset: the lengths of the items before it.                     *)

CompareValueAtAddress(a, item) ==
  Readable(a, TypeLen[item.type]) /\ Hit(a, item.type, item.want)

(* findValueInRange: the first MaxAnchors matches of the anchor item. *)
AnchorMatches(query, anchor) ==
  LET item == query.items[anchor]
      all == {a \in Addr : /\ InRange(a, query.range)
                           /\ (a - query.range.start) % TypeLen[item.type] = 0
                           /\ CompareValueAtAddress(a, item)}
  IN {a \in all : Cardinality({c \in all : c < a}) < MaxAnchors}

(* An anchor index out of bounds asks for the item with the fewest         *)
(* estimated matches; the estimate is a sample, so any item may be chosen. *)
Anchors(query) == IF query.anchor \in DOMAIN query.items THEN {query.anchor}
                  ELSE DOMAIN query.items

JJGroupSearch(query) ==
  /\ \E anchor \in Anchors(query) :
       /\ q' = [query EXCEPT !.anchor = anchor]
       /\ todo' = AnchorMatches(query, anchor)
  /\ op' = IF todo' = {} THEN "return" ELSE "group"
  /\ StartFrame
  /\ UNCHANGED <<results, settings, memoryLimitReached, matched>>

GroupFits(a) ==
  IF q.total > 0 THEN a >= q.range.start /\ a + q.total <= q.range.end
  ELSE /\ a >= q.range.start
       /\ \A n \in DOMAIN q.items : a + q.items[n].offset < q.range.end
GroupMatches(a) ==
  \A n \in DOMAIN q.items : CompareValueAtAddress(a + q.items[n].offset, q.items[n])
GroupBaseAfter(anchor) == anchor + q.items[q.anchor].offset
GroupBase(anchor) == anchor - q.items[q.anchor].offset

Last(s) == s[Len(s)]
GroupSlide(r) == [r EXCEPT !.slides = Append(@, 0)]

(* A match whose base address is that of the last region is added to that  *)
(* region; in the mode without a range it always gets a region of its own. *)
PushGroup(base) ==
  IF q.total > 0 /\ regions # <<>> /\ Last(regions).base = base
  THEN regions' = [regions EXCEPT ![Len(regions)] = GroupSlide(@)]
  ELSE regions' = Append(regions, GroupSlide(Fresh(base, q.total)))

GroupFound(anchor) ==
  /\ op = "group" /\ ~memoryLimitReached /\ Current(anchor)
  /\ GroupFits(GroupBase(anchor)) /\ GroupMatches(GroupBase(anchor))
  /\ q.total > 0 /\ regions # <<>> => Last(regions) # NULL
  /\ PushGroup(GroupBase(anchor))
  /\ count' = count + 1
  /\ memoryLimitReached' = (q.total > 0 /\ count' >= MaxSearchResults)
  /\ matched' = {m \in matched : m[1] # GroupBase(anchor)}
                 \cup {<<GroupBase(anchor), q.items[1].type>>}
  /\ todo' = todo \ {anchor}
  /\ UNCHANGED <<settings, op, q, frame>>

GroupMiss(anchor) ==
  /\ op = "group" /\ ~memoryLimitReached /\ Current(anchor)
  /\ ~(GroupFits(GroupBase(anchor)) /\ GroupMatches(GroupBase(anchor)))
  /\ todo' = todo \ {anchor}
  /\ UNCHANGED <<results, settings, memoryLimitReached, op, q, frame, matched>>

(* The anchors are examined, or the limit or the time is up; the loop that *)
(* shrinks every region then reads through each pointer.                   *)
GroupOver == \/ todo = {} \/ memoryLimitReached \/ "timeout" \in Faults
NullHole == \E n \in DOMAIN regions : regions[n] = NULL

GroupDone ==
  /\ op = "group" /\ GroupOver /\ ~NullHole
  /\ op' = "return"
  /\ UNCHANGED <<results, settings, memoryLimitReached, q, todo, frame, matched>>

GroupNull ==
  /\ op = "group" /\ NullHole
  /\ \/ GroupOver
     \/ \E a \in todo : /\ Current(a) /\ q.total > 0 /\ Last(regions) = NULL
                        /\ ~memoryLimitReached
                        /\ GroupFits(GroupBase(a)) /\ GroupMatches(GroupBase(a))
  /\ Crash

-----------------------------------------------------------------------------
(* std::bad_alloc, thrown by loadRegion (KERN_NO_SPACE) or by a vector that *)
(* grows: the region under construction is lost, all else stays as it is.  *)
OutOfMemory ==
  /\ "nomem" \in Faults
  /\ \/ op \in {"first", "group"} /\ todo # {}
     \/ Refining
  /\ op' = "return"
  /\ UNCHANGED <<target, results, settings, memoryLimitReached, q, todo, frame, matched>>

-----------------------------------------------------------------------------
(* JJWriteAll *)

JJWriteAll(query) ==
  /\ q' = query /\ op' = "edit"
  /\ StartFrame
  /\ UNCHANGED <<results, settings, memoryLimitReached, todo, matched, target>>

Editing == op = "edit" /\ i \in DOMAIN regions

EditNull == Editing /\ regions[i] = NULL /\ Crash /\ UNCHANGED target

Writes(a, len) == \A c \in a .. (a + len - 1) :
                    \E b \in Writable : b <= c /\ c < b + vmsize[b]

(* writeMemory: the cells that spell the value; j counts from 0 here. *)
EditSlideCounts ==
  /\ Editing /\ regions[i] # NULL /\ j + 1 \in DOMAIN regions[i].slides
  /\ LET a == Address(regions[i], j + 1)
         len == TypeLen[q.type]
     IN IF Writes(a, len)
        THEN \E cells \in [0 .. (len - 1) -> 0 .. (Radix - 1)] :
               /\ Spelled(cells) = q.want.lo % Radix^len
               /\ mem' = [c \in Addr |-> IF c \in a .. (a + len - 1)
                                        THEN cells[c - a] ELSE mem[c]]
        ELSE mem' = mem
  /\ newCount' = newCount + 1 /\ j' = j + 1
  /\ UNCHANGED <<vmsize, results, settings, memoryLimitReached, op, q, todo, i,
                 mapsize, newRegion, lastpos, lastold, matched>>
EditSlide ==
  /\ Editing /\ regions[i] # NULL /\ j + 1 \in DOMAIN regions[i].slides
  /\ LET a == Address(regions[i], j + 1)
         len == TypeLen[q.type]
     IN IF Writes(a, len)
        THEN /\ \E cells \in [0 .. (len - 1) -> 0 .. (Radix - 1)] :
                  /\ Spelled(cells) = q.want.lo % Radix^len
                  /\ mem' = [c \in Addr |-> IF c \in a .. (a + len - 1)
                                           THEN cells[c - a] ELSE mem[c]]
             /\ newCount' = newCount + 1
        ELSE UNCHANGED <<mem, newCount>>
  /\ j' = j + 1
  /\ UNCHANGED <<vmsize, results, settings, memoryLimitReached, op, q, todo, i,
                 mapsize, newRegion, lastpos, lastold, matched>>

EditNextEarly ==
  /\ Editing /\ regions[i] # NULL /\ j >= Len(regions[i].slides) - 1
  /\ i' = i + 1 /\ j' = 0
  /\ UNCHANGED <<target, results, settings, memoryLimitReached, op, q, todo,
                 mapsize, newRegion, newCount, lastpos, lastold, matched>>
EditNext ==
  /\ Editing /\ regions[i] # NULL /\ j >= Len(regions[i].slides)
  /\ i' = i + 1 /\ j' = 0
  /\ UNCHANGED <<target, results, settings, memoryLimitReached, op, q, todo,
                 mapsize, newRegion, newCount, lastpos, lastold, matched>>

EditDone ==
  /\ op = "edit" /\ i > Len(regions)
  /\ op' = "return"
  /\ UNCHANGED <<target, results, settings, memoryLimitReached, q, todo, frame, matched>>

-----------------------------------------------------------------------------
(* The constructor, at the start and for the engine that replaces this one, *)
(* and the steps of a call                                                 *)

Construct ==
  /\ regions = <<>> /\ count = 0
  /\ cache = [b \in Bases |-> 0]
  /\ firstScanDone = FALSE /\ float_tolerance = 0 /\ lastNumberType = NoType
  /\ memoryLimitReached = FALSE

ReconstructKeepsLimit ==
  /\ regions' = <<>> /\ count' = 0
  /\ cache' = [b \in Bases |-> 0]
  /\ firstScanDone' = FALSE /\ float_tolerance' = 0 /\ lastNumberType' = NoType
  /\ UNCHANGED memoryLimitReached
Reconstruct ==
  /\ regions' = <<>> /\ count' = 0
  /\ cache' = [b \in Bases |-> 0]
  /\ firstScanDone' = FALSE /\ float_tolerance' = 0 /\ lastNumberType' = NoType
  /\ memoryLimitReached' = FALSE

ScanStep ==
  /\ \/ \E b \in Bases : FirstLoad(b) \/ FirstLimit(b) \/ FirstFound(b) \/ FirstExhausted(b)
     \/ FirstDone
     \/ RefineNull \/ AgainSkip \/ RefineLoad \/ RefineNext \/ RefineDone
     \/ AgainKeep \/ AgainDrop \/ AgainFault
     \/ NearMiss \/ NearFound \/ NearFault
     \/ \E anchor \in todo : GroupFound(anchor) \/ GroupMiss(anchor)
     \/ GroupDone \/ GroupNull
  /\ UNCHANGED target

EngineStep == ScanStep \/ EditNull \/ EditSlide \/ EditNext \/ EditDone

(* The game, at any moment. *)
GameWrites ==
  /\ op = "idle" \/ "write" \in Faults
  /\ \E a \in Addr, c \in 0 .. (Radix - 1) : Live(a) /\ mem[a] # c /\ mem' = [mem EXCEPT ![a] = c]
  /\ UNCHANGED <<vmsize, engineVars>>

GameUnmaps ==
  /\ "unmap" \in Faults
  /\ \E b \in Bases : \E n \in 0 .. Size[b] :
       /\ n # vmsize[b] /\ n % PageSize = 0
       /\ vmsize' = [vmsize EXCEPT ![b] = n]
  /\ UNCHANGED <<mem, engineVars>>

GameStep == GameWrites \/ GameUnmaps
=============================================================================
