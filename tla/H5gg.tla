-------------------------------- MODULE H5gg --------------------------------
(***************************************************************************)
(* h5ggEngine (src/h5gg.h): the object that page scripts call as h5gg, and *)
(* the search session it keeps around the engine of module MemScan.        *)
(*                                                                         *)
(* A call is made when the engine is idle; its guards are those under      *)
(* which the call reaches the engine (the others only raise an alert).     *)
(* Return is the end of the call: the code after the try block, which runs *)
(* whether or not the engine threw.                                        *)
(***************************************************************************)
EXTENDS MemScan

CONSTANTS
  NumberQueries, NearQueries, GroupQueries, EditQueries, \* the calls a script makes
  Tolerances,                                            \* arguments of setFloatTolerance
  MaxList  \* bound of the model: the longest list a nearby or group search starts on

Interval == [lo: Int, hi: Int]
AddrRange == [start: Nat, end: Nat]

(* The calls, with their arguments parsed. *)
NumberCall == [api: {"number"}, type: Types, want: Interval, range: AddrRange]
NearCall == [api: {"near"}, type: Types, want: Interval, near: Nat \ {0, 1}]
GroupCall == [api: {"group"}, type: Types, range: AddrRange, total: Nat, anchor: Int,
              items: Seq([type: Types, want: Interval, offset: Nat])]
EditCall == [api: {"edit"}, type: Types, want: [lo: Nat, hi: Nat]]

ASSUME QueriesAssumption == /\ NumberQueries \subseteq NumberCall
                            /\ NearQueries \subseteq NearCall
                            /\ GroupQueries \subseteq GroupCall
                            /\ EditQueries \subseteq EditCall

ASSUME GroupAssumption ==
  \A query \in GroupQueries :
    /\ Len(query.items) >= 2
    /\ query.items[1].offset = 0
    /\ \A n \in 2 .. Len(query.items) :
         query.items[n].offset = query.items[n - 1].offset + TypeLen[query.items[n - 1].type]

ASSUME TolerancesAssumption == Tolerances \subseteq Nat /\ MaxList \in Nat

VARIABLES firstSearchDone, lastSearchType

session == <<firstSearchDone, lastSearchType>>
vars == <<target, engineVars, session>>

Init ==
  /\ mem \in [Addr -> 0 .. (Radix - 1)]
  /\ vmsize = Size
  /\ Construct
  /\ op = "idle" /\ q = NULL /\ todo = {}
  /\ i = 1 /\ j = 0 /\ mapsize = 0 /\ newRegion = NULL /\ newCount = 0
  /\ lastpos = 0 /\ lastold = 0
  /\ matched = {}
  /\ firstSearchDone = FALSE /\ lastSearchType = NoType

-----------------------------------------------------------------------------
(* Every result in the list, by region and index. *)
Slots == UNION {{<<n, k>> : k \in DOMAIN regions[n].slides} :
                  n \in {n \in DOMAIN regions : regions[n] # NULL}}
Bounded == Cardinality(Slots) <= MaxList

(* The calls.  searchNumber, searchNearby and editAll refuse an empty list. *)

SearchNumber(query) ==
  /\ op = "idle"
  /\ ~(firstSearchDone /\ count = 0)
  /\ JJScanMemory(query)
  /\ UNCHANGED <<target, session>>

SearchNearby(query) ==
  /\ op = "idle"
  /\ count # 0 /\ Bounded
  /\ JJNearBySearch(query)
  /\ UNCHANGED <<target, session>>

SearchGroup(query) ==
  /\ op = "idle" /\ Bounded
  /\ JJGroupSearch(query)
  /\ UNCHANGED <<target, session>>

EditAll(query) ==
  /\ op = "idle"
  /\ count # 0
  /\ JJWriteAll(query)
  /\ UNCHANGED session

SearchTypeFirst == IF firstSearchDone THEN lastSearchType ELSE q.type
SearchTypeAfter == IF q.api = "edit" THEN lastSearchType ELSE q.type

Return ==
  /\ op = "return"
  /\ op' = "idle" /\ q' = NULL /\ todo' = {} /\ StartFrame
  /\ firstSearchDone' = (firstSearchDone \/ q.api \in {"number", "group"})
  /\ lastSearchType' = SearchTypeAfter
  /\ matched' = {m \in matched : \E n \in DOMAIN regions :
                   regions[n] # NULL /\ \E k \in DOMAIN regions[n].slides :
                                          m[1] = Address(regions[n], k)}
  /\ UNCHANGED <<target, results, settings, memoryLimitReached>>

SetFloatTolerance(d) ==
  /\ op = "idle"
  /\ float_tolerance' = d
  /\ UNCHANGED <<target, results, cache, firstScanDone, lastNumberType,
                 memoryLimitReached, op, q, todo, frame, matched, session>>

(* The engine is deleted and a new one is made; lastSearchType stays. *)
ClearResults ==
  /\ op = "idle"
  /\ firstSearchDone' = FALSE
  /\ Reconstruct
  /\ matched' = {}
  /\ UNCHANGED <<target, op, q, todo, frame, lastSearchType>>

(* getResults only reads, but it reads through every region pointer. *)
GetResults ==
  /\ op = "idle" /\ NullHole
  /\ Crash
  /\ UNCHANGED <<target, session>>

Call ==
  \/ \E query \in NumberQueries : SearchNumber(query)
  \/ \E query \in NearQueries : SearchNearby(query)
  \/ \E query \in GroupQueries : SearchGroup(query)
  \/ \E query \in EditQueries : EditAll(query)
  \/ \E d \in Tolerances : SetFloatTolerance(d)
  \/ ClearResults \/ GetResults

Work == (EngineStep /\ UNCHANGED session) \/ Return
Throw == OutOfMemory /\ UNCHANGED session
Game == GameStep /\ UNCHANGED session

(* A crash ends the process, and with it the session. *)
Crashed == op = "crashed" /\ UNCHANGED vars

Next == Call \/ Work \/ Throw \/ Game \/ Crashed

Spec == Init /\ [][Next]_vars
(* The web thread runs a call to its end; it need not throw. *)
FairSpec == Spec /\ WF_vars(Work)

-----------------------------------------------------------------------------
(* What getResults(count, 0) and getResultsCount show. *)

SlotAddress(s) == Address(regions[s[1]], s[2])
Listed == {SlotAddress(s) : s \in Slots}

(* The type getResults gives a result: the one stored with it, else the    *)
(* type of the last search.                                                *)
ReportedType(s) ==
  LET r == regions[s[1]]
  IN IF HasType(r) /\ r.types[s[2]] # NoType THEN r.types[s[2]] ELSE lastSearchType

(* Types of the variables.  Beyond the domains: a loop runs with the       *)
(* arguments of its own call, and a region that is loaded is no null       *)
(* pointer.                                                                *)
GameTypeOK == /\ mem \in [Addr -> 0 .. (Radix - 1)]
              /\ vmsize \in [Bases -> Nat]
ResultsTypeOK == /\ regions \in Seq(Region \cup {NULL})
                 /\ newRegion \in Region \cup {NULL}
                 /\ count \in Nat /\ newCount \in Nat
                 /\ matched \subseteq Nat \X Types
FieldsTypeOK == /\ cache \in [Bases -> Nat]
                /\ firstScanDone \in BOOLEAN /\ memoryLimitReached \in BOOLEAN
                /\ float_tolerance \in Nat
                /\ lastNumberType \in Types \cup {NoType}
                /\ firstSearchDone \in BOOLEAN
                /\ lastSearchType \in Types \cup {NoType}
LoopTypeOK == /\ todo \subseteq Nat
              /\ i \in Nat /\ j \in Nat /\ mapsize \in Nat
              /\ lastpos \in Nat /\ lastold \in Nat
              /\ op \in {"again", "near"} /\ mapsize > 0 =>
                   i \in DOMAIN regions /\ regions[i] # NULL
CallTypeOK == /\ op \in Ops
              /\ op \in {"first", "again"} => q \in NumberCall
              /\ op = "near" => q \in NearCall
              /\ op = "group" => q \in GroupCall /\ q.anchor \in DOMAIN q.items
              /\ op = "edit" => q \in EditCall
              /\ op = "return" => q \in NumberCall \cup NearCall \cup GroupCall \cup EditCall
TypeOK == GameTypeOK /\ ResultsTypeOK /\ FieldsTypeOK /\ LoopTypeOK /\ CallTypeOK

(* Safety *)

(* getResultsCount() is the number of results getResults can return (one   *)
(* per address): a script that reads getResults(getResultsCount(), 0) gets *)
(* that many.                                                              *)
CountIsListed == op = "idle" /\ ~NullHole => count = Cardinality(Listed)

(* Every result is reported with a type under which the last search that   *)
(* kept it matched its value.                                              *)
TypeIsMatched ==
  op = "idle" => \A s \in Slots : <<SlotAddress(s), ReportedType(s)>> \in matched

(* getResultsAndTypes and searchNearby index types by the index of a slide. *)
TypesParallel ==
  \A n \in DOMAIN regions :
    regions[n] # NULL /\ HasType(regions[n]) => Len(regions[n].types) = Len(regions[n].slides)

(* While h5gg says that no search was done, the engine has none to build   *)
(* on: the next searchNumber starts afresh, with room for results, in the  *)
(* regions it finds itself, and no type is left of an earlier search.  A   *)
(* tolerance may be set already.                                           *)
SessionFresh ==
  op = "idle" /\ ~firstSearchDone =>
    /\ regions = <<>> /\ count = 0
    /\ ~firstScanDone /\ ~memoryLimitReached
    /\ cache = [b \in Bases |-> 0] /\ lastNumberType = NoType

(* The results never outgrow the limit that bounds the engine's memory.    *)
LimitRespected == count <= MaxSearchResults

(* No call leaves a null pointer in the list for the next one to read.     *)
NoHoleAtRest == op = "idle" => ~NullHole

(* No search reads through a null pointer or beyond what it has mapped.    *)
NoCrash == op # "crashed"

(* Once a search was done, searchNumber improves: it only removes results. *)
RefineOnlyShrinks ==
  [][firstSearchDone /\ op \in {"first", "again"} => Listed' \subseteq Listed]_vars

(* The next four are about memory that holds still while a call runs.      *)

(* When searchNumber ends, every result lies in the range and holds a      *)
(* value searched for.                                                     *)
ResultsMatch ==
  op = "return" /\ q.api = "number" =>
    \A a \in Listed : /\ q.range.start <= a /\ a < q.range.end
                       /\ Readable(a, TypeLen[q.type])
                       /\ Hit(a, q.type, q.want)

(* A first search finds every aligned value in the range, in every region  *)
(* it may search, unless the limit stops it.                               *)
FirstFindsAll ==
  [][op = "first" /\ op' = "return" /\ ~memoryLimitReached =>
       \A b \in Writable \ Stack : \A p \in 0 .. (vmsize[b] - TypeLen[q.type]) :
         p % TypeLen[q.type] = 0 /\ InRange(b + p, q.range) /\ Hit(b + p, q.type, q.want)
           => b + p \in Listed']_vars

(* A group search finds every place where the items stand in sequence and  *)
(* whose anchor stands where the scan for the anchor looks: in the range,  *)
(* a number of its own lengths from the start.  Where the limit, the time  *)
(* or the memory ends it early, every such place whose anchor it examined. *)
AnchorOf(a) == a + q.items[q.anchor].offset
GroupFindsAll ==
  op = "return" /\ q.api = "group" =>
    \A a \in Addr :
      /\ GroupFits(a) /\ GroupMatches(a)
      /\ InRange(AnchorOf(a), q.range) /\ AnchorOf(a) \notin todo
      /\ (AnchorOf(a) - q.range.start) % TypeLen[q.items[q.anchor].type] = 0
      => a \in Listed

(* editAll modifies every result it can write, and counts those.           *)
EditWritesAll ==
  op = "return" /\ q.api = "edit" =>
    /\ newCount = Cardinality({s \in Slots : Writes(SlotAddress(s), TypeLen[q.type])})
    /\ \A a \in Listed : Writes(a, TypeLen[q.type]) => Value(a, q.type) = q.want.lo

(* Liveness: a call returns, or crashes.                                   *)
CallReturns == op \notin {"idle", "crashed"} ~> op \in {"idle", "crashed"}
=============================================================================
