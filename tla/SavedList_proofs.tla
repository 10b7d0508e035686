--------------------------- MODULE SavedList_proofs ---------------------------
(***************************************************************************)
(* The saved list keeps each address once, in order, an offset moves what  *)
(* it should, and the copy in sessionStorage is never half done: theorems  *)
(* of module SavedList, for any addresses, offsets, batches and lengths.   *)
(***************************************************************************)
EXTENDS SavedList, FiniteSetTheorems, TLAPS

USE SavedAssumption

Once(s) == \A m, n \in DOMAIN s : s[m] = s[n] => m = n
Ascending(s) == \A m, n \in DOMAIN s : m < n => s[m] < s[n]

-----------------------------------------------------------------------------
(* Lists *)

LEMMA ElementsFinite ==
  ASSUME NEW s \in Seq(Int)
  PROVE  IsFiniteSet(Elements(s)) /\ Elements(s) \subseteq Int
<1>1. s \in Surjection(1 .. Len(s), Elements(s))
  BY DEF Surjection, Elements
<1>2. IsFiniteSet(1 .. Len(s))
  BY FS_Interval
<1>3. IsFiniteSet(Elements(s))
  BY <1>1, <1>2, FS_Surjection
<1> QED
  BY <1>3 DEF Elements

LEMMA FunctionIsSeq ==
  ASSUME NEW k \in Nat, NEW S \in SUBSET Int, NEW s \in [1 .. k -> S]
  PROVE  s \in Seq(Int) /\ DOMAIN s = 1 .. k
                         /\ \A n \in DOMAIN s : n \in Int /\ s[n] \in Int
<1>1. s \in [1 .. k -> Int]
  OBVIOUS
<1> QED
  BY <1>1

LEMMA SortedLists ==
  ASSUME NEW S \in SUBSET Int, IsFiniteSet(S), NEW s \in Sorted(S)
  PROVE  s \in Seq(Int) /\ Elements(s) = S /\ Ascending(s) /\ Once(s)
<1>1. Cardinality(S) \in Nat
  BY FS_CardinalityType
<1>2. s \in [1 .. Cardinality(S) -> S]
  BY DEF Sorted
<1>3. s \in Seq(Int) /\ \A n \in DOMAIN s : n \in Int /\ s[n] \in Int
  BY <1>1, <1>2, FunctionIsSeq
<1>4. Ascending(s)
  BY <1>2 DEF Sorted, Ascending
<1>5. Once(s)
  <2> SUFFICES ASSUME NEW m \in DOMAIN s, NEW n \in DOMAIN s, s[m] = s[n] PROVE m = n
    BY DEF Once
  <2>1. m \in Int /\ n \in Int /\ s[m] \in Int
    BY <1>3
  <2>2. ~(m < n) /\ ~(n < m)
    BY <1>4, <2>1 DEF Ascending
  <2> QED
    BY <2>1, <2>2
<1>6. Elements(s) = S
  <2>1. s \in Injection(1 .. Cardinality(S), S)
    BY <1>2, <1>5 DEF Injection, IsInjective, Once
  <2>2. IsFiniteSet(1 .. Cardinality(S)) /\ Cardinality(1 .. Cardinality(S)) = Cardinality(S)
    BY <1>1, FS_Interval
  <2>3. s \in Surjection(1 .. Cardinality(S), S)
    BY <2>1, <2>2, FS_Injection
  <2> QED
    BY <1>2, <2>3 DEF Surjection, Elements
<1> QED
  BY <1>3, <1>4, <1>5, <1>6

(* An order of a finite set lists each of its elements once. *)
LEMMA OrdersOnce ==
  ASSUME NEW S \in SUBSET Int, IsFiniteSet(S), NEW s \in Orders(S)
  PROVE  s \in Seq(Int) /\ Once(s)
<1>1. Cardinality(S) \in Nat
  BY FS_CardinalityType
<1>2. s \in [1 .. Cardinality(S) -> S] /\ Elements(s) = S
  BY DEF Orders
<1>3. s \in Surjection(1 .. Cardinality(S), S)
  BY <1>2 DEF Surjection, Elements
<1>4. IsFiniteSet(1 .. Cardinality(S)) /\ Cardinality(1 .. Cardinality(S)) = Cardinality(S)
  BY <1>1, FS_Interval
<1>5. s \in Injection(1 .. Cardinality(S), S)
  BY <1>3, <1>4, FS_Surjection
<1>6. s \in Seq(Int) /\ DOMAIN s = 1 .. Cardinality(S)
  BY <1>1, <1>2, FunctionIsSeq
<1>7. Once(s)
  BY <1>5, <1>6 DEF Injection, IsInjective, Once
<1> QED
  BY <1>6, <1>7

(* The sublist at the indices that g lists. *)
Part(s, g) == [n \in DOMAIN g |-> s[g[n]]]

LEMMA PartOf ==
  ASSUME NEW s \in Seq(Int), NEW K \in SUBSET DOMAIN s, NEW g \in Sorted(K)
  PROVE  /\ Part(s, g) \in Seq(Int)
         /\ Elements(Part(s, g)) = {s[n] : n \in K}
         /\ Once(s) => Once(Part(s, g))
         /\ Ascending(s) => Ascending(Part(s, g))
<1> DEFINE r == Part(s, g)
<1>1. IsFiniteSet(K) /\ K \in SUBSET Int
  <2>1. IsFiniteSet(1 .. Len(s))
    BY FS_Interval
  <2> QED
    BY <2>1, FS_Subset
<1>2. g \in Seq(Int) /\ Elements(g) = K /\ Ascending(g) /\ Once(g)
  BY <1>1, SortedLists
<1>3. \A n \in DOMAIN g : g[n] \in DOMAIN s
  BY <1>2 DEF Elements
<1>4. r \in [DOMAIN g -> Int] /\ \A n \in DOMAIN g : r[n] = s[g[n]] /\ r[n] \in Int
  BY <1>3 DEF Part
<1> HIDE DEF r
<1>5. r \in Seq(Int)
  <2>1. r \in [1 .. Len(g) -> Int] /\ Len(g) \in Nat
    BY <1>2, <1>4
  <2> QED
    BY <2>1, FunctionIsSeq
<1>6. Elements(r) = {s[n] : n \in K}
  BY <1>2, <1>4 DEF Elements
<1>7. Once(s) => Once(r)
  BY <1>2, <1>3, <1>4 DEF Once
<1>8. Ascending(s) => Ascending(r)
  BY <1>2, <1>3, <1>4 DEF Ascending
<1> QED
  BY <1>5, <1>6, <1>7, <1>8 DEF r

LEMMA Kept ==
  ASSUME saved \in Seq(Int), NEW S, Keep(S)
  PROVE  /\ saved' \in Seq(Int)
         /\ Elements(saved') \subseteq Elements(saved)
         /\ Once(saved) => Once(saved')
         /\ Ascending(saved) => Ascending(saved')
<1> DEFINE K == {n \in DOMAIN saved : saved[n] \in S}
<1>1. PICK g \in Sorted(K) : saved' = Part(saved, g)
  BY DEF Keep, Part
<1>2. K \in SUBSET DOMAIN saved
  OBVIOUS
<1>3. {saved[n] : n \in K} \subseteq Elements(saved)
  BY DEF Elements
<1> HIDE DEF K
<1> QED
  BY <1>1, <1>2, <1>3, PartOf

LEMMA SortedAndStored ==
  ASSUME stored \in Seq(Int), threw \in BOOLEAN, Once(stored),
         NEW S \in SUBSET Int, IsFiniteSet(S), SortAndStore(S)
  PROVE  /\ saved' \in Seq(Int) /\ stored' \in Seq(Int) /\ threw' \in BOOLEAN
         /\ Once(saved') /\ Once(stored')
         /\ SortThrows(S) => threw' /\ stored' = stored
         /\ ~SortThrows(S) => Ascending(saved') /\ stored' = saved' /\ threw' = threw
<1>1. CASE SortThrows(S)
  BY <1>1, OrdersOnce DEF SortAndStore
<1>2. CASE ~SortThrows(S)
  BY <1>2, SortedLists DEF SortAndStore
<1> QED
  BY <1>1, <1>2

LEMMA FoundFinite == \A S \in SUBSET Found : IsFiniteSet(S) /\ S \in SUBSET Int
<1> SUFFICES ASSUME NEW S \in SUBSET Found PROVE IsFiniteSet(S) /\ S \in SUBSET Int
  OBVIOUS
<1>1. IsFiniteSet(S)
  BY FS_Subset
<1> QED
  BY <1>1

-----------------------------------------------------------------------------
(* The invariant *)

(* Without an overlay no batch runs; without an exception the copy is    *)
(* sorted, and so is the list unless an offset is at work on it.           *)
SavedInv ==
  /\ SavedTypeOK
  /\ IsFiniteSet(shown) /\ IsFiniteSet(selected)
  /\ Once(saved) /\ Once(stored)
  /\ ~overlay => turn = "free"
  /\ ~threw => Ascending(stored)
  /\ ~threw /\ job.kind # "offset" => Ascending(saved) /\ Elements(saved) \subseteq Elements(stored)

StoreStep == stored' # stored => stored' = saved' /\ job' = NoJob

LEMMA EmptyLists ==
  /\ <<>> \in Seq(Int) /\ Once(<<>>) /\ Ascending(<<>>) /\ Elements(<<>>) = {}
  /\ IsFiniteSet({})
BY FS_EmptySet DEF Once, Ascending, Elements

LEMMA Jobs ==
  /\ NoJob.kind = "none"
  /\ \A jb \in OffsetJob : jb.kind = "offset" /\ jb # NoJob
  /\ \A jb \in OtherJob : jb.kind \in {"filter", "edit"} /\ jb # NoJob
BY DEF NoJob, OffsetJob, OtherJob

LEMMA InitSaved == Init => SavedInv
BY EmptyLists, Jobs DEF Init, SavedInv, SavedTypeOK

LEMMA NewPageInv ==
  ASSUME SavedInv, NewPage, threw' \in BOOLEAN,
         saved' = stored' /\ stored' \in {stored, <<>>},
         threw' = threw \/ stored' = <<>>
  PROVE  SavedInv'
BY EmptyLists, Jobs DEF NewPage, SavedInv, SavedTypeOK

LEMMA SelectInv ==
  ASSUME SavedInv, UNCHANGED <<saved, stored, busy, threw>>, multi' \in BOOLEAN,
         shown' \in {shown, Elements(saved)},
         selected' \in {selected, {}, selected \cup Elements(saved),
                        (selected \ Elements(saved)) \cup (Elements(saved) \ selected)}
                       \cup {selected \ {a} : a \in shown} \cup {selected \cup {a} : a \in shown}
  PROVE  SavedInv'
<1> USE DEF SavedInv, SavedTypeOK, busy
<1>1. IsFiniteSet(Elements(saved)) /\ Elements(saved) \subseteq Int
  BY ElementsFinite
<1>2. IsFiniteSet(selected') /\ selected' \subseteq Int
  <2>1. IsFiniteSet(selected \cup Elements(saved))
    BY <1>1, FS_Union
  <2>2. IsFiniteSet((selected \ Elements(saved)) \cup (Elements(saved) \ selected))
    BY <2>1, FS_Subset
  <2>3. \A a \in shown : IsFiniteSet(selected \ {a}) /\ IsFiniteSet(selected \cup {a})
    BY FS_AddElement, FS_RemoveElement
  <2> QED
    BY <1>1, <2>1, <2>2, <2>3, FS_EmptySet
<1> QED
  BY <1>1, <1>2

LEMMA DeleteInv ==
  ASSUME SavedInv, User, NEW S, Keep(S), UNCHANGED <<multi, busy, threw>>,
         stored' \in {stored, saved'}, shown' \in {shown, Elements(saved')},
         selected' \in {selected, {}}
  PROVE  SavedInv' /\ StoreStep
<1> USE DEF SavedInv, SavedTypeOK, busy, StoreStep, User
<1>1. /\ saved' \in Seq(Int)
      /\ Elements(saved') \subseteq Elements(saved)
      /\ Once(saved')
      /\ Ascending(saved) => Ascending(saved')
  BY Kept
<1>2. IsFiniteSet(Elements(saved')) /\ Elements(saved') \subseteq Int
  BY <1>1, ElementsFinite
<1> QED
  BY <1>1, <1>2, EmptyLists, Jobs

LEMMA SaveInv ==
  ASSUME SavedInv, NEW S \in SUBSET Found, Save(S)
  PROVE  SavedInv' /\ StoreStep
<1> USE DEF SavedInv, SavedTypeOK, StoreStep, User
<1>1. IsFiniteSet(Elements(saved) \cup S) /\ Elements(saved) \cup S \in SUBSET Int
  <2>1. IsFiniteSet(S) /\ S \in SUBSET Int
    BY FoundFinite
  <2>2. IsFiniteSet(Elements(saved)) /\ Elements(saved) \in SUBSET Int
    BY ElementsFinite
  <2>3. IsFiniteSet(Elements(saved) \cup S)
    BY <2>1, <2>2, FS_Union
  <2> QED
    BY <2>1, <2>2, <2>3
<1>2. SortAndStore(Elements(saved) \cup S) /\ UNCHANGED <<rows, busy>> /\ User
  BY DEF Save
<1>3. /\ saved' \in Seq(Int) /\ stored' \in Seq(Int) /\ threw' \in BOOLEAN
      /\ Once(saved') /\ Once(stored')
      /\ SortThrows(Elements(saved) \cup S) => threw' /\ stored' = stored
      /\ ~SortThrows(Elements(saved) \cup S) =>
           Ascending(saved') /\ stored' = saved' /\ threw' = threw
  BY <1>1, <1>2, SortedAndStored
<1> QED
  BY <1>2, <1>3, Jobs DEF rows, busy

LEMMA OffsetStarts ==
  ASSUME SavedInv, ConfirmOffset
  PROVE  SavedInv' /\ StoreStep
<1> USE DEF SavedInv, SavedTypeOK, StoreStep
<1>1. PICK page \in {"save", "other"}, addrs \in Seq(Int), by \in Offsets :
        OffsetFrom(page, addrs, by)
  <2>1. \A s \in Orders(selected) : s \in Seq(Int)
    BY OrdersOnce
  <2>2. \A S \in SUBSET Found : \A s \in Orders(S) : s \in Seq(Int)
    BY FoundFinite, OrdersOnce
  <2> QED
    BY <2>1, <2>2 DEF ConfirmOffset
<1>2. job' \in OffsetJob
  <2>1. Elements(saved) \in SUBSET Int
    BY ElementsFinite
  <2>2. by \in Int
    OBVIOUS
  <2> QED
    BY <1>1, <2>1, <2>2 DEF OffsetFrom, OffsetJob
<1> QED
  BY <1>1, <1>2, Jobs DEF OffsetFrom, list, rows

LEMMA ClicksInv == SavedInv /\ Clicks => SavedInv' /\ StoreStep
<1> SUFFICES ASSUME SavedInv, Clicks PROVE SavedInv' /\ StoreStep
  OBVIOUS
<1>1. CASE \E S \in SUBSET Found : Save(S)
  BY <1>1, SaveInv
<1>2. CASE \E a \in Found : Save({a})
  BY <1>2, SaveInv
<1>3. CASE \E a \in shown : DeleteSave(a)
  BY <1>3, DeleteInv DEF DeleteSave, RefreshSaveList
<1>4. CASE OnClickClearSave
  <2>1. CASE multi /\ selected # {}
    BY <1>4, <2>1, DeleteInv DEF OnClickClearSave, RefreshSaveList
  <2>2. CASE ~(multi /\ selected # {})
    BY <1>4, <2>2, EmptyLists, Jobs
    DEF OnClickClearSave, RefreshSaveList, SavedInv, SavedTypeOK, StoreStep, User, busy
  <2> QED
    BY <2>1, <2>2
<1>5. CASE BatchDelete
  BY <1>5, DeleteInv DEF BatchDelete
<1>6. CASE \/ \E a \in shown : ToggleItemSelection(a)
           \/ ToggleMultiSelect \/ SelectAllItems \/ ReverseSelectItems \/ OpenSavePage
  <2>1. /\ UNCHANGED <<saved, stored, busy, threw>> /\ multi' \in BOOLEAN
        /\ shown' \in {shown, Elements(saved)}
    BY <1>6
    DEF ToggleItemSelection, ToggleMultiSelect, SelectAllItems, ReverseSelectItems,
        OpenSavePage, list, SavedInv, SavedTypeOK
  <2>2. selected' \in {selected, {}, selected \cup Elements(saved),
                       (selected \ Elements(saved)) \cup (Elements(saved) \ selected)}
                      \cup {selected \ {a} : a \in shown} \cup {selected \cup {a} : a \in shown}
    BY <1>6
    DEF ToggleItemSelection, ToggleMultiSelect, SelectAllItems, ReverseSelectItems,
        OpenSavePage
  <2> QED
    BY <2>1, <2>2, SelectInv DEF StoreStep
<1>7. CASE \E kind \in {"filter", "edit"} : Postpone(kind)
  <2>1. job' \in OtherJob
    BY <1>7 DEF Postpone, OtherJob
  <2> QED
    BY <1>7, <2>1, Jobs
    DEF Postpone, list, rows, User, SavedInv, SavedTypeOK, StoreStep
<1>8. CASE ConfirmOffset
  BY <1>8, OffsetStarts
<1> QED
  BY <1>1, <1>2, <1>3, <1>4, <1>5, <1>6, <1>7, <1>8 DEF Clicks

(* Adding an address that is not there yet keeps the addresses distinct. *)
LEMMA AddedOnce ==
  ASSUME NEW s \in Seq(Int), NEW a \in Int, Once(s)
  PROVE  Added(s, a) \in Seq(Int) /\ Once(Added(s, a))
<1>1. CASE a \in Elements(s)
  BY <1>1 DEF Added
<1>2. CASE a \notin Elements(s)
  <2>1. Added(s, a) = Append(s, a)
    BY <1>2 DEF Added
  <2>2. \A n \in DOMAIN s : s[n] # a
    BY <1>2 DEF Elements
  <2> QED
    BY <2>1, <2>2 DEF Once
<1> QED
  BY <1>1, <1>2

LEMMA OffsetOneInv ==
  ASSUME SavedInv, OffsetOne
  PROVE  SavedInv' /\ StoreStep
<1> USE DEF SavedInv, SavedTypeOK
<1> DEFINE new == job.addrs[job.next] + job.by
           K == {n \in DOMAIN saved : Stays(n)}
<1>1. /\ job \in OffsetJob /\ job.next \in 1 .. Len(job.addrs)
      /\ job.addrs \in Seq(Int) /\ job.by \in Int
  BY DEF OffsetOne, OffsetJob
<1>2. new \in Int
  BY <1>1, SMTT(30)
<1>3. PICK g \in Sorted(K) : saved' = Added(Part(saved, g), new)
  BY DEF OffsetOne, Part
<1>4. Part(saved, g) \in Seq(Int) /\ Once(Part(saved, g))
  <2>1. K \in SUBSET DOMAIN saved
    OBVIOUS
  <2> HIDE DEF K
  <2> QED
    BY <2>1, PartOf
<1> HIDE DEF new, K
<1>5. saved' \in Seq(Int) /\ Once(saved')
  BY <1>2, <1>3, <1>4, AddedOnce
<1>6. job' \in OffsetJob
  <2>1. job' = [job EXCEPT !.next = job.next + 1]
    BY DEF OffsetOne
  <2>2. job.next + 1 \in Nat \ {0}
    BY <1>1
  <2> HIDE DEF SavedInv, SavedTypeOK
  <2> QED
    BY <1>1, <2>1, <2>2 DEF OffsetJob
<1>7. turn' \in {"free", "batch"} /\ overlay' = overlay /\ turn = "batch"
      /\ UNCHANGED <<stored, shown, multi, selected, threw>>
  BY DEF OffsetOne, rows
<1> QED
  BY <1>5, <1>6, <1>7, Jobs DEF StoreStep

LEMMA WorkInv == SavedInv /\ Work => SavedInv' /\ StoreStep
<1> SUFFICES ASSUME SavedInv, Work PROVE SavedInv' /\ StoreStep
  OBVIOUS
<1> USE DEF SavedInv, SavedTypeOK, StoreStep, list, rows, busy
<1>1. CASE FilterRuns
  <2>1. PICK S \in SUBSET Elements(saved) : Keep(S)
    BY <1>1 DEF FilterRuns
  <2>2. /\ saved' \in Seq(Int) /\ Once(saved')
        /\ Ascending(saved) => Ascending(saved')
    BY <2>1, Kept
  <2>3. IsFiniteSet(Elements(saved')) /\ Elements(saved') \subseteq Int
    BY <2>2, ElementsFinite
  <2> QED
    BY <1>1, <2>2, <2>3, Jobs DEF FilterRuns, JobDone, RefreshSaveList
<1>2. CASE EditRuns
  BY <1>2, ElementsFinite, Jobs DEF EditRuns, JobDone
<1>3. CASE OffsetOne
  BY <1>3, OffsetOneInv
<1>4. CASE OffsetThrows
  <2>1. saved' \in Seq(Int) /\ Once(saved')
    BY <1>4, Kept DEF OffsetThrows
  <2> QED
    BY <1>4, <2>1, Jobs DEF OffsetThrows
<1>5. CASE NextBatch
  <2>1. job \in OffsetJob
    BY <1>5, Jobs DEF NextBatch
  <2>2. overlay = TRUE
    BY <2>1, Jobs
  <2> QED
    BY <1>5, <2>1, <2>2, Jobs DEF NextBatch
<1>6. CASE OffsetDone
  <2>1. IsFiniteSet(Elements(saved)) /\ Elements(saved) \in SUBSET Int
    BY ElementsFinite
  <2>2. SortAndStore(Elements(saved))
    BY <1>6 DEF OffsetDone
  <2>3. /\ saved' \in Seq(Int) /\ stored' \in Seq(Int) /\ threw' \in BOOLEAN
        /\ Once(saved') /\ Once(stored')
        /\ SortThrows(Elements(saved)) => threw' /\ stored' = stored
        /\ ~SortThrows(Elements(saved)) =>
             Ascending(saved') /\ stored' = saved' /\ threw' = threw
    BY <2>1, <2>2, SortedAndStored
  <2>4. IsFiniteSet(Elements(saved')) /\ Elements(saved') \subseteq Int
    BY <2>3, ElementsFinite
  <2>5. CASE SortThrows(Elements(saved))
    BY <1>6, <2>3, <2>5, Jobs DEF OffsetDone
  <2>6. CASE ~SortThrows(Elements(saved))
    BY <1>6, <2>3, <2>4, <2>6, Jobs DEF OffsetDone, JobDone
  <2> QED
    BY <2>5, <2>6
<1> QED
  BY <1>1, <1>2, <1>3, <1>4, <1>5, <1>6 DEF Work

LEMMA NextInv == SavedInv /\ [Next]_vars => SavedInv' /\ StoreStep
<1> SUFFICES ASSUME SavedInv, [Next]_vars PROVE SavedInv' /\ StoreStep
  OBVIOUS
<1> USE DEF StoreStep
<1>1. CASE PageLoads
  BY <1>1, NewPageInv DEF PageLoads, SavedInv, SavedTypeOK
<1>2. CASE Restarts
  <2>1. SavedInv'
    BY <1>2, EmptyLists, Jobs DEF Restarts, NewPage, SavedInv, SavedTypeOK
  <2> QED
    BY <1>2, <2>1 DEF Restarts, NewPage
<1>3. CASE UNCHANGED vars
  BY <1>3 DEF vars, list, rows, busy, SavedInv, SavedTypeOK
<1> QED
  BY <1>1, <1>2, <1>3, ClicksInv, WorkInv DEF Next

THEOREM SavedInvariant == Spec => []SavedInv
BY InitSaved, NextInv, PTL DEF Spec

(* Every variable of the saved list keeps its type. *)
THEOREM SavedTypeCorrect == Spec => []SavedTypeOK
<1>1. SavedInv => SavedTypeOK
  BY DEF SavedInv
<1> QED
  BY <1>1, SavedInvariant, PTL

(* No address is saved twice, whatever is saved, deleted and offset.       *)
THEOREM NothingSavedTwice == Spec => []SavedOnce
<1>1. SavedInv => SavedOnce
  BY DEF SavedInv, Once, SavedOnce
<1> QED
  BY <1>1, SavedInvariant, PTL

(* The list is sorted and stored whenever no job runs and none threw.      *)
THEOREM SortedAtRest == Spec => []RestIsSorted
<1>1. SavedInv => RestIsSorted
  BY Jobs DEF SavedInv, RestIsSorted, Ascending
<1> QED
  BY <1>1, SavedInvariant, PTL

(* sessionStorage never receives a list that a job has half done.          *)
THEOREM WholeListStored == Spec => StoredIsWhole
<1>1. SavedInv /\ [Next]_vars => [stored' # stored => stored' = saved' /\ job' = NoJob]_vars
  BY NextInv DEF StoreStep
<1> QED
  BY <1>1, SavedInvariant, PTL DEF Spec, StoredIsWhole

-----------------------------------------------------------------------------
(* Offsets *)

(* What an offset leaves alone, what it makes, what it still has to take,  *)
(* and what has become of the n-th address.                                *)
Rest == IF job.from = "save" THEN job.before \ Elements(job.addrs) ELSE job.before
Moved == {a + job.by : a \in Elements(job.addrs)}
ToCome(a) == job.from = "save" /\ \E n \in DOMAIN job.addrs :
                                     n >= job.next /\ job.addrs[n] = a
MovedOn(n) ==
  \/ job.addrs[n] + job.by \in Elements(saved)
  \/ job.from = "save" /\ \E m \in DOMAIN job.addrs :
                            m > n /\ job.addrs[m] = job.addrs[n] + job.by
MoveInv ==
  job.kind = "offset" =>
    /\ Rest \subseteq Elements(saved)
    /\ \A a \in Elements(saved) : a \in Rest \/ a \in Moved \/ ToCome(a)
    /\ \A n \in DOMAIN job.addrs : n < job.next => MovedOn(n)

LEMMA AddedElements ==
  ASSUME NEW s \in Seq(Int), NEW a \in Int
  PROVE  Elements(Added(s, a)) = Elements(s) \cup {a}
<1>1. CASE a \in Elements(s)
  BY <1>1 DEF Added
<1>2. CASE a \notin Elements(s)
  <2>1. Added(s, a) = Append(s, a)
    BY <1>2 DEF Added
  <2> QED
    BY <2>1 DEF Elements
<1> QED
  BY <1>1, <1>2

(* The entry is taken out on the save page, and its new address put in.    *)
LEMMA OffsetElements ==
  ASSUME SavedInv, OffsetOne
  PROVE  LET old == job.addrs[job.next]
         IN \A a : a \in Elements(saved)' <=>
                   \/ a \in Elements(saved) /\ (job.from = "save" => a # old)
                   \/ a = old + job.by
<1> DEFINE new == job.addrs[job.next] + job.by
           K == {n \in DOMAIN saved : Stays(n)}
<1>1. new \in Int /\ saved \in Seq(Int)
  BY SMTT(30) DEF OffsetOne, OffsetJob, SavedInv, SavedTypeOK
<1>2. PICK g \in Sorted(K) : saved' = Added(Part(saved, g), new)
  BY DEF OffsetOne, Part
<1>3. \A a : a \in {saved[n] : n \in K} <=>
            a \in Elements(saved) /\ (job.from = "save" => a # job.addrs[job.next])
  BY DEF Elements, Stays
<1>4. K \in SUBSET DOMAIN saved
  OBVIOUS
<1> HIDE DEF K, new
<1>5. Part(saved, g) \in Seq(Int) /\ Elements(Part(saved, g)) = {saved[n] : n \in K}
  BY <1>1, <1>4, PartOf
<1>6. Elements(saved') = {saved[n] : n \in K} \cup {new}
  BY <1>1, <1>2, <1>5, AddedElements
<1> QED
  BY <1>3, <1>6 DEF new, Elements

LEMMA OffsetOneMoves ==
  ASSUME SavedInv, MoveInv, OffsetOne
  PROVE  MoveInv'
<1> DEFINE old == job.addrs[job.next]
<1>1. /\ job \in OffsetJob /\ job.kind = "offset" /\ job.next \in DOMAIN job.addrs
      /\ job.next \in Nat /\ job.by \in Int /\ job.addrs \in Seq(Int)
  BY Jobs DEF OffsetOne, OffsetJob, SavedInv, SavedTypeOK
<1>2. /\ job'.from = job.from /\ job'.addrs = job.addrs /\ job'.by = job.by
      /\ job'.before = job.before /\ job'.next = job.next + 1
  BY <1>1 DEF OffsetOne, OffsetJob
<1>3. \A a : a \in Elements(saved)' <=>
            \/ a \in Elements(saved) /\ (job.from = "save" => a # old)
            \/ a = old + job.by
  BY OffsetElements
<1>4. old \in Elements(job.addrs) /\ Rest' = Rest /\ Moved' = Moved
  BY <1>1, <1>2 DEF Rest, Moved, Elements
<1>5. Rest' \subseteq Elements(saved)'
  BY <1>1, <1>3, <1>4 DEF MoveInv, Rest
<1>6. ASSUME NEW a \in Elements(saved)' PROVE a \in Rest' \/ a \in Moved' \/ ToCome(a)'
  <2>1. CASE a = old + job.by
    BY <1>4, <2>1 DEF Moved
  <2>2. CASE a \in Elements(saved) /\ (job.from = "save" => a # old)
    <3>1. a \in Rest \/ a \in Moved \/ ToCome(a)
      BY <1>1, <2>2 DEF MoveInv
    <3>2. ASSUME ToCome(a) PROVE ToCome(a)'
      <4>1. PICK n \in DOMAIN job.addrs : n >= job.next /\ job.addrs[n] = a
        BY <3>2 DEF ToCome
      <4>2. n # job.next /\ n \in Nat
        BY <1>1, <2>2, <3>2, <4>1 DEF ToCome
      <4> QED
        BY <1>1, <1>2, <3>2, <4>1, <4>2 DEF ToCome
    <3> QED
      BY <1>4, <3>1, <3>2
  <2> QED
    BY <1>3, <1>6, <2>1, <2>2
<1>7. ASSUME NEW n \in DOMAIN job.addrs, n < job.next + 1 PROVE MovedOn(n)'
  <2>1. n \in Nat
    BY <1>1
  <2>2. CASE n = job.next
    BY <1>2, <1>3, <2>2 DEF MovedOn
  <2>3. CASE n # job.next
    <3>1. MovedOn(n) /\ n < job.next
      BY <1>1, <1>7, <2>1, <2>3 DEF MoveInv
    <3> QED
      BY <1>1, <1>2, <1>3, <3>1 DEF MovedOn
  <2> QED
    BY <2>2, <2>3
<1> QED
  BY <1>2, <1>5, <1>6, <1>7 DEF MoveInv

LEMMA MoveNext == SavedInv /\ MoveInv /\ [Next]_vars => MoveInv'
<1> SUFFICES ASSUME SavedInv, MoveInv, [Next]_vars PROVE MoveInv'
  OBVIOUS
<1>1. CASE OffsetOne
  BY <1>1, OffsetOneMoves
<1>2. CASE UNCHANGED <<saved, job>>
  BY <1>2 DEF MoveInv, Rest, Moved, ToCome, MovedOn, Elements
<1>3. ASSUME NEW page, NEW addrs, NEW by, OffsetFrom(page, addrs, by) PROVE MoveInv'
  <2>1. /\ job'.kind = "offset" /\ job'.from = page /\ job'.addrs = addrs /\ job'.by = by
        /\ job'.next = 1 /\ job'.before = Elements(saved) /\ UNCHANGED saved
    BY <1>3 DEF OffsetFrom, list
  <2>2. Elements(saved)' = Elements(saved)
    BY <2>1 DEF Elements
  <2>3. \A n \in DOMAIN addrs : n \in Nat /\ n >= 1
    <3>1. job' \in OffsetJob
      BY <2>1, NextInv, Jobs DEF SavedInv, SavedTypeOK
    <3>2. addrs \in Seq(Int)
      BY <2>1, <3>1 DEF OffsetJob
    <3> QED
      BY <3>2
  <2>4. Rest' \subseteq Elements(saved)'
    BY <2>1, <2>2 DEF Rest
  <2>5. \A a \in Elements(saved)' : a \in Rest' \/ ToCome(a)'
    BY <2>1, <2>2, <2>3 DEF Rest, ToCome, Elements
  <2>6. \A n \in DOMAIN addrs : ~(n < 1)
    BY <2>3
  <2> QED
    BY <2>1, <2>4, <2>5, <2>6 DEF MoveInv
<1>4. CASE job'.kind # "offset"
  BY <1>4 DEF MoveInv
<1>5. CASE Clicks
  <2>1. CASE ConfirmOffset
    BY <1>3, <2>1 DEF ConfirmOffset
  <2>2. CASE \E kind \in {"filter", "edit"} : Postpone(kind)
    BY <1>4, <2>2 DEF Postpone
  <2>3. CASE ~ConfirmOffset /\ ~(\E kind \in {"filter", "edit"} : Postpone(kind))
    <3>1. job' = job /\ job = NoJob
      BY <1>5, <2>3 DEF Clicks, Save, DeleteSave, OnClickClearSave, BatchDelete,
         ToggleMultiSelect, ToggleItemSelection, SelectAllItems, ReverseSelectItems,
         OpenSavePage, User, busy, SavedInv, SavedTypeOK
    <3> QED
      BY <1>4, <3>1, Jobs
  <2> QED
    BY <2>1, <2>2, <2>3
<1>6. CASE Work
  BY <1>1, <1>2, <1>4, <1>6, Jobs DEF Work, FilterRuns, EditRuns, JobDone, OffsetThrows,
     NextBatch, OffsetDone, list
<1>7. CASE PageLoads \/ Restarts \/ UNCHANGED vars
  BY <1>2, <1>4, <1>7, Jobs DEF PageLoads, Restarts, NewPage, vars, list, busy
<1> QED
  BY <1>5, <1>6, <1>7 DEF Next

(* The end of an offset: every address of its list has moved, unless it    *)
(* landed on one that was taken after it; no other entry is lost or added. *)
THEOREM OffsetMovesAll == Spec => OffsetMoves
<1>1. Init => MoveInv
  BY Jobs DEF Init, MoveInv
<1>2. ASSUME SavedInv, MoveInv, [Next]_vars,
             turn = "batch", job' = NoJob, overlay, ~overlay', stored' # <<>>
      PROVE  LET moved == {a + job.by : a \in Elements(job.addrs)}
                 rest == IF job.from = "save" THEN job.before \ Elements(job.addrs)
                                              ELSE job.before
             IN /\ rest \subseteq Elements(saved')
                /\ Elements(saved') \subseteq rest \cup moved
                /\ \A n \in DOMAIN job.addrs :
                     \/ job.addrs[n] + job.by \in Elements(saved')
                     \/ job.from = "save" /\ \E m \in DOMAIN job.addrs :
                                               m > n /\ job.addrs[m] = job.addrs[n] + job.by
  <2>1. job \in OffsetJob /\ job.kind = "offset" /\ saved \in Seq(Int)
    BY <1>2, Jobs DEF SavedInv, SavedTypeOK
  <2>2. OffsetDone /\ ~SortThrows(Elements(saved))
    BY <1>2, <2>1, Jobs DEF Next, Clicks, Work, Save, DeleteSave, OnClickClearSave, BatchDelete,
       ToggleMultiSelect, ToggleItemSelection, SelectAllItems, ReverseSelectItems,
       OpenSavePage, Postpone, ConfirmOffset, OffsetFrom, User, FilterRuns, EditRuns,
       OffsetOne, OffsetThrows, NextBatch, OffsetDone, PageLoads, Restarts, vars, busy
  <2>3. Elements(saved') = Elements(saved)
    <3>1. IsFiniteSet(Elements(saved)) /\ Elements(saved) \in SUBSET Int
      BY <2>1, ElementsFinite
    <3>2. saved' \in Sorted(Elements(saved))
      BY <2>2 DEF OffsetDone, SortAndStore
    <3> QED
      BY <3>1, <3>2, SortedLists
  <2>4. job.next > Len(job.addrs) /\ job.next \in Nat /\ job.addrs \in Seq(Int)
    BY <2>1, <2>2 DEF OffsetDone, OffsetJob
  <2>5. \A n \in DOMAIN job.addrs : n \in Nat /\ n < job.next
    BY <2>4
  <2>6. \A a : ~ToCome(a)
    BY <2>4, <2>5 DEF ToCome
  <2>7. /\ Rest \subseteq Elements(saved)
        /\ \A a \in Elements(saved) : a \in Rest \/ a \in Moved
        /\ \A n \in DOMAIN job.addrs : MovedOn(n)
    BY <1>2, <2>1, <2>5, <2>6 DEF MoveInv
  <2>8. /\ Rest \subseteq Elements(saved') /\ Elements(saved') \subseteq Rest \cup Moved
    BY <2>3, <2>7
  <2>9. \A n \in DOMAIN job.addrs :
          \/ job.addrs[n] + job.by \in Elements(saved')
          \/ job.from = "save" /\ \E m \in DOMAIN job.addrs :
                                    m > n /\ job.addrs[m] = job.addrs[n] + job.by
    BY <2>3, <2>7 DEF MovedOn
  <2> QED
    BY <2>8, <2>9 DEF Rest, Moved
<1> QED
  BY <1>1, <1>2, MoveNext, SavedInvariant, PTL DEF Spec, OffsetMoves
=============================================================================
