------------------------------- MODULE SavedList -------------------------------
(***************************************************************************)
(* The saved addresses of the page (src/Index.html; Index-en.html has the  *)
(* same code): a list kept in memory, its copy in sessionStorage, the rows *)
(* shown of it, the rows selected, and the jobs that filter, offset or     *)
(* edit it behind a progress overlay.                                      *)
(*                                                                         *)
(* The page has one thread, but a job gives it up: it starts 100 ms later, *)
(* and an offset handles Batch addresses at a time, one second apart.  In  *)
(* between the page can be loaded again and the app can end.  The overlay  *)
(* covers the page, so the user can do nothing while it is shown.          *)
(*                                                                         *)
(* An entry is its address; the type saved with it is left out, and so is  *)
(* the spelling of an address, but for that of a negative one, which is    *)
(* "0x-5" and which BigInt refuses.                                        *)
(*                                                                         *)
(* A definition whose name is that of the next one with a word after it is *)
(* that definition with an error in it; the specification does not use it. *)
(***************************************************************************)
EXTENDS Integers, Sequences, FiniteSets, Lists

CONSTANTS
  Found,     \* the addresses that searches and the memory page show
  Offsets,   \* what a user offsets addresses by
  Batch,     \* batchSize: the addresses an offset handles at a time
  Space,     \* bound of the model: the addresses an offset may reach
  MaxSaved   \* bound of the model: the longest list

ASSUME SavedAssumption ==
  /\ Found \subseteq Nat /\ IsFiniteSet(Found)
  /\ Offsets \subseteq Int /\ Batch \in Nat \ {0}
  /\ Space \subseteq Int /\ MaxSaved \in Nat

VARIABLES
  saved,     \* savedAddresses
  stored,    \* its copy in sessionStorage
  shown,     \* the addresses of the rows of saveContainer
  multi,     \* multiSelectMode.save
  selected,  \* selectedItems.save
  overlay,   \* progressOverlay is shown
  turn,      \* "batch" while the page's thread is in the loop of processBatch
  job,       \* what a timer will go on with, or NoJob
  (* history, read by properties only *)
  threw      \* since the app started, BigInt ended a function of the page early

list == <<saved, stored>>
rows == <<shown, multi, selected>>
busy == <<overlay, turn, job>>
vars == <<list, rows, busy, threw>>

Elements(s) == {s[n] : n \in DOMAIN s}

(* The orders in which a selection may have been made. *)
Orders(S) == {s \in [1 .. Cardinality(S) -> S] : Elements(s) = S}

NoJob == [kind |-> "none"]
OffsetJob == [kind: {"offset"}, from: {"save", "other"}, addrs: Seq(Int), by: Int,
              next: Nat \ {0}, before: SUBSET Int]
OtherJob == [kind: {"filter", "edit"}]

Init ==
  /\ saved = <<>> /\ stored = <<>>
  /\ shown = {} /\ multi = FALSE /\ selected = {}
  /\ overlay = FALSE /\ turn = "free" /\ job = NoJob
  /\ threw = FALSE

User == turn = "free" /\ ~overlay

-----------------------------------------------------------------------------
(* Helpers *)

RefreshSaveList == shown' = Elements(saved')

(* savedAddresses.filter(s => s is in S). *)
Keep(S) == \E g \in Sorted({n \in DOMAIN saved : saved[n] \in S}) :
             saved' = [n \in DOMAIN g |-> saved[g[n]]]

(* BigInt refuses an address in the comparison of two. *)
SortThrows(S) == Cardinality(S) >= 2 /\ \E a \in S : a < 0

(* S is the list with what was added, in some order; then sort and         *)
(* saveToLocal.  An exception leaves the list unsorted and the copy alone. *)
SortAndStoreUnsorted(S) ==
  /\ saved' \in Orders(S) /\ SubSeq(saved', 1, Len(saved)) = saved
  /\ stored' = saved' /\ UNCHANGED threw
SortAndStore(S) ==
  \/ /\ SortThrows(S)
     /\ saved' \in Orders(S) /\ SubSeq(saved', 1, Len(saved)) = saved
     /\ threw' = TRUE /\ UNCHANGED stored
  \/ /\ ~SortThrows(S)
     /\ saved' \in Sorted(S)
     /\ stored' = saved' /\ UNCHANGED threw

-----------------------------------------------------------------------------
(* Saving, deleting and selecting *)

(* saveAddress, for one, and batchSave, for results or selected memory; on *)
(* the save page batchSave adds none.  The rows that call saveAddress are  *)
(* those of the search and memory pages (lines 2371 and 2534): its refresh *)
(* of an open save page never runs.                                        *)
Save(S) ==
  /\ User /\ Cardinality(Elements(saved) \cup S) <= MaxSaved
  /\ SortAndStore(Elements(saved) \cup S)
  /\ UNCHANGED <<rows, busy>>

DeleteSave(a) ==
  /\ User /\ a \in shown
  /\ Keep(Elements(saved) \ {a})
  /\ stored' = saved' /\ RefreshSaveList
  /\ UNCHANGED <<multi, selected, busy, threw>>

OnClickClearSave ==
  /\ User
  /\ IF multi /\ selected # {}
     THEN Keep(Elements(saved) \ selected) /\ selected' = {}
     ELSE saved' = <<>> /\ UNCHANGED selected
  /\ stored' = saved' /\ RefreshSaveList
  /\ UNCHANGED <<multi, busy, threw>>

(* batchAction('delete'): neither stored nor shown. *)
BatchDelete ==
  /\ User /\ multi /\ selected # {}
  /\ Keep(Elements(saved) \ selected)
  /\ selected' = {}
  /\ UNCHANGED <<stored, shown, multi, busy, threw>>

ToggleMultiSelect ==
  /\ User
  /\ multi' = ~multi /\ selected' = {} /\ shown' = Elements(saved)
  /\ UNCHANGED <<list, busy, threw>>

ToggleItemSelection(a) ==
  /\ User /\ multi /\ a \in shown
  /\ selected' = IF a \in selected THEN selected \ {a} ELSE selected \cup {a}
  /\ UNCHANGED <<list, shown, multi, busy, threw>>

SelectAllItems ==
  /\ User /\ multi
  /\ selected' = selected \cup Elements(saved) /\ shown' = Elements(saved)
  /\ UNCHANGED <<list, multi, busy, threw>>

ReverseSelectItems ==
  /\ User /\ multi
  /\ selected' = (selected \ Elements(saved)) \cup (Elements(saved) \ selected)
  /\ shown' = Elements(saved)
  /\ UNCHANGED <<list, multi, busy, threw>>

(* The save page is opened, or its button refreshSaveList pressed. *)
OpenSavePage ==
  /\ User /\ shown' = Elements(saved)
  /\ UNCHANGED <<list, multi, selected, busy, threw>>

-----------------------------------------------------------------------------
(* Jobs *)

(* filterSaveList, confirmEdit of many, a search: a job, later. *)
PostponeUncovered(kind) ==
  /\ User
  /\ job' = [kind |-> kind]
  /\ UNCHANGED <<list, rows, overlay, turn, threw>>
Postpone(kind) ==
  /\ User
  /\ overlay' = TRUE /\ job' = [kind |-> kind]
  /\ UNCHANGED <<list, rows, turn, threw>>

JobDone == overlay' = FALSE /\ turn' = "free" /\ job' = NoJob

(* The values read at that time decide which addresses stay. *)
FilterRuns ==
  /\ turn = "free" /\ job.kind = "filter"
  /\ \E S \in SUBSET Elements(saved) : Keep(S)
  /\ stored' = saved' /\ RefreshSaveList /\ JobDone
  /\ UNCHANGED <<multi, selected, threw>>

(* Edits and searches change the memory, or the results, and no address.   *)
EditRuns ==
  /\ turn = "free" /\ job.kind = "edit"
  /\ JobDone
  /\ shown' \in {shown, Elements(saved)}
  /\ UNCHANGED <<list, multi, selected, threw>>

(* confirmOffset: the addresses are fixed now, and the first batch runs. *)
OffsetFrom(page, addrs, by) ==
  /\ User /\ addrs # <<>>
  /\ {a + by : a \in Elements(addrs)} \subseteq Space
  /\ overlay' = TRUE /\ turn' = "batch"
  /\ job' = [kind |-> "offset", from |-> page, addrs |-> addrs, by |-> by, next |-> 1,
             before |-> Elements(saved)]
  /\ UNCHANGED <<list, rows, threw>>

ConfirmOffset ==
  \E by \in Offsets :
    \/ IF multi /\ selected # {} THEN \E s \in Orders(selected) : OffsetFrom("save", s, by)
                                 ELSE OffsetFrom("save", saved, by)
    \/ \E S \in SUBSET Found : /\ Cardinality(Elements(saved) \cup S) <= MaxSaved
                               /\ \E s \in Orders(S) : OffsetFrom("other", s, by)

AddedTwice(s, a) == Append(s, a)
Added(s, a) == IF a \in Elements(s) THEN s ELSE Append(s, a)

StaysElsewhere(n) == saved[n] # job.addrs[job.next]
Stays(n) == job.from = "save" => saved[n] # job.addrs[job.next]

(* One address: its entry is removed (the save page), then the new one is  *)
(* added.  BigInt of the address throws if it is negative: the job ends    *)
(* there, with the overlay shown and no timer.                             *)
OffsetOne ==
  /\ turn = "batch" /\ job.next <= Len(job.addrs)
  /\ job.addrs[job.next] >= 0
  /\ \E g \in Sorted({n \in DOMAIN saved : Stays(n)}) :
       saved' = Added([n \in DOMAIN g |-> saved[g[n]]], job.addrs[job.next] + job.by)
  /\ job' = [job EXCEPT !.next = @ + 1]
  /\ turn' = IF job.next % Batch = 0 /\ job.next < Len(job.addrs) THEN "free" ELSE "batch"
  /\ UNCHANGED <<stored, rows, overlay, threw>>

OffsetThrows ==
  /\ turn = "batch" /\ job.next <= Len(job.addrs)
  /\ job.addrs[job.next] < 0
  /\ Keep(Elements(saved) \ (IF job.from = "save" THEN {job.addrs[job.next]} ELSE {}))
  /\ turn' = "free" /\ job' = NoJob /\ threw' = TRUE
  /\ UNCHANGED <<stored, rows, overlay>>

NextBatchNever == FALSE
NextBatchStores ==
  /\ turn = "free" /\ job.kind = "offset"
  /\ turn' = "batch" /\ stored' = saved
  /\ UNCHANGED <<saved, rows, overlay, job, threw>>
NextBatch ==
  /\ turn = "free" /\ job.kind = "offset"
  /\ turn' = "batch"
  /\ UNCHANGED <<list, rows, overlay, job, threw>>

OffsetDone ==
  /\ turn = "batch" /\ job.next > Len(job.addrs)
  /\ SortAndStore(Elements(saved))
  /\ IF SortThrows(Elements(saved))
     THEN turn' = "free" /\ job' = NoJob /\ UNCHANGED <<overlay, shown>>
     ELSE JobDone /\ shown' \in {shown, Elements(saved')}
  /\ UNCHANGED <<multi, selected>>

-----------------------------------------------------------------------------
(* A new document: the list is read from sessionStorage, timers are gone.  *)
NewPage == /\ shown' = {} /\ multi' = FALSE /\ selected' = {}
           /\ overlay' = FALSE /\ turn' = "free" /\ job' = NoJob
PageLoads == /\ turn = "free"
             /\ saved' = stored /\ UNCHANGED <<stored, threw>> /\ NewPage
(* The app ends at any moment; its sessionStorage ends with it. *)
Restarts == saved' = <<>> /\ stored' = <<>> /\ threw' = FALSE /\ NewPage

Clicks ==
  \/ \E a \in Found : Save({a})
  \/ \E S \in SUBSET Found : Save(S)
  \/ \E a \in shown : DeleteSave(a) \/ ToggleItemSelection(a)
  \/ OnClickClearSave \/ BatchDelete
  \/ ToggleMultiSelect \/ SelectAllItems \/ ReverseSelectItems \/ OpenSavePage
  \/ \E kind \in {"filter", "edit"} : Postpone(kind)
  \/ ConfirmOffset

Work == FilterRuns \/ EditRuns \/ OffsetOne \/ OffsetThrows \/ NextBatch \/ OffsetDone

Next == Clicks \/ Work \/ PageLoads \/ Restarts
Spec == Init /\ [][Next]_vars
(* Timers fire, and the page's thread runs a function to its end. *)
FairSpec == Spec /\ WF_vars(Work)

-----------------------------------------------------------------------------
(* Types of the variables.  The thread is in a loop over batches only for  *)
(* an offset, and while a job waits the overlay keeps the user away from   *)
(* the list.                                                               *)
SavedTypeOK ==
  /\ saved \in Seq(Int) /\ stored \in Seq(Int)
  /\ shown \subseteq Int /\ selected \subseteq Int
  /\ multi \in BOOLEAN /\ overlay \in BOOLEAN /\ threw \in BOOLEAN
  /\ turn \in {"free", "batch"}
  /\ job \in OffsetJob \cup OtherJob \cup {NoJob}
  /\ turn = "batch" => job \in OffsetJob
  /\ ~overlay => job = NoJob

(* No address is saved twice, at any moment of an offset too.              *)
SavedOnce == \A m, n \in DOMAIN saved : saved[m] = saved[n] => m = n

(* sessionStorage never holds a list that a job has half done: a page that *)
(* is loaded again in the middle of a job finds the list as it was before. *)
StoredIsWhole == [][stored' # stored => stored' = saved' /\ job' = NoJob]_vars

(* With no job and no exception, the list is sorted by address, and every  *)
(* entry of it survives a load of the page.                                *)
RestIsSorted ==
  job = NoJob /\ ~threw =>
    /\ \A m, n \in DOMAIN saved : m < n => saved[m] < saved[n]
    /\ Elements(saved) \subseteq Elements(stored)

(* An offset moves every address of its list, except one that lands on an  *)
(* address that is moved after it, and leaves all other entries alone (a   *)
(* restart of the app empties the list, and the copy too).                 *)
OffsetMoves ==
  [][turn = "batch" /\ job' = NoJob /\ overlay /\ ~overlay' /\ stored' # <<>> =>
       LET moved == {a + job.by : a \in Elements(job.addrs)}
           rest == IF job.from = "save" THEN job.before \ Elements(job.addrs) ELSE job.before
       IN /\ rest \subseteq Elements(saved') /\ Elements(saved') \subseteq rest \cup moved
          /\ \A n \in DOMAIN job.addrs :
               \/ job.addrs[n] + job.by \in Elements(saved')
               \/ job.from = "save" /\ \E m \in DOMAIN job.addrs :
                                         m > n /\ job.addrs[m] = job.addrs[n] + job.by]_vars

(* The overlay goes away again, unless an exception ended the job.         *)
JobEnds == overlay ~> (~overlay \/ threw)
=============================================================================
