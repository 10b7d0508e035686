# A TLA+ model of H5GG

H5GG puts a floating web page over an iOS game. Scripts of that page search the
game's memory for values, refine the search while the game plays on, and write
new values. This directory models the parts of H5GG that decide what a script and
its user see: the search engine and its list of results, the session the script
engine keeps around it, the process it works on, the write that follows, the saved
list of the page, the dialogs that block their caller, and the structure through
which SpringBoard and the app show the page when it floats over every app. The
modules are checked with TLC on small instances; the theorems are proved with
TLAPS for all instances.

## The system

| Part | Where | State it keeps | Operations | What makes it correct | Modules |
| --- | --- | --- | --- | --- | --- |
| Search engine `JJMemoryEngine` | `src/MemScan.h` | `result` (regions of slides and types, and a count), the map of regions, `firstScanDone`, tolerance, `lastNumberType`, `memoryLimitReached` | number search (first, repeated), nearby search, group search, write all, write | results are matches, all matches are found, count and list agree, a type stays with its result, the limit holds, a write leaves the page as protected as it was | `MemScan`, `Lists`, `MemWrite` |
| Script engine `h5ggEngine` | `src/h5gg.h` | `firstSearchDone`, `lastSearchType`, target pid and port, the engine | the `h5gg.*` calls of a script | the session and the engine agree about what was searched; the engine works on the target; no right leaks | `H5gg`, `Target`, `GroupParse`, `ResultList`, `H5ggList` |
| Processes and modules | `src/crossproc.h` | none | list processes, list modules of a target, size of a module | the process a user picks is the one searched | `Target` (processes) |
| Page | `src/Index.html`, `src/Index-en.html` | the saved list and its copy, rows, selection, jobs, the list of processes | save, delete, select, filter, offset in batches, edit, pick a process | no saved entry is lost or duplicated; no half-done list is stored; a job ends | `SavedList`, `Target` |
| Modal dialogs | `src/ModalShow.h`, `src/FloatMenu.h` | one static semaphore | alert, confirm, prompt from two threads | every caller is released by its own dialog, which is in sight | `ModalShow` |
| Shared view | `src/globalview/`, `SetGlobalView` in `src/Tweak.mm` | `GVData`, one structure mapped into two processes | timers of 0.1 s in both, flags set by one and cleared by the other | no request or click is lost, the view appears once the app is loaded | `GlobalView` |
| Floating window | `src/FloatMenu.h`, `src/Tweak.mm` | the JS context, callbacks, drag and touch areas | reload, injection of the API, callbacks on the web thread | a callback is only called while its page lives; the window is in front | `GlobalView` (reload, button), `ModalShow` (order of the views) |
| Plugin maker | `src/makeDYLIB.h` | none | put an icon and a page into a copy of the library | the copy differs in the two stubs only | |

How they interact: a script call runs on the web thread, synchronously, through
`h5ggEngine` into `JJMemoryEngine`, which reads the memory of the game with
kernel calls. In the injected version the game's threads run in the same
process, in the cross-process version in another; in both they run while the
engine does. The page calls the same API as any script, and keeps its own lists of
what the engine returned. A dialog that a script opens is shown by the main thread,
for which the web thread waits. The floating window owns the script engine and
registers the callbacks; in the hosted version SpringBoard shows the app's view and
both talk through `GVData`.

What is hard: the game writes, unmaps and maps memory between any two reads of a
search; an allocation that fails in the middle of a search leaves what was done
so far and the page goes on; four ways to add results share one list with two
representations of a result's type; a limit that is checked in some of the
places that add; two flags, one in each engine, that both mean "a search was
done". The target is known by a pid that the system gives again; `setValue` takes
five kernel calls, between which the game protects and unmaps its pages. A job of
the page gives up its thread between batches, and its list has a copy that outlives
a load of the page. Two threads share the one semaphore of the dialogs. In the
hosted version two processes poll one structure without a lock, and one of them may
end and start again at any moment while the structure stays. `PROJECT.json` lists
the hazards by line.

## Modules

A definition whose name is that of another with a word added (`ReleasedNever` for
`Released`, `TakeSignalBlind` for `TakeSignal`) is that definition with a plausible
error in it. No specification uses it; it is what shows that a property would
notice the error (`PROJECT.json`, "mutants").

`MemScan.tla` is `JJMemoryEngine` with the game's memory.

* `mem[a]` is a cell. A value of type `t` takes `TypeLen[t]` cells and is the
  little-endian number they spell (`Value`). Two cell values and types of one
  and two cells keep what the code distinguishes: alignment, overlap of values of
  different lengths, values that straddle a region's end.
* A float is searched with the tolerance, every other type without
  (`Tolerance`); a float itself is a number like the others.
* `regions` is `result->regions`: records of base, size, slides and types, or
  `NULL`. `cache` is the engine's map of regions. Slides are 1-based here.
* A call is a sequence of steps. `op` says which loop runs; `todo` holds the
  regions (first scan) or anchors (group search) not examined yet, `i` the index
  in `regions`, `j` the offset or slide reached, `mapsize` how much `loadRegion`
  could map (0: no region is loaded), `newRegion` and `newCount` the locals of
  the same name. One step is one call of `loadRegion` or one iteration of a loop
  over a region, so that the game can act between them. `vm_remap` shares pages
  with the game, hence a loaded region shows the game's writes. In the game's own
  process a region tagged `MALLOC_NANO` is read in place (`MemScan.h:328-345`); that
  shows the same cells and cannot fail as `vm_remap` can, so `LoadRegion` covers it.
* A first scan: `JJScanMemory`, then for each region `FirstLoad`, any number of
  `FirstFound`, and `FirstExhausted` or `FirstLimit`; `FirstDone` sets
  `firstScanDone`. A repeated one: `AgainSkip` or `RefineLoad`, `AgainKeep` /
  `AgainDrop` for each slide, `RefineNext`; `RefineDone` erases the nulls. A
  nearby search shares the loop and has `NearFound` / `NearMiss` for each window.
  A group search finds its anchors at once (`AnchorMatches`), then `GroupFound` /
  `GroupMiss` for each; `GroupDone`. `JJWriteAll`: `EditSlide`, `EditNext`,
  `EditDone`.
* `*Null` and `*Fault` actions end in `op = "crashed"`: a null region is
  dereferenced, or a value is read that ends beyond the mapped pages. In the
  second case the read may also succeed and yield anything, so the model also
  takes every verdict.
* `OutOfMemory` is `std::bad_alloc` at any point of a search; the frame is lost,
  the object stays as it is.
* `matched` is a history variable that only properties read: which address was
  found with which type by the search that last kept it.

`H5gg.tla` extends it with `h5ggEngine`. A call is made in `op = "idle"`, under the
code's guards; `Return` is the code after the `try` block, which runs after an
exception too. Calls whose guard fails only raise an alert and are no steps.

`Lists.tla` holds the one helper that `MemScan` and `SavedList` share (`Sorted`, the
ascending list of a set of numbers).

`ResultList.tla` is what `searchNumber`, `editAll` and `clearResults` promise a
script about the list of results while memory holds still: a first search lists
every match unless the list gets full, every later search removes exactly what does
not match, an edit leaves the list alone. `H5ggList.tla` maps `H5gg` to it: `list` is
the set of addresses in the regions, `call` follows from `op`, `q.api` and
`firstSearchDone`, `matching` is evaluated in the current memory, `full` is
`memoryLimitReached`. `ListImplemented` is the refinement. The steps of the loops map
to `Find`, `Improve` or a stutter.

`MemWrite.tla` is `JJWriteMemory` kernel call by kernel call: `step` names the call
that comes next (query the region, add write permission, fall back to read and
write alone, write, make the page writable once more and write again, restore).
Between the calls the game's threads protect, map and unmap pages and the process may
end; every kernel call may be refused where the state allows it. `left` remembers what the
game itself gave each page.

`Target.tla` is the process H5GG works on: `setTargetProc` and `clearResults` of
`src/h5gg.h`, the page's list of processes (`refreshProcList`, the buttons, what
a load of the page does), `setValue` with the steps of `MemWrite`.

* A process is an element of `Procs`, a pid a number that is given again after its
  process ended. `targetport` is the process whose port `task_for_pid` returned;
  `refs` counts the rights.
* `engineTask` and `found` are the engine as far as this module needs it: the task it
  was made with and whose addresses are in its list. What a search does is in
  `MemScan`; here `Search` may leave any list.
* `Picked` is a button of the page: `setTargetProc` and then, if there is a target,
  `clearResults`. `ScriptSetsTarget` is the bare call of a script.

`SavedList.tla` is the saved list of the page.

* `saved` is `savedAddresses`, `stored` its copy in `sessionStorage`, `shown` the
  rows of `saveContainer`. An entry is its address. Addresses are saved from the search
  and memory pages; the rows are made anew when the save page is opened
  (`OpenSavePage`), so that the refresh in `saveAddress`, for an open save page, has no turn.
* A job (`Postpone`, then `FilterRuns` or `EditRuns`) runs from a timer. An offset runs
  in batches: `OffsetOne` for each address, `turn` says whether the page's thread is in
  the loop, `NextBatch` is the timer between two batches. Only between batches can the
  page be loaded; the app can end anywhere (`Restarts`).
* An offset below zero makes an address `BigInt` refuses: `OffsetThrows` and
  `SortAndStore` model where the exception leaves the function.

`ModalShow.tla` is `alert`, `confirm` and `prompt` of both threads over the static
semaphore.

* A call is an element of `WebCalls` or `MainCalls`. `semaphore` names the call that made the
  current one, `value` the signals not taken, `waitsOn` what the web thread is blocked
  on, `stack` the calls that the main thread's nested run loops are in.
* A call comes to its dialog in the steps of the code (`phase`): the window's move to the
  back is queued (`WebBegins`, `MainBegins`), the semaphore is made (`WebPresents`), the
  dialog is queued (`WebSubmits`), the thread waits (`WebWaits`). The main thread makes
  the semaphore and shows the dialog in one step (`MainPresents`); between its first two steps
  it serves neither its queue nor the user (`MainFree`), while the web thread may act.
* `queue` is the main queue: the window's moves to the back and to the front, and dialogs
  to be shown for the web thread. `Tapped` is a button of the dialog on the screen.
* Replacing the semaphore a thread waits on may end the process (`crashed`), and so may
  two threads that replace it at the same moment.

`GroupParse.tla` reads the string of a group search: an item is split by the code's
patterns, its type looked up, its number cut to the type's width. A number is the
sequence of its digits; sign and fraction are left out.

`GlobalView.tla` is the hosted version: `src/globalview/` in SpringBoard,
`SetGlobalView` and the page's functions in `src/Tweak.mm` in the app.

* `gv` is `GVData`. `host` is `hostView`: `"loading"` is a view without a superview.
  `app` is the app's process: `"boot"` before `SetGlobalView`, `"alone"` if the
  structure could not be mapped, `"mapped"` after it.
* `sb` says where SpringBoard's main thread stands in a block of a timer, because
  the app may act there: between finding the app gone, resetting the structure and looking for a
  request (`MonitorGone`, `MonitorReset`, `MonitorRest`), between reading the visibility and clearing its
  flag (`MonitorTick`, `MonitorClear`), between reading an image and clearing its
  size (`MainTick`, `MainFetched`). The blocks and the clicks exclude each other.
* `AppTick` is a tick of the app's timer, in one step: it reads `curOrientation`
  several times, and a change between two of the reads only delays `appLoaded` to
  the next tick. It queues a block (`posts`) that the web thread runs
  (`CallButtonAction`); a block posted without a callback does nothing.
* The two stores of `setWindowVisible` are steps, in either order, because
  nothing orders them for the other process (`StoreRequest`). If the view is not
  hosted, the request waits for the main thread (`ShowFloatWindow`); a page makes
  its next request after that.
* `Killed` and `ScreenLocked` end the app at any point; `gv` stays as it was.
* `count` keeps the bound of starts, and the clicks and calls that
  `OneCallPerClick` compares.

Left out: the rectangles and touches of `GVData`, the Loading alert as an object,
the other way of hosting on iOS 12 and before, a start without network (another
dialog comes first), images too large for the structure. An image is one store.
It is assumed that the rotation the app asks for is carried out, that the app has
a key window in the end, and that touches reach the app's own button only while
the app is not hosted.

The `MC*` modules hold the constants of the instances. `GlobalView` and `ModalShow` are
small enough to be instantiated by their `.cfg` files alone. `*_proofs` are the
theorems: `H5gg_proofs` (types), `H5gg_session_proofs` (the session and the list),
`H5gg_results_proofs` (count, limit and types of results), `H5gg_quiet_proofs` (what
searches find and edits write, the refinement of `ResultList`), `Target_proofs` (with those of `MemWrite`),
`SavedList_proofs`, `ModalShow_proofs`, `GlobalView_proofs`.

### Assumptions about the kernel

`vm_region_recurse_64` returns the regions in address order, whole, without
submaps. `vm_read_overwrite` fails on an unmapped page. `vm_remap` maps whole
pages, at the offset asked for also when the base of a group's region is not a
page boundary. `vm_write` writes all bytes or none. Group anchors and
the regions of a first scan are listed at once: the game does not write or unmap
during that listing. The 8-byte probe of `loadRegion` never crosses into a page
that is unmapped. `mach_vm_protect` grants what it granted a page before.
`dispatch_semaphore_wait` and `_signal` count; libdispatch may end the process
when a semaphore is released while a thread waits on it.

## Runs

The memory of the engine's runs has one to four regions of one to three pages of one or two
cells. That is enough for a gap between regions, a region that shrinks by a page, a
value across two pages, a search range that begins or ends in the middle of a region
and a region that is skipped altogether. Limits of 2 to 4 results are reached in
these memories. `MaxList` is the only bound there that is not in the code: a nearby
or group search starts only from a list of that many results at most, because both
can add results for ever.

| Run | Instance | What it shows |
| --- | --- | --- |
| `number` | regions of one and two pages with a gap, two lengths, an exact value and a range, limit 4, the game writes; 820,000 states | the count is the number of listed results; a result is reported with the type it was matched as; the limit holds; once a search was done `searchNumber` only removes |
| `quiet` | four regions, one read-only, one the engine's stack, an integer and a float type, each searched with tolerance 0 and 1, memory at rest during calls; 274,000 states | a first search finds every aligned match up to the limit; when a search ends all results match; `editAll` writes every writable result and counts them; nothing crashes with types of one length; `H5gg` implements `ResultList` |
| `near` | one region of two pages, nearby searches of the same and of another length, the game writes and unmaps, `vm_remap` fails; limit 3, `MaxList` 2; 936,000 states | the types recorded with slides stay parallel and correct; no null pointer stays in the list |
| `group` | two regions that touch, of two pages each, the second read-only; two items of one cell, each as anchor and the automatic choice, in both modes, and an anchor of two cells behind an item of one, seen in one of two ranges; mixed with all other calls; limit 2, `MaxList` 1, time limits and `bad_alloc`; 234,000 states | every group at whose anchor the scan looks is found, if the search came to it; `editAll` writes and counts the results in writable memory and leaves the others; a clear starts a fresh session; types of variables; under fairness every call returns or crashes |
| `target` | two pages with three protections, H5GG and two processes, two pids; 1,800,000 states | one right is kept, to the target; the engine works on the target or on nothing; what the user picked is searched; `setValue` puts protections back and reports what it wrote |
| `saved` | two addresses to save, offsets by 1 and -1 down to -1, batches of two, three entries; 153,000 states | no address twice; what is stored is never half done; the list at rest is sorted and stored; an offset moves what it should; under fairness the overlay goes away |
| `dialogs` | two calls of the web thread, two of the main thread, overlapping in every way; 52,000 states | a tap lets one caller go on; calls that do not overlap get their own answer, in sight, and return |
| `view` | two starts of the app, two pages, one click passed on, one orientation besides the unset one; 216,000 states | `viewHosted` is set only with a view, no click calls twice, under fairness the Loading state ends and every flag is taken or reset |

`saved`: with two addresses and offsets by one an address lands on another that is moved
before it, after it or not at all; three entries take two batches; -1 is the
address that throws. `target`: two pids for three processes force a reuse; a
value spans one page or both, or a page that is not mapped. `dialogs`: with two calls
of each thread each can start inside one of the other thread, or, on the main thread, inside
another of its own, and two can follow each other; the run switches deadlock checking off because the program may stop: no call is left, or an
overlapped one waits for ever. `view`: a second start meets what the first left in the structure, a second
page meets the callbacks of the first, and with `curOrientation` 0 after every reset
one orientation is enough for an app that has to turn first. More starts and clicks
repeat these.

Four further runs show a statement of the documentation that the code does not
keep; each has an entry under "findings" in `PROJECT.json`.

| Run | What happens |
| --- | --- |
| `lower_limit` | The lower limit lies inside a region, behind a hit. The scan of the region stops at that hit: matches above the limit are missed. |
| `engine_target` | A script calls `setTargetProc` and is answered YES. The engine was made before the port was known and works on no process until `clearResults`; for a pid that was reused, YES is answered for the process that ended. |
| `group_parse` | `"100;200;300::9"`, the documentation's example: the pattern for a typed value also matches plain digits, so 10, 20 and 30 are searched for. |
| `visible_lost` | The page stores a second half of its request, or a whole one, after SpringBoard has read the visibility and before it clears the flag: the request is dropped. |

Deviations that showed up while the bounds of the passing runs were chosen limit
what those runs claim.

In the search engine: a second search in a narrower range leaves the regions it skips
in the list but does not count them (`MemScan.h:506`), although `getResultsCount` is
documented as the total number, so that `number` searches everywhere; after a group
search `firstSearchDone` is set but `firstScanDone` is not, so that the next `searchNumber`
scans from scratch and adds results, also addresses listed already (`h5gg.h:669`; `RefineOnlyShrinks` is
checked without group searches); a group search without a range adds results beyond
`MAX_SEARCH_RESULTS` (`MemScan.h:1129`), and a nearby search ignores the limit as well
(`LimitRespected` is checked with number searches alone); a group's base is reported
with the default type, not that of its first item (`h5gg.h:670`); a nearby search can list a slide twice (so
`CountIsListed` is not checked in `near`);
a group search appends a slide without a type to a region that has types (`MemScan.h:1085`, so
`TypesParallel` is not checked with group searches); a repeated search with a
longer type reads beyond the mapping (`MemScan.h:521`, so `NoCrash` is checked with one length);
`bad_alloc` in a refining search leaves null pointers in the list (`MemScan.h:539`, so `NoHoleAtRest`
is checked without it), and a first search after a `bad_alloc` lists again what the one before
had found (`MemScan.h:484`); and the scan for
a group's anchor steps by the anchor's length, so that with items of different
lengths an anchor at an odd offset is not seen (`MemScan.h:933`; `GroupFindsAll`
says where the scan looks).

In the target: a script that sets its target must call `clearResults` itself (the page
does). `getTargetProc` is not exported, so the page's check every 1.5 seconds
(`Index.html:3044`) never finds the target ended, and a load of the page always shows the
list. A page that was executable and needs the fallback is not executable while
`setValue` writes.

On the page: offsetting `[a, a+1]` by 1 loses an entry, because `a+1` is added, found
present, and then removed as the second address, while the toast counts both
(`OffsetMoves` allows exactly this, and the entries that an offset of addresses deleted since adds); an offset below zero makes `BigInt` throw and
leaves the overlay (`JobEnds` and `RestIsSorted` exempt it); a batch delete is neither stored nor shown
(`Index.html:1883`), so that `RestIsSorted` asks that what is saved is stored, not the
converse; a selection may hold addresses deleted since.

In the dialogs: a call that overlaps another may be let go by the other's button, may
never return, or may release the semaphore the other waits on.

In the shared view: if the app restarts between SpringBoard's check and
its reset, `enable` is lost and a click only shows the Loading alert until the app
starts again (`LoadingEnds` is claimed while `enable` is set); the reset leaves a
Loading alert on the screen; after a reload a click is swallowed, because
`customButtonAction` stays set while the callback is gone; a click made before a
reload may reach the new page's callback; a `setWindowVisible(false)` that decided
before the view was hosted hides the window after the timer has forced it open;
an image stored between SpringBoard's read and its clearing of the size is lost.

### Fairness

`FairSpec` adds weak fairness of `Work`, the steps of a call: the web thread runs a
call to its end without waiting for anyone, so a step that stays possible is
taken. Exceptions (`Throw`) and the game are not fair: a call must return without
their help and against the game's writes.

In `SavedList` the timers of a job fire and the page's thread runs a function to its
end (weak fairness of `Work`); clicks, loads and restarts are not fair. In
`ModalShow` threads that can run do, and the main queue is served between two turns
of a run loop, a nested one included; the user need not answer. `target` claims no
liveness: the calls wait for nobody, and processes owe nothing.

In `GlobalView` every timer repeats, so a tick that stays possible comes. The two
timers of SpringBoard share a run loop, which serves each that is due: a tick that
is possible again and again comes too (strong fairness), although the other timer's
block is in the way now and then. A block that has begun is finished. Clicks,
starts, ends and pages are not fair: nothing is claimed that needs them.

## Proofs

`tlapm` checks the eight `*_proofs` modules. The theorems hold for every memory,
every set of calls, processes, addresses and pages that satisfies the named
assumptions, every limit and every combination of faults, except where they say
so.

| Module | Theorem | Assumes | States |
| --- | --- | --- | --- |
| `H5gg` | `TypeCorrect` | | `TypeOK` is invariant |
| | `SessionIsFresh` | | `SessionFresh` is invariant |
| | `NoHoles` | no `bad_alloc` | `NoHoleAtRest` is invariant: no call leaves a null pointer in the list |
| | `ImproveShrinks` | no `bad_alloc`, no group search | `RefineOnlyShrinks` |
| | `TypesStayParallel` | no group search | `TypesParallel` is invariant |
| | `NumberLimit` | number searches only | `LimitRespected` is invariant |
| | `CountIsExact` | number searches only, no `bad_alloc`, `Disjoint`, `SameRegions` | `CountIsListed` is invariant |
| | `ReportedAsMatched` | no group search, no `bad_alloc`, `SameRegions` | `TypeIsMatched` is invariant |
| | `NeverCrashes` | no group search, no `bad_alloc`, the game unmaps nothing during a call, `OneLength` | `NoCrash` is invariant |
| | `SearchMatches` | number searches only, `Still`, `OneLength`, `SameRegions` | `ResultsMatch` is invariant |
| | `FirstIsComplete` | the same | `FirstFindsAll` |
| | `ListImplementation` | the same | `ListImplemented`: `H5gg` implements `ResultList` |
| | `EditIsComplete` | the same, `Disjoint`, `EditsFit` | `EditWritesAll` is invariant |
| | `GroupIsComplete` | the game neither writes nor unmaps during a call | `Uncut => GroupFindsAll` is invariant |
| `Target` | `TargetTypeCorrect` | | `TargetTypeOK` is invariant |
| | `RightsAreBalanced` | | `RightsBalanced` is invariant |
| | `TargetIsSearched` | | `SearchedIsTarget` is invariant |
| | `PickIsSearched` | | `PickedIsSearched` is invariant |
| | `ProtectionIsRestored` | | `ProtectionRestored` is invariant |
| | `WriteIsReported` | | `WriteReported` is invariant |
| `SavedList` | `SavedTypeCorrect` | | `SavedTypeOK` is invariant |
| | `NothingSavedTwice` | | `SavedOnce` is invariant |
| | `SortedAtRest` | | `RestIsSorted` is invariant |
| | `WholeListStored` | | `StoredIsWhole` |
| | `OffsetMovesAll` | | `OffsetMoves` |
| `ModalShow` | `ModalTypeCorrect` | | `ModalTypeOK` is invariant |
| | `AnswersAreAsked` | | `AnswerIsAsked` is invariant, for any number of calls |
| | `DialogsAreVisible` | | `DialogIsVisible` is invariant, for any number of calls |
| | `TapsBoundReturns` | | `OneReturnPerTap` is invariant, for any number of calls and overlaps |
| `GlobalView` | `ViewTypeCorrect` | | `ViewTypeOK` is invariant |
| | `HostedIsHosted` | | `HostedOnlyWithHost` is invariant, for any number of restarts |
| | `NoDoubleCall` | | `OneCallPerClick` is invariant, for any number of clicks, pages and restarts |

Those of the engine rest on the assumptions `MemScan` and `H5gg` state about their constants:
`MemoryAssumption` (finitely many regions, at natural addresses),
`TypesAssumption` (a length for every type, `NULL` is no region),
`QueriesAssumption` and `TolerancesAssumption` (calls have arguments of their own
types). "Number searches only" leaves every call but nearby and group searches:
`searchNumber`, `editAll`, `clearResults`, `setFloatTolerance`. `GroupAssumption`, how the offsets of a group's items add up, is not used
by a proof. TLC evaluates all of them in every run.

`TypeOK` is inductive as it stands, because `LoopTypeOK` and `CallTypeOK` say more
than domains: the steps of a refining search use `regions[i]` without a test once
`mapsize > 0`, and those of any search use the fields of `q`. There is one lemma for
each action. The one that takes work is `NearFound`: it appends the sorted list of a
set of slides, which is finite because both the window and the old slides near it
end below `WindowEnd + Reach`.

`SessionInv` strengthens `SessionFresh`: without a search done, only a search that
will count as the first is in progress. It follows that the `bad_alloc` of a first
scan cannot leave results behind an unset `firstSearchDone`: `Return` sets it
whatever happened. The map of regions and `lastNumberType` are those of a new engine until
then, too; only the tolerance may be set before the first search.

`HoleInv` strengthens `NoHoleAtRest`: null pointers are found only in a refining
search and only behind its index, and `Compact` removes them. With `bad_alloc` it is
false: the exception leaves the loop before `Compact`, and the next call or
`getResults` reads through the null pointer.

`ScanInv` and `KeptInv` carry `ImproveShrinks`: a search done is a scan done, so that a
search after it refines; and the slides of the region under construction are slides
of the region it will replace. Both assumptions are necessary: a group search sets
`firstSearchDone` without `firstScanDone`, so that the next search scans from
scratch, and an allocation that fails during the first scan does the same.

`ParInv` strengthens `TypesParallel` by the region under construction: a number search
records no types in it; a nearby search records one for each slide or none, and which
of the two depends on the region it reads (`NeedType`), which the loop does not change. The region is
null when the loop enters another. `GroupFound` would break it: it appends a slide
alone.

Five assumptions, defined in the modules that use them, say of which sessions the
theorems about results speak. Each but `Disjoint` leaves out a deviation described above,
which is named here, or a change of the memory that no search could know of.

* `SameRegions`: all searches of numbers meet the same regions, and no range starts
  inside one. A narrower search leaves what it skips in the list, uncounted and with the
  types it had; a range that starts inside a region is `lower_limit`.
* `OneLength`: searches are for values of one length, such as I32 and F32. A longer
  type is read beyond the mapping at a slide found for a shorter one.
* `Still`: the game neither writes nor unmaps during a call, `vm_remap` and
  allocations succeed. What a search saw may otherwise be gone when it ends. Between
  calls the game writes as it likes.
* `EditsFit`: `editAll` writes values of the length searched for, each the number its
  cells spell. A longer value overwrites a part of the next result.
* `Disjoint`: the regions of a task do not overlap; the kernel's map guarantees it.

`quiet` satisfies all five, `number` and `near` satisfy `SameRegions` and `Disjoint`: the
instances that TLC checks are among those the theorems are about.

`LimitInv` strengthens `LimitRespected`: `count` bounds the results in the list
and under construction as long as no scan is done, and in a refining search those
kept plus those not examined yet do not exceed the limit. Results are counted as the set `Slots` of pairs of a region and an
index; that an `Append` adds one pair, and that a region replaced by another changes only
its own row, are lemmas. A search after one that ran out of memory starts from the
old `count`, which is why the theorem needs no assumption about `bad_alloc`.

`CountedInv` carries `CountIsExact`. `Tally`, the count or in a refining search
`newCount`, is the number of addresses in `Counted`: those of the regions, or of the
regions behind the index, and those of the region under construction. `OnceInv` says why
no address is counted twice: the slides of a region differ and lie in it, no two
regions of the list have the same base, and a first scan adds only slides at or
behind its offset. `MetInv`, which also serves other theorems, says that every region of the list is one that all
searches meet, so that `AgainSkip` is never taken.

`NameInv` carries `ReportedAsMatched`: each result is in `matched` with the type
that `getResults` will give it, and one without a type of its own was found as
`lastNumberType`. The regions behind the index of a refining or nearby search are already
settled, those ahead of it still carry the types of the search before.

`FitInv` strengthens `NoCrash`: a region of the list is whole and still mapped, and a value
of the length searched for fits in it at each slide. `vm_remap` may fail and the game may
write; a region that cannot be loaded is skipped.

`QuietInv` conjoins `FitInv`, `MetInv` and `SearchInv`. `FoundInv` and `PassedInv` are what a
first scan knows in the middle: all that is listed matches, and every place that matches is listed, or in the region under
construction, or still ahead. `ImprovedInv` is the same for a refining search, `EndInv` what is
left when the loop ends. `SearchMatches`, `FirstIsComplete` and each step of the refinement follow. Under
the mapping of `H5ggList`, `FirstLimit` and `FirstExhausted` are `Find`, `RefineNext` and
`RefineDone` are `Improve` or a stutter, a call of `searchNumber` or `editAll` is `Begin`,
`Return` is `End`, `clearResults` is `Clear`, and all others stutter.

`EditIsComplete` needs that writing one result leaves every other as it is. `AlignedInv` says
that every slide is a multiple of the length, so that two results of a region are a whole value
apart; results of two regions are apart by `Disjoint`. `EditInv` says that `newCount` is the number of writable
results the loop has been to, each of which holds the new value.

`GroupInv` says that a group whose anchor was found is listed unless the anchor is
still to be examined. `Uncut` is the part of the claim that concerns `MAX_ANCHORS`: the anchors are listed in ascending
order up to that number, so that a group behind the last of them is missed. The bound of
`group` is above the number of its places. The limit, the time limit and `bad_alloc` are
covered: the anchors they leave stay in `todo`.

In `Target_proofs.tla`, `WriteInv` says of every step of `JJWriteMemory` which pages
may have a protection that is not their process's: none before the first change, and
then only the page of the address, whose old protection `info` holds. `TargetInv`
conjoins the three properties of the target, which are inductive together: `Rebuild` always
takes the port as it is after the call, or none. `ProcsAssumption`, `PagesAssumption` and `ProtsAssumption` are used;
processes and pids need not be finite.

In `SavedList_proofs.tla`, `SavedInv` adds that the copy holds no address twice either
(a load of the page makes it the list), that it is sorted before the first exception,
and that without an offset in progress the list is sorted and part of the copy. That a
hidden overlay means that no job is left is part of `SavedTypeOK`: no click can start a second one. Between the steps of an
offset the list is neither sorted nor stored; `OffsetDone` restores both at once.
It rests on `SavedAssumption`; `Space` and `MaxSaved` only serve TLC.

`MoveInv` carries `OffsetMovesAll` through the batches: what the offset does not touch is saved; every
entry is one of those, or a moved address, or one that is still to be moved; and each
address already taken is there at its new place, or the new place is a later address of the list, whose own move removes it.

In `ModalShow_proofs.tla`, `AloneInv` describes a call that no other overlaps: once it
has made a semaphore that is the current one, the web thread waits on that one, its dialog
is not there before, and then in the queue, on the
screen or closed, and the semaphore has a signal only after that. `WindowInv` says
that the last move of the window in the main queue, or the window itself when there is
none, agrees with whether a call is in progress. Overlaps end the claim: with them the
dialog of one call really lets another go. `TapInv` covers the overlaps:
the calls that returned and the signals not yet taken are together no more than the dialogs
closed. The signals of all semaphores are counted as one set of pairs; a new
semaphore for a call can only drop signals, and a dialog is shown once at most.

In `GlobalView_proofs.tla` both invariants are inductive together with `ViewTypeOK`, which
also says that the callback registered is one of the page that is loaded.
`HostedOnlyWithHost` is inductive because `viewHosted` is set and reset by the same
thread that owns `hostView`; the app never writes it. `OneCallPerClick` counts a click
where it is: as a flag, as a queued block, or as a call made. Each step moves it on
by one or, when the app ends or the structure is reset, loses it. The proofs use
`OrientationsAssumption` (there is an orientation, none is 0) and
`ImagesAssumption`; `BoundsAssumption` only serves TLC.

Only model-checked: liveness (`CallReturns`, `LoadingEnds`, `RequestsServed`, `JobEnds`,
`ClosedReturns`), which is out of the prover's reach, as is `ENABLED`; and what `group_parse`
says of `GroupParse`, which is a statement of the documentation that the code does not
keep. Every invariant and every action property that a passing run checks is
stated by a theorem, under the assumptions of the table. No proof covers sessions that mix number searches with
group searches, beyond `TypeOK`, `SessionFresh`, `NoHoleAtRest` and `GroupFindsAll`: the deviations above
break the other properties there.

## Not modelled, and why

* Third-party and generated code, by far the largest part of the tree: the Frida core
  header and Dobby with the Mach headers under `src/pluginDemo/`, `src/ldid-master/`. It is not
  H5GG's own and H5GG only links or ships it.
* The launcher, the examples and the plugin demos: other programs.
* Formatting and parsing of single values, logging, alerts' texts, the release of
  spare capacity.
* Regions of 2 GB and more, where `loadRegion`'s `int s` overflows, and submaps of
  regions.
* `getProcessList`'s retry when the buffer is too small (`crossproc.h:52`): how the size grows
  is the kernel's answer. The headers of modules (`getMachoVMSize`, `getRangesList2`):
  parsing of bytes without a state. Paging of `getResults`: it reads.
* The plugin maker: one pass over a copy of the library's bytes.
* Views and gestures, touch areas, the layout callback, window levels: geometry that no property here could read.
  The hosting of the app's view uses private frameworks.
* Of the shared view: hosting on iOS 12 and before with its second timer, the image's
  size and data as two stores (`Tweak.mm:334`). That `setWindowVisible` may hide a
  window that was just forced open (`Tweak.mm:385`) is in the model, and no property denies it.
* On the page: the search and memory lists (they show what the engine returns), locks,
  histories, scripts and settings.

## What is left

1. `GlobalView` with the size and the data of an image as two stores, and the way of
   hosting of iOS 12.
2. `FloatMenu`: the layout callback and the touch areas.
3. Pure algorithms against reference definitions: paging of `getResultsAndTypes`, the
   size of a module.
4. Proofs: that the loops of a nearby search find every window they should, for which
   there is no property yet.
