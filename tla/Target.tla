-------------------------------- MODULE Target --------------------------------
(***************************************************************************)
(* The process that H5GG works on: setTargetProc and clearResults of       *)
(* src/h5gg.h, the list of processes of the page (src/Index.html), and     *)
(* setValue with the steps of module MemWrite.                             *)
(*                                                                         *)
(* Processes start and end, and a pid is given again.  H5GG knows a        *)
(* process by its pid and by a send right to its task port, which stays    *)
(* with the process it was made for.  The calls run on the web thread, one *)
(* after the other: none starts while setValue runs.                       *)
(*                                                                         *)
(* A definition whose name is that of the next one with a word after it is *)
(* that definition with an error in it; the specification does not use it. *)
(***************************************************************************)
EXTENDS MemWrite, Sequences

CONSTANTS
  Procs,    \* the processes that run at some time
  Self,     \* the process H5GG runs in
  Pids,     \* process numbers
  SelfPid,
  NULL      \* MACH_PORT_NULL

ASSUME ProcsAssumption == /\ Self \in Procs /\ NULL \notin Procs
                          /\ Pids \subseteq Nat \ {0} /\ SelfPid \in Pids

VARIABLES
  running,    \* getRunningProcess: pid and process, in the order they started
  started,    \* the processes that started; one that ended never runs again
  (* h5ggEngine *)
  targetpid,
  targetport, \* the process of the port
  refs,       \* refs[p]: rights to the task of p that task_for_pid made
  engineTask, \* engine->task
  found,      \* the process in whose memory the results were found
  (* the page *)
  entries,    \* the buttons of procListContainer, and currentProcPids
  procModal,  \* the list is shown
  procname,   \* the entry shown as the target, or NULL
  (* history, read by properties only *)
  asked       \* who last called setTargetProc

processes == <<running, started>>
h5gg == <<targetpid, targetport, refs, engineTask, found>>
pageVars == <<entries, procModal, procname>>
vars == <<processes, h5gg, pageVars, asked, writeVars>>

Entry == [pid: Pids, proc: Procs]
PidsOf(list) == [n \in DOMAIN list |-> list[n].pid]
Alive(p) == \E n \in DOMAIN running : running[n].proc = p
OfPid(k) == {running[n].proc : n \in {n \in DOMAIN running : running[n].pid = k}}

Init ==
  /\ running = <<[pid |-> SelfPid, proc |-> Self]>> /\ started = {Self}
  /\ \/ targetpid = 0 /\ targetport = NULL         \* g_standalone_runmode
     \/ targetpid = SelfPid /\ targetport = Self
  /\ refs = [p \in Procs |-> 0]
  /\ engineTask = targetport /\ found = NULL
  /\ entries = <<>> /\ procModal = FALSE /\ procname = NULL
  /\ asked = "nobody"
  /\ WriteInit

Idle == step = "idle"

-----------------------------------------------------------------------------
(* The system *)

Starts(p, k) ==
  /\ p \notin started /\ OfPid(k) = {}
  /\ running' = Append(running, [pid |-> k, proc |-> p])
  /\ started' = started \cup {p}
  /\ UNCHANGED <<h5gg, pageVars, asked, writeVars>>

(* The port of a process that ended is a dead name: the right remains. *)
Ends(n) ==
  /\ running[n].proc # Self
  /\ running' = [m \in 1 .. (Len(running) - 1) |-> running[IF m < n THEN m ELSE m + 1]]
  /\ IF ~Idle /\ running[n].proc = engineTask THEN TaskEnds ELSE UNCHANGED writeVars
  /\ UNCHANGED <<started, h5gg, pageVars, asked>>

-----------------------------------------------------------------------------
(* h5ggEngine *)

(* clearResults: a new engine on the port. *)
Rebuild(port) == engineTask' = port /\ found' = NULL

ClearResults ==
  /\ Idle
  /\ Rebuild(targetport)
  /\ UNCHANGED <<processes, targetpid, targetport, refs, pageVars, asked, writeVars>>

(* A search and what it leaves in the list (modules MemScan and H5gg). *)
Search ==
  /\ Idle
  /\ found' \in {found, NULL} \cup {p \in {engineTask} : Alive(p)}
  /\ UNCHANGED <<processes, targetpid, targetport, refs, engineTask, pageVars, asked, writeVars>>

(* setTargetProc answers YES at once for the pid it has. *)
Kept(k) == k = targetpid /\ targetport # NULL

(* mach_task_self is not deallocated, and its rights are not counted. *)
ReleasedNever == refs
Released == [p \in Procs |-> IF p = targetport /\ p # Self THEN refs[p] - 1 ELSE refs[p]]
Retained(r, port) == [p \in Procs |-> IF p = port /\ p # Self THEN r[p] + 1 ELSE r[p]]

(* The engine that setTargetProc makes: on no process. *)
TargetEngineEarly == engineTask' = targetport /\ found' = NULL
TargetEngine == Rebuild(NULL)

(* task_for_pid may refuse; then there is no target. *)
Retarget(k) ==
  \E port \in OfPid(k) \cup {NULL} :
    /\ targetport' = port
    /\ targetpid' = IF port = NULL THEN 0 ELSE k
    /\ refs' = Retained(Released, port)

ScriptSetsTarget(k) ==
  /\ Idle
  /\ IF Kept(k) THEN UNCHANGED h5gg ELSE Retarget(k) /\ TargetEngine
  /\ asked' = "script"
  /\ UNCHANGED <<processes, pageVars, writeVars>>

(* setValue, from a script or from the page. *)
SetValue ==
  /\ Idle
  /\ \E p \in Pages, n \in {0, 1} : JJWriteMemory(p, p .. (p + n), ~Alive(engineTask))
  /\ UNCHANGED <<processes, h5gg, pageVars, asked>>

-----------------------------------------------------------------------------
(* The page *)

RefreshProcListPids == entries' = [n \in DOMAIN running |-> [pid |-> running[n].pid]]

(* refreshProcList leaves the list alone when its pids are the same. *)
RefreshProcList ==
  entries' = IF PidsOf(entries) = PidsOf(running) THEN entries ELSE running

ShowProcList ==
  /\ Idle
  /\ RefreshProcList /\ procModal' = TRUE
  /\ UNCHANGED <<processes, h5gg, procname, asked, writeVars>>

CloseProcModal ==
  /\ Idle /\ procModal
  /\ procModal' = FALSE
  /\ UNCHANGED <<processes, h5gg, entries, procname, asked, writeVars>>

(* A button of the list: onClickClearResults follows a YES. *)
PickedForgets(n) ==
  /\ Idle /\ procModal
  /\ \/ /\ Kept(entries[n].pid)
        /\ UNCHANGED <<targetpid, targetport, refs, engineTask, found>>
     \/ ~Kept(entries[n].pid) /\ Retarget(entries[n].pid) /\ TargetEngine
  /\ IF targetport' # NULL THEN procname' = entries[n] /\ procModal' = FALSE
                           ELSE UNCHANGED <<procname, procModal>>
  /\ asked' = "page"
  /\ UNCHANGED <<processes, entries, writeVars>>
Picked(n) ==
  /\ Idle /\ procModal
  /\ \/ Kept(entries[n].pid) /\ UNCHANGED <<targetpid, targetport, refs>>
     \/ ~Kept(entries[n].pid) /\ Retarget(entries[n].pid)
  /\ \/ /\ targetport' # NULL
        /\ procname' = entries[n] /\ procModal' = FALSE
        /\ Rebuild(targetport')
     \/ /\ targetport' = NULL
        /\ TargetEngine
        /\ UNCHANGED <<procname, procModal>>
  /\ asked' = "page"
  /\ UNCHANGED <<processes, entries, writeVars>>

(* The page is loaded again: a new document, clearResults, and checkprocs, *)
(* which asks for getTargetProc.  The engine exports no such function, so  *)
(* the list is always shown, and the check every 1.5 s whether the target  *)
(* is alive never finds it ended.                                          *)
PageLoads ==
  /\ Idle
  /\ Rebuild(targetport)
  /\ entries' = running /\ procModal' = TRUE /\ procname' = NULL
  /\ UNCHANGED <<processes, targetpid, targetport, refs, asked, writeVars>>

System == \/ \E p \in Procs, k \in Pids : Starts(p, k)
          \/ \E n \in DOMAIN running : Ends(n)
          \/ GameProtects /\ UNCHANGED <<processes, h5gg, pageVars, asked>>
Engine == \/ ClearResults \/ Search \/ SetValue
          \/ \E k \in Pids : ScriptSetsTarget(k)
          \/ WriteStep /\ UNCHANGED <<processes, h5gg, pageVars, asked>>
Page == \/ ShowProcList \/ CloseProcModal \/ PageLoads
        \/ \E n \in DOMAIN entries : Picked(n)

Next == System \/ Engine \/ Page
Spec == Init /\ [][Next]_vars

-----------------------------------------------------------------------------
(* Types of the variables.                                                 *)
TargetTypeOK ==
  /\ running \in Seq(Entry) /\ entries \in Seq(Entry)
  /\ started \subseteq Procs
  /\ targetpid \in Pids \cup {0}
  /\ targetport \in Procs \cup {NULL} /\ engineTask \in Procs \cup {NULL}
  /\ found \in Procs \cup {NULL}
  /\ refs \in [Procs -> Int]
  /\ procModal \in BOOLEAN /\ procname \in Entry \cup {NULL}
  /\ asked \in {"nobody", "script", "page"}
  /\ WriteTypeOK

(* setTargetProc keeps one right, to the target: none leaks when targets   *)
(* change, refuse or end, and none is released twice.                      *)
RightsBalanced ==
  \A p \in Procs \ {Self} : refs[p] = IF p = targetport THEN 1 ELSE 0

(* The engine works on the target or on nothing: never on a port whose     *)
(* right was released, and the list holds addresses of no other process.   *)
SearchedIsTarget ==
  /\ engineTask \in {targetport, NULL}
  /\ found \in {engineTask, NULL}

(* After the user picked a process, the page shows the pid of the target,  *)
(* if there is one, and the engine works on it.                            *)
PickedIsSearched ==
  asked = "page" /\ targetport # NULL =>
    /\ engineTask = targetport
    /\ procname # NULL => procname.pid = targetpid

(* A setTargetProc that answers YES leaves an engine that works on a       *)
(* process with that pid.                                                  *)
YesMeansSearched ==
  [][\A k \in Pids :
       ScriptSetsTarget(k) /\ targetport' # NULL => engineTask' \in OfPid(k)]_vars
=============================================================================
