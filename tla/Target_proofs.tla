----------------------------- MODULE Target_proofs -----------------------------
(***************************************************************************)
(* The rights to task ports, the process searched and the protection of    *)
(* pages: theorems of module Target, for any processes, pids and pages.    *)
(***************************************************************************)
EXTENDS Target, TLAPS

-----------------------------------------------------------------------------
(* One call of setValue (module MemWrite) *)

(* A page whose protection is not its process's is the page of the address, *)
(* the engine has made it writable, and mach_vm_region was asked before.    *)
Foreign(p) == p = page /\ prot[p] # Unmapped
WriteInv ==
  /\ step # "idle" => \A p \in Pages : prot[p] = left[p] \/ Foreign(p)
  /\ step \in {"region", "protect", "fallback"} => prot = left
  /\ step \in {"protect", "fallback"} => base
  /\ step = "write" /\ ~base => prot = left
  /\ step \in {"region", "protect", "fallback", "write"} => ~result /\ ~written
  /\ result = written
  /\ ProtectionRestored

WriteAll == WriteTypeOK /\ WriteInv

LEMMA AccessIsMapped == \A access \in Access : access # Unmapped
BY DEF Access, Unmapped

LEMMA CallWrites ==
  ASSUME WriteAll, SetValue
  PROVE  WriteAll'
<1> USE PagesAssumption, ProtsAssumption DEF WriteAll
<1>1. PICK p \in Pages, n \in {0, 1} : JJWriteMemory(p, p .. (p + n), ~Alive(engineTask))
  BY DEF SetValue
<1>2. /\ page' = p /\ span' = p .. (p + n)
      /\ prot' \in [Pages -> Prots \cup {Unmapped}] /\ left' = prot'
      /\ step' = "region"
      /\ info' = {} /\ base' = FALSE /\ result' = FALSE /\ written' = FALSE
  BY <1>1 DEF JJWriteMemory
<1>3. dead' \in BOOLEAN
  <2>1. dead' = ~Alive(engineTask)
    BY <1>1 DEF JJWriteMemory
  <2> QED
    BY <2>1
<1>4. WriteTypeOK'
  <2>1. page' \in Int /\ span' \subseteq Int
    BY <1>2
  <2>2. info' \in Access
    BY <1>2 DEF Access
  <2>3. prot' \in [Pages -> Access \cup {Unmapped}]
    BY <1>2
  <2> QED
    BY <1>2, <1>3, <2>1, <2>2, <2>3 DEF WriteTypeOK, Steps
<1>5. WriteInv'
  BY <1>2 DEF WriteInv, ProtectionRestored, Foreign
<1> QED
  BY <1>4, <1>5

(* The page made writable by the engine is mapped, and no other changes. *)
LEMMA ProtectKeeps ==
  ASSUME WriteTypeOK, NEW access \in Access, Protect(access), UNCHANGED <<left, page>>,
         \A p \in Pages : prot[p] = left[p] \/ Foreign(p)
  PROVE  /\ prot' \in [Pages -> Access \cup {Unmapped}]
         /\ \A p \in Pages : prot'[p] = left'[p] \/ Foreign(p)'
         /\ \A p \in Pages : prot'[p] = left'[p] \/ (p = page /\ prot'[p] = access)
<1>1. access # Unmapped
  BY AccessIsMapped
<1>2. prot' = [prot EXCEPT ![page] = access] /\ page \in Pages
  BY DEF Protect
<1>3. prot' \in [Pages -> Access \cup {Unmapped}]
  BY <1>2 DEF WriteTypeOK
<1>4. \A p \in Pages : prot'[p] = IF p = page THEN access ELSE prot[p]
  BY <1>2 DEF WriteTypeOK
<1> QED
  BY <1>1, <1>3, <1>4 DEF Foreign

LEMMA WritesAnswer ==
  ASSUME WriteAll, QueryRegion \/ Write \/ Rewrite \/ Returned
  PROVE  WriteAll'
<1> USE DEF WriteAll, WriteTypeOK, WriteInv, ProtectionRestored, Foreign, Steps,
            locals, outcome, memory
<1>1. CASE QueryRegion
  <2>1. ASSUME NEW p \in Pages, ~dead, Region(p), info' = prot[p],
               base' = ("w" \notin prot[p]),
               step' = IF base' THEN "protect" ELSE "write",
               UNCHANGED <<result, memory, dead, page, span, written>>, step = "region"
        PROVE  WriteAll'
    <3>1. prot[p] \in Access
      BY <2>1 DEF Region, Mapped
    <3> QED
      BY <2>1, <3>1
  <2>2. ASSUME Finish(FALSE), UNCHANGED <<info, base, memory, dead, page, span, written>>,
               step = "region"
        PROVE  WriteAll'
    BY <2>2 DEF Finish
  <2> QED
    BY <1>1, <2>1, <2>2 DEF QueryRegion
<1>2. CASE Write
  <2>1. CanWrite \in BOOLEAN
    BY DEF CanWrite
  <2> QED
    BY <1>2, <2>1 DEF Write
<1>3. CASE Rewrite
  <2>1. CanWrite \in BOOLEAN
    BY DEF CanWrite
  <2> QED
    BY <1>3, <2>1 DEF Rewrite
<1>4. CASE Returned
  <2>1. {} \in Access
    BY DEF Access
  <2>2. Unknown \in [Pages -> Access \cup {Unmapped}]
    BY DEF Unknown
  <2>3. prot' = Unknown /\ left' = Unknown /\ info' = {}
    BY <1>4 DEF Returned
  <2>4. WriteTypeOK'
    <3>1. {} \subseteq Int
      OBVIOUS
    <3>2. prot' \in [Pages -> Access \cup {Unmapped}] /\ left' \in [Pages -> Access \cup {Unmapped}]
      BY <2>2, <2>3
    <3>3. /\ page' = 0 /\ span' = {} /\ step' = "idle"
          /\ dead' = TRUE /\ base' = FALSE /\ result' = FALSE /\ written' = FALSE
      BY <1>4 DEF Returned
    <3>4. span' \subseteq Int /\ info' \in Access
      BY <2>1, <2>3, <3>1, <3>3
    <3>5. step' \in Steps /\ page' \in Int
      BY <3>3 DEF Steps
    <3>6. dead' \in BOOLEAN /\ base' \in BOOLEAN /\ result' \in BOOLEAN /\ written' \in BOOLEAN
      BY <3>3
    <3> QED
      BY <3>2, <3>4, <3>5, <3>6 DEF WriteTypeOK
  <2>5. WriteInv'
    BY <1>4 DEF Returned
  <2> QED
    BY <2>4, <2>5
<1> QED
  BY <1>1, <1>2, <1>3, <1>4

LEMMA WritesProtect ==
  ASSUME WriteAll, AddWrite \/ ReadWriteOnly \/ ProtectAgain \/ Restore
  PROVE  WriteAll'
<1>0. /\ \A p \in Pages : prot[p] = left[p] \/ Foreign(p)
      /\ WriteTypeOK
      /\ UNCHANGED <<left, dead, page, span, info, base, written>>
  BY DEF WriteAll, WriteInv, AddWrite, ReadWriteOnly, ProtectAgain, Restore, locals, outcome
<1> USE DEF WriteAll, WriteTypeOK, WriteInv, ProtectionRestored, Steps, outcome, locals
<1>1. CASE AddWrite
  <2>1. info \cup {"w"} \in Access
    BY DEF Access
  <2>2. CASE Protect(info \cup {"w"}) /\ step' = "write"
    BY <1>0, <1>1, <2>1, <2>2, ProtectKeeps DEF AddWrite
  <2>3. CASE UNCHANGED prot /\ step' \in {"write", "fallback"}
    BY <1>0, <1>1, <2>3 DEF AddWrite, Foreign
  <2> QED
    BY <1>1, <2>2, <2>3 DEF AddWrite, ProtectIgnored
<1>2. CASE ReadWriteOnly
  <2>1. {"r", "w"} \in Access
    BY DEF Access
  <2>2. CASE Protect({"r", "w"}) /\ step' = "write" /\ UNCHANGED result
    BY <1>0, <1>2, <2>1, <2>2, ProtectKeeps DEF ReadWriteOnly
  <2>3. CASE UNCHANGED prot /\ Finish(FALSE)
    BY <1>0, <1>2, <2>3 DEF ReadWriteOnly, Foreign, Finish
  <2> QED
    BY <1>2, <2>2, <2>3 DEF ReadWriteOnly
<1>3. CASE ProtectAgain
  <2>1. {"r", "w"} \in Access
    BY DEF Access
  <2>2. CASE Protect({"r", "w"}) /\ step' = "rewrite"
    BY <1>0, <1>3, <2>1, <2>2, ProtectKeeps DEF ProtectAgain
  <2>3. CASE UNCHANGED prot /\ step' = "restore"
    BY <1>0, <1>3, <2>3 DEF ProtectAgain, Foreign
  <2> QED
    BY <1>3, <2>2, <2>3 DEF ProtectAgain
<1>4. CASE Restore
  <2>1. CASE Protect(info)
    BY <1>0, <1>4, <2>1, ProtectKeeps DEF Restore
  <2>2. CASE (dead \/ page \notin Pages \/ ~Mapped(page)) /\ UNCHANGED prot
    BY <1>0, <1>4, <2>2 DEF Restore, Mapped, Foreign
  <2> QED
    BY <1>4, <2>1, <2>2 DEF Restore
<1> QED
  BY <1>1, <1>2, <1>3, <1>4

LEMMA OthersWrite ==
  ASSUME WriteAll, GameProtects \/ TaskEnds
  PROVE  WriteAll'
<1> USE DEF WriteAll, WriteTypeOK, WriteInv, ProtectionRestored, Foreign, locals, outcome, memory
<1>1. CASE GameProtects
  <2> USE ProtsAssumption
  <2>1. PICK p \in Pages, access \in Prots \cup {Unmapped} :
          /\ prot' = [prot EXCEPT ![p] = access]
          /\ left' = [left EXCEPT ![p] = access]
    BY <1>1 DEF GameProtects
  <2>2. /\ prot' \in [Pages -> Access \cup {Unmapped}]
        /\ left' \in [Pages -> Access \cup {Unmapped}]
    BY <2>1
  <2>3. \A m \in Pages : IF m = p THEN prot'[m] = left'[m]
                          ELSE prot'[m] = prot[m] /\ left'[m] = left[m]
    BY <2>1
  <2>4. prot = left => prot' = left'
    BY <2>1
  <2> QED
    BY <1>1, <2>2, <2>3, <2>4 DEF GameProtects
<1>2. CASE TaskEnds
  BY <1>2 DEF TaskEnds
<1> QED
  BY <1>1, <1>2
-----------------------------------------------------------------------------
(* The target *)

TargetInv == RightsBalanced /\ SearchedIsTarget /\ PickedIsSearched
IInv == TargetTypeOK /\ WriteInv /\ TargetInv

LEMMA InitInv == Init => IInv
<1> SUFFICES ASSUME Init PROVE IInv
  OBVIOUS
<1> USE ProcsAssumption DEF Init, WriteInit
<1>1. WriteTypeOK /\ WriteInv
  <2>1. {} \in Access /\ Unknown \in [Pages -> Access \cup {Unmapped}]
    BY DEF Access, Unknown
  <2>2. {} \subseteq Int
    OBVIOUS
  <2>3. WriteTypeOK
    <3>1. span \subseteq Int
      BY <2>2
    <3>2. step \in Steps
      BY DEF Steps
    <3>3. info \in Access
      BY <2>1
    <3>4. prot \in [Pages -> Access \cup {Unmapped}] /\ left \in [Pages -> Access \cup {Unmapped}]
      BY <2>1
    <3>5. dead \in BOOLEAN /\ base \in BOOLEAN /\ result \in BOOLEAN /\ written \in BOOLEAN
      OBVIOUS
    <3>6. page \in Int
      OBVIOUS
    <3> QED
      BY <3>1, <3>2, <3>3, <3>4, <3>5, <3>6 DEF WriteTypeOK
  <2>4. WriteInv
    BY DEF WriteInv, ProtectionRestored
  <2> QED
    BY <2>3, <2>4
<1>2. TargetTypeOK
  <2>1. [pid |-> SelfPid, proc |-> Self] \in Entry
    BY DEF Entry
  <2>2. running \in Seq(Entry) /\ entries \in Seq(Entry)
    BY <2>1
  <2>3. refs \in [Procs -> Int]
    OBVIOUS
  <2> QED
    BY <1>1, <2>2, <2>3 DEF TargetTypeOK
<1>3. TargetInv
  BY DEF TargetInv, RightsBalanced, SearchedIsTarget, PickedIsSearched
<1> QED
  BY <1>1, <1>2, <1>3 DEF IInv

(* Any change of target releases the old right and keeps the new one. *)
LEMMA RetargetBalances ==
  ASSUME IInv, NEW k \in Pids, Retarget(k)
  PROVE  /\ targetport' \in Procs \cup {NULL} /\ targetpid' \in Pids \cup {0}
         /\ refs' \in [Procs -> Int]
         /\ RightsBalanced'
         /\ targetport' # NULL => targetpid' = k
<1> USE DEF IInv, TargetTypeOK
<1>1. PICK port \in OfPid(k) \cup {NULL} :
        /\ targetport' = port
        /\ targetpid' = IF port = NULL THEN 0 ELSE k
        /\ refs' = Retained(Released, port)
  BY DEF Retarget
<1>2. OfPid(k) \subseteq Procs
  <2>1. \A n \in DOMAIN running : running[n] \in Entry
    OBVIOUS
  <2>2. \A n \in DOMAIN running : running[n].proc \in Procs
    BY <2>1 DEF Entry
  <2> QED
    BY <2>2 DEF OfPid
<1>3. Released \in [Procs -> Int]
  BY DEF Released
<1>4. \A p \in Procs \ {Self} : Released[p] = 0
  BY DEF Released, TargetInv, RightsBalanced
<1>5. refs' \in [Procs -> Int]
  BY <1>1, <1>3 DEF Retained
<1>6. \A p \in Procs \ {Self} : refs'[p] = IF p = targetport' THEN 1 ELSE 0
  BY <1>1, <1>3, <1>4 DEF Retained
<1> QED
  BY <1>1, <1>2, <1>5, <1>6 DEF RightsBalanced

LEMMA SystemInv == IInv /\ System => IInv'
<1> SUFFICES ASSUME IInv, System PROVE IInv'
  OBVIOUS
<1> USE DEF IInv, TargetTypeOK, TargetInv, RightsBalanced, SearchedIsTarget,
            PickedIsSearched, processes, h5gg, pageVars
<1>1. ASSUME NEW p \in Procs, NEW k \in Pids, Starts(p, k) PROVE IInv'
  <2>1. [pid |-> k, proc |-> p] \in Entry
    BY DEF Entry
  <2>2. running' \in Seq(Entry)
    BY <1>1, <2>1 DEF Starts
  <2>3. UNCHANGED writeVars
    BY <1>1 DEF Starts
  <2>4. WriteTypeOK' /\ WriteInv'
    BY <2>3 DEF writeVars, memory, locals, outcome, WriteTypeOK, WriteInv,
                ProtectionRestored, Foreign
  <2> QED
    BY <1>1, <2>2, <2>4 DEF Starts
<1>2. ASSUME NEW n \in DOMAIN running, Ends(n) PROVE IInv'
  <2>1. running' \in Seq(Entry)
    <3>1. Len(running) \in Nat \ {0} /\ n \in 1 .. Len(running)
      BY DEF TargetTypeOK
    <3>2. \A m \in 1 .. (Len(running) - 1) : running[IF m < n THEN m ELSE m + 1] \in Entry
      BY <3>1
    <3> QED
      BY <1>2, <3>1, <3>2 DEF Ends
  <2>2. WriteTypeOK' /\ WriteInv'
    <3>1. CASE TaskEnds
      BY <3>1, OthersWrite DEF WriteAll
    <3>2. CASE UNCHANGED writeVars
      BY <3>2 DEF writeVars, memory, locals, outcome, WriteTypeOK, WriteInv,
                  ProtectionRestored, Foreign
    <3> QED
      BY <1>2, <3>1, <3>2 DEF Ends
  <2> QED
    BY <1>2, <2>1, <2>2 DEF Ends
<1>3. CASE GameProtects /\ UNCHANGED <<processes, h5gg, pageVars, asked>>
  BY <1>3, OthersWrite DEF WriteAll
<1> QED
  BY <1>1, <1>2, <1>3 DEF System

(* What setValue leaves alone while another call runs. *)
LEMMA WriteAloneInv ==
  ASSUME IInv, UNCHANGED writeVars
  PROVE  WriteTypeOK' /\ WriteInv'
BY DEF IInv, TargetTypeOK, writeVars, memory, locals, outcome, WriteTypeOK, WriteInv,
       ProtectionRestored, Foreign

LEMMA EngineInv == IInv /\ Engine => IInv'
<1> SUFFICES ASSUME IInv, Engine PROVE IInv'
  OBVIOUS
<1> USE DEF IInv, TargetTypeOK, TargetInv, SearchedIsTarget, PickedIsSearched,
            processes, h5gg, pageVars
<1>1. CASE ClearResults \/ Search
  BY <1>1, WriteAloneInv, ProcsAssumption DEF ClearResults, Search, Rebuild, RightsBalanced
<1>2. CASE SetValue
  <2>1. WriteAll'
    BY <1>2, CallWrites DEF WriteAll
  <2> QED
    BY <1>2, <2>1 DEF SetValue, WriteAll, RightsBalanced
<1>3. ASSUME NEW k \in Pids, ScriptSetsTarget(k) PROVE IInv'
  <2>1. CASE Kept(k)
    BY <1>3, <2>1, WriteAloneInv DEF ScriptSetsTarget, RightsBalanced
  <2>2. CASE ~Kept(k)
    <3>1. Retarget(k) /\ TargetEngine
      BY <1>3, <2>2 DEF ScriptSetsTarget
    <3> QED
      BY <1>3, <3>1, WriteAloneInv, RetargetBalances
      DEF ScriptSetsTarget, TargetEngine, Rebuild
  <2> QED
    BY <2>1, <2>2
<1>4. CASE WriteStep /\ UNCHANGED <<processes, h5gg, pageVars, asked>>
  <2>1. WriteAll'
    BY <1>4, WritesAnswer, WritesProtect DEF WriteStep, WriteAll
  <2> QED
    BY <1>4, <2>1 DEF WriteAll, RightsBalanced
<1> QED
  BY <1>1, <1>2, <1>3, <1>4 DEF Engine

LEMMA PageInv == IInv /\ Page => IInv'
<1> SUFFICES ASSUME IInv, Page PROVE IInv'
  OBVIOUS
<1> USE DEF IInv, TargetTypeOK, TargetInv, SearchedIsTarget, PickedIsSearched,
            processes, h5gg, pageVars
<1>1. CASE ShowProcList \/ CloseProcModal
  BY <1>1, WriteAloneInv
  DEF ShowProcList, CloseProcModal, RefreshProcList, RightsBalanced
<1>2. CASE PageLoads
  BY <1>2, WriteAloneInv DEF PageLoads, Rebuild, RightsBalanced
<1>3. ASSUME NEW n \in DOMAIN entries, Picked(n) PROVE IInv'
  <2>0. entries[n] \in Entry
    OBVIOUS
  <2>1. entries[n] \in Entry /\ entries[n].pid \in Pids
    BY <2>0 DEF Entry
  <2>2. /\ targetport' \in Procs \cup {NULL} /\ targetpid' \in Pids \cup {0}
        /\ refs' \in [Procs -> Int]
        /\ RightsBalanced'
        /\ targetport' # NULL => targetpid' = entries[n].pid
    <3>1. CASE Kept(entries[n].pid) /\ UNCHANGED <<targetpid, targetport, refs>>
      BY <3>1 DEF RightsBalanced, Kept
    <3>2. CASE Retarget(entries[n].pid)
      BY <2>1, <3>2, RetargetBalances
    <3> QED
      BY <1>3, <3>1, <3>2 DEF Picked
  <2>3. engineTask' \in {targetport', NULL} /\ found' = NULL
    BY <1>3 DEF Picked, TargetEngine, Rebuild
  <2>5. targetport' # NULL => engineTask' = targetport' /\ procname' = entries[n]
    BY <1>3 DEF Picked, Rebuild
  <2>4. procModal' \in BOOLEAN /\ procname' \in Entry \cup {NULL}
    BY <1>3, <2>1 DEF Picked
  <2> QED
    BY <1>3, <2>2, <2>3, <2>4, <2>5, WriteAloneInv DEF Picked
<1> QED
  BY <1>1, <1>2, <1>3 DEF Page

THEOREM Invariant == Spec => []IInv
<1>1. IInv /\ UNCHANGED vars => IInv'
  BY WriteAloneInv
  DEF IInv, TargetTypeOK, TargetInv, RightsBalanced, SearchedIsTarget, PickedIsSearched,
      vars, processes, h5gg, pageVars
<1>2. IInv /\ [Next]_vars => IInv'
  BY <1>1, SystemInv, EngineInv, PageInv DEF Next
<1> QED
  BY <1>2, InitInv, PTL DEF Spec

(* Every variable of the target and of a write keeps its type. *)
THEOREM TargetTypeCorrect == Spec => []TargetTypeOK
<1>1. IInv => TargetTypeOK
  BY DEF IInv
<1> QED
  BY <1>1, Invariant, PTL

(* setTargetProc holds one right, to the target, however targets change.   *)
THEOREM RightsAreBalanced == Spec => []RightsBalanced
<1>1. IInv => RightsBalanced
  BY DEF IInv, TargetInv
<1> QED
  BY <1>1, Invariant, PTL

(* The engine never works on a process that is not the target.             *)
THEOREM TargetIsSearched == Spec => []SearchedIsTarget
<1>1. IInv => SearchedIsTarget
  BY DEF IInv, TargetInv
<1> QED
  BY <1>1, Invariant, PTL

(* setValue leaves no page with a protection that only the engine gave it. *)
THEOREM ProtectionIsRestored == Spec => []ProtectionRestored
<1>1. IInv => ProtectionRestored
  BY DEF IInv, WriteInv
<1> QED
  BY <1>1, Invariant, PTL

(* What setValue answers is what was written.                              *)
THEOREM WriteIsReported == Spec => []WriteReported
<1>1. IInv => WriteReported
  BY DEF IInv, WriteInv, WriteReported
<1> QED
  BY <1>1, Invariant, PTL

(* A process picked from the list is the one the engine works on.          *)
THEOREM PickIsSearched == Spec => []PickedIsSearched
<1>1. IInv => PickedIsSearched
  BY DEF IInv, TargetInv
<1> QED
  BY <1>1, Invariant, PTL
=============================================================================
