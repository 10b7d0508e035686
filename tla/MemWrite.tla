------------------------------- MODULE MemWrite -------------------------------
(***************************************************************************)
(* JJWriteMemory (src/MemScan.h): setValue writes to a page that may be    *)
(* read-only.  It reads the protection of the page, makes it writable,     *)
(* writes, and puts back the protection it read.  Each of these is a call  *)
(* of the kernel on the memory of another process (or of the app itself),  *)
(* whose threads run on: they protect, map and unmap pages in between, and *)
(* the process may end.                                                    *)
(*                                                                         *)
(* Memory is modelled for the time of one call: what a call finds when it  *)
(* starts is arbitrary.  Module Target says which process it is.           *)
(*                                                                         *)
(* A definition whose name is that of the next one with a word after it is *)
(* that definition with an error in it; no specification uses it.          *)
(***************************************************************************)
EXTENDS Integers

CONSTANTS
  Pages,     \* the pages of a process, in the order of their addresses
  Prots      \* the protections a process gives its pages

Access == SUBSET {"r", "w", "x"}
Unmapped == {"unmapped"}   \* of a page that is in no region

ASSUME PagesAssumption == Pages \subseteq Nat
ASSUME ProtsAssumption == Prots \subseteq Access

VARIABLES
  prot,     \* prot[p]: the protection of page p
  dead,     \* the kernel refuses the task: its process has ended, or it is null
  step,     \* the kernel call that JJWriteMemory makes next
  page,     \* the page of the address
  span,     \* the pages of the value: one, or page and the one after it
  info,     \* info.protection
  base,     \* base # 0: the protection of the page was changed
  result,
  (* history, read by properties only *)
  left,     \* left[p]: what page p had at the start, or was given since by its process
  written   \* a vm_write of this call took place

memory == <<prot, left>>
locals == <<page, span, info, base>>
outcome == <<result, written>>
writeVars == <<memory, dead, step, locals, outcome>>

Steps == {"idle", "region", "protect", "fallback", "write", "again", "rewrite",
          "restore", "return"}

(* Between two calls nothing is known of the memory. *)
Unknown == [p \in Pages |-> Unmapped]
WriteInit ==
  /\ prot = Unknown /\ left = Unknown /\ dead = TRUE
  /\ step = "idle" /\ page = 0 /\ span = {} /\ info = {} /\ base = FALSE
  /\ result = FALSE /\ written = FALSE

-----------------------------------------------------------------------------
(* The kernel *)

Mapped(p) == prot[p] # Unmapped
Writable(p) == Mapped(p) /\ "w" \in prot[p]
CanWrite == ~dead /\ \A p \in span : p \in Pages /\ Writable(p)

(* mach_vm_protect of the page of the address, granted. *)
Protect(access) == /\ ~dead /\ page \in Pages /\ Mapped(page)
                   /\ prot' = [prot EXCEPT ![page] = access]
(* It may be refused (W and X at once), or reported as done and not be. *)
ProtectIgnored == ~dead /\ page \in Pages /\ Mapped(page) /\ UNCHANGED prot

-----------------------------------------------------------------------------
(* JJWriteMemory *)

Finish(ok) == step' = "return" /\ result' = ok

JJWriteMemory(first, pages, null) ==
  /\ step = "idle"
  /\ page' = first /\ span' = pages
  /\ dead' = null
  /\ prot' \in [Pages -> Prots \cup {Unmapped}] /\ left' = prot'
  /\ step' = "region"
  /\ info' = {} /\ base' = FALSE /\ result' = FALSE /\ written' = FALSE

(* mach_vm_region: the region of the address, else the first one after it. *)
Region(p) == p >= page /\ Mapped(p) /\ \A m \in Pages : page <= m /\ m < p => ~Mapped(m)

QueryRegion ==
  /\ step = "region"
  /\ \/ \E p \in Pages :
          /\ ~dead /\ Region(p)
          /\ info' = prot[p] /\ base' = ("w" \notin prot[p])
          /\ step' = IF base' THEN "protect" ELSE "write"
          /\ UNCHANGED result
     \/ /\ dead \/ \A p \in Pages : ~Region(p)
        /\ Finish(FALSE)
        /\ UNCHANGED <<info, base>>
  /\ UNCHANGED <<memory, dead, page, span, written>>

AddWrite ==
  /\ step = "protect"
  /\ \/ Protect(info \cup {"w"}) /\ step' = "write"
     \/ ProtectIgnored /\ step' = "write"
     \/ UNCHANGED prot /\ step' = "fallback"
  /\ UNCHANGED <<left, dead, locals, outcome>>

ReadWriteOnly ==
  /\ step = "fallback"
  /\ \/ Protect({"r", "w"}) /\ step' = "write" /\ UNCHANGED result
     \/ UNCHANGED prot /\ Finish(FALSE)
  /\ UNCHANGED <<left, dead, locals, written>>

Write ==
  /\ step = "write"
  /\ result' = CanWrite /\ written' = CanWrite
  /\ step' = IF ~base THEN "return" ELSE IF CanWrite THEN "restore" ELSE "again"
  /\ UNCHANGED <<memory, dead, locals>>

ProtectAgainGivesUp ==
  /\ step = "again"
  /\ \/ Protect({"r", "w"}) /\ step' = "rewrite"
     \/ UNCHANGED prot /\ step' = "return"
  /\ UNCHANGED <<left, dead, locals, outcome>>
ProtectAgain ==
  /\ step = "again"
  /\ \/ Protect({"r", "w"}) /\ step' = "rewrite"
     \/ UNCHANGED prot /\ step' = "restore"
  /\ UNCHANGED <<left, dead, locals, outcome>>

RewriteUnreported ==
  /\ step = "rewrite"
  /\ written' = CanWrite
  /\ step' = "restore"
  /\ UNCHANGED <<memory, dead, locals, result>>
Rewrite ==
  /\ step = "rewrite"
  /\ result' = CanWrite /\ written' = CanWrite
  /\ step' = "restore"
  /\ UNCHANGED <<memory, dead, locals>>

(* What the kernel granted before it grants again; its answer is ignored. *)
Restore ==
  /\ step = "restore"
  /\ \/ Protect(info)
     \/ (dead \/ page \notin Pages \/ ~Mapped(page)) /\ UNCHANGED prot
  /\ step' = "return"
  /\ UNCHANGED <<left, dead, locals, outcome>>

Returned ==
  /\ step = "return"
  /\ prot' = Unknown /\ left' = Unknown /\ dead' = TRUE
  /\ step' = "idle" /\ page' = 0 /\ span' = {} /\ info' = {} /\ base' = FALSE
  /\ result' = FALSE /\ written' = FALSE

WriteStep == QueryRegion \/ AddWrite \/ ReadWriteOnly \/ Write \/ ProtectAgain
             \/ Rewrite \/ Restore \/ Returned

(* The threads of the process, while the call runs. *)
GameProtects ==
  /\ step # "idle" /\ ~dead
  /\ \E p \in Pages, access \in Prots \cup {Unmapped} :
       /\ prot' = [prot EXCEPT ![p] = access]
       /\ left' = [left EXCEPT ![p] = access]
  /\ UNCHANGED <<dead, step, locals, outcome>>

TaskEnds == dead' = TRUE /\ UNCHANGED <<memory, step, locals, outcome>>

-----------------------------------------------------------------------------
(* Types of the variables.                                                 *)
WriteTypeOK ==
  /\ prot \in [Pages -> Access \cup {Unmapped}] /\ left \in [Pages -> Access \cup {Unmapped}]
  /\ dead \in BOOLEAN /\ step \in Steps
  /\ page \in Int /\ span \subseteq Int /\ info \in Access /\ base \in BOOLEAN
  /\ result \in BOOLEAN /\ written \in BOOLEAN

(* When setValue returns, no page is left with a protection that only the  *)
(* engine gave it: each has what its process last gave it, but for the     *)
(* page of the address, which may have what mach_vm_region reported.       *)
ProtectionRestored ==
  step = "return" /\ ~dead =>
    \A p \in Pages : prot[p] = left[p] \/ (p = page /\ prot[p] = info)

(* setValue answers TRUE exactly when the value was written.               *)
WriteReported == step = "return" => (result <=> written)
=============================================================================
