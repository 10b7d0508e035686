------------------------------ MODULE ResultList ------------------------------
(***************************************************************************)
(* What searchNumber, editAll and clearResults promise a script about the  *)
(* list of results, when the game's memory holds still during a call: the  *)
(* first search lists every address that matches, unless the list is full; *)
(* every later one improves: it removes exactly those that do not match.   *)
(* In the middle of a call the list is on its way there; editAll writes to *)
(* the game and leaves the list as it is.                                  *)
(***************************************************************************)
CONSTANT Addresses

VARIABLES
  list,      \* the addresses of the results
  searched,  \* a search was done since the list was cleared
  call,      \* the call in progress
  matching,  \* the addresses that match what it searches for
  full       \* the list has reached its limit

listVars == <<list, searched, call, matching, full>>

Init == list = {} /\ ~searched /\ call = "none" /\ matching = {} /\ ~full

Begin ==
  /\ call = "none"
  /\ call' \in {"edit", IF searched THEN "improve" ELSE "first"}
  /\ matching' \in SUBSET Addresses
  /\ UNCHANGED <<list, searched, full>>

Find ==
  /\ call = "first" /\ ~full
  /\ list \subseteq list' /\ list' \subseteq list \cup matching
  /\ full' \in BOOLEAN
  /\ UNCHANGED <<searched, call, matching>>

Improve ==
  /\ call = "improve"
  /\ list \cap matching \subseteq list' /\ list' \subseteq list
  /\ UNCHANGED <<searched, call, matching, full>>

End ==
  /\ call # "none" /\ call' = "none" /\ matching' = {}
  /\ call = "first" => matching \subseteq list \/ full
  /\ call = "improve" => list \subseteq matching
  /\ searched' = (searched \/ call # "edit")
  /\ UNCHANGED <<list, full>>

Clear ==
  /\ call = "none"
  /\ list' = {} /\ ~searched' /\ ~full'
  /\ UNCHANGED <<call, matching>>

Next == Begin \/ Find \/ Improve \/ End \/ Clear
Spec == Init /\ [][Next]_listVars
=============================================================================
