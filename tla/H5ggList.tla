------------------------------- MODULE H5ggList -------------------------------
(***************************************************************************)
(* h5ggEngine implements ResultList: the refinement mapping.  It concerns  *)
(* searchNumber, editAll and clearResults on memory that holds still while *)
(* a call runs.                                                            *)
(***************************************************************************)
EXTENDS H5gg

Aligned(a) == \E b \in Writable \ Stack :
                b <= a /\ a + TypeLen[q.type] <= b + vmsize[b] /\ (a - b) % TypeLen[q.type] = 0

(* The addresses that a first search may list, and that match.             *)
Matching == {a \in Addr : Aligned(a) /\ InRange(a, q.range) /\ Hit(a, q.type, q.want)}

(* A repeated search looks at its results only, whatever their alignment.  *)
StillMatching == {a \in Listed : /\ InRange(a, q.range) /\ Readable(a, TypeLen[q.type])
                                 /\ Hit(a, q.type, q.want)}

CallOf == IF op = "idle" THEN "none"
          ELSE IF q.api = "edit" THEN "edit"
          ELSE IF firstSearchDone THEN "improve" ELSE "first"

List == INSTANCE ResultList WITH
          Addresses <- Addr,
          list <- Listed,
          searched <- firstSearchDone,
          call <- CallOf,
          matching <- IF CallOf = "first" THEN Matching
                      ELSE IF CallOf = "improve" THEN StillMatching ELSE {},
          full <- memoryLimitReached

(* The promise of searchNumber: a first search finds everything, a         *)
(* repeated one removes exactly what no longer matches.                    *)
ListImplemented == List!Spec
=============================================================================
