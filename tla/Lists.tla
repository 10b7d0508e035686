--------------------------------- MODULE Lists ---------------------------------
(* Lists of numbers in ascending order.                                    *)
EXTENDS Integers, FiniteSets

(* The strictly increasing sequences that list a finite set of numbers. *)
Sorted(K) == {g \in [1 .. Cardinality(K) -> K] :
                \A m, n \in 1 .. Cardinality(K) : m < n => g[m] < g[n]}
=============================================================================
