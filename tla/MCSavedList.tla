------------------------------ MODULE MCSavedList ------------------------------
(* A small instance of SavedList for TLC: two addresses to save, offsets *)
(* by one in both directions (below zero too), batches of two.             *)
EXTENDS SavedList

Near == -1 .. 2
UpAndDown == {-1, 1}
=============================================================================
