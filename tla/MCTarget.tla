------------------------------- MODULE MCTarget -------------------------------
(* A small instance of Target for TLC: two pages, three protections, H5GG  *)
(* and two processes that share a pid.                                     *)
EXTENDS Target

GameProts == {{"r"}, {"r", "w"}, {"r", "x"}}
=============================================================================
