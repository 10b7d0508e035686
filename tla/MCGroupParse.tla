----------------------------- MODULE MCGroupParse -----------------------------
(* The examples of the documentation, in their two forms. *)
EXTENDS GroupParse

Item(digits, suffix) == [digits |-> digits, suffix |-> suffix]
Plain == Item(<<1, 0, 0>>, Absent)
Examples == {[anchor |-> a, items |-> <<Plain, second, Item(<<3, 0, 0>>, Absent)>>, range |-> r] :
               a \in {Absent, 2}, r \in {9, 13},
               second \in {Item(<<2, 0, 0>>, Absent), Item(<<2, 0, 0>>, "F64")}}
=============================================================================
