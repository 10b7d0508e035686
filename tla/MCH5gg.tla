------------------------------- MODULE MCH5gg -------------------------------
(* Small instances of H5gg for TLC: a game of one to four regions of one   *)
(* to three pages, each of one or two cells; cells hold 0 or 1, and types  *)
(* have one or two cells.                                                  *)
EXTENDS H5ggList, TLC

TwoRegions == 2 :> 2 @@ 6 :> 4     \* a gap, a region of one page, one of two
Adjacent == 2 :> 2 @@ 4 :> 2       \* a group may begin in one region and end in the next
OneRegion  == 2 :> 4
FourRegions == 2 :> 2 @@ 6 :> 2 @@ 8 :> 2 @@ 12 :> 4
MixedLen == "I8" :> 1 @@ "I16" :> 2
WordLen  == "I32" :> 2 @@ "F32" :> 2

Span(s, e) == [start |-> s, end |-> e]
Everything == Span(0, 20)
Exactly(v) == [lo |-> v, hi |-> v]

NumberQuery(t, w, r) == [api |-> "number", type |-> t, want |-> w, range |-> r]
NearQuery(t, v, n)   == [api |-> "near", type |-> t, want |-> Exactly(v), near |-> n]
EditQuery(t, v)      == [api |-> "edit", type |-> t, want |-> Exactly(v)]
Item(t, v, o)        == [type |-> t, want |-> Exactly(v), offset |-> o]
GroupQuery(t, items, total, anchor, r) ==
  [api |-> "group", type |-> t, items |-> items, total |-> total, anchor |-> anchor, range |-> r]

(* number: two lengths, an exact value and a range of values *)
NumberMixed == {NumberQuery("I8", Exactly(1), Everything),
                NumberQuery("I16", [lo |-> 1, hi |-> 3], Everything)}
EditByte == {EditQuery("I8", 1)}

(* quiet: one length, a number and a float with a tolerance or without, a  *)
(* range that ends inside the last region                                  *)
NumberQuiet == {NumberQuery("I32", Exactly(1), Span(1, 14)),
                NumberQuery("F32", Exactly(2), Span(1, 14))}
EditWord == {EditQuery("I32", 2)}

(* near: the type searched for, and another *)
NumberBytes == {NumberQuery("I8", Exactly(1), Everything)}
NearMixed == {NearQuery("I8", 1, 2), NearQuery("I16", 1, 2)}

(* group: two items, each in turn the anchor, in both modes; two cells of  *)
(* one item are at a multiple of their length only in the second range     *)
Pair(t, u) == <<Item(t, 1, 0), Item(u, 1, TypeLen[t])>>
GroupMixed == {GroupQuery("I8", Pair("I8", "I8"), 2, n, Everything) : n \in 0 .. 2}
              \cup {GroupQuery("I8", Pair("I8", "I16"), 0, 2, r) : r \in {Everything, Span(1, 8)}}

(* and the other searches, one of numbers with a range beyond the region *)
NearByte == {NearQuery("I8", 1, 2)}
NumberNarrow == NumberBytes \cup {NumberQuery("I8", Exactly(1), Span(6, 8))}

(* a range that starts inside a region *)
NumberLower == {NumberQuery("I8", Exactly(1), Span(3, 8))}
=============================================================================
