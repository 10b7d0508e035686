------------------------------ MODULE GroupParse ------------------------------
(***************************************************************************)
(* How searchGroup (src/h5gg.h) reads the string of a group search, such   *)
(* as "@2;100;200F64;300::13": an anchor, items of a number and perhaps a  *)
(* type, and a range of bytes.  A number is the sequence of its digits,    *)
(* the text of a type is its name, and what is absent is Absent.           *)
(***************************************************************************)
EXTENDS Integers, Sequences, SequencesExt

CONSTANTS
  Texts,        \* the strings: [anchor, items, range], an item is [digits, suffix]
  DefaultTypes, \* the second argument, Absent if empty
  AnchorArgs,   \* the fifth argument, Absent if empty
  Absent

VARIABLES
  phase,   \* "idle", "items", "searched" or "refused"
  text,    \* the string being read
  default, \* parsedDefaultType
  rest,    \* valueItems not read yet
  params   \* GroupSearchParams: items, totalRange, anchorIndex

vars == <<phase, text, default, rest, params>>

Init ==
  /\ phase = "idle" /\ text = Absent /\ default = "I32" /\ rest = <<>>
  /\ params = [items |-> <<>>, totalRange |-> 0, anchorIndex |-> -1]

(* intValue and doubleValue of a text of digits. *)
Number(digits) == FoldLeft(LAMBDA n, d : 10 * n + d, 0, digits)

(* intValue has 32 bits: what is cast to fewer is cut. *)
Bits == [I8 |-> 8, U8 |-> 8, I16 |-> 16, U16 |-> 16]
Known == DOMAIN Bits \cup {"I32", "U32", "F32", "F64"}
Stored(n, type) == IF type \in DOMAIN Bits THEN n % 2^Bits[type] ELSE n

(* The pattern of a number followed by letters or digits.  Without a type  *)
(* it gives the last digit of the number away to the second group.         *)
Split(item) ==
  IF item.suffix # Absent THEN <<item.digits, item.suffix>>
  ELSE IF Len(item.digits) >= 2 THEN <<Front(item.digits), "digit">>
  ELSE <<item.digits, default>>

(* A name that is none of the known ones stands for I32. *)
TypeNamed(name) == IF name \in Known THEN name ELSE "I32"

GroupItem(item) ==
  LET split == Split(item)
      type == TypeNamed(split[2])
  IN [type |-> type, value |-> Stored(Number(split[1]), type)]

SearchGroup(t, type, anchor) ==
  /\ phase = "idle"
  /\ phase' = "items" /\ text' = t /\ rest' = t.items
  /\ default' = IF type = Absent THEN "I32" ELSE type
  /\ params' = [items |-> <<>>,
                totalRange |-> IF t.range = Absent \/ t.range < 0 THEN 0 ELSE t.range,
                anchorIndex |-> IF t.anchor # Absent THEN t.anchor
                                ELSE IF anchor # Absent THEN anchor ELSE -1]

(* An item without a number is blank: it is left out. *)
ReadItem ==
  /\ phase = "items" /\ rest # <<>>
  /\ rest' = Tail(rest)
  /\ params' = [params EXCEPT !.items =
                  IF Head(rest).digits = <<>> THEN @ ELSE Append(@, GroupItem(Head(rest)))]
  /\ UNCHANGED <<phase, text, default>>

Searched ==
  /\ phase = "items" /\ rest = <<>>
  /\ phase' = IF Len(params.items) < 2 THEN "refused" ELSE "searched"
  /\ UNCHANGED <<text, default, rest, params>>

Next ==
  \/ \E t \in Texts, type \in DefaultTypes, a \in AnchorArgs : SearchGroup(t, type, a)
  \/ ReadItem \/ Searched
  \/ phase \in {"searched", "refused"} /\ UNCHANGED vars

Spec == Init /\ [][Next]_vars

(* "100;200;300::9" means searching for 100, 200 and 300: what the engine  *)
(* searches for are the numbers of the string, each with the type behind   *)
(* it or, without one, the default type.                                   *)
ParsedAsWritten ==
  phase = "searched" =>
    LET written == SelectSeq(text.items, LAMBDA item : item.digits # <<>>)
    IN /\ Len(params.items) = Len(written)
       /\ \A n \in DOMAIN written :
            LET type == TypeNamed(IF written[n].suffix = Absent THEN default
                                  ELSE written[n].suffix)
            IN params.items[n] = [type |-> type,
                                  value |-> Stored(Number(written[n].digits), type)]
=============================================================================
