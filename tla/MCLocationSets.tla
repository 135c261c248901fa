--------------------------- MODULE MCLocationSets ---------------------------
(***************************************************************************)
(* Layouts for LocationSets: D and T have several bases, T more than its   *)
(* first base has fields; N has a base with a second base of its own; E    *)
(* and G have an array behind another element, W one behind an element of  *)
(* the same size; P has a place for a wrong cast to land on no struct.     *)
(***************************************************************************)
EXTENDS LocationSets

El(o, t) == [off |-> o, ty |-> t, num |-> 0]
Arr(o, t, n) == [off |-> o, ty |-> t, num |-> n]

MCStruct == {"X", "Y", "Z", "A", "D", "T", "M", "N", "E", "G", "P", "W"}
MCElem == [t \in MCStruct |->
  CASE t \in {"X", "Y", "Z"} -> <<El(0, Word)>>
    [] t = "A" -> <<El(0, Word), El(4, Word)>>
    [] t = "D" -> <<El(0, "A"), El(8, "Y"), El(12, Word)>>
    [] t = "T" -> <<El(0, "X"), El(4, "Y"), El(8, "Z")>>
    [] t = "M" -> <<El(0, "X"), El(4, "Y")>>
    [] t = "N" -> <<El(0, "Z"), El(4, "M")>>
    [] t = "E" -> <<El(0, "X"), Arr(4, "A", 2)>>
    [] t = "G" -> <<El(0, "X"), Arr(4, "M", 2)>>
    [] t = "P" -> <<El(0, "A"), El(8, "Y"), El(12, "M")>>
    [] t = "W" -> <<El(0, "M"), Arr(8, "A", 2)>>]
MCSize == [t \in MCStruct |->
  CASE t \in {"X", "Y", "Z"} -> 4 [] t \in {"A", "M"} -> 8 [] t \in {"T", "N"} -> 12
    [] t = "D" -> 16 [] t \in {"E", "G", "P"} -> 20 [] t = "W" -> 24]

Copies(t, n) == [ty |-> t, count |-> n]
MCObjects == {Copies(t, 1) : t \in {"D", "E", "G", "P", "W"}}
             \union {Copies(t, n) : t \in {"T", "N"}, n \in 1..2} \union {Copies("M", 3)}
MCSteps == {1}

MCLater == {Copies("P", 1)}
=============================================================================
