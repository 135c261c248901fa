-------------------------- MODULE MCTypeConfusion --------------------------
(***************************************************************************)
(* Three casts and a small class hierarchy for TypeConfusion, with every   *)
(* pair of results of two analyses over a choice of points-to sets.        *)
(***************************************************************************)
EXTENDS TypeConfusion

CONSTANTS A, B, BBase, S, C, D, W, toB, toD, toVoid, oA, oS, oC, oW, vt, unknown

Scalar == [struct |-> None, array |-> FALSE]
Of(t) == [struct |-> t, array |-> FALSE]

\* A is a base class of B, B (as "B.base") of S, D adds nothing to A, C is
\* unrelated, and W starts with an array of B.
MCStruct == {A, B, BBase, S, C, D, W}
MCFields ==
  [t \in Struct |->
     CASE t = A -> <<Scalar>>
       [] t = B -> <<Of(A), Scalar, Scalar>>
       [] t = BBase -> <<Of(A), Scalar>>
       [] t = S -> <<Of(BBase), Scalar>>
       [] t = C -> <<Scalar>>
       [] t = D -> <<Of(A)>>
       [] t = W -> <<[struct |-> B, array |-> TRUE], Scalar>>]
MCBaseOf == [t \in Struct |-> IF t = B THEN BBase ELSE None]

MCKind == [c \in CastCall |-> CASE c = toB -> "static" [] c = toD -> "reinterpret" [] c = toVoid -> "dynamic"]
MCDst == [c \in CastCall |-> CASE c = toB -> B [] c = toD -> D [] c = toVoid -> None]
MCType ==
  [o \in Object |->
     CASE o = oA -> A [] o = oS -> S [] o = oC -> C [] o = oW -> W [] o = vt -> C
       [] o = unknown -> None]

SetsForB ==
  {{}, {oA}, {oS}, {oC}, {oW}, {vt}, {unknown}, {oA, oS}, {oS, oW}, {oA, oC}, {oA, vt},
   {oC, unknown}, {oA, oS, oC}}
SetsForD == {{}, {oA}, {oS}, {oC}, {oA, oC}, {oA, oS}}
Results ==
  {[c \in CastCall |-> CASE c = toB -> P [] c = toD -> Q [] c = toVoid -> {oA}] :
     P \in SetsForB, Q \in SetsForD}
OneAnalysis == {<<r>> : r \in Results}
TwoAnalyses == OneAnalysis \union {<<r, s>> : r \in Results, s \in Results}
=============================================================================
