-------------------------- MODULE MCFlowSensitive --------------------------
(* Programs for the flow-sensitive analysis, and the least solution of each.*)
EXTENDS FlowSensitive, MCValueFlow

(* The least solution of each program, round by round from nothing.        *)
RECURSIVE Least(_, _)
Least(p, s) == LET t == Round(p, s) IN IF t = s THEN s ELSE Least(p, t)
-----------------------------------------------------------------------------
(* Programs of this analysis alone.                                        *)

\* g(q) reads what the caller has stored before, and is found by its address
\* after that store has been visited; its result is the memory it leaves
CallThroughMemory ==
  [Statements(Empty, "p" :> "a" @@ "s" :> "b" @@ "f" :> "g1", "v" :> "q" @@ "u" :> "p",
              "m1" :> <<"p", "s">>, Mems({<<"m2", "v", {"a"}>>, <<"m3", "u", {"a"}>>}))
   EXCEPT !.icalls = {ICall("f", "g1", G1, Calls({<<"p", "q">>}, G1)
                        \union {Across(Indirect("m1", "m2", {"a"}), "call", G1),
                                Across(Indirect("m2", "m3", {"a"}), "ret", G1)})},
          !.resolves["q"] = {"f"}]

\* g, called from main, overwrites its local b; by then nobody knows that it
\* calls itself through f
ClosesRecursion ==
  [Statements(Empty, "p" :> "a" @@ "v" :> "b" @@ "s" :> "c" @@ "f" :> "g1", "t" :> "v",
              "m1" :> <<"v", "q">> @@ "m2" :> <<"v", "s">>,
              Calls({<<"p", "q">>}, G1) \union Edges({<<"t", "r">>}) \union Rets({<<"t", "u">>}, G1)
                \union Mems({<<"m1", "m2", {"b"}>>, <<"m2", "t", {"b"}>>}))
   EXCEPT !.calls = {G1}, !.caller["s2"] = "g", !.local["b"] = "g",
          !.icalls = {ICall("f", "g1", G2, Calls({<<"r", "q">>}, G2))}]

\* u loads the structure a, of which c is a field
WholeStructure ==
  [Statements(Empty, "p" :> "a" @@ "s" :> "b", "u" :> "p" @@ "v" :> "q", "m1" :> <<"q", "s">>,
              Edges({<<"p", "q">>}) \union Mems({<<"m1", "u", {"a"}>>, <<"m1", "v", {"c"}>>}))
   EXCEPT !.kind["q"] = "gep", !.field["q"] = "a" :> "c" @@ @, !.parts["a"] = {"c"}]

\* v loads the field c alone; a second store goes to a or to c
Siblings ==
  [Statements(Empty, "p" :> "a" @@ "s" :> "b" @@ "t" :> "h1", "v" :> "q",
              "m3" :> <<"p", "t">> @@ "m1" :> <<"r", "s">>,
              Edges({<<"p", "q">>, <<"p", "r">>, <<"q", "r">>})
                \union Mems({<<"m3", "m1", {"a"}>>, <<"m1", "v", {"c"}>>}))
   EXCEPT !.kind["q"] = "gep", !.field["q"] = "a" :> "c" @@ @, !.parts["a"] = {"c"}]

MCPrograms ==
  {Andersen(p) : p \in
     Loops \union
     {Cycle, Grow, [Grow EXCEPT !.weak = {"a"}], [Grow EXCEPT !.opaque = {"a"}],
      Overwrite, [Overwrite EXCEPT !.weak = {"a"}], [Overwrite EXCEPT !.heap = {"a"}],
      Fields, CallByCall, Identity, Allocate, Recursive, TwoObjects, Deep,
      CallThroughMemory, ClosesRecursion, WholeStructure, Siblings}}
MCCandidates ==
  [p \in MCPrograms |->
     {Least(p, [pts |-> [v \in Var |-> {}], inn |-> Nothing, out |-> Nothing, calls |-> {}])}]
ASSUME CandidatesAssumption == \A p \in MCPrograms : \A s \in MCCandidates[p] : Solves(p, s)
=============================================================================
