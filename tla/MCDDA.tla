------------------------------- MODULE MCDDA -------------------------------
(* Programs for the demand-driven analysis, with queries and budgets.       *)
EXTENDS DDAMeaning, MCValueFlow

Query(p, e, Q) == [Andersen(p) EXCEPT !.engine = e, !.queries = Q]
Budgets(p, B) == {[p EXCEPT !.budget = b] : b \in B}

Both(f, c) == [e \in {"flow", "cxt"} |-> IF e = "flow" THEN f ELSE c]
MCPrograms ==
  UNION
   {{Query(p, "flow", {"u"}) : p \in Loops},
    Budgets(Query(Cycle, "flow", {"q", "r"}), {Both(n, 0) : n \in {1, 2, 3, 4, 99}}),
    Budgets(Query(Grow, "flow", {"u", "r"}), {Both(n, 0) : n \in {5, 8, 99}}),
    Budgets(Query([Grow EXCEPT !.weak = {"a"}], "flow", {"u"}), {Both(99, 0)}),
    Budgets(Query([Grow EXCEPT !.opaque = {"a"}], "flow", {"u"}), {Both(99, 0)}),
    Budgets(Query(Overwrite, "flow", {"u", "v"}), {Both(n, 0) : n \in {3, 6, 99}}),
    Budgets(Query([Overwrite EXCEPT !.weak = {"a"}], "flow", {"u"}), {Both(99, 0)}),
    Budgets(Query([Overwrite EXCEPT !.heap = {"a"}], "flow", {"u"}), {Both(99, 0)}),
    Budgets(Query([Overwrite EXCEPT !.local["a"] = "main"], "cxt", {"u", "v"}),
            {Both(x[1], x[2]) : x \in {<<99, 99>>, <<99, 3>>, <<4, 3>>}}),
    Budgets(Query(Fields, "flow", {"u", "q"}), {Both(n, 0) : n \in {4, 99}}),
    Budgets(Query(CallByCall, "flow", {"t", "f"}), {Both(n, 0) : n \in {2, 3, 4, 99}}),
    Budgets(Query(CallByCall, "cxt", {"t", "f"}), {Both(99, n) : n \in {3, 99}}),
    Budgets(Query(Identity, "cxt", {"t", "u"}), {Both(x[1], x[2]) : x \in {<<99, 99>>, <<99, 1>>, <<1, 2>>, <<2, 0>>}}),
    Budgets(Query(Allocate, "cxt", {"v", "u"}), {Both(x[1], x[2]) : x \in {<<99, 99>>, <<99, 6>>, <<5, 5>>}}),
    Budgets(Query([TwoObjects EXCEPT !.heap = {}], "cxt", {"v"}), {Both(99, n) : n \in {5, 99}}),
    Budgets(Query(Recursive, "cxt", {"u", "t"}), {Both(x[1], x[2]) : x \in {<<99, 99>>, <<99, 5>>, <<5, 5>>}}),
    Budgets(Query(Deep, "cxt", {"v"}), {Both(99, n) : n \in {7, 99}}),
    Budgets(Query(Recursive, "flow", {"u"}), {Both(99, 0)})}

MCCandidates(P) ==
  [p \in P |-> {Rounds(Relaxed(p), "flow", p.queries)[MaxRounds]}]
ASSUME CandidatesAssumption ==
  \A p \in Programs : \A s \in Candidates[p] : SolvesFlow(Relaxed(p), s)

MCTwoObjects == {Query(TwoObjects, "cxt", {"v"})}
MCTruncated == {Query(Truncated, "cxt", {"q", "v"})}
MCSolutions == MCCandidates(MCPrograms)
MCTwoSolutions == MCCandidates(MCTwoObjects)
=============================================================================
