----------------------------- MODULE DDAMeaning -----------------------------
(***************************************************************************)
(* What the demand-driven analysis is to compute: the least values that    *)
(* solve the transfer functions of all items a set of queries demands,     *)
(* found without caches, marks, budgets or an order.  An item that looks   *)
(* for an object names that object with its context.                       *)
(***************************************************************************)
EXTENDS DDAVFSolver

CONSTANTS
  MaxRounds,    \* rounds after which the values no longer change
  Candidates    \* per program, what its answers are compared with (RefinesFlow)

Ids(S) == {c.id : c \in S}
ValuesAt(V, I) == {m.to : m \in {x \in V : x.at \in I}}

\* The items that item i reaches backwards over the edges G, looking for c.
Reached(w, i, G, c) ==
  {[loc |-> g.src, cur |-> IF g.ind THEN c ELSE g.src,
    cxt |-> Context(w, i.cxt, g), conc |-> Concrete(w, i.cxt, i.conc, g)] :
     g \in {x \in G : Feasible(w, i.cxt, x)}}

Operand(w, E, i, v) == Reached(w, i, {g \in E : g.dst = i.loc /\ ~g.ind /\ g.src = v}, None)
Memory(w, E, i, c) ==
  Reached(w, i, {g \in E : /\ g.dst = i.loc /\ g.ind
                           /\ c.id \in g.guard /\ c.id \notin w.prog.opaque}, c)
Pointer(w, E, i) ==
  CASE w.prog.kind[i.loc] = "load" -> Operand(w, E, i, w.prog.src[i.loc])
    [] w.prog.kind[i.loc] = "store" -> Operand(w, E, i, w.prog.dst[i.loc])
    [] OTHER -> {}

\* [base |-> items for pointer operands, flow |-> items whose values flow to i]
Demands(w, E, i, V) ==
  LET p == w.prog
      kind == p.kind[i.loc]
      pts == ValuesAt(V, Pointer(w, E, i))
  IN [base |-> Pointer(w, E, i)
                 \union {[loc |-> v, cur |-> v, cxt |-> i.cxt, conc |-> i.conc] : v \in p.resolves[i.loc]},
      flow |->
        CASE kind = "addr" -> {}
          [] kind \in {"copy", "gep"} -> Reached(w, i, {g \in E : g.dst = i.loc /\ ~g.ind}, None)
          [] kind = "load" -> UNION {Memory(w, E, i, c) : c \in pts}
          [] kind = "mr" -> Memory(w, E, i, i.cur)
          [] kind = "store" ->
               UNION {IF SameVar(w, c, i.cur)
                      THEN Operand(w, E, i, p.src[i.loc])
                             \union (IF StrongUpdate(w, pts) THEN {} ELSE Memory(w, E, i, c))
                      ELSE Memory(w, E, i, i.cur) : c \in pts}]
Value(p, i, flow) ==                 \* values of i, given those that flow to it
  CASE p.kind[i.loc] = "addr" -> {[id |-> p.obj[i.loc], cxt |-> i.cxt, conc |-> i.conc]}
    [] p.kind[i.loc] = "gep" -> GepPts(p, i.loc, flow)
    [] OTHER -> flow

\* one round: what the items D demand, the values V they have, the calls C
EdgesOf(p, C) == p.edges \union UNION {c.edges : c \in {x \in p.icalls : x.id \in C}}
Round(p, e, D, V, C) ==
  LET demands == [i \in D |-> Demands(View(p, C, C, e), EdgesOf(p, C), i, V)]
      more == V \union UNION {{[at |-> i, to |-> c] : c \in Value(p, i, ValuesAt(V, demands[i].flow))} :
                               i \in D}
  IN [items |-> D \union UNION {demands[i].base \union demands[i].flow : i \in D},
      values |-> more,
      calls |-> C \union {c.id : c \in {x \in p.icalls :
                            \E m \in more : m.at.loc = x.fp /\ m.to.id = x.target}}]

RootOf(v) == [loc |-> v, cur |-> v, cxt |-> <<>>, conc |-> TRUE]
Roots(Q) == {RootOf(v) : v \in Q}
Rounds(p, e, Q) ==
  LET after[n \in 0..MaxRounds] ==
        IF n = 0 THEN [items |-> Roots(Q), values |-> {}, calls |-> p.calls]
        ELSE LET s == after[n - 1] IN Round(p, e, s.items, s.values, s.calls)
  IN after
Least(p, e, Q) == Rounds(p, e, Q)[MaxRounds].values

ASSUME RoundsAssumption ==
  \A p \in Programs : \A e \in Engine :
    LET after == Rounds(p, e, p.queries) IN after[MaxRounds] = after[MaxRounds - 1]

\* evaluated once: the least values for the queries of each program
Meaning == [p \in Programs |-> [e \in Engine |-> Least(p, e, p.queries)]]

Named(i) == IF i.loc \in Var THEN i.cur ELSE i.cur.id
MeantAt(e, k) ==
  Ids({m.to : m \in {x \in Meaning[prog][e] :
                       x.at.loc = k.loc /\ x.at.cxt = k.cxt /\ Named(x.at) = k.cur}})
Given(v) ==
  IF prog.engine = "flow" THEN Ids(CachedPts("flow", ItemOf(v, <<>>, TRUE).at))
  ELSE {m.to.id : m \in {x \in answers : x.at = ItemOf(v, <<>>, TRUE).at}}
Meant(e, v) == MeantAt(e, ItemOf(v, <<>>, TRUE).at)
Asked == prog.queries \ queries

-----------------------------------------------------------------------------
(* The solutions of the flow-sensitive equations, least or not: they have  *)
(* no call strings.                                                        *)
FlowVar == [id : Obj, cxt : {<<>>}, conc : {TRUE}]
FlowItem(i) == IF i.loc \in Var THEN i = RootOf(i.loc)
               ELSE i \in [loc : Mem, cur : FlowVar, cxt : {<<>>}, conc : {TRUE}]
SolvesFlow(p, s) ==
  /\ \A i \in s.items : FlowItem(i)
  /\ \A m \in s.values : m.to \in FlowVar
  /\ Roots(p.queries) \subseteq s.items /\ p.calls \subseteq s.calls
  /\ LET t == Round(p, "flow", s.items, s.values, s.calls)
     IN t.items \subseteq s.items /\ t.values \subseteq s.values /\ t.calls \subseteq s.calls

(* What FlowDDA has found: at the items it has visited.                    *)
ItemAt(k) ==
  [loc |-> k.loc, cxt |-> k.cxt, conc |-> TRUE,
   cur |-> IF k.loc \in Var THEN k.cur ELSE [id |-> k.cur, cxt |-> k.cxt, conc |-> TRUE]]
FlowResult ==
  [items |-> {ItemAt(k) : k \in visited["flow"]}, calls |-> called["flow"],
   values |-> {[at |-> ItemAt(m.at), to |-> [m.to EXCEPT !.conc = TRUE]] : m \in cache["flow"]}]

\* calls that were found on the way have closed no recursion
RecursionKnown(C) ==
  \A o \in Obj : LocalInRecursion(View(prog, C, C, "flow"), o)
                    => LocalInRecursion(View(prog, prog.calls, prog.calls, "flow"), o)
InBudget == beyond["flow"] = {} /\ ~oob["flow"]

(* Between its queries, what FlowDDA has found solves the flow-sensitive   *)
(* equations: nothing an item demands is still to be visited, no value has *)
(* yet to be passed on, and no call to be connected.                       *)
FlowSettled ==
  (engine = "flow" => pc = "answered") /\ InBudget /\ RecursionKnown(called["flow"]) =>
    SolvesFlow([prog EXCEPT !.queries = IF prog.engine = "flow" THEN Asked ELSE {}], FlowResult)

(* Between queries, an item that is marked visited has all its values: the *)
(* next query will not look again.  (The marks of a query that ran out of  *)
(* budget are taken back when the next one starts.)                        *)
Settled ==
  /\ FlowSettled
  /\ pc = "answered" => \A e \in Engine : ~oob[e] =>
       \A k \in visited[e] : MeantAt(e, k) \subseteq Ids(CachedPts(e, k))

(* No answer misses a pointee, whether the query was answered within its   *)
(* budget, by the flow-sensitive analysis or by the pre-analysis.          *)
Complete == pc = "answered" => \A v \in Asked : Meant(prog.engine, v) \subseteq Given(v)

(* As long as the budget suffices, answers are as precise as the least     *)
(* solution: what stale results left in the caches never shows.            *)
Exact ==
  pc = "answered" /\ beyond[prog.engine] = {} =>
    \A v \in Asked : Given(v) \subseteq Meant(prog.engine, v)

-----------------------------------------------------------------------------
(* ContextDDA counts an object once per call string, and overwrites one    *)
(* element only: it may store weakly where FlowDDA overwrites.             *)
Relaxed(p) == IF p.engine = "cxt" THEN [p EXCEPT !.weak = Obj] ELSE p

(* No answer is coarser than a solution of the flow-sensitive equations,   *)
(* with strong updates for FlowDDA and without for ContextDDA, not even    *)
(* where FlowDDA has answered for it; unless that one ran out of budget.   *)
RefinesFlow ==
  pc = "answered" /\ beyond["flow"] = {} =>
    \A s \in Candidates[prog] :
      \/ \A v \in Asked : Given(v) \subseteq Ids(ValuesAt(s.values, {RootOf(v)}))
      \/ ~SolvesFlow(Relaxed(prog), s)
=============================================================================
