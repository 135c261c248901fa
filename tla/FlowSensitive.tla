--------------------------- MODULE FlowSensitive ---------------------------
(***************************************************************************)
(* The sparse flow-sensitive analysis (-fspta): pointers have one          *)
(* points-to set, objects one per node of the value-flow graph before it   *)
(* (IN) and, at a store, one after it (OUT).  A store overwrites the       *)
(* single object it is known to write.  Only objects that are marked as    *)
(* updated are looked at again.                                            *)
(***************************************************************************)
EXTENDS ValueFlow

CONSTANT Candidates         \* per program, whatever its result is compared with (LeastSolution)

VARIABLES
  prog, pc,
  edges, called, sccCalls,  \* value-flow graph, call graph, what callGraphSCC has seen
  stack, before,            \* nodeStack: nodes left of it, and who reaches whom on the graph
  worklist,
  pts,                      \* of the pointers
  dfIn, dfOut,              \* dfInPtsMap, dfOutPtsMap
  inUpdated,                \* inUpdatedVarMap
  edgesLeft                 \* edges updateConnectedNodes() has still to look at

graphVars == <<edges, called, sccCalls>>
ptVars == <<pts, dfIn, dfOut, inUpdated>>
vars == <<prog, pc, graphVars, stack, before, worklist, ptVars, edgesLeft>>

CallEdges(p) == UNION {c.edges : c \in p.icalls}
SVFGNodes(p) ==
  {n \in Node : p.kind[n] \in {"addr", "load", "store"}}
    \union UNION {{g.src, g.dst} : g \in p.edges \union CallEdges(p)}

(* What SVFGOPT promises of its graphs: the definition of each operand of  *)
(* a statement leads to it; a call is entered and left through PHIs and    *)
(* memory regions.                                                         *)
Connected(p) ==
  /\ \A n \in Node : \A v \in Operands(p, n) : \E g \in p.edges : ~g.ind /\ g.src = v /\ g.dst = n
  /\ \A g \in CallEdges(p) : p.kind[g.dst] = IF g.ind THEN "mr" ELSE "copy"
ASSUME ConnectedAssumption == \A p \in Programs : Connected(p)

TypeOK ==
  /\ pc \in {"solve", "process", "connect", "done"}
  /\ edges \subseteq Edge /\ edgesLeft \subseteq Edge
  /\ called \subseteq CallId /\ sccCalls \subseteq CallId
  /\ stack \subseteq Node /\ worklist \subseteq Node /\ before \in [Node -> SUBSET Node]
  /\ pts \in [Var -> SUBSET Obj] /\ inUpdated \in [Node -> SUBSET Obj]
  /\ dfIn \in [Node -> [Obj -> SUBSET Obj]] /\ dfOut \in [Node -> [Obj -> SUBSET Obj]]

Nothing == [n \in Node |-> [o \in Obj |-> {}]]
Init ==
  /\ prog \in Programs
  /\ pc = "solve"
  /\ edges = prog.edges /\ called = prog.calls /\ sccCalls = {}
  /\ stack = {} /\ before = [n \in Node |-> {}] /\ worklist = {}
  /\ pts = [v \in Var |-> {}]
  /\ dfIn = Nothing /\ dfOut = Nothing /\ inUpdated = [n \in Node |-> {}]
  /\ edgesLeft = {}
-----------------------------------------------------------------------------
(* analyze(), solve(): cycle detection on the call graph and on the        *)
(* value-flow graph.  The stack holds all nodes, component by component in *)
(* topological order.                                                      *)
Reaching(E) ==
  LET R[k \in 0..Cardinality(Node)] ==
        [n \in Node |-> IF k = 0 THEN {n}
                        ELSE R[k - 1][n] \union UNION {R[k - 1][g.src] : g \in {x \in E : x.dst = n}}]
  IN [n \in Node |-> Node \intersect R[Cardinality(Node)][n]]

Solve ==
  /\ pc = "solve"
  /\ sccCalls' = called
  /\ stack' = SVFGNodes(prog) /\ before' = Reaching(edges)
  /\ pc' = "process"
  /\ UNCHANGED <<prog, edges, called, worklist, ptVars, edgesLeft>>

Component(n) == {m \in before[n] : n \in before[m]}
OnTop(n) ==
  /\ n \in stack
  /\ before[n] \intersect stack \subseteq Component(n)
  /\ \A m \in stack : Component(m) \subseteq stack \/ n \in Component(m)
-----------------------------------------------------------------------------
(* processNode(n), which propagates what has changed; W is the work list.  *)

Succs(n) == {g.dst : g \in {x \in edges : x.src = n /\ ~x.ind}}
Sources(n) == {g.src : g \in {x \in edges : x.dst = n /\ ~x.ind}}
SourcePts(n) == UNION {pts[v] : v \in Sources(n) \intersect Var}

(* The base object of a structure stands for its field nodes too, be it    *)
(* field-insensitive or not (isFIObjNode()).                               *)
AllFieldsOfBase(o) ==            \* mutant: taken of a field node, all fields of its object
  {o} \union UNION {{b} \union prog.parts[b] : b \in {x \in Obj : o \in prog.parts[x] \union {x}}}
AllFields(o) == {o} \union prog.parts[o]

GrowAlways(n, new, W) ==         \* mutant: reports a change at each visit
  /\ pts' = [pts EXCEPT ![n] = @ \union new]
  /\ worklist' = W \union Succs(n)
GrowPtr(n, new, W) ==
  /\ pts' = [pts EXCEPT ![n] = @ \union new]
  /\ worklist' = IF new \subseteq pts[n] THEN W ELSE W \union Succs(n)

ProcessAddr(n, W) ==
  /\ prog.kind[n] = "addr"
  /\ GrowPtr(n, {prog.obj[n]}, W)
  /\ UNCHANGED <<dfIn, dfOut, inUpdated>>

\* copies, and PHIs with the actual parameters and returns as operands
ProcessCopy(n, W) ==
  /\ prog.kind[n] = "copy"
  /\ GrowPtr(n, SourcePts(n), W)
  /\ UNCHANGED <<dfIn, dfOut, inUpdated>>

ProcessGep(n, W) ==
  /\ prog.kind[n] = "gep"
  /\ GrowPtr(n, {prog.field[n][o] : o \in SourcePts(n)}, W)
  /\ UNCHANGED <<dfIn, dfOut, inUpdated>>

(* A load reads what has been updated of the objects it may read, and      *)
(* unmarks that only.                                                      *)
Readable(n) == UNION {AllFields(o) : o \in pts[prog.src[n]] \ prog.opaque}
ReadableAll(n) == Obj            \* mutant: all marks go, read or not
Unmarked(n) == Readable(n)
ProcessLoad(n, W) ==
  /\ prog.kind[n] = "load"
  /\ GrowPtr(n, UNION {dfIn[n][o] : o \in inUpdated[n] \intersect Readable(n)}, W)
  /\ inUpdated' = [inUpdated EXCEPT ![n] = @ \ Unmarked(n)]
  /\ UNCHANGED <<dfIn, dfOut>>

(* propAlongIndirectEdge(): the objects in O, with the content C they have *)
(* at n, arrive behind the edges that carry them.                          *)
Carried(g) == UNION {AllFields(o) : o \in g.guard}
Arrivals(n, O, C, m) ==
  {o \in O : /\ \E g \in edges : g.ind /\ g.src = n /\ g.dst = m /\ o \in Carried(g)
             /\ ~(C[o] \subseteq dfIn[m][o])}
Propagate(n, O, C, marked, W) ==
  LET new == [m \in Node |-> Arrivals(n, O, C, m)] IN
  /\ dfIn' = [m \in Node |-> [o \in Obj |-> IF o \in new[m] THEN dfIn[m][o] \union C[o] ELSE dfIn[m][o]]]
  /\ inUpdated' = [m \in Node |-> marked[m] \union new[m]]
  /\ worklist' = W \union {m \in Node : new[m] # {}}

\* memory PHIs, entries and exits of functions and calls; their marks stay
ProcessRegion(n, W) ==
  /\ prog.kind[n] = "mr"
  /\ Propagate(n, inUpdated[n], dfIn[n], inUpdated, W)
  /\ UNCHANGED <<pts, dfOut>>

(* isStrongUpdate(): the store's pointer points to one object, which       *)
(* stands for one location.                                                *)
Targets(n) == pts[prog.dst[n]]
Overwrites(n) ==
  {o \in Targets(n) : /\ Targets(n) = {o}
                      /\ o \notin prog.heap \union prog.weak
                      /\ ~LocalInRecursion(View(prog, called, sccCalls, "flow"), o)}

(* What a store lets pass is unmarked; what it overwrites stays marked, so *)
(* that it passes if the update turns weak.                                *)
HandledAll(n) == inUpdated[n]    \* mutant: what is overwritten is unmarked as well
Handled(n) == inUpdated[n] \ Overwrites(n)
ProcessStore(n, W) ==
  /\ prog.kind[n] = "store"
  /\ Targets(n) # {}
  /\ LET passed == inUpdated[n] \ Overwrites(n)
         out == [o \in Obj |-> dfOut[n][o]
                   \union (IF o \in Targets(n) \ prog.opaque THEN pts[prog.src[n]] ELSE {})
                   \union (IF o \in passed THEN dfIn[n][o] ELSE {})]
     IN /\ dfOut' = [dfOut EXCEPT ![n] = out]
        /\ Propagate(n, {o \in Obj : out[o] # dfOut[n][o]}, out,
                     [inUpdated EXCEPT ![n] = @ \ Handled(n)], W)
  /\ UNCHANGED pts
SkipStore(n, W) ==
  /\ prog.kind[n] = "store"
  /\ Targets(n) = {}
  /\ worklist' = W
  /\ UNCHANGED ptVars

ProcessSVFGNode(n, W) ==
  \/ ProcessAddr(n, W) \/ ProcessCopy(n, W) \/ ProcessGep(n, W) \/ ProcessLoad(n, W)
  \/ ProcessRegion(n, W) \/ ProcessStore(n, W) \/ SkipStore(n, W)

ProcessNode ==
  /\ pc = "process"
  /\ \E n \in stack : /\ OnTop(n)
                      /\ stack' = stack \ {n}
                      /\ ProcessSVFGNode(n, worklist)
  /\ UNCHANGED <<prog, pc, graphVars, before, edgesLeft>>

PostProcessNode ==
  /\ pc = "process" /\ stack = {}
  /\ \E n \in worklist : ProcessSVFGNode(n, worklist \ {n})
  /\ UNCHANGED <<prog, pc, graphVars, stack, before, edgesLeft>>
-----------------------------------------------------------------------------
(* updateCallGraph(): connects the calls that are decided by now.          *)
UpdateCallGraph ==
  /\ pc = "process" /\ stack = {} /\ worklist = {}
  /\ LET new == {c \in prog.icalls : c.target \in pts[c.fp] /\ c.id \notin called}
         joined == UNION {c.edges : c \in new}
     IN /\ called' = called \union {c.id : c \in new}
        /\ edges' = edges \union joined
        /\ edgesLeft' = joined \ edges
        /\ pc' = IF new = {} THEN "done" ELSE "connect"
  /\ UNCHANGED <<prog, sccCalls, stack, before, worklist, ptVars>>

(* updateConnectedNodes(): into a PHI, or into a function's or a call's    *)
(* memory.  The latter takes everything the source has, marked or not.     *)
ContentAt(n) == IF prog.kind[n] = "store" THEN dfOut[n] ELSE dfIn[n]
Fresh(g) == {o \in Carried(g) : ~(ContentAt(g.src)[o] \subseteq dfIn[g.dst][o])}
FreshMarked(g) ==                \* mutant: only what is still marked is sent along
  {o \in Carried(g) : /\ ~(ContentAt(g.src)[o] \subseteq dfIn[g.dst][o])
                      /\ o \in inUpdated[g.src]}
PropAfterCGUpdated(g) == Fresh(g)
ConnectEdge ==
  /\ pc = "connect"
  /\ \E g \in edgesLeft :
       /\ edgesLeft' = edgesLeft \ {g}
       /\ \/ /\ ~g.ind
             /\ worklist' = worklist \union {g.dst}
             /\ UNCHANGED <<dfIn, inUpdated>>
          \/ /\ g.ind
             /\ LET new == PropAfterCGUpdated(g) IN
                /\ dfIn' = [dfIn EXCEPT ![g.dst] =
                              [o \in Obj |-> IF o \in new THEN @[o] \union ContentAt(g.src)[o] ELSE @[o]]]
                /\ inUpdated' = [inUpdated EXCEPT ![g.dst] = @ \union new]
                /\ worklist' = IF new = {} THEN worklist ELSE worklist \union {g.dst}
  /\ UNCHANGED <<prog, pc, graphVars, stack, before, pts, dfOut>>

FinishConnect ==
  /\ pc = "connect" /\ edgesLeft = {}
  /\ pc' = "solve"
  /\ UNCHANGED <<prog, graphVars, stack, before, worklist, ptVars, edgesLeft>>

Terminated == pc = "done" /\ UNCHANGED vars

Step == Solve \/ ProcessNode \/ PostProcessNode \/ UpdateCallGraph \/ ConnectEdge \/ FinishConnect
Next == Step \/ Terminated
Spec == Init /\ [][Next]_vars
FairSpec == Spec /\ WF_vars(Step)
-----------------------------------------------------------------------------
(* A node has passed on all that reaches it.                               *)
Satisfied(n) ==
  CASE prog.kind[n] = "addr" -> prog.obj[n] \in pts[n]
    [] prog.kind[n] = "copy" -> SourcePts(n) \subseteq pts[n]
    [] prog.kind[n] = "gep" -> \A o \in SourcePts(n) : prog.field[n][o] \in pts[n]
    [] prog.kind[n] = "load" -> \A o \in Readable(n) : dfIn[n][o] \subseteq pts[n]
    [] prog.kind[n] = "store" ->
         Targets(n) # {} =>
           /\ \A o \in Targets(n) \ prog.opaque : pts[prog.src[n]] \subseteq dfOut[n][o]
           /\ \A o \in Obj \ Overwrites(n) : dfIn[n][o] \subseteq dfOut[n][o]
    [] OTHER -> TRUE
Delivered(g) == \A o \in Carried(g) : ContentAt(g.src)[o] \subseteq dfIn[g.dst][o]

(* Nothing is lost on the way: what has not been passed on, along an edge  *)
(* or by a statement, is due to a node that is going to be visited.  Marks *)
(* that were cleared, updates that were strong when a store was last       *)
(* visited, and edges that came late leave no fact behind.  At the end     *)
(* nothing is due, so that the result solves the program.                  *)
NothingLost ==
  pc \in {"process", "done"} =>
    LET due == stack \union worklist IN
    /\ \A n \in SVFGNodes(prog) \ due : Satisfied(n)
    /\ \A g \in edges : g.ind => Delivered(g) \/ g.src \in due

(* No pointer gets a pointee that the pre-analysis excludes, as long as it *)
(* takes a load of a structure for a load of its fields too: the detector  *)
(* relies on later analyses to refine earlier ones.                        *)
FieldsCovered(p) ==
  \A v \in Var : p.kind[v] = "load" =>
    \A o \in p.ander[p.src[v]] \ p.opaque : \A f \in p.parts[o] : p.ander[f] \subseteq p.ander[v]
RefinesPreAnalysis == FieldsCovered(prog) => \A v \in Var : pts[v] \subseteq prog.ander[v]

(* What the transfer functions ask of a result, whatever the order in      *)
(* which they run: Round applies all of them at once, without marks.       *)
Solution ==
  [pts : [Var -> SUBSET Obj], inn : [Node -> [Obj -> SUBSET Obj]], out : [Node -> [Obj -> SUBSET Obj]],
   calls : SUBSET CallId]
Within(s, t) ==
  /\ \A v \in Var : s.pts[v] \subseteq t.pts[v]
  /\ \A n \in Node, o \in Obj : s.inn[n][o] \subseteq t.inn[n][o] /\ s.out[n][o] \subseteq t.out[n][o]
  /\ s.calls \subseteq t.calls

EdgesOf(p, C) == p.edges \union UNION {c.edges : c \in {x \in p.icalls : x.id \in C}}
Whole(p, o) == {o} \union p.parts[o]
From(p, s, v) == UNION {s.pts[g.src] : g \in {x \in EdgesOf(p, s.calls) : x.dst = v /\ ~x.ind}}
Into(p, s, n, o) ==
  {g \in EdgesOf(p, s.calls) : g.ind /\ g.dst = n /\ \E x \in g.guard : o \in Whole(p, x)}
ContentOf(p, s, n) == IF p.kind[n] = "store" THEN s.out[n] ELSE s.inn[n]
Sure(p, s, n, o) ==
  /\ s.pts[p.dst[n]] = {o} /\ o \notin p.heap \union p.weak
  /\ ~LocalInRecursion(View(p, s.calls, s.calls, "flow"), o)
Round(p, s) ==
  [pts |-> [v \in Var |->
     CASE p.kind[v] = "addr" -> {p.obj[v]}
       [] p.kind[v] = "copy" -> From(p, s, v)
       [] p.kind[v] = "gep" -> {p.field[v][o] : o \in From(p, s, v)}
       [] p.kind[v] = "load" ->
            UNION {s.inn[v][o] : o \in UNION {Whole(p, x) : x \in s.pts[p.src[v]] \ p.opaque}}],
   inn |-> [n \in Node |-> [o \in Obj |->
     UNION {ContentOf(p, s, g.src)[o] : g \in Into(p, s, n, o)}]],
   out |-> [n \in Node |-> [o \in Obj |->
     IF p.kind[n] # "store" \/ s.pts[p.dst[n]] = {} THEN {}
     ELSE (IF o \in s.pts[p.dst[n]] \ p.opaque THEN s.pts[p.src[n]] ELSE {})
            \union (IF Sure(p, s, n, o) THEN {} ELSE s.inn[n][o])]],
   calls |-> p.calls \union {c.id : c \in {x \in p.icalls : x.target \in s.pts[x.fp]}}]
Solves(p, s) == s \in Solution /\ Within(Round(p, s), s)

(* The result is the least solution, in each set the analysis keeps: it    *)
(* solves the program, and no order of the nodes, no update that is strong *)
(* for a while and no mark ever adds a fact that another solution lacks.   *)
Result == [pts |-> pts, inn |-> dfIn, out |-> dfOut, calls |-> called]
LeastSolution ==
  /\ pc = "done" => Solves(prog, Result)
  /\ \A s \in Candidates[prog] : Within(Result, s) \/ ~Solves(prog, s)

(* analyze() returns.                                                      *)
Terminates == <>(pc = "done")
=============================================================================
