---------------------------- MODULE DDAVFSolver ----------------------------
(***************************************************************************)
(* The demand-driven pointer analysis (include/DDA/DDAVFSolver.h) with its *)
(* two instances, FlowDDA and ContextDDA.  A query walks the sparse        *)
(* value-flow graph backwards; the recursion of findPT() and reCompute()   *)
(* is an explicit stack.  Caches live from query to query; the record of   *)
(* the items a query has met does not.  A context-sensitive query that     *)
(* runs out of budget is asked again of the flow-sensitive instance, and   *)
(* a flow-sensitive one is answered by the pre-analysis.                   *)
(***************************************************************************)
EXTENDS ValueFlow

(* The edges of a call end at nodes that have its function pointer         *)
(* resolved before their values are collected: at parameters and memory at *)
(* the entry of the function, or at results and memory behind the call.    *)
ASSUME ResolvesAssumption ==
  \A p \in Programs : \A c \in p.icalls :
    c.target \in p.ander[c.fp] => \A g \in c.edges : c.fp \in p.resolves[g.dst]
ASSUME NoneAssumption == None \notin CVar

VARIABLES
  prog,
  queries,      \* candidate queries still to answer
  query,        \* the pointer asked about
  engine, pc,   \* the analysis at work; answered, finding, degrading
  stack,        \* activations of findPT(); last is top
  visited,      \* backwardVisited
  cache,        \* dpmToTLCPtSetMap and dpmToADCPtSetMap: [at, to] entries
  recorded,     \* locToDpmSetMap
  loadVar,      \* loadToPTCVarMap: [at, var] entries
  beyond,       \* outOfBudgetDpms
  edges,        \* edges of the value-flow graph, growing with the calls
  called,       \* calls in the call graph
  sccCalls,     \* calls its cycle detection has seen
  steps, oob,   \* steps of the query, outOfBudgetQuery
  answers       \* ContextDDA's points-to sets: [at, to] entries

graph == <<edges, called, sccCalls>>
vars == <<prog, queries, query, engine, pc, stack, visited, cache, recorded, loadVar, beyond,
          graph, steps, oob, answers>>

CachedPts(e, k) == {c.to : c \in {m \in cache[e] : m.at = k}}
ItemOf(v, cxt, conc) == [at |-> [loc |-> v, cur |-> v, cxt |-> cxt], conc |-> conc]
Root == ItemOf(query, <<>>, TRUE)
Now == View(prog, called[engine], sccCalls[engine], engine)
-----------------------------------------------------------------------------
(* What a statement looks at.  A visit follows an edge from an item.       *)

Visit == [edge : Edge, from : Key]
DirectVF(e, k) == {[edge |-> g, from |-> k] : g \in {x \in edges[e] : x.dst = k.loc /\ ~x.ind}}
OperandVFAny(e, k, v) == DirectVF(e, k)   \* mutant: both operands of a store are taken for each
OperandVF(e, k, v) == {x \in DirectVF(e, k) : x.edge.src = v}
IndirectVF(e, k) ==
  {[edge |-> g, from |-> k] :
     g \in {x \in edges[e] : /\ x.dst = k.loc /\ x.ind /\ k.cur \in x.guard
                             /\ k.cur \notin prog.opaque}}
ObjKey(k, c) == [k EXCEPT !.cur = c.id]

(* Items met in this query whose values may depend on those of k.          *)
AffectedSameVar(e, k, g, call) ==    \* mutant: a load is taken for one of the objects it loads
  {i \in recorded[e] : i.at.loc = g.dst /\ (~call /\ g.ind => i.at.cur = k.cur)}
Affected(e, k, g, call) ==
  {i \in recorded[e] :
     /\ i.at.loc = g.dst
     /\ ~call /\ g.ind /\ prog.kind[g.dst] # "load" => i.at.cur = k.cur}

Stage == {"funptr", "base", "stmt", "new", "out"}
Frame ==
  [item : Item, stage : Stage, pts : SUBSET CVar,
   base : SUBSET CVar,                  \* what the pointer operand points to
   funs : SUBSET Var, objs : SUBSET CVar, visits : SUBSET Visit, weak : CVar \union {None},
   into : {"pts", "base", "none"},      \* where the pending call's result goes
   edges : SUBSET Edge, items : SUBSET Item]

NewFrame(d, stage, E) ==
  [item |-> d, stage |-> stage, pts |-> {}, base |-> {}, funs |-> prog.resolves[d.at.loc],
   objs |-> {}, visits |-> {}, weak |-> None, into |-> "none", edges |-> E, items |-> {}]

top == stack[Len(stack)]
Below == SubSeq(stack, 1, Len(stack) - 1)
Replace(f) == Append(Below, f)

(* findPT() returns pts to the activation on top of st.                    *)
Give(st, pts) ==
  IF st = <<>> THEN st
  ELSE LET f == st[Len(st)] IN
       [st EXCEPT ![Len(st)] =
          CASE f.into = "pts" -> [f EXCEPT !.pts = UnionPts(@, pts)]
            [] f.into = "base" -> [f EXCEPT !.base = UnionPts(@, pts)]
            [] f.into = "none" -> f]
-----------------------------------------------------------------------------
(* findPT(d) called from the activation on top of st, when vis is visited. *)
FindPT(d, vis, st) ==
  LET known == d.at \in vis
      spent == steps[engine] + 1
      over == oob[engine] \/ spent > prog.budget[engine]
  IN /\ visited' = [visited EXCEPT ![engine] = vis \union {d.at}]
     /\ recorded' = IF known THEN recorded ELSE [recorded EXCEPT ![engine] = Insert(@, d)]
     /\ steps' = IF known \/ oob[engine] THEN steps ELSE [steps EXCEPT ![engine] = spent]
     /\ oob' = IF known THEN oob ELSE [oob EXCEPT ![engine] = over]
     /\ stack' = IF known \/ over \/ d.at \in beyond[engine]
                 THEN Give(st, CachedPts(engine, d.at))
                 ELSE Append(st, NewFrame(d, "funptr", {}))

(* updateCachedPointsTo(d, pts) called from the activation on top of st:   *)
(* when the cache grows, reCompute() first connects the calls that its     *)
(* new contents decide.                                                    *)
UpdateCachedPointsTo(e, d, pts, st) ==
  LET old == CachedPts(e, d.at)
      all == UnionPts(old, pts)
      new == {c \in prog.icalls : /\ c.fp = d.at.cur /\ \E o \in all : o.id = c.target
                                  /\ c.id \notin called[e]}
      connected == UNION {c.edges : c \in new}
  IN IF all = old
     THEN /\ stack' = Give(st, old)
          /\ UNCHANGED <<cache, graph>>
     ELSE /\ cache' = [cache EXCEPT ![e] = @ \union {[at |-> d.at, to |-> c] : c \in all}]
          /\ edges' = [edges EXCEPT ![e] = @ \union connected]
          /\ called' = [called EXCEPT ![e] = @ \union {c.id : c \in new}]
          /\ sccCalls' = IF connected \subseteq edges[e] THEN sccCalls
                         ELSE [sccCalls EXCEPT ![e] = called'[e]]
          /\ stack' = Append(st, NewFrame(d, "new", connected \ edges[e]))

(* computeDDAPts() of engine e, up to its findPT(): resetQuery() forgets   *)
(* what the last query has met, and unmarks it if it went out of budget.   *)
OOBResetNothing(e) == visited[e]     \* mutant: marks of an aborted query stay
OOBResetVisited(e) ==
  visited[e] \ {d.at : d \in {i \in recorded[e] : i.at \notin beyond[e]}}
MetBefore(e, met) == recorded[e] \union met   \* mutant: the record outlives the query
Met(e, met) == met
ComputeDDAPts(e, v) ==
  LET root == ItemOf(v, <<>>, TRUE)
      vis == IF oob[e] THEN OOBResetVisited(e) ELSE visited[e]
      over == prog.budget[e] = 0
      known == root.at \in vis
  IN /\ visited' = [visited EXCEPT ![e] = vis \union {root.at}]
     /\ recorded' = [recorded EXCEPT ![e] = Met(e, IF known THEN {} ELSE {root})]
     /\ loadVar' = [loadVar EXCEPT ![e] = {}]
     /\ steps' = [steps EXCEPT ![e] = IF known THEN 0 ELSE 1]
     /\ oob' = [oob EXCEPT ![e] = ~known /\ over]
     /\ stack' = IF known \/ over \/ root.at \in beyond[e] THEN <<>>
                 ELSE <<NewFrame(root, "funptr", {})>>
     /\ engine' = e /\ pc' = "finding"
-----------------------------------------------------------------------------
Init ==
  /\ prog \in Programs
  /\ queries = prog.queries /\ query = None /\ engine = prog.engine /\ pc = "answered"
  /\ stack = <<>>
  /\ visited = [e \in Engine |-> {}] /\ cache = [e \in Engine |-> {}]
  /\ recorded = [e \in Engine |-> {}] /\ loadVar = [e \in Engine |-> {}]
  /\ beyond = [e \in Engine |-> {}]
  /\ edges = [e \in Engine |-> prog.edges]
  /\ called = [e \in Engine |-> prog.calls] /\ sccCalls = [e \in Engine |-> prog.calls]
  /\ steps = [e \in Engine |-> 0] /\ oob = [e \in Engine |-> FALSE]
  /\ answers = {}

(* answerQueries() asks for the next candidate.                            *)
StartQuery(v) ==
  /\ pc = "answered"
  /\ queries' = queries \ {v} /\ query' = v
  /\ ComputeDDAPts(prog.engine, v)
  /\ UNCHANGED <<prog, cache, beyond, graph, answers>>

Running(stage) == stack # <<>> /\ top.stage = stage
inQuery == <<prog, queries, query, engine, pc, beyond, answers>>

(* handleSingleStatement().  Function pointers first.                      *)
ResolveFunPtr(v) ==
  /\ Running("funptr") /\ v \in top.funs
  /\ FindPT(ItemOf(v, top.item.at.cxt, top.item.conc), visited[engine],
            Replace([top EXCEPT !.funs = @ \ {v}]))
  /\ UNCHANGED <<inQuery, cache, loadVar, graph>>

Idle(stage) == Running(stage) /\ top.visits = {}
onlyTop == <<inQuery, visited, cache, recorded, graph, steps, oob>>

BeginStatement ==
  /\ Running("funptr") /\ top.funs = {}
  /\ LET k == top.item.at
         n == k.loc
         kind == prog.kind[n]
     IN stack' = Replace(
          CASE kind = "addr" ->
                 [top EXCEPT !.stage = "stmt",
                             !.pts = {[id |-> prog.obj[n], cxt |-> k.cxt, conc |-> top.item.conc]}]
            [] kind \in {"copy", "gep"} ->
                 [top EXCEPT !.stage = "stmt", !.into = "pts", !.visits = DirectVF(engine, k)]
            [] kind = "mr" ->
                 [top EXCEPT !.stage = "stmt", !.into = "pts", !.visits = IndirectVF(engine, k)]
            [] kind = "load" ->
                 [top EXCEPT !.stage = "base", !.into = "base",
                             !.visits = OperandVF(engine, k, prog.src[n])]
            [] kind = "store" ->
                 [top EXCEPT !.stage = "base", !.into = "base",
                             !.visits = OperandVF(engine, k, prog.dst[n])])
  /\ UNCHANGED <<onlyTop, loadVar>>

(* backwardPropDpm(): an infeasible context ends the visit; along an       *)
(* indirect edge the object that the load looks for comes with the item.   *)
BackwardPropDpm(x) ==
  /\ x \in top.visits
  /\ LET g == x.edge
         s == top.item.at.cxt
         d == [at |-> [loc |-> g.src, cur |-> IF g.ind THEN x.from.cur ELSE g.src,
                       cxt |-> Context(Now, s, g)],
               conc |-> Concrete(Now, s, top.item.conc, g)]
         rest == Replace([top EXCEPT !.visits = @ \ {x}])
     IN \/ /\ Feasible(Now, s, g)
           /\ \/ ~g.ind /\ UNCHANGED loadVar
              \/ /\ g.ind
                 /\ \E m \in loadVar[engine] :
                      /\ m.at = x.from
                      /\ loadVar' = [loadVar EXCEPT ![engine] = Put(@, d.at, m.var)]
           /\ FindPT(d, visited[engine], rest)
        \/ /\ ~Feasible(Now, s, g)
           /\ oob' = [oob EXCEPT ![engine] = @ \/ Repeated(Now, s, g)]
           /\ stack' = rest
           /\ UNCHANGED <<visited, recorded, loadVar, steps>>
  /\ UNCHANGED <<inQuery, cache, graph>>

BaseDone ==
  /\ Idle("base")
  /\ stack' = Replace([top EXCEPT !.stage = "stmt", !.into = "pts", !.objs = top.base])
  /\ UNCHANGED <<onlyTop, loadVar>>

Rest(c) == [top EXCEPT !.objs = @ \ {c}]
LookFor(k, c) == loadVar' = [loadVar EXCEPT ![engine] = Put(@, k, c)]

(* The next object that the base of a load or a store points to.           *)
LoadObject(c) ==
  /\ Idle("stmt") /\ prog.kind[top.item.at.loc] = "load" /\ c \in top.objs
  /\ LET k == ObjKey(top.item.at, c)
     IN LookFor(k, c) /\ stack' = Replace([Rest(c) EXCEPT !.visits = IndirectVF(engine, k)])
  /\ UNCHANGED onlyTop

StoreObject(c) ==
  /\ Idle("stmt") /\ prog.kind[top.item.at.loc] = "store" /\ top.weak = None /\ c \in top.objs
  /\ LET k == top.item.at
     IN \E m \in loadVar[engine] :
          /\ m.at = k
          /\ \/ /\ SameVar(Now, c, m.var)
                /\ LookFor(k, c)
                /\ stack' = Replace([Rest(c) EXCEPT !.weak = c,
                                       !.visits = OperandVF(engine, k, prog.src[k.loc])])
             \/ /\ ~SameVar(Now, c, m.var)
                /\ stack' = Replace([Rest(c) EXCEPT !.visits = IndirectVF(engine, k)])
                /\ UNCHANGED loadVar
  /\ UNCHANGED onlyTop

(* After the stored value, the values before the store unless it           *)
(* overwrites them.                                                        *)
OldValuesAlways ==                   \* mutant: no strong updates
  /\ Idle("stmt") /\ top.weak # None
  /\ LookFor(top.item.at, top.weak)
  /\ stack' = Replace([top EXCEPT !.weak = None, !.visits = IndirectVF(engine, top.item.at)])
  /\ UNCHANGED onlyTop
OldValues ==
  /\ Idle("stmt") /\ top.weak # None
  /\ \/ /\ StrongUpdate(Now, top.base)
        /\ stack' = Replace([top EXCEPT !.weak = None])
        /\ UNCHANGED loadVar
     \/ /\ ~StrongUpdate(Now, top.base)
        /\ LookFor(top.item.at, top.weak)
        /\ stack' = Replace([top EXCEPT !.weak = None, !.visits = IndirectVF(engine, top.item.at)])
  /\ UNCHANGED onlyTop

EndStatement ==
  /\ Idle("stmt") /\ top.weak = None /\ top.objs = {}
  /\ LET n == top.item.at.loc
     IN UpdateCachedPointsTo(engine, top.item, IF prog.kind[n] = "gep" THEN GepPts(prog, n, top.pts) ELSE top.pts,
                             Below)
  /\ UNCHANGED <<inQuery, visited, recorded, loadVar, steps, oob>>

(* reComputeForEdges(): first for the edges of new calls, then for all out *)
(* edges.                                                                  *)
Recomputing == Running("new") \/ Running("out")

NextEdge(g) ==
  /\ Recomputing /\ top.items = {} /\ g \in top.edges
  /\ stack' = Replace([top EXCEPT !.edges = @ \ {g},
                                  !.items = Affected(engine, top.item.at, g, top.stage = "new")])
  /\ UNCHANGED <<onlyTop, loadVar>>

ReComputeAgain(d) ==                 \* mutant: the item stays in the list
  /\ Recomputing /\ d \in top.items
  /\ d.at \in visited[engine]
  /\ FindPT(d, visited[engine] \ {d.at}, stack)
  /\ UNCHANGED <<inQuery, cache, loadVar, graph>>
ReCompute(d) ==
  /\ Recomputing /\ d \in top.items
  /\ d.at \in visited[engine]
  /\ FindPT(d, visited[engine] \ {d.at}, Replace([top EXCEPT !.items = @ \ {d}]))
  /\ UNCHANGED <<inQuery, cache, loadVar, graph>>

OutEdges ==
  /\ Running("new") /\ top.edges = {} /\ top.items = {}
  /\ stack' = Replace([top EXCEPT !.stage = "out",
                                  !.edges = {g \in edges[engine] : g.src = top.item.at.loc}])
  /\ UNCHANGED <<onlyTop, loadVar>>

Return ==
  /\ Running("out") /\ top.edges = {} /\ top.items = {}
  /\ stack' = Give(Below, CachedPts(engine, top.item.at))
  /\ UNCHANGED <<onlyTop, loadVar>>
-----------------------------------------------------------------------------
(* The end of a query.  FlowDDA's points-to set of a pointer is its cache. *)

Answers(pts) == answers' = answers \union {[at |-> Root.at, to |-> c] : c \in pts}

AnswerInBudget ==
  /\ pc = "finding" /\ stack = <<>> /\ engine = prog.engine /\ ~oob[engine]
  /\ IF engine = "cxt" THEN Answers(CachedPts("cxt", Root.at)) ELSE UNCHANGED answers
  /\ pc' = "answered"
  /\ UNCHANGED <<prog, queries, query, engine, stack, visited, cache, recorded, loadVar, beyond,
                 graph, steps, oob>>

(* handleOutOfBudgetDpm(): the context-sensitive analysis asks the         *)
(* flow-sensitive one; that one takes the result of the pre-analysis.      *)
Downgrade ==
  /\ pc = "finding" /\ stack = <<>> /\ engine = "cxt" /\ oob["cxt"]
  /\ ComputeDDAPts("flow", query)
  /\ UNCHANGED <<prog, queries, query, cache, beyond, graph, answers>>

Conservative(ids) == {[id |-> o, cxt |-> <<>>, conc |-> TRUE] : o \in ids}

DegradeFlow ==
  /\ pc = "finding" /\ stack = <<>> /\ engine = "flow" /\ oob["flow"]
  /\ pc' = "degrading"
  /\ UpdateCachedPointsTo("flow", Root, Conservative(prog.ander[query]), <<>>)
  /\ UNCHANGED <<prog, queries, query, engine, visited, recorded, loadVar, beyond, steps, oob,
                 answers>>

FlowPtsPreAnalysed == Conservative(prog.ander[query])   \* mutant: falls back twice at once
FlowPts == Conservative({c.id : c \in CachedPts("flow", Root.at)})
DegradeContext ==
  /\ stack = <<>> /\ engine = "flow" /\ prog.engine = "cxt"
  /\ \/ pc = "finding" /\ ~oob["flow"] /\ UNCHANGED beyond
     \/ pc = "degrading" /\ beyond' = [beyond EXCEPT !["flow"] = @ \union {Root.at}]
  /\ engine' = "cxt" /\ pc' = "degrading"
  /\ UpdateCachedPointsTo("cxt", Root, FlowPts, <<>>)
  /\ UNCHANGED <<prog, queries, query, visited, recorded, loadVar, steps, oob, answers>>

AnswerDegraded ==
  /\ pc = "degrading" /\ stack = <<>> /\ engine = prog.engine
  /\ IF engine = "cxt" THEN Answers(FlowPts) ELSE UNCHANGED answers
  /\ beyond' = [beyond EXCEPT ![engine] = @ \union {Root.at}]
  /\ pc' = "answered"
  /\ UNCHANGED <<prog, queries, query, engine, stack, visited, cache, recorded, loadVar, graph,
                 steps, oob>>

Statement ==
  \/ \E v \in Var : ResolveFunPtr(v)
  \/ BeginStatement
  \/ stack # <<>> /\ \E x \in top.visits : BackwardPropDpm(x)
  \/ BaseDone
  \/ stack # <<>> /\ \E c \in top.objs : LoadObject(c) \/ StoreObject(c)
  \/ OldValues
  \/ EndStatement
Recomputation ==
  \/ stack # <<>> /\ \E g \in top.edges : NextEdge(g)
  \/ stack # <<>> /\ \E d \in top.items : ReCompute(d)
  \/ OutEdges
  \/ Return
EndOfQuery == AnswerInBudget \/ Downgrade \/ DegradeFlow \/ DegradeContext \/ AnswerDegraded

Terminated == pc = "answered" /\ queries = {} /\ UNCHANGED vars
Next == (\E v \in queries : StartQuery(v)) \/ Statement \/ Recomputation \/ EndOfQuery \/ Terminated

Spec == Init /\ [][Next]_vars
FairSpec == Spec /\ WF_vars(Next)
-----------------------------------------------------------------------------
(* Properties.                                                             *)

TypeOK ==
  /\ queries \subseteq Var /\ query \in Var \union {None} /\ (pc # "answered" => query \in Var)
  /\ engine \in Engine /\ pc \in {"answered", "finding", "degrading"}
  /\ stack \in Seq(Frame)
  /\ visited \in [Engine -> SUBSET Key]
  /\ cache \in [Engine -> SUBSET [at : Key, to : CVar]]
  /\ recorded \in [Engine -> SUBSET Item]
  /\ loadVar \in [Engine -> SUBSET [at : Key, var : CVar]]
  /\ beyond \in [Engine -> SUBSET Key]
  /\ edges \in [Engine -> SUBSET Edge]
  /\ called \in [Engine -> SUBSET CallId] /\ sccCalls \in [Engine -> SUBSET CallId]
  /\ steps \in [Engine -> Nat] /\ oob \in [Engine -> BOOLEAN]
  /\ answers \subseteq [at : Key, to : CVar]

(* No item and no answer has a pointee that the pre-analysis rules out:    *)
(* what calls, field objects and guards take from it stays true.           *)
Precise ==
  /\ \A e \in Engine : \A m \in cache[e] : m.to.id \in prog.ander[m.at.cur]
  /\ \A m \in answers : m.to.id \in prog.ander[m.at.cur]

(* An item asked of again has been computed: the assertion in              *)
(* clearbkVisited(); and no object is looked for that was not recorded:    *)
(* the one in getLoadCVar().                                               *)
NoAssertionFails ==
  stack # <<>> =>
    /\ \A d \in top.items : d.at \in visited[engine]
    /\ \A x \in top.visits : x.edge.ind => \E m \in loadVar[engine] : m.at = x.from
    /\ top.objs # {} /\ prog.kind[top.item.at.loc] = "store"
         => \E m \in loadVar[engine] : m.at = top.item.at

(* Every query is answered: the recomputation of cycles comes to an end.   *)
Terminates == <>(pc = "answered" /\ queries = {})
=============================================================================
