-------------------------- MODULE AndersenWaveDiff --------------------------
(***************************************************************************)
(* SVF's default whole-program pointer analysis (lib/WPA/Andersen.cpp,     *)
(* AndersenWave.cpp, AndersenWaveDiff.cpp, include/WPA/WPASolver.h) on its *)
(* constraint graph (lib/MemoryModel/ConsG.cpp).                           *)
(*                                                                         *)
(* Edges carry inclusion constraints between the points-to sets of nodes.  *)
(* solve() merges the strongly connected components of the copy and gep    *)
(* edges, sends along every such edge, in topological order, what it has   *)
(* not sent before (the wave), and turns loads and stores into new copy    *)
(* edges (the post phase).  analyze() repeats it, resolving indirect calls *)
(* in between, until a round adds nothing.  An object whose fields a       *)
(* pointer may walk over is collapsed into one field-insensitive node.     *)
(*                                                                         *)
(* A field's LocationSet is its index; a program is a member of Programs.  *)
(***************************************************************************)
EXTENDS Naturals, Sequences, FiniteSets

CONSTANTS
  Ptr,          \* top-level variables
  Obj,          \* memory objects; o also names the field-insensitive node of o
  Limit,        \* getMaxFieldOffsetLimit() of each object
  InitFI,       \* objects created field-insensitive (heap, large arrays)
  BlackHole,    \* the black hole object, if the program has one
  ConstObj,     \* the constant object, if the program has one
  NonPointer,   \* object nodes that cannot hold a pointer
  CallLimit,    \* IndirectCallLimit
  Programs,     \* the programs to analyse
  AnyOrder,     \* FALSE bounds checking to one order of every loop
  None

Field == UNION {{o} \X (0..Limit[o] - 1) : o \in Obj}
ObjNode == Obj \union Field
Node == Ptr \union ObjNode

(* What a loop over the set S, or a work list holding S, may take next:    *)
(* node numbers decide, and any numbering is possible.                     *)
Pick(S) == IF AnyOrder \/ S = {} THEN S ELSE {CHOOSE s \in S : TRUE}

Base(n) == IF n \in Field THEN n[1] ELSE n
Index(n) == IF n \in Field THEN n[2] ELSE 0

Direct == {"copy", "ngep", "vgep"}
Edge == [kind : Direct \union {"load", "store"}, src : Node, dst : Node, off : Nat]

(* addr: the address-of statements; edges: all others; icalls: for each    *)
(* indirect call site and function with matching arguments, the pointer    *)
(* called, the function's object and the (actual, formal) and (return,     *)
(* result) pairs the call connects; bound: a field-insensitive solution.   *)
Program == [addr : SUBSET (Obj \X Ptr), edges : SUBSET Edge,
            icalls : SUBSET [fp : Ptr, fun : Obj, flow : SUBSET (Ptr \X Ptr)],
            bound : [Ptr \union Obj -> SUBSET Obj]]

(* The variables and objects of a program.                                 *)
Named(p) ==
  {n \in Ptr \union Obj :
     \/ \E a \in p.addr : n \in {a[1], a[2]}
     \/ \E e \in p.edges : n \in {Base(e.src), Base(e.dst)}
     \/ \E c \in p.icalls : n \in {c.fp, c.fun} \/ \E f \in c.flow : n \in {f[1], f[2]}}

(* What a program constrains, fields ignored: p.bound is one of its        *)
(* solutions, however it was computed.                                     *)
NoCopy(n) == n \in ConstObj \union NonPointer
BoundCovers(p) ==
  LET S(n) == p.bound[Base(n)] IN
  /\ \A a \in p.addr : a[1] \in S(a[2])
  /\ \A e \in p.edges :
       /\ e.kind \in Direct => S(e.src) \subseteq S(e.dst)
       /\ e.kind = "load" => \A o \in S(e.src) : S(o) \subseteq S(e.dst)
       /\ e.kind = "store" => \A o \in S(e.dst) : S(e.src) \subseteq S(o)
  /\ \A c \in p.icalls : c.fun \in S(c.fp) => \A f \in c.flow : S(f[1]) \subseteq S(f[2])

ASSUME LimitAssumption == Limit \in [Obj -> Nat \ {0}]
ASSUME KindAssumption ==
  /\ InitFI \subseteq Obj /\ BlackHole \subseteq Obj /\ ConstObj \subseteq Obj
  /\ NonPointer \subseteq ObjNode
ASSUME DisjointAssumption == Ptr \intersect Obj = {} /\ (Ptr \union Obj) \intersect Field = {}
ASSUME ProgramAssumption ==
  \A p \in Programs : p \in Program /\ BoundCovers(p) /\ IsFiniteSet(p.icalls)
\* The builder's statements are about variables only, and no address is computed
\* from itself; addCopyCGEdge() drops a copy to itself.
ASSUME StatementAssumption ==
  \A p \in Programs : \A e \in p.edges :
    e.src \in Ptr /\ e.dst \in Ptr /\ (e.kind \in Direct => e.src # e.dst)
ASSUME NoneAssumption == None \notin Node \union Edge
ASSUME CallLimitAssumption == CallLimit \in Nat /\ AnyOrder \in BOOLEAN
-----------------------------------------------------------------------------
VARIABLES
  prog, pc,
  \* the constraint graph
  nodes, edges, rep, subs, pwc, fieldInsensitive, nodesToBeCollapsed,
  \* points-to data
  pts, revPts, propa, diff, cache,
  \* the solver
  worklist, nodeStack, waveOrder, reanalyze, indCalls,
  \* the handler that is running
  cur, edgesLeft, gep, ptdsLeft, tmpDstPts, merging, changedReps,
  collapsing, fieldsLeft, frames, cpySrcNodes

graphVars == <<nodes, edges, rep, subs, pwc>>
ptVars == <<pts, revPts>>
diffVars == <<propa, diff, cache>>
fiVars == <<fieldInsensitive, nodesToBeCollapsed>>
gepVars == <<gep, ptdsLeft, tmpDstPts>>
sccVars == <<merging, changedReps, waveOrder>>
collapseVars == <<collapsing, fieldsLeft, frames>>
callVars == <<indCalls, cpySrcNodes>>
vars == <<prog, pc, graphVars, fiVars, ptVars, diffVars, worklist, nodeStack,
          reanalyze, callVars, cur, edgesLeft, gepVars, sccVars, collapseVars>>

Init ==
  /\ prog \in Programs
  /\ pc = "addr"
  /\ nodes = Named(prog)
  /\ edges = prog.edges
  /\ rep = [n \in Node |-> n] /\ subs = [n \in Node |-> {n}] /\ pwc = {}
  /\ fieldInsensitive = InitFI /\ nodesToBeCollapsed = {}
  /\ pts = [n \in Node |-> {}] /\ revPts = [o \in ObjNode |-> {}]
  /\ propa = [n \in Node |-> {}] /\ diff = {} /\ cache = {}
  /\ worklist = {} /\ nodeStack = {} /\ waveOrder = {}
  /\ reanalyze = FALSE /\ indCalls = {} /\ cpySrcNodes = {}
  /\ cur = None /\ edgesLeft = {} /\ gep = None /\ ptdsLeft = {} /\ tmpDstPts = {}
  /\ merging = {} /\ changedReps = {}
  /\ collapsing = None /\ fieldsLeft = {} /\ frames = <<>>
-----------------------------------------------------------------------------
(* Points-to data and graph.                                               *)

\* mutant: the reverse map is not kept
UnionPtsNoRev(D) ==
  /\ pts' = [n \in Node |-> pts[n] \union D[n]]
  /\ UNCHANGED revPts

(* unionPts() for several nodes at once: D[n] flows into n.                *)
UnionPts(D) ==
  /\ pts' = [n \in Node |-> pts[n] \union D[n]]
  /\ revPts' = [o \in ObjNode |-> revPts[o] \union {n \in Node : o \in D[n]}]

\* mutant: only the first points-to of a node counts as a change
GrownFromEmpty(D) == {n \in Node : D[n] # {} /\ pts[n] = {}}

Grown(D) == {n \in Node : ~ D[n] \subseteq pts[n]}
Into(n, S) == [x \in Node |-> IF x = n THEN S ELSE {}]

HasEdge(E, k, s, d) == \E e \in E : e.kind = k /\ e.src = s /\ e.dst = d

\* mutant: the new edge goes the wrong way
NewCopyEdgesReversed(P) ==
  {e \in {[kind |-> "copy", src |-> rep[p[2]], dst |-> rep[p[1]], off |-> 0] : p \in P} :
     e.src # e.dst /\ ~HasEdge(edges, "copy", e.src, e.dst)}

(* addCopyCGEdge() refuses an edge that exists or would be a self loop.    *)
NewCopyEdges(P) ==
  {e \in {[kind |-> "copy", src |-> rep[p[1]], dst |-> rep[p[2]], off |-> 0] : p \in P} :
     e.src # e.dst /\ ~HasEdge(edges, "copy", e.src, e.dst)}

(* AndersenWaveDiff::addCopyEdge() for pairs with one common end: what the *)
(* source has is sent along a new edge at once, the target is queued.      *)
AddCopyEdges(P) ==
  LET new == NewCopyEdges(P)
      D == [n \in Node |-> UNION {pts[e.src] : e \in {f \in new : f.dst = n}}]
  IN /\ edges' = edges \union new
     /\ UnionPts(D)
     /\ worklist' = worklist \union Grown(D)

BlkOrConst(o) == o \in BlackHole \union ConstObj

\* mutant: a field of a field-insensitive object is still told apart
GepObjAlwaysField(m, off) == <<Base(m), (Index(m) + off) % Limit[Base(m)]>>

GepObj(m, off) ==
  LET o == Base(m) IN
  IF o \in fieldInsensitive THEN o ELSE <<o, (Index(m) + off) % Limit[o]>>

(* A gep edge inside a component is removed; whether it could move a       *)
(* pointer to another field is then read from the deleted edge.  junk is   *)
(* the case that its memory no longer reads as a NormalGep edge.           *)
Critical(e, junk) == e.kind = "vgep" \/ (e.kind = "ngep" /\ (junk \/ e.off # 0))

\* mutant: edges that are not retargeted are not removed either
MoveInEdgesDangling(E, n, r) ==
  LET kept == {e \in E : e.dst = n /\ (rep[e.src] = r => e.kind \notin Direct)
                         /\ ~HasEdge(E, e.kind, e.src, r)}
  IN (E \ kept) \union {[e EXCEPT !.dst = r] : e \in kept}

MoveInEdges(E, n, r) ==
  LET in == {e \in E : e.dst = n}
      kept == {e \in in : (rep[e.src] = r => e.kind \notin Direct) /\ ~HasEdge(E, e.kind, e.src, r)}
  IN (E \ in) \union {[e EXCEPT !.dst = r] : e \in kept}

MoveOutEdges(E, n, r) ==
  LET out == {e \in E : e.src = n}
      kept == {e \in out : (rep[e.dst] = r => e.kind \notin Direct) /\ ~HasEdge(E, e.kind, r, e.dst)}
  IN (E \ out) \union {[e EXCEPT !.src = r] : e \in kept}

\* mutant: what either node has sent counts as sent
MergedPropaUnion(n, r) == [propa EXCEPT ![r] = @ \union propa[n]]

(* updatePropaPts(): only what both nodes have sent counts as sent.        *)
MergedPropa(n, r) == [propa EXCEPT ![r] = @ \intersect propa[n]]

(* mergeNodeToRep(n, r), P being the points-to sets it starts from.  The   *)
(* maps rep and subs are left to the callers.                              *)
MergeNodeToRep(n, r, P) ==
  LET E1 == MoveInEdges(edges, n, r)
      E2 == MoveOutEdges(E1, n, r)
  IN /\ \E junk \in BOOLEAN :
          pwc' = IF \/ \E e \in edges : e.dst = n /\ rep[e.src] = r /\ Critical(e, junk)
                    \/ \E e \in E1 : e.src = n /\ rep[e.dst] = r /\ Critical(e, junk)
                    \/ n \in pwc
                 THEN pwc \union {r} ELSE pwc
     /\ edges' = E2
     /\ cache' = {c \in cache : c[1] \in E2}
     /\ pts' = [P EXCEPT ![r] = @ \union P[n]]
     /\ revPts' = [o \in ObjNode |-> IF o \in P[n] THEN revPts[o] \union {r} ELSE revPts[o]]
     /\ propa' = MergedPropa(n, r)
     /\ nodes' = nodes \ {n}
-----------------------------------------------------------------------------
(* analyze() starts: every address-of statement, once.                     *)
ProcessAllAddr ==
  /\ pc = "addr"
  /\ LET D == [n \in Node |-> {o \in Obj : <<o, n>> \in prog.addr}]
     IN UnionPts(D) /\ worklist' = Grown(D)
  /\ pc' = "solve"
  /\ UNCHANGED <<prog, graphVars, fiVars, diffVars, nodeStack, reanalyze, callVars,
                 cur, edgesLeft, gepVars, sccVars, collapseVars>>

(* SCCDetect(): the components of the direct edges that are not a single   *)
(* node.  They are disjoint and in each of them no part is closed (which   *)
(* is what the detection promises), and any member may become its root.    *)
(* The roots and the single nodes are stacked in topological order;        *)
(* waveOrder has the pairs that order must respect.                        *)
DirectPairs == {<<e.src, e.dst>> : e \in {f \in edges : f.kind \in Direct}}

StronglyConnected(c) ==
  \A A \in (SUBSET c) \ {{}, c} : \E e \in DirectPairs : e[1] \in A /\ e[2] \in c \ A

Compose(R) == R \union UNION {{<<e[1], f[2]>> : f \in {g \in R : g[1] = e[2]}} : e \in R}
Components(R) ==
  {{m \in nodes : m = n \/ {<<n, m>>, <<m, n>>} \subseteq R} : n \in nodes}
Reach ==
  LET pairs[k \in 0..Cardinality(nodes)] ==      \* joined by at most 2^k edges
        IF k = 0 THEN DirectPairs ELSE UNION {Compose(R) : R \in {pairs[k - 1]}}
  IN pairs[Cardinality(nodes)]
Cycles == {c \in UNION {Components(R) : R \in {Reach}} : Cardinality(c) > 1}

Root(f, n) == IF n \in UNION DOMAIN f THEN f[CHOOSE c \in DOMAIN f : n \in c] ELSE n

StackRoots(f) ==
  /\ nodeStack' = {n \in nodes : Root(f, n) = n}
  /\ changedReps' = nodes \ nodeStack'
  /\ merging' = {<<n, Root(f, n)>> : n \in changedReps'}
  /\ waveOrder' = {p \in {<<Root(f, e[1]), Root(f, e[2])>> : e \in DirectPairs} : p[1] # p[2]}

SCCDetect ==
  /\ pc = "solve"
  /\ \E cycles \in {C \in {Cycles} : \A c, d \in C : /\ StronglyConnected(c)
                                                     /\ c = d \/ c \intersect d = {}} :
       /\ \E f \in Pick({g \in [cycles -> UNION cycles] : \A c \in cycles : g[c] \in c}) :
            StackRoots(f)
       /\ pc' = IF cycles = {} THEN "wave" ELSE "merge"
  /\ reanalyze' = FALSE
  /\ UNCHANGED <<prog, graphVars, fiVars, ptVars, diffVars, worklist, callVars,
                 cur, edgesLeft, gepVars, collapseVars>>

(* mergeSccNodes(): one sub node of a component goes into the root.        *)
MergeSccNode ==
  /\ pc = "merge"
  /\ \E p \in Pick(merging) :
       /\ MergeNodeToRep(p[1], p[2], pts)
       /\ rep' = [rep EXCEPT ![p[1]] = p[2]]
       /\ subs' = [subs EXCEPT ![p[2]] = @ \union {p[1]}]
       /\ merging' = merging \ {p}
  /\ UNCHANGED <<prog, pc, fiVars, diff, worklist, nodeStack, waveOrder, changedReps,
                 reanalyze, callVars, cur, edgesLeft, gepVars, collapseVars>>

(* mergeSccCycle() ends with updateNodeRepAndSubs() for each merged node.  *)
UpdateReps ==
  /\ pc = "merge" /\ merging = {}
  /\ rep' = [n \in Node |-> IF \E c \in changedReps : n \in subs[c]
                            THEN rep[CHOOSE c \in changedReps : n \in subs[c]]
                            ELSE rep[n]]
  /\ subs' = [n \in Node |-> subs[n] \union UNION {subs[c] : c \in {d \in changedReps : rep[d] = n}}]
  /\ changedReps' = {} /\ pc' = "wave"
  /\ UNCHANGED <<prog, nodes, edges, pwc, fiVars, ptVars, diffVars, worklist, nodeStack,
                 merging, waveOrder, reanalyze, callVars, cur, edgesLeft, gepVars, collapseVars>>
-----------------------------------------------------------------------------
(* The wave: processNode() for every node of the stack.                    *)

\* mutant: the stack is not in topological order
TopOfStackUnordered == Pick(nodeStack)

TopOfStack == Pick({n \in nodeStack : \A m \in nodeStack : <<m, n>> \notin waveOrder})

(* handleCopyGep(): nothing to do unless the node has points-to not sent   *)
(* yet.  A node merged since it was stacked is skipped.                    *)
HandleCopyGep(n) ==
  LET d == pts[n] \ propa[n] IN
  /\ propa' = IF rep[n] = n THEN [propa EXCEPT ![n] = pts[n]] ELSE propa
  /\ IF rep[n] = n /\ d # {}
     THEN /\ diff' = d /\ cur' = n /\ pc' = "copygep"
          /\ edgesLeft' = {e \in edges : e.src = n /\ e.kind \in Direct}
     ELSE /\ cur' = None /\ pc' = "wave"
          /\ UNCHANGED <<diff, edgesLeft>>

ProcessNode ==
  /\ pc = "wave"
  /\ \E n \in TopOfStack :
       /\ rep[n] \notin pwc
       /\ nodeStack' = nodeStack \ {n}
       /\ HandleCopyGep(n)
  /\ UNCHANGED <<prog, graphVars, fiVars, ptVars, cache, worklist, reanalyze, callVars,
                 gepVars, sccVars, collapseVars>>

(* A node of a positive weight cycle first collapses all it points to.     *)
ProcessPWCNode ==
  /\ pc = "wave"
  /\ \E n \in TopOfStack :
       /\ rep[n] \in pwc
       /\ nodeStack' = nodeStack \ {n}
       /\ cur' = n
       /\ frames' = <<pts[rep[n]]>>
  /\ pc' = "pwc"
  /\ UNCHANGED <<prog, graphVars, fiVars, ptVars, diffVars, worklist, reanalyze, callVars,
                 edgesLeft, gepVars, sccVars, collapsing, fieldsLeft>>

ResumePWCNode ==
  /\ pc = "pwc" /\ frames = <<>> /\ collapsing = None
  /\ HandleCopyGep(cur)
  /\ UNCHANGED <<prog, graphVars, fiVars, ptVars, cache, worklist, nodeStack, reanalyze, callVars,
                 gepVars, sccVars, collapseVars>>

(* The out-edges are a std::set ordered by kind: copies, then normal geps, *)
(* then variant geps.                                                      *)
ProcessCopy ==
  /\ pc = "copygep" /\ gep = None
  /\ \E e \in Pick({f \in edgesLeft : f.kind = "copy"}) :
       /\ UnionPts(Into(e.dst, diff))
       /\ worklist' = worklist \union {rep[n] : n \in Grown(Into(e.dst, diff))}
       /\ edgesLeft' = edgesLeft \ {e}
  /\ UNCHANGED <<prog, pc, graphVars, fiVars, diffVars, nodeStack, reanalyze, callVars,
                 cur, gepVars, sccVars, collapseVars>>

ProcessGep ==
  /\ pc = "copygep" /\ gep = None
  /\ \A e \in edgesLeft : e.kind # "copy"
  /\ \E e \in Pick({f \in edgesLeft : f.kind = "ngep" \/ \A g \in edgesLeft : g.kind # "ngep"}) :
       /\ gep' = e
       /\ edgesLeft' = edgesLeft \ {e}
  /\ ptdsLeft' = diff
  /\ UNCHANGED <<prog, pc, graphVars, fiVars, ptVars, diffVars, worklist, nodeStack, reanalyze,
                 callVars, cur, tmpDstPts, sccVars, collapseVars>>

(* processGepPts(): one pointee, by what it and the edge are.              *)
GepBlkOrConst(m) ==
  /\ BlkOrConst(Base(m))
  /\ tmpDstPts' = tmpDstPts \union {m}
  /\ UNCHANGED <<nodes, edges, fiVars, ptVars, worklist>>

\* mutant: the field, not its object, becomes field-insensitive
GepVariantOnField(m) ==
  /\ ~BlkOrConst(Base(m)) /\ gep.kind = "vgep"
  /\ tmpDstPts' = tmpDstPts \union {Base(m)}
  /\ fieldInsensitive' = fieldInsensitive \union {m}
  /\ nodesToBeCollapsed' = nodesToBeCollapsed \union ({Base(m)} \ fieldInsensitive)
  /\ UNCHANGED <<nodes, edges, ptVars, worklist>>

GepVariant(m) ==
  /\ ~BlkOrConst(Base(m)) /\ gep.kind = "vgep"
  /\ tmpDstPts' = tmpDstPts \union {Base(m)}
  /\ fieldInsensitive' = fieldInsensitive \union {Base(m)}
  /\ nodesToBeCollapsed' = nodesToBeCollapsed \union ({Base(m)} \ fieldInsensitive)
  /\ UNCHANGED <<nodes, edges, ptVars, worklist>>

GepNormal(m) ==
  /\ ~BlkOrConst(Base(m)) /\ gep.kind = "ngep"
  /\ LET f == GepObj(m, gep.off) IN
       /\ tmpDstPts' = tmpDstPts \union {f}
       /\ nodes' = IF rep[f] = f THEN nodes \union {f} ELSE nodes
       /\ AddCopyEdges(IF gep.off = 0 THEN {<<Base(f), f>>} ELSE {})
  /\ UNCHANGED fiVars

GepPtd ==
  /\ pc = "copygep" /\ gep # None
  /\ \E m \in Pick(ptdsLeft) :
       /\ ptdsLeft' = ptdsLeft \ {m}
       /\ GepBlkOrConst(m) \/ GepVariant(m) \/ GepNormal(m)
  /\ UNCHANGED <<prog, pc, rep, subs, pwc, diffVars, nodeStack, reanalyze, callVars,
                 cur, edgesLeft, gep, sccVars, collapseVars>>

FinishGep ==
  /\ pc = "copygep" /\ gep # None /\ ptdsLeft = {}
  /\ UnionPts(Into(gep.dst, tmpDstPts))
  /\ worklist' = worklist \union {rep[n] : n \in Grown(Into(gep.dst, tmpDstPts))}
  /\ gep' = None /\ tmpDstPts' = {}
  /\ UNCHANGED <<prog, pc, graphVars, fiVars, diffVars, nodeStack, reanalyze, callVars,
                 cur, edgesLeft, ptdsLeft, sccVars, collapseVars>>

FinishCopyGep ==
  /\ pc = "copygep" /\ gep = None /\ edgesLeft = {}
  /\ diff' = {} /\ cur' = None
  /\ pc' = IF nodesToBeCollapsed = {} THEN "wave" ELSE "drain"
  /\ UNCHANGED <<prog, graphVars, fiVars, ptVars, propa, cache, worklist, nodeStack, reanalyze,
                 callVars, edgesLeft, gepVars, sccVars, collapseVars>>
-----------------------------------------------------------------------------
(* Collapsing.  frames is the call stack of collapseNodePts(): per call    *)
(* the pointees of its ptsClone that it has not looked at yet.             *)

(* collapseField(), up to its loop over the fields that exist.             *)
CollapseField(o) ==
  IF BlkOrConst(o) \/ Limit[o] = 1
  THEN UNCHANGED <<fieldInsensitive, collapsing, fieldsLeft>>
  ELSE /\ fieldInsensitive' = fieldInsensitive \union {o}
       /\ collapsing' = o
       /\ fieldsLeft' = {f \in Field : Base(f) = o /\ (f \in nodes \/ rep[f] # f)}

CollapseNext ==
  /\ pc = "drain" /\ frames = <<>> /\ collapsing = None
  /\ IF nodesToBeCollapsed = {}
     THEN pc' = "wave" /\ UNCHANGED <<fiVars, collapsing, fieldsLeft>>
     ELSE \E o \in Pick(nodesToBeCollapsed) :
            /\ nodesToBeCollapsed' = nodesToBeCollapsed \ {o}
            /\ CollapseField(o)
            /\ pc' = pc
  /\ UNCHANGED <<prog, graphVars, ptVars, diffVars, worklist, nodeStack, reanalyze, callVars,
                 cur, edgesLeft, gepVars, sccVars, frames>>

CollapseNodePts ==
  /\ pc \in {"pwc", "drain"} /\ frames # <<>> /\ collapsing = None
  /\ LET top == Len(frames)
         left == {m \in frames[top] : Base(m) \notin fieldInsensitive}
     IN IF left = {}
        THEN frames' = SubSeq(frames, 1, top - 1)
             /\ UNCHANGED <<fieldInsensitive, collapsing, fieldsLeft>>
        ELSE \E m \in Pick(left) :
               frames' = [frames EXCEPT ![top] = left \ {m}] /\ CollapseField(Base(m))
  /\ UNCHANGED <<prog, pc, graphVars, nodesToBeCollapsed, ptVars, diffVars, worklist, nodeStack,
                 reanalyze, callVars, cur, edgesLeft, gepVars, sccVars>>

(* One field: whoever points to it now points to the object, and the node  *)
(* of the field is merged into the object's.                               *)
Redirected(f) ==
  LET holders == {rep[x] : x \in revPts[f]}
  IN [n \in Node |-> IF n \in holders THEN (pts[n] \ {f}) \union {collapsing} ELSE pts[n]]

MergeField(fr, br, P) ==
  IF fr = br
  THEN pts' = P /\ UNCHANGED <<revPts, propa, cache, graphVars>>
  ELSE /\ MergeNodeToRep(fr, br, P)
       /\ rep' = [n \in Node |-> IF n = fr \/ n \in subs[fr] THEN br ELSE rep[n]]
       /\ subs' = [subs EXCEPT ![br] = @ \union {fr} \union subs[fr]]

CollapseOneField ==
  /\ collapsing # None
  /\ \E f \in Pick(fieldsLeft) :
       /\ fieldsLeft' = fieldsLeft \ {f}
       /\ reanalyze' = (reanalyze \/ revPts[f] # {})
       /\ MergeField(rep[f], rep[collapsing], Redirected(f))
  /\ UNCHANGED <<prog, pc, fiVars, diff, worklist, nodeStack, callVars,
                 cur, edgesLeft, gepVars, sccVars, collapsing, frames>>

FinishCollapseField ==
  /\ collapsing # None /\ fieldsLeft = {}
  /\ frames' = IF rep[collapsing] \in pwc THEN Append(frames, pts[rep[collapsing]]) ELSE frames
  /\ collapsing' = None
  /\ UNCHANGED <<prog, pc, graphVars, fiVars, ptVars, diffVars, worklist, nodeStack, reanalyze,
                 callVars, cur, edgesLeft, gepVars, sccVars, fieldsLeft>>
-----------------------------------------------------------------------------
(* The post phase: loads and stores of every node in the work list.        *)
SolvePost == pc = "wave" /\ nodeStack = {}

PopFromWorklist ==
  /\ SolvePost
  /\ \E x \in Pick(worklist) :
       /\ worklist' = worklist \ {x}
       /\ edgesLeft' = {e \in edges : (e.kind = "load" /\ e.src = rep[x])
                                      \/ (e.kind = "store" /\ e.dst = rep[x])}
       /\ IF edgesLeft' = {} THEN UNCHANGED <<cur, pc>> ELSE cur' = rep[x] /\ pc' = "post"
  /\ UNCHANGED <<prog, graphVars, fiVars, ptVars, diffVars, nodeStack, reanalyze, callVars,
                 gepVars, sccVars, collapseVars>>

(* handleLoad(), handleStore(): a copy edge for each pointee that the edge *)
(* has not seen.  All loads of the node come before its stores.            *)
HandleEdge(e) ==
  LET new == {o \in pts[cur] : <<e, o>> \notin cache}
      P == {IF e.kind = "load" THEN <<o, e.dst>> ELSE <<e.src, o>> : o \in {m \in new : ~NoCopy(m)}}
  IN /\ cache' = cache \union ({e} \X new)
     /\ AddCopyEdges(P)
     /\ reanalyze' = (reanalyze \/ NewCopyEdges(P) # {})
     /\ edgesLeft' = edgesLeft \ {e}
     /\ IF edgesLeft' = {} THEN cur' = None /\ pc' = "wave" ELSE UNCHANGED <<cur, pc>>
     /\ UNCHANGED <<prog, nodes, rep, subs, pwc, fiVars, propa, diff, nodeStack, callVars,
                    gepVars, sccVars, collapseVars>>

HandleLoad ==
  /\ pc = "post"
  /\ \E e \in Pick({f \in edgesLeft : f.kind = "load"}) : HandleEdge(e)

HandleStore ==
  /\ pc = "post" /\ \A e \in edgesLeft : e.kind # "load"
  /\ \E e \in Pick(edgesLeft) : HandleEdge(e)
-----------------------------------------------------------------------------
\* mutant: a target that is already known is reported again
NewTargetsAgain == {c \in prog.icalls : c.fun \in pts[rep[c.fp]]}

(* resolveIndCalls(): targets that the call graph does not have yet.       *)
NewTargets == {c \in prog.icalls \ indCalls : c.fun \in pts[rep[c.fp]]}

(* updateCallGraph(): calls through function pointers that now have new    *)
(* targets, until more than CallLimit edges have been resolved.            *)
UpdateCallGraph ==
  /\ SolvePost /\ worklist = {}
  /\ LET found == NewTargets
         room == IF Cardinality(indCalls) > CallLimit THEN 0
                 ELSE CallLimit + 1 - Cardinality(indCalls)
     IN \E new \in SUBSET found :
          /\ IF Cardinality(found) <= room THEN new = found ELSE Cardinality(new) = room
          /\ indCalls' = indCalls \union new
          /\ LET copies == NewCopyEdges(UNION {c.flow : c \in new})
             IN edges' = edges \union copies
                /\ cpySrcNodes' = {<<e.src, e.dst>> : e \in copies}
          /\ pc' = IF new # {} THEN "connect" ELSE IF reanalyze THEN "solve" ELSE "done"
  /\ UNCHANGED <<prog, nodes, rep, subs, pwc, fiVars, ptVars, diffVars, worklist, nodeStack,
                 reanalyze, cur, edgesLeft, gepVars, sccVars, collapseVars>>

\* mutant: the new edge's source is not sent along
ConnectPairUnsent ==
  /\ pc = "connect"
  /\ \E p \in Pick(cpySrcNodes) :
       /\ worklist' = worklist \union {rep[p[2]]}
       /\ cpySrcNodes' = cpySrcNodes \ {p}
  /\ UNCHANGED <<prog, pc, graphVars, fiVars, ptVars, diffVars, nodeStack, reanalyze, indCalls,
                 cur, edgesLeft, gepVars, sccVars, collapseVars>>

ConnectPair ==
  /\ pc = "connect"
  /\ \E p \in Pick(cpySrcNodes) :
       /\ UnionPts(Into(rep[p[2]], pts[rep[p[1]]]))
       /\ worklist' = worklist \union {rep[p[2]]}
       /\ cpySrcNodes' = cpySrcNodes \ {p}
  /\ UNCHANGED <<prog, pc, graphVars, fiVars, diffVars, nodeStack, reanalyze, indCalls,
                 cur, edgesLeft, gepVars, sccVars, collapseVars>>

FinishCallGraph ==
  /\ pc = "connect" /\ cpySrcNodes = {}
  /\ pc' = "solve"
  /\ UNCHANGED <<prog, graphVars, fiVars, ptVars, diffVars, worklist, nodeStack, reanalyze,
                 callVars, cur, edgesLeft, gepVars, sccVars, collapseVars>>

Terminated == pc = "done" /\ UNCHANGED vars

Next ==
  \/ ProcessAllAddr
  \/ SCCDetect \/ MergeSccNode \/ UpdateReps
  \/ ProcessNode \/ ProcessPWCNode \/ ResumePWCNode
  \/ ProcessCopy \/ ProcessGep \/ GepPtd \/ FinishGep \/ FinishCopyGep
  \/ CollapseNext \/ CollapseNodePts \/ CollapseOneField \/ FinishCollapseField
  \/ PopFromWorklist \/ HandleLoad \/ HandleStore
  \/ UpdateCallGraph \/ ConnectPair \/ FinishCallGraph
  \/ Terminated

Spec == Init /\ [][Next]_vars
FairSpec == Spec /\ WF_vars(Next)
-----------------------------------------------------------------------------
TypeOK ==
  /\ prog \in Program
  /\ pc \in {"addr", "solve", "merge", "wave", "pwc", "copygep", "drain", "post", "connect", "done"}
  /\ nodes \subseteq Node /\ edges \subseteq Edge
  /\ rep \in [Node -> Node] /\ subs \in [Node -> SUBSET Node] /\ pwc \subseteq Node
  /\ fieldInsensitive \subseteq Obj /\ nodesToBeCollapsed \subseteq Obj
  /\ pts \in [Node -> SUBSET ObjNode] /\ revPts \in [ObjNode -> SUBSET Node]
  /\ propa \in [Node -> SUBSET ObjNode] /\ diff \subseteq ObjNode
  /\ cache \subseteq Edge \X ObjNode
  /\ worklist \subseteq Node /\ nodeStack \subseteq Node /\ waveOrder \subseteq Node \X Node
  /\ reanalyze \in BOOLEAN /\ indCalls \subseteq prog.icalls /\ cpySrcNodes \subseteq Node \X Node
  /\ cur \in Node \union {None} /\ edgesLeft \subseteq Edge /\ gep \in Edge \union {None}
  /\ ptdsLeft \subseteq ObjNode /\ tmpDstPts \subseteq ObjNode
  /\ merging \subseteq Node \X Node /\ changedReps \subseteq Node
  /\ collapsing \in Obj \union {None} /\ fieldsLeft \subseteq Field
  /\ frames \in Seq(SUBSET ObjNode)

(* No fact is invented.  Whatever is merged, collapsed, cached or sent     *)
(* along retargeted edges, a node only ever points to (a field of) an      *)
(* object that every field-insensitive solution gives it too.              *)
Precision ==
  \A n \in Node : \A o \in pts[n] : Base(o) \in prog.bound[Base(n)]

(* The graph stays well formed while nodes are merged: an edge never       *)
(* dangles on a removed node, and once the maps are updated every node     *)
(* that was ever on the graph is represented by one that still is          *)
(* (getConstraintNode() asserts this on every lookup).                     *)
RepsOnGraph ==
  /\ \A e \in edges : {e.src, e.dst} \subseteq nodes
  /\ pc # "merge" =>
       /\ \A n \in Named(prog) \union {m \in Node : rep[m] # m} : rep[n] \in nodes
       /\ \A n \in nodes : rep[n] = n /\ \A m \in subs[n] : rep[m] = n

(* The holder of a fact o, or of what o was collapsed into.                *)
Holds(n, o) == o \in pts[n] \/ (Base(o) \in fieldInsensitive /\ Base(o) \in pts[n])

(* Difference propagation forgets nothing: what a node counts as sent has  *)
(* arrived behind each of its out-edges, also behind those it got from     *)
(* merged nodes, except where the running handler has still to send it.    *)
Sent(e) ==
  \A o \in propa[e.src] :
    CASE e.kind = "copy" -> Holds(e.dst, o)
      [] e.kind # "copy" /\ BlkOrConst(Base(o)) -> o \in pts[e.dst]
      [] e.kind = "ngep" /\ ~BlkOrConst(Base(o)) ->
           Holds(e.dst, <<Base(o), (Index(o) + e.off) % Limit[Base(o)]>>)
      [] e.kind = "vgep" /\ ~BlkOrConst(Base(o)) -> Base(o) \in pts[e.dst]
PropagatedArrived ==
  \A e \in edges \ (edgesLeft \union {gep}) :
    e.kind \in Direct /\ <<e.src, e.dst>> \notin cpySrcNodes => Sent(e)

(* The caches of loads and stores are never stale: a pointee an edge will  *)
(* not look at again has its copy edge, wherever merging has moved it.     *)
CachedConnected ==
  pc # "merge" =>
    \A c \in cache : NoCopy(c[2]) \/
      LET from == IF c[1].kind = "load" THEN rep[c[2]] ELSE c[1].src
          d == IF c[1].kind = "load" THEN c[1].dst ELSE rep[c[2]]
      IN from = d \/ HasEdge(edges, "copy", from, d)

(* Collapsing finds the pointers to a field through revPts, whose keys are *)
(* never renamed when nodes merge: no pointer to a field is missed.        *)
RevPtsComplete ==
  pc # "merge" => \A n \in nodes : \A o \in pts[n] \intersect Field : \E x \in revPts[o] : rep[x] = n

(* A collapsed object is collapsed everywhere: between two handlers no     *)
(* node points to a field of it.  (An object with one field is not: it     *)
(* becomes field-insensitive, but collapseField() leaves its field alone.) *)
CollapsedEverywhere ==
  pc \in {"wave", "post", "done"} =>
    \A n \in nodes : \A o \in pts[n] \intersect Field :
      Base(o) \in fieldInsensitive => Base(o) \in nodesToBeCollapsed \/ Limit[Base(o)] = 1

(* The result is a solution of the program, by kind of statement.  A       *)
(* zero-offset gep whose ends share a component counts as a copy.          *)
Pt(n) == pts[rep[n]]
Passed(m, n) == \A o \in Pt(m) : Holds(rep[n], o)
Satisfied(e) ==
  CASE e.kind = "copy" -> Passed(e.src, e.dst)
    [] e.kind = "load" -> \A o \in Pt(e.src) : NoCopy(o) \/ Passed(o, e.dst)
    [] e.kind = "store" -> \A o \in Pt(e.dst) : NoCopy(o) \/ Passed(e.src, o)
    [] e.kind = "ngep" -> \/ e.off = 0 /\ rep[e.src] = rep[e.dst]
                          \/ \A o \in Pt(e.src) :
                               IF BlkOrConst(Base(o)) THEN o \in Pt(e.dst)
                               ELSE Holds(rep[e.dst], <<Base(o), (Index(o) + e.off) % Limit[Base(o)]>>)
    [] e.kind = "vgep" -> \A o \in Pt(e.src) : (IF BlkOrConst(Base(o)) THEN o ELSE Base(o)) \in Pt(e.dst)
AllSatisfied(K) == pc = "done" => \A e \in prog.edges : e.kind \in K => Satisfied(e)

(* A copy misses nothing, in any order and after any merging, be it of the *)
(* program or found by the analysis, unless its source shares its node     *)
(* with a field: what such a node is given late stays there (see below).   *)
Mixed(n) == \E f \in Field : rep[f] = rep[n]
CopiesSatisfied ==
  pc = "done" =>
    \A e \in prog.edges \union edges : e.kind = "copy" /\ ~Mixed(e.src) => Passed(e.src, e.dst)

(* "src--copy-->dst, union pts(dst) with pts(src)", for every copy         *)
(* statement.                                                              *)
EveryCopySatisfied == AllSatisfied({"copy"})

(* "For each node in pts(src), node--copy-->dst", for load edges.          *)
LoadsSatisfied == AllSatisfied({"load"})

(* "For each node in pts(dst), src--copy-->node", for store edges.         *)
StoresSatisfied == AllSatisfied({"store"})

(* "For each srcPtdNode in pts(src) add fieldSrcPtdNode", for gep edges.   *)
GepsSatisfied == AllSatisfied({"ngep", "vgep"})

(* Where nothing was merged nothing is missed: each pointee of an unmerged *)
(* pointer has the copy edge of each of its loads and stores, and each gep *)
(* between unmerged pointers has passed on everything.  (An object that    *)
(* was collapsed may miss the edge if one of its fields holds no pointer:  *)
(* the field has no edge to be inherited, and its holders are not queued.) *)
Skipped(o) ==
  NoCopy(o) \/ (o \in fieldInsensitive /\ \E f \in Field : Base(f) = o /\ NoCopy(f))
Unmerged(n) == subs[rep[n]] = {n}
Linked(m, n) == rep[m] = rep[n] \/ HasEdge(edges, "copy", rep[m], rep[n])
Complete(e) ==
  CASE e.kind = "load" /\ Unmerged(e.src) -> \A o \in Pt(e.src) : Skipped(o) \/ Linked(o, e.dst)
    [] e.kind = "store" /\ Unmerged(e.dst) -> \A o \in Pt(e.dst) : Skipped(o) \/ Linked(e.src, o)
    [] e.kind \in {"ngep", "vgep"} /\ Unmerged(e.src) /\ Unmerged(e.dst) -> Satisfied(e)
    [] OTHER -> TRUE
UnmergedServed == pc = "done" => \A e \in prog.edges : Complete(e)

(* Every resolved indirect call passes its arguments and its result on as  *)
(* a copy does, unless IndirectCallLimit stopped the resolution.           *)
CallsSatisfied ==
  pc = "done" /\ Cardinality(indCalls) <= CallLimit =>
    \A c \in prog.icalls : c.fun \in Pt(c.fp) => \A f \in c.flow : Mixed(f[1]) \/ Passed(f[1], f[2])

(* analyze() ends, although every round may ask for another one.           *)
Terminates == <>(pc = "done")
=============================================================================
