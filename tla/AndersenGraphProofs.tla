------------------------ MODULE AndersenGraphProofs ------------------------
(***************************************************************************)
(* For any program and any order of the loops: merging never leaves an     *)
(* edge or a map entry behind that names a node which is gone, and never   *)
(* hides a pointer to a field from collapseField(); what counts as sent    *)
(* has arrived; a collapsed object is collapsed everywhere; and the caches *)
(* of loads and stores are never stale.                                    *)
(***************************************************************************)
EXTENDS AndersenWaveDiffProofs

-----------------------------------------------------------------------------
(* The inductive invariant.  While a cycle is being merged the maps lag    *)
(* behind the graph: a node may be represented by one of changedReps that  *)
(* has left the graph, until updateNodeRepAndSubs() has run.               *)

Resolved(n) == rep[n] \in nodes \union changedReps
Fact(o) == Base(o) \in Named(prog) /\ Resolved(o)

Reps ==
  /\ \A n \in nodes : rep[n] = n
  /\ \A n \in Node : n \in Named(prog) \/ rep[n] # n => Resolved(n)
  /\ \A n \in Node : rep[n] = n \/ n \in changedReps =>
       \A m \in subs[n] : rep[m] = n \/ (m = n /\ n \in changedReps)
  /\ \A n \in Node : n \in subs[rep[n]]

Merges ==
  /\ pc # "merge" => merging = {} /\ changedReps = {}
  /\ changedReps \subseteq Node
  /\ \A p \in merging : p[1] \in nodes \intersect changedReps /\ p[2] \in nodes \ changedReps
  /\ \A p, q \in merging : p[1] = q[1] => p = q
  /\ \A c \in changedReps : \/ c \in nodes /\ \E p \in merging : p[1] = c
                            \/ c \notin nodes /\ rep[c] \in nodes \ changedReps
  /\ collapsing # None => pc \in {"pwc", "drain"}

Ends == \A e \in edges : e.src \in nodes /\ e.dst \in nodes

(* Whatever is, or is on its way to be, pointed to or connected has a node.*)
Facts ==
  /\ \A n \in Node : \A o \in pts[n] : Fact(o)
  /\ \A o \in diff \union ptdsLeft \union tmpDstPts : Fact(o)
  /\ \A i \in 1..Len(frames) : \A o \in frames[i] : Fact(o)
  /\ nodesToBeCollapsed \subseteq Named(prog)
  /\ collapsing # None => collapsing \in Named(prog)
  /\ \A f \in fieldsLeft : Resolved(f)
  /\ \A e \in edgesLeft : Resolved(e.src) /\ Resolved(e.dst)

(* Each pointer to a field is known to the field, by some merged name.     *)
Holders == \A n \in Node : rep[n] = n =>
             \A o \in pts[n] \intersect Field : \E x \in revPts[o] : rep[x] = n

Graph == Reps /\ Merges /\ Ends
GraphOK == Graph /\ Facts
-----------------------------------------------------------------------------
(* Merging one node into another.                                          *)

(* Retargeting leaves no edge at the node that goes.                       *)
LEMMA MoveEnds ==
  ASSUME NEW E \in SUBSET Edge, NEW N \in SUBSET Node, NEW n \in N, NEW r \in N, n # r,
         \A e \in E : e.src \in N /\ e.dst \in N
  PROVE  \A e \in MoveOutEdges(MoveInEdges(E, n, r), n, r) :
           e.src \in N \ {n} /\ e.dst \in N \ {n}
<1> DEFINE F == MoveInEdges(E, n, r)
<1>1. \A e \in Edge : /\ [e EXCEPT !.dst = r].src = e.src /\ [e EXCEPT !.dst = r].dst = r
                      /\ [e EXCEPT !.src = r].src = r /\ [e EXCEPT !.src = r].dst = e.dst
  BY DEF Edge
<1>2. F \subseteq Edge
  BY MoveEdgesType
<1>3. ASSUME NEW e \in F PROVE e.src \in N /\ e.dst \in N \ {n}
  <2>1. (e \in E /\ e.dst # n) \/ \E k \in E : e = [k EXCEPT !.dst = r]
    BY DEF MoveInEdges
  <2> QED
    BY <1>1, <2>1
<1> HIDE DEF F
<1>4. ASSUME NEW e \in MoveOutEdges(F, n, r) PROVE e.src \in N \ {n} /\ e.dst \in N \ {n}
  <2>1. (e \in F /\ e.src # n) \/ \E k \in F : e = [k EXCEPT !.src = r]
    BY DEF MoveOutEdges
  <2>2. ASSUME NEW k \in F, e = [k EXCEPT !.src = r] PROVE e.src = r /\ e.dst = k.dst
    BY <1>1, <1>2, <2>2
  <2> QED
    BY <1>3, <2>1, <2>2
<1> QED
  BY <1>4 DEF F

(* What mergeNodeToRep() does to graph and reverse map.                    *)
LEMMA MergeEnds ==
  ASSUME TypeOK, Ends, NEW n \in nodes, NEW r \in nodes, n # r, NEW P, MergeNodeToRep(n, r, P)
  PROVE  Ends' /\ nodes' = nodes \ {n}
<1>1. /\ edges' = MoveOutEdges(MoveInEdges(edges, n, r), n, r)
      /\ nodes' = nodes \ {n}
  BY DEF MergeNodeToRep
<1>2. \A e \in edges' : e.src \in nodes \ {n} /\ e.dst \in nodes \ {n}
  BY <1>1, MoveEnds DEF Ends, TypeOK
<1> QED
  BY <1>1, <1>2 DEF Ends

(* SCCDetect() gives each node a root, itself if it is in no cycle, and    *)
(* orders the roots by the edges between them.                             *)
LEMMA DetectRoots ==
  ASSUME TypeOK, GraphOK, SCCDetect
  PROVE  \E R \in [nodes -> nodes] :
           /\ \A n \in nodes : R[R[n]] = R[n]
           /\ nodeStack' = {n \in nodes : R[n] = n}
           /\ changedReps' = nodes \ nodeStack'
           /\ merging' = {<<n, R[n]>> : n \in changedReps'}
           /\ \A p \in waveOrder' : p[1] # p[2] /\ p[2] \in nodeStack'
           /\ \A e \in edges : e.kind \in Direct =>
                R[e.src] = R[e.dst] \/ <<R[e.src], R[e.dst]>> \in waveOrder'
           /\ (pc' = "wave" /\ \A n \in nodes : R[n] = n) \/ pc' = "merge"
<1>1. PICK f \in {g \in [Cycles -> UNION Cycles] : \A c \in Cycles : g[c] \in c} :
        StackRoots(f) /\ pc' = IF Cycles = {} THEN "wave" ELSE "merge"
  BY PickSub DEF SCCDetect
<1>2. \A c, d \in Cycles : c = d \/ c \intersect d = {}
  BY DEF SCCDetect
<1>3. ASSUME NEW c \in Cycles, NEW n \in c
      PROVE  Root(f, n) = f[c] /\ Root(f, n) \in c /\ n \in nodes
  <2> DEFINE CycleOf == CHOOSE d \in Cycles : n \in d
  <2>1. CycleOf \in Cycles /\ n \in CycleOf
    OBVIOUS
  <2>2. n \in UNION DOMAIN f /\ Root(f, n) = f[CycleOf]
    BY <1>1 DEF Root
  <2> HIDE DEF CycleOf
  <2>3. CycleOf = c
    BY <1>2, <2>1
  <2> QED
    BY <1>1, <2>2, <2>3, CyclesOnGraph
<1>4. \A n : n \notin UNION Cycles => Root(f, n) = n
  BY <1>1 DEF Root
<1>5. \A n \in nodes : Root(f, n) \in nodes /\ Root(f, Root(f, n)) = Root(f, n)
  <2> SUFFICES ASSUME NEW n \in nodes
               PROVE  Root(f, n) \in nodes /\ Root(f, Root(f, n)) = Root(f, n)
    OBVIOUS
  <2>1. CASE \E c \in Cycles : n \in c
    BY <1>3, <2>1
  <2>2. CASE n \notin UNION Cycles
    BY <1>4, <2>2
  <2> QED
    BY <2>1, <2>2
<1>6. /\ nodeStack' = {n \in nodes : Root(f, n) = n}
      /\ changedReps' = nodes \ nodeStack'
      /\ merging' = {<<n, Root(f, n)>> : n \in changedReps'}
      /\ waveOrder' = {p \in {<<Root(f, e[1]), Root(f, e[2])>> : e \in DirectPairs} : p[1] # p[2]}
  BY <1>1 DEF StackRoots
<1> DEFINE R == [n \in nodes |-> Root(f, n)]
<1>7. R \in [nodes -> nodes] /\ \A n \in nodes : R[n] = Root(f, n)
  BY <1>5
<1>8. \A e \in DirectPairs : e[1] \in nodes /\ e[2] \in nodes
  BY DEF DirectPairs, GraphOK, Graph, Ends
<1>9. \A p \in waveOrder' : p[1] # p[2] /\ p[2] \in nodeStack'
  BY <1>5, <1>6, <1>8
<1>10. ASSUME NEW e \in edges, e.kind \in Direct
       PROVE  R[e.src] = R[e.dst] \/ <<R[e.src], R[e.dst]>> \in waveOrder'
  <2>1. <<e.src, e.dst>> \in DirectPairs /\ e.src \in nodes /\ e.dst \in nodes
    BY <1>10 DEF DirectPairs, GraphOK, Graph, Ends
  <2>2. <<Root(f, e.src), Root(f, e.dst)>> \in {<<Root(f, d[1]), Root(f, d[2])>> : d \in DirectPairs}
    BY <2>1
  <2> QED
    BY <1>6, <1>7, <2>1, <2>2
<1>11. /\ nodeStack' = {n \in nodes : R[n] = n}
       /\ merging' = {<<n, R[n]>> : n \in changedReps'}
       /\ \A n \in nodes : R[R[n]] = R[n]
  BY <1>5, <1>6, <1>7
<1>12. (pc' = "wave" /\ \A n \in nodes : R[n] = n) \/ pc' = "merge"
  BY <1>1, <1>4, <1>7
<1> HIDE DEF R
<1> QED
  BY <1>6, <1>7, <1>9, <1>10, <1>11, <1>12

(* SCCDetect() pairs each node it will merge with the root of its cycle.   *)
LEMMA DetectMerges ==
  ASSUME TypeOK, GraphOK, SCCDetect
  PROVE  Merges' /\ changedReps' \subseteq nodes
<1>1. PICK R \in [nodes -> nodes] :
        /\ \A n \in nodes : R[R[n]] = R[n]
        /\ nodeStack' = {n \in nodes : R[n] = n}
        /\ changedReps' = nodes \ nodeStack'
        /\ merging' = {<<n, R[n]>> : n \in changedReps'}
        /\ (pc' = "wave" /\ \A n \in nodes : R[n] = n) \/ pc' = "merge"
  BY DetectRoots
<1>2. pc = "solve" /\ nodes' = nodes /\ collapsing' = collapsing /\ changedReps' \subseteq nodes
      /\ nodes \subseteq Node
  BY <1>1 DEF SCCDetect, graphVars, collapseVars, TypeOK
<1>3. collapsing = None
  BY <1>2 DEF GraphOK, Graph, Merges
<1>4. \A p \in merging' : \E n \in changedReps' : p[1] = n /\ p[2] = R[n] /\ p = <<n, R[n]>>
  BY <1>1
<1>5. /\ \A p \in merging' : p[1] \in nodes \intersect changedReps' /\ p[2] \in nodes \ changedReps'
      /\ \A p, q \in merging' : p[1] = q[1] => p = q
  BY <1>1, <1>2, <1>4
<1>6. \A c \in changedReps' : c \in nodes /\ \E p \in merging' : p[1] = c
  <2> SUFFICES ASSUME NEW c \in changedReps' PROVE c \in nodes /\ \E p \in merging' : p[1] = c
    OBVIOUS
  <2>1. <<c, R[c]>> \in merging'
    BY <1>1
  <2> QED
    BY <1>2, <2>1
<1>7. pc' # "merge" => merging' = {} /\ changedReps' = {}
  BY <1>1
<1> QED
  BY <1>2, <1>3, <1>5, <1>6, <1>7 DEF Merges
-----------------------------------------------------------------------------
(* A node stays resolved, whatever is merged.                              *)
Kept == \A n \in Node : Resolved(n) => (Resolved(n))'

(* One node of a cycle goes into the root.                                 *)
LEMMA SccNodeMerged ==
  ASSUME TypeOK, Graph, MergeSccNode
  PROVE  Graph' /\ Kept /\ (Holders => Holders')
<1>1. PICK p \in merging :
        /\ MergeNodeToRep(p[1], p[2], pts)
        /\ rep' = [rep EXCEPT ![p[1]] = p[2]]
        /\ subs' = [subs EXCEPT ![p[2]] = @ \union {p[1]}]
        /\ merging' = merging \ {p}
  BY PickSub DEF MergeSccNode
<1> DEFINE n == p[1]
           r == p[2]
<1>2. /\ n \in nodes /\ n \in changedReps /\ r \in nodes /\ r \notin changedReps /\ n # r
      /\ n \in Node /\ r \in Node /\ rep[n] = n /\ rep[r] = r
  BY DEF Graph, Merges, Reps, TypeOK
<1>3. /\ changedReps' = changedReps /\ pc' = pc /\ pc = "merge" /\ prog' = prog
      /\ collapsing' = collapsing /\ Named(prog)' = Named(prog)
  BY DEF MergeSccNode, collapseVars
<1>4. /\ rep' = [rep EXCEPT ![n] = r] /\ subs' = [subs EXCEPT ![r] = @ \union {n}]
      /\ MergeNodeToRep(n, r, pts) /\ merging' = merging \ {p}
  BY <1>1
<1>5. \A q \in merging' : q \in merging /\ q[1] # n
  BY <1>4 DEF Graph, Merges
<1>6. \A q \in merging : q[1] # n => q \in merging'
  BY <1>4
<1> HIDE DEF n, r
<1>7. /\ \A x \in Node : rep'[x] = IF x = n THEN r ELSE rep[x]
      /\ \A x \in Node : subs'[x] = IF x = r THEN subs[x] \union {n} ELSE subs[x]
  BY <1>2, <1>4 DEF TypeOK
<1>8. Ends' /\ nodes' = nodes \ {n}
  BY <1>2, <1>4, MergeEnds DEF Graph
<1>9. /\ nodes \subseteq Node /\ changedReps \subseteq Node /\ \A x \in Node : subs[x] \subseteq Node
      /\ \A x \in Node : rep[x] \in Node
  BY DEF TypeOK
<1>10. Reps'
  <2>1. \A x \in nodes' : rep'[x] = x
    BY <1>7, <1>8, <1>9 DEF Graph, Reps
  <2>2. \A x \in Node : x \in Named(prog)' \/ rep'[x] # x => (Resolved(x))'
    BY <1>2, <1>3, <1>7, <1>8 DEF Graph, Reps, Resolved
  <2>3. ASSUME NEW x \in Node, rep'[x] = x \/ x \in changedReps', NEW m \in subs'[x]
        PROVE  rep'[m] = x \/ (m = x /\ x \in changedReps')
    <3>1. m \in Node
      <4>1. subs'[x] \subseteq subs[x] \union {n}
        BY <1>7
      <4> QED
        BY <1>2, <1>9, <2>3, <4>1
    <3>2. rep[x] = x \/ x \in changedReps
      BY <1>2, <1>3, <1>7, <2>3
    <3>3. CASE m \in subs[x]
      <4>1. rep[m] = x \/ (m = x /\ x \in changedReps)
        BY <3>2, <3>3 DEF Graph, Reps
      <4>2. CASE m = n
        BY <1>2, <1>3, <4>1, <4>2
      <4>3. CASE m # n
        <5>1. rep'[m] = rep[m]
          BY <1>7, <3>1, <4>3
        <5> QED
          BY <1>3, <4>1, <5>1
      <4> QED
        BY <4>2, <4>3
    <3>4. CASE m \notin subs[x]
      BY <1>7, <2>3, <3>1, <3>4
    <3> QED
      BY <3>3, <3>4
  <2>4. \A x \in Node : x \in subs'[rep'[x]]
    BY <1>2, <1>7, <1>9 DEF Graph, Reps
  <2> QED
    BY <2>1, <2>2, <2>3, <2>4 DEF Reps
<1>11. Merges'
  <2>1. \A q \in merging' : q[1] \in nodes' \intersect changedReps' /\ q[2] \in nodes' \ changedReps'
    BY <1>2, <1>3, <1>5, <1>8 DEF Graph, Merges
  <2>2. ASSUME NEW x \in changedReps'
        PROVE  \/ x \in nodes' /\ \E q \in merging' : q[1] = x
               \/ x \notin nodes' /\ rep'[x] \in nodes' \ changedReps'
    BY <1>2, <1>3, <1>6, <1>7, <1>8, <1>9 DEF Graph, Merges
  <2> QED
    BY <1>3, <1>5, <2>1, <2>2 DEF Graph, Merges
<1>12. Kept
  BY <1>2, <1>3, <1>7, <1>8 DEF Kept, Resolved
<1>13. ASSUME Holders PROVE Holders'
  <2>1. /\ pts' = [pts EXCEPT ![r] = @ \union pts[n]]
        /\ revPts' = [o \in ObjNode |-> IF o \in pts[n] THEN revPts[o] \union {r} ELSE revPts[o]]
    BY <1>4 DEF MergeNodeToRep
  <2>2. SUFFICES ASSUME NEW x \in Node, rep'[x] = x, NEW o \in pts'[x] \intersect Field
                 PROVE  \E y \in revPts'[o] : rep'[y] = x
    BY DEF Holders
  <2>3. o \in ObjNode /\ x # n
    BY <1>2, <1>7, <2>2 DEF ObjNode
  <2>4. rep[x] = x
    BY <1>7, <2>2, <2>3
  <2>5. CASE o \in pts[x]
    <3>1. PICK y \in revPts[o] : rep[y] = x
      BY <1>13, <2>2, <2>4, <2>5 DEF Holders
    <3>2. y \in Node /\ y # n
      BY <1>2, <2>3, <3>1 DEF TypeOK
    <3> QED
      BY <1>7, <2>1, <2>3, <3>1, <3>2
  <2>6. CASE o \notin pts[x]
    <3>1. x = r /\ o \in pts[n]
      BY <1>2, <2>1, <2>2, <2>6 DEF TypeOK
    <3> QED
      BY <1>2, <1>7, <2>1, <2>3, <3>1
  <2> QED
    BY <2>5, <2>6
<1> QED
  BY <1>8, <1>10, <1>11, <1>12, <1>13 DEF Graph

(* updateNodeRepAndSubs(): the maps catch up with the graph.               *)
LEMMA RepsUpdated ==
  ASSUME TypeOK, Graph, UpdateReps
  PROVE  Graph' /\ Kept /\ (Holders => Holders')
<1> DEFINE In(x) == CHOOSE c \in changedReps : x \in subs[c]
           Left(x) == \E c \in changedReps : x \in subs[c]
<1>1. /\ merging = {} /\ changedReps' = {} /\ merging' = {} /\ pc' = "wave"
      /\ prog' = prog /\ nodes' = nodes /\ edges' = edges /\ collapsing' = collapsing
      /\ pts' = pts /\ revPts' = revPts /\ pc = "merge" /\ Named(prog)' = Named(prog)
  BY DEF UpdateReps, ptVars, collapseVars
<1>2. /\ \A x \in Node : rep'[x] = IF Left(x) THEN rep[In(x)] ELSE rep[x]
      /\ \A x \in Node : subs'[x] = subs[x] \union UNION {subs[c] : c \in {d \in changedReps : rep[d] = x}}
  BY DEF UpdateReps
<1>3. /\ nodes \subseteq Node /\ changedReps \subseteq Node /\ \A x \in Node : subs[x] \subseteq Node
      /\ \A x \in Node : rep[x] \in Node
  BY DEF TypeOK
<1>4. \A c \in changedReps : c \notin nodes /\ rep[c] \in nodes /\ rep[c] \notin changedReps /\ rep[c] # c
  BY <1>1 DEF Graph, Merges
<1>5. ASSUME NEW c \in changedReps, NEW x \in subs[c] PROVE x = c \/ rep[x] = c
  BY <1>3, <1>5 DEF Graph, Reps
<1>6. ASSUME NEW c \in changedReps, NEW x \in subs[c] PROVE Left(x) /\ In(x) = c /\ x \in Node
  <2>1. Left(x) /\ In(x) \in changedReps /\ x \in subs[In(x)]
    BY <1>6
  <2> HIDE DEF In
  <2>2. (x = c \/ rep[x] = c) /\ (x = In(x) \/ rep[x] = In(x))
    BY <1>5, <1>6, <2>1
  <2> QED
    BY <1>3, <1>4, <1>6, <2>1, <2>2
<1>7. ASSUME NEW c \in changedReps, NEW x \in subs[c] PROVE rep'[x] = rep[c]
  BY <1>2, <1>6, <1>7
<1>8. ASSUME NEW x \in Node, ~Left(x) PROVE rep'[x] = rep[x] /\ rep[x] \notin changedReps
  <2>1. x \in subs[rep[x]]
    BY DEF Graph, Reps
  <2> QED
    BY <1>2, <1>8, <2>1
<1>9. ASSUME NEW x \in nodes PROVE ~Left(x)
  <2>1. rep[x] = x
    BY DEF Graph, Reps
  <2> QED
    BY <1>4, <1>5, <2>1
<1>10. ASSUME NEW x \in Node, rep'[x] = x
       PROVE  rep[x] = x /\ x \notin changedReps
              /\ \A y \in Node : rep[y] = x => rep'[y] = x
  <2>1. ~Left(x)
    <3>1. ASSUME NEW c \in changedReps, x \in subs[c] PROVE FALSE
      <4>1. rep'[x] = rep[c]
        BY <1>7, <3>1
      <4>2. x \in nodes
        BY <1>4, <1>10, <4>1
      <4> QED
        BY <1>9, <3>1, <4>2
    <3> QED
      BY <3>1
  <2>2. rep[x] = x
    BY <1>8, <1>10, <2>1
  <2>3. x \notin changedReps
    BY <1>4, <2>2
  <2>4. ASSUME NEW y \in Node, rep[y] = x PROVE rep'[y] = x
    <3>1. ASSUME NEW c \in changedReps, y \in subs[c] PROVE rep'[y] = x
      BY <1>5, <1>7, <2>3, <2>4, <3>1
    <3>2. ~Left(y) => rep'[y] = x
      BY <1>8, <2>4
    <3> QED
      BY <3>1, <3>2
  <2> QED
    BY <2>2, <2>3, <2>4
<1>11. ASSUME NEW x \in Node, Resolved(x) PROVE rep'[x] \in nodes
  <2>1. ASSUME NEW c \in changedReps, x \in subs[c] PROVE rep'[x] \in nodes
    BY <1>4, <1>7, <2>1
  <2>2. ~Left(x) => rep'[x] \in nodes
    BY <1>8, <1>11 DEF Resolved
  <2> QED
    BY <2>1, <2>2
<1>12. Reps'
  <2>1. ASSUME NEW x \in nodes PROVE rep'[x] = x
    BY <1>3, <1>8, <1>9 DEF Graph, Reps
  <2>2. ASSUME NEW x \in Node, x \in Named(prog) \/ rep'[x] # x PROVE rep'[x] \in nodes
    <3>1. ASSUME NEW c \in changedReps, x \in subs[c] PROVE rep'[x] \in nodes
      BY <1>4, <1>7, <3>1
    <3>2. CASE ~Left(x)
      BY <1>8, <1>11, <2>2, <3>2 DEF Graph, Reps
    <3> QED
      BY <3>1, <3>2
  <2>3. ASSUME NEW x \in Node, rep'[x] = x, NEW m \in subs'[x] PROVE rep'[m] = x
    <3>1. m \in subs[x] \/ \E c \in changedReps : rep[c] = x /\ m \in subs[c]
      BY <1>2, <2>3
    <3>2. CASE m \in subs[x]
      <4>1. m \in Node /\ rep[m] = x
        BY <1>3, <1>10, <2>3, <3>2 DEF Graph, Reps
      <4> QED
        BY <1>10, <2>3, <4>1
    <3>3. ASSUME NEW c \in changedReps, rep[c] = x, m \in subs[c] PROVE rep'[m] = x
      BY <1>7, <3>3
    <3> QED
      BY <3>1, <3>2, <3>3
  <2>4. ASSUME NEW x \in Node PROVE x \in subs'[rep'[x]]
    <3>1. ASSUME NEW c \in changedReps, x \in subs[c] PROVE x \in subs'[rep'[x]]
      <4>1. rep'[x] = rep[c] /\ rep[c] \in Node
        BY <1>3, <1>7, <3>1
      <4> QED
        BY <1>2, <3>1, <4>1
    <3>2. CASE ~Left(x)
      <4>1. rep'[x] = rep[x] /\ x \in subs[rep[x]] /\ rep[x] \in Node
        BY <1>3, <1>8, <3>2 DEF Graph, Reps
      <4> QED
        BY <1>2, <4>1
    <3> QED
      BY <3>1, <3>2
  <2> QED
    BY <1>1, <2>1, <2>2, <2>3, <2>4 DEF Reps, Resolved
<1>13. Merges'
  BY <1>1 DEF Graph, Merges
<1>14. Ends' /\ Kept
  BY <1>1, <1>11 DEF Graph, Ends, Kept, Resolved
<1>15. ASSUME Holders PROVE Holders'
  <2> SUFFICES ASSUME NEW x \in Node, rep'[x] = x, NEW o \in pts[x] \intersect Field
               PROVE  \E y \in revPts[o] : rep'[y] = x
    BY <1>1 DEF Holders
  <2>1. rep[x] = x /\ \A y \in Node : rep[y] = x => rep'[y] = x
    BY <1>10
  <2>2. PICK y \in revPts[o] : rep[y] = x
    BY <1>15, <2>1 DEF Holders
  <2>3. y \in Node
    BY <2>2 DEF TypeOK, ObjNode
  <2> QED
    BY <2>1, <2>2, <2>3
<1> QED
  BY <1>12, <1>13, <1>14, <1>15 DEF Graph

(* collapseField(): the node of a field goes into that of its object, and  *)
(* whoever pointed to the field now points to the object.                  *)
LEMMA FieldMerged ==
  ASSUME TypeOK, GraphOK, CollapseOneField
  PROVE  /\ Graph' /\ Kept /\ (Holders => Holders')
         /\ \A x \in Node : \A o \in pts'[x] : o = collapsing \/ \E y \in Node : o \in pts[y]
<1>1. PICK f \in fieldsLeft : MergeField(rep[f], rep[collapsing], Redirected(f))
  BY PickSub DEF CollapseOneField
<1> DEFINE n == rep[f]
           r == rep[collapsing]
           P == Redirected(f)
<1>2. /\ pc' = pc /\ prog' = prog /\ collapsing' = collapsing /\ Named(prog)' = Named(prog)
      /\ merging' = merging /\ changedReps' = changedReps
      /\ pc # "merge" /\ merging = {} /\ changedReps = {}
      /\ collapsing \in Obj /\ collapsing \in Named(prog) /\ collapsing \in Node /\ f \in Node
  BY DEF CollapseOneField, sccVars, GraphOK, Graph, Merges, Facts, TypeOK, Node, ObjNode
<1>3. n \in nodes /\ r \in nodes /\ n \in Node /\ r \in Node /\ rep[n] = n /\ rep[r] = r
  BY <1>2 DEF GraphOK, Graph, Reps, Facts, Resolved, TypeOK
<1>4. collapsing \notin Field
  BY <1>2, DisjointAssumption
<1>5. P \in [Node -> SUBSET ObjNode] /\ \A x \in Node : P[x] \subseteq pts[x] \union {collapsing}
  BY <1>2 DEF Redirected, TypeOK, Node, ObjNode
<1>6. MergeField(n, r, P)
  BY <1>1
<1>7. \A x \in Node : \A y \in subs[x] : rep[x] = x => rep[y] = x
  BY <1>2 DEF GraphOK, Graph, Reps
<1> HIDE DEF n, r, P
<1>8. nodes \subseteq Node /\ \A x \in Node : subs[x] \subseteq Node /\ rep[x] \in Node
  BY DEF TypeOK
<1>9. CASE n = r
  <2>1. pts' = P /\ revPts' = revPts /\ UNCHANGED graphVars
    BY <1>6, <1>9 DEF MergeField
  <2>2. Graph' /\ Kept
    BY <1>2, <2>1 DEF GraphOK, Graph, Reps, Merges, Ends, Kept, Resolved, graphVars
  <2>3. Holders => Holders'
    BY <1>4, <1>5, <2>1 DEF Holders, graphVars
  <2> QED
    BY <1>5, <2>1, <2>2, <2>3
<1>10. CASE n # r
  <2>1. /\ MergeNodeToRep(n, r, P)
        /\ \A x \in Node : rep'[x] = IF x = n \/ x \in subs[n] THEN r ELSE rep[x]
        /\ \A x \in Node : subs'[x] = IF x = r THEN subs[x] \union {n} \union subs[n] ELSE subs[x]
    BY <1>3, <1>6, <1>10 DEF MergeField, TypeOK
  <2>2. Ends' /\ nodes' = nodes \ {n}
    BY <1>3, <1>10, <2>1, MergeEnds DEF GraphOK, Graph
  <2>3. \A x \in Node : rep[x] = n => x \in subs[n]
    BY DEF GraphOK, Graph, Reps
  <2>4. \A x \in Node : x \in subs[n] => rep[x] = n
    BY <1>3, <1>7
  <2>5. \A x \in Node : rep[x] = n => rep'[x] = r
    BY <2>1, <2>3
  <2>6. \A x \in Node : rep[x] # n => rep'[x] = rep[x]
    BY <1>3, <2>1, <2>4
  <2>7. \A x \in Node : rep'[x] = x => rep[x] = x /\ x # n
    BY <1>3, <1>10, <2>5, <2>6
  <2>8. Reps'
    <3>1. \A x \in nodes' : rep'[x] = x
      BY <1>8, <2>2, <2>6 DEF GraphOK, Graph, Reps
    <3>2. \A x \in Node : x \in Named(prog) \/ rep'[x] # x => rep'[x] \in nodes'
      <4>1. ASSUME NEW x \in Node, rep[x] # n, x \in Named(prog) \/ rep'[x] # x
            PROVE  rep'[x] \in nodes'
        BY <1>2, <2>2, <2>6, <4>1 DEF GraphOK, Graph, Reps, Resolved
      <4> QED
        BY <1>3, <1>10, <2>2, <2>5, <4>1
    <3>3. ASSUME NEW x \in Node, rep'[x] = x, NEW m \in subs'[x] PROVE rep'[m] = x
      <4>1. rep[x] = x /\ x # n
        BY <2>7, <3>3
      <4>2. m \in subs[x] \/ (x = r /\ (m = n \/ m \in subs[n]))
        BY <2>1, <3>3
      <4>3. CASE m \in subs[x]
        BY <1>7, <1>8, <2>6, <4>1, <4>3
      <4>4. CASE x = r /\ (m = n \/ m \in subs[n])
        BY <1>3, <1>8, <2>1, <4>4
      <4> QED
        BY <4>2, <4>3, <4>4
    <3>4. ASSUME NEW x \in Node PROVE x \in subs'[rep'[x]]
      <4>1. x \in subs[rep[x]] /\ rep[x] \in Node
        BY <1>8 DEF GraphOK, Graph, Reps
      <4>2. CASE rep[x] = n
        BY <1>3, <2>1, <2>5, <4>1, <4>2
      <4>3. CASE rep[x] # n
        BY <2>1, <2>6, <4>1, <4>3
      <4> QED
        BY <4>2, <4>3
    <3> QED
      BY <1>2, <3>1, <3>2, <3>3, <3>4 DEF Reps, Resolved
  <2>9. Merges'
    BY <1>2 DEF GraphOK, Graph, Merges
  <2>10. Kept
    BY <1>2, <1>3, <1>10, <2>2, <2>5, <2>6 DEF Kept, Resolved
  <2>11. /\ pts' = [P EXCEPT ![r] = @ \union P[n]]
         /\ revPts' = [o \in ObjNode |-> IF o \in P[n] THEN revPts[o] \union {r} ELSE revPts[o]]
    BY <2>1 DEF MergeNodeToRep
  <2>12. ASSUME Holders PROVE Holders'
    <3> SUFFICES ASSUME NEW x \in Node, rep'[x] = x, NEW o \in pts'[x] \intersect Field
                 PROVE  \E y \in revPts'[o] : rep'[y] = x
      BY DEF Holders
    <3>1. o \in ObjNode /\ rep[x] = x /\ x # n
      BY <2>7 DEF ObjNode
    <3>2. CASE o \in P[x]
      <4>1. o \in pts[x]
        BY <1>4, <1>5, <3>2
      <4>2. PICK y \in revPts[o] : rep[y] = x
        BY <2>12, <3>1, <4>1 DEF Holders
      <4>3. y \in Node
        BY <3>1, <4>2 DEF TypeOK
      <4> QED
        BY <2>6, <2>11, <3>1, <4>2, <4>3
    <3>3. CASE o \notin P[x]
      <4>1. x = r /\ o \in P[n]
        BY <1>3, <1>5, <2>11, <3>3
      <4> QED
        BY <2>11, <3>1, <4>1
    <3> QED
      BY <3>2, <3>3
  <2>13. \A x \in Node : \A o \in pts'[x] : o = collapsing \/ \E y \in Node : o \in pts[y]
    BY <1>3, <1>5, <2>11
  <2> QED
    BY <2>2, <2>8, <2>9, <2>10, <2>12, <2>13 DEF Graph
<1> QED
  BY <1>9, <1>10
-----------------------------------------------------------------------------
(* The other handlers: new facts and new edges.                            *)

(* unionPts() tells a field of each new pointer to it.                     *)
LEMMA UnionHolders ==
  ASSUME TypeOK, NEW D, UnionPts(D), rep' = rep, Holders
  PROVE  Holders'
<1> SUFFICES ASSUME NEW n \in Node, rep[n] = n, NEW o \in pts'[n] \intersect Field
             PROVE  \E x \in revPts'[o] : rep[x] = n
  BY DEF Holders
<1>1. /\ pts'[n] = pts[n] \union D[n]
      /\ revPts'[o] = revPts[o] \union {x \in Node : o \in D[x]}
  BY DEF UnionPts, ObjNode
<1>2. CASE o \in pts[n]
  BY <1>1, <1>2 DEF Holders
<1>3. CASE o \in D[n]
  BY <1>1, <1>3
<1> QED
  BY <1>1, <1>2, <1>3

PtsFacts == \A n \in Node : \A o \in pts[n] : Fact(o)

(* Only what has a node flows on.                                          *)
LEMMA UnionFacts ==
  ASSUME PtsFacts, NEW D, UnionPts(D), \A n \in Node : \A o \in D[n] : Fact(o)
  PROVE  \A n \in Node : \A o \in pts'[n] : Fact(o)
BY DEF UnionPts, PtsFacts

(* A set that flows into one node only.                                    *)
LEMMA IntoFacts ==
  ASSUME NEW d, NEW S, \A o \in S : Fact(o)
  PROVE  \A n \in Node : \A o \in Into(d, S)[n] : Fact(o)
BY DEF Into

(* addCopyCGEdge() joins representatives.                                  *)
LEMMA CopyEnds ==
  ASSUME Ends, NEW N, nodes \subseteq N, NEW P, \A p \in P : rep[p[1]] \in N /\ rep[p[2]] \in N
  PROVE  \A e \in edges \union NewCopyEdges(P) : e.src \in N /\ e.dst \in N
<1>1. \A e \in NewCopyEdges(P) : \E p \in P :
        e = [kind |-> "copy", src |-> rep[p[1]], dst |-> rep[p[2]], off |-> 0]
  BY DEF NewCopyEdges
<1>2. \A e \in NewCopyEdges(P) : e.src \in N /\ e.dst \in N
  BY <1>1
<1> QED
  BY <1>2 DEF Ends

(* addCopyEdge() sends what is known and joins what is on the graph.       *)
LEMMA AddCopyEdgesKeeps ==
  ASSUME TypeOK, Graph, PtsFacts, rep' = rep, NEW N \in SUBSET Node, nodes \subseteq N,
         NEW P, \A p \in P : rep[p[1]] \in N /\ rep[p[2]] \in N, AddCopyEdges(P)
  PROVE  /\ \A e \in edges' : e.src \in N /\ e.dst \in N
         /\ \A n \in Node : \A o \in pts'[n] : Fact(o)
         /\ Holders => Holders'
<1> DEFINE new == NewCopyEdges(P)
           D == [n \in Node |-> UNION {pts[e.src] : e \in {f \in new : f.dst = n}}]
<1>1. edges' = edges \union new /\ UnionPts(D)
  BY DEF AddCopyEdges
<1>2. \A e \in edges \union new : e.src \in N /\ e.dst \in N
  BY CopyEnds DEF Graph
<1> HIDE DEF new
<1>3. \A n \in Node : \A o \in D[n] : Fact(o)
  BY <1>2 DEF PtsFacts
<1> HIDE DEF D
<1> QED
  BY <1>1, <1>2, <1>3, UnionFacts, UnionHolders

(* A handler that leaves graph and maps alone.                             *)
LEMMA QuietGraph ==
  ASSUME Graph, UNCHANGED <<prog, graphVars, merging, changedReps>>,
         pc # "merge" \/ pc' = pc, collapsing' # None => pc' \in {"pwc", "drain"}
  PROVE  Graph' /\ Named(prog)' = Named(prog) /\ \A n : (Fact(n))' = Fact(n) /\ (Resolved(n))' = Resolved(n)
BY DEF Graph, Reps, Merges, Ends, Fact, Resolved, graphVars, Named

(* On the graph and named, once a cycle is merged.                         *)
LEMMA NamedOnGraph ==
  ASSUME TypeOK, Graph, pc # "merge"
  PROVE  /\ \A n \in Named(prog) : n \in Node /\ rep[n] \in nodes
         /\ \A n : Resolved(n) <=> rep[n] \in nodes
<1>1. \A n \in Named(prog) : n \in Node
  BY DEF Named, Node, ObjNode
<1> QED
  BY <1>1 DEF Graph, Reps, Merges, Resolved

(* The ends of an edge are on the graph.                                   *)
LEMMA EdgesResolved ==
  ASSUME Graph
  PROVE  \A e \in edges : Resolved(e.src) /\ Resolved(e.dst)
BY DEF Graph, Reps, Ends, Resolved

(* The wave.                                                               *)
LEMMA WaveGraph ==
  ASSUME TypeOK, CurOK, GraphOK,
         ProcessNode \/ ProcessPWCNode \/ ResumePWCNode \/ ProcessCopy \/ ProcessGep
           \/ FinishGep \/ FinishCopyGep
  PROVE  GraphOK' /\ (Holders => Holders')
<1> USE DEF graphVars, ptVars, diffVars, fiVars, gepVars, sccVars, collapseVars, callVars
<1>1. /\ UNCHANGED <<prog, graphVars, merging, changedReps, collapsing, fieldsLeft, nodesToBeCollapsed>>
      /\ pc # "merge"
      /\ collapsing # None => pc' \in {"pwc", "drain"}
  BY DEF ProcessNode, ProcessPWCNode, ResumePWCNode, ProcessCopy, ProcessGep, FinishGep,
         FinishCopyGep, HandleCopyGep, GraphOK, Graph, Merges
<1>2. Graph' /\ Named(prog)' = Named(prog)
      /\ \A n : (Fact(n))' = Fact(n) /\ (Resolved(n))' = Resolved(n)
  BY <1>1, QuietGraph DEF GraphOK
<1>3. \A n \in Node : \A o \in pts[n] : Fact(o)
  BY DEF GraphOK, Facts
<1>4. TopOfStack \subseteq Node
  BY PickSub DEF TopOfStack, TypeOK
<1>5. ASSUME NEW n \in Node, HandleCopyGep(n)
      PROVE  /\ \A o \in diff' : Fact(o)
             /\ \A e \in edgesLeft' : Resolved(e.src) /\ Resolved(e.dst)
  BY <1>3, <1>5, EdgesResolved DEF HandleCopyGep, GraphOK, Facts
<1>6. CASE ProcessNode \/ ResumePWCNode
  <2>1. \E n \in Node : HandleCopyGep(n)
    BY <1>4, <1>6 DEF ProcessNode, ResumePWCNode, CurOK
  <2>2. /\ \A o \in diff' : Fact(o)
        /\ \A e \in edgesLeft' : Resolved(e.src) /\ Resolved(e.dst)
    BY <1>5, <2>1
  <2>3. UNCHANGED <<pts, revPts, rep, ptdsLeft, tmpDstPts, frames>>
    BY <1>6 DEF ProcessNode, ResumePWCNode
  <2> QED
    BY <1>1, <1>2, <2>2, <2>3 DEF GraphOK, Facts, Holders
<1>7. CASE ProcessPWCNode
  <2>1. \E n \in Node : frames' = <<pts[n]>>
    BY <1>4, <1>7 DEF ProcessPWCNode, TypeOK
  <2>2. \A i \in 1..Len(frames') : \A o \in frames'[i] : Fact(o)
    BY <1>3, <2>1
  <2>3. UNCHANGED <<pts, revPts, rep, diff, ptdsLeft, tmpDstPts, edgesLeft>>
    BY <1>7 DEF ProcessPWCNode
  <2> QED
    BY <1>1, <1>2, <2>2, <2>3 DEF GraphOK, Facts, Holders
<1>8. CASE ProcessCopy \/ FinishGep
  <2>1. PICK d, S : UnionPts(Into(d, S)) /\ S \in {diff, tmpDstPts}
    BY <1>8 DEF ProcessCopy, FinishGep
  <2>2. \A o \in S : Fact(o)
    BY <2>1 DEF GraphOK, Facts
  <2>3. \A n \in Node : \A o \in pts'[n] : Fact(o)
    BY <1>3, <2>1, <2>2, IntoFacts, UnionFacts DEF PtsFacts
  <2>4. Holders => Holders'
    BY <1>1, <2>1, UnionHolders
  <2>5. UNCHANGED <<diff, ptdsLeft, frames>> /\ tmpDstPts' \subseteq tmpDstPts
        /\ edgesLeft' \subseteq edgesLeft
    BY <1>8 DEF ProcessCopy, FinishGep
  <2> QED
    BY <1>1, <1>2, <2>3, <2>4, <2>5 DEF GraphOK, Facts
<1>9. CASE ProcessGep \/ FinishCopyGep
  <2>1. /\ UNCHANGED <<pts, revPts, rep, frames, tmpDstPts>>
        /\ edgesLeft' \subseteq edgesLeft /\ diff' \subseteq diff
        /\ ptdsLeft' \subseteq ptdsLeft \union diff
    BY <1>9 DEF ProcessGep, FinishCopyGep
  <2> QED
    BY <1>1, <1>2, <2>1 DEF GraphOK, Facts, Holders
<1> QED
  BY <1>6, <1>7, <1>8, <1>9

(* One pointee of a gep: its field gets a node before anything names it.   *)
LEMMA GepGraph ==
  ASSUME TypeOK, GraphOK, GepPtd
  PROVE  GraphOK' /\ (Holders => Holders')
<1> USE DEF ptVars, diffVars, fiVars, sccVars, collapseVars
<1>1. PICK m \in ptdsLeft : /\ ptdsLeft' = ptdsLeft \ {m}
                            /\ GepBlkOrConst(m) \/ GepVariant(m) \/ GepNormal(m)
  BY PickSub DEF GepPtd
<1>2. /\ UNCHANGED <<prog, pc, rep, subs, pwc, diff, edgesLeft, merging, changedReps,
                     collapsing, fieldsLeft, frames>>
      /\ pc = "copygep" /\ gep # None /\ Named(prog)' = Named(prog)
  BY DEF GepPtd
<1>3. /\ m \in ObjNode /\ Fact(m) /\ Base(m) \in Named(prog) /\ Base(m) \in Node
      /\ Base(Base(m)) = Base(m) /\ Base(m) \in Obj
  BY BaseType DEF GraphOK, Facts, Fact, TypeOK, Node, ObjNode
<1>4. Fact(Base(m)) /\ rep[Base(m)] \in nodes
  BY <1>2, <1>3, NamedOnGraph DEF GraphOK, Fact
<1>5. \A n \in Node : \A o \in pts[n] : Fact(o)
  BY DEF GraphOK, Facts
<1>6. CASE GepBlkOrConst(m) \/ GepVariant(m)
  <2>1. /\ UNCHANGED <<nodes, edges, pts, revPts>>
        /\ tmpDstPts' \subseteq tmpDstPts \union {m, Base(m)}
        /\ nodesToBeCollapsed' \subseteq nodesToBeCollapsed \union {Base(m)}
    BY <1>6 DEF GepBlkOrConst, GepVariant
  <2>2. Graph' /\ \A n : (Fact(n))' = Fact(n) /\ (Resolved(n))' = Resolved(n)
    BY <1>2, <2>1, QuietGraph DEF GraphOK, Graph, Merges, graphVars
  <2>3. Holders => Holders'
    BY <1>2, <2>1 DEF Holders
  <2>4. Facts'
    BY <1>1, <1>2, <1>3, <1>4, <2>1, <2>2 DEF GraphOK, Facts
  <2> QED
    BY <2>2, <2>3, <2>4 DEF GraphOK
<1>7. CASE GepNormal(m)
  <2>1. gep.off \in Nat
    BY <1>2 DEF TypeOK, Edge
  <2>2. PICK f \in ObjNode :
          /\ Base(f) = Base(m) /\ tmpDstPts' = tmpDstPts \union {f}
          /\ nodes' = IF rep[f] = f THEN nodes \union {f} ELSE nodes
          /\ AddCopyEdges(IF gep.off = 0 THEN {<<Base(f), f>>} ELSE {})
    BY <1>3, <1>7, <2>1, GepObjType DEF GepNormal
  <2> DEFINE P == IF gep.off = 0 THEN {<<Base(f), f>>} ELSE {}
  <2>3. f \in Node /\ AddCopyEdges(P) /\ UNCHANGED nodesToBeCollapsed
    BY <1>7, <2>2 DEF GepNormal, Node
  <2>4. rep[f] \in nodes' /\ nodes \subseteq nodes' /\ nodes' \subseteq Node
    <3>1. rep[f] # f => rep[f] \in nodes
      BY <1>2, <2>3, NamedOnGraph DEF GraphOK, Graph, Reps
    <3> QED
      BY <2>2, <2>3, <3>1 DEF TypeOK
  <2>5. \A p \in P : rep[p[1]] \in nodes' /\ rep[p[2]] \in nodes'
    BY <1>4, <2>2, <2>4
  <2> HIDE DEF P
  <2>6. /\ \A e \in edges' : e.src \in nodes' /\ e.dst \in nodes'
        /\ \A n \in Node : \A o \in pts'[n] : Fact(o)
        /\ Holders => Holders'
    BY <1>2, <1>5, <2>3, <2>4, <2>5, AddCopyEdgesKeeps DEF GraphOK, PtsFacts
  <2>7. \A n : (Fact(n) => (Fact(n))') /\ (Resolved(n) => (Resolved(n))')
    BY <1>2, <2>4 DEF Fact, Resolved
  <2>8. (Fact(f))'
    BY <1>2, <1>3, <2>2, <2>4 DEF Fact, Resolved
  <2>9. Reps'
    <3>1. \A n \in nodes' : rep[n] = n
      BY <2>2 DEF GraphOK, Graph, Reps
    <3> QED
      BY <1>2, <2>7, <3>1 DEF GraphOK, Graph, Reps
  <2>10. Merges'
    BY <1>2 DEF GraphOK, Graph, Merges
  <2>11. Facts'
    BY <1>1, <1>2, <2>2, <2>3, <2>6, <2>7, <2>8 DEF GraphOK, Facts
  <2> QED
    BY <2>6, <2>9, <2>10, <2>11 DEF GraphOK, Graph, Ends
<1> QED
  BY <1>1, <1>6, <1>7

(* The call stack without its top.                                         *)
LEMMA DropLast ==
  ASSUME NEW S, NEW s \in Seq(S), Len(s) \in 1..Len(s)
  PROVE  \A i \in 1..Len(SubSeq(s, 1, Len(s) - 1)) :
           i \in 1..Len(s) /\ SubSeq(s, 1, Len(s) - 1)[i] = s[i]
<1> DEFINE n == Len(s) - 1
<1>1. Len(s) \in Nat /\ n \in Nat /\ n <= Len(s)
  OBVIOUS
<1> HIDE DEF n
<1>2. 1 \in Int /\ n \in Int /\ n - 1 + 1 = n /\ (1 <= n => n - 1 + 1 = n) /\ (~(1 <= n) => n = 0)
  BY <1>1
<1>3. \A i \in 1..n : s[i] \in S
  BY <1>1
<1>4. /\ Len(SubSeq(s, 1, n)) = IF 1 <= n THEN n - 1 + 1 ELSE 0
      /\ \A i \in 1..n - 1 + 1 : SubSeq(s, 1, n)[i] = s[1 + i - 1]
  BY <1>2, <1>3, SubSeqProperties
<1>5. Len(SubSeq(s, 1, n)) = n /\ \A i \in 1..n : SubSeq(s, 1, n)[i] = s[i]
  BY <1>2, <1>4
<1>6. \A i \in 1..n : i \in 1..Len(s)
  BY <1>1
<1> QED
  BY <1>5, <1>6 DEF n

(* Collapsing, except for the merge itself.                                *)
LEMMA CollapseGraph ==
  ASSUME TypeOK, GraphOK, CollapseNext \/ CollapseNodePts \/ FinishCollapseField
  PROVE  GraphOK' /\ (Holders => Holders')
<1> USE DEF graphVars, ptVars, diffVars, fiVars, gepVars, sccVars, collapseVars
<1>1. /\ UNCHANGED <<prog, graphVars, merging, changedReps, pts, revPts, diff, edgesLeft,
                     ptdsLeft, tmpDstPts>>
      /\ pc \in {"drain", "pwc"}
      /\ collapsing' # None => pc' \in {"pwc", "drain"}
  BY DEF CollapseNext, CollapseNodePts, FinishCollapseField, GraphOK, Graph, Merges
<1>2. Graph' /\ Named(prog)' = Named(prog)
      /\ \A n : (Fact(n))' = Fact(n) /\ (Resolved(n))' = Resolved(n)
  BY <1>1, QuietGraph DEF GraphOK
<1>3. ASSUME NEW o \in Named(prog), CollapseField(o)
      PROVE  /\ collapsing' # None => collapsing' \in Named(prog)
             /\ \A f \in fieldsLeft' : Resolved(f)
  <2>1. \A f \in Field : f \in nodes \/ rep[f] # f => Resolved(f)
    BY DEF GraphOK, Graph, Reps, Resolved, Node, ObjNode
  <2> QED
    BY <1>3, <2>1 DEF CollapseField, GraphOK, Facts
<1>4. Holders => Holders'
  BY <1>1 DEF Holders
<1>5. frames \in Seq(SUBSET ObjNode) /\ Len(frames) \in Nat
  BY DEF TypeOK
<1>6. CASE CollapseNext
  <2>1. /\ frames' = frames /\ nodesToBeCollapsed' \subseteq Named(prog)
        /\ collapsing' # None => collapsing' \in Named(prog)
        /\ \A f \in fieldsLeft' : Resolved(f)
    <3>1. nodesToBeCollapsed \subseteq Named(prog)
      BY DEF GraphOK, Facts
    <3>2. CASE nodesToBeCollapsed = {}
      BY <1>6, <3>1, <3>2 DEF CollapseNext, GraphOK, Facts
    <3>3. CASE nodesToBeCollapsed # {}
      <4>1. PICK o \in nodesToBeCollapsed :
              nodesToBeCollapsed' = nodesToBeCollapsed \ {o} /\ CollapseField(o)
        BY <1>6, <3>3, PickSub DEF CollapseNext
      <4> QED
        BY <1>3, <1>6, <3>1, <4>1 DEF CollapseNext
    <3> QED
      BY <3>2, <3>3
  <2> QED
    BY <1>1, <1>2, <1>4, <2>1 DEF GraphOK, Facts
<1>7. CASE CollapseNodePts
  <2> DEFINE top == Len(frames)
             left == {m \in frames[top] : Base(m) \notin fieldInsensitive}
  <2>1. top \in 1..Len(frames) /\ nodesToBeCollapsed' = nodesToBeCollapsed
    BY <1>5, <1>7 DEF CollapseNodePts
  <2>2. \A m \in left : Fact(m)
    BY <2>1 DEF GraphOK, Facts
  <2>3. CASE left = {}
    <3>1. frames' = SubSeq(frames, 1, top - 1) /\ UNCHANGED <<collapsing, fieldsLeft>>
      BY <1>7, <2>3 DEF CollapseNodePts
    <3>3. \A i \in 1..Len(frames') : i \in 1..Len(frames) /\ frames'[i] = frames[i]
      BY <1>5, <2>1, <3>1, DropLast
    <3>4. \A i \in 1..Len(frames') : \A o \in frames'[i] : Fact(o)
      BY <3>3 DEF GraphOK, Facts
    <3> QED
      BY <1>1, <1>2, <1>4, <2>1, <3>1, <3>4 DEF GraphOK, Facts
  <2>4. CASE left # {}
    <3>1. PICK m \in left : frames' = [frames EXCEPT ![top] = left \ {m}] /\ CollapseField(Base(m))
      BY <1>7, <2>4, PickSub DEF CollapseNodePts
    <3>2. Base(m) \in Named(prog)
      BY <2>2 DEF Fact
    <3> HIDE DEF left
    <3>3. \A i \in 1..Len(frames') : \A o \in frames'[i] : Fact(o)
      <4>1. /\ Len(frames') = Len(frames) /\ frames'[top] = left \ {m}
            /\ \A i \in 1..Len(frames) : i # top => frames'[i] = frames[i]
        BY <1>5, <2>1, <3>1
      <4> QED
        BY <2>2, <4>1 DEF GraphOK, Facts
    <3> QED
      BY <1>1, <1>2, <1>3, <1>4, <2>1, <3>1, <3>2, <3>3 DEF GraphOK, Facts
  <2> QED
    BY <2>3, <2>4
<1>8. CASE FinishCollapseField
  <2>1. /\ nodesToBeCollapsed' = nodesToBeCollapsed /\ fieldsLeft' = fieldsLeft /\ collapsing' = None
        /\ frames' = frames \/ frames' = Append(frames, pts[rep[collapsing]])
    BY <1>8 DEF FinishCollapseField
  <2>2. \A o \in pts[rep[collapsing]] : Fact(o)
    <3>1. rep[collapsing] \in Node
      BY <1>8 DEF FinishCollapseField, TypeOK, Node, ObjNode
    <3> QED
      BY <3>1 DEF GraphOK, Facts
  <2>3. \A i \in 1..Len(frames') : \A o \in frames'[i] : Fact(o)
    <3>1. CASE frames' = Append(frames, pts[rep[collapsing]])
      <4>1. \A i \in 1..Len(frames') :
              frames'[i] = pts[rep[collapsing]] \/ (i \in 1..Len(frames) /\ frames'[i] = frames[i])
        BY <1>5, <3>1
      <4> QED
        BY <2>2, <4>1 DEF GraphOK, Facts
    <3> QED
      BY <2>1, <3>1 DEF GraphOK, Facts
  <2> QED
    BY <1>1, <1>2, <1>4, <2>1, <2>3 DEF GraphOK, Facts
<1> QED
  BY <1>6, <1>7, <1>8

(* The post phase and the call graph.                                      *)
LEMMA PostGraph ==
  ASSUME TypeOK, CurOK, GraphOK,
         PopFromWorklist \/ HandleLoad \/ HandleStore \/ UpdateCallGraph \/ ConnectPair
           \/ FinishCallGraph
  PROVE  GraphOK' /\ (Holders => Holders')
<1> USE DEF ptVars, diffVars, fiVars, gepVars, sccVars, collapseVars, callVars
<1>1. /\ UNCHANGED <<prog, nodes, rep, subs, pwc, merging, changedReps, collapsing, fieldsLeft,
                     frames, nodesToBeCollapsed, diff, ptdsLeft, tmpDstPts>>
      /\ pc \in {"wave", "post", "connect"} /\ Named(prog)' = Named(prog)
  BY DEF PopFromWorklist, HandleLoad, HandleStore, HandleEdge, UpdateCallGraph, ConnectPair,
         FinishCallGraph, SolvePost, graphVars
<1>2. /\ collapsing = None /\ merging = {} /\ changedReps = {}
      /\ \A n : Resolved(n) <=> rep[n] \in nodes
  BY <1>1, NamedOnGraph DEF GraphOK, Graph, Merges
<1>3. \A n : (Fact(n))' = Fact(n) /\ (Resolved(n))' = Resolved(n)
  BY <1>1 DEF Fact, Resolved
<1>4. Reps' /\ Merges'
  BY <1>1, <1>2, <1>3 DEF GraphOK, Graph, Reps, Merges
<1>5. PtsFacts
  BY DEF GraphOK, Facts, PtsFacts
<1>6. ASSUME UNCHANGED <<edges, pts, revPts>>, \A e \in edgesLeft' : e \in edgesLeft \/ e \in edges
      PROVE  GraphOK' /\ (Holders => Holders')
  <2>1. \A e \in edgesLeft' : Resolved(e.src) /\ Resolved(e.dst)
    BY <1>6, EdgesResolved DEF GraphOK, Facts
  <2> QED
    BY <1>1, <1>3, <1>4, <1>6, <2>1 DEF GraphOK, Graph, Ends, Facts, Holders
<1>7. CASE PopFromWorklist \/ FinishCallGraph
  <2>1. /\ UNCHANGED <<edges, pts, revPts>>
        /\ \A e \in edgesLeft' : e \in edgesLeft \/ e \in edges
    BY <1>7, PickSub DEF PopFromWorklist, FinishCallGraph, graphVars
  <2> QED
    BY <1>6, <2>1
<1>8. ASSUME NEW e \in edgesLeft, pc = "post", HandleEdge(e)
      PROVE  GraphOK' /\ (Holders => Holders')
  <2> DEFINE new == {o \in pts[cur] : <<e, o>> \notin cache}
             P == {IF e.kind = "load" THEN <<o, e.dst>> ELSE <<e.src, o>> :
                     o \in {m \in new : ~NoCopy(m)}}
  <2>1. AddCopyEdges(P) /\ edgesLeft' \subseteq edgesLeft
    BY <1>8 DEF HandleEdge
  <2>2. cur \in Node /\ rep[e.src] \in nodes /\ rep[e.dst] \in nodes
    BY <1>2, <1>8 DEF CurOK, GraphOK, Facts
  <2>3. \A o \in new : rep[o] \in nodes
    BY <1>2, <1>5, <2>2 DEF PtsFacts, Fact
  <2> HIDE DEF new
  <2>4. \A p \in P : rep[p[1]] \in nodes /\ rep[p[2]] \in nodes
    BY <2>2, <2>3
  <2> HIDE DEF P
  <2>5. /\ \A g \in edges' : g.src \in nodes /\ g.dst \in nodes
        /\ \A n \in Node : \A o \in pts'[n] : Fact(o)
        /\ Holders => Holders'
    BY <1>1, <1>5, <2>1, <2>4, AddCopyEdgesKeeps DEF GraphOK, TypeOK
  <2> QED
    BY <1>1, <1>3, <1>4, <2>1, <2>5 DEF GraphOK, Graph, Ends, Facts
<1>9. CASE HandleLoad \/ HandleStore
  BY <1>8, <1>9, PickSub DEF HandleLoad, HandleStore
<1>10. CASE UpdateCallGraph
  <2>1. PICK new \in SUBSET NewTargets : edges' = edges \union NewCopyEdges(UNION {c.flow : c \in new})
    BY <1>10 DEF UpdateCallGraph
  <2>2. \A c \in prog.icalls : \A f \in c.flow : f[1] \in Named(prog) /\ f[2] \in Named(prog)
    BY DEF TypeOK, Program, Named
  <2> DEFINE P == UNION {c.flow : c \in new}
  <2>3. \A f \in P : f[1] \in Named(prog) /\ f[2] \in Named(prog)
    BY <2>2 DEF NewTargets
  <2>4. \A f \in P : rep[f[1]] \in nodes /\ rep[f[2]] \in nodes
    BY <1>1, <2>3, NamedOnGraph DEF GraphOK
  <2>5. edges' = edges \union NewCopyEdges(P)
    BY <2>1
  <2> HIDE DEF P
  <2>6. Ends'
    BY <1>1, <2>4, <2>5, CopyEnds DEF GraphOK, Graph, Ends
  <2>7. UNCHANGED <<pts, revPts, edgesLeft>>
    BY <1>10 DEF UpdateCallGraph
  <2> QED
    BY <1>1, <1>3, <1>4, <2>6, <2>7 DEF GraphOK, Graph, Facts, Holders
<1>11. CASE ConnectPair
  <2>1. PICK p \in cpySrcNodes : UnionPts(Into(rep[p[2]], pts[rep[p[1]]]))
    BY <1>11, PickSub DEF ConnectPair
  <2>2. \A o \in pts[rep[p[1]]] : Fact(o)
    BY <1>5 DEF TypeOK, PtsFacts
  <2>3. \A n \in Node : \A o \in pts'[n] : Fact(o)
    BY <1>5, <2>1, <2>2, IntoFacts, UnionFacts
  <2>4. Holders => Holders'
    BY <1>1, <2>1, UnionHolders
  <2>5. edges' = edges /\ edgesLeft' = edgesLeft
    BY <1>11 DEF ConnectPair, graphVars
  <2> QED
    BY <1>1, <1>3, <1>4, <2>3, <2>4, <2>5 DEF GraphOK, Graph, Ends, Facts
<1> QED
  BY <1>7, <1>9, <1>10, <1>11
-----------------------------------------------------------------------------
(* The graph of the program as it is written.                              *)
LEMMA InitGraph == Init => GraphOK /\ Holders
<1> SUFFICES ASSUME Init PROVE GraphOK /\ Holders
  OBVIOUS
<1>1. Ends
  <2> SUFFICES ASSUME NEW e \in edges, NEW n \in {e.src, e.dst} PROVE n \in nodes
    BY DEF Ends
  <2>1. n \in Ptr /\ e \in prog.edges
    BY StatementAssumption DEF Init
  <2>2. Base(n) = n
    BY <2>1, BaseType
  <2>3. n \in Named(prog)
    BY <2>1, <2>2 DEF Named
  <2> QED
    BY <2>3 DEF Init
<1>2. Reps /\ Merges
  <2>1. nodes \subseteq Node
    BY DEF Init, Named, Node, ObjNode
  <2> QED
    BY <2>1 DEF Init, Reps, Merges, Resolved
<1>3. Facts /\ Holders
  BY DEF Init, Facts, Holders
<1> QED
  BY <1>1, <1>2, <1>3 DEF GraphOK, Graph

(* Merging forgets no fact.                                                *)
LEMMA FactsKept ==
  ASSUME TypeOK, Facts, Kept, prog' = prog,
         UNCHANGED <<diff, ptdsLeft, tmpDstPts, frames, nodesToBeCollapsed, collapsing, edgesLeft>>,
         fieldsLeft' \subseteq fieldsLeft,
         \A n \in Node : \A o \in pts'[n] : o \in Node /\ Fact(o)
  PROVE  Facts'
<1>1. Named(prog)' = Named(prog)
  OBVIOUS
<1>2. \A o \in Node : (Fact(o) => (Fact(o))') /\ (Resolved(o) => (Resolved(o))')
  BY <1>1 DEF Kept, Fact
<1>3. diff \union ptdsLeft \union tmpDstPts \subseteq Node /\ fieldsLeft \subseteq Node
  BY DEF TypeOK, Node, ObjNode
<1>4. \A i \in 1..Len(frames) : frames[i] \subseteq Node
  BY DEF TypeOK, Node
<1>5. \A e \in edgesLeft : e.src \in Node /\ e.dst \in Node
  BY DEF TypeOK, Edge
<1> QED
  BY <1>1, <1>2, <1>3, <1>4, <1>5 DEF Facts

(* Every step of the analysis keeps graph, maps and reverse map together.  *)
LEMMA StepGraph ==
  ASSUME TypeOK, CurOK, GraphOK, [Next]_vars
  PROVE  GraphOK' /\ (Holders => Holders')
<1> USE DEF ptVars, diffVars, fiVars, gepVars, sccVars, collapseVars, callVars
<1>1. \A n \in Node : \A o \in pts[n] : o \in Node /\ Fact(o)
  BY DEF TypeOK, GraphOK, Facts, Node
<1>2. CASE ProcessAllAddr
  <2> DEFINE D == [n \in Node |-> {o \in Obj : <<o, n>> \in prog.addr}]
  <2>1. UnionPts(D) /\ pc = "addr" /\ pc' = "solve"
        /\ UNCHANGED <<prog, graphVars, merging, changedReps, collapsing, fieldsLeft, frames,
                       nodesToBeCollapsed, diff, ptdsLeft, tmpDstPts, edgesLeft>>
    BY <1>2 DEF ProcessAllAddr
  <2>2. \A n \in Node : \A o \in D[n] : o \in Obj /\ <<o, n>> \in prog.addr
    OBVIOUS
  <2> HIDE DEF D
  <2>3. ASSUME NEW n \in Node, NEW o \in D[n] PROVE Fact(o)
    <3>1. o \in Ptr \union Obj /\ o \in Node /\ Base(o) = o /\ <<o, n>> \in prog.addr
      BY <2>2, <2>3, BaseType DEF Node, ObjNode
    <3>2. <<o, n>>[1] = o
      OBVIOUS
    <3>3. o \in Named(prog)
      BY <3>1, <3>2 DEF Named
    <3> QED
      BY <3>1, <3>3 DEF Fact, GraphOK, Graph, Reps
  <2>4. \A n \in Node : \A o \in pts'[n] : Fact(o)
    BY <1>1, <2>1, <2>3, UnionFacts DEF PtsFacts
  <2>5. Holders => Holders'
    BY <2>1, UnionHolders DEF graphVars
  <2>6. Graph' /\ Named(prog)' = Named(prog)
        /\ \A n : (Fact(n))' = Fact(n) /\ (Resolved(n))' = Resolved(n)
    BY <2>1, QuietGraph DEF GraphOK, Graph, Merges
  <2> QED
    BY <2>1, <2>4, <2>5, <2>6 DEF GraphOK, Facts
<1>3. CASE SCCDetect
  <2>1. /\ UNCHANGED <<prog, graphVars, pts, revPts, collapsing, fieldsLeft, frames,
                       nodesToBeCollapsed, diff, ptdsLeft, tmpDstPts, edgesLeft>>
        /\ pc = "solve"
    BY <1>3 DEF SCCDetect
  <2>2. Merges' /\ changedReps' \subseteq nodes /\ changedReps = {}
    BY <1>3, <2>1, DetectMerges DEF GraphOK, Graph, Merges
  <2>3. Kept
    BY <2>1, <2>2 DEF Kept, Resolved, graphVars
  <2>4. Reps'
    BY <2>1, <2>2 DEF GraphOK, Graph, Reps, Resolved, graphVars
  <2>5. Ends' /\ (Holders => Holders')
    BY <2>1 DEF GraphOK, Graph, Ends, Holders, graphVars
  <2>6. Facts'
    BY <1>1, <2>1, <2>3, FactsKept DEF GraphOK
  <2> QED
    BY <2>2, <2>4, <2>5, <2>6 DEF GraphOK, Graph
<1>4. CASE MergeSccNode
  <2>1. Graph' /\ Kept /\ (Holders => Holders')
    BY <1>4, SccNodeMerged DEF GraphOK
  <2>2. UNCHANGED <<prog, diff, ptdsLeft, tmpDstPts, frames, nodesToBeCollapsed, collapsing,
                    edgesLeft, fieldsLeft>>
    BY <1>4 DEF MergeSccNode
  <2>3. \A n \in Node : \A o \in pts'[n] : o \in Node /\ Fact(o)
    <3>1. PICK p \in merging : MergeNodeToRep(p[1], p[2], pts)
      BY <1>4, PickSub DEF MergeSccNode
    <3>2. pts' = [pts EXCEPT ![p[2]] = @ \union pts[p[1]]] /\ p[1] \in Node
      BY <3>1 DEF MergeNodeToRep, TypeOK
    <3> QED
      BY <1>1, <3>2 DEF TypeOK
  <2> QED
    BY <2>1, <2>2, <2>3, FactsKept DEF GraphOK
<1>5. CASE UpdateReps
  <2>1. Graph' /\ Kept /\ (Holders => Holders')
    BY <1>5, RepsUpdated DEF GraphOK
  <2>2. UNCHANGED <<prog, pts, diff, ptdsLeft, tmpDstPts, frames, nodesToBeCollapsed, collapsing,
                    edgesLeft, fieldsLeft>>
    BY <1>5 DEF UpdateReps
  <2> QED
    BY <1>1, <2>1, <2>2, FactsKept DEF GraphOK
<1>6. CASE CollapseOneField
  <2>1. /\ Graph' /\ Kept /\ (Holders => Holders')
        /\ \A x \in Node : \A o \in pts'[x] : o = collapsing \/ \E y \in Node : o \in pts[y]
    BY <1>6, FieldMerged
  <2>2. /\ UNCHANGED <<prog, diff, ptdsLeft, tmpDstPts, frames, nodesToBeCollapsed, collapsing,
                       edgesLeft>>
        /\ fieldsLeft' \subseteq fieldsLeft
    BY <1>6 DEF CollapseOneField
  <2>3. collapsing \in Node /\ Fact(collapsing)
    <3>1. collapsing \in Named(prog) /\ collapsing \in Obj /\ collapsing \in Node
      BY <1>6 DEF CollapseOneField, GraphOK, Facts, TypeOK, Node, ObjNode
    <3>2. Base(collapsing) = collapsing
      BY <3>1, BaseType
    <3> QED
      BY <3>1, <3>2 DEF Fact, GraphOK, Graph, Reps
  <2>4. \A n \in Node : \A o \in pts'[n] : o \in Node /\ Fact(o)
    BY <1>1, <2>1, <2>3
  <2> QED
    BY <2>1, <2>2, <2>4, FactsKept DEF GraphOK
<1>7. CASE UNCHANGED vars
  BY <1>7 DEF vars, graphVars, GraphOK, Graph, Reps, Merges, Ends, Facts, Fact, Resolved, Named, Holders
<1> QED
  BY <1>2, <1>3, <1>4, <1>5, <1>6, <1>7, WaveGraph, GepGraph, CollapseGraph, PostGraph
  DEF Next, Terminated

(* Graph, maps, facts and reverse map agree at every step.                 *)
LEMMA GraphInvariant == Spec => [](TypeOK /\ GraphOK /\ Holders)
<1>1. TypeOK /\ CurOK /\ GraphOK /\ Holders /\ [Next]_vars => GraphOK' /\ Holders'
  BY StepGraph
<1> QED
  BY <1>1, InitGraph, TypeCorrect, PTL DEF Spec

(* No edge ever names a node that merging has removed, and between merges  *)
(* every node is represented by one on the graph.                          *)
THEOREM GraphWellFormed == Spec => []RepsOnGraph
<1>1. TypeOK /\ GraphOK => RepsOnGraph
  <2> SUFFICES ASSUME TypeOK, GraphOK PROVE RepsOnGraph
    OBVIOUS
  <2>1. \A e \in edges : {e.src, e.dst} \subseteq nodes
    BY DEF GraphOK, Graph, Ends
  <2>2. ASSUME pc # "merge"
        PROVE  /\ \A n \in Named(prog) \union {m \in Node : rep[m] # m} : rep[n] \in nodes
               /\ \A n \in nodes : rep[n] = n /\ \A m \in subs[n] : rep[m] = n
    <3>1. changedReps = {} /\ nodes \subseteq Node
      BY <2>2 DEF GraphOK, Graph, Merges, TypeOK
    <3>2. \A n \in Named(prog) : n \in Node
      BY DEF Named, Node, ObjNode
    <3>3. \A n \in Named(prog) \union {m \in Node : rep[m] # m} : rep[n] \in nodes
      BY <3>1, <3>2 DEF GraphOK, Graph, Reps, Resolved
    <3>4. ASSUME NEW n \in nodes PROVE rep[n] = n /\ \A m \in subs[n] : rep[m] = n
      BY <3>1 DEF GraphOK, Graph, Reps
    <3> QED
      BY <3>3, <3>4
  <2> QED
    BY <2>1, <2>2 DEF RepsOnGraph
<1> QED
  BY <1>1, GraphInvariant, PTL

(* collapseField() finds every pointer to a field through the reverse map, *)
(* although its keys keep the names of merged nodes.                       *)
THEOREM HoldersFound == Spec => []RevPtsComplete
<1>1. TypeOK /\ GraphOK /\ Holders => RevPtsComplete
  <2> SUFFICES ASSUME TypeOK, GraphOK, Holders, NEW n \in nodes, NEW o \in pts[n] \intersect Field
               PROVE  \E x \in revPts[o] : rep[x] = n
    BY DEF RevPtsComplete
  <2>1. n \in Node /\ rep[n] = n
    BY DEF GraphOK, Graph, Reps, TypeOK
  <2> QED
    BY <2>1 DEF Holders
<1> QED
  BY <1>1, GraphInvariant, PTL
-----------------------------------------------------------------------------
(* Difference propagation.  A fact held in S, F being field-insensitive,   *)
(* and a fact that edge e has brought to S.                                *)
Held(F, S, o) == o \in S \/ (Base(o) \in F /\ Base(o) \in S)
Moved(e, o) == <<Base(o), (Index(o) + e.off) % Limit[Base(o)]>>
Arrives(F, S, e, o) ==
  /\ e.kind = "copy" => Held(F, S, o)
  /\ e.kind \in {"ngep", "vgep"} /\ BlkOrConst(Base(o)) => o \in S
  /\ e.kind = "ngep" /\ ~BlkOrConst(Base(o)) => Held(F, S, Moved(e, o))
  /\ e.kind = "vgep" /\ ~BlkOrConst(Base(o)) => Base(o) \in S

(* What the running handler has still to send along e, and has sent.       *)
Unsent(e) == (IF e \in edgesLeft THEN diff ELSE {}) \union (IF e = gep THEN ptdsLeft ELSE {})
Reached(e) == pts[e.dst] \union (IF e = gep THEN tmpDstPts ELSE {})
Pending(e) == e.kind = "copy" /\ <<e.src, e.dst>> \in cpySrcNodes
Delivered(e) ==
  \A o \in propa[e.src] \ Unsent(e) : Arrives(fieldInsensitive, Reached(e), e, o)

AllSent == \A e \in edges : e.kind \in Direct /\ ~Pending(e) => Delivered(e)
SentHeld == \A n \in Node : \A o \in propa[n] : Held(fieldInsensitive, pts[n], o)

(* No two handlers run at once.                                            *)
Stages ==
  /\ pc # "copygep" => gep = None
  /\ gep = None => ptdsLeft = {} /\ tmpDstPts = {}
  /\ gep # None => gep.kind \in {"ngep", "vgep"}
  /\ pc \notin {"copygep", "post"} => edgesLeft = {}
  /\ pc = "copygep" => \A e \in edgesLeft : e.kind \in Direct
  /\ pc = "post" => \A e \in edgesLeft : e.kind \notin Direct
  /\ pc # "connect" => cpySrcNodes = {}
  /\ collapsing # None => /\ collapsing \in fieldInsensitive /\ ~BlkOrConst(collapsing)
                          /\ \A f \in fieldsLeft : f \in Field /\ Base(f) = collapsing

Sending == Stages /\ AllSent /\ SentHeld

(* T has what S has, but for fields that were collapsed.                   *)
Covers(G, S, T) ==
  \A o \in S : \/ o \in T
               \/ o \in Field /\ Base(o) \in G /\ Base(o) \in T /\ ~BlkOrConst(Base(o))

(* A gep leads to a field of the same object.                              *)
LEMMA MovedType ==
  ASSUME NEW e \in Edge, NEW o \in ObjNode
  PROVE  Moved(e, o) \in Field /\ Moved(e, o) \in ObjNode /\ Base(Moved(e, o)) = Base(o)
<1> DEFINE k == (Index(o) + e.off) % Limit[Base(o)]
<1>1. Base(o) \in Obj /\ Index(o) \in Nat /\ e.off \in Nat
  BY BaseType DEF Edge
<1>2. Limit[Base(o)] \in Nat \ {0} /\ Index(o) + e.off \in Nat
  BY <1>1, LimitAssumption
<1>3. k \in 0..Limit[Base(o)] - 1
  BY <1>2
<1>4. <<Base(o), k>> \in Field
  BY <1>1, <1>3 DEF Field
<1> QED
  BY <1>1, <1>3, <1>4, BaseType DEF Moved, ObjNode

(* What was held is held where everything was taken over.                  *)
LEMMA HeldMore ==
  ASSUME NEW F, NEW G, F \subseteq G, NEW S \in SUBSET ObjNode, NEW T, Covers(G, S, T),
         NEW o \in ObjNode, Held(F, S, o)
  PROVE  Held(G, T, o)
<1>1. Base(o) \in Obj /\ Base(o) \notin Field
  BY BaseType, DisjointAssumption
<1> QED
  BY <1>1 DEF Held, Covers

(* What had arrived has arrived where everything was taken over.           *)
LEMMA ArrivesMore ==
  ASSUME NEW F, NEW G, F \subseteq G, NEW S \in SUBSET ObjNode, NEW T, Covers(G, S, T),
         NEW d \in Edge, NEW e \in Edge, d.kind = e.kind, d.off = e.off,
         NEW o \in ObjNode, Arrives(F, S, d, o)
  PROVE  Arrives(G, T, e, o)
<1>1. Base(o) \in Obj /\ Base(o) \notin Field
  BY BaseType, DisjointAssumption
<1>2. Moved(d, o) = Moved(e, o) /\ Moved(e, o) \in ObjNode
  BY MovedType DEF Moved
<1>3. Held(F, S, o) => Held(G, T, o)
  BY HeldMore
<1>4. Held(F, S, Moved(e, o)) => Held(G, T, Moved(e, o))
  BY <1>2, HeldMore
<1>5. BlkOrConst(Base(o)) /\ o \in S => o \in T
  BY DEF Covers
<1>6. Base(o) \in S => Base(o) \in T
  BY <1>1 DEF Covers
<1> QED
  BY <1>2, <1>3, <1>4, <1>5, <1>6 DEF Arrives

(* A step that takes edge d to edge e, and nothing back.                   *)
LEMMA DeliveredKept ==
  ASSUME TypeOK, NEW d \in Edge, NEW e \in Edge, d.kind = e.kind, d.off = e.off, Delivered(d),
         fieldInsensitive \subseteq fieldInsensitive', Covers(fieldInsensitive', Reached(d), Reached(e)'),
         propa'[e.src] \ Unsent(e)' \subseteq propa[d.src] \ Unsent(d)
  PROVE  Delivered(e)'
<1>1. Reached(d) \in SUBSET ObjNode /\ propa[d.src] \subseteq ObjNode
  BY DEF Reached, TypeOK, Edge
<1>2. ASSUME NEW o \in propa'[e.src] \ Unsent(e)'
      PROVE  Arrives(fieldInsensitive', Reached(e)', e, o)
  <2>1. o \in ObjNode /\ Arrives(fieldInsensitive, Reached(d), d, o)
    BY <1>1, <1>2 DEF Delivered
  <2> QED
    BY <1>1, <2>1, ArrivesMore
<1> QED
  BY <1>2 DEF Delivered

(* More facts are no fewer facts.                                          *)
LEMMA SubCovers == ASSUME NEW G, NEW S, NEW T, S \subseteq T PROVE Covers(G, S, T)
BY DEF Covers

(* unionPts() only adds.                                                   *)
LEMMA UnionGrows ==
  ASSUME TypeOK, NEW D, UnionPts(D), NEW n \in Node
  PROVE  pts[n] \subseteq pts'[n] /\ D[n] \subseteq pts'[n]
BY DEF UnionPts

(* Adding facts takes none back.                                           *)
LEMMA SentStillHeld ==
  ASSUME TypeOK, SentHeld, propa' = propa, fieldInsensitive \subseteq fieldInsensitive',
         \A n \in Node : pts[n] \subseteq pts'[n]
  PROVE  SentHeld'
BY DEF SentHeld, Held

(* The wave sends what it says it has sent.                                *)
LEMMA NodeSends ==
  ASSUME TypeOK, CurOK, GraphOK, Sending, ProcessNode \/ ResumePWCNode
  PROVE  Sending'
<1> USE DEF graphVars, ptVars, diffVars, fiVars, gepVars, sccVars, collapseVars, callVars
<1>1. PICK n \in Node : HandleCopyGep(n)
  <2>1. TopOfStack \subseteq Node
    BY PickSub DEF TopOfStack, TypeOK
  <2> QED
    BY <2>1 DEF ProcessNode, ResumePWCNode, CurOK
<1>2. /\ UNCHANGED <<edges, pts, fieldInsensitive, gep, ptdsLeft, tmpDstPts, cpySrcNodes, collapsing,
                     fieldsLeft>>
      /\ pc \in {"wave", "pwc"} /\ collapsing = None
  BY DEF ProcessNode, ResumePWCNode, GraphOK, Graph, Merges
<1>3. gep = None /\ edgesLeft = {} /\ cpySrcNodes = {} /\ ptdsLeft = {} /\ tmpDstPts = {}
  BY <1>2 DEF Sending, Stages
<1>4. Stages'
  BY <1>1, <1>2, <1>3 DEF HandleCopyGep, Stages
<1>5. SentHeld'
  BY <1>1, <1>2 DEF HandleCopyGep, Sending, SentHeld, Held, TypeOK
<1>6. ASSUME NEW e \in edges, e.kind \in Direct PROVE Delivered(e)'
  <2>1. e \in Edge /\ e.src \in Node /\ Delivered(e) /\ Unsent(e) = {}
    BY <1>3, <1>6 DEF Sending, AllSent, Pending, Unsent, TypeOK, Edge
  <2>2. Covers(fieldInsensitive', Reached(e), Reached(e)')
    BY <1>2, SubCovers DEF Reached
  <2>3. propa'[e.src] \ Unsent(e)' \subseteq propa[e.src]
    <3>1. CASE rep[n] = n /\ e.src = n
      <4>1. propa'[n] = pts[n]
        BY <1>1, <3>1 DEF HandleCopyGep, TypeOK
      <4>2. pts[n] \ propa[n] # {} => e \in edgesLeft' /\ diff' = pts[n] \ propa[n]
        BY <1>1, <1>6, <3>1 DEF HandleCopyGep
      <4> QED
        BY <3>1, <4>1, <4>2 DEF Unsent
    <3>2. CASE ~(rep[n] = n /\ e.src = n)
      BY <1>1, <2>1, <3>2 DEF HandleCopyGep, TypeOK
    <3> QED
      BY <3>1, <3>2
  <2> QED
    BY <1>2, <2>1, <2>2, <2>3, DeliveredKept
<1> QED
  BY <1>2, <1>4, <1>5, <1>6 DEF Sending, AllSent

(* Copy edges and geps deliver what their handler has to send.             *)
LEMMA WaveSends ==
  ASSUME TypeOK, CurOK, GraphOK, Sending,
         ProcessPWCNode \/ ProcessCopy \/ ProcessGep \/ FinishGep \/ FinishCopyGep
  PROVE  Sending'
<1> USE DEF graphVars, ptVars, diffVars, fiVars, gepVars, sccVars, collapseVars, callVars
<1>1. /\ UNCHANGED <<edges, propa, fieldInsensitive, cpySrcNodes, collapsing, fieldsLeft>>
      /\ pc \in {"wave", "copygep"} /\ collapsing = None /\ cpySrcNodes = {}
  BY DEF ProcessPWCNode, ProcessCopy, ProcessGep, FinishGep, FinishCopyGep, GraphOK, Graph, Merges,
         Sending, Stages
<1>2. \A e \in edges : e.kind \in Direct => e \in Edge /\ e.src \in Node /\ e.dst \in Node /\ Delivered(e)
  BY <1>1 DEF Sending, AllSent, Pending, TypeOK, Edge
<1>3. Stages'
  <2>1. ProcessGep => gep' \in Edge /\ gep'.kind \in {"ngep", "vgep"}
    <3>1. ProcessGep => gep' \in edgesLeft /\ gep'.kind # "copy" /\ pc = "copygep"
      BY PickSub DEF ProcessGep
    <3> QED
      BY <3>1 DEF Sending, Stages, TypeOK, Edge, Direct
  <2> QED
    <3>1. CASE ProcessGep
      <4>1. gep' # None /\ edgesLeft' \subseteq edgesLeft /\ pc' = pc /\ pc = "copygep"
        BY <2>1, <3>1, NoneAssumption DEF ProcessGep
      <4> QED
        BY <1>1, <2>1, <3>1, <4>1 DEF Sending, Stages
    <3>2. CASE ProcessPWCNode
      BY <1>1, <3>2 DEF ProcessPWCNode, Sending, Stages
    <3>3. CASE ProcessCopy
      <4>1. edgesLeft' \subseteq edgesLeft
        BY <3>3 DEF ProcessCopy
      <4> QED
        BY <1>1, <3>3, <4>1 DEF ProcessCopy, Sending, Stages
    <3>4. CASE FinishGep \/ FinishCopyGep
      BY <1>1, <3>4 DEF FinishGep, FinishCopyGep, Sending, Stages
    <3> QED
      BY <3>1, <3>2, <3>3, <3>4
<1>4. CASE ProcessPWCNode
  <2>1. UNCHANGED <<edgesLeft, pts, diff, gep, ptdsLeft, tmpDstPts>>
    BY <1>4 DEF ProcessPWCNode
  <2> QED
    BY <1>1, <1>3, <2>1 DEF Sending, AllSent, SentHeld, Delivered, Reached, Unsent, Pending
<1>5. CASE FinishCopyGep
  <2>1. UNCHANGED <<edgesLeft, pts, gep, ptdsLeft, tmpDstPts>> /\ edgesLeft = {}
    BY <1>5 DEF FinishCopyGep
  <2> QED
    BY <1>1, <1>3, <2>1 DEF Sending, AllSent, SentHeld, Delivered, Reached, Unsent, Pending
<1>6. CASE ProcessGep
  <2>1. PICK g \in edgesLeft : gep' = g /\ edgesLeft' = edgesLeft \ {g}
    BY <1>6, PickSub DEF ProcessGep
  <2>2. gep = None /\ ptdsLeft' = diff /\ UNCHANGED <<pts, diff, tmpDstPts>>
    BY <1>6 DEF ProcessGep
  <2>3. ptdsLeft = {} /\ tmpDstPts = {}
    BY <2>2 DEF Sending, Stages
  <2>4. \A e : Reached(e)' = Reached(e) /\ Unsent(e) \subseteq Unsent(e)'
    BY <2>1, <2>2, <2>3 DEF Reached, Unsent
  <2> QED
    BY <1>1, <1>2, <1>3, <2>2, <2>4 DEF Sending, AllSent, SentHeld, Delivered
<1>7. CASE ProcessCopy
  <2>1. PICK g \in edgesLeft : g.kind = "copy" /\ edgesLeft' = edgesLeft \ {g}
                               /\ UnionPts(Into(g.dst, diff))
    BY <1>7, PickSub DEF ProcessCopy
  <2>2. gep = None /\ UNCHANGED <<diff, gep, ptdsLeft, tmpDstPts>>
    BY <1>7 DEF ProcessCopy
  <2>3. SentHeld'
    BY <1>1, <2>1, UnionGrows, SentStillHeld DEF Sending
  <2>4. ASSUME NEW e \in edges, e.kind \in Direct, e # g PROVE Delivered(e)'
    <3>1. Covers(fieldInsensitive', Reached(e), Reached(e)')
      BY <1>2, <2>1, <2>2, <2>4, UnionGrows, SubCovers DEF Reached
    <3>2. Unsent(e)' = Unsent(e)
      BY <2>1, <2>2, <2>4 DEF Unsent
    <3> QED
      BY <1>1, <1>2, <2>4, <3>1, <3>2, DeliveredKept
  <2>5. ASSUME g \in edges PROVE Delivered(g)'
    <3>1. g \in Edge /\ g.dst \in Node /\ Delivered(g) /\ propa[g.src] \subseteq ObjNode
      BY <1>2, <2>1, <2>5 DEF Direct, TypeOK, Edge
    <3>2. pts[g.dst] \subseteq pts'[g.dst] /\ diff \subseteq pts'[g.dst] /\ Reached(g) = pts[g.dst]
          /\ pts[g.dst] \in SUBSET ObjNode
      <4>1. Into(g.dst, diff)[g.dst] = diff
        BY <3>1 DEF Into
      <4>2. tmpDstPts = {}
        BY <2>2 DEF Sending, Stages
      <4> QED
        BY <2>1, <2>2, <3>1, <4>1, <4>2, UnionGrows DEF Reached, TypeOK
    <3>3. ASSUME NEW o \in propa[g.src] PROVE Arrives(fieldInsensitive, pts'[g.dst], g, o)
      <4>1. CASE o \in diff
        BY <2>1, <3>2, <4>1 DEF Arrives, Held
      <4>2. CASE o \notin diff
        <5>1. Arrives(fieldInsensitive, pts[g.dst], g, o)
          <6>1. o \notin Unsent(g)
            BY <2>2, <4>2 DEF Unsent, Sending, Stages
          <6> QED
            BY <3>1, <3>2, <6>1 DEF Delivered
        <5> QED
          BY <3>1, <3>2, <5>1, ArrivesMore, SubCovers
      <4> QED
        BY <4>1, <4>2
    <3>4. pts'[g.dst] \subseteq Reached(g)'
      BY DEF Reached
    <3> QED
      BY <1>1, <2>1, <3>3, <3>4 DEF Delivered, Arrives, Held
  <2> QED
    BY <1>1, <1>3, <2>3, <2>4, <2>5 DEF Sending, AllSent
<1>8. CASE FinishGep
  <2>1. /\ UnionPts(Into(gep.dst, tmpDstPts)) /\ gep' = None /\ tmpDstPts' = {} /\ ptdsLeft = {}
        /\ UNCHANGED <<diff, edgesLeft, ptdsLeft>> /\ gep # None
    BY <1>8 DEF FinishGep
  <2>2. gep.dst \in Node
    BY <2>1 DEF TypeOK, Edge
  <2>3. SentHeld'
    BY <1>1, <2>1, UnionGrows, SentStillHeld DEF Sending
  <2>4. ASSUME NEW e \in edges, e.kind \in Direct PROVE Delivered(e)'
    <3>1. pts[e.dst] \subseteq pts'[e.dst] /\ (e = gep => tmpDstPts \subseteq pts'[e.dst])
      <4>1. Into(gep.dst, tmpDstPts)[gep.dst] = tmpDstPts
        BY <2>2 DEF Into
      <4> QED
        BY <1>2, <2>1, <2>2, <2>4, <4>1, UnionGrows
    <3>2. Covers(fieldInsensitive', Reached(e), Reached(e)')
      BY <3>1, SubCovers DEF Reached
    <3>3. Unsent(e)' = Unsent(e)
      BY <2>1 DEF Unsent
    <3> QED
      BY <1>1, <1>2, <2>4, <3>2, <3>3, DeliveredKept
  <2> QED
    BY <1>1, <1>3, <2>3, <2>4 DEF Sending, AllSent
<1> QED
  BY <1>4, <1>5, <1>6, <1>7, <1>8
(* Outside handleCopyGep() nothing is half sent.                           *)
Settled == \A e \in Edge : e.kind \in Direct => Unsent(e) = {} /\ Reached(e) = pts[e.dst]

(* handleCopyGep() is the only handler that is ever half done.             *)
LEMMA NothingUnsent ==
  /\ Stages /\ pc # "copygep" => Settled
  /\ Stages' /\ pc' # "copygep" => Settled'
<1>1. Stages /\ pc # "copygep" => Settled
  <2> SUFFICES ASSUME Stages, pc # "copygep", NEW e \in Edge, e.kind \in Direct
               PROVE  Unsent(e) = {} /\ Reached(e) = pts[e.dst]
    BY DEF Settled
  <2>1. e \notin edgesLeft /\ ptdsLeft = {} /\ tmpDstPts = {}
    BY DEF Stages
  <2> QED
    BY <2>1 DEF Unsent, Reached
<1>2. Stages' /\ pc' # "copygep" => Settled'
  <2> SUFFICES ASSUME Stages', pc' # "copygep", NEW e \in Edge, e.kind \in Direct
               PROVE  Unsent(e)' = {} /\ Reached(e)' = pts'[e.dst]
    BY DEF Settled
  <2>1. e \notin edgesLeft' /\ ptdsLeft' = {} /\ tmpDstPts' = {}
    BY DEF Stages
  <2> QED
    BY <2>1 DEF Unsent, Reached
<1> QED
  BY <1>1, <1>2

(* A settled edge stays settled when points-to sets only grow.             *)
LEMMA SettledKept ==
  ASSUME TypeOK, Settled, Settled', NEW e \in Edge, e.kind \in Direct, Delivered(e),
         propa' = propa, fieldInsensitive \subseteq fieldInsensitive',
         \A n \in Node : pts[n] \subseteq pts'[n]
  PROVE  Delivered(e)'
<1>1. e.dst \in Node
  BY DEF Edge
<1>2. Covers(fieldInsensitive', Reached(e), Reached(e)')
  BY <1>1, SubCovers DEF Settled
<1>3. propa'[e.src] \ Unsent(e)' \subseteq propa[e.src] \ Unsent(e)
  BY DEF Settled
<1> QED
  BY <1>2, <1>3, DeliveredKept

(* A new copy edge whose target has all its source had before.             *)
LEMMA NewEdgeDelivered ==
  ASSUME TypeOK, SentHeld, NEW e \in Edge, e.kind = "copy", propa' = propa,
         fieldInsensitive \subseteq fieldInsensitive', pts[e.src] \subseteq pts'[e.dst]
  PROVE  Delivered(e)'
<1>1. e.src \in Node
  BY DEF Edge
<1>2. ASSUME NEW o \in propa'[e.src] PROVE Held(fieldInsensitive', Reached(e)', o)
  <2>1. Held(fieldInsensitive, pts[e.src], o)
    BY <1>1, <1>2 DEF SentHeld
  <2>2. pts[e.src] \subseteq Reached(e)'
    BY DEF Reached
  <2> QED
    BY <2>1, <2>2 DEF Held
<1> QED
  BY <1>2 DEF Delivered, Arrives

(* addCopyEdge() sends along the new edge all the source has.              *)
LEMMA AddCopyEdgesSends ==
  ASSUME TypeOK, NEW P \in SUBSET (Node \X Node), AddCopyEdges(P)
  PROVE  /\ \A n \in Node : pts[n] \subseteq pts'[n]
         /\ edges' = edges \union NewCopyEdges(P)
         /\ \A e \in NewCopyEdges(P) : e \in Edge /\ e.kind = "copy" /\ pts[e.src] \subseteq pts'[e.dst]
<1> DEFINE new == NewCopyEdges(P)
           D == [n \in Node |-> UNION {pts[e.src] : e \in {f \in new : f.dst = n}}]
<1>1. edges' = edges \union new /\ UnionPts(D)
  BY DEF AddCopyEdges
<1>2. new \subseteq Edge
  BY NewCopyEdgesType
<1>3. \A e \in new : e.kind = "copy"
  BY DEF NewCopyEdges
<1> HIDE DEF new
<1>4. \A e \in new : e.dst \in Node /\ pts[e.src] \subseteq D[e.dst]
  BY <1>2 DEF Edge
<1> HIDE DEF D
<1>5. \A n \in Node : pts[n] \subseteq pts'[n] /\ D[n] \subseteq pts'[n]
  BY <1>1, UnionGrows
<1>6. \A e \in new : e \in Edge /\ e.kind = "copy" /\ pts[e.src] \subseteq pts'[e.dst]
  BY <1>2, <1>3, <1>4, <1>5
<1> QED
  BY <1>1, <1>5, <1>6 DEF new
(* One pointee of a gep has arrived in what FinishGep will send.           *)
LEMMA GepSends ==
  ASSUME TypeOK, GraphOK, Sending, GepPtd
  PROVE  Sending'
<1> USE DEF ptVars, diffVars, fiVars, sccVars, collapseVars, callVars
<1>1. PICK m \in ptdsLeft : /\ ptdsLeft' = ptdsLeft \ {m}
                            /\ GepBlkOrConst(m) \/ GepVariant(m) \/ GepNormal(m)
  BY PickSub DEF GepPtd
<1>2. /\ UNCHANGED <<prog, pc, propa, diff, edgesLeft, gep, cpySrcNodes, collapsing, fieldsLeft>>
      /\ pc = "copygep" /\ gep # None
  BY DEF GepPtd
<1>3. /\ m \in ObjNode /\ m \in Node /\ Base(m) \in Obj /\ Base(m) \in Node
      /\ gep \in Edge /\ gep.kind \in {"ngep", "vgep"} /\ gep.off \in Nat /\ cpySrcNodes = {}
  BY <1>2, BaseType DEF TypeOK, Node, ObjNode, Sending, Stages, Edge
<1> DEFINE f == GepObj(m, gep.off)
           P == IF gep.off = 0 THEN {<<Base(f), f>>} ELSE {}
<1>4. f \in Node /\ Base(f) \in Node /\ P \in SUBSET (Node \X Node)
  <2>1. f \in ObjNode /\ Base(f) = Base(m)
    BY <1>3, GepObjType
  <2> QED
    BY <1>3, <2>1 DEF Node
<1>5. /\ fieldInsensitive \subseteq fieldInsensitive' /\ tmpDstPts \subseteq tmpDstPts'
      /\ \A n \in Node : pts[n] \subseteq pts'[n]
      /\ \A e \in edges' : \/ e \in edges
                           \/ e \in Edge /\ e.kind = "copy" /\ pts[e.src] \subseteq pts'[e.dst]
  <2>1. CASE GepBlkOrConst(m) \/ GepVariant(m)
    BY <2>1 DEF GepBlkOrConst, GepVariant
  <2>2. CASE GepNormal(m)
    <3>1. AddCopyEdges(P) /\ fieldInsensitive' = fieldInsensitive /\ tmpDstPts \subseteq tmpDstPts'
      BY <2>2 DEF GepNormal
    <3> HIDE DEF P
    <3> QED
      BY <1>4, <3>1, AddCopyEdgesSends
  <2> QED
    BY <1>1, <2>1, <2>2
<1>6. Arrives(fieldInsensitive', tmpDstPts', gep, m)
  <2>1. CASE GepBlkOrConst(m)
    BY <1>3, <2>1 DEF GepBlkOrConst, Arrives
  <2>2. CASE GepVariant(m)
    BY <2>2 DEF GepVariant, Arrives
  <2>3. CASE GepNormal(m)
    <3>1. ~BlkOrConst(Base(m)) /\ gep.kind = "ngep" /\ f \in tmpDstPts'
          /\ fieldInsensitive' = fieldInsensitive
      BY <2>3 DEF GepNormal
    <3>2. Base(Moved(gep, m)) = Base(m)
      BY <1>3, MovedType
    <3>3. f = Moved(gep, m) \/ (Base(m) \in fieldInsensitive /\ f = Base(m))
      BY DEF GepObj, Moved
    <3> QED
      BY <3>1, <3>2, <3>3 DEF Arrives, Held
  <2> QED
    BY <1>1, <2>1, <2>2, <2>3
<1> HIDE DEF f, P
<1>7. \A e \in Edge : Reached(e) \subseteq Reached(e)'
  BY <1>2, <1>5 DEF Reached, Edge
<1>8. Stages'
  BY <1>1, <1>2, <1>5 DEF Sending, Stages
<1>9. SentHeld'
  BY <1>2, <1>5, SentStillHeld DEF Sending
<1>10. ASSUME NEW e \in edges, e.kind \in Direct PROVE Delivered(e)'
  <2>1. e \in Edge /\ Delivered(e) /\ propa[e.src] \subseteq ObjNode /\ Reached(e) \in SUBSET ObjNode
    BY <1>3, <1>10 DEF Sending, AllSent, Pending, TypeOK, Edge, Reached
  <2>2. ASSUME NEW o \in propa'[e.src] \ Unsent(e)'
        PROVE  Arrives(fieldInsensitive', Reached(e)', e, o)
    <3>1. CASE e = gep /\ o = m
      <4>1. tmpDstPts' \subseteq Reached(e)'
        BY <1>2, <3>1 DEF Reached
      <4> QED
        BY <1>6, <3>1, <4>1 DEF Arrives, Held
    <3>2. CASE ~(e = gep /\ o = m)
      <4>1. o \notin Unsent(e) /\ o \in propa[e.src]
        BY <1>1, <1>2, <2>2, <3>2 DEF Unsent
      <4>2. Arrives(fieldInsensitive, Reached(e), e, o)
        BY <4>1, <2>1 DEF Delivered
      <4> QED
        BY <1>5, <1>7, <2>1, <4>1, <4>2, ArrivesMore, SubCovers
    <3> QED
      BY <3>1, <3>2
  <2> QED
    BY <2>2 DEF Delivered
<1>11. ASSUME NEW e \in edges' \ edges PROVE Delivered(e)'
  <2>1. e \in Edge /\ e.kind = "copy" /\ pts[e.src] \subseteq pts'[e.dst]
    BY <1>5, <1>11
  <2> QED
    BY <1>2, <1>5, <2>1, NewEdgeDelivered DEF Sending
<1> QED
  BY <1>8, <1>9, <1>10, <1>11 DEF Sending, AllSent

(* The post phase and the call graph: an edge added later catches up.      *)
LEMMA PostSends ==
  ASSUME TypeOK, CurOK, GraphOK, Sending,
         PopFromWorklist \/ HandleLoad \/ HandleStore \/ UpdateCallGraph \/ ConnectPair
           \/ FinishCallGraph
  PROVE  Sending'
<1> USE DEF graphVars, ptVars, diffVars, fiVars, gepVars, sccVars, collapseVars, callVars
<1>1. /\ UNCHANGED <<prog, rep, propa, fieldInsensitive, gep, ptdsLeft, tmpDstPts, collapsing, fieldsLeft>>
      /\ pc \in {"wave", "post", "connect"} /\ pc' \in {"wave", "post", "connect", "solve", "done"}
      /\ gep = None /\ ptdsLeft = {} /\ tmpDstPts = {}
  <2>1. /\ UNCHANGED <<prog, rep, propa, fieldInsensitive, gep, ptdsLeft, tmpDstPts, collapsing, fieldsLeft>>
        /\ pc \in {"wave", "post", "connect"} /\ pc' \in {"wave", "post", "connect", "solve", "done"}
    BY DEF PopFromWorklist, HandleLoad, HandleStore, HandleEdge, UpdateCallGraph, ConnectPair,
           FinishCallGraph, SolvePost
  <2> QED
    BY <2>1 DEF Sending, Stages
<1>2. Settled
  BY <1>1, NothingUnsent DEF Sending
<1>3. ASSUME NEW e \in edges, e.kind \in Direct, ~Pending(e), Stages',
             \A n \in Node : pts[n] \subseteq pts'[n]
      PROVE  Delivered(e)'
  <2>1. e \in Edge /\ Delivered(e)
    BY <1>3 DEF Sending, AllSent, TypeOK
  <2>2. Settled'
    BY <1>1, <1>3, NothingUnsent
  <2> QED
    BY <1>1, <1>2, <1>3, <2>1, <2>2, SettledKept
<1>4. CASE PopFromWorklist
  <2>1. /\ UNCHANGED <<edges, pts, cpySrcNodes>> /\ \A e \in edgesLeft' : e.kind \in {"load", "store"}
        /\ pc = "wave" /\ pc' \in {"wave", "post"} /\ (edgesLeft' # {} => pc' = "post")
    BY <1>4, PickSub DEF PopFromWorklist, SolvePost
  <2>2. Stages'
    BY <1>1, <2>1 DEF Sending, Stages, Direct
  <2>3. SentHeld'
    BY <1>1, <2>1 DEF Sending, SentHeld
  <2> QED
    BY <1>3, <2>1, <2>2, <2>3 DEF Sending, AllSent, Pending
<1>5. ASSUME NEW e \in edgesLeft, pc = "post", HandleEdge(e) PROVE Sending'
  <2> DEFINE new == {o \in pts[cur] : <<e, o>> \notin cache}
             P == {IF e.kind = "load" THEN <<o, e.dst>> ELSE <<e.src, o>> :
                     o \in {m \in new : ~NoCopy(m)}}
  <2>1. /\ AddCopyEdges(P) /\ edgesLeft' \subseteq edgesLeft /\ cpySrcNodes' = cpySrcNodes
        /\ pc' \in {"wave", "post"} /\ (edgesLeft' # {} => pc' = pc)
    BY <1>5 DEF HandleEdge
  <2>2. P \in SUBSET (Node \X Node)
    <3>1. cur \in Node /\ e.src \in Node /\ e.dst \in Node
      BY <1>5 DEF CurOK, TypeOK, Edge
    <3>2. \A o \in new : o \in Node
      BY <3>1 DEF TypeOK, Node
    <3> HIDE DEF new
    <3> QED
      BY <3>1, <3>2
  <2> HIDE DEF P
  <2>3. /\ \A n \in Node : pts[n] \subseteq pts'[n]
        /\ edges' = edges \union NewCopyEdges(P)
        /\ \A g \in NewCopyEdges(P) : g \in Edge /\ g.kind = "copy" /\ pts[g.src] \subseteq pts'[g.dst]
    BY <2>1, <2>2, AddCopyEdgesSends
  <2>4. Stages'
    BY <1>1, <1>5, <2>1 DEF Sending, Stages
  <2>5. SentHeld'
    BY <1>1, <2>3, SentStillHeld DEF Sending
  <2>6. \A g \in NewCopyEdges(P) : Delivered(g)'
    BY <1>1, <2>3, NewEdgeDelivered DEF Sending
  <2>7. \A g \in edges : ~Pending(g)
    BY <1>5 DEF Pending, Sending, Stages
  <2> QED
    BY <1>3, <2>3, <2>4, <2>5, <2>6, <2>7 DEF Sending, AllSent
<1>6. CASE HandleLoad \/ HandleStore
  BY <1>5, <1>6, PickSub DEF HandleLoad, HandleStore
<1>7. CASE UpdateCallGraph
  <2>1. PICK new \in SUBSET NewTargets :
          /\ edges' = edges \union NewCopyEdges(UNION {c.flow : c \in new})
          /\ cpySrcNodes' = {<<e.src, e.dst>> : e \in NewCopyEdges(UNION {c.flow : c \in new})}
          /\ pc' = IF new # {} THEN "connect" ELSE IF reanalyze THEN "solve" ELSE "done"
    BY <1>7 DEF UpdateCallGraph
  <2> DEFINE copies == NewCopyEdges(UNION {c.flow : c \in new})
  <2>2. /\ \A e \in copies : e.kind = "copy"
        /\ new = {} => copies = {}
    BY DEF NewCopyEdges
  <2>3. edges' = edges \union copies /\ cpySrcNodes' = {<<e.src, e.dst>> : e \in copies}
    BY <2>1
  <2> HIDE DEF copies
  <2>4. pc = "wave" /\ UNCHANGED <<pts, edgesLeft>> /\ pc' \in {"connect", "solve", "done"}
    BY <1>7, <2>1 DEF UpdateCallGraph, SolvePost
  <2>5. Stages'
    <3>1. pc' # "connect" => cpySrcNodes' = {}
      BY <2>1, <2>2, <2>3
    <3> QED
      BY <1>1, <2>4, <3>1 DEF Sending, Stages
  <2>6. SentHeld'
    BY <1>1, <2>4 DEF Sending, SentHeld
  <2>7. \A e \in edges : ~Pending(e)
    BY <2>4 DEF Pending, Sending, Stages
  <2>8. \A e \in copies : Pending(e)'
    BY <2>2, <2>3 DEF Pending
  <2> QED
    BY <1>3, <2>3, <2>4, <2>5, <2>6, <2>7, <2>8 DEF Sending, AllSent
<1>8. CASE ConnectPair
  <2>1. PICK p \in cpySrcNodes : /\ UnionPts(Into(rep[p[2]], pts[rep[p[1]]]))
                                 /\ cpySrcNodes' = cpySrcNodes \ {p}
    BY <1>8, PickSub DEF ConnectPair
  <2>2. pc = "connect" /\ pc' = pc /\ UNCHANGED <<edges, edgesLeft>>
    BY <1>8 DEF ConnectPair
  <2>3. Stages'
    BY <1>1, <2>2 DEF Sending, Stages
  <2>4. \A n \in Node : pts[n] \subseteq pts'[n]
    BY <2>1, UnionGrows
  <2>5. SentHeld'
    BY <1>1, <2>4, SentStillHeld DEF Sending
  <2>6. ASSUME NEW e \in edges, Pending(e), ~Pending(e)' PROVE Delivered(e)'
    <3>1. e.kind = "copy" /\ <<e.src, e.dst>> = p
      BY <2>1, <2>6 DEF Pending
    <3>2. p[1] = e.src /\ p[2] = e.dst
      BY <3>1
    <3>3. e \in Edge /\ e.dst \in Node /\ rep[e.src] = e.src /\ rep[e.dst] = e.dst
      BY DEF GraphOK, Graph, Ends, Reps, TypeOK, Edge
    <3>4. Into(e.dst, pts[e.src])[e.dst] = pts[e.src]
      BY <3>3 DEF Into
    <3>5. pts[e.src] \subseteq pts'[e.dst]
      BY <2>1, <3>2, <3>3, <3>4, UnionGrows
    <3> QED
      BY <1>1, <3>1, <3>3, <3>5, NewEdgeDelivered DEF Sending
  <2> QED
    BY <1>3, <2>2, <2>3, <2>4, <2>5, <2>6 DEF Sending, AllSent
<1>9. CASE FinishCallGraph
  <2>1. UNCHANGED <<edges, pts, cpySrcNodes, edgesLeft>> /\ pc = "connect" /\ pc' = "solve"
        /\ cpySrcNodes = {}
    BY <1>9 DEF FinishCallGraph
  <2>2. Stages'
    BY <1>1, <2>1 DEF Sending, Stages
  <2>3. SentHeld'
    BY <1>1, <2>1 DEF Sending, SentHeld
  <2> QED
    BY <1>3, <2>1, <2>2, <2>3 DEF Sending, AllSent, Pending
<1> QED
  BY <1>4, <1>6, <1>7, <1>8, <1>9
(* Retargeting keeps kind and offset of an edge.                           *)
LEMMA MovedFrom ==
  ASSUME NEW E \in SUBSET Edge, NEW n \in Node, NEW r \in Node, n # r
  PROVE  \A g \in MoveOutEdges(MoveInEdges(E, n, r), n, r) : g \in Edge /\ \E e \in E :
           /\ g.kind = e.kind /\ g.off = e.off
           /\ g.src = (IF e.src = n THEN r ELSE e.src)
           /\ g.dst = (IF e.dst = n THEN r ELSE e.dst)
<1> DEFINE F == MoveInEdges(E, n, r)
           From(g, e) == /\ g.kind = e.kind /\ g.off = e.off
                         /\ g.src = (IF e.src = n THEN r ELSE e.src)
                         /\ g.dst = (IF e.dst = n THEN r ELSE e.dst)
<1>1. \A e \in Edge : /\ [e EXCEPT !.dst = r].src = e.src /\ [e EXCEPT !.dst = r].dst = r
                      /\ [e EXCEPT !.dst = r].kind = e.kind /\ [e EXCEPT !.dst = r].off = e.off
                      /\ [e EXCEPT !.src = r].src = r /\ [e EXCEPT !.src = r].dst = e.dst
                      /\ [e EXCEPT !.src = r].kind = e.kind /\ [e EXCEPT !.src = r].off = e.off
  BY DEF Edge
<1>2. F \subseteq Edge /\ MoveOutEdges(F, n, r) \subseteq Edge
  BY MoveEdgesType
<1>3. ASSUME NEW k \in F
      PROVE  \E e \in E : /\ k.kind = e.kind /\ k.off = e.off /\ k.src = e.src
                          /\ k.dst = IF e.dst = n THEN r ELSE e.dst
  <2>1. (k \in E /\ k.dst # n) \/ \E e \in E : e.dst = n /\ k = [e EXCEPT !.dst = r]
    BY DEF MoveInEdges
  <2> QED
    BY <1>1, <2>1
<1> HIDE DEF F
<1>4. ASSUME NEW g \in MoveOutEdges(F, n, r) PROVE \E e \in E : From(g, e)
  <2>1. (g \in F /\ g.src # n) \/ \E k \in F : k.src = n /\ g = [k EXCEPT !.src = r]
    BY DEF MoveOutEdges
  <2>2. PICK k \in F : /\ g.kind = k.kind /\ g.off = k.off /\ g.dst = k.dst
                       /\ g.src = IF k.src = n THEN r ELSE k.src
    <3>1. CASE g \in F /\ g.src # n
      BY <3>1
    <3>2. CASE \E k \in F : k.src = n /\ g = [k EXCEPT !.src = r]
      <4>1. PICK k \in F : k.src = n /\ g = [k EXCEPT !.src = r]
        BY <3>2
      <4>2. g.kind = k.kind /\ g.off = k.off /\ g.dst = k.dst /\ g.src = r
        BY <1>1, <1>2, <4>1
      <4> QED
        BY <4>1, <4>2
    <3> QED
      BY <2>1, <3>1, <3>2
  <2> QED
    BY <1>3, <2>2
<1> QED
  BY <1>2, <1>4 DEF F

(* mergeNodeToRep(): the root counts as sent only what both nodes have.    *)
LEMMA MergeSends ==
  ASSUME TypeOK, AllSent, SentHeld, Settled, Settled', cpySrcNodes = {},
         fieldInsensitive' = fieldInsensitive, NEW n \in Node, NEW r \in Node, n # r,
         NEW P \in [Node -> SUBSET ObjNode],
         \A x \in Node : Covers(fieldInsensitive, pts[x], P[x]), MergeNodeToRep(n, r, P)
  PROVE  AllSent' /\ SentHeld'
<1>1. /\ edges' = MoveOutEdges(MoveInEdges(edges, n, r), n, r)
      /\ pts' = [P EXCEPT ![r] = @ \union P[n]]
      /\ propa' = [propa EXCEPT ![r] = @ \intersect propa[n]]
  BY DEF MergeNodeToRep, MergedPropa
<1>2. /\ \A x \in Node : P[x] \subseteq pts'[x]
      /\ P[n] \subseteq pts'[r]
      /\ propa'[r] = propa[r] \intersect propa[n]
      /\ \A x \in Node : propa'[x] \subseteq propa[x] /\ propa[x] \subseteq ObjNode
                         /\ pts[x] \in SUBSET ObjNode
  BY <1>1 DEF TypeOK
<1>3. \A x \in Node : Covers(fieldInsensitive, pts[x], pts'[x])
  BY <1>2 DEF Covers
<1>4. Covers(fieldInsensitive, pts[n], pts'[r])
  BY <1>2 DEF Covers
<1>5. ASSUME NEW x \in Node, NEW o \in propa'[x] PROVE Held(fieldInsensitive', pts'[x], o)
  <2>1. o \in ObjNode /\ Held(fieldInsensitive, pts[x], o)
    BY <1>2, <1>5 DEF SentHeld
  <2> QED
    BY <1>2, <1>3, <2>1, HeldMore
<1>6. ASSUME NEW g \in edges', g.kind \in Direct PROVE Delivered(g)'
  <2>1. PICK e \in edges : /\ g.kind = e.kind /\ g.off = e.off
                           /\ g.src = (IF e.src = n THEN r ELSE e.src)
                           /\ g.dst = (IF e.dst = n THEN r ELSE e.dst)
    BY <1>1, <1>6, MovedFrom DEF TypeOK
  <2>2. g \in Edge
    BY <1>1, <1>6, MovedFrom DEF TypeOK
  <2>3. e \in Edge /\ e.src \in Node /\ e.dst \in Node /\ Delivered(e)
    BY <1>6, <2>1 DEF TypeOK, Edge, AllSent, Pending
  <2>4. Covers(fieldInsensitive', Reached(e), Reached(g)')
    <3>1. Reached(e) = pts[e.dst] /\ Reached(g)' = pts'[g.dst]
      BY <1>6, <2>1, <2>2, <2>3 DEF Settled
    <3> QED
      BY <1>3, <1>4, <2>1, <2>3, <3>1
  <2>5. propa'[g.src] \ Unsent(g)' \subseteq propa[e.src] \ Unsent(e)
    <3>1. Unsent(e) = {}
      BY <1>6, <2>1, <2>3 DEF Settled
    <3>2. propa'[g.src] \subseteq propa[e.src]
      BY <1>2, <2>1, <2>3
    <3> QED
      BY <3>1, <3>2
  <2> QED
    BY <2>1, <2>2, <2>3, <2>4, <2>5, DeliveredKept
<1> QED
  BY <1>5, <1>6 DEF AllSent, SentHeld

(* A merge, of a cycle or of a field, counts nothing as sent that is not.  *)
LEMMA MergingSends ==
  ASSUME TypeOK, GraphOK, Sending, MergeSccNode \/ CollapseOneField
  PROVE  Sending'
<1> USE DEF diffVars, fiVars, gepVars, callVars, collapseVars
<1>1. /\ UNCHANGED <<pc, fieldInsensitive, edgesLeft, gep, ptdsLeft, tmpDstPts, cpySrcNodes, collapsing>>
      /\ fieldsLeft' \subseteq fieldsLeft /\ pc \in {"merge", "pwc", "drain"}
  BY DEF MergeSccNode, CollapseOneField, GraphOK, Graph, Merges
<1>2. Stages' /\ cpySrcNodes = {}
  BY <1>1 DEF Sending, Stages
<1>3. Settled /\ Settled'
  BY <1>1, <1>2, NothingUnsent DEF Sending
<1>4. CASE MergeSccNode
  <2>1. PICK p \in merging : MergeNodeToRep(p[1], p[2], pts)
    BY <1>4, PickSub DEF MergeSccNode
  <2>2. p[1] \in Node /\ p[2] \in Node /\ p[1] # p[2]
    BY DEF GraphOK, Graph, Merges, TypeOK
  <2>3. pts \in [Node -> SUBSET ObjNode] /\ \A x \in Node : Covers(fieldInsensitive, pts[x], pts[x])
    BY SubCovers DEF TypeOK
  <2> QED
    BY <1>1, <1>2, <1>3, <2>1, <2>2, <2>3, MergeSends DEF Sending
<1>5. CASE CollapseOneField
  <2>1. PICK f \in fieldsLeft : MergeField(rep[f], rep[collapsing], Redirected(f))
    BY <1>5, PickSub DEF CollapseOneField
  <2> DEFINE P == Redirected(f)
  <2>2. /\ collapsing \in Obj /\ collapsing \in fieldInsensitive /\ ~BlkOrConst(collapsing)
        /\ f \in Field /\ Base(f) = collapsing /\ f \in Node /\ collapsing \in Node
    BY <1>5 DEF CollapseOneField, Sending, Stages, TypeOK, Node, ObjNode
  <2>3. P \in [Node -> SUBSET ObjNode]
    BY <2>2 DEF Redirected, TypeOK, ObjNode
  <2>4. \A x \in Node : Covers(fieldInsensitive, pts[x], P[x])
    BY <2>2 DEF Redirected, Covers
  <2>5. rep[f] \in Node /\ rep[collapsing] \in Node /\ MergeField(rep[f], rep[collapsing], P)
    BY <2>1, <2>2 DEF TypeOK
  <2> HIDE DEF P
  <2>6. CASE rep[f] # rep[collapsing]
    BY <1>1, <1>2, <1>3, <2>3, <2>4, <2>5, <2>6, MergeSends DEF Sending, MergeField
  <2>7. CASE rep[f] = rep[collapsing]
    <3>1. pts' = P /\ propa' = propa /\ edges' = edges
      BY <2>5, <2>7 DEF MergeField, graphVars
    <3>2. SentHeld'
      <4> SUFFICES ASSUME NEW x \in Node, NEW o \in propa[x] PROVE Held(fieldInsensitive, P[x], o)
        BY <1>1, <3>1 DEF SentHeld
      <4>1. o \in ObjNode /\ pts[x] \in SUBSET ObjNode /\ Held(fieldInsensitive, pts[x], o)
        BY DEF TypeOK, Sending, SentHeld
      <4> QED
        BY <2>4, <4>1, HeldMore
    <3>3. ASSUME NEW e \in edges, e.kind \in Direct PROVE Delivered(e)'
      <4>1. e \in Edge /\ e.dst \in Node /\ Delivered(e)
        BY <1>2, <3>3 DEF TypeOK, Edge, Sending, AllSent, Pending
      <4>2. Covers(fieldInsensitive', Reached(e), Reached(e)')
        BY <1>1, <1>3, <2>4, <3>1, <3>3, <4>1 DEF Settled
      <4>3. propa'[e.src] \ Unsent(e)' \subseteq propa[e.src] \ Unsent(e)
        BY <1>3, <3>1, <3>3, <4>1 DEF Settled
      <4> QED
        BY <1>1, <4>1, <4>2, <4>3, DeliveredKept
    <3> QED
      BY <1>2, <3>1, <3>2, <3>3 DEF Sending, AllSent
  <2> QED
    BY <2>6, <2>7
<1> QED
  BY <1>4, <1>5

(* Collapsing only starts on objects that can be collapsed.                *)
LEMMA QuietSends ==
  ASSUME TypeOK, GraphOK, Sending,
         ProcessAllAddr \/ SCCDetect \/ UpdateReps \/ CollapseNext \/ CollapseNodePts
           \/ FinishCollapseField
  PROVE  Sending'
<1> USE DEF graphVars, ptVars, diffVars, fiVars, gepVars, callVars, collapseVars
<1>1. /\ UNCHANGED <<edges, propa, edgesLeft, gep, ptdsLeft, tmpDstPts, cpySrcNodes>>
      /\ pc \in {"addr", "solve", "merge", "pwc", "drain"}
      /\ pc' \in {"solve", "merge", "pwc", "drain", "wave"}
  BY DEF ProcessAllAddr, SCCDetect, UpdateReps, CollapseNext, CollapseNodePts, FinishCollapseField,
         GraphOK, Graph, Merges
<1>2. fieldInsensitive \subseteq fieldInsensitive' /\ \A n \in Node : pts[n] \subseteq pts'[n]
  <2>1. CASE ProcessAllAddr
    <3>1. UnionPts([n \in Node |-> {o \in Obj : <<o, n>> \in prog.addr}])
          /\ fieldInsensitive' = fieldInsensitive
      BY <2>1 DEF ProcessAllAddr
    <3> QED
      BY <3>1, UnionGrows
  <2>2. CASE SCCDetect \/ UpdateReps \/ CollapseNext \/ CollapseNodePts \/ FinishCollapseField
    BY <2>2 DEF SCCDetect, UpdateReps, CollapseNext, CollapseNodePts, FinishCollapseField, CollapseField
  <2> QED
    BY <2>1, <2>2
<1>3. collapsing' # None =>
        /\ collapsing' \in fieldInsensitive' /\ ~BlkOrConst(collapsing')
        /\ \A f \in fieldsLeft' : f \in Field /\ Base(f) = collapsing'
  <2>1. CASE ProcessAllAddr \/ SCCDetect \/ UpdateReps
    <3>1. UNCHANGED <<fieldInsensitive, collapsing, fieldsLeft>>
      BY <2>1 DEF ProcessAllAddr, SCCDetect, UpdateReps
    <3> QED
      BY <3>1 DEF Sending, Stages
  <2>2. CASE CollapseNext \/ CollapseNodePts
    <3>1. collapsing = None /\ (UNCHANGED <<fieldInsensitive, collapsing, fieldsLeft>> \/ \E o : CollapseField(o))
      BY <2>2 DEF CollapseNext, CollapseNodePts
    <3> QED
      BY <3>1 DEF CollapseField
  <2>3. CASE FinishCollapseField
    BY <2>3 DEF FinishCollapseField
  <2> QED
    BY <2>1, <2>2, <2>3
<1>4. Stages'
  BY <1>1, <1>3 DEF Sending, Stages
<1>5. Settled /\ Settled'
  BY <1>1, <1>4, NothingUnsent DEF Sending
<1>6. SentHeld'
  BY <1>1, <1>2, SentStillHeld DEF Sending
<1>7. ASSUME NEW e \in edges, e.kind \in Direct, ~Pending(e) PROVE Delivered(e)'
  <2>1. e \in Edge /\ Delivered(e)
    BY <1>7 DEF Sending, AllSent, TypeOK
  <2> QED
    BY <1>1, <1>2, <1>5, <1>7, <2>1, SettledKept
<1> QED
  BY <1>1, <1>4, <1>6, <1>7 DEF Sending, AllSent, Pending

(* No step counts anything as sent that is not.                            *)
LEMMA StepSends ==
  ASSUME TypeOK, CurOK, GraphOK, Sending, [Next]_vars
  PROVE  Sending'
<1>1. CASE UNCHANGED vars
  BY <1>1 DEF vars, graphVars, ptVars, diffVars, fiVars, gepVars, sccVars, collapseVars, callVars,
              Sending, Stages, AllSent, SentHeld, Delivered, Pending, Unsent, Reached
<1> QED
  BY <1>1, QuietSends, MergingSends, NodeSends, WaveSends, GepSends, PostSends DEF Next, Terminated

(* Nothing is sent at first.                                               *)
LEMMA InitSends == Init => Sending
<1> SUFFICES ASSUME Init PROVE Sending
  OBVIOUS
<1>1. \A n \in Node : propa[n] = {}
  BY DEF Init
<1>2. \A e \in edges : e.src \in Node
  BY ProgramAssumption DEF Init, Program, Edge
<1>3. Stages
  BY DEF Init, Stages
<1> QED
  BY <1>1, <1>2, <1>3 DEF Sending, AllSent, SentHeld, Delivered

(* What counts as sent has arrived, or a handler is about to send it.      *)
LEMMA SendingInvariant == Spec => []Sending
<1>1. TypeOK /\ CurOK /\ GraphOK /\ Sending /\ [Next]_vars => Sending'
  BY StepSends
<1> QED
  BY <1>1, InitSends, TypeCorrect, GraphInvariant, PTL DEF Spec

(* What a node counts as sent has arrived behind each of its edges.        *)
THEOREM SentHasArrived == Spec => []PropagatedArrived
<1>1. TypeOK /\ Sending => PropagatedArrived
  <2> SUFFICES ASSUME TypeOK, Sending,
                      NEW e \in edges \ (edgesLeft \union {gep}), e.kind \in Direct,
                      <<e.src, e.dst>> \notin cpySrcNodes,
                      NEW o \in propa[e.src]
               PROVE  /\ e.kind = "copy" => Holds(e.dst, o)
                      /\ e.kind # "copy" /\ BlkOrConst(Base(o)) => o \in pts[e.dst]
                      /\ e.kind = "ngep" /\ ~BlkOrConst(Base(o)) =>
                           Holds(e.dst, <<Base(o), (Index(o) + e.off) % Limit[Base(o)]>>)
                      /\ e.kind = "vgep" /\ ~BlkOrConst(Base(o)) => Base(o) \in pts[e.dst]
    BY DEF PropagatedArrived, Sent, Direct
  <2>1. Delivered(e) /\ Unsent(e) = {} /\ Reached(e) = pts[e.dst]
    BY DEF Sending, AllSent, Pending, Unsent, Reached
  <2>2. Arrives(fieldInsensitive, pts[e.dst], e, o)
    BY <2>1 DEF Delivered
  <2> QED
    BY <2>2 DEF Arrives, Held, Holds, Moved, Direct
<1>2. TypeOK /\ CurOK /\ GraphOK /\ Sending /\ [Next]_vars => Sending'
  BY StepSends
<1> QED
  BY <1>1, <1>2, InitSends, TypeCorrect, GraphInvariant, PTL DEF Spec-----------------------------------------------------------------------------
(* Collapsing.  A pointer to a field of a field-insensitive object is on   *)
(* its way to be redirected.                                               *)
Queued(o) ==
  o \in Field =>
    /\ ~BlkOrConst(Base(o))
    /\ Base(o) \in fieldInsensitive => \/ Base(o) \in nodesToBeCollapsed
                                       \/ Limit[Base(o)] = 1
                                       \/ Base(o) = collapsing /\ o \in fieldsLeft

AllQueued == \A n \in Node : rep[n] = n => \A o \in pts[n] : Queued(o)

Collapsing ==
  /\ AllQueued
  /\ \A o \in diff \union ptdsLeft \union tmpDstPts : Queued(o)
  /\ pc # "copygep" => diff = {}
  /\ \A p \in cpySrcNodes : p[1] \in nodes

QueueVars == <<fieldInsensitive, nodesToBeCollapsed, collapsing, fieldsLeft>>

(* unionPts() of queued fields.                                            *)
LEMMA UnionQueued ==
  ASSUME AllQueued, NEW D, UnionPts(D), rep' = rep, UNCHANGED QueueVars,
         \A n \in Node : \A o \in D[n] : Queued(o)
  PROVE  AllQueued'
<1>1. \A o : (Queued(o))' = Queued(o)
  BY DEF Queued, QueueVars
<1> QED
  BY <1>1 DEF AllQueued, UnionPts

(* Queued fields that flow into one node only.                             *)
LEMMA IntoQueued ==
  ASSUME NEW d, NEW S, \A o \in S : Queued(o)
  PROVE  \A n \in Node : \A o \in Into(d, S)[n] : Queued(o)
BY DEF Into

(* addCopyEdge() sends on what a representative holds.                     *)
LEMMA AddCopyEdgesQueued ==
  ASSUME TypeOK, AllQueued, NEW P \in SUBSET (Node \X Node), \A p \in P : rep[rep[p[1]]] = rep[p[1]],
         AddCopyEdges(P), rep' = rep, UNCHANGED QueueVars
  PROVE  AllQueued'
<1> DEFINE new == NewCopyEdges(P)
           D == [n \in Node |-> UNION {pts[e.src] : e \in {f \in new : f.dst = n}}]
<1>1. UnionPts(D) /\ new \subseteq Edge
  BY NewCopyEdgesType DEF AddCopyEdges
<1>2. \A e \in new : \E p \in P :
        e = [kind |-> "copy", src |-> rep[p[1]], dst |-> rep[p[2]], off |-> 0]
  BY DEF NewCopyEdges
<1>3. \A e \in new : rep[e.src] = e.src /\ e.src \in Node
  BY <1>1, <1>2 DEF Edge
<1> HIDE DEF new
<1>4. \A n \in Node : \A o \in D[n] : Queued(o)
  BY <1>3 DEF AllQueued
<1> HIDE DEF D
<1> QED
  BY <1>1, <1>4, UnionQueued

(* The wave only sends on what is queued.                                  *)
LEMMA WaveCollapsing ==
  ASSUME TypeOK, CurOK, GraphOK, Sending, Collapsing,
         ProcessNode \/ ProcessPWCNode \/ ResumePWCNode \/ ProcessCopy \/ ProcessGep
           \/ FinishGep \/ FinishCopyGep
  PROVE  Collapsing'
<1> USE DEF graphVars, ptVars, diffVars, fiVars, gepVars, sccVars, collapseVars, callVars
<1>1. /\ UNCHANGED QueueVars /\ UNCHANGED <<nodes, rep, cpySrcNodes>>
      /\ pc \in {"wave", "pwc", "copygep"}
  BY DEF QueueVars, ProcessNode, ProcessPWCNode, ResumePWCNode, ProcessCopy, ProcessGep, FinishGep,
         FinishCopyGep, HandleCopyGep
<1>2. \A o : (Queued(o))' = Queued(o)
  BY <1>1 DEF Queued, QueueVars
<1>3. CASE ProcessNode \/ ResumePWCNode
  <2>1. PICK n \in Node : HandleCopyGep(n)
    <3>1. TopOfStack \subseteq Node
      BY PickSub DEF TopOfStack, TypeOK
    <3> QED
      BY <1>3, <3>1 DEF ProcessNode, ResumePWCNode, CurOK
  <2>2. UNCHANGED <<pts, ptdsLeft, tmpDstPts>> /\ pc # "copygep"
    BY <1>3 DEF ProcessNode, ResumePWCNode
  <2>3. /\ \A o \in diff' : Queued(o)
        /\ pc' # "copygep" => diff' = {}
    BY <2>1, <2>2 DEF HandleCopyGep, Collapsing, AllQueued
  <2> QED
    BY <1>1, <1>2, <2>2, <2>3 DEF Collapsing, AllQueued
<1>4. CASE ProcessPWCNode \/ ProcessGep \/ FinishCopyGep
  <2>1. /\ UNCHANGED <<pts, tmpDstPts>> /\ diff' \subseteq diff /\ ptdsLeft' \subseteq ptdsLeft \union diff
        /\ pc' # "copygep" => diff' = {}
    BY <1>4 DEF ProcessPWCNode, ProcessGep, FinishCopyGep, Collapsing
  <2> QED
    BY <1>1, <1>2, <2>1 DEF Collapsing, AllQueued
<1>5. CASE ProcessCopy \/ FinishGep
  <2>1. PICK d, S : UnionPts(Into(d, S)) /\ S \in {diff, tmpDstPts}
    BY <1>5 DEF ProcessCopy, FinishGep
  <2>2. \A n \in Node : \A o \in Into(d, S)[n] : Queued(o)
    BY <2>1, IntoQueued DEF Collapsing
  <2>3. AllQueued'
    BY <1>1, <2>1, <2>2, UnionQueued DEF Collapsing
  <2>4. UNCHANGED <<diff, pc, ptdsLeft>> /\ tmpDstPts' \subseteq tmpDstPts
    BY <1>5 DEF ProcessCopy, FinishGep
  <2> QED
    BY <1>1, <1>2, <2>3, <2>4 DEF Collapsing
<1> QED
  BY <1>3, <1>4, <1>5

(* A variant gep queues the object it makes field-insensitive.             *)
LEMMA GepCollapsing ==
  ASSUME TypeOK, GraphOK, Sending, Collapsing, GepPtd
  PROVE  Collapsing'
<1> USE DEF ptVars, diffVars, fiVars, sccVars, collapseVars, callVars
<1>1. PICK m \in ptdsLeft : /\ ptdsLeft' = ptdsLeft \ {m}
                            /\ GepBlkOrConst(m) \/ GepVariant(m) \/ GepNormal(m)
  BY PickSub DEF GepPtd
<1>2. UNCHANGED <<pc, rep, diff, gep, cpySrcNodes, collapsing, fieldsLeft>> /\ pc = "copygep"
      /\ gep # None
  BY DEF GepPtd
<1>3. /\ m \in ObjNode /\ Base(m) \in Obj /\ Base(m) \notin Field /\ Base(Base(m)) = Base(m)
      /\ Base(m) \in Node /\ gep.off \in Nat /\ cpySrcNodes = {} /\ Queued(m)
  BY <1>2, BaseType, DisjointAssumption DEF TypeOK, Node, ObjNode, Sending, Stages, Edge, Collapsing
<1>4. CASE GepBlkOrConst(m) \/ GepVariant(m)
  <2>1. \A o : Queued(o) => (Queued(o))'
    BY <1>2, <1>4 DEF GepBlkOrConst, GepVariant, Queued
  <2>2. pts' = pts /\ tmpDstPts' \subseteq tmpDstPts \union {m, Base(m)} /\ Queued(Base(m))
    BY <1>3, <1>4 DEF GepBlkOrConst, GepVariant, Queued
  <2> QED
    BY <1>1, <1>2, <1>3, <2>1, <2>2 DEF Collapsing, AllQueued
<1>5. CASE GepNormal(m)
  <2>1. PICK f \in ObjNode :
          /\ Base(f) = Base(m) /\ f = GepObj(m, gep.off) /\ tmpDstPts' = tmpDstPts \union {f}
          /\ AddCopyEdges(IF gep.off = 0 THEN {<<Base(f), f>>} ELSE {})
    BY <1>3, <1>5, GepObjType DEF GepNormal
  <2> DEFINE P == IF gep.off = 0 THEN {<<Base(f), f>>} ELSE {}
  <2>2. UNCHANGED QueueVars /\ ~BlkOrConst(Base(m))
    BY <1>2, <1>5 DEF GepNormal, QueueVars
  <2>3. P \in SUBSET (Node \X Node) /\ \A p \in P : p[1] = Base(m)
    BY <1>3, <2>1 DEF Node
  <2>4. rep[rep[Base(m)]] = rep[Base(m)]
    <3>1. Fact(m)
      BY DEF GraphOK, Facts
    <3>2. rep[Base(m)] \in nodes
      BY <1>2, <3>1, NamedOnGraph DEF GraphOK, Fact
    <3> QED
      BY <3>2 DEF GraphOK, Graph, Reps
  <2>5. AddCopyEdges(P)
    BY <2>1
  <2> HIDE DEF P
  <2>6. AllQueued'
    BY <1>2, <2>2, <2>3, <2>4, <2>5, AddCopyEdgesQueued DEF Collapsing
  <2>7. \A o : (Queued(o))' = Queued(o)
    BY <2>2 DEF Queued, QueueVars
  <2>8. Queued(f)
    BY <1>3, <2>1, <2>2 DEF GepObj, Queued
  <2> QED
    BY <1>1, <1>2, <1>3, <2>1, <2>6, <2>7, <2>8 DEF Collapsing
<1> QED
  BY <1>1, <1>4, <1>5

(* collapseField() starts on all fields that have a node.                  *)
LEMMA CollapseStarts ==
  ASSUME TypeOK, GraphOK, Sending, Collapsing,
         CollapseNext \/ CollapseNodePts \/ FinishCollapseField
  PROVE  Collapsing'
<1> USE DEF graphVars, ptVars, diffVars, fiVars, gepVars, callVars, sccVars, collapseVars
<1>1. /\ UNCHANGED <<nodes, rep, pts, diff, ptdsLeft, tmpDstPts, cpySrcNodes>>
      /\ pc \in {"pwc", "drain"}
  BY DEF CollapseNext, CollapseNodePts, FinishCollapseField, GraphOK, Graph, Merges
<1>2. diff = {} /\ ptdsLeft = {} /\ tmpDstPts = {}
  BY <1>1 DEF Collapsing, Sending, Stages
<1>3. SUFFICES ASSUME NEW n \in Node, rep[n] = n, NEW o \in pts[n], o \in Field PROVE (Queued(o))'
  BY <1>1, <1>2 DEF Collapsing, AllQueued, Queued
<1>4. /\ Queued(o) /\ o \in ObjNode /\ o \in Node /\ Base(o) \in Obj
      /\ o \in nodes \/ rep[o] # o
  <2>1. Queued(o) /\ o \in ObjNode /\ o \in Node /\ Base(o) \in Obj
    BY <1>3, BaseType DEF Collapsing, AllQueued, TypeOK, Node
  <2>2. Fact(o)
    BY <1>3 DEF GraphOK, Facts
  <2>3. rep[o] \in nodes
    BY <1>1, <2>2, NamedOnGraph DEF GraphOK, Fact
  <2> QED
    BY <2>1, <2>3
<1>5. None \notin Obj
  BY NoneAssumption DEF Node, ObjNode
<1>6. ASSUME NEW c \in Obj, collapsing = None, CollapseField(c),
             \/ nodesToBeCollapsed' = nodesToBeCollapsed \ {c}
             \/ nodesToBeCollapsed' = nodesToBeCollapsed
      PROVE  (Queued(o))'
  BY <1>3, <1>4, <1>5, <1>6 DEF Queued, CollapseField
<1>7. CASE CollapseNext
  <2>1. CASE nodesToBeCollapsed = {}
    BY <1>4, <1>7, <2>1 DEF CollapseNext, Queued
  <2>2. CASE nodesToBeCollapsed # {}
    <3>1. PICK c \in nodesToBeCollapsed :
            nodesToBeCollapsed' = nodesToBeCollapsed \ {c} /\ CollapseField(c)
      BY <1>7, <2>2, PickSub DEF CollapseNext
    <3> QED
      BY <1>6, <1>7, <3>1 DEF CollapseNext, TypeOK
  <2> QED
    BY <2>1, <2>2
<1>8. CASE CollapseNodePts
  <2> DEFINE left == {m \in frames[Len(frames)] : Base(m) \notin fieldInsensitive}
  <2>1. CASE left = {}
    BY <1>4, <1>8, <2>1 DEF CollapseNodePts, Queued
  <2>2. CASE left # {}
    <3>1. PICK m \in left : CollapseField(Base(m))
      BY <1>8, <2>2, PickSub DEF CollapseNodePts
    <3>2. Base(m) \in Obj
      <4>1. frames \in Seq(SUBSET ObjNode) /\ Len(frames) \in 1..Len(frames)
        BY <1>8 DEF CollapseNodePts, TypeOK
      <4>2. m \in ObjNode
        BY <3>1, <4>1
      <4> QED
        BY <4>2, BaseType
    <3> QED
      BY <1>6, <1>8, <3>1, <3>2 DEF CollapseNodePts
  <2> QED
    BY <2>1, <2>2
<1>9. CASE FinishCollapseField
  BY <1>4, <1>9 DEF FinishCollapseField, Queued
<1> QED
  BY <1>7, <1>8, <1>9

(* One field collapsed: no representative points to it any more.           *)
LEMMA CollapseRedirects ==
  ASSUME TypeOK, GraphOK, Holders, Sending, Collapsing, CollapseOneField
  PROVE  Collapsing'
<1> USE DEF diffVars, fiVars, gepVars, callVars
<1>1. PICK f \in fieldsLeft : /\ fieldsLeft' = fieldsLeft \ {f}
                              /\ MergeField(rep[f], rep[collapsing], Redirected(f))
  BY PickSub DEF CollapseOneField
<1> DEFINE n == rep[f]
           r == rep[collapsing]
           P == Redirected(f)
<1>2. /\ UNCHANGED <<pc, fieldInsensitive, nodesToBeCollapsed, collapsing, diff, ptdsLeft, tmpDstPts,
                     cpySrcNodes>>
      /\ collapsing # None /\ pc \in {"pwc", "drain"}
  BY DEF CollapseOneField, GraphOK, Graph, Merges
<1>3. diff = {} /\ ptdsLeft = {} /\ tmpDstPts = {} /\ cpySrcNodes = {}
  BY <1>2 DEF Collapsing, Sending, Stages
<1>4. /\ collapsing \in Obj /\ collapsing \notin Field /\ collapsing \in Named(prog)
      /\ f \in Node /\ f \in Field /\ f \in ObjNode /\ Resolved(f)
  BY <1>2, DisjointAssumption DEF TypeOK, Node, ObjNode, GraphOK, Facts
<1>5. n \in nodes /\ r \in nodes /\ n \in Node /\ r \in Node /\ rep[n] = n /\ rep[r] = r
  BY <1>2, <1>4, NamedOnGraph DEF GraphOK, Graph, Reps, TypeOK
<1>6. P \in [Node -> SUBSET ObjNode]
  BY <1>4 DEF Redirected, TypeOK, ObjNode
<1>7. ASSUME NEW x \in Node, rep[x] = x, NEW o \in P[x]
      PROVE  o \in Field => o # f /\ o \in pts[x]
  <2>1. CASE x \in {rep[y] : y \in revPts[f]}
    BY <1>4, <2>1 DEF Redirected
  <2>2. CASE x \notin {rep[y] : y \in revPts[f]}
    <3>1. f \notin pts[x]
      BY <1>4, <1>7, <2>2 DEF Holders
    <3> QED
      BY <2>2, <3>1 DEF Redirected
  <2> QED
    BY <2>1, <2>2
<1>8. \A x \in Node : rep'[x] = x => /\ rep[x] = x
                                    /\ pts'[x] \subseteq P[x] \union (IF x = r THEN P[n] ELSE {})
  <2> HIDE DEF n, r, P
  <2>1. CASE n = r
    BY <1>1, <2>1 DEF MergeField, graphVars, n, r, P
  <2>2. CASE n # r
    <3>1. /\ MergeNodeToRep(n, r, P)
          /\ \A x \in Node : rep'[x] = IF x = n \/ x \in subs[n] THEN r ELSE rep[x]
      BY <1>1, <1>5, <2>2 DEF MergeField, TypeOK, n, r, P
    <3>2. pts' = [P EXCEPT ![r] = @ \union P[n]]
      BY <3>1 DEF MergeNodeToRep
    <3> QED
      BY <1>5, <1>6, <3>1, <3>2
  <2> QED
    BY <2>1, <2>2
<1>9. ASSUME NEW x \in Node, rep'[x] = x, NEW o \in pts'[x] PROVE (Queued(o))'
  <2>1. o \in Field => o # f /\ \E y \in {x, n} : rep[y] = y /\ y \in Node /\ o \in pts[y]
    <3>1. rep[x] = x /\ (o \in P[x] \/ o \in P[n])
      BY <1>8, <1>9
    <3> HIDE DEF n, P
    <3> QED
      BY <1>5, <1>7, <3>1
  <2>2. o \in Field => o # f /\ Queued(o)
    BY <2>1 DEF Collapsing, AllQueued
  <2> QED
    BY <1>1, <1>2, <2>2 DEF Queued
<1> QED
  BY <1>2, <1>3, <1>9 DEF Collapsing, AllQueued

(* The steps that collapse nothing.                                        *)
LEMMA OtherCollapsing ==
  ASSUME TypeOK, CurOK, GraphOK, Sending, Collapsing,
         ProcessAllAddr \/ SCCDetect \/ MergeSccNode \/ UpdateReps \/ PopFromWorklist \/ HandleLoad
           \/ HandleStore \/ UpdateCallGraph \/ ConnectPair \/ FinishCallGraph
  PROVE  Collapsing'
<1> USE DEF ptVars, diffVars, fiVars, gepVars, sccVars, collapseVars, callVars
<1>1. /\ UNCHANGED QueueVars /\ UNCHANGED <<diff, ptdsLeft, tmpDstPts>>
      /\ pc # "copygep" /\ pc' # "copygep"
  BY DEF QueueVars, ProcessAllAddr, SCCDetect, MergeSccNode, UpdateReps, PopFromWorklist, HandleLoad,
         HandleStore, HandleEdge, UpdateCallGraph, ConnectPair, FinishCallGraph, SolvePost
<1>2. \A o : (Queued(o))' = Queued(o)
  BY <1>1 DEF Queued, QueueVars
<1>3. \A x \in nodes : rep[x] = x
  BY DEF GraphOK, Graph, Reps
<1>4. pc # "connect" => cpySrcNodes = {}
  BY DEF Sending, Stages
<1>5. CASE ProcessAllAddr
  <2> DEFINE D == [n \in Node |-> {o \in Obj : <<o, n>> \in prog.addr}]
  <2>1. UnionPts(D) /\ UNCHANGED <<rep, cpySrcNodes, nodes>>
    BY <1>5 DEF ProcessAllAddr, graphVars
  <2>2. \A n \in Node : \A o \in D[n] : Queued(o)
    BY DisjointAssumption DEF Queued
  <2> HIDE DEF D
  <2> QED
    BY <1>1, <1>2, <2>1, <2>2, UnionQueued DEF Collapsing
<1>6. CASE SCCDetect \/ PopFromWorklist \/ FinishCallGraph
  <2>1. UNCHANGED <<nodes, rep, pts, cpySrcNodes>>
    BY <1>6 DEF SCCDetect, PopFromWorklist, FinishCallGraph, graphVars
  <2> QED
    BY <1>1, <1>2, <2>1 DEF Collapsing, AllQueued
<1>7. CASE MergeSccNode
  <2>1. PICK p \in merging :
          MergeNodeToRep(p[1], p[2], pts) /\ rep' = [rep EXCEPT ![p[1]] = p[2]]
    BY <1>7, PickSub DEF MergeSccNode
  <2>2. p[1] \in Node /\ p[2] \in Node /\ p[1] # p[2] /\ rep[p[1]] = p[1] /\ rep[p[2]] = p[2]
        /\ pc = "merge" /\ cpySrcNodes' = cpySrcNodes
    BY <1>7 DEF MergeSccNode, GraphOK, Graph, Merges, Reps, TypeOK
  <2>3. pts' = [pts EXCEPT ![p[2]] = @ \union pts[p[1]]]
    BY <2>1 DEF MergeNodeToRep
  <2>4. AllQueued'
    BY <1>2, <2>1, <2>2, <2>3 DEF Collapsing, AllQueued, TypeOK
  <2> QED
    BY <1>1, <1>2, <1>4, <2>2, <2>4 DEF Collapsing
<1>8. CASE UpdateReps
  <2>1. UNCHANGED <<nodes, pts, cpySrcNodes>> /\ pc = "merge"
    BY <1>8 DEF UpdateReps
  <2>2. ASSUME NEW x \in Node, rep'[x] = x PROVE rep[x] = x
    <3>1. CASE \E c \in changedReps : x \in subs[c]
      <4>1. PICK c \in changedReps : rep'[x] = rep[c]
        BY <1>8, <3>1 DEF UpdateReps
      <4>2. c \notin nodes /\ rep[c] \in nodes
        BY <1>8 DEF UpdateReps, GraphOK, Graph, Merges
      <4> QED
        BY <1>3, <2>2, <4>1, <4>2
    <3>2. CASE ~\E c \in changedReps : x \in subs[c]
      BY <1>8, <2>2, <3>2 DEF UpdateReps
    <3> QED
      BY <3>1, <3>2
  <2> QED
    BY <1>1, <1>2, <2>1, <2>2 DEF Collapsing, AllQueued
<1>9. ASSUME NEW e \in edgesLeft, pc = "post", HandleEdge(e) PROVE Collapsing'
  <2> DEFINE new == {o \in pts[cur] : <<e, o>> \notin cache}
             P == {IF e.kind = "load" THEN <<o, e.dst>> ELSE <<e.src, o>> :
                     o \in {m \in new : ~NoCopy(m)}}
  <2>1. AddCopyEdges(P) /\ UNCHANGED <<nodes, rep, cpySrcNodes>>
    BY <1>9 DEF HandleEdge
  <2>2. cur \in Node /\ e.src \in Node /\ e.dst \in Node /\ rep[e.src] \in nodes
    BY <1>9, NamedOnGraph DEF CurOK, TypeOK, Edge, GraphOK, Facts
  <2>3. \A o \in new : o \in Node /\ rep[o] \in nodes
    BY <1>9, <2>2, NamedOnGraph DEF TypeOK, Node, GraphOK, Facts, Fact
  <2> HIDE DEF new
  <2>4. P \in SUBSET (Node \X Node) /\ \A p \in P : rep[p[1]] \in nodes
    BY <2>2, <2>3
  <2> HIDE DEF P
  <2>5. AllQueued'
    BY <1>1, <1>3, <2>1, <2>4, AddCopyEdgesQueued DEF Collapsing
  <2> QED
    BY <1>1, <1>2, <2>1, <2>5 DEF Collapsing
<1>10. CASE HandleLoad \/ HandleStore
  BY <1>9, <1>10, PickSub DEF HandleLoad, HandleStore
<1>11. CASE UpdateCallGraph
  <2>1. UNCHANGED <<nodes, rep, pts>>
        /\ \A p \in cpySrcNodes' : \E e \in edges' : p = <<e.src, e.dst>>
    BY <1>11 DEF UpdateCallGraph
  <2>2. Ends'
    BY <1>11, PostGraph DEF GraphOK, Graph
  <2>3. \A p \in cpySrcNodes' : p[1] \in nodes'
    BY <2>1, <2>2 DEF Ends
  <2> QED
    BY <1>1, <1>2, <2>1, <2>3 DEF Collapsing, AllQueued
<1>12. CASE ConnectPair
  <2>1. PICK p \in cpySrcNodes : /\ UnionPts(Into(rep[p[2]], pts[rep[p[1]]]))
                                 /\ cpySrcNodes' = cpySrcNodes \ {p}
    BY <1>12, PickSub DEF ConnectPair
  <2>2. UNCHANGED <<nodes, rep>> /\ rep[p[1]] = p[1] /\ p[1] \in Node
    BY <1>3, <1>12 DEF ConnectPair, graphVars, Collapsing, TypeOK
  <2>3. \A o \in pts[rep[p[1]]] : Queued(o)
    BY <2>2 DEF Collapsing, AllQueued
  <2>4. AllQueued'
    BY <1>1, <2>1, <2>2, <2>3, IntoQueued, UnionQueued DEF Collapsing
  <2> QED
    BY <1>1, <1>2, <2>1, <2>2, <2>4 DEF Collapsing
<1> QED
  BY <1>5, <1>6, <1>7, <1>8, <1>10, <1>11, <1>12

(* Every step keeps the fields of collapsed objects queued.                *)
LEMMA StepCollapsing ==
  ASSUME TypeOK, CurOK, GraphOK, Holders, Sending, Collapsing, [Next]_vars
  PROVE  Collapsing'
<1>1. CASE UNCHANGED vars
  BY <1>1 DEF vars, graphVars, ptVars, diffVars, fiVars, gepVars, sccVars, collapseVars, callVars,
              Collapsing, AllQueued, Queued
<1> QED
  BY <1>1, WaveCollapsing, GepCollapsing, CollapseStarts, CollapseRedirects, OtherCollapsing
  DEF Next, Terminated

(* Between two handlers no node points to a field of a collapsed object,   *)
(* whatever has been merged, sent or redirected in between.                *)
THEOREM CollapseIsComplete == Spec => []CollapsedEverywhere
<1>1. Init => Collapsing
  BY DEF Init, Collapsing, AllQueued
<1>2. TypeOK /\ CurOK /\ GraphOK /\ Holders /\ Sending /\ Collapsing /\ [Next]_vars => Collapsing'
  BY StepCollapsing
<1>3. TypeOK /\ GraphOK /\ Collapsing => CollapsedEverywhere
  <2> SUFFICES ASSUME TypeOK, GraphOK, Collapsing, pc \in {"wave", "post", "done"}, NEW n \in nodes,
                      NEW o \in pts[n] \intersect Field, Base(o) \in fieldInsensitive
               PROVE  Base(o) \in nodesToBeCollapsed \/ Limit[Base(o)] = 1
    BY DEF CollapsedEverywhere
  <2>1. n \in Node /\ rep[n] = n /\ collapsing = None
    BY DEF GraphOK, Graph, Merges, Reps, TypeOK
  <2>2. Base(o) # None
    BY NoneAssumption DEF TypeOK, Node, ObjNode
  <2> QED
    BY <2>1, <2>2 DEF Collapsing, AllQueued, Queued
<1> QED
  BY <1>1, <1>2, <1>3, TypeCorrect, GraphInvariant, SendingInvariant, PTL DEF Spec-----------------------------------------------------------------------------
(* Caches.  Where n is now, also while a cycle is being merged, and what   *)
(* needs no further copy edge.                                             *)
Now(n) == rep[rep[n]]
Joined(m, n) == m = n \/ HasEdge(edges, "copy", m, n)

Cached ==
  /\ pc = "post" => edgesLeft \subseteq edges
  /\ \A c \in cache : c[1] \in edges /\ Resolved(c[2])
  /\ \A c \in cache : NoCopy(c[2]) \/
       IF c[1].kind = "load" THEN Joined(Now(c[2]), c[1].dst) ELSE Joined(c[1].src, Now(c[2]))

(* A resolved node is somewhere on the graph.                              *)
LEMMA NowOnGraph ==
  ASSUME TypeOK, GraphOK, NEW x \in Node, Resolved(x)
  PROVE  Now(x) \in nodes /\ (rep[x] \in nodes => Now(x) = rep[x])
BY DEF GraphOK, Graph, Reps, Merges, Resolved, Now

(* Retargeting keeps the copy edge of a pair, or makes the pair one node.  *)
LEMMA MoveJoins ==
  ASSUME NEW E \in SUBSET Edge, NEW n \in Node, NEW r \in Node, n # r, rep[r] = r, rep[n] = n,
         \A e \in E : rep[e.src] = e.src /\ rep[e.dst] = e.dst,
         NEW i \in Node, NEW j \in Node, HasEdge(E, "copy", i, j)
  PROVE  LET a == IF i = n THEN r ELSE i
             b == IF j = n THEN r ELSE j
         IN a = b \/ HasEdge(MoveOutEdges(MoveInEdges(E, n, r), n, r), "copy", a, b)
<1> DEFINE a == IF i = n THEN r ELSE i
           b == IF j = n THEN r ELSE j
           F == MoveInEdges(E, n, r)
           G == MoveOutEdges(F, n, r)
<1>1. \A e \in Edge : /\ [e EXCEPT !.dst = r].src = e.src /\ [e EXCEPT !.dst = r].dst = r
                      /\ [e EXCEPT !.dst = r].kind = e.kind
                      /\ [e EXCEPT !.src = r].src = r /\ [e EXCEPT !.src = r].dst = e.dst
                      /\ [e EXCEPT !.src = r].kind = e.kind
  BY DEF Edge
<1>2. F \subseteq Edge
  BY MoveEdgesType
<1>3. PICK e \in E : e.kind = "copy" /\ e.src = i /\ e.dst = j
  BY DEF HasEdge
<1>4. i = b \/ HasEdge(F, "copy", i, b)
  <2>1. CASE j # n
    BY <1>3, <2>1 DEF MoveInEdges, HasEdge
  <2>2. CASE j = n /\ i # r
    <3>1. CASE HasEdge(E, "copy", i, r)
      <4>1. PICK k \in E : k.kind = "copy" /\ k.src = i /\ k.dst = r
        BY <3>1 DEF HasEdge
      <4>2. k \in F
        BY <4>1 DEF MoveInEdges
      <4> QED
        BY <2>2, <4>1, <4>2 DEF HasEdge
    <3>2. CASE ~HasEdge(E, "copy", i, r)
      <4>1. [e EXCEPT !.dst = r] \in F
        BY <1>3, <2>2, <3>2 DEF MoveInEdges
      <4> QED
        BY <1>1, <1>3, <2>2, <4>1 DEF HasEdge
    <3> QED
      BY <3>1, <3>2
  <2> QED
    BY <2>1, <2>2
<1>5. \A k \in F : rep[k.dst] = k.dst /\ k.dst # n
  <2>1. \A k \in F : (k \in E /\ k.dst # n) \/ \E g \in E : k = [g EXCEPT !.dst = r]
    BY DEF MoveInEdges
  <2> HIDE DEF F
  <2> SUFFICES ASSUME NEW k \in F PROVE rep[k.dst] = k.dst /\ k.dst # n
    OBVIOUS
  <2>2. CASE k \in E /\ k.dst # n
    BY <2>2
  <2>3. ASSUME NEW g \in E, k = [g EXCEPT !.dst = r] PROVE rep[k.dst] = k.dst /\ k.dst # n
    <3>1. k.dst = r
      BY <1>1, <2>3
    <3> QED
      BY <3>1
  <2> QED
    BY <2>1, <2>2, <2>3
<1> HIDE DEF F
<1>6. ASSUME HasEdge(F, "copy", i, b) PROVE a = b \/ HasEdge(G, "copy", a, b)
  <2>1. PICK k \in F : k.kind = "copy" /\ k.src = i /\ k.dst = b
    BY <1>6 DEF HasEdge
  <2>2. CASE i # n
    BY <2>1, <2>2 DEF MoveOutEdges, HasEdge
  <2>3. CASE i = n /\ b # r
    <3>1. CASE HasEdge(F, "copy", r, b)
      <4>1. PICK g \in F : g.kind = "copy" /\ g.src = r /\ g.dst = b
        BY <3>1 DEF HasEdge
      <4>2. g \in G
        BY <4>1 DEF MoveOutEdges
      <4> QED
        BY <2>3, <4>1, <4>2 DEF HasEdge
    <3>2. CASE ~HasEdge(F, "copy", r, b)
      <4>1. [k EXCEPT !.src = r] \in G
        BY <1>5, <2>1, <2>3, <3>2 DEF MoveOutEdges
      <4>2. /\ [k EXCEPT !.src = r].kind = "copy" /\ [k EXCEPT !.src = r].src = r
            /\ [k EXCEPT !.src = r].dst = b
        BY <1>1, <1>2, <2>1
      <4>3. a = r
        BY <2>3
      <4> HIDE DEF G, a, b
      <4> QED
        BY <4>1, <4>2, <4>3 DEF HasEdge
    <3> QED
      BY <3>1, <3>2
  <2> QED
    BY <2>2, <2>3
<1>7. CASE i = b
  BY <1>7
<1> QED
  BY <1>4, <1>6, <1>7 DEF F

(* Merging n into r keeps what joins two nodes.                            *)
To(n, r, x) == IF x = n THEN r ELSE x
(* After a merge, ends that were joined are joined.                        *)
LEMMA MergeJoins ==
  ASSUME TypeOK, GraphOK, NEW n \in nodes, NEW r \in nodes, n # r, NEW P, MergeNodeToRep(n, r, P),
         NEW i \in Node, NEW j \in Node, Joined(i, j)
  PROVE  \/ To(n, r, i) = To(n, r, j)
         \/ HasEdge(edges', "copy", To(n, r, i), To(n, r, j))
<1>1. edges' = MoveOutEdges(MoveInEdges(edges, n, r), n, r)
  BY DEF MergeNodeToRep
<1>2. n \in Node /\ r \in Node /\ rep[n] = n /\ rep[r] = r
      /\ \A e \in edges : rep[e.src] = e.src /\ rep[e.dst] = e.dst
  BY DEF GraphOK, Graph, Reps, Ends, TypeOK
<1>3. CASE HasEdge(edges, "copy", i, j)
  BY <1>1, <1>2, <1>3, MoveJoins DEF To, TypeOK
<1> QED
  BY <1>3 DEF Joined

(* mergeSccNodes(): where every node is, once one has gone into its root.  *)
LEMMA SccMoves ==
  ASSUME TypeOK, GraphOK, MergeSccNode
  PROVE  \E n, r \in nodes :
           /\ n # r /\ MergeNodeToRep(n, r, pts)
           /\ rep' = [rep EXCEPT ![n] = r] /\ subs' = [subs EXCEPT ![r] = @ \union {n}]
           /\ \A x \in Node : (Now(x))' = To(n, r, Now(x))
<1>1. PICK p \in merging :
        /\ MergeNodeToRep(p[1], p[2], pts)
        /\ rep' = [rep EXCEPT ![p[1]] = p[2]]
        /\ subs' = [subs EXCEPT ![p[2]] = @ \union {p[1]}]
  BY PickSub DEF MergeSccNode
<1> DEFINE n == p[1]
           r == p[2]
<1>2. n \in nodes /\ n \in changedReps /\ r \in nodes /\ r \notin changedReps /\ n # r
  BY DEF GraphOK, Graph, Merges
<1>3. /\ \A x \in Node : rep[x] \in Node
      /\ \A x \in nodes : rep[x] = x /\ x \in Node
      /\ \A x \in Node : rep[x] # x => Resolved(x)
      /\ \A c \in changedReps : c \in nodes \/ rep[c] \notin changedReps
  BY DEF TypeOK, GraphOK, Graph, Reps, Merges
<1>4. /\ MergeNodeToRep(n, r, pts) /\ rep' = [rep EXCEPT ![n] = r]
      /\ subs' = [subs EXCEPT ![r] = @ \union {n}]
  BY <1>1
<1> HIDE DEF n, r
<1>5. \A y \in Node : rep'[y] = IF y = n THEN r ELSE rep[y]
  BY <1>4 DEF TypeOK
<1>6. ASSUME NEW x \in Node PROVE (Now(x))' = To(n, r, Now(x))
  <2>1. CASE rep[x] = n
    BY <1>2, <1>3, <1>5, <2>1 DEF Now, To
  <2>2. CASE rep[x] # n
    <3>1. x # n
      BY <1>2, <1>3, <2>2
    <3>2. rep'[x] = rep[x] /\ rep'[rep[x]] = rep[rep[x]]
      BY <1>3, <1>5, <2>2, <3>1
    <3>3. rep[rep[x]] # n
      <4>1. CASE rep[x] \in nodes \/ rep[x] = x
        BY <1>3, <2>2, <4>1
      <4>2. CASE rep[x] \notin nodes /\ rep[x] # x
        BY <1>2, <1>3, <4>2 DEF Resolved
      <4> QED
        BY <4>1, <4>2
    <3> QED
      BY <3>2, <3>3 DEF Now, To
  <2> QED
    BY <2>1, <2>2
<1> QED
  BY <1>2, <1>4, <1>6

(* updateNodeRepAndSubs() only shortens the way to the root.               *)
LEMMA UpdateMoves ==
  ASSUME TypeOK, GraphOK, UpdateReps
  PROVE  \A x \in Node : (Now(x))' = Now(x)
<1>1. /\ \A x \in Node : subs[x] \subseteq Node /\ rep[x] \in Node
      /\ \A x \in nodes : rep[x] = x /\ x \in Node
      /\ \A x \in Node : x \in subs[rep[x]]
      /\ \A x \in Node : rep[x] # x => Resolved(x)
  BY DEF TypeOK, GraphOK, Graph, Reps
<1>2. merging = {}
  BY DEF UpdateReps
<1>3. \A c \in changedReps : c \notin nodes /\ rep[c] \in nodes /\ c \in Node
  BY <1>2 DEF GraphOK, Graph, Merges
<1>4. \A x \in Node : (~\E c \in changedReps : x \in subs[c]) => rep'[x] = rep[x]
  BY DEF UpdateReps
<1>5. \A c \in changedReps : \A m \in subs[c] : m = c \/ rep[m] = c
  BY <1>3 DEF GraphOK, Graph, Reps
<1>6. ASSUME NEW x \in nodes PROVE rep'[x] = x
  <2>1. ~\E c \in changedReps : x \in subs[c]
    BY <1>1, <1>3, <1>5
  <2> QED
    BY <1>1, <1>4, <2>1
<1>7. ASSUME NEW x \in Node PROVE (Now(x))' = Now(x)
  <2>1. CASE \E c \in changedReps : x \in subs[c]
    <3>1. PICK c \in changedReps : x \in subs[c] /\ rep'[x] = rep[c]
      <4>1. rep'[x] = rep[CHOOSE c \in changedReps : x \in subs[c]]
        BY <2>1 DEF UpdateReps
      <4> QED
        BY <2>1, <4>1
    <3> QED
      BY <1>1, <1>3, <1>5, <1>6, <3>1 DEF Now
  <2>2. CASE ~\E c \in changedReps : x \in subs[c]
    <3>1. rep'[x] = rep[x]
      BY <1>4, <2>2
    <3>2. rep[x] \notin changedReps
      BY <1>1, <2>2
    <3>3. rep[x] \in nodes \/ rep[x] = x
      BY <1>1, <3>2 DEF Resolved
    <3> QED
      BY <1>1, <1>6, <3>1, <3>3 DEF Now
  <2> QED
    BY <2>1, <2>2
<1> QED
  BY <1>7

(* collapseField(): where every node is, once a field has gone.            *)
LEMMA FieldMoves ==
  ASSUME TypeOK, GraphOK, CollapseOneField
  PROVE  \E f \in fieldsLeft :
           \/ /\ rep[f] = rep[collapsing] /\ pts' = Redirected(f)
              /\ UNCHANGED <<revPts, propa, cache, graphVars>>
           \/ /\ rep[f] \in nodes /\ rep[collapsing] \in nodes /\ rep[f] # rep[collapsing]
              /\ MergeNodeToRep(rep[f], rep[collapsing], Redirected(f))
              /\ subs' = [subs EXCEPT ![rep[collapsing]] = @ \union {rep[f]} \union subs[rep[f]]]
              /\ \A x \in Node : (Now(x))' = To(rep[f], rep[collapsing], Now(x))
<1>1. PICK f \in fieldsLeft : MergeField(rep[f], rep[collapsing], Redirected(f))
  BY PickSub DEF CollapseOneField
<1> DEFINE n == rep[f]
           r == rep[collapsing]
<1>2. /\ pc # "merge" /\ changedReps = {} /\ f \in Node /\ Resolved(f)
      /\ collapsing \in Named(prog) /\ collapsing \in Node
  BY DEF CollapseOneField, GraphOK, Graph, Merges, Facts, TypeOK, Node, ObjNode
<1>3. n \in nodes /\ r \in nodes
  BY <1>2, NamedOnGraph DEF GraphOK
<1>4. /\ \A x \in nodes : rep[x] = x /\ x \in Node
      /\ \A x \in Node : rep[x] \in Node /\ x \in subs[rep[x]]
      /\ \A x \in Node : rep[x] # x => rep[x] \in nodes
  BY <1>2 DEF GraphOK, Graph, Reps, Resolved, TypeOK
<1>5. MergeField(n, r, Redirected(f))
  BY <1>1
<1> HIDE DEF n, r
<1>6. CASE n = r
  BY <1>5, <1>6 DEF MergeField, n, r
<1>7. CASE n # r
  <2>1. /\ MergeNodeToRep(n, r, Redirected(f))
        /\ subs' = [subs EXCEPT ![r] = @ \union {n} \union subs[n]]
        /\ \A x \in Node : rep'[x] = IF x = n \/ x \in subs[n] THEN r ELSE rep[x]
    BY <1>5, <1>7 DEF MergeField
  <2>2. \A x \in subs[n] : rep[x] = n
    BY <1>2, <1>3, <1>4 DEF GraphOK, Graph, Reps
  <2>3. \A x \in Node : rep'[x] = To(n, r, rep[x])
    BY <1>3, <1>4, <2>1, <2>2 DEF To
  <2>4. \A x \in Node : Now(x) = rep[x]
    BY <1>4 DEF Now
  <2>5. \A x \in Node : (Now(x))' = rep'[rep'[x]]
    BY DEF Now
  <2>6. ASSUME NEW x \in Node PROVE (Now(x))' = To(n, r, Now(x))
    <3>1. rep[x] \in Node /\ rep[rep[x]] = rep[x] /\ rep[r] = r /\ r \in Node
      BY <1>3, <1>4
    <3> QED
      BY <1>7, <2>3, <2>4, <2>5, <3>1 DEF To
  <2> QED
    BY <1>3, <1>7, <2>1, <2>6 DEF n, r
<1> QED
  BY <1>6, <1>7

(* Two nodes that a copy edge joins stay joined, wherever merging takes    *)
(* them.                                                                   *)
LEMMA StaysJoined ==
  ASSUME TypeOK, GraphOK, [Next]_vars, NEW x \in Node, NEW y \in Node, Joined(Now(x), Now(y))
  PROVE  (Joined(Now(x), Now(y)))'
<1> USE DEF graphVars, diffVars
<1>1. ASSUME rep' = rep, edges \subseteq edges' PROVE (Joined(Now(x), Now(y)))'
  BY <1>1 DEF Joined, HasEdge, Now
<1>2. Now(x) \in Node /\ Now(y) \in Node
  BY DEF Now, TypeOK
<1>3. ASSUME NEW n \in nodes, NEW r \in nodes, n # r, NEW P, MergeNodeToRep(n, r, P),
             \A z \in Node : (Now(z))' = To(n, r, Now(z))
      PROVE  (Joined(Now(x), Now(y)))'
  <2>1. \/ To(n, r, Now(x)) = To(n, r, Now(y))
        \/ HasEdge(edges', "copy", To(n, r, Now(x)), To(n, r, Now(y)))
    BY <1>2, <1>3, MergeJoins
  <2>2. (Now(x))' = To(n, r, Now(x)) /\ (Now(y))' = To(n, r, Now(y))
    BY <1>3
  <2> QED
    BY <2>1, <2>2 DEF Joined
<1>4. CASE MergeSccNode
  BY <1>3, <1>4, SccMoves
<1>5. CASE CollapseOneField
  <2>1. PICK f \in fieldsLeft :
          \/ UNCHANGED graphVars
          \/ /\ rep[f] \in nodes /\ rep[collapsing] \in nodes /\ rep[f] # rep[collapsing]
             /\ MergeNodeToRep(rep[f], rep[collapsing], Redirected(f))
             /\ \A z \in Node : (Now(z))' = To(rep[f], rep[collapsing], Now(z))
    BY <1>5, FieldMoves
  <2> QED
    BY <1>1, <1>3, <2>1
<1>6. CASE UpdateReps
  <2>1. edges' = edges /\ (Now(x))' = Now(x) /\ (Now(y))' = Now(y)
    BY <1>6, UpdateMoves DEF UpdateReps
  <2> QED
    BY <2>1 DEF Joined
<1>7. CASE ~(MergeSccNode \/ CollapseOneField \/ UpdateReps)
  <2>1. rep' = rep /\ edges \subseteq edges'
    BY <1>7 DEF Next, vars, ProcessAllAddr, SCCDetect, ProcessNode, ProcessPWCNode, ResumePWCNode,
      HandleCopyGep, ProcessCopy, ProcessGep, GepPtd, GepBlkOrConst, GepVariant, GepNormal,
      AddCopyEdges, FinishGep, FinishCopyGep, CollapseNext, CollapseNodePts, FinishCollapseField,
      PopFromWorklist, HandleLoad, HandleStore, HandleEdge, UpdateCallGraph, ConnectPair,
      FinishCallGraph, Terminated
  <2> QED
    BY <1>1, <2>1
<1> QED
  BY <1>4, <1>5, <1>6, <1>7

(* A resolved node stays resolved.                                         *)
LEMMA StaysResolved ==
  ASSUME TypeOK, GraphOK, [Next]_vars
  PROVE  Kept
<1> USE DEF graphVars, sccVars
<1>1. CASE SCCDetect
  <2>1. changedReps = {} /\ nodes' = nodes /\ rep' = rep
    BY <1>1 DEF SCCDetect, GraphOK, Graph, Merges
  <2> QED
    BY <2>1 DEF Kept, Resolved
<1>2. CASE MergeSccNode \/ UpdateReps \/ CollapseOneField
  BY <1>2, SccNodeMerged, RepsUpdated, FieldMerged DEF GraphOK
<1>3. CASE ~(SCCDetect \/ MergeSccNode \/ CollapseOneField \/ UpdateReps)
  <2>1. rep' = rep /\ nodes \subseteq nodes' /\ changedReps' = changedReps
    BY <1>3 DEF Next, vars, ProcessAllAddr, ProcessNode, ProcessPWCNode, ResumePWCNode,
      HandleCopyGep, ProcessCopy, ProcessGep, GepPtd, GepBlkOrConst, GepVariant, GepNormal,
      AddCopyEdges, FinishGep, FinishCopyGep, CollapseNext, CollapseNodePts, FinishCollapseField,
      PopFromWorklist, HandleLoad, HandleStore, HandleEdge, UpdateCallGraph, ConnectPair,
      FinishCallGraph, Terminated
  <2> QED
    BY <2>1 DEF Kept, Resolved
<1> QED
  BY <1>1, <1>2, <1>3

(* handleLoad() and handleStore() cache a pointee with its copy edge.      *)
LEMMA HandleCached ==
  ASSUME TypeOK, CurOK, GraphOK, Cached, pc = "post", NEW e \in edgesLeft, HandleEdge(e)
  PROVE  Cached'
<1> DEFINE new == {o \in pts[cur] : <<e, o>> \notin cache}
           P == {IF e.kind = "load" THEN <<o, e.dst>> ELSE <<e.src, o>> : o \in {m \in new : ~NoCopy(m)}}
<1>1. /\ edges' = edges \union NewCopyEdges(P) /\ cache' = cache \union ({e} \X new)
      /\ edgesLeft' \subseteq edgesLeft /\ UNCHANGED <<rep, nodes, changedReps>>
  BY DEF HandleEdge, AddCopyEdges, sccVars
<1>2. e \in edges /\ e.src \in nodes /\ e.dst \in nodes /\ rep[e.src] = e.src /\ rep[e.dst] = e.dst
      /\ cur \in Node
  BY DEF Cached, GraphOK, Graph, Ends, Reps, CurOK
<1>3. \A n : (Now(n))' = Now(n) /\ (Resolved(n))' = Resolved(n)
  BY <1>1 DEF Now, Resolved
<1>4. \A m, n : Joined(m, n) => (Joined(m, n))'
  BY <1>1 DEF Joined, HasEdge
<1>5. ASSUME NEW o \in new
      PROVE  /\ e \in edges' /\ (Resolved(o))'
             /\ NoCopy(o) \/ (IF e.kind = "load" THEN (Joined(Now(o), e.dst))' ELSE (Joined(e.src, Now(o)))')
  <2>1. Resolved(o) /\ o \in Node
    BY <1>2 DEF GraphOK, Facts, Fact, TypeOK, Node
  <2>2. Now(o) = rep[o]
    BY <2>1, NowOnGraph, NamedOnGraph DEF GraphOK
  <2> DEFINE from == IF e.kind = "load" THEN rep[o] ELSE e.src
             to == IF e.kind = "load" THEN e.dst ELSE rep[o]
             g == [kind |-> "copy", src |-> from, dst |-> to, off |-> 0]
  <2>3. ASSUME ~NoCopy(o) PROVE from = to \/ HasEdge(edges', "copy", from, to)
    <3>1. \E p \in P : g = [kind |-> "copy", src |-> rep[p[1]], dst |-> rep[p[2]], off |-> 0]
      <4>1. CASE e.kind = "load"
        <5>1. <<o, e.dst>> \in P
          BY <2>3, <4>1
        <5> QED
          BY <1>2, <4>1, <5>1
      <4>2. CASE e.kind # "load"
        <5>1. <<e.src, o>> \in P
          BY <2>3, <4>2
        <5> QED
          BY <1>2, <4>2, <5>1
      <4> QED
        BY <4>1, <4>2
    <3> HIDE DEF P, from, to
    <3>2. g.kind = "copy" /\ g.src = from /\ g.dst = to
      OBVIOUS
    <3>3. CASE from # to /\ ~HasEdge(edges, "copy", from, to)
      <4>1. g \in NewCopyEdges(P)
        BY <3>1, <3>2, <3>3 DEF NewCopyEdges
      <4> QED
        BY <1>1, <3>2, <4>1 DEF HasEdge
    <3>4. CASE HasEdge(edges, "copy", from, to)
      BY <1>1, <3>4 DEF HasEdge
    <3> QED
      BY <3>3, <3>4
  <2> QED
    BY <1>1, <1>2, <1>3, <2>1, <2>2, <2>3 DEF Joined
<1>6. ASSUME NEW c \in cache
      PROVE  /\ c[1] \in edges' /\ (Resolved(c[2]))'
             /\ NoCopy(c[2]) \/ (IF c[1].kind = "load" THEN (Joined(Now(c[2]), c[1].dst))'
                                                       ELSE (Joined(c[1].src, Now(c[2])))')
  <2>1. c[1] \in edges' /\ (Resolved(c[2]))'
    BY <1>1, <1>3 DEF Cached
  <2>2. NoCopy(c[2]) \/ (IF c[1].kind = "load" THEN Joined(Now(c[2]), c[1].dst)
                                               ELSE Joined(c[1].src, Now(c[2])))
    BY DEF Cached
  <2> QED
    BY <1>3, <1>4, <2>1, <2>2
<1>7. pc' = "post" => edgesLeft' \subseteq edges'
  BY <1>1 DEF Cached
<1> HIDE DEF new, P
<1>8. \A c \in cache' : c \in cache \/ \E o \in new : c[1] = e /\ c[2] = o
  BY <1>1
<1> QED
  BY <1>5, <1>6, <1>7, <1>8 DEF Cached

(* Every step keeps cached pairs joined.                                   *)
LEMMA StepCached ==
  ASSUME TypeOK, CurOK, GraphOK, GraphOK', Cached, [Next]_vars
  PROVE  Cached'
<1> USE DEF graphVars, ptVars, diffVars, fiVars, gepVars, sccVars, collapseVars, callVars
<1>1. CASE HandleLoad \/ HandleStore
  BY <1>1, HandleCached, PickSub DEF HandleLoad, HandleStore
<1>2. CASE ~(HandleLoad \/ HandleStore)
  <2>1. \A c \in cache' : c \in cache /\ c[1] \in edges'
    <3>1. CASE MergeSccNode \/ CollapseOneField
      BY <1>2, <3>1, SccMoves, FieldMoves DEF MergeNodeToRep, Cached
    <3>2. CASE ~(MergeSccNode \/ CollapseOneField)
      <4>1. cache' = cache /\ edges \subseteq edges'
        BY <1>2, <3>2 DEF Next, vars, ProcessAllAddr, SCCDetect, UpdateReps, ProcessNode,
          ProcessPWCNode, ResumePWCNode, HandleCopyGep, ProcessCopy, ProcessGep, GepPtd,
          GepBlkOrConst, GepVariant, GepNormal, AddCopyEdges, FinishGep, FinishCopyGep,
          CollapseNext, CollapseNodePts, FinishCollapseField, PopFromWorklist, UpdateCallGraph,
          ConnectPair, FinishCallGraph, Terminated
      <4> QED
        BY <4>1 DEF Cached
    <3> QED
      BY <3>1, <3>2
  <2>2. pc' = "post" => edgesLeft' \subseteq edges'
    <3>1. CASE PopFromWorklist
      BY <3>1 DEF PopFromWorklist
    <3>2. CASE ~PopFromWorklist
      <4>1. pc' = "post" => pc = "post" /\ UNCHANGED <<edgesLeft, edges>>
        BY <1>2, <3>2 DEF Next, vars, ProcessAllAddr, SCCDetect, MergeSccNode, UpdateReps,
          ProcessNode, ProcessPWCNode, ResumePWCNode, HandleCopyGep, ProcessCopy, ProcessGep,
          GepPtd, FinishGep, FinishCopyGep, CollapseNext, CollapseNodePts, CollapseOneField,
          FinishCollapseField, UpdateCallGraph, ConnectPair, FinishCallGraph, Terminated,
          GraphOK, Graph, Merges
      <4> QED
        BY <4>1 DEF Cached
    <3> QED
      BY <3>1, <3>2
  <2>3. ASSUME NEW c \in cache'
        PROVE  /\ c[1] \in edges' /\ (Resolved(c[2]))'
               /\ NoCopy(c[2]) \/ (IF c[1].kind = "load" THEN (Joined(Now(c[2]), c[1].dst))'
                                                         ELSE (Joined(c[1].src, Now(c[2])))')
    <3>1. c \in cache /\ c[1] \in edges' /\ c[1] \in edges /\ Resolved(c[2]) /\ c[2] \in Node
      BY <2>1 DEF Cached, TypeOK, Node
    <3>2. c[1].src \in nodes /\ c[1].dst \in nodes /\ c[1].src \in nodes' /\ c[1].dst \in nodes'
      BY <3>1 DEF GraphOK, Graph, Ends
    <3>3. /\ Now(c[1].src) = c[1].src /\ Now(c[1].dst) = c[1].dst
          /\ c[1].src \in Node /\ c[1].dst \in Node
      BY <3>2 DEF GraphOK, Graph, Reps, Now, TypeOK
    <3>4. rep'[c[1].src] = c[1].src /\ rep'[c[1].dst] = c[1].dst
      BY <3>2 DEF GraphOK, Graph, Reps
    <3>5. (Resolved(c[2]))'
      BY <3>1, StaysResolved DEF Kept
    <3>6. ASSUME ~NoCopy(c[2]), c[1].kind = "load" PROVE (Joined(Now(c[2]), c[1].dst))'
      <4>1. Joined(Now(c[2]), Now(c[1].dst))
        BY <3>1, <3>3, <3>6 DEF Cached
      <4>2. (Joined(Now(c[2]), Now(c[1].dst)))'
        BY <3>1, <3>3, <4>1, StaysJoined
      <4> QED
        BY <3>4, <4>2 DEF Now
    <3>7. ASSUME ~NoCopy(c[2]), c[1].kind # "load" PROVE (Joined(c[1].src, Now(c[2])))'
      <4>1. Joined(Now(c[1].src), Now(c[2]))
        BY <3>1, <3>3, <3>7 DEF Cached
      <4>2. (Joined(Now(c[1].src), Now(c[2])))'
        BY <3>1, <3>3, <4>1, StaysJoined
      <4> QED
        BY <3>4, <4>2 DEF Now
    <3> QED
      BY <3>1, <3>5, <3>6, <3>7
  <2> QED
    BY <2>2, <2>3 DEF Cached
<1> QED
  BY <1>1, <1>2

(* The inductive invariant.                                                *)
LEMMA CachedInvariant == Spec => []Cached
<1>1. Init => Cached
  BY DEF Init, Cached
<1>2. TypeOK /\ CurOK /\ GraphOK /\ Holders /\ Cached /\ [Next]_vars => Cached'
  BY StepCached, StepGraph
<1> QED
  BY <1>1, <1>2, TypeCorrect, GraphInvariant, PTL DEF Spec

(* A pointee that a load or a store will not look at again has its copy    *)
(* edge, although merging retargets edges, drops some and renames both.    *)
THEOREM CachesNeverStale == Spec => []CachedConnected
<1>1. TypeOK /\ GraphOK /\ Cached => CachedConnected
  <2> SUFFICES ASSUME TypeOK, GraphOK, Cached, pc # "merge", NEW c \in cache, ~NoCopy(c[2])
               PROVE  LET from == IF c[1].kind = "load" THEN rep[c[2]] ELSE c[1].src
                          d == IF c[1].kind = "load" THEN c[1].dst ELSE rep[c[2]]
                      IN from = d \/ HasEdge(edges, "copy", from, d)
    BY DEF CachedConnected
  <2>1. c[2] \in Node /\ Resolved(c[2])
    BY DEF TypeOK, Node, Cached
  <2>2. Now(c[2]) = rep[c[2]]
    BY <2>1, NowOnGraph, NamedOnGraph DEF GraphOK
  <2>3. IF c[1].kind = "load" THEN Joined(Now(c[2]), c[1].dst) ELSE Joined(c[1].src, Now(c[2]))
    BY DEF Cached
  <2> QED
    BY <2>2, <2>3 DEF Joined
<1> QED
  BY <1>1, CachedInvariant, GraphInvariant, PTL
=============================================================================
