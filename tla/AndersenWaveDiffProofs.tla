----------------------- MODULE AndersenWaveDiffProofs -----------------------
(***************************************************************************)
(* For any program, any objects and any order of the loops: the solver     *)
(* keeps its types, and no points-to fact it derives goes beyond a         *)
(* field-insensitive solution of the program.                              *)
(***************************************************************************)
EXTENDS AndersenWaveDiff, SequenceTheorems, TLAPS

(* Nodes and the objects they are parts of.                                *)
LEMMA BaseType ==
  /\ \A n \in ObjNode : Base(n) \in Obj /\ Index(n) \in Nat
  /\ \A n \in Node : Base(n) \in Ptr \union Obj /\ Base(Base(n)) = Base(n)
  /\ \A o \in Ptr \union Obj : Base(o) = o
  /\ \A o \in Obj : \A k \in 0..Limit[o] - 1 : <<o, k>> \in ObjNode /\ Base(<<o, k>>) = o
<1>1. \A f \in Field : f[1] \in Obj /\ f[2] \in Nat
  BY LimitAssumption DEF Field
<1>2. \A o \in Ptr \union Obj : Base(o) = o /\ Index(o) = 0
  BY DisjointAssumption DEF Base, Index
<1>3. \A n \in Field : Base(n) \in Obj /\ Index(n) \in Nat
  BY <1>1 DEF Base, Index
<1>4. \A n \in Node : n \in Ptr \union Obj \/ n \in Field
  BY DEF Node, ObjNode
<1>5. \A n \in ObjNode : n \in Obj \/ n \in Field
  BY DEF ObjNode
<1>6. \A o \in Obj : \A k \in 0..Limit[o] - 1 : <<o, k>> \in Field
  BY DEF Field
<1>7. \A o \in Obj : \A k \in 0..Limit[o] - 1 : <<o, k>> \in ObjNode /\ Base(<<o, k>>) = o
  BY <1>6 DEF ObjNode, Base
<1> QED
  BY <1>2, <1>3, <1>4, <1>5, <1>7

(* A gep never leaves the object it points into.                           *)
LEMMA GepObjType ==
  ASSUME NEW m \in ObjNode, NEW off \in Nat
  PROVE  GepObj(m, off) \in ObjNode /\ Base(GepObj(m, off)) = Base(m)
<1> DEFINE o == Base(m)
           k == (Index(m) + off) % Limit[o]
<1>1. o \in Obj /\ Index(m) \in Nat
  BY BaseType
<1>2. Limit[o] \in Nat \ {0} /\ Index(m) + off \in Nat
  BY <1>1, LimitAssumption
<1>3. k \in 0..Limit[o] - 1
  BY <1>2
<1>4. <<o, k>> \in ObjNode /\ Base(<<o, k>>) = o
  BY <1>1, <1>3, BaseType
<1>5. o \in ObjNode /\ Base(o) = o
  BY <1>1, BaseType DEF ObjNode
<1> QED
  BY <1>4, <1>5 DEF GepObj

(* A loop only takes what is there.                                        *)
LEMMA PickSub == ASSUME NEW S PROVE Pick(S) \subseteq S
BY DEF Pick
-----------------------------------------------------------------------------
(* Type correctness, operator by operator.                                 *)

(* unionPts() keeps both points-to maps well typed.                        *)
LEMMA UnionPtsType ==
  ASSUME TypeOK, NEW D, \A n \in Node : D[n] \subseteq ObjNode, UnionPts(D)
  PROVE  /\ pts' \in [Node -> SUBSET ObjNode] /\ revPts' \in [ObjNode -> SUBSET Node]
         /\ Grown(D) \subseteq Node
BY DEF TypeOK, UnionPts, Grown

(* A set that flows into one node only.                                    *)
LEMMA IntoType ==
  ASSUME NEW d \in Node, NEW S \in SUBSET ObjNode
  PROVE  \A n \in Node : Into(d, S)[n] \subseteq ObjNode
BY DEF Into

(* A new copy edge joins two nodes.                                        *)
LEMMA NewCopyEdgesType ==
  ASSUME TypeOK, NEW P \in SUBSET (Node \X Node)
  PROVE  NewCopyEdges(P) \subseteq Edge
<1>1. ASSUME NEW p \in P
      PROVE  [kind |-> "copy", src |-> rep[p[1]], dst |-> rep[p[2]], off |-> 0] \in Edge
  <2>1. rep[p[1]] \in Node /\ rep[p[2]] \in Node
    BY DEF TypeOK
  <2> QED
    BY <2>1 DEF Edge, Direct
<1> QED
  BY <1>1 DEF NewCopyEdges

(* addCopyEdge() keeps edges, points-to maps and work list well typed.     *)
LEMMA AddCopyEdgesType ==
  ASSUME TypeOK, NEW P \in SUBSET (Node \X Node), AddCopyEdges(P)
  PROVE  /\ edges' \subseteq Edge /\ worklist' \subseteq Node
         /\ pts' \in [Node -> SUBSET ObjNode] /\ revPts' \in [ObjNode -> SUBSET Node]
<1> DEFINE new == NewCopyEdges(P)
           D == [n \in Node |-> UNION {pts[e.src] : e \in {f \in new : f.dst = n}}]
<1>1. new \subseteq Edge
  BY NewCopyEdgesType
<1>2. \A e \in new : e.src \in Node /\ pts[e.src] \subseteq ObjNode
  BY <1>1 DEF Edge, TypeOK
<1>3. edges' = edges \union new /\ UnionPts(D) /\ worklist' = worklist \union Grown(D)
  BY DEF AddCopyEdges
<1> HIDE DEF new
<1>4. \A n \in Node : D[n] \subseteq ObjNode
  BY <1>2
<1> HIDE DEF D
<1>5. pts' \in [Node -> SUBSET ObjNode] /\ revPts' \in [ObjNode -> SUBSET Node]
      /\ Grown(D) \subseteq Node
  BY <1>3, <1>4, UnionPtsType
<1> QED
  BY <1>1, <1>3, <1>5 DEF TypeOK

(* Retargeted edges are edges.                                             *)
LEMMA MoveEdgesType ==
  ASSUME NEW E \in SUBSET Edge, NEW n \in Node, NEW r \in Node
  PROVE  MoveInEdges(E, n, r) \subseteq Edge /\ MoveOutEdges(E, n, r) \subseteq Edge
<1>1. \A e \in Edge : [e EXCEPT !.dst = r] \in Edge /\ [e EXCEPT !.src = r] \in Edge
  BY DEF Edge
<1> QED
  BY <1>1 DEF MoveInEdges, MoveOutEdges

(* mergeNodeToRep() keeps the graph and the points-to data well typed.     *)
LEMMA MergeNodeToRepType ==
  ASSUME TypeOK, NEW n \in Node, NEW r \in Node, NEW P \in [Node -> SUBSET ObjNode],
         MergeNodeToRep(n, r, P)
  PROVE  /\ edges' \subseteq Edge /\ pwc' \subseteq Node /\ nodes' \subseteq Node
         /\ cache' \subseteq Edge \X ObjNode
         /\ pts' \in [Node -> SUBSET ObjNode] /\ revPts' \in [ObjNode -> SUBSET Node]
         /\ propa' \in [Node -> SUBSET ObjNode]
<1>1. MoveInEdges(edges, n, r) \subseteq Edge
  BY MoveEdgesType DEF TypeOK
<1>2. MoveOutEdges(MoveInEdges(edges, n, r), n, r) \subseteq Edge
  BY <1>1, MoveEdgesType
<1>3. edges' \subseteq Edge
  BY <1>2 DEF MergeNodeToRep
<1>4. pwc' \subseteq Node
  <2>1. pwc' = pwc \union {r} \/ pwc' = pwc
    BY DEF MergeNodeToRep
  <2> QED
    BY <2>1 DEF TypeOK
<1>5. pts' \in [Node -> SUBSET ObjNode]
  BY DEF MergeNodeToRep, TypeOK
<1>6. revPts' \in [ObjNode -> SUBSET Node]
  BY DEF MergeNodeToRep, TypeOK
<1>7. propa' \in [Node -> SUBSET ObjNode]
  BY DEF MergeNodeToRep, MergedPropa, TypeOK
<1> QED
  BY <1>3, <1>4, <1>5, <1>6, <1>7 DEF MergeNodeToRep, TypeOK

(* Each pair of nodes SCCDetect() decides to merge lies in one component.  *)
LEMMA CyclesOnGraph == \A c \in Cycles : c \subseteq nodes
<1>1. \A c \in Components(Reach) : c \subseteq nodes
  BY DEF Components
<1> QED
  BY <1>1 DEF Cycles

(* Roots, merges and wave order found by SCCDetect() are on the graph.     *)
LEMMA SCCDetectType ==
  ASSUME TypeOK, SCCDetect
  PROVE  /\ nodeStack' \subseteq Node /\ changedReps' \subseteq Node
         /\ merging' \subseteq Node \X Node /\ waveOrder' \subseteq Node \X Node
         /\ pc' \in {"wave", "merge"}
         /\ \A p \in merging' : \E c \in SUBSET nodes :
              StronglyConnected(c) /\ p[1] \in c /\ p[2] \in c
<1>1. PICK f \in {g \in [Cycles -> UNION Cycles] : \A c \in Cycles : g[c] \in c} : StackRoots(f)
  BY PickSub DEF SCCDetect
<1>2. ASSUME NEW n \in UNION Cycles
      PROVE  \E c \in Cycles : n \in c /\ Root(f, n) \in c
  <2> DEFINE CycleOf == CHOOSE c \in Cycles : n \in c
  <2>1. CycleOf \in Cycles /\ n \in CycleOf
    OBVIOUS
  <2>2. Root(f, n) = f[CycleOf]
    BY DEF Root
  <2> HIDE DEF CycleOf
  <2> QED
    BY <1>1, <2>1, <2>2
<1>3. nodes \subseteq Node
  BY DEF TypeOK
<1>4. \A n \in Node : Root(f, n) \in Node
  <2>1. \A n : n \notin UNION Cycles => Root(f, n) = n
    BY <1>1 DEF Root
  <2> QED
    BY <1>2, <1>3, <2>1, CyclesOnGraph
<1>5. \A c \in Cycles : StronglyConnected(c)
  BY DEF SCCDetect
<1>6. \A e \in DirectPairs : e[1] \in Node /\ e[2] \in Node
  BY DEF DirectPairs, TypeOK, Edge
<1>7. ASSUME NEW p \in merging'
      PROVE  /\ p \in Node \X Node
             /\ \E c \in SUBSET nodes : StronglyConnected(c) /\ p[1] \in c /\ p[2] \in c
  <2>1. PICK n \in nodes : Root(f, n) # n /\ p = <<n, Root(f, n)>>
    BY <1>1 DEF StackRoots
  <2>2. n \in UNION Cycles
    BY <1>1, <2>1 DEF Root
  <2> QED
    BY <1>2, <1>3, <1>4, <1>5, <2>1, <2>2, CyclesOnGraph
<1>8. nodeStack' \subseteq Node /\ changedReps' \subseteq Node
  BY <1>1, <1>3 DEF StackRoots
<1>9. waveOrder' \subseteq Node \X Node
  BY <1>1, <1>4, <1>6 DEF StackRoots
<1>10. pc' \in {"wave", "merge"}
  BY DEF SCCDetect
<1> QED
  BY <1>7, <1>8, <1>9, <1>10
-----------------------------------------------------------------------------

(* The handlers that stop halfway work on a node.                          *)
CurOK == pc \in {"pwc", "copygep", "post"} => cur \in Node

(* Every action keeps the types.                                           *)
THEOREM TypeCorrect == Spec => [](TypeOK /\ CurOK)
<1>1. Init => TypeOK /\ CurOK
  <2> SUFFICES ASSUME Init PROVE TypeOK /\ CurOK
    OBVIOUS
  <2>1. prog \in Program
    BY ProgramAssumption DEF Init
  <2>2. edges \subseteq Edge
    BY <2>1 DEF Init, Program
  <2>3. nodes \subseteq Node /\ rep \in [Node -> Node] /\ subs \in [Node -> SUBSET Node]
    BY DEF Init, Named, Node, ObjNode
  <2>4. frames \in Seq(SUBSET ObjNode)
    BY DEF Init
  <2> QED
    BY <2>1, <2>2, <2>3, <2>4, KindAssumption DEF Init, TypeOK, CurOK
<1>2. TypeOK /\ CurOK /\ [Next]_vars => TypeOK'
  <2> SUFFICES ASSUME TypeOK, CurOK, [Next]_vars PROVE TypeOK'
    OBVIOUS
  <2> USE DEF graphVars, ptVars, diffVars, fiVars, gepVars, sccVars, collapseVars, callVars
  <2>1. CASE ProcessAllAddr
    <3> DEFINE D == [n \in Node |-> {o \in Obj : <<o, n>> \in prog.addr}]
    <3>1. \A n \in Node : D[n] \subseteq ObjNode
      BY DEF ObjNode
    <3>2. UnionPts(D) /\ worklist' = Grown(D)
      BY <2>1 DEF ProcessAllAddr
    <3> HIDE DEF D
    <3> QED
      BY <2>1, <3>1, <3>2, UnionPtsType DEF ProcessAllAddr, TypeOK
  <2>2. CASE SCCDetect
    BY <2>2, SCCDetectType DEF SCCDetect, TypeOK
  <2>3. CASE MergeSccNode
    <3>1. PICK p \in merging :
            /\ MergeNodeToRep(p[1], p[2], pts)
            /\ rep' = [rep EXCEPT ![p[1]] = p[2]]
            /\ subs' = [subs EXCEPT ![p[2]] = @ \union {p[1]}]
            /\ merging' = merging \ {p}
      BY <2>3, PickSub DEF MergeSccNode
    <3>2. p[1] \in Node /\ p[2] \in Node /\ pts \in [Node -> SUBSET ObjNode]
      BY DEF TypeOK
    <3>3. rep' \in [Node -> Node] /\ subs' \in [Node -> SUBSET Node]
      BY <3>1, <3>2 DEF TypeOK
    <3> QED
      BY <2>3, <3>1, <3>2, <3>3, MergeNodeToRepType DEF MergeSccNode, TypeOK
  <2>4. CASE UpdateReps
    <3>1. rep' \in [Node -> Node]
      <4>1. \A n \in Node : (\E c \in changedReps : n \in subs[c]) =>
               (CHOOSE c \in changedReps : n \in subs[c]) \in Node
        BY DEF TypeOK
      <4> QED
        BY <2>4, <4>1 DEF UpdateReps, TypeOK
    <3>2. subs' \in [Node -> SUBSET Node]
      BY <2>4 DEF UpdateReps, TypeOK
    <3> QED
      BY <2>4, <3>1, <3>2 DEF UpdateReps, TypeOK
  <2>5. ASSUME NEW n \in Node, HandleCopyGep(n)
        PROVE  /\ propa' \in [Node -> SUBSET ObjNode] /\ diff' \subseteq ObjNode
               /\ cur' \in Node \union {None} /\ pc' \in {"copygep", "wave"}
               /\ edgesLeft' \subseteq Edge
    BY <2>5 DEF HandleCopyGep, TypeOK
  <2>6. TopOfStack \subseteq Node
    BY PickSub DEF TopOfStack, TypeOK
  <2>7. CASE ProcessNode
    BY <2>5, <2>6, <2>7 DEF ProcessNode, TypeOK
  <2>8. CASE ProcessPWCNode
    <3>1. PICK n \in Node : frames' = <<pts[rep[n]]>> /\ cur' = n /\ nodeStack' = nodeStack \ {n}
      BY <2>6, <2>8 DEF ProcessPWCNode
    <3>2. pts[rep[n]] \in SUBSET ObjNode
      BY DEF TypeOK
    <3>3. frames' \in Seq(SUBSET ObjNode)
      BY <3>1, <3>2
    <3> QED
      BY <2>8, <3>1, <3>3 DEF ProcessPWCNode, TypeOK
  <2>9. CASE ResumePWCNode
    <3>1. cur \in Node
      BY <2>9 DEF ResumePWCNode, CurOK
    <3>2. HandleCopyGep(cur)
      BY <2>9 DEF ResumePWCNode
    <3>3. /\ propa' \in [Node -> SUBSET ObjNode] /\ diff' \subseteq ObjNode
          /\ cur' \in Node \union {None} /\ pc' \in {"copygep", "wave"}
          /\ edgesLeft' \subseteq Edge
      BY <2>5, <3>1, <3>2
    <3> QED
      BY <2>9, <3>3 DEF ResumePWCNode, TypeOK
  <2>10. ASSUME NEW d \in Node, NEW S \in SUBSET ObjNode, UnionPts(Into(d, S))
         PROVE  /\ pts' \in [Node -> SUBSET ObjNode] /\ revPts' \in [ObjNode -> SUBSET Node]
                /\ worklist \union {rep[n] : n \in Grown(Into(d, S))} \subseteq Node
    <3>1. \A n \in Node : Into(d, S)[n] \subseteq ObjNode
      BY IntoType
    <3>2. /\ pts' \in [Node -> SUBSET ObjNode] /\ revPts' \in [ObjNode -> SUBSET Node]
          /\ Grown(Into(d, S)) \subseteq Node
      BY <2>10, <3>1, UnionPtsType
    <3> QED
      BY <3>2 DEF TypeOK
  <2>11. CASE ProcessCopy
    <3>1. PICK e \in edgesLeft :
            /\ UnionPts(Into(e.dst, diff))
            /\ worklist' = worklist \union {rep[n] : n \in Grown(Into(e.dst, diff))}
            /\ edgesLeft' = edgesLeft \ {e}
      BY <2>11, PickSub DEF ProcessCopy
    <3>2. e.dst \in Node /\ diff \subseteq ObjNode
      BY DEF TypeOK, Edge
    <3> QED
      BY <2>10, <2>11, <3>1, <3>2 DEF ProcessCopy, TypeOK
  <2>12. CASE ProcessGep
    <3>1. gep' \in Edge /\ edgesLeft' \subseteq Edge
      BY <2>12, PickSub DEF ProcessGep, TypeOK
    <3> QED
      BY <2>12, <3>1 DEF ProcessGep, TypeOK
  <2>13. CASE GepPtd
    <3>1. PICK m \in ptdsLeft : ptdsLeft' = ptdsLeft \ {m}
                               /\ (GepBlkOrConst(m) \/ GepVariant(m) \/ GepNormal(m))
      BY <2>13, PickSub DEF GepPtd
    <3>2. m \in ObjNode /\ Base(m) \in Obj /\ Base(m) \in ObjNode
      BY BaseType DEF TypeOK, ObjNode
    <3>3. /\ nodes' \subseteq Node /\ edges' \subseteq Edge /\ worklist' \subseteq Node
          /\ fieldInsensitive' \subseteq Obj /\ nodesToBeCollapsed' \subseteq Obj
          /\ pts' \in [Node -> SUBSET ObjNode] /\ revPts' \in [ObjNode -> SUBSET Node]
          /\ tmpDstPts' \subseteq ObjNode
      <4>1. CASE GepBlkOrConst(m)
        BY <3>2, <4>1 DEF GepBlkOrConst, TypeOK
      <4>2. CASE GepVariant(m)
        BY <3>2, <4>2 DEF GepVariant, TypeOK
      <4>3. CASE GepNormal(m)
        <5> DEFINE f == GepObj(m, gep.off)
                   P == IF gep.off = 0 THEN {<<Base(f), f>>} ELSE {}
        <5>1. gep \in Edge
          BY <2>13 DEF GepPtd, TypeOK
        <5>2. f \in ObjNode /\ Base(f) \in Obj
          BY <3>2, <5>1, GepObjType DEF Edge
        <5>3. AddCopyEdges(P) /\ tmpDstPts' = tmpDstPts \union {f}
              /\ nodes' \subseteq nodes \union {f} /\ UNCHANGED fiVars
          BY <4>3 DEF GepNormal
        <5>4. P \in SUBSET (Node \X Node)
          BY <5>2 DEF Node, ObjNode
        <5> HIDE DEF f, P
        <5>5. /\ edges' \subseteq Edge /\ worklist' \subseteq Node
              /\ pts' \in [Node -> SUBSET ObjNode] /\ revPts' \in [ObjNode -> SUBSET Node]
          BY <5>3, <5>4, AddCopyEdgesType
        <5> QED
          BY <5>2, <5>3, <5>5 DEF TypeOK, Node
      <4> QED
        BY <3>1, <4>1, <4>2, <4>3
    <3> QED
      BY <2>13, <3>1, <3>3 DEF GepPtd, TypeOK
  <2>14. CASE FinishGep
    <3>1. gep.dst \in Node /\ tmpDstPts \subseteq ObjNode
      BY <2>14 DEF FinishGep, TypeOK, Edge
    <3> QED
      BY <2>10, <2>14, <3>1 DEF FinishGep, TypeOK
  <2>15. CASE FinishCopyGep
    BY <2>15 DEF FinishCopyGep, TypeOK
  <2>16. ASSUME NEW o \in Obj, CollapseField(o)
         PROVE  /\ fieldInsensitive' \subseteq Obj /\ collapsing' \in Obj \union {None}
                /\ fieldsLeft' \subseteq Field
    BY <2>16 DEF CollapseField, TypeOK
  <2>17. CASE CollapseNext
    <3>1. CASE nodesToBeCollapsed = {}
      BY <2>17, <3>1 DEF CollapseNext, TypeOK
    <3>2. CASE nodesToBeCollapsed # {}
      <4>1. PICK o \in nodesToBeCollapsed :
              nodesToBeCollapsed' = nodesToBeCollapsed \ {o} /\ CollapseField(o) /\ pc' = pc
        BY <2>17, <3>2, PickSub DEF CollapseNext
      <4>2. o \in Obj
        BY DEF TypeOK
      <4> QED
        BY <2>16, <2>17, <4>1, <4>2 DEF CollapseNext, TypeOK
    <3> QED
      BY <3>1, <3>2
  <2>18. CASE CollapseNodePts
    <3> DEFINE top == Len(frames)
               left == {m \in frames[top] : Base(m) \notin fieldInsensitive}
    <3>1. top \in 1..Len(frames) /\ frames[top] \in SUBSET ObjNode
      BY <2>18 DEF CollapseNodePts, TypeOK
    <3>2. CASE left = {}
      <4>1. frames' = SubSeq(frames, 1, top - 1)
        BY <2>18, <3>2 DEF CollapseNodePts
      <4>2. frames' \in Seq(SUBSET ObjNode)
        BY <3>1, <4>1 DEF TypeOK
      <4> QED
        BY <2>18, <3>2, <4>2 DEF CollapseNodePts, TypeOK
    <3>3. CASE left # {}
      <4>1. PICK m \in left : frames' = [frames EXCEPT ![top] = left \ {m}] /\ CollapseField(Base(m))
        BY <2>18, <3>3, PickSub DEF CollapseNodePts
      <4>2. Base(m) \in Obj
        BY <3>1, BaseType
      <4>3. left \ {m} \in SUBSET ObjNode
        BY <3>1
      <4> HIDE DEF left
      <4>4. frames' \in Seq(SUBSET ObjNode)
        BY <3>1, <4>1, <4>3 DEF TypeOK
      <4> QED
        BY <2>16, <2>18, <4>1, <4>2, <4>4 DEF CollapseNodePts, TypeOK
    <3> QED
      BY <3>2, <3>3
  <2>19. CASE CollapseOneField
    <3>1. PICK f \in fieldsLeft :
            /\ fieldsLeft' = fieldsLeft \ {f}
            /\ reanalyze' = (reanalyze \/ revPts[f] # {})
            /\ MergeField(rep[f], rep[collapsing], Redirected(f))
      BY <2>19, PickSub DEF CollapseOneField
    <3>2. f \in Node /\ collapsing \in Obj /\ collapsing \in ObjNode /\ collapsing \in Node
      BY <2>19 DEF CollapseOneField, TypeOK, Node, ObjNode
    <3>3. rep[f] \in Node /\ rep[collapsing] \in Node
      BY <3>2 DEF TypeOK
    <3>4. Redirected(f) \in [Node -> SUBSET ObjNode]
      BY <3>2 DEF Redirected, TypeOK
    <3>5. fieldsLeft' = fieldsLeft \ {f} /\ reanalyze' \in BOOLEAN
      BY <3>1 DEF TypeOK
    <3>6. CASE rep[f] = rep[collapsing]
      <4>1. pts' = Redirected(f) /\ UNCHANGED <<revPts, propa, cache, graphVars>>
        BY <3>1, <3>6 DEF MergeField
      <4> QED
        BY <2>19, <3>4, <3>5, <4>1 DEF CollapseOneField, TypeOK
    <3>7. CASE rep[f] # rep[collapsing]
      <4> DEFINE fr == rep[f]
                 br == rep[collapsing]
      <4>1. /\ MergeNodeToRep(fr, br, Redirected(f))
            /\ rep' = [n \in Node |-> IF n = fr \/ n \in subs[fr] THEN br ELSE rep[n]]
            /\ subs' = [subs EXCEPT ![br] = @ \union {fr} \union subs[fr]]
        BY <3>1, <3>7 DEF MergeField
      <4>2. fr \in Node /\ br \in Node
        BY <3>3
      <4> HIDE DEF fr, br
      <4>3. rep' \in [Node -> Node] /\ subs' \in [Node -> SUBSET Node]
        BY <4>1, <4>2 DEF TypeOK
      <4>4. /\ edges' \subseteq Edge /\ pwc' \subseteq Node /\ nodes' \subseteq Node
            /\ cache' \subseteq Edge \X ObjNode
            /\ pts' \in [Node -> SUBSET ObjNode] /\ revPts' \in [ObjNode -> SUBSET Node]
            /\ propa' \in [Node -> SUBSET ObjNode]
        BY <3>4, <4>1, <4>2, MergeNodeToRepType
      <4> QED
        BY <2>19, <3>5, <4>3, <4>4 DEF CollapseOneField, TypeOK
    <3> QED
      BY <3>6, <3>7
  <2>20. CASE FinishCollapseField
    <3>1. rep[collapsing] \in Node /\ pts[rep[collapsing]] \in SUBSET ObjNode
      BY <2>20 DEF FinishCollapseField, TypeOK, Node, ObjNode
    <3>2. frames' \in Seq(SUBSET ObjNode)
      BY <2>20, <3>1 DEF FinishCollapseField, TypeOK
    <3> QED
      BY <2>20, <3>2 DEF FinishCollapseField, TypeOK
  <2>21. CASE PopFromWorklist
    <3>1. PICK x \in worklist :
            /\ worklist' = worklist \ {x}
            /\ edgesLeft' = {e \in edges : (e.kind = "load" /\ e.src = rep[x])
                                           \/ (e.kind = "store" /\ e.dst = rep[x])}
            /\ IF edgesLeft' = {} THEN UNCHANGED <<cur, pc>> ELSE cur' = rep[x] /\ pc' = "post"
      BY <2>21, PickSub DEF PopFromWorklist
    <3>2. rep[x] \in Node
      BY DEF TypeOK
    <3> QED
      BY <2>21, <3>1, <3>2 DEF PopFromWorklist, TypeOK
  <2>22. ASSUME NEW e \in edgesLeft, pc = "post", HandleEdge(e)
         PROVE  TypeOK'
    <3> DEFINE new == {o \in pts[cur] : <<e, o>> \notin cache}
               P == {IF e.kind = "load" THEN <<o, e.dst>> ELSE <<e.src, o>> :
                       o \in {m \in new : ~NoCopy(m)}}
    <3>1. e \in Edge /\ e.src \in Node /\ e.dst \in Node /\ cur \in Node
      BY <2>22 DEF TypeOK, CurOK, Edge
    <3>2. new \subseteq ObjNode
      BY <3>1 DEF TypeOK
    <3>3. P \in SUBSET (Node \X Node)
      <4>1. \A o \in new : (IF e.kind = "load" THEN <<o, e.dst>> ELSE <<e.src, o>>) \in Node \X Node
        BY <3>1, <3>2 DEF Node
      <4> QED
        BY <4>1
    <3>4. /\ cache' = cache \union ({e} \X new) /\ AddCopyEdges(P)
          /\ reanalyze' = (reanalyze \/ NewCopyEdges(P) # {})
      BY <2>22 DEF HandleEdge
    <3> HIDE DEF P, new
    <3>5. /\ edges' \subseteq Edge /\ worklist' \subseteq Node
          /\ pts' \in [Node -> SUBSET ObjNode] /\ revPts' \in [ObjNode -> SUBSET Node]
      BY <3>3, <3>4, AddCopyEdgesType
    <3>6. cache' \subseteq Edge \X ObjNode /\ reanalyze' \in BOOLEAN
      BY <3>1, <3>2, <3>4 DEF TypeOK
    <3> QED
      BY <2>22, <3>5, <3>6 DEF HandleEdge, TypeOK
  <2>23. CASE HandleLoad \/ HandleStore
    BY <2>22, <2>23, PickSub DEF HandleLoad, HandleStore
  <2>24. CASE UpdateCallGraph
    <3> DEFINE found == NewTargets
    <3>1. PICK new \in SUBSET found :
            /\ indCalls' = indCalls \union new
            /\ LET copies == NewCopyEdges(UNION {c.flow : c \in new})
               IN edges' = edges \union copies
                  /\ cpySrcNodes' = {<<e.src, e.dst>> : e \in copies}
            /\ pc' = IF new # {} THEN "connect" ELSE IF reanalyze THEN "solve" ELSE "done"
      BY <2>24 DEF UpdateCallGraph
    <3> DEFINE P == UNION {c.flow : c \in new}
    <3>2. new \subseteq prog.icalls
      BY DEF NewTargets
    <3>3. \A c \in prog.icalls : c.flow \subseteq Node \X Node
      BY DEF TypeOK, Program, Node
    <3>4. P \in SUBSET (Node \X Node)
      BY <3>2, <3>3
    <3>5. edges' = edges \union NewCopyEdges(P)
          /\ cpySrcNodes' = {<<e.src, e.dst>> : e \in NewCopyEdges(P)}
      BY <3>1
    <3> HIDE DEF P
    <3>6. NewCopyEdges(P) \subseteq Edge
      BY <3>4, NewCopyEdgesType
    <3>7. edges' \subseteq Edge /\ cpySrcNodes' \subseteq Node \X Node
      BY <3>5, <3>6 DEF TypeOK, Edge
    <3> QED
      BY <2>24, <3>1, <3>2, <3>7 DEF UpdateCallGraph, TypeOK
  <2>25. CASE ConnectPair
    <3>1. PICK p \in cpySrcNodes :
            /\ UnionPts(Into(rep[p[2]], pts[rep[p[1]]]))
            /\ worklist' = worklist \union {rep[p[2]]}
            /\ cpySrcNodes' = cpySrcNodes \ {p}
      BY <2>25, PickSub DEF ConnectPair
    <3>2. rep[p[2]] \in Node /\ pts[rep[p[1]]] \in SUBSET ObjNode
      BY DEF TypeOK
    <3>3. pts' \in [Node -> SUBSET ObjNode] /\ revPts' \in [ObjNode -> SUBSET Node]
      BY <2>10, <3>1, <3>2
    <3> QED
      BY <2>25, <3>1, <3>2, <3>3 DEF ConnectPair, TypeOK
  <2>26. CASE FinishCallGraph \/ Terminated \/ UNCHANGED vars
    BY <2>26 DEF FinishCallGraph, Terminated, vars, TypeOK
  <2> QED
    BY <2>1, <2>2, <2>3, <2>4, <2>7, <2>8, <2>9, <2>11, <2>12, <2>13, <2>14, <2>15, <2>17, <2>18,
       <2>19, <2>20, <2>21, <2>23, <2>24, <2>25, <2>26 DEF Next
<1>3. TypeOK /\ CurOK /\ [Next]_vars => CurOK'
  <2> SUFFICES ASSUME TypeOK, CurOK, [Next]_vars PROVE CurOK'
    OBVIOUS
  <2> USE DEF CurOK, callVars, gepVars, sccVars, collapseVars
  <2>1. TopOfStack \subseteq Node
    BY PickSub DEF TopOfStack, TypeOK
  <2>2. CASE ProcessNode \/ ProcessPWCNode \/ ResumePWCNode
    BY <2>1, <2>2 DEF ProcessNode, ProcessPWCNode, ResumePWCNode, HandleCopyGep
  <2>3. CASE PopFromWorklist
    <3>1. \A x \in worklist : rep[x] \in Node
      BY DEF TypeOK
    <3> QED
      BY <2>3, <3>1, PickSub DEF PopFromWorklist, SolvePost
  <2>4. CASE ProcessAllAddr \/ SCCDetect \/ MergeSccNode \/ UpdateReps \/ ProcessCopy
             \/ ProcessGep \/ GepPtd \/ FinishGep \/ FinishCopyGep
    BY <2>4 DEF ProcessAllAddr, SCCDetect, MergeSccNode, UpdateReps, ProcessCopy, ProcessGep,
                GepPtd, FinishGep, FinishCopyGep
  <2>5. CASE CollapseNext \/ CollapseNodePts \/ CollapseOneField \/ FinishCollapseField
    BY <2>5 DEF CollapseNext, CollapseNodePts, CollapseOneField, FinishCollapseField
  <2>6. CASE HandleLoad \/ HandleStore \/ UpdateCallGraph \/ ConnectPair \/ FinishCallGraph
             \/ Terminated \/ UNCHANGED vars
    BY <2>6 DEF HandleLoad, HandleStore, HandleEdge, UpdateCallGraph, SolvePost, ConnectPair,
                FinishCallGraph, Terminated, vars
  <2> QED
    BY <2>2, <2>3, <2>4, <2>5, <2>6 DEF Next
<1> QED
  BY <1>1, <1>2, <1>3, PTL DEF Spec
-----------------------------------------------------------------------------
(***************************************************************************)
(* Precision, for any program, any objects and any order of the loops: no  *)
(* points-to fact goes beyond a field-insensitive solution of the program. *)
(*                                                                         *)
(* That solution assigns a set of objects to every node, by its base.      *)
(* Every constraint edge only ever leads to a node that is assigned no     *)
(* less, and nodes are merged only where they are assigned the same.       *)
(***************************************************************************)
B(n) == prog.bound[Base(n)]
Within(S, n) == \A o \in S : Base(o) \in B(n)

EdgeSound(e) ==
  /\ e.kind \in Direct => B(e.src) \subseteq B(e.dst)
  /\ e.kind = "load" => \A o \in B(e.src) : B(o) \subseteq B(e.dst)
  /\ e.kind = "store" => \A o \in B(e.dst) : B(e.src) \subseteq B(o)

PtsSound ==
  /\ \A n \in Node : Within(pts[n], n)
  /\ \A o \in ObjNode : \A x \in revPts[o] : Base(o) \in B(x)

EdgesSound == \A e \in edges : EdgeSound(e)

RepsSound ==
  /\ \A n \in Node : B(rep[n]) = B(n)
  /\ \A n \in Node : \A m \in subs[n] : B(m) = B(n)
  /\ \A p \in merging : B(p[1]) = B(p[2])

(* What the running handler has still to do.                               *)
HandlerSound ==
  /\ \A e \in edgesLeft : EdgeSound(e)
  /\ pc = "copygep" => Within(diff, cur) /\ \A e \in edgesLeft : e.src = cur /\ e.kind \in Direct
  /\ pc = "post" => \A e \in edgesLeft : \/ e.kind = "load" /\ e.src = cur
                                         \/ e.kind = "store" /\ e.dst = cur
  /\ IF gep = None THEN tmpDstPts = {}
     ELSE gep.kind \in Direct /\ Within(ptdsLeft, gep.dst) /\ Within(tmpDstPts, gep.dst)
  /\ \A f \in fieldsLeft : Base(f) = collapsing
  /\ \A p \in cpySrcNodes : B(p[1]) \subseteq B(p[2])

Sound == BoundCovers(prog) /\ PtsSound /\ EdgesSound /\ RepsSound /\ HandlerSound
-----------------------------------------------------------------------------
(* unionPts() of sets within bound keeps all sets within bound.            *)
LEMMA UnionPtsSound ==
  ASSUME TypeOK, PtsSound, prog' = prog,
         NEW D, \A n \in Node : Within(D[n], n), UnionPts(D)
  PROVE  PtsSound'
BY DEF UnionPts, PtsSound, Within, B

(* The same for a set that flows into one node.                            *)
LEMMA IntoSound ==
  ASSUME NEW d \in Node, NEW S, Within(S, d)
  PROVE  \A n \in Node : Within(Into(d, S)[n], n)
BY DEF Into, Within

(* A copy edge between representatives is sound if one between the nodes   *)
(* they stand for is.                                                      *)
LEMMA NewCopyEdgesSound ==
  ASSUME TypeOK, RepsSound, NEW P \in SUBSET (Node \X Node),
         \A p \in P : B(p[1]) \subseteq B(p[2])
  PROVE  \A e \in NewCopyEdges(P) : e.kind = "copy" /\ B(e.src) \subseteq B(e.dst)
BY DEF NewCopyEdges, RepsSound

(* addCopyEdge(), which also sends what the source has, is sound.          *)
LEMMA AddCopyEdgesSound ==
  ASSUME TypeOK, PtsSound, EdgesSound, RepsSound, prog' = prog,
         NEW P \in SUBSET (Node \X Node), \A p \in P : B(p[1]) \subseteq B(p[2]), AddCopyEdges(P)
  PROVE  PtsSound' /\ EdgesSound'
<1> DEFINE new == NewCopyEdges(P)
           D == [n \in Node |-> UNION {pts[e.src] : e \in {f \in new : f.dst = n}}]
<1>1. edges' = edges \union new /\ UnionPts(D)
  BY DEF AddCopyEdges
<1>2. new \subseteq Edge /\ \A e \in new : e.kind = "copy" /\ B(e.src) \subseteq B(e.dst)
  BY NewCopyEdgesType, NewCopyEdgesSound
<1> HIDE DEF new
<1>3. \A n \in Node : Within(D[n], n)
  <2>1. \A e \in new : Within(pts[e.src], e.dst)
    BY <1>2 DEF PtsSound, Within, Edge
  <2> QED
    BY <2>1 DEF Within
<1> HIDE DEF D
<1>4. PtsSound'
  BY <1>1, <1>3, UnionPtsSound
<1>5. EdgesSound'
  BY <1>1, <1>2 DEF EdgesSound, EdgeSound, B
<1> QED
  BY <1>4, <1>5

(* Edges stay sound when they are retargeted to a node of the same bound.  *)
LEMMA MoveEdgesSound ==
  ASSUME NEW E \in SUBSET Edge, \A e \in E : EdgeSound(e), NEW n \in Node, NEW r \in Node, B(n) = B(r)
  PROVE  /\ \A e \in MoveInEdges(E, n, r) : EdgeSound(e)
         /\ \A e \in MoveOutEdges(E, n, r) : EdgeSound(e)
<1>1. \A e \in E : e.dst = n => EdgeSound([e EXCEPT !.dst = r])
  BY DEF EdgeSound, Edge
<1>2. \A e \in E : e.src = n => EdgeSound([e EXCEPT !.src = r])
  BY DEF EdgeSound, Edge
<1> QED
  BY <1>1, <1>2 DEF MoveInEdges, MoveOutEdges

(* Merging two nodes of the same bound is sound.                           *)
LEMMA MergeNodeToRepSound ==
  ASSUME TypeOK, PtsSound, EdgesSound, prog' = prog,
         NEW n \in Node, NEW r \in Node, B(n) = B(r),
         NEW P \in [Node -> SUBSET ObjNode], \A m \in Node : Within(P[m], m),
         MergeNodeToRep(n, r, P)
  PROVE  PtsSound' /\ EdgesSound'
<1> DEFINE E1 == MoveInEdges(edges, n, r)
           E2 == MoveOutEdges(E1, n, r)
<1>1. E1 \subseteq Edge /\ \A e \in E1 : EdgeSound(e)
  BY MoveEdgesType, MoveEdgesSound DEF EdgesSound, TypeOK
<1> HIDE DEF E1
<1>2. \A e \in E2 : EdgeSound(e)
  BY <1>1, MoveEdgesSound
<1>3. edges' = E2
  BY DEF MergeNodeToRep, E1
<1> HIDE DEF E2
<1>4. EdgesSound'
  BY <1>2, <1>3 DEF EdgesSound, EdgeSound, B
<1>5. pts' = [P EXCEPT ![r] = @ \union P[n]]
      /\ revPts' = [o \in ObjNode |-> IF o \in P[n] THEN revPts[o] \union {r} ELSE revPts[o]]
  BY DEF MergeNodeToRep
<1>6. \A m \in Node : Within(pts'[m], m)
  BY <1>5 DEF Within
<1>7. \A o \in ObjNode : \A x \in revPts'[o] : Base(o) \in B(x)
  BY <1>5 DEF PtsSound, Within
<1> QED
  BY <1>4, <1>6, <1>7 DEF PtsSound, Within, B

(* Within a component everything is assigned the same: the nodes that are  *)
(* assigned no less than a given one would otherwise have an edge out.     *)
LEMMA ComponentSound ==
  ASSUME TypeOK, EdgesSound, NEW c \in SUBSET nodes, StronglyConnected(c), NEW m \in c, NEW n \in c
  PROVE  B(m) \subseteq B(n)
<1> DEFINE A == {x \in c : B(m) \subseteq B(x)}
<1>1. m \in A
  OBVIOUS
<1>2. ASSUME A # c PROVE FALSE
  <2>1. A \in (SUBSET c) \ {{}, c}
    BY <1>1, <1>2
  <2>2. PICK e \in DirectPairs : e[1] \in A /\ e[2] \in c \ A
    BY <2>1 DEF StronglyConnected
  <2>3. PICK d \in edges : d.kind \in Direct /\ e = <<d.src, d.dst>>
    BY <2>2 DEF DirectPairs
  <2>4. B(d.src) \subseteq B(d.dst)
    BY <2>3 DEF EdgesSound, EdgeSound
  <2> QED
    BY <2>2, <2>3, <2>4
<1> QED
  BY <1>2
-----------------------------------------------------------------------------
(* The graph of the program is sound: its bound is a solution.             *)
LEMMA InitSound == Init => Sound
<1> SUFFICES ASSUME Init PROVE Sound
  OBVIOUS
<1>1. prog \in Program /\ BoundCovers(prog)
  BY ProgramAssumption DEF Init
<1>2. EdgesSound
  BY <1>1 DEF Init, BoundCovers, EdgesSound, EdgeSound, B
<1>3. PtsSound /\ RepsSound /\ HandlerSound
  BY DEF Init, PtsSound, Within, RepsSound, HandlerSound
<1> QED
  BY <1>1, <1>2, <1>3 DEF Sound

(* An object is its own base.                                              *)
LEMMA PointeeBound ==
  /\ \A o \in ObjNode : B(Base(o)) = B(o) /\ Base(Base(o)) = Base(o)
  /\ \A o \in Obj : Base(o) = o
BY BaseType DEF B, Node

(* The wave sends facts along sound edges.                                 *)
LEMMA WaveSound ==
  ASSUME TypeOK, CurOK, Sound, prog' = prog,
         ProcessNode \/ ProcessPWCNode \/ ResumePWCNode \/ ProcessCopy \/ ProcessGep \/ GepPtd
         \/ FinishGep \/ FinishCopyGep
  PROVE  Sound'
<1> USE DEF Sound, graphVars, ptVars, diffVars, gepVars, sccVars, collapseVars, callVars
<1>1. ASSUME NEW n \in Node, HandleCopyGep(n),
             UNCHANGED <<prog, edges, rep, subs, ptVars, gepVars, merging, fieldsLeft, collapsing,
                         cpySrcNodes>>
      PROVE  Sound'
  <2>1. PtsSound' /\ EdgesSound' /\ RepsSound'
    BY <1>1 DEF PtsSound, EdgesSound, EdgeSound, RepsSound, Within, B
  <2>2. CASE rep[n] = n /\ pts[n] \ propa[n] # {}
    <3>1. diff' = pts[n] \ propa[n] /\ cur' = n /\ pc' = "copygep"
          /\ edgesLeft' = {e \in edges : e.src = n /\ e.kind \in Direct}
      BY <1>1, <2>2 DEF HandleCopyGep
    <3>2. Within(diff', n) /\ \A e \in edgesLeft' : EdgeSound(e)
      BY <3>1 DEF PtsSound, EdgesSound, Within
    <3>3. HandlerSound'
      BY <1>1, <3>1, <3>2 DEF HandlerSound, EdgeSound, Within, B
    <3> QED
      BY <1>1, <2>1, <3>3 DEF BoundCovers
  <2>3. CASE ~(rep[n] = n /\ pts[n] \ propa[n] # {})
    <3>1. pc' = "wave" /\ edgesLeft' = edgesLeft
      BY <1>1, <2>3 DEF HandleCopyGep
    <3>2. HandlerSound'
      BY <1>1, <3>1 DEF HandlerSound, EdgeSound, Within, B
    <3> QED
      BY <1>1, <2>1, <3>2 DEF BoundCovers
  <2> QED
    BY <2>2, <2>3
<1>2. CASE ProcessNode
  <2>1. TopOfStack \subseteq Node
    BY PickSub DEF TopOfStack, TypeOK
  <2> QED
    BY <1>1, <1>2, <2>1 DEF ProcessNode
<1>3. CASE ProcessPWCNode
  BY <1>3 DEF ProcessPWCNode, PtsSound, EdgesSound, EdgeSound, RepsSound, HandlerSound, Within, B
<1>4. CASE ResumePWCNode
  BY <1>1, <1>4 DEF ResumePWCNode, CurOK
<1>5. CASE ProcessCopy
  <2>1. PICK e \in edgesLeft : UnionPts(Into(e.dst, diff)) /\ edgesLeft' = edgesLeft \ {e}
    BY <1>5, PickSub DEF ProcessCopy
  <2>2. e \in Edge /\ EdgeSound(e) /\ e.src = cur /\ e.kind \in Direct /\ Within(diff, cur)
    BY <1>5, <2>1 DEF ProcessCopy, HandlerSound, TypeOK
  <2>3. e.dst \in Node /\ Within(diff, e.dst)
    BY <2>2 DEF Edge, EdgeSound, Within
  <2>4. PtsSound'
    BY <2>1, <2>3, IntoSound, UnionPtsSound
  <2> QED
    BY <1>5, <2>1, <2>4 DEF ProcessCopy, EdgesSound, EdgeSound, RepsSound, HandlerSound, Within, B
<1>6. CASE ProcessGep
  <2>1. PICK e \in edgesLeft : gep' = e /\ edgesLeft' = edgesLeft \ {e}
    BY <1>6, PickSub DEF ProcessGep
  <2>2. e \in Edge /\ EdgeSound(e) /\ e.src = cur /\ e.kind \in Direct /\ Within(diff, cur)
        /\ tmpDstPts = {}
    BY <1>6, <2>1 DEF ProcessGep, HandlerSound, TypeOK
  <2>3. Within(ptdsLeft', e.dst) /\ tmpDstPts' = {}
    BY <1>6, <2>2 DEF ProcessGep, EdgeSound, Within
  <2>4. HandlerSound'
    BY <1>6, <2>1, <2>2, <2>3 DEF ProcessGep, HandlerSound, EdgeSound, Within, B
  <2> QED
    BY <1>6, <2>4 DEF ProcessGep, PtsSound, EdgesSound, EdgeSound, RepsSound, Within, B
<1>7. CASE GepPtd
  <2>1. PICK m \in ptdsLeft : ptdsLeft' = ptdsLeft \ {m}
                             /\ (GepBlkOrConst(m) \/ GepVariant(m) \/ GepNormal(m))
    BY <1>7, PickSub DEF GepPtd
  <2>2. m \in ObjNode /\ gep \in Edge /\ gep.kind \in Direct /\ Base(m) \in B(gep.dst)
        /\ Base(Base(m)) = Base(m) /\ gep.off \in Nat
    BY <1>7, <2>1, PointeeBound DEF GepPtd, TypeOK, HandlerSound, Within, Edge
  <2>3. PtsSound' /\ EdgesSound' /\ Within(tmpDstPts', gep.dst)
    <3>1. CASE GepBlkOrConst(m) \/ GepVariant(m)
      BY <1>7, <2>2, <3>1 DEF GepPtd, GepBlkOrConst, GepVariant, HandlerSound, PtsSound, EdgesSound,
                              EdgeSound, Within, B
    <3>2. CASE GepNormal(m)
      <4> DEFINE f == GepObj(m, gep.off)
                 P == IF gep.off = 0 THEN {<<Base(f), f>>} ELSE {}
      <4>1. f \in ObjNode /\ Base(f) = Base(m) /\ B(Base(f)) = B(f) /\ Base(f) \in Obj
        BY <2>2, GepObjType, PointeeBound, BaseType
      <4>2. P \in SUBSET (Node \X Node) /\ \A p \in P : B(p[1]) \subseteq B(p[2])
        BY <4>1 DEF Node, ObjNode
      <4>3. AddCopyEdges(P) /\ tmpDstPts' = tmpDstPts \union {f}
        BY <3>2 DEF GepNormal
      <4>4. Within(tmpDstPts', gep.dst)
        BY <1>7, <2>2, <4>1, <4>3 DEF GepPtd, HandlerSound, Within
      <4> HIDE DEF P
      <4> QED
        BY <4>2, <4>3, <4>4, AddCopyEdgesSound
    <3> QED
      BY <2>1, <3>1, <3>2
  <2>4. HandlerSound'
    BY <1>7, <2>1, <2>3 DEF GepPtd, HandlerSound, EdgeSound, Within, B
  <2> QED
    BY <1>7, <2>3, <2>4 DEF GepPtd, RepsSound, B
<1>8. CASE FinishGep
  <2>1. gep \in Edge /\ Within(tmpDstPts, gep.dst) /\ UnionPts(Into(gep.dst, tmpDstPts))
    BY <1>8 DEF FinishGep, HandlerSound, TypeOK
  <2>2. PtsSound'
    BY <2>1, IntoSound, UnionPtsSound DEF Edge
  <2> QED
    BY <1>8, <2>2 DEF FinishGep, EdgesSound, EdgeSound, RepsSound, HandlerSound, Within, B
<1>9. CASE FinishCopyGep
  BY <1>9 DEF FinishCopyGep, PtsSound, EdgesSound, EdgeSound, RepsSound, HandlerSound, Within, B
<1> QED
  BY <1>2, <1>3, <1>4, <1>5, <1>6, <1>7, <1>8, <1>9

(* Merging a component joins nodes that are assigned the same.             *)
LEMMA MergeSound ==
  ASSUME TypeOK, Sound, prog' = prog, SCCDetect \/ MergeSccNode \/ UpdateReps
  PROVE  Sound'
<1> USE DEF Sound, graphVars, ptVars, diffVars, gepVars, sccVars, collapseVars, callVars
<1>1. CASE SCCDetect
  <2>1. \A p \in merging' : B(p[1]) = B(p[2])
    BY <1>1, SCCDetectType, ComponentSound
  <2>2. pc' \in {"wave", "merge"}
    BY <1>1, SCCDetectType
  <2>3. RepsSound'
    BY <1>1, <2>1 DEF SCCDetect, RepsSound, B
  <2> QED
    BY <1>1, <2>2, <2>3 DEF SCCDetect, PtsSound, EdgesSound, EdgeSound, HandlerSound, Within, B
<1>2. CASE MergeSccNode
  <2>1. PICK p \in merging :
          /\ MergeNodeToRep(p[1], p[2], pts)
          /\ rep' = [rep EXCEPT ![p[1]] = p[2]]
          /\ subs' = [subs EXCEPT ![p[2]] = @ \union {p[1]}]
          /\ merging' = merging \ {p}
    BY <1>2, PickSub DEF MergeSccNode
  <2>2. p[1] \in Node /\ p[2] \in Node /\ B(p[1]) = B(p[2]) /\ pts \in [Node -> SUBSET ObjNode]
        /\ \A m \in Node : Within(pts[m], m)
    BY DEF TypeOK, RepsSound, PtsSound
  <2>3. PtsSound' /\ EdgesSound'
    BY <2>1, <2>2, MergeNodeToRepSound
  <2>4. RepsSound'
    <3>1. \A n \in Node : B(rep'[n]) = B(n)
      BY <2>1, <2>2 DEF RepsSound, TypeOK
    <3>2. \A n \in Node : \A m \in subs'[n] : B(m) = B(n)
      BY <2>1, <2>2 DEF RepsSound, TypeOK
    <3>3. \A q \in merging' : B(q[1]) = B(q[2])
      BY <2>1 DEF RepsSound
    <3> QED
      BY <3>1, <3>2, <3>3 DEF RepsSound, B
  <2> QED
    BY <1>2, <2>3, <2>4 DEF MergeSccNode, HandlerSound, EdgeSound, Within, B
<1>3. CASE UpdateReps
  <2>1. \A n \in Node : B(rep'[n]) = B(n)
    <3>1. ASSUME NEW n \in Node, \E c \in changedReps : n \in subs[c]
          PROVE  B(rep'[n]) = B(n)
      <4> DEFINE c == CHOOSE d \in changedReps : n \in subs[d]
      <4>1. c \in changedReps /\ n \in subs[c]
        BY <3>1
      <4>2. rep'[n] = rep[c]
        BY <1>3, <3>1 DEF UpdateReps
      <4> HIDE DEF c
      <4> QED
        BY <4>1, <4>2 DEF RepsSound, TypeOK
    <3>2. ASSUME NEW n \in Node, ~\E c \in changedReps : n \in subs[c]
          PROVE  B(rep'[n]) = B(n)
      BY <1>3, <3>2 DEF UpdateReps, RepsSound
    <3> QED
      BY <3>1, <3>2
  <2>2. \A n \in Node : \A m \in subs'[n] : B(m) = B(n)
    BY <1>3 DEF UpdateReps, RepsSound, TypeOK
  <2>3. RepsSound'
    BY <1>3, <2>1, <2>2 DEF UpdateReps, RepsSound, B
  <2> QED
    BY <1>3, <2>3 DEF UpdateReps, PtsSound, EdgesSound, EdgeSound, HandlerSound, Within, B
<1> QED
  BY <1>1, <1>2, <1>3

(* Collapsing an object leaves every fact within its object.               *)
LEMMA CollapseSound ==
  ASSUME TypeOK, Sound, prog' = prog,
         CollapseNext \/ CollapseNodePts \/ CollapseOneField \/ FinishCollapseField
  PROVE  Sound'
<1> USE DEF Sound, graphVars, ptVars, diffVars, gepVars, sccVars, collapseVars, callVars, fiVars
<1>1. ASSUME NEW o, CollapseField(o), \A f \in fieldsLeft : Base(f) = collapsing
      PROVE  \A f \in fieldsLeft' : Base(f) = collapsing'
  BY <1>1 DEF CollapseField
<1>2. CASE CollapseNext \/ CollapseNodePts \/ FinishCollapseField
  <2>1. \A f \in fieldsLeft' : Base(f) = collapsing'
    BY <1>1, <1>2 DEF CollapseNext, CollapseNodePts, FinishCollapseField, HandlerSound
  <2>2. UNCHANGED <<prog, graphVars, ptVars, diff, cur, edgesLeft, gepVars, merging, cpySrcNodes>>
        /\ (pc' = pc \/ pc' = "wave")
    BY <1>2 DEF CollapseNext, CollapseNodePts, FinishCollapseField
  <2> QED
    BY <2>1, <2>2 DEF PtsSound, EdgesSound, EdgeSound, RepsSound, HandlerSound, Within, B
<1>3. CASE CollapseOneField
  <2>1. PICK f \in fieldsLeft :
          fieldsLeft' = fieldsLeft \ {f} /\ MergeField(rep[f], rep[collapsing], Redirected(f))
    BY <1>3, PickSub DEF CollapseOneField
  <2>2. f \in ObjNode /\ f \in Node /\ collapsing \in Obj /\ collapsing \in ObjNode
        /\ collapsing \in Node /\ Base(f) = collapsing
    BY <1>3, <2>1 DEF CollapseOneField, HandlerSound, TypeOK, Node, ObjNode
  <2>3. rep[f] \in Node /\ rep[collapsing] \in Node /\ B(f) = B(collapsing)
        /\ B(rep[f]) = B(rep[collapsing]) /\ Base(collapsing) = collapsing
    BY <2>2, PointeeBound DEF TypeOK, RepsSound
  <2>4. \A x \in revPts[f] : collapsing \in B(rep[x])
    BY <2>2 DEF PtsSound, RepsSound, TypeOK
  <2>5. Redirected(f) \in [Node -> SUBSET ObjNode] /\ \A m \in Node : Within(Redirected(f)[m], m)
    BY <2>2, <2>3, <2>4 DEF Redirected, PtsSound, Within, TypeOK
  <2>6. CASE rep[f] = rep[collapsing]
    <3>1. pts' = Redirected(f) /\ UNCHANGED <<revPts, graphVars>>
      BY <2>1, <2>6 DEF MergeField
    <3>2. PtsSound'
      BY <2>5, <3>1 DEF PtsSound, Within, B
    <3>3. RepsSound' /\ HandlerSound'
      BY <1>3, <2>1, <3>1 DEF CollapseOneField, RepsSound, HandlerSound, EdgeSound, Within, B
    <3> QED
      BY <3>1, <3>2, <3>3 DEF EdgesSound, EdgeSound, B
  <2>7. CASE rep[f] # rep[collapsing]
    <3> DEFINE fr == rep[f]
               br == rep[collapsing]
    <3>1. /\ MergeNodeToRep(fr, br, Redirected(f))
          /\ rep' = [n \in Node |-> IF n = fr \/ n \in subs[fr] THEN br ELSE rep[n]]
          /\ subs' = [subs EXCEPT ![br] = @ \union {fr} \union subs[fr]]
      BY <2>1, <2>7 DEF MergeField
    <3>2. fr \in Node /\ br \in Node /\ B(fr) = B(br)
      BY <2>3
    <3> HIDE DEF fr, br
    <3>3. PtsSound' /\ EdgesSound'
      BY <2>5, <3>1, <3>2, MergeNodeToRepSound
    <3>4. \A n \in Node : B(rep'[n]) = B(n) /\ \A m \in subs'[n] : B(m) = B(n)
      BY <3>1, <3>2 DEF RepsSound, TypeOK
    <3>5. RepsSound'
      BY <1>3, <3>4 DEF CollapseOneField, RepsSound, B
    <3> QED
      BY <1>3, <2>1, <3>3, <3>5 DEF CollapseOneField, HandlerSound, EdgeSound, Within, B
  <2> QED
    BY <2>6, <2>7
<1> QED
  BY <1>2, <1>3

(* Loads, stores and resolved calls only add edges the solution allows.    *)
LEMMA PostSound ==
  ASSUME TypeOK, CurOK, Sound, prog' = prog,
         PopFromWorklist \/ HandleLoad \/ HandleStore \/ UpdateCallGraph \/ ConnectPair
         \/ FinishCallGraph
  PROVE  Sound'
<1> USE DEF Sound, graphVars, ptVars, diffVars, gepVars, sccVars, collapseVars, callVars
<1>1. CASE PopFromWorklist
  <2>1. PICK x \in worklist :
          /\ edgesLeft' = {e \in edges : (e.kind = "load" /\ e.src = rep[x])
                                         \/ (e.kind = "store" /\ e.dst = rep[x])}
          /\ IF edgesLeft' = {} THEN UNCHANGED <<cur, pc>> ELSE cur' = rep[x] /\ pc' = "post"
    BY <1>1, PickSub DEF PopFromWorklist
  <2>2. pc = "wave"
    BY <1>1 DEF PopFromWorklist, SolvePost
  <2>3. \A e \in edgesLeft' : EdgeSound(e)
    BY <2>1 DEF EdgesSound
  <2>4. pc' # "copygep" /\ (pc' = "post" =>
            \A e \in edgesLeft' : \/ e.kind = "load" /\ e.src = cur'
                                  \/ e.kind = "store" /\ e.dst = cur')
    <3>1. CASE edgesLeft' = {}
      BY <2>1, <2>2, <3>1
    <3>2. CASE edgesLeft' # {}
      BY <2>1, <3>2
    <3> QED
      BY <3>1, <3>2
  <2>5. HandlerSound'
    BY <1>1, <2>3, <2>4 DEF PopFromWorklist, HandlerSound, EdgeSound, Within, B
  <2> QED
    BY <1>1, <2>5 DEF PopFromWorklist, PtsSound, EdgesSound, EdgeSound, RepsSound, Within, B
<1>2. ASSUME NEW e \in edgesLeft, pc = "post", HandleEdge(e)
      PROVE  Sound'
  <2> DEFINE new == {o \in pts[cur] : <<e, o>> \notin cache}
             P == {IF e.kind = "load" THEN <<o, e.dst>> ELSE <<e.src, o>> :
                     o \in {m \in new : ~NoCopy(m)}}
  <2>1. e \in Edge /\ e.src \in Node /\ e.dst \in Node /\ cur \in Node /\ EdgeSound(e)
        /\ ((e.kind = "load" /\ e.src = cur) \/ (e.kind = "store" /\ e.dst = cur))
    <3>1. e \in Edge /\ cur \in Node
      BY <1>2 DEF TypeOK, CurOK
    <3>2. EdgeSound(e) /\ ((e.kind = "load" /\ e.src = cur) \/ (e.kind = "store" /\ e.dst = cur))
      BY <1>2 DEF HandlerSound
    <3> QED
      BY <3>1, <3>2 DEF Edge
  <2>2. \A o \in new : o \in ObjNode /\ o \in Node /\ Base(o) \in B(cur) /\ B(Base(o)) = B(o)
    BY <2>1, PointeeBound DEF PtsSound, Within, TypeOK, Node
  <2>3. ASSUME NEW o \in new
        PROVE  IF e.kind = "load" THEN B(o) \subseteq B(e.dst) ELSE B(e.src) \subseteq B(o)
    BY <2>1, <2>2 DEF EdgeSound
  <2>4. AddCopyEdges(P)
    BY <1>2 DEF HandleEdge
  <2>5. P \in SUBSET (Node \X Node) /\ \A p \in P : B(p[1]) \subseteq B(p[2])
    <3> HIDE DEF new
    <3>1. CASE e.kind = "load"
      <4>1. \A p \in P : \E o \in new : p = <<o, e.dst>>
        BY <3>1
      <4> QED
        BY <2>1, <2>2, <2>3, <3>1, <4>1
    <3>2. CASE e.kind # "load"
      <4>1. \A p \in P : \E o \in new : p = <<e.src, o>>
        BY <3>2
      <4> QED
        BY <2>1, <2>2, <2>3, <3>2, <4>1
    <3> QED
      BY <3>1, <3>2
  <2> HIDE DEF P
  <2>6. PtsSound' /\ EdgesSound'
    BY <2>4, <2>5, AddCopyEdgesSound
  <2>7. edgesLeft' = edgesLeft \ {e} /\ (pc' = "wave" \/ UNCHANGED <<cur, pc>>)
    BY <1>2 DEF HandleEdge
  <2>8. HandlerSound'
    BY <1>2, <2>7 DEF HandleEdge, HandlerSound, EdgeSound, Within, B
  <2> QED
    BY <1>2, <2>6, <2>8 DEF HandleEdge, RepsSound, B
<1>3. CASE HandleLoad \/ HandleStore
  BY <1>2, <1>3, PickSub DEF HandleLoad, HandleStore
<1>4. CASE UpdateCallGraph
  <2>1. PICK new \in SUBSET NewTargets :
          LET copies == NewCopyEdges(UNION {c.flow : c \in new})
          IN edges' = edges \union copies /\ cpySrcNodes' = {<<e.src, e.dst>> : e \in copies}
    BY <1>4 DEF UpdateCallGraph
  <2> DEFINE P == UNION {c.flow : c \in new}
  <2>2. ASSUME NEW c \in new
        PROVE  c.flow \subseteq Node \X Node /\ \A f \in c.flow : B(f[1]) \subseteq B(f[2])
    <3>1. c \in prog.icalls /\ c.fun \in pts[rep[c.fp]]
      BY DEF NewTargets
    <3>2. c.fp \in Node /\ c.fun \in Obj /\ c.flow \subseteq Node \X Node /\ rep[c.fp] \in Node
      BY <3>1 DEF TypeOK, Program, Node
    <3>3. c.fun \in B(c.fp)
      BY <3>1, <3>2, PointeeBound DEF PtsSound, RepsSound, Within
    <3> QED
      BY <3>1, <3>2, <3>3 DEF BoundCovers, B
  <2>3. P \in SUBSET (Node \X Node) /\ \A p \in P : B(p[1]) \subseteq B(p[2])
    BY <2>2
  <2>4. edges' = edges \union NewCopyEdges(P)
        /\ cpySrcNodes' = {<<e.src, e.dst>> : e \in NewCopyEdges(P)}
    BY <2>1
  <2> HIDE DEF P
  <2>5. \A e \in NewCopyEdges(P) : e.kind = "copy" /\ B(e.src) \subseteq B(e.dst)
    BY <2>3, NewCopyEdgesSound
  <2>6. EdgesSound'
    BY <2>4, <2>5 DEF EdgesSound, EdgeSound, B
  <2>7. \A p \in cpySrcNodes' : B(p[1]) \subseteq B(p[2])
    BY <2>4, <2>5
  <2>8. HandlerSound'
    BY <1>4, <2>7 DEF UpdateCallGraph, HandlerSound, EdgeSound, Within, B
  <2> QED
    BY <1>4, <2>6, <2>8 DEF UpdateCallGraph, PtsSound, RepsSound, Within, B
<1>5. CASE ConnectPair
  <2>1. PICK p \in cpySrcNodes :
          UnionPts(Into(rep[p[2]], pts[rep[p[1]]])) /\ cpySrcNodes' = cpySrcNodes \ {p}
    BY <1>5, PickSub DEF ConnectPair
  <2>2. rep[p[1]] \in Node /\ rep[p[2]] \in Node /\ B(rep[p[1]]) \subseteq B(rep[p[2]])
    BY DEF TypeOK, HandlerSound, RepsSound
  <2>3. Within(pts[rep[p[1]]], rep[p[2]])
    BY <2>2 DEF PtsSound, Within
  <2>4. PtsSound'
    BY <2>1, <2>2, <2>3, IntoSound, UnionPtsSound
  <2> QED
    BY <1>5, <2>1, <2>4 DEF ConnectPair, EdgesSound, EdgeSound, RepsSound, HandlerSound, Within, B
<1>6. CASE FinishCallGraph
  BY <1>6 DEF FinishCallGraph, PtsSound, EdgesSound, EdgeSound, RepsSound, HandlerSound, Within, B
<1> QED
  BY <1>1, <1>3, <1>4, <1>5, <1>6
-----------------------------------------------------------------------------
(* The inductive invariant.                                                *)
THEOREM SoundAlways == Spec => []Sound
<1>1. Init => Sound
  BY InitSound
<1>2. TypeOK /\ CurOK /\ Sound /\ [Next]_vars => Sound'
  <2> SUFFICES ASSUME TypeOK, CurOK, Sound, [Next]_vars PROVE Sound'
    OBVIOUS
  <2>1. CASE ProcessAllAddr
    <3> DEFINE D == [n \in Node |-> {o \in Obj : <<o, n>> \in prog.addr}]
    <3>1. UnionPts(D) /\ prog' = prog
      BY <2>1 DEF ProcessAllAddr
    <3>2. \A n \in Node : Within(D[n], n)
      <4>1. \A o \in Obj : Base(o) = o
        BY PointeeBound
      <4> QED
        BY <4>1 DEF Sound, BoundCovers, Within, B
    <3> HIDE DEF D
    <3>3. PtsSound'
      BY <3>1, <3>2, UnionPtsSound DEF Sound
    <3> QED
      BY <2>1, <3>3 DEF ProcessAllAddr, Sound, EdgesSound, EdgeSound, RepsSound, HandlerSound, Within, B,
                        graphVars, diffVars, gepVars, sccVars, collapseVars, callVars
  <2>2. CASE SCCDetect \/ MergeSccNode \/ UpdateReps
    <3>1. prog' = prog
      BY <2>2 DEF SCCDetect, MergeSccNode, UpdateReps
    <3> QED
      BY <2>2, <3>1, MergeSound
  <2>3. CASE ProcessNode \/ ProcessPWCNode \/ ResumePWCNode \/ ProcessCopy \/ ProcessGep
             \/ GepPtd \/ FinishGep \/ FinishCopyGep
    <3>1. prog' = prog
      BY <2>3 DEF ProcessNode, ProcessPWCNode, ResumePWCNode, ProcessCopy, ProcessGep, GepPtd,
                  FinishGep, FinishCopyGep
    <3> QED
      BY <2>3, <3>1, WaveSound
  <2>4. CASE CollapseNext \/ CollapseNodePts \/ CollapseOneField \/ FinishCollapseField
    <3>1. prog' = prog
      BY <2>4 DEF CollapseNext, CollapseNodePts, CollapseOneField, FinishCollapseField
    <3> QED
      BY <2>4, <3>1, CollapseSound
  <2>5. CASE PopFromWorklist \/ HandleLoad \/ HandleStore \/ UpdateCallGraph \/ ConnectPair
             \/ FinishCallGraph
    <3>1. prog' = prog
      BY <2>5 DEF PopFromWorklist, HandleLoad, HandleStore, HandleEdge, UpdateCallGraph, ConnectPair,
                  FinishCallGraph
    <3> QED
      BY <2>5, <3>1, PostSound
  <2>6. CASE Terminated \/ UNCHANGED vars
    BY <2>6 DEF Terminated, vars, Sound, PtsSound, EdgesSound, EdgeSound, RepsSound, HandlerSound,
                Within, B, graphVars, ptVars, diffVars, gepVars, sccVars, collapseVars, callVars
  <2> QED
    BY <2>1, <2>2, <2>3, <2>4, <2>5, <2>6 DEF Next
<1> QED
  BY <1>1, <1>2, TypeCorrect, PTL DEF Spec

(* Whatever is merged, collapsed or cached, the analysis is at least as    *)
(* precise as a field-insensitive one.                                     *)
THEOREM AndersenIsPrecise == Spec => []Precision
<1>1. Sound => Precision
  BY DEF Sound, PtsSound, Within, B, Precision
<1> QED
  BY <1>1, SoundAlways, PTL
=============================================================================
